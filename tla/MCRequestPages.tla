---------------------------- MODULE MCRequestPages ----------------------------
(***************************************************************************)
(* Small instances of RequestPages for TLC.                                *)
(***************************************************************************)
EXTENDS RequestPages, TLC

Symmetry == Permutations(Keys) \union Permutations(Tabs)

(***************************************************************************)
(* States that users pass through, with room for more after them: every    *)
(* request was created and is shown in the list of tab t, as pending, or   *)
(* as provided by people who have closed their pages.                      *)
(***************************************************************************)
InitWhere(status, record(_), entry(_)) ==
  /\ \E k \in [Ids -> Keys], t \in Tabs :
       /\ IsInjective(k)
       /\ server = [i \in Ids |-> record(k[i])]
       /\ store = [i \in Ids |-> entry(k[i])]
       /\ links = {LinkTo(i, k[i]) : i \in Ids}
       /\ tab = [u \in Tabs |->
                   IF u # t THEN FreshTab("create")
                   ELSE [FreshTab("list") EXCEPT
                           !.shown = store,
                           !.status = [i \in Ids |-> status],
                           !.badge = IF status = "fulfilled" THEN Cardinality(Ids)
                                     ELSE 0]]
  /\ lapsed = {} /\ files = {} /\ mishap = {}
  /\ calls = <<>> /\ rounds = <<>>
  /\ acts = 0 /\ faults = 0
  /\ fate = [i \in Ids |-> "none"]
  /\ page = [p \in Responders |-> Closed]

Pending(k)  == [state |-> "pending", key |-> k, cipher |-> NoKey]
Answer(k)   == [state |-> "fulfilled", key |-> k, cipher |-> k]
Cached(k)   == [NewEntry(k) EXCEPT !.fulfilled = TRUE]

ListedSpec   == InitWhere("pending", Pending, NewEntry) /\ [][Next]_vars
ProvidedSpec == InitWhere("fulfilled", Answer, Cached) /\ [][Next]_vars
==============================================================================
