-------------------------- MODULE ReceiptPagesProofs --------------------------
(***************************************************************************)
(* Proofs about ReceiptPages: for any number of receipts and of refreshes  *)
(* in flight, nothing is reported as opened that was not, and no receipt   *)
(* comes back that was removed.                                            *)
(***************************************************************************)
EXTENDS ReceiptPages, TLAPS

(***************************************************************************)
(* Whoever says "viewed" about a receipt, or is about to, has it from the  *)
(* server, which says it only of a secret that was opened.                 *)
(***************************************************************************)
ServerInv == \A i \in Ids : server[i] = "viewed" => i \in opened
RoundInv  == \A r \in Started, i \in Ids :
               round[r].got[i] = "viewed" => i \in opened

HearsayInv == TypeOK /\ ServerInv /\ RoundInv /\ NeverFalselyViewed

------------------------------------------------------------------------------
\* The invariant holds initially and is kept by every step.
LEMMA HearsayStutter == HearsayInv /\ UNCHANGED vars => HearsayInv'
  BY DEF HearsayInv, TypeOK, ServerInv, RoundInv, NeverFalselyViewed, Started, vars

\* Nothing was opened or reported yet.
LEMMA HearsayInit == Init => HearsayInv
<1> SUFFICES ASSUME Init PROVE HearsayInv
  OBVIOUS
<1>1. TypeOK
  BY DEF Init, TypeOK, States, FreshPanel, Panel, Loading, Statuses
<1> QED
  BY <1>1 DEF Init, HearsayInv, ServerInv, RoundInv, NeverFalselyViewed, Started,
              FreshPanel, Loading, Absent

\* Saving a receipt and removing receipts make none of them say "viewed".
LEMMA SavedStore ==
  ASSUME NEW s \in [Ids -> States \union {Absent}], NEW i \in Ids
  PROVE  /\ SaveNewReceipt(s, i) \in [Ids -> States \union {Absent}]
         /\ \A j \in Ids : SaveNewReceipt(s, i)[j] = "viewed" => s[j] = "viewed"
  BY DEF SaveNewReceipt, States

\* What remains in the store is as it was.
LEMMA RemovedStore ==
  ASSUME NEW s \in [Ids -> States \union {Absent}], NEW I \in SUBSET Ids
  PROVE  /\ RemoveStored(s, I) \in [Ids -> States \union {Absent}]
         /\ \A j \in Ids : RemoveStored(s, I)[j] = "viewed" => s[j] = "viewed"
  BY DEF RemoveStored, Absent

\* A new receipt is stored without a state.
LEMMA CreatedStep ==
  ASSUME HearsayInv, NEW i \in Ids, Created(i)
  PROVE  HearsayInv'
<1> USE DEF HearsayInv, TypeOK
<1>1. /\ store' \in [Ids -> States \union {Absent}]
      /\ \A j \in Ids : store'[j] = "viewed" => store[j] = "viewed"
  BY SavedStore DEF Created
<1>2. panel' \in Panel /\ (panel'.receipt = "viewed" => panel.receipt = "viewed")
  <2>1. panel' = panel \/ panel' = FreshPanel
    BY DEF Created
  <2>2. FreshPanel \in Panel /\ FreshPanel.receipt # "viewed"
    BY DEF FreshPanel, Panel
  <2> QED
    BY <2>1, <2>2
<1>3. /\ server' \in [Ids -> {"unused", "pending", "viewed", "gone"}]
      /\ ServerInv'
  BY DEF Created, ServerInv
<1>4. TypeOK'
  BY <1>1, <1>2, <1>3 DEF Created
<1>5. NeverFalselyViewed'
  BY <1>1, <1>2 DEF Created, NeverFalselyViewed
<1>6. RoundInv'
  BY DEF Created, RoundInv, Started
<1> QED
  BY <1>3, <1>4, <1>5, <1>6

\* A refresh begins with what the store already says.
LEMMA PanelRefreshStep == HearsayInv /\ PanelRefresh => HearsayInv'
<1> SUFFICES ASSUME HearsayInv, PanelRefresh PROVE HearsayInv'
  OBVIOUS
<1> DEFINE new == [by |-> "panel", transit |-> {},
                   got |-> [i \in Ids |-> IF i = result THEN "asked" ELSE "absent"]]
<1>1. round' = [round EXCEPT ![Free] = new]
  BY DEF PanelRefresh
<1>2. new \in Round
  BY DEF Round
<1>3. \A i \in Ids : new.got[i] # "viewed"
  OBVIOUS
<1> HIDE DEF new
<1>4. round' \in [Rounds -> Round \union {NoRound}]
  BY <1>1, <1>2 DEF HearsayInv, TypeOK
<1>5. RoundInv'
  BY <1>1, <1>3 DEF HearsayInv, TypeOK, RoundInv, Started, PanelRefresh
<1> QED
  BY <1>4, <1>5 DEF PanelRefresh, HearsayInv, TypeOK, ServerInv, NeverFalselyViewed

\* So does a refresh of the list.
LEMMA ListRefreshedStep ==
  ASSUME HearsayInv, NEW s \in [Ids -> States \union {Absent}],
         \A i \in Ids : s[i] = "viewed" => i \in opened,
         ListRefreshed(s), store' = s, UNCHANGED <<server, opened, lapsed, result, panel>>
  PROVE  HearsayInv'
<1> DEFINE got == [i \in Ids |-> Local(s, i)]
           new == [by |-> "list", transit |-> {}, got |-> got]
<1>1. got \in [Ids -> Statuses \union {"absent", "asked"}]
  BY DEF Local, Statuses
<1>2. \A i \in Ids : got[i] = "viewed" => i \in opened
  BY DEF Local
<1>3. new \in Round /\ new.got = got
  BY <1>1 DEF Round
<1>4. \/ round' = [round EXCEPT ![Free] = new] /\ list' = list
      \/ /\ round' = round /\ list' = Statused(got)
         /\ \A i \in Ids : got[i] # "asked"
  BY DEF ListRefreshed
<1> HIDE DEF got, new
<1>5. round' \in [Rounds -> Round \union {NoRound}]
  BY <1>3, <1>4 DEF HearsayInv, TypeOK
<1>6. RoundInv'
  <2> SUFFICES ASSUME NEW r \in Rounds, round'[r] # NoRound, NEW i \in Ids,
                      round'[r].got[i] = "viewed"
               PROVE  i \in opened
    BY DEF RoundInv, Started
  <2>1. round'[r] = round[r] \/ round'[r] = new
    BY <1>4 DEF HearsayInv, TypeOK
  <2> QED
    BY <2>1, <1>2, <1>3 DEF HearsayInv, RoundInv, Started
<1>7. list' \in [Ids -> Statuses] /\ \A i \in Ids : list'[i] = "viewed" => i \in opened
  BY <1>1, <1>2, <1>4 DEF Statused, Statuses, HearsayInv, TypeOK, NeverFalselyViewed
<1> QED
  BY <1>5, <1>6, <1>7 DEF HearsayInv, TypeOK, ServerInv, NeverFalselyViewed

\* What the server says of a receipt it says truly.
LEMMA ServeStep ==
  ASSUME HearsayInv, NEW r \in Rounds, NEW i \in Ids, Serve(r, i)
  PROVE  HearsayInv'
<1>1. round[r] \in Round /\ r \in Started
  BY DEF Serve, Started, HearsayInv, TypeOK
<1>2. Truth(i) \in {"pending", "viewed", "expired"}
      /\ (Truth(i) = "viewed" => i \in opened)
  BY DEF Truth, HearsayInv, ServerInv
<1> DEFINE new == [round[r] EXCEPT !.got[i] = Truth(i), !.transit = @ \union {i}]
<1>3. round' = [round EXCEPT ![r] = new]
  BY <1>1 DEF Serve, HearsayInv, TypeOK, Round
<1>4. new \in Round /\ \A j \in Ids : new.got[j] = "viewed" => j \in opened
  BY <1>1, <1>2 DEF Round, Statuses, HearsayInv, RoundInv
<1> HIDE DEF new
<1>5. round' \in [Rounds -> Round \union {NoRound}]
  BY <1>3, <1>4 DEF HearsayInv, TypeOK
<1>6. RoundInv'
  <2> SUFFICES ASSUME NEW q \in Rounds, round'[q] # NoRound, NEW j \in Ids,
                      round'[q].got[j] = "viewed"
               PROVE  j \in opened
    BY DEF RoundInv, Started, Serve
  <2>1. round'[q] = round[q] \/ round'[q] = new
    BY <1>3 DEF HearsayInv, TypeOK
  <2> QED
    BY <2>1, <1>4 DEF HearsayInv, RoundInv, Started
<1> QED
  BY <1>5, <1>6 DEF Serve, HearsayInv, TypeOK, ServerInv, NeverFalselyViewed

(***************************************************************************)
(* An answer says of i what the round had it say, or that it was lost.     *)
(***************************************************************************)
LEMMA HearStep ==
  ASSUME HearsayInv, NEW r \in Started, NEW i \in Ids,
         NEW status \in Statuses \union {"absent", "asked"},
         status = "viewed" => i \in opened,
         Hear(r, i, status)
  PROVE  HearsayInv'
<1> DEFINE rest == [round[r] EXCEPT !.got[i] = status, !.transit = @ \ {i}]
<1>1. round[r] \in Round /\ r \in Rounds
  BY DEF Started, HearsayInv, TypeOK
<1>2. rest \in Round /\ \A j \in Ids : rest.got[j] = "viewed" => j \in opened
  BY <1>1 DEF Round, HearsayInv, RoundInv
<1>3. /\ store' = store \/ /\ status \in {"pending", "viewed"}
                           /\ store' = RecordReceiptState(store, i, status)
      /\ round' = [round EXCEPT ![r] = NoRound] \/ round' = [round EXCEPT ![r] = rest]
      /\ panel' = panel \/ panel' = PanelHears(panel, status)
      /\ list' = list \/ (list' = Statused(rest.got)
                            /\ \A j \in Ids : rest.got[j] # "asked")
      /\ UNCHANGED <<server, opened, lapsed, result>>
  BY DEF Hear
<1> HIDE DEF rest
<1>4. /\ store' \in [Ids -> States \union {Absent}]
      /\ \A j \in Ids : store'[j] = "viewed" => j \in opened
  <2>1. /\ store \in [Ids -> States \union {Absent}]
        /\ \A j \in Ids : store[j] = "viewed" => j \in opened
    BY DEF HearsayInv, TypeOK, NeverFalselyViewed
  <2>2. CASE /\ status \in {"pending", "viewed"}
             /\ store' = RecordReceiptState(store, i, status)
    <3>1. /\ store' \in [Ids -> States \union {Absent}]
          /\ \A j \in Ids : store'[j] = "viewed" =>
                              store[j] = "viewed" \/ (j = i /\ status = "viewed")
      BY <2>1, <2>2 DEF RecordReceiptState, States
    <3> QED
      BY <2>1, <3>1
  <2> QED
    BY <1>3, <2>1, <2>2
<1>5. panel' \in Panel /\ (panel'.receipt = "viewed" => opened # {})
  <2>1. panel \in Panel /\ (panel.receipt = "viewed" => opened # {})
    BY DEF HearsayInv, TypeOK, NeverFalselyViewed
  <2>2. CASE panel' = panel
    BY <2>1, <2>2
  <2>3. CASE panel' = PanelHears(panel, status) /\ status \in {"pending", "viewed"}
    <3>1. panel' = [FreshPanel EXCEPT !.receipt = status]
      BY <2>3 DEF PanelHears
    <3> QED
      BY <3>1, <2>3 DEF FreshPanel, Panel
  <2>4. CASE panel' = PanelHears(panel, status) /\ status = "expired"
    <3>1. panel' = [panel EXCEPT !.expired = TRUE, !.error = FALSE]
      BY <2>4 DEF PanelHears
    <3> QED
      BY <3>1, <2>1 DEF Panel
  <2>5. CASE /\ panel' = PanelHears(panel, status)
             /\ status \notin {"pending", "viewed", "expired"}
    <3>1. panel' = [panel EXCEPT !.error = TRUE]
      BY <2>5 DEF PanelHears
    <3> QED
      BY <3>1, <2>1 DEF Panel
  <2> QED
    BY <1>3, <2>2, <2>3, <2>4, <2>5
<1>6. list' \in [Ids -> Statuses] /\ \A j \in Ids : list'[j] = "viewed" => j \in opened
  <2>1. CASE list' = list
    BY <2>1 DEF HearsayInv, TypeOK, NeverFalselyViewed
  <2>2. CASE list' = Statused(rest.got) /\ \A j \in Ids : rest.got[j] # "asked"
    <3>1. rest.got \in [Ids -> Statuses \union {"absent", "asked"}]
      BY <1>2 DEF Round
    <3> QED
      BY <3>1, <1>2, <2>2 DEF Statused, Statuses
  <2> QED
    BY <1>3, <2>1, <2>2
<1>7. round' \in [Rounds -> Round \union {NoRound}]
  BY <1>2, <1>3 DEF HearsayInv, TypeOK
<1>8. RoundInv'
  <2> SUFFICES ASSUME NEW q \in Rounds, round'[q] # NoRound, NEW j \in Ids,
                      round'[q].got[j] = "viewed"
               PROVE  j \in opened
    BY <1>3 DEF RoundInv, Started
  <2>1. round'[q] = round[q] \/ round'[q] = rest
    BY <1>3 DEF HearsayInv, TypeOK
  <2> QED
    BY <2>1, <1>2 DEF HearsayInv, RoundInv, Started
<1> QED
  BY <1>3, <1>4, <1>5, <1>6, <1>7, <1>8
     DEF HearsayInv, TypeOK, ServerInv, NeverFalselyViewed

\* Leaving the page disconnects its refreshes or ends them.
LEMMA LeaveStep ==
  ASSUME HearsayInv, Restart \/ \E where \in {NoResult, OnList} : GoTo(where)
  PROVE  HearsayInv'
<1>1. /\ panel' = FreshPanel /\ list' = Loading
      /\ result' \in {NoResult, OnList}
      /\ UNCHANGED <<server, store, opened, lapsed>>
      /\ \/ round' = [r \in Rounds |-> NoRound]
         \/ round' = [r \in Rounds |-> IF r \in Started
                                       THEN [round[r] EXCEPT !.by = "left"]
                                       ELSE NoRound]
  BY DEF Restart, GoTo
<1>2. \A r \in Started : /\ [round[r] EXCEPT !.by = "left"] \in Round
                         /\ [round[r] EXCEPT !.by = "left"].got = round[r].got
  BY DEF Started, Round, HearsayInv, TypeOK
<1>3. round' \in [Rounds -> Round \union {NoRound}] /\ RoundInv'
  <2>1. \A r \in Rounds : \/ round'[r] = NoRound
                          \/ /\ r \in Started /\ round'[r] \in Round
                             /\ round'[r].got = round[r].got
    BY <1>1, <1>2
  <2> QED
    BY <1>1, <2>1 DEF RoundInv, Started, HearsayInv
<1>4. /\ panel' \in Panel /\ panel'.receipt # "viewed"
      /\ list' \in [Ids -> Statuses] /\ \A i \in Ids : list'[i] # "viewed"
  BY <1>1 DEF FreshPanel, Panel, Loading, Statuses
<1> QED
  BY <1>1, <1>3, <1>4 DEF HearsayInv, TypeOK, ServerInv, NeverFalselyViewed

\* An answer that arrives says what the server said; a lost one says nothing.
LEMMA LookupsStep == HearsayInv /\ Lookups => HearsayInv'
<1> SUFFICES ASSUME HearsayInv, Lookups PROVE HearsayInv'
  OBVIOUS
<1>1. ASSUME NEW r \in Rounds, NEW i \in Ids, Serve(r, i) PROVE HearsayInv'
  BY <1>1, ServeStep
<1>2. ASSUME NEW r \in Rounds, NEW i \in Ids, Arrive(r, i) PROVE HearsayInv'
  <2>1. r \in Started /\ round[r] \in Round /\ Hear(r, i, round[r].got[i])
    BY <1>2 DEF Arrive, Started, HearsayInv, TypeOK
  <2>2. /\ round[r].got[i] \in Statuses \union {"absent", "asked"}
        /\ round[r].got[i] = "viewed" => i \in opened
    BY <2>1 DEF Round, HearsayInv, RoundInv
  <2> QED
    BY <2>1, <2>2, HearStep
<1>3. ASSUME NEW r \in Rounds, NEW i \in Ids, Lose(r, i) PROVE HearsayInv'
  <2>1. r \in Started /\ Hear(r, i, "loading")
    BY <1>3 DEF Lose
  <2> QED
    BY <2>1, HearStep DEF Statuses
<1> QED
  BY <1>1, <1>2, <1>3, ActiveAssumption DEF Lookups

\* Removing receipts, here or in another tab, reports nothing new.
LEMMA ListStep == HearsayInv /\ (ListRefresh \/ Confirm) => HearsayInv'
<1>1. ASSUME HearsayInv, ListRefresh PROVE HearsayInv'
  <2>1. /\ store \in [Ids -> States \union {Absent}]
        /\ \A i \in Ids : store[i] = "viewed" => i \in opened
        /\ ListRefreshed(store) /\ store' = store
        /\ UNCHANGED <<server, opened, lapsed, result, panel>>
    BY <1>1 DEF ListRefresh, HearsayInv, TypeOK, NeverFalselyViewed
  <2> QED
    BY <1>1, <2>1, ListRefreshedStep
<1>2. ASSUME HearsayInv, Confirm PROVE HearsayInv'
  <2>1. PICK I \in {Ids} \union {{i} : i \in Kept(store)} :
               store' = RemoveStored(store, I) /\ ListRefreshed(store')
    BY <1>2 DEF Confirm
  <2>2. I \in SUBSET Ids
    BY DEF Kept
  <2> DEFINE s == RemoveStored(store, I)
  <2>3. /\ s \in [Ids -> States \union {Absent}]
        /\ \A j \in Ids : s[j] = "viewed" => j \in opened
    BY <1>2, <2>2, RemovedStore DEF HearsayInv, TypeOK, NeverFalselyViewed
  <2>4. /\ store' = s /\ ListRefreshed(s)
        /\ UNCHANGED <<server, opened, lapsed, result, panel>>
    BY <1>2, <2>1 DEF Confirm
  <2> HIDE DEF s
  <2> QED
    BY <1>2, <2>3, <2>4, ListRefreshedStep
<1> QED
  BY <1>1, <1>2

\* The rest of the world opens secrets, but reports nothing.
LEMMA WorldStep == HearsayInv /\ World => HearsayInv'
<1> SUFFICES ASSUME HearsayInv, World PROVE HearsayInv'
  OBVIOUS
<1>1. ASSUME NEW i \in Ids, Created(i) PROVE HearsayInv'
  BY <1>1, CreatedStep
<1>2. ASSUME NEW i \in Ids, Open(i) PROVE HearsayInv'
  <2>1. TypeOK' /\ ServerInv'
    BY <1>2 DEF Open, HearsayInv, TypeOK, ServerInv
  <2> QED
    BY <1>2, <2>1 DEF Open, HearsayInv, RoundInv, Started, NeverFalselyViewed
<1>3. ASSUME NEW i \in Ids, Lapse(i) PROVE HearsayInv'
  BY <1>3 DEF Lapse, HearsayInv, TypeOK, ServerInv, RoundInv, Started,
              NeverFalselyViewed
<1>4. ASSUME NEW i \in Ids, Pass(i) PROVE HearsayInv'
  BY <1>4 DEF Pass, HearsayInv, TypeOK, ServerInv, RoundInv, Started,
              NeverFalselyViewed
<1>5. ASSUME RemovedElsewhere PROVE HearsayInv'
  <2>1. PICK i \in Kept(store) : store' = RemoveStored(store, {i})
    BY <1>5 DEF RemovedElsewhere
  <2>2. /\ store' \in [Ids -> States \union {Absent}]
        /\ \A j \in Ids : store'[j] = "viewed" => store[j] = "viewed"
    BY <2>1, RemovedStore DEF Kept, HearsayInv, TypeOK
  <2> QED
    BY <1>5, <2>2 DEF RemovedElsewhere, HearsayInv, TypeOK, ServerInv, RoundInv,
                      Started, NeverFalselyViewed
<1> QED
  BY <1>1, <1>2, <1>3, <1>4, <1>5, ActiveAssumption DEF World

LEMMA HearsayStep == HearsayInv /\ [Next]_vars => HearsayInv'
  BY HearsayStutter, PanelRefreshStep, ListStep, LookupsStep, LeaveStep, WorldStep
     DEF Next, Polling, User

(***************************************************************************)
(* Every variable of the browser's receipts stays within its type: a list  *)
(* that is shown has no lookup outstanding (ReceiptList.tsx:59-87).        *)
(***************************************************************************)
THEOREM ReceiptsTypeOK == Spec => []TypeOK
<1>1. HearsayInv => TypeOK
  BY DEF HearsayInv
<1> QED
  BY HearsayInit, HearsayStep, <1>1, PTL DEF Spec

(***************************************************************************)
(* Nothing is reported as opened that was not, however many refreshes are  *)
(* in flight and in whatever order their answers arrive                    *)
(* (ReceiptStatus.tsx, ReceiptList.tsx, receiptStore.ts).                  *)
(***************************************************************************)
THEOREM ReceiptsNeverFalselyViewed == Spec => []NeverFalselyViewed
<1>1. HearsayInv => NeverFalselyViewed
  BY DEF HearsayInv
<1> QED
  BY HearsayInit, HearsayStep, <1>1, PTL DEF Spec

------------------------------------------------------------------------------
\* Of the steps only Created stores a receipt that was not there.
LEMMA RemovedStep ==
  ASSUME TypeOK, Next, NEW i \in Ids, server[i] # "unused", i \notin Kept(store)
  PROVE  i \notin Kept(store')
<1>0. store[i] = Absent /\ store \in [Ids -> States \union {Absent}]
  BY DEF Kept, TypeOK
<1>1. CASE Lookups
  <2>1. ASSUME NEW r \in Rounds, NEW j \in Ids, NEW status, Hear(r, j, status)
        PROVE  store'[i] = Absent
    <3>1. store' = store \/ store' = RecordReceiptState(store, j, status)
      BY <2>1 DEF Hear
    <3>2. RecordReceiptState(store, j, status)[i] = Absent
      BY <1>0 DEF RecordReceiptState, Kept
    <3> QED
      BY <3>1, <3>2, <1>0
  <2>2. store' = store \/ store'[i] = Absent
    BY <1>1, <2>1, ActiveAssumption DEF Lookups, Serve, Arrive, Lose
  <2> QED
    BY <2>2, <1>0 DEF Kept
<1>2. ASSUME NEW j \in Ids, Created(j) PROVE i \notin Kept(store')
  BY <1>0, <1>2 DEF Created, SaveNewReceipt, Kept
<1>3. CASE Confirm \/ RemovedElsewhere
  BY <1>0, <1>3 DEF Confirm, RemovedElsewhere, RemoveStored, Kept
<1>4. CASE UNCHANGED store
  BY <1>4
<1> QED
  BY <1>1, <1>2, <1>3, <1>4
     DEF Next, Polling, User, World, PanelRefresh, ListRefresh, GoTo, Restart,
         Open, Lapse, Pass

(***************************************************************************)
(* A removed receipt does not come back with an answer still on its way,   *)
(* however many refreshes had asked for it (receiptStore.ts:77-82).        *)
(***************************************************************************)
THEOREM ReceiptsRemovedStaysRemoved == Spec => RemovedStaysRemoved
<1>1. TypeOK /\ [Next]_vars =>
        [\A i \in Ids : server[i] # "unused" /\ i \notin Kept(store)
                         => i \notin Kept(store')]_vars
  BY RemovedStep DEF Kept, vars
<1> QED
  BY <1>1, ReceiptsTypeOK, PTL DEF Spec, RemovedStaysRemoved
==============================================================================
