-------------------------- MODULE RequestLifecycle --------------------------
(***************************************************************************)
(* What yopass promises about a secret request: it is opened once, at most *)
(* one answer is ever accepted, only while it is pending, and the accepted *)
(* answer is handed out at most once, at the instant at which the request  *)
(* ceases to exist.  Requests implements it.                               *)
(***************************************************************************)
CONSTANTS Ids, Parties, NoParty

VARIABLES
  phase,      \* phase[i]: "unborn", "pending", "fulfilled", "gone"
  key,        \* key[i]: whose public key the request shows
  answer,     \* answer[i]: who gave the accepted answer
  collectors  \* collectors[i]: who was given that answer

lifecycle == <<phase, key, answer, collectors>>

Init ==
  /\ phase = [i \in Ids |-> "unborn"]
  /\ key = [i \in Ids |-> NoParty]
  /\ answer = [i \in Ids |-> NoParty]
  /\ collectors = [i \in Ids |-> {}]

Open(i, p) ==
  /\ phase[i] = "unborn"
  /\ phase' = [phase EXCEPT ![i] = "pending"]
  /\ key' = [key EXCEPT ![i] = p]
  /\ UNCHANGED <<answer, collectors>>

Rekey(i, p) ==
  /\ phase[i] = "pending"
  /\ key' = [key EXCEPT ![i] = p]
  /\ UNCHANGED <<phase, answer, collectors>>

Provide(i, p) ==
  /\ phase[i] = "pending"
  /\ phase' = [phase EXCEPT ![i] = "fulfilled"]
  /\ answer' = [answer EXCEPT ![i] = p]
  /\ UNCHANGED <<key, collectors>>

Collect(i, p) ==
  /\ phase[i] = "fulfilled"
  /\ collectors[i] = {}
  /\ phase' = [phase EXCEPT ![i] = "gone"]
  /\ key' = [key EXCEPT ![i] = NoParty]
  /\ answer' = [answer EXCEPT ![i] = NoParty]
  /\ collectors' = [collectors EXCEPT ![i] = {p}]

\* Revoked, expired, evicted, or never opened: for good, and uncollected.
Vanish(I) ==
  /\ phase' = [i \in Ids |-> IF i \in I THEN "gone" ELSE phase[i]]
  /\ key' = [i \in Ids |-> IF i \in I THEN NoParty ELSE key[i]]
  /\ answer' = [i \in Ids |-> IF i \in I THEN NoParty ELSE answer[i]]
  /\ UNCHANGED collectors

Next ==
  \/ \E i \in Ids, p \in Parties : Open(i, p)
  \/ \E i \in Ids, p \in Parties : Rekey(i, p)
  \/ \E i \in Ids, p \in Parties : Provide(i, p)
  \/ \E i \in Ids, p \in Parties : Collect(i, p)
  \/ \E I \in SUBSET Ids : Vanish(I)

Spec == Init /\ [][Next]_lifecycle
==============================================================================
