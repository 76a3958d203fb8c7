---------------------------- MODULE SecretPromise ----------------------------
(***************************************************************************)
(* What yopass promises about a secret, with no database, no concurrency   *)
(* and no failures in sight: a secret is published once, a one-time secret *)
(* is gone at the instant it is opened, whatever is gone stays gone, and   *)
(* the receipt attached before publication turns to "viewed" only after an *)
(* opening.  Secrets implements it.                                        *)
(***************************************************************************)
CONSTANTS Keys, Readers

VARIABLES
  phase,      \* phase[k]: "unborn", then "once" or "many", then "gone"
  openers,    \* openers[k]: the readers that were given the secret
  note        \* note[k]: the receipt: "none", "pending", "viewed", "gone"

promise == <<phase, openers, note>>

Live == {"once", "many"}

Init ==
  /\ phase = [k \in Keys |-> "unborn"]
  /\ openers = [k \in Keys |-> {}]
  /\ note = [k \in Keys |-> "none"]

\* The receipt exists before the secret does; the secret may never follow.
AttachNote(k) ==
  /\ phase[k] = "unborn"
  /\ note[k] = "none"
  /\ note' = [note EXCEPT ![k] = "pending"]
  /\ \E p \in {"unborn", "gone"} : phase' = [phase EXCEPT ![k] = p]
  /\ UNCHANGED openers

Publish(k, kind) ==
  /\ phase[k] = "unborn"
  /\ phase' = [phase EXCEPT ![k] = kind]
  /\ UNCHANGED <<openers, note>>

OpenOnce(k, r) ==
  /\ phase[k] = "once"
  /\ phase' = [phase EXCEPT ![k] = "gone"]
  /\ openers' = [openers EXCEPT ![k] = @ \union {r}]
  /\ UNCHANGED note

OpenAgain(k, r) ==
  /\ phase[k] = "many"
  /\ openers' = [openers EXCEPT ![k] = @ \union {r}]
  /\ UNCHANGED <<phase, note>>

NoteOpening(k) ==
  /\ note[k] = "pending"
  /\ openers[k] # {}
  /\ note' = [note EXCEPT ![k] = "viewed"]
  /\ UNCHANGED <<phase, openers>>

\* Abandoned, deleted, expired or evicted: for good, and unread.
Vanish(K, N) ==
  /\ phase' = [k \in Keys |-> IF k \in K THEN "gone" ELSE phase[k]]
  /\ note' = [k \in Keys |-> IF k \in N THEN "gone" ELSE note[k]]
  /\ UNCHANGED openers

Next ==
  \/ \E k \in Keys : AttachNote(k)
  \/ \E k \in Keys, kind \in Live : Publish(k, kind)
  \/ \E k \in Keys, r \in Readers : OpenOnce(k, r)
  \/ \E k \in Keys, r \in Readers : OpenAgain(k, r)
  \/ \E k \in Keys : NoteOpening(k)
  \/ \E K, N \in SUBSET Keys : Vanish(K, N)

Spec == Init /\ [][Next]_promise
==============================================================================
