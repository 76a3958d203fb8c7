----------------------------- MODULE ReceiptStore -----------------------------
(***************************************************************************)
(* The read receipts kept in localStorage (shared/lib/receiptStore.ts).    *)
(* Every operation reads the list, changes it and writes it back without a *)
(* pause, so that it is a function from the old store to the new one.      *)
(* Of a receipt only the cached state matters here: Pass tells when a      *)
(* stored expiresAt has passed, and the other fields are only displayed.   *)
(***************************************************************************)
CONSTANT Ids   \* the IDs the server gives out

\* StoredReceipt.state, "none" until the server was asked; or no receipt.
States == {"none", "pending", "viewed"}
Absent == "absent"

Kept(s) == {i \in Ids : s[i] # Absent}

SaveNewReceipt(s, i) == [s EXCEPT ![i] = "none"]

\* Seeded bug: what is recorded is put back although it was removed.
RecordAlways(s, i, state) == [s EXCEPT ![i] = state]
\* Seeded bug: only a state that is already there is replaced.
RecordAgain(s, i, state) ==
  IF s[i] \in {"pending", "viewed"} THEN [s EXCEPT ![i] = state] ELSE s
\* Seeded bug: the map forgets to compare the ids.
RecordForAll(s, i, state) ==
  [j \in Ids |-> IF {i, j} \subseteq Kept(s) THEN state
                 ELSE s[j]]

\* recordReceiptState patches the receipt if it is still there.
RecordReceiptState(s, i, state) ==
  IF i \in Kept(s) THEN [s EXCEPT ![i] = state] ELSE s

RemoveStored(s, I) == [i \in Ids |-> IF i \in I THEN Absent ELSE s[i]]
==============================================================================
