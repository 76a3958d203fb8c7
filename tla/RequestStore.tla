----------------------------- MODULE RequestStore -----------------------------
(***************************************************************************)
(* The secret requests kept in localStorage (shared/lib/requestStore.ts).  *)
(* localStorage is one value for all tabs of the browser, and every        *)
(* operation reads it, changes it and writes it back without a pause, so   *)
(* an operation here is a function from the old store to the new one.      *)
(***************************************************************************)
CONSTANTS
  Ids,     \* request IDs
  Keys,    \* key pairs, named once for the private and the public half
  NoKey

ASSUME KeysAssumption == NoKey \notin Keys

\* StoredRequest: the private key, and the cached terminal states.
Entry == [key : Keys, revoked : BOOLEAN, collected : BOOLEAN,
          fulfilled : BOOLEAN]
Absent == [key |-> NoKey, revoked |-> FALSE, collected |-> FALSE,
           fulfilled |-> FALSE]

NewEntry(k) == [Absent EXCEPT !.key = k]

Has(s, i) == s[i] # Absent

SaveStored(s, i, entry) == [s EXCEPT ![i] = entry]

\* Seeded bug: patching an entry that is gone brings half of it back.
UpdateAnyCollected(s, i) == [s EXCEPT ![i].collected = TRUE]

\* updateStoredRequest patches an entry that is still there, and only that.
UpdateCollected(s, i) ==
  IF Has(s, i) THEN [s EXCEPT ![i].collected = TRUE] ELSE s
UpdateRevoked(s, i) ==
  IF Has(s, i) THEN [s EXCEPT ![i].revoked = TRUE] ELSE s
UpdateKey(s, i, k) == IF Has(s, i) THEN [s EXCEPT ![i].key = k] ELSE s

\* markRequestsFulfilled, and whether it writes (and so announces) anything.
MarkFulfilled(s, I) ==
  [i \in Ids |-> IF i \in I /\ Has(s, i) THEN [s[i] EXCEPT !.fulfilled = TRUE]
                                         ELSE s[i]]
\* Seeded bug: the ! before r.fulfilled is missing.
MarkWritesAgain(s, I) == \E i \in I : Has(s, i) /\ s[i].fulfilled

MarkWrites(s, I) == \E i \in I : Has(s, i) /\ ~s[i].fulfilled

RemoveStored(s, I) == [i \in Ids |-> IF i \in I THEN Absent ELSE s[i]]
ClearCollected(s)  == RemoveStored(s, {i \in Ids : s[i].collected})
ClearAll(s)        == RemoveStored(s, Ids)
==============================================================================
