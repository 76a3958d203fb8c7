------------------------------ MODULE ApiClient ------------------------------
(***************************************************************************)
(* What the website hears of an API call (shared/lib/api.ts).  jsonFetch   *)
(* never throws: every call ends in a status and perhaps data.  The call   *)
(* may have been lost on its way, its answer may have been lost after the  *)
(* server acted on it, or the answer may have a body that is not JSON.     *)
(***************************************************************************)
EXTENDS Integers

CONSTANT NoData   \* the data of an answer that carries none

\* What jsonFetch makes of an HTTP response whose body parses, or does not.
JsonFetch(status, body, parses) ==
  [status |-> status,
   data   |-> IF status = 200 /\ parses THEN body ELSE NoData]

\* fetch threw: the exception becomes status 0.
Lost == [status |-> 0, data |-> NoData]

\* The caller hears exactly what the server said.
Clear(status, body) == JsonFetch(status, body, TRUE)

\* It hears less: a body it cannot read, or nothing at all.
Faulty(status, body) == {JsonFetch(status, body, FALSE), Lost}
                          \ {Clear(status, body)}

(***************************************************************************)
(* toApiResponse, for the two create endpoints: the message is the new ID  *)
(* where there is data and some error text (NoData) where there is none,   *)
(* whatever the status is.                                                 *)
(***************************************************************************)
ToApiResponse(answer) ==
  [status |-> answer.status,
   message |-> IF answer.data = NoData THEN NoData ELSE answer.data.id,
   receipt |-> IF answer.data = NoData THEN FALSE ELSE answer.data.receipt]
==============================================================================
