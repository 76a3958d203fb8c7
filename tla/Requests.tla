------------------------------- MODULE Requests -------------------------------
(***************************************************************************)
(* Secret requests: the handlers createSecretRequest, getSecretRequest,    *)
(* fulfillSecretRequest, fetchRequestSecret, revokeSecretRequest and       *)
(* rotateRequestKey (request.go) over the shared database.                 *)
(*                                                                         *)
(* The request routes exist only where the feature was enabled at startup  *)
(* (a valid license, not read-only, not disabled), so that is where the    *)
(* model starts.  A member of Handlers is one run of a handler, from the   *)
(* arrival of its HTTP request to the answer.  It also names what that     *)
(* HTTP request carried: every create and every rotate brings a key pair   *)
(* of its own, every fulfill a ciphertext of its own, and two of them are  *)
(* told apart by the handlers that received them.                          *)
(***************************************************************************)
EXTENDS Backend

CONSTANTS
  Ids,              \* request IDs that yopass.GenerateID may draw
  NoId,             \* the ID of a handler that has none
  Handlers,         \* runs of handlers, over all server instances
  NoHandler,        \* no key, no ciphertext
  Lifetimes,        \* the supported lifetimes (1h, 1d, 1w)
  AskedLifetimes,   \* the expirations clients put in a create request
  MayEvict,         \* whether the database drops entries under pressure
  UpdateRetries,    \* attempts of one Database.Update
  MaxNow,           \* bound on the clock
  MaxFaults         \* bound on the calls that do not end "ok"

ASSUME NamesAssumption == NoId \notin Ids /\ NoHandler \notin Handlers
ASSUME LifetimesAssumption ==
  /\ Lifetimes \subseteq Nat \ {0}
  /\ AskedLifetimes \subseteq Nat
ASSUME BoundsAssumption ==
  /\ MayEvict \in BOOLEAN
  /\ UpdateRetries \in Nat \ {0}
  /\ MaxNow \in Nat
  /\ MaxFaults \in Nat

VARIABLES
  now,        \* the clock of the servers and of the database, in seconds
  licensed,   \* License.CurrentlyValid
  faults,     \* calls that did not end "ok" so far
  asked,      \* asked[i]: the lifetime i was created with; 0 before
  requests,   \* the database entries under "request/" + i
  seen,       \* seen[i]: the public keys that responders were shown
  local       \* local[h]: the local state of the handler run h

vars == <<now, licensed, faults, asked, requests, seen, local>>

------------------------------------------------------------------------------
Origin == Handlers \union {NoHandler}

(***************************************************************************)
(* SecretRequest, with the time at which the database drops it and its CAS *)
(* version.  key and secret say whose public key and whose ciphertext it   *)
(* holds.                                                                  *)
(***************************************************************************)
SecretRequest == [stored : BOOLEAN, state : {"pending", "fulfilled"},
                  key : Origin, secret : Origin,
                  expiresAt : Nat, dies : Nat, ver : Nat]
NoRequest == [stored |-> FALSE, state |-> "pending", key |-> NoHandler,
              secret |-> NoHandler, expiresAt |-> 0, dies |-> 0, ver |-> 0]

Answers == {"none", "400", "401", "403", "404", "409", "500", "created",
            "provided", "rotated", "content", "gone204", "crashed"}

(***************************************************************************)
(* pc is the database call the handler makes next: put of a create; read   *)
(* and cas of an Update (fulfill, rotate); delete of a fetch or a revoke.  *)
(* key is the public key a create or rotate brings or a fulfill encrypted  *)
(* to; owner says that the management token is right; base is the record   *)
(* the handler read, at the time at which an Update read it, due the       *)
(* ExpiresAt a create builds, tries the lost races of an Update.  took is  *)
(* the ciphertext a fetch became entitled to.                              *)
(***************************************************************************)
Local == [pc : {"idle", "put", "read", "cas", "delete", "done"},
          op : {"none", "create", "fulfill", "rotate", "fetch", "revoke"},
          id : Ids \union {NoId}, key : Origin, owner : BOOLEAN,
          base : SecretRequest, at : Nat, due : Nat, tries : Nat,
          took : Origin, resp : Answers]

InFlight(h) == local[h].pc \notin {"idle", "done"}
At(h, pc)   == local[h].pc = pc

\* The handler returns: its locals are gone, its history and answer stay.
Done(q, resp) == [q EXCEPT !.pc = "done", !.resp = resp, !.base = NoRequest,
                           !.at = 0, !.due = 0, !.tries = 0]
Answer(h, resp) == local' = [local EXCEPT ![h] = Done(@, resp)]

Spend(call) == /\ faults + Faults(call) <= MaxFaults
               /\ faults' = faults + Faults(call)

Issued(i) == asked[i] # 0

\* The ID is known outside the servers: its create was answered with it.
Disclosed(i) == \E h \in Handlers : local[h].resp = "created" /\ local[h].id = i

\* loadRequest finds rec, and it has some lifetime left.
Loadable(rec) == rec.stored /\ SecondsUntil(rec.expiresAt, now) > 0

Init ==
  /\ now = 1
  /\ licensed = TRUE
  /\ faults = 0
  /\ asked = [i \in Ids |-> 0]
  /\ requests = [i \in Ids |-> NoRequest]
  /\ seen = [i \in Ids |-> {}]
  /\ local = [h \in Handlers |->
                [pc |-> "idle", op |-> "none", id |-> NoId, key |-> NoHandler,
                 owner |-> FALSE, base |-> NoRequest, at |-> 0, due |-> 0,
                 tries |-> 0, took |-> NoHandler, resp |-> "none"]]

------------------------------------------------------------------------------
(***************************************************************************)
(* createSecretRequest and getSecretRequest.                               *)
(***************************************************************************)
\* Seeded bug: any expiration will do.
AcceptsAnyExpiration(life) == TRUE

ValidExpiration(life) == life \in Lifetimes

RejectCreate(h, life) ==
  /\ At(h, "idle")
  /\ ~licensed \/ ~ValidExpiration(life)
  /\ local' = [local EXCEPT ![h] =
                 Done([@ EXCEPT !.op = "create"],
                      IF ~licensed THEN "403" ELSE "400")]
  /\ UNCHANGED <<now, licensed, faults, asked, requests, seen>>

\* ExpiresAt is read from the clock before the record is stored.
StartCreate(h, i, life) ==
  /\ At(h, "idle")
  /\ licensed
  /\ ValidExpiration(life)
  /\ ~Issued(i)
  /\ asked' = [asked EXCEPT ![i] = life]
  /\ local' = [local EXCEPT ![h] =
                 [@ EXCEPT !.pc = "put", !.op = "create", !.id = i, !.key = h,
                           !.due = now + life]]
  /\ UNCHANGED <<now, licensed, faults, requests, seen>>

PendingRequest(q) ==
  [stored |-> TRUE, state |-> "pending", key |-> q.key, secret |-> NoHandler,
   expiresAt |-> q.due, dies |-> DiesAt(asked[q.id], now), ver |-> 1]

PutRequest(h) ==
  LET q == local[h] IN
  /\ At(h, "put")
  /\ \E call \in WriteCalls :
       /\ Spend(call)
       /\ requests' = IF Applied(call)
                      THEN [requests EXCEPT ![q.id] = PendingRequest(q)]
                      ELSE requests
       /\ Answer(h, IF Errs(call) THEN "500" ELSE "created")
  /\ UNCHANGED <<now, licensed, asked, seen>>

\* Anyone with the link is shown the public key the record holds now.
View(i) ==
  /\ Disclosed(i)
  /\ Loadable(requests[i])
  /\ seen' = [seen EXCEPT ![i] = @ \union {requests[i].key}]
  /\ UNCHANGED <<now, licensed, faults, asked, requests, local>>

------------------------------------------------------------------------------
(***************************************************************************)
(* fulfillSecretRequest and rotateRequestKey: a Database.Update of the     *)
(* record.  It reads, applies the transition, compares and swaps, and      *)
(* begins again from the read when the record changed in between.          *)
(***************************************************************************)
\* Seeded bug: rotate forgets that a fulfilled request is final.
RefusalRotatesFulfilled(q, rec) ==
  IF ~Loadable(rec) THEN "404"
  ELSE IF q.op = "rotate" /\ ~q.owner THEN "401"
  ELSE IF q.op = "fulfill" /\ rec.state = "fulfilled" THEN "409"
  ELSE "none"

\* Seeded bug: a second answer is accepted.
RefusalTakesSecond(q, rec) ==
  IF ~Loadable(rec) THEN "404"
  ELSE IF q.op = "rotate" /\ ~q.owner THEN "401"
  ELSE IF q.op = "rotate" /\ rec.state = "fulfilled" THEN "409"
  ELSE "none"

\* Seeded bug: an expired record is written back with a zero expiration.
RefusalTakesExpired(q, rec) ==
  IF ~rec.stored THEN "404"
  ELSE IF q.op = "rotate" /\ ~q.owner THEN "401"
  ELSE IF rec.state = "fulfilled" THEN "409"
  ELSE "none"

\* Why the transition q does not apply to the record rec, or "none".
Refusal(q, rec) ==
  IF ~Loadable(rec) THEN "404"
  ELSE IF q.op = "rotate" /\ ~q.owner THEN "401"
  ELSE IF rec.state = "fulfilled" THEN "409"
  ELSE "none"

\* q after Update's read, which found rec unless it failed.
AfterRead(q, rec, call) ==
  IF Errs(call) THEN Done(q, "500")
  ELSE IF Refusal(q, rec) # "none" THEN Done(q, Refusal(q, rec))
  ELSE [q EXCEPT !.pc = "cas", !.base = rec, !.at = now]

\* The bodies are checked before; the first call is Update's read.  A responder
\* encrypts to a key that somebody was shown.
StartUpdate(h, op, i, key, owner) ==
  LET q == [local[h] EXCEPT !.op = op, !.id = i, !.key = key, !.owner = owner]
  IN
  /\ At(h, "idle")
  /\ Disclosed(i)
  /\ \/ op = "fulfill" /\ key \in seen[i] /\ ~owner
     \/ op = "rotate" /\ key = h
  /\ \E call \in ReadCalls :
       /\ Spend(call)
       /\ local' = [local EXCEPT ![h] = AfterRead(q, requests[i], call)]
  /\ UNCHANGED <<now, licensed, asked, requests, seen>>

ReadAgain(h) ==
  /\ At(h, "read")
  /\ \E call \in ReadCalls :
       /\ Spend(call)
       /\ local' = [local EXCEPT ![h] =
                      AfterRead(@, requests[@.id], call)]
  /\ UNCHANGED <<now, licensed, asked, requests, seen>>

\* Seeded bug: the answer is stored, the state is not changed.
UpdatedStillPending(h) ==
  LET q == local[h]
      changed == IF q.op = "fulfill"
                 THEN [q.base EXCEPT !.secret = h]
                 ELSE [q.base EXCEPT !.key = q.key]
  IN [changed EXCEPT !.dies = DiesAt(SecondsUntil(q.base.expiresAt, q.at), now),
                     !.ver = @ + 1]

(***************************************************************************)
(* The record h's transition made of the one it read.  Its expiration was  *)
(* computed when h read it.                                                *)
(***************************************************************************)
Updated(h) ==
  LET q == local[h]
      changed == IF q.op = "fulfill"
                 THEN [q.base EXCEPT !.state = "fulfilled", !.secret = h]
                 ELSE [q.base EXCEPT !.key = q.key]
  IN [changed EXCEPT !.dies = DiesAt(SecondsUntil(q.base.expiresAt, q.at), now),
                     !.ver = @ + 1]

\* Seeded bug: the write looks at the key, not at its version.
CasMatchesAnyVersion(rec, base) == rec.stored

\* Seeded bug: the write is a plain Put.
CasMatchesAlways(rec, base) == TRUE

\* The write of an Update commits only onto the version that was read.
CasMatches(rec, base) == rec.stored /\ rec.ver = base.ver

UpdateSwap(h) ==
  LET q == local[h] IN
  /\ At(h, "cas")
  /\ CasMatches(requests[q.id], q.base)
  /\ \E call \in WriteCalls :
       /\ Spend(call)
       /\ requests' = IF Applied(call)
                      THEN [requests EXCEPT ![q.id] = Updated(h)]
                      ELSE requests
       /\ Answer(h, IF Errs(call) THEN "500"
                    ELSE IF q.op = "fulfill" THEN "provided" ELSE "rotated")
  /\ UNCHANGED <<now, licensed, asked, seen>>

\* The record is gone, and memcached says so: ErrKeyNotFound.
UpdateMissing(h) ==
  /\ At(h, "cas")
  /\ ~requests[local[h].id].stored
  /\ Answer(h, "404")
  /\ UNCHANGED <<now, licensed, faults, asked, requests, seen>>

\* The record changed, or (Redis does not tell) is gone: read it again, or give
\* up after UpdateRetries attempts.
UpdateConflict(h) ==
  LET q == local[h]
      tries == q.tries + 1
  IN
  /\ At(h, "cas")
  /\ ~CasMatches(requests[q.id], q.base)
  /\ local' = [local EXCEPT ![h] =
                 IF tries < UpdateRetries
                 THEN [q EXCEPT !.pc = "read", !.tries = tries,
                                !.base = NoRequest, !.at = 0]
                 ELSE Done(q, "500")]
  /\ UNCHANGED <<now, licensed, faults, asked, requests, seen>>

------------------------------------------------------------------------------
(***************************************************************************)
(* fetchRequestSecret and revokeSecretRequest: a read, then a Delete.      *)
(***************************************************************************)
\* Seeded bug: the management token is only checked before a secret is read.
AfterLoadAnyToken(q, rec, call) ==
  IF Errs(call) \/ ~Loadable(rec) THEN Done(q, "404")
  ELSE IF q.op = "fetch" /\ ~q.owner THEN Done(q, "401")
  ELSE IF q.op = "fetch" /\ rec.state # "fulfilled" THEN Done(q, "409")
  ELSE [q EXCEPT !.pc = "delete", !.base = rec]

\* q after loadRequest, which found rec unless it failed.
AfterLoad(q, rec, call) ==
  IF Errs(call) \/ ~Loadable(rec) THEN Done(q, "404")
  ELSE IF ~q.owner THEN Done(q, "401")
  ELSE IF q.op = "fetch" /\ rec.state # "fulfilled" THEN Done(q, "409")
  ELSE [q EXCEPT !.pc = "delete", !.base = rec]

StartClose(h, op, i, owner) ==
  LET q == [local[h] EXCEPT !.op = op, !.id = i, !.owner = owner] IN
  /\ At(h, "idle")
  /\ Disclosed(i)
  /\ \E call \in ReadCalls :
       /\ Spend(call)
       /\ local' = [local EXCEPT ![h] = AfterLoad(q, requests[i], call)]
  /\ UNCHANGED <<now, licensed, asked, requests, seen>>

\* Seeded bug: a fetch does not look at whether its Delete found the key.
FetchedAnyway(q, removed) ==
  Done([q EXCEPT !.took = q.base.secret], "content")

\* A fetch whose Delete did not fail.
Fetched(q, removed) ==
  IF removed THEN Done([q EXCEPT !.took = q.base.secret], "content")
  ELSE Done(q, "404")

\* A revocation does not look at whether there was anything left to delete.
DeleteRequest(h) ==
  LET q == local[h]
      rec == requests[q.id]
  IN
  /\ At(h, "delete")
  /\ \E call \in DeleteCalls :
       /\ Spend(call)
       /\ requests' = IF Applied(call)
                      THEN [requests EXCEPT ![q.id] = NoRequest]
                      ELSE requests
       /\ local' = [local EXCEPT ![h] =
                      IF Errs(call) THEN Done(q, "500")
                      ELSE IF q.op = "revoke" THEN Done(q, "gone204")
                      ELSE Fetched(q, rec.stored /\ call # "repeated")]
  /\ UNCHANGED <<now, licensed, asked, seen>>

------------------------------------------------------------------------------
(***************************************************************************)
(* What happens around the handlers.                                       *)
(***************************************************************************)
\* A second passes; the database forgets what has reached its time.
Tick ==
  /\ now < MaxNow
  /\ now' = now + 1
  /\ requests' = [i \in Ids |-> IF Expired(requests[i].dies, now + 1)
                                THEN NoRequest ELSE requests[i]]
  /\ UNCHANGED <<licensed, faults, asked, seen, local>>

\* A database short of memory drops an entry before its time.
Evict(i) ==
  /\ MayEvict
  /\ requests[i].stored
  /\ requests' = [requests EXCEPT ![i] = NoRequest]
  /\ UNCHANGED <<now, licensed, faults, asked, seen, local>>

\* A license is not renewed without a restart: it only runs out.
LicenseExpires ==
  /\ licensed
  /\ licensed' = FALSE
  /\ UNCHANGED <<now, faults, asked, requests, seen, local>>

\* The instance dies, or the handler panics, with its work half done.
Crash(h) ==
  /\ InFlight(h)
  /\ Answer(h, "crashed")
  /\ UNCHANGED <<now, licensed, faults, asked, requests, seen>>

\* No handler is running: the system may stay as it is.
Quiet ==
  /\ \A h \in Handlers : ~InFlight(h)
  /\ UNCHANGED vars

Arrive(h) ==
  \/ \E life \in AskedLifetimes : RejectCreate(h, life)
  \/ \E i \in Ids, life \in AskedLifetimes : StartCreate(h, i, life)
  \/ \E i \in Ids, op \in {"fulfill", "rotate"}, key \in Handlers,
        owner \in BOOLEAN : StartUpdate(h, op, i, key, owner)
  \/ \E i \in Ids, op \in {"fetch", "revoke"}, owner \in BOOLEAN :
       StartClose(h, op, i, owner)

Handle(h) ==
  \/ PutRequest(h)
  \/ ReadAgain(h)
  \/ UpdateSwap(h)
  \/ UpdateMissing(h)
  \/ UpdateConflict(h)
  \/ DeleteRequest(h)

Next ==
  \/ \E h \in Handlers : Arrive(h)
  \/ \E h \in Handlers : Handle(h)
  \/ \E h \in Handlers : Crash(h)
  \/ \E i \in Ids : View(i)
  \/ \E i \in Ids : Evict(i)
  \/ Tick
  \/ LicenseExpires
  \/ Quiet

Spec == Init /\ [][Next]_vars

------------------------------------------------------------------------------
(***************************************************************************)
(* Properties.                                                             *)
(***************************************************************************)

\* Every variable stays in its type: records, and the locals of every handler.
TypeOK ==
  /\ now \in Nat
  /\ licensed \in BOOLEAN
  /\ faults \in Nat
  /\ asked \in [Ids -> Lifetimes \union {0}]
  /\ requests \in [Ids -> SecretRequest]
  /\ seen \in [Ids -> SUBSET Origin]
  /\ local \in [Handlers -> Local]

Provided(h) == local[h].resp = "provided"
Collected(h) == local[h].took # NoHandler

\* The answer that was acknowledged is the only one that counts: no other is
\* acknowledged, it is what the record holds while there is one, and it is
\* what the requester is given (fulfillSecretRequest against concurrent
\* responders and rotations, fetchRequestSecret against all of them).
AcceptedOnce ==
  \A h \in Handlers : Provided(h) =>
    LET i == local[h].id IN
    /\ requests[i].stored => requests[i].state = "fulfilled" /\ requests[i].secret = h
    /\ \A g \in Handlers : local[g].id = i =>
         /\ Provided(g) => g = h
         /\ Collected(g) => local[g].took = h

\* A ciphertext is handed out at most once, and never while the request still
\* exists, over concurrent fetches, revocations, lost replies and crashes
\* (fetchRequestSecret deletes before it responds).
HandedOutOnce ==
  \A h \in Handlers : Collected(h) =>
    /\ ~requests[local[h].id].stored
    /\ \A g \in Handlers : Collected(g) /\ local[g].id = local[h].id => g = h

\* An acknowledged rotation holds: no concurrent fulfill or rotate that read
\* the record before puts an older key back (updateRequest).
RotationSticks ==
  \A h \in Handlers :
    local[h].resp = "rotated" =>
      LET rec == requests[local[h].id] IN
      rec.stored => local[rec.key].op = "rotate"

\* A fulfilled record does not change until it is gone, so a fetch that read it
\* before its Delete does not hand out anything stale (the comment in
\* fetchRequestSecret).
FulfilledIsFinal ==
  [][\A i \in Ids :
       /\ requests[i].stored /\ requests[i].state = "fulfilled"
       /\ requests'[i].stored
       => requests'[i] = requests[i]]_vars

\* Only the management token takes a request away or replaces its key; the rest
\* is time and evictions (fetch and revoke check before they delete, rotate
\* inside the update).
OwnerOnly ==
  [][\A i \in Ids :
       /\ requests[i].stored
       /\ ~requests'[i].stored \/ requests'[i].key # requests[i].key
       => \/ now' # now
          \/ local' = local
          \/ \E h \in Handlers : /\ local'[h] # local[h]
                                 /\ local[h].id = i
                                 /\ local[h].owner]_vars

\* Once a revocation is acknowledged nothing else is: no answer is accepted, no
\* key replaced, no secret handed out, whatever was in flight at that time.
RevokedIsDead ==
  [][\A h, g \in Handlers :
       /\ local[h].resp = "gone204"
       /\ local[g].id = local[h].id
       /\ InFlight(g)
       => local'[g].resp \notin {"provided", "rotated", "content"}]_vars

\* No record is stored for ever, and none outlives its lifetime counted from
\* now: no write passes the zero expiration that the backends read as "never"
\* (validExpiration, updateRequest).
Mortal ==
  \A i \in Ids :
    requests[i].stored => requests[i].dies \in (now + 1)..(now + asked[i])

------------------------------------------------------------------------------
(***************************************************************************)
(* The inductive invariant behind the safety properties.  An Update and a  *)
(* fetch act on a record they read earlier: what makes that right is that  *)
(* the record, if it is still the version that was read, is what was read  *)
(* (BaseInv), and that no record comes back under an ID once it has gone   *)
(* (CreateInv).                                                            *)
(***************************************************************************)
\* What the locals q of the handler run h are, whatever the database holds.
Sound(h, q) ==
  /\ q.pc = "idle" => q.op = "none" /\ q.id = NoId
  /\ q.pc # "done" => q.resp = "none" /\ q.took = NoHandler
  /\ q.id = NoId => /\ q.pc \in {"idle", "done"}
                    /\ q.resp \in {"none", "400", "403"}
                    /\ q.took = NoHandler
  /\ q.pc = "put" => q.key = h
  /\ q.pc \in {"read", "cas"} => q.op \in {"fulfill", "rotate"}
  /\ q.op = "rotate" => q.key = h
  /\ q.pc = "cas" /\ q.op = "rotate" => q.owner
  /\ q.pc = "delete" => q.op \in {"fetch", "revoke"} /\ q.owner
  /\ q.resp = "rotated" => q.op = "rotate"
  /\ q.id # NoId => Issued(q.id)

\* What the handler read is what the record is, unless the record shows it.
Current(q, rec) ==
  /\ q.pc = "cas" =>
       /\ q.base.state = "pending"
       /\ rec.stored => q.base.ver <= rec.ver
       /\ rec.stored /\ q.base.ver = rec.ver => rec = q.base
  /\ q.pc = "delete" /\ q.op = "fetch" =>
       /\ q.base.state = "fulfilled"
       /\ q.base.secret \in Handlers
       /\ rec.stored => rec = q.base

HandlerInv == \A h \in Handlers : Sound(h, local[h])

BaseInv ==
  \A h \in Handlers :
    local[h].id # NoId => Current(local[h], requests[local[h].id])

\* A record belongs to an issued ID and names the handlers its parts are from.
RecordInv ==
  \A i \in Ids :
    requests[i].stored =>
      /\ Issued(i)
      /\ requests[i].key \in Handlers
      /\ requests[i].state = "fulfilled" => requests[i].secret \in Handlers

\* Until its create is over, an ID is known to its create only.
CreateInv ==
  \A h \in Handlers :
    At(h, "put") =>
      /\ ~requests[local[h].id].stored
      /\ \A g \in Handlers : local[g].id = local[h].id => g = h

RevokedInv ==
  \A h \in Handlers :
    local[h].resp = "gone204" => ~requests[local[h].id].stored

LifeInv == /\ HandlerInv
           /\ BaseInv
           /\ RecordInv
           /\ CreateInv
           /\ AcceptedOnce
           /\ HandedOutOnce
           /\ RotationSticks
           /\ RevokedInv

\* What Mortal rests on: the lifetime an Update writes is what was left of the
\* record when it was read.
LifetimeInv ==
  /\ \A i \in Ids : requests[i].stored => requests[i].expiresAt <= now + asked[i]
  /\ \A h \in Handlers :
       /\ At(h, "put") => local[h].due <= now + asked[local[h].id]
       /\ At(h, "cas") => /\ local[h].base.expiresAt > local[h].at
                          /\ local[h].base.expiresAt <= local[h].at + asked[local[h].id]
  /\ Mortal

------------------------------------------------------------------------------
\* The creation of i is over.
Settled(i) ==
  Issued(i) /\ \A h \in Handlers : local[h].id = i => ~At(h, "put")

\* Nothing is left in the place of a request that is not stored.
BlankInv == \A i \in Ids : ~requests[i].stored => requests[i] = NoRequest

PhaseOf(i) == IF requests[i].stored THEN requests[i].state
              ELSE IF Settled(i) THEN "gone" ELSE "unborn"

Lifecycle == INSTANCE RequestLifecycle
  WITH Parties    <- Handlers,
       NoParty    <- NoHandler,
       phase      <- [i \in Ids |-> PhaseOf(i)],
       key        <- [i \in Ids |-> requests[i].key],
       answer     <- [i \in Ids |-> requests[i].secret],
       collectors <- [i \in Ids |-> {h \in Handlers : local[h].id = i /\ Collected(h)}]

\* The handlers, with every interleaving, failed call and crash, keep to the
\* lifecycle that RequestLifecycle states.
FollowsLifecycle == Lifecycle!Spec

\* docs/secret-requests.md: after a key is replaced, "previously shared links
\* will fail".  An answer that is acknowledged, and still there, is encrypted to
\* the key that the request shows.
AnswerFitsKey ==
  \A h \in Handlers :
    Provided(h) /\ requests[local[h].id].stored =>
      local[h].key = requests[local[h].id].key
==============================================================================
