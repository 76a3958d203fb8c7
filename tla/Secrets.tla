------------------------------- MODULE Secrets -------------------------------
(***************************************************************************)
(* Text secrets and their read receipts: the handlers createSecret,        *)
(* getSecret, secretStatusHandler, deleteSecretHandler (server.go) and     *)
(* createReceipt, markReceiptViewed, getSecretReceipt (receipt.go).        *)
(*                                                                         *)
(* Every server instance runs any number of these handlers at once against *)
(* one shared database, and keeps nothing about a secret in memory between *)
(* two requests, so the system is a set Reqs of HTTP requests that         *)
(* interleave at each database call.  A request is one element of Reqs     *)
(* from its arrival to its answer and is never reused: what it was         *)
(* answered stays in req[r].resp.                                          *)
(***************************************************************************)
EXTENDS Backend

CONSTANTS
  Keys,                 \* secret IDs that yopass.GenerateID may draw
  NoKey,                \* the key of a request that names none
  Reqs,                 \* HTTP requests, over all server instances
  Lifetimes,            \* the supported lifetimes (1h, 1d, 1w)
  AskedLifetimes,       \* the expirations clients put in a create request
  ForceLifetime,        \* Server.ForceExpiration; 0 when it is not set
  ForceOneTimeSecrets,  \* Server.ForceOneTimeSecrets
  OidcEnabled,          \* Server.oidcEnabled
  DisableReadReceipts,  \* Server.DisableReadReceipts
  MayEvict,             \* whether the database drops entries under pressure
  UpdateRetries,        \* attempts of one Database.Update
  MaxNow,               \* bound on the clock
  MaxFaults             \* bound on the calls that do not end "ok"

ASSUME KeysAssumption == NoKey \notin Keys
ASSUME LifetimesAssumption ==
  /\ Lifetimes \subseteq Nat \ {0}
  /\ AskedLifetimes \subseteq Nat
  /\ ForceLifetime \in Lifetimes \union {0}
ASSUME FlagsAssumption ==
  /\ ForceOneTimeSecrets \in BOOLEAN
  /\ OidcEnabled \in BOOLEAN
  /\ DisableReadReceipts \in BOOLEAN
  /\ MayEvict \in BOOLEAN
ASSUME BoundsAssumption ==
  /\ UpdateRetries \in Nat \ {0}
  /\ MaxNow \in Nat
  /\ MaxFaults \in Nat

VARIABLES
  now,        \* the clock of the servers and of the database, in seconds
  licensed,   \* License.CurrentlyValid
  faults,     \* calls that did not end "ok" so far
  asked,      \* asked[k]: the policy the secret k was created with
  secrets,    \* the database entries under k
  receipts,   \* the database entries under "receipt/" + k
  req         \* req[r]: the local state of the request r

vars == <<now, licensed, faults, asked, secrets, receipts, req>>

------------------------------------------------------------------------------
Policy == [oneTime : BOOLEAN, requireAuth : BOOLEAN, receipt : BOOLEAN,
           lifetime : Lifetimes]
NoPolicy == [oneTime |-> FALSE, requireAuth |-> FALSE, receipt |-> FALSE,
             lifetime |-> 0]

\* yopass.Secret without its ciphertext.
Secret == [stored : BOOLEAN, oneTime : BOOLEAN, requireAuth : BOOLEAN,
           dies : Nat]
NoSecret == [stored |-> FALSE, oneTime |-> FALSE, requireAuth |-> FALSE,
             dies |-> 0]

(***************************************************************************)
(* secretReceipt.  ver is the backend's CAS token (memcached) or the state *)
(* a WATCH guards (Redis): every write to the key changes it.              *)
(***************************************************************************)
Receipt == [stored : BOOLEAN, state : {"pending", "viewed"}, viewedAt : Nat,
            expiresAt : Nat, dies : Nat, ver : Nat]
NoReceipt == [stored |-> FALSE, state |-> "pending", viewedAt |-> 0,
              expiresAt |-> 0, dies |-> 0, ver |-> 0]

\* The session a request carries: none, one whose email domain is not (or no
\* longer) permitted, or one that authorizeSecretAccess accepts.
Sessions == {"none", "foreign", "member"}

Codes == {"400", "401", "403", "404", "500"}
Answers == Codes \union {"none", "created", "content", "gone204", "status",
                         "pending", "viewed", "crashed"}

(***************************************************************************)
(* pc is the database call the handler makes next: putReceipt and          *)
(* putSecret of a create; claim, markRead, markCas and then write of a     *)
(* get; remove of a delete.  status and receipt checks make one call and   *)
(* are answered in the step that starts them.  due is the ExpiresAt of the *)
(* receipt the handler builds, at the time at which an Update read it, ver *)
(* the version it read and tries its lost races.  took and lapse are       *)
(* history: the request became entitled to the content, and its receipt    *)
(* update ended in a logged error.                                         *)
(***************************************************************************)
Request == [pc : {"idle", "putReceipt", "putSecret", "claim", "remove",
                  "markRead", "markCas", "write", "done"},
            op : {"none", "create", "get", "delete", "status", "check"},
            key : Keys \union {NoKey}, session : Sessions, due : Nat,
            at : Nat, ver : Nat, tries : Nat, took : BOOLEAN, lapse : BOOLEAN, resp : Answers]

InFlight(r) == req[r].pc \notin {"idle", "done"}
At(r, pc)   == req[r].pc = pc

\* r's handler moves on to pc, with no other local change.
Goto(r, pc) == req' = [req EXCEPT ![r].pc = pc]

\* r's handler returns: its locals are gone, its history and answer stay.
Done(q, resp) == [q EXCEPT !.pc = "done", !.resp = resp, !.due = 0,
                           !.at = 0, !.ver = 0, !.tries = 0]
Answer(r, resp) == req' = [req EXCEPT ![r] = Done(@, resp)]

Spend(call) == /\ faults + Faults(call) <= MaxFaults
               /\ faults' = faults + Faults(call)

Loadable(k) == receipts[k].stored /\ SecondsUntil(receipts[k].expiresAt, now) > 0

\* The key is known outside the servers: some create was answered with it.
Disclosed(k) == \E r \in Reqs : req[r].resp = "created" /\ req[r].key = k

Issued(k) == asked[k] # NoPolicy

Init ==
  /\ now = 1
  /\ licensed \in BOOLEAN
  /\ faults = 0
  /\ asked = [k \in Keys |-> NoPolicy]
  /\ secrets = [k \in Keys |-> NoSecret]
  /\ receipts = [k \in Keys |-> NoReceipt]
  /\ req = [r \in Reqs |->
              [pc |-> "idle", op |-> "none", key |-> NoKey, session |-> "none",
               due |-> 0, at |-> 0, ver |-> 0, tries |-> 0,
               took |-> FALSE, lapse |-> FALSE, resp |-> "none"]]

------------------------------------------------------------------------------
(***************************************************************************)
(* Creating a secret.                                                      *)
(***************************************************************************)
ReadReceiptsEnabled == licensed /\ ~DisableReadReceipts

\* Seeded bug: the expiration is not validated.
PolicyAcceptedAnyLifetime(p) ==
  /\ p.receipt => ReadReceiptsEnabled
  /\ p.requireAuth => OidcEnabled
  /\ ForceOneTimeSecrets => p.oneTime

\* checkCreationPolicy accepts p.
PolicyAccepted(p) ==
  /\ p.receipt => ReadReceiptsEnabled
  /\ p.lifetime \in Lifetimes
  /\ ForceLifetime # 0 => p.lifetime = ForceLifetime
  /\ p.requireAuth => OidcEnabled
  /\ ForceOneTimeSecrets => p.oneTime

RejectCreate(r, p) ==
  /\ At(r, "idle")
  /\ ~PolicyAccepted(p)
  /\ req' = [req EXCEPT ![r] = Done([@ EXCEPT !.op = "create"], "400")]
  /\ UNCHANGED <<now, licensed, faults, asked, secrets, receipts>>

(***************************************************************************)
(* The policy check, the fresh ID and the receipt's ExpiresAt, read from   *)
(* the clock before the first database call.                               *)
(***************************************************************************)
StartCreate(r, p, k) ==
  /\ At(r, "idle")
  /\ PolicyAccepted(p)
  /\ ~Issued(k)
  /\ asked' = [asked EXCEPT ![k] = p]
  /\ req' = [req EXCEPT ![r] =
               [@ EXCEPT !.pc = IF p.receipt THEN "putReceipt" ELSE "putSecret",
                         !.op = "create", !.key = k,
                         !.due = IF p.receipt THEN now + p.lifetime ELSE 0]]
  /\ UNCHANGED <<now, licensed, faults, secrets, receipts>>

PendingReceipt(k, due) ==
  [stored |-> TRUE, state |-> "pending", viewedAt |-> 0, expiresAt |-> due,
   dies |-> DiesAt(asked[k].lifetime, now), ver |-> 1]

PutReceipt(r) ==
  LET k == req[r].key IN
  /\ At(r, "putReceipt")
  /\ \E call \in WriteCalls :
       /\ Spend(call)
       /\ receipts' = IF Applied(call)
                      THEN [receipts EXCEPT ![k] = PendingReceipt(k, req[r].due)]
                      ELSE receipts
       /\ IF Errs(call) THEN Answer(r, "500") ELSE Goto(r, "putSecret")
  /\ UNCHANGED <<now, licensed, asked, secrets>>

PutSecret(r) ==
  LET k == req[r].key IN
  /\ At(r, "putSecret")
  /\ \E call \in WriteCalls :
       /\ Spend(call)
       /\ secrets' =
            IF Applied(call)
            THEN [secrets EXCEPT ![k] =
                    [stored |-> TRUE, oneTime |-> asked[k].oneTime,
                     requireAuth |-> asked[k].requireAuth,
                     dies |-> DiesAt(asked[k].lifetime, now)]]
            ELSE secrets
       /\ Answer(r, IF Errs(call) THEN "500" ELSE "created")
  /\ UNCHANGED <<now, licensed, asked, receipts>>

------------------------------------------------------------------------------
(***************************************************************************)
(* Reading, deleting and inspecting a secret all begin with DB.Status and  *)
(* answer 404 to its error, whatever it was.                               *)
(***************************************************************************)
Refusal(session) == IF session = "none" THEN "401" ELSE "403"

\* Seeded bug: any session will do, whatever its email domain.
AuthorizedAnyDomain(s, session) == s.requireAuth => session # "none"

\* authorizeSecretAccess
Authorized(s, session) == s.requireAuth => session = "member"

\* Seeded bug: a one-time secret is served from the read, without the claim.
AfterStatusUnclaimed(q, op, s, session) ==
  IF op = "status" THEN Done(q, "status")
  ELSE IF ~Authorized(s, session) THEN Done(q, Refusal(session))
  ELSE IF op = "delete" THEN [q EXCEPT !.pc = "remove"]
  ELSE [q EXCEPT !.pc = "markRead", !.took = TRUE]

\* Seeded bug: only one-time secrets mark their receipt.
AfterStatusUnmarked(q, op, s, session) ==
  IF op = "status" THEN Done(q, "status")
  ELSE IF ~Authorized(s, session) THEN Done(q, Refusal(session))
  ELSE IF op = "delete" THEN [q EXCEPT !.pc = "remove"]
  ELSE IF s.oneTime THEN [q EXCEPT !.pc = "claim"]
  ELSE [q EXCEPT !.pc = "write", !.took = TRUE]

\* What q does next once DB.Status found the secret s for operation op.
AfterStatus(q, op, s, session) ==
  IF op = "status" THEN Done(q, "status")
  ELSE IF ~Authorized(s, session) THEN Done(q, Refusal(session))
  ELSE IF op = "delete" THEN [q EXCEPT !.pc = "remove"]
  ELSE IF s.oneTime THEN [q EXCEPT !.pc = "claim"]
  ELSE [q EXCEPT !.pc = "markRead", !.took = TRUE]

StartAccess(r, op, k, session) ==
  LET q == [req[r] EXCEPT !.op = op, !.key = k, !.session = session] IN
  /\ At(r, "idle")
  /\ Disclosed(k)
  /\ \E call \in ReadCalls :
       /\ Spend(call)
       /\ req' = [req EXCEPT ![r] =
                    IF Errs(call) \/ ~secrets[k].stored
                    THEN Done(q, "404")
                    ELSE AfterStatus(q, op, secrets[k], session)]
  /\ UNCHANGED <<now, licensed, asked, secrets, receipts>>

\* Seeded bug: the handler goes on after finding that the key was gone.
DeleteKeyNoReturn(r, next) ==
  LET k == req[r].key IN
  \E call \in DeleteCalls :
    /\ Spend(call)
    /\ secrets' = IF Applied(call) THEN [secrets EXCEPT ![k] = NoSecret]
                                   ELSE secrets
    /\ req' = [req EXCEPT ![r] =
                 IF Errs(call) THEN Done(@, "500")
                 ELSE [next EXCEPT !.took = secrets[k].stored]]
    /\ UNCHANGED <<now, licensed, asked, receipts>>

(***************************************************************************)
(* DB.Delete(k), as claimOneTimeSecret and deleteSecretHandler use it: an  *)
(* error is a 500, "was not there" is a 404, and otherwise next holds.     *)
(***************************************************************************)
DeleteKey(r, next) ==
  LET k == req[r].key IN
  \E call \in DeleteCalls :
    /\ Spend(call)
    /\ secrets' = IF Applied(call) THEN [secrets EXCEPT ![k] = NoSecret]
                                   ELSE secrets
    /\ req' = [req EXCEPT ![r] =
                 IF Errs(call) THEN Done(@, "500")
                 ELSE IF call = "repeated" \/ ~secrets[k].stored
                      THEN Done(@, "404")
                      ELSE next]
    /\ UNCHANGED <<now, licensed, asked, receipts>>

Claim(r) ==
  /\ At(r, "claim")
  /\ DeleteKey(r, [req[r] EXCEPT !.pc = "markRead", !.took = TRUE])

Remove(r) ==
  /\ At(r, "remove")
  /\ DeleteKey(r, Done([req[r] EXCEPT !.took = TRUE], "gone204"))

------------------------------------------------------------------------------
(***************************************************************************)
(* markReceiptViewed, a Database.Update: read, apply the function, compare *)
(* and swap, again from the read when the key changed in between.  It is   *)
(* best effort: whatever happens the handler goes on to write the secret.  *)
(***************************************************************************)
\* Seeded bug: an expired receipt is marked too, with a zero expiration.
NothingToMarkButViewed(rec) == rec.state = "viewed"

\* The update function gives up: expired, or viewed already.
NothingToMark(rec) ==
  SecondsUntil(rec.expiresAt, now) = 0 \/ rec.state = "viewed"

MarkRead(r) ==
  LET rec == receipts[req[r].key] IN
  /\ At(r, "markRead")
  /\ \E call \in ReadCalls :
       /\ Spend(call)
       /\ req' = [req EXCEPT ![r] =
                    IF Errs(call)
                    THEN [@ EXCEPT !.pc = "write", !.lapse = TRUE]
                    ELSE IF ~rec.stored \/ NothingToMark(rec)
                    THEN [@ EXCEPT !.pc = "write"]
                    ELSE [@ EXCEPT !.pc = "markCas", !.ver = rec.ver,
                                   !.due = rec.expiresAt, !.at = now]]
  /\ UNCHANGED <<now, licensed, asked, secrets, receipts>>

(***************************************************************************)
(* The record the update function made of what q read.  Its viewedAt and   *)
(* its expiration were computed when q read the old one.                   *)
(***************************************************************************)
ViewedReceipt(q) ==
  [stored |-> TRUE, state |-> "viewed", viewedAt |-> q.at,
   expiresAt |-> q.due, dies |-> DiesAt(SecondsUntil(q.due, q.at), now),
   ver |-> q.ver + 1]

\* Seeded bug: the write looks at the key, not at its version.
CasMatchesAnyVersion(rec, ver) == rec.stored

\* Seeded bug: the write is a plain Put.
CasMatchesAlways(rec, ver) == TRUE

\* The write of an Update commits only onto the version that was read.
CasMatches(rec, ver) == rec.stored /\ rec.ver = ver

MarkSwap(r) ==
  LET k == req[r].key IN
  /\ At(r, "markCas")
  /\ CasMatches(receipts[k], req[r].ver)
  /\ \E call \in WriteCalls :
       /\ Spend(call)
       /\ receipts' =
            IF Applied(call)
            THEN [receipts EXCEPT ![k] = ViewedReceipt(req[r])]
            ELSE receipts
       /\ req' = [req EXCEPT ![r] = [@ EXCEPT !.pc = "write",
                                              !.lapse = Errs(call)]]
  /\ UNCHANGED <<now, licensed, asked, secrets>>

\* The key is gone, and memcached says so: ErrKeyNotFound, which
\* markReceiptViewed does not count as an error.
MarkMissing(r) ==
  /\ At(r, "markCas")
  /\ ~receipts[req[r].key].stored
  /\ Goto(r, "write")
  /\ UNCHANGED <<now, licensed, faults, asked, secrets, receipts>>

\* Seeded bug: the conflicting write is tried again without a new read.
MarkConflictNoReload(r) ==
  /\ At(r, "markCas")
  /\ ~CasMatches(receipts[req[r].key], req[r].ver)
  /\ req' = [req EXCEPT ![r].tries = @ + 1]
  /\ UNCHANGED <<now, licensed, faults, asked, secrets, receipts>>

\* Seeded bug: ... and the attempts are not counted.
MarkConflictSpins(r) ==
  /\ At(r, "markCas")
  /\ ~CasMatches(receipts[req[r].key], req[r].ver)
  /\ UNCHANGED vars

\* The key changed, or (Redis does not tell) is gone: read it again, or give up
\* after UpdateRetries attempts.
MarkConflict(r) ==
  LET tries == req[r].tries + 1 IN
  /\ At(r, "markCas")
  /\ ~CasMatches(receipts[req[r].key], req[r].ver)
  /\ req' = [req EXCEPT ![r] =
               IF tries < UpdateRetries
               THEN [@ EXCEPT !.pc = "markRead", !.tries = tries]
               ELSE [@ EXCEPT !.pc = "write", !.tries = tries,
                              !.lapse = TRUE]]
  /\ UNCHANGED <<now, licensed, faults, asked, secrets, receipts>>

Write(r) ==
  /\ At(r, "write")
  /\ Answer(r, "content")
  /\ UNCHANGED <<now, licensed, faults, asked, secrets, receipts>>

(***************************************************************************)
(* getSecretReceipt.  loadReceipt turns a database error, a missing and an *)
(* expired record alike into "not found".                                  *)
(***************************************************************************)
CheckReceipt(r, k, tokenValid) ==
  /\ At(r, "idle")
  /\ Disclosed(k)
  /\ \E call \in ReadCalls :
       /\ Spend(call)
       /\ req' = [req EXCEPT ![r] =
                    Done([@ EXCEPT !.op = "check", !.key = k],
                         IF Errs(call) \/ ~Loadable(k) THEN "404"
                         ELSE IF ~tokenValid THEN "401"
                         ELSE receipts[k].state)]
  /\ UNCHANGED <<now, licensed, asked, secrets, receipts>>

------------------------------------------------------------------------------
(***************************************************************************)
(* What happens around the handlers.                                       *)
(***************************************************************************)
\* A second passes; the database forgets what has reached its time.
Tick ==
  /\ now < MaxNow
  /\ now' = now + 1
  /\ secrets' = [k \in Keys |-> IF Expired(secrets[k].dies, now + 1)
                                THEN NoSecret ELSE secrets[k]]
  /\ receipts' = [k \in Keys |-> IF Expired(receipts[k].dies, now + 1)
                                 THEN NoReceipt ELSE receipts[k]]
  /\ UNCHANGED <<licensed, faults, asked, req>>

\* A database short of memory drops an entry before its time.
EvictSecret(k) ==
  /\ MayEvict
  /\ secrets[k].stored
  /\ secrets' = [secrets EXCEPT ![k] = NoSecret]
  /\ UNCHANGED <<now, licensed, faults, asked, receipts, req>>

EvictReceipt(k) ==
  /\ MayEvict
  /\ receipts[k].stored
  /\ receipts' = [receipts EXCEPT ![k] = NoReceipt]
  /\ UNCHANGED <<now, licensed, faults, asked, secrets, req>>

\* A license is not renewed without a restart: it only runs out.
LicenseExpires ==
  /\ licensed
  /\ licensed' = FALSE
  /\ UNCHANGED <<now, faults, asked, secrets, receipts, req>>

\* The instance dies, or the handler panics, with the request half done.
Crash(r) ==
  /\ InFlight(r)
  /\ Answer(r, "crashed")
  /\ UNCHANGED <<now, licensed, faults, asked, secrets, receipts>>

\* No request is being handled: the system may stay as it is.
Quiet ==
  /\ \A r \in Reqs : ~InFlight(r)
  /\ UNCHANGED vars

AskedPolicies == [oneTime : BOOLEAN, requireAuth : BOOLEAN,
                  receipt : BOOLEAN, lifetime : AskedLifetimes]

\* The steps of a request that a client sends.
Arrive(r) ==
  \/ \E p \in AskedPolicies : RejectCreate(r, p)
  \/ \E p \in AskedPolicies, k \in Keys : StartCreate(r, p, k)
  \/ \E k \in Keys, op \in {"get", "delete", "status"}, s \in Sessions :
       StartAccess(r, op, k, s)
  \/ \E k \in Keys, valid \in BOOLEAN : CheckReceipt(r, k, valid)

\* The steps of the handler of an accepted request.
Handle(r) ==
  \/ PutReceipt(r)
  \/ PutSecret(r)
  \/ Claim(r)
  \/ Remove(r)
  \/ MarkRead(r)
  \/ MarkSwap(r)
  \/ MarkMissing(r)
  \/ MarkConflict(r)
  \/ Write(r)

Next ==
  \/ \E r \in Reqs : Arrive(r)
  \/ \E r \in Reqs : Handle(r)
  \/ \E r \in Reqs : Crash(r)
  \/ \E k \in Keys : EvictSecret(k)
  \/ \E k \in Keys : EvictReceipt(k)
  \/ Tick
  \/ LicenseExpires
  \/ Quiet

Spec == Init /\ [][Next]_vars

(***************************************************************************)
(* Every database call returns (both client libraries time out), so the    *)
(* handler of a request that was accepted keeps running.  Nothing else is  *)
(* fair: clients, the clock, evictions and crashes need not happen.        *)
(***************************************************************************)
Fairness == \A r \in Reqs : WF_vars(Handle(r))
FairSpec == Spec /\ Fairness

------------------------------------------------------------------------------
(***************************************************************************)
(* Properties.                                                             *)
(***************************************************************************)

\* Every variable stays in its type: the entries of both key spaces and the
\* locals of every handler.
TypeOK ==
  /\ now \in Nat
  /\ licensed \in BOOLEAN
  /\ faults \in Nat
  /\ asked \in [Keys -> Policy \union {NoPolicy}]
  /\ secrets \in [Keys -> Secret]
  /\ receipts \in [Keys -> Receipt]
  /\ req \in [Reqs -> Request]

\* The request was answered in a way that only one request may be, for a
\* one-time secret: it got the content, or the confirmation that it deleted
\* a secret nobody had read.
Served(r) == req[r].resp \in {"content", "gone204"}

\* A one-time secret is handed out or confirmed deleted at most once, over
\* all concurrent requests, lost replies, retries and crashes
\* (claimOneTimeSecret, deleteSecretHandler).
AtMostOneOpening ==
  \A r, q \in Reqs :
    /\ Served(r) /\ Served(q)
    /\ req[r].key = req[q].key
    /\ asked[req[r].key].oneTime
    => r = q

\* A secret that asked for authentication leaves the database before its time
\* only by an eviction or by a request that carries a permitted session: no
\* unauthorized request consumes it, whatever its answer (getSecret checks
\* with Status before it claims; deleteSecretHandler checks before it deletes).
AuthorizedRemoval ==
  [][\A k \in Keys :
       /\ asked[k].requireAuth
       /\ secrets[k].stored /\ ~secrets'[k].stored
       => \/ now' # now
          \/ req' = req
          \/ \E r \in Reqs : /\ req'[r] # req[r]
                             /\ req[r].key = k
                             /\ req[r].session = "member"]_vars

\* Whoever has been served a secret whose receipt can still be checked finds it
\* viewed, unless the update of that very request ended in a database error:
\* getSecret marks before it writes, and a lost race means somebody else
\* marked it.
DeliveredMeansMarked ==
  \A r \in Reqs :
    /\ req[r].resp = "content"
    /\ Loadable(req[r].key)
    /\ ~req[r].lapse
    => receipts[req[r].key].state = "viewed"

\* The time a receipt reports is the time of the first opening: once viewed,
\* a receipt never changes again until it disappears (markReceiptViewed runs
\* concurrently for every reader of a secret that is not one-time).
ViewedIsFinal ==
  [][\A k \in Keys :
       /\ receipts[k].stored /\ receipts[k].state = "viewed"
       /\ receipts'[k].stored
       => receipts'[k] = receipts[k]]_vars

\* The creation of k is over, or never reached the call that follows pc.
Settled(k, pcs) ==
  Issued(k) /\ \A r \in Reqs : req[r].key = k => req[r].pc \notin pcs

\* What was consumed, deleted, evicted or has expired never comes back: not the
\* secret, and not the receipt through the late write of an Update.
NoResurrection ==
  [][\A k \in Keys :
       /\ /\ Settled(k, {"putReceipt", "putSecret"})
          /\ ~secrets[k].stored
          => ~secrets'[k].stored
       /\ /\ Settled(k, {"putReceipt"})
          /\ ~receipts[k].stored
          => ~receipts'[k].stored]_vars

\* Nothing is stored for ever, and nothing outlives the longest time its
\* creator asked for counted from now: no write passes the zero expiration
\* that the backends read as "never" (checkCreationPolicy, markReceiptViewed).
Mortal ==
  \A k \in Keys :
    LET latest == now + asked[k].lifetime IN
    /\ secrets[k].stored => secrets[k].dies \in (now + 1)..latest
    /\ receipts[k].stored => receipts[k].dies \in (now + 1)..latest

\* One lost race is enough for any reader to find the receipt viewed: the
\* retries of Update are never used up by readers racing each other.
AtMostOneConflict == \A r \in Reqs : req[r].tries <= 1

------------------------------------------------------------------------------
(***************************************************************************)
(* The inductive invariant behind AtMostOneOpening.  A one-time secret     *)
(* that somebody is entitled to is no longer in the database, so nobody    *)
(* else can become entitled to it; and no write puts it back, because a    *)
(* key is used by its create alone until that create has been answered.    *)
(***************************************************************************)
Creating(r) == req[r].pc \in {"putReceipt", "putSecret"}

\* What a request is before it starts and before it ends.
FreshInv ==
  \A r \in Reqs :
    /\ req[r].pc # "done" => req[r].resp = "none"
    /\ At(r, "idle") => req[r].key = NoKey /\ ~req[r].took

\* A request that is handled or has succeeded is about a key.
KeyInv ==
  \A r \in Reqs :
    \/ InFlight(r) \/ req[r].took
    \/ req[r].resp \in {"created", "content", "gone204"}
    => req[r].key \in Keys

\* A key that was not drawn yet occurs nowhere.
IssueInv ==
  \A k \in Keys :
    ~Issued(k) => /\ ~secrets[k].stored
                  /\ \A r \in Reqs : req[r].key # k

\* Until its create is over, a key is known to its create only.
CreateInv ==
  \A r \in Reqs :
    Creating(r) => /\ ~secrets[req[r].key].stored
                   /\ ~req[r].took
                   /\ \A q \in Reqs : req[q].key = req[r].key => q = r

\* The stored secret carries the policy it was asked with.
CopyInv ==
  \A k \in Keys :
    secrets[k].stored => /\ secrets[k].oneTime = asked[k].oneTime
                         /\ secrets[k].requireAuth = asked[k].requireAuth

\* Whoever took a one-time secret is alone, and the secret is gone.
TakenInv ==
  \A r \in Reqs :
    req[r].took /\ asked[req[r].key].oneTime =>
      /\ ~secrets[req[r].key].stored
      /\ \A q \in Reqs : req[q].took /\ req[q].key = req[r].key => q = r

\* The content goes only to a request that took the secret.
ServedInv ==
  \A r \in Reqs :
    \/ req[r].pc \in {"markRead", "markCas", "write"}
    \/ Served(r)
    => req[r].took

OpeningInv ==
  /\ FreshInv /\ KeyInv /\ IssueInv /\ CreateInv
  /\ CopyInv /\ TakenInv /\ ServedInv

------------------------------------------------------------------------------
\* Secrets as the promise sees them.  A key whose create is over and that is
\* not stored is gone: published and withdrawn, or never published.
PhaseOf(k) ==
  IF secrets[k].stored
  THEN IF secrets[k].oneTime THEN "once" ELSE "many"
  ELSE IF Settled(k, {"putReceipt", "putSecret"}) THEN "gone" ELSE "unborn"
OpenersOf(k) == {r \in Reqs : req[r].op = "get" /\ req[r].key = k /\ req[r].took}
NoteOf(k) ==
  IF receipts[k].stored THEN receipts[k].state
  ELSE IF Settled(k, {"putReceipt"}) THEN "gone" ELSE "none"

Promise == INSTANCE SecretPromise
  WITH Readers <- Reqs,
       phase   <- [k \in Keys |-> PhaseOf(k)],
       openers <- [k \in Keys |-> OpenersOf(k)],
       note    <- [k \in Keys |-> NoteOf(k)]

\* The handlers, with every interleaving, failed call and crash, keep what
\* SecretPromise says: the claim is the opening, and a receipt is attached
\* before its secret and marked after the opening.
KeepsPromise == Promise!Spec

\* A handler always comes to an answer (or dies with its instance).
EveryRequestAnswered ==
  \A r \in Reqs : InFlight(r) ~> At(r, "done")

\* docs/read-receipts.md: "a 404 after creation means the secret was never
\* read in time".  A check that is answered 404 about a disclosed key with a
\* receipt is never preceded by an answer that carries the content.
NotFoundMeansUnread ==
  [][\A r \in Reqs :
       /\ At(r, "idle")
       /\ req'[r].op = "check" /\ req'[r].resp = "404"
       /\ asked[req'[r].key].receipt
       => \A q \in Reqs : req[q].key = req'[r].key => req[q].resp # "content"]_vars
==============================================================================
