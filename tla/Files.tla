-------------------------------- MODULE Files --------------------------------
(***************************************************************************)
(* Files: the handlers streamUpload and streamDownload (server_stream.go)  *)
(* and deleteSecretHandler with its blob (server.go), the three FileStores *)
(* and the sweeps that remove what has expired (filestore_*.go).           *)
(*                                                                         *)
(* A file lives in two places, the metadata in the database and the blob   *)
(* in the file store, which no transaction spans: a handler that fails or  *)
(* dies in between leaves one without the other.  As in Secrets a request  *)
(* is an element of Reqs, interleaves with all others at each call, and is *)
(* never reused.  The policy, the sessions, evictions and the race for the *)
(* receipt are as in Secrets, and abstracted here.                         *)
(***************************************************************************)
EXTENDS Backend

CONSTANTS
  Keys, NoKey,   \* IDs that GenerateID may draw, and the key of none
  Reqs,          \* HTTP requests, over all server instances
  Stores,        \* the FileStores the server may have been set up with
  Lifetime,      \* the expiration of an upload
  MaxNow,        \* bound on the clock
  MaxFaults      \* bound on the calls that do not end "ok"

ASSUME FilesAssumption ==
  /\ NoKey \notin Keys
  /\ Stores \subseteq {"disk", "s3", "database"}
  /\ Lifetime \in Nat \ {0} /\ MaxNow \in Nat \ {0} /\ MaxFaults \in Nat

VARIABLES
  fileStore,  \* which FileStore it is
  now,        \* the clock of the servers and the stores
  faults,     \* calls that did not end "ok" so far
  asked,      \* asked[k]: what the upload of k asked for
  meta,       \* meta[k]: when the entry "stream:" + k dies, or Gone
  receipt,    \* receipt[k]: the state of the receipt of k
  blob,       \* the keys whose ciphertext is in the file store
  until,      \* until[k]: the expiration beside the blob: the .meta file, the
              \* Expires header or the time of the database entry; or Gone
  sweep,      \* the key whose .bin the sweep has just removed
  stuck,      \* keys whose .bin could not be removed
  req         \* req[r]: the local state of the request r

vars == <<fileStore, now, faults, asked, meta, receipt, blob, until, sweep,
          stuck, req>>
database == <<meta, receipt>>
files    == <<blob, until, sweep, stuck>>

Gone == 0

Asked == [oneTime : BOOLEAN, receipt : BOOLEAN]
Unasked == [oneTime |-> FALSE, receipt |-> FALSE]

(***************************************************************************)
(* pc is the call the handler makes next.  due is the expiration an upload *)
(* computes before it reads the body, late says that the body came in      *)
(* after that, took that the request's DB.Delete removed the metadata, and *)
(* got what a download has sent.                                           *)
(***************************************************************************)
Request == [pc : {"idle", "receipt", "save", "body", "putMeta", "undo", "claim",
                  "load", "stale", "stream", "mark", "remove", "drop", "done"},
            op : {"none", "upload", "download", "delete"},
            key : Keys \union {NoKey}, due : Nat, late : BOOLEAN,
            took : BOOLEAN, got : {"nothing", "part", "all"},
            resp : {"none", "refused", "created", "content", "gone204",
                    "404", "500", "503", "crashed"}]

At(r, pc)   == req[r].pc = pc
InFlight(r) == req[r].pc \notin {"idle", "done"}

Goto(r, pc)     == req' = [req EXCEPT ![r].pc = pc]
Done(q, resp)   == [q EXCEPT !.pc = "done", !.resp = resp]
Answer(r, resp) == req' = [req EXCEPT ![r] = Done(@, resp)]

Spend(call) == /\ faults + Faults(call) <= MaxFaults
               /\ faults' = faults + Faults(call)

\* How a call to the file store ends: on disk it is known.
StoreCalls == IF fileStore = "disk" THEN ReadCalls ELSE WriteCalls

Uploads(k) == {r \in Reqs : req[r].op = "upload" /\ req[r].key = k}
Created(k) == \E r \in Uploads(k) : req[r].resp = "created"

Init ==
  /\ fileStore \in Stores
  /\ now = 1 /\ faults = 0
  /\ asked = [k \in Keys |-> Unasked]
  /\ meta = [k \in Keys |-> Gone]
  /\ receipt = [k \in Keys |-> "none"]
  /\ blob = {} /\ until = [k \in Keys |-> Gone]
  /\ sweep = NoKey /\ stuck = {}
  /\ req = [r \in Reqs |->
       [pc |-> "idle", op |-> "none", key |-> NoKey, due |-> 0, late |-> FALSE,
        took |-> FALSE, got |-> "nothing", resp |-> "none"]]

------------------------------------------------------------------------------
(***************************************************************************)
(* The upload: the receipt first, then the blob, then the metadata.        *)
(***************************************************************************)
StartUpload(r, k, a) ==
  /\ At(r, "idle")
  /\ Uploads(k) = {}
  /\ asked' = [asked EXCEPT ![k] = a]
  /\ req' = [req EXCEPT ![r].pc = IF a.receipt THEN "receipt" ELSE "save",
                        ![r].op = "upload", ![r].key = k]
  /\ UNCHANGED <<fileStore, now, faults, database, files>>

PutReceipt(r) ==
  /\ At(r, "receipt")
  /\ \E call \in WriteCalls :
       /\ Spend(call)
       /\ receipt' = IF Applied(call) THEN [receipt EXCEPT ![req[r].key] = "pending"]
                     ELSE receipt
       /\ IF Errs(call) THEN Answer(r, "500") ELSE Goto(r, "save")
  /\ UNCHANGED <<fileStore, now, asked, meta, files>>

(***************************************************************************)
(* Save computes the expiration before it reads the body, and the disk     *)
(* store writes it, as the .meta file, before there is a .bin.             *)
(***************************************************************************)
BeginSave(r) ==
  /\ At(r, "save")
  /\ \E call \in IF fileStore = "disk" THEN ReadCalls ELSE {"ok"} :
       /\ Spend(call)
       /\ IF Errs(call) THEN Answer(r, "500") /\ UNCHANGED until
          ELSE /\ req' = [req EXCEPT ![r].pc = "body", ![r].due = now + Lifetime]
               /\ until' = IF fileStore = "disk"
                           THEN [until EXCEPT ![req[r].key] = now + Lifetime]
                           ELSE until
  /\ UNCHANGED <<fileStore, now, asked, database, blob, sweep, stuck>>

\* What Save leaves of the expiration when it fails: the .meta file is removed.
Unsaved(k) == IF fileStore = "disk" THEN [until EXCEPT ![k] = Gone] ELSE until

\* The client stops sending, or has sent too much.
BreakBody(r) ==
  /\ At(r, "body")
  /\ until' = Unsaved(req[r].key)
  /\ Answer(r, "500")
  /\ UNCHANGED <<fileStore, now, faults, asked, database, blob, sweep, stuck>>

\* Seeded bug: the object is stored without its Expires header.
SavedUntilUnsaid(q) == CASE fileStore = "disk"     -> until[q.key]
                         [] fileStore = "s3"       -> Gone
                         [] fileStore = "database" -> DiesAt(Lifetime, now)
\* Seeded bug: the lifetime is added to the expiration again.
SavedUntilTwice(q) == q.due + Lifetime

\* The expiration that is stored with the blob: the disk store has written it
\* before, and the database counts from its own Put.
SavedUntil(q) == CASE fileStore = "disk"     -> until[q.key]
                   [] fileStore = "s3"       -> q.due
                   [] fileStore = "database" -> DiesAt(Lifetime, now)

\* The whole body is there: the rename, PutObject or Put.
EndSave(r) ==
  LET k == req[r].key IN
  /\ At(r, "body")
  /\ \E call \in StoreCalls :
       /\ Spend(call)
       /\ blob' = IF Applied(call) THEN blob \union {k} ELSE blob
       /\ until' = IF Applied(call) THEN [until EXCEPT ![k] = SavedUntil(req[r])]
                   ELSE Unsaved(k)
       /\ req' = [req EXCEPT ![r] =
            IF Errs(call) THEN Done(@, "500")
            ELSE [@ EXCEPT !.pc = "putMeta", !.late = now > req[r].due]]
  /\ UNCHANGED <<fileStore, now, asked, database, sweep, stuck>>

PutMeta(r) ==
  /\ At(r, "putMeta")
  /\ \E call \in WriteCalls :
       /\ Spend(call)
       /\ meta' = IF Applied(call)
                  THEN [meta EXCEPT ![req[r].key] = DiesAt(Lifetime, now)] ELSE meta
       /\ IF Errs(call) THEN Goto(r, "undo") ELSE Answer(r, "created")
  /\ UNCHANGED <<fileStore, now, asked, receipt, files>>

------------------------------------------------------------------------------
(***************************************************************************)
(* FileStore.Delete(k), and the answer.  The disk store removes the .meta  *)
(* file first, and has forgotten the blob if it then fails to remove the   *)
(* .bin.                                                                   *)
(***************************************************************************)
DeleteBlob(r, ok, failed) ==
  LET k == req[r].key IN
  \E call \in StoreCalls :
    /\ Spend(call)
    /\ blob' = IF Applied(call) THEN blob \ {k} ELSE blob
    /\ until' = IF Applied(call) \/ fileStore = "disk"
                THEN [until EXCEPT ![k] = Gone] ELSE until
    /\ stuck' = IF fileStore = "disk" /\ ~Applied(call) THEN stuck \union {k} ELSE stuck
    /\ Answer(r, IF Errs(call) THEN failed ELSE ok)
    /\ UNCHANGED <<fileStore, now, asked, database, sweep>>

\* The metadata could not be stored: the blob goes again, if it can.
Undo(r) == At(r, "undo") /\ DeleteBlob(r, "500", "500")

\* What remains of a one-time file, which was sent, or of a deleted one.
Drop(r) ==
  /\ At(r, "drop")
  /\ IF req[r].op = "download" THEN DeleteBlob(r, "content", "content")
     ELSE DeleteBlob(r, "gone204", "500")

------------------------------------------------------------------------------
(***************************************************************************)
(* Downloads and deletions begin with DB.Status, and answer 404 to any of  *)
(* its errors; authorizeSecretAccess may refuse them.                      *)
(***************************************************************************)
StartAccess(r, op, k) ==
  LET q == [req[r] EXCEPT !.op = op, !.key = k]
      next == IF op = "delete" THEN "remove"
              ELSE IF asked[k].oneTime THEN "claim" ELSE "load"
  IN
  /\ At(r, "idle")
  /\ Created(k)
  /\ \E call \in ReadCalls :
       /\ Spend(call)
       /\ \/ /\ Errs(call) \/ meta[k] = Gone
             /\ req' = [req EXCEPT ![r] = Done(q, "404")]
          \/ /\ ~Errs(call) /\ meta[k] # Gone
             /\ req' \in {[req EXCEPT ![r] = Done(q, "refused")],
                          [req EXCEPT ![r] = [q EXCEPT !.pc = next]]}
  /\ UNCHANGED <<fileStore, now, asked, database, files>>

\* Seeded bug: the handler goes on after finding that the key was gone.
DeleteMetaNoReturn(r, next) ==
  LET k == req[r].key IN
  \E call \in DeleteCalls :
    /\ Spend(call)
    /\ meta' = IF Applied(call) THEN [meta EXCEPT ![k] = Gone] ELSE meta
    /\ req' = [req EXCEPT ![r] = IF Errs(call) THEN Done(@, "500")
                                 ELSE [@ EXCEPT !.pc = next, !.took = TRUE]]
    /\ UNCHANGED <<fileStore, now, asked, receipt, files>>

\* claimOneTimeSecret, or the DB.Delete of deleteSecretHandler.
DeleteMeta(r, next) ==
  LET k == req[r].key IN
  \E call \in DeleteCalls :
    /\ Spend(call)
    /\ meta' = IF Applied(call) THEN [meta EXCEPT ![k] = Gone] ELSE meta
    /\ LET q == [req[r] EXCEPT !.took = Applied(call) /\ meta[k] # Gone] IN
       req' = [req EXCEPT ![r] =
                 IF Errs(call) THEN Done(q, "500")
                 ELSE IF call = "repeated" \/ ~q.took THEN Done(q, "404")
                 ELSE [q EXCEPT !.pc = next]]
    /\ UNCHANGED <<fileStore, now, asked, receipt, files>>

Claim(r)  == At(r, "claim") /\ DeleteMeta(r, "load")
Remove(r) == At(r, "remove") /\ DeleteMeta(r, "drop")

\* Seeded bug: every error is taken for "gone".
NotLoadedGone(r, errs) ==
  IF asked[req[r].key].oneTime THEN Answer(r, "404") ELSE Goto(r, "stale")

\* What a download does that finds no blob, or cannot reach it.
NotLoaded(r, errs) ==
  IF errs THEN Answer(r, "503")
  ELSE IF asked[req[r].key].oneTime THEN Answer(r, "404") ELSE Goto(r, "stale")

\* FileStore.Load: what was opened can be read to its end, even if removed.
Load(r) ==
  /\ At(r, "load")
  /\ \E call \in ReadCalls :
       /\ Spend(call)
       /\ IF ~Errs(call) /\ req[r].key \in blob THEN Goto(r, "stream")
          ELSE NotLoaded(r, Errs(call))
  /\ UNCHANGED <<fileStore, now, asked, database, files>>

\* The metadata of a file that is gone is removed; an error is only logged.
DropStale(r) ==
  /\ At(r, "stale")
  /\ \E call \in WriteCalls :
       /\ Spend(call)
       /\ meta' = IF Applied(call) THEN [meta EXCEPT ![req[r].key] = Gone] ELSE meta
  /\ Answer(r, "404")
  /\ UNCHANGED <<fileStore, now, asked, receipt, files>>

\* The body is sent to its end, or the connection or the store breaks.
Stream(r) ==
  /\ At(r, "stream")
  /\ \/ req' = [req EXCEPT ![r].got = "all", ![r].pc = "mark"]
     \/ req' = [req EXCEPT ![r] = Done([@ EXCEPT !.got = "part"], "content")]
  /\ UNCHANGED <<fileStore, now, faults, asked, database, files>>

\* markReceiptViewed: best effort (Secrets models its calls).
Mark(r) ==
  LET k == req[r].key IN
  /\ At(r, "mark")
  /\ \E call \in WriteCalls :
       /\ Spend(call)
       /\ receipt' = IF Applied(call) /\ receipt[k] = "pending"
                     THEN [receipt EXCEPT ![k] = "viewed"] ELSE receipt
  /\ IF asked[k].oneTime THEN Goto(r, "drop") ELSE Answer(r, "content")
  /\ UNCHANGED <<fileStore, now, asked, meta, files>>

------------------------------------------------------------------------------
(***************************************************************************)
(* The sweeps.  On disk: for every .meta file whose time has passed the    *)
(* .bin is removed, a failure is logged, and then the .meta file.          *)
(***************************************************************************)
Swept(k) == until[k] # Gone /\ now > until[k]

SweepBin(k) ==
  /\ fileStore = "disk" /\ sweep = NoKey /\ Swept(k)
  /\ \E call \in ReadCalls :
       /\ Spend(call)
       /\ blob' = IF Errs(call) THEN blob ELSE blob \ {k}
       /\ stuck' = IF Errs(call) /\ k \in blob THEN stuck \union {k} ELSE stuck
  /\ sweep' = k
  /\ UNCHANGED <<fileStore, now, asked, database, until, req>>

SweepMeta ==
  /\ sweep # NoKey
  /\ until' = [until EXCEPT ![sweep] = Gone]
  /\ sweep' = NoKey
  /\ UNCHANGED <<fileStore, now, faults, asked, database, blob, stuck, req>>

\* In S3 an object whose Expires header has passed is deleted, or the next
\* sweep tries again.
SweepObject(k) ==
  /\ fileStore = "s3" /\ k \in blob /\ Swept(k)
  /\ blob' = blob \ {k} /\ until' = [until EXCEPT ![k] = Gone]
  /\ UNCHANGED <<fileStore, now, faults, asked, database, sweep, stuck, req>>

Sweep == SweepMeta \/ \E k \in Keys : SweepBin(k) \/ SweepObject(k)

\* A second passes, and the database forgets what has reached its time.
Tick ==
  /\ now < MaxNow
  /\ now' = now + 1
  /\ meta' = [k \in Keys |-> IF Expired(meta[k], now + 1) THEN Gone ELSE meta[k]]
  /\ LET dead == {k \in Keys : fileStore = "database" /\ Expired(until[k], now + 1)}
     IN  /\ blob' = blob \ dead
         /\ until' = [k \in Keys |-> IF k \in dead THEN Gone ELSE until[k]]
  /\ UNCHANGED <<fileStore, faults, asked, receipt, sweep, stuck, req>>

\* The instance dies, with a request or with the sweep half done.  (It may
\* leave a .tmp file behind, which nothing ever reads or removes.)
Crash == /\ \/ \E r \in Reqs : InFlight(r) /\ Answer(r, "crashed") /\ UNCHANGED sweep
            \/ sweep # NoKey /\ sweep' = NoKey /\ UNCHANGED req
         /\ UNCHANGED <<fileStore, now, faults, asked, database, blob, until, stuck>>

Arrive(r) == \/ \E k \in Keys, a \in Asked : StartUpload(r, k, a)
             \/ \E k \in Keys, op \in {"download", "delete"} : StartAccess(r, op, k)

\* No request is being handled: the system may stay as it is.
Quiet == (\A r \in Reqs : ~InFlight(r)) /\ UNCHANGED vars

Handle(r) == \/ PutReceipt(r) \/ BeginSave(r) \/ BreakBody(r) \/ EndSave(r)
             \/ PutMeta(r) \/ Undo(r) \/ Drop(r)
             \/ Claim(r) \/ Remove(r) \/ Load(r) \/ DropStale(r)
             \/ Stream(r) \/ Mark(r)

Next == (\E r \in Reqs : Arrive(r) \/ Handle(r)) \/ Sweep \/ Tick \/ Crash \/ Quiet

\* The ticker of the cleanup goroutine keeps sweeping, where it is enabled.
\* Clients, handlers and the clock may stop.
Fairness == WF_vars(Sweep)

Spec == Init /\ [][Next]_vars /\ Fairness

------------------------------------------------------------------------------
(***************************************************************************)
(* Properties.                                                             *)
(***************************************************************************)
\* Every variable stays within its type; no time is further away than a
\* lifetime from the clock's bound.
TypeOK ==
  /\ fileStore \in Stores
  /\ now \in Nat /\ faults \in Nat
  /\ asked \in [Keys -> Asked]
  /\ meta \in [Keys -> 0..(MaxNow + Lifetime)]
  /\ receipt \in [Keys -> {"none", "pending", "viewed"}]
  /\ blob \subseteq Keys
  /\ until \in [Keys -> 0..(MaxNow + Lifetime)]
  /\ sweep \in Keys \union {NoKey}
  /\ stuck \subseteq Keys
  /\ req \in [Reqs -> Request]

(***************************************************************************)
(* A one-time file is sent, in whole or in part, to at most one download,  *)
(* and a receipt reads "viewed" only if some download was sent all of it:  *)
(* the metadata is claimed before the blob is opened, and the receipt      *)
(* marked after it was sent (server_stream.go:172-218).                    *)
(***************************************************************************)
SentOnceAndTold ==
  \A k \in Keys :
    LET sent == {r \in Reqs : req[r].key = k /\ req[r].got # "nothing"} IN
    /\ asked[k].oneTime => \A r, q \in sent : r = q
    /\ receipt[k] = "viewed" => \E r \in sent : req[r].got = "all"

(***************************************************************************)
(* Until its time, counted from the start of its upload, a file that is    *)
(* not one-time and that nobody deleted is there, metadata and blob, once  *)
(* its upload was answered: no failing store, broken download, dying       *)
(* instance or sweep makes it disappear (server_stream.go:184-196).        *)
(***************************************************************************)
AvailableInTime ==
  \A k \in Keys, r \in Reqs :
    /\ r \in Uploads(k) /\ req[r].resp = "created"
    /\ ~asked[k].oneTime /\ now < req[r].due
    /\ \A q \in Reqs : req[q].key = k => ~req[q].took
    => meta[k] # Gone /\ k \in blob

(***************************************************************************)
(* Nothing is left behind in the file store for ever: whatever fails or    *)
(* dies, a blob beyond its time, or without one, is removed in the end.    *)
(* The code has two exceptions: a .bin that could not be removed when its  *)
(* .meta file was, and an upload to disk that took longer than the file's  *)
(* lifetime, whose .meta file may be gone when the .bin appears.           *)
(***************************************************************************)
Late(k) == fileStore = "disk" /\ \E r \in Uploads(k) : req[r].late

SweptInTheEnd ==
  \A k \in Keys :
    (k \in blob /\ (until[k] = Gone \/ Swept(k)))
      ~> (k \notin blob \/ k \in stuck \/ Late(k))
==============================================================================
