----------------------------- MODULE FilesProofs -----------------------------
(***************************************************************************)
(* A file is sent once, told of truthfully and there until its time, for   *)
(* any number of files and requests, whichever store it is in: the         *)
(* theorems behind TypeOK, SentOnceAndTold and AvailableInTime of Files.   *)
(***************************************************************************)
EXTENDS Files, TLAPS

(***************************************************************************)
(* Where a request stands says what it is and what it has sent.  A one-time*)
(* file is opened by a download that removed its metadata.                 *)
(***************************************************************************)
Local(q) ==
  /\ q.pc = "idle" => q.key = NoKey /\ q.op = "none"
  /\ q.op = "none" => q.key = NoKey /\ ~q.took
  /\ q.op # "none" => q.key \in Keys
  /\ q.pc \in {"receipt", "save", "body", "putMeta", "undo"} => q.op = "upload"
  /\ q.pc \in {"claim", "load", "stale", "stream", "mark"} => q.op = "download"
  /\ q.pc \in {"remove", "drop"} => q.op \in {"download", "delete"}
  /\ q.took => q.op \in {"download", "delete"}
  /\ q.pc \in {"claim", "remove"} => ~q.took
  /\ q.pc = "drop" => q.took
  /\ q.pc # "done" => q.resp = "none"
  /\ q.pc \notin {"mark", "drop", "done"} => q.got = "nothing"
  /\ q.pc = "mark" => q.got = "all"
  /\ q.got # "nothing" => q.op = "download"
  /\ q.got # "nothing" \/ q.pc \in {"load", "stream"}
       => (asked[q.key].oneTime => q.took)

\* A key is uploaded once, and known outside only when that is over.
UploadInv ==
  /\ \A r, q \in Reqs :
       /\ req[r].op = "upload" /\ req[q].op = "upload"
       /\ req[r].key = req[q].key
       => r = q
  /\ \A r \in Reqs : req[r].op \in {"download", "delete"} => Created(req[r].key)

\* Whoever took a one-time file is alone, and its metadata is gone.
TakenInv ==
  \A r \in Reqs :
    req[r].took /\ asked[req[r].key].oneTime =>
      /\ meta[req[r].key] = Gone
      /\ \A q \in Reqs : req[q].took /\ req[q].key = req[r].key => q = r

\* A receipt that reads "viewed" has its download.
ToldInv ==
  \A k \in Keys :
    receipt[k] = "viewed" => \E r \in Reqs : req[r].key = k /\ req[r].got = "all"

FileInv == (\A r \in Reqs : Local(req[r])) /\ UploadInv /\ TakenInv /\ ToldInv

------------------------------------------------------------------------------
\* Nothing was asked for yet.
LEMMA FilesInit == Init => FileInv
  BY FilesAssumption DEF Init, FileInv, Local, UploadInv, TakenInv, ToldInv

\* No request but r changes.
Frame(r) == \A q \in Reqs : q # r => req'[q] = req[q]

\* What every answered request has in common.
LEMMA DoneFields ==
  ASSUME NEW q \in Request, NEW a
  PROVE  /\ Done(q, a).pc = "done" /\ Done(q, a).resp = a
         /\ Done(q, a).op = q.op /\ Done(q, a).key = q.key
         /\ Done(q, a).took = q.took /\ Done(q, a).got = q.got
         /\ Done(q, a).due = q.due
  BY DEF Request, Done

(***************************************************************************)
(* A handler goes on about its key: it may take the file if it is there,   *)
(* store the metadata as its upload, and mark the receipt if it has sent   *)
(* all of it.                                                              *)
(***************************************************************************)
LEMMA HandlerKeeps ==
  ASSUME TypeOK, FileInv, NEW r \in Reqs, Frame(r), UNCHANGED asked,
         req[r].pc # "done", req'[r].op = req[r].op, req'[r].key = req[r].key,
         Local(req[r])',
         req[r].got = "all" => req'[r].got = "all",
         req'[r].took => req[r].took \/ (meta[req[r].key] # Gone /\ meta'[req[r].key] = Gone),
         \A k \in Keys : \/ meta'[k] \in {meta[k], Gone}
                         \/ req[r].pc = "putMeta" /\ k = req[r].key,
         \A k \in Keys : receipt'[k] = "viewed" =>
                           \/ receipt[k] = "viewed"
                           \/ k = req[r].key /\ req'[r].got = "all"
  PROVE  FileInv'
<1>1. \A q \in Reqs : Local(req[q])'
  BY DEF Frame, FileInv, Local
<1>2. \A k : Created(k) => Created(k)'
  BY DEF Created, Uploads, Frame, FileInv, Local
<1>3. UploadInv'
  <2>1. \A q \in Reqs : req'[q].op = req[q].op /\ req'[q].key = req[q].key
    BY DEF Frame
  <2> QED
    BY <1>2, <2>1 DEF FileInv, UploadInv
<1>4. TakenInv'
  <2> SUFFICES ASSUME NEW q \in Reqs, req'[q].took, asked[req[q].key].oneTime
               PROVE  /\ meta'[req[q].key] = Gone
                      /\ \A p \in Reqs : req'[p].took /\ req[p].key = req[q].key => p = q
    <3>1. \A q \in Reqs : req'[q].key = req[q].key
      BY DEF Frame
    <3> QED
      BY <3>1 DEF TakenInv
  <2> DEFINE k == req[q].key
  <2>1. k \in Keys /\ Created(k)
    <3>1. Local(req[q])' /\ req'[q].op = req[q].op /\ req'[q].key = k
      BY <1>1 DEF Frame
    <3> QED
      BY <3>1 DEF Local, FileInv, UploadInv
  <2>2. ~(req[r].pc = "putMeta" /\ k = req[r].key)
    <3> SUFFICES ASSUME req[r].pc = "putMeta", k = req[r].key PROVE FALSE
      OBVIOUS
    <3>1. PICK u \in Reqs : req[u].op = "upload" /\ req[u].key = k /\ req[u].resp = "created"
      BY <2>1 DEF Created, Uploads
    <3>2. req[r].op = "upload" /\ req[r].resp = "none"
      BY DEF FileInv, Local
    <3> QED
      BY <3>1, <3>2 DEF FileInv, UploadInv
  <2>3. meta'[k] \in {meta[k], Gone}
    BY <2>1, <2>2
  <2>4. \A p \in Reqs : req'[p].took /\ req[p].key = k =>
          req[p].took \/ (p = r /\ meta[k] # Gone /\ meta'[k] = Gone)
    BY DEF Frame
  <2>5. \A p \in Reqs : req[p].took /\ req[p].key = k =>
          /\ meta[k] = Gone
          /\ \A x \in Reqs : req[x].took /\ req[x].key = k => x = p
    BY DEF FileInv, TakenInv
  <2> QED
    BY <2>3, <2>4, <2>5
<1>5. ToldInv'
  <2> SUFFICES ASSUME NEW k \in Keys, receipt'[k] = "viewed"
               PROVE  \E q \in Reqs : req'[q].key = k /\ req'[q].got = "all"
    BY DEF ToldInv
  <2>1. CASE receipt[k] = "viewed"
    <3>1. PICK q \in Reqs : req[q].key = k /\ req[q].got = "all"
      BY <2>1 DEF FileInv, ToldInv
    <3>2. req'[q].key = k /\ req'[q].got = "all"
      BY <3>1 DEF Frame
    <3> QED
      BY <3>2
  <2>2. CASE k = req[r].key /\ req'[r].got = "all"
    BY <2>2
  <2> QED
    BY <2>1, <2>2
<1> QED
  BY <1>1, <1>3, <1>4, <1>5 DEF FileInv

\* A handler answers, or dies, with nothing but metadata and blobs gone.
LEMMA AnswerKeeps ==
  ASSUME TypeOK, FileInv, NEW r \in Reqs, Frame(r), UNCHANGED asked,
         InFlight(r), NEW q \in Request, NEW a, req'[r] = Done(q, a),
         q.op = req[r].op, q.key = req[r].key,
         q.got = req[r].got,
         q.took => req[r].took \/ (meta[req[r].key] # Gone /\ meta'[req[r].key] = Gone),
         q.got # "nothing" => (req[r].took => q.took),
         q.took => q.op \in {"download", "delete"},
         \A k \in Keys : meta'[k] \in {meta[k], Gone} \/ (req[r].pc = "putMeta" /\ k = req[r].key),
         \A k \in Keys : receipt'[k] = "viewed" =>
                           receipt[k] = "viewed" \/ (k = req[r].key /\ req[r].got = "all")
  PROVE  FileInv'
<1>1. /\ req'[r].pc = "done" /\ req'[r].op = q.op /\ req'[r].key = q.key
      /\ req'[r].took = q.took /\ req'[r].got = q.got
  BY DoneFields
<1>2. Local(req[r])'
  BY <1>1 DEF FileInv, Local, InFlight
<1> QED
  BY <1>1, <1>2, HandlerKeeps DEF InFlight

------------------------------------------------------------------------------
\* An upload starts with a key that nobody has.
LEMMA UploadStarts ==
  ASSUME TypeOK, FileInv, NEW r \in Reqs, NEW k \in Keys, NEW a \in Asked,
         StartUpload(r, k, a)
  PROVE  FileInv'
<1> DEFINE pc == IF a.receipt THEN "receipt" ELSE "save"
<1>1. /\ req[r] \in Request /\ req[r].pc = "idle" /\ req[r].op = "none"
      /\ ~req[r].took /\ req[r].resp = "none" /\ req[r].got = "nothing"
      /\ req[r].key = NoKey
  BY DEF StartUpload, At, TypeOK, FileInv, Local
<1>2. /\ Frame(r) /\ UNCHANGED <<meta, receipt>>
      /\ req'[r] = [req[r] EXCEPT !.pc = pc, !.op = "upload", !.key = k]
      /\ Uploads(k) = {} /\ \A j \in Keys : j # k => asked'[j] = asked[j]
  BY DEF StartUpload, Frame, TypeOK, database
<1>3. /\ req'[r].pc = pc /\ req'[r].op = "upload" /\ req'[r].key = k
      /\ ~req'[r].took /\ req'[r].resp = "none" /\ req'[r].got = "nothing"
  <2> HIDE DEF pc
  <2> QED
    BY <1>1, <1>2 DEF Request
<1>4. \A q \in Reqs : req[q].op \in {"download", "delete"} => req[q].key # k
  BY <1>2 DEF FileInv, UploadInv, Created
<1>5. \A q \in Reqs : Local(req[q])'
  <2>1. Local(req[r])'
    BY <1>3 DEF Local
  <2>2. ASSUME NEW q \in Reqs, q # r PROVE Local(req[q])'
    <3>1. req'[q] = req[q] /\ Local(req[q])
      BY <1>2, <2>2 DEF Frame, FileInv
    <3>2. req[q].op = "download" => asked'[req[q].key] = asked[req[q].key]
      BY <1>2, <1>4, <3>1 DEF Local
    <3> QED
      BY <3>1, <3>2 DEF Local
  <2> QED
    BY <2>1, <2>2
<1>6. UploadInv'
  <2>1. \A j : Created(j) => Created(j)'
    BY <1>1, <1>2 DEF Created, Uploads, Frame
  <2>2. \A q \in Reqs : req[q].op = "upload" => req[q].key # k
    BY <1>2 DEF Uploads
  <2>3. ASSUME NEW p \in Reqs, NEW q \in Reqs, req'[p].op = "upload",
               req'[q].op = "upload", req'[p].key = req'[q].key
        PROVE  p = q
    <3>1. p # r => req'[p] = req[p]
      BY <1>2 DEF Frame
    <3>2. q # r => req'[q] = req[q]
      BY <1>2 DEF Frame
    <3> QED
      BY <1>3, <2>2, <2>3, <3>1, <3>2 DEF FileInv, UploadInv
  <2>4. \A q \in Reqs : req'[q].op \in {"download", "delete"} => Created(req[q].key)'
    <3> SUFFICES ASSUME NEW q \in Reqs, req'[q].op \in {"download", "delete"}
                 PROVE  Created(req[q].key)'
      OBVIOUS
    <3>1. req'[q] = req[q]
      BY <1>2, <1>3 DEF Frame
    <3> QED
      BY <2>1, <3>1 DEF FileInv, UploadInv
  <2> QED
    BY <2>3, <2>4 DEF UploadInv
<1>7. TakenInv'
  <2> SUFFICES ASSUME NEW q \in Reqs, req'[q].took, asked'[req'[q].key].oneTime
               PROVE  /\ meta[req'[q].key] = Gone
                      /\ \A p \in Reqs : req'[p].took /\ req'[p].key = req'[q].key => p = q
    BY <1>2 DEF TakenInv
  <2>1. q # r /\ req'[q] = req[q]
    BY <1>2, <1>3 DEF Frame
  <2>2. req[q].key \in Keys /\ req[q].key # k
    BY <1>4, <2>1 DEF FileInv, Local
  <2>3. asked[req[q].key].oneTime /\ req[q].took
    BY <1>2, <2>1, <2>2
  <2> QED
    BY <1>2, <1>3, <2>1, <2>3 DEF FileInv, TakenInv, Frame
<1>8. ToldInv'
  <2> SUFFICES ASSUME NEW j \in Keys, receipt[j] = "viewed"
               PROVE  \E q \in Reqs : req'[q].key = j /\ req'[q].got = "all"
    BY <1>2 DEF ToldInv
  <2>1. PICK q \in Reqs : req[q].key = j /\ req[q].got = "all"
    BY DEF FileInv, ToldInv
  <2>2. req'[q] = req[q]
    BY <1>1, <1>2, <2>1 DEF Frame
  <2> QED
    BY <2>1, <2>2
<1> QED
  BY <1>5, <1>6, <1>7, <1>8 DEF FileInv

\* A download or a deletion starts with a key that is known.
LEMMA AccessStarts ==
  ASSUME TypeOK, FileInv, NEW r \in Reqs, NEW k \in Keys,
         NEW op \in {"download", "delete"}, StartAccess(r, op, k)
  PROVE  FileInv'
<1> DEFINE q == [req[r] EXCEPT !.op = op, !.key = k]
           next == IF op = "delete" THEN "remove"
                   ELSE IF asked[k].oneTime THEN "claim" ELSE "load"
<1>1. /\ req[r] \in Request /\ req[r].pc = "idle" /\ req[r].op = "none"
      /\ ~req[r].took /\ req[r].resp = "none" /\ req[r].got = "nothing"
      /\ req[r].key = NoKey
  BY DEF StartAccess, At, TypeOK, FileInv, Local
<1>2. /\ q \in Request /\ q.op = op /\ q.key = k /\ ~q.took /\ q.got = "nothing"
      /\ q.resp = "none"
  BY <1>1 DEF Request
<1> HIDE DEF q
<1>3. /\ Frame(r) /\ UNCHANGED <<asked, meta, receipt>> /\ Created(k)
      /\ \/ \E a : req'[r] = Done(q, a)
         \/ req'[r] = [q EXCEPT !.pc = next]
  <2> HIDE DEF next
  <2>1. PICK call \in ReadCalls :
          req' \in {[req EXCEPT ![r] = Done(q, "404")], [req EXCEPT ![r] = Done(q, "refused")],
                    [req EXCEPT ![r] = [q EXCEPT !.pc = next]]}
    BY DEF StartAccess, q, next
  <2>2. UNCHANGED <<asked, meta, receipt>> /\ Created(k)
    BY DEF StartAccess, database
  <2> QED
    BY <2>1, <2>2 DEF Frame, TypeOK
<1>4. /\ req'[r].op = op /\ req'[r].key = k /\ ~req'[r].took /\ req'[r].got = "nothing"
      /\ \/ req'[r].pc = "done"
         \/ req'[r].pc = next /\ req'[r].resp = "none"
  <2> HIDE DEF next
  <2>1. CASE \E a : req'[r] = Done(q, a)
    BY <1>2, <2>1, DoneFields
  <2>2. CASE req'[r] = [q EXCEPT !.pc = next]
    BY <1>2, <2>2 DEF Request
  <2> QED
    BY <1>3, <2>1, <2>2
<1>5. \A p \in Reqs : Local(req[p])'
  <2>1. Local(req[r])'
    <3>1. CASE req'[r].pc = "done"
      BY <1>4, <3>1 DEF Local
    <3>2. CASE op = "delete" /\ req'[r].pc = "remove" /\ req'[r].resp = "none"
      BY <1>4, <3>2 DEF Local
    <3>3. CASE op = "download" /\ asked[k].oneTime /\ req'[r].pc = "claim" /\ req'[r].resp = "none"
      BY <1>4, <3>3 DEF Local
    <3>4. CASE /\ op = "download" /\ ~asked[k].oneTime /\ req'[r].pc = "load"
               /\ req'[r].resp = "none"
      BY <1>3, <1>4, <3>4 DEF Local
    <3> QED
      BY <1>4, <3>1, <3>2, <3>3, <3>4
  <2> QED
    BY <1>3, <2>1 DEF Frame, FileInv, Local
<1>6. UploadInv'
  <2>1. \A j : Created(j) => Created(j)'
    BY <1>1, <1>3 DEF Created, Uploads, Frame
  <2> QED
    BY <1>3, <1>4, <2>1 DEF Frame, FileInv, UploadInv
<1>7. TakenInv'
  BY <1>3, <1>4 DEF FileInv, TakenInv, Frame
<1>8. ToldInv'
  BY <1>1, <1>3 DEF FileInv, ToldInv, Frame
<1> QED
  BY <1>5, <1>6, <1>7, <1>8 DEF FileInv

------------------------------------------------------------------------------
\* The steps of an upload before its metadata.
LEMMA UploadGoesOn ==
  ASSUME TypeOK, FileInv, NEW r \in Reqs,
         PutReceipt(r) \/ BeginSave(r) \/ BreakBody(r) \/ EndSave(r)
  PROVE  FileInv'
<1>1. /\ req[r] \in Request /\ InFlight(r) /\ req[r].op = "upload"
      /\ req[r].pc \in {"receipt", "save", "body"}
  BY DEF PutReceipt, BeginSave, BreakBody, EndSave, At, InFlight, TypeOK, FileInv, Local
<1>2. Frame(r) /\ UNCHANGED <<asked, meta>>
  BY DEF PutReceipt, BeginSave, BreakBody, EndSave, Goto, Answer, Frame, TypeOK, database
<1>3. \A k \in Keys : receipt'[k] = "viewed" => receipt[k] = "viewed"
  BY DEF PutReceipt, BeginSave, BreakBody, EndSave, TypeOK, database
<1>4. \/ \E a : req'[r] = Done(req[r], a)
      \/ req'[r] = [req[r] EXCEPT !.pc = "save"]
      \/ req'[r] = [req[r] EXCEPT !.pc = "body", !.due = now + Lifetime]
      \/ req'[r] = [req[r] EXCEPT !.pc = "putMeta", !.late = now > req[r].due]
  <2>1. CASE PutReceipt(r)
    BY <2>1 DEF PutReceipt, Goto, Answer, TypeOK
  <2>2. CASE BeginSave(r)
    BY <2>2 DEF BeginSave, Answer, TypeOK
  <2>3. CASE BreakBody(r)
    BY <2>3 DEF BreakBody, Answer, TypeOK
  <2>4. CASE EndSave(r)
    BY <2>4 DEF EndSave, TypeOK
  <2> QED
    BY <2>1, <2>2, <2>3, <2>4
<1>5. CASE \E a : req'[r] = Done(req[r], a)
  <2>1. req[r].took => req[r].op \in {"download", "delete"}
    BY DEF FileInv, Local
  <2> QED
    BY <1>1, <1>2, <1>3, <1>5, <2>1, AnswerKeeps
<1>6. CASE \/ req'[r] = [req[r] EXCEPT !.pc = "save"]
           \/ req'[r] = [req[r] EXCEPT !.pc = "body", !.due = now + Lifetime]
           \/ req'[r] = [req[r] EXCEPT !.pc = "putMeta", !.late = now > req[r].due]
  <2>1. /\ req'[r].pc \in {"save", "body", "putMeta"} /\ req'[r].op = req[r].op
        /\ req'[r].key = req[r].key /\ req'[r].took = req[r].took
        /\ req'[r].got = req[r].got /\ req'[r].resp = req[r].resp
    BY <1>1, <1>6 DEF Request
  <2>2. Local(req[r])'
    BY <1>1, <2>1 DEF FileInv, Local
  <2> QED
    BY <1>1, <1>2, <1>3, <2>1, <2>2, HandlerKeeps
<1> QED
  BY <1>4, <1>5, <1>6

\* The metadata is stored, if it is, by the one upload of its key.
LEMMA PutMetaKeeps ==
  ASSUME TypeOK, FileInv, NEW r \in Reqs, PutMeta(r)
  PROVE  FileInv'
<1>1. /\ req[r] \in Request /\ InFlight(r) /\ req[r].op = "upload" /\ ~req[r].took
      /\ req[r].pc = "putMeta" /\ req[r].got = "nothing"
  BY DEF PutMeta, At, InFlight, TypeOK, FileInv, Local
<1>2. Frame(r) /\ UNCHANGED <<asked, receipt>>
  BY DEF PutMeta, Goto, Answer, Frame, TypeOK
<1>3. \A k \in Keys : meta'[k] = meta[k] \/ k = req[r].key
  BY DEF PutMeta, TypeOK
<1>4. \/ req'[r] = Done(req[r], "created")
      \/ req'[r] = [req[r] EXCEPT !.pc = "undo"]
  BY DEF PutMeta, Goto, Answer, TypeOK
<1>5. CASE req'[r] = Done(req[r], "created")
  BY <1>1, <1>2, <1>3, <1>5, AnswerKeeps
<1>6. CASE req'[r] = [req[r] EXCEPT !.pc = "undo"]
  <2>1. /\ req'[r].pc = "undo" /\ req'[r].op = req[r].op
        /\ req'[r].key = req[r].key /\ req'[r].took = req[r].took
        /\ req'[r].got = req[r].got /\ req'[r].resp = req[r].resp
    BY <1>1, <1>6 DEF Request
  <2>2. Local(req[r])'
    BY <1>1, <2>1 DEF FileInv, Local
  <2> QED
    BY <1>1, <1>2, <1>3, <2>1, <2>2, HandlerKeeps
<1> QED
  BY <1>4, <1>5, <1>6

\* A handler that ends by removing a blob or stale metadata, or dies.
LEMMA EndKeeps ==
  ASSUME TypeOK, FileInv, NEW r \in Reqs,
         Undo(r) \/ Drop(r) \/ DropStale(r) \/ (Crash /\ InFlight(r) /\ Answer(r, "crashed"))
  PROVE  FileInv'
<1>1. req[r] \in Request /\ InFlight(r) /\ (req[r].took => req[r].op \in {"download", "delete"})
  BY DEF Undo, Drop, DropStale, At, InFlight, TypeOK, FileInv, Local
<1>2. \E a : Frame(r) /\ req'[r] = Done(req[r], a)
  BY DEF Undo, Drop, DeleteBlob, DropStale, Answer, Frame, TypeOK
<1>3. UNCHANGED <<asked, receipt>> /\ \A k \in Keys : meta'[k] \in {meta[k], Gone}
  BY DEF Undo, Drop, DeleteBlob, DropStale, Crash, database, TypeOK
<1> QED
  BY <1>1, <1>2, <1>3, AnswerKeeps

\* Whoever finds the metadata and removes it has taken the file.
LEMMA DeleteMetaKeeps ==
  ASSUME TypeOK, FileInv, NEW r \in Reqs, Claim(r) \/ Remove(r)
  PROVE  FileInv'
<1> DEFINE k == req[r].key
<1>0. /\ req[r] \in Request /\ InFlight(r) /\ k \in Keys
      /\ req[r].op \in {"download", "delete"} /\ req[r].got = "nothing"
      /\ req[r].resp = "none" /\ req[r].pc \in {"claim", "remove"}
  BY DEF Claim, Remove, At, InFlight, TypeOK, FileInv, Local
<1>1. PICK next \in {"load", "drop"} :
        /\ DeleteMeta(r, next)
        /\ next = "load" => req[r].op = "download"
  BY DEF Claim, Remove, At, FileInv, Local
<1> DEFINE q(took) == [req[r] EXCEPT !.took = took]
<1>2. PICK took \in BOOLEAN :
        /\ Frame(r) /\ UNCHANGED <<asked, receipt>>
        /\ \A j \in Keys : meta'[j] \in {meta[j], Gone}
        /\ took => meta[k] # Gone /\ meta'[k] = Gone
        /\ \/ \E a : req'[r] = Done(q(took), a)
           \/ took /\ req'[r] = [q(took) EXCEPT !.pc = next]
  <2>1. PICK call \in DeleteCalls :
          LET took == Applied(call) /\ meta[k] # Gone IN
          /\ meta' = IF Applied(call) THEN [meta EXCEPT ![k] = Gone] ELSE meta
          /\ req' = [req EXCEPT ![r] =
                       IF Errs(call) THEN Done(q(took), "500")
                       ELSE IF call = "repeated" \/ ~q(took).took THEN Done(q(took), "404")
                       ELSE [q(took) EXCEPT !.pc = next]]
          /\ UNCHANGED <<asked, receipt>>
    BY <1>1 DEF DeleteMeta
  <2> DEFINE took == Applied(call) /\ meta[k] # Gone
  <2>2. took \in BOOLEAN /\ q(took).took = took
    BY <1>0 DEF Request
  <2> HIDE DEF q
  <2>3. /\ Frame(r) /\ UNCHANGED <<asked, receipt>>
        /\ \A j \in Keys : meta'[j] \in {meta[j], Gone}
        /\ took => meta[k] # Gone /\ meta'[k] = Gone
    BY <1>0, <2>1 DEF Frame, TypeOK
  <2>4. \/ \E a : req'[r] = Done(q(took), a)
        \/ took /\ req'[r] = [q(took) EXCEPT !.pc = next]
    BY <2>1, <2>2 DEF TypeOK
  <2> QED
    BY <2>2, <2>3, <2>4
<1>3. /\ q(took) \in Request /\ q(took).op = req[r].op /\ q(took).key = k
      /\ q(took).got = "nothing" /\ q(took).took = took /\ q(took).resp = "none"
  BY <1>0 DEF Request
<1> HIDE DEF q
<1>5. CASE \E a : req'[r] = Done(q(took), a)
  BY <1>0, <1>3, <1>2, <1>5, AnswerKeeps
<1>6. CASE took /\ req'[r] = [q(took) EXCEPT !.pc = next]
  <2>1. /\ req'[r].pc = next /\ req'[r].op = req[r].op /\ req'[r].key = k
        /\ req'[r].took /\ req'[r].got = "nothing" /\ req'[r].resp = "none"
    BY <1>3, <1>6 DEF Request
  <2>2. Local(req[r])'
    BY <1>0, <1>1, <2>1 DEF Local
  <2> QED
    BY <1>0, <1>2, <1>6, <2>1, <2>2, HandlerKeeps
<1> QED
  BY <1>2, <1>5, <1>6

\* A download goes on to open the blob, to send it and to mark the receipt.
LEMMA DownloadGoesOn ==
  ASSUME TypeOK, FileInv, NEW r \in Reqs, Load(r) \/ Stream(r) \/ Mark(r)
  PROVE  FileInv'
<1>1. /\ req[r] \in Request /\ InFlight(r) /\ req[r].op = "download"
      /\ req[r].resp = "none" /\ Local(req[r]) /\ req[r].key \in Keys
  BY DEF Load, Stream, Mark, At, InFlight, TypeOK, FileInv, Local
<1>2. Frame(r) /\ UNCHANGED <<asked, meta>>
  BY DEF Load, NotLoaded, Stream, Mark, Goto, Answer, Frame, TypeOK, database
<1>3. CASE Load(r)
  <2>1. UNCHANGED receipt /\ req[r].pc = "load"
    BY <1>3 DEF Load, At, database
  <2>2. \/ \E a : req'[r] = Done(req[r], a)
        \/ \E pc \in {"stream", "stale"} : req'[r] = [req[r] EXCEPT !.pc = pc]
    BY <1>3 DEF Load, NotLoaded, Goto, Answer, TypeOK
  <2>3. CASE \E a : req'[r] = Done(req[r], a)
    BY <1>1, <1>2, <2>1, <2>3, AnswerKeeps
  <2>4. CASE \E pc \in {"stream", "stale"} : req'[r] = [req[r] EXCEPT !.pc = pc]
    <3>1. /\ req'[r].pc \in {"stream", "stale"} /\ req'[r].op = req[r].op
          /\ req'[r].key = req[r].key /\ req'[r].took = req[r].took
          /\ req'[r].got = req[r].got /\ req'[r].resp = req[r].resp
      BY <1>1, <2>4 DEF Request
    <3>2. Local(req[r])'
      BY <1>1, <1>2, <2>1, <3>1 DEF Local
    <3> QED
      BY <1>1, <1>2, <2>1, <3>1, <3>2, HandlerKeeps DEF InFlight
  <2> QED
    BY <2>2, <2>3, <2>4
<1>4. CASE Stream(r)
  <2> DEFINE q == [req[r] EXCEPT !.got = "part"]
  <2>1. UNCHANGED receipt /\ req[r].pc = "stream"
    BY <1>4 DEF Stream, At, database
  <2>2. \/ req'[r] = [req[r] EXCEPT !.got = "all", !.pc = "mark"]
        \/ req'[r] = Done(q, "content")
    BY <1>4 DEF Stream, TypeOK
  <2>3. /\ req'[r].op = req[r].op /\ req'[r].key = req[r].key
        /\ req'[r].took = req[r].took
        /\ \/ req'[r].pc = "mark" /\ req'[r].got = "all" /\ req'[r].resp = "none"
           \/ req'[r].pc = "done"
    <3>1. q \in Request /\ q.op = req[r].op /\ q.key = req[r].key /\ q.took = req[r].took
      BY <1>1 DEF Request
    <3> HIDE DEF q
    <3>2. CASE req'[r] = [req[r] EXCEPT !.got = "all", !.pc = "mark"]
      BY <1>1, <3>2 DEF Request
    <3>3. CASE req'[r] = Done(q, "content")
      BY <3>1, <3>3, DoneFields
    <3> QED
      BY <2>2, <3>2, <3>3
  <2>4. Local(req[r])'
    BY <1>1, <1>2, <2>1, <2>3 DEF Local
  <2>5. req[r].got = "nothing"
    BY <1>1, <2>1 DEF Local
  <2> QED
    BY <1>1, <1>2, <2>1, <2>3, <2>4, <2>5, HandlerKeeps
<1>5. CASE Mark(r)
  <2>1. req[r].pc = "mark" /\ req[r].got = "all"
    BY <1>1, <1>5 DEF Mark, At, Local
  <2>2. \A k \in Keys : receipt'[k] = "viewed" => receipt[k] = "viewed" \/ k = req[r].key
    BY <1>5 DEF Mark, TypeOK
  <2>3. \/ req'[r] = Done(req[r], "content")
        \/ asked[req[r].key].oneTime /\ req'[r] = [req[r] EXCEPT !.pc = "drop"]
    BY <1>5 DEF Mark, Goto, Answer, TypeOK
  <2>4. CASE req'[r] = Done(req[r], "content")
    BY <1>1, <1>2, <2>1, <2>2, <2>4, AnswerKeeps
  <2>5. CASE asked[req[r].key].oneTime /\ req'[r] = [req[r] EXCEPT !.pc = "drop"]
    <3>1. /\ req'[r].pc = "drop" /\ req'[r].op = req[r].op
          /\ req'[r].key = req[r].key /\ req'[r].took = req[r].took
          /\ req'[r].got = req[r].got /\ req'[r].resp = req[r].resp
      BY <1>1, <2>5 DEF Request
    <3>2. Local(req[r])'
      BY <1>1, <1>2, <2>1, <2>5, <3>1 DEF Local
    <3> QED
      BY <1>1, <1>2, <2>1, <2>2, <3>1, <3>2, HandlerKeeps
  <2> QED
    BY <2>3, <2>4, <2>5
<1> QED
  BY <1>3, <1>4, <1>5

\* Sweeps and time only make metadata and blobs disappear.
LEMMA AroundKeeps ==
  ASSUME TypeOK, FileInv,
         Sweep \/ Tick \/ (Crash /\ UNCHANGED req) \/ UNCHANGED vars
  PROVE  FileInv'
<1>1. UNCHANGED <<asked, receipt, req>>
  BY DEF Sweep, SweepMeta, SweepBin, SweepObject, Tick, Crash, vars, database
<1>2. \A k \in Keys : meta'[k] \in {meta[k], Gone}
  <2>1. CASE Tick
    BY <2>1 DEF Tick, TypeOK
  <2>2. CASE ~Tick
    BY <2>2 DEF Sweep, SweepMeta, SweepBin, SweepObject, Crash, vars, database
  <2> QED
    BY <2>1, <2>2
<1>3. \A r \in Reqs : Local(req[r])'
  BY <1>1 DEF FileInv, Local
<1>4. UploadInv' /\ ToldInv'
  BY <1>1 DEF FileInv, UploadInv, ToldInv, Created, Uploads
<1>5. TakenInv'
  <2>1. \A r \in Reqs : req[r].took => req[r].key \in Keys
    BY DEF FileInv, Local
  <2> QED
    BY <1>1, <1>2, <2>1 DEF FileInv, TakenInv
<1> QED
  BY <1>3, <1>4, <1>5 DEF FileInv

\* Every step keeps what FileInv says.
LEMMA FileStep == TypeOK /\ FileInv /\ [Next]_vars => FileInv'
<1> SUFFICES ASSUME TypeOK, FileInv, [Next]_vars PROVE FileInv'
  OBVIOUS
<1>1. ASSUME NEW r \in Reqs, Arrive(r) PROVE FileInv'
  BY <1>1, UploadStarts, AccessStarts DEF Arrive
<1>2. ASSUME NEW r \in Reqs, Handle(r) PROVE FileInv'
  BY <1>2, UploadGoesOn, PutMetaKeeps, EndKeeps, DeleteMetaKeeps, DownloadGoesOn DEF Handle
<1>3. CASE Crash
  <2>1. \/ \E r \in Reqs : InFlight(r) /\ Answer(r, "crashed")
        \/ UNCHANGED req
    BY <1>3 DEF Crash
  <2> QED
    BY <1>3, <2>1, EndKeeps, AroundKeeps
<1>4. CASE Sweep \/ Tick \/ UNCHANGED vars
  BY <1>4, AroundKeeps
<1> QED
  BY <1>1, <1>2, <1>3, <1>4 DEF Next, Quiet

------------------------------------------------------------------------------
(***************************************************************************)
(* Types.                                                                  *)
(***************************************************************************)
Answers == {"none", "refused", "created", "content", "gone204", "404", "500",
            "503", "crashed"}

Times == 0..(MaxNow + Lifetime)

\* The types of what is stored, apart from those of the requests.
StateOK ==
  /\ fileStore \in Stores
  /\ now \in 1..MaxNow /\ faults \in Nat
  /\ asked \in [Keys -> Asked]
  /\ meta \in [Keys -> Times]
  /\ receipt \in [Keys -> {"none", "pending", "viewed"}]
  /\ blob \subseteq Keys
  /\ until \in [Keys -> Times]
  /\ sweep \in Keys \union {NoKey}
  /\ stuck \subseteq Keys

Typed == /\ StateOK
         /\ req \in [Reqs -> Request]
         /\ \A r \in Reqs : req[r].due \in Times

\* This is the type invariant, and more.
LEMMA TypedIsOK == Typed => TypeOK
<1>1. now \in 1..MaxNow => now \in Nat
  BY FilesAssumption
<1> QED
  BY <1>1 DEF Typed, TypeOK, StateOK, Times

\* Nothing is stored, and no request has a time, at first.
LEMMA TypedInit == Init => Typed
<1> SUFFICES ASSUME Init PROVE Typed
  OBVIOUS
<1>1. StateOK
  BY FilesAssumption DEF Init, StateOK, Times, Asked, Unasked, Gone
<1>2. req \in [Reqs -> Request] /\ \A r \in Reqs : req[r].due \in Times
  BY FilesAssumption DEF Init, Request, Times
<1> QED
  BY <1>1, <1>2 DEF Typed

\* r moves to a well-typed state of its own.
LEMMA MoveTyped ==
  ASSUME Typed, StateOK', NEW r \in Reqs, NEW q \in Request, q.due \in Times,
         req' = [req EXCEPT ![r] = q]
  PROVE  Typed'
<1>1. req' \in [Reqs -> Request] /\ \A p \in Reqs : req'[p].due \in Times
  BY DEF Typed
<1> QED
  BY <1>1 DEF Typed

\* r is answered.
LEMMA DoneTyped ==
  ASSUME Typed, StateOK', NEW r \in Reqs, NEW q \in Request, q.due \in Times,
         NEW a \in Answers, req' = [req EXCEPT ![r] = Done(q, a)]
  PROVE  Typed'
<1>1. Done(q, a) \in Request
  BY DEF Request, Done, Answers
<1>2. Done(q, a).due \in Times
  BY DoneFields
<1> QED
  BY <1>1, <1>2, MoveTyped

\* A lifetime from now is a time.
LEMMA DueTyped ==
  ASSUME StateOK
  PROVE  now + Lifetime \in Times /\ DiesAt(Lifetime, now) \in Times /\ Gone \in Times
  BY FilesAssumption DEF StateOK, Times, DiesAt, Gone

\* One more call, and perhaps one more fault.
LEMMA SpendTyped ==
  ASSUME StateOK, NEW call, Spend(call)
  PROVE  faults' \in Nat
  BY DEF StateOK, Spend, Faults

\* What a client sends is well typed.
LEMMA ArriveTyped ==
  ASSUME Typed, NEW r \in Reqs, Arrive(r)
  PROVE  Typed'
<1>0. StateOK /\ req[r] \in Request /\ req[r].due \in Times /\ req \in [Reqs -> Request]
  BY DEF Typed
<1>1. ASSUME NEW k \in Keys, NEW a \in Asked, StartUpload(r, k, a) PROVE Typed'
  <2> DEFINE pc == IF a.receipt THEN "receipt" ELSE "save"
             q == [req[r] EXCEPT !.pc = pc, !.op = "upload", !.key = k]
  <2>1. req' = [req EXCEPT ![r] = q] /\ StateOK'
    BY <1>0, <1>1 DEF StartUpload, StateOK, database, files
  <2>2. q \in Request /\ q.due \in Times
    <3>1. pc \in {"receipt", "save"}
      OBVIOUS
    <3> HIDE DEF pc
    <3> QED
      BY <1>0, <3>1 DEF Request
  <2> HIDE DEF q
  <2> QED
    BY <2>1, <2>2, MoveTyped
<1>2. ASSUME NEW k \in Keys, NEW op \in {"download", "delete"}, StartAccess(r, op, k)
      PROVE  Typed'
  <2> DEFINE q == [req[r] EXCEPT !.op = op, !.key = k]
  <2>1. q \in Request /\ q.due \in Times
    BY <1>0 DEF Request
  <2>2. StateOK'
    <3>1. faults' \in Nat
      BY <1>0, <1>2, SpendTyped DEF StartAccess
    <3> QED
      BY <1>0, <1>2, <3>1 DEF StartAccess, StateOK, database, files
  <2>3. PICK next \in {"remove", "claim", "load"} :
          req' \in {[req EXCEPT ![r] = Done(q, "404")], [req EXCEPT ![r] = Done(q, "refused")],
                    [req EXCEPT ![r] = [q EXCEPT !.pc = next]]}
    BY <1>2 DEF StartAccess
  <2>4. [q EXCEPT !.pc = next] \in Request /\ [q EXCEPT !.pc = next].due \in Times
    <3> HIDE DEF q
    <3> QED
      BY <2>1 DEF Request
  <2> HIDE DEF q
  <2>5. CASE req' = [req EXCEPT ![r] = [q EXCEPT !.pc = next]]
    BY <2>2, <2>4, <2>5, MoveTyped
  <2>6. CASE req' = [req EXCEPT ![r] = Done(q, "404")]
    BY <2>1, <2>2, <2>6, DoneTyped DEF Answers
  <2>7. CASE req' = [req EXCEPT ![r] = Done(q, "refused")]
    BY <2>1, <2>2, <2>7, DoneTyped DEF Answers
  <2> QED
    BY <2>3, <2>5, <2>6, <2>7
<1> QED
  BY <1>1, <1>2 DEF Arrive

\* A handler moves to pc.
LEMMA GotoTyped ==
  ASSUME Typed, StateOK', NEW r \in Reqs,
         NEW pc \in {"save", "body", "putMeta", "undo", "load", "stale", "stream",
                     "mark", "drop"},
         Goto(r, pc)
  PROVE  Typed'
<1>1. [req[r] EXCEPT !.pc = pc] \in Request /\ [req[r] EXCEPT !.pc = pc].due \in Times
  BY DEF Typed, Request
<1>2. req' = [req EXCEPT ![r] = [req[r] EXCEPT !.pc = pc]]
  BY DEF Typed, Goto
<1> QED
  BY <1>1, <1>2, MoveTyped

\* A handler answers.
LEMMA AnswerTyped ==
  ASSUME Typed, StateOK', NEW r \in Reqs, NEW a \in Answers, Answer(r, a)
  PROVE  Typed'
<1>1. req[r] \in Request /\ req[r].due \in Times
  BY DEF Typed
<1>2. req' = [req EXCEPT ![r] = Done(req[r], a)]
  BY DEF Answer, Typed
<1> QED
  BY <1>1, <1>2, DoneTyped

\* The steps of an upload.
LEMMA UploadTyped ==
  ASSUME Typed, FileInv, NEW r \in Reqs,
         PutReceipt(r) \/ BeginSave(r) \/ BreakBody(r) \/ EndSave(r) \/ PutMeta(r)
  PROVE  Typed'
<1>0. StateOK /\ req[r] \in Request /\ req[r].due \in Times /\ req \in [Reqs -> Request]
  BY DEF Typed
<1>1. CASE PutReceipt(r)
  <2>1. StateOK'
    <3>1. faults' \in Nat
      BY <1>0, <1>1, SpendTyped DEF PutReceipt
    <3> QED
      BY <1>0, <1>1, <3>1 DEF PutReceipt, StateOK, files
  <2>2. Answer(r, "500") \/ Goto(r, "save")
    BY <1>1 DEF PutReceipt
  <2> QED
    BY <2>1, <2>2, AnswerTyped, GotoTyped DEF Answers
<1>2. CASE BeginSave(r)
  <2>1. StateOK'
    <3>1. faults' \in Nat
      BY <1>0, <1>2, SpendTyped DEF BeginSave
    <3>2. until' \in [Keys -> Times]
      <4>1. \/ until' = until
            \/ until' = [until EXCEPT ![req[r].key] = now + Lifetime]
        BY <1>2 DEF BeginSave
      <4> QED
        BY <1>0, <4>1, DueTyped DEF StateOK
    <3> QED
      BY <1>0, <1>2, <3>1, <3>2 DEF BeginSave, StateOK, database
  <2>2. CASE Answer(r, "500")
    BY <2>1, <2>2, AnswerTyped DEF Answers
  <2>3. CASE req' = [req EXCEPT ![r].pc = "body", ![r].due = now + Lifetime]
    <3>1. PICK due \in Times : due = now + Lifetime
      BY <1>0, DueTyped
    <3> DEFINE q == [req[r] EXCEPT !.pc = "body", !.due = due]
    <3>2. q \in Request /\ q.due \in Times
      <4>1. due \in Nat
        BY FilesAssumption DEF Times
      <4> QED
        BY <1>0, <4>1 DEF Request
    <3>3. req' = [req EXCEPT ![r] = q]
      BY <1>0, <2>3, <3>1
    <3> HIDE DEF q
    <3> QED
      BY <2>1, <3>2, <3>3, MoveTyped
  <2> QED
    BY <1>2, <2>2, <2>3 DEF BeginSave
<1>3. CASE BreakBody(r)
  <2>1. StateOK'
    BY <1>0, <1>3, DueTyped DEF BreakBody, Unsaved, StateOK, database
  <2> QED
    BY <1>3, <2>1, AnswerTyped DEF BreakBody, Answers
<1>4. CASE EndSave(r)
  <2>1. StateOK'
    <3>1. faults' \in Nat
      BY <1>0, <1>4, SpendTyped DEF EndSave
    <3>2. req[r].key \in Keys
      BY <1>4 DEF EndSave, At, FileInv, Local
    <3>3. SavedUntil(req[r]) \in Times /\ Unsaved(req[r].key) \in [Keys -> Times]
      <4>1. fileStore \in {"disk", "s3", "database"}
        BY <1>0, FilesAssumption DEF StateOK
      <4> QED
        BY <1>0, <3>2, <4>1, DueTyped DEF SavedUntil, Unsaved, StateOK
    <3>4. until' \in [Keys -> Times] /\ blob' \subseteq Keys
      BY <1>0, <1>4, <3>2, <3>3 DEF EndSave, StateOK
    <3> QED
      BY <1>0, <1>4, <3>1, <3>4 DEF EndSave, StateOK, database
  <2>2. CASE Answer(r, "500")
    BY <2>1, <2>2, AnswerTyped DEF Answers
  <2>3. CASE req' = [req EXCEPT ![r] = [req[r] EXCEPT !.pc = "putMeta", !.late = now > req[r].due]]
    <3>1. PICK late \in BOOLEAN : late = (now > req[r].due)
      <4>1. now \in Nat /\ req[r].due \in Nat
        BY <1>0, FilesAssumption DEF StateOK, Times
      <4>2. (now > req[r].due) \in BOOLEAN
        BY <4>1
      <4> QED
        BY <4>2, Zenon
    <3> DEFINE q == [req[r] EXCEPT !.pc = "putMeta", !.late = late]
    <3>2. q \in Request /\ q.due \in Times
      BY <1>0 DEF Request
    <3>3. req' = [req EXCEPT ![r] = q]
      BY <2>3, <3>1
    <3> HIDE DEF q
    <3> QED
      BY <2>1, <3>2, <3>3, MoveTyped
  <2> QED
    BY <1>0, <1>4, <2>2, <2>3 DEF EndSave, Answer
<1>5. CASE PutMeta(r)
  <2>1. StateOK'
    <3>1. faults' \in Nat
      BY <1>0, <1>5, SpendTyped DEF PutMeta
    <3>2. meta' \in [Keys -> Times]
      BY <1>0, <1>5, DueTyped DEF PutMeta, StateOK
    <3> QED
      BY <1>0, <1>5, <3>1, <3>2 DEF PutMeta, StateOK, files
  <2>2. Goto(r, "undo") \/ Answer(r, "created")
    BY <1>5 DEF PutMeta
  <2> QED
    BY <2>1, <2>2, AnswerTyped, GotoTyped DEF Answers
<1> QED
  BY <1>1, <1>2, <1>3, <1>4, <1>5

\* The steps of a download and of a deletion.
LEMMA AccessTyped ==
  ASSUME Typed, FileInv, NEW r \in Reqs,
         Undo(r) \/ Drop(r) \/ Claim(r) \/ Remove(r) \/ Load(r) \/ DropStale(r)
         \/ Stream(r) \/ Mark(r)
  PROVE  Typed'
<1>0. StateOK /\ req[r] \in Request /\ req[r].due \in Times /\ req \in [Reqs -> Request]
  BY DEF Typed
<1>1. CASE Undo(r) \/ Drop(r)
  <2>1. req[r].key \in Keys
    BY <1>1 DEF Undo, Drop, At, FileInv, Local
  <2>2. PICK ok \in Answers, failed \in Answers : DeleteBlob(r, ok, failed)
    BY <1>1 DEF Undo, Drop, Answers
  <2>3. StateOK'
    <3>1. faults' \in Nat
      BY <1>0, <2>2, SpendTyped DEF DeleteBlob
    <3>2. until' \in [Keys -> Times] /\ blob' \subseteq Keys /\ stuck' \subseteq Keys
      BY <1>0, <2>1, <2>2, DueTyped DEF DeleteBlob, StateOK
    <3> QED
      BY <1>0, <2>2, <3>1, <3>2 DEF DeleteBlob, StateOK, database
  <2>4. Answer(r, ok) \/ Answer(r, failed)
    BY <2>2 DEF DeleteBlob
  <2> QED
    BY <2>3, <2>4, AnswerTyped
<1>2. CASE Claim(r) \/ Remove(r)
  <2>1. PICK next \in {"load", "drop"} : DeleteMeta(r, next)
    BY <1>2 DEF Claim, Remove
  <2>2. StateOK'
    <3>1. faults' \in Nat
      BY <1>0, <2>1, SpendTyped DEF DeleteMeta
    <3>2. meta' \in [Keys -> Times]
      BY <1>0, <2>1, DueTyped DEF DeleteMeta, StateOK
    <3> QED
      BY <1>0, <2>1, <3>1, <3>2 DEF DeleteMeta, StateOK, files
  <2> DEFINE q(took) == [req[r] EXCEPT !.took = took]
  <2>3. \E took \in BOOLEAN :
          \/ \E a \in {"500", "404"} : req' = [req EXCEPT ![r] = Done(q(took), a)]
          \/ req' = [req EXCEPT ![r] = [q(took) EXCEPT !.pc = next]]
    <3>1. PICK call \in DeleteCalls :
            LET took == Applied(call) /\ meta[req[r].key] # Gone IN
            req' = [req EXCEPT ![r] =
                      IF Errs(call) THEN Done(q(took), "500")
                      ELSE IF call = "repeated" \/ ~q(took).took THEN Done(q(took), "404")
                      ELSE [q(took) EXCEPT !.pc = next]]
      BY <2>1 DEF DeleteMeta
    <3> DEFINE took == Applied(call) /\ meta[req[r].key] # Gone
    <3>2. took \in BOOLEAN
      OBVIOUS
    <3> HIDE DEF q
    <3> QED
      BY <3>1, <3>2
  <2>4. PICK took \in BOOLEAN :
          \/ \E a \in {"500", "404"} : req' = [req EXCEPT ![r] = Done(q(took), a)]
          \/ req' = [req EXCEPT ![r] = [q(took) EXCEPT !.pc = next]]
    BY <2>3
  <2>5. q(took) \in Request /\ q(took).due \in Times
    BY <1>0 DEF Request
  <2> HIDE DEF q
  <2>6. [q(took) EXCEPT !.pc = next] \in Request /\ [q(took) EXCEPT !.pc = next].due \in Times
    BY <2>5 DEF Request
  <2>7. CASE \E a \in {"500", "404"} : req' = [req EXCEPT ![r] = Done(q(took), a)]
    BY <2>2, <2>5, <2>7, DoneTyped DEF Answers
  <2>8. CASE req' = [req EXCEPT ![r] = [q(took) EXCEPT !.pc = next]]
    BY <2>2, <2>6, <2>8, MoveTyped
  <2> QED
    BY <2>4, <2>7, <2>8
<1>3. CASE Load(r)
  <2>1. StateOK'
    <3>1. faults' \in Nat
      BY <1>0, <1>3, SpendTyped DEF Load
    <3> QED
      BY <1>0, <1>3, <3>1 DEF Load, StateOK, database, files
  <2>2. \/ Goto(r, "stream") \/ Goto(r, "stale")
        \/ Answer(r, "503") \/ Answer(r, "404")
    BY <1>3 DEF Load, NotLoaded
  <2> QED
    BY <2>1, <2>2, AnswerTyped, GotoTyped DEF Answers
<1>4. CASE DropStale(r)
  <2>1. StateOK'
    <3>1. faults' \in Nat
      BY <1>0, <1>4, SpendTyped DEF DropStale
    <3>2. meta' \in [Keys -> Times]
      BY <1>0, <1>4, DueTyped DEF DropStale, StateOK
    <3> QED
      BY <1>0, <1>4, <3>1, <3>2 DEF DropStale, StateOK, files
  <2> QED
    BY <1>4, <2>1, AnswerTyped DEF DropStale, Answers
<1>5. CASE Stream(r)
  <2>1. StateOK'
    BY <1>0, <1>5 DEF Stream, StateOK, database, files
  <2>2. CASE req' = [req EXCEPT ![r].got = "all", ![r].pc = "mark"]
    <3> DEFINE q == [req[r] EXCEPT !.got = "all", !.pc = "mark"]
    <3>1. q \in Request /\ q.due \in Times
      BY <1>0 DEF Request
    <3>2. req' = [req EXCEPT ![r] = q]
      BY <1>0, <2>2
    <3> HIDE DEF q
    <3> QED
      BY <2>1, <3>1, <3>2, MoveTyped
  <2>3. CASE req' = [req EXCEPT ![r] = Done([req[r] EXCEPT !.got = "part"], "content")]
    <3> DEFINE q == [req[r] EXCEPT !.got = "part"]
    <3>1. q \in Request /\ q.due \in Times
      BY <1>0 DEF Request
    <3> HIDE DEF q
    <3>2. req' = [req EXCEPT ![r] = Done(q, "content")]
      BY <2>3 DEF q
    <3> QED
      BY <2>1, <3>1, <3>2, DoneTyped DEF Answers
  <2> QED
    BY <1>0, <1>5, <2>2, <2>3 DEF Stream
<1>6. CASE Mark(r)
  <2>1. StateOK'
    <3>1. faults' \in Nat
      BY <1>0, <1>6, SpendTyped DEF Mark
    <3> QED
      BY <1>0, <1>6, <3>1 DEF Mark, StateOK, files
  <2>2. Goto(r, "drop") \/ Answer(r, "content")
    BY <1>6 DEF Mark
  <2> QED
    BY <2>1, <2>2, AnswerTyped, GotoTyped DEF Answers
<1> QED
  BY <1>1, <1>2, <1>3, <1>4, <1>5, <1>6

\* Sweeps, time and crashes.
LEMMA AroundTyped ==
  ASSUME Typed, Sweep \/ Tick \/ Crash \/ UNCHANGED vars
  PROVE  Typed'
<1>0. StateOK
  BY DEF Typed
<1>1. CASE Sweep
  <2>1. UNCHANGED req
    BY <1>1 DEF Sweep, SweepMeta, SweepBin, SweepObject
  <2>2. StateOK'
    <3>1. CASE SweepMeta
      BY <1>0, <3>1, DueTyped DEF SweepMeta, StateOK, database
    <3>2. ASSUME NEW k \in Keys, SweepBin(k) PROVE StateOK'
      <4>1. faults' \in Nat
        BY <1>0, <3>2, SpendTyped DEF SweepBin
      <4> QED
        BY <1>0, <3>2, <4>1 DEF SweepBin, StateOK, database
    <3>3. ASSUME NEW k \in Keys, SweepObject(k) PROVE StateOK'
      BY <1>0, <3>3, DueTyped DEF SweepObject, StateOK, database
    <3> QED
      BY <1>1, <3>1, <3>2, <3>3 DEF Sweep
  <2> QED
    BY <2>1, <2>2 DEF Typed
<1>2. CASE Tick
  <2>1. UNCHANGED <<fileStore, faults, asked, receipt, sweep, stuck, req>>
    BY <1>2 DEF Tick
  <2>2. now' \in 1..MaxNow
    BY <1>0, <1>2, FilesAssumption DEF Tick, StateOK
  <2>3. meta' \in [Keys -> Times] /\ until' \in [Keys -> Times] /\ blob' \subseteq Keys
    BY <1>0, <1>2, DueTyped DEF Tick, StateOK
  <2> QED
    BY <1>0, <2>1, <2>2, <2>3 DEF Typed, StateOK
<1>3. CASE Crash
  <2>1. StateOK'
    BY <1>0, <1>3 DEF Crash, StateOK, database
  <2>2. \/ \E r \in Reqs : Answer(r, "crashed")
        \/ UNCHANGED req
    BY <1>3 DEF Crash
  <2>3. CASE UNCHANGED req
    BY <2>1, <2>3 DEF Typed
  <2> QED
    BY <2>1, <2>2, <2>3, AnswerTyped DEF Answers
<1>4. CASE UNCHANGED vars
  BY <1>0, <1>4 DEF vars, database, files, Typed, StateOK
<1> QED
  BY <1>1, <1>2, <1>3, <1>4

\* Every step is well typed.
LEMMA TypedStep == Typed /\ FileInv /\ [Next]_vars => Typed'
<1> SUFFICES ASSUME Typed, FileInv, [Next]_vars PROVE Typed'
  OBVIOUS
<1>1. ASSUME NEW r \in Reqs, Handle(r) PROVE Typed'
  BY <1>1, UploadTyped, AccessTyped DEF Handle
<1> QED
  BY <1>1, ArriveTyped, AroundTyped DEF Next, Quiet

------------------------------------------------------------------------------
\* The invariants, together.
LEMMA FilesInvariant == Spec => [](Typed /\ FileInv)
<1>1. Init => Typed /\ FileInv
  BY TypedInit, FilesInit
<1>2. Typed /\ FileInv /\ [Next]_vars => (Typed /\ FileInv)'
  BY TypedIsOK, TypedStep, FileStep
<1> QED
  BY <1>1, <1>2, PTL DEF Spec

\* Every variable keeps its type, and no time is further away than a lifetime.
THEOREM FilesTypeOK == Spec => []TypeOK
  BY FilesInvariant, TypedIsOK, PTL

\* A one-time file is sent, in whole or in part, to at most one download, and a
\* receipt reads "viewed" only after a download was sent all of it
\* (claimOneTimeSecret before Load, markReceiptViewed after io.Copy).
THEOREM FilesSentOnceAndTold == Spec => []SentOnceAndTold
<1>1. FileInv => SentOnceAndTold
  <2> SUFFICES ASSUME FileInv, NEW k \in Keys
               PROVE  /\ asked[k].oneTime =>
                           \A r, q \in Reqs :
                             /\ req[r].key = k /\ req[r].got # "nothing"
                             /\ req[q].key = k /\ req[q].got # "nothing"
                             => r = q
                      /\ receipt[k] = "viewed" =>
                           \E r \in Reqs : /\ req[r].key = k /\ req[r].got # "nothing"
                                           /\ req[r].got = "all"
    BY DEF SentOnceAndTold
  <2>1. \A r \in Reqs : /\ req[r].key = k /\ req[r].got # "nothing"
                        /\ asked[k].oneTime
                        => req[r].took
    BY DEF FileInv, Local
  <2>2. receipt[k] = "viewed" =>
          \E r \in Reqs : req[r].key = k /\ req[r].got = "all"
    BY DEF FileInv, ToldInv
  <2> QED
    BY <2>1, <2>2 DEF FileInv, TakenInv
<1> QED
  BY <1>1, FilesInvariant, PTL

------------------------------------------------------------------------------
(***************************************************************************)
(* Until the time its upload computed, a file that nobody takes is whole.  *)
(***************************************************************************)
Untaken(k) == \A q \in Reqs : req[q].key = k => ~req[q].took

\* The blob is there, for long enough, and no sweep is at it.
Whole(k, due) == k \in blob /\ until[k] >= due /\ sweep # k

\* The upload of u was confirmed, and its file is due to be there.
Owed(u) ==
  /\ req[u].op = "upload" /\ req[u].resp = "created" /\ now < req[u].due
  /\ ~asked[req[u].key].oneTime /\ Untaken(req[u].key)

UploadKept(u) ==
  LET k == req[u].key
      Is(pc) == req[u].op = "upload" /\ req[u].pc = pc
  IN
  /\ req[u].due <= now + Lifetime
  /\ Is("receipt") \/ Is("save") => until[k] = Gone /\ sweep # k
  /\ Is("body") /\ now < req[u].due
       => sweep # k /\ (fileStore = "disk" => until[k] = req[u].due)
  /\ Is("putMeta") /\ now < req[u].due => Whole(k, req[u].due)
  /\ Owed(u) => /\ Whole(k, req[u].due) /\ meta[k] >= req[u].due
                /\ \A q \in Reqs : req[q].key = k => req[q].pc # "stale"

KeptInv ==
  /\ \A u \in Reqs : UploadKept(u)
  /\ \A k \in Keys : Uploads(k) = {} => until[k] = Gone /\ sweep # k

\* No file was asked for yet.
LEMMA KeptInit == Init => KeptInv
  BY FilesAssumption DEF Init, KeptInv, UploadKept, Owed, Uploads, Gone

\* What r does leaves the file of another upload alone, or takes it.
LEMMA OthersKept ==
  ASSUME NEW r \in Reqs, Frame(r), UNCHANGED <<fileStore, now, sweep>>,
         NEW u \in Reqs, u # r, UploadKept(u),
         req[u].pc \in {"receipt", "save", "body", "putMeta"} =>
           /\ until'[req[u].key] = until[req[u].key]
           /\ req[u].key \in blob => req[u].key \in blob',
         Owed(u)' =>
           /\ Owed(u)
           /\ until'[req[u].key] = until[req[u].key]
           /\ req[u].key \in blob => req[u].key \in blob'
           /\ meta'[req[u].key] = meta[req[u].key]
           /\ req'[r].key = req[u].key => req'[r].pc # "stale"
  PROVE  UploadKept(u)'
<1> DEFINE k == req[u].key
<1>1. req'[u] = req[u] /\ UploadKept(u)
  BY DEF Frame
<1>2. /\ req[u].due <= now + Lifetime
      /\ req[u].op = "upload" /\ req[u].pc \in {"receipt", "save"}
           => until'[k] = Gone /\ sweep # k
      /\ req[u].op = "upload" /\ req[u].pc = "body" /\ now < req[u].due
           => sweep # k /\ (fileStore = "disk" => until'[k] = req[u].due)
      /\ req[u].op = "upload" /\ req[u].pc = "putMeta" /\ now < req[u].due
           => k \in blob' /\ until'[k] >= req[u].due /\ sweep # k
  BY <1>1 DEF UploadKept, Whole
<1>3. Owed(u)' => /\ k \in blob' /\ until'[k] >= req[u].due /\ sweep # k
                  /\ meta'[k] >= req[u].due
                  /\ \A q \in Reqs : req'[q].key = k => req'[q].pc # "stale"
  <2> SUFFICES ASSUME Owed(u)'
               PROVE  /\ k \in blob' /\ until'[k] >= req[u].due /\ sweep # k
                      /\ meta'[k] >= req[u].due
                      /\ \A q \in Reqs : req'[q].key = k => req'[q].pc # "stale"
    OBVIOUS
  <2>1. Owed(u)
    OBVIOUS
  <2>2. /\ Whole(k, req[u].due) /\ meta[k] >= req[u].due
        /\ \A q \in Reqs : req[q].key = k => req[q].pc # "stale"
    BY <1>1, <2>1 DEF UploadKept
  <2>3. ASSUME NEW q \in Reqs, req'[q].key = k PROVE req'[q].pc # "stale"
    BY <2>2, <2>3 DEF Frame
  <2> QED
    BY <2>2, <2>3 DEF Whole
<1> QED
  BY <1>1, <1>2, <1>3 DEF UploadKept, Whole

\* A handler works on the one key it has.
Elsewhere(r) ==
  /\ UNCHANGED <<fileStore, now, sweep>>
  /\ \A j \in Keys : j # req'[r].key =>
       /\ until'[j] = until[j] /\ meta'[j] = meta[j] /\ asked'[j] = asked[j]
       /\ j \in blob' <=> j \in blob

\* What a client sends comes with its key.
LEMMA ArriveElsewhere ==
  ASSUME TypeOK, FileInv, NEW r \in Reqs, Arrive(r)
  PROVE  Frame(r) /\ Elsewhere(r)
<1>0. req[r] \in Request
  BY DEF TypeOK
<1>1. ASSUME NEW k \in Keys, NEW a \in Asked, StartUpload(r, k, a)
      PROVE  Frame(r) /\ Elsewhere(r)
  <2> DEFINE pc == IF a.receipt THEN "receipt" ELSE "save"
             q == [req[r] EXCEPT !.pc = pc, !.op = "upload", !.key = k]
  <2>1. /\ Frame(r) /\ req'[r] = q /\ UNCHANGED <<fileStore, now, sweep, meta, blob, until>>
        /\ \A j \in Keys : j # k => asked'[j] = asked[j]
    BY <1>1 DEF StartUpload, Frame, TypeOK, database, files
  <2>2. q.key = k
    <3> HIDE DEF pc
    <3> QED
      BY <1>0 DEF Request
  <2> HIDE DEF q
  <2> QED
    BY <2>1, <2>2 DEF Elsewhere
<1>2. ASSUME NEW k \in Keys, NEW op \in {"download", "delete"}, StartAccess(r, op, k)
      PROVE  Frame(r) /\ Elsewhere(r)
  <2>1. UNCHANGED <<fileStore, now, sweep, meta, blob, until, asked>>
    BY <1>2 DEF StartAccess, database, files
  <2>2. Frame(r)
    <3> DEFINE q == [req[r] EXCEPT !.op = op, !.key = k]
    <3>1. \E b : req' = [req EXCEPT ![r] = b]
      BY <1>2 DEF StartAccess
    <3> QED
      BY <3>1 DEF Frame, TypeOK
  <2> QED
    BY <2>1, <2>2 DEF Elsewhere
<1> QED
  BY <1>1, <1>2 DEF Arrive

\* A handler keeps its key.
LEMMA HandleElsewhere ==
  ASSUME TypeOK, FileInv, NEW r \in Reqs, Handle(r)
  PROVE  /\ Frame(r) /\ Elsewhere(r) /\ UNCHANGED asked
         /\ req'[r].op = req[r].op /\ req'[r].key = req[r].key
         /\ req'[r].due \in {req[r].due, now + Lifetime}
<1>0. req[r] \in Request
  BY DEF TypeOK
<1>1. ASSUME NEW q \in Request, q.op = req[r].op, q.key = req[r].key, UNCHANGED asked,
             q.due \in {req[r].due, now + Lifetime},
             \/ req' = [req EXCEPT ![r] = q]
             \/ \E a : req' = [req EXCEPT ![r] = Done(q, a)]
      PROVE  /\ Frame(r) /\ req'[r].op = req[r].op /\ req'[r].key = req[r].key
             /\ req'[r].due \in {req[r].due, now + Lifetime} /\ UNCHANGED asked
  <2>1. /\ Frame(r) /\ UNCHANGED asked
        /\ req'[r] = q \/ \E a : req'[r] = Done(q, a)
    BY <1>1 DEF Frame, TypeOK
  <2> QED
    BY <1>1, <2>1, DoneFields
<1> DEFINE Same == /\ Frame(r) /\ req'[r].op = req[r].op /\ req'[r].key = req[r].key
                   /\ req'[r].due \in {req[r].due, now + Lifetime} /\ UNCHANGED asked
           Touched == /\ UNCHANGED <<fileStore, now, sweep, asked>>
                      /\ \A j \in Keys : j # req[r].key =>
                           /\ until'[j] = until[j] /\ meta'[j] = meta[j]
                           /\ j \in blob' <=> j \in blob
<1>2. Same
  <2>1. CASE PutReceipt(r) \/ BreakBody(r) \/ PutMeta(r) \/ Undo(r) \/ Drop(r) \/ Load(r)
             \/ DropStale(r) \/ Mark(r)
    <3>1. UNCHANGED asked
      BY <2>1 DEF PutReceipt, BreakBody, PutMeta, Undo, Drop, DeleteBlob, Load, DropStale, Mark
    <3>2. \/ \E a : Answer(r, a)
          \/ \E pc \in {"save", "undo", "stream", "stale", "drop"} : Goto(r, pc)
      BY <2>1 DEF PutReceipt, BreakBody, PutMeta, Undo, Drop, DeleteBlob, Load, NotLoaded,
                  DropStale, Mark
    <3>3. CASE \E a : Answer(r, a)
      <4>1. \E a : req' = [req EXCEPT ![r] = Done(req[r], a)]
        BY <3>3 DEF Answer, TypeOK
      <4> QED
        BY <1>0, <1>1, <3>1, <4>1
    <3>4. ASSUME NEW pc \in {"save", "undo", "stream", "stale", "drop"}, Goto(r, pc)
          PROVE  Same
      <4> DEFINE q == [req[r] EXCEPT !.pc = pc]
      <4>1. q \in Request /\ q.op = req[r].op /\ q.key = req[r].key /\ q.due \in {req[r].due, now + Lifetime}
        BY <1>0 DEF Request
      <4>2. req' = [req EXCEPT ![r] = q]
        BY <3>4 DEF Goto, TypeOK
      <4> HIDE DEF q
      <4> QED
        BY <1>1, <3>1, <4>1, <4>2
    <3> QED
      BY <3>2, <3>3, <3>4
  <2>2. CASE BeginSave(r)
    <3>1. UNCHANGED asked
      BY <2>2 DEF BeginSave
    <3>2. CASE Answer(r, "500")
      <4>1. req' = [req EXCEPT ![r] = Done(req[r], "500")]
        BY <3>2 DEF Answer, TypeOK
      <4> QED
        BY <1>0, <1>1, <3>1, <4>1
    <3>3. CASE req' = [req EXCEPT ![r].pc = "body", ![r].due = now + Lifetime]
      <4> DEFINE q == [req[r] EXCEPT !.pc = "body", !.due = now + Lifetime]
      <4>1. now + Lifetime \in Nat
        BY FilesAssumption DEF TypeOK
      <4>2. q \in Request /\ q.op = req[r].op /\ q.key = req[r].key /\ q.due \in {req[r].due, now + Lifetime}
        BY <1>0, <4>1 DEF Request
      <4>3. req' = [req EXCEPT ![r] = q]
        BY <3>3 DEF TypeOK
      <4> HIDE DEF q
      <4> QED
        BY <1>1, <3>1, <4>2, <4>3
    <3> QED
      BY <2>2, <3>2, <3>3 DEF BeginSave
  <2>3. CASE EndSave(r)
    <3>1. UNCHANGED asked
      BY <2>3 DEF EndSave
    <3>2. PICK late \in BOOLEAN : late = (now > req[r].due)
      <4>1. now \in Nat /\ req[r].due \in Nat
        BY <1>0 DEF TypeOK, Request
      <4>2. (now > req[r].due) \in BOOLEAN
        BY <4>1
      <4> QED
        BY <4>2, Zenon
    <3> DEFINE q == [req[r] EXCEPT !.pc = "putMeta", !.late = late]
    <3>3. q \in Request /\ q.op = req[r].op /\ q.key = req[r].key /\ q.due \in {req[r].due, now + Lifetime}
      BY <1>0 DEF Request
    <3>4. \/ req' = [req EXCEPT ![r] = Done(req[r], "500")]
          \/ req' = [req EXCEPT ![r] = q]
      BY <2>3, <3>2 DEF EndSave
    <3> HIDE DEF q
    <3> QED
      BY <1>0, <1>1, <3>1, <3>3, <3>4
  <2>4. CASE Claim(r) \/ Remove(r)
    <3>1. PICK next \in {"load", "drop"} : DeleteMeta(r, next)
      BY <2>4 DEF Claim, Remove
    <3> DEFINE q(took) == [req[r] EXCEPT !.took = took]
    <3>2. \E took \in BOOLEAN :
            \/ \E a : req' = [req EXCEPT ![r] = Done(q(took), a)]
            \/ req' = [req EXCEPT ![r] = [q(took) EXCEPT !.pc = next]]
      <4>1. PICK call \in DeleteCalls :
              LET took == Applied(call) /\ meta[req[r].key] # Gone IN
              req' = [req EXCEPT ![r] =
                        IF Errs(call) THEN Done(q(took), "500")
                        ELSE IF call = "repeated" \/ ~q(took).took THEN Done(q(took), "404")
                        ELSE [q(took) EXCEPT !.pc = next]]
        BY <3>1 DEF DeleteMeta
      <4> DEFINE took == Applied(call) /\ meta[req[r].key] # Gone
      <4>2. took \in BOOLEAN
        OBVIOUS
      <4> HIDE DEF q
      <4> QED
        BY <4>1, <4>2
    <3>3. UNCHANGED asked
      BY <3>1 DEF DeleteMeta
    <3>4. ASSUME NEW took \in BOOLEAN,
                 \/ \E a : req' = [req EXCEPT ![r] = Done(q(took), a)]
                 \/ req' = [req EXCEPT ![r] = [q(took) EXCEPT !.pc = next]]
          PROVE  Same
      <4>1. q(took) \in Request /\ q(took).op = req[r].op /\ q(took).key = req[r].key /\ q(took).due \in {req[r].due, now + Lifetime}
        BY <1>0 DEF Request
      <4> HIDE DEF q
      <4> DEFINE p == [q(took) EXCEPT !.pc = next]
      <4>2. p \in Request /\ p.op = req[r].op /\ p.key = req[r].key /\ p.due \in {req[r].due, now + Lifetime}
        BY <4>1 DEF Request
      <4> HIDE DEF p
      <4>3. CASE req' = [req EXCEPT ![r] = p]
        BY <1>1, <3>3, <4>2, <4>3
      <4>4. CASE \E a : req' = [req EXCEPT ![r] = Done(q(took), a)]
        BY <1>1, <3>3, <4>1, <4>4
      <4> QED
        BY <3>4, <4>3, <4>4 DEF p
    <3> QED
      BY <3>2, <3>4
  <2>5. CASE Stream(r)
    <3>1. UNCHANGED asked
      BY <2>5 DEF Stream
    <3> DEFINE p == [req[r] EXCEPT !.got = "all", !.pc = "mark"]
               q == [req[r] EXCEPT !.got = "part"]
    <3>2. /\ p \in Request /\ p.op = req[r].op /\ p.key = req[r].key /\ p.due \in {req[r].due, now + Lifetime}
          /\ q \in Request /\ q.op = req[r].op /\ q.key = req[r].key /\ q.due = req[r].due
      BY <1>0 DEF Request
    <3>3. \/ req' = [req EXCEPT ![r] = p]
          \/ req' = [req EXCEPT ![r] = Done(q, "content")]
      BY <2>5 DEF Stream, TypeOK
    <3> HIDE DEF p, q
    <3> QED
      BY <1>1, <3>1, <3>2, <3>3
  <2> QED
    BY <2>1, <2>2, <2>3, <2>4, <2>5 DEF Handle
<1>3. Touched
  <2>1. CASE PutReceipt(r) \/ BeginSave(r) \/ BreakBody(r) \/ PutMeta(r)
    BY <2>1 DEF PutReceipt, BeginSave, BreakBody, PutMeta, Unsaved, TypeOK, database, files
  <2>2. CASE EndSave(r)
    BY <2>2 DEF EndSave, Unsaved, TypeOK, database
  <2>3. CASE Undo(r) \/ Drop(r)
    BY <2>3 DEF Undo, Drop, DeleteBlob, TypeOK, database
  <2>4. CASE Claim(r) \/ Remove(r)
    BY <2>4 DEF Claim, Remove, DeleteMeta, TypeOK, files
  <2>5. CASE Load(r) \/ DropStale(r) \/ Stream(r) \/ Mark(r)
    BY <2>5 DEF Load, DropStale, Stream, Mark, TypeOK, database, files
  <2> QED
    BY <2>1, <2>2, <2>3, <2>4, <2>5 DEF Handle
<1> QED
  BY <1>2, <1>3 DEF Elsewhere

\* A download or a deletion that did not take the file has left it alone, but
\* for metadata that it found without a blob.
LEMMA AccessLeaves ==
  ASSUME TypeOK, FileInv, NEW r \in Reqs, Arrive(r) \/ Handle(r),
         req'[r].op \in {"download", "delete"}, ~req'[r].took
  PROVE  LET k == req'[r].key IN
         /\ k \in Keys /\ Created(k) /\ ~req[r].took /\ UNCHANGED <<asked, until, blob>>
         /\ meta'[k] = meta[k] \/ (req[r].pc = "stale" /\ req[r].key = k)
         /\ req'[r].pc = "stale" => k \notin blob
<1>0. req[r] \in Request /\ Local(req[r])
  BY DEF TypeOK, FileInv
<1>1. ASSUME NEW k \in Keys, NEW a \in Asked, StartUpload(r, k, a) PROVE FALSE
  <2> DEFINE pc == IF a.receipt THEN "receipt" ELSE "save"
             q == [req[r] EXCEPT !.pc = pc, !.op = "upload", !.key = k]
  <2>1. req'[r] = q
    BY <1>1 DEF StartUpload, TypeOK
  <2>2. q.op = "upload"
    <3> HIDE DEF pc
    <3> QED
      BY <1>0 DEF Request
  <2> HIDE DEF q
  <2> QED
    BY <2>1, <2>2
<1>2. ASSUME NEW k \in Keys, NEW op \in {"download", "delete"}, StartAccess(r, op, k)
      PROVE  /\ Created(k) /\ ~req[r].took /\ UNCHANGED <<asked, until, blob, meta>>
             /\ req'[r].key = k /\ req'[r].pc # "stale"
  <2> DEFINE q == [req[r] EXCEPT !.op = op, !.key = k]
  <2>1. Created(k) /\ ~req[r].took /\ UNCHANGED <<asked, until, blob, meta>>
    BY <1>0, <1>2 DEF StartAccess, At, Local, database, files
  <2>2. q \in Request /\ q.key = k
    BY <1>0 DEF Request
  <2>3. PICK next \in {"remove", "claim", "load"} :
          req'[r] \in {Done(q, "404"), Done(q, "refused"), [q EXCEPT !.pc = next]}
    BY <1>2 DEF StartAccess, TypeOK
  <2> HIDE DEF q
  <2>4. req'[r].key = k /\ req'[r].pc # "stale"
    BY <2>2, <2>3, DoneFields DEF Request
  <2> QED
    BY <2>1, <2>4
<1>3. ASSUME Handle(r)
      PROVE  /\ ~req[r].took /\ UNCHANGED <<asked, until, blob>>
             /\ req'[r].key = req[r].key /\ req'[r].op = req[r].op
             /\ meta'[req[r].key] = meta[req[r].key] \/ req[r].pc = "stale"
             /\ req'[r].pc = "stale" => req[r].key \notin blob
  <2>1. req'[r].key = req[r].key /\ req'[r].op = req[r].op /\ req[r].key \in Keys
    BY <1>0, <1>3, HandleElsewhere DEF Local
  <2>2. Load(r) \/ DropStale(r) \/ Stream(r) \/ Mark(r) \/ Claim(r) \/ Remove(r) \/ Drop(r)
    BY <1>0, <1>3, <2>1 DEF Handle, PutReceipt, BeginSave, BreakBody, EndSave, PutMeta,
                            Undo, At, Local
  <2>3. CASE Load(r)
    <3>1. \/ \E a : req'[r] = Done(req[r], a)
          \/ req'[r] = [req[r] EXCEPT !.pc = "stream"]
          \/ req[r].key \notin blob /\ req'[r] = [req[r] EXCEPT !.pc = "stale"]
      BY <2>3 DEF Load, NotLoaded, Goto, Answer, TypeOK
    <3>2. UNCHANGED <<asked, meta, until, blob>>
      BY <2>3 DEF Load, database, files
    <3>3. req'[r].took = req[r].took /\ (req'[r].pc = "stale" => req[r].key \notin blob)
      BY <1>0, <3>1, DoneFields DEF Request
    <3> QED
      BY <2>1, <3>2, <3>3
  <2>4. CASE DropStale(r) \/ Drop(r)
    <3>1. \E a : req'[r] = Done(req[r], a)
      BY <2>4 DEF DropStale, Drop, DeleteBlob, Answer, TypeOK
    <3>2. ~req[r].took /\ req'[r].pc # "stale"
      BY <1>0, <3>1, DoneFields
    <3>3. DropStale(r)
      BY <1>0, <2>4, <3>2 DEF Drop, At, Local
    <3>4. req[r].pc = "stale" /\ UNCHANGED <<asked, until, blob>>
      BY <3>3 DEF DropStale, At, files
    <3> QED
      BY <2>1, <3>2, <3>4
  <2>5. CASE Stream(r)
    <3> DEFINE p == [req[r] EXCEPT !.got = "all", !.pc = "mark"]
               q == [req[r] EXCEPT !.got = "part"]
    <3>1. q \in Request /\ q.took = req[r].took /\ p.took = req[r].took /\ p.pc = "mark"
      BY <1>0 DEF Request
    <3>2. req'[r] = p \/ req'[r] = Done(q, "content")
      BY <2>5 DEF Stream, TypeOK
    <3>3. UNCHANGED <<asked, meta, until, blob>>
      BY <2>5 DEF Stream, database, files
    <3> HIDE DEF p, q
    <3> QED
      BY <2>1, <3>1, <3>2, <3>3, DoneFields
  <2>6. CASE Mark(r)
    <3>1. \/ \E a : req'[r] = Done(req[r], a)
          \/ req'[r] = [req[r] EXCEPT !.pc = "drop"]
      BY <2>6 DEF Mark, Goto, Answer, TypeOK
    <3>2. UNCHANGED <<asked, meta, until, blob>>
      BY <2>6 DEF Mark, files
    <3>3. req'[r].took = req[r].took /\ req'[r].pc # "stale"
      BY <1>0, <3>1, DoneFields DEF Request
    <3> QED
      BY <2>1, <3>2, <3>3
  <2>7. CASE Claim(r) \/ Remove(r)
    <3>1. PICK next \in {"load", "drop"} : DeleteMeta(r, next)
      BY <2>7 DEF Claim, Remove
    <3>2. ~req[r].took /\ UNCHANGED <<asked, until, blob>>
      BY <1>0, <2>7, <3>1 DEF Claim, Remove, At, Local, DeleteMeta, files
    <3> DEFINE q(took) == [req[r] EXCEPT !.took = took]
    <3>3. PICK call \in DeleteCalls :
            LET took == Applied(call) /\ meta[req[r].key] # Gone IN
            /\ meta' = IF Applied(call) THEN [meta EXCEPT ![req[r].key] = Gone] ELSE meta
            /\ req'[r] \in {Done(q(took), "500"), Done(q(took), "404"),
                            [q(took) EXCEPT !.pc = next]}
      BY <3>1 DEF DeleteMeta, TypeOK
    <3> DEFINE took == Applied(call) /\ meta[req[r].key] # Gone
    <3>4. q(took) \in Request /\ q(took).took = took
      <4>1. took \in BOOLEAN
        OBVIOUS
      <4> HIDE DEF took
      <4> QED
        BY <1>0, <4>1 DEF Request
    <3> HIDE DEF q
    <3>5. req'[r].took = took /\ req'[r].pc # "stale"
      <4>1. \A a : Done(q(took), a).took = took /\ Done(q(took), a).pc = "done"
        BY <3>4, DoneFields
      <4> DEFINE p == [q(took) EXCEPT !.pc = next]
      <4>2. p.took = q(took).took /\ p.pc = next
        <5> HIDE DEF took
        <5> QED
          BY <3>4 DEF Request
      <4>3. req'[r] \in {Done(q(took), "500"), Done(q(took), "404"), p}
        BY <3>3
      <4>4. q(took).took = took
        BY <3>4
      <4> HIDE DEF took, p
      <4> QED
        BY <4>1, <4>2, <4>3, <4>4
    <3>6. ~took
      BY <3>5
    <3>7. meta'[req[r].key] = meta[req[r].key]
      BY <2>1, <3>3, <3>6 DEF TypeOK
    <3> QED
      BY <2>1, <3>2, <3>5, <3>7
  <2> QED
    BY <2>2, <2>3, <2>4, <2>5, <2>6, <2>7
<1>4. CASE Handle(r)
  <2>1. Created(req[r].key) /\ req[r].key \in Keys
    BY <1>0, <1>3, <1>4 DEF FileInv, UploadInv, Local
  <2> QED
    BY <1>3, <1>4, <2>1
<1>5. CASE Arrive(r)
  BY <1>1, <1>2, <1>5 DEF Arrive
<1> QED
  BY <1>4, <1>5


\* Whatever r does, the file of another upload is kept.
LEMMA OthersAreKept ==
  ASSUME TypeOK, FileInv, KeptInv, NEW r \in Reqs, Arrive(r) \/ Handle(r),
         NEW u \in Reqs, u # r
  PROVE  UploadKept(u)'
<1> DEFINE k == req[u].key
<1>1. Frame(r) /\ Elsewhere(r) /\ UploadKept(u) /\ req'[u] = req[u] /\ Local(req[u])
  BY ArriveElsewhere, HandleElsewhere DEF Frame, KeptInv, FileInv
<1>2. \/ req[r].op = "none" /\ req[r].key = NoKey
      \/ req'[r].op = req[r].op /\ req'[r].key = req[r].key
  BY HandleElsewhere DEF Arrive, StartUpload, StartAccess, At, FileInv, Local
<1>3. CASE req[u].op # "upload"
  <2>1. req[u].pc \notin {"receipt", "save", "body", "putMeta"} /\ ~Owed(u)'
    BY <1>1, <1>3 DEF Local, Owed
  <2> QED
    BY <1>1, <2>1, OthersKept DEF Elsewhere
<1>4. CASE req[u].op = "upload" /\ req'[r].key # k
  <2>1. k \in Keys
    BY <1>1, <1>4 DEF Local
  <2>2. /\ until'[k] = until[k] /\ meta'[k] = meta[k] /\ asked'[k] = asked[k]
        /\ k \in blob' <=> k \in blob
    BY <1>1, <1>4, <2>1 DEF Elsewhere
  <2>3. Untaken(k)' => Untaken(k)
    <3>1. req[r].key # k
      BY <1>2, <1>4, <2>1, FilesAssumption
    <3> QED
      BY <1>1, <3>1 DEF Frame, Untaken
  <2>4. Owed(u)' => Owed(u)
    BY <1>1, <2>2, <2>3 DEF Owed, Elsewhere, Untaken
  <2> QED
    BY <1>1, <1>4, <2>2, <2>4, OthersKept DEF Elsewhere
<1>5. CASE req[u].op = "upload" /\ req'[r].key = k
  <2>1. req'[r].op \in {"download", "delete"}
    <3>1. CASE Handle(r)
      <4>1. req[r].op = req'[r].op /\ req[r].key = k
        BY <1>5, <3>1, HandleElsewhere
      <4>2. req[r].op # "upload"
        BY <1>5, <4>1 DEF FileInv, UploadInv
      <4>3. req[r].pc # "idle"
        BY <3>1 DEF Handle, PutReceipt, BeginSave, BreakBody, EndSave, PutMeta, Undo, Drop,
                    Claim, Remove, Load, DropStale, Stream, Mark, At
      <4>4. req[r] \in Request /\ Local(req[r])
        BY DEF TypeOK, FileInv
      <4>5. req[r].op # "none"
        BY <3>1, <4>4 DEF Handle, PutReceipt, BeginSave, BreakBody, EndSave, PutMeta, Undo,
                    Drop, Claim, Remove, Load, DropStale, Stream, Mark, At, Local
      <4> QED
        BY <4>1, <4>2, <4>4, <4>5 DEF Request
    <3>2. ASSUME NEW j \in Keys, NEW a \in Asked, StartUpload(r, j, a) PROVE FALSE
      <4> DEFINE pc == IF a.receipt THEN "receipt" ELSE "save"
                 q == [req[r] EXCEPT !.pc = pc, !.op = "upload", !.key = j]
      <4>1. req'[r] = q /\ req[r] \in Request
        BY <3>2 DEF StartUpload, TypeOK
      <4>2. q.key = j
        <5> HIDE DEF pc
        <5> QED
          BY <4>1 DEF Request
      <4> HIDE DEF q
      <4> QED
        BY <1>5, <3>2, <4>1, <4>2 DEF StartUpload, Uploads
    <3>3. ASSUME NEW j \in Keys, NEW op \in {"download", "delete"}, StartAccess(r, op, j)
          PROVE  req'[r].op = op
      <4> DEFINE q == [req[r] EXCEPT !.op = op, !.key = j]
      <4>0. req[r] \in Request
        BY DEF TypeOK
      <4>1. q \in Request /\ q.op = op
        BY <4>0 DEF Request
      <4>2. PICK next \in {"remove", "claim", "load"} :
              req'[r] \in {Done(q, "404"), Done(q, "refused"), [q EXCEPT !.pc = next]}
        BY <3>3 DEF StartAccess, TypeOK
      <4> HIDE DEF q
      <4> QED
        BY <4>1, <4>2, DoneFields DEF Request
    <3> QED
      BY <3>1, <3>2, <3>3 DEF Arrive
  <2>2. ASSUME Owed(u)'
        PROVE  /\ Owed(u) /\ until'[k] = until[k] /\ meta'[k] = meta[k]
               /\ k \in blob => k \in blob'
               /\ req'[r].pc # "stale"
    <3>1. Untaken(k)' /\ ~req'[r].took
      BY <1>1, <1>5, <2>2 DEF Owed, Untaken
    <3>2. /\ ~req[r].took /\ UNCHANGED <<asked, until, blob>>
          /\ meta'[k] = meta[k] \/ (req[r].pc = "stale" /\ req[r].key = k)
          /\ req'[r].pc = "stale" => k \notin blob
      BY <1>5, <2>1, <3>1, AccessLeaves
    <3>3. Untaken(k)
      BY <1>1, <3>1, <3>2 DEF Frame, Untaken
    <3>4. Owed(u)
      BY <1>1, <2>2, <3>2, <3>3 DEF Owed, Elsewhere
    <3>5. k \in blob /\ \A q \in Reqs : req[q].key = k => req[q].pc # "stale"
      BY <1>1, <3>4 DEF UploadKept, Whole
    <3> QED
      BY <3>2, <3>4, <3>5
  <2>3. req[u].pc \notin {"receipt", "save", "body", "putMeta"}
    <3>1. Created(k)
      <4>1. FileInv'
        BY FileStep DEF Next
      <4>2. Created(req[r].key)'
        BY <2>1, <4>1 DEF FileInv, UploadInv
      <4>3. PICK w \in Reqs : req'[w].op = "upload" /\ req'[w].key = k /\ req'[w].resp = "created"
        BY <1>5, <4>2 DEF Created, Uploads
      <4>4. req'[w] = req[w]
        BY <1>1, <2>1, <4>3 DEF Frame
      <4> QED
        BY <4>3, <4>4 DEF Created, Uploads
    <3>2. PICK w \in Reqs : req[w].op = "upload" /\ req[w].key = k /\ req[w].resp = "created"
      BY <3>1 DEF Created, Uploads
    <3>3. w = u
      BY <1>5, <3>2 DEF FileInv, UploadInv
    <3> QED
      BY <1>1, <3>2, <3>3 DEF Local
  <2> QED
    BY <1>1, <2>2, <2>3, OthersKept DEF Elsewhere
<1> QED
  BY <1>3, <1>4, <1>5

\* The upload itself keeps to its time.
LEMMA OwnIsKept ==
  ASSUME TypeOK, FileInv, KeptInv, NEW r \in Reqs, Arrive(r) \/ Handle(r)
  PROVE  UploadKept(r)'
<1> DEFINE k == req[r].key
<1>0. /\ req[r] \in Request /\ Local(req[r]) /\ UploadKept(r)
      /\ now \in Nat /\ Lifetime \in Nat \ {0} /\ req[r].due \in Nat
  BY FilesAssumption DEF TypeOK, FileInv, KeptInv, Request
<1>1. UNCHANGED <<fileStore, now, sweep>> /\ req[r].due <= now + Lifetime
  BY <1>0, ArriveElsewhere, HandleElsewhere DEF Elsewhere, UploadKept
<1>2. ASSUME NEW j \in Keys, NEW a \in Asked, StartUpload(r, j, a)
      PROVE  UploadKept(r)'
  <2> DEFINE pc == IF a.receipt THEN "receipt" ELSE "save"
             q == [req[r] EXCEPT !.pc = pc, !.op = "upload", !.key = j]
  <2>1. req'[r] = q /\ until' = until /\ until[j] = Gone /\ sweep # j
    BY <1>2 DEF StartUpload, KeptInv, TypeOK, files
  <2>2. /\ q.pc \in {"receipt", "save"} /\ q.key = j /\ q.due = req[r].due
        /\ q.resp = "none"
    <3>1. pc \in {"receipt", "save"} /\ req[r].resp = "none"
      BY <1>0, <1>2 DEF StartUpload, At, Local
    <3> HIDE DEF pc
    <3> QED
      BY <1>0, <3>1 DEF Request
  <2> HIDE DEF q
  <2> QED
    BY <1>1, <2>1, <2>2 DEF UploadKept, Owed
<1>3. ASSUME NEW j \in Keys, NEW op \in {"download", "delete"}, StartAccess(r, op, j)
      PROVE  UploadKept(r)'
  <2> DEFINE q == [req[r] EXCEPT !.op = op, !.key = j]
  <2>1. q \in Request /\ q.op = op /\ q.due = req[r].due
    BY <1>0 DEF Request
  <2>2. PICK next \in {"remove", "claim", "load"} :
          req'[r] \in {Done(q, "404"), Done(q, "refused"), [q EXCEPT !.pc = next]}
    BY <1>3 DEF StartAccess, TypeOK
  <2> HIDE DEF q
  <2>3. req'[r].op = op /\ req'[r].due = req[r].due
    BY <2>1, <2>2, DoneFields DEF Request
  <2> QED
    BY <1>1, <2>3 DEF UploadKept, Owed
<1>4. ASSUME Handle(r)
      PROVE  /\ req'[r].op = req[r].op /\ req'[r].key = k
             /\ req'[r].due <= now + Lifetime
  <2>1. req'[r].op = req[r].op /\ req'[r].key = k /\ req'[r].due \in {req[r].due, now + Lifetime}
    BY <1>4, HandleElsewhere
  <2> QED
    BY <1>0, <1>1, <2>1
<1>5. ASSUME Handle(r), \E a : a # "created" /\ req'[r] = Done(req[r], a)
      PROVE  UploadKept(r)'
  <2>1. req'[r].pc = "done" /\ req'[r].resp # "created"
    BY <1>0, <1>5, DoneFields
  <2> QED
    BY <1>1, <1>4, <1>5, <2>1 DEF UploadKept, Owed
<1>6. CASE PutReceipt(r)
  <2>1. /\ req'[r] = Done(req[r], "500") \/ req'[r] = [req[r] EXCEPT !.pc = "save"]
        /\ UNCHANGED until /\ req[r].pc = "receipt"
    BY <1>6 DEF PutReceipt, At, Answer, Goto, TypeOK, files
  <2>2. CASE req'[r] = [req[r] EXCEPT !.pc = "save"]
    <3>1. req'[r].pc = "save" /\ req'[r].resp = "none"
      BY <1>0, <2>1, <2>2 DEF Request, Local
    <3>2. until[k] = Gone /\ sweep # k
      BY <1>0, <2>1 DEF UploadKept, Local
    <3> QED
      BY <1>1, <1>4, <1>6, <2>1, <3>1, <3>2 DEF UploadKept, Owed, Handle
  <2> QED
    BY <1>5, <1>6, <2>1, <2>2 DEF Handle
<1>7. CASE BeginSave(r)
  <2>1. req[r].pc = "save" /\ req[r].op = "upload" /\ k \in Keys
    BY <1>0, <1>7 DEF BeginSave, At, Local
  <2>2. \/ req'[r] = Done(req[r], "500")
        \/ /\ req'[r] = [req[r] EXCEPT !.pc = "body", !.due = now + Lifetime]
           /\ fileStore = "disk" => until'[k] = now + Lifetime
    BY <1>7, <2>1 DEF BeginSave, Answer, TypeOK
  <2>3. CASE req'[r] = [req[r] EXCEPT !.pc = "body", !.due = now + Lifetime]
    <3>1. req'[r].pc = "body" /\ req'[r].resp = "none" /\ req'[r].due = now + Lifetime
      BY <1>0, <2>1, <2>3 DEF Request, Local
    <3>2. sweep # k
      BY <1>0, <2>1 DEF UploadKept
    <3>3. fileStore = "disk" => until'[k] = now + Lifetime
      BY <1>0, <2>2, <3>1, DoneFields
    <3> QED
      BY <1>1, <1>4, <1>7, <3>1, <3>2, <3>3 DEF UploadKept, Owed, Handle
  <2> QED
    BY <1>5, <1>7, <2>2, <2>3 DEF Handle
<1>8. CASE BreakBody(r)
  BY <1>5, <1>8 DEF BreakBody, Answer, TypeOK, Handle
<1>9. CASE EndSave(r)
  <2>1. req[r].pc = "body" /\ req[r].op = "upload" /\ k \in Keys
    BY <1>0, <1>9 DEF EndSave, At, Local
  <2>2. PICK late \in BOOLEAN : late = (now > req[r].due)
    <3>1. (now > req[r].due) \in BOOLEAN
      BY <1>0
    <3> QED
      BY <3>1, Zenon
  <2>3. \/ req'[r] = Done(req[r], "500")
        \/ /\ req'[r] = [req[r] EXCEPT !.pc = "putMeta", !.late = late]
           /\ k \in blob' /\ until'[k] = SavedUntil(req[r])
    BY <1>9, <2>1, <2>2 DEF EndSave, Errs, Applied, StoreCalls, ReadCalls, WriteCalls, TypeOK
  <2>4. CASE req'[r] # Done(req[r], "500")
    <3>1. /\ req'[r].pc = "putMeta" /\ req'[r].resp = "none" /\ req'[r].due = req[r].due
      BY <1>0, <2>1, <2>3, <2>4 DEF Request, Local
    <3>2. k \in blob' /\ until'[k] = SavedUntil(req[r])
      BY <2>3, <2>4
    <3>3. now < req[r].due => SavedUntil(req[r]) >= req[r].due /\ sweep # k
      <4>1. fileStore \in {"disk", "s3", "database"}
        BY FilesAssumption DEF TypeOK
      <4>2. now < req[r].due => sweep # k /\ (fileStore = "disk" => until[k] = req[r].due)
        BY <1>0, <2>1 DEF UploadKept
      <4> QED
        BY <1>0, <1>1, <4>1, <4>2 DEF SavedUntil, DiesAt
    <3> QED
      BY <1>1, <1>4, <1>9, <3>1, <3>2, <3>3 DEF UploadKept, Owed, Handle, Whole
  <2> QED
    BY <1>5, <1>9, <2>4 DEF Handle
<1>10. CASE PutMeta(r)
  <2>1. req[r].pc = "putMeta" /\ req[r].op = "upload" /\ k \in Keys /\ req[r].resp = "none"
    BY <1>0, <1>10 DEF PutMeta, At, Local
  <2>2. /\ UNCHANGED <<until, blob, sweep>>
        /\ \/ req'[r] = Done(req[r], "created") /\ meta'[k] = DiesAt(Lifetime, now)
           \/ req'[r] = [req[r] EXCEPT !.pc = "undo"]
    BY <1>10, <2>1 DEF PutMeta, Goto, Answer, Errs, Applied, WriteCalls, TypeOK, files
  <2>3. CASE req'[r] = [req[r] EXCEPT !.pc = "undo"]
    <3>1. req'[r].pc = "undo" /\ req'[r].resp = "none"
      BY <1>0, <2>1, <2>3 DEF Request
    <3> QED
      BY <1>1, <1>4, <1>10, <3>1 DEF UploadKept, Owed, Handle
  <2>4. CASE req'[r] = Done(req[r], "created") /\ meta'[k] = DiesAt(Lifetime, now)
    <3>1. req'[r].pc = "done" /\ req'[r].due = req[r].due
      BY <1>0, <2>4, DoneFields
    <3>2. meta'[k] >= req[r].due
      BY <1>0, <1>1, <2>4 DEF DiesAt
    <3>3. now < req[r].due => Whole(k, req[r].due)
      BY <1>0, <2>1 DEF UploadKept
    <3>4. \A q \in Reqs : req'[q].key = k => req'[q].pc # "stale"
      <4> SUFFICES ASSUME NEW q \in Reqs, req'[q].key = k, req'[q].pc = "stale" PROVE FALSE
        OBVIOUS
      <4>1. q # r /\ req'[q] = req[q]
        BY <1>10, <3>1, HandleElsewhere DEF Frame, Handle
      <4>2. Created(k)
        BY <4>1 DEF FileInv, Local, UploadInv
      <4>3. PICK w \in Reqs : req[w].op = "upload" /\ req[w].key = k /\ req[w].resp = "created"
        BY <4>2 DEF Created, Uploads
      <4> QED
        BY <2>1, <4>3 DEF FileInv, UploadInv
    <3> QED
      BY <1>1, <1>4, <1>10, <2>2, <3>1, <3>2, <3>3, <3>4 DEF UploadKept, Owed, Handle, Whole
  <2> QED
    BY <2>2, <2>3, <2>4
<1>11. CASE Undo(r)
  BY <1>5, <1>11 DEF Undo, DeleteBlob, Answer, TypeOK, Handle
<1>12. ASSUME Handle(r), req[r].op # "upload" PROVE UploadKept(r)'
  BY <1>1, <1>4, <1>12 DEF UploadKept, Owed
<1>13. CASE Handle(r) /\ req[r].op = "upload"
  <2>1. \/ PutReceipt(r) \/ BeginSave(r) \/ BreakBody(r) \/ EndSave(r) \/ PutMeta(r)
        \/ Undo(r)
    BY <1>0, <1>13 DEF Handle, Claim, Remove, Load, DropStale, Stream, Mark, Drop, At, Local
  <2> QED
    BY <2>1, <1>6, <1>7, <1>8, <1>9, <1>10, <1>11
<1>14. CASE Arrive(r)
  BY <1>2, <1>3, <1>14 DEF Arrive
<1> QED
  BY <1>12, <1>13, <1>14

\* Sweeps, time and crashes leave what is owed.
LEMMA AroundKept ==
  ASSUME Typed, FileInv, KeptInv, Sweep \/ Tick \/ Crash \/ UNCHANGED vars
  PROVE  KeptInv'
<1>0. /\ now \in Nat /\ MaxNow \in Nat /\ Lifetime \in Nat \ {0}
      /\ until \in [Keys -> Times] /\ meta \in [Keys -> Times]
      /\ NoKey \notin Keys
  <2>1. now \in Nat /\ NoKey \notin Keys
    BY FilesAssumption DEF Typed, StateOK
  <2> QED
    BY <2>1, FilesAssumption DEF Typed, StateOK
<1>1. ASSUME UNCHANGED <<fileStore, asked, req>>, now' >= now,
             NEW u \in Reqs, req[u].due \in Nat, now' \in Nat,
             LET k == req[u].key IN
             req[u].op = "upload" =>
               /\ until[k] = Gone /\ sweep # k => until'[k] = Gone /\ sweep' # k
               /\ now' < req[u].due /\ until[k] >= req[u].due /\ sweep # k
                    => /\ until'[k] = until[k] /\ sweep' # k
                       /\ k \in blob => k \in blob'
               /\ now' < req[u].due /\ meta[k] >= req[u].due => meta'[k] = meta[k]
               /\ fileStore # "disk" /\ sweep # k => sweep' # k
      PROVE  UploadKept(u)'
  <2> DEFINE k == req[u].key
  <2>1. UploadKept(u) /\ (now' < req[u].due => now < req[u].due)
    BY <1>0, <1>1 DEF KeptInv
  <2>2. req[u].due <= now' + Lifetime
    BY <1>0, <1>1, <2>1 DEF UploadKept
  <2>3. CASE req[u].op # "upload"
    BY <1>1, <2>2, <2>3 DEF UploadKept, Owed
  <2>4. CASE req[u].op = "upload"
    <3>1. req[u].pc \in {"receipt", "save"} => until'[k] = Gone /\ sweep' # k
      BY <1>1, <2>1, <2>4 DEF UploadKept
    <3>2. req[u].pc = "body" /\ now' < req[u].due
            => sweep' # k /\ (fileStore = "disk" => until'[k] = req[u].due)
      <4>1. CASE fileStore = "disk"
        BY <1>1, <2>1, <2>4, <4>1 DEF UploadKept
      <4>2. CASE fileStore # "disk"
        BY <1>1, <2>1, <2>4, <4>2 DEF UploadKept
      <4> QED
        BY <4>1, <4>2
    <3>3. req[u].pc = "putMeta" /\ now' < req[u].due
            => k \in blob' /\ until'[k] >= req[u].due /\ sweep' # k
      BY <1>1, <2>1, <2>4 DEF UploadKept, Whole
    <3>4. Owed(u)' => /\ k \in blob' /\ until'[k] >= req[u].due /\ sweep' # k
                      /\ meta'[k] >= req[u].due
                      /\ \A q \in Reqs : req[q].key = k => req[q].pc # "stale"
      <4>1. Owed(u)' => Owed(u) /\ now' < req[u].due
        BY <1>1, <2>1 DEF Owed, Untaken
      <4> QED
        BY <1>1, <2>1, <2>4, <4>1 DEF UploadKept, Whole
    <3> QED
      BY <1>1, <2>2, <2>4, <3>1, <3>2, <3>3, <3>4 DEF UploadKept, Whole
  <2> QED
    BY <2>3, <2>4
<1>2. ASSUME NEW u \in Reqs
      PROVE  /\ req[u].due \in Nat
             /\ req[u].op = "upload" => req[u].key \in Keys
  BY <1>0 DEF Typed, Times, FileInv, Local
<1>3. CASE Tick
  <2>1. /\ UNCHANGED <<fileStore, asked, req, sweep>> /\ now' = now + 1
        /\ now' \in Nat /\ now' >= now
    BY <1>0, <1>3 DEF Tick
  <2>2. ASSUME NEW k \in Keys, NEW due \in Nat, now' < due
        PROVE  /\ meta[k] >= due => meta'[k] = meta[k]
               /\ until[k] >= due => until'[k] = until[k] /\ (k \in blob => k \in blob')
    <3>1. meta[k] \in Nat /\ until[k] \in Nat
      BY <1>0 DEF Times
    <3> QED
      BY <1>0, <1>3, <2>1, <2>2, <3>1 DEF Tick, Expired
  <2>3. \A k \in Keys : until[k] = Gone => until'[k] = Gone
    BY <1>0, <1>3 DEF Tick
  <2>4. ASSUME NEW u \in Reqs PROVE UploadKept(u)'
    BY <1>1, <1>2, <2>1, <2>2, <2>3, <2>4
  <2>5. \A k \in Keys : Uploads(k)' = {} => until'[k] = Gone /\ sweep' # k
    BY <2>1, <2>3 DEF KeptInv, Uploads
  <2> QED
    BY <2>4, <2>5 DEF KeptInv
<1>4. CASE Sweep
  <2>1. UNCHANGED <<fileStore, asked, req, now, meta>>
    BY <1>4 DEF Sweep, SweepMeta, SweepBin, SweepObject, database
  <2>2. ASSUME NEW k \in Keys
        PROVE  /\ until[k] = Gone /\ sweep # k => until'[k] = Gone /\ sweep' # k
               /\ ~Swept(k) /\ sweep # k
                    => until'[k] = until[k] /\ sweep' # k /\ (k \in blob => k \in blob')
               /\ fileStore # "disk" /\ sweep # k => sweep' # k
    <3>1. CASE SweepMeta
      BY <1>0, <3>1 DEF SweepMeta
    <3>2. ASSUME NEW j \in Keys, SweepBin(j)
          PROVE  /\ fileStore = "disk" /\ Swept(j) /\ sweep' = j /\ until' = until
                 /\ j # k => (k \in blob => k \in blob')
      BY <3>2 DEF SweepBin
    <3>3. ASSUME NEW j \in Keys, SweepObject(j)
          PROVE  /\ Swept(j) /\ sweep' = sweep /\ (j # k => until'[k] = until[k])
                 /\ until'[j] = Gone /\ (j # k => (k \in blob => k \in blob'))
      BY <1>0, <3>3 DEF SweepObject
    <3> QED
      BY <1>4, <3>1, <3>2, <3>3 DEF Sweep, Swept
  <2>3. ASSUME NEW u \in Reqs PROVE UploadKept(u)'
    <3> DEFINE k == req[u].key
    <3>1. req[u].op = "upload" /\ now < req[u].due /\ until[k] >= req[u].due => ~Swept(k)
      <4>1. req[u].op = "upload" => until[k] \in Nat
        BY <1>0, <1>2 DEF Times
      <4> QED
        BY <1>0, <1>2, <4>1 DEF Swept
    <3>2. now' >= now /\ now' \in Nat
      BY <1>0, <2>1
    <3> QED
      BY <1>1, <1>2, <2>1, <2>2, <3>1, <3>2
  <2>4. \A k \in Keys : Uploads(k)' = {} => until'[k] = Gone /\ sweep' # k
    BY <2>1, <2>2 DEF KeptInv, Uploads
  <2> QED
    BY <2>3, <2>4 DEF KeptInv
<1>5. CASE Crash
  <2>1. UNCHANGED <<fileStore, now, asked, meta, until, blob>> /\ sweep' \in {sweep, NoKey}
    BY <1>5 DEF Crash, database
  <2>2. CASE UNCHANGED req
    <3>1. ASSUME NEW u \in Reqs PROVE UploadKept(u)'
      <4>1. now' >= now /\ now' \in Nat
        BY <1>0, <2>1
      <4> QED
        BY <1>0, <1>1, <1>2, <2>1, <2>2, <4>1
    <3>2. \A k \in Keys : Uploads(k)' = {} => until'[k] = Gone /\ sweep' # k
      BY <1>0, <2>1, <2>2 DEF KeptInv, Uploads
    <3> QED
      BY <3>1, <3>2 DEF KeptInv
  <2>3. ASSUME NEW r \in Reqs, InFlight(r), Answer(r, "crashed"), UNCHANGED sweep
        PROVE  KeptInv'
    <3>1. req'[r] = Done(req[r], "crashed") /\ Frame(r) /\ req[r] \in Request
      BY <2>3 DEF Answer, Frame, Typed
    <3>2. /\ req'[r].op = req[r].op /\ req'[r].key = req[r].key /\ req'[r].due = req[r].due
          /\ req'[r].took = req[r].took /\ req'[r].pc = "done" /\ req'[r].resp = "crashed"
      BY <3>1, DoneFields
    <3>3. UploadKept(r)'
      BY <2>1, <3>2 DEF KeptInv, UploadKept, Owed
    <3>4. ASSUME NEW u \in Reqs, u # r PROVE UploadKept(u)'
      <4>1. req'[u] = req[u] /\ UploadKept(u)
        BY <3>1, <3>4 DEF Frame, KeptInv
      <4>2. Owed(u)' => Owed(u)
        <5>1. Untaken(req[u].key)' => Untaken(req[u].key)
          BY <3>1, <3>2, <4>1 DEF Untaken, Frame
        <5> QED
          BY <2>1, <4>1, <5>1 DEF Owed, Untaken
      <4> QED
        BY <2>1, <2>3, <3>1, <3>2, <3>4, <4>1, <4>2, OthersKept
    <3>5. \A k \in Keys : Uploads(k)' = {} => until'[k] = Gone /\ sweep' # k
      <4>1. \A k \in Keys : Uploads(k)' = {} => Uploads(k) = {}
        BY <3>1, <3>2 DEF Uploads, Frame
      <4> QED
        BY <2>1, <2>3, <4>1 DEF KeptInv
    <3> QED
      BY <3>3, <3>4, <3>5 DEF KeptInv
  <2> QED
    BY <1>5, <2>2, <2>3 DEF Crash
<1>6. CASE UNCHANGED vars
  <2>1. UNCHANGED <<fileStore, now, asked, meta, until, blob, sweep, req>>
    BY <1>6 DEF vars, database, files
  <2> QED
    BY <2>1 DEF KeptInv, UploadKept, Owed, Untaken, Whole, Uploads
<1> QED
  BY <1>3, <1>4, <1>5, <1>6

\* Every step keeps what is owed.
LEMMA KeptStep == Typed /\ FileInv /\ KeptInv /\ [Next]_vars => KeptInv'
<1> SUFFICES ASSUME Typed, FileInv, KeptInv, [Next]_vars PROVE KeptInv'
  OBVIOUS
<1>1. TypeOK
  BY TypedIsOK
<1>2. ASSUME NEW r \in Reqs, Arrive(r) \/ Handle(r) PROVE KeptInv'
  <2>1. \A u \in Reqs : UploadKept(u)'
    BY <1>1, <1>2, OthersAreKept, OwnIsKept
  <2>2. ASSUME NEW k \in Keys, Uploads(k)' = {} PROVE until'[k] = Gone /\ sweep' # k
    <3>1. Frame(r) /\ Elsewhere(r) /\ FileInv'
      BY <1>1, <1>2, ArriveElsewhere, HandleElsewhere, FileStep DEF Next
    <3>2. Uploads(k) = {}
      <4>1. req[r].op = "upload" => req'[r].op = req[r].op /\ req'[r].key = req[r].key
        BY <1>1, <1>2, HandleElsewhere DEF Arrive, StartUpload, StartAccess, At, FileInv, Local
      <4> QED
        BY <2>2, <3>1, <4>1 DEF Uploads, Frame
    <3>3. k # req'[r].key
      <4> SUFFICES ASSUME k = req'[r].key PROVE FALSE
        OBVIOUS
      <4>1. req'[r].op # "upload"
        BY <2>2 DEF Uploads
      <4>2. ~Created(req[r].key)'
        BY <2>2 DEF Created, Uploads
      <4>3. req'[r].op \in {"none", "upload", "download", "delete"}
        <5>1. Typed'
          BY TypedStep DEF Next
        <5> QED
          BY <5>1 DEF Typed, Request
      <4>4. req'[r].op = "none"
        BY <3>1, <4>1, <4>2, <4>3 DEF FileInv, UploadInv
      <4>5. req'[r].key = NoKey
        BY <3>1, <4>4 DEF FileInv, Local
      <4> QED
        BY <4>5, FilesAssumption
    <3> QED
      BY <3>1, <3>2, <3>3 DEF Elsewhere, KeptInv
  <2> QED
    BY <2>1, <2>2 DEF KeptInv
<1>3. CASE Sweep \/ Tick \/ Crash \/ UNCHANGED vars
  BY <1>3, AroundKept
<1> QED
  BY <1>2, <1>3 DEF Next, Quiet

\* Until its time a file that nobody took or deleted is there, metadata and
\* blob, whatever fails or dies (server_stream.go:184-196, filestore_*.go).
THEOREM FilesAvailableInTime == Spec => []AvailableInTime
<1>1. Init => Typed /\ FileInv /\ KeptInv
  BY TypedInit, FilesInit, KeptInit
<1>2. Typed /\ FileInv /\ KeptInv /\ [Next]_vars => (Typed /\ FileInv /\ KeptInv)'
  BY TypedIsOK, TypedStep, FileStep, KeptStep
<1>3. Typed /\ KeptInv => AvailableInTime
  <2> SUFFICES ASSUME Typed, KeptInv, NEW k \in Keys, NEW u \in Uploads(k),
                      req[u].resp = "created", ~asked[k].oneTime, now < req[u].due,
                      \A q \in Reqs : req[q].key = k => ~req[q].took
               PROVE  meta[k] # Gone /\ k \in blob
    BY DEF AvailableInTime
  <2>1. u \in Reqs /\ req[u].key = k /\ Owed(u)
    BY DEF Uploads, Owed, Untaken
  <2>2. k \in blob /\ meta[k] >= req[u].due
    BY <2>1 DEF KeptInv, UploadKept, Whole
  <2>3. now \in Nat /\ req[u].due \in Nat /\ meta[k] \in Nat
    BY <2>1, FilesAssumption DEF Typed, StateOK, Times
  <2> QED
    BY <2>2, <2>3 DEF Gone
<1> QED
  BY <1>1, <1>2, <1>3, PTL DEF Spec
==============================================================================
