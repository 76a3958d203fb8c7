---------------------------- MODULE SecretsProofs ----------------------------
(***************************************************************************)
(* Theorems about Secrets, for any sets of keys, requests and lifetimes,   *)
(* any configuration and any bounds.                                       *)
(***************************************************************************)
EXTENDS Secrets, TLAPS

------------------------------------------------------------------------------
(***************************************************************************)
(* Type correctness.                                                       *)
(***************************************************************************)

\* A request that returns, with any of the answers, is a request.
LEMMA DoneType ==
  ASSUME NEW q \in Request, NEW resp \in Answers
  PROVE  Done(q, resp) \in Request
  BY DEF Request, Done

\* The backend's arithmetic stays in the natural numbers.
LEMMA TimesType ==
  /\ \A t \in Nat, ttl \in Nat : DiesAt(ttl, t) \in Nat
  /\ \A t \in Nat, e \in Nat : SecondsUntil(e, t) \in Nat
  BY DEF DiesAt, SecondsUntil, Never

LEMMA SpendType ==
  ASSUME faults \in Nat, NEW call, Spend(call)
  PROVE  faults' \in Nat
  BY DEF Spend, Faults

\* An accepted policy is the policy of an issued key.
LEMMA AcceptedType ==
  ASSUME NEW p \in AskedPolicies, PolicyAccepted(p)
  PROVE  p \in Policy /\ p # NoPolicy
  BY LifetimesAssumption DEF AskedPolicies, PolicyAccepted, Policy, NoPolicy

LEMMA LifetimeType == \A l \in Lifetimes : l \in Nat /\ l # 0
  BY LifetimesAssumption

LEMMA InitTypeOK == Init => TypeOK
  BY DEF Init, TypeOK, NoPolicy, NoSecret, NoReceipt, Secret, Receipt, Request,
         Sessions, Answers, Codes

\* What a request is once its create has started.
LEMMA StartType ==
  ASSUME NEW q \in Request, NEW pc \in {"putReceipt", "putSecret"},
         NEW k \in Keys, NEW due \in Nat
  PROVE  [q EXCEPT !.pc = pc, !.op = "create", !.key = k, !.due = due]
           \in Request
BY DEF Request

\* What a request is once it has named the secret it is about.
LEMMA NamedType ==
  ASSUME NEW q \in Request, NEW op \in {"get", "delete", "status", "check"},
         NEW k \in Keys, NEW s \in Sessions
  PROVE  /\ [q EXCEPT !.op = op, !.key = k, !.session = s] \in Request
         /\ [q EXCEPT !.op = op, !.key = k] \in Request
BY DEF Request

\* A request that passed the checks goes on to its next database call.
LEMMA PassedType ==
  ASSUME NEW q \in Request
  PROVE  /\ [q EXCEPT !.pc = "remove"] \in Request
         /\ [q EXCEPT !.pc = "claim"] \in Request
         /\ [q EXCEPT !.pc = "markRead", !.took = TRUE] \in Request
BY DEF Request

LEMMA ArriveTypeOK ==
  ASSUME TypeOK, NEW r \in Reqs, Arrive(r)
  PROVE  TypeOK'
<1> USE DEF TypeOK
<1>1. CASE \E p \in AskedPolicies : RejectCreate(r, p)
  <2>1. [req[r] EXCEPT !.op = "create"] \in Request
    BY DEF Request
  <2>2. Done([req[r] EXCEPT !.op = "create"], "400") \in Request
    BY <2>1, DoneType DEF Answers, Codes
  <2> QED
    BY <1>1, <2>2 DEF RejectCreate
<1>2. CASE \E p \in AskedPolicies, k \in Keys : StartCreate(r, p, k)
  <2>1. PICK p \in AskedPolicies, k \in Keys : StartCreate(r, p, k)
    BY <1>2
  <2>2. p \in Policy
    BY <2>1, AcceptedType DEF StartCreate
  <2>3. asked' \in [Keys -> Policy \union {NoPolicy}]
    BY <2>1, <2>2 DEF StartCreate
  <2>4. p.lifetime \in Lifetimes
    BY <2>2 DEF Policy
  <2> DEFINE due == IF p.receipt THEN now + p.lifetime ELSE 0
             pc == IF p.receipt THEN "putReceipt" ELSE "putSecret"
             q == [req[r] EXCEPT !.pc = pc, !.op = "create", !.key = k,
                                 !.due = due]
  <2>5. due \in Nat
    <3>1. p.lifetime \in Nat
      BY <2>4, LifetimeType
    <3>2. now + p.lifetime \in Nat
      BY <3>1
    <3> QED
      BY <3>2
  <2>6. q \in Request
    <3>1. pc \in {"putReceipt", "putSecret"}
      OBVIOUS
    <3>2. req[r] \in Request
      OBVIOUS
    <3> HIDE DEF due, pc, TypeOK
    <3> QED
      BY <2>5, <3>1, <3>2, StartType
  <2> HIDE DEF q
  <2>7. req' \in [Reqs -> Request]
    BY <2>1, <2>6 DEF StartCreate, q
  <2> QED
    BY <2>1, <2>3, <2>7 DEF StartCreate
<1>3. CASE \E k \in Keys, op \in {"get", "delete", "status"}, s \in Sessions :
             StartAccess(r, op, k, s)
  <2>1. PICK k \in Keys, op \in {"get", "delete", "status"}, s \in Sessions :
               StartAccess(r, op, k, s)
    BY <1>3
  <2> DEFINE q == [req[r] EXCEPT !.op = op, !.key = k, !.session = s]
  <2>2. q \in Request
    <3>1. req[r] \in Request
      OBVIOUS
    <3> HIDE DEF TypeOK
    <3> QED
      BY <3>1, NamedType
  <2>3. /\ Done(q, "404") \in Request
        /\ Done(q, "status") \in Request
        /\ Done(q, Refusal(s)) \in Request
    BY <2>2, DoneType DEF Answers, Codes, Refusal
  <2>4. /\ [q EXCEPT !.pc = "remove"] \in Request
        /\ [q EXCEPT !.pc = "claim"] \in Request
        /\ [q EXCEPT !.pc = "markRead", !.took = TRUE] \in Request
    BY <2>2, PassedType
  <2> HIDE DEF q
  <2>5. AfterStatus(q, op, secrets[k], s) \in Request
    BY <2>3, <2>4 DEF AfterStatus
  <2>6. req' \in [Reqs -> Request] /\ faults' \in Nat
    BY <2>1, <2>3, <2>5, SpendType DEF StartAccess, q
  <2> QED
    BY <2>1, <2>6 DEF StartAccess
<1>4. CASE \E k \in Keys, valid \in BOOLEAN : CheckReceipt(r, k, valid)
  <2>1. PICK k \in Keys, valid \in BOOLEAN : CheckReceipt(r, k, valid)
    BY <1>4
  <2> DEFINE q == [req[r] EXCEPT !.op = "check", !.key = k]
  <2>2. q \in Request
    <3>1. req[r] \in Request
      OBVIOUS
    <3> HIDE DEF TypeOK
    <3> QED
      BY <3>1, NamedType DEF Sessions
  <2>3. receipts[k].state \in Answers
    BY DEF Receipt, Answers
  <2>4. \A a \in {"404", "401", receipts[k].state} : Done(q, a) \in Request
    BY <2>2, <2>3, DoneType DEF Answers, Codes
  <2> HIDE DEF q
  <2>5. req' \in [Reqs -> Request] /\ faults' \in Nat
    BY <2>1, <2>4, SpendType DEF CheckReceipt, q
  <2> QED
    BY <2>1, <2>5 DEF CheckReceipt
<1> QED
  BY <1>1, <1>2, <1>3, <1>4 DEF Arrive

\* Answering or moving on keeps the requests typed, whoever does it.
LEMMA AnswerType ==
  ASSUME req \in [Reqs -> Request], NEW r \in Reqs, NEW a \in Answers, Answer(r, a)
  PROVE  req' \in [Reqs -> Request]
<1>1. Done(req[r], a) \in Request
  BY DoneType
<1> QED
  BY <1>1 DEF Answer

LEMMA GotoType ==
  ASSUME req \in [Reqs -> Request], NEW r \in Reqs,
         NEW pc \in {"putSecret", "write"}, Goto(r, pc)
  PROVE  req' \in [Reqs -> Request]
<1>1. [req[r] EXCEPT !.pc = pc] \in Request
  BY DEF Request
<1> QED
  BY <1>1 DEF Goto

LEMMA PutTypeOK ==
  ASSUME TypeOK, NEW r \in Reqs, req[r].key \in Keys,
         PutReceipt(r) \/ PutSecret(r)
  PROVE  TypeOK'
<1> USE DEF TypeOK
<1> DEFINE k == req[r].key
<1>1. asked[k].lifetime \in Nat
  BY LifetimeType DEF Policy, NoPolicy
<1>2. DiesAt(asked[k].lifetime, now) \in Nat
  BY <1>1, TimesType
<1>3. CASE PutReceipt(r)
  <2>1. req[r].due \in Nat
    BY DEF Request
  <2>2. PendingReceipt(k, req[r].due) \in Receipt
    BY <1>2, <2>1 DEF PendingReceipt, Receipt
  <2>3. PICK call \in WriteCalls :
           /\ Spend(call)
           /\ receipts' = IF Applied(call)
                          THEN [receipts EXCEPT ![k] = PendingReceipt(k, req[r].due)]
                          ELSE receipts
           /\ IF Errs(call) THEN Answer(r, "500") ELSE Goto(r, "putSecret")
    BY <1>3 DEF PutReceipt
  <2>4. receipts' \in [Keys -> Receipt]
    BY <2>2, <2>3
  <2>5. req' \in [Reqs -> Request]
    BY <2>3, AnswerType, GotoType DEF Answers, Codes
  <2> QED
    BY <1>3, <2>3, <2>4, <2>5, SpendType DEF PutReceipt
<1>4. CASE PutSecret(r)
  <2> DEFINE s == [stored |-> TRUE, oneTime |-> asked[k].oneTime,
                   requireAuth |-> asked[k].requireAuth,
                   dies |-> DiesAt(asked[k].lifetime, now)]
  <2>1. asked[k].oneTime \in BOOLEAN /\ asked[k].requireAuth \in BOOLEAN
    <3>1. asked[k] \in Policy \/ asked[k] = NoPolicy
      OBVIOUS
    <3>2. CASE asked[k] \in Policy
      BY <3>2 DEF Policy
    <3>3. CASE asked[k] = NoPolicy
      BY <3>3 DEF NoPolicy
    <3> QED
      BY <3>1, <3>2, <3>3
  <2>2. s \in Secret
    BY <1>2, <2>1 DEF Secret
  <2>3. PICK call \in WriteCalls :
           /\ Spend(call)
           /\ secrets' = IF Applied(call) THEN [secrets EXCEPT ![k] = s]
                                          ELSE secrets
           /\ Answer(r, IF Errs(call) THEN "500" ELSE "created")
    BY <1>4 DEF PutSecret
  <2> HIDE DEF s
  <2>4. secrets' \in [Keys -> Secret]
    BY <2>2, <2>3
  <2>5. (IF Errs(call) THEN "500" ELSE "created") \in Answers
    BY DEF Answers, Codes
  <2>6. req' \in [Reqs -> Request]
    BY <2>3, <2>5, AnswerType
  <2> QED
    BY <1>4, <2>3, <2>4, <2>6, SpendType DEF PutSecret
<1> QED
  BY <1>3, <1>4

\* DB.Delete, whatever the handler does with its success.
LEMMA DeleteTypeOK ==
  ASSUME TypeOK, NEW r \in Reqs, NEW next \in Request, DeleteKey(r, next)
  PROVE  TypeOK'
<1> USE DEF TypeOK
<1>1. /\ Done(req[r], "500") \in Request
      /\ Done(req[r], "404") \in Request
  BY DoneType DEF Answers, Codes
<1>2. NoSecret \in Secret
  BY DEF NoSecret, Secret
<1>3. secrets' \in [Keys -> Secret]
  BY <1>2 DEF DeleteKey
<1>4. req' \in [Reqs -> Request]
  BY <1>1 DEF DeleteKey
<1>5. faults' \in Nat
  BY SpendType DEF DeleteKey
<1> QED
  BY <1>3, <1>4, <1>5 DEF DeleteKey

LEMMA TakeTypeOK ==
  ASSUME TypeOK, NEW r \in Reqs, Claim(r) \/ Remove(r)
  PROVE  TypeOK'
<1>0. req[r] \in Request
  BY DEF TypeOK
<1>1. [req[r] EXCEPT !.pc = "markRead", !.took = TRUE] \in Request
  BY <1>0 DEF Request
<1>2. [req[r] EXCEPT !.took = TRUE] \in Request
  BY <1>0 DEF Request
<1>3. Done([req[r] EXCEPT !.took = TRUE], "gone204") \in Request
  BY <1>2, DoneType DEF Answers
<1> QED
  BY <1>1, <1>3, DeleteTypeOK DEF Claim, Remove

LEMMA MarkTypeOK ==
  ASSUME TypeOK, NEW r \in Reqs, req[r].key \in Keys,
         MarkRead(r) \/ MarkSwap(r) \/ MarkMissing(r) \/ MarkConflict(r)
  PROVE  TypeOK'
<1> USE DEF TypeOK
<1> DEFINE k == req[r].key
           rec == receipts[k]
<1>0. rec \in Receipt /\ req[r] \in Request
  OBVIOUS
<1>1. CASE MarkRead(r)
  <2>1. /\ [req[r] EXCEPT !.pc = "write", !.lapse = TRUE] \in Request
        /\ [req[r] EXCEPT !.pc = "write"] \in Request
        /\ [req[r] EXCEPT !.pc = "markCas", !.ver = rec.ver,
                          !.due = rec.expiresAt, !.at = now] \in Request
    BY <1>0 DEF Request, Receipt
  <2> QED
    BY <1>1, <2>1, SpendType DEF MarkRead
<1>2. CASE MarkSwap(r)
  <2>1. SecondsUntil(req[r].due, req[r].at) \in Nat
    BY <1>0, TimesType DEF Request
  <2>2. DiesAt(SecondsUntil(req[r].due, req[r].at), now) \in Nat
    BY <2>1, TimesType
  <2>3. ViewedReceipt(req[r]) \in Receipt
    BY <1>0, <2>2 DEF ViewedReceipt, Receipt, Request
  <2>4. PICK call \in WriteCalls :
          /\ Spend(call)
          /\ receipts' = IF Applied(call)
                         THEN [receipts EXCEPT ![k] = ViewedReceipt(req[r])]
                         ELSE receipts
          /\ req' = [req EXCEPT ![r] = [@ EXCEPT !.pc = "write",
                                                 !.lapse = Errs(call)]]
    BY <1>2 DEF MarkSwap
  <2>5. Errs(call) \in BOOLEAN
    BY DEF Errs
  <2>6. [req[r] EXCEPT !.pc = "write", !.lapse = Errs(call)] \in Request
    BY <1>0, <2>5 DEF Request
  <2> QED
    BY <1>2, <2>3, <2>4, <2>6, SpendType DEF MarkSwap
<1>3. CASE MarkMissing(r)
  BY <1>3, GotoType DEF MarkMissing
<1>4. CASE MarkConflict(r)
  <2> DEFINE tries == req[r].tries + 1
  <2>1. tries \in Nat
    BY <1>0 DEF Request
  <2>2. /\ [req[r] EXCEPT !.pc = "markRead", !.tries = tries] \in Request
        /\ [req[r] EXCEPT !.pc = "write", !.tries = tries,
                          !.lapse = TRUE] \in Request
    BY <1>0, <2>1 DEF Request
  <2> QED
    BY <1>4, <2>2 DEF MarkConflict
<1> QED
  BY <1>1, <1>2, <1>3, <1>4

\* Everything that is not a step of a request's handler.
LEMMA AroundTypeOK ==
  ASSUME TypeOK,
         \/ Tick \/ LicenseExpires \/ Quiet
         \/ \E k \in Keys : EvictSecret(k) \/ EvictReceipt(k)
         \/ \E r \in Reqs : Crash(r)
  PROVE  TypeOK'
<1> USE DEF TypeOK
<1>1. NoSecret \in Secret /\ NoReceipt \in Receipt
  BY DEF NoSecret, Secret, NoReceipt, Receipt
<1>2. CASE Tick
  BY <1>1, <1>2 DEF Tick
<1>3. CASE LicenseExpires
  BY <1>3 DEF LicenseExpires
<1>4. CASE Quiet
  BY <1>4 DEF Quiet, vars
<1>5. CASE \E k \in Keys : EvictSecret(k) \/ EvictReceipt(k)
  BY <1>1, <1>5 DEF EvictSecret, EvictReceipt
<1>6. CASE \E r \in Reqs : Crash(r)
  <2>1. PICK r \in Reqs : Crash(r)
    BY <1>6
  <2>2. req' \in [Reqs -> Request]
    BY <2>1, AnswerType DEF Crash, Answers
  <2> QED
    BY <2>1, <2>2 DEF Crash
<1> QED
  BY <1>2, <1>3, <1>4, <1>5, <1>6

------------------------------------------------------------------------------
(***************************************************************************)
(* The inductive invariant.  The steps fall into a few kinds as far as     *)
(* OpeningInv can tell, each with its lemma.                               *)
(***************************************************************************)

LEMMA DoneFields ==
  ASSUME NEW q \in Request, NEW a
  PROVE  /\ Done(q, a).pc = "done" /\ Done(q, a).resp = a
         /\ Done(q, a).key = q.key /\ Done(q, a).took = q.took
         /\ Done(q, a).op = q.op /\ Done(q, a).lapse = q.lapse
         /\ Done(q, a).session = q.session /\ Done(q, a).tries = 0
  BY DEF Request, Done

\* Entries only disappear.
Shrinks == \A k \in Keys : secrets'[k] = secrets[k] \/ secrets'[k] = NoSecret

\* Nothing but r moves.
Frame(r) == \A q \in Reqs \ {r} : req'[q] = req[q]

LEMMA OpeningInit == Init => OpeningInv
  BY KeysAssumption
     DEF Init, OpeningInv, FreshInv, KeyInv, IssueInv, CreateInv, CopyInv,
         TakenInv, ServedInv, InFlight, At, Issued, Creating, Served, NoSecret

\* Entries disappear and no request moves.
LEMMA ShrinkStep ==
  ASSUME TypeOK, OpeningInv, Shrinks, UNCHANGED <<asked, req>>
  PROVE  OpeningInv'
<1> USE DEF OpeningInv
<1>1. \A k \in Keys : secrets'[k].stored => secrets'[k] = secrets[k]
  BY DEF Shrinks, NoSecret
<1>2. FreshInv' /\ KeyInv'
  BY DEF FreshInv, KeyInv, InFlight, At
<1>3. IssueInv'
  BY <1>1 DEF IssueInv, Issued
<1>4. CreateInv'
  BY <1>1 DEF CreateInv, KeyInv, Creating, InFlight
<1>5. CopyInv'
  BY <1>1 DEF CopyInv
<1>6. TakenInv'
  BY <1>1 DEF TakenInv, KeyInv
<1>7. ServedInv'
  BY DEF ServedInv, Served
<1> QED
  BY <1>2, <1>3, <1>4, <1>5, <1>6, <1>7

\* A handler goes on or returns, without becoming entitled to anything.
LEMMA HandlerStep ==
  ASSUME TypeOK, OpeningInv, Shrinks, UNCHANGED asked,
         NEW r \in Reqs, InFlight(r), Frame(r),
         req'[r].key = req[r].key, req'[r].took = req[r].took,
         req'[r].pc # "idle",
         req'[r].pc # "done" => req'[r].resp = "none",
         Creating(r)' => Creating(r),
         \/ req'[r].pc \in {"markRead", "markCas", "write"}
         \/ Served(r)'
         => req[r].took
  PROVE  OpeningInv'
<1> USE DEF OpeningInv, Frame
<1>1. \A k \in Keys : secrets'[k].stored => secrets'[k] = secrets[k]
  BY DEF Shrinks, NoSecret
<1>2. /\ \A q \in Reqs : req'[q].key = req[q].key /\ req'[q].took = req[q].took
      /\ req[r].key \in Keys
  BY DEF KeyInv
<1>3. FreshInv'
  BY DEF FreshInv, At
<1>4. KeyInv'
  BY <1>2 DEF KeyInv, InFlight
<1>5. IssueInv'
  BY <1>1, <1>2 DEF IssueInv, Issued
<1>6. CreateInv'
  <2> SUFFICES ASSUME NEW q \in Reqs, Creating(q)'
               PROVE  /\ ~secrets'[req[q].key].stored
                      /\ ~req[q].took
                      /\ \A x \in Reqs : req[x].key = req[q].key => x = q
    BY <1>2 DEF CreateInv
  <2>1. Creating(q)
    BY DEF Creating
  <2>2. req[q].key \in Keys
    BY <2>1 DEF KeyInv, Creating, InFlight
  <2> QED
    BY <1>1, <2>1, <2>2 DEF CreateInv
<1>7. CopyInv'
  BY <1>1 DEF CopyInv
<1>8. TakenInv'
  <2> SUFFICES ASSUME NEW q \in Reqs, req[q].took, asked[req[q].key].oneTime
               PROVE  /\ ~secrets'[req[q].key].stored
                      /\ \A x \in Reqs : req[x].took /\ req[x].key = req[q].key => x = q
    BY <1>2 DEF TakenInv
  <2>1. req[q].key \in Keys
    BY DEF KeyInv
  <2> QED
    BY <1>1, <2>1 DEF TakenInv
<1>9. ServedInv'
  BY <1>2 DEF ServedInv, Served
<1> QED
  BY <1>3, <1>4, <1>5, <1>6, <1>7, <1>8, <1>9

\* A handler deletes the entry and is told that it was there.
LEMMA TakeStep ==
  ASSUME TypeOK, OpeningInv, Shrinks, UNCHANGED asked,
         NEW r \in Reqs, InFlight(r), ~Creating(r), Frame(r),
         secrets[req[r].key].stored, ~secrets'[req[r].key].stored,
         req'[r].key = req[r].key, req'[r].took = TRUE,
         req'[r].pc \notin {"idle", "putReceipt", "putSecret"},
         req'[r].pc # "done" => req'[r].resp = "none"
  PROVE  OpeningInv'
<1> USE DEF OpeningInv, Frame
<1> DEFINE k == req[r].key
<1>1. \A c \in Keys : secrets'[c].stored => secrets'[c] = secrets[c]
  BY DEF Shrinks, NoSecret
<1>2. /\ \A q \in Reqs : req'[q].key = req[q].key
      /\ k \in Keys
  BY DEF KeyInv
<1>3. FreshInv'
  BY DEF FreshInv, At
<1>4. KeyInv'
  BY <1>2 DEF KeyInv, InFlight
<1>5. IssueInv'
  BY <1>1, <1>2 DEF IssueInv, Issued
<1>6. CreateInv'
  <2> SUFFICES ASSUME NEW q \in Reqs, Creating(q)'
               PROVE  /\ ~secrets'[req[q].key].stored
                      /\ ~req'[q].took
                      /\ \A x \in Reqs : req[x].key = req[q].key => x = q
    BY <1>2 DEF CreateInv
  <2>1. q # r /\ Creating(q)
    BY DEF Creating
  <2>2. req[q].key \in Keys
    BY <2>1 DEF KeyInv, Creating, InFlight
  <2> QED
    BY <1>1, <2>1, <2>2 DEF CreateInv
<1>7. CopyInv'
  BY <1>1 DEF CopyInv
<1>8. TakenInv'
  <2> SUFFICES ASSUME NEW q \in Reqs, req'[q].took, asked[req[q].key].oneTime
               PROVE  /\ ~secrets'[req[q].key].stored
                      /\ \A x \in Reqs : req'[x].took /\ req[x].key = req[q].key => x = q
    BY <1>2 DEF TakenInv
  \* Before the step nobody had taken k: it was still stored.
  <2>1. \A x \in Reqs : req[x].took /\ asked[req[x].key].oneTime => req[x].key # k
    BY DEF TakenInv
  <2>2. CASE req[q].key = k
    BY <1>2, <2>1, <2>2
  <2>3. CASE req[q].key # k
    <3>1. q # r /\ req[q].took /\ req[q].key \in Keys
      BY <2>3 DEF KeyInv
    <3> QED
      BY <1>1, <2>3, <3>1 DEF TakenInv
  <2> QED
    BY <2>2, <2>3
<1>9. ServedInv'
  BY DEF ServedInv, Served
<1> QED
  BY <1>3, <1>4, <1>5, <1>6, <1>7, <1>8, <1>9

\* A request for a disclosed key begins.  It is entitled at once only to a
\* secret that is not one-time.
LEMMA AccessStep ==
  ASSUME TypeOK, OpeningInv, UNCHANGED <<asked, secrets>>,
         NEW r \in Reqs, At(r, "idle"), Frame(r),
         NEW k \in Keys, Disclosed(k),
         req'[r].key = k,
         req'[r].took => ~asked[k].oneTime,
         req'[r].pc \notin {"idle", "putReceipt", "putSecret"},
         req'[r].pc # "done" => req'[r].resp = "none",
         \/ req'[r].pc \in {"markRead", "markCas", "write"}
         \/ Served(r)'
         => req'[r].took
  PROVE  OpeningInv'
<1> USE DEF OpeningInv, Frame
<1>1. PICK c \in Reqs : req[c].resp = "created" /\ req[c].key = k
  BY DEF Disclosed
<1>2. FreshInv' /\ KeyInv'
  BY DEF FreshInv, KeyInv, At, InFlight
<1>3. IssueInv'
  BY <1>1 DEF IssueInv, Issued
<1>4. CreateInv'
  <2> SUFFICES ASSUME NEW q \in Reqs, Creating(q)'
               PROVE  /\ ~secrets[req'[q].key].stored
                      /\ ~req'[q].took
                      /\ \A x \in Reqs : req'[x].key = req'[q].key => x = q
    BY DEF CreateInv
  <2>1. q # r /\ Creating(q)
    BY DEF Creating
  \* The key q creates is not disclosed, or q would have been answered.
  <2>2. req[q].key # k
    <3>1. req[q].resp = "none"
      BY <2>1 DEF FreshInv, Creating
    <3> QED
      BY <1>1, <2>1, <3>1 DEF CreateInv
  <2> QED
    BY <2>1, <2>2 DEF CreateInv
<1>5. CopyInv'
  BY DEF CopyInv
<1>6. TakenInv'
  BY DEF TakenInv
<1>7. ServedInv'
  BY DEF ServedInv, Served
<1> QED
  BY <1>2, <1>3, <1>4, <1>5, <1>6, <1>7

LEMMA RejectOpening ==
  ASSUME TypeOK, OpeningInv, NEW r \in Reqs,
         NEW p \in AskedPolicies, RejectCreate(r, p)
  PROVE  OpeningInv'
<1> USE DEF OpeningInv
<1> DEFINE q == [req[r] EXCEPT !.op = "create"]
<1>1. /\ q \in Request /\ req[r] \in Request
      /\ q.key = req[r].key /\ q.took = req[r].took
  BY DEF TypeOK, Request
<1> HIDE DEF q
<1>2. /\ \A x \in Reqs : req'[x].key = req[x].key /\ req'[x].took = req[x].took
      /\ Frame(r)
      /\ req'[r].pc = "done" /\ req'[r].resp = "400"
      /\ req[r].key = NoKey /\ ~req[r].took
      /\ UNCHANGED <<asked, secrets>>
  <2>1. req' = [req EXCEPT ![r] = Done(q, "400")]
    BY DEF RejectCreate, q
  <2>2. /\ req'[r] = Done(q, "400")
        /\ Frame(r)
    BY <2>1 DEF TypeOK, Frame
  <2>3. /\ req'[r].pc = "done" /\ req'[r].resp = "400"
        /\ req'[r].key = req[r].key /\ req'[r].took = req[r].took
    BY <1>1, <2>2, DoneFields
  <2>4. At(r, "idle") /\ UNCHANGED <<asked, secrets>>
    BY DEF RejectCreate
  <2>5. req[r].key = NoKey /\ ~req[r].took
    BY <2>4 DEF FreshInv
  <2> QED
    BY <2>2, <2>3, <2>4, <2>5 DEF Frame
<1>3. FreshInv' /\ KeyInv'
  BY <1>2 DEF FreshInv, KeyInv, At, InFlight, Frame
<1>4. IssueInv' /\ CopyInv' /\ TakenInv'
  BY <1>2 DEF IssueInv, CopyInv, TakenInv, Issued
<1>5. CreateInv'
  BY <1>2 DEF CreateInv, Creating, Frame
<1>6. ServedInv'
  BY <1>2 DEF ServedInv, Served, Frame
<1> QED
  BY <1>3, <1>4, <1>5, <1>6

LEMMA StartCreateOpening ==
  ASSUME TypeOK, OpeningInv, NEW r \in Reqs,
         NEW p \in AskedPolicies, NEW k \in Keys, StartCreate(r, p, k)
  PROVE  OpeningInv'
<1> USE DEF OpeningInv
<1>1. /\ Frame(r)
      /\ req'[r].key = k /\ req'[r].took = req[r].took
      /\ req'[r].resp = req[r].resp /\ Creating(r)'
  BY DEF StartCreate, TypeOK, Request, Frame, Creating
<1>2. /\ ~req[r].took /\ req[r].resp = "none" /\ req[r].key = NoKey
      /\ UNCHANGED secrets
  BY DEF StartCreate, FreshInv, At
<1>3. /\ asked' = [asked EXCEPT ![k] = p]
      /\ p # NoPolicy
      /\ ~secrets[k].stored
      /\ \A x \in Reqs : req[x].key # k
  BY AcceptedType DEF StartCreate, IssueInv
<1>4. \A c \in Keys \ {k} : asked'[c] = asked[c]
  BY <1>3 DEF TypeOK
<1>5. asked'[k] = p
  BY <1>3 DEF TypeOK
<1>6. FreshInv' /\ KeyInv'
  BY <1>1, <1>2 DEF FreshInv, KeyInv, At, InFlight, Frame, Creating
<1>7. IssueInv'
  BY <1>1, <1>2, <1>3, <1>4, <1>5 DEF IssueInv, Issued, Frame
<1>8. CreateInv'
  BY <1>1, <1>2, <1>3 DEF CreateInv, Creating, Frame
<1>9. CopyInv'
  BY <1>2, <1>3, <1>4 DEF CopyInv
<1>10. TakenInv'
  <2> SUFFICES ASSUME NEW q \in Reqs, req'[q].took, asked'[req'[q].key].oneTime
               PROVE  /\ ~secrets[req'[q].key].stored
                      /\ \A x \in Reqs :
                           req'[x].took /\ req'[x].key = req'[q].key => x = q
    BY <1>2 DEF TakenInv
  <2>1. q # r /\ req[q].took /\ req[q].key \in Keys \ {k} /\ req'[q] = req[q]
    BY <1>1, <1>2, <1>3 DEF Frame, KeyInv
  <2>2. asked[req[q].key].oneTime
    BY <1>4, <2>1
  <2> QED
    BY <1>1, <1>2, <2>1, <2>2 DEF TakenInv, Frame
<1>11. ServedInv'
  BY <1>1, <1>2 DEF ServedInv, Served, Frame, Creating
<1> QED
  BY <1>6, <1>7, <1>8, <1>9, <1>10, <1>11

LEMMA ArriveOpening ==
  ASSUME TypeOK, OpeningInv, NEW r \in Reqs, Arrive(r)
  PROVE  OpeningInv'
<1>0. req[r] \in Request
  BY DEF TypeOK
<1>1. CASE \E p \in AskedPolicies : RejectCreate(r, p)
  BY <1>1, RejectOpening
<1>2. CASE \E p \in AskedPolicies, k \in Keys : StartCreate(r, p, k)
  BY <1>2, StartCreateOpening
<1>3. CASE \E k \in Keys, op \in {"get", "delete", "status"}, s \in Sessions :
             StartAccess(r, op, k, s)
  <2>1. PICK k \in Keys, op \in {"get", "delete", "status"}, s \in Sessions :
               StartAccess(r, op, k, s)
    BY <1>3
  <2> DEFINE q == [req[r] EXCEPT !.op = op, !.key = k, !.session = s]
  <2>2. q \in Request /\ q.key = k /\ q.took = req[r].took
    BY <1>0 DEF Request
  <2>3. At(r, "idle") /\ Disclosed(k) /\ UNCHANGED <<asked, secrets>>
    BY <2>1 DEF StartAccess
  <2>4. ~req[r].took /\ req[r].resp = "none"
    BY <2>3 DEF OpeningInv, FreshInv, At
  <2>5. q.resp = "none"
    BY <1>0, <2>4 DEF Request
  <2> HIDE DEF q
  <2>6. \/ req'[r] = Done(q, "404")
        \/ req'[r] = AfterStatus(q, op, secrets[k], s) /\ secrets[k].stored
    BY <2>1 DEF StartAccess, TypeOK, q
  <2>7. Frame(r)
    BY <2>1 DEF StartAccess, TypeOK, Frame
  <2>8. CASE \E a \in {"404", "status", "401", "403"} : req'[r] = Done(q, a)
    <3>1. /\ req'[r].pc = "done" /\ req'[r].key = k /\ ~req'[r].took
          /\ ~Served(r)'
      BY <2>2, <2>4, <2>8, DoneFields DEF Served
    <3> QED
      BY <2>3, <2>7, <3>1, AccessStep
  <2>9. CASE req'[r] \in {[q EXCEPT !.pc = "remove"], [q EXCEPT !.pc = "claim"]}
    <3>1. /\ req'[r].pc \in {"remove", "claim"} /\ req'[r].key = k
          /\ ~req'[r].took /\ req'[r].resp = "none" /\ ~Served(r)'
      BY <2>2, <2>4, <2>5, <2>9 DEF Request, Served
    <3> QED
      BY <2>3, <2>7, <3>1, AccessStep
  <2>10. CASE /\ req'[r] = [q EXCEPT !.pc = "markRead", !.took = TRUE]
              /\ ~secrets[k].oneTime /\ secrets[k].stored
    <3>1. /\ req'[r].pc = "markRead" /\ req'[r].key = k
          /\ req'[r].took /\ req'[r].resp = "none"
      BY <2>2, <2>5, <2>10 DEF Request
    <3>2. ~asked[k].oneTime
      BY <2>10 DEF OpeningInv, CopyInv
    <3> QED
      BY <2>3, <2>7, <3>1, <3>2, AccessStep
  <2> QED
    BY <2>6, <2>8, <2>9, <2>10 DEF AfterStatus, Refusal
<1>4. CASE \E k \in Keys, valid \in BOOLEAN : CheckReceipt(r, k, valid)
  <2>1. PICK k \in Keys, valid \in BOOLEAN : CheckReceipt(r, k, valid)
    BY <1>4
  <2> DEFINE q == [req[r] EXCEPT !.op = "check", !.key = k]
  <2>2. q \in Request /\ q.key = k /\ q.took = req[r].took
    BY <1>0 DEF Request
  <2>3. At(r, "idle") /\ Disclosed(k) /\ UNCHANGED <<asked, secrets>>
    BY <2>1 DEF CheckReceipt
  <2>4. ~req[r].took
    BY <2>3 DEF OpeningInv, FreshInv
  <2>5. receipts[k].state \in {"pending", "viewed"}
    BY DEF TypeOK, Receipt
  <2> HIDE DEF q
  <2>6. PICK a \in {"404", "401", "pending", "viewed"} : req'[r] = Done(q, a)
    BY <2>1, <2>5 DEF CheckReceipt, TypeOK, q
  <2>7. Frame(r)
    BY <2>1 DEF CheckReceipt, TypeOK, Frame
  <2>8. /\ req'[r].pc = "done" /\ req'[r].key = k /\ ~req'[r].took
        /\ ~Served(r)'
    BY <2>2, <2>4, <2>6, DoneFields DEF Served
  <2> QED
    BY <2>3, <2>7, <2>8, AccessStep
<1> QED
  BY <1>1, <1>2, <1>3, <1>4 DEF Arrive

\* The creating handler of r stores its secret, or fails to.
LEMMA PutSecretOpening ==
  ASSUME TypeOK, OpeningInv, NEW r \in Reqs, PutSecret(r)
  PROVE  OpeningInv'
<1> USE DEF OpeningInv
<1> DEFINE k == req[r].key
<1>1. Creating(r) /\ InFlight(r) /\ At(r, "putSecret")
  BY DEF PutSecret, Creating, InFlight, At
<1>2. /\ k \in Keys /\ ~req[r].took /\ ~secrets[k].stored
      /\ \A q \in Reqs : req[q].key = k => q = r
      /\ Issued(k)
  BY <1>1 DEF KeyInv, CreateInv, IssueInv
<1>3. PICK call \in WriteCalls :
        /\ secrets' =
             IF Applied(call)
             THEN [secrets EXCEPT ![k] =
                     [stored |-> TRUE, oneTime |-> asked[k].oneTime,
                      requireAuth |-> asked[k].requireAuth,
                      dies |-> DiesAt(asked[k].lifetime, now)]]
             ELSE secrets
        /\ Answer(r, IF Errs(call) THEN "500" ELSE "created")
        /\ UNCHANGED asked
  BY DEF PutSecret
<1>4. PICK a \in {"500", "created"} : req' = [req EXCEPT ![r] = Done(req[r], a)]
  BY <1>3 DEF Answer
<1>5. /\ Frame(r)
      /\ req'[r].pc = "done" /\ req'[r].resp = a
      /\ req'[r].key = k /\ req'[r].took = req[r].took
  BY <1>4, DoneFields DEF TypeOK, Frame
<1>6. /\ \A c \in Keys \ {k} : secrets'[c] = secrets[c]
      /\ secrets'[k].stored => /\ secrets'[k].oneTime = asked[k].oneTime
                               /\ secrets'[k].requireAuth = asked[k].requireAuth
  BY <1>2, <1>3 DEF TypeOK
<1>7. FreshInv' /\ KeyInv'
  BY <1>2, <1>5 DEF FreshInv, KeyInv, At, InFlight, Frame
<1>8. IssueInv'
  BY <1>2, <1>3, <1>5, <1>6 DEF IssueInv, Issued, Frame
<1>9. CreateInv'
  <2> SUFFICES ASSUME NEW q \in Reqs, Creating(q)'
               PROVE  /\ ~secrets'[req'[q].key].stored
                      /\ ~req'[q].took
                      /\ \A x \in Reqs : req'[x].key = req'[q].key => x = q
    BY DEF CreateInv
  <2>1. q # r /\ Creating(q) /\ req'[q] = req[q]
    BY <1>5 DEF Creating, Frame
  <2>2. req[q].key \in Keys \ {k}
    BY <1>2, <2>1 DEF KeyInv, Creating, InFlight
  <2> QED
    BY <1>5, <1>6, <2>1, <2>2 DEF CreateInv, Frame
<1>10. CopyInv'
  BY <1>3, <1>6 DEF CopyInv
<1>11. TakenInv'
  <2> SUFFICES ASSUME NEW q \in Reqs, req'[q].took, asked[req'[q].key].oneTime
               PROVE  /\ ~secrets'[req'[q].key].stored
                      /\ \A x \in Reqs :
                           req'[x].took /\ req'[x].key = req'[q].key => x = q
    BY <1>3 DEF TakenInv
  <2>1. q # r /\ req[q].took /\ req'[q] = req[q]
    BY <1>2, <1>5 DEF Frame
  <2>2. req[q].key \in Keys \ {k}
    BY <1>2, <2>1 DEF KeyInv
  <2> QED
    BY <1>2, <1>5, <1>6, <2>1, <2>2 DEF TakenInv, Frame
<1>12. ServedInv'
  BY <1>4, <1>5 DEF ServedInv, Served, Frame
<1> QED
  BY <1>7, <1>8, <1>9, <1>10, <1>11, <1>12

LEMMA PutReceiptOpening ==
  ASSUME TypeOK, OpeningInv, NEW r \in Reqs, PutReceipt(r)
  PROVE  OpeningInv'
<1>1. Creating(r) /\ InFlight(r) /\ req[r] \in Request
  BY DEF PutReceipt, Creating, InFlight, At, TypeOK
<1>2. req[r].resp = "none"
  BY <1>1 DEF OpeningInv, FreshInv, Creating
<1>3. Answer(r, "500") \/ Goto(r, "putSecret")
  BY DEF PutReceipt
<1>4. Frame(r) /\ req'[r].key = req[r].key /\ req'[r].took = req[r].took
  BY <1>1, <1>3, DoneFields DEF Answer, Goto, TypeOK, Frame, Request
<1>5. \/ req'[r].pc = "done" /\ req'[r].resp = "500"
      \/ req'[r].pc = "putSecret" /\ req'[r].resp = "none"
  BY <1>1, <1>2, <1>3, DoneFields DEF Answer, Goto, TypeOK, Request
<1>6. Shrinks /\ UNCHANGED asked
  BY DEF Shrinks, PutReceipt
<1> QED
  BY <1>1, <1>4, <1>5, <1>6, HandlerStep DEF Served

\* Claim and Remove: the one that finds the entry takes it.
LEMMA TakeOpening ==
  ASSUME TypeOK, OpeningInv, NEW r \in Reqs, Claim(r) \/ Remove(r)
  PROVE  OpeningInv'
<1> DEFINE k == req[r].key
           q == [req[r] EXCEPT !.took = TRUE]
           won == IF req[r].pc = "claim"
                  THEN [req[r] EXCEPT !.pc = "markRead", !.took = TRUE]
                  ELSE Done(q, "gone204")
<1>1. /\ InFlight(r) /\ ~Creating(r) /\ req[r].pc \in {"claim", "remove"}
      /\ req[r] \in Request
  BY DEF Claim, Remove, InFlight, Creating, At, TypeOK
<1>2. req[r].resp = "none" /\ k \in Keys
  BY <1>1 DEF OpeningInv, FreshInv, KeyInv
<1>3. q \in Request /\ q.took = TRUE /\ q.key = k
  BY <1>1 DEF Request
<1>4. DeleteKey(r, won)
  BY DEF Claim, Remove, At
<1>5. /\ won.key = k /\ won.took = TRUE
      /\ won.pc \in {"markRead", "done"}
      /\ won.pc # "done" => won.resp = "none"
  <2>1. CASE req[r].pc = "claim"
    BY <1>1, <1>2, <2>1 DEF Request
  <2>2. CASE req[r].pc # "claim"
    BY <1>3, <2>2, DoneFields
  <2> QED
    BY <2>1, <2>2
<1> HIDE DEF won, q
<1>6. PICK call \in DeleteCalls :
        /\ secrets' = IF Applied(call) THEN [secrets EXCEPT ![k] = NoSecret]
                                       ELSE secrets
        /\ req' = [req EXCEPT ![r] =
                     IF Errs(call) THEN Done(@, "500")
                     ELSE IF call = "repeated" \/ ~secrets[k].stored
                          THEN Done(@, "404")
                          ELSE won]
        /\ UNCHANGED asked
  BY <1>4 DEF DeleteKey
<1>7. Shrinks /\ Frame(r)
  BY <1>6 DEF Shrinks, Frame, TypeOK
<1>8. CASE Errs(call) \/ call = "repeated" \/ ~secrets[k].stored
  <2>1. PICK a \in {"500", "404"} : req'[r] = Done(req[r], a)
    BY <1>6, <1>8 DEF TypeOK
  <2>2. /\ req'[r].pc = "done" /\ req'[r].key = k
        /\ req'[r].took = req[r].took /\ req'[r].resp = a
    BY <1>1, <2>1, DoneFields
  <2> QED
    BY <1>1, <1>6, <1>7, <2>2, HandlerStep DEF Served, Creating
<1>9. CASE ~(Errs(call) \/ call = "repeated" \/ ~secrets[k].stored)
  <2>1. req'[r] = won
    BY <1>6, <1>9 DEF TypeOK
  <2>2. secrets[k].stored /\ ~secrets'[k].stored
    BY <1>2, <1>6, <1>9 DEF DeleteCalls, WriteCalls, Applied, Errs, NoSecret, TypeOK
  <2> QED
    BY <1>1, <1>5, <1>6, <1>7, <2>1, <2>2, TakeStep
<1> QED
  BY <1>8, <1>9

\* The steps of a get after it became entitled to the content.
LEMMA MarkOpening ==
  ASSUME TypeOK, OpeningInv, NEW r \in Reqs,
         \/ MarkRead(r) \/ MarkSwap(r) \/ MarkMissing(r) \/ MarkConflict(r)
         \/ Write(r)
  PROVE  OpeningInv'
<1>1. /\ InFlight(r) /\ req[r].pc \in {"markRead", "markCas", "write"}
      /\ req[r] \in Request
  BY DEF MarkRead, MarkSwap, MarkMissing, MarkConflict, Write, InFlight, At, TypeOK
<1>2. req[r].took /\ req[r].resp = "none"
  BY <1>1 DEF OpeningInv, FreshInv, ServedInv
<1>3. Shrinks /\ UNCHANGED asked
  BY DEF Shrinks, MarkRead, MarkSwap, MarkMissing, MarkConflict, Write
<1>4. Frame(r)
  BY DEF Frame, TypeOK, MarkRead, MarkSwap, MarkMissing, MarkConflict, Write,
         Goto, Answer
<1>5. CASE Write(r)
  <2>1. req'[r] = Done(req[r], "content")
    BY <1>5 DEF Write, Answer, TypeOK
  <2>2. /\ req'[r].pc = "done" /\ req'[r].key = req[r].key
        /\ req'[r].took = req[r].took
    BY <1>1, <2>1, DoneFields
  <2> QED
    BY <1>1, <1>2, <1>3, <1>4, <2>2, HandlerStep DEF Creating
<1>6. CASE \/ MarkRead(r) \/ MarkSwap(r) \/ MarkMissing(r) \/ MarkConflict(r)
  <2>1. /\ req'[r].pc \in {"markRead", "markCas", "write"}
        /\ req'[r].key = req[r].key /\ req'[r].took = req[r].took
        /\ req'[r].resp = req[r].resp
    <3>1. CASE MarkRead(r)
      BY <1>1, <3>1 DEF MarkRead, TypeOK, Request
    <3>2. CASE MarkSwap(r)
      <4>1. PICK call \in WriteCalls :
              req' = [req EXCEPT ![r] = [@ EXCEPT !.pc = "write",
                                                  !.lapse = Errs(call)]]
        BY <3>2 DEF MarkSwap
      <4>2. req'[r] = [req[r] EXCEPT !.pc = "write", !.lapse = Errs(call)]
        BY <4>1 DEF TypeOK
      <4> QED
        BY <1>1, <4>2 DEF Request
    <3>3. CASE MarkMissing(r)
      BY <1>1, <3>3 DEF MarkMissing, Goto, TypeOK, Request
    <3>4. CASE MarkConflict(r)
      BY <1>1, <3>4 DEF MarkConflict, TypeOK, Request
    <3> QED
      BY <1>6, <3>1, <3>2, <3>3, <3>4
  <2> QED
    BY <1>1, <1>2, <1>3, <1>4, <2>1, HandlerStep DEF Creating
<1> QED
  BY <1>5, <1>6

LEMMA AroundOpening ==
  ASSUME TypeOK, OpeningInv,
         \/ Tick \/ LicenseExpires \/ Quiet
         \/ \E k \in Keys : EvictSecret(k) \/ EvictReceipt(k)
         \/ \E r \in Reqs : Crash(r)
  PROVE  OpeningInv'
<1>1. CASE \/ Tick \/ LicenseExpires \/ Quiet
           \/ \E k \in Keys : EvictSecret(k) \/ EvictReceipt(k)
  <2>1. UNCHANGED <<asked, req>>
    BY <1>1 DEF Tick, LicenseExpires, Quiet, vars, EvictSecret, EvictReceipt
  <2>2. Shrinks
    BY <1>1 DEF Shrinks, Tick, LicenseExpires, Quiet, vars, EvictSecret,
                EvictReceipt, TypeOK
  <2> QED
    BY <2>1, <2>2, ShrinkStep
<1>2. CASE \E r \in Reqs : Crash(r)
  <2>1. PICK r \in Reqs : Crash(r)
    BY <1>2
  <2>2. req[r] \in Request /\ InFlight(r) /\ req' = [req EXCEPT ![r] = Done(req[r], "crashed")]
    BY <2>1 DEF Crash, Answer, TypeOK
  <2>3. /\ Frame(r)
        /\ req'[r].pc = "done" /\ req'[r].resp = "crashed"
        /\ req'[r].key = req[r].key /\ req'[r].took = req[r].took
    BY <2>2, DoneFields DEF Frame, TypeOK
  <2>4. Shrinks /\ UNCHANGED asked
    BY <2>1 DEF Crash, Shrinks
  <2> QED
    BY <2>2, <2>3, <2>4, HandlerStep DEF Served, Creating
<1> QED
  BY <1>1, <1>2

------------------------------------------------------------------------------
(***************************************************************************)
(* The theorems.                                                           *)
(***************************************************************************)

LEMMA HandleStep ==
  ASSUME TypeOK, OpeningInv, NEW r \in Reqs, Handle(r)
  PROVE  TypeOK' /\ OpeningInv'
<1>1. InFlight(r)
  BY DEF Handle, InFlight, At, PutReceipt, PutSecret, Claim, Remove, MarkRead,
         MarkSwap, MarkMissing, MarkConflict, Write
<1>2. req[r].key \in Keys
  BY <1>1 DEF OpeningInv, KeyInv
<1>3. CASE PutReceipt(r) \/ PutSecret(r)
  BY <1>2, <1>3, PutTypeOK, PutReceiptOpening, PutSecretOpening
<1>4. CASE Claim(r) \/ Remove(r)
  BY <1>4, TakeTypeOK, TakeOpening
<1>5. CASE MarkRead(r) \/ MarkSwap(r) \/ MarkMissing(r) \/ MarkConflict(r)
  BY <1>2, <1>5, MarkTypeOK, MarkOpening
<1>6. CASE Write(r)
  <2>1. req' \in [Reqs -> Request]
    BY <1>6, AnswerType DEF Write, TypeOK, Answers
  <2>2. TypeOK'
    BY <1>6, <2>1 DEF Write, TypeOK
  <2> QED
    BY <1>6, <2>2, MarkOpening
<1> QED
  BY <1>3, <1>4, <1>5, <1>6 DEF Handle

LEMMA OpeningStep ==
  ASSUME TypeOK, OpeningInv, [Next]_vars
  PROVE  TypeOK' /\ OpeningInv'
<1>1. CASE \E r \in Reqs : Arrive(r)
  BY <1>1, ArriveTypeOK, ArriveOpening
<1>2. CASE \E r \in Reqs : Handle(r)
  BY <1>2, HandleStep
<1>3. CASE \/ Tick \/ LicenseExpires \/ Quiet
           \/ \E k \in Keys : EvictSecret(k) \/ EvictReceipt(k)
           \/ \E r \in Reqs : Crash(r)
  BY <1>3, AroundTypeOK, AroundOpening
<1>4. CASE UNCHANGED vars
  <2>1. TypeOK'
    BY <1>4 DEF TypeOK, vars
  <2>2. Shrinks /\ UNCHANGED <<asked, req>>
    BY <1>4 DEF Shrinks, vars
  <2> QED
    BY <2>1, <2>2, ShrinkStep
<1> QED
  BY <1>1, <1>2, <1>3, <1>4 DEF Next

\* The inductive invariant holds of every behaviour of the system.
THEOREM SecretsInvariant == Spec => [](TypeOK /\ OpeningInv)
<1>1. Init => TypeOK /\ OpeningInv
  BY InitTypeOK, OpeningInit
<1>2. TypeOK /\ OpeningInv /\ [Next]_vars => (TypeOK /\ OpeningInv)'
  BY OpeningStep
<1> QED
  BY <1>1, <1>2, PTL DEF Spec

\* Every variable keeps its type: no handler, crash, eviction or failed call
\* leaves an ill-formed entry or request behind.
THEOREM SecretsTypeOK == Spec => []TypeOK
  BY SecretsInvariant, PTL

\* A one-time secret is served, or confirmed deleted, to at most one request,
\* whatever the number of concurrent requests and instances
\* (claimOneTimeSecret, deleteSecretHandler).
THEOREM SecretsAtMostOneOpening == Spec => []AtMostOneOpening
<1>1. OpeningInv => AtMostOneOpening
  BY DEF OpeningInv, ServedInv, TakenInv, AtMostOneOpening
<1> QED
  BY <1>1, SecretsInvariant, PTL

------------------------------------------------------------------------------
(***************************************************************************)
(* Any number of readers may race to mark the receipt of one secret, and   *)
(* yet none of them loses more than one race.                              *)
(***************************************************************************)

\* The receipt of k can still be marked.
Markable(k) == receipts[k].stored /\ receipts[k].state = "pending"

(***************************************************************************)
(* A receipt is written twice, as pending and as viewed.  Whoever has lost *)
(* the race finds nothing to mark any more when it reads again.            *)
(***************************************************************************)
VersionInv ==
  \A k \in Keys :
    receipts[k].stored => receipts[k].ver = IF receipts[k].state = "pending" THEN 1 ELSE 2

Racing(q) ==
  /\ q.tries \in {0, 1}
  /\ q.pc = "markCas" => q.ver = 1
  /\ q.pc \notin {"markRead", "write"} => q.tries = 0
  /\ q.pc = "markRead" /\ q.tries = 1 => ~Markable(q.key)

RaceInv == VersionInv /\ \A r \in Reqs : Racing(req[r])

------------------------------------------------------------------------------
\* At first there is nothing to race for.
LEMMA RaceInit == Init => RaceInv
  BY DEF Init, RaceInv, VersionInv, Racing, NoReceipt

\* Whoever was answered has left the race.
LEMMA DoneRaces ==
  ASSUME NEW r \in Reqs, NEW q \in Request, NEW a, req'[r] = Done(q, a)
  PROVE  Racing(req[r])'
  BY DoneFields DEF Racing

\* r moves, and no receipt becomes markable but by its own creation.
LEMMA RaceFrame ==
  ASSUME TypeOK, OpeningInv, RaceInv, NEW r \in Reqs, Frame(r),
         Racing(req[r])', VersionInv',
         \A k \in Keys : Markable(k)' => Markable(k) \/ (Creating(r) /\ k = req[r].key)
  PROVE  RaceInv'
<1> SUFFICES ASSUME NEW q \in Reqs, q # r PROVE Racing(req[q])'
  BY DEF RaceInv
<1>1. req'[q] = req[q] /\ Racing(req[q])
  BY DEF Frame, RaceInv
<1>2. ASSUME req[q].pc = "markRead", req[q].tries = 1 PROVE ~Markable(req[q].key)'
  <2>1. req[q].key \in Keys
    BY <1>2 DEF OpeningInv, KeyInv, InFlight
  <2>2. ~Markable(req[q].key)
    BY <1>1, <1>2 DEF Racing
  <2>3. ~(Creating(r) /\ req[q].key = req[r].key)
    BY DEF OpeningInv, CreateInv
  <2> QED
    BY <1>1, <2>1, <2>2, <2>3 DEF Markable
<1> QED
  BY <1>1, <1>2 DEF Racing

\* The receipts stay as they are and r moves on without racing.
LEMMA RaceGoesOn ==
  ASSUME TypeOK, OpeningInv, RaceInv, NEW r \in Reqs, Frame(r), UNCHANGED receipts,
         Racing(req[r])'
  PROVE  RaceInv'
<1>1. VersionInv' /\ \A k \in Keys : Markable(k)' => Markable(k)
  BY DEF RaceInv, VersionInv, Markable
<1> QED
  BY <1>1, RaceFrame

\* Receipts disappear and no request moves.
LEMMA RaceShrinks ==
  ASSUME OpeningInv, RaceInv, UNCHANGED req,
         \A k \in Keys : receipts'[k] = receipts[k] \/ receipts'[k] = NoReceipt
  PROVE  RaceInv'
<1>1. \A k \in Keys : receipts'[k].stored => receipts'[k] = receipts[k]
  BY DEF NoReceipt
<1>2. VersionInv'
  BY <1>1 DEF RaceInv, VersionInv
<1>3. ASSUME NEW r \in Reqs PROVE Racing(req[r])'
  <2>1. Racing(req[r]) /\ (InFlight(r) => req[r].key \in Keys)
    BY DEF RaceInv, OpeningInv, KeyInv
  <2> QED
    BY <1>1, <2>1 DEF Racing, Markable, InFlight
<1> QED
  BY <1>2, <1>3 DEF RaceInv

------------------------------------------------------------------------------
\* A request arrives without having raced.
LEMMA ArriveRaces ==
  ASSUME TypeOK, OpeningInv, RaceInv, NEW r \in Reqs, Arrive(r)
  PROVE  RaceInv'
<1>1. At(r, "idle") /\ req[r].tries = 0 /\ req[r] \in Request
  BY DEF Arrive, RejectCreate, StartCreate, StartAccess, CheckReceipt, At,
         RaceInv, Racing, TypeOK
<1>2. Frame(r) /\ UNCHANGED receipts
  BY DEF Arrive, RejectCreate, StartCreate, StartAccess, CheckReceipt, Frame, TypeOK
<1>3. CASE \E p \in AskedPolicies : RejectCreate(r, p)
  <2>1. [req[r] EXCEPT !.op = "create"] \in Request
    BY <1>1 DEF Request
  <2>2. req'[r] = Done([req[r] EXCEPT !.op = "create"], "400")
    BY <1>3 DEF RejectCreate, TypeOK
  <2> QED
    BY <1>2, <2>1, <2>2, DoneRaces, RaceGoesOn
<1>4. CASE \E p \in AskedPolicies, k \in Keys : StartCreate(r, p, k)
  <2>1. req'[r].pc \in {"putReceipt", "putSecret"} /\ req'[r].tries = 0
    BY <1>1, <1>4 DEF StartCreate, TypeOK, Request
  <2>2. Racing(req[r])'
    BY <2>1 DEF Racing
  <2> QED
    BY <1>2, <2>2, RaceGoesOn
<1>5. CASE \E k \in Keys, op \in {"get", "delete", "status"}, s \in Sessions :
             StartAccess(r, op, k, s)
  <2>1. PICK k \in Keys, op \in {"get", "delete", "status"}, s \in Sessions :
               StartAccess(r, op, k, s)
    BY <1>5
  <2> DEFINE q == [req[r] EXCEPT !.op = op, !.key = k, !.session = s]
  <2>2. q \in Request /\ q.tries = 0
    BY <1>1 DEF Request
  <2>3. \/ \E a : req'[r] = Done(q, a)
        \/ req'[r] = [q EXCEPT !.pc = "remove"]
        \/ req'[r] = [q EXCEPT !.pc = "claim"]
        \/ req'[r] = [q EXCEPT !.pc = "markRead", !.took = TRUE]
    BY <2>1 DEF StartAccess, AfterStatus, TypeOK
  <2> HIDE DEF q
  <2>4. CASE \E a : req'[r] = Done(q, a)
    BY <1>2, <2>2, <2>4, DoneRaces, RaceGoesOn
  <2>5. CASE ~\E a : req'[r] = Done(q, a)
    <3>1. req'[r].pc \in {"remove", "claim", "markRead"} /\ req'[r].tries = 0
      BY <2>2, <2>3, <2>5 DEF Request
    <3>2. Racing(req[r])'
      BY <3>1 DEF Racing
    <3> QED
      BY <1>2, <3>2, RaceGoesOn
  <2> QED
    BY <2>4, <2>5
<1>6. CASE \E k \in Keys, valid \in BOOLEAN : CheckReceipt(r, k, valid)
  <2>1. PICK k \in Keys, valid \in BOOLEAN : CheckReceipt(r, k, valid)
    BY <1>6
  <2>2. [req[r] EXCEPT !.op = "check", !.key = k] \in Request
    BY <1>1 DEF Request
  <2>3. \E a : req'[r] = Done([req[r] EXCEPT !.op = "check", !.key = k], a)
    BY <2>1 DEF CheckReceipt, TypeOK
  <2> QED
    BY <1>2, <2>2, <2>3, DoneRaces, RaceGoesOn
<1> QED
  BY <1>3, <1>4, <1>5, <1>6 DEF Arrive

\* A create stores the receipt before anybody else knows its key.
LEMMA PutRaces ==
  ASSUME TypeOK, OpeningInv, RaceInv, NEW r \in Reqs, PutReceipt(r) \/ PutSecret(r)
  PROVE  RaceInv'
<1>1. /\ Creating(r) /\ req[r].tries = 0 /\ req[r] \in Request
      /\ req[r].key \in Keys
  BY DEF PutReceipt, PutSecret, At, Creating, RaceInv, Racing, TypeOK, OpeningInv,
         KeyInv, InFlight
<1>2. Frame(r)
  BY DEF PutReceipt, PutSecret, Goto, Answer, Frame, TypeOK
<1>3. Racing(req[r])'
  <2>1. \/ \E a : req'[r] = Done(req[r], a)
        \/ req'[r] = [req[r] EXCEPT !.pc = "putSecret"]
    BY DEF PutReceipt, PutSecret, Goto, Answer, TypeOK
  <2>2. CASE \E a : req'[r] = Done(req[r], a)
    BY <1>1, <2>2, DoneRaces
  <2>3. CASE req'[r] = [req[r] EXCEPT !.pc = "putSecret"]
    <3>1. req'[r].pc = "putSecret" /\ req'[r].tries = 0
      BY <1>1, <2>3 DEF Request
    <3> QED
      BY <3>1 DEF Racing
  <2> QED
    BY <2>1, <2>2, <2>3
<1>4. /\ \A k \in Keys \ {req[r].key} : receipts'[k] = receipts[k]
      /\ \/ receipts'[req[r].key] = receipts[req[r].key]
         \/ receipts'[req[r].key] = PendingReceipt(req[r].key, req[r].due)
  BY <1>1 DEF PutReceipt, PutSecret, TypeOK
<1>5. VersionInv'
  BY <1>1, <1>4 DEF RaceInv, VersionInv, PendingReceipt
<1>6. \A k \in Keys : Markable(k)' => Markable(k) \/ k = req[r].key
  BY <1>4 DEF Markable
<1> QED
  BY <1>1, <1>2, <1>3, <1>5, <1>6, RaceFrame

\* A claim comes before the race, and a deletion has none.
LEMMA TakeRaces ==
  ASSUME TypeOK, OpeningInv, RaceInv, NEW r \in Reqs, Claim(r) \/ Remove(r)
  PROVE  RaceInv'
<1>1. req[r] \in Request /\ req[r].tries = 0
  BY DEF Claim, Remove, At, RaceInv, Racing, TypeOK
<1> DEFINE q == [req[r] EXCEPT !.took = TRUE]
           next == [req[r] EXCEPT !.pc = "markRead", !.took = TRUE]
<1>2. Frame(r) /\ UNCHANGED receipts
  BY DEF Claim, Remove, DeleteKey, Frame, TypeOK
<1>3. \/ \E a : req'[r] = Done(req[r], a) \/ req'[r] = Done(q, a)
      \/ req'[r] = next
  BY DEF Claim, Remove, DeleteKey, TypeOK
<1>4. q \in Request /\ next.pc = "markRead" /\ next.tries = 0
  BY <1>1 DEF Request
<1> HIDE DEF q, next
<1>5. Racing(req[r])'
  <2>1. CASE \E a : req'[r] = Done(req[r], a) \/ req'[r] = Done(q, a)
    BY <1>1, <1>4, <2>1, DoneRaces
  <2>2. CASE req'[r] = next
    BY <1>4, <2>2 DEF Racing
  <2> QED
    BY <1>3, <2>1, <2>2
<1> QED
  BY <1>2, <1>5, RaceGoesOn

(***************************************************************************)
(* The race.  A read finds a receipt to mark only if r has not lost yet,   *)
(* a write makes it unmarkable for everybody, and a lost write has found   *)
(* it unmarkable.                                                          *)
(***************************************************************************)
LEMMA MarkRaces ==
  ASSUME TypeOK, OpeningInv, RaceInv, NEW r \in Reqs,
         MarkRead(r) \/ MarkSwap(r) \/ MarkMissing(r) \/ MarkConflict(r)
  PROVE  RaceInv'
<1>1. /\ req[r] \in Request /\ req[r].key \in Keys /\ Racing(req[r])
      /\ receipts[req[r].key] \in Receipt
  BY DEF MarkRead, MarkSwap, MarkMissing, MarkConflict, At, RaceInv, TypeOK,
         OpeningInv, KeyInv, InFlight
<1>2. Frame(r)
  BY DEF MarkRead, MarkSwap, MarkMissing, MarkConflict, Goto, Frame, TypeOK
<1>3. CASE MarkRead(r)
  <2>1. \/ req'[r].pc = "write" /\ req'[r].tries = req[r].tries
        \/ /\ Markable(req[r].key)
           /\ req'[r].pc = "markCas" /\ req'[r].tries = req[r].tries
           /\ req'[r].ver = receipts[req[r].key].ver
    BY <1>1, <1>3 DEF MarkRead, TypeOK, Request, NothingToMark, Markable, Receipt
  <2>2. Markable(req[r].key) => receipts[req[r].key].ver = 1 /\ req[r].tries = 0
    BY <1>1, <1>3 DEF MarkRead, At, RaceInv, VersionInv, Racing, Markable
  <2>3. Racing(req[r])'
    BY <1>1, <2>1, <2>2 DEF Racing
  <2> QED
    BY <1>2, <1>3, <2>3, RaceGoesOn DEF MarkRead
<1>4. CASE MarkSwap(r)
  <2>1. PICK call \in WriteCalls :
          req' = [req EXCEPT ![r] = [@ EXCEPT !.pc = "write", !.lapse = Errs(call)]]
    BY <1>4 DEF MarkSwap
  <2>2. req'[r] = [req[r] EXCEPT !.pc = "write", !.lapse = Errs(call)]
    BY <2>1 DEF TypeOK
  <2>3. req'[r].pc = "write" /\ req'[r].tries = req[r].tries
    BY <1>1, <2>2 DEF Request
  <2>4. Racing(req[r])'
    BY <1>1, <2>3 DEF Racing
  <2>5. req[r].ver = 1
    BY <1>1, <1>4 DEF MarkSwap, At, Racing
  <2>6. /\ \A k \in Keys \ {req[r].key} : receipts'[k] = receipts[k]
        /\ \/ receipts'[req[r].key] = receipts[req[r].key]
           \/ receipts'[req[r].key] = ViewedReceipt(req[r])
    BY <1>1, <1>4 DEF MarkSwap, TypeOK
  <2>7. ViewedReceipt(req[r]).state = "viewed" /\ ViewedReceipt(req[r]).ver = 2
    BY <2>5 DEF ViewedReceipt
  <2>8. VersionInv' /\ \A k \in Keys : Markable(k)' => Markable(k)
    BY <1>1, <2>6, <2>7 DEF RaceInv, VersionInv, Markable
  <2> QED
    BY <1>2, <2>4, <2>8, RaceFrame
<1>5. CASE MarkMissing(r)
  <2>1. req'[r].pc = "write" /\ req'[r].tries = req[r].tries
    BY <1>1, <1>5 DEF MarkMissing, Goto, TypeOK, Request
  <2>2. Racing(req[r])'
    BY <1>1, <2>1 DEF Racing
  <2> QED
    BY <1>2, <1>5, <2>2, RaceGoesOn DEF MarkMissing
<1>6. CASE MarkConflict(r)
  <2>1. req[r].ver = 1 /\ req[r].tries = 0
    BY <1>1, <1>6 DEF MarkConflict, At, Racing
  <2>2. /\ req'[r].pc \in {"markRead", "write"} /\ req'[r].tries = 1
        /\ req'[r].key = req[r].key
    BY <1>1, <1>6, <2>1 DEF MarkConflict, TypeOK, Request
  <2>3. ~Markable(req[r].key) /\ UNCHANGED receipts
    BY <1>1, <1>6, <2>1 DEF MarkConflict, CasMatches, Markable, RaceInv, VersionInv
  <2>4. Racing(req[r])'
    BY <2>2, <2>3 DEF Racing, Markable
  <2> QED
    BY <1>2, <2>3, <2>4, RaceGoesOn
<1> QED
  BY <1>3, <1>4, <1>5, <1>6

\* Every step keeps the invariant.
LEMMA RaceStep ==
  ASSUME TypeOK, OpeningInv, RaceInv, [Next]_vars
  PROVE  RaceInv'
<1>1. ASSUME NEW r \in Reqs, Write(r) \/ Crash(r) PROVE RaceInv'
  <2>1. /\ req[r] \in Request /\ UNCHANGED receipts /\ Frame(r)
        /\ \E a : req'[r] = Done(req[r], a)
    BY <1>1 DEF Write, Crash, Answer, Frame, TypeOK
  <2> QED
    BY <2>1, DoneRaces, RaceGoesOn
<1>2. ASSUME NEW r \in Reqs, Arrive(r) PROVE RaceInv'
  BY <1>2, ArriveRaces
<1>3. ASSUME NEW r \in Reqs, Handle(r) PROVE RaceInv'
  BY <1>1, <1>3, PutRaces, TakeRaces, MarkRaces DEF Handle
<1>4. CASE \/ Tick \/ LicenseExpires \/ Quiet \/ UNCHANGED vars
           \/ \E k \in Keys : EvictSecret(k) \/ EvictReceipt(k)
  <2>1. /\ UNCHANGED req
        /\ \A k \in Keys : receipts'[k] = receipts[k] \/ receipts'[k] = NoReceipt
    BY <1>4 DEF Tick, LicenseExpires, Quiet, vars, EvictSecret, EvictReceipt, TypeOK
  <2> QED
    BY <2>1, RaceShrinks
<1> QED
  BY <1>1, <1>2, <1>3, <1>4 DEF Next

(***************************************************************************)
(* However many readers race to mark a receipt, none loses more than one   *)
(* race: the bound on the retries of Update (redis.go:75) is never what    *)
(* keeps a receipt from being marked by its readers.                       *)
(***************************************************************************)
THEOREM SecretsAtMostOneConflict == Spec => []AtMostOneConflict
<1>1. Init => RaceInv
  BY RaceInit
<1>2. TypeOK /\ OpeningInv /\ RaceInv /\ [Next]_vars => RaceInv'
  BY RaceStep
<1>3. RaceInv => AtMostOneConflict
  BY DEF RaceInv, Racing, AtMostOneConflict
<1> QED
  BY <1>1, <1>2, <1>3, SecretsInvariant, PTL DEF Spec
==============================================================================
