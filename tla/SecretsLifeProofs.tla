-------------------------- MODULE SecretsLifeProofs --------------------------
(***************************************************************************)
(* How long entries live and what receipts say: the theorems behind        *)
(* Mortal, DeliveredMeansMarked, ViewedIsFinal, NoResurrection and         *)
(* AuthorizedRemoval, for any number of requests and any bounds.           *)
(***************************************************************************)
EXTENDS SecretsProofs

(***************************************************************************)
(* The entries under k die in time, and so does a receipt that is written  *)
(* back with what is left of its lifetime.                                 *)
(***************************************************************************)
Lasting(k) ==
  /\ secrets[k].stored => secrets[k].dies \in (now + 1)..(now + asked[k].lifetime)
  /\ receipts[k].stored => /\ Issued(k)
                           /\ receipts[k].dies \in (now + 1)..(now + asked[k].lifetime)
                           /\ receipts[k].expiresAt <= now + asked[k].lifetime

\* Which handler a request is in, and who may take the secret it is about.
Serving(q) ==
  /\ q.pc \in {"claim", "markRead", "markCas", "write"} => q.op = "get"
  /\ q.pc = "remove" => q.op = "delete"
  /\ q.pc = "claim" => asked[q.key].oneTime
  /\ q.pc \in {"claim", "remove"} /\ asked[q.key].requireAuth => q.session = "member"

\* The times it works with come from the lifetime that was asked for.
Timed(q) ==
  /\ q.pc = "putReceipt" => ~receipts[q.key].stored
  /\ q.pc \in {"putReceipt", "markCas"} => q.due <= now + asked[q.key].lifetime
  /\ q.pc = "markCas" => SecondsUntil(q.due, q.at) \in 1..asked[q.key].lifetime

\* Whoever may write the content, or wrote it, has seen to the receipt.
Told(q) ==
  (q.pc = "write" \/ q.resp = "content") /\ ~q.lapse
    => (Loadable(q.key) => receipts[q.key].state = "viewed")

Local(q) == Serving(q) /\ Timed(q) /\ Told(q)

LifeInv == (\A k \in Keys : Lasting(k)) /\ (\A r \in Reqs : Local(req[r]))

------------------------------------------------------------------------------
\* Nothing is stored and nobody works at first.
LEMMA LifeInit == Init => LifeInv
  BY DEF Init, LifeInv, Lasting, Local, Serving, Timed, Told, NoSecret, NoReceipt

\* Whatever is stored is stored under a key that was asked for.
LEMMA StoredIsIssued ==
  ASSUME TypeOK, OpeningInv, NEW k \in Keys, secrets[k].stored
  PROVE  Issued(k)
  BY DEF OpeningInv, IssueInv

\* The key of a request is a key that was asked for.
LEMMA NamedIsIssued ==
  ASSUME OpeningInv, NEW r \in Reqs, req[r].key \in Keys
  PROVE  Issued(req[r].key)
  BY DEF OpeningInv, IssueInv

\* An asked lifetime is positive.
LEMMA IssuedLifetime ==
  ASSUME TypeOK, NEW k \in Keys, Issued(k)
  PROVE  asked[k].lifetime \in Nat \ {0}
  BY LifetimeType DEF TypeOK, Issued, Policy

\* What was asked for a key is not forgotten.
Asking == \A k \in Keys : Issued(k) => asked'[k] = asked[k]

\* Entries that do not change, or disappear, stay as good as they were.
LEMMA LastingStays ==
  ASSUME TypeOK, OpeningInv, Asking, now' = now, NEW k \in Keys, Lasting(k),
         secrets'[k] = secrets[k] \/ secrets'[k] = NoSecret,
         receipts'[k] = receipts[k] \/ receipts'[k] = NoReceipt
  PROVE  Lasting(k)'
<1>1. /\ secrets'[k].stored => secrets'[k] = secrets[k] /\ Issued(k)
      /\ receipts'[k].stored => receipts'[k] = receipts[k] /\ Issued(k)
  BY StoredIsIssued DEF NoSecret, NoReceipt, Lasting
<1> QED
  BY <1>1 DEF Lasting, Asking, Issued

(***************************************************************************)
(* r moves, and touches at most the receipt of its own key: as its         *)
(* creator, whose key nobody else knows, or by marking it.                 *)
(***************************************************************************)
LEMMA LifeFrame ==
  ASSUME TypeOK, OpeningInv, LifeInv, Asking, now' = now,
         NEW r \in Reqs, Frame(r), Local(req[r])',
         \A k \in Keys : Lasting(k)',
         \A k \in Keys : \/ receipts'[k] = receipts[k]
                         \/ /\ k = req[r].key
                            /\ Creating(r) \/ receipts'[k].state = "viewed"
  PROVE  LifeInv'
<1> SUFFICES ASSUME NEW q \in Reqs, q # r PROVE Local(req[q])'
  BY DEF LifeInv
<1>1. req'[q] = req[q] /\ Local(req[q])
  BY DEF Frame, LifeInv
<1> DEFINE k == req[q].key
<1>2. CASE InFlight(q) \/ req[q].resp = "content"
  <2>1. k \in Keys
    BY <1>2 DEF OpeningInv, KeyInv
  <2>2. asked'[k] = asked[k]
    BY <2>1, NamedIsIssued DEF Asking
  <2>3. \/ receipts'[k] = receipts[k]
        \/ receipts'[k].state = "viewed" /\ req[q].pc # "putReceipt"
    BY <2>1 DEF OpeningInv, CreateInv, Creating
  <2>4. Serving(req[q])'
    BY <1>1, <2>2 DEF Local, Serving
  <2>5. Timed(req[q])'
    BY <1>1, <2>2, <2>3 DEF Local, Timed
  <2>6. Told(req[q])'
    BY <1>1, <2>3 DEF Local, Told, Loadable
  <2> QED
    BY <2>4, <2>5, <2>6 DEF Local
<1>3. CASE ~InFlight(q) /\ req[q].resp # "content"
  BY <1>1, <1>3 DEF InFlight, Local, Serving, Timed, Told
<1> QED
  BY <1>2, <1>3

\* r moves, and at most secrets disappear.
LEMMA LifeGoesOn ==
  ASSUME TypeOK, OpeningInv, LifeInv, UNCHANGED <<now, asked, receipts>>, Shrinks,
         NEW r \in Reqs, Frame(r), Local(req[r])'
  PROVE  LifeInv'
<1>1. Asking
  BY DEF Asking
<1>2. \A k \in Keys : Lasting(k)'
  BY <1>1, LastingStays DEF LifeInv, Shrinks
<1> QED
  BY <1>1, <1>2, LifeFrame

\* An answer that carries no content.
LEMMA DoneLocal ==
  ASSUME NEW r \in Reqs, NEW q \in Request, NEW a, a # "content",
         req'[r] = Done(q, a)
  PROVE  Local(req[r])'
<1>1. req'[r].pc = "done" /\ req'[r].resp # "content"
  BY DoneFields
<1> QED
  BY <1>1 DEF Local, Serving, Timed, Told

\* r is answered without content, and at most secrets disappear.
LEMMA LifeEnds ==
  ASSUME TypeOK, OpeningInv, LifeInv, UNCHANGED <<now, asked, receipts>>, Shrinks,
         NEW r \in Reqs, Frame(r), NEW q \in Request, NEW a, a # "content",
         req'[r] = Done(q, a)
  PROVE  LifeInv'
<1>1. Local(req[r])'
  BY DoneLocal
<1> QED
  BY <1>1, LifeGoesOn

------------------------------------------------------------------------------
\* A create is refused, or starts with the lifetime that was asked for.
LEMMA CreateLives ==
  ASSUME TypeOK, OpeningInv, LifeInv, NEW r \in Reqs,
         \/ \E p \in AskedPolicies : RejectCreate(r, p)
         \/ \E p \in AskedPolicies, k \in Keys : StartCreate(r, p, k)
  PROVE  LifeInv'
<1>1. CASE \E p \in AskedPolicies : RejectCreate(r, p)
  <2>1. /\ Frame(r) /\ UNCHANGED <<now, asked, secrets, receipts>>
        /\ req'[r] = Done([req[r] EXCEPT !.op = "create"], "400")
        /\ [req[r] EXCEPT !.op = "create"] \in Request
    BY <1>1 DEF RejectCreate, Frame, TypeOK, Request
  <2> QED
    BY <2>1, LifeEnds DEF Shrinks
<1>2. CASE \E p \in AskedPolicies, k \in Keys : StartCreate(r, p, k)
  <2>1. PICK p \in AskedPolicies, k \in Keys : StartCreate(r, p, k)
    BY <1>2
  <2> DEFINE pc == IF p.receipt THEN "putReceipt" ELSE "putSecret"
             due == IF p.receipt THEN now + p.lifetime ELSE 0
  <2>2. /\ Frame(r) /\ UNCHANGED <<now, secrets, receipts>> /\ ~Issued(k)
        /\ asked' = [asked EXCEPT ![k] = p]
        /\ req'[r] = [req[r] EXCEPT !.pc = pc, !.op = "create", !.key = k, !.due = due]
    BY <2>1 DEF StartCreate, Frame, TypeOK
  <2>3. p.lifetime \in Nat /\ now \in Nat
    BY <2>1, AcceptedType, LifetimeType DEF StartCreate, Policy, TypeOK
  <2>4. /\ req'[r].pc = pc /\ req'[r].key = k /\ req'[r].due = due
        /\ req'[r].resp = "none"
    <3>1. req[r] \in Request /\ req[r].resp = "none"
      BY <2>1 DEF StartCreate, At, TypeOK, OpeningInv, FreshInv
    <3> HIDE DEF pc, due
    <3> QED
      BY <2>2, <3>1 DEF Request
  <2>5. ~secrets[k].stored /\ ~receipts[k].stored
    BY <2>2 DEF OpeningInv, IssueInv, LifeInv, Lasting
  <2>6. Asking /\ asked'[k] = p
    BY <2>2 DEF Asking, TypeOK
  <2>7. ASSUME NEW j \in Keys PROVE Lasting(j)'
    <3>1. CASE j = k
      BY <2>2, <2>5, <3>1 DEF Lasting
    <3>2. CASE j # k
      BY <2>2, <3>2 DEF LifeInv, Lasting, Issued, TypeOK
    <3> QED
      BY <3>1, <3>2
  <2>8. Local(req[r])'
    <3>1. due <= now + p.lifetime
      BY <2>3
    <3> QED
      BY <2>2, <2>4, <2>5, <2>6, <3>1 DEF Local, Serving, Timed, Told
  <2> QED
    BY <2>2, <2>6, <2>7, <2>8, LifeFrame
<1> QED
  BY <1>1, <1>2

\* Only an authorized request goes on to take a secret, and only a one-time
\* secret is claimed.
LEMMA AccessLives ==
  ASSUME TypeOK, OpeningInv, LifeInv, NEW r \in Reqs,
         \/ \E k \in Keys, op \in {"get", "delete", "status"}, s \in Sessions :
              StartAccess(r, op, k, s)
         \/ \E k \in Keys, valid \in BOOLEAN : CheckReceipt(r, k, valid)
  PROVE  LifeInv'
<1>1. CASE \E k \in Keys, op \in {"get", "delete", "status"}, s \in Sessions :
             StartAccess(r, op, k, s)
  <2>1. PICK k \in Keys, op \in {"get", "delete", "status"}, s \in Sessions :
               StartAccess(r, op, k, s)
    BY <1>1
  <2> DEFINE q == [req[r] EXCEPT !.op = op, !.key = k, !.session = s]
  <2>2. /\ q \in Request /\ q.resp = "none"
        /\ q.op = op /\ q.key = k /\ q.session = s
    BY <2>1 DEF StartAccess, At, TypeOK, Request, OpeningInv, FreshInv
  <2>3. Frame(r) /\ UNCHANGED <<now, asked, secrets, receipts>>
    BY <2>1 DEF StartAccess, Frame, TypeOK
  <2>4. \/ \E a \in {"404", "status", "401", "403"} : req'[r] = Done(q, a)
        \/ /\ secrets[k].stored /\ Authorized(secrets[k], s)
           /\ \/ op = "delete" /\ req'[r] = [q EXCEPT !.pc = "remove"]
              \/ /\ op = "get" /\ secrets[k].oneTime
                 /\ req'[r] = [q EXCEPT !.pc = "claim"]
              \/ op = "get" /\ req'[r] = [q EXCEPT !.pc = "markRead", !.took = TRUE]
    BY <2>1 DEF StartAccess, AfterStatus, Refusal, TypeOK
  <2> HIDE DEF q
  <2>5. CASE \E a \in {"404", "status", "401", "403"} : req'[r] = Done(q, a)
    BY <2>2, <2>3, <2>5, LifeEnds DEF Shrinks
  <2>6. CASE /\ secrets[k].stored /\ Authorized(secrets[k], s)
             /\ \/ op = "delete" /\ req'[r] = [q EXCEPT !.pc = "remove"]
                \/ /\ op = "get" /\ secrets[k].oneTime
                   /\ req'[r] = [q EXCEPT !.pc = "claim"]
                \/ op = "get" /\ req'[r] = [q EXCEPT !.pc = "markRead", !.took = TRUE]
    <3>1. /\ req'[r].key = k /\ req'[r].op = op /\ req'[r].session = s
          /\ req'[r].resp = "none"
          /\ \/ op = "delete" /\ req'[r].pc = "remove"
             \/ op = "get" /\ secrets[k].oneTime /\ req'[r].pc = "claim"
             \/ op = "get" /\ req'[r].pc = "markRead"
      <4>1. CASE op = "delete" /\ req'[r] = [q EXCEPT !.pc = "remove"]
        BY <2>2, <4>1 DEF Request
      <4>2. CASE op = "get" /\ secrets[k].oneTime /\ req'[r] = [q EXCEPT !.pc = "claim"]
        BY <2>2, <4>2 DEF Request
      <4>3. CASE op = "get" /\ req'[r] = [q EXCEPT !.pc = "markRead", !.took = TRUE]
        BY <2>2, <4>3 DEF Request
      <4> QED
        BY <2>6, <4>1, <4>2, <4>3
    <3>2. /\ asked[k].requireAuth => s = "member"
          /\ secrets[k].oneTime => asked[k].oneTime
      BY <2>6 DEF Authorized, OpeningInv, CopyInv
    <3>3. Local(req[r])'
      BY <2>3, <3>1, <3>2 DEF Local, Serving, Timed, Told
    <3> QED
      BY <2>3, <3>3, LifeGoesOn DEF Shrinks
  <2> QED
    BY <2>4, <2>5, <2>6
<1>2. CASE \E k \in Keys, valid \in BOOLEAN : CheckReceipt(r, k, valid)
  <2>1. PICK k \in Keys, valid \in BOOLEAN : CheckReceipt(r, k, valid)
    BY <1>2
  <2>2. [req[r] EXCEPT !.op = "check", !.key = k] \in Request
    BY DEF TypeOK, Request
  <2>3. \E a \in {"404", "401", "pending", "viewed"} :
          req'[r] = Done([req[r] EXCEPT !.op = "check", !.key = k], a)
    BY <2>1 DEF CheckReceipt, TypeOK, Receipt
  <2>4. Frame(r) /\ UNCHANGED <<now, asked, secrets, receipts>>
    BY <2>1 DEF CheckReceipt, Frame, TypeOK
  <2> QED
    BY <2>2, <2>3, <2>4, LifeEnds DEF Shrinks
<1> QED
  BY <1>1, <1>2

\* A claim or a deletion removes the secret, and r goes on or is answered.
LEMMA TakeLives ==
  ASSUME TypeOK, OpeningInv, LifeInv, NEW r \in Reqs, Claim(r) \/ Remove(r)
  PROVE  LifeInv'
<1> DEFINE q == [req[r] EXCEPT !.took = TRUE]
           next == [req[r] EXCEPT !.pc = "markRead", !.took = TRUE]
<1>1. /\ Frame(r) /\ UNCHANGED <<now, asked, receipts>> /\ Shrinks
      /\ req[r] \in Request /\ q \in Request
  <2>1. PICK x : DeleteKey(r, x)
    BY DEF Claim, Remove
  <2>2. UNCHANGED <<now, asked, receipts>> /\ Frame(r)
    BY <2>1 DEF DeleteKey, Frame, TypeOK
  <2>3. Shrinks
    BY <2>1 DEF DeleteKey, Shrinks, TypeOK
  <2>4. req[r] \in Request /\ q \in Request
    BY DEF TypeOK, Request
  <2> QED
    BY <2>2, <2>3, <2>4
<1>2. \/ req'[r] \in {Done(req[r], "500"), Done(req[r], "404"), Done(q, "gone204")}
      \/ At(r, "claim") /\ req'[r] = next
  <2> HIDE DEF q, next
  <2>1. CASE Claim(r)
    <3>1. DeleteKey(r, next) /\ At(r, "claim")
      BY <2>1 DEF Claim, next
    <3> QED
      BY <3>1 DEF DeleteKey, TypeOK
  <2>2. CASE Remove(r)
    <3>1. DeleteKey(r, Done(q, "gone204"))
      BY <2>2 DEF Remove, q
    <3> QED
      BY <3>1 DEF DeleteKey, TypeOK
  <2> QED
    BY <2>1, <2>2
<1>3. CASE req'[r] \in {Done(req[r], "500"), Done(req[r], "404"), Done(q, "gone204")}
  <2> HIDE DEF q
  <2> QED
    BY <1>1, <1>3, LifeEnds
<1>4. CASE At(r, "claim") /\ req'[r] = next
  <2>1. /\ req'[r].pc = "markRead" /\ req'[r].op = "get" /\ req'[r].resp = "none"
    BY <1>1, <1>4 DEF Request, At, LifeInv, Local, Serving, OpeningInv, FreshInv
  <2>2. Local(req[r])'
    BY <2>1 DEF Local, Serving, Timed, Told
  <2> QED
    BY <1>1, <2>2, LifeGoesOn
<1> QED
  BY <1>2, <1>3, <1>4

\* The receipt is stored, if it is, for the lifetime asked for, which has
\* not been running for longer than the create.
LEMMA PutReceiptLives ==
  ASSUME TypeOK, OpeningInv, LifeInv, NEW r \in Reqs, PutReceipt(r)
  PROVE  LifeInv'
<1>0. PICK k \in Keys : k = req[r].key
  BY DEF PutReceipt, At, OpeningInv, KeyInv, InFlight
<1>1. Creating(r) /\ Issued(k) /\ At(r, "putReceipt") /\ req[r] \in Request
  BY <1>0, NamedIsIssued DEF PutReceipt, At, Creating, TypeOK
<1>2. /\ Frame(r) /\ UNCHANGED <<now, asked, secrets>> /\ Asking
  BY DEF PutReceipt, Goto, Answer, Frame, Asking, TypeOK
<1>3. \/ req'[r] = Done(req[r], "500")
      \/ req'[r] = [req[r] EXCEPT !.pc = "putSecret"]
  BY DEF PutReceipt, Goto, Answer, TypeOK
<1>4. Local(req[r])'
  <2>1. CASE req'[r] = Done(req[r], "500")
    BY <1>1, <2>1, DoneLocal
  <2>2. CASE req'[r] = [req[r] EXCEPT !.pc = "putSecret"]
    <3>1. req'[r].pc = "putSecret" /\ req'[r].resp = "none"
      BY <1>1, <2>2 DEF Request, OpeningInv, FreshInv, At
    <3> QED
      BY <3>1 DEF Local, Serving, Timed, Told
  <2> QED
    BY <1>3, <2>1, <2>2
<1>5. \A j \in Keys : \/ receipts'[j] = receipts[j]
                      \/ j = k /\ receipts'[j] = PendingReceipt(k, req[r].due)
  <2>1. \/ receipts' = receipts
        \/ receipts' = [receipts EXCEPT ![k] = PendingReceipt(k, req[r].due)]
    BY <1>0 DEF PutReceipt
  <2>2. receipts \in [Keys -> Receipt]
    BY DEF TypeOK
  <2> QED
    BY <2>1, <2>2
<1>6. ASSUME NEW j \in Keys PROVE Lasting(j)'
  <2>1. CASE receipts'[j] = receipts[j]
    BY <1>2, <2>1, LastingStays DEF LifeInv
  <2>2. CASE j = k /\ receipts'[j] = PendingReceipt(k, req[r].due)
    <3>1. now \in Nat /\ asked[k].lifetime \in Nat \ {0} /\ ~secrets[k].stored
      BY <1>0, <1>1, IssuedLifetime DEF TypeOK, OpeningInv, CreateInv
    <3>2. req[r].due <= now + asked[k].lifetime
      BY <1>0, <1>1 DEF LifeInv, Local, Timed, At
    <3>3. receipts'[k].dies = now + asked[k].lifetime /\ receipts'[k].expiresAt = req[r].due
      BY <2>2, <3>1 DEF PendingReceipt, DiesAt
    <3>4. /\ secrets'[k] = secrets[k] /\ asked'[k] = asked[k] /\ now' = now
          /\ Issued(k)'
      BY <1>1, <1>2 DEF Issued
    <3> QED
      BY <2>2, <3>1, <3>2, <3>3, <3>4 DEF Lasting
  <2> QED
    BY <1>5, <2>1, <2>2
<1> QED
  BY <1>0, <1>1, <1>2, <1>4, <1>5, <1>6, LifeFrame

\* The secret is stored, if it is, for the lifetime asked for.
LEMMA PutSecretLives ==
  ASSUME TypeOK, OpeningInv, LifeInv, NEW r \in Reqs, PutSecret(r)
  PROVE  LifeInv'
<1>0. PICK k \in Keys : k = req[r].key
  BY DEF PutSecret, At, OpeningInv, KeyInv, InFlight
<1>1. Issued(k) /\ req[r] \in Request
  BY <1>0, NamedIsIssued DEF TypeOK
<1>2. /\ Frame(r) /\ UNCHANGED <<now, asked, receipts>> /\ Asking
  BY DEF PutSecret, Answer, Frame, Asking, TypeOK
<1>3. req'[r] = Done(req[r], "500") \/ req'[r] = Done(req[r], "created")
  BY DEF PutSecret, Answer, TypeOK
<1>4. Local(req[r])'
  BY <1>1, <1>3, DoneLocal
<1>5. ASSUME NEW j \in Keys PROVE Lasting(j)'
  <2>1. now \in Nat /\ asked[k].lifetime \in Nat \ {0}
    BY <1>1, IssuedLifetime DEF TypeOK
  <2>2. \/ secrets'[j] = secrets[j]
        \/ j = k /\ secrets'[j].dies = now + asked[k].lifetime
    BY <1>0, <2>1 DEF PutSecret, DiesAt, TypeOK
  <2>3. CASE secrets'[j] = secrets[j]
    BY <1>2, <2>3, LastingStays DEF LifeInv
  <2>4. CASE j = k /\ secrets'[j].dies = now + asked[k].lifetime
    BY <1>1, <1>2, <2>1, <2>4 DEF LifeInv, Lasting, Issued
  <2> QED
    BY <2>2, <2>3, <2>4
<1> QED
  BY <1>2, <1>4, <1>5, LifeFrame

(***************************************************************************)
(* An Update reads a receipt with some of its lifetime left, and writes it *)
(* back for no more than that, viewed.  r goes on to the content knowing   *)
(* that it is, or that there is nothing to load.                           *)
(***************************************************************************)
LEMMA MarkReadLives ==
  ASSUME TypeOK, OpeningInv, LifeInv, NEW r \in Reqs, MarkRead(r)
  PROVE  LifeInv'
<1> DEFINE k == req[r].key
           rec == receipts[k]
<1>1. /\ k \in Keys /\ req[r] \in Request /\ rec \in Receipt /\ now \in Nat
      /\ req[r].pc = "markRead" /\ req[r].op = "get" /\ req[r].resp = "none"
  BY DEF MarkRead, At, OpeningInv, KeyInv, FreshInv, InFlight, TypeOK, LifeInv, Local,
         Serving
<1>2. /\ Frame(r) /\ UNCHANGED <<now, asked, secrets, receipts>>
  BY DEF MarkRead, Frame, TypeOK
<1>3. \/ req'[r] = [req[r] EXCEPT !.pc = "write", !.lapse = TRUE]
      \/ /\ ~rec.stored \/ NothingToMark(rec)
         /\ req'[r] = [req[r] EXCEPT !.pc = "write"]
      \/ /\ rec.stored /\ ~NothingToMark(rec)
         /\ req'[r] = [req[r] EXCEPT !.pc = "markCas", !.ver = rec.ver,
                                     !.due = rec.expiresAt, !.at = now]
  BY DEF MarkRead, TypeOK
<1> HIDE DEF rec
<1>4. CASE req'[r] = [req[r] EXCEPT !.pc = "write", !.lapse = TRUE]
  <2>1. /\ req'[r].pc = "write" /\ req'[r].op = "get" /\ req'[r].lapse
    BY <1>1, <1>4 DEF Request
  <2> QED
    BY <1>2, <2>1, LifeGoesOn DEF Local, Serving, Timed, Told, Shrinks
<1>5. CASE /\ ~rec.stored \/ NothingToMark(rec)
           /\ req'[r] = [req[r] EXCEPT !.pc = "write"]
  <2>1. /\ req'[r].pc = "write" /\ req'[r].op = "get" /\ req'[r].key = k
    BY <1>1, <1>5 DEF Request
  <2>2. Loadable(k) => receipts[k].state = "viewed"
    BY <1>5 DEF Loadable, NothingToMark, rec
  <2>3. Told(req[r])'
    BY <1>2, <2>1, <2>2 DEF Told, Loadable
  <2> QED
    BY <1>2, <2>1, <2>3, LifeGoesOn DEF Local, Serving, Timed, Shrinks
<1>6. CASE /\ rec.stored /\ ~NothingToMark(rec)
           /\ req'[r] = [req[r] EXCEPT !.pc = "markCas", !.ver = rec.ver,
                                       !.due = rec.expiresAt, !.at = now]
  <2>1. /\ req'[r].pc = "markCas" /\ req'[r].op = "get" /\ req'[r].key = k
        /\ req'[r].resp = "none" /\ req'[r].due = rec.expiresAt /\ req'[r].at = now
    BY <1>1, <1>6 DEF Request
  <2>2. rec.expiresAt <= now + asked[k].lifetime /\ rec.expiresAt \in Nat
    BY <1>1, <1>6 DEF LifeInv, Lasting, rec, Receipt
  <2>3. asked[k].lifetime \in Nat
    BY <1>1, NamedIsIssued, IssuedLifetime
  <2>4. SecondsUntil(rec.expiresAt, now) \in 1..asked[k].lifetime
    BY <1>1, <1>6, <2>2, <2>3 DEF NothingToMark, SecondsUntil
  <2>5. Timed(req[r])'
    BY <1>2, <2>1, <2>2, <2>4 DEF Timed
  <2> QED
    BY <1>2, <2>1, <2>5, LifeGoesOn DEF Local, Serving, Told, Shrinks
<1> QED
  BY <1>3, <1>4, <1>5, <1>6

\* The receipt is written back with what was left of its lifetime.
LEMMA MarkSwapLives ==
  ASSUME TypeOK, OpeningInv, LifeInv, NEW r \in Reqs, MarkSwap(r)
  PROVE  LifeInv'
<1> DEFINE q == req[r]
<1>0. PICK k \in Keys : k = q.key
  BY DEF MarkSwap, At, OpeningInv, KeyInv, InFlight
<1>1. /\ q \in Request /\ now \in Nat /\ Issued(k)
      /\ q.pc = "markCas" /\ q.op = "get" /\ Timed(q)
  BY <1>0, NamedIsIssued DEF MarkSwap, At, TypeOK, LifeInv, Local, Serving
<1>2. /\ Frame(r) /\ UNCHANGED <<now, asked, secrets>> /\ Asking
  BY DEF MarkSwap, Frame, Asking, TypeOK
<1>3. PICK call \in WriteCalls :
        /\ receipts' = IF Applied(call) THEN [receipts EXCEPT ![k] = ViewedReceipt(q)]
                       ELSE receipts
        /\ req'[r] = [q EXCEPT !.pc = "write", !.lapse = Errs(call)]
  BY <1>0 DEF MarkSwap, TypeOK
<1>4. \A j \in Keys : \/ receipts'[j] = receipts[j]
                      \/ j = k /\ receipts'[j] = ViewedReceipt(q)
  <2>1. receipts' = receipts \/ receipts' = [receipts EXCEPT ![k] = ViewedReceipt(q)]
    BY <1>3
  <2>2. receipts \in [Keys -> Receipt]
    BY DEF TypeOK
  <2> HIDE DEF q
  <2> QED
    BY <2>1, <2>2
<1>5. ViewedReceipt(q).state = "viewed"
  BY DEF ViewedReceipt
<1>6. Local(req[r])'
  <2>1. /\ req'[r].pc = "write" /\ req'[r].op = "get" /\ req'[r].key = k
        /\ req'[r].lapse = Errs(call)
    BY <1>0, <1>1, <1>3 DEF Request
  <2>2. ~Errs(call) => receipts'[k] = ViewedReceipt(q)
    BY <1>3 DEF Errs, Applied, TypeOK
  <2> QED
    BY <1>5, <2>1, <2>2 DEF Local, Serving, Timed, Told
<1>7. ASSUME NEW j \in Keys PROVE Lasting(j)'
  <2>1. CASE receipts'[j] = receipts[j]
    BY <1>2, <2>1, LastingStays DEF LifeInv
  <2>2. CASE j = k /\ receipts'[j] = ViewedReceipt(q)
    <3>1. /\ SecondsUntil(q.due, q.at) \in 1..asked[k].lifetime
          /\ q.due <= now + asked[k].lifetime
      BY <1>0, <1>1 DEF Timed
    <3>2. asked[k].lifetime \in Nat
      BY <1>1, IssuedLifetime
    <3>3. /\ ViewedReceipt(q).dies = now + SecondsUntil(q.due, q.at)
          /\ ViewedReceipt(q).expiresAt = q.due
      BY <3>1, <3>2 DEF ViewedReceipt, DiesAt
    <3>4. /\ secrets'[k] = secrets[k] /\ asked'[k] = asked[k] /\ now' = now
          /\ Issued(k)' /\ Lasting(k)
      BY <1>1, <1>2 DEF Issued, LifeInv
    <3> QED
      BY <1>1, <2>2, <3>1, <3>2, <3>3, <3>4 DEF Lasting
  <2> QED
    BY <1>4, <2>1, <2>2
<1> QED
  BY <1>0, <1>2, <1>4, <1>5, <1>6, <1>7, LifeFrame

\* The receipt is gone, or the race for it lost, and perhaps given up.
LEMMA MarkEndLives ==
  ASSUME TypeOK, OpeningInv, LifeInv, NEW r \in Reqs, MarkMissing(r) \/ MarkConflict(r)
  PROVE  LifeInv'
<1> DEFINE k == req[r].key
<1>1. /\ req[r] \in Request /\ k \in Keys
      /\ req[r].pc = "markCas" /\ req[r].op = "get" /\ req[r].resp = "none"
  BY DEF MarkMissing, MarkConflict, At, OpeningInv, KeyInv, FreshInv, InFlight, TypeOK,
         LifeInv, Local, Serving
<1>2. /\ Frame(r) /\ UNCHANGED <<now, asked, secrets, receipts>> /\ Shrinks
  BY DEF MarkMissing, MarkConflict, Goto, Frame, TypeOK, Shrinks
<1>3. /\ req'[r].op = "get" /\ req'[r].key = k /\ req'[r].resp = "none"
      /\ \/ req'[r].pc = "write" /\ ~receipts[k].stored
         \/ req'[r].pc = "markRead"
         \/ req'[r].pc = "write" /\ req'[r].lapse
  <2>1. CASE MarkMissing(r)
    <3>1. req'[r] = [req[r] EXCEPT !.pc = "write"] /\ ~receipts[k].stored
      BY <2>1 DEF MarkMissing, Goto, TypeOK
    <3> QED
      BY <1>1, <3>1 DEF Request
  <2>2. CASE MarkConflict(r)
    <3>1. \E n : \/ req'[r] = [req[r] EXCEPT !.pc = "markRead", !.tries = n]
                 \/ req'[r] = [req[r] EXCEPT !.pc = "write", !.tries = n, !.lapse = TRUE]
      BY <2>2 DEF MarkConflict, TypeOK
    <3> QED
      BY <1>1, <3>1 DEF Request
  <2> QED
    BY <2>1, <2>2
<1>4. Local(req[r])'
  BY <1>2, <1>3 DEF Local, Serving, Timed, Told, Loadable
<1> QED
  BY <1>2, <1>4, LifeGoesOn

\* The content is written by a request that has seen to the receipt.
LEMMA WriteLives ==
  ASSUME TypeOK, OpeningInv, LifeInv, NEW r \in Reqs, Write(r) \/ Crash(r)
  PROVE  LifeInv'
<1>1. /\ Frame(r) /\ UNCHANGED <<now, asked, secrets, receipts>> /\ Shrinks
      /\ req[r] \in Request /\ Local(req[r])
  BY DEF Write, Crash, Answer, Frame, TypeOK, Shrinks, LifeInv
<1>2. CASE Crash(r)
  BY <1>1, <1>2, LifeEnds DEF Crash, Answer, TypeOK
<1>3. CASE Write(r)
  <2>1. req'[r] = Done(req[r], "content") /\ req[r].pc = "write"
    BY <1>3 DEF Write, At, Answer, TypeOK
  <2>2. /\ req'[r].pc = "done" /\ req'[r].key = req[r].key
        /\ req'[r].lapse = req[r].lapse
    BY <1>1, <2>1, DoneFields
  <2>3. Told(req[r])'
    BY <1>1, <2>1, <2>2 DEF Local, Told, Loadable
  <2>4. Local(req[r])'
    BY <2>2, <2>3 DEF Local, Serving, Timed
  <2> QED
    BY <1>1, <2>4, LifeGoesOn
<1> QED
  BY <1>2, <1>3

------------------------------------------------------------------------------
\* Time, evictions and the license only make entries disappear.
LEMMA EntriesFade ==
  ASSUME TypeOK, OpeningInv, LifeInv, UNCHANGED <<asked, req>>,
         now' \in {now, now + 1},
         \A k \in Keys : Lasting(k)',
         \A k \in Keys : receipts'[k] = receipts[k] \/ receipts'[k] = NoReceipt
  PROVE  LifeInv'
<1> SUFFICES ASSUME NEW q \in Reqs PROVE Local(req[q])'
  BY DEF LifeInv
<1> DEFINE k == req[q].key
<1>1. req'[q] = req[q] /\ Local(req[q]) /\ now \in Nat /\ req[q] \in Request
  BY DEF LifeInv, TypeOK
<1>2. CASE InFlight(q) \/ req[q].resp = "content"
  <2>1. k \in Keys /\ asked[k].lifetime \in Nat
    BY <1>2, NamedIsIssued, IssuedLifetime DEF OpeningInv, KeyInv
  <2>2. Timed(req[q])'
    <3>1. ~receipts[k].stored => ~receipts'[k].stored
      BY <2>1 DEF NoReceipt
    <3>2. req[q].due <= now + asked[k].lifetime => req[q].due <= now' + asked[k].lifetime
      BY <1>1, <2>1 DEF Request
    <3> QED
      BY <1>1, <3>1, <3>2 DEF Local, Timed
  <2>3. Loadable(k)' => Loadable(k) /\ receipts'[k] = receipts[k]
    <3>1. receipts[k].expiresAt \in Nat
      BY <2>1 DEF TypeOK, Receipt
    <3> QED
      BY <1>1, <2>1, <3>1 DEF Loadable, SecondsUntil, NoReceipt
  <2>4. Told(req[q])'
    BY <1>1, <2>3 DEF Local, Told
  <2> QED
    BY <1>1, <2>2, <2>4 DEF Local, Serving
<1>3. CASE ~InFlight(q) /\ req[q].resp # "content"
  BY <1>1, <1>3 DEF InFlight, Local, Serving, Timed, Told
<1> QED
  BY <1>2, <1>3

\* Whatever the database still has after a second has time left.
LEMMA TickLives ==
  ASSUME TypeOK, OpeningInv, LifeInv, Tick
  PROVE  LifeInv'
<1>1. /\ now \in Nat /\ now' = now + 1 /\ UNCHANGED <<asked, req>>
      /\ secrets \in [Keys -> Secret] /\ receipts \in [Keys -> Receipt]
  BY DEF Tick, TypeOK
<1>2. ASSUME NEW k \in Keys PROVE Lasting(k)'
  <2>1. /\ secrets'[k] = IF Expired(secrets[k].dies, now + 1) THEN NoSecret ELSE secrets[k]
        /\ receipts'[k] = IF Expired(receipts[k].dies, now + 1) THEN NoReceipt ELSE receipts[k]
        /\ Lasting(k)
    BY DEF Tick, LifeInv
  <2>2. Issued(k) => asked[k].lifetime \in Nat
    BY IssuedLifetime
  <2>3. secrets'[k].stored => secrets'[k].dies \in (now' + 1)..(now' + asked'[k].lifetime)
    <3>1. CASE secrets'[k].stored
      <4>1. secrets'[k] = secrets[k] /\ ~Expired(secrets[k].dies, now + 1)
        BY <2>1, <3>1 DEF NoSecret
      <4>2. asked[k].lifetime \in Nat
        BY <2>2, <3>1, <4>1, StoredIsIssued
      <4> QED
        BY <1>1, <2>1, <3>1, <4>1, <4>2 DEF Lasting, Expired, Never
    <3> QED
      BY <3>1
  <2>4. receipts'[k].stored =>
          /\ Issued(k)'
          /\ receipts'[k].dies \in (now' + 1)..(now' + asked'[k].lifetime)
          /\ receipts'[k].expiresAt <= now' + asked'[k].lifetime
    <3>1. CASE receipts'[k].stored
      <4>1. receipts'[k] = receipts[k] /\ ~Expired(receipts[k].dies, now + 1)
        BY <2>1, <3>1 DEF NoReceipt
      <4>2. /\ Issued(k) /\ asked[k].lifetime \in Nat
            /\ receipts[k].dies \in (now + 1)..(now + asked[k].lifetime)
            /\ receipts[k].expiresAt <= now + asked[k].lifetime
            /\ receipts[k].expiresAt \in Nat
        BY <1>1, <2>1, <2>2, <3>1, <4>1 DEF Lasting, Receipt
      <4>3. receipts[k].dies \in (now + 2)..(now + 1 + asked[k].lifetime)
        BY <1>1, <4>1, <4>2 DEF Expired, Never
      <4> QED
        BY <1>1, <4>1, <4>2, <4>3 DEF Issued
    <3> QED
      BY <3>1
  <2> QED
    BY <2>3, <2>4 DEF Lasting
<1>3. \A k \in Keys : receipts'[k] = receipts[k] \/ receipts'[k] = NoReceipt
  BY DEF Tick
<1> QED
  BY <1>1, <1>2, <1>3, EntriesFade

\* An eviction, the end of the license, and nothing at all.
LEMMA AroundLives ==
  ASSUME TypeOK, OpeningInv, LifeInv,
         \/ \E k \in Keys : EvictSecret(k) \/ EvictReceipt(k)
         \/ LicenseExpires \/ UNCHANGED vars
  PROVE  LifeInv'
<1>1. /\ UNCHANGED <<now, asked, req>>
      /\ \A k \in Keys : secrets'[k] = secrets[k] \/ secrets'[k] = NoSecret
      /\ \A k \in Keys : receipts'[k] = receipts[k] \/ receipts'[k] = NoReceipt
  BY DEF EvictSecret, EvictReceipt, LicenseExpires, vars, TypeOK
<1>2. \A k \in Keys : Lasting(k)'
  BY <1>1, LastingStays DEF LifeInv, Asking
<1> QED
  BY <1>1, <1>2, EntriesFade

\* Every step keeps what LifeInv says of entries and requests.
LEMMA LifeStep == TypeOK /\ OpeningInv /\ LifeInv /\ [Next]_vars => LifeInv'
<1> SUFFICES ASSUME TypeOK, OpeningInv, LifeInv, [Next]_vars PROVE LifeInv'
  OBVIOUS
<1>1. ASSUME NEW r \in Reqs, Arrive(r) PROVE LifeInv'
  BY <1>1, CreateLives, AccessLives DEF Arrive
<1>2. ASSUME NEW r \in Reqs, Handle(r) PROVE LifeInv'
  BY <1>2, PutReceiptLives, PutSecretLives, TakeLives, MarkReadLives, MarkSwapLives,
     MarkEndLives, WriteLives DEF Handle
<1>3. ASSUME NEW r \in Reqs, Crash(r) PROVE LifeInv'
  BY <1>3, WriteLives
<1>4. CASE \/ \E k \in Keys : EvictSecret(k) \/ EvictReceipt(k)
           \/ LicenseExpires \/ UNCHANGED vars
  BY <1>4, AroundLives
<1>5. CASE Tick
  BY <1>5, TickLives
<1> QED
  BY <1>1, <1>2, <1>3, <1>4, <1>5 DEF Next, Quiet

\* The invariants of all three modules, together.
LEMMA SecretsLife == Spec => [](TypeOK /\ OpeningInv /\ RaceInv /\ LifeInv)
<1>1. Init => RaceInv /\ LifeInv
  BY RaceInit, LifeInit
<1>2. TypeOK /\ OpeningInv /\ RaceInv /\ LifeInv /\ [Next]_vars => RaceInv' /\ LifeInv'
  BY RaceStep, LifeStep
<1> QED
  BY <1>1, <1>2, SecretsInvariant, PTL DEF Spec

------------------------------------------------------------------------------
\* Nothing is stored for ever, and nothing for longer than was asked, counted
\* from now (checkCreationPolicy, markReceiptViewed).
THEOREM SecretsMortal == Spec => []Mortal
<1>1. LifeInv => Mortal
  BY DEF LifeInv, Lasting, Mortal
<1> QED
  BY <1>1, SecretsLife, PTL

\* Whoever was served finds the receipt viewed, unless the update of that
\* request itself ended in an error (getSecret marks before it writes).
THEOREM SecretsDeliveredMeansMarked == Spec => []DeliveredMeansMarked
<1>1. LifeInv => DeliveredMeansMarked
  BY DEF LifeInv, Local, Told, DeliveredMeansMarked
<1> QED
  BY <1>1, SecretsLife, PTL

------------------------------------------------------------------------------
\* A receipt changes when it is stored, when it is marked and when it goes.
LEMMA ReceiptChanges ==
  ASSUME TypeOK, [Next]_vars, NEW k \in Keys
  PROVE  \/ receipts'[k] = receipts[k] \/ receipts'[k] = NoReceipt
         \/ \E r \in Reqs : req[r].key = k /\ (At(r, "putReceipt") \/ MarkSwap(r))
<1>1. ASSUME NEW r \in Reqs, Arrive(r) PROVE UNCHANGED receipts
  BY <1>1 DEF Arrive, RejectCreate, StartCreate, StartAccess, CheckReceipt
<1>2. ASSUME NEW r \in Reqs, Handle(r), ~PutReceipt(r), ~MarkSwap(r)
      PROVE  UNCHANGED receipts
  BY <1>2 DEF Handle, PutSecret, Claim, Remove, DeleteKey, MarkRead, MarkMissing,
              MarkConflict, Write
<1>3. ASSUME NEW r \in Reqs, PutReceipt(r) \/ MarkSwap(r)
      PROVE  receipts'[k] = receipts[k] \/ (req[r].key = k /\ (At(r, "putReceipt") \/ MarkSwap(r)))
  <2>1. PICK v : receipts' = receipts \/ receipts' = [receipts EXCEPT ![req[r].key] = v]
    BY <1>3 DEF PutReceipt, MarkSwap
  <2>2. receipts'[k] = receipts[k] \/ req[r].key = k
    BY <2>1 DEF TypeOK
  <2> QED
    BY <1>3, <2>2 DEF PutReceipt
<1>4. CASE \/ \E r \in Reqs : Crash(r)
           \/ \E j \in Keys : EvictSecret(j) \/ EvictReceipt(j)
           \/ Tick \/ LicenseExpires \/ UNCHANGED vars
  BY <1>4 DEF Crash, EvictSecret, EvictReceipt, Tick, LicenseExpires, vars, TypeOK
<1> QED
  BY <1>1, <1>2, <1>3, <1>4 DEF Next, Quiet

\* A secret changes when it is stored, when it is taken and when it goes by
\* itself.
LEMMA SecretChanges ==
  ASSUME TypeOK, [Next]_vars, NEW k \in Keys
  PROVE  \/ secrets'[k] = secrets[k]
         \/ \E r \in Reqs : req[r].key = k /\ At(r, "putSecret")
         \/ /\ secrets'[k] = NoSecret
            /\ \/ now' # now \/ req' = req
               \/ \E r \in Reqs : req[r].key = k /\ (Claim(r) \/ Remove(r))
<1>1. ASSUME NEW r \in Reqs, Arrive(r) PROVE UNCHANGED secrets
  BY <1>1 DEF Arrive, RejectCreate, StartCreate, StartAccess, CheckReceipt
<1>2. ASSUME NEW r \in Reqs, Handle(r), ~PutSecret(r), ~Claim(r), ~Remove(r)
      PROVE  UNCHANGED secrets
  BY <1>2 DEF Handle, PutReceipt, MarkRead, MarkSwap, MarkMissing, MarkConflict, Write
<1>3. ASSUME NEW r \in Reqs, PutSecret(r)
      PROVE  secrets'[k] = secrets[k] \/ (req[r].key = k /\ At(r, "putSecret"))
  <2>1. PICK v : secrets' = secrets \/ secrets' = [secrets EXCEPT ![req[r].key] = v]
    BY <1>3 DEF PutSecret
  <2> QED
    BY <1>3, <2>1 DEF PutSecret, TypeOK
<1>4. ASSUME NEW r \in Reqs, Claim(r) \/ Remove(r)
      PROVE  \/ secrets'[k] = secrets[k]
             \/ secrets'[k] = NoSecret /\ req[r].key = k
  <2>1. PICK next : DeleteKey(r, next)
    BY <1>4 DEF Claim, Remove
  <2> QED
    BY <2>1 DEF DeleteKey, TypeOK
<1>5. CASE \E r \in Reqs : Crash(r)
  BY <1>5 DEF Crash
<1>6. CASE Tick
  BY <1>6 DEF Tick, TypeOK
<1>7. CASE \/ \E j \in Keys : EvictSecret(j) \/ EvictReceipt(j)
           \/ LicenseExpires \/ UNCHANGED vars
  BY <1>7 DEF EvictSecret, EvictReceipt, LicenseExpires, vars, TypeOK
<1> QED
  BY <1>1, <1>2, <1>3, <1>4, <1>5, <1>6, <1>7 DEF Next, Quiet

\* The time a receipt reports is the time of the first opening: nobody who
\* read it as pending can still write it, and it is not attached again.
THEOREM SecretsViewedIsFinal == Spec => ViewedIsFinal
<1> DEFINE Final(k) ==
             /\ receipts[k].stored /\ receipts[k].state = "viewed"
             /\ receipts'[k].stored
             => receipts'[k] = receipts[k]
<1>1. ASSUME TypeOK, RaceInv, LifeInv, [Next]_vars, NEW k \in Keys PROVE Final(k)
  <2> SUFFICES ASSUME receipts[k].stored, receipts[k].state = "viewed",
                      receipts'[k].stored
               PROVE  receipts'[k] = receipts[k]
    OBVIOUS
  <2>1. ASSUME NEW r \in Reqs, req[r].key = k, At(r, "putReceipt") PROVE FALSE
    BY <1>1, <2>1 DEF At, LifeInv, Local, Timed
  <2>2. ASSUME NEW r \in Reqs, req[r].key = k, MarkSwap(r) PROVE FALSE
    <3>1. req[r].pc = "markCas" /\ receipts[k].ver = req[r].ver
      BY <2>2 DEF MarkSwap, At, CasMatches
    <3>2. req[r].ver = 1 /\ receipts[k].ver = 2
      BY <1>1, <2>2, <3>1 DEF RaceInv, VersionInv, Racing
    <3> QED
      BY <3>1, <3>2
  <2>3. receipts'[k] # NoReceipt
    BY DEF NoReceipt
  <2> QED
    BY <1>1, <2>1, <2>2, <2>3, ReceiptChanges
<1>2. TypeOK /\ RaceInv /\ LifeInv /\ [Next]_vars => [\A k \in Keys : Final(k)]_vars
  BY <1>1
<1> QED
  BY <1>2, SecretsLife, PTL DEF Spec, ViewedIsFinal

\* What was consumed, deleted, evicted or has expired never comes back, once
\* the create that may still store it is over.
THEOREM SecretsNoResurrection == Spec => NoResurrection
<1> DEFINE Gone(k) ==
             /\ /\ Settled(k, {"putReceipt", "putSecret"})
                /\ ~secrets[k].stored
                => ~secrets'[k].stored
             /\ /\ Settled(k, {"putReceipt"})
                /\ ~receipts[k].stored
                => ~receipts'[k].stored
<1>1. ASSUME TypeOK, [Next]_vars, NEW k \in Keys PROVE Gone(k)
  <2>1. ASSUME Settled(k, {"putReceipt", "putSecret"}), ~secrets[k].stored
        PROVE  ~secrets'[k].stored
    BY <1>1, <2>1, SecretChanges DEF Settled, At, NoSecret
  <2>2. ASSUME Settled(k, {"putReceipt"}), ~receipts[k].stored
        PROVE  ~receipts'[k].stored
    <3>1. ASSUME NEW r \in Reqs, req[r].key = k, MarkSwap(r) PROVE FALSE
      BY <2>2, <3>1 DEF MarkSwap, CasMatches
    <3> QED
      BY <1>1, <2>2, <3>1, ReceiptChanges DEF Settled, At, NoReceipt
  <2> QED
    BY <2>1, <2>2
<1>2. TypeOK /\ [Next]_vars => [\A k \in Keys : Gone(k)]_vars
  BY <1>1
<1> QED
  BY <1>2, SecretsLife, PTL DEF Spec, NoResurrection

\* The claim and the deletion leave the step they were at.
LEMMA TakenMovesOn ==
  ASSUME TypeOK, NEW r \in Reqs, Claim(r) \/ Remove(r)
  PROVE  req'[r].pc \in {"done", "markRead"}
<1> DEFINE q == [req[r] EXCEPT !.took = TRUE]
           next == [req[r] EXCEPT !.pc = "markRead", !.took = TRUE]
<1>1. /\ req[r] \in Request /\ q \in Request
      /\ next.pc = "markRead"
  BY DEF TypeOK, Request
<1>2. Done(req[r], "500").pc = "done" /\ Done(req[r], "404").pc = "done"
      /\ Done(q, "gone204").pc = "done"
  <2> HIDE DEF q
  <2> QED
    BY <1>1, DoneFields
<1>3. req'[r] \in {Done(req[r], "500"), Done(req[r], "404"), Done(q, "gone204"), next}
  <2> HIDE DEF q, next
  <2>1. CASE Claim(r)
    <3>1. DeleteKey(r, next)
      BY <2>1 DEF Claim, next
    <3> QED
      BY <3>1 DEF DeleteKey, TypeOK
  <2>2. CASE Remove(r)
    <3>1. DeleteKey(r, Done(q, "gone204"))
      BY <2>2 DEF Remove, q
    <3> QED
      BY <3>1 DEF DeleteKey, TypeOK
  <2> QED
    BY <2>1, <2>2
<1> QED
  BY <1>1, <1>2, <1>3

\* A secret that asked for authentication is taken by a permitted session, or
\* goes by itself: whatever Status let through carries that session.
THEOREM SecretsAuthorizedRemoval == Spec => AuthorizedRemoval
<1> DEFINE Permitted(k) ==
             /\ asked[k].requireAuth
             /\ secrets[k].stored /\ ~secrets'[k].stored
             => \/ now' # now
                \/ req' = req
                \/ \E r \in Reqs : /\ req'[r] # req[r]
                                   /\ req[r].key = k
                                   /\ req[r].session = "member"
<1>1. ASSUME TypeOK, OpeningInv, LifeInv, [Next]_vars, NEW k \in Keys PROVE Permitted(k)
  <2> SUFFICES ASSUME asked[k].requireAuth, secrets[k].stored, ~secrets'[k].stored
               PROVE  \/ now' # now
                      \/ req' = req
                      \/ \E r \in Reqs : /\ req'[r] # req[r]
                                         /\ req[r].key = k
                                         /\ req[r].session = "member"
    OBVIOUS
  <2>1. ~(\E r \in Reqs : req[r].key = k /\ At(r, "putSecret"))
    BY <1>1 DEF OpeningInv, CreateInv, Creating, At
  <2>2. ASSUME NEW r \in Reqs, req[r].key = k, Claim(r) \/ Remove(r)
        PROVE  req[r].session = "member" /\ req'[r] # req[r]
    <3>1. req[r].pc \in {"claim", "remove"}
      BY <2>2 DEF Claim, Remove, At
    <3>2. req'[r].pc \in {"done", "markRead"}
      BY <1>1, <2>2, TakenMovesOn
    <3> QED
      BY <1>1, <2>2, <3>1, <3>2 DEF LifeInv, Local, Serving
  <2> QED
    BY <1>1, <2>1, <2>2, SecretChanges
<1>2. TypeOK /\ OpeningInv /\ LifeInv /\ [Next]_vars => [\A k \in Keys : Permitted(k)]_vars
  BY <1>1
<1> QED
  BY <1>2, SecretsLife, PTL DEF Spec, AuthorizedRemoval
==============================================================================
