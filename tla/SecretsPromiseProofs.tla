------------------------ MODULE SecretsPromiseProofs -------------------------
(***************************************************************************)
(* Secrets implements SecretPromise, for any number of keys and requests:  *)
(* the theorem behind KeepsPromise.  Every step of a handler maps to the   *)
(* step of the promise it stands for, or lets something vanish, which a    *)
(* step that changes nothing does as well.                                 *)
(***************************************************************************)
EXTENDS SecretsLifeProofs

Kept == TypeOK /\ OpeningInv /\ RaceInv /\ LifeInv

Both  == {"putReceipt", "putSecret"}
First == {"putReceipt"}

\* The key whose openers q is among.
Opens(q) == IF q.op = "get" /\ q.took THEN q.key ELSE NoKey

------------------------------------------------------------------------------
(***************************************************************************)
(* The mapping.                                                            *)
(***************************************************************************)
\* Nothing is published, opened or noted at first.
LEMMA PromiseInit == Init => Promise!Init
  BY DEF Init, Promise!Init, PhaseOf, OpenersOf, NoteOf, Settled, Issued, NoSecret, NoReceipt

\* What is stored has been put there by a call that is over.
LEMMA StoredIsSettled ==
  ASSUME Kept, NEW k \in Keys
  PROVE  /\ secrets[k].stored => Settled(k, Both)
         /\ receipts[k].stored => Settled(k, First)
<1>1. ASSUME secrets[k].stored PROVE Settled(k, Both)
  BY <1>1, StoredIsIssued DEF Kept, Settled, Both, OpeningInv, CreateInv, Creating
<1>2. ASSUME receipts[k].stored PROVE Settled(k, First)
  BY <1>2 DEF Kept, Settled, First, LifeInv, Lasting, Local, Timed
<1> QED
  BY <1>1, <1>2

\* A step after which some things are gone.
LEMMA Fading ==
  ASSUME \A k \in Keys : OpenersOf(k)' = OpenersOf(k),
         \A k \in Keys : PhaseOf(k)' \in {PhaseOf(k), "gone"},
         \A k \in Keys : NoteOf(k)' \in {NoteOf(k), "gone"}
  PROVE  Promise!Next
<1> DEFINE K == {k \in Keys : PhaseOf(k)' = "gone"}
           N == {k \in Keys : NoteOf(k)' = "gone"}
<1>1. Promise!Vanish(K, N)
  BY DEF Promise!Vanish
<1> QED
  BY <1>1 DEF Promise!Next

\* Entries disappear, creates come to an end, and nobody opens anything.
LEMMA Fades ==
  ASSUME Kept,
         \A k \in Keys : OpenersOf(k)' = OpenersOf(k),
         \A k \in Keys : secrets'[k] = secrets[k] \/ secrets'[k] = NoSecret,
         \A k \in Keys : receipts'[k] = receipts[k] \/ receipts'[k] = NoReceipt,
         \A k \in Keys : Settled(k, Both) => Settled(k, Both)',
         \A k \in Keys : Settled(k, First) => Settled(k, First)'
  PROVE  Promise!Next
<1>1. ASSUME NEW k \in Keys PROVE PhaseOf(k)' \in {PhaseOf(k), "gone"}
  BY StoredIsSettled DEF PhaseOf, NoSecret, Both
<1>2. ASSUME NEW k \in Keys PROVE NoteOf(k)' \in {NoteOf(k), "gone"}
  BY StoredIsSettled DEF NoteOf, NoReceipt, First
<1> QED
  BY <1>1, <1>2, Fading

\* A move of r among the openers of each key.
LEMMA OpenersMove ==
  ASSUME NEW r \in Reqs, Frame(r), Opens(req'[r]) # Opens(req[r]) => Opens(req[r]) = NoKey,
         NEW k \in Keys
  PROVE  OpenersOf(k)' = IF Opens(req'[r]) = k THEN OpenersOf(k) \union {r} ELSE OpenersOf(k)
<1>1. \A q \in Reqs : q \in OpenersOf(k) <=> Opens(req[q]) = k
  BY KeysAssumption DEF OpenersOf, Opens
<1>2. \A q \in Reqs : q \in OpenersOf(k)' <=> Opens(req'[q]) = k
  BY KeysAssumption DEF OpenersOf, Opens
<1>3. \A q \in Reqs : q # r => Opens(req'[q]) = Opens(req[q])
  BY DEF Frame
<1>4. OpenersOf(k) \subseteq Reqs /\ OpenersOf(k)' \subseteq Reqs
  BY DEF OpenersOf
<1> QED
  BY <1>1, <1>2, <1>3, <1>4, KeysAssumption

\* r is at none of the calls of a create, before and after.
LEMMA SettledSame ==
  ASSUME NEW r \in Reqs, Frame(r), UNCHANGED asked, NEW pcs,
         req[r].pc \notin pcs, req'[r].pc \notin pcs, NEW k \in Keys
  PROVE  Settled(k, pcs)' <=> Settled(k, pcs)
  BY DEF Settled, Frame, Issued

\* What r does to its own key is nothing to another.
LEMMA SettledOther ==
  ASSUME NEW r \in Reqs, Frame(r), UNCHANGED asked, NEW pcs,
         req'[r].key = req[r].key, NEW k \in Keys, k # req[r].key
  PROVE  Settled(k, pcs)' <=> Settled(k, pcs)
  BY DEF Settled, Frame, Issued

\* A step of r that opens nothing and stores nothing.
LEMMA RequestFades ==
  ASSUME Kept, NEW r \in Reqs, Frame(r), UNCHANGED asked,
         \A k \in Keys : secrets'[k] = secrets[k] \/ secrets'[k] = NoSecret,
         UNCHANGED receipts,
         Opens(req'[r]) = Opens(req[r]),
         req'[r].pc # "putReceipt",
         req'[r].pc = "putSecret" => Creating(r) /\ req'[r].key = req[r].key
  PROVE  Promise!Next
<1>1. \A k \in Keys : OpenersOf(k)' = OpenersOf(k)
  <2> SUFFICES ASSUME NEW k \in Keys PROVE OpenersOf(k)' = OpenersOf(k)
    OBVIOUS
  <2>1. Opens(req[r]) = k => r \in OpenersOf(k)
    BY KeysAssumption DEF Opens, OpenersOf
  <2> QED
    BY <2>1, OpenersMove
<1>2. \A k \in Keys : Settled(k, Both) => Settled(k, Both)'
  BY DEF Settled, Frame, Issued, Both, Creating
<1>3. \A k \in Keys : Settled(k, First) => Settled(k, First)'
  BY DEF Settled, Frame, Issued, First
<1> QED
  BY <1>1, <1>2, <1>3, Fades

------------------------------------------------------------------------------
(***************************************************************************)
(* The steps.                                                              *)
(***************************************************************************)
\* r is answered without having opened anything new.
LEMMA AnswerFades ==
  ASSUME Kept, NEW r \in Reqs, Frame(r), UNCHANGED <<asked, receipts>>,
         \A k \in Keys : secrets'[k] = secrets[k] \/ secrets'[k] = NoSecret,
         NEW q \in Request, Opens(q) = Opens(req[r]), NEW a, req'[r] = Done(q, a)
  PROVE  Promise!Next
<1>1. req'[r].pc = "done" /\ Opens(req'[r]) = Opens(req[r])
  BY DoneFields DEF Opens
<1> QED
  BY <1>1, RequestFades

\* A create that is refused vanishes in nothing; one that starts makes its key
\* known, and gives up the receipt if it asks for none.
LEMMA CreateKeeps ==
  ASSUME Kept, NEW r \in Reqs,
         \/ \E p \in AskedPolicies : RejectCreate(r, p)
         \/ \E p \in AskedPolicies, k \in Keys : StartCreate(r, p, k)
  PROVE  Promise!Next
<1>0. req[r] \in Request /\ req[r].pc = "idle" /\ ~req[r].took /\ req[r].key = NoKey
  BY DEF Kept, TypeOK, RejectCreate, StartCreate, At, OpeningInv, FreshInv
<1>1. CASE \E p \in AskedPolicies : RejectCreate(r, p)
  <2> DEFINE q == [req[r] EXCEPT !.op = "create"]
  <2>1. /\ Frame(r) /\ UNCHANGED <<asked, secrets, receipts>> /\ req'[r] = Done(q, "400")
    BY <1>1 DEF RejectCreate, Frame, Kept, TypeOK
  <2>2. q \in Request /\ Opens(q) = Opens(req[r])
    BY <1>0 DEF Request, Opens
  <2> HIDE DEF q
  <2> QED
    BY <2>1, <2>2, AnswerFades
<1>2. CASE \E p \in AskedPolicies, k \in Keys : StartCreate(r, p, k)
  <2>1. PICK p \in AskedPolicies, k \in Keys : StartCreate(r, p, k)
    BY <1>2
  <2>2. /\ Frame(r) /\ UNCHANGED <<secrets, receipts>> /\ ~Issued(k)
        /\ asked' = [asked EXCEPT ![k] = p]
    BY <2>1 DEF StartCreate, Frame, Kept, TypeOK
  <2>3. req'[r].key = k /\ ~req'[r].took
    BY <1>0, <2>1 DEF StartCreate, Request, Kept, TypeOK
  <2>4. \A j \in Keys : OpenersOf(j)' = OpenersOf(j)
    <3>1. Opens(req'[r]) = NoKey /\ Opens(req[r]) = NoKey
      BY <1>0, <2>3 DEF Opens
    <3> QED
      BY <2>2, <3>1, OpenersMove, KeysAssumption
  <2>5. ASSUME NEW j \in Keys, NEW pcs, Settled(j, pcs) PROVE Settled(j, pcs)'
    <3>1. j # k
      BY <2>2, <2>5 DEF Settled
    <3>2. asked'[j] = asked[j]
      BY <2>2, <3>1 DEF Kept, TypeOK
    <3> QED
      BY <2>2, <2>3, <2>5, <3>1, <3>2 DEF Settled, Issued, Frame
  <2> QED
    BY <2>2, <2>4, <2>5, Fades
<1> QED
  BY <1>1, <1>2

\* r opens k, which stays as it is or goes at this instant.
LEMMA OpensOne ==
  ASSUME Kept, NEW r \in Reqs, NEW k \in Keys, Frame(r), UNCHANGED <<asked, receipts>>,
         secrets[k].stored,
         ~Creating(r), req'[r].pc = "markRead",
         Opens(req[r]) \in {NoKey, k}, Opens(req'[r]) = k,
         \/ ~secrets[k].oneTime /\ UNCHANGED secrets
         \/ secrets[k].oneTime /\ secrets' = [secrets EXCEPT ![k] = NoSecret]
  PROVE  Promise!Next
<1>1. \A j \in Keys : OpenersOf(j)' = IF j = k THEN OpenersOf(j) \union {r} ELSE OpenersOf(j)
  <2> SUFFICES ASSUME NEW j \in Keys
               PROVE OpenersOf(j)' = IF j = k THEN OpenersOf(j) \union {r} ELSE OpenersOf(j)
    OBVIOUS
  <2>1. CASE Opens(req[r]) = NoKey
    BY <2>1, OpenersMove
  <2>2. CASE Opens(req[r]) = k
    BY <2>2, OpenersMove
  <2> QED
    BY <2>1, <2>2
<1>2. \A j \in Keys : Settled(j, Both)' <=> Settled(j, Both)
  BY SettledSame DEF Creating, Both
<1>3. \A j \in Keys : NoteOf(j)' = NoteOf(j)
  <2>1. \A j \in Keys : Settled(j, First)' <=> Settled(j, First)
    BY SettledSame DEF Creating, First
  <2> QED
    BY <2>1 DEF NoteOf, First
<1>4. CASE ~secrets[k].oneTime /\ UNCHANGED secrets
  <2>1. /\ \A j \in Keys : PhaseOf(j)' = PhaseOf(j)
        /\ PhaseOf(k) = "many"
    BY <1>2, <1>4 DEF PhaseOf, Both
  <2>2. Promise!OpenAgain(k, r)
    BY <1>1, <1>3, <2>1 DEF Promise!OpenAgain
  <2> QED
    BY <2>2 DEF Promise!Next
<1>5. CASE secrets[k].oneTime /\ secrets' = [secrets EXCEPT ![k] = NoSecret]
  <2>1. PhaseOf(k) = "once"
    BY <1>5 DEF PhaseOf
  <2>2. PhaseOf(k)' = "gone"
    <3>1. ~secrets'[k].stored
      BY <1>5 DEF NoSecret, Kept, TypeOK
    <3> QED
      BY <1>2, <3>1, StoredIsSettled DEF PhaseOf, Both
  <2>3. ASSUME NEW j \in Keys, j # k PROVE PhaseOf(j)' = PhaseOf(j)
    <3>1. secrets'[j] = secrets[j]
      BY <1>5, <2>3 DEF Kept, TypeOK
    <3> QED
      BY <1>2, <3>1 DEF PhaseOf, Both
  <2>4. Promise!OpenOnce(k, r)
    BY <1>1, <1>3, <2>1, <2>2, <2>3 DEF Promise!OpenOnce
  <2> QED
    BY <2>4 DEF Promise!Next
<1> QED
  BY <1>4, <1>5

\* A secret that is not one-time is opened as soon as it is found; nothing
\* else that starts with Status, and no check of a receipt, opens anything.
LEMMA AccessKeeps ==
  ASSUME Kept, NEW r \in Reqs,
         \/ \E k \in Keys, op \in {"get", "delete", "status"}, s \in Sessions :
              StartAccess(r, op, k, s)
         \/ \E k \in Keys, valid \in BOOLEAN : CheckReceipt(r, k, valid)
  PROVE  Promise!Next
<1>0. req[r] \in Request /\ req[r].pc = "idle" /\ ~req[r].took /\ Opens(req[r]) = NoKey
  BY DEF Kept, TypeOK, StartAccess, CheckReceipt, At, OpeningInv, FreshInv, Opens
<1>1. CASE \E k \in Keys, op \in {"get", "delete", "status"}, s \in Sessions :
             StartAccess(r, op, k, s)
  <2>1. PICK k \in Keys, op \in {"get", "delete", "status"}, s \in Sessions :
               StartAccess(r, op, k, s)
    BY <1>1
  <2> DEFINE q == [req[r] EXCEPT !.op = op, !.key = k, !.session = s]
  <2>2. q \in Request /\ q.op = op /\ q.key = k /\ ~q.took /\ Opens(q) = NoKey
    BY <1>0 DEF Request, Opens
  <2>3. Frame(r) /\ UNCHANGED <<asked, secrets, receipts>>
    BY <2>1 DEF StartAccess, Frame, Kept, TypeOK
  <2>4. \/ \E a \in {"404", "status", "401", "403"} : req'[r] = Done(q, a)
        \/ req'[r] = [q EXCEPT !.pc = "remove"]
        \/ req'[r] = [q EXCEPT !.pc = "claim"]
        \/ /\ op = "get" /\ secrets[k].stored /\ ~secrets[k].oneTime
           /\ req'[r] = [q EXCEPT !.pc = "markRead", !.took = TRUE]
    BY <2>1 DEF StartAccess, AfterStatus, Refusal, Kept, TypeOK
  <2> HIDE DEF q
  <2>5. CASE \E a \in {"404", "status", "401", "403"} : req'[r] = Done(q, a)
    BY <1>0, <2>2, <2>3, <2>5, AnswerFades
  <2>6. CASE req'[r] = [q EXCEPT !.pc = "remove"] \/ req'[r] = [q EXCEPT !.pc = "claim"]
    <3>1. /\ req'[r].pc \in {"remove", "claim"} /\ ~req'[r].took
      BY <2>2, <2>6 DEF Request
    <3>2. Opens(req'[r]) = Opens(req[r])
      BY <1>0, <3>1 DEF Opens
    <3> QED
      BY <2>3, <3>1, <3>2, RequestFades
  <2>7. CASE /\ op = "get" /\ secrets[k].stored /\ ~secrets[k].oneTime
             /\ req'[r] = [q EXCEPT !.pc = "markRead", !.took = TRUE]
    <3>1. /\ req'[r].pc = "markRead" /\ req'[r].took /\ req'[r].op = "get"
          /\ req'[r].key = k
      BY <2>2, <2>7 DEF Request
    <3>2. Opens(req'[r]) = k /\ ~Creating(r)
      BY <1>0, <3>1 DEF Opens, Creating
    <3> QED
      BY <1>0, <2>3, <2>7, <3>1, <3>2, OpensOne
  <2> QED
    BY <2>4, <2>5, <2>6, <2>7
<1>2. CASE \E k \in Keys, valid \in BOOLEAN : CheckReceipt(r, k, valid)
  <2>1. PICK k \in Keys, valid \in BOOLEAN : CheckReceipt(r, k, valid)
    BY <1>2
  <2> DEFINE q == [req[r] EXCEPT !.op = "check", !.key = k]
  <2>2. q \in Request /\ Opens(q) = Opens(req[r])
    BY <1>0 DEF Request, Opens
  <2>3. \E a : req'[r] = Done(q, a)
    BY <2>1 DEF CheckReceipt, Kept, TypeOK
  <2>4. Frame(r) /\ UNCHANGED <<asked, secrets, receipts>>
    BY <2>1 DEF CheckReceipt, Frame, Kept, TypeOK
  <2> HIDE DEF q
  <2> QED
    BY <2>2, <2>3, <2>4, AnswerFades
<1> QED
  BY <1>1, <1>2

\* A receipt that is stored is attached, whatever the handler is told of it.
LEMMA PutReceiptKeeps ==
  ASSUME Kept, NEW r \in Reqs, PutReceipt(r)
  PROVE  Promise!Next
<1>0. PICK k \in Keys : k = req[r].key
  BY DEF PutReceipt, At, Kept, OpeningInv, KeyInv, InFlight
<1>1. /\ req[r] \in Request /\ At(r, "putReceipt") /\ Creating(r) /\ ~req[r].took
      /\ Opens(req[r]) = NoKey
  BY DEF PutReceipt, At, Creating, Kept, TypeOK, OpeningInv, CreateInv, Opens
<1>2. Frame(r) /\ UNCHANGED <<asked, secrets>>
  BY DEF PutReceipt, Goto, Answer, Frame, Kept, TypeOK
<1>3. \/ req'[r] = Done(req[r], "500")
      \/ req'[r] = [req[r] EXCEPT !.pc = "putSecret"]
  BY DEF PutReceipt, Goto, Answer, Kept, TypeOK
<1>4. /\ req'[r].key = k /\ req'[r].pc \in {"done", "putSecret"}
      /\ Opens(req'[r]) = NoKey
  <2>1. CASE req'[r] = Done(req[r], "500")
    BY <1>0, <1>1, <2>1, DoneFields DEF Opens
  <2>2. CASE req'[r] = [req[r] EXCEPT !.pc = "putSecret"]
    <3>1. req'[r].key = k /\ req'[r].pc = "putSecret" /\ ~req'[r].took
      BY <1>0, <1>1, <2>2 DEF Request
    <3> QED
      BY <3>1 DEF Opens
  <2> QED
    BY <1>3, <2>1, <2>2
<1>5. \/ UNCHANGED receipts
      \/ receipts' = [receipts EXCEPT ![k] = PendingReceipt(k, req[r].due)]
  BY <1>0 DEF PutReceipt
<1>6. CASE UNCHANGED receipts
  BY <1>0, <1>1, <1>2, <1>4, <1>6, RequestFades
<1>7. CASE receipts' = [receipts EXCEPT ![k] = PendingReceipt(k, req[r].due)]
  <2>1. ~secrets[k].stored /\ ~receipts[k].stored
    BY <1>0, <1>1 DEF Kept, OpeningInv, CreateInv, LifeInv, Local, Timed, At
  <2>2. ~Settled(k, Both) /\ ~Settled(k, First)
    BY <1>0, <1>1 DEF Settled, Both, First, At
  <2>3. PhaseOf(k) = "unborn" /\ NoteOf(k) = "none"
    BY <2>1, <2>2 DEF PhaseOf, NoteOf, Both, First
  <2>4. PhaseOf(k)' \in {"unborn", "gone"}
    BY <1>2, <2>1 DEF PhaseOf
  <2>5. NoteOf(k)' = "pending"
    <3>1. receipts'[k] = PendingReceipt(k, req[r].due)
      BY <1>7 DEF Kept, TypeOK
    <3> QED
      BY <3>1 DEF NoteOf, PendingReceipt
  <2>6. ASSUME NEW j \in Keys, j # k
        PROVE  PhaseOf(j)' = PhaseOf(j) /\ NoteOf(j)' = NoteOf(j)
    <3>1. receipts'[j] = receipts[j]
      BY <1>7, <2>6 DEF Kept, TypeOK
    <3>2. /\ Settled(j, Both)' <=> Settled(j, Both)
          /\ Settled(j, First)' <=> Settled(j, First)
      BY <1>0, <1>2, <1>4, <2>6, SettledOther
    <3> QED
      BY <1>2, <3>1, <3>2 DEF PhaseOf, NoteOf, Both, First
  <2>7. \A j \in Keys : OpenersOf(j)' = OpenersOf(j)
    BY <1>1, <1>2, <1>4, OpenersMove, KeysAssumption
  <2>8. Promise!AttachNote(k)
    BY <2>3, <2>4, <2>5, <2>6, <2>7 DEF Promise!AttachNote
  <2> QED
    BY <2>8 DEF Promise!Next
<1> QED
  BY <1>5, <1>6, <1>7

\* A secret that is stored is published, whatever the handler is told of it.
LEMMA PutSecretKeeps ==
  ASSUME Kept, NEW r \in Reqs, PutSecret(r)
  PROVE  Promise!Next
<1>0. PICK k \in Keys : k = req[r].key
  BY DEF PutSecret, At, Kept, OpeningInv, KeyInv, InFlight
<1>1. /\ req[r] \in Request /\ At(r, "putSecret") /\ Creating(r) /\ ~req[r].took
      /\ Opens(req[r]) = NoKey
  BY DEF PutSecret, At, Creating, Kept, TypeOK, OpeningInv, CreateInv, Opens
<1>2. Frame(r) /\ UNCHANGED <<asked, receipts>>
  BY DEF PutSecret, Answer, Frame, Kept, TypeOK
<1>3. \E a : req'[r] = Done(req[r], a)
  BY DEF PutSecret, Answer, Kept, TypeOK
<1>4. req'[r].key = k /\ req'[r].pc = "done" /\ Opens(req'[r]) = NoKey
  BY <1>0, <1>1, <1>3, DoneFields DEF Opens
<1>5. \/ UNCHANGED secrets
      \/ secrets'[k].stored /\ \A j \in Keys : j # k => secrets'[j] = secrets[j]
  BY <1>0 DEF PutSecret, Kept, TypeOK
<1>6. CASE UNCHANGED secrets
  BY <1>1, <1>2, <1>4, <1>6, RequestFades
<1>7. CASE secrets'[k].stored /\ \A j \in Keys : j # k => secrets'[j] = secrets[j]
  <2>1. PhaseOf(k) = "unborn"
    BY <1>0, <1>1 DEF Kept, OpeningInv, CreateInv, PhaseOf, Settled, At
  <2>2. PhaseOf(k)' \in {"once", "many"}
    BY <1>7 DEF PhaseOf
  <2>3. ASSUME NEW j \in Keys, j # k PROVE PhaseOf(j)' = PhaseOf(j)
    <3>1. Settled(j, Both)' <=> Settled(j, Both)
      BY <1>0, <1>2, <1>4, <2>3, SettledOther
    <3> QED
      BY <1>7, <2>3, <3>1 DEF PhaseOf, Both
  <2>4. ASSUME NEW j \in Keys PROVE NoteOf(j)' = NoteOf(j)
    <3>1. Settled(j, First)' <=> Settled(j, First)
      BY <1>1, <1>2, <1>4, SettledSame DEF At, First
    <3> QED
      BY <1>2, <3>1 DEF NoteOf, First
  <2>5. \A j \in Keys : OpenersOf(j)' = OpenersOf(j)
    BY <1>1, <1>2, <1>4, OpenersMove, KeysAssumption
  <2>6. Promise!Publish(k, PhaseOf(k)')
    BY <2>1, <2>3, <2>4, <2>5 DEF Promise!Publish
  <2> QED
    BY <2>2, <2>6 DEF Promise!Next, Promise!Live
<1> QED
  BY <1>5, <1>6, <1>7

\* The claim that succeeds is the opening; any other claim, and a deletion, at
\* most withdraw the secret.
LEMMA TakeKeeps ==
  ASSUME Kept, NEW r \in Reqs, Claim(r) \/ Remove(r)
  PROVE  Promise!Next
<1> DEFINE q == [req[r] EXCEPT !.took = TRUE]
           next == [req[r] EXCEPT !.pc = "markRead", !.took = TRUE]
<1>0. PICK k \in Keys : k = req[r].key
  BY DEF Claim, Remove, At, Kept, OpeningInv, KeyInv, InFlight
<1>1. /\ req[r] \in Request /\ q \in Request
      /\ q.op = req[r].op /\ q.key = k
      /\ next.pc = "markRead" /\ next.took /\ next.op = req[r].op /\ next.key = k
  BY <1>0 DEF Kept, TypeOK, Request
<1> HIDE DEF q, next
<1>2. /\ Frame(r) /\ UNCHANGED <<asked, receipts>>
      /\ \A j \in Keys : secrets'[j] = secrets[j] \/ secrets'[j] = NoSecret
  <2>1. PICK x : DeleteKey(r, x)
    BY DEF Claim, Remove
  <2> QED
    BY <2>1 DEF DeleteKey, Frame, Kept, TypeOK
<1>3. CASE Remove(r)
  <2>1. req[r].op = "delete"
    BY <1>3 DEF Remove, At, Kept, LifeInv, Local, Serving
  <2>2. DeleteKey(r, Done(q, "gone204"))
    BY <1>3 DEF Remove, q
  <2>3. \E a : req'[r] = Done(req[r], a) \/ req'[r] = Done(q, a)
    BY <2>2 DEF DeleteKey, Kept, TypeOK
  <2>4. Opens(q) = Opens(req[r])
    BY <1>1, <2>1 DEF Opens
  <2> QED
    BY <1>1, <1>2, <2>3, <2>4, AnswerFades
<1>4. CASE Claim(r)
  <2>1. At(r, "claim") /\ DeleteKey(r, next)
    BY <1>4 DEF Claim, next
  <2>2. \/ \E a : req'[r] = Done(req[r], a)
        \/ /\ req'[r] = next /\ secrets[k].stored
           /\ secrets' = [secrets EXCEPT ![k] = NoSecret]
    BY <1>0, <2>1 DEF DeleteKey, Errs, Applied, Kept, TypeOK
  <2>3. CASE \E a : req'[r] = Done(req[r], a)
    BY <1>1, <1>2, <2>3, AnswerFades
  <2>4. CASE /\ req'[r] = next /\ secrets[k].stored
             /\ secrets' = [secrets EXCEPT ![k] = NoSecret]
    <3>1. req[r].op = "get" /\ secrets[k].oneTime /\ ~Creating(r)
      BY <1>0, <2>1, <2>4 DEF At, Creating, Kept, LifeInv, Local, Serving, OpeningInv, CopyInv
    <3>2. Opens(req'[r]) = k /\ Opens(req[r]) \in {NoKey, k}
      BY <1>0, <1>1, <2>4, <3>1 DEF Opens
    <3> QED
      BY <1>1, <1>2, <2>4, <3>1, <3>2, OpensOne
  <2> QED
    BY <2>2, <2>3, <2>4
<1> QED
  BY <1>3, <1>4

\* r goes on after its opening, or dies: nobody else can tell.
LEMMA GoesOnKeeps ==
  ASSUME Kept, NEW r \in Reqs,
         MarkRead(r) \/ MarkMissing(r) \/ MarkConflict(r) \/ Write(r) \/ Crash(r)
  PROVE  Promise!Next
<1>1. /\ req[r] \in Request /\ Frame(r) /\ UNCHANGED <<asked, secrets, receipts>>
  BY DEF MarkRead, MarkMissing, MarkConflict, Write, Crash, Goto, Answer, Frame, Kept, TypeOK
<1>2. CASE Write(r) \/ Crash(r)
  <2>1. \E a : req'[r] = Done(req[r], a)
    BY <1>2 DEF Write, Crash, Answer, Kept, TypeOK
  <2> QED
    BY <1>1, <2>1, AnswerFades
<1>3. CASE MarkRead(r) \/ MarkMissing(r) \/ MarkConflict(r)
  <2>1. /\ req'[r].pc \in {"write", "markCas", "markRead"}
        /\ req'[r].op = req[r].op /\ req'[r].key = req[r].key
        /\ req'[r].took = req[r].took
    <3>1. CASE MarkRead(r)
      <4> DEFINE rec == receipts[req[r].key]
      <4>1. \/ req'[r] = [req[r] EXCEPT !.pc = "write", !.lapse = TRUE]
            \/ req'[r] = [req[r] EXCEPT !.pc = "write"]
            \/ req'[r] = [req[r] EXCEPT !.pc = "markCas", !.ver = rec.ver,
                                        !.due = rec.expiresAt, !.at = now]
        BY <3>1 DEF MarkRead, Kept, TypeOK
      <4> HIDE DEF rec
      <4> QED
        BY <1>1, <4>1 DEF Request
    <3>2. CASE MarkMissing(r)
      <4>1. req'[r] = [req[r] EXCEPT !.pc = "write"]
        BY <3>2 DEF MarkMissing, Goto, Kept, TypeOK
      <4> QED
        BY <1>1, <4>1 DEF Request
    <3>3. CASE MarkConflict(r)
      <4>1. \E n :
              \/ req'[r] = [req[r] EXCEPT !.pc = "markRead", !.tries = n]
              \/ req'[r] = [req[r] EXCEPT !.pc = "write", !.tries = n, !.lapse = TRUE]
        BY <3>3 DEF MarkConflict, Kept, TypeOK
      <4> QED
        BY <1>1, <4>1 DEF Request
    <3> QED
      BY <1>3, <3>1, <3>2, <3>3
  <2>2. Opens(req'[r]) = Opens(req[r])
    BY <2>1 DEF Opens
  <2> QED
    BY <1>1, <2>1, <2>2, RequestFades
<1> QED
  BY <1>2, <1>3

\* The write of an Update notes the opening of the request that makes it.
LEMMA MarkSwapKeeps ==
  ASSUME Kept, NEW r \in Reqs, MarkSwap(r)
  PROVE  Promise!Next
<1> DEFINE q == req[r]
<1>0. PICK k \in Keys : k = q.key
  BY DEF MarkSwap, At, Kept, OpeningInv, KeyInv, InFlight
<1>1. /\ q \in Request /\ q.pc = "markCas" /\ q.op = "get" /\ q.took /\ q.ver = 1
      /\ receipts[k].stored /\ receipts[k].ver = 1
  BY <1>0 DEF MarkSwap, At, CasMatches, Kept, TypeOK, LifeInv, Local, Serving,
              OpeningInv, ServedInv, RaceInv, Racing
<1>2. Frame(r) /\ UNCHANGED <<asked, secrets>>
  BY DEF MarkSwap, Frame, Kept, TypeOK
<1>3. PICK call \in WriteCalls :
        /\ receipts' = IF Applied(call) THEN [receipts EXCEPT ![k] = ViewedReceipt(q)]
                       ELSE receipts
        /\ req'[r] = [q EXCEPT !.pc = "write", !.lapse = Errs(call)]
  BY <1>0 DEF MarkSwap, Kept, TypeOK
<1>4. req'[r].pc = "write" /\ Opens(req'[r]) = k /\ Opens(req[r]) = k
  BY <1>0, <1>1, <1>3 DEF Request, Opens
<1>5. CASE UNCHANGED receipts
  BY <1>2, <1>4, <1>5, RequestFades
<1>6. CASE receipts' = [receipts EXCEPT ![k] = ViewedReceipt(q)]
  <2>1. \A j \in Keys : OpenersOf(j)' = OpenersOf(j)
    <3>1. r \in OpenersOf(k)
      BY <1>0, <1>1 DEF OpenersOf
    <3> QED
      BY <1>2, <1>4, <3>1, OpenersMove
  <2>2. ASSUME NEW j \in Keys PROVE PhaseOf(j)' = PhaseOf(j)
    <3>1. Settled(j, Both)' <=> Settled(j, Both)
      BY <1>1, <1>2, <1>4, SettledSame DEF Both
    <3> QED
      BY <1>2, <3>1 DEF PhaseOf, Both
  <2>3. NoteOf(k) = "pending" /\ r \in OpenersOf(k)
    <3>1. receipts[k].state = "pending"
      BY <1>1 DEF Kept, RaceInv, VersionInv
    <3> QED
      BY <1>0, <1>1, <3>1 DEF NoteOf, OpenersOf
  <2>4. NoteOf(k)' = "viewed"
    <3>1. receipts'[k] = ViewedReceipt(q)
      BY <1>6 DEF Kept, TypeOK
    <3> QED
      BY <3>1 DEF NoteOf, ViewedReceipt
  <2>5. ASSUME NEW j \in Keys, j # k PROVE NoteOf(j)' = NoteOf(j)
    <3>1. receipts'[j] = receipts[j]
      BY <1>6, <2>5 DEF Kept, TypeOK
    <3>2. Settled(j, First)' <=> Settled(j, First)
      BY <1>1, <1>2, <1>4, SettledSame DEF First
    <3> QED
      BY <3>1, <3>2 DEF NoteOf, First
  <2>6. Promise!NoteOpening(k)
    BY <2>1, <2>2, <2>3, <2>4, <2>5 DEF Promise!NoteOpening
  <2> QED
    BY <2>6 DEF Promise!Next
<1> QED
  BY <1>3, <1>5, <1>6

\* Time, evictions, the license, and nothing at all.
LEMMA AroundKeeps ==
  ASSUME Kept,
         \/ \E k \in Keys : EvictSecret(k) \/ EvictReceipt(k)
         \/ Tick \/ LicenseExpires \/ UNCHANGED vars
  PROVE  Promise!Next
<1>1. UNCHANGED <<asked, req>>
  BY DEF EvictSecret, EvictReceipt, Tick, LicenseExpires, vars
<1>2. /\ \A k \in Keys : secrets'[k] = secrets[k] \/ secrets'[k] = NoSecret
      /\ \A k \in Keys : receipts'[k] = receipts[k] \/ receipts'[k] = NoReceipt
  BY DEF EvictSecret, EvictReceipt, Tick, LicenseExpires, vars, Kept, TypeOK
<1>3. \A k \in Keys : /\ OpenersOf(k)' = OpenersOf(k)
                      /\ Settled(k, Both) => Settled(k, Both)'
                      /\ Settled(k, First) => Settled(k, First)'
  BY <1>1 DEF OpenersOf, Settled, Issued
<1> QED
  BY <1>2, <1>3, Fades

\* Every step is a step of the promise.
LEMMA StepKeeps == Kept /\ [Next]_vars => Promise!Next
<1> SUFFICES ASSUME Kept, [Next]_vars PROVE Promise!Next
  OBVIOUS
<1>1. ASSUME NEW r \in Reqs, Arrive(r) PROVE Promise!Next
  BY <1>1, CreateKeeps, AccessKeeps DEF Arrive
<1>2. ASSUME NEW r \in Reqs, Handle(r) PROVE Promise!Next
  BY <1>2, PutReceiptKeeps, PutSecretKeeps, TakeKeeps, GoesOnKeeps, MarkSwapKeeps DEF Handle
<1>3. ASSUME NEW r \in Reqs, Crash(r) PROVE Promise!Next
  BY <1>3, GoesOnKeeps
<1>4. CASE \/ \E k \in Keys : EvictSecret(k) \/ EvictReceipt(k)
           \/ Tick \/ LicenseExpires \/ UNCHANGED vars
  BY <1>4, AroundKeeps
<1> QED
  BY <1>1, <1>2, <1>3, <1>4 DEF Next, Quiet

\* The handlers, with every interleaving, failed call, eviction and crash, do
\* what SecretPromise says of a secret and its receipt: the claim is the
\* opening, and a receipt is attached before its secret is published and marked
\* after an opening.
THEOREM SecretsKeepsPromise == Spec => KeepsPromise
<1>1. Init => Promise!Init
  BY PromiseInit
<1>2. Kept /\ [Next]_vars => [Promise!Next]_(Promise!promise)
  BY StepKeeps
<1>3. TypeOK /\ OpeningInv /\ RaceInv /\ LifeInv => Kept
  BY DEF Kept
<1> QED
  BY <1>1, <1>2, <1>3, SecretsLife, PTL DEF Spec, KeepsPromise, Promise!Spec
==============================================================================
