---------------------------- MODULE RequestsProofs ----------------------------
(***************************************************************************)
(* Theorems about Requests, for any sets of IDs, handler runs and          *)
(* lifetimes, and any bounds.                                              *)
(***************************************************************************)
EXTENDS Requests, TLAPS

------------------------------------------------------------------------------
(***************************************************************************)
(* Type correctness.                                                       *)
(***************************************************************************)

\* The backend's arithmetic stays in the natural numbers.
LEMMA TimesType ==
  /\ \A t \in Nat, ttl \in Nat : DiesAt(ttl, t) \in Nat
  /\ \A t \in Nat, e \in Nat : SecondsUntil(e, t) \in Nat
  BY DEF DiesAt, SecondsUntil, Never

LEMMA SpendType ==
  ASSUME faults \in Nat, NEW call, Spend(call)
  PROVE  faults' \in Nat
  BY DEF Spend, Faults

LEMMA NoRequestType == NoRequest \in SecretRequest
  BY DEF NoRequest, SecretRequest, Origin

\* Any lifetime that was asked and accepted, or none.
LEMMA AskedType ==
  ASSUME TypeOK, NEW i \in Ids
  PROVE  asked[i] \in Nat
<1>1. asked[i] \in Lifetimes \union {0}
  BY DEF TypeOK
<1>2. \A l \in Lifetimes : l \in Nat
  BY LifetimesAssumption
<1> QED
  BY <1>1, <1>2

\* A handler that returns keeps what it is about.
LEMMA DoneFields ==
  ASSUME NEW q \in Local, NEW resp
  PROVE  /\ Done(q, resp).pc = "done"
         /\ Done(q, resp).resp = resp
         /\ Done(q, resp).op = q.op
         /\ Done(q, resp).id = q.id
         /\ Done(q, resp).key = q.key
         /\ Done(q, resp).owner = q.owner
         /\ Done(q, resp).took = q.took
  BY DEF Local, Done

\* A handler that returns, with any of the answers, is a handler.
LEMMA DoneType ==
  ASSUME NEW q \in Local, NEW resp \in Answers
  PROVE  Done(q, resp) \in Local
  BY NoRequestType DEF Local, Done

\* What a create is once it has drawn its ID.
LEMMA StartedType ==
  ASSUME NEW q \in Local, NEW i \in Ids, NEW h \in Handlers, NEW due \in Nat
  PROVE  [q EXCEPT !.pc = "put", !.op = "create", !.id = i, !.key = h,
                   !.due = due] \in Local
  BY DEF Local, Origin

\* What a handler is once it has named the request it is about.
LEMMA NamedType ==
  ASSUME NEW q \in Local, NEW op \in {"fulfill", "rotate", "fetch", "revoke"},
         NEW i \in Ids, NEW key \in Handlers, NEW owner \in BOOLEAN
  PROVE  /\ [q EXCEPT !.op = op, !.id = i, !.key = key, !.owner = owner] \in Local
         /\ [q EXCEPT !.op = op, !.id = i, !.owner = owner] \in Local
  BY DEF Local, Origin

\* What an Update and a fetch are once they have read the record.
LEMMA ReadType ==
  ASSUME NEW q \in Local, NEW rec \in SecretRequest, NEW t \in Nat
  PROVE  /\ [q EXCEPT !.pc = "cas", !.base = rec, !.at = t] \in Local
         /\ [q EXCEPT !.pc = "delete", !.base = rec] \in Local
  BY DEF Local

LEMMA RefusalType ==
  ASSUME NEW q, NEW rec
  PROVE  Refusal(q, rec) \in {"404", "401", "409", "none"}
  BY DEF Refusal

LEMMA AfterReadType ==
  ASSUME NEW q \in Local, NEW rec \in SecretRequest, now \in Nat, NEW call
  PROVE  AfterRead(q, rec, call) \in Local
<1>1. Done(q, "500") \in Local
  BY DoneType DEF Answers
<1>2. Refusal(q, rec) # "none" => Done(q, Refusal(q, rec)) \in Local
  BY RefusalType, DoneType DEF Answers
<1> QED
  BY <1>1, <1>2, ReadType DEF AfterRead

LEMMA AfterLoadType ==
  ASSUME NEW q \in Local, NEW rec \in SecretRequest, NEW call
  PROVE  AfterLoad(q, rec, call) \in Local
<1>1. \A a \in {"404", "401", "409"} : Done(q, a) \in Local
  BY DoneType DEF Answers
<1> QED
  BY <1>1, ReadType, 0 \in Nat DEF AfterLoad

LEMMA ArriveTypeOK ==
  ASSUME TypeOK, NEW h \in Handlers, Arrive(h)
  PROVE  TypeOK'
<1>0. /\ local \in [Handlers -> Local] /\ local[h] \in Local
      /\ requests \in [Ids -> SecretRequest] /\ faults \in Nat /\ now \in Nat
  BY DEF TypeOK
<1>1. CASE \E life \in AskedLifetimes : RejectCreate(h, life)
  <2>1. PICK life \in AskedLifetimes : RejectCreate(h, life)
    BY <1>1
  <2>2. [local[h] EXCEPT !.op = "create"] \in Local
    BY <1>0 DEF Local
  <2>3. \A a \in {"403", "400"} :
          Done([local[h] EXCEPT !.op = "create"], a) \in Local
    BY <2>2, DoneType DEF Answers
  <2>4. local' \in [Handlers -> Local]
    BY <1>0, <2>1, <2>3 DEF RejectCreate
  <2> QED
    BY <2>1, <2>4 DEF RejectCreate, TypeOK
<1>2. CASE \E i \in Ids, life \in AskedLifetimes : StartCreate(h, i, life)
  <2>1. PICK i \in Ids, life \in AskedLifetimes : StartCreate(h, i, life)
    BY <1>2
  <2>2. life \in Lifetimes /\ life \in Nat
    BY <2>1, LifetimesAssumption DEF StartCreate, ValidExpiration
  <2>3. now + life \in Nat
    BY <1>0, <2>2
  <2>4. [local[h] EXCEPT !.pc = "put", !.op = "create", !.id = i, !.key = h,
                         !.due = now + life] \in Local
    BY <1>0, <2>3, StartedType
  <2>5. local' \in [Handlers -> Local]
    BY <1>0, <2>1, <2>4 DEF StartCreate
  <2>6. asked' \in [Ids -> Lifetimes \union {0}]
    BY <2>1, <2>2 DEF StartCreate, TypeOK
  <2> QED
    BY <2>1, <2>5, <2>6 DEF StartCreate, TypeOK
<1>3. CASE \E i \in Ids, op \in {"fulfill", "rotate"}, key \in Handlers,
              owner \in BOOLEAN : StartUpdate(h, op, i, key, owner)
  <2>1. PICK i \in Ids, op \in {"fulfill", "rotate"}, key \in Handlers,
             owner \in BOOLEAN : StartUpdate(h, op, i, key, owner)
    BY <1>3
  <2> DEFINE q == [local[h] EXCEPT !.op = op, !.id = i, !.key = key,
                                   !.owner = owner]
  <2>2. q \in Local
    BY <1>0, NamedType
  <2>3. PICK call \in ReadCalls :
          /\ Spend(call)
          /\ local' = [local EXCEPT ![h] = AfterRead(q, requests[i], call)]
    BY <2>1 DEF StartUpdate
  <2> HIDE DEF q
  <2>4. AfterRead(q, requests[i], call) \in Local
    BY <1>0, <2>2, AfterReadType
  <2>5. local' \in [Handlers -> Local] /\ faults' \in Nat
    BY <1>0, <2>3, <2>4, SpendType
  <2> QED
    BY <2>1, <2>5 DEF StartUpdate, TypeOK
<1>4. CASE \E i \in Ids, op \in {"fetch", "revoke"}, owner \in BOOLEAN :
             StartClose(h, op, i, owner)
  <2>1. PICK i \in Ids, op \in {"fetch", "revoke"}, owner \in BOOLEAN :
               StartClose(h, op, i, owner)
    BY <1>4
  <2> DEFINE q == [local[h] EXCEPT !.op = op, !.id = i, !.owner = owner]
  <2>2. q \in Local
    BY <1>0, NamedType
  <2>3. PICK call \in ReadCalls :
          /\ Spend(call)
          /\ local' = [local EXCEPT ![h] = AfterLoad(q, requests[i], call)]
    BY <2>1 DEF StartClose
  <2> HIDE DEF q
  <2>4. AfterLoad(q, requests[i], call) \in Local
    BY <1>0, <2>2, AfterLoadType
  <2>5. local' \in [Handlers -> Local] /\ faults' \in Nat
    BY <1>0, <2>3, <2>4, SpendType
  <2> QED
    BY <2>1, <2>5 DEF StartClose, TypeOK
<1> QED
  BY <1>1, <1>2, <1>3, <1>4 DEF Arrive

\* The record a create stores.
LEMMA PendingType ==
  ASSUME TypeOK, NEW q \in Local, q.id \in Ids
  PROVE  PendingRequest(q) \in SecretRequest
<1>1. asked[q.id] \in Nat /\ now \in Nat
  BY AskedType DEF TypeOK
<1>2. DiesAt(asked[q.id], now) \in Nat
  BY <1>1, TimesType
<1>3. q.key \in Origin /\ q.due \in Nat
  BY DEF Local
<1> QED
  BY <1>2, <1>3 DEF PendingRequest, SecretRequest, Origin

\* The record an Update stores.
LEMMA UpdatedType ==
  ASSUME TypeOK, NEW h \in Handlers
  PROVE  Updated(h) \in SecretRequest
<1> DEFINE q == local[h]
           changed == IF q.op = "fulfill"
                      THEN [q.base EXCEPT !.state = "fulfilled", !.secret = h]
                      ELSE [q.base EXCEPT !.key = q.key]
           dies == DiesAt(SecondsUntil(q.base.expiresAt, q.at), now)
<1>1. q \in Local /\ now \in Nat
  BY DEF TypeOK
<1>2. /\ q.base \in SecretRequest /\ q.key \in Origin /\ q.at \in Nat
      /\ q.base.expiresAt \in Nat
  BY <1>1 DEF Local, SecretRequest
<1>3. dies \in Nat
  <2>1. SecondsUntil(q.base.expiresAt, q.at) \in Nat
    BY <1>2, TimesType
  <2> QED
    BY <1>1, <2>1, TimesType
<1>4. changed \in SecretRequest
  BY <1>2 DEF SecretRequest, Origin
<1>5. Updated(h) = [changed EXCEPT !.dies = dies, !.ver = @ + 1]
  BY DEF Updated
<1> HIDE DEF q, changed, dies
<1>6. changed.ver + 1 \in Nat
  BY <1>4 DEF SecretRequest
<1> QED
  BY <1>3, <1>4, <1>5, <1>6 DEF SecretRequest

\* Answering keeps the handlers typed, whoever does it.
LEMMA AnswerType ==
  ASSUME local \in [Handlers -> Local], NEW h \in Handlers, NEW a \in Answers,
         Answer(h, a)
  PROVE  local' \in [Handlers -> Local]
<1>1. Done(local[h], a) \in Local
  BY DoneType
<1> QED
  BY <1>1 DEF Answer

LEMMA FetchedType ==
  ASSUME NEW q \in Local, NEW removed
  PROVE  Fetched(q, removed) \in Local
<1>1. q.base.secret \in Origin
  BY DEF Local, SecretRequest
<1>2. [q EXCEPT !.took = q.base.secret] \in Local
  BY <1>1 DEF Local
<1>3. /\ Done([q EXCEPT !.took = q.base.secret], "content") \in Local
      /\ Done(q, "404") \in Local
  BY <1>2, DoneType DEF Answers
<1> QED
  BY <1>3 DEF Fetched

LEMMA HandleTypeOK ==
  ASSUME TypeOK, NEW h \in Handlers, local[h].id \in Ids, Handle(h)
  PROVE  TypeOK'
<1> DEFINE q == local[h]
           i == q.id
<1>0. /\ local \in [Handlers -> Local] /\ q \in Local /\ faults \in Nat
      /\ requests \in [Ids -> SecretRequest] /\ now \in Nat
      /\ requests[i] \in SecretRequest
  BY DEF TypeOK
<1>1. CASE PutRequest(h)
  <2>1. PICK call \in WriteCalls :
          /\ Spend(call)
          /\ requests' = IF Applied(call)
                         THEN [requests EXCEPT ![i] = PendingRequest(q)]
                         ELSE requests
          /\ Answer(h, IF Errs(call) THEN "500" ELSE "created")
    BY <1>1 DEF PutRequest
  <2>2. requests' \in [Ids -> SecretRequest]
    BY <1>0, <2>1, PendingType
  <2>3. (IF Errs(call) THEN "500" ELSE "created") \in Answers
    BY DEF Answers
  <2>4. local' \in [Handlers -> Local] /\ faults' \in Nat
    BY <1>0, <2>1, <2>3, AnswerType, SpendType
  <2> QED
    BY <1>1, <2>2, <2>4 DEF PutRequest, TypeOK
<1>2. CASE ReadAgain(h)
  <2>1. PICK call \in ReadCalls :
          /\ Spend(call)
          /\ local' = [local EXCEPT ![h] = AfterRead(q, requests[i], call)]
    BY <1>2 DEF ReadAgain
  <2>2. AfterRead(q, requests[i], call) \in Local
    BY <1>0, AfterReadType
  <2>3. local' \in [Handlers -> Local] /\ faults' \in Nat
    BY <1>0, <2>1, <2>2, SpendType
  <2> QED
    BY <1>2, <2>3 DEF ReadAgain, TypeOK
<1>3. CASE UpdateSwap(h)
  <2>1. PICK call \in WriteCalls :
          /\ Spend(call)
          /\ requests' = IF Applied(call)
                         THEN [requests EXCEPT ![i] = Updated(h)]
                         ELSE requests
          /\ Answer(h, IF Errs(call) THEN "500"
                       ELSE IF q.op = "fulfill" THEN "provided" ELSE "rotated")
    BY <1>3 DEF UpdateSwap
  <2>2. requests' \in [Ids -> SecretRequest]
    BY <1>0, <2>1, UpdatedType
  <2>3. (IF Errs(call) THEN "500"
         ELSE IF q.op = "fulfill" THEN "provided" ELSE "rotated") \in Answers
    BY DEF Answers
  <2>4. local' \in [Handlers -> Local] /\ faults' \in Nat
    BY <1>0, <2>1, <2>3, AnswerType, SpendType
  <2> QED
    BY <1>3, <2>2, <2>4 DEF UpdateSwap, TypeOK
<1>4. CASE UpdateMissing(h)
  <2>1. local' \in [Handlers -> Local]
    BY <1>0, <1>4, AnswerType DEF UpdateMissing, Answers
  <2> QED
    BY <1>4, <2>1 DEF UpdateMissing, TypeOK
<1>5. CASE UpdateConflict(h)
  <2> DEFINE again == [q EXCEPT !.pc = "read", !.tries = q.tries + 1,
                                !.base = NoRequest, !.at = 0]
  <2>1. again \in Local
    <3>1. q.tries + 1 \in Nat /\ 0 \in Nat
      BY <1>0 DEF Local
    <3> HIDE DEF q
    <3> QED
      BY <1>0, <3>1, NoRequestType DEF Local
  <2>2. Done(q, "500") \in Local
    BY <1>0, DoneType DEF Answers
  <2>3. \E x \in {again, Done(q, "500")} : local' = [local EXCEPT ![h] = x]
    BY <1>5 DEF UpdateConflict
  <2> HIDE DEF again
  <2>4. local' \in [Handlers -> Local]
    BY <1>0, <2>1, <2>2, <2>3
  <2> QED
    BY <1>5, <2>4 DEF UpdateConflict, TypeOK
<1>6. CASE DeleteRequest(h)
  <2>1. PICK call \in DeleteCalls :
          /\ Spend(call)
          /\ requests' = IF Applied(call)
                         THEN [requests EXCEPT ![i] = NoRequest]
                         ELSE requests
          /\ local' = [local EXCEPT ![h] =
               IF Errs(call) THEN Done(q, "500")
               ELSE IF q.op = "revoke" THEN Done(q, "gone204")
               ELSE Fetched(q, requests[i].stored /\ call # "repeated")]
    BY <1>6 DEF DeleteRequest
  <2>2. requests' \in [Ids -> SecretRequest]
    BY <1>0, <2>1, NoRequestType
  <2>3. /\ Done(q, "500") \in Local /\ Done(q, "gone204") \in Local
        /\ Fetched(q, requests[i].stored /\ call # "repeated") \in Local
    BY <1>0, DoneType, FetchedType DEF Answers
  <2>4. local' \in [Handlers -> Local] /\ faults' \in Nat
    BY <1>0, <2>1, <2>3, SpendType
  <2> QED
    BY <1>6, <2>2, <2>4 DEF DeleteRequest, TypeOK
<1> QED
  BY <1>1, <1>2, <1>3, <1>4, <1>5, <1>6 DEF Handle

LEMMA AroundTypeOK ==
  ASSUME TypeOK,
         \/ Tick \/ LicenseExpires \/ Quiet
         \/ \E i \in Ids : View(i) \/ Evict(i)
         \/ \E h \in Handlers : Crash(h)
  PROVE  TypeOK'
<1>1. CASE Tick
  <2>1. now' \in Nat /\ requests' \in [Ids -> SecretRequest]
    BY <1>1, NoRequestType DEF Tick, TypeOK
  <2> QED
    BY <1>1, <2>1 DEF Tick, TypeOK
<1>2. CASE LicenseExpires \/ Quiet
  BY <1>2 DEF LicenseExpires, Quiet, TypeOK, vars
<1>3. CASE \E i \in Ids : View(i)
  <2>1. PICK i \in Ids : View(i)
    BY <1>3
  <2>2. requests[i].key \in Origin
    BY DEF TypeOK, SecretRequest
  <2>3. seen' \in [Ids -> SUBSET Origin]
    BY <2>1, <2>2 DEF View, TypeOK
  <2> QED
    BY <2>1, <2>3 DEF View, TypeOK
<1>4. CASE \E i \in Ids : Evict(i)
  BY <1>4, NoRequestType DEF Evict, TypeOK
<1>5. CASE \E h \in Handlers : Crash(h)
  <2>1. local' \in [Handlers -> Local]
    BY <1>5, AnswerType DEF Crash, TypeOK, Answers
  <2> QED
    BY <1>5, <2>1 DEF Crash, TypeOK
<1> QED
  BY <1>1, <1>2, <1>3, <1>4, <1>5

LEMMA InitTypeOK == Init => TypeOK
<1> SUFFICES ASSUME Init PROVE TypeOK
  OBVIOUS
<1> DEFINE q0 == [pc |-> "idle", op |-> "none", id |-> NoId, key |-> NoHandler,
                  owner |-> FALSE, base |-> NoRequest, at |-> 0, due |-> 0,
                  tries |-> 0, took |-> NoHandler, resp |-> "none"]
<1>1. q0 \in Local
  BY NoRequestType DEF Local, Origin, Answers
<1>2. local = [h \in Handlers |-> q0]
  BY DEF Init
<1> HIDE DEF q0
<1>3. local \in [Handlers -> Local]
  BY <1>1, <1>2
<1> QED
  BY <1>3, NoRequestType DEF Init, TypeOK

------------------------------------------------------------------------------
(***************************************************************************)
(* The invariant LifeInv, by what a step changes: the handler alone        *)
(* (LocalStep), entries that vanish (ShrinkStep), or one entry together    *)
(* with the handler that writes it (CreateStep, PutStep, SwapStep,         *)
(* DeleteStep).                                                            *)
(***************************************************************************)

\* A handler alone changes, and its step acknowledges nothing.
LEMMA LocalStep ==
  ASSUME TypeOK, LifeInv, NEW h \in Handlers, NEW q \in Local,
         UNCHANGED <<requests, asked>>,
         local' = [local EXCEPT ![h] = q],
         local[h].pc # "done",
         local[h].op = "rotate" => q.op = "rotate",
         q.pc # "put",
         q.took = NoHandler,
         q.resp \notin {"provided", "rotated", "gone204"},
         Sound(h, q),
         q.id # NoId => Current(q, requests[q.id]),
         \A g \in Handlers : At(g, "put") /\ g # h => local[g].id # q.id
  PROVE  LifeInv'
<1>1. /\ local'[h] = q
      /\ \A g \in Handlers : g # h => local'[g] = local[g]
  BY DEF TypeOK
<1>2. /\ \A g \in Handlers : local'[g].took = local[g].took
      /\ \A g \in Handlers : Collected(g)' = Collected(g)
  BY <1>1 DEF LifeInv, HandlerInv, Sound, Collected
<1>3. \A g \in Handlers : \A a \in {"provided", "rotated", "gone204"} :
         local'[g].resp = a => g # h /\ local[g].resp = a
  BY <1>1
<1>4. HandlerInv'
  BY <1>1 DEF LifeInv, HandlerInv, Sound, Issued
<1>5. BaseInv'
  BY <1>1 DEF LifeInv, BaseInv
<1>6. RecordInv'
  BY DEF LifeInv, RecordInv, Issued
<1>7. CreateInv'
  <2> SUFFICES ASSUME NEW p \in Handlers, At(p, "put")'
               PROVE  /\ ~requests[local'[p].id].stored
                      /\ \A g \in Handlers : local'[g].id = local'[p].id => g = p
    BY DEF CreateInv
  <2>1. p # h /\ At(p, "put") /\ local'[p] = local[p]
    BY <1>1 DEF At
  <2> QED
    BY <1>1, <2>1 DEF LifeInv, CreateInv
<1>8. AcceptedOnce'
  <2> SUFFICES ASSUME NEW p \in Handlers, Provided(p)'
               PROVE  (LET i == local[p].id IN
                       /\ requests[i].stored => requests[i].state = "fulfilled"
                                                /\ requests[i].secret = p
                       /\ \A g \in Handlers : local[g].id = i =>
                            /\ Provided(g) => g = p
                            /\ Collected(g) => local[g].took = p)'
    BY DEF AcceptedOnce
  <2>1. p # h /\ Provided(p) /\ local'[p] = local[p]
    BY <1>1, <1>3 DEF Provided
  <2>2. ~Provided(h)' /\ ~Collected(h)'
    BY <1>1 DEF Provided, Collected
  <2> QED
    BY <1>1, <2>1, <2>2 DEF LifeInv, AcceptedOnce, Provided, Collected
<1>9. HandedOutOnce'
  <2>1. ~Collected(h)'
    BY <1>1 DEF Collected
  <2> QED
    BY <1>1, <2>1 DEF LifeInv, HandedOutOnce, Collected
<1>10. RotationSticks'
  <2> SUFFICES ASSUME NEW p \in Handlers, local'[p].resp = "rotated",
                      requests[local'[p].id].stored
               PROVE  local'[requests[local'[p].id].key].op = "rotate"
    BY DEF RotationSticks
  <2>1. local'[p] = local[p] /\ local[p].resp = "rotated"
    BY <1>1, <1>3
  <2>2. local[p].id \in Ids
    BY <2>1 DEF LifeInv, HandlerInv, Sound, TypeOK, Local
  <2>3. requests[local[p].id].key \in Handlers
    BY <2>1, <2>2 DEF LifeInv, RecordInv
  <2>4. local[requests[local[p].id].key].op = "rotate"
    BY <2>1 DEF LifeInv, RotationSticks
  <2> QED
    BY <1>1, <2>1, <2>3, <2>4
<1>11. RevokedInv'
  BY <1>1, <1>3 DEF LifeInv, RevokedInv
<1> QED
  BY <1>4, <1>5, <1>6, <1>7, <1>8, <1>9, <1>10, <1>11 DEF LifeInv

\* Entries vanish, and nothing else changes.
LEMMA ShrinkStep ==
  ASSUME TypeOK, LifeInv, UNCHANGED <<local, asked>>,
         \A i \in Ids : requests'[i].stored => requests'[i] = requests[i]
  PROVE  LifeInv'
<1>1. \A g \in Handlers :
        /\ local[g].pc = "put" \/ Provided(g) \/ Collected(g)
           \/ local[g].resp \in {"rotated", "gone204"}
        => local[g].id \in Ids
  BY DEF LifeInv, HandlerInv, Sound, TypeOK, Local, Provided, Collected
<1>2. HandlerInv'
  BY DEF LifeInv, HandlerInv, Sound, Issued
<1>3. BaseInv'
  <2> SUFFICES ASSUME NEW g \in Handlers, local[g].id # NoId
               PROVE  Current(local[g], requests'[local[g].id])
    BY DEF BaseInv
  <2>1. local[g].id \in Ids
    BY DEF TypeOK, Local
  <2> QED
    BY <2>1 DEF LifeInv, BaseInv, Current
<1>4. RecordInv'
  BY DEF LifeInv, RecordInv, Issued
<1>5. CreateInv'
  BY <1>1 DEF LifeInv, CreateInv, At
<1>6. AcceptedOnce'
  BY <1>1 DEF LifeInv, AcceptedOnce, Provided, Collected
<1>7. HandedOutOnce'
  BY <1>1 DEF LifeInv, HandedOutOnce, Collected
<1>8. RotationSticks'
  BY <1>1 DEF LifeInv, RotationSticks
<1>9. RevokedInv'
  BY <1>1 DEF LifeInv, RevokedInv
<1> QED
  BY <1>2, <1>3, <1>4, <1>5, <1>6, <1>7, <1>8, <1>9 DEF LifeInv

\* The handlers that something is known of are about an ID.
LEMMA KnownIds ==
  ASSUME TypeOK, LifeInv, NEW g \in Handlers,
         \/ InFlight(g) \/ Provided(g) \/ Collected(g)
         \/ local[g].resp \in {"created", "rotated", "gone204"}
  PROVE  local[g].id \in Ids
  BY DEF LifeInv, HandlerInv, Sound, TypeOK, Local, Provided, Collected, InFlight

\* A create draws an ID that occurs nowhere.
LEMMA CreateStep ==
  ASSUME TypeOK, LifeInv, NEW h \in Handlers, NEW i \in Ids,
         NEW life \in AskedLifetimes, StartCreate(h, i, life)
  PROVE  LifeInv'
<1> DEFINE q == [local[h] EXCEPT !.pc = "put", !.op = "create", !.id = i,
                                 !.key = h, !.due = now + life]
<1>1. /\ local[h] \in Local /\ local[h].pc = "idle" /\ local[h].op = "none"
      /\ local[h].resp = "none" /\ local[h].took = NoHandler
      /\ local[h].id = NoId
  BY DEF TypeOK, StartCreate, At, LifeInv, HandlerInv, Sound
<1>2. /\ q.pc = "put" /\ q.op = "create" /\ q.id = i /\ q.key = h
      /\ q.took = NoHandler /\ q.resp = "none"
  BY <1>1 DEF Local
<1>3. local' = [local EXCEPT ![h] = q] /\ requests' = requests
  BY DEF StartCreate
<1> HIDE DEF q
<1>4. /\ local'[h] = q
      /\ \A g \in Handlers : g # h => local'[g] = local[g]
  BY <1>3 DEF TypeOK
<1>5. /\ ~requests[i].stored
      /\ \A g \in Handlers : local[g].id # i
  BY NamesAssumption DEF StartCreate, LifeInv, HandlerInv, RecordInv, Sound
<1>6. \A j \in Ids : Issued(j) => Issued(j)'
  BY <1>5 DEF StartCreate, Issued, TypeOK
<1>7. Issued(i)'
  <2>1. life # 0
    BY LifetimesAssumption DEF StartCreate, ValidExpiration
  <2> QED
    BY <2>1 DEF StartCreate, Issued, TypeOK
<1>8. \A g \in Handlers : local[g].id # NoId => local[g].id \in Ids
  BY DEF TypeOK, Local
<1>9. HandlerInv'
  <2> SUFFICES ASSUME NEW g \in Handlers PROVE Sound(g, local[g])'
    BY DEF HandlerInv
  <2>1. CASE g = h
    BY <1>2, <1>4, <1>7, <2>1, NamesAssumption DEF Sound
  <2>2. CASE g # h
    <3>1. Sound(g, local[g])
      BY DEF LifeInv, HandlerInv
    <3> QED
      BY <1>4, <1>6, <1>8, <2>2, <3>1 DEF Sound
  <2> QED
    BY <2>1, <2>2
<1>10. BaseInv'
  BY <1>2, <1>3, <1>4 DEF LifeInv, BaseInv, Current
<1>11. RecordInv'
  BY <1>3, <1>6 DEF LifeInv, RecordInv
<1>12. CreateInv'
  BY <1>2, <1>3, <1>4, <1>5 DEF LifeInv, CreateInv, At
<1>13. ~Provided(h)' /\ ~Collected(h)'
  BY <1>2, <1>4 DEF Provided, Collected
<1>14. AcceptedOnce'
  BY <1>3, <1>4, <1>13 DEF LifeInv, AcceptedOnce, Provided, Collected
<1>15. HandedOutOnce'
  BY <1>3, <1>4, <1>13 DEF LifeInv, HandedOutOnce, Collected
<1>16. RotationSticks'
  <2> SUFFICES ASSUME NEW p \in Handlers, local'[p].resp = "rotated",
                      requests[local'[p].id].stored
               PROVE  local'[requests[local'[p].id].key].op = "rotate"
    BY <1>3 DEF RotationSticks
  <2>1. local'[p] = local[p] /\ local[p].resp = "rotated"
    BY <1>2, <1>4
  <2>2. local[p].id \in Ids
    BY <2>1, KnownIds
  <2>3. requests[local[p].id].key \in Handlers
    BY <2>1, <2>2 DEF LifeInv, RecordInv
  <2>4. local[requests[local[p].id].key].op = "rotate"
    BY <2>1 DEF LifeInv, RotationSticks
  <2> QED
    BY <1>1, <1>4, <2>1, <2>3, <2>4
<1>17. RevokedInv'
  BY <1>2, <1>3, <1>4 DEF LifeInv, RevokedInv
<1> QED
  BY <1>9, <1>10, <1>11, <1>12, <1>14, <1>15, <1>16, <1>17 DEF LifeInv

\* A create stores its record: nobody else knows the ID.
LEMMA PutStep ==
  ASSUME TypeOK, LifeInv, NEW h \in Handlers, At(h, "put"), UNCHANGED asked,
         NEW a \in {"500", "created"},
         requests' = [requests EXCEPT ![local[h].id] = PendingRequest(local[h])],
         local' = [local EXCEPT ![h] = Done(local[h], a)]
  PROVE  LifeInv'
<1> DEFINE i == local[h].id
           q == Done(local[h], a)
           rec == PendingRequest(local[h])
<1>1. /\ i \in Ids /\ local[h] \in Local /\ Issued(i) /\ local[h].key = h
      /\ local[h].took = NoHandler
  BY NamesAssumption, KnownIds DEF TypeOK, InFlight, At, LifeInv, HandlerInv, Sound
<1>2. /\ q.pc = "done" /\ q.id = i /\ q.took = NoHandler /\ q.resp = a
      /\ q.op = local[h].op /\ q.key = h
  BY <1>1, DoneFields
<1>3. rec.stored /\ rec.state = "pending" /\ rec.key = h
  BY <1>1 DEF PendingRequest
<1>4. \A g \in Handlers : local[g].id = i => g = h
  BY DEF LifeInv, CreateInv
<1>5. Sound(h, q)
  BY <1>1, <1>2, NamesAssumption DEF LifeInv, HandlerInv, Sound
<1> HIDE DEF q, rec
<1>6. /\ local'[h] = q
      /\ \A g \in Handlers : g # h => local'[g] = local[g]
      /\ requests'[i] = rec
      /\ \A j \in Ids : j # i => requests'[j] = requests[j]
  BY <1>1 DEF TypeOK, q, rec
<1> HIDE DEF i
<1>7. \A g \in Handlers :
        /\ \/ local[g].pc = "put" \/ Provided(g) \/ Collected(g)
           \/ local[g].resp \in {"rotated", "gone204"}
        /\ g # h
        => /\ local[g].id \in Ids \ {i}
           /\ requests'[local[g].id] = requests[local[g].id]
  BY <1>4, <1>6, KnownIds DEF InFlight
<1>8. HandlerInv'
  BY <1>5, <1>6 DEF LifeInv, HandlerInv, Sound, Issued
<1>9. BaseInv'
  <2> SUFFICES ASSUME NEW g \in Handlers, local'[g].id # NoId
               PROVE  Current(local'[g], requests'[local'[g].id])
    BY DEF BaseInv
  <2>1. CASE g = h
    BY <1>2, <1>6, <2>1 DEF Current
  <2>2. CASE g # h
    <3>1. local[g].id \in Ids \ {i}
      BY <1>4, <1>6, <2>2 DEF TypeOK, Local
    <3> QED
      BY <1>6, <2>2, <3>1 DEF LifeInv, BaseInv
  <2> QED
    BY <2>1, <2>2
<1>10. RecordInv'
  BY <1>1, <1>3, <1>6 DEF LifeInv, RecordInv, Issued
<1>11. CreateInv'
  BY <1>2, <1>6, <1>7 DEF LifeInv, CreateInv, At
<1>12. ~Provided(h)' /\ ~Collected(h)'
  BY <1>2, <1>6 DEF Provided, Collected
<1>13. AcceptedOnce'
  BY <1>6, <1>7, <1>12 DEF LifeInv, AcceptedOnce, Provided, Collected
<1>14. HandedOutOnce'
  BY <1>6, <1>7, <1>12 DEF LifeInv, HandedOutOnce, Collected
<1>15. RotationSticks'
  <2> SUFFICES ASSUME NEW p \in Handlers, local'[p].resp = "rotated",
                      requests'[local'[p].id].stored
               PROVE  local'[requests'[local'[p].id].key].op = "rotate"
    BY DEF RotationSticks
  <2>1. p # h /\ local'[p] = local[p] /\ local[p].resp = "rotated"
    BY <1>2, <1>6
  <2>2. requests'[local[p].id] = requests[local[p].id] /\ local[p].id \in Ids
    BY <1>7, <2>1
  <2>3. requests[local[p].id].key \in Handlers
    BY <2>1, <2>2 DEF LifeInv, RecordInv
  <2>4. local[requests[local[p].id].key].op = "rotate"
    BY <2>1, <2>2 DEF LifeInv, RotationSticks
  <2> QED
    BY <1>2, <1>6, <2>1, <2>2, <2>3, <2>4
<1>16. RevokedInv'
  BY <1>2, <1>6, <1>7 DEF LifeInv, RevokedInv
<1> QED
  BY <1>8, <1>9, <1>10, <1>11, <1>13, <1>14, <1>15, <1>16 DEF LifeInv

\* An Update that commits found the record it had read, and it was pending.
LEMMA SwapFacts ==
  ASSUME TypeOK, LifeInv, NEW h \in Handlers, At(h, "cas"),
         CasMatches(requests[local[h].id], local[h].base)
  PROVE  LET q == local[h]
             old == requests[q.id]
             rec == Updated(h)
         IN  /\ q.id \in Ids /\ q.took = NoHandler
             /\ old.stored /\ old.state = "pending" /\ old = q.base
             /\ rec.stored /\ rec.ver = old.ver + 1
             /\ \/ /\ q.op = "fulfill" /\ rec.state = "fulfilled"
                   /\ rec.secret = h /\ rec.key = old.key
                \/ /\ q.op = "rotate" /\ q.owner /\ rec.state = "pending"
                   /\ rec.key = h /\ rec.secret = old.secret
<1> DEFINE q == local[h]
           old == requests[q.id]
           changed == IF q.op = "fulfill"
                      THEN [q.base EXCEPT !.state = "fulfilled", !.secret = h]
                      ELSE [q.base EXCEPT !.key = q.key]
<1>1. /\ q.id \in Ids /\ q.id # NoId /\ q \in Local /\ q.took = NoHandler
      /\ old \in SecretRequest
  BY KnownIds, NamesAssumption DEF InFlight, At, TypeOK, LifeInv, HandlerInv, Sound
<1>2. /\ q.op \in {"fulfill", "rotate"}
      /\ q.op = "rotate" => q.key = h /\ q.owner
  BY DEF LifeInv, HandlerInv, Sound, At
<1>3. old.stored /\ old = q.base /\ old.state = "pending"
  BY <1>1 DEF LifeInv, BaseInv, Current, At, CasMatches
<1>4. \E d : Updated(h) = [changed EXCEPT !.dies = d, !.ver = @ + 1]
  BY DEF Updated
<1>5. PICK d : Updated(h) = [changed EXCEPT !.dies = d, !.ver = @ + 1]
  BY <1>4
<1>6. CASE q.op = "fulfill"
  <2>1. changed = [old EXCEPT !.state = "fulfilled", !.secret = h]
    BY <1>3, <1>6
  <2> HIDE DEF q, old, changed
  <2>2. /\ Updated(h).stored /\ Updated(h).ver = old.ver + 1
        /\ Updated(h).state = "fulfilled" /\ Updated(h).secret = h
        /\ Updated(h).key = old.key
    BY <1>1, <1>3, <1>5, <2>1 DEF SecretRequest
  <2> QED
    BY <1>1, <1>3, <1>6, <2>2 DEF q, old
<1>7. CASE q.op = "rotate"
  <2>1. changed = [old EXCEPT !.key = h]
    BY <1>2, <1>3, <1>7
  <2> HIDE DEF q, old, changed
  <2>2. /\ Updated(h).stored /\ Updated(h).ver = old.ver + 1
        /\ Updated(h).state = "pending" /\ Updated(h).key = h /\ Updated(h).secret = old.secret
    BY <1>1, <1>3, <1>5, <2>1 DEF SecretRequest
  <2> QED
    BY <1>1, <1>2, <1>3, <1>7, <2>2 DEF q, old
<1> QED
  BY <1>2, <1>6, <1>7

\* An Update commits: no other answer was acknowledged, nothing was collected
\* and nothing revoked, and every other handler's copy is now out of date.
LEMMA SwapStep ==
  ASSUME TypeOK, LifeInv, NEW h \in Handlers, At(h, "cas"), UNCHANGED asked,
         CasMatches(requests[local[h].id], local[h].base),
         NEW a \in {"500", "provided", "rotated"},
         a = "provided" => local[h].op = "fulfill",
         a = "rotated" => local[h].op = "rotate",
         requests' = [requests EXCEPT ![local[h].id] = Updated(h)],
         local' = [local EXCEPT ![h] = Done(local[h], a)]
  PROVE  LifeInv'
<1> DEFINE i == local[h].id
           q == Done(local[h], a)
           old == requests[i]
           rec == Updated(h)
<1>1. /\ i \in Ids /\ local[h] \in Local /\ local[h].took = NoHandler
      /\ old.stored /\ old.state = "pending"
      /\ rec.stored /\ rec.ver = old.ver + 1 /\ old.ver \in Nat
  BY SwapFacts DEF TypeOK, SecretRequest
<1>2. \/ /\ local[h].op = "fulfill" /\ rec.state = "fulfilled"
         /\ rec.secret = h /\ rec.key = old.key
      \/ local[h].op = "rotate" /\ rec.state = "pending" /\ rec.key = h
  BY SwapFacts
<1>3. /\ q.pc = "done" /\ q.id = i /\ q.took = NoHandler /\ q.resp = a
      /\ q.op = local[h].op /\ q.key = local[h].key
  BY <1>1, DoneFields
<1>4. Sound(h, q)
  BY <1>1, <1>3, NamesAssumption DEF LifeInv, HandlerInv, Sound
<1>5. Issued(i) /\ old.key \in Handlers
  BY <1>1 DEF LifeInv, RecordInv
<1> HIDE DEF q, rec
<1>6. /\ local'[h] = q
      /\ \A g \in Handlers : g # h => local'[g] = local[g]
      /\ requests'[i] = rec
      /\ \A j \in Ids : j # i => requests'[j] = requests[j]
  BY <1>1 DEF TypeOK, q, rec
<1>7. \A g \in Handlers : local[g].id = i =>
        /\ ~Provided(g) /\ ~Collected(g) /\ local[g].resp # "gone204"
        /\ local[g].pc # "put"
        /\ ~(local[g].pc = "delete" /\ local[g].op = "fetch")
        /\ At(g, "cas") => local[g].base.ver <= old.ver
  <2> SUFFICES ASSUME NEW g \in Handlers, local[g].id = i
               PROVE  /\ ~Provided(g) /\ ~Collected(g)
                      /\ local[g].resp # "gone204" /\ local[g].pc # "put"
                      /\ ~(local[g].pc = "delete" /\ local[g].op = "fetch")
                      /\ At(g, "cas") => local[g].base.ver <= old.ver
    OBVIOUS
  <2>1. Current(local[g], old)
    BY <1>1, NamesAssumption DEF LifeInv, BaseInv
  <2>2. ~Provided(g)
    BY <1>1 DEF LifeInv, AcceptedOnce
  <2>3. ~Collected(g)
    BY <1>1 DEF LifeInv, HandedOutOnce
  <2>4. local[g].resp # "gone204"
    BY <1>1 DEF LifeInv, RevokedInv
  <2>5. local[g].pc # "put"
    BY <1>1 DEF LifeInv, CreateInv, At
  <2> QED
    BY <1>1, <2>1, <2>2, <2>3, <2>4, <2>5 DEF Current, At
<1> HIDE DEF i, old
<1>8. \A g \in Handlers :
        /\ \/ local[g].pc = "put" \/ Provided(g) \/ Collected(g)
           \/ local[g].resp \in {"rotated", "gone204"}
        => local[g].id \in Ids
  BY KnownIds DEF InFlight
<1>9. HandlerInv'
  BY <1>4, <1>6 DEF LifeInv, HandlerInv, Sound, Issued
<1>10. BaseInv'
  <2> SUFFICES ASSUME NEW g \in Handlers, local'[g].id # NoId
               PROVE  Current(local'[g], requests'[local'[g].id])
    BY DEF BaseInv
  <2>1. CASE g = h
    BY <1>3, <1>6, <2>1 DEF Current
  <2>2. CASE g # h /\ local[g].id = i
    <3>1. local'[g] = local[g] /\ requests'[local[g].id] = rec
      BY <1>6, <2>2
    <3>2. At(g, "cas") => /\ local[g].base.state = "pending"
                          /\ local[g].base.ver \in Nat
      BY <1>6, <2>2 DEF LifeInv, BaseInv, Current, At, TypeOK, Local, SecretRequest
    <3>3. At(g, "cas") => /\ local[g].base.ver <= rec.ver
                          /\ local[g].base.ver # rec.ver
      BY <1>1, <1>7, <2>2, <3>2
    <3> QED
      BY <1>7, <2>2, <3>1, <3>2, <3>3 DEF Current, At
  <2>3. CASE g # h /\ local[g].id # i
    <3>1. local'[g] = local[g] /\ local[g].id \in Ids
      BY <1>6, <2>3 DEF TypeOK, Local
    <3> QED
      BY <1>6, <2>3, <3>1 DEF LifeInv, BaseInv
  <2> QED
    BY <2>1, <2>2, <2>3
<1>11. RecordInv'
  BY <1>2, <1>5, <1>6 DEF LifeInv, RecordInv, Issued
<1>12. CreateInv'
  BY <1>3, <1>6, <1>7, <1>8 DEF LifeInv, CreateInv, At
<1>13. ~Collected(h)' /\ \A g \in Handlers : local'[g].id = local[g].id
  BY <1>3, <1>6 DEF Collected, i
<1>14. AcceptedOnce'
  <2> SUFFICES ASSUME NEW p \in Handlers, Provided(p)'
               PROVE  /\ requests'[local[p].id].stored =>
                           /\ requests'[local[p].id].state = "fulfilled"
                           /\ requests'[local[p].id].secret = p
                      /\ \A g \in Handlers : local[g].id = local[p].id =>
                           /\ Provided(g)' => g = p
                           /\ Collected(g)' => local'[g].took = p
    BY <1>13 DEF AcceptedOnce
  <2>1. CASE p = h
    <3>1. a = "provided" /\ local[p].id = i
      BY <1>3, <1>6, <2>1 DEF Provided, i
    <3>2. rec.state = "fulfilled" /\ rec.secret = h
      BY <1>2, <3>1
    <3>3. \A g \in Handlers : g # h /\ local[g].id = i =>
             ~Provided(g)' /\ ~Collected(g)'
      BY <1>6, <1>7 DEF Provided, Collected
    <3> QED
      BY <1>6, <1>13, <2>1, <3>1, <3>2, <3>3
  <2>2. CASE p # h
    <3>1. Provided(p) /\ local[p].id \in Ids \ {i}
      BY <1>6, <1>7, <1>8, <2>2 DEF Provided
    <3>2. requests'[local[p].id] = requests[local[p].id]
      BY <1>6, <3>1
    <3>3. \A g \in Handlers : local[g].id = local[p].id =>
             local'[g] = local[g]
      BY <1>6, <3>1 DEF i
    <3> QED
      BY <3>1, <3>2, <3>3 DEF LifeInv, AcceptedOnce, Provided, Collected
  <2> QED
    BY <2>1, <2>2
<1>15. HandedOutOnce'
  BY <1>6, <1>7, <1>8, <1>13 DEF LifeInv, HandedOutOnce, Collected
<1>16. RotationSticks'
  <2> SUFFICES ASSUME NEW p \in Handlers, local'[p].resp = "rotated",
                      requests'[local'[p].id].stored
               PROVE  local'[requests'[local'[p].id].key].op = "rotate"
    BY DEF RotationSticks
  <2>1. local[p].id \in Ids /\ local'[p].id = local[p].id
    BY <1>1, <1>6, <1>8, <1>13 DEF i
  <2>2. \A g \in Handlers : local'[g].op = local[g].op
    BY <1>3, <1>6
  <2>3. CASE local[p].id = i /\ local[h].op = "rotate"
    BY <1>2, <1>6, <2>1, <2>2, <2>3
  <2>4. CASE local[p].id = i /\ local[h].op = "fulfill"
    <3>1. p # h /\ local[p].resp = "rotated"
      BY <1>3, <1>6, <2>4
    <3>2. local[old.key].op = "rotate"
      BY <1>1, <2>4, <3>1 DEF LifeInv, RotationSticks, i, old
    <3> QED
      BY <1>2, <1>5, <1>6, <2>1, <2>2, <2>4, <3>2
  <2>5. CASE local[p].id # i
    <3>1. p # h /\ local[p].resp = "rotated"
      BY <1>6, <2>5 DEF i
    <3>2. requests'[local[p].id] = requests[local[p].id]
      BY <1>6, <2>1, <2>5
    <3>3. local[requests[local[p].id].key].op = "rotate"
      BY <2>1, <3>1, <3>2 DEF LifeInv, RotationSticks
    <3>4. requests[local[p].id].key \in Handlers
      BY <2>1, <3>2 DEF LifeInv, RecordInv
    <3> QED
      BY <2>1, <2>2, <3>2, <3>3, <3>4
  <2> QED
    BY <1>2, <2>3, <2>4, <2>5
<1>17. RevokedInv'
  BY <1>3, <1>6, <1>7, <1>8 DEF LifeInv, RevokedInv
<1> QED
  BY <1>9, <1>10, <1>11, <1>12, <1>14, <1>15, <1>16, <1>17 DEF LifeInv

\* A fetch or a revocation deletes the record; a fetch that removed it takes
\* the ciphertext it had read, which is the one that was there.
LEMMA DeleteStep ==
  ASSUME TypeOK, LifeInv, NEW h \in Handlers, At(h, "delete"), UNCHANGED asked,
         NEW q \in Local,
         q.pc = "done", q.id = local[h].id, q.op = local[h].op,
         q.key = local[h].key,
         q.resp \in {"404", "500", "gone204", "content"},
         \/ q.took = NoHandler
         \/ /\ requests[q.id].stored /\ q.op = "fetch"
            /\ q.took = local[h].base.secret,
         requests' = [requests EXCEPT ![local[h].id] = NoRequest],
         local' = [local EXCEPT ![h] = q]
  PROVE  LifeInv'
<1> DEFINE i == local[h].id
<1>1. i \in Ids /\ i # NoId /\ local[h].took = NoHandler /\ Issued(i)
  BY NamesAssumption, KnownIds DEF InFlight, At, LifeInv, HandlerInv, Sound
<1>2. ~NoRequest.stored
  BY DEF NoRequest
<1>3. /\ local'[h] = q
      /\ \A g \in Handlers : g # h => local'[g] = local[g]
      /\ requests'[i] = NoRequest
      /\ \A j \in Ids : j # i => requests'[j] = requests[j]
  BY <1>1 DEF TypeOK
<1>4. Sound(h, q)
  BY <1>1 DEF LifeInv, HandlerInv, Sound
<1> HIDE DEF i
<1>5. \A j \in Ids : requests'[j].stored => j # i /\ requests'[j] = requests[j]
  BY <1>2, <1>3
<1>6. \A g \in Handlers :
        /\ \/ local[g].pc = "put" \/ Provided(g) \/ Collected(g)
           \/ local[g].resp \in {"rotated", "gone204"}
        => local[g].id \in Ids
  BY KnownIds DEF InFlight
<1>7. \A g \in Handlers : local'[g].id = local[g].id /\ local'[g].op = local[g].op
  BY <1>3
<1>8. HandlerInv'
  BY <1>3, <1>4 DEF LifeInv, HandlerInv, Sound, Issued
<1>9. BaseInv'
  <2> SUFFICES ASSUME NEW g \in Handlers, local'[g].id # NoId
               PROVE  Current(local'[g], requests'[local'[g].id])
    BY DEF BaseInv
  <2>1. CASE g = h
    BY <1>3, <2>1 DEF Current
  <2>2. CASE g # h
    <3>1. local'[g] = local[g] /\ local[g].id \in Ids
      BY <1>3, <2>2 DEF TypeOK, Local
    <3> QED
      BY <1>5, <3>1 DEF LifeInv, BaseInv, Current
  <2> QED
    BY <2>1, <2>2
<1>10. RecordInv'
  BY <1>5 DEF LifeInv, RecordInv, Issued
<1>11. CreateInv'
  BY <1>3, <1>5, <1>6, <1>7 DEF LifeInv, CreateInv, At
<1>12. ~Provided(h)' /\ \A g \in Handlers : Provided(g)' = Provided(g)
  <2>1. ~Provided(h)
    BY DEF Provided, At, LifeInv, HandlerInv, Sound
  <2> QED
    BY <1>3, <2>1 DEF Provided
<1>13. Collected(h)' => /\ requests[i].stored
                        /\ q.took = requests[i].secret
  <2> SUFFICES ASSUME Collected(h)'
               PROVE  requests[i].stored /\ q.took = requests[i].secret
    OBVIOUS
  <2>1. requests[i].stored /\ q.op = "fetch" /\ q.took = local[h].base.secret
    BY <1>3 DEF Collected, i
  <2>2. Current(local[h], requests[i])
    BY <1>1 DEF LifeInv, BaseInv, i
  <2> QED
    BY <2>1, <2>2 DEF Current, At
<1>14. AcceptedOnce'
  <2> SUFFICES ASSUME NEW p \in Handlers, Provided(p)
               PROVE  /\ requests'[local[p].id].stored =>
                           /\ requests'[local[p].id].state = "fulfilled"
                           /\ requests'[local[p].id].secret = p
                      /\ \A g \in Handlers : local[g].id = local[p].id =>
                           /\ Provided(g) => g = p
                           /\ Collected(g)' => local'[g].took = p
    BY <1>7, <1>12 DEF AcceptedOnce
  <2>1. local[p].id \in Ids
    BY <1>6
  <2>2. requests[local[p].id].stored => requests[local[p].id].state = "fulfilled"
                                        /\ requests[local[p].id].secret = p
    BY DEF LifeInv, AcceptedOnce
  <2>3. \A g \in Handlers : local[g].id = local[p].id =>
           /\ Provided(g) => g = p
           /\ Collected(g) => local[g].took = p
    BY DEF LifeInv, AcceptedOnce
  <2>4. ASSUME NEW g \in Handlers, local[g].id = local[p].id, Collected(g)'
        PROVE  local'[g].took = p
    <3>1. CASE g = h
      BY <1>3, <1>13, <2>2, <2>4, <3>1 DEF i
    <3>2. CASE g # h
      BY <1>3, <2>3, <2>4, <3>2 DEF Collected
    <3> QED
      BY <3>1, <3>2
  <2> QED
    BY <1>5, <2>1, <2>2, <2>3, <2>4
<1>15. HandedOutOnce'
  <2> SUFFICES ASSUME NEW p \in Handlers, Collected(p)'
               PROVE  /\ ~requests'[local[p].id].stored
                      /\ \A g \in Handlers :
                           Collected(g)' /\ local[g].id = local[p].id => g = p
    BY <1>7 DEF HandedOutOnce
  <2>1. \A g \in Handlers : g # h => (Collected(g)' <=> Collected(g))
    BY <1>3 DEF Collected
  <2>2. \A g \in Handlers : Collected(g) => ~requests[local[g].id].stored
    BY DEF LifeInv, HandedOutOnce
  <2>3. CASE p = h
    <3>1. requests[i].stored
      BY <1>13, <2>3
    <3> QED
      BY <1>2, <1>3, <2>1, <2>2, <2>3, <3>1 DEF i
  <2>4. CASE p # h
    <3>1. Collected(p) /\ local[p].id \in Ids
      BY <1>6, <2>1, <2>4
    <3>2. ~requests'[local[p].id].stored
      BY <1>5, <2>2, <3>1
    <3>3. Collected(h)' => local[p].id # i
      BY <1>13, <2>2, <3>1
    <3>4. \A g \in Handlers :
             Collected(g) /\ local[g].id = local[p].id => g = p
      BY <3>1 DEF LifeInv, HandedOutOnce
    <3> QED
      BY <2>1, <3>2, <3>3, <3>4 DEF i
  <2> QED
    BY <2>3, <2>4
<1>16. RotationSticks'
  <2> SUFFICES ASSUME NEW p \in Handlers, local'[p].resp = "rotated",
                      requests'[local[p].id].stored
               PROVE  local'[requests'[local[p].id].key].op = "rotate"
    BY <1>7 DEF RotationSticks
  <2>1. local[p].resp = "rotated" /\ local[p].id \in Ids
    BY <1>3, <1>6
  <2>2. /\ requests'[local[p].id] = requests[local[p].id]
        /\ requests[local[p].id].stored
    BY <1>5, <2>1
  <2>3. local[requests[local[p].id].key].op = "rotate"
    BY <2>1, <2>2 DEF LifeInv, RotationSticks
  <2>4. requests[local[p].id].key \in Handlers
    BY <2>1, <2>2 DEF LifeInv, RecordInv
  <2> QED
    BY <1>7, <2>2, <2>3, <2>4
<1>17. RevokedInv'
  <2> SUFFICES ASSUME NEW p \in Handlers, local'[p].resp = "gone204"
               PROVE  ~requests'[local[p].id].stored
    BY <1>7 DEF RevokedInv
  <2>1. CASE p = h
    BY <1>2, <1>3, <2>1 DEF i
  <2>2. CASE p # h
    BY <1>3, <1>5, <1>6, <2>2 DEF LifeInv, RevokedInv
  <2> QED
    BY <2>1, <2>2
<1> QED
  BY <1>8, <1>9, <1>10, <1>11, <1>14, <1>15, <1>16, <1>17 DEF LifeInv

------------------------------------------------------------------------------
(***************************************************************************)
(* Every action is one of these steps.                                     *)
(***************************************************************************)

\* What an Update is after its read.
LEMMA AfterReadFacts ==
  ASSUME NEW q \in Local, NEW rec \in SecretRequest, NEW call, now \in Nat
  PROVE  LET x == AfterRead(q, rec, call) IN
         /\ x.op = q.op /\ x.id = q.id /\ x.key = q.key /\ x.owner = q.owner
         /\ x.took = q.took
         /\ \/ x.pc = "done" /\ x.resp \in {"500", "404", "401", "409"}
            \/ /\ x.pc = "cas" /\ x.resp = q.resp /\ x.base = rec /\ x.at = now
               /\ Loadable(rec) /\ rec.state = "pending"
               /\ q.op = "rotate" => q.owner
<1>1. CASE Errs(call) \/ Refusal(q, rec) # "none"
  <2>1. PICK a \in {"500", "404", "401", "409"} :
          AfterRead(q, rec, call) = Done(q, a)
    BY <1>1, RefusalType DEF AfterRead
  <2> QED
    BY <2>1, DoneFields
<1>2. CASE ~Errs(call) /\ Refusal(q, rec) = "none"
  <2>1. Loadable(rec) /\ rec.state # "fulfilled" /\ (q.op = "rotate" => q.owner)
    BY <1>2 DEF Refusal
  <2>2. rec.state = "pending"
    BY <2>1 DEF SecretRequest
  <2>3. AfterRead(q, rec, call) = [q EXCEPT !.pc = "cas", !.base = rec, !.at = now]
    BY <1>2 DEF AfterRead
  <2> QED
    BY <2>1, <2>2, <2>3 DEF Local
<1> QED
  BY <1>1, <1>2

\* What a fetch or a revocation is after its read.
LEMMA AfterLoadFacts ==
  ASSUME NEW q \in Local, NEW rec \in SecretRequest, NEW call
  PROVE  LET x == AfterLoad(q, rec, call) IN
         /\ x.op = q.op /\ x.id = q.id /\ x.key = q.key /\ x.owner = q.owner
         /\ x.took = q.took
         /\ \/ x.pc = "done" /\ x.resp \in {"404", "401", "409"}
            \/ /\ x.pc = "delete" /\ x.resp = q.resp /\ x.base = rec
               /\ rec.stored /\ q.owner
               /\ q.op = "fetch" => rec.state = "fulfilled"
<1>1. CASE \E a \in {"404", "401", "409"} : AfterLoad(q, rec, call) = Done(q, a)
  BY <1>1, DoneFields
<1>2. CASE /\ AfterLoad(q, rec, call) = [q EXCEPT !.pc = "delete", !.base = rec]
           /\ Loadable(rec) /\ q.owner
           /\ q.op = "fetch" => rec.state = "fulfilled"
  BY <1>2 DEF Local, Loadable
<1> QED
  BY <1>1, <1>2 DEF AfterLoad

\* Nobody outside the servers knows an ID whose create is not over.
LEMMA DisclosedFree ==
  ASSUME TypeOK, LifeInv, NEW i \in Ids, Disclosed(i)
  PROVE  /\ Issued(i)
         /\ \A g \in Handlers : At(g, "put") => local[g].id # i
<1>1. PICK h \in Handlers : local[h].resp = "created" /\ local[h].id = i
  BY DEF Disclosed
<1>2. i # NoId /\ local[h].pc # "put"
  BY <1>1, NamesAssumption DEF LifeInv, HandlerInv, Sound
<1>3. Issued(i)
  BY <1>1, <1>2 DEF LifeInv, HandlerInv, Sound
<1> QED
  BY <1>1, <1>2, <1>3 DEF LifeInv, CreateInv, At

LEMMA IdleFields ==
  ASSUME TypeOK, LifeInv, NEW h \in Handlers, At(h, "idle")
  PROVE  /\ local[h] \in Local /\ local[h].pc = "idle" /\ local[h].op = "none"
         /\ local[h].id = NoId /\ local[h].resp = "none"
         /\ local[h].took = NoHandler
  BY DEF TypeOK, At, LifeInv, HandlerInv, Sound

LEMMA NamedFields ==
  ASSUME NEW q \in Local, NEW op, NEW i, NEW key, NEW owner
  PROVE  /\ LET x == [q EXCEPT !.op = op, !.id = i, !.key = key, !.owner = owner]
            IN  /\ x.op = op /\ x.id = i /\ x.key = key
                /\ x.took = q.took /\ x.resp = q.resp
         /\ LET x == [q EXCEPT !.op = op, !.id = i, !.owner = owner]
            IN  /\ x.op = op /\ x.id = i
                /\ x.took = q.took /\ x.resp = q.resp
  BY DEF Local

LEMMA ArriveLife ==
  ASSUME TypeOK, LifeInv, NEW h \in Handlers, Arrive(h)
  PROVE  LifeInv'
<1>0. /\ local[h] \in Local /\ local[h].pc = "idle" /\ local[h].op = "none"
      /\ local[h].id = NoId /\ local[h].resp = "none"
      /\ local[h].took = NoHandler
  BY IdleFields DEF Arrive, RejectCreate, StartCreate, StartUpdate, StartClose
<1>1. CASE \E life \in AskedLifetimes : RejectCreate(h, life)
  <2> DEFINE q0 == [local[h] EXCEPT !.op = "create"]
  <2>1. /\ q0 \in Local /\ q0.op = "create" /\ q0.id = NoId
        /\ q0.took = NoHandler
    BY <1>0 DEF Local
  <2>2. PICK a \in {"403", "400"} : local' = [local EXCEPT ![h] = Done(q0, a)]
    BY <1>1 DEF RejectCreate
  <2> DEFINE q == Done(q0, a)
  <2> HIDE DEF q0
  <2>3. q \in Local
    BY <2>1, DoneType DEF Answers
  <2>4. /\ q.pc = "done" /\ q.resp = a /\ q.op = "create" /\ q.id = NoId
        /\ q.took = NoHandler
    BY <2>1, DoneFields
  <2>5. UNCHANGED <<requests, asked>> /\ local' = [local EXCEPT ![h] = q]
    BY <1>1, <2>2 DEF RejectCreate
  <2> HIDE DEF q
  <2>6. Sound(h, q)
    BY <2>4 DEF Sound
  <2>7. \A g \in Handlers : At(g, "put") /\ g # h => local[g].id # q.id
    BY <2>4, NamesAssumption, KnownIds DEF InFlight, At
  <2>8. /\ local[h].pc # "done" /\ local[h].op # "rotate"
        /\ q.pc # "put" /\ q.resp \notin {"provided", "rotated", "gone204"}
    BY <1>0, <2>4
  <2>9. q.id # NoId => Current(q, requests[q.id])
    BY <2>4
  <2> QED
    BY <2>3, <2>4, <2>5, <2>6, <2>7, <2>8, <2>9, LocalStep
<1>2. CASE \E i \in Ids, life \in AskedLifetimes : StartCreate(h, i, life)
  BY <1>2, CreateStep
<1>3. CASE \E i \in Ids, op \in {"fulfill", "rotate"}, key \in Handlers,
              owner \in BOOLEAN : StartUpdate(h, op, i, key, owner)
  <2>1. PICK i \in Ids, op \in {"fulfill", "rotate"}, key \in Handlers,
             owner \in BOOLEAN : StartUpdate(h, op, i, key, owner)
    BY <1>3
  <2> DEFINE q0 == [local[h] EXCEPT !.op = op, !.id = i, !.key = key,
                                    !.owner = owner]
  <2>2. /\ q0 \in Local /\ q0.op = op /\ q0.id = i /\ q0.key = key
        /\ q0.took = NoHandler /\ q0.resp = "none"
    <3>1. q0 \in Local
      BY <1>0, NamedType
    <3>2. /\ q0.op = op /\ q0.id = i /\ q0.key = key
          /\ q0.took = local[h].took /\ q0.resp = local[h].resp
      BY <1>0, NamedFields
    <3> QED
      BY <1>0, <3>1, <3>2
  <2>3. PICK call \in ReadCalls :
          local' = [local EXCEPT ![h] = AfterRead(q0, requests[i], call)]
    BY <2>1 DEF StartUpdate
  <2>4. /\ UNCHANGED <<requests, asked>> /\ Disclosed(i)
        /\ op = "rotate" => key = h
    BY <2>1 DEF StartUpdate
  <2>5. requests[i] \in SecretRequest /\ now \in Nat /\ i # NoId
    BY NamesAssumption DEF TypeOK
  <2> HIDE DEF q0
  <2> DEFINE q == AfterRead(q0, requests[i], call)
  <2>6. q \in Local
    BY <2>2, <2>5, AfterReadType
  <2>7. /\ q.op = op /\ q.id = i /\ q.key = key /\ q.took = NoHandler
        /\ q.owner = q0.owner
        /\ \/ q.pc = "done" /\ q.resp \in {"500", "404", "401", "409"}
           \/ /\ q.pc = "cas" /\ q.resp = "none" /\ q.base = requests[i]
              /\ requests[i].state = "pending"
              /\ op = "rotate" => q0.owner
    BY <2>2, <2>5, AfterReadFacts
  <2>8. local' = [local EXCEPT ![h] = q]
    BY <2>3
  <2> HIDE DEF q
  <2>9. Sound(h, q)
    BY <2>4, <2>5, <2>7, DisclosedFree DEF Sound
  <2>10. Current(q, requests[q.id])
    BY <2>5, <2>7 DEF Current, SecretRequest
  <2>11. \A g \in Handlers : At(g, "put") => local[g].id # q.id
    BY <2>4, <2>7, DisclosedFree
  <2> QED
    BY <1>0, <2>4, <2>6, <2>7, <2>8, <2>9, <2>10, <2>11, LocalStep
<1>4. CASE \E i \in Ids, op \in {"fetch", "revoke"}, owner \in BOOLEAN :
             StartClose(h, op, i, owner)
  <2>1. PICK i \in Ids, op \in {"fetch", "revoke"}, owner \in BOOLEAN :
               StartClose(h, op, i, owner)
    BY <1>4
  <2> DEFINE q0 == [local[h] EXCEPT !.op = op, !.id = i, !.owner = owner]
  <2>2. /\ q0 \in Local /\ q0.op = op /\ q0.id = i
        /\ q0.took = NoHandler /\ q0.resp = "none"
    <3>1. q0 \in Local
      BY <1>0, NamedType
    <3>2. /\ q0.op = op /\ q0.id = i
          /\ q0.took = local[h].took /\ q0.resp = local[h].resp
      BY <1>0, NamedFields
    <3> QED
      BY <1>0, <3>1, <3>2
  <2>3. PICK call \in ReadCalls :
          local' = [local EXCEPT ![h] = AfterLoad(q0, requests[i], call)]
    BY <2>1 DEF StartClose
  <2>4. UNCHANGED <<requests, asked>> /\ Disclosed(i)
    BY <2>1 DEF StartClose
  <2>5. requests[i] \in SecretRequest /\ i # NoId
    BY NamesAssumption DEF TypeOK
  <2> HIDE DEF q0
  <2> DEFINE q == AfterLoad(q0, requests[i], call)
  <2>6. q \in Local
    BY <2>2, <2>5, AfterLoadType
  <2>7. /\ q.op = op /\ q.id = i /\ q.took = NoHandler /\ q.owner = q0.owner
        /\ \/ q.pc = "done" /\ q.resp \in {"404", "401", "409"}
           \/ /\ q.pc = "delete" /\ q.resp = "none" /\ q.base = requests[i]
              /\ requests[i].stored /\ q0.owner
              /\ op = "fetch" => requests[i].state = "fulfilled"
    BY <2>2, <2>5, AfterLoadFacts
  <2>8. local' = [local EXCEPT ![h] = q]
    BY <2>3
  <2> HIDE DEF q
  <2>9. Sound(h, q)
    BY <2>4, <2>5, <2>7, DisclosedFree DEF Sound
  <2>10. Current(q, requests[q.id])
    BY <2>5, <2>7 DEF Current, LifeInv, RecordInv
  <2>11. \A g \in Handlers : At(g, "put") => local[g].id # q.id
    BY <2>4, <2>7, DisclosedFree
  <2> QED
    BY <1>0, <2>4, <2>6, <2>7, <2>8, <2>9, <2>10, <2>11, LocalStep
<1> QED
  BY <1>1, <1>2, <1>3, <1>4 DEF Arrive

\* A handler in flight that gives up, goes on, or dies.
LEMMA GoOnStep ==
  ASSUME TypeOK, LifeInv, NEW h \in Handlers, InFlight(h), NEW q \in Local,
         UNCHANGED <<requests, asked>>, local' = [local EXCEPT ![h] = q],
         q.op = local[h].op, q.id = local[h].id, q.key = local[h].key,
         q.took = local[h].took,
         \/ q.pc = "done" /\ q.resp \in {"500", "404", "crashed"}
         \/ q.pc = "read" /\ q.resp = "none" /\ At(h, "cas")
  PROVE  LifeInv'
<1>1. /\ q.id \in Ids /\ q.id # NoId /\ Issued(q.id) /\ local[h].pc # "done"
      /\ q.took = NoHandler
  BY NamesAssumption, KnownIds DEF InFlight, LifeInv, HandlerInv, Sound
<1>2. Sound(h, q)
  BY <1>1 DEF LifeInv, HandlerInv, Sound, At
<1>3. Current(q, requests[q.id])
  BY DEF Current
<1>4. \A g \in Handlers : At(g, "put") /\ g # h => local[g].id # q.id
  BY DEF LifeInv, CreateInv
<1>5. /\ q.pc # "put" /\ q.resp \notin {"provided", "rotated", "gone204"}
      /\ local[h].op = "rotate" => q.op = "rotate"
  OBVIOUS
<1> HIDE DEF InFlight, At
<1> QED
  BY <1>1, <1>2, <1>3, <1>4, <1>5, LocalStep

LEMMA HandleLife ==
  ASSUME TypeOK, LifeInv, NEW h \in Handlers, Handle(h)
  PROVE  LifeInv'
<1> DEFINE q == local[h]
           i == q.id
<1>0. /\ InFlight(h) /\ q \in Local /\ i \in Ids /\ i # NoId /\ now \in Nat
      /\ requests[i] \in SecretRequest
      /\ q.took = NoHandler /\ q.resp = "none" /\ Issued(i)
  <2>1. InFlight(h)
    BY DEF Handle, InFlight, At, PutRequest, ReadAgain, UpdateSwap,
           UpdateMissing, UpdateConflict, DeleteRequest
  <2> QED
    BY <2>1, KnownIds, NamesAssumption
    DEF TypeOK, InFlight, LifeInv, HandlerInv, Sound
<1>1. \A a \in {"500", "404", "crashed"} :
        /\ Done(q, a) \in Local
        /\ local' = [local EXCEPT ![h] = Done(q, a)] /\ UNCHANGED <<requests, asked>>
           => LifeInv'
  <2> SUFFICES ASSUME NEW a \in {"500", "404", "crashed"}
               PROVE  /\ Done(q, a) \in Local
                      /\ /\ local' = [local EXCEPT ![h] = Done(q, a)]
                         /\ UNCHANGED <<requests, asked>>
                         => LifeInv'
    OBVIOUS
  <2>1. Done(q, a) \in Local
    BY <1>0, DoneType DEF Answers
  <2>2. /\ Done(q, a).pc = "done" /\ Done(q, a).resp = a
        /\ Done(q, a).op = q.op /\ Done(q, a).id = q.id
        /\ Done(q, a).key = q.key /\ Done(q, a).took = q.took
    BY <1>0, DoneFields
  <2> QED
    BY <1>0, <2>1, <2>2, GoOnStep
<1>2. CASE PutRequest(h)
  <2>1. PICK call \in WriteCalls :
          /\ requests' = IF Applied(call)
                         THEN [requests EXCEPT ![i] = PendingRequest(q)]
                         ELSE requests
          /\ Answer(h, IF Errs(call) THEN "500" ELSE "created")
    BY <1>2 DEF PutRequest
  <2>2. At(h, "put") /\ UNCHANGED asked
    BY <1>2 DEF PutRequest
  <2>3. CASE Applied(call)
    BY <2>1, <2>2, <2>3, PutStep DEF Answer
  <2>4. CASE ~Applied(call)
    BY <1>1, <2>1, <2>2, <2>4 DEF Answer, Applied, Errs
  <2> QED
    BY <2>3, <2>4
<1>3. CASE ReadAgain(h)
  <2>1. PICK call \in ReadCalls :
          local' = [local EXCEPT ![h] = AfterRead(q, requests[i], call)]
    BY <1>3 DEF ReadAgain
  <2>2. UNCHANGED <<requests, asked>> /\ At(h, "read")
    BY <1>3 DEF ReadAgain
  <2> DEFINE x == AfterRead(q, requests[i], call)
  <2>3. /\ x \in Local
        /\ x.op = q.op /\ x.id = i /\ x.key = q.key /\ x.took = NoHandler
        /\ x.owner = q.owner
        /\ \/ x.pc = "done" /\ x.resp \in {"500", "404", "401", "409"}
           \/ /\ x.pc = "cas" /\ x.resp = "none" /\ x.base = requests[i]
              /\ requests[i].state = "pending"
              /\ q.op = "rotate" => q.owner
    BY <1>0, AfterReadType, AfterReadFacts
  <2>4. local' = [local EXCEPT ![h] = x]
    BY <2>1
  <2> HIDE DEF x
  <2>5. q.pc = "read" /\ Sound(h, q)
    BY <2>2 DEF At, LifeInv, HandlerInv
  <2>6. Sound(h, x)
    BY <1>0, <2>3, <2>5 DEF Sound
  <2>7. Current(x, requests[x.id])
    BY <1>0, <2>3 DEF Current, SecretRequest
  <2>8. \A g \in Handlers : At(g, "put") /\ g # h => local[g].id # x.id
    BY <2>3 DEF LifeInv, CreateInv
  <2> QED
    BY <1>0, <2>2, <2>3, <2>4, <2>5, <2>6, <2>7, <2>8, LocalStep
<1>4. CASE UpdateSwap(h)
  <2>1. PICK call \in WriteCalls :
          /\ requests' = IF Applied(call)
                         THEN [requests EXCEPT ![i] = Updated(h)]
                         ELSE requests
          /\ Answer(h, IF Errs(call) THEN "500"
                       ELSE IF q.op = "fulfill" THEN "provided" ELSE "rotated")
    BY <1>4 DEF UpdateSwap
  <2>2. At(h, "cas") /\ UNCHANGED asked /\ CasMatches(requests[i], q.base)
    BY <1>4 DEF UpdateSwap
  <2>3. CASE Applied(call)
    <3> DEFINE a == IF Errs(call) THEN "500"
                    ELSE IF q.op = "fulfill" THEN "provided" ELSE "rotated"
    <3>1. q.op \in {"fulfill", "rotate"}
      BY <2>2 DEF At, LifeInv, HandlerInv, Sound
    <3>2. /\ a \in {"500", "provided", "rotated"}
          /\ a = "provided" => q.op = "fulfill"
          /\ a = "rotated" => q.op = "rotate"
      BY <3>1
    <3>3. /\ requests' = [requests EXCEPT ![i] = Updated(h)]
          /\ local' = [local EXCEPT ![h] = Done(q, a)]
      BY <2>1, <2>3 DEF Answer
    <3> HIDE DEF a
    <3> QED
      BY <2>2, <3>2, <3>3, SwapStep
  <2>4. CASE ~Applied(call)
    BY <1>1, <2>1, <2>2, <2>4 DEF Answer, Applied, Errs
  <2> QED
    BY <2>3, <2>4
<1>5. CASE UpdateMissing(h)
  BY <1>1, <1>5 DEF UpdateMissing, Answer
<1>6. CASE UpdateConflict(h)
  <2> DEFINE x == [q EXCEPT !.pc = "read", !.tries = q.tries + 1,
                            !.base = NoRequest, !.at = 0]
  <2>1. At(h, "cas") /\ UNCHANGED <<requests, asked>>
    BY <1>6 DEF UpdateConflict
  <2>2. \/ local' = [local EXCEPT ![h] = x]
        \/ local' = [local EXCEPT ![h] = Done(q, "500")]
    BY <1>6 DEF UpdateConflict
  <2>3. x \in Local
    <3>1. q.tries + 1 \in Nat /\ 0 \in Nat
      BY <1>0 DEF Local
    <3> HIDE DEF q
    <3> QED
      BY <1>0, <3>1, NoRequestType DEF Local
  <2>4. /\ x.pc = "read" /\ x.op = q.op /\ x.id = q.id /\ x.key = q.key
        /\ x.took = q.took /\ x.resp = "none"
    BY <1>0 DEF Local
  <2> HIDE DEF x
  <2> QED
    BY <1>0, <1>1, <2>1, <2>2, <2>3, <2>4, GoOnStep
<1>7. CASE DeleteRequest(h)
  <2>1. PICK call \in DeleteCalls :
          /\ requests' = IF Applied(call)
                         THEN [requests EXCEPT ![i] = NoRequest]
                         ELSE requests
          /\ local' = [local EXCEPT ![h] =
               IF Errs(call) THEN Done(q, "500")
               ELSE IF q.op = "revoke" THEN Done(q, "gone204")
               ELSE Fetched(q, requests[i].stored /\ call # "repeated")]
    BY <1>7 DEF DeleteRequest
  <2>2. At(h, "delete") /\ UNCHANGED asked
    BY <1>7 DEF DeleteRequest
  <2>3. CASE ~Applied(call)
    BY <1>1, <2>1, <2>2, <2>3 DEF Applied, Errs
  <2>4. CASE Applied(call)
    <3> DEFINE q1 == [q EXCEPT !.took = q.base.secret]
    <3>1. /\ q1 \in Local /\ q1.took = q.base.secret
          /\ q1.op = q.op /\ q1.id = q.id /\ q1.key = q.key
      <4>1. q.base.secret \in Origin
        BY <1>0 DEF Local, SecretRequest
      <4> HIDE DEF q
      <4> QED
        BY <1>0, <4>1 DEF Local
    <3>2. \/ \E a \in {"500", "gone204", "404"} :
                local' = [local EXCEPT ![h] = Done(q, a)]
          \/ /\ local' = [local EXCEPT ![h] = Done(q1, "content")]
             /\ requests[i].stored /\ q.op # "revoke"
      BY <2>1 DEF Fetched
    <3> HIDE DEF q1
    <3>3. CASE \E a \in {"500", "gone204", "404"} :
                 local' = [local EXCEPT ![h] = Done(q, a)]
      <4>1. PICK a \in {"500", "gone204", "404"} :
                   local' = [local EXCEPT ![h] = Done(q, a)]
        BY <3>3
      <4> DEFINE x == Done(q, a)
      <4>2. x \in Local
        BY <1>0, DoneType DEF Answers
      <4>3. /\ x.pc = "done" /\ x.id = i /\ x.op = q.op /\ x.key = q.key
            /\ x.took = NoHandler /\ x.resp = a
        BY <1>0, DoneFields
      <4>4. local' = [local EXCEPT ![h] = x]
        BY <4>1
      <4> HIDE DEF x
      <4>5. requests' = [requests EXCEPT ![local[h].id] = NoRequest]
        BY <2>1, <2>4
      <4>6. /\ x.id = local[h].id /\ x.op = local[h].op /\ x.key = local[h].key
            /\ x.pc = "done" /\ x.took = NoHandler
            /\ x.resp \in {"404", "500", "gone204", "content"}
        BY <4>3
      <4> HIDE DEF q, i
      <4> QED
        BY <2>2, <4>2, <4>4, <4>5, <4>6, DeleteStep
    <3>4. CASE /\ local' = [local EXCEPT ![h] = Done(q1, "content")]
               /\ requests[i].stored /\ q.op # "revoke"
      <4> DEFINE x == Done(q1, "content")
      <4>1. q.op = "fetch"
        BY <2>2, <3>4 DEF At, LifeInv, HandlerInv, Sound
      <4>2. x \in Local
        BY <3>1, DoneType DEF Answers
      <4>3. /\ x.pc = "done" /\ x.id = i /\ x.op = q.op /\ x.key = q.key
            /\ x.took = q.base.secret /\ x.resp = "content"
        BY <3>1, DoneFields
      <4>4. local' = [local EXCEPT ![h] = x]
        BY <3>4
      <4> HIDE DEF x
      <4>5. /\ requests[x.id].stored /\ x.op = "fetch"
            /\ x.took = local[h].base.secret
        BY <3>4, <4>1, <4>3
      <4>6. requests' = [requests EXCEPT ![local[h].id] = NoRequest]
        BY <2>1, <2>4
      <4>7. /\ x.id = local[h].id /\ x.op = local[h].op /\ x.key = local[h].key
            /\ x.pc = "done"
            /\ x.resp \in {"404", "500", "gone204", "content"}
        BY <4>3
      <4> HIDE DEF q, i
      <4> QED
        BY <2>2, <4>2, <4>4, <4>5, <4>6, <4>7, DeleteStep
    <3> QED
      BY <3>2, <3>3, <3>4
  <2> QED
    BY <2>3, <2>4
<1> QED
  BY <1>2, <1>3, <1>4, <1>5, <1>6, <1>7 DEF Handle

LEMMA AroundLife ==
  ASSUME TypeOK, LifeInv,
         \/ Tick \/ LicenseExpires \/ Quiet \/ UNCHANGED vars
         \/ \E i \in Ids : View(i) \/ Evict(i)
         \/ \E h \in Handlers : Crash(h)
  PROVE  LifeInv'
<1>1. CASE \/ Tick \/ LicenseExpires \/ Quiet \/ UNCHANGED vars
           \/ \E i \in Ids : View(i) \/ Evict(i)
  <2>1. UNCHANGED <<local, asked>>
    BY <1>1 DEF Tick, LicenseExpires, Quiet, vars, View, Evict
  <2>2. \A i \in Ids : requests'[i].stored => requests'[i] = requests[i]
    BY <1>1 DEF Tick, LicenseExpires, Quiet, vars, View, Evict, TypeOK, NoRequest
  <2> QED
    BY <2>1, <2>2, ShrinkStep
<1>2. CASE \E h \in Handlers : Crash(h)
  <2>1. PICK h \in Handlers : Crash(h)
    BY <1>2
  <2>2. InFlight(h) /\ local[h] \in Local /\ UNCHANGED <<requests, asked>>
    BY <2>1 DEF Crash, TypeOK
  <2> DEFINE q == Done(local[h], "crashed")
  <2>3. q \in Local
    BY <2>2, DoneType DEF Answers
  <2>4. /\ q.pc = "done" /\ q.resp = "crashed" /\ q.op = local[h].op
        /\ q.id = local[h].id /\ q.key = local[h].key /\ q.took = local[h].took
    BY <2>2, DoneFields
  <2>5. local' = [local EXCEPT ![h] = q]
    BY <2>1 DEF Crash, Answer
  <2> HIDE DEF q
  <2> QED
    BY <2>2, <2>3, <2>4, <2>5, GoOnStep
<1> QED
  BY <1>1, <1>2

LEMMA InitLife == Init => LifeInv
<1> SUFFICES ASSUME Init PROVE LifeInv
  OBVIOUS
<1>1. \A i \in Ids : ~requests[i].stored
  BY DEF Init, NoRequest
<1>2. \A h \in Handlers :
        /\ local[h].pc = "idle" /\ local[h].op = "none" /\ local[h].id = NoId
        /\ local[h].took = NoHandler /\ local[h].resp = "none"
  BY DEF Init
<1>3. HandlerInv /\ BaseInv /\ RecordInv /\ CreateInv
  BY <1>1, <1>2 DEF HandlerInv, Sound, BaseInv, RecordInv, CreateInv, At
<1>4. AcceptedOnce /\ HandedOutOnce /\ RotationSticks /\ RevokedInv
  BY <1>2 DEF AcceptedOnce, HandedOutOnce, RotationSticks, RevokedInv,
              Provided, Collected
<1> QED
  BY <1>3, <1>4 DEF LifeInv

------------------------------------------------------------------------------
(***************************************************************************)
(* The theorems.                                                           *)
(***************************************************************************)

LEMMA LifeStep ==
  ASSUME TypeOK, LifeInv, [Next]_vars
  PROVE  TypeOK' /\ LifeInv'
<1>1. CASE \E h \in Handlers : Arrive(h)
  BY <1>1, ArriveTypeOK, ArriveLife
<1>2. CASE \E h \in Handlers : Handle(h)
  <2>1. PICK h \in Handlers : Handle(h)
    BY <1>2
  <2>2. InFlight(h)
    BY <2>1 DEF Handle, InFlight, At, PutRequest, ReadAgain, UpdateSwap,
                UpdateMissing, UpdateConflict, DeleteRequest
  <2>3. local[h].id \in Ids
    BY <2>2, KnownIds
  <2> QED
    BY <2>1, <2>3, HandleTypeOK, HandleLife
<1>3. CASE \/ Tick \/ LicenseExpires \/ Quiet
           \/ \E i \in Ids : View(i) \/ Evict(i)
           \/ \E h \in Handlers : Crash(h)
  BY <1>3, AroundTypeOK, AroundLife
<1>4. CASE UNCHANGED vars
  <2>1. TypeOK'
    BY <1>4 DEF TypeOK, vars
  <2> QED
    BY <1>4, <2>1, AroundLife
<1> QED
  BY <1>1, <1>2, <1>3, <1>4 DEF Next

\* The inductive invariant holds of every behaviour of the system.
THEOREM RequestsInvariant == Spec => [](TypeOK /\ LifeInv)
<1>1. Init => TypeOK /\ LifeInv
  BY InitTypeOK, InitLife
<1>2. TypeOK /\ LifeInv /\ [Next]_vars => (TypeOK /\ LifeInv)'
  BY LifeStep
<1> QED
  BY <1>1, <1>2, PTL DEF Spec

\* Every variable keeps its type: no handler, crash, eviction or failed call
\* leaves an ill-formed record or handler behind.
THEOREM RequestsTypeOK == Spec => []TypeOK
  BY RequestsInvariant, PTL

\* At most one answer to a request is acknowledged; it is what is stored, and
\* what is handed out (fulfillSecretRequest, fetchRequestSecret), for any
\* number of responders, rotations and fetches in flight.
THEOREM RequestsAcceptedOnce == Spec => []AcceptedOnce
<1>1. LifeInv => AcceptedOnce
  BY DEF LifeInv
<1> QED
  BY <1>1, RequestsInvariant, PTL

\* An answer is handed out at most once, and only when the request is gone
\* (fetchRequestSecret).
THEOREM RequestsHandedOutOnce == Spec => []HandedOutOnce
<1>1. LifeInv => HandedOutOnce
  BY DEF LifeInv
<1> QED
  BY <1>1, RequestsInvariant, PTL

\* An acknowledged rotation is not undone by an Update that had read the record
\* before it (rotateRequestKey).
THEOREM RequestsRotationSticks == Spec => []RotationSticks
<1>1. LifeInv => RotationSticks
  BY DEF LifeInv
<1> QED
  BY <1>1, RequestsInvariant, PTL

------------------------------------------------------------------------------
(***************************************************************************)
(* The action properties.                                                  *)
(***************************************************************************)

\* What the steps that write no record leave alone.
LEMMA ArriveFrame ==
  ASSUME NEW h \in Handlers, Arrive(h)
  PROVE  /\ UNCHANGED <<now, requests>>
         /\ \/ UNCHANGED asked
            \/ \E i \in Ids, life \in AskedLifetimes : StartCreate(h, i, life)
<1>1. CASE \E life \in AskedLifetimes : RejectCreate(h, life)
  BY <1>1 DEF RejectCreate
<1>2. CASE \E i \in Ids, life \in AskedLifetimes : StartCreate(h, i, life)
  BY <1>2 DEF StartCreate
<1>3. CASE \E i \in Ids, op \in {"fulfill", "rotate"}, key \in Handlers,
              owner \in BOOLEAN : StartUpdate(h, op, i, key, owner)
  BY <1>3 DEF StartUpdate
<1>4. CASE \E i \in Ids, op \in {"fetch", "revoke"}, owner \in BOOLEAN :
             StartClose(h, op, i, owner)
  BY <1>4 DEF StartClose
<1> QED
  BY <1>1, <1>2, <1>3, <1>4 DEF Arrive

LEMMA HandleFrame ==
  ASSUME NEW h \in Handlers, Handle(h) \/ Crash(h)
  PROVE  UNCHANGED <<now, asked>>
  BY DEF Handle, PutRequest, ReadAgain, UpdateSwap, UpdateMissing,
         UpdateConflict, DeleteRequest, Crash

LEMMA AroundFrame ==
  ASSUME \/ \E i \in Ids : View(i) \/ Evict(i)
         \/ LicenseExpires \/ Quiet \/ UNCHANGED vars
  PROVE  UNCHANGED <<now, asked>>
  BY DEF View, Evict, LicenseExpires, Quiet, vars

\* Who changes a record.
LEMMA WriteCases ==
  ASSUME TypeOK, LifeInv, [Next]_vars, NEW i \in Ids,
         requests'[i] # requests[i]
  PROVE  \/ Tick \/ Evict(i)
         \/ \E h \in Handlers :
              /\ InFlight(h) /\ local[h].id = i
              /\ \/ PutRequest(h) /\ ~requests[i].stored
                 \/ UpdateSwap(h) /\ requests'[i] = Updated(h)
                 \/ DeleteRequest(h)
<1>0. ~UNCHANGED requests
  OBVIOUS
<1>1. CASE \E h \in Handlers : Handle(h)
  <2>1. PICK h \in Handlers : PutRequest(h) \/ UpdateSwap(h) \/ DeleteRequest(h)
    BY <1>0, <1>1 DEF Handle, ReadAgain, UpdateMissing, UpdateConflict
  <2>2. InFlight(h)
    BY <2>1 DEF InFlight, At, PutRequest, UpdateSwap, DeleteRequest
  <2>3. local[h].id \in Ids
    BY <2>2, KnownIds
  <2>4. \E rec : requests' = [requests EXCEPT ![local[h].id] = rec]
    BY <1>0, <2>1 DEF PutRequest, UpdateSwap, DeleteRequest
  <2>5. local[h].id = i
    BY <2>3, <2>4 DEF TypeOK
  <2>6. PutRequest(h) => ~requests[i].stored
    BY <2>5 DEF PutRequest, LifeInv, CreateInv
  <2>7. UpdateSwap(h) => requests'[i] = Updated(h)
    BY <1>0, <2>5 DEF UpdateSwap, TypeOK
  <2> QED
    BY <2>1, <2>2, <2>5, <2>6, <2>7
<1>2. CASE \E j \in Ids : Evict(j)
  <2>1. PICK j \in Ids : Evict(j)
    BY <1>2
  <2>2. j = i
    BY <2>1 DEF Evict, TypeOK
  <2> QED
    BY <2>1, <2>2
<1>3. CASE \E h \in Handlers : Arrive(h)
  BY <1>0, <1>3, ArriveFrame
<1>4. CASE \/ \E h \in Handlers : Crash(h)
           \/ \E j \in Ids : View(j)
           \/ LicenseExpires \/ Quiet \/ UNCHANGED vars
  BY <1>0, <1>4 DEF Crash, View, LicenseExpires, Quiet, vars
<1> QED
  BY <1>1, <1>2, <1>3, <1>4 DEF Next

\* Nothing changes a fulfilled record but its removal (fulfillSecretRequest,
\* rotateRequestKey).
THEOREM RequestsFulfilledIsFinal == Spec => FulfilledIsFinal
<1> DEFINE Final(i) == /\ requests[i].stored /\ requests[i].state = "fulfilled"
                       /\ requests'[i].stored
                       => requests'[i] = requests[i]
<1>1. ASSUME TypeOK, LifeInv, [Next]_vars, NEW i \in Ids PROVE Final(i)
  <2> SUFFICES ASSUME requests[i].stored, requests[i].state = "fulfilled",
                      requests'[i].stored, requests'[i] # requests[i]
               PROVE  FALSE
    OBVIOUS
  <2>1. CASE Tick \/ Evict(i)
    BY <1>1, <2>1 DEF Tick, Evict, TypeOK, NoRequest
  <2>2. ASSUME NEW h \in Handlers, local[h].id = i,
               UpdateSwap(h) \/ DeleteRequest(h)
        PROVE  FALSE
    <3>1. CASE UpdateSwap(h)
      <4>1. At(h, "cas") /\ CasMatches(requests[i], local[h].base)
        BY <2>2, <3>1 DEF UpdateSwap
      <4> QED
        BY <1>1, <2>2, <4>1, SwapFacts
    <3>2. CASE DeleteRequest(h)
      BY <1>1, <2>2, <3>2 DEF DeleteRequest, TypeOK, NoRequest
    <3> QED
      BY <2>2, <3>1, <3>2
  <2> QED
    BY <1>1, <2>1, <2>2, WriteCases
<1>2. TypeOK /\ LifeInv /\ [Next]_vars => [\A i \in Ids : Final(i)]_vars
  BY <1>1
<1> QED
  BY <1>2, RequestsInvariant, PTL DEF Spec, FulfilledIsFinal

\* A handler that commits or deletes is over afterwards.
LEMMA WriterMoves ==
  ASSUME TypeOK, NEW h \in Handlers, InFlight(h),
         UpdateSwap(h) \/ DeleteRequest(h)
  PROVE  local'[h] # local[h]
<1>0. local[h] \in Local
  BY DEF TypeOK
<1>1. \E q \in Local, a \in Answers : local' = [local EXCEPT ![h] = Done(q, a)]
  <2>1. CASE UpdateSwap(h)
    BY <1>0, <2>1 DEF UpdateSwap, Answer, Answers
  <2>2. CASE DeleteRequest(h)
    <3>1. [local[h] EXCEPT !.took = local[h].base.secret] \in Local
      <4>1. local[h].base.secret \in Origin
        BY <1>0 DEF Local, SecretRequest
      <4> QED
        BY <1>0, <4>1 DEF Local
    <3> QED
      BY <1>0, <2>2, <3>1 DEF DeleteRequest, Fetched, Answers
  <2> QED
    BY <2>1, <2>2
<1>2. PICK q \in Local, a \in Answers : local' = [local EXCEPT ![h] = Done(q, a)]
  BY <1>1
<1>3. local'[h].pc = "done"
  BY <1>2, DoneFields DEF TypeOK
<1> QED
  BY <1>3 DEF InFlight

\* Without the management token nobody removes a request or replaces its key
\* (fetchRequestSecret, revokeSecretRequest, rotateRequestKey).
THEOREM RequestsOwnerOnly == Spec => OwnerOnly
<1> DEFINE Authorized(i) ==
             /\ requests[i].stored
             /\ ~requests'[i].stored \/ requests'[i].key # requests[i].key
             => \/ now' # now
                \/ local' = local
                \/ \E h \in Handlers : /\ local'[h] # local[h]
                                       /\ local[h].id = i
                                       /\ local[h].owner
<1>1. ASSUME TypeOK, LifeInv, [Next]_vars, NEW i \in Ids PROVE Authorized(i)
  <2> SUFFICES ASSUME requests[i].stored,
                      ~requests'[i].stored \/ requests'[i].key # requests[i].key
               PROVE  \/ now' # now
                      \/ local' = local
                      \/ \E h \in Handlers : /\ local'[h] # local[h]
                                             /\ local[h].id = i
                                             /\ local[h].owner
    OBVIOUS
  <2>1. CASE Tick
    BY <2>1 DEF Tick
  <2>2. CASE Evict(i)
    BY <2>2 DEF Evict
  <2>3. ASSUME NEW h \in Handlers, InFlight(h), local[h].id = i,
               \/ UpdateSwap(h) /\ requests'[i] = Updated(h)
               \/ DeleteRequest(h)
        PROVE  local'[h] # local[h] /\ local[h].owner
    <3>1. CASE UpdateSwap(h) /\ requests'[i] = Updated(h)
      <4>1. At(h, "cas") /\ CasMatches(requests[i], local[h].base)
        BY <2>3, <3>1 DEF UpdateSwap
      <4>2. local[h].owner
        BY <1>1, <2>3, <3>1, <4>1, SwapFacts
      <4> QED
        BY <1>1, <2>3, <3>1, <4>2, WriterMoves
    <3>2. CASE DeleteRequest(h)
      <4>1. local[h].owner
        BY <1>1, <3>2 DEF DeleteRequest, At, LifeInv, HandlerInv, Sound
      <4> QED
        BY <1>1, <2>3, <3>2, <4>1, WriterMoves
    <3> QED
      BY <2>3, <3>1, <3>2
  <2>4. requests'[i] # requests[i]
    OBVIOUS
  <2> QED
    BY <1>1, <2>1, <2>2, <2>3, <2>4, WriteCases
<1>2. TypeOK /\ LifeInv /\ [Next]_vars => [\A i \in Ids : Authorized(i)]_vars
  BY <1>1
<1> QED
  BY <1>2, RequestsInvariant, PTL DEF Spec, OwnerOnly

\* Nobody but its own handler, or a crash, moves what is in flight.
LEMMA OwnStep ==
  ASSUME TypeOK, [Next]_vars, NEW g \in Handlers, InFlight(g),
         local'[g] # local[g]
  PROVE  Handle(g) \/ Crash(g)
<1>0. ~UNCHANGED local
  OBVIOUS
<1>1. CASE \E h \in Handlers : Arrive(h)
  <2>1. PICK h \in Handlers : Arrive(h)
    BY <1>1
  <2>2. At(h, "idle") /\ \E q : local' = [local EXCEPT ![h] = q]
    BY <2>1 DEF Arrive, RejectCreate, StartCreate, StartUpdate, StartClose
  <2> QED
    BY <2>2 DEF At, InFlight, TypeOK
<1>2. CASE \E h \in Handlers : Handle(h) \/ Crash(h)
  <2>1. PICK h \in Handlers : Handle(h) \/ Crash(h)
    BY <1>2
  <2>2. \E q : local' = [local EXCEPT ![h] = q]
    BY <2>1 DEF Handle, PutRequest, ReadAgain, UpdateSwap, UpdateMissing,
                UpdateConflict, DeleteRequest, Crash, Answer
  <2>3. h = g
    BY <2>2 DEF TypeOK
  <2> QED
    BY <2>1, <2>3
<1>3. CASE \/ \E i \in Ids : View(i) \/ Evict(i)
           \/ Tick \/ LicenseExpires \/ Quiet \/ UNCHANGED vars
  BY <1>0, <1>3 DEF View, Evict, Tick, LicenseExpires, Quiet, vars
<1> QED
  BY <1>1, <1>2, <1>3 DEF Next

\* After an acknowledged revocation nothing else about the request is
\* acknowledged, not even what was in flight (revokeSecretRequest against
\* fulfillSecretRequest, rotateRequestKey and fetchRequestSecret).
THEOREM RequestsRevokedIsDead == Spec => RevokedIsDead
<1> DEFINE Dead(h, g) ==
             /\ local[h].resp = "gone204"
             /\ local[g].id = local[h].id
             /\ InFlight(g)
             => local'[g].resp \notin {"provided", "rotated", "content"}
<1>1. ASSUME TypeOK, LifeInv, [Next]_vars, NEW h \in Handlers, NEW g \in Handlers
      PROVE  Dead(h, g)
  <2> SUFFICES ASSUME local[h].resp = "gone204", local[g].id = local[h].id,
                      InFlight(g)
               PROVE  local'[g].resp \notin {"provided", "rotated", "content"}
    OBVIOUS
  <2> DEFINE q == local[g]
  <2>0. /\ q \in Local /\ q.resp = "none" /\ q.id \in Ids /\ now \in Nat
        /\ requests[q.id] \in SecretRequest
    BY <1>1, KnownIds DEF TypeOK, InFlight, LifeInv, HandlerInv, Sound
  <2>1. ~requests[q.id].stored
    BY <1>1 DEF LifeInv, RevokedInv
  <2>2. CASE local'[g] = local[g]
    BY <2>0, <2>2
  <2>3. \A a : local' = [local EXCEPT ![g] = Done(q, a)] => local'[g].resp = a
    BY <1>1, <2>0, DoneFields DEF TypeOK
  <2>4. CASE PutRequest(g) \/ UpdateMissing(g) \/ Crash(g)
    BY <2>3, <2>4 DEF PutRequest, UpdateMissing, Crash, Answer
  <2>5. CASE ReadAgain(g)
    <3>1. PICK call \in ReadCalls :
            local' = [local EXCEPT ![g] = AfterRead(q, requests[q.id], call)]
      BY <2>5 DEF ReadAgain
    <3>2. local'[g] = AfterRead(q, requests[q.id], call)
      BY <1>1, <3>1 DEF TypeOK
    <3> QED
      BY <2>0, <3>2, AfterReadFacts
  <2>6. CASE UpdateSwap(g)
    BY <2>1, <2>6 DEF UpdateSwap, CasMatches
  <2>7. CASE UpdateConflict(g)
    <3>1. \/ local' = [local EXCEPT ![g] = Done(q, "500")]
          \/ local' = [local EXCEPT ![g] =
                         [q EXCEPT !.pc = "read", !.tries = q.tries + 1,
                                   !.base = NoRequest, !.at = 0]]
      BY <2>7 DEF UpdateConflict
    <3>2. CASE local' = [local EXCEPT ![g] = Done(q, "500")]
      BY <2>3, <3>2
    <3>3. CASE local' = [local EXCEPT ![g] =
                           [q EXCEPT !.pc = "read", !.tries = q.tries + 1,
                                     !.base = NoRequest, !.at = 0]]
      <4>1. local'[g] = [q EXCEPT !.pc = "read", !.tries = q.tries + 1,
                                  !.base = NoRequest, !.at = 0]
        BY <1>1, <3>3 DEF TypeOK
      <4> HIDE DEF q
      <4>2. local'[g].resp = q.resp
        BY <2>0, <4>1 DEF Local
      <4> QED
        BY <2>0, <4>2
    <3> QED
      BY <3>1, <3>2, <3>3
  <2>8. CASE DeleteRequest(g)
    <3>1. \E a \in {"500", "gone204", "404"} :
             local' = [local EXCEPT ![g] = Done(q, a)]
      BY <2>1, <2>8 DEF DeleteRequest, Fetched
    <3> QED
      BY <2>3, <3>1
  <2> QED
    BY <1>1, <2>2, <2>4, <2>5, <2>6, <2>7, <2>8, OwnStep DEF Handle
<1>2. TypeOK /\ LifeInv /\ [Next]_vars
        => [\A h, g \in Handlers : Dead(h, g)]_vars
  BY <1>1
<1> QED
  BY <1>2, RequestsInvariant, PTL DEF Spec, RevokedIsDead

------------------------------------------------------------------------------
(***************************************************************************)
(* Lifetimes.                                                              *)
(***************************************************************************)

\* What is left of a lifetime, written back later, is not "never", and ends no
\* later than a whole lifetime from then.
LEMMA LeftOver ==
  ASSUME NEW e \in Nat, NEW t \in Nat, NEW life \in Nat, NEW n \in Nat,
         e > t, e <= t + life
  PROVE  DiesAt(SecondsUntil(e, t), n) \in (n + 1)..(n + life)
<1>1. SecondsUntil(e, t) \in 1..life
  BY DEF SecondsUntil
<1>2. \A s \in 1..life : DiesAt(s, n) \in (n + 1)..(n + life)
  BY DEF DiesAt
<1> QED
  BY <1>1, <1>2

\* The lifetime of an issued ID never changes, and time does not go back.
LEMMA TimeStep ==
  ASSUME TypeOK, LifeInv, [Next]_vars
  PROVE  /\ now' \in Nat /\ now <= now'
         /\ \A i \in Ids : Issued(i) => asked'[i] = asked[i]
<1>0. now \in Nat
  BY DEF TypeOK
<1>1. CASE Tick
  BY <1>0, <1>1 DEF Tick
<1>2. CASE \E h \in Handlers, i \in Ids, life \in AskedLifetimes :
             StartCreate(h, i, life)
  BY <1>0, <1>2 DEF StartCreate, TypeOK
<1>3. CASE UNCHANGED <<now, asked>>
  BY <1>0, <1>3
<1>4. CASE \E h \in Handlers : Arrive(h)
  BY <1>2, <1>3, <1>4, ArriveFrame
<1>5. CASE \/ \E h \in Handlers : Handle(h) \/ Crash(h)
           \/ \E i \in Ids : View(i) \/ Evict(i)
           \/ LicenseExpires \/ Quiet \/ UNCHANGED vars
  <2>1. UNCHANGED <<now, asked>>
    BY <1>5, HandleFrame, AroundFrame
  <2> QED
    BY <1>3, <2>1
<1> QED
  BY <1>1, <1>4, <1>5 DEF Next

\* The two times a stored record has.
LEMMA RecordTimes ==
  ASSUME TypeOK, LifeInv, LifetimeInv, [Next]_vars, NEW i \in Ids,
         requests'[i].stored
  PROVE  /\ requests'[i].expiresAt <= now' + asked'[i]
         /\ requests'[i].dies \in (now' + 1)..(now' + asked'[i])
<1>0. /\ now \in Nat /\ asked[i] \in Nat /\ requests[i] \in SecretRequest
      /\ now' \in Nat /\ now <= now'
  BY AskedType, TimeStep DEF TypeOK
<1>1. CASE requests'[i] = requests[i]
  <2>1. /\ asked'[i] = asked[i]
        /\ requests[i].expiresAt <= now + asked[i]
        /\ requests[i].dies \in (now + 1)..(now + asked[i])
    BY <1>1, TimeStep DEF LifeInv, RecordInv, LifetimeInv, Mortal
  <2>2. CASE Tick
    <3>1. now' = now + 1 /\ ~Expired(requests[i].dies, now + 1)
      BY <1>1, <2>2 DEF Tick, TypeOK, NoRequest
    <3>2. requests[i].dies # 0 /\ requests[i].dies \in Nat
      BY <1>0, <2>1
    <3>3. requests[i].dies > now + 1
      BY <1>0, <3>1, <3>2 DEF Expired, Never
    <3>4. requests[i].expiresAt \in Nat
      BY <1>0 DEF SecretRequest
    <3> QED
      BY <1>0, <1>1, <2>1, <3>1, <3>2, <3>3, <3>4
  <2>3. CASE now' = now
    BY <1>1, <2>1, <2>3
  <2>4. Tick \/ now' = now
    BY ArriveFrame, HandleFrame, AroundFrame DEF Next
  <2> QED
    BY <2>2, <2>3, <2>4
<1>2. CASE requests'[i] # requests[i]
  <2>1. ~Tick /\ ~Evict(i)
    BY <1>2 DEF Tick, Evict, TypeOK, NoRequest
  <2>2. PICK h \in Handlers :
          /\ InFlight(h) /\ local[h].id = i
          /\ \/ PutRequest(h) /\ ~requests[i].stored
             \/ UpdateSwap(h) /\ requests'[i] = Updated(h)
             \/ DeleteRequest(h)
    BY <1>2, <2>1, WriteCases
  <2>3. local[h] \in Local /\ Issued(i) /\ asked'[i] = asked[i] /\ asked[i] # 0
    BY <2>2, NamesAssumption, TimeStep
    DEF TypeOK, LifeInv, HandlerInv, Sound, Issued
  <2>4. CASE PutRequest(h)
    <3>1. requests'[i] = PendingRequest(local[h]) /\ now' = now
      BY <1>2, <2>2, <2>4 DEF PutRequest, TypeOK
    <3>2. /\ requests'[i].expiresAt = local[h].due
          /\ requests'[i].dies = DiesAt(asked[i], now)
      BY <2>2, <3>1 DEF PendingRequest
    <3>3. local[h].due <= now + asked[i]
      BY <2>2, <2>4 DEF PutRequest, LifetimeInv
    <3>4. DiesAt(asked[i], now) \in (now + 1)..(now + asked[i])
      BY <1>0, <2>3 DEF DiesAt
    <3> QED
      BY <2>3, <3>1, <3>2, <3>3, <3>4
  <2>5. CASE UpdateSwap(h) /\ requests'[i] = Updated(h)
    <3> DEFINE b == local[h].base
               t == local[h].at
    <3>1. At(h, "cas") /\ now' = now /\ CasMatches(requests[i], b)
      BY <2>2, <2>5 DEF UpdateSwap
    <3>2. /\ b \in SecretRequest /\ b.expiresAt \in Nat /\ t \in Nat
      BY <2>3 DEF Local, SecretRequest
    <3>3. b.expiresAt > t /\ b.expiresAt <= t + asked[i]
      BY <2>2, <3>1 DEF LifetimeInv
    <3>4. requests[i] = b /\ requests[i].stored
      BY <2>2, <3>1, SwapFacts
    <3>5. b.expiresAt <= now + asked[i]
      BY <3>4 DEF LifetimeInv
    <3>6. /\ Updated(h).expiresAt = b.expiresAt
          /\ Updated(h).dies = DiesAt(SecondsUntil(b.expiresAt, t), now)
      BY <3>2 DEF Updated, SecretRequest
    <3> HIDE DEF b, t
    <3>7. DiesAt(SecondsUntil(b.expiresAt, t), now) \in (now + 1)..(now + asked[i])
      BY <1>0, <3>2, <3>3, LeftOver
    <3> QED
      BY <2>3, <2>5, <3>1, <3>5, <3>6, <3>7
  <2>6. CASE DeleteRequest(h)
    BY <1>2, <2>2, <2>6 DEF DeleteRequest, TypeOK, NoRequest
  <2> QED
    BY <2>2, <2>4, <2>5, <2>6
<1> QED
  BY <1>1, <1>2

\* The times a handler carries from one database call to the next.
TimesOf(q) ==
  /\ q.pc = "put" => q.due <= now + asked[q.id]
  /\ q.pc = "cas" => /\ q.base.expiresAt > q.at
                     /\ q.base.expiresAt <= q.at + asked[q.id]

\* An Update that goes on from its read has some lifetime left to write back.
LEMMA ReadTimes ==
  ASSUME TypeOK, LifeInv, LifetimeInv, NEW i \in Ids, NEW q \in Local, q.id = i,
         NEW call
  PROVE  TimesOf(AfterRead(q, requests[i], call))
<1> DEFINE rec == requests[i]
           x == AfterRead(q, rec, call)
<1>0. /\ now \in Nat /\ rec \in SecretRequest /\ rec.expiresAt \in Nat
  BY DEF TypeOK, SecretRequest
<1>1. /\ x.id = i
      /\ \/ x.pc = "done"
         \/ x.pc = "cas" /\ x.base = rec /\ x.at = now /\ Loadable(rec)
  BY <1>0, AfterReadFacts
<1>2. rec.stored => rec.expiresAt <= now + asked[i]
  BY DEF LifetimeInv
<1> HIDE DEF x, rec
<1>3. CASE x.pc = "done"
  BY <1>3 DEF TimesOf, x, rec
<1>4. CASE x.pc = "cas" /\ x.base = rec /\ x.at = now /\ Loadable(rec)
  <2>1. rec.stored /\ rec.expiresAt > now
    BY <1>0, <1>4 DEF Loadable, SecondsUntil
  <2>2. TimesOf(x)
    BY <1>1, <1>2, <1>4, <2>1 DEF TimesOf
  <2> QED
    BY <2>2 DEF x, rec
<1> QED
  BY <1>1, <1>3, <1>4

LEMMA HandlerTimes ==
  ASSUME TypeOK, LifeInv, LifetimeInv, [Next]_vars, NEW g \in Handlers
  PROVE  TimesOf(local[g])'
<1>0. /\ local[g] \in Local /\ now \in Nat /\ now' \in Nat /\ now <= now'
  BY TimeStep DEF TypeOK
<1>1. CASE local'[g] = local[g]
  <2>1. TimesOf(local[g])
    BY DEF TimesOf, LifetimeInv, At
  <2>2. CASE InFlight(g)
    <3>1. local[g].id \in Ids /\ Issued(local[g].id)
      BY <2>2, KnownIds, NamesAssumption
      DEF InFlight, LifeInv, HandlerInv, Sound
    <3>2. asked'[local[g].id] = asked[local[g].id] /\ asked[local[g].id] \in Nat
      BY <3>1, TimeStep, AskedType
    <3>3. local[g].due \in Nat
      BY <1>0 DEF Local
    <3> QED
      BY <1>0, <1>1, <2>1, <3>2, <3>3 DEF TimesOf
  <2>3. CASE ~InFlight(g)
    BY <1>1, <2>3 DEF TimesOf, InFlight
  <2> QED
    BY <2>2, <2>3
<1>2. ASSUME NEW q \in Local, NEW a, local' = [local EXCEPT ![g] = Done(q, a)]
      PROVE  TimesOf(local[g])'
  <2>1. local'[g].pc = "done"
    BY <1>2, DoneFields DEF TypeOK
  <2> QED
    BY <2>1 DEF TimesOf
<1>3. ASSUME NEW q \in Local, NEW i \in Ids, q.id = i, NEW call,
             local' = [local EXCEPT ![g] = AfterRead(q, requests[i], call)],
             UNCHANGED <<now, asked>>
      PROVE  TimesOf(local[g])'
  <2>1. TimesOf(AfterRead(q, requests[i], call))
    BY <1>3, ReadTimes
  <2>2. local'[g] = AfterRead(q, requests[i], call)
    BY <1>3 DEF TypeOK
  <2> QED
    BY <1>3, <2>1, <2>2 DEF TimesOf
<1>4. CASE \E h \in Handlers : Arrive(h)
  <2>1. PICK h \in Handlers : Arrive(h)
    BY <1>4
  <2>2. CASE h # g
    <3>1. \E q : local' = [local EXCEPT ![h] = q]
      BY <2>1 DEF Arrive, RejectCreate, StartCreate, StartUpdate, StartClose
    <3> QED
      BY <1>1, <2>2, <3>1 DEF TypeOK
  <2>3. CASE h = g /\ \E life \in AskedLifetimes : RejectCreate(h, life)
    <3>1. [local[g] EXCEPT !.op = "create"] \in Local
      BY <1>0 DEF Local
    <3> QED
      BY <1>2, <2>3, <3>1 DEF RejectCreate
  <2>4. CASE h = g /\ \E i \in Ids, life \in AskedLifetimes : StartCreate(h, i, life)
    <3>1. PICK i \in Ids, life \in AskedLifetimes : StartCreate(g, i, life)
      BY <2>4
    <3>2. life \in Nat
      BY LifetimesAssumption
    <3>3. local'[g] = [local[g] EXCEPT !.pc = "put", !.op = "create", !.id = i,
                                       !.key = g, !.due = now + life]
      BY <3>1 DEF StartCreate, TypeOK
    <3>4. local'[g].pc = "put" /\ local'[g].id = i /\ local'[g].due = now + life
      BY <1>0, <3>3 DEF Local
    <3>5. now' = now /\ asked'[i] = life
      BY <3>1 DEF StartCreate, TypeOK
    <3> QED
      BY <1>0, <3>2, <3>4, <3>5 DEF TimesOf
  <2>5. CASE h = g /\ \E i \in Ids, op \in {"fulfill", "rotate"},
                       key \in Handlers, owner \in BOOLEAN :
                         StartUpdate(h, op, i, key, owner)
    <3>1. PICK i \in Ids, op \in {"fulfill", "rotate"}, key \in Handlers,
               owner \in BOOLEAN : StartUpdate(g, op, i, key, owner)
      BY <2>5
    <3> DEFINE q == [local[g] EXCEPT !.op = op, !.id = i, !.key = key,
                                     !.owner = owner]
    <3>2. q \in Local
      BY <1>0, NamedType
    <3>3. q.id = i
      BY <1>0, NamedFields
    <3>4. PICK call \in ReadCalls :
            local' = [local EXCEPT ![g] = AfterRead(q, requests[i], call)]
      BY <3>1 DEF StartUpdate
    <3>5. UNCHANGED <<now, asked>>
      BY <3>1 DEF StartUpdate
    <3> HIDE DEF q
    <3> QED
      BY <1>3, <3>2, <3>3, <3>4, <3>5
  <2>6. CASE h = g /\ \E i \in Ids, op \in {"fetch", "revoke"}, owner \in BOOLEAN :
                        StartClose(h, op, i, owner)
    <3>1. PICK i \in Ids, op \in {"fetch", "revoke"}, owner \in BOOLEAN :
               StartClose(g, op, i, owner)
      BY <2>6
    <3> DEFINE q == [local[g] EXCEPT !.op = op, !.id = i, !.owner = owner]
    <3>2. q \in Local
      BY <1>0, NamedType
    <3>3. PICK call \in ReadCalls :
            local' = [local EXCEPT ![g] = AfterLoad(q, requests[i], call)]
      BY <3>1 DEF StartClose
    <3> HIDE DEF q
    <3>4. local'[g] = AfterLoad(q, requests[i], call)
      BY <3>3 DEF TypeOK
    <3>5. requests[i] \in SecretRequest
      BY DEF TypeOK
    <3>6. local'[g].pc \in {"done", "delete"}
      BY <3>2, <3>4, <3>5, AfterLoadFacts
    <3> QED
      BY <3>6 DEF TimesOf
  <2> QED
    BY <2>1, <2>2, <2>3, <2>4, <2>5, <2>6 DEF Arrive
<1>5. CASE InFlight(g) /\ local'[g] # local[g]
  <2>1. Handle(g) \/ Crash(g)
    BY <1>5, OwnStep
  <2>2. local[g].id \in Ids
    BY <1>5, KnownIds
  <2>3. CASE PutRequest(g) \/ UpdateSwap(g) \/ UpdateMissing(g) \/ Crash(g)
    BY <1>0, <1>2, <2>3 DEF PutRequest, UpdateSwap, UpdateMissing, Crash, Answer
  <2>4. CASE ReadAgain(g)
    BY <1>0, <1>3, <2>2, <2>4 DEF ReadAgain
  <2>5. CASE UpdateConflict(g)
    <3>1. \/ local' = [local EXCEPT ![g] = Done(local[g], "500")]
          \/ local' = [local EXCEPT ![g] =
                         [local[g] EXCEPT !.pc = "read",
                                          !.tries = local[g].tries + 1,
                                          !.base = NoRequest, !.at = 0]]
      BY <2>5 DEF UpdateConflict
    <3>2. CASE local' = [local EXCEPT ![g] = Done(local[g], "500")]
      BY <1>0, <1>2, <3>2
    <3>3. CASE local' = [local EXCEPT ![g] =
                           [local[g] EXCEPT !.pc = "read",
                                            !.tries = local[g].tries + 1,
                                            !.base = NoRequest, !.at = 0]]
      <4>1. local'[g].pc = "read"
        BY <1>0, <3>3 DEF TypeOK, Local
      <4> QED
        BY <4>1 DEF TimesOf
    <3> QED
      BY <3>1, <3>2, <3>3
  <2>6. CASE DeleteRequest(g)
    <3>1. [local[g] EXCEPT !.took = local[g].base.secret] \in Local
      <4>1. local[g].base.secret \in Origin
        BY <1>0 DEF Local, SecretRequest
      <4> QED
        BY <1>0, <4>1 DEF Local
    <3>2. \E q \in Local, a \in Answers : local' = [local EXCEPT ![g] = Done(q, a)]
      BY <1>0, <2>6, <3>1 DEF DeleteRequest, Fetched, Answers
    <3> QED
      BY <1>2, <3>2
  <2> QED
    BY <2>1, <2>3, <2>4, <2>5, <2>6 DEF Handle
<1>6. CASE ~InFlight(g) /\ local'[g] # local[g] /\ ~\E h \in Handlers : Arrive(h)
  <2>1. PICK h \in Handlers : Handle(h) \/ Crash(h)
    BY <1>6 DEF Next, View, Evict, Tick, LicenseExpires, Quiet, vars
  <2>2. /\ InFlight(h)
        /\ \E q : local' = [local EXCEPT ![h] = q]
    BY <2>1 DEF Handle, PutRequest, ReadAgain, UpdateSwap, UpdateMissing,
                UpdateConflict, DeleteRequest, Crash, Answer, InFlight, At
  <2> QED
    BY <1>6, <2>2 DEF TypeOK
<1> QED
  BY <1>1, <1>4, <1>5, <1>6

LEMMA LifetimeStep ==
  ASSUME TypeOK, LifeInv, LifetimeInv, [Next]_vars
  PROVE  LifetimeInv'
<1>1. \A i \in Ids :
         requests'[i].stored =>
           /\ requests'[i].expiresAt <= now' + asked'[i]
           /\ requests'[i].dies \in (now' + 1)..(now' + asked'[i])
  BY RecordTimes
<1>2. \A g \in Handlers : TimesOf(local[g])'
  BY HandlerTimes
<1> QED
  BY <1>1, <1>2 DEF LifetimeInv, Mortal, TimesOf, At

\* No request is stored for ever or beyond its lifetime, although every Update
\* writes an expiration of its own (updateRequest's remark on zero).
THEOREM RequestsMortal == Spec => []Mortal
<1>1. Init => LifetimeInv
  BY DEF Init, LifetimeInv, Mortal, At, NoRequest
<1>2. TypeOK /\ LifeInv /\ LifetimeInv /\ [Next]_vars => LifetimeInv'
  BY LifetimeStep
<1>3. LifetimeInv => Mortal
  BY DEF LifetimeInv
<1> QED
  BY <1>1, <1>2, <1>3, RequestsInvariant, PTL DEF Spec

------------------------------------------------------------------------------
(***************************************************************************)
(* Requests implements RequestLifecycle: the theorem behind                *)
(* FollowsLifecycle.  Every step of a handler is the step of the lifecycle *)
(* that it stands for, or lets something vanish, which a step that changes *)
(* nothing does as well.                                                   *)
(***************************************************************************)
Held == TypeOK /\ LifeInv /\ BlankInv

TakersOf(i) == {h \in Handlers : local[h].id = i /\ Collected(h)}

\* Nothing but h moves.
Frame(h) == \A g \in Handlers : g # h => local'[g] = local[g]

\* A record either stays or leaves nothing behind (Delete, Tick, Evict).
LEMMA BlankStep ==
  ASSUME TypeOK, LifeInv, BlankInv, [Next]_vars
  PROVE  BlankInv'
<1> SUFFICES ASSUME NEW i \in Ids, ~requests'[i].stored
             PROVE  requests'[i] = NoRequest
  BY DEF BlankInv
<1>1. CASE requests'[i] = requests[i]
  BY <1>1 DEF BlankInv
<1>2. CASE Tick \/ Evict(i)
  BY <1>2 DEF Tick, Evict, TypeOK, BlankInv
<1>3. ASSUME NEW h \in Handlers, local[h].id = i, PutRequest(h)
      PROVE  requests'[i] = requests[i]
  BY <1>3 DEF PutRequest, PendingRequest, TypeOK
<1>4. ASSUME NEW h \in Handlers, local[h].id = i, UpdateSwap(h),
             requests'[i] = Updated(h)
      PROVE  FALSE
  BY <1>4, SwapFacts DEF UpdateSwap
<1>5. ASSUME NEW h \in Handlers, local[h].id = i, DeleteRequest(h)
      PROVE  requests'[i] \in {NoRequest, requests[i]}
  BY <1>5 DEF DeleteRequest, TypeOK
<1> QED
  BY <1>1, <1>2, <1>3, <1>4, <1>5, WriteCases

LEMMA RequestsHeld == Spec => []Held
<1>1. Init => BlankInv
  BY DEF Init, BlankInv
<1>2. BlankInv /\ (TypeOK /\ LifeInv) /\ [Next]_vars => BlankInv'
  BY BlankStep
<1>3. BlankInv /\ (TypeOK /\ LifeInv) => Held
  BY DEF Held
<1> QED
  BY <1>1, <1>2, <1>3, RequestsInvariant, PTL DEF Spec

\* Nothing is opened, answered or collected at first.
LEMMA LifecycleInit == Init => Lifecycle!Init
<1> SUFFICES ASSUME Init PROVE Lifecycle!Init
  OBVIOUS
<1>1. \A i \in Ids : /\ PhaseOf(i) = "unborn"
                     /\ requests[i].key = NoHandler
                     /\ requests[i].secret = NoHandler
  BY DEF Init, PhaseOf, Settled, Issued, NoRequest
<1>2. \A i \in Ids : TakersOf(i) = {}
  BY DEF Init, TakersOf, Collected
<1> QED
  BY <1>1, <1>2 DEF Lifecycle!Init, TakersOf

\* What is stored has been put there by a create that is over.
LEMMA StoredIsSettled ==
  ASSUME Held, NEW i \in Ids, requests[i].stored
  PROVE  Settled(i)
  BY DEF Held, LifeInv, RecordInv, CreateInv, Settled

\* A step after which some requests are gone.
LEMMA Fading ==
  ASSUME \A i \in Ids : TakersOf(i)' = TakersOf(i),
         \A i \in Ids : \/ /\ PhaseOf(i)' = PhaseOf(i)
                           /\ requests'[i] = requests[i]
                        \/ /\ PhaseOf(i)' = "gone"
                           /\ requests'[i].key = NoHandler
                           /\ requests'[i].secret = NoHandler
  PROVE  Lifecycle!Next
<1> DEFINE Left(i) == /\ PhaseOf(i)' = "gone"
                      /\ requests'[i].key = NoHandler
                      /\ requests'[i].secret = NoHandler
<1>1. PICK I \in SUBSET Ids : \A i \in Ids : i \in I <=> Left(i)
  <2>1. {i \in Ids : Left(i)} \in SUBSET Ids
    OBVIOUS
  <2> QED
    BY <2>1
<1>2. Lifecycle!Vanish(I)
  BY <1>1 DEF Lifecycle!Vanish, TakersOf
<1> QED
  BY <1>2 DEF Lifecycle!Next

\* The phase of a request before and after a step.
LEMMA Phases ==
  ASSUME NEW i \in Ids
  PROVE  /\ requests[i].stored => PhaseOf(i) = requests[i].state
         /\ ~requests[i].stored /\ Settled(i) => PhaseOf(i) = "gone"
         /\ ~requests[i].stored /\ ~Settled(i) => PhaseOf(i) = "unborn"
         /\ requests'[i].stored => PhaseOf(i)' = requests'[i].state
         /\ ~requests'[i].stored /\ Settled(i)' => PhaseOf(i)' = "gone"
         /\ ~requests'[i].stored /\ ~Settled(i)' => PhaseOf(i)' = "unborn"
  BY DEF PhaseOf

\* Records disappear, creates come to an end, and nobody collects anything.
LEMMA Fades ==
  ASSUME Held,
         \A i \in Ids : TakersOf(i)' = TakersOf(i),
         \A i \in Ids : requests'[i] = requests[i] \/ requests'[i] = NoRequest,
         \A i \in Ids : Settled(i) => Settled(i)'
  PROVE  Lifecycle!Next
<1>0. /\ ~NoRequest.stored
      /\ NoRequest.key = NoHandler /\ NoRequest.secret = NoHandler
  BY DEF NoRequest
<1>1. ASSUME NEW i \in Ids
      PROVE  \/ PhaseOf(i)' = PhaseOf(i) /\ requests'[i] = requests[i]
             \/ /\ PhaseOf(i)' = "gone"
                /\ requests'[i].key = NoHandler
                /\ requests'[i].secret = NoHandler
  <2>1. CASE requests[i].stored
    BY <1>0, <2>1, StoredIsSettled, Phases
  <2>2. CASE ~requests[i].stored
    BY <1>0, <2>2, Phases DEF Held, BlankInv
  <2> QED
    BY <2>1, <2>2
<1> QED
  BY <1>1, Fading

\* The mapped variables after a step that concerns the request i alone.
LEMMA Steps ==
  ASSUME NEW i \in Ids,
         \A j \in Ids : j # i => /\ PhaseOf(j)' = PhaseOf(j)
                                /\ requests'[j] = requests[j]
                                /\ TakersOf(j)' = TakersOf(j)
  PROVE  LET phase == [j \in Ids |-> PhaseOf(j)]
             key == [j \in Ids |-> requests[j].key]
             answer == [j \in Ids |-> requests[j].secret]
             collectors == [j \in Ids |-> {h \in Handlers : local[h].id = j /\ Collected(h)}]
         IN  /\ \A p : PhaseOf(i)' = p => phase' = [phase EXCEPT ![i] = p]
             /\ \A k : requests'[i].key = k => key' = [key EXCEPT ![i] = k]
             /\ \A s : requests'[i].secret = s => answer' = [answer EXCEPT ![i] = s]
             /\ \A C : TakersOf(i)' = C => collectors' = [collectors EXCEPT ![i] = C]
             /\ requests'[i].key = requests[i].key => key' = key
             /\ requests'[i].secret = requests[i].secret => answer' = answer
             /\ TakersOf(i)' = TakersOf(i) => collectors' = collectors
             /\ phase[i] = PhaseOf(i)
             /\ collectors[i] = TakersOf(i)
<1> DEFINE phase == [j \in Ids |-> PhaseOf(j)]
           key == [j \in Ids |-> requests[j].key]
           answer == [j \in Ids |-> requests[j].secret]
           collectors == [j \in Ids |-> {h \in Handlers : local[h].id = j /\ Collected(h)}]
<1>1. /\ \A p : PhaseOf(i)' = p => phase' = [phase EXCEPT ![i] = p]
      /\ phase[i] = PhaseOf(i)
  OBVIOUS
<1>2. /\ \A k : requests'[i].key = k => key' = [key EXCEPT ![i] = k]
      /\ requests'[i].key = requests[i].key => key' = key
  OBVIOUS
<1>3. /\ \A s : requests'[i].secret = s => answer' = [answer EXCEPT ![i] = s]
      /\ requests'[i].secret = requests[i].secret => answer' = answer
  OBVIOUS
<1>4. /\ \A C : TakersOf(i)' = C => collectors' = [collectors EXCEPT ![i] = C]
      /\ TakersOf(i)' = TakersOf(i) => collectors' = collectors
      /\ collectors[i] = TakersOf(i)
  BY DEF TakersOf
<1> QED
  BY <1>1, <1>2, <1>3, <1>4

\* A step of h that collects nothing: the takers stay.
LEMMA TakersStay ==
  ASSUME NEW h \in Handlers, Frame(h),
         local[h].took = NoHandler, local'[h].took = NoHandler, NEW i \in Ids
  PROVE  TakersOf(i)' = TakersOf(i)
  BY DEF Frame, TakersOf, Collected

\* A step of h that collects and stores nothing.
LEMMA HandlerFades ==
  ASSUME Held, NEW h \in Handlers, Frame(h), UNCHANGED asked,
         \A i \in Ids : requests'[i] = requests[i] \/ requests'[i] = NoRequest,
         local[h].took = NoHandler, local'[h].took = NoHandler,
         local'[h].pc # "put"
  PROVE  Lifecycle!Next
<1>1. \A i \in Ids : TakersOf(i)' = TakersOf(i)
  BY TakersStay
<1>2. \A i \in Ids : Settled(i) => Settled(i)'
  BY DEF Settled, Issued, Frame, At
<1> QED
  BY <1>1, <1>2, Fades

\* A handler is about to act: nothing is collected yet.
LEMMA ActiveFields ==
  ASSUME Held, NEW h \in Handlers, ~At(h, "done")
  PROVE  local[h] \in Local /\ local[h].took = NoHandler
  BY DEF Held, TypeOK, LifeInv, HandlerInv, Sound, At

\* A create that is refused changes nothing; one that starts makes its ID one
\* that is not settled.
LEMMA CreateFollows ==
  ASSUME Held, NEW h \in Handlers,
         \/ \E life \in AskedLifetimes : RejectCreate(h, life)
         \/ \E i \in Ids, life \in AskedLifetimes : StartCreate(h, i, life)
  PROVE  Lifecycle!Next
<1>1. local[h] \in Local /\ local[h].took = NoHandler /\ local[h].id = NoId
  BY ActiveFields, IdleFields DEF Held, RejectCreate, StartCreate, At
<1>2. CASE \E life \in AskedLifetimes : RejectCreate(h, life)
  <2> DEFINE q == [local[h] EXCEPT !.op = "create"]
  <2>1. q \in Local /\ q.took = NoHandler
    BY <1>1 DEF Local
  <2>2. PICK a \in {"403", "400"} : local' = [local EXCEPT ![h] = Done(q, a)]
    BY <1>2 DEF RejectCreate
  <2> HIDE DEF q
  <2>3. Frame(h) /\ local'[h] = Done(q, a)
    BY <2>2 DEF Frame, Held, TypeOK
  <2>4. local'[h].pc = "done" /\ local'[h].took = NoHandler
    BY <2>1, <2>3, DoneFields
  <2>5. UNCHANGED <<asked, requests>>
    BY <1>2 DEF RejectCreate
  <2> QED
    BY <1>1, <2>3, <2>4, <2>5, HandlerFades
<1>3. CASE \E i \in Ids, life \in AskedLifetimes : StartCreate(h, i, life)
  <2>1. PICK i \in Ids, life \in AskedLifetimes : StartCreate(h, i, life)
    BY <1>3
  <2>2. Frame(h) /\ local'[h].took = NoHandler /\ local'[h].id = i
    BY <1>1, <2>1 DEF StartCreate, Frame, Held, TypeOK, Local
  <2>3. \A j \in Ids : TakersOf(j)' = TakersOf(j)
    BY <1>1, <2>2, TakersStay
  <2>4. ASSUME NEW j \in Ids, Settled(j) PROVE Settled(j)'
    <3>1. j # i /\ asked'[j] = asked[j]
      BY <2>1, <2>4 DEF StartCreate, Settled, Held, TypeOK
    <3> QED
      BY <2>2, <2>4, <3>1 DEF Settled, Issued, Frame, At
  <2>5. UNCHANGED requests
    BY <2>1 DEF StartCreate
  <2> QED
    BY <2>3, <2>4, <2>5, Fades
<1> QED
  BY <1>2, <1>3

\* The first read of an Update, a fetch or a revocation.
LEMMA ReadFollows ==
  ASSUME Held, NEW h \in Handlers,
         \/ \E i \in Ids, op \in {"fulfill", "rotate"}, key \in Handlers,
               owner \in BOOLEAN : StartUpdate(h, op, i, key, owner)
         \/ \E i \in Ids, op \in {"fetch", "revoke"}, owner \in BOOLEAN :
               StartClose(h, op, i, owner)
         \/ ReadAgain(h)
  PROVE  Lifecycle!Next
<1>1. local[h] \in Local /\ local[h].took = NoHandler
  BY ActiveFields DEF StartUpdate, StartClose, ReadAgain, At
<1>2. UNCHANGED <<asked, requests>>
  BY DEF StartUpdate, StartClose, ReadAgain
<1>3. now \in Nat /\ \A i \in Ids : requests[i] \in SecretRequest
  BY DEF Held, TypeOK
<1>4. \E q \in Local, rec \in SecretRequest, call \in ReadCalls :
        /\ q.took = NoHandler
        /\ \/ local' = [local EXCEPT ![h] = AfterRead(q, rec, call)]
           \/ local' = [local EXCEPT ![h] = AfterLoad(q, rec, call)]
  <2>1. ASSUME NEW i \in Ids, NEW op \in {"fulfill", "rotate"}, NEW key \in Handlers,
               NEW owner \in BOOLEAN, StartUpdate(h, op, i, key, owner)
        PROVE  \E q \in Local, rec \in SecretRequest, call \in ReadCalls :
                 /\ q.took = NoHandler
                 /\ local' = [local EXCEPT ![h] = AfterRead(q, rec, call)]
    <3> DEFINE q == [local[h] EXCEPT !.op = op, !.id = i, !.key = key, !.owner = owner]
    <3>1. q \in Local /\ q.took = NoHandler
      <4>1. q \in Local
        BY <1>1, NamedType
      <4>2. q.took = local[h].took
        BY <1>1 DEF Local
      <4> QED
        BY <1>1, <4>1, <4>2
    <3>2. \E call \in ReadCalls : local' = [local EXCEPT ![h] = AfterRead(q, requests[i], call)]
      BY <2>1 DEF StartUpdate
    <3> HIDE DEF q
    <3> QED
      BY <1>3, <3>1, <3>2
  <2>2. ASSUME NEW i \in Ids, NEW op \in {"fetch", "revoke"}, NEW owner \in BOOLEAN,
               StartClose(h, op, i, owner)
        PROVE  \E q \in Local, rec \in SecretRequest, call \in ReadCalls :
                 /\ q.took = NoHandler
                 /\ local' = [local EXCEPT ![h] = AfterLoad(q, rec, call)]
    <3> DEFINE q == [local[h] EXCEPT !.op = op, !.id = i, !.owner = owner]
    <3>1. q \in Local /\ q.took = NoHandler
      BY <1>1 DEF Local
    <3>2. \E call \in ReadCalls : local' = [local EXCEPT ![h] = AfterLoad(q, requests[i], call)]
      BY <2>2 DEF StartClose
    <3> HIDE DEF q
    <3> QED
      BY <1>3, <3>1, <3>2
  <2>3. CASE ReadAgain(h)
    <3>1. local[h].id \in Ids
      BY <2>3, KnownIds DEF ReadAgain, At, InFlight, Held
    <3> QED
      BY <1>1, <1>3, <2>3, <3>1 DEF ReadAgain
  <2> QED
    BY <2>1, <2>2, <2>3
<1>5. PICK q \in Local, rec \in SecretRequest, call \in ReadCalls :
        /\ q.took = NoHandler
        /\ \/ local' = [local EXCEPT ![h] = AfterRead(q, rec, call)]
           \/ local' = [local EXCEPT ![h] = AfterLoad(q, rec, call)]
  BY <1>4
<1>6. /\ Frame(h)
      /\ local'[h] = AfterRead(q, rec, call) \/ local'[h] = AfterLoad(q, rec, call)
  BY <1>5 DEF Frame, Held, TypeOK
<1>7. local'[h].took = NoHandler /\ local'[h].pc # "put"
  BY <1>3, <1>5, <1>6, AfterReadFacts, AfterLoadFacts
<1> QED
  BY <1>1, <1>2, <1>6, <1>7, HandlerFades

\* An Update that finds its record changed or gone, and a handler that dies.
LEMMA GiveUpFollows ==
  ASSUME Held, NEW h \in Handlers,
         UpdateMissing(h) \/ UpdateConflict(h) \/ Crash(h)
  PROVE  Lifecycle!Next
<1>1. local[h] \in Local /\ local[h].took = NoHandler
  BY ActiveFields DEF UpdateMissing, UpdateConflict, Crash, InFlight, At
<1>2. UNCHANGED <<asked, requests>>
  BY DEF UpdateMissing, UpdateConflict, Crash
<1>3. \/ \E a : local' = [local EXCEPT ![h] = Done(@, a)]
      \/ \E n : local' = [local EXCEPT ![h] =
                            [@ EXCEPT !.pc = "read", !.tries = n,
                                      !.base = NoRequest, !.at = 0]]
  BY DEF UpdateMissing, UpdateConflict, Crash, Answer
<1>4. Frame(h) /\ local'[h].took = NoHandler /\ local'[h].pc # "put"
  <2>1. CASE \E a : local' = [local EXCEPT ![h] = Done(@, a)]
    BY <1>1, <2>1, DoneFields DEF Frame, Held, TypeOK
  <2>2. CASE \E n : local' = [local EXCEPT ![h] =
                                [@ EXCEPT !.pc = "read", !.tries = n,
                                          !.base = NoRequest, !.at = 0]]
    BY <1>1, <2>2 DEF Frame, Held, TypeOK, Local
  <2> QED
    BY <1>3, <2>1, <2>2
<1> QED
  BY <1>1, <1>2, <1>4, HandlerFades

\* The record of a create appears: the request is open, with the key it brought.
LEMMA PutFollows ==
  ASSUME Held, NEW h \in Handlers, PutRequest(h)
  PROVE  Lifecycle!Next
<1>0. PICK i \in Ids : i = local[h].id
  BY KnownIds DEF PutRequest, At, InFlight, Held
<1>1. /\ local[h] \in Local /\ local[h].took = NoHandler
      /\ local[h].pc = "put" /\ local[h].key = h
      /\ local[h].id = i /\ ~requests[i].stored
  BY <1>0, ActiveFields DEF PutRequest, At, InFlight, Held, LifeInv, HandlerInv,
                                Sound, CreateInv
<1>2. PICK a : local' = [local EXCEPT ![h] = Done(@, a)]
  BY DEF PutRequest, Answer
<1>3. /\ Frame(h) /\ UNCHANGED asked
      /\ local'[h].pc = "done" /\ local'[h].took = NoHandler /\ local'[h].id = i
  BY <1>1, <1>2, DoneFields DEF Frame, Held, TypeOK, PutRequest
<1>4. CASE UNCHANGED requests
  BY <1>1, <1>3, <1>4, HandlerFades
<1>5. CASE requests' = [requests EXCEPT ![i] = PendingRequest(local[h])]
  <2>1. \A j \in Ids : TakersOf(j)' = TakersOf(j)
    BY <1>1, <1>3, TakersStay
  <2>2. /\ requests'[i] = PendingRequest(local[h])
        /\ \A j \in Ids : j # i => requests'[j] = requests[j]
    BY <1>1, <1>5 DEF Held, TypeOK
  <2>3. requests[i] = NoRequest
    BY <1>1 DEF Held, BlankInv
  <2>4. PhaseOf(i) = "unborn" /\ PhaseOf(i)' = "pending"
    <3>1. requests'[i].stored /\ requests'[i].state = "pending"
      BY <2>2 DEF PendingRequest
    <3>2. ~Settled(i)
      BY <1>1 DEF Settled, At
    <3> QED
      BY <1>1, <3>1, <3>2, Phases
  <2>5. ASSUME NEW j \in Ids, j # i PROVE PhaseOf(j)' = PhaseOf(j)
    <3>1. Settled(j)' <=> Settled(j)
      BY <1>1, <1>3, <2>5 DEF Settled, Issued, Frame, At
    <3> QED
      BY <2>2, <2>5, <3>1 DEF PhaseOf
  <2>6. /\ requests'[i].key = h
        /\ requests'[i].secret = NoHandler /\ requests[i].secret = NoHandler
    BY <1>1, <2>2, <2>3 DEF PendingRequest, NoRequest
  <2>7. Lifecycle!Open(i, h)
    BY <1>1, <2>1, <2>2, <2>4, <2>5, <2>6, Steps DEF Lifecycle!Open
  <2> QED
    BY <1>1, <2>7 DEF Lifecycle!Next
<1> QED
  BY <1>1, <1>4, <1>5 DEF PutRequest

\* An Update commits: an answer is provided, or the key replaced.
LEMMA SwapFollows ==
  ASSUME Held, NEW h \in Handlers, UpdateSwap(h)
  PROVE  Lifecycle!Next
<1>0. PICK i \in Ids : i = local[h].id
  BY KnownIds DEF UpdateSwap, At, InFlight, Held
<1>00. PICK rec : rec = Updated(h)
  OBVIOUS
<1>1. local[h] \in Local /\ local[h].took = NoHandler /\ local[h].pc = "cas"
  BY ActiveFields DEF UpdateSwap, At
<1>2. /\ local[h].id = i /\ requests[i].stored /\ requests[i].state = "pending"
      /\ rec.stored
      /\ \/ /\ rec.state = "fulfilled" /\ rec.secret = h
            /\ rec.key = requests[i].key
         \/ /\ rec.state = "pending" /\ rec.key = h
            /\ rec.secret = requests[i].secret
  BY <1>0, <1>00, SwapFacts DEF UpdateSwap, Held
<1>3. PICK a : local' = [local EXCEPT ![h] = Done(@, a)]
  BY DEF UpdateSwap, Answer
<1>4. /\ Frame(h) /\ UNCHANGED asked
      /\ local'[h].pc = "done" /\ local'[h].took = NoHandler /\ local'[h].id = i
  BY <1>1, <1>2, <1>3, DoneFields DEF Frame, Held, TypeOK, UpdateSwap
<1>5. CASE UNCHANGED requests
  BY <1>1, <1>4, <1>5, HandlerFades
<1>6. CASE requests' = [requests EXCEPT ![i] = rec]
  <2>1. \A j \in Ids : TakersOf(j)' = TakersOf(j)
    BY <1>1, <1>4, TakersStay
  <2>2. /\ requests'[i] = rec
        /\ \A j \in Ids : j # i => requests'[j] = requests[j]
    BY <1>2, <1>6 DEF Held, TypeOK
  <2>3. PhaseOf(i) = "pending" /\ PhaseOf(i)' = rec.state
    BY <1>2, <2>2, Phases
  <2>4. ASSUME NEW j \in Ids, j # i PROVE PhaseOf(j)' = PhaseOf(j)
    <3>1. Settled(j)' <=> Settled(j)
      BY <1>1, <1>4 DEF Settled, Issued, Frame, At
    <3> QED
      BY <2>2, <2>4, <3>1 DEF PhaseOf
  <2>5. CASE rec.state = "fulfilled"
    <3>0. /\ PhaseOf(i)' = "fulfilled" /\ requests'[i].secret = h
          /\ requests'[i].key = requests[i].key
      BY <1>2, <2>2, <2>3, <2>5
    <3>1. Lifecycle!Provide(i, h)
      BY <2>1, <2>2, <2>3, <2>4, <3>0, Steps DEF Lifecycle!Provide
    <3> QED
      BY <1>2, <3>1 DEF Lifecycle!Next
  <2>6. CASE rec.state = "pending"
    <3>1. Lifecycle!Rekey(i, h)
      BY <1>2, <2>1, <2>2, <2>3, <2>4, <2>6, Steps DEF Lifecycle!Rekey
    <3> QED
      BY <1>2, <3>1 DEF Lifecycle!Next
  <2> QED
    BY <1>2, <2>5, <2>6
<1> QED
  BY <1>00, <1>2, <1>5, <1>6 DEF UpdateSwap

\* A Delete: the answer is collected, or the request is just gone.
LEMMA DeleteFollows ==
  ASSUME Held, NEW h \in Handlers, DeleteRequest(h)
  PROVE  Lifecycle!Next
<1> DEFINE q == local[h]
           got == [q EXCEPT !.took = q.base.secret]
<1>0. PICK i \in Ids : i = local[h].id
  BY KnownIds DEF DeleteRequest, At, InFlight, Held
<1>1. /\ q \in Local /\ q.took = NoHandler /\ q.pc = "delete" /\ q.op \in {"fetch", "revoke"}
      /\ q.id = i
  BY <1>0, ActiveFields DEF DeleteRequest, At, Held, LifeInv, HandlerInv, Sound
<1>2. /\ requests' = [requests EXCEPT ![i] = NoRequest] \/ UNCHANGED requests
      /\ UNCHANGED asked
  BY <1>1 DEF DeleteRequest
<1>3. \A j \in Ids : requests'[j] = requests[j] \/ requests'[j] = NoRequest
  BY <1>1, <1>2 DEF Held, TypeOK
<1>4. \/ \E a : local' = [local EXCEPT ![h] = Done(q, a)]
      \/ /\ q.op = "fetch" /\ requests[i].stored
         /\ requests' = [requests EXCEPT ![i] = NoRequest]
         /\ local' = [local EXCEPT ![h] = Done(got, "content")]
  <2>1. PICK call \in DeleteCalls :
          /\ requests' = IF Applied(call)
                         THEN [requests EXCEPT ![i] = NoRequest]
                         ELSE requests
          /\ local' = [local EXCEPT ![h] =
                         IF Errs(call) THEN Done(q, "500")
                         ELSE IF q.op = "revoke" THEN Done(q, "gone204")
                         ELSE Fetched(q, requests[i].stored /\ call # "repeated")]
    BY <1>1 DEF DeleteRequest
  <2>2. CASE Errs(call) \/ q.op = "revoke" \/ ~(requests[i].stored /\ call # "repeated")
    BY <2>1, <2>2 DEF Fetched
  <2>3. CASE ~Errs(call) /\ q.op = "fetch" /\ requests[i].stored /\ call # "repeated"
    BY <2>1, <2>3 DEF Fetched, Applied, Errs
  <2> QED
    BY <1>1, <2>2, <2>3
<1>5. CASE \E a : local' = [local EXCEPT ![h] = Done(q, a)]
  <2>1. Frame(h) /\ local'[h].took = NoHandler /\ local'[h].pc = "done"
    BY <1>1, <1>5, DoneFields DEF Frame, Held, TypeOK
  <2> QED
    BY <1>1, <1>2, <1>3, <2>1, HandlerFades
<1>6. CASE /\ q.op = "fetch" /\ requests[i].stored
           /\ requests' = [requests EXCEPT ![i] = NoRequest]
           /\ local' = [local EXCEPT ![h] = Done(got, "content")]
  <2>1. /\ requests[i] = q.base /\ q.base.state = "fulfilled"
        /\ q.base.secret \in Handlers
    BY <1>1, <1>6, NamesAssumption DEF Held, LifeInv, BaseInv, Current
  <2>2. got \in Local /\ got.took \in Handlers /\ got.id = i
    BY <1>1, <2>1 DEF Local, Origin
  <2> HIDE DEF got
  <2>3. /\ Frame(h)
        /\ local'[h].pc = "done" /\ local'[h].took \in Handlers /\ local'[h].id = i
    BY <1>6, <2>2, DoneFields DEF Frame, Held, TypeOK
  <2>4. /\ requests'[i] = NoRequest
        /\ \A j \in Ids : j # i => requests'[j] = requests[j]
    BY <1>1, <1>6 DEF Held, TypeOK
  <2>5. TakersOf(i) = {}
    BY <1>6 DEF TakersOf, Held, LifeInv, HandedOutOnce
  <2>6. TakersOf(i)' = {h}
    <3>1. \A g \in Handlers : g # h => g \notin TakersOf(i)'
      BY <2>3, <2>5 DEF TakersOf, Collected, Frame
    <3>2. h \in TakersOf(i)'
      BY <2>3, NamesAssumption DEF TakersOf, Collected
    <3>3. TakersOf(i)' \subseteq Handlers
      BY DEF TakersOf
    <3> QED
      BY <3>1, <3>2, <3>3
  <2>7. \A j \in Ids : j # i => TakersOf(j)' = TakersOf(j)
    BY <1>1, <2>3 DEF TakersOf, Collected, Frame
  <2>8. PhaseOf(i) = "fulfilled" /\ PhaseOf(i)' = "gone"
    <3>1. Settled(i)
      BY <1>1, <1>6, StoredIsSettled
    <3>2. Settled(i)'
      BY <1>2, <2>3, <3>1 DEF Settled, Issued, Frame, At
    <3> QED
      BY <1>6, <2>1, <2>4, <3>2, Phases DEF NoRequest
  <2>9. ASSUME NEW j \in Ids, j # i PROVE PhaseOf(j)' = PhaseOf(j)
    <3>1. Settled(j)' <=> Settled(j)
      BY <1>1, <1>2, <2>3 DEF Settled, Issued, Frame, At
    <3> QED
      BY <2>4, <2>9, <3>1, Phases
  <2>10. requests'[i].key = NoHandler /\ requests'[i].secret = NoHandler
    BY <2>4 DEF NoRequest
  <2> HIDE DEF q
  <2>11. Lifecycle!Collect(i, h)
    BY <1>1, <2>4, <2>5, <2>6, <2>7, <2>8, <2>9, <2>10, Steps DEF Lifecycle!Collect
  <2> QED
    BY <1>1, <2>11 DEF Lifecycle!Next
<1> QED
  BY <1>4, <1>5, <1>6

\* Time, evictions, the license, a look at the key, and nothing at all.
LEMMA AroundFollows ==
  ASSUME Held,
         \/ \E i \in Ids : View(i) \/ Evict(i)
         \/ Tick \/ LicenseExpires \/ UNCHANGED vars
  PROVE  Lifecycle!Next
<1>1. UNCHANGED <<asked, local>>
  BY DEF View, Evict, Tick, LicenseExpires, vars
<1>2. \A i \in Ids : requests'[i] = requests[i] \/ requests'[i] = NoRequest
  BY DEF View, Evict, Tick, LicenseExpires, vars, Held, TypeOK
<1>3. \A i \in Ids : TakersOf(i)' = TakersOf(i) /\ (Settled(i) => Settled(i)')
  BY <1>1 DEF TakersOf, Collected, Settled, Issued, At
<1> QED
  BY <1>2, <1>3, Fades

\* Every step is a step of the lifecycle.
LEMMA StepFollows == Held /\ [Next]_vars => Lifecycle!Next
<1> SUFFICES ASSUME Held, [Next]_vars PROVE Lifecycle!Next
  OBVIOUS
<1>1. ASSUME NEW h \in Handlers, Arrive(h) PROVE Lifecycle!Next
  BY <1>1, CreateFollows, ReadFollows DEF Arrive
<1>2. ASSUME NEW h \in Handlers, Handle(h) PROVE Lifecycle!Next
  BY <1>2, PutFollows, ReadFollows, SwapFollows, GiveUpFollows, DeleteFollows DEF Handle
<1>3. ASSUME NEW h \in Handlers, Crash(h) PROVE Lifecycle!Next
  BY <1>3, GiveUpFollows
<1>4. CASE \/ \E i \in Ids : View(i) \/ Evict(i)
           \/ Tick \/ LicenseExpires \/ UNCHANGED vars
  BY <1>4, AroundFollows
<1> QED
  BY <1>1, <1>2, <1>3, <1>4 DEF Next, Quiet

\* The handlers, with every interleaving, failed call, lost reply, eviction and
\* crash, do what RequestLifecycle says of a request: it is opened once, gets at
\* most one answer, while it is pending, and hands it out at most once, in the
\* instant in which it ceases to exist.
THEOREM RequestsFollowLifecycle == Spec => FollowsLifecycle
<1>1. Init => Lifecycle!Init
  BY LifecycleInit
<1>2. Held /\ [Next]_vars => [Lifecycle!Next]_(Lifecycle!lifecycle)
  BY StepFollows
<1> QED
  BY <1>1, <1>2, RequestsHeld, PTL DEF Spec, FollowsLifecycle, Lifecycle!Spec
==============================================================================
