-------------------------- MODULE RequestPagesProofs --------------------------
(***************************************************************************)
(* Theorems about RequestPages, for any sets of requests, keys, tabs and   *)
(* responders, and any bounds.                                             *)
(***************************************************************************)
EXTENDS RequestPages, SequenceTheorems, FiniteSetTheorems, TLAPS

------------------------------------------------------------------------------
(***************************************************************************)
(* The inductive invariant of the pages.                                   *)
(***************************************************************************)
\* The server still keeps the request.
IsOpen(i) == server[i].state \in {"pending", "fulfilled"}

\* TypeOK, and that what is in flight are sequences.
TypeInv ==
  /\ server \in [Ids -> Record]
  /\ lapsed \in SUBSET Ids
  /\ store \in [Ids -> Entry \union {Absent}]
  /\ \A f \in files : f.id \in Ids /\ f.entry \in Entry
  /\ links \in SUBSET Link
  /\ tab \in [Tabs -> Tab]
  /\ calls \in Seq(Call)
  /\ rounds \in Seq(Round)
  /\ acts \in 0..MaxActs
  /\ faults \in 0..MaxFaults
  /\ fate \in [Ids -> {"none", "carried", "shown", "unseen", "dropped", "lost"}]
  /\ mishap \in SUBSET Ids
  /\ page \in [Responders -> Page]

\* A request that is open has a key, and an answer was encrypted to some key.
ServerInv ==
  \A i \in Ids : IsOpen(i) => /\ server[i].key \in Keys
                              /\ server[i].state = "fulfilled" => server[i].cipher \in Keys

\* A page that asks about a request was opened by a link, and one that offers
\* the form will encrypt to the key in its link.
Checked(q) ==
  /\ q.state \in {"loading", "ready"} => q.link \in Link
  /\ q.state = "ready" => q.key \in Keys /\ q.link.fp = q.key
PageInv == \A p \in Responders : Checked(page[p])

\* What a handler works on: one request, but for purgeAll; and the handlers
\* that made a key pair.
Shaped(c) ==
  /\ c.op # "purgeAll" /\ ~(c.op = "create" /\ c.all = {}) => \E i \in Ids : c.all = {i}
  /\ c.op \in {"create", "rotate"} => c.made \in Keys
  /\ c.op \notin {"create", "rotate"} => c.made = NoKey
CallInv == \A n \in DOMAIN calls : Shaped(calls[n])

\* Each key pair is made by one handler; where the server shows it, that
\* handler sent it, and a rotation will hear so unless there was a mishap.
Sent(c, i) ==
  IsOpen(i) /\ c.made = server[i].key =>
    /\ i \in c.all
    /\ c.op = "rotate" => c.ans[i].status = 200 \/ i \in mishap
MadeInv ==
  /\ \A m, n \in DOMAIN calls :
       calls[m].made = calls[n].made /\ calls[m].made # NoKey => m = n
  /\ \A n \in DOMAIN calls, i \in Ids : Sent(calls[n], i)

\* A request is hidden from the browser until the handler that created it
\* stores it, and before that no other handler has to do with it.
Hidden(i) ==
  /\ ~Has(store, i) /\ \A t \in Tabs : ~Has(tab[t].shown, i)
  /\ \A f \in files : f.id # i
Unknown(i) ==
  /\ Hidden(i)
  /\ \A n \in DOMAIN calls : i \in calls[n].all => calls[n].op = "create"
Creating(n, i) == calls[n].op = "create" /\ i \in calls[n].all
CreateAt(i) ==
  /\ server[i].state = "none" =>
       Unknown(i) /\ \A n \in DOMAIN calls : i \notin calls[n].all
  /\ \A n \in DOMAIN calls :
       Creating(n, i) =>
         /\ Unknown(i)
         /\ IsOpen(i) => server[i].key = calls[n].made
         /\ \A m \in DOMAIN calls : i \in calls[m].all => m = n
CreateInv == \A i \in Ids : CreateAt(i)

\* KeyKept, with what is known of the rotation in flight: the server has
\* taken its key, and said so.
Patches(c, i) ==
  Rotating(c, i) /\ c.ans[i].status = 200 /\ c.made = server[i].key
KeyAt(i) ==
  Has(store, i) /\ IsOpen(i) /\ i \notin mishap =>
    \/ store[i].key = server[i].key
    \/ \E n \in DOMAIN calls : Patches(calls[n], i)
KeyInv == \A i \in Ids : KeyAt(i)

\* ArrivedIsShown, with what carries the ciphertext: an answer with data.
Carries(c, i) == Carrying(c, i) /\ c.ans[i].data # NoData
CarryAt(i) ==
  /\ fate[i] # "dropped"
  /\ fate[i] = "carried" => \E n \in DOMAIN calls : Carries(calls[n], i)
CarryInv == \A i \in Ids : CarryAt(i)

PagesInv == /\ TypeInv /\ ServerInv /\ PageInv /\ CallInv /\ MadeInv
            /\ CreateInv /\ KeyInv /\ CarryInv

------------------------------------------------------------------------------
(***************************************************************************)
(* The store: every operation keeps its type, and all but two keep the     *)
(* keys of the entries that stay.                                          *)
(***************************************************************************)
Stores == [Ids -> Entry \union {Absent}]

\* What s keeps of old: entries may go, or be patched, but keep their keys.
KeepsKeys(s, old) ==
  \A i \in Ids : Has(s, i) => Has(old, i) /\ s[i].key = old[i].key

\* An entry that is there is one that was saved.
LEMMA HasEntry ==
  ASSUME NEW s \in Stores, NEW i \in Ids
  PROVE  /\ Has(s, i) => s[i] \in Entry
         /\ ~Has(s, i) => s[i] = Absent
         /\ s[i] \in Entry => Has(s, i)
<1>1. Absent \notin Entry
  BY KeysAssumption DEF Absent, Entry
<1> QED
  BY <1>1 DEF Stores, Has

\* Patching a flag of an entry gives an entry with the same key.
LEMMA FlagPatched ==
  ASSUME NEW x \in Entry
  PROVE  /\ [x EXCEPT !.collected = TRUE] \in Entry
         /\ [x EXCEPT !.revoked = TRUE] \in Entry
         /\ [x EXCEPT !.fulfilled = TRUE] \in Entry
         /\ [x EXCEPT !.collected = TRUE].key = x.key
         /\ [x EXCEPT !.revoked = TRUE].key = x.key
         /\ [x EXCEPT !.fulfilled = TRUE].key = x.key
  BY DEF Entry

\* updateStoredRequest keeps type and keys.
LEMMA UpdatesKeep ==
  ASSUME NEW s \in Stores, NEW i \in Ids
  PROVE  /\ UpdateCollected(s, i) \in Stores /\ KeepsKeys(UpdateCollected(s, i), s)
         /\ UpdateRevoked(s, i) \in Stores /\ KeepsKeys(UpdateRevoked(s, i), s)
<1>1. CASE ~Has(s, i)
  BY <1>1 DEF UpdateCollected, UpdateRevoked, KeepsKeys
<1>2. CASE Has(s, i)
  <2> DEFINE x == [s[i] EXCEPT !.collected = TRUE]
             y == [s[i] EXCEPT !.revoked = TRUE]
  <2>1. s[i] \in Entry
    BY <1>2, HasEntry
  <2>2. x \in Entry /\ y \in Entry /\ x.key = s[i].key /\ y.key = s[i].key
    BY <2>1, FlagPatched
  <2>3. /\ UpdateCollected(s, i) = [s EXCEPT ![i] = x]
        /\ UpdateRevoked(s, i) = [s EXCEPT ![i] = y]
    BY <1>2 DEF UpdateCollected, UpdateRevoked, Stores
  <2> HIDE DEF x, y
  <2>4. /\ [s EXCEPT ![i] = x] \in Stores /\ KeepsKeys([s EXCEPT ![i] = x], s)
        /\ [s EXCEPT ![i] = y] \in Stores /\ KeepsKeys([s EXCEPT ![i] = y], s)
    BY <1>2, <2>2 DEF Stores, KeepsKeys, Has
  <2> QED
    BY <2>3, <2>4
<1> QED
  BY <1>1, <1>2

\* markRequestsFulfilled keeps type and keys.
LEMMA MarkKeeps ==
  ASSUME NEW s \in Stores, NEW I
  PROVE  MarkFulfilled(s, I) \in Stores /\ KeepsKeys(MarkFulfilled(s, I), s)
<1> DEFINE r == MarkFulfilled(s, I)
<1>1. \A i \in Ids : /\ r[i] \in Entry \union {Absent}
                     /\ Has(r, i) => Has(s, i) /\ r[i].key = s[i].key
  <2> TAKE i \in Ids
  <2>1. CASE i \in I /\ Has(s, i)
    <3>1. r[i] = [s[i] EXCEPT !.fulfilled = TRUE]
      BY <2>1 DEF MarkFulfilled
    <3>2. s[i] \in Entry
      BY <2>1, HasEntry
    <3> QED
      BY <2>1, <3>1, <3>2, FlagPatched
  <2>2. CASE ~(i \in I /\ Has(s, i))
    <3>1. r[i] = s[i]
      BY <2>2 DEF MarkFulfilled
    <3> QED
      BY <3>1 DEF Has, Stores
  <2> QED
    BY <2>1, <2>2
<1>2. r = [i \in Ids |-> r[i]]
  BY DEF MarkFulfilled
<1> HIDE DEF r
<1>3. r \in Stores
  BY <1>1, <1>2 DEF Stores
<1>4. r \in Stores /\ KeepsKeys(r, s)
  BY <1>1, <1>3 DEF KeepsKeys
<1> QED
  BY <1>4 DEF r

\* Removing entries keeps type and keys.
LEMMA RemoveKeeps ==
  ASSUME NEW s \in Stores, NEW I
  PROVE  RemoveStored(s, I) \in Stores /\ KeepsKeys(RemoveStored(s, I), s)
  BY DEF RemoveStored, Stores, KeepsKeys, Has

LEMMA ClearKeeps ==
  ASSUME NEW s \in Stores
  PROVE  /\ ClearAll(s) \in Stores /\ KeepsKeys(ClearAll(s), s)
         /\ ClearCollected(s) \in Stores /\ KeepsKeys(ClearCollected(s), s)
  BY RemoveKeeps DEF ClearAll, ClearCollected

\* Saving an entry, and giving one a new key.
LEMMA SaveKeeps ==
  ASSUME NEW s \in Stores, NEW i \in Ids, NEW x \in Entry
  PROVE  /\ SaveStored(s, i, x) \in Stores
         /\ SaveStored(s, i, x)[i] = x
         /\ \A j \in Ids : j # i => SaveStored(s, i, x)[j] = s[j]
  BY DEF SaveStored, Stores

LEMMA KeyUpdated ==
  ASSUME NEW s \in Stores, NEW i \in Ids, NEW k \in Keys
  PROVE  /\ UpdateKey(s, i, k) \in Stores
         /\ \A j \in Ids : j # i => UpdateKey(s, i, k)[j] = s[j]
         /\ Has(UpdateKey(s, i, k), i) => Has(s, i) /\ UpdateKey(s, i, k)[i].key = k
<1>1. CASE ~Has(s, i)
  BY <1>1 DEF UpdateKey
<1>2. CASE Has(s, i)
  <2> DEFINE x == [s[i] EXCEPT !.key = k]
  <2>1. s[i] \in Entry
    BY <1>2, HasEntry
  <2>2. x \in Entry /\ x.key = k
    BY <2>1 DEF Entry
  <2>3. UpdateKey(s, i, k) = [s EXCEPT ![i] = x]
    BY <1>2 DEF UpdateKey, Stores
  <2> HIDE DEF x
  <2> QED
    BY <1>2, <2>2, <2>3 DEF Stores
<1> QED
  BY <1>1, <1>2

\* A request that was created anew.
LEMMA NewEntryType ==
  ASSUME NEW k \in Keys
  PROVE  NewEntry(k) \in Entry /\ NewEntry(k).key = k
  BY DEF NewEntry, Absent, Entry

------------------------------------------------------------------------------
(***************************************************************************)
(* The tabs, and the rounds of lookups.                                    *)
(***************************************************************************)
Gots == [Ids -> Statuses \union {"absent", "asked", "fresh"}]

LEMMA FreshTabType ==
  ASSUME NEW p \in {"create", "list"}
  PROVE  FreshTab(p) \in Tab /\ \A i \in Ids : ~Has(FreshTab(p).shown, i)
<1>1. 0 \in 0..Cardinality(Ids)
  BY IdsAssumption, FS_CardinalityType
<1>2. NoDialog \in Dialog
  BY DEF NoDialog, Dialog
<1>3. [i \in Ids |-> Absent] \in [Ids -> Entry \union {Absent}]
  OBVIOUS
<1>4. [i \in Ids |-> "loading"] \in [Ids -> Statuses]
  BY DEF Statuses
<1> QED
  BY <1>1, <1>2, <1>3, <1>4 DEF FreshTab, Tab, Has

\* The badge never shows more than there are requests.
LEMMA CountType ==
  ASSUME NEW got
  PROVE  CountOf(got) \in 0..Cardinality(Ids)
<1> DEFINE I == {i \in Ids : got[i] \in {"fulfilled", "fresh"}}
<1>1. IsFiniteSet(I) /\ Cardinality(I) <= Cardinality(Ids)
  BY IdsAssumption, FS_Subset
<1>2. Cardinality(I) \in Nat /\ Cardinality(Ids) \in Nat
  BY <1>1, IdsAssumption, FS_CardinalityType
<1> QED
  BY <1>1, <1>2 DEF CountOf

LEMMA LocalStatusType ==
  ASSUME NEW e, NEW i
  PROVE  LocalStatus(e, i) \in {"absent", "collected", "revoked", "expired",
                                "fulfilled", "asked"}
  BY DEF LocalStatus

LEMMA GotType ==
  ASSUME NEW kind, NEW s
  PROVE  Got(kind, s) \in Gots
<1> SUFFICES ASSUME NEW i \in Ids
             PROVE  Got(kind, s)[i] \in Statuses \union {"absent", "asked", "fresh"}
  BY DEF Gots, Got
<1>1. LocalStatus(s[i], i) \in {"absent", "collected", "revoked", "expired",
                                "fulfilled", "asked"}
  BY LocalStatusType
<1> QED
  BY <1>1 DEF Got, Counted, Statuses, Settled

LEMMA NewRoundType ==
  ASSUME NEW kind \in {"list", "badge"}, NEW t \in Tabs, NEW s
  PROVE  NewRound(kind, t, s) \in Round
  BY GotType DEF NewRound, Round, Gots

\* Once every lookup is back there is a status to show for each request.
LEMMA ShownType ==
  ASSUME NEW got \in Gots, \A i \in Ids : got[i] # "asked"
  PROVE  StatusesOf(got) \in [Ids -> Statuses]
<1> SUFFICES ASSUME NEW i \in Ids
             PROVE  Shown(got[i]) \in Statuses
  BY DEF StatusesOf
<1>1. got[i] \in Statuses \union {"absent", "fresh"}
  BY DEF Gots
<1> QED
  BY <1>1 DEF Shown, Statuses

LEMMA ListStartedType ==
  ASSUME NEW q \in Tab, NEW s \in Stores
  PROVE  /\ ListStarted(q, s) \in Tab
         /\ ListStarted(q, s).shown = s
<1> DEFINE status == IF Asks(s) THEN q.status ELSE StatusesOf(Got("list", s))
<1>1. status \in [Ids -> Statuses]
  <2>1. CASE Asks(s)
    BY <2>1 DEF Tab
  <2>2. CASE ~Asks(s)
    <3>1. \A i \in Ids : Got("list", s)[i] # "asked"
      BY <2>2 DEF Got, Asks
    <3> QED
      BY <2>2, <3>1, GotType, ShownType
  <2> QED
    BY <2>1, <2>2
<1>2. ListStarted(q, s) = [q EXCEPT !.shown = s, !.status = status]
  BY DEF ListStarted, Tab
<1> HIDE DEF status
<1>3. [q EXCEPT !.shown = s, !.status = status] \in Tab
  BY <1>1 DEF Tab, Stores
<1>4. [q EXCEPT !.shown = s, !.status = status].shown = s
  BY DEF Tab
<1> QED
  BY <1>2, <1>3, <1>4

LEMMA BadgeStartedType ==
  ASSUME NEW q \in Tab, NEW s
  PROVE  /\ BadgeStarted(q, s) \in Tab
         /\ BadgeStarted(q, s).shown = q.shown
<1> DEFINE badge == IF Asks(s) THEN q.badge ELSE CountOf(Got("badge", s))
<1>1. badge \in 0..Cardinality(Ids)
  BY CountType DEF Tab
<1>2. BadgeStarted(q, s) = [q EXCEPT !.badge = badge]
  BY DEF BadgeStarted, Tab
<1> HIDE DEF badge
<1> QED
  BY <1>1, <1>2 DEF Tab

\* What a tab hears of a write shows at most what was shown or is stored.
LEMMA HearsType ==
  ASSUME NEW q \in Tab, NEW s \in Stores
  PROVE  /\ Hears(q, s) \in Tab
         /\ Hears(q, s).shown \in {q.shown, s}
<1>1. CASE q.page = "list"
  BY <1>1, ListStartedType, BadgeStartedType DEF Hears
<1>2. CASE q.page # "list"
  BY <1>2, BadgeStartedType DEF Hears
<1> QED
  BY <1>1, <1>2

LEMMA SupersededType ==
  ASSUME NEW rs \in Seq(Round), NEW t
  PROVE  Superseded(rs, t) \in Seq(Round)
<1>1. \A n \in DOMAIN rs : rs[n] \in Round
  BY ElementOfSeq
<1>2. \A n \in DOMAIN rs : [rs[n] EXCEPT !.newest = FALSE] \in Round
  BY <1>1 DEF Round
<1>3. DOMAIN rs = 1..Len(rs) /\ Len(rs) \in Nat
  BY LenProperties
<1>4. \A n \in 1..Len(rs) : Superseded(rs, t)[n] \in Round
  BY <1>1, <1>2, <1>3 DEF Superseded
<1>5. Superseded(rs, t) = [n \in 1..Len(rs) |-> Superseded(rs, t)[n]]
  BY <1>3 DEF Superseded
<1> QED
  BY <1>3, <1>4, <1>5, IsASeq

LEMMA AnnouncedType ==
  ASSUME NEW rs \in Seq(Round), NEW t \in Tabs, NEW q, NEW s
  PROVE  /\ WithList(rs, t, s) \in Seq(Round)
         /\ WithBadge(rs, t, s) \in Seq(Round)
         /\ Announced(rs, t, q, s) \in Seq(Round)
<1>1. \A r \in Seq(Round), kind \in {"list", "badge"} :
        Append(r, NewRound(kind, t, s)) \in Seq(Round)
  BY NewRoundType, AppendProperties
<1>2. \A r \in Seq(Round) : WithBadge(r, t, s) \in Seq(Round)
  BY <1>1 DEF WithBadge
<1>3. WithList(rs, t, s) \in Seq(Round)
  BY <1>1, SupersededType DEF WithList
<1> QED
  BY <1>2, <1>3 DEF Announced

\* The rounds of a tab that was left run on without it.
LEMMA LeftType ==
  ASSUME NEW rs \in Seq(Round), NEW t
  PROVE  [n \in DOMAIN rs |-> IF rs[n].tab = t THEN [rs[n] EXCEPT !.live = FALSE]
                                               ELSE rs[n]] \in Seq(Round)
<1> DEFINE left == [n \in DOMAIN rs |-> IF rs[n].tab = t
                      THEN [rs[n] EXCEPT !.live = FALSE] ELSE rs[n]]
<1>1. \A n \in DOMAIN rs : rs[n] \in Round
  BY ElementOfSeq
<1>2. \A n \in DOMAIN rs : [rs[n] EXCEPT !.live = FALSE] \in Round
  BY <1>1 DEF Round
<1>3. DOMAIN rs = 1..Len(rs) /\ Len(rs) \in Nat
  BY LenProperties
<1>4. \A n \in 1..Len(rs) : left[n] \in Round
  BY <1>1, <1>2, <1>3
<1> QED
  BY <1>3, <1>4, IsASeq

\* A round into which the answer about one request is filled.
LEMMA FilledType ==
  ASSUME NEW rs \in Seq(Round), NEW n \in DOMAIN rs, NEW i \in Ids,
         NEW g \in Statuses \union {"absent", "asked", "fresh"}
  PROVE  [rs EXCEPT ![n].got[i] = g] \in Seq(Round)
<1> DEFINE r == [rs[n] EXCEPT !.got[i] = g]
<1>1. rs[n] \in Round
  BY ElementOfSeq
<1>2. r \in Round
  <2>1. [rs[n].got EXCEPT ![i] = g] \in Gots
    BY <1>1 DEF Round, Gots
  <2>2. r = [rs[n] EXCEPT !.got = [rs[n].got EXCEPT ![i] = g]]
    BY <1>1 DEF Round
  <2> QED
    BY <1>1, <2>1, <2>2 DEF Round, Gots
<1>3. [rs EXCEPT ![n].got[i] = g] = [rs EXCEPT ![n] = r]
  BY <1>1
<1> HIDE DEF r
<1>4. n \in 1..Len(rs)
  BY LenProperties
<1> QED
  BY <1>2, <1>3, <1>4, ExceptSeq

------------------------------------------------------------------------------
(***************************************************************************)
(* The handlers in flight: some end, the others go on, under new numbers.  *)
(***************************************************************************)
\* As far as the invariant is concerned, c is what d was.
Same(c, d) ==
  c.op = d.op /\ c.all = d.all /\ c.made = d.made /\ c.ans = d.ans

\* e tells which member of old each member of new is; those at I are left.
Renumbers(e, new, old, I) ==
  /\ e \in [DOMAIN new -> DOMAIN old]
  /\ \A j \in DOMAIN new : e[j] \in I /\ Same(new[j], old[e[j]])
  /\ \A k \in I : \E j \in DOMAIN new : e[j] = k
  /\ \A j, k \in DOMAIN new : e[j] = e[k] => j = k
Thins(new, old, I) == \E e \in [DOMAIN new -> DOMAIN old] : Renumbers(e, new, old, I)

\* Or they are the very same.
Picks(e, new, old, I) ==
  /\ e \in [DOMAIN new -> DOMAIN old]
  /\ \A j \in DOMAIN new : e[j] \in I /\ new[j] = old[e[j]]
  /\ \A k \in I : \E j \in DOMAIN new : e[j] = k
  /\ \A j, k \in DOMAIN new : e[j] = e[k] => j = k
Selects(new, old, I) == \E e \in [DOMAIN new -> DOMAIN old] : Picks(e, new, old, I)

LEMMA SelectsThin ==
  ASSUME NEW new, NEW old, NEW I, Selects(new, old, I)
  PROVE  Thins(new, old, I)
  BY DEF Selects, Thins, Picks, Renumbers, Same

\* RemoveAt takes one member out.
LEMMA RemovedType ==
  ASSUME NEW S, NEW s \in Seq(S), NEW n \in DOMAIN s
  PROVE  /\ RemoveAt(s, n) \in Seq(S)
         /\ DOMAIN RemoveAt(s, n) = 1..(Len(s) - 1)
         /\ \A j \in 1..(Len(s) - 1) :
              RemoveAt(s, n)[j] = s[IF j < n THEN j ELSE j + 1]
<1>1. DOMAIN s = 1..Len(s) /\ Len(s) \in Nat /\ n \in 1..Len(s)
  BY LenProperties
<1>2. \A j \in 1..Len(s) : s[j] \in S
  BY <1>1, ElementOfSeq
<1> DEFINE a == SubSeq(s, 1, n - 1)
           b == SubSeq(s, n + 1, Len(s))
<1>3. /\ a \in Seq(S) /\ Len(a) = n - 1
      /\ \A j \in 1..(n - 1) : a[j] = s[j]
  <2>1. \A j \in 1..(n - 1) : s[j] \in S
    BY <1>1, <1>2
  <2>2. 1 \in Int /\ n - 1 \in Int
    BY <1>1
  <2>3. /\ a \in Seq(S) /\ Len(a) = IF 1 <= n - 1 THEN n - 1 - 1 + 1 ELSE 0
        /\ \A j \in 1..(n - 1 - 1 + 1) : a[j] = s[1 + j - 1]
    BY <2>1, <2>2, SubSeqProperties
  <2> HIDE DEF a
  <2>4. Len(a) = n - 1
    BY <1>1, <2>3
  <2>5. \A j \in 1..(n - 1) : a[j] = s[j]
    BY <1>1, <2>3
  <2> QED
    BY <2>3, <2>4, <2>5
<1>4. /\ b \in Seq(S) /\ Len(b) = Len(s) - n
      /\ \A j \in 1..(Len(s) - n) : b[j] = s[n + j]
  <2>1. \A j \in (n + 1)..Len(s) : s[j] \in S
    BY <1>1, <1>2
  <2>2. n + 1 \in Int /\ Len(s) \in Int
    BY <1>1
  <2>3. /\ b \in Seq(S)
        /\ Len(b) = IF n + 1 <= Len(s) THEN Len(s) - (n + 1) + 1 ELSE 0
        /\ \A j \in 1..(Len(s) - (n + 1) + 1) : b[j] = s[n + 1 + j - 1]
    BY <2>1, <2>2, SubSeqProperties
  <2> HIDE DEF b
  <2>4. Len(b) = Len(s) - n
    BY <1>1, <2>3
  <2>5. \A j \in 1..(Len(s) - n) : b[j] = s[n + j]
    <3> TAKE j \in 1..(Len(s) - n)
    <3>1. j \in 1..(Len(s) - (n + 1) + 1) /\ n + 1 + j - 1 = n + j
      BY <1>1
    <3> QED
      BY <2>3, <3>1
  <2> QED
    BY <2>3, <2>4, <2>5
<1>5. RemoveAt(s, n) = a \o b
  BY DEF RemoveAt
<1> HIDE DEF a, b
<1>6. /\ a \o b \in Seq(S) /\ Len(a \o b) = Len(a) + Len(b)
      /\ \A j \in 1..(Len(a) + Len(b)) :
           (a \o b)[j] = IF j <= Len(a) THEN a[j] ELSE b[j - Len(a)]
  BY <1>3, <1>4, ConcatProperties
<1>7. Len(a) + Len(b) = Len(s) - 1
  BY <1>1, <1>3, <1>4
<1>8. DOMAIN (a \o b) = 1..(Len(s) - 1)
  BY <1>6, <1>7, LenProperties
<1>9. \A j \in 1..(Len(s) - 1) : (a \o b)[j] = s[IF j < n THEN j ELSE j + 1]
  <2> TAKE j \in 1..(Len(s) - 1)
  <2>1. CASE j < n
    BY <1>1, <1>3, <1>6, <1>7, <2>1
  <2>2. CASE ~(j < n)
    <3>1. j - (n - 1) \in 1..(Len(s) - n) /\ n + (j - (n - 1)) = j + 1
      BY <1>1, <2>2
    <3>2. (a \o b)[j] = b[j - (n - 1)]
      BY <1>1, <1>3, <1>6, <1>7, <2>2
    <3> QED
      BY <1>4, <2>2, <3>1, <3>2
  <2> QED
    BY <2>1, <2>2
<1> QED
  BY <1>5, <1>6, <1>8, <1>9

LEMMA RemovedSelects ==
  ASSUME NEW S, NEW s \in Seq(S), NEW n \in DOMAIN s
  PROVE  Selects(RemoveAt(s, n), s, DOMAIN s \ {n})
<1>1. DOMAIN s = 1..Len(s) /\ Len(s) \in Nat /\ n \in 1..Len(s)
  BY LenProperties
<1>2. /\ DOMAIN RemoveAt(s, n) = 1..(Len(s) - 1)
      /\ \A j \in 1..(Len(s) - 1) :
           RemoveAt(s, n)[j] = s[IF j < n THEN j ELSE j + 1]
  BY RemovedType
<1> DEFINE r == RemoveAt(s, n)
           e == [j \in 1..(Len(s) - 1) |-> IF j < n THEN j ELSE j + 1]
<1>3. e \in [1..(Len(s) - 1) -> 1..Len(s)]
  BY <1>1
<1>4. \A j \in 1..(Len(s) - 1) : e[j] # n /\ r[j] = s[e[j]]
  BY <1>1, <1>2
<1>5. \A k \in 1..Len(s) : k # n => \E j \in 1..(Len(s) - 1) : e[j] = k
  <2> TAKE k \in 1..Len(s)
  <2>1. CASE k < n
    <3>1. k \in 1..(Len(s) - 1) /\ e[k] = k
      BY <1>1, <2>1
    <3> QED
      BY <3>1
  <2>2. CASE k > n
    <3>1. k - 1 \in 1..(Len(s) - 1) /\ e[k - 1] = k
      BY <1>1, <2>2
    <3> QED
      BY <3>1
  <2> QED
    BY <1>1, <2>1, <2>2
<1>6. \A j, k \in 1..(Len(s) - 1) : e[j] = e[k] => j = k
  BY <1>1
<1> HIDE DEF r, e
<1>7. DOMAIN r = 1..(Len(s) - 1)
  BY <1>2 DEF r
<1>8. Picks(e, r, s, DOMAIN s \ {n})
  BY <1>1, <1>3, <1>4, <1>5, <1>6, <1>7 DEF Picks
<1> QED
  BY <1>1, <1>3, <1>7, <1>8 DEF Selects, r

LEMMA RemovedThins ==
  ASSUME NEW S, NEW s \in Seq(S), NEW n \in DOMAIN s
  PROVE  Thins(RemoveAt(s, n), s, DOMAIN s \ {n})
  BY RemovedSelects, SelectsThin

\* Those takes out all but I.
LEMMA ThoseSelect ==
  ASSUME NEW S, NEW s \in Seq(S), NEW I \in SUBSET DOMAIN s
  PROVE  Those(s, I) \in Seq(S) /\ Selects(Those(s, I), s, I)
<1> DEFINE m == Cardinality(I)
           B == Bijection(1..m, I)
           e == CHOOSE f \in B : TRUE
<1>1. DOMAIN s = 1..Len(s) /\ Len(s) \in Nat
  BY LenProperties
<1>2. IsFiniteSet(I)
  <2>1. IsFiniteSet(1..Len(s))
    BY <1>1, FS_Interval
  <2>2. I \in SUBSET (1..Len(s))
    BY <1>1
  <2> QED
    BY <2>1, <2>2, FS_Subset
<1>3. m \in Nat /\ B # {}
  BY <1>2, FS_CardinalityType DEF ExistsBijection
<1>4. e \in B
  BY <1>3
<1>5. Those(s, I) = [n \in 1..m |-> s[e[n]]]
  BY DEF Those
<1> HIDE DEF e, m
<1>6. /\ e \in [1..m -> I]
      /\ \A k \in I : \E j \in 1..m : e[j] = k
      /\ \A j, k \in 1..m : e[j] = e[k] => j = k
  BY <1>4 DEF Bijection, Injection, Surjection, IsInjective
<1>7. \A j \in 1..m : s[e[j]] \in S
  BY <1>6, ElementOfSeq
<1>8. Those(s, I) \in Seq(S)
  BY <1>3, <1>5, <1>7, IsASeq
<1>9. Picks(e, Those(s, I), s, I)
  BY <1>5, <1>6 DEF Picks
<1> QED
  BY <1>8, <1>9 DEF Selects, Picks

LEMMA ThoseThin ==
  ASSUME NEW S, NEW s \in Seq(S), NEW I \in SUBSET DOMAIN s
  PROVE  Those(s, I) \in Seq(S) /\ Thins(Those(s, I), s, I)
  BY ThoseSelect, SelectsThin

------------------------------------------------------------------------------
(***************************************************************************)
(* Quiet steps: nothing new is learned of any request.  Handlers may end,  *)
(* the store may lose entries or get flags, and tabs show what was known.  *)
(***************************************************************************)
\* What the tabs show afterwards was shown before, or is stored.
ShowsKnown ==
  \A t \in Tabs, i \in Ids :
    Has(tab'[t].shown, i) => Has(tab[t].shown, i) \/ Has(store, i)
ExportsKnown ==
  \A f \in files' : f \in files \/ \E t \in Tabs : Has(tab[t].shown, f.id)

\* The handlers not at I have ended, but none that something depended on.
PatchesLeft(I) ==
  \A n \in DOMAIN calls \ I, i \in Ids : Patches(calls[n], i) => i \in mishap'
CarriesLeft(I) ==
  \A n \in DOMAIN calls \ I, i \in Ids :
    Carries(calls[n], i) => fate'[i] # "carried"
FateMoves ==
  \A i \in Ids : fate'[i] = fate[i] \/ fate'[i] \notin {"carried", "dropped"}

Quiet(I) ==
  /\ server' = server
  /\ Thins(calls', calls, I)
  /\ mishap \subseteq mishap'
  /\ KeepsKeys(store', store)
  /\ ShowsKnown /\ ExportsKnown
  /\ PatchesLeft(I) /\ CarriesLeft(I) /\ FateMoves

\* Ending handlers leaves the shape of the others as it was.
LEMMA ThinShape ==
  ASSUME CallInv, NEW I, Thins(calls', calls, I)
  PROVE  CallInv'
<1> PICK e \in [DOMAIN calls' -> DOMAIN calls] : Renumbers(e, calls', calls, I)
  BY DEF Thins
<1> SUFFICES ASSUME NEW n \in DOMAIN calls'
             PROVE  Shaped(calls'[n])
  BY DEF CallInv
<1>1. Same(calls'[n], calls[e[n]]) /\ e[n] \in DOMAIN calls
  BY DEF Renumbers
<1>2. Shaped(calls[e[n]])
  BY <1>1 DEF CallInv
<1> QED
  BY <1>1, <1>2 DEF Shaped, Same

\* Nor does it change who made which key.
LEMMA ThinMade ==
  ASSUME MadeInv, NEW I, Thins(calls', calls, I), server' = server,
         \A n \in I, i \in Ids :
           i \in mishap /\ calls[n].made = server[i].key /\ IsOpen(i) => i \in mishap'
  PROVE  MadeInv'
<1> PICK e \in [DOMAIN calls' -> DOMAIN calls] : Renumbers(e, calls', calls, I)
  BY DEF Thins
<1>1. \A n \in DOMAIN calls' : /\ Same(calls'[n], calls[e[n]])
                               /\ e[n] \in DOMAIN calls /\ e[n] \in I
  BY DEF Renumbers
<1>2. \A m, n \in DOMAIN calls' :
        calls'[m].made = calls'[n].made /\ calls'[m].made # NoKey => m = n
  <2> SUFFICES ASSUME NEW m \in DOMAIN calls', NEW n \in DOMAIN calls',
                      calls'[m].made = calls'[n].made, calls'[m].made # NoKey
               PROVE  m = n
    OBVIOUS
  <2>1. calls[e[m]].made = calls[e[n]].made /\ calls[e[m]].made # NoKey
    BY <1>1 DEF Same
  <2>2. e[m] = e[n]
    BY <1>1, <2>1 DEF MadeInv
  <2> QED
    BY <2>2 DEF Renumbers
<1>3. ASSUME NEW n \in DOMAIN calls', NEW i \in Ids
      PROVE  Sent(calls[n], i)'
  <2>1. Sent(calls[e[n]], i)
    BY <1>1 DEF MadeInv
  <2> QED
    BY <1>1, <2>1 DEF Sent, Same, IsOpen
<1> QED
  BY <1>2, <1>3 DEF MadeInv

\* Nothing comes to be known of a request that is still hidden.
LEMMA ThinUnknown ==
  ASSUME NEW I, Thins(calls', calls, I), NEW i \in Ids, Unknown(i), Hidden(i)'
  PROVE  Unknown(i)'
<1> PICK e \in [DOMAIN calls' -> DOMAIN calls] : Renumbers(e, calls', calls, I)
  BY DEF Thins
<1>1. \A n \in DOMAIN calls' : Same(calls'[n], calls[e[n]]) /\ e[n] \in DOMAIN calls
  BY DEF Renumbers
<1> QED
  BY <1>1 DEF Unknown, Same

LEMMA ThinCreate ==
  ASSUME NEW I, Thins(calls', calls, I), server' = server,
         NEW i \in Ids, CreateAt(i), Unknown(i) => Hidden(i)'
  PROVE  CreateAt(i)'
<1> PICK e \in [DOMAIN calls' -> DOMAIN calls] : Renumbers(e, calls', calls, I)
  BY DEF Thins
<1>1. \A n \in DOMAIN calls' : Same(calls'[n], calls[e[n]]) /\ e[n] \in DOMAIN calls
  BY DEF Renumbers
<1>2. Unknown(i) => Unknown(i)'
  BY ThinUnknown
<1>3. ASSUME server'[i].state = "none"
      PROVE  Unknown(i)' /\ \A n \in DOMAIN calls' : i \notin calls'[n].all
  <2>1. Unknown(i) /\ \A n \in DOMAIN calls : i \notin calls[n].all
    BY <1>3 DEF CreateAt
  <2>2. \A n \in DOMAIN calls' : i \notin calls'[n].all
    BY <1>1, <2>1 DEF Same
  <2> QED
    BY <1>2, <2>1, <2>2
<1>4. ASSUME NEW n \in DOMAIN calls', Creating(n, i)'
      PROVE  /\ Unknown(i)'
             /\ IsOpen(i)' => server'[i].key = calls'[n].made
             /\ \A m \in DOMAIN calls' : i \in calls'[m].all => m = n
  <2>1. Creating(e[n], i)
    BY <1>1, <1>4 DEF Creating, Same
  <2>2. /\ Unknown(i)
        /\ IsOpen(i) => server[i].key = calls[e[n]].made
        /\ \A m \in DOMAIN calls : i \in calls[m].all => m = e[n]
    BY <1>1, <2>1 DEF CreateAt
  <2>3. \A m \in DOMAIN calls' : i \in calls'[m].all => e[m] = e[n]
    BY <1>1, <2>2 DEF Same
  <2>4. \A m \in DOMAIN calls' : i \in calls'[m].all => m = n
    BY <2>3 DEF Renumbers
  <2>5. IsOpen(i)' => server'[i].key = calls'[n].made
    BY <1>1, <2>2 DEF IsOpen, Same
  <2> QED
    BY <1>2, <2>2, <2>4, <2>5
<1> QED
  BY <1>3, <1>4 DEF CreateAt

\* The rotations that the store waits for go on, or there was a mishap.
LEMMA ThinKey ==
  ASSUME NEW I, Thins(calls', calls, I), server' = server,
         NEW i \in Ids, KeyAt(i), i \in mishap => i \in mishap',
         Has(store', i) => Has(store, i) /\ store'[i].key = store[i].key,
         \A n \in DOMAIN calls \ I : Patches(calls[n], i) => i \in mishap'
  PROVE  KeyAt(i)'
<1> PICK e \in [DOMAIN calls' -> DOMAIN calls] : Renumbers(e, calls', calls, I)
  BY DEF Thins
<1> SUFFICES ASSUME Has(store', i), IsOpen(i)', i \notin mishap'
             PROVE  \/ store'[i].key = server'[i].key
                    \/ \E n \in DOMAIN calls' : Patches(calls[n], i)'
  BY DEF KeyAt
<1>1. CASE store[i].key = server[i].key
  BY <1>1
<1>2. CASE \E n \in DOMAIN calls : Patches(calls[n], i)
  <2> PICK n \in DOMAIN calls : Patches(calls[n], i)
    BY <1>2
  <2>1. n \in I
    OBVIOUS
  <2> PICK j \in DOMAIN calls' : e[j] = n
    BY <2>1 DEF Renumbers
  <2>2. Same(calls'[j], calls[n])
    BY DEF Renumbers
  <2>3. Patches(calls[j], i)'
    BY <2>2 DEF Patches, Rotating, Same
  <2> QED
    BY <2>3
<1> QED
  BY <1>1, <1>2 DEF KeyAt, IsOpen

LEMMA ThinCarry ==
  ASSUME CarryInv, NEW I, Thins(calls', calls, I), CarriesLeft(I), FateMoves
  PROVE  CarryInv'
<1> PICK e \in [DOMAIN calls' -> DOMAIN calls] : Renumbers(e, calls', calls, I)
  BY DEF Thins
<1> SUFFICES ASSUME NEW i \in Ids
             PROVE  /\ fate'[i] # "dropped"
                    /\ fate'[i] = "carried" =>
                         \E n \in DOMAIN calls' : Carries(calls'[n], i)
  BY DEF CarryInv, CarryAt, Carries, Carrying
<1>1. fate'[i] # "dropped"
  BY DEF FateMoves, CarryInv, CarryAt
<1>2. ASSUME fate'[i] = "carried"
      PROVE  \E n \in DOMAIN calls' : Carries(calls'[n], i)
  <2>1. fate[i] = "carried"
    BY <1>2 DEF FateMoves
  <2> PICK n \in DOMAIN calls : Carries(calls[n], i)
    BY <2>1 DEF CarryInv, CarryAt
  <2>2. n \in I
    BY <1>2 DEF CarriesLeft
  <2> PICK j \in DOMAIN calls' : e[j] = n
    BY <2>2 DEF Renumbers
  <2>3. Same(calls'[j], calls[n])
    BY DEF Renumbers
  <2> QED
    BY <2>3 DEF Carries, Carrying, Same
<1> QED
  BY <1>1, <1>2

\* Quiet steps hide what was unknown.
LEMMA KnownHides ==
  ASSUME NEW i \in Ids, Unknown(i), ShowsKnown, ExportsKnown,
         Has(store', i) => Has(store, i)
  PROVE  Hidden(i)'
  BY DEF Unknown, Hidden, ShowsKnown, ExportsKnown

\* A quiet step keeps what the invariant says of the browser.
LEMMA QuietKeeps ==
  ASSUME ServerInv, CallInv, MadeInv, CreateInv, KeyInv, CarryInv, NEW I, Quiet(I)
  PROVE  ServerInv' /\ CallInv' /\ MadeInv' /\ CreateInv' /\ KeyInv' /\ CarryInv'
<1>1. server' = server /\ Thins(calls', calls, I) /\ mishap \subseteq mishap'
  BY DEF Quiet
<1>2. ServerInv'
  BY <1>1 DEF ServerInv, IsOpen
<1>3. CallInv' /\ MadeInv' /\ CarryInv'
  BY <1>1, ThinShape, ThinMade, ThinCarry DEF Quiet
<1>4. ASSUME NEW i \in Ids
      PROVE  CreateAt(i)' /\ KeyAt(i)'
  <2>1. Has(store', i) => Has(store, i) /\ store'[i].key = store[i].key
    BY DEF Quiet, KeepsKeys
  <2>2. Unknown(i) => Hidden(i)'
    BY <2>1, KnownHides DEF Quiet
  <2>3. CreateAt(i)'
    BY <1>1, <2>2, ThinCreate DEF CreateInv
  <2>4. \A n \in DOMAIN calls \ I : Patches(calls[n], i) => i \in mishap'
    BY DEF Quiet, PatchesLeft
  <2>5. KeyAt(i)'
    BY <1>1, <2>1, <2>4, ThinKey DEF KeyInv
  <2> QED
    BY <2>3, <2>5
<1>5. CreateInv' /\ KeyInv'
  BY <1>4 DEF CreateInv, KeyInv
<1> QED
  BY <1>2, <1>3, <1>5

------------------------------------------------------------------------------
(***************************************************************************)
(* Steps of the tabs: navigation, polls, lookups and their ends, dialogs.  *)
(***************************************************************************)
LEMMA ThinsSame ==
  ASSUME NEW s \in Seq(Call)
  PROVE  Thins(s, s, DOMAIN s)
<1> DEFINE e == [j \in DOMAIN s |-> j]
<1>1. Renumbers(e, s, s, DOMAIN s)
  BY DEF Renumbers, Same
<1> QED
  BY <1>1 DEF Thins

\* A tab that shows the store, or what it showed, shows what is known.
LEMMA ShowsFrom ==
  ASSUME KeepsKeys(store', store), NEW t \in Tabs,
         \/ tab'[t].shown \in {tab[t].shown, store, store'}
         \/ \A i \in Ids : ~Has(tab'[t].shown, i),
         \A u \in Tabs : u # t => tab'[u].shown = tab[u].shown
  PROVE  ShowsKnown
  BY DEF ShowsKnown, KeepsKeys, Has

LEMMA StoreKept ==
  KeepsKeys(store, store)
  BY DEF KeepsKeys

\* Steps that touch neither the server nor the handlers are quiet.
LEMMA TabQuiet ==
  ASSUME TypeInv, server' = server, calls' = calls, mishap' = mishap, fate' = fate,
         KeepsKeys(store', store), ShowsKnown, ExportsKnown
  PROVE  Quiet(DOMAIN calls)
<1>1. Thins(calls', calls, DOMAIN calls)
  BY ThinsSame DEF TypeInv
<1>2. PatchesLeft(DOMAIN calls) /\ CarriesLeft(DOMAIN calls) /\ FateMoves
  BY DEF PatchesLeft, CarriesLeft, FateMoves
<1> QED
  BY <1>1, <1>2 DEF Quiet

LEMMA FilesSame ==
  ASSUME files' = files
  PROVE  ExportsKnown
  BY DEF ExportsKnown

\* Tab t writes s.
LEMMA Wrote ==
  ASSUME TypeInv, NEW t \in Tabs, NEW q \in Tab, NEW s \in Stores, Write(t, q, s)
  PROVE  /\ store' = s
         /\ rounds' \in Seq(Round)
         /\ tab' \in [Tabs -> Tab]
         /\ tab'[t].shown \in {q.shown, s}
         /\ \A u \in Tabs : u # t => tab'[u] = tab[u]
<1>1. rounds' \in Seq(Round)
  BY AnnouncedType DEF Write, TypeInv
<1>2. Hears(q, s) \in Tab /\ Hears(q, s).shown \in {q.shown, s}
  BY HearsType
<1>3. tab' = [tab EXCEPT ![t] = Hears(q, s)]
  BY DEF Write
<1> QED
  BY <1>1, <1>2, <1>3 DEF Write, TypeInv

LEMMA TabHas ==
  ASSUME TypeInv, NEW t \in Tabs
  PROVE  /\ tab[t] \in Tab
         /\ tab[t].shown \in Stores
         /\ tab[t].dialog \in Dialog
         /\ [tab[t] EXCEPT !.dialog = NoDialog] \in Tab
         /\ [tab[t] EXCEPT !.revealed = NoSecret] \in Tab
         /\ [tab[t] EXCEPT !.busy = "none"] \in Tab
         /\ [tab[t] EXCEPT !.dialog = NoDialog].shown = tab[t].shown
         /\ [tab[t] EXCEPT !.revealed = NoSecret].shown = tab[t].shown
         /\ [tab[t] EXCEPT !.busy = "none"].shown = tab[t].shown
<1>1. tab[t] \in Tab
  BY DEF TypeInv
<1>2. NoDialog \in Dialog
  BY DEF NoDialog, Dialog
<1> QED
  BY <1>1, <1>2 DEF Tab, Stores

LEMMA NavigateStep ==
  ASSUME TypeInv, UNCHANGED page, NEW t \in Tabs, NEW p \in {"create", "list"},
         Navigate(t, p)
  PROVE  TypeInv' /\ Quiet(DOMAIN calls)
<1> DEFINE q == [FreshTab(p) EXCEPT !.badge = tab[t].badge]
           left == [n \in DOMAIN rounds |->
                      IF rounds[n].tab = t THEN [rounds[n] EXCEPT !.live = FALSE]
                                           ELSE rounds[n]]
           kept == [n \in DOMAIN calls |->
                      IF calls[n].tab = t THEN [calls[n] EXCEPT !.live = FALSE]
                                          ELSE calls[n]]
<1>1. tab' = [tab EXCEPT ![t] = Hears(q, store)]
  BY DEF Navigate
<1>2. rounds' = Announced(left, t, q, store)
  BY DEF Navigate
<1>3. calls' = kept
  BY DEF Navigate
<1>4. q \in Tab /\ \A i \in Ids : ~Has(q.shown, i)
  <2>1. FreshTab(p) \in Tab /\ \A i \in Ids : ~Has(FreshTab(p).shown, i)
    BY FreshTabType
  <2>2. tab[t].badge \in 0..Cardinality(Ids)
    BY TabHas DEF Tab
  <2> QED
    BY <2>1, <2>2 DEF Tab
<1>5. left \in Seq(Round)
  BY LeftType DEF TypeInv
<1> HIDE DEF q, left
<1>6. store \in Stores
  BY DEF TypeInv, Stores
<1>7. rounds' \in Seq(Round)
  BY <1>2, <1>5, AnnouncedType
<1>8. Hears(q, store) \in Tab /\ Hears(q, store).shown \in {q.shown, store}
  BY <1>4, <1>6, HearsType
<1>9. tab' \in [Tabs -> Tab]
  BY <1>1, <1>8 DEF TypeInv
<1>10. calls' \in Seq(Call) /\ Thins(calls', calls, DOMAIN calls)
  <2>1. calls \in Seq(Call)
    BY DEF TypeInv
  <2>2. DOMAIN calls = 1..Len(calls) /\ Len(calls) \in Nat
    BY <2>1, LenProperties
  <2>3. \A n \in DOMAIN calls : calls[n] \in Call
    BY <2>1, ElementOfSeq
  <2>4. \A n \in DOMAIN calls : kept[n] \in Call /\ Same(kept[n], calls[n])
    BY <2>3 DEF Call, Same
  <2>5. kept \in Seq(Call)
    BY <2>2, <2>4, IsASeq
  <2>6. Renumbers([j \in DOMAIN calls |-> j], kept, calls, DOMAIN calls)
    BY <2>4 DEF Renumbers
  <2> QED
    BY <1>3, <2>5, <2>6 DEF Thins
<1> HIDE DEF kept
<1>11. TypeInv'
  BY <1>7, <1>9, <1>10 DEF TypeInv, Navigate
<1>12. ShowsKnown
  <2>1. tab'[t].shown \in {q.shown, store}
    BY <1>1, <1>8 DEF TypeInv
  <2>2. \A u \in Tabs : u # t => tab'[u].shown = tab[u].shown
    BY <1>1 DEF TypeInv
  <2>3. store' = store
    BY DEF Navigate
  <2>4. KeepsKeys(store', store)
    BY <2>3, StoreKept
  <2>5. CASE tab'[t].shown = store
    BY <2>2, <2>4, <2>5, ShowsFrom
  <2>6. CASE tab'[t].shown = q.shown
    BY <1>4, <2>2, <2>4, <2>6, ShowsFrom
  <2> QED
    BY <2>1, <2>5, <2>6
<1>13. PatchesLeft(DOMAIN calls) /\ CarriesLeft(DOMAIN calls) /\ FateMoves
  BY DEF PatchesLeft, CarriesLeft, FateMoves, Navigate
<1> QED
  BY <1>10, <1>11, <1>12, <1>13, FilesSame, StoreKept DEF Quiet, Navigate

LEMMA PollStep ==
  ASSUME TypeInv, UNCHANGED page, NEW t \in Tabs, Poll(t)
  PROVE  TypeInv' /\ Quiet(DOMAIN calls)
<1>1. tab' = [tab EXCEPT ![t] = BadgeStarted(tab[t], store)]
  BY DEF Poll
<1>2. /\ BadgeStarted(tab[t], store) \in Tab
      /\ BadgeStarted(tab[t], store).shown = tab[t].shown
  BY TabHas, BadgeStartedType
<1>3. rounds' \in Seq(Round)
  BY AnnouncedType DEF Poll, TypeInv
<1>4. tab' \in [Tabs -> Tab]
  BY <1>1, <1>2 DEF TypeInv
<1>5. TypeInv'
  BY <1>3, <1>4 DEF TypeInv, Poll
<1>6. KeepsKeys(store', store)
  BY StoreKept DEF Poll
<1>7. ShowsKnown
  BY <1>1, <1>2, <1>6, ShowsFrom DEF TypeInv
<1> QED
  BY <1>5, <1>6, <1>7, TabQuiet, FilesSame DEF Poll

LEMMA LookedUpStep ==
  ASSUME TypeInv, UNCHANGED page, NEW n \in DOMAIN rounds, NEW i \in Ids,
         LookedUp(n, i)
  PROVE  TypeInv' /\ Quiet(DOMAIN calls)
<1>1. PICK g \in Statuses \union {"absent", "asked", "fresh"} :
        rounds' = [rounds EXCEPT ![n].got[i] = g]
  <2>1. Resolve(i, Lookup(i)) \in Statuses \union {"absent", "asked", "fresh"}
    BY DEF Resolve, Statuses
  <2>2. "loading" \in Statuses \union {"absent", "asked", "fresh"}
    BY DEF Statuses
  <2> QED
    BY <2>1, <2>2 DEF LookedUp
<1>2. rounds' \in Seq(Round)
  BY <1>1, FilledType DEF TypeInv
<1>3. faults' \in 0..MaxFaults
  BY BoundsAssumption DEF LookedUp, TypeInv
<1>4. TypeInv'
  BY <1>2, <1>3 DEF TypeInv, LookedUp
<1>5. KeepsKeys(store', store) /\ ShowsKnown
  BY StoreKept DEF LookedUp, ShowsKnown
<1> QED
  BY <1>4, <1>5, TabQuiet, FilesSame DEF LookedUp

\* The end of a round: what it found is cached, and what it writes is heard.
LEMMA Marking ==
  ASSUME TypeInv, NEW n \in DOMAIN rounds, NEW q \in Tab, Mark(n)
  PROVE  /\ rounds' \in Seq(Round)
         /\ store' \in Stores /\ KeepsKeys(store', store)
         /\ MarkHears(n, q) \in Tab
         /\ MarkHears(n, q).shown \in {q.shown, store'}
<1>1. rounds[n] \in Round
  BY ElementOfSeq DEF TypeInv
<1>2. rounds[n].tab \in Tabs
  BY <1>1 DEF Round
<1>3. RemoveAt(rounds, n) \in Seq(Round)
  BY RemovedType DEF TypeInv
<1>4. store \in Stores
  BY DEF TypeInv, Stores
<1>5. Marked(n) \in Stores /\ KeepsKeys(Marked(n), store)
  BY <1>4, MarkKeeps DEF Marked
<1>6. CASE Writes(n)
  <2>1. store' = Marked(n)
    BY <1>6 DEF Mark
  <2>2. rounds' \in Seq(Round)
    BY <1>2, <1>3, <1>6, AnnouncedType DEF Mark
  <2> QED
    BY <1>5, <1>6, <2>1, <2>2, HearsType DEF MarkHears
<1>7. CASE ~Writes(n)
  BY <1>3, <1>4, <1>7, StoreKept DEF Mark, MarkHears
<1> QED
  BY <1>6, <1>7

LEMMA ListDoneStep ==
  ASSUME TypeInv, UNCHANGED page, NEW n \in DOMAIN rounds, ListDone(n)
  PROVE  TypeInv' /\ Quiet(DOMAIN calls)
<1> DEFINE t == rounds[n].tab
           q == IF rounds[n].live
                THEN [tab[t] EXCEPT !.status = StatusesOf(rounds[n].got)]
                ELSE tab[t]
<1>1. rounds[n] \in Round
  BY ElementOfSeq DEF TypeInv
<1>2. t \in Tabs /\ rounds[n].got \in Gots
  BY <1>1 DEF Round, Gots
<1>3. StatusesOf(rounds[n].got) \in [Ids -> Statuses]
  BY <1>2, ShownType DEF ListDone, Complete
<1>4. q \in Tab /\ q.shown = tab[t].shown
  <2>1. tab[t] \in Tab
    BY <1>2, TabHas
  <2>2. /\ [tab[t] EXCEPT !.status = StatusesOf(rounds[n].got)] \in Tab
        /\ [tab[t] EXCEPT !.status = StatusesOf(rounds[n].got)].shown = tab[t].shown
    BY <1>3, <2>1 DEF Tab
  <2> QED
    BY <2>1, <2>2
<1>5. CASE Current(rounds[n])
  <2>1. Mark(n) /\ tab' = [tab EXCEPT ![t] = MarkHears(n, q)]
    BY <1>5 DEF ListDone
  <2> HIDE DEF q
  <2>2. /\ rounds' \in Seq(Round)
        /\ store' \in Stores /\ KeepsKeys(store', store)
        /\ MarkHears(n, q) \in Tab
        /\ MarkHears(n, q).shown \in {q.shown, store'}
    BY <1>4, <2>1, Marking
  <2> HIDE DEF t
  <2>3. tab' \in [Tabs -> Tab]
    BY <1>2, <2>1, <2>2 DEF TypeInv
  <2>4. TypeInv'
    BY <2>2, <2>3 DEF TypeInv, ListDone, Stores
  <2>5. /\ tab'[t].shown \in {tab[t].shown, store'}
        /\ \A u \in Tabs : u # t => tab'[u].shown = tab[u].shown
    BY <1>2, <1>4, <2>1, <2>2 DEF TypeInv
  <2>6. ShowsKnown
    BY <1>2, <2>2, <2>5, ShowsFrom
  <2> QED
    BY <2>2, <2>4, <2>6, TabQuiet, FilesSame DEF ListDone
<1>6. CASE ~Current(rounds[n])
  <2>1. rounds' = RemoveAt(rounds, n) /\ UNCHANGED <<store, tab>>
    BY <1>6 DEF ListDone
  <2>2. rounds' \in Seq(Round)
    BY <2>1, RemovedType DEF TypeInv
  <2>3. TypeInv'
    BY <2>1, <2>2 DEF TypeInv, ListDone
  <2>4. KeepsKeys(store', store) /\ ShowsKnown
    BY <2>1, StoreKept DEF ShowsKnown
  <2> QED
    BY <2>3, <2>4, TabQuiet, FilesSame DEF ListDone
<1> QED
  BY <1>5, <1>6

LEMMA BadgeDoneStep ==
  ASSUME TypeInv, UNCHANGED page, NEW n \in DOMAIN rounds, BadgeDone(n)
  PROVE  TypeInv' /\ Quiet(DOMAIN calls)
<1> DEFINE t == rounds[n].tab
           q == MarkHears(n, tab[t])
           badge == IF rounds[n].live THEN CountOf(rounds[n].got) ELSE q.badge
<1>1. rounds[n] \in Round
  BY ElementOfSeq DEF TypeInv
<1>2. t \in Tabs /\ tab[t] \in Tab
  BY <1>1 DEF Round, TypeInv
<1>3. /\ rounds' \in Seq(Round)
      /\ store' \in Stores /\ KeepsKeys(store', store)
      /\ q \in Tab /\ q.shown \in {tab[t].shown, store'}
  BY <1>2, Marking DEF BadgeDone
<1>4. tab' = [tab EXCEPT ![t] = [q EXCEPT !.badge = badge]]
  <2> HIDE DEF q
  <2>1. [q EXCEPT !.badge = IF rounds[n].live THEN CountOf(rounds[n].got) ELSE @]
          = [q EXCEPT !.badge = badge]
    BY <1>3 DEF Tab
  <2> QED
    BY <2>1 DEF BadgeDone, q
<1>5. badge \in 0..Cardinality(Ids)
  BY <1>3, CountType DEF Tab
<1> HIDE DEF t, q, badge
<1>6. [q EXCEPT !.badge = badge] \in Tab /\ [q EXCEPT !.badge = badge].shown = q.shown
  BY <1>3, <1>5 DEF Tab
<1>7. tab' \in [Tabs -> Tab]
  BY <1>2, <1>4, <1>6 DEF TypeInv
<1>8. TypeInv'
  BY <1>3, <1>7 DEF TypeInv, BadgeDone, Stores
<1>9. /\ tab'[t].shown \in {tab[t].shown, store'}
      /\ \A u \in Tabs : u # t => tab'[u].shown = tab[u].shown
  BY <1>2, <1>3, <1>4, <1>6 DEF TypeInv
<1>10. ShowsKnown
  BY <1>2, <1>3, <1>9, ShowsFrom
<1> QED
  BY <1>3, <1>8, <1>10, TabQuiet, FilesSame DEF BadgeDone

------------------------------------------------------------------------------
(***************************************************************************)
(* Clicks that send nothing.                                               *)
(***************************************************************************)
LEMMA AskStep ==
  ASSUME TypeInv, UNCHANGED page, NEW t \in Tabs, NEW type \in Ops,
         NEW all \in SUBSET Ids, Ask(t, type, all)
  PROVE  TypeInv' /\ Quiet(DOMAIN calls)
<1> DEFINE q == [tab[t] EXCEPT !.dialog = [type |-> type, all |-> all]]
<1>1. [type |-> type, all |-> all] \in Dialog
  BY OpsAssumption DEF Dialog
<1>2. q \in Tab /\ q.shown = tab[t].shown
  <2>1. tab[t] \in Tab
    BY TabHas
  <2>2. \A d \in Dialog : /\ [tab[t] EXCEPT !.dialog = d] \in Tab
                         /\ [tab[t] EXCEPT !.dialog = d].shown = tab[t].shown
    BY <2>1 DEF Tab
  <2> QED
    BY <1>1, <2>2
<1>3. tab' = [tab EXCEPT ![t] = q]
  BY DEF Ask
<1> HIDE DEF q
<1>4. tab' \in [Tabs -> Tab]
  BY <1>2, <1>3 DEF TypeInv
<1>5. TypeInv'
  BY <1>4 DEF TypeInv, Ask
<1>6. KeepsKeys(store', store)
  BY StoreKept DEF Ask
<1>7. ShowsKnown
  BY <1>2, <1>3, <1>6, ShowsFrom DEF TypeInv
<1> QED
  BY <1>5, <1>6, <1>7, TabQuiet, FilesSame DEF Ask

LEMMA CancelStep ==
  ASSUME TypeInv, UNCHANGED page, NEW t \in Tabs, Cancel(t) \/ Close(t)
  PROVE  TypeInv' /\ Quiet(DOMAIN calls)
<1>1. PICK q \in Tab : tab' = [tab EXCEPT ![t] = q] /\ q.shown = tab[t].shown
  BY TabHas DEF Cancel, Close
<1>2. tab' \in [Tabs -> Tab]
  BY <1>1 DEF TypeInv
<1>3. TypeInv'
  BY <1>2 DEF TypeInv, Cancel, Close
<1>4. KeepsKeys(store', store)
  BY StoreKept DEF Cancel, Close
<1>5. ShowsKnown
  BY <1>1, <1>4, ShowsFrom DEF TypeInv
<1> QED
  BY <1>3, <1>4, <1>5, TabQuiet, FilesSame DEF Cancel, Close

LEMMA ConfirmLocalStep ==
  ASSUME TypeInv, UNCHANGED page, NEW t \in Tabs, NEW type,
         ConfirmLocal(t, type)
  PROVE  TypeInv' /\ Quiet(DOMAIN calls)
<1> DEFINE found == {i \in tab[t].dialog.all : Has(tab[t].shown, i)}
           q == [tab[t] EXCEPT !.dialog = NoDialog]
<1>1. store \in Stores
  BY DEF TypeInv, Stores
<1>2. q \in Tab /\ q.shown = tab[t].shown
  BY TabHas
<1>3. \/ Write(t, q, ClearCollected(store))
      \/ Write(t, q, RemoveStored(store, found))
      \/ tab' = [tab EXCEPT ![t] = q] /\ UNCHANGED <<store, rounds>>
  BY DEF ConfirmLocal
<1> HIDE DEF q, found
<1>4. ASSUME NEW s \in Stores, KeepsKeys(s, store), Write(t, q, s)
      PROVE  /\ KeepsKeys(store', store) /\ store' \in Stores
             /\ rounds' \in Seq(Round)
             /\ tab' \in [Tabs -> Tab]
             /\ tab'[t].shown \in {tab[t].shown, store'}
             /\ \A u \in Tabs : u # t => tab'[u].shown = tab[u].shown
  BY <1>2, <1>4, Wrote
<1>5. /\ KeepsKeys(store', store) /\ store' \in Stores
      /\ rounds' \in Seq(Round)
      /\ tab' \in [Tabs -> Tab]
      /\ tab'[t].shown \in {tab[t].shown, store'}
      /\ \A u \in Tabs : u # t => tab'[u].shown = tab[u].shown
  <2>1. CASE Write(t, q, ClearCollected(store))
    BY <1>1, <1>4, <2>1, ClearKeeps
  <2>2. CASE Write(t, q, RemoveStored(store, found))
    BY <1>1, <1>4, <2>2, RemoveKeeps
  <2>3. CASE tab' = [tab EXCEPT ![t] = q] /\ UNCHANGED <<store, rounds>>
    BY <1>1, <1>2, <2>3, StoreKept DEF TypeInv
  <2> QED
    BY <1>3, <2>1, <2>2, <2>3
<1>6. acts' \in 0..MaxActs
  BY BoundsAssumption DEF ConfirmLocal, Confirmed, Act, TypeInv
<1>7. TypeInv'
  BY <1>5, <1>6 DEF TypeInv, ConfirmLocal, Stores
<1>8. ShowsKnown
  BY <1>5, ShowsFrom
<1> QED
  BY <1>5, <1>7, <1>8, TabQuiet, FilesSame DEF ConfirmLocal

LEMMA CopyLinkStep ==
  ASSUME TypeInv, UNCHANGED page, NEW t \in Tabs, NEW i \in Ids, CopyLink(t, i)
  PROVE  TypeInv' /\ Quiet(DOMAIN calls)
<1>1. tab[t].shown[i] \in Entry
  BY TabHas, HasEntry DEF CopyLink
<1>2. links' \in SUBSET Link
  BY <1>1 DEF CopyLink, TypeInv, Link, LinkTo, Entry
<1>3. TypeInv'
  BY <1>2 DEF TypeInv, CopyLink
<1>4. KeepsKeys(store', store) /\ ShowsKnown
  BY StoreKept DEF CopyLink, ShowsKnown
<1> QED
  BY <1>3, <1>4, TabQuiet, FilesSame DEF CopyLink

LEMMA ExportStep ==
  ASSUME TypeInv, UNCHANGED page, NEW t \in Tabs, NEW i \in Ids, Export(t, i)
  PROVE  TypeInv' /\ Quiet(DOMAIN calls)
<1>1. tab[t].shown[i] \in Entry
  BY TabHas, HasEntry DEF Export
<1>2. \A f \in files' : f.id \in Ids /\ f.entry \in Entry
  BY <1>1 DEF Export
<1>3. TypeInv'
  BY <1>2 DEF TypeInv, Export
<1>4. KeepsKeys(store', store) /\ ShowsKnown
  BY StoreKept DEF Export, ShowsKnown
<1>5. ExportsKnown
  BY DEF Export, ExportsKnown
<1> QED
  BY <1>3, <1>4, <1>5, TabQuiet DEF Export

LEMMA PassStep ==
  ASSUME TypeInv, UNCHANGED page, NEW i \in Ids, Pass(i)
  PROVE  TypeInv' /\ Quiet(DOMAIN calls)
<1>1. TypeInv'
  BY DEF TypeInv, Pass
<1>2. KeepsKeys(store', store) /\ ShowsKnown
  BY StoreKept DEF Pass, ShowsKnown
<1> QED
  BY <1>1, <1>2, TabQuiet, FilesSame DEF Pass

------------------------------------------------------------------------------
(***************************************************************************)
(* Steps of the people who were sent a link, but for their submissions.    *)
(***************************************************************************)
LEMMA VerdictType ==
  ASSUME NEW state \in PageStates \ {"loading", "ready"}
  PROVE  Verdict(state) \in Page /\ Checked(Verdict(state))
  BY DEF Verdict, Closed, NoLink, Page, Checked

LEMMA OpenStep ==
  ASSUME TypeInv, PageInv, NEW p \in Responders, Open(p)
  PROVE  TypeInv' /\ PageInv' /\ Quiet(DOMAIN calls)
<1>1. PICK l \in Link : page' = [page EXCEPT ![p] = Opened(l)]
  <2>1. \A l \in links : l \in Link /\ Truncated(l) \in Link
    BY DEF TypeInv, Link, Truncated
  <2> QED
    BY <2>1 DEF Open
<1>2. Opened(l) \in Page /\ Checked(Opened(l))
  BY DEF Opened, Closed, NoLink, Page, Checked, PageStates
<1>3. TypeInv' /\ PageInv'
  BY <1>1, <1>2 DEF TypeInv, PageInv, Open, requester
<1>4. KeepsKeys(store', store) /\ ShowsKnown
  BY StoreKept DEF Open, requester, ShowsKnown
<1> QED
  BY <1>3, <1>4, TabQuiet, FilesSame DEF Open, requester

\* The page offers the form only for the key in its link.
LEMMA LoadedType ==
  ASSUME NEW q \in Page, q.state = "loading", Checked(q),
         NEW answer, answer.data \in {NoData, "pending", "fulfilled"},
         NEW key \in Keys \union {NoKey}
  PROVE  Loaded(q, answer, key) \in Page /\ Checked(Loaded(q, answer, key))
<1>1. CASE \E state \in PageStates \ {"loading", "ready"} :
             Loaded(q, answer, key) = Verdict(state)
  BY <1>1, VerdictType
<1>2. CASE /\ q.link.fp # NoKey /\ Matches(q, key)
           /\ Loaded(q, answer, key) = [q EXCEPT !.state = "ready", !.key = key]
  <2> DEFINE r == [q EXCEPT !.state = "ready", !.key = key]
  <2>1. q.link \in Link
    BY DEF Checked
  <2>2. key \in Keys
    BY <1>2 DEF Matches
  <2>3. /\ r.state = "ready" /\ r.key = key /\ r.link = q.link
        /\ r \in Page
    BY DEF Page, PageStates
  <2> HIDE DEF r
  <2>4. Checked(r)
    BY <1>2, <2>1, <2>2, <2>3 DEF Checked, Matches
  <2> QED
    BY <1>2, <2>3, <2>4 DEF r
<1> QED
  BY <1>1, <1>2 DEF Loaded, PageStates

LEMMA LoadStep ==
  ASSUME TypeInv, PageInv, NEW p \in Responders, Load(p) \/ LoadBadly(p)
  PROVE  TypeInv' /\ PageInv' /\ Quiet(DOMAIN calls)
<1>1. page[p] \in Page /\ Checked(page[p]) /\ page[p].state = "loading"
  BY DEF TypeInv, PageInv, Load, LoadBadly
<1>2. PICK q \in Page : Checked(q) /\ page' = [page EXCEPT ![p] = q]
  <2>1. CASE Load(p)
    <3> DEFINE i == page[p].link.id
    <3>1. i \in Ids
      BY <1>1 DEF Checked, Link
    <3>2. server[i].key \in Keys \union {NoKey}
      BY <3>1 DEF TypeInv, Record
    <3>3. Lookup(i).data \in {NoData, "pending", "fulfilled"}
      BY DEF Lookup, Clear, JsonFetch
    <3>4. page' = [page EXCEPT ![p] = Loaded(page[p], Lookup(i), server[i].key)]
      BY <2>1 DEF Load
    <3> HIDE DEF i
    <3>5. /\ Loaded(page[p], Lookup(i), server[i].key) \in Page
          /\ Checked(Loaded(page[p], Lookup(i), server[i].key))
      BY <1>1, <3>2, <3>3, LoadedType
    <3> QED
      BY <3>4, <3>5
  <2>2. CASE LoadBadly(p)
    <3>1. Lost.data \in {NoData, "pending", "fulfilled"}
      BY DEF Lost
    <3>2. page' = [page EXCEPT ![p] = Loaded(page[p], Lost, NoKey)]
      BY <2>2 DEF LoadBadly
    <3>3. /\ Loaded(page[p], Lost, NoKey) \in Page
          /\ Checked(Loaded(page[p], Lost, NoKey))
      BY <1>1, <3>1, LoadedType
    <3> QED
      BY <3>2, <3>3
  <2> QED
    BY <2>1, <2>2
<1>3. UNCHANGED <<server, lapsed, store, files, links, tab, calls, rounds, acts,
                  fate, mishap>>
  BY DEF Load, LoadBadly, requester
<1>4. faults' \in 0..MaxFaults
  BY BoundsAssumption DEF Load, LoadBadly, requester, TypeInv
<1>5. TypeInv' /\ PageInv'
  BY <1>2, <1>3, <1>4 DEF TypeInv, PageInv
<1>6. KeepsKeys(store', store) /\ ShowsKnown
  BY <1>3, StoreKept DEF ShowsKnown
<1> QED
  BY <1>3, <1>5, <1>6, TabQuiet, FilesSame

------------------------------------------------------------------------------
(***************************************************************************)
(* Clicks that send a request: one more handler waits.                     *)
(***************************************************************************)
\* The tabs know of i.
Known(i) == Has(store, i) \/ \E t \in Tabs : Has(tab[t].shown, i)

\* The handler c has started, and nothing else has happened.
Starts(c) ==
  /\ calls' = Append(calls, c)
  /\ server' = server /\ store' = store /\ files' = files
  /\ fate' = fate /\ mishap' = mishap
  /\ \A t \in Tabs : tab'[t].shown = tab[t].shown

LEMMA StartKeeps ==
  ASSUME TypeInv, ServerInv, CallInv, MadeInv, CreateInv, KeyInv, CarryInv,
         NEW c \in Call, Starts(c), Shaped(c),
         c.made = NoKey \/ ~Used(c.made),
         IF c.op = "create" THEN c.all = {} ELSE \A i \in c.all : Known(i)
  PROVE  ServerInv' /\ CallInv' /\ MadeInv' /\ CreateInv' /\ KeyInv' /\ CarryInv'
<1> DEFINE last == Len(calls) + 1
<1>1. /\ DOMAIN calls = 1..Len(calls) /\ Len(calls) \in Nat
      /\ DOMAIN calls' = DOMAIN calls \union {last}
      /\ calls'[last] = c
      /\ \A n \in DOMAIN calls : calls'[n] = calls[n]
      /\ last \notin DOMAIN calls
  <2>1. calls \in Seq(Call)
    BY DEF TypeInv
  <2>2. /\ calls' \in Seq(Call) /\ Len(calls') = Len(calls) + 1
        /\ \A n \in 1..Len(calls) : calls'[n] = calls[n]
        /\ calls'[Len(calls) + 1] = c
    BY <2>1, AppendProperties DEF Starts
  <2>3. /\ DOMAIN calls = 1..Len(calls) /\ Len(calls) \in Nat
        /\ DOMAIN calls' = 1..(Len(calls) + 1)
    BY <2>1, <2>2, LenProperties
  <2> QED
    BY <2>2, <2>3
<1> HIDE DEF last
<1>2. ServerInv'
  BY DEF Starts, ServerInv, IsOpen
<1>3. CallInv'
  BY <1>1 DEF CallInv
<1>4. \A n \in DOMAIN calls : calls[n].made = c.made => c.made = NoKey
  BY DEF Used
<1>5. \A i \in Ids : IsOpen(i) => server[i].key # c.made
  <2> TAKE i \in Ids
  <2> HAVE IsOpen(i)
  <2>1. server[i].key \in Keys
    BY DEF ServerInv
  <2> QED
    BY <2>1, KeysAssumption DEF Used
<1>6. MadeInv'
  <2>1. \A m, n \in DOMAIN calls' :
          calls'[m].made = calls'[n].made /\ calls'[m].made # NoKey => m = n
    BY <1>1, <1>4 DEF MadeInv
  <2>2. ASSUME NEW n \in DOMAIN calls', NEW i \in Ids
        PROVE  Sent(calls[n], i)'
    <3>1. CASE n = last
      BY <1>1, <1>5, <3>1 DEF Sent, IsOpen, Starts
    <3>2. CASE n \in DOMAIN calls
      <4>1. Sent(calls[n], i)
        BY <3>2 DEF MadeInv
      <4> QED
        BY <1>1, <3>2, <4>1 DEF Sent, IsOpen, Starts
    <3> QED
      BY <1>1, <3>1, <3>2
  <2> QED
    BY <2>1, <2>2 DEF MadeInv
<1>7. \A i \in Ids : Unknown(i) => i \notin c.all
  BY DEF Unknown, Hidden, Known
<1>8. \A i \in Ids : Unknown(i) => Unknown(i)'
  BY <1>1, <1>7 DEF Unknown, Hidden, Starts
<1>9. CreateInv'
  <2> SUFFICES ASSUME NEW i \in Ids
               PROVE  /\ server'[i].state = "none" =>
                           /\ Unknown(i)'
                           /\ \A n \in DOMAIN calls' : i \notin calls'[n].all
                      /\ \A n \in DOMAIN calls' :
                           Creating(n, i)' =>
                             /\ Unknown(i)'
                             /\ IsOpen(i)' => server'[i].key = calls'[n].made
                             /\ \A m \in DOMAIN calls' : i \in calls'[m].all => m = n
    BY DEF CreateInv, CreateAt
  <2>1. ASSUME server'[i].state = "none"
        PROVE  Unknown(i)' /\ \A n \in DOMAIN calls' : i \notin calls'[n].all
    <3>1. Unknown(i) /\ \A n \in DOMAIN calls : i \notin calls[n].all
      BY <2>1 DEF CreateInv, CreateAt, Starts
    <3> QED
      BY <1>1, <1>7, <1>8, <3>1
  <2>2. ASSUME NEW n \in DOMAIN calls', Creating(n, i)'
        PROVE  /\ Unknown(i)'
               /\ IsOpen(i)' => server'[i].key = calls'[n].made
               /\ \A m \in DOMAIN calls' : i \in calls'[m].all => m = n
    <3>1. CASE n = last
      BY <1>1, <2>2, <3>1 DEF Creating
    <3>2. CASE n \in DOMAIN calls
      <4>1. Creating(n, i)
        BY <1>1, <2>2, <3>2 DEF Creating
      <4>2. /\ Unknown(i)
            /\ IsOpen(i) => server[i].key = calls[n].made
            /\ \A m \in DOMAIN calls : i \in calls[m].all => m = n
        BY <3>2, <4>1 DEF CreateInv, CreateAt
      <4>3. \A m \in DOMAIN calls' : i \in calls'[m].all => m = n
        BY <1>1, <1>7, <4>2
      <4> QED
        BY <1>1, <1>8, <3>2, <4>2, <4>3 DEF IsOpen, Starts
    <3> QED
      BY <1>1, <3>1, <3>2
  <2> QED
    BY <2>1, <2>2
<1>10. KeyInv'
  <2> SUFFICES ASSUME NEW i \in Ids,
                      Has(store', i), IsOpen(i)', i \notin mishap'
               PROVE  \/ store'[i].key = server'[i].key
                      \/ \E n \in DOMAIN calls' : Patches(calls[n], i)'
    BY DEF KeyInv, KeyAt
  <2>1. CASE store[i].key = server[i].key
    BY <2>1 DEF Starts
  <2>2. CASE \E n \in DOMAIN calls : Patches(calls[n], i)
    <3> PICK n \in DOMAIN calls : Patches(calls[n], i)
      BY <2>2
    <3>1. n \in DOMAIN calls' /\ Patches(calls[n], i)'
      BY <1>1 DEF Patches, Rotating, Starts
    <3> QED
      BY <3>1
  <2> QED
    BY <2>1, <2>2 DEF KeyInv, KeyAt, IsOpen, Starts
<1>11. CarryInv'
  <2> SUFFICES ASSUME NEW i \in Ids
               PROVE  /\ fate'[i] # "dropped"
                      /\ fate'[i] = "carried" =>
                           \E n \in DOMAIN calls' : Carries(calls'[n], i)
    BY DEF CarryInv, CarryAt, Carries, Carrying
  <2>1. fate[i] = "carried" => \E n \in DOMAIN calls : Carries(calls[n], i)
    BY DEF CarryInv, CarryAt
  <2> QED
    BY <1>1, <2>1 DEF CarryInv, CarryAt, Starts
<1> QED
  BY <1>2, <1>3, <1>6, <1>9, <1>10, <1>11

\* The state of the tab in which a handler starts.
LEMMA StartedTab ==
  ASSUME TypeInv, NEW c \in Call, NEW busy \in Ids \union {"none", "create", "purge"},
         StartCall(c, busy)
  PROVE  /\ tab' \in [Tabs -> Tab] /\ calls' \in Seq(Call)
         /\ calls' = Append(calls, c)
         /\ \A t \in Tabs : tab'[t].shown = tab[t].shown
<1> DEFINE q == [tab[c.tab] EXCEPT !.dialog = NoDialog, !.busy = busy]
<1>1. c.tab \in Tabs
  BY DEF Call
<1>2. tab[c.tab] \in Tab /\ NoDialog \in Dialog
  BY <1>1, TabHas DEF NoDialog, Dialog
<1>3. q \in Tab /\ q.shown = tab[c.tab].shown
  BY <1>2 DEF Tab
<1>4. tab' = [tab EXCEPT ![c.tab] = q]
  BY <1>1, <1>2 DEF StartCall, Tab, TypeInv
<1> HIDE DEF q
<1>5. calls' = Append(calls, c) /\ calls' \in Seq(Call)
  BY AppendProperties DEF StartCall, TypeInv
<1> QED
  BY <1>1, <1>3, <1>4, <1>5 DEF TypeInv

LEMMA StartedType ==
  ASSUME NEW op \in AllOps, NEW t \in Tabs, NEW all \in SUBSET Ids,
         NEW held \in Keys \union {NoKey}, NEW made \in Keys \union {NoKey}
  PROVE  /\ Started(op, t, all, held, made) \in Call
         /\ Started(op, t, all, held, made).op = op
         /\ Started(op, t, all, held, made).all = all
         /\ Started(op, t, all, held, made).made = made
<1>1. [i \in Ids |-> Waiting] \in [Ids -> Reply]
  BY DEF Waiting, Reply
<1> QED
  BY <1>1 DEF Started, Call

LEMMA ConfirmOneStep ==
  ASSUME PagesInv, UNCHANGED page, NEW t \in Tabs,
         NEW type \in {"view", "revoke", "rotate"}, ConfirmOne(t, type)
  PROVE  PagesInv'
<1>1. PICK i \in tab[t].dialog.all :
        \/ /\ tab[t].shown[i] = Absent
           /\ tab' = [tab EXCEPT ![t].dialog = NoDialog]
           /\ UNCHANGED calls
        \/ /\ tab[t].shown[i] # Absent
           /\ \E made \in IF type = "rotate" THEN {k \in Keys : ~Used(k)} ELSE {NoKey} :
                StartCall(Started(type, t, {i}, tab[t].shown[i].key, made), i)
  BY DEF ConfirmOne
<1>2. i \in Ids
  BY TabHas DEF PagesInv, Dialog
<1>3. acts' \in 0..MaxActs
  BY BoundsAssumption DEF ConfirmOne, Confirmed, Act, PagesInv, TypeInv
<1>4. UNCHANGED <<server, lapsed, store, files, links, rounds, faults, fate, mishap>>
  BY DEF ConfirmOne
<1>5. PageInv'
  BY DEF PagesInv, PageInv
<1>6. CASE /\ tab' = [tab EXCEPT ![t].dialog = NoDialog]
           /\ UNCHANGED calls
  <2> DEFINE q == [tab[t] EXCEPT !.dialog = NoDialog]
  <2>1. q \in Tab /\ q.shown = tab[t].shown
    BY TabHas DEF PagesInv
  <2>2. tab' = [tab EXCEPT ![t] = q]
    BY <1>6
  <2> HIDE DEF q
  <2>3. TypeInv'
    BY <1>3, <1>4, <1>6, <2>1, <2>2 DEF PagesInv, TypeInv
  <2>4. KeepsKeys(store', store)
    BY <1>4, StoreKept
  <2>5. ShowsKnown
    BY <2>1, <2>2, <2>4, ShowsFrom DEF PagesInv, TypeInv
  <2>6. Quiet(DOMAIN calls)
    BY <1>4, <1>6, <2>4, <2>5, TabQuiet, FilesSame DEF PagesInv
  <2> QED
    BY <1>5, <2>3, <2>6, QuietKeeps DEF PagesInv
<1>7. CASE /\ tab[t].shown[i] # Absent
           /\ \E made \in IF type = "rotate" THEN {k \in Keys : ~Used(k)} ELSE {NoKey} :
                StartCall(Started(type, t, {i}, tab[t].shown[i].key, made), i)
  <2> PICK made \in IF type = "rotate" THEN {k \in Keys : ~Used(k)} ELSE {NoKey} :
             StartCall(Started(type, t, {i}, tab[t].shown[i].key, made), i)
    BY <1>7
  <2> DEFINE c == Started(type, t, {i}, tab[t].shown[i].key, made)
  <2>1. Has(tab[t].shown, i)
    BY <1>7 DEF Has
  <2>2. tab[t].shown[i].key \in Keys
    BY <1>2, <2>1, TabHas, HasEntry DEF PagesInv, Entry
  <2>3. /\ made \in Keys \union {NoKey} /\ (made = NoKey \/ ~Used(made))
        /\ type = "rotate" => made \in Keys
        /\ type # "rotate" => made = NoKey
    OBVIOUS
  <2>4. type \in AllOps
    BY DEF AllOps
  <2>5. c \in Call /\ c.op = type /\ c.all = {i} /\ c.made = made
    BY <1>2, <2>2, <2>3, <2>4, StartedType
  <2>6. StartCall(c, i)
    OBVIOUS
  <2> HIDE DEF c
  <2>7. /\ tab' \in [Tabs -> Tab] /\ calls' \in Seq(Call)
        /\ calls' = Append(calls, c)
        /\ \A u \in Tabs : tab'[u].shown = tab[u].shown
    BY <1>2, <2>5, <2>6, StartedTab DEF PagesInv
  <2>8. TypeInv'
    BY <1>3, <1>4, <2>7 DEF PagesInv, TypeInv
  <2>9. Starts(c)
    BY <1>4, <2>7 DEF Starts
  <2>10. Shaped(c)
    BY <1>2, <2>3, <2>5 DEF Shaped
  <2>11. c.op # "create" /\ \A j \in c.all : Known(j)
    BY <2>1, <2>5 DEF Known
  <2> QED
    BY <1>5, <2>3, <2>5, <2>8, <2>9, <2>10, <2>11, StartKeeps DEF PagesInv
<1> QED
  BY <1>1, <1>6, <1>7

LEMMA ConfirmPurgeStep ==
  ASSUME PagesInv, UNCHANGED page, NEW t \in Tabs, ConfirmPurge(t)
  PROVE  PagesInv'
<1> DEFINE s == Started("purgeAll", t, {i \in Ids : Has(store, i)}, NoKey, NoKey)
           c == [s EXCEPT !.ans = PurgeAnswers(store)]
<1>1. s \in Call /\ s.op = "purgeAll" /\ s.made = NoKey
      /\ s.all = {i \in Ids : Has(store, i)}
  <2>1. "purgeAll" \in AllOps
    BY DEF AllOps
  <2> QED
    BY <2>1, StartedType
<1>2. PurgeAnswers(store) \in [Ids -> Reply]
  BY DEF PurgeAnswers, Clear, JsonFetch, Waiting, Reply
<1>3. StartCall(c, "purge")
  BY DEF ConfirmPurge
<1> HIDE DEF s
<1>4. c \in Call /\ c.op = "purgeAll" /\ c.made = NoKey
      /\ c.all = {i \in Ids : Has(store, i)}
  BY <1>1, <1>2 DEF Call
<1> HIDE DEF c
<1>5. /\ tab' \in [Tabs -> Tab] /\ calls' \in Seq(Call)
      /\ calls' = Append(calls, c)
      /\ \A u \in Tabs : tab'[u].shown = tab[u].shown
  BY <1>3, <1>4, StartedTab DEF PagesInv
<1>6. acts' \in 0..MaxActs
  BY BoundsAssumption DEF ConfirmPurge, Confirmed, Act, PagesInv, TypeInv
<1>7. TypeInv'
  BY <1>5, <1>6 DEF PagesInv, TypeInv, ConfirmPurge
<1>8. Starts(c)
  BY <1>5 DEF Starts, ConfirmPurge
<1>9. Shaped(c)
  BY <1>4 DEF Shaped
<1>10. c.op # "create" /\ \A j \in c.all : Known(j)
  BY <1>4 DEF Known
<1>11. PageInv'
  BY DEF PagesInv, PageInv
<1> QED
  BY <1>4, <1>7, <1>8, <1>9, <1>10, <1>11, StartKeeps DEF PagesInv

LEMMA SubmitCreateStep ==
  ASSUME PagesInv, UNCHANGED page, NEW t \in Tabs, SubmitCreate(t)
  PROVE  PagesInv'
<1>1. PICK k \in Keys : /\ ~Used(k)
                        /\ StartCall(Started("create", t, {}, NoKey, k), "create")
  BY DEF SubmitCreate
<1> DEFINE c == Started("create", t, {}, NoKey, k)
<1>2. c \in Call /\ c.op = "create" /\ c.made = k /\ c.all = {}
  <2>1. "create" \in AllOps
    BY DEF AllOps
  <2> QED
    BY <2>1, StartedType
<1>3. StartCall(c, "create")
  BY <1>1
<1>4. c.made = NoKey \/ ~Used(c.made)
  BY <1>1, <1>2
<1> HIDE DEF c
<1>5. /\ tab' \in [Tabs -> Tab] /\ calls' \in Seq(Call)
      /\ calls' = Append(calls, c)
      /\ \A u \in Tabs : tab'[u].shown = tab[u].shown
  BY <1>2, <1>3, StartedTab DEF PagesInv
<1>6. acts' \in 0..MaxActs
  BY BoundsAssumption DEF SubmitCreate, Act, PagesInv, TypeInv
<1>7. TypeInv'
  BY <1>5, <1>6 DEF PagesInv, TypeInv, SubmitCreate
<1>8. Starts(c)
  BY <1>5 DEF Starts, SubmitCreate
<1>9. Shaped(c)
  BY <1>2 DEF Shaped
<1>10. PageInv'
  BY DEF PagesInv, PageInv
<1> QED
  BY <1>2, <1>4, <1>7, <1>8, <1>9, <1>10, StartKeeps DEF PagesInv

------------------------------------------------------------------------------
(***************************************************************************)
(* The handlers, from their answer on.                                     *)
(***************************************************************************)
LEMMA EndThins ==
  ASSUME TypeInv, NEW n \in DOMAIN calls, EndCall(n)
  PROVE  calls' \in Seq(Call) /\ Thins(calls', calls, DOMAIN calls \ {n})
  BY RemovedType, RemovedThins DEF EndCall, TypeInv

\* A handler and the tab it runs in.
LEMMA HandlerHas ==
  ASSUME TypeInv, NEW n \in DOMAIN calls
  PROVE  /\ calls[n] \in Call /\ calls[n].tab \in Tabs /\ calls[n].all \in SUBSET Ids
         /\ calls[n].ans \in [Ids -> Reply]
         /\ Free(calls[n].tab, n) \in Tab
         /\ Free(calls[n].tab, n).shown = tab[calls[n].tab].shown
<1>1. calls[n] \in Call
  BY ElementOfSeq DEF TypeInv
<1>2. calls[n].tab \in Tabs /\ calls[n].all \in SUBSET Ids
      /\ calls[n].ans \in [Ids -> Reply]
  BY <1>1 DEF Call
<1> QED
  BY <1>1, <1>2, TabHas DEF Free

\* What ends writes s, or only frees its tab.
LEMMA Freed ==
  ASSUME TypeInv, NEW n \in DOMAIN calls, NEW s \in Stores,
         \/ WriteAndFree(n, s)
         \/ /\ tab' = [tab EXCEPT ![calls[n].tab] = Free(calls[n].tab, n)]
            /\ s = store /\ UNCHANGED <<store, rounds>>
  PROVE  /\ store' = s
         /\ rounds' \in Seq(Round)
         /\ tab' \in [Tabs -> Tab]
         /\ tab'[calls[n].tab].shown \in {tab[calls[n].tab].shown, s}
         /\ \A u \in Tabs : u # calls[n].tab => tab'[u].shown = tab[u].shown
<1> DEFINE t == calls[n].tab
<1>1. t \in Tabs /\ Free(t, n) \in Tab /\ Free(t, n).shown = tab[t].shown
  BY HandlerHas
<1> HIDE DEF t
<1>2. CASE Write(t, Free(t, n), s)
  BY <1>1, <1>2, Wrote DEF t
<1>3. CASE /\ tab' = [tab EXCEPT ![t] = Free(t, n)]
           /\ s = store /\ UNCHANGED <<store, rounds>>
  BY <1>1, <1>3 DEF TypeInv, t
<1> QED
  BY <1>2, <1>3 DEF WriteAndFree, t

\* The end of a handler is quiet if nothing depended on it.
LEMMA EndQuiet ==
  ASSUME TypeInv, NEW n \in DOMAIN calls, EndCall(n),
         server' = server, files' = files, mishap \subseteq mishap',
         KeepsKeys(store', store), ShowsKnown, FateMoves,
         \A i \in Ids : Patches(calls[n], i) => i \in mishap',
         \A i \in Ids : Carries(calls[n], i) => fate'[i] # "carried"
  PROVE  Quiet(DOMAIN calls \ {n})
<1>1. Thins(calls', calls, DOMAIN calls \ {n})
  BY EndThins
<1>2. PatchesLeft(DOMAIN calls \ {n}) /\ CarriesLeft(DOMAIN calls \ {n})
  BY DEF PatchesLeft, CarriesLeft
<1> QED
  BY <1>1, <1>2, FilesSame DEF Quiet

LEMMA FateStays ==
  ASSUME fate' = fate
  PROVE  FateMoves
  BY DEF FateMoves

LEMMA RevokeDoneStep ==
  ASSUME TypeInv, UNCHANGED page, NEW n \in DOMAIN calls, RevokeDone(n)
  PROVE  TypeInv' /\ Quiet(DOMAIN calls \ {n})
<1> DEFINE t == calls[n].tab
<1>1. PICK i \in calls[n].all :
        \/ WriteAndFree(n, UpdateRevoked(store, i))
        \/ /\ tab' = [tab EXCEPT ![t] = Free(t, n)]
           /\ UNCHANGED <<store, rounds>>
  BY DEF RevokeDone
<1>2. i \in Ids /\ t \in Tabs
  BY HandlerHas
<1>3. store \in Stores /\ UpdateRevoked(store, i) \in Stores
      /\ KeepsKeys(UpdateRevoked(store, i), store) /\ KeepsKeys(store, store)
  BY <1>2, UpdatesKeep, StoreKept DEF TypeInv, Stores
<1>4. PICK s \in Stores :
        /\ KeepsKeys(s, store)
        /\ \/ WriteAndFree(n, s)
           \/ /\ tab' = [tab EXCEPT ![t] = Free(t, n)]
              /\ s = store /\ UNCHANGED <<store, rounds>>
  BY <1>1, <1>3
<1>5. /\ store' = s
      /\ rounds' \in Seq(Round)
      /\ tab' \in [Tabs -> Tab]
      /\ tab'[t].shown \in {tab[t].shown, s}
      /\ \A u \in Tabs : u # t => tab'[u].shown = tab[u].shown
  BY <1>4, Freed
<1>6. calls' \in Seq(Call)
  BY EndThins DEF RevokeDone
<1>7. TypeInv'
  BY <1>5, <1>6 DEF TypeInv, RevokeDone, Stores
<1>8. ShowsKnown
  BY <1>2, <1>4, <1>5, ShowsFrom
<1>9. calls[n].op = "revoke"
  BY DEF RevokeDone, Answered
<1>10. \A i2 \in Ids : ~Patches(calls[n], i2) /\ ~Carries(calls[n], i2)
  BY <1>9 DEF Patches, Rotating, Carries, Carrying
<1> QED
  BY <1>4, <1>5, <1>7, <1>8, <1>10, EndQuiet, FateStays DEF RevokeDone

LEMMA PurgeDoneStep ==
  ASSUME TypeInv, UNCHANGED page, NEW n \in DOMAIN calls, PurgeDone(n)
  PROVE  TypeInv' /\ Quiet(DOMAIN calls \ {n})
<1> DEFINE t == calls[n].tab
           s == IF Failed(calls[n]) = {} THEN ClearAll(store)
                ELSE RemoveStored(store, calls[n].all \ Failed(calls[n]))
<1>1. store \in Stores
  BY DEF TypeInv, Stores
<1>2. s \in Stores /\ KeepsKeys(s, store)
  BY <1>1, RemoveKeeps, ClearKeeps
<1>3. WriteAndFree(n, s)
  BY DEF PurgeDone
<1> HIDE DEF s
<1>4. t \in Tabs
  BY HandlerHas
<1>5. /\ store' = s
      /\ rounds' \in Seq(Round)
      /\ tab' \in [Tabs -> Tab]
      /\ tab'[t].shown \in {tab[t].shown, s}
      /\ \A u \in Tabs : u # t => tab'[u].shown = tab[u].shown
  BY <1>2, <1>3, Freed
<1>6. calls' \in Seq(Call)
  BY EndThins DEF PurgeDone
<1>7. TypeInv'
  BY <1>2, <1>5, <1>6 DEF TypeInv, PurgeDone, Stores
<1>8. ShowsKnown
  BY <1>2, <1>4, <1>5, ShowsFrom
<1>9. calls[n].op = "purgeAll"
  BY DEF PurgeDone, Answered
<1>10. \A i2 \in Ids : ~Patches(calls[n], i2) /\ ~Carries(calls[n], i2)
  BY <1>9 DEF Patches, Rotating, Carries, Carrying
<1> QED
  BY <1>2, <1>5, <1>7, <1>8, <1>10, EndQuiet, FateStays DEF PurgeDone

\* A view that brought nothing ends; one that did goes on.
LEMMA ViewAnsweredStep ==
  ASSUME TypeInv, CallInv, UNCHANGED page, NEW n \in DOMAIN calls, ViewAnswered(n)
  PROVE  TypeInv' /\ \E I \in SUBSET DOMAIN calls : Quiet(I)
<1> DEFINE t == calls[n].tab
           opened == [calls EXCEPT ![n].step = "opened"]
<1>1. PICK i \in calls[n].all :
        IF calls[n].ans[i].data = NoData
        THEN /\ EndCall(n)
             /\ tab' = [tab EXCEPT ![t] = Free(t, n)]
             /\ UNCHANGED <<store, rounds>>
        ELSE /\ calls' = opened
             /\ Write(t, tab[t], UpdateCollected(store, i))
  BY DEF ViewAnswered
<1>2. i \in Ids /\ t \in Tabs /\ calls[n] \in Call
  BY HandlerHas
<1>3. calls[n].op = "view"
  BY DEF ViewAnswered, Answered
<1>4. calls[n].all = {i}
  BY <1>3 DEF CallInv, Shaped
<1>5. store \in Stores
  BY DEF TypeInv, Stores
<1>6. CASE calls[n].ans[i].data = NoData
  <2>1. /\ EndCall(n)
        /\ tab' = [tab EXCEPT ![t] = Free(t, n)]
        /\ UNCHANGED <<store, rounds>>
    BY <1>1, <1>6
  <2>2. /\ store' = store /\ rounds' \in Seq(Round) /\ tab' \in [Tabs -> Tab]
        /\ tab'[t].shown \in {tab[t].shown, store}
        /\ \A u \in Tabs : u # t => tab'[u].shown = tab[u].shown
    BY <1>5, <2>1, Freed
  <2>3. calls' \in Seq(Call)
    BY <2>1, EndThins
  <2>4. TypeInv'
    BY <2>2, <2>3 DEF TypeInv, ViewAnswered
  <2>5. KeepsKeys(store', store)
    BY <2>2, StoreKept
  <2>6. ShowsKnown
    BY <1>2, <2>2, <2>5, ShowsFrom
  <2>7. \A j \in Ids : ~Patches(calls[n], j) /\ ~Carries(calls[n], j)
    BY <1>3, <1>4, <1>6 DEF Patches, Rotating, Carries, Carrying
  <2>8. Quiet(DOMAIN calls \ {n})
    BY <2>1, <2>5, <2>6, <2>7, EndQuiet, FateStays DEF ViewAnswered
  <2> QED
    BY <2>4, <2>8
<1>7. CASE calls[n].ans[i].data # NoData
  <2> DEFINE s == UpdateCollected(store, i)
  <2>1. calls' = opened /\ Write(t, tab[t], s)
    BY <1>1, <1>7
  <2>2. s \in Stores /\ KeepsKeys(s, store)
    BY <1>2, <1>5, UpdatesKeep
  <2> HIDE DEF s
  <2>3. tab[t] \in Tab
    BY <1>2, TabHas
  <2>4. /\ store' = s /\ rounds' \in Seq(Round) /\ tab' \in [Tabs -> Tab]
        /\ tab'[t].shown \in {tab[t].shown, s}
        /\ \A u \in Tabs : u # t => tab'[u].shown = tab[u].shown
    BY <1>2, <2>1, <2>2, <2>3, Wrote
  <2>5. calls' \in Seq(Call) /\ Thins(calls', calls, DOMAIN calls)
    <3> DEFINE c == [calls[n] EXCEPT !.step = "opened"]
    <3>1. calls \in Seq(Call) /\ n \in 1..Len(calls)
      BY LenProperties DEF TypeInv
    <3>2. c \in Call /\ Same(c, calls[n])
      BY <1>2 DEF Call, Same
    <3>3. calls' = [calls EXCEPT ![n] = c]
      BY <2>1
    <3> HIDE DEF c
    <3>4. calls' \in Seq(Call)
      BY <3>1, <3>2, <3>3, ExceptSeq
    <3>5. Renumbers([j \in DOMAIN calls |-> j], calls', calls, DOMAIN calls)
      BY <3>2, <3>3 DEF Renumbers, Same
    <3> QED
      BY <3>3, <3>4, <3>5 DEF Thins
  <2>6. TypeInv'
    BY <2>2, <2>4, <2>5 DEF TypeInv, ViewAnswered, Stores
  <2>7. ShowsKnown
    BY <1>2, <2>2, <2>4, ShowsFrom
  <2>8. PatchesLeft(DOMAIN calls) /\ CarriesLeft(DOMAIN calls)
    BY DEF PatchesLeft, CarriesLeft
  <2>9. Quiet(DOMAIN calls)
    BY <2>2, <2>4, <2>5, <2>7, <2>8, FilesSame, FateStays DEF Quiet, ViewAnswered
  <2> QED
    BY <2>6, <2>9
<1> QED
  BY <1>6, <1>7

\* The ciphertext that arrived is shown, or the user has left.
LEMMA ViewDoneStep ==
  ASSUME TypeInv, CallInv, UNCHANGED page, NEW n \in DOMAIN calls, ViewDone(n)
  PROVE  TypeInv' /\ Quiet(DOMAIN calls \ {n})
<1> DEFINE c == calls[n]
           t == c.tab
<1>1. PICK i \in c.all :
        LET shows == Revealed(i, c.ans[i].data = c.held)
        IN  IF c.live
            THEN /\ tab' = [tab EXCEPT ![t] =
                     ListStarted([Free(t, n) EXCEPT !.revealed = shows], store)]
                 /\ rounds' = WithList(rounds, t, store)
                 /\ fate' = [fate EXCEPT ![i] = IF shows = NoSecret THEN "dropped"
                                                ELSE "shown"]
            ELSE /\ fate' = [fate EXCEPT ![i] = "unseen"]
                 /\ UNCHANGED <<tab, rounds>>
  BY DEF ViewDone
<1> DEFINE shows == Revealed(i, c.ans[i].data = c.held)
           q == [Free(t, n) EXCEPT !.revealed = shows]
<1>2. i \in Ids /\ t \in Tabs
  BY HandlerHas
<1>3. c.op = "view" /\ c.all = {i}
  BY DEF ViewDone, CallInv, Shaped
<1>4. shows \in [id : Ids, plain : BOOLEAN] /\ shows # NoSecret
  <2>1. (c.ans[i].data = c.held) \in BOOLEAN
    OBVIOUS
  <2> QED
    BY <1>2, <2>1, NoDataAssumption DEF Revealed, NoSecret
<1>5. store \in Stores
  BY DEF TypeInv, Stores
<1>6. /\ rounds' \in Seq(Round) /\ tab' \in [Tabs -> Tab]
      /\ tab'[t].shown \in {tab[t].shown, store}
      /\ \A u \in Tabs : u # t => tab'[u].shown = tab[u].shown
      /\ fate' = [fate EXCEPT ![i] = "shown"] \/ fate' = [fate EXCEPT ![i] = "unseen"]
  <2>1. CASE c.live
    <3>1. /\ tab' = [tab EXCEPT ![t] = ListStarted(q, store)]
          /\ rounds' = WithList(rounds, t, store)
          /\ fate' = [fate EXCEPT ![i] = "shown"]
      BY <1>1, <1>4, <2>1
    <3>2. q \in Tab /\ q.shown = tab[t].shown
      <4> HIDE DEF shows
      <4>1. Free(t, n) \in Tab /\ Free(t, n).shown = tab[t].shown
        BY HandlerHas
      <4> QED
        BY <1>4, <4>1 DEF Tab
    <3> HIDE DEF q
    <3>3. ListStarted(q, store) \in Tab /\ ListStarted(q, store).shown = store
      BY <1>5, <3>2, ListStartedType
    <3>4. rounds' \in Seq(Round)
      BY <1>2, <3>1, AnnouncedType DEF TypeInv
    <3> HIDE DEF t
    <3> QED
      BY <1>2, <3>1, <3>3, <3>4 DEF TypeInv
  <2>2. CASE ~c.live
    BY <1>1, <2>2 DEF TypeInv
  <2> QED
    BY <2>1, <2>2
<1> HIDE DEF q, shows
<1>7. calls' \in Seq(Call)
  BY EndThins DEF ViewDone
<1>8. TypeInv'
  BY <1>2, <1>6, <1>7 DEF TypeInv, ViewDone
<1>9. KeepsKeys(store', store)
  BY StoreKept DEF ViewDone
<1>10. ShowsKnown
  BY <1>2, <1>6, <1>9, ShowsFrom
<1>11. FateMoves /\ fate'[i] # "carried"
  BY <1>2, <1>6 DEF FateMoves, TypeInv
<1>12. \A j \in Ids : ~Patches(c, j) /\ (Carries(c, j) => fate'[j] # "carried")
  BY <1>3, <1>11 DEF Patches, Rotating, Carries, Carrying
<1> QED
  BY <1>8, <1>9, <1>10, <1>11, <1>12, EndQuiet DEF ViewDone

------------------------------------------------------------------------------
(***************************************************************************)
(* The steps by which the store comes by keys.                             *)
(***************************************************************************)
\* What CreateDone and RotateDone do where there is nothing to store.
LEMMA EndedInVain ==
  ASSUME TypeInv, UNCHANGED page, NEW n \in DOMAIN calls, EndCall(n),
         tab' = [tab EXCEPT ![calls[n].tab] = Free(calls[n].tab, n)],
         UNCHANGED <<server, lapsed, store, files, links, rounds, acts, faults,
                     fate, mishap>>,
         \A i \in Ids : ~Patches(calls[n], i) /\ ~Carries(calls[n], i)
  PROVE  TypeInv' /\ Quiet(DOMAIN calls \ {n})
<1> DEFINE t == calls[n].tab
<1>1. store \in Stores
  BY DEF TypeInv, Stores
<1>2. /\ tab' \in [Tabs -> Tab]
      /\ tab'[t].shown \in {tab[t].shown, store}
      /\ \A u \in Tabs : u # t => tab'[u].shown = tab[u].shown
  BY <1>1, Freed
<1>3. calls' \in Seq(Call)
  BY EndThins
<1>4. TypeInv'
  BY <1>2, <1>3 DEF TypeInv
<1>5. KeepsKeys(store', store)
  BY StoreKept
<1>6. ShowsKnown
  BY <1>2, <1>5, HandlerHas, ShowsFrom
<1> QED
  BY <1>4, <1>5, <1>6, EndQuiet, FateStays

LEMMA CreateDoneStep ==
  ASSUME PagesInv, UNCHANGED page, NEW n \in DOMAIN calls, CreateDone(n)
  PROVE  PagesInv'
<1> DEFINE c == calls[n]
           t == c.tab
           s(i) == SaveStored(store, i, NewEntry(c.made))
<1>1. PICK i \in c.all :
        IF c.ans[i].data = NoData
        THEN /\ tab' = [tab EXCEPT ![t] = Free(t, n)]
             /\ UNCHANGED <<store, rounds, links>>
        ELSE /\ WriteAndFree(n, s(i))
             /\ links' = IF c.live THEN links \union {LinkTo(i, c.made)} ELSE links
  BY DEF CreateDone
<1>2. TypeInv
  BY DEF PagesInv
<1>3. i \in Ids /\ t \in Tabs
  BY <1>2, HandlerHas
<1>4. c.op = "create" /\ c.all = {i} /\ c.made \in Keys
  BY DEF CreateDone, Answered, PagesInv, CallInv, Shaped
<1>5. \A j \in Ids : ~Patches(c, j) /\ ~Carries(c, j)
  BY <1>4 DEF Patches, Rotating, Carries, Carrying
<1>6. EndCall(n)
  BY DEF CreateDone
<1>7. PageInv'
  BY DEF PagesInv, PageInv
<1>8. CASE c.ans[i].data = NoData
  <2>1. /\ tab' = [tab EXCEPT ![t] = Free(t, n)]
        /\ UNCHANGED <<server, lapsed, store, files, links, rounds, acts, faults,
                       fate, mishap>>
    BY <1>1, <1>8 DEF CreateDone
  <2>2. TypeInv' /\ Quiet(DOMAIN calls \ {n})
    BY <1>2, <1>5, <1>6, <2>1, EndedInVain
  <2> QED
    BY <1>7, <2>2, QuietKeeps DEF PagesInv
<1>9. CASE c.ans[i].data # NoData
  <2>1. /\ WriteAndFree(n, s(i))
        /\ links' = IF c.live THEN links \union {LinkTo(i, c.made)} ELSE links
    BY <1>1, <1>9
  <2>2. NewEntry(c.made) \in Entry /\ NewEntry(c.made).key = c.made
    BY <1>4, NewEntryType
  <2>3. /\ s(i) \in Stores /\ s(i)[i] = NewEntry(c.made)
        /\ \A j \in Ids : j # i => s(i)[j] = store[j]
    <3>1. store \in Stores /\ i \in Ids
      BY <1>2, <1>3 DEF TypeInv, Stores
    <3>2. /\ SaveStored(store, i, NewEntry(c.made)) \in Stores
          /\ SaveStored(store, i, NewEntry(c.made))[i] = NewEntry(c.made)
          /\ \A j \in Ids : j # i => SaveStored(store, i, NewEntry(c.made))[j] = store[j]
      BY <2>2, <3>1, SaveKeeps
    <3> QED
      BY <3>2
  <2> HIDE DEF s
  <2>4. /\ store' = s(i)
        /\ rounds' \in Seq(Round) /\ tab' \in [Tabs -> Tab]
        /\ tab'[t].shown \in {tab[t].shown, store'}
        /\ \A u \in Tabs : u # t => tab'[u].shown = tab[u].shown
    BY <1>2, <2>1, <2>3, Freed
  <2>5. links' \in SUBSET Link
    BY <1>2, <1>3, <1>4, <2>1 DEF TypeInv, LinkTo, Link
  <2>6. calls' \in Seq(Call) /\ Thins(calls', calls, DOMAIN calls \ {n})
    BY <1>2, <1>6, EndThins
  <2>7. TypeInv'
    BY <1>2, <2>3, <2>4, <2>5, <2>6 DEF TypeInv, CreateDone, Stores
  <2>8. server' = server /\ mishap' = mishap /\ files' = files /\ fate' = fate
    BY DEF CreateDone
  <2>9. CallInv' /\ MadeInv'
    BY <2>6, <2>8, ThinShape, ThinMade DEF PagesInv
  <2>10. ServerInv'
    BY <2>8 DEF PagesInv, ServerInv, IsOpen
  <2>11. CarryInv'
    <3>1. CarriesLeft(DOMAIN calls \ {n}) /\ FateMoves
      BY <1>5, <2>8 DEF CarriesLeft, FateMoves
    <3> QED
      BY <2>6, <3>1, ThinCarry DEF PagesInv
  <2>12. Creating(n, i) /\ CreateAt(i)
    BY <1>3, <1>4 DEF Creating, PagesInv, CreateInv
  \* The request is known from now on, and no handler has to do with it.
  <2>13. /\ server[i].state # "none"
         /\ IsOpen(i) => server[i].key = c.made
         /\ \A m \in DOMAIN calls : i \in calls[m].all => m = n
    BY <2>12 DEF CreateAt, Creating
  <2>14. \A m \in DOMAIN calls' : i \notin calls'[m].all
    <3> PICK e \in [DOMAIN calls' -> DOMAIN calls] :
               Renumbers(e, calls', calls, DOMAIN calls \ {n})
      BY <2>6 DEF Thins
    <3>1. \A m \in DOMAIN calls' : /\ e[m] \in DOMAIN calls \ {n}
                                   /\ calls'[m].all = calls[e[m]].all
      BY DEF Renumbers, Same
    <3> QED
      BY <2>13, <3>1
  <2>15. CreateAt(i)' /\ KeyAt(i)'
    <3>1. CreateAt(i)'
      BY <2>8, <2>13, <2>14 DEF CreateAt, Creating
    <3>2. KeyAt(i)'
      BY <2>2, <2>3, <2>4, <2>8, <2>13 DEF KeyAt, IsOpen
    <3> QED
      BY <3>1, <3>2
  <2>16. ASSUME NEW j \in Ids, j # i
         PROVE  CreateAt(j)' /\ KeyAt(j)'
    <3>1. store'[j] = store[j]
      BY <2>3, <2>4, <2>16
    <3>2. Has(store', j) => Has(store, j) /\ store'[j].key = store[j].key
      BY <3>1 DEF Has
    <3>3. Unknown(j) => Hidden(j)'
      BY <2>4, <2>8, <3>2 DEF Unknown, Hidden, Has
    <3>4. CreateAt(j) /\ KeyAt(j)
      BY DEF PagesInv, CreateInv, KeyInv
    <3>5. CreateAt(j)'
      BY <2>6, <2>8, <3>3, <3>4, ThinCreate
    <3>6. KeyAt(j)'
      BY <1>5, <2>6, <2>8, <3>2, <3>4, ThinKey
    <3> QED
      BY <3>5, <3>6
  <2>17. CreateInv' /\ KeyInv'
    BY <2>15, <2>16 DEF CreateInv, KeyInv
  <2> QED
    BY <1>7, <2>7, <2>9, <2>10, <2>11, <2>17 DEF PagesInv
<1> QED
  BY <1>8, <1>9

LEMMA RotateDoneStep ==
  ASSUME PagesInv, UNCHANGED page, NEW n \in DOMAIN calls, RotateDone(n)
  PROVE  PagesInv'
<1> DEFINE c == calls[n]
           t == c.tab
           s(i) == UpdateKey(store, i, c.made)
<1>1. PICK i \in c.all :
        IF c.ans[i].status = 200
        THEN /\ WriteAndFree(n, RotatedKey(store, i, c))
             /\ mishap' = CASE server[i].key = c.made -> mishap \ {i}
                            [] Overtaken(n, i) -> mishap \union {i}
                            [] OTHER -> mishap
        ELSE /\ tab' = [tab EXCEPT ![t] = Free(t, n)]
             /\ UNCHANGED <<store, rounds, mishap>>
  BY DEF RotateDone
<1>2. TypeInv
  BY DEF PagesInv
<1>3. i \in Ids /\ t \in Tabs
  BY <1>2, HandlerHas
<1>4. c.op = "rotate" /\ c.all = {i} /\ c.made \in Keys
  BY DEF RotateDone, Answered, PagesInv, CallInv, Shaped
<1>5. \A j \in Ids : /\ ~Carries(c, j)
                     /\ Patches(c, j) => j = i /\ c.ans[i].status = 200
  BY <1>4 DEF Patches, Rotating, Carries, Carrying
<1>6. EndCall(n)
  BY DEF RotateDone
<1>7. PageInv'
  BY DEF PagesInv, PageInv
<1>8. CASE c.ans[i].status # 200
  <2>1. /\ tab' = [tab EXCEPT ![t] = Free(t, n)]
        /\ UNCHANGED <<server, lapsed, store, files, links, rounds, acts, faults,
                       fate, mishap>>
    BY <1>1, <1>8 DEF RotateDone
  <2>2. TypeInv' /\ Quiet(DOMAIN calls \ {n})
    BY <1>2, <1>5, <1>6, <1>8, <2>1, EndedInVain
  <2> QED
    BY <1>7, <2>2, QuietKeeps DEF PagesInv
<1>9. CASE c.ans[i].status = 200
  <2>1. /\ WriteAndFree(n, s(i))
        /\ mishap' = CASE server[i].key = c.made -> mishap \ {i}
                       [] Overtaken(n, i) -> mishap \union {i}
                       [] OTHER -> mishap
    BY <1>1, <1>9 DEF RotatedKey
  <2>2. /\ s(i) \in Stores
        /\ \A j \in Ids : j # i => s(i)[j] = store[j]
        /\ Has(s(i), i) => Has(store, i) /\ s(i)[i].key = c.made
    BY <1>2, <1>3, <1>4, KeyUpdated DEF TypeInv, Stores
  <2> HIDE DEF s
  <2>3. /\ store' = s(i)
        /\ rounds' \in Seq(Round) /\ tab' \in [Tabs -> Tab]
        /\ tab'[t].shown \in {tab[t].shown, store'}
        /\ \A u \in Tabs : u # t => tab'[u].shown = tab[u].shown
    BY <1>2, <2>1, <2>2, Freed
  <2>4. calls' \in Seq(Call) /\ Thins(calls', calls, DOMAIN calls \ {n})
    BY <1>2, <1>6, EndThins
  <2>5. /\ mishap' \in SUBSET Ids
        /\ \A j \in Ids : j # i => (j \in mishap' <=> j \in mishap)
    BY <1>2, <1>3, <2>1 DEF TypeInv
  <2>6. /\ server[i].key = c.made => mishap' = mishap \ {i}
        /\ server[i].key # c.made /\ Overtaken(n, i) => i \in mishap'
        /\ server[i].key # c.made /\ ~Overtaken(n, i) => mishap' = mishap
    <3>1. server[i].key = c.made => ~Overtaken(n, i)
      BY DEF Overtaken
    <3>2. CASE server[i].key = c.made
      BY <2>1, <3>1, <3>2
    <3>3. CASE server[i].key # c.made /\ Overtaken(n, i)
      <4>1. mishap' = mishap \union {i}
        BY <2>1, <3>3
      <4> QED
        BY <3>3, <4>1
    <3>4. CASE server[i].key # c.made /\ ~Overtaken(n, i)
      BY <2>1, <3>4
    <3> QED
      BY <3>2, <3>3, <3>4
  <2>7. TypeInv'
    BY <1>2, <2>2, <2>3, <2>4, <2>5 DEF TypeInv, RotateDone, Stores
  <2>8. server' = server /\ files' = files /\ fate' = fate
    BY DEF RotateDone
  <2>9. ServerInv' /\ CallInv'
    BY <2>4, <2>8, ThinShape DEF PagesInv, ServerInv, IsOpen
  \* No other handler made the key that this one brings.
  <2>10. \A m \in DOMAIN calls : calls[m].made = c.made => m = n
    BY <1>4, KeysAssumption DEF PagesInv, MadeInv
  <2>11. MadeInv'
    <3>1. \A m \in DOMAIN calls \ {n}, j \in Ids :
            j \in mishap /\ calls[m].made = server[j].key /\ IsOpen(j) => j \in mishap'
      BY <1>3, <2>5, <2>6, <2>10
    <3> QED
      BY <2>4, <2>8, <3>1, ThinMade DEF PagesInv
  <2>12. CarryInv'
    <3>1. CarriesLeft(DOMAIN calls \ {n}) /\ FateMoves
      BY <1>5, <2>8 DEF CarriesLeft, FateMoves
    <3> QED
      BY <2>4, <3>1, ThinCarry DEF PagesInv
  <2>13. \A j \in Ids : Has(store', j) => Has(store, j)
    BY <1>3, <2>2, <2>3 DEF Has
  <2>14. \A j \in Ids : CreateAt(j)'
    <3> TAKE j \in Ids
    <3>1. ShowsKnown
      BY <1>3, <2>3, <2>13 DEF ShowsKnown
    <3>2. ExportsKnown
      BY <2>8, FilesSame
    <3>3. Unknown(j) => Hidden(j)'
      BY <2>13, <3>1, <3>2, KnownHides
    <3> QED
      BY <2>4, <2>8, <3>3, ThinCreate DEF PagesInv, CreateInv
  <2>15. ASSUME NEW j \in Ids, j # i
         PROVE  KeyAt(j)'
    <3>1. store'[j] = store[j]
      BY <2>2, <2>3, <2>15
    <3>2. Has(store', j) => Has(store, j) /\ store'[j].key = store[j].key
      BY <3>1 DEF Has
    <3>3. KeyAt(j) /\ (j \in mishap => j \in mishap')
      BY <2>5, <2>15 DEF PagesInv, KeyInv
    <3>4. ~Patches(c, j)
      BY <1>5, <2>15
    <3> QED
      BY <2>4, <2>8, <3>2, <3>3, <3>4, ThinKey
  <2>16. KeyAt(i)'
    <3> SUFFICES ASSUME Has(store', i), IsOpen(i), i \notin mishap'
                 PROVE  \/ store'[i].key = server[i].key
                        \/ \E j \in DOMAIN calls' : Patches(calls[j], i)'
      BY <2>8 DEF KeyAt, IsOpen
    <3>1. store'[i].key = c.made
      BY <2>2, <2>3
    <3>2. CASE server[i].key = c.made
      BY <3>1, <3>2
    <3>3. CASE server[i].key # c.made
      <4>1. i \notin mishap /\ ~Overtaken(n, i)
        BY <2>6, <3>3
      <4> PICK m \in DOMAIN calls : calls[m].made = server[i].key
        BY <3>3, <4>1 DEF Overtaken
      <4>2. server[i].key \in Keys
        BY <1>3 DEF PagesInv, ServerInv
      <4>3. i \in calls[m].all /\ (calls[m].op = "rotate" => calls[m].ans[i].status = 200)
        BY <1>3, <4>1 DEF PagesInv, MadeInv, Sent
      <4>4. m # n
        BY <3>3
      <4>5. calls[m].op \in {"create", "rotate"}
        BY <4>2, KeysAssumption DEF PagesInv, CallInv, Shaped
      \* It is not the one that created i, which would have i to itself.
      <4>6. calls[m].op # "create"
        <5>1. CreateAt(i)
          BY <1>3 DEF PagesInv, CreateInv
        <5> QED
          BY <1>4, <4>3, <4>4, <5>1 DEF CreateAt, Creating
      <4>7. Patches(calls[m], i)
        BY <4>3, <4>5, <4>6 DEF Patches, Rotating
      <4> PICK e \in [DOMAIN calls' -> DOMAIN calls] :
                 Renumbers(e, calls', calls, DOMAIN calls \ {n})
        BY <2>4 DEF Thins
      <4> PICK j \in DOMAIN calls' : e[j] = m
        BY <4>4 DEF Renumbers
      <4>8. Same(calls'[j], calls[m])
        BY DEF Renumbers
      <4>9. Patches(calls[j], i)'
        BY <2>8, <4>7, <4>8 DEF Patches, Rotating, Same
      <4> QED
        BY <4>9
    <3> QED
      BY <3>2, <3>3
  <2>17. CreateInv' /\ KeyInv'
    BY <2>14, <2>15, <2>16 DEF CreateInv, KeyInv
  <2> QED
    BY <1>7, <2>7, <2>9, <2>11, <2>12, <2>17 DEF PagesInv
<1> QED
  BY <1>8, <1>9

\* An import brings the key of an old export, and is a mishap if that is not
\* the key in force.
LEMMA ImportStep ==
  ASSUME PagesInv, UNCHANGED page, NEW t \in Tabs, Import(t)
  PROVE  PagesInv'
<1>1. PICK f \in files :
        /\ Write(t, tab[t], SaveStored(store, f.id, f.entry))
        /\ mishap' = IF f.entry.key = server[f.id].key THEN mishap
                     ELSE mishap \union {f.id}
  BY DEF Import
<1>2. TypeInv
  BY DEF PagesInv
<1> DEFINE i == f.id
           s == SaveStored(store, i, f.entry)
<1>3. i \in Ids /\ f.entry \in Entry
  BY <1>2 DEF TypeInv
<1>4. /\ s \in Stores /\ s[i] = f.entry
      /\ \A j \in Ids : j # i => s[j] = store[j]
  <2>1. store \in Stores
    BY <1>2 DEF TypeInv, Stores
  <2> QED
    BY <1>3, <2>1, SaveKeeps
<1>5. Write(t, tab[t], s)
  BY <1>1
<1> HIDE DEF s
<1>6. /\ store' = s /\ rounds' \in Seq(Round) /\ tab' \in [Tabs -> Tab]
      /\ tab'[t].shown \in {tab[t].shown, store'}
      /\ \A u \in Tabs : u # t => tab'[u].shown = tab[u].shown
  <2>1. tab[t] \in Tab
    BY <1>2, TabHas
  <2>2. /\ store' = s /\ rounds' \in Seq(Round) /\ tab' \in [Tabs -> Tab]
        /\ tab'[t].shown \in {tab[t].shown, s}
        /\ \A u \in Tabs : u # t => tab'[u] = tab[u]
    BY <1>2, <1>4, <1>5, <2>1, Wrote
  <2> QED
    BY <2>2
<1>7. UNCHANGED <<server, lapsed, files, links, calls, faults, fate>>
  BY DEF Import
<1>8. acts' \in 0..MaxActs
  BY <1>2, BoundsAssumption DEF Import, Act, TypeInv
<1>9. mishap' \in SUBSET Ids /\ mishap \subseteq mishap'
  BY <1>1, <1>2, <1>3 DEF TypeInv
<1>10. TypeInv'
  BY <1>2, <1>4, <1>6, <1>7, <1>8, <1>9 DEF TypeInv, Stores
<1>11. Thins(calls', calls, DOMAIN calls)
  BY <1>2, <1>7, ThinsSame DEF TypeInv
<1>12. ServerInv' /\ PageInv' /\ CallInv' /\ MadeInv' /\ CarryInv'
  <2>1. ServerInv' /\ PageInv'
    BY <1>7 DEF PagesInv, ServerInv, PageInv, IsOpen
  <2>2. CarriesLeft(DOMAIN calls) /\ FateMoves
    BY <1>7 DEF CarriesLeft, FateMoves
  <2>3. \A n \in DOMAIN calls, j \in Ids :
          j \in mishap /\ calls[n].made = server[j].key /\ IsOpen(j) => j \in mishap'
    BY <1>9
  <2> QED
    BY <1>7, <1>11, <2>1, <2>2, <2>3, ThinShape, ThinMade, ThinCarry DEF PagesInv
<1>13. ASSUME NEW j \in Ids
       PROVE  CreateAt(j)'
  <2>1. Unknown(j) => Hidden(j)'
    <3> SUFFICES ASSUME Unknown(j) PROVE Hidden(j)'
      OBVIOUS
    <3>1. j # i
      BY DEF Unknown, Hidden
    <3>2. ~Has(store', j)
      BY <1>4, <1>6, <3>1 DEF Unknown, Hidden, Has
    <3> QED
      BY <1>6, <1>7, <3>2 DEF Unknown, Hidden
  <2> QED
    BY <1>7, <1>11, <2>1, ThinCreate DEF PagesInv, CreateInv
<1>14. ASSUME NEW j \in Ids
       PROVE  KeyAt(j)'
  <2>1. CASE j = i
    <3>1. server[i].key = f.entry.key \/ i \in mishap'
      BY <1>1
    <3> QED
      BY <1>4, <1>6, <1>7, <2>1, <3>1 DEF KeyAt
  <2>2. CASE j # i
    <3>1. store'[j] = store[j]
      BY <1>4, <1>6, <2>2
    <3>2. Has(store', j) => Has(store, j) /\ store'[j].key = store[j].key
      BY <3>1 DEF Has
    <3> QED
      BY <1>7, <1>9, <1>11, <3>2, ThinKey DEF PagesInv, KeyInv
  <2> QED
    BY <2>1, <2>2
<1>15. CreateInv' /\ KeyInv'
  BY <1>13, <1>14 DEF CreateInv, KeyInv
<1> QED
  BY <1>10, <1>12, <1>15 DEF PagesInv

\* A reload ends the handlers of its tab: rotations and views among them are
\* lost.
LEMMA ReloadStep ==
  ASSUME TypeInv, UNCHANGED page, NEW t \in Tabs, Reload(t)
  PROVE  TypeInv' /\ \E I \in SUBSET DOMAIN calls : Quiet(I)
<1> DEFINE I == {n \in DOMAIN calls : ~(calls[n].tab = t)}
           J == {n \in DOMAIN rounds : ~(rounds[n].tab = t)}
           theirs == Those(rounds, J)
           q == FreshTab(tab[t].page)
<1>1. calls' = Those(calls, I)
  BY DEF Reload
<1>2. rounds' = Announced(theirs, t, tab[t], store)
  BY DEF Reload
<1>3. tab' = [tab EXCEPT ![t] = Hears(q, store)]
  BY DEF Reload
<1>4. calls' \in Seq(Call) /\ Thins(calls', calls, I)
  BY <1>1, ThoseThin DEF TypeInv
<1>5. theirs \in Seq(Round)
  BY ThoseThin DEF TypeInv
<1>6. q \in Tab /\ \A i \in Ids : ~Has(q.shown, i)
  <2>1. tab[t].page \in {"create", "list"}
    BY TabHas DEF Tab
  <2> QED
    BY <2>1, FreshTabType
<1> HIDE DEF q, theirs
<1>7. store \in Stores
  BY DEF TypeInv, Stores
<1>8. Hears(q, store) \in Tab /\ Hears(q, store).shown \in {q.shown, store}
  BY <1>6, <1>7, HearsType
<1>9. rounds' \in Seq(Round)
  BY <1>2, <1>5, AnnouncedType
<1>10. tab' \in [Tabs -> Tab]
  BY <1>3, <1>8 DEF TypeInv
<1>11. \A i \in Ids :
         fate'[i] = IF /\ \E n \in DOMAIN calls : calls[n].tab = t /\ Carrying(calls[n], i)
                       /\ fate[i] = "carried"
                    THEN "lost" ELSE fate[i]
  BY DEF Reload
<1>12. fate' \in [Ids -> {"none", "carried", "shown", "unseen", "dropped", "lost"}]
  <2>1. fate' = [i \in Ids |-> fate'[i]]
    BY DEF Reload
  <2>2. \A i \in Ids :
          fate'[i] \in {"none", "carried", "shown", "unseen", "dropped", "lost"}
    BY <1>11 DEF TypeInv
  <2> QED
    BY <2>1, <2>2
<1>13. mishap' \in SUBSET Ids /\ mishap \subseteq mishap'
  BY DEF Reload, TypeInv
<1>14. faults' \in 0..MaxFaults
  BY BoundsAssumption DEF Reload, TypeInv
<1>15. TypeInv'
  BY <1>4, <1>9, <1>10, <1>12, <1>13, <1>14 DEF TypeInv, Reload
<1>16. KeepsKeys(store', store)
  BY StoreKept DEF Reload
<1>17. ShowsKnown
  <2>1. tab'[t].shown \in {q.shown, store}
    BY <1>3, <1>8 DEF TypeInv
  <2>2. \A u \in Tabs : u # t => tab'[u].shown = tab[u].shown
    BY <1>3 DEF TypeInv
  <2>3. CASE tab'[t].shown = store
    BY <1>16, <2>2, <2>3, ShowsFrom
  <2>4. CASE tab'[t].shown = q.shown
    BY <1>6, <1>16, <2>2, <2>4, ShowsFrom
  <2> QED
    BY <2>1, <2>3, <2>4
<1>18. FateMoves
  BY <1>11 DEF FateMoves
<1>19. CarriesLeft(I)
  <2> SUFFICES ASSUME NEW n \in DOMAIN calls \ I, NEW i \in Ids, Carries(calls[n], i)
               PROVE  fate'[i] # "carried"
    BY DEF CarriesLeft
  <2>1. calls[n].tab = t /\ Carrying(calls[n], i)
    BY DEF Carries
  <2> QED
    BY <1>11, <2>1
<1>20. PatchesLeft(I)
  <2> SUFFICES ASSUME NEW n \in DOMAIN calls \ I, NEW i \in Ids, Patches(calls[n], i)
               PROVE  i \in mishap'
    BY DEF PatchesLeft
  <2>1. calls[n].tab = t /\ Rotating(calls[n], i)
    BY DEF Patches
  <2> QED
    BY <2>1 DEF Reload
<1>21. Quiet(I)
  BY <1>4, <1>13, <1>16, <1>17, <1>18, <1>19, <1>20, FilesSame DEF Quiet, Reload
<1> QED
  BY <1>15, <1>21

------------------------------------------------------------------------------
(***************************************************************************)
(* The server's side.                                                      *)
(***************************************************************************)
LEMMA ServerHas ==
  ASSUME TypeInv, NEW i \in Ids
  PROVE  server[i] \in Record /\ DOMAIN server = Ids
  BY DEF TypeInv

LEMMA GoneType ==
  Nothing("gone") \in Record /\ Nothing("gone").state = "gone"
  BY DEF Nothing, Record

\* The record r of request i comes from old: it is the same, or gone, or what
\* a responder provided to it.
Succeeds(r, old) ==
  \/ r = old
  \/ r = Nothing("gone") /\ old.state # "none"
  \/ /\ old.state = "pending" /\ r.state = "fulfilled"
     /\ r.key = old.key /\ r.cipher \in Keys

LEMMA ServerMoves ==
  ASSUME TypeInv, ServerInv, CallInv, MadeInv, CreateInv, KeyInv, CarryInv,
         NEW i \in Ids, NEW r, Succeeds(r, server[i]),
         server' = [server EXCEPT ![i] = r],
         UNCHANGED <<store, files, tab, calls, mishap, fate>>
  PROVE  ServerInv' /\ CallInv' /\ MadeInv' /\ CreateInv' /\ KeyInv' /\ CarryInv'
<1>1. \A j \in Ids : server'[j] = IF j = i THEN r ELSE server[j]
  BY ServerHas
<1>2. \A j \in Ids :
        /\ server'[j].state = "none" <=> server[j].state = "none"
        /\ server'[j].state \in {"pending", "fulfilled"} =>
             IsOpen(j) /\ server'[j].key = server[j].key
        /\ server'[j].state = "fulfilled" /\ server[j].state # "fulfilled" =>
             server'[j].cipher \in Keys
        /\ server'[j].state = "fulfilled" /\ server[j].state = "fulfilled" =>
             server'[j].cipher = server[j].cipher
  <2> TAKE j \in Ids
  <2>1. CASE j # i \/ r = server[i]
    BY <1>1, <2>1 DEF IsOpen
  <2>2. CASE j = i /\ r = Nothing("gone") /\ server[i].state # "none"
    BY <1>1, <2>2, GoneType
  <2>3. CASE /\ j = i /\ server[i].state = "pending" /\ r.state = "fulfilled"
             /\ r.key = server[i].key /\ r.cipher \in Keys
    BY <1>1, <2>3 DEF IsOpen
  <2> QED
    BY <2>1, <2>2, <2>3 DEF Succeeds
<1>3. ServerInv'
  BY <1>2 DEF ServerInv, IsOpen
<1>4. MadeInv'
  <2>1. ASSUME NEW n \in DOMAIN calls, NEW j \in Ids
        PROVE  Sent(calls[n], j)'
    <3>1. Sent(calls[n], j)
      BY DEF MadeInv
    <3> QED
      BY <1>2, <3>1 DEF Sent, IsOpen
  <2> QED
    BY <2>1 DEF MadeInv
<1>5. ASSUME NEW j \in Ids
      PROVE  CreateAt(j)' /\ KeyAt(j)'
  <2>1. CreateAt(j) /\ KeyAt(j)
    BY DEF CreateInv, KeyInv
  <2>2. CreateAt(j)'
    BY <1>2, <2>1 DEF CreateAt, Unknown, Hidden, Creating, IsOpen
  <2>3. KeyAt(j)'
    BY <1>2, <2>1 DEF KeyAt, Patches, Rotating, IsOpen
  <2> QED
    BY <2>2, <2>3
<1>6. CallInv' /\ CarryInv'
  BY DEF CallInv, CarryInv, CarryAt, Carries, Carrying
<1>7. CreateInv' /\ KeyInv'
  BY <1>5 DEF CreateInv, KeyInv
<1> QED
  BY <1>3, <1>4, <1>6, <1>7

LEMMA LapseStep ==
  ASSUME PagesInv, UNCHANGED page, NEW i \in Ids, Lapse(i)
  PROVE  PagesInv'
<1>1. server' = [server EXCEPT ![i] = Nothing("gone")]
  BY DEF Lapse
<1>2. Succeeds(Nothing("gone"), server[i])
  BY DEF Lapse, Succeeds
<1>3. TypeInv'
  BY <1>1, GoneType DEF PagesInv, TypeInv, Lapse
<1>4. PageInv'
  BY DEF PagesInv, PageInv
<1>5. ServerInv' /\ CallInv' /\ MadeInv' /\ CreateInv' /\ KeyInv' /\ CarryInv'
  BY <1>1, <1>2, ServerMoves DEF PagesInv, Lapse
<1> QED
  BY <1>3, <1>4, <1>5 DEF PagesInv

\* What a page that encrypts to k does to a record.
LEMMA ProvidedSucceeds ==
  ASSUME NEW rec \in Record, NEW k \in Keys
  PROVE  /\ Provided(rec, k) \in Record
         /\ Succeeds(Provided(rec, k), rec)
<1>1. CASE rec.state = "pending"
  <2> DEFINE r == [rec EXCEPT !.state = "fulfilled", !.cipher = k]
  <2>1. r \in Record /\ r.state = "fulfilled" /\ r.key = rec.key /\ r.cipher = k
    BY DEF Record
  <2>2. Provided(rec, k) = r
    BY <1>1 DEF Provided
  <2> HIDE DEF r
  <2> QED
    BY <1>1, <2>1, <2>2 DEF Succeeds
<1>2. CASE rec.state # "pending"
  BY <1>2 DEF Provided, Succeeds
<1> QED
  BY <1>1, <1>2

LEMMA AfterType ==
  ASSUME NEW q \in Page, Checked(q), NEW status
  PROVE  After(q, status) \in Page /\ Checked(After(q, status))
<1>1. After(q, status) \in {Verdict("submitted"), Verdict("alreadyFulfilled"),
                            Verdict("notFound"), q}
  BY DEF After
<1> QED
  BY <1>1, VerdictType DEF PageStates

LEMMA SubmitStep ==
  ASSUME PagesInv, NEW p \in Responders, Submit(p) \/ SubmitBadly(p)
  PROVE  PagesInv'
<1> DEFINE i == page[p].link.id
           k == page[p].key
<1>1. page[p] \in Page /\ Checked(page[p]) /\ page[p].state = "ready"
  BY DEF PagesInv, TypeInv, PageInv, Submit, SubmitBadly, Submittable
<1>2. i \in Ids /\ k \in Keys
  BY <1>1 DEF Checked, Link
<1>3. TypeInv
  BY DEF PagesInv
<1>4. server[i] \in Record
  BY <1>2, <1>3, ServerHas
<1>5. PICK r \in Record :
        server' = [server EXCEPT ![i] = r] /\ Succeeds(r, server[i])
  <2>1. Provided(server[i], k) \in Record /\ Succeeds(Provided(server[i], k), server[i])
    BY <1>2, <1>4, ProvidedSucceeds
  <2>2. server = [server EXCEPT ![i] = server[i]] /\ Succeeds(server[i], server[i])
    BY <1>3 DEF TypeInv, Succeeds
  <2>3. \/ server' = [server EXCEPT ![i] = Provided(server[i], k)]
        \/ server' = server
    BY <1>2, <1>3 DEF Submit, SubmitBadly, TypeInv
  <2> HIDE DEF i, k
  <2> QED
    BY <1>4, <2>1, <2>2, <2>3
<1>6. PICK status : page' = [page EXCEPT ![p] = After(page[p], status)]
  BY DEF Submit, SubmitBadly
<1>7. After(page[p], status) \in Page /\ Checked(After(page[p], status))
  BY <1>1, AfterType
<1>8. UNCHANGED <<lapsed, store, files, links, tab, calls, rounds, acts, fate, mishap>>
  BY DEF Submit, SubmitBadly
<1>9. faults' \in 0..MaxFaults
  BY <1>3, BoundsAssumption DEF Submit, SubmitBadly, TypeInv
<1> HIDE DEF i, k
<1>10. server' \in [Ids -> Record]
  BY <1>2, <1>3, <1>5 DEF TypeInv
<1>11. page' \in [Responders -> Page] /\ PageInv'
  BY <1>3, <1>6, <1>7 DEF PagesInv, TypeInv, PageInv
<1>12. TypeInv'
  BY <1>3, <1>8, <1>9, <1>10, <1>11 DEF TypeInv
<1>13. ServerInv' /\ CallInv' /\ MadeInv' /\ CreateInv' /\ KeyInv' /\ CarryInv'
  BY <1>2, <1>5, <1>8, ServerMoves DEF PagesInv
<1> QED
  BY <1>11, <1>12, <1>13 DEF PagesInv

\* The server acts on the request of handler n about i, leaves r as its
\* record, and the handler hears what it hears.
Serves(n, i, r, heard) ==
  /\ server' = [server EXCEPT ![i] = r]
  /\ calls' = [calls EXCEPT ![n].ans[i] = heard]
  /\ UNCHANGED <<lapsed, store, files, links, tab, rounds, acts>>
  /\ mishap' \in {mishap, mishap \union {i}}
  /\ \/ r = server[i]
     \/ r = Nothing("gone")
     \/ /\ calls[n].op = "rotate" /\ server[i].state = "pending"
        /\ r = [server[i] EXCEPT !.key = calls[n].made]
        /\ heard.status = 200 \/ i \in mishap'
  /\ \/ fate' = fate
     \/ fate' = [fate EXCEPT ![i] = "lost"]
     \/ /\ fate' = [fate EXCEPT ![i] = "carried"]
        /\ calls[n].op = "view" /\ heard.data # NoData

\* Only the answer to n about i is new.
LEMMA AnswerFilled ==
  ASSUME TypeInv, NEW n \in DOMAIN calls, NEW i \in Ids, NEW heard \in Reply,
         calls' = [calls EXCEPT ![n].ans[i] = heard]
  PROVE  /\ calls' \in Seq(Call) /\ DOMAIN calls' = DOMAIN calls
         /\ \A m \in DOMAIN calls : /\ calls'[m].op = calls[m].op
                                    /\ calls'[m].all = calls[m].all
                                    /\ calls'[m].made = calls[m].made
                                    /\ m # n => calls'[m] = calls[m]
         /\ calls'[n].ans[i] = heard
         /\ \A j \in Ids : j # i => calls'[n].ans[j] = calls[n].ans[j]
<1> DEFINE c == [calls[n] EXCEPT !.ans = [calls[n].ans EXCEPT ![i] = heard]]
<1>1. calls \in Seq(Call) /\ n \in 1..Len(calls)
  BY LenProperties DEF TypeInv
<1>2. calls[n] \in Call /\ calls[n].ans \in [Ids -> Reply]
  BY HandlerHas
<1>3. /\ c \in Call /\ c.op = calls[n].op /\ c.all = calls[n].all
      /\ c.made = calls[n].made /\ c.ans = [calls[n].ans EXCEPT ![i] = heard]
  BY <1>2 DEF Call
<1>4. calls' = [calls EXCEPT ![n] = c]
  OBVIOUS
<1> HIDE DEF c
<1>5. calls' \in Seq(Call)
  <2>1. c \in Call
    BY <1>3
  <2> QED
    BY <1>1, <1>4, <2>1, ExceptSeq
<1>6. c.ans[i] = heard /\ \A j \in Ids : j # i => c.ans[j] = calls[n].ans[j]
  BY <1>2, <1>3
<1>7. /\ DOMAIN calls' = DOMAIN calls /\ calls'[n] = c
      /\ \A m \in DOMAIN calls : m # n => calls'[m] = calls[m]
  BY <1>4
<1> QED
  BY <1>3, <1>5, <1>6, <1>7

LEMMA Served ==
  ASSUME PagesInv, UNCHANGED page, NEW n \in DOMAIN calls, NEW i \in Ids,
         Asking(n, i), NEW r \in Record, NEW heard \in Reply, Serves(n, i, r, heard),
         faults' \in 0..MaxFaults
  PROVE  PagesInv'
<1> DEFINE c == calls[n]
<1>1. TypeInv
  BY DEF PagesInv
<1>2. /\ c.op \in {"view", "revoke", "rotate", "purgeAll"} /\ i \in c.all
      /\ c.ans[i].status = 1 /\ c.ans[i].data = NoData
  BY DEF Asking, Waiting
<1>3. /\ calls' \in Seq(Call) /\ DOMAIN calls' = DOMAIN calls
      /\ \A m \in DOMAIN calls : /\ calls'[m].op = calls[m].op
                                 /\ calls'[m].all = calls[m].all
                                 /\ calls'[m].made = calls[m].made
                                 /\ m # n => calls'[m] = calls[m]
      /\ calls'[n].ans[i] = heard
      /\ \A j \in Ids : j # i => calls'[n].ans[j] = c.ans[j]
  <2>1. calls' = [calls EXCEPT ![n].ans[i] = heard]
    BY DEF Serves
  <2> QED
    BY <1>1, <2>1, AnswerFilled, Zenon
<1>4. server[i] \in Record /\ CreateAt(i)
  BY <1>1, ServerHas DEF PagesInv, CreateInv
<1>5. /\ server'[i] = r
      /\ \A j \in Ids : j # i => server'[j] = server[j]
      /\ server' \in [Ids -> Record]
  BY <1>1 DEF Serves, TypeInv
<1>6. mishap' \in SUBSET Ids /\ mishap \subseteq mishap'
      /\ \A j \in Ids : j # i => (j \in mishap' <=> j \in mishap)
  BY <1>1 DEF Serves, TypeInv
<1>7. c.op = "rotate" => c.made \in Keys /\ c.all = {i}
  BY <1>2 DEF PagesInv, CallInv, Shaped
<1>8. server[i].state # "none"
  BY <1>2, <1>4 DEF CreateAt
\* What becomes of the record.
<1>9. CASE r = server[i]
           \/ r = Nothing("gone")
           \/ /\ c.op = "rotate" /\ server[i].state = "pending"
              /\ r.state = "pending" /\ r.key = c.made
              /\ heard.status = 200 \/ i \in mishap'
  <2>1. TypeInv'
    <3>1. fate' \in [Ids -> {"none", "carried", "shown", "unseen", "dropped", "lost"}]
      BY <1>1 DEF Serves, TypeInv
    <3> QED
      BY <1>1, <1>3, <1>5, <1>6, <3>1 DEF TypeInv, Serves
  <2>2. PageInv'
    BY DEF PagesInv, PageInv
  <2>3. ServerInv'
    <3>1. ASSUME NEW j \in Ids, IsOpen(j)'
          PROVE  /\ server'[j].key \in Keys
                 /\ server'[j].state = "fulfilled" => server'[j].cipher \in Keys
      <4>1. CASE j # i \/ r = server[i]
        BY <1>5, <3>1, <4>1 DEF PagesInv, ServerInv, IsOpen
      <4>2. CASE j = i /\ r = Nothing("gone")
        BY <1>5, <3>1, <4>2, GoneType DEF IsOpen
      <4>3. CASE j = i /\ c.op = "rotate" /\ r.state = "pending" /\ r.key = c.made
        BY <1>5, <1>7, <4>3
      <4> QED
        BY <1>9, <4>1, <4>2, <4>3
    <3> QED
      BY <3>1 DEF ServerInv
  <2>4. CallInv'
    BY <1>3 DEF PagesInv, CallInv, Shaped
  <2>5. MadeInv'
    <3>1. \A m, l \in DOMAIN calls' :
            calls'[m].made = calls'[l].made /\ calls'[m].made # NoKey => m = l
      BY <1>3 DEF PagesInv, MadeInv
    <3>2. ASSUME NEW m \in DOMAIN calls, NEW j \in Ids
          PROVE  Sent(calls[m], j)'
      <4> SUFFICES ASSUME IsOpen(j)', calls[m].made = server'[j].key
                   PROVE  /\ j \in calls[m].all
                          /\ calls[m].op = "rotate" =>
                               calls'[m].ans[j].status = 200 \/ j \in mishap'
        BY <1>3 DEF Sent
      <4>1. Sent(calls[m], j)
        BY DEF PagesInv, MadeInv
      <4>2. CASE j # i
        BY <1>3, <1>5, <1>6, <4>1, <4>2 DEF Sent, IsOpen
      <4>3. CASE j = i /\ r = server[i]
        <5>1. /\ i \in calls[m].all
              /\ calls[m].op = "rotate" => calls[m].ans[i].status = 200 \/ i \in mishap
          BY <1>5, <4>1, <4>3 DEF Sent, IsOpen
        <5> QED
          BY <1>2, <1>3, <1>6, <4>3, <5>1
      <4>4. CASE j = i /\ r = Nothing("gone")
        BY <1>5, <4>4, GoneType DEF IsOpen
      <4>5. CASE /\ j = i /\ c.op = "rotate" /\ r.key = c.made
                 /\ heard.status = 200 \/ i \in mishap'
        <5>1. m = n
          BY <1>5, <1>7, <4>5, KeysAssumption DEF PagesInv, MadeInv
        <5> QED
          BY <1>2, <1>3, <4>5, <5>1
      <4> QED
        BY <1>9, <4>2, <4>3, <4>4, <4>5
    <3> QED
      BY <1>3, <3>1, <3>2 DEF MadeInv
  <2>6. ASSUME NEW j \in Ids
        PROVE  CreateAt(j)'
    <3>1. CreateAt(j)
      BY DEF PagesInv, CreateInv
    <3>2. Unknown(j) => Unknown(j)'
      BY <1>3 DEF Unknown, Hidden, Serves
    <3>3. server'[j].state = "none" => server[j].state = "none"
      BY <1>5, <1>8, <1>9, GoneType
    <3>4. server'[j].state = "none" =>
            Unknown(j)' /\ \A m \in DOMAIN calls' : j \notin calls'[m].all
      BY <1>3, <3>1, <3>2, <3>3 DEF CreateAt
    <3>5. ASSUME NEW m \in DOMAIN calls', Creating(m, j)'
          PROVE  /\ Unknown(j)'
                 /\ IsOpen(j)' => server'[j].key = calls'[m].made
                 /\ \A l \in DOMAIN calls' : j \in calls'[l].all => l = m
      <4>1. Creating(m, j)
        BY <1>3, <3>5 DEF Creating
      <4>2. /\ Unknown(j)
            /\ IsOpen(j) => server[j].key = calls[m].made
            /\ \A l \in DOMAIN calls : j \in calls[l].all => l = m
        BY <1>3, <3>1, <4>1 DEF CreateAt
      <4>3. j # i
        BY <1>2, <4>1, <4>2 DEF Creating
      <4> QED
        BY <1>3, <1>5, <3>2, <4>2, <4>3 DEF IsOpen
    <3> QED
      BY <3>4, <3>5 DEF CreateAt
  <2>7. ASSUME NEW j \in Ids
        PROVE  KeyAt(j)'
    <3> SUFFICES ASSUME Has(store, j), IsOpen(j)', j \notin mishap'
                 PROVE  \/ store[j].key = server'[j].key
                        \/ \E m \in DOMAIN calls : Patches(calls[m], j)'
      BY <1>3 DEF KeyAt, Serves
    <3>1. KeyAt(j) /\ j \notin mishap
      BY <1>6 DEF PagesInv, KeyInv
    <3>2. CASE server'[j] = server[j]
      <4>1. CASE store[j].key = server[j].key
        BY <3>2, <4>1
      <4>2. CASE \E m \in DOMAIN calls : Patches(calls[m], j)
        <5> PICK m \in DOMAIN calls : Patches(calls[m], j)
          BY <4>2
        <5>1. calls'[m].ans[j] = calls[m].ans[j]
          BY <1>2, <1>3 DEF Patches
        <5>2. Patches(calls[m], j)'
          BY <1>3, <3>2, <5>1 DEF Patches, Rotating
        <5> QED
          BY <5>2
      <4> QED
        BY <3>1, <3>2, <4>1, <4>2 DEF KeyAt, IsOpen
    <3>3. CASE j = i /\ r = Nothing("gone")
      BY <1>5, <3>3, GoneType DEF IsOpen
    <3>4. CASE /\ j = i /\ c.op = "rotate" /\ r.key = c.made
               /\ heard.status = 200 \/ i \in mishap'
      <4>1. Patches(calls[n], i)'
        BY <1>2, <1>3, <1>5, <3>4 DEF Patches, Rotating
      <4> QED
        BY <3>4, <4>1
    <3> QED
      BY <1>5, <1>9, <3>2, <3>3, <3>4
  <2>8. ASSUME NEW j \in Ids
        PROVE  CarryAt(j)'
    <3>1. CarryAt(j)
      BY DEF PagesInv, CarryInv
    <3>2. fate'[j] # "dropped"
      BY <1>1, <3>1 DEF CarryAt, Serves, TypeInv
    <3>3. ASSUME fate'[j] = "carried", fate[j] = "carried"
          PROVE  \E m \in DOMAIN calls : Carries(calls[m], j)'
      <4> PICK m \in DOMAIN calls : Carries(calls[m], j)
        BY <3>1, <3>3 DEF CarryAt
      <4>1. calls'[m].ans[j] = calls[m].ans[j]
        BY <1>2, <1>3 DEF Carries
      <4>2. Carries(calls[m], j)'
        BY <1>3, <4>1 DEF Carries, Carrying
      <4> QED
        BY <4>2
    <3>4. ASSUME fate'[j] = "carried", fate[j] # "carried"
          PROVE  \E m \in DOMAIN calls : Carries(calls[m], j)'
      <4>1. j = i /\ c.op = "view" /\ heard.data # NoData
        BY <1>1, <3>4 DEF Serves, TypeInv
      <4>2. Carries(calls[n], i)'
        BY <1>2, <1>3, <4>1 DEF Carries, Carrying
      <4> QED
        BY <4>1, <4>2
    <3> QED
      BY <1>3, <3>2, <3>3, <3>4 DEF CarryAt
  <2> QED
    BY <2>1, <2>2, <2>3, <2>4, <2>5, <2>6, <2>7, <2>8
    DEF PagesInv, CreateInv, KeyInv, CarryInv
<1>10. ASSUME c.op = "rotate", server[i].state = "pending",
              r = [server[i] EXCEPT !.key = c.made]
       PROVE  r.state = "pending" /\ r.key = c.made
  BY <1>4, <1>10 DEF Record
<1> QED
  BY <1>9, <1>10 DEF Serves

\* What the server says to a request that reaches it, and does.
LEMMA SaidType ==
  ASSUME PagesInv, NEW n \in DOMAIN calls, NEW i \in Ids, Asking(n, i)
  PROVE  LET c == calls[n]
             said == Said(c.op, server[i])
         IN  /\ said \in Reply /\ Lost \in Reply
             /\ \A heard \in Faulty(said.status, said.data) : heard \in Reply
             /\ c.op = "view" /\ said.status = 200 => said.data # NoData
<1> DEFINE c == calls[n]
           said == Said(c.op, server[i])
<1>1. server[i] \in Record /\ (server[i].state = "fulfilled" => server[i].cipher \in Keys)
  BY ServerHas DEF PagesInv, ServerInv, IsOpen
<1>2. Lost \in Reply
  BY DEF Lost, Reply
<1>3. /\ said.status \in {200, 204, 404, 409}
      /\ said.data \in Keys \union {NoData}
      /\ said = [status |-> said.status, data |-> said.data]
      /\ c.op = "view" /\ said.status = 200 => said.data \in Keys
  BY <1>1 DEF Said, Clear, JsonFetch
<1>4. said \in Reply
  BY <1>3 DEF Reply
<1>5. \A heard \in Faulty(said.status, said.data) : heard \in Reply
  <2> HIDE DEF said
  <2>1. JsonFetch(said.status, said.data, FALSE) = [status |-> said.status, data |-> NoData]
    BY DEF JsonFetch
  <2>2. said.status \in {0, 1, 200, 204, 404, 409, 500}
    BY <1>3
  <2>3. [status |-> said.status, data |-> NoData] \in Reply
    BY <2>2 DEF Reply
  <2>4. JsonFetch(said.status, said.data, FALSE) \in Reply
    BY <2>1, <2>3
  <2> QED
    BY <1>2, <2>4 DEF Faulty
<1> QED
  BY <1>2, <1>3, <1>4, <1>5, NoDataAssumption

LEMMA DidType ==
  ASSUME PagesInv, NEW n \in DOMAIN calls, NEW i \in Ids, Asking(n, i)
  PROVE  LET c == calls[n]
             did == Did(c.op, server[i], c.made)
         IN  /\ did \in Record
             /\ \/ did = server[i]
                \/ did = Nothing("gone")
                \/ /\ c.op = "rotate" /\ server[i].state = "pending"
                   /\ did = [server[i] EXCEPT !.key = c.made]
                   /\ Said(c.op, server[i]).status = 200
<1> DEFINE c == calls[n]
           did == Did(c.op, server[i], c.made)
<1>1. server[i] \in Record
  BY ServerHas DEF PagesInv
<1>2. c.op \in {"view", "revoke", "rotate", "purgeAll"}
  BY DEF Asking
<1>3. CASE c.op = "rotate" /\ server[i].state = "pending"
  <2>1. c.made \in Keys
    BY <1>3 DEF PagesInv, CallInv, Shaped
  <2>2. did = [server[i] EXCEPT !.key = c.made]
    BY <1>3 DEF Did
  <2>3. [server[i] EXCEPT !.key = c.made] \in Record
    BY <1>1, <2>1 DEF Record
  <2>4. Said(c.op, server[i]).status = 200
    BY <1>3 DEF Said, Clear, JsonFetch
  <2> QED
    BY <1>3, <2>2, <2>3, <2>4
<1>4. CASE ~(c.op = "rotate" /\ server[i].state = "pending")
  <2>1. did = server[i] \/ did = Nothing("gone")
    BY <1>2, <1>4 DEF Did
  <2> QED
    BY <1>1, <2>1, GoneType
<1> QED
  BY <1>3, <1>4

LEMMA ServeStep ==
  ASSUME PagesInv, UNCHANGED page, NEW n \in DOMAIN calls, NEW i \in Ids, Serve(n, i)
  PROVE  PagesInv'
<1> DEFINE c == calls[n]
           said == Said(c.op, server[i])
           did == Did(c.op, server[i], c.made)
<1>1. Asking(n, i)
  BY DEF Serve
<1>2. said \in Reply /\ (c.op = "view" /\ said.status = 200 => said.data # NoData)
  BY <1>1, SaidType
<1>3. /\ did \in Record
      /\ \/ did = server[i]
         \/ did = Nothing("gone")
         \/ /\ c.op = "rotate" /\ server[i].state = "pending"
            /\ did = [server[i] EXCEPT !.key = c.made]
            /\ said.status = 200
  BY <1>1, DidType
<1>4. /\ server' = [server EXCEPT ![i] = did]
      /\ calls' = [calls EXCEPT ![n].ans[i] = said]
      /\ fate' = IF c.op = "view" /\ said.status = 200
                 THEN [fate EXCEPT ![i] = "carried"] ELSE fate
      /\ UNCHANGED <<lapsed, store, files, links, tab, rounds, acts, faults, mishap>>
  BY DEF Serve
<1> HIDE DEF said, did
<1>5. Serves(n, i, did, said)
  BY <1>2, <1>3, <1>4 DEF Serves
<1>6. faults' \in 0..MaxFaults
  BY <1>4 DEF PagesInv, TypeInv
<1> QED
  BY <1>1, <1>2, <1>3, <1>5, <1>6, Served

LEMMA ServeBadlyStep ==
  ASSUME PagesInv, UNCHANGED page, NEW n \in DOMAIN calls, NEW i \in Ids,
         ServeBadly(n, i)
  PROVE  PagesInv'
<1> DEFINE c == calls[n]
           said == Said(c.op, server[i])
           did == Did(c.op, server[i], c.made)
<1>1. Asking(n, i)
  BY DEF ServeBadly
<1>2. Lost \in Reply /\ \A heard \in Faulty(said.status, said.data) : heard \in Reply
  BY <1>1, SaidType
<1>3. /\ did \in Record
      /\ \/ did = server[i]
         \/ did = Nothing("gone")
         \/ /\ c.op = "rotate" /\ server[i].state = "pending"
            /\ did = [server[i] EXCEPT !.key = c.made]
            /\ said.status = 200
  BY <1>1, DidType
<1>4. faults' \in 0..MaxFaults
  BY BoundsAssumption DEF ServeBadly, PagesInv, TypeInv
<1>5. UNCHANGED <<lapsed, store, files, links, tab, rounds, acts>>
  BY DEF ServeBadly
<1>6. \/ /\ calls' = [calls EXCEPT ![n].ans[i] = Lost]
         /\ UNCHANGED <<server, fate, mishap>>
      \/ /\ server' = [server EXCEPT ![i] = did]
         /\ \E heard \in Faulty(said.status, said.data) :
              /\ calls' = [calls EXCEPT ![n].ans[i] = heard]
              /\ mishap' = IF c.op = "rotate" /\ heard.status # said.status
                           THEN mishap \union {i} ELSE mishap
         /\ fate' = IF c.op = "view" /\ said.status = 200
                    THEN [fate EXCEPT ![i] = "lost"] ELSE fate
  BY DEF ServeBadly
<1> HIDE DEF said, did
<1>7. CASE /\ calls' = [calls EXCEPT ![n].ans[i] = Lost]
           /\ UNCHANGED <<server, fate, mishap>>
  <2>1. server' = [server EXCEPT ![i] = server[i]] /\ server[i] \in Record
    BY <1>7, ServerHas DEF PagesInv, TypeInv
  <2>2. Serves(n, i, server[i], Lost)
    BY <1>5, <1>7, <2>1 DEF Serves
  <2> QED
    BY <1>1, <1>2, <1>4, <2>1, <2>2, Served
<1>8. CASE /\ server' = [server EXCEPT ![i] = did]
           /\ \E heard \in Faulty(said.status, said.data) :
                /\ calls' = [calls EXCEPT ![n].ans[i] = heard]
                /\ mishap' = IF c.op = "rotate" /\ heard.status # said.status
                             THEN mishap \union {i} ELSE mishap
           /\ fate' = IF c.op = "view" /\ said.status = 200
                      THEN [fate EXCEPT ![i] = "lost"] ELSE fate
  <2> PICK heard \in Faulty(said.status, said.data) :
             /\ calls' = [calls EXCEPT ![n].ans[i] = heard]
             /\ mishap' = IF c.op = "rotate" /\ heard.status # said.status
                          THEN mishap \union {i} ELSE mishap
    BY <1>8
  <2>1. heard \in Reply
    BY <1>2
  <2>2. /\ mishap' \in {mishap, mishap \union {i}}
        /\ c.op = "rotate" /\ said.status = 200 => heard.status = 200 \/ i \in mishap'
    OBVIOUS
  <2>3. fate' = fate \/ fate' = [fate EXCEPT ![i] = "lost"]
    BY <1>8
  <2>4. Serves(n, i, did, heard)
    BY <1>3, <1>5, <1>8, <2>2, <2>3 DEF Serves
  <2> QED
    BY <1>1, <1>3, <1>4, <2>1, <2>4, Served
<1> QED
  BY <1>6, <1>7, <1>8

\* A request is created under an ID that nothing in the browser refers to.
LEMMA ServeCreateStep ==
  ASSUME PagesInv, UNCHANGED page, NEW n \in DOMAIN calls, ServeCreate(n)
  PROVE  PagesInv'
<1> DEFINE c == calls[n]
<1>1. TypeInv
  BY DEF PagesInv
<1>2. PICK i \in Ids :
        /\ server[i].state = "none"
        /\ server' = [server EXCEPT ![i] = [state |-> "pending", key |-> c.made,
                                            cipher |-> NoKey]]
        /\ \/ calls' = [calls EXCEPT ![n].all = {i}, ![n].ans[i] = Clear(200, i)]
           \/ calls' = [calls EXCEPT ![n].all = {i}, ![n].ans[i] = Lost]
  BY DEF ServeCreate
<1>3. c.op = "create" /\ c.all = {} /\ c.made \in Keys
  BY DEF ServeCreate, PagesInv, CallInv, Shaped
<1>4. PICK heard \in Reply : calls' = [calls EXCEPT ![n].all = {i}, ![n].ans[i] = heard]
  <2>1. Clear(200, i) \in Reply /\ Lost \in Reply
    BY DEF Clear, JsonFetch, Lost, Reply
  <2> QED
    BY <1>2, <2>1
<1>5. /\ calls' \in Seq(Call) /\ DOMAIN calls' = DOMAIN calls
      /\ \A m \in DOMAIN calls : m # n => calls'[m] = calls[m]
      /\ calls'[n].op = "create" /\ calls'[n].all = {i} /\ calls'[n].made = c.made
  <2> DEFINE d == [c EXCEPT !.all = {i}, !.ans = [c.ans EXCEPT ![i] = heard]]
  <2>1. calls \in Seq(Call) /\ n \in 1..Len(calls)
    BY <1>1, LenProperties DEF TypeInv
  <2>2. c \in Call /\ c.ans \in [Ids -> Reply]
    BY <1>1, HandlerHas
  <2>3. d \in Call /\ d.op = c.op /\ d.all = {i} /\ d.made = c.made
    BY <2>2 DEF Call
  <2>4. calls' = [calls EXCEPT ![n] = d]
    BY <1>4, <2>2 DEF Call
  <2> HIDE DEF d
  <2>5. d \in Call
    BY <2>3
  <2>6. calls' \in Seq(Call)
    BY <2>1, <2>4, <2>5, ExceptSeq
  <2> QED
    BY <1>3, <2>3, <2>4, <2>6
<1>6. /\ server'[i] = [state |-> "pending", key |-> c.made, cipher |-> NoKey]
      /\ \A j \in Ids : j # i => server'[j] = server[j]
      /\ server' \in [Ids -> Record]
  <2>1. [state |-> "pending", key |-> c.made, cipher |-> NoKey] \in Record
    BY <1>3 DEF Record
  <2> QED
    BY <1>1, <1>2, <2>1 DEF TypeInv
<1>7. UNCHANGED <<lapsed, store, files, links, tab, rounds, acts, fate, mishap>>
  BY DEF ServeCreate
<1>8. faults' \in 0..MaxFaults
  BY <1>1, BoundsAssumption DEF ServeCreate, TypeInv
<1>9. TypeInv'
  BY <1>1, <1>5, <1>6, <1>7, <1>8 DEF TypeInv
<1>10. CreateAt(i) /\ Unknown(i) /\ \A m \in DOMAIN calls : i \notin calls[m].all
  BY <1>2 DEF PagesInv, CreateInv, CreateAt
<1>11. ServerInv' /\ PageInv'
  BY <1>3, <1>6 DEF PagesInv, ServerInv, PageInv, IsOpen
<1>12. CallInv'
  BY <1>3, <1>5 DEF PagesInv, CallInv, Shaped
<1>13. MadeInv'
  <2>1. \A m, l \in DOMAIN calls' :
          calls'[m].made = calls'[l].made /\ calls'[m].made # NoKey => m = l
    BY <1>5 DEF PagesInv, MadeInv
  <2>2. ASSUME NEW m \in DOMAIN calls, NEW j \in Ids
        PROVE  Sent(calls[m], j)'
    <3>1. Sent(calls[m], j)
      BY DEF PagesInv, MadeInv
    <3>2. CASE j # i /\ m # n
      BY <1>5, <1>6, <1>7, <3>1, <3>2 DEF Sent, IsOpen
    <3>3. CASE j # i /\ m = n
      BY <1>3, <1>5, <1>6, <3>1, <3>3 DEF Sent, IsOpen
    <3>4. CASE j = i /\ m # n
      <4>1. calls[m].made # c.made
        BY <1>3, <3>4, KeysAssumption DEF PagesInv, MadeInv
      <4> QED
        BY <1>5, <1>6, <3>4, <4>1 DEF Sent
    <3>5. CASE j = i /\ m = n
      BY <1>5, <3>5 DEF Sent
    <3> QED
      BY <3>2, <3>3, <3>4, <3>5
  <2> QED
    BY <1>5, <2>1, <2>2 DEF MadeInv
<1>14. \A j \in Ids : Unknown(j) => Unknown(j)'
  BY <1>5, <1>7 DEF Unknown, Hidden
<1>15. CreateAt(i)'
  BY <1>5, <1>6, <1>10, <1>14 DEF CreateAt, Creating
<1>16. ASSUME NEW j \in Ids, j # i
       PROVE  CreateAt(j)'
  <2>1. CreateAt(j)
    BY DEF PagesInv, CreateInv
  <2>2. \A m \in DOMAIN calls : j \in calls'[m].all => m # n /\ j \in calls[m].all
    BY <1>5, <1>16
  <2>3. server'[j].state = "none" =>
          Unknown(j)' /\ \A m \in DOMAIN calls' : j \notin calls'[m].all
    BY <1>5, <1>6, <1>14, <1>16, <2>1, <2>2 DEF CreateAt
  <2>4. ASSUME NEW m \in DOMAIN calls', Creating(m, j)'
        PROVE  /\ Unknown(j)'
               /\ IsOpen(j)' => server'[j].key = calls'[m].made
               /\ \A l \in DOMAIN calls' : j \in calls'[l].all => l = m
    <3>1. m # n /\ Creating(m, j)
      BY <1>5, <2>2, <2>4 DEF Creating
    <3>2. /\ Unknown(j)
          /\ IsOpen(j) => server[j].key = calls[m].made
          /\ \A l \in DOMAIN calls : j \in calls[l].all => l = m
      BY <1>5, <2>1, <3>1 DEF CreateAt
    <3> QED
      BY <1>5, <1>6, <1>14, <1>16, <2>2, <3>1, <3>2 DEF IsOpen
  <2> QED
    BY <2>3, <2>4 DEF CreateAt
<1>17. ASSUME NEW j \in Ids
       PROVE  KeyAt(j)'
  <2>1. CASE j = i
    BY <1>7, <1>10, <2>1 DEF KeyAt, Unknown, Hidden
  <2>2. CASE j # i
    <3>1. KeyAt(j)
      BY DEF PagesInv, KeyInv
    <3>2. \A m \in DOMAIN calls : Patches(calls[m], j) => Patches(calls[m], j)'
      BY <1>3, <1>5, <1>6, <2>2 DEF Patches, Rotating
    <3> QED
      BY <1>5, <1>6, <1>7, <2>2, <3>1, <3>2 DEF KeyAt, IsOpen
  <2> QED
    BY <2>1, <2>2
<1>18. ASSUME NEW j \in Ids
       PROVE  CarryAt(j)'
  <2>1. CarryAt(j)
    BY DEF PagesInv, CarryInv
  <2>2. \A m \in DOMAIN calls : Carries(calls[m], j) => Carries(calls[m], j)'
    BY <1>3, <1>5 DEF Carries, Carrying
  <2> QED
    BY <1>5, <1>7, <2>1, <2>2 DEF CarryAt
<1>19. CreateInv' /\ KeyInv' /\ CarryInv'
  BY <1>15, <1>16, <1>17, <1>18 DEF CreateInv, KeyInv, CarryInv
<1> QED
  BY <1>9, <1>11, <1>12, <1>13, <1>19 DEF PagesInv

------------------------------------------------------------------------------
(***************************************************************************)
(* The invariant.                                                          *)
(***************************************************************************)
LEMMA PagesInit == Init => PagesInv
<1> SUFFICES ASSUME Init PROVE PagesInv
  OBVIOUS
<1> USE DEF Init, RequesterInit
<1>1. calls = <<>> /\ DOMAIN calls = {}
  OBVIOUS
<1>2. FreshTab("create") \in Tab /\ \A i \in Ids : ~Has(FreshTab("create").shown, i)
  BY FreshTabType
<1>3. Nothing("none") \in Record
  BY DEF Nothing, Record
<1>4. Closed \in Page /\ Closed.state = "closed"
  BY DEF Closed, NoLink, Page, PageStates
<1>5. TypeInv
  <2>1. calls \in Seq(Call) /\ rounds \in Seq(Round)
    BY EmptySeq
  <2>2. acts \in 0..MaxActs /\ faults \in 0..MaxFaults
    BY BoundsAssumption
  <2> QED
    BY <1>2, <1>3, <1>4, <2>1, <2>2 DEF TypeInv
<1>6. \A i \in Ids : server[i].state = "none"
  BY DEF Nothing
<1>7. ServerInv /\ KeyInv
  BY <1>6 DEF ServerInv, KeyInv, KeyAt, IsOpen
<1>8. PageInv
  BY <1>4 DEF PageInv, Checked
<1>9. CallInv /\ MadeInv
  BY <1>1 DEF CallInv, MadeInv
<1>10. CreateInv
  BY <1>1, <1>2 DEF CreateInv, CreateAt, Unknown, Hidden, Has
<1>11. CarryInv
  BY DEF CarryInv, CarryAt
<1> QED
  BY <1>5, <1>7, <1>8, <1>9, <1>10, <1>11 DEF PagesInv

\* Every step keeps the invariant.
LEMMA QuietStep ==
  ASSUME PagesInv, UNCHANGED page, TypeInv', NEW I, Quiet(I)
  PROVE  PagesInv'
<1>1. PageInv'
  BY DEF PagesInv, PageInv
<1> QED
  BY <1>1, QuietKeeps DEF PagesInv

LEMMA ProgressStep ==
  ASSUME PagesInv, UNCHANGED page, Progress
  PROVE  PagesInv'
<1>1. TypeInv /\ CallInv
  BY DEF PagesInv
<1>2. ASSUME NEW n \in DOMAIN rounds, ListDone(n) \/ BadgeDone(n)
      PROVE  PagesInv'
  BY <1>1, <1>2, ListDoneStep, BadgeDoneStep, QuietStep
<1>3. ASSUME NEW n \in DOMAIN rounds, NEW i \in Ids, LookedUp(n, i)
      PROVE  PagesInv'
  BY <1>1, <1>3, LookedUpStep, QuietStep
<1>4. ASSUME NEW n \in DOMAIN calls, NEW i \in Ids, Serve(n, i)
      PROVE  PagesInv'
  BY <1>4, ServeStep
<1>5. ASSUME NEW n \in DOMAIN calls, ServeCreate(n)
      PROVE  PagesInv'
  BY <1>5, ServeCreateStep
<1>6. ASSUME NEW n \in DOMAIN calls, CreateDone(n) \/ RotateDone(n)
      PROVE  PagesInv'
  BY <1>6, CreateDoneStep, RotateDoneStep
<1>7. ASSUME NEW n \in DOMAIN calls, ViewAnswered(n)
      PROVE  PagesInv'
  BY <1>1, <1>7, ViewAnsweredStep, QuietStep
<1>8. ASSUME NEW n \in DOMAIN calls, ViewDone(n) \/ RevokeDone(n) \/ PurgeDone(n)
      PROVE  PagesInv'
  BY <1>1, <1>8, ViewDoneStep, RevokeDoneStep, PurgeDoneStep, QuietStep
<1> QED
  BY <1>2, <1>3, <1>4, <1>5, <1>6, <1>7, <1>8 DEF Progress

LEMMA ClicksStep ==
  ASSUME PagesInv, UNCHANGED page, Clicks
  PROVE  PagesInv'
<1>1. TypeInv
  BY DEF PagesInv
<1>2. ASSUME NEW t \in Tabs, NEW p \in {"create", "list"}, Navigate(t, p)
      PROVE  PagesInv'
  BY <1>1, <1>2, NavigateStep, QuietStep
<1>3. ASSUME NEW t \in Tabs, NEW type \in Ops, NEW all \in SUBSET Ids, Ask(t, type, all)
      PROVE  PagesInv'
  BY <1>1, <1>3, AskStep, QuietStep
<1>4. ASSUME NEW t \in Tabs, Cancel(t) \/ Close(t)
      PROVE  PagesInv'
  BY <1>1, <1>4, CancelStep, QuietStep
<1>5. ASSUME NEW t \in Tabs, NEW type \in {"view", "revoke", "rotate"},
             ConfirmOne(t, type)
      PROVE  PagesInv'
  BY <1>5, ConfirmOneStep
<1>6. ASSUME NEW t \in Tabs, NEW type, ConfirmLocal(t, type)
      PROVE  PagesInv'
  BY <1>1, <1>6, ConfirmLocalStep, QuietStep
<1>7. ASSUME NEW t \in Tabs, ConfirmPurge(t) \/ SubmitCreate(t) \/ Import(t)
      PROVE  PagesInv'
  BY <1>7, ConfirmPurgeStep, SubmitCreateStep, ImportStep
<1>8. ASSUME NEW t \in Tabs, NEW i \in Ids, CopyLink(t, i) \/ Export(t, i)
      PROVE  PagesInv'
  BY <1>1, <1>8, CopyLinkStep, ExportStep, QuietStep
<1> QED
  BY <1>2, <1>3, <1>4, <1>5, <1>6, <1>7, <1>8 DEF Clicks

LEMMA MishapsStep ==
  ASSUME PagesInv, UNCHANGED page, Mishaps
  PROVE  PagesInv'
<1>1. TypeInv
  BY DEF PagesInv
<1>2. ASSUME NEW i \in Ids, Lapse(i)
      PROVE  PagesInv'
  BY <1>2, LapseStep
<1>3. ASSUME NEW i \in Ids, Pass(i)
      PROVE  PagesInv'
  BY <1>1, <1>3, PassStep, QuietStep
<1>4. ASSUME NEW n \in DOMAIN calls, NEW i \in Ids, ServeBadly(n, i)
      PROVE  PagesInv'
  BY <1>4, ServeBadlyStep
<1>5. ASSUME NEW t \in Tabs, Reload(t)
      PROVE  PagesInv'
  BY <1>1, <1>5, ReloadStep, QuietStep
<1> QED
  BY <1>2, <1>3, <1>4, <1>5 DEF Mishaps

LEMMA PagesStep ==
  ASSUME PagesInv, [Next]_vars
  PROVE  PagesInv'
<1>1. TypeInv /\ PageInv
  BY DEF PagesInv
<1>2. CASE RequesterNext /\ UNCHANGED page
  <2>1. ASSUME NEW t \in Tabs, Poll(t)
        PROVE  PagesInv'
    BY <1>1, <1>2, <2>1, PollStep, QuietStep
  <2> QED
    BY <1>2, <2>1, ProgressStep, ClicksStep, MishapsStep DEF RequesterNext
<1>3. ASSUME NEW p \in Responders, Open(p) \/ Load(p) \/ LoadBadly(p)
      PROVE  PagesInv'
  <2>1. TypeInv' /\ PageInv' /\ Quiet(DOMAIN calls)
    BY <1>1, <1>3, OpenStep, LoadStep
  <2> QED
    BY <2>1, QuietKeeps DEF PagesInv
<1>4. ASSUME NEW p \in Responders, Submit(p) \/ SubmitBadly(p)
      PROVE  PagesInv'
  BY <1>4, SubmitStep
<1>5. CASE UNCHANGED vars
  <2>1. TypeInv' /\ ServerInv' /\ PageInv' /\ CallInv' /\ MadeInv'
    BY <1>5 DEF vars, requester, PagesInv, TypeInv, ServerInv, PageInv, CallInv,
                MadeInv, Sent, IsOpen
  <2>2. CreateInv' /\ KeyInv' /\ CarryInv'
    BY <1>5 DEF vars, requester, PagesInv, CreateInv, CreateAt, Unknown, Hidden,
                Creating, KeyInv, KeyAt, Patches, Rotating, CarryInv, CarryAt,
                Carries, Carrying, IsOpen
  <2> QED
    BY <2>1, <2>2 DEF PagesInv
<1> QED
  BY <1>2, <1>3, <1>4, <1>5 DEF Next

(***************************************************************************)
(* The invariant of the pages of secret requests holds for ever.           *)
(***************************************************************************)
THEOREM PagesInvariant == Spec => []PagesInv
<1>1. PagesInv /\ [Next]_vars => PagesInv'
  BY PagesStep
<1> QED
  BY <1>1, PagesInit, PTL DEF Spec

(***************************************************************************)
(* Every variable of the pages stays within its type.                      *)
(***************************************************************************)
THEOREM PagesTypeOK == Spec => []TypeOK
<1>1. PagesInv => TypeOK
  BY ElementOfSeq DEF PagesInv, TypeInv, TypeOK
<1> QED
  BY <1>1, PagesInvariant, PTL

(***************************************************************************)
(* A stored private key is the one whose public half the server shows,     *)
(* but for the known mishaps (updateStoredRequest in RequestList.tsx).     *)
(***************************************************************************)
THEOREM PagesKeyKept == Spec => []KeyKept
<1>1. PagesInv => KeyKept
  BY DEF PagesInv, KeyInv, KeyAt, KeyKept, IsOpen, Patches
<1> QED
  BY <1>1, PagesInvariant, PTL

(***************************************************************************)
(* What viewSecret fetched is on its way to the screen or was shown, unless *)
(* the user had left the page.                                             *)
(***************************************************************************)
THEOREM PagesArrivedIsShown == Spec => []ArrivedIsShown
<1>1. PagesInv => ArrivedIsShown
  BY DEF PagesInv, CarryInv, CarryAt, Carries, ArrivedIsShown
<1> QED
  BY <1>1, PagesInvariant, PTL

------------------------------------------------------------------------------
(***************************************************************************)
(* Who is answered to.                                                     *)
(***************************************************************************)
\* The requester's side brings no ciphertext.
LEMMA DidCipher ==
  ASSUME PagesInv, NEW n \in DOMAIN calls, NEW i \in Ids, Asking(n, i)
  PROVE  Did(calls[n].op, server[i], calls[n].made).cipher \in {server[i].cipher, NoKey}
<1> DEFINE did == Did(calls[n].op, server[i], calls[n].made)
<1>1. server[i] \in Record
  BY ServerHas DEF PagesInv
<1>2. \/ did = server[i]
      \/ did = Nothing("gone")
      \/ did = [server[i] EXCEPT !.key = calls[n].made]
  BY DidType
<1>3. Nothing("gone").cipher = NoKey
  BY DEF Nothing
<1>4. [server[i] EXCEPT !.key = calls[n].made].cipher = server[i].cipher
  BY <1>1 DEF Record
<1> QED
  BY <1>2, <1>3, <1>4

LEMMA RequesterCipher ==
  ASSUME PagesInv, RequesterNext, NEW j \in Ids
  PROVE  server'[j].cipher \in {server[j].cipher, NoKey}
<1>1. DOMAIN server = Ids
  BY ServerHas DEF PagesInv
<1>2. ASSUME NEW n \in DOMAIN calls, NEW i \in Ids, Serve(n, i) \/ ServeBadly(n, i)
      PROVE  server'[j].cipher \in {server[j].cipher, NoKey}
  <2>1. Asking(n, i)
    BY <1>2 DEF Serve, ServeBadly
  <2>2. \/ server' = server
        \/ server' = [server EXCEPT ![i] = Did(calls[n].op, server[i], calls[n].made)]
    BY <1>2 DEF Serve, ServeBadly
  <2> QED
    BY <1>1, <2>1, <2>2, DidCipher
<1>3. ASSUME NEW n \in DOMAIN calls, ServeCreate(n)
      PROVE  server'[j].cipher \in {server[j].cipher, NoKey}
  <2> PICK i \in Ids : server' = [server EXCEPT ![i] =
                         [state |-> "pending", key |-> calls[n].made, cipher |-> NoKey]]
    BY <1>3 DEF ServeCreate
  <2> QED
    BY <1>1
<1>4. ASSUME NEW i \in Ids, Lapse(i)
      PROVE  server'[j].cipher \in {server[j].cipher, NoKey}
  BY <1>1, <1>4 DEF Lapse, Nothing
<1>5. CASE server' = server
  BY <1>5
<1>6. CASE Progress
  <2>1. ASSUME NEW n \in DOMAIN rounds, ListDone(n) \/ BadgeDone(n)
        PROVE  server' = server
    BY <2>1 DEF ListDone, BadgeDone
  <2>2. ASSUME NEW n \in DOMAIN rounds, NEW i \in Ids, LookedUp(n, i)
        PROVE  server' = server
    BY <2>2 DEF LookedUp
  <2>3. ASSUME NEW n \in DOMAIN calls,
               CreateDone(n) \/ ViewAnswered(n) \/ ViewDone(n) \/ RevokeDone(n)
                 \/ RotateDone(n) \/ PurgeDone(n)
        PROVE  server' = server
    BY <2>3 DEF CreateDone, ViewAnswered, ViewDone, RevokeDone, RotateDone, PurgeDone
  <2> QED
    BY <1>2, <1>3, <1>5, <1>6, <2>1, <2>2, <2>3 DEF Progress
<1>7. CASE Clicks
  <2>1. server' = server
    BY <1>7 DEF Clicks, Navigate, Ask, Cancel, Close, ConfirmOne, ConfirmLocal,
                ConfirmPurge, SubmitCreate, Import, CopyLink, Export
  <2> QED
    BY <1>5, <2>1
<1>8. CASE Mishaps
  <2>1. ASSUME NEW i \in Ids, Pass(i)
        PROVE  server' = server
    BY <2>1 DEF Pass
  <2>2. ASSUME NEW t \in Tabs, Reload(t)
        PROVE  server' = server
    BY <2>2 DEF Reload
  <2> QED
    BY <1>2, <1>4, <1>5, <1>8, <2>1, <2>2 DEF Mishaps
<1>9. ASSUME NEW t \in Tabs, Poll(t)
      PROVE  server' = server
  BY <1>9 DEF Poll
<1> QED
  BY <1>5, <1>6, <1>7, <1>8, <1>9 DEF RequesterNext

\* A page brings the ciphertext for the key in its link.
LEMMA SubmitCipher ==
  ASSUME PagesInv, NEW p \in Responders, Submit(p) \/ SubmitBadly(p), NEW j \in Ids,
         server'[j].cipher \notin {server[j].cipher, NoKey}
  PROVE  page[p].state = "ready" /\ page[p].link = LinkTo(j, server'[j].cipher)
<1> DEFINE i == page[p].link.id
           k == page[p].key
<1>1. page[p].state = "ready" /\ Checked(page[p])
  BY DEF PagesInv, PageInv, Submit, SubmitBadly, Submittable
<1>2. page[p].link \in Link /\ page[p].link.fp = k /\ i \in Ids /\ k \in Keys
  BY <1>1 DEF Checked, Link
<1>3. DOMAIN server = Ids /\ server[j] \in Record
  BY ServerHas DEF PagesInv
<1>4. \/ server' = server
      \/ server' = [server EXCEPT ![i] = Provided(server[i], k)]
  BY DEF Submit, SubmitBadly
<1>5. j = i /\ server'[i] = Provided(server[i], k)
  BY <1>2, <1>3, <1>4
<1>6. server'[j].cipher = k
  <2>1. [server[j] EXCEPT !.state = "fulfilled", !.cipher = k].cipher = k
    BY <1>3 DEF Record
  <2> QED
    BY <1>5, <2>1 DEF Provided
<1>7. page[p].link = LinkTo(i, k)
  BY <1>2 DEF Link, LinkTo
<1> QED
  BY <1>1, <1>5, <1>6, <1>7

(***************************************************************************)
(* What is stored as the answer was encrypted to the key whose fingerprint *)
(* is in the link that its author opened (ProvideSecret.load).             *)
(***************************************************************************)
THEOREM PagesCipherMatchesLink == Spec => CipherMatchesLink
<1> DEFINE Matching ==
      \A i \in Ids : server'[i].cipher \notin {server[i].cipher, NoKey} =>
        \E p \in Responders : /\ page[p].state = "ready"
                              /\ page[p].link = LinkTo(i, server'[i].cipher)
<1>1. PagesInv /\ [Next]_vars => [Matching]_vars
  <2> SUFFICES ASSUME PagesInv, Next, NEW i \in Ids,
                      server'[i].cipher \notin {server[i].cipher, NoKey}
               PROVE  \E p \in Responders :
                        /\ page[p].state = "ready"
                        /\ page[p].link = LinkTo(i, server'[i].cipher)
    OBVIOUS
  <2>1. CASE RequesterNext
    BY <2>1, RequesterCipher
  <2>2. ASSUME NEW p \in Responders, Submit(p) \/ SubmitBadly(p)
        PROVE  page[p].state = "ready" /\ page[p].link = LinkTo(i, server'[i].cipher)
    BY <2>2, SubmitCipher
  <2>3. CASE \E p \in Responders : Open(p) \/ Load(p) \/ LoadBadly(p)
    BY <2>3 DEF Open, Load, LoadBadly, requester
  <2> QED
    BY <2>1, <2>2, <2>3 DEF Next
<1> QED
  BY <1>1, PagesInvariant, PTL DEF Spec, CipherMatchesLink

------------------------------------------------------------------------------
(***************************************************************************)
(* StatusNeverBackwards.                                                   *)
(***************************************************************************)
\* A status, or what a round has got, tells what stays true of a request: of
\* the server's record of it, of its entry in the store, and of the clock.
Tells(v, rec, e, late) ==
  /\ v = "expired" => late
  /\ v = "collected" => e = Absent \/ e.collected
  /\ v = "revoked" => e = Absent \/ e.revoked \/ rec.state = "gone"
  /\ v \in {"fulfilled", "fresh"} => rec.state # "pending"
Honest(v, i) == Tells(v, server[i], store[i], i \in lapsed)

\* So do the cached answer in the store and an entry shown as revoked.
Remembered(i) ==
  /\ Has(store, i) /\ store[i].fulfilled => server[i].state # "pending"
  /\ \A t \in Tabs : tab[t].shown[i].revoked => ~Has(store, i) \/ store[i].revoked

\* No page and no round has heard of a request before it is stored.
Awaited(i) == server[i].state = "none" \/ \E n \in DOMAIN calls : Creating(n, i)
Unheard(i) ==
  /\ \A t \in Tabs : tab[t].status[i] \in {"loading", "absent"}
  /\ \A n \in DOMAIN rounds : rounds[n].got[i] \in {"loading", "absent"}

\* The refresh that the list of its tab waits for.
Leads(r) == r.kind = "list" /\ r.live /\ r.newest
OneLeads(rs) ==
  \A m, n \in DOMAIN rs :
    Leads(rs[m]) /\ Leads(rs[n]) /\ rs[m].tab = rs[n].tab => m = n

\* What it has got, or may still get, does not go back behind the status v of
\* a request, shown as revoked or not.
Follows(g, v, revoked, rec) ==
  /\ g = "pending" => v \in {"loading", "pending"}
  /\ g \in {"asked", "fulfilled", "fresh"} =>
       v \notin {"expired", "collected"} /\ ~(v = "revoked" /\ revoked)
  /\ g = "asked" /\ rec.state = "pending" => v \in {"loading", "pending"}
Ahead(r, i) ==
  Follows(r.got[i], tab[r.tab].status[i], tab[r.tab].shown[i].revoked, server[i])

StatusAt(i) ==
  /\ \A t \in Tabs : Honest(tab[t].status[i], i)
  /\ \A n \in DOMAIN rounds : Honest(rounds[n].got[i], i)
  /\ Remembered(i)
  /\ Awaited(i) => Unheard(i)
  /\ \A n \in DOMAIN rounds : Leads(rounds[n]) => Ahead(rounds[n], i)

\* An import of an old export may turn everything back.
StatusInv == files = {} => OneLeads(rounds) /\ \A i \in Ids : StatusAt(i)

------------------------------------------------------------------------------
(***************************************************************************)
(* What is settled locally tells what the store says, and a refresh that   *)
(* starts from there is ahead of any status that tells the truth.          *)
(***************************************************************************)
LEMMA LocalMeans ==
  ASSUME NEW i, NEW e \in Entry \union {Absent}
  PROVE  LET g == LocalStatus(e, i)
         IN  /\ g = "collected" => e.collected
             /\ g = "revoked" => e.revoked
             /\ g = "expired" => i \in lapsed
             /\ g \in {"asked", "fulfilled"} =>
                  e # Absent /\ ~e.collected /\ ~e.revoked /\ i \notin lapsed
             /\ g = "fulfilled" => e.fulfilled
             /\ e = Absent <=> g = "absent"
  BY DEF LocalStatus, Absent

LEMMA LocalTells ==
  ASSUME NEW i, NEW e \in Entry \union {Absent}, NEW rec,
         e # Absent /\ e.fulfilled => rec.state # "pending"
  PROVE  Tells(LocalStatus(e, i), rec, e, i \in lapsed)
<1>1. LocalStatus(e, i) # "fresh"
  BY LocalStatusType
<1> QED
  BY <1>1, LocalMeans DEF Tells

LEMMA ShownTells ==
  ASSUME NEW g, NEW rec, NEW e, NEW late, Tells(g, rec, e, late)
  PROVE  Tells(Shown(g), rec, e, late) /\ Tells(Counted(g), rec, e, late)
  BY DEF Shown, Counted, Settled, Tells

LEMMA LocalFollows ==
  ASSUME NEW i, NEW e \in Entry \union {Absent}, NEW rec, NEW v \in Statuses,
         Tells(v, rec, e, i \in lapsed)
  PROVE  Follows(LocalStatus(e, i), v, e.revoked, rec)
<1> DEFINE g == LocalStatus(e, i)
<1>1. g \in {"absent", "collected", "revoked", "expired", "fulfilled", "asked"}
  BY LocalStatusType
<1>2. CASE g \in {"asked", "fulfilled"}
  <2>1. e # Absent /\ ~e.collected /\ ~e.revoked /\ i \notin lapsed
    BY <1>2, LocalMeans
  <2>2. v \notin {"expired", "collected"}
    BY <2>1 DEF Tells
  <2>3. rec.state = "pending" => v \in {"loading", "pending"}
    BY <2>1, <2>2 DEF Tells, Statuses
  <2> QED
    BY <1>2, <2>1, <2>2, <2>3 DEF Follows
<1>3. CASE g \notin {"asked", "fulfilled"}
  BY <1>1, <1>3 DEF Follows
<1> QED
  BY <1>2, <1>3

------------------------------------------------------------------------------
(***************************************************************************)
(* What a step may do to a request on the server and in the store.         *)
(***************************************************************************)
FlagsKept(s, old, i) ==
  Has(s, i) => /\ Has(old, i)
               /\ old[i].collected => s[i].collected
               /\ old[i].revoked => s[i].revoked
Noted(s, i) ==
  Has(s, i) /\ s[i].fulfilled =>
    \/ Has(store, i) /\ store[i].fulfilled
    \/ \E n \in DOMAIN rounds : rounds[n].got[i] = "fresh"

ServerForward(i) ==
  /\ server[i].state = "gone" => server'[i].state = "gone"
  /\ server'[i].state = "pending" => server[i].state \in {"none", "pending"}
StoreForward(s, i) == (Awaited(i) \/ FlagsKept(s, store, i)) /\ Noted(s, i)
Forward(i) ==
  /\ ServerForward(i) /\ StoreForward(store', i)
  /\ Awaited(i)' => Awaited(i)

\* What was told stays true, and what is stored was told.
LEMMA TellsStays ==
  ASSUME NEW i \in Ids, StatusAt(i), Forward(i), ~Awaited(i), lapsed \subseteq lapsed',
         NEW v, Honest(v, i)
  PROVE  Tells(v, server'[i], store'[i], i \in lapsed')
  BY DEF Honest, Tells, Forward, ServerForward, StoreForward, FlagsKept, Awaited, Has

LEMMA FulfilledStays ==
  ASSUME PagesInv, NEW i \in Ids, StatusAt(i), Forward(i),
         Has(store', i), store'[i].fulfilled
  PROVE  server'[i].state # "pending"
<1>1. CASE Awaited(i)
  <2>1. ~Has(store, i)
    BY <1>1 DEF PagesInv, CreateInv, CreateAt, Awaited, Unknown, Hidden
  <2>2. \A n \in DOMAIN rounds : rounds[n].got[i] # "fresh"
    BY <1>1 DEF StatusAt, Unheard
  <2> QED
    BY <2>1, <2>2 DEF Forward, StoreForward, Noted
<1>2. CASE ~Awaited(i)
  <2>1. CASE Has(store, i) /\ store[i].fulfilled
    BY <1>2, <2>1 DEF StatusAt, Remembered, Forward, ServerForward, Awaited
  <2>2. ASSUME NEW n \in DOMAIN rounds, rounds[n].got[i] = "fresh"
        PROVE  server'[i].state # "pending"
    BY <1>2, <2>2 DEF StatusAt, Honest, Tells, Forward, ServerForward, Awaited
  <2> QED
    BY <2>1, <2>2 DEF Forward, StoreForward, Noted
<1> QED
  BY <1>1, <1>2

LEMMA RevokedStays ==
  ASSUME PagesInv, NEW i \in Ids, StatusAt(i), Forward(i), NEW t \in Tabs,
         tab[t].shown[i].revoked
  PROVE  ~Has(store', i) \/ store'[i].revoked
<1>1. CASE Awaited(i)
  <2>1. tab[t].shown[i] = Absent
    BY <1>1 DEF PagesInv, CreateInv, CreateAt, Awaited, Unknown, Hidden, Has
  <2> QED
    BY <2>1 DEF Absent
<1>2. CASE ~Awaited(i)
  BY <1>2 DEF StatusAt, Remembered, Forward, StoreForward, FlagsKept
<1> QED
  BY <1>1, <1>2

------------------------------------------------------------------------------
(***************************************************************************)
(* What a step of tab t may make of the rounds and of the status in that   *)
(* tab, where s is the store it leaves.                                    *)
(***************************************************************************)
\* r is a round that there was, perhaps superseded or left by its page.
Fades(r, old) ==
  /\ r.kind = old.kind /\ r.tab = old.tab /\ r.got = old.got
  /\ (r.live => old.live) /\ (r.newest => old.newest)
Stems(r) == \E n \in DOMAIN rounds : Fades(r, rounds[n])

StatusFrom(v, t, i, s) ==
  \/ v \in {tab[t].status[i], "loading", Shown(LocalStatus(s[i], i))}
  \/ \E n \in DOMAIN rounds : /\ Leads(rounds[n]) /\ rounds[n].tab = t
                              /\ Complete(rounds[n])
                              /\ v = Shown(rounds[n].got[i])

Blank == [i \in Ids |-> Absent]

Reached(rs, q, t, s) ==
  /\ OneLeads(rs)
  /\ \A n \in DOMAIN rs :
       \/ Stems(rs[n]) /\ (Leads(rs[n]) /\ rs[n].tab = t =>
                             q.status = tab[t].status /\ q.shown = tab[t].shown)
       \/ rs[n] = NewRound("badge", t, s)
       \/ rs[n] = NewRound("list", t, s) /\ q.shown = s
  /\ \A i \in Ids : StatusFrom(q.status[i], t, i, s)
  /\ q.shown \in {tab[t].shown, s, Blank}

\* Rounds that fade, or end, leave at most one that leads.
Fading(new, old) ==
  \E e \in [DOMAIN new -> DOMAIN old] :
    /\ \A j \in DOMAIN new : Fades(new[j], old[e[j]])
    /\ \A j, k \in DOMAIN new : e[j] = e[k] => j = k

LEMMA FadingLeads ==
  ASSUME NEW old, OneLeads(old), NEW new, Fading(new, old)
  PROVE  OneLeads(new)
<1>1. PICK e \in [DOMAIN new -> DOMAIN old] :
        /\ \A j \in DOMAIN new : Fades(new[j], old[e[j]])
        /\ \A j, k \in DOMAIN new : e[j] = e[k] => j = k
  BY DEF Fading
<1>2. SUFFICES ASSUME NEW m \in DOMAIN new, NEW n \in DOMAIN new,
                      Leads(new[m]), Leads(new[n]), new[m].tab = new[n].tab
               PROVE  m = n
  BY DEF OneLeads
<1>3. /\ Leads(old[e[m]]) /\ Leads(old[e[n]])
      /\ old[e[m]].tab = old[e[n]].tab
  BY <1>1, <1>2 DEF Leads, Fades
<1>4. e[m] = e[n]
  BY <1>1, <1>3 DEF OneLeads
<1> QED
  BY <1>1, <1>4

LEMMA SelectsFade ==
  ASSUME NEW old, NEW new, NEW I, Selects(new, old, I)
  PROVE  Fading(new, old)
  BY DEF Selects, Picks, Fading, Fades

\* The rounds as they were, and where they only fade.
LEMMA FadedReached ==
  ASSUME OneLeads(rounds), NEW rs, Fading(rs, rounds), NEW t, NEW q, NEW s,
         \A i \in Ids : StatusFrom(q.status[i], t, i, s),
         q.shown \in {tab[t].shown, Blank},
         \/ q.status = tab[t].status /\ q.shown = tab[t].shown
         \/ \A n \in DOMAIN rs : ~(Leads(rs[n]) /\ rs[n].tab = t)
  PROVE  Reached(rs, q, t, s)
<1>1. OneLeads(rs)
  BY FadingLeads
<1>2. \A n \in DOMAIN rs : Stems(rs[n])
  BY DEF Fading, Stems
<1> QED
  BY <1>1, <1>2 DEF Reached

LEMMA SameReached ==
  ASSUME OneLeads(rounds), NEW rs, Fading(rs, rounds) \/ rs = rounds, NEW t,
         NEW q, q.status = tab[t].status, q.shown = tab[t].shown, NEW s
  PROVE  Reached(rs, q, t, s)
<1>1. \A i \in Ids : StatusFrom(q.status[i], t, i, s)
  BY DEF StatusFrom
<1>2. Fading(rounds, rounds)
  <2>1. [n \in DOMAIN rounds |-> n] \in [DOMAIN rounds -> DOMAIN rounds]
    OBVIOUS
  <2> QED
    BY <2>1 DEF Fading, Fades
<1> QED
  BY <1>1, <1>2, FadedReached

------------------------------------------------------------------------------
(***************************************************************************)
(* A poll and a refresh that start leave it so.                            *)
(***************************************************************************)
LEMMA NewRoundIs ==
  ASSUME NEW kind, NEW t, NEW s
  PROVE  /\ NewRound(kind, t, s).kind = kind /\ NewRound(kind, t, s).tab = t
         /\ NewRound(kind, t, s).got = Got(kind, s)
  BY DEF NewRound

LEMMA BadgeReached ==
  ASSUME NEW rs \in Seq(Round), NEW q \in Tab, NEW t \in Tabs, NEW s,
         Reached(rs, q, t, s)
  PROVE  Reached(WithBadge(rs, t, s), BadgeStarted(q, s), t, s)
<1> DEFINE p == BadgeStarted(q, s)
           r == NewRound("badge", t, s)
<1>1. p.status = q.status /\ p.shown = q.shown
  BY DEF BadgeStarted, Tab
<1> HIDE DEF p
<1>2. Reached(rs, p, t, s)
  BY <1>1 DEF Reached
<1>3. CASE Asks(s)
  <2>1. /\ Len(rs) \in Nat /\ DOMAIN rs = 1..Len(rs)
        /\ DOMAIN Append(rs, r) = 1..(Len(rs) + 1)
        /\ \A n \in 1..Len(rs) : Append(rs, r)[n] = rs[n]
        /\ Append(rs, r)[Len(rs) + 1] = r
    BY NewRoundType, AppendProperties, LenProperties
  <2>2. ~Leads(r)
    BY NewRoundIs DEF Leads
  <2> DEFINE new == Append(rs, r)
  <2> HIDE DEF new, r
  <2>3. \A n \in DOMAIN new : (n \in DOMAIN rs /\ new[n] = rs[n]) \/ new[n] = r
    BY <2>1 DEF new
  <2>4. OneLeads(new)
    BY <1>2, <2>2, <2>3 DEF Reached, OneLeads
  <2>5. Reached(new, p, t, s)
    BY <1>2, <2>2, <2>3, <2>4 DEF Reached, r
  <2>6. WithBadge(rs, t, s) = new
    BY <1>3 DEF WithBadge, new, r
  <2> QED
    BY <2>5, <2>6 DEF p
<1>4. CASE ~Asks(s)
  BY <1>2, <1>4 DEF WithBadge, p
<1> QED
  BY <1>3, <1>4

\* After a refresh was superseded none leads in its tab.
LEMMA SupersededFades ==
  ASSUME NEW rs \in Seq(Round), NEW t
  PROVE  /\ DOMAIN Superseded(rs, t) = DOMAIN rs
         /\ \A n \in DOMAIN rs : /\ Fades(Superseded(rs, t)[n], rs[n])
                                 /\ ~(/\ Leads(Superseded(rs, t)[n])
                                      /\ Superseded(rs, t)[n].tab = t)
<1>1. ASSUME NEW n \in DOMAIN rs
      PROVE  /\ Fades(Superseded(rs, t)[n], rs[n])
             /\ ~(Leads(Superseded(rs, t)[n]) /\ Superseded(rs, t)[n].tab = t)
  <2>1. rs[n] \in Round
    BY ElementOfSeq
  <2>2. CASE rs[n].kind = "list" /\ rs[n].tab = t /\ rs[n].live
    <3>1. Superseded(rs, t)[n] = [rs[n] EXCEPT !.newest = FALSE]
      BY <2>2 DEF Superseded
    <3> QED
      BY <2>1, <3>1 DEF Round, Fades, Leads
  <2>3. CASE ~(rs[n].kind = "list" /\ rs[n].tab = t /\ rs[n].live)
    <3>1. Superseded(rs, t)[n] = rs[n]
      BY <2>3 DEF Superseded
    <3> QED
      BY <2>3, <3>1 DEF Fades, Leads
  <2> QED
    BY <2>2, <2>3
<1> QED
  BY <1>1 DEF Superseded

LEMMA ListReached ==
  ASSUME NEW rs \in Seq(Round), NEW q \in Tab, NEW t \in Tabs, NEW s \in Stores,
         Reached(rs, q, t, s), \A n \in DOMAIN rs : Stems(rs[n])
  PROVE  Reached(WithList(rs, t, s), ListStarted(q, s), t, s)
<1> DEFINE p == ListStarted(q, s)
           old == Superseded(rs, t)
           r == NewRound("list", t, s)
<1>1. p.shown = s
  BY ListStartedType
<1>2. \A i \in Ids : StatusFrom(p.status[i], t, i, s)
  <2>1. CASE Asks(s)
    <3>1. p.status = q.status
      BY <2>1 DEF ListStarted, Tab
    <3> QED
      BY <3>1 DEF Reached
  <2>2. CASE ~Asks(s)
    <3>1. p.status = StatusesOf(Got("list", s))
      BY <2>2 DEF ListStarted, Tab
    <3>2. \A i \in Ids : p.status[i] = Shown(LocalStatus(s[i], i))
      BY <3>1 DEF StatusesOf, Got
    <3> QED
      BY <3>2 DEF StatusFrom
  <2> QED
    BY <2>1, <2>2
<1>3. /\ old \in Seq(Round) /\ DOMAIN old = DOMAIN rs
      /\ \A n \in DOMAIN rs : /\ Fades(old[n], rs[n])
                              /\ ~(Leads(old[n]) /\ old[n].tab = t)
  BY SupersededType, SupersededFades
<1> HIDE DEF p
<1>4. \A n \in DOMAIN old : ~(Leads(old[n]) /\ old[n].tab = t)
  BY <1>3
<1>5. \A n \in DOMAIN old : Stems(old[n])
  BY <1>3 DEF Stems, Fades
<1>6. OneLeads(old)
  BY <1>3 DEF Reached, OneLeads, Fades, Leads
<1>7. CASE Asks(s)
  <2>1. /\ Len(old) \in Nat /\ DOMAIN old = 1..Len(old)
        /\ DOMAIN Append(old, r) = 1..(Len(old) + 1)
        /\ \A n \in 1..Len(old) : Append(old, r)[n] = old[n]
        /\ Append(old, r)[Len(old) + 1] = r
    BY <1>3, NewRoundType, AppendProperties, LenProperties
  <2>2. r.tab = t
    BY NewRoundIs
  <2> DEFINE new == Append(old, r)
  <2> HIDE DEF old, r
  <2>3. /\ \A n \in 1..Len(old) : n \in DOMAIN old /\ new[n] = old[n]
        /\ new[Len(old) + 1] = r
        /\ \A n \in DOMAIN new : n \in 1..Len(old) \/ n = Len(old) + 1
    BY <2>1
  <2> HIDE DEF new
  <2>4. OneLeads(new)
    BY <1>4, <1>6, <2>2, <2>3 DEF OneLeads
  <2>5. \A n \in DOMAIN new : \/ Stems(new[n]) /\ ~(Leads(new[n]) /\ new[n].tab = t)
                             \/ new[n] = r
    BY <1>4, <1>5, <2>3
  <2>6. Reached(new, p, t, s)
    BY <1>1, <1>2, <2>4, <2>5 DEF Reached, r
  <2>7. WithList(rs, t, s) = new
    BY <1>7 DEF WithList, new, r, old
  <2> QED
    BY <2>6, <2>7 DEF p
<1>8. CASE ~Asks(s)
  <2>1. WithList(rs, t, s) = old
    BY <1>8 DEF WithList
  <2> HIDE DEF old
  <2>2. Reached(old, p, t, s)
    BY <1>1, <1>2, <1>4, <1>5, <1>6 DEF Reached
  <2> QED
    BY <2>1, <2>2 DEF p
<1> QED
  BY <1>7, <1>8

\* What a write announces.
LEMMA AnnouncedReached ==
  ASSUME NEW rs \in Seq(Round), NEW q \in Tab, NEW t \in Tabs, NEW s \in Stores,
         Reached(rs, q, t, s), \A n \in DOMAIN rs : Stems(rs[n]),
         NEW p, p.page = q.page
  PROVE  Reached(Announced(rs, t, p, s), Hears(q, s), t, s)
<1>1. CASE q.page = "list"
  <2>1. Reached(WithList(rs, t, s), ListStarted(q, s), t, s)
    BY ListReached
  <2>2. WithList(rs, t, s) \in Seq(Round) /\ ListStarted(q, s) \in Tab
    BY AnnouncedType, ListStartedType
  <2>3. Reached(WithBadge(WithList(rs, t, s), t, s),
                BadgeStarted(ListStarted(q, s), s), t, s)
    BY <2>1, <2>2, BadgeReached
  <2> QED
    BY <1>1, <2>3 DEF Announced, Hears
<1>2. CASE q.page # "list"
  BY <1>2, BadgeReached DEF Announced, Hears
<1> QED
  BY <1>1, <1>2

------------------------------------------------------------------------------
(***************************************************************************)
(* A step of one tab: everything told afterwards was told before, or is    *)
(* what the store says.                                                    *)
(***************************************************************************)
Turn(t) ==
  /\ Reached(rounds', tab'[t], t, store')
  /\ \A u \in Tabs : u # t => /\ tab'[u].status = tab[u].status
                              /\ tab'[u].shown = tab[u].shown
  /\ lapsed' = lapsed

Told(v, i) ==
  \/ v \in {"loading", "absent"}
  \/ \E u \in Tabs : v = tab[u].status[i]
  \/ \E n \in DOMAIN rounds : v \in {rounds[n].got[i], Shown(rounds[n].got[i])}

LEMMA ToldStays ==
  ASSUME NEW i \in Ids, StatusAt(i), Forward(i), lapsed \subseteq lapsed',
         NEW v, Told(v, i)
  PROVE  /\ Tells(v, server'[i], store'[i], i \in lapsed')
         /\ Awaited(i) => v \in {"loading", "absent"}
<1>1. CASE v \in {"loading", "absent"}
  BY <1>1 DEF Tells
<1>2. CASE v \notin {"loading", "absent"}
  <2>1. Shown("absent") = "loading" /\ Shown("loading") = "loading"
    BY DEF Shown
  <2>2. ~Awaited(i)
    BY <1>2, <2>1 DEF StatusAt, Unheard, Told
  <2>3. Honest(v, i)
    <3>1. CASE \E u \in Tabs : v = tab[u].status[i]
      BY <3>1 DEF StatusAt
    <3>2. ASSUME NEW n \in DOMAIN rounds,
                 v \in {rounds[n].got[i], Shown(rounds[n].got[i])}
          PROVE  Honest(v, i)
      <4>1. Tells(rounds[n].got[i], server[i], store[i], i \in lapsed)
        BY DEF StatusAt, Honest
      <4>2. Tells(Shown(rounds[n].got[i]), server[i], store[i], i \in lapsed)
        BY <4>1, ShownTells
      <4> QED
        BY <3>2, <4>1, <4>2 DEF Honest
    <3> QED
      BY <1>2, <3>1, <3>2 DEF Told
  <2> QED
    BY <2>2, <2>3, TellsStays
<1> QED
  BY <1>1, <1>2

\* What the store says after the step.
LEMMA LocalStays ==
  ASSUME PagesInv, PagesInv', NEW i \in Ids, StatusAt(i), Forward(i), lapsed' = lapsed,
         NEW v, LET g == LocalStatus(store'[i], i)
                IN  v \in {g, Counted(g), Shown(g)}
  PROVE  /\ Tells(v, server'[i], store'[i], i \in lapsed')
         /\ Awaited(i)' => v \in {"loading", "absent"}
<1> DEFINE g == LocalStatus(store'[i], i)
<1>1. store'[i] \in Entry \union {Absent}
  BY DEF PagesInv, TypeInv
<1>2. Tells(g, server'[i], store'[i], i \in lapsed)
  BY <1>1, FulfilledStays, LocalTells DEF Has
<1>3. Awaited(i)' => g = "absent"
  <2>1. Awaited(i)' => store'[i] = Absent
    BY DEF PagesInv, CreateInv, CreateAt, Awaited, Unknown, Hidden, Has
  <2> QED
    BY <1>1, <2>1, LocalMeans
<1> HIDE DEF g
<1>4. Shown("absent") = "loading" /\ Counted("absent") = "absent"
  BY DEF Shown, Counted, Settled
<1>5. Tells(v, server'[i], store'[i], i \in lapsed)
  BY <1>2, ShownTells DEF g
<1> QED
  BY <1>3, <1>4, <1>5 DEF g

LEMMA TurnTold ==
  ASSUME PagesInv, PagesInv', OneLeads(rounds), NEW t \in Tabs, Turn(t),
         NEW i \in Ids, StatusAt(i), Forward(i)
  PROVE  /\ \A u \in Tabs :
              /\ Tells(tab'[u].status[i], server'[i], store'[i], i \in lapsed')
              /\ Awaited(i)' => tab'[u].status[i] \in {"loading", "absent"}
         /\ \A n \in DOMAIN rounds' :
              /\ Tells(rounds'[n].got[i], server'[i], store'[i], i \in lapsed')
              /\ Awaited(i)' => rounds'[n].got[i] \in {"loading", "absent"}
<1> DEFINE g == LocalStatus(store'[i], i)
           Fine(v) == /\ Tells(v, server'[i], store'[i], i \in lapsed')
                      /\ Awaited(i)' => v \in {"loading", "absent"}
<1>1. lapsed' = lapsed /\ (Awaited(i)' => Awaited(i))
  BY DEF Turn, Forward
<1>2. \A v : Told(v, i) => Fine(v)
  BY <1>1, ToldStays
<1>3. Fine(g) /\ Fine(Counted(g)) /\ Fine(Shown(g))
  BY <1>1, LocalStays
<1> HIDE DEF Fine
<1>4. ASSUME NEW u \in Tabs
      PROVE  Fine(tab'[u].status[i])
  <2>1. CASE u # t
    BY <1>2, <2>1 DEF Turn, Told
  <2>2. CASE u = t
    <3>1. StatusFrom(tab'[t].status[i], t, i, store')
      BY DEF Turn, Reached
    <3>2. Told(tab'[t].status[i], i) \/ tab'[t].status[i] = Shown(g)
      BY <3>1 DEF StatusFrom, Told
    <3> QED
      BY <1>2, <1>3, <2>2, <3>2
  <2> QED
    BY <2>1, <2>2
<1>5. ASSUME NEW n \in DOMAIN rounds'
      PROVE  Fine(rounds'[n].got[i])
  <2>1. CASE Stems(rounds'[n])
    BY <1>2, <2>1 DEF Stems, Fades, Told
  <2>2. ASSUME NEW kind, rounds'[n] = NewRound(kind, t, store')
        PROVE  Fine(rounds'[n].got[i])
    <3>1. rounds'[n].got = Got(kind, store')
      BY <2>2, NewRoundIs
    <3>2. rounds'[n].got[i] \in {g, Counted(g)}
      BY <3>1 DEF Got
    <3> QED
      BY <1>3, <3>2
  <2> QED
    BY <2>1, <2>2 DEF Turn, Reached
<1> QED
  BY <1>1, <1>4, <1>5 DEF Fine

\* The leading refresh stays ahead of the status it will replace, or started
\* from the store as it is now.
LEMMA AheadStays ==
  ASSUME NEW i \in Ids, StatusAt(i), Forward(i), NEW g, NEW v, NEW revoked,
         Follows(g, v, revoked, server[i]),
         Awaited(i) => g \in {"loading", "absent"}
  PROVE  Follows(g, v, revoked, server'[i])
  BY DEF Follows, Forward, ServerForward, Awaited

LEMMA TurnAhead ==
  ASSUME PagesInv, PagesInv', OneLeads(rounds), NEW t \in Tabs, Turn(t),
         NEW i \in Ids, StatusAt(i), Forward(i), NEW n \in DOMAIN rounds',
         Leads(rounds'[n])
  PROVE  Ahead(rounds[n], i)'
<1> DEFINE r == rounds'[n]
           u == r.tab
<1>1. /\ r \in Round /\ u \in Tabs
      /\ tab'[u] \in Tab /\ tab'[u].status[i] \in Statuses
  <2>1. rounds' \in Seq(Round) /\ tab' \in [Tabs -> Tab]
    BY DEF PagesInv, TypeInv
  <2>2. r \in Round
    BY <2>1, ElementOfSeq
  <2> QED
    BY <2>1, <2>2 DEF Round, Tab
<1>2. SUFFICES Follows(r.got[i], tab'[u].status[i], tab'[u].shown[i].revoked, server'[i])
  BY DEF Ahead
<1> HIDE DEF r, u
<1>3. CASE /\ Stems(r)
           /\ tab'[u].status = tab[u].status /\ tab'[u].shown = tab[u].shown
  <2>1. PICK m \in DOMAIN rounds : Fades(r, rounds[m])
    BY <1>3 DEF Stems
  <2>2. Leads(rounds[m]) /\ rounds[m].tab = u /\ rounds[m].got = r.got
    BY <2>1 DEF Fades, Leads, r, u
  <2>3. Follows(r.got[i], tab[u].status[i], tab[u].shown[i].revoked, server[i])
    BY <2>2 DEF StatusAt, Ahead
  <2>4. Awaited(i) => r.got[i] \in {"loading", "absent"}
    BY <2>2 DEF StatusAt, Unheard
  <2>5. Follows(r.got[i], tab[u].status[i], tab[u].shown[i].revoked, server'[i])
    BY <2>3, <2>4, AheadStays
  <2> QED
    BY <1>3, <2>5
<1>4. CASE r = NewRound("list", t, store') /\ tab'[t].shown = store'
  <2>1. u = t /\ r.got[i] = LocalStatus(store'[i], i)
    <3>1. r.tab = t /\ r.got = Got("list", store')
      BY <1>4, NewRoundIs
    <3> QED
      BY <3>1 DEF u, Got
  <2>2. store'[i] \in Entry \union {Absent}
    BY DEF PagesInv, TypeInv
  <2>3. lapsed' = lapsed
    BY DEF Turn
  <2>4. Tells(tab'[u].status[i], server'[i], store'[i], i \in lapsed)
    BY <1>1, <2>3, TurnTold
  <2>5. Follows(LocalStatus(store'[i], i), tab'[u].status[i], store'[i].revoked, server'[i])
    BY <1>1, <2>2, <2>4, LocalFollows
  <2> QED
    BY <1>4, <2>1, <2>5
<1>5. r # NewRound("badge", t, store')
  BY NewRoundIs DEF Leads, r
<1>6. CASE u = t
  BY <1>3, <1>4, <1>5, <1>6 DEF Turn, Reached, r, u
<1>7. CASE u # t
  <2>1. Stems(r)
    BY <1>5, <1>7, NewRoundIs DEF Turn, Reached, r, u
  <2> QED
    BY <1>1, <1>3, <1>7, <2>1 DEF Turn
<1> QED
  BY <1>6, <1>7

LEMMA TurnRemembered ==
  ASSUME PagesInv, PagesInv', NEW t \in Tabs, Turn(t),
         NEW i \in Ids, StatusAt(i), Forward(i)
  PROVE  Remembered(i)'
<1>1. ASSUME NEW u \in Tabs, tab'[u].shown[i].revoked
      PROVE  ~Has(store', i) \/ store'[i].revoked
  <2>1. tab'[u].shown \in {tab[u].shown, store', Blank}
    BY DEF Turn, Reached
  <2>2. CASE tab'[u].shown = tab[u].shown
    BY <1>1, <2>2, RevokedStays
  <2>3. CASE tab'[u].shown = store'
    BY <1>1, <2>3
  <2>4. CASE tab'[u].shown = Blank
    BY <1>1, <2>4 DEF Blank, Absent
  <2> QED
    BY <2>1, <2>2, <2>3, <2>4
<1> QED
  BY <1>1, FulfilledStays DEF Remembered

\* What replaces a status does not go back behind it.
LEMMA TurnOnward ==
  ASSUME PagesInv, PagesInv', NEW t \in Tabs, Turn(t),
         NEW i \in Ids, StatusAt(i), Forward(i), NEW u \in Tabs
  PROVE  ~Backwards(u, i, tab[u].status[i], tab'[u].status[i])
<1> DEFINE old == tab[u].status[i]
           new == tab'[u].status[i]
<1> HIDE DEF old, new
<1>1. SUFFICES ~Backwards(u, i, old, new)
  BY DEF old, new
<1>2. CASE new \in {old, "loading"}
  BY <1>2 DEF Backwards, Settled
<1>3. CASE new = Shown(LocalStatus(store'[i], i))
  <2>1. store'[i] \in Entry \union {Absent}
    BY DEF PagesInv, TypeInv
  <2>2. new # "pending"
    BY <1>3, LocalStatusType DEF Shown
  <2>3. ASSUME new = "fulfilled"
        PROVE  old \notin {"expired", "collected"} /\ ~tab[u].shown[i].revoked
    <3>1. LocalStatus(store'[i], i) = "fulfilled"
      BY <1>3, <2>3, LocalStatusType DEF Shown
    <3>2. Has(store', i) /\ ~store'[i].collected /\ ~store'[i].revoked /\ i \notin lapsed
      BY <2>1, <3>1, LocalMeans DEF Has
    <3>3. ~tab[u].shown[i].revoked
      BY <3>2, RevokedStays
    <3>4. Told(old, i) /\ lapsed' = lapsed
      BY DEF Told, old, Turn
    <3>5. Tells(old, server'[i], store'[i], i \in lapsed)
      BY <3>4, ToldStays
    <3> QED
      BY <3>2, <3>3, <3>5 DEF Tells, Has
  <2> QED
    BY <2>2, <2>3 DEF Backwards
<1>4. ASSUME NEW n \in DOMAIN rounds, Leads(rounds[n]), rounds[n].tab = u,
             Complete(rounds[n]), new = Shown(rounds[n].got[i])
      PROVE  ~Backwards(u, i, old, new)
  <2>1. Follows(rounds[n].got[i], old, tab[u].shown[i].revoked, server[i])
    BY <1>4 DEF StatusAt, Ahead, old
  <2>2. rounds[n].got[i] # "asked"
    BY <1>4 DEF Complete
  <2> HIDE DEF Leads
  <2> QED
    BY <1>4, <2>1, <2>2 DEF Shown, Follows, Backwards, Settled
<1>5. CASE u # t
  BY <1>2, <1>5 DEF Turn, old, new
<1>6. CASE u = t
  <2>1. StatusFrom(new, u, i, store')
    BY <1>6 DEF Turn, Reached, new
  <2> QED
    BY <1>2, <1>3, <1>4, <2>1 DEF StatusFrom, old
<1> QED
  BY <1>5, <1>6

\* Nothing goes back.
Onward == \A t \in Tabs, i \in Ids :
            files = {} => ~Backwards(t, i, tab[t].status[i], tab'[t].status[i])

LEMMA TurnStep ==
  ASSUME PagesInv, PagesInv', StatusInv, files = {}, NEW t \in Tabs, Turn(t),
         \A i \in Ids : Forward(i)
  PROVE  StatusInv' /\ Onward
<1>1. OneLeads(rounds) /\ \A i \in Ids : StatusAt(i)
  BY DEF StatusInv
<1>2. OneLeads(rounds)'
  BY DEF Turn, Reached, OneLeads, Leads
<1>3. ASSUME NEW i \in Ids
      PROVE  StatusAt(i)'
  <2>1. StatusAt(i) /\ Forward(i)
    BY <1>1
  <2>2. /\ \A u \in Tabs :
             /\ Tells(tab'[u].status[i], server'[i], store'[i], i \in lapsed')
             /\ Awaited(i)' => tab'[u].status[i] \in {"loading", "absent"}
        /\ \A n \in DOMAIN rounds' :
             /\ Tells(rounds'[n].got[i], server'[i], store'[i], i \in lapsed')
             /\ Awaited(i)' => rounds'[n].got[i] \in {"loading", "absent"}
    BY <1>1, <2>1, TurnTold
  <2>3. Remembered(i)'
    BY <2>1, TurnRemembered
  <2>4. \A n \in DOMAIN rounds' : Leads(rounds'[n]) => Ahead(rounds[n], i)'
    BY <1>1, <2>1, TurnAhead
  <2>5. Awaited(i)' => Unheard(i)'
    BY <2>2 DEF Unheard
  <2>6. /\ \A u \in Tabs : Honest(tab[u].status[i], i)'
        /\ \A n \in DOMAIN rounds' : Honest(rounds[n].got[i], i)'
    BY <2>2 DEF Honest
  <2> QED
    BY <2>3, <2>4, <2>5, <2>6 DEF StatusAt
<1>4. Onward
  BY <1>1, TurnOnward DEF Onward
<1> QED
  BY <1>2, <1>3, <1>4 DEF StatusInv

------------------------------------------------------------------------------
(***************************************************************************)
(* What the operations of the store do to the cached states.               *)
(***************************************************************************)
\* Entries go, or are patched, but no answer is noted.
KeepsFlags(s, old) ==
  \A i \in Ids : Has(s, i) => /\ Has(old, i)
                              /\ old[i].collected => s[i].collected
                              /\ old[i].revoked => s[i].revoked
                              /\ s[i].fulfilled => old[i].fulfilled

LEMMA KeptForward ==
  ASSUME NEW s, KeepsFlags(s, store), NEW i \in Ids
  PROVE  StoreForward(s, i)
  BY DEF KeepsFlags, StoreForward, FlagsKept, Noted

LEMMA FlagsSame == KeepsFlags(store, store)
  BY DEF KeepsFlags

LEMMA FlagsUpdated ==
  ASSUME NEW s \in Stores, NEW i \in Ids, NEW k
  PROVE  /\ KeepsFlags(UpdateCollected(s, i), s)
         /\ KeepsFlags(UpdateRevoked(s, i), s)
         /\ KeepsFlags(UpdateKey(s, i, k), s)
<1>1. CASE ~Has(s, i)
  BY <1>1 DEF UpdateCollected, UpdateRevoked, UpdateKey, KeepsFlags
<1>2. CASE Has(s, i)
  <2> DEFINE x == [s[i] EXCEPT !.collected = TRUE]
             y == [s[i] EXCEPT !.revoked = TRUE]
             z == [s[i] EXCEPT !.key = k]
  <2>1. s[i] \in Entry
    BY <1>2, HasEntry
  <2>2. /\ x.collected /\ x.revoked = s[i].revoked /\ x.fulfilled = s[i].fulfilled
        /\ y.revoked /\ y.collected = s[i].collected /\ y.fulfilled = s[i].fulfilled
        /\ z.collected = s[i].collected /\ z.revoked = s[i].revoked
        /\ z.fulfilled = s[i].fulfilled
    BY <2>1 DEF Entry
  <2>3. /\ UpdateCollected(s, i) = [s EXCEPT ![i] = x]
        /\ UpdateRevoked(s, i) = [s EXCEPT ![i] = y]
        /\ UpdateKey(s, i, k) = [s EXCEPT ![i] = z]
    BY <1>2 DEF UpdateCollected, UpdateRevoked, UpdateKey, Stores
  <2> HIDE DEF x, y, z
  <2>4. KeepsFlags([s EXCEPT ![i] = x], s)
    BY <1>2, <2>2 DEF Stores, KeepsFlags, Has
  <2>5. KeepsFlags([s EXCEPT ![i] = y], s)
    BY <1>2, <2>2 DEF Stores, KeepsFlags, Has
  <2>6. KeepsFlags([s EXCEPT ![i] = z], s)
    BY <1>2, <2>2 DEF Stores, KeepsFlags, Has
  <2> QED
    BY <2>3, <2>4, <2>5, <2>6
<1> QED
  BY <1>1, <1>2

LEMMA FlagsRemoved ==
  ASSUME NEW s \in Stores, NEW I
  PROVE  /\ KeepsFlags(RemoveStored(s, I), s)
         /\ KeepsFlags(ClearAll(s), s) /\ KeepsFlags(ClearCollected(s), s)
<1>1. \A J : KeepsFlags(RemoveStored(s, J), s)
  BY DEF RemoveStored, Stores, KeepsFlags, Has
<1> QED
  BY <1>1 DEF ClearAll, ClearCollected

\* A round that ends notes what it found to be provided.
LEMMA MarkedForward ==
  ASSUME TypeInv, NEW n \in DOMAIN rounds, NEW i \in Ids
  PROVE  StoreForward(Marked(n), i)
<1> DEFINE s == Marked(n)
<1>1. CASE i \in Fresh(rounds[n]) /\ Has(store, i)
  <2>1. s[i] = [store[i] EXCEPT !.fulfilled = TRUE]
    BY <1>1 DEF Marked, MarkFulfilled
  <2>2. store[i] \in Entry
    BY <1>1, HasEntry DEF TypeInv, Stores
  <2>3. s[i].collected = store[i].collected /\ s[i].revoked = store[i].revoked
    BY <2>1, <2>2 DEF Entry
  <2> QED
    BY <1>1, <2>3 DEF StoreForward, FlagsKept, Noted, Fresh
<1>2. CASE ~(i \in Fresh(rounds[n]) /\ Has(store, i))
  <2>1. s[i] = store[i]
    BY <1>2 DEF Marked, MarkFulfilled
  <2> QED
    BY <2>1 DEF StoreForward, FlagsKept, Noted, Has
<1> QED
  BY <1>1, <1>2

\* A request is stored by the handler that created it.
LEMMA SavedForward ==
  ASSUME TypeInv, NEW n \in DOMAIN calls, NEW j \in Ids, Creating(n, j),
         NEW k, NEW i \in Ids
  PROVE  StoreForward(SaveStored(store, j, NewEntry(k)), i)
<1> DEFINE s == SaveStored(store, j, NewEntry(k))
<1>1. CASE i = j
  <2>1. s[i] = NewEntry(k) /\ ~NewEntry(k).fulfilled
    BY <1>1 DEF SaveStored, TypeInv, NewEntry, Absent
  <2> QED
    BY <1>1, <2>1 DEF StoreForward, Awaited, Noted
<1>2. CASE i # j
  <2>1. s[i] = store[i]
    BY <1>2 DEF SaveStored, TypeInv
  <2> QED
    BY <2>1 DEF StoreForward, FlagsKept, Noted, Has
<1> QED
  BY <1>1, <1>2

------------------------------------------------------------------------------
(***************************************************************************)
(* Steps that leave the server alone, and in which handlers at most end.   *)
(***************************************************************************)
LEMMA ThinForward ==
  ASSUME server' = server, NEW I, Thins(calls', calls, I),
         NEW i \in Ids, StoreForward(store', i)
  PROVE  Forward(i)
<1>1. \A n \in DOMAIN calls' :
        \E m \in DOMAIN calls : calls'[n].op = calls[m].op /\ calls'[n].all = calls[m].all
  BY DEF Thins, Renumbers, Same
<1>2. Awaited(i)' => Awaited(i)
  BY <1>1 DEF Awaited, Creating
<1> QED
  BY <1>2 DEF Forward, ServerForward

LEMMA KeepingForward ==
  ASSUME NEW I, Quiet(I), KeepsFlags(store', store)
  PROVE  \A i \in Ids : Forward(i)
  BY KeptForward, ThinForward DEF Quiet

\* The tab only opens or closes something over the list, or writes as well.
SameList(q, t) ==
  q \in Tab /\ q.status = tab[t].status /\ q.shown = tab[t].shown

LEMMA SameLists ==
  ASSUME TypeInv, NEW t \in Tabs
  PROVE  /\ SameList(tab[t], t)
         /\ SameList([tab[t] EXCEPT !.dialog = NoDialog], t)
         /\ SameList([tab[t] EXCEPT !.revealed = NoSecret], t)
         /\ SameList([tab[t] EXCEPT !.busy = "none"], t)
         /\ [tab[t] EXCEPT !.dialog = NoDialog].page = tab[t].page
         /\ [tab[t] EXCEPT !.busy = "none"].page = tab[t].page
<1>1. tab[t] \in Tab
  BY DEF TypeInv
<1>2. [tab[t] EXCEPT !.dialog = NoDialog] \in Tab
  BY TabHas
<1>3. [tab[t] EXCEPT !.revealed = NoSecret] \in Tab
  BY TabHas
<1>4. [tab[t] EXCEPT !.busy = "none"] \in Tab
  BY TabHas
<1> QED
  BY <1>1, <1>2, <1>3, <1>4 DEF SameList, Tab

LEMMA FreeSame ==
  ASSUME TypeInv, NEW n \in DOMAIN calls
  PROVE  calls[n].tab \in Tabs /\ SameList(Free(calls[n].tab, n), calls[n].tab)
<1>1. calls[n].tab \in Tabs
  BY HandlerHas
<1> QED
  BY <1>1, SameLists DEF Free

LEMMA PlainTurn ==
  ASSUME TypeInv, OneLeads(rounds), NEW t \in Tabs, NEW q, SameList(q, t),
         tab' = [tab EXCEPT ![t] = q], rounds' = rounds, lapsed' = lapsed
  PROVE  Turn(t)
<1>1. tab'[t] = q /\ \A u \in Tabs : u # t => tab'[u] = tab[u]
  BY DEF TypeInv
<1>2. Reached(rounds, q, t, store')
  BY SameReached DEF SameList
<1> QED
  BY <1>1, <1>2 DEF Turn

\* Each round stems from itself.
LEMMA OldStem ==
  ASSUME NEW rs, rs = rounds \/ Fading(rs, rounds)
  PROVE  \A n \in DOMAIN rs : Stems(rs[n])
  BY DEF Stems, Fades, Fading

LEMMA WriteTurn ==
  ASSUME TypeInv, OneLeads(rounds), NEW t \in Tabs, NEW q, SameList(q, t),
         NEW s \in Stores, Write(t, q, s), lapsed' = lapsed
  PROVE  Turn(t)
<1>1. q \in Tab /\ rounds \in Seq(Round)
  BY DEF SameList, TypeInv
<1>2. Reached(rounds, q, t, s)
  BY SameReached DEF SameList
<1>3. Reached(Announced(rounds, t, q, s), Hears(q, s), t, s)
  BY <1>1, <1>2, OldStem, AnnouncedReached
<1>4. store' = s /\ rounds' = Announced(rounds, t, q, s)
  BY DEF Write
<1>5. tab'[t] = Hears(q, s) /\ \A u \in Tabs : u # t => tab'[u] = tab[u]
  BY DEF Write, TypeInv
<1> QED
  BY <1>3, <1>4, <1>5 DEF Turn

------------------------------------------------------------------------------
(***************************************************************************)
(* Each action that lists or polls something is such a turn.               *)
(***************************************************************************)
Turns == (\E t \in Tabs : Turn(t)) /\ \A i \in Ids : Forward(i)

LEMMA NavigateTurn ==
  ASSUME PagesInv, OneLeads(rounds), UNCHANGED page, NEW t \in Tabs,
         NEW p \in {"create", "list"}, Navigate(t, p)
  PROVE  Turns
<1> DEFINE q == [FreshTab(p) EXCEPT !.badge = tab[t].badge]
           left == [n \in DOMAIN rounds |->
                      IF rounds[n].tab = t THEN [rounds[n] EXCEPT !.live = FALSE]
                                           ELSE rounds[n]]
<1>1. TypeInv /\ store \in Stores
  BY DEF PagesInv, TypeInv, Stores
<1>2. /\ tab' = [tab EXCEPT ![t] = Hears(q, store)]
      /\ rounds' = Announced(left, t, q, store)
      /\ store' = store /\ lapsed' = lapsed
  BY DEF Navigate
<1>3. /\ q \in Tab /\ \A i \in Ids : q.status[i] = "loading"
      /\ q.shown = Blank
  <2>1. FreshTab(p) \in Tab
    BY FreshTabType
  <2>2. tab[t].badge \in 0..Cardinality(Ids)
    BY <1>1, TabHas DEF Tab
  <2>3. q \in Tab
    BY <2>1, <2>2 DEF Tab
  <2> QED
    BY <2>3 DEF FreshTab, Blank
<1>4. left \in Seq(Round)
  BY <1>1, LeftType DEF TypeInv
<1>5. \A n \in DOMAIN rounds : /\ Fades(left[n], rounds[n])
                               /\ ~(Leads(left[n]) /\ left[n].tab = t)
  <2> TAKE n \in DOMAIN rounds
  <2>1. rounds[n] \in Round
    BY <1>1, ElementOfSeq DEF TypeInv
  <2>2. CASE rounds[n].tab = t
    <3>1. left[n] = [rounds[n] EXCEPT !.live = FALSE]
      BY <2>2
    <3> HIDE DEF left
    <3> QED
      BY <2>1, <3>1 DEF Round, Fades, Leads
  <2>3. CASE rounds[n].tab # t
    <3>1. left[n] = rounds[n]
      BY <2>3
    <3> HIDE DEF left
    <3> QED
      BY <2>3, <3>1 DEF Fades
  <2> QED
    BY <2>2, <2>3
<1>6. DOMAIN left = DOMAIN rounds
  OBVIOUS
<1> HIDE DEF left, q
<1>7. Fading(left, rounds)
  <2> DEFINE e == [n \in DOMAIN left |-> n]
  <2>1. /\ e \in [DOMAIN left -> DOMAIN rounds]
        /\ \A j \in DOMAIN left : Fades(left[j], rounds[e[j]])
        /\ \A j, k \in DOMAIN left : e[j] = e[k] => j = k
    BY <1>5, <1>6
  <2> HIDE DEF e
  <2> QED
    BY <2>1 DEF Fading
<1>8. \A i \in Ids : StatusFrom(q.status[i], t, i, store)
  BY <1>3 DEF StatusFrom
<1>9. Reached(left, q, t, store)
  BY <1>3, <1>5, <1>6, <1>7, <1>8, FadedReached
<1>10. Reached(rounds', Hears(q, store), t, store)
  BY <1>1, <1>2, <1>3, <1>4, <1>7, <1>9, OldStem, AnnouncedReached
<1>11. tab'[t] = Hears(q, store) /\ \A u \in Tabs : u # t => tab'[u] = tab[u]
  BY <1>1, <1>2 DEF TypeInv
<1>12. Turn(t)
  BY <1>2, <1>10, <1>11 DEF Turn
<1>13. Quiet(DOMAIN calls)
  BY <1>1, NavigateStep
<1> QED
  BY <1>2, <1>12, <1>13, FlagsSame, KeepingForward DEF Turns

LEMMA PollTurn ==
  ASSUME PagesInv, OneLeads(rounds), UNCHANGED page, NEW t \in Tabs, Poll(t)
  PROVE  Turns
<1>1. TypeInv /\ rounds \in Seq(Round) /\ tab[t] \in Tab
  BY DEF PagesInv, TypeInv
<1>2. /\ tab' = [tab EXCEPT ![t] = BadgeStarted(tab[t], store)]
      /\ rounds' = WithBadge(rounds, t, store)
      /\ store' = store /\ lapsed' = lapsed
  BY DEF Poll
<1>3. Reached(rounds, tab[t], t, store)
  BY SameReached
<1>4. Reached(rounds', BadgeStarted(tab[t], store), t, store)
  BY <1>1, <1>2, <1>3, BadgeReached
<1>5. /\ tab'[t] = BadgeStarted(tab[t], store)
      /\ \A u \in Tabs : u # t => tab'[u] = tab[u]
  BY <1>1, <1>2 DEF TypeInv
<1>6. Turn(t)
  BY <1>2, <1>4, <1>5 DEF Turn
<1>7. Quiet(DOMAIN calls)
  BY <1>1, PollStep
<1> QED
  BY <1>2, <1>6, <1>7, FlagsSame, KeepingForward DEF Turns

\* At the end of a round: q is what the tab shows, were nothing announced.
LEMMA MarkReached ==
  ASSUME PagesInv, OneLeads(rounds), NEW n \in DOMAIN rounds, Mark(n),
         NEW q \in Tab, q.page = tab[rounds[n].tab].page,
         Reached(RemoveAt(rounds, n), q, rounds[n].tab, store')
  PROVE  /\ Reached(rounds', MarkHears(n, q), rounds[n].tab, store')
         /\ MarkHears(n, q) \in Tab
         /\ \A i \in Ids : StoreForward(store', i)
<1> DEFINE t == rounds[n].tab
           rest == RemoveAt(rounds, n)
<1>1. TypeInv /\ rounds \in Seq(Round)
  BY DEF PagesInv, TypeInv
<1>2. rounds[n] \in Round /\ t \in Tabs
  <2>1. rounds[n] \in Round
    BY <1>1, ElementOfSeq
  <2> QED
    BY <2>1 DEF Round
<1>3. rest \in Seq(Round) /\ \A m \in DOMAIN rest : Stems(rest[m])
  <2>1. Selects(rest, rounds, DOMAIN rounds \ {n})
    BY <1>1, RemovedSelects
  <2>2. Fading(rest, rounds)
    BY <2>1, SelectsFade
  <2> QED
    BY <1>1, <2>2, RemovedType, OldStem
<1>4. MarkHears(n, q) \in Tab /\ store' \in Stores
  BY <1>1, Marking
<1> HIDE DEF rest, t
<1>5. CASE Writes(n)
  <2>1. store' = Marked(n) /\ rounds' = Announced(rest, t, tab[t], store')
    BY <1>5 DEF Mark, rest, t
  <2>2. MarkHears(n, q) = Hears(q, store')
    BY <1>5, <2>1 DEF MarkHears
  <2>3. Reached(Announced(rest, t, tab[t], store'), Hears(q, store'), t, store')
    BY <1>2, <1>3, <1>4, AnnouncedReached DEF rest, t
  <2> QED
    BY <1>1, <1>4, <2>1, <2>2, <2>3, MarkedForward DEF t
<1>6. CASE ~Writes(n)
  <2>1. store' = store /\ rounds' = rest /\ MarkHears(n, q) = q
    BY <1>6 DEF Mark, MarkHears, rest
  <2> QED
    BY <1>4, <2>1, FlagsSame, KeptForward DEF rest
<1> QED
  BY <1>5, <1>6

------------------------------------------------------------------------------
(***************************************************************************)
(* The ends of a refresh and of a poll.                                    *)
(***************************************************************************)
LEMMA RestFades ==
  ASSUME TypeInv, NEW n \in DOMAIN rounds
  PROVE  /\ Fading(RemoveAt(rounds, n), rounds)
         /\ OneLeads(rounds) /\ Leads(rounds[n]) =>
              \A m \in DOMAIN RemoveAt(rounds, n) :
                ~(/\ Leads(RemoveAt(rounds, n)[m])
                  /\ RemoveAt(rounds, n)[m].tab = rounds[n].tab)
<1> DEFINE rest == RemoveAt(rounds, n)
<1>1. Selects(rest, rounds, DOMAIN rounds \ {n})
  BY RemovedSelects DEF TypeInv
<1> HIDE DEF rest
<1>2. Fading(rest, rounds)
  BY <1>1, SelectsFade
<1>3. \A m \in DOMAIN rest : \E k \in DOMAIN rounds : k # n /\ rest[m] = rounds[k]
  BY <1>1 DEF Selects, Picks
<1>4. ASSUME OneLeads(rounds), Leads(rounds[n]), NEW m \in DOMAIN rest,
             Leads(rest[m]), rest[m].tab = rounds[n].tab
      PROVE  FALSE
  BY <1>3, <1>4 DEF OneLeads
<1> QED
  BY <1>2, <1>4 DEF rest

LEMMA ListDoneTurn ==
  ASSUME PagesInv, OneLeads(rounds), UNCHANGED page, NEW n \in DOMAIN rounds,
         ListDone(n)
  PROVE  Turns
<1> DEFINE t == rounds[n].tab
           rest == RemoveAt(rounds, n)
           said == [tab[t] EXCEPT !.status = StatusesOf(rounds[n].got)]
           q == IF rounds[n].live THEN said ELSE tab[t]
<1>1. TypeInv
  BY DEF PagesInv
<1>2. rounds[n] \in Round /\ t \in Tabs /\ tab[t] \in Tab
  <2>1. rounds[n] \in Round
    BY <1>1, ElementOfSeq DEF TypeInv
  <2> QED
    BY <1>1, <2>1 DEF TypeInv, Round
<1>3. Quiet(DOMAIN calls) /\ lapsed' = lapsed
  BY <1>1, ListDoneStep DEF ListDone
<1>4. Fading(rest, rounds)
  BY <1>1, RestFades
<1>5. CASE Current(rounds[n])
  <2>1. Mark(n) /\ tab' = [tab EXCEPT ![t] = MarkHears(n, q)]
    BY <1>5 DEF ListDone
  <2>2. q \in Tab /\ q.page = tab[t].page
    <3>1. StatusesOf(rounds[n].got) \in [Ids -> Statuses]
      <4>1. rounds[n].got \in Gots
        BY <1>2 DEF Round, Gots
      <4> QED
        BY <4>1, ShownType DEF ListDone, Complete
    <3>2. said \in Tab /\ said.page = tab[t].page
      BY <1>2, <3>1 DEF Tab
    <3> QED
      BY <1>2, <3>2
  <2>3. Reached(rest, q, t, store')
    <3>1. CASE ~rounds[n].live
      BY <1>4, <3>1, SameReached
    <3>2. CASE rounds[n].live
      <4>1. Leads(rounds[n]) /\ Complete(rounds[n])
        BY <1>5, <3>2 DEF ListDone, Current, Leads
      <4>2. \A m \in DOMAIN rest : ~(Leads(rest[m]) /\ rest[m].tab = t)
        BY <1>1, <4>1, RestFades
      <4>3. q.status = StatusesOf(rounds[n].got) /\ q.shown = tab[t].shown
        BY <1>2, <3>2 DEF Tab
      <4> HIDE DEF q, rest
      <4>4. \A i \in Ids : q.status[i] = Shown(rounds[n].got[i])
        BY <4>3 DEF StatusesOf
      <4>5. \A i \in Ids : StatusFrom(q.status[i], t, i, store')
        BY <4>1, <4>4 DEF StatusFrom
      <4> QED
        BY <1>4, <4>2, <4>3, <4>5, FadedReached DEF rest
    <3> QED
      BY <3>1, <3>2
  <2> HIDE DEF q, rest
  <2>4. /\ Reached(rounds', MarkHears(n, q), t, store')
        /\ \A i \in Ids : StoreForward(store', i)
    BY <2>1, <2>2, <2>3, MarkReached DEF rest
  <2>5. tab'[t] = MarkHears(n, q) /\ \A u \in Tabs : u # t => tab'[u] = tab[u]
    BY <1>1, <1>2, <2>1 DEF TypeInv
  <2>6. Turn(t)
    BY <1>3, <2>4, <2>5 DEF Turn
  <2>7. \A i \in Ids : Forward(i)
    BY <1>3, <2>4, ThinForward DEF Quiet
  <2> QED
    BY <1>2, <2>6, <2>7 DEF Turns
<1>6. CASE ~Current(rounds[n])
  <2>1. rounds' = rest /\ UNCHANGED <<store, tab>>
    BY <1>6 DEF ListDone
  <2>2. Reached(rest, tab[t], t, store')
    BY <1>4, SameReached
  <2>3. Turn(t)
    BY <1>3, <2>1, <2>2 DEF Turn
  <2> QED
    BY <1>2, <1>3, <2>1, <2>3, FlagsSame, KeepingForward DEF Turns
<1> QED
  BY <1>5, <1>6

LEMMA BadgeDoneTurn ==
  ASSUME PagesInv, OneLeads(rounds), UNCHANGED page, NEW n \in DOMAIN rounds,
         BadgeDone(n)
  PROVE  Turns
<1> DEFINE t == rounds[n].tab
           q == MarkHears(n, tab[t])
           badge == IF rounds[n].live THEN CountOf(rounds[n].got) ELSE q.badge
           p == [q EXCEPT !.badge = badge]
<1>1. TypeInv
  BY DEF PagesInv
<1>2. t \in Tabs /\ tab[t] \in Tab
  <2>1. rounds[n] \in Round
    BY <1>1, ElementOfSeq DEF TypeInv
  <2> QED
    BY <1>1, <2>1 DEF TypeInv, Round
<1>3. Quiet(DOMAIN calls) /\ lapsed' = lapsed /\ Mark(n)
  BY <1>1, BadgeDoneStep DEF BadgeDone
<1>4. Reached(RemoveAt(rounds, n), tab[t], t, store')
  BY <1>1, RestFades, SameReached
<1>5. /\ Reached(rounds', q, t, store') /\ q \in Tab
      /\ \A i \in Ids : StoreForward(store', i)
  BY <1>2, <1>3, <1>4, MarkReached
<1>6. tab' = [tab EXCEPT ![t] = p]
  <2> HIDE DEF q
  <2>1. [q EXCEPT !.badge = IF rounds[n].live THEN CountOf(rounds[n].got) ELSE @] = p
    BY <1>5 DEF Tab
  <2> QED
    BY <2>1 DEF BadgeDone, q
<1> HIDE DEF q, badge
<1>7. p.status = q.status /\ p.shown = q.shown
  BY <1>5 DEF Tab
<1> HIDE DEF p
<1>8. Reached(rounds', p, t, store')
  BY <1>5, <1>7 DEF Reached
<1> HIDE DEF t
<1>9. tab'[t] = p /\ \A u \in Tabs : u # t => tab'[u] = tab[u]
  BY <1>1, <1>2, <1>6 DEF TypeInv
<1>10. Turn(t)
  BY <1>3, <1>8, <1>9 DEF Turn
<1>11. \A i \in Ids : Forward(i)
  BY <1>3, <1>5, ThinForward DEF Quiet
<1> QED
  BY <1>2, <1>10, <1>11 DEF Turns

------------------------------------------------------------------------------
(***************************************************************************)
(* What the handlers do when they end, and what needs no handler.          *)
(***************************************************************************)
LEMMA FreedTurn ==
  ASSUME TypeInv, OneLeads(rounds), NEW n \in DOMAIN calls, NEW s \in Stores,
         KeepsFlags(s, store),
         \/ WriteAndFree(n, s)
         \/ /\ tab' = [tab EXCEPT ![calls[n].tab] = Free(calls[n].tab, n)]
            /\ s = store /\ UNCHANGED <<store, rounds>>,
         lapsed' = lapsed
  PROVE  /\ calls[n].tab \in Tabs /\ Turn(calls[n].tab)
         /\ KeepsFlags(store', store)
<1> DEFINE t == calls[n].tab
           q == Free(t, n)
<1>1. t \in Tabs /\ SameList(q, t)
  BY FreeSame
<1> HIDE DEF t, q
<1>2. CASE Write(t, q, s)
  BY <1>1, <1>2, WriteTurn DEF Write, t
<1>3. CASE /\ tab' = [tab EXCEPT ![t] = q]
           /\ s = store /\ UNCHANGED <<store, rounds>>
  BY <1>1, <1>3, PlainTurn DEF t
<1> QED
  BY <1>2, <1>3 DEF WriteAndFree, t, q

LEMMA ConfirmLocalTurn ==
  ASSUME PagesInv, OneLeads(rounds), UNCHANGED page, NEW t \in Tabs, NEW type,
         ConfirmLocal(t, type)
  PROVE  Turns
<1> DEFINE found == {i \in tab[t].dialog.all : Has(tab[t].shown, i)}
           q == [tab[t] EXCEPT !.dialog = NoDialog]
<1>1. TypeInv /\ store \in Stores
  BY DEF PagesInv, TypeInv, Stores
<1>2. SameList(q, t)
  BY <1>1, SameLists
<1>3. \/ Write(t, q, ClearCollected(store))
      \/ Write(t, q, RemoveStored(store, found))
      \/ tab' = [tab EXCEPT ![t] = q] /\ UNCHANGED <<store, rounds>>
  BY DEF ConfirmLocal
<1>4. Quiet(DOMAIN calls) /\ lapsed' = lapsed
  BY <1>1, ConfirmLocalStep DEF ConfirmLocal
<1> HIDE DEF q, found
<1>5. ASSUME NEW s \in Stores, KeepsFlags(s, store), Write(t, q, s)
      PROVE  Turn(t) /\ KeepsFlags(store', store)
  BY <1>1, <1>2, <1>4, <1>5, WriteTurn DEF Write
<1>6. Turn(t) /\ KeepsFlags(store', store)
  <2>1. CASE Write(t, q, ClearCollected(store))
    BY <1>1, <1>5, <2>1, ClearKeeps, FlagsRemoved
  <2>2. CASE Write(t, q, RemoveStored(store, found))
    BY <1>1, <1>5, <2>2, RemoveKeeps, FlagsRemoved
  <2>3. CASE tab' = [tab EXCEPT ![t] = q] /\ UNCHANGED <<store, rounds>>
    BY <1>1, <1>2, <1>4, <2>3, PlainTurn, FlagsSame
  <2> QED
    BY <1>3, <2>1, <2>2, <2>3
<1> QED
  BY <1>4, <1>6, KeepingForward DEF Turns

LEMMA RevokeDoneTurn ==
  ASSUME PagesInv, OneLeads(rounds), UNCHANGED page, NEW n \in DOMAIN calls,
         RevokeDone(n)
  PROVE  Turns
<1> DEFINE t == calls[n].tab
<1>1. PICK i \in calls[n].all :
        \/ WriteAndFree(n, UpdateRevoked(store, i))
        \/ /\ tab' = [tab EXCEPT ![t] = Free(t, n)]
           /\ UNCHANGED <<store, rounds>>
  BY DEF RevokeDone
<1>2. TypeInv /\ store \in Stores
  BY DEF PagesInv, TypeInv, Stores
<1>3. i \in Ids
  BY <1>2, HandlerHas
<1>4. /\ UpdateRevoked(store, i) \in Stores
      /\ KeepsFlags(UpdateRevoked(store, i), store) /\ KeepsFlags(store, store)
  BY <1>2, <1>3, UpdatesKeep, FlagsUpdated, FlagsSame
<1>5. Quiet(DOMAIN calls \ {n}) /\ lapsed' = lapsed
  BY <1>2, RevokeDoneStep DEF RevokeDone
<1>6. t \in Tabs /\ Turn(t) /\ KeepsFlags(store', store)
  BY <1>1, <1>2, <1>4, <1>5, FreedTurn
<1> QED
  BY <1>5, <1>6, KeepingForward DEF Turns

LEMMA PurgeDoneTurn ==
  ASSUME PagesInv, OneLeads(rounds), UNCHANGED page, NEW n \in DOMAIN calls,
         PurgeDone(n)
  PROVE  Turns
<1> DEFINE t == calls[n].tab
           s == IF Failed(calls[n]) = {} THEN ClearAll(store)
                ELSE RemoveStored(store, calls[n].all \ Failed(calls[n]))
<1>1. TypeInv /\ store \in Stores
  BY DEF PagesInv, TypeInv, Stores
<1>2. s \in Stores /\ KeepsFlags(s, store)
  BY <1>1, RemoveKeeps, ClearKeeps, FlagsRemoved
<1>3. WriteAndFree(n, s)
  BY DEF PurgeDone
<1>4. Quiet(DOMAIN calls \ {n}) /\ lapsed' = lapsed
  BY <1>1, PurgeDoneStep DEF PurgeDone
<1> HIDE DEF s
<1>5. t \in Tabs /\ Turn(t) /\ KeepsFlags(store', store)
  BY <1>1, <1>2, <1>3, <1>4, FreedTurn
<1> QED
  BY <1>4, <1>5, KeepingForward DEF Turns

LEMMA RotateDoneTurn ==
  ASSUME PagesInv, OneLeads(rounds), UNCHANGED page, NEW n \in DOMAIN calls,
         RotateDone(n)
  PROVE  Turns
<1> DEFINE c == calls[n]
           t == c.tab
<1>1. PICK i \in c.all :
        \/ WriteAndFree(n, UpdateKey(store, i, c.made))
        \/ /\ tab' = [tab EXCEPT ![t] = Free(t, n)]
           /\ UNCHANGED <<store, rounds>>
  BY DEF RotateDone, RotatedKey
<1>2. TypeInv /\ store \in Stores
  BY DEF PagesInv, TypeInv, Stores
<1>3. i \in Ids /\ c.made \in Keys
  BY <1>2, HandlerHas DEF RotateDone, Answered, PagesInv, CallInv, Shaped
<1>4. /\ UpdateKey(store, i, c.made) \in Stores
      /\ KeepsFlags(UpdateKey(store, i, c.made), store) /\ KeepsFlags(store, store)
  BY <1>2, <1>3, KeyUpdated, FlagsUpdated, FlagsSame
<1>5. lapsed' = lapsed /\ server' = server /\ EndCall(n)
  BY DEF RotateDone
<1> HIDE DEF c
<1>6. t \in Tabs /\ Turn(t) /\ KeepsFlags(store', store)
  BY <1>1, <1>2, <1>4, <1>5, FreedTurn DEF c
<1>7. \A j \in Ids : Forward(j)
  BY <1>2, <1>5, <1>6, EndThins, KeptForward, ThinForward
<1> QED
  BY <1>6, <1>7 DEF Turns

LEMMA CreateDoneTurn ==
  ASSUME PagesInv, OneLeads(rounds), UNCHANGED page, NEW n \in DOMAIN calls,
         CreateDone(n)
  PROVE  Turns
<1> DEFINE c == calls[n]
           t == c.tab
           s(i) == SaveStored(store, i, NewEntry(c.made))
<1>1. PICK i \in c.all :
        \/ /\ tab' = [tab EXCEPT ![t] = Free(t, n)]
           /\ UNCHANGED <<store, rounds>>
        \/ WriteAndFree(n, s(i))
  BY DEF CreateDone
<1>2. TypeInv /\ store \in Stores
  BY DEF PagesInv, TypeInv, Stores
<1>3. i \in Ids /\ c.made \in Keys /\ Creating(n, i)
  BY <1>2, HandlerHas DEF CreateDone, Answered, PagesInv, CallInv, Shaped, Creating
<1>4. lapsed' = lapsed /\ server' = server /\ EndCall(n)
  BY DEF CreateDone
<1>5. t \in Tabs /\ SameList(Free(t, n), t)
  BY <1>2, FreeSame
<1>6. s(i) \in Stores
  BY <1>2, <1>3, NewEntryType, SaveKeeps
<1>7. \A j \in Ids : StoreForward(s(i), j)
  BY <1>2, <1>3, SavedForward
<1>8. \A j \in Ids : StoreForward(store, j)
  BY FlagsSame, KeptForward
<1> HIDE DEF s, c, t
<1>9. CASE /\ tab' = [tab EXCEPT ![t] = Free(t, n)]
           /\ UNCHANGED <<store, rounds>>
  <2>1. Turn(t)
    BY <1>2, <1>4, <1>5, <1>9, PlainTurn
  <2>2. \A j \in Ids : Forward(j)
    BY <1>2, <1>4, <1>8, <1>9, EndThins, ThinForward
  <2> QED
    BY <1>5, <2>1, <2>2 DEF Turns
<1>10. CASE WriteAndFree(n, s(i))
  <2>1. Write(t, Free(t, n), s(i))
    BY <1>10 DEF WriteAndFree, c, t
  <2>2. Turn(t)
    BY <1>2, <1>4, <1>5, <1>6, <2>1, WriteTurn
  <2>3. store' = s(i)
    BY <2>1 DEF Write
  <2>4. \A j \in Ids : Forward(j)
    BY <1>2, <1>4, <1>7, <2>3, EndThins, ThinForward
  <2> QED
    BY <1>5, <2>2, <2>4 DEF Turns
<1> QED
  BY <1>1, <1>9, <1>10

LEMMA ViewAnsweredTurn ==
  ASSUME PagesInv, OneLeads(rounds), UNCHANGED page, NEW n \in DOMAIN calls,
         ViewAnswered(n)
  PROVE  Turns
<1> DEFINE t == calls[n].tab
<1>1. PICK i \in calls[n].all :
        \/ /\ tab' = [tab EXCEPT ![t] = Free(t, n)]
           /\ UNCHANGED <<store, rounds>>
        \/ Write(t, tab[t], UpdateCollected(store, i))
  BY DEF ViewAnswered
<1>2. TypeInv /\ store \in Stores
  BY DEF PagesInv, TypeInv, Stores
<1>3. i \in Ids
  BY <1>2, HandlerHas
<1>4. UpdateCollected(store, i) \in Stores /\ KeepsFlags(UpdateCollected(store, i), store)
  BY <1>2, <1>3, UpdatesKeep, FlagsUpdated
<1>5. PICK I : Quiet(I)
  BY <1>2, ViewAnsweredStep DEF PagesInv
<1>6. lapsed' = lapsed
  BY DEF ViewAnswered
<1>7. t \in Tabs /\ SameList(Free(t, n), t) /\ SameList(tab[t], t)
  BY <1>2, FreeSame, SameLists
<1> HIDE DEF t
<1>8. Turn(t) /\ KeepsFlags(store', store)
  <2>1. CASE /\ tab' = [tab EXCEPT ![t] = Free(t, n)]
             /\ UNCHANGED <<store, rounds>>
    BY <1>2, <1>6, <1>7, <2>1, PlainTurn, FlagsSame
  <2>2. CASE Write(t, tab[t], UpdateCollected(store, i))
    BY <1>2, <1>4, <1>6, <1>7, <2>2, WriteTurn DEF Write
  <2> QED
    BY <1>1, <2>1, <2>2
<1> QED
  BY <1>5, <1>7, <1>8, KeepingForward DEF Turns

LEMMA ViewDoneTurn ==
  ASSUME PagesInv, OneLeads(rounds), UNCHANGED page, NEW n \in DOMAIN calls,
         ViewDone(n)
  PROVE  Turns
<1> DEFINE c == calls[n]
           t == c.tab
<1>1. PICK i \in c.all :
        LET shows == Revealed(i, c.ans[i].data = c.held)
        IN  \/ /\ tab' = [tab EXCEPT ![t] =
                     ListStarted([Free(t, n) EXCEPT !.revealed = shows], store)]
               /\ rounds' = WithList(rounds, t, store)
            \/ UNCHANGED <<tab, rounds>>
  BY DEF ViewDone
<1> DEFINE shows == Revealed(i, c.ans[i].data = c.held)
           q == [Free(t, n) EXCEPT !.revealed = shows]
<1>2. TypeInv /\ store \in Stores
  BY DEF PagesInv, TypeInv, Stores
<1>3. i \in Ids /\ t \in Tabs /\ SameList(Free(t, n), t)
  BY <1>2, HandlerHas, FreeSame
<1>4. q \in Tab /\ q.status = tab[t].status /\ q.shown = tab[t].shown
  <2>1. shows \in [id : Ids, plain : BOOLEAN]
    <3>1. (c.ans[i].data = c.held) \in BOOLEAN
      OBVIOUS
    <3> QED
      BY <1>3, <3>1 DEF Revealed
  <2> HIDE DEF shows, t
  <2> QED
    BY <1>3, <2>1 DEF SameList, Tab
<1>5. /\ Quiet(DOMAIN calls \ {n})
      /\ lapsed' = lapsed /\ store' = store
  BY <1>2, ViewDoneStep DEF ViewDone, PagesInv
<1>6. ASSUME tab' = [tab EXCEPT ![t] = ListStarted(q, store)],
             rounds' = WithList(rounds, t, store)
      PROVE  Turn(t)
  <2> HIDE DEF q, t
  <2>1. Reached(rounds, q, t, store)
    BY <1>4, SameReached
  <2>2. rounds \in Seq(Round)
    BY <1>2 DEF TypeInv
  <2>3. Reached(rounds', ListStarted(q, store), t, store)
    BY <1>2, <1>3, <1>4, <1>6, <2>1, <2>2, OldStem, ListReached
  <2>4. tab'[t] = ListStarted(q, store) /\ \A u \in Tabs : u # t => tab'[u] = tab[u]
    BY <1>2, <1>3, <1>6 DEF TypeInv
  <2> QED
    BY <1>5, <2>3, <2>4 DEF Turn
<1>7. ASSUME UNCHANGED <<tab, rounds>>
      PROVE  Turn(t)
  <2> HIDE DEF t
  <2>1. Reached(rounds', tab'[t], t, store')
    BY <1>7, SameReached
  <2> QED
    BY <1>5, <1>7, <2>1 DEF Turn
<1>8. Turn(t)
  BY <1>1, <1>6, <1>7
<1> HIDE DEF t, q
<1>9. \A j \in Ids : Forward(j)
  BY <1>5, FlagsSame, KeepingForward
<1> QED
  BY <1>3, <1>8, <1>9 DEF Turns

LEMMA ReloadTurn ==
  ASSUME PagesInv, OneLeads(rounds), UNCHANGED page, NEW t \in Tabs, Reload(t)
  PROVE  Turns
<1> DEFINE J == {n \in DOMAIN rounds : ~(rounds[n].tab = t)}
           theirs == Those(rounds, J)
           q == FreshTab(tab[t].page)
<1>1. TypeInv /\ store \in Stores
  BY DEF PagesInv, TypeInv, Stores
<1>2. /\ rounds' = Announced(theirs, t, tab[t], store)
      /\ tab' = [tab EXCEPT ![t] = Hears(q, store)]
      /\ store' = store /\ lapsed' = lapsed
  BY DEF Reload
<1>3. /\ q \in Tab /\ q.page = tab[t].page /\ q.shown = Blank
      /\ \A i \in Ids : q.status[i] = "loading"
  <2>1. tab[t].page \in {"create", "list"}
    BY <1>1, TabHas DEF Tab
  <2>2. q \in Tab
    BY <2>1, FreshTabType
  <2> QED
    BY <2>2 DEF FreshTab, Blank
<1>4. theirs \in Seq(Round) /\ Selects(theirs, rounds, J)
  BY <1>1, ThoseSelect DEF TypeInv
<1> HIDE DEF q, theirs
<1>5. Fading(theirs, rounds)
  BY <1>4, SelectsFade
<1>6. \A n \in DOMAIN theirs : ~(Leads(theirs[n]) /\ theirs[n].tab = t)
  BY <1>4 DEF Selects, Picks
<1>7. \A i \in Ids : StatusFrom(q.status[i], t, i, store)
  BY <1>3 DEF StatusFrom
<1>8. Reached(theirs, q, t, store)
  BY <1>3, <1>5, <1>6, <1>7, FadedReached
<1>9. Reached(rounds', Hears(q, store), t, store)
  BY <1>1, <1>2, <1>3, <1>4, <1>5, <1>8, OldStem, AnnouncedReached
<1>10. tab'[t] = Hears(q, store) /\ \A u \in Tabs : u # t => tab'[u] = tab[u]
  BY <1>1, <1>2 DEF TypeInv
<1>11. Turn(t)
  BY <1>2, <1>9, <1>10 DEF Turn
<1>12. PICK I : Quiet(I)
  BY <1>1, ReloadStep
<1> QED
  BY <1>2, <1>11, <1>12, FlagsSame, KeepingForward DEF Turns
------------------------------------------------------------------------------
(***************************************************************************)
(* Steps that leave the lists, the rounds and the store as they are.       *)
(***************************************************************************)
Idle ==
  /\ store' = store /\ rounds' = rounds /\ lapsed \subseteq lapsed'
  /\ \A t \in Tabs : tab'[t].status = tab[t].status /\ tab'[t].shown = tab[t].shown
  /\ \A i \in Ids : ServerForward(i) /\ (Awaited(i)' => Awaited(i))

LEMMA IdleStep ==
  ASSUME PagesInv, StatusInv, files = {}, Idle
  PROVE  StatusInv' /\ Onward
<1>1. OneLeads(rounds) /\ \A i \in Ids : StatusAt(i)
  BY DEF StatusInv
<1>2. OneLeads(rounds)'
  BY <1>1 DEF Idle
<1>3. ASSUME NEW i \in Ids
      PROVE  StatusAt(i)'
  <2>1. StatusAt(i) /\ lapsed \subseteq lapsed' /\ (Awaited(i)' => Awaited(i))
    BY <1>1 DEF Idle
  <2>2. Forward(i)
    BY FlagsSame, KeptForward DEF Idle, Forward
  <2>3. \A v : Told(v, i) => Tells(v, server'[i], store'[i], i \in lapsed')
    BY <2>1, <2>2, ToldStays
  <2>4. /\ \A u \in Tabs : Honest(tab[u].status[i], i)'
        /\ \A n \in DOMAIN rounds' : Honest(rounds[n].got[i], i)'
    BY <2>3 DEF Idle, Told, Honest
  <2>5. Remembered(i)'
    BY <2>1, <2>2, FulfilledStays, RevokedStays DEF Remembered, Idle
  <2>6. Awaited(i)' => Unheard(i)'
    BY <2>1 DEF StatusAt, Unheard, Idle
  <2>7. ASSUME NEW n \in DOMAIN rounds', Leads(rounds'[n])
        PROVE  Ahead(rounds[n], i)'
    <3> DEFINE r == rounds[n]
               v == tab[r.tab].status[i]
               revoked == tab[r.tab].shown[i].revoked
    <3>1. n \in DOMAIN rounds /\ rounds'[n] = r /\ Leads(r)
      BY <2>7 DEF Idle
    <3>2. Follows(r.got[i], v, revoked, server[i])
      BY <2>1, <3>1 DEF StatusAt, Ahead
    <3>3. Awaited(i) => r.got[i] \in {"loading", "absent"}
      BY <2>1, <3>1 DEF StatusAt, Unheard
    <3>4. r.tab \in Tabs
      <4>1. rounds \in Seq(Round)
        BY DEF PagesInv, TypeInv
      <4>2. r \in Round
        BY <3>1, <4>1, ElementOfSeq
      <4> QED
        BY <4>2 DEF Round
    <3>5. tab'[r.tab].status[i] = v /\ tab'[r.tab].shown[i].revoked = revoked
      BY <3>4 DEF Idle
    <3> HIDE DEF r, v, revoked
    <3>6. Follows(r.got[i], v, revoked, server'[i])
      BY <2>1, <2>2, <3>2, <3>3, AheadStays
    <3> QED
      BY <3>1, <3>5, <3>6 DEF Ahead, r
  <2> QED
    BY <2>4, <2>5, <2>6, <2>7 DEF StatusAt
<1>4. Onward
  BY DEF Idle, Onward, Backwards, Settled
<1> QED
  BY <1>2, <1>3, <1>4 DEF StatusInv

------------------------------------------------------------------------------
(***************************************************************************)
(* What a round is told by the server, and what it then knows.             *)
(***************************************************************************)
LEMMA ResolvedTells ==
  ASSUME PagesInv, NEW i \in Ids, StatusAt(i), NEW n \in DOMAIN rounds,
         rounds[n].got[i] = "asked", NEW g, g \in {"loading", Resolve(i, Lookup(i))}
  PROVE  /\ ~Awaited(i) /\ Honest(g, i)
         /\ g = "pending" => server[i].state = "pending"
         /\ g # "asked"
<1>1. ~Awaited(i)
  BY DEF StatusAt, Unheard
<1>2. CASE server[i].state \in {"pending", "fulfilled"}
  <2>1. Lookup(i).data = server[i].state /\ Lookup(i).status = 200
    BY <1>2 DEF Lookup, Clear, JsonFetch
  <2>2. \/ g \in {"loading", "fresh"}
        \/ g = "pending" /\ server[i].state = "pending"
    BY <1>2, <2>1 DEF Resolve
  <2>3. g = "fresh" => server[i].state = "fulfilled"
    BY <1>2, <2>1 DEF Resolve
  <2> QED
    BY <1>1, <2>2, <2>3 DEF Honest, Tells
<1>3. CASE server[i].state \notin {"pending", "fulfilled"}
  <2>1. Lookup(i).data \notin {"pending", "fulfilled"} /\ Lookup(i).status = 404
    BY <1>3, NoDataAssumption DEF Lookup, Clear, JsonFetch
  <2>2. g = "loading" \/ g = IF i \in lapsed THEN "expired" ELSE "revoked"
    BY <2>1 DEF Resolve
  <2>3. server[i].state = "gone"
    <3>1. server[i] \in Record
      BY DEF PagesInv, TypeInv
    <3> QED
      BY <1>1, <1>3, <3>1 DEF Awaited, Record
  <2> QED
    BY <1>1, <2>2, <2>3 DEF Honest, Tells
<1> QED
  BY <1>2, <1>3

LEMMA LookedUpTurn ==
  ASSUME PagesInv, StatusInv, files = {}, NEW n \in DOMAIN rounds, NEW j \in Ids,
         LookedUp(n, j)
  PROVE  StatusInv' /\ Onward
<1>1. OneLeads(rounds) /\ \A i \in Ids : StatusAt(i)
  BY DEF StatusInv
<1>2. PICK g \in {"loading", Resolve(j, Lookup(j))} :
        rounds' = [rounds EXCEPT ![n].got[j] = g]
  BY DEF LookedUp
<1>3. UNCHANGED <<server, lapsed, store, tab, calls>> /\ rounds[n].got[j] = "asked"
  BY DEF LookedUp
<1>4. rounds[n] \in Round
  <2>1. rounds \in Seq(Round)
    BY DEF PagesInv, TypeInv
  <2> QED
    BY <2>1, ElementOfSeq
<1> DEFINE r == [rounds[n] EXCEPT !.got[j] = g]
<1>5. /\ r.kind = rounds[n].kind /\ r.tab = rounds[n].tab
      /\ r.live = rounds[n].live /\ r.newest = rounds[n].newest
      /\ r.got = [rounds[n].got EXCEPT ![j] = g]
  BY <1>4 DEF Round
<1>6. rounds' = [rounds EXCEPT ![n] = r]
  BY <1>2
<1> HIDE DEF r
<1>7. ASSUME NEW m \in DOMAIN rounds
      PROVE  /\ rounds'[m].tab = rounds[m].tab
             /\ Leads(rounds'[m]) = Leads(rounds[m])
             /\ \A i \in Ids : rounds'[m].got[i] = IF m = n /\ i = j THEN g
                                                   ELSE rounds[m].got[i]
  <2>1. CASE m = n
    <3>1. rounds'[m] = r
      BY <1>6, <2>1
    <3>2. rounds[n].got \in Gots
      BY <1>4 DEF Round, Gots
    <3>3. \A i \in Ids : r.got[i] = IF i = j THEN g ELSE rounds[n].got[i]
      BY <1>5, <3>2 DEF Gots
    <3>4. Leads(r) = Leads(rounds[n])
      BY <1>5 DEF Leads
    <3> QED
      BY <1>5, <2>1, <3>1, <3>3, <3>4
  <2>2. CASE m # n
    BY <1>6, <2>2
  <2> QED
    BY <2>1, <2>2
<1>8. DOMAIN rounds' = DOMAIN rounds
  BY <1>6
<1>9. OneLeads(rounds)'
  BY <1>1, <1>7, <1>8 DEF OneLeads
<1>10. /\ ~Awaited(j) /\ Honest(g, j)
       /\ g = "pending" => server[j].state = "pending"
       /\ g # "asked"
  BY <1>1, <1>2, <1>3, ResolvedTells
<1>11. ASSUME NEW i \in Ids
       PROVE  StatusAt(i)'
  <2>1. StatusAt(i)
    BY <1>1
  <2>2. /\ \A u \in Tabs : Honest(tab[u].status[i], i)'
        /\ Remembered(i)'
    BY <1>3, <2>1 DEF StatusAt, Honest, Remembered
  <2>3. \A m \in DOMAIN rounds' : Honest(rounds[m].got[i], i)'
    BY <1>3, <1>7, <1>8, <1>10, <2>1 DEF StatusAt, Honest
  <2>4. Awaited(i)' => Awaited(i) /\ i # j
    <3>1. Awaited(i)' => Awaited(i)
      BY <1>3 DEF Awaited, Creating
    <3> QED
      BY <1>10, <3>1
  <2>5. Awaited(i)' => Unheard(i)'
    BY <1>3, <1>7, <1>8, <2>1, <2>4 DEF StatusAt, Unheard
  <2>6. ASSUME NEW m \in DOMAIN rounds', Leads(rounds'[m])
        PROVE  Ahead(rounds[m], i)'
    <3>1. m \in DOMAIN rounds /\ Leads(rounds[m]) /\ Ahead(rounds[m], i)
      BY <1>7, <1>8, <2>1, <2>6 DEF StatusAt
    <3> DEFINE v == tab[rounds[m].tab].status[i]
               revoked == tab[rounds[m].tab].shown[i].revoked
    <3>2. Follows(rounds[m].got[i], v, revoked, server[i])
      BY <3>1 DEF Ahead
    <3>3. Follows(rounds'[m].got[i], v, revoked, server[i])
      <4> HIDE DEF v, revoked
      <4>1. CASE m = n /\ i = j
        <5>1. Follows("asked", v, revoked, server[i])
          BY <1>3, <3>2, <4>1
        <5>2. rounds'[m].got[i] = g
          BY <1>7, <3>1, <4>1
        <5> QED
          BY <1>10, <4>1, <5>1, <5>2 DEF Follows
      <4>2. CASE ~(m = n /\ i = j)
        <5>1. rounds'[m].got[i] = rounds[m].got[i]
          BY <1>7, <3>1, <4>2
        <5> QED
          BY <3>2, <5>1
      <4> QED
        BY <4>1, <4>2
    <3> QED
      BY <1>3, <1>7, <3>1, <3>3 DEF Ahead
  <2> QED
    BY <2>2, <2>3, <2>5, <2>6 DEF StatusAt
<1>12. Onward
  BY <1>3 DEF Onward, Backwards, Settled
<1> QED
  BY <1>9, <1>11, <1>12 DEF StatusInv
------------------------------------------------------------------------------
(***************************************************************************)
(* Idle steps: the server, the clock, and clicks.                          *)
(***************************************************************************)
LEMMA ServerIdle ==
  ASSUME UNCHANGED <<store, rounds, tab>>, lapsed \subseteq lapsed',
         \A i \in Ids : ServerForward(i) /\ (Awaited(i)' => Awaited(i))
  PROVE  Idle
  BY DEF Idle

LEMMA DidForward ==
  ASSUME NEW op, NEW rec \in Record, NEW k
  PROVE  /\ rec.state = "gone" => Did(op, rec, k).state = "gone"
         /\ Did(op, rec, k).state = "pending" => rec.state = "pending"
         /\ Did(op, rec, k).state = "none" => rec.state = "none"
  BY DEF Did, Nothing, Record

LEMMA ServeIdle ==
  ASSUME TypeInv, NEW n \in DOMAIN calls, NEW i \in Ids,
         Serve(n, i) \/ ServeBadly(n, i)
  PROVE  Idle
<1>1. UNCHANGED <<lapsed, store, tab, rounds>>
  BY DEF Serve, ServeBadly
<1>2. \/ server' = server
      \/ server' = [server EXCEPT ![i] = Did(calls[n].op, @, calls[n].made)]
  BY DEF Serve, ServeBadly
<1>3. \A j \in Ids : /\ ServerForward(j)
                     /\ server'[j].state = "none" => server[j].state = "none"
  BY <1>2, DidForward DEF TypeInv, ServerForward
<1>4. \E a : calls' = [calls EXCEPT ![n].ans[i] = a]
  BY DEF Serve, ServeBadly
<1>5. /\ DOMAIN calls' = DOMAIN calls
      /\ \A m \in DOMAIN calls : calls'[m].op = calls[m].op /\ calls'[m].all = calls[m].all
  <2>1. calls[n] \in Call
    BY HandlerHas
  <2> QED
    BY <1>4, <2>1 DEF Call
<1>6. \A j \in Ids : Awaited(j)' => Awaited(j)
  BY <1>3, <1>5 DEF Awaited, Creating
<1> QED
  BY <1>1, <1>3, <1>6, ServerIdle

LEMMA ServeCreateIdle ==
  ASSUME TypeInv, NEW n \in DOMAIN calls, ServeCreate(n)
  PROVE  Idle
<1>1. UNCHANGED <<lapsed, store, tab, rounds>>
  BY DEF ServeCreate
<1>2. PICK i \in Ids :
        /\ server[i].state = "none"
        /\ server' = [server EXCEPT ![i] = [state |-> "pending",
                                            key |-> calls[n].made,
                                            cipher |-> NoKey]]
        /\ \/ calls' = [calls EXCEPT ![n].all = {i}, ![n].ans[i] = Clear(200, i)]
           \/ calls' = [calls EXCEPT ![n].all = {i}, ![n].ans[i] = Lost]
  BY DEF ServeCreate
<1>3. \A j \in Ids : /\ ServerForward(j)
                     /\ server'[j].state = "none" => server[j].state = "none"
  BY <1>2 DEF TypeInv, ServerForward
<1>4. /\ DOMAIN calls' = DOMAIN calls
      /\ calls'[n].op = calls[n].op /\ calls'[n].all = {i}
      /\ \A m \in DOMAIN calls : m # n => calls'[m] = calls[m]
  <2>1. calls[n] \in Call
    BY HandlerHas
  <2> QED
    BY <1>2, <2>1 DEF Call
<1>5. \A j \in Ids : Awaited(j)' => Awaited(j)
  BY <1>2, <1>3, <1>4 DEF Awaited, Creating
<1> QED
  BY <1>1, <1>3, <1>5, ServerIdle

LEMMA LapseIdle ==
  ASSUME TypeInv, NEW i \in Ids, Lapse(i) \/ Pass(i)
  PROVE  Idle
<1>1. UNCHANGED <<store, tab, rounds, calls>> /\ lapsed \subseteq lapsed'
  BY DEF Lapse, Pass
<1>2. \/ server' = server
      \/ server' = [server EXCEPT ![i] = Nothing("gone")]
  BY DEF Lapse, Pass
<1>3. \A j \in Ids : server'[j] = server[j] \/ server'[j].state = "gone"
  BY <1>2, GoneType DEF TypeInv
<1>4. \A j \in Ids : /\ ServerForward(j)
                     /\ server'[j].state = "none" => server[j].state = "none"
  BY <1>3 DEF ServerForward
<1>5. \A j \in Ids : Awaited(j)' => Awaited(j)
  BY <1>1, <1>4 DEF Awaited, Creating
<1> QED
  BY <1>1, <1>4, <1>5, ServerIdle

LEMMA ResponderIdle ==
  ASSUME TypeInv, NEW p \in Responders,
         \/ Open(p) \/ Load(p) \/ LoadBadly(p)
         \/ Submit(p) \/ SubmitBadly(p)
  PROVE  Idle
<1>1. UNCHANGED <<store, tab, rounds, calls, lapsed>>
  BY DEF Open, Load, LoadBadly, Submit, SubmitBadly, requester
<1>2. \/ server' = server
      \/ \E i, k : server' = [server EXCEPT ![i] = Provided(@, k)]
  BY DEF Open, Load, LoadBadly, Submit, SubmitBadly, requester
<1>3. \A k : \A rec \in Record :
        /\ rec.state = "gone" => Provided(rec, k).state = "gone"
        /\ Provided(rec, k).state = "pending" => rec.state = "pending"
        /\ Provided(rec, k).state = "none" => rec.state = "none"
  BY DEF Provided, Record
<1>4. \A j \in Ids : /\ ServerForward(j)
                     /\ server'[j].state = "none" => server[j].state = "none"
  BY <1>2, <1>3 DEF TypeInv, ServerForward
<1>5. \A j \in Ids : Awaited(j)' => Awaited(j)
  BY <1>1, <1>4 DEF Awaited, Creating
<1> QED
  BY <1>1, <1>4, <1>5, ServerIdle

LEMMA TabIdle ==
  ASSUME TypeInv, UNCHANGED <<server, lapsed, store, rounds, calls>>,
         NEW t \in Tabs, NEW q, SameList(q, t),
         tab' = tab \/ tab' = [tab EXCEPT ![t] = q]
  PROVE  Idle
<1>1. \A u \in Tabs : tab'[u].status = tab[u].status /\ tab'[u].shown = tab[u].shown
  BY DEF TypeInv, SameList
<1>2. \A i \in Ids : ServerForward(i) /\ (Awaited(i)' => Awaited(i))
  BY DEF ServerForward, Awaited, Creating
<1> QED
  BY <1>1, <1>2 DEF Idle

LEMMA StartIdle ==
  ASSUME TypeInv, UNCHANGED <<server, lapsed, store, rounds>>,
         NEW c \in Call, c.op = "create" => c.all = {},
         NEW busy \in Ids \union {"none", "create", "purge"}, StartCall(c, busy)
  PROVE  Idle
<1> DEFINE q == [tab[c.tab] EXCEPT !.dialog = NoDialog, !.busy = busy]
<1>1. c.tab \in Tabs
  BY DEF Call
<1>2. tab[c.tab] \in Tab
  BY <1>1, TabHas
<1>3. q.status = tab[c.tab].status /\ q.shown = tab[c.tab].shown
  BY <1>2 DEF Tab
<1>4. tab' = [tab EXCEPT ![c.tab] = q]
  BY <1>1, <1>2 DEF StartCall, Tab, TypeInv
<1> HIDE DEF q
<1>5. \A u \in Tabs : tab'[u].status = tab[u].status /\ tab'[u].shown = tab[u].shown
  BY <1>1, <1>3, <1>4 DEF TypeInv
<1>6. \A n \in DOMAIN calls' : calls'[n] = c \/ (n \in DOMAIN calls /\ calls'[n] = calls[n])
  <2>1. calls \in Seq(Call) /\ calls' = Append(calls, c)
    BY DEF TypeInv, StartCall
  <2>2. /\ calls' \in Seq(Call) /\ Len(calls') = Len(calls) + 1
        /\ \A n \in 1..Len(calls) : calls'[n] = calls[n]
        /\ calls'[Len(calls) + 1] = c
    BY <2>1, AppendProperties
  <2>3. /\ DOMAIN calls = 1..Len(calls) /\ Len(calls) \in Nat
        /\ DOMAIN calls' = 1..(Len(calls) + 1)
    BY <2>1, <2>2, LenProperties
  <2> QED
    BY <2>2, <2>3
<1>7. \A i \in Ids : ServerForward(i) /\ (Awaited(i)' => Awaited(i))
  BY <1>6 DEF ServerForward, Awaited, Creating
<1> QED
  BY <1>5, <1>7 DEF Idle

LEMMA ConfirmIdle ==
  ASSUME TypeInv, NEW t \in Tabs,
         \/ \E type \in {"view", "revoke", "rotate"} : ConfirmOne(t, type)
         \/ ConfirmPurge(t) \/ SubmitCreate(t)
  PROVE  Idle
<1>1. UNCHANGED <<server, lapsed, store, rounds>>
  BY DEF ConfirmOne, ConfirmPurge, SubmitCreate
<1>2. ASSUME NEW type \in {"view", "revoke", "rotate"}, ConfirmOne(t, type)
      PROVE  Idle
  <2>1. PICK i \in tab[t].dialog.all :
          \/ /\ tab' = [tab EXCEPT ![t].dialog = NoDialog]
             /\ UNCHANGED calls
          \/ /\ tab[t].shown[i] # Absent
             /\ \E made \in IF type = "rotate" THEN {k \in Keys : ~Used(k)} ELSE {NoKey} :
                  StartCall(Started(type, t, {i}, tab[t].shown[i].key, made), i)
    BY <1>2 DEF ConfirmOne
  <2>2. i \in Ids
    BY TabHas DEF Dialog
  <2>3. CASE tab' = [tab EXCEPT ![t].dialog = NoDialog] /\ UNCHANGED calls
    <3> DEFINE q == [tab[t] EXCEPT !.dialog = NoDialog]
    <3>1. SameList(q, t)
      BY SameLists
    <3>2. tab' = [tab EXCEPT ![t] = q]
      BY <2>3
    <3> HIDE DEF q
    <3> QED
      BY <1>1, <2>3, <3>1, <3>2, TabIdle
  <2>4. ASSUME tab[t].shown[i] # Absent,
               NEW made \in IF type = "rotate" THEN {k \in Keys : ~Used(k)} ELSE {NoKey},
               StartCall(Started(type, t, {i}, tab[t].shown[i].key, made), i)
        PROVE  Idle
    <3> DEFINE c == Started(type, t, {i}, tab[t].shown[i].key, made)
    <3>1. tab[t].shown[i].key \in Keys
      BY <2>2, <2>4, TabHas, HasEntry DEF Has, Entry
    <3>2. made \in Keys \union {NoKey} /\ type \in AllOps
      BY DEF AllOps
    <3>3. c \in Call /\ c.op = type
      BY <2>2, <3>1, <3>2, StartedType
    <3>4. StartCall(c, i)
      BY <2>4
    <3> HIDE DEF c
    <3> QED
      BY <1>1, <2>2, <3>3, <3>4, StartIdle
  <2> QED
    BY <2>1, <2>3, <2>4
<1>3. CASE ConfirmPurge(t)
  <2> DEFINE s == Started("purgeAll", t, {i \in Ids : Has(store, i)}, NoKey, NoKey)
             c == [s EXCEPT !.ans = PurgeAnswers(store)]
  <2>1. s \in Call /\ s.op = "purgeAll"
    <3>1. "purgeAll" \in AllOps
      BY DEF AllOps
    <3> QED
      BY <3>1, StartedType
  <2>2. PurgeAnswers(store) \in [Ids -> Reply]
    BY DEF PurgeAnswers, Clear, JsonFetch, Waiting, Reply
  <2>3. StartCall(c, "purge")
    BY <1>3 DEF ConfirmPurge
  <2> HIDE DEF s
  <2>4. c \in Call /\ c.op = "purgeAll"
    BY <2>1, <2>2 DEF Call
  <2> HIDE DEF c
  <2> QED
    BY <1>1, <2>3, <2>4, StartIdle
<1>4. CASE SubmitCreate(t)
  <2>1. PICK k \in Keys : StartCall(Started("create", t, {}, NoKey, k), "create")
    BY <1>4 DEF SubmitCreate
  <2> DEFINE c == Started("create", t, {}, NoKey, k)
  <2>2. c \in Call /\ c.all = {}
    <3>1. "create" \in AllOps
      BY DEF AllOps
    <3> QED
      BY <3>1, StartedType
  <2>3. StartCall(c, "create")
    BY <2>1
  <2> HIDE DEF c
  <2> QED
    BY <1>1, <2>2, <2>3, StartIdle
<1> QED
  BY <1>2, <1>3, <1>4

LEMMA ClickIdle ==
  ASSUME TypeInv, NEW t \in Tabs,
         \/ \E type \in Ops, all \in SUBSET Ids : Ask(t, type, all)
         \/ Cancel(t) \/ Close(t)
         \/ \E i \in Ids : CopyLink(t, i) \/ Export(t, i)
  PROVE  Idle
<1>1. UNCHANGED <<server, lapsed, store, rounds, calls>>
  BY DEF Ask, Cancel, Close, CopyLink, Export
<1>2. ASSUME NEW type \in Ops, NEW all \in SUBSET Ids, Ask(t, type, all)
      PROVE  Idle
  <2> DEFINE q == [tab[t] EXCEPT !.dialog = [type |-> type, all |-> all]]
  <2>1. tab[t] \in Tab /\ [type |-> type, all |-> all] \in Dialog
    BY TabHas, OpsAssumption DEF Dialog
  <2>2. SameList(q, t)
    BY <2>1 DEF SameList, Tab
  <2>3. tab' = [tab EXCEPT ![t] = q]
    BY <1>2 DEF Ask
  <2> HIDE DEF q
  <2> QED
    BY <1>1, <2>2, <2>3, TabIdle
<1>3. CASE Cancel(t)
  <2> DEFINE q == [tab[t] EXCEPT !.dialog = NoDialog]
  <2>1. SameList(q, t) /\ tab' = [tab EXCEPT ![t] = q]
    BY <1>3, SameLists DEF Cancel
  <2> HIDE DEF q
  <2> QED
    BY <1>1, <2>1, TabIdle
<1>4. CASE Close(t)
  <2> DEFINE q == [tab[t] EXCEPT !.revealed = NoSecret]
  <2>1. SameList(q, t) /\ tab' = [tab EXCEPT ![t] = q]
    BY <1>4, SameLists DEF Close
  <2> HIDE DEF q
  <2> QED
    BY <1>1, <2>1, TabIdle
<1>5. CASE \E i \in Ids : CopyLink(t, i) \/ Export(t, i)
  <2>1. tab' = tab /\ SameList(tab[t], t)
    BY <1>5, SameLists DEF CopyLink, Export
  <2> QED
    BY <1>1, <2>1, TabIdle
<1> QED
  BY <1>2, <1>3, <1>4, <1>5

------------------------------------------------------------------------------
(***************************************************************************)
(* Every step.                                                             *)
(***************************************************************************)
LEMMA TurnsStep ==
  ASSUME PagesInv, PagesInv', StatusInv, files = {}, Turns
  PROVE  StatusInv' /\ Onward
<1>1. PICK t \in Tabs : Turn(t)
  BY DEF Turns
<1>2. \A i \in Ids : Forward(i)
  BY DEF Turns
<1> QED
  BY <1>1, <1>2, TurnStep

LEMMA ProgressStatus ==
  ASSUME PagesInv, PagesInv', StatusInv, files = {}, UNCHANGED page, Progress
  PROVE  StatusInv' /\ Onward
<1>1. TypeInv /\ OneLeads(rounds)
  BY DEF PagesInv, StatusInv
<1>2. ASSUME NEW n \in DOMAIN rounds, ListDone(n) \/ BadgeDone(n)
      PROVE  StatusInv' /\ Onward
  BY <1>1, <1>2, ListDoneTurn, BadgeDoneTurn, TurnsStep
<1>3. ASSUME NEW n \in DOMAIN rounds, NEW i \in Ids, LookedUp(n, i)
      PROVE  StatusInv' /\ Onward
  BY <1>3, LookedUpTurn
<1>4. ASSUME NEW n \in DOMAIN calls, NEW i \in Ids, Serve(n, i)
      PROVE  StatusInv' /\ Onward
  BY <1>1, <1>4, ServeIdle, IdleStep
<1>5. ASSUME NEW n \in DOMAIN calls, ServeCreate(n)
      PROVE  StatusInv' /\ Onward
  BY <1>1, <1>5, ServeCreateIdle, IdleStep
<1>6. ASSUME NEW n \in DOMAIN calls,
             \/ CreateDone(n) \/ ViewAnswered(n) \/ ViewDone(n)
             \/ RevokeDone(n) \/ RotateDone(n) \/ PurgeDone(n)
      PROVE  StatusInv' /\ Onward
  <2>1. Turns
    BY <1>1, <1>6, CreateDoneTurn, ViewAnsweredTurn, ViewDoneTurn, RevokeDoneTurn,
       RotateDoneTurn, PurgeDoneTurn
  <2> QED
    BY <2>1, TurnsStep
<1> QED
  BY <1>2, <1>3, <1>4, <1>5, <1>6 DEF Progress

LEMMA ClicksStatus ==
  ASSUME PagesInv, PagesInv', StatusInv, files = {}, UNCHANGED page, Clicks
  PROVE  StatusInv' /\ Onward
<1>1. TypeInv /\ OneLeads(rounds)
  BY DEF PagesInv, StatusInv
<1>2. ASSUME NEW t \in Tabs, NEW p \in {"create", "list"}, Navigate(t, p)
      PROVE  StatusInv' /\ Onward
  BY <1>1, <1>2, NavigateTurn, TurnsStep
<1>3. ASSUME NEW t \in Tabs, NEW type \in Ops, NEW all \in SUBSET Ids, Ask(t, type, all)
      PROVE  StatusInv' /\ Onward
  BY <1>1, <1>3, ClickIdle, IdleStep
<1>4. ASSUME NEW t \in Tabs, Cancel(t) \/ Close(t)
      PROVE  StatusInv' /\ Onward
  BY <1>1, <1>4, ClickIdle, IdleStep
<1>5. ASSUME NEW t \in Tabs, NEW type \in {"view", "revoke", "rotate"},
             ConfirmOne(t, type)
      PROVE  StatusInv' /\ Onward
  BY <1>1, <1>5, ConfirmIdle, IdleStep
<1>6. ASSUME NEW t \in Tabs, NEW type, ConfirmLocal(t, type)
      PROVE  StatusInv' /\ Onward
  BY <1>1, <1>6, ConfirmLocalTurn, TurnsStep
<1>7. ASSUME NEW t \in Tabs, ConfirmPurge(t) \/ SubmitCreate(t)
      PROVE  StatusInv' /\ Onward
  BY <1>1, <1>7, ConfirmIdle, IdleStep
<1>8. ASSUME NEW t \in Tabs, Import(t)
      PROVE  FALSE
  BY <1>8 DEF Import
<1>9. ASSUME NEW t \in Tabs, NEW i \in Ids, CopyLink(t, i) \/ Export(t, i)
      PROVE  StatusInv' /\ Onward
  BY <1>1, <1>9, ClickIdle, IdleStep
<1> QED
  BY <1>2, <1>3, <1>4, <1>5, <1>6, <1>7, <1>8, <1>9 DEF Clicks

LEMMA StatusStep ==
  ASSUME PagesInv, PagesInv', StatusInv, files = {}, [Next]_vars
  PROVE  StatusInv' /\ Onward
<1>1. TypeInv /\ OneLeads(rounds)
  BY DEF PagesInv, StatusInv
<1>2. CASE UNCHANGED page /\ \E t \in Tabs : Poll(t)
  BY <1>1, <1>2, PollTurn, TurnsStep
<1>3. CASE UNCHANGED page /\ Mishaps
  <2>1. ASSUME NEW i \in Ids, Lapse(i) \/ Pass(i)
        PROVE  StatusInv' /\ Onward
    BY <1>1, <2>1, LapseIdle, IdleStep
  <2>2. ASSUME NEW n \in DOMAIN calls, NEW i \in Ids, ServeBadly(n, i)
        PROVE  StatusInv' /\ Onward
    BY <1>1, <2>2, ServeIdle, IdleStep
  <2>3. ASSUME NEW t \in Tabs, Reload(t)
        PROVE  StatusInv' /\ Onward
    BY <1>1, <1>3, <2>3, ReloadTurn, TurnsStep
  <2> QED
    BY <1>3, <2>1, <2>2, <2>3 DEF Mishaps
<1>4. ASSUME NEW p \in Responders,
             \/ Open(p) \/ Load(p) \/ LoadBadly(p)
             \/ Submit(p) \/ SubmitBadly(p)
      PROVE  StatusInv' /\ Onward
  BY <1>1, <1>4, ResponderIdle, IdleStep
<1>5. CASE UNCHANGED vars
  <2>1. UNCHANGED <<server, lapsed, store, rounds, calls, tab>>
    BY <1>5 DEF vars, requester
  <2>2. Idle
    BY <2>1 DEF Idle, ServerForward, Awaited, Creating
  <2> QED
    BY <2>2, IdleStep
<1> QED
  BY <1>2, <1>3, <1>4, <1>5, ProgressStatus, ClicksStatus DEF Next, RequesterNext

\* An export is never taken back.
LEMMA FilesStay ==
  ASSUME [Next]_vars, files # {}
  PROVE  files' # {}
<1>1. files' = files \/ \E t \in Tabs, i \in Ids : Export(t, i)
  <2>1. Progress \/ Mishaps => files' = files
    BY DEF Progress, Mishaps, ListDone, BadgeDone, LookedUp, Serve, ServeCreate,
           CreateDone, ViewAnswered, ViewDone, RevokeDone, RotateDone, PurgeDone,
           Lapse, Pass, ServeBadly, Reload
  <2>2. Clicks => files' = files \/ \E t \in Tabs, i \in Ids : Export(t, i)
    BY DEF Clicks, Navigate, Ask, Cancel, Close, ConfirmOne, ConfirmLocal,
           ConfirmPurge, SubmitCreate, Import, CopyLink
  <2>3. \A t \in Tabs : Poll(t) => files' = files
    BY DEF Poll
  <2>4. ASSUME NEW p \in Responders,
               \/ Open(p) \/ Load(p) \/ LoadBadly(p)
               \/ Submit(p) \/ SubmitBadly(p)
        PROVE  files' = files
    BY <2>4 DEF Open, Load, LoadBadly, Submit, SubmitBadly, requester
  <2>5. UNCHANGED vars => files' = files
    BY DEF vars, requester
  <2> QED
    BY <2>1, <2>2, <2>3, <2>4, <2>5 DEF Next, RequesterNext
<1> QED
  BY <1>1 DEF Export

LEMMA StatusInit == Init => StatusInv
<1> SUFFICES ASSUME Init
             PROVE  StatusInv
  OBVIOUS
<1>1. /\ rounds = <<>> /\ calls = <<>>
      /\ server = [i \in Ids |-> Nothing("none")]
      /\ store = [i \in Ids |-> Absent]
      /\ tab = [t \in Tabs |-> FreshTab("create")]
  BY DEF Init, RequesterInit
<1>2. DOMAIN rounds = {}
  BY <1>1
<1>3. \A i \in Ids : ~Has(store, i)
  BY <1>1 DEF Has
<1>4. \A t \in Tabs, i \in Ids : /\ tab[t].status[i] = "loading"
                                 /\ ~tab[t].shown[i].revoked
  BY <1>1 DEF FreshTab, Absent
<1>5. OneLeads(rounds)
  BY <1>2 DEF OneLeads
<1>6. \A i \in Ids : StatusAt(i)
  BY <1>2, <1>3, <1>4 DEF StatusAt, Honest, Tells, Remembered, Unheard
<1> QED
  BY <1>5, <1>6 DEF StatusInv

(***************************************************************************)
(* The list never goes back: what it showed as collected, revoked or       *)
(* expired, or as provided, does not become pending again, and what it     *)
(* knows to be over is not offered again, although refreshes overlap and   *)
(* their lookups come back in any order (refreshGen of useStoredRequests). *)
(***************************************************************************)
THEOREM PagesStatusNeverBackwards == Spec => StatusNeverBackwards
<1> DEFINE Forwards ==
      \A t \in Tabs, i \in Ids :
        files = {} => ~Backwards(t, i, tab[t].status[i], tab'[t].status[i])
<1>1. PagesInv /\ PagesInv' /\ StatusInv /\ [Next]_vars => StatusInv' /\ Forwards
  <2> SUFFICES ASSUME PagesInv, PagesInv', StatusInv, [Next]_vars
               PROVE  StatusInv' /\ Forwards
    OBVIOUS
  <2>1. CASE files = {}
    BY <2>1, StatusStep DEF Onward
  <2>2. CASE files # {}
    BY <2>2, FilesStay DEF StatusInv
  <2> QED
    BY <2>1, <2>2
<1>2. Forwards => [Forwards]_vars
  OBVIOUS
<1> QED
  BY <1>1, <1>2, StatusInit, PagesInvariant, PTL DEF Spec, StatusNeverBackwards
==============================================================================
