----------------------------- MODULE RequestList -----------------------------
(***************************************************************************)
(* The requester's side of secret requests: the pages #/request            *)
(* (CreateRequest) and #/requests (RequestList), the store they share and  *)
(* the badge in the Navbar, in several tabs of one browser.                *)
(*                                                                         *)
(* JavaScript runs a handler without interruption up to its next await, so *)
(* that is what one action is.  The server answers in one step: Requests   *)
(* models its handlers in detail and shows that each takes effect at once. *)
(* The browser's clock and the server's are two clocks: the request passes *)
(* away on the server (Lapse) and its expiry passes in the browser (Pass)  *)
(* in either order.                                                        *)
(***************************************************************************)
EXTENDS RequestStore, ApiClient, FiniteSets, Sequences, SequencesExt

CONSTANTS
  Tabs,        \* tabs of the requester's browser
  Ops,         \* what the user does in this instance
  MaxActs,     \* bound on what the user does
  MaxFaults,   \* bound on lost or unreadable answers and on reloads
  MaxCalls,    \* bound on handlers waiting for an answer
  MaxRounds    \* bound on refreshes and polls waiting for lookups

AllOps == {"create", "view", "revoke", "rotate", "remove", "clearCollected",
           "purgeAll", "move"}

ASSUME OpsAssumption == Ops \subseteq AllOps
ASSUME BoundsAssumption ==
  {MaxActs, MaxFaults, MaxCalls, MaxRounds} \subseteq Nat
\* Request IDs are UUIDs, and an answer without data tells so.
ASSUME IdsAssumption == IsFiniteSet(Ids)
ASSUME NoDataAssumption ==
  NoData \notin Ids \union Keys \union {"pending", "fulfilled"}

VARIABLES
  server,   \* server[i]: the record the server keeps under i
  lapsed,   \* ids whose expiry has passed on the browser's clock
  store,    \* the stored requests, in localStorage
  files,    \* exported requests
  links,    \* request links that were handed out
  tab,      \* tab[t]: the React state of tab t
  calls,    \* handlers waiting for the server
  rounds,   \* refreshes of the list and polls of the badge in flight
  acts,     \* things the user did so far
  faults,   \* faults so far
  fate,     \* fate[i]: what became of the ciphertext the server handed out
  mishap    \* ids whose key pair went out of step with the server's

requester == <<server, lapsed, store, files, links, tab, calls, rounds, acts,
               faults, fate, mishap>>

------------------------------------------------------------------------------
Record == [state : {"none", "pending", "fulfilled", "gone"},
           key : Keys \union {NoKey}, cipher : Keys \union {NoKey}]
Nothing(state) == [state |-> state, key |-> NoKey, cipher |-> NoKey]

LinkTo(i, k) == [id |-> i, fp |-> k]

Statuses == {"loading", "pending", "fulfilled", "expired", "revoked",
             "collected"}
Settled == {"expired", "revoked", "collected"}

NoDialog == [type |-> "none", all |-> {}]
Dialog   == [type : AllOps \union {"none"}, all : SUBSET Ids]

NoSecret == [id |-> NoData, plain |-> FALSE]

Waiting == [status |-> 1, data |-> NoData]
Reply   == [status : {0, 1, 200, 204, 404, 409, 500},
            data : Keys \union Ids \union {NoData}]

Tab == [page : {"create", "list"}, shown : [Ids -> Entry \union {Absent}],
        status : [Ids -> Statuses], badge : 0..Cardinality(Ids),
        dialog : Dialog, busy : Ids \union {"none", "create", "purge"},
        revealed : [id : Ids, plain : BOOLEAN] \union {NoSecret}]

Call == [op : AllOps, tab : Tabs, live : BOOLEAN, all : SUBSET Ids,
         held : Keys \union {NoKey}, made : Keys \union {NoKey},
         ans : [Ids -> Reply], step : {"asked", "opened"}]

\* got[i]: "absent" asks for nothing, "asked" waits for the server's answer,
\* "fresh" is an answer that says fulfilled, "fulfilled" is the cached one.
Round == [kind : {"list", "badge"}, tab : Tabs, newest : BOOLEAN,
          live : BOOLEAN,
          got : [Ids -> Statuses \union {"absent", "asked", "fresh"}]]

FreshTab(page) ==
  [page |-> page, shown |-> [i \in Ids |-> Absent],
   status |-> [i \in Ids |-> "loading"], badge |-> 0, dialog |-> NoDialog,
   busy |-> "none", revealed |-> NoSecret]

\* Keys are generated fresh: k has never been made.
Used(k) == \/ \E i \in Ids : k \in {server[i].key, server[i].cipher,
                                    store[i].key}
           \/ \E n \in DOMAIN calls : k \in {calls[n].held, calls[n].made}
           \/ \E l \in links : l.fp = k
           \/ \E f \in files : f.entry.key = k

------------------------------------------------------------------------------
(***************************************************************************)
(* refresh of useStoredRequests and countFulfilledRequests, up to their    *)
(* first await: what is settled locally, and what the server is asked.     *)
(***************************************************************************)
LocalStatus(entry, i) ==
  IF entry = Absent       THEN "absent"
  ELSE IF entry.collected THEN "collected"
  ELSE IF entry.revoked   THEN "revoked"
  ELSE IF i \in lapsed    THEN "expired"
  ELSE IF entry.fulfilled THEN "fulfilled"
  ELSE "asked"

\* The badge looks only at what may still be waiting to be collected.
Counted(status) == IF status \in Settled THEN "absent" ELSE status

Got(kind, s) ==
  [i \in Ids |-> IF kind = "list" THEN LocalStatus(s[i], i)
                 ELSE Counted(LocalStatus(s[i], i))]

NewRound(kind, t, s) ==
  [kind |-> kind, tab |-> t, newest |-> TRUE, live |-> TRUE, got |-> Got(kind, s)]

\* With nothing to ask, both end before any other event is handled.
Asks(s) == \E i \in Ids : LocalStatus(s[i], i) = "asked"

Shown(got) == CASE got = "fresh"  -> "fulfilled"
                [] got = "absent" -> "loading"
                [] OTHER          -> got

StatusesOf(got) == [i \in Ids |-> Shown(got[i])]
CountOf(got) == Cardinality({i \in Ids : got[i] \in {"fulfilled", "fresh"}})

\* refreshGen: the newest refresh of a mounted list supersedes the others.
Superseded(rs, t) ==
  [n \in DOMAIN rs |->
     IF rs[n].kind = "list" /\ rs[n].tab = t /\ rs[n].live
     THEN [rs[n] EXCEPT !.newest = FALSE] ELSE rs[n]]

WithList(rs, t, s) ==
  IF Asks(s) THEN Append(Superseded(rs, t), NewRound("list", t, s))
             ELSE Superseded(rs, t)
WithBadge(rs, t, s) ==
  IF Asks(s) THEN Append(rs, NewRound("badge", t, s)) ELSE rs

\* What the React state q of a tab becomes as they start.
ListStarted(q, s) ==
  [q EXCEPT !.shown = s,
            !.status = IF Asks(s) THEN @ ELSE StatusesOf(Got("list", s))]
\* Seeded bug: with nothing to look up there is nothing to count.
NoCountWithoutLookup(q, s) == q

BadgeStarted(q, s) ==
  [q EXCEPT !.badge = IF Asks(s) THEN @ ELSE CountOf(Got("badge", s))]

(***************************************************************************)
(* The REQUESTS_CHANGED_EVENT of a write, which only the window that wrote *)
(* gets: its Navbar polls, and its list, where mounted, refreshes.  A      *)
(* refresh that a handler starts right after its own write supersedes the  *)
(* one that write started, from the same store: one stands for both.       *)
(* Where the list is no longer mounted, that refresh could only mark what  *)
(* the poll started with it marks too.                                     *)
(***************************************************************************)
Announced(rs, t, q, s) ==
  WithBadge(IF q.page = "list" THEN WithList(rs, t, s) ELSE rs, t, s)

Hears(q, s) ==
  BadgeStarted(IF q.page = "list" THEN ListStarted(q, s) ELSE q, s)

Room(k, s) == Asks(s) => Len(rounds) + k <= MaxRounds

\* Tab t, whose state is otherwise q, writes s.
Write(t, q, s) ==
  /\ Room(2, s)
  /\ store' = s
  /\ rounds' = Announced(rounds, t, q, s)
  /\ tab' = [tab EXCEPT ![t] = Hears(q, s)]

Act(op) == op \in Ops /\ acts < MaxActs /\ acts' = acts + 1

------------------------------------------------------------------------------
(***************************************************************************)
(* Navigation, the poll of every 30 seconds, lookups and their ends.       *)
(***************************************************************************)
\* The effect of Navbar runs again and that of the page left is cleaned up;
\* handlers in flight run on, but no longer reach the screen.
Navigate(t, page) ==
  /\ tab[t].page # page
  /\ tab[t].dialog = NoDialog /\ tab[t].revealed = NoSecret
  /\ Room(2, store)
  /\ LET q == [FreshTab(page) EXCEPT !.badge = tab[t].badge]
         left == [n \in DOMAIN rounds |->
                    IF rounds[n].tab = t THEN [rounds[n] EXCEPT !.live = FALSE]
                                         ELSE rounds[n]]
     IN  /\ tab' = [tab EXCEPT ![t] = Hears(q, store)]
         /\ rounds' = Announced(left, t, q, store)
  /\ calls' = [n \in DOMAIN calls |->
                 IF calls[n].tab = t THEN [calls[n] EXCEPT !.live = FALSE]
                                     ELSE calls[n]]
  /\ UNCHANGED <<server, lapsed, store, files, links, acts, faults, fate,
                 mishap>>

Poll(t) ==
  /\ Room(1, store)
  /\ rounds' = WithBadge(rounds, t, store)
  /\ tab' = [tab EXCEPT ![t] = BadgeStarted(@, store)]
  /\ UNCHANGED <<server, lapsed, store, files, links, calls, acts, faults,
                 fate, mishap>>

\* What getSecretRequest answers about i, and what a round makes of it.
Lookup(i) == IF server[i].state \in {"pending", "fulfilled"}
             THEN Clear(200, server[i].state) ELSE Clear(404, NoData)

Resolve(i, answer) ==
  CASE answer.data = "fulfilled" -> "fresh"
    [] answer.data = "pending"   -> "pending"
    [] answer.status = 404       -> IF i \in lapsed THEN "expired" ELSE "revoked"
    [] OTHER                     -> "loading"

LookedUp(n, i) ==
  /\ rounds[n].got[i] = "asked"
  /\ \/ rounds' = [rounds EXCEPT ![n].got[i] = Resolve(i, Lookup(i))]
        /\ UNCHANGED faults
     \/ /\ faults < MaxFaults /\ faults' = faults + 1
        /\ rounds' = [rounds EXCEPT ![n].got[i] = "loading"]
  /\ UNCHANGED <<server, lapsed, store, files, links, tab, calls, acts, fate,
                 mishap>>

Fresh(round)    == {i \in Ids : round.got[i] = "fresh"}
Complete(round) == \A i \in Ids : round.got[i] # "asked"
\* markRequestsFulfilled at the end of round n, with the event of its write.
Marked(n)     == MarkFulfilled(store, Fresh(rounds[n]))
Writes(n)     == MarkWrites(store, Fresh(rounds[n]))
MarkHears(n, q) == IF Writes(n) THEN Hears(q, Marked(n)) ELSE q
Mark(n) ==
  LET t == rounds[n].tab
      rest == RemoveAt(rounds, n)
  IN  IF Writes(n)
      THEN /\ store' = Marked(n)
           /\ rounds' = Announced(rest, t, tab[t], Marked(n))
      ELSE rounds' = rest /\ UNCHANGED store

\* Seeded bug: every refresh that ends is taken to be the newest.
EveryRefreshCounts(round) == TRUE

\* "Drop a refresh that a newer one has superseded".
Current(round) == round.newest

ListDone(n) ==
  /\ rounds[n].kind = "list" /\ Complete(rounds[n])
  /\ LET t == rounds[n].tab
         q == IF rounds[n].live
              THEN [tab[t] EXCEPT !.status = StatusesOf(rounds[n].got)]
              ELSE tab[t]
     IN  IF Current(rounds[n])
         THEN Mark(n) /\ tab' = [tab EXCEPT ![t] = MarkHears(n, q)]
         ELSE rounds' = RemoveAt(rounds, n) /\ UNCHANGED <<store, tab>>
  /\ UNCHANGED <<server, lapsed, files, links, calls, acts, faults, fate,
                 mishap>>

\* The count this poll came for is set after that of the poll its own write
\* started.
BadgeDone(n) ==
  /\ rounds[n].kind = "badge" /\ Complete(rounds[n])
  /\ Mark(n)
  /\ LET t == rounds[n].tab
         q == MarkHears(n, tab[t])
     IN  tab' = [tab EXCEPT ![t] =
                   [q EXCEPT !.badge = IF rounds[n].live
                                       THEN CountOf(rounds[n].got) ELSE @]]
  /\ UNCHANGED <<server, lapsed, files, links, calls, acts, faults, fate,
                 mishap>>

------------------------------------------------------------------------------
(***************************************************************************)
(* The buttons of RequestCard and RequestList, and the modals over them:   *)
(* while one is open nothing else in the tab can be clicked.               *)
(***************************************************************************)
Clickable(t) == /\ tab[t].page = "list"
                /\ tab[t].dialog = NoDialog /\ tab[t].revealed = NoSecret

Offered(t, type, i) ==
  LET status == tab[t].status[i]
  IN  /\ Has(tab[t].shown, i)
      /\ CASE type = "view"   -> status = "fulfilled" /\ tab[t].busy # i
           [] type = "rotate" -> status = "pending"
           [] type = "revoke" -> status \in {"pending", "fulfilled"}
           [] type = "remove" -> TRUE
           [] OTHER           -> FALSE

OfferedForAll(t, type) ==
  CASE type = "clearCollected" -> \E i \in Ids : tab[t].shown[i].collected
    [] type = "purgeAll" -> /\ \E i \in Ids : Has(tab[t].shown, i)
                            /\ tab[t].busy # "purge"
    [] OTHER -> FALSE

\* A click opens ConfirmActionModal.
Ask(t, type, all) ==
  /\ Clickable(t) /\ acts < MaxActs
  /\ IF all = {} THEN OfferedForAll(t, type)
     ELSE \E i \in Ids : all = {i} /\ Offered(t, type, i)
  /\ tab' = [tab EXCEPT ![t].dialog = [type |-> type, all |-> all]]
  /\ UNCHANGED <<server, lapsed, store, files, links, calls, rounds, acts,
                 faults, fate, mishap>>

Cancel(t) ==
  /\ tab[t].dialog # NoDialog
  /\ tab' = [tab EXCEPT ![t].dialog = NoDialog]
  /\ UNCHANGED <<server, lapsed, store, files, links, calls, rounds, acts,
                 faults, fate, mishap>>

Close(t) ==
  /\ tab[t].revealed # NoSecret
  /\ tab' = [tab EXCEPT ![t].revealed = NoSecret]
  /\ UNCHANGED <<server, lapsed, store, files, links, calls, rounds, acts,
                 faults, fate, mishap>>

Started(op, t, all, held, made) ==
  [op |-> op, tab |-> t, live |-> TRUE, all |-> all, held |-> held,
   made |-> made, ans |-> [i \in Ids |-> Waiting], step |-> "asked"]

StartCall(c, busy) ==
  /\ Len(calls) < MaxCalls
  /\ calls' = Append(calls, c)
  /\ tab' = [tab EXCEPT ![c.tab].dialog = NoDialog, ![c.tab].busy = busy]

(***************************************************************************)
(* runConfirmedAction, up to the first await of what it runs.  The entry   *)
(* it works on is the one the list shows, which another tab may have       *)
(* changed since.                                                          *)
(***************************************************************************)
Confirmed(t, type) == tab[t].dialog.type = type /\ Act(type)

\* viewSecret, revoke and rotateKey send one request, with r.token.
ConfirmOne(t, type) ==
  /\ Confirmed(t, type)
  /\ \E i \in tab[t].dialog.all :
       LET r == tab[t].shown[i]
       IN  IF r = Absent
           THEN /\ tab' = [tab EXCEPT ![t].dialog = NoDialog]
                /\ UNCHANGED calls
           ELSE \E made \in IF type = "rotate" THEN {k \in Keys : ~Used(k)}
                                               ELSE {NoKey} :
                  StartCall(Started(type, t, {i}, r.key, made), i)
  /\ UNCHANGED <<server, lapsed, store, files, links, rounds, faults, fate,
                 mishap>>

\* purgeAll revokes whatever is in the store and not over yet.
PurgeAnswers(s) ==
  [i \in Ids |-> IF s[i].collected \/ s[i].revoked THEN Clear(204, NoData)
                                                   ELSE Waiting]
ConfirmPurge(t) ==
  /\ Confirmed(t, "purgeAll")
  /\ StartCall([Started("purgeAll", t, {i \in Ids : Has(store, i)}, NoKey, NoKey)
                  EXCEPT !.ans = PurgeAnswers(store)], "purge")
  /\ UNCHANGED <<server, lapsed, store, files, links, rounds, faults, fate,
                 mishap>>

\* The local ones: removeStoredRequest and clearCollectedRequests.
ConfirmLocal(t, type) ==
  /\ type \in {"remove", "clearCollected"}
  /\ Confirmed(t, type)
  /\ LET found == {i \in tab[t].dialog.all : Has(tab[t].shown, i)}
         q == [tab[t] EXCEPT !.dialog = NoDialog]
     IN  CASE type = "clearCollected" -> Write(t, q, ClearCollected(store))
           [] type = "remove" /\ found # {} -> Write(t, q, RemoveStored(store, found))
           [] OTHER -> /\ tab' = [tab EXCEPT ![t] = q]
                       /\ UNCHANGED <<store, rounds>>
  /\ UNCHANGED <<server, lapsed, files, links, calls, faults, fate, mishap>>

\* CreateRequest.onSubmit: a new key pair, and the public half is sent.
SubmitCreate(t) ==
  /\ tab[t].page = "create" /\ tab[t].busy = "none"
  /\ Act("create")
  /\ \E k \in Keys : ~Used(k) /\ StartCall(Started("create", t, {}, NoKey, k),
                                           "create")
  /\ UNCHANGED <<server, lapsed, store, files, links, rounds, faults, fate,
                 mishap>>

\* copyLink: the fingerprint of the key this tab shows.
CopyLink(t, i) ==
  /\ Clickable(t) /\ Has(tab[t].shown, i) /\ tab[t].status[i] = "pending"
  /\ links' = links \union {LinkTo(i, tab[t].shown[i].key)}
  /\ UNCHANGED <<server, lapsed, store, files, tab, calls, rounds, acts, faults,
                 fate, mishap>>

\* exportRequest and ImportRequestPanel.importJson, an entry taken whole.
Export(t, i) ==
  /\ Clickable(t) /\ Has(tab[t].shown, i)
  /\ "move" \in Ops /\ files = {}
  /\ files' = {[id |-> i, entry |-> tab[t].shown[i]]}
  /\ UNCHANGED <<server, lapsed, store, links, tab, calls, rounds, acts, faults,
                 fate, mishap>>

Import(t) ==
  /\ Clickable(t) /\ Act("move")
  /\ \E f \in files :
       /\ Write(t, tab[t], SaveStored(store, f.id, f.entry))
       /\ mishap' = IF f.entry.key = server[f.id].key THEN mishap
                    ELSE mishap \union {f.id}
  /\ UNCHANGED <<server, lapsed, files, links, calls, faults, fate>>

------------------------------------------------------------------------------
(***************************************************************************)
(* The server's side of a call, at once, and what the caller hears of it.  *)
(***************************************************************************)
Said(op, rec) ==
  CASE op = "view" ->
         IF rec.state = "fulfilled" THEN Clear(200, rec.cipher)
         ELSE Clear(IF rec.state = "pending" THEN 409 ELSE 404, NoData)
    [] op = "rotate" ->
         Clear(CASE rec.state = "pending" -> 200 [] rec.state = "fulfilled" -> 409
                 [] OTHER -> 404, NoData)
    [] OTHER ->
         Clear(IF rec.state \in {"pending", "fulfilled"} THEN 204 ELSE 404, NoData)

Did(op, rec, made) ==
  CASE op = "view"   -> IF rec.state = "fulfilled" THEN Nothing("gone") ELSE rec
    [] op = "rotate" -> IF rec.state = "pending" THEN [rec EXCEPT !.key = made]
                                                 ELSE rec
    [] OTHER         -> Nothing("gone")

Asking(n, i) == /\ calls[n].op \in {"view", "revoke", "rotate", "purgeAll"}
                /\ i \in calls[n].all /\ calls[n].ans[i] = Waiting

\* Every request that reached the server and whose answer arrived.
Serve(n, i) ==
  /\ Asking(n, i)
  /\ LET c == calls[n]
         said == Said(c.op, server[i])
     IN  /\ server' = [server EXCEPT ![i] = Did(c.op, @, c.made)]
         /\ calls' = [calls EXCEPT ![n].ans[i] = said]
         /\ fate' = IF c.op = "view" /\ said.status = 200
                    THEN [fate EXCEPT ![i] = "carried"] ELSE fate
  /\ UNCHANGED <<lapsed, store, files, links, tab, rounds, acts, faults, mishap>>

\* One that did not reach it, or whose answer was lost or unreadable.
ServeBadly(n, i) ==
  /\ Asking(n, i)
  /\ faults < MaxFaults /\ faults' = faults + 1
  /\ LET c == calls[n]
         said == Said(c.op, server[i])
     IN  \/ /\ calls' = [calls EXCEPT ![n].ans[i] = Lost]
            /\ UNCHANGED <<server, fate, mishap>>
         \/ /\ server' = [server EXCEPT ![i] = Did(c.op, @, c.made)]
            /\ \E heard \in Faulty(said.status, said.data) :
                 /\ calls' = [calls EXCEPT ![n].ans[i] = heard]
                 /\ mishap' = IF c.op = "rotate" /\ heard.status # said.status
                              THEN mishap \union {i} ELSE mishap
            /\ fate' = IF c.op = "view" /\ said.status = 200
                       THEN [fate EXCEPT ![i] = "lost"] ELSE fate
  /\ UNCHANGED <<lapsed, store, files, links, tab, rounds, acts>>

\* createSecretRequest: an ID that was never used, if it is not refused.
ServeCreate(n) ==
  /\ calls[n].op = "create" /\ calls[n].all = {}
  /\ \E i \in Ids :
       /\ server[i].state = "none"
       /\ server' = [server EXCEPT ![i] = [state |-> "pending",
                                           key |-> calls[n].made,
                                           cipher |-> NoKey]]
       /\ \/ calls' = [calls EXCEPT ![n].all = {i}, ![n].ans[i] = Clear(200, i)]
             /\ UNCHANGED faults
          \/ /\ faults < MaxFaults /\ faults' = faults + 1
             /\ calls' = [calls EXCEPT ![n].all = {i}, ![n].ans[i] = Lost]
  /\ UNCHANGED <<lapsed, store, files, links, tab, rounds, acts, fate, mishap>>

------------------------------------------------------------------------------
(***************************************************************************)
(* The handlers, from their answer on.                                     *)
(***************************************************************************)
Answered(n, op) == calls[n].op = op /\ \A i \in calls[n].all :
                                          calls[n].ans[i] # Waiting
Free(t, n) == IF calls[n].live THEN [tab[t] EXCEPT !.busy = "none"] ELSE tab[t]
EndCall(n) == calls' = RemoveAt(calls, n)

WriteAndFree(n, s) == LET t == calls[n].tab IN Write(t, Free(t, n), s)

CreateDone(n) ==
  /\ Answered(n, "create") /\ calls[n].all # {}
  /\ LET c == calls[n]
         t == c.tab
     IN  \E i \in c.all :
           IF c.ans[i].data = NoData
           THEN /\ tab' = [tab EXCEPT ![t] = Free(t, n)]
                /\ UNCHANGED <<store, rounds, links>>
           ELSE /\ WriteAndFree(n, SaveStored(store, i, NewEntry(c.made)))
                /\ links' = IF c.live THEN links \union {LinkTo(i, c.made)}
                            ELSE links
  /\ EndCall(n)
  /\ UNCHANGED <<server, lapsed, files, acts, faults, fate, mishap>>

\* viewSecret, up to decryptRequestSecret.
ViewAnswered(n) ==
  /\ Answered(n, "view") /\ calls[n].step = "asked"
  /\ LET c == calls[n]
         t == c.tab
     IN  \E i \in c.all :
           IF c.ans[i].data = NoData
           THEN /\ EndCall(n)
                /\ tab' = [tab EXCEPT ![t] = Free(t, n)]
                /\ UNCHANGED <<store, rounds>>
           ELSE /\ calls' = [calls EXCEPT ![n].step = "opened"]
                /\ Write(t, tab[t], UpdateCollected(store, i))
  /\ UNCHANGED <<server, lapsed, files, links, acts, faults, fate, mishap>>

\* Seeded bug: a ciphertext that does not open is reported, not shown.
ShowOnlyPlain(i, plain) == IF plain THEN [id |-> i, plain |-> TRUE] ELSE NoSecret

Revealed(i, plain) == [id |-> i, plain |-> plain]

\* From there on: the secret, or the ciphertext that did not open, is shown.
ViewDone(n) ==
  /\ calls[n].op = "view" /\ calls[n].step = "opened"
  /\ Room(1, store)
  /\ LET c == calls[n]
         t == c.tab
     IN  \E i \in c.all :
           LET shows == Revealed(i, c.ans[i].data = c.held)
           IN  IF c.live
               THEN /\ tab' = [tab EXCEPT ![t] =
                        ListStarted([Free(t, n) EXCEPT !.revealed = shows], store)]
                    /\ rounds' = WithList(rounds, t, store)
                    /\ fate' = [fate EXCEPT ![i] = IF shows = NoSecret THEN "dropped"
                                                   ELSE "shown"]
               ELSE /\ fate' = [fate EXCEPT ![i] = "unseen"]
                    /\ UNCHANGED <<tab, rounds>>
  /\ EndCall(n)
  /\ UNCHANGED <<server, lapsed, store, files, links, acts, faults, mishap>>

RevokeDone(n) ==
  /\ Answered(n, "revoke")
  /\ LET c == calls[n]
         t == c.tab
     IN  \E i \in c.all :
           IF c.ans[i].status \in {204, 404}
           THEN WriteAndFree(n, UpdateRevoked(store, i))
           ELSE /\ tab' = [tab EXCEPT ![t] = Free(t, n)]
                /\ UNCHANGED <<store, rounds>>
  /\ EndCall(n)
  /\ UNCHANGED <<server, lapsed, files, links, acts, faults, fate, mishap>>

\* Seeded bug: the entry is written back as the handler knew it.
StaleKey(s, i, c) == IF Has(s, i) THEN [s EXCEPT ![i].key = c.held] ELSE s

RotatedKey(s, i, c) == UpdateKey(s, i, c.made)

\* A rotation answered after a later one undoes it in the store.
Overtaken(n, i) == /\ server[i].key # calls[n].made
                   /\ \A m \in DOMAIN calls : calls[m].made # server[i].key

RotateDone(n) ==
  /\ Answered(n, "rotate")
  /\ LET c == calls[n]
         t == c.tab
     IN  \E i \in c.all :
           IF c.ans[i].status = 200
           THEN /\ WriteAndFree(n, RotatedKey(store, i, c))
                /\ mishap' = CASE server[i].key = c.made -> mishap \ {i}
                               [] Overtaken(n, i) -> mishap \union {i}
                               [] OTHER -> mishap
           ELSE /\ tab' = [tab EXCEPT ![t] = Free(t, n)]
                /\ UNCHANGED <<store, rounds, mishap>>
  /\ EndCall(n)
  /\ UNCHANGED <<server, lapsed, files, links, acts, faults, fate>>

\* Entries whose revocation failed stay; if none failed, the store is wiped.
Failed(c) == {i \in c.all : c.ans[i].status \notin {204, 404}}

PurgeDone(n) ==
  /\ Answered(n, "purgeAll")
  /\ LET c == calls[n]
     IN  WriteAndFree(n, IF Failed(c) = {} THEN ClearAll(store)
                         ELSE RemoveStored(store, c.all \ Failed(c)))
  /\ EndCall(n)
  /\ UNCHANGED <<server, lapsed, files, links, acts, faults, fate, mishap>>

------------------------------------------------------------------------------
(***************************************************************************)
(* Time, and the tab that is reloaded with handlers in flight.             *)
(***************************************************************************)
Lapse(i) ==
  /\ server[i].state \in {"pending", "fulfilled"}
  /\ server' = [server EXCEPT ![i] = Nothing("gone")]
  /\ UNCHANGED <<lapsed, store, files, links, tab, calls, rounds, acts, faults,
                 fate, mishap>>

Pass(i) ==
  /\ server[i].state # "none" /\ i \notin lapsed
  /\ lapsed' = lapsed \union {i}
  /\ UNCHANGED <<server, store, files, links, tab, calls, rounds, acts, faults,
                 fate, mishap>>

\* What is at the places I of s: nothing depends on the order of what waits.
Those(s, I) ==
  LET m == Cardinality(I)
      place == CHOOSE f \in Bijection(1..m, I) : TRUE
  IN  [n \in 1..m |-> s[place[n]]]

Rotating(c, i) == c.op = "rotate" /\ i \in c.all
Carrying(c, i) == c.op = "view" /\ i \in c.all

Reload(t) ==
  /\ faults < MaxFaults /\ faults' = faults + 1
  /\ tab' = [tab EXCEPT ![t] = Hears(FreshTab(@.page), store)]
  /\ LET mine(c) == c.tab = t
         elsewhere(s) == {n \in DOMAIN s : ~mine(s[n])}
         theirs == Those(rounds, elsewhere(rounds))
     IN  /\ calls' = Those(calls, elsewhere(calls))
         /\ rounds' = Announced(theirs, t, tab[t], store)
         /\ mishap' = mishap \union {i \in Ids : \E n \in DOMAIN calls :
                                       mine(calls[n]) /\ Rotating(calls[n], i)}
         /\ fate' = [i \in Ids |->
                       IF \E n \in DOMAIN calls : mine(calls[n]) /\ Carrying(calls[n], i)
                       THEN IF fate[i] = "carried" THEN "lost" ELSE fate[i]
                       ELSE fate[i]]
  /\ UNCHANGED <<server, lapsed, store, files, links, acts>>

------------------------------------------------------------------------------
RequesterInit ==
  /\ server = [i \in Ids |-> Nothing("none")]
  /\ lapsed = {}
  /\ store = [i \in Ids |-> Absent]
  /\ files = {}
  /\ links = {}
  /\ tab = [t \in Tabs |-> FreshTab("create")]
  /\ calls = <<>>
  /\ rounds = <<>>
  /\ acts = 0
  /\ faults = 0
  /\ fate = [i \in Ids |-> "none"]
  /\ mishap = {}

\* What the browser and the server do by themselves.
Progress ==
  \/ \E n \in DOMAIN rounds : ListDone(n) \/ BadgeDone(n)
  \/ \E n \in DOMAIN rounds, i \in Ids : LookedUp(n, i)
  \/ \E n \in DOMAIN calls, i \in Ids : Serve(n, i)
  \/ \E n \in DOMAIN calls : ServeCreate(n)
  \/ \E n \in DOMAIN calls :
       CreateDone(n) \/ ViewAnswered(n) \/ ViewDone(n) \/ RevokeDone(n)
         \/ RotateDone(n) \/ PurgeDone(n)

\* What the user does.
Clicks ==
  \/ \E t \in Tabs, page \in {"create", "list"} : Navigate(t, page)
  \/ \E t \in Tabs, type \in Ops, all \in SUBSET Ids : Ask(t, type, all)
  \/ \E t \in Tabs : Cancel(t) \/ Close(t)
  \/ \E t \in Tabs, type \in {"view", "revoke", "rotate"} : ConfirmOne(t, type)
  \/ \E t \in Tabs, type \in {"remove", "clearCollected"} : ConfirmLocal(t, type)
  \/ \E t \in Tabs : ConfirmPurge(t) \/ SubmitCreate(t) \/ Import(t)
  \/ \E t \in Tabs, i \in Ids : CopyLink(t, i) \/ Export(t, i)

Mishaps ==
  \/ \E i \in Ids : Lapse(i) \/ Pass(i)
  \/ \E n \in DOMAIN calls, i \in Ids : ServeBadly(n, i)
  \/ \E t \in Tabs : Reload(t)

RequesterNext ==
  \/ Progress
  \/ \E t \in Tabs : Poll(t)
  \/ Clicks
  \/ Mishaps
==============================================================================
