----------------------------- MODULE RequestPages -----------------------------
(***************************************************************************)
(* Both sides of secret requests in their browsers: RequestList and the    *)
(* page #/r/<id>/<fingerprint> (ProvideSecret) of the people who were sent *)
(* a link.                                                                 *)
(***************************************************************************)
EXTENDS RequestList

CONSTANT Responders

VARIABLE page   \* page[p]: the React state of responder p's page

vars == <<requester, page>>

------------------------------------------------------------------------------
\* A link whose fingerprint was cut off carries NoKey.
Link   == [id : Ids, fp : Keys \union {NoKey}]
NoLink == [id |-> NoData, fp |-> NoKey]
Truncated(l) == [l EXCEPT !.fp = NoKey]

PageStates == {"closed", "loading", "ready", "submitted", "alreadyFulfilled",
               "notFound", "integrityError"}
Page == [state : PageStates, link : Link \union {NoLink},
         key : Keys \union {NoKey}]
Closed == [state |-> "closed", link |-> NoLink, key |-> NoKey]

Opened(l) == [Closed EXCEPT !.state = "loading", !.link = l]
\* The other screens keep nothing of what was loaded.
Verdict(state) == [Closed EXCEPT !.state = state]

Open(p) ==
  /\ page[p].state \in {"closed", "integrityError"}
  /\ \E l \in links, cut \in BOOLEAN :
       page' = [page EXCEPT ![p] = Opened(IF cut THEN Truncated(l) ELSE l)]
  /\ UNCHANGED requester

\* Seeded bug: whatever key the server shows is encrypted to.
AnyKeyFits(q, key) == TRUE

\* The fingerprint in the link is that of the key the server shows.
Matches(q, key) == q.link.fp = key

\* load: nothing to verify against; or what getSecretRequest said.
Loaded(q, answer, key) ==
  IF q.link.fp = NoKey              THEN Verdict("integrityError")
  ELSE IF answer.data = NoData      THEN Verdict("notFound")
  ELSE IF answer.data = "fulfilled" THEN Verdict("alreadyFulfilled")
  ELSE IF ~Matches(q, key)          THEN Verdict("integrityError")
  ELSE [q EXCEPT !.state = "ready", !.key = key]

Load(p) ==
  /\ page[p].state = "loading"
  /\ LET i == page[p].link.id
     IN  page' = [page EXCEPT ![p] = Loaded(@, Lookup(i), server[i].key)]
  /\ UNCHANGED requester

LoadBadly(p) ==
  /\ page[p].state = "loading" /\ page[p].link.fp # NoKey
  /\ faults < MaxFaults /\ faults' = faults + 1
  /\ page' = [page EXCEPT ![p] = Loaded(@, Lost, NoKey)]
  /\ UNCHANGED <<server, lapsed, store, files, links, tab, calls, rounds, acts,
                 fate, mishap>>

(***************************************************************************)
(* onSubmit: the text or file in the form, encrypted to the key the page   *)
(* loaded.  The button stays disabled until the answer has been shown, so  *)
(* that one step covers both; after an error the page is as it was, and    *)
(* may submit again.                                                       *)
(***************************************************************************)
SaidToProvide(rec) ==
  Clear(CASE rec.state = "pending" -> 200 [] rec.state = "fulfilled" -> 409
          [] OTHER -> 404, NoData)
Provided(rec, k) ==
  IF rec.state = "pending" THEN [rec EXCEPT !.state = "fulfilled", !.cipher = k]
  ELSE rec

After(q, status) ==
  CASE status = 200 -> Verdict("submitted")
    [] status = 409 -> Verdict("alreadyFulfilled")
    [] status = 404 -> Verdict("notFound")
    [] OTHER        -> q

Submittable(p) == page[p].state = "ready"

Submit(p) ==
  /\ Submittable(p)
  /\ LET i == page[p].link.id
     IN  /\ page' = [page EXCEPT ![p] = After(@, SaidToProvide(server[i]).status)]
         /\ server' = [server EXCEPT ![i] = Provided(@, page[p].key)]
  /\ UNCHANGED <<lapsed, store, files, links, tab, calls, rounds, acts, faults,
                 fate, mishap>>

\* The answer is lost, whether the server acted or not.
SubmitBadly(p) ==
  /\ Submittable(p)
  /\ faults < MaxFaults /\ faults' = faults + 1
  /\ LET i == page[p].link.id
     IN  \/ server' = [server EXCEPT ![i] = Provided(@, page[p].key)]
         \/ UNCHANGED server
  /\ page' = [page EXCEPT ![p] = After(@, Lost.status)]
  /\ UNCHANGED <<lapsed, store, files, links, tab, calls, rounds, acts, fate,
                 mishap>>

------------------------------------------------------------------------------
Init == RequesterInit /\ page = [p \in Responders |-> Closed]

Next ==
  \/ RequesterNext /\ UNCHANGED page
  \/ \E p \in Responders : Open(p) \/ Load(p) \/ Submit(p)
  \/ \E p \in Responders : LoadBadly(p) \/ SubmitBadly(p)

(***************************************************************************)
(* JavaScript runs what is ready to run, answers arrive, and the interval  *)
(* of the badge fires again and again.  Nobody has to click.               *)
(***************************************************************************)
Fairness == /\ WF_vars(Progress /\ UNCHANGED page)
            /\ \A t \in Tabs : WF_vars(Poll(t) /\ UNCHANGED page)

Spec == Init /\ [][Next]_vars /\ Fairness

------------------------------------------------------------------------------
(***************************************************************************)
(* Properties.                                                             *)
(***************************************************************************)
\* Every variable stays within its type.
TypeOK ==
  /\ server \in [Ids -> Record]
  /\ lapsed \subseteq Ids
  /\ store \in [Ids -> Entry \union {Absent}]
  /\ \A f \in files : f.id \in Ids /\ f.entry \in Entry
  /\ links \subseteq Link
  /\ tab \in [Tabs -> Tab]
  /\ \A n \in DOMAIN calls : calls[n] \in Call
  /\ \A n \in DOMAIN rounds : rounds[n] \in Round
  /\ acts \in 0..MaxActs
  /\ faults \in 0..MaxFaults
  /\ fate \in [Ids -> {"none", "carried", "shown", "unseen", "dropped", "lost"}]
  /\ mishap \subseteq Ids
  /\ page \in [Responders -> Page]

(***************************************************************************)
(* The private key of a stored request that is still open is the one whose *)
(* public half the server shows, whatever refreshes, polls, tabs and       *)
(* handlers are in flight (updateStoredRequest patches what is stored now, *)
(* not what a handler remembers).  It may differ while a rotation is in    *)
(* flight, and after the known mishaps: a rotation whose answer was lost,  *)
(* or arrived after that of a later one, and the import of an old export.  *)
(***************************************************************************)
KeyKept ==
  \A i \in Ids :
    \/ ~Has(store, i) \/ server[i].state \notin {"pending", "fulfilled"}
    \/ i \in mishap
    \/ \E n \in DOMAIN calls : Rotating(calls[n], i)
    \/ store[i].key = server[i].key

(***************************************************************************)
(* What viewSecret fetched is the only copy: once it has arrived it is on  *)
(* its way to the screen or was shown, as ciphertext if it does not open,  *)
(* unless the user had left the page (RequestList.tsx:69-88).              *)
(***************************************************************************)
ArrivedIsShown ==
  \A i \in Ids :
    /\ fate[i] # "dropped"
    /\ fate[i] = "carried" => \E n \in DOMAIN calls : Carrying(calls[n], i)

(***************************************************************************)
(* What is stored as the answer was encrypted to the key whose fingerprint *)
(* is in the link that its author opened, never just to the key the server *)
(* showed (ProvideSecret.load).                                            *)
(***************************************************************************)
CipherMatchesLink ==
  [][\A i \in Ids : server'[i].cipher \notin {server[i].cipher, NoKey} =>
       \E p \in Responders : /\ page[p].state = "ready"
                             /\ page[p].link = LinkTo(i, server'[i].cipher)]_vars

(***************************************************************************)
(* The list never goes back: what it showed as collected, revoked or       *)
(* expired, or as provided, does not become pending again, and what it     *)
(* knows to be over is not offered again, although refreshes overlap and   *)
(* their lookups come back in any order.  (What is only thought revoked,   *)
(* from a 404, may be offered again: a poll that asked before may cache    *)
(* its answer after.)  Importing an old export resets the cache.           *)
(***************************************************************************)
Backwards(t, i, old, new) ==
  \/ new = "pending" /\ old \in Settled \union {"fulfilled"}
  \/ new = "fulfilled" /\ old \in {"expired", "collected"}
  \/ new = "fulfilled" /\ old = "revoked" /\ tab[t].shown[i].revoked

StatusNeverBackwards ==
  [][\A t \in Tabs, i \in Ids :
       files = {} => ~Backwards(t, i, tab[t].status[i], tab'[t].status[i])]_vars

(***************************************************************************)
(* A secret that was provided is noticed: the 30-second poll caches it in  *)
(* the store, or meanwhile the request is over or no longer kept.          *)
(***************************************************************************)
Waits(i) == server[i].state = "fulfilled" /\ Has(store, i) /\ ~store[i].fulfilled
Over(i)  == \/ server[i].state = "gone" \/ i \in lapsed
            \/ ~Has(store, i) \/ store[i].revoked \/ store[i].fulfilled

ProvidedNoticed == \A i \in Ids : Waits(i) ~> Over(i)

(***************************************************************************)
(* In the end the badge counts the requests that are known to be provided  *)
(* and still to be collected: polls that overlap write old counts, but not *)
(* for ever.                                                               *)
(***************************************************************************)
ToCollect == Cardinality({i \in Ids : LocalStatus(store[i], i) = "fulfilled"})

BadgeSettles == \A t \in Tabs : <>[](tab[t].badge = ToCollect)

(***************************************************************************)
(* en.json:211 says of a secret on the screen: "This is the only time it   *)
(* will be shown - copy it somewhere safe now."  So it stays until the     *)
(* user closes it.                                                         *)
(***************************************************************************)
ShownUntilClosed ==
  [][\A t \in Tabs : tab[t].revealed # NoSecret =>
       tab'[t].revealed \in {tab[t].revealed, NoSecret}]_vars
==============================================================================
