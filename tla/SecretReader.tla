----------------------------- MODULE SecretReader -----------------------------
(***************************************************************************)
(* From the form to the recipient: the pages that create secrets           *)
(* (SecretForm), and the tab of a recipient who follows the links that     *)
(* were shown (features/display-secret).  Following one link after another *)
(* changes only the fragment of the address, so that Prefetcher stays      *)
(* mounted and keeps its state; loading the page mounts it afresh.         *)
(*                                                                         *)
(* A step is an event together with the renders and the effects that       *)
(* follow it, since React runs those before the next event.  Decrypting a  *)
(* text is part of the step that renders it.                               *)
(*                                                                         *)
(* Left out: the login gate (a secret that requires authentication), and   *)
(* steps of the sender after the recipient came, which touch no link that  *)
(* was shown before.                                                       *)
(***************************************************************************)
EXTENDS SecretForm

CONSTANTS
  None,       \* no text, no key
  Gets,       \* GET requests: Gets bounds how many are in flight
  MaxVisits   \* bound on the links followed

ASSUME VisitsAssumption == MaxVisits \in Nat
ASSUME NoneAssumption == None \notin Ids

VARIABLES
  tab,     \* the recipient's tab
  get,     \* get[n]: the GET request n for a secret or file
  visits   \* links followed so far

vars == <<config, server, store, form, post, shown, acts, faults,
          tab, get, visits>>

Address  == [id : Ids, key : Keys \union {NoKey}, file : BOOLEAN]

\* useSecretStatus; known is status.value?.oneTime.
Status   == [busy : BOOLEAN, known : {"none", "oneTime", "many"}, failed : BOOLEAN]
NoStatus == [busy |-> FALSE, known |-> "none", failed |-> FALSE]

\* useFetchSecret; of is fetchedKeyRef, secret the ID of the ciphertext it has.
Text   == [of : Ids \union {None}, busy : BOOLEAN, secret : Ids \union {None},
           failed : BOOLEAN]
NoText == [of |-> None, busy |-> FALSE, secret |-> None, failed |-> FALSE]

\* StreamingDecryptor.
File   == [of : Ids \union {None}, key : Keys \union {NoKey},
           phase : {"idle", "loading", "gone", "download", "decrypt", "done"}]
NoFile == [of |-> None, key |-> NoKey, phase |-> "idle"]

\* requested is fetchRequested, password that of Decryptor.  What revealed and
\* moved record no code reads: the secrets whose reveal button was pressed and
\* whether Prefetcher came here from another link.
Tab    == [address : Address, requested : BOOLEAN, status : Status, text : Text,
           password : Keys \union {NoKey}, file : File,
           revealed : SUBSET Ids, moved : BOOLEAN]
Closed == [address |-> None]   \* the recipient has not come yet
Blank  == [address |-> NoKey]  \* nothing was followed yet

\* because, which no code reads: the reveal button was pressed for it, or it
\* was not, in a page that has shown only this link, or others before.
Get   == [id : Ids, file : BOOLEAN, key : Keys \union {NoKey}, live : BOOLEAN,
          because : {"revealed", "first", "moved"},
          answer : {"none", "secret", "gone", "lost", "cut"}]
NoGet == [live |-> FALSE]

Asked   == {n \in Gets : get[n] # NoGet}
Reading == tab \notin {Closed, Blank}

------------------------------------------------------------------------------
(***************************************************************************)
(* Prefetcher: what it fetches, and what it shows.                         *)
(***************************************************************************)
StatusEnabled(t) == config.prefetch /\ ~t.requested

\* Seeded bug: a status that is not there yet counts as not one-time.
FetchUnlessOneTime(t) ==
  t.requested \/ (config.prefetch /\ t.status.known # "oneTime")

FetchSecret(t) == t.requested \/ (config.prefetch /\ t.status.known = "many")

\* The early returns of Prefetcher, in their order.
Screen(t) ==
  LET textLoading == ~t.address.file
                       /\ (t.text.busy \/ (FetchSecret(t) /\ t.text.secret = None))
  IN  IF t.status.failed \/ t.text.failed THEN "error"
      ELSE IF t.status.busy \/ textLoading THEN "loading"
      ELSE IF ~FetchSecret(t) THEN "confirm"
      ELSE IF t.address.file THEN "file" ELSE "text"

------------------------------------------------------------------------------
(***************************************************************************)
(* The effects after a render.  Each takes the tab and returns it changed. *)
(***************************************************************************)
\* useSecretStatus: the last value stays until the new answer arrives.
AskStatus(t) == IF StatusEnabled(t) THEN [t EXCEPT !.status.busy = TRUE]
                ELSE [t EXCEPT !.status = NoStatus]

\* Seeded bug: the effect does not remember what it fetched.
FetchesAgain(t) == ~t.address.file /\ FetchSecret(t)

FetchesText(t) ==
  ~t.address.file /\ FetchSecret(t) /\ t.text.of # t.address.id

FetchText(t) ==
  IF FetchesText(t)
  THEN [t EXCEPT !.text = [NoText EXCEPT !.of = t.address.id, !.busy = TRUE]]
  ELSE t

\* StreamingDecryptor is mounted anew for every key, Decryptor whenever it
\* comes back; both take the password from the address then, and only then.
Mounted(old, t) ==
  LET stays(screen) == old # Blank /\ Screen(t) = screen /\ Screen(old) = screen
  IN  [t EXCEPT
        !.password = IF Screen(t) # "text" THEN NoKey
                     ELSE IF stays("text") THEN t.password
                     ELSE t.address.key,
        !.file = IF Screen(t) # "file" THEN NoFile
                 ELSE IF stays("file") /\ t.file.of = t.address.id THEN t.file
                 ELSE [of |-> t.address.id, key |-> t.address.key,
                       phase |-> IF t.address.key = NoKey THEN "idle"
                                 ELSE "loading"]]

GetOf(t, key) ==
  [id |-> t.address.id, file |-> t.address.file, key |-> key, live |-> TRUE,
   because |-> IF t.address.id \in t.revealed THEN "revealed"
               ELSE IF t.moved THEN "moved" ELSE "first",
   answer |-> "none"]

Send(g, request) == LET free == {n \in Gets : g[n] = NoGet}
                    IN  /\ free # {}
                        /\ get' = [g EXCEPT ![CHOOSE n \in free : TRUE] = request]

\* What follows an event that made t of the tab.  A first render mounts what
\* t shows, and a file with a key in its address is downloaded at once.  Then
\* the effects of Prefetcher ask for the status, if asks, and fetch the text,
\* and a second render may unmount the file again.  Of the requests in flight
\* (g) those of an unmounted component are on their own.
React(old, t, asks, g) ==
  LET first     == Mounted(old, t)
      asked     == IF asks THEN AskStatus(first) ELSE first
      new       == Mounted(first, FetchText(asked))
      mounted   == old = Blank \/ old.file.of # first.file.of
      downloads == mounted /\ first.file.phase = "loading"
      stays     == new.file = first.file
      waits(n)  == g[n].live /\ old # Blank /\ (g[n].file => ~mounted /\ stays)
      rest      == [n \in Gets |-> IF g[n] = NoGet THEN NoGet
                                   ELSE [g[n] EXCEPT !.live = waits(n)]]
  IN  /\ tab' = new
      /\ IF downloads
         THEN Send(rest, [GetOf(t, first.file.key) EXCEPT !.live = stays])
         ELSE IF FetchesText(asked) THEN Send(rest, GetOf(t, NoKey))
         ELSE get' = rest

------------------------------------------------------------------------------
(***************************************************************************)
(* The sender is done and the recipient comes.                             *)
(***************************************************************************)
Come ==
  /\ tab = Closed /\ tab' = Blank
  /\ form' = FreshForm("create")
  /\ post' = [n \in Posts |-> NoPost]
  /\ acts' = MaxActs
  /\ UNCHANGED <<config, server, store, shown, faults, get, visits>>

\* The links that were shown, with and without the key (Result.tsx).
Addresses ==
  {[id |-> link.id, key |-> NoKey, file |-> link.file] :
     link \in {l \in shown : l.id # NoData}}
  \union
  {[id |-> link.id, key |-> link.key, file |-> link.file] :
     link \in {l \in shown : l.id # NoData /\ l.inLink}}

FreshTab(address) ==
  [address |-> address, requested |-> ~config.prefetch,
   status |-> NoStatus, text |-> NoText, password |-> NoKey, file |-> NoFile,
   revealed |-> {}, moved |-> FALSE]

\* A link is followed in a page that is loaded for it, or in the page that
\* shows another link already.
Load ==
  /\ tab # Closed /\ visits < MaxVisits /\ visits' = visits + 1
  /\ \E a \in Addresses : React(Blank, AskStatus(FreshTab(a)), FALSE, get)
  /\ UNCHANGED <<config, server, store, form, post, shown, acts, faults>>

\* The hooks compare the key, not the whole address.
Asks(a, b) == a.id # b.id \/ a.file # b.file

Follow ==
  /\ Reading /\ visits < MaxVisits /\ visits' = visits + 1
  /\ \E a \in Addresses \ {tab.address} :
       LET t == [tab EXCEPT !.address = a,
                            !.moved = @ \/ a.id # tab.address.id]
       IN  React(tab, t, Asks(a, tab.address), get)
  /\ UNCHANGED <<config, server, store, form, post, shown, acts, faults>>

Unchanged == UNCHANGED <<config, store, form, post, shown, acts, visits>>

Held(i) == server[i].state = "kept"

\* The answer to the status request, which changes nothing on the server.
StatusArrives ==
  /\ Reading /\ tab.status.busy
  /\ LET i == tab.address.id
     IN  React(tab,
               [tab EXCEPT !.status =
                 [busy |-> FALSE,
                  known |-> IF ~Held(i) THEN "none"
                            ELSE IF server[i].oneTime THEN "oneTime" ELSE "many",
                  failed |-> ~Held(i)]],
               FALSE, get)
  /\ UNCHANGED <<server, faults>> /\ Unchanged

StatusLost ==
  /\ Reading /\ tab.status.busy
  /\ faults < MaxFaults /\ faults' = faults + 1
  /\ React(tab, [tab EXCEPT !.status = [NoStatus EXCEPT !.failed = TRUE]], FALSE, get)
  /\ UNCHANGED server /\ Unchanged

\* "Reveal secret message".
Reveal ==
  /\ Reading /\ Screen(tab) = "confirm"
  /\ React(tab,
           [tab EXCEPT !.requested = TRUE,
                       !.revealed = @ \union {tab.address.id}],
           TRUE, get)
  /\ UNCHANGED <<server, faults>> /\ Unchanged

\* EnterDecryptionKey, for a text: the ciphertext stays where it is.
OpensText(key) == server[tab.text.secret].key = key

EnterKey ==
  /\ Reading /\ Screen(tab) = "text" /\ ~OpensText(tab.password)
  /\ \E k \in Keys \ {tab.password} : tab' = [tab EXCEPT !.password = k]
  /\ UNCHANGED <<server, faults, get>> /\ Unchanged

\* handleDecrypt, for a file, up to its request: EnterDecryptionKey, or the
\* retry button.
Download ==
  /\ Reading /\ Screen(tab) = "file"
  /\ \E k \in Keys :
       /\ \/ tab.file.phase \in {"idle", "decrypt"}
          \/ tab.file.phase = "download" /\ k = tab.file.key
       /\ tab' = [tab EXCEPT !.file.phase = "loading", !.file.key = k]
       /\ Send(get, GetOf(tab, k))
  /\ UNCHANGED <<server, faults>> /\ Unchanged

------------------------------------------------------------------------------
(***************************************************************************)
(* The server and the network.                                             *)
(***************************************************************************)
Opened(s) == [s EXCEPT !.state = IF s.oneTime THEN "gone" ELSE s.state,
                       !.receipt = IF @ = "pending" THEN "viewed" ELSE @]

Serve(n) ==
  /\ n \in Asked /\ get[n].answer = "none"
  /\ LET i == get[n].id
     IN  IF Held(i)
         THEN /\ server' = [server EXCEPT ![i] = Opened(server[i])]
              /\ get' = [get EXCEPT ![n].answer = "secret"]
         ELSE /\ get' = [get EXCEPT ![n].answer = "gone"]
              /\ UNCHANGED server
  /\ UNCHANGED <<tab, faults>> /\ Unchanged

\* The request is lost, or the answer, or it breaks off on its way.
Break(n) ==
  /\ n \in Asked
  /\ faults < MaxFaults /\ faults' = faults + 1
  /\ \/ get[n].answer = "none" /\ get' = [get EXCEPT ![n].answer = "lost"]
     \/ /\ get[n].answer = "secret"
        /\ \E a \in {"lost", "cut"} : get' = [get EXCEPT ![n].answer = a]
  /\ UNCHANGED <<server, tab>> /\ Unchanged

\* Seeded bug: a superseded answer is not dropped.
AnyTextHeard(t, g) ==
  IF g.answer = "secret"
  THEN [t EXCEPT !.text.busy = FALSE, !.text.secret = g.id]
  ELSE [t EXCEPT !.text.busy = FALSE, !.text.failed = TRUE]

\* Seeded bug: what an answer brings is stored without a look at it.
AnyDataHeard(t, g) ==
  IF t.text.of # g.id THEN t
  ELSE [t EXCEPT !.text.busy = FALSE,
                 !.text.secret = IF g.answer = "secret" THEN g.id ELSE NoData]

\* useFetchSecret, from its answer on.
TextHeard(t, g) ==
  IF t.text.of # g.id THEN t
  ELSE IF g.answer = "secret"
  THEN [t EXCEPT !.text.busy = FALSE, !.text.secret = g.id]
  ELSE [t EXCEPT !.text.busy = FALSE, !.text.failed = TRUE]

\* handleDecrypt, from its answer on: a download that breaks off is noticed
\* before or while it is decrypted.
Phases(g) ==
  CASE g.answer = "gone" -> {"gone"}
    [] g.answer = "lost" -> {"download"}
    [] g.answer = "cut"  -> {"download", "decrypt"}
    [] OTHER -> {IF server[g.id].key = g.key THEN "done" ELSE "decrypt"}

Arrive(n) ==
  /\ n \in Asked /\ get[n].answer # "none"
  /\ LET rest == [get EXCEPT ![n] = NoGet]
     IN  IF ~get[n].live THEN get' = rest /\ UNCHANGED tab
         ELSE IF get[n].file
         THEN \E p \in Phases(get[n]) : React(tab, [tab EXCEPT !.file.phase = p], FALSE, rest)
         ELSE React(tab, TextHeard(tab, get[n]), FALSE, rest)
  /\ UNCHANGED <<server, faults>> /\ Unchanged

\* The secret expires, is deleted, or somebody else opens it.
Vanish(i) ==
  /\ Reading /\ Held(i)
  /\ server' = [server EXCEPT ![i].state = "gone"]
  /\ UNCHANGED <<faults, tab, get>> /\ Unchanged

------------------------------------------------------------------------------
Create ==
  /\ tab = Closed
  /\ \/ ToggleOneTime \/ ToggleGenerateKey \/ ToggleReadReceipt
     \/ TypePassword \/ ChooseFile \/ Submit \/ Restart
     \/ \E n \in Posts : Answered(n) \/ AnsweredBadly(n)
     \/ \E page \in CreatePages \union {"list"} : GoTo(page)
  /\ UNCHANGED <<tab, get, visits>>

Read ==
  \/ Load \/ Follow \/ StatusArrives \/ StatusLost \/ Reveal
  \/ EnterKey \/ Download
  \/ \E n \in Gets : Serve(n) \/ Break(n) \/ Arrive(n)
  \/ \E i \in Ids : Vanish(i)

ReaderInit ==
  /\ tab = Closed
  /\ get = [n \in Gets |-> NoGet]
  /\ visits = 0

Init == CreatorInit /\ ReaderInit
Next == Create \/ Come \/ Read
Spec == Init /\ [][Next]_vars

TypeOK ==
  /\ CreatorTypeOK
  /\ tab \in {Closed, Blank} \union Tab
  /\ get \in [Gets -> Get \union {NoGet}]
  /\ visits \in 0..MaxVisits

(***************************************************************************)
(* What the recipient sees under a link is what that link stands for,      *)
(* although the answers for links followed before may still arrive         *)
(* (useFetchSecret.ts:32, Prefetcher.tsx:106).                             *)
(***************************************************************************)
ShownMatchesLink ==
  Reading =>
    /\ Screen(tab) = "text" => tab.text.secret = tab.address.id
    /\ tab.file.phase = "done" => tab.file.of = tab.address.id

(***************************************************************************)
(* With PREFETCH_SECRET, a one-time secret is not requested before its     *)
(* reveal button was pressed, as long as no other link was followed in the *)
(* same page (Prefetcher.tsx:29).                                          *)
(***************************************************************************)
Requested(why) ==
  \E n \in Asked : server[get[n].id].oneTime /\ get[n].because = why

FirstIsRevealed == config.prefetch => ~Requested("first")

(***************************************************************************)
(* What was fetched stays with the recipient until another link is         *)
(* followed, whatever is answered late, confirmed or typed: it may be the  *)
(* only copy (useFetchSecret.ts:18, StreamingDecryptor.tsx:130).  Not so a *)
(* file in a page that fetched a text before: the text's late failure puts *)
(* the error page in its place (README, "What the models brought up").     *)
(***************************************************************************)
HeldWhileHere ==
  [][Reading /\ visits' = visits =>
       /\ tab.text.secret = tab.address.id => tab'.text.secret = tab.text.secret
       /\ tab.file.phase = "done" /\ tab.text.of = None => tab'.file = tab.file]_vars

(***************************************************************************)
(* "Show a warning that the secret may be one-time use before revealing    *)
(* it" (docs/server-options.md:48): every one-time secret is revealed by   *)
(* its own reveal button.  The code asks only before the first one.        *)
(***************************************************************************)
EachIsRevealed == config.prefetch => ~Requested("first") /\ ~Requested("moved")
==============================================================================
