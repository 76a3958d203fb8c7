------------------------------ MODULE SecretForm ------------------------------
(***************************************************************************)
(* The pages that create secrets, #/ (CreateSecret) and #/upload           *)
(* (StreamingUpload), up to the links they show (Result), in one tab of a  *)
(* browser.  A page holds its form; a submission is a handler in flight,   *)
(* which works with the values of the form at the moment it was submitted  *)
(* and whose answer may find the form changed, a second submission under   *)
(* way, or the page left.                                                  *)
(*                                                                         *)
(* Abstractions: a key stands for the passphrase a text or file was        *)
(* encrypted with; the lifetime is left out, since the request and the     *)
(* stored receipt take it from the same field.                             *)
(***************************************************************************)
EXTENDS ReceiptStore, ApiClient, FiniteSets

CONSTANTS
  Generated,   \* keys that randomString makes
  Custom,      \* passwords that users think of
  NoKey,       \* the empty password field
  Posts,       \* submissions: Posts bounds how many are in flight
  MaxActs,     \* bound on edits, submissions and loading the site again
  MaxFaults    \* bound on lost or unreadable answers

ASSUME KeysAssumption ==
  Generated \intersect Custom = {} /\ NoKey \notin Generated \union Custom
ASSUME BoundsAssumption == {MaxActs, MaxFaults} \subseteq Nat

VARIABLES
  config,   \* what the server told the site: its policies
  server,   \* server[i]: the secret under i and its receipt
  store,    \* the stored receipts, in localStorage
  form,     \* the React state of the page
  post,     \* post[n]: the submission n
  shown,    \* links and keys that were shown so far
  acts,     \* edits, submissions and reloads so far
  faults    \* faults so far

creator == <<config, server, store, form, post, shown, acts, faults>>

Keys == Generated \union Custom

Config == [forceOneTime : BOOLEAN, readReceipts : BOOLEAN, prefetch : BOOLEAN]

Secret == [state : {"none", "kept", "gone"}, key : Keys \union {NoKey},
           file : BOOLEAN, oneTime : BOOLEAN,
           receipt : {"none", "pending", "viewed"}]
NoSecret == [state |-> "none", key |-> NoKey, file |-> FALSE,
             oneTime |-> FALSE, receipt |-> "none"]

\* result.id is NoData where the text shown as ID is no ID.
Result   == [some : BOOLEAN, id : Ids \union {NoData}, key : Keys \union {NoKey},
             custom : BOOLEAN, file : BOOLEAN, receipt : BOOLEAN]
NoResult == [some |-> FALSE, id |-> NoData, key |-> NoKey, custom |-> FALSE,
             file |-> FALSE, receipt |-> FALSE]

CreatePages == {"create", "upload"}
Form == [page : CreatePages \union {"list"}, oneTime : BOOLEAN,
         generateKey : BOOLEAN, custom : Custom \union {NoKey},
         readReceipt : BOOLEAN, file : BOOLEAN, busy : BOOLEAN, result : Result]

\* The defaults of useSecretForm and of the page's own state.
FreshForm(page) ==
  [page |-> page, oneTime |-> TRUE, generateKey |-> TRUE, custom |-> NoKey,
   readReceipt |-> FALSE, file |-> FALSE, busy |-> FALSE, result |-> NoResult]

Post   == [live : BOOLEAN, key : Keys, custom : BOOLEAN, file : BOOLEAN,
           oneTime : BOOLEAN, receipt : BOOLEAN]
NoPost == [live |-> FALSE]

Sent == {n \in Posts : post[n] # NoPost}

\* What Result shows: the link to a text or to a file, with the key in it
\* unless that is custom.
Link == [id : Ids \union {NoData}, key : Keys, file : BOOLEAN, inLink : BOOLEAN]
LinkOf(result) == [id |-> result.id, key |-> result.key, file |-> result.file,
                   inLink |-> ~result.custom]

------------------------------------------------------------------------------
(***************************************************************************)
(* SecretOptions: what it offers depends on the server's policies.         *)
(***************************************************************************)
Editing == form.page \in CreatePages /\ form.result = NoResult

Edit(edited) ==
  /\ Editing /\ acts < MaxActs /\ acts' = acts + 1
  /\ form' = edited
  /\ UNCHANGED <<config, server, store, post, shown, faults>>

ToggleOneTime     == ~config.forceOneTime /\ Edit([form EXCEPT !.oneTime = ~@])
ToggleGenerateKey == Edit([form EXCEPT !.generateKey = ~@])
ToggleReadReceipt == config.readReceipts /\ Edit([form EXCEPT !.readReceipt = ~@])
TypePassword == /\ ~form.generateKey
                /\ \E k \in (Custom \union {NoKey}) \ {form.custom} :
                     Edit([form EXCEPT !.custom = k])

\* validateFile: a file that is too large takes the place of the one chosen
\* before, and leaves none.
ChooseFile ==
  /\ form.page = "upload"
  /\ \E fits \in BOOLEAN : Edit([form EXCEPT !.file = fits])

------------------------------------------------------------------------------
\* randomString never makes a key twice.
UsedKeys == {server[i].key : i \in Ids} \union {post[n].key : n \in Sent}
              \union {link.key : link \in shown}

\* Seeded bug: a password typed before "generate key" was chosen is used.
PasswordsTyped(f) == IF f.custom # NoKey THEN {f.custom} ELSE Generated \ UsedKeys

\* getPassword and isCustomPassword.
Passwords(f) == IF ~f.generateKey /\ f.custom # NoKey THEN {f.custom}
                ELSE Generated \ UsedKeys
IsCustom(f)  == f.custom # NoKey /\ ~f.generateKey

\* The button of the upload page is disabled without a file and while
\* progress is shown; that of the create page never is.
Submittable == /\ Editing
               /\ form.page = "upload" => form.file /\ ~form.busy

\* onSubmit, up to its request.
Submit ==
  /\ Sent # Posts /\ Submittable
  /\ acts < MaxActs /\ acts' = acts + 1
  /\ \E k \in Passwords(form) :
       post' = [post EXCEPT ![CHOOSE n \in Posts : post[n] = NoPost] =
                  [live |-> TRUE, key |-> k,
                   custom |-> IsCustom(form),
                   file |-> form.page = "upload",
                   oneTime |-> config.forceOneTime \/ form.oneTime,
                   receipt |-> config.readReceipts /\ form.readReceipt]]
  /\ form' = [form EXCEPT !.busy = form.page = "upload"]
  /\ UNCHANGED <<config, server, store, shown, faults>>

\* What the server makes of it, under an ID it has never used.
Stored(p) == [state |-> "kept", key |-> p.key, file |-> p.file,
              oneTime |-> p.oneTime,
              receipt |-> IF p.receipt THEN "pending" ELSE "none"]

Said(i, p) == Clear(200, [id |-> i, receipt |-> p.receipt])

\* Seeded bug: the key is taken from the form when the answer arrives.
ResultAsTyped(p, said) ==
  [some |-> TRUE, id |-> said.message,
   key |-> IF IsCustom(form) THEN form.custom ELSE p.key,
   custom |-> p.custom, file |-> p.file, receipt |-> said.receipt]

\* onSubmit's setResult and setReceiptToken.
ResultOf(p, said) ==
  [some |-> TRUE, id |-> said.message, key |-> p.key, custom |-> p.custom,
   file |-> p.file, receipt |-> said.receipt]

\* onSubmit, from its answer on: status 200 is taken for success.  The result
\* takes the place of the form, whose fields nothing reads any more.
Hear(n, said) ==
  LET p == post[n]
      result == ResultOf(p, said)
  IN  /\ store' = IF said.receipt
                  THEN SaveNewReceipt(store, said.message)
                  ELSE store
      /\ post' = [post EXCEPT ![n] = NoPost]
      /\ IF ~p.live THEN UNCHANGED <<form, shown>>
         ELSE IF said.status = 200
         THEN /\ form' = [FreshForm(form.page) EXCEPT !.result = result]
              /\ shown' = shown \union {LinkOf(result)}
         ELSE /\ form' = [form EXCEPT !.busy = FALSE]
              /\ UNCHANGED shown

Answered(n) ==
  /\ n \in Sent
  /\ \E i \in Ids :
       /\ server[i].state = "none"
       /\ server' = [server EXCEPT ![i] = Stored(post[n])]
       /\ Hear(n, ToApiResponse(Said(i, post[n])))
  /\ UNCHANGED <<config, acts, faults>>

\* The server refused or failed, was not reached, or its answer was lost or
\* cannot be read.
AnsweredBadly(n) ==
  /\ n \in Sent
  /\ faults < MaxFaults /\ faults' = faults + 1
  /\ \/ /\ UNCHANGED server
        /\ \E said \in {Lost, Clear(500, NoData)} : Hear(n, ToApiResponse(said))
     \/ \E i \in Ids :
          /\ server[i].state = "none"
          /\ server' = [server EXCEPT ![i] = Stored(post[n])]
          /\ \E said \in Faulty(200, Said(i, post[n]).data) :
               Hear(n, ToApiResponse(said))
  /\ UNCHANGED <<config, acts>>

------------------------------------------------------------------------------
\* Following a link of the site: handlers in flight run on.
GoTo(page) ==
  /\ page # form.page
  /\ page = "list" => config.readReceipts
  /\ form' = FreshForm(page)
  /\ post' = [n \in Posts |-> IF n \in Sent THEN [post[n] EXCEPT !.live = FALSE]
                              ELSE NoPost]
  /\ UNCHANGED <<config, server, store, shown, acts, faults>>

\* "Create another", the logo, and the browser's own button load the site
\* again, and handlers in flight are gone.
Restart ==
  /\ acts < MaxActs /\ acts' = acts + 1
  /\ \E page \in {form.page, "create"} : form' = FreshForm(page)
  /\ post' = [n \in Posts |-> NoPost]
  /\ UNCHANGED <<config, server, store, shown, faults>>

CreatorInitButForm ==
  /\ config \in Config
  /\ server = [i \in Ids |-> NoSecret]
  /\ store = [i \in Ids |-> Absent]
  /\ post = [n \in Posts |-> NoPost]
  /\ shown = {}
  /\ acts = 0
  /\ faults = 0

CreatorInit == CreatorInitButForm /\ form = FreshForm("create")

CreatorTypeOK ==
  /\ config \in Config
  /\ server \in [Ids -> Secret]
  /\ store \in [Ids -> States \union {Absent}]
  /\ form \in Form
  /\ post \in [Posts -> Post \union {NoPost}]
  /\ shown \subseteq Link
  /\ acts \in 0..MaxActs
  /\ faults \in 0..MaxFaults

(***************************************************************************)
(* The key that is shown with a link opens what is stored under that link, *)
(* although the form may be edited or submitted again while a submission   *)
(* is in flight.  (A link that is no link at all, after an unreadable      *)
(* answer, opens nothing: README, "What the models brought up".)           *)
(***************************************************************************)
KeyOpensItsLink ==
  \A link \in shown : link.id # NoData => server[link.id].key = link.key

(***************************************************************************)
(* A password that somebody thought of is never put into a link, whatever  *)
(* was typed and toggled (Result.tsx:97, useSecretForm.ts:35-41).          *)
(***************************************************************************)
CustomKeyNotInLink == \A link \in shown : link.inLink => link.key \in Generated
==============================================================================
