----------------------------- MODULE ReceiptPages -----------------------------
(***************************************************************************)
(* Read receipts in the browser: the panel under a new link                *)
(* (ReceiptStatus) and the page #/receipts (ReceiptList), which both ask   *)
(* the server again and again, with lookups whose answers may overtake     *)
(* each other, arrive when their page was left, or when their receipt was  *)
(* removed; and other tabs, which share the stored receipts.               *)
(*                                                                         *)
(* A lookup takes effect on the server (Serve) and arrives later (Arrive). *)
(* Of the pages that create secrets only the answer to a submission is     *)
(* here (Created); SecretForm models how they come to it.                  *)
(***************************************************************************)
EXTENDS ReceiptStore

CONSTANTS
  Active,      \* ids that are opened, expire, or whose lookups fail
  Rounds       \* refreshes: Rounds bounds how many are in flight

ASSUME ActiveAssumption == Active \subseteq Ids

VARIABLES
  server,   \* server[i]: the receipt of i
  store,    \* the stored receipts, in localStorage
  opened,   \* ids whose secret was opened while its receipt was there
  lapsed,   \* ids whose expiry has passed on the browser's clock
  result,   \* the id under whose link the panel is shown, if any
  panel,    \* the React state of ReceiptStatus
  list,     \* list[i]: what ReceiptList shows as the status of i
  round     \* round[r]: the refresh r

vars == <<server, store, opened, lapsed, result, panel, list, round>>

\* Where the tab is: on another page, under the link of i, or on #/receipts.
NoResult == "none"
OnList   == "list"

Panel == [receipt : {"none", "pending", "viewed"}, expired : BOOLEAN,
          error : BOOLEAN]
FreshPanel == [receipt |-> "none", expired |-> FALSE, error |-> FALSE]

Statuses == {"loading", "pending", "viewed", "expired"}
Loading == [i \in Ids |-> "loading"]

\* got[i]: "absent" asks for nothing, "asked" was not answered yet; what is in
\* transit was answered and has not arrived.
Round == [by : {"panel", "list", "left"}, transit : SUBSET Ids,
          got : [Ids -> Statuses \union {"absent", "asked"}]]
NoRound == [by |-> "none"]

Started == {r \in Rounds : round[r] # NoRound}
Free == CHOOSE r \in Rounds : round[r] = NoRound

------------------------------------------------------------------------------
(***************************************************************************)
(* The answer to a submission that asked for a receipt: the page, if it is *)
(* still there, shows the new link and the panel below.  Where a second    *)
(* submission's answer replaces the first one's link the panel stays       *)
(* mounted, and React keeps its state.                                     *)
(***************************************************************************)
PanelShown == result \in Ids

Created(i) ==
  /\ server[i] = "unused"
  /\ server' = [server EXCEPT ![i] = "pending"]
  /\ store' = SaveNewReceipt(store, i)
  /\ \/ result' = i /\ result # OnList
        /\ panel' = IF PanelShown THEN panel ELSE FreshPanel
     \/ UNCHANGED <<result, panel>>
  /\ UNCHANGED <<opened, lapsed, list, round>>

\* refresh of ReceiptStatus: at once, every ten seconds, or by its button,
\* until the secret was opened or has expired.
PanelRefresh ==
  /\ Rounds # Started
  /\ PanelShown /\ panel.receipt # "viewed" /\ ~panel.expired
  /\ round' = [round EXCEPT ![Free] =
       [by |-> "panel", transit |-> {},
        got |-> [i \in Ids |-> IF i = result THEN "asked" ELSE "absent"]]]
  /\ UNCHANGED <<server, store, opened, lapsed, result, panel, list>>

PanelHears(p, status) ==
  CASE status \in {"pending", "viewed"} -> [FreshPanel EXCEPT !.receipt = status]
    [] status = "expired" -> [p EXCEPT !.expired = TRUE, !.error = FALSE]
    [] OTHER -> [p EXCEPT !.error = TRUE]

------------------------------------------------------------------------------
\* Terminal states are resolved locally, without a lookup.
Local(s, i) == IF s[i] = Absent        THEN "absent"
               ELSE IF s[i] = "viewed" THEN "viewed"
               ELSE IF i \in lapsed    THEN "expired"
               ELSE "asked"

\* Seeded bug: no default for what was not looked up.
StatusedWithoutDefault(got) == got

Statused(got) == [i \in Ids |-> IF got[i] = "absent" THEN "loading" ELSE got[i]]

\* refresh of ReceiptList on the stored receipts s: it shows their statuses
\* when all lookups have ended, or at once if there is nothing to ask.
ListRefreshed(s) ==
  LET got == [i \in Ids |-> Local(s, i)]
      asks == \E i \in Ids : got[i] = "asked"
  IN  /\ asks => Rounds # Started
      /\ round' = IF asks THEN [round EXCEPT ![Free] =
                                  [by |-> "list", transit |-> {},
                                   got |-> got]]
                  ELSE round
      /\ list' = IF asks THEN list ELSE Statused(got)

\* On arriving at the page, and every fifteen seconds.
ListRefresh ==
  /\ result = OnList
  /\ ListRefreshed(store)
  /\ UNCHANGED <<server, store, opened, lapsed, result, panel>>

(***************************************************************************)
(* runConfirmedAction, for one receipt or for all.  The dialog before it   *)
(* only takes time: it names the receipt by its ID, and where that was     *)
(* removed meanwhile nothing is left to do but the refresh.                *)
(***************************************************************************)
Confirm ==
  /\ result = OnList
  /\ \E I \in {Ids} \union {{i} : i \in Kept(store)} :
       /\ store' = RemoveStored(store, I)
       /\ ListRefreshed(store')
  /\ UNCHANGED <<server, opened, lapsed, result, panel>>

------------------------------------------------------------------------------
\* getSecretReceipt on the server, with the token that was stored.
Truth(i) == IF server[i] \in {"pending", "viewed"} THEN server[i] ELSE "expired"

Serve(r, i) ==
  /\ r \in Started /\ round[r].got[i] = "asked"
  /\ round' = [round EXCEPT ![r].got[i] = Truth(i), ![r].transit = @ \union {i}]
  /\ UNCHANGED <<server, store, opened, lapsed, result, panel, list>>

(***************************************************************************)
(* What is heard of i is recorded, whoever is on the page.  The panel      *)
(* shows it at once, the list when all its lookups have ended.             *)
(***************************************************************************)
Hear(r, i, status) ==
  /\ LET this == round[r]
         rest == [this EXCEPT !.got[i] = status, !.transit = @ \ {i}]
         over == rest.transit = {} /\ \A j \in Ids : rest.got[j] # "asked"
     IN  /\ store' = IF status \in {"pending", "viewed"}
                     THEN RecordReceiptState(store, i, status) ELSE store
         /\ round' = [round EXCEPT ![r] = IF over THEN NoRound ELSE rest]
         /\ panel' = IF this.by = "panel" THEN PanelHears(panel, status) ELSE panel
         /\ list' = IF this.by = "list" /\ over THEN Statused(rest.got) ELSE list
  /\ UNCHANGED <<server, opened, lapsed, result>>

Arrive(r, i) == /\ r \in Started /\ i \in round[r].transit
                /\ Hear(r, i, round[r].got[i])

\* The request or its answer is lost, or the server fails.
Lose(r, i) == /\ r \in Started /\ round[r].got[i] = "asked"
              /\ Hear(r, i, "loading")

------------------------------------------------------------------------------
\* Following a link of the site: handlers in flight run on, but do not reach
\* the screen.
GoTo(where) ==
  /\ where # result /\ where \in {NoResult, OnList}
  /\ result' = where
  /\ panel' = FreshPanel /\ list' = Loading
  /\ round' = [r \in Rounds |-> IF r \in Started THEN [round[r] EXCEPT !.by = "left"]
                                ELSE NoRound]
  /\ UNCHANGED <<server, store, opened, lapsed>>

\* "Create another", the logo and the browser's own button load the site
\* again, and handlers in flight are gone.  (What the button shows again is
\* gone to from there.)
Restart ==
  /\ result' = NoResult
  /\ panel' = FreshPanel /\ list' = Loading
  /\ round' = [r \in Rounds |-> NoRound]
  /\ UNCHANGED <<server, store, opened, lapsed>>

\* Another tab of the browser removes receipts, one or (by and by) all.
RemovedElsewhere ==
  /\ \E i \in Kept(store) : store' = RemoveStored(store, {i})
  /\ UNCHANGED <<server, opened, lapsed, result, panel, list, round>>

\* Somebody opens the link (Secrets models how the receipt is marked).
Open(i) ==
  /\ server[i] = "pending"
  /\ server' = [server EXCEPT ![i] = "viewed"]
  /\ opened' = opened \union {i}
  /\ UNCHANGED <<store, lapsed, result, panel, list, round>>

\* The lifetime ends on the server and, in either order, for what is stored.
Lapse(i) ==
  /\ server[i] \in {"pending", "viewed"}
  /\ server' = [server EXCEPT ![i] = "gone"]
  /\ UNCHANGED <<store, opened, lapsed, result, panel, list, round>>

Pass(i) ==
  /\ i \in Kept(store) \ lapsed
  /\ lapsed' = lapsed \union {i}
  /\ UNCHANGED <<server, store, opened, result, panel, list, round>>

------------------------------------------------------------------------------
Init ==
  /\ server = [i \in Ids |-> "unused"]
  /\ store = [i \in Ids |-> Absent]
  /\ opened = {} /\ lapsed = {}
  /\ result = NoResult
  /\ panel = FreshPanel
  /\ list = Loading
  /\ round = [r \in Rounds |-> NoRound]

Polling == PanelRefresh \/ ListRefresh

Lookups == \/ \E r \in Rounds, i \in Ids : Serve(r, i) \/ Arrive(r, i)
           \/ \E r \in Rounds, i \in Active : Lose(r, i)

User ==
  \/ \E where \in {NoResult, OnList} : GoTo(where)
  \/ Confirm \/ Restart

World == \/ \E i \in Ids : Created(i)
         \/ \E i \in Active : Open(i) \/ Lapse(i) \/ Pass(i)
         \/ RemovedElsewhere

Next == Polling \/ Lookups \/ User \/ World

(***************************************************************************)
(* Lookups end, and the page of receipts asks again as long as it is open  *)
(* (setInterval).  What is asked again and again is not lost every time.   *)
(***************************************************************************)
Fairness == /\ WF_vars(Lookups)
            /\ WF_vars(ListRefresh)
            /\ \A i \in Active : SF_vars(\E r \in Rounds : Serve(r, i))

Spec == Init /\ [][Next]_vars /\ Fairness

------------------------------------------------------------------------------
(***************************************************************************)
(* Properties.                                                             *)
(***************************************************************************)
\* Every variable stays within its type.
TypeOK ==
  /\ server \in [Ids -> {"unused", "pending", "viewed", "gone"}]
  /\ store \in [Ids -> States \union {Absent}]
  /\ opened \subseteq Ids
  /\ lapsed \subseteq Ids
  /\ result \in Ids \union {NoResult, OnList}
  /\ panel \in Panel
  /\ list \in [Ids -> Statuses]
  /\ round \in [Rounds -> Round \union {NoRound}]

(***************************************************************************)
(* Nothing is reported as opened that was not: not in the stored receipts, *)
(* not on the page of receipts, whatever was asked when, and not by the    *)
(* panel.  (The panel outlives a result that a second submission's answer  *)
(* replaces, and may then still report the first one's.)                   *)
(***************************************************************************)
NeverFalselyViewed ==
  /\ \A i \in Ids : store[i] = "viewed" => i \in opened
  /\ \A i \in Ids : list[i] = "viewed" => i \in opened
  /\ panel.receipt = "viewed" => opened # {}

(***************************************************************************)
(* A receipt that was removed, here or in another tab, does not come back  *)
(* with an answer that was still on its way (receiptStore.ts:77-82).       *)
(***************************************************************************)
RemovedStaysRemoved ==
  [][\A i \in Ids : server[i] # "unused" /\ i \notin Kept(store)
                      => i \notin Kept(store')]_vars

(***************************************************************************)
(* While the page of receipts is open, every opening is cached before long *)
(* and for good: a "pending" that arrives late may replace the cached      *)
(* "viewed" (ReceiptList.tsx:70), but the next refresh repairs that, as    *)
(* long as the server still has the receipt.                               *)
(***************************************************************************)
Reportable(i) == server[i] = "viewed" /\ i \in Kept(store) \ lapsed

OpeningSettles ==
  <>[](result = OnList)
    => \A i \in Ids : <>[](Reportable(i) => store[i] = "viewed")
==============================================================================
