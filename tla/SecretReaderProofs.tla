-------------------------- MODULE SecretReaderProofs --------------------------
(***************************************************************************)
(* Proofs about SecretForm and SecretReader: for any number of secrets,    *)
(* keys, submissions and visits, a link carries no custom password, the    *)
(* key shown with a link opens what is stored under it, and what the       *)
(* recipient's page shows and keeps is what was fetched for its link.      *)
(***************************************************************************)
EXTENDS SecretReader, TLAPS

(***************************************************************************)
(* A submission that was not made with a custom password was made with a   *)
(* generated key.                                                          *)
(***************************************************************************)
PostInv == \A n \in Posts :
             post[n] # NoPost /\ ~post[n].custom => post[n].key \in Generated

(***************************************************************************)
(* What was given out under an ID is there, or was: no other secret comes  *)
(* under that ID.                                                          *)
(***************************************************************************)
IssuedInv == \A link \in shown :
               link.id # NoData => server[link.id].state # "none"

LinkInv == /\ CreatorTypeOK
           /\ PostInv
           /\ IssuedInv
           /\ KeyOpensItsLink
           /\ CustomKeyNotInLink

creates == <<config, server, store, form, post, shown, acts, faults>>

------------------------------------------------------------------------------
\* The part of the state that LinkInv is about may be left as it is.
LEMMA LinkStutter == LinkInv /\ UNCHANGED creates => LinkInv'
  BY DEF LinkInv, CreatorTypeOK, PostInv, IssuedInv, KeyOpensItsLink,
         CustomKeyNotInLink, creates

\* Initially nothing was submitted or shown.
LEMMA LinkInit == Init => LinkInv
<1> SUFFICES ASSUME Init PROVE LinkInv
  OBVIOUS
<1> USE DEF Init, CreatorInit, CreatorInitButForm
<1>1. NoSecret \in Secret
  BY DEF NoSecret, Secret
<1>2. FreshForm("create") \in Form
  BY DEF FreshForm, Form, CreatePages, NoResult, Result
<1>3. CreatorTypeOK
  BY <1>1, <1>2, BoundsAssumption DEF CreatorTypeOK, States
<1>4. PostInv
  BY DEF PostInv
<1> QED
  BY <1>3, <1>4 DEF LinkInv, IssuedInv, KeyOpensItsLink, CustomKeyNotInLink

(***************************************************************************)
(* Editing changes the form only, and leaves it well typed.                *)
(***************************************************************************)
LEMMA EditStep ==
  ASSUME LinkInv,
         \/ ToggleOneTime \/ ToggleGenerateKey \/ ToggleReadReceipt
         \/ TypePassword \/ ChooseFile
  PROVE  LinkInv'
<1>1. PICK edited \in Form : Edit(edited)
  <2> USE DEF LinkInv, CreatorTypeOK, Form
  <2>1. CASE ToggleOneTime
    BY <2>1 DEF ToggleOneTime
  <2>2. CASE ToggleGenerateKey
    BY <2>2 DEF ToggleGenerateKey
  <2>3. CASE ToggleReadReceipt
    BY <2>3 DEF ToggleReadReceipt
  <2>4. CASE TypePassword
    BY <2>4 DEF TypePassword
  <2>5. CASE ChooseFile
    BY <2>5 DEF ChooseFile
  <2> QED
    BY <2>1, <2>2, <2>3, <2>4, <2>5
<1>2. UNCHANGED <<config, server, store, post, shown, faults>>
  BY <1>1 DEF Edit
<1>3. form' \in Form /\ acts' \in 0..MaxActs
  BY <1>1, BoundsAssumption DEF Edit, LinkInv, CreatorTypeOK
<1> QED
  BY <1>2, <1>3 DEF LinkInv, CreatorTypeOK, PostInv, IssuedInv,
                    KeyOpensItsLink, CustomKeyNotInLink

\* A submission takes its key and the custom flag from the same form.
LEMMA SubmitStep == LinkInv /\ Submit => LinkInv'
<1> SUFFICES ASSUME LinkInv, Submit PROVE LinkInv'
  OBVIOUS
<1> DEFINE free == CHOOSE n \in Posts : post[n] = NoPost
           made(k) == [live |-> TRUE, key |-> k, custom |-> IsCustom(form),
                       file |-> form.page = "upload",
                       oneTime |-> config.forceOneTime \/ form.oneTime,
                       receipt |-> config.readReceipts /\ form.readReceipt]
<1>1. PICK k \in Passwords(form) : post' = [post EXCEPT ![free] = made(k)]
  BY DEF Submit
<1>2. form \in Form /\ config \in Config /\ post \in [Posts -> Post \union {NoPost}]
  BY DEF LinkInv, CreatorTypeOK
<1>3. k \in Keys /\ (~IsCustom(form) => k \in Generated)
  BY <1>1, <1>2 DEF Passwords, IsCustom, Form, Keys
<1>4. made(k) \in Post
  BY <1>2, <1>3 DEF Post, Form, Config, IsCustom
<1>5. post' \in [Posts -> Post \union {NoPost}]
  BY <1>1, <1>2, <1>4
<1>6. \A n \in Posts : post'[n] = post[n] \/ post'[n] = made(k)
  BY <1>1, <1>2
<1>7. PostInv'
  BY <1>3, <1>6 DEF LinkInv, PostInv
<1>8. form' \in Form
  BY <1>2 DEF Submit, Form
<1>9. acts' \in 0..MaxActs
  BY BoundsAssumption DEF Submit, LinkInv, CreatorTypeOK
<1>10. UNCHANGED <<config, server, store, shown, faults>>
  BY DEF Submit
<1> QED
  BY <1>5, <1>7, <1>8, <1>9, <1>10
     DEF LinkInv, CreatorTypeOK, IssuedInv, KeyOpensItsLink, CustomKeyNotInLink

------------------------------------------------------------------------------
(***************************************************************************)
(* The answer to a submission.  What is heard either carries the ID i      *)
(* under which the server stored the submission, or no ID.                 *)
(***************************************************************************)
Heard(said, i, p) == /\ said.message \in {i, NoData}
                     /\ said.receipt => said.message = i /\ p.receipt
                     /\ said.receipt \in BOOLEAN

\* An answer with the data that the server gave, or with none.
LEMMA AnswerIsHeard ==
  ASSUME NEW i \in Ids, NEW p \in Post, NEW data, NEW status,
         data \in {Said(i, p).data, NoData}
  PROVE  Heard(ToApiResponse([status |-> status, data |-> data]), i, p)
<1> DEFINE body == [id |-> i, receipt |-> p.receipt]
           said == ToApiResponse([status |-> status, data |-> data])
<1>1. Said(i, p).data = body
  BY DEF Said, Clear, JsonFetch
<1>2. data = body \/ data = NoData
  BY <1>1
<1>3. body.id = i /\ body.receipt = p.receipt /\ p.receipt \in BOOLEAN
  BY DEF Post
<1>4. /\ said.message = IF data = NoData THEN NoData ELSE data.id
      /\ said.receipt = IF data = NoData THEN FALSE ELSE data.receipt
  BY DEF ToApiResponse
<1> HIDE DEF body, said
<1>5. Heard(said, i, p)
  <2>1. CASE data = NoData
    BY <1>4, <2>1 DEF Heard
  <2>2. CASE data # NoData
    BY <1>2, <1>3, <1>4, <2>2 DEF Heard
  <2> QED
    BY <2>1, <2>2
<1> QED
  BY <1>5 DEF said

(***************************************************************************)
(* Hearing an answer gives out one link, to where the submission is kept,  *)
(* if it is a link at all.                                                 *)
(***************************************************************************)
LEMMA HearStep ==
  ASSUME LinkInv, NEW n \in Sent, NEW said, Hear(n, said),
         said.message \in Ids \union {NoData},
         said.receipt \in BOOLEAN,
         said.receipt => said.message \in Ids,
         server' \in [Ids -> Secret],
         said.message # NoData => /\ server'[said.message].state # "none"
                                  /\ server'[said.message].key = post[n].key,
         \A link \in shown : link.id # NoData =>
           /\ server'[link.id].state # "none"
           /\ server'[link.id].key = server[link.id].key,
         acts' \in 0..MaxActs, faults' \in 0..MaxFaults, config' = config
  PROVE  LinkInv'
<1> DEFINE p == post[n]
           result == ResultOf(p, said)
<1>1. p \in Post
  BY DEF Sent, LinkInv, CreatorTypeOK
<1>2. result \in Result /\ LinkOf(result) \in Link
  BY <1>1 DEF ResultOf, Result, LinkOf, Link, Post
<1>3. /\ LinkOf(result).id = said.message
      /\ LinkOf(result).key = p.key
      /\ LinkOf(result).inLink = ~p.custom
  BY DEF LinkOf, ResultOf
<1>4. store' \in [Ids -> States \union {Absent}]
  BY DEF Hear, SaveNewReceipt, States, LinkInv, CreatorTypeOK
<1>5. post' \in [Posts -> Post \union {NoPost}] /\ PostInv'
  BY DEF Hear, PostInv, LinkInv, CreatorTypeOK
<1>6. form' \in Form
  <2>1. [FreshForm(form.page) EXCEPT !.result = result] \in Form
    BY <1>2 DEF FreshForm, Form, LinkInv, CreatorTypeOK
  <2>2. [form EXCEPT !.busy = FALSE] \in Form
    BY DEF Form, LinkInv, CreatorTypeOK
  <2> QED
    BY <2>1, <2>2 DEF Hear, LinkInv, CreatorTypeOK
<1>7. shown' \subseteq shown \union {LinkOf(result)}
  BY DEF Hear
<1>8. ~p.custom => p.key \in Generated
  BY DEF Sent, LinkInv, PostInv
<1>9. CreatorTypeOK'
  BY <1>2, <1>4, <1>5, <1>6, <1>7 DEF LinkInv, CreatorTypeOK
<1>10. IssuedInv'
  <2> SUFFICES ASSUME NEW link \in shown', link.id # NoData
               PROVE  server'[link.id].state # "none"
    BY DEF IssuedInv
  <2>1. CASE link \in shown
    BY <2>1
  <2>2. CASE link = LinkOf(result)
    BY <2>2, <1>3
  <2> QED
    BY <2>1, <2>2, <1>7
<1>11. KeyOpensItsLink'
  <2> SUFFICES ASSUME NEW link \in shown', link.id # NoData
               PROVE  server'[link.id].key = link.key
    BY DEF KeyOpensItsLink
  <2>1. CASE link \in shown
    BY <2>1 DEF LinkInv, KeyOpensItsLink
  <2>2. CASE link = LinkOf(result)
    BY <2>2, <1>3
  <2> QED
    BY <2>1, <2>2, <1>7
<1>12. CustomKeyNotInLink'
  <2> SUFFICES ASSUME NEW link \in shown', link.inLink
               PROVE  link.key \in Generated
    BY DEF CustomKeyNotInLink
  <2>1. CASE link \in shown
    BY <2>1 DEF LinkInv, CustomKeyNotInLink
  <2>2. CASE link = LinkOf(result)
    BY <2>2, <1>3, <1>8
  <2> QED
    BY <2>1, <2>2, <1>7
<1> QED
  BY <1>5, <1>9, <1>10, <1>11, <1>12 DEF LinkInv

\* An ID that was never used takes the submission n, and no link loses its
\* secret by that.
LEMMA StoredStep ==
  ASSUME LinkInv, NEW n \in Sent, NEW i \in Ids, server[i].state = "none",
         server' = [server EXCEPT ![i] = Stored(post[n])]
  PROVE  /\ server' \in [Ids -> Secret]
         /\ server'[i].state # "none" /\ server'[i].key = post[n].key
         /\ \A link \in shown : link.id # NoData =>
              /\ server'[link.id].state # "none"
              /\ server'[link.id].key = server[link.id].key
<1>1. post[n] \in Post /\ server \in [Ids -> Secret] /\ shown \subseteq Link
  BY DEF Sent, LinkInv, CreatorTypeOK
<1>2. Stored(post[n]) \in Secret
  BY <1>1 DEF Stored, Secret, Post
<1>3. Stored(post[n]).state # "none" /\ Stored(post[n]).key = post[n].key
  BY DEF Stored
<1>4. ASSUME NEW link \in shown, link.id # NoData
      PROVE  /\ server'[link.id].state # "none"
             /\ server'[link.id].key = server[link.id].key
  <2>1. link.id \in Ids
    BY <1>1, <1>4 DEF Link
  <2>2. server[link.id].state # "none"
    BY <1>4 DEF LinkInv, IssuedInv
  <2>3. link.id # i
    BY <2>2
  <2> QED
    BY <1>1, <2>1, <2>2, <2>3
<1> QED
  BY <1>1, <1>2, <1>3, <1>4

\* The answer arrives as the server gave it.
LEMMA AnsweredStep ==
  ASSUME LinkInv, NEW n \in Posts, Answered(n)
  PROVE  LinkInv'
<1>1. n \in Sent
  BY DEF Answered
<1>2. PICK i \in Ids : /\ server[i].state = "none"
                       /\ server' = [server EXCEPT ![i] = Stored(post[n])]
                       /\ Hear(n, ToApiResponse(Said(i, post[n])))
  BY DEF Answered
<1>3. post[n] \in Post
  BY <1>1 DEF Sent, LinkInv, CreatorTypeOK
<1> DEFINE data == Said(i, post[n]).data
<1>4. Said(i, post[n]) = [status |-> 200, data |-> data]
  BY DEF Said, Clear, JsonFetch
<1> HIDE DEF data
<1>5. Heard(ToApiResponse([status |-> 200, data |-> data]), i, post[n])
  BY <1>3, AnswerIsHeard DEF data
<1>6. Heard(ToApiResponse(Said(i, post[n])), i, post[n])
  BY <1>4, <1>5
<1>7. acts' \in 0..MaxActs /\ faults' \in 0..MaxFaults /\ config' = config
  BY DEF Answered, LinkInv, CreatorTypeOK
<1> DEFINE said == ToApiResponse(Said(i, post[n]))
<1>8. Hear(n, said) /\ Heard(said, i, post[n])
  BY <1>2, <1>6
<1> HIDE DEF said
<1> QED
  BY <1>1, <1>2, <1>7, <1>8, StoredStep, HearStep DEF Heard

\* It is lost, or cannot be read, or the server failed.
LEMMA AnsweredBadlyStep ==
  ASSUME LinkInv, NEW n \in Posts, AnsweredBadly(n)
  PROVE  LinkInv'
<1>1. n \in Sent
  BY DEF AnsweredBadly
<1>2. post[n] \in Post
  BY <1>1 DEF Sent, LinkInv, CreatorTypeOK
<1>3. acts' \in 0..MaxActs /\ faults' \in 0..MaxFaults /\ config' = config
  BY BoundsAssumption DEF AnsweredBadly, LinkInv, CreatorTypeOK
<1>4. CASE /\ UNCHANGED server
           /\ \E heard \in {Lost, Clear(500, NoData)} : Hear(n, ToApiResponse(heard))
  <2>1. PICK heard \in {Lost, Clear(500, NoData)} : Hear(n, ToApiResponse(heard))
    BY <1>4
  <2> DEFINE said == ToApiResponse(heard)
  <2>2. said.message = NoData /\ said.receipt = FALSE
    BY DEF ToApiResponse, Lost, Clear, JsonFetch
  <2>3. server' \in [Ids -> Secret]
    BY <1>4 DEF LinkInv, CreatorTypeOK
  <2>4. \A link \in shown : link.id # NoData =>
          /\ server'[link.id].state # "none"
          /\ server'[link.id].key = server[link.id].key
    BY <1>4 DEF LinkInv, IssuedInv
  <2>5. Hear(n, said)
    BY <2>1
  <2> HIDE DEF said
  <2> QED
    BY <1>1, <1>3, <2>2, <2>3, <2>4, <2>5, HearStep
<1>5. ASSUME NEW i \in Ids, server[i].state = "none",
             server' = [server EXCEPT ![i] = Stored(post[n])],
             NEW heard \in Faulty(200, Said(i, post[n]).data),
             Hear(n, ToApiResponse(heard))
      PROVE  LinkInv'
  <2> DEFINE said == ToApiResponse(heard)
  <2>1. \/ heard = [status |-> 200, data |-> NoData]
        \/ heard = [status |-> 0, data |-> NoData]
    BY DEF Faulty, JsonFetch, Lost
  <2>2. Heard(ToApiResponse([status |-> 200, data |-> NoData]), i, post[n])
    BY <1>2, AnswerIsHeard
  <2>3. Heard(ToApiResponse([status |-> 0, data |-> NoData]), i, post[n])
    BY <1>2, AnswerIsHeard
  <2>4. Heard(said, i, post[n])
    BY <2>1, <2>2, <2>3
  <2>5. Hear(n, said)
    BY <1>5
  <2> HIDE DEF said
  <2> QED
    BY <1>1, <1>3, <1>5, <2>4, <2>5, StoredStep, HearStep DEF Heard
<1> QED
  BY <1>4, <1>5 DEF AnsweredBadly

------------------------------------------------------------------------------
\* Leaving a page, and loading the site again, keep no more than before.
LEMMA GoToStep ==
  ASSUME LinkInv, NEW where \in CreatePages \union {"list"}, GoTo(where)
  PROVE  LinkInv'
<1>1. form' \in Form
  BY DEF GoTo, FreshForm, Form, NoResult, Result
<1>2. post' \in [Posts -> Post \union {NoPost}] /\ PostInv'
  <2>1. \A n \in Posts : \/ post'[n] = NoPost
                         \/ n \in Sent /\ post'[n] = [post[n] EXCEPT !.live = FALSE]
    BY DEF GoTo
  <2>2. \A n \in Sent : /\ post[n] \in Post
                        /\ ~post[n].custom => post[n].key \in Generated
    BY DEF Sent, LinkInv, CreatorTypeOK, PostInv
  <2>3. \A n \in Posts : \/ post'[n] = NoPost
                         \/ /\ post'[n] \in Post
                            /\ ~post'[n].custom => post'[n].key \in Generated
    BY <2>1, <2>2 DEF Post
  <2>4. post' = [n \in Posts |-> post'[n]]
    BY DEF GoTo
  <2> QED
    BY <2>3, <2>4 DEF PostInv
<1> QED
  BY <1>1, <1>2 DEF GoTo, LinkInv, CreatorTypeOK, IssuedInv, KeyOpensItsLink,
                    CustomKeyNotInLink

\* So does loading the site again.
LEMMA RestartStep == LinkInv /\ Restart => LinkInv'
<1> SUFFICES ASSUME LinkInv, Restart PROVE LinkInv'
  OBVIOUS
<1>1. form' \in Form
  BY DEF Restart, FreshForm, Form, NoResult, Result, LinkInv, CreatorTypeOK,
         CreatePages
<1>2. post' \in [Posts -> Post \union {NoPost}] /\ PostInv'
  BY DEF Restart, PostInv
<1>3. acts' \in 0..MaxActs
  BY BoundsAssumption DEF Restart, LinkInv, CreatorTypeOK
<1> QED
  BY <1>1, <1>2, <1>3 DEF Restart, LinkInv, CreatorTypeOK, IssuedInv,
                          KeyOpensItsLink, CustomKeyNotInLink

\* The recipient comes.
LEMMA ComeStep == LinkInv /\ Come => LinkInv'
<1> SUFFICES ASSUME LinkInv, Come PROVE LinkInv'
  OBVIOUS
<1>1. form' \in Form
  BY DEF Come, FreshForm, Form, CreatePages, NoResult, Result
<1>2. post' \in [Posts -> Post \union {NoPost}] /\ PostInv'
  BY DEF Come, PostInv
<1>3. acts' \in 0..MaxActs
  BY BoundsAssumption DEF Come
<1> QED
  BY <1>1, <1>2, <1>3 DEF Come, LinkInv, CreatorTypeOK, IssuedInv,
                          KeyOpensItsLink, CustomKeyNotInLink

(***************************************************************************)
(* What the recipient does changes only secrets, and of a secret only      *)
(* whether it is still kept and what its receipt says.                     *)
(***************************************************************************)
SecretsStay ==
  /\ server' \in [Ids -> Secret]
  /\ \A i \in Ids : /\ server'[i].key = server[i].key
                    /\ server[i].state # "none" => server'[i].state # "none"

\* Whatever leaves the forms alone and takes no secret from the server keeps
\* the invariant.
LEMMA ReadStep ==
  ASSUME LinkInv, Read
  PROVE  LinkInv'
<1>1. UNCHANGED <<config, store, form, post, shown, acts>>
  BY DEF Read, Load, Follow, StatusArrives, StatusLost, Reveal, EnterKey,
         Download, Serve, Break, Arrive, Vanish, Unchanged
<1>2. faults' \in 0..MaxFaults
  <2>1. CASE \/ Load \/ Follow \/ StatusArrives \/ Reveal \/ EnterKey
             \/ Download \/ \E n \in Gets : Serve(n) \/ Arrive(n)
             \/ \E i \in Ids : Vanish(i)
    <3>1. UNCHANGED faults
      BY <2>1 DEF Load, Follow, StatusArrives, Reveal, EnterKey, Download,
                  Serve, Arrive, Vanish
    <3> QED
      BY <3>1 DEF LinkInv, CreatorTypeOK
  <2>2. CASE StatusLost \/ \E n \in Gets : Break(n)
    <3>1. faults < MaxFaults /\ faults' = faults + 1
      BY <2>2 DEF StatusLost, Break
    <3> QED
      BY <3>1, BoundsAssumption DEF LinkInv, CreatorTypeOK
  <2> QED
    BY <2>1, <2>2 DEF Read
<1>3. SecretsStay
  <2>1. CASE UNCHANGED server
    BY <2>1 DEF SecretsStay, LinkInv, CreatorTypeOK
  <2>2. ASSUME NEW i \in Ids, server' = [server EXCEPT ![i] = Opened(server[i])]
        PROVE  SecretsStay
    <3>1. server[i] \in Secret /\ server \in [Ids -> Secret]
      BY DEF LinkInv, CreatorTypeOK
    <3>2. /\ Opened(server[i]) \in Secret
          /\ Opened(server[i]).key = server[i].key
          /\ server[i].state # "none" => Opened(server[i]).state # "none"
      BY <3>1 DEF Opened, Secret
    <3> QED
      BY <2>2, <3>1, <3>2 DEF SecretsStay
  <2>3. ASSUME NEW i \in Ids, server' = [server EXCEPT ![i].state = "gone"]
        PROVE  SecretsStay
    BY <2>3 DEF SecretsStay, LinkInv, CreatorTypeOK, Secret
  <2>4. CASE \E n \in Gets : Serve(n)
    <3>1. PICK n \in Gets : Serve(n)
      BY <2>4
    <3>2. UNCHANGED server \/ server' = [server EXCEPT ![get[n].id] =
                                            Opened(server[get[n].id])]
      BY <3>1 DEF Serve
    <3>3. CASE get[n].id \notin Ids
      BY <3>2, <3>3 DEF SecretsStay, LinkInv, CreatorTypeOK
    <3> QED
      BY <2>1, <2>2, <3>2, <3>3
  <2>5. CASE \E i \in Ids : Vanish(i)
    BY <2>5, <2>3 DEF Vanish
  <2>6. CASE \/ Load \/ Follow \/ StatusArrives \/ StatusLost \/ Reveal
             \/ EnterKey \/ Download \/ \E n \in Gets : Break(n) \/ Arrive(n)
    <3>1. UNCHANGED server
      BY <2>6 DEF Load, Follow, StatusArrives, StatusLost, Reveal, EnterKey,
                  Download, Break, Arrive
    <3> QED
      BY <2>1, <3>1
  <2> QED
    BY <2>4, <2>5, <2>6 DEF Read
<1>4. CreatorTypeOK'
  BY <1>1, <1>2, <1>3 DEF SecretsStay, LinkInv, CreatorTypeOK
<1>7. PostInv' /\ CustomKeyNotInLink'
  BY <1>1 DEF LinkInv, PostInv, CustomKeyNotInLink
<1>5. \A link \in shown : link.id # NoData => link.id \in Ids
  BY DEF LinkInv, CreatorTypeOK, Link
<1>6. IssuedInv' /\ KeyOpensItsLink'
  BY <1>1, <1>3, <1>5 DEF SecretsStay, LinkInv, IssuedInv, KeyOpensItsLink
<1> QED
  BY <1>4, <1>6, <1>7 DEF LinkInv

------------------------------------------------------------------------------
\* Every step keeps the invariant.
LEMMA LinkStep == LinkInv /\ [Next]_vars => LinkInv'
<1> SUFFICES ASSUME LinkInv, [Next]_vars PROVE LinkInv'
  OBVIOUS
<1>1. CASE Create
  <2>1. CASE \/ ToggleOneTime \/ ToggleGenerateKey \/ ToggleReadReceipt
             \/ TypePassword \/ ChooseFile
    BY <2>1, EditStep
  <2>2. CASE Submit \/ Restart
    BY <2>2, SubmitStep, RestartStep
  <2>3. ASSUME NEW n \in Posts, Answered(n) \/ AnsweredBadly(n) PROVE LinkInv'
    BY <2>3, AnsweredStep, AnsweredBadlyStep
  <2>4. ASSUME NEW where \in CreatePages \union {"list"}, GoTo(where) PROVE LinkInv'
    BY <2>4, GoToStep
  <2> QED
    BY <1>1, <2>1, <2>2, <2>3, <2>4 DEF Create
<1>2. CASE Come
  BY <1>2, ComeStep
<1>3. CASE Read
  BY <1>3, ReadStep
<1>4. CASE UNCHANGED vars
  BY <1>4, LinkStutter DEF vars, creates
<1> QED
  BY <1>1, <1>2, <1>3, <1>4 DEF Next

(***************************************************************************)
(* What is known of every link that was shown, and of every submission,    *)
(* whatever was typed, sent and heard in whatever order.                   *)
(***************************************************************************)
THEOREM ReaderLinks == Spec => []LinkInv
  BY LinkInit, LinkStep, PTL DEF Spec

(***************************************************************************)
(* The key that is shown with a link opens what is stored under that link  *)
(* (CreateSecret.onSubmit, StreamingUpload.onSubmit).                      *)
(***************************************************************************)
THEOREM ReaderKeyOpensItsLink == Spec => []KeyOpensItsLink
<1>1. LinkInv => KeyOpensItsLink
  BY DEF LinkInv
<1> QED
  BY <1>1, ReaderLinks, PTL

(***************************************************************************)
(* A password that somebody thought of is never put into a link            *)
(* (useSecretForm.getPassword and isCustomPassword, Result).               *)
(***************************************************************************)
THEOREM ReaderCustomKeyNotInLink == Spec => []CustomKeyNotInLink
<1>1. LinkInv => CustomKeyNotInLink
  BY DEF LinkInv
<1> QED
  BY <1>1, ReaderLinks, PTL

------------------------------------------------------------------------------
(***************************************************************************)
(* The recipient's tab.                                                    *)
(***************************************************************************)
(***************************************************************************)
(* What is known of a tab t that shows a link: the text it holds is the    *)
(* one it fetched last, that is the text of the address wherever a text is *)
(* fetched at all, and a file is mounted for the address while, and only   *)
(* while, it is on the screen.                                             *)
(***************************************************************************)
TextInv(t) ==
  /\ t.text.secret \in {None, t.text.of}
  /\ ~t.address.file /\ FetchSecret(t) => t.text.of = t.address.id

FileInv(t) ==
  IF Screen(t) = "file" THEN t.file.of = t.address.id ELSE t.file = NoFile

\* In a page that has shown one link only, what is fetched has been revealed, or
\* is known not to be one-time.
FirstInv(t) ==
  config.prefetch /\ ~t.moved =>
    /\ t.requested => t.address.id \in t.revealed
    /\ t.status.known = "many" => ~server[t.address.id].oneTime

\* A download that the page waits for: there is one at most, and the page says so.
Awaited(g) == g # NoGet /\ g.live /\ g.file

GetInv ==
  /\ \A n \in Asked : Reading
  /\ \A n \in Gets : Awaited(get[n]) => tab.file.phase = "loading"
  /\ \A n, m \in Gets : Awaited(get[n]) /\ Awaited(get[m]) => n = m

PageInv == /\ Reading => TextInv(tab) /\ FileInv(tab) /\ FirstInv(tab)
           /\ GetInv
           /\ FirstIsRevealed

------------------------------------------------------------------------------
(***************************************************************************)
(* The operators a render is made of.                                      *)
(***************************************************************************)
\* A tab that shows a link is none that shows nothing.
LEMMA TabApart ==
  ASSUME NEW t \in Tab
  PROVE  t # Closed /\ t # Blank
<1>1. t # [address |-> None]
  BY DEF Tab
<1>2. t # [address |-> NoKey]
  BY DEF Tab
<1> QED
  BY <1>1, <1>2 DEF Closed, Blank

LEMMA GetApart ==
  ASSUME NEW g \in Get
  PROVE  g # NoGet
  BY DEF Get, NoGet

\* What is on the screen does not depend on the password or the file.
LEMMA ScreenFields ==
  ASSUME NEW t, NEW u, u.address = t.address, u.requested = t.requested,
         u.status = t.status, u.text = t.text
  PROVE  Screen(u) = Screen(t) /\ (FetchSecret(u) <=> FetchSecret(t))
  BY DEF Screen, FetchSecret

\* What is fetched is on the screen, unless it is on its way or failed.
LEMMA ScreenFacts ==
  ASSUME NEW t \in Tab
  PROVE  /\ Screen(t) \in {"error", "loading", "confirm", "file", "text"}
         /\ Screen(t) = "file" => /\ t.address.file /\ FetchSecret(t)
                                  /\ ~t.status.busy
         /\ Screen(t) = "text" => /\ ~t.address.file /\ FetchSecret(t)
                                  /\ t.text.secret # None
         /\ Screen(t) = "confirm" => ~FetchSecret(t)
  BY DEF Screen, Tab, Address

\* Nothing but the password and the file changes when a page is mounted.
LEMMA MountedFields ==
  ASSUME NEW old, NEW t \in Tab
  PROVE  LET m == Mounted(old, t) IN
         /\ m \in Tab
         /\ m.address = t.address /\ m.requested = t.requested
         /\ m.status = t.status /\ m.text = t.text
         /\ m.revealed = t.revealed /\ m.moved = t.moved
         /\ m.file = IF Screen(t) # "file" THEN NoFile
                     ELSE IF /\ old # Blank /\ Screen(old) = "file"
                             /\ t.file.of = t.address.id
                     THEN t.file
                     ELSE [of |-> t.address.id, key |-> t.address.key,
                           phase |-> IF t.address.key = NoKey THEN "idle"
                                     ELSE "loading"]
<1> DEFINE fresh == [of |-> t.address.id, key |-> t.address.key,
                     phase |-> IF t.address.key = NoKey THEN "idle" ELSE "loading"]
           file == IF Screen(t) # "file" THEN NoFile
                   ELSE IF /\ old # Blank /\ Screen(old) = "file"
                           /\ t.file.of = t.address.id
                   THEN t.file ELSE fresh
           password == IF Screen(t) # "text" THEN NoKey
                       ELSE IF old # Blank /\ Screen(old) = "text" THEN t.password
                       ELSE t.address.key
<1>1. /\ t.address \in Address /\ t.file \in File
      /\ t.password \in Keys \union {NoKey}
  BY DEF Tab
<1>2. fresh \in File /\ NoFile \in File
  BY <1>1 DEF Address, File, NoFile
<1>3. file \in File /\ password \in Keys \union {NoKey}
  <2>1. file \in {NoFile, t.file, fresh}
    OBVIOUS
  <2>2. password \in {NoKey, t.password, t.address.key}
    OBVIOUS
  <2> QED
    BY <1>1, <1>2, <2>1, <2>2 DEF Address
<1>4. Mounted(old, t) = [t EXCEPT !.password = password, !.file = file]
  BY Zenon DEF Mounted
<1> HIDE DEF file, password
<1>5. LET m == Mounted(old, t) IN
         /\ m \in Tab
         /\ m.address = t.address /\ m.requested = t.requested
         /\ m.status = t.status /\ m.text = t.text
         /\ m.revealed = t.revealed /\ m.moved = t.moved
         /\ m.file = file
  BY <1>3, <1>4 DEF Tab
<1> QED
  BY <1>5 DEF file

\* A file is mounted for the address it is shown under.
LEMMA MountedFile ==
  ASSUME NEW old, NEW t \in Tab
  PROVE  FileInv(Mounted(old, t))
<1> DEFINE m == Mounted(old, t)
<1>1. /\ m.address = t.address
      /\ m.file = IF Screen(t) # "file" THEN NoFile
                  ELSE IF /\ old # Blank /\ Screen(old) = "file"
                          /\ t.file.of = t.address.id
                  THEN t.file
                  ELSE [of |-> t.address.id, key |-> t.address.key,
                        phase |-> IF t.address.key = NoKey THEN "idle"
                                  ELSE "loading"]
  BY MountedFields
<1>2. Screen(m) = Screen(t)
  BY MountedFields, ScreenFields
<1> HIDE DEF m
<1>3. IF Screen(t) = "file" THEN m.file.of = t.address.id ELSE m.file = NoFile
  BY <1>1
<1>4. FileInv(m)
  BY <1>1, <1>2, <1>3 DEF FileInv
<1> QED
  BY <1>4 DEF m

\* The status that was known stays, or is forgotten.
LEMMA AskFields ==
  ASSUME NEW t \in Tab, config \in Config
  PROVE  LET a == AskStatus(t) IN
         /\ a \in Tab
         /\ a.address = t.address /\ a.requested = t.requested
         /\ a.text = t.text /\ a.file = t.file
         /\ a.revealed = t.revealed /\ a.moved = t.moved
         /\ a.status.known \in {t.status.known, "none"}
         /\ FetchSecret(a) => FetchSecret(t)
<1>1. t.status \in Status /\ NoStatus \in Status
  BY DEF Tab, Status, NoStatus
<1>2. PICK s \in Status : /\ AskStatus(t) = [t EXCEPT !.status = s]
                          /\ s.known \in {t.status.known, "none"}
  <2>1. [t.status EXCEPT !.busy = TRUE] \in Status
    BY <1>1 DEF Status
  <2>2. [t.status EXCEPT !.busy = TRUE].known = t.status.known
    BY <1>1 DEF Status
  <2>3. CASE StatusEnabled(t)
    <3>1. AskStatus(t) = [t EXCEPT !.status = [t.status EXCEPT !.busy = TRUE]]
      BY <2>3 DEF AskStatus, Tab
    <3> QED
      BY <2>1, <2>2, <3>1
  <2>4. CASE ~StatusEnabled(t)
    BY <1>1, <2>4 DEF AskStatus, NoStatus
  <2> QED
    BY <2>3, <2>4
<1>3. LET a == AskStatus(t) IN
         /\ a \in Tab
         /\ a.address = t.address /\ a.requested = t.requested
         /\ a.text = t.text /\ a.file = t.file
         /\ a.revealed = t.revealed /\ a.moved = t.moved
         /\ a.status = s
  BY <1>2 DEF Tab
<1> QED
  BY <1>2, <1>3 DEF FetchSecret

\* A text is fetched where one is to be shown and was not fetched already.
LEMMA FetchFields ==
  ASSUME NEW t \in Tab
  PROVE  LET f == FetchText(t) IN
         /\ f \in Tab
         /\ f.address = t.address /\ f.requested = t.requested
         /\ f.status = t.status /\ f.file = t.file
         /\ f.revealed = t.revealed /\ f.moved = t.moved
         /\ ~FetchesText(t) => f = t
         /\ FetchesText(t) => /\ f.text.of = t.address.id
                              /\ f.text.secret = None
                              /\ ~t.address.file /\ FetchSecret(t)
<1> DEFINE asked == [NoText EXCEPT !.of = t.address.id, !.busy = TRUE]
<1>1. t.address.id \in Ids
  BY DEF Tab, Address
<1>2. asked \in Text /\ asked.of = t.address.id /\ asked.secret = None
  BY <1>1 DEF NoText, Text
<1>3. CASE FetchesText(t)
  <2>1. FetchText(t) = [t EXCEPT !.text = asked]
    BY <1>3 DEF FetchText
  <2> HIDE DEF asked
  <2>2. LET f == FetchText(t) IN
         /\ f \in Tab
         /\ f.address = t.address /\ f.requested = t.requested
         /\ f.status = t.status /\ f.file = t.file
         /\ f.revealed = t.revealed /\ f.moved = t.moved
         /\ f.text = asked
    BY <1>2, <2>1 DEF Tab
  <2> QED
    BY <1>2, <1>3, <2>2 DEF FetchesText
<1>4. CASE ~FetchesText(t)
  BY <1>4 DEF FetchText
<1> QED
  BY <1>3, <1>4

\* Once it was fetched, if it had to be, the text is that of the address.
LEMMA FetchedText ==
  ASSUME NEW t \in Tab, t.text.secret \in {None, t.text.of}
  PROVE  TextInv(FetchText(t))
<1>1. FetchSecret(FetchText(t)) <=> FetchSecret(t)
  BY FetchFields DEF FetchSecret
<1>2. CASE FetchesText(t)
  BY <1>2, FetchFields DEF TextInv
<1>3. CASE ~FetchesText(t)
  BY <1>1, <1>3, FetchFields DEF TextInv, FetchesText
<1> QED
  BY <1>2, <1>3

------------------------------------------------------------------------------
(***************************************************************************)
(* What an event and the renders after it leave behind.                    *)
(***************************************************************************)
\* What a render leaves in the tab.
LEMMA ReactTab ==
  ASSUME config \in Config, NEW old, NEW t \in Tab, NEW asks \in BOOLEAN, NEW g,
         React(old, t, asks, g), t.text.secret \in {None, t.text.of}
  PROVE  /\ tab' \in Tab
         /\ tab'.address = t.address /\ tab'.requested = t.requested
         /\ tab'.revealed = t.revealed /\ tab'.moved = t.moved
         /\ tab'.status.known \in {t.status.known, "none"}
         /\ TextInv(tab') /\ FileInv(tab')
         /\ t.address.file \/ t.text.of = t.address.id => tab'.text = t.text
<1> DEFINE first == Mounted(old, t)
           asked == IF asks THEN AskStatus(first) ELSE first
           read  == FetchText(asked)
           new   == Mounted(first, read)
<1>1. tab' = new
  BY DEF React
<1>2. /\ first \in Tab
      /\ first.address = t.address /\ first.requested = t.requested
      /\ first.revealed = t.revealed /\ first.moved = t.moved
      /\ first.status = t.status /\ first.text = t.text
  BY MountedFields
<1> HIDE DEF first
<1>3. /\ asked \in Tab
      /\ asked.address = t.address /\ asked.requested = t.requested
      /\ asked.revealed = t.revealed /\ asked.moved = t.moved
      /\ asked.status.known \in {t.status.known, "none"}
      /\ asked.text = t.text
  BY <1>2, AskFields
<1> HIDE DEF asked
<1>4. /\ read \in Tab
      /\ read.address = t.address /\ read.requested = t.requested
      /\ read.revealed = t.revealed /\ read.moved = t.moved
      /\ read.status = asked.status
      /\ t.address.file \/ t.text.of = t.address.id => read.text = t.text
  BY <1>3, FetchFields DEF FetchesText
<1>5. TextInv(read)
  BY <1>3, FetchedText
<1> HIDE DEF read
<1>6. /\ new \in Tab
      /\ new.address = read.address /\ new.requested = read.requested
      /\ new.revealed = read.revealed /\ new.moved = read.moved
      /\ new.status = read.status /\ new.text = read.text
  BY <1>4, MountedFields
<1>7. FileInv(new)
  BY <1>4, MountedFile
<1> HIDE DEF new
<1>8. TextInv(new)
  BY <1>5, <1>6 DEF TextInv, FetchSecret
<1> QED
  BY <1>1, <1>3, <1>4, <1>6, <1>7, <1>8

\* The request that a tab sends.
LEMMA GetOfFields ==
  ASSUME NEW t \in Tab, NEW key \in Keys \union {NoKey}, NEW live \in BOOLEAN
  PROVE  LET x == [GetOf(t, key) EXCEPT !.live = live] IN
         /\ x \in Get /\ GetOf(t, key) \in Get
         /\ x.id = t.address.id /\ GetOf(t, key).id = t.address.id
         /\ x.file = t.address.file /\ GetOf(t, key).file = t.address.file
         /\ x.live = live
         /\ x.because = GetOf(t, key).because
         /\ GetOf(t, key).because = "first" =>
              ~t.moved /\ t.address.id \notin t.revealed
<1>1. t.address.id \in Ids /\ t.address.file \in BOOLEAN
  BY DEF Tab, Address
<1>2. GetOf(t, key) \in Get
  BY <1>1 DEF GetOf, Get
<1>3. GetOf(t, key).because = "first" => ~t.moved /\ t.address.id \notin t.revealed
  BY DEF GetOf
<1>4. GetOf(t, key).id = t.address.id /\ GetOf(t, key).file = t.address.file
  BY DEF GetOf
<1> QED
  BY <1>2, <1>3, <1>4 DEF Get

\* A request takes a free place.
LEMMA SendFields ==
  ASSUME NEW g \in [Gets -> Get \union {NoGet}], NEW x \in Get, Send(g, x)
  PROVE  \E k \in Gets : g[k] = NoGet /\ get' = [g EXCEPT ![k] = x]
  BY DEF Send

(***************************************************************************)
(* What a render makes of the requests in flight: those the page no longer *)
(* waits for are on their own, and a new one is for what is shown.  The    *)
(* page goes on waiting for a download only while its file stays mounted.  *)
(***************************************************************************)
LEMMA ReactGets ==
  ASSUME config \in Config, NEW old \in Tab \union {Blank}, NEW t \in Tab,
         NEW asks \in BOOLEAN, NEW g \in [Gets -> Get \union {NoGet}],
         React(old, t, asks, g),
         old # Blank => FileInv(old),
         \A n \in Gets : Awaited(g[n]) /\ old # Blank =>
           t.file = old.file /\ old.file.phase = "loading",
         \A n, m \in Gets : Awaited(g[n]) /\ Awaited(g[m]) => n = m
  PROVE  /\ get' \in [Gets -> Get \union {NoGet}]
         /\ \A n \in Gets : get'[n] # NoGet =>
              \/ /\ g[n] # NoGet /\ get'[n].id = g[n].id
                 /\ get'[n].because = g[n].because
              \/ /\ get'[n].id = t.address.id /\ FetchSecret(t)
                 /\ get'[n].because = "first" =>
                      ~t.moved /\ t.address.id \notin t.revealed
         /\ \A n \in Gets : Awaited(get'[n]) => tab'.file.phase = "loading"
         /\ \A n, m \in Gets : Awaited(get'[n]) /\ Awaited(get'[m]) => n = m
<1> DEFINE first     == Mounted(old, t)
           asked     == IF asks THEN AskStatus(first) ELSE first
           new       == Mounted(first, FetchText(asked))
           mounted   == old = Blank \/ old.file.of # first.file.of
           downloads == mounted /\ first.file.phase = "loading"
           stays     == new.file = first.file
           waits(n)  == g[n].live /\ old # Blank /\ (g[n].file => ~mounted /\ stays)
           rest      == [n \in Gets |-> IF g[n] = NoGet THEN NoGet
                                        ELSE [g[n] EXCEPT !.live = waits(n)]]
<1>1. /\ tab' = new
      /\ IF downloads
         THEN Send(rest, [GetOf(t, first.file.key) EXCEPT !.live = stays])
         ELSE IF FetchesText(asked) THEN Send(rest, GetOf(t, NoKey))
         ELSE get' = rest
  BY DEF React
<1>2. /\ first \in Tab /\ first.address = t.address
      /\ first.status = t.status /\ first.requested = t.requested
      /\ first.file = IF Screen(t) # "file" THEN NoFile
                      ELSE IF /\ old # Blank /\ Screen(old) = "file"
                              /\ t.file.of = t.address.id
                      THEN t.file
                      ELSE [of |-> t.address.id, key |-> t.address.key,
                            phase |-> IF t.address.key = NoKey THEN "idle"
                                      ELSE "loading"]
  BY MountedFields
<1>3. first.file.phase = "loading" => FetchSecret(t)
  BY <1>2, ScreenFacts DEF NoFile
<1>4. Screen(t) # "file" => first.file.of = None
  BY <1>2 DEF NoFile
<1>5. Screen(t) = "file" => first.file.of = t.address.id
  BY <1>2
<1>6. Screen(t) = "file" /\ old # Blank /\ Screen(old) = "file" /\ t.file.of = t.address.id
        => first.file = t.file
  BY <1>2
<1> HIDE DEF first
<1>7. /\ asked.address = t.address
      /\ FetchSecret(asked) => FetchSecret(t)
  BY <1>2, AskFields DEF FetchSecret
<1>8. FetchesText(asked) => FetchSecret(t) /\ ~t.address.file
  BY <1>7 DEF FetchesText
<1> HIDE DEF asked, new
<1>9. stays \in BOOLEAN /\ first.file.key \in Keys \union {NoKey}
  BY <1>2 DEF Tab, File
<1> HIDE DEF stays
<1>10. ASSUME NEW n \in Gets
       PROVE  /\ rest[n] = NoGet <=> g[n] = NoGet
              /\ g[n] # NoGet => /\ rest[n] \in Get
                                 /\ rest[n].id = g[n].id
                                 /\ rest[n].because = g[n].because
                                 /\ rest[n].file = g[n].file
                                 /\ rest[n].live <=> waits(n)
  <2>1. CASE g[n] = NoGet
    BY <2>1
  <2>2. CASE g[n] # NoGet
    <3>1. g[n] \in Get
      BY <2>2
    <3>2. rest[n] = [g[n] EXCEPT !.live = waits(n)]
      BY <2>2
    <3>3. g[n].live \in BOOLEAN
      BY <3>1 DEF Get
    <3>4. PICK b \in BOOLEAN : b = waits(n)
      BY <3>3, Zenon
    <3> HIDE DEF rest, waits
    <3>5. rest[n] = [g[n] EXCEPT !.live = b]
      BY <3>2, <3>4
    <3>6. /\ rest[n] \in Get
          /\ rest[n].id = g[n].id /\ rest[n].because = g[n].because
          /\ rest[n].file = g[n].file /\ rest[n].live = b
      BY <3>1, <3>5 DEF Get
    <3> QED
      BY <2>2, <3>4, <3>6, GetApart
  <2> QED
    BY <2>1, <2>2
<1>11. rest \in [Gets -> Get \union {NoGet}]
  <2>1. \A n \in Gets : rest[n] \in Get \union {NoGet}
    BY <1>10
  <2> QED
    BY <2>1
<1>12. ASSUME NEW n \in Gets, Awaited(rest[n])
       PROVE  Awaited(g[n]) /\ old # Blank /\ ~mounted /\ stays
  BY <1>10, <1>12 DEF Awaited
<1> HIDE DEF rest
<1>13. ASSUME NEW n \in Gets, Awaited(rest[n])
       PROVE  new.file.phase = "loading"
  <2>1. /\ old \in Tab /\ t.file = old.file /\ old.file.phase = "loading"
        /\ old.file.of = first.file.of /\ stays
    BY <1>12, <1>13
  <2>2. old.file # NoFile
    BY <2>1 DEF NoFile
  <2>3. Screen(old) = "file" /\ old.file.of = old.address.id /\ old.address.id \in Ids
    BY <1>12, <1>13, <2>1, <2>2 DEF FileInv, Tab, Address
  <2>4. Screen(t) = "file"
    BY <1>4, <2>1, <2>3, NoneAssumption
  <2>5. first.file = t.file
    BY <1>5, <1>6, <1>12, <1>13, <2>1, <2>3, <2>4
  <2> QED
    BY <2>1, <2>5 DEF stays
<1>14. CASE downloads
  <2> DEFINE x == [GetOf(t, first.file.key) EXCEPT !.live = stays]
  <2>1. /\ x \in Get /\ x.id = t.address.id /\ x.live = stays
        /\ x.because = "first" => ~t.moved /\ t.address.id \notin t.revealed
    BY <1>9, GetOfFields
  <2>2. Send(rest, x)
    BY <1>1, <1>14
  <2> HIDE DEF x
  <2>3. PICK k \in Gets : rest[k] = NoGet /\ get' = [rest EXCEPT ![k] = x]
    BY <1>11, <2>1, <2>2, SendFields
  <2>4. get'[k] = x /\ \A n \in Gets : n # k => get'[n] = rest[n]
    BY <1>11, <2>3
  <2>5. \A n \in Gets : Awaited(get'[n]) => n = k /\ stays
    BY <1>12, <1>14, <2>1, <2>4 DEF Awaited
  <2>6. \A n \in Gets : Awaited(get'[n]) => tab'.file.phase = "loading"
    BY <1>1, <1>14, <2>5 DEF stays
  <2>7. get' \in [Gets -> Get \union {NoGet}]
    BY <1>11, <2>1, <2>3
  <2>8. FetchSecret(t)
    BY <1>3, <1>14
  <2> HIDE DEF downloads, waits, mounted
  <2> QED
    BY <1>10, <2>1, <2>4, <2>5, <2>6, <2>7, <2>8
<1>15. CASE ~downloads /\ FetchesText(asked)
  <2> DEFINE x == GetOf(t, NoKey)
  <2>1. /\ x \in Get /\ x.id = t.address.id /\ ~x.file
        /\ x.because = "first" => ~t.moved /\ t.address.id \notin t.revealed
    BY <1>8, <1>15, GetOfFields
  <2>2. Send(rest, x)
    BY <1>1, <1>15
  <2> HIDE DEF x
  <2>3. PICK k \in Gets : rest[k] = NoGet /\ get' = [rest EXCEPT ![k] = x]
    BY <1>11, <2>1, <2>2, SendFields
  <2>4. get'[k] = x /\ \A n \in Gets : n # k => get'[n] = rest[n]
    BY <1>11, <2>3
  <2>5. \A n \in Gets : Awaited(get'[n]) => n # k /\ Awaited(rest[n])
    BY <2>1, <2>4 DEF Awaited
  <2>6. get' \in [Gets -> Get \union {NoGet}]
    BY <1>11, <2>1, <2>3
  <2>7. FetchSecret(t)
    BY <1>8, <1>15
  <2> HIDE DEF downloads, waits, mounted
  <2> QED
    BY <1>1, <1>10, <1>12, <1>13, <2>1, <2>4, <2>5, <2>6, <2>7
<1>16. CASE ~downloads /\ ~FetchesText(asked)
  <2>1. get' = rest
    BY <1>1, <1>16
  <2> HIDE DEF downloads, waits, mounted
  <2> QED
    BY <1>1, <1>10, <1>11, <1>12, <1>13, <2>1
<1> QED
  BY <1>14, <1>15, <1>16

------------------------------------------------------------------------------
(***************************************************************************)
(* Every step keeps the types and the invariant.                           *)
(***************************************************************************)
ReadInv == TypeOK /\ LinkInv /\ PageInv

\* A tab that shows a link, and what is known of it.
LEMMA ReadingTab ==
  ASSUME ReadInv, Reading
  PROVE  /\ tab \in Tab /\ tab # Blank /\ config \in Config
         /\ tab.address.id \in Ids
         /\ TextInv(tab) /\ FileInv(tab) /\ FirstInv(tab)
  BY DEF ReadInv, TypeOK, CreatorTypeOK, PageInv, Reading, Tab, Address

\* A link that was shown is an address of the page.
LEMMA AddressType ==
  ASSUME ReadInv, NEW a \in Addresses
  PROVE  a \in Address
<1>1. shown \subseteq Link
  BY DEF ReadInv, TypeOK, CreatorTypeOK
<1>2. PICK link \in shown : /\ link.id # NoData
                            /\ \/ a = [id |-> link.id, key |-> NoKey, file |-> link.file]
                               \/ a = [id |-> link.id, key |-> link.key, file |-> link.file]
  BY DEF Addresses
<1>3. link.id \in Ids /\ link.key \in Keys /\ link.file \in BOOLEAN
  BY <1>1, <1>2 DEF Link
<1> QED
  BY <1>2, <1>3 DEF Address

LEMMA FreshType ==
  ASSUME NEW a \in Address, config \in Config
  PROVE  LET t == FreshTab(a) IN
         /\ t \in Tab /\ t.address = a /\ t.requested = ~config.prefetch
         /\ t.status.known = "none"
         /\ t.text = NoText /\ ~t.moved
<1>1. NoStatus \in Status /\ NoText \in Text /\ NoFile \in File /\ NoStatus.known = "none"
  BY DEF NoStatus, Status, NoText, Text, NoFile, File
<1>2. (~config.prefetch) \in BOOLEAN
  BY Zenon
<1> QED
  BY <1>1, <1>2 DEF FreshTab, Tab

(***************************************************************************)
(* An event of the tab: it makes t of it, and g of the requests in flight, *)
(* and the page renders.                                                   *)
(***************************************************************************)
LEMMA EventStep ==
  ASSUME ReadInv, NEW old \in Tab \union {Blank}, old # Blank => old = tab,
         NEW t \in Tab, NEW asks \in BOOLEAN,
         NEW g \in [Gets -> Get \union {NoGet}], React(old, t, asks, g),
         UNCHANGED <<config, server>>,
         t.text.secret \in {None, t.text.of}, FirstInv(t),
         \A n \in Gets : g[n] # NoGet => g[n] = get[n],
         \A n \in Gets : Awaited(g[n]) /\ old # Blank => t.file = tab.file
  PROVE  /\ tab' \in Tab /\ get' \in [Gets -> Get \union {NoGet}]
         /\ PageInv'
<1>1. /\ config \in Config
      /\ \A n \in Gets : Awaited(g[n]) /\ old # Blank => tab.file.phase = "loading"
      /\ \A n, m \in Gets : Awaited(g[n]) /\ Awaited(g[m]) => n = m
      /\ FirstIsRevealed
  BY DEF ReadInv, TypeOK, CreatorTypeOK, PageInv, GetInv, Awaited
<1>2. old # Blank => FileInv(old)
  BY ReadingTab, TabApart DEF Reading
<1>3. /\ tab' \in Tab
      /\ tab'.address = t.address /\ tab'.requested = t.requested
      /\ tab'.revealed = t.revealed /\ tab'.moved = t.moved
      /\ tab'.status.known \in {t.status.known, "none"}
      /\ TextInv(tab') /\ FileInv(tab')
  BY <1>1, ReactTab
<1>4. /\ get' \in [Gets -> Get \union {NoGet}]
      /\ \A n \in Gets : get'[n] # NoGet =>
           \/ /\ g[n] # NoGet /\ get'[n].id = g[n].id
              /\ get'[n].because = g[n].because
           \/ /\ get'[n].id = t.address.id /\ FetchSecret(t)
              /\ get'[n].because = "first" =>
                   ~t.moved /\ t.address.id \notin t.revealed
      /\ \A n \in Gets : Awaited(get'[n]) => tab'.file.phase = "loading"
      /\ \A n, m \in Gets : Awaited(get'[n]) /\ Awaited(get'[m]) => n = m
  BY <1>1, <1>2, ReactGets
<1>5. Reading'
  BY <1>3, TabApart DEF Reading, Closed, Blank
<1>6. TextInv(tab)' /\ FileInv(tab)'
  BY <1>3 DEF TextInv, FileInv, FetchSecret, Screen
<1>7. FirstInv(tab)'
  BY <1>3 DEF FirstInv
<1>8. GetInv'
  BY <1>4, <1>5 DEF GetInv, Awaited, Asked
<1>9. FirstIsRevealed'
  <2> SUFFICES ASSUME config.prefetch, NEW n \in Gets, get'[n] # NoGet,
                      get'[n].because = "first"
               PROVE  ~server[get'[n].id].oneTime
    BY DEF FirstIsRevealed, Requested, Asked
  <2>1. CASE g[n] # NoGet /\ get'[n].id = g[n].id /\ get'[n].because = g[n].because
    BY <1>1, <2>1 DEF FirstIsRevealed, Requested, Asked
  <2>2. CASE get'[n].id = t.address.id /\ FetchSecret(t)
             /\ ~t.moved /\ t.address.id \notin t.revealed
    BY <2>2 DEF FetchSecret, FirstInv
  <2> QED
    BY <1>4, <2>1, <2>2
<1> QED
  BY <1>3, <1>4, <1>6, <1>7, <1>8, <1>9 DEF PageInv

\* The requests in flight as they are.
LEMMA GetType ==
  ASSUME ReadInv
  PROVE  /\ get \in [Gets -> Get \union {NoGet}]
         /\ \A n \in Gets : get[n] # NoGet => get[n] \in Get
  BY DEF ReadInv, TypeOK

LEMMA LoadStep ==
  ASSUME ReadInv, Load
  PROVE  /\ tab' \in Tab /\ get' \in [Gets -> Get \union {NoGet}]
         /\ PageInv'
<1>1. PICK a \in Addresses : React(Blank, AskStatus(FreshTab(a)), FALSE, get)
  BY DEF Load
<1>2. config \in Config
  BY DEF ReadInv, TypeOK, CreatorTypeOK
<1> DEFINE t == AskStatus(FreshTab(a))
<1>3. /\ t \in Tab /\ t.address = a /\ t.requested = ~config.prefetch
      /\ t.status.known = "none"
      /\ t.text = NoText
  BY <1>2, AddressType, FreshType, AskFields
<1>4. React(Blank, t, FALSE, get)
  BY <1>1
<1> HIDE DEF t
<1>5. FirstInv(t) /\ t.text.secret = None
  <2>1. config.prefetch => ~t.requested
    BY <1>3, Zenon
  <2> QED
    BY <1>3, <2>1 DEF FirstInv, NoText
<1>6. UNCHANGED <<config, server>>
  BY DEF Load
<1> QED
  BY <1>3, <1>4, <1>5, <1>6, GetType, EventStep

LEMMA FollowStep ==
  ASSUME ReadInv, Follow
  PROVE  /\ tab' \in Tab /\ get' \in [Gets -> Get \union {NoGet}]
         /\ PageInv'
<1>1. PICK a \in Addresses :
        React(tab, [tab EXCEPT !.address = a, !.moved = @ \/ a.id # tab.address.id],
              Asks(a, tab.address), get)
  BY DEF Follow
<1>2. Reading /\ UNCHANGED <<config, server>>
  BY DEF Follow
<1>3. PICK moved \in BOOLEAN : moved = (tab.moved \/ a.id # tab.address.id)
  BY Zenon
<1> DEFINE t == [tab EXCEPT !.address = a, !.moved = moved]
<1>4. a \in Address
  BY AddressType
<1>5. /\ t \in Tab /\ t.address = a /\ t.moved = moved
      /\ t.requested = tab.requested /\ t.status = tab.status
      /\ t.text = tab.text /\ t.file = tab.file /\ t.revealed = tab.revealed
  BY <1>2, <1>4, ReadingTab DEF Tab
<1>6. PICK asks \in BOOLEAN : asks = Asks(a, tab.address)
  BY Zenon DEF Asks
<1>7. React(tab, t, asks, get)
  BY <1>1, <1>3, <1>6
<1> HIDE DEF t
<1>8. FirstInv(t)
  BY <1>2, <1>3, <1>5, ReadingTab DEF FirstInv
<1>9. t.text.secret \in {None, t.text.of}
  BY <1>2, <1>5, ReadingTab DEF TextInv
<1> QED
  BY <1>2, <1>5, <1>7, <1>8, <1>9, ReadingTab, GetType, EventStep

\* The status of the address, as the server knows it or not at all.
LEMMA StatusStep ==
  ASSUME ReadInv, StatusArrives \/ StatusLost
  PROVE  /\ tab' \in Tab /\ get' \in [Gets -> Get \union {NoGet}]
         /\ PageInv'
<1>1. Reading /\ UNCHANGED <<config, server>>
  BY DEF StatusArrives, StatusLost, Unchanged
<1>2. PICK s \in Status :
        /\ React(tab, [tab EXCEPT !.status = s], FALSE, get)
        /\ s.known = "many" => ~server[tab.address.id].oneTime
  <2>1. CASE StatusArrives
    <3> DEFINE i == tab.address.id
               s == [busy |-> FALSE,
                     known |-> IF ~Held(i) THEN "none"
                               ELSE IF server[i].oneTime THEN "oneTime" ELSE "many",
                     failed |-> ~Held(i)]
    <3>1. (~Held(i)) \in BOOLEAN
      BY Zenon
    <3>2. s \in Status /\ (s.known = "many" => ~server[i].oneTime)
      BY <3>1 DEF Status
    <3>3. React(tab, [tab EXCEPT !.status = s], FALSE, get)
      BY <2>1 DEF StatusArrives
    <3> HIDE DEF s
    <3> QED
      BY <3>2, <3>3
  <2>2. CASE StatusLost
    <3> DEFINE s == [NoStatus EXCEPT !.failed = TRUE]
    <3>1. s \in Status /\ s.known = "none"
      BY DEF NoStatus, Status
    <3>2. React(tab, [tab EXCEPT !.status = s], FALSE, get)
      BY <2>2 DEF StatusLost
    <3> HIDE DEF s
    <3> QED
      BY <3>1, <3>2
  <2> QED
    BY <2>1, <2>2
<1> DEFINE t == [tab EXCEPT !.status = s]
<1>3. /\ t \in Tab /\ t.address = tab.address /\ t.moved = tab.moved
      /\ t.requested = tab.requested /\ t.status = s
      /\ t.text = tab.text /\ t.file = tab.file /\ t.revealed = tab.revealed
  BY <1>1, ReadingTab DEF Tab
<1>4. React(tab, t, FALSE, get)
  BY <1>2
<1> HIDE DEF t
<1>5. FirstInv(t) /\ t.text.secret \in {None, t.text.of}
  BY <1>1, <1>2, <1>3, ReadingTab DEF FirstInv, TextInv
<1> QED
  BY <1>1, <1>3, <1>4, <1>5, ReadingTab, GetType, EventStep

LEMMA RevealStep ==
  ASSUME ReadInv, Reveal
  PROVE  /\ tab' \in Tab /\ get' \in [Gets -> Get \union {NoGet}]
         /\ PageInv'
<1>1. Reading /\ UNCHANGED <<config, server>>
  BY DEF Reveal, Unchanged
<1> DEFINE t == [tab EXCEPT !.requested = TRUE,
                            !.revealed = @ \union {tab.address.id}]
<1>2. /\ t \in Tab /\ t.address = tab.address /\ t.moved = tab.moved
      /\ t.requested = TRUE /\ t.status = tab.status
      /\ t.text = tab.text /\ t.file = tab.file
      /\ tab.address.id \in t.revealed
  BY <1>1, ReadingTab DEF Tab
<1>3. React(tab, t, TRUE, get)
  BY DEF Reveal
<1> HIDE DEF t
<1>4. FirstInv(t) /\ t.text.secret \in {None, t.text.of}
  BY <1>1, <1>2, ReadingTab DEF FirstInv, TextInv
<1> QED
  BY <1>1, <1>2, <1>3, <1>4, ReadingTab, GetType, EventStep

LEMMA EnterKeyStep ==
  ASSUME ReadInv, EnterKey
  PROVE  /\ tab' \in Tab /\ get' \in [Gets -> Get \union {NoGet}]
         /\ PageInv'
<1>1. /\ Reading /\ Screen(tab) = "text"
      /\ UNCHANGED <<config, server, get>>
  BY DEF EnterKey, Unchanged
<1>2. PICK k \in Keys : tab' = [tab EXCEPT !.password = k]
  BY DEF EnterKey
<1>3. /\ tab' \in Tab /\ tab'.address = tab.address /\ tab'.moved = tab.moved
      /\ tab'.requested = tab.requested /\ tab'.status = tab.status
      /\ tab'.text = tab.text /\ tab'.file = tab.file
      /\ tab'.revealed = tab.revealed
  BY <1>1, <1>2, ReadingTab DEF Tab
<1>4. TextInv(tab)' /\ FileInv(tab)' /\ FirstInv(tab)'
  BY <1>1, <1>3, ReadingTab DEF TextInv, FileInv, FirstInv, FetchSecret, Screen
<1>5. GetInv'
  <2>1. Reading'
    BY <1>3, TabApart DEF Reading, Closed, Blank
  <2> QED
    BY <1>1, <1>3, <2>1 DEF ReadInv, PageInv, GetInv, Asked
<1>6. FirstIsRevealed'
  BY <1>1 DEF ReadInv, PageInv, FirstIsRevealed, Requested, Asked
<1> QED
  BY <1>1, <1>3, <1>4, <1>5, <1>6, GetType DEF PageInv

\* The page waits for a download only after it asked for it, and then its file
\* says so.
LEMMA DownloadStep ==
  ASSUME ReadInv, Download
  PROVE  /\ tab' \in Tab /\ get' \in [Gets -> Get \union {NoGet}]
         /\ PageInv'
<1>1. /\ Reading /\ Screen(tab) = "file"
      /\ UNCHANGED <<config, server>>
  BY DEF Download, Unchanged
<1>2. PICK k \in Keys : /\ tab.file.phase \in {"idle", "decrypt", "download"}
                        /\ tab' = [tab EXCEPT !.file.phase = "loading", !.file.key = k]
                        /\ Send(get, GetOf(tab, k))
  BY DEF Download
<1> DEFINE file == [tab.file EXCEPT !.phase = "loading", !.key = k]
<1>3. tab.file \in File /\ tab \in Tab
  BY <1>1, ReadingTab DEF Tab
<1>4. file \in File /\ file.of = tab.file.of /\ file.phase = "loading"
  BY <1>3 DEF File
<1>5. tab' = [tab EXCEPT !.file = file]
  BY <1>2, <1>3 DEF Tab
<1> HIDE DEF file
<1>6. /\ tab' \in Tab /\ tab'.address = tab.address /\ tab'.moved = tab.moved
      /\ tab'.requested = tab.requested /\ tab'.status = tab.status
      /\ tab'.text = tab.text /\ tab'.file = file
      /\ tab'.revealed = tab.revealed
  BY <1>3, <1>4, <1>5 DEF Tab
<1> DEFINE x == GetOf(tab, k)
<1>8. /\ x \in Get /\ x.id = tab.address.id
      /\ x.because = "first" => ~tab.moved /\ tab.address.id \notin tab.revealed
  BY <1>3, GetOfFields
<1> HIDE DEF x
<1>9. PICK n \in Gets : get[n] = NoGet /\ get' = [get EXCEPT ![n] = x]
  BY <1>2, <1>8, GetType, SendFields DEF x
<1>10. get'[n] = x /\ \A m \in Gets : m # n => get'[m] = get[m]
  BY <1>9, GetType
<1>11. \A m \in Gets : ~Awaited(get[m])
  BY <1>2 DEF ReadInv, PageInv, GetInv
<1>12. Reading'
  BY <1>6, TabApart DEF Reading, Closed, Blank
<1>13. GetInv'
  <2>1. \A m \in Gets : Awaited(get'[m]) => m = n
    BY <1>10, <1>11
  <2> QED
    BY <1>4, <1>6, <1>12, <2>1 DEF GetInv, Asked, Awaited
<1>14. FirstIsRevealed'
  <2> SUFFICES ASSUME config.prefetch, NEW m \in Gets, get'[m] # NoGet,
                      get'[m].because = "first"
               PROVE  ~server[get'[m].id].oneTime
    BY <1>1 DEF FirstIsRevealed, Requested, Asked
  <2>1. CASE m # n
    BY <1>10, <2>1 DEF ReadInv, PageInv, FirstIsRevealed, Requested, Asked
  <2>2. CASE m = n
    <3>1. FetchSecret(tab)
      BY <1>1, <1>3, ScreenFacts
    <3> QED
      BY <1>1, <1>8, <1>10, <2>2, <3>1, ReadingTab DEF FetchSecret, FirstInv
  <2> QED
    BY <2>1, <2>2
<1>15. TextInv(tab)' /\ FirstInv(tab)'
  BY <1>1, <1>6, ReadingTab DEF TextInv, FirstInv, FetchSecret
<1>16. FileInv(tab)'
  <2>1. tab.file.of = tab.address.id
    BY <1>1, <1>3, ReadingTab, ScreenFacts DEF FileInv
  <2> QED
    BY <1>1, <1>4, <1>6, <2>1 DEF FileInv, Screen, FetchSecret
<1>17. get' \in [Gets -> Get \union {NoGet}]
  BY <1>8, <1>9, GetType
<1> QED
  BY <1>6, <1>13, <1>14, <1>15, <1>16, <1>17 DEF PageInv

(***************************************************************************)
(* The server and the network: nothing is on the page yet.  A request in   *)
(* flight keeps what it is for, and a secret whether it is one-time.       *)
(***************************************************************************)
LEMMA NetworkStep ==
  ASSUME ReadInv, \/ \E n \in Gets : Serve(n) \/ Break(n)
                  \/ \E i \in Ids : Vanish(i)
  PROVE  /\ get' \in [Gets -> Get \union {NoGet}]
         /\ PageInv'
<1>1. UNCHANGED <<config, tab>>
  BY DEF Serve, Break, Vanish, Unchanged
<1>2. /\ get \in [Gets -> Get \union {NoGet}] /\ server \in [Ids -> Secret]
      /\ \A n \in Gets : get[n] # NoGet => get[n] \in Get
  BY DEF ReadInv, TypeOK, CreatorTypeOK
<1>3. /\ get' \in [Gets -> Get \union {NoGet}]
      /\ \A n \in Gets : get[n] = NoGet => get'[n] = NoGet
      /\ \A n \in Gets : get[n] # NoGet =>
           /\ get'[n] # NoGet
           /\ get'[n].id = get[n].id /\ get'[n].because = get[n].because
           /\ get'[n].live = get[n].live /\ get'[n].file = get[n].file
  <2>1. CASE UNCHANGED get
    BY <1>2, <2>1
  <2>2. ASSUME NEW n \in Gets, get[n] # NoGet, NEW a \in {"secret", "gone", "lost", "cut"},
               get' = [get EXCEPT ![n].answer = a]
        PROVE  <1>3
    <3> DEFINE x == [get[n] EXCEPT !.answer = a]
    <3>1. get[n] \in Get
      BY <1>2, <2>2
    <3>2. /\ x \in Get
          /\ x.id = get[n].id /\ x.because = get[n].because
          /\ x.live = get[n].live /\ x.file = get[n].file
      BY <3>1 DEF Get
    <3>3. get' = [get EXCEPT ![n] = x]
      BY <2>2, <1>2
    <3> HIDE DEF x
    <3>4. x # NoGet
      BY <3>2, GetApart
    <3> QED
      BY <1>2, <2>2, <3>2, <3>3, <3>4
  <2>3. ASSUME NEW n \in Gets, Serve(n) \/ Break(n) PROVE <1>3
    <3>1. get[n] # NoGet
      BY <2>3 DEF Serve, Break, Asked
    <3>2. \E a \in {"secret", "gone", "lost", "cut"} : get' = [get EXCEPT ![n].answer = a]
      BY <2>3 DEF Serve, Break
    <3> QED
      BY <2>2, <3>1, <3>2
  <2>4. CASE \E i \in Ids : Vanish(i)
    BY <2>1, <2>4 DEF Vanish
  <2> QED
    BY <2>3, <2>4
<1>4. ASSUME NEW i \in Ids PROVE server'[i].oneTime = server[i].oneTime
  <2>1. CASE UNCHANGED server
    BY <2>1
  <2>2. ASSUME NEW j, server' = [server EXCEPT ![j] = Opened(server[j])]
        PROVE  server'[i].oneTime = server[i].oneTime
    <3>1. server[i] \in Secret
      BY <1>2
    <3>2. Opened(server[i]).oneTime = server[i].oneTime
      BY <3>1 DEF Opened, Secret
    <3> QED
      BY <1>2, <2>2, <3>2
  <2>3. CASE \E n \in Gets : Serve(n)
    BY <2>1, <2>2, <2>3 DEF Serve
  <2>4. CASE \E n \in Gets : Break(n)
    BY <2>1, <2>4 DEF Break
  <2>5. CASE \E j \in Ids : Vanish(j)
    <3>1. PICK j \in Ids : server' = [server EXCEPT ![j].state = "gone"]
      BY <2>5 DEF Vanish
    <3> QED
      BY <1>2, <3>1 DEF Secret
  <2> QED
    BY <2>3, <2>4, <2>5
<1>5. Reading => tab.address.id \in Ids
  BY ReadingTab
<1>6. \A n \in Gets : get[n] # NoGet => get[n].id \in Ids
  BY <1>2 DEF Get
<1>7. (Reading => TextInv(tab) /\ FileInv(tab) /\ FirstInv(tab))'
  BY <1>1, <1>4, <1>5
     DEF ReadInv, PageInv, Reading, TextInv, FileInv, FirstInv, Screen, FetchSecret
<1>8. GetInv'
  BY <1>1, <1>3 DEF ReadInv, PageInv, GetInv, Awaited, Asked, Reading
<1>9. FirstIsRevealed'
  BY <1>1, <1>3, <1>4, <1>6 DEF ReadInv, PageInv, FirstIsRevealed, Requested, Asked
<1> QED
  BY <1>3, <1>7, <1>8, <1>9 DEF PageInv

\* What an answer makes of the text, if it is one for the text that is waited for.
LEMMA HeardFields ==
  ASSUME NEW t \in Tab, NEW g \in Get, t.text.secret \in {None, t.text.of}
  PROVE  LET h == TextHeard(t, g) IN
         /\ h \in Tab
         /\ h.address = t.address /\ h.requested = t.requested
         /\ h.status = t.status /\ h.file = t.file
         /\ h.revealed = t.revealed /\ h.moved = t.moved
         /\ h.text.of = t.text.of
         /\ h.text.secret \in {None, t.text.of}
         /\ t.text.secret = t.text.of => h.text.secret = t.text.secret
         /\ t.text.of # g.id => h = t
<1>1. t.text \in Text /\ g.id \in Ids
  BY DEF Tab, Get
<1>2. CASE t.text.of # g.id
  BY <1>2 DEF TextHeard
<1>3. CASE t.text.of = g.id
  <2>1. PICK x \in Text : /\ TextHeard(t, g) = [t EXCEPT !.text = x]
                          /\ x.of = t.text.of
                          /\ x.secret \in {t.text.secret, t.text.of}
    <3>1. CASE g.answer = "secret"
      <4> DEFINE x == [t.text EXCEPT !.busy = FALSE, !.secret = g.id]
      <4>1. x \in Text /\ x.of = t.text.of /\ x.secret = t.text.of
        BY <1>1, <1>3 DEF Text
      <4>2. TextHeard(t, g) = [t EXCEPT !.text = x]
        BY <1>3, <3>1 DEF TextHeard, Tab
      <4> HIDE DEF x
      <4> QED
        BY <4>1, <4>2
    <3>2. CASE g.answer # "secret"
      <4> DEFINE x == [t.text EXCEPT !.busy = FALSE, !.failed = TRUE]
      <4>1. x \in Text /\ x.of = t.text.of /\ x.secret = t.text.secret
        BY <1>1 DEF Text
      <4>2. TextHeard(t, g) = [t EXCEPT !.text = x]
        BY <1>3, <3>2 DEF TextHeard, Tab
      <4> HIDE DEF x
      <4> QED
        BY <4>1, <4>2
    <3> QED
      BY <3>1, <3>2
  <2> QED
    BY <1>3, <2>1 DEF Tab
<1> QED
  BY <1>2, <1>3

\* What an answer makes of the file.
LEMMA PhaseFields ==
  ASSUME NEW t \in Tab, NEW g \in Get, NEW p \in Phases(g)
  PROVE  LET f == [t EXCEPT !.file.phase = p] IN
         /\ f \in Tab
         /\ f.address = t.address /\ f.requested = t.requested
         /\ f.status = t.status /\ f.text = t.text
         /\ f.revealed = t.revealed /\ f.moved = t.moved
<1>1. p \in {"gone", "download", "decrypt", "done"}
  BY DEF Phases
<1>2. t.file \in File
  BY DEF Tab
<1> DEFINE x == [t.file EXCEPT !.phase = p]
<1>3. x \in File
  BY <1>1, <1>2 DEF File
<1>4. [t EXCEPT !.file.phase = p] = [t EXCEPT !.file = x]
  BY DEF Tab
<1> HIDE DEF x
<1> QED
  BY <1>3, <1>4 DEF Tab

\* An answer arrives at the component that waits for it, or at none.
LEMMA ArriveStep ==
  ASSUME ReadInv, NEW n \in Gets, Arrive(n)
  PROVE  /\ tab' \in {Closed, Blank} \union Tab
         /\ get' \in [Gets -> Get \union {NoGet}]
         /\ PageInv'
<1> DEFINE rest == [get EXCEPT ![n] = NoGet]
<1>1. /\ get[n] # NoGet /\ get[n] \in Get
      /\ UNCHANGED <<config, server>>
  BY GetType DEF Arrive, Asked, Unchanged
<1>2. Reading
  BY <1>1 DEF ReadInv, PageInv, GetInv, Asked
<1>3. /\ rest \in [Gets -> Get \union {NoGet}]
      /\ rest[n] = NoGet /\ \A m \in Gets : m # n => rest[m] = get[m]
  BY GetType
<1>4. CASE ~get[n].live
  <2>1. get' = rest /\ UNCHANGED tab
    BY <1>4 DEF Arrive
  <2> HIDE DEF rest
  <2>2. (Reading => TextInv(tab) /\ FileInv(tab) /\ FirstInv(tab))'
    BY <1>1, <2>1
       DEF ReadInv, PageInv, Reading, TextInv, FileInv, FirstInv, Screen, FetchSecret
  <2>3. GetInv'
    BY <1>3, <2>1 DEF ReadInv, PageInv, GetInv, Awaited, Asked, Reading
  <2>4. FirstIsRevealed'
    BY <1>1, <1>3, <2>1 DEF ReadInv, PageInv, FirstIsRevealed, Requested, Asked
  <2> QED
    BY <1>2, <1>3, <2>1, <2>2, <2>3, <2>4, ReadingTab DEF PageInv
<1>5. CASE get[n].live /\ get[n].file
  <2>1. PICK p \in Phases(get[n]) : React(tab, [tab EXCEPT !.file.phase = p], FALSE, rest)
    BY <1>5 DEF Arrive
  <2> DEFINE t == [tab EXCEPT !.file.phase = p]
  <2>2. /\ t \in Tab /\ t.address = tab.address /\ t.moved = tab.moved
        /\ t.requested = tab.requested /\ t.status = tab.status
        /\ t.text = tab.text /\ t.revealed = tab.revealed
    BY <1>1, <1>2, ReadingTab, PhaseFields
  <2>3. React(tab, t, FALSE, rest)
    BY <2>1
  <2>4. \A m \in Gets : ~Awaited(rest[m])
    BY <1>1, <1>3, <1>5 DEF ReadInv, PageInv, GetInv, Awaited
  <2> HIDE DEF t, rest
  <2>5. FirstInv(t) /\ t.text.secret \in {None, t.text.of}
    BY <1>2, <2>2, ReadingTab DEF FirstInv, TextInv
  <2>6. \A m \in Gets : rest[m] # NoGet => rest[m] = get[m]
    BY <1>3
  <2> QED
    BY <1>1, <1>2, <1>3, <2>2, <2>3, <2>4, <2>5, <2>6, ReadingTab, EventStep
<1>6. CASE get[n].live /\ ~get[n].file
  <2> DEFINE t == TextHeard(tab, get[n])
  <2>1. /\ t \in Tab /\ t.address = tab.address /\ t.moved = tab.moved
        /\ t.requested = tab.requested /\ t.status = tab.status
        /\ t.file = tab.file /\ t.revealed = tab.revealed
        /\ t.text.secret \in {None, t.text.of}
    BY <1>1, <1>2, ReadingTab, HeardFields DEF TextInv
  <2>2. React(tab, t, FALSE, rest)
    BY <1>6 DEF Arrive
  <2> HIDE DEF t, rest
  <2>3. FirstInv(t)
    BY <1>2, <2>1, ReadingTab DEF FirstInv
  <2>4. \A m \in Gets : rest[m] # NoGet => rest[m] = get[m]
    BY <1>3
  <2> QED
    BY <1>1, <1>2, <1>3, <2>1, <2>2, <2>3, <2>4, ReadingTab, EventStep
<1> QED
  BY <1>4, <1>5, <1>6

\* Before the recipient comes, and when they come, nothing is asked for.
LEMMA BeforeStep ==
  ASSUME ReadInv, Create \/ Come
  PROVE  /\ tab' \in {Closed, Blank} \union Tab
         /\ get' \in [Gets -> Get \union {NoGet}]
         /\ PageInv'
<1>1. tab = Closed /\ UNCHANGED get /\ tab' \in {Closed, Blank}
  BY DEF Create, Come
<1>2. \A n \in Gets : get[n] = NoGet
  BY <1>1 DEF ReadInv, PageInv, GetInv, Asked, Reading
<1>3. ~Reading'
  BY <1>1 DEF Reading, Closed, Blank
<1>4. GetInv' /\ FirstIsRevealed'
  BY <1>1, <1>2 DEF GetInv, Awaited, Asked, FirstIsRevealed, Requested
<1> QED
  BY <1>1, <1>3, <1>4, GetType DEF PageInv

LEMMA PageStutter ==
  ASSUME ReadInv, UNCHANGED vars
  PROVE  ReadInv'
<1>1. TypeOK'
  BY DEF ReadInv, TypeOK, CreatorTypeOK, vars
<1>2. LinkInv'
  BY LinkStutter DEF ReadInv, vars, creates
<1>3. PageInv'
  BY DEF ReadInv, PageInv, GetInv, Awaited, Asked, Reading, TextInv, FileInv, FirstInv,
         Screen, FetchSecret, FirstIsRevealed, Requested, vars
<1> QED
  BY <1>1, <1>2, <1>3 DEF ReadInv

LEMMA PageInit == Init => ReadInv
<1> SUFFICES ASSUME Init PROVE ReadInv
  OBVIOUS
<1>1. LinkInv
  BY LinkInit
<1>2. tab = Closed /\ (\A n \in Gets : get[n] = NoGet) /\ get \in [Gets -> Get \union {NoGet}]
  BY DEF Init, ReaderInit
<1>3. TypeOK
  BY <1>1, <1>2, VisitsAssumption DEF LinkInv, TypeOK, Init, ReaderInit
<1>4. PageInv
  BY <1>2 DEF PageInv, GetInv, Awaited, Asked, Reading, FirstIsRevealed, Requested
<1> QED
  BY <1>1, <1>3, <1>4 DEF ReadInv

LEMMA PageStep == ReadInv /\ [Next]_vars => ReadInv'
<1> SUFFICES ASSUME ReadInv, [Next]_vars PROVE ReadInv'
  OBVIOUS
<1>1. LinkInv'
  BY LinkStep DEF ReadInv
<1>2. CASE Next
  <2>1. /\ tab' \in {Closed, Blank} \union Tab
        /\ get' \in [Gets -> Get \union {NoGet}]
        /\ PageInv'
    <3>1. CASE Create \/ Come
      BY <3>1, BeforeStep
    <3>2. CASE Load \/ Follow \/ StatusArrives \/ StatusLost \/ Reveal \/ EnterKey \/ Download
      BY <3>2, LoadStep, FollowStep, StatusStep, RevealStep, EnterKeyStep, DownloadStep
    <3>3. CASE \/ \E n \in Gets : Serve(n) \/ Break(n)
               \/ \E i \in Ids : Vanish(i)
      <4>1. UNCHANGED tab
        BY <3>3 DEF Serve, Break, Vanish
      <4> QED
        BY <3>3, <4>1, NetworkStep DEF ReadInv, TypeOK
    <3>4. CASE \E n \in Gets : Arrive(n)
      BY <3>4, ArriveStep
    <3> QED
      BY <1>2, <3>1, <3>2, <3>3, <3>4 DEF Next, Read
  <2>2. visits' \in 0..MaxVisits
    <3>1. CASE Load \/ Follow
      <4>1. visits < MaxVisits /\ visits' = visits + 1
        BY <3>1 DEF Load, Follow
      <4>2. visits \in 0..MaxVisits
        BY DEF ReadInv, TypeOK
      <4> QED
        BY <4>1, <4>2, VisitsAssumption
    <3>2. CASE ~(Load \/ Follow)
      <4>1. UNCHANGED visits
        BY <1>2, <3>2 DEF Next, Create, Come, Read, StatusArrives, StatusLost, Reveal,
                          EnterKey, Download, Serve, Break, Arrive, Vanish, Unchanged
      <4> QED
        BY <4>1 DEF ReadInv, TypeOK
    <3> QED
      BY <3>1, <3>2
  <2> QED
    BY <1>1, <2>1, <2>2 DEF ReadInv, TypeOK, LinkInv
<1>3. CASE UNCHANGED vars
  BY <1>3, PageStutter
<1> QED
  BY <1>2, <1>3

------------------------------------------------------------------------------
(***************************************************************************)
(* The theorems about the recipient's page.                                *)
(***************************************************************************)
THEOREM ReaderPage == Spec => []ReadInv
  BY PageInit, PageStep, PTL DEF Spec

\* Forms, submissions, links, the recipient's tab and its requests keep their
\* types, whatever is answered late, lost or refused.
THEOREM ReaderTypeOK == Spec => []TypeOK
<1>1. ReadInv => TypeOK
  BY DEF ReadInv
<1> QED
  BY <1>1, ReaderPage, PTL

(***************************************************************************)
(* What the recipient sees under a link is what that link stands for,      *)
(* whichever links were followed before it in the same page and whenever   *)
(* their answers arrive (useFetchSecret, Prefetcher, StreamingDecryptor).  *)
(***************************************************************************)
THEOREM ReaderShownMatchesLink == Spec => []ShownMatchesLink
<1>1. ReadInv => ShownMatchesLink
  <2> SUFFICES ASSUME ReadInv, Reading PROVE ShownMatchesLink
    BY DEF ShownMatchesLink
  <2>1. Screen(tab) = "text" => tab.text.secret = tab.address.id
    BY ReadingTab, ScreenFacts DEF TextInv
  <2>2. tab.file.phase = "done" => tab.file.of = tab.address.id
    BY ReadingTab DEF FileInv, NoFile
  <2> QED
    BY <2>1, <2>2 DEF ShownMatchesLink
<1> QED
  BY <1>1, ReaderPage, PTL

(***************************************************************************)
(* With PREFETCH_SECRET, a one-time secret is not requested before its     *)
(* reveal button was pressed, as long as the page has shown no other link  *)
(* (Prefetcher).                                                           *)
(***************************************************************************)
THEOREM ReaderFirstIsRevealed == Spec => []FirstIsRevealed
<1>1. ReadInv => FirstIsRevealed
  BY DEF ReadInv, PageInv
<1> QED
  BY <1>1, ReaderPage, PTL

------------------------------------------------------------------------------
(***************************************************************************)
(* What was fetched stays.                                                 *)
(***************************************************************************)
TextStays == tab.text.secret = tab.address.id => tab'.text.secret = tab.text.secret
FileStays == tab.file.phase = "done" /\ tab.text.of = None => tab'.file = tab.file

\* A text that is the one of the address was fetched for it.
LEMMA HeldText ==
  ASSUME ReadInv, Reading, tab.text.secret = tab.address.id
  PROVE  tab.text.of = tab.address.id /\ tab.text.secret # None
  BY ReadingTab, NoneAssumption DEF TextInv

\* A file that is there is on the screen.
LEMMA HeldFile ==
  ASSUME ReadInv, Reading, tab.file.phase # "idle"
  PROVE  Screen(tab) = "file" /\ tab.file.of = tab.address.id
  BY ReadingTab DEF FileInv, NoFile

\* An event that leaves the text alone: no other is fetched for the same address.
LEMMA SameText ==
  ASSUME ReadInv, Reading, NEW t \in Tab, NEW asks \in BOOLEAN, NEW g,
         React(tab, t, asks, g), t.address = tab.address,
         t.text.of = tab.text.of, t.text.secret \in {None, t.text.of},
         tab.text.secret = tab.text.of => t.text.secret = tab.text.secret
  PROVE  TextStays
<1> SUFFICES ASSUME tab.text.secret = tab.address.id
             PROVE  tab'.text.secret = tab.text.secret
  BY DEF TextStays
<1>1. tab.text.of = tab.address.id
  BY HeldText
<1>2. tab'.text = t.text
  BY <1>1, ReadingTab, ReactTab
<1> QED
  BY <1>1, <1>2

\* A render that nothing caused leaves a file mounted.
LEMMA SameFile ==
  ASSUME ReadInv, Reading, NEW g, React(tab, tab, FALSE, g), tab.file.phase # "idle"
  PROVE  tab'.file = tab.file
<1> DEFINE first == Mounted(tab, tab)
<1>1. /\ tab \in Tab /\ tab # Blank /\ Screen(tab) = "file" /\ tab.address.file
      /\ tab.file.of = tab.address.id
  BY HeldFile, ReadingTab, ScreenFacts
<1>2. /\ first \in Tab /\ first.address = tab.address /\ first.file = tab.file
      /\ Screen(first) = "file"
  <2>1. Screen(first) = Screen(tab)
    BY <1>1, MountedFields, ScreenFields
  <2> QED
    BY <1>1, <2>1, MountedFields
<1>3. tab' = Mounted(first, FetchText(first))
  BY DEF React
<1> HIDE DEF first
<1>4. FetchText(first) = first
  BY <1>1, <1>2 DEF FetchText, FetchesText
<1>5. Mounted(first, first).file = first.file
  <2>1. first # Blank
    BY <1>2, TabApart
  <2>2. Mounted(first, first).file =
          IF Screen(first) # "file" THEN NoFile
          ELSE IF /\ first # Blank /\ Screen(first) = "file"
                  /\ first.file.of = first.address.id
          THEN first.file
          ELSE [of |-> first.address.id, key |-> first.address.key,
                phase |-> IF first.address.key = NoKey THEN "idle" ELSE "loading"]
    BY <1>2, MountedFields
  <2> QED
    BY <1>1, <1>2, <2>1, <2>2
<1> QED
  BY <1>2, <1>3, <1>4, <1>5

LEMMA ArriveStays ==
  ASSUME ReadInv, Reading, NEW n \in Gets, Arrive(n)
  PROVE  TextStays /\ FileStays
<1> DEFINE rest == [get EXCEPT ![n] = NoGet]
<1>1. /\ get[n] # NoGet /\ get[n] \in Get /\ get[n].id \in Ids
      /\ tab \in Tab /\ tab.text.secret \in {None, tab.text.of}
  BY GetType, ReadingTab DEF Arrive, Asked, Get, TextInv
<1>2. CASE ~get[n].live
  BY <1>2 DEF Arrive, TextStays, FileStays
<1>3. CASE get[n].live /\ get[n].file
  <2>1. PICK p \in Phases(get[n]) : React(tab, [tab EXCEPT !.file.phase = p], FALSE, rest)
    BY <1>3 DEF Arrive
  <2> DEFINE t == [tab EXCEPT !.file.phase = p]
  <2>2. t \in Tab /\ t.address = tab.address /\ t.text = tab.text
    BY <1>1, PhaseFields
  <2>3. React(tab, t, FALSE, rest)
    BY <2>1
  <2> HIDE DEF t, rest
  <2>4. TextStays
    BY <1>1, <2>2, <2>3, SameText
  <2>5. tab.file.phase = "loading"
    BY <1>1, <1>3 DEF ReadInv, PageInv, GetInv, Awaited
  <2> QED
    BY <2>4, <2>5 DEF FileStays
<1>4. CASE get[n].live /\ ~get[n].file
  <2> DEFINE t == TextHeard(tab, get[n])
  <2>1. /\ t \in Tab /\ t.address = tab.address
        /\ t.text.of = tab.text.of /\ t.text.secret \in {None, t.text.of}
        /\ tab.text.secret = tab.text.of => t.text.secret = tab.text.secret
        /\ tab.text.of # get[n].id => t = tab
    BY <1>1, HeardFields
  <2>2. React(tab, t, FALSE, rest)
    BY <1>4 DEF Arrive
  <2> HIDE DEF t, rest
  <2>3. TextStays
    BY <2>1, <2>2, SameText
  <2>4. FileStays
    <3> SUFFICES ASSUME tab.file.phase = "done", tab.text.of = None
                 PROVE  tab'.file = tab.file
      BY DEF FileStays
    <3>1. t = tab
      BY <1>1, <2>1, NoneAssumption
    <3> QED
      BY <2>2, <3>1, SameFile
  <2> QED
    BY <2>3, <2>4
<1> QED
  BY <1>2, <1>3, <1>4

LEMMA EventStays ==
  ASSUME ReadInv, Reading, StatusArrives \/ StatusLost \/ Reveal
  PROVE  TextStays /\ FileStays
<1>1. Screen(tab) # "file"
  BY ReadingTab, ScreenFacts DEF StatusArrives, StatusLost, Reveal
<1>2. FileStays
  BY <1>1, HeldFile DEF FileStays
<1>3. \E t \in Tab, asks \in BOOLEAN :
        React(tab, t, asks, get) /\ t.address = tab.address /\ t.text = tab.text
  <2>1. CASE StatusArrives
    <3> DEFINE i == tab.address.id
               s == [busy |-> FALSE,
                     known |-> IF ~Held(i) THEN "none"
                               ELSE IF server[i].oneTime THEN "oneTime" ELSE "many",
                     failed |-> ~Held(i)]
    <3>1. (~Held(i)) \in BOOLEAN
      BY Zenon
    <3>2. s \in Status
      BY <3>1 DEF Status
    <3>3. React(tab, [tab EXCEPT !.status = s], FALSE, get)
      BY <2>1 DEF StatusArrives
    <3> HIDE DEF s
    <3>4. LET t == [tab EXCEPT !.status = s] IN
            t \in Tab /\ t.address = tab.address /\ t.text = tab.text
      BY <3>2, ReadingTab DEF Tab
    <3> QED
      BY <3>3, <3>4
  <2>2. CASE StatusLost
    <3> DEFINE s == [NoStatus EXCEPT !.failed = TRUE]
    <3>1. s \in Status
      BY DEF NoStatus, Status
    <3>2. React(tab, [tab EXCEPT !.status = s], FALSE, get)
      BY <2>2 DEF StatusLost
    <3> HIDE DEF s
    <3>3. LET t == [tab EXCEPT !.status = s] IN
            t \in Tab /\ t.address = tab.address /\ t.text = tab.text
      BY <3>1, ReadingTab DEF Tab
    <3> QED
      BY <3>2, <3>3
  <2>3. CASE Reveal
    <3> DEFINE t == [tab EXCEPT !.requested = TRUE,
                                !.revealed = @ \union {tab.address.id}]
    <3>1. t \in Tab /\ t.address = tab.address /\ t.text = tab.text
      BY ReadingTab DEF Tab
    <3>2. React(tab, t, TRUE, get)
      BY <2>3 DEF Reveal
    <3> HIDE DEF t
    <3> QED
      BY <3>1, <3>2
  <2> QED
    BY <2>1, <2>2, <2>3
<1>4. TextStays
  BY <1>3, ReadingTab, SameText DEF TextInv
<1> QED
  BY <1>2, <1>4

LEMMA TypingStays ==
  ASSUME ReadInv, Reading, EnterKey \/ Download
  PROVE  TextStays /\ FileStays
<1>1. tab \in Tab
  BY ReadingTab
<1>2. CASE EnterKey
  <2>1. \E k : tab' = [tab EXCEPT !.password = k]
    BY <1>2 DEF EnterKey
  <2>2. tab'.text = tab.text /\ tab'.file = tab.file
    BY <1>1, <2>1 DEF Tab
  <2> QED
    BY <2>2 DEF TextStays, FileStays
<1>3. CASE Download
  <2>1. \E k : tab' = [tab EXCEPT !.file.phase = "loading", !.file.key = k]
    BY <1>3 DEF Download
  <2>2. tab.file.phase # "done"
    BY <1>3 DEF Download
  <2>3. \E f : tab' = [tab EXCEPT !.file = f]
    BY <1>1, <2>1 DEF Tab
  <2>4. tab'.text = tab.text
    BY <1>1, <2>3 DEF Tab
  <2> QED
    BY <2>2, <2>4 DEF TextStays, FileStays
<1> QED
  BY <1>2, <1>3

(***************************************************************************)
(* What was fetched stays with the recipient until another link is         *)
(* followed, whatever is answered late, confirmed or typed                 *)
(* (useFetchSecret, StreamingDecryptor).                                   *)
(***************************************************************************)
THEOREM ReaderHeldWhileHere == Spec => HeldWhileHere
<1> DEFINE Stays ==
      Reading /\ visits' = visits =>
        /\ tab.text.secret = tab.address.id => tab'.text.secret = tab.text.secret
        /\ tab.file.phase = "done" /\ tab.text.of = None => tab'.file = tab.file
<1>1. ReadInv /\ [Next]_vars => [Stays]_vars
  <2> SUFFICES ASSUME ReadInv, Next, Reading, visits' = visits
               PROVE  TextStays /\ FileStays
    BY DEF TextStays, FileStays
  <2>1. CASE Create \/ Come
    BY <2>1 DEF Create, Come, Reading
  <2>2. CASE Load \/ Follow
    <3>1. visits' = visits + 1
      BY <2>2 DEF Load, Follow
    <3>2. visits \in Nat
      BY VisitsAssumption DEF ReadInv, TypeOK
    <3> QED
      BY <3>1, <3>2
  <2>3. CASE StatusArrives \/ StatusLost \/ Reveal
    BY <2>3, EventStays
  <2>4. CASE EnterKey \/ Download
    BY <2>4, TypingStays
  <2>5. CASE \/ \E n \in Gets : Serve(n) \/ Break(n)
             \/ \E i \in Ids : Vanish(i)
    BY <2>5 DEF Serve, Break, Vanish, TextStays, FileStays
  <2>6. CASE \E n \in Gets : Arrive(n)
    BY <2>6, ArriveStays
  <2> QED
    BY <2>1, <2>2, <2>3, <2>4, <2>5, <2>6 DEF Next, Read
<1> QED
  BY <1>1, ReaderPage, PTL DEF Spec, HeldWhileHere
==============================================================================
