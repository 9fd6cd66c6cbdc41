------------------------- MODULE CreateDialogs_proof -------------------------
(***************************************************************************)
(* Proofs about the dialogs in which something is made, for any number of  *)
(* requests, providers, integrations, templates and skills.  Each dialog   *)
(* has an invariant of its own, kept by its own steps; a behaviour is about*)
(* one of them, and the others are at rest.                                *)
(***************************************************************************)
EXTENDS CreateDialogs, TLAPS

-----------------------------------------------------------------------------
(* CreateDialog                                                            *)

\* While a dialog keeps its own flag, the flag is up as long as anything runs.
Flagged ==
    Button[dialog] = "own" =>
        /\ \A s \in Slot : InFlight(s) => saving
        /\ \A s, t \in Slot : InFlight(s) /\ InFlight(t) => s = t

\* What is in the fields was typed for the provider that is chosen.
Chosen ==
    Does.chooses =>
        /\ target # None => fields \subseteq {target}
        /\ \A s \in Slot : InFlight(s) => body[s] \subseteq {on[s]}

\* While a key is shown nothing is waited for.
Settled == shown # None => pending = None

FormInv == CreateTypeOK /\ Flagged /\ Chosen /\ Settled

\* The facts about the seven dialogs the proofs rest on.
LEMMA Forms ==
    ASSUME NEW d \in DOMAIN Submission
    PROVE  /\ Button[d] = "own" => "open" \notin Submission[d].forgets
           /\ Submission[d].chooses => "choose" \in Clears[d]
           /\ Submission[d].shows => Submission[d].ofLast
<1> USE DEF Submission, Button, Clears, Post, Freed
<1>1. d \in {"apiKeys", "ownSkills", "adminSkills", "workspace", "integrations", "templates", "llmKeys"}
  OBVIOUS
<1>2. CASE d = "apiKeys"
  BY <1>2 DEF ApiKeysSubmit, ApiKeysButton, ApiKeysClears, Guard
<1>3. CASE d = "ownSkills"
  BY <1>3 DEF OwnSkillsSubmit, OwnSkillsButton, OwnSkillsClears, Guard
<1>4. CASE d = "adminSkills"
  BY <1>4 DEF AdminSkillsSubmit, AdminSkillsButton, AdminSkillsClears
<1>5. CASE d = "workspace"
  BY <1>5 DEF WorkspaceSubmit, WorkspaceButton, WorkspaceClears
<1>6. CASE d = "integrations"
  BY <1>6 DEF IntegrationsSubmit, IntegrationsButton, IntegrationsClears
<1>7. CASE d = "templates"
  BY <1>7 DEF TemplatesSubmit, TemplatesButton, TemplatesClears
<1>8. CASE d = "llmKeys"
  BY <1>8 DEF LlmKeysSubmit, LlmKeysButton, LlmKeysClears, Guard
<1> QED
  BY <1>1, <1>2, <1>3, <1>4, <1>5, <1>6, <1>7, <1>8

LEMMA FormInit == dialog \in DOMAIN Submission /\ CreateAtRest => FormInv
<1> SUFFICES ASSUME dialog \in DOMAIN Submission, CreateAtRest PROVE FormInv
  OBVIOUS
<1>1. CreateTypeOK
  <2>1. open \in BOOLEAN /\ saving \in BOOLEAN
    BY DEF CreateAtRest
  <2>2. /\ target \in Target \cup {None} /\ fields \subseteq Target \cup {None}
        /\ pending \in Slot \cup {None} /\ shown \in Slot \cup {None}
        /\ sends \in 0 .. MaxRequests
    BY CreateAssumption DEF CreateAtRest
  <2>3. /\ on \in [Slot -> Target \cup {None}]
        /\ body \in [Slot -> SUBSET (Target \cup {None})]
        /\ phase \in [Slot -> {"unsent", "sent", "applied", "refused", "over"}]
    BY DEF CreateAtRest
  <2> QED
    BY <2>1, <2>2, <2>3 DEF CreateTypeOK
<1>2. Flagged /\ Chosen /\ Settled
  BY DEF CreateAtRest, Flagged, Chosen, Settled, InFlight
<1> QED
  BY <1>1, <1>2 DEF FormInv

\* A step of the user.
LEMMA FormUser ==
    ASSUME FormInv,
           \/ Open \/ Back \/ Type \/ Submit
           \/ \E how \in {"cancel", "dismiss"} : Close(how)
           \/ \E t \in Target : Choose(t)
    PROVE  FormInv'
<1> USE CreateAssumption DEF FormInv, CreateTypeOK, Flagged, Chosen, Settled, InFlight, Does, Slot
<1> DEFINE F == Submission[dialog]
<1>0. /\ Button[dialog] = "own" => "open" \notin F.forgets
      /\ F.chooses => "choose" \in Clears[dialog]
  BY Forms
<1>1. CASE Open
  BY <1>0, <1>1 DEF Open, Emptied, postVars
<1>2. CASE Back
  BY <1>2 DEF Back, postVars
<1>3. CASE Type
  BY <1>3 DEF Type, Editable, postVars
<1>4. CASE Submit
  <2>1. PICK s \in Slot :
          /\ s = sends + 1
          /\ on' = [on EXCEPT ![s] = target]
          /\ body' = [body EXCEPT ![s] = fields]
          /\ phase' = [phase EXCEPT ![s] = "sent"]
          /\ pending' = s /\ sends' = s
          /\ saving' = (Button[dialog] = "own")
          /\ UNCHANGED <<dialog, open, target, fields, shown>>
    <3>1. sends + 1 \in Slot
      BY <1>4 DEF Submit
    <3> QED
      BY <1>4, <3>1 DEF Submit
  <2>2. saving' \in BOOLEAN
    BY <2>1, Zenon
  <2>3. CreateTypeOK'
    BY <2>1, <2>2
  <2>4. Flagged'
    <3>1. CASE Button[dialog] = "own"
      <4>1. ~saving
        BY <1>4, <3>1 DEF Submit, Held
      <4> QED
        BY <2>1, <3>1, <4>1
    <3> QED
      BY <2>1, <3>1
  <2>5. Chosen'
    BY <1>4, <2>1 DEF Submit, Editable
  <2>6. Settled'
    BY <1>4, <2>1 DEF Submit, Editable
  <2> QED
    BY <2>3, <2>4, <2>5, <2>6
<1>5. ASSUME NEW how \in {"cancel", "dismiss"}, Close(how)
      PROVE  FormInv'
  BY <1>5 DEF Close, Emptied, postVars
<1>6. ASSUME NEW t \in Target, Choose(t)
      PROVE  FormInv'
  BY <1>0, <1>6 DEF Choose, Emptied, postVars
<1> QED
  BY <1>1, <1>2, <1>3, <1>4, <1>5, <1>6

\* An answer, or its loss.
LEMMA FormAnswer ==
    ASSUME FormInv, NEW s \in Slot, NEW how \in {"ok", "refused", "lost"},
           Answer(s, how), InFlight(s)
    PROVE  FormInv'
<1> USE CreateAssumption DEF FormInv, CreateTypeOK, InFlight, Does, Slot
<1>1. /\ dialog' = dialog /\ UNCHANGED sends
      /\ saving' = (saving /\ how \notin Does.frees)
      /\ pending' = IF pending = s THEN None ELSE pending
      /\ on' = [on EXCEPT ![s] = None]
      /\ body' = [body EXCEPT ![s] = {}]
      /\ phase' = [phase EXCEPT ![s] = "over"]
  BY DEF Answer
<1>2. \/ UNCHANGED <<open, target, fields, shown>>
      \/ Heard(s) /\ Done(s)
  BY DEF Answer
<1>3. CreateTypeOK'
  BY <1>1, <1>2 DEF Done, Emptied
<1>4. Flagged'
  BY <1>1 DEF Flagged
<1>5. Chosen'
  BY <1>1, <1>2 DEF Chosen, Done, Emptied
<1>6. Settled'
  BY <1>1, <1>2, Forms DEF Settled, Done, Heard
<1> QED
  BY <1>3, <1>4, <1>5, <1>6

LEMMA FormNext == FormInv /\ [CreateNext]_createVars => FormInv'
<1> SUFFICES ASSUME FormInv, [CreateNext]_createVars PROVE FormInv'
  OBVIOUS
<1>1. CASE UNCHANGED createVars
  BY <1>1 DEF createVars, formVars, postVars, FormInv, CreateTypeOK, Flagged, Chosen, Settled,
              InFlight, Does
<1>2. ASSUME NEW s \in Slot, Carry(s)
      PROVE  FormInv'
  BY <1>2 DEF Carry, formVars, FormInv, CreateTypeOK, Flagged, Chosen, Settled, InFlight, Does
<1>3. ASSUME NEW s \in Slot, Receive(s) \/ Lose(s)
      PROVE  FormInv'
  BY <1>3, FormAnswer DEF Receive, Lose, InFlight
<1> QED
  BY <1>1, <1>2, <1>3, FormUser DEF CreateNext

\* A key that is shown is replaced by no answer.
LEMMA FormShown ==
    FormInv /\ [CreateNext]_createVars =>
        [shown # None /\ shown' # shown => open /\ ~open']_<<shown, open>>
<1> SUFFICES ASSUME FormInv, [CreateNext]_createVars, shown # None, shown' # shown
             PROVE  open /\ ~open'
  OBVIOUS
<1> USE CreateAssumption
<1>1. ASSUME NEW s \in Slot, NEW how, Answer(s, how)
      PROVE  FALSE
  <2>1. Heard(s) /\ Done(s)
    BY <1>1 DEF Answer
  <2>2. Does.shows
    BY <2>1 DEF Done
  <2>3. pending = s
    BY <2>1, <2>2, Forms DEF Heard, Does, FormInv, CreateTypeOK
  <2> QED
    BY <2>3 DEF FormInv, Settled
<1>2. \E how \in {"cancel", "dismiss"} : Close(how)
  BY <1>1 DEF CreateNext, createVars, formVars, postVars, Open, Back, Type, Submit, Choose,
              Carry, Receive, Lose
<1> QED
  BY <1>2 DEF Close

-----------------------------------------------------------------------------
(* ConnectDialog                                                           *)

\* The form holds what was typed for the integration it is of, and a connection
\* that was not started yet has nothing.
PageInv ==
    /\ ConnectTypeOK
    /\ typed \in {NoOne, selected}
    /\ \A a \in Attempt : UnderWay(a) => of[a] \in Integrations
    /\ ConnectingIsReal

LEMMA PageInit == ConnectAtRest => PageInv
<1> SUFFICES ASSUME ConnectAtRest PROVE PageInv
  OBVIOUS
<1>1. ConnectTypeOK
  <2>1. addOpen \in BOOLEAN
    BY DEF ConnectAtRest
  <2>2. /\ saved \subseteq Integrations /\ listed \subseteq Integrations
        /\ marked \subseteq Integrations /\ fetching \in {"idle", "sent"}
        /\ {preSelected, selected, typed, connecting} \subseteq Integrations \cup {NoOne}
        /\ heard \in Attempt \cup {NoOne} /\ attempts \in 0 .. MaxConnects
    BY ConnectAssumption DEF ConnectAtRest
  <2>3. /\ step \in [Attempt -> {"unsent", "session", "popup", "save", "done", "failed", "over"}]
        /\ of \in [Attempt -> Integrations \cup {NoOne}]
        /\ secret \in [Attempt -> Integrations \cup {NoOne}]
    BY DEF ConnectAtRest
  <2> QED
    BY <2>1, <2>2, <2>3 DEF ConnectTypeOK
<1>2. ConnectingIsReal /\ \A a \in Attempt : ~UnderWay(a)
  BY DEF ConnectAtRest, ConnectingIsReal, UnderWay
<1> QED
  BY <1>1, <1>2 DEF PageInv, ConnectAtRest

\* Whoever starts a connection.
LEMMA PageConnect ==
    ASSUME PageInv, NEW i \in Integrations, NEW t \in {NoOne, i}, Connect(i, t),
           UNCHANGED dialogState
    PROVE  PageInv'
<1> USE ConnectAssumption DEF PageInv, ConnectTypeOK, Attempt
<1>1. /\ step' = [step EXCEPT ![attempts + 1] = "session"]
      /\ of' = [of EXCEPT ![attempts + 1] = i]
      /\ secret' = [secret EXCEPT ![attempts + 1] = t]
      /\ heard' = attempts + 1 /\ attempts' = attempts + 1 /\ connecting' = i
      /\ UNCHANGED <<saved, listed, marked, fetching, addOpen, preSelected, selected, typed>>
      /\ attempts + 1 \in 1 .. MaxConnects
  BY DEF Connect, listVars, dialogState
<1>2. ConnectTypeOK'
  BY <1>1
<1>3. ConnectingIsReal'
  BY <1>1 DEF ConnectingIsReal, UnderWay
<1> QED
  BY <1>1, <1>2, <1>3 DEF UnderWay

\* What becomes of it.
LEMMA PageAttempt ==
    ASSUME PageInv, NEW a \in Attempt, Advance(a) \/ Settle(a)
    PROVE  PageInv'
<1> USE ConnectAssumption DEF PageInv, ConnectTypeOK, Attempt
<1>1. CASE Advance(a)
  <2>1. \E w \in {"popup", "save", "done", "failed"} : step' = [step EXCEPT ![a] = w]
    BY <1>1 DEF Advance
  <2>2. saved' \subseteq Integrations
    <3>1. step[a] = "save" => of[a] \in Integrations
      BY DEF UnderWay
    <3> QED
      BY <1>1, <3>1 DEF Advance
  <2> QED
    BY <1>1, <2>1, <2>2 DEF Advance, dialogState, ConnectingIsReal, UnderWay
<1>2. CASE Settle(a)
  <2>1. /\ step' = [step EXCEPT ![a] = "over"]
        /\ of' = [of EXCEPT ![a] = NoOne] /\ secret' = [secret EXCEPT ![a] = NoOne]
        /\ connecting' = NoOne
        /\ fetching' \in {"sent", fetching} /\ heard' \in {NoOne, heard}
        /\ \/ addOpen' = FALSE /\ preSelected' = NoOne /\ typed' = NoOne
           \/ UNCHANGED <<addOpen, preSelected, typed>>
        /\ UNCHANGED <<saved, listed, marked, selected, attempts>>
    BY <1>2 DEF Settle
  <2>2. ConnectTypeOK'
    BY <2>1
  <2>3. ConnectingIsReal'
    BY <2>1 DEF ConnectingIsReal, UnderWay
  <2> QED
    BY <2>1, <2>2, <2>3 DEF UnderWay
<1> QED
  BY <1>1, <1>2

LEMMA PageNext == PageInv /\ [ConnectNext]_connectVars => PageInv'
<1> SUFFICES ASSUME PageInv, [ConnectNext]_connectVars PROVE PageInv'
  OBVIOUS
<1> USE ConnectAssumption
<1> USE DEF PageInv, ConnectTypeOK, ConnectingIsReal, UnderWay, listVars, dialogState, attemptVars
<1>1. CASE UNCHANGED connectVars
  BY <1>1 DEF connectVars
<1>2. ASSUME NEW i \in Integrations, ConnectSuggested(i)
      PROVE  PageInv'
  BY <1>2, PageConnect DEF ConnectSuggested
<1>3. ASSUME NEW i \in Integrations, ShowFormFor(i)
      PROVE  PageInv'
  BY <1>3 DEF ShowFormFor
<1>4. ASSUME NEW i \in Integrations, Click(i)
      PROVE  PageInv'
  BY <1>4, PageConnect DEF Click
<1>5. CASE SubmitForm
  <2>1. selected \in Integrations /\ typed \in {NoOne, selected}
    BY <1>5 DEF SubmitForm
  <2> QED
    BY <1>5, <2>1, PageConnect DEF SubmitForm
<1>6. CASE ShowAll \/ PreSelect \/ BackToList \/ Dismiss \/ FillIn
  BY <1>6 DEF ShowAll, PreSelect, BackToList, Dismiss, FillIn
<1>7. CASE Marked \/ Refetched
  BY <1>7 DEF Marked, Refetched
<1> QED
  BY <1>1, <1>2, <1>3, <1>4, <1>5, <1>6, <1>7, PageAttempt DEF ConnectNext

-----------------------------------------------------------------------------
(* TemplateModal                                                           *)

\* "ready" is read of a template only after a build of it succeeded.
ReadyIsTrue ==
    \A t \in Template :
        "ready" \in {status[t], reading[t], cache[t]} => t \in succeeded

\* The dialog comes to be about a template once, when the answer that it was
\* created arrives; nothing was said of the template before, and what was said
\* of it since is remembered as long as the dialog is about it.
AboutOnce ==
    /\ buildTemplate \notin creating
    /\ \A t \in Template :
        /\ status[t] = "absent" =>
              t \notin creating /\ buildTemplate # t /\ told[t] = 0 /\ reading[t] = "idle"
        /\ t \in creating => told[t] = 0
        /\ told[t] # 0 /\ buildTemplate = t => hasShown

ModalInv == TemplateTypeOK /\ ReadyIsTrue /\ AboutOnce /\ ToldOnce

LEMMA ModalInit == TemplateAtRest => ModalInv
<1> SUFFICES ASSUME TemplateAtRest PROVE ModalInv
  OBVIOUS
<1>1. {modal, isBuilding, isRetrying, hasShown} \subseteq BOOLEAN
  BY DEF TemplateAtRest
<1>2. /\ status \in [Template -> {"absent", "pending", "building"} \cup Over]
      /\ job \in [Template -> {"none", "queued", "running"}]
      /\ trigger \in [Template -> {"none", "asked", "enqueued"}]
      /\ cache \in [Template -> {"absent", "pending", "building"} \cup Over]
      /\ reading \in [Template -> {"idle", "sent", "pending", "building"} \cup Over]
  BY DEF TemplateAtRest
<1>3. /\ builds \in [Template -> 0 .. MaxBuilds] /\ told \in [Template -> Nat]
      /\ timers \in Nat
  BY TemplateAssumption DEF TemplateAtRest
<1>4. /\ succeeded \subseteq Template /\ creating \subseteq Template
      /\ retry \in {"none", "sent", "ok", "refused"}
      /\ {buildTemplate, asking, retryOf} \subseteq Template \cup {NoTemplate}
  BY DEF TemplateAtRest
<1>5. TemplateTypeOK
  BY <1>1, <1>2, <1>3, <1>4 DEF TemplateTypeOK
<1>6. ReadyIsTrue /\ AboutOnce /\ ToldOnce
  BY TemplateAssumption DEF TemplateAtRest, ReadyIsTrue, AboutOnce, ToldOnce
<1> QED
  BY <1>5, <1>6 DEF ModalInv

\* The API and the worker: a template is never absent again.
LEMMA ModalServer ==
    ASSUME ModalInv, NEW t \in Template, TriggerBuild(t) \/ Build(t) \/ RetryBuild(t)
    PROVE  ModalInv'
<1> USE TemplateAssumption
<1>1. UNCHANGED <<creating, asking, retryOf, cacheVars, viewVars, told>>
  BY DEF TriggerBuild, Build, RetryBuild, requestVars
<1>2. \/ UNCHANGED <<status, succeeded>>
      \/ status' = [status EXCEPT ![t] = "building"] /\ UNCHANGED succeeded
      \/ status' = [status EXCEPT ![t] = "failed"] /\ UNCHANGED succeeded
      \/ status' = [status EXCEPT ![t] = "ready"] /\ succeeded' = succeeded \cup {t}
  BY DEF TriggerBuild, Build, RetryBuild, Over
<1>3. /\ job' \in [Template -> {"none", "queued", "running"}]
      /\ builds' \in [Template -> 0 .. MaxBuilds]
      /\ trigger' \in [Template -> {"none", "asked", "enqueued"}]
      /\ retry' \in {"none", "sent", "ok", "refused"}
  BY DEF ModalInv, TemplateTypeOK, TriggerBuild, Build, RetryBuild, Enqueue, requestVars
<1>4. TemplateTypeOK'
  BY <1>1, <1>2, <1>3 DEF ModalInv, TemplateTypeOK, cacheVars, viewVars, Over
<1>5. ReadyIsTrue'
  BY <1>1, <1>2 DEF ModalInv, TemplateTypeOK, ReadyIsTrue, cacheVars
<1>6. AboutOnce'
  BY <1>1, <1>2 DEF ModalInv, TemplateTypeOK, AboutOnce, cacheVars, viewVars
<1>7. ToldOnce'
  BY <1>1, <1>2 DEF ModalInv, ToldOnce
<1> QED
  BY <1>4, <1>5, <1>6, <1>7 DEF ModalInv

\* The query of a template: nothing is read yet.
LEMMA WatchReads ==
    ASSUME ModalInv, NEW t \in Template \cup {NoTemplate}, Watch(t)
    PROVE  /\ reading' \in [Template -> {"idle", "sent", "pending", "building"} \cup Over]
           /\ \A u \in Template : reading'[u] \in {reading[u], "sent"}
BY DEF Watch, ModalInv, TemplateTypeOK

LEMMA ModalQuery ==
    ASSUME ModalInv, NEW t \in Template, Poll(t) \/ ReadTemplate(t)
    PROVE  ModalInv'
<1>1. UNCHANGED <<serverVars, requestVars, viewVars, told>>
  BY DEF Poll, ReadTemplate
<1>2. /\ status[t] # "absent"
      /\ \/ reading' = [reading EXCEPT ![t] = "sent"] /\ UNCHANGED cache
         \/ reading' = [reading EXCEPT ![t] = status[t]] /\ UNCHANGED cache
         \/ /\ reading' = [reading EXCEPT ![t] = "idle"]
            /\ \/ UNCHANGED cache
               \/ reading[t] \notin {"idle", "sent"} /\ cache' = [cache EXCEPT ![t] = reading[t]]
  BY DEF Poll, ReadTemplate, ModalInv, AboutOnce
<1>3. TemplateTypeOK'
  BY <1>1, <1>2 DEF ModalInv, TemplateTypeOK, serverVars, requestVars, viewVars, Over
<1>4. ReadyIsTrue'
  BY <1>1, <1>2 DEF ModalInv, TemplateTypeOK, ReadyIsTrue, serverVars
<1>5. AboutOnce' /\ ToldOnce'
  BY <1>1, <1>2 DEF TemplateTypeOK, ModalInv, AboutOnce, ToldOnce, serverVars, requestVars, viewVars
<1> QED
  BY <1>3, <1>4, <1>5 DEF ModalInv

\* The dialog.
LEMMA ModalView ==
    ASSUME ModalInv,
           \/ OpenModal \/ CloseModal \/ TimerFires \/ CreateAndBuild \/ Triggered
           \/ handleRetry \/ handleRetryBuild
    PROVE  ModalInv'
<1> USE TemplateAssumption DEF ModalInv, TemplateTypeOK, serverVars, requestVars, cacheVars, viewVars
<1>1. CASE OpenModal \/ Triggered \/ handleRetry \/ handleRetryBuild
  <2>1. /\ UNCHANGED <<serverVars, creating, cacheVars, buildTemplate, hasShown, told>>
    BY <1>1 DEF OpenModal, Triggered, handleRetry, handleRetryBuild
  <2>2. TemplateTypeOK'
    <3>1. CASE OpenModal
      BY <3>1 DEF OpenModal
    <3>2. CASE Triggered
      BY <3>2 DEF Triggered
    <3>3. CASE handleRetry
      BY <3>3 DEF handleRetry
    <3>4. CASE handleRetryBuild
      BY <3>4 DEF handleRetryBuild
    <3> QED
      BY <1>1, <3>1, <3>2, <3>3, <3>4
  <2>3. ReadyIsTrue' /\ AboutOnce' /\ ToldOnce'
    BY <2>1 DEF ReadyIsTrue, AboutOnce, ToldOnce
  <2> QED
    BY <2>2, <2>3
<1>2. CASE CloseModal \/ TimerFires
  <2>1. timers' \in Nat /\ modal' = FALSE /\ resetForm
    BY <1>2 DEF CloseModal, TimerFires
  <2>2. UNCHANGED <<serverVars, requestVars, cacheVars, told>>
    BY <1>2 DEF CloseModal, TimerFires
  <2>3. TemplateTypeOK'
    BY <2>1, <2>2 DEF resetForm
  <2>4. ReadyIsTrue' /\ AboutOnce' /\ ToldOnce'
    BY <2>1, <2>2 DEF resetForm, ReadyIsTrue, AboutOnce, ToldOnce
  <2> QED
    BY <2>3, <2>4
<1>3. CASE CreateAndBuild
  <2>1. PICK t \in Template :
          /\ status[t] = "absent" /\ status' = [status EXCEPT ![t] = "pending"]
          /\ creating' \in {creating, creating \cup {t}}
    BY <1>3 DEF CreateAndBuild
  <2>2. UNCHANGED <<job, builds, succeeded, trigger, asking, retry, retryOf, cacheVars, viewVars, told>>
    BY <1>3 DEF CreateAndBuild
  <2>3. TemplateTypeOK'
    BY <2>1, <2>2
  <2>4. ReadyIsTrue'
    BY <2>1, <2>2 DEF ReadyIsTrue
  <2>5. AboutOnce'
    BY <2>1, <2>2 DEF AboutOnce
  <2>6. ToldOnce'
    BY <2>2 DEF ToldOnce
  <2> QED
    BY <2>3, <2>4, <2>5, <2>6
<1> QED
  BY <1>1, <1>2, <1>3

\* The answers that make the dialog be about a template, or show it again.
LEMMA ModalAnswers ==
    ASSUME ModalInv, Retried \/ \E t \in Template : Created(t)
    PROVE  ModalInv'
<1> USE TemplateAssumption DEF serverVars
<1>1. CASE Retried
  <2>1. UNCHANGED <<serverVars, creating, trigger, asking, cache, modal, buildTemplate, hasShown,
                    timers, told>>
    BY <1>1 DEF Retried
  <2>2. /\ retry' = "none" /\ retryOf' = NoTemplate /\ isRetrying' = FALSE
        /\ isBuilding' = TRUE \/ isBuilding' = isBuilding
    BY <1>1 DEF Retried
  <2>3. /\ reading' \in [Template -> {"idle", "sent", "pending", "building"} \cup Over]
        /\ \A t \in Template : /\ reading'[t] \in {reading[t], "sent"}
                               /\ status[t] = "absent" => reading'[t] = reading[t]
    <3>1. CASE UNCHANGED reading
      BY <3>1 DEF ModalInv, TemplateTypeOK
    <3>2. CASE Watch(buildTemplate)
      <4>1. \A t \in Template : status[t] = "absent" => buildTemplate # t
        BY DEF ModalInv, AboutOnce
      <4> QED
        BY <3>2, <4>1, WatchReads DEF Watch, ModalInv, TemplateTypeOK
    <3> QED
      BY <1>1, <3>1, <3>2 DEF Retried
  <2>4. TemplateTypeOK'
    BY <2>1, <2>2, <2>3 DEF ModalInv, TemplateTypeOK
  <2>5. ReadyIsTrue' /\ AboutOnce' /\ ToldOnce'
    BY <2>1, <2>3 DEF ModalInv, ReadyIsTrue, AboutOnce, ToldOnce
  <2> QED
    BY <2>4, <2>5 DEF ModalInv
<1>2. ASSUME NEW t \in Template, Created(t)
      PROVE  ModalInv'
  <2>1. /\ t \in creating /\ creating' = creating \ {t}
        /\ trigger' = [trigger EXCEPT ![t] = "asked"] /\ asking' = t
        /\ buildTemplate' = t /\ isBuilding' = TRUE
        /\ UNCHANGED <<serverVars, retry, retryOf, cache, modal, isRetrying, hasShown, timers, told>>
    BY <1>2 DEF Created
  <2>2. /\ reading' \in [Template -> {"idle", "sent", "pending", "building"} \cup Over]
        /\ \A u \in Template : /\ reading'[u] \in {reading[u], "sent"}
                               /\ u # t => reading'[u] = reading[u]
    BY <1>2, WatchReads DEF Created, Watch, ModalInv, TemplateTypeOK
  <2>3. TemplateTypeOK'
    BY <2>1, <2>2 DEF ModalInv, TemplateTypeOK
  <2>4. ReadyIsTrue' /\ AboutOnce' /\ ToldOnce'
    BY <2>1, <2>2 DEF ModalInv, ReadyIsTrue, AboutOnce, ToldOnce
  <2> QED
    BY <2>3, <2>4 DEF ModalInv
<1> QED
  BY <1>1, <1>2

\* The announcement itself.
LEMMA ModalTell == ASSUME ModalInv, Tell PROVE ModalInv'
<1> USE TemplateAssumption
<1>1. /\ buildTemplate \in Template /\ told[buildTemplate] = 0 /\ buildTemplate \in succeeded
  BY DEF Tell, Due, ModalInv, TemplateTypeOK, ReadyIsTrue, AboutOnce
<1>2. /\ hasShown' = TRUE /\ timers' = timers + 1
      /\ told' = [told EXCEPT ![buildTemplate] = 1]
      /\ UNCHANGED <<serverVars, requestVars, cacheVars, modal, isBuilding, isRetrying, buildTemplate>>
  BY <1>1 DEF Tell
<1>3. TemplateTypeOK'
  BY <1>1, <1>2 DEF ModalInv, TemplateTypeOK, serverVars, requestVars, cacheVars
<1>4. ReadyIsTrue' /\ AboutOnce' /\ ToldOnce'
  BY <1>1, <1>2 DEF ModalInv, TemplateTypeOK, ReadyIsTrue, AboutOnce, ToldOnce,
                    serverVars, requestVars, cacheVars
<1> QED
  BY <1>3, <1>4 DEF ModalInv

LEMMA ModalNext == ModalInv /\ [TemplateNext]_templateVars => ModalInv'
<1> SUFFICES ASSUME ModalInv, [TemplateNext]_templateVars PROVE ModalInv'
  OBVIOUS
<1>1. CASE UNCHANGED templateVars
  BY <1>1 DEF templateVars, serverVars, requestVars, cacheVars, viewVars, ModalInv, TemplateTypeOK,
              ReadyIsTrue, AboutOnce, ToldOnce
<1> QED
  BY <1>1, ModalServer, ModalQuery, ModalView, ModalAnswers, ModalTell DEF TemplateNext

-----------------------------------------------------------------------------
(* SkillViewer                                                             *)

\* The parts of a path: its own prefixes.
LEMMA Parts ==
    ASSUME NEW p \in Seq(Nat) \ {<<>>}, NEW q \in Prefixes(p)
    PROVE  /\ q \in Seq(Nat) /\ Len(q) \in 1 .. Len(p)
           /\ q = SubSeq(p, 1, Len(q))
           /\ Len(q) = Len(p) => q = p
<1>1. PICK n \in 1 .. Len(p) : q = SubSeq(p, 1, n)
  BY DEF Prefixes
<1>2. q \in Seq(Nat) /\ Len(q) = n
  BY <1>1
<1>3. n = Len(p) => q = p
  BY <1>1
<1> QED
  BY <1>1, <1>2, <1>3

LEMMA PrefixOfPrefix ==
    ASSUME NEW p \in Seq(Nat), NEW n \in 1 .. Len(p), NEW m \in Nat, m < n
    PROVE  SubSeq(SubSeq(p, 1, n), 1, m) = SubSeq(p, 1, m)
<1> DEFINE q == SubSeq(p, 1, n)
<1>1. q \in Seq(Nat) /\ Len(q) = n /\ \A i \in 1 .. n : q[i] = p[i]
  OBVIOUS
<1> HIDE DEF q
<1> QED
  BY <1>1

LEMMA Whole == ASSUME NEW p \in Seq(Nat) \ {<<>>} PROVE p \in Prefixes(p)
<1>1. p = SubSeq(p, 1, Len(p)) /\ Len(p) \in 1 .. Len(p)
  OBVIOUS
<1> QED
  BY <1>1 DEF Prefixes

\* No file of a bundle is a folder in its tree, and everything else is.
LEMMA Leaves ==
    ASSUME NEW b \in Bundles
    PROVE  FileRows(BuildFileTree(b), {}) = {b[i] : i \in DOMAIN b}
<1> DEFINE tree == BuildFileTree(b)
<1>1. \A i \in DOMAIN b : b[i] \in Seq(Nat) \ {<<>>}
  BY BundlesAreTrees
<1>2. Rows(tree, {}) = tree
  BY DEF Rows
<1>3. \A i \in DOMAIN b : b[i] \in tree
  BY <1>1, Whole DEF BuildFileTree
<1>4. ASSUME NEW i \in DOMAIN b, NEW q \in Children(tree, b[i])
      PROVE  FALSE
  <2>1. PICK j \in DOMAIN b : q \in Prefixes(b[j])
    BY <1>4 DEF Children, BuildFileTree
  <2>2. Len(q) = Len(b[i]) + 1 /\ b[i] = SubSeq(q, 1, Len(b[i]))
    BY <1>4 DEF Children, IsPrefix
  <2>3. q \in Seq(Nat) /\ Len(q) \in 1 .. Len(b[j]) /\ q = SubSeq(b[j], 1, Len(q))
    BY <1>1, <2>1, Parts
  <2>4. Len(b[i]) \in Nat /\ Len(b[j]) \in Nat /\ Len(b[i]) <= Len(b[j])
    BY <1>1, <2>2, <2>3
  <2>5. b[i] = SubSeq(b[j], 1, Len(b[i]))
    <3> DEFINE m == Len(b[i])
               n == Len(q)
    <3>1. /\ b[i] = SubSeq(q, 1, m) /\ q = SubSeq(b[j], 1, n) /\ b[j] \in Seq(Nat)
          /\ m \in Nat /\ n \in 1 .. Len(b[j]) /\ m < n
      BY <1>1, <2>2, <2>3, <2>4
    <3> HIDE DEF m, n
    <3>2. SubSeq(SubSeq(b[j], 1, n), 1, m) = SubSeq(b[j], 1, m)
      BY <3>1, PrefixOfPrefix
    <3> QED
      BY <3>1, <3>2 DEF m
  <2>6. i = j
    BY <2>4, <2>5, BundlesAreTrees DEF IsPrefix
  <2> QED
    BY <2>2, <2>3, <2>4, <2>6
<1>5. ASSUME NEW p \in tree, ~IsDir(tree, p)
      PROVE  \E i \in DOMAIN b : p = b[i]
  <2>1. PICK i \in DOMAIN b : p \in Prefixes(b[i])
    BY <1>5 DEF BuildFileTree
  <2>2. /\ p \in Seq(Nat) /\ Len(p) \in 1 .. Len(b[i]) /\ p = SubSeq(b[i], 1, Len(p))
        /\ Len(p) = Len(b[i]) => p = b[i]
    BY <1>1, <2>1, Parts
  <2>3. SUFFICES ASSUME Len(p) # Len(b[i]) PROVE FALSE
    BY <2>2
  <2> DEFINE q == SubSeq(b[i], 1, Len(p) + 1)
  <2>4. Len(b[i]) \in Nat /\ Len(p) + 1 \in 1 .. Len(b[i])
    BY <1>1, <2>2, <2>3
  <2>5. q \in tree
    BY <2>4 DEF BuildFileTree, Prefixes
  <2>6. Len(q) = Len(p) + 1 /\ p = SubSeq(q, 1, Len(p))
    BY <1>1, <2>2, <2>4
  <2>7. IsPrefix(p, q)
    BY <2>2, <2>6 DEF IsPrefix
  <2> HIDE DEF q
  <2> QED
    BY <1>5, <2>5, <2>6, <2>7 DEF IsDir, Children
<1> QED
  BY <1>2, <1>3, <1>4, <1>5 DEF FileRows, IsDir

\* What is shown was answered by a read.
ViewerInv == bundle \in [Skills -> Bundles \cup {<<>>}] /\ viewing \in Skills \cup {NoSkill}

LEMMA ViewerInit == ViewerAtRest => ViewerInv
BY DEF ViewerAtRest, ViewerInv

LEMMA ViewerKept == ViewerInv /\ [ViewerNext]_viewerVars => ViewerInv'
BY DEF ViewerInv, ViewerNext, viewerVars, View, Read, CloseViewer, FileTreeItem

LEMMA ViewerShows == ViewerInv => ShownIsMarked
<1> SUFFICES ASSUME ViewerInv, Files # <<>> PROVE ShownIsMarked
  BY DEF ShownIsMarked
<1>1. Files \in Bundles
  BY DEF ViewerInv, Files
<1>2. FileRows(FileTree, {}) = {Files[i] : i \in DOMAIN Files}
  BY <1>1, Leaves DEF FileTree
<1>3. 1 \in DOMAIN Files
  BY <1>1, BundlesAreTrees
<1>4. SelectedFile \in {Files[i] : i \in DOMAIN Files}
  BY <1>3 DEF SelectedFile
<1> QED
  BY <1>2, <1>4 DEF ShownIsMarked, IsSelected

-----------------------------------------------------------------------------
(* Together                                                                *)

\* A behaviour is about one of them; the steps of the others are stutters.
LEMMA Together ==
    AllSpec => /\ [](FormInv /\ PageInv /\ ModalInv /\ ViewerInv)
               /\ [][[CreateNext]_createVars]_allVars
<1> DEFINE IInv == FormInv /\ PageInv /\ ModalInv /\ ViewerInv
<1>1. AllInit => IInv
  <2>1. AllInit => dialog \in DOMAIN Submission /\ CreateAtRest
    BY DEF AllInit, Submission
  <2> QED
    BY <2>1, FormInit, PageInit, ModalInit, ViewerInit DEF AllInit
<1>2. IInv /\ [AllNext]_allVars => IInv'
  <2>1. [AllNext]_allVars => /\ [CreateNext]_createVars /\ [ConnectNext]_connectVars
                             /\ [TemplateNext]_templateVars /\ [ViewerNext]_viewerVars
    BY DEF AllNext, allVars
  <2> QED
    BY <2>1, FormNext, PageNext, ModalNext, ViewerKept
<1>3. [AllNext]_allVars => [[CreateNext]_createVars]_allVars
  BY DEF AllNext, allVars
<1> QED
  BY <1>1, <1>2, <1>3, PTL DEF AllSpec

\* The secret sent for a provider was typed for that provider, however often the
\* dialog is closed, opened and taken back.
THEOREM SecretsStayHome == AllSpec => []SecretForItsTarget
<1>1. FormInv => SecretForItsTarget
  BY DEF FormInv, Chosen, SecretForItsTarget
<1> QED
  BY <1>1, Together, PTL

\* A dialog that keeps its own flag makes one thing at a time.
THEOREM NothingTwiceAtOnce == AllSpec => []OneAtATime
<1>1. FormInv => OneAtATime
  BY DEF FormInv, Flagged, OneAtATime
<1> QED
  BY <1>1, Together, PTL

\* A key that cannot be seen again is shown until the user closes the dialog.
THEOREM KeyShownUntilClosed == AllSpec => ShownUntilClosed
<1>1. FormInv /\ [CreateNext]_createVars =>
          [shown # None /\ shown' # shown => open /\ ~open']_<<shown, open>>
  BY FormShown
<1>2. UNCHANGED allVars => UNCHANGED <<shown, open>>
  BY DEF allVars, createVars, formVars
<1> QED
  BY <1>1, <1>2, Together, PTL DEF ShownUntilClosed

\* What the connections page shows as connecting is under way, and carries no
\* other integration's secret.
THEOREM ConnectingShown == AllSpec => []ConnectingIsReal
<1>1. PageInv => ConnectingIsReal
  BY DEF PageInv
<1> QED
  BY <1>1, Together, PTL

\* The success of a template's build is announced once, and is one.
THEOREM SuccessToldOnce == AllSpec => []ToldOnce
<1>1. ModalInv => ToldOnce
  BY DEF ModalInv
<1> QED
  BY <1>1, Together, PTL

\* The file whose text is shown is the only marked one, and every file has a row.
THEOREM MarkedIsShown == AllSpec => []ShownIsMarked
<1>1. ViewerInv => ShownIsMarked
  BY ViewerShows
<1> QED
  BY <1>1, Together, PTL
=============================================================================
