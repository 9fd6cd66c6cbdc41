--------------------------- MODULE TemplateModal ---------------------------
(***************************************************************************)
(* The dialog that creates a sandbox template and watches its build: the   *)
(* POST that creates it, the one that starts the build, the template read  *)
(* again every three seconds until it is ready or failed, and the build    *)
(* retried with other commands.  Nothing is cancelled when the dialog is   *)
(* closed: an answer may come to a dialog that was closed, or is about     *)
(* another template by then.  What is typed in it is left out.             *)
(***************************************************************************)
EXTENDS Naturals, FiniteSets

CONSTANTS
    NoTemplate,
    MaxTemplates,
    MaxBuilds       \* builds of one template

Template == 1 .. MaxTemplates

ASSUME TemplateAssumption ==
    MaxTemplates \in Nat /\ MaxBuilds \in Nat /\ NoTemplate \notin Template

Over == {"ready", "failed"}

VARIABLES
    \* the API and its worker
    status,     \* build_status, "absent" before the template is created
    job,        \* the build task: "none", "queued", "running"
    builds,     \* builds of a template so far
    succeeded,  \* templates a build of which succeeded (history)
    \* requests under way
    creating,   \* templates created by a POST that is not heard of yet
    trigger,    \* the POST that starts a build: "none", "asked", "enqueued"
    asking,     \* the template triggerBuild.isPending is about, or NoTemplate
    retry,      \* retryBuild: "none", "sent", "ok", "refused"
    retryOf,    \* its template
    \* the query
    cache,      \* build_status as it was last read
    reading,    \* the GET of a template: "idle", "sent", or what it carries
    \* the dialog
    modal,      \* whether it is open
    isBuilding, isRetrying, buildTemplate,
    hasShown,   \* hasShownSuccessRef
    timers,     \* the timers of 1500 ms that run
    told        \* how often a template's success was announced (history)

serverVars == <<status, job, builds, succeeded>>
requestVars == <<creating, trigger, asking, retry, retryOf>>
cacheVars == <<cache, reading>>
viewVars == <<modal, isBuilding, isRetrying, buildTemplate, hasShown, timers>>
templateVars == <<serverVars, requestVars, cacheVars, viewVars, told>>

TemplateTypeOK ==
    /\ status \in [Template -> {"absent", "pending", "building"} \cup Over]
    /\ job \in [Template -> {"none", "queued", "running"}]
    /\ builds \in [Template -> 0 .. MaxBuilds]
    /\ succeeded \subseteq Template /\ creating \subseteq Template
    /\ trigger \in [Template -> {"none", "asked", "enqueued"}]
    /\ retry \in {"none", "sent", "ok", "refused"}
    /\ cache \in [Template -> {"absent", "pending", "building"} \cup Over]
    /\ reading \in [Template -> {"idle", "sent", "pending", "building"} \cup Over]
    /\ {modal, isBuilding, isRetrying, hasShown} \subseteq BOOLEAN
    /\ {buildTemplate, asking, retryOf} \subseteq Template \cup {NoTemplate}
    /\ timers \in Nat /\ told \in [Template -> Nat]

TemplateAtRest ==
    /\ status = [t \in Template |-> "absent"] /\ job = [t \in Template |-> "none"]
    /\ builds = [t \in Template |-> 0] /\ succeeded = {} /\ creating = {}
    /\ trigger = [t \in Template |-> "none"] /\ asking = NoTemplate /\ retry = "none" /\ retryOf = NoTemplate
    /\ cache = [t \in Template |-> "absent"] /\ reading = [t \in Template |-> "idle"]
    /\ modal = FALSE /\ isBuilding = FALSE /\ isRetrying = FALSE
    /\ buildTemplate = NoTemplate /\ hasShown = FALSE /\ timers = 0
    /\ told = [t \in Template |-> 0]

-----------------------------------------------------------------------------
(* The API and the worker                                                  *)

Enqueue(t) ==
    /\ builds[t] < MaxBuilds
    /\ builds' = [builds EXCEPT ![t] = @ + 1]
    /\ job' = [job EXCEPT ![t] = "queued"]

\* TriggerBuild: the task is enqueued, and then the template marked; a build
\* under way, or a queue that cannot be reached, is an error.
TriggerBuild(t) ==
    \/ /\ trigger[t] = "asked"
       /\ \/ /\ status[t] # "building"
             /\ Enqueue(t)
             /\ trigger' = [trigger EXCEPT ![t] = "enqueued"]
          \/ trigger' = [trigger EXCEPT ![t] = "none"] /\ UNCHANGED <<builds, job>>
       /\ UNCHANGED <<status, succeeded, creating, asking, retry, retryOf, cacheVars, viewVars, told>>
    \/ /\ trigger[t] = "enqueued"
       /\ trigger' = [trigger EXCEPT ![t] = "none"]
       /\ status' = [status EXCEPT ![t] = "building"]
       /\ UNCHANGED <<job, builds, succeeded, creating, asking, retry, retryOf, cacheVars, viewVars, told>>

\* The worker takes the task, and finishes.
Build(t) ==
    /\ \/ /\ job[t] = "queued"
          /\ job' = [job EXCEPT ![t] = "running"]
          /\ status' = [status EXCEPT ![t] = "building"]
          /\ UNCHANGED succeeded
       \/ /\ job[t] = "running"
          /\ job' = [job EXCEPT ![t] = "none"]
          /\ \E how \in Over :
                /\ status' = [status EXCEPT ![t] = how]
                /\ succeeded' = IF how = "ready" THEN succeeded \cup {t} ELSE succeeded
    /\ UNCHANGED <<builds, requestVars, cacheVars, viewVars, told>>

\* RetryBuild: marked first, and then enqueued, which may fail.
RetryBuild(t) ==
    /\ retry = "sent" /\ retryOf = t
    /\ \/ /\ status[t] # "building"
          /\ status' = [status EXCEPT ![t] = "building"]
          /\ \/ Enqueue(t) /\ retry' = "ok"
             \/ retry' = "refused" /\ UNCHANGED <<builds, job>>
       \/ retry' = "refused" /\ UNCHANGED <<status, builds, job>>
    /\ UNCHANGED <<succeeded, creating, trigger, asking, retryOf, cacheVars, viewVars, told>>

-----------------------------------------------------------------------------
(* useSandboxTemplate                                                      *)

\* The query of a template becomes the one that is shown: it is read, unless it
\* was read less than a minute ago.
Watch(t) ==
    reading' \in IF t = NoTemplate THEN {reading}
                 ELSE {[reading EXCEPT ![t] = IF @ = "idle" THEN "sent" ELSE @]}
                      \cup IF cache[t] = "absent" THEN {} ELSE {reading}

\* refetchInterval
Poll(t) ==
    /\ isBuilding /\ buildTemplate = t
    /\ cache[t] \in {"pending", "building"} /\ reading[t] = "idle"
    /\ reading' = [reading EXCEPT ![t] = "sent"]
    /\ UNCHANGED <<serverVars, requestVars, cache, viewVars, told>>

\* The API reads the template; the answer arrives, or the GET fails.
ReadTemplate(t) ==
    /\ \/ /\ reading[t] = "sent"
          /\ reading' = [reading EXCEPT ![t] = status[t]]
          /\ UNCHANGED cache
       \/ /\ reading[t] # "idle"
          /\ reading' = [reading EXCEPT ![t] = "idle"]
          /\ cache' = IF reading[t] = "sent" THEN cache ELSE [cache EXCEPT ![t] = reading[t]]
    /\ UNCHANGED <<serverVars, requestVars, viewVars, told>>

-----------------------------------------------------------------------------
(* The dialog                                                              *)

resetForm ==
    /\ isBuilding' = FALSE /\ isRetrying' = FALSE
    /\ buildTemplate' = NoTemplate /\ hasShown' = FALSE

\* The page sets `open`.  In this version both its buttons that do are disabled;
\* what follows is what the dialog does once one is enabled.
OpenModal ==
    /\ ~modal
    /\ modal' = TRUE
    /\ UNCHANGED <<serverVars, requestVars, cacheVars, isBuilding, isRetrying, buildTemplate,
                   hasShown, timers, told>>

\* handleClose
CloseModal ==
    /\ modal
    /\ modal' = FALSE /\ resetForm
    /\ UNCHANGED <<serverVars, requestVars, cacheVars, timers, told>>

\* handleCreateAndBuild: only the build's own request disables the button.  The
\* template may be created although the answer is lost.
CreateAndBuild ==
    /\ modal /\ ~isBuilding /\ ~isRetrying /\ asking = NoTemplate
    /\ \E t \in Template :
        /\ status[t] = "absent" /\ \A u \in Template : u < t => status[u] # "absent"
        /\ status' = [status EXCEPT ![t] = "pending"]
        /\ creating' \in {creating, creating \cup {t}}
    /\ UNCHANGED <<job, builds, succeeded, trigger, asking, retry, retryOf, cacheVars, viewVars, told>>

\* It goes on with the answer, whatever became of the dialog.
Created(t) ==
    /\ t \in creating
    /\ creating' = creating \ {t}
    /\ trigger' = [trigger EXCEPT ![t] = "asked"] /\ asking' = t
    /\ buildTemplate' = t /\ isBuilding' = TRUE
    /\ Watch(t)
    /\ UNCHANGED <<serverVars, retry, retryOf, cache, modal, isRetrying, hasShown, timers, told>>

Triggered ==
    /\ asking # NoTemplate /\ trigger[asking] = "none"
    /\ asking' = NoTemplate
    /\ UNCHANGED <<serverVars, creating, trigger, retry, retryOf, cacheVars, viewVars, told>>

\* handleRetry, and the Cancel button of its form.
handleRetry ==
    /\ modal
    /\ \/ /\ isBuilding /\ buildTemplate # NoTemplate /\ cache[buildTemplate] \in Over
          /\ isRetrying' = TRUE /\ isBuilding' = FALSE
       \/ /\ ~isBuilding /\ isRetrying
          /\ isRetrying' = FALSE /\ UNCHANGED isBuilding
    /\ UNCHANGED <<serverVars, requestVars, cacheVars, modal, buildTemplate, hasShown, timers, told>>

handleRetryBuild ==
    /\ modal /\ ~isBuilding /\ isRetrying /\ buildTemplate # NoTemplate /\ retry = "none"
    /\ retry' = "sent" /\ retryOf' = buildTemplate
    /\ UNCHANGED <<serverVars, creating, trigger, asking, cacheVars, viewVars, told>>

\* Its callbacks set the view, whatever template the dialog is about by then.
Retried ==
    /\ retry \in {"ok", "refused"}
    /\ retry' = "none" /\ retryOf' = NoTemplate
    /\ isRetrying' = FALSE
    /\ IF retry = "ok"
       THEN isBuilding' = TRUE /\ Watch(buildTemplate)
       ELSE UNCHANGED <<isBuilding, reading>>
    /\ UNCHANGED <<serverVars, creating, trigger, asking, cache, modal, buildTemplate,
                   hasShown, timers, told>>

-----------------------------------------------------------------------------
(* The effect that announces a success                                     *)

\* Mutated: the effect does not look at hasShownSuccessRef.
DueAgain == isBuilding /\ buildTemplate # NoTemplate /\ cache[buildTemplate] = "ready"

Due == isBuilding /\ ~hasShown /\ buildTemplate # NoTemplate /\ cache[buildTemplate] = "ready"

Tell ==
    /\ Due
    /\ told[buildTemplate] < 2
    /\ hasShown' = TRUE /\ timers' = timers + 1
    /\ told' = [told EXCEPT ![buildTemplate] = @ + 1]
    /\ UNCHANGED <<serverVars, requestVars, cacheVars, modal, isBuilding, isRetrying, buildTemplate>>

\* The timer closes whatever the dialog is about by then.
TimerFires ==
    /\ timers > 0
    /\ timers' = timers - 1
    /\ modal' = FALSE /\ resetForm
    /\ UNCHANGED <<serverVars, requestVars, cacheVars, told>>

\* An effect runs before anything else happens.
TemplateNext ==
    \/ Tell
    \/ /\ ~Due
       /\ \/ \E t \in Template : TriggerBuild(t) \/ Build(t) \/ RetryBuild(t) \/ Poll(t)
                                 \/ ReadTemplate(t) \/ Created(t)
          \/ OpenModal \/ CloseModal \/ CreateAndBuild \/ Triggered
          \/ handleRetry \/ handleRetryBuild \/ Retried \/ TimerFires

-----------------------------------------------------------------------------
(* Properties                                                              *)

\* The success of a template is announced once, and only after a build of it
\* succeeded, although it is read again, rebuilt and shown again, and answers
\* about one template come to a dialog that is about another by then.
ToldOnce == \A t \in Template : told[t] <= 1 /\ (told[t] = 1 => t \in succeeded)
=============================================================================
