----------------------------- MODULE AgentWizard -----------------------------
(***************************************************************************)
(* The "Create agent" dialog: thirteen steps over one draft, the dialog in *)
(* which an LLM key is added on the way, and the two requests they send.   *)
(* Closing the dialog unmounts it: the draft is gone, and so are the       *)
(* callbacks of a request under way.                                       *)
(*                                                                         *)
(* The workspace type, the description and the instructions are data: the  *)
(* first is never empty, the others may be.                                *)
(***************************************************************************)
EXTENDS TriggerFlow

CONSTANTS
    OldKeys,        \* the LLM keys the API holds at the start; the others are added later
    Providers,
    Skills, Subagents,
    MaxAgents

VARIABLES
    step,           \* "closed", or the step shown
    slug,           \* selectedMarketplaceAgent
    key, named, model, prompts,
    skills, subagents,
    \* the dialog that adds a key
    keyDialog,      \* "closed", "list", "form"
    typed,          \* whether an API key was typed
    keys,           \* "absent", "asked", "orphan" (asked, nobody listens), "there"
    \* POST /v1/agents
    create,         \* whether this draft's request is under way
    orphans,        \* requests of drafts that were closed
    agents          \* agents created

formVars == <<slug, key, named, model, prompts>>
listVars == <<skills, subagents>>
keyVars  == <<keyDialog, typed, keys>>
callVars == <<create, orphans, agents>>
draftVars == <<pickerVars, flowVars, triggers, formVars, listVars>>
wizardVars == <<step, draftVars, keyVars, callVars>>

Steps ==
    {"mode", "sandbox", "integrations", "trigger", "llm-key", "basics", "system-prompt",
     "instructions", "skills", "subagents", "summary", "marketplace-browse", "marketplace-detail"}

WizardTypeOK ==
    /\ PickerTypeOK /\ TriggerFlowTypeOK
    /\ step \in Steps \cup {"closed"}
    /\ slug \in {"none", "agent"}
    /\ key \in Keys \cup {None} /\ named \in BOOLEAN /\ model \in Models \cup {None}
    /\ prompts \subseteq Providers
    /\ skills \subseteq Skills /\ subagents \subseteq Subagents
    /\ keyDialog \in {"closed", "list", "form"} /\ typed \in BOOLEAN
    /\ keys \in [Keys -> {"absent", "asked", "orphan", "there"}]
    /\ create \in BOOLEAN /\ orphans \in 0 .. MaxAgents /\ agents \in 0 .. MaxAgents

BlankDraft ==
    /\ EmptyPicker /\ FlowAtRest /\ triggers = <<>>
    /\ slug = "none" /\ key = None /\ named = FALSE /\ model = None /\ prompts = {}
    /\ skills = {} /\ subagents = {}

WizardInit ==
    /\ step = "closed" /\ BlankDraft
    /\ keyDialog = "closed" /\ typed = FALSE
    /\ keys = [k \in Keys |-> IF k \in OldKeys THEN "there" ELSE "absent"]
    /\ create = FALSE /\ orphans = 0 /\ agents = 0

Forget ==
    /\ ClearPicker /\ FlowReset /\ triggers' = <<>>
    /\ slug' = "none" /\ key' = None /\ named' = FALSE /\ model' = None /\ prompts' = {}
    /\ skills' = {} /\ subagents' = {}

\* The dialog opens on the choice of a mode, or past it when the caller made it.
OpenWizard ==
    /\ step = "closed"
    /\ step' \in {"mode", "sandbox", "marketplace-browse"}
    /\ UNCHANGED <<draftVars, keyVars, callVars>>

\* The step that asked for a key is unmounted: its request is not listened to.
Unheard == [k \in Keys |-> IF keys[k] = "asked" THEN "orphan" ELSE keys[k]]

\* The key dialog is modal: the wizard behind it cannot be closed.
CloseWizard ==
    /\ step # "closed" /\ keyDialog = "closed"
    /\ step' = "closed" /\ Forget
    /\ keys' = Unheard /\ typed' = FALSE
    /\ orphans' = (IF create THEN orphans + 1 ELSE orphans) /\ create' = FALSE
    /\ UNCHANGED <<keyDialog, agents>>

GoTo(s) == step' = s /\ UNCHANGED <<draftVars, keyVars, callVars>>

-----------------------------------------------------------------------------
(* The steps                                                               *)

SetMode(mode) == GoTo(IF mode = "marketplace" THEN "marketplace-browse" ELSE "sandbox")

StepChooseMode == step = "mode" /\ \E mode \in {"scratch", "marketplace"} : SetMode(mode)

StepMarketplaceBrowse ==
    /\ step = "marketplace-browse"
    /\ \/ GoTo("mode")
       \/ /\ slug' = "agent" /\ step' = "marketplace-detail"
          /\ UNCHANGED <<pickerVars, flowVars, triggers, key, named, model, prompts, listVars, keyVars, callVars>>

\* "Install agent" has no handler.
StepMarketplaceDetail == step = "marketplace-detail" /\ GoTo("marketplace-browse")

StepSandboxType == step = "sandbox" /\ (GoTo("mode") \/ GoTo("integrations"))

\* The connections, or the actions of one of them; the list leads on and back.
StepIntegrations ==
    /\ step = "integrations"
    /\ \/ /\ \/ \E c \in Connections : OpenDetail(c)
             \/ ActionDetailView
          /\ UNCHANGED <<step, flowVars, triggers, formVars, listVars, keyVars, callVars>>
       \/ detail = None /\ (GoTo("sandbox") \/ GoTo("trigger"))

\* handleConfirmSelection: the triggers of the events picked are added, and the flow starts over.
HandleConfirmSelection(s) ==
    /\ view = "triggers" /\ picked # None /\ DOMAIN events # {}
    /\ s \in Listed(SplitTriggers) /\ Len(triggers) + Len(s) <= MaxTriggers
    /\ triggers' = triggers \o s
    /\ FlowReset

ChoiceView ==
    /\ view = "home"
    /\ \/ NavigateTo("connections") /\ UNCHANGED <<picked, events, configuring, triggers>>
       \/ \E i \in DOMAIN triggers : RemoveTrigger(i) /\ UNCHANGED flowVars

BackInFlow ==
    /\ \/ view = "connections" /\ NavigateTo("home")
       \/ view = "triggers" /\ NavigateTo("connections")
    /\ UNCHANGED <<picked, events, configuring, triggers>>

\* The step's own views; leaving the step forgets what was picked and not confirmed.
StepTrigger ==
    /\ step = "trigger"
    /\ \/ /\ \/ ChoiceView \/ BackInFlow \/ HandlePickConnection(chosen) \/ TriggerPickerView
             \/ ConditionBuilderView \/ HandleConfirmConditions \/ BackFromConditions
             \/ \E s \in Listed(SplitTriggers) : HandleConfirmSelection(s)
          /\ UNCHANGED <<step, pickerVars, formVars, listVars, keyVars, callVars>>
       \/ /\ view = "home" /\ step' \in {"integrations", "llm-key"} /\ FlowReset
          /\ UNCHANGED <<triggers, pickerVars, formVars, listVars, keyVars, callVars>>

\* Choosing a key leads on; the model chosen for another key stays.
HandleSelect(k) ==
    /\ key' = k /\ step' = "basics" /\ keys' = Unheard /\ typed' = FALSE /\ keyDialog' = "closed"
    /\ UNCHANGED <<slug, named, model, prompts, pickerVars, flowVars, triggers, listVars, callVars>>

StepLlmKey ==
    /\ step = "llm-key" /\ keyDialog = "closed"
    /\ \/ \E k \in Keys : keys[k] = "there" /\ HandleSelect(k)
       \/ keyDialog' = "list" /\ UNCHANGED <<step, draftVars, typed, keys, callVars>>
       \/ /\ step' = "integrations" /\ keys' = Unheard
          /\ UNCHANGED <<draftVars, keyDialog, typed, callVars>>

\* A bug to catch: a model, or a name, is not asked for.
LeavesUnfinished ==
    /\ step = "basics" /\ (GoTo("llm-key") \/ ((named \/ model # None) /\ GoTo("system-prompt")))

\* Name and model, both needed to go on.
LeaveBasics ==
    /\ step = "basics" /\ (GoTo("llm-key") \/ (named /\ model # None /\ GoTo("system-prompt")))

StepBasics ==
    \/ LeaveBasics
    \/ /\ step = "basics"
       /\ \/ named' = ~named /\ UNCHANGED model
          \/ model' \in Models /\ UNCHANGED named
       /\ UNCHANGED <<step, slug, key, prompts, pickerVars, flowVars, triggers, listVars, keyVars, callVars>>

\* The editor of one provider's prompt.
ProviderPromptEditor ==
    \E p \in Providers : prompts' = IF p \in prompts THEN prompts \ {p} ELSE prompts \cup {p}

StepSystemPrompt ==
    /\ step = "system-prompt"
    /\ \/ GoTo("basics")
       \/ prompts # {} /\ GoTo("instructions")
       \/ /\ ProviderPromptEditor
          /\ UNCHANGED <<step, slug, key, named, model, pickerVars, flowVars, triggers, listVars, keyVars, callVars>>

StepInstructions == step = "instructions" /\ (GoTo("system-prompt") \/ GoTo("skills"))

\* The list is searched, scoped and paged; what is picked is kept apart from it.
\* toggleSkill and toggleSubagent
Toggled(chosenOnes, x) == IF x \in chosenOnes THEN chosenOnes \ {x} ELSE chosenOnes \cup {x}

StepSkills ==
    /\ step = "skills"
    /\ \/ GoTo("instructions") \/ GoTo("subagents")
       \/ /\ \/ \E s \in Skills : skills' = Toggled(skills, s)
             \/ skills # {} /\ skills' = {}
          /\ UNCHANGED <<step, subagents, pickerVars, flowVars, triggers, formVars, keyVars, callVars>>

StepSubagents ==
    /\ step = "subagents"
    /\ \/ GoTo("skills") \/ GoTo("summary")
       \/ /\ \/ \E s \in Subagents : subagents' = Toggled(subagents, s)
             \/ subagents # {} /\ subagents' = {}
          /\ UNCHANGED <<step, skills, pickerVars, flowVars, triggers, formVars, keyVars, callVars>>

\* handleCreate returns silently without a key or a model; the button is off while it runs.
HandleCreate ==
    /\ step = "summary" /\ ~create
    /\ key # None /\ model # None
    /\ agents + orphans < MaxAgents
    /\ create' = TRUE
    /\ UNCHANGED <<step, draftVars, keyVars, orphans, agents>>

StepSummary ==
    \/ HandleCreate
    \/ step = "summary" /\ GoTo("skills")

-----------------------------------------------------------------------------
(* Adding a key on the way                                                 *)

CloseKeyDialog ==
    /\ keyDialog # "closed"
    /\ keyDialog' = "closed" /\ typed' = FALSE
    /\ UNCHANGED <<step, draftVars, keys, callVars>>

\* Choosing a provider empties the form; going back keeps what was typed until then.
AddLlmKeyDialog ==
    /\ \/ keyDialog = "list" /\ keyDialog' = "form" /\ typed' = FALSE
       \/ keyDialog = "form" /\ keyDialog' = "list" /\ UNCHANGED typed
       \/ keyDialog = "form" /\ typed' = ~typed /\ UNCHANGED keyDialog
    /\ UNCHANGED <<step, draftVars, keys, callVars>>

\* The button looks at the text only: a second press sends again, and takes over the callbacks.
HandleSubmit(k) ==
    /\ keyDialog = "form" /\ typed /\ keys[k] = "absent"
    /\ keys' = [Unheard EXCEPT ![k] = "asked"]
    /\ UNCHANGED <<step, draftVars, keyDialog, typed, callVars>>

\* The key is stored; the step, if it is still there, is told, and moves on with it.
KeyAdded(k) ==
    \/ /\ keys[k] = "asked"
       /\ key' = k /\ step' = "basics" /\ keys' = [keys EXCEPT ![k] = "there"]
       /\ keyDialog' = "closed" /\ typed' = FALSE
       /\ UNCHANGED <<slug, named, model, prompts, pickerVars, flowVars, triggers, listVars, callVars>>
    \/ /\ keys[k] = "orphan"
       /\ keys' = [keys EXCEPT ![k] = "there"]
       /\ UNCHANGED <<step, draftVars, keyDialog, typed, callVars>>

KeyRefused(k) ==
    /\ keys[k] \in {"asked", "orphan"}
    /\ keys' = [keys EXCEPT ![k] = "absent"]
    /\ UNCHANGED <<step, draftVars, keyDialog, typed, callVars>>

-----------------------------------------------------------------------------
(* The answer to POST /v1/agents                                           *)

AgentCreated ==
    \/ /\ create /\ agents' = agents + 1 /\ create' = FALSE
       /\ step' = "closed" /\ Forget
       /\ keys' = Unheard /\ keyDialog' = "closed" /\ typed' = FALSE
       /\ UNCHANGED orphans
    \/ /\ orphans > 0 /\ orphans' = orphans - 1 /\ agents' = agents + 1
       /\ UNCHANGED <<step, draftVars, keyVars, create>>

AgentRefused ==
    /\ \/ create /\ create' = FALSE /\ UNCHANGED orphans
       \/ orphans > 0 /\ orphans' = orphans - 1 /\ UNCHANGED create
    /\ UNCHANGED <<step, draftVars, keyVars, agents>>

StepRouter ==
    \/ StepChooseMode \/ StepMarketplaceBrowse \/ StepMarketplaceDetail \/ StepSandboxType
    \/ StepIntegrations \/ StepTrigger \/ StepLlmKey \/ StepBasics \/ StepSystemPrompt
    \/ StepInstructions \/ StepSkills \/ StepSubagents \/ StepSummary

WizardNext ==
    \/ OpenWizard \/ CloseWizard \/ StepRouter
    \/ CloseKeyDialog \/ AddLlmKeyDialog
    \/ \E k \in Keys : HandleSubmit(k) \/ KeyAdded(k) \/ KeyRefused(k)
    \/ AgentCreated \/ AgentRefused

WizardSpec == WizardInit /\ [][WizardNext]_wizardVars

-----------------------------------------------------------------------------
(***************************************************************************)
(* "Create agent" always sends something: on the summary the draft has     *)
(* every field handleCreate and the API ask for, by whichever way,         *)
(* forward, back and forward again, and past whichever late answer, the    *)
(* summary was reached.  Whether the model is one the key's provider has   *)
(* is left to the API: choosing another key keeps the model.               *)
(***************************************************************************)
CreateBody == [name |-> named, credential |-> key, model |-> model, prompts |-> prompts]

Accepted(b) ==
    b.name /\ b.credential # None /\ keys[b.credential] = "there" /\ b.model # None /\ b.prompts # {}

SummaryIsComplete == step = "summary" => Accepted(CreateBody)
=============================================================================
