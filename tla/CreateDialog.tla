---------------------------- MODULE CreateDialog ----------------------------
(***************************************************************************)
(* A dialog that makes something new, as CreateForms describes it: what is *)
(* in its fields, and the POSTs under way, answered in any order, refused, *)
(* or lost.  The dialog stays mounted while it is closed, so an answer may *)
(* come to a dialog that was closed or opened again meanwhile.             *)
(***************************************************************************)
EXTENDS CreateForms, Naturals

CONSTANTS
    Target, None,
    MaxRequests

Slot == 1 .. MaxRequests

ASSUME CreateAssumption == MaxRequests \in Nat /\ None \notin Slot \cup Target

Clears ==
    [apiKeys |-> ApiKeysClears, ownSkills |-> OwnSkillsClears, adminSkills |-> AdminSkillsClears,
     workspace |-> WorkspaceClears, integrations |-> IntegrationsClears,
     templates |-> TemplatesClears, llmKeys |-> LlmKeysClears]

Submission ==
    [apiKeys |-> ApiKeysSubmit, ownSkills |-> OwnSkillsSubmit, adminSkills |-> AdminSkillsSubmit,
     workspace |-> WorkspaceSubmit, integrations |-> IntegrationsSubmit,
     templates |-> TemplatesSubmit, llmKeys |-> LlmKeysSubmit]

Button ==
    [apiKeys |-> ApiKeysButton, ownSkills |-> OwnSkillsButton, adminSkills |-> AdminSkillsButton,
     workspace |-> WorkspaceButton, integrations |-> IntegrationsButton,
     templates |-> TemplatesButton, llmKeys |-> LlmKeysButton]

VARIABLES
    dialog,
    open,
    target,     \* selectedProvider
    fields,     \* the targets a field was typed for: {} when blank
    saving,     \* the dialog's own flag
    pending,    \* the request the mutation's isPending is about, or None
    shown,      \* createdKey, by its request
    on, body, phase, sends

formVars == <<open, target, fields, saving, pending, shown>>
postVars == <<on, body, phase, sends>>
createVars == <<dialog, formVars, postVars>>

Does == Submission[dialog]

CreateTypeOK ==
    /\ dialog \in DOMAIN Submission
    /\ open \in BOOLEAN /\ saving \in BOOLEAN
    /\ target \in Target \cup {None}
    /\ fields \subseteq Target \cup {None}
    /\ pending \in Slot \cup {None} /\ shown \in Slot \cup {None}
    /\ on \in [Slot -> Target \cup {None}]
    /\ body \in [Slot -> SUBSET (Target \cup {None})]
    /\ phase \in [Slot -> {"unsent", "sent", "applied", "refused", "over"}]
    /\ sends \in 0 .. MaxRequests

CreateAtRest ==
    /\ open = FALSE /\ target = None /\ fields = {} /\ saving = FALSE
    /\ pending = None /\ shown = None
    /\ on = [s \in Slot |-> None] /\ body = [s \in Slot |-> {}]
    /\ phase = [s \in Slot |-> "unsent"] /\ sends = 0

CreateInit == dialog \in DOMAIN Submission /\ CreateAtRest

Emptied(event) == IF event \in Clears[dialog] THEN {} ELSE fields

-----------------------------------------------------------------------------
(* The user                                                                *)

\* The button of the page.
Open ==
    /\ ~open
    /\ open' = TRUE
    /\ fields' = Emptied("open")
    /\ target' = IF "open" \in Clears[dialog] THEN None ELSE target
    /\ saving' = (saving /\ "open" \notin Does.forgets)
    /\ UNCHANGED <<dialog, pending, shown, postVars>>

\* Away from the dialog, by its Cancel button or by dismissing it.
Close(how) ==
    /\ open
    /\ open' = FALSE
    /\ fields' = Emptied("close")
    /\ target' = IF "close" \in Clears[dialog] THEN None ELSE target
    /\ shown' = None
    /\ pending' = IF how \in Does.forgets THEN None ELSE pending
    /\ UNCHANGED <<dialog, saving, postVars>>

\* selectProvider
Choose(t) ==
    /\ open /\ Does.chooses /\ target = None
    /\ target' = t
    /\ fields' = Emptied("choose")
    /\ UNCHANGED <<dialog, open, saving, pending, shown, postVars>>

\* goBack
Back ==
    /\ open /\ target # None
    /\ target' = None
    /\ UNCHANGED <<dialog, open, fields, saving, pending, shown, postVars>>

\* The fields are on the screen.
Editable == open /\ shown = None /\ (Does.chooses => target # None)

Type ==
    /\ Editable
    /\ fields' = fields \cup {target}
    /\ UNCHANGED <<dialog, open, target, saving, pending, shown, postVars>>

Held ==
    \/ Button[dialog] = "own" /\ saving
    \/ Button[dialog] = "act" /\ pending # None

\* handleSubmit, handleCreate
Submit ==
    /\ Editable /\ ~Held
    /\ Does.needs => fields # {}
    /\ sends < MaxRequests
    /\ LET s == sends + 1
       IN  /\ on' = [on EXCEPT ![s] = target]
           /\ body' = [body EXCEPT ![s] = fields]
           /\ phase' = [phase EXCEPT ![s] = "sent"]
           /\ pending' = s
           /\ sends' = s
    /\ saving' = (Button[dialog] = "own")
    /\ UNCHANGED <<dialog, open, target, fields, shown>>

-----------------------------------------------------------------------------
(* The API                                                                 *)

InFlight(s) == phase[s] \in {"sent", "applied", "refused"}

Carry(s) ==
    /\ phase[s] = "sent"
    /\ \E p \in {"applied", "refused"} : phase' = [phase EXCEPT ![s] = p]
    /\ UNCHANGED <<dialog, formVars, on, body, sends>>

-----------------------------------------------------------------------------
(* The answers                                                             *)

\* Mutated: the callbacks are the hook's own, and run for every request.
HeardAlways(s) == TRUE

\* The callbacks given to mutate are those of its last call.
Heard(s) == Does.ofLast => pending = s

Done(s) ==
    IF Does.shows
    THEN shown' = s /\ UNCHANGED <<open, target, fields>>
    ELSE /\ open' = FALSE
         /\ fields' = Emptied("done")
         /\ target' = IF "done" \in Clears[dialog] THEN None ELSE target
         /\ UNCHANGED shown

Answer(s, how) ==
    /\ IF how = "ok" /\ Heard(s) THEN Done(s) ELSE UNCHANGED <<open, target, fields, shown>>
    /\ saving' = (saving /\ how \notin Does.frees)
    /\ pending' = IF pending = s THEN None ELSE pending
    /\ on' = [on EXCEPT ![s] = None]
    /\ body' = [body EXCEPT ![s] = {}]
    /\ phase' = [phase EXCEPT ![s] = "over"]
    /\ UNCHANGED <<dialog, sends>>

Receive(s) ==
    \/ phase[s] = "applied" /\ Answer(s, "ok")
    \/ phase[s] = "refused" /\ Answer(s, "refused")

Lose(s) == phase[s] \in {"sent", "applied"} /\ Answer(s, "lost")

CreateNext ==
    \/ Open \/ Back \/ Type \/ Submit
    \/ \E how \in {"cancel", "dismiss"} : Close(how)
    \/ \E t \in Target : Choose(t)
    \/ \E s \in Slot : Carry(s) \/ Receive(s) \/ Lose(s)

-----------------------------------------------------------------------------
(* Properties                                                              *)

\* The secret that is sent for a provider was typed for that provider: one that
\* Back, or closing the dialog and opening it again, left in the fields is
\* never sent to another.
SecretForItsTarget ==
    \A s \in Slot : InFlight(s) /\ Does.chooses => body[s] \subseteq {on[s]}

\* A key on the screen, which cannot be seen again, stays there until the user
\* closes the dialog: no answer that comes late puts another in its place.
ShownUntilClosed ==
    [][shown # None /\ shown' # shown => open /\ ~open']_<<shown, open>>

\* Where the dialog keeps its own flag, nothing is made twice at once, although
\* the dialog may be closed and opened again while it runs.
OneAtATime ==
    Button[dialog] = "own" =>
        \A s, t \in Slot : InFlight(s) /\ InFlight(t) => s = t
=============================================================================
