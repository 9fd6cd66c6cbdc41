--------------------------- MODULE CreateDialogs ---------------------------
(***************************************************************************)
(* The dialogs in which something is made: those CreateForms describes, the*)
(* connections page, and the sandbox template's; and the one in which what *)
(* a skill was made of is read.  None knows of another; which one a        *)
(* behaviour is about is chosen in its initial state.                      *)
(***************************************************************************)
EXTENDS CreateDialog, ConnectDialog, TemplateModal, SkillViewer

VARIABLE about

allVars == <<about, createVars, connectVars, templateVars, viewerVars>>

AllTypeOK == CreateTypeOK /\ ConnectTypeOK /\ TemplateTypeOK /\ ViewerTypeOK

AllInit ==
    /\ about \in {"form", "connection", "template", "skill"}
    /\ dialog \in IF about = "form" THEN DOMAIN Submission ELSE {"apiKeys"}
    /\ CreateAtRest /\ ConnectAtRest /\ TemplateAtRest /\ ViewerAtRest

AllNext ==
    /\ about' = about
    /\ \/ about = "form" /\ CreateNext /\ UNCHANGED <<connectVars, templateVars, viewerVars>>
       \/ about = "connection" /\ ConnectNext /\ UNCHANGED <<createVars, templateVars, viewerVars>>
       \/ about = "template" /\ TemplateNext /\ UNCHANGED <<createVars, connectVars, viewerVars>>
       \/ about = "skill" /\ ViewerNext /\ UNCHANGED <<createVars, connectVars, templateVars>>

AllSpec == AllInit /\ [][AllNext]_allVars
=============================================================================
