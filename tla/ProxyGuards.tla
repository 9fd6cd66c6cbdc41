----------------------------- MODULE ProxyGuards -----------------------------
(***************************************************************************)
(* What a request to the LLM proxy depends on before it is forwarded: the  *)
(* caps of its token and credential (RequestCap), and the credential's     *)
(* secret (CredentialCache).  Neither reads the other's state, so a        *)
(* behaviour is about one of them, chosen in its initial state.            *)
(***************************************************************************)
EXTENDS CredentialCache, RequestCap

VARIABLE about

GuardsTypeOK == TypeOK /\ CapTypeOK

GuardsInit == about \in {"cap", "secret"} /\ Init /\ CapInit

GuardsNext ==
  /\ about' = about
  /\ \/ about = "secret" /\ Next /\ UNCHANGED capVars
     \/ about = "cap" /\ CapNext /\ UNCHANGED vars

GuardsSpec == GuardsInit /\ [][GuardsNext]_<<about, vars, capVars>>
=============================================================================
