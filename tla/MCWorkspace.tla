---------------------------- MODULE MCWorkspace ----------------------------
EXTENDS Workspace, TLC

CONSTANTS u1, u2, o1, o2, o3

\* An administrator in two workspaces, who may not have made the account of the
\* operators' application yet, and a user who has none.
MCInit ==
    /\ site \in {"web", "admin"}
    /\ accounts = {u1} \/ (site = "admin" /\ accounts = {})
    /\ member = [u \in User |-> IF u \in accounts THEN <<o1, o2>> ELSE <<>>]
    /\ Init

MCSpec == MCInit /\ [][Next]_vars

Slots == Permutations(Attempt)

AllTypeOK == SignInTypeOK /\ WorkspaceTypeOK
=============================================================================
