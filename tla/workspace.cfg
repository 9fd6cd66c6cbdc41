\* Two users, three workspaces, one code, one sign-out or deletion.  The bounds stop it.
SPECIFICATION MCSpec
CONSTANTS
    u1 = u1
    u2 = u2
    o1 = o1
    o2 = o2
    o3 = o3
    User = {u1, u2}
    Admin = {u1}
    Org = {o1, o2, o3}
    Code = {c1}
    None = None
    Attempt = {a1, a2}
    MaxTurns = 1
INVARIANTS OneSignIn 
SYMMETRY Slots
CHECK_DEADLOCK FALSE
