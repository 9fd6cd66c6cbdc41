\* One connection with two events, two triggers, a key added on the way, two agents.
SPECIFICATION DraftsSpec
CONSTANTS
    None = None
    Connections = {c1}
    Actions = {a1}
    Events = {e1, e2}
    Paths = {"ref"}
    MaxRows = 1
    MaxTriggers = 2
    Keys = {k1, k2}
    OldKeys = {k1}
    Models = {m1}
    Providers = {p1}
    Skills = {s1}
    Subagents = {b1}
    MaxAgents = 1
INVARIANTS  SummaryIsComplete 
SYMMETRY Permuted
