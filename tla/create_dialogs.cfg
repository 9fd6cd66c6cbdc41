\* Two providers and three POSTs; three integrations and three attempts; two templates; two skills.
\* The bounds stop it.
SPECIFICATION AllSpec
CONSTANTS
    None = None
    NoOne = NoOne
    NoTemplate = NoTemplate
    NoSkill = NoSkill
    Target = {p1, p2}
    MaxRequests = 3
    Integrations = {i1, i2, i3}
    Plain = {i3}
    MaxConnects = 3
    MaxTemplates = 2
    MaxBuilds = 2
    Skills = {s1, s2}
    SkillMd <- SkillMdPath
    Bundles <- SmallBundles
INVARIANTS SecretForItsTarget OneAtATime ConnectingIsReal ToldOnce ShownIsMarked
PROPERTY ShownUntilClosed
SYMMETRY Permuted
CHECK_DEADLOCK FALSE
