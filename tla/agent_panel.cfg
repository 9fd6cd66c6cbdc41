\* Two agents, two keys whose providers share a model, one resource, two requests.
SPECIFICATION Spec
CONSTANTS
    None = None
    Agents = {a1, a2}
    k1 = k1  k2 = k2  m1 = m1  m2 = m2
    Keys = {k1, k2}
    Models = {m1, m2}
    ModelsOf <- TwoProviders
    Created <- WithTheSharedModel
    Resources = {r1}
    MaxSaves = 2
INVARIANTS TextOfItsAgent PairOnOffer
PROPERTIES SavesApart
SYMMETRY Permuted
