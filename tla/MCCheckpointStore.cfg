SPECIFICATION Spec
CONSTANTS
    Fingerprints = {f1, f2}
    Slots = {s1, s2}
    MaxGen = 3
    MaxTokens = 1
    MinTokens = 1
    PreserveLonger = TRUE
    Limit = 3
    MaxDamages = 1
    NoGen = NoGen
SYMMETRY Symmetry
INVARIANTS
    PublishedComplete
    AckedSurvives
    StorageBounded
PROPERTY KeepsLonger
