SPECIFICATION Spec
CONSTANTS
    p1 = p1
    p2 = p2
    Participants = {p1, p2}
    Assets = {"x", "y"}
    Offers <- TwoOffers
    Crawlers = {c1, c2}
    MaxUpsets = 2
INVARIANTS
    ReferencesHold
    NoOrphanServices
    ExclusiveDistributions
    StaleIsPurged
PROPERTIES
    DepartedGoes
    AnsweringReturns
