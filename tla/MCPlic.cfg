CONSTANTS
    Sources = {1, 31, 32}
    PrioMax = 2
    MaxRaise = 2
SPECIFICATION Spec
INVARIANTS
    TypeOK
    InServiceMatchesDispatcher
PROPERTIES
    ClaimsEnabledSource
    Delivery
