CONSTANTS
    Orders <- MCOrders
    Symbols <- MCSymbols
    SymbolOf <- MCSymbolOf
    Quantity <- MCQuantity
    Mark <- MCMark
    MaxOrder = 4
    MaxGross = 4
    MaxTries = 2
    MaxCalls = 2
SPECIFICATION Spec
INVARIANTS
    TypeOK
    GrossBounded
PROPERTIES
    VenueSpec
    DriftIsReal
