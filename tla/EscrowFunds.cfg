SPECIFICATION Spec
CONSTANTS
    k1 = k1
    k2 = k2
    alice = alice
    bob = bob
    n1 = n1
    n2 = n2
    Keys <- TwoKeys
    People <- MCPeople
    NoOne = NoOne
    Nonces <- TwoNonces
    Amounts <- OneAmount
    Deadlines <- MCDeadlines
    Supply = 2
    TTL = 1
    MaxTime = 1
    MaxBatch = 2
    MaxSigned = 3
SYMMETRY Symmetry
INVARIANTS
    KeyBooksBalance
    NonceMovesOnce
PROPERTIES
    OnlyDebitsUncover
