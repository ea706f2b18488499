SPECIFICATION Spec
CONSTANTS
    Addresses = {contract, sweeper}
    Slots = {s1}
    Codes = {c1, c2}
    NoCode = NoCode
    Values = {0, 1}
    Balances = {0, 1}
    None = None
INVARIANTS
    TypeOK
    PreStateIsTrue
    StaleOnlyWhereParentHad
