SPECIFICATION Spec
CONSTANTS
    Chains = {mainnet}
    Statements = 12
    None = None
INVARIANTS AbsentOrComplete
