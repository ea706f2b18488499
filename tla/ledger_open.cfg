SPECIFICATION Spec
CONSTANTS
    Chains = {mainnet, optimism}
    Statements = 12
    None = None
INVARIANTS TypeOK VersionTellsShape OpenIsCurrent OneChain
PROPERTIES NothingIsTakenBack
