CONSTANTS
    Nodes <- MC_Nodes
    Self = "n1"
    Malformed = "bad_address"
    Requests <- MC_Requests
    Forged = "forged"
    Handlers = {h1}
    MaxEpoch = 2
    Threshold = 2
SPECIFICATION Spec
INVARIANTS TypeOK CachedPartialsVerify
PROPERTIES PartialFromKeyedMember
