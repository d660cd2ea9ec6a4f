SPECIFICATION Spec
CONSTANTS
    Upstreams = {"openai", "anthropic"}
    Clients = {"chat", "messages", "responses"}
    Separated = {3}
    MaxSaid = 6
    MaxBlocks = 4
INVARIANTS
    TypeOK
    NothingUnaudited
    DeliveredAsSaid
    DeltasHitOpenBlocks
    ClosedOnce
