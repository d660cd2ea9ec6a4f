SPECIFICATION Spec
CONSTANTS
    Upstreams = {"openai", "anthropic"}
    Clients = {"chat", "messages", "responses"}
    Separated = {1}
    MaxSaid = 6
    MaxBlocks = 4
INVARIANT AuditHearsAll
