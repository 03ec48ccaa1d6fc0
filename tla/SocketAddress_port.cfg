SPECIFICATION AddressSpec
CONSTANTS
    MAX_HOST_RESOLVE_RETRIES = 3
    Ports = {8000, 8001}
INVARIANTS
    FromGivesPort
CHECK_DEADLOCK FALSE
