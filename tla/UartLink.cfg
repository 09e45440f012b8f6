SPECIFICATION FairSpec
CONSTANTS
    Fds = {3, 4, 5}
    Capacity = 2
INVARIANTS PortTracked
PROPERTIES ClientsKeepTheirs ConnectionAsks Reconnects
