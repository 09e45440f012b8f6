SPECIFICATION Spec
CONSTANTS
    Fds = {3, 4}
    Capacity = 2
PROPERTIES WritesGoToPort
