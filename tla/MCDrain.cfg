CONSTANTS
    Connections = {c1}
    FirstProcess = TRUE
    MaxOpen = 1
SPECIFICATION Spec
PROPERTIES
    SignalEnds
