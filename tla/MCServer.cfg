CONSTANTS
    Connections = {c1, c2}
    FirstProcess = FALSE
    MaxOpen = 1
SPECIFICATION Spec
INVARIANTS
    TypeOK
    RoutedIsServed
PROPERTIES
    Withdrawn
    QueuedIsTaken
    DrainEnds
    Promise
