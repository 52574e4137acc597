\* A pod that asks for more memory than the cap, in an amount the program cannot read.
CONSTANTS
    Kilo = 10
    Kibi = 16
    Word = 16777216
    OverflowChecks = FALSE
    Names <- MCNames
    Replicas = {r1}
    Configs <- StrictConfig
    Submissions <- HugeSubmission
    Sidecars <- MCSidecars
    LabelChanges <- MCLabelChanges
    MaxContainers = 2
SPECIFICATION Spec
INVARIANTS
    CapsAreEnforced
