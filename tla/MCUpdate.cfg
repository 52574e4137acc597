\* A pod that is stored while no replica answers, and updated later.
CONSTANTS
    Kilo = 10
    Kibi = 16
    Word = 16777216
    OverflowChecks = FALSE
    Names <- MCNames
    Replicas = {r1}
    Configs <- StrictConfig
    Submissions <- BareSubmission
    Sidecars <- MCSidecars
    LabelChanges <- MCLabelChanges
    MaxContainers = 2
SPECIFICATION Spec
PROPERTIES
    PatchKeepsUpdatePermitted
