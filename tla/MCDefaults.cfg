\* A pod that requests more than the default limit and states no limit.
CONSTANTS
    Kilo = 10
    Kibi = 16
    Word = 16777216
    OverflowChecks = FALSE
    Names <- MCNames
    Replicas = {r1}
    Configs <- StrictConfig
    Submissions <- HungrySubmissions
    Sidecars <- MCSidecars
    LabelChanges <- MCLabelChanges
    MaxContainers = 2
SPECIFICATION Spec
PROPERTIES
    PatchKeepsObjectValid
