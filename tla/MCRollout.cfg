\* Two replicas of a debug build under a rollout of configurations.
CONSTANTS
    Kilo = 10
    Kibi = 16
    Word = 16777216
    OverflowChecks = TRUE
    Names <- MCNames
    Replicas = {r1, r2}
    Configs <- RolloutConfigs
    Submissions <- FewSubmissions
    Sidecars <- MCSidecars
    LabelChanges <- MCLabelChanges
    MaxContainers = 2
SPECIFICATION Spec
INVARIANTS
    StoredIsCompliant
    RolloutIsSeamless
PROPERTIES
    RejectedIsNotCompliant
