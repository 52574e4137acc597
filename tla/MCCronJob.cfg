\* A cron job whose pods have labels but no constraints.
CONSTANTS
    Kilo = 10
    Kibi = 16
    Word = 16777216
    OverflowChecks = FALSE
    Names <- MCNames
    Replicas = {r1}
    Configs <- WarningConfig
    Submissions <- CronJobSubmission
    Sidecars <- MCSidecars
    LabelChanges <- MCLabelChanges
    MaxContainers = 2
SPECIFICATION Spec
INVARIANTS
    MissingConstraintIsAdded
