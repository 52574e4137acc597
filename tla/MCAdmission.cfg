\* Every workload under every configuration, one replica that is restarted between calls.
CONSTANTS
    Kilo = 10
    Kibi = 16
    Word = 16777216
    OverflowChecks = FALSE
    Names <- MCNames
    Replicas = {r1}
    Configs <- MCConfigs
    Submissions <- MCSubmissions
    Sidecars <- MCSidecars
    LabelChanges <- MCLabelChanges
    MaxContainers = 2
SPECIFICATION Spec
INVARIANTS
    TypeOK
    StoredIsCompliant
    MutatedIsAccepted
    PatchIsIdempotent
    PatchApplies
    PodsAreAccepted
PROPERTIES
    RejectedIsNotCompliant
    MutationOnlyAdds
    InjectedConstraintSelectsPods
