\* The parser is a single step, after which nothing is left to do.
CONSTANTS
    Kilo = 10
    Kibi = 16
    Word = 16777216
    OverflowChecks = FALSE
    Names = {app}
    Hosts <- MCHosts
    Components <- MCComponents
    Tags <- MCTags
    Digests <- MCDigests
    Entries <- MCEntries
SPECIFICATION Spec
INVARIANTS
    AdmitsOnlyBelow
    AdmitsAllBelow
    LatestIsRecognised
CHECK_DEADLOCK FALSE
