CONSTANTS
    k1 = k1
    k2 = k2
    Keys = {k1, k2}
    Replicas = {r1, r2}
    Secrets <- MCSecrets
    Last = 4
SPECIFICATION RestartedSpec
INVARIANTS
    TypeOK
PROPERTIES
    ComesUp
    RestartsHeal
