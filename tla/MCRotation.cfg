CONSTANTS
    k1 = k1
    k2 = k2
    Keys = {k1, k2}
    Replicas = {r1}
    Secrets <- Renewals
    Last = 2
SPECIFICATION Spec
PROPERTIES
    RotationReachesWebhook
