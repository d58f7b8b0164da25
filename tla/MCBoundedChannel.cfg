\* Three senders and two receivers compete for two slots.
SPECIFICATION Spec
CONSTANTS
    s1 = s1
    s2 = s2
    s3 = s3
    r1 = r1
    r2 = r2
    Senders <- ThreeSenders
    Receivers <- TwoReceivers
    Capacity = 2
    MaxSends = 2
INVARIANTS
    TypeOK
    NoLostWakeup
    FifoPerSender
    ExhaustedIsFinal
PROPERTIES
    ImplementsFifoChannel
    CloseReleases
