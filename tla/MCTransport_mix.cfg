CONSTANTS
    m1 = m1
    m2 = m2
    m3 = m3
    u1 = u1
    Messages <- MixMessages
    Before <- MixBefore
    Handled = {m1, m2, m3}
    Total = 9
    Required = 3
SPECIFICATION Spec
INVARIANTS
    TypeOK
    DeliveryNeedsShards
    AloneExactlyOnce
CHECK_DEADLOCK FALSE
