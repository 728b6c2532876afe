\* Nobody but timers, network and phone: no request to the controller.
SPECIFICATION LiveSpec
INVARIANT OneLiveSocket
INVARIANT SendsReachWhatsApp
PROPERTY Recovers
CONSTANTS
    s1 = s1
    s2 = s2
    s3 = s3
    None = None
    Sockets = {s1, s2, s3}
    Admins = {}
    Prompt = TRUE
    MaxLoadFaults = 1
    PhoneUnlinks = TRUE
CHECK_DEADLOCK FALSE
