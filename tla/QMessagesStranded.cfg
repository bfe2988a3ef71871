CONSTANTS
    Senders = {s1}
    Consumers = {c1}
    Messages = {m1, m2}
    NonBlock = TRUE
    NULL = NULL
SPECIFICATION FairSpec
PROPERTY EverythingIsReceived
\* every message has been sent and the consumer polls
CHECK_DEADLOCK FALSE
