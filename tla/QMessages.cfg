CONSTANTS
    Senders = {s1, s2}
    Consumers = {c1, c2}
    Messages = {m1, m2, m3}
    NonBlock = TRUE
    NULL = NULL
SPECIFICATION FairSpec
INVARIANTS ListIsPending OnePlace
PROPERTIES ImplementsFifo GetsWhatIsThere
\* every message has been sent and got, or stranded, and the consumers poll
CHECK_DEADLOCK FALSE
