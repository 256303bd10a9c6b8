SPECIFICATION FairSpec
CONSTANTS
    Msgs = {m1, m2, m3, m4}
    Cells = {c1, c2, c3}
    NULL = NULL
INVARIANTS QueueOutlivesUse NoLostSignal
PROPERTY MailboxSpec
\* A stopped task does nothing more.
CHECK_DEADLOCK FALSE
