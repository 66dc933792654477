SPECIFICATION Spec
CHECK_DEADLOCK FALSE
CONSTANTS
    Clients = {"c1", "c2"}
    Timeouts = {500, 1500}
    MaxSeqnum = 2
    MaxAnswers = 3
INVARIANT ReadOnce
