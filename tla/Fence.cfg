CONSTANTS
    Interval = 1
    Timeout = 1
    Margin = 4
    Grace = 5
    Dead = 2
    MaxTime = 11
SPECIFICATION Spec
PROPERTIES
    FencedFirst
    SweptNeverEncoded
CHECK_DEADLOCK FALSE
