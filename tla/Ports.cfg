\* Ports 1 to 4: ranges that overlap, touch, leave gaps or have their bounds swapped.
SPECIFICATION Spec
CONSTANTS
    Top = 4
    Raw <- Values
INVARIANTS
    DisplayExact
    DisplayCompact
CHECK_DEADLOCK FALSE
