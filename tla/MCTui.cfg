CONSTANTS
    Names = {1, 2}
    CNs = {1}
    Slots = {s1, s2}
    None = None
    MaxChanges = 2
    MaxKeys = 2
SPECIFICATION MCSpec
INVARIANTS TypeOK CursorOnRow StatusHonest OneTimer
PROPERTIES ActsAsAimed ScreenConverges
CHECK_DEADLOCK FALSE
