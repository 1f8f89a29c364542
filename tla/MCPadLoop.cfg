CONSTANTS
    plus = plus
    one = one
    None = None
    Key <- Keys
    PLUS = plus
    SLOT_COUNT = 1
    SLOT_KEYS <- SlotKeys
    DEBOUNCE = 2
    TAP_HOLD = 3
    SAFETY_POLL = 5
    MENU_HOLD = 6
    CLEAR_HOLD = 6
    MENU_TIMEOUT = 7
    Happens = {"link"}
    MaxLag = 0
    MaxStill = 4
SPECIFICATION Spec
INVARIANTS TypeOK SeenInTime TimersKept
PROPERTY BouncesIgnored
