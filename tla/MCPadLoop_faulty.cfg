CONSTANTS
    plus = plus
    one = one
    None = None
    Key <- Keys
    PLUS = plus
    SLOT_COUNT = 1
    SLOT_KEYS <- SlotKeys
    DEBOUNCE = 1
    TAP_HOLD = 2
    SAFETY_POLL = 3
    MENU_HOLD = 4
    CLEAR_HOLD = 4
    MENU_TIMEOUT = 5
    Happens = {"flaky line", "read errors"}
    MaxLag = 1
    MaxStill = 1
SPECIFICATION FairSpec
PROPERTY PadSettles
