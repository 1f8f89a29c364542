CONSTANTS
    plus = plus
    one = one
    None = None
    Key <- Keys
    PLUS = plus
    SLOT_COUNT = 1
    SLOT_KEYS <- SlotKeys
    MENU_HOLD = 1
    CLEAR_HOLD = 1
    MENU_TIMEOUT = 1
    TAP_HOLD = 1
    Elapsed = {0, 1}
    Tracked <- Nothing
SPECIFICATION OneKeySpec
PROPERTIES NoStuckUsbKey NoStuckBleKey
