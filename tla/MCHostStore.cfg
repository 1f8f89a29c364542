CONSTANTS
    SLOT_COUNT = 3
    Peer = {mac, pc}
    None = None
    Absent = Absent
    Unreadable = Unreadable
    RKey = {"+", "1", "2"}
    RETRY_KEY = "+"
    RESET_KEYS = {"1", "2"}
    RETRY_HOLD = 1
    RESET_HOLD = 2
SPECIFICATION RSpec
SYMMETRY PeerSymmetry
INVARIANTS TypeOK RamMatchesFlash SessionFitsSlot
PROPERTIES ImplementsRegistry ResetIsMeant
