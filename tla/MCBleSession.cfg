SPECIFICATION Spec
CONSTANTS
    DigitKey = {k1, k2}
    CLEAR_KEY = enter
    CANCEL_KEY = plus
    PASSKEY_DIGITS = 2
    ENTRY_TIMEOUT = 2
    Peer = {p1}
    None = None
    Absent = Absent
    Unreadable = Unreadable
    Happens = {"saves fail", "reads fail"}
    MaxEvents = 3
INVARIANTS
    TypeOK
    FloorHeld
    SecuredBySlot
    EntryWithinLink
    NoDigitLeaks
PROPERTIES
    DigitsAreFresh
    ImplementsRegistry
    EntryEnds
