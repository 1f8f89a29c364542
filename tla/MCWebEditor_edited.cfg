SPECIFICATION Spec
CONSTANTS
    Keymap = {k0}
    DEFAULT_KEYMAP = k0
    Mask = {m0, m1}
    NO_MASK = m0
    Colors = {c0, c1}
    DEFAULT_SLOT_COLORS = c0
    None = None
    Happens = {"busy edits"}
    Found <- MCFound
    Profiles <- MCProfiles
    Plain = {a, b}
    Modifier = {e2}
    CONSUMER_KEYS = {e2, e9}
    NO_USAGE = none
    KEYS = 3
    ROOM = 2
    MaxEdits = 1
PROPERTIES
    RawIsTheDevices
