SPECIFICATION InputSpec
CONSTANTS
    alt = alt
    a = a
    u = u
    Layouts <- MCLayouts
    Modifiers = {alt}
    OtherKeys = {a}
    Chars = {u}
    Codes = {1, 2}
    Buttons = {2}
    Widths = {0, 5}
    DefaultWidth = 2
    Invalid = Invalid
    MaxStreams = 2
    MaxLayouts = 1
INVARIANTS NoStuckInput FreshKeycodes PointerFaithful
CHECK_DEADLOCK FALSE
