-------------------------------- MODULE Input --------------------------------
(***************************************************************************)
(* The client's keyboard and pointer injected into the X server:           *)
(* src/input/drd_x11_input.c behind src/input/drd_input_dispatcher.c, and  *)
(* the input callbacks of src/transport/drd_rdp_listener.c.                *)
(*                                                                         *)
(* The session's thread starts the injector and then delivers events; the  *)
(* stream may be stopped from another thread at any time.  Every operation *)
(* of the injector holds its lock, so each is one step; a dispatcher start *)
(* is two.  The X server is external: which key code a key or a character  *)
(* has (its layout, which a user may change), which keys and buttons are   *)
(* down, the width of the screen.  A key is a scan code with its extended  *)
(* bit.  Both axes are treated alike; the model has one.                   *)
(***************************************************************************)
EXTENDS Integers, FiniteSets

CONSTANTS
    Modifiers,      \* keys whose code is looked up by key symbol
    OtherKeys,      \* keys whose code is in FreeRDP's table
    Chars,          \* Unicode characters
    Codes,          \* key codes; 0 is none
    Layouts,        \* the layouts in use
    Buttons,        \* mouse buttons, of 1 .. 3
    Widths,         \* widths of a screen or a stream; 0 is unknown
    DefaultWidth,   \* 1920
    Invalid,        \* DRD_X11_KEYCODE_CACHE_INVALID
    MaxStreams,     \* bound: streams started
    MaxLayouts      \* bound: changes of the layout and of the screen

Keys == Modifiers \union OtherKeys
Symbols == Keys \union Chars

ASSUME KeysAssumption ==
    /\ Modifiers \intersect OtherKeys = {} /\ Chars \intersect Keys = {}
    /\ \A b \in Buttons : <<"button", b>> \notin Symbols
ASSUME CodesAssumption == Codes \subseteq Nat \ {0} /\ Invalid \notin Nat
ASSUME LayoutsAssumption == Layouts \subseteq [Symbols -> Codes \union {0}]
ASSUME ButtonsAssumption == Buttons \subseteq 1 .. 3
ASSUME WidthsAssumption == Widths \subseteq Nat /\ DefaultWidth \in Nat \ {0}
ASSUME BoundsAssumption == MaxStreams \in Nat /\ MaxLayouts \in Nat

VARIABLES
    running,          \* also: the display is open
    keycode_cache,
    stream_width, desktop_width,
    scale,            \* stream_to_desktop_scale_x, as <<numerator, denominator>>
    table,            \* FreeRDP's table, read from the layout when the display opens
    phase,            \* the session: "off", "starting", "on"
    holds,            \* external: keys, characters and buttons the client holds down
    layout,           \* external: the code of each symbol, 0 for none
    down,             \* external: what the X server takes to be down
    screen,           \* external: the screen's width
    pointer, aim,     \* external: where the pointer was put, and for which event
    leftover,         \* history: what was down when the last stream stopped
    typed,            \* history: codes pressed for characters
    seen,             \* history: the codes each key has had since the display was opened
    measured,         \* history: how wide the screen was when the display was opened
    streams, changes

injector == <<running, keycode_cache, stream_width, desktop_width, scale, table>>
history == <<leftover, typed, seen, measured>>
inputVars ==
    <<running, keycode_cache, stream_width, desktop_width, scale, table, phase, holds, layout,
      down, screen, pointer, aim, leftover, typed, seen, measured, streams, changes>>

Key(code) == <<"key", code>>
Button(b) == <<"button", b>>
Downs == {Key(c) : c \in Codes} \union {Button(b) : b \in 1 .. 3}
NoCache == [k \in Keys |-> Invalid]
NoAim == [x |-> 0, stream |-> 1, desktop |-> 1]

(* Every variable has its type, whatever the order of starts, stops and    *)
(* events.                                                                 *)
InputTypeOK ==
    /\ running \in BOOLEAN /\ phase \in {"off", "starting", "on"}
    /\ keycode_cache \in [Keys -> Codes \union {0, Invalid}]
    /\ stream_width \in Nat /\ desktop_width \in Nat
    /\ scale \in (Nat \ {0}) \X (Nat \ {0})
    /\ table \in Layouts /\ layout \in Layouts
    /\ holds \subseteq Symbols \union {Button(b) : b \in Buttons}
    /\ down \subseteq Downs /\ leftover \subseteq Downs /\ typed \subseteq Downs
    /\ screen \in Widths /\ pointer \in Nat
    /\ aim \in [x : Nat, stream : Nat \ {0}, desktop : Nat \ {0}] /\ measured \in Nat \ {0}
    /\ seen \in [Keys -> SUBSET (Codes \union {0})]
    /\ streams \in Nat /\ changes \in Nat

(* drd_x11_input_init *)
InputInit ==
    /\ running = FALSE /\ keycode_cache = NoCache /\ phase = "off"
    /\ stream_width = 0 /\ desktop_width = 0 /\ scale = <<1, 1>>
    /\ layout \in Layouts /\ table = layout
    /\ holds = {} /\ down = {} /\ screen \in Widths /\ pointer = 0 /\ aim = NoAim
    /\ leftover = {} /\ typed = {} /\ seen = [k \in Keys |-> {}]
    /\ measured = DefaultWidth
    /\ streams = 0 /\ changes = 0

(* What DisplayWidth says when the display is opened, or a default.        *)
ScreenWidth == IF screen = 0 THEN DefaultWidth ELSE screen
AtLeastOne(n) == IF n > 0 THEN n ELSE 1
(* drd_x11_input_refresh_pointer_scale *)
Scale(stream, desktop) ==
    IF AtLeastOne(stream) = AtLeastOne(desktop) THEN <<1, 1>>
    ELSE <<AtLeastOne(desktop), AtLeastOne(stream)>>

-----------------------------------------------------------------------------
(* drd_input_dispatcher_start at a session's activation, in two locked     *)
(* steps.  First drd_x11_input_start: it opens the display, unless it is   *)
(* already running.  A client that connects holds nothing.                 *)
Start ==
    /\ phase = "off" /\ ~running /\ streams < MaxStreams
    /\ phase' = "starting" /\ running' = TRUE /\ streams' = streams + 1
    /\ desktop_width' = ScreenWidth
    /\ stream_width' = IF stream_width = 0 THEN desktop_width' ELSE stream_width
    /\ scale' = Scale(stream_width', desktop_width')
    /\ table' = layout /\ seen' = [k \in Keys |-> {layout[k]}]
    /\ holds' = {} /\ typed' = {} /\ measured' = ScreenWidth
    /\ UNCHANGED <<keycode_cache, layout, down, screen, pointer, aim, leftover, changes>>
StartFails ==
    /\ phase = "off" /\ streams < MaxStreams /\ streams' = streams + 1
    /\ UNCHANGED <<injector, phase, holds, layout, down, screen, pointer, aim, history, changes>>

UpdateWithoutScale(width) ==
    /\ phase = "starting" /\ phase' = "on"
    /\ stream_width' = IF width > 0 THEN width ELSE stream_width
    /\ UNCHANGED <<running, keycode_cache, desktop_width, scale, table, holds, layout, down, screen,
                   pointer, aim, history, streams, changes>>
(* drd_x11_input_update_desktop_size, the second step of the start.        *)
UpdateDesktopSize(width) ==
    /\ phase = "starting" /\ phase' = "on"
    /\ stream_width' = IF width > 0 THEN width ELSE stream_width
    /\ scale' = Scale(stream_width', desktop_width)
    /\ UNCHANGED <<running, keycode_cache, desktop_width, table, holds, layout, down, screen,
                   pointer, aim, history, streams, changes>>

StopKeepsCache ==
    /\ running /\ running' = FALSE /\ scale' = <<1, 1>> /\ leftover' = down
    /\ UNCHANGED <<keycode_cache, stream_width, desktop_width, table, phase, holds, layout, down,
                   screen, pointer, aim, typed, seen, measured, streams, changes>>
(* drd_x11_input_stop.  Nothing is released (drd_input_dispatcher_flush    *)
(* does nothing): what is down stays down.                                 *)
Stop ==
    /\ running /\ running' = FALSE /\ keycode_cache' = NoCache /\ scale' = <<1, 1>>
    /\ leftover' = down
    /\ UNCHANGED <<stream_width, desktop_width, table, phase, holds, layout, down, screen, pointer,
                   aim, typed, seen, measured, streams, changes>>

(* The session's thread ends once its stream has been stopped.             *)
Leave ==
    /\ phase = "on" /\ ~running /\ phase' = "off"
    /\ UNCHANGED <<injector, holds, layout, down, screen, pointer, aim, history, streams, changes>>

-----------------------------------------------------------------------------
(* One event of the client, the press or the release of some things; it    *)
(* presses what it does not hold and releases what it does.                *)
Sends(things, press) ==
    /\ phase = "on"
    /\ \A thing \in things : press <=> thing \notin holds
    /\ holds' = IF press THEN holds \union things ELSE holds \ things

Inject(things, press) == down' = IF press THEN down \union things ELSE down \ things

(* drd_x11_input_resolve_keycode: modifiers by their symbol in the layout  *)
(* of the moment, the others from FreeRDP's table; remembered either way.  *)
ResolveAfresh(key) == IF key \in Modifiers THEN layout[key] ELSE table[key]
ResolveKeycode(key) ==
    IF keycode_cache[key] # Invalid THEN keycode_cache[key] ELSE ResolveAfresh(key)

(* drd_rdp_peer_keyboard_event and drd_x11_input_inject_keyboard           *)
Keyboard(key, press) ==
    /\ Sends({key}, press)
    /\ IF ~running THEN UNCHANGED <<keycode_cache, down>>
       ELSE LET code == ResolveKeycode(key)
            IN /\ keycode_cache' = [keycode_cache EXCEPT ![key] = code]
               /\ IF code = 0 THEN UNCHANGED down ELSE Inject({Key(code)}, press)
    /\ UNCHANGED <<running, stream_width, desktop_width, scale, table, phase, layout, screen,
                   pointer, aim, history, streams, changes>>

(* drd_rdp_peer_unicode_event and drd_x11_input_inject_unicode: the code   *)
(* is looked up at every event.                                            *)
Unicode(char, press) ==
    /\ Sends({char}, press)
    /\ LET code == layout[char]
       IN IF ~running \/ code = 0 THEN UNCHANGED <<down, typed>>
          ELSE Inject({Key(code)}, press) /\ typed' = typed \union {Key(code)}
    /\ UNCHANGED <<injector, phase, layout, screen, pointer, aim, leftover, seen, measured, streams,
                   changes>>

(* The X button of a flag: drd_x11_input_inject_pointer's button_map.      *)
ButtonId(flag) == CASE flag = 1 -> 1 [] flag = 2 -> 3 [] flag = 3 -> 2

(* Where an event at stream position x lands on the desktop, rounded.      *)
Target(x) ==
    LET stream == AtLeastOne(stream_width)
        desktop == AtLeastOne(desktop_width)
        clamped == IF x > stream - 1 THEN stream - 1 ELSE x
        scaled == (2 * clamped * scale[1] + scale[2]) \div (2 * scale[2])
    IN IF stream = desktop THEN clamped
       ELSE IF scaled >= desktop THEN desktop - 1 ELSE scaled

(* drd_rdp_peer_pointer_event and drd_x11_input_inject_pointer: a motion   *)
(* or not, and buttons that go down or up together; a wheel's press and    *)
(* release leave nothing behind.                                           *)
Pointer(x, move, flags, press) ==
    /\ Sends({Button(f) : f \in flags}, press)
    /\ IF running THEN Inject({Button(ButtonId(f)) : f \in flags}, press) ELSE UNCHANGED down
    /\ IF running /\ move
       THEN /\ pointer' = Target(x)
            /\ aim' = [x |-> x, stream |-> AtLeastOne(stream_width), desktop |-> measured]
       ELSE UNCHANGED <<pointer, aim>>
    /\ UNCHANGED <<injector, phase, layout, screen, history, streams, changes>>

-----------------------------------------------------------------------------
(* External: the user's layout changes and the screen is resized, also     *)
(* while a stream runs.                                                    *)
ChangeLayout ==
    /\ changes < MaxLayouts /\ changes' = changes + 1
    /\ layout' \in Layouts
    /\ seen' = [k \in Keys |-> seen[k] \union {layout'[k]}]
    /\ UNCHANGED <<injector, phase, holds, down, screen, pointer, aim, leftover, typed, measured,
                   streams>>
ResizeScreen ==
    /\ changes < MaxLayouts /\ changes' = changes + 1
    /\ screen' \in Widths
    /\ UNCHANGED <<injector, phase, holds, layout, down, pointer, aim, history, streams>>

InputNext ==
    \/ Start \/ StartFails \/ (\E width \in Widths : UpdateDesktopSize(width)) \/ Stop \/ Leave
    \/ \E press \in BOOLEAN :
          \/ \E key \in Keys : Keyboard(key, press)
          \/ \E char \in Chars : Unicode(char, press)
          \/ \E flags \in SUBSET Buttons : Pointer(0, FALSE, flags, press)
          \/ \E flags \in SUBSET Buttons, width \in Widths :
                \E x \in 0 .. width : Pointer(x, TRUE, flags, press)
    \/ ChangeLayout \/ ResizeScreen

InputSpec == InputInit /\ [][InputNext]_inputVars

-----------------------------------------------------------------------------
(* A key or button the client has let go is up again, even when the layout *)
(* has changed between the two events: while a stream runs, all that is    *)
(* down is what the client holds (under the code its press was injected    *)
(* with), what an earlier stream left behind, or a character's key.        *)
NoStuckInput ==
    running => \A thing \in down :
        \/ thing \in leftover \union typed
        \/ \E k \in Keys \intersect holds : thing = Key(keycode_cache[k])
        \/ \E b \in Buttons : Button(b) \in holds /\ thing = Button(ButtonId(b))

(* A remembered code is one the key has had while this display was open,   *)
(* never one from an earlier stream's layout.                              *)
FreshKeycodes ==
    running => \A k \in Keys : keycode_cache[k] # Invalid => keycode_cache[k] \in seen[k]

(* The scale in use is that of the stream and of the desktop as it was     *)
(* when the display was opened, whatever order starts, stops, resizes and  *)
(* size updates came in.  With equal widths the pointer is put on the very *)
(* pixel that the client points at: the capture takes the screen unscaled, *)
(* from its left edge, also after a resize.  With others the stream is     *)
(* stretched over the desktop, to the nearest pixel (the last one, at the  *)
(* right edge).                                                            *)
PointerFaithful ==
    LET x == IF aim.x >= aim.stream THEN aim.stream - 1 ELSE aim.x
        error == pointer * aim.stream - x * aim.desktop
    IN /\ aim.stream = aim.desktop => pointer = x
       /\ pointer < aim.desktop
       /\ 2 * error <= aim.stream
       /\ -2 * error <= aim.stream \/ pointer = aim.desktop - 1
=============================================================================
