------------------------------- MODULE Interface -------------------------------
(***************************************************************************)
(* The messages of the game's window, from core::process_message to the    *)
(* interface's windows and widgets, to the bindings, and to the game, with *)
(* the frames in which addons show their windows.                          *)
(*                                                                         *)
(* A window holds one widget that fills it: a button, which holds the      *)
(* mouse from a press to its release, or an edit, which takes the focus of *)
(* its window.  One button of the mouse stands for all five.  What         *)
(* SetCapture asks of Windows is left out: a message about the mouse       *)
(* always arrives.  There is no binding, as no bind string can be parsed   *)
(* (binding_manager.cpp:248), so key_state always ends at its last lines.  *)
(***************************************************************************)
EXTENDS WindowManager

CONSTANTS
    Buttons,    \* the windows with a button; the others have an edit
    Keys,       \* keys of the keyboard
    KeyOf       \* the key key_state takes a key for

MouseButton == "mouse"

ASSUME InputAssumption ==
    /\ Buttons \subseteq Ids
    /\ KeyOf \in [Keys -> Keys] /\ MouseButton \notin Keys

VARIABLES
    focus,      \* of each slot: the edit whose focus state and handler it has
    holder,     \* m_active_id
    holderUsed, \* m_active_id_used
    point,      \* where the mouse is
    mouse,      \* the bits of m_buttons
    phase,      \* whether messages come or windows are drawn
    client,     \* m_system_device_client
    told,       \* the game has been told that the mouse's button is pressed
    pressed,    \* what is pressed
    taken       \* what the interface took the release of, since it was pressed

contextVars == <<focus, holder, holderUsed, phase>>
gameVars == <<client, told>>
vars == <<windowVars, focus, holder, holderUsed, point, mouse, phase, client, told,
          pressed, taken>>

Inputs == Keys \cup {MouseButton}

TypeOK ==
    /\ WindowTypeOK
    /\ focus \in [Slots -> Ids \cup {NoId}]
    /\ holder \in Buttons \cup {NoId} /\ holderUsed \in BOOLEAN
    /\ point \in Points
    /\ mouse \in [pressed : BOOLEAN, released : BOOLEAN, held : BOOLEAN]
    /\ phase \in {"messages", "drawing"}
    /\ client \in [Keys -> BOOLEAN] /\ told \in BOOLEAN
    /\ pressed \subseteq Inputs /\ taken \subseteq Inputs

Init ==
    /\ WindowInit
    /\ focus = [s \in Slots |-> NoId]
    /\ holder = NoId /\ holderUsed = FALSE
    /\ point \in Points
    /\ mouse = [pressed |-> FALSE, released |-> FALSE, held |-> FALSE]
    /\ phase = "messages"
    /\ client = [k \in Keys |-> FALSE] /\ told = FALSE
    /\ pressed = {} /\ taken = {}

-----------------------------------------------------------------------------
(* Messages about the mouse.                                               *)

\* context::process_message keeps a message from the game when the mouse is over
\* a window, when a widget holds it, and for a release when a window is active.
Swallowed(over, release) ==
    over # 0 \/ holder # NoId \/ (release /\ active # 0)

MouseMove ==
    /\ phase = "messages"
    /\ \E p \in Points :
        /\ point' = p
        /\ hot' = HotAt(windows, front, p)
    /\ UNCHANGED <<windows, front, free, active, contextVars, mouse, gameVars, pressed, taken>>

\* WM_LBUTTONDOWN.  The message of a second click, which presses nothing, is left out.
MousePress ==
    /\ phase = "messages" /\ MouseButton \notin pressed
    /\ mouse' = [mouse EXCEPT !.pressed = TRUE, !.held = TRUE]
    /\ hot' = HotAt(windows, front, point)
    /\ told' = IF Swallowed(hot', FALSE) THEN told ELSE TRUE
    /\ pressed' = pressed \cup {MouseButton}
    /\ taken' = taken \ {MouseButton}
    /\ UNCHANGED <<windows, front, free, active, contextVars, point, client>>

MouseRelease ==
    /\ phase = "messages" /\ MouseButton \in pressed
    /\ mouse' = [mouse EXCEPT !.released = TRUE, !.held = FALSE]
    /\ hot' = HotAt(windows, front, point)
    /\ pressed' = pressed \ {MouseButton}
    /\ IF Swallowed(hot', TRUE)
       THEN taken' = taken \cup {MouseButton} /\ UNCHANGED told
       ELSE told' = FALSE /\ UNCHANGED taken
    /\ UNCHANGED <<windows, front, free, active, contextVars, point, client>>

-----------------------------------------------------------------------------
(* Messages about keys.                                                    *)

\* window_manager::process_message: the handler of an edit keeps them, but for
\* those of system keys, which are left out.
EditListens == active # 0 /\ focus[active] # NoId

\* binding_manager::key_state, without bindings.
KeyDown(k) ==
    /\ phase = "messages"
    /\ pressed' = pressed \cup {k}
    /\ IF EditListens THEN UNCHANGED <<client, taken>>
       ELSE /\ client' = [client EXCEPT ![KeyOf[k]] = TRUE]
            /\ taken' = taken \ {KeyOf[k]}
    /\ UNCHANGED <<windowVars, contextVars, point, mouse, told>>

KeyUp(k) ==
    /\ phase = "messages" /\ k \in pressed
    /\ pressed' = pressed \ {k}
    /\ IF EditListens THEN taken' = taken \cup {KeyOf[k]} /\ UNCHANGED client
       ELSE /\ client' = [client EXCEPT ![KeyOf[k]] = FALSE]
            /\ UNCHANGED taken
    /\ UNCHANGED <<windowVars, contextVars, point, mouse, told>>

\* Mutant of KillFocus: an edit keeps this message too.
KillFocusKept ==
    /\ phase = "messages"
    /\ pressed' = pressed \ Keys
    /\ IF EditListens THEN UNCHANGED <<client, taken>>
       ELSE /\ client' = [k \in Keys |-> FALSE]
            /\ taken' = taken \ Keys
    /\ UNCHANGED <<windowVars, contextVars, point, mouse, told>>

\* WM_KILLFOCUS: lost_focus.  Other windows hear of the keys from here on.
KillFocus ==
    /\ phase = "messages"
    /\ pressed' = pressed \ Keys
    /\ client' = [k \in Keys |-> FALSE]
    /\ taken' = taken \ Keys
    /\ UNCHANGED <<windowVars, contextVars, point, mouse, told>>

-----------------------------------------------------------------------------
(* A frame: the addons show their windows.                                 *)

\* Mutant of BeginFrame: what holds the mouse keeps it.
BeginFrameKeepsHolder ==
    /\ phase = "messages"
    /\ phase' = "drawing"
    /\ Update(point, mouse.pressed)
    /\ holderUsed' = FALSE
    /\ UNCHANGED <<focus, holder, point, mouse, gameVars, pressed, taken>>

\* A widget that holds the mouse and was not drawn in the last frame lets go.
BeginFrame ==
    /\ phase = "messages"
    /\ phase' = "drawing"
    /\ Update(point, mouse.pressed)
    /\ holder' = IF holderUsed THEN holder ELSE NoId
    /\ holderUsed' = FALSE
    /\ UNCHANGED <<focus, point, mouse, gameVars, pressed, taken>>

\* hit_test, for the widget of a window.
Hit(s, widget) == holder \in {widget, NoId} /\ hot = s /\ point \in Covers[widget]

\* basic_button: use_id, activate and deactivate.
Button(s, i, enabled) ==
    LET held == holder = i \/ (holder = NoId /\ Hit(s, i) /\ mouse.pressed) IN
    /\ holderUsed' = (holderUsed \/ holder = i \/ (enabled /\ held))
    /\ holder' = IF enabled /\ held /\ ~mouse.released THEN i
                 ELSE IF holder = i \/ (enabled /\ held) THEN NoId ELSE holder
    /\ UNCHANGED focus

\* basic_edit: focus, and blur for one that is disabled.
Edit(s, i, enabled) ==
    /\ focus' = [focus EXCEPT ![s] =
                    IF enabled THEN IF mouse.pressed /\ Hit(s, i) THEN i ELSE @
                    ELSE IF @ = i THEN NoId ELSE @]
    /\ UNCHANGED <<holder, holderUsed>>

\* A window is shown, once a frame; of a hidden one nothing is drawn.  No window
\* lets clicks through, which is what else makes one not interactable.
Draw(i) ==
    /\ phase = "drawing"
    /\ \A s \in SlotsOf(i) : ~windows[s].shown
    /\ \E hidden, enabled \in BOOLEAN :
        /\ GetKnown(i, ~hidden) \/ GetNew(i, ~hidden)
        /\ IF hidden THEN UNCHANGED <<focus, holder, holderUsed>>
           ELSE \E s \in DOMAIN windows' :
                   /\ windows'[s].id = i
                   /\ IF i \in Buttons THEN Button(s, i, enabled) ELSE Edit(s, i, enabled)
    /\ UNCHANGED <<phase, point, mouse, gameVars, pressed, taken>>

\* mouse::update.
EndFrame ==
    /\ phase = "drawing"
    /\ phase' = "messages"
    /\ mouse' = [mouse EXCEPT !.pressed = FALSE, !.released = FALSE]
    /\ UNCHANGED <<windowVars, focus, holder, holderUsed, point, gameVars, pressed, taken>>

-----------------------------------------------------------------------------
Next ==
    \/ MouseMove
    \/ MousePress
    \/ MouseRelease
    \/ \E k \in Keys : KeyDown(k)
    \/ \E k \in Keys : KeyUp(k)
    \/ KillFocus
    \/ BeginFrame
    \/ \E i \in Ids : Draw(i)
    \/ EndFrame

Spec == Init /\ [][Next]_vars

-----------------------------------------------------------------------------
(* Properties.                                                             *)

\* What the game takes for pressed is pressed, but for what the interface took
\* the release of: no order of messages, frames and windows that come and go
\* leaves a key down otherwise (direct_input_keyboard::GetDeviceState).
GameInputReal ==
    /\ \A k \in Keys :
          client[k] => k \in taken \/ \E j \in pressed \cap Keys : KeyOf[j] = k
    /\ told => MouseButton \in pressed \cup taken

\* A frame begins with a widget that holds the mouse only if it was drawn in the
\* frame before and its button is held, or was released since: no widget that is
\* closed, hidden or disabled, or that missed a release, keeps the mouse from the
\* others, which hit_test refuses as long as it holds.
HolderShown ==
    [][phase = "messages" /\ phase' = "drawing" /\ holder' # NoId =>
           /\ \E s \in SlotsOf(holder') : windows[s].shown /\ windows[s].interactable
           /\ mouse.held \/ mouse.released]_vars
=============================================================================
