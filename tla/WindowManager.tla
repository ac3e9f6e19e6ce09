----------------------------- MODULE WindowManager -----------------------------
(***************************************************************************)
(* ui::window_manager: the windows an addon shows anew in every frame, the *)
(* slots they are kept in, and which of them is hot and which is active.   *)
(*                                                                         *)
(* A slot is what the C++ points to.  A window that was not shown in a     *)
(* frame gives its slot back, and another window may have it next; the     *)
(* pointers to the active window and to its focused widget stay.           *)
(*                                                                         *)
(* All windows lie in one layer and at one depth, none has a parent, and   *)
(* layout mode is off: the order of a layer is the order of activation.    *)
(***************************************************************************)
EXTENDS Naturals, FiniteSets, SequencesExt, Positions

CONSTANTS
    Ids,        \* windows, by the address of their state
    Points,     \* where the mouse may be
    Covers      \* the points a window covers

NoId == "no_id"

ASSUME WindowAssumption ==
    /\ IsFiniteSet(Ids) /\ NoId \notin Ids
    /\ Covers \in [Ids -> SUBSET Points]

VARIABLES
    windows,    \* m_windows
    front,      \* m_z_order of the layer, the window in front first
    free,       \* m_free_list
    active,     \* the slot of m_active_window, or 0
    hot         \* the slot of m_hot_window, or 0

windowVars == <<windows, front, free, active, hot>>

Window == [id : Ids \cup {NoId}, shown : BOOLEAN, interactable : BOOLEAN]
Slots == 1 .. Cardinality(Ids)

WindowTypeOK ==
    /\ windows \in Seq(Window) /\ Len(windows) <= Cardinality(Ids)
    /\ front \in Seq(Slots) /\ free \in Seq(Slots)
    /\ active \in Slots \cup {0} /\ hot \in Slots \cup {0}

WindowInit ==
    /\ windows = <<>> /\ front = <<>> /\ free = <<>>
    /\ active = 0 /\ hot = 0

SlotsOf(i) == {s \in DOMAIN windows : windows[s].id = i}

-----------------------------------------------------------------------------
(* Which window the mouse is over, and which is active.                    *)

\* update_hot_window: the first in the order that the mouse is inside of.
HotAt(ws, order, at) ==
    LET under == {n \in DOMAIN order :
                      ws[order[n]].interactable /\ at \in Covers[ws[order[n]].id]}
        first == {n \in under : \A m \in under : n <= m}
    IN IF first = {} THEN 0 ELSE order[CHOOSE n \in first : TRUE]

\* The order with a slot of it in front, the others as they were.
Raised(order, s) ==
    LET p == CHOOSE p \in DOMAIN order : order[p] = s
    IN [k \in DOMAIN order |->
            IF k = 1 THEN s ELSE IF k <= p THEN order[k - 1] ELSE order[k]]

\* activate_window: the active slot and the order that follow.  Without a slot
\* of the order nothing is active.  A slot that is active already is not
\* brought forward.
Activated(ws, order, s) ==
    IF s \notin ToSet(order) THEN [active |-> 0, order |-> order]
    ELSE IF ~ws[s].interactable \/ active = s
    THEN [active |-> active, order |-> order]
    ELSE [active |-> s, order |-> Raised(order, s)]

-----------------------------------------------------------------------------
(* get: the slot of a window that is shown.                                *)

\* The window has a slot.
GetKnown(i, interactable) ==
    \E s \in SlotsOf(i) :
        /\ windows' = [windows EXCEPT ![s].shown = TRUE, ![s].interactable = interactable]
        /\ UNCHANGED <<front, free, active, hot>>

\* Mutant of GetNew: the window is not looked for first.
GetNewAlways(i, interactable) ==
    LET s == IF free = <<>> THEN Len(windows) + 1 ELSE Last(free)
        had == IF free = <<>> THEN TRUE ELSE windows[s].interactable
        opened(solid) == [id |-> i, shown |-> TRUE, interactable |-> solid]
        with(w) == IF free = <<>> THEN Append(windows, w) ELSE [windows EXCEPT ![s] = w]
        next == Activated(with(opened(had)), Append(front, s), s)
    IN
    /\ windows' = with(opened(interactable))
    /\ front' = next.order
    /\ free' = IF free = <<>> THEN free ELSE Front(free)
    /\ active' = next.active
    /\ UNCHANGED hot

\* It gets the slot freed last, or a new one, and is activated as the window
\* the slot had before could be interacted with.
GetNew(i, interactable) ==
    LET s == IF free = <<>> THEN Len(windows) + 1 ELSE Last(free)
        had == IF free = <<>> THEN TRUE ELSE windows[s].interactable
        opened(solid) == [id |-> i, shown |-> TRUE, interactable |-> solid]
        with(w) == IF free = <<>> THEN Append(windows, w) ELSE [windows EXCEPT ![s] = w]
        next == Activated(with(opened(had)), Append(front, s), s)
    IN
    /\ SlotsOf(i) = {}
    /\ windows' = with(opened(interactable))
    /\ front' = next.order
    /\ free' = IF free = <<>> THEN free ELSE Front(free)
    /\ active' = next.active
    /\ UNCHANGED hot

-----------------------------------------------------------------------------
(* update: the windows that were not shown since the last one are gone.    *)

Left == {s \in DOMAIN windows : windows[s].id # NoId /\ ~windows[s].shown}

\* The positions in the order of the slots that stay.
Staying == {n \in DOMAIN front : front[n] \notin Left}

\* The slots when their windows are gone.
Emptied ==
    [s \in DOMAIN windows |->
        [windows[s] EXCEPT !.id = IF s \in Left THEN NoId ELSE @, !.shown = FALSE]]

\* Mutant of Updated: the window the mouse is over is looked for first.
UpdatedHotFirst(order, at, pressed) ==
    LET over == HotAt(windows, front, at)
        next == IF pressed THEN Activated(Emptied, order, over)
                ELSE [active |-> active, order |-> order]
    IN front' = next.order /\ active' = next.active /\ hot' = over

\* A button pressed since the last frame activates the window under the mouse,
\* and none when there is none.  The active window is not looked at.
Updated(order, at, pressed) ==
    LET over == HotAt(Emptied, order, at)
        next == IF pressed THEN Activated(Emptied, order, over)
                ELSE [active |-> active, order |-> order]
    IN front' = next.order /\ active' = next.active /\ hot' = over

Update(at, pressed) ==
    /\ windows' = Emptied
    /\ \E up \in Upwards(Left) : free' = free \o up
    /\ \E up \in Upwards(Staying) : Updated(Picked(front, up), at, pressed)

\* Every slot is accounted for: it is in the order, once, when a window has it,
\* and in the free list, once, when none has.  No window has two.  The window
\* the mouse is over is one of the order, for hit_test looks at it all frame.
SlotsAccounted ==
    /\ IsInjective(front) /\ IsInjective(free)
    /\ ToSet(front) = {s \in DOMAIN windows : windows[s].id # NoId}
    /\ ToSet(free) = SlotsOf(NoId)
    /\ \A i \in Ids : Cardinality(SlotsOf(i)) <= 1
    /\ hot # 0 => hot \in ToSet(front)
=============================================================================
