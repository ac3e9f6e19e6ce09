----------------------------- MODULE MCInterface -----------------------------
(***************************************************************************)
(* Two windows that overlap, of which one may be opened in the slot of the *)
(* other, and the two shift keys.                                          *)
(***************************************************************************)
EXTENDS Interface

MCCovers == [i \in Ids |-> IF i = "button" THEN {"inner"} ELSE {"inner", "outer"}]
MCKeyOf == [k \in Keys |-> "shift_l"]
=============================================================================
