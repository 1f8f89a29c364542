----------------------------- MODULE MCPadLoop -----------------------------
(* PadLoop for TLC: `+` and one slot key, which is an ordinary key as well. *)
EXTENDS PadLoop

CONSTANTS plus, one

Keys     == {plus, one}
SlotKeys == [s \in {0} |-> one]
============================================================================
