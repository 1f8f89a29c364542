--------------------------- MODULE MCKeyDelivery ---------------------------
(* KeyDelivery for TLC: `+` and one slot key, which is an ordinary key as well. *)
EXTENDS KeyDelivery

CONSTANTS plus, one

Keys     == {plus, one}
SlotKeys == [s \in {0} |-> one]
JustOne  == {one}
Nothing  == {}
============================================================================
