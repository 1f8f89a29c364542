----------------------------- MODULE MCKeyStuck -----------------------------
(* KeyDelivery for TLC's liveness runs: in a behaviour one key is pressed over and  *)
(* over, `+` or an ordinary key, and no histories are kept.                         *)
EXTENDS MCKeyDelivery

VARIABLE finger  \* the key this behaviour is about

OneKeyInit ==
    /\ finger \in Key
    /\ Init
    /\ pressed \subseteq {finger}

OneKeyNext ==
    /\ Next
    /\ pressed' \subseteq {finger}
    /\ UNCHANGED finger

OneKeySpec == OneKeyInit /\ [][OneKeyNext]_<<vars, finger>> /\ Fairness
==============================================================================
