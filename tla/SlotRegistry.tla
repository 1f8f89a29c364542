---------------------------- MODULE SlotRegistry ----------------------------
(***************************************************************************)
(* What the host-slot storage promises, with no flash, no journal and no   *)
(* RAM copy: one registry that changes atomically, and only in the ways a  *)
(* user or a completed pairing can ask for.  HostStore is shown to         *)
(* implement it across power loss, failed writes and interrupted resets,   *)
(* and BleSession, for one slot, across whatever a connection may do.      *)
(***************************************************************************)
EXTENDS HostSlots

VARIABLES
    registry,  \* the stored slots, or Unreadable after a storage fault
    up         \* the radio is serving the active slot

vars == <<registry, up>>

TypeOK ==
    /\ registry \in Hosts \cup {Unreadable}
    /\ up \in BOOLEAN

Init ==
    /\ \E b \in Bond \cup {None} : registry = FromLegacy(b)
    /\ up = FALSE

\* The radio only ever comes up on readable slots.
Start ==
    /\ ~up
    /\ registry # Unreadable
    /\ up' = TRUE
    /\ UNCHANGED registry

Stop ==
    /\ up
    /\ up' = FALSE
    /\ UNCHANGED registry

\* A menu gesture selects or clears a slot and restarts the radio on it.
Choose(action) ==
    /\ up
    /\ registry' = Apply(registry, action)
    /\ up' = FALSE

\* A pairing fills the active slot: never over another bond, never a weak one.
Bind(bond) ==
    /\ up
    /\ bond.level = "strong"
    /\ ActiveBond(registry) = None
    /\ registry' = WithActiveBond(registry, bond)
    /\ UNCHANGED up

\* The active slot's bond is lost by the peer or found too weak to keep.
Unbind ==
    /\ up
    /\ registry' = WithActiveBond(registry, None)
    /\ UNCHANGED up

\* The recovery gesture empties every slot, all at once.
Reset ==
    /\ ~up
    /\ registry' = FromLegacy(None)
    /\ UNCHANGED up

Fault ==
    /\ ~up
    /\ registry' = Unreadable
    /\ UNCHANGED up

Next ==
    \/ Start
    \/ Stop
    \/ \E a \in Action : Choose(a)
    \/ \E b \in Bond : Bind(b)
    \/ Unbind
    \/ Reset
    \/ Fault

Spec == Init /\ [][Next]_vars
==============================================================================
