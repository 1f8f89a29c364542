------------------------------ MODULE HostSlots ------------------------------
(***************************************************************************)
(* The host-slot record of src/firmware/src/host_slots.rs: which slot is   *)
(* active and which pairing credential ("bond") each slot holds.  Shared   *)
(* by the abstract registry and by the detailed flash store.               *)
(*                                                                         *)
(* A bond is abstracted to what the firmware compares: the peer identity   *)
(* it was made with and the security level it was earned at.               *)
(***************************************************************************)
EXTENDS Integers

CONSTANTS
    SLOT_COUNT,  \* number of host slots (3 in the firmware)
    Peer,        \* the hosts that may connect
    None,        \* an empty slot, no session, nothing loaded
    Absent,      \* the journal holds no record yet
    Unreadable   \* stored bytes that cannot be read back or are not valid

Level == {"weak", "strong"}   \* below, and at or above, MIN_SECURITY
Bond  == [peer : Peer, level : Level]
Slot  == 0 .. SLOT_COUNT - 1
Hosts == [active : Slot, bonds : [Slot -> Bond \cup {None}]]

ASSUME SlotAssumption == SLOT_COUNT \in Nat \ {0}
ASSUME MarkerAssumption ==
    /\ None \notin Bond \cup Hosts
    /\ Unreadable \notin Bond \cup Hosts \cup {None, Absent}
    /\ Absent \notin Hosts

Action == [kind : {"select", "clear"}, slot : Slot]

FromLegacy(bond) ==
    [active |-> 0, bonds |-> [s \in Slot |-> IF s = 0 THEN bond ELSE None]]

\* Mutant of Apply: the slot number shown to the user, counted from one, is stored.
ApplyShownNumber(hosts, action) ==
    [active |-> action.slot + 1,
     bonds  |-> IF action.kind = "clear"
                THEN [hosts.bonds EXCEPT ![action.slot] = None]
                ELSE hosts.bonds]

Apply(hosts, action) ==
    [active |-> action.slot,
     bonds  |-> IF action.kind = "clear"
                THEN [hosts.bonds EXCEPT ![action.slot] = None]
                ELSE hosts.bonds]

ActiveBond(hosts) == hosts.bonds[hosts.active]

WithActiveBond(hosts, bond) ==
    [hosts EXCEPT !.bonds = [@ EXCEPT ![hosts.active] = bond]]
==============================================================================
