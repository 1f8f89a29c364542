---------------------------- MODULE ConfigRecord ----------------------------
(***************************************************************************)
(* The configuration of src/firmware/src/config.rs and its 32-byte record. *)
(* `keymap` stands for the fields of every version (keymap, brightness,    *)
(* LED mode), `mask` for what version 2 added and `colors` for what        *)
(* version 3 added; where a record is older than a field it holds some     *)
(* value there that means nothing.                                         *)
(***************************************************************************)
EXTENDS Integers

CONSTANTS
    Keymap, DEFAULT_KEYMAP,
    Mask, NO_MASK,            \* NO_MASK: no key on the consumer page
    Colors, DEFAULT_SLOT_COLORS,
    None

Config == [keymap : Keymap, mask : Mask, colors : Colors]

ASSUME DefaultAssumption ==
    /\ DEFAULT_KEYMAP \in Keymap
    /\ NO_MASK \in Mask
    /\ DEFAULT_SLOT_COLORS \in Colors
    /\ None \notin Config

Default == [keymap |-> DEFAULT_KEYMAP, mask |-> NO_MASK, colors |-> DEFAULT_SLOT_COLORS]

VERSION          == 3
VERSION_LEGACY   == 1
VERSION_CONSUMER == 2

\* Version VERSION + 1 stands for all versions to come.
Record == [magic : BOOLEAN, version : 0 .. VERSION + 1, sum : BOOLEAN,
           keymap : Keymap, mask : Mask, colors : Colors]

Fields(r) == [keymap |-> r.keymap, mask |-> r.mask, colors |-> r.colors]

ToBytes(config) ==
    [magic |-> TRUE, version |-> VERSION, sum |-> TRUE,
     keymap |-> config.keymap, mask |-> config.mask, colors |-> config.colors]

\* Fields that a record of this version does not have.
Upgrade(r) ==
    [r EXCEPT !.mask   = IF r.version >= VERSION_CONSUMER THEN @ ELSE NO_MASK,
              !.colors = IF r.version >= VERSION THEN @ ELSE DEFAULT_SLOT_COLORS]

FromBytes(r) ==
    IF r.magic /\ r.sum /\ r.version \in VERSION_LEGACY .. VERSION
    THEN Fields(Upgrade(r))
    ELSE None
=============================================================================
