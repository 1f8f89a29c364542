----------------------------- MODULE MCWebEditor -----------------------------
(* WebEditor with two values of each field, on a pad that was never set up *)
(* or was by firmware of any version; and the reports a layout gives.      *)
EXTENDS WebEditor, HidReports

MCFound ==
    {Blank} \cup
    {[magic |-> TRUE, version |-> v, sum |-> TRUE,
      keymap |-> k, mask |-> m, colors |-> c] :
        v \in 1 .. VERSION, k \in Keymap,
        m \in Mask \ {NO_MASK}, c \in Colors \ {DEFAULT_SLOT_COLORS}}

\* One of a first version, one that is no record at all.
MCProfiles ==
    {[magic |-> version = 1, version |-> version, sum |-> TRUE,
      keymap |-> DEFAULT_KEYMAP, mask |-> mask, colors |-> DEFAULT_SLOT_COLORS] :
        version \in {1, VERSION}, mask \in Mask \ {NO_MASK}}

(* Whatever layout the pad runs once it has started: a usage is reported    *)
(* once as long as any of its keys is down (README, "duplicate mappings     *)
(* share one entry until all physical keys mapped to that usage are         *)
(* released"), disabled keys and duplicates use up no slot, the slots go to *)
(* the lowest keys, and a key of the consumer page, whose codes coincide    *)
(* with modifiers, never shows up in the keyboard report or the other way   *)
(* round.                                                                   *)
ReportsExact ==
    /\ Started => KeyboardReportsExact
    /\ Started => ConsumerReportsExact
==============================================================================
