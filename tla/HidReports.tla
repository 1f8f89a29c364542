----------------------------- MODULE HidReports -----------------------------
(***************************************************************************)
(* build_reports of src/firmware/src/hid.rs: the keyboard and the consumer *)
(* report for a set of pressed keys, key by key in the order of their bits *)
(* as the code does it, and what the reports are to contain.  `usage` maps *)
(* keys 1 .. n to HID usages, `consumer` is the set of keys on the         *)
(* consumer page.                                                          *)
(***************************************************************************)
EXTENDS Integers, Sequences, SequencesExt

CONSTANTS
    Plain,          \* usages of ordinary keys
    Modifier,       \* 0xE0 .. 0xE7
    CONSUMER_KEYS,  \* usages the consumer report has a bit for
    NO_USAGE,       \* 0: a key that is disabled
    KEYS,           \* bound: keys on the pad, 16 in the code
    ROOM            \* bound: slots of the keyboard report, 6 in the code

ASSUME UsageAssumption ==
    /\ NO_USAGE \notin Plain \cup Modifier
    /\ Plain \cap Modifier = {}
    /\ KEYS \in Nat /\ ROOM \in Nat

Usage == Plain \cup Modifier \cup CONSUMER_KEYS \cup {NO_USAGE}

Released == [modifiers |-> {}, slots |-> <<>>, consumer |-> {}]

\* Mutant of WithKey: a usage takes a slot for each of its keys.
WithKeyRepeated(report, u, onConsumer, room) ==
    IF onConsumer
    THEN [report EXCEPT !.consumer = @ \cup ({u} \cap CONSUMER_KEYS)]
    ELSE IF u \in Modifier
    THEN [report EXCEPT !.modifiers = @ \cup {u}]
    ELSE IF u # NO_USAGE /\ Len(report.slots) < room
    THEN [report EXCEPT !.slots = Append(@, u)]
    ELSE report

\* One more pressed key in a report with `room` slots.
WithKey(report, u, onConsumer, room) ==
    IF onConsumer
    THEN [report EXCEPT !.consumer = @ \cup ({u} \cap CONSUMER_KEYS)]
    ELSE IF u \in Modifier
    THEN [report EXCEPT !.modifiers = @ \cup {u}]
    ELSE IF u # NO_USAGE /\ u \notin ToSet(report.slots) /\ Len(report.slots) < room
    THEN [report EXCEPT !.slots = Append(@, u)]
    ELSE report

\* The reports once keys 1 .. n were looked at.
build_reports(pressed, usage, consumer, room) ==
    LET after[n \in 0 .. KEYS] ==
            IF n = 0 THEN Released
            ELSE IF n \in pressed
            THEN WithKey(after[n - 1], usage[n], n \in consumer, room)
            ELSE after[n - 1]
    IN  after[KEYS]

------------------------------------------------------------------------------
(* What the reports are to contain *)

Usages(keys, usage) == {usage[bit] : bit \in keys}

\* The usages of ordinary keys, and the lowest pressed key that has one.
Ordinary(keys, usage) == Usages(keys, usage) \ (Modifier \cup {NO_USAGE})
First(u, keys, usage) == CHOOSE bit \in keys :
    usage[bit] = u /\ \A other \in keys : usage[other] = u => bit <= other

\* Those whose lowest keys come first, as many as there is room for.
Fitting(keys, usage, room) ==
    {u \in Ordinary(keys, usage) :
        Cardinality({v \in Ordinary(keys, usage) :
            First(v, keys, usage) < First(u, keys, usage)}) < room}

KeyboardExact(report, keys, usage, room) ==
    /\ report.modifiers = Usages(keys, usage) \cap Modifier
    /\ IsInjective(report.slots)
    /\ ToSet(report.slots) = Fitting(keys, usage, room)

ConsumerExact(report, keys, usage) ==
    report.consumer = Usages(keys, usage) \cap CONSUMER_KEYS

Layouts == [1 .. KEYS -> Usage]
Masks   == SUBSET (1 .. KEYS)

KeyboardReportsExact ==
    \A usage \in Layouts, consumer, pressed \in Masks, room \in 1 .. ROOM :
        KeyboardExact(build_reports(pressed, usage, consumer, room),
                      pressed \ consumer, usage, room)

ConsumerReportsExact ==
    \A usage \in Layouts, consumer, pressed \in Masks :
        ConsumerExact(build_reports(pressed, usage, consumer, ROOM),
                      pressed \cap consumer, usage)
=============================================================================
