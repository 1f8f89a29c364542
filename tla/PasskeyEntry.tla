---------------------------- MODULE PasskeyEntry ----------------------------
(***************************************************************************)
(* The passkey accumulator of src/firmware/src/passkey.rs as functions on  *)
(* an entry.  The six-digit number is kept as the sequence of its digits,  *)
(* and a digit as the key it is printed on; the deadline as the time left. *)
(***************************************************************************)
EXTENDS Integers, Sequences, FiniteSets

CONSTANTS
    DigitKey,        \* DIGIT_KEYS: the keys with a digit on them
    CLEAR_KEY,       \* Enter
    CANCEL_KEY,      \* `+`
    PASSKEY_DIGITS,  \* 6 in the firmware
    ENTRY_TIMEOUT    \* in time units: 30 s

ASSUME KeyAssumption ==
    /\ CLEAR_KEY \notin DigitKey
    /\ CANCEL_KEY \notin DigitKey
    /\ CLEAR_KEY # CANCEL_KEY
ASSUME LimitAssumption ==
    /\ PASSKEY_DIGITS \in Nat \ {0}
    /\ ENTRY_TIMEOUT \in Nat \ {0}

Key == DigitKey \cup {CLEAR_KEY, CANCEL_KEY}

\* Outcomes that drive_passkey acts on; a timeout is treated like a cancel.
Outcome == {"none", "commit", "cancel"}

Entry == [active : BOOLEAN, code : Seq(DigitKey), prev : SUBSET Key,
          left : 0 .. ENTRY_TIMEOUT, outcome : Outcome]

NewEntry ==
    [active |-> FALSE, code |-> <<>>, prev |-> {}, left |-> 0, outcome |-> "none"]

Begin(pressed) ==
    [NewEntry EXCEPT !.active = TRUE, !.prev = pressed, !.left = ENTRY_TIMEOUT]

Ends(entry, outcome) == [entry EXCEPT !.active = FALSE, !.outcome = outcome]

\* Mutant of Takes: one digit too many is asked for.
TakesOneMore(entry, digit) ==
    LET longer == [entry EXCEPT !.code = Append(@, digit)]
    IN  IF Len(longer.code) > PASSKEY_DIGITS THEN Ends(longer, "commit") ELSE longer

\* Another digit; the last one commits the code.
Takes(entry, digit) ==
    LET longer == [entry EXCEPT !.code = Append(@, digit)]
    IN  IF Len(longer.code) >= PASSKEY_DIGITS THEN Ends(longer, "commit") ELSE longer

\* Mutant of Step: the deadline passes unnoticed.
StepWithoutDeadline(entry, pressed) ==
    LET fresh  == pressed \ entry.prev
        digits == fresh \cap DigitKey
    IN  IF CANCEL_KEY \in fresh THEN Ends(entry, "cancel")
        ELSE IF CLEAR_KEY \in fresh THEN [entry EXCEPT !.code = <<>>]
        ELSE IF Cardinality(digits) = 1 THEN Takes(entry, CHOOSE d \in digits : TRUE)
        ELSE entry

\* What a poll does to an active entry: the deadline comes before any key, `+` before
\* Enter, Enter before digits, and two digits at once are none.
Step(entry, pressed) ==
    LET fresh  == pressed \ entry.prev
        digits == fresh \cap DigitKey
    IN  IF entry.left = 0 \/ CANCEL_KEY \in fresh THEN Ends(entry, "cancel")
        ELSE IF CLEAR_KEY \in fresh THEN [entry EXCEPT !.code = <<>>]
        ELSE IF Cardinality(digits) = 1 THEN Takes(entry, CHOOSE d \in digits : TRUE)
        ELSE entry

\* Mutant of Update: a poll that takes no digit does not remember its keys.
UpdateForgetsChord(entry, pressed) ==
    LET next == Step(entry, pressed)
    IN  IF next = entry THEN entry ELSE [next EXCEPT !.prev = pressed]

Update(entry, pressed) ==
    IF entry.active THEN [Step(entry, pressed) EXCEPT !.prev = pressed] ELSE entry

Ages(entry) == [entry EXCEPT !.left = @ - 1]
=============================================================================
