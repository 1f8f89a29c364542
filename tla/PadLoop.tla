------------------------------- MODULE PadLoop -------------------------------
(***************************************************************************)
(* The input loop in time: the debouncer (debounce.rs), the keypad's       *)
(* interrupt and how long the loop sleeps (keypad.rs, KeypadUi in ble.rs), *)
(* the gesture controls, and the two loops that poll them: app_loop while  *)
(* advertising, which cancels polls, and connection_task, which handles    *)
(* events between them.                                                    *)
(*                                                                         *)
(* Times are durations since an event and are counted up to the point      *)
(* where nothing tells them apart any more.  Passkey entry, which takes    *)
(* the polls away from the controls, is left out, and so is the LED idle   *)
(* deadline, which only shortens a sleep.                                  *)
(***************************************************************************)
EXTENDS Controls, FiniteSetsExt

CONSTANTS
    DEBOUNCE,
    SAFETY_POLL,
    Happens,     \* what may happen to the pad: see Move, ReadFails and Accept
    MaxLag,      \* bound: how late a poll may be once it is due
    MaxStill     \* bound: how far `still` counts

ASSUME TimeAssumption ==
    /\ DEBOUNCE \in Nat \ {0}
    /\ SAFETY_POLL \in Nat \ {0}
    /\ MaxLag \in Nat
    /\ MaxStill \in Nat \ {0}

VARIABLES
    raw,        \* the keys that are down
    seen,       \* the keys the expander's input registers were last read with
    initialised,\* Debouncer: it has had a sample,
    stable,     \* the debounced keys,
    candidate,  \* the keys at the last sample,
    settling,   \* and since when each key's candidate has held
    control,    \* Controls' state,
    age,        \* and the time spent in it
    found,      \* the action of the poll being finished, or None
    at,         \* the loop: about to poll, reading (the registers are read, the sample
                \* not taken yet), busy after a poll or an event, or asleep
    timer,      \* what is left of the sleep
    lag,        \* how long the loop has been away from its sleep
    connected,  \* connection_task runs, not app_loop's scan
    still,      \* history: how long ago each key last moved, or the pad started
    dropped     \* history: the keys whose sample a connection took away

vars == <<raw, seen, initialised, stable, candidate, settling, control, age, found, at,
          timer, lag, connected, still, dropped>>

debouncer == <<initialised, stable, candidate, settling>>
gesture   == <<control, age>>
place     == <<at, timer, lag>>

\* How long Controls waits in the states that own a timer (next_deadline).
Due == [plusPending |-> MENU_HOLD, plusTap |-> TAP_HOLD,
        menu |-> MENU_TIMEOUT, choosing |-> CLEAR_HOLD]

MaxAge == Max({Due[name] : name \in DOMAIN Due}) + 2

TypeOK ==
    /\ raw \subseteq Key
    /\ seen \subseteq Key
    /\ initialised \in BOOLEAN
    /\ stable \subseteq Key
    /\ candidate \subseteq Key
    /\ settling \in [Key -> 0 .. DEBOUNCE]
    /\ control \in State
    /\ age \in 0 .. MaxAge
    /\ found \in Action \cup {None}
    /\ at \in {"poll", "reading", "busy", "asleep"}
    /\ timer \in 0 .. SAFETY_POLL
    /\ lag \in 0 .. MaxLag
    /\ connected \in BOOLEAN
    /\ still \in [Key -> 0 .. MaxStill]
    /\ dropped \subseteq Key

\* Whatever the expander was last read with, it is not reset with the pad.
Init ==
    /\ raw \in SUBSET Key
    /\ seen \in SUBSET Key
    /\ initialised = FALSE
    /\ stable = {}
    /\ candidate = {}
    /\ settling = [k \in Key |-> 0]
    /\ control = New
    /\ age = 0
    /\ found = None
    /\ at = "poll"
    /\ timer = 0
    /\ lag = 0
    /\ connected = FALSE
    /\ still = [k \in Key |-> 0]
    /\ dropped = {}

------------------------------------------------------------------------------
(* Sleeping *)

Left(due, spent) == IF spent < due THEN due - spent ELSE 0

\* Mutant of next_deadline: a tap is not waited for.
NextDeadlineForgetsTap ==
    IF control.at \in DOMAIN Due \ {"plusTap"} THEN {Left(Due[control.at], age)} ELSE {}

\* The deadline of the controls, if they have one.
next_deadline ==
    IF control.at \in DOMAIN Due THEN {Left(Due[control.at], age)} ELSE {}

\* Mutant of next_settle: the loop does not wake for the debouncer.
NextSettleNever == {}

\* When the debouncer needs its next samples.
next_settle ==
    {Left(DEBOUNCE, settling[k]) : k \in {k \in Key : (k \in candidate) # (k \in stable)}}

sleep_budget == Max({1, Min({SAFETY_POLL} \cup next_deadline \cup next_settle)})

\* The expander holds its interrupt line low while a key differs from the last read.
Noticed(keys) ==
    \/ keys # seen
    \/ "flaky line" \in Happens

Unnoticed(keys) ==
    \/ keys = seen
    \/ "flaky line" \in Happens

\* wait_keypad: sleep_budget, and wait_change unless the line is low already.
Sleep ==
    /\ lag' = 0
    /\ \/ Noticed(raw) /\ at' = "poll" /\ timer' = 0
       \/ Unnoticed(raw) /\ at' = "asleep" /\ timer' = sleep_budget

PollNext ==
    /\ at' = "poll"
    /\ timer' = 0

\* A key moves, at most once in a time unit, and wakes the loop by the falling edge.
Move(k) ==
    /\ still[k] > 0
    /\ raw' = IF k \in raw THEN raw \ {k} ELSE raw \cup {k}
    /\ still' = [still EXCEPT ![k] = 0]
    /\ IF at = "asleep"
       THEN \/ Noticed(raw') /\ PollNext
            \/ Unnoticed(raw') /\ UNCHANGED <<at, timer>>
       ELSE UNCHANGED <<at, timer>>
    /\ UNCHANGED <<seen, debouncer, gesture, found, lag, connected, dropped>>

Older(time, bound) == IF time < bound THEN time + 1 ELSE time

\* Time passes in a sleep, and while the loop is kept from polling.
Tick ==
    /\ \/ at = "asleep" /\ timer > 0 /\ timer' = timer - 1 /\ UNCHANGED lag
       \/ at # "asleep" /\ lag < MaxLag /\ lag' = lag + 1 /\ UNCHANGED timer
    /\ age' = Older(age, MaxAge)
    /\ settling' = [k \in Key |-> Older(settling[k], DEBOUNCE)]
    /\ still' = [k \in Key |-> Older(still[k], MaxStill)]
    /\ UNCHANGED <<raw, seen, initialised, stable, candidate, control, found, at,
                   connected, dropped>>

------------------------------------------------------------------------------
(* Polling *)

PollDue == at = "poll" \/ (at = "asleep" /\ timer = 0)

\* read_raw: the expander lets go of its line when its registers are read.
Read ==
    /\ PollDue
    /\ seen' = raw
    /\ at' = "reading"
    /\ timer' = 0
    /\ UNCHANGED <<raw, debouncer, gesture, found, lag, connected, still, dropped>>

\* Since when each key's candidate has held, this sample included.
Since == [k \in Key |->
             IF initialised /\ (k \in seen) = (k \in candidate) THEN settling[k] ELSE 0]

\* Mutant of Settled: a sample that shows a key as it was before is enough.
SettledAtOnce == seen

\* What the debouncer takes for pressed after this sample; the first it takes as it is.
Settled ==
    {k \in Key : IF ~initialised \/ Since[k] >= DEBOUNCE THEN k \in seen ELSE k \in stable}

\* KeypadUi::poll from the sample to the frame it writes to the LEDs.
Poll ==
    /\ at = "reading"
    /\ initialised' = TRUE
    /\ candidate' = seen
    /\ settling' = Since
    /\ stable' = Settled
    /\ LET update == Update(control, age, stable')
       IN  /\ control' = update.next
           /\ age' = IF update.next = control THEN age ELSE 0
           /\ found' = update.input.action
    /\ at' = "busy"
    /\ timer' = 0
    /\ lag' = 0
    /\ dropped' = {k \in dropped : (k \in seen) # (k \in stable')}
    /\ UNCHANGED <<raw, seen, connected, still>>

\* The expander does not answer, or its answer is lost, and poll returns None.
ReadFails ==
    /\ "read errors" \in Happens
    /\ PollDue \/ at = "reading"
    /\ Sleep
    /\ UNCHANGED <<raw, seen, debouncer, gesture, found, connected, still, dropped>>

\* Poll or event handler return with nothing to apply.
Finish ==
    /\ at = "busy"
    /\ found = None
    /\ Sleep
    /\ UNCHANGED <<raw, seen, debouncer, gesture, found, connected, still, dropped>>

\* apply_action, which ends the connection: the action changes nothing, or fails.
Apply ==
    /\ at = "busy"
    /\ found # None
    /\ found' = None
    /\ connected' = FALSE
    /\ PollNext
    /\ UNCHANGED <<raw, seen, debouncer, gesture, lag, still, dropped>>

\* Or it is saved, and the pad restarts.
Restart ==
    /\ at = "busy"
    /\ found # None
    /\ found' = None
    /\ connected' = FALSE
    /\ PollNext
    /\ initialised' = FALSE
    /\ stable' = {}
    /\ candidate' = {}
    /\ settling' = [k \in Key |-> 0]
    /\ control' = New
    /\ age' = 0
    /\ lag' = 0
    /\ still' = [k \in Key |-> 0]
    /\ dropped' = {}
    /\ UNCHANGED <<raw, seen>>

------------------------------------------------------------------------------
(* The two loops *)

\* The scan ends and drops wait_action, wherever it is: its second is over, or the host
\* that came is turned away.  The next scan polls.
Rescan ==
    /\ ~connected
    /\ found' = None
    /\ PollNext
    /\ UNCHANGED <<raw, seen, debouncer, gesture, lag, connected, still, dropped>>

\* The keys that a poll dropped now would have sampled as changed, or settled.
Unsampled == {k \in Key : \/ (k \in seen) # (k \in candidate)
                          \/ (k \in candidate) # (k \in stable)}

\* A host connects, which drops wait_action wherever it is, be it with the registers read
\* and the sample not taken; connection_task then begins with a sleep.
Accept ==
    /\ "link" \in Happens
    /\ ~connected
    /\ connected' = TRUE
    /\ found' = None
    /\ Sleep
    /\ dropped' = dropped \cup (IF at \in {"poll", "reading"} THEN Unsampled ELSE {})
    /\ UNCHANGED <<raw, seen, debouncer, gesture, still>>

\* connection_task handles an event and starts its sleep over.
Event ==
    /\ connected
    /\ at = "asleep"
    /\ timer > 0
    /\ at' = "busy"
    /\ timer' = 0
    /\ UNCHANGED <<raw, seen, debouncer, gesture, found, lag, connected, still, dropped>>

\* Disconnected: end_passkey starts the controls over.
Disconnect ==
    /\ connected
    /\ at = "asleep"
    /\ connected' = FALSE
    /\ control' = New
    /\ age' = 0
    /\ PollNext
    /\ UNCHANGED <<raw, seen, debouncer, found, lag, still, dropped>>

Next ==
    \/ \E k \in Key : Move(k)
    \/ Tick
    \/ Read
    \/ Poll
    \/ ReadFails
    \/ Finish
    \/ Apply
    \/ Restart
    \/ Rescan
    \/ Accept
    \/ Event
    \/ Disconnect

Spec == Init /\ [][Next]_vars

\* Time passes; the loop polls, and not every read fails; a poll is not dropped every
\* time, for the scan is given up only once a second.
FairSpec ==
    /\ Spec
    /\ SF_vars(Tick) /\ SF_vars(Read) /\ SF_vars(Poll)
    /\ SF_vars(Finish \/ Apply \/ Restart)

------------------------------------------------------------------------------
(* Properties *)

\* With a working line and no lag, every press and release that lasts is accepted in the
\* time it takes to settle (and one unit, for the loop never sleeps for less), however
\* sleeps are cut short, started over by events and broken by connections.  But for one
\* thing: a connection may take away the very poll that would have sampled a key.
SeenInTime ==
    \A k \in Key \ dropped : (k \in raw) # (k \in stable) => still[k] <= DEBOUNCE + 1

\* A key that bounces is not believed: from the first sample on, a key is taken for
\* pressed or released only when it had not moved, at the read, for as long as it takes
\* to settle.  A change seen late may have settled unseen.
BouncesIgnored ==
    [][initialised /\ initialised' =>
          \A k \in Key \ dropped : (k \in stable') # (k \in stable) =>
              still[k] >= DEBOUNCE \/ (k \in raw) # (k \in seen)]_vars

\* No timer of the controls is overslept, however polls are cancelled and sleeps started
\* over by events: a tap is taken back, a menu closes and a hold completes when due.
TimersKept == control.at \in DOMAIN Due => age <= Due[control.at] + 1

\* "Releasing below the threshold only selects" (host_slots.rs), but for the time a
\* release takes to settle: a slot is not cleared once its key was let go.
EarlyReleaseOnlySelects ==
    [][(found' # None /\ found' # found /\ found'.kind = "clear") =>
          \/ SLOT_KEYS[found'.slot] \in raw
          \/ still[SLOT_KEYS[found'.slot]] < DEBOUNCE]_vars

\* A pad that is let alone comes to rest, ready to type, whatever interrupts are lost,
\* reads fail and polls are late or cancelled.
PadSettles ==
    <>[](raw = {}) => <>[](stable = {}) /\ []<>(control.at = "ready")
==============================================================================
