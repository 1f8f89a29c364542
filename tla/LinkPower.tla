------------------------------ MODULE LinkPower ------------------------------
(***************************************************************************)
(* The BLE link-power policy of src/firmware/src/power.rs, driven by       *)
(* connection_task in ble.rs, against a host that grants, changes, ignores *)
(* or rejects what it is asked.  Connection parameters are abstracted to   *)
(* the profile that `classify` of LinkParams gives them.                   *)
(*                                                                         *)
(* Time: `update` only compares the time since the last request with the   *)
(* cooldown and the acknowledgement time, so `age` counts it up to the     *)
(* cooldown and stops there; "never asked" behaves as that old.            *)
(***************************************************************************)
EXTENDS Integers, Sequences, LinkParams

CONSTANTS
    REQUEST_COOLDOWN,  \* in time units: 4 stands for 10 000 ms
    REQUEST_ACK,       \* in time units: 2 stands for 5 000 ms
    MAX_REFUSALS,      \* 3 in the firmware
    None,
    HostMoves,         \* what this host may do: see HostAnswers and HostChanges
    MaxEvents,         \* bound: link events waiting for connection_task
    MaxConnections     \* bound: connections in a behaviour

Profile == {"active", "idle"}

ASSUME TimingAssumption ==
    /\ REQUEST_ACK \in Nat
    /\ REQUEST_COOLDOWN \in Nat
    /\ REQUEST_ACK <= REQUEST_COOLDOWN
    /\ MAX_REFUSALS \in Nat \ {0}
ASSUME NoneAssumption == None \notin Profile
ASSUME BoundAssumption == MaxEvents \in Nat /\ MaxConnections \in Nat

VARIABLES
    applied,      \* the profile last observed, or None
    inFlight,     \* the profile asked for and not answered, or None
    age,          \* time since the last request
    ledger,       \* per profile: refusals counted, and whether it was given up
    state,        \* power::State, what the pad is doing
    link,         \* the profile the link really has, or None when disconnected
    pending,      \* requests the host has yet to decide
    events,       \* ConnectionParamsUpdated on their way to connection_task
    connections,  \* how many connections there were
    polled,       \* the input loop polled since the last tick
    seen,         \* history: an update was observed on this connection
    wakeWait      \* history: ticks spent on an idle link wanting the fast one

policy == <<applied, inFlight, age, ledger>>
host   == <<link, pending, events, connections>>
vars   == <<policy, state, host, polled, seen, wakeWait>>

State  == [blank : BOOLEAN, usb_host : BOOLEAN, pairing : BOOLEAN]
Ledger == [refusals : 0 .. MAX_REFUSALS, abandoned : BOOLEAN]

TypeOK ==
    /\ applied \in Profile \cup {None}
    /\ inFlight \in Profile \cup {None}
    /\ age \in 0 .. REQUEST_COOLDOWN
    /\ ledger \in [Profile -> Ledger]
    /\ state \in State
    /\ link \in Profile \cup {None}
    /\ pending \subseteq Profile
    /\ events \in Seq(Profile)
    /\ connections \in Nat
    /\ polled \in BOOLEAN
    /\ seen \in BOOLEAN
    /\ wakeWait \in Nat

NewLedger == [refusals |-> 0, abandoned |-> FALSE]

Init ==
    /\ applied = None
    /\ inFlight = None
    /\ age = REQUEST_COOLDOWN
    /\ ledger = [p \in Profile |-> NewLedger]
    /\ state = [blank |-> FALSE, usb_host |-> FALSE, pairing |-> FALSE]
    /\ link = None
    /\ pending = {}
    /\ events = <<>>
    /\ connections = 0
    /\ polled = FALSE
    /\ seen = FALSE
    /\ wakeWait = 0

------------------------------------------------------------------------------
(* The policy *)

desired_profile(s) ==
    IF ~s.pairing /\ (s.usb_host \/ s.blank) THEN "idle" ELSE "active"

target == desired_profile(state)

\* Mutant of Count: gives up one refusal too late.
CountLate(l) ==
    [refusals |-> l.refusals + 1, abandoned |-> l.refusals + 1 > MAX_REFUSALS]

\* Ledger::count.
Count(l) ==
    IF l.abandoned THEN l
    ELSE [refusals |-> l.refusals + 1, abandoned |-> l.refusals + 1 >= MAX_REFUSALS]

\* Mutant of Charged: a request that went unanswered is not counted.
ChargedNothing == ledger

\* charge_in_flight.
Charged ==
    IF inFlight = None THEN ledger ELSE [ledger EXCEPT ![inFlight] = Count(@)]

\* A request the host may still answer: update does nothing until it is too old.
Unanswered == inFlight # None /\ age < REQUEST_ACK

waking == applied = "idle" /\ target = "active"

\* Mutants of Asks: waking waits for the cooldown; a link not yet observed is left as it is.
AsksAfterCooldown(ledgers) ==
    /\ applied # target
    /\ ~ledgers[target].abandoned
    /\ age >= REQUEST_COOLDOWN
AsksOnceObserved(ledgers) ==
    /\ applied \notin {target, None}
    /\ ~ledgers[target].abandoned
    /\ waking \/ age >= REQUEST_COOLDOWN

\* Whether update asks for the target, given the ledgers it has arrived at.
Asks(ledgers) ==
    /\ applied # target
    /\ ~ledgers[target].abandoned
    /\ waking \/ age >= REQUEST_COOLDOWN

\* Mutant of Settled: an observation clears the ledger whoever asked for it.
SettledAlways(observed) == [ledger EXCEPT ![observed] = NewLedger]

\* observe: what the ledgers become when the host settles on `observed`.
Settled(observed) ==
    IF inFlight = observed THEN [ledger EXCEPT ![observed] = NewLedger] ELSE Charged

------------------------------------------------------------------------------
(* connection_task *)

\* update_connection_params returns Ok: the host will decide.
Request ==
    /\ inFlight' = target
    /\ ledger' = Charged
    /\ pending' = pending \cup {target}

\* Mutant of Rejected: a single rejection gives up.
RejectedForGood ==
    /\ "reject" \in HostMoves
    /\ inFlight' = None
    /\ ledger' = [Charged EXCEPT ![target] = [@ EXCEPT !.abandoned = TRUE]]
    /\ UNCHANGED pending

\* update_connection_params returns Err, and refused charges it.
Rejected ==
    /\ "reject" \in HostMoves
    /\ inFlight' = None
    /\ ledger' = [Charged EXCEPT ![target] = Count(@)]
    /\ UNCHANGED pending

\* drive_link_power.
Poll ==
    /\ link # None
    /\ polled' = TRUE
    /\ IF Unanswered
       THEN UNCHANGED <<inFlight, age, ledger, pending, wakeWait>>
       ELSE IF ~Asks(Charged)
       THEN /\ inFlight' = None
            /\ ledger' = Charged
            /\ UNCHANGED <<age, pending, wakeWait>>
       ELSE /\ age' = 0
            /\ wakeWait' = 0
            /\ Request \/ Rejected
    /\ UNCHANGED <<applied, state, link, events, connections, seen>>

\* Mutants of Observe: the request stays in flight; the request is taken for the result.
ObserveKeepsRequest ==
    /\ events # <<>>
    /\ applied' = Head(events)
    /\ ledger' = Settled(Head(events))
    /\ events' = Tail(events)
    /\ seen' = TRUE
    /\ wakeWait' = 0
    /\ UNCHANGED <<inFlight, age, state, link, pending, connections, polled>>
ObserveTrustsRequest ==
    /\ events # <<>>
    /\ applied' = IF inFlight # None THEN inFlight ELSE Head(events)
    /\ inFlight' = None
    /\ ledger' = Settled(Head(events))
    /\ events' = Tail(events)
    /\ seen' = TRUE
    /\ wakeWait' = 0
    /\ UNCHANGED <<age, state, link, pending, connections, polled>>

\* ConnectionParamsUpdated: note_link and observe.
Observe ==
    /\ events # <<>>
    /\ applied' = Head(events)
    /\ inFlight' = None
    /\ ledger' = Settled(Head(events))
    /\ events' = Tail(events)
    /\ seen' = TRUE
    /\ wakeWait' = 0
    /\ UNCHANGED <<age, state, link, pending, connections, polled>>

------------------------------------------------------------------------------
(* The pad, the clock and the host *)

\* Keys, the blanking timer, the USB cable and pairing change what is wanted.
ChangeState ==
    /\ \E s \in State \ {state} : state' = s
    /\ wakeWait' = 0
    /\ UNCHANGED <<policy, host, polled, seen>>

\* connection_task polls at least every SAFETY_POLL_MS, less than a time unit.
Tick ==
    /\ link # None => polled
    /\ polled' = FALSE
    /\ age' = IF age < REQUEST_COOLDOWN THEN age + 1 ELSE age
    /\ wakeWait' = IF /\ link # None /\ waking
                      /\ inFlight # "active" /\ ~ledger["active"].abandoned
                   THEN wakeWait + 1 ELSE 0
    /\ UNCHANGED <<applied, inFlight, ledger, state, host, seen>>

\* The link comes up with the host's own choice of parameters; no update event
\* tells the pad what they are.  The policy lives in KeypadUi, which outlives it.
Connect(p) ==
    /\ link = None
    /\ connections < MaxConnections
    /\ link' = p
    /\ connections' = connections + 1
    /\ polled' = FALSE
    /\ UNCHANGED <<policy, state, pending, events, seen, wakeWait>>

Disconnect ==
    /\ link # None
    /\ link' = None
    /\ pending' = {}
    /\ events' = <<>>
    /\ seen' = FALSE
    /\ wakeWait' = 0
    /\ UNCHANGED <<policy, state, connections, polled>>

\* The host moves the link to profile p, and the controller reports it.
MoveLink(p) ==
    /\ Len(events) < MaxEvents
    /\ link' = p
    /\ events' = Append(events, p)

\* The host grants a request, settles on something else, or drops it silently.
HostAnswers(p) ==
    /\ p \in pending
    /\ pending' = pending \ {p}
    /\ \/ "grant" \in HostMoves /\ MoveLink(p)
       \/ "substitute" \in HostMoves /\ \E q \in Profile \ {p} : MoveLink(q)
       \/ "silence" \in HostMoves /\ UNCHANGED <<link, events>>
    /\ UNCHANGED <<policy, state, connections, polled, seen, wakeWait>>

\* The host changes the link on its own (RequestConnectionParams is accepted).
HostChanges(p) ==
    /\ "change" \in HostMoves
    /\ link \in Profile \ {p}
    /\ MoveLink(p)
    /\ UNCHANGED <<policy, state, pending, connections, polled, seen, wakeWait>>

Next ==
    \/ Poll
    \/ Observe
    \/ ChangeState
    \/ Tick
    \/ \E p \in Profile : Connect(p)
    \/ Disconnect
    \/ \E p \in Profile : HostAnswers(p)
    \/ \E p \in Profile : HostChanges(p)

Spec == Init /\ [][Next]_vars

\* The loop keeps polling and handling events, time passes, and the host decides
\* every request, if only by dropping it.
FairSpec ==
    /\ Spec
    /\ WF_vars(Poll) /\ WF_vars(Observe) /\ WF_vars(Tick)
    /\ \A p \in Profile : WF_vars(HostAnswers(p))

------------------------------------------------------------------------------
(* Properties *)

\* A direction is given up exactly when its own MAX_REFUSALS refusals were counted,
\* and never later, whatever timeouts, answers and rejections interleave.
LedgerExact ==
    \A p \in Profile : ledger[p].abandoned <=> ledger[p].refusals = MAX_REFUSALS

\* The pad never has a request in flight for what it already observed, so an
\* answer that repeats the current profile can only be charged, never credited.
NoRedundantRequest == inFlight # None => inFlight # applied

\* What was given up stays given up until the next boot: only an answer to an open
\* request clears a ledger, and a given-up direction never has an open request, so
\* not even the host moving the link there by itself brings it back.
GivenUpForGood ==
    [][\A p \in Profile : ledger[p].abandoned => ledger'[p].abandoned]_vars

\* Once the host has reported a change on this connection and the report has been
\* handled, the policy's idea of the link is the link, whoever changed it and
\* however late: an accepted request is never taken for an applied one.
AppliedIsTheLink ==
    link # None /\ seen /\ events = <<>> => applied = link

\* Wanting the fast link back is never made to wait for the cooldown, nor for an
\* earlier idle request: it is asked for at the first poll after the key press.
WakesPromptly == wakeWait <= 1

\* A host that will not move the link any more is left alone in the end, whatever it
\* did before, however it turns requests down, and however the pad changes its wish.
RequestsCease == <>[](events = <<>>) => <>[](age = REQUEST_COOLDOWN)

\* A step in which the host does what it is asked, and only that.
Obliges ==
    /\ Poll /\ ~Unanswered /\ Asks(Charged) => inFlight' = target
    /\ \A p \in pending \ pending' : link' \in {p, None}
    /\ Len(events') > Len(events) => pending' # pending

\* With a host that obliges from some point on, a wish that lasts is met, unless its
\* direction was given up before, or the link is taken for what an earlier one was
\* (see AppliedIsTrueOfEveryLink).
WishIsMet ==
    <>[][Obliges]_vars =>
        \A p \in Profile : <>[](target = p) =>
            <>[](\/ link \in {p, None}
                 \/ ledger[p].abandoned
                 \/ connections > 1 /\ ~seen)

(* The profile of a link, LinkPower's abstraction of its parameters, is     *)
(* what the pad makes of them: whatever the host settles on is taken for    *)
(* idle exactly if it lets the pad sleep that long, and what was granted to *)
(* the letter is seen to be granted (power.rs 93-95, 358-364).             *)
ProfilesAreExact ==
    /\ link # None => ClassifiesTheLink
    /\ link # None => GrantsAreSeen

\* power.rs and the README say of every link of a boot that what the policy takes for
\* the link's profile is what the host settled on.
AppliedIsTrueOfEveryLink ==
    link # None /\ applied # None /\ events = <<>> => applied = link
==============================================================================
