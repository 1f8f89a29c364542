--------------------------- MODULE LinkPowerProofs ---------------------------
(***************************************************************************)
(* Proofs about LinkPower for every cooldown, acknowledgement time and     *)
(* refusal limit, every host, and any number of connections and events.    *)
(***************************************************************************)
EXTENDS LinkPower, SequenceTheorems, TLAPS

USE TimingAssumption, NoneAssumption, BoundAssumption

\* A ledger that is given up exactly when its refusals reached the limit.
ExactLedger == {l \in Ledger : l.abandoned <=> l.refusals = MAX_REFUSALS}

(* The ledger operators keep ledgers exact and never revive one. *)

LEMMA NewLedgerExact == NewLedger \in ExactLedger /\ ~NewLedger.abandoned
BY DEF NewLedger, ExactLedger, Ledger

LEMMA CountExact ==
    ASSUME NEW l \in ExactLedger
    PROVE  Count(l) \in ExactLedger /\ (l.abandoned => Count(l).abandoned)
<1> DEFINE given == l.refusals + 1 >= MAX_REFUSALS
<1>1. CASE l.abandoned
  BY <1>1 DEF Count
<1>2. CASE ~l.abandoned
  <2>1. /\ l.refusals \in 0 .. MAX_REFUSALS
        /\ l.refusals # MAX_REFUSALS
    BY <1>2 DEF ExactLedger, Ledger
  <2>2. /\ l.refusals + 1 \in 0 .. MAX_REFUSALS
        /\ given <=> l.refusals + 1 = MAX_REFUSALS
        /\ given \in BOOLEAN
    BY <2>1
  <2>3. Count(l) = [refusals |-> l.refusals + 1, abandoned |-> given]
    BY <1>2 DEF Count
  <2> HIDE DEF given
  <2>4. QED BY <1>2, <2>2, <2>3 DEF ExactLedger, Ledger
<1>3. QED BY <1>1, <1>2

LEMMA ChargedExact ==
    ASSUME ledger \in [Profile -> ExactLedger], inFlight \in Profile \cup {None}
    PROVE  /\ Charged \in [Profile -> ExactLedger]
           /\ \A p \in Profile : ledger[p].abandoned => Charged[p].abandoned
<1>1. CASE inFlight = None
  BY <1>1 DEF Charged
<1>2. CASE inFlight # None
  <2>1. inFlight \in Profile /\ ledger[inFlight] \in ExactLedger
    BY <1>2
  <2>2. Count(ledger[inFlight]) \in ExactLedger
    BY <2>1, CountExact
  <2>3. ledger[inFlight].abandoned => Count(ledger[inFlight]).abandoned
    BY <2>1, CountExact
  <2>4. Charged = [ledger EXCEPT ![inFlight] = Count(ledger[inFlight])]
    BY <1>2 DEF Charged
  <2>5. QED BY <2>1, <2>2, <2>3, <2>4
<1>3. QED BY <1>1, <1>2

(***************************************************************************)
(* The invariant.  OpenRequest is why a given-up direction is final: only  *)
(* an answer to an open request clears a ledger.  LastEventIsLink is why   *)
(* handling the queue to its end leaves `applied` equal to the link, and   *)
(* WakeState why a poll between two ticks always asks.                     *)
(***************************************************************************)
OpenRequest == inFlight # None => ~ledger[inFlight].abandoned

NoLinkNoWork == link = None => events = <<>> /\ pending = {} /\ ~seen

LastEventIsLink == events # <<>> => link = events[Len(events)]

WakeState ==
    /\ wakeWait <= 1
    /\ wakeWait = 1 =>
          /\ link # None /\ ~polled
          /\ waking
          /\ inFlight # "active" /\ ~ledger["active"].abandoned

IInv ==
    /\ TypeOK
    /\ ledger \in [Profile -> ExactLedger]
    /\ NoRedundantRequest
    /\ OpenRequest
    /\ NoLinkNoWork
    /\ LastEventIsLink
    /\ AppliedIsTheLink
    /\ WakeState

LEMMA InitIInv == Init => IInv
<1> SUFFICES ASSUME Init PROVE IInv
  OBVIOUS
<1>1. ledger \in [Profile -> ExactLedger]
  BY NewLedgerExact DEF Init
<1>2. TypeOK
  <2>1. state \in State
    BY DEF Init, State
  <2>2. ledger \in [Profile -> Ledger]
    BY <1>1 DEF ExactLedger
  <2>3. events \in Seq(Profile) /\ age \in 0 .. REQUEST_COOLDOWN
    BY EmptySeq DEF Init
  <2>4. QED BY <2>1, <2>2, <2>3 DEF Init, TypeOK
<1>3. QED
  BY <1>1, <1>2
  DEF Init, IInv, NoRedundantRequest, OpenRequest, NoLinkNoWork, LastEventIsLink,
      AppliedIsTheLink, WakeState

\* While the fast link is wanted back and may be asked for, nothing is in flight.
LEMMA WakingIsUnblocked ==
    ASSUME IInv, waking, inFlight # "active"
    PROVE  inFlight = None
BY DEF IInv, TypeOK, NoRedundantRequest, waking, Profile

LEMMA PollIInv ==
    ASSUME IInv, Poll
    PROVE  /\ IInv'
           /\ \A p \in Profile : ledger[p].abandoned => ledger'[p].abandoned
<1> USE DEF IInv
<1>1. /\ UNCHANGED <<applied, state, link, events, connections, seen>>
      /\ link # None /\ polled' = TRUE
  BY DEF Poll
<1>2. /\ Charged \in [Profile -> ExactLedger]
      /\ \A p \in Profile : ledger[p].abandoned => Charged[p].abandoned
  BY ChargedExact DEF TypeOK
<1>3. target \in Profile
  BY DEF target, desired_profile, Profile
<1>4. CASE Unanswered
  <2>1. UNCHANGED <<inFlight, age, ledger, pending, wakeWait>>
    BY <1>4 DEF Poll
  <2>2. wakeWait # 1
    BY <1>4, WakingIsUnblocked DEF WakeState, Unanswered
  <2>3. QED
    BY <1>1, <2>1, <2>2
    DEF TypeOK, NoRedundantRequest, OpenRequest, NoLinkNoWork, LastEventIsLink,
        AppliedIsTheLink, WakeState
<1>5. CASE ~Unanswered /\ ~Asks(Charged)
  <2>1. inFlight' = None /\ ledger' = Charged /\ UNCHANGED <<age, pending, wakeWait>>
    BY <1>5 DEF Poll
  <2>2. wakeWait # 1
    <3>1. SUFFICES ASSUME wakeWait = 1 PROVE FALSE
      OBVIOUS
    <3>2. waking /\ inFlight = None /\ ~ledger["active"].abandoned
      BY <3>1, WakingIsUnblocked DEF WakeState
    <3>3. Charged = ledger
      BY <3>2 DEF Charged
    <3>4. Asks(Charged)
      BY <3>2, <3>3 DEF Asks, waking
    <3>5. QED BY <1>5, <3>4
  <2>3. TypeOK'
    BY <1>1, <1>2, <2>1 DEF TypeOK, ExactLedger
  <2>4. QED
    BY <1>1, <1>2, <2>1, <2>2, <2>3
    DEF TypeOK, NoRedundantRequest, OpenRequest, NoLinkNoWork, LastEventIsLink,
        AppliedIsTheLink, WakeState
<1>6. CASE ~Unanswered /\ Asks(Charged)
  <2>1. age' = 0 /\ wakeWait' = 0 /\ (Request \/ Rejected)
    BY <1>6 DEF Poll
  <2>2. applied # target /\ ~Charged[target].abandoned
    BY <1>6 DEF Asks
  <2>3. CASE Request
    <3>1. inFlight' = target /\ ledger' = Charged /\ pending' = pending \cup {target}
      BY <2>3 DEF Request
    <3>2. TypeOK'
      BY <1>1, <1>2, <1>3, <2>1, <3>1 DEF TypeOK, ExactLedger
    <3>3. QED
      BY <1>1, <1>2, <1>3, <2>1, <2>2, <3>1, <3>2
      DEF NoRedundantRequest, OpenRequest, NoLinkNoWork, LastEventIsLink,
          AppliedIsTheLink, WakeState
  <2>4. CASE Rejected
    <3>1. /\ inFlight' = None /\ pending' = pending
          /\ ledger' = [Charged EXCEPT ![target] = Count(Charged[target])]
      BY <2>4 DEF Rejected
    <3>2. Count(Charged[target]) \in ExactLedger
      BY <1>2, <1>3, CountExact
    <3>3. /\ ledger' \in [Profile -> ExactLedger]
          /\ \A p \in Profile : ledger[p].abandoned => ledger'[p].abandoned
      BY <1>2, <1>3, <2>2, <3>1, <3>2
    <3>4. TypeOK'
      BY <1>1, <2>1, <3>1, <3>3 DEF TypeOK, ExactLedger
    <3>5. QED
      BY <1>1, <2>1, <3>1, <3>3, <3>4
      DEF NoRedundantRequest, OpenRequest, NoLinkNoWork, LastEventIsLink,
          AppliedIsTheLink, WakeState
  <2>5. QED BY <2>1, <2>3, <2>4
<1>7. QED BY <1>4, <1>5, <1>6

LEMMA ObserveIInv ==
    ASSUME IInv, Observe
    PROVE  /\ IInv'
           /\ \A p \in Profile : ledger[p].abandoned => ledger'[p].abandoned
<1> USE DEF IInv
<1> DEFINE observed == Head(events)
<1>1. /\ events # <<>> /\ applied' = observed /\ inFlight' = None
      /\ ledger' = Settled(observed) /\ events' = Tail(events)
      /\ seen' = TRUE /\ wakeWait' = 0
      /\ UNCHANGED <<age, state, link, pending, connections, polled>>
  BY DEF Observe
<1>2. /\ observed \in Profile /\ Tail(events) \in Seq(Profile)
      /\ Len(Tail(events)) = Len(events) - 1
      /\ \A i \in 1 .. Len(events) - 1 : Tail(events)[i] = events[i + 1]
      /\ Len(events) \in Nat \ {0} /\ events[1] = observed
  BY <1>1, HeadTailProperties DEF TypeOK
<1>3. /\ Settled(observed) \in [Profile -> ExactLedger]
      /\ \A p \in Profile : ledger[p].abandoned => Settled(observed)[p].abandoned
  <2>1. CASE inFlight = observed
    BY <1>2, <2>1, NewLedgerExact, NoneAssumption DEF Settled, OpenRequest
  <2>2. CASE inFlight # observed
    BY <2>2, ChargedExact DEF Settled, TypeOK
  <2>3. QED BY <2>1, <2>2
<1> HIDE DEF observed
<1>4. TypeOK'
  BY <1>1, <1>2, <1>3 DEF TypeOK, ExactLedger
<1>5. link = events[Len(events)]
  BY <1>1 DEF LastEventIsLink
<1>6. LastEventIsLink'
  <2>1. SUFFICES ASSUME events' # <<>> PROVE link = events'[Len(events')]
    BY <1>1 DEF LastEventIsLink
  <2>2. Len(events') \in 1 .. Len(events) - 1
    BY <1>1, <1>2, <2>1, EmptySeq
  <2>3. events'[Len(events')] = events[Len(events) - 1 + 1]
    BY <1>1, <1>2, <2>2
  <2>4. QED BY <1>2, <1>5, <2>3
<1>7. AppliedIsTheLink'
  <2>1. SUFFICES ASSUME events' = <<>> PROVE applied' = link
    BY <1>1 DEF AppliedIsTheLink
  <2>2. Len(events) = 1
    <3>1. Len(events') = 0
      BY <2>1
    <3>2. Len(events') = Len(events) - 1
      BY <1>1, <1>2
    <3>3. Len(events) \in Nat
      BY <1>2
    <3>4. QED BY <3>1, <3>2, <3>3
  <2>3. QED BY <1>1, <1>2, <1>5, <2>2
<1>8. link # None
  BY <1>1 DEF NoLinkNoWork
<1>9. QED
  BY <1>1, <1>3, <1>4, <1>6, <1>7, <1>8
  DEF NoRedundantRequest, OpenRequest, NoLinkNoWork, WakeState

\* The steps that leave the policy alone.
LEMMA StateAndClockIInv ==
    ASSUME IInv, ChangeState \/ Tick
    PROVE  IInv' /\ ledger' = ledger
<1> USE DEF IInv
<1>1. CASE ChangeState
  <2>1. /\ state' \in State /\ wakeWait' = 0
        /\ UNCHANGED <<policy, host, polled, seen>>
    BY <1>1 DEF ChangeState
  <2>2. QED
    BY <2>1
    DEF policy, host, TypeOK, NoRedundantRequest, OpenRequest, NoLinkNoWork,
        LastEventIsLink, AppliedIsTheLink, WakeState
<1>2. CASE Tick
  <2>1. /\ link # None => polled
        /\ polled' = FALSE
        /\ UNCHANGED <<applied, inFlight, ledger, state, host, seen>>
    BY <1>2 DEF Tick
  <2>2. age' \in 0 .. REQUEST_COOLDOWN
    BY <1>2 DEF Tick, TypeOK
  <2>3. wakeWait = 0
    BY <2>1 DEF WakeState, TypeOK
  <2>4. \/ wakeWait' = 0
        \/ /\ wakeWait' = 1
           /\ link # None /\ waking
           /\ inFlight # "active" /\ ~ledger["active"].abandoned
    BY <1>2, <2>3 DEF Tick
  <2>5. waking' = waking
    BY <2>1 DEF waking, target
  <2>6. WakeState'
    BY <2>1, <2>4, <2>5 DEF WakeState, host
  <2>7. TypeOK'
    <3>1. wakeWait' \in Nat
      BY <2>4
    <3>2. QED BY <2>1, <2>2, <3>1 DEF TypeOK, host
  <2>8. QED
    BY <2>1, <2>6, <2>7
    DEF host, NoRedundantRequest, OpenRequest, NoLinkNoWork, LastEventIsLink,
        AppliedIsTheLink
<1>3. QED BY <1>1, <1>2

LEMMA ConnectionIInv ==
    ASSUME IInv, (\E p \in Profile : Connect(p)) \/ Disconnect
    PROVE  IInv' /\ ledger' = ledger
<1> USE DEF IInv
<1>1. ASSUME NEW p \in Profile, Connect(p)
      PROVE  IInv' /\ ledger' = ledger
  <2>1. /\ link = None /\ link' = p /\ polled' = FALSE
        /\ connections' = connections + 1
        /\ UNCHANGED <<policy, state, pending, events, seen, wakeWait>>
    BY <1>1 DEF Connect
  <2>2. events = <<>> /\ ~seen /\ wakeWait = 0
    BY <2>1 DEF NoLinkNoWork, WakeState, TypeOK
  <2>3. TypeOK'
    <3>1. connections \in Nat
      BY DEF TypeOK
    <3>2. connections' \in Nat
      BY <2>1, <3>1
    <3>3. link' \in Profile /\ polled' \in BOOLEAN
      BY <2>1
    <3>4. QED BY <2>1, <3>2, <3>3 DEF policy, TypeOK
  <2>4. NoRedundantRequest' /\ OpenRequest' /\ ledger' = ledger
    BY <2>1 DEF policy, NoRedundantRequest, OpenRequest
  <2>5. NoLinkNoWork' /\ LastEventIsLink' /\ AppliedIsTheLink' /\ WakeState'
    BY <2>1, <2>2 DEF NoLinkNoWork, LastEventIsLink, AppliedIsTheLink, WakeState
  <2>6. QED BY <2>3, <2>4, <2>5
<1>2. CASE Disconnect
  <2>1. /\ link' = None /\ pending' = {} /\ events' = <<>> /\ seen' = FALSE
        /\ wakeWait' = 0
        /\ UNCHANGED <<policy, state, connections, polled>>
    BY <1>2 DEF Disconnect
  <2>2. events' \in Seq(Profile)
    BY <2>1, EmptySeq
  <2>3. TypeOK'
    BY <2>1, <2>2 DEF policy, TypeOK
  <2>4. NoRedundantRequest' /\ OpenRequest' /\ ledger' = ledger
    BY <2>1 DEF policy, NoRedundantRequest, OpenRequest
  <2>5. NoLinkNoWork' /\ LastEventIsLink' /\ AppliedIsTheLink' /\ WakeState'
    BY <2>1 DEF NoLinkNoWork, LastEventIsLink, AppliedIsTheLink, WakeState
  <2>6. QED BY <2>3, <2>4, <2>5
<1>3. QED BY <1>1, <1>2

\* Moving a link that is up appends the new profile as the last event.
LEMMA MoveLinkFacts ==
    ASSUME TypeOK, NEW p \in Profile, MoveLink(p)
    PROVE  /\ link' = p
           /\ events' \in Seq(Profile)
           /\ events' # <<>>
           /\ events'[Len(events')] = p
BY AppendProperties DEF MoveLink, TypeOK

LEMMA HostIInv ==
    ASSUME IInv, NEW p \in Profile, HostAnswers(p) \/ HostChanges(p)
    PROVE  IInv' /\ ledger' = ledger
<1> USE DEF IInv
<1>1. /\ UNCHANGED <<policy, state, connections, polled, seen, wakeWait>>
      /\ pending' \subseteq pending
      /\ link # None
      /\ \/ \E q \in Profile : MoveLink(q)
         \/ UNCHANGED <<link, events>>
  BY DEF HostAnswers, HostChanges, NoLinkNoWork
<1>2. waking' = waking
  BY <1>1 DEF waking, target, policy
<1>3. CASE \E q \in Profile : MoveLink(q)
  <2>1. PICK q \in Profile : MoveLink(q)
    BY <1>3
  <2>2. link' = q /\ events' \in Seq(Profile) /\ events' # <<>> /\ events'[Len(events')] = q
    BY <2>1, MoveLinkFacts
  <2>3. link' # None
    BY <2>2
  <2>4. TypeOK'
    BY <1>1, <2>2 DEF TypeOK, policy
  <2>5. QED
    BY <1>1, <1>2, <2>2, <2>3, <2>4
    DEF policy, NoRedundantRequest, OpenRequest, NoLinkNoWork, LastEventIsLink,
        AppliedIsTheLink, WakeState
<1>4. CASE UNCHANGED <<link, events>>
  BY <1>1, <1>2, <1>4
  DEF policy, TypeOK, NoRedundantRequest, OpenRequest, NoLinkNoWork, LastEventIsLink,
      AppliedIsTheLink, WakeState
<1>5. QED BY <1>1, <1>3, <1>4

LEMMA NextIInv ==
    ASSUME IInv, [Next]_vars
    PROVE  /\ IInv'
           /\ \A p \in Profile : ledger[p].abandoned => ledger'[p].abandoned
<1>1. CASE Poll
  BY <1>1, PollIInv
<1>2. CASE Observe
  BY <1>2, ObserveIInv
<1>3. CASE ChangeState \/ Tick
  BY <1>3, StateAndClockIInv
<1>4. CASE (\E p \in Profile : Connect(p)) \/ Disconnect
  BY <1>4, ConnectionIInv
<1>5. CASE \E p \in Profile : HostAnswers(p) \/ HostChanges(p)
  BY <1>5, HostIInv
<1>6. CASE UNCHANGED vars
  <2>1. UNCHANGED <<policy, state, host, polled, seen, wakeWait>>
    BY <1>6 DEF vars
  <2>2. waking' = waking
    BY <2>1 DEF waking, target, policy
  <2>3. QED
    BY <2>1, <2>2
    DEF IInv, policy, host, TypeOK, NoRedundantRequest, OpenRequest, NoLinkNoWork,
        LastEventIsLink, AppliedIsTheLink, WakeState
<1>7. QED BY <1>1, <1>2, <1>3, <1>4, <1>5, <1>6 DEF Next

THEOREM Invariance == Spec => []IInv
<1>1. IInv /\ [Next]_vars => IInv'
  BY NextIInv
<1>2. QED BY InitIInv, <1>1, PTL DEF Spec

\* Every variable keeps its type; no refusal count passes the limit.
THEOREM TypeCorrect == Spec => []TypeOK
<1>1. IInv => TypeOK
  BY DEF IInv
<1>2. QED BY Invariance, <1>1, PTL

\* Giving up is exact in each direction, whatever the host does.
THEOREM LedgerExactness == Spec => []LedgerExact
<1>1. IInv => LedgerExact
  BY DEF IInv, LedgerExact, ExactLedger
<1>2. QED BY Invariance, <1>1, PTL

\* The policy never has a request open for the profile it already observed.
THEOREM NoRedundancy == Spec => []NoRedundantRequest
<1>1. IInv => NoRedundantRequest
  BY DEF IInv
<1>2. QED BY Invariance, <1>1, PTL

\* Once every report of a connection is handled, the policy knows the link.
THEOREM LinkKnown == Spec => []AppliedIsTheLink
<1>1. IInv => AppliedIsTheLink
  BY DEF IInv
<1>2. QED BY Invariance, <1>1, PTL

\* Waking is asked for at the first poll, whatever cooldown or idle request is running.
THEOREM PromptWaking == Spec => []WakesPromptly
<1>1. IInv => WakesPromptly
  BY DEF IInv, WakeState, WakesPromptly
<1>2. QED BY Invariance, <1>1, PTL

\* No step revives a direction that was given up.
THEOREM GivingUpIsFinal == Spec => GivenUpForGood
<1>1. IInv /\ [Next]_vars =>
        [\A p \in Profile : ledger[p].abandoned => ledger'[p].abandoned]_vars
  BY NextIInv
<1>2. QED BY Invariance, <1>1, PTL DEF Spec, GivenUpForGood

------------------------------------------------------------------------------
(* The arithmetic of the profiles, for every interval and latency that the  *)
(* link layer allows.                                                       *)

(* An interval that is a whole number of units is read back as that number. *)
LEMMA UnitsReadBack ==
    ASSUME NEW units \in Nat, units <= 3200
    PROVE  units_from_us(units * UNIT_US) = units
<1>1. (units * 1250) \div 1250 = units
  OBVIOUS
<1>2. QED BY <1>1 DEF units_from_us, UNIT_US, U16_MAX

(* No link's product reaches the width of the arithmetic. *)
LEMMA SlotsBounded ==
    ASSUME NEW units \in Nat, 6 <= units, units <= 3200,
           NEW latency \in Nat, latency < 500
    PROVE  units * (latency + 1) \in Nat /\ units * (latency + 1) <= 1600000
<1> DEFINE skipped == latency + 1
<1>1. skipped \in Nat /\ skipped <= 500
  OBVIOUS
<1> HIDE DEF skipped
<1>2. units * skipped \in Nat
  BY <1>1
<1>3. units * skipped <= 3200 * skipped
  BY <1>1
<1>4. 3200 * skipped <= 1600000
  BY <1>1
<1>5. QED BY <1>2, <1>3, <1>4, <1>1 DEF skipped

(* In whole milliseconds a link is on the same side of the threshold as in  *)
(* microseconds.                                                            *)
LEMMA RoundingIsSafe ==
    ASSUME NEW slots \in Nat
    PROVE  (slots * 5) \div 4 >= 600 <=> slots * 1250 >= 600000
OBVIOUS

LEMMA IdlePeriod == effective_ms(IDLE) = 600 /\ PeriodUs(link_params(IDLE)) = 600000
BY DEF effective_ms, product, PeriodUs, link_params, IDLE, UNIT_US

(* How the pad reads a link: its product and its exact period are multiples   *)
(* of the same number.                                                      *)
LEMMA Observed ==
    ASSUME NEW given \in Links
    PROVE  \E slots \in Nat :
              /\ slots <= 1600000
              /\ product(observed_params(given)) = slots * 5
              /\ PeriodUs(given) = slots * 1250
<1>1. PICK units \in Intervals : given.us = units * UNIT_US
  BY DEF Links
<1> DEFINE latency == given.latency
           slots  == units * (latency + 1)
<1>2. /\ units \in Nat /\ 6 <= units /\ units <= 3200
      /\ latency \in Nat /\ latency < 500
  BY <1>1, LegalAssumption DEF Links
<1>3. slots \in Nat /\ slots <= 1600000
  BY <1>2, SlotsBounded
<1>4. product(observed_params(given)) = slots * 5
  <2>1. units_from_us(given.us) = units
    BY <1>1, <1>2, UnitsReadBack
  <2>2. QED BY <2>1 DEF product, observed_params
<1>5. PeriodUs(given) = slots * 1250
  <2>1. (units * 1250) * (latency + 1) = (units * (latency + 1)) * 1250
    BY <1>2
  <2>2. QED BY <1>1, <2>1 DEF PeriodUs, UNIT_US
<1>6. QED BY <1>3, <1>4, <1>5

(* The pad takes a link for idle exactly if it may sleep as long on it as   *)
(* on the link it would ask for, and nothing wraps (power.rs, classify).    *)
THEOREM Exactness == ClassifiesTheLink
<1> SUFFICES ASSUME NEW given \in Links
             PROVE  /\ product(observed_params(given)) <= WIDTH
                    /\ classify(observed_params(given)) = "idle"
                          <=> PeriodUs(given) >= PeriodUs(link_params(IDLE))
  BY DEF ClassifiesTheLink
<1>1. PICK slots \in Nat :
         /\ slots <= 1600000
         /\ product(observed_params(given)) = slots * 5
         /\ PeriodUs(given) = slots * 1250
  BY Observed
<1>2. classify(observed_params(given)) = "idle" <=> (slots * 5) \div 4 >= 600
  BY <1>1, IdlePeriod DEF classify, effective_ms
<1>3. slots * 5 <= WIDTH
  BY <1>1 DEF WIDTH
<1>4. QED BY <1>1, <1>2, <1>3, IdlePeriod, RoundingIsSafe

(* What the pad asks for, granted to the letter, is read back as what was   *)
(* asked for.                                                               *)
LEMMA GrantsSeen == GrantsAreSeen
<1>1. units_from_us(link_params(ACTIVE).us) = 12 /\ units_from_us(link_params(IDLE).us) = 12
  BY UnitsReadBack DEF link_params, ACTIVE, IDLE
<1>2. effective_ms(observed_params(link_params(ACTIVE))) = 15
  BY <1>1 DEF effective_ms, product, observed_params, link_params, ACTIVE
<1>3. effective_ms(observed_params(link_params(IDLE))) = 600
  BY <1>1 DEF effective_ms, product, observed_params, link_params, IDLE
<1>4. QED BY <1>2, <1>3, IdlePeriod DEF GrantsAreSeen, classify

(* The profiles the policy works with are what the pad makes of the links   *)
(* themselves, whatever links there are.                                    *)
THEOREM ProfileExactness == Spec => []ProfilesAreExact
<1>1. ProfilesAreExact
  BY Exactness, GrantsSeen DEF ProfilesAreExact
<1>2. QED BY <1>1, PTL
==============================================================================
