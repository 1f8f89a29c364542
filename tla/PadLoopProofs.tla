---------------------------- MODULE PadLoopProofs ----------------------------
(***************************************************************************)
(* Proofs about PadLoop for any keys, times and bounds.                    *)
(***************************************************************************)
EXTENDS PadLoop, FiniteSetTheorems, TLAPS

USE KeyAssumption, HoldAssumption, NoActionAssumption, TimeAssumption

\* The interrupt line works, no read fails, and the loop polls when it is due.
Punctual == MaxLag = 0 /\ "flaky line" \notin Happens /\ "read errors" \notin Happens

\* The registers were read since key k moved; the debouncer sampled it as it was read; it
\* waits for it to settle.
Noted(k)    == (k \in raw) = (k \in seen)
Sampled(k)  == (k \in seen) = (k \in candidate)
Settling(k) == (k \in candidate) # (k \in stable)

\* No change waits to be noted, or sampled, for time passes only in a sleep, and a sleep
\* begins on keys that were read, and sampled if no connection took the sample away.
AsleepIsNoted   == at = "asleep" => raw = seen
AsleepIsSampled == at \in {"asleep", "busy"} => \A k \in Key \ dropped : Sampled(k)
UnnotedIsNew    == \A k \in Key : Noted(k) \/ still[k] = 0
UnsampledIsNew  == \A k \in Key \ dropped : Sampled(k) \/ still[k] = 0

\* A key that settles does not move between the read and the sample of its last move.
MovesAreSampled == \A k \in Key \ dropped : Settling(k) => Noted(k) \/ Sampled(k)

\* While a key settles it has been still for as long as its timer says, and no longer.
Waits(k)     == Noted(k) /\ Sampled(k) /\ Settling(k)
TimerIsStill == \A k \in Key \ dropped : Waits(k) => settling[k] <= still[k]
StillIsTimed ==
    \A k \in Key \ dropped : Waits(k) => settling[k] = DEBOUNCE \/ still[k] <= settling[k]

LineInv ==
    /\ TypeOK
    /\ lag = 0
    /\ AsleepIsNoted
    /\ AsleepIsSampled
    /\ UnnotedIsNew
    /\ UnsampledIsNew
    /\ MovesAreSampled
    /\ StillIsTimed
    /\ MaxStill >= DEBOUNCE => TimerIsStill

\* One sleep may be started over when its time is up: the first of a connection.
Grace == IF connected THEN 1 ELSE 0

\* How a time that is waited for, `spent` of it over, and the sleep go together.
InTime(spent, due) ==
    /\ at = "asleep" => spent + timer <= due + Grace
    /\ at = "busy"   => spent < due + Grace
    /\ at \in {"poll", "reading"} => spent <= due + 1

\* A poll may be dropped by a connection; the controls, which wait for it, have a unit to
\* spare then, for a connection that ends starts them over.
HoldSpared  == at \in {"poll", "reading"} => age <= Due[control.at] + Grace

KeysInTime  == \A k \in Key \ dropped : Waits(k) => InTime(still[k], DEBOUNCE)
HoldsInTime == control.at \in DOMAIN Due => InTime(age, Due[control.at]) /\ HoldSpared

IInv == LineInv /\ KeysInTime /\ HoldsInTime

------------------------------------------------------------------------------
(* The sleep budget *)

\* A set of numbers has a least one: were there none, the lower bounds of the set up to
\* one of its members would map one to one into those above 0, by adding one.
LEMMA Minimum ==
    ASSUME NEW S \in SUBSET Nat, S # {}
    PROVE  Min(S) \in S /\ \A n \in S : Min(S) <= n
<1> SUFFICES \E m \in S : \A n \in S : m <= n
  BY DEF Min
<1> SUFFICES ASSUME \A m \in S : \E n \in S : n < m PROVE FALSE
  OBVIOUS
<1>1. PICK top \in S : TRUE
  OBVIOUS
<1> DEFINE Bounds == {m \in 0 .. top : \A n \in S : m <= n}
           up     == [m \in Bounds |-> m + 1]
<1>2. 0 \in Bounds
  OBVIOUS
<1>3. \A m \in Bounds : m + 1 \in Bounds \ {0}
  <2> SUFFICES ASSUME NEW m \in Bounds PROVE m + 1 \in Bounds
    OBVIOUS
  <2>1. m \notin S
    OBVIOUS
  <2>2. \A n \in S : m + 1 <= n
    BY <2>1
  <2> QED BY <2>2, <1>1
<1>4. IsFiniteSet(Bounds)
  <2>1. IsFiniteSet(0 .. top)
    BY FS_Interval
  <2> QED BY <2>1, FS_Subset
<1>5. up \in [Bounds -> Bounds \ {0}] /\ \A m, n \in Bounds : up[m] = up[n] => m = n
  BY <1>3
<1> HIDE DEF Bounds, up
<1>6. /\ IsFiniteSet(Bounds \ {0})
      /\ Cardinality(Bounds) \in Nat
      /\ Cardinality(Bounds \ {0}) = Cardinality(Bounds) - 1
  BY <1>2, <1>4, FS_RemoveElement, FS_CardinalityType
<1>7. Cardinality(Bounds \ {0}) < Cardinality(Bounds)
  BY <1>6
<1>8. \E m, n \in Bounds : m # n /\ up[m] = up[n]
  BY <1>4, <1>5, <1>6, <1>7, FS_PigeonHole
<1> QED BY <1>5, <1>8

LEMMA DueFacts ==
    /\ DOMAIN Due = {"plusPending", "plusTap", "menu", "choosing"}
    /\ \A name \in DOMAIN Due : Due[name] \in Nat \ {0}
BY DEF Due

LEMMA MaxAgeFact == MaxAge \in Nat
<1> DEFINE Dues == {Due[name] : name \in DOMAIN Due}
<1>1. \E d \in Dues : \A e \in Dues : d >= e
  <2>1. Dues = {MENU_HOLD, TAP_HOLD, MENU_TIMEOUT, CLEAR_HOLD}
    BY DEF Due
  <2> DEFINE larger(m, n) == IF m >= n THEN m ELSE n
             largest == larger(larger(MENU_HOLD, TAP_HOLD), larger(MENU_TIMEOUT, CLEAR_HOLD))
  <2>2. largest \in Dues /\ \A e \in Dues : largest >= e
    BY <2>1
  <2> QED BY <2>2
<1>2. Max(Dues) \in Dues
  BY <1>1 DEF Max
<1>3. Dues \subseteq Nat
  BY DueFacts
<1> QED BY <1>2, <1>3 DEF MaxAge

LEMMA LeftFacts ==
    ASSUME NEW due \in Nat, NEW spent \in Nat
    PROVE  /\ Left(due, spent) \in Nat
           /\ spent < due => Left(due, spent) = due - spent
           /\ spent >= due => Left(due, spent) = 0
BY DEF Left

LEMMA Numbers == ASSUME TypeOK PROVE next_deadline \cup next_settle \subseteq Nat
<1>1. next_deadline \subseteq Nat
  <2>1. age \in Nat
    BY MaxAgeFact DEF TypeOK
  <2>2. control.at \in DOMAIN Due => Left(Due[control.at], age) \in Nat
    BY <2>1, DueFacts, LeftFacts
  <2> QED BY <2>2 DEF next_deadline
<1>2. next_settle \subseteq Nat
  BY LeftFacts DEF next_settle, TypeOK
<1> QED BY <1>1, <1>2

\* The loop sleeps, for no longer than to the safety poll or anything that is due, but
\* for one unit at least.
LEMMA Budget ==
    ASSUME TypeOK
    PROVE  /\ sleep_budget \in 1 .. SAFETY_POLL
           /\ \A d \in next_deadline \cup next_settle : sleep_budget = 1 \/ sleep_budget <= d
<1> DEFINE Times == {SAFETY_POLL} \cup next_deadline \cup next_settle
           least == Min(Times)
<1>1. next_deadline \cup next_settle \subseteq Nat
  BY Numbers
<1>3. Times \in SUBSET Nat /\ Times # {}
  BY <1>1
<1> HIDE DEF Times
<1>4. least \in Nat /\ \A n \in Times : least <= n
  BY <1>3, Minimum
<1>5. SAFETY_POLL \in Times /\ next_deadline \cup next_settle \subseteq Times
  BY DEF Times
<1> HIDE DEF least
<1>6. \E m \in {1, least} : \A n \in {1, least} : m >= n
  BY <1>4
<1>7. /\ Max({1, least}) \in {1, least}
      /\ \A n \in {1, least} : Max({1, least}) >= n
  BY <1>6 DEF Max
<1>8. sleep_budget = Max({1, least})
  BY DEF sleep_budget, least, Times
<1>9. sleep_budget \in {1, least} /\ sleep_budget >= 1 /\ sleep_budget >= least
  BY <1>7, <1>8
<1>10. \A n \in Times : sleep_budget = 1 \/ sleep_budget <= n
  BY <1>4, <1>9
<1> QED BY <1>1, <1>4, <1>5, <1>9, <1>10

------------------------------------------------------------------------------
(* Controls *)

LEMMA Names ==
    /\ \A name \in {"ready", "plusPending", "plusTap", "passthrough", "menuRelease", "menu", "drain"} :
          At(name) \in State /\ At(name).at = name
    /\ \A s \in Slot : Choosing(s) \in State /\ Choosing(s).at = "choosing"
BY DEF State, At, Choosing, Slot

LEMMA Answers ==
    /\ \A next, keys : Types(next, keys).next = next /\ Types(next, keys).input.action = None
    /\ \A next, menu : Shows(next, menu).next = next /\ Shows(next, menu).input.action = None
    /\ \A kind \in {"select", "clear"}, slot \in Slot :
          /\ Does(kind, slot).next = At("drain")
          /\ Does(kind, slot).input.action.kind = kind
          /\ Does(kind, slot).input.action.slot = slot
          /\ Does(kind, slot).input.action \in Action
BY DEF Types, Shows, Does, Action

\* What an update does with its time and its keys: a state that has a timer is left when
\* the time is up, and a slot is cleared by its own key alone.
Sound(state, update, elapsed, keys) ==
    /\ update.next \in State
    /\ update.input.action \in Action \cup {None}
    /\ state.at \in DOMAIN Due /\ update.next = state => elapsed < Due[state.at]
    /\ update.input.action # None /\ update.input.action.kind = "clear"
          => SLOT_KEYS[update.input.action.slot] \in keys

LEMMA UpdateSound ==
    ASSUME NEW state \in State, NEW elapsed \in Nat, NEW keys \in SUBSET Key
    PROVE  Sound(state, Update(state, elapsed, keys), elapsed, keys)
<1> DEFINE update == Update(state, elapsed, keys)
<1>1. CASE state.at = "ready"
  <2>1. update = Ready(keys)
    BY <1>1 DEF Update
  <2> QED BY <1>1, <2>1, Names, Answers, DueFacts DEF Ready, Sound
<1>2. CASE state.at = "plusPending"
  <2>1. update = PlusPending(elapsed, keys)
    BY <1>2 DEF Update
  <2> QED BY <1>2, <2>1, Names, Answers DEF PlusPending, Sound, Due
<1>3. CASE state.at = "plusTap"
  <2>1. update = PlusTap(elapsed, keys)
    BY <1>3 DEF Update
  <2> QED BY <1>3, <2>1, Names, Answers DEF PlusTap, Sound, Due
<1>4. CASE state.at = "passthrough"
  <2>1. update = Passthrough(keys)
    BY <1>4 DEF Update
  <2> QED BY <1>4, <2>1, Names, Answers, DueFacts DEF Passthrough, Sound
<1>5. CASE state.at = "menuRelease"
  <2>1. update = MenuRelease(keys)
    BY <1>5 DEF Update
  <2> QED BY <1>5, <2>1, Names, Answers, DueFacts DEF MenuRelease, Sound
<1>6. CASE state.at = "menu"
  <2>1. update = MenuOpen(elapsed, keys)
    BY <1>6 DEF Update
  <2> DEFINE chosen == CHOOSE s \in Slot : keys = {SLOT_KEYS[s]}
  <2>2. (\E s \in Slot : keys = {SLOT_KEYS[s]}) => chosen \in Slot
    OBVIOUS
  <2>3. \/ update = Shows(At("drain"), "closed")
        \/ chosen \in Slot /\ update = Shows(Choosing(chosen), "holding")
        \/ elapsed < MENU_TIMEOUT /\ update = Shows(At("menu"), "open")
    BY <2>1, <2>2 DEF MenuOpen
  <2> HIDE DEF chosen
  <2> QED BY <1>6, <2>3, Names, Answers DEF Sound, Due
<1>7. CASE state.at = "choosing"
  <2>1. update = Chosen(state.slot, elapsed, keys) /\ state.slot \in Slot
    BY <1>7 DEF Update, State
  <2>2. \/ update = Does("select", state.slot)
        \/ update = Does("clear", state.slot) /\ keys = {SLOT_KEYS[state.slot]}
        \/ update = Shows(At("drain"), "closed")
        \/ elapsed < CLEAR_HOLD /\ update = Shows(Choosing(state.slot), "holding")
    BY <2>1 DEF Chosen
  <2>3. SLOT_KEYS[state.slot] \in {SLOT_KEYS[state.slot]}
    OBVIOUS
  <2>4. CASE update = Does("clear", state.slot) /\ keys = {SLOT_KEYS[state.slot]}
    <3>1. /\ update.next = At("drain")
          /\ update.input.action.slot = state.slot
          /\ update.input.action \in Action
      BY <2>1, <2>4, Answers
    <3> QED BY <1>7, <2>3, <2>4, <3>1, Names DEF Sound
  <2>5. CASE update = Does("select", state.slot)
    <3>1. /\ update.next = At("drain")
          /\ update.input.action.kind = "select"
          /\ update.input.action \in Action
      BY <2>1, <2>5, Answers
    <3> QED BY <1>7, <3>1, Names DEF Sound
  <2>6. CASE update = Shows(At("drain"), "closed")
    BY <1>7, <2>1, <2>6, Names, Answers DEF Sound
  <2>7. CASE elapsed < CLEAR_HOLD /\ update = Shows(Choosing(state.slot), "holding")
    BY <1>7, <2>1, <2>7, Names, Answers DEF Sound, Due
  <2> QED BY <2>2, <2>4, <2>5, <2>6, <2>7
<1>8. CASE state.at = "drain"
  <2>1. update = Drain(keys)
    BY <1>8 DEF Update
  <2> QED BY <1>8, <2>1, Names, Answers, DueFacts DEF Drain, Sound
<1> QED BY <1>1, <1>2, <1>3, <1>4, <1>5, <1>6, <1>7, <1>8 DEF State

------------------------------------------------------------------------------
(* Types *)

LEMMA TypeFacts ==
    ASSUME TypeOK
    PROVE  /\ age \in Nat /\ timer \in Nat /\ lag \in Nat
           /\ \A k \in Key : settling[k] \in Nat /\ still[k] \in Nat
BY MaxAgeFact DEF TypeOK

LEMMA SleepFacts ==
    ASSUME TypeOK, Sleep
    PROVE  /\ at' \in {"poll", "asleep"} /\ timer' \in 0 .. SAFETY_POLL /\ lag' = 0
           /\ at' = "asleep" => Unnoticed(raw) /\ timer' = sleep_budget
BY Budget DEF Sleep

LEMMA NewFacts == New \in State /\ New.at = "drain" /\ New.at \notin DOMAIN Due
BY Names, DueFacts DEF New

\* What a poll makes of the controls.
LEMMA PollFacts ==
    ASSUME TypeOK, Poll
    PROVE  /\ control' \in State
           /\ found' \in Action \cup {None}
           /\ age' \in {0, age}
           /\ control'.at \in DOMAIN Due => age' < Due[control'.at]
           /\ found' # None /\ found'.kind = "clear" => SLOT_KEYS[found'.slot] \in stable'
<1> DEFINE update == Update(control, age, stable')
<1>1. /\ control' = update.next
      /\ age' = IF update.next = control THEN age ELSE 0
      /\ found' = update.input.action
  BY DEF Poll
<1>2. stable' \in SUBSET Key /\ control \in State /\ age \in Nat
  BY TypeFacts DEF Poll, Settled, TypeOK
<1>3. Sound(control, update, age, stable')
  BY <1>2, UpdateSound
<1> HIDE DEF update
<1> QED BY <1>1, <1>2, <1>3, DueFacts DEF Sound

LEMMA InitTypeOK == Init => TypeOK
<1> SUFFICES ASSUME Init PROVE TypeOK
  OBVIOUS
<1>1. age \in 0 .. MaxAge /\ timer \in 0 .. SAFETY_POLL /\ lag \in 0 .. MaxLag
  BY MaxAgeFact DEF Init
<1>2. settling \in [Key -> 0 .. DEBOUNCE] /\ still \in [Key -> 0 .. MaxStill]
  BY DEF Init
<1>3. control \in State /\ found \in Action \cup {None}
  BY NewFacts DEF Init
<1> QED BY <1>1, <1>2, <1>3 DEF Init, TypeOK

\* Steps that leave keys and debouncer alone.
LEMMA PlaceTypeOK ==
    ASSUME TypeOK, UNCHANGED <<raw, seen, debouncer, still>>, dropped' \subseteq Key,
           UNCHANGED gesture \/ (control' = New /\ age' = 0),
           found' \in {found, None}, connected' \in BOOLEAN,
           at' \in {"poll", "reading", "busy", "asleep"}, timer' \in 0 .. SAFETY_POLL,
           lag' \in {lag, 0}
    PROVE  TypeOK'
<1>1. control' \in State /\ age' \in 0 .. MaxAge
  BY NewFacts, MaxAgeFact DEF gesture, TypeOK
<1>2. lag' \in 0 .. MaxLag /\ found' \in Action \cup {None}
  BY DEF TypeOK
<1> QED BY <1>1, <1>2 DEF TypeOK, debouncer

LEMMA NextTypeOK == TypeOK /\ [Next]_vars => TypeOK'
<1> SUFFICES ASSUME TypeOK, [Next]_vars PROVE TypeOK'
  OBVIOUS
<1> USE TypeFacts
<1>1. ASSUME NEW k \in Key, Move(k) PROVE TypeOK'
  BY <1>1 DEF Move, PollNext, TypeOK, debouncer, gesture
<1>2. CASE Tick
  <2>1. age' \in 0 .. MaxAge
    BY <1>2, MaxAgeFact DEF Tick, Older, TypeOK
  <2>2. settling' \in [Key -> 0 .. DEBOUNCE] /\ still' \in [Key -> 0 .. MaxStill]
    BY <1>2 DEF Tick, Older, TypeOK
  <2>3. timer' \in 0 .. SAFETY_POLL /\ lag' \in 0 .. MaxLag
    BY <1>2 DEF Tick, TypeOK
  <2> QED BY <1>2, <2>1, <2>2, <2>3 DEF Tick, TypeOK
<1>3. CASE Poll
  <2>1. age' \in 0 .. MaxAge
    BY <1>3, PollFacts, MaxAgeFact DEF TypeOK
  <2>2. settling' \in [Key -> 0 .. DEBOUNCE] /\ stable' \subseteq Key /\ dropped' \subseteq Key
    BY <1>3 DEF Poll, Since, Settled, TypeOK
  <2> QED BY <1>3, <2>1, <2>2, PollFacts DEF Poll, TypeOK
<1>4. CASE ReadFails \/ Finish \/ Accept
  <2>1. Sleep /\ connected' \in BOOLEAN /\ dropped' \subseteq Key
    BY <1>4 DEF ReadFails, Finish, Accept, Unsampled, TypeOK
  <2> QED BY <1>4, <2>1, SleepFacts, PlaceTypeOK DEF ReadFails, Finish, Accept
<1>5. CASE Apply \/ Rescan \/ Disconnect
  <2>1. timer' \in 0 .. SAFETY_POLL
    BY <1>5 DEF Apply, Rescan, Disconnect, PollNext
  <2>2. connected' \in {connected, FALSE}
    BY <1>5 DEF Apply, Rescan, Disconnect
  <2>3. connected' \in BOOLEAN /\ dropped' \subseteq Key
    BY <1>5, <2>2 DEF Apply, Rescan, Disconnect, TypeOK
  <2> QED BY <1>5, <2>1, <2>3, PlaceTypeOK DEF Apply, Rescan, Disconnect, PollNext, gesture
<1>6. CASE Event
  <2>1. connected' \in BOOLEAN /\ timer' \in 0 .. SAFETY_POLL /\ dropped' \subseteq Key
    BY <1>6 DEF Event, TypeOK
  <2> QED BY <1>6, <2>1, PlaceTypeOK DEF Event
<1>7. CASE Restart
  <2>1. /\ settling' \in [Key -> 0 .. DEBOUNCE] /\ age' \in 0 .. MaxAge
        /\ still' \in [Key -> 0 .. MaxStill]
    BY <1>7, MaxAgeFact DEF Restart
  <2>2. timer' \in 0 .. SAFETY_POLL /\ lag' \in 0 .. MaxLag
    BY <1>7 DEF Restart, PollNext
  <2> QED BY <1>7, <2>1, <2>2, NewFacts DEF Restart, PollNext, TypeOK
<1>8. CASE UNCHANGED vars
  BY <1>8 DEF vars, TypeOK
<1>9. CASE Read
  BY <1>9 DEF Read, debouncer, gesture, TypeOK
<1> QED BY <1>1, <1>2, <1>3, <1>4, <1>5, <1>6, <1>7, <1>8, <1>9 DEF Next

\* The pad's loop stays within its types, whatever is lost, fails or comes late.
THEOREM TypeCorrect == Spec => []TypeOK
BY InitTypeOK, NextTypeOK, PTL DEF Spec

------------------------------------------------------------------------------
(* The debouncer *)

LEMMA InitLineInv == ASSUME Init PROVE LineInv
<1>1. TypeOK
  BY InitTypeOK
<1>2. /\ at = "poll" /\ lag = 0
      /\ \A k \in Key : still[k] = 0 /\ ~Settling(k)
  BY DEF Init, Settling
<1> QED BY <1>1, <1>2
        DEF LineInv, AsleepIsNoted, AsleepIsSampled, UnnotedIsNew, UnsampledIsNew,
            MovesAreSampled, StillIsTimed, TimerIsStill, Waits

\* A step that leaves the keys and their timers alone keeps what is said of them, whichever
\* more keys were dropped.
LEMMA KeysAlone ==
    ASSUME LineInv, UNCHANGED <<raw, seen, debouncer, still>>, dropped \subseteq dropped'
    PROVE  /\ UnnotedIsNew' /\ UnsampledIsNew' /\ MovesAreSampled' /\ StillIsTimed'
           /\ MaxStill >= DEBOUNCE => TimerIsStill'
<1>1. \A k \in Key : /\ Noted(k)' = Noted(k) /\ Sampled(k)' = Sampled(k)
                     /\ Settling(k)' = Settling(k) /\ Waits(k)' = Waits(k)
                     /\ still'[k] = still[k] /\ settling'[k] = settling[k]
                     /\ k \notin dropped' => k \notin dropped
  BY DEF Noted, Sampled, Settling, Waits, debouncer
<1> QED BY <1>1 DEF LineInv, UnnotedIsNew, UnsampledIsNew, MovesAreSampled, StillIsTimed,
           TimerIsStill

\* A sleep begins only on keys that were read, and sampled or dropped.
LEMMA SleepKeeps == ASSUME Punctual, LineInv, TypeOK', Finish \/ Accept PROVE LineInv'
<1>1. /\ Sleep /\ UNCHANGED <<raw, seen, debouncer, still>>
      /\ dropped \subseteq dropped' /\ dropped' \subseteq Key
  BY DEF Finish, Accept, TypeOK
<1>2. lag' = 0 /\ (at' = "asleep" => raw = seen) /\ at' # "busy"
  BY <1>1, SleepFacts DEF LineInv, Punctual, Unnoticed
<1>3. \A k \in Key \ dropped' : Sampled(k)
  <2> SUFFICES ASSUME NEW k \in Key \ dropped' PROVE Sampled(k)
    OBVIOUS
  <2>1. k \notin dropped
    BY <1>1
  <2>2. CASE at \in {"asleep", "busy"}
    BY <2>1, <2>2 DEF LineInv, AsleepIsSampled
  <2>3. CASE at \in {"poll", "reading"}
    <3>1. Accept /\ k \notin Unsampled
      BY <2>3 DEF Accept, Finish
    <3> QED BY <3>1 DEF Unsampled, Sampled
  <2> QED BY <2>2, <2>3 DEF LineInv, TypeOK
<1>4. \A k \in Key : Sampled(k)' = Sampled(k)
  BY <1>1 DEF Sampled, debouncer
<1>5. AsleepIsNoted' /\ AsleepIsSampled'
  BY <1>1, <1>2, <1>3, <1>4 DEF AsleepIsNoted, AsleepIsSampled
<1> QED BY <1>1, <1>2, <1>5, KeysAlone DEF LineInv

\* Nor does it matter to the line how the loop gets to its next poll.
LEMMA AwakeKeeps ==
    ASSUME LineInv, TypeOK', lag' = 0, UNCHANGED <<raw, seen, debouncer, still, dropped>>,
           at' = "poll" \/ Event
    PROVE  LineInv'
<1>1. at' # "asleep" /\ (at' = "busy" => at = "asleep")
  BY DEF Event
<1>2. \A k \in Key : Sampled(k)' = Sampled(k)
  BY DEF Sampled, debouncer
<1>3. AsleepIsNoted' /\ AsleepIsSampled'
  BY <1>1, <1>2 DEF LineInv, AsleepIsNoted, AsleepIsSampled
<1> QED BY <1>3, KeysAlone DEF LineInv

LEMMA MoveFacts ==
    ASSUME LineInv, NEW k \in Key, Move(k)
    PROVE  /\ still[k] > 0 /\ still'[k] = 0
           /\ Noted(k) /\ ~Noted(k)' /\ (k \in dropped \/ Sampled(k))
           /\ \A j \in Key \ {k} : Noted(j)' = Noted(j) /\ still'[j] = still[j]
           /\ \A j \in Key : Sampled(j)' = Sampled(j) /\ Settling(j)' = Settling(j)
           /\ UNCHANGED <<seen, stable, candidate, settling, lag, dropped>>
<1>1. /\ still[k] > 0 /\ still' = [still EXCEPT ![k] = 0]
      /\ \A j \in Key \ {k} : (j \in raw') = (j \in raw)
      /\ (k \in raw') = (k \notin raw)
      /\ UNCHANGED <<seen, stable, candidate, settling, lag, dropped>>
  BY DEF Move, debouncer, LineInv, TypeOK
<1>2. still'[k] = 0 /\ \A j \in Key \ {k} : still'[j] = still[j]
  BY <1>1 DEF LineInv, TypeOK
<1>3. Noted(k) /\ ~Noted(k)'
  BY <1>1 DEF LineInv, UnnotedIsNew, Noted
<1>4. k \in dropped \/ Sampled(k)
  BY <1>1 DEF LineInv, UnsampledIsNew
<1>5. \A j \in Key \ {k} : Noted(j)' = Noted(j)
  BY <1>1 DEF Noted
<1>6. \A j \in Key : Sampled(j)' = Sampled(j) /\ Settling(j)' = Settling(j)
  BY <1>1 DEF Sampled, Settling
<1> QED BY <1>1, <1>2, <1>3, <1>4, <1>5, <1>6

LEMMA MoveKeeps == ASSUME Punctual, LineInv, TypeOK', NEW k \in Key, Move(k) PROVE LineInv'
<1>1. /\ still[k] > 0 /\ still'[k] = 0
      /\ Noted(k) /\ ~Noted(k)' /\ (k \in dropped \/ Sampled(k))
      /\ \A j \in Key \ {k} : Noted(j)' = Noted(j) /\ still'[j] = still[j]
      /\ \A j \in Key : Sampled(j)' = Sampled(j) /\ Settling(j)' = Settling(j)
      /\ UNCHANGED <<seen, stable, candidate, settling, lag, dropped>>
  BY MoveFacts
<1>2. AsleepIsNoted'
  <2>1. CASE at = "asleep"
    <3>1. raw' # seen
      BY <1>1 DEF Noted
    <3>2. at' = "poll"
      BY <2>1, <3>1 DEF Move, Punctual, Unnoticed, PollNext
    <3> QED BY <3>2 DEF AsleepIsNoted
  <2>2. CASE at # "asleep"
    BY <2>2 DEF Move, AsleepIsNoted
  <2> QED BY <2>1, <2>2
<1>3. AsleepIsSampled'
  <2>1. at' \in {"asleep", "busy"} => at' = at
    BY DEF Move, PollNext
  <2> QED BY <1>1, <2>1 DEF LineInv, AsleepIsSampled
<1>4. UnnotedIsNew' /\ UnsampledIsNew' /\ MovesAreSampled'
  BY <1>1 DEF LineInv, UnnotedIsNew, UnsampledIsNew, MovesAreSampled
<1>5. \A j \in Key : Waits(j)' => j # k /\ Waits(j)
  BY <1>1 DEF Waits
<1>6. StillIsTimed' /\ (TimerIsStill => TimerIsStill')
  BY <1>1, <1>5 DEF LineInv, StillIsTimed, TimerIsStill
<1> QED BY <1>1, <1>2, <1>3, <1>4, <1>6 DEF LineInv

LEMMA TickAsleep ==
    ASSUME Punctual, LineInv, Tick
    PROVE  /\ at = "asleep" /\ at' = at /\ timer > 0 /\ timer' = timer - 1 /\ lag' = lag
           /\ UNCHANGED <<raw, seen, stable, candidate, control, connected, dropped>>
           /\ age' <= age + 1
           /\ \A k \in Key : still'[k] <= still[k] + 1
<1>1. lag = 0 /\ MaxLag = 0
  BY DEF Punctual, LineInv
<1>2. ~(lag < MaxLag)
  BY <1>1
<1>3. age \in Nat /\ \A k \in Key : still[k] \in Nat
  BY TypeFacts DEF LineInv
<1> QED BY <1>2, <1>3 DEF Tick, Older

LEMMA TickKeeps == ASSUME Punctual, LineInv, TypeOK', Tick PROVE LineInv'
<1> USE TypeFacts
<1>1. at = "asleep" /\ lag' = lag /\ UNCHANGED <<raw, seen, stable, candidate, at, dropped>>
  BY TickAsleep
<1>2. \A k \in Key :
         /\ settling'[k] = Older(settling[k], DEBOUNCE)
         /\ still'[k] = Older(still[k], MaxStill)
  BY DEF Tick
<1>3. \A k \in Key : Noted(k) /\ Noted(k)'
  BY <1>1 DEF LineInv, AsleepIsNoted, Noted
<1>4. \A k \in Key : Sampled(k)' = Sampled(k) /\ Settling(k)' = Settling(k) /\ Waits(k)' = Waits(k)
  BY <1>1 DEF Sampled, Settling, Waits, Noted
<1>5. \A k \in Key \ dropped' : Sampled(k)'
  BY <1>1, <1>4 DEF LineInv, AsleepIsSampled
<1>6. /\ AsleepIsNoted' /\ AsleepIsSampled' /\ UnnotedIsNew' /\ UnsampledIsNew'
      /\ MovesAreSampled'
  BY <1>1, <1>3, <1>5
     DEF LineInv, AsleepIsNoted, AsleepIsSampled, UnnotedIsNew, UnsampledIsNew, MovesAreSampled
<1>7. StillIsTimed'
  <2> SUFFICES ASSUME NEW k \in Key \ dropped, Waits(k)
               PROVE  settling'[k] = DEBOUNCE \/ still'[k] <= settling'[k]
    BY <1>1, <1>4 DEF StillIsTimed
  <2>1. settling[k] = DEBOUNCE \/ still[k] <= settling[k]
    BY DEF LineInv, StillIsTimed
  <2>2. settling[k] \in 0 .. DEBOUNCE
    BY DEF LineInv, TypeOK
  <2> QED BY <1>2, <2>1, <2>2 DEF Older, LineInv
<1>8. MaxStill >= DEBOUNCE => TimerIsStill'
  <2> SUFFICES ASSUME MaxStill >= DEBOUNCE, NEW k \in Key \ dropped, Waits(k)
               PROVE  settling'[k] <= still'[k]
    BY <1>1, <1>4 DEF TimerIsStill
  <2>1. settling[k] <= still[k] /\ settling[k] \in 0 .. DEBOUNCE /\ still[k] \in 0 .. MaxStill
    BY DEF LineInv, TimerIsStill, TypeOK
  <2> QED BY <1>2, <2>1 DEF Older
<1> QED BY <1>1, <1>6, <1>7, <1>8 DEF LineInv

\* A key the read shows as it was sampled was never seen otherwise while it settled.
LEMMA ReadFacts ==
    ASSUME LineInv, Read
    PROVE  /\ \A k \in Key : Noted(k)' /\ Settling(k)' = Settling(k)
           /\ \A k \in Key \ dropped : Waits(k)' => Waits(k)
           /\ UNCHANGED <<raw, candidate, stable, settling, still, lag, connected, dropped,
                          control, age>>
<1>1. /\ seen' = raw
      /\ UNCHANGED <<raw, candidate, stable, settling, still, lag, connected, dropped,
                     control, age>>
  BY DEF Read, debouncer, gesture
<1>2. \A k \in Key : Noted(k)' /\ Settling(k)' = Settling(k)
  BY <1>1 DEF Noted, Settling
<1>3. ASSUME NEW k \in Key \ dropped, Waits(k)' PROVE Waits(k)
  <2>1. Settling(k) /\ (k \in raw) = (k \in candidate)
    BY <1>1, <1>2, <1>3 DEF Waits, Sampled
  <2>2. Noted(k) \/ Sampled(k)
    BY <2>1 DEF LineInv, MovesAreSampled
  <2> QED BY <2>1, <2>2 DEF Waits, Noted, Sampled
<1> QED BY <1>1, <1>2, <1>3

LEMMA ReadKeeps == ASSUME LineInv, TypeOK', Read PROVE LineInv'
<1>1. /\ \A k \in Key : Noted(k)' /\ Settling(k)' = Settling(k)
      /\ \A k \in Key \ dropped : Waits(k)' => Waits(k)
      /\ UNCHANGED <<raw, candidate, stable, settling, still, lag, dropped>>
  BY ReadFacts
<1>2. at' = "reading" /\ seen' = raw
  BY DEF Read
<1>3. UnsampledIsNew'
  <2> SUFFICES ASSUME NEW k \in Key \ dropped, still[k] # 0 PROVE Sampled(k)'
    BY <1>1 DEF UnsampledIsNew
  <2>1. Noted(k) /\ Sampled(k)
    BY DEF LineInv, UnnotedIsNew, UnsampledIsNew
  <2> QED BY <1>1, <1>2, <2>1 DEF Noted, Sampled
<1>4. AsleepIsNoted' /\ AsleepIsSampled' /\ UnnotedIsNew' /\ MovesAreSampled'
  BY <1>1, <1>2 DEF AsleepIsNoted, AsleepIsSampled, UnnotedIsNew, MovesAreSampled
<1>5. StillIsTimed' /\ (TimerIsStill => TimerIsStill')
  BY <1>1 DEF LineInv, StillIsTimed, TimerIsStill
<1> QED BY <1>1, <1>3, <1>4, <1>5 DEF LineInv

\* What a poll makes of a key that goes on settling: it was known to before, or it is new.
LEMMA PollSettles ==
    ASSUME LineInv, Poll, NEW k \in Key \ dropped', Settling(k)'
    PROVE  /\ k \notin dropped
           /\ settling'[k] < DEBOUNCE
           /\ \/ still[k] = 0 /\ settling'[k] = 0
              \/ Sampled(k) /\ Settling(k) /\ settling'[k] = settling[k]
<1> USE TypeFacts
<1>1. /\ candidate' = seen /\ settling' = Since /\ stable' = Settled
      /\ dropped' = {j \in dropped : (j \in seen) # (j \in stable')}
  BY DEF Poll
<1>2. (k \in seen) # (k \in Settled)
  BY <1>1 DEF Settling
<1>3. k \notin dropped
  BY <1>1, <1>2
<1>4. initialised /\ ~(Since[k] >= DEBOUNCE) /\ (k \in Settled) = (k \in stable)
  BY <1>2 DEF Settled
<1>5. Since[k] = IF Sampled(k) THEN settling[k] ELSE 0
  BY <1>4 DEF Since, Sampled
<1>6. settling[k] \in Nat
  BY DEF LineInv
<1>7. settling'[k] < DEBOUNCE
  BY <1>1, <1>4, <1>5, <1>6
<1>8. CASE Sampled(k)
  <2>1. Settling(k)
    BY <1>2, <1>4, <1>8 DEF Sampled, Settling
  <2> QED BY <1>1, <1>3, <1>5, <1>7, <1>8, <2>1
<1>9. CASE ~Sampled(k)
  BY <1>1, <1>3, <1>5, <1>7, <1>9 DEF LineInv, UnsampledIsNew
<1> QED BY <1>8, <1>9

LEMMA PollKeeps == ASSUME LineInv, TypeOK', Poll PROVE LineInv'
<1> USE TypeFacts
<1>1. candidate' = seen /\ at' = "busy" /\ lag' = 0 /\ UNCHANGED <<raw, seen, still>>
  BY DEF Poll
<1>2. \A k \in Key : Sampled(k)' /\ Noted(k)' = Noted(k)
  BY <1>1 DEF Sampled, Noted
<1>3. /\ AsleepIsNoted' /\ AsleepIsSampled' /\ UnnotedIsNew' /\ UnsampledIsNew'
      /\ MovesAreSampled'
  BY <1>1, <1>2
     DEF LineInv, AsleepIsNoted, AsleepIsSampled, UnnotedIsNew, UnsampledIsNew, MovesAreSampled
<1>4. ASSUME NEW k \in Key \ dropped', Waits(k)'
      PROVE  /\ settling'[k] = DEBOUNCE \/ still'[k] <= settling'[k]
             /\ TimerIsStill => settling'[k] <= still'[k]
  <2>1. Settling(k)' /\ Noted(k)
    BY <1>2, <1>4 DEF Waits
  <2>2. /\ k \notin dropped
        /\ \/ still[k] = 0 /\ settling'[k] = 0
           \/ Sampled(k) /\ Settling(k) /\ settling'[k] = settling[k]
    BY <2>1, PollSettles
  <2>3. CASE still[k] = 0 /\ settling'[k] = 0
    BY <1>1, <2>3
  <2>4. CASE Sampled(k) /\ Settling(k) /\ settling'[k] = settling[k]
    <3>1. Waits(k)
      BY <2>1, <2>4 DEF Waits
    <3> QED BY <1>1, <2>2, <2>4, <3>1 DEF LineInv, StillIsTimed, TimerIsStill
  <2> QED BY <2>2, <2>3, <2>4
<1>5. StillIsTimed' /\ (TimerIsStill => TimerIsStill')
  BY <1>4 DEF StillIsTimed, TimerIsStill
<1> QED BY <1>1, <1>3, <1>5 DEF LineInv

LEMMA NextLineInv == Punctual /\ LineInv /\ [Next]_vars => LineInv'
<1> SUFFICES ASSUME Punctual, LineInv, [Next]_vars PROVE LineInv'
  OBVIOUS
<1>0. TypeOK'
  BY NextTypeOK DEF LineInv
<1>1. ASSUME NEW k \in Key, Move(k) PROVE LineInv'
  BY <1>0, <1>1, MoveKeeps
<1>2. CASE Tick
  BY <1>0, <1>2, TickKeeps
<1>3. CASE Read
  BY <1>0, <1>3, ReadKeeps
<1>4. CASE Poll
  BY <1>0, <1>4, PollKeeps
<1>5. CASE Finish \/ Accept
  BY <1>0, <1>5, SleepKeeps
<1>6. CASE Apply \/ Rescan \/ Event \/ Disconnect
  <2>1. /\ lag' = 0 /\ UNCHANGED <<raw, seen, debouncer, still, dropped>>
        /\ at' = "poll" \/ Event
    BY <1>6 DEF Apply, Rescan, Event, Disconnect, PollNext, LineInv
  <2> QED BY <1>0, <2>1, AwakeKeeps
<1>7. CASE Restart
  <2>1. /\ at' = "poll" /\ lag' = 0
        /\ \A k \in Key : still'[k] = 0 /\ ~Settling(k)'
    BY <1>7 DEF Restart, PollNext, Settling
  <2> QED BY <1>0, <2>1
          DEF LineInv, AsleepIsNoted, AsleepIsSampled, UnnotedIsNew, UnsampledIsNew,
              MovesAreSampled, StillIsTimed, TimerIsStill, Waits
<1>8. CASE UNCHANGED vars
  <2>1. UNCHANGED <<raw, seen, debouncer, still, dropped, at, lag>>
    BY <1>8 DEF vars, debouncer
  <2>2. \A k \in Key : Sampled(k)' = Sampled(k)
    BY <2>1 DEF Sampled, debouncer
  <2>3. AsleepIsNoted' /\ AsleepIsSampled'
    BY <2>1, <2>2 DEF LineInv, AsleepIsNoted, AsleepIsSampled
  <2> QED BY <1>0, <2>1, <2>3, KeysAlone DEF LineInv
<1>9. ~ReadFails
  BY DEF Punctual, ReadFails
<1> QED BY <1>1, <1>2, <1>3, <1>4, <1>5, <1>6, <1>7, <1>8, <1>9 DEF Next

LEMMA LineInvariance == ASSUME Punctual PROVE Spec => []LineInv
<1>1. Init => LineInv
  BY InitLineInv
<1>2. LineInv /\ [Next]_vars => LineInv'
  BY NextLineInv
<1> QED BY <1>1, <1>2, PTL DEF Spec

\* A key that bounces is not believed, if the loop is punctual, its interrupt works and no
\* read fails: debounce.rs takes a key for pressed or released only once it kept still.
THEOREM Debounced == ASSUME Punctual, MaxStill >= DEBOUNCE PROVE Spec => BouncesIgnored
<1>1. LineInv /\ [Next]_vars =>
         (initialised /\ initialised' =>
            \A k \in Key \ dropped : (k \in stable') # (k \in stable) =>
               still[k] >= DEBOUNCE \/ (k \in raw) # (k \in seen))
  <2> SUFFICES ASSUME LineInv, [Next]_vars, initialised, initialised',
                      NEW k \in Key \ dropped, (k \in stable') # (k \in stable), Noted(k)
               PROVE  still[k] >= DEBOUNCE
    BY DEF Noted
  <2>1. Poll
    BY DEF Next, Move, Tick, Read, ReadFails, Finish, Apply, Restart, Rescan, Accept, Event,
           Disconnect, vars, debouncer
  <2>2. Since[k] >= DEBOUNCE /\ (k \in stable') = (k \in seen)
    BY <2>1 DEF Poll, Settled
  <2>3. Sampled(k) /\ settling[k] >= DEBOUNCE
    BY <2>2 DEF Since, Sampled
  <2>4. Waits(k)
    BY <2>2, <2>3 DEF Waits, Sampled, Settling
  <2> QED BY <2>3, <2>4, TypeFacts DEF LineInv, TimerIsStill
<1> QED BY <1>1, LineInvariance, PTL DEF Spec, BouncesIgnored

------------------------------------------------------------------------------
(* Timers *)

LEMMA GraceFacts == Grace \in {0, 1} /\ (connected => Grace = 1) /\ (~connected => Grace = 0)
BY DEF Grace

\* A sleep that counted on `left` does not overdo `due`.
LEMMA SleepInTime ==
    ASSUME TypeOK, Sleep, NEW spent \in Nat, NEW due \in Nat, spent < due + Grace',
           NEW left \in next_deadline \cup next_settle, left = 0 \/ left <= due - spent
    PROVE  /\ at' # "busy"
           /\ at' = "asleep" => spent + timer' <= due + Grace'
           /\ at' \in {"poll", "reading"} => spent <= due + 1
<1>1. at' = "asleep" => timer' = sleep_budget
  BY SleepFacts
<1>2. sleep_budget \in Nat /\ sleep_budget >= 1 /\ (sleep_budget = 1 \/ sleep_budget <= left)
  BY Budget, TimeAssumption
<1>3. at' # "busy"
  BY SleepFacts
<1>4. left \in Nat
  BY Numbers
<1>5. sleep_budget = 1 \/ sleep_budget <= due - spent
  BY <1>2, <1>4
<1>6. spent + sleep_budget <= due + Grace'
  BY <1>2, <1>5 DEF Grace
<1>7. spent <= due + 1
  BY DEF Grace
<1>8. at' = "asleep" => spent + timer' <= due + Grace'
  BY <1>1, <1>6 DEF Grace
<1> QED BY <1>3, <1>7, <1>8

\* Time passes in a sleep.
LEMMA TickInTime ==
    ASSUME TypeOK, at = "asleep", at' = at, timer' = timer - 1, timer > 0, connected' = connected,
           NEW spent \in Nat, NEW later \in Nat, later <= spent + 1, NEW due \in Nat,
           InTime(spent, due)
    PROVE  at' = "asleep" => later + timer' <= due + Grace'
BY TypeFacts, GraceFacts DEF InTime, Grace

\* A loop that wakes up or never slept is still in time when it polls.
LEMMA PollInTime ==
    ASSUME TypeOK, NEW spent \in Nat, NEW due \in Nat, InTime(spent, due)
    PROVE  spent <= due + 1
<1>1. timer \in Nat /\ Grace \in {0, 1}
  BY TypeFacts, GraceFacts
<1>2. at \in {"poll", "reading", "busy", "asleep"}
  BY DEF TypeOK
<1> QED BY <1>1, <1>2 DEF InTime

\* An event interrupts a sleep.
LEMMA EventInTime ==
    ASSUME TypeOK, Event, NEW spent \in Nat, NEW due \in Nat, InTime(spent, due)
    PROVE  spent < due + Grace'
<1>1. at = "asleep" /\ timer > 0 /\ connected /\ connected' = connected
  BY DEF Event
<1>2. timer \in Nat /\ Grace = 1 /\ Grace' = 1
  BY <1>1, TypeFacts DEF Grace
<1> QED BY <1>1, <1>2 DEF InTime

\* What is in time when the loop goes to sleep.
LEMMA SpareTime ==
    ASSUME TypeOK, Finish \/ Accept, at \in {"busy", "asleep"},
           NEW spent \in Nat, NEW due \in Nat, InTime(spent, due)
    PROVE  spent < due + Grace'
<1>1. CASE Finish
  <2>1. at = "busy" /\ connected' = connected
    BY <1>1 DEF Finish
  <2> QED BY <2>1 DEF InTime, Grace
<1>2. CASE Accept
  <2>1. ~connected /\ connected'
    BY <1>2 DEF Accept
  <2>2. timer \in Nat /\ Grace = 0 /\ Grace' = 1
    BY <2>1, TypeFacts DEF Grace
  <2> QED BY <2>1, <2>2 DEF InTime
<1> QED BY <1>1, <1>2

\* The goal for a time that is waited for.
Timed(spent, due) ==
    /\ at' = "asleep" => spent + timer' <= due + Grace'
    /\ at' = "busy"   => spent < due + Grace'
    /\ at' \in {"poll", "reading"} => spent <= due + 1

\* A step that neither polls, sleeps nor takes time keeps what was in time.
LEMMA StaysTimed ==
    ASSUME TypeOK, NEW spent \in Nat, NEW due \in Nat, InTime(spent, due),
           \/ at' \in {"poll", "reading"}
           \/ UNCHANGED <<at, timer, connected>>
           \/ Event
    PROVE  Timed(spent, due)
<1>1. CASE at' \in {"poll", "reading"}
  BY <1>1, PollInTime DEF Timed
<1>2. CASE UNCHANGED <<at, timer, connected>>
  <2>1. Grace' = Grace
    BY <1>2 DEF Grace
  <2> QED BY <1>2, <2>1, PollInTime DEF Timed, InTime
<1>3. CASE Event
  <2>1. at' = "busy"
    BY <1>3 DEF Event
  <2> QED BY <1>3, <2>1, EventInTime DEF Timed
<1> QED BY <1>1, <1>2, <1>3

LEMMA MoveTimed ==
    ASSUME NEW k \in Key, Move(k)
    PROVE  at' = "poll" \/ UNCHANGED <<at, timer, connected>>
BY DEF Move, PollNext

------------------------------------------------------------------------------
(* The timers of the controls *)

\* The controls have a unit to spare when the loop is about to poll.
LEMMA HoldsSpared ==
    ASSUME Punctual, IInv, [Next]_vars, control'.at \in DOMAIN Due
    PROVE  HoldSpared'
<1> DEFINE due == Due[control'.at]
<1> SUFFICES ASSUME at' \in {"poll", "reading"} PROVE age' <= due + Grace'
  BY DEF HoldSpared
<1>1. TypeOK /\ due \in Nat /\ age \in Nat
  BY TypeFacts, DueFacts DEF IInv, LineInv
<1> HIDE DEF due
<1>2. /\ control' = control /\ age' = age
      /\ \/ connected' = connected
         \/ connected'
         \/ at = "busy"
  <2>1. ~Restart /\ ~Disconnect
    BY NewFacts DEF Restart, Disconnect
  <2>2. ~Poll /\ ~Event
    BY DEF Poll, Event
  <2>3. ~Tick
    BY TickAsleep DEF IInv
  <2>4. ~ReadFails
    BY DEF Punctual, ReadFails
  <2>5. ASSUME NEW k \in Key, Move(k)
        PROVE  control' = control /\ age' = age /\ connected' = connected
    BY <2>5 DEF Move, gesture
  <2> QED BY <2>1, <2>2, <2>3, <2>4, <2>5
          DEF Next, Read, Finish, Apply, Rescan, Accept, gesture, vars
<1>3. InTime(age, due) /\ (at \in {"poll", "reading"} => age <= due + Grace)
  BY <1>2 DEF IInv, HoldsInTime, HoldSpared, due
<1>4. at \in {"poll", "reading", "busy", "asleep"} /\ timer \in Nat
  BY <1>1, TypeFacts DEF TypeOK
<1>5. age <= due + Grace /\ (at = "busy" => age < due + Grace)
  BY <1>1, <1>3, <1>4, GraceFacts DEF InTime
<1>6. CASE connected' = connected
  BY <1>2, <1>5, <1>6 DEF Grace
<1>7. CASE connected' \/ at = "busy"
  BY <1>1, <1>2, <1>5, <1>7 DEF Grace
<1> QED BY <1>2, <1>6, <1>7

LEMMA HoldsKept == ASSUME Punctual, IInv, [Next]_vars PROVE HoldsInTime'
<1> DEFINE due == Due[control'.at]
<1> SUFFICES ASSUME control'.at \in DOMAIN Due PROVE Timed(age', due)
  BY HoldsSpared DEF HoldsInTime, InTime, Timed
<1>1. LineInv /\ TypeOK /\ TypeOK'
  BY NextTypeOK DEF IInv, LineInv
<1>2. due \in Nat /\ age \in Nat /\ age' \in Nat
  <2>1. MaxAge \in Nat
    BY MaxAgeFact
  <2> QED BY <1>1, <2>1, DueFacts DEF TypeOK
<1> HIDE DEF due
<1>3. ASSUME control' = control PROVE InTime(age, due)
  BY <1>3 DEF IInv, HoldsInTime, due
<1>4. ASSUME NEW k \in Key, Move(k) PROVE Timed(age', due)
  <2>1. control' = control /\ age' = age
    BY <1>4 DEF Move, gesture
  <2> QED BY <1>1, <1>2, <1>3, <1>4, <2>1, MoveTimed, StaysTimed
<1>5. CASE Tick
  <2>1. /\ at = "asleep" /\ at' = at /\ timer > 0 /\ timer' = timer - 1
        /\ control' = control /\ connected' = connected /\ age' <= age + 1
    BY <1>1, <1>5, TickAsleep
  <2>2. InTime(age, due)
    BY <1>3, <2>1
  <2>3. at' = "asleep" => age' + timer' <= due + Grace'
    BY <1>1, <1>2, <2>1, <2>2, TickInTime
  <2> QED BY <2>1, <2>3 DEF Timed
<1>6. CASE Poll
  <2>1. age' < due /\ at' = "busy"
    BY <1>1, <1>6, PollFacts DEF Poll, due
  <2> QED BY <1>2, <2>1 DEF Timed, Grace
<1>7. CASE Finish \/ Accept
  <2>1. Sleep /\ control' = control /\ age' = age
    BY <1>7 DEF Finish, Accept, gesture
  <2>2. age < due + Grace'
    <3>1. CASE at \in {"busy", "asleep"}
      BY <1>1, <1>2, <1>3, <1>7, <2>1, <3>1, SpareTime
    <3>2. CASE at \in {"poll", "reading"}
      <4>1. Accept
        BY <1>7, <3>2 DEF Finish
      <4>2. Grace = 0 /\ Grace' = 1
        BY <4>1 DEF Accept, Grace
      <4>3. age <= due + Grace
        BY <2>1, <3>2 DEF IInv, HoldsInTime, HoldSpared, due
      <4> QED BY <1>2, <4>2, <4>3
    <3> QED BY <1>1, <3>1, <3>2 DEF TypeOK
  <2>3. Left(due, age) \in next_deadline
    BY <2>1 DEF next_deadline, due
  <2>4. Left(due, age) = 0 \/ Left(due, age) <= due - age
    BY <1>2 DEF Left
  <2> QED BY <1>1, <1>2, <2>1, <2>2, <2>3, <2>4, SleepInTime DEF Timed
<1>8. CASE Apply \/ Rescan \/ Event
  <2>1. control' = control /\ age' = age /\ (at' = "poll" \/ Event)
    BY <1>8 DEF Apply, Rescan, Event, PollNext, gesture
  <2> QED BY <1>1, <1>2, <1>3, <2>1, StaysTimed
<1>9. CASE Restart \/ Disconnect
  BY <1>9, NewFacts DEF Restart, Disconnect
<1>10. CASE UNCHANGED vars
  <2>1. control' = control /\ age' = age /\ UNCHANGED <<at, timer, connected>>
    BY <1>10 DEF vars
  <2> QED BY <1>1, <1>2, <1>3, <2>1, StaysTimed
<1>11. CASE Read
  <2>1. control' = control /\ age' = age /\ at' = "reading"
    BY <1>11 DEF Read, gesture
  <2> QED BY <1>1, <1>2, <1>3, <2>1, StaysTimed
<1> QED BY <1>4, <1>5, <1>6, <1>7, <1>8, <1>9, <1>10, <1>11 DEF Next, ReadFails, Punctual, due

------------------------------------------------------------------------------
(* The timers of the keys *)

LEMMA KeysKept == ASSUME Punctual, IInv, LineInv', [Next]_vars PROVE KeysInTime'
<1> SUFFICES ASSUME NEW k \in Key \ dropped', Waits(k)' PROVE Timed(still'[k], DEBOUNCE)
  BY DEF KeysInTime, InTime, Timed
<1>1. LineInv /\ TypeOK /\ TypeOK'
  BY NextTypeOK DEF IInv, LineInv
<1>2. still[k] \in Nat /\ still'[k] \in Nat /\ settling[k] \in Nat /\ settling'[k] \in Nat
  BY <1>1, TypeFacts DEF TypeOK
<1>3. ASSUME UNCHANGED <<raw, seen, stable, candidate>>, k \notin dropped
      PROVE  Waits(k) /\ InTime(still[k], DEBOUNCE)
  BY <1>3 DEF Waits, Noted, Sampled, Settling, IInv, KeysInTime
<1>4. ASSUME NEW j \in Key, Move(j) PROVE Timed(still'[k], DEBOUNCE)
  <2>1. /\ ~Noted(j)'
        /\ \A i \in Key \ {j} : Noted(i)' = Noted(i) /\ still'[i] = still[i]
        /\ \A i \in Key : Sampled(i)' = Sampled(i) /\ Settling(i)' = Settling(i)
        /\ dropped' = dropped
    BY <1>1, <1>4, MoveFacts
  <2>2. k # j /\ Waits(k) /\ k \notin dropped /\ still'[k] = still[k]
    BY <2>1 DEF Waits
  <2>3. InTime(still[k], DEBOUNCE)
    BY <2>2 DEF IInv, KeysInTime
  <2> QED BY <1>1, <1>2, <1>4, <2>2, <2>3, MoveTimed, StaysTimed
<1>5. CASE Tick
  <2>1. /\ at = "asleep" /\ at' = at /\ timer > 0 /\ timer' = timer - 1
        /\ connected' = connected /\ still'[k] <= still[k] + 1
        /\ UNCHANGED <<raw, seen, stable, candidate, dropped>>
    BY <1>1, <1>5, TickAsleep
  <2>2. InTime(still[k], DEBOUNCE)
    BY <1>3, <2>1
  <2>3. at' = "asleep" => still'[k] + timer' <= DEBOUNCE + Grace'
    BY <1>1, <1>2, <2>1, <2>2, TickInTime
  <2> QED BY <2>1, <2>3 DEF Timed
<1>6. CASE Poll
  <2>1. at' = "busy" /\ still' = still
    BY <1>6 DEF Poll
  <2>2. settling'[k] < DEBOUNCE
    BY <1>1, <1>6, PollSettles DEF Waits
  <2>3. still'[k] < DEBOUNCE
    BY <1>2, <2>2 DEF LineInv, StillIsTimed
  <2> QED BY <1>2, <2>1, <2>3 DEF Timed, Grace
<1>7. CASE Finish \/ Accept
  <2>1. Sleep /\ UNCHANGED <<raw, seen, stable, candidate, settling, still>> /\ k \notin dropped
    BY <1>7 DEF Finish, Accept, debouncer
  <2>2. Waits(k) /\ InTime(still[k], DEBOUNCE)
    BY <1>3, <2>1
  <2>3. at \in {"busy", "asleep"}
    <3>1. k \in Unsampled
      BY <2>2 DEF Waits, Settling, Unsampled
    <3> QED BY <1>1, <1>7, <3>1 DEF Finish, Accept, TypeOK
  <2>4. still[k] < DEBOUNCE + Grace'
    BY <1>1, <1>2, <1>7, <2>2, <2>3, SpareTime
  <2>5. Left(DEBOUNCE, settling[k]) \in next_settle
    BY <2>2 DEF next_settle, Waits, Settling
  <2>6. settling[k] = DEBOUNCE \/ still[k] <= settling[k]
    BY <1>1, <2>1, <2>2 DEF LineInv, StillIsTimed
  <2>7. Left(DEBOUNCE, settling[k]) = 0 \/ Left(DEBOUNCE, settling[k]) <= DEBOUNCE - still[k]
    BY <1>2, <2>6 DEF Left
  <2>8. still'[k] = still[k]
    BY <2>1
  <2> QED BY <1>1, <1>2, <2>1, <2>4, <2>5, <2>7, <2>8, SleepInTime DEF Timed
<1>8. CASE Apply \/ Rescan \/ Disconnect \/ Event
  <2>1. /\ UNCHANGED <<raw, seen, stable, candidate, still>> /\ k \notin dropped
        /\ at' = "poll" \/ Event
    BY <1>8 DEF Apply, Rescan, Disconnect, Event, PollNext, debouncer
  <2> QED BY <1>1, <1>2, <1>3, <2>1, StaysTimed
<1>9. CASE Restart
  BY <1>9 DEF Restart, Waits, Settling
<1>10. CASE UNCHANGED vars
  <2>1. /\ UNCHANGED <<raw, seen, stable, candidate, still>> /\ k \notin dropped
        /\ UNCHANGED <<at, timer, connected>>
    BY <1>10 DEF vars
  <2> QED BY <1>1, <1>2, <1>3, <2>1, StaysTimed
<1>11. CASE Read
  <2>1. Waits(k) /\ k \notin dropped /\ still' = still
    BY <1>1, <1>11, ReadFacts
  <2>2. InTime(still[k], DEBOUNCE) /\ at' = "reading"
    BY <1>11, <2>1 DEF IInv, KeysInTime, Read
  <2> QED BY <1>1, <1>2, <2>1, <2>2, StaysTimed
<1> QED BY <1>4, <1>5, <1>6, <1>7, <1>8, <1>9, <1>10, <1>11 DEF Next, ReadFails, Punctual

------------------------------------------------------------------------------

\* The invariant of a punctual loop.
THEOREM Invariance == ASSUME Punctual PROVE Spec => []IInv
<1>2. Init => IInv
  <2> SUFFICES ASSUME Init PROVE IInv
    OBVIOUS
  <2>1. LineInv
    BY InitLineInv
  <2>2. KeysInTime /\ HoldsInTime
    BY NewFacts DEF Init, KeysInTime, HoldsInTime, Waits, Settling
  <2> QED BY <2>1, <2>2 DEF IInv
<1>3. IInv /\ [Next]_vars => IInv'
  <2> SUFFICES ASSUME IInv, [Next]_vars PROVE IInv'
    OBVIOUS
  <2>1. LineInv'
    BY NextLineInv DEF IInv
  <2> QED BY <2>1, KeysKept, HoldsKept DEF IInv
<1> QED BY <1>2, <1>3, PTL DEF Spec

\* A key that is down, or let go, is known to be so in the time it takes to settle and
\* one unit, unless a connection took away the poll that would have sampled it (debounce.rs,
\* sleep_budget and app_loop of ble.rs).
THEOREM PromptKeys == ASSUME Punctual PROVE Spec => []SeenInTime
<1>1. IInv => SeenInTime
  <2> SUFFICES ASSUME IInv, NEW k \in Key \ dropped, (k \in raw) # (k \in stable)
               PROVE  still[k] <= DEBOUNCE + 1
    BY DEF SeenInTime
  <2>1. TypeOK /\ still[k] \in Nat
    BY TypeFacts DEF IInv, LineInv
  <2>2. CASE ~Noted(k) \/ ~Sampled(k)
    BY <2>2 DEF IInv, LineInv, UnnotedIsNew, UnsampledIsNew
  <2>3. CASE Noted(k) /\ Sampled(k)
    <3>1. Waits(k)
      BY <2>3 DEF Waits, Noted, Sampled, Settling
    <3>2. InTime(still[k], DEBOUNCE)
      BY <3>1 DEF IInv, KeysInTime
    <3> QED BY <2>1, <3>2, PollInTime
  <2> QED BY <2>2, <2>3
<1> QED BY <1>1, Invariance, PTL

\* No timer of the controls is overslept (next_deadline of host_slots.rs).
THEOREM PromptHolds == ASSUME Punctual PROVE Spec => []TimersKept
<1>1. IInv => TimersKept
  <2> SUFFICES ASSUME IInv, control.at \in DOMAIN Due PROVE age <= Due[control.at] + 1
    BY DEF TimersKept
  <2>1. TypeOK /\ age \in Nat /\ Due[control.at] \in Nat
    BY TypeFacts, DueFacts DEF IInv, LineInv
  <2>2. InTime(age, Due[control.at])
    BY DEF IInv, HoldsInTime
  <2> QED BY <2>1, <2>2, PollInTime
<1> QED BY <1>1, Invariance, PTL
==============================================================================
