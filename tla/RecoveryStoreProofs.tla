------------------------ MODULE RecoveryStoreProofs ------------------------
(***************************************************************************)
(* Proofs about RecoveryStore: driven by its gestures the store still      *)
(* implements HostStore, so what is proved there carries over; and a reset *)
(* is begun by a user who means it.                                        *)
(***************************************************************************)
EXTENDS RecoveryStore, HostStoreProofs

(* The gestures only restrict the store. *)

\* Every step with the gestures is a step of the store, or leaves it alone.
LEMMA StepIsStoreStep == [RNext]_rvars => [Next]_vars
<1> SUFFICES ASSUME [RNext]_rvars PROVE [Next]_vars
  OBVIOUS
<1>1. ASSUME NEW keys \in SUBSET RKey, NEW elapsed \in 0 .. 1, RecoverPoll(keys, elapsed)
      PROVE  [Next]_vars
  <2>1. Recognised(keys, elapsed) \in {"none", "retry", "reset"}
    BY DEF Recognised
  <2>2. (Retry \/ EraseLegacy) \/ UNCHANGED vars
    BY <1>1, <2>1 DEF RecoverPoll
  <2> QED BY <2>2 DEF Next
<1>2. CASE EnterRecovery
  BY <1>2 DEF EnterRecovery, Next
<1>3. CASE Elsewhere
  BY <1>3 DEF Elsewhere, Next
<1>4. CASE UNCHANGED rvars
  BY <1>4 DEF rvars
<1>5. CASE \E elapsed \in 0 .. 1 : RecoverPollFails(elapsed)
  BY <1>5 DEF RecoverPollFails
<1> QED BY <1>1, <1>2, <1>3, <1>4, <1>5 DEF RNext

\* The store with its gestures implements the store without: every theorem of
\* HostStoreProofs holds for it.
THEOREM GesturesImplementStore == RSpec => Spec
<1>1. RInit => Init
  BY DEF RInit
<1>2. [RNext]_rvars => [Next]_vars
  BY StepIsStoreStep
<1> QED BY <1>1, <1>2, PTL DEF RSpec, Spec

\* So the flash implements the atomic registry whatever is held on the pad.
THEOREM RecoveryRefinement == RSpec => ImplementsRegistry
  BY GesturesImplementStore, Refinement

------------------------------------------------------------------------------
(* The gestures *)

\* Once the controls watch, a key-free moment lies behind, and the time they count
\* for the keys they saw is time these have really been down.
Watched ==
    ~draining => rested /\ candidate = down /\ since <= held

GestureInv == GestureOK /\ Watched

\* Time never runs past its cap.
LEMMA LaterFacts ==
    ASSUME NEW time \in 0 .. RESET_HOLD, NEW elapsed \in 0 .. 1
    PROVE  /\ Later(time, elapsed) \in 0 .. RESET_HOLD
           /\ \A longer \in 0 .. RESET_HOLD :
                 time <= longer => Later(time, elapsed) <= Later(longer, elapsed)
BY GestureAssumption DEF Later

\* A poll keeps the invariant.
LEMMA PollKeeps ==
    ASSUME GestureInv, NEW keys \in SUBSET RKey, NEW elapsed \in 0 .. 1,
           Update(keys, elapsed), Watch(keys, elapsed)
    PROVE  GestureInv'
<1> USE GestureAssumption DEF GestureInv, GestureOK
<1> DEFINE still == Since(keys, elapsed)
<1>1. Later(since, elapsed) \in 0 .. RESET_HOLD /\ Later(held, elapsed) \in 0 .. RESET_HOLD
  BY LaterFacts
<1>2. still \in 0 .. RESET_HOLD
  BY <1>1 DEF Since
<1>3. GestureOK'
  <2>1. draining' \in BOOLEAN /\ candidate' \subseteq RKey /\ since' \in 0 .. RESET_HOLD
    <3>1. CASE draining
      <4>1. draining' = (keys # {})
        BY <3>1 DEF Update
      <4>2. candidate' \subseteq RKey /\ since' \in 0 .. RESET_HOLD
        BY <3>1, <1>1 DEF Update
      <4> QED BY <4>1, <4>2
    <3>2. CASE ~draining
      <4>1. draining' = (Recognised(keys, elapsed) # "none")
        BY <3>2 DEF Update
      <4>2. candidate' \subseteq RKey /\ since' \in 0 .. RESET_HOLD
        BY <3>2, <1>2 DEF Update
      <4> QED BY <4>1, <4>2
    <3> QED BY <3>1, <3>2
  <2>2. down' \subseteq RKey /\ held' \in 0 .. RESET_HOLD /\ rested' \in BOOLEAN
    BY <1>1 DEF Watch
  <2> QED BY <2>1, <2>2
<1>4. Watched'
  <2> SUFFICES ASSUME ~draining' PROVE rested' /\ candidate' = down' /\ since' <= held'
    BY DEF Watched
  <2>1. CASE draining
    <3>1. keys = {} /\ candidate' = {} /\ since' = 0
      BY <2>1 DEF Update
    <3>2. Recognised(keys, elapsed) = "none"
      BY <2>1 DEF Recognised
    <3>3. rested'
      BY <3>1, <3>2 DEF Watch
    <3>4. candidate' = down'
      BY <3>1 DEF Watch
    <3>5. since' <= held'
      BY <1>3, <3>1
    <3> QED BY <3>3, <3>4, <3>5
  <2>2. CASE ~draining
    <3>1. Recognised(keys, elapsed) = "none" /\ candidate' = keys /\ since' = still
      BY <2>2 DEF Update
    <3>2. rested /\ candidate = down /\ since <= held
      BY <2>2 DEF Watched
    <3>3. rested' /\ down' = keys
      BY <3>1, <3>2 DEF Watch
    <3>4. still <= held'
      <4>1. CASE keys = down
        <5>1. still = Later(since, elapsed) /\ held' = Later(held, elapsed)
          BY <4>1, <3>2 DEF Since, Watch
        <5> QED BY <5>1, <3>2, LaterFacts
      <4>2. CASE keys # down
        BY <4>2, <3>2 DEF Since, Watch
      <4> QED BY <4>1, <4>2
    <3> QED BY <3>1, <3>3, <3>4
  <2> QED BY <2>1, <2>2
<1> QED BY <1>3, <1>4

\* The invariant holds at first, and every step keeps it.
LEMMA InitGestureInv == RInit => GestureInv
<1> SUFFICES ASSUME RInit PROVE GestureInv
  OBVIOUS
<1>1. 0 \in 0 .. RESET_HOLD
  BY GestureAssumption
<1>2. draining \in BOOLEAN /\ rested \in BOOLEAN /\ draining
  BY DEF RInit
<1>3. since = 0 /\ held = 0 /\ candidate = {} /\ down = {}
  BY DEF RInit
<1> QED BY <1>1, <1>2, <1>3 DEF GestureInv, GestureOK, Watched

LEMMA NextGestureInv == GestureInv /\ [RNext]_rvars => GestureInv'
<1> SUFFICES ASSUME GestureInv, [RNext]_rvars PROVE GestureInv'
  OBVIOUS
<1>1. ASSUME NEW keys \in SUBSET RKey, NEW elapsed \in 0 .. 1, RecoverPoll(keys, elapsed)
      PROVE  GestureInv'
  BY <1>1, PollKeeps DEF RecoverPoll
<1>2. CASE EnterRecovery
  <2>1. 0 \in 0 .. RESET_HOLD
    BY GestureAssumption
  <2>2. draining' \in BOOLEAN /\ rested' \in BOOLEAN /\ draining'
    BY <1>2 DEF EnterRecovery, Default
  <2>3. since' = 0 /\ held' = 0 /\ candidate' = {} /\ down' = {}
    BY <1>2 DEF EnterRecovery, Default
  <2> QED BY <2>1, <2>2, <2>3 DEF GestureInv, GestureOK, Watched
<1>3. CASE UNCHANGED <<gesture, history>>
  BY <1>3 DEF gesture, history, GestureInv, GestureOK, Watched
<1>4. Elsewhere \/ UNCHANGED rvars => UNCHANGED <<gesture, history>>
  BY DEF Elsewhere, rvars
<1>5. ASSUME NEW elapsed \in 0 .. 1, RecoverPollFails(elapsed)
      PROVE  GestureInv'
  <2>1. GestureOK'
    BY <1>5, LaterFacts DEF RecoverPollFails, GestureInv, GestureOK
  <2>2. Watched'
    BY <1>5, LaterFacts DEF RecoverPollFails, GestureInv, GestureOK, Watched
  <2> QED BY <2>1, <2>2 DEF GestureInv
<1> QED BY <1>1, <1>2, <1>3, <1>4, <1>5 DEF RNext

LEMMA GestureInvariance == RSpec => []GestureInv
  BY InitGestureInv, NextGestureInv, PTL DEF RSpec

\* The steps out of recovery mode that erase anything are polls that found a reset.
LEMMA OnlyResetErases ==
    ASSUME [RNext]_rvars, mode = "recovery", mode' = "erasing" \/ legacy' # legacy
    PROVE  \E keys \in SUBSET RKey, elapsed \in 0 .. 1 :
              RecoverPoll(keys, elapsed) /\ Recognised(keys, elapsed) = "reset"
<1>1. ASSUME NEW keys \in SUBSET RKey, NEW elapsed \in 0 .. 1, RecoverPoll(keys, elapsed)
      PROVE  Recognised(keys, elapsed) = "reset"
  <2>1. Recognised(keys, elapsed) \in {"none", "retry", "reset"}
    BY DEF Recognised
  <2>2. ~(Retry \/ UNCHANGED vars)
    BY DEF Retry, vars
  <2> QED BY <1>1, <2>1, <2>2 DEF RecoverPoll
<1>2. ~EnterRecovery
  BY DEF EnterRecovery, BootFails
<1>3. ~Elsewhere
  <2>1. ~(Boot \/ Reboot \/ MediaFault \/ EraseJournal \/ SaveEmpty)
    BY DEF Boot, Reboot, MediaFault, EraseJournal, SaveEmpty
  <2>2. ~(PowerLoss \/ Disconnect \/ BondLost)
    BY DEF PowerLoss, Disconnect, BondLost
  <2>3. ~(\E p \in Peer : Connect(p))
    BY DEF Connect
  <2>4. ~(\E level \in Level, bond \in Bond \cup {None} : CommitBond(level, bond))
    BY DEF CommitBond
  <2>5. ~(\E action \in Action : ApplyAction(action))
    BY DEF ApplyAction
  <2> QED BY <2>1, <2>2, <2>3, <2>4, <2>5 DEF Elsewhere
<1>4. ~(UNCHANGED rvars)
  BY DEF rvars, vars
<1>5. ~(\E elapsed \in 0 .. 1 : RecoverPollFails(elapsed))
  BY DEF RecoverPollFails, vars
<1> QED BY <1>1, <1>2, <1>3, <1>4, <1>5 DEF RNext

\* Bonds are erased only after the reset keys were held for RESET_HOLD without a
\* break, with a key-free moment before.
THEOREM ResetSafety == RSpec => ResetIsMeant
<1> DEFINE meant ==
      mode = "recovery" /\ (mode' = "erasing" \/ legacy' # legacy) =>
         /\ rested
         /\ down = RESET_KEYS /\ down' = RESET_KEYS
         /\ held' = RESET_HOLD
<1>1. GestureInv /\ GestureInv' /\ [RNext]_rvars => meant
  <2> SUFFICES ASSUME GestureInv, GestureInv', [RNext]_rvars,
                      mode = "recovery", mode' = "erasing" \/ legacy' # legacy
               PROVE  /\ rested
                      /\ down = RESET_KEYS /\ down' = RESET_KEYS
                      /\ held' = RESET_HOLD
    OBVIOUS
  <2>1. PICK keys \in SUBSET RKey, elapsed \in 0 .. 1 :
           RecoverPoll(keys, elapsed) /\ Recognised(keys, elapsed) = "reset"
    BY OnlyResetErases
  <2>2. ~draining /\ keys = RESET_KEYS /\ Since(keys, elapsed) >= RESET_HOLD
    BY <2>1 DEF Recognised
  <2>3. rested /\ candidate = down /\ since <= held
    BY <2>2 DEF GestureInv, Watched
  <2>4. keys = candidate
    BY <2>2, GestureAssumption DEF Since
  <2>5. Watch(keys, elapsed)
    BY <2>1 DEF RecoverPoll
  <2>6. held' = Later(held, elapsed) /\ Since(keys, elapsed) = Later(since, elapsed)
    BY <2>3, <2>4, <2>5 DEF Watch, Since
  <2>7. Later(since, elapsed) <= Later(held, elapsed) /\ Later(held, elapsed) \in 0 .. RESET_HOLD
    BY <2>3, LaterFacts DEF GestureInv, GestureOK
  <2>8. Later(since, elapsed) \in 0 .. RESET_HOLD
    BY LaterFacts DEF GestureInv, GestureOK
  <2>9. held' = RESET_HOLD
    BY <2>2, <2>6, <2>7, <2>8, GestureAssumption
  <2> QED BY <2>2, <2>3, <2>4, <2>5, <2>9 DEF Watch
<1>2. [meant]_rvars <=> meant \/ UNCHANGED rvars
  OBVIOUS
<1> QED BY <1>1, GestureInvariance, PTL DEF RSpec, ResetIsMeant
==============================================================================
