---------------------------- MODULE RecoveryStore ----------------------------
(***************************************************************************)
(* HostStore with the gestures that drive its recovery mode: the loop of   *)
(* ble::recover and the controls of recovery.rs.  A retry or a reset is    *)
(* begun by a poll that recognises its gesture, and by nothing else.       *)
(*                                                                         *)
(* Polls are 5 ms apart and keys are debounced for longer, so every change *)
(* of the debounced keys is seen by some poll (PadLoop).                   *)
(***************************************************************************)
EXTENDS HostStore

CONSTANTS
    RKey,        \* the keys of the pad that matter here
    RETRY_KEY,   \* `+`
    RESET_KEYS,  \* the three slot keys
    RETRY_HOLD,  \* in time units: 3 s
    RESET_HOLD   \* in time units: 5 s

ASSUME GestureAssumption ==
    /\ RETRY_KEY \in RKey
    /\ RESET_KEYS \subseteq RKey
    /\ RESET_KEYS \notin {{}, {RETRY_KEY}}
    /\ RETRY_HOLD \in Nat \ {0}
    /\ RESET_HOLD \in Nat /\ RESET_HOLD >= RETRY_HOLD

VARIABLES
    draining,   \* recovery::Controls: waiting for all keys to be released,
    candidate,  \* the keys down at the last poll,
    since,      \* and for how long; times beyond RESET_HOLD are all alike
    down,       \* history: the keys at the last poll of recovery mode,
    held,       \* how long exactly these have been down,
    rested      \* and that no key was down since recovery or its last action began

gesture == <<draining, candidate, since>>
history == <<down, held, rested>>
rvars   == <<vars, gesture, history>>

\* Their types, which the proofs need.
GestureOK ==
    /\ draining \in BOOLEAN
    /\ candidate \subseteq RKey
    /\ since \in 0 .. RESET_HOLD
    /\ down \subseteq RKey
    /\ held \in 0 .. RESET_HOLD
    /\ rested \in BOOLEAN

\* Controls::default.
Default ==
    /\ draining' = TRUE
    /\ candidate' = {}
    /\ since' = 0

RInit ==
    /\ Init
    /\ draining = TRUE
    /\ candidate = {}
    /\ since = 0
    /\ down = {}
    /\ held = 0
    /\ rested = FALSE

\* Time as it is kept: the Instants of the code need no cap.
Later(time, elapsed) == IF time + elapsed < RESET_HOLD THEN time + elapsed ELSE RESET_HOLD

\* How long the keys of this poll have been the candidate.
Since(keys, elapsed) == IF keys = candidate THEN Later(since, elapsed) ELSE 0

\* Mutant of Recognised: draining is not looked at.
RecognisedHeld(keys, elapsed) ==
    IF keys = {RETRY_KEY} /\ Since(keys, elapsed) >= RETRY_HOLD THEN "retry"
    ELSE IF keys = RESET_KEYS /\ Since(keys, elapsed) >= RESET_HOLD THEN "reset"
    ELSE "none"

\* The action Controls::update finds.
Recognised(keys, elapsed) ==
    IF draining THEN "none"
    ELSE IF keys = {RETRY_KEY} /\ Since(keys, elapsed) >= RETRY_HOLD THEN "retry"
    ELSE IF keys = RESET_KEYS /\ Since(keys, elapsed) >= RESET_HOLD THEN "reset"
    ELSE "none"

\* Controls::update.
Update(keys, elapsed) ==
    IF draining
    THEN /\ draining' = (keys # {})
         /\ candidate' = IF keys = {} THEN {} ELSE candidate
         /\ since' = IF keys = {} THEN 0 ELSE Later(since, elapsed)
    ELSE /\ draining' = (Recognised(keys, elapsed) # "none")
         /\ candidate' = keys
         /\ since' = Since(keys, elapsed)

Watch(keys, elapsed) ==
    /\ down' = keys
    /\ held' = IF keys = down THEN Later(held, elapsed) ELSE 0
    /\ rested' = (Recognised(keys, elapsed) = "none" /\ (rested \/ keys = {}))

\* One turn of recover's loop.  A retry that fails changes nothing; a reset goes on
\* with EraseJournal and SaveEmpty, which keep the loop from polling.
RecoverPoll(keys, elapsed) ==
    /\ mode = "recovery"
    /\ Update(keys, elapsed)
    /\ Watch(keys, elapsed)
    /\ CASE Recognised(keys, elapsed) = "none"  -> UNCHANGED vars
         [] Recognised(keys, elapsed) = "retry" -> Retry \/ UNCHANGED vars
         [] Recognised(keys, elapsed) = "reset" -> EraseLegacy

\* A turn whose read fails (ble.rs:192): time goes on, and the controls hear of it only
\* at the next read, so a hold is unbroken as far as reads show.
RecoverPollFails(elapsed) ==
    /\ mode = "recovery"
    /\ since' = Later(since, elapsed)
    /\ held' = Later(held, elapsed)
    /\ UNCHANGED <<vars, draining, candidate, down, rested>>

EnterRecovery ==
    /\ BootFails
    /\ Default
    /\ down' = {}
    /\ held' = 0
    /\ rested' = FALSE

\* Everything else the store does, the gestures out of play: the loop does not poll
\* while a reset goes on.
Elsewhere ==
    /\ \/ EraseJournal
       \/ SaveEmpty
       \/ Boot
       \/ Reboot
       \/ PowerLoss
       \/ MediaFault
       \/ \E p \in Peer : Connect(p)
       \/ Disconnect
       \/ \E level \in Level, bond \in Bond \cup {None} : CommitBond(level, bond)
       \/ BondLost
       \/ \E action \in Action : ApplyAction(action)
    /\ UNCHANGED <<gesture, history>>

RNext ==
    \/ \E keys \in SUBSET RKey, elapsed \in 0 .. 1 : RecoverPoll(keys, elapsed)
    \/ \E elapsed \in 0 .. 1 : RecoverPollFails(elapsed)
    \/ EnterRecovery
    \/ Elsewhere

RSpec == RInit /\ [][RNext]_rvars

------------------------------------------------------------------------------
(* Properties *)

\* Bonds are erased only by a user who means it: exactly the reset keys were held
\* without a break, as far as any read shows, for the whole time, after a moment with
\* no key down since the pad entered recovery mode or last acted.  So a chord still
\* held when a reset failed, or held since power-on, never starts another
\* (recovery.rs, "a failed write never retriggers a held reset").
ResetIsMeant ==
    [][mode = "recovery" /\ (mode' = "erasing" \/ legacy' # legacy) =>
          /\ rested
          /\ down = RESET_KEYS /\ down' = RESET_KEYS
          /\ held' = RESET_HOLD]_rvars
==============================================================================
