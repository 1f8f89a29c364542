--------------------------- MODULE HostStoreProofs ---------------------------
(***************************************************************************)
(* Proofs about HostStore for any number of slots and any set of peers.    *)
(***************************************************************************)
EXTENDS HostStore, TLAPS

USE SlotAssumption, MarkerAssumption

(* What the record helpers return. *)

LEMMA FromLegacyType ==
    ASSUME NEW b \in Bond \cup {None}
    PROVE  FromLegacy(b) \in Hosts
BY DEF FromLegacy, Hosts, Slot

LEMMA ApplyType ==
    ASSUME NEW h \in Hosts, NEW a \in Action
    PROVE  Apply(h, a) \in Hosts
BY DEF Apply, Hosts, Action

LEMMA ActiveBondType ==
    ASSUME NEW h \in Hosts
    PROVE  ActiveBond(h) \in Bond \cup {None}
BY DEF ActiveBond, Hosts

\* Setting the active bond keeps the record well formed, and is what is read back.
LEMMA WithActiveBondFacts ==
    ASSUME NEW h \in Hosts, NEW b \in Bond \cup {None}
    PROVE  /\ WithActiveBond(h, b) \in Hosts
           /\ ActiveBond(WithActiveBond(h, b)) = b
BY DEF WithActiveBond, ActiveBond, Hosts

LEMMA StoredHostsType ==
    ASSUME TypeOK
    PROVE  StoredHosts \in Hosts \cup {Unreadable}
BY FromLegacyType DEF TypeOK, StoredHosts

(***************************************************************************)
(* The invariant: types, agreement of RAM and flash, and a session that    *)
(* fits its slot.  The last two need each other: a session may only change *)
(* the slot it was accepted on.  ResetOrder is what makes an interrupted   *)
(* reset safe: the journal is only touched once the legacy bond is gone.   *)
(***************************************************************************)
ResetOrder == mode \in {"erasing", "emptying"} => legacy = None

IInv == TypeOK /\ RamMatchesFlash /\ SessionFitsSlot /\ ResetOrder

LEMMA InitIInv == Init => IInv
BY DEF Init, IInv, TypeOK, Mode, RamMatchesFlash, SessionFitsSlot, ResetOrder

\* Purging leaves RAM and flash agreeing on slots whose active bond is not weak.
LEMMA PurgeFacts ==
    ASSUME IInv, mode = "running", PurgeWeakBond
    PROVE  /\ hosts' \in Hosts
           /\ journal' = hosts'
           /\ ActiveBond(hosts') # None => ActiveBond(hosts').level = "strong"
<1>1. hosts \in Hosts /\ journal = hosts
  BY DEF IInv, RamMatchesFlash
<1>2. CASE Weak(ActiveBond(hosts))
  <2>1. journal' = WithActiveBond(hosts, None) /\ hosts' = WithActiveBond(hosts, None)
    BY <1>2 DEF PurgeWeakBond, SaveHosts
  <2>2. QED BY <1>1, <2>1, WithActiveBondFacts
<1>3. CASE ~Weak(ActiveBond(hosts))
  <2>1. journal' = journal /\ hosts' = hosts
    BY <1>3 DEF PurgeWeakBond, Stay
  <2>2. ActiveBond(hosts) \in Bond \cup {None}
    BY <1>1, ActiveBondType
  <2>3. QED BY <1>1, <1>3, <2>1, <2>2 DEF Weak, Bond, Level
<1>4. QED BY <1>2, <1>3

LEMMA ConnectIInv ==
    ASSUME IInv, NEW p \in Peer, Connect(p)
    PROVE  IInv'
<1>1. mode = "running" /\ PurgeWeakBond /\ legacy' = legacy /\ mode' = mode
  BY DEF Connect
<1>2. /\ hosts' \in Hosts
      /\ journal' = hosts'
      /\ ActiveBond(hosts') # None => ActiveBond(hosts').level = "strong"
  BY <1>1, PurgeFacts
<1> DEFINE empty == ActiveBond(hosts') = None
<1>3. \/ session' = None
      \/ /\ ~empty => ActiveBond(hosts').peer = p
         /\ session' = [peer |-> p, bondable |-> empty]
  BY DEF Connect
<1>4. empty \in BOOLEAN
  OBVIOUS
<1>5. \/ session' = None
      \/ /\ ~empty => ActiveBond(hosts').peer = p
         /\ session' \in Session
         /\ session'.peer = p
         /\ session'.bondable = empty
  <2> HIDE DEF empty
  <2> QED BY <1>3, <1>4 DEF Session
<1>6. TypeOK'
  BY <1>1, <1>2, <1>5 DEF IInv, TypeOK
<1>7. SessionFitsSlot'
  <2>1. SUFFICES ASSUME session' # None
                 PROVE  /\ mode' = "running"
                        /\ IF ActiveBond(hosts') = None
                           THEN session'.bondable
                           ELSE /\ ActiveBond(hosts').level = "strong"
                                /\ ActiveBond(hosts').peer = session'.peer
                                /\ ~session'.bondable
    BY DEF SessionFitsSlot, ActiveBond
  <2>2. QED BY <1>1, <1>2, <1>5, <2>1
<1>8. QED BY <1>1, <1>2, <1>6, <1>7 DEF IInv, RamMatchesFlash, ResetOrder

LEMMA CommitBondIInv ==
    ASSUME IInv, NEW level \in Level, NEW bond \in Bond \cup {None},
           CommitBond(level, bond)
    PROVE  IInv'
<1> DEFINE next == WithActiveBond(hosts, bond)
<1>1. /\ mode = "running" /\ session # None /\ bond \in Offered
      /\ legacy' = legacy /\ mode' = mode
  BY DEF CommitBond
<1>2. hosts \in Hosts /\ journal = hosts
  BY <1>1 DEF IInv, RamMatchesFlash
<1>3. next \in Hosts /\ ActiveBond(next) = bond
  BY <1>2, WithActiveBondFacts
<1>4. \/ /\ session' \in {None, session}
         /\ journal' = journal /\ hosts' = hosts
      \/ /\ bond # None /\ ~Weak(bond)
         /\ journal' = next /\ hosts' = next
         /\ session' = [session EXCEPT !.bondable = FALSE]
  BY DEF CommitBond, Stay, SaveHosts
<1>5. CASE /\ session' \in {None, session}
           /\ journal' = journal /\ hosts' = hosts
  BY <1>1, <1>2, <1>5
  DEF IInv, TypeOK, RamMatchesFlash, SessionFitsSlot, ResetOrder, ActiveBond
<1>6. CASE /\ bond # None /\ ~Weak(bond)
           /\ journal' = next /\ hosts' = next
           /\ session' = [session EXCEPT !.bondable = FALSE]
  <2>1. bond.peer = session.peer /\ bond.level = "strong"
    BY <1>1, <1>6 DEF Offered, Weak, Bond, Level
  <2>2. session \in Session
    BY <1>1 DEF IInv, TypeOK
  <2>3. /\ session' \in Session
        /\ session'.peer = session.peer
        /\ session'.bondable = FALSE
    BY <1>6, <2>2 DEF Session
  <2>4. TypeOK'
    BY <1>1, <1>3, <1>6, <2>3 DEF IInv, TypeOK
  <2>5. ActiveBond(hosts)' = bond
    BY <1>3, <1>6 DEF ActiveBond
  <2>6. SessionFitsSlot'
    BY <1>1, <1>6, <2>1, <2>3, <2>5 DEF SessionFitsSlot
  <2>7. QED
    BY <1>1, <1>3, <1>6, <2>4, <2>6 DEF IInv, RamMatchesFlash, ResetOrder
<1>7. QED BY <1>4, <1>5, <1>6

LEMMA NextIInv == IInv /\ [Next]_vars => IInv'
<1> SUFFICES ASSUME IInv, [Next]_vars
             PROVE  IInv'
  OBVIOUS
<1> USE DEF IInv, ResetOrder
<1>1. CASE Boot
  BY <1>1, StoredHostsType
  DEF Boot, LoadHosts, TypeOK, Mode, RamMatchesFlash, SessionFitsSlot
<1>2. CASE BootFails
  BY <1>2 DEF BootFails, TypeOK, Mode, RamMatchesFlash, SessionFitsSlot
<1>3. CASE Reboot
  BY <1>3 DEF Reboot, TypeOK, Mode, RamMatchesFlash, SessionFitsSlot
<1>4. CASE PowerLoss
  BY <1>4 DEF PowerLoss, TypeOK, Mode, RamMatchesFlash, SessionFitsSlot
<1>5. CASE MediaFault
  BY <1>5 DEF MediaFault, TypeOK, Mode, RamMatchesFlash, SessionFitsSlot
<1>6. CASE \E p \in Peer : Connect(p)
  BY <1>6, ConnectIInv
<1>7. CASE Disconnect
  BY <1>7 DEF Disconnect, TypeOK, RamMatchesFlash, SessionFitsSlot
<1>8. CASE \E level \in Level, bond \in Bond \cup {None} : CommitBond(level, bond)
  BY <1>8, CommitBondIInv
<1>9. CASE BondLost
  BY <1>9, WithActiveBondFacts
  DEF BondLost, SaveHosts, Stay, TypeOK, RamMatchesFlash, SessionFitsSlot
<1>10. CASE \E action \in Action : ApplyAction(action)
  BY <1>10, ApplyType
  DEF ApplyAction, TypeOK, Mode, RamMatchesFlash, SessionFitsSlot
<1>11. CASE Retry
  BY <1>11, StoredHostsType
  DEF Retry, LoadHosts, TypeOK, Mode, RamMatchesFlash, SessionFitsSlot
<1>12. CASE EraseLegacy
  BY <1>12 DEF EraseLegacy, PartlyErased, TypeOK, Mode, RamMatchesFlash, SessionFitsSlot
<1>13. CASE EraseJournal
  BY <1>13 DEF EraseJournal, PartlyErased, TypeOK, Mode, RamMatchesFlash, SessionFitsSlot
<1>14. CASE SaveEmpty
  BY <1>14, FromLegacyType
  DEF SaveEmpty, TypeOK, Mode, RamMatchesFlash, SessionFitsSlot
<1>15. CASE UNCHANGED vars
  BY <1>15 DEF vars, TypeOK, RamMatchesFlash, SessionFitsSlot, ActiveBond
<1>16. QED
  BY <1>1, <1>2, <1>3, <1>4, <1>5, <1>6, <1>7, <1>8, <1>9, <1>10, <1>11, <1>12,
     <1>13, <1>14, <1>15 DEF Next

THEOREM Invariance == Spec => []IInv
BY InitIInv, NextIInv, PTL DEF Spec

\* Every variable keeps its type, for any number of slots and peers.
THEOREM TypeCorrect == Spec => []TypeOK
BY Invariance, PTL DEF IInv

\* RAM and flash agree whenever the pad is running (ble.rs updates `hosts` only
\* after save_hosts returned true).
THEOREM RamFlashAgreement == Spec => []RamMatchesFlash
BY Invariance, PTL DEF IInv

\* A served session fits the slot: no weak credential, no other peer's slot
\* (ble.rs: purge_weak_bond, identity match, set_bondable before serving).
THEOREM SessionSafety == Spec => []SessionFitsSlot
BY Invariance, PTL DEF IInv

(***************************************************************************)
(* Refinement: every step of HostStore is a step of SlotRegistry, or none, *)
(* where the registry is what the next boot would load.                    *)
(***************************************************************************)

\* SlotRegistry is instantiated with the same constants, so its record helpers
\* are the ones used here.
LEMMA SameHelpers ==
    /\ Registry!Bond = Bond
    /\ Registry!Action = Action
    /\ \A b \in Bond \cup {None} : Registry!FromLegacy(b) = FromLegacy(b)
    /\ \A h \in Hosts : /\ Registry!ActiveBond(h) = ActiveBond(h)
                        /\ \A a \in Action : Registry!Apply(h, a) = Apply(h, a)
                        /\ \A b \in Bond \cup {None} :
                               Registry!WithActiveBond(h, b) = WithActiveBond(h, b)
BY DEF Registry!Bond, Bond, Registry!Level, Level, Registry!Action, Action,
       Registry!Slot, Slot, Registry!FromLegacy, FromLegacy, Registry!Apply, Apply,
       Registry!ActiveBond, ActiveBond, Registry!WithActiveBond, WithActiveBond

LEMMA InitRegistry == Init => Registry!Init
BY SameHelpers DEF Init, Registry!Init, StoredHosts

\* Saving a record while the pad is running is what the next boot will load.
LEMMA StoredWhenRunning ==
    ASSUME IInv, mode = "running"
    PROVE  StoredHosts = hosts /\ hosts \in Hosts
BY DEF IInv, RamMatchesFlash, StoredHosts

LEMMA StoredAfterSave ==
    ASSUME journal' \in Hosts
    PROVE  StoredHosts' = journal'
BY DEF StoredHosts

LEMMA PurgeRegistry ==
    ASSUME IInv, mode = "running", mode' = mode, legacy' = legacy, PurgeWeakBond
    PROVE  [Registry!Next]_Registry!vars
<1>1. StoredHosts = hosts /\ hosts \in Hosts
  BY StoredWhenRunning
<1>2. CASE Weak(ActiveBond(hosts))
  <2>1. journal' = WithActiveBond(hosts, None)
    BY <1>2 DEF PurgeWeakBond, SaveHosts
  <2>2. StoredHosts' = WithActiveBond(StoredHosts, None)
    BY <1>1, <2>1, WithActiveBondFacts, StoredAfterSave
  <2>3. Registry!Unbind
    BY <1>1, <2>2, SameHelpers DEF Registry!Unbind
  <2>4. QED BY <2>3 DEF Registry!Next
<1>3. CASE ~Weak(ActiveBond(hosts))
  BY <1>3 DEF PurgeWeakBond, Stay, StoredHosts, Registry!vars
<1>4. QED BY <1>2, <1>3

LEMMA CommitBondRegistry ==
    ASSUME IInv, NEW level \in Level, NEW bond \in Bond \cup {None},
           CommitBond(level, bond)
    PROVE  [Registry!Next]_Registry!vars
<1> DEFINE next == WithActiveBond(hosts, bond)
<1>1. /\ mode = "running" /\ session # None /\ bond \in Offered
      /\ legacy' = legacy /\ mode' = mode
  BY DEF CommitBond
<1>2. StoredHosts = hosts /\ hosts \in Hosts
  BY <1>1, StoredWhenRunning
<1>3. \/ journal' = journal
      \/ bond # None /\ ~Weak(bond) /\ journal' = next
  BY DEF CommitBond, Stay, SaveHosts
<1>4. CASE journal' = journal
  BY <1>1, <1>4 DEF StoredHosts, Registry!vars
<1>5. CASE bond # None /\ ~Weak(bond) /\ journal' = next
  <2>1. StoredHosts' = WithActiveBond(StoredHosts, bond)
    BY <1>2, <1>5, WithActiveBondFacts, StoredAfterSave
  <2>2. bond \in Bond /\ bond.level = "strong"
    BY <1>5 DEF Weak, Bond, Level
  <2>3. session.bondable
    BY <1>1, <1>5 DEF Offered
  <2>4. ActiveBond(StoredHosts) = None
    BY <1>1, <1>2, <2>3 DEF IInv, SessionFitsSlot
  <2>5. Registry!Bind(bond)
    BY <1>1, <1>2, <2>1, <2>2, <2>4, SameHelpers DEF Registry!Bind
  <2>6. QED BY <2>2, <2>5, SameHelpers DEF Registry!Next
<1>6. QED BY <1>3, <1>4, <1>5

LEMMA BondLostRegistry ==
    ASSUME IInv, BondLost
    PROVE  [Registry!Next]_Registry!vars
<1>1. StoredHosts = hosts /\ hosts \in Hosts
  BY StoredWhenRunning DEF BondLost
<1>2. CASE journal' = WithActiveBond(hosts, None)
  <2>1. StoredHosts' = WithActiveBond(StoredHosts, None)
    BY <1>1, <1>2, WithActiveBondFacts, StoredAfterSave
  <2>2. Registry!Unbind
    BY <1>1, <2>1, SameHelpers DEF BondLost, Registry!Unbind
  <2>3. QED BY <2>2 DEF Registry!Next
<1>3. CASE journal' = journal
  BY <1>3 DEF BondLost, StoredHosts, Registry!vars
<1>4. QED BY <1>2, <1>3 DEF BondLost, SaveHosts, Stay

LEMMA ApplyActionRegistry ==
    ASSUME IInv, NEW action \in Action, ApplyAction(action)
    PROVE  [Registry!Next]_Registry!vars
<1>1. StoredHosts = hosts /\ hosts \in Hosts
  BY StoredWhenRunning DEF ApplyAction
<1>2. CASE journal' = Apply(hosts, action) /\ mode' = "restarting"
  <2>1. StoredHosts' = Apply(StoredHosts, action)
    BY <1>1, <1>2, ApplyType, StoredAfterSave
  <2>2. Registry!Choose(action)
    BY <1>1, <1>2, <2>1, SameHelpers DEF ApplyAction, Registry!Choose
  <2>3. QED BY <2>2, SameHelpers DEF Registry!Next
<1>3. CASE journal' = journal /\ mode' = mode
  BY <1>3 DEF ApplyAction, StoredHosts, Registry!vars
<1>4. QED BY <1>2, <1>3 DEF ApplyAction

LEMMA StepRegistry == IInv /\ [Next]_vars => [Registry!Next]_Registry!vars
<1> SUFFICES ASSUME IInv, [Next]_vars
             PROVE  [Registry!Next]_Registry!vars
  OBVIOUS
<1>0. StoredHosts \in Hosts \cup {Unreadable}
  BY StoredHostsType DEF IInv
<1>1. CASE Boot
  <2>1. StoredHosts' = StoredHosts
    BY <1>0, <1>1, StoredAfterSave DEF Boot, LoadHosts
  <2>2. Registry!Start
    BY <1>1, <2>1 DEF Boot, LoadHosts, Registry!Start
  <2>3. QED BY <2>2 DEF Registry!Next
<1>2. CASE BootFails
  BY <1>2 DEF BootFails, StoredHosts, Registry!vars
<1>3. CASE Reboot
  BY <1>3 DEF Reboot, StoredHosts, Registry!vars
<1>4. CASE PowerLoss
  <2>1. StoredHosts' = StoredHosts /\ mode' = "off"
    BY <1>4 DEF PowerLoss, StoredHosts
  <2>2. CASE mode = "running"
    BY <2>1, <2>2 DEF Registry!Stop, Registry!Next
  <2>3. CASE mode # "running"
    BY <2>1, <2>3 DEF Registry!vars
  <2>4. QED BY <2>2, <2>3
<1>5. CASE MediaFault
  <2>1. mode = "off" /\ mode' = "off"
    BY <1>5 DEF MediaFault
  <2>2. StoredHosts' \in {StoredHosts, Unreadable}
    BY <1>5 DEF MediaFault, StoredHosts
  <2>3. QED BY <2>1, <2>2 DEF Registry!Fault, Registry!Next, Registry!vars
<1>6. CASE \E p \in Peer : Connect(p)
  BY <1>6, PurgeRegistry DEF Connect
<1>7. CASE Disconnect
  BY <1>7 DEF Disconnect, StoredHosts, Registry!vars
<1>8. CASE \E level \in Level, bond \in Bond \cup {None} : CommitBond(level, bond)
  BY <1>8, CommitBondRegistry
<1>9. CASE BondLost
  BY <1>9, BondLostRegistry
<1>10. CASE \E action \in Action : ApplyAction(action)
  BY <1>10, ApplyActionRegistry
<1>11. CASE Retry
  <2>1. StoredHosts' = StoredHosts
    BY <1>0, <1>11, StoredAfterSave DEF Retry, LoadHosts
  <2>2. QED BY <1>11, <2>1 DEF Retry, Registry!vars
<1>12. CASE EraseLegacy
  <2>1. mode # "running" /\ mode' # "running"
    BY <1>12 DEF EraseLegacy
  <2>2. StoredHosts' \in {StoredHosts, FromLegacy(None), Unreadable}
    BY <1>12 DEF EraseLegacy, PartlyErased, StoredHosts
  <2>3. QED
    BY <2>1, <2>2, SameHelpers DEF Registry!Reset, Registry!Fault, Registry!Next, Registry!vars
<1>13. CASE EraseJournal
  <2>1. mode # "running" /\ mode' # "running"
    BY <1>13 DEF EraseJournal
  <2>2. StoredHosts' \in {StoredHosts, FromLegacy(None), Unreadable}
    BY <1>13 DEF EraseJournal, PartlyErased, StoredHosts, IInv, ResetOrder
  <2>3. QED
    BY <2>1, <2>2, SameHelpers DEF Registry!Reset, Registry!Fault, Registry!Next, Registry!vars
<1>14. CASE SaveEmpty
  <2>1. mode # "running" /\ mode' # "running"
    BY <1>14 DEF SaveEmpty
  <2>2. StoredHosts' \in {StoredHosts, FromLegacy(None)}
    BY <1>14, FromLegacyType, StoredAfterSave DEF SaveEmpty, StoredHosts
  <2>3. QED
    BY <2>1, <2>2, SameHelpers DEF Registry!Reset, Registry!Next, Registry!vars
<1>15. CASE UNCHANGED vars
  BY <1>15 DEF vars, StoredHosts, Registry!vars
<1>16. QED
  BY <1>1, <1>2, <1>3, <1>4, <1>5, <1>6, <1>7, <1>8, <1>9, <1>10, <1>11, <1>12,
     <1>13, <1>14, <1>15 DEF Next

\* The flash store implements the atomic registry, across power loss, failed writes
\* and interrupted resets (config_store.rs: "legacy region first so an interrupted
\* reset cannot migrate an old bond back into an empty journal").
THEOREM Refinement == Spec => ImplementsRegistry
BY InitRegistry, StepRegistry, Invariance, PTL DEF Spec, ImplementsRegistry, Registry!Spec
==============================================================================
