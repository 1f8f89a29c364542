------------------------------ MODULE HostStore ------------------------------
(***************************************************************************)
(* Host-slot persistence: config_store.rs (journal, legacy bond, reset),   *)
(* the callers in ble.rs that change a slot (pairing, purge, lost bond,    *)
(* menu gesture) and the recovery mode main.rs enters when loading fails.  *)
(*                                                                         *)
(* A step ends where the code awaits something a power loss can separate   *)
(* from what follows.  A journal write is one step: sequential-storage     *)
(* (external) writes a record atomically, so a power loss during it is a   *)
(* power loss just before or just after.                                   *)
(***************************************************************************)
EXTENDS HostSlots

VARIABLES
    legacy,   \* flash: the single-host bond region of older firmware
    journal,  \* flash: the host-slot journal
    mode,     \* what the firmware is doing
    hosts,    \* RAM: app_loop's `hosts`
    session   \* the BLE connection being served, or None

vars == <<legacy, journal, mode, hosts, session>>

Mode == {"off", "running", "restarting", "recovery", "erasing", "emptying"}
Session == [peer : Peer, bondable : BOOLEAN]

TypeOK ==
    /\ legacy \in Bond \cup {None, Unreadable}
    /\ journal \in Hosts \cup {Absent, Unreadable}
    /\ mode \in Mode
    /\ hosts \in Hosts \cup {None}
    /\ session \in Session \cup {None}

\* First boot after an upgrade: no journal yet, perhaps a bond of the old firmware.
Init ==
    /\ legacy \in Bond \cup {None}
    /\ journal = Absent
    /\ mode = "off"
    /\ hosts = None
    /\ session = None

------------------------------------------------------------------------------
(* Storage *)

\* What load_hosts finds: the journal, or the legacy bond moved into slot 0.
StoredHosts ==
    IF journal # Absent THEN journal
    ELSE IF legacy = Unreadable THEN Unreadable
    ELSE FromLegacy(legacy)

\* load_hosts succeeding; an absent journal is written before it is used.
LoadHosts ==
    /\ StoredHosts # Unreadable
    /\ journal' = StoredHosts

\* save_hosts returning true, for the callers that then update RAM.
SaveHosts(next) ==
    /\ journal' = next
    /\ hosts' = next

Stay == UNCHANGED <<journal, hosts>>

------------------------------------------------------------------------------
(* Boot, restart and power *)

Boot ==
    /\ mode = "off"
    /\ LoadHosts
    /\ hosts' = StoredHosts
    /\ mode' = "running"
    /\ UNCHANGED <<legacy, session>>

\* A read error, bad data, or a migration that could not be written.
BootFails ==
    /\ mode = "off"
    /\ mode' = "recovery"
    /\ UNCHANGED <<legacy, journal, hosts, session>>

Reboot ==
    /\ mode = "restarting"
    /\ mode' = "off"
    /\ hosts' = None
    /\ UNCHANGED <<legacy, journal, session>>

\* Power can go at any step; an erase in progress leaves any mix behind.
PowerLoss ==
    /\ mode # "off"
    /\ mode' = "off"
    /\ hosts' = None
    /\ session' = None
    /\ UNCHANGED <<legacy, journal>>

\* Flash contents that do not read back at the next boot.
MediaFault ==
    /\ mode = "off"
    /\ \/ legacy' = Unreadable /\ UNCHANGED journal
       \/ journal' = Unreadable /\ UNCHANGED legacy
    /\ UNCHANGED <<mode, hosts, session>>

------------------------------------------------------------------------------
(* Serving the active slot *)

Weak(bond) == bond # None /\ bond.level = "weak"

\* Mutant of PurgeWeakBond: a failed purge lets the peer in.
PurgeWeakBondIgnored == Stay

\* purge_weak_bond returning true: the active slot holds no weak bond any more.
PurgeWeakBond ==
    IF Weak(ActiveBond(hosts))
    THEN SaveHosts(WithActiveBond(hosts, None))
    ELSE Stay

\* A peer is accepted when the slot is empty or bonded to that very peer.  The
\* connection may still fail to attach.  (A failed purge refuses the peer and
\* changes nothing.)
Connect(p) ==
    /\ mode = "running"
    /\ session = None
    /\ PurgeWeakBond
    /\ LET bond == ActiveBond(hosts')
       IN  \/ session' = None
           \/ /\ bond # None => bond.peer = p
              /\ session' = [peer |-> p, bondable |-> bond = None]
    /\ UNCHANGED <<legacy, mode>>

Disconnect ==
    /\ session # None
    /\ session' = None
    /\ UNCHANGED <<legacy, journal, mode, hosts>>

\* The bonds a PairingComplete may carry: none at all, and one of this peer only
\* while the connection is bondable (trouble-host, external).
Offered == {b \in Bond \cup {None} :
              b # None => session.bondable /\ b.peer = session.peer}

\* Mutant of CommitBond: RAM is updated although the save failed.
CommitBondUnsaved(level, bond) ==
    /\ mode = "running"
    /\ session # None
    /\ bond \in Offered
    /\ IF level = "weak" \/ Weak(bond)
       THEN session' = None /\ UNCHANGED hosts
       ELSE IF bond = None
       THEN UNCHANGED <<session, hosts>>
       ELSE /\ hosts' = WithActiveBond(hosts, bond)
            /\ session' = [session EXCEPT !.bondable = FALSE]
    /\ UNCHANGED <<legacy, journal, mode>>

\* PairingComplete, commit_bond and refuse.
CommitBond(level, bond) ==
    LET next == WithActiveBond(hosts, bond)
    IN  /\ mode = "running"
        /\ session # None
        /\ bond \in Offered
        /\ IF level = "weak" \/ Weak(bond)
           THEN session' = None /\ Stay
           ELSE IF bond = None
           THEN UNCHANGED session /\ Stay
           ELSE \/ /\ SaveHosts(next)
                   /\ session' = [session EXCEPT !.bondable = FALSE]
                \/ /\ next # hosts
                   /\ session' = None
                   /\ Stay
        /\ UNCHANGED <<legacy, mode>>

\* BondLost and clear_lost_bond; the link is dropped whether or not it was saved.
BondLost ==
    /\ mode = "running"
    /\ session # None
    /\ session' = None
    /\ \/ SaveHosts(WithActiveBond(hosts, None))
       \/ ActiveBond(hosts) # None /\ Stay
    /\ UNCHANGED <<legacy, mode>>

\* apply_action: the link is dropped, the change saved, the radio restarted.  A
\* failed save, or an action that changes nothing, leaves the pad running.
ApplyAction(action) ==
    LET next == Apply(hosts, action)
    IN  /\ mode = "running"
        /\ session' = None
        /\ \/ /\ next # hosts
              /\ journal' = next
              /\ mode' = "restarting"
           \/ UNCHANGED <<journal, mode>>
        /\ UNCHANGED <<legacy, hosts>>

------------------------------------------------------------------------------
(* Recovery mode *)

\* recovery::Action::Retry.  Failing changes nothing.
Retry ==
    /\ mode = "recovery"
    /\ LoadHosts
    /\ mode' = "restarting"
    /\ UNCHANGED <<legacy, hosts, session>>

\* An erase that fails or loses power may have reached some sectors only.
PartlyErased(content, empty) == {content, empty, Unreadable}

\* Mutant of EraseLegacy: the reset forgets the legacy region.
EraseLegacySkipped ==
    /\ mode = "recovery"
    /\ mode' = "erasing"
    /\ UNCHANGED <<legacy, journal, hosts, session>>

\* recovery::Action::ResetBonds, first step: the legacy region.
EraseLegacy ==
    /\ mode = "recovery"
    /\ \/ legacy' = None /\ mode' = "erasing"
       \/ legacy' \in PartlyErased(legacy, None) /\ mode' \in {"recovery", "off"}
    /\ UNCHANGED <<journal, hosts, session>>

\* Second step: the journal.
EraseJournal ==
    /\ mode = "erasing"
    /\ \/ journal' = Absent /\ mode' = "emptying"
       \/ journal' \in PartlyErased(journal, Absent) /\ mode' \in {"recovery", "off"}
    /\ UNCHANGED <<legacy, hosts, session>>

\* Third step: an empty record.
SaveEmpty ==
    /\ mode = "emptying"
    /\ \/ journal' = FromLegacy(None) /\ mode' = "restarting"
       \/ UNCHANGED journal /\ mode' = "recovery"
    /\ UNCHANGED <<legacy, hosts, session>>

Next ==
    \/ Boot
    \/ BootFails
    \/ Reboot
    \/ PowerLoss
    \/ MediaFault
    \/ \E p \in Peer : Connect(p)
    \/ Disconnect
    \/ \E level \in Level, bond \in Bond \cup {None} : CommitBond(level, bond)
    \/ BondLost
    \/ \E action \in Action : ApplyAction(action)
    \/ Retry
    \/ EraseLegacy
    \/ EraseJournal
    \/ SaveEmpty

Spec == Init /\ [][Next]_vars

------------------------------------------------------------------------------
(* Properties *)

\* While the pad runs, RAM and flash agree: no bond is used that a reboot would
\* forget, and none is kept in flash that the running pad has dropped, however
\* saves fail and pairings, purges, lost bonds and gestures interleave.
RamMatchesFlash == mode = "running" => hosts \in Hosts /\ journal = hosts

\* A served link never runs on a slot whose stored credential is below the
\* security floor, nor on a slot bonded to somebody else; a link that may still
\* bond is one whose slot is empty.
SessionFitsSlot ==
    session # None =>
        /\ mode = "running"
        /\ LET bond == ActiveBond(hosts)
           IN  IF bond = None
               THEN session.bondable
               ELSE /\ bond.level = "strong"
                    /\ bond.peer = session.peer
                    /\ ~session.bondable

\* The flash implements the atomic registry: across every power loss, failed write
\* and half-done reset, what the next boot would load changes only by a menu
\* gesture, a strong pairing into an empty slot, a drop of the active bond, a full
\* reset in recovery mode or a media fault.  So no bond that was cleared, lost or
\* reset comes back, from the legacy region or otherwise.
Registry == INSTANCE SlotRegistry WITH registry <- StoredHosts, up <- mode = "running"
ImplementsRegistry == Registry!Spec
==============================================================================
