----------------------------- MODULE BleSession -----------------------------
(***************************************************************************)
(* A BLE connection from accept to its end: connection_task's events in    *)
(* the order they are queued, the polls between them, passkey entry, the   *)
(* security floor, and the bonds as three parties hold them: the slot      *)
(* (flash and RAM alike, see HostStore), the stack's own list, the hosts.  *)
(*                                                                         *)
(* The stack (trouble-host, external) decides pairing and encryption and   *)
(* queues events; the pad sees them late.  One slot is modelled: selecting *)
(* another one restarts the radio.                                         *)
(***************************************************************************)
EXTENDS PasskeyEntry

CONSTANTS
    Peer,
    None,
    Absent,      \* markers of SlotRegistry: no record yet,
    Unreadable,  \* and one that cannot be read
    Happens,   \* faults of this instance: "saves fail", "reads fail"
    MaxEvents  \* bound: events the stack queues ahead of connection_task

Bond  == [peer : Peer, level : {"weak", "strong"}]
Phase == {"open", "asking", "answered", "secured", "down"}
Link  == [peer : Peer, bondable : BOOLEAN, phase : Phase,
          level : {"none", "weak", "strong"}]
Event == {"disconnected", "passkey", "paired", "pairing failed", "encrypted", "bond lost"}

\* The registry of a pad with this slot only.
OneSlot(bond) == [active |-> 0, bonds |-> [s \in 0 .. 0 |-> bond]]

ASSUME NoneAssumption == None \notin Bond \cup Link
ASSUME UnreadableAssumption == \A bond \in Bond \cup {None} : Unreadable # OneSlot(bond)
ASSUME BoundAssumption == MaxEvents \in Nat

VARIABLES
    slot,      \* the bond stored in the active slot, or None
    known,     \* the bonds on the stack's list
    keyed,     \* the bonds the hosts hold
    link,      \* the connection as the stack has it, or None
    events,    \* what connection_task has not handled yet
    at,        \* no power; app_loop scans; connection_task serves; or is inside a poll
    pressed,   \* the debounced keys as last read
    draining,  \* Controls, reduced to whether it waits for all keys to be let go
    entry,     \* KeypadUi's passkey entry
    typed,     \* the keys the last poll passed on to a host
    entered,   \* history: keys down during an entry and not let go since
    unread,    \* history: the entry began on a failed read, and none has succeeded since
    unstored   \* history: since power-on, a bond of the stack's was not stored

bonds == <<slot, known, keyed>>
pad   == <<pressed, draining, entry, typed, entered, unread>>
vars  == <<bonds, link, events, at, pad, unstored>>

TypeOK ==
    /\ slot \in Bond \cup {None}
    /\ known \subseteq Bond
    /\ keyed \subseteq Bond
    /\ link \in Link \cup {None}
    /\ events \in Seq(Event)
    /\ at \in {"off", "scan", "serve", "poll"}
    /\ pressed \subseteq Key
    /\ draining \in BOOLEAN
    /\ entry \in Entry /\ Len(entry.code) < PASSKEY_DIGITS
    /\ typed \subseteq Key
    /\ entered \subseteq Key
    /\ unread \in BOOLEAN
    /\ unstored \in BOOLEAN

Listed(bond) == IF bond = None THEN {} ELSE {bond}

\* An empty slot, or a bond of older firmware, which may be weak.
Init ==
    /\ slot \in Bond \cup {None}
    /\ known = Listed(slot)
    /\ keyed = Listed(slot)
    /\ link = None
    /\ events = <<>>
    /\ at = "off"
    /\ pressed \in SUBSET Key
    /\ draining = TRUE
    /\ entry = NewEntry
    /\ typed = {}
    /\ entered = {}
    /\ unread = FALSE
    /\ unstored = FALSE

------------------------------------------------------------------------------
(* The stack and the hosts *)

Own(level)  == [peer |-> link.peer, level |-> level]
Bonds(held) == {b \in held : b.peer = link.peer}

In(phases) == link # None /\ link.phase \in phases
Pending    == {events[i] : i \in DOMAIN events}

Tell(event) ==
    /\ Len(events) < MaxEvents
    /\ events' = Append(events, event)
    /\ UNCHANGED <<at, pad, unstored>>

Secure(level) == link' = [link EXCEPT !.phase = "secured", !.level = level]
Moves(phase)  == link' = [link EXCEPT !.phase = phase]

\* Both ends hold the key of an earlier pairing.
Encrypts(level) ==
    /\ In({"open"})
    /\ Own(level) \in known \cap keyed
    /\ Secure(level)
    /\ Tell("encrypted")
    /\ UNCHANGED bonds

\* A host that can show a code pairs.
Asks ==
    /\ In({"open"})
    /\ Bonds(known) = {}
    /\ Moves("asking")
    /\ Tell("passkey")
    /\ UNCHANGED bonds

\* A pairing completes, with a code or, for a host that cannot show one, by Just Works;
\* while the link is bondable both ends keep a key of it, if the host wants one at all.
Pairs(level) ==
    /\ \/ level = "strong" /\ In({"answered"})
       \/ level = "weak" /\ In({"open"}) /\ Bonds(known) = {}
    /\ Secure(level)
    /\ Tell("paired")
    /\ \/ /\ link.bondable
          /\ known' = known \cup {Own(level)}
          /\ keyed' = (keyed \ Bonds(keyed)) \cup {Own(level)}
       \/ UNCHANGED <<known, keyed>>
    /\ UNCHANGED slot

\* A wrong code, or either side gives up.
PairingFails ==
    /\ In({"asking", "answered"})
    /\ Moves("open")
    /\ Tell("pairing failed")
    /\ UNCHANGED bonds

\* The stack finds that the host no longer holds the key, and drops its own.
LosesBond ==
    /\ In({"open"})
    /\ Bonds(known) # {} /\ Bonds(known) \cap keyed = {}
    /\ known' = known \ Bonds(known)
    /\ Tell("bond lost")
    /\ UNCHANGED <<slot, keyed, link>>

Drops ==
    /\ In(Phase \ {"down"})
    /\ Moves("down")
    /\ Tell("disconnected")
    /\ UNCHANGED bonds

\* The user makes a host forget the pad.
Forgets(p) ==
    /\ link = None
    /\ keyed' = {b \in keyed : b.peer # p}
    /\ UNCHANGED <<slot, known, link, events, at, pad, unstored>>

Outside ==
    \/ \E level \in {"weak", "strong"} : Encrypts(level) \/ Pairs(level)
    \/ Asks
    \/ PairingFails
    \/ LosesBond
    \/ Drops
    \/ \E p \in Peer : Forgets(p)

------------------------------------------------------------------------------
(* app_loop *)

Weak(bond) == bond # None /\ bond.level = "weak"

\* purge_weak_bond, then only the slot's own host; an empty slot takes anyone.
Accept(p) ==
    /\ at = "scan"
    /\ slot' = IF Weak(slot) THEN None ELSE slot
    /\ slot' # None => slot'.peer = p
    /\ link' = [peer |-> p, bondable |-> slot' = None, phase |-> "open", level |-> "none"]
    /\ at' = "serve"
    /\ UNCHANGED <<known, keyed, events, pad, unstored>>

\* The stack comes up with the stored bond, and the loops with nothing else.
Boot ==
    /\ at = "off"
    /\ at' = "scan"
    /\ UNCHANGED <<bonds, link, events, pad, unstored>>

Drop == link' = None /\ events' = <<>>

\* connection_task has returned: disconnect, and drop what it did not handle.
Leave == Drop /\ at' = "scan"

\* Power, or a slot cleared in the menu: the radio starts over on what is stored.
Restart(stored) ==
    /\ slot' = stored
    /\ known' = Listed(stored)
    /\ Drop
    /\ at' = "off"
    /\ draining' = TRUE
    /\ entry' = NewEntry
    /\ typed' = {}
    /\ entered' = {}
    /\ unread' = FALSE
    /\ unstored' = FALSE
    /\ UNCHANGED <<keyed, pressed>>

PowerLoss == at # "off" /\ Restart(slot)

------------------------------------------------------------------------------
(* Events *)

\* Mutant of EndPasskey: the controls go on where they were.
EndPasskeyResumes ==
    /\ entry' = NewEntry
    /\ UNCHANGED draining

\* end_passkey, with the router and the controls started over.
EndPasskey ==
    /\ entry' = NewEntry
    /\ draining' = TRUE

Handle(event) ==
    /\ at = "serve"
    /\ events # <<>>
    /\ Head(events) = event

Stay == events' = Tail(events) /\ UNCHANGED at

\* Mutant of Disconnected: the entry is not ended.
DisconnectedOnly ==
    /\ Handle("disconnected")
    /\ Leave
    /\ UNCHANGED <<bonds, pad, unstored>>

Disconnected ==
    /\ Handle("disconnected")
    /\ EndPasskey
    /\ Leave
    /\ UNCHANGED <<bonds, pressed, typed, entered, unread, unstored>>

\* The stack hands over a bond with the pairing: one that the link's peer holds too.
Bonded == link.bondable /\ Own(link.level) \in known

\* Mutant of Commit: a bond that cannot be saved is used all the same.
CommitTolerant ==
    IF ~Bonded
    THEN Stay /\ UNCHANGED <<slot, link, unstored>>
    ELSE /\ link' = [link EXCEPT !.bondable = FALSE]
         /\ Stay
         /\ UNCHANGED unstored
         /\ \/ slot' = Own(link.level)
            \/ "saves fail" \in Happens /\ UNCHANGED slot

\* commit_bond at or above the floor.  Without a bond there is nothing to store: the link
\* is served as it is, and stays bondable.
Commit ==
    IF ~Bonded
    THEN Stay /\ UNCHANGED <<slot, link, unstored>>
    ELSE \/ /\ slot' = Own(link.level)
            /\ link' = [link EXCEPT !.bondable = FALSE]
            /\ Stay
            /\ UNCHANGED unstored
         \/ /\ "saves fail" \in Happens
            /\ unstored' = TRUE
            /\ Leave
            /\ UNCHANGED slot

\* Mutant of PairingComplete: the floor is left to the stack's request for security.
PairingCompleteAnyhow ==
    /\ Handle("paired")
    /\ EndPasskey
    /\ UNCHANGED <<known, keyed, pressed, entered, unread>>
    /\ Commit
    /\ typed' = IF at' = "scan" THEN {} ELSE typed

PairingComplete ==
    /\ Handle("paired")
    /\ EndPasskey
    /\ UNCHANGED <<known, keyed, pressed, entered, unread>>
    /\ IF link.level = "weak" THEN Leave /\ UNCHANGED <<slot, unstored>> ELSE Commit
    /\ typed' = IF at' = "scan" THEN {} ELSE typed

\* begin_passkey, after a report of all keys released.  A failed read stands for no key.
PassKeyInput ==
    /\ Handle("passkey")
    /\ Stay
    /\ typed' = {}
    /\ \/ /\ pressed' \in SUBSET Key
          /\ entry' = Begin(pressed')
          /\ unread' = FALSE
       \/ /\ "reads fail" \in Happens
          /\ entry' = Begin({})
          /\ unread' = TRUE
          /\ UNCHANGED pressed
    /\ entered' = pressed'
    /\ UNCHANGED <<bonds, link, draining, unstored>>

\* Mutant of Encrypted: what an old key encrypts is good enough.
EncryptedAnyhow ==
    /\ Handle("encrypted")
    /\ Stay
    /\ UNCHANGED <<bonds, link, pad, unstored>>

Encrypted ==
    /\ Handle("encrypted")
    /\ UNCHANGED <<bonds, pressed, draining, entry, entered, unread, unstored>>
    /\ IF link.level = "weak"
       THEN Leave /\ typed' = {}
       ELSE Stay /\ UNCHANGED <<link, typed>>

\* clear_lost_bond; if that cannot be saved no reports are released.
BondLost ==
    /\ Handle("bond lost")
    /\ Leave
    /\ UNCHANGED <<known, keyed, pressed, draining, entry, entered, unread, unstored>>
    /\ \/ slot' = None /\ typed' = {}
       \/ "saves fail" \in Happens /\ UNCHANGED <<slot, typed>>

PairingFailed ==
    /\ Handle("pairing failed")
    /\ EndPasskey
    /\ Stay
    /\ UNCHANGED <<bonds, link, pressed, typed, entered, unread, unstored>>

HandleEvent ==
    \/ Disconnected
    \/ PairingComplete
    \/ PassKeyInput
    \/ Encrypted
    \/ BondLost
    \/ PairingFailed

------------------------------------------------------------------------------
(* Polls *)

\* The select takes an event first.
StartPoll ==
    /\ at = "serve"
    /\ events = <<>>
    /\ at' = "poll"
    /\ UNCHANGED <<bonds, link, events, pad, unstored>>

Tick ==
    /\ entry.active
    /\ entry.left > 0
    /\ entry' = Ages(entry)
    /\ UNCHANGED <<bonds, link, events, at, pressed, draining, typed, entered, unread, unstored>>

\* poll: an entry owns the keys; otherwise they are typed once Controls has drained.
Reads ==
    /\ pressed' \in SUBSET Key
    /\ typed' = IF entry.active \/ draining THEN {} ELSE pressed'
    /\ entered' = IF entry.active THEN pressed' ELSE entered \cap pressed'
    /\ unread' = FALSE

Drains == draining' = (draining /\ pressed' # {})

\* drive_passkey: the code is passed to the stack if that still asks.
Submits ==
    /\ EndPasskey
    /\ link' = IF link.phase = "asking" THEN [link EXCEPT !.phase = "answered"] ELSE link
    /\ UNCHANGED events

\* A cancel ends the pairing; the stack may report that as its failure.
Aborts ==
    /\ EndPasskey
    /\ IF link.phase = "asking"
       THEN Moves("open") /\ events' \in {events, Append(events, "pairing failed")}
       ELSE UNCHANGED <<link, events>>

Poll ==
    /\ at = "poll"
    /\ at' = "serve"
    /\ Reads
    /\ LET next == Update(entry, pressed')
       IN  \/ /\ next.outcome = "none"
              /\ entry' = next
              /\ IF entry.active THEN UNCHANGED draining ELSE Drains
              /\ UNCHANGED <<link, events>>
           \/ next.outcome = "commit" /\ Submits
           \/ next.outcome = "cancel" /\ Aborts
    /\ UNCHANGED <<bonds, unstored>>

\* While no host is connected nothing drives the entry.
ScanPoll ==
    /\ at = "scan"
    /\ Reads
    /\ entry' = Update(entry, pressed')
    /\ IF entry.active THEN UNCHANGED draining ELSE Drains
    /\ UNCHANGED <<bonds, link, events, at, unstored>>

\* The menu: choosing the slot itself only drops the link, clearing it restarts the pad.
MenuAction ==
    /\ at \in {"scan", "poll"}
    /\ ~entry.active /\ ~draining
    /\ \/ /\ Leave
          /\ typed' = {}
          /\ unstored' = (unstored \/ "paired" \in Pending)
          /\ UNCHANGED <<bonds, pressed, draining, entry, entered, unread>>
       \/ slot # None /\ Restart(None)

------------------------------------------------------------------------------

Pad == HandleEvent \/ StartPoll \/ Poll

Next ==
    \/ Outside
    \/ \E p \in Peer : Accept(p)
    \/ Boot
    \/ PowerLoss
    \/ Pad
    \/ Tick
    \/ ScanPoll
    \/ MenuAction

\* connection_task goes on while it serves, and the sleep of a poll ends by the deadline.
Fairness ==
    /\ WF_vars(HandleEvent)
    /\ WF_vars(StartPoll)
    /\ WF_vars(Poll)
    /\ WF_vars(Tick)

Spec == Init /\ [][Next]_vars /\ Fairness

------------------------------------------------------------------------------

Serving == at = "serve" /\ events = <<>> /\ link # None

(* Once its events are handled, no link below the security floor is served, *)
(* neither paired nor encrypted from a bond of older firmware that the      *)
(* stack still lists after purge_weak_bond (ble.rs 85-95, 556-572).         *)
FloorHeld == Serving /\ link.phase = "secured" => link.level = "strong"

(* A secured link rests on the bond stored in the slot, so that a restart   *)
(* finds the host again; or it was paired without a bond, and then the slot *)
(* is empty and the stack has none of it either (ble.rs 141).  The          *)
(* exception, until the next restart: the save failed, or the menu left the *)
(* connection before it saw the pairing complete; the stack goes on with a  *)
(* bond the slot lacks.                                                     *)
SecuredBySlot ==
    Serving /\ link.phase = "secured" /\ ~unstored =>
        \/ slot = Own("strong")
        \/ slot = None /\ Own("strong") \notin known

(* An entry does not outlive its connection: were it active while the pad   *)
(* advertises, it would swallow the keys of the USB host and of the menu.   *)
EntryWithinLink == at = "scan" => ~entry.active

(* A key that was down during an entry types nothing until it has been let  *)
(* go, however the entry ended (end_passkey, ble.rs 966-976).               *)
NoDigitLeaks == typed \cap entered = {}

(* Every digit of a code is a key pressed since the poll before, alone:     *)
(* neither a key that rested on the pad when the entry began nor one of two *)
(* that were pressed together (docs/pairing.md 117-120).  The exception is  *)
(* an entry that began on a failed read, until its first poll.              *)
Extends ==
    \/ Len(entry'.code) > Len(entry.code)
    \/ (In({"asking"}) /\ link' # None /\ link'.phase = "answered")

DigitsAreFresh ==
    [][Extends /\ ~unread => Cardinality((pressed' \ pressed) \cap DigitKey) = 1]_vars

(* The slot changes as HostStore's registry does, for what the connections  *)
(* of this module do to it: only a strong pairing fills it, and only when   *)
(* it is empty, whatever the stack's list and the hosts hold by then; only  *)
(* the menu, a lost bond or the floor empties it; a restart keeps it.       *)
Registry == INSTANCE SlotRegistry WITH
    SLOT_COUNT <- 1,
    registry   <- OneSlot(slot),
    up         <- at # "off"
ImplementsRegistry == Registry!Spec

(* Every entry ends: by its code, by a cancel, by its deadline, or with the *)
(* pairing or the connection it was begun for.                              *)
EntryEnds == entry.active ~> ~entry.active
=============================================================================
