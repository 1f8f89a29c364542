---------------------------- MODULE KeyDelivery ----------------------------
(***************************************************************************)
(* How a key press reaches a host: the poll of the pad (KeypadUi::poll in  *)
(* ble.rs), the gesture machine (Controls), the destination (routing.rs),  *)
(* the USB writer task (usb.rs) and the BLE flush (ble.rs), while hosts    *)
(* come, go, suspend and pair at any moment.                               *)
(*                                                                         *)
(* All tasks share one executor, so a step ends where the code awaits.     *)
(* Reports are the sets of keys they show as held; the consumer report has *)
(* the same path and discipline and is not modelled a second time.         *)
(***************************************************************************)
EXTENDS Controls

CONSTANTS
    Elapsed,  \* bound: how long polls find the controls to have been in their state
    Tracked   \* bound: the keys the histories follow

ASSUME BoundAssumption == Elapsed \subseteq Nat /\ Tracked \subseteq Key

VARIABLES
    pressed,      \* the keys that are down
    control,      \* Controls' state
    router,       \* Router: the destination last seen, the keys it blocks
    passkey,      \* a passkey entry owns the pad
    configured,   \* usb.rs CONFIGURED
    suspended,    \* usb.rs SUSPENDED
    report,       \* KEY_REPORT; `current` iff stamped with the current GENERATION
    writer,       \* keyboard_loop: what it wrote last in this GENERATION, if anything,
                  \* and the write it awaits
    link,         \* a BLE connection is served
    subscribed,   \* the BLE host asked for reports
    memo,         \* flush's last_report
    flushing,     \* the keys a BLE poll found, still to be flushed, or None
    usbHost,      \* what the USB host takes for held
    bleHost,      \* what the BLE host takes for held
    carried,      \* history: keys down without a break since the last handover
    handover,     \* history: whether the router saw the last handover
    touched       \* history: keys down at some time since USB became active

vars == <<pressed, control, router, passkey, configured, suspended, report, writer,
          link, subscribed, memo, flushing, usbHost, bleHost,
          carried, handover, touched>>

usbBus  == <<configured, suspended>>
pad     == <<control, router, passkey>>
bleLink == <<link, subscribed, memo, flushing>>
history == <<carried, handover, touched>>

\* `+` types a tap after it was released; what is said of held keys is about the others.
PlainKey == Key \ {PLUS}

Destination == {"none", "usb", "ble"}

TypeOK ==
    /\ pressed \subseteq Key
    /\ control \in State
    /\ router \in [destination : Destination, blocked : SUBSET Key]
    /\ passkey \in BOOLEAN
    /\ configured \in BOOLEAN
    /\ suspended \in BOOLEAN
    /\ report \in [current : BOOLEAN, keys : SUBSET Key]
    /\ writer \in [last : (SUBSET Key) \cup {None}, writing : (SUBSET Key) \cup {None}]
    /\ link \in BOOLEAN
    /\ subscribed \in BOOLEAN
    /\ memo \in (SUBSET Key) \cup {None}
    /\ flushing \in (SUBSET Key) \cup {None}
    /\ usbHost \subseteq Key
    /\ bleHost \subseteq Key
    /\ carried \subseteq Tracked
    /\ handover \in {"fresh", "seen", "missed"}
    /\ touched \subseteq Tracked

NewRouter == [destination |-> "none", blocked |-> {}]
NewReport == [current |-> TRUE, keys |-> {}]
NewWriter == [last |-> None, writing |-> None]

Init ==
    /\ pressed \in SUBSET Key
    /\ control = New
    /\ router = NewRouter
    /\ passkey = FALSE
    /\ configured = FALSE
    /\ suspended = FALSE
    /\ report = NewReport
    /\ writer = NewWriter
    /\ link = FALSE
    /\ subscribed = FALSE
    /\ memo = None
    /\ flushing = None
    /\ usbHost = {}
    /\ bleHost = {}
    /\ carried = pressed \cap Tracked
    /\ handover = "fresh"
    /\ touched = {}

------------------------------------------------------------------------------
(* The destination, and the histories that follow it *)

usb_host_active == configured /\ ~suspended

\* Where input goes now, whether or not a poll has seen it yet.
destination == IF usb_host_active THEN "usb" ELSE IF link THEN "ble" ELSE "none"

\* The first poll after a handover sees it, or never will (nobody looks if no key is
\* tracked).
Looked ==
    IF handover # "fresh" \/ Tracked = {} THEN handover
    ELSE IF router.destination # destination THEN "seen" ELSE "missed"

\* A handover: what is down now was pressed for somebody else.
HandoverFrom(past) ==
    /\ IF destination' # destination
       THEN carried' = pressed \cap Tracked /\ handover' = "fresh"
       ELSE handover' = past /\ UNCHANGED carried
    /\ IF usb_host_active' /\ ~usb_host_active
       THEN touched' = pressed \cap Tracked
       ELSE UNCHANGED touched

Handover == HandoverFrom(handover)

------------------------------------------------------------------------------
(* The pad *)

Press(k) ==
    /\ k \notin pressed
    /\ pressed' = pressed \cup {k}
    /\ touched' = touched \cup ({k} \cap Tracked)
    /\ UNCHANGED <<pad, usbBus, report, writer, bleLink, usbHost, bleHost, carried, handover>>

Release(k) ==
    /\ k \in pressed
    /\ pressed' = pressed \ {k}
    /\ carried' = carried \ {k}
    /\ UNCHANGED <<pad, usbBus, report, writer, bleLink, usbHost, bleHost,
                   handover, touched>>

\* Mutant of Route: a new destination starts with what was blocked before.
RouteUnblocked(keys) ==
    LET blocked == keys \cap router.blocked
    IN  [router |-> [destination |-> destination, blocked |-> blocked],
         keys   |-> keys \ blocked]

\* Router::update.
Route(keys) ==
    LET blocked == keys \cap (IF destination # router.destination
                              THEN keys ELSE router.blocked)
    IN  [router |-> [destination |-> destination, blocked |-> blocked],
         keys   |-> keys \ blocked]

\* publish_reports: the keys for USB, stamped with the generation of now.
Publish(routed) ==
    report' = [current |-> TRUE,
               keys    |-> IF destination = "usb" THEN routed.keys ELSE {}]

\* What is left for BLE, if there is a connection to flush it to.
ForBle(routed) ==
    IF ~link THEN None ELSE IF destination = "ble" THEN routed.keys ELSE {}

\* KeypadUi::poll with no gesture completed.  The expander read may fail instead;
\* then nothing happens.
Poll(elapsed) ==
    LET update == Update(control, elapsed, pressed)
        routed == Route(update.input.keys)
    IN  /\ flushing = None
        /\ ~passkey
        /\ update.input.action = None
        /\ control' = update.next
        /\ router' = routed.router
        /\ Publish(routed)
        /\ flushing' = ForBle(routed)
        /\ handover' = Looked
        /\ UNCHANGED <<pressed, passkey, usbBus, writer, link, subscribed, memo,
                       usbHost, bleHost, carried, touched>>

\* A poll during passkey entry touches neither the controls nor the USB report.
PollPasskey ==
    /\ flushing = None
    /\ passkey
    /\ flushing' = IF link THEN {} ELSE None
    /\ UNCHANGED <<pressed, pad, usbBus, report, writer, link, subscribed, memo,
                   usbHost, bleHost, history>>

LinkGone ==
    /\ link' = FALSE
    /\ subscribed' = FALSE
    /\ memo' = None
    /\ flushing' = None
    /\ bleHost' = {}

\* A poll that completes a menu gesture.  The BLE link is released and dropped; the
\* action changes nothing, fails, or is lost, and the pad goes on.
PollAction(elapsed) ==
    LET update == Update(control, elapsed, pressed)
        routed == Route(update.input.keys)
    IN  /\ flushing = None
        /\ ~passkey
        /\ update.input.action # None
        /\ control' = update.next
        /\ router' = routed.router
        /\ Publish(routed)
        /\ LinkGone
        /\ UNCHANGED <<pressed, passkey, usbBus, writer, usbHost>>
        /\ HandoverFrom(Looked)

\* Or it was saved, and the pad restarts.
PollRestart(elapsed) ==
    /\ flushing = None
    /\ ~passkey
    /\ Update(control, elapsed, pressed).input.action # None
    /\ control' = New
    /\ router' = NewRouter
    /\ configured' = FALSE
    /\ suspended' = FALSE
    /\ report' = NewReport
    /\ writer' = NewWriter
    /\ LinkGone
    /\ usbHost' = {}
    /\ carried' = pressed \cap Tracked
    /\ handover' = "fresh"
    /\ touched' = {}
    /\ UNCHANGED <<pressed, passkey>>

------------------------------------------------------------------------------
(* USB: the bus, and keyboard_loop *)

\* GENERATION moves on: the report is out of date, the writer forgets what it wrote,
\* and a write in progress will not be taken.
Restamp ==
    /\ report' = [report EXCEPT !.current = FALSE]
    /\ writer' = NewWriter

Configure ==
    /\ configured' = TRUE
    /\ Restamp
    /\ UNCHANGED <<pressed, pad, suspended, bleLink, usbHost, bleHost>>
    /\ Handover

\* A bus reset, an unplugged cable or a host that deconfigures the pad.
Reset ==
    /\ configured' = FALSE
    /\ suspended' = FALSE
    /\ usbHost' = {}
    /\ Restamp
    /\ UNCHANGED <<pressed, pad, bleLink, bleHost>>
    /\ Handover

\* The bus suspends or resumes.
Suspend ==
    /\ configured
    /\ suspended' = ~suspended
    /\ Restamp
    /\ UNCHANGED <<pressed, pad, configured, bleLink, usbHost, bleHost>>
    /\ Handover

\* Mutant of KeyboardLoop: the report's stamp is not looked at.
KeyboardLoopReplays ==
    /\ writer.writing = None
    /\ usb_host_active
    /\ writer.last # report.keys
    /\ writer' = [writer EXCEPT !.writing = report.keys]
    /\ UNCHANGED <<pressed, pad, usbBus, report, bleLink, usbHost, bleHost, history>>

\* keyboard_loop from its timer to the write it awaits, if it has one to make.
KeyboardLoop ==
    LET value == IF report.current THEN report.keys ELSE {}
    IN  /\ writer.writing = None
        /\ usb_host_active
        /\ writer.last # value
        /\ writer' = [writer EXCEPT !.writing = value]
        /\ UNCHANGED <<pressed, pad, usbBus, report, bleLink, usbHost, bleHost, history>>

\* The host takes the report.
Written ==
    /\ writer.writing # None
    /\ usbHost' = writer.writing
    /\ writer' = [writer EXCEPT !.last = writer.writing, !.writing = None]
    /\ UNCHANGED <<pressed, pad, usbBus, report, bleLink, bleHost,
                   carried, handover, touched>>

\* Mutant of WriteFails: a report that may not have arrived counts as written.
WriteFailsRemembered ==
    /\ writer.writing # None
    /\ writer' = [last |-> writer.writing, writing |-> None]
    /\ UNCHANGED <<pressed, pad, usbBus, report, bleLink, usbHost, bleHost, history>>

\* The write fails or its 20 ms run out.
WriteFails ==
    /\ writer.writing # None
    /\ writer' = [writer EXCEPT !.writing = None]
    /\ UNCHANGED <<pressed, pad, usbBus, report, bleLink, usbHost, bleHost, history>>

------------------------------------------------------------------------------
(* BLE: the connection, and flush *)

Connect ==
    /\ ~link
    /\ link' = TRUE
    /\ UNCHANGED <<pressed, pad, usbBus, report, writer, subscribed, memo, flushing,
                   usbHost, bleHost>>
    /\ Handover

Subscribe ==
    /\ link
    /\ subscribed' = ~subscribed
    /\ UNCHANGED <<pressed, pad, usbBus, report, writer, link, memo, flushing,
                   usbHost, bleHost, history>>

\* The host takes a notification while it is subscribed and connected.
Flush ==
    /\ flushing # None
    /\ flushing' = None
    /\ IF ~subscribed
       THEN memo' = None /\ UNCHANGED bleHost
       ELSE IF memo = flushing
       THEN UNCHANGED <<memo, bleHost>>
       ELSE /\ memo' = flushing
            /\ bleHost' = flushing
    /\ UNCHANGED <<pressed, pad, usbBus, report, writer, link, subscribed, usbHost,
                   carried, handover, touched>>

\* Mutant of FlushFails: the memo is set before notify is known to have worked.
FlushFailsRemembered ==
    /\ flushing # None
    /\ subscribed
    /\ flushing' = None
    /\ memo' = flushing
    /\ UNCHANGED <<pressed, pad, usbBus, report, writer, link, subscribed,
                   usbHost, bleHost, history>>

\* notify fails or its 100 ms run out.
FlushFails ==
    /\ flushing # None
    /\ subscribed
    /\ flushing' = None
    /\ UNCHANGED <<pressed, pad, usbBus, report, writer, link, subscribed, memo,
                   usbHost, bleHost, history>>

\* end_passkey.
EndPasskey ==
    /\ passkey' = FALSE
    /\ control' = New
    /\ router' = NewRouter

\* The link drops: Disconnected, or a pairing that was refused.
Disconnect ==
    /\ link
    /\ LinkGone
    /\ EndPasskey
    /\ UNCHANGED <<pressed, usbBus, report, writer, usbHost>>
    /\ Handover

\* The pad drops a link that came up weak or lost its bond: refuse.  An entry that was
\* under way stays, with no link to answer.
Refuse ==
    /\ link
    /\ flushing = None
    /\ LinkGone
    /\ UNCHANGED <<pressed, pad, usbBus, report, writer, usbHost>>
    /\ Handover

\* PassKeyInput: release_reports, then begin_passkey.
BeginPasskey ==
    /\ link
    /\ flushing = None
    /\ passkey' = TRUE
    /\ memo' = None
    /\ \/ bleHost' = {}
       \/ UNCHANGED bleHost
    /\ UNCHANGED <<pressed, control, router, usbBus, report, writer, link, subscribed,
                   flushing, usbHost, history>>

\* The entry was answered, cancelled or timed out, or pairing ended.
PasskeyEnds ==
    /\ link
    /\ flushing = None
    /\ EndPasskey
    /\ UNCHANGED <<pressed, usbBus, report, writer, bleLink, usbHost, bleHost, history>>

\* An entry no link is there to answer is cancelled, completed or timed out by a poll.
PasskeyLapses ==
    /\ passkey
    /\ ~link
    /\ passkey' = FALSE
    /\ UNCHANGED <<pressed, control, router, usbBus, report, writer, bleLink, usbHost,
                   bleHost, history>>

PollKeys(elapsed) == Poll(elapsed) \/ PollAction(elapsed) \/ PollRestart(elapsed)

Next ==
    \/ \E k \in Key : Press(k)
    \/ \E k \in Key : Release(k)
    \/ \E elapsed \in Elapsed : PollKeys(elapsed)
    \/ PollPasskey
    \/ Configure
    \/ Reset
    \/ Suspend
    \/ KeyboardLoop
    \/ Written
    \/ WriteFails
    \/ Connect
    \/ Subscribe
    \/ Flush
    \/ FlushFails
    \/ Disconnect
    \/ Refuse
    \/ BeginPasskey
    \/ PasskeyEnds
    \/ PasskeyLapses

Spec == Init /\ [][Next]_vars

\* The tasks keep running, time passes in a state of the controls, and of the
\* reports tried over and over some get through.
Fairness ==
    /\ \A elapsed \in Elapsed : SF_vars(PollKeys(elapsed))
    /\ WF_vars(PollPasskey) /\ WF_vars(KeyboardLoop)
    /\ SF_vars(Written) /\ SF_vars(Flush)

FairSpec == Spec /\ Fairness

------------------------------------------------------------------------------
(* Properties *)

\* A key held through a handover the router saw is not sent to the new host before
\* it was released, however polls, writes, flushes, pairing entries and link drops
\* fall around the handover.  `+` is another matter: Controls may keep it back over the
\* handover, unseen by the router, and type it later with a second key.
SeenHandoverReleases ==
    [][\A k \in PlainKey :
          k \in (usbHost' \ usbHost) \cup (bleHost' \ bleHost)
             => ~(handover = "seen" /\ k \in carried)]_vars

\* Nothing that was typed before a reset, a deconfiguration or a suspend is replayed
\* to the USB host afterwards: what it receives was down at some time since then.
NoReplay ==
    [][(usbHost' \ usbHost) \cap (Tracked \ {PLUS}) \subseteq touched]_vars

\* The states of an opened menu, and those that last until every key was released.
InMenu == {"menuRelease", "menu", "choosing"}
Quiet  == InMenu \cup {"drain"}

\* No report that is still to be sent shows a key.
Silent == (report.current => report.keys = {}) /\ flushing \in {None, {}}

\* A menu gesture types nothing: opening the menu falls silent, and the pad stays silent
\* up to and including the poll that finds every key released, whichever key is held when
\* the menu closes, times out or acts, and whatever entries and hosts come in between.
MenuTypesNothing ==
    [][control'.at \in InMenu \/ (control.at \in Quiet /\ Silent) => Silent']_vars

\* No host is left with a stuck key: the USB host once no key is down and no pairing
\* entry owns the pad, the BLE host even while keys are down that USB takes.
NoStuckUsbKey ==
    <>[](pressed = {} /\ usb_host_active /\ ~passkey) => <>[](usbHost = {})
NoStuckBleKey ==
    <>[]((pressed = {} \/ usb_host_active) /\ link /\ subscribed) => <>[](bleHost = {})

\* "Held keys never cross to a new host" (routing.rs), seen by the router or not.
HeldKeysNeverCross ==
    [][\A k \in PlainKey :
          k \in (usbHost' \ usbHost) \cup (bleHost' \ bleHost) => k \notin carried]_vars
==============================================================================
