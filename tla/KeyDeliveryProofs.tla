-------------------------- MODULE KeyDeliveryProofs --------------------------
(***************************************************************************)
(* Proofs about KeyDelivery for any keys, slots, holds and times.          *)
(***************************************************************************)
EXTENDS KeyDelivery, TLAPS

USE KeyAssumption, NoActionAssumption, BoundAssumption

------------------------------------------------------------------------------
(* Controls *)

\* What an update does with the keys it is given.
Sound(state, update, keys) ==
    /\ update.next \in State
    /\ update.input.keys \subseteq keys \cup {PLUS}
    /\ update.next.at \in InMenu => update.input.keys = {}
    /\ \A k \in keys \ {PLUS} :
          k \in update.input.keys \/ (update.input.keys = {} /\ update.next.at \in Quiet)
    /\ state.at \in Quiet => update.input.keys = {} /\ (keys # {} => update.next.at \in Quiet)

LEMMA Names ==
    /\ \A name \in {"ready", "plusPending", "plusTap", "passthrough", "menuRelease", "menu", "drain"} :
          At(name) \in State /\ At(name).at = name
    /\ \A s \in Slot : Choosing(s) \in State /\ Choosing(s).at = "choosing"
BY DEF State, At, Choosing, Slot

LEMMA Answers ==
    /\ \A next, keys : Types(next, keys).next = next /\ Types(next, keys).input.keys = keys
    /\ \A next, menu : Shows(next, menu).next = next /\ Shows(next, menu).input.keys = {}
    /\ \A kind, slot : Does(kind, slot).next = At("drain") /\ Does(kind, slot).input.keys = {}
BY DEF Types, Shows, Does

\* Whatever state the controls are in, an update is sound.
LEMMA UpdateSound ==
    ASSUME NEW state \in State, NEW elapsed, NEW keys \in SUBSET Key
    PROVE  Sound(state, Update(state, elapsed, keys), keys)
<1> DEFINE update == Update(state, elapsed, keys)
<1>1. PLUS \in Key
  OBVIOUS
<1>2. CASE state.at = "ready"
  <2>1. update = Ready(keys)
    BY <1>2 DEF Update
  <2> QED BY <1>2, <2>1, Names, Answers DEF Ready, Sound, Quiet, InMenu
<1>3. CASE state.at = "plusPending"
  <2>1. update = PlusPending(elapsed, keys)
    BY <1>3 DEF Update
  <2>2. CASE keys = {}
    BY <1>3, <2>1, <2>2, Names, Answers DEF PlusPending, Sound, Quiet, InMenu
  <2>3. CASE keys = {PLUS}
    BY <1>3, <2>1, <2>3, Names, Answers DEF PlusPending, Sound, Quiet, InMenu
  <2>4. CASE keys # {} /\ keys # {PLUS}
    BY <1>3, <2>1, <2>4, Names, Answers DEF PlusPending, Sound, Quiet, InMenu
  <2> QED BY <2>2, <2>3, <2>4
<1>4. CASE state.at = "plusTap"
  <2>1. update = PlusTap(elapsed, keys)
    BY <1>4 DEF Update
  <2> QED BY <1>4, <2>1, Names, Answers DEF PlusTap, Sound, Quiet, InMenu
<1>5. CASE state.at = "passthrough"
  <2>1. update = Passthrough(keys)
    BY <1>5 DEF Update
  <2> QED BY <1>5, <2>1, Names, Answers DEF Passthrough, Sound, Quiet, InMenu
<1>6. CASE state.at = "menuRelease"
  <2>1. update = MenuRelease(keys)
    BY <1>6 DEF Update
  <2> QED BY <1>6, <2>1, Names, Answers DEF MenuRelease, Sound, Quiet, InMenu
<1>7. CASE state.at = "menu"
  <2>1. update = MenuOpen(elapsed, keys)
    BY <1>7 DEF Update
  <2> DEFINE chosen == CHOOSE s \in Slot : keys = {SLOT_KEYS[s]}
  <2>2. (\E s \in Slot : keys = {SLOT_KEYS[s]}) => chosen \in Slot
    OBVIOUS
  <2>3. \/ update = Shows(At("drain"), "closed")
        \/ chosen \in Slot /\ update = Shows(Choosing(chosen), "holding")
        \/ update = Shows(At("menu"), "open")
    BY <2>1, <2>2 DEF MenuOpen
  <2> HIDE DEF chosen
  <2>4. update.input.keys = {} /\ update.next \in State /\ update.next.at \in Quiet
    BY <2>3, Names, Answers DEF Quiet, InMenu
  <2> QED BY <2>4 DEF Sound
<1>8. CASE state.at = "choosing"
  <2>1. update = Chosen(state.slot, elapsed, keys) /\ state.slot \in Slot
    BY <1>8 DEF Update, State
  <2>2. \/ \E kind : update = Does(kind, state.slot)
        \/ update = Shows(At("drain"), "closed")
        \/ update = Shows(Choosing(state.slot), "holding")
    BY <2>1 DEF Chosen
  <2>3. update.input.keys = {} /\ update.next \in State /\ update.next.at \in Quiet
    BY <2>1, <2>2, Names, Answers DEF Quiet, InMenu
  <2> QED BY <2>3 DEF Sound
<1>9. CASE state.at = "drain"
  <2>1. update = Drain(keys)
    BY <1>9 DEF Update
  <2> QED BY <1>9, <2>1, Names, Answers DEF Drain, Sound, Quiet, InMenu
<1> QED BY <1>2, <1>3, <1>4, <1>5, <1>6, <1>7, <1>8, <1>9 DEF State

------------------------------------------------------------------------------
(* The inductive invariant *)

\* What is on its way to the USB host.
Published == IF report.current THEN report.keys ELSE {}
Underway  == IF writer.writing = None THEN {} ELSE writer.writing
Flushed   == IF flushing = None THEN {} ELSE flushing

\* Without a USB host nothing is on its way to one.
NothingWithoutHost == ~usb_host_active => Published = {} /\ writer.writing = None

\* Nor is anything after a handover, until a poll has looked.
NothingWhenFresh ==
    handover = "fresh" /\ Tracked # {} => Published = {} /\ Underway = {}

\* A key that was carried over a handover the router saw is blocked by it, or kept
\* back by the controls; so it is on its way to neither host.
CarriedIsHeldBack ==
    handover = "seen" =>
        \A k \in carried \ {PLUS} :
            /\ k \in router.blocked \/ control.at \in Quiet
            /\ k \notin Published
            /\ k \notin Underway
            /\ k \notin Flushed

\* What is on its way to the USB host was down since that became active.
TouchedIsKnown ==
    usb_host_active =>
        /\ pressed \cap Tracked \subseteq touched
        /\ Published \cap (Tracked \ {PLUS}) \subseteq touched
        /\ Underway \cap (Tracked \ {PLUS}) \subseteq touched

\* An opened menu is silent.
MenuIsSilent == control.at \in InMenu => Silent

IInv ==
    /\ TypeOK
    /\ carried \subseteq pressed
    /\ NothingWithoutHost
    /\ NothingWhenFresh
    /\ CarriedIsHeldBack
    /\ TouchedIsKnown
    /\ MenuIsSilent

LEMMA NewFacts ==
    /\ New \in State /\ New.at = "drain"
    /\ NewRouter \in [destination : Destination, blocked : SUBSET Key]
    /\ NewReport \in [current : BOOLEAN, keys : SUBSET Key] /\ NewReport.keys = {}
    /\ NewWriter \in [last : (SUBSET Key) \cup {None}, writing : (SUBSET Key) \cup {None}]
    /\ NewWriter.writing = None
BY Names DEF New, NewRouter, NewReport, NewWriter, Destination

\* The pad starts with nothing on its way.
LEMMA InitIInv == Init => IInv
<1> SUFFICES ASSUME Init PROVE IInv
  OBVIOUS
<1>1. TypeOK
  BY NewFacts DEF Init, TypeOK
<1>2. Published = {} /\ Underway = {} /\ Flushed = {} /\ writer.writing = None
  BY NewFacts DEF Init, Published, Underway, Flushed
<1>3. control.at = "drain" /\ handover = "fresh" /\ ~usb_host_active
  BY NewFacts DEF Init, usb_host_active
<1>4. carried \subseteq pressed
  BY DEF Init
<1>5. MenuIsSilent
  BY <1>3 DEF MenuIsSilent, Silent, InMenu
<1> QED BY <1>1, <1>2, <1>3, <1>4, <1>5
        DEF IInv, NothingWithoutHost, NothingWhenFresh, CarriedIsHeldBack, TouchedIsKnown

------------------------------------------------------------------------------
(* Steps that change where input goes *)

\* The bus changes: nothing is on its way to the USB host after that.
LEMMA BusKeeps ==
    ASSUME IInv, configured' \in BOOLEAN, suspended' \in BOOLEAN, Restamp, Handover,
           usbHost' \in {usbHost, {}}, UNCHANGED <<pressed, pad, bleLink, bleHost>>
    PROVE  IInv'
<1>1. Published' = {} /\ Underway' = {} /\ writer'.writing = None
  BY NewFacts DEF Restamp, Published, Underway, IInv, TypeOK
<1>2. Flushed' = Flushed
  BY DEF Flushed, bleLink
<1>3. /\ handover' \in {"fresh", handover}
      /\ handover' = "fresh" \/ carried' = carried
      /\ carried' \subseteq Tracked /\ carried' \subseteq pressed
      /\ touched' \subseteq Tracked
      /\ usb_host_active' => pressed \cap Tracked \subseteq touched'
  BY DEF Handover, HandoverFrom, IInv, TypeOK, TouchedIsKnown
<1>4. TypeOK'
  <2>1. report' \in [current : BOOLEAN, keys : SUBSET Key]
    BY DEF TypeOK, IInv, Restamp
  <2>2. writer' \in [last : (SUBSET Key) \cup {None}, writing : (SUBSET Key) \cup {None}]
    BY NewFacts DEF Restamp
  <2> QED BY <1>3, <2>1, <2>2 DEF TypeOK, IInv, pad, bleLink
<1>5. CarriedIsHeldBack'
  <2> SUFFICES ASSUME handover' = "seen", NEW k \in carried' \ {PLUS}
               PROVE  k \notin Flushed' /\ (k \in router'.blocked \/ control'.at \in Quiet)
    BY <1>1 DEF CarriedIsHeldBack
  <2>1. handover = "seen" /\ k \in carried
    BY <1>3
  <2> QED BY <1>2, <2>1 DEF IInv, CarriedIsHeldBack, pad
<1>6. MenuIsSilent'
  BY <1>1 DEF MenuIsSilent, Silent, InMenu, IInv, pad, bleLink, Published
<1> QED BY <1>1, <1>3, <1>4, <1>5, <1>6
        DEF IInv, NothingWithoutHost, NothingWhenFresh, TouchedIsKnown

\* The link comes or goes: it matters where no USB host is active, to which nothing is
\* on its way.
LEMMA LinkKeeps ==
    ASSUME IInv, link' \in BOOLEAN, subscribed' \in BOOLEAN, passkey' \in BOOLEAN, Handover,
           memo' \in {memo, None}, flushing' \in {flushing, None}, bleHost' \in {bleHost, {}},
           UNCHANGED <<control, router>> \/ EndPasskey,
           UNCHANGED <<pressed, usbBus, report, writer, usbHost>>
    PROVE  IInv'
<1>1. /\ Published' = Published /\ Underway' = Underway
      /\ writer' = writer /\ usb_host_active' = usb_host_active
  BY DEF Published, Underway, usb_host_active, usbBus
<1>2. Flushed' \in {{}, Flushed}
  BY DEF Flushed
<1>3. /\ (handover' = "fresh" /\ ~usb_host_active) \/ UNCHANGED <<handover, carried>>
      /\ carried' \subseteq Tracked /\ carried' \subseteq pressed
      /\ handover' \in {"fresh", handover}
      /\ touched' = touched
  BY <1>1 DEF Handover, HandoverFrom, destination, IInv, TypeOK
<1>4. TypeOK'
  BY <1>3, NewFacts DEF TypeOK, IInv, EndPasskey, usbBus
<1>5. NothingWithoutHost' /\ NothingWhenFresh'
  <2>1. NothingWithoutHost'
    BY <1>1 DEF IInv, NothingWithoutHost
  <2>2. Underway = {} \/ writer.writing # None
    BY DEF Underway
  <2> QED BY <1>1, <1>3, <2>1, <2>2 DEF IInv, NothingWithoutHost, NothingWhenFresh
<1>6. CarriedIsHeldBack'
  <2> SUFFICES ASSUME handover' = "seen", NEW k \in carried' \ {PLUS}
               PROVE  /\ k \in router'.blocked \/ control'.at \in Quiet
                      /\ k \notin Published /\ k \notin Underway /\ k \notin Flushed'
    BY <1>1 DEF CarriedIsHeldBack
  <2>1. handover = "seen" /\ k \in carried
    BY <1>3
  <2>2. /\ k \in router.blocked \/ control.at \in Quiet
        /\ k \notin Published /\ k \notin Underway /\ k \notin Flushed
    BY <2>1 DEF IInv, CarriedIsHeldBack
  <2> QED BY <1>2, <2>2, NewFacts DEF EndPasskey, Quiet
<1>7. TouchedIsKnown'
  BY <1>1, <1>3 DEF IInv, TouchedIsKnown
<1>8. MenuIsSilent'
  <2> SUFFICES ASSUME control'.at \in InMenu
               PROVE  (report'.current => report'.keys = {}) /\ flushing' \in {None, {}}
    BY DEF MenuIsSilent, Silent, InMenu
  <2>1. control' = control
    BY NewFacts DEF EndPasskey, InMenu
  <2> QED BY <2>1 DEF IInv, MenuIsSilent, Silent, InMenu
<1> QED BY <1>3, <1>4, <1>5, <1>6, <1>7, <1>8 DEF IInv

------------------------------------------------------------------------------
(* Steps that leave the destination alone *)

LEMMA PressKeeps == ASSUME IInv, NEW k \in Key, Press(k) PROVE IInv'
<1>1. /\ Published' = Published /\ Underway' = Underway /\ Flushed' = Flushed
      /\ usb_host_active' = usb_host_active
  BY DEF Press, Published, Underway, Flushed, usb_host_active, usbBus, bleLink
<1>2. TypeOK'
  BY DEF Press, IInv, TypeOK, pad, usbBus, bleLink
<1>3. carried' \subseteq pressed' /\ NothingWithoutHost' /\ NothingWhenFresh'
  BY <1>1 DEF Press, IInv, NothingWithoutHost, NothingWhenFresh
<1>4. CarriedIsHeldBack'
  BY <1>1 DEF Press, IInv, CarriedIsHeldBack, pad
<1>5. TouchedIsKnown'
  BY <1>1 DEF Press, IInv, TouchedIsKnown
<1>6. MenuIsSilent'
  BY DEF Press, IInv, MenuIsSilent, Silent, pad, bleLink
<1> QED BY <1>2, <1>3, <1>4, <1>5, <1>6 DEF IInv

LEMMA ReleaseKeeps == ASSUME IInv, NEW k \in Key, Release(k) PROVE IInv'
<1>1. /\ Published' = Published /\ Underway' = Underway /\ Flushed' = Flushed
      /\ usb_host_active' = usb_host_active
  BY DEF Release, Published, Underway, Flushed, usb_host_active, usbBus, bleLink
<1>2. TypeOK'
  BY DEF Release, IInv, TypeOK, pad, usbBus, bleLink
<1>3. carried' \subseteq pressed' /\ NothingWithoutHost' /\ NothingWhenFresh'
  BY <1>1 DEF Release, IInv, NothingWithoutHost, NothingWhenFresh
<1>4. CarriedIsHeldBack'
  BY <1>1 DEF Release, IInv, CarriedIsHeldBack, pad
<1>5. TouchedIsKnown'
  BY <1>1 DEF Release, IInv, TouchedIsKnown
<1>6. MenuIsSilent'
  BY DEF Release, IInv, MenuIsSilent, Silent, pad, bleLink
<1> QED BY <1>2, <1>3, <1>4, <1>5, <1>6 DEF IInv

\* The writer starts with what is published, or goes on with nothing.
LEMMA WriterKeeps == ASSUME IInv, KeyboardLoop \/ Written \/ WriteFails PROVE IInv'
<1>1. /\ Published' = Published /\ Flushed' = Flushed
      /\ usb_host_active' = usb_host_active
      /\ UNCHANGED <<pressed, pad, usbBus, report, bleLink, history>>
  BY DEF KeyboardLoop, Written, WriteFails, Published, Flushed, usb_host_active, usbBus,
         bleLink, history
<1>2. /\ Underway' = Published \/ Underway' = {}
      /\ ~usb_host_active => writer'.writing = None
  BY DEF KeyboardLoop, Written, WriteFails, Published, Underway, IInv, TypeOK,
         NothingWithoutHost
<1>3. TypeOK'
  <2>1. /\ pressed' = pressed /\ control' = control /\ router' = router /\ passkey' = passkey
        /\ configured' = configured /\ suspended' = suspended /\ report' = report
        /\ link' = link /\ subscribed' = subscribed /\ memo' = memo /\ flushing' = flushing
        /\ carried' = carried /\ handover' = handover /\ touched' = touched
    BY <1>1 DEF pad, usbBus, bleLink, history
  <2>2. usbHost' \in {usbHost, writer.writing} /\ bleHost' = bleHost
    BY DEF KeyboardLoop, Written, WriteFails
  <2>3. writer.writing = None => usbHost' = usbHost
    BY DEF KeyboardLoop, Written, WriteFails
  <2>4. usbHost' \subseteq Key
    BY <2>2, <2>3 DEF IInv, TypeOK
  <2>5. writer' \in [last : (SUBSET Key) \cup {None}, writing : (SUBSET Key) \cup {None}]
    BY DEF KeyboardLoop, Written, WriteFails, IInv, TypeOK
  <2> QED BY <2>1, <2>2, <2>4, <2>5 DEF IInv, TypeOK
<1>4. carried' \subseteq pressed' /\ NothingWithoutHost' /\ NothingWhenFresh'
  BY <1>1, <1>2 DEF IInv, NothingWithoutHost, NothingWhenFresh, history
<1>5. CarriedIsHeldBack'
  BY <1>1, <1>2 DEF IInv, CarriedIsHeldBack, pad, history
<1>6. TouchedIsKnown'
  BY <1>1, <1>2 DEF IInv, TouchedIsKnown, history
<1>7. MenuIsSilent'
  BY <1>1 DEF IInv, MenuIsSilent, Silent, pad, bleLink
<1> QED BY <1>3, <1>4, <1>5, <1>6, <1>7 DEF IInv

\* What concerns the BLE host alone, and the ends of an entry.
LEMMA BleKeeps ==
    ASSUME IInv, subscribed' \in BOOLEAN, passkey' \in BOOLEAN,
           memo' \in {memo, flushing, None}, flushing' \in {flushing, {}, None},
           bleHost' \in SUBSET Key, UNCHANGED <<control, router>> \/ EndPasskey,
           UNCHANGED <<pressed, usbBus, report, writer, link, usbHost, history>>
    PROVE  IInv'
<1>1. /\ Published' = Published /\ Underway' = Underway
      /\ usb_host_active' = usb_host_active
      /\ UNCHANGED <<handover, carried, touched>>
  BY DEF Published, Underway, usb_host_active, usbBus, history
<1>2. Flushed' \in {{}, Flushed}
  BY DEF Flushed
<1>3. TypeOK'
  BY <1>1, NewFacts DEF IInv, TypeOK, EndPasskey, usbBus
<1>4. carried' \subseteq pressed' /\ NothingWithoutHost' /\ NothingWhenFresh'
  BY <1>1 DEF IInv, NothingWithoutHost, NothingWhenFresh
<1>5. CarriedIsHeldBack'
  <2> SUFFICES ASSUME handover = "seen", NEW k \in carried \ {PLUS}
               PROVE  /\ k \in router'.blocked \/ control'.at \in Quiet
                      /\ k \notin Published /\ k \notin Underway /\ k \notin Flushed'
    BY <1>1 DEF CarriedIsHeldBack
  <2>1. /\ k \in router.blocked \/ control.at \in Quiet
        /\ k \notin Published /\ k \notin Underway /\ k \notin Flushed
    BY DEF IInv, CarriedIsHeldBack
  <2> QED BY <1>2, <2>1, NewFacts DEF EndPasskey, Quiet
<1>6. TouchedIsKnown'
  BY <1>1 DEF IInv, TouchedIsKnown
<1>7. MenuIsSilent'
  <2> SUFFICES ASSUME control'.at \in InMenu
               PROVE  (report'.current => report'.keys = {}) /\ flushing' \in {None, {}}
    BY DEF MenuIsSilent, Silent, InMenu
  <2>1. control' = control
    BY NewFacts DEF EndPasskey, InMenu
  <2> QED BY <2>1 DEF IInv, MenuIsSilent, Silent, InMenu
<1> QED BY <1>1, <1>3, <1>4, <1>5, <1>6, <1>7 DEF IInv

------------------------------------------------------------------------------
(* Polls *)

\* What a poll lets through is what the controls type less what is blocked.
LEMMA RouteFacts ==
    ASSUME NEW keys \in SUBSET Key, router.blocked \subseteq Key
    PROVE  LET routed == Route(keys)
           IN  /\ routed.router \in [destination : Destination, blocked : SUBSET Key]
               /\ routed.keys \subseteq keys
               /\ destination # router.destination => keys \subseteq routed.router.blocked
               /\ keys \cap router.blocked \subseteq routed.router.blocked
               /\ routed.keys \cap routed.router.blocked = {}
<1>1. destination \in Destination
  BY DEF destination, Destination
<1>2. Route(keys).router.blocked = keys \cap (IF destination # router.destination
                                              THEN keys ELSE router.blocked)
  BY DEF Route
<1>3. /\ Route(keys).keys = keys \ Route(keys).router.blocked
      /\ Route(keys).router = [destination |-> destination,
                               blocked |-> Route(keys).router.blocked]
  BY DEF Route
<1> QED BY <1>1, <1>2, <1>3

\* A poll of the keys, whatever the link does at its end.
LEMMA PollOK ==
    ASSUME IInv, NEW elapsed,
           control' = Update(control, elapsed, pressed).next,
           router' = Route(Update(control, elapsed, pressed).input.keys).router,
           Publish(Route(Update(control, elapsed, pressed).input.keys)),
           Flushed' \in {{}, Route(Update(control, elapsed, pressed).input.keys).keys},
           link' \in BOOLEAN, subscribed' \in BOOLEAN, memo' \in {memo, None},
           flushing' \in (SUBSET Key) \cup {None}, bleHost' \in {bleHost, {}},
           UNCHANGED <<pressed, passkey, usbBus, writer, usbHost, touched>>,
           \/ handover' = Looked /\ carried' = carried
           \/ /\ handover' = "fresh" /\ destination # "usb"
              /\ carried' = pressed \cap Tracked
    PROVE  IInv'
<1> DEFINE update == Update(control, elapsed, pressed)
           keys   == update.input.keys
           routed == Route(keys)
<1>1. Sound(control, update, pressed)
  BY UpdateSound DEF IInv, TypeOK
<1>2. /\ keys \subseteq Key
      /\ keys \subseteq pressed \cup {PLUS}
  BY <1>1 DEF Sound, IInv, TypeOK
<1>3. /\ routed.router \in [destination : Destination, blocked : SUBSET Key]
      /\ routed.keys \subseteq keys
      /\ destination # router.destination => keys \subseteq routed.router.blocked
      /\ keys \cap router.blocked \subseteq routed.router.blocked
      /\ routed.keys \cap routed.router.blocked = {}
  BY <1>2, RouteFacts DEF IInv, TypeOK
<1>4. /\ control' = update.next /\ router' = routed.router
      /\ report' = [current |-> TRUE, keys |-> IF destination = "usb" THEN routed.keys ELSE {}]
      /\ Flushed' \in {{}, routed.keys}
  BY DEF Publish
<1> HIDE DEF routed, keys, update
<1>5. Published' = IF destination = "usb" THEN routed.keys ELSE {}
  BY <1>4 DEF Published
<1>6. /\ Underway' = Underway /\ writer' = writer
      /\ usb_host_active' = usb_host_active
      /\ destination = "usb" <=> usb_host_active
  BY DEF Underway, usb_host_active, usbBus, destination
<1>7. Looked \in {"fresh", "seen", "missed"} /\ (Looked = "fresh" => Tracked = {})
  BY DEF Looked, IInv, TypeOK
<1>8. /\ carried \subseteq pressed /\ carried \subseteq Tracked
      /\ carried' \subseteq pressed /\ carried' \subseteq Tracked
  BY DEF IInv, TypeOK
<1>9. TypeOK'
  <2>1. control' \in State
    BY <1>1, <1>4 DEF Sound
  <2>2. /\ router' \in [destination : Destination, blocked : SUBSET Key]
        /\ report' \in [current : BOOLEAN, keys : SUBSET Key]
    BY <1>2, <1>3, <1>4
  <2>3. handover' \in {"fresh", "seen", "missed"}
    BY <1>7
  <2>4. pressed' \subseteq Key /\ carried' \subseteq Tracked
    BY <1>8 DEF IInv, TypeOK
  <2> QED BY <2>1, <2>2, <2>3, <2>4 DEF IInv, TypeOK, usbBus
<1>10. NothingWithoutHost'
  BY <1>5, <1>6 DEF IInv, NothingWithoutHost
<1>11. NothingWhenFresh'
  <2> SUFFICES ASSUME handover' = "fresh", Tracked # {} PROVE Published' = {} /\ Underway' = {}
    BY DEF NothingWhenFresh
  <2>1. destination # "usb"
    BY <1>7
  <2> QED BY <1>5, <1>6, <2>1 DEF IInv, NothingWithoutHost, Underway
<1>12. CarriedIsHeldBack'
  <2> SUFFICES ASSUME handover' = "seen", NEW k \in carried \ {PLUS}
               PROVE  /\ k \in routed.router.blocked \/ update.next.at \in Quiet
                      /\ k \notin routed.keys /\ k \notin Underway
    BY <1>4, <1>5, <1>6 DEF CarriedIsHeldBack
  <2>1. k \in pressed /\ k \in Tracked
    BY <1>8
  <2>2. handover = "seen" \/ (handover = "fresh" /\ router.destination # destination)
    BY <2>1 DEF Looked
  <2>3. k \notin Underway
    BY <2>1, <2>2 DEF IInv, CarriedIsHeldBack, NothingWhenFresh
  <2>4. CASE k \in keys
    <3>1. control.at \notin Quiet
      BY <1>1, <2>1, <2>4 DEF Sound, keys
    <3>2. handover = "seen" => k \in router.blocked
      BY <3>1 DEF IInv, CarriedIsHeldBack
    <3>3. k \in routed.router.blocked
      BY <1>3, <2>2, <2>4, <3>2
    <3> QED BY <1>3, <2>3, <3>3
  <2>5. CASE k \notin keys
    <3>1. update.next.at \in Quiet
      BY <1>1, <2>1, <2>5 DEF Sound, keys
    <3> QED BY <1>3, <2>3, <2>5, <3>1
  <2> QED BY <2>4, <2>5
<1>13. TouchedIsKnown'
  <2> SUFFICES ASSUME usb_host_active
               PROVE  /\ pressed \cap Tracked \subseteq touched
                      /\ routed.keys \cap (Tracked \ {PLUS}) \subseteq touched
                      /\ Underway \cap (Tracked \ {PLUS}) \subseteq touched
    BY <1>5, <1>6 DEF TouchedIsKnown
  <2>1. /\ pressed \cap Tracked \subseteq touched
        /\ Underway \cap (Tracked \ {PLUS}) \subseteq touched
    BY DEF IInv, TouchedIsKnown
  <2> QED BY <1>2, <1>3, <2>1
<1>14. MenuIsSilent'
  <2> SUFFICES ASSUME update.next.at \in InMenu
               PROVE  (report'.current => report'.keys = {}) /\ flushing' \in {None, {}}
    BY <1>4 DEF MenuIsSilent, Silent, InMenu
  <2>1. routed.keys = {}
    BY <1>1, <1>3 DEF Sound, keys
  <2> QED BY <1>4, <2>1 DEF Flushed
<1> QED BY <1>8, <1>9, <1>10, <1>11, <1>12, <1>13, <1>14 DEF IInv

LEMMA PollKeeps == ASSUME IInv, NEW elapsed, Poll(elapsed) PROVE IInv'
<1> DEFINE routed == Route(Update(control, elapsed, pressed).input.keys)
<1>1. /\ control' = Update(control, elapsed, pressed).next
      /\ router' = routed.router
      /\ Publish(routed)
      /\ flushing' = ForBle(routed)
      /\ handover' = Looked /\ carried' = carried
      /\ UNCHANGED <<pressed, passkey, usbBus, writer, link, subscribed, memo,
                     usbHost, bleHost, touched>>
  BY DEF Poll
<1>2. Flushed' \in {{}, routed.keys}
  BY <1>1 DEF ForBle, Flushed
<1>3. flushing' \in (SUBSET Key) \cup {None}
  <2>1. Update(control, elapsed, pressed).input.keys \subseteq Key
    BY UpdateSound DEF Sound, IInv, TypeOK
  <2>2. routed.keys \subseteq Key
    BY <2>1, RouteFacts DEF IInv, TypeOK
  <2> QED BY <1>1, <2>2 DEF ForBle
<1>4. link' \in BOOLEAN /\ subscribed' \in BOOLEAN
  BY <1>1 DEF IInv, TypeOK
<1> HIDE DEF routed
<1>5. /\ memo' \in {memo, None} /\ bleHost' \in {bleHost, {}}
      /\ UNCHANGED <<pressed, passkey, usbBus, writer, usbHost, touched>>
  BY <1>1
<1> QED BY <1>1, <1>2, <1>3, <1>4, <1>5, PollOK DEF routed

LEMMA PollActionKeeps == ASSUME IInv, NEW elapsed, PollAction(elapsed) PROVE IInv'
<1> DEFINE routed == Route(Update(control, elapsed, pressed).input.keys)
<1>1. /\ control' = Update(control, elapsed, pressed).next
      /\ router' = routed.router
      /\ Publish(routed)
      /\ LinkGone
      /\ UNCHANGED <<pressed, passkey, usbBus, writer, usbHost>>
      /\ HandoverFrom(Looked)
  BY DEF PollAction
<1> HIDE DEF routed
<1>2. /\ Flushed' = {} /\ link' = FALSE /\ subscribed' = FALSE /\ memo' = None
      /\ flushing' = None /\ bleHost' = {}
  BY <1>1 DEF LinkGone, Flushed
<1>3. usb_host_active' = usb_host_active
  BY <1>1 DEF usbBus, usb_host_active
<1>4. /\ touched' = touched
      /\ \/ handover' = Looked /\ carried' = carried
         \/ /\ handover' = "fresh" /\ destination # "usb"
            /\ carried' = pressed \cap Tracked
  BY <1>1, <1>3 DEF HandoverFrom, destination
<1>5. UNCHANGED <<pressed, passkey, usbBus, writer, usbHost, touched>>
  BY <1>1, <1>4
<1> QED BY <1>1, <1>2, <1>4, <1>5, PollOK DEF routed

LEMMA PollRestartKeeps == ASSUME IInv, NEW elapsed, PollRestart(elapsed) PROVE IInv'
<1>1. TypeOK'
  BY NewFacts DEF PollRestart, LinkGone, IInv, TypeOK
<1>2. Published' = {} /\ Underway' = {} /\ Flushed' = {} /\ writer'.writing = None
  BY NewFacts DEF PollRestart, LinkGone, Published, Underway, Flushed
<1>3. /\ control'.at = "drain" /\ handover' = "fresh" /\ ~usb_host_active'
      /\ carried' \subseteq pressed'
  BY NewFacts DEF PollRestart, usb_host_active
<1>4. MenuIsSilent'
  BY <1>3 DEF MenuIsSilent, Silent, InMenu
<1> QED BY <1>1, <1>2, <1>3, <1>4
        DEF IInv, NothingWithoutHost, NothingWhenFresh, CarriedIsHeldBack, TouchedIsKnown

------------------------------------------------------------------------------
(* All steps *)

LEMMA NextIInv == IInv /\ [Next]_vars => IInv'
<1> SUFFICES ASSUME IInv, [Next]_vars PROVE IInv'
  OBVIOUS
<1>1. ASSUME NEW k \in Key, Press(k) \/ Release(k) PROVE IInv'
  BY <1>1, PressKeeps, ReleaseKeeps
<1>2. ASSUME NEW elapsed \in Elapsed, PollKeys(elapsed) PROVE IInv'
  BY <1>2, PollKeeps, PollActionKeeps, PollRestartKeeps DEF PollKeys
<1>3. CASE KeyboardLoop \/ Written \/ WriteFails
  BY <1>3, WriterKeeps
<1>4. CASE Configure \/ Reset \/ Suspend
  <2>1. /\ configured' \in BOOLEAN /\ suspended' \in BOOLEAN
        /\ Restamp /\ Handover /\ usbHost' \in {usbHost, {}}
    BY <1>4 DEF Configure, Reset, Suspend, IInv, TypeOK
  <2>2. UNCHANGED <<pressed, pad, bleLink, bleHost>>
    BY <1>4 DEF Configure, Reset, Suspend
  <2> QED BY <2>1, <2>2, BusKeeps
<1>5. CASE Connect \/ Disconnect \/ Refuse
  <2>1. /\ link' \in BOOLEAN /\ subscribed' \in BOOLEAN /\ passkey' \in BOOLEAN /\ Handover
        /\ memo' \in {memo, None} /\ flushing' \in {flushing, None} /\ bleHost' \in {bleHost, {}}
    BY <1>5 DEF Connect, Disconnect, Refuse, LinkGone, EndPasskey, pad, IInv, TypeOK
  <2>2. UNCHANGED <<control, router>> \/ EndPasskey
    BY <1>5 DEF Connect, Disconnect, Refuse, pad
  <2>3. UNCHANGED <<pressed, usbBus, report, writer, usbHost>>
    BY <1>5 DEF Connect, Disconnect, Refuse
  <2> QED BY <2>1, <2>2, <2>3, LinkKeeps
<1>6. CASE PollPasskey \/ Subscribe \/ Flush \/ FlushFails \/ BeginPasskey \/ PasskeyEnds
           \/ PasskeyLapses
  <2>1. subscribed' \in BOOLEAN /\ passkey' \in BOOLEAN
    BY <1>6 DEF PollPasskey, Subscribe, Flush, FlushFails, BeginPasskey, PasskeyEnds,
                PasskeyLapses, EndPasskey, pad, bleLink, IInv, TypeOK
  <2>2. memo' \in {memo, flushing, None} /\ flushing' \in {flushing, {}, None}
    BY <1>6 DEF PollPasskey, Subscribe, Flush, FlushFails, BeginPasskey, PasskeyEnds,
                PasskeyLapses, bleLink
  <2>3. bleHost' \in SUBSET Key
    BY <1>6 DEF PollPasskey, Subscribe, Flush, FlushFails, BeginPasskey, PasskeyEnds,
                PasskeyLapses, IInv, TypeOK
  <2>4. UNCHANGED <<control, router>> \/ EndPasskey
    BY <1>6 DEF PollPasskey, Subscribe, Flush, FlushFails, BeginPasskey, PasskeyEnds,
                PasskeyLapses, pad
  <2>5. UNCHANGED <<pressed, usbBus, report, writer, link, usbHost, history>>
    BY <1>6 DEF PollPasskey, Subscribe, Flush, FlushFails, BeginPasskey, PasskeyEnds,
                PasskeyLapses, bleLink, history
  <2> QED BY <2>1, <2>2, <2>3, <2>4, <2>5, BleKeeps
<1>7. CASE UNCHANGED vars
  BY <1>7 DEF vars, IInv, TypeOK, NothingWithoutHost, NothingWhenFresh, CarriedIsHeldBack,
              TouchedIsKnown, MenuIsSilent, Silent, Published, Underway, Flushed, usb_host_active
<1> QED BY <1>1, <1>2, <1>3, <1>4, <1>5, <1>6, <1>7 DEF Next

\* The invariant of every behaviour, fair or not.
THEOREM Invariance == Spec => []IInv
BY InitIInv, NextIInv, PTL DEF Spec

\* TypeOK: for any keys, slots and holds the variables keep to their types.
THEOREM TypeCorrect == Spec => []TypeOK
<1>1. IInv => TypeOK
  BY DEF IInv
<1> QED BY <1>1, Invariance, PTL

\* From a state that waits for keys to be released, a silent pad stays silent.
LEMMA QuietKeeps ==
    ASSUME IInv, [Next]_vars, control.at \in Quiet, Silent
    PROVE  Silent'
<1>1. ASSUME NEW elapsed \in Elapsed, PollKeys(elapsed)
      PROVE  Silent'
  <2> DEFINE update == Update(control, elapsed, pressed)
  <2>1. update.input.keys = {}
    BY <1>1, UpdateSound DEF Sound, IInv, TypeOK
  <2>2. Route(update.input.keys).keys = {}
    BY <2>1 DEF Route
  <2>3. CASE Poll(elapsed)
    BY <2>2, <2>3 DEF Poll, Publish, ForBle, Silent
  <2>4. CASE PollAction(elapsed)
    BY <2>2, <2>4 DEF PollAction, Publish, LinkGone, Silent
  <2>5. CASE PollRestart(elapsed)
    BY <2>5, NewFacts DEF PollRestart, LinkGone, Silent
  <2> QED BY <1>1, <2>3, <2>4, <2>5 DEF PollKeys
<1>2. CASE Configure \/ Reset \/ Suspend
  BY <1>2 DEF Configure, Reset, Suspend, Restamp, bleLink, Silent, IInv, TypeOK
<1>3. CASE PollPasskey \/ Connect \/ Subscribe \/ Flush \/ FlushFails \/ Disconnect \/ Refuse
           \/ BeginPasskey \/ PasskeyEnds \/ PasskeyLapses
  BY <1>3 DEF PollPasskey, Connect, Subscribe, Flush, FlushFails, Disconnect, Refuse,
              BeginPasskey, PasskeyEnds, PasskeyLapses, LinkGone, bleLink, Silent
<1>4. CASE KeyboardLoop \/ Written \/ WriteFails \/ UNCHANGED vars
  BY <1>4 DEF KeyboardLoop, Written, WriteFails, bleLink, vars, Silent
<1>5. ASSUME NEW k \in Key, Press(k) \/ Release(k)
      PROVE  Silent'
  BY <1>5 DEF Press, Release, bleLink, Silent
<1> QED BY <1>1, <1>2, <1>3, <1>4, <1>5 DEF Next

\* MenuTypesNothing: from the opened menu until all keys were let go, nothing that shows a
\* key is published for USB or waits to be flushed to BLE.
THEOREM MenuSilence == Spec => MenuTypesNothing
<1>1. IInv /\ IInv' /\ [Next]_vars =>
        [control'.at \in InMenu \/ (control.at \in Quiet /\ Silent) => Silent']_vars
  BY QuietKeeps DEF IInv, MenuIsSilent
<1> QED BY <1>1, Invariance, PTL DEF Spec, MenuTypesNothing

\* What a host newly takes for held was on its way to it.
LEMMA OnlyWhatWasSent ==
    ASSUME IInv, [Next]_vars
    PROVE  /\ usbHost' \ usbHost # {} => usb_host_active
           /\ usbHost' \ usbHost \subseteq Underway
           /\ bleHost' \ bleHost \subseteq Flushed
<1>1. CASE Written
  BY <1>1 DEF Written, Underway, IInv, NothingWithoutHost
<1>2. CASE Flush
  BY <1>2 DEF Flush, Flushed
<1>3. usbHost' \in {usbHost, {}} \/ Written
  BY DEF Next, vars, Press, Release, PollKeys, Poll, PollAction, PollRestart, PollPasskey,
         Configure, Reset, Suspend, KeyboardLoop, WriteFails, Connect, Subscribe, Flush,
         FlushFails, Disconnect, Refuse, BeginPasskey, PasskeyEnds, PasskeyLapses
<1>4. bleHost' \in {bleHost, {}} \/ Flush
  BY DEF Next, vars, Press, Release, PollKeys, Poll, PollAction, PollRestart, PollPasskey,
         Configure, Reset, Suspend, KeyboardLoop, WriteFails, Connect, Subscribe, Written,
         FlushFails, Disconnect, Refuse, BeginPasskey, PasskeyEnds, PasskeyLapses, LinkGone
<1>5. Written => bleHost' = bleHost
  BY DEF Written
<1>6. Flush => usbHost' = usbHost
  BY DEF Flush
<1> QED BY <1>1, <1>2, <1>3, <1>4, <1>5, <1>6

\* SeenHandoverReleases: a key held through a handover that the router saw does not
\* reach the new host before it was let go.
THEOREM HandoverSafety == Spec => SeenHandoverReleases
<1>1. IInv /\ [Next]_vars =>
        [\A k \in PlainKey :
            k \in (usbHost' \ usbHost) \cup (bleHost' \ bleHost)
               => ~(handover = "seen" /\ k \in carried)]_vars
  <2> SUFFICES ASSUME IInv, [Next]_vars, NEW k \in PlainKey,
                      k \in (usbHost' \ usbHost) \cup (bleHost' \ bleHost),
                      handover = "seen", k \in carried
               PROVE  FALSE
    OBVIOUS
  <2>1. k \in Underway \/ k \in Flushed
    BY OnlyWhatWasSent
  <2> QED BY <2>1 DEF PlainKey, IInv, CarriedIsHeldBack
<1> QED BY <1>1, Invariance, PTL DEF Spec, SeenHandoverReleases

\* NoReplay: what the USB host receives was down at some time since that host became
\* active.
THEOREM ReplaySafety == Spec => NoReplay
<1>1. IInv /\ [Next]_vars =>
        [(usbHost' \ usbHost) \cap (Tracked \ {PLUS}) \subseteq touched]_vars
  BY OnlyWhatWasSent DEF IInv, TouchedIsKnown
<1> QED BY <1>1, Invariance, PTL DEF Spec, NoReplay
==============================================================================
