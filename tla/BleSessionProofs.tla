-------------------------- MODULE BleSessionProofs --------------------------
(***************************************************************************)
(* Proofs about BleSession for any hosts, keys, length of code, deadline   *)
(* and number of queued events.                                            *)
(***************************************************************************)
EXTENDS BleSession, FiniteSetTheorems, TLAPS

USE KeyAssumption, LimitAssumption, NoneAssumption, BoundAssumption

(* The queue: what is in it, and what is behind an event. *)

Behind(queue, event) ==
    {e \in Event : \E i, j \in 1 .. Len(queue) :
        i < j /\ queue[i] = event /\ queue[j] = e}

AfterPasskey      == Behind(events, "passkey")
AfterDisconnected == Behind(events, "disconnected")

\* An event is queued behind all others.
LEMMA QueueAppended ==
    ASSUME events \in Seq(Event), NEW event \in Event, events' = Append(events, event)
    PROVE  /\ events' \in Seq(Event)
           /\ Pending' = Pending \cup {event}
           /\ AfterPasskey' \subseteq
                 AfterPasskey \cup (IF "passkey" \in Pending THEN {event} ELSE {})
           /\ AfterDisconnected' \subseteq
                 AfterDisconnected \cup (IF "disconnected" \in Pending THEN {event} ELSE {})
<1>1. Len(events') = Len(events) + 1 /\ Len(events) \in Nat
  OBVIOUS
<1>2. DOMAIN events = 1 .. Len(events) /\ DOMAIN events' = 1 .. Len(events')
  OBVIOUS
<1>3. \A i \in 1 .. Len(events) : events'[i] = events[i]
  OBVIOUS
<1>4. events'[Len(events')] = event
  OBVIOUS
<1>5. Pending' = Pending \cup {event}
  BY <1>1, <1>2, <1>3, <1>4 DEF Pending
<1>6. ASSUME NEW f
      PROVE  Behind(events', f) \subseteq
                 Behind(events, f) \cup (IF f \in Pending THEN {event} ELSE {})
  <2> SUFFICES ASSUME NEW e \in Behind(events', f), e \notin Behind(events, f)
               PROVE  f \in Pending /\ e = event
    OBVIOUS
  <2>1. PICK i, j \in 1 .. Len(events') : i < j /\ events'[i] = f /\ events'[j] = e
    BY DEF Behind
  <2>2. e \in Event
    BY DEF Behind
  <2>3. i \in 1 .. Len(events)
    BY <1>1, <2>1
  <2>4. f \in Pending
    BY <1>2, <1>3, <2>1, <2>3 DEF Pending
  <2>5. j \notin 1 .. Len(events)
    BY <1>3, <2>1, <2>2, <2>3 DEF Behind
  <2>6. j = Len(events')
    BY <1>1, <2>1, <2>5
  <2> QED BY <1>4, <2>1, <2>4, <2>6
<1>7. events' \in Seq(Event)
  OBVIOUS
<1> QED BY <1>5, <1>6, <1>7 DEF AfterPasskey, AfterDisconnected

\* The first event is taken; what remains was behind it.
LEMMA QueueTaken ==
    ASSUME events \in Seq(Event), events # <<>>, events' = Tail(events)
    PROVE  /\ events' \in Seq(Event)
           /\ Pending' \subseteq Pending
           /\ Pending \subseteq Pending' \cup {Head(events)}
           /\ AfterPasskey' \subseteq AfterPasskey
           /\ AfterDisconnected' \subseteq AfterDisconnected
           /\ Head(events) = "passkey" => Pending' \subseteq AfterPasskey
<1>1. Len(events) \in Nat /\ Len(events) > 0 /\ Len(events') = Len(events) - 1
  OBVIOUS
<1>2. DOMAIN events = 1 .. Len(events) /\ DOMAIN events' = 1 .. Len(events')
  OBVIOUS
<1>3. \A i \in 1 .. Len(events') : i + 1 \in 1 .. Len(events) /\ events'[i] = events[i + 1]
  BY <1>1
<1>4. Head(events) = events[1]
  OBVIOUS
<1>5. Pending' \subseteq Pending
  BY <1>2, <1>3 DEF Pending
<1>6. Pending \subseteq Pending' \cup {Head(events)}
  <2> SUFFICES ASSUME NEW i \in 1 .. Len(events), i # 1
               PROVE  events[i] \in Pending'
    BY <1>2, <1>4 DEF Pending
  <2>1. i - 1 \in 1 .. Len(events') /\ (i - 1) + 1 = i
    BY <1>1
  <2>2. events'[i - 1] = events[i]
    BY <1>3, <2>1
  <2> QED BY <1>2, <2>1, <2>2 DEF Pending
<1>7. ASSUME NEW f PROVE Behind(events', f) \subseteq Behind(events, f)
  <2> SUFFICES ASSUME NEW e \in Behind(events', f) PROVE e \in Behind(events, f)
    OBVIOUS
  <2>1. PICK i, j \in 1 .. Len(events') : i < j /\ events'[i] = f /\ events'[j] = e
    BY DEF Behind
  <2>2. i + 1 < j + 1 /\ events[i + 1] = f /\ events[j + 1] = e
    BY <1>3, <2>1
  <2>3. i + 1 \in 1 .. Len(events) /\ j + 1 \in 1 .. Len(events)
    BY <1>3
  <2> QED BY <2>2, <2>3 DEF Behind
<1>8. events' \in Seq(Event)
  OBVIOUS
<1>9. ASSUME Head(events) = "passkey" PROVE Pending' \subseteq AfterPasskey
  <2> SUFFICES ASSUME NEW j \in 1 .. Len(events')
               PROVE  events'[j] \in AfterPasskey
    BY <1>2 DEF Pending
  <2>1. events'[j] = events[j + 1] /\ j + 1 \in 1 .. Len(events) /\ 1 < j + 1
    BY <1>3
  <2>2. events'[j] \in Event
    BY <1>8
  <2>3. 1 \in 1 .. Len(events)
    BY <1>1
  <2> QED BY <1>4, <1>9, <2>1, <2>2, <2>3 DEF AfterPasskey, Behind
<1> QED BY <1>5, <1>6, <1>7, <1>8, <1>9 DEF AfterPasskey, AfterDisconnected

\* What is said of the first event is said of an event in the queue, and all others
\* are behind it.
LEMMA QueueHead ==
    ASSUME events \in Seq(Event), events # <<>>
    PROVE  /\ Head(events) \in Pending
           /\ Head(events) = "disconnected" =>
                 Pending \subseteq AfterDisconnected \cup {"disconnected"}
<1>1. Len(events) \in Nat /\ Len(events) > 0 /\ 1 \in 1 .. Len(events)
  OBVIOUS
<1>2. DOMAIN events = 1 .. Len(events) /\ Head(events) = events[1]
  OBVIOUS
<1>3. ASSUME Head(events) = "disconnected", NEW i \in 1 .. Len(events)
      PROVE  events[i] \in AfterDisconnected \cup {"disconnected"}
  <2>1. CASE i = 1
    BY <1>2, <1>3, <2>1
  <2>2. CASE i # 1
    <3>1. 1 < i /\ events[i] \in Event
      BY <2>2
    <3> QED BY <1>1, <1>2, <1>3, <3>1 DEF AfterDisconnected, Behind
  <2> QED BY <2>1, <2>2
<1> QED BY <1>1, <1>2, <1>3 DEF Pending

\* An empty queue holds nothing.
LEMMA QueueEmptied ==
    ASSUME events' = <<>>
    PROVE  Pending' = {} /\ AfterPasskey' = {} /\ AfterDisconnected' = {}
<1>1. Len(events') = 0 /\ DOMAIN events' = {}
  OBVIOUS
<1>2. Pending' = {}
  BY <1>1 DEF Pending
<1>3. \A f : Behind(events', f) = {}
  BY <1>1 DEF Behind
<1> QED BY <1>2, <1>3 DEF AfterPasskey, AfterDisconnected

\* The queue as it was.
LEMMA QueueKept ==
    ASSUME events' = events
    PROVE  Pending' = Pending /\ AfterPasskey' = AfterPasskey
           /\ AfterDisconnected' = AfterDisconnected
BY DEF Pending, AfterPasskey, AfterDisconnected

------------------------------------------------------------------------------
(* Passkey entry *)

EntryOK(e) == e \in Entry /\ Len(e.code) < PASSKEY_DIGITS /\ e.outcome = "none"

\* A new entry, one that begins, and one that a time unit passed for.
LEMMA FreshEntries ==
    /\ EntryOK(NewEntry) /\ ~NewEntry.active /\ NewEntry.code = <<>>
    /\ \A keys \in SUBSET Key :
          EntryOK(Begin(keys)) /\ Begin(keys).prev = keys /\ Begin(keys).code = <<>>
    /\ \A e \in Entry : EntryOK(e) /\ e.left > 0 =>
          /\ EntryOK(Ages(e))
          /\ Ages(e).active = e.active /\ Ages(e).prev = e.prev /\ Ages(e).code = e.code
<1>1. <<>> \in Seq(DigitKey) /\ Len(<<>>) = 0 /\ {} \in SUBSET Key
  OBVIOUS
<1>2. 0 \in 0 .. ENTRY_TIMEOUT /\ ENTRY_TIMEOUT \in 0 .. ENTRY_TIMEOUT
  OBVIOUS
<1>3. NewEntry \in Entry
  BY <1>1, <1>2 DEF NewEntry, Entry, Outcome
<1>4. \A keys \in SUBSET Key : Begin(keys) \in Entry
  BY <1>1, <1>2 DEF Begin, NewEntry, Entry, Outcome
<1>5. ASSUME NEW e \in Entry, EntryOK(e), e.left > 0
      PROVE  /\ EntryOK(Ages(e))
             /\ Ages(e).active = e.active /\ Ages(e).prev = e.prev /\ Ages(e).code = e.code
  <2>1. e.left - 1 \in 0 .. ENTRY_TIMEOUT
    BY <1>5 DEF Entry
  <2>2. Ages(e) \in Entry
    BY <2>1 DEF Ages, Entry
  <2>3. /\ Ages(e).active = e.active /\ Ages(e).prev = e.prev /\ Ages(e).code = e.code
        /\ Ages(e).outcome = e.outcome
    BY DEF Ages, Entry
  <2> QED BY <1>5, <2>2, <2>3 DEF EntryOK
<1>6. EntryOK(NewEntry) /\ ~NewEntry.active /\ NewEntry.code = <<>>
  BY <1>1, <1>3 DEF EntryOK, NewEntry
<1>7. \A keys \in SUBSET Key :
         EntryOK(Begin(keys)) /\ Begin(keys).prev = keys /\ Begin(keys).code = <<>>
  <2> SUFFICES ASSUME NEW keys \in SUBSET Key
               PROVE  EntryOK(Begin(keys)) /\ Begin(keys).prev = keys /\ Begin(keys).code = <<>>
    OBVIOUS
  <2>1. /\ Begin(keys).prev = keys /\ Begin(keys).code = <<>>
        /\ Begin(keys).outcome = "none"
    BY DEF Begin, NewEntry
  <2>2. Len(Begin(keys).code) < PASSKEY_DIGITS
    BY <1>1, <2>1
  <2> QED BY <1>4, <2>1, <2>2 DEF EntryOK
<1> QED BY <1>5, <1>6, <1>7

\* A poll of an entry that is not under way changes nothing.  One that does not end the
\* entry remembers its keys; it takes a digit, or ends the entry with its code, only
\* for a single fresh digit.
LEMMA UpdateFacts ==
    ASSUME NEW e, EntryOK(e), NEW keys \in SUBSET Key
    PROVE  LET next  == Update(e, keys)
               takes == Cardinality((keys \ e.prev) \cap DigitKey) = 1
           IN  /\ ~e.active => next = e
               /\ next.outcome \in Outcome
               /\ next.outcome = "none" /\ e.active =>
                     EntryOK(next) /\ next.active /\ next.prev = keys
               /\ next.outcome = "none" /\ e.active /\ Len(next.code) > Len(e.code) => takes
               /\ next.outcome = "commit" => takes
<1> DEFINE fresh  == keys \ e.prev
           digits == fresh \cap DigitKey
           next   == Update(e, keys)
           step   == Step(e, keys)
<1>1. CASE ~e.active
  BY <1>1 DEF Update, EntryOK, Outcome
<1>2. CASE e.active
  <2> USE <1>2
  <2>1. e \in Entry /\ e.outcome = "none" /\ Len(e.code) < PASSKEY_DIGITS
    BY DEF EntryOK
  <2>2. e.code \in Seq(DigitKey) /\ Len(e.code) \in Nat
    BY <2>1 DEF Entry
  <2>3. next = [step EXCEPT !.prev = keys]
    BY DEF Update
  <2>4. CASE e.left = 0 \/ CANCEL_KEY \in fresh
    <3>1. step = Ends(e, "cancel")
      BY <2>4 DEF Step
    <3>2. next.outcome = "cancel"
      BY <2>1, <2>3, <3>1 DEF Ends, Entry
    <3> QED BY <3>2 DEF Outcome
  <2>5. CASE ~(e.left = 0 \/ CANCEL_KEY \in fresh) /\ CLEAR_KEY \in fresh
    <3>1. step = [e EXCEPT !.code = <<>>]
      BY <2>5 DEF Step
    <3>2. next = [[e EXCEPT !.code = <<>>] EXCEPT !.prev = keys]
      BY <2>3, <3>1
    <3>3. /\ next \in Entry
          /\ next.outcome = "none" /\ next.active /\ next.prev = keys /\ next.code = <<>>
      <4>1. <<>> \in Seq(DigitKey)
        OBVIOUS
      <4> QED BY <2>1, <3>2, <4>1 DEF Entry
    <3>4. Len(next.code) = 0
      BY <3>3
    <3> QED BY <2>2, <3>4, <3>3 DEF EntryOK, Outcome
  <2>6. CASE ~(e.left = 0 \/ CANCEL_KEY \in fresh) /\ CLEAR_KEY \notin fresh
             /\ Cardinality(digits) = 1
    <3> DEFINE digit == CHOOSE d \in digits : TRUE
               code  == Append(e.code, digit)
    <3>1. digits # {}
      BY <2>6, FS_EmptySet
    <3>2. digit \in DigitKey
      BY <3>1
    <3>3. step = Takes(e, digit)
      BY <2>6 DEF Step
    <3> HIDE DEF digit
    <3>4. code \in Seq(DigitKey) /\ Len(code) \in Nat
      BY <2>2, <3>2
    <3> HIDE DEF code
    <3>5. [e EXCEPT !.code = code].code = code
      BY <2>1 DEF Entry
    <3>6. CASE Len(code) >= PASSKEY_DIGITS
      <4>1. step = Ends([e EXCEPT !.code = code], "commit")
        BY <3>3, <3>5, <3>6 DEF Takes, code
      <4>2. next.outcome = "commit"
        BY <2>1, <2>3, <4>1 DEF Ends, Entry
      <4> QED BY <2>6, <4>2 DEF Outcome
    <3>7. CASE ~(Len(code) >= PASSKEY_DIGITS)
      <4>1. step = [e EXCEPT !.code = code]
        BY <3>3, <3>5, <3>7 DEF Takes, code
      <4>2. next = [[e EXCEPT !.code = code] EXCEPT !.prev = keys]
        BY <2>3, <4>1
      <4>3. /\ next \in Entry
            /\ next.outcome = "none" /\ next.active /\ next.prev = keys /\ next.code = code
        BY <2>1, <3>4, <4>2 DEF Entry
      <4> QED BY <2>6, <3>4, <3>7, <4>3 DEF EntryOK, Outcome
    <3> QED BY <3>6, <3>7
  <2>7. CASE ~(e.left = 0 \/ CANCEL_KEY \in fresh) /\ CLEAR_KEY \notin fresh
             /\ Cardinality(digits) # 1
    <3>1. step = e
      BY <2>7 DEF Step
    <3>2. next = [e EXCEPT !.prev = keys]
      BY <2>3, <3>1
    <3>3. /\ next \in Entry
          /\ next.outcome = "none" /\ next.active /\ next.prev = keys /\ next.code = e.code
      BY <2>1, <3>2 DEF Entry
    <3> QED BY <2>1, <2>2, <3>3 DEF EntryOK, Outcome
  <2> QED BY <2>4, <2>5, <2>6, <2>7
<1> QED BY <1>1, <1>2

------------------------------------------------------------------------------
(* The inductive invariant *)

\* The pad serves exactly while it has a connection; with the connection go its
\* queue and the entry.
Attached ==
    /\ at \in {"off", "scan"} <=> link = None
    /\ at \in {"off", "scan"} => events = <<>> /\ ~entry.active
    /\ entry.outcome = "none"

\* What an entry swallowed stays with the pad: the keys are still down, nothing is
\* typed while it goes on, and nothing is held back once the controls have drained.
Swallowed ==
    /\ typed \cap entered = {}
    /\ entered \subseteq pressed
    /\ entry.active => typed = {}
    /\ ~entry.active /\ ~draining => entered = {}

\* An entry knows the keys of the poll before.
Remembers == entry.active /\ ~unread => entry.prev = pressed

\* No event that leaves without ending an entry comes while there is one: the stack
\* asks a host for a code only when it has no bond of it.
Asked ==
    /\ entry.active => Pending \cap {"encrypted", "bond lost"} = {}
    /\ AfterPasskey \cap {"encrypted", "bond lost"} = {}
    /\ entry.active \/ "passkey" \in Pending =>
          link.phase \in {"secured", "down"} \/ \A b \in known : b.peer # link.peer

\* A link that is secured below the floor has its refusal under way.
Floor ==
    link # None =>
      /\ link.phase \in {"open", "asking", "answered"} => link.level = "none"
      /\ link.phase = "secured" => link.level # "none"
      /\ link.phase = "secured" /\ link.level = "weak" =>
            "paired" \in Pending \/ "encrypted" \in Pending
      /\ "paired" \in Pending \/ "encrypted" \in Pending =>
            link.phase \in {"secured", "down"} /\ link.level # "none"
      /\ "disconnected" \in Pending => link.phase = "down"
      /\ AfterDisconnected = {}

\* A strong bond of the stack's is the slot's, or on its way there.
Stored ==
    /\ link # None => slot = IF link.bondable THEN None ELSE Own("strong")
    /\ ~unstored => \A b \in known : b.level = "strong" =>
          \/ slot = b
          \/ /\ link # None /\ b = Own("strong")
             /\ link.bondable /\ link.level = "strong" /\ "paired" \in Pending
    /\ link # None /\ "bond lost" \in Pending =>
          link.level # "strong" /\ link.phase # "answered" /\ Own("strong") \notin known

IInv == TypeOK /\ Attached /\ Swallowed /\ Remembers /\ Asked /\ Floor /\ Stored

LEMMA InitIInv == Init => IInv
<1> SUFFICES ASSUME Init PROVE IInv
  OBVIOUS
<1>1. EntryOK(NewEntry) /\ ~NewEntry.active
  BY FreshEntries
<1>2. slot \in Bond \cup {None} /\ known = Listed(slot) /\ keyed = Listed(slot)
      /\ link = None /\ events = <<>> /\ at = "off" /\ pressed \in SUBSET Key
      /\ entry = NewEntry /\ typed = {} /\ entered = {}
  BY DEF Init
<1>3. draining /\ draining \in BOOLEAN /\ unread \in BOOLEAN /\ unstored \in BOOLEAN
  BY DEF Init
<1>4. events \in Seq(Event) /\ Len(events) = 0 /\ Pending = {}
  BY <1>2 DEF Pending
<1>5. AfterPasskey = {} /\ AfterDisconnected = {}
  BY <1>4 DEF AfterPasskey, AfterDisconnected, Behind
<1>6. TypeOK
  BY <1>1, <1>2, <1>3, <1>4 DEF TypeOK, EntryOK, Listed
<1>7. Attached
  BY <1>1, <1>2 DEF Attached, EntryOK
<1>8. Swallowed /\ Remembers
  BY <1>1, <1>2, <1>3 DEF Swallowed, Remembers
<1>9. Asked /\ Floor
  BY <1>1, <1>2, <1>4, <1>5 DEF Asked, Floor
<1>10. Stored
  <2>1. \A b \in known : slot = b
    BY <1>2 DEF Listed
  <2> QED BY <1>2, <2>1 DEF Stored
<1> QED BY <1>6, <1>7, <1>8, <1>9, <1>10 DEF IInv

------------------------------------------------------------------------------
(* What the steps share *)

\* Outside steps tell the pad of what they did, or happen without a connection.
LEMMA TellFacts ==
    ASSUME TypeOK, NEW event \in Event, Tell(event)
    PROVE  /\ events' \in Seq(Event)
           /\ UNCHANGED <<at, pad, unstored>>
           /\ Pending' = Pending \cup {event}
           /\ AfterPasskey' \subseteq
                 AfterPasskey \cup (IF "passkey" \in Pending THEN {event} ELSE {})
           /\ AfterDisconnected' \subseteq
                 AfterDisconnected \cup (IF "disconnected" \in Pending THEN {event} ELSE {})
BY QueueAppended DEF Tell, TypeOK

\* A connection that moves on is still one, of the same peer.
LEMMA MovesFacts ==
    ASSUME link \in Link, NEW phase \in Phase, Moves(phase)
    PROVE  /\ link' \in Link
           /\ link'.peer = link.peer /\ link'.bondable = link.bondable
           /\ link'.phase = phase /\ link'.level = link.level
BY DEF Moves, Link

LEMMA SecureFacts ==
    ASSUME link \in Link, NEW level \in {"weak", "strong"}, Secure(level)
    PROVE  /\ link' \in Link
           /\ link'.peer = link.peer /\ link'.bondable = link.bondable
           /\ link'.phase = "secured" /\ link'.level = level
BY DEF Secure, Link, Phase

\* A step on a connection that neither secures it, nor takes an event that matters,
\* nor touches a bond.
LEMMA LinkKeeps ==
    ASSUME IInv, link \in Link, link' \in Link,
           link'.peer = link.peer, link'.bondable = link.bondable, link'.level = link.level,
           slot' = slot, known' = known, unstored' = unstored,
           \/ link'.phase = link.phase
           \/ link'.phase = "down"
           \/ link.phase \in {"open", "asking", "answered"} /\ link'.phase \in {"open", "asking"}
           \/ link.phase = "asking" /\ link'.phase = "answered" /\ "bond lost" \notin Pending,
           entry'.active => entry.active \/ Pending' \cap {"encrypted", "bond lost"} = {},
           entry'.active \/ "passkey" \in Pending' =>
              entry.active \/ "passkey" \in Pending \/ \A b \in known : b.peer # link.peer,
           Pending' \cap {"encrypted", "bond lost", "paired"} \subseteq Pending,
           "paired" \in Pending /\ link.level = "weak" => "paired" \in Pending',
           "paired" \in Pending /\ link.bondable /\ Own("strong") \in known => "paired" \in Pending',
           "encrypted" \in Pending /\ link.level = "weak" => "encrypted" \in Pending',
           AfterPasskey' \cap {"encrypted", "bond lost"} \subseteq AfterPasskey,
           "disconnected" \in Pending' => link'.phase = "down",
           AfterDisconnected' = {}
    PROVE  Asked' /\ Floor' /\ Stored'
<1>1. link # None /\ link' # None
  OBVIOUS
<1>2. Own("strong")' = Own("strong")
  BY DEF Own
<1>3. Asked'
  <2>1. entry'.active => Pending' \cap {"encrypted", "bond lost"} = {}
    BY DEF IInv, Asked
  <2>2. AfterPasskey' \cap {"encrypted", "bond lost"} = {}
    BY DEF IInv, Asked
  <2>3. entry'.active \/ "passkey" \in Pending' =>
          link.phase \in {"secured", "down"} \/ \A b \in known' : b.peer # link'.peer
    BY DEF IInv, Asked
  <2>4. link.phase \in {"secured", "down"} => link'.phase \in {"secured", "down"}
    OBVIOUS
  <2> QED BY <2>1, <2>2, <2>3, <2>4 DEF Asked
<1>4. Floor'
  <2>1. link'.phase \in {"open", "asking", "answered"} =>
          link.phase \in {"open", "asking", "answered"}
    OBVIOUS
  <2>2. link'.phase = "secured" => link.phase = "secured"
    OBVIOUS
  <2>3. link.phase \in {"secured", "down"} => link'.phase \in {"secured", "down"}
    OBVIOUS
  <2> QED BY <1>1, <2>1, <2>2, <2>3 DEF IInv, Floor
<1>5. Stored'
  <2>1. slot' = IF link'.bondable THEN None ELSE Own("strong")'
    BY <1>1, <1>2 DEF IInv, Stored
  <2>2. ~unstored' => \A b \in known' : b.level = "strong" =>
          \/ slot' = b
          \/ /\ b = Own("strong")'
             /\ link'.bondable /\ link'.level = "strong" /\ "paired" \in Pending'
    BY <1>1, <1>2 DEF IInv, Stored
  <2>3. "bond lost" \in Pending' =>
          link'.level # "strong" /\ link'.phase # "answered" /\ Own("strong")' \notin known'
    BY <1>1, <1>2 DEF IInv, Stored
  <2> QED BY <1>1, <2>1, <2>2, <2>3 DEF Stored
<1> QED BY <1>3, <1>4, <1>5

\* A step that tells the pad of something leaves the pad as it is.
LEMMA TellKeeps ==
    ASSUME IInv, link \in Link, link' \in Link, NEW event \in Event, Tell(event),
           slot' \in Bond \cup {None}, known' \subseteq Bond, keyed' \subseteq Bond
    PROVE  TypeOK' /\ Attached' /\ Swallowed' /\ Remembers'
<1>1. events' \in Seq(Event) /\ UNCHANGED <<at, pad, unstored>>
  BY TellFacts DEF IInv
<1>2. UNCHANGED <<pressed, draining, entry, typed, entered, unread>>
  BY <1>1 DEF pad
<1>3. TypeOK'
  BY <1>1, <1>2 DEF IInv, TypeOK
<1>4. Attached'
  BY <1>1, <1>2 DEF IInv, Attached
<1>5. Swallowed' /\ Remembers'
  BY <1>2 DEF IInv, Swallowed, Remembers
<1> QED BY <1>3, <1>4, <1>5

LEMMA EncryptsKeeps == ASSUME IInv, NEW level \in {"weak", "strong"}, Encrypts(level) PROVE IInv'
<1>1. /\ link \in Link /\ link # None /\ link.phase = "open" /\ Own(level) \in known
      /\ Secure(level) /\ Tell("encrypted") /\ UNCHANGED <<slot, known, keyed>>
  BY DEF Encrypts, In, IInv, TypeOK, bonds
<1>2. /\ link' \in Link /\ link' # None
      /\ link'.peer = link.peer /\ link'.bondable = link.bondable
      /\ link'.phase = "secured" /\ link'.level = level
  BY <1>1, SecureFacts
<1>3. "encrypted" \in Event
  BY DEF Event
<1>4. TypeOK' /\ Attached' /\ Swallowed' /\ Remembers'
  BY <1>1, <1>2, <1>3, TellKeeps DEF IInv, TypeOK
<1>5. /\ UNCHANGED <<at, pad, unstored>>
      /\ Pending' = Pending \cup {"encrypted"}
      /\ AfterPasskey' \subseteq
            AfterPasskey \cup (IF "passkey" \in Pending THEN {"encrypted"} ELSE {})
      /\ AfterDisconnected' \subseteq
            AfterDisconnected \cup (IF "disconnected" \in Pending THEN {"encrypted"} ELSE {})
  BY <1>1, <1>3, TellFacts DEF IInv
<1>6. entry' = entry /\ unstored' = unstored
  BY <1>5 DEF pad
<1>7. ~(\A b \in known : b.peer # link.peer)
  BY <1>1 DEF Own
<1>8. Asked'
  BY <1>1, <1>2, <1>5, <1>6, <1>7 DEF Asked, IInv
<1>9. Floor'
  BY <1>1, <1>2, <1>5 DEF Floor, IInv
<1>10. Own("strong")' = Own("strong")
  BY <1>2 DEF Own
<1>11. "paired" \notin Pending
  BY <1>1 DEF Floor, IInv
<1>12. level = "strong" => "bond lost" \notin Pending
  BY <1>1 DEF Stored, IInv
<1>13. Stored'
  <2>1. slot' = IF link'.bondable THEN None ELSE Own("strong")'
    BY <1>1, <1>2, <1>10 DEF Stored, IInv
  <2>2. ~unstored' => \A b \in known' : b.level = "strong" => slot' = b
    BY <1>1, <1>6, <1>11 DEF Stored, IInv
  <2>3. "bond lost" \in Pending' =>
          link'.level # "strong" /\ link'.phase # "answered" /\ Own("strong")' \notin known'
    BY <1>1, <1>2, <1>5, <1>10, <1>12 DEF Stored, IInv
  <2> QED BY <1>2, <2>1, <2>2, <2>3 DEF Stored
<1> QED BY <1>4, <1>8, <1>9, <1>13 DEF IInv

\* The steps of the stack that only move the connection and tell the pad so.
LEMMA MovesAndTells ==
    ASSUME IInv, link # None, UNCHANGED bonds,
           NEW phase \in Phase, NEW event \in Event, Moves(phase), Tell(event),
           \/ link.phase = "open" /\ phase = "asking" /\ event = "passkey"
              /\ \A b \in known : b.peer # link.peer
           \/ link.phase \in {"asking", "answered"} /\ phase = "open" /\ event = "pairing failed"
           \/ link.phase # "down" /\ phase = "down" /\ event = "disconnected"
    PROVE  IInv'
<1>1. link \in Link /\ UNCHANGED <<slot, known, keyed>>
  BY DEF IInv, TypeOK, bonds
<1>2. /\ link' \in Link
      /\ link'.peer = link.peer /\ link'.bondable = link.bondable
      /\ link'.phase = phase /\ link'.level = link.level
  BY <1>1, MovesFacts
<1>3. TypeOK' /\ Attached' /\ Swallowed' /\ Remembers'
  BY <1>1, <1>2, TellKeeps DEF IInv, TypeOK
<1>4. /\ UNCHANGED <<at, pad, unstored>>
      /\ Pending' = Pending \cup {event}
      /\ AfterPasskey' \subseteq
            AfterPasskey \cup (IF "passkey" \in Pending THEN {event} ELSE {})
      /\ AfterDisconnected' \subseteq
            AfterDisconnected \cup (IF "disconnected" \in Pending THEN {event} ELSE {})
  BY TellFacts DEF IInv
<1>5. entry' = entry /\ unstored' = unstored
  BY <1>4 DEF pad
<1>6. "disconnected" \notin Pending /\ AfterDisconnected = {}
  BY <1>1 DEF IInv, Floor
<1>7. AfterDisconnected' = {}
  BY <1>4, <1>6
<1>8. Asked' /\ Floor' /\ Stored'
  BY <1>1, <1>2, <1>4, <1>5, <1>6, <1>7, LinkKeeps
<1> QED BY <1>3, <1>8 DEF IInv

LEMMA MovesKeep == ASSUME IInv, Asks \/ PairingFails \/ Drops PROVE IInv'
<1>1. "passkey" \in Event /\ "pairing failed" \in Event /\ "disconnected" \in Event
      /\ "asking" \in Phase /\ "open" \in Phase /\ "down" \in Phase
  BY DEF Event, Phase
<1>2. CASE Asks
  <2>1. link # None /\ link.phase = "open" /\ Moves("asking") /\ Tell("passkey")
        /\ UNCHANGED bonds /\ \A b \in known : b.peer # link.peer
    BY <1>2 DEF Asks, In, Bonds
  <2> QED BY <1>1, <2>1, MovesAndTells
<1>3. CASE PairingFails
  <2>1. link # None /\ link.phase \in {"asking", "answered"} /\ Moves("open")
        /\ Tell("pairing failed") /\ UNCHANGED bonds
    BY <1>3 DEF PairingFails, In
  <2> QED BY <1>1, <2>1, MovesAndTells
<1>4. CASE Drops
  <2>1. link # None /\ link.phase # "down" /\ Moves("down")
        /\ Tell("disconnected") /\ UNCHANGED bonds
    BY <1>4 DEF Drops, In
  <2> QED BY <1>1, <2>1, MovesAndTells
<1> QED BY <1>2, <1>3, <1>4

LEMMA PairsKeeps == ASSUME IInv, NEW level \in {"weak", "strong"}, Pairs(level) PROVE IInv'
<1>1. /\ link \in Link /\ link # None /\ Secure(level) /\ Tell("paired") /\ slot' = slot
      /\ level = "strong" => link.phase = "answered"
      /\ level = "weak" => link.phase = "open"
  BY DEF Pairs, In, IInv, TypeOK
<1>2. /\ link' \in Link
      /\ link'.peer = link.peer /\ link'.bondable = link.bondable
      /\ link'.phase = "secured" /\ link'.level = level
  BY <1>1, SecureFacts
<1>3. link' # None /\ "paired" \in Event /\ Own(level) \in Bond
  BY <1>1, <1>2 DEF Event, Own, Bond, Link
<1>4. known' = known \/ (link.bondable /\ known' = known \cup {Own(level)})
  BY DEF Pairs
<1>5. slot' \in Bond \cup {None} /\ known' \subseteq Bond /\ keyed' \subseteq Bond
  BY <1>1, <1>3 DEF Pairs, IInv, TypeOK
<1>6. TypeOK' /\ Attached' /\ Swallowed' /\ Remembers'
  BY <1>1, <1>2, <1>3, <1>5, TellKeeps
<1>7. /\ UNCHANGED <<at, pad, unstored>>
      /\ Pending' = Pending \cup {"paired"}
      /\ AfterPasskey' \subseteq
            AfterPasskey \cup (IF "passkey" \in Pending THEN {"paired"} ELSE {})
      /\ AfterDisconnected' \subseteq
            AfterDisconnected \cup (IF "disconnected" \in Pending THEN {"paired"} ELSE {})
  BY <1>1, <1>3, TellFacts DEF IInv
<1>8. entry' = entry /\ unstored' = unstored
  BY <1>7 DEF pad
<1>9. "disconnected" \notin Pending /\ "paired" \notin Pending /\ AfterDisconnected' = {}
  BY <1>1, <1>7 DEF IInv, Floor
<1>10. Asked'
  BY <1>2, <1>7, <1>8 DEF IInv, Asked
<1>11. Floor'
  BY <1>2, <1>7, <1>9 DEF Floor
<1>12. Own("strong")' = Own("strong")
  BY <1>2 DEF Own
<1>13. level = "strong" => "bond lost" \notin Pending
  BY <1>1 DEF IInv, Stored
<1>14. level = "weak" => Own(level) # Own("strong") /\ Own(level).level = "weak"
  BY DEF Own
<1>15. Stored'
  <2>1. slot' = IF link'.bondable THEN None ELSE Own("strong")'
    BY <1>1, <1>2, <1>12 DEF IInv, Stored
  <2>2. ASSUME ~unstored', NEW b \in known', b.level = "strong"
        PROVE  \/ slot' = b
               \/ /\ b = Own("strong")'
                  /\ link'.bondable /\ link'.level = "strong" /\ "paired" \in Pending'
    <3>1. CASE b \in known
      BY <1>1, <1>8, <1>9, <2>2, <3>1 DEF IInv, Stored
    <3>2. CASE b \notin known
      <4>1. link.bondable /\ b = Own(level)
        BY <1>4, <3>2
      <4>2. level = "strong"
        BY <1>14, <2>2, <4>1
      <4> QED BY <1>2, <1>7, <1>12, <4>1, <4>2
    <3> QED BY <3>1, <3>2
  <2>3. "bond lost" \in Pending' =>
          link'.level # "strong" /\ link'.phase # "answered" /\ Own("strong")' \notin known'
    <3>1. ASSUME "bond lost" \in Pending PROVE level = "weak" /\ Own("strong") \notin known
      BY <1>1, <1>13, <3>1 DEF IInv, Stored
    <3>2. level = "weak" /\ Own("strong") \notin known => Own("strong") \notin known'
      BY <1>4, <1>14
    <3> QED BY <1>2, <1>7, <1>12, <3>1, <3>2
  <2> QED BY <1>3, <1>7, <2>1, <2>2, <2>3 DEF Stored
<1> QED BY <1>6, <1>10, <1>11, <1>15 DEF IInv

LEMMA LosesBondKeeps == ASSUME IInv, LosesBond PROVE IInv'
<1>1. /\ link \in Link /\ link # None /\ link.phase = "open" /\ Tell("bond lost")
      /\ Bonds(known) # {} /\ known' = known \ Bonds(known)
      /\ slot' = slot /\ keyed' = keyed /\ link' = link
  BY DEF LosesBond, In, IInv, TypeOK
<1>2. "bond lost" \in Event
  BY DEF Event
<1>3. TypeOK' /\ Attached' /\ Swallowed' /\ Remembers'
  BY <1>1, <1>2, TellKeeps DEF IInv, TypeOK
<1>4. /\ UNCHANGED <<at, pad, unstored>>
      /\ Pending' = Pending \cup {"bond lost"}
      /\ AfterPasskey' \subseteq
            AfterPasskey \cup (IF "passkey" \in Pending THEN {"bond lost"} ELSE {})
      /\ AfterDisconnected' \subseteq
            AfterDisconnected \cup (IF "disconnected" \in Pending THEN {"bond lost"} ELSE {})
  BY <1>1, <1>2, TellFacts DEF IInv
<1>5. entry' = entry /\ unstored' = unstored
  BY <1>4 DEF pad
<1>6. ~entry.active /\ "passkey" \notin Pending
  BY <1>1 DEF IInv, Asked, Bonds
<1>7. "disconnected" \notin Pending /\ "paired" \notin Pending /\ AfterDisconnected' = {}
      /\ link.level = "none"
  BY <1>1, <1>4 DEF IInv, Floor
<1>8. Asked'
  BY <1>4, <1>5, <1>6 DEF IInv, Asked
<1>9. Floor'
  BY <1>1, <1>4, <1>7 DEF IInv, Floor
<1>10. Stored'
  <2>1. Own("strong")' = Own("strong") /\ Own("strong") \notin known'
    BY <1>1 DEF Own, Bonds
  <2>2. ~unstored => \A b \in known' : b.level = "strong" => slot = b
    BY <1>1, <1>7 DEF IInv, Stored
  <2>3. slot' = IF link'.bondable THEN None ELSE Own("strong")'
    BY <1>1, <2>1 DEF IInv, Stored
  <2>4. ~unstored' => \A b \in known' : b.level = "strong" => slot' = b
    BY <1>1, <1>5, <2>2
  <2>5. link' # None /\ link'.level = "none" /\ link'.phase = "open"
        /\ Own("strong")' \notin known'
    BY <1>1, <1>7, <2>1
  <2> QED BY <2>3, <2>4, <2>5 DEF Stored
<1> QED BY <1>3, <1>8, <1>9, <1>10 DEF IInv

LEMMA ForgetsKeeps == ASSUME IInv, NEW p \in Peer, Forgets(p) PROVE IInv'
<1>1. UNCHANGED <<slot, known, link, events, at, pad, unstored>> /\ keyed' \subseteq keyed
  BY DEF Forgets
<1>2. UNCHANGED <<pressed, draining, entry, typed, entered, unread>>
  BY <1>1 DEF pad
<1>3. Pending' = Pending /\ AfterPasskey' = AfterPasskey /\ AfterDisconnected' = AfterDisconnected
  BY <1>1, QueueKept
<1>4. Own("strong")' = Own("strong")
  BY <1>1 DEF Own
<1>5. TypeOK' /\ Attached' /\ Swallowed' /\ Remembers'
  BY <1>1, <1>2 DEF IInv, TypeOK, Attached, Swallowed, Remembers
<1>6. Asked' /\ Floor' /\ Stored'
  BY <1>1, <1>2, <1>3, <1>4 DEF IInv, Asked, Floor, Stored
<1> QED BY <1>5, <1>6 DEF IInv

------------------------------------------------------------------------------
(* Steps of the pad *)

\* The connection is left: nothing is queued, and it remains to be seen that the entry
\* has ended and that the stack's strong bond is the slot's.
LEMMA DropKeeps ==
    ASSUME TypeOK', Drop, at' \in {"off", "scan"}, entry'.outcome = "none", ~entry'.active, Swallowed',
           ~unstored' => \A b \in known' : b.level = "strong" => slot' = b
    PROVE  IInv'
<1>1. link' = None /\ events' = <<>> /\ at' \in {"off", "scan"}
  BY DEF Drop
<1>2. Pending' = {} /\ AfterPasskey' = {} /\ AfterDisconnected' = {}
  BY <1>1, QueueEmptied
<1>3. Attached' /\ Remembers'
  BY <1>1 DEF Attached, Remembers
<1>4. Asked' /\ Floor' /\ Stored'
  BY <1>1, <1>2 DEF Asked, Floor, Stored
<1> QED BY <1>3, <1>4 DEF IInv

LEMMA LeaveKeeps ==
    ASSUME TypeOK', Leave, entry'.outcome = "none", ~entry'.active, Swallowed',
           ~unstored' => \A b \in known' : b.level = "strong" => slot' = b
    PROVE  IInv'
BY DropKeeps DEF Leave

LEMMA RestartKeeps ==
    ASSUME IInv, NEW stored \in Bond \cup {None}, Restart(stored) PROVE IInv'
<1>1. /\ slot' = stored /\ known' = Listed(stored) /\ Drop /\ at' = "off" /\ draining' = TRUE
      /\ entry' = NewEntry /\ typed' = {} /\ entered' = {} /\ unread' = FALSE
      /\ unstored' = FALSE /\ keyed' = keyed /\ pressed' = pressed
  BY DEF Restart
<1>2. entry' \in Entry /\ Len(entry'.code) < PASSKEY_DIGITS
      /\ entry'.outcome = "none" /\ ~entry'.active
  BY <1>1, FreshEntries DEF EntryOK
<1>3. events' \in Seq(Event)
  BY <1>1 DEF Drop
<1>4. draining' \in BOOLEAN /\ unread' \in BOOLEAN /\ unstored' \in BOOLEAN
  BY <1>1
<1>5. TypeOK'
  BY <1>1, <1>2, <1>3, <1>4 DEF TypeOK, IInv, Drop, Listed
<1>6. Swallowed'
  BY <1>1, <1>2 DEF Swallowed
<1>7. \A b \in known' : slot' = b
  BY <1>1 DEF Listed
<1> QED BY <1>1, <1>2, <1>5, <1>6, <1>7, DropKeeps

LEMMA BootKeeps == ASSUME IInv, Boot PROVE IInv'
<1>1. /\ at = "off" /\ at' = "scan"
      /\ UNCHANGED <<slot, known, keyed, link, events, pressed, draining, entry, typed,
                     entered, unread, unstored>>
  BY DEF Boot, bonds, pad
<1>2. link = None /\ events = <<>> /\ ~entry.active /\ entry.outcome = "none"
  BY <1>1 DEF IInv, Attached
<1>3. TypeOK' /\ Swallowed'
  BY <1>1 DEF IInv, TypeOK, Swallowed
<1>4. ~unstored' => \A b \in known' : b.level = "strong" => slot' = b
  BY <1>1, <1>2 DEF IInv, Stored
<1> QED BY <1>1, <1>2, <1>3, <1>4, DropKeeps DEF Drop

LEMMA AcceptKeeps == ASSUME IInv, NEW p \in Peer, Accept(p) PROVE IInv'
<1>1. /\ at = "scan" /\ slot' = IF Weak(slot) THEN None ELSE slot
      /\ slot' # None => slot'.peer = p
      /\ link' = [peer |-> p, bondable |-> slot' = None, phase |-> "open", level |-> "none"]
      /\ at' = "serve" /\ UNCHANGED <<known, keyed, events, pad, unstored>>
  BY DEF Accept
<1>2. UNCHANGED <<pressed, draining, entry, typed, entered, unread>>
  BY <1>1 DEF pad
<1>3. link = None /\ events = <<>> /\ ~entry.active
  BY <1>1 DEF IInv, Attached
<1>4. /\ link' \in Link /\ link'.peer = p /\ link'.phase = "open" /\ link'.level = "none"
      /\ link'.bondable <=> slot' = None
  BY <1>1 DEF Link, Phase
<1>5. link' # None
  BY <1>4
<1>6. Pending' = {} /\ AfterPasskey' = {} /\ AfterDisconnected' = {}
  BY <1>1, <1>3, QueueEmptied
<1>7. TypeOK'
  BY <1>1, <1>2, <1>4 DEF IInv, TypeOK
<1>8. Attached' /\ Swallowed' /\ Remembers'
  BY <1>1, <1>2, <1>3, <1>5 DEF IInv, Attached, Swallowed, Remembers
<1>9. Asked' /\ Floor'
  BY <1>2, <1>3, <1>4, <1>6 DEF Asked, Floor
<1>10. Stored'
  <2>1. slot' # None => slot' = Own("strong")'
    <3> SUFFICES ASSUME slot' # None PROVE slot' = Own("strong")'
      OBVIOUS
    <3>1. slot' \in Bond /\ slot'.peer = p /\ slot'.level # "weak"
      BY <1>1 DEF IInv, TypeOK, Weak
    <3>2. slot'.level = "strong"
      BY <3>1 DEF Bond
    <3>3. slot' = [peer |-> p, level |-> "strong"]
      BY <3>1, <3>2 DEF Bond
    <3> QED BY <1>4, <3>3 DEF Own
  <2>2. ~unstored => \A b \in known : b.level = "strong" => slot' = b
    BY <1>1, <1>3 DEF IInv, Stored, Weak
  <2> QED BY <1>1, <1>4, <1>6, <2>1, <2>2 DEF Stored
<1> QED BY <1>7, <1>8, <1>9, <1>10 DEF IInv

\* What a handler finds, and what it leaves behind when it goes on serving.
LEMMA HandleFacts ==
    ASSUME IInv, NEW event \in Event, Handle(event)
    PROVE  /\ link \in Link /\ link # None /\ at = "serve"
           /\ events \in Seq(Event) /\ events # <<>> /\ Head(events) = event
           /\ event \in Pending
           /\ event = "disconnected" => Pending = {"disconnected"}
           /\ event \in {"encrypted", "bond lost"} => ~entry.active
<1>1. /\ link \in Link /\ link # None /\ at = "serve"
      /\ events \in Seq(Event) /\ events # <<>> /\ Head(events) = event
  BY DEF Handle, IInv, TypeOK, Attached
<1>2. event \in Pending /\ (event = "disconnected" => Pending = {"disconnected"})
  BY <1>1, QueueHead DEF IInv, Floor
<1>3. event \in {"encrypted", "bond lost"} => ~entry.active
  BY <1>2 DEF IInv, Asked
<1> QED BY <1>1, <1>2, <1>3

LEMMA StayFacts ==
    ASSUME IInv, NEW event \in Event, Handle(event), Stay
    PROVE  /\ events' \in Seq(Event) /\ at' = at
           /\ Pending' \subseteq Pending /\ Pending \subseteq Pending' \cup {event}
           /\ AfterPasskey' \subseteq AfterPasskey
           /\ AfterDisconnected' = {}
           /\ "disconnected" \in Pending' => link.phase = "down"
           /\ event = "passkey" => Pending' \cap {"encrypted", "bond lost"} = {}
<1>1. events \in Seq(Event) /\ events # <<>> /\ Head(events) = event /\ link # None
  BY HandleFacts
<1>2. events' = Tail(events) /\ at' = at
  BY DEF Stay
<1>3. /\ events' \in Seq(Event)
      /\ Pending' \subseteq Pending /\ Pending \subseteq Pending' \cup {event}
      /\ AfterPasskey' \subseteq AfterPasskey
      /\ AfterDisconnected' \subseteq AfterDisconnected
      /\ event = "passkey" => Pending' \subseteq AfterPasskey
  BY <1>1, <1>2, QueueTaken
<1>4. AfterDisconnected = {} /\ ("disconnected" \in Pending => link.phase = "down")
  BY <1>1 DEF IInv, Floor
<1>5. AfterPasskey \cap {"encrypted", "bond lost"} = {}
  BY DEF IInv, Asked
<1> QED BY <1>2, <1>3, <1>4, <1>5

LEMMA EndPasskeyFacts ==
    ASSUME EndPasskey
    PROVE  /\ entry' \in Entry /\ Len(entry'.code) < PASSKEY_DIGITS /\ entry'.code = <<>>
           /\ entry'.outcome = "none" /\ ~entry'.active
           /\ draining' = TRUE /\ draining' \in BOOLEAN
<1>1. entry' = NewEntry /\ draining' = TRUE
  BY DEF EndPasskey
<1> QED BY <1>1, FreshEntries DEF EntryOK

LEMMA DisconnectedKeeps == ASSUME IInv, Disconnected PROVE IInv'
<1>1. /\ Handle("disconnected") /\ EndPasskey /\ Leave
      /\ UNCHANGED <<slot, known, keyed, pressed, typed, entered, unread, unstored>>
  BY DEF Disconnected, bonds
<1>2. "disconnected" \in Event
  BY DEF Event
<1>3. Pending = {"disconnected"} /\ link # None
  BY <1>1, <1>2, HandleFacts
<1>4. events' \in Seq(Event) /\ link' = None /\ at' = "scan"
  BY <1>1 DEF Leave, Drop
<1>5. TypeOK'
  BY <1>1, <1>4, EndPasskeyFacts DEF IInv, TypeOK
<1>6. Swallowed'
  BY <1>1, EndPasskeyFacts DEF IInv, Swallowed
<1>7. ~unstored' => \A b \in known' : b.level = "strong" => slot' = b
  BY <1>1, <1>3 DEF IInv, Stored
<1> QED BY <1>1, <1>5, <1>6, <1>7, EndPasskeyFacts, LeaveKeeps

LEMMA PairingFailedKeeps == ASSUME IInv, PairingFailed PROVE IInv'
<1>1. /\ Handle("pairing failed") /\ EndPasskey /\ Stay
      /\ UNCHANGED <<slot, known, keyed, link, pressed, typed, entered, unread, unstored>>
  BY DEF PairingFailed, bonds
<1>2. "pairing failed" \in Event
  BY DEF Event
<1>3. link \in Link /\ link # None /\ at = "serve"
  BY <1>1, <1>2, HandleFacts
<1>4. /\ events' \in Seq(Event) /\ at' = at
      /\ Pending' \subseteq Pending /\ Pending \subseteq Pending' \cup {"pairing failed"}
      /\ AfterPasskey' \subseteq AfterPasskey
      /\ AfterDisconnected' = {}
      /\ "disconnected" \in Pending' => link.phase = "down"
  BY <1>1, <1>2, StayFacts
<1>5. TypeOK'
  BY <1>1, <1>4, EndPasskeyFacts DEF IInv, TypeOK
<1>6. Attached' /\ Swallowed' /\ Remembers'
  BY <1>1, <1>3, <1>4, EndPasskeyFacts DEF IInv, Attached, Swallowed, Remembers
<1>7. Asked' /\ Floor' /\ Stored'
  BY <1>1, <1>3, <1>4, EndPasskeyFacts, LinkKeeps
<1> QED BY <1>5, <1>6, <1>7 DEF IInv

LEMMA PassKeyInputKeeps == ASSUME IInv, PassKeyInput PROVE IInv'
<1>1. /\ Handle("passkey") /\ Stay /\ typed' = {} /\ entered' = pressed'
      /\ UNCHANGED <<slot, known, keyed, link, draining, unstored>>
  BY DEF PassKeyInput, bonds
<1>2. PICK keys \in SUBSET Key :
         /\ entry' = Begin(keys) /\ pressed' \in SUBSET Key /\ unread' \in BOOLEAN
         /\ ~unread' => keys = pressed'
  <2>1. CASE pressed' \in SUBSET Key /\ entry' = Begin(pressed') /\ unread' = FALSE
    BY <2>1
  <2>2. CASE entry' = Begin({}) /\ unread' = TRUE /\ UNCHANGED pressed
    BY <2>2 DEF IInv, TypeOK
  <2> QED BY <2>1, <2>2 DEF PassKeyInput
<1>3. /\ entry' \in Entry /\ Len(entry'.code) < PASSKEY_DIGITS /\ entry'.outcome = "none"
      /\ entry'.prev = keys
  BY <1>2, FreshEntries DEF EntryOK
<1>4. "passkey" \in Event
  BY DEF Event
<1>5. link \in Link /\ link # None /\ at = "serve" /\ "passkey" \in Pending
  BY <1>1, <1>4, HandleFacts
<1>6. /\ events' \in Seq(Event) /\ at' = at
      /\ Pending' \subseteq Pending /\ Pending \subseteq Pending' \cup {"passkey"}
      /\ AfterPasskey' \subseteq AfterPasskey
      /\ AfterDisconnected' = {}
      /\ "disconnected" \in Pending' => link.phase = "down"
      /\ Pending' \cap {"encrypted", "bond lost"} = {}
  BY <1>1, <1>4, StayFacts
<1>7. entry'.active \in BOOLEAN
  BY <1>3 DEF Entry
<1>8. entry'.active
  BY <1>2 DEF Begin, NewEntry
<1>9. TypeOK'
  BY <1>1, <1>2, <1>3, <1>6 DEF IInv, TypeOK
<1>10. Attached' /\ Swallowed' /\ Remembers'
  BY <1>1, <1>2, <1>3, <1>5, <1>6, <1>8 DEF IInv, Attached, Swallowed, Remembers
<1>11. Asked' /\ Floor' /\ Stored'
  BY <1>1, <1>5, <1>6, LinkKeeps
<1> QED BY <1>9, <1>10, <1>11 DEF IInv

LEMMA EncryptedKeeps == ASSUME IInv, Encrypted PROVE IInv'
<1>1. /\ Handle("encrypted")
      /\ UNCHANGED <<slot, known, keyed, pressed, draining, entry, entered, unread, unstored>>
  BY DEF Encrypted, bonds
<1>2. "encrypted" \in Event
  BY DEF Event
<1>3. link \in Link /\ link # None /\ at = "serve" /\ "encrypted" \in Pending /\ ~entry.active
  BY <1>1, <1>2, HandleFacts
<1>4. CASE link.level = "weak"
  <2>1. Leave /\ typed' = {}
    BY <1>4 DEF Encrypted
  <2>2. events' \in Seq(Event) /\ link' = None /\ at' = "scan"
    BY <2>1 DEF Leave, Drop
  <2>3. TypeOK'
    BY <1>1, <2>1, <2>2 DEF IInv, TypeOK
  <2>4. Swallowed'
    BY <1>1, <2>1 DEF IInv, Swallowed
  <2>5. ~unstored' => \A b \in known' : b.level = "strong" => slot' = b
    BY <1>1, <1>4 DEF IInv, Stored
  <2>6. entry'.outcome = "none" /\ ~entry'.active
    BY <1>1, <1>3 DEF IInv, Attached
  <2> QED BY <2>1, <2>3, <2>4, <2>5, <2>6, LeaveKeeps
<1>5. CASE link.level # "weak"
  <2>1. Stay /\ UNCHANGED <<link, typed>>
    BY <1>5 DEF Encrypted
  <2>2. /\ events' \in Seq(Event) /\ at' = at
        /\ Pending' \subseteq Pending /\ Pending \subseteq Pending' \cup {"encrypted"}
        /\ AfterPasskey' \subseteq AfterPasskey
        /\ AfterDisconnected' = {}
        /\ "disconnected" \in Pending' => link.phase = "down"
    BY <1>1, <1>2, <2>1, StayFacts
  <2>3. TypeOK'
    BY <1>1, <2>1, <2>2 DEF IInv, TypeOK
  <2>4. Attached' /\ Swallowed' /\ Remembers'
    BY <1>1, <1>3, <2>1, <2>2 DEF IInv, Attached, Swallowed, Remembers
  <2>5. Asked' /\ Floor' /\ Stored'
    BY <1>1, <1>3, <1>5, <2>1, <2>2, LinkKeeps
  <2> QED BY <2>3, <2>4, <2>5 DEF IInv
<1> QED BY <1>4, <1>5

LEMMA BondLostKeeps == ASSUME IInv, BondLost PROVE IInv'
<1>1. /\ Handle("bond lost") /\ Leave
      /\ UNCHANGED <<known, keyed, pressed, draining, entry, entered, unread, unstored>>
      /\ slot' \in {None, slot} /\ typed' \in {{}, typed}
  BY DEF BondLost
<1>2. "bond lost" \in Event
  BY DEF Event
<1>3. link \in Link /\ link # None /\ "bond lost" \in Pending /\ ~entry.active
  BY <1>1, <1>2, HandleFacts
<1>4. events' = <<>> /\ link' = None /\ at' = "scan"
  BY <1>1 DEF Leave, Drop
<1>5. TypeOK'
  <2>1. events' \in Seq(Event)
    BY <1>4
  <2> QED BY <1>1, <1>4, <2>1 DEF IInv, TypeOK
<1>6. Swallowed'
  BY <1>1 DEF IInv, Swallowed
<1>7. ~unstored => \A b \in known : b.level # "strong"
  <2> SUFFICES ASSUME ~unstored, NEW b \in known, b.level = "strong" PROVE FALSE
    OBVIOUS
  <2>1. link.level # "strong" /\ Own("strong") \notin known
    BY <1>3 DEF IInv, Stored
  <2>2. slot = b
    BY <2>1 DEF IInv, Stored
  <2>3. slot \in {None, Own("strong")} /\ b \in Bond
    BY <1>3 DEF IInv, Stored, TypeOK
  <2>4. b # None
    BY <2>3
  <2> QED BY <2>1, <2>2, <2>3, <2>4
<1>8. entry'.outcome = "none" /\ ~entry'.active
  BY <1>1, <1>3 DEF IInv, Attached
<1> QED BY <1>1, <1>5, <1>6, <1>7, <1>8, LeaveKeeps

LEMMA PairingCompleteKeeps == ASSUME IInv, PairingComplete PROVE IInv'
<1>1. /\ Handle("paired") /\ EndPasskey
      /\ UNCHANGED <<known, keyed, pressed, entered, unread>>
      /\ typed' \in {{}, typed}
  BY DEF PairingComplete
<1>2. "paired" \in Event
  BY DEF Event
<1>3. link \in Link /\ link # None /\ at = "serve" /\ "paired" \in Pending
  BY <1>1, <1>2, HandleFacts
<1>4. link.phase \in {"secured", "down"} /\ link.level # "none"
  BY <1>3 DEF IInv, Floor
<1>5. Swallowed'
  BY <1>1, EndPasskeyFacts DEF IInv, Swallowed
<1>6. ASSUME Leave, slot' = slot, unstored' \in BOOLEAN,
             ~unstored' => \A b \in known : b.level = "strong" => slot = b
      PROVE  IInv'
  <2>1. events' = <<>> /\ link' = None /\ at' = "scan"
    BY <1>6 DEF Leave, Drop
  <2>2. events' \in Seq(Event)
    BY <2>1
  <2>3. TypeOK'
    BY <1>1, <1>6, <2>1, <2>2, EndPasskeyFacts DEF IInv, TypeOK
  <2> QED BY <1>1, <1>5, <1>6, <2>3, EndPasskeyFacts, LeaveKeeps
<1>7. CASE link.level = "weak"
  <2>1. Leave /\ slot' = slot /\ unstored' = unstored
    BY <1>7 DEF PairingComplete
  <2>2. ~unstored' => \A b \in known : b.level = "strong" => slot = b
    BY <1>7, <2>1 DEF IInv, Stored
  <2>3. unstored' \in BOOLEAN
    BY <2>1 DEF IInv, TypeOK
  <2> QED BY <1>6, <2>1, <2>2, <2>3
<1>8. CASE link.level # "weak"
  <2>1. Commit /\ link.level = "strong"
    BY <1>3, <1>4, <1>8 DEF PairingComplete, Link
  <2>2. CASE ~(link.bondable /\ Own("strong") \in known)
    <3>1. Stay /\ UNCHANGED <<slot, link, unstored>>
      BY <2>1, <2>2 DEF Commit, Bonded
    <3>2. /\ events' \in Seq(Event) /\ at' = at
          /\ Pending' \subseteq Pending /\ Pending \subseteq Pending' \cup {"paired"}
          /\ AfterPasskey' \subseteq AfterPasskey
          /\ AfterDisconnected' = {}
          /\ "disconnected" \in Pending' => link.phase = "down"
      BY <1>1, <1>2, <3>1, StayFacts
    <3>3. TypeOK'
      BY <1>1, <3>1, <3>2, EndPasskeyFacts DEF IInv, TypeOK
    <3>4. Attached' /\ Remembers'
      BY <1>1, <1>3, <3>1, <3>2, EndPasskeyFacts DEF IInv, Attached, Remembers
    <3>5. Asked' /\ Floor' /\ Stored'
      BY <1>1, <1>3, <2>1, <2>2, <3>1, <3>2, EndPasskeyFacts, LinkKeeps
    <3> QED BY <1>5, <3>3, <3>4, <3>5 DEF IInv
  <2>3. CASE link.bondable /\ slot' = Own(link.level) /\ Stay /\ UNCHANGED unstored
             /\ link' = [link EXCEPT !.bondable = FALSE]
    <3>1. /\ link' \in Link /\ link'.peer = link.peer /\ ~link'.bondable
          /\ link'.phase = link.phase /\ link'.level = "strong"
      BY <1>3, <2>1, <2>3 DEF Link
    <3>2. /\ events' \in Seq(Event) /\ at' = at
          /\ Pending' \subseteq Pending /\ Pending \subseteq Pending' \cup {"paired"}
          /\ AfterPasskey' \subseteq AfterPasskey
          /\ AfterDisconnected' = {}
          /\ "disconnected" \in Pending' => link.phase = "down"
      BY <1>1, <1>2, <2>3, StayFacts
    <3>3. slot' = Own("strong") /\ Own("strong")' = Own("strong") /\ Own("strong") \in Bond
      BY <1>3, <2>1, <2>3, <3>1 DEF Own, Bond, Link
    <3>4. TypeOK'
      BY <1>1, <2>3, <3>1, <3>2, <3>3, EndPasskeyFacts DEF IInv, TypeOK
    <3>5. link' # None
      BY <3>1
    <3>6. Attached' /\ Remembers'
      BY <1>1, <1>3, <3>2, <3>5, EndPasskeyFacts DEF Attached, Remembers
    <3>7. Asked'
      BY <1>1, <1>4, <3>1, <3>2, EndPasskeyFacts DEF IInv, Asked
    <3>8. Floor'
      BY <1>4, <3>1, <3>2 DEF Floor
    <3>9. Stored'
      <4>1. "bond lost" \notin Pending
        BY <1>3, <2>1 DEF IInv, Stored
      <4>2. ~unstored => \A b \in known : b.level = "strong" => b = Own("strong")
        <5>1. slot = None
          BY <1>3, <2>3 DEF IInv, Stored
        <5>2. \A b \in known : b # None
          BY DEF IInv, TypeOK
        <5> QED BY <5>1, <5>2 DEF IInv, Stored
      <4> QED BY <1>1, <2>3, <3>1, <3>2, <3>3, <4>1, <4>2 DEF Stored
    <3> QED BY <1>5, <3>4, <3>6, <3>7, <3>8, <3>9 DEF IInv
  <2>4. CASE unstored' = TRUE /\ Leave /\ UNCHANGED slot
    BY <1>6, <2>4
  <2> QED BY <2>1, <2>2, <2>3, <2>4 DEF Commit, Bonded
<1> QED BY <1>7, <1>8

\* Steps that leave the connection and its queue alone.
LEMMA StillKeeps ==
    ASSUME IInv, UNCHANGED <<bonds, link, events, unstored>>,
           entry'.active => entry.active
    PROVE  Asked' /\ Floor' /\ Stored'
<1>1. slot' = slot /\ known' = known /\ link' = link /\ events' = events /\ unstored' = unstored
  BY DEF bonds
<1>2. Pending' = Pending /\ AfterPasskey' = AfterPasskey /\ AfterDisconnected' = AfterDisconnected
  BY <1>1, QueueKept
<1>3. Own("strong")' = Own("strong")
  BY <1>1 DEF Own
<1>4. Asked'
  <2>1. entry'.active => entry.active
    OBVIOUS
  <2>2. Asked
    BY DEF IInv
  <2>3. link'.phase = link.phase /\ link'.peer = link.peer
    BY <1>1
  <2> QED BY <1>1, <1>2, <2>1, <2>2, <2>3 DEF Asked
<1>5. Floor'
  <2>1. Floor
    BY DEF IInv
  <2> QED BY <1>1, <1>2, <2>1 DEF Floor
<1>6. Stored'
  <2>1. Stored
    BY DEF IInv
  <2>2. link' # None => slot' = IF link'.bondable THEN None ELSE Own("strong")'
    BY <1>1, <1>3, <2>1 DEF Stored
  <2>3. ~unstored' => \A b \in known' : b.level = "strong" =>
          \/ slot' = b
          \/ /\ link' # None /\ b = Own("strong")'
             /\ link'.bondable /\ link'.level = "strong" /\ "paired" \in Pending'
    <3>1. ~unstored => \A b \in known : b.level = "strong" =>
            \/ slot = b
            \/ /\ link # None /\ b = Own("strong")
               /\ link.bondable /\ link.level = "strong" /\ "paired" \in Pending
      BY <2>1 DEF Stored
    <3> QED BY <1>1, <1>2, <1>3, <3>1
  <2>4. link' # None /\ "bond lost" \in Pending' =>
          link'.level # "strong" /\ link'.phase # "answered" /\ Own("strong")' \notin known'
    <3>1. link # None /\ "bond lost" \in Pending =>
            link.level # "strong" /\ link.phase # "answered" /\ Own("strong") \notin known
      BY <2>1 DEF Stored
    <3> QED BY <1>1, <1>2, <1>3, <3>1
  <2> QED BY <2>2, <2>3, <2>4 DEF Stored
<1> QED BY <1>4, <1>5, <1>6

LEMMA StartPollKeeps == ASSUME IInv, StartPoll PROVE IInv'
<1>1. /\ at = "serve" /\ at' = "poll"
      /\ UNCHANGED <<bonds, slot, known, keyed, link, events, unstored>>
      /\ UNCHANGED <<pressed, draining, entry, typed, entered, unread>>
  BY DEF StartPoll, bonds, pad
<1>2. TypeOK' /\ Attached' /\ Swallowed' /\ Remembers'
  BY <1>1 DEF IInv, TypeOK, Attached, Swallowed, Remembers
<1>3. Asked' /\ Floor' /\ Stored'
  BY <1>1, StillKeeps
<1> QED BY <1>2, <1>3 DEF IInv

LEMMA TickKeeps == ASSUME IInv, Tick PROVE IInv'
<1>1. /\ entry.left > 0 /\ entry' = Ages(entry)
      /\ UNCHANGED <<bonds, slot, known, keyed, link, events, at, unstored>>
      /\ UNCHANGED <<pressed, draining, typed, entered, unread>>
  BY DEF Tick, bonds
<1>2. EntryOK(entry) /\ entry \in Entry
  BY DEF IInv, TypeOK, Attached, EntryOK
<1>3. /\ entry' \in Entry /\ Len(entry'.code) < PASSKEY_DIGITS /\ entry'.outcome = "none"
      /\ entry'.active = entry.active /\ entry'.prev = entry.prev
  BY <1>1, <1>2, FreshEntries DEF EntryOK
<1>4. TypeOK'
  BY <1>1, <1>3 DEF IInv, TypeOK
<1>5. Attached' /\ Swallowed' /\ Remembers'
  BY <1>1, <1>3 DEF IInv, Attached, Swallowed, Remembers
<1>6. Asked' /\ Floor' /\ Stored'
  BY <1>1, <1>3, StillKeeps
<1> QED BY <1>4, <1>5, <1>6 DEF IInv

\* What a poll reads, types and remembers.
LEMMA ReadsFacts ==
    ASSUME IInv, Reads
    PROVE  /\ pressed' \in SUBSET Key /\ typed' \in SUBSET Key /\ entered' \in SUBSET Key
           /\ unread' = FALSE /\ unread' \in BOOLEAN
           /\ entered' \subseteq pressed'
           /\ entry.active => typed' = {}
           /\ ~entry.active => entered' \subseteq entered
           /\ ~entry.active /\ draining => typed' = {}
           /\ ~entry.active /\ ~draining => entered' = {}
           /\ EntryOK(entry)
<1>1. EntryOK(entry) /\ entered \subseteq Key
  BY DEF IInv, TypeOK, Attached, EntryOK
<1>2. ~entry.active /\ ~draining => entered = {}
  BY DEF IInv, Swallowed
<1>3. /\ pressed' \in SUBSET Key /\ unread' = FALSE
      /\ typed' = IF entry.active \/ draining THEN {} ELSE pressed'
      /\ entered' = IF entry.active THEN pressed' ELSE entered \cap pressed'
  BY DEF Reads
<1> QED BY <1>1, <1>2, <1>3

\* A poll outside of an entry: the controls may drain.
LEMMA PollsFreely ==
    ASSUME IInv, Reads, ~entry.active, entry' = entry, Drains
    PROVE  Swallowed' /\ Remembers' /\ draining' \in BOOLEAN
<1>1. draining' = (draining /\ pressed' # {})
  BY DEF Drains
<1>2. draining' \in BOOLEAN
  BY <1>1
<1>3. ~draining' => entered' = {}
  BY <1>1, ReadsFacts
<1>4. typed' \cap entered' = {}
  BY ReadsFacts
<1> QED BY <1>2, <1>3, <1>4, ReadsFacts DEF Swallowed, Remembers

LEMMA ScanPollKeeps == ASSUME IInv, ScanPoll PROVE IInv'
<1>1. /\ at = "scan" /\ Reads /\ entry' = Update(entry, pressed')
      /\ UNCHANGED <<bonds, slot, known, keyed, link, events, at, unstored>>
  BY DEF ScanPoll, bonds
<1>2. ~entry.active /\ Drains
  BY <1>1 DEF IInv, Attached, ScanPoll
<1>3. entry' = entry
  BY <1>1, <1>2, ReadsFacts, UpdateFacts
<1>4. Swallowed' /\ Remembers' /\ draining' \in BOOLEAN
  BY <1>1, <1>2, <1>3, PollsFreely
<1>5. TypeOK'
  BY <1>1, <1>3, <1>4, ReadsFacts DEF IInv, TypeOK
<1>6. Attached'
  BY <1>1, <1>3 DEF IInv, Attached
<1>7. Asked' /\ Floor' /\ Stored'
  BY <1>1, <1>3, StillKeeps
<1> QED BY <1>4, <1>5, <1>6, <1>7 DEF IInv

\* A poll that ends the entry: the code or a cancel goes to the stack if that still asks.
LEMMA PollEndsKeeps ==
    ASSUME IInv, at = "poll", at' = "serve", Reads, entry.active, Submits \/ Aborts,
           UNCHANGED <<slot, known, keyed, unstored>>
    PROVE  IInv'
<1>1. EndPasskey /\ link \in Link /\ link # None
  BY DEF Submits, Aborts, IInv, TypeOK, Attached
<1>2. "pairing failed" \in Event /\ "open" \in Phase /\ "answered" \in Phase
  BY DEF Event, Phase
<1>3. Pending \cap {"encrypted", "bond lost"} = {} /\ AfterDisconnected = {}
      /\ ("disconnected" \in Pending => link.phase = "down")
  BY <1>1 DEF IInv, Asked, Floor
<1>4. /\ link' \in Link
      /\ link'.peer = link.peer /\ link'.bondable = link.bondable /\ link'.level = link.level
      /\ \/ link'.phase = link.phase
         \/ link.phase = "asking" /\ link'.phase \in {"open", "answered"}
  <2>1. CASE Submits
    BY <1>1, <1>2, <2>1 DEF Submits, Link
  <2>2. CASE Aborts
    <3>1. CASE link.phase = "asking"
      BY <1>1, <1>2, <2>2, <3>1, MovesFacts DEF Aborts
    <3>2. CASE link.phase # "asking"
      BY <1>1, <2>2, <3>2 DEF Aborts
    <3> QED BY <3>1, <3>2
  <2> QED BY <2>1, <2>2
<1>5. \/ events' = events
      \/ link.phase = "asking" /\ events' = Append(events, "pairing failed")
  BY DEF Submits, Aborts
<1>6. /\ events' \in Seq(Event)
      /\ Pending \subseteq Pending' /\ Pending' \subseteq Pending \cup {"pairing failed"}
      /\ AfterPasskey' \subseteq AfterPasskey \cup {"pairing failed"}
      /\ AfterDisconnected' = {}
  <2>1. events \in Seq(Event)
    BY DEF IInv, TypeOK
  <2>2. CASE events' = events
    <3>1. Pending' = Pending /\ AfterPasskey' = AfterPasskey
          /\ AfterDisconnected' = AfterDisconnected
      BY <2>2, QueueKept
    <3> QED BY <1>3, <2>1, <2>2, <3>1
  <2>3. CASE link.phase = "asking" /\ events' = Append(events, "pairing failed")
    <3>1. /\ events' \in Seq(Event)
          /\ Pending' = Pending \cup {"pairing failed"}
          /\ AfterPasskey' \subseteq
                AfterPasskey \cup (IF "passkey" \in Pending THEN {"pairing failed"} ELSE {})
          /\ AfterDisconnected' \subseteq
                AfterDisconnected \cup
                   (IF "disconnected" \in Pending THEN {"pairing failed"} ELSE {})
      BY <1>2, <2>1, <2>3, QueueAppended
    <3>2. AfterDisconnected' = {}
      BY <1>3, <2>3, <3>1
    <3>3. AfterPasskey' \subseteq AfterPasskey \cup {"pairing failed"}
      BY <3>1
    <3> QED BY <3>1, <3>2, <3>3
  <2> QED BY <1>5, <2>2, <2>3
<1>7. TypeOK'
  BY <1>1, <1>4, <1>6, EndPasskeyFacts, ReadsFacts DEF IInv, TypeOK
<1>8. link' # None
  BY <1>4
<1>9. Attached'
  BY <1>1, <1>8, EndPasskeyFacts DEF Attached
<1>10. Swallowed' /\ Remembers'
  BY <1>1, EndPasskeyFacts, ReadsFacts DEF Swallowed, Remembers
<1>11. "disconnected" \in Pending' => link'.phase = "down"
  BY <1>3, <1>4, <1>6
<1>12. Asked' /\ Floor' /\ Stored'
  BY <1>1, <1>3, <1>4, <1>6, <1>11, EndPasskeyFacts, LinkKeeps
<1> QED BY <1>7, <1>9, <1>10, <1>12 DEF IInv

LEMMA PollKeeps == ASSUME IInv, Poll PROVE IInv'
<1> DEFINE next == Update(entry, pressed')
<1>1. at = "poll" /\ at' = "serve" /\ Reads /\ UNCHANGED <<bonds, slot, known, keyed, unstored>>
  BY DEF Poll, bonds
<1>2. EntryOK(entry) /\ pressed' \in SUBSET Key
  BY <1>1, ReadsFacts
<1>3. CASE next.outcome = "none" /\ entry' = next /\ UNCHANGED <<link, events>>
           /\ IF entry.active THEN UNCHANGED draining ELSE Drains
  <2>1. EntryOK(entry') /\ entry'.active = entry.active /\ (entry.active => entry'.prev = pressed')
    <3>1. CASE entry.active
      <4>1. EntryOK(entry') /\ entry'.active /\ entry'.prev = pressed'
        BY <1>2, <1>3, <3>1, UpdateFacts
      <4>2. entry.active \in BOOLEAN /\ entry'.active \in BOOLEAN
        BY <1>2, <4>1 DEF EntryOK, Entry
      <4> QED BY <3>1, <4>1, <4>2
    <3>2. CASE ~entry.active
      <4>1. entry' = entry
        BY <1>2, <1>3, <3>2, UpdateFacts
      <4> QED BY <1>2, <3>2, <4>1
    <3> QED BY <3>1, <3>2
  <2>2. Swallowed' /\ Remembers' /\ draining' \in BOOLEAN
    <3>1. CASE entry.active
      <4>1. draining' \in BOOLEAN /\ entry'.active
        BY <1>3, <2>1, <3>1 DEF IInv, TypeOK
      <4> QED BY <1>1, <2>1, <3>1, <4>1, ReadsFacts DEF Swallowed, Remembers
    <3>2. CASE ~entry.active
      <4>1. entry' = entry /\ Drains
        BY <1>2, <1>3, <3>2, UpdateFacts
      <4> QED BY <1>1, <3>2, <4>1, PollsFreely
    <3> QED BY <3>1, <3>2
  <2>3. TypeOK'
    BY <1>1, <1>3, <2>1, <2>2, ReadsFacts DEF IInv, TypeOK, EntryOK
  <2>4. Attached'
    BY <1>1, <1>3, <2>1 DEF IInv, Attached, EntryOK
  <2>5. Asked' /\ Floor' /\ Stored'
    BY <1>1, <1>3, <2>1, StillKeeps
  <2> QED BY <2>2, <2>3, <2>4, <2>5 DEF IInv
<1>4. CASE next.outcome # "none" /\ (Submits \/ Aborts)
  <2>1. entry.active
    BY <1>2, <1>4, UpdateFacts DEF EntryOK
  <2> QED BY <1>1, <1>4, <2>1, PollEndsKeeps
<1> QED BY <1>3, <1>4 DEF Poll

LEMMA MenuKeeps == ASSUME IInv, MenuAction PROVE IInv'
<1>1. CASE \E stored \in {None} : Restart(stored)
  BY <1>1, RestartKeeps
<1>2. CASE /\ ~entry.active /\ Leave /\ typed' = {}
           /\ unstored' = (unstored \/ "paired" \in Pending)
           /\ UNCHANGED <<bonds, pressed, draining, entry, entered, unread>>
  <2>1. events' = <<>> /\ link' = None /\ at' = "scan" /\ UNCHANGED <<slot, known, keyed>>
    BY <1>2 DEF Leave, Drop, bonds
  <2>2. events' \in Seq(Event) /\ unstored' \in BOOLEAN
    BY <1>2, <2>1
  <2>3. TypeOK'
    BY <1>2, <2>1, <2>2 DEF IInv, TypeOK
  <2>4. Swallowed'
    BY <1>2 DEF IInv, Swallowed
  <2>5. ~unstored' => \A b \in known' : b.level = "strong" => slot' = b
    BY <1>2, <2>1 DEF IInv, Stored
  <2>6. entry'.outcome = "none" /\ ~entry'.active
    BY <1>2 DEF IInv, Attached
  <2> QED BY <1>2, <2>3, <2>4, <2>5, <2>6, LeaveKeeps
<1> QED BY <1>1, <1>2 DEF MenuAction

------------------------------------------------------------------------------
(* The theorems *)

LEMMA NextIInv == IInv /\ [Next]_vars => IInv'
<1> SUFFICES ASSUME IInv, [Next]_vars PROVE IInv'
  OBVIOUS
<1>1. CASE Outside
  BY <1>1, EncryptsKeeps, PairsKeeps, MovesKeep, LosesBondKeeps, ForgetsKeeps DEF Outside
<1>2. CASE \E p \in Peer : Accept(p)
  BY <1>2, AcceptKeeps
<1>3. CASE Boot \/ PowerLoss
  <2>1. CASE Boot
    BY <2>1, BootKeeps
  <2>2. CASE PowerLoss
    <3>1. slot \in Bond \cup {None} /\ Restart(slot)
      BY <2>2 DEF PowerLoss, IInv, TypeOK
    <3> QED BY <3>1, RestartKeeps
  <2> QED BY <1>3, <2>1, <2>2
<1>4. CASE HandleEvent
  BY <1>4, DisconnectedKeeps, PairingCompleteKeeps, PassKeyInputKeeps, EncryptedKeeps,
     BondLostKeeps, PairingFailedKeeps DEF HandleEvent
<1>5. CASE StartPoll \/ Poll \/ Tick \/ ScanPoll \/ MenuAction
  BY <1>5, StartPollKeeps, PollKeeps, TickKeeps, ScanPollKeeps, MenuKeeps
<1>6. CASE UNCHANGED vars
  <2>1. /\ UNCHANGED <<slot, known, keyed, bonds, link, events, at, unstored>>
        /\ UNCHANGED <<pressed, draining, entry, typed, entered, unread>>
    BY <1>6 DEF vars, bonds, pad
  <2>2. TypeOK' /\ Attached' /\ Swallowed' /\ Remembers'
    BY <2>1 DEF IInv, TypeOK, Attached, Swallowed, Remembers
  <2>3. Asked' /\ Floor' /\ Stored'
    BY <2>1, StillKeeps
  <2> QED BY <2>2, <2>3 DEF IInv
<1> QED BY <1>1, <1>2, <1>3, <1>4, <1>5, <1>6 DEF Next, Pad

THEOREM Invariance == Spec => []IInv
  BY InitIInv, NextIInv, PTL DEF Spec

\* The session stays within its types.
THEOREM TypeCorrect == Spec => []TypeOK
<1>1. IInv => TypeOK
  BY DEF IInv
<1> QED BY <1>1, Invariance, PTL

\* No link below the security floor is served once its events are handled.
THEOREM FloorSafety == Spec => []FloorHeld
<1>1. IInv => FloorHeld
  <2> SUFFICES ASSUME IInv, Serving, link.phase = "secured" PROVE link.level = "strong"
    BY DEF FloorHeld
  <2>1. link \in Link /\ link # None /\ Pending = {}
    BY DEF Serving, IInv, TypeOK, Pending
  <2>2. link.level \in {"none", "weak", "strong"} /\ link.level # "none" /\ link.level # "weak"
    BY <2>1 DEF IInv, Floor, Link
  <2> QED BY <2>2
<1> QED BY <1>1, Invariance, PTL

\* What secures a link is the bond in the slot, or a pairing that left no bond anywhere,
\* unless one could not be stored.
THEOREM SlotSafety == Spec => []SecuredBySlot
<1>1. IInv => SecuredBySlot
  <2> SUFFICES ASSUME IInv, Serving, link.phase = "secured", ~unstored
               PROVE  slot = Own("strong") \/ (slot = None /\ Own("strong") \notin known)
    BY DEF SecuredBySlot
  <2>1. link \in Link /\ link # None /\ Pending = {}
    BY DEF Serving, IInv, TypeOK, Pending
  <2>2. link.level = "strong"
    BY <2>1 DEF IInv, Floor, Link
  <2>3. slot = IF link.bondable THEN None ELSE Own("strong")
    BY <2>1 DEF IInv, Stored
  <2>4. link.bondable => Own("strong") \notin known
    <3> SUFFICES ASSUME link.bondable, Own("strong") \in known PROVE FALSE
      OBVIOUS
    <3>1. Own("strong") \in Bond /\ Own("strong").level = "strong"
      BY <2>1 DEF Own, Bond, Link
    <3>2. slot = Own("strong") \/ "paired" \in Pending
      BY <3>1 DEF IInv, Stored
    <3> QED BY <2>1, <2>3, <3>1, <3>2
  <2> QED BY <2>3, <2>4
<1> QED BY <1>1, Invariance, PTL

\* An entry ends with its connection.
THEOREM EntrySafety == Spec => []EntryWithinLink
<1>1. IInv => EntryWithinLink
  BY DEF IInv, Attached, EntryWithinLink
<1> QED BY <1>1, Invariance, PTL

\* What was pressed for an entry is not typed to a host.
THEOREM DigitSecrecy == Spec => []NoDigitLeaks
<1>1. IInv => NoDigitLeaks
  BY DEF IInv, Swallowed, NoDigitLeaks
<1> QED BY <1>1, Invariance, PTL

\* Only a poll takes a digit or has the stack answered.
LEMMA OnlyPollsExtend ==
    ASSUME IInv, Next, Extends
    PROVE  Poll
<1> DEFINE grows   == Len(entry'.code) > Len(entry.code)
           answers == In({"asking"}) /\ link' # None /\ link'.phase = "answered"
<1>1. grows \/ answers
  BY DEF Extends
<1>2. entry \in Entry /\ Len(entry.code) \in Nat /\ EntryOK(entry)
  BY DEF IInv, TypeOK, Attached, Entry, EntryOK
<1>3. entry' = entry \/ entry' = NewEntry => ~grows
  <2>1. Len(NewEntry.code) = 0
    BY FreshEntries
  <2> QED BY <1>2, <2>1
<1>4. link' = link \/ link' = None => ~answers
  BY DEF In
<1>5. ASSUME Outside PROVE FALSE
  <2>1. pad' = pad
    BY <1>5 DEF Outside, Encrypts, Pairs, Asks, PairingFails, LosesBond, Drops, Forgets, Tell
  <2>2. ~grows
    BY <1>3, <2>1 DEF pad
  <2>3. In({"asking"}) => link \in Link
    BY DEF In, IInv, TypeOK
  <2>4. "open" \in Phase /\ "asking" \in Phase /\ "down" \in Phase
    BY DEF Phase
  <2>5. ASSUME In({"asking"}) PROVE link' = link \/ link' = None \/ link'.phase # "answered"
    <3>1. \A level \in {"weak", "strong"} : Encrypts(level) \/ Pairs(level) =>
             link'.phase = "secured"
      BY <2>3, <2>5, SecureFacts DEF Encrypts, Pairs
    <3>2. Asks \/ PairingFails \/ Drops => link'.phase # "answered"
      BY <2>3, <2>4, <2>5, MovesFacts DEF Asks, PairingFails, Drops
    <3>3. LosesBond \/ (\E p \in Peer : Forgets(p)) => link' = link
      BY DEF LosesBond, Forgets
    <3> QED BY <1>5, <3>1, <3>2, <3>3 DEF Outside
  <2> QED BY <1>1, <1>4, <2>2, <2>5
<1>6. ASSUME NEW p \in Peer, Accept(p) PROVE FALSE
  <2>1. entry' = entry /\ link = None
    BY <1>6 DEF Accept, pad, IInv, Attached
  <2> QED BY <1>1, <1>3, <2>1 DEF In
<1>7. ASSUME NEW stored, Restart(stored) PROVE FALSE
  BY <1>1, <1>3, <1>4, <1>7 DEF Restart, Leave, Drop
<1>8. ASSUME HandleEvent PROVE FALSE
  <2>1. CASE PassKeyInput
    <3>1. link' = link
      BY <2>1 DEF PassKeyInput
    <3>2. PICK keys \in SUBSET Key : entry' = Begin(keys)
      BY <2>1 DEF PassKeyInput
    <3>3. Len(entry'.code) = 0
      BY <3>2, FreshEntries
    <3> QED BY <1>1, <1>2, <1>4, <3>1, <3>3
  <2>2. CASE PairingComplete
    <3>1. entry' = NewEntry
      BY <2>2 DEF PairingComplete, EndPasskey
    <3>2. link \in Link /\ "paired" \in Pending
      <4>1. "paired" \in Event /\ Handle("paired")
        BY <2>2 DEF Event, PairingComplete
      <4> QED BY <4>1, HandleFacts
    <3>3. ~In({"asking"})
      BY <3>2 DEF In, IInv, Floor
    <3> QED BY <1>1, <1>3, <3>1, <3>3
  <2>3. CASE Disconnected \/ Encrypted \/ BondLost \/ PairingFailed
    <3>1. entry' = entry \/ entry' = NewEntry
      BY <2>3 DEF Disconnected, Encrypted, BondLost, PairingFailed, EndPasskey
    <3>2. link' = link \/ link' = None
      BY <2>3 DEF Disconnected, Encrypted, BondLost, PairingFailed, Leave, Drop
    <3> QED BY <1>1, <1>3, <1>4, <3>1, <3>2
  <2> QED BY <1>8, <2>1, <2>2, <2>3 DEF HandleEvent
<1>9. ASSUME StartPoll \/ Tick \/ ScanPoll PROVE FALSE
  <2>1. link' = link
    BY <1>9 DEF StartPoll, Tick, ScanPoll
  <2>2. ~grows
    <3>1. CASE StartPoll
      BY <1>3, <3>1 DEF StartPoll, pad
    <3>2. CASE Tick
      <4>1. entry'.code = entry.code
        BY <1>2, <3>2, FreshEntries DEF Tick
      <4> QED BY <1>2, <4>1
    <3>3. CASE ScanPoll
      <4>1. ~entry.active /\ pressed' \in SUBSET Key /\ entry' = Update(entry, pressed')
        BY <3>3 DEF ScanPoll, Reads, IInv, Attached
      <4>2. entry' = entry
        BY <1>2, <4>1, UpdateFacts
      <4> QED BY <1>3, <4>2
    <3> QED BY <1>9, <3>1, <3>2, <3>3
  <2> QED BY <1>1, <1>4, <2>1, <2>2
<1>10. ASSUME MenuAction PROVE FALSE
  <2>1. CASE Leave /\ UNCHANGED entry
    BY <1>1, <1>3, <1>4, <2>1 DEF Leave, Drop
  <2> QED BY <1>7, <1>10, <2>1 DEF MenuAction
<1>11. ASSUME Boot PROVE FALSE
  <2>1. entry' = entry /\ link' = link
    BY <1>11 DEF Boot, pad
  <2> QED BY <1>1, <1>3, <1>4, <2>1
<1> QED BY <1>5, <1>6, <1>7, <1>8, <1>9, <1>10, <1>11 DEF Next, Pad, PowerLoss

\* A digit is a key pressed since the poll before, and no other digit with it.
THEOREM FreshDigits == Spec => DigitsAreFresh
<1> DEFINE fresh ==
      Extends /\ ~unread => Cardinality((pressed' \ pressed) \cap DigitKey) = 1
<1>1. IInv /\ [Next]_vars => fresh \/ UNCHANGED vars
  <2> SUFFICES ASSUME IInv, Next, Extends, ~unread
               PROVE  Cardinality((pressed' \ pressed) \cap DigitKey) = 1
    OBVIOUS
  <2> DEFINE next == Update(entry, pressed')
  <2>1. Poll
    BY OnlyPollsExtend
  <2>2. EntryOK(entry) /\ pressed' \in SUBSET Key /\ Len(entry.code) \in Nat
    BY <2>1 DEF Poll, Reads, IInv, TypeOK, Attached, EntryOK, Entry
  <2>3. next.outcome = "commit" \/ (next.outcome = "none" /\ Len(next.code) > Len(entry.code))
    <3>1. CASE next.outcome = "none" /\ entry' = next /\ link' = link
      <4>1. ~(In({"asking"}) /\ link' # None /\ link'.phase = "answered")
        BY <3>1 DEF In
      <4> QED BY <3>1, <4>1 DEF Extends
    <3>2. CASE next.outcome = "commit"
      BY <3>2
    <3>3. CASE next.outcome = "cancel" /\ Aborts
      <4>1. Len(entry'.code) = 0
        BY <3>3, FreshEntries DEF Aborts, EndPasskey
      <4>2. ~(Len(entry'.code) > Len(entry.code))
        BY <2>2, <4>1
      <4>3. In({"asking"}) /\ link' # None /\ link'.phase = "answered"
        BY <4>2 DEF Extends
      <4>4. link \in Link /\ "open" \in Phase
        BY <4>3 DEF In, IInv, TypeOK, Phase
      <4>5. link'.phase # "answered"
        BY <3>3, <4>3, <4>4, MovesFacts DEF Aborts, In
      <4> QED BY <4>3, <4>5
    <3> QED BY <2>1, <3>1, <3>2, <3>3 DEF Poll
  <2>4. entry.active
    <3> SUFFICES ASSUME ~entry.active PROVE FALSE
      OBVIOUS
    <3>1. next = entry
      BY <2>2, UpdateFacts
    <3> QED BY <2>2, <2>3, <3>1 DEF EntryOK
  <2>5. entry.prev = pressed
    BY <2>4 DEF IInv, Remembers
  <2>6. Cardinality((pressed' \ entry.prev) \cap DigitKey) = 1
    BY <2>2, <2>3, <2>4, UpdateFacts
  <2> QED BY <2>5, <2>6
<1> QED BY <1>1, Invariance, PTL DEF Spec, DigitsAreFresh

------------------------------------------------------------------------------
(* The slot as a registry *)

USE UnreadableAssumption

\* SlotRegistry's operators on the registry of one slot.
LEMMA OneSlotFacts ==
    /\ Registry!Bond = Bond
    /\ \A b \in Bond \cup {None} : Registry!FromLegacy(b) = OneSlot(b)
    /\ \A b, c \in Bond \cup {None} :
          /\ Registry!ActiveBond(OneSlot(b)) = b
          /\ Registry!WithActiveBond(OneSlot(b), c) = OneSlot(c)
    /\ \E a \in Registry!Action : \A b \in Bond \cup {None} :
          Registry!Apply(OneSlot(b), a) = OneSlot(None)
<1>1. 0 .. 1 - 1 = {0} /\ 0 .. 0 = {0}
  OBVIOUS
<1>2. Registry!Bond = Bond
  BY DEF Registry!Bond, Registry!Level, Bond
<1>3. ASSUME NEW b PROVE Registry!FromLegacy(b) = OneSlot(b)
  BY <1>1 DEF Registry!FromLegacy, Registry!Slot, OneSlot
<1>4. ASSUME NEW b PROVE Registry!ActiveBond(OneSlot(b)) = b
  BY <1>1 DEF Registry!ActiveBond, OneSlot
<1>5. ASSUME NEW b, NEW c PROVE Registry!WithActiveBond(OneSlot(b), c) = OneSlot(c)
  BY <1>1 DEF Registry!WithActiveBond, OneSlot
<1>6. ASSUME NEW b PROVE Registry!Apply(OneSlot(b), [kind |-> "clear", slot |-> 0]) = OneSlot(None)
  BY <1>1 DEF Registry!Apply, OneSlot
<1>7. [kind |-> "clear", slot |-> 0] \in Registry!Action
  BY <1>1 DEF Registry!Action, Registry!Slot
<1> QED BY <1>2, <1>3, <1>4, <1>5, <1>6, <1>7

LEMMA InitIsRegistry == Init => Registry!Init
<1> SUFFICES ASSUME Init PROVE Registry!Init
  OBVIOUS
<1>1. slot \in Bond \cup {None} /\ at = "off"
  BY DEF Init
<1>2. OneSlot(slot) = Registry!FromLegacy(slot) /\ Registry!Bond = Bond
  BY <1>1, OneSlotFacts
<1> QED BY <1>1, <1>2 DEF Registry!Init

\* What a step may do to the slot while the pad is up, in the registry's words.
LEMMA Unbinds ==
    ASSUME slot \in Bond \cup {None}, at # "off", at' # "off", slot' \in {slot, None}
    PROVE  [Registry!Next]_Registry!vars
<1>1. CASE slot' = slot
  BY <1>1 DEF Registry!vars
<1>2. CASE slot' = None
  <2>1. OneSlot(slot') = Registry!WithActiveBond(OneSlot(slot), None)
    BY <1>2, OneSlotFacts
  <2>2. Registry!Unbind
    BY <2>1 DEF Registry!Unbind
  <2> QED BY <2>2 DEF Registry!Next
<1> QED BY <1>1, <1>2

LEMMA Binds ==
    ASSUME slot = None, at # "off", at' # "off", slot' \in Bond, slot'.level = "strong"
    PROVE  [Registry!Next]_Registry!vars
<1>1. /\ Registry!ActiveBond(OneSlot(slot)) = None
      /\ OneSlot(slot') = Registry!WithActiveBond(OneSlot(slot), slot')
      /\ Registry!Bond = Bond
  BY OneSlotFacts
<1>2. Registry!Bind(slot')
  BY <1>1 DEF Registry!Bind
<1> QED BY <1>1, <1>2 DEF Registry!Next

LEMMA Stops ==
    ASSUME slot \in Bond \cup {None}, at # "off", at' = "off", slot' \in {slot, None}
    PROVE  [Registry!Next]_Registry!vars
<1>1. CASE slot' = slot
  <2>1. Registry!Stop
    BY <1>1 DEF Registry!Stop
  <2> QED BY <2>1 DEF Registry!Next
<1>2. CASE slot' = None
  <2>1. PICK a \in Registry!Action : Registry!Apply(OneSlot(slot), a) = OneSlot(None)
    BY OneSlotFacts
  <2>2. Registry!Choose(a)
    BY <1>2, <2>1 DEF Registry!Choose
  <2> QED BY <2>2 DEF Registry!Next
<1> QED BY <1>1, <1>2

\* A pairing stores its bond only while the slot is empty, and only from the floor on.
LEMMA CommitIsRegistry ==
    ASSUME IInv, PairingComplete
    PROVE  [Registry!Next]_Registry!vars
<1>1. link \in Link /\ link # None /\ at = "serve" /\ "paired" \in Pending
  <2>1. "paired" \in Event /\ Handle("paired")
    BY DEF Event, PairingComplete
  <2> QED BY <2>1, HandleFacts
<1>2. at' \in {"serve", "scan"}
  BY <1>1 DEF PairingComplete, Commit, Leave, Stay
<1>3. slot \in Bond \cup {None}
  BY DEF IInv, TypeOK
<1>4. CASE slot' = slot
  BY <1>1, <1>2, <1>3, <1>4, Unbinds
<1>5. CASE slot' # slot
  <2>1. link.level # "weak" /\ link.bondable /\ slot' = Own(link.level)
    BY <1>5 DEF PairingComplete, Commit, Bonded
  <2>2. slot = None
    BY <1>1, <2>1 DEF IInv, Stored
  <2>3. link.level = "strong"
    BY <1>1, <2>1 DEF IInv, Floor, Link
  <2>4. slot' \in Bond /\ slot'.level = "strong"
    BY <1>1, <2>1, <2>3 DEF Own, Link, Bond
  <2> QED BY <1>1, <1>2, <2>2, <2>4, Binds
<1> QED BY <1>4, <1>5

LEMMA StepIsRegistry == IInv /\ [Next]_vars => [Registry!Next]_Registry!vars
<1> SUFFICES ASSUME IInv, [Next]_vars PROVE [Registry!Next]_Registry!vars
  OBVIOUS
<1>1. slot \in Bond \cup {None} /\ (at = "off" => link = None)
  BY DEF IInv, TypeOK, Attached
<1>2. CASE slot' = slot /\ at' = at
  BY <1>2 DEF Registry!vars
<1>3. CASE UNCHANGED vars
  BY <1>2, <1>3 DEF vars, bonds
<1>4. CASE Outside
  <2>1. slot' = slot /\ at' = at
    BY <1>4 DEF Outside, Encrypts, Pairs, Asks, PairingFails, LosesBond, Drops, Forgets, Tell, bonds
  <2> QED BY <1>2, <2>1
<1>5. CASE \E p \in Peer : Accept(p)
  <2>1. at = "scan" /\ at' = "serve" /\ slot' \in {slot, None}
    BY <1>5 DEF Accept
  <2> QED BY <1>1, <2>1, Unbinds
<1>6. CASE Boot
  <2>1. at = "off" /\ at' = "scan" /\ slot' = slot
    BY <1>6 DEF Boot, bonds
  <2>2. OneSlot(slot) # Unreadable
    BY <1>1
  <2>3. Registry!Start
    BY <2>1, <2>2 DEF Registry!Start
  <2> QED BY <2>3 DEF Registry!Next
<1>7. CASE PowerLoss
  BY <1>1, <1>7, Stops DEF PowerLoss, Restart
<1>8. CASE HandleEvent
  <2>1. CASE PairingComplete
    BY <2>1, CommitIsRegistry
  <2>2. CASE Disconnected \/ PassKeyInput \/ Encrypted \/ BondLost \/ PairingFailed
    <3>1. at = "serve" /\ at' \in {"serve", "scan"}
      BY <2>2 DEF Disconnected, PassKeyInput, Encrypted, BondLost, PairingFailed, Handle, Leave, Stay
    <3>2. slot' \in {slot, None}
      BY <2>2 DEF Disconnected, PassKeyInput, Encrypted, BondLost, PairingFailed, bonds
    <3> QED BY <1>1, <3>1, <3>2, Unbinds
  <2> QED BY <1>8, <2>1, <2>2 DEF HandleEvent
<1>9. CASE StartPoll \/ Poll \/ Tick \/ ScanPoll
  <2>1. at # "off" /\ at' # "off" /\ slot' = slot
    BY <1>1, <1>9 DEF StartPoll, Poll, Tick, ScanPoll, bonds, IInv, Attached
  <2> QED BY <1>1, <2>1, Unbinds
<1>10. CASE MenuAction
  <2>1. at # "off" /\ slot' \in {slot, None}
    BY <1>10 DEF MenuAction, Restart, bonds
  <2>2. at' = "off" \/ at' = "scan"
    BY <1>10 DEF MenuAction, Restart, Leave
  <2> QED BY <1>1, <2>1, <2>2, Stops, Unbinds
<1> QED BY <1>3, <1>4, <1>5, <1>6, <1>7, <1>8, <1>9, <1>10 DEF Next, Pad

\* Whatever the connections of one slot do to it, the slot is a registry as SlotRegistry
\* describes it: HostStore's view of storage and this one meet in that module.
THEOREM Refinement == Spec => ImplementsRegistry
<1>1. IInv /\ [Next]_vars => [Registry!Next]_Registry!vars
  BY StepIsRegistry
<1> QED BY InitIsRegistry, <1>1, Invariance, PTL DEF Spec, ImplementsRegistry, Registry!Spec
=============================================================================
