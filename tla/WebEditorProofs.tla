--------------------------- MODULE WebEditorProofs ---------------------------
(***************************************************************************)
(* Proofs about ConfigRecord and WebEditor for any contents of the fields, *)
(* any record in flash and any number of edits.                            *)
(***************************************************************************)
EXTENDS WebEditor, TLAPS

USE DefaultAssumption, NoneAssumption, FoundAssumption, BoundAssumption

------------------------------------------------------------------------------
(* Records *)

\* Of an up-to-date record Upgrade keeps every field, of an older one the version.
LEMMA Upgraded ==
    ASSUME NEW r \in Record
    PROVE  /\ Upgrade(r) \in Record
           /\ Upgrade(r).version = r.version
           /\ r.version >= VERSION => Fields(Upgrade(r)) = Fields(r)
<1>1. r.version \in 0 .. 4
  BY DEF Record, VERSION
<1>2. /\ Upgrade(r) \in Record
      /\ Upgrade(r).version = r.version
      /\ Upgrade(r).keymap = r.keymap
      /\ Upgrade(r).mask = IF r.version >= VERSION_CONSUMER THEN r.mask ELSE NO_MASK
      /\ Upgrade(r).colors = IF r.version >= VERSION THEN r.colors ELSE DEFAULT_SLOT_COLORS
  BY DEF Upgrade, Record
<1>3. r.version >= VERSION => r.version >= VERSION_CONSUMER
  BY <1>1 DEF VERSION, VERSION_CONSUMER
<1> QED BY <1>2, <1>3 DEF Fields

\* What to_bytes writes.
LEMMA Written ==
    ASSUME NEW config \in Config
    PROVE  /\ ToBytes(config) \in Record
           /\ ToBytes(config).version = VERSION /\ VERSION >= VERSION
           /\ Fields(ToBytes(config)) = config
<1>1. ToBytes(config) \in Record
  BY DEF ToBytes, Record, Config, VERSION
<1>2. Fields(ToBytes(config)) = config
  BY DEF Fields, ToBytes, Config
<1> QED BY <1>1, <1>2 DEF ToBytes, VERSION

\* What is written is read back: from_bytes undoes to_bytes, for every configuration.
LEMMA RoundTrip == \A config \in Config : FromBytes(ToBytes(config)) = config
<1> SUFFICES ASSUME NEW config \in Config PROVE FromBytes(ToBytes(config)) = config
  OBVIOUS
<1>1. Fields(Upgrade(ToBytes(config))) = config
  BY Upgraded, Written
<1>2. ToBytes(config).magic /\ ToBytes(config).sum
  BY DEF ToBytes
<1>3. ToBytes(config).version \in VERSION_LEGACY .. VERSION
  BY DEF ToBytes, VERSION_LEGACY, VERSION
<1> QED BY <1>1, <1>2, <1>3 DEF FromBytes

\* A record of any version parses to a configuration or not at all; one of the current
\* version to its fields.
LEMMA Parses ==
    ASSUME NEW r \in Record
    PROVE  /\ Fields(r) \in Config
           /\ FromBytes(r) \in Config \cup {None}
           /\ FromBytes(r) # None /\ r.version >= VERSION => FromBytes(r) = Fields(r)
           /\ Loaded(r) \in Config
<1>1. Fields(r) \in Config /\ Fields(Upgrade(r)) \in Config
  BY Upgraded DEF Fields, Record, Config
<1>2. Default \in Config
  BY DEF Default, Config
<1> QED BY <1>1, <1>2, Upgraded DEF FromBytes, Loaded

LEMMA BlankIsRecord == Blank \in Record /\ Default \in Config
BY DEF Blank, Default, Config, Record, VERSION

------------------------------------------------------------------------------
(* The inductive invariant *)

\* No answer to anybody else's command is on its way.
Clean == "stale" \notin doubts

\* Where the page's command is; the other places are empty.
AtPage  == sending # None /\ request = None /\ loop = "reading" /\ inbox = None
AtPad   == sending = None /\ request # None /\ loop = "reading" /\ inbox = None
InSave  == sending = None /\ request = None /\ loop \in {"erasing", "writing"} /\ inbox = None
InReply == sending = None /\ request = None /\ loop = "answering" /\ inbox = None
InPipe  == sending = None /\ request = None /\ loop = "reading" /\ inbox # None
Nowhere == sending = None /\ request = None /\ loop = "reading" /\ inbox = None

\* What the command asks, and what its answer says of the pad.
Asks(packet) ==
    /\ packet.cmd = awaits
    /\ awaits = "SET" => packet.record = out
Tells(answer) ==
    /\ answer.cmd = awaits
    /\ awaits = "GET" => answer.ok /\ answer.record = ToBytes(running)
    /\ awaits = "SET" /\ answer.ok => FromBytes(out) = running
    /\ awaits = "SAVE" /\ answer.ok => FromBytes(stored) = running

OneCommand ==
    IF awaits = None THEN Nowhere
    ELSE \/ AtPage /\ Asks(sending)
         \/ AtPad /\ Asks(request)
         \/ InSave /\ awaits = "SAVE" /\ FromBytes(snapshot) = running
         \/ InReply /\ reply # None /\ Tells(reply)
         \/ InPipe /\ Tells(inbox)

\* While SAVE is awaited the pad runs the draft; of an up-to-date draft it runs all.
Drafted ==
    awaits = "SAVE" /\ "edited" \notin doubts => FromBytes(draft) = running
Modern ==
    device /\ "old" \notin doubts =>
        /\ awaits # "GET" => draft.version >= VERSION
        /\ awaits = "SET" => out.version >= VERSION

\* A page waits only while it has the pad, and sends only what it waits for.
Paged ==
    /\ awaits # None => device
    /\ sending # None => awaits # None

\* What was told saved is stored, and no save is going on.
Told ==
    saved # None =>
        /\ loop \notin {"erasing", "writing"}
        /\ FromBytes(stored) = saved

IInv ==
    /\ TypeOK
    /\ Paged
    /\ Clean => OneCommand /\ Drafted /\ Modern
    /\ Told

\* The page and the pad start with nothing between them.
LEMMA InitIInv == Init => IInv
<1> SUFFICES ASSUME Init PROVE IInv
  OBVIOUS
<1>1. Loaded(stored) \in Config
  BY Parses DEF Init
<1>2. ToBytes(Default) \in Record
  BY Written, BlankIsRecord
<1>3. TypeOK
  <2>1. PadTypeOK
    BY <1>1, BlankIsRecord DEF Init, Started, PadTypeOK
  <2>2. 0 \in 0 .. MaxEdits
    OBVIOUS
  <2>3. edits \in 0 .. MaxEdits
    BY <2>2 DEF Init
  <2>4. raw \in Record /\ draft \in Record /\ out \in Record
    BY <1>2, BlankIsRecord DEF Init
  <2> QED BY <2>1, <2>3, <2>4 DEF Init, TypeOK
<1>4. OneCommand /\ Paged
  BY DEF Init, Started, OneCommand, Nowhere, Paged
<1>5. awaits = None /\ device = FALSE /\ saved = None
  BY DEF Init
<1>6. Drafted /\ Modern /\ Told
  BY <1>5 DEF Drafted, Modern, Told, Command
<1> QED BY <1>3, <1>4, <1>6 DEF IInv

------------------------------------------------------------------------------
(* The page's commands *)

\* A command of the page begins, with nothing of it on its way yet.
LEMMA StartKeeps ==
    ASSUME IInv, NEW cmd \in {"GET", "SET", "RESET"}, NEW record \in Record,
           awaits = None, Sends(cmd, record), device' = TRUE, out' \in Record,
           cmd = "SET" => record = out' /\ out'.version = draft.version,
           cmd # "GET" => device,
           UNCHANGED <<padVars, raw, draft, edits, saved, doubts>>
    PROVE  IInv'
<1>1. cmd \in Command /\ cmd # None
  BY DEF Command
<1>2. /\ awaits' = cmd /\ sending' = [cmd |-> cmd, record |-> record]
      /\ sending' \in Packet /\ sending' # None
  BY <1>1 DEF Sends, Packet
<1>3. TypeOK'
  BY <1>1, <1>2 DEF IInv, TypeOK, PadTypeOK, padVars
<1>4. Paged'
  BY <1>1, <1>2 DEF Paged
<1>5. ASSUME Clean PROVE OneCommand' /\ Drafted' /\ Modern'
  <2>1. Nowhere
    BY <1>5 DEF IInv, OneCommand
  <2>2. AtPage' /\ Asks(sending)'
    BY <1>2, <2>1 DEF Nowhere, AtPage, Asks, padVars
  <2>3. OneCommand'
    BY <1>1, <1>2, <2>2 DEF OneCommand
  <2>4. Drafted'
    BY <1>2 DEF Drafted
  <2>5. Modern'
    <3> SUFFICES ASSUME "old" \notin doubts, cmd # "GET"
                 PROVE  draft.version >= VERSION /\ (cmd = "SET" => out'.version >= VERSION)
      BY <1>2 DEF Modern
    <3>1. draft.version >= VERSION
      BY <1>5 DEF IInv, Modern, Command
    <3> QED BY <3>1
  <2> QED BY <2>3, <2>4, <2>5
<1>6. Clean' => Clean
  BY DEF Clean
<1>7. Told'
  BY DEF IInv, Told, padVars
<1> QED BY <1>3, <1>4, <1>5, <1>6, <1>7 DEF IInv

LEMMA CommandsKeep ==
    ASSUME IInv, Connect \/ Reload \/ SaveToFlash \/ Defaults
    PROVE  IInv'
<1>1. CASE Connect \/ Reload \/ Defaults
  <2>1. PICK cmd \in {"GET", "RESET"} : Sends(cmd, Blank) /\ (cmd # "GET" => device)
    BY <1>1 DEF Connect, Reload, Defaults, Idle
  <2>2. /\ awaits = None /\ device' = TRUE
        /\ UNCHANGED <<padVars, raw, draft, out, edits, saved, doubts>>
    BY <1>1 DEF Connect, Reload, Defaults, Idle, IInv, TypeOK
  <2>3. out' \in Record
    BY <2>2 DEF IInv, TypeOK
  <2>4. cmd \in {"GET", "SET", "RESET"} /\ cmd # "SET"
    OBVIOUS
  <2> QED BY <2>1, <2>2, <2>3, <2>4, BlankIsRecord, StartKeeps
<1>2. CASE SaveToFlash
  <2>1. /\ awaits = None /\ device /\ device' = TRUE /\ Sends("SET", out')
        /\ out' = [draft EXCEPT !.sum = TRUE]
        /\ UNCHANGED <<padVars, raw, draft, edits, saved, doubts>>
    BY <1>2 DEF SaveToFlash, Idle, IInv, TypeOK
  <2>2. out' \in Record /\ out'.version = draft.version
    BY <2>1 DEF IInv, TypeOK, Record
  <2> QED BY <2>1, <2>2, StartKeeps
<1> QED BY <1>1, <1>2

LEMMA TransferOutKeeps == ASSUME IInv, TransferOut PROVE IInv'
<1>1. /\ sending # None /\ request = None /\ request' = sending /\ sending' = None
      /\ UNCHANGED <<stored, running, loop, snapshot, reply, inbox>>
      /\ UNCHANGED <<device, awaits, raw, draft, out, edits, saved, doubts>>
  BY DEF TransferOut
<1>2. TypeOK'
  BY <1>1 DEF IInv, TypeOK, PadTypeOK
<1>3. Paged' /\ Told'
  BY <1>1 DEF IInv, Paged, Told
<1>4. ASSUME Clean PROVE OneCommand'
  <2>1. awaits # None /\ AtPage /\ Asks(sending)
    BY <1>1, <1>4 DEF IInv, Paged, OneCommand, AtPage, AtPad, InSave, InReply, InPipe
  <2>2. AtPad' /\ Asks(request)'
    BY <1>1, <2>1 DEF AtPage, AtPad, Asks
  <2> QED BY <1>1, <2>1, <2>2 DEF OneCommand
<1>5. Clean' = Clean /\ Drafted' = Drafted /\ Modern' = Modern
  BY <1>1 DEF Clean, Drafted, Modern
<1> QED BY <1>2, <1>3, <1>4, <1>5 DEF IInv

\* The page lets the pad go.
LEMMA DisconnectKeeps == ASSUME IInv, Disconnect PROVE IInv'
<1>1. /\ awaits = None /\ device' = FALSE
      /\ UNCHANGED <<padVars, awaits, sending, raw, draft, out, edits, saved, doubts>>
  BY DEF Disconnect, Idle
<1>2. TypeOK'
  BY <1>1 DEF IInv, TypeOK, PadTypeOK, padVars
<1>3. Paged' /\ Told'
  BY <1>1 DEF IInv, Paged, Told, padVars
<1>4. Clean' = Clean /\ Drafted' = Drafted
  BY <1>1 DEF Clean, Drafted, padVars
<1>5. Modern'
  BY <1>1 DEF Modern
<1>6. Clean => OneCommand'
  BY <1>1 DEF IInv, OneCommand, Nowhere, padVars
<1> QED BY <1>2, <1>3, <1>4, <1>5, <1>6 DEF IInv

------------------------------------------------------------------------------
(* The page takes an answer *)

\* A clean page takes the answer to its own command, after which nothing is on its way.
LEMMA ReceivesFacts ==
    ASSUME IInv, NEW cmd \in Command, Receives(cmd)
    PROVE  /\ awaits = cmd /\ sending = None /\ device /\ device' = TRUE
           /\ inbox \in Answer /\ inbox' = None
           /\ UNCHANGED <<stored, running, loop, snapshot, reply, request>>
           /\ Clean => InPipe /\ Tells(inbox)
<1>1. /\ awaits = cmd /\ sending = None /\ inbox # None /\ inbox' = None
      /\ UNCHANGED <<stored, running, loop, snapshot, reply, request, device>>
  BY DEF Receives
<1>2. awaits # None
  BY <1>1 DEF Command
<1>3. device = TRUE
  BY <1>2 DEF IInv, Paged, TypeOK
<1>4. inbox \in Answer
  BY <1>1 DEF IInv, TypeOK, PadTypeOK
<1>5. Clean => InPipe /\ Tells(inbox)
  BY <1>1, <1>2 DEF IInv, OneCommand, AtPage, AtPad, InSave, InReply, InPipe
<1> QED BY <1>1, <1>3, <1>4, <1>5

LEMMA LoadKeeps == ASSUME IInv, Load PROVE IInv'
<1>1. /\ Receives("GET") /\ awaits' = None /\ UNCHANGED <<sending, out, saved>>
      /\ doubts' = doubts \/ doubts' = doubts \ {"edited", "old"}
      /\ edits' = edits
  BY DEF Load, Ends
<1>2. /\ awaits = "GET" /\ sending = None /\ device /\ device' = TRUE
      /\ inbox \in Answer /\ inbox' = None
      /\ UNCHANGED <<stored, running, loop, snapshot, reply, request>>
      /\ Clean => InPipe /\ Tells(inbox)
  BY <1>1, ReceivesFacts DEF Command
<1>3. Upgrade(inbox.record) \in Record
  BY <1>2, Upgraded DEF Answer
<1>4. raw' \in Record /\ draft' \in Record
  BY <1>3 DEF Load, IInv, TypeOK
<1>5. edits' \in 0 .. MaxEdits
  BY <1>1 DEF IInv, TypeOK
<1>6. TypeOK'
  BY <1>1, <1>2, <1>4, <1>5 DEF IInv, TypeOK, PadTypeOK
<1>7. Paged' /\ Told'
  BY <1>1, <1>2 DEF IInv, Paged, Told
<1>8. ASSUME Clean PROVE OneCommand' /\ Drafted' /\ Modern'
  <2>1. inbox.ok /\ inbox.record = ToBytes(running)
    BY <1>2, <1>8 DEF Tells
  <2>2. draft' = Upgrade(ToBytes(running))
    BY <2>1 DEF Load
  <2>3. running \in Config
    BY DEF IInv, TypeOK, PadTypeOK
  <2>4. draft'.version >= VERSION
    BY <2>2, <2>3, Upgraded, Written
  <2>5. Nowhere'
    BY <1>1, <1>2, <1>8 DEF Nowhere, InPipe
  <2> QED BY <1>1, <2>4, <2>5 DEF OneCommand, Drafted, Modern, Command
<1>9. Clean' => Clean
  BY <1>1 DEF Clean
<1> QED BY <1>6, <1>7, <1>8, <1>9 DEF IInv

LEMMA AppliedKeeps == ASSUME IInv, Applied PROVE IInv'
<1>1. /\ Receives("SET") /\ out' = Blank
      /\ UNCHANGED <<raw, edits, saved, doubts>>
      /\ \/ Fits("SET") /\ draft' = out /\ Sends("SAVE", Blank)
         \/ draft' = draft /\ awaits' = None /\ sending' = sending
  BY DEF Applied, Ends
<1>2. /\ awaits = "SET" /\ sending = None /\ device /\ device' = TRUE
      /\ inbox \in Answer /\ inbox' = None
      /\ UNCHANGED <<stored, running, loop, snapshot, reply, request>>
      /\ Clean => InPipe /\ Tells(inbox)
  BY <1>1, ReceivesFacts DEF Command
<1>3. /\ [cmd |-> "SAVE", record |-> Blank] \in Packet
      /\ "SAVE" \in Command /\ "SAVE" # None
  BY BlankIsRecord DEF Packet, Command
<1>4. TypeOK'
  <2>1. PadTypeOK'
    BY <1>2 DEF IInv, TypeOK, PadTypeOK
  <2>2. awaits' \in Command \cup {None} /\ sending' \in Packet \cup {None}
    BY <1>1, <1>2, <1>3 DEF Sends
  <2>3. draft' \in Record /\ out' \in Record
    BY <1>1, BlankIsRecord DEF IInv, TypeOK
  <2> QED BY <1>1, <1>2, <2>1, <2>2, <2>3 DEF IInv, TypeOK
<1>5. Paged' /\ Told'
  BY <1>1, <1>2, <1>3 DEF IInv, Paged, Told, Sends
<1>6. ASSUME Clean PROVE OneCommand' /\ Drafted' /\ Modern'
  <2>1. InPipe /\ Tells(inbox)
    BY <1>2, <1>6
  <2>2. CASE Fits("SET") /\ draft' = out /\ Sends("SAVE", Blank)
    <3>1. FromBytes(out) = running
      BY <1>2, <2>1, <2>2 DEF Fits, Tells
    <3>2. AtPage' /\ Asks(sending)'
      BY <1>2, <1>3, <2>1, <2>2 DEF Sends, InPipe, AtPage, Asks
    <3>3. awaits' = "SAVE"
      BY <2>2 DEF Sends
    <3>4. "old" \notin doubts => out.version >= VERSION
      BY <1>2, <1>6 DEF IInv, Modern
    <3>5. OneCommand'
      BY <1>3, <3>2, <3>3 DEF OneCommand
    <3>6. Drafted' /\ Modern'
      BY <1>1, <1>2, <2>2, <3>1, <3>3, <3>4 DEF Drafted, Modern
    <3> QED BY <3>5, <3>6
  <2>3. CASE draft' = draft /\ awaits' = None /\ sending' = sending
    <3>1. Nowhere'
      BY <1>2, <2>1, <2>3 DEF InPipe, Nowhere
    <3>2. "old" \notin doubts => draft.version >= VERSION
      BY <1>2, <1>6 DEF IInv, Modern
    <3> QED BY <1>1, <2>3, <3>1, <3>2 DEF OneCommand, Drafted, Modern, Command
  <2> QED BY <1>1, <2>2, <2>3
<1>7. Clean' = Clean
  BY <1>1 DEF Clean
<1> QED BY <1>4, <1>5, <1>6, <1>7 DEF IInv

LEMMA SavedKeeps == ASSUME IInv, Saved PROVE IInv'
<1>1. /\ Receives("SAVE") /\ awaits' = None /\ sending' = sending
      /\ UNCHANGED <<draft, out, edits, doubts>>
      /\ \/ /\ Fits("SAVE") /\ raw' = draft
            /\ saved' = IF doubts = {} THEN Fields(draft) ELSE None
         \/ raw' = raw /\ saved' = saved
  BY DEF Saved, Ends
<1>2. /\ awaits = "SAVE" /\ sending = None /\ device /\ device' = TRUE
      /\ inbox \in Answer /\ inbox' = None
      /\ UNCHANGED <<stored, running, loop, snapshot, reply, request>>
      /\ Clean => InPipe /\ Tells(inbox)
  BY <1>1, ReceivesFacts DEF Command
<1>3. TypeOK'
  <2>1. draft \in Record /\ Fields(draft) \in Config
    BY Parses DEF IInv, TypeOK
  <2>2. PadTypeOK'
    BY <1>2 DEF IInv, TypeOK, PadTypeOK
  <2> QED BY <1>1, <1>2, <2>1, <2>2 DEF IInv, TypeOK
<1>4. Paged'
  BY <1>1, <1>2 DEF Paged
<1>5. ASSUME Clean PROVE OneCommand' /\ Drafted' /\ Modern'
  <2>1. Nowhere'
    BY <1>1, <1>2, <1>5 DEF InPipe, Nowhere
  <2>2. "old" \notin doubts => draft.version >= VERSION
    BY <1>2, <1>5 DEF IInv, Modern
  <2> QED BY <1>1, <2>1, <2>2 DEF OneCommand, Drafted, Modern, Command
<1>6. Clean' = Clean
  BY <1>1 DEF Clean
<1>7. Told'
  <2>1. CASE saved' = saved
    BY <1>2, <2>1 DEF IInv, Told
  <2>2. CASE Fits("SAVE") /\ doubts = {} /\ saved' = Fields(draft)
    <3>1. InPipe /\ Tells(inbox) /\ Drafted /\ Modern
      BY <1>2, <2>2 DEF Clean, IInv
    <3>2. FromBytes(stored) = running
      BY <1>2, <2>2, <3>1 DEF Fits, Tells
    <3>3. FromBytes(draft) = running /\ draft.version >= VERSION
      BY <1>2, <2>2, <3>1 DEF Drafted, Modern
    <3>4. running \in Config /\ draft \in Record
      BY DEF IInv, TypeOK, PadTypeOK
    <3>5. Fields(draft) = running
      BY <3>3, <3>4, Parses
    <3> QED BY <1>2, <2>2, <3>1, <3>2, <3>5 DEF Told, InPipe
  <2> QED BY <1>1, <2>1, <2>2 DEF Told
<1> QED BY <1>3, <1>4, <1>5, <1>6, <1>7 DEF IInv

LEMMA WasResetKeeps == ASSUME IInv, WasReset PROVE IInv'
<1>1. /\ Receives("RESET")
      /\ UNCHANGED <<raw, draft, out, edits, saved, doubts>>
      /\ Sends("GET", Blank) \/ (awaits' = None /\ sending' = sending)
  BY DEF WasReset, Ends
<1>2. /\ awaits = "RESET" /\ sending = None /\ device /\ device' = TRUE
      /\ inbox \in Answer /\ inbox' = None
      /\ UNCHANGED <<stored, running, loop, snapshot, reply, request>>
      /\ Clean => InPipe /\ Tells(inbox)
  BY <1>1, ReceivesFacts DEF Command
<1>3. /\ [cmd |-> "GET", record |-> Blank] \in Packet
      /\ "GET" \in Command /\ "GET" # None
  BY BlankIsRecord DEF Packet, Command
<1>4. TypeOK'
  <2>1. PadTypeOK'
    BY <1>2 DEF IInv, TypeOK, PadTypeOK
  <2>2. awaits' \in Command \cup {None} /\ sending' \in Packet \cup {None}
    BY <1>1, <1>2, <1>3 DEF Sends
  <2> QED BY <1>1, <1>2, <2>1, <2>2 DEF IInv, TypeOK
<1>5. Paged' /\ Told'
  BY <1>1, <1>2, <1>3 DEF IInv, Paged, Told, Sends
<1>6. ASSUME Clean PROVE OneCommand' /\ Drafted' /\ Modern'
  <2>1. InPipe /\ Tells(inbox)
    BY <1>2, <1>6
  <2>2. "old" \notin doubts => draft.version >= VERSION
    BY <1>2, <1>6 DEF IInv, Modern
  <2>3. CASE Sends("GET", Blank)
    <3>1. AtPage' /\ Asks(sending)'
      BY <1>2, <1>3, <2>1, <2>3 DEF Sends, InPipe, AtPage, Asks
    <3>2. awaits' = "GET"
      BY <2>3 DEF Sends
    <3> QED BY <1>1, <1>3, <3>1, <3>2 DEF OneCommand, Drafted, Modern
  <2>4. CASE awaits' = None /\ sending' = sending
    <3>1. Nowhere'
      BY <1>2, <2>1, <2>4 DEF InPipe, Nowhere
    <3> QED BY <1>1, <2>2, <2>4, <3>1 DEF OneCommand, Drafted, Modern, Command
  <2> QED BY <1>1, <2>3, <2>4
<1>7. Clean' = Clean
  BY <1>1 DEF Clean
<1> QED BY <1>4, <1>5, <1>6, <1>7 DEF IInv

\* A command that ends without its answer leaves the page in doubt.
LEMMA TransferFailsKeeps == ASSUME IInv, TransferFails PROVE IInv'
<1>1. /\ awaits' = None /\ sending' = None /\ out' = Blank
      /\ inbox' \in {inbox, None} /\ doubts' = doubts \cup {"stale"}
      /\ UNCHANGED <<stored, running, loop, snapshot, reply, request>>
      /\ UNCHANGED <<device, raw, draft, edits, saved>>
  BY DEF TransferFails
<1>2. TypeOK'
  BY <1>1, BlankIsRecord DEF IInv, TypeOK, PadTypeOK, Doubt
<1>3. Paged' /\ Told'
  BY <1>1 DEF IInv, Paged, Told
<1>4. ~Clean'
  BY <1>1 DEF Clean
<1> QED BY <1>2, <1>3, <1>4 DEF IInv

------------------------------------------------------------------------------
(* The user *)

\* An edit, whatever it changes the draft to.
LEMMA EditKeeps ==
    ASSUME IInv, NEW next \in Record, Edited(next), doubts' \subseteq Doubt,
           doubts \subseteq doubts', "stale" \in doubts' => "stale" \in doubts,
           awaits # None => "edited" \in doubts',
           \/ next.version = draft.version
           \/ awaits = None /\ (next.version >= VERSION \/ "old" \in doubts')
    PROVE  IInv'
<1>1. /\ edits < MaxEdits /\ edits' = edits + 1 /\ draft' = next
      /\ UNCHANGED <<padVars, device, awaits, sending, raw, out, saved>>
  BY DEF Edited
<1>2. edits' \in 0 .. MaxEdits
  BY <1>1 DEF IInv, TypeOK
<1>3. TypeOK'
  BY <1>1, <1>2 DEF IInv, TypeOK, PadTypeOK, padVars
<1>4. Paged' /\ Told'
  BY <1>1 DEF IInv, Paged, Told, padVars
<1>5. Clean' = Clean
  BY DEF Clean
<1>6. Clean => OneCommand'
  BY <1>1 DEF IInv, OneCommand, Nowhere, AtPage, AtPad, InSave, InReply, InPipe, Asks, Tells,
              padVars
<1>7. Drafted'
  BY <1>1 DEF Drafted, Command
<1>8. Clean => Modern'
  <2> SUFFICES ASSUME Clean, device, "old" \notin doubts', awaits # "GET"
               PROVE  next.version >= VERSION /\ (awaits = "SET" => out.version >= VERSION)
    BY <1>1 DEF Modern
  <2>1. draft.version >= VERSION /\ (awaits = "SET" => out.version >= VERSION)
    BY DEF IInv, Modern
  <2>2. "SET" # None
    BY DEF Command
  <2> QED BY <2>1, <2>2
<1> QED BY <1>3, <1>4, <1>5, <1>6, <1>7, <1>8 DEF IInv

LEMMA UserKeeps == ASSUME IInv, Assign \/ ChangeSetting \/ ImportRaw PROVE IInv'
<1>1. draft \in Record /\ doubts \subseteq Doubt
  BY DEF IInv, TypeOK
<1>2. CASE Assign
  <2>1. PICK k \in Keymap, m \in Mask : Edited([draft EXCEPT !.keymap = k, !.mask = m])
    BY <1>2 DEF Assign
  <2>2. doubts' = IF awaits = None THEN doubts ELSE doubts \cup {"edited"}
    BY <1>2 DEF Assign
  <2> DEFINE next == [draft EXCEPT !.keymap = k, !.mask = m]
  <2>3. next \in Record /\ next.version = draft.version
    BY <1>1 DEF Record
  <2> HIDE DEF next
  <2>4. /\ doubts' \subseteq Doubt /\ doubts \subseteq doubts'
        /\ "stale" \in doubts' => "stale" \in doubts
        /\ awaits # None => "edited" \in doubts'
    BY <1>1, <2>2 DEF Doubt
  <2>5. Edited(next)
    BY <2>1 DEF next
  <2> QED BY <2>3, <2>4, <2>5, EditKeeps
<1>3. CASE ChangeSetting
  <2>1. PICK c \in Colors : Edited([draft EXCEPT !.colors = c])
    BY <1>3 DEF ChangeSetting
  <2>2. doubts' = doubts /\ awaits = None
    BY <1>3 DEF ChangeSetting, Idle
  <2> DEFINE next == [draft EXCEPT !.colors = c]
  <2>3. next \in Record /\ next.version = draft.version
    BY <1>1 DEF Record
  <2> HIDE DEF next
  <2>4. Edited(next)
    BY <2>1 DEF next
  <2> QED BY <1>1, <2>2, <2>3, <2>4, EditKeeps
<1>4. CASE ImportRaw
  <2>1. PICK r \in Profiles : Edited(r)
            /\ doubts' = IF r.version < VERSION THEN doubts \cup {"old"} ELSE doubts
    BY <1>4 DEF ImportRaw
  <2>2. awaits = None
    BY <1>4 DEF ImportRaw, Idle
  <2>3. r \in Record /\ r.version \in 0 .. VERSION + 1
    BY DEF Record
  <2>4. r.version >= VERSION \/ r.version < VERSION
    BY <2>3 DEF VERSION
  <2>5. /\ doubts' \subseteq Doubt /\ doubts \subseteq doubts'
        /\ "stale" \in doubts' => "stale" \in doubts
        /\ r.version >= VERSION \/ "old" \in doubts'
    BY <1>1, <2>1, <2>4 DEF Doubt
  <2> QED BY <2>1, <2>2, <2>3, <2>5, EditKeeps
<1> QED BY <1>2, <1>3, <1>4

LEMMA ClosePageKeeps == ASSUME IInv, ClosePage PROVE IInv'
<1>1. /\ doubts' = (doubts \cap {"stale"}) \cup (IF awaits = None THEN {} ELSE {"stale"})
      /\ device' = FALSE /\ awaits' = None /\ sending' = None
      /\ raw' = ToBytes(Default) /\ draft' = ToBytes(Default) /\ out' = Blank
      /\ UNCHANGED <<padVars, edits, saved>>
  BY DEF ClosePage
<1>2. raw' \in Record /\ draft' \in Record /\ out' \in Record /\ doubts' \subseteq Doubt
  BY <1>1, BlankIsRecord, Written DEF Doubt
<1>3. TypeOK'
  BY <1>1, <1>2 DEF IInv, TypeOK, PadTypeOK, padVars
<1>4. Paged' /\ Told' /\ Modern'
  BY <1>1 DEF IInv, Paged, Told, Modern, padVars
<1>5. Drafted'
  BY <1>1 DEF Drafted, Command
<1>6. Clean' => OneCommand'
  BY <1>1 DEF IInv, Clean, OneCommand, Nowhere, padVars
<1> QED BY <1>3, <1>4, <1>5, <1>6 DEF IInv

------------------------------------------------------------------------------
(* The world *)

\* The page loses the pad.
LEMMA GoneKeeps ==
    ASSUME IInv, Gone, doubts' \subseteq Doubt, PadTypeOK', Told',
           Clean' => request' = None /\ inbox' = None /\ loop' = "reading"
    PROVE  IInv'
<1>1. /\ device' = FALSE /\ awaits' = None /\ sending' = None /\ out' = Blank
      /\ UNCHANGED <<raw, draft, edits, saved>>
  BY DEF Gone
<1>2. TypeOK'
  BY <1>1, BlankIsRecord DEF IInv, TypeOK
<1>3. Paged' /\ Modern' /\ Drafted'
  BY <1>1 DEF Paged, Modern, Drafted, Command
<1>4. Clean' => OneCommand'
  BY <1>1 DEF OneCommand, Nowhere
<1> QED BY <1>2, <1>3, <1>4 DEF IInv

LEMMA WorldKeeps == ASSUME IInv, Unplug \/ PowerLoss PROVE IInv'
<1>1. CASE Unplug
  <2>1. /\ request' = None /\ inbox' = None /\ reply' = None
        /\ loop' = IF loop = "answering" THEN "reading" ELSE loop
        /\ UNCHANGED <<stored, running, snapshot>>
        /\ Gone
        /\ doubts' = (doubts \ {"stale"}) \cup (IF loop' = "reading" THEN {} ELSE {"stale"})
    BY <1>1 DEF Unplug, PipeResets
  <2>2. doubts' \subseteq Doubt
    BY <2>1 DEF IInv, TypeOK, Doubt
  <2>3. PadTypeOK'
    BY <2>1 DEF IInv, TypeOK, PadTypeOK
  <2>4. Told'
    BY <2>1 DEF IInv, Told, Gone
  <2>5. Clean' => request' = None /\ inbox' = None /\ loop' = "reading"
    BY <2>1 DEF Clean
  <2> QED BY <2>1, <2>2, <2>3, <2>4, <2>5, GoneKeeps
<1>2. CASE PowerLoss
  <2>1. /\ stored' \in {stored} \cup (IF loop = "erasing" THEN {Blank} ELSE {})
        /\ running' = Loaded(stored') /\ loop' = "reading" /\ snapshot' = Blank
        /\ reply' = None /\ request' = None /\ inbox' = None
        /\ Gone /\ doubts' = doubts \ {"stale"}
    BY <1>2 DEF PowerLoss, PadRestarts
  <2>2. doubts' \subseteq Doubt
    BY <2>1 DEF IInv, TypeOK
  <2>3. stored' \in Record
    BY <2>1, BlankIsRecord DEF IInv, TypeOK, PadTypeOK
  <2>4. PadTypeOK'
    BY <2>1, <2>3, BlankIsRecord, Parses DEF PadTypeOK
  <2>5. Told'
    BY <2>1 DEF IInv, Told, Gone
  <2> QED BY <2>1, <2>2, <2>4, <2>5, GoneKeeps
<1> QED BY <1>1, <1>2

------------------------------------------------------------------------------
(* The pad *)

\* A step of the pad, by what it does to OneCommand.
LEMMA PadStepKeeps ==
    ASSUME IInv, PadTypeOK', UNCHANGED <<pageVars, edits, doubts>>,
           saved' = IF loop' = "erasing" THEN None ELSE saved,
           saved' # None => loop' \notin {"erasing", "writing"} /\ stored' = stored,
           Clean => OneCommand',
           Clean /\ awaits = "SAVE" => running' = running
    PROVE  IInv'
<1>1. /\ UNCHANGED <<device, awaits, sending, raw, draft, out, edits, doubts>>
      /\ saved' \in {saved, None}
  BY DEF pageVars
<1>2. TypeOK'
  BY <1>1 DEF IInv, TypeOK
<1>3. Paged' /\ Modern' = Modern /\ Clean' = Clean
  BY <1>1 DEF IInv, Paged, Modern, Clean
<1>4. Clean => Drafted'
  BY <1>1 DEF IInv, Drafted
<1>5. Told'
  BY <1>1 DEF IInv, Told
<1> QED BY <1>2, <1>3, <1>4, <1>5 DEF IInv

\* A command the pad takes is the page's.
LEMMA TakesFacts ==
    ASSUME IInv, NEW cmd \in Command, Takes(cmd)
    PROVE  /\ request \in Packet /\ request.cmd = cmd /\ request' = None
           /\ loop = "reading" /\ UNCHANGED <<stored, inbox>>
           /\ Clean => awaits = cmd /\ awaits # None /\ AtPad /\ Asks(request)
<1>1. /\ loop = "reading" /\ request # None /\ request.cmd = cmd /\ request' = None
      /\ UNCHANGED <<stored, inbox>>
  BY DEF Takes
<1>2. request \in Packet
  BY <1>1 DEF IInv, TypeOK, PadTypeOK
<1>3. Clean => AtPad /\ Asks(request) /\ awaits # None
  BY <1>1 DEF IInv, OneCommand, Nowhere, AtPage, AtPad, InSave, InReply, InPipe
<1> QED BY <1>1, <1>2, <1>3 DEF Asks

LEMMA SaysIsAnswer ==
    \A ok \in BOOLEAN, cmd \in Command :
        /\ Says(ok, cmd) \in Answer /\ Says(ok, cmd) # None
        /\ Says(ok, cmd).ok = ok /\ Says(ok, cmd).cmd = cmd
BY BlankIsRecord DEF Says, Answer

\* GET, SET and RESET are answered at once.
LEMMA QuickKeeps ==
    ASSUME IInv, PadWorks, Get \/ Set \/ Reset
    PROVE  IInv'
<1>1. PICK cmd \in {"GET", "SET", "RESET"} :
          \/ cmd = "GET" /\ Get
          \/ cmd = "SET" /\ Set
          \/ cmd = "RESET" /\ Reset
  OBVIOUS
<1>2. /\ Takes(cmd) /\ cmd \in Command
      /\ loop' = "answering" /\ reply' \in Answer \cup {None} /\ snapshot' = Blank
      /\ running' \in Config
      /\ cmd = "GET" => running' = running
                        /\ reply' = [ok |-> TRUE, cmd |-> "GET", record |-> ToBytes(running)]
      /\ cmd = "SET" => \/ reply' = Says(TRUE, "SET") /\ running' = FromBytes(request.record)
                        \/ reply' = Says(FALSE, "SET")
      /\ cmd = "RESET" => reply' = Says(TRUE, "RESET")
  <2>1. running \in Config /\ ToBytes(running) \in Record
    BY Written DEF IInv, TypeOK, PadTypeOK
  <2>2. CASE cmd = "GET" /\ Get
    BY <2>1, <2>2 DEF Get, Answers, Answer, Command
  <2>3. CASE cmd = "SET" /\ Set
    <3>1. Takes("SET") /\ "SET" \in Command
      BY <2>3 DEF Set, Command
    <3>2. request \in Packet
      BY <3>1, TakesFacts
    <3>3. FromBytes(request.record) \in Config \cup {None}
      BY <3>2, Parses DEF Packet
    <3> QED BY <2>1, <2>3, <3>1, <3>3, SaysIsAnswer DEF Set, Answers
  <2>4. CASE cmd = "RESET" /\ Reset
    <3>1. "RESET" \in Command
      BY DEF Command
    <3> QED BY <2>4, <3>1, SaysIsAnswer, BlankIsRecord DEF Reset, Answers
  <2> QED BY <1>1, <2>2, <2>3, <2>4
<1>3. /\ request \in Packet /\ request.cmd = cmd /\ request' = None
      /\ loop = "reading" /\ UNCHANGED <<stored, inbox>>
      /\ Clean => awaits = cmd /\ awaits # None /\ AtPad /\ Asks(request)
  BY <1>2, TakesFacts
<1>4. PadTypeOK'
  BY <1>2, <1>3, BlankIsRecord DEF IInv, TypeOK, PadTypeOK
<1>5. /\ UNCHANGED <<pageVars, edits, doubts>>
      /\ saved' = IF loop' = "erasing" THEN None ELSE saved
  BY DEF PadWorks
<1>6. awaits' = awaits /\ sending' = sending /\ out' = out
  BY <1>5 DEF pageVars
<1>7. ASSUME Clean PROVE OneCommand' /\ awaits # "SAVE"
  <2>1. awaits = cmd /\ awaits # None /\ AtPad /\ Asks(request)
    BY <1>3, <1>7
  <2>2. InReply'
    BY <1>2, <1>3, <1>6, <2>1 DEF AtPad, InReply
  <2>3. /\ reply' # None /\ reply'.cmd = cmd
        /\ cmd = "GET" => reply'.ok /\ reply'.record = ToBytes(running')
        /\ cmd = "SET" /\ reply'.ok => FromBytes(out') = running'
    <3>1. CASE cmd = "GET"
      <4>1. reply' = [ok |-> TRUE, cmd |-> "GET", record |-> ToBytes(running)]
        BY <1>2, <3>1
      <4>2. reply' # None
        <5>1. running \in Config /\ "GET" \in Command
          BY DEF IInv, TypeOK, PadTypeOK, Command
        <5>2. reply' \in Answer
          BY <4>1, <5>1, Written DEF Answer
        <5> QED BY <5>2
      <4> QED BY <1>2, <3>1, <4>1, <4>2
    <3>2. CASE cmd = "SET"
      <4>1. request.record = out
        BY <2>1, <3>2 DEF Asks
      <4>2. "SET" \in Command
        BY DEF Command
      <4> QED BY <1>2, <1>6, <3>2, <4>1, <4>2, SaysIsAnswer
    <3>3. CASE cmd = "RESET"
      <4>1. "RESET" \in Command
        BY DEF Command
      <4> QED BY <1>2, <3>3, <4>1, SaysIsAnswer
    <3> QED BY <3>1, <3>2, <3>3
  <2>4. Tells(reply)'
    BY <1>6, <2>1, <2>3 DEF Tells
  <2> QED BY <1>6, <2>1, <2>2, <2>3, <2>4 DEF OneCommand
<1> QED BY <1>2, <1>3, <1>4, <1>5, <1>7, PadStepKeeps

\* A save begins, on what runs now.
LEMMA SaveKeeps == ASSUME IInv, PadWorks, Save PROVE IInv'
<1>1. /\ Takes("SAVE") /\ "SAVE" \in Command /\ "SAVE" # None
      /\ snapshot' = ToBytes(running) /\ loop' = "erasing" /\ UNCHANGED <<running, reply>>
  BY DEF Save, Command
<1>2. /\ request' = None /\ UNCHANGED <<stored, inbox>>
      /\ Clean => awaits = "SAVE" /\ AtPad
  BY <1>1, TakesFacts
<1>3. running \in Config
  BY DEF IInv, TypeOK, PadTypeOK
<1>4. PadTypeOK'
  BY <1>1, <1>2, <1>3, Written DEF IInv, TypeOK, PadTypeOK
<1>5. /\ UNCHANGED <<pageVars, edits, doubts>>
      /\ saved' = IF loop' = "erasing" THEN None ELSE saved
  BY DEF PadWorks
<1>6. Clean => OneCommand'
  <2>1. FromBytes(snapshot)' = running'
    BY <1>1, <1>3, RoundTrip
  <2>2. awaits' = awaits /\ sending' = sending
    BY <1>5 DEF pageVars
  <2> QED BY <1>1, <1>2, <2>1, <2>2 DEF OneCommand, AtPad, InSave
<1> QED BY <1>1, <1>4, <1>5, <1>6, PadStepKeeps

\* A save goes on: it is the page's, and ends with what it began with.
LEMMA SavingKeeps ==
    ASSUME IInv, PadWorks, SaveFails \/ Erase \/ Write
    PROVE  IInv'
<1>1. /\ loop \in {"erasing", "writing"} /\ UNCHANGED <<running, request, inbox>>
      /\ \/ loop' = "writing" /\ UNCHANGED <<snapshot, reply>> /\ stored' = Blank
         \/ loop' = "answering" /\ snapshot' = Blank
            /\ \/ reply' = Says(FALSE, "SAVE") /\ stored' \in {Blank, stored}
               \/ reply' = Says(TRUE, "SAVE") /\ stored' = snapshot
  BY DEF SaveFails, Erase, Write, Answers
<1>2. "SAVE" \in Command /\ "SAVE" # None
  BY DEF Command
<1>3. PadTypeOK'
  BY <1>1, <1>2, SaysIsAnswer, BlankIsRecord DEF IInv, TypeOK, PadTypeOK
<1>4. /\ UNCHANGED <<pageVars, edits, doubts>>
      /\ saved' = IF loop' = "erasing" THEN None ELSE saved
  BY DEF PadWorks
<1>5. saved = None
  BY <1>1 DEF IInv, Told
<1>6. ASSUME Clean PROVE OneCommand'
  <2>1. InSave /\ awaits = "SAVE" /\ FromBytes(snapshot) = running
    BY <1>1, <1>6 DEF IInv, OneCommand, Nowhere, AtPage, AtPad, InSave, InReply, InPipe
  <2>2. awaits' = awaits /\ sending' = sending
    BY <1>4 DEF pageVars
  <2>3. CASE loop' = "writing" /\ UNCHANGED <<snapshot, reply>>
    BY <1>1, <1>2, <2>1, <2>2, <2>3 DEF OneCommand, InSave
  <2>4. CASE reply' = Says(FALSE, "SAVE") /\ loop' = "answering"
    <3>1. reply' # None /\ ~reply'.ok /\ reply'.cmd = "SAVE"
      BY <1>2, <2>4, SaysIsAnswer
    <3>2. InReply' /\ Tells(reply)'
      BY <1>1, <2>1, <2>2, <2>4, <3>1 DEF InSave, InReply, Tells
    <3> QED BY <1>2, <2>1, <2>2, <3>1, <3>2 DEF OneCommand
  <2>5. CASE reply' = Says(TRUE, "SAVE") /\ stored' = snapshot /\ loop' = "answering"
    <3>1. reply' # None /\ reply'.cmd = "SAVE"
      BY <1>2, <2>5, SaysIsAnswer
    <3>2. InReply' /\ Tells(reply)'
      BY <1>1, <2>1, <2>2, <2>5, <3>1 DEF InSave, InReply, Tells
    <3> QED BY <1>2, <2>1, <2>2, <3>1, <3>2 DEF OneCommand
  <2> QED BY <1>1, <2>3, <2>4, <2>5
<1> QED BY <1>1, <1>3, <1>4, <1>5, <1>6, PadStepKeeps

LEMMA RepliesKeeps == ASSUME IInv, PadWorks, Replies PROVE IInv'
<1>1. /\ loop = "answering" /\ inbox = None /\ inbox' = reply /\ reply' = None
      /\ loop' = "reading" /\ UNCHANGED <<stored, running, snapshot, request>>
  BY DEF Replies
<1>2. PadTypeOK'
  BY <1>1 DEF IInv, TypeOK, PadTypeOK
<1>3. /\ UNCHANGED <<pageVars, edits, doubts>>
      /\ saved' = IF loop' = "erasing" THEN None ELSE saved
  BY DEF PadWorks
<1>4. ASSUME Clean PROVE OneCommand'
  <2>1. awaits # None /\ InReply /\ reply # None /\ Tells(reply)
    BY <1>1, <1>4 DEF IInv, OneCommand, Nowhere, AtPage, AtPad, InSave, InReply, InPipe
  <2>2. awaits' = awaits /\ sending' = sending /\ out' = out
    BY <1>3 DEF pageVars
  <2>3. InPipe' /\ Tells(inbox)'
    BY <1>1, <2>1, <2>2 DEF InReply, InPipe, Tells
  <2> QED BY <2>1, <2>2, <2>3 DEF OneCommand
<1> QED BY <1>1, <1>2, <1>3, <1>4, PadStepKeeps

LEMMA PadWorksKeeps == ASSUME IInv, PadWorks PROVE IInv'
<1>1. Get \/ Set \/ Reset \/ Save \/ SaveFails \/ Erase \/ Write \/ Replies
  BY DEF PadWorks, Protocol
<1> QED BY <1>1, QuickKeeps, SaveKeeps, SavingKeeps, RepliesKeeps

------------------------------------------------------------------------------
(* All steps *)

LEMMA NextIInv == IInv /\ [Next]_vars => IInv'
<1> SUFFICES ASSUME IInv, [Next]_vars PROVE IInv'
  OBVIOUS
<1>1. CASE UNCHANGED vars
  <2>1. /\ UNCHANGED <<stored, running, loop, snapshot, reply, request, inbox>>
        /\ UNCHANGED <<device, awaits, sending, raw, draft, out>>
        /\ UNCHANGED <<edits, saved, doubts>>
    BY <1>1 DEF vars, padVars, pageVars
  <2>2. TypeOK' /\ Paged' /\ Told'
    BY <2>1 DEF IInv, TypeOK, PadTypeOK, Paged, Told
  <2>3. Clean' = Clean /\ Drafted' = Drafted /\ Modern' = Modern
    BY <2>1 DEF Clean, Drafted, Modern
  <2>4. OneCommand' = OneCommand
    BY <2>1 DEF OneCommand, Nowhere, AtPage, AtPad, InSave, InReply, InPipe, Asks, Tells
  <2> QED BY <2>2, <2>3, <2>4 DEF IInv
<1> QED BY <1>1, CommandsKeep, DisconnectKeeps, TransferOutKeeps, LoadKeeps, AppliedKeeps,
           SavedKeeps, WasResetKeeps, TransferFailsKeeps, UserKeeps, ClosePageKeeps, WorldKeeps,
           PadWorksKeeps
        DEF Next, Answered

\* The invariant of every behaviour, fair or not.
THEOREM Invariance == Spec => []IInv
BY InitIInv, NextIInv, PTL DEF Spec

\* TypeOK: the page and the pad keep to their types, whatever records are found,
\* imported or sent.
THEOREM TypeCorrect == Spec => []TypeOK
<1>1. IInv => TypeOK
  BY DEF IInv
<1> QED BY <1>1, Invariance, PTL

\* SavedSurvives: what the user was told is saved runs after a power loss.
THEOREM SavingIsDurable == Spec => SavedSurvives
<1>1. IInv /\ [Next]_vars => [PowerLoss /\ saved # None => running' = saved]_vars
  <2> SUFFICES ASSUME IInv, PowerLoss, saved # None PROVE running' = saved
    OBVIOUS
  <2>1. loop # "erasing" /\ FromBytes(stored) = saved
    BY DEF IInv, Told
  <2>2. running' = Loaded(stored)
    BY <2>1 DEF PowerLoss, PadRestarts
  <2> QED BY <2>1, <2>2 DEF Loaded
<1> QED BY <1>1, Invariance, PTL DEF Spec, SavedSurvives

\* KnownIsRunning: what the page takes for the pad's state, without reason to doubt it,
\* is what the pad runs.
THEOREM KnowledgeIsTrue == Spec => KnownIsRunning
<1>1. IInv /\ [Next]_vars =>
        [awaits # None /\ device' /\ raw' # raw /\ doubts' = {} => Fields(raw') = running']_vars
  <2> SUFFICES ASSUME IInv, [Next]_vars, awaits # None, device', raw' # raw, doubts' = {}
               PROVE  Fields(raw') = running'
    OBVIOUS
  <2>1. Load \/ Saved
    BY DEF Next, vars, pageVars, Connect, Reload, Disconnect, SaveToFlash, Defaults,
           TransferOut, TransferFails, Answered, Applied, WasReset, Assign, ChangeSetting,
           ImportRaw, Edited,
           ClosePage, Unplug, PowerLoss, Gone, PadWorks
  <2>2. running \in Config /\ draft \in Record
    BY DEF IInv, TypeOK, PadTypeOK
  <2>3. CASE Load
    <3>1. Receives("GET") /\ "stale" \notin doubts
      BY <2>3 DEF Load
    <3>2. awaits = "GET" /\ Clean /\ Tells(inbox) /\ running' = running
      BY <3>1, ReceivesFacts DEF Command, Clean
    <3>3. raw' = Upgrade(ToBytes(running))
      BY <2>3, <3>2 DEF Load, Tells
    <3> QED BY <2>2, <3>2, <3>3, Upgraded, Written
  <2>4. CASE Saved
    <3>1. Receives("SAVE") /\ doubts = {} /\ raw' = draft /\ Fits("SAVE")
      BY <2>4 DEF Saved
    <3>2. awaits = "SAVE" /\ Clean /\ device /\ running' = running
      BY <3>1, ReceivesFacts DEF Command, Clean
    <3>3. FromBytes(draft) = running /\ draft.version >= VERSION
      BY <3>1, <3>2 DEF IInv, Drafted, Modern
    <3> QED BY <2>2, <3>1, <3>2, <3>3, Parses
  <2> QED BY <2>1, <2>3, <2>4
<1> QED BY <1>1, Invariance, PTL DEF Spec, KnownIsRunning
==============================================================================
