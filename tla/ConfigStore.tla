----------------------------- MODULE ConfigStore -----------------------------
(***************************************************************************)
(* The pad's side of the configuration: CONFIG, the flash sector it is     *)
(* saved to, and protocol_loop on the vendor bulk pipe, which takes one    *)
(* command at a time and may be reset or lose its power at any point.      *)
(***************************************************************************)
EXTENDS ConfigRecord

CONSTANT Happens    \* what this instance lets happen, see the actions

VARIABLES
    stored,    \* the config sector: what its bytes parse to is FromBytes(stored)
    running,   \* CONFIG
    loop,      \* where protocol_loop is
    snapshot,  \* the record being saved, Blank if none is
    reply,     \* the answer it is about to write, or None
    request,   \* the packet in the OUT endpoint's buffer, or None
    inbox      \* the answer in the IN endpoint's buffer, or None

padVars == <<stored, running, loop, snapshot, reply, request, inbox>>

Command == {"GET", "SET", "SAVE", "RESET"}
Packet  == [cmd : Command, record : Record]

\* An answer echoes its command; a configuration comes without, as the record only.
Answer  == [ok : BOOLEAN, cmd : Command, record : Record]

ASSUME NoneAssumption == None \notin Command \cup Packet \cup Answer

\* What an erased or a half-written sector reads as: no checksum fits.
Blank == [magic |-> FALSE, version |-> 0, sum |-> FALSE, keymap |-> DEFAULT_KEYMAP,
          mask |-> NO_MASK, colors |-> DEFAULT_SLOT_COLORS]

PadTypeOK ==
    /\ stored \in Record
    /\ running \in Config
    /\ loop \in {"reading", "erasing", "writing", "answering"}
    /\ snapshot \in Record
    /\ reply \in Answer \cup {None}
    /\ request \in Packet \cup {None}
    /\ inbox \in Answer \cup {None}

Says(ok, cmd) == [ok |-> ok, cmd |-> cmd, record |-> Blank]

\* Mutant of Loaded: a sector that does not parse is not told from one that does.
LoadedUnchecked(sector) == FromBytes(sector)

\* main: what load finds, or the defaults.
Loaded(sector) == IF FromBytes(sector) = None THEN Default ELSE FromBytes(sector)

Started ==
    /\ running = Loaded(stored)
    /\ loop = "reading"
    /\ snapshot = Blank
    /\ reply = None
    /\ request = None
    /\ inbox = None

------------------------------------------------------------------------------
(* protocol_loop *)

Takes(cmd) ==
    /\ loop = "reading"
    /\ request # None
    /\ request.cmd = cmd
    /\ request' = None
    /\ UNCHANGED <<stored, inbox>>

Answers(answer) ==
    /\ loop' = "answering"
    /\ reply' = answer
    /\ snapshot' = Blank

Get ==
    /\ Takes("GET")
    /\ Answers([ok |-> TRUE, cmd |-> "GET", record |-> ToBytes(running)])
    /\ UNCHANGED running

\* Mutant of Set: a record that does not parse is not answered.
SetUnanswered ==
    /\ Takes("SET")
    /\ IF FromBytes(request.record) # None
       THEN running' = FromBytes(request.record) /\ Answers(Says(TRUE, "SET"))
       ELSE UNCHANGED <<running, loop, snapshot, reply>>

Set ==
    /\ Takes("SET")
    /\ IF FromBytes(request.record) # None
       THEN running' = FromBytes(request.record) /\ Answers(Says(TRUE, "SET"))
       ELSE UNCHANGED running /\ Answers(Says(FALSE, "SET"))

Reset ==
    /\ Takes("RESET")
    /\ running' = Default
    /\ Answers(Says(TRUE, "RESET"))

\* config_store::save: the record is made, then the sector erased, then written.
Save ==
    /\ Takes("SAVE")
    /\ snapshot' = ToBytes(running)
    /\ loop' = "erasing"
    /\ UNCHANGED <<running, reply>>

\* Mutant of SaveFails: the error is not looked at.
SaveFailsUnseen ==
    /\ loop \in {"erasing", "writing"}
    /\ "saves fail" \in Happens
    /\ stored' = Blank
    /\ Answers(Says(TRUE, "SAVE"))
    /\ UNCHANGED <<running, request, inbox>>

\* An erase that fails may have left the sector as it was.
SaveFails ==
    /\ loop \in {"erasing", "writing"}
    /\ "saves fail" \in Happens
    /\ stored' \in {Blank} \cup (IF loop = "erasing" THEN {stored} ELSE {})
    /\ Answers(Says(FALSE, "SAVE"))
    /\ UNCHANGED <<running, request, inbox>>

Erase ==
    /\ loop = "erasing"
    /\ stored' = Blank
    /\ loop' = "writing"
    /\ UNCHANGED <<running, snapshot, reply, request, inbox>>

Write ==
    /\ loop = "writing"
    /\ stored' = snapshot
    /\ Answers(Says(TRUE, "SAVE"))
    /\ UNCHANGED <<running, request, inbox>>

\* The write to the IN endpoint waits until its buffer is free.
Replies ==
    /\ loop = "answering"
    /\ inbox = None
    /\ inbox' = reply
    /\ reply' = None
    /\ loop' = "reading"
    /\ UNCHANGED <<stored, running, snapshot, request>>

Protocol == Get \/ Set \/ Reset \/ Save \/ SaveFails \/ Erase \/ Write \/ Replies

------------------------------------------------------------------------------
(* The world *)

\* The bus is reset or unplugged: reads and writes fail, a save goes on.
PipeResets ==
    /\ request' = None
    /\ inbox' = None
    /\ reply' = None
    /\ loop' = IF loop = "answering" THEN "reading" ELSE loop
    /\ UNCHANGED <<stored, running, snapshot>>

\* Power is lost, at the worst in the middle of an erase or a write; the next boot.
PadRestarts ==
    /\ stored' \in {stored} \cup (IF loop = "erasing" THEN {Blank} ELSE {})
    /\ running' = Loaded(stored')
    /\ loop' = "reading"
    /\ snapshot' = Blank
    /\ reply' = None
    /\ request' = None
    /\ inbox' = None
==============================================================================
