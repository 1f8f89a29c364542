------------------------------ MODULE WebEditor ------------------------------
(***************************************************************************)
(* The configuration editor of src/web/app.js against the pad: commands    *)
(* are promises that wait for answers, while the page stays editable, may  *)
(* be closed, and the pad may go away.                                     *)
(***************************************************************************)
EXTENDS ConfigStore

CONSTANTS
    Found,       \* the records flash may hold at first
    Profiles,    \* the records of profile files with raw bytes only
    MaxEdits     \* bound: edits of the draft

VARIABLES
    device,    \* whether the page has the pad open
    awaits,    \* the command whose answer the page waits for, or None
    sending,   \* its packet while transferOut is under way, or None
    raw,       \* last state read from or written to the device
    draft,     \* the working copy
    out,       \* applyConfig's copy of the draft, Blank outside of it
    edits,     \* history: edits of the draft,
    saved,     \* what the user was last told is saved,
    doubts     \* and why the page may not know the pad

pageVars == <<device, awaits, sending, raw, draft, out>>
vars     == <<padVars, pageVars, edits, saved, doubts>>

\* "stale": the pipe may yield an answer to a command that ended without, of this page
\* or an earlier one, or to a SAVE that was going on when the pad was last unplugged.
\* "edited": the draft was edited while a command ran.  "old": a record of an older
\* version was imported.
Doubt == {"stale", "edited", "old"}

TypeOK ==
    /\ PadTypeOK
    /\ device \in BOOLEAN
    /\ awaits \in Command \cup {None}
    /\ sending \in Packet \cup {None}
    /\ raw \in Record
    /\ draft \in Record
    /\ out \in Record
    /\ edits \in 0 .. MaxEdits
    /\ saved \in Config \cup {None}
    /\ doubts \subseteq Doubt

ASSUME FoundAssumption == Found \subseteq Record /\ Profiles \subseteq Record
ASSUME BoundAssumption == MaxEdits \in Nat

Init ==
    /\ stored \in Found
    /\ Started
    /\ device = FALSE
    /\ awaits = None
    /\ sending = None
    /\ raw = ToBytes(Default)
    /\ draft = ToBytes(Default)
    /\ out = Blank
    /\ edits = 0
    /\ saved = None
    /\ doubts = {}

------------------------------------------------------------------------------
(* Commands *)

\* send, and its caller going on to recvResponse.
Sends(cmd, record) ==
    /\ sending' = [cmd |-> cmd, record |-> record]
    /\ awaits' = cmd

\* The transfer completes once the pad has room for it.
TransferOut ==
    /\ sending # None
    /\ request = None
    /\ request' = sending
    /\ sending' = None
    /\ UNCHANGED <<stored, running, loop, snapshot, reply, inbox>>
    /\ UNCHANGED <<device, awaits, raw, draft, out, edits, saved, doubts>>

Idle == device /\ awaits = None

\* withBusy lets one command run at a time.  connect ends with loadConfig.
Connect ==
    /\ ~device /\ awaits = None
    /\ device' = TRUE
    /\ Sends("GET", Blank)
    /\ UNCHANGED <<padVars, raw, draft, out, edits, saved, doubts>>

Reload ==
    /\ Idle
    /\ Sends("GET", Blank)
    /\ UNCHANGED <<padVars, device, raw, draft, out, edits, saved, doubts>>

\* The page lets the pad go and keeps what it shows.
Disconnect ==
    /\ Idle
    /\ device' = FALSE
    /\ UNCHANGED <<padVars, awaits, sending, raw, draft, out, edits, saved, doubts>>

\* applyConfig: the draft with its checksum.
SaveToFlash ==
    /\ Idle
    /\ out' = [draft EXCEPT !.sum = TRUE]
    /\ Sends("SET", out')
    /\ UNCHANGED <<padVars, device, raw, draft, edits, saved, doubts>>

Defaults ==
    /\ Idle
    /\ Sends("RESET", Blank)
    /\ UNCHANGED <<padVars, device, raw, draft, out, edits, saved, doubts>>

Ends == awaits' = None /\ UNCHANGED sending

\* recvResponse, with the command its caller expects.
Receives(cmd) ==
    /\ awaits = cmd
    /\ sending = None
    /\ inbox # None
    /\ inbox' = None
    /\ UNCHANGED <<stored, running, loop, snapshot, reply, request, device>>

Fits(cmd) == inbox.ok /\ inbox.cmd = cmd

\* loadConfig takes any answer for a record that says OK; loadDraftFrom.
Load ==
    /\ Receives("GET")
    /\ Ends
    /\ IF inbox.ok
       THEN /\ raw' = Upgrade(inbox.record)
            /\ draft' = raw'
            /\ doubts' = doubts \ {"edited", "old"}
       ELSE UNCHANGED <<raw, draft, doubts>>
    /\ UNCHANGED <<out, edits, saved>>

\* Mutant of Applied: only the echo is looked at, not the status.
AppliedAnyhow ==
    /\ Receives("SET")
    /\ IF inbox.cmd = "SET"
       THEN draft' = out /\ Sends("SAVE", Blank)
       ELSE UNCHANGED draft /\ Ends
    /\ out' = Blank
    /\ UNCHANGED <<raw, edits, saved, doubts>>

\* The rest of applyConfig, and saveConfig going on.
Applied ==
    /\ Receives("SET")
    /\ IF Fits("SET")
       THEN draft' = out /\ Sends("SAVE", Blank)
       ELSE UNCHANGED draft /\ Ends
    /\ out' = Blank
    /\ UNCHANGED <<raw, edits, saved, doubts>>

Saved ==
    /\ Receives("SAVE")
    /\ Ends
    /\ IF Fits("SAVE")
       THEN /\ raw' = draft
            /\ saved' = IF doubts = {} THEN Fields(draft) ELSE None
       ELSE UNCHANGED <<raw, saved>>
    /\ UNCHANGED <<draft, out, edits, doubts>>

WasReset ==
    /\ Receives("RESET")
    /\ IF Fits("RESET") THEN Sends("GET", Blank) ELSE Ends
    /\ UNCHANGED <<raw, draft, out, edits, saved, doubts>>

\* A transfer is rejected, or comes back with a status other than "ok", while the page
\* keeps the pad: the command ends, with its answer lost or still to come.
TransferFails ==
    /\ "transfers fail" \in Happens
    /\ awaits # None
    /\ awaits' = None
    /\ sending' = None
    /\ out' = Blank
    /\ inbox' \in {inbox} \cup (IF sending = None THEN {None} ELSE {})
    /\ doubts' = doubts \cup {"stale"}
    /\ UNCHANGED <<stored, running, loop, snapshot, reply, request>>
    /\ UNCHANGED <<device, raw, draft, edits, saved>>

Answered == Load \/ Applied \/ Saved \/ WasReset

------------------------------------------------------------------------------
(* The user *)

\* assign (usage and page at once), a preset, a slider or a colour.  The pad's keys
\* stay assignable while a command runs; the settings do not.
Edited(next) ==
    /\ edits < MaxEdits
    /\ edits' = edits + 1
    /\ draft' = next
    /\ draft' # draft
    /\ UNCHANGED <<padVars, device, awaits, sending, raw, out, saved>>

Assign ==
    /\ awaits = None \/ "busy edits" \in Happens
    /\ \E k \in Keymap, m \in Mask : Edited([draft EXCEPT !.keymap = k, !.mask = m])
    /\ doubts' = IF awaits = None THEN doubts ELSE doubts \cup {"edited"}

ChangeSetting ==
    /\ Idle
    /\ \E c \in Colors : Edited([draft EXCEPT !.colors = c])
    /\ UNCHANGED doubts

\* importJson of a profile with raw bytes only, which are taken as they are.
ImportRaw ==
    /\ Idle
    /\ \E r \in Profiles :
          /\ Edited(r)
          /\ doubts' = IF r.version < VERSION THEN doubts \cup {"old"} ELSE doubts

\* A page closed with a command under way leaves its answer behind.
ClosePage ==
    /\ doubts' = (doubts \cap {"stale"}) \cup (IF awaits = None THEN {} ELSE {"stale"})
    /\ device' = FALSE
    /\ awaits' = None
    /\ sending' = None
    /\ raw' = ToBytes(Default)
    /\ draft' = ToBytes(Default)
    /\ out' = Blank
    /\ UNCHANGED <<padVars, edits, saved>>

------------------------------------------------------------------------------
(* The pad *)

\* onDeviceGone: the promise rejects; the page keeps what it knew.
Gone ==
    /\ device' = FALSE
    /\ awaits' = None
    /\ sending' = None
    /\ out' = Blank
    /\ UNCHANGED <<raw, draft, edits, saved>>

Unplug ==
    /\ PipeResets
    /\ Gone
    /\ doubts' = (doubts \ {"stale"}) \cup (IF loop' = "reading" THEN {} ELSE {"stale"})

PowerLoss ==
    /\ PadRestarts
    /\ Gone
    /\ doubts' = doubts \ {"stale"}

\* The user was told; saving again takes that back.
PadWorks ==
    /\ Protocol
    /\ saved' = IF loop' = "erasing" THEN None ELSE saved
    /\ UNCHANGED <<pageVars, edits, doubts>>

------------------------------------------------------------------------------

Next ==
    \/ Connect \/ Reload \/ Disconnect \/ SaveToFlash \/ Defaults
    \/ TransferOut \/ Answered \/ TransferFails
    \/ Assign \/ ChangeSetting \/ ImportRaw
    \/ ClosePage
    \/ Unplug \/ PowerLoss
    \/ PadWorks

\* The pad's task runs, and transfers come through while the pad is there.
Spec == Init /\ [][Next]_vars /\ WF_vars(PadWorks) /\ WF_vars(TransferOut) /\ WF_vars(Answered)

------------------------------------------------------------------------------

(* What the user was told is saved is what runs after the next power loss,  *)
(* until another save begins: README "Wait for Saved to flash. before       *)
(* unplugging".                                                             *)
SavedSurvives ==
    [][PowerLoss /\ saved # None => running' = saved]_vars

(* When a command ends and the page takes something for the pad's state, it *)
(* is what the pad runs, unless there was a reason to doubt it.             *)
KnownIsRunning ==
    [][awaits # None /\ device' /\ raw' # raw /\ doubts' = {} => Fields(raw') = running']_vars

(* `raw` is the "last state read from / written to the device" (app.js 182):*)
(* the same, though keys were assigned while the command ran.               *)
RawIsTheDevices ==
    [][awaits # None /\ device' /\ raw' # raw /\ doubts' \subseteq {"edited"}
          => Fields(raw') = running']_vars

(* Every command of the page ends, whatever the pad answers, unless there   *)
(* was no place left to send it to: the pad has an answer in its endpoint   *)
(* that nobody read, works on a second command and has a third in its       *)
(* buffer, all of them commands that ended without their answers.           *)
Full == inbox # None /\ loop # "reading" /\ request # None
CommandEnds ==
    awaits # None /\ ~(sending # None /\ Full /\ "stale" \in doubts) ~> awaits = None
==============================================================================
