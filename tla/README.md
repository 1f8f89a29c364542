# TLA+ models of the pico-numpad firmware

A verification development kept beside the firmware of a 16-key numpad that types
over USB and Bluetooth LE. The modules are translated from the Rust sources; where a
definition comes from is recorded line by line in `PROJECT.json` ("map").

    tlc -workers 2 -config MCHostStore.cfg MCHostStore     # model-check a component
    tlapm HostStoreProofs.tla                              # check the proofs about it

## 1. The system

One embassy executor on one core runs a handful of tasks. **`main`** joins two of
them: the *keypad/BLE task* (`ble::run`, or `ble::recover` when the host slots cannot
be loaded) and the *USB task* (`usb::run_usb`, itself a join of the device, the
configuration protocol and one writer loop per HID interface). A task runs until it
awaits something that is not ready, so a step of a model ends at such an await.
Tasks meet in four shared things only: the atomics `CONFIGURED`, `SUSPENDED` and
`GENERATION`; the stamped reports `KEY_REPORT` and `CONSUMER_REPORT`; the `CONFIG`
record; and the flash, behind a mutex.

| Component | Source | State | Operations | Correct when |
|---|---|---|---|---|
| Host slots and their storage | `host_slots.rs`, `config_store.rs`, callers in `ble.rs` | active slot, a bond per slot, in RAM and in a flash journal; a legacy bond region | load (with migration), save, reset; purge, commit, clear lost bond, menu action | flash is one atomic registry; RAM agrees with it; a link only runs on a bond that is strong and its own; nothing erased comes back |
| Link-power policy | `power.rs`, driven by `ble.rs` | observed profile, open request, time of the last one, a refusal ledger per direction | `update`, `observe`, `refused` | believes what the host did, wakes at once, stops asking a host that refuses, each direction for itself |
| Key delivery | `routing.rs`, `usb.rs`, `flush` and `poll` in `ble.rs` | router's destination and blocked keys, stamped reports, writers' and flush's memory | poll, publish, USB write, BLE notify, bus events, link events | no key sticks, no key held for one host is typed on another, nothing old is replayed |
| Gesture controls | `host_slots.rs` | one of eight states and when it was entered | `update`, `next_deadline` | a menu gesture types nothing; a tap is typed and taken back; clearing needs a full hold |
| BLE session, pairing security | `ble.rs` | the connection, its bondability, its queue of events; the stack's and the hosts' bonds | the events of `connection_task`, accept, the menu | only links at the security floor, resting on the stored bond; every exit leaves the pad in a clean state |
| Passkey entry | `passkey.rs` | digits, previous mask, deadline, pending outcome | `begin`, `update`, `take_outcome`, `end` | six digits the user meant, nothing held over, an end in time |
| Debouncer, keypad driver | `debounce.rs`, `keypad.rs` | stable and candidate masks, a time per key | `update`, `next_settle`, `wait_change` | every press and release is seen, once |
| Recovery mode | `recovery.rs`, `ble::recover` | gesture candidate, draining flag | retry, reset | no reset without the full gesture, none repeated |
| Configuration record and store | `config.rs`, `config_store.rs` | `CONFIG` in RAM, the sector in flash | `from_bytes`, `to_bytes`, load, save | what was saved is loaded, whatever version it is of |
| Configuration protocol and web editor | `usb.rs`, `web/app.js` | the pipe's buffers; the page's `raw` and `draft` | GET, SET, SAVE, RESET | request and answer match; what the page says of the pad is so |
| HID reports | `hid.rs` | none | `build_reports` | every pressed key that fits is reported, on its page |
| Advertising, LEDs, boot, tools | `ble.rs`, `backlight.rs`, `main.rs`, `tools/` | cycle counter, last frame | output only | |

How they interact. Every poll of the keypad feeds, in one step, the debouncer, the
gesture controls, the router and the USB report; then the same task pushes the BLE
half of the reports, the passkey outcome and the link policy. The USB task picks up
the stamped report on its own 5 ms timer. Bus events change the destination behind
the poll's back. A menu gesture ends the connection, saves the slots and reboots.
A connection's events change the slots (pairing, lost bond), start and end passkey
entry, and tell the policy what the link became.

What is hard: the destination changes between polls; reports are lost; the host
answers a request late, differently or not at all; power is lost between two flash
operations; saves fail on the way between RAM and flash; a gesture, an entry or the
policy outlives the connection it belongs to; and `select` drops a future that has
half done its work. Each such place is a row of "hazards" in `PROJECT.json`, with
the properties that would catch it going wrong.

## 2. The modules

| Module | Stands for | Notes |
|---|---|---|
| `HostSlots` | the `Slots` record and its operations | shared data; a bond is its peer and its level |
| `SlotRegistry` | *abstract*: what slot storage promises | one variable that changes atomically; implemented by `HostStore` and, for one slot, by `BleSession` |
| `HostStore` | storage, boot, recovery and every caller that changes a slot | refines `SlotRegistry` |
| `RecoveryStore` | the loop of `recover` and its gestures | extends and implements `HostStore` |
| `MCHostStore` | instance for TLC (of `RecoveryStore`) | |
| `HostStoreProofs`, `RecoveryStoreProofs` | invariants and the refinements, for all constants | |
| `LinkPower` | `power.rs` with `connection_task` and a host | time in units, profiles instead of parameters |
| `LinkParams` | the arithmetic that gives a link its profile | no variables; `LinkPower` extends it |
| `MCLinkPower`, `LinkPowerProofs` | instances; results about both for all constants | |
| `Controls` | `Controls::update` as a function | no variables of its own |
| `KeyDelivery` | poll, router, USB writer, BLE flush, both hosts | extends `Controls` |
| `MCKeyDelivery`, `MCKeyStuck`, `KeyDeliveryProofs` | instances; the second presses one key per behaviour; results for all constants | |
| `PadLoop` | debouncer, interrupt, sleep budget, controls in time, and the two loops that poll | extends `Controls` |
| `MCPadLoop`, `PadLoopProofs` | instances; results for all constants | |
| `PasskeyEntry` | the accumulator of `passkey.rs` as functions | no variables |
| `BleSession` | a connection from accept to end: stack, events, polls, entry, bonds | extends `PasskeyEntry`; refines `SlotRegistry` |
| `MCBleSession`, `BleSessionProofs` | instance; results for all constants | |
| `ConfigRecord` | the record, its versions, `to_bytes` and `from_bytes` | no variables |
| `ConfigStore` | `CONFIG`, the sector, `protocol_loop` and the bulk pipe | extends `ConfigRecord` |
| `WebEditor` | the page of `app.js` as the client of that | extends `ConfigStore` |
| `HidReports`, `HidReportsProofs` | `build_reports` and what its reports are to contain; that they do, for all constants | no variables |
| `MCWebEditor`, `WebEditorProofs` | instance of `WebEditor` and `HidReports`; results about records and the editor for all constants | |

How they compose. `RecoveryStore` is `HostStore` with a driver for its recovery mode: each of its
steps is a step of `HostStore` (proved), so everything said of the store holds of it. `WebEditor` is
`ConfigStore` with its client. `KeyDelivery`, `PadLoop` and `BleSession` are three views of the one task
that polls, each exact where the others are coarse: what is typed where, when polls happen, and
what a connection's events do between them. `HostStore` keeps of a connection only the bond it
runs on; `BleSession` keeps of storage only what the active slot holds, which `HostStore`'s
refinement of `SlotRegistry` justifies, and implements that registry itself, for a pad with one slot.

Definitions keep the names of the functions they model. A definition named after
another one with a suffix (`CountLate`, `RouteUnblocked`, ...) and commented
"Mutant" is a plausible bug used to show that a property can fail; no specification
uses it.

### HostStore

Flash is `legacy` and `journal`; RAM is `hosts`; `session` is the connection being
served and `mode` what the firmware is doing. A save that returns `true` changes
the journal and, as its callers do, `hosts` in one step, for nothing can be observed
between them except a power loss, which forgets `hosts` anyway. A save that fails
leaves the journal alone and takes the caller's error path. A reset is three steps
(`EraseLegacy`, `EraseJournal`, `SaveEmpty`), each of which may fail or lose power;
an interrupted erase leaves the old contents, nothing, or something unreadable.
`PowerLoss` may happen at any step. `MediaFault` lets stored bytes go bad.

`SlotRegistry` has no RAM copy, no journal, no legacy region. Its variable is mapped
to `StoredHosts`, what `load_hosts` would find now, and `up` to "the pad runs". That
every step of `HostStore` is a step or a stutter of it says, among other things, that
migration is invisible, that an interrupted reset does nothing, everything, or leaves
storage unreadable, and that no erased bond returns.

Assumptions (external code): `sequential-storage` stores a record atomically, and a
failed store leaves the former record; `trouble-host` hands out no bond on a
connection that is not bondable, and none of another peer.

`RecoveryStore` adds the loop of `recover`. A poll (`RecoverPoll`) updates the gesture recogniser and, in the
same step, begins what it recognised: a retry, or a reset, whose erases keep the loop from
polling until they are done. A poll whose read fails (`RecoverPollFails`) is skipped, and time goes on.
`candidate` and `since` are `recovery::Controls`; `down`, `held`
and `rested` watch the keys for the property and never guard anything. A boot that fails enters
recovery with fresh controls. `recover` calls `update` with the debounced keys every 5 ms, so time
between polls is one unit or none. An unbroken hold is one that no successful read interrupts.

### LinkPower and LinkParams

`applied`, `inFlight`, `age` and `ledger` are `Policy`; `age` is `now - last_request`,
counted up to the cooldown, beyond which the code cannot tell the difference. `Poll`
is `drive_link_power` with all of `update`, including the immediate rejection;
`Observe` is `note_link`. The host decides each pending request: grant it, settle on
something else, drop it silently (the stack returns `Ok` for that), reject it, or move
the link unasked (`HostMoves` says which of these a host does). Updates reach the task through a queue.
Which profile a link has is `LinkParams`: the request in microseconds, the interval read back
in units of 1.25 ms, the product in milliseconds and the threshold, in the widths of the code. `Tick` demands a poll since the last one: the loop polls at least
every `SAFETY_POLL_MS`, one second, and a unit is 2.5 s. A connection starts at
parameters the pad is not told of.

### Controls and KeyDelivery

`Controls` is `Controls::update` with the time spent in the state as an argument; in
`KeyDelivery` a poll finds any time in `Elapsed`, which is more than time would allow
and so covers every schedule of polls. Progress percentages are left out.

`KeyDelivery` has one action for `KeypadUi::poll` up to the published USB report
(locks are never contended between its awaits, as tasks hold them only over
synchronous code), then the BLE `flush` as a step of its own, since events of other
tasks fall between them. `keyboard_loop` is a step that decides and a step in which
the host takes the report, or not. The generation counter is modelled by its effect: a
report is `current` or not, and a writer forgets what it wrote. Reports are the sets of
keys they show; the consumer report takes the same path with the same discipline and is
not modelled a second time. `destination` is where input should go now; `router` knows
only what it saw at polls. `carried`, `handover` and `touched` are histories for the
properties and never guard anything.

Assumptions: a USB write still in flight when the generation changes is not taken by
the host; a write that timed out and a notification that was reported as failed are not delivered later
(`NoStuckUsbKey` and `NoStuckBleKey` rest on this: the retry is then the last thing the host gets); losing the link
and its `Disconnected` event are one step.
`PollAction` covers an action that changes nothing, one whose save fails and one that
is lost when the advertising loop cancels the poll; `PollRestart` is the saved one.

### PadLoop

`KeyDelivery` lets a poll come at any time; `PadLoop` says when it does. A poll reads the
expander's registers (`Read`, which releases the interrupt line and is awaited), samples what was
read, debounces it and updates the controls (`Poll`, up to the await on the LED write), then
`Finish` sleeps again, or `Apply`/`Restart` carry the found action out. `Sleep` takes the minimum of `SAFETY_POLL`, the controls' `next_deadline` and the debouncer's
`next_settle`; a key that moves (`Move`) ends the sleep through the interrupt line, which is
low for as long as the keys differ from the last read (`seen`), sampled or not. All of the code's timestamps are kept
as time since: `age` for the controls, `settling` for the debouncer, `timer` for the sleep. While
advertising, the scan's timer and an incoming connection drop the poll wherever it is
(`Rescan`, `Accept`), be it between `Read` and `Poll`, and `found` with it. The next scan polls
at once, but a connection begins with a sleep, and a change that was read and not sampled waits
for the end of that: `dropped` is a history of the keys this happened to. While connected, `Event` ends the sleep without
a poll and the next sleep starts over. `Happens` names what an instance allows: `"link"`
(connections), `"flaky line"` (an edge may be missed, a low level misread), `"read errors"`
(the expander does not answer). `MaxLag` is how late a poll or a sleep may start, as when
the loop is in `flash` or a GATT reply. `still`, the time since a key last moved, is a
history for the properties and, as a bound, lets a key move once per unit. The expander is not reset
with the pad: `seen` outlives a `Restart`.

Passkey entry, which keeps polls from the controls, and the LED idle deadline, which only shortens
a sleep, are left out.

### PasskeyEntry and BleSession

`PasskeyEntry` is `passkey.rs` with digits as the keys they are printed on and the deadline as time left;
an outcome that was not taken yet is a field of the entry, as in the code. `BleSession` puts it between the
events of a connection and the polls. `slot` is the stored bond, in flash and RAM alike; `known` is the
stack's list, `keyed` what the hosts hold; the three come apart and the properties are about that. The
actions of `Outside` are the stack's and the hosts' (`trouble-host`, external): they change the link at
once and queue an event, which the pad handles when it gets to it: `connection_task` is in its
`select` (`at = "serve"`), in a poll (`"poll"`), or has returned (`"scan"`). An event is one action that does all its
handler does: ending the entry, starting the controls over, saving, leaving. Leaving drops the events
that were not handled. `MenuAction` is a gesture found in a poll or a scan: choosing the slot that is
already active drops the link and changes nothing else; clearing it restarts the radio, like `PowerLoss`:
`at = "off"` until `Boot` brings the stack up with the stored bond.
`Controls` is reduced to `draining`; what its states type is `KeyDelivery`'s business.

`purge_weak_bond` removes a weak bond of older firmware from the slot before accepting, but not from
the stack's list, so a host can still encrypt with it: `Encrypts("weak")`, and `Encrypted` refuses it.
A pairing may leave no bond (`Pairs`), also on a link that is bondable: `commit_bond` then has nothing to store,
and the link is served on its empty slot (`Bonded`). `unstored` and `unread` mark the two situations the properties except (see section 3); `entered` follows
the keys of an entry. Failing HCI calls that only end an attempt (advertise, `set_bondable`, attach) leave
no state behind and are left out.

### ConfigRecord, ConfigStore, WebEditor, HidReports

A record is its version, whether its magic and checksum fit, and three opaque fields, one per version that
added it. `Blank` is what an erased or half-written sector reads as. `ConfigStore` has one action per command of
`protocol_loop`, up to its answer; a save is `Save` (the snapshot), `Erase` and `Write`, between which power may
be lost or the flash fail. The bulk pipe holds one packet each way.

`WebEditor` is the page: a command is a transfer out, then a wait for the next answer, without a timeout. Its
continuation depends on which command was awaited (`Load`, `Applied`, `Saved`, `WasReset`). `withBusy` keeps
commands apart, but not key assignments from commands (`"busy edits"`). The page may be closed with an answer
outstanding, any number of times, a transfer may fail and end its command with the pad still there
(`TransferFails`), the pad be unplugged, the power lost. `doubts` name the reasons for which the page may be wrong about
the pad: an answer that may be about to a command that ended without it, its page closed or its transfer
failed (`"stale"`, until the pad restarts or is unplugged with no command in work), an edit during a command (`"edited"`), a raw
import of an older version, whose missing fields the page fills with what the file happens to hold and the
pad with defaults (`"old"`). `saved` is what the user was told.

`HidReports` builds the reports key by key as the code does, and states separately what they are to
contain; `ReportsExact` compares the two for every layout, consumer mask and set of pressed keys. A layout is the
keys 1 .. `KEYS`, of which there are 16 in the code, and `room` is the six slots.

## 3. What the runs check

| Run | Configuration | States | Shows |
|---|---|---|---|
| `host_store` | `MCHostStore.cfg` | 333 thousand | `TypeOK`, `RamMatchesFlash`, `SessionFitsSlot`, `ImplementsRegistry`; `ResetIsMeant`: bonds are erased only after a full hold of exactly the reset keys, begun after a moment with no key down |
| `link_power` | `MCLinkPower.cfg` | 337 thousand | `TypeOK`, `LedgerExact`, `NoRedundantRequest`, `AppliedIsTheLink`, `WakesPromptly`, `GivenUpForGood` with a host that may do anything; `RequestsCease`: one that moves the link no more is left alone; `WishIsMet`: a lasting wish is met by one that obliges; `ProfilesAreExact`: rounding and width change no link's profile |
| `key_delivery` | `MCKeyDelivery.cfg` | 1 million | `TypeOK`; `MenuTypesNothing`: from the opened menu to the poll that finds every key released nothing is typed; `SeenHandoverReleases`, `NoReplay` |
| `key_stuck` | `MCKeyStuck.cfg` | 27 thousand | `NoStuckUsbKey`, `NoStuckBleKey` for an ordinary key and for `+`, which is typed after its release |
| `pad_loop` | `MCPadLoop.cfg` | 430 thousand | `TypeOK`; `SeenInTime`: a change that lasts is known when it has settled, unless a connection took its sample away; `TimersKept`, `BouncesIgnored`; with a working line and a punctual loop, links coming and going |
| `pad_faulty` | `MCPadLoop_faulty.cfg` | 313 thousand | `PadSettles` though interrupts are lost, reads fail and polls are late |
| `session` | `MCBleSession.cfg` | 175 thousand | `TypeOK`; `FloorHeld`: once its events are handled, no link below the floor is served; `SecuredBySlot`: a secured link rests on the stored bond, or on a pairing that left none with the pad; `EntryWithinLink`, `NoDigitLeaks`, `DigitsAreFresh`; `ImplementsRegistry`: the slot changes only as `SlotRegistry` allows; and `EntryEnds`, a liveness property |
| `editor` | `MCWebEditor.cfg` | 427 thousand | `TypeOK`; `SavedSurvives`: what was told saved is what runs after power loss; `KnownIsRunning`: what the page takes for the pad's state is; `CommandEnds`, a liveness property: a command ends unless abandoned ones fill the pipe; `ReportsExact` for every layout |

Four more runs end in a violation; each states what a document or comment says of the
program, and TLC finds a behaviour of the code that contradicts it.

| Run | The sentence | What happens |
|---|---|---|
| `link_reconnect` | `power.rs:291`: what the host settled on is the only truth about the link | `Policy` outlives the connection: the next link is taken for what the last one was |
| `keys_unseen` | `routing.rs:18`: held keys never cross to a new host | the host changes between two polls; the router compares kinds of destination and sees no change |
| `pad_late` | `host_slots.rs:136`: releasing below the threshold only selects | a poll that comes late sees the release only after the threshold, still debounces the key as held, and the slot is cleared |
| `editor_edited` | `app.js:182`: `raw` is the last state read from or written to the device | a key assigned while SAVE is awaited becomes part of `raw` and shows as saved; one assigned while SET is awaited is lost |

More disagreements were met while modelling and have no run here:

* `firmware/README.md:108` says held keys must be released before they can type on a newly
  selected transport; a `+` that `Controls` keeps back at the handover is not known to the router and is
  typed later in a chord. `SeenHandoverReleases` therefore speaks of the other keys.
* `docs/pairing.md:104` says stuck-key release reports go out before entry begins; only the BLE ones
  do, and a key held on USB stays held for the entry. `NoStuckUsbKey` excepts the entry.
* `ble.rs:394` says controls survive cancelled scans; an action recognised by the poll that is cancelled is
  lost (`Rescan` and `Accept` of `PadLoop` drop `found`).
* `keypad.rs:53` says a `read_pressed` must follow every wake. When a host connects, `select3` (`ble.rs:395`) can
  drop a read that has released the interrupt line already; `connection_task` begins with a sleep, the line is
  high, and the change is sampled only after the next event or the safety poll (a run of `SeenInTime` without
  its exception, `dropped`, shows it).
* `ble.rs:959` says the entry begins with the keys that are down; a read that fails counts as no key, and a key
  resting on the pad is taken for the first digit. `DigitsAreFresh` excepts such an entry until its first poll.
* Choosing the active slot in the menu drops the connection together with a pairing that is complete but not
  handled: the stack keeps a bond the slot lacks until the next restart. `SecuredBySlot` excepts this, like a
  pairing whose save fails (`unstored`).
* `firmware/README.md:566` says that the policy gives up on Idle only, never on Active, while three refusals
  silence either (two tests of `power.rs` want it so).
* `keypad.rs:15` bounds the sleep by `SAFETY_POLL_MS`, while every event of a connection starts it over
  (`Event`), so that a dead interrupt line can cost more.
* A page closed in the middle of a command, or a transfer that fails with the pad attached, leaves an answer in the
  pipe, which may be taken for the answer to the next command (GET's answer carries no command).
* Two or three abandoned commands fill the pipe: an answer nobody reads, a command the pad works on and one in its
  buffer. The next command cannot be sent, and as the page waits without a timeout it is busy until the pad is
  unplugged. `CommandEnds` excepts exactly this state (`Full`).

### Bounds, and why they are enough

* `HostStore`: three slots as in the firmware and two peers, so that a slot can hold
  the right peer, the wrong one or nobody while another slot holds the other. Nothing
  counts, so there is no other bound. Peers are symmetric. The gestures see `+` and the reset
  keys; `RETRY_HOLD` 1 and `RESET_HOLD` 2 keep their order, and time past the longer hold is all alike.
* `LinkParams`: the intervals and latencies are those around both ends of the legal ranges and
  around the threshold (a period one unit short of it, on it, past it); the theorem `Exactness` covers the rest.
* `LinkPower`: `MAX_REFUSALS` 3 as in the firmware; the cooldown is 4 units and the
  acknowledgement time 2, the ratio of 10 s to 5 s, so a request can be answered before, at
  and after it went stale and be retried before and after the cooldown. `MaxEvents` 2
  allows an unasked change to queue in front of an answer. `MaxConnections` 2 allows one
  reconnect, which is all that separates a fresh policy from a used one. The liveness
  properties say themselves of which hosts they speak: `WishIsMet` excepts a reconnected link
  not yet observed, which the policy may take for the last one (`link_reconnect`).
* `KeyDelivery`: `+` and one slot key, which is an ordinary key as well: every branch of
  `Controls::update` asks whether nothing, only `+`, only the slot key or something else is
  pressed, and two keys give all of these. Holds are one unit and `Elapsed` is {0, 1}, before and
  after. `Tracked` names the keys the histories follow, for the state count. In
  the liveness run each behaviour presses one of the two keys over and over.
* `PadLoop`: two keys as above. A unit is 10 ms: `DEBOUNCE` 2 and `TAP_HOLD` 3 are the
  code's; the longer times (safety poll, holds, menu timeout) are shrunk, keeping their
  order (the two holds are equal, as in the code): a hold remains longer than a tap, a settle
  time and a safety poll, so it outlasts a sleep, which is what its deadline is for.
  A key moves at most once per unit. `still` is counted as far as the properties of the run look,
  `age` two units past the longest timer. `MaxLag` is 0 where a property promises punctuality,
  1 for `pad_faulty` (whose unit is 20 ms, for the state count) and 3, a release's settle time and more, for
  `pad_late`. A connection may fall anywhere in a poll, at the first one of a scan too.
* `BleSession`: one slot and one peer: a slot with an owner accepts only that peer, and an empty one
  holds no bond of a second (a run with two peers finds the same and takes too long to keep).
  `MaxEvents` 3 lets a pairing run from its question to its end, or a link secure and drop, before the pad
  looks. Codes have two digits of two keys: one digit follows another, and both can be pressed
  at once. `ENTRY_TIMEOUT` 2 lets polls fall before and at the deadline. The proofs have no such bounds.
* `WebEditor`: two values where a version added a field; `Found` is a blank sector or a record of any
  version with non-default fields; `Profiles` an old record and one that is none. `MaxEdits` 1 in a
  behaviour: the properties compare a draft with what it was before the edit. Pages close, transfers fail and power
  is lost any number of times.
* `HidReports`: three keys and two slots, with two ordinary usages, a modifier that is also a consumer
  code, a consumer code and none: duplicates, overflow and both pages at once.

### Fairness

* `LinkPower!FairSpec`: the input loop polls and handles events, time passes, and the host
  decides each request, if only by dropping it. The sleep budget never exceeds
  `SAFETY_POLL_MS`, so polls recur; nothing is assumed of what the host decides.
* `KeyDelivery!Fairness`: polls recur, and with each time in `Elapsed` (a state that
  lasts is found old by some poll); the writer loop runs; among reports that are tried
  over and over some get through (strong fairness of `Written` and `Flush`: both loops
  retry for as long as what they remember differs from what they should send). A host that never
  takes another report keeps the last one, whatever the pad does.
* `PadLoop!FairSpec`: time passes; polls, their ends and found actions are carried through
  if they can be again and again (strong fairness of `Tick`, `Read`, `Poll`, and of what follows a poll: a scan
  drops a poll at most once a second, and a poll takes milliseconds; reads fail sometimes, not for ever).

The liveness properties are conditional: *if from some point on the host, the wish, or the
situation stays as described*. `RequestsCease` assumes nothing of the pad's wishes, and `WishIsMet`
nothing of the host's past.

* `BleSession!Fairness`: `connection_task` handles queued events, polls recur and end, time passes. Nothing
  is assumed of the stack, the hosts or the user.
* `WebEditor!Spec`: the pad's task runs, and transfers and answers come through while the pad is there. Nothing
  is assumed of the user, of unplugging or of power.

The models do not deadlock: all passing runs are checked for it.

## 4. What is proved

`tlapm` checks the proofs for every value of the constants that satisfies the modules'
assumptions: any number of slots and peers, any cooldown and refusal limit, any host, any
number of connections.

* **`HostStoreProofs`.** `Invariance` is the inductive invariant: types, `RamMatchesFlash`,
  `SessionFitsSlot`, and what they need to be inductive: a session exists only while
  the pad runs, and in the middle of a reset the legacy region is already empty (`EraseJournal`
  would otherwise bring it back). `TypeCorrect`, `RamFlashAgreement` and `SessionSafety` are
  its parts. `Refinement` proves that `HostStore` implements `SlotRegistry`: initial states map to
  initial states, and each action, under the invariant, to the registry step it stands for,
  or to a stutter.
* **`LinkPowerProofs`.** `Invariance` carries, beside the checked invariants, that an
  open request's direction was not given up (so only a direction still alive can be
  reset: this makes giving up final), that the last event in the queue is the link's
  profile (so an empty queue after an observation means agreement), that a missing link has no
  requests or events, and how a tick and a poll share `wakeWait` (`WakeState`). From it follow
  `TypeCorrect`, `LedgerExactness`, `NoRedundancy`, `LinkKnown`, `PromptWaking` and the action
  property `GivingUpIsFinal`. `Exactness` is the arithmetic of `LinkParams` (`ClassifiesTheLink`) for all legal
  intervals and latencies: an interval is a multiple of 1.25 ms and survives the reading back, products stay
  within u32, and rounding to milliseconds moves nothing over a threshold that is a whole number of
  them. With `GrantsSeen` it gives `ProfileExactness` (`ProfilesAreExact`).
* **`RecoveryStoreProofs`.** `GesturesImplementStore` proves that every behaviour of `RecoveryStore` is one of
  `HostStore`; with `Refinement`, `RecoveryRefinement` follows. `GestureInvariance` relates the recogniser to the
  histories: unless it is draining, a moment without keys was seen (`rested`), and the candidate is
  exactly what is down, for as long as it has been. `ResetSafety` (`ResetIsMeant`) needs nothing else.
* **`BleSessionProofs`.** `Invariance` carries seven conjuncts. Types; `Attached`: a connection, its events
  and its entry exist only while it is served; `Swallowed`: the keys of an entry type nothing
  until let go, because the controls drain or the entry is still on; `Remembers`: the entry's previous mask
  is what was last read; `Asked`: while an entry is on or asked for, the only events that can follow leave
  it or end it (so neither "encrypted" nor "bond lost", which do not call `end_passkey`, can meet
  one); `Floor`: a link secured below the floor has the event queued that will refuse it, and nothing
  is queued behind "disconnected"; `Stored`: a
  strong bond of the stack's is the slot's, or "paired" is queued, or a save failed; a link that stays secured on an
  empty slot is therefore one whose pairing left the stack no bond either. `FloorSafety`, `SlotSafety`,
  `EntrySafety`, `DigitSecrecy` and `FreshDigits` follow, for any number of hosts, digits and queued events.
  `Refinement` proves that the session implements `SlotRegistry` with one slot: a pairing that is handled
  binds an empty slot, for only a slot that was empty at accept makes a link bondable, and nothing fills
  it meanwhile without ending that (`Stored`); its level is strong, for it passed the floor; every other
  step leaves the slot, empties it, or restarts the radio on it.
* **`KeyDeliveryProofs`.** That no key crosses a handover the router saw rests on three places at once: such a
  key (`CarriedIsHeldBack`) is blocked by the router, or kept back by controls that type nothing
  before all keys were let go, and is neither published, nor being written, nor being flushed. This is
  inductive only together with: nothing is on its way to a USB host that is not active; nothing is after
  a handover until a poll has looked; what is on its way to an active one was down since it became active
  (`TouchedIsKnown`); and an opened menu, and what follows it up to the release of all keys, types nothing, a
  fact of `Controls` alone (`UpdateSound`), from which `MenuSilence` shows that reports fall silent and stay so. From the
  invariant follow `TypeCorrect`, `MenuSilence`, `HandoverSafety` and `ReplaySafety`, for any keys and times.
* **`WebEditorProofs`.** `Invariance` says that, unless an answer to an abandoned command may be about (`"stale"`), the page's command is in exactly
  one place (at the page, at the pad, in a save, in the reply, in the pipe) and, on the way back, says of
  the pad what is so (`OneCommand`); while SAVE is awaited the pad runs the draft, unless it was edited
  (`Drafted`); records are of the current version, but for an old import (`Modern`); and what was
  told saved is stored, with no save going on that could tear it (`Told`). `SavingIsDurable` and
  `KnowledgeIsTrue` follow, for any contents, any number of edits, pages and failed transfers.
* **`PadLoopProofs`.** `TypeCorrect` holds of every instance. The rest has a hypothesis that names what the code can
  only ask of the hardware and of its own tasks: `Punctual` (no interrupt is lost, no read fails, no poll comes
  late), which is that of the run `pad_loop`; `pad_faulty` keeps only that the pad settles in the end, and
  `EarlyReleaseOnlySelects`, which `pad_late` violates, is not claimed. `LineInv` follows a key from its move to the
  read, the sample and the settled state: while the loop sleeps the registers were read as the keys are, what was
  read was sampled unless a connection took the sample away (`dropped`), a key that is not that far yet moved just
  now, and the settle timer of a key runs exactly with the time the key has kept still. `Debounced`
  (`BouncesIgnored`) needs no more, but that `still` counts as far as the settle time. `IInv` adds, for every time that is
  waited for (a settling key's, the controls' timer), how much of it is over, depending on where the loop is
  (`InTime`): asleep, what is over and what is left of the sleep exceed it by at most `Grace`, one unit while
  connected, because a connection, or its first event, may start a sleep over whose time is up. The controls' timer,
  which a dropped poll leaves due, has that unit to spare while advertising (`HoldSpared`). `PromptKeys` (`SeenInTime`)
  and `PromptHolds` (`TimersKept`) follow. They need that the sleep budget is the minimum of its deadlines (`Minimum`).
* **`HidReportsProofs`.** The loop of `build_reports` is a recursive function of the number of keys read. Its
  invariant (`ReadUpTo`) says that modifiers and consumer bits are exact for those keys and that the slots
  hold usages in the order of their lowest keys, a usage met so far being left out only when all slots
  were taken by earlier ones (`Slotted`); `ReadOne` has a case for each branch of the code. After the last
  key, counting gives the stated contents (`SlotsFit`). `KeyboardReports`, `ConsumerReports` and with them
  `Reports` (`ReportsExact`) hold for any number of keys and slots and all layouts, 16 and 6 among them.

The library states induction and well-foundedness through operator parameters, which the installed provers
cannot instantiate. Where numbers are needed, `Minimum` (`PadLoopProofs`) and `Induction` (`HidReportsProofs`)
state them for a set, and follow from the pigeonhole theorem for finite sets: adding one would map a set of
numbers that has 0 and no gap one to one into its members above 0. That the recursive function of `HidReports`
exists is proved the same way (`LoopExists`).

Only model-checked: liveness, that is `RequestsCease`, `WishIsMet`, `NoStuckUsbKey`, `NoStuckBleKey`, `PadSettles`,
`EntryEnds` and `CommandEnds`. They are out of the prover's reach, as is anything that rests on `ENABLED`. Every
invariant and every safety property of a step that a passing run checks is stated by a theorem.

## 5. What is not modelled, and the plan

Not modelled:

* *Advertising and identity*: the contents of the advertisement and its interval are functions of the slot and
  of a saturating cycle counter that nothing else reads.
* *LED rendering and brightness*: output only. (`set_brightness` masks to five bits, and neither `from_bytes` nor
  the protocol checks the range, so 32 shows as dark; the field is opaque in `ConfigRecord`.)
* *The consumer report* of `usb.rs`: `consumer_loop` has the discipline of `keyboard_loop`, word by word.
* *Hardware bring-up, descriptors, developer tools*: no state of their own.
* *The failure of the Bluetooth stack's runner*, after which the pad is dead: external and described nowhere.
* *In the editor*: rendering, presets (edits like another), JSON export, the field-by-field import.

Planned, in this order:

* The safety part of the liveness arguments: what a stuck key, an unanswered command or an open request may
  still be waiting for (a fact that holds in every state, from which fairness does the rest).
* A second peer for `BleSession`, should the state count allow it, and with it the menu's change of slots.
* The consumer report, as a second instance of `KeyDelivery`'s writer, if it ever differs from the keyboard's.
