------------------------------ MODULE Controls ------------------------------
(***************************************************************************)
(* Controls::update of src/firmware/src/host_slots.rs: the gesture machine *)
(* between the debounced keys and what is typed.  A short `+` is a key, a  *)
(* held `+` opens the slot menu.                                           *)
(*                                                                         *)
(* The code keeps, per state, the time it was entered and compares `now`   *)
(* with it; here the caller passes the time spent in the state, which      *)
(* starts over exactly when the state changes.  Progress percentages only  *)
(* light LEDs and are left out.                                            *)
(***************************************************************************)
EXTENDS Naturals

CONSTANTS
    Key,           \* the physical keys
    PLUS,          \* the `+` key
    SLOT_COUNT,
    SLOT_KEYS,     \* the menu key of each slot
    MENU_HOLD,
    CLEAR_HOLD,
    MENU_TIMEOUT,
    TAP_HOLD,
    None           \* no action

Slot == 0 .. SLOT_COUNT - 1

ASSUME KeyAssumption ==
    /\ PLUS \in Key
    /\ SLOT_COUNT \in Nat \ {0}
    /\ SLOT_KEYS \in [Slot -> Key \ {PLUS}]
    /\ \A s, t \in Slot : SLOT_KEYS[s] = SLOT_KEYS[t] => s = t
ASSUME HoldAssumption ==
    /\ MENU_HOLD \in Nat \ {0}
    /\ CLEAR_HOLD \in Nat \ {0}
    /\ MENU_TIMEOUT \in Nat \ {0}
    /\ TAP_HOLD \in Nat \ {0}

Action == [kind : {"select", "clear"}, slot : Slot]

ASSUME NoActionAssumption == None \notin Action

\* `slot` is the slot being chosen, and 0 in every other state.
State ==
    [at : {"ready", "plusPending", "plusTap", "passthrough",
           "menuRelease", "menu", "choosing", "drain"},
     slot : Slot]

Menu  == {"closed", "entering", "open", "holding"}
Input == [keys : SUBSET Key, menu : Menu, action : Action \cup {None}]

At(name)       == [at |-> name, slot |-> 0]

\* Mutant of Choosing: the slot number printed on the key, counted from one.
ChoosingShownNumber(slot) == [at |-> "choosing", slot |-> slot + 1]

Choosing(slot) == [at |-> "choosing", slot |-> slot]

\* Controls::new: keys still held must be released before they type.
New == At("drain")

\* An update: the next state and the input it yields.
Types(next, keys)  == [next |-> next, input |-> [keys |-> keys, menu |-> "closed", action |-> None]]
Shows(next, menu)  == [next |-> next, input |-> [keys |-> {}, menu |-> menu, action |-> None]]
Does(kind, slot)   == [next |-> At("drain"),
                       input |-> [keys |-> {}, menu |-> "holding",
                                  action |-> [kind |-> kind, slot |-> slot]]]

Ready(pressed) ==
    IF pressed = {PLUS} THEN Types(At("plusPending"), {})
    ELSE Types(At(IF PLUS \in pressed THEN "passthrough" ELSE "ready"), pressed)

PlusPending(elapsed, pressed) ==
    IF pressed = {} THEN Types(At("plusTap"), {PLUS})
    ELSE IF pressed # {PLUS} THEN Types(At("passthrough"), pressed)
    ELSE IF elapsed >= MENU_HOLD THEN Shows(At("menuRelease"), "open")
    ELSE Shows(At("plusPending"), "entering")

\* Mutant of PlusTap: the tap is never taken back.
PlusTapForever(elapsed, pressed) == Types(At("plusTap"), pressed \cup {PLUS})

PlusTap(elapsed, pressed) ==
    IF elapsed < TAP_HOLD THEN Types(At("plusTap"), pressed \cup {PLUS})
    ELSE Types(At("ready"), pressed)

Passthrough(pressed) ==
    Types(At(IF PLUS \in pressed THEN "passthrough" ELSE "ready"), pressed)

MenuRelease(pressed) ==
    Shows(At(IF pressed = {} THEN "menu" ELSE "menuRelease"), "open")

MenuOpen(elapsed, pressed) ==
    IF elapsed >= MENU_TIMEOUT THEN Shows(At("drain"), "closed")
    ELSE IF \E s \in Slot : pressed = {SLOT_KEYS[s]}
    THEN Shows(Choosing(CHOOSE s \in Slot : pressed = {SLOT_KEYS[s]}), "holding")
    ELSE IF pressed # {} THEN Shows(At("drain"), "closed")
    ELSE Shows(At("menu"), "open")

\* Mutant of Chosen: the hold is judged before the release.
ChosenHoldFirst(slot, elapsed, pressed) ==
    IF elapsed >= CLEAR_HOLD THEN Does("clear", slot)
    ELSE IF pressed = {} THEN Does("select", slot)
    ELSE IF pressed # {SLOT_KEYS[slot]} THEN Shows(At("drain"), "closed")
    ELSE Shows(Choosing(slot), "holding")

Chosen(slot, elapsed, pressed) ==
    IF pressed = {} THEN Does("select", slot)
    ELSE IF pressed # {SLOT_KEYS[slot]} THEN Shows(At("drain"), "closed")
    ELSE IF elapsed >= CLEAR_HOLD THEN Does("clear", slot)
    ELSE Shows(Choosing(slot), "holding")

\* Mutant of Drain: keys still held when the menu closes are typed.
DrainTypes(pressed) == Types(At(IF pressed = {} THEN "ready" ELSE "drain"), pressed)

Drain(pressed) == Types(At(IF pressed = {} THEN "ready" ELSE "drain"), {})

\* Controls::update.
Update(state, elapsed, pressed) ==
    CASE state.at = "ready"       -> Ready(pressed)
      [] state.at = "plusPending" -> PlusPending(elapsed, pressed)
      [] state.at = "plusTap"     -> PlusTap(elapsed, pressed)
      [] state.at = "passthrough" -> Passthrough(pressed)
      [] state.at = "menuRelease" -> MenuRelease(pressed)
      [] state.at = "menu"        -> MenuOpen(elapsed, pressed)
      [] state.at = "choosing"    -> Chosen(state.slot, elapsed, pressed)
      [] state.at = "drain"       -> Drain(pressed)
==============================================================================
