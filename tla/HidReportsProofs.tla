--------------------------- MODULE HidReportsProofs ---------------------------
(***************************************************************************)
(* What the reports of HidReports contain, for any number of keys, any     *)
(* room in the keyboard report, and every layout over any usages.          *)
(***************************************************************************)
EXTENDS MCWebEditor, FiniteSetTheorems, TLAPS

USE UsageAssumption

------------------------------------------------------------------------------
(* Induction over the keys *)

\* The proof counts the numbers up to which S has no gap.  Did they end before `last`,
\* adding one would map them one to one into those of them above 0.
LEMMA Induction ==
    ASSUME NEW last \in Nat, NEW S,
           0 \in S, \A n \in 0 .. last : n < last /\ n \in S => n + 1 \in S
    PROVE  \A n \in 0 .. last : n \in S
<1> DEFINE Reached == {n \in 0 .. last : \A m \in 0 .. n : m \in S}
           up      == [n \in Reached |-> n + 1]
<1>1. 0 \in Reached
  OBVIOUS
<1>2. ASSUME last \notin Reached
      PROVE  \A n \in Reached : n + 1 \in Reached \ {0}
  <2> SUFFICES ASSUME NEW n \in Reached PROVE n + 1 \in Reached
    OBVIOUS
  <2>1. n \in 0 .. last /\ n # last /\ n \in S
    BY <1>2
  <2>2. n + 1 \in S
    BY <2>1
  <2>3. \A m \in 0 .. n + 1 : m \in 0 .. n \/ m = n + 1
    BY <2>1
  <2> QED BY <2>1, <2>2, <2>3
<1>3. IsFiniteSet(Reached)
  <2>1. IsFiniteSet(0 .. last)
    BY FS_Interval
  <2> QED BY <2>1, FS_Subset
<1>4. last \in Reached
  <2> SUFFICES ASSUME last \notin Reached PROVE FALSE
    OBVIOUS
  <2>1. up \in [Reached -> Reached \ {0}] /\ \A m, n \in Reached : up[m] = up[n] => m = n
    BY <1>2
  <2> HIDE DEF Reached, up
  <2>2. /\ IsFiniteSet(Reached \ {0})
        /\ Cardinality(Reached) \in Nat
        /\ Cardinality(Reached \ {0}) = Cardinality(Reached) - 1
    BY <1>1, <1>3, FS_RemoveElement, FS_CardinalityType
  <2>3. Cardinality(Reached \ {0}) < Cardinality(Reached)
    BY <2>2
  <2>4. \E m, n \in Reached : m # n /\ up[m] = up[n]
    BY <1>3, <2>1, <2>2, <2>3, FS_PigeonHole
  <2> QED BY <2>1, <2>4
<1> QED BY <1>4

\* The lowest key of a set.
LEMMA Lowest ==
    ASSUME NEW keys \in SUBSET (1 .. KEYS), keys # {}
    PROVE  \E bit \in keys : \A other \in keys : bit <= other
<1> SUFFICES ASSUME \A bit \in keys : \E other \in keys : other < bit PROVE FALSE
  OBVIOUS
<1> DEFINE Below == {n \in 0 .. KEYS : \A bit \in keys : n < bit}
<1>1. 0 \in Below
  OBVIOUS
<1>2. ASSUME NEW n \in 0 .. KEYS, n < KEYS, n \in Below PROVE n + 1 \in Below
  <2>1. \A bit \in keys : n + 1 # bit
    <3> SUFFICES ASSUME n + 1 \in keys PROVE FALSE
      OBVIOUS
    <3>1. PICK other \in keys : other < n + 1
      OBVIOUS
    <3> QED BY <3>1, <1>2
  <2> QED BY <1>2, <2>1
<1> HIDE DEF Below
<1>3. KEYS \in Below
  BY <1>1, <1>2, Induction
<1>4. PICK bit \in keys : TRUE
  OBVIOUS
<1> QED BY <1>3, <1>4 DEF Below

------------------------------------------------------------------------------
(* The loop *)

\* One pass of the loop.
Pass(report, n, pressed, usage, consumer, room) ==
    IF n \in pressed THEN WithKey(report, usage[n], n \in consumer, room) ELSE report

\* The reports after each key, as a function that is what its passes make it.
Loop(after, pressed, usage, consumer, room) ==
    after = [n \in 0 .. KEYS |->
                IF n = 0 THEN Released
                ELSE Pass(after[n - 1], n, pressed, usage, consumer, room)]

LEMMA LoopExists ==
    ASSUME NEW pressed, NEW usage, NEW consumer, NEW room
    PROVE  \E after : Loop(after, pressed, usage, consumer, room)
<1> DEFINE pass(report, n) == Pass(report, n, pressed, usage, consumer, room)
           upTo(n, after) == after = [m \in 0 .. n |->
                                IF m = 0 THEN Released ELSE pass(after[m - 1], m)]
           Done == {n \in 0 .. KEYS : \E after : upTo(n, after)}
<1> HIDE DEF pass
<1>1. 0 \in Done
  <2> DEFINE start == [m \in 0 .. 0 |-> Released]
  <2>1. start = [m \in 0 .. 0 |-> IF m = 0 THEN Released ELSE pass(start[m - 1], m)]
    OBVIOUS
  <2>2. upTo(0, start)
    BY <2>1
  <2> HIDE DEF upTo, start
  <2> QED BY <2>2
<1>2. ASSUME NEW n \in 0 .. KEYS, n < KEYS, n \in Done PROVE n + 1 \in Done
  <2>1. PICK after : upTo(n, after)
    BY <1>2
  <2> DEFINE more == [m \in 0 .. n + 1 |-> IF m = n + 1 THEN pass(after[n], n + 1) ELSE after[m]]
  <2>2. ASSUME NEW m \in 0 .. n + 1
        PROVE  more[m] = IF m = 0 THEN Released ELSE pass(more[m - 1], m)
    <3>1. CASE m = n + 1
      <4>1. more[n] = after[n] /\ more[n + 1] = pass(after[n], n + 1)
        OBVIOUS
      <4> QED BY <3>1, <4>1
    <3>2. CASE m # n + 1
      <4>1. m \in 0 .. n /\ more[m] = after[m]
        BY <3>2
      <4>2. m # 0 => m - 1 \in 0 .. n + 1 /\ m - 1 # n + 1 /\ more[m - 1] = after[m - 1]
        BY <4>1
      <4>3. after[m] = IF m = 0 THEN Released ELSE pass(after[m - 1], m)
        BY <2>1, <4>1
      <4> QED BY <4>1, <4>2, <4>3
    <3> QED BY <3>1, <3>2
  <2>3. more = [m \in 0 .. n + 1 |-> IF m = 0 THEN Released ELSE pass(more[m - 1], m)]
    BY <2>2
  <2>4. upTo(n + 1, more)
    BY <2>3
  <2>5. n + 1 \in 0 .. KEYS
    BY <1>2
  <2> HIDE DEF upTo, more
  <2> QED BY <2>4, <2>5
<1>3. KEYS \in Done
  <2> HIDE DEF Done
  <2> QED BY <1>1, <1>2, Induction
<1> QED BY <1>3 DEF Loop, pass

\* build_reports goes through the keys in order.
LEMMA Loops ==
    ASSUME NEW pressed, NEW usage, NEW consumer, NEW room
    PROVE  \E after :
              /\ after[0] = Released
              /\ \A n \in 1 .. KEYS :
                    after[n] = Pass(after[n - 1], n, pressed, usage, consumer, room)
              /\ build_reports(pressed, usage, consumer, room) = after[KEYS]
<1> DEFINE is(after) == Loop(after, pressed, usage, consumer, room)
           after == CHOOSE f : is(f)
<1>1. is(after)
  <2> HIDE DEF is
  <2>1. \E f : is(f)
    BY LoopExists DEF is
  <2> QED BY <2>1
<1>2. build_reports(pressed, usage, consumer, room) = after[KEYS]
  BY DEF build_reports, Loop, Pass
<1> HIDE DEF after
<1>3. after[0] = Released
  BY <1>1 DEF Loop
<1>4. \A n \in 1 .. KEYS : after[n] = Pass(after[n - 1], n, pressed, usage, consumer, room)
  BY <1>1 DEF Loop
<1> QED BY <1>2, <1>3, <1>4

------------------------------------------------------------------------------
(* The slots.  `first` maps the ordinary usages that are pressed to their   *)
(* lowest keys.                                                             *)

\* The slots after key n: usages in the order of their lowest keys, and a usage met so
\* far is left out only because the slots were full of earlier ones.
Slotted(slots, n, first, room) ==
    /\ slots \in Seq(DOMAIN first)
    /\ Len(slots) <= room
    /\ \A i \in 1 .. Len(slots) : first[slots[i]] <= n
    /\ \A i, j \in 1 .. Len(slots) : i < j => first[slots[i]] < first[slots[j]]
    /\ \A u \in DOMAIN first :
          first[u] <= n /\ u \notin ToSet(slots) =>
              /\ Len(slots) = room
              /\ \A i \in 1 .. Len(slots) : first[slots[i]] < first[u]

\* A key that is the lowest of no usage, or for which there is no room.
LEMMA SlotsStay ==
    ASSUME NEW room \in Nat, NEW n \in 0 .. KEYS, n < KEYS,
           NEW ord, NEW first \in [ord -> 1 .. KEYS],
           NEW slots, Slotted(slots, n, first, room),
           \A u \in ord : first[u] = n + 1 => Len(slots) = room
    PROVE  Slotted(slots, n + 1, first, room)
<1>1. slots \in Seq(ord) /\ Len(slots) \in Nat /\ \A i \in 1 .. Len(slots) : slots[i] \in ord
  BY DEF Slotted
<1>2. \A i \in 1 .. Len(slots) : first[slots[i]] \in 1 .. KEYS /\ first[slots[i]] <= n
  BY <1>1 DEF Slotted
<1>3. ASSUME NEW u \in ord, first[u] <= n + 1, u \notin ToSet(slots)
      PROVE  /\ Len(slots) = room
             /\ \A i \in 1 .. Len(slots) : first[slots[i]] < first[u]
  <2>1. CASE first[u] = n + 1
    BY <2>1, <1>2
  <2>2. CASE first[u] # n + 1
    <3>1. first[u] <= n
      BY <2>2, <1>3
    <3> QED BY <3>1, <1>3 DEF Slotted
  <2> QED BY <2>1, <2>2
<1>4. \A i \in 1 .. Len(slots) : first[slots[i]] <= n + 1
  BY <1>2
<1> QED BY <1>3, <1>4 DEF Slotted

\* The lowest key of a usage, while there is room.
LEMMA SlotTaken ==
    ASSUME NEW room \in Nat, NEW n \in 0 .. KEYS, n < KEYS,
           NEW ord, NEW first \in [ord -> 1 .. KEYS],
           NEW slots, Slotted(slots, n, first, room), Len(slots) < room,
           NEW u \in ord, first[u] = n + 1, \A v \in ord : first[v] = n + 1 => v = u
    PROVE  Slotted(Append(slots, u), n + 1, first, room)
<1> DEFINE more == Append(slots, u)
           len  == Len(slots)
<1>1. slots \in Seq(ord) /\ len \in Nat /\ \A i \in 1 .. len : slots[i] \in ord
  BY DEF Slotted
<1>2. /\ more \in Seq(ord) /\ Len(more) = len + 1
      /\ more[len + 1] = u /\ \A i \in 1 .. len : more[i] = slots[i]
  BY <1>1
<1>3. \A i \in 1 .. len : first[slots[i]] \in 1 .. KEYS /\ first[slots[i]] <= n
  BY <1>1 DEF Slotted
<1>4. ToSet(more) = ToSet(slots) \cup {u}
  <2>1. DOMAIN more = 1 .. len + 1 /\ DOMAIN slots = 1 .. len
    BY <1>1, <1>2
  <2>2. 1 .. len + 1 = (1 .. len) \cup {len + 1}
    BY <1>1
  <2>3. /\ ToSet(more) = {more[i] : i \in 1 .. len + 1}
        /\ ToSet(slots) = {slots[i] : i \in 1 .. len}
    BY <2>1 DEF ToSet
  <2> HIDE DEF more, len
  <2>4. {more[i] : i \in 1 .. len + 1} = {more[i] : i \in 1 .. len} \cup {more[len + 1]}
    BY <2>2
  <2>5. {more[i] : i \in 1 .. len} = {slots[i] : i \in 1 .. len}
    BY <1>2
  <2> QED BY <1>2, <2>3, <2>4, <2>5
<1> HIDE DEF more
<1>5. ASSUME NEW i \in 1 .. len + 1
      PROVE  more[i] \in ord /\ first[more[i]] <= n + 1
  <2> HIDE DEF len
  <2>1. CASE i \in 1 .. len
    <3>1. more[i] = slots[i] /\ slots[i] \in ord
      BY <2>1, <1>1, <1>2
    <3>2. first[slots[i]] \in 1 .. KEYS /\ first[slots[i]] <= n
      BY <2>1, <1>3
    <3> QED BY <3>1, <3>2
  <2>2. CASE i = len + 1
    BY <2>2, <1>2
  <2> QED BY <2>1, <2>2, <1>1
<1>6. ASSUME NEW i \in 1 .. len + 1, NEW j \in 1 .. len + 1, i < j
      PROVE  first[more[i]] < first[more[j]]
  <2>1. i \in 1 .. len
    BY <1>1, <1>6
  <2>2. CASE j = len + 1
    BY <2>1, <2>2, <1>2, <1>3
  <2>3. CASE j # len + 1
    <3>1. j \in 1 .. len
      BY <1>1, <2>3
    <3> QED BY <2>1, <3>1, <1>2, <1>6 DEF Slotted
  <2> QED BY <2>2, <2>3
<1>7. ASSUME NEW v \in ord, first[v] <= n + 1, v \notin ToSet(more)
      PROVE  FALSE
  <2>1. v # u /\ v \notin ToSet(slots)
    BY <1>4, <1>7
  <2>2. first[v] <= n
    BY <2>1, <1>7
  <2> QED BY <2>1, <2>2 DEF Slotted
<1>8. Len(more) <= room
  BY <1>1, <1>2
<1>9. Slotted(more, n + 1, first, room)
  BY <1>2, <1>5, <1>6, <1>7, <1>8 DEF Slotted
<1> QED BY <1>9 DEF more

\* After the last key the slots hold the usages that fit.
LEMMA SlotsFit ==
    ASSUME NEW room \in Nat, NEW ord, NEW first \in [ord -> 1 .. KEYS],
           \A u, v \in ord : first[u] = first[v] => u = v,
           NEW slots, Slotted(slots, KEYS, first, room)
    PROVE  /\ IsInjective(slots)
           /\ ToSet(slots) \subseteq ord
           /\ \A u \in ord : u \in ToSet(slots)
                 <=> Cardinality({v \in ord : first[v] < first[u]}) < room
<1> DEFINE len == Len(slots)
           Before(u) == {v \in ord : first[v] < first[u]}
<1>1. /\ len \in Nat /\ len <= room
      /\ slots \in [1 .. len -> ord] /\ DOMAIN slots = 1 .. len
  BY DEF Slotted
<1>2. \A i, j \in 1 .. len : i < j => first[slots[i]] < first[slots[j]]
  BY DEF Slotted
<1>3. \A i, j \in 1 .. len : slots[i] = slots[j] => i = j
  <2> SUFFICES ASSUME NEW i \in 1 .. len, NEW j \in 1 .. len, slots[i] = slots[j], i # j
               PROVE  FALSE
    OBVIOUS
  <2>1. i < j \/ j < i
    BY <1>1
  <2>2. first[slots[i]] \in 1 .. KEYS
    BY <1>1
  <2> QED BY <1>2, <2>1, <2>2
<1>4. \A u \in ord : u \notin ToSet(slots) =>
          len = room /\ \A i \in 1 .. len : first[slots[i]] < first[u]
  BY DEF Slotted
<1>5. ToSet(slots) = {slots[i] : i \in 1 .. len}
  BY <1>1 DEF ToSet
<1> HIDE DEF len
<1>6. ASSUME NEW k \in 1 .. len
      PROVE  Cardinality(Before(slots[k])) < room
  <2> DEFINE earlier == [i \in 1 .. k - 1 |-> slots[i]]
  <2>1. ASSUME NEW v \in Before(slots[k]) PROVE \E i \in 1 .. k - 1 : v = slots[i]
    <3>0. slots[k] \in ord /\ first[slots[k]] \in 1 .. KEYS /\ first[v] \in 1 .. KEYS
      BY <1>1
    <3>1. v \in ToSet(slots)
      BY <1>4, <3>0
    <3>2. PICK i \in 1 .. len : v = slots[i]
      BY <3>1, <1>5
    <3>3. ~(k < i) /\ k # i
      BY <1>2, <3>0, <3>2
    <3>4. i \in 1 .. k - 1
      BY <3>3, <1>1
    <3> QED BY <3>2, <3>4
  <2>2. ASSUME NEW i \in 1 .. k - 1 PROVE slots[i] \in Before(slots[k])
    <3>1. i \in 1 .. len /\ i < k
      BY <1>1
    <3> QED BY <3>1, <1>1, <1>2
  <2>3. earlier \in Surjection(1 .. k - 1, Before(slots[k]))
    <3> HIDE DEF Before
    <3> QED BY <2>1, <2>2 DEF Surjection
  <2>4. IsFiniteSet(1 .. k - 1) /\ Cardinality(1 .. k - 1) = k - 1
    <3>1. 1 \in Int /\ k - 1 \in Int /\ k >= 1
      BY <1>1
    <3>2. /\ IsFiniteSet(1 .. k - 1)
          /\ Cardinality(1 .. k - 1) = IF 1 > k - 1 THEN 0 ELSE k - 1 - 1 + 1
      BY <3>1, FS_Interval
    <3> QED BY <3>1, <3>2
  <2> HIDE DEF Before, earlier
  <2>5. Cardinality(Before(slots[k])) <= k - 1 /\ IsFiniteSet(Before(slots[k]))
    BY <2>3, <2>4, FS_Surjection
  <2>6. Cardinality(Before(slots[k])) \in Nat
    BY <2>5, FS_CardinalityType
  <2> QED BY <2>5, <2>6, <1>1
<1>7. ASSUME NEW u \in ord, u \notin ToSet(slots)
      PROVE  ~(Cardinality(Before(u)) < room)
  <2>1. len = room /\ \A i \in 1 .. len : slots[i] \in Before(u)
    BY <1>1, <1>4, <1>7
  <2>2. IsFiniteSet(Before(u))
    <3> DEFINE key == [v \in Before(u) |-> first[v]]
    <3>1. key \in Injection(Before(u), 1 .. KEYS)
      BY DEF Injection, IsInjective
    <3>2. IsFiniteSet(1 .. KEYS)
      BY FS_Interval
    <3> HIDE DEF key, Before
    <3> QED BY <3>1, <3>2, FS_Injection
  <2>3. slots \in Injection(1 .. len, Before(u))
    <3> HIDE DEF Before
    <3> QED BY <2>1, <1>1, <1>3 DEF Injection, IsInjective
  <2>4. Cardinality(1 .. len) = len
    <3>1. Cardinality(1 .. len) = IF 1 > len THEN 0 ELSE len - 1 + 1
      BY <1>1, FS_Interval
    <3> QED BY <3>1, <1>1
  <2> HIDE DEF Before
  <2>5. Cardinality(Before(u)) >= len
    BY <2>2, <2>3, <2>4, FS_Injection
  <2>6. Cardinality(Before(u)) \in Nat
    BY <2>2, FS_CardinalityType
  <2> QED BY <2>1, <2>5, <2>6, <1>1
<1>8. IsInjective(slots)
  BY <1>1, <1>3 DEF IsInjective
<1>9. ToSet(slots) \subseteq ord
  BY <1>1, <1>5
<1>10. \A u \in ord : u \in ToSet(slots) <=> Cardinality(Before(u)) < room
  <2> HIDE DEF Before
  <2> QED BY <1>5, <1>6, <1>7
<1> QED BY <1>8, <1>9, <1>10

------------------------------------------------------------------------------
(* Keys and usages *)

LEMMA FirstIsLowest ==
    ASSUME NEW keys \in Masks, NEW usage, NEW u \in Usages(keys, usage)
    PROVE  /\ First(u, keys, usage) \in keys
           /\ usage[First(u, keys, usage)] = u
           /\ \A other \in keys : usage[other] = u => First(u, keys, usage) <= other
<1> DEFINE its    == {bit \in keys : usage[bit] = u}
           low(bit) == usage[bit] = u /\ \A other \in keys : usage[other] = u => bit <= other
<1>1. its \in SUBSET (1 .. KEYS) /\ its # {}
  BY DEF Masks, Usages
<1>2. PICK bit \in its : \A other \in its : bit <= other
  <2> HIDE DEF its
  <2> QED BY <1>1, Lowest
<1>3. bit \in keys /\ low(bit)
  BY <1>2
<1>4. First(u, keys, usage) = CHOOSE b \in keys : low(b)
  BY DEF First
<1> HIDE DEF low
<1>5. First(u, keys, usage) \in keys /\ low(First(u, keys, usage))
  BY <1>3, <1>4
<1> QED BY <1>5 DEF low

\* The lowest keys of the ordinary usages.
Lows(keys, usage) == [u \in Ordinary(keys, usage) |-> First(u, keys, usage)]

LEMMA LowsFacts ==
    ASSUME NEW keys \in Masks, NEW usage
    PROVE  LET first == Lows(keys, usage)
           IN  /\ first \in [Ordinary(keys, usage) -> 1 .. KEYS]
               /\ \A u \in Ordinary(keys, usage) :
                     /\ first[u] \in keys /\ usage[first[u]] = u
                     /\ \A bit \in keys : usage[bit] = u => first[u] <= bit
<1>1. \A u \in Ordinary(keys, usage) : u \in Usages(keys, usage)
  BY DEF Ordinary
<1>2. keys \subseteq 1 .. KEYS
  BY DEF Masks
<1>3. ASSUME NEW u \in Ordinary(keys, usage)
      PROVE  /\ First(u, keys, usage) \in keys /\ usage[First(u, keys, usage)] = u
             /\ \A bit \in keys : usage[bit] = u => First(u, keys, usage) <= bit
  BY <1>1, FirstIsLowest
<1>4. \A u \in Ordinary(keys, usage) : First(u, keys, usage) \in 1 .. KEYS
  BY <1>2, <1>3
<1> QED BY <1>3, <1>4 DEF Lows

\* One more key, in or out of a set of keys.
LEMMA UsagesUpTo ==
    ASSUME NEW keys \in Masks, NEW usage, NEW n \in 0 .. KEYS, n < KEYS
    PROVE  Usages(keys \cap (1 .. n + 1), usage) =
              Usages(keys \cap (1 .. n), usage)
                  \cup (IF n + 1 \in keys THEN {usage[n + 1]} ELSE {})
<1>1. 1 .. n + 1 = (1 .. n) \cup {n + 1}
  OBVIOUS
<1> QED BY <1>1 DEF Usages

------------------------------------------------------------------------------
(* The invariant of the loop *)

\* What the reports are after key n: exact for the keys read so far, with the slots of
\* the usages of all pressed keys whose lowest key was read.
ReadUpTo(report, n, keys, media, usage, room) ==
    /\ report \in [modifiers : SUBSET Usage, slots : Seq(Usage), consumer : SUBSET Usage]
    /\ report.modifiers = Usages(keys \cap (1 .. n), usage) \cap Modifier
    /\ report.consumer = Usages(media \cap (1 .. n), usage) \cap CONSUMER_KEYS
    /\ Slotted(report.slots, n, Lows(keys, usage), room)

LEMMA ReadNone ==
    ASSUME NEW keys \in Masks, NEW media \in Masks, NEW usage \in Layouts, NEW room \in Nat
    PROVE  ReadUpTo(Released, 0, keys, media, usage, room)
<1> DEFINE first == Lows(keys, usage)
<1>1. first \in [Ordinary(keys, usage) -> 1 .. KEYS]
  BY LowsFacts
<1>2. 1 .. 0 = {}
  OBVIOUS
<1> HIDE DEF first
<1>3. Slotted(<<>>, 0, first, room)
  <2>1. <<>> \in Seq(DOMAIN first) /\ Len(<<>>) = 0
    OBVIOUS
  <2>2. \A u \in DOMAIN first : ~(first[u] <= 0)
    BY <1>1
  <2> QED BY <2>1, <2>2, <1>2 DEF Slotted
<1>4. Usages({}, usage) = {}
  BY DEF Usages
<1>5. Released \in [modifiers : SUBSET Usage, slots : Seq(Usage), consumer : SUBSET Usage]
  BY DEF Released
<1> QED BY <1>2, <1>3, <1>4, <1>5 DEF ReadUpTo, Released, first

\* One more key: each of its cases disturbs one part of the reports.
LEMMA ReadOne ==
    ASSUME NEW pressed \in Masks, NEW consumer \in Masks, NEW usage \in Layouts,
           NEW room \in Nat, NEW n \in 0 .. KEYS, n < KEYS, NEW report,
           ReadUpTo(report, n, pressed \ consumer, pressed \cap consumer, usage, room)
    PROVE  ReadUpTo(Pass(report, n + 1, pressed, usage, consumer, room), n + 1,
                    pressed \ consumer, pressed \cap consumer, usage, room)
<1> DEFINE keys  == pressed \ consumer
           media == pressed \cap consumer
           first == Lows(keys, usage)
           ord   == Ordinary(keys, usage)
           u     == usage[n + 1]
           next  == Pass(report, n + 1, pressed, usage, consumer, room)
           slots == report.slots
           Reports == [modifiers : SUBSET Usage, slots : Seq(Usage), consumer : SUBSET Usage]
<1>1. keys \in Masks /\ media \in Masks
  BY DEF Masks
<1>2. /\ first \in [ord -> 1 .. KEYS]
      /\ \A v \in ord : /\ first[v] \in keys /\ usage[first[v]] = v
                        /\ \A bit \in keys : usage[bit] = v => first[v] <= bit
  <2> HIDE DEF keys
  <2> QED BY <1>1, LowsFacts
<1>3. n + 1 \in 1 .. KEYS /\ u \in Usage
  BY DEF Layouts
<1>4. /\ Usages(keys \cap (1 .. n + 1), usage) =
              Usages(keys \cap (1 .. n), usage) \cup (IF n + 1 \in keys THEN {u} ELSE {})
      /\ Usages(media \cap (1 .. n + 1), usage) =
              Usages(media \cap (1 .. n), usage) \cup (IF n + 1 \in media THEN {u} ELSE {})
  <2> HIDE DEF keys, media
  <2>1. Usages(keys \cap (1 .. n + 1), usage) =
              Usages(keys \cap (1 .. n), usage) \cup (IF n + 1 \in keys THEN {u} ELSE {})
    BY <1>1, UsagesUpTo
  <2>2. Usages(media \cap (1 .. n + 1), usage) =
              Usages(media \cap (1 .. n), usage) \cup (IF n + 1 \in media THEN {u} ELSE {})
    BY <1>1, UsagesUpTo
  <2> QED BY <2>1, <2>2
<1>5. /\ report \in Reports
      /\ report.modifiers = Usages(keys \cap (1 .. n), usage) \cap Modifier
      /\ report.consumer = Usages(media \cap (1 .. n), usage) \cap CONSUMER_KEYS
      /\ Slotted(slots, n, first, room)
  BY DEF ReadUpTo
<1>6. n + 1 \in keys /\ u \notin Modifier \cup {NO_USAGE} <=> n + 1 \in keys /\ u \in ord
  BY DEF Ordinary, Usages
\* The lowest key of a usage is n + 1 only for u, an ordinary one, and if it is new.
<1>7. \A v \in ord : first[v] = n + 1 => n + 1 \in keys /\ v = u
  BY <1>2
<1>8. Len(slots) \in Nat /\ DOMAIN slots = 1 .. Len(slots) /\ Len(slots) <= room
  BY <1>5 DEF Slotted
<1>9. ASSUME u \in ToSet(slots) PROVE \A v \in ord : first[v] # n + 1
  <2>1. PICK i \in 1 .. Len(slots) : slots[i] = u
    BY <1>8, <1>9 DEF ToSet
  <2>2. first[u] <= n
    BY <2>1, <1>5 DEF Slotted
  <2> HIDE DEF first, ord, u
  <2>3. ASSUME NEW v \in ord, first[v] = n + 1 PROVE FALSE
    BY <2>2, <2>3, <1>7
  <2> QED BY <2>3
<1>10. ASSUME \A v \in ord : first[v] = n + 1 => Len(slots) = room
       PROVE  Slotted(slots, n + 1, first, room)
  <2> HIDE DEF first, ord, slots
  <2> QED BY <1>2, <1>5, <1>10, SlotsStay
<1> HIDE DEF keys, media, first, ord, u
<1>11. SUFFICES /\ next \in Reports
                /\ next.modifiers = Usages(keys \cap (1 .. n + 1), usage) \cap Modifier
                /\ next.consumer = Usages(media \cap (1 .. n + 1), usage) \cap CONSUMER_KEYS
                /\ Slotted(next.slots, n + 1, first, room)
  BY DEF ReadUpTo, keys, media, first
<1>12. CASE n + 1 \notin pressed
  <2>1. n + 1 \notin keys /\ n + 1 \notin media
    BY <1>12 DEF keys, media
  <2>2. next = report
    BY <1>12 DEF Pass
  <2>3. Slotted(slots, n + 1, first, room)
    BY <1>7, <1>10, <2>1
  <2> QED BY <2>1, <2>2, <2>3, <1>4, <1>5
<1>13. CASE n + 1 \in media
  <2>1. n + 1 \notin keys /\ n + 1 \in pressed /\ n + 1 \in consumer
    BY <1>13 DEF keys, media
  <2>2. next = [report EXCEPT !.consumer = @ \cup ({u} \cap CONSUMER_KEYS)]
    BY <2>1 DEF Pass, WithKey, u
  <2>3. Slotted(slots, n + 1, first, room)
    BY <1>7, <1>10, <2>1
  <2>4. /\ next \in Reports
        /\ next.modifiers = report.modifiers /\ next.slots = slots
        /\ next.consumer = report.consumer \cup ({u} \cap CONSUMER_KEYS)
    <3>1. report \in Reports
      BY <1>5
    <3> HIDE DEF next
    <3> QED BY <2>2, <3>1, <1>3
  <2> HIDE DEF next
  <2> QED BY <2>1, <2>3, <2>4, <1>13, <1>4, <1>5
<1>14. CASE n + 1 \in keys
  <2>1. n + 1 \notin media /\ n + 1 \in pressed /\ n + 1 \notin consumer
    BY <1>14 DEF keys, media
  <2>2. CASE u \in Modifier
    <3>1. next = [report EXCEPT !.modifiers = @ \cup {u}]
      BY <2>1, <2>2 DEF Pass, WithKey, u
    <3>2. Slotted(slots, n + 1, first, room)
      BY <1>6, <1>7, <1>10, <1>14, <2>2
    <3>3. /\ next \in Reports
          /\ next.consumer = report.consumer /\ next.slots = slots
          /\ next.modifiers = report.modifiers \cup {u}
      <4>1. report \in Reports
        BY <1>5
      <4> HIDE DEF next
      <4> QED BY <3>1, <4>1, <1>3
    <3> HIDE DEF next, Reports
    <3>4. next.modifiers = Usages(keys \cap (1 .. n + 1), usage) \cap Modifier
      BY <2>2, <3>3, <1>14, <1>4, <1>5
    <3>5. next.consumer = Usages(media \cap (1 .. n + 1), usage) \cap CONSUMER_KEYS
      BY <2>1, <3>3, <1>4, <1>5
    <3> QED BY <3>2, <3>3, <3>4, <3>5
  <2>3. CASE u \notin Modifier /\ (u = NO_USAGE \/ u \in ToSet(slots) \/ ~(Len(slots) < room))
    <3>1. next = report
      BY <2>1, <2>3 DEF Pass, WithKey, u
    <3>2. Slotted(slots, n + 1, first, room)
      <4>1. CASE u = NO_USAGE
        BY <4>1, <1>6, <1>7, <1>10, <1>14
      <4>2. CASE u \in ToSet(slots)
        BY <4>2, <1>9, <1>10
      <4>3. CASE ~(Len(slots) < room)
        BY <4>3, <1>8, <1>10
      <4> QED BY <4>1, <4>2, <4>3, <2>3
    <3> HIDE DEF next, slots, Reports
    <3>3. next \in Reports /\ next.slots = slots
      BY <3>1, <1>5 DEF slots
    <3>4. next.modifiers = Usages(keys \cap (1 .. n + 1), usage) \cap Modifier
      BY <2>3, <3>1, <1>14, <1>4, <1>5
    <3>5. next.consumer = Usages(media \cap (1 .. n + 1), usage) \cap CONSUMER_KEYS
      BY <2>1, <3>1, <1>4, <1>5
    <3> QED BY <3>2, <3>3, <3>4, <3>5
  <2>4. CASE /\ u \notin Modifier \cup {NO_USAGE}
             /\ u \notin ToSet(slots) /\ Len(slots) < room
    <3>1. next = [report EXCEPT !.slots = Append(@, u)]
      BY <2>1, <2>4 DEF Pass, WithKey, u
    <3>2. u \in ord
      BY <1>6, <1>14, <2>4
    <3>3. first[u] = n + 1
      <4>1. first[u] <= n + 1 /\ first[u] \in 1 .. KEYS
        BY <1>2, <1>14, <3>2 DEF u
      <4>2. ~(first[u] <= n)
        BY <1>2, <1>5, <1>8, <2>4, <3>2 DEF Slotted
      <4> QED BY <4>1, <4>2
    <3>4. Slotted(Append(slots, u), n + 1, first, room)
      <4>1. first \in [ord -> 1 .. KEYS]
        BY <1>2
      <4>2. Slotted(slots, n, first, room) /\ Len(slots) < room
        BY <1>5, <2>4
      <4>3. \A v \in ord : first[v] = n + 1 => v = u
        BY <1>7
      <4> HIDE DEF slots
      <4> QED BY <4>1, <4>2, <4>3, <3>2, <3>3, SlotTaken
    <3>5. /\ next \in Reports
          /\ next.consumer = report.consumer /\ next.modifiers = report.modifiers
          /\ next.slots = Append(slots, u)
      <4>1. Append(slots, u) \in Seq(Usage)
        BY <1>3, <1>5
      <4>2. report \in Reports
        BY <1>5
      <4> HIDE DEF next
      <4> QED BY <3>1, <4>1, <4>2
    <3> HIDE DEF next, Reports
    <3>6. next.modifiers = Usages(keys \cap (1 .. n + 1), usage) \cap Modifier
      BY <2>4, <3>5, <1>14, <1>4, <1>5
    <3>7. next.consumer = Usages(media \cap (1 .. n + 1), usage) \cap CONSUMER_KEYS
      BY <2>1, <3>5, <1>4, <1>5
    <3> QED BY <3>4, <3>5, <3>6, <3>7
  <2> QED BY <2>2, <2>3, <2>4
<1> QED BY <1>12, <1>13, <1>14 DEF keys, media

------------------------------------------------------------------------------
(* The reports *)

\* The invariant holds when the loop ends.
LEMMA ReadAll ==
    ASSUME NEW pressed \in Masks, NEW consumer \in Masks, NEW usage \in Layouts, NEW room \in Nat
    PROVE  ReadUpTo(build_reports(pressed, usage, consumer, room), KEYS,
                    pressed \ consumer, pressed \cap consumer, usage, room)
<1>1. PICK after :
         /\ after[0] = Released
         /\ \A n \in 1 .. KEYS :
               after[n] = Pass(after[n - 1], n, pressed, usage, consumer, room)
         /\ build_reports(pressed, usage, consumer, room) = after[KEYS]
  BY Loops
<1> DEFINE read(n) == ReadUpTo(after[n], n, pressed \ consumer, pressed \cap consumer, usage, room)
           Read    == {n \in 0 .. KEYS : read(n)}
<1>2. 0 \in Read
  <2>1. pressed \ consumer \in Masks /\ pressed \cap consumer \in Masks
    BY DEF Masks
  <2> QED BY <1>1, <2>1, ReadNone
<1>3. ASSUME NEW n \in 0 .. KEYS, n < KEYS, n \in Read PROVE n + 1 \in Read
  <2>1. n + 1 \in 1 .. KEYS /\ n + 1 - 1 = n
    BY <1>3
  <2>2. after[n + 1] = Pass(after[n], n + 1, pressed, usage, consumer, room)
    BY <1>1, <2>1
  <2>3. read(n + 1)
    BY <1>3, <2>2, ReadOne
  <2> HIDE DEF read
  <2> QED BY <2>1, <2>3
<1>4. KEYS \in Read
  <2> HIDE DEF Read
  <2> QED BY <1>2, <1>3, Induction
<1> QED BY <1>1, <1>4

LEMMA FittingIs ==
    ASSUME NEW keys, NEW usage, NEW room
    PROVE  LET ord   == Ordinary(keys, usage)
               first == Lows(keys, usage)
           IN  Fitting(keys, usage, room) =
                  {u \in ord : Cardinality({v \in ord : first[v] < first[u]}) < room}
<1> DEFINE ord == Ordinary(keys, usage)
<1>1. ASSUME NEW u \in ord
      PROVE  {v \in ord : Lows(keys, usage)[v] < Lows(keys, usage)[u]} =
             {v \in ord : First(v, keys, usage) < First(u, keys, usage)}
  BY DEF Lows
<1> QED BY <1>1 DEF Fitting

(* Whatever keys are down and whatever they mean, the keyboard report holds *)
(* each modifier that is pressed, and once each, in its slots, the ordinary *)
(* usages whose lowest keys come first, as many as there is room for.       *)
THEOREM KeyboardReports == KeyboardReportsExact
<1> SUFFICES ASSUME NEW usage \in Layouts, NEW consumer \in Masks, NEW pressed \in Masks,
                    NEW room \in 1 .. ROOM
             PROVE  KeyboardExact(build_reports(pressed, usage, consumer, room),
                                  pressed \ consumer, usage, room)
  BY DEF KeyboardReportsExact
<1> DEFINE keys   == pressed \ consumer
           report == build_reports(pressed, usage, consumer, room)
           first  == Lows(keys, usage)
           ord    == Ordinary(keys, usage)
<1>1. keys \in Masks /\ keys \cap (1 .. KEYS) = keys
  BY DEF Masks
<1>2. ReadUpTo(report, KEYS, keys, pressed \cap consumer, usage, room)
  BY ReadAll
<1> HIDE DEF keys, report, first, ord
<1>3. report.modifiers = Usages(keys, usage) \cap Modifier /\ Slotted(report.slots, KEYS, first, room)
  BY <1>1, <1>2 DEF ReadUpTo, first
<1>4. /\ first \in [ord -> 1 .. KEYS]
      /\ \A u, v \in ord : first[u] = first[v] => u = v
  <2>1. \A u \in ord : usage[first[u]] = u
    BY <1>1, LowsFacts DEF first, ord
  <2>2. first \in [ord -> 1 .. KEYS]
    BY <1>1, LowsFacts DEF first, ord
  <2> QED BY <2>1, <2>2
<1>5. /\ IsInjective(report.slots)
      /\ ToSet(report.slots) \subseteq ord
      /\ \A u \in ord : u \in ToSet(report.slots)
            <=> Cardinality({v \in ord : first[v] < first[u]}) < room
  BY <1>3, <1>4, SlotsFit
<1>6. Fitting(keys, usage, room) = {u \in ord : Cardinality({v \in ord : first[v] < first[u]}) < room}
  BY FittingIs DEF first, ord
<1>7. ToSet(report.slots) = Fitting(keys, usage, room)
  BY <1>5, <1>6
<1>8. KeyboardExact(report, keys, usage, room)
  BY <1>3, <1>5, <1>7 DEF KeyboardExact
<1> QED BY <1>8 DEF report, keys

(* The consumer report holds the usages of the pressed keys of the consumer *)
(* page that it has a bit for, and nothing of the other keys.               *)
THEOREM ConsumerReports == ConsumerReportsExact
<1> SUFFICES ASSUME NEW usage \in Layouts, NEW consumer \in Masks, NEW pressed \in Masks
             PROVE  ConsumerExact(build_reports(pressed, usage, consumer, ROOM),
                                  pressed \cap consumer, usage)
  BY DEF ConsumerReportsExact
<1> DEFINE report == build_reports(pressed, usage, consumer, ROOM)
<1>1. ReadUpTo(report, KEYS, pressed \ consumer, pressed \cap consumer, usage, ROOM)
  BY ReadAll
<1>2. (pressed \cap consumer) \cap (1 .. KEYS) = pressed \cap consumer
  BY DEF Masks
<1> HIDE DEF report
<1>3. ConsumerExact(report, pressed \cap consumer, usage)
  BY <1>1, <1>2 DEF ReadUpTo, ConsumerExact
<1> QED BY <1>3 DEF report

(* Both reports of the layout a started pad runs.                           *)
THEOREM Reports == Spec => []ReportsExact
<1>1. ReportsExact
  BY KeyboardReports, ConsumerReports DEF ReportsExact
<1>2. QED BY <1>1, PTL
==============================================================================
