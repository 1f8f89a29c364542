----------------------------- MODULE LinkParams -----------------------------
(***************************************************************************)
(* The arithmetic behind the profiles of LinkPower: the parameters that    *)
(* power.rs asks for, how ble.rs reads the link the host settled on, and   *)
(* the profile `classify` gives it.  All of it is in u16 and u32.          *)
(***************************************************************************)
EXTENDS Integers

CONSTANTS
    Intervals,  \* connection intervals a host may settle on, in units of 1.25 ms,
    Latencies   \* and peripheral latencies

ASSUME LegalAssumption ==
    \* The ranges of the link layer, as in is_valid.
    /\ \A units \in Intervals : units \in Nat /\ 6 <= units /\ units <= 3200
    /\ \A latency \in Latencies : latency \in Nat /\ latency < 500

UNIT_US  == 1250
U16_MAX  == 65535
WIDTH    == 2147483647   \* products up to here are exact, in u32 as in TLC

ACTIVE == [interval_max_units |-> 12, latency |-> 0]
IDLE   == [interval_max_units |-> 12, latency |-> 39]

\* Params::effective_ms, and the product in it that must not wrap.
product(params)      == params.interval_max_units * (params.latency + 1) * 5
effective_ms(params) == product(params) \div 4

\* Mutant of units_from_us: the interval is rounded to milliseconds first.
UnitsFromMillis(us) == ((us \div 1000) * 1000) \div UNIT_US

units_from_us(us) == IF us \div UNIT_US > U16_MAX THEN U16_MAX ELSE us \div UNIT_US

\* Mutant of classify: a link exactly at the idle profile's period is not idle.
ClassifyStrictly(params) == IF effective_ms(params) > effective_ms(IDLE) THEN "idle" ELSE "active"

classify(params) == IF effective_ms(params) >= effective_ms(IDLE) THEN "idle" ELSE "active"

\* link_params: a profile as the stack's request, in microseconds.
link_params(params) == [us |-> params.interval_max_units * UNIT_US, latency |-> params.latency]

\* observed_params: a link as note_link reads it.
observed_params(link) ==
    [interval_max_units |-> units_from_us(link.us), latency |-> link.latency]

------------------------------------------------------------------------------

Links == [us : {units * UNIT_US : units \in Intervals}, latency : Latencies]

\* The time a link lets the pad sleep, exactly.
PeriodUs(link) == link.us * (link.latency + 1)

(* Whatever the host settles on, the pad takes the link for idle exactly if *)
(* it may sleep as long as on the link it would ask for: rounding moves no  *)
(* link over the threshold and no product wraps below it (power.rs 353-364).*)
ClassifiesTheLink ==
    /\ \A link \in Links : product(observed_params(link)) <= WIDTH
    /\ \A link \in Links :
          classify(observed_params(link)) = "idle" <=> PeriodUs(link) >= PeriodUs(link_params(IDLE))

(* A host that grants a request to the letter is seen to have granted it:   *)
(* otherwise the policy would count a refusal for every grant.              *)
GrantsAreSeen ==
    /\ classify(observed_params(link_params(ACTIVE))) = "active"
    /\ classify(observed_params(link_params(IDLE))) = "idle"
=============================================================================
