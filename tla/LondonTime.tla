------------------------------ MODULE LondonTime ------------------------------
(***************************************************************************)
(* The Europe/London clock (adapters/time_london.py, LondonTimeAdapter and  *)
(* its frozen twin): UTC instants, wall clock readings, and the two ways    *)
(* back from a reading to an instant.  One year: summer time starts at      *)
(* Spring and ends at Autumn, both in UTC; Hour is the offset it adds.      *)
(***************************************************************************)
EXTENDS Integers

CONSTANTS Spring, Autumn, Hour, MaxInstant

ASSUME LondonAssumption ==
    /\ {Spring, Autumn, Hour, MaxInstant} \subseteq Nat
    /\ Hour > 0 /\ Spring + Hour <= Autumn /\ Autumn + Hour <= MaxInstant

VARIABLES clock,         \* now_utc()
          chosen,        \* the instant somebody means
          shown,         \* its wall clock reading, as format_local prints it
          parsed         \* the instant parse_local makes of the reading

clockVars == <<clock, chosen, shown, parsed>>

Unset == -1
Instants == 0..MaxInstant

(* The zone's offset at an instant, and at a reading: in the repeated hour  *)
(* fold tells the first pass from the second, in the skipped one it picks   *)
(* the offset before or after the change (zoneinfo, PEP 495).               *)
Offset(u) == IF u \in Spring..(Autumn - 1) THEN Hour ELSE 0

Skipped(w)  == w \in Spring..(Spring + Hour - 1)
Repeated(w) == w \in Autumn..(Autumn + Hour - 1)
OffsetOf(w, fold) ==
    IF Skipped(w) THEN fold * Hour
    ELSE IF Repeated(w) THEN (1 - fold) * Hour
    ELSE Offset(w - Hour)

(* to_local and format_local: the reading only, the fold is not printed.    *)
ToLocal(u) == u + Offset(u)

(* to_utc leaves the fold of a naive reading at 0; parse_local sets it to 1. *)
ToUtc(w) == w - OffsetOf(w, 0)
ParseLocal(w) == w - OffsetOf(w, 1)

(* is_future (no grace) and is_past_or_now.                                 *)
IsFuture(u)    == u > clock
IsPastOrNow(u) == u <= clock

ClockInit == clock = 0 /\ chosen = Unset /\ shown = Unset /\ parsed = Unset

Format(u) == /\ chosen = Unset /\ IsFuture(u)
             /\ chosen' = u /\ shown' = ToLocal(u)
             /\ UNCHANGED <<clock, parsed>>

Parse == /\ shown # Unset /\ parsed = Unset
         /\ parsed' = ParseLocal(shown)
         /\ UNCHANGED <<clock, chosen, shown>>

(* The reading has come due and is forgotten.                               *)
Arrive == /\ parsed # Unset /\ IsPastOrNow(parsed)
          /\ chosen' = Unset /\ shown' = Unset /\ parsed' = Unset
          /\ UNCHANGED clock

(* advance, or time passing.                                                *)
Advance == clock < MaxInstant /\ clock' = clock + 1 /\ UNCHANGED <<chosen, shown, parsed>>

ClockNext == Parse \/ Arrive \/ Advance \/ \E u \in Instants : Format(u)
ClockSpec == ClockInit /\ [][ClockNext]_clockVars

-----------------------------------------------------------------------------
ClockTypeOK == /\ clock \in Instants
               /\ {chosen, parsed} \subseteq Instants \union {Unset}
               /\ shown \in Unset..(MaxInstant + Hour)

(* A time taken from the display and typed back is never an earlier time,   *)
(* so nothing comes due before the instant that was meant, and it is the    *)
(* same time but for the first pass of the repeated hour, which is read as  *)
(* the second.                                                             *)
NeverReadEarly ==
    parsed # Unset =>
        /\ IsPastOrNow(parsed) => IsPastOrNow(chosen)
        /\ parsed = IF chosen \in (Autumn - Hour)..(Autumn - 1) THEN chosen + Hour
                    ELSE chosen
=============================================================================
