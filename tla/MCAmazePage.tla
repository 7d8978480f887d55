----------------------------- MODULE MCAmazePage -----------------------------
(* The widgets of a page, for TLC. *)
EXTENDS AmazePage

\* A wide and a high window; a popover that just does not fit above some spots, and one
\* too high for above and below; spots at the edges of sizePopover()'s comparisons.
WindowsDef == {[w |-> 120, h |-> 60], [w |-> 60, h |-> 90]}
BoxesDef   == {[w |-> 30, h |-> 20], [w |-> 34, h |-> 31]}
SpotsDef   == [left : {-40, 0, 40}, top : {24, 25, 50}]
TriggerDef == [w |-> 16, h |-> 10]

\* Two options of a selector have one value; a text that is found in two of three.
OptionValueDef == <<"x", "y", "y">>
FindsDef == [w1 |-> {1, 2}]

\* The last day of a month, in a leap year; a day of the year before; and one that is
\* not in the calendar.
Day(year, mon, d) == [y |-> year, m |-> mon - 1, d |-> d]
TodayDef == Day(2024, 1, 31)
TypedDef == {NoDate, Day(2023, 12, 31), Day(2024, 2, 30)}
ModesDef == {[start |-> 0, min |-> 0], [start |-> 2, min |-> 1]}

FirstImagesDef == <<"a", "b">>
=============================================================================
