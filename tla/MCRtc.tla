------------------------------- MODULE MCRtc -------------------------------
(* Instances of Rtc: dates from which a leap year, a common year and the    *)
(* end of a century are reached, and the moments of a day: the two beside   *)
(* midnight, and two more beside the end of a minute.                       *)
EXTENDS Rtc

MCStarts == {[year |-> 1999, month |-> 12, day |-> 20, today |-> 10945],
             [year |-> 2099, month |-> 12, day |-> 1, today |-> 47451]}
MCMidnight == {<<0, 0, 0>>, <<23, 59, 59>>}
MCMoments == MCMidnight \cup {<<0, 0, 59>>, <<0, 1, 0>>}
=============================================================================
