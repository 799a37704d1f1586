--------------------------- MODULE MCRateLimiter ---------------------------
(* One limiter per threshold and per start of the wall clock: early enough *)
(* for simulated time to overtake its stamps, or ahead of most of it.      *)
(* A threshold of 4 and five packets are the least with which stamps of    *)
(* both clocks are kept and an expired one of simulated time is counted.   *)
EXTENDS RateLimiter, TLC

CONSTANTS MaxSimNs,     \* bound: simulated time
          MaxWallMs,    \* bound: wall-clock time
          MaxRecorded   \* bound: packets let through in a behaviour

MCWallStarts == {1, MaxWallMs - 1}

Total[S \in SUBSET Names] ==
  IF S = {} THEN 0 ELSE LET n == CHOOSE n \in S : TRUE
                        IN Len(recorded[n]) + Total[S \ {n}]

Bounded == simNs <= MaxSimNs /\ wallMs <= MaxWallMs /\ Total[Names] <= MaxRecorded

Symmetry == Permutations(Names)

MCSpec == Init /\ [][Next /\ Bounded']_vars

=============================================================================
