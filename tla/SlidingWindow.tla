--------------------------- MODULE SlidingWindow ---------------------------
(***************************************************************************)
(* What the rate limiter promises, said over the complete log of the       *)
(* packets it let through: it clamps when the window that ends now already *)
(* holds `threshold' of them, and only then.  Nothing is ever purged here. *)
(*                                                                         *)
(* Time is read from one of two clocks.  A stamp of the wall clock says    *)
(* nothing about simulated time, yet a reading of simulated time may lie   *)
(* less than a window after it.  While it does, the promise is weaker: a   *)
(* clamp may count that packet and every later one, the expired included.  *)
(***************************************************************************)
EXTENDS Integers, Sequences, FiniteSets

CONSTANTS Names,      \* content names
          PHs,        \* values of the popularity hint
          WindowMs    \* length of the window

VARIABLES threshold,  \* packets let through per window
          clock,      \* "wall" until the simulation starts, then "sim"
          now,        \* time on that clock
          log,        \* name -> packets let through, oldest first
          answer      \* <<>>, or <<name, PH asked, clamped?, PH returned>>

vars == <<threshold, clock, now, log, answer>>

InWindow(e) == e.clock = clock /\ now - e.at <= WindowMs
Misread(e) == e.clock # clock /\ now - e.at \in 0..WindowMs

Count(n) == Cardinality({i \in DOMAIN log[n] : InWindow(log[n][i])})

CountSinceMisread(n) ==
  \E i \in DOMAIN log[n] :
    Misread(log[n][i]) /\ Len(log[n]) - i + 1 >= threshold

(* The PH of the last packet let through, the "previous PH" of a clamp. *)
Previous(n) == IF log[n] = << >> THEN 0 ELSE log[n][Len(log[n])].ph

Init ==
  /\ threshold \in Nat
  /\ clock = "wall"
  /\ now \in Nat
  /\ log = [n \in Names |-> << >>]
  /\ answer = << >>

LetThrough(n, ph) ==
  /\ Count(n) < threshold
  /\ log' = [log EXCEPT ![n] = Append(@, [clock |-> clock, at |-> now, ph |-> ph])]
  /\ answer' = <<n, ph, FALSE, ph>>
  /\ UNCHANGED <<threshold, clock, now>>

Clamp(n, ph) ==
  /\ Count(n) >= threshold \/ CountSinceMisread(n)
  /\ answer' = <<n, ph, TRUE, Previous(n)>>
  /\ UNCHANGED <<threshold, clock, now, log>>

Tick ==
  /\ \/ clock' = clock /\ now' >= now
     \/ clock = "wall" /\ clock' = "sim" /\ now' >= 0
  /\ UNCHANGED <<threshold, log, answer>>

Reset ==
  /\ log' = [n \in Names |-> << >>]
  /\ answer' = << >>
  /\ UNCHANGED <<threshold, clock, now>>

Next ==
  \/ \E n \in Names, ph \in PHs : LetThrough(n, ph) \/ Clamp(n, ph)
  \/ Tick
  \/ Reset

Spec == Init /\ [][Next]_vars
=============================================================================
