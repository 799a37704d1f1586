---------------------------- MODULE RateLimiter ----------------------------
(***************************************************************************)
(* The rate limiter of a router: class RateLimiter (model/rate-limiter.hpp,*)
(* model/rate-limiter.cpp), Algorithm 3 of the protocol.                   *)
(*                                                                         *)
(* Per content name it keeps the timestamps of the packets it let through  *)
(* and the PH of the last one.  It reads the simulated clock once that has *)
(* left 0 and a steady wall clock before, and subtracts timestamps as      *)
(* 64-bit unsigned numbers.                                                *)
(***************************************************************************)
EXTENDS Integers, Sequences, FiniteSets

CONSTANTS Names,       \* content names
          PHs,         \* values of the popularity hint in packets
          Thresholds,  \* the maxIncrPerWindow a limiter may be built with
          WindowMs,    \* m_windowMs, 60000 in the code
          NsPerMs,     \* resolution of simulated time, 1000000 in the code
          Word,        \* 2^64: timestamps are uint64_t
          WallStarts,  \* readings of the wall clock at construction
          Delays       \* by how much a clock may move forward in one step

ASSUME RateLimiterAssumption ==
  /\ PHs \subseteq Nat
  /\ Thresholds \subseteq Nat
  /\ NsPerMs \in Nat \ {0}
  /\ WindowMs \in Nat
  /\ Word \in Nat \ {0}
  /\ WallStarts \subseteq Nat
  /\ Delays \subseteq Nat \ {0}

VARIABLES m_maxIncrPerWindow,
          m_windows,    \* name -> [timestamps, lastPh]
          simNs,        \* Simulator::Now()
          wallMs,       \* steady_clock::now()
          recorded,     \* history: name -> every packet let through
          answer        \* <<>>, or <<name, PH, returned value, PH afterwards>>

clocks == <<simNs, wallMs>>
vars == <<m_maxIncrPerWindow, m_windows, simNs, wallMs, recorded, answer>>

Windows == [timestamps : Seq(Nat), lastPh : Nat]
Entries == [clock : {"wall", "sim"}, at : Nat, ph : PHs]

(* The types of the windows, clocks and history; no window holds more      *)
(* timestamps than the threshold.                                          *)
TypeOK ==
  /\ m_maxIncrPerWindow \in Thresholds
  /\ DOMAIN m_windows \subseteq Names
  /\ m_windows \in [DOMAIN m_windows -> Windows]
  /\ \A n \in DOMAIN m_windows :
       Len(m_windows[n].timestamps) <= m_maxIncrPerWindow
  /\ simNs \in Nat
  /\ wallMs \in Nat
  /\ recorded \in [Names -> Seq(Entries)]

InitLimiter ==
  /\ m_maxIncrPerWindow \in Thresholds
  /\ m_windows = << >>
  /\ simNs = 0
  /\ wallMs \in WallStarts

Init ==
  /\ InitLimiter
  /\ recorded = [n \in Names |-> << >>]
  /\ answer = << >>

Clock == IF simNs > 0 THEN "sim" ELSE "wall"

NowMs == IF simNs > 0 THEN simNs \div NsPerMs ELSE wallMs

(* now - t, as the uint64_t subtraction computes it. *)
Elapsed(t) == (NowMs - t) % Word

(* Mutant: a timestamp exactly one window old taken as expired. *)
ExpiredEarly(t) == Elapsed(t) >= WindowMs

Expired(t) == Elapsed(t) > WindowMs

(* Step 1: pop timestamps off the front while they are expired. *)
Purged(ts) ==
  SubSeq(ts, CHOOSE k \in 1..(Len(ts) + 1) :
               /\ \A i \in 1..(k - 1) : Expired(ts[i])
               /\ k <= Len(ts) => ~ Expired(ts[k]),
         Len(ts))

(* m_windows[contentName], which inserts an empty window for a new name. *)
Window(n) == IF n \in DOMAIN m_windows THEN m_windows[n]
                                       ELSE [timestamps |-> << >>, lastPh |-> 0]

Live(n) == Purged(Window(n).timestamps)

Store(n, w) == m_windows' = [m \in DOMAIN m_windows \cup {n} |->
                               IF m = n THEN w ELSE m_windows[m]]

(* Mutant: one packet more than the threshold let through. *)
AtLimitLate(n) == Len(Live(n)) > m_maxIncrPerWindow

AtLimit(n) == Len(Live(n)) >= m_maxIncrPerWindow

(* checkAndUpdate at or over the threshold; PH becomes Window(n).lastPh. *)
Clamp(n) ==
  /\ AtLimit(n)
  /\ Store(n, [timestamps |-> Live(n), lastPh |-> Window(n).lastPh])
  /\ UNCHANGED m_maxIncrPerWindow

(* Mutant: w.lastPh not brought up to date. *)
RecordStalePh(n, ph) ==
  /\ ~ AtLimit(n)
  /\ Store(n, [timestamps |-> Append(Live(n), NowMs), lastPh |-> Window(n).lastPh])
  /\ UNCHANGED m_maxIncrPerWindow

(* checkAndUpdate below the threshold; PH stays as it is. *)
Record(n, ph) ==
  /\ ~ AtLimit(n)
  /\ Store(n, [timestamps |-> Append(Live(n), NowMs), lastPh |-> ph])
  /\ UNCHANGED m_maxIncrPerWindow

Clear ==
  /\ m_windows' = << >>
  /\ UNCHANGED m_maxIncrPerWindow

(* The environment: both clocks only move forward. *)
AdvanceSim == (\E d \in Delays : simNs' = simNs + d) /\ UNCHANGED wallMs
AdvanceWall == (\E d \in Delays : wallMs' = wallMs + d) /\ UNCHANGED simNs

Log(n, ph) == recorded' = [recorded EXCEPT ![n] =
                Append(@, [clock |-> Clock, at |-> NowMs, ph |-> ph])]

Next ==
  \/ \E n \in Names, ph \in PHs :
       \/ /\ Clamp(n)
          /\ answer' = <<n, ph, TRUE, Window(n).lastPh>>
          /\ UNCHANGED <<clocks, recorded>>
       \/ /\ Record(n, ph)
          /\ Log(n, ph)
          /\ answer' = <<n, ph, FALSE, ph>>
          /\ UNCHANGED clocks
  \/ /\ Clear
     /\ recorded' = [n \in Names |-> << >>]
     /\ answer' = << >>
     /\ UNCHANGED clocks
  \/ /\ AdvanceSim \/ AdvanceWall
     /\ UNCHANGED <<m_maxIncrPerWindow, m_windows, recorded, answer>>

Spec == Init /\ [][Next]_vars

-----------------------------------------------------------------------------
(***************************************************************************)
(* Properties.                                                             *)
(***************************************************************************)

(* No window holds more packets than the threshold: of the packets let     *)
(* through for a name, any two that are threshold places apart and were    *)
(* stamped by the same clock lie more than a window apart.  It holds       *)
(* across purges, clamped calls and the switch of clocks.                  *)
BurstBound ==
  \A n \in Names : \A i \in DOMAIN recorded[n] :
    LET j == i + m_maxIncrPerWindow IN
      (j \in DOMAIN recorded[n] /\ recorded[n][i].clock = recorded[n][j].clock)
        => recorded[n][j].at - recorded[n][i].at > WindowMs

(* checkAndUpdate answers every call as the SlidingWindow over the whole   *)
(* history would, although it forgets timestamps as they expire: clamped   *)
(* when the window is full, with the PH last let through, and never        *)
(* earlier unless a wall-clock stamp is mistaken for a recent one: the     *)
(* purge stops at such a stamp and counts what is queued behind it.        *)
Promise == INSTANCE SlidingWindow
             WITH threshold <- m_maxIncrPerWindow,
                  clock <- Clock, now <- NowMs, log <- recorded

ImplementsWindow == Promise!Spec

(* rate-limiter.cpp:50: the clamp is there "to prevent inflation", so the  *)
(* PH it returns would never exceed the PH the packet carried.             *)
ClampNeverInflates == (answer # << >> /\ answer[3]) => answer[4] <= answer[2]
=============================================================================
