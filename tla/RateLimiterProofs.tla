------------------------- MODULE RateLimiterProofs -------------------------
(***************************************************************************)
(* Theorems about the rate limiter, for every threshold, window length,    *)
(* clock resolution, word size and set of names.  What makes the bound on  *)
(* bursts inductive is the relation of a window to the complete log of its *)
(* name: the timestamps kept are the last ones of the log, and those       *)
(* purged, unless another clock stamped them, are older than the window.   *)
(* The word may be too small for the difference of two clock readings: the *)
(* difference modulo the word is then less than the difference, a          *)
(* timestamp lives longer, and the bound still holds.                      *)
(* The refinement to a sliding window over the whole log comes last; it    *)
(* needs the order of the log, and clocks that stay within the word.       *)
(***************************************************************************)
EXTENDS RateLimiter, SequenceTheorems, FiniteSetTheorems,
        WellFoundedInduction, TLAPS

-----------------------------------------------------------------------------
(* Lemmas: numbers and purged sequences. *)

(* A set of natural numbers that is not empty has a least element. *)
LEMMA LeastElement ==
  ASSUME NEW T \in SUBSET Nat, T # {}
  PROVE  \E x \in T : \A y \in T : x <= y
<1> DEFINE Less == {p \in Nat \X Nat : p[1] < p[2]}
<1>1. IsWellFoundedOn(Less, Nat)
  BY NatLessThanWellFounded DEF OpToRel
<1>2. PICK x \in T : \A y \in T : ~ (<<y, x>> \in Less)
  <2> HIDE DEF Less
  <2> QED BY <1>1, WFMin
<1>3. ASSUME NEW y \in T
      PROVE  x <= y
  <2>1. x \in Nat /\ y \in Nat
    OBVIOUS
  <2>2. ~ (y < x)
    <3>1. <<y, x>>[1] = y /\ <<y, x>>[2] = x /\ <<y, x>> \in Nat \X Nat
      BY <2>1
    <3>2. <<y, x>> \notin Less
      BY <1>2
    <3> QED BY <3>1, <3>2
  <2> QED BY <2>1, <2>2
<1> QED BY <1>3

(* A remainder is no more than the number divided. *)
LEMMA ModAtMost ==
  ASSUME NEW a \in Nat, NEW w \in Nat \ {0}
  PROVE  a % w \in Nat /\ a % w <= a
<1>1. a % w \in 0..(w - 1)
  OBVIOUS
<1>2. CASE a < w
  <2>1. a % w = a
    BY <1>2
  <2> QED BY <2>1
<1>3. CASE a >= w
  BY <1>1, <1>3
<1> QED BY <1>2, <1>3

(* Division by a positive number keeps the order. *)
LEMMA DivMonotone ==
  ASSUME NEW a \in Nat, NEW b \in Nat, NEW w \in Nat \ {0}, a <= b
  PROVE  a \div w <= b \div w
OBVIOUS

(* A quotient of natural numbers is a natural number. *)
LEMMA DivNat ==
  ASSUME NEW a \in Nat, NEW w \in Nat \ {0}
  PROVE  a \div w \in Nat
OBVIOUS

(* nowMs() returns a natural number, whichever clock it reads. *)
LEMMA NowNat ==
  ASSUME simNs \in Nat, wallMs \in Nat
  PROVE  NowMs \in Nat
<1>1. NsPerMs \in Nat \ {0}
  BY RateLimiterAssumption
<1>2. simNs \div NsPerMs \in Nat
  BY <1>1
<1> QED BY <1>2 DEF NowMs

(* Purging cuts an expired prefix off and stops at what is not expired.    *)
LEMMA PurgedFacts ==
  ASSUME NEW ts \in Seq(Nat)
  PROVE  \E k \in 1..(Len(ts) + 1) :
           /\ Purged(ts) = SubSeq(ts, k, Len(ts))
           /\ \A i \in 1..(k - 1) : Expired(ts[i])
           /\ k <= Len(ts) => ~ Expired(ts[k])
<1> DEFINE P(k) == /\ \A i \in 1..(k - 1) : Expired(ts[i])
                   /\ k <= Len(ts) => ~ Expired(ts[k])
           T == {k \in 1..(Len(ts) + 1) : k <= Len(ts) => ~ Expired(ts[k])}
<1>1. Len(ts) \in Nat
  BY LenProperties
<1>2. Len(ts) + 1 \in T /\ T \in SUBSET Nat
  BY <1>1
<1>3. PICK k \in T : \A y \in T : k <= y
  <2> HIDE DEF T
  <2> QED BY <1>2, LeastElement
<1>4. \A i \in 1..(k - 1) : Expired(ts[i])
  <2> TAKE i \in 1..(k - 1)
  <2>1. i \in 1..(Len(ts) + 1) /\ i <= Len(ts) /\ ~ (k <= i)
    BY <1>1, <1>3
  <2> QED BY <1>3, <2>1
<1>5. k \in 1..(Len(ts) + 1) /\ P(k)
  BY <1>3, <1>4
<1>6. \E j \in 1..(Len(ts) + 1) : P(j)
  BY <1>5
<1>7. Purged(ts) = SubSeq(ts, CHOOSE j \in 1..(Len(ts) + 1) : P(j), Len(ts))
  BY DEF Purged
<1> DEFINE c == CHOOSE j \in 1..(Len(ts) + 1) : P(j)
<1>8. c \in 1..(Len(ts) + 1) /\ P(c)
  <2> HIDE DEF P
  <2> QED BY <1>6
<1> HIDE DEF c
<1>9. Purged(ts) = SubSeq(ts, c, Len(ts))
  BY <1>7 DEF c
<1> QED BY <1>8, <1>9

-----------------------------------------------------------------------------
(* The invariant. *)

(* ts holds the last timestamps of the log; the entries before these are   *)
(* older than the window, as far as the clock now in use can tell.         *)
Fits(ts, log) ==
  /\ Len(ts) <= Len(log)
  /\ \A k \in 1..Len(ts) : ts[k] = log[Len(log) - Len(ts) + k].at
  /\ \A i \in 1..(Len(log) - Len(ts)) :
       log[i].clock = Clock => NowMs - log[i].at > WindowMs

(* No entry of a log lies in the future, or was stamped by simulated time  *)
(* before that had begun.                                                  *)
Past(log) ==
  \A i \in 1..Len(log) :
    /\ log[i].clock = Clock => log[i].at <= NowMs
    /\ log[i].clock = "sim" => simNs > 0

(* Entries the threshold apart are more than a window apart. *)
Spread(log) ==
  \A i, j \in 1..Len(log) :
    (j = i + m_maxIncrPerWindow /\ log[i].clock = log[j].clock)
      => log[j].at - log[i].at > WindowMs

(* The inductive invariant. *)
IInv ==
  /\ TypeOK
  /\ \A n \in Names :
       /\ Fits(Window(n).timestamps, recorded[n])
       /\ Past(recorded[n])
       /\ Spread(recorded[n])

-----------------------------------------------------------------------------
(* Lemmas: one call of checkAndUpdate, for one window and its log. *)

(* Purging keeps the window true to its log.                               *)
LEMMA PurgeFits ==
  ASSUME NEW ts \in Seq(Nat), NEW log \in Seq(Entries),
         simNs \in Nat, wallMs \in Nat, Fits(ts, log), Past(log)
  PROVE  /\ Purged(ts) \in Seq(Nat)
         /\ Len(Purged(ts)) <= Len(ts)
         /\ Fits(Purged(ts), log)
<1> DEFINE L == Len(ts)
           M == Len(log)
<1>1. L \in Nat /\ M \in Nat /\ L <= M
  BY LenProperties DEF Fits
<1>2. PICK k \in 1..(L + 1) :
        /\ Purged(ts) = SubSeq(ts, k, L)
        /\ \A i \in 1..(k - 1) : Expired(ts[i])
  BY PurgedFacts
<1>3. \A i \in k..L : ts[i] \in Nat
  BY <1>1, ElementOfSeq
<1>4. /\ SubSeq(ts, k, L) \in Seq(Nat)
      /\ Len(SubSeq(ts, k, L)) = IF k <= L THEN L - k + 1 ELSE 0
      /\ \A i \in 1..(L - k + 1) : SubSeq(ts, k, L)[i] = ts[k + i - 1]
  <2> HIDE DEF L
  <2> QED BY <1>1, <1>3, SubSeqProperties
<1>5. /\ Purged(ts) \in Seq(Nat)
      /\ Len(Purged(ts)) = L - k + 1
      /\ \A i \in 1..(L - k + 1) : Purged(ts)[i] = ts[k + i - 1]
  BY <1>1, <1>2, <1>4
<1>6. \A i \in 1..L : ts[i] = log[M - L + i].at
  BY DEF Fits
<1>7. \A i \in 1..(M - L) : log[i].clock = Clock => NowMs - log[i].at > WindowMs
  BY DEF Fits
<1>8. \A i \in 1..M : log[i].at \in Nat
  <2> TAKE i \in 1..M
  <2>1. log[i] \in Entries
    <3> HIDE DEF Entries
    <3> QED BY ElementOfSeq
  <2> QED BY <2>1 DEF Entries
<1> HIDE DEF L, M
<1>9. \A i \in 1..(L - k + 1) :
        Purged(ts)[i] = log[M - (L - k + 1) + i].at
  <2> TAKE i \in 1..(L - k + 1)
  <2>1. k + i - 1 \in 1..L /\ M - L + (k + i - 1) = M - (L - k + 1) + i
    BY <1>1
  <2> QED BY <1>5, <1>6, <2>1
<1>10. \A i \in 1..(M - (L - k + 1)) :
         log[i].clock = Clock => NowMs - log[i].at > WindowMs
  <2> TAKE i \in 1..(M - (L - k + 1))
  <2>1. CASE i <= M - L
    BY <1>1, <1>7, <2>1
  <2>2. CASE ~ (i <= M - L) /\ log[i].clock = Clock
    <3> DEFINE p == i - (M - L)
    <3>1. p \in 1..(k - 1) /\ p \in 1..L /\ M - L + p = i /\ i \in 1..M
      BY <1>1, <2>2
    <3>2. Expired(ts[p]) /\ ts[p] = log[i].at
      BY <1>2, <1>6, <3>1
    <3>3. log[i].at <= NowMs /\ log[i].at \in Nat /\ NowMs \in Nat
      BY <1>8, <2>2, <3>1, NowNat DEF Past, M
    <3>4. (NowMs - log[i].at) % Word > WindowMs
      BY <3>2 DEF Expired, Elapsed
    <3> DEFINE a == NowMs - log[i].at
    <3>5. a \in Nat /\ WindowMs \in Nat /\ Word \in Nat \ {0}
      BY <3>3, RateLimiterAssumption
    <3>6. a % Word > WindowMs
      BY <3>4
    <3> HIDE DEF a
    <3>7. a % Word \in Nat /\ a % Word <= a
      BY <3>5, ModAtMost
    <3>8. a > WindowMs
      BY <3>5, <3>6, <3>7
    <3> QED BY <3>8 DEF a
  <2> QED BY <2>1, <2>2
<1>11. Len(Purged(ts)) <= L /\ Len(Purged(ts)) <= M
  BY <1>1, <1>5
<1>12. Fits(Purged(ts), log)
  BY <1>5, <1>9, <1>10, <1>11 DEF Fits, M
<1> QED BY <1>5, <1>11, <1>12 DEF L

(* Letting a packet through below the threshold keeps it so, and keeps the *)
(* entries of the log spread out.                                          *)
LEMMA AppendFits ==
  ASSUME NEW ts \in Seq(Nat), NEW log \in Seq(Entries), NEW ph \in PHs,
         simNs \in Nat, wallMs \in Nat, m_maxIncrPerWindow \in Nat,
         Len(ts) < m_maxIncrPerWindow,
         Fits(ts, log), Past(log), Spread(log)
  PROVE  LET e == [clock |-> Clock, at |-> NowMs, ph |-> ph] IN
           /\ Append(log, e) \in Seq(Entries)
           /\ Fits(Append(ts, NowMs), Append(log, e))
           /\ Past(Append(log, e))
           /\ Spread(Append(log, e))
<1> DEFINE e == [clock |-> Clock, at |-> NowMs, ph |-> ph]
           L == Len(ts)
           M == Len(log)
           log2 == Append(log, e)
           ts2 == Append(ts, NowMs)
           T == m_maxIncrPerWindow
<1>1. NowMs \in Nat /\ e \in Entries
  BY NowNat DEF Entries, Clock
<1>2. L \in Nat /\ M \in Nat /\ L <= M
  BY LenProperties DEF Fits
<1>3. /\ log2 \in Seq(Entries) /\ Len(log2) = M + 1
      /\ \A i \in 1..M : log2[i] = log[i]
      /\ log2[M + 1] = e
  <2> HIDE DEF e
  <2> QED BY <1>1, AppendProperties
<1>4. /\ Len(ts2) = L + 1
      /\ \A i \in 1..L : ts2[i] = ts[i]
      /\ ts2[L + 1] = NowMs
  BY <1>1, AppendProperties
<1>5. e.clock = Clock /\ e.at = NowMs
  OBVIOUS
<1>6. /\ \A i \in 1..L : ts[i] = log[M - L + i].at
      /\ \A i \in 1..(M - L) : log[i].clock = Clock => NowMs - log[i].at > WindowMs
  BY DEF Fits
<1>7. T \in Nat /\ L < T
  OBVIOUS
<1>8. /\ \A i \in 1..M : log[i].clock = Clock => log[i].at <= NowMs
      /\ \A i \in 1..M : log[i].clock = "sim" => simNs > 0
  BY DEF Past
<1>9. \A i, j \in 1..M :
        (j = i + T /\ log[i].clock = log[j].clock) => log[j].at - log[i].at > WindowMs
  BY DEF Spread
<1>10. Clock = "sim" => simNs > 0
  BY DEF Clock
<1> HIDE DEF e, L, M, log2, ts2, T
<1>11. Fits(ts2, log2)
  <2>1. \A k \in 1..(L + 1) : ts2[k] = log2[(M + 1) - (L + 1) + k].at
    <3> TAKE k \in 1..(L + 1)
    <3>1. CASE k = L + 1
      <4>1. (M + 1) - (L + 1) + k = M + 1
        BY <1>2, <3>1
      <4> QED BY <1>3, <1>4, <1>5, <3>1, <4>1
    <3>2. CASE k # L + 1
      <4>1. k \in 1..L /\ (M + 1) - (L + 1) + k = M - L + k /\ M - L + k \in 1..M
        BY <1>2, <3>2
      <4> QED BY <1>3, <1>4, <1>6, <4>1
    <3> QED BY <3>1, <3>2
  <2>2. \A i \in 1..((M + 1) - (L + 1)) :
          log2[i].clock = Clock => NowMs - log2[i].at > WindowMs
    <3> TAKE i \in 1..((M + 1) - (L + 1))
    <3>1. i \in 1..(M - L) /\ i \in 1..M
      BY <1>2
    <3> QED BY <1>3, <1>6, <3>1
  <2>3. L + 1 <= M + 1
    BY <1>2
  <2> QED BY <1>3, <1>4, <2>1, <2>2, <2>3 DEF Fits
<1>12. Past(log2)
  <2> SUFFICES ASSUME NEW i \in 1..(M + 1)
               PROVE  /\ log2[i].clock = Clock => log2[i].at <= NowMs
                      /\ log2[i].clock = "sim" => simNs > 0
    BY <1>3 DEF Past
  <2>1. CASE i = M + 1
    BY <1>1, <1>3, <1>5, <1>10, <2>1
  <2>2. CASE i # M + 1
    <3>1. i \in 1..M
      BY <1>2, <2>2
    <3> QED BY <1>3, <1>8, <3>1
  <2> QED BY <2>1, <2>2
<1>13. Spread(log2)
  <2> SUFFICES ASSUME NEW i \in 1..(M + 1), NEW j \in 1..(M + 1),
                      j = i + T, log2[i].clock = log2[j].clock
               PROVE  log2[j].at - log2[i].at > WindowMs
    BY <1>3 DEF Spread, T
  <2>1. i \in 1..M
    BY <1>2, <1>7
  <2>2. CASE j = M + 1
    <3>1. i \in 1..(M - L)
      BY <1>2, <1>7, <2>1, <2>2
    <3> QED BY <1>3, <1>5, <1>6, <2>1, <2>2, <3>1
  <2>3. CASE j # M + 1
    <3>1. j \in 1..M
      BY <1>2, <2>3
    <3> QED BY <1>3, <1>9, <2>1, <3>1
  <2> QED BY <2>2, <2>3
<1> QED BY <1>3, <1>11, <1>12, <1>13 DEF e, log2, ts2

(* A clock that moves forward leaves the expired entries expired and the   *)
(* past past.  When simulated time begins, the entries stamped by the      *)
(* other clock cease to matter.                                            *)
LEMMA ClockMoves ==
  ASSUME NEW ts \in Seq(Nat), NEW log \in Seq(Entries),
         simNs \in Nat, wallMs \in Nat, Fits(ts, log), Past(log),
         simNs' \in Nat, wallMs' \in Nat,
         simNs' >= simNs, wallMs' >= wallMs
  PROVE  Fits(ts, log)' /\ Past(log)'
<1> DEFINE L == Len(ts)
           M == Len(log)
<1>1. L \in Nat /\ M \in Nat /\ L <= M
  BY LenProperties DEF Fits
<1>2. NowMs \in Nat /\ NowMs' \in Nat
  <2>1. NsPerMs \in Nat \ {0}
    BY RateLimiterAssumption
  <2>2. simNs' \div NsPerMs \in Nat
    BY <2>1, DivNat
  <2> QED BY <2>2, NowNat DEF NowMs
<1>3. \A i \in 1..M : log[i].at \in Nat /\ log[i].clock \in {"wall", "sim"}
  <2> TAKE i \in 1..M
  <2>1. log[i] \in Entries
    <3> HIDE DEF Entries
    <3> QED BY ElementOfSeq
  <2> QED BY <2>1 DEF Entries
<1>4. /\ \A k \in 1..L : ts[k] = log[M - L + k].at
      /\ \A i \in 1..(M - L) : log[i].clock = Clock => NowMs - log[i].at > WindowMs
      /\ \A i \in 1..M : log[i].clock = Clock => log[i].at <= NowMs
      /\ \A i \in 1..M : log[i].clock = "sim" => simNs > 0
  BY DEF Fits, Past
<1>5. CASE Clock' = Clock
  <2>1. NowMs <= NowMs'
    <3>1. NsPerMs \in Nat \ {0}
      BY RateLimiterAssumption
    <3>2. simNs \div NsPerMs <= simNs' \div NsPerMs
      BY <3>1, DivMonotone
    <3> QED BY <1>5, <3>2 DEF NowMs, Clock
  <2>2. WindowMs \in Nat
    BY RateLimiterAssumption
  <2>3. \A i \in 1..(M - L) : i \in 1..M
    BY <1>1
  <2>4. \A i \in 1..(M - L) : log[i].clock = Clock' => NowMs' - log[i].at > WindowMs
    BY <1>2, <1>3, <1>4, <1>5, <2>1, <2>2, <2>3
  <2>5. \A i \in 1..M : log[i].clock = Clock' => log[i].at <= NowMs'
    BY <1>2, <1>3, <1>4, <1>5, <2>1
  <2> QED BY <1>1, <1>4, <2>4, <2>5 DEF Fits, Past
<1>6. CASE Clock' # Clock
  <2>1. Clock' = "sim" /\ simNs = 0 /\ simNs' > 0
    BY <1>6 DEF Clock
  <2>2. \A i \in 1..M : log[i].clock # Clock'
    BY <1>4, <2>1
  <2>3. \A i \in 1..(M - L) : i \in 1..M
    BY <1>1
  <2> QED BY <1>1, <1>4, <2>1, <2>2, <2>3 DEF Fits, Past
<1> QED BY <1>5, <1>6

-----------------------------------------------------------------------------
(* The invariant of the specification. *)

(* m_windows[n] has the type of a window, for a new name too. *)
LEMMA WindowTypes ==
  ASSUME TypeOK, NEW n \in Names
  PROVE  /\ Window(n) \in Windows
         /\ Len(Window(n).timestamps) <= m_maxIncrPerWindow
         /\ m_maxIncrPerWindow \in Nat
<1>1. m_maxIncrPerWindow \in Nat
  BY RateLimiterAssumption DEF TypeOK
<1>2. CASE n \in DOMAIN m_windows
  BY <1>1, <1>2 DEF TypeOK, Window
<1>3. CASE n \notin DOMAIN m_windows
  <2>1. Window(n) = [timestamps |-> << >>, lastPh |-> 0]
    BY <1>3 DEF Window
  <2>2. << >> \in Seq(Nat) /\ Len(<< >>) = 0
    OBVIOUS
  <2> QED BY <1>1, <2>1, <2>2 DEF Windows
<1> QED BY <1>2, <1>3

(* Replacing the window of a name keeps the types.                         *)
LEMMA StoreTypes ==
  ASSUME TypeOK, NEW n \in Names, NEW w \in Windows,
         Len(w.timestamps) <= m_maxIncrPerWindow, Store(n, w)
  PROVE  /\ DOMAIN m_windows' \subseteq Names
         /\ m_windows' \in [DOMAIN m_windows' -> Windows]
         /\ \A m \in DOMAIN m_windows' :
              Len(m_windows'[m].timestamps) <= m_maxIncrPerWindow
         /\ \A m \in Names : Window(m)' = IF m = n THEN w ELSE Window(m)
<1>1. DOMAIN m_windows' = DOMAIN m_windows \cup {n}
  BY DEF Store
<1>2. \A m \in DOMAIN m_windows' :
        m_windows'[m] = IF m = n THEN w ELSE m_windows[m]
  BY <1>1 DEF Store
<1>3. \A m \in DOMAIN m_windows : m_windows[m] \in Windows
  BY DEF TypeOK
<1>4. m_windows' \in [DOMAIN m_windows' -> Windows]
  <2>1. m_windows' = [m \in DOMAIN m_windows' |-> m_windows'[m]]
    BY <1>1 DEF Store
  <2>2. \A m \in DOMAIN m_windows' : m_windows'[m] \in Windows
    BY <1>1, <1>2, <1>3
  <2> QED BY <2>1, <2>2
<1>5. \A m \in Names : Window(m)' = IF m = n THEN w ELSE Window(m)
  BY <1>1, <1>2 DEF Window
<1> QED BY <1>1, <1>2, <1>4, <1>5 DEF TypeOK

(* A new limiter satisfies the invariant. *)
LEMMA InitIInv == Init => IInv
<1> SUFFICES ASSUME Init PROVE IInv
  OBVIOUS
<1> USE DEF Init, InitLimiter
<1>1. << >> \in Seq(Entries) /\ << >> \in Seq(Nat) /\ Len(<< >>) = 0
  OBVIOUS
<1>2. DOMAIN m_windows = {}
  OBVIOUS
<1>3. TypeOK
  <2>1. m_windows \in [DOMAIN m_windows -> Windows]
    BY <1>2
  <2>2. recorded \in [Names -> Seq(Entries)]
    BY <1>1
  <2>3. wallMs \in Nat
    BY RateLimiterAssumption
  <2> QED BY <1>2, <2>1, <2>2, <2>3 DEF TypeOK
<1>4. ASSUME NEW n \in Names
      PROVE  /\ Fits(Window(n).timestamps, recorded[n])
             /\ Past(recorded[n]) /\ Spread(recorded[n])
  <2>1. recorded[n] = << >> /\ Window(n).timestamps = << >>
    BY <1>2 DEF Window
  <2> QED BY <1>1, <2>1 DEF Fits, Past, Spread
<1> QED BY <1>3, <1>4 DEF IInv

(* A call that is clamped. *)
LEMMA ClampKeeps ==
  ASSUME IInv, NEW n \in Names, Clamp(n), UNCHANGED <<clocks, recorded>>
  PROVE  IInv'
<1> DEFINE ts == Window(n).timestamps
           w == [timestamps |-> Live(n), lastPh |-> Window(n).lastPh]
<1>1. TypeOK /\ simNs \in Nat /\ wallMs \in Nat
  BY DEF IInv, TypeOK
<1>2. /\ ts \in Seq(Nat) /\ Window(n).lastPh \in Nat
      /\ Len(ts) <= m_maxIncrPerWindow /\ m_maxIncrPerWindow \in Nat
  BY <1>1, WindowTypes DEF Windows
<1>3. recorded[n] \in Seq(Entries) /\ Fits(ts, recorded[n]) /\ Past(recorded[n])
  BY <1>1 DEF IInv, TypeOK
<1>4. Live(n) \in Seq(Nat) /\ Len(Live(n)) <= Len(ts) /\ Fits(Live(n), recorded[n])
  BY <1>1, <1>2, <1>3, PurgeFits DEF Live
<1>5. w \in Windows /\ Len(w.timestamps) <= m_maxIncrPerWindow
  BY <1>2, <1>4, LenProperties DEF Windows
<1>6. Store(n, w) /\ m_maxIncrPerWindow' = m_maxIncrPerWindow
  BY DEF Clamp
<1>7. /\ simNs' = simNs /\ wallMs' = wallMs /\ recorded' = recorded
  BY DEF clocks
<1> HIDE DEF w
<1>8. TypeOK'
  BY <1>1, <1>5, <1>6, <1>7, StoreTypes DEF TypeOK
<1>9. \A m \in Names : Window(m)' = IF m = n THEN w ELSE Window(m)
  BY <1>1, <1>5, <1>6, StoreTypes
<1>10. ASSUME NEW m \in Names
       PROVE  (/\ Fits(Window(m).timestamps, recorded[m])
               /\ Past(recorded[m]) /\ Spread(recorded[m]))'
  <2>1. Fits(Window(m)'.timestamps, recorded[m])
    BY <1>4, <1>9 DEF IInv, w
  <2>2. Past(recorded[m]) /\ Spread(recorded[m])
    BY DEF IInv
  <2> QED BY <1>6, <1>7, <2>1, <2>2 DEF Fits, Past, Spread, Clock, NowMs
<1> QED BY <1>8, <1>10 DEF IInv

(* A call that is let through. *)
LEMMA RecordKeeps ==
  ASSUME IInv, NEW n \in Names, NEW ph \in PHs,
         Record(n, ph), Log(n, ph), UNCHANGED clocks
  PROVE  IInv'
<1> DEFINE ts == Window(n).timestamps
           e == [clock |-> Clock, at |-> NowMs, ph |-> ph]
           ts2 == Append(Live(n), NowMs)
           log2 == Append(recorded[n], e)
           w == [timestamps |-> ts2, lastPh |-> ph]
<1>1. TypeOK /\ simNs \in Nat /\ wallMs \in Nat
  BY DEF IInv, TypeOK
<1>2. /\ ts \in Seq(Nat) /\ Len(ts) <= m_maxIncrPerWindow
      /\ m_maxIncrPerWindow \in Nat
  BY <1>1, WindowTypes DEF Windows
<1>3. /\ recorded[n] \in Seq(Entries) /\ Fits(ts, recorded[n])
      /\ Past(recorded[n]) /\ Spread(recorded[n])
  BY <1>1 DEF IInv, TypeOK
<1>4. Live(n) \in Seq(Nat) /\ Fits(Live(n), recorded[n])
  BY <1>1, <1>2, <1>3, PurgeFits DEF Live
<1>5. Len(Live(n)) < m_maxIncrPerWindow /\ Len(Live(n)) \in Nat
  BY <1>2, <1>4, LenProperties DEF Record, AtLimit
<1>6. /\ log2 \in Seq(Entries) /\ Fits(ts2, log2)
      /\ Past(log2) /\ Spread(log2)
  BY <1>1, <1>2, <1>3, <1>4, <1>5, AppendFits
<1>7. w \in Windows /\ Len(w.timestamps) <= m_maxIncrPerWindow
  <2>1. NowMs \in Nat
    BY <1>1, NowNat
  <2>2. ts2 \in Seq(Nat) /\ Len(ts2) = Len(Live(n)) + 1
    BY <1>4, <2>1, AppendProperties
  <2>3. ph \in Nat
    BY RateLimiterAssumption
  <2> QED BY <1>2, <1>5, <2>2, <2>3 DEF Windows
<1>8. Store(n, w) /\ m_maxIncrPerWindow' = m_maxIncrPerWindow
  BY DEF Record
<1>9. /\ simNs' = simNs /\ wallMs' = wallMs
      /\ recorded' = [recorded EXCEPT ![n] = log2]
  BY DEF clocks, Log
<1> HIDE DEF w, log2
<1>10. TypeOK'
  <2>1. recorded' \in [Names -> Seq(Entries)]
    BY <1>1, <1>6, <1>9 DEF TypeOK
  <2> QED BY <1>1, <1>7, <1>8, <1>9, <2>1, StoreTypes DEF TypeOK
<1>11. \A m \in Names : Window(m)' = IF m = n THEN w ELSE Window(m)
  BY <1>1, <1>7, <1>8, StoreTypes
<1>12. \A m \in Names : recorded'[m] = IF m = n THEN log2 ELSE recorded[m]
  BY <1>1, <1>9 DEF TypeOK
<1>13. ASSUME NEW m \in Names
       PROVE  (/\ Fits(Window(m).timestamps, recorded[m])
               /\ Past(recorded[m]) /\ Spread(recorded[m]))'
  <2>1. /\ Fits(Window(m)'.timestamps, recorded'[m])
        /\ Past(recorded'[m]) /\ Spread(recorded'[m])
    <3>1. CASE m = n
      <4>1. Window(m)' = w /\ recorded'[m] = log2
        BY <1>11, <1>12, <3>1
      <4>2. w.timestamps = ts2
        BY DEF w
      <4> QED BY <1>6, <4>1, <4>2
    <3>2. CASE m # n
      BY <1>11, <1>12, <3>2 DEF IInv
    <3> QED BY <3>1, <3>2
  <2> QED BY <1>8, <1>9, <2>1 DEF Fits, Past, Spread, Clock, NowMs
<1> QED BY <1>10, <1>13 DEF IInv

(* clear(), which drops windows and log together. *)
LEMMA ClearKeeps ==
  ASSUME IInv, Clear, recorded' = [n \in Names |-> << >>], UNCHANGED clocks
  PROVE  IInv'
<1>1. << >> \in Seq(Entries) /\ << >> \in Seq(Nat) /\ Len(<< >>) = 0
  OBVIOUS
<1>2. DOMAIN m_windows' = {} /\ m_maxIncrPerWindow' = m_maxIncrPerWindow
  BY DEF Clear
<1>3. TypeOK'
  <2>1. m_windows' \in [DOMAIN m_windows' -> Windows]
    BY <1>2 DEF Clear
  <2>2. recorded' \in [Names -> Seq(Entries)]
    BY <1>1
  <2>3. /\ m_maxIncrPerWindow \in Thresholds /\ simNs' \in Nat /\ wallMs' \in Nat
    BY DEF IInv, TypeOK, clocks
  <2> QED BY <1>2, <2>1, <2>2, <2>3 DEF TypeOK
<1>4. ASSUME NEW n \in Names
      PROVE  (/\ Fits(Window(n).timestamps, recorded[n])
              /\ Past(recorded[n]) /\ Spread(recorded[n]))'
  <2>1. recorded'[n] = << >> /\ Window(n)'.timestamps = << >>
    BY <1>2 DEF Window
  <2> QED BY <1>1, <2>1 DEF Fits, Past, Spread
<1> QED BY <1>3, <1>4 DEF IInv

(* A step of either clock. *)
LEMMA AdvanceKeeps ==
  ASSUME IInv, AdvanceSim \/ AdvanceWall,
         UNCHANGED <<m_maxIncrPerWindow, m_windows, recorded, answer>>
  PROVE  IInv'
<1>1. /\ m_maxIncrPerWindow' = m_maxIncrPerWindow
      /\ m_windows' = m_windows /\ recorded' = recorded
  OBVIOUS
<1>2. TypeOK /\ simNs \in Nat /\ wallMs \in Nat
  BY DEF IInv, TypeOK
<1>3. /\ simNs' \in Nat /\ wallMs' \in Nat
      /\ simNs' >= simNs /\ wallMs' >= wallMs
  BY <1>2, RateLimiterAssumption DEF AdvanceSim, AdvanceWall
<1>4. TypeOK'
  BY <1>1, <1>2, <1>3 DEF TypeOK
<1>5. ASSUME NEW n \in Names
      PROVE  (/\ Fits(Window(n).timestamps, recorded[n])
              /\ Past(recorded[n]) /\ Spread(recorded[n]))'
  <2>1. Window(n).timestamps \in Seq(Nat) /\ recorded[n] \in Seq(Entries)
    BY <1>2, WindowTypes DEF Windows, TypeOK
  <2>2. PICK ts \in Seq(Nat) : ts = Window(n).timestamps
    BY <2>1
  <2>3. PICK log \in Seq(Entries) : log = recorded[n]
    BY <2>1
  <2>4. Fits(ts, log) /\ Past(log) /\ Spread(log)
    BY <2>2, <2>3 DEF IInv
  <2>5. Fits(ts, log)' /\ Past(log)'
    BY <1>2, <1>3, <2>4, ClockMoves
  <2>6. Window(n)'.timestamps = ts /\ recorded'[n] = log
    BY <1>1, <2>2, <2>3 DEF Window
  <2>7. Spread(log)'
    BY <1>1, <2>4 DEF Spread
  <2> QED BY <2>5, <2>6, <2>7 DEF Fits, Past, Spread
<1> QED BY <1>4, <1>5 DEF IInv

(* Every step keeps the invariant: one case per action. *)
LEMMA NextIInv == IInv /\ [Next]_vars => IInv'
<1> SUFFICES ASSUME IInv, [Next]_vars PROVE IInv'
  OBVIOUS
<1>1. ASSUME NEW n \in Names, Clamp(n), UNCHANGED <<clocks, recorded>>
      PROVE  IInv'
  BY <1>1, ClampKeeps
<1>2. ASSUME NEW n \in Names, NEW ph \in PHs,
             Record(n, ph), Log(n, ph), UNCHANGED clocks
      PROVE  IInv'
  BY <1>2, RecordKeeps
<1>3. CASE Clear /\ recorded' = [n \in Names |-> << >>] /\ UNCHANGED clocks
  BY <1>3, ClearKeeps
<1>4. CASE /\ AdvanceSim \/ AdvanceWall
           /\ UNCHANGED <<m_maxIncrPerWindow, m_windows, recorded, answer>>
  BY <1>4, AdvanceKeeps
<1>5. CASE UNCHANGED vars
  BY <1>5 DEF vars, clocks, IInv, TypeOK, Fits, Past, Spread, Window, Clock, NowMs
<1> QED BY <1>1, <1>2, <1>3, <1>4, <1>5 DEF Next

(* The invariant holds in every reachable state. *)
LEMMA SpecIInv == Spec => []IInv
<1> QED BY InitIInv, NextIInv, PTL DEF Spec

-----------------------------------------------------------------------------
(* The theorems. *)

(* The types of the limiter, and no window of more timestamps than the     *)
(* threshold.                                                              *)
THEOREM SpecTypeOK == Spec => []TypeOK
<1>1. IInv => TypeOK
  BY DEF IInv
<1> QED BY <1>1, SpecIInv, PTL

(* Of the packets let through for a name, any two that are threshold       *)
(* places apart and were stamped by the same clock lie more than a window  *)
(* apart, across purges, clamped calls and the switch of clocks.           *)
THEOREM SpecBurstBound == Spec => []BurstBound
<1>1. IInv => BurstBound
  <2> SUFFICES ASSUME IInv, NEW n \in Names, NEW i \in DOMAIN recorded[n],
                      i + m_maxIncrPerWindow \in DOMAIN recorded[n],
                      recorded[n][i].clock = recorded[n][i + m_maxIncrPerWindow].clock
               PROVE  recorded[n][i + m_maxIncrPerWindow].at - recorded[n][i].at
                        > WindowMs
    BY DEF BurstBound
  <2>1. recorded[n] \in Seq(Entries) /\ Spread(recorded[n])
    BY DEF IInv, TypeOK
  <2>2. DOMAIN recorded[n] = 1..Len(recorded[n])
    BY <2>1, LenProperties
  <2> QED BY <2>1, <2>2 DEF Spread
<1> QED BY <1>1, SpecIInv, PTL

-----------------------------------------------------------------------------
(* The refinement, for clocks that stay within the word. *)

ClocksFit == NowMs + WindowMs < Word

(* Stamps fit the word, grow with each clock, and simulated time follows   *)
(* wall-clock time.                                                        *)
Ordered(log) ==
  /\ \A i \in 1..Len(log) : log[i].at + WindowMs < Word
  /\ \A i, j \in 1..Len(log) :
       i <= j =>
         /\ log[i].clock = log[j].clock => log[i].at <= log[j].at
         /\ log[i].clock = "sim" => log[j].clock = "sim"

(* What the refinement needs besides the inductive invariant: the order of *)
(* a log, and a clamp's PH as the last of the log.                         *)
RInv ==
  /\ IInv
  /\ \A n \in Names : /\ Ordered(recorded[n])
                      /\ Window(n).lastPh = Promise!Previous(n)

(* A stamp in the future of the clock expires, for the wrapped difference  *)
(* exceeds every window.                                                   *)
LEMMA FutureExpires ==
  ASSUME simNs \in Nat, wallMs \in Nat, NEW t \in Nat, t + WindowMs < Word,
         ~ Expired(t), ClocksFit
  PROVE  NowMs - t \in 0..WindowMs
<1>1. NowMs \in Nat /\ Word \in Nat \ {0} /\ WindowMs \in Nat
  BY NowNat, RateLimiterAssumption
<1> DEFINE x == NowMs
<1>2. (x - t) % Word <= WindowMs /\ x + WindowMs < Word
  BY <1>1 DEF Expired, Elapsed, ClocksFit
<1> HIDE DEF x
<1>3. x \in Nat
  BY <1>1 DEF x
<1>4. CASE x >= t
  <2>1. x - t \in Nat /\ x - t < Word
    BY <1>1, <1>2, <1>3, <1>4
  <2>2. (x - t) % Word = x - t
    BY <1>1, <2>1
  <2> QED BY <1>1, <1>2, <1>3, <2>1, <2>2 DEF x
<1>5. CASE x < t
  <2> DEFINE y == x - t + Word
  <2>1. y \in Nat /\ y < Word /\ y > WindowMs /\ x - t = y - Word
    BY <1>1, <1>2, <1>3, <1>5
  <2>2. (x - t) % Word = y
    BY <1>1, <1>3, <2>1
  <2> QED BY <1>1, <1>2, <2>1, <2>2
<1> QED BY <1>1, <1>3, <1>4, <1>5

(* The instance counts as the limiter does. *)
LEMMA SameCardinality ==
  ASSUME NEW S
  PROVE  Promise!Cardinality(S) = Cardinality(S)
BY Zenon DEF Promise!Cardinality, Cardinality

(* A window at its threshold is full, or stops at a misread stamp.         *)
LEMMA LimitImplements ==
  ASSUME RInv, ClocksFit, NEW n \in Names, AtLimit(n)
  PROVE  Promise!Count(n) >= m_maxIncrPerWindow \/ Promise!CountSinceMisread(n)
<1> DEFINE ts == Window(n).timestamps
           log == recorded[n]
           m == Len(Live(n))
           M == Len(log)
           W == {i \in DOMAIN log : Promise!InWindow(log[i])}
<1>1. TypeOK /\ simNs \in Nat /\ wallMs \in Nat /\ m_maxIncrPerWindow \in Nat
  BY WindowTypes DEF RInv, IInv, TypeOK
<1>2. /\ ts \in Seq(Nat) /\ log \in Seq(Entries)
      /\ Fits(ts, log) /\ Past(log) /\ Ordered(log)
  BY <1>1, WindowTypes DEF RInv, IInv, TypeOK, Windows
<1>3. Live(n) \in Seq(Nat) /\ Fits(Live(n), log)
  BY <1>1, <1>2, PurgeFits DEF Live
<1>4. m \in Nat /\ M \in Nat /\ m <= M /\ DOMAIN log = 1..M
  BY <1>2, <1>3, LenProperties DEF Fits
<1>5. m >= m_maxIncrPerWindow
  BY DEF AtLimit
<1>6. IsFiniteSet(W) /\ Cardinality(W) \in Nat /\ Promise!Count(n) = Cardinality(W)
  <2>1. IsFiniteSet(1..M)
    BY <1>4, FS_Interval
  <2>2. W \subseteq 1..M
    BY <1>4
  <2>3. IsFiniteSet(W)
    BY <2>1, <2>2, FS_Subset
  <2>4. Promise!Count(n) = Cardinality(W)
    BY SameCardinality DEF Promise!Count
  <2> QED BY <2>3, <2>4, FS_CardinalityType
<1>7. CASE m = 0
  BY <1>1, <1>5, <1>6, <1>7
<1>8. CASE m > 0
  <2> DEFINE f == M - m + 1
  <2>1. f \in 1..M /\ M - f + 1 = m
    BY <1>4, <1>8
  <2>2. ~ Expired(Live(n)[1])
    <3>1. PICK k \in 1..(Len(ts) + 1) :
            /\ Purged(ts) = SubSeq(ts, k, Len(ts))
            /\ k <= Len(ts) => ~ Expired(ts[k])
      BY <1>2, PurgedFacts
    <3>2. Len(ts) \in Nat /\ Live(n) = SubSeq(ts, k, Len(ts))
      BY <1>2, <3>1, LenProperties DEF Live
    <3>3. \A i \in k..Len(ts) : ts[i] \in Nat
      BY <1>2, <3>2, ElementOfSeq
    <3>4. /\ m = IF k <= Len(ts) THEN Len(ts) - k + 1 ELSE 0
          /\ \A i \in 1..(Len(ts) - k + 1) : Live(n)[i] = ts[k + i - 1]
      <4> HIDE DEF ts
      <4> QED BY <3>2, <3>3, SubSeqProperties
    <3>5. k <= Len(ts) /\ Live(n)[1] = ts[k]
      BY <1>8, <3>2, <3>4
    <3> QED BY <3>1, <3>5
  <2>3. Live(n)[1] = log[f].at
    BY <1>3, <1>4, <1>8 DEF Fits
  <2>4. \A i \in 1..M : log[i].at \in Nat /\ log[i].clock \in {"wall", "sim"}
    <3> TAKE i \in 1..M
    <3>1. log[i] \in Entries
      <4> HIDE DEF Entries, log
      <4> QED BY <1>2, <1>4, ElementOfSeq
    <3> QED BY <3>1 DEF Entries
  <2>5. NowMs \in Nat /\ WindowMs \in Nat
    BY <1>1, NowNat, RateLimiterAssumption
  <2>6. NowMs - log[f].at \in 0..WindowMs
    BY <1>1, <1>2, <2>1, <2>2, <2>3, <2>4, FutureExpires DEF Ordered
  <2>7. CASE log[f].clock # Clock
    <3>1. Promise!Misread(log[f])
      BY <2>6, <2>7 DEF Promise!Misread
    <3>2. M - f + 1 >= m_maxIncrPerWindow /\ f \in DOMAIN log
      BY <1>4, <1>5, <2>1
    <3> QED BY <3>1, <3>2 DEF Promise!CountSinceMisread
  <2>8. CASE log[f].clock = Clock
    <3>1. ASSUME NEW j \in f..M
          PROVE  j \in W
      <4>1. j \in 1..M /\ f \in 1..M /\ f <= j
        BY <1>4, <2>1
      <4>2. log[j].clock = Clock
        <5>1. CASE Clock = "sim"
          BY <1>2, <2>8, <4>1, <5>1 DEF Ordered
        <5>2. CASE Clock # "sim"
          <6>1. log[j].clock # "sim" /\ Clock = "wall"
            BY <1>2, <4>1, <5>2 DEF Past, Clock
          <6> QED BY <2>4, <4>1, <6>1
        <5> QED BY <5>1, <5>2
      <4>3. log[f].at <= log[j].at
        BY <1>2, <2>8, <4>1, <4>2 DEF Ordered
      <4>4. NowMs - log[j].at <= WindowMs
        <5> DEFINE a == log[f].at
                   b == log[j].at
                   x == NowMs
        <5>1. /\ a \in Nat /\ b \in Nat /\ x \in Nat /\ WindowMs \in Nat
              /\ a <= b /\ x - a \in 0..WindowMs
          BY <2>4, <2>5, <2>6, <4>1, <4>3
        <5> HIDE DEF a, b, x
        <5>2. x - b <= WindowMs
          BY <5>1
        <5> QED BY <5>2 DEF b, x
      <4> QED BY <1>4, <4>1, <4>2, <4>4 DEF Promise!InWindow
    <3>2. f..M \subseteq W
      BY <3>1
    <3>3. Cardinality(f..M) = m
      <4>1. f \in Int /\ M \in Int /\ M - f + 1 = m /\ ~ (f > M)
        BY <1>4, <2>1
      <4> HIDE DEF f, m, M
      <4> QED BY <4>1, FS_Interval
    <3>4. Cardinality(f..M) <= Cardinality(W)
      BY <1>6, <3>2, FS_Subset
    <3> QED BY <1>1, <1>4, <1>5, <1>6, <3>3, <3>4
  <2> QED BY <2>7, <2>8
<1> QED BY <1>4, <1>7, <1>8

(* Below the threshold the window is not full.                             *)
LEMMA BelowImplements ==
  ASSUME RInv, NEW n \in Names, ~ AtLimit(n)
  PROVE  Promise!Count(n) < m_maxIncrPerWindow
<1> DEFINE ts == Window(n).timestamps
           log == recorded[n]
           m == Len(Live(n))
           M == Len(log)
           W == {i \in DOMAIN log : Promise!InWindow(log[i])}
<1>1. TypeOK /\ simNs \in Nat /\ wallMs \in Nat /\ m_maxIncrPerWindow \in Nat
  BY WindowTypes DEF RInv, IInv, TypeOK
<1>2. ts \in Seq(Nat) /\ log \in Seq(Entries) /\ Fits(ts, log) /\ Past(log)
  BY <1>1, WindowTypes DEF RInv, IInv, TypeOK, Windows
<1>3. Live(n) \in Seq(Nat) /\ Fits(Live(n), log)
  BY <1>1, <1>2, PurgeFits DEF Live
<1>4. m \in Nat /\ M \in Nat /\ m <= M /\ DOMAIN log = 1..M
  BY <1>2, <1>3, LenProperties DEF Fits
<1>5. \A i \in 1..M : log[i].at \in Nat
  <2> TAKE i \in 1..M
  <2>1. log[i] \in Entries
    <3> HIDE DEF Entries, log
    <3> QED BY <1>2, <1>4, ElementOfSeq
  <2> QED BY <2>1 DEF Entries
<1>6. NowMs \in Nat /\ WindowMs \in Nat
  BY <1>1, NowNat, RateLimiterAssumption
<1>7. W \subseteq (M - m + 1)..M
  <2> SUFFICES ASSUME NEW i \in W PROVE i \in (M - m + 1)..M
    OBVIOUS
  <2>1. i \in 1..M /\ log[i].clock = Clock /\ NowMs - log[i].at <= WindowMs
    BY <1>4 DEF Promise!InWindow
  <2>2. ~ (i \in 1..(M - m))
    BY <1>3, <1>5, <1>6, <2>1 DEF Fits
  <2> QED BY <1>4, <2>1, <2>2
<1>8. /\ IsFiniteSet((M - m + 1)..M)
      /\ Cardinality((M - m + 1)..M) = m
  <2>1. M - m + 1 \in Int /\ M \in Int
    BY <1>4
  <2>2. IF M - m + 1 > M THEN m = 0 ELSE M - (M - m + 1) + 1 = m
    BY <1>4
  <2> HIDE DEF m, M
  <2> QED BY <1>4, <2>1, <2>2, FS_Interval
<1>9. Cardinality(W) <= m /\ Cardinality(W) \in Nat
  BY <1>7, <1>8, FS_Subset, FS_CardinalityType
<1>10. Promise!Count(n) = Cardinality(W)
  BY SameCardinality DEF Promise!Count
<1> QED BY <1>1, <1>4, <1>9, <1>10 DEF AtLimit

(* Appending the packet let through now keeps a log in order.              *)
LEMMA AppendOrdered ==
  ASSUME NEW log \in Seq(Entries), NEW ph \in PHs, simNs \in Nat, wallMs \in Nat,
         Past(log), Ordered(log), ClocksFit
  PROVE  Ordered(Append(log, [clock |-> Clock, at |-> NowMs, ph |-> ph]))
<1> DEFINE e == [clock |-> Clock, at |-> NowMs, ph |-> ph]
           M == Len(log)
           log2 == Append(log, e)
<1>1. NowMs \in Nat /\ e \in Entries
  BY NowNat DEF Entries, Clock
<1>2. e.clock = Clock /\ e.at = NowMs /\ M \in Nat
  BY LenProperties
<1>3. /\ Len(log2) = M + 1 /\ log2[M + 1] = e
      /\ \A i \in 1..M : log2[i] = log[i]
  <2> HIDE DEF e
  <2> QED BY <1>1, AppendProperties
<1>4. /\ \A i \in 1..M : log[i].clock = Clock => log[i].at <= NowMs
      /\ \A i \in 1..M : log[i].clock = "sim" => Clock = "sim"
  BY DEF Past, Clock
<1>5. /\ \A i \in 1..M : log[i].at + WindowMs < Word
      /\ \A i, j \in 1..M :
           i <= j =>
             /\ log[i].clock = log[j].clock => log[i].at <= log[j].at
             /\ log[i].clock = "sim" => log[j].clock = "sim"
  BY DEF Ordered
<1>6. NowMs + WindowMs < Word
  BY DEF ClocksFit
<1> HIDE DEF e, M, log2
<1>7. \A i \in 1..(M + 1) : i \in 1..M \/ i = M + 1
  BY <1>2
<1>8. \A i \in 1..(M + 1) : log2[i].at + WindowMs < Word
  BY <1>2, <1>3, <1>5, <1>6, <1>7
<1>9. ASSUME NEW i \in 1..(M + 1), NEW j \in 1..(M + 1), i <= j
      PROVE  /\ log2[i].clock = log2[j].clock => log2[i].at <= log2[j].at
             /\ log2[i].clock = "sim" => log2[j].clock = "sim"
  <2>1. CASE i = M + 1
    <3>1. j = M + 1
      BY <1>2, <1>9, <2>1
    <3> QED BY <1>1, <1>2, <1>3, <2>1, <3>1
  <2>2. CASE i \in 1..M /\ j = M + 1
    BY <1>2, <1>3, <1>4, <2>2
  <2>3. CASE i \in 1..M /\ j \in 1..M
    BY <1>3, <1>5, <1>9, <2>3
  <2> QED BY <1>7, <2>1, <2>2, <2>3
<1> QED BY <1>3, <1>8, <1>9 DEF Ordered, e, log2

(* A new limiter is a new window. *)
LEMMA InitImplements == Init => RInv /\ Promise!Init
<1> SUFFICES ASSUME Init PROVE RInv /\ Promise!Init
  OBVIOUS
<1>1. IInv
  BY InitIInv
<1>2. ASSUME NEW n \in Names
      PROVE  Ordered(recorded[n]) /\ Window(n).lastPh = Promise!Previous(n)
  <2>1. recorded[n] = << >> /\ Len(<< >>) = 0
    BY DEF Init
  <2>2. Window(n).lastPh = 0
    BY DEF Init, InitLimiter, Window
  <2> QED BY <2>1, <2>2 DEF Ordered, Promise!Previous
<1>3. Promise!Init
  <2>1. NowMs \in Nat /\ m_maxIncrPerWindow \in Nat
    BY <1>1, NowNat, RateLimiterAssumption DEF IInv, TypeOK
  <2> QED BY <2>1 DEF Promise!Init, Init, InitLimiter, Clock
<1> QED BY <1>1, <1>2, <1>3 DEF RInv

(* A clamped call is a clamp of the window.                                *)
LEMMA ClampImplements ==
  ASSUME RInv, ClocksFit, NEW n \in Names, NEW ph \in PHs, Clamp(n),
         answer' = <<n, ph, TRUE, Window(n).lastPh>>,
         UNCHANGED <<clocks, recorded>>
  PROVE  RInv' /\ Promise!Clamp(n, ph)
<1>1. IInv'
  BY ClampKeeps DEF RInv
<1>2. AtLimit(n) /\ m_maxIncrPerWindow' = m_maxIncrPerWindow
  BY DEF Clamp
<1>3. Window(n).lastPh = Promise!Previous(n)
  BY DEF RInv
<1>4. /\ Promise!Count(n) >= m_maxIncrPerWindow \/ Promise!CountSinceMisread(n)
      /\ Clock' = Clock /\ NowMs' = NowMs
  BY <1>2, LimitImplements DEF clocks, Clock, NowMs
<1>5. Promise!Clamp(n, ph)
  BY <1>2, <1>3, <1>4 DEF Promise!Clamp
<1>6. ASSUME NEW m \in Names
      PROVE  (Ordered(recorded[m]) /\ Window(m).lastPh = Promise!Previous(m))'
  <2>1. Window(m)'.lastPh = Window(m).lastPh
    BY DEF Clamp, Store, Window
  <2>2. Window(m).lastPh = Promise!Previous(m) /\ Ordered(recorded[m])
    BY DEF RInv
  <2>3. recorded' = recorded
    OBVIOUS
  <2>4. Ordered(recorded[m])'
    BY <2>2, <2>3 DEF Ordered
  <2>5. Promise!Previous(m)' = Promise!Previous(m)
    BY <2>3 DEF Promise!Previous
  <2> QED BY <2>1, <2>2, <2>4, <2>5
<1> QED BY <1>1, <1>5, <1>6 DEF RInv

(* A call let through is one the window lets through.                      *)
LEMMA RecordImplements ==
  ASSUME RInv, ClocksFit, NEW n \in Names, NEW ph \in PHs,
         Record(n, ph), Log(n, ph), answer' = <<n, ph, FALSE, ph>>, UNCHANGED clocks
  PROVE  RInv' /\ Promise!LetThrough(n, ph)
<1> DEFINE e == [clock |-> Clock, at |-> NowMs, ph |-> ph]
           log2 == Append(recorded[n], e)
<1>1. IInv'
  BY RecordKeeps DEF RInv
<1>2. ~ AtLimit(n) /\ m_maxIncrPerWindow' = m_maxIncrPerWindow
  BY DEF Record
<1>3. Clock' = Clock /\ NowMs' = NowMs /\ Promise!Count(n) < m_maxIncrPerWindow
  BY <1>2, BelowImplements DEF clocks, Clock, NowMs
<1>4. Promise!LetThrough(n, ph)
  BY <1>2, <1>3 DEF Promise!LetThrough, Log
<1>5. /\ recorded \in [Names -> Seq(Entries)]
      /\ simNs \in Nat /\ wallMs \in Nat
      /\ recorded' = [recorded EXCEPT ![n] = log2]
  BY DEF RInv, IInv, TypeOK, Log
<1>6. Ordered(log2)
  <2>1. recorded[n] \in Seq(Entries) /\ Past(recorded[n]) /\ Ordered(recorded[n])
    BY <1>5 DEF RInv, IInv
  <2> QED BY <1>5, <2>1, AppendOrdered
<1>7. log2 # << >> /\ log2[Len(log2)].ph = ph
  <2>1. e \in Entries /\ e.ph = ph
    BY <1>5, NowNat DEF Entries, Clock
  <2>2. recorded[n] \in Seq(Entries)
    BY <1>5
  <2> HIDE DEF e
  <2>3. /\ Len(log2) = Len(recorded[n]) + 1 /\ log2[Len(recorded[n]) + 1] = e
        /\ Len(recorded[n]) \in Nat
    BY <2>1, <2>2, AppendProperties, LenProperties
  <2>4. Len(<< >>) = 0
    OBVIOUS
  <2> HIDE DEF log2
  <2>5. log2 # << >>
    BY <2>3, <2>4
  <2>6. log2[Len(log2)] = e
    BY <2>3
  <2> QED BY <2>1, <2>5, <2>6
<1> HIDE DEF log2
<1>8. ASSUME NEW m \in Names
      PROVE  (Ordered(recorded[m]) /\ Window(m).lastPh = Promise!Previous(m))'
  <2>1. Window(m)'.lastPh = IF m = n THEN ph ELSE Window(m).lastPh
    BY DEF Record, Store, Window
  <2>2. recorded'[m] = IF m = n THEN log2 ELSE recorded[m]
    BY <1>5
  <2>3. Window(m).lastPh = Promise!Previous(m) /\ Ordered(recorded[m])
    BY DEF RInv
  <2>4. Ordered(recorded'[m])
    BY <1>6, <2>2, <2>3
  <2>5. Ordered(recorded[m])'
    BY <2>4 DEF Ordered
  <2>6. Promise!Previous(m)' = IF m = n THEN ph ELSE Promise!Previous(m)
    BY <1>7, <2>2 DEF Promise!Previous
  <2> QED BY <2>1, <2>3, <2>5, <2>6
<1> QED BY <1>1, <1>4, <1>8 DEF RInv

(* clear() is a reset of the window.                                       *)
LEMMA ClearImplements ==
  ASSUME RInv, Clear, recorded' = [n \in Names |-> << >>], answer' = << >>,
         UNCHANGED clocks
  PROVE  RInv' /\ Promise!Reset
<1>1. IInv'
  BY ClearKeeps DEF RInv
<1>2. Promise!Reset
  BY DEF Promise!Reset, Clear, clocks, Clock, NowMs
<1>3. ASSUME NEW n \in Names
      PROVE  (Ordered(recorded[n]) /\ Window(n).lastPh = Promise!Previous(n))'
  <2>1. recorded'[n] = << >> /\ Len(<< >>) = 0
    OBVIOUS
  <2>2. Window(n)'.lastPh = 0
    BY DEF Clear, Window
  <2> QED BY <2>1, <2>2 DEF Ordered, Promise!Previous
<1> QED BY <1>1, <1>2, <1>3 DEF RInv

(* A step of a clock is a tick of the window's time.                       *)
LEMMA AdvanceImplements ==
  ASSUME RInv, AdvanceSim \/ AdvanceWall,
         UNCHANGED <<m_maxIncrPerWindow, m_windows, recorded, answer>>
  PROVE  RInv' /\ Promise!Tick
<1>1. IInv'
  BY AdvanceKeeps DEF RInv
<1>2. /\ simNs \in Nat /\ wallMs \in Nat /\ simNs' \in Nat /\ wallMs' \in Nat
      /\ simNs' >= simNs /\ wallMs' >= wallMs
  BY RateLimiterAssumption DEF RInv, IInv, TypeOK, AdvanceSim, AdvanceWall
<1>3. NsPerMs \in Nat \ {0}
  BY RateLimiterAssumption
<1>4. Promise!Tick
  <2>1. CASE Clock' = Clock
    <3>1. simNs \div NsPerMs <= simNs' \div NsPerMs
      BY <1>2, <1>3, DivMonotone
    <3>2. simNs > 0 => simNs' > 0
      BY <1>2
    <3>3. NowMs' >= NowMs
      BY <1>2, <2>1, <3>1, <3>2 DEF NowMs, Clock
    <3> QED BY <2>1, <3>3 DEF Promise!Tick
  <2>2. CASE Clock' # Clock
    <3>1. Clock = "wall" /\ Clock' = "sim" /\ simNs' > 0
      BY <1>2, <2>2 DEF Clock
    <3>2. NowMs' \in Nat
      <4>1. simNs' \div NsPerMs \in Nat
        BY <1>2, <1>3, DivNat
      <4> QED BY <3>1, <4>1 DEF NowMs
    <3>3. NowMs' >= 0
      BY <3>2
    <3> QED BY <3>1, <3>3 DEF Promise!Tick
  <2> QED BY <2>1, <2>2
<1>5. ASSUME NEW n \in Names
      PROVE  (Ordered(recorded[n]) /\ Window(n).lastPh = Promise!Previous(n))'
  BY DEF RInv, Ordered, Window, Promise!Previous
<1> QED BY <1>1, <1>4, <1>5 DEF RInv

(* Every step of the limiter is a step of the window, or none: one case    *)
(* per action.                                                             *)
LEMMA NextImplements ==
  RInv /\ ClocksFit /\ [Next]_vars => RInv' /\ [Promise!Next]_(Promise!vars)
<1> SUFFICES ASSUME RInv, ClocksFit, [Next]_vars
             PROVE  RInv' /\ [Promise!Next]_(Promise!vars)
  OBVIOUS
<1>1. ASSUME NEW n \in Names, NEW ph \in PHs, Clamp(n),
             answer' = <<n, ph, TRUE, Window(n).lastPh>>,
             UNCHANGED <<clocks, recorded>>
      PROVE  RInv' /\ [Promise!Next]_(Promise!vars)
  BY <1>1, ClampImplements DEF Promise!Next
<1>2. ASSUME NEW n \in Names, NEW ph \in PHs, Record(n, ph), Log(n, ph),
             answer' = <<n, ph, FALSE, ph>>, UNCHANGED clocks
      PROVE  RInv' /\ [Promise!Next]_(Promise!vars)
  BY <1>2, RecordImplements DEF Promise!Next
<1>3. CASE /\ Clear
           /\ recorded' = [n \in Names |-> << >>]
           /\ answer' = << >>
           /\ UNCHANGED clocks
  BY <1>3, ClearImplements DEF Promise!Next
<1>4. CASE /\ AdvanceSim \/ AdvanceWall
           /\ UNCHANGED <<m_maxIncrPerWindow, m_windows, recorded, answer>>
  BY <1>4, AdvanceImplements DEF Promise!Next
<1>5. CASE UNCHANGED vars
  <2>1. IInv'
    BY <1>5, NextIInv DEF RInv
  <2>2. UNCHANGED Promise!vars
    BY <1>5 DEF Promise!vars, vars, clocks, Clock, NowMs
  <2>3. ASSUME NEW n \in Names
        PROVE  (Ordered(recorded[n]) /\ Window(n).lastPh = Promise!Previous(n))'
    BY <1>5 DEF vars, RInv, Ordered, Window, Promise!Previous
  <2> QED BY <2>1, <2>2, <2>3 DEF RInv
<1> QED BY <1>1, <1>2, <1>3, <1>4, <1>5 DEF Next

(* While no clock comes within a window of the end of the word, the        *)
(* limiter answers every call as the sliding window over the whole history *)
(* would: a clamp needs a full window or a wall-clock stamp that passes    *)
(* for a recent one, and returns the PH last let through.                  *)
THEOREM SpecImplementsWindow == Spec /\ []ClocksFit => ImplementsWindow
<1>1. Init => RInv /\ Promise!Init
  BY InitImplements
<1>2. RInv /\ ClocksFit /\ [Next]_vars => RInv' /\ [Promise!Next]_(Promise!vars)
  BY NextImplements
<1> QED BY <1>1, <1>2, PTL DEF Spec, ImplementsWindow, Promise!Spec
=============================================================================
