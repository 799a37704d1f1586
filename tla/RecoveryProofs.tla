--------------------------- MODULE RecoveryProofs ---------------------------
(***************************************************************************)
(* RejectionBound for every set of names, half window, capacity and number *)
(* of resets.  The bound is not inductive: it needs to know where on the   *)
(* circle the producer stands when the router has rejected r packets in a  *)
(* row.  It stands at least r places into the half behind the remembered   *)
(* number, or exactly on that number; the next place is then in front.     *)
(***************************************************************************)
EXTENDS Recovery, TLAPS

(* How far the producer's last number is ahead of the router's memory. *)
Ahead(n) == (Origin!currentSeqn(n) + Modulus - m_seqTable[n]) % Modulus

NumbersOK ==
  /\ DOMAIN m_globalSeqn \subseteq Names
  /\ m_globalSeqn \in [DOMAIN m_globalSeqn -> 0..(Modulus - 1)]
  /\ DOMAIN m_seqTable \subseteq Names
  /\ m_seqTable \in [DOMAIN m_seqTable -> 0..(Modulus - 1)]

(* After r > 0 rejections in a row of a name that is remembered. *)
Behind(d, r) ==
  \/ d = 0 /\ r <= HalfWin
  \/ d \in (HalfWin + 1)..(Modulus - 1) /\ r <= d - HalfWin

(* The inductive invariant. *)
IInv ==
  /\ NumbersOK
  /\ resets \in Nat
  /\ rejected \in [Names -> Nat]
  /\ RejectionBound
  /\ \A n \in DOMAIN m_seqTable :
       /\ rejected[n] > 0 => Behind(Ahead(n), rejected[n])
       /\ resets = 0 => Ahead(n) = 0

-----------------------------------------------------------------------------
(* Lemmas: arithmetic on the circle. *)

(* The circle has two halves of at least one number. *)
LEMMA ModulusFacts == Modulus \in Nat /\ Modulus = 2 * HalfWin /\ HalfWin >= 1
BY RecoveryAssumption DEF Modulus

(* A number below two circles wraps at most once. *)
LEMMA ModOnce ==
  ASSUME NEW m \in Nat \ {0}, NEW a \in 0..(2 * m - 1)
  PROVE  a % m = IF a < m THEN a ELSE a - m
<1>1. CASE a < m
  <2>1. a = 0 * m + a /\ a \in 0..(m - 1)
    BY <1>1
  <2> QED BY <1>1, SMTT(30)
<1>2. CASE a >= m
  BY <1>2, SMTT(30)
<1> QED BY <1>1, <1>2

(* The distance from t to s, and how it grows when s does.                 *)
LEMMA Distance ==
  ASSUME NEW s \in 0..(Modulus - 1), NEW t \in 0..(Modulus - 1)
  PROVE  (s + Modulus - t) % Modulus = IF s >= t THEN s - t ELSE s + Modulus - t
<1> DEFINE m == Modulus
<1>1. m \in Nat \ {0}
  BY ModulusFacts
<1>2. s + m - t \in 0..(2 * m - 1) /\ s \in Int /\ t \in Int
  BY <1>1
<1> HIDE DEF m
<1>3. (s + m - t) % m = IF s + m - t < m THEN s + m - t ELSE s + m - t - m
  <2> DEFINE a == s + m - t
  <2>1. a \in 0..(2 * m - 1)
    BY <1>2
  <2> HIDE DEF a
  <2>2. a % m = IF a < m THEN a ELSE a - m
    BY <1>1, <2>1, ModOnce
  <2> QED BY <1>1, <1>2, <2>2 DEF a
<1>4. (s + m - t) % m = IF s >= t THEN s - t ELSE s + m - t
  BY <1>1, <1>2, <1>3
<1> QED BY <1>4 DEF m

(* The next number is a place on the circle, one further. *)
LEMMA NextNumber ==
  ASSUME NumbersOK, NEW n \in Names
  PROVE  /\ Origin!currentSeqn(n) \in 0..(Modulus - 1)
         /\ Origin!nextSeqn(n) \in 0..(Modulus - 1)
         /\ Origin!nextSeqn(n) = IF Origin!currentSeqn(n) = Modulus - 1 THEN 0
                                 ELSE Origin!currentSeqn(n) + 1
<1> DEFINE m == Modulus
           c == Origin!currentSeqn(n)
<1>1. m \in Nat /\ m >= 2
  BY ModulusFacts, RecoveryAssumption
<1>2. c \in 0..(m - 1)
  BY <1>1 DEF NumbersOK, Origin!currentSeqn
<1>3. Origin!nextSeqn(n) = (c + 1) % m
  BY DEF Origin!nextSeqn
<1> HIDE DEF m, c
<1>4. m \in Nat \ {0} /\ c + 1 \in 0..(2 * m - 1)
  BY <1>1, <1>2
<1>5. (c + 1) % m = IF c + 1 < m THEN c + 1 ELSE c + 1 - m
  <2> DEFINE a == c + 1
  <2>1. m \in Nat \ {0} /\ a \in 0..(2 * m - 1)
    BY <1>4
  <2> HIDE DEF a
  <2>2. a % m = IF a < m THEN a ELSE a - m
    BY <2>1, ModOnce
  <2> QED BY <1>1, <1>2, <2>2 DEF a
<1>6. (c + 1) % m = IF c = m - 1 THEN 0 ELSE c + 1
  BY <1>1, <1>2, <1>5
<1> QED BY <1>1, <1>2, <1>3, <1>6 DEF m, c

(* Publishing moves the producer one place on.                             *)
LEMMA OnePlaceOn ==
  ASSUME NumbersOK, NEW n \in DOMAIN m_seqTable
  PROVE  /\ Ahead(n) \in 0..(Modulus - 1)
         /\ Router!Diff(n, Origin!nextSeqn(n))
              = IF Ahead(n) = Modulus - 1 THEN 0 ELSE Ahead(n) + 1
<1> DEFINE m == Modulus
           c == Origin!currentSeqn(n)
           s == Origin!nextSeqn(n)
           t == m_seqTable[n]
<1>1. m \in Nat /\ m >= 2
  BY ModulusFacts, RecoveryAssumption
<1>2. n \in Names /\ t \in 0..(m - 1)
  BY DEF NumbersOK
<1>3. c \in 0..(m - 1) /\ s \in 0..(m - 1) /\ s = IF c = m - 1 THEN 0 ELSE c + 1
  BY <1>2, NextNumber
<1>4. Ahead(n) = IF c >= t THEN c - t ELSE c + m - t
  BY <1>2, <1>3, Distance DEF Ahead
<1>5. Router!Diff(n, s) = IF s >= t THEN s - t ELSE s + m - t
  <2>1. Router!Diff(n, s) = (s + m - t) % m
    BY DEF Router!Diff, Router!Modulus, Modulus
  <2> QED BY <1>2, <1>3, <2>1, Distance
<1> HIDE DEF m, c, s, t
<1>6. Ahead(n) \in 0..(m - 1)
  BY <1>1, <1>2, <1>3, <1>4
<1>7. Router!Diff(n, s) = IF Ahead(n) = m - 1 THEN 0 ELSE Ahead(n) + 1
  BY <1>1, <1>2, <1>3, <1>4, <1>5
<1> QED BY <1>6, <1>7 DEF m, s

-----------------------------------------------------------------------------
(* Lemmas: what the steps change. *)

(* An accepted number is remembered; nothing else is learned, though       *)
(* another name may be forgotten.                                          *)
LEMMA AcceptRemembers ==
  ASSUME NumbersOK, NEW n \in Names, NEW s, Router!Accept(n, s)
  PROVE  /\ n \in DOMAIN m_seqTable' /\ m_seqTable'[n] = s
         /\ \A m \in DOMAIN m_seqTable' \ {n} :
              m \in DOMAIN m_seqTable /\ m_seqTable'[m] = m_seqTable[m]
         /\ m_seqTable' = [m \in DOMAIN m_seqTable' |-> m_seqTable'[m]]
         /\ n \in DOMAIN m_seqTable => Router!Inside(n, s)
<1>1. CASE Router!AcceptTracked(n, s)
  BY <1>1 DEF Router!AcceptTracked, Router!Insert
<1>2. CASE Router!AcceptNew(n, s)
  BY <1>2 DEF Router!AcceptNew, Router!Insert, Router!Tracked
<1>3. CASE Router!AcceptEvicting(n, s)
  <2> DEFINE keep == DOMAIN m_seqTable \ {Router!OldestKey}
  <2>1. m_seqTable' = [m \in keep \cup {n} |->
                         IF m = n THEN s ELSE m_seqTable[m]]
    BY <1>3 DEF Router!AcceptEvicting, Router!Insert, Router!Tracked, Router!Restrict
  <2>2. n \notin DOMAIN m_seqTable
    BY <1>3 DEF Router!AcceptEvicting, Router!Tracked
  <2> QED BY <2>1, <2>2
<1> QED BY <1>1, <1>2, <1>3 DEF Router!Accept

(* createHeader moves the counter of its name and no other.                *)
LEMMA CreateHeaderCounts ==
  ASSUME NumbersOK, NEW n \in Names, Origin!CreateHeader(n)
  PROVE  /\ DOMAIN m_globalSeqn' \subseteq Names
         /\ m_globalSeqn' \in [DOMAIN m_globalSeqn' -> 0..(Modulus - 1)]
         /\ Origin!currentSeqn(n)' = Origin!nextSeqn(n)
         /\ \A m \in Names \ {n} :
              Origin!currentSeqn(m)' = Origin!currentSeqn(m)
<1>1. Origin!nextSeqn(n) \in 0..(Modulus - 1)
  BY NextNumber
<1>2. m_globalSeqn' = [m \in DOMAIN m_globalSeqn \cup {n} |->
                         IF m = n THEN Origin!nextSeqn(n) ELSE m_globalSeqn[m]]
  BY DEF Origin!CreateHeader
<1> QED BY <1>1, <1>2 DEF NumbersOK, Origin!currentSeqn

(* A number just remembered is no place ahead.                             *)
LEMMA AheadOfItself ==
  ASSUME NEW s \in 0..(Modulus - 1)
  PROVE  (s + Modulus - s) % Modulus = 0
BY Distance, ModulusFacts

-----------------------------------------------------------------------------
(* The invariant: one lemma per action. *)

(* A rejected packet: the producer moves on, the memory does not. *)
LEMMA RejectedKeeps ==
  ASSUME IInv, NEW n \in Names, Rejected(n)
  PROVE  IInv'
<1> DEFINE s == Origin!nextSeqn(n)
<1>1. /\ n \in DOMAIN m_seqTable /\ ~ Router!Inside(n, s)
      /\ m_seqTable' = m_seqTable
      /\ Origin!CreateHeader(n) /\ resets' = resets
      /\ rejected' = [rejected EXCEPT ![n] = @ + 1]
  BY DEF Rejected, Router!DropUnfresh, Router!Tracked, Router!cache
<1>2. NumbersOK /\ NumbersOK'
  BY <1>1, CreateHeaderCounts DEF IInv, NumbersOK
<1>3. /\ Ahead(n) \in 0..(Modulus - 1)
      /\ Router!Diff(n, s) = IF Ahead(n) = Modulus - 1 THEN 0 ELSE Ahead(n) + 1
  BY <1>1, <1>2, OnePlaceOn
<1>4. Ahead(n)' = Router!Diff(n, s)
  BY <1>1, <1>2, CreateHeaderCounts
     DEF Ahead, Router!Diff, Router!Modulus, Modulus
<1>5. Router!Diff(n, s) = 0 \/ ~ (Router!Diff(n, s) <= HalfWin)
  BY <1>1 DEF Router!Inside
<1>6. resets # 0
  BY <1>1, <1>3, <1>5, ModulusFacts, RecoveryAssumption DEF IInv
<1>7. rejected[n] \in Nat /\ rejected'[n] = rejected[n] + 1
  BY <1>1 DEF IInv
<1>8. Behind(Ahead(n)', rejected'[n])
  <2>1. CASE rejected[n] = 0
    BY <1>3, <1>4, <1>5, <1>7, <2>1, ModulusFacts, RecoveryAssumption DEF Behind
  <2>2. CASE rejected[n] > 0
    <3>1. Behind(Ahead(n), rejected[n])
      BY <1>1, <2>2 DEF IInv
    <3> QED BY <1>3, <1>4, <1>5, <1>7, <3>1, ModulusFacts, RecoveryAssumption
            DEF Behind
  <2> QED BY <1>7, <2>1, <2>2
<1>9. rejected'[n] <= HalfWin
  BY <1>7, <1>8, ModulusFacts, RecoveryAssumption DEF Behind
<1>10. \A m \in Names \ {n} : rejected'[m] = rejected[m]
  BY <1>1 DEF IInv
<1>11. rejected' \in [Names -> Nat]
  BY <1>1, <1>7 DEF IInv
<1>12. RejectionBound'
  BY <1>1, <1>6, <1>9, <1>10 DEF IInv, RejectionBound
<1>13. \A m \in DOMAIN m_seqTable \ {n} : Ahead(m)' = Ahead(m)
  BY <1>1, <1>2, CreateHeaderCounts DEF Ahead, NumbersOK
<1>14. \A m \in DOMAIN m_seqTable :
         rejected'[m] > 0 => Behind(Ahead(m)', rejected'[m])
  BY <1>2, <1>8, <1>10, <1>13 DEF IInv, NumbersOK
<1> QED BY <1>1, <1>2, <1>6, <1>11, <1>12, <1>14 DEF IInv, Behind

(* An accepted packet: the memory catches up with the producer. *)
LEMMA AcceptedKeeps ==
  ASSUME IInv, NEW n \in Names, Accepted(n)
  PROVE  IInv'
<1> DEFINE s == Origin!nextSeqn(n)
<1>1. /\ Router!Accept(n, s) /\ Origin!CreateHeader(n) /\ resets' = resets
      /\ rejected' = [rejected EXCEPT ![n] = 0]
  BY DEF Accepted
<1>2. NumbersOK
  BY DEF IInv
<1>3. s \in 0..(Modulus - 1)
  BY <1>2, NextNumber
<1> HIDE DEF s
<1>4. /\ n \in DOMAIN m_seqTable' /\ m_seqTable'[n] = s
      /\ \A m \in DOMAIN m_seqTable' \ {n} :
           m \in DOMAIN m_seqTable /\ m_seqTable'[m] = m_seqTable[m]
      /\ m_seqTable' = [m \in DOMAIN m_seqTable' |-> m_seqTable'[m]]
  BY <1>1, <1>2, AcceptRemembers
<1>5. NumbersOK'
  <2>1. \A m \in DOMAIN m_seqTable' : m \in Names /\ m_seqTable'[m] \in 0..(Modulus - 1)
    BY <1>2, <1>3, <1>4 DEF NumbersOK
  <2>2. m_seqTable' \in [DOMAIN m_seqTable' -> 0..(Modulus - 1)]
    BY <1>4, <2>1
  <2>3. /\ DOMAIN m_globalSeqn' \subseteq Names
        /\ m_globalSeqn' \in [DOMAIN m_globalSeqn' -> 0..(Modulus - 1)]
    BY <1>1, <1>2, CreateHeaderCounts
  <2> QED BY <2>1, <2>2, <2>3 DEF NumbersOK, Modulus
<1>6. Ahead(n)' = 0
  <2>1. Origin!currentSeqn(n)' = s
    BY <1>1, <1>2, CreateHeaderCounts DEF s
  <2>2. Ahead(n)' = (s + Modulus - s) % Modulus
    BY <1>4, <2>1 DEF Ahead, Modulus
  <2> QED BY <1>3, <2>2, AheadOfItself
<1>7. \A m \in DOMAIN m_seqTable' \ {n} : Ahead(m)' = Ahead(m)
  <2>1. \A m \in DOMAIN m_seqTable' \ {n} :
          Origin!currentSeqn(m)' = Origin!currentSeqn(m)
    BY <1>1, <1>2, <1>5, CreateHeaderCounts DEF NumbersOK
  <2> QED BY <1>4, <2>1 DEF Ahead, Modulus
<1>8. /\ rejected' \in [Names -> Nat] /\ rejected'[n] = 0
      /\ \A m \in Names \ {n} : rejected'[m] = rejected[m]
  BY <1>1 DEF IInv
<1>9. RejectionBound'
  BY <1>1, <1>8, RecoveryAssumption DEF IInv, RejectionBound
<1>10. \A m \in DOMAIN m_seqTable' :
         /\ rejected'[m] > 0 => Behind(Ahead(m)', rejected'[m])
         /\ resets' = 0 => Ahead(m)' = 0
  <2>1. DOMAIN m_seqTable' \subseteq Names
    BY <1>5 DEF NumbersOK
  <2> TAKE m \in DOMAIN m_seqTable'
  <2>2. CASE m = n
    BY <1>6, <1>8, <2>2
  <2>3. CASE m # n
    BY <1>1, <1>4, <1>7, <1>8, <2>1, <2>3 DEF IInv
  <2> QED BY <2>2, <2>3
<1> QED BY <1>1, <1>5, <1>8, <1>9, <1>10 DEF IInv, Behind

(* reset() of the producer may leave any distance to the memory. *)
LEMMA ResetKeeps ==
  ASSUME IInv, ResetProducer
  PROVE  IInv'
<1>1. /\ m_globalSeqn' = << >> /\ resets' = resets + 1
      /\ rejected' = [n \in Names |-> 0]
      /\ m_seqTable' = m_seqTable
  BY DEF ResetProducer, Origin!Reset, routerVars
<1>2. NumbersOK'
  BY <1>1 DEF IInv, NumbersOK, Modulus
<1>3. resets \in Nat /\ resets' \in Nat /\ resets' # 0
  BY <1>1 DEF IInv
<1>4. \A n \in DOMAIN m_seqTable' : n \in Names /\ ~ (rejected'[n] > 0)
  BY <1>1, <1>2 DEF NumbersOK
<1>5. RejectionBound'
  BY <1>1, <1>3, RecoveryAssumption DEF RejectionBound
<1> QED BY <1>1, <1>2, <1>3, <1>4, <1>5 DEF IInv

(* clear() of the router forgets every name. *)
LEMMA ClearKeeps ==
  ASSUME IInv, ClearRouter
  PROVE  IInv'
<1>1. m_seqTable' = << >> /\ UNCHANGED <<m_globalSeqn, resets, rejected>>
  BY DEF ClearRouter, Router!Clear
<1>2. NumbersOK'
  BY <1>1 DEF IInv, NumbersOK, Modulus
<1> QED BY <1>1, <1>2 DEF IInv, RejectionBound

(* The invariant holds initially and every step keeps it. *)
LEMMA InvInductive ==
  /\ Init => IInv
  /\ IInv /\ [Next]_vars => IInv'
<1>1. Init => IInv
  <2> SUFFICES ASSUME Init PROVE IInv
    OBVIOUS
  <2>1. /\ m_globalSeqn = << >> /\ m_seqTable = << >> /\ resets = 0
        /\ rejected = [n \in Names |-> 0]
    BY DEF Init, Origin!InitProducer, Router!InitCache
  <2> QED BY <2>1, RecoveryAssumption DEF IInv, NumbersOK, RejectionBound
<1>2. ASSUME IInv, [Next]_vars
      PROVE  IInv'
  <2>1. ASSUME NEW n \in Names, Send(n)
        PROVE  IInv'
    BY <1>2, <2>1, RejectedKeeps, AcceptedKeeps DEF Send
  <2>2. CASE UNCHANGED vars
    BY <1>2, <2>2 DEF vars, routerVars, IInv, NumbersOK, RejectionBound, Ahead,
                      Origin!currentSeqn, Modulus, Behind
  <2> QED BY <1>2, <2>1, <2>2, ResetKeeps, ClearKeeps DEF Next
<1> QED BY <1>1, <1>2

(* RejectionBound for all constants: after a reset a router rejects at     *)
(* most half a circle of packets of a name in a row, and none without one, *)
(* whatever it evicts and whenever it is cleared.                          *)
THEOREM SpecRejectionBound == Spec => []RejectionBound
<1>1. Init => IInv
  BY InvInductive
<1>2. IInv /\ [Next]_vars => IInv'
  BY InvInductive
<1>3. IInv => RejectionBound
  BY DEF IInv
<1> QED BY <1>1, <1>2, <1>3, PTL DEF Spec
=============================================================================
