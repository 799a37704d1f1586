------------------------ MODULE SerialNumbersProofs ------------------------
(***************************************************************************)
(* Theorems about packets on their way from a producer or a content store  *)
(* to a router, for every half window, capacity and set of names, and      *)
(* every kind of link.  The 8-bit numbers agree with the ghost numbers     *)
(* that never wrap, those of stored packets included, and from that        *)
(* agreement the router's comparison has the meaning it is there for.      *)
(***************************************************************************)
EXTENDS SerialNumbers, SequenceTheorems, TLAPS

-----------------------------------------------------------------------------
(* Lemmas: remainders. *)

(* A number is a multiple of the modulus and its remainder. *)
LEMMA ModForm ==
  ASSUME NEW a \in Int, NEW m \in Nat \ {0}
  PROVE  a % m \in 0..(m - 1) /\ \E q \in Int : a = q * m + (a % m)
<1>1. a % m \in 0..(m - 1)
  OBVIOUS
<1>2. a = (a \div m) * m + (a % m) /\ a \div m \in Int
  OBVIOUS
<1> QED BY <1>1, <1>2

(* Only 0 is a multiple of m between -m and m. *)
LEMMA SmallMultiple ==
  ASSUME NEW d \in Int, NEW m \in Nat \ {0}, d * m < m, - m < d * m
  PROVE  d = 0
<1>1. CASE d >= 1
  <2>1. d * m >= m
    BY <1>1
  <2> QED BY <2>1
<1>2. CASE d <= -1
  <2>1. d * m <= - m
    BY <1>2
  <2> QED BY <2>1
<1> QED BY <1>1, <1>2

(* The remainder is the only number of its range that does this. *)
LEMMA ModUnique ==
  ASSUME NEW m \in Nat \ {0}, NEW q \in Int, NEW r \in 0..(m - 1),
         NEW a \in Int, a = q * m + r
  PROVE  a % m = r
<1>1. PICK p \in Int : a = p * m + (a % m)
  BY ModForm
<1> DEFINE t == a % m
<1>2. t \in 0..(m - 1) /\ a = p * m + t
  BY <1>1, ModForm
<1> HIDE DEF t
<1>3. (q - p) * m = t - r
  BY <1>2
<1> DEFINE d == q - p
<1>4. d \in Int /\ d * m = t - r /\ d * m < m /\ - m < d * m
  BY <1>2, <1>3
<1> HIDE DEF d
<1>5. d = 0
  BY <1>4, SmallMultiple
<1>6. t - r = 0
  BY <1>4, <1>5
<1>7. t = r
  BY <1>2, <1>6
<1> QED BY <1>7 DEF t

(* The modulus is positive, twice half the circle. *)
LEMMA ModulusPositive == Modulus \in Nat \ {0} /\ Modulus = 2 * HalfWin
BY SerialNumbersAssumption DEF Modulus

(* One packet on: the 8-bit number and the ghost number stay together.     *)
LEMMA Successor ==
  ASSUME NEW a \in Nat
  PROVE  ((a % Modulus) + 1) % Modulus = (a + 1) % Modulus
<1> DEFINE m == Modulus
<1>1. m \in Nat \ {0} /\ a \in Int
  BY ModulusPositive
<1> HIDE DEF m
<1>2. PICK q \in Int : a = q * m + (a % m)
  BY <1>1, ModForm
<1> DEFINE r == a % m
           b == r + 1
           t == b % m
<1>3. r \in 0..(m - 1) /\ b \in Int
  BY <1>1, ModForm
<1>4. PICK p \in Int : b = p * m + t
  BY <1>1, <1>3, ModForm
<1>5. t \in 0..(m - 1)
  BY <1>1, <1>3, ModForm
<1>6. a = q * m + r
  BY <1>2
<1>7. b = r + 1
  OBVIOUS
<1>8. t = b % m
  OBVIOUS
<1> HIDE DEF r, b, t
<1>9. a + 1 = (q + p) * m + t
  BY <1>1, <1>3, <1>4, <1>5, <1>6, <1>7
<1>10. (a + 1) % m = t
  <2> DEFINE x == a + 1
             k == q + p
  <2>1. k \in Int /\ x \in Int /\ x = k * m + t
    BY <1>9
  <2> HIDE DEF x, k
  <2>2. x % m = t
    BY <1>1, <1>5, <2>1, ModUnique
  <2> QED BY <2>2 DEF x
<1> QED BY <1>7, <1>8, <1>10 DEF m, r

(* A reset rounds the ghost number up to a multiple of the modulus.        *)
LEMMA RoundedUp ==
  ASSUME NEW a \in Nat
  PROVE  /\ a + ((- a) % Modulus) \in Nat
         /\ (a + ((- a) % Modulus)) % Modulus = 0
<1> DEFINE m == Modulus
           b == - a
           r == b % m
<1>1. m \in Nat \ {0} /\ b \in Int
  BY ModulusPositive
<1>2. r \in 0..(m - 1)
  BY <1>1, ModForm
<1>3. PICK q \in Int : b = q * m + r
  BY <1>1, ModForm
<1>4. b = - a
  OBVIOUS
<1> HIDE DEF m, b, r
<1>5. a + r = (- q) * m + 0
  BY <1>1, <1>2, <1>3, <1>4
<1>6. a + r \in Nat
  BY <1>1, <1>2
<1>7. (a + r) % m = 0
  <2>1. - q \in Int /\ 0 \in 0..(m - 1) /\ a + r \in Int
    BY <1>1, <1>6
  <2> QED BY <1>1, <1>5, <2>1, ModUnique
<1> QED BY <1>6, <1>7 DEF m, b, r

(* The circular distance of two numbers, told from their ghosts while      *)
(* these are less than a circle apart.                                     *)
LEMMA DistanceOfGhosts ==
  ASSUME NEW a \in Nat, NEW b \in Nat
  PROVE  LET d == ((a % Modulus) + Modulus - (b % Modulus)) % Modulus IN
           /\ a - b \in 0..(Modulus - 1) => d = a - b
           /\ a - b \in (1 - Modulus)..(-1) => d = Modulus + (a - b)
<1> DEFINE m == Modulus
           r == a % m
           t == b % m
           c == r + m - t
           d == c % m
<1>1. m \in Nat \ {0} /\ a \in Int /\ b \in Int
  BY ModulusPositive
<1> HIDE DEF m
<1>2. r \in 0..(m - 1) /\ t \in 0..(m - 1) /\ c \in Int
  BY <1>1, ModForm
<1>3. PICK q \in Int : a = q * m + r
  BY <1>1, ModForm
<1>4. PICK p \in Int : b = p * m + t
  BY <1>1, ModForm
<1>5. d \in 0..(m - 1)
  BY <1>1, <1>2, ModForm
<1>6. PICK k \in Int : c = k * m + d
  BY <1>1, <1>2, ModForm
<1>7. c = r + m - t
  OBVIOUS
<1> HIDE DEF r, t, c, d
<1> DEFINE e == q - p + k - 1
<1>8. e \in Int /\ a - b = e * m + d
  <2>1. (q - p + k - 1) * m = q * m - p * m + k * m - m
    BY <1>1
  <2>2. a - b = (q * m + r) - (p * m + t)
    BY <1>3, <1>4
  <2>3. q * m \in Int /\ p * m \in Int /\ k * m \in Int
    BY <1>1
  <2> QED BY <1>1, <1>2, <1>5, <1>6, <1>7, <2>1, <2>2, <2>3
<1> HIDE DEF e
<1> DEFINE x == a - b
<1>9. x \in Int /\ x = e * m + d
  BY <1>8
<1>10. x % m = d
  <2> HIDE DEF x
  <2> QED BY <1>1, <1>5, <1>8, <1>9, ModUnique
<1> HIDE DEF x
<1>11. ASSUME x \in 0..(m - 1) PROVE d = x
  <2>1. x = 0 * m + x
    BY <1>1, <1>9
  <2> QED BY <1>1, <1>9, <1>10, <1>11, <2>1, ModUnique
<1>12. ASSUME x \in (1 - m)..(-1) PROVE d = m + x
  <2> DEFINE y == m + x
  <2>1. y \in 0..(m - 1) /\ x = (-1) * m + y /\ -1 \in Int
    BY <1>1, <1>9, <1>12
  <2> HIDE DEF y
  <2>2. x % m = y
    BY <1>1, <1>9, <2>1, ModUnique
  <2> QED BY <1>10, <2>2 DEF y
<1> QED BY <1>11, <1>12 DEF m, r, t, c, d, x

-----------------------------------------------------------------------------
(* Lemmas: sequences. *)

(* A list with one element taken out is still a list of the set. *)
LEMMA RemovedOne ==
  ASSUME NEW S, NEW list \in Seq(S), NEW k \in 1..Len(list)
  PROVE  SubSeq(list, 1, k - 1) \o SubSeq(list, k + 1, Len(list)) \in Seq(S)
<1> DEFINE left == SubSeq(list, 1, k - 1)
           right == SubSeq(list, k + 1, Len(list))
<1>1. left \in Seq(S) /\ right \in Seq(S)
  BY SubSeqProperties, ElementOfSeq, LenProperties
<1> HIDE DEF left, right
<1>2. left \o right \in Seq(S)
  BY <1>1, ConcatProperties
<1> QED BY <1>2 DEF left, right

(* So is a list without its last element. *)
LEMMA AllButLast ==
  ASSUME NEW S, NEW list \in Seq(S)
  PROVE  SubSeq(list, 1, Len(list) - 1) \in Seq(S)
<1>1. Len(list) \in Nat
  BY LenProperties
<1>2. \A i \in 1..(Len(list) - 1) : list[i] \in S
  BY <1>1, ElementOfSeq
<1> DEFINE m == Len(list) - 1
<1>3. 1 \in Int /\ m \in Int
  BY <1>1
<1>4. \A i \in 1..m : list[i] \in S
  BY <1>2
<1> HIDE DEF m
<1>5. SubSeq(list, 1, m) \in Seq(S)
  BY <1>3, <1>4, SubSeqProperties
<1> QED BY <1>5 DEF m

-----------------------------------------------------------------------------
(***************************************************************************)
(* The inductive invariant.  TypeOK says nothing of the packets the store  *)
(* keeps, whose numbers go into the responses; the agreement must hold for *)
(* them as well.                                                           *)
(***************************************************************************)
Agreeing == {p \in Packets : p.seqn = p.no % Modulus}

IInv ==
  /\ Origin!CountersOK
  /\ Router!TypeOK
  /\ DOMAIN store \subseteq Names /\ store \in [DOMAIN store -> Agreeing]
  /\ link \in Seq(Agreeing)
  /\ issued \in [Names -> Nat]
  /\ newest \in [Router!Tracked -> Nat]
  /\ \A n \in Names : Origin!currentSeqn(n) = issued[n] % Modulus
  /\ \A n \in Router!Tracked : m_seqTable[n] = newest[n] % Modulus

(* The invariant implies the type invariant of the module. *)
LEMMA IInvTypeOK == IInv => TypeOK
<1> SUFFICES ASSUME IInv PROVE TypeOK
  OBVIOUS
<1>1. link \in Seq(Packets) /\ DOMAIN link = 1..Len(link)
      /\ \A i \in DOMAIN link : link[i] \in Agreeing
  <2>1. link \in Seq(Agreeing)
    BY DEF IInv
  <2>2. DOMAIN link = 1..Len(link) /\ Len(link) \in Nat
    BY <2>1, LenProperties
  <2>3. \A i \in DOMAIN link : link[i] \in Agreeing
    BY <2>1, <2>2, ElementOfSeq
  <2>4. link \in Seq(Packets)
    <3>1. \A i \in 1..Len(link) : link[i] \in Packets
      BY <2>2, <2>3 DEF Agreeing
    <3>2. link \in [1..Len(link) -> Packets]
      BY <2>1, <3>1, LenProperties
    <3> QED BY <2>2, <3>2
  <2> QED BY <2>2, <2>3, <2>4
<1>2. store \in [DOMAIN store -> Packets]
  BY DEF IInv, Agreeing
<1>3. \A i \in DOMAIN link : link[i].seqn = link[i].no % Modulus
  BY <1>1 DEF Agreeing
<1> QED BY <1>1, <1>2, <1>3 DEF IInv, TypeOK

(* A packet on the link. *)
LEMMA LinkPackets ==
  ASSUME IInv, NEW i \in DOMAIN link
  PROVE  /\ i \in 1..Len(link)
         /\ link[i] \in Agreeing
         /\ link[i].name \in Names /\ link[i].no \in Nat
         /\ link[i].seqn = link[i].no % Modulus
         /\ link[i].seqn \in 0..(Modulus - 1)
<1>1. link \in Seq(Agreeing)
  BY DEF IInv
<1>2. i \in 1..Len(link) /\ link[i] \in Agreeing
  BY <1>1, LenProperties, ElementOfSeq
<1> QED BY <1>2 DEF Agreeing, Packets, Origin!Seqns

(* The packets of a shorter link still have agreeing numbers. *)
LEMMA RemoveFromLink ==
  ASSUME IInv, NEW i \in DOMAIN link
  PROVE  RemoveAt(link, i) \in Seq(Agreeing)
<1>1. link \in Seq(Agreeing) /\ i \in 1..Len(link)
  BY LinkPackets DEF IInv
<1> HIDE DEF Agreeing
<1>2. SubSeq(link, 1, i - 1) \o SubSeq(link, i + 1, Len(link)) \in Seq(Agreeing)
  BY <1>1, RemovedOne
<1> QED BY <1>2 DEF RemoveAt

(* So have those of a longer one, if the new packet has. *)
LEMMA AppendToLink ==
  ASSUME IInv, NEW p \in Agreeing, link' = Append(link, p)
  PROVE  link' \in Seq(Agreeing)
<1>1. link \in Seq(Agreeing)
  BY DEF IInv
<1> QED BY <1>1, AppendProperties

(* An accepting call of the router keeps its types and remembers the       *)
(* number; nothing else is learned.                                        *)
LEMMA AcceptLearns ==
  ASSUME Router!TypeOK, NEW n \in Names, NEW s \in 0..(Modulus - 1),
         Router!Accept(n, s)
  PROVE  /\ Router!TypeOK'
         /\ n \in Router!Tracked' /\ m_seqTable'[n] = s
         /\ \A m \in Router!Tracked' \ {n} :
              m \in Router!Tracked /\ m_seqTable'[m] = m_seqTable[m]
<1>1. /\ m_maxTrackedEntries \in Capacities
      /\ Router!Tracked \subseteq Names /\ Router!Tracked = DOMAIN m_seqTable
      /\ m_seqTable \in [Router!Tracked -> Router!Seqns]
      /\ m_lruTracker \in Seq(Router!Elements)
      /\ m_lruMap \in [Router!Tracked -> Nodes]
      /\ s \in Router!Seqns
  BY DEF Router!TypeOK, Router!Tracked, Router!Seqns, Router!Modulus, Modulus
<1>2. ASSUME NEW keep \in SUBSET Router!Tracked, NEW table, NEW iters,
             NEW list \in Seq(Router!Elements),
             DOMAIN table = keep, DOMAIN iters = keep,
             \A m \in keep : table[m] = m_seqTable[m] /\ iters[m] = m_lruMap[m],
             Router!Insert(n, s, table, list, iters),
             m_maxTrackedEntries' = m_maxTrackedEntries
      PROVE  /\ Router!TypeOK'
             /\ n \in Router!Tracked' /\ m_seqTable'[n] = s
             /\ \A m \in Router!Tracked' \ {n} :
                  m \in Router!Tracked /\ m_seqTable'[m] = m_seqTable[m]
  <2>1. PICK p \in Nodes :
          /\ m_seqTable' = [m \in keep \cup {n} |-> IF m = n THEN s ELSE table[m]]
          /\ m_lruTracker' = <<[node |-> p, name |-> n]>> \o list
          /\ m_lruMap' = [m \in keep \cup {n} |-> IF m = n THEN p ELSE iters[m]]
    BY <1>2 DEF Router!Insert
  <2>2. Router!Tracked' = keep \cup {n}
    BY <2>1 DEF Router!Tracked
  <2>3. /\ m_seqTable' \in [keep \cup {n} -> Router!Seqns]
        /\ m_lruMap' \in [keep \cup {n} -> Nodes]
    BY <1>1, <1>2, <2>1
  <2>4. m_lruTracker' \in Seq(Router!Elements)
    <3> DEFINE e == [node |-> p, name |-> n]
    <3>1. e \in Router!Elements
      BY DEF Router!Elements
    <3>2. <<e>> \in Seq(Router!Elements)
      <4> HIDE DEF e
      <4> QED BY <3>1
    <3> HIDE DEF e
    <3>3. <<e>> \o list \in Seq(Router!Elements)
      BY <3>2, ConcatProperties
    <3> QED BY <2>1, <3>3 DEF e
  <2>5. Router!TypeOK'
    BY <1>1, <1>2, <2>2, <2>3, <2>4 DEF Router!TypeOK, Router!Seqns
  <2>6. /\ m_seqTable'[n] = s
        /\ \A m \in keep \ {n} : m_seqTable'[m] = m_seqTable[m]
    BY <1>2, <2>1
  <2> QED BY <2>2, <2>5, <2>6
<1>3. CASE Router!AcceptTracked(n, s)
  <2>1. PICK i \in DOMAIN m_lruTracker :
          Router!Insert(n, s, m_seqTable, Router!RemoveAt(m_lruTracker, i), m_lruMap)
    BY <1>3 DEF Router!AcceptTracked
  <2>2. Router!RemoveAt(m_lruTracker, i) \in Seq(Router!Elements)
    <3>1. i \in 1..Len(m_lruTracker)
      BY <1>1, LenProperties
    <3>2. SubSeq(m_lruTracker, 1, i - 1)
            \o SubSeq(m_lruTracker, i + 1, Len(m_lruTracker)) \in Seq(Router!Elements)
      BY <1>1, <3>1, RemovedOne
    <3> QED BY <3>2 DEF Router!RemoveAt
  <2>3. m_maxTrackedEntries' = m_maxTrackedEntries
    BY <1>3 DEF Router!AcceptTracked
  <2>4. DOMAIN m_seqTable = Router!Tracked /\ DOMAIN m_lruMap = Router!Tracked
    BY <1>1
  <2> QED BY <1>2, <2>1, <2>2, <2>3, <2>4
<1>4. CASE Router!AcceptNew(n, s)
  <2>1. /\ Router!Insert(n, s, m_seqTable, m_lruTracker, m_lruMap)
        /\ m_maxTrackedEntries' = m_maxTrackedEntries
    BY <1>4 DEF Router!AcceptNew
  <2>2. DOMAIN m_seqTable = Router!Tracked /\ DOMAIN m_lruMap = Router!Tracked
    BY <1>1
  <2> QED BY <1>1, <1>2, <2>1, <2>2
<1>5. CASE Router!AcceptEvicting(n, s)
  <2> DEFINE keep == Router!Tracked \ {Router!OldestKey}
             table == Router!Restrict(m_seqTable, keep)
             iters == Router!Restrict(m_lruMap, keep)
             list == Router!Front(m_lruTracker)
  <2>1. /\ Router!Insert(n, s, table, list, iters)
        /\ m_maxTrackedEntries' = m_maxTrackedEntries
    BY <1>1, <1>5 DEF Router!AcceptEvicting
  <2>2. /\ DOMAIN table = keep /\ DOMAIN iters = keep
        /\ \A m \in keep : table[m] = m_seqTable[m] /\ iters[m] = m_lruMap[m]
    BY DEF Router!Restrict
  <2>3. list \in Seq(Router!Elements)
    BY <1>1, AllButLast DEF Router!Front
  <2>4. keep \in SUBSET Router!Tracked
    OBVIOUS
  <2> HIDE DEF keep, table, iters, list
  <2> QED BY <1>2, <2>1, <2>2, <2>3, <2>4
<1> QED BY <1>3, <1>4, <1>5 DEF Router!Accept

(* The router's comparison, told from ghost numbers.                       *)
LEMMA InsideByGhosts ==
  ASSUME IInv, NEW n \in Router!Tracked, NEW no \in Nat
  PROVE  /\ no - newest[n] \in 1..HalfWin => Router!Inside(n, no % Modulus)
         /\ no - newest[n] \in (1 - HalfWin)..0 => ~ Router!Inside(n, no % Modulus)
<1> DEFINE b == newest[n]
           m == Modulus
           d == ((no % m) + m - (b % m)) % m
<1>1. /\ b \in Nat /\ m_seqTable[n] = b % m
      /\ m = 2 * HalfWin /\ HalfWin \in Nat \ {0}
  BY ModulusPositive, SerialNumbersAssumption DEF IInv
<1>2. Router!Diff(n, no % m) = d
  BY <1>1 DEF Router!Diff, Router!Modulus, Modulus
<1>3. /\ no - b \in 0..(m - 1) => d = no - b
      /\ no - b \in (1 - m)..(-1) => d = m + (no - b)
  BY <1>1, DistanceOfGhosts
<1> HIDE DEF b, d, m
<1>4. no - b \in 1..HalfWin => d # 0 /\ d <= HalfWin
  BY <1>1, <1>3
<1>5. no - b \in (1 - HalfWin)..0 => d = 0 \/ ~ (d <= HalfWin)
  BY <1>1, <1>3
<1> QED BY <1>2, <1>4, <1>5 DEF Router!Inside, b, m

-----------------------------------------------------------------------------
(* The invariant: one lemma per action. *)

(* A new producer and an empty network satisfy the invariant. *)
LEMMA InitIInv == Init => IInv
<1> SUFFICES ASSUME Init PROVE IInv
  OBVIOUS
<1>1. /\ m_globalSeqn = << >> /\ m_seqTable = << >> /\ m_lruTracker = << >>
      /\ m_lruMap = << >> /\ m_maxTrackedEntries \in Capacities
      /\ store = << >> /\ link = << >> /\ newest = << >>
      /\ issued = [n \in Names |-> 0]
  BY DEF Init, Origin!InitProducer, Router!InitCache
<1>2. << >> \in Seq(Agreeing) /\ << >> \in Seq(Router!Elements)
  OBVIOUS
<1>3. DOMAIN << >> = {}
  OBVIOUS
<1>4. Router!TypeOK /\ Router!Tracked = {}
  BY <1>1, <1>2, <1>3 DEF Router!TypeOK, Router!Tracked
<1>5. Origin!CountersOK
  BY <1>1, <1>3 DEF Origin!CountersOK
<1>6. 0 % Modulus = 0
  <2>1. 0 = 0 * Modulus + 0
    BY ModulusPositive
  <2>2. 0 \in 0..(Modulus - 1)
    BY ModulusPositive
  <2> QED BY <2>1, <2>2, ModulusPositive, ModUnique
<1>7. \A n \in Names : Origin!currentSeqn(n) = issued[n] % Modulus
  BY <1>1, <1>3, <1>6 DEF Origin!currentSeqn
<1>8. /\ store \in [DOMAIN store -> Agreeing] /\ DOMAIN store = {}
      /\ newest \in [Router!Tracked -> Nat]
      /\ issued \in [Names -> Nat]
  BY <1>1, <1>3, <1>4
<1> QED BY <1>1, <1>2, <1>4, <1>5, <1>7, <1>8 DEF IInv

(* createHeader moves the counter of its name and no other.                *)
LEMMA CreateHeaderCounts ==
  ASSUME IInv, NEW n \in Names, Origin!CreateHeader(n)
  PROVE  /\ Origin!nextSeqn(n) = (issued[n] + 1) % Modulus
         /\ Origin!nextSeqn(n) \in 0..(Modulus - 1)
         /\ Origin!CountersOK'
         /\ Origin!currentSeqn(n)' = Origin!nextSeqn(n)
         /\ \A m \in Names \ {n} :
              Origin!currentSeqn(m)' = Origin!currentSeqn(m)
<1>1. issued[n] \in Nat /\ Origin!currentSeqn(n) = issued[n] % Modulus
  BY DEF IInv
<1>2. Origin!nextSeqn(n) = (issued[n] + 1) % Modulus
  BY <1>1, Successor DEF Origin!nextSeqn
<1>3. Origin!nextSeqn(n) \in 0..(Modulus - 1)
  <2> DEFINE a == issued[n] + 1
  <2>1. a \in Int
    BY <1>1
  <2> HIDE DEF a
  <2>2. a % Modulus \in 0..(Modulus - 1)
    BY <2>1, ModulusPositive, ModForm
  <2> QED BY <1>2, <2>2 DEF a
<1>4. m_globalSeqn' = [m \in DOMAIN m_globalSeqn \cup {n} |->
                         IF m = n THEN Origin!nextSeqn(n) ELSE m_globalSeqn[m]]
  BY DEF Origin!CreateHeader
<1>5. Origin!CountersOK
  BY DEF IInv
<1>6. Origin!CountersOK'
  BY <1>3, <1>4, <1>5 DEF Origin!CountersOK, Origin!Seqns
<1>7. /\ Origin!currentSeqn(n)' = Origin!nextSeqn(n)
      /\ \A m \in Names \ {n} : Origin!currentSeqn(m)' = Origin!currentSeqn(m)
  BY <1>4 DEF Origin!currentSeqn
<1> QED BY <1>2, <1>3, <1>6, <1>7

(* Publish: producer and ghost numbers advance together. *)
LEMMA PublishKeeps ==
  ASSUME IInv, NEW n \in Names, Publish(n)
  PROVE  IInv'
<1> DEFINE no == issued[n] + 1
           p == [name |-> n, seqn |-> Origin!nextSeqn(n), no |-> no,
                 from |-> "producer"]
<1>1. /\ Origin!CreateHeader(n)
      /\ issued' = [issued EXCEPT ![n] = no]
      /\ link' = Append(link, p)
      /\ \/ store' = store
         \/ store' = [m \in DOMAIN store \cup {n} |-> IF m = n THEN p ELSE store[m]]
      /\ UNCHANGED <<routerVars, newest>>
  BY DEF Publish
<1>2. /\ Origin!nextSeqn(n) = no % Modulus
      /\ Origin!nextSeqn(n) \in 0..(Modulus - 1)
      /\ Origin!CountersOK'
      /\ Origin!currentSeqn(n)' = Origin!nextSeqn(n)
      /\ \A m \in Names \ {n} :
           Origin!currentSeqn(m)' = Origin!currentSeqn(m)
  BY <1>1, CreateHeaderCounts
<1>3. issued \in [Names -> Nat] /\ no \in Nat
  BY DEF IInv
<1>4. p \in Agreeing
  BY <1>2, <1>3 DEF Agreeing, Packets, Origin!Seqns
<1> HIDE DEF p, no
<1>5. link' \in Seq(Agreeing)
  BY <1>1, <1>4, AppendToLink
<1>6. DOMAIN store' \subseteq Names /\ store' \in [DOMAIN store' -> Agreeing]
  BY <1>1, <1>4 DEF IInv
<1>7. issued' \in [Names -> Nat]
      /\ \A m \in Names : Origin!currentSeqn(m)' = issued'[m] % Modulus
  BY <1>1, <1>2, <1>3 DEF IInv
<1>8. /\ Router!TypeOK' /\ newest' \in [Router!Tracked' -> Nat]
      /\ \A m \in Router!Tracked' : m_seqTable'[m] = newest'[m] % Modulus
  BY <1>1 DEF routerVars, IInv, Router!TypeOK, Router!Tracked
<1> QED BY <1>2, <1>5, <1>6, <1>7, <1>8 DEF IInv, Modulus, Agreeing, Packets

(* Steps that leave the producer and the router alone.                     *)
LEMMA OnlyTheLink ==
  ASSUME IInv, link' \in Seq(Agreeing),
         UNCHANGED <<m_globalSeqn, routerVars, store, issued, newest>>
  PROVE  IInv'
<1>1. /\ m_globalSeqn' = m_globalSeqn /\ store' = store /\ issued' = issued
      /\ newest' = newest /\ m_maxTrackedEntries' = m_maxTrackedEntries
      /\ m_seqTable' = m_seqTable /\ m_lruTracker' = m_lruTracker
      /\ m_lruMap' = m_lruMap
  BY DEF routerVars
<1>2. Router!TypeOK' /\ Router!Tracked' = Router!Tracked
  BY <1>1 DEF IInv, Router!TypeOK, Router!Tracked
<1>3. Origin!CountersOK' /\ \A n : Origin!currentSeqn(n)' = Origin!currentSeqn(n)
  BY <1>1 DEF IInv, Origin!CountersOK, Origin!currentSeqn
<1> QED BY <1>1, <1>2, <1>3 DEF IInv

(* Respond: the stored packet agrees, so its successor does. *)
LEMMA RespondKeeps ==
  ASSUME IInv, NEW n \in Names, Respond(n)
  PROVE  IInv'
<1> DEFINE q == store[n]
           p == updateHeader(q)
<1>1. q \in Agreeing
  BY DEF Respond, IInv
<1>2. q.no \in Nat /\ q.seqn = q.no % Modulus /\ q.name \in Names
  BY <1>1 DEF Agreeing, Packets
<1>3. (q.seqn + 1) % Modulus = (q.no + 1) % Modulus
  BY <1>2, Successor
<1>4. (q.no + 1) % Modulus \in 0..(Modulus - 1)
  <2> DEFINE a == q.no + 1
  <2>1. a \in Int
    BY <1>2
  <2> HIDE DEF a
  <2>2. a % Modulus \in 0..(Modulus - 1)
    BY <2>1, ModulusPositive, ModForm
  <2> QED BY <2>2 DEF a
<1>5. p = [name |-> q.name, seqn |-> (q.no + 1) % Modulus, no |-> q.no + 1,
           from |-> "store"]
  <2> HIDE DEF q
  <2> QED BY <1>3 DEF updateHeader
<1>6. p \in Agreeing
  <2>1. q.no + 1 \in Nat
    BY <1>2
  <2> QED BY <1>2, <1>4, <1>5, <2>1 DEF Agreeing, Packets, Origin!Seqns
<1>7. link' = Append(link, p)
  BY DEF Respond
<1> HIDE DEF p
<1>8. link' \in Seq(Agreeing)
  BY <1>6, <1>7, AppendToLink
<1> QED BY <1>8, OnlyTheLink DEF Respond

(* Lose only shortens the link. *)
LEMMA LoseKeeps ==
  ASSUME IInv, NEW i \in DOMAIN link, Lose(i)
  PROVE  IInv'
<1>1. link' \in Seq(Agreeing)
  BY RemoveFromLink DEF Lose
<1> QED BY <1>1, OnlyTheLink DEF Lose

(* ResetProducer: both kinds of number are 0 on the circle. *)
LEMMA ResetKeeps ==
  ASSUME IInv, ResetProducer
  PROVE  IInv'
<1>1. /\ m_globalSeqn' = << >>
      /\ issued' = [n \in Names |-> issued[n] + ((-issued[n]) % Modulus)]
      /\ UNCHANGED <<routerVars, store, link, newest>>
  BY DEF ResetProducer, Origin!Reset
<1>2. \A n \in Names : issued[n] \in Nat
  BY DEF IInv
<1>3. \A n \in Names : issued'[n] \in Nat /\ issued'[n] % Modulus = 0
  BY <1>1, <1>2, RoundedUp
<1>4. issued' \in [Names -> Nat]
  BY <1>1, <1>3
<1>5. DOMAIN << >> = {}
  OBVIOUS
<1>6. /\ Origin!CountersOK'
      /\ \A n \in Names : Origin!currentSeqn(n)' = issued'[n] % Modulus
  BY <1>1, <1>3, <1>5 DEF Origin!CountersOK, Origin!currentSeqn
<1>7. /\ Router!TypeOK' /\ newest' \in [Router!Tracked' -> Nat]
      /\ \A m \in Router!Tracked' : m_seqTable'[m] = newest'[m] % Modulus
      /\ store' = store /\ link' = link
  BY <1>1 DEF routerVars, IInv, Router!TypeOK, Router!Tracked
<1> QED BY <1>4, <1>6, <1>7 DEF IInv

(* Deliver: the router learns both numbers of the same packet. *)
LEMMA DeliverKeeps ==
  ASSUME IInv, NEW i \in DOMAIN link, Deliver(i)
  PROVE  IInv'
<1> DEFINE p == link[i]
<1>1. /\ p.name \in Names /\ p.no \in Nat /\ p.seqn = p.no % Modulus
      /\ p.seqn \in 0..(Modulus - 1)
  BY LinkPackets
<1>2. link' \in Seq(Agreeing)
  <2>1. link \in Seq(Agreeing)
    BY DEF IInv
  <2> QED BY <2>1, RemoveFromLink DEF Deliver
<1>3. /\ m_globalSeqn' = m_globalSeqn /\ store' = store /\ issued' = issued
  BY DEF Deliver
<1> HIDE DEF p
<1>4. CASE Router!DropUnfresh(p.name, p.seqn) /\ UNCHANGED newest
  <2>1. UNCHANGED routerVars
    BY <1>4 DEF Router!DropUnfresh, Router!cache, routerVars
  <2> QED BY <1>2, <1>3, <1>4, <2>1, OnlyTheLink
<1>5. CASE /\ Router!Accept(p.name, p.seqn)
           /\ newest' = [n \in Router!Tracked' |->
                           IF n = p.name THEN p.no ELSE newest[n]]
  <2>1. Router!TypeOK /\ newest \in [Router!Tracked -> Nat]
        /\ \A n \in Router!Tracked : m_seqTable[n] = newest[n] % Modulus
    BY DEF IInv
  <2>2. /\ Router!TypeOK'
        /\ p.name \in Router!Tracked' /\ m_seqTable'[p.name] = p.seqn
        /\ \A m \in Router!Tracked' \ {p.name} :
             m \in Router!Tracked /\ m_seqTable'[m] = m_seqTable[m]
    BY <1>1, <1>5, <2>1, AcceptLearns
  <2>3. newest' \in [Router!Tracked' -> Nat]
    BY <1>1, <1>5, <2>1, <2>2
  <2>4. \A m \in Router!Tracked' : m_seqTable'[m] = newest'[m] % Modulus
    <3> TAKE m \in Router!Tracked'
    <3>1. CASE m = p.name
      BY <1>1, <1>5, <2>2, <3>1
    <3>2. CASE m # p.name
      BY <1>5, <2>1, <2>2, <3>2
    <3> QED BY <3>1, <3>2
  <2>5. Origin!CountersOK' /\ \A n : Origin!currentSeqn(n)' = Origin!currentSeqn(n)
    BY <1>3 DEF IInv, Origin!CountersOK, Origin!currentSeqn
  <2> QED BY <1>2, <1>3, <2>2, <2>3, <2>4, <2>5 DEF IInv
<1> QED BY <1>4, <1>5 DEF Deliver, p

(* Every step keeps the invariant: one case per action. *)
LEMMA NextIInv == IInv /\ [Next]_vars => IInv'
<1> SUFFICES ASSUME IInv, [Next]_vars PROVE IInv'
  OBVIOUS
<1>1. \A i \in Heads : i \in DOMAIN link
  BY DEF Heads
<1>2. ASSUME NEW n \in Names, Publish(n) PROVE IInv'
  BY <1>2, PublishKeeps
<1>3. ASSUME NEW n \in Names, Respond(n) PROVE IInv'
  BY <1>3, RespondKeeps
<1>4. CASE ResetProducer
  BY <1>4, ResetKeeps
<1>5. ASSUME NEW i \in Heads, Deliver(i) PROVE IInv'
  BY <1>1, <1>5, DeliverKeeps
<1>6. ASSUME NEW i \in Heads, Lose(i) PROVE IInv'
  BY <1>1, <1>6, LoseKeeps
<1>7. CASE UNCHANGED vars
  <2>1. link' = link /\ link \in Seq(Agreeing)
    BY <1>7 DEF vars, IInv
  <2> QED BY <1>7, <2>1, OnlyTheLink DEF vars
<1> QED BY <1>2, <1>3, <1>4, <1>5, <1>6, <1>7 DEF Next

(* The invariant holds in every reachable state. *)
LEMMA SpecIInv == Spec => []IInv
<1> QED BY InitIInv, NextIInv, PTL DEF Spec

-----------------------------------------------------------------------------
(* The theorems. *)

(* Types, and the agreement of every 8-bit number with its ghost: at the   *)
(* producer, on the link and in the router's table.                        *)
THEOREM SpecTypeOK == Spec => []TypeOK
<1> QED BY SpecIInv, IInvTypeOK, PTL

(* NewerIffAccepted as a formula of one step.                              *)
NewerIff ==
  \A i \in DOMAIN link : Deliver(i) =>
    LET p == link[i]
        ahead == p.no - newest[p.name] IN
      /\ p.name \notin Router!Tracked => delivered'[2]
      /\ p.name \in Router!Tracked =>
           /\ ahead \in 1..HalfWin => delivered'[2]
           /\ ahead \in (1 - HalfWin)..0 => ~ delivered'[2]

(* Whatever packet the link delivers.                                      *)
LEMMA DeliveriesJudged == IInv => NewerIff
<1> SUFFICES ASSUME IInv, NEW i \in DOMAIN link, Deliver(i)
             PROVE  LET p == link[i]
                        ahead == p.no - newest[p.name] IN
                      /\ p.name \notin Router!Tracked => delivered'[2]
                      /\ p.name \in Router!Tracked =>
                           /\ ahead \in 1..HalfWin => delivered'[2]
                           /\ ahead \in (1 - HalfWin)..0 => ~ delivered'[2]
  BY DEF NewerIff
<1> DEFINE p == link[i]
           ahead == p.no - newest[p.name]
<1>1. p.no \in Nat /\ p.seqn = p.no % Modulus
  BY LinkPackets
<1>2. \/ Router!DropUnfresh(p.name, p.seqn) /\ delivered' = <<p, FALSE>>
      \/ Router!Accept(p.name, p.seqn) /\ delivered' = <<p, TRUE>>
  BY DEF Deliver
<1> HIDE DEF p
<1>3. Router!DropUnfresh(p.name, p.seqn)
        => p.name \in Router!Tracked /\ ~ Router!Inside(p.name, p.seqn)
  BY DEF Router!DropUnfresh
<1>4. (Router!Accept(p.name, p.seqn) /\ p.name \in Router!Tracked)
        => Router!Inside(p.name, p.seqn)
  BY DEF Router!Accept, Router!AcceptTracked, Router!AcceptNew, Router!AcceptEvicting
<1>5. p.name \in Router!Tracked =>
        /\ ahead \in 1..HalfWin => Router!Inside(p.name, p.seqn)
        /\ ahead \in (1 - HalfWin)..0 => ~ Router!Inside(p.name, p.seqn)
  BY <1>1, InsideByGhosts
<1>6. \/ Router!DropUnfresh(p.name, p.seqn) /\ delivered'[2] = FALSE
      \/ Router!Accept(p.name, p.seqn) /\ delivered'[2] = TRUE
  <2>1. <<p, FALSE>>[2] = FALSE /\ <<p, TRUE>>[2] = TRUE
    OBVIOUS
  <2>2. delivered' = <<p, FALSE>> => delivered'[2] = FALSE
    BY <2>1, Zenon
  <2>3. delivered' = <<p, TRUE>> => delivered'[2] = TRUE
    BY <2>1, Zenon
  <2> QED BY <1>2, <2>2, <2>3
<1> HIDE DEF ahead
<1>7. /\ p.name \notin Router!Tracked => delivered'[2]
      /\ p.name \in Router!Tracked =>
           /\ ahead \in 1..HalfWin => delivered'[2]
           /\ ahead \in (1 - HalfWin)..0 => ~ delivered'[2]
  BY <1>3, <1>4, <1>5, <1>6
<1> QED BY <1>7 DEF p, ahead

(* NewerIffAccepted for all constants and every kind of link: a tracked    *)
(* name's packet is taken when it is up to half a circle newer than the    *)
(* last one taken, and dropped when it is the same or less than half a     *)
(* circle older; a packet of any other name is taken.                      *)
THEOREM SpecNewerIffAccepted == Spec => NewerIffAccepted
<1>1. IInv /\ [Next]_vars => [NewerIff]_vars
  BY DeliveriesJudged
<1> HIDE DEF NewerIff
<1>2. Spec => [][NewerIff]_vars
  BY <1>1, SpecIInv, PTL DEF Spec
<1> QED BY <1>2 DEF NewerIffAccepted, NewerIff
=============================================================================
