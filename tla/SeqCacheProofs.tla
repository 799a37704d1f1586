--------------------------- MODULE SeqCacheProofs ---------------------------
(***************************************************************************)
(* Theorems about SeqCache, for every set of names and addresses, every    *)
(* half window and every capacity: its variables keep their types, its     *)
(* iterators are always valid, it never exceeds its capacity, and it       *)
(* implements ReplayFilter.  What takes thought in the last is that the    *)
(* list evicts exactly the name the filter forgets: the names in front of  *)
(* the oldest one are all the others, and the names in front of any other  *)
(* leave out at least the name itself and the oldest.                      *)
(***************************************************************************)
EXTENDS SeqCache, FiniteSetTheorems, SequenceTheorems, TLAPS

-----------------------------------------------------------------------------
(* Lemmas about the list operations. *)

(* erase() at position k: what the list looks like afterwards. *)
LEMMA RemoveAtFacts ==
  ASSUME NEW S, NEW list \in Seq(S), NEW k \in 1..Len(list)
  PROVE  /\ RemoveAt(list, k) \in Seq(S)
         /\ Len(RemoveAt(list, k)) = Len(list) - 1
         /\ \A j \in 1..(Len(list) - 1) :
              RemoveAt(list, k)[j] = IF j < k THEN list[j] ELSE list[j + 1]
<1> DEFINE left == SubSeq(list, 1, k - 1)
           right == SubSeq(list, k + 1, Len(list))
<1>1. /\ left \in Seq(S) /\ Len(left) = k - 1
      /\ \A j \in 1..(k - 1) : left[j] = list[j]
  BY SubSeqProperties, ElementOfSeq, LenProperties
<1>2. /\ right \in Seq(S) /\ Len(right) = Len(list) - k
      /\ \A j \in 1..(Len(list) - k) : right[j] = list[k + j]
  BY SubSeqProperties, ElementOfSeq, LenProperties
<1>3. /\ left \o right \in Seq(S)
      /\ Len(left \o right) = Len(list) - 1
      /\ \A j \in 1..(Len(list) - 1) :
           (left \o right)[j] = IF j <= k - 1 THEN left[j] ELSE right[j - (k - 1)]
  <2>1. Len(list) \in Nat /\ k \in 1..Len(list)
    BY LenProperties
  <2> HIDE DEF left, right
  <2>2. /\ left \o right \in Seq(S)
        /\ Len(left \o right) = Len(left) + Len(right)
        /\ \A j \in 1..(Len(left) + Len(right)) :
             (left \o right)[j] = IF j <= Len(left) THEN left[j]
                                                  ELSE right[j - Len(left)]
    BY <1>1, <1>2, ConcatProperties
  <2>3. Len(left) = k - 1 /\ Len(left) + Len(right) = Len(list) - 1
    BY <1>1, <1>2, <2>1
  <2> QED BY <2>2, <2>3
<1>4. ASSUME NEW j \in 1..(Len(list) - 1), ~(j < k)
      PROVE  right[j - (k - 1)] = list[j + 1]
  <2> DEFINE i == j - (k - 1)
  <2>1. i \in 1..(Len(list) - k) /\ k + i = j + 1
    BY <1>4, LenProperties
  <2> HIDE DEF right, i
  <2>2. right[i] = list[k + i]
    BY <1>2, <2>1
  <2>3. right[i] = list[j + 1]
    BY <2>1, <2>2
  <2> QED BY <2>3 DEF i
<1> HIDE DEF left, right
<1>5. RemoveAt(list, k) = left \o right
  BY DEF RemoveAt, left, right
<1> QED BY <1>1, <1>3, <1>4, <1>5, LenProperties

(* pop_back(): what the list looks like afterwards. *)
LEMMA FrontFacts ==
  ASSUME NEW S, NEW list \in Seq(S), list # << >>
  PROVE  /\ Front(list) \in Seq(S)
         /\ Len(Front(list)) = Len(list) - 1
         /\ \A j \in 1..(Len(list) - 1) : Front(list)[j] = list[j]
         /\ Len(list) \in 1..Len(list)
<1>1. Len(list) \in Nat /\ Len(list) # 0
  BY EmptySeq, LenProperties
<1>2. \A i \in 1..(Len(list) - 1) : list[i] \in S
  BY <1>1, ElementOfSeq
<1> DEFINE m == Len(list) - 1
<1>3. 1 \in Int /\ m \in Int /\ m - 1 + 1 = m /\ (m < 1 => m = 0)
  BY <1>1
<1> HIDE DEF m
<1>4. /\ SubSeq(list, 1, m) \in Seq(S)
      /\ Len(SubSeq(list, 1, m)) = IF 1 <= m THEN m - 1 + 1 ELSE 0
      /\ \A j \in 1..(m - 1 + 1) : SubSeq(list, 1, m)[j] = list[1 + j - 1]
  <2>1. \A i \in 1..m : list[i] \in S
    BY <1>2 DEF m
  <2> QED BY <1>3, <2>1, SubSeqProperties
<1>5. /\ SubSeq(list, 1, m) \in Seq(S)
      /\ Len(SubSeq(list, 1, m)) = m
      /\ \A j \in 1..m : SubSeq(list, 1, m)[j] = list[j]
  BY <1>3, <1>4
<1> QED BY <1>1, <1>5 DEF Front, m

(* push_front(): what the list looks like afterwards. *)
LEMMA PushFrontFacts ==
  ASSUME NEW S, NEW list \in Seq(S), NEW e \in S
  PROVE  /\ <<e>> \o list \in Seq(S)
         /\ Len(<<e>> \o list) = Len(list) + 1
         /\ (<<e>> \o list)[1] = e
         /\ \A j \in 2..(Len(list) + 1) : (<<e>> \o list)[j] = list[j - 1]
OBVIOUS

-----------------------------------------------------------------------------
(***************************************************************************)
(* The names T, a list and a map of iterators describe one another.  The   *)
(* map may have more keys than T: evictOldest() and erase() drop the list  *)
(* element first and the map's entry later.                                *)
(***************************************************************************)
Linked(T, list, iters) ==
  /\ T \subseteq Names
  /\ list \in Seq(Elements)
  /\ \A i, j \in 1..Len(list) : list[i].node = list[j].node => i = j
  /\ \A i \in 1..Len(list) :
       list[i].name \in T /\ iters[list[i].name] = list[i].node
  /\ \A n \in T : \E i \in 1..Len(list) :
       list[i] = [node |-> iters[n], name |-> n]

(* Two elements of a linked list never carry the same name. *)
LEMMA LinkedNamesDistinct ==
  ASSUME NEW T, NEW list, NEW iters, Linked(T, list, iters),
         NEW i \in 1..Len(list), NEW j \in 1..Len(list),
         list[i].name = list[j].name
  PROVE  i = j
BY DEF Linked

(* Removing the element at k from a linked list unlinks just its name. *)
LEMMA LinkedErase ==
  ASSUME NEW T, NEW list, NEW iters, Linked(T, list, iters),
         NEW k \in 1..Len(list), NEW rest \in Seq(Elements),
         Len(rest) = Len(list) - 1,
         \A j \in 1..(Len(list) - 1) :
            rest[j] = IF j < k THEN list[j] ELSE list[j + 1]
  PROVE  Linked(T \ {list[k].name}, rest, iters)
<1> DEFINE old(j) == IF j < k THEN j ELSE j + 1
<1>1. Len(list) \in Nat /\ Len(rest) \in Nat
  BY LenProperties DEF Linked
<1>2. \A j \in 1..Len(rest) :
        old(j) \in 1..Len(list) /\ old(j) # k /\ rest[j] = list[old(j)]
  BY <1>1
<1>3. \A i \in 1..Len(list) \ {k} : \E j \in 1..Len(rest) : old(j) = i
  <2> TAKE i \in 1..Len(list) \ {k}
  <2>1. CASE i < k
    BY <1>1, <2>1
  <2>2. CASE i > k
    <3>1. i - 1 \in 1..Len(rest) /\ old(i - 1) = i
      BY <1>1, <2>2
    <3> QED BY <3>1
  <2> QED BY <1>1, <2>1, <2>2
<1>4. \A i, j \in 1..Len(rest) : old(i) = old(j) => i = j
  BY <1>1
<1> HIDE DEF old
<1>5. \A i, j \in 1..Len(rest) : rest[i].node = rest[j].node => i = j
  BY <1>2, <1>4 DEF Linked
<1>6. \A i \in 1..Len(rest) :
        /\ rest[i].name \in T \ {list[k].name}
        /\ iters[rest[i].name] = rest[i].node
  BY <1>2, LinkedNamesDistinct DEF Linked
<1>7. \A n \in T \ {list[k].name} : \E i \in 1..Len(rest) :
        rest[i] = [node |-> iters[n], name |-> n]
  <2> TAKE n \in T \ {list[k].name}
  <2>1. PICK i \in 1..Len(list) : list[i] = [node |-> iters[n], name |-> n]
    BY DEF Linked
  <2>2. i # k
    BY <2>1
  <2>3. PICK j \in 1..Len(rest) : old(j) = i
    BY <1>3, <2>2
  <2> QED BY <1>2, <2>1, <2>3
<1> QED BY <1>5, <1>6, <1>7 DEF Linked

(* Pushing a new element for n, at an address no element has, links n. *)
LEMMA LinkedPush ==
  ASSUME NEW T, NEW list, NEW iters, Linked(T, list, iters),
         NEW n \in Names, n \notin T, NEW p \in Nodes,
         \A i \in 1..Len(list) : list[i].node # p,
         NEW iters2, iters2[n] = p, \A m \in T : iters2[m] = iters[m]
  PROVE  Linked(T \cup {n}, <<[node |-> p, name |-> n]>> \o list, iters2)
<1> DEFINE e == [node |-> p, name |-> n]
           new == <<e>> \o list
<1>1. list \in Seq(Elements) /\ Len(list) \in Nat /\ e \in Elements
  BY LenProperties DEF Linked, Elements
<1>2. /\ new \in Seq(Elements) /\ Len(new) = Len(list) + 1 /\ new[1] = e
      /\ \A j \in 2..Len(new) : new[j] = list[j - 1] /\ j - 1 \in 1..Len(list)
  BY <1>1, PushFrontFacts
<1>3. \A i \in 1..Len(list) : i + 1 \in 2..Len(new) /\ new[i + 1] = list[i]
  BY <1>1, <1>2
<1> HIDE DEF new
<1>4. \A j \in 1..Len(new) : j = 1 \/ j \in 2..Len(new)
  BY <1>1, <1>2
<1>5. \A i, j \in 1..Len(new) : new[i].node = new[j].node => i = j
  <2> TAKE i, j \in 1..Len(new)
  <2> HAVE new[i].node = new[j].node
  <2>1. CASE i = 1 \/ j = 1
    BY <1>2, <1>4, <2>1
  <2>2. CASE i # 1 /\ j # 1
    <3>1. i \in 2..Len(new) /\ j \in 2..Len(new)
      BY <1>4, <2>2
    <3>2. list[i - 1].node = list[j - 1].node
      BY <1>2, <3>1
    <3>3. i - 1 = j - 1
      BY <1>2, <3>1, <3>2 DEF Linked
    <3> QED BY <1>1, <1>2, <3>3
  <2> QED BY <2>1, <2>2
<1>6. \A i \in 1..Len(new) :
        new[i].name \in T \cup {n} /\ iters2[new[i].name] = new[i].node
  <2> TAKE i \in 1..Len(new)
  <2>1. CASE i = 1
    BY <1>2, <2>1
  <2>2. CASE i \in 2..Len(new)
    <3>1. i - 1 \in 1..Len(list) /\ new[i] = list[i - 1]
      BY <1>2, <2>2
    <3>2. /\ list[i - 1].name \in T
          /\ iters[list[i - 1].name] = list[i - 1].node
      BY <3>1 DEF Linked
    <3> QED BY <3>1, <3>2
  <2> QED BY <1>4, <2>1, <2>2
<1>7. \A m \in T \cup {n} : \E i \in 1..Len(new) :
        new[i] = [node |-> iters2[m], name |-> m]
  <2> TAKE m \in T \cup {n}
  <2>1. CASE m = n
    <3>1. 1 \in 1..Len(new)
      BY <1>1, <1>2
    <3>2. new[1] = [node |-> iters2[m], name |-> m]
      BY <1>2, <2>1
    <3> QED BY <3>1, <3>2
  <2>2. CASE m \in T
    <3>1. PICK i \in 1..Len(list) : list[i] = [node |-> iters[m], name |-> m]
      BY <2>2 DEF Linked
    <3>2. new[i + 1] = [node |-> iters2[m], name |-> m] /\ i + 1 \in 1..Len(new)
      BY <1>3, <2>2, <3>1
    <3> QED BY <3>2
  <2> QED BY <2>1, <2>2
<1>8. T \cup {n} \subseteq Names
  BY DEF Linked
<1> QED BY <1>2, <1>5, <1>6, <1>7, <1>8 DEF Linked, new

-----------------------------------------------------------------------------
(***************************************************************************)
(* The inductive invariant.  SizeBound needs the links (an eviction makes  *)
(* room only if the oldest list element names a tracked entry), and the    *)
(* links need the types.                                                   *)
(***************************************************************************)
Consistent ==
  /\ TypeOK
  /\ Linked(Tracked, m_lruTracker, m_lruMap)
  /\ IsFiniteSet(Tracked)
  /\ SizeBound

(* What the tail of every accepting path does, from an intermediate state  *)
(* in which the names `keep' (n not among them) are linked.                *)
LEMMA InsertLinks ==
  ASSUME NEW n \in Names, NEW s \in Seqns, NEW keep, n \notin keep,
         NEW table, NEW list, NEW iters, NEW D,
         table \in [D -> Seqns], iters \in [D -> Nodes],
         D \cup {n} = keep \cup {n}, Linked(keep, list, iters),
         Insert(n, s, table, list, iters)
  PROVE  /\ m_seqTable' \in [keep \cup {n} -> Seqns]
         /\ m_lruMap' \in [keep \cup {n} -> Nodes]
         /\ Linked(keep \cup {n}, m_lruTracker', m_lruMap')
<1>1. DOMAIN list = 1..Len(list)
  BY LenProperties DEF Linked
<1>2. PICK p \in Nodes :
        /\ \A i \in DOMAIN list : list[i].node # p
        /\ m_seqTable' = [m \in DOMAIN table \cup {n} |-> IF m = n THEN s ELSE table[m]]
        /\ m_lruTracker' = <<[node |-> p, name |-> n]>> \o list
        /\ m_lruMap' = [m \in DOMAIN iters \cup {n} |-> IF m = n THEN p ELSE iters[m]]
  BY DEF Insert
<1>3. m_seqTable' \in [keep \cup {n} -> Seqns]
  BY <1>2
<1>4. m_lruMap' \in [keep \cup {n} -> Nodes]
  BY <1>2
<1>5. m_lruMap'[n] = p /\ \A m \in keep : m_lruMap'[m] = iters[m]
  BY <1>2
<1>6. Linked(keep \cup {n}, m_lruTracker', m_lruMap')
  BY <1>1, <1>2, <1>5, LinkedPush
<1> QED BY <1>3, <1>4, <1>6

(* The constructor leaves three empty containers, which agree. *)
LEMMA InitConsistent == Init => Consistent
<1> SUFFICES ASSUME Init PROVE Consistent
  OBVIOUS
<1> USE DEF Init, InitCache
<1>1. Tracked = {} /\ m_seqTable \in [Tracked -> Seqns] /\ m_lruMap \in [Tracked -> Nodes]
  BY DEF Tracked
<1>2. m_lruTracker \in Seq(Elements) /\ Len(m_lruTracker) = 0
  BY EmptySeq
<1>3. TypeOK
  BY <1>1, <1>2 DEF TypeOK
<1>4. Linked(Tracked, m_lruTracker, m_lruMap)
  BY <1>1, <1>2 DEF Linked
<1>5. IsFiniteSet(Tracked) /\ SizeBound
  BY <1>1, FS_EmptySet, SeqCacheAssumption DEF SizeBound, EffectiveCapacity
<1> QED BY <1>3, <1>4, <1>5 DEF Consistent

(* Moving a tracked name to the front. *)
LEMMA AcceptTrackedConsistent ==
  ASSUME Consistent, NEW n \in Names, NEW s \in Seqns, AcceptTracked(n, s)
  PROVE  Consistent'
<1> DEFINE L == m_lruTracker
           keep == Tracked \ {n}
<1>1. PICK k \in 1..Len(L) :
        /\ L[k].node = m_lruMap[n]
        /\ Insert(n, s, m_seqTable, RemoveAt(L, k), m_lruMap)
  <2>1. DOMAIN L = 1..Len(L)
    BY LenProperties DEF Consistent, TypeOK
  <2> QED BY <2>1 DEF AcceptTracked
<1>2. L[k].name = n
  <2>1. PICK i \in 1..Len(L) : L[i] = [node |-> m_lruMap[n], name |-> n]
    BY DEF Consistent, Linked, AcceptTracked
  <2>2. i = k
    BY <1>1, <2>1 DEF Consistent, Linked
  <2> QED BY <2>1, <2>2
<1>3. Linked(keep, RemoveAt(L, k), m_lruMap)
  <2>1. /\ RemoveAt(L, k) \in Seq(Elements)
        /\ Len(RemoveAt(L, k)) = Len(L) - 1
        /\ \A j \in 1..(Len(L) - 1) : RemoveAt(L, k)[j] = IF j < k THEN L[j] ELSE L[j + 1]
    BY RemoveAtFacts DEF Consistent, TypeOK
  <2> QED BY <1>2, <2>1, LinkedErase DEF Consistent
<1>4. n \in Tracked /\ keep \cup {n} = Tracked
  BY DEF AcceptTracked
<1>5. /\ m_seqTable' \in [Tracked -> Seqns]
      /\ m_lruMap' \in [Tracked -> Nodes]
      /\ Linked(Tracked, m_lruTracker', m_lruMap')
  <2> HIDE DEF keep
  <2>1. m_seqTable \in [Tracked -> Seqns] /\ m_lruMap \in [Tracked -> Nodes]
    BY DEF Consistent, TypeOK
  <2>2. n \notin keep /\ Tracked \cup {n} = keep \cup {n}
    BY <1>4 DEF keep
  <2> QED BY <1>1, <1>3, <1>4, <2>1, <2>2, InsertLinks
<1>6. Tracked' = Tracked /\ m_maxTrackedEntries' = m_maxTrackedEntries
  BY <1>5 DEF Tracked, AcceptTracked
<1>7. TypeOK'
  BY <1>5, <1>6 DEF TypeOK, Consistent, Linked
<1>8. Linked(Tracked, m_lruTracker, m_lruMap)' /\ IsFiniteSet(Tracked)' /\ SizeBound'
  BY <1>5, <1>6 DEF Consistent, Linked, SizeBound, EffectiveCapacity
<1> QED BY <1>7, <1>8 DEF Consistent

(* Inserting an untracked name while there is room, or nothing to evict. *)
LEMMA AcceptNewConsistent ==
  ASSUME Consistent, NEW n \in Names, NEW s \in Seqns, AcceptNew(n, s)
  PROVE  Consistent'
<1>1. m_seqTable \in [Tracked -> Seqns] /\ m_lruMap \in [Tracked -> Nodes]
  BY DEF Consistent, TypeOK
<1>2. /\ m_seqTable' \in [Tracked \cup {n} -> Seqns]
      /\ m_lruMap' \in [Tracked \cup {n} -> Nodes]
      /\ Linked(Tracked \cup {n}, m_lruTracker', m_lruMap')
  BY <1>1, InsertLinks DEF AcceptNew, Consistent
<1>3. Tracked' = Tracked \cup {n} /\ m_maxTrackedEntries' = m_maxTrackedEntries
  BY <1>2 DEF Tracked, AcceptNew
<1>4. TypeOK'
  BY <1>2, <1>3 DEF TypeOK, Consistent, Linked
<1>5. /\ IsFiniteSet(Tracked \cup {n})
      /\ Cardinality(Tracked \cup {n}) = Cardinality(Tracked) + 1
      /\ Cardinality(Tracked) \in Nat
  BY FS_AddElement, FS_CardinalityType DEF Consistent, AcceptNew
<1>6. Cardinality(Tracked) + 1 <= EffectiveCapacity
  <2>1. m_maxTrackedEntries \in Nat
    BY SeqCacheAssumption DEF Consistent, TypeOK
  <2>2. CASE Cardinality(Tracked) < m_maxTrackedEntries
    BY <1>5, <2>1, <2>2 DEF EffectiveCapacity
  <2>3. CASE m_lruTracker = << >>
    <3>1. Tracked = {}
      BY <2>3, EmptySeq DEF Consistent, Linked
    <3>2. Cardinality(Tracked) = 0
      BY <3>1, FS_EmptySet
    <3> QED BY <2>1, <3>2 DEF EffectiveCapacity
  <2> QED BY <1>5, <2>1, <2>2, <2>3 DEF AcceptNew, Evicts
<1>7. IsFiniteSet(Tracked)' /\ SizeBound'
  BY <1>3, <1>5, <1>6 DEF SizeBound, EffectiveCapacity
<1>8. Linked(Tracked, m_lruTracker, m_lruMap)'
  BY <1>2, <1>3 DEF Linked
<1> QED BY <1>4, <1>7, <1>8 DEF Consistent

(* Evicting the oldest name, then inserting an untracked one. *)
LEMMA AcceptEvictingConsistent ==
  ASSUME Consistent, NEW n \in Names, NEW s \in Seqns, AcceptEvicting(n, s)
  PROVE  Consistent'
<1> DEFINE L == m_lruTracker
           keep == Tracked \ {OldestKey}
           table == Restrict(m_seqTable, keep)
           iters == Restrict(m_lruMap, keep)
<1>1. /\ m_seqTable \in [Tracked -> Seqns] /\ m_lruMap \in [Tracked -> Nodes]
      /\ L \in Seq(Elements) /\ L # << >>
  BY DEF Consistent, TypeOK, AcceptEvicting, Evicts
<1>2. OldestKey \in Tracked /\ Linked(keep, Front(L), m_lruMap)
  <2>1. /\ Front(L) \in Seq(Elements)
        /\ Len(Front(L)) = Len(L) - 1
        /\ \A j \in 1..(Len(L) - 1) : Front(L)[j] = L[j]
        /\ Len(L) \in 1..Len(L)
    BY <1>1, FrontFacts
  <2>2. \A j \in 1..(Len(L) - 1) : j < Len(L)
    BY <1>1, LenProperties
  <2>3. L[Len(L)].name \in Tracked
    BY <2>1 DEF Consistent, Linked
  <2>4. Linked(Tracked \ {L[Len(L)].name}, Front(L), m_lruMap)
    BY <2>1, <2>2, LinkedErase DEF Consistent
  <2> QED BY <2>3, <2>4 DEF OldestKey
<1>3. /\ table \in [keep -> Seqns] /\ iters \in [keep -> Nodes]
      /\ \A m \in keep : iters[m] = m_lruMap[m]
  BY <1>1 DEF Restrict
<1>4. Insert(n, s, table, Front(L), iters) /\ n \notin Tracked
  BY <1>1 DEF AcceptEvicting
<1> HIDE DEF keep, table, iters
<1>5. Linked(keep, Front(L), iters)
  BY <1>2, <1>3 DEF Linked
<1>6. n \notin keep
  BY <1>4 DEF keep
<1>7. /\ m_seqTable' \in [keep \cup {n} -> Seqns]
      /\ m_lruMap' \in [keep \cup {n} -> Nodes]
      /\ Linked(keep \cup {n}, m_lruTracker', m_lruMap')
  BY <1>3, <1>4, <1>5, <1>6, InsertLinks
<1>8. Tracked' = keep \cup {n} /\ m_maxTrackedEntries' = m_maxTrackedEntries
  BY <1>7 DEF Tracked, AcceptEvicting
<1>9. TypeOK'
  BY <1>7, <1>8 DEF TypeOK, Consistent, Linked
<1>10. /\ IsFiniteSet(keep \cup {n})
       /\ Cardinality(keep \cup {n}) = Cardinality(Tracked)
  <2>1. /\ IsFiniteSet(keep) /\ Cardinality(keep) = Cardinality(Tracked) - 1
        /\ Cardinality(Tracked) \in Nat
    BY <1>2, FS_RemoveElement, FS_CardinalityType DEF Consistent, keep
  <2>2. IsFiniteSet(keep \cup {n}) /\ Cardinality(keep \cup {n}) = Cardinality(keep) + 1
    BY <1>6, <2>1, FS_AddElement
  <2> QED BY <2>1, <2>2
<1>11. IsFiniteSet(Tracked)' /\ SizeBound'
  BY <1>8, <1>10 DEF SizeBound, EffectiveCapacity, Consistent
<1>12. Linked(Tracked, m_lruTracker, m_lruMap)'
  BY <1>7, <1>8 DEF Linked
<1> QED BY <1>9, <1>11, <1>12 DEF Consistent

(* clear() leaves three empty containers, which agree. *)
LEMMA ClearConsistent ==
  ASSUME Consistent, Clear
  PROVE  Consistent'
<1> USE DEF Clear
<1>1. Tracked' = {} /\ m_seqTable' \in [{} -> Seqns] /\ m_lruMap' \in [{} -> Nodes]
  BY DEF Tracked
<1>2. m_lruTracker' \in Seq(Elements) /\ Len(m_lruTracker') = 0
  BY EmptySeq
<1>3. TypeOK'
  BY <1>1, <1>2 DEF TypeOK, Consistent
<1>4. Linked(Tracked, m_lruTracker, m_lruMap)'
  BY <1>1, <1>2 DEF Linked
<1>5. IsFiniteSet(Tracked)' /\ SizeBound'
  BY <1>1, FS_EmptySet, SeqCacheAssumption
  DEF SizeBound, EffectiveCapacity, Consistent, TypeOK
<1> QED BY <1>3, <1>4, <1>5 DEF Consistent

(* Every call keeps the containers in agreement: one step per action. *)
LEMMA NextConsistent == Consistent /\ [Next]_vars => Consistent'
<1> SUFFICES ASSUME Consistent, [Next]_vars PROVE Consistent'
  OBVIOUS
<1>1. ASSUME NEW n \in Names, NEW s \in Seqns, DropUnfresh(n, s) PROVE Consistent'
  BY <1>1 DEF DropUnfresh, cache, Consistent, TypeOK, Linked, SizeBound,
     EffectiveCapacity, Tracked
<1>2. ASSUME NEW n \in Names, NEW s \in Seqns, AcceptTracked(n, s) PROVE Consistent'
  BY <1>2, AcceptTrackedConsistent
<1>3. ASSUME NEW n \in Names, NEW s \in Seqns, AcceptNew(n, s) PROVE Consistent'
  BY <1>3, AcceptNewConsistent
<1>4. ASSUME NEW n \in Names, NEW s \in Seqns, AcceptEvicting(n, s) PROVE Consistent'
  BY <1>4, AcceptEvictingConsistent
<1>5. CASE Clear
  BY <1>5, ClearConsistent
<1>6. CASE UNCHANGED vars
  BY <1>6 DEF vars, Consistent, TypeOK, Linked, SizeBound, EffectiveCapacity, Tracked
<1> QED BY <1>1, <1>2, <1>3, <1>4, <1>5, <1>6 DEF Next

(* The three containers of the cache agree in every reachable state. *)
THEOREM SpecConsistent == Spec => []Consistent
BY InitConsistent, NextConsistent, PTL DEF Spec

(* Type correctness of every variable of the cache. *)
THEOREM SpecTypeOK == Spec => []TypeOK
<1>1. Consistent => TypeOK
  BY DEF Consistent
<1> QED BY <1>1, SpecConsistent, PTL

(* erase() is never handed a dangling iterator, no name loses its list     *)
(* element, and eviction always finds the table entry of its victim        *)
(* (seq-cache.cpp:57-59, 83-87).                                           *)
THEOREM SpecIteratorsValid == Spec => []IteratorsValid
<1>1. ASSUME Consistent PROVE IteratorsValid
  <2>1. DOMAIN m_lruTracker = 1..Len(m_lruTracker)
    BY <1>1, LenProperties DEF Consistent, Linked
  <2> QED BY <1>1, <2>1 DEF Consistent, Linked, IteratorsValid
<1> QED BY <1>1, SpecConsistent, PTL

(* The table never holds more names than the capacity it was built with,   *)
(* a capacity of 0 counting as 1 (seq-cache.cpp:65-67, 81).                *)
THEOREM SpecSizeBound == Spec => []SizeBound
<1>1. Consistent => SizeBound
  BY DEF Consistent
<1> QED BY <1>1, SpecConsistent, PTL

-----------------------------------------------------------------------------
(* Lemmas: the circle. *)

(* A number below two circles wraps at most once. *)
LEMMA ModTwice ==
  ASSUME NEW m \in Nat \ {0}, NEW a \in 0..(2 * m - 1)
  PROVE  a % m = IF a < m THEN a ELSE a - m
<1>1. CASE a < m
  <2>1. a = 0 * m + a /\ a \in 0..(m - 1)
    BY <1>1
  <2> QED BY <1>1, SMTT(30)
<1>2. CASE a >= m
  BY <1>2, SMTT(30)
<1> QED BY <1>1, <1>2

(* The filter's reading of freshness is the cache's subtraction.           *)
LEMMA FreshIffInside ==
  ASSUME NEW n \in Tracked, NEW s \in Seqns, m_seqTable[n] \in Seqns
  PROVE  Filter!Fresh(n, s) <=> Inside(n, s)
<1> DEFINE m == Modulus
           l == m_seqTable[n]
           d == Diff(n, s)
<1>1. /\ HalfWin \in Nat \ {0} /\ m = 2 * HalfWin /\ m \in Nat \ {0}
      /\ l \in 0..(m - 1) /\ s \in 0..(m - 1)
  BY SeqCacheAssumption DEF Modulus, Seqns
<1>2. Filter!Fresh(n, s) <=> \E k \in 1..HalfWin : (l + k) % m = s
  BY DEF Filter!Fresh, Filter!Ahead, Tracked
<1>3. d = (s + m - l) % m
  BY DEF Diff
<1>4. Inside(n, s) <=> d # 0 /\ d <= HalfWin
  BY DEF Inside
<1> HIDE DEF m, l, d
<1>5. d = IF s >= l THEN s - l ELSE s + m - l
  <2> DEFINE a == s + m - l
  <2>1. a \in 0..(2 * m - 1)
    BY <1>1
  <2>2. d = a % m
    BY <1>3
  <2> HIDE DEF a
  <2>3. d = IF a < m THEN a ELSE a - m
    BY <1>1, <2>1, <2>2, ModTwice
  <2> QED BY <1>1, <2>3 DEF a
<1>6. \A k \in 1..HalfWin : (l + k) % m = IF l + k < m THEN l + k ELSE l + k - m
  <2> TAKE k \in 1..HalfWin
  <2> DEFINE a == l + k
  <2>1. a \in 0..(2 * m - 1)
    BY <1>1
  <2> HIDE DEF a
  <2>2. a % m = IF a < m THEN a ELSE a - m
    BY <1>1, <2>1, ModTwice
  <2> QED BY <1>1, <2>2 DEF a
<1>7. ASSUME NEW k \in 1..HalfWin, (l + k) % m = s
      PROVE  d # 0 /\ d <= HalfWin
  BY <1>1, <1>5, <1>6, <1>7
<1>8. ASSUME d # 0, d <= HalfWin
      PROVE  \E k \in 1..HalfWin : (l + k) % m = s
  <2>1. d \in 1..HalfWin
    BY <1>1, <1>5, <1>8
  <2>2. (IF l + d < m THEN l + d ELSE l + d - m) = s
    BY <1>1, <1>5
  <2> QED BY <1>6, <2>1, <2>2
<1> QED BY <1>2, <1>4, <1>7, <1>8

-----------------------------------------------------------------------------
(* Lemmas: the names in front of a name. *)

Before(list, m) ==
  {list[i].name : i \in {i \in 1..Len(list) :
     \E j \in 1..Len(list) : i < j /\ list[j].name = m}}

(* InFront, which finds a name, in terms of a position. *)
LEMMA InFrontIsBefore ==
  ASSUME TypeOK
  PROVE  \A m : InFront(m) = Before(m_lruTracker, m)
<1>1. DOMAIN m_lruTracker = 1..Len(m_lruTracker)
  BY LenProperties DEF TypeOK
<1> QED BY <1>1 DEF InFront, Before

(* Every tracked name has its place in the list. *)
LEMMA LinkedHasNames ==
  ASSUME NEW T, NEW list, NEW iters, Linked(T, list, iters)
  PROVE  \A m \in T : \E j \in 1..Len(list) : list[j].name = m
<1> TAKE m \in T
<1>1. PICK j \in 1..Len(list) : list[j] = [node |-> iters[m], name |-> m]
  BY DEF Linked
<1>2. list[j].name = m
  BY <1>1
<1> QED BY <1>2

(* push_front puts the new name in front of every other.                   *)
LEMMA PushBefore ==
  ASSUME NEW list \in Seq(Elements), NEW e \in Elements, NEW m,
         \E j \in 1..Len(list) : list[j].name = m
  PROVE  Before(<<e>> \o list, m) = Before(list, m) \cup {e.name}
<1> DEFINE new == <<e>> \o list
           M == Len(list)
<1>1. M \in Nat /\ Len(new) = M + 1 /\ new[1] = e
      /\ \A j \in 2..(M + 1) : new[j] = list[j - 1]
  BY PushFrontFacts, LenProperties
<1>2. PICK q \in 1..M : list[q].name = m
  OBVIOUS
<1> HIDE DEF new, M
<1>3. \A j \in 1..M : j + 1 \in 2..(M + 1) /\ new[j + 1] = list[j]
  BY <1>1
<1>4. ASSUME NEW x \in Before(new, m)
      PROVE  x \in Before(list, m) \cup {e.name}
  <2>1. PICK i \in 1..(M + 1), j \in 1..(M + 1) :
          i < j /\ new[j].name = m /\ x = new[i].name
    BY <1>1, <1>4 DEF Before
  <2>2. CASE i = 1
    BY <1>1, <2>1, <2>2
  <2>3. CASE i # 1
    <3>1. /\ i - 1 \in 1..M /\ j - 1 \in 1..M /\ i - 1 < j - 1
          /\ i \in 2..(M + 1) /\ j \in 2..(M + 1)
      BY <1>1, <2>1, <2>3
    <3>2. list[j - 1].name = m /\ x = list[i - 1].name
      BY <1>1, <2>1, <3>1
    <3> QED BY <3>1, <3>2 DEF Before, M
  <2> QED BY <2>2, <2>3
<1>5. ASSUME NEW x \in Before(list, m)
      PROVE  x \in Before(new, m)
  <2>1. PICK i \in 1..M, j \in 1..M : i < j /\ list[j].name = m /\ x = list[i].name
    BY <1>5 DEF Before, M
  <2>2. /\ i + 1 \in 1..(M + 1) /\ j + 1 \in 1..(M + 1) /\ i + 1 < j + 1
        /\ new[j + 1].name = m /\ x = new[i + 1].name
    BY <1>1, <1>3, <2>1
  <2> QED BY <1>1, <2>2 DEF Before
<1>6. e.name \in Before(new, m)
  <2>1. 1 \in 1..(M + 1) /\ q + 1 \in 1..(M + 1) /\ 1 < q + 1 /\ new[q + 1].name = m
    BY <1>1, <1>2, <1>3
  <2> QED BY <1>1, <2>1 DEF Before
<1> QED BY <1>4, <1>5, <1>6 DEF new

(* Nothing is in front of the first element.                               *)
LEMMA NothingBeforeFirst ==
  ASSUME NEW T, NEW list, NEW iters, Linked(T, list, iters), 1 \in 1..Len(list)
  PROVE  Before(list, list[1].name) = {}
<1>1. \A j \in 1..Len(list) : list[j].name = list[1].name => j = 1
  BY LinkedNamesDistinct
<1>2. Len(list) \in Nat
  BY LenProperties DEF Linked
<1> QED BY <1>1, <1>2 DEF Before

(* Removing the element at k removes its name from those in front.         *)
LEMMA RemoveBefore ==
  ASSUME NEW T, NEW list, NEW iters, Linked(T, list, iters),
         NEW k \in 1..Len(list), NEW rest \in Seq(Elements),
         Len(rest) = Len(list) - 1,
         \A j \in 1..(Len(list) - 1) :
            rest[j] = IF j < k THEN list[j] ELSE list[j + 1],
         NEW m, m # list[k].name
  PROVE  Before(rest, m) = Before(list, m) \ {list[k].name}
<1> DEFINE old(j) == IF j < k THEN j ELSE j + 1
           new(i) == IF i < k THEN i ELSE i - 1
           M == Len(list)
<1>1. M \in Nat /\ Len(rest) = M - 1
  BY LenProperties DEF Linked
<1>2. \A j \in 1..(M - 1) :
        old(j) \in 1..M /\ old(j) # k /\ rest[j] = list[old(j)]
  BY <1>1
<1>3. \A i \in 1..M : i # k => new(i) \in 1..(M - 1) /\ old(new(i)) = i
  BY <1>1
<1>4. \A i, j \in 1..(M - 1) : i < j => old(i) < old(j)
  BY <1>1
<1>5. \A i, j \in 1..M : (i # k /\ j # k /\ i < j) => new(i) < new(j)
  BY <1>1
<1>6. \A i \in 1..M : list[i].name = list[k].name => i = k
  BY LinkedNamesDistinct
<1> HIDE DEF old, new, M
<1>7. ASSUME NEW x \in Before(rest, m)
      PROVE  x \in Before(list, m) /\ x # list[k].name
  <2>1. PICK i \in 1..(M - 1), j \in 1..(M - 1) :
          i < j /\ rest[j].name = m /\ x = rest[i].name
    BY <1>1, <1>7 DEF Before
  <2>2. /\ old(i) \in 1..M /\ old(j) \in 1..M /\ old(i) < old(j) /\ old(i) # k
        /\ list[old(j)].name = m /\ x = list[old(i)].name
    BY <1>2, <1>4, <2>1
  <2> QED BY <1>6, <2>2 DEF Before, M
<1>8. ASSUME NEW x \in Before(list, m), x # list[k].name
      PROVE  x \in Before(rest, m)
  <2>1. PICK i \in 1..M, j \in 1..M : i < j /\ list[j].name = m /\ x = list[i].name
    BY <1>8 DEF Before, M
  <2>2. i # k /\ j # k
    BY <1>8, <2>1
  <2>3. /\ new(i) \in 1..(M - 1) /\ new(j) \in 1..(M - 1) /\ new(i) < new(j)
        /\ rest[new(j)] = list[j] /\ rest[new(i)] = list[i]
    BY <1>2, <1>3, <1>5, <2>1, <2>2
  <2> QED BY <1>1, <2>1, <2>3 DEF Before
<1> QED BY <1>7, <1>8

(* A name is not in front of itself, and all others are in front of the    *)
(* oldest.                                                                 *)
LEMMA InFrontFacts ==
  ASSUME Consistent, NEW m \in Tracked
  PROVE  /\ InFront(m) \subseteq Tracked \ {m}
         /\ m_lruTracker # << >> =>
              /\ OldestKey \in Tracked
              /\ OldestKey \notin InFront(m)
              /\ InFront(OldestKey) = Tracked \ {OldestKey}
<1> DEFINE L == m_lruTracker
           M == Len(L)
<1>1. /\ TypeOK /\ Linked(Tracked, L, m_lruMap) /\ M \in Nat /\ L \in Seq(Elements)
  BY LenProperties DEF Consistent, TypeOK
<1>2. \A i, j \in 1..M : L[i].name = L[j].name => i = j
  BY <1>1, LinkedNamesDistinct
<1>3. \A i \in 1..M : L[i].name \in Tracked
  BY <1>1 DEF Linked
<1>4. \A x \in Tracked : \E i \in 1..M : L[i].name = x
  <2> TAKE x \in Tracked
  <2>1. PICK i \in 1..M : L[i] = [node |-> m_lruMap[x], name |-> x]
    BY <1>1 DEF Linked
  <2>2. L[i].name = x
    BY <2>1
  <2> QED BY <2>2
<1>5. \A x : InFront(x) = Before(L, x)
  BY <1>1, InFrontIsBefore
<1>6. \A x, y : x \in Before(L, y) <=>
        \E i, j \in 1..M : i < j /\ L[j].name = y /\ L[i].name = x
  BY DEF Before
<1>7. L # << >> => M \in 1..M /\ OldestKey = L[M].name
  BY <1>1, FrontFacts DEF OldestKey
<1> HIDE DEF L, M
<1>8. InFront(m) \subseteq Tracked \ {m}
  <2> SUFFICES ASSUME NEW x \in InFront(m) PROVE x \in Tracked \ {m}
    OBVIOUS
  <2>1. PICK i \in 1..M, j \in 1..M : i < j /\ L[j].name = m /\ L[i].name = x
    BY <1>5, <1>6
  <2> QED BY <1>1, <1>2, <1>3, <2>1
<1>9. ASSUME L # << >>
      PROVE  /\ OldestKey \in Tracked
             /\ OldestKey \notin InFront(m)
             /\ InFront(OldestKey) = Tracked \ {OldestKey}
  <2>1. M \in 1..M /\ OldestKey = L[M].name
    BY <1>7, <1>9
  <2>2. OldestKey \in Tracked
    BY <1>3, <2>1
  <2>3. ASSUME NEW y PROVE OldestKey \notin InFront(y)
    <3> SUFFICES ASSUME NEW i \in 1..M, NEW j \in 1..M, i < j, L[i].name = OldestKey
                 PROVE  FALSE
      BY <1>5, <1>6
    <3>1. i = M
      BY <1>2, <2>1
    <3> QED BY <1>1, <3>1
  <2>4. ASSUME NEW x \in Tracked, x # OldestKey PROVE x \in InFront(OldestKey)
    <3>1. PICK i \in 1..M : L[i].name = x
      BY <1>4
    <3>2. i < M
      BY <1>1, <2>1, <2>4, <3>1
    <3> QED BY <1>5, <1>6, <2>1, <3>1, <3>2
  <2>5. ASSUME NEW x \in InFront(OldestKey) PROVE x \in Tracked
    <3>1. PICK i \in 1..M : L[i].name = x
      BY <1>5, <1>6
    <3> QED BY <1>3, <3>1
  <2> QED BY <2>2, <2>3, <2>4, <2>5
<1> QED BY <1>8, <1>9 DEF L

-----------------------------------------------------------------------------
(***************************************************************************)
(* Lemmas: an accepting call, seen by the filter.  Of the names tracked    *)
(* before, `keep' stay, and n is now in front of all of them.              *)
(***************************************************************************)
Keeps(keep, n, s) ==
  /\ keep \subseteq Tracked \ {n}
  /\ m_seqTable' = [m \in keep \cup {n} |-> IF m = n THEN s ELSE m_seqTable[m]]
  /\ InFront(n)' = {}
  /\ \A m \in keep : InFront(m)' = InFront(m) \cup {n}
  /\ m_maxTrackedEntries' = m_maxTrackedEntries

(* The tail that all accepting calls share, from a list from which at most *)
(* one element was taken.                                                  *)
LEMMA InsertKeeps ==
  ASSUME Consistent, Consistent', NEW n \in Names, NEW s,
         NEW keep \in SUBSET (Tracked \ {n}),
         NEW table, NEW list \in Seq(Elements), NEW iters,
         DOMAIN table \cup {n} = keep \cup {n},
         \A m \in keep : table[m] = m_seqTable[m],
         \A m \in keep : \E j \in 1..Len(list) : list[j].name = m,
         \A m \in keep : Before(list, m) \cup {n} = InFront(m) \cup {n},
         m_maxTrackedEntries' = m_maxTrackedEntries,
         Insert(n, s, table, list, iters)
  PROVE  Keeps(keep, n, s)
<1>1. PICK p \in Nodes :
        /\ m_seqTable' = [m \in DOMAIN table \cup {n} |-> IF m = n THEN s ELSE table[m]]
        /\ m_lruTracker' = <<[node |-> p, name |-> n]>> \o list
  BY DEF Insert
<1> DEFINE e == [node |-> p, name |-> n]
<1>2. e \in Elements /\ e.name = n
  BY DEF Elements
<1>3. \A m : InFront(m)' = Before(m_lruTracker', m)
  BY InFrontIsBefore, LenProperties DEF Consistent, TypeOK, InFront, Before
<1>4. InFront(n)' = {}
  <2>1. /\ m_lruTracker'[1] = e /\ 1 \in 1..Len(m_lruTracker')
    BY <1>1, <1>2, PushFrontFacts, LenProperties
  <2>2. Linked(Tracked', m_lruTracker', m_lruMap')
    BY DEF Consistent, Linked
  <2> HIDE DEF e
  <2> QED BY <1>2, <1>3, <2>1, <2>2, NothingBeforeFirst
<1>5. \A m \in keep : InFront(m)' = InFront(m) \cup {n}
  <2> TAKE m \in keep
  <2>1. Before(<<e>> \o list, m) = Before(list, m) \cup {e.name}
    BY <1>2, PushBefore
  <2> QED BY <1>1, <1>2, <1>3, <2>1
<1>6. m_seqTable' = [m \in keep \cup {n} |-> IF m = n THEN s ELSE m_seqTable[m]]
  BY <1>1
<1> QED BY <1>4, <1>5, <1>6 DEF Keeps

(* Moving a tracked name to the front keeps all others.                    *)
LEMMA AcceptTrackedKeeps ==
  ASSUME Consistent, Consistent', NEW n \in Names, NEW s \in Seqns,
         AcceptTracked(n, s)
  PROVE  Keeps(Tracked \ {n}, n, s)
<1> DEFINE L == m_lruTracker
           rest(k) == RemoveAt(L, k)
<1>1. n \in Tracked /\ L \in Seq(Elements) /\ Linked(Tracked, L, m_lruMap)
      /\ TypeOK /\ m_maxTrackedEntries' = m_maxTrackedEntries
  BY DEF Consistent, TypeOK, AcceptTracked
<1>2. PICK k \in 1..Len(L) :
        /\ L[k].node = m_lruMap[n]
        /\ Insert(n, s, m_seqTable, rest(k), m_lruMap)
  <2>1. DOMAIN L = 1..Len(L)
    BY <1>1, LenProperties
  <2> QED BY <2>1 DEF AcceptTracked
<1>3. L[k].name = n
  <2>1. PICK i \in 1..Len(L) : L[i] = [node |-> m_lruMap[n], name |-> n]
    BY <1>1 DEF Linked
  <2>2. i = k
    BY <1>1, <1>2, <2>1 DEF Linked
  <2> QED BY <2>1, <2>2
<1>4. /\ rest(k) \in Seq(Elements)
      /\ Len(rest(k)) = Len(L) - 1
      /\ \A j \in 1..(Len(L) - 1) : rest(k)[j] = IF j < k THEN L[j] ELSE L[j + 1]
  BY <1>1, RemoveAtFacts
<1> HIDE DEF rest
<1>5. Linked(Tracked \ {n}, rest(k), m_lruMap)
  BY <1>1, <1>3, <1>4, LinkedErase
<1>6. \A m \in Tracked \ {n} : \E j \in 1..Len(rest(k)) : rest(k)[j].name = m
  BY <1>5, LinkedHasNames
<1>7. \A m \in Tracked \ {n} : Before(rest(k), m) \cup {n} = InFront(m) \cup {n}
  <2> TAKE m \in Tracked \ {n}
  <2>1. Before(rest(k), m) = Before(L, m) \ {n}
    BY <1>1, <1>3, <1>4, RemoveBefore
  <2>2. InFront(m) = Before(L, m)
    BY <1>1, InFrontIsBefore
  <2> QED BY <2>1, <2>2
<1>8. DOMAIN m_seqTable \cup {n} = (Tracked \ {n}) \cup {n}
  BY <1>1 DEF Tracked
<1> QED BY <1>1, <1>2, <1>4, <1>6, <1>7, <1>8, InsertKeeps

(* A new name, while there is room, keeps all others.                      *)
LEMMA AcceptNewKeeps ==
  ASSUME Consistent, Consistent', NEW n \in Names, NEW s \in Seqns,
         AcceptNew(n, s)
  PROVE  Keeps(Tracked, n, s)
<1>1. /\ n \notin Tracked /\ m_lruTracker \in Seq(Elements)
      /\ Linked(Tracked, m_lruTracker, m_lruMap) /\ TypeOK
      /\ m_maxTrackedEntries' = m_maxTrackedEntries
      /\ Insert(n, s, m_seqTable, m_lruTracker, m_lruMap)
  BY DEF Consistent, TypeOK, AcceptNew
<1>2. \A m \in Tracked : \E j \in 1..Len(m_lruTracker) : m_lruTracker[j].name = m
  BY <1>1, LinkedHasNames
<1>3. \A m \in Tracked : Before(m_lruTracker, m) \cup {n} = InFront(m) \cup {n}
  BY <1>1, InFrontIsBefore
<1>4. DOMAIN m_seqTable \cup {n} = Tracked \cup {n} /\ Tracked \in SUBSET (Tracked \ {n})
  BY <1>1 DEF Tracked
<1> QED BY <1>1, <1>2, <1>3, <1>4, InsertKeeps

(* A new name at the capacity keeps all others but the oldest.             *)
LEMMA AcceptEvictingKeeps ==
  ASSUME Consistent, Consistent', NEW n \in Names, NEW s \in Seqns,
         AcceptEvicting(n, s)
  PROVE  Keeps(Tracked \ {OldestKey}, n, s)
<1> DEFINE L == m_lruTracker
           keep == Tracked \ {OldestKey}
           table == Restrict(m_seqTable, keep)
           rest == Front(L)
<1>1. /\ n \notin Tracked /\ L \in Seq(Elements) /\ L # << >>
      /\ Linked(Tracked, L, m_lruMap) /\ TypeOK
      /\ m_maxTrackedEntries' = m_maxTrackedEntries
      /\ Insert(n, s, table, rest,
                Restrict(m_lruMap, DOMAIN m_lruMap \ {OldestKey}))
  BY DEF Consistent, TypeOK, AcceptEvicting, Evicts
<1>2. /\ rest \in Seq(Elements) /\ Len(rest) = Len(L) - 1
      /\ \A j \in 1..(Len(L) - 1) : rest[j] = L[j]
      /\ Len(L) \in 1..Len(L) /\ L[Len(L)].name = OldestKey
  BY <1>1, FrontFacts DEF OldestKey
<1>3. \A j \in 1..(Len(L) - 1) :
        rest[j] = IF j < Len(L) THEN L[j] ELSE L[j + 1]
  BY <1>1, <1>2, LenProperties
<1> HIDE DEF rest
<1>4. Linked(keep, rest, m_lruMap)
  BY <1>1, <1>2, <1>3, LinkedErase
<1>5. \A m \in keep : \E j \in 1..Len(rest) : rest[j].name = m
  BY <1>4, LinkedHasNames
<1>6. \A m \in keep : Before(rest, m) \cup {n} = InFront(m) \cup {n}
  <2> TAKE m \in keep
  <2>1. Before(rest, m) = Before(L, m) \ {OldestKey}
    <3>1. m # L[Len(L)].name
      BY <1>2
    <3> QED BY <1>1, <1>2, <1>3, <3>1, RemoveBefore
  <2>2. InFront(m) = Before(L, m)
    BY <1>1, InFrontIsBefore
  <2>3. OldestKey \notin InFront(m)
    BY <1>1, InFrontFacts
  <2> QED BY <2>1, <2>2, <2>3
<1>7. /\ DOMAIN table = keep
      /\ \A m \in keep : table[m] = m_seqTable[m]
  BY DEF Restrict, Tracked
<1>8. keep \in SUBSET (Tracked \ {n})
  BY <1>1
<1> HIDE DEF table, keep, L
<1>9. Keeps(keep, n, s)
  BY <1>1, <1>2, <1>5, <1>6, <1>7, <1>8, InsertKeeps
<1> QED BY <1>9 DEF keep

-----------------------------------------------------------------------------
(* Lemmas: the filter forgets exactly the names the list gives up. *)

(* The capacity that takes effect, and the number of names within it. *)
LEMMA CapacityFacts ==
  ASSUME Consistent
  PROVE  /\ EffectiveCapacity \in Nat \ {0}
         /\ m_maxTrackedEntries \in Nat /\ m_maxTrackedEntries <= EffectiveCapacity
         /\ EffectiveCapacity <= m_maxTrackedEntries \/ EffectiveCapacity = 1
         /\ Cardinality(Tracked) \in Nat /\ Cardinality(Tracked) <= EffectiveCapacity
<1>1. m_maxTrackedEntries \in Nat
  BY SeqCacheAssumption DEF Consistent, TypeOK
<1>2. Cardinality(Tracked) \in Nat /\ Cardinality(Tracked) <= EffectiveCapacity
  BY FS_CardinalityType DEF Consistent, SizeBound
<1> QED BY <1>1, <1>2 DEF EffectiveCapacity

(* Names out of a set S of fewer names than the capacity fit in.           *)
LEMMA FewNames ==
  ASSUME Consistent, NEW S, NEW x \in S, NEW N,
         IsFiniteSet(S), Cardinality(S) <= EffectiveCapacity,
         N \subseteq S \ {x}
  PROVE  Cardinality(N) < EffectiveCapacity
<1>1. IsFiniteSet(S \ {x}) /\ Cardinality(S \ {x}) = Cardinality(S) - 1
      /\ Cardinality(S) \in Nat
  BY FS_RemoveElement, FS_CardinalityType
<1>2. IsFiniteSet(N) /\ Cardinality(N) <= Cardinality(S \ {x})
  BY <1>1, FS_Subset
<1>3. Cardinality(N) \in Nat
  BY <1>2, FS_CardinalityType
<1> QED BY <1>1, <1>2, <1>3, CapacityFacts

(* The names that the filter keeps, in terms of the list. *)
LEMMA KeptNames ==
  ASSUME NEW n
  PROVE  Filter!Kept(n) =
           {m \in Tracked \ {n} : Cardinality(InFront(m) \cup {n}) < EffectiveCapacity}
<1>1. \A S : Filter!Cardinality(S) = Cardinality(S)
  BY DEF Filter!Cardinality, Cardinality
<1> QED BY <1>1 DEF Filter!Kept, Tracked

(* Accepting a tracked name forgets no other: too few were accepted since. *)
LEMMA TrackedKept ==
  ASSUME Consistent, NEW n \in Tracked
  PROVE  Filter!Kept(n) = Tracked \ {n}
<1>1. ASSUME NEW m \in Tracked, m # n
      PROVE  Cardinality(InFront(m) \cup {n}) < EffectiveCapacity
  <2>1. InFront(m) \cup {n} \subseteq Tracked \ {m}
    BY <1>1, InFrontFacts
  <2> QED BY <2>1, FewNames, CapacityFacts DEF Consistent
<1> QED BY <1>1, KeptNames

(* Nor does accepting a new one while there is room. *)
LEMMA NewKept ==
  ASSUME Consistent, NEW n \in Names, n \notin Tracked, ~ Evicts
  PROVE  Filter!Kept(n) = Tracked
<1> DEFINE S == Tracked \cup {n}
<1>1. ASSUME NEW m \in Tracked
      PROVE  Cardinality(InFront(m) \cup {n}) < EffectiveCapacity
  <2>1. InFront(m) \cup {n} \subseteq S \ {m} /\ m \in S
    BY InFrontFacts
  <2>2. m_lruTracker # << >>
    <3>1. \E j \in 1..Len(m_lruTracker) : m_lruTracker[j].name = m
      BY LinkedHasNames DEF Consistent
    <3> QED BY <3>1, EmptySeq
  <2>3. IsFiniteSet(S) /\ Cardinality(S) = Cardinality(Tracked) + 1
    BY FS_AddElement DEF Consistent
  <2>4. Cardinality(S) <= EffectiveCapacity
    BY <2>2, <2>3, CapacityFacts DEF Evicts
  <2> HIDE DEF S
  <2> QED BY <2>1, <2>3, <2>4, FewNames
<1> QED BY <1>1, KeptNames

(* In a full table exactly the oldest name has all others accepted since. *)
LEMMA EvictingKept ==
  ASSUME Consistent, NEW n \in Names, n \notin Tracked, Evicts
  PROVE  Filter!Kept(n) = Tracked \ {OldestKey}
<1> DEFINE S == (Tracked \ {OldestKey}) \cup {n}
<1>1. m_lruTracker # << >>
  BY DEF Evicts
<1>2. Tracked # {}
  <2>1. 1 \in 1..Len(m_lruTracker)
    BY <1>1, EmptySeq, LenProperties DEF Consistent, TypeOK
  <2> QED BY <2>1 DEF Consistent, Linked
<1>3. OldestKey \in Tracked /\ InFront(OldestKey) = Tracked \ {OldestKey}
  BY <1>1, <1>2, InFrontFacts
<1>4. Cardinality(Tracked) = EffectiveCapacity
  <2>1. Cardinality(Tracked) # 0
    BY <1>2, FS_EmptySet DEF Consistent
  <2> QED BY <2>1, CapacityFacts DEF Evicts
<1>5. IsFiniteSet(S) /\ Cardinality(S) = EffectiveCapacity
  <2>1. /\ IsFiniteSet(Tracked \ {OldestKey})
        /\ Cardinality(Tracked \ {OldestKey}) = Cardinality(Tracked) - 1
    BY <1>3, FS_RemoveElement DEF Consistent
  <2>2. /\ IsFiniteSet(S) /\ Cardinality(S) = Cardinality(Tracked \ {OldestKey}) + 1
    BY <2>1, FS_AddElement
  <2> QED BY <1>4, <2>1, <2>2, CapacityFacts
<1>6. ASSUME NEW m \in Tracked \ {OldestKey}
      PROVE  Cardinality(InFront(m) \cup {n}) < EffectiveCapacity
  <2>1. InFront(m) \cup {n} \subseteq S \ {m} /\ m \in S
    BY <1>1, InFrontFacts
  <2>2. EffectiveCapacity <= EffectiveCapacity
    BY CapacityFacts
  <2> HIDE DEF S
  <2> QED BY <1>5, <2>1, <2>2, FewNames
<1>7. ~ (Cardinality(InFront(OldestKey) \cup {n}) < EffectiveCapacity)
  BY <1>3, <1>5, CapacityFacts
<1> QED BY <1>3, <1>6, <1>7, KeptNames

-----------------------------------------------------------------------------
(* Every step of the cache is a step of the filter. *)

(* An accepting call is an accepting step of the filter. *)
LEMMA AcceptingStep ==
  ASSUME Consistent, NEW n \in Names, NEW s \in Seqns, NEW keep,
         Keeps(keep, n, s), Filter!Kept(n) = keep, Filter!Fresh(n, s),
         reply' = <<n, s, TRUE>>
  PROVE  Filter!Accept(n, s)
<1>1. Tracked' = keep \cup {n} /\ n \notin keep /\ keep \subseteq Tracked
  BY DEF Keeps, Tracked
<1>2. EffectiveCapacity' = EffectiveCapacity
  BY DEF Keeps, EffectiveCapacity
<1>3. [m \in Tracked |-> InFront(m)]'
        = [m \in keep \cup {n} |->
             IF m = n THEN {} ELSE [x \in Tracked |-> InFront(x)][m] \cup {n}]
  BY <1>1 DEF Keeps
<1>4. m_seqTable' = [m \in keep \cup {n} |-> IF m = n THEN s ELSE m_seqTable[m]]
  BY DEF Keeps
<1> QED BY <1>2, <1>3, <1>4 DEF Filter!Accept

(* Every step of the cache is a step of the filter, or a stutter. *)
LEMMA StepImplements ==
  ASSUME Consistent, Consistent', [Next]_vars
  PROVE  [Filter!Next]_(Filter!vars)
<1>1. m_seqTable \in [Tracked -> Seqns] /\ Tracked \subseteq Names
  BY DEF Consistent, TypeOK
<1>2. Filter!Numbers = Seqns
  BY DEF Filter!Numbers, Seqns
<1>3. ASSUME NEW n \in Names, NEW s \in Seqns, n \notin Tracked
      PROVE  Filter!Fresh(n, s)
  BY <1>3 DEF Filter!Fresh, Tracked
<1>4. ASSUME NEW n \in Names, NEW s \in Seqns, DropUnfresh(n, s),
             reply' = <<n, s, FALSE>>
      PROVE  Filter!Drop(n, s)
  <2>1. n \in Tracked /\ ~ Filter!Fresh(n, s)
    BY <1>1, <1>4, FreshIffInside DEF DropUnfresh
  <2>2. UNCHANGED <<EffectiveCapacity, m_seqTable, [m \in Tracked |-> InFront(m)]>>
    BY <1>4 DEF DropUnfresh, cache, EffectiveCapacity, Tracked, InFront
  <2> QED BY <1>4, <2>1, <2>2 DEF Filter!Drop
<1>5. ASSUME NEW n \in Names, NEW s \in Seqns, AcceptTracked(n, s),
             reply' = <<n, s, TRUE>>
      PROVE  Filter!Accept(n, s)
  <2>1. n \in Tracked /\ Inside(n, s)
    BY <1>5 DEF AcceptTracked
  <2>2. Filter!Fresh(n, s)
    BY <1>1, <2>1, FreshIffInside
  <2> QED BY <1>5, <2>1, <2>2, AcceptTrackedKeeps, TrackedKept, AcceptingStep
<1>6. ASSUME NEW n \in Names, NEW s \in Seqns, AcceptNew(n, s),
             reply' = <<n, s, TRUE>>
      PROVE  Filter!Accept(n, s)
  <2>1. n \notin Tracked /\ ~ Evicts
    BY <1>6 DEF AcceptNew
  <2> QED BY <1>3, <1>6, <2>1, AcceptNewKeeps, NewKept, AcceptingStep
<1>7. ASSUME NEW n \in Names, NEW s \in Seqns, AcceptEvicting(n, s),
             reply' = <<n, s, TRUE>>
      PROVE  Filter!Accept(n, s)
  <2>1. n \notin Tracked /\ Evicts
    BY <1>7 DEF AcceptEvicting
  <2> QED BY <1>3, <1>7, <2>1, AcceptEvictingKeeps, EvictingKept, AcceptingStep
<1>8. CASE Clear /\ reply' = << >>
  <2>1. Tracked' = {} /\ m_seqTable' = << >> /\ EffectiveCapacity' = EffectiveCapacity
    BY <1>8 DEF Clear, Tracked, EffectiveCapacity
  <2>2. [m \in Tracked |-> InFront(m)]' = << >>
    BY <2>1
  <2> QED BY <1>8, <2>1, <2>2 DEF Filter!Next, Filter!Forget
<1>9. CASE UNCHANGED vars
  BY <1>9 DEF vars, Filter!vars, EffectiveCapacity, Tracked, InFront
<1> QED BY <1>2, <1>4, <1>5, <1>6, <1>7, <1>8, <1>9 DEF Next, Filter!Next

(* A new cache is a new filter. *)
LEMMA InitImplements == Init => Filter!Init
<1> SUFFICES ASSUME Init PROVE Filter!Init
  OBVIOUS
<1>1. Consistent
  BY InitConsistent
<1>2. m_seqTable = << >> /\ Tracked = {} /\ reply = << >>
  BY DEF Init, InitCache, Tracked
<1>3. [m \in Tracked |-> InFront(m)] = << >>
  BY <1>2
<1> QED BY <1>1, <1>2, <1>3, CapacityFacts DEF Filter!Init

(* validateSequence answers every call as the filter would                 *)
(* (seq-cache.cpp:26-76): the list and the eviction implement "forgotten   *)
(* once as many other names as the capacity were accepted".                *)
THEOREM SpecImplementsFilter == Spec => ImplementsFilter
<1>1. Consistent /\ Consistent' /\ [Next]_vars => [Filter!Next]_(Filter!vars)
  BY StepImplements
<1> QED BY <1>1, InitImplements, SpecConsistent, PTL
        DEF Spec, ImplementsFilter, Filter!Spec
=============================================================================
