------------------------------ MODULE SeqCache ------------------------------
(***************************************************************************)
(* The anti-replay cache of a router: class SeqCache (model/seq-cache.hpp, *)
(* model/seq-cache.cpp), Algorithm 2 of the protocol.                      *)
(*                                                                         *)
(* Three containers describe one thing and must agree after every call:    *)
(* m_seqTable (name -> last SEQN), m_lruTracker (a std::list of names,     *)
(* most recently accepted first) and m_lruMap (name -> iterator into the   *)
(* list).  A list element is modelled with the address of its node, and an *)
(* iterator is such an address, so that a dangling or misplaced iterator   *)
(* is a state of the model.  A new element takes any address that no live  *)
(* element has: the one just freed, or another.                            *)
(***************************************************************************)
EXTENDS Integers, FiniteSets, Functions, SequencesExt

CONSTANTS Names,        \* content names
          Nodes,        \* addresses of list nodes
          HalfWin,      \* SEQN_HALF_WIN, 128 in the code
          Capacities    \* the maxTrackedEntries a router may be built with

(* SEQN_MODULUS, 256 in the code: a SEQN is a uint8_t. *)
Modulus == 2 * HalfWin

ASSUME SeqCacheAssumption ==
  /\ HalfWin \in Nat \ {0}
  /\ Capacities \subseteq Nat

VARIABLES m_maxTrackedEntries,
          m_seqTable,
          m_lruTracker,
          m_lruMap,
          reply         \* <<>>, or <<name, SEQN, value returned>> of the last call

cache == <<m_maxTrackedEntries, m_seqTable, m_lruTracker, m_lruMap>>
vars == <<m_maxTrackedEntries, m_seqTable, m_lruTracker, m_lruMap, reply>>

Seqns == 0..(Modulus - 1)
Elements == [node : Nodes, name : Names]

Tracked == DOMAIN m_seqTable

(* The types of the containers; both maps have the same names as keys. *)
TypeOK ==
  /\ m_maxTrackedEntries \in Capacities
  /\ Tracked \subseteq Names
  /\ m_seqTable \in [Tracked -> Seqns]
  /\ m_lruTracker \in Seq(Elements)
  /\ m_lruMap \in [Tracked -> Nodes]

InitCache ==
  /\ m_maxTrackedEntries \in Capacities
  /\ m_seqTable = << >>
  /\ m_lruTracker = << >>
  /\ m_lruMap = << >>

Init ==
  /\ InitCache
  /\ reply = << >>

(* The circular distance from the last SEQN of n, as the code computes it  *)
(* in 16 bits.                                                             *)
Diff(n, s) == (s + Modulus - m_seqTable[n]) % Modulus

(* Mutants: the test for a duplicate dropped; the half circle itself out. *)
InsideDuplicates(n, s) == Diff(n, s) <= HalfWin
InsideShort(n, s) == Diff(n, s) # 0 /\ Diff(n, s) < HalfWin

Inside(n, s) == Diff(n, s) # 0 /\ Diff(n, s) <= HalfWin

(* push_front of a new element for n on a list, SEQN and iterator stored. *)
Insert(n, s, table, list, iters) ==
  \E p \in Nodes :
    /\ \A i \in DOMAIN list : list[i].node # p
    /\ m_seqTable' = [m \in DOMAIN table \cup {n} |-> IF m = n THEN s ELSE table[m]]
    /\ m_lruTracker' = <<[node |-> p, name |-> n]>> \o list
    /\ m_lruMap' = [m \in DOMAIN iters \cup {n} |-> IF m = n THEN p ELSE iters[m]]

(* EvictsLate is a mutant: the test written with >.                         *)
(* size() >= m_maxTrackedEntries calls evictOldest(), which returns at once *)
(* when the list is empty: a capacity of 0 behaves as a capacity of 1.      *)
EvictsLate == Cardinality(Tracked) > m_maxTrackedEntries /\ m_lruTracker # << >>

Evicts == Cardinality(Tracked) >= m_maxTrackedEntries /\ m_lruTracker # << >>

OldestKey == m_lruTracker[Len(m_lruTracker)].name

(***************************************************************************)
(* One call of validateSequence is one of the next four actions.           *)
(***************************************************************************)
DropUnfresh(n, s) ==
  /\ n \in Tracked
  /\ ~ Inside(n, s)
  /\ UNCHANGED cache

(* Mutants: the iterator of the erased element kept; the element left where *)
(* it was, which makes the cache evict first-in first-out.                  *)
AcceptTrackedStaleIterator(n, s) ==
  /\ n \in Tracked
  /\ Inside(n, s)
  /\ \E i \in DOMAIN m_lruTracker, p \in Nodes \ {m_lruMap[m] : m \in Tracked} :
       /\ m_lruTracker[i].node = m_lruMap[n]
       /\ m_lruTracker' = <<[node |-> p, name |-> n]>> \o RemoveAt(m_lruTracker, i)
  /\ m_seqTable' = [m_seqTable EXCEPT ![n] = s]
  /\ UNCHANGED <<m_maxTrackedEntries, m_lruMap>>

AcceptTrackedUntouched(n, s) ==
  /\ n \in Tracked
  /\ Inside(n, s)
  /\ m_seqTable' = [m_seqTable EXCEPT ![n] = s]
  /\ UNCHANGED <<m_maxTrackedEntries, m_lruTracker, m_lruMap>>

(* erase(m_lruMap[n]), then push_front and the new iterator. *)
AcceptTracked(n, s) ==
  /\ n \in Tracked
  /\ Inside(n, s)
  /\ \E i \in DOMAIN m_lruTracker :
       /\ m_lruTracker[i].node = m_lruMap[n]
       /\ Insert(n, s, m_seqTable, RemoveAt(m_lruTracker, i), m_lruMap)
  /\ UNCHANGED m_maxTrackedEntries

AcceptNew(n, s) ==
  /\ n \notin Tracked
  /\ ~ Evicts
  /\ Insert(n, s, m_seqTable, m_lruTracker, m_lruMap)
  /\ UNCHANGED m_maxTrackedEntries

(* Mutant: evictOldest() leaves the victim's iterator behind. *)
AcceptEvictingLeaky(n, s) ==
  /\ n \notin Tracked
  /\ Evicts
  /\ Insert(n, s, Restrict(m_seqTable, Tracked \ {OldestKey}),
                  Front(m_lruTracker), m_lruMap)
  /\ UNCHANGED m_maxTrackedEntries

AcceptEvicting(n, s) ==
  /\ n \notin Tracked
  /\ Evicts
  /\ Insert(n, s, Restrict(m_seqTable, Tracked \ {OldestKey}),
                  Front(m_lruTracker),
                  Restrict(m_lruMap, DOMAIN m_lruMap \ {OldestKey}))
  /\ UNCHANGED m_maxTrackedEntries

Accept(n, s) == AcceptTracked(n, s) \/ AcceptNew(n, s) \/ AcceptEvicting(n, s)

Clear ==
  /\ m_seqTable' = << >>
  /\ m_lruTracker' = << >>
  /\ m_lruMap' = << >>
  /\ UNCHANGED m_maxTrackedEntries

Next ==
  \/ \E n \in Names, s \in Seqns :
       \/ DropUnfresh(n, s) /\ reply' = <<n, s, FALSE>>
       \/ AcceptTracked(n, s) /\ reply' = <<n, s, TRUE>>
       \/ AcceptNew(n, s) /\ reply' = <<n, s, TRUE>>
       \/ AcceptEvicting(n, s) /\ reply' = <<n, s, TRUE>>
  \/ Clear /\ reply' = << >>

Spec == Init /\ [][Next]_vars

-----------------------------------------------------------------------------
(***************************************************************************)
(* Properties.                                                             *)
(***************************************************************************)

(* Every name of the table has an iterator that points at a live element   *)
(* carrying that name, every element is the target of its name's iterator, *)
(* and no two elements share an address: erase() never gets a dangling     *)
(* iterator and evictOldest() never leaves a name without its element.     *)
IteratorsValid ==
  /\ \A i, j \in DOMAIN m_lruTracker :
       m_lruTracker[i].node = m_lruTracker[j].node => i = j
  /\ \A i \in DOMAIN m_lruTracker :
       /\ m_lruTracker[i].name \in Tracked
       /\ m_lruMap[m_lruTracker[i].name] = m_lruTracker[i].node
  /\ \A n \in Tracked : \E i \in DOMAIN m_lruTracker :
       m_lruTracker[i] = [node |-> m_lruMap[n], name |-> n]

EffectiveCapacity == IF m_maxTrackedEntries = 0 THEN 1 ELSE m_maxTrackedEntries

(* The cache never tracks more names than its capacity, whatever mix of    *)
(* touches, insertions and evictions came before.                          *)
SizeBound == Cardinality(Tracked) <= EffectiveCapacity

(* The names in front of n in the list: those accepted after n. *)
InFront(n) ==
  {m_lruTracker[i].name : i \in {i \in DOMAIN m_lruTracker :
     \E j \in DOMAIN m_lruTracker : i < j /\ m_lruTracker[j].name = n}}

(* validateSequence answers every call as the ReplayFilter would: a number *)
(* is accepted iff its name is not remembered or the number lies ahead of  *)
(* the last accepted one, and a name is remembered until as many other     *)
(* names as the capacity have been accepted after it.                      *)
Filter == INSTANCE ReplayFilter
            WITH capacity <- EffectiveCapacity,
                 last <- m_seqTable,
                 since <- [n \in Tracked |-> InFront(n)]

ImplementsFilter == Filter!Spec
=============================================================================
