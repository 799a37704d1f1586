---------------------------- MODULE ReplayFilter ----------------------------
(***************************************************************************)
(* What the SEQN cache promises its caller, said without a table, a list   *)
(* or an eviction.  A filter of a given capacity remembers, for a content  *)
(* name, the last accepted number and the set of OTHER names accepted      *)
(* since.  A name is forgotten exactly when that set reaches the capacity, *)
(* so replay protection of a name lasts until `capacity' distinct other    *)
(* names have been accepted after it.  SeqCache implements this filter.    *)
(***************************************************************************)
EXTENDS Integers, FiniteSets

CONSTANTS Names,      \* content names
          Modulus,    \* size of the circular number space
          HalfWin     \* how far ahead of the last number a fresh one may be

VARIABLES capacity,   \* distinct names the filter must be able to remember
          last,       \* remembered name -> last accepted number
          since,      \* remembered name -> other names accepted after it
          reply       \* <<>>, or the last question and its verdict

vars == <<capacity, last, since, reply>>

Numbers == 0..(Modulus - 1)

(* s lies one to HalfWin steps ahead of l on the circle. *)
Ahead(l, s) == \E k \in 1..HalfWin : (l + k) % Modulus = s

Fresh(n, s) == n \in DOMAIN last => Ahead(last[n], s)

(* The names still remembered once n has been accepted. *)
Kept(n) == {m \in DOMAIN last \ {n} : Cardinality(since[m] \cup {n}) < capacity}

Init ==
  /\ capacity \in Nat \ {0}
  /\ last = << >>
  /\ since = << >>
  /\ reply = << >>

Accept(n, s) ==
  /\ Fresh(n, s)
  /\ last' = [m \in Kept(n) \cup {n} |-> IF m = n THEN s ELSE last[m]]
  /\ since' = [m \in Kept(n) \cup {n} |->
                 IF m = n THEN {} ELSE since[m] \cup {n}]
  /\ reply' = <<n, s, TRUE>>
  /\ UNCHANGED capacity

Drop(n, s) ==
  /\ ~ Fresh(n, s)
  /\ reply' = <<n, s, FALSE>>
  /\ UNCHANGED <<capacity, last, since>>

Forget ==
  /\ last' = << >>
  /\ since' = << >>
  /\ reply' = << >>
  /\ UNCHANGED capacity

Next ==
  \/ \E n \in Names, s \in Numbers : Accept(n, s) \/ Drop(n, s)
  \/ Forget

Spec == Init /\ [][Next]_vars
=============================================================================
