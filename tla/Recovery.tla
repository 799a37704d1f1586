------------------------------ MODULE Recovery ------------------------------
(***************************************************************************)
(* A producer that is reset starts to number from 1 again, while a router  *)
(* downstream still remembers the old numbers: Producer and SeqCache over  *)
(* a link that keeps the order and loses nothing.  The router sees a       *)
(* packet before the producer makes the next one, so publishing and        *)
(* validating is one step.                                                 *)
(***************************************************************************)
EXTENDS Integers, FiniteSets, Sequences

CONSTANTS Names, Nodes, HalfWin, Capacities,
          MaxResets     \* bound: resets of the producer

VARIABLES m_globalSeqn,
          m_maxTrackedEntries, m_seqTable, m_lruTracker, m_lruMap,
          resets,       \* resets so far
          rejected      \* name -> packets rejected in a row since the last reset

Modulus == 2 * HalfWin

Origin == INSTANCE Producer
Router == INSTANCE SeqCache WITH reply <- << >>

routerVars == <<m_maxTrackedEntries, m_seqTable, m_lruTracker, m_lruMap>>
vars == <<m_globalSeqn, routerVars, resets, rejected>>

ASSUME RecoveryAssumption == MaxResets \in Nat /\ HalfWin \in Nat \ {0}

Init ==
  /\ Origin!InitProducer
  /\ Router!InitCache
  /\ resets = 0
  /\ rejected = [n \in Names |-> 0]

(* createHeader(n) at the producer, validateSequence at the router. *)
Rejected(n) ==
  /\ Router!DropUnfresh(n, Origin!nextSeqn(n))
  /\ Origin!CreateHeader(n)
  /\ rejected' = [rejected EXCEPT ![n] = @ + 1]
  /\ UNCHANGED resets

Accepted(n) ==
  /\ Router!Accept(n, Origin!nextSeqn(n))
  /\ Origin!CreateHeader(n)
  /\ rejected' = [rejected EXCEPT ![n] = 0]
  /\ UNCHANGED resets

Send(n) == Rejected(n) \/ Accepted(n)

ResetProducer ==
  /\ resets < MaxResets
  /\ Origin!Reset
  /\ resets' = resets + 1
  /\ rejected' = [n \in Names |-> 0]
  /\ UNCHANGED routerVars

ClearRouter ==
  /\ Router!Clear
  /\ UNCHANGED <<m_globalSeqn, resets, rejected>>

Next ==
  \/ \E n \in Names : Send(n)
  \/ ResetProducer
  \/ ClearRouter

(* Consumers keep asking for every name (ConsumerCbr in the scripts), so   *)
(* the producer keeps publishing it.  Nothing obliges anyone to reset the  *)
(* producer or to clear the cache.                                         *)
Fairness == \A n \in Names : WF_vars(Send(n))

Spec == Init /\ [][Next]_vars /\ Fairness

-----------------------------------------------------------------------------
(***************************************************************************)
(* Properties.                                                             *)
(***************************************************************************)

(* After a reset, at whatever number it came, a router rejects at most     *)
(* half a circle of packets of a name before it follows the producer       *)
(* again; without a reset the count stays 0.                               *)
RejectionBound ==
  /\ \A n \in Names : rejected[n] <= HalfWin
  /\ resets = 0 => \A n \in Names : rejected[n] = 0

(* However often the producer has been reset, every name is eventually     *)
(* accepted for good: the numbers catch up with the router's memory and    *)
(* stay ahead of it.                                                       *)
Recovers == \A n \in Names : <>[](rejected[n] = 0)
=============================================================================
