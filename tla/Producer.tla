------------------------------ MODULE Producer ------------------------------
(***************************************************************************)
(* The origin of content: class Producer (model/producer.hpp,              *)
(* model/producer.cpp), Algorithm 6 of the protocol.  It numbers the       *)
(* packets of each name with a uint8_t.  PH and RHC start at 0 and the tag *)
(* fits, so a header is told apart by its SEQN.                            *)
(***************************************************************************)
EXTENDS Integers

CONSTANTS Names,     \* content names
          Modulus    \* 256 in the code: numbers are uint8_t

VARIABLE m_globalSeqn   \* name -> last number, for names published so far

Seqns == 0..(Modulus - 1)

CountersOK ==
  /\ DOMAIN m_globalSeqn \subseteq Names
  /\ m_globalSeqn \in [DOMAIN m_globalSeqn -> Seqns]

InitProducer == m_globalSeqn = << >>

currentSeqn(n) == IF n \in DOMAIN m_globalSeqn THEN m_globalSeqn[n] ELSE 0

(* Mutant: the counter saturates instead of wrapping. *)
nextSeqnSaturating(n) ==
  IF currentSeqn(n) = Modulus - 1 THEN Modulus - 1 ELSE currentSeqn(n) + 1

nextSeqn(n) == (currentSeqn(n) + 1) % Modulus

(* createHeader(n), whose header carries nextSeqn(n). *)
CreateHeader(n) ==
  m_globalSeqn' = [m \in DOMAIN m_globalSeqn \cup {n} |->
                     IF m = n THEN nextSeqn(n) ELSE m_globalSeqn[m]]

Reset == m_globalSeqn' = << >>
=============================================================================
