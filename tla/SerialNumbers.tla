--------------------------- MODULE SerialNumbers ---------------------------
(***************************************************************************)
(* From a producer, or from a content store on the way, over a link to the *)
(* SEQN cache of a router: Producer, CacheResponse and SeqCache composed.  *)
(* Next to the 8-bit SEQN every packet carries a ghost number `no' that    *)
(* never wraps, so that "newer" and "older" have a meaning.  Tags fit and  *)
(* the link does not alter packets.                                        *)
(***************************************************************************)
EXTENDS Integers, FiniteSets, SequencesExt

CONSTANTS Names, Nodes, HalfWin, Capacities,
          Stores,       \* TRUE: a content store on the way answers requests
          Reorders,     \* TRUE: packets may overtake one another
          Duplicates,   \* TRUE: the link may deliver a packet again
          Loses         \* TRUE: the link may lose a packet

VARIABLES m_globalSeqn,                                            \* producer
          m_maxTrackedEntries, m_seqTable, m_lruTracker, m_lruMap, \* router
          store,     \* name -> packet kept by the content store
          link,      \* packets on their way to the router, oldest first
          issued,    \* ghost: name -> number of the producer's last packet
          newest,    \* ghost: tracked name -> number the router accepted last
          delivered  \* <<>>, or <<packet, accepted?>> of the last delivery

Modulus == 2 * HalfWin

Origin == INSTANCE Producer
Router == INSTANCE SeqCache WITH reply <- << >>

routerVars == <<m_maxTrackedEntries, m_seqTable, m_lruTracker, m_lruMap>>
vars == <<m_globalSeqn, routerVars, store, link, issued, newest, delivered>>

ASSUME SerialNumbersAssumption ==
  /\ HalfWin \in Nat \ {0}
  /\ Capacities \subseteq Nat
  /\ {Stores, Reorders, Duplicates, Loses} \subseteq BOOLEAN

Packets == [name : Names, seqn : Origin!Seqns, no : Nat,
            from : {"producer", "store"}]

(* Types; and every 8-bit number is its ghost number, modulo 256. *)
TypeOK ==
  /\ Origin!CountersOK
  /\ Router!TypeOK
  /\ DOMAIN store \subseteq Names /\ store \in [DOMAIN store -> Packets]
  /\ link \in Seq(Packets)
  /\ issued \in [Names -> Nat]
  /\ newest \in [Router!Tracked -> Nat]
  /\ \A n \in Names : Origin!currentSeqn(n) = issued[n] % Modulus
  /\ \A i \in DOMAIN link : link[i].seqn = link[i].no % Modulus
  /\ \A n \in Router!Tracked : m_seqTable[n] = newest[n] % Modulus

Init ==
  /\ Origin!InitProducer
  /\ Router!InitCache
  /\ store = << >>
  /\ link = << >>
  /\ issued = [n \in Names |-> 0]
  /\ newest = << >>
  /\ delivered = << >>

(* The producer answers a request for n; a content store may keep the      *)
(* packet as it passes.                                                    *)
Publish(n) ==
  LET p == [name |-> n, seqn |-> Origin!nextSeqn(n), no |-> issued[n] + 1,
            from |-> "producer"] IN
    /\ Origin!CreateHeader(n)
    /\ issued' = [issued EXCEPT ![n] = p.no]
    /\ link' = Append(link, p)
    /\ \/ UNCHANGED store
       \/ /\ Stores
          /\ store' = [m \in DOMAIN store \cup {n} |-> IF m = n THEN p ELSE store[m]]
    /\ UNCHANGED <<routerVars, newest, delivered>>

(* Producer::reset().  Numbers start over from 0, as if the producer had   *)
(* jumped ahead to the next multiple of 256.                               *)
ResetProducer ==
  /\ Origin!Reset
  /\ issued' = [n \in Names |-> issued[n] + ((-issued[n]) % Modulus)]
  /\ UNCHANGED <<routerVars, store, link, newest, delivered>>

(* CacheResponse::updateHeader: one more than the stored packet, which is  *)
(* passed by const reference and stays as it is.                           *)
updateHeader(p) ==
  [name |-> p.name, seqn |-> (p.seqn + 1) % Modulus, no |-> p.no + 1,
   from |-> "store"]

(* The content store answers a request for n in the producer's place. *)
Respond(n) ==
  /\ n \in DOMAIN store
  /\ link' = Append(link, updateHeader(store[n]))
  /\ UNCHANGED <<m_globalSeqn, routerVars, store, issued, newest, delivered>>

(* Positions of the link from which the next packet may come. *)
Heads == IF Reorders THEN DOMAIN link ELSE {i \in DOMAIN link : i = 1}

(* The router validates the packet at i, which the link may keep a copy of. *)
Deliver(i) ==
  LET p == link[i] IN
    /\ \/ /\ Router!DropUnfresh(p.name, p.seqn)
          /\ delivered' = <<p, FALSE>>
          /\ UNCHANGED newest
       \/ /\ Router!Accept(p.name, p.seqn)
          /\ delivered' = <<p, TRUE>>
          /\ newest' = [n \in Router!Tracked' |->
                          IF n = p.name THEN p.no ELSE newest[n]]
    /\ link' = RemoveAt(link, i) \/ (Duplicates /\ UNCHANGED link)
    /\ UNCHANGED <<m_globalSeqn, store, issued>>

Lose(i) ==
  /\ Loses
  /\ link' = RemoveAt(link, i)
  /\ UNCHANGED <<m_globalSeqn, routerVars, store, issued, newest, delivered>>

Next ==
  \/ \E n \in Names : Publish(n) \/ Respond(n)
  \/ ResetProducer
  \/ \E i \in Heads : Deliver(i) \/ Lose(i)

Spec == Init /\ [][Next]_vars

-----------------------------------------------------------------------------
(***************************************************************************)
(* Properties.                                                             *)
(***************************************************************************)

(* What the 8-bit comparison is for: the router takes a packet up to half  *)
(* a circle newer than the last one it accepted, and drops one that is the *)
(* same or less than half a circle older, in whatever order, however often *)
(* and after however many losses and resets packets arrive.  It takes any  *)
(* packet of a name it does not track.                                     *)
NewerIffAccepted ==
  [][\A i \in DOMAIN link : Deliver(i) =>
       LET p == link[i]
           ahead == p.no - newest[p.name] IN
         /\ p.name \notin Router!Tracked => delivered'[2]
         /\ p.name \in Router!Tracked =>
              /\ ahead \in 1..HalfWin => delivered'[2]
              /\ ahead \in (1 - HalfWin)..0 => ~ delivered'[2]]_vars

(* cache-response.hpp:28: the header made for a cached packet has a "fresh *)
(* ... SEQN", so a router that gets it for the first time accepts it.      *)
ResponsesFresh ==
  (delivered # << >> /\ delivered[1].from = "store") => delivered[2]
=============================================================================
