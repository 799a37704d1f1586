--------------------------- MODULE RouterHistory ---------------------------
(***************************************************************************)
(* RouterPipeline with a record of what process() asks its two filtering   *)
(* components and what they answer: the calls of validateSequence and of   *)
(* checkAndUpdate, as SeqCache and RateLimiter record them for themselves. *)
(* The record guides nothing; it only says which behaviour of each         *)
(* component a behaviour of the router is.                                 *)
(***************************************************************************)
EXTENDS RouterPipeline

VARIABLES reply,     \* <<>>, or <<name, SEQN, value returned>> of the last call
          recorded,  \* name -> every packet the limiter let through
          answer     \* <<>>, or <<name, PH, clamped?, PH afterwards>>

limiterHistory == <<recorded, answer>>
historyVars == <<reply, limiterHistory>>
allVars == <<vars, historyVars>>

Cache == INSTANCE SeqCache
(* When the HMAC call fails the zeroed header passes, with its PH 0. *)
Limiter == INSTANCE RateLimiter WITH PHs <- PHs \cup {0}

HistoryInit == Init /\ Cache!Init /\ Limiter!Init

(* What the limiter says of a packet that reaches it. *)
Limited(name, ph) ==
  IF Rate!AtLimit(name)
  THEN /\ answer' = <<name, ph, TRUE, Rate!Window(name).lastPh>>
       /\ UNCHANGED recorded
  ELSE /\ answer' = <<name, ph, FALSE, ph>>
       /\ Limiter!Log(name, ph)

(* Module B.1 asks neither component, B.2 the cache only. *)
ProcessAsks(name, hdr, hop, succeeds) ==
  \/ DropTampering(name, hdr, hop, succeeds) /\ UNCHANGED historyVars
  \/ /\ DropReplay(name, hdr, hop, succeeds)
     /\ reply' = <<name, hdr.seqn, FALSE>>
     /\ UNCHANGED limiterHistory
  \/ /\ Forward(name, hdr, hop, succeeds)
     /\ reply' = <<name, hdr.seqn, TRUE>>
     /\ Limited(name, hdr.ph)

HistoryNext ==
  \/ \E name \in Names, hop \in Neighbours, succeeds \in BOOLEAN :
       \E hdr \in Headers(name) : ProcessAsks(name, hdr, hop, succeeds)
  \/ ClearSeqCache /\ reply' = << >> /\ UNCHANGED limiterHistory
  \/ /\ ClearRateLimiter
     /\ recorded' = [n \in Names |-> << >>]
     /\ answer' = << >>
     /\ UNCHANGED reply
  \/ (ResetStats \/ AdvanceClock) /\ UNCHANGED historyVars

HistorySpec == HistoryInit /\ [][HistoryNext]_allVars

-----------------------------------------------------------------------------
(***************************************************************************)
(* Properties.                                                             *)
(***************************************************************************)

(* Behind the tag check and in front of the limiter the SEQN cache still   *)
(* keeps its promise: the router drops exactly the replays that the        *)
(* ReplayFilter would drop among the packets whose tag fits, and no other  *)
(* packet, nor anything else the router does, changes what is remembered.  *)
RouterFiltersReplays == Cache!ImplementsFilter

(* The router hands on exactly the PHs that the SlidingWindow over the     *)
(* packets it has forwarded would hand on: one that it drops for its tag   *)
(* or its number takes no place in the window of its name.                 *)
RouterLimitsForwarded == Limiter!ImplementsWindow
=============================================================================
