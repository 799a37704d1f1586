--------------------------- MODULE SecurityEngine ---------------------------
(***************************************************************************)
(* The keyed tags of packets: class SecurityEngine                         *)
(* (model/security-engine.hpp, model/security-engine.cpp), Algorithm 1.    *)
(* HMAC-SHA256 is external: a tag computed under the shared key is the     *)
(* tuple of the fields it covers, so that equal tags mean equal fields     *)
(* (collisions of truncated tags are left out).  A header whose tag was    *)
(* not computed from its fields carries a tag of other fields or Garbled.  *)
(***************************************************************************)

(* The value 0 that computeHmac returns when the HMAC call fails. *)
NoTag == <<"0">>

(* A tag that is the tag of no fields at all. *)
Garbled == <<"garbled">>

computeHmac(name, ph, rhc, seqn, succeeds) ==
  IF succeeds THEN <<name, ph, rhc, seqn>> ELSE NoTag

(* verify(): the tag the header carries against the one just computed. *)
Verifies(name, hdr, succeeds) ==
  hdr.hmac = computeHmac(name, hdr.ph, hdr.rhc, hdr.seqn, succeeds)
=============================================================================
