------------------------------ MODULE MCHelper ------------------------------
(* Two nodes; 0, a number that every setting can take, one that is no      *)
(* uint8_t, and one that is 0 once truncated to a word of 1000.            *)
EXTENDS CaccSecureHelper
=============================================================================
