---------------------------- MODULE MCRendezvous ----------------------------
(* Small instances of Rendezvous for TLC. *)
EXTENDS Rendezvous, TLC

CONSTANTS c1, c2

(* A call that finds a stale entry goes on with the policy of its context. *)
MCPolicy == c1 :> "External" @@ c2 :> "Internal"
=============================================================================
