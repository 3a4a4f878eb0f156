---------------------------- MODULE MCOrderSystem ----------------------------
(* OrderSystem on a small instance. *)
EXTENDS OrderSystem

=============================================================================
