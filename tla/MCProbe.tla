------------------------------ MODULE MCProbe ------------------------------
(* Small probes: a module that asks for none, one, two or all packets. *)
EXTENDS Probe

CONSTANTS asked, other

MCAsked == {0, 1, 2, Unlimited}
=============================================================================
