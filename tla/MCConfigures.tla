---------------------------- MODULE MCConfigures ----------------------------
(* Instances of Configures: one window.                                    *)
EXTENDS Configures

CONSTANT w1
=============================================================================
