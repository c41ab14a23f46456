----------------------------- MODULE MCCallout -----------------------------
(* Instances of Callout for TLC.                                           *)
EXTENDS Callout

CONSTANTS f1, f2, f3

=============================================================================
