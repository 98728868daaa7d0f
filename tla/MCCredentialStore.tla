------------------------- MODULE MCCredentialStore -------------------------
(***************************************************************************)
(* Instances of CredentialStore for TLC.                                   *)
(***************************************************************************)
EXTENDS CredentialStore, TLC

CONSTANTS s1, s2, n1, n2

TwoSlots == {s1, s2}
TwoNets  == {n1, n2}
=============================================================================
