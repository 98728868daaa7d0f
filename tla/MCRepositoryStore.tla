------------------------- MODULE MCRepositoryStore -------------------------
(***************************************************************************)
(* Instances of RepositoryStore for TLC.                                   *)
(***************************************************************************)
EXTENDS RepositoryStore, TLC

CONSTANTS alpha, beta

OnePayload  == {alpha}
TwoPayloads == {alpha, beta}
=============================================================================
