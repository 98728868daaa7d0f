-------------------------- MODULE MCMacroExecutor --------------------------
(***************************************************************************)
(* Instances of MacroExecutor, and of its mapping to SendService, for TLC. *)
(***************************************************************************)
EXTENDS MacroExecutorService, TLC

CONSTANTS a, b

TwoIds   == {a, b}
Sends == Permutations(TwoIds)
OneId    == {a}
\* Two sends of one key each.
KeyPlans == a :> <<"key">> @@ b :> <<"key">>
\* Two keys around a delay.
LongPlan == a :> <<"key", "delay", "key">>
=============================================================================
