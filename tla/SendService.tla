---------------------------- MODULE SendService ----------------------------
(***************************************************************************)
(* What POST /api/v2/send promises its clients (SPEC_V2 7.3, 7.4, 7.12),   *)
(* without tasks, mutexes, queues or slices: at most one send is active,   *)
(* keys go down only for the running send, a send that needs confirmation  *)
(* runs only after it was confirmed, "completed" means that every key went *)
(* down, and a terminal state is final.                                    *)
(***************************************************************************)
EXTENDS Naturals

CONSTANTS Ids, Keys    \* Keys[id]: how many key actions the send has

VARIABLES
    phase,       \* where each send is in its life
    needs,       \* the sends that need confirmation
    confirmed,   \* the sends that were confirmed
    typed,       \* how many keys of each send went down
    held         \* a key is down

vars == <<phase, needs, confirmed, typed, held>>

Active  == {"accepted", "awaiting", "running"}
Final   == {"completed", "cancelled", "failed", "timed_out"}

Init ==
    /\ phase = [id \in Ids |-> "new"]
    /\ needs = {} /\ confirmed = {}
    /\ typed = [id \in Ids |-> 0]
    /\ held = FALSE

\* A send is accepted only when no other one is active.
Accept(id) ==
    /\ phase[id] = "new"
    /\ \A other \in Ids : phase[other] \notin Active
    /\ phase' = [phase EXCEPT ![id] = "accepted"]
    /\ needs' \in {needs, needs \cup {id}}
    /\ UNCHANGED <<confirmed, typed, held>>

Await(id) ==
    /\ phase[id] = "accepted" /\ id \in needs
    /\ phase' = [phase EXCEPT ![id] = "awaiting"]
    /\ UNCHANGED <<needs, confirmed, typed, held>>

Confirm(id) ==
    /\ phase[id] = "awaiting"
    /\ confirmed' = confirmed \cup {id}
    /\ UNCHANGED <<phase, needs, typed, held>>

Run(id) ==
    /\ \/ phase[id] = "accepted" /\ id \notin needs
       \/ phase[id] = "awaiting" /\ id \in confirmed
    /\ phase' = [phase EXCEPT ![id] = "running"]
    /\ UNCHANGED <<needs, confirmed, typed, held>>

Press(id) ==
    /\ phase[id] = "running" /\ typed[id] < Keys[id]
    /\ typed' = [typed EXCEPT ![id] = @ + 1]
    /\ held' = TRUE
    /\ UNCHANGED <<phase, needs, confirmed>>

Release ==
    /\ held' = FALSE
    /\ UNCHANGED <<phase, needs, confirmed, typed>>

Finish(id, final) ==
    /\ phase[id] \in {"awaiting", "running"}
    /\ final = "completed" => phase[id] = "running" /\ typed[id] = Keys[id]
    /\ phase' = [phase EXCEPT ![id] = final]
    /\ UNCHANGED <<needs, confirmed, typed, held>>

Next == \/ \E id \in Ids : \/ Accept(id) \/ Await(id) \/ Confirm(id) \/ Run(id)
                           \/ Press(id)
                           \/ \E final \in Final : Finish(id, final)
        \/ Release

Spec == Init /\ [][Next]_vars
=============================================================================
