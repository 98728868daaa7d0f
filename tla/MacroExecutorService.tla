------------------------ MODULE MacroExecutorService ------------------------
(***************************************************************************)
(* The mapping under which the macro executor implements SendService.      *)
(***************************************************************************)
EXTENDS MacroExecutor

\* The life of a send: the outcome once one is published, what the status
\* shows while the worker has it, accepted before.
Phase(id) ==
    IF outcome[id] # "none" THEN outcome[id]
    ELSE IF status.id = id /\ status.state \in {"awaiting", "running"}
      THEN status.state
    ELSE IF id \in accepted THEN "accepted" ELSE "new"

Service == INSTANCE SendService WITH
    Keys  <- [id \in Ids |-> KeyCount(id)],
    phase <- [id \in Ids |-> Phase(id)],
    needs <- {id \in accepted : needs[id]}

\* The executor keeps what the send API promises: the worker, the queue and
\* the clients together implement SendService.
ImplementsService == Service!Spec
=============================================================================
