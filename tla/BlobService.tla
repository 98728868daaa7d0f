---------------------------- MODULE BlobService ----------------------------
(***************************************************************************)
(* What /api/v1/blob promises (SPEC_V2 10.3, 10.5, 10.6): a snapshot       *)
(* appears under an id that holds nothing, whole; nothing is replaced in   *)
(* place; a snapshot answered with 201 stays, through power cuts, until it *)
(* is deleted; a power cut only disturbs ids that are not acknowledged.    *)
(***************************************************************************)
CONSTANTS Ids, Payloads, None

VARIABLES
    blobs,    \* the snapshot stored under each id, or None
    acked     \* the ids answered with 201 Created and not deleted since

vars == <<blobs, acked>>

Init == blobs = [id \in Ids |-> None] /\ acked = {}

Publish(id, p) ==
    /\ blobs[id] = None
    /\ blobs' = [blobs EXCEPT ![id] = p]
    /\ UNCHANGED acked

Acknowledge(id) ==
    /\ blobs[id] # None
    /\ acked' = acked \cup {id}
    /\ UNCHANGED blobs

Remove(id) ==
    /\ blobs' = [blobs EXCEPT ![id] = None]
    /\ acked' = acked \ {id}

PowerCut ==
    /\ blobs' \in [Ids -> Payloads \cup {None}]
    /\ \A id \in acked : blobs'[id] = blobs[id]
    /\ UNCHANGED acked

Next ==
    \/ \E id \in Ids : Acknowledge(id) \/ Remove(id)
    \/ \E id \in Ids, p \in Payloads : Publish(id, p)
    \/ PowerCut

Spec == Init /\ [][Next]_vars
=============================================================================
