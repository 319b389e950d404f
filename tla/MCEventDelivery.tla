------------------------- MODULE MCEventDelivery -------------------------
(* Workloads for model checking EventDelivery.  One worker and two events of   *)
(* its process, flushed together or one before the other, one of them a       *)
(* rename; a rename, or another event, with failures and crashes; two workers *)
(* that race for one event; and three events, which push each other out of a  *)
(* deque of two, in a process whose rows nobody delivers.                      *)
EXTENDS EventDelivery

CONSTANTS p1, p2, e1, e2, e3, z1, z2

MCProcOf == [e \in Events |-> p1]
MCZoneOf == [e \in Events |-> IF e = e1 THEN z1 ELSE z2]
MCRenames == {e2}
MCWorkloads ==
    {[workers |-> {p1}, events |-> {e1, e2}, faults |-> 0],
     [workers |-> {p1}, events |-> {e2}, faults |-> 1],
     [workers |-> {p1}, events |-> {e1}, faults |-> 2],
     [workers |-> {p1, p2}, events |-> {e1}, faults |-> 1],
     [workers |-> {}, events |-> {e1, e2, e3}, faults |-> 2]}
=============================================================================
