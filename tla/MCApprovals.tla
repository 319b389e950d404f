--------------------------- MODULE MCApprovals ---------------------------
(* Callers for model checking Approvals: one with a fabricated session and    *)
(* the default timeout, and one on another worker with a real session and a   *)
(* short timeout.  Either may insert the row and the other join it, or come    *)
(* after the decision and inherit it.                                          *)
EXTENDS Approvals

CONSTANTS c1, c2, o1, o2, w1, w2, s1, hub

MCWorkerOf == [x \in Callers \cup Operators |-> IF x \in {c2, o2} THEN w2 ELSE w1]
MCSessionOf == [c \in Callers |-> IF c = c1 THEN hub ELSE s1]
MCTimeoutOf == [c \in Callers |-> IF c = c1 THEN 2 ELSE 1]
=============================================================================
