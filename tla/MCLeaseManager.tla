-------------------------- MODULE MCLeaseManager --------------------------
(* Calls for model checking LeaseManager: a reader that asks twice, the same  *)
(* holder asking for the exclusive lease without blocking, and another holder *)
(* that blocks for the exclusive lease.  While one acquire runs the callbacks *)
(* of what it revoked, another can take the resource.                         *)
EXTENDS LeaseManager

CONSTANTS h1, h2, r1

MCCall(i, h, s, timeout) ==
    [id |-> i, resource |-> r1, holder |-> h, state |-> s, ttl |-> 1, timeout |-> timeout]

MCCalls == {MCCall(1, h1, "shared", 1), MCCall(2, h1, "shared", 0),
            MCCall(3, h1, "exclusive", 0), MCCall(4, h2, "exclusive", 1)}
=============================================================================
