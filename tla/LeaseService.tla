--------------------------- MODULE LeaseService ---------------------------
(* What a lease manager promises (contracts/protocols/lease.py): the leases   *)
(* held on a resource are compatible at every moment, and every grant carries *)
(* a fencing token higher than all tokens handed out before on the resource.  *)
(* How conflicts are resolved, who is told, and when expired leases go, is     *)
(* left open: leases may be dropped at any time.                               *)
EXTENDS Naturals

CONSTANT Resources

VARIABLES
    held,    \* the set of leases that are held
    token    \* per resource: the highest fencing token handed out

Compatible(k, l) ==
    \/ k.resource # l.resource
    \/ k.holder # l.holder /\ k.state = "shared" /\ l.state = "shared"

svars == <<held, token>>

SInit ==
    /\ held = {}
    /\ token = [r \in Resources |-> 0]

\* A new lease: the leases in its way are dropped in the same step, and it is
\* given the next token.
Grant(l, dropped) ==
    /\ l.generation > token[l.resource]
    /\ \A k \in held \ dropped : Compatible(k, l)
    /\ held' = (held \ dropped) \cup {l}
    /\ token' = [token EXCEPT ![l.resource] = l.generation]

\* The holder keeps its lease and its token; only the expiry moves.
Renew(k, l, dropped) ==
    /\ k \in held
    /\ l = [k EXCEPT !.expires_at = l.expires_at]
    /\ held' = (held \ (dropped \cup {k})) \cup {l}
    /\ UNCHANGED token

Drop(dropped) ==
    /\ held' = held \ dropped
    /\ UNCHANGED token

SNext ==
    \/ \E l \in held', dropped \in SUBSET held : Grant(l, dropped)
    \/ \E k \in held, l \in held', dropped \in SUBSET held : Renew(k, l, dropped)
    \/ \E dropped \in SUBSET held : Drop(dropped)

SSpec == SInit /\ [][SNext]_svars
=============================================================================
