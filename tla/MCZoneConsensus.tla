-------------------------- MODULE MCZoneConsensus --------------------------
(* Commands and symmetry for model checking ZoneConsensus.                 *)
EXTENDS ZoneConsensus

MCPaths == {<<"a">>, <<"a", "x">>}

\* A metadata write, a lock of "/a/x" and a lock of "/a" that succeeds or not
\* depending on their order.
MCCommand ==
    [c \in Calls |->
        CASE c = "put"  -> [op |-> "metadata"]
          [] c = "lockx" -> [op |-> "acquire", path |-> <<"a", "x">>, lock_id |-> "i1",
                             max_holders |-> 1, ttl_secs |-> 1, now_secs |-> 1]
          [] c = "locka" -> [op |-> "acquire", path |-> <<"a">>, lock_id |-> "i2",
                             max_holders |-> 1, ttl_secs |-> 1, now_secs |-> 1]
          [] c = "unlock" -> [op |-> "release", path |-> <<"a", "x">>, lock_id |-> "i1"]]

\* Two calls that meet in the log, or one call and a linearizable read.
MCWorkloads == {[calls |-> {"put", "lockx"}, read |-> FALSE],
                [calls |-> {"lockx"}, read |-> TRUE]}
MCCallsOnly == {[calls |-> Calls, read |-> FALSE]}

Symmetry == Permutations(Nodes)
=============================================================================
