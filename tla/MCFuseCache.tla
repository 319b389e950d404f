---------------------------- MODULE MCFuseCache ----------------------------
(* Two mounts of one file: two reads on the same mount, none, one or both     *)
(* of a parsed view, and a write on the other mount, which keeps the content   *)
(* id or changes it.  The reading mount runs with and without a lease manager. *)
EXTENDS FuseCache

CONSTANTS m1, m2, file, id1, id2

MCRead(i, m) ==
    [id |-> i, resource |-> file, holder |-> m, state |-> "shared", ttl |-> 1, timeout |-> 1]

MCReads == {MCRead(1, m1), MCRead(2, m1)}

MCSetup(v1, v2, mounts) ==
    [view |-> [c \in MCReads |-> IF c.id = 1 THEN v1 ELSE v2], leased |-> mounts]

MCSetups ==
    {MCSetup("raw", "raw", {m1, m2}),
     MCSetup("parsed", "parsed", {m1, m2}),
     MCSetup("raw", "parsed", {m2})}

MCWrites == {[mount |-> m2, path |-> file]}
=============================================================================
