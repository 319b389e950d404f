------------------------------ MODULE PathTree ------------------------------
(***************************************************************************)
(* The path arithmetic shared by the kernel's lock tables.                 *)
(*                                                                         *)
(* A raw path is the sequence of the segments between its slashes, empty   *)
(* segments included: "/a//b" is <<"a","","b">>, "/a/" is <<"a","">> and   *)
(* "/" is <<>>.  The names themselves are opaque.                          *)
(***************************************************************************)
EXTENDS Integers, Sequences

\* normalize_path collapses repeated slashes and drops a trailing one.
NormalizePath(p) == SelectSeq(p, LAMBDA segment : segment # "")

\* The strict ancestors of a normalized path, the root included.
Ancestors(p) == {SubSeq(p, 1, n) : n \in 0 .. Len(p) - 1}

\* The keys of a lock table that the range scan from p + "/" to p + "0"
\* meets.  For the root that range also contains the root's own key.
DescendantRange(p, keys) ==
    {q \in keys : p \in Ancestors(q) \/ (p = <<>> /\ q = <<>>)}

\* Two locks guard overlapping subtrees.
Related(p, q) == p = q \/ p \in Ancestors(q) \/ q \in Ancestors(p)
=============================================================================
