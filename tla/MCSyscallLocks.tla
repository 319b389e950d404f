--------------------------- MODULE MCSyscallLocks ---------------------------
(* Path sets, in byte order, for model checking SyscallLocks.              *)
EXTENDS SyscallLocks

RankOf(order) == [p \in ToSet(order) |-> CHOOSE i \in DOMAIN order : order[i] = p]

\* "/a/" "/a/x" "/b": a directory spelled with a trailing slash, a file in it
\* and a sibling.  Byte order keeps the directory next to what is inside it.
\* The file is on a path-addressed backend, so a write leaves a descriptor open.
TreeOrder == << <<"a", "">>, <<"a", "x">>, <<"b">> >>
TreePaths == ToSet(TreeOrder)
TreeRank == RankOf(TreeOrder)
TreePas == {<<"a", "x">>}

\* "/a" "/a-b" "/a/x": "-" sorts before "/", so a sibling of "/a" falls
\* between "/a" and the file inside it.
DashOrder == << <<"a">>, <<"a-b">>, <<"a", "x">> >>
DashPaths == ToSet(DashOrder)
DashRank == RankOf(DashOrder)
DashPas == {<<"a", "x">>}

\* The hypothesis under which the absence of circular waits is proved holds
\* of the first set of paths and not of the second.
ASSUME OrdersAssumption == FollowsTree(TreeRank) /\ ~ FollowsTree(DashRank)
=============================================================================
