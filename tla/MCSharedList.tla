---------------------------- MODULE MCSharedList ----------------------------
(* Three manual ACLs and two pairs, the second from a later bootstrap.     *)
EXTENDS SharedList

MCPairs == {<<10, 11>>, <<20, 21>>}
=============================================================================
