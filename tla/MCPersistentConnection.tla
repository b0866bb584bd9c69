------------------------ MODULE MCPersistentConnection -------------------------
(* The conversations list is listened to for as long as the app runs; one   *)
(* read of a node may be given up or refused.                               *)
EXTENDS PersistentConnection

CONSTANTS list, read1

MCListens == {list, read1}
MCLasting == {list}
=============================================================================
