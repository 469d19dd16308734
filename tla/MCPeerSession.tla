--------------------------- MODULE MCPeerSession ---------------------------
(***************************************************************************)
(* Two clients whose chats follow each other: enough peer threads for a    *)
(* second chat to begin while the first is still being closed.             *)
(***************************************************************************)
EXTENDS PeerSession
=============================================================================
