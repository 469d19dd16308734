---------------------------- MODULE MCSharedList ----------------------------
(***************************************************************************)
(* Two threads that make every call of the library on one list.            *)
(***************************************************************************)
EXTENDS SharedList
=============================================================================
