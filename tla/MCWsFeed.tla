------------------------------ MODULE MCWsFeed ------------------------------
(***************************************************************************)
(* A small instance of WsFeed for TLC: each connection has a process of    *)
(* its own, so that one can end while the other goes on.                   *)
(***************************************************************************)
EXTENDS WsFeed, TLC

OwnHost == [c \in Conns |-> c]
=============================================================================
