--------------------------- MODULE MCAdminQueries ---------------------------
(***************************************************************************)
(* A small instance of AdminQueries for TLC.                               *)
(***************************************************************************)
EXTENDS AdminQueries, TLC

=============================================================================
