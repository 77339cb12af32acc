--------------------------- MODULE MCLawyerLogin ---------------------------
(***************************************************************************)
(* LawyerLogin on small instances.                                         *)
(***************************************************************************)
EXTENDS LawyerLogin
=============================================================================
