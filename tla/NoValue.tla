------------------------------ MODULE NoValue ------------------------------
(***************************************************************************)
(* A value that is none of the others, for the null pointers of the code.  *)
(* The components that use it can so be extended together.                 *)
(***************************************************************************)
CONSTANT None
=============================================================================
