------------------------------- MODULE MCStore -------------------------------
(* The store on an instance for TLC; its constants get model values.          *)
EXTENDS Store, TLC
=============================================================================
