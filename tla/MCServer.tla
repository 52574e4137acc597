------------------------------ MODULE MCServer -------------------------------
(***************************************************************************)
(* Clients of a replica that has descriptors for one connection at a time. *)
(***************************************************************************)
EXTENDS ServerProperties
===============================================================================
