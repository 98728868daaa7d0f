----------------------------- MODULE MCStartup -----------------------------
(* Startup for TLC: the network of the settings record and another one. *)
EXTENDS Startup
=============================================================================
