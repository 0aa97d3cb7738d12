-------------------------- MODULE MCServerPipeline ---------------------------
(***************************************************************************)
(* ServerPipeline for TLC; each cfg gives one configuration of a server.   *)
(***************************************************************************)
EXTENDS ServerPipeline
=============================================================================
