-------------------------- MODULE MCClientPipeline ---------------------------
(***************************************************************************)
(* ClientPipeline for TLC; each cfg gives one configuration of a client.   *)
(***************************************************************************)
EXTENDS ClientPipeline
=============================================================================
