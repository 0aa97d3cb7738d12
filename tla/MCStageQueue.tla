---------------------------- MODULE MCStageQueue -----------------------------
(***************************************************************************)
(* StageQueue for TLC: three producers, so that several can see the final  *)
(* counter value, and two consumers competing for sentinels.               *)
(***************************************************************************)
EXTENDS StageQueue
=============================================================================
