----------------------------- MODULE MCSession ------------------------------
(***************************************************************************)
(* The sessions that are checked, chosen by which: as many receive threads *)
(* as send threads (the cfg), the same with a server or a client that may  *)
(* be killed, one receive thread too few, one too many, and a server that  *)
(* cannot serve the request.                                               *)
(***************************************************************************)
EXTENDS Session

VARIABLE which

ServerKilled == INSTANCE Session WITH Faults <- {"server"}
ClientKilled == INSTANCE Session WITH Faults <- {"client"}
TooFew == INSTANCE Session WITH RcvParallelism <- 1
TooMany == INSTANCE Session WITH NetworkParallelism <- 1
Unknown == INSTANCE Session WITH System <- "mysql"

MCVars == <<vars, which>>

MCInit ==
  \/ which \in {"equal", "server killed", "client killed", "unknown"} /\ Init
  \/ which = "too few" /\ TooFew!Init
  \/ which = "too many" /\ TooMany!Init

MCServer ==
  /\ \/ which \in {"equal", "server killed", "client killed"} /\ ServerStep
     \/ which = "unknown" /\ Unknown!ServerStep
     \/ which = "too few" /\ TooFew!ServerStep
     \/ which = "too many" /\ TooMany!ServerStep
  /\ UNCHANGED which

MCClient ==
  /\ \/ which \in {"equal", "server killed", "client killed", "unknown"} /\ ClientStep
     \/ which = "too few" /\ TooFew!ClientStep
     \/ which = "too many" /\ TooMany!ClientStep
  /\ UNCHANGED which

MCKill ==
  /\ \/ which = "server killed" /\ ServerKilled!KillServer
     \/ which = "client killed" /\ ClientKilled!KillClient
  /\ UNCHANGED which

MCNext == MCServer \/ MCClient \/ MCKill

\* Both processes are scheduled; nobody has to kill one.
MCSpec == MCInit /\ [][MCNext]_MCVars /\ WF_MCVars(MCServer) /\ WF_MCVars(MCClient)

\* Each side hangs only for the reasons HangsKnown names: a refused receive
\* thread, a send thread without a partner, a killed or missing client.
SessionHangsKnown ==
  /\ which \in {"equal", "server killed", "client killed"} => HangsKnown
  /\ which = "unknown" => Unknown!HangsKnown
  /\ which = "too few" => TooFew!HangsKnown
  /\ which = "too many" => TooMany!HangsKnown

\* The client ends, unless a receive thread was refused; once all send threads have
\* a receive thread, the server ends, unless the client is killed.
SessionEnds == ClientEnds /\ ServerEnds
=============================================================================
