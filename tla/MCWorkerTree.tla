---------------------------- MODULE MCWorkerTree ----------------------------
(***************************************************************************)
(* Two spawns and two daemons: enough for spawns of the two engines that   *)
(* overlap, for a worker that is replaced, and for workers that outlive    *)
(* their daemon.                                                           *)
(***************************************************************************)
EXTENDS WorkerTree

=============================================================================
