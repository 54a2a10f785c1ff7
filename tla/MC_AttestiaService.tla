-------------------------- MODULE MC_AttestiaService --------------------------
(* Instances of one tenant's service for TLC.                                *)
EXTENDS AttestiaService

CONSTANTS o1, o2, o3

Quiet == [mutated |-> {"vault"}, cadence |-> "afterEachMutation",
          setup |-> FALSE, attests |-> FALSE, overrides |-> {FALSE}, crashes |-> 0,
          stops |-> 0, fails |-> 0, truncations |-> 0, corruptions |-> 0]

(* Snapshots after each mutation of two subsystems, with crashes and a       *)
(* damaged file, or with a failing write; snapshots at shutdown only; a log  *)
(* cut behind the service; attests and set-up calls among the mutations,     *)
(* with a crash.                                                             *)
SafeDeployments ==
    {[Quiet EXCEPT !.mutated = {"vault", "governance"}, !.crashes = 2, !.corruptions = 1],
     [Quiet EXCEPT !.crashes = 2, !.fails = 1],
     [Quiet EXCEPT !.mutated = {"vault", "governance"}, !.cadence = "onShutdown",
                   !.crashes = 1, !.stops = 2],
     [Quiet EXCEPT !.stops = 2, !.fails = 1, !.truncations = 1],
     [Quiet EXCEPT !.setup = TRUE, !.attests = TRUE, !.crashes = 1]}

(* Attests before and after a restart.                                       *)
AttestDeployments == {[Quiet EXCEPT !.attests = TRUE, !.crashes = 1]}
==============================================================================
