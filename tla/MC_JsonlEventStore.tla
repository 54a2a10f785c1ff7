-------------------------- MODULE MC_JsonlEventStore --------------------------
(* Instances of the shared event log for TLC.                              *)
EXTENDS JsonlEventStore

CONSTANTS s1, s2, p1, p2

Scenario(procs, streams, events, batches, crash, restart, fail) ==
    [procs |-> procs, streams |-> streams, events |-> events, batch |-> batches,
     crashes |-> crash, restarts |-> restart, fails |-> fail]

(* Two writers, one of which may die while the other goes on, with single  *)
(* events and a failing write or with batches; and one writer that         *)
(* crashes, or loses power, and starts again: once with a failing write,   *)
(* twice with two streams.                                                 *)
SafeScenarios ==
    {Scenario({p1, p2}, {s1}, 3, 1, 1, 0, 1),
     Scenario({p1, p2}, {s1}, 3, 2, 1, 0, 0),
     Scenario({p1}, {s1}, 3, 2, 1, 1, 1),
     Scenario({p1}, {s1, s2}, 2, 2, 2, 2, 0)}

(* A writer dies, another breaks its lock and the first comes back.        *)
RaceScenarios == {Scenario({p1, p2}, {s1}, 3, 1, 1, 1, 0)}
==============================================================================
