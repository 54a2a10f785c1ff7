------------------------------ MODULE EventStore ------------------------------
(***************************************************************************)
(* What an event store promises, as the interface EventStore of            *)
(* packages/event-store/src/types.ts states it: "Events are immutable once *)
(* appended", stream versions and global positions are contiguous, and     *)
(* lost writes are prevented; with the hash chain on top.                  *)
(*                                                                         *)
(* The log is what a reader that opens the store would find.  An append    *)
(* adds chained records at its end, some of them or all, and is then       *)
(* acknowledged.  A failure may take records back from the end, but none   *)
(* that was acknowledged and none before one that was.                     *)
(***************************************************************************)
EXTENDS Integers, Sequences, SequencesExt, HashChain

VARIABLES
    log,     \* the records, in global order
    acked    \* records whose append() returned

esVars == <<log, acked>>

versionOf(records, s) == Cardinality({k \in DOMAIN records : records[k].ev.streamId = s})

(* A record may follow these records: the next global position, the next   *)
(* version of its stream, and a digest over its content and the last one.  *)
Follows(records, e) ==
    /\ e.ev.globalPosition = Len(records) + 1
    /\ e.ev.version = versionOf(records, e.ev.streamId) + 1
    /\ e.previousHash = HashBefore(records, Len(records) + 1)
    /\ e.hash = computeEventHash(e.ev, e.previousHash)

Extends(records, more) ==
    /\ IsStrictPrefix(records, more)
    /\ \A k \in Len(records) + 1..Len(more) : Follows(SubSeq(more, 1, k - 1), more[k])

EsInit == log = <<>> /\ acked = {}

AppendEvents == Extends(log, log') /\ acked' = acked

Acknowledge == acked \subseteq acked' /\ acked' \subseteq Range(log) /\ log' = log

Lose == IsStrictPrefix(log', log) /\ acked \subseteq Range(log') /\ acked' = acked

EsNext == AppendEvents \/ Acknowledge \/ Lose

EsSpec == EsInit /\ [][EsNext]_esVars
==============================================================================
