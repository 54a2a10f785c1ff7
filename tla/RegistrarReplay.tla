---------------------------- MODULE RegistrarReplay ----------------------------
(***************************************************************************)
(* The replay engine of Registrum                                          *)
(* (packages/registrum/src/persistence/replay.ts): a TransitionRecorder    *)
(* beside a live registrar, and the replay of what it recorded in a fresh  *)
(* one.  Who saves the registrar saves what was recorded with it.          *)
(***************************************************************************)
EXTENDS Registrar, Sequences, SequencesExt

CONSTANT MaxRecorded    \* bound: recorded transitions

VARIABLES
    recording,       \* a recorder is attached
    recorder,        \* what it holds: [transition, outcome, orderIndex, ids]
    savedRecorder    \* what was recorded when the snapshot was taken

replayVars == <<registrarVars, recording, recorder, savedRecorder>>

(* The registrar's judgement in any state, as a function of that state.    *)
Judge(latest, next) == INSTANCE Registrar
    WITH latestById <- latest, currentOrderIndex <- next, versionsByKey <- {},
         lastParityStatus <- Null, saved <- NoKey

(* register()'s result, and replay()'s classification of it.               *)
Result(latest, next, t) ==
    LET ids == Judge(latest, next)!Violations(t)
    IN  [transition |-> t, outcome |-> Kind(ids), ids |-> ids,
         orderIndex |-> IF ids = {} THEN next ELSE NoVersion]

(* One transition in the fresh registrar.                                  *)
replayOne(acc, t) ==
    LET r == Result(acc.latest, acc.next, t)
    IN  [latest |-> IF r.ids = {} THEN [acc.latest EXCEPT ![t.to] = acc.next] ELSE acc.latest,
         next |-> IF r.ids = {} THEN acc.next + 1 ELSE acc.next,
         results |-> Append(acc.results, r)]

replay(transitions) ==
    FoldLeft(replayOne, [latest |-> [id \in StateID |-> NoVersion], next |-> 0, results |-> <<>>],
             transitions).results

(* Outcomes, order indices of what was accepted, ids of what was not.      *)
compareReplayReports(r, s) ==
    /\ Len(r) = Len(s)
    /\ \A k \in DOMAIN r :
         /\ r[k].outcome = s[k].outcome
         /\ IF r[k].outcome = "accepted" THEN r[k].orderIndex = s[k].orderIndex
            ELSE r[k].ids = s[k].ids

getTransitions == [k \in DOMAIN recorder |-> recorder[k].transition]

-----------------------------------------------------------------------------
ReplayInit == RegistrarInit /\ recording \in BOOLEAN /\ recorder = <<>> /\ savedRecorder = <<>>

(* record() follows a register() that did not throw.                       *)
Record(t) ==
    /\ recording => Len(recorder) < MaxRecorded
    /\ recorder' = IF recording /\ ~(Mode = "dual" /\ ~WitnessesAgree(t))
                   THEN Append(recorder, Result(latestById, currentOrderIndex, t))
                   ELSE recorder
    /\ UNCHANGED savedRecorder

ReplayNext ==
    /\ \/ \E t \in Transition : register(t) /\ Record(t)
       \/ \E t \in Transition : validate(t) /\ UNCHANGED <<recorder, savedRecorder>>
       \/ takeSnapshot /\ savedRecorder' = recorder /\ UNCHANGED recorder
       \/ fromSnapshot /\ recorder' = savedRecorder /\ UNCHANGED savedRecorder
    /\ UNCHANGED recording

ReplaySpec == ReplayInit /\ [][ReplayNext]_replayVars

-----------------------------------------------------------------------------
(* Replaying the recorded transitions in a fresh registrar reports what    *)
(* the live one reported, outcome by outcome and index by index, although  *)
(* the live one was saved and restored from its frontier in between.       *)
ReplayMatchesLive == compareReplayReports(recorder, replay(getTransitions))
==============================================================================
