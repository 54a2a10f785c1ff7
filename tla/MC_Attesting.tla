----------------------------- MODULE MC_Attesting -----------------------------
(* Instances for TLC of the service and of the registrar its attestor calls, *)
(* here with arbitrary callers and a recorder beside it: a behaviour runs    *)
(* one of the two.                                                           *)
EXTENDS MC_AttestiaService, RegistrarReplay

CONSTANTS a, b

VARIABLE component

AttestingInit ==
    /\ component \in {"service", "registrar"}
    /\ Init /\ ReplayInit
    /\ component = "registrar" => dep = CHOOSE d \in Deployments : TRUE
    /\ component = "service" => ~recording

AttestingNext ==
    /\ \/ component = "service" /\ Next /\ UNCHANGED replayVars
       \/ component = "registrar" /\ ReplayNext /\ UNCHANGED vars
    /\ UNCHANGED component

(* With the fairness of FairSpec; a service that does not run has no step    *)
(* to take.                                                                 *)
AttestingSpec ==
    /\ AttestingInit /\ [][AttestingNext]_<<component, vars, replayVars>>
    /\ WF_vars(SaveStream) /\ WF_vars(Apply) /\ WF_vars(AttestRegister)
    /\ \A o \in Op : WF_vars(AttestResume(o))
==============================================================================
