----------------------------- MODULE MC_SdkClient -----------------------------
(* Instances for TLC of the two clients that retry over a network: the SDK  *)
(* client with the node's HTTP application, and the witness's submitter     *)
(* with the XRP Ledger.  They share nothing: a behaviour runs one of them.  *)
EXTENDS SdkClient, WitnessSubmitter, TLC

CONSTANTS c1, c2, s1, s2

VARIABLE component

retryVars == <<component, allVars, submitVars>>

RetryInit ==
    /\ component \in {"node", "ledger"}
    /\ ClientInit /\ SubmitInit
    /\ component # "node" => plan = CHOOSE sc \in Scenarios : TRUE

RetryNext ==
    /\ \/ component = "node" /\ ApiNext /\ UNCHANGED submitVars
       \/ component = "ledger" /\ SubmitNext /\ UNCHANGED allVars
    /\ UNCHANGED component

(* The fairness of ApiSpec and of SubmitFairSpec.  A client that does not   *)
(* run has no step to take; the node's clock must not be asked to tick.     *)
RetrySpec ==
    /\ RetryInit /\ [][RetryNext]_retryVars
    /\ \A c \in Calls : WF_allVars(ClientStep(c))
    /\ WF_allVars(component = "node" /\ Clock)
    /\ SubmitFairness

Attempts == Calls \X (0..maxRetries)

Post(tenant, role, key, body) ==
    [kind |-> "POST", oversize |-> FALSE, apiKey |-> "known", jwt |-> "absent",
     tenant |-> tenant, role |-> role, path |-> "p1", key |-> key, body |-> body]
Get(kind, role) ==
    [Post("t1", role, NoKey, "b1") EXCEPT !.kind = kind, !.apiKey = "absent", !.jwt = "valid"]

Own == Post("t1", "operator", "generated", "b1")  \* the SDK's own key
Made == Post("t1", "operator", "k1", "b1")        \* a key chosen by hand

Plan(first, second, retry, bound) ==
    [ask |-> (c1 :> first @@ c2 :> second), retryMutations |-> retry, faults |-> bound]

(* One retried mutation, a mutation without retries and one read, each with *)
(* two faults; two calls that meet in the stores: equal, conflicting,       *)
(* foreign and unprivileged uses of one key, a principal that exhausts its  *)
(* bucket; requests that the chain turns away.                              *)
Plans ==
    {Plan(Own, NoProfile, TRUE, 2), Plan(Own, NoProfile, FALSE, 2),
     Plan(Get("GET", "viewer"), NoProfile, FALSE, 2),
     Plan(Own, Get("LIST", "operator"), TRUE, 0), Plan(Own, Made, TRUE, 0),
     Plan(Made, Made, FALSE, 0), Plan(Made, Post("t1", "operator", "k1", "b2"), FALSE, 0),
     Plan(Made, Post("t1", "viewer", "k1", "b1"), FALSE, 0),
     Plan(Made, Post("t2", "operator", "k1", "b1"), FALSE, 0),
     Plan([Own EXCEPT !.oversize = TRUE],
          [Own EXCEPT !.apiKey = "unknown", !.jwt = "valid"], FALSE, 0)}
==============================================================================
