-------------------------------- MODULE MCJobQueue --------------------------------
(* JobQueue for TLC, in two settings: two processes with a queue of two rows *)
(* (crashes, leases that run out, seeding at the same time), and one with    *)
(* three rows (an alarm_scan, the notify_send it starts, and a delivery).    *)
(* The two processes are alike: p1 is the one that creates the delivery.     *)
EXTENDS JobQueue, TLC

CONSTANTS p1, p2, j1, j2, j3
VARIABLE setting
mcVars == <<setting, queueVars>>

MCSeeds == <<"alarm_scan">>
MCInterval == [c \in Chains |-> 1]

Within ==
    /\ setting' = setting /\ \A d \in Deliveries : firing'[d] # p2
    /\ IF setting = "alone" THEN stage'[p2] = "down"
       ELSE \A j \in Jobs : Present(j)' => j # j3 /\ job'[j].task # "notify_send"

MCInit == QueueInit /\ setting \in {"pair", "alone"}
MCNext == QueueNext /\ Within
MCSpec ==
    /\ MCInit /\ [][MCNext]_mcVars
    /\ WF_mcVars(PassTime /\ Within) /\ WF_mcVars(Handlers /\ Within)
    /\ \A p \in Processes : WF_mcVars(Worker(p) /\ Within)
==============================================================================
