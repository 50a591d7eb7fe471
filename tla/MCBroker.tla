------------------------------ MODULE MCBroker ------------------------------
(***************************************************************************)
(* Model values for Broker.  Two priority streams (critical above low)     *)
(* with t1 critical and t2 low, so that one XREADGROUP can return both;    *)
(* or a single normal stream for the runs about one task.                  *)
(***************************************************************************)
EXTENDS Broker

CONSTANTS t1, t2

MCPriorityOrder == <<"critical", "low">>
MCTaskPriority == (t1 :> "critical") @@ (t2 :> "low")

MCOnePriority == <<"normal">>
MCOneTaskPriority == [t \in Tasks |-> "normal"]
=============================================================================
