--------------------------- MODULE MCSpreadRecovery ---------------------------
(* An old ring of three daemons with two packets on their way.             *)
EXTENDS SpreadRecovery

MCPackets == <<[from |-> 3, svc |-> "fifo"], [from |-> 1, svc |-> "safe"]>>
=============================================================================
