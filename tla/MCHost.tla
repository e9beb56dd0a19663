------------------------------- MODULE MCHost -------------------------------
(* Values for the runs of Host.                                            *)
EXTENDS Host

AllDaemons == [t \in Tasks |-> TRUE]
Zeros      == [t \in Tasks |-> 0]
NoTimes    == [t \in Tasks |-> NoTime]
=============================================================================
