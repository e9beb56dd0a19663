---------------------------- MODULE MCProcessMgr ----------------------------
(* Values and symmetry for the runs of ProcessMgr.                         *)
EXTENDS ProcessMgrProps, TLC

Symmetry == Permutations(Pid)

AllDaemons == [t \in Tasks |-> TRUE]
Ones       == [t \in Tasks |-> 1]
Zeros      == [t \in Tasks |-> 0]
Twos       == [t \in Tasks |-> 2]
Threes     == [t \in Tasks |-> 3]
NoTimes    == [t \in Tasks |-> NoTime]
AtSecond1  == [t \in Tasks |-> 1]

(* Task 1 is a daemon; task 2 is not, and is restarted once it has run for *)
(* more than the one second that ages can tell apart here.                 *)
FirstIsDaemon  == [t \in Tasks |-> t = 1]
SecondRestarts == [t \in Tasks |-> IF t = 2 THEN 1 ELSE 0]
=============================================================================
