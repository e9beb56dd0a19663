-------------------------------- MODULE Guid --------------------------------
(***************************************************************************)
(* getId of Common/util/guid.cpp: ids made of the time, the number of the  *)
(* process and a sequence number within the millisecond.  The last time    *)
(* and the sequence are plain variables of the process.                    *)
(***************************************************************************)
EXTENDS Integers, FiniteSets

CONSTANTS
  Asker, svrid,   \* svrid: [Asker -> the number of its process]
  Servers,         \* 2^serverIdBits
  sequenceMax,
  ClockGoesBack,   \* somebody may set the clock back
  MaxMillis        \* bound: milliseconds

ASSUME SvridAssumption ==
  /\ Servers \in Nat \ {0} /\ sequenceMax \in Nat \ {0}
  /\ svrid \in [Asker -> 1..(Servers - 1)]

VARIABLES
  now,
  lastTimestamp, sequence,   \* of each process
  timestamp,                 \* [Asker -> of its call]
  getId,                     \* [Asker -> where it is]
  ids, calls, latest         \* all ids, the number of calls that have returned,
                             \* and the latest id of each process

guidVars == <<now, lastTimestamp, sequence, timestamp, getId, ids, calls, latest>>

Process == {svrid[c] : c \in Asker}

GuidInit ==
  /\ now = 1 /\ ids = {} /\ calls = 0
  /\ lastTimestamp = [p \in Process |-> 0] /\ sequence = lastTimestamp
  /\ latest = lastTimestamp
  /\ timestamp = [c \in Asker |-> 0] /\ getId = [c \in Asker |-> "idle"]

Tick ==
  /\ \E t \in 1..MaxMillis : (t = now + 1 \/ ClockGoesBack) /\ now' = t
  /\ UNCHANGED <<lastTimestamp, sequence, timestamp, getId, ids, calls, latest>>

-----------------------------------------------------------------------------
ReadClock(c) ==
  /\ getId[c] = "idle" /\ getId' = [getId EXCEPT ![c] = "number"]
  /\ timestamp' = [timestamp EXCEPT ![c] = now]
  /\ UNCHANGED <<now, lastTimestamp, sequence, ids, calls, latest>>

NextSequence(p, t) ==
  IF lastTimestamp[p] = t THEN (sequence[p] + 1) % sequenceMax ELSE 0

(* Variant: the sequence begins again within the millisecond.              *)
NumberWithoutWait(c) ==
  /\ getId[c] = "number" /\ getId' = [getId EXCEPT ![c] = "return"]
  /\ sequence' = [sequence EXCEPT ![svrid[c]] = NextSequence(svrid[c], timestamp[c])]
  /\ UNCHANGED <<now, lastTimestamp, timestamp, ids, calls, latest>>

(* All numbers of the millisecond are used up: wait for the next one.      *)
Number(c) ==
  LET p == svrid[c]  s == NextSequence(p, timestamp[c])
  IN  /\ getId[c] = "number"
      /\ sequence' = [sequence EXCEPT ![p] = s]
      /\ getId' = [getId EXCEPT ![c] =
                     IF s = 0 /\ lastTimestamp[p] = timestamp[c] THEN "wait" ELSE "return"]
      /\ UNCHANGED <<now, lastTimestamp, timestamp, ids, calls, latest>>

GetNextMillis(c) ==
  /\ getId[c] = "wait" /\ now > lastTimestamp[svrid[c]]
  /\ timestamp' = [timestamp EXCEPT ![c] = now]
  /\ getId' = [getId EXCEPT ![c] = "return"]
  /\ UNCHANGED <<now, lastTimestamp, sequence, ids, calls, latest>>

IdOf(t, server, seq) == (t * Servers + server) * sequenceMax + seq

ReturnId(c) ==
  LET p == svrid[c]  id == IdOf(timestamp[c], p, sequence[p])
  IN  /\ getId[c] = "return" /\ getId' = [getId EXCEPT ![c] = "idle"]
      /\ lastTimestamp' = [lastTimestamp EXCEPT ![p] = timestamp[c]]
      /\ ids' = ids \cup {id} /\ calls' = calls + 1
      /\ latest' = [latest EXCEPT ![p] = id]
      /\ UNCHANGED <<now, sequence, timestamp>>

GuidNext ==
  \/ Tick
  \/ \E c \in Asker : ReadClock(c) \/ Number(c) \/ GetNextMillis(c) \/ ReturnId(c)

GuidSpec == GuidInit /\ [][GuidNext]_guidVars

-----------------------------------------------------------------------------
(* No two calls have returned the same id, and the ids of a process grow:  *)
(* while a process has one caller and the clock does not go back.          *)
IdsUnique ==
  /\ Cardinality(ids) = calls
  /\ \A id \in ids : \A p \in Process :
       (id \div sequenceMax) % Servers = p => id <= latest[p]
=============================================================================
