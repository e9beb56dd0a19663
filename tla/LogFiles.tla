------------------------------ MODULE LogFiles ------------------------------
(***************************************************************************)
(* Log of Common/util/Log.cpp: the numbered files it writes, which one     *)
(* open begins with and how print goes on to the next.                     *)
(***************************************************************************)
EXTENDS Integers, SequencesExt

CONSTANTS
  Files,        \* 100 in the code
  FileSize,     \* 10 MB in the code, counted in lines
  LogPath,      \* "plain" | "no directory": the files are not looked up |
                \* "dash": each file reads as number 0, the first '-' of its
                \* full name being that of a directory
  SameSecond,   \* two files may have their last lines of one second
  MaxSeconds    \* bound

ASSUME LogAssumption ==
  /\ Files \in Nat \ {0} /\ FileSize \in Nat /\ MaxSeconds \in Nat
  /\ LogPath \in {"plain", "dash", "no directory"} /\ SameSecond \in BOOLEAN

VARIABLES
  second,
  mtime,          \* [1..Files -> second of its last line]
  begun,          \* the files that exist, the one begun first in front
  stdFilePtr,     \* open or not
  rotatedIndex, logSize

logVars == <<second, mtime, begun, stdFilePtr, rotatedIndex, logSize>>

LogInit ==
  /\ second = 1 /\ begun = <<>> /\ stdFilePtr = FALSE
  /\ mtime = [i \in 1..Files |-> 0] /\ rotatedIndex = 1 /\ logSize = 0

(* LogRunnable: the numbers found, and the index they lead to.             *)
Found ==
  CASE LogPath = "plain" -> ToSet(begun)
    [] LogPath = "dash" -> {0}
    [] LogPath = "no directory" -> {}

Older(i, j) == mtime[i] < mtime[j] \/ (mtime[i] = mtime[j] /\ i <= j)

(* Variant: when all numbers are in use, begin with 1.                     *)
GetIndexFromOne ==
  LET maxSeq == Max(Found \cup {0}) IN IF maxSeq < Files THEN maxSeq + 1 ELSE 1

GetIndex ==
  LET maxSeq == Max(Found \cup {0})
  IN  IF maxSeq < Files THEN maxSeq + 1
      ELSE CHOOSE i \in Found : \A j \in Found : Older(i, j)

(* _fsopen with "w+": a file that is there is emptied.  A file that print  *)
(* leaves has got its last line now.                                       *)
BeginFile(i) ==
  /\ rotatedIndex' = i /\ logSize' = 0 /\ stdFilePtr' = TRUE
  /\ begun' = Append(RemoveFirst(begun, i), i)
  /\ mtime' = [j \in 1..Files |-> IF j = i \/ (stdFilePtr /\ j = rotatedIndex)
                                  THEN second ELSE mtime[j]]
  /\ UNCHANGED second

(* The file that is left has the only last line of second s.               *)
Settled(s) ==
  SameSecond \/ \A j \in (1..Files) \ {rotatedIndex} : mtime[j] < s

-----------------------------------------------------------------------------
SecondPasses ==
  /\ second < MaxSeconds /\ second' = second + 1
  /\ UNCHANGED <<mtime, begun, stdFilePtr, rotatedIndex, logSize>>

Open == ~stdFilePtr /\ BeginFile(GetIndex)

(* close, or the end of the process.                                       *)
Close ==
  /\ stdFilePtr /\ stdFilePtr' = FALSE
  /\ Settled(mtime[rotatedIndex])
  /\ UNCHANGED <<second, mtime, begun, rotatedIndex, logSize>>

NextIndex == IF rotatedIndex + 1 > Files THEN 1 ELSE rotatedIndex + 1

(* print to the file, all of it under csFile.                              *)
PrintLine ==
  /\ stdFilePtr
  /\ IF logSize + 1 >= FileSize
       THEN Settled(second) /\ BeginFile(NextIndex)
       ELSE /\ logSize' = logSize + 1
            /\ mtime' = [mtime EXCEPT ![rotatedIndex] = second]
            /\ UNCHANGED <<second, begun, stdFilePtr, rotatedIndex>>

LogNext == SecondPasses \/ Open \/ Close \/ PrintLine

LogSpec == LogInit /\ [][LogNext]_logVars

-----------------------------------------------------------------------------
(* A log file is emptied only when all numbers are in use, and it is then  *)
(* the one that was begun before all others, whenever the program was      *)
(* stopped and started and however far the rotation had come.              *)
OldestGoes ==
  [][ begun' # begun /\ ToSet(begun') = ToSet(begun) =>
        Len(begun) = Files /\ Last(begun') = Head(begun) ]_logVars
=============================================================================
