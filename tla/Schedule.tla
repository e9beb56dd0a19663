------------------------------ MODULE Schedule ------------------------------
(***************************************************************************)
(* The time arithmetic of CPM (src/Common/pm/pm.cpp): when a crashed       *)
(* daemon may be started again, when a program has run long enough, and    *)
(* when its daily restart is due.                                          *)
(*                                                                         *)
(* The code stores points in time (time_t) and subtracts.  Only the        *)
(* differences matter, so a point in time is kept as its AGE in seconds,   *)
(* which saturates at MaxAge: difftime(now, x) is the age of x less the    *)
(* `lag', the seconds since Protect captured `now'.  The wall clock is     *)
(* the second of the day, 0..Day-1.                                        *)
(***************************************************************************)
EXTENDS Naturals, Integers

CONSTANTS
  Day,      \* seconds in a day (86400; small for TLC)
  MaxAge,   \* ages saturate here: "longer ago than any threshold"
  MaxLag    \* seconds Protect may hold a captured `now' before it uses it

ASSUME ClockAssumption ==
  /\ Day \in Nat \ {0}
  /\ MaxLag \in Nat /\ MaxLag < Day
  /\ MaxAge \in Nat /\ MaxAge > MaxLag

NoTime == -1          \* rstime is not three numbers h:m:s of a valid time

(* What Process::shutdown holds besides a past time.                       *)
NotDown  == -1        \* 0: no exit noticed
Negative == -2        \* a negative garbage value (the field is not initialised)

Ages == 0..MaxAge

Older(a) == IF a < MaxAge THEN a + 1 ELSE MaxAge

(* difftime(now, x) for a point x in time of age a.                        *)
Since(a, lag) == a - lag

(* A negative time_t is further back than any threshold.                   *)
SinceShutdown(d, lag) == IF d = Negative THEN MaxAge ELSE Since(d, lag)

(* shutdown > 0                                                            *)
Noticed(d) == d >= 0

(* The second of the day of the captured `now'.                            *)
CapturedTime(tod, lag) == (tod + Day - lag) % Day

(* Variant: a time of day that is yet to come counts as past.              *)
NeedRestartBefore(startup, rstime, tod, lag) ==
  /\ rstime # NoTime
  /\ Since(startup, lag) > CapturedTime(tod, lag) - rstime

(* CPM::NeedRestart, lines 412-436: now > rstime && runtimespan >          *)
(* rstimespan, where rstime is today's date at the configured time.        *)
NeedRestart(startup, rstime, tod, lag) ==
  /\ rstime # NoTime
  /\ CapturedTime(tod, lag) > rstime
  /\ Since(startup, lag) > CapturedTime(tod, lag) - rstime

(* rsdur > 0 && difftime(now, startup) > rsdur, line 256.                  *)
RanLongEnough(startup, rsdur, lag) ==
  rsdur > 0 /\ Since(startup, lag) > rsdur
=============================================================================
