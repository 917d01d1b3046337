------------------------------ MODULE Mythread ------------------------------
(***************************************************************************)
(* class Mythread: a pool that starts a number of threads on one function  *)
(* and then joins them in order.  Both scanners run their workers through  *)
(* it, always as setThreads; runThreads; setJoin, so they EXTEND this      *)
(* module: it owns the calling thread, they own what a started worker does *)
(* until it reaches "exited".                                              *)
(***************************************************************************)
EXTENDS Integers, FiniteSets

CONSTANT ThreadNum    (* the argument of setThreads: "threads" of pls.conf *)

ASSUME ThreadNumAssumption == ThreadNum \in Int

(* What setThreads keeps: an upper limit of 100, but no lower limit.       *)
SetThreads(thread) == IF thread < 100 THEN thread ELSE 100

(* The indexes of the vector `threads`; no index when ThreadNum <= 0.      *)
Threads == 0 .. SetThreads(ThreadNum) - 1

NoThread == -1        (* "nobody": the holder of an unlocked mutex         *)

VARIABLES
  caller,    (* the thread in runThread: "spawn", "join", "done", or       *)
             (* "terminated" once the process is gone                      *)
  started,   (* i of runThreads' loop: threads constructed so far          *)
  joined,    (* i of setJoin's loop: threads joined so far                 *)
  pc         (* where each worker is; "new" before it is constructed       *)

poolVars == <<caller, started, joined, pc>>

Alive == caller # "terminated"

PoolInit ==
  /\ caller = "spawn"
  /\ started = 0
  /\ joined = 0
  /\ pc = [t \in Threads |-> "new"]

(* Definitions whose names end in _mutant are the slips that each property *)
(* is shown to notice; no specification uses them.                         *)
(*                                                                         *)
(* The conditions of the two loops, and what join waits for.               *)
MoreToStart_mutant == started <= SetThreads(ThreadNum)
MoreToStart == started < SetThreads(ThreadNum)
MoreToJoin == joined < SetThreads(ThreadNum)
Returned_mutant(t) == pc[t] # "new"
Returned(t) == pc[t] = "exited"

(* One iteration of runThreads: the new worker begins at location entry.   *)
Spawn(entry) ==
  /\ caller = "spawn"
  /\ MoreToStart
  /\ pc' = [pc EXCEPT ![started] = entry]
  /\ started' = started + 1
  /\ UNCHANGED <<caller, joined>>

(* std::thread's constructor throws system_error when the system has no    *)
(* thread to give; nothing catches it, so std::terminate ends the process. *)
SpawnFails ==
  /\ caller = "spawn"
  /\ MoreToStart
  /\ caller' = "terminated"
  /\ UNCHANGED <<started, joined, pc>>

(* runThreads returns and the caller goes on to setJoin.                   *)
SpawnDone ==
  /\ caller = "spawn"
  /\ ~MoreToStart
  /\ caller' = "join"
  /\ UNCHANGED <<started, joined, pc>>

(* One iteration of setJoin: blocks until that worker's function returned. *)
Join ==
  /\ caller = "join"
  /\ MoreToJoin
  /\ Returned(joined)
  /\ joined' = joined + 1
  /\ UNCHANGED <<caller, started, pc>>

(* setJoin returns, ~Mythread destroys the joined threads, runThread       *)
(* returns to its own caller.                                              *)
JoinDone ==
  /\ caller = "join"
  /\ ~MoreToJoin
  /\ caller' = "done"
  /\ UNCHANGED <<started, joined, pc>>

PoolNext(entry) == Spawn(entry) \/ SpawnFails \/ SpawnDone \/ Join \/ JoinDone

PoolTypeOK(Locations) ==
  /\ caller \in {"spawn", "join", "done", "terminated"}
  /\ started \in 0 .. Cardinality(Threads)
  /\ joined \in 0 .. Cardinality(Threads)
  /\ pc \in [Threads -> Locations \cup {"new", "exited"}]
=============================================================================
