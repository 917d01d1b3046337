---------------------------- MODULE MythreadProofs ----------------------------
(***************************************************************************)
(* What the pool keeps, whatever its workers do: threads are started and   *)
(* joined in order, so that after the last join every worker has returned. *)
(***************************************************************************)
EXTENDS Mythread, FiniteSetTheorems, TLAPS

(* The pool starts and joins in order, and nothing restarts a worker.      *)
PoolInOrder ==
  /\ caller = "spawn" => /\ joined = 0
                         /\ \A t \in Threads : t >= started => pc[t] = "new"
  /\ \A t \in Threads : t < joined => pc[t] = "exited"
  /\ caller = "done" => joined >= SetThreads(ThreadNum)

(* How many workers there are.                                             *)
LEMMA ThreadsFinite ==
  /\ SetThreads(ThreadNum) \in Int
  /\ IsFiniteSet(Threads)
  /\ Cardinality(Threads) \in Nat
  /\ Cardinality(Threads) =
       IF SetThreads(ThreadNum) > 0 THEN SetThreads(ThreadNum) ELSE 0
<1>1. SetThreads(ThreadNum) \in Int
  BY ThreadNumAssumption DEF SetThreads
<1>2. /\ IsFiniteSet(0 .. SetThreads(ThreadNum) - 1)
      /\ Cardinality(0 .. SetThreads(ThreadNum) - 1) =
           IF 0 > SetThreads(ThreadNum) - 1 THEN 0 ELSE SetThreads(ThreadNum) - 1 - 0 + 1
  BY <1>1, FS_Interval
<1> QED
  BY <1>1, <1>2 DEF Threads

LEMMA PoolStarts == PoolInit => PoolInOrder
BY DEF PoolInit, PoolInOrder, Threads

(* A step of the calling thread.                                           *)
LEMMA CallerStep ==
  ASSUME NEW L, PoolTypeOK(L), PoolInOrder, NEW entry \in L, PoolNext(entry)
  PROVE  PoolTypeOK(L)' /\ PoolInOrder'
<1> USE ThreadsFinite DEF PoolTypeOK, PoolInOrder, Threads
<1>1. CASE Spawn(entry)
  BY <1>1 DEF Spawn, MoreToStart
<1>2. CASE SpawnFails \/ SpawnDone
  BY <1>2 DEF SpawnFails, SpawnDone, MoreToStart
<1>3. CASE Join
  BY <1>3 DEF Join, MoreToJoin, Returned
<1>4. CASE JoinDone
  BY <1>4 DEF JoinDone, MoreToJoin
<1> QED
  BY <1>1, <1>2, <1>3, <1>4 DEF PoolNext

(* A step of a worker between its start and its return.                    *)
LEMMA WorkerStep ==
  ASSUME NEW L, "new" \notin L, "exited" \notin L, PoolTypeOK(L), PoolInOrder,
         NEW t \in Threads, pc[t] \in L, NEW to \in L \cup {"exited"},
         pc' = [pc EXCEPT ![t] = to], UNCHANGED <<caller, started, joined>>
  PROVE  PoolTypeOK(L)' /\ PoolInOrder'
BY ThreadsFinite DEF PoolTypeOK, PoolInOrder, Threads

(* setJoin has joined every worker when it returns.                        *)
LEMMA AllJoined ==
  ASSUME NEW L, PoolTypeOK(L), PoolInOrder, caller = "done"
  PROVE  \A t \in Threads : pc[t] = "exited"
BY ThreadsFinite DEF PoolTypeOK, PoolInOrder, Threads
=============================================================================
