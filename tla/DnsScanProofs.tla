---------------------------- MODULE DnsScanProofs ----------------------------
(***************************************************************************)
(* The safety of the name scan, for any number of workers, any dictionary  *)
(* and any answers.  IInv is inductive.  Its first parts say who owns the  *)
(* shared buffers: the worker that holds the mutex, and what they hold at  *)
(* each location of that worker.  Stale counts the workers that passed the *)
(* while condition and did not claim yet: they are the ones that can still *)
(* run past the end of the dictionary.                                     *)
(***************************************************************************)
EXTENDS DnsScan, MythreadProofs

Asked == {"request", "recv", "record"}   (* from Claim to Record           *)

Stale == {t \in Threads : pc[t] \in {"lock", "claim"}}

(* The worker in the critical section is the holder of the mutex.          *)
Guarded == \A t \in Threads : pc[t] \in Critical <=> mutex = t

(* Between two holders the buffers are clean.                              *)
BuffersClean ==
  /\ mutex = NoThread => currentHostname = << >> /\ dnsSock = NoSocket
  /\ \A t \in Threads :
       /\ pc[t] = "claim" => currentHostname = << >>
       /\ pc[t] \in {"claim", "request"} => dnsSock = NoSocket

(* Under a holder they are about the entry it claimed.                     *)
BuffersOwned ==
  \A t \in Threads :
    /\ pc[t] \in Asked => threadLock >= 1 /\ hostBuff[t] = <<threadLock - 1>>
    /\ pc[t] \in {"request", "recv"} =>
         buff = [name |-> <<threadLock - 1>>, answers |-> {}]

Overrun ==
  threadLock >= SubdomainCount =>
    \/ threadLock = 0 /\ Stale = {}
    \/ threadLock + Cardinality(Stale) <= SubdomainCount + Cardinality(Threads) - 1

(* What is on its way to the open socket answers the query of its owner.   *)
AnswersOwned ==
  \A t \in Threads :
    /\ pc[t] = "recv" =>
         \A m \in network : m.port = dnsSock =>
           m.msg.answers = Zone[threadLock - 1]
    /\ pc[t] = "record" => buff.answers \subseteq Zone[threadLock - 1]

(* A name an answer was received for is recorded or about to be.           *)
HeardKept ==
  \A h \in heard :
    \/ \A a \in Zone[h[1]] \cap Addresses : <<h[1] + 1, h, a>> \in aResult
    \/ \E t \in Threads : /\ pc[t] = "record"
                          /\ h = <<threadLock - 1>>
                          /\ buff.answers = Zone[threadLock - 1]

(* What needs the kernel not to reuse a port too early.                    *)
NoMixup == AnswersOwned /\ ResultsBelong /\ HeardKept

(* A worker that is alone cannot be overtaken.                             *)
Alone ==
  Cardinality(Threads) = 1 => \A t \in Stale : Inside

IInv ==
  /\ TypeOK
  /\ Guarded
  /\ PoolInOrder
  /\ BuffersClean
  /\ BuffersOwned
  /\ Overrun
  /\ ~PortReuse => NoMixup
  /\ Alone
-----------------------------------------------------------------------------
LEMMA InitIInv == Init => IInv
<1> SUFFICES ASSUME Init PROVE IInv
  OBVIOUS
<1> USE DEF Init, PoolInit
<1>1. TypeOK
  BY ThreadsFinite, DnsAssumption DEF TypeOK, PoolTypeOK, Names, Message
<1>2. Guarded /\ BuffersClean /\ BuffersOwned
  BY DEF Guarded, BuffersClean, BuffersOwned, Critical, Asked, Threads, NoThread
<1>3. PoolInOrder
  BY PoolStarts
<1>4. Stale = {}
  BY DEF Stale
<1>5. Overrun /\ Alone
  BY <1>4 DEF Overrun, Alone
<1>6. NoMixup
  BY DEF NoMixup, AnswersOwned, ResultsBelong, HeardKept
<1> QED
  BY <1>1, <1>2, <1>3, <1>5, <1>6 DEF IInv

(* Mutual exclusion.                                                        *)
LEMMA NextGuarded == IInv /\ [Next]_vars => Guarded'
<1> SUFFICES ASSUME IInv, [Next]_vars PROVE Guarded'
  OBVIOUS
<1> USE ThreadsFinite DEF IInv, TypeOK, PoolTypeOK, Guarded, PoolInOrder, Critical, Threads, NoThread, Unlocked
<1>1. CASE Pool /\ Spawn("while")
  BY <1>1 DEF Pool, Spawn, shared
<1>2. CASE Pool /\ SpawnFails
  BY <1>2 DEF Pool, SpawnFails, shared
<1>3. CASE Pool /\ SpawnDone
  BY <1>3 DEF Pool, SpawnDone, shared
<1>4. CASE Pool /\ Join
  BY <1>4 DEF Pool, Join, shared
<1>5. CASE Pool /\ JoinDone
  BY <1>5 DEF Pool, JoinDone, shared
<1>6. ASSUME NEW t \in Threads, While(t) PROVE Guarded'
  BY <1>6 DEF While, Goto, shared
<1>7. ASSUME NEW t \in Threads, Lock(t) PROVE Guarded'
  BY <1>7 DEF Lock, Goto, shared
<1>8. ASSUME NEW t \in Threads, Claim(t) PROVE Guarded'
  BY <1>8 DEF Claim, Goto, shared
<1>9. ASSUME NEW t \in Threads, ClaimCrashes(t) PROVE Guarded'
  BY <1>9 DEF ClaimCrashes, Goto, shared
<1>10. ASSUME NEW t \in Threads, Request(t) PROVE Guarded'
  BY <1>10 DEF Request, Goto, shared
<1>11. ASSUME NEW t \in Threads, SendFails(t) PROVE Guarded'
  BY <1>11 DEF SendFails, Goto, shared
<1>12. ASSUME NEW t \in Threads, Receive(t) PROVE Guarded'
  BY <1>12 DEF Receive, Goto, shared
<1>13. ASSUME NEW t \in Threads, Timeout(t) PROVE Guarded'
  BY <1>13 DEF Timeout, Goto, shared
<1>14. ASSUME NEW t \in Threads, Record(t) PROVE Guarded'
  BY <1>14 DEF Record, Goto, shared
<1>15. CASE Discard
  BY <1>15 DEF Discard, poolVars
<1>16. CASE UNCHANGED vars
  BY <1>16 DEF vars, poolVars, shared
<1> QED
  BY <1>1, <1>2, <1>3, <1>4, <1>5, <1>6, <1>7, <1>8,
     <1>9, <1>10, <1>11, <1>12, <1>13, <1>14, <1>15, <1>16
     DEF Next, Pool, PoolNext, Worker, Ended

(* The pool.                                                                *)
LEMMA NextPoolInOrder == IInv /\ [Next]_vars => PoolInOrder'
<1> SUFFICES ASSUME IInv, [Next]_vars PROVE PoolInOrder'
  OBVIOUS
<1>1. PoolTypeOK(Locations) /\ PoolInOrder
  BY DEF IInv, TypeOK
<1>2. CASE Pool
  BY <1>1, <1>2, CallerStep DEF Pool, Locations
<1>3. ASSUME NEW t \in Threads, NEW from \in Locations,
             NEW to \in Locations \cup {"exited"}, Goto(t, from, to)
      PROVE  PoolInOrder'
  <2>1. "new" \notin Locations /\ "exited" \notin Locations
    BY DEF Locations
  <2> QED
    BY <1>1, <1>3, <2>1, WorkerStep DEF Goto
<1>4. ASSUME NEW t \in Threads, ClaimCrashes(t) PROVE PoolInOrder'
  BY <1>1, <1>4 DEF ClaimCrashes, PoolInOrder
<1>5. ASSUME NEW t \in Threads, Worker(t), ~ClaimCrashes(t) PROVE PoolInOrder'
  BY <1>3, <1>5 DEF Worker, While, Lock, Claim, Request, SendFails, Receive,
                    Timeout, Record, Locations
<1>6. CASE Discard \/ UNCHANGED vars
  BY <1>1, <1>6 DEF Discard, vars, poolVars, PoolInOrder
<1> QED
  BY <1>2, <1>4, <1>5, <1>6 DEF Next, Ended

(* Clean buffers.                                                           *)
LEMMA NextBuffersClean == IInv /\ [Next]_vars => BuffersClean'
<1> SUFFICES ASSUME IInv, [Next]_vars PROVE BuffersClean'
  OBVIOUS
<1> USE ThreadsFinite DEF IInv, TypeOK, PoolTypeOK, Guarded, PoolInOrder, BuffersClean, Critical, NoThread, Threads, Unlocked
<1>1. CASE Pool /\ Spawn("while")
  BY <1>1 DEF Pool, Spawn, shared
<1>2. CASE Pool /\ SpawnFails
  BY <1>2 DEF Pool, SpawnFails, shared
<1>3. CASE Pool /\ SpawnDone
  BY <1>3 DEF Pool, SpawnDone, shared
<1>4. CASE Pool /\ Join
  BY <1>4 DEF Pool, Join, shared
<1>5. CASE Pool /\ JoinDone
  BY <1>5 DEF Pool, JoinDone, shared
<1>6. ASSUME NEW t \in Threads, While(t) PROVE BuffersClean'
  BY <1>6 DEF While, Goto, shared
<1>7. ASSUME NEW t \in Threads, Lock(t) PROVE BuffersClean'
  BY <1>7 DEF Lock, Goto, shared
<1>8. ASSUME NEW t \in Threads, Claim(t) PROVE BuffersClean'
  BY <1>8 DEF Claim, Goto, shared
<1>9. ASSUME NEW t \in Threads, ClaimCrashes(t) PROVE BuffersClean'
  BY <1>9 DEF ClaimCrashes, Goto, shared
<1>10. ASSUME NEW t \in Threads, Request(t) PROVE BuffersClean'
  BY <1>10 DEF Request, Goto, shared
<1>11. ASSUME NEW t \in Threads, SendFails(t) PROVE BuffersClean'
  BY <1>11 DEF SendFails, Goto, shared
<1>12. ASSUME NEW t \in Threads, Receive(t) PROVE BuffersClean'
  BY <1>12 DEF Receive, Goto, shared
<1>13. ASSUME NEW t \in Threads, Timeout(t) PROVE BuffersClean'
  BY <1>13 DEF Timeout, Goto, shared
<1>14. ASSUME NEW t \in Threads, Record(t) PROVE BuffersClean'
  BY <1>14 DEF Record, Goto, shared
<1>15. CASE Discard
  BY <1>15 DEF Discard, poolVars
<1>16. CASE UNCHANGED vars
  BY <1>16 DEF vars, poolVars, shared
<1> QED
  BY <1>1, <1>2, <1>3, <1>4, <1>5, <1>6, <1>7, <1>8,
     <1>9, <1>10, <1>11, <1>12, <1>13, <1>14, <1>15, <1>16
     DEF Next, Pool, PoolNext, Worker, Ended

(* What the buffers are about.                                              *)
LEMMA NextBuffersOwned == IInv /\ [Next]_vars => BuffersOwned'
<1> SUFFICES ASSUME IInv, [Next]_vars PROVE BuffersOwned'
  OBVIOUS
<1> USE ThreadsFinite, DnsAssumption DEF IInv, TypeOK, PoolTypeOK, Guarded, PoolInOrder, BuffersClean, BuffersOwned, Critical, Asked, NoThread, Threads, Names
<1>1. CASE Pool /\ Spawn("while")
  BY <1>1 DEF Pool, Spawn, shared
<1>2. CASE Pool /\ SpawnFails
  BY <1>2 DEF Pool, SpawnFails, shared
<1>3. CASE Pool /\ SpawnDone
  BY <1>3 DEF Pool, SpawnDone, shared
<1>4. CASE Pool /\ Join
  BY <1>4 DEF Pool, Join, shared
<1>5. CASE Pool /\ JoinDone
  BY <1>5 DEF Pool, JoinDone, shared
<1>6. ASSUME NEW t \in Threads, While(t) PROVE BuffersOwned'
  BY <1>6 DEF While, Goto, shared
<1>7. ASSUME NEW t \in Threads, Lock(t) PROVE BuffersOwned'
  BY <1>7 DEF Lock, Goto, shared
<1>8. ASSUME NEW t \in Threads, Claim(t) PROVE BuffersOwned'
  <2>1. threadLock \in Nat /\ threadLock' = threadLock + 1
    BY <1>8 DEF Claim
  <2>2. currentHostname' = <<threadLock>>
    <3>1. currentHostname = << >> /\ currentHostname' = Append(currentHostname, threadLock)
      BY <1>8 DEF Claim, Goto
    <3>2. Append(<< >>, threadLock) = <<threadLock>>
      OBVIOUS
    <3> QED
      BY <3>1, <3>2
  <2>3. \A u \in Threads : pc'[u] \in Asked => u = t
    BY <1>8 DEF Claim, Goto
  <2>4. /\ hostBuff'[t] = <<threadLock>>
        /\ buff' = [name |-> <<threadLock>>, answers |-> {}]
    BY <1>8, <2>2 DEF Claim
  <2>5. threadLock' >= 1 /\ threadLock' - 1 = threadLock
    BY <2>1
  <2> QED
    BY <2>3, <2>4, <2>5
<1>9. ASSUME NEW t \in Threads, ClaimCrashes(t) PROVE BuffersOwned'
  BY <1>9 DEF ClaimCrashes, Goto, shared
<1>10. ASSUME NEW t \in Threads, Request(t) PROVE BuffersOwned'
  BY <1>10 DEF Request, Goto, shared
<1>11. ASSUME NEW t \in Threads, SendFails(t) PROVE BuffersOwned'
  BY <1>11 DEF SendFails, Goto, shared
<1>12. ASSUME NEW t \in Threads, Receive(t) PROVE BuffersOwned'
  BY <1>12 DEF Receive, Goto, shared
<1>13. ASSUME NEW t \in Threads, Timeout(t) PROVE BuffersOwned'
  BY <1>13 DEF Timeout, Goto, shared
<1>14. ASSUME NEW t \in Threads, Record(t) PROVE BuffersOwned'
  BY <1>14 DEF Record, Goto, shared
<1>15. CASE Discard
  BY <1>15 DEF Discard, poolVars
<1>16. CASE UNCHANGED vars
  BY <1>16 DEF vars, poolVars, shared
<1> QED
  BY <1>1, <1>2, <1>3, <1>4, <1>5, <1>6, <1>7, <1>8,
     <1>9, <1>10, <1>11, <1>12, <1>13, <1>14, <1>15, <1>16
     DEF Next, Pool, PoolNext, Worker, Ended

(* One worker.                                                              *)
LEMMA NextAlone == IInv /\ [Next]_vars => Alone'
<1> SUFFICES ASSUME IInv, [Next]_vars PROVE Alone'
  OBVIOUS
<1> USE ThreadsFinite, DnsAssumption DEF IInv, TypeOK, PoolTypeOK, Guarded, PoolInOrder, Alone, Stale, Critical, NoThread, Threads, Inside, Unlocked
<1>1. CASE Pool /\ Spawn("while")
  BY <1>1 DEF Pool, Spawn, shared
<1>2. CASE Pool /\ SpawnFails
  BY <1>2 DEF Pool, SpawnFails, shared
<1>3. CASE Pool /\ SpawnDone
  BY <1>3 DEF Pool, SpawnDone, shared
<1>4. CASE Pool /\ Join
  BY <1>4 DEF Pool, Join, shared
<1>5. CASE Pool /\ JoinDone
  BY <1>5 DEF Pool, JoinDone, shared
<1>6. ASSUME NEW t \in Threads, While(t) PROVE Alone'
  BY <1>6 DEF While, Goto, shared
<1>7. ASSUME NEW t \in Threads, Lock(t) PROVE Alone'
  BY <1>7 DEF Lock, Goto, shared
<1>8. ASSUME NEW t \in Threads, Claim(t) PROVE Alone'
  BY <1>8 DEF Claim, Goto, shared
<1>9. ASSUME NEW t \in Threads, ClaimCrashes(t) PROVE Alone'
  BY <1>9 DEF ClaimCrashes, Goto, shared
<1>10. ASSUME NEW t \in Threads, Request(t) PROVE Alone'
  BY <1>10 DEF Request, Goto, shared
<1>11. ASSUME NEW t \in Threads, SendFails(t) PROVE Alone'
  BY <1>11 DEF SendFails, Goto, shared
<1>12. ASSUME NEW t \in Threads, Receive(t) PROVE Alone'
  BY <1>12 DEF Receive, Goto, shared
<1>13. ASSUME NEW t \in Threads, Timeout(t) PROVE Alone'
  BY <1>13 DEF Timeout, Goto, shared
<1>14. ASSUME NEW t \in Threads, Record(t) PROVE Alone'
  BY <1>14 DEF Record, Goto, shared
<1>15. CASE Discard
  BY <1>15 DEF Discard, poolVars
<1>16. CASE UNCHANGED vars
  BY <1>16 DEF vars, poolVars, shared
<1> QED
  BY <1>1, <1>2, <1>3, <1>4, <1>5, <1>6, <1>7, <1>8,
     <1>9, <1>10, <1>11, <1>12, <1>13, <1>14, <1>15, <1>16
     DEF Next, Pool, PoolNext, Worker, Ended

(* Claim leaves the counter among the numbers names are given.             *)
LEMMA ClaimInRange ==
  ASSUME IInv, NEW t \in Threads, pc[t] = "claim"
  PROVE  /\ threadLock \in Nat
         /\ threadLock + 1 \in Names
         /\ threadLock + 1 <= SubdomainCount + Cardinality(Threads) - 1 \/ Inside
<1>1. threadLock \in Nat /\ SubdomainCount \in Nat /\ Cardinality(Threads) \in Nat
  BY ThreadsFinite, DnsAssumption DEF IInv, TypeOK, Names
<1>2. Stale \subseteq Threads /\ t \in Stale
  BY DEF Stale
<1>3. IsFiniteSet(Stale) /\ Cardinality(Stale) \in Nat /\ Cardinality(Stale) # 0
  BY <1>2, ThreadsFinite, FS_Subset, FS_CardinalityType, FS_EmptySet
<1>4. Cardinality(Threads) # 0
  BY <1>2, ThreadsFinite, FS_EmptySet
<1>5. CASE threadLock >= SubdomainCount
  BY <1>1, <1>2, <1>3, <1>5 DEF IInv, Overrun, Names
<1>6. CASE ~(threadLock >= SubdomainCount)
  BY <1>1, <1>4, <1>6 DEF Names, Inside
<1> QED
  BY <1>5, <1>6

(* The answer to the query of the worker that sends it.                    *)
LEMMA AnswerToOwner ==
  ASSUME IInv, NEW t \in Threads, pc[t] = "request", NEW p
  PROVE  /\ threadLock - 1 \in Names
         /\ Answer(p) = [port |-> p, msg |-> [name |-> <<threadLock - 1>>,
                                             answers |-> Zone[threadLock - 1]]]
<1>1. threadLock - 1 \in Names
  BY ThreadsFinite, DnsAssumption DEF IInv, TypeOK, Names, BuffersOwned, Asked
<1>2. buff.name = <<threadLock - 1>>
  BY DEF IInv, BuffersOwned
<1>3. Len(buff.name) = 1 /\ buff.name[1] = threadLock - 1
  BY <1>2
<1> QED
  BY <1>1, <1>2, <1>3 DEF Answer

(* Types; the bound on threadLock is part of them.                          *)
LEMMA NextTypeOK == IInv /\ [Next]_vars => TypeOK'
<1> SUFFICES ASSUME IInv, [Next]_vars PROVE TypeOK'
  OBVIOUS
<1> USE ThreadsFinite, DnsAssumption DEF IInv, TypeOK, PoolTypeOK, Guarded, PoolInOrder, BuffersOwned, Critical, Asked, Locations, NoThread, Message
<1>1. CASE Pool /\ Spawn("while")
  BY <1>1 DEF Pool, Spawn, shared, MoreToStart, Threads
<1>2. CASE Pool /\ SpawnFails
  BY <1>2 DEF Pool, SpawnFails, shared
<1>3. CASE Pool /\ SpawnDone
  BY <1>3 DEF Pool, SpawnDone, shared
<1>4. CASE Pool /\ Join
  BY <1>4 DEF Pool, Join, shared, MoreToJoin
<1>5. CASE Pool /\ JoinDone
  BY <1>5 DEF Pool, JoinDone, shared
<1>6. ASSUME NEW t \in Threads, While(t) PROVE TypeOK'
  BY <1>6 DEF While, Goto, shared
<1>7. ASSUME NEW t \in Threads, Lock(t) PROVE TypeOK'
  BY <1>7 DEF Lock, Goto, shared
<1>8. ASSUME NEW t \in Threads, Claim(t) PROVE TypeOK'
  <2>1. threadLock \in Names /\ threadLock' \in Names
    BY <1>8, ClaimInRange DEF Claim, Goto
  <2>2. currentHostname' \in Seq(Names)
    BY <1>8, <2>1 DEF Claim
  <2>3. hostBuff' \in [Threads -> Seq(Names)] /\ buff' \in Message
    BY <1>8, <2>2 DEF Claim
  <2> QED
    BY <1>8, <2>1, <2>2, <2>3 DEF Claim, Goto
<1>9. ASSUME NEW t \in Threads, ClaimCrashes(t) PROVE TypeOK'
  BY <1>9 DEF ClaimCrashes, Goto, shared
<1>10. ASSUME NEW t \in Threads, Request(t) PROVE TypeOK'
  <2>1. PICK p \in LocalPorts : /\ dnsSock' = p
                               /\ \/ network' = network \cup {Answer(p)}
                                  \/ UNCHANGED network
    BY <1>10 DEF Request
  <2>2. threadLock - 1 \in Names /\ Zone[threadLock - 1] \in SUBSET Records
    BY <1>10, AnswerToOwner DEF Request, Goto
  <2>3. <<threadLock - 1>> \in Seq(Names)
    BY <2>2
  <2>4. Answer(p) \in [port : LocalPorts, msg : Message]
    <3>1. [name |-> <<threadLock - 1>>, answers |-> Zone[threadLock - 1]] \in Message
      BY <2>2, <2>3
    <3>2. Answer(p) = [port |-> p, msg |-> [name |-> <<threadLock - 1>>,
                                          answers |-> Zone[threadLock - 1]]]
      BY <1>10, AnswerToOwner DEF Request, Goto
    <3> HIDE DEF Message
    <3> QED
      BY <3>1, <3>2
  <2> QED
    BY <1>10, <2>1, <2>4 DEF Request, Goto
<1>11. ASSUME NEW t \in Threads, SendFails(t) PROVE TypeOK'
  BY <1>11 DEF SendFails, Goto, shared
<1>12. ASSUME NEW t \in Threads, Receive(t) PROVE TypeOK'
  BY <1>12 DEF Receive, Goto, shared
<1>13. ASSUME NEW t \in Threads, Timeout(t) PROVE TypeOK'
  BY <1>13 DEF Timeout, Goto, shared
<1>14. ASSUME NEW t \in Threads, Record(t) PROVE TypeOK'
  <2>1. Resolved(t) \subseteq Names \X Seq(Names) \X Addresses
    BY <1>14 DEF Record, Goto, Resolved
  <2>2. << >> \in Seq(Names)
    OBVIOUS
  <2> QED
    BY <1>14, <2>1, <2>2 DEF Record, Goto
<1>15. CASE Discard
  BY <1>15 DEF Discard, poolVars
<1>16. CASE UNCHANGED vars
  BY <1>16 DEF vars, poolVars, shared
<1> QED
  BY <1>1, <1>2, <1>3, <1>4, <1>5, <1>6, <1>7, <1>8,
     <1>9, <1>10, <1>11, <1>12, <1>13, <1>14, <1>15, <1>16
     DEF Next, Pool, PoolNext, Worker, Ended

(* How far the counter can get.                                             *)
LEMMA NextOverrun == IInv /\ [Next]_vars => Overrun'
<1> SUFFICES ASSUME IInv, [Next]_vars PROVE Overrun'
  OBVIOUS
<1> USE ThreadsFinite, DnsAssumption DEF IInv, TypeOK, PoolTypeOK, PoolInOrder, Overrun
<1>1. CASE Pool /\ Spawn("while")
  <2>1. Stale' = Stale /\ threadLock' = threadLock
    BY <1>1 DEF Pool, Spawn, shared, Stale, MoreToStart, Threads, Locations
  <2> QED
    BY <2>1
<1>2. CASE Pool /\ SpawnFails
  <2>1. Stale' = Stale /\ threadLock' = threadLock
    BY <1>2 DEF Pool, SpawnFails, shared, Stale
  <2> QED
    BY <2>1
<1>3. CASE Pool /\ SpawnDone
  <2>1. Stale' = Stale /\ threadLock' = threadLock
    BY <1>3 DEF Pool, SpawnDone, shared, Stale
  <2> QED
    BY <2>1
<1>4. CASE Pool /\ Join
  <2>1. Stale' = Stale /\ threadLock' = threadLock
    BY <1>4 DEF Pool, Join, shared, Stale
  <2> QED
    BY <2>1
<1>5. CASE Pool /\ JoinDone
  <2>1. Stale' = Stale /\ threadLock' = threadLock
    BY <1>5 DEF Pool, JoinDone, shared, Stale
  <2> QED
    BY <2>1
<1>6. ASSUME NEW t \in Threads, While(t) PROVE Overrun'
  <2>1. CASE Inside
    BY <1>6, <2>1 DEF While, Inside, Names
  <2>2. CASE ~Inside
    <3>1. Stale' = Stale /\ threadLock' = threadLock
      BY <1>6, <2>2 DEF While, Goto, Stale
    <3> QED
      BY <3>1
  <2> QED
    BY <2>1, <2>2
<1>7. ASSUME NEW t \in Threads, Lock(t) PROVE Overrun'
  <2>1. Stale' = Stale /\ threadLock' = threadLock
    BY <1>7 DEF Lock, Goto, shared, Stale
  <2> QED
    BY <2>1
<1>8. ASSUME NEW t \in Threads, Claim(t) PROVE Overrun'
  <2>1. threadLock \in Nat /\ SubdomainCount \in Nat /\ threadLock' = threadLock + 1
    BY <1>8 DEF Claim, Names
  <2>2. Stale \subseteq Threads /\ t \in Stale /\ Stale' = Stale \ {t}
    BY <1>8 DEF Claim, Goto, Stale
  <2>3. /\ IsFiniteSet(Stale)
        /\ Cardinality(Stale) \in Nat
        /\ Cardinality(Stale) <= Cardinality(Threads)
        /\ Cardinality(Stale') = Cardinality(Stale) - 1
    BY <2>2, FS_Subset, FS_RemoveElement, FS_CardinalityType
  <2>4. CASE threadLock >= SubdomainCount
    BY <2>1, <2>2, <2>3, <2>4
  <2>5. CASE threadLock < SubdomainCount
    BY <2>1, <2>3, <2>5
  <2> QED
    BY <2>1, <2>4, <2>5
<1>9. ASSUME NEW t \in Threads, ClaimCrashes(t) PROVE Overrun'
  <2>1. Stale' = Stale /\ threadLock' = threadLock
    BY <1>9 DEF ClaimCrashes, Goto, shared, Stale
  <2> QED
    BY <2>1
<1>10. ASSUME NEW t \in Threads, Request(t) PROVE Overrun'
  <2>1. Stale' = Stale /\ threadLock' = threadLock
    BY <1>10 DEF Request, Goto, shared, Stale
  <2> QED
    BY <2>1
<1>11. ASSUME NEW t \in Threads, SendFails(t) PROVE Overrun'
  <2>1. Stale' = Stale /\ threadLock' = threadLock
    BY <1>11 DEF SendFails, Goto, shared, Stale
  <2> QED
    BY <2>1
<1>12. ASSUME NEW t \in Threads, Receive(t) PROVE Overrun'
  <2>1. Stale' = Stale /\ threadLock' = threadLock
    BY <1>12 DEF Receive, Goto, shared, Stale
  <2> QED
    BY <2>1
<1>13. ASSUME NEW t \in Threads, Timeout(t) PROVE Overrun'
  <2>1. Stale' = Stale /\ threadLock' = threadLock
    BY <1>13 DEF Timeout, Goto, shared, Stale
  <2> QED
    BY <2>1
<1>14. ASSUME NEW t \in Threads, Record(t) PROVE Overrun'
  <2>1. Stale' = Stale /\ threadLock' = threadLock
    BY <1>14 DEF Record, Goto, shared, Stale
  <2> QED
    BY <2>1
<1>15. CASE Discard
  <2>1. Stale' = Stale /\ threadLock' = threadLock
    BY <1>15 DEF Discard, poolVars, Stale
  <2> QED
    BY <2>1
<1>16. CASE UNCHANGED vars
  <2>1. Stale' = Stale /\ threadLock' = threadLock
    BY <1>16 DEF vars, poolVars, shared, Stale
  <2> QED
    BY <2>1
<1> QED
  BY <1>1, <1>2, <1>3, <1>4, <1>5, <1>6, <1>7, <1>8,
     <1>9, <1>10, <1>11, <1>12, <1>13, <1>14, <1>15, <1>16
     DEF Next, Pool, PoolNext, Worker, Ended

(* Nobody but the holder of the mutex is in the critical section.          *)
LEMMA Exclusive ==
  ASSUME IInv, NEW t \in Threads, pc[t] \in Critical,
         NEW u \in Threads, pc[u] \in Critical
  PROVE  u = t
BY DEF IInv, Guarded

(* Answers reach the query they belong to.                                  *)
LEMMA NextAnswersOwned == IInv /\ [Next]_vars => (~PortReuse => AnswersOwned)'
<1> SUFFICES ASSUME IInv, [Next]_vars PROVE (~PortReuse => AnswersOwned)'
  OBVIOUS
<1> USE ThreadsFinite, DnsAssumption DEF IInv, TypeOK, PoolTypeOK, Guarded, PoolInOrder, BuffersOwned, NoMixup, AnswersOwned, Critical, NoThread, Locations, Threads, Asked
<1>1. CASE Pool /\ Spawn("while")
  BY <1>1 DEF Pool, Spawn, shared
<1>2. CASE Pool /\ SpawnFails
  BY <1>2 DEF Pool, SpawnFails, shared
<1>3. CASE Pool /\ SpawnDone
  BY <1>3 DEF Pool, SpawnDone, shared
<1>4. CASE Pool /\ Join
  BY <1>4 DEF Pool, Join, shared
<1>5. CASE Pool /\ JoinDone
  BY <1>5 DEF Pool, JoinDone, shared
<1>6. ASSUME NEW t \in Threads, While(t) PROVE (~PortReuse => AnswersOwned)'
  BY <1>6 DEF While, Goto, shared
<1>7. ASSUME NEW t \in Threads, Lock(t) PROVE (~PortReuse => AnswersOwned)'
  BY <1>7 DEF Lock, Goto, shared
<1>8. ASSUME NEW t \in Threads, Claim(t) PROVE (~PortReuse => AnswersOwned)'
  BY <1>8 DEF Claim, Goto, shared
<1>9. ASSUME NEW t \in Threads, ClaimCrashes(t) PROVE (~PortReuse => AnswersOwned)'
  BY <1>9 DEF ClaimCrashes, Goto, shared
<1>10. ASSUME NEW t \in Threads, Request(t) PROVE (~PortReuse => AnswersOwned)'
  <2>1. PICK p \in LocalPorts : /\ MayBind(p)
                               /\ dnsSock' = p
                               /\ \/ network' = network \cup {Answer(p)}
                                  \/ UNCHANGED network
    BY <1>10 DEF Request
  <2>2. Answer(p) = [port |-> p, msg |-> [name |-> <<threadLock - 1>>,
                                        answers |-> Zone[threadLock - 1]]]
    BY <1>10, AnswerToOwner DEF Request, Goto
  <2>3. ~PortReuse =>
          \A m \in network' : m.port = dnsSock' => m.msg.answers = Zone[threadLock - 1]
    BY <2>1, <2>2 DEF MayBind
  <2>4. \A u \in Threads : pc'[u] # "record" \/ u = t
    BY <1>10, Exclusive DEF Request, Goto
  <2> QED
    BY <1>10, <2>3, <2>4 DEF Request, Goto
<1>11. ASSUME NEW t \in Threads, SendFails(t) PROVE (~PortReuse => AnswersOwned)'
  BY <1>11 DEF SendFails, Goto, shared
<1>12. ASSUME NEW t \in Threads, Receive(t) PROVE (~PortReuse => AnswersOwned)'
  BY <1>12 DEF Receive, Goto, shared
<1>13. ASSUME NEW t \in Threads, Timeout(t) PROVE (~PortReuse => AnswersOwned)'
  BY <1>13 DEF Timeout, Goto, shared
<1>14. ASSUME NEW t \in Threads, Record(t) PROVE (~PortReuse => AnswersOwned)'
  BY <1>14 DEF Record, Goto, shared
<1>15. CASE Discard
  BY <1>15 DEF Discard, poolVars
<1>16. CASE UNCHANGED vars
  BY <1>16 DEF vars, poolVars, shared
<1> QED
  BY <1>1, <1>2, <1>3, <1>4, <1>5, <1>6, <1>7, <1>8,
     <1>9, <1>10, <1>11, <1>12, <1>13, <1>14, <1>15, <1>16
     DEF Next, Pool, PoolNext, Worker, Ended

(* Tuples join what belongs together.                                       *)
LEMMA NextResultsBelong == IInv /\ [Next]_vars => (~PortReuse => ResultsBelong)'
<1> SUFFICES ASSUME IInv, [Next]_vars PROVE (~PortReuse => ResultsBelong)'
  OBVIOUS
<1> USE ThreadsFinite, DnsAssumption DEF IInv, TypeOK, PoolTypeOK, BuffersOwned, NoMixup, ResultsBelong
<1>1. CASE Pool /\ Spawn("while")
  BY <1>1 DEF Pool, Spawn, shared
<1>2. CASE Pool /\ SpawnFails
  BY <1>2 DEF Pool, SpawnFails, shared
<1>3. CASE Pool /\ SpawnDone
  BY <1>3 DEF Pool, SpawnDone, shared
<1>4. CASE Pool /\ Join
  BY <1>4 DEF Pool, Join, shared
<1>5. CASE Pool /\ JoinDone
  BY <1>5 DEF Pool, JoinDone, shared
<1>6. ASSUME NEW t \in Threads, While(t) PROVE (~PortReuse => ResultsBelong)'
  BY <1>6 DEF While, Goto, shared
<1>7. ASSUME NEW t \in Threads, Lock(t) PROVE (~PortReuse => ResultsBelong)'
  BY <1>7 DEF Lock, Goto, shared
<1>8. ASSUME NEW t \in Threads, Claim(t) PROVE (~PortReuse => ResultsBelong)'
  BY <1>8 DEF Claim, Goto, shared
<1>9. ASSUME NEW t \in Threads, ClaimCrashes(t) PROVE (~PortReuse => ResultsBelong)'
  BY <1>9 DEF ClaimCrashes, Goto, shared
<1>10. ASSUME NEW t \in Threads, Request(t) PROVE (~PortReuse => ResultsBelong)'
  BY <1>10 DEF Request, Goto, shared
<1>11. ASSUME NEW t \in Threads, SendFails(t) PROVE (~PortReuse => ResultsBelong)'
  BY <1>11 DEF SendFails, Goto, shared
<1>12. ASSUME NEW t \in Threads, Receive(t) PROVE (~PortReuse => ResultsBelong)'
  BY <1>12 DEF Receive, Goto, shared
<1>13. ASSUME NEW t \in Threads, Timeout(t) PROVE (~PortReuse => ResultsBelong)'
  BY <1>13 DEF Timeout, Goto, shared
<1>14. ASSUME NEW t \in Threads, Record(t) PROVE (~PortReuse => ResultsBelong)'
  <2>1. pc[t] = "record" /\ pc[t] \in Asked /\ threadLock \in Nat
    BY <1>14 DEF Record, Goto, Asked, Names
  <2>2. hostBuff[t] = <<threadLock - 1>>
    BY <2>1 DEF BuffersOwned
  <2>3. ~PortReuse => buff.answers \subseteq Zone[threadLock - 1]
    BY <2>1 DEF AnswersOwned
  <2>4. \A r \in Resolved(t) :
          /\ r[1] = threadLock
          /\ r[2] = <<threadLock - 1>>
          /\ r[3] \in buff.answers
    BY <2>2 DEF Resolved
  <2> QED
    BY <1>14, <2>3, <2>4 DEF Record
<1>15. CASE Discard
  BY <1>15 DEF Discard, poolVars
<1>16. CASE UNCHANGED vars
  BY <1>16 DEF vars, poolVars, shared
<1> QED
  BY <1>1, <1>2, <1>3, <1>4, <1>5, <1>6, <1>7, <1>8,
     <1>9, <1>10, <1>11, <1>12, <1>13, <1>14, <1>15, <1>16
     DEF Next, Pool, PoolNext, Worker, Ended

(* Nothing that was heard is lost.                                          *)
LEMMA NextHeardKept == IInv /\ [Next]_vars => (~PortReuse => HeardKept)'
<1> SUFFICES ASSUME IInv, [Next]_vars PROVE (~PortReuse => HeardKept)'
  OBVIOUS
<1> USE ThreadsFinite, DnsAssumption DEF IInv, TypeOK, PoolTypeOK, BuffersOwned, PoolInOrder, NoMixup, AnswersOwned, HeardKept, Critical, Asked, Locations
<1>1. CASE Pool /\ Spawn("while")
  <2>1. \A u \in Threads : pc[u] = "record" => pc'[u] = "record"
    BY <1>1 DEF Pool, Spawn, MoreToStart, Threads
  <2> QED
    BY <1>1, <2>1 DEF Pool, shared
<1>2. CASE Pool /\ SpawnFails
  BY <1>2 DEF Pool, SpawnFails, shared
<1>3. CASE Pool /\ SpawnDone
  BY <1>3 DEF Pool, SpawnDone, shared
<1>4. CASE Pool /\ Join
  BY <1>4 DEF Pool, Join, shared
<1>5. CASE Pool /\ JoinDone
  BY <1>5 DEF Pool, JoinDone, shared
<1>6. ASSUME NEW t \in Threads, While(t) PROVE (~PortReuse => HeardKept)'
  BY <1>6 DEF While, Goto, shared
<1>7. ASSUME NEW t \in Threads, Lock(t) PROVE (~PortReuse => HeardKept)'
  BY <1>7 DEF Lock, Goto, shared
<1>8. ASSUME NEW t \in Threads, Claim(t) PROVE (~PortReuse => HeardKept)'
  <2>1. \A u \in Threads : pc[u] # "record"
    BY <1>8, Exclusive DEF Claim, Goto
  <2>2. UNCHANGED <<heard, aResult>>
    BY <1>8 DEF Claim
  <2> QED
    BY <2>1, <2>2
<1>9. ASSUME NEW t \in Threads, ClaimCrashes(t) PROVE (~PortReuse => HeardKept)'
  BY <1>9 DEF ClaimCrashes, Goto, shared
<1>10. ASSUME NEW t \in Threads, Request(t) PROVE (~PortReuse => HeardKept)'
  BY <1>10 DEF Request, Goto, shared
<1>11. ASSUME NEW t \in Threads, SendFails(t) PROVE (~PortReuse => HeardKept)'
  BY <1>11 DEF SendFails, Goto, shared
<1>12. ASSUME NEW t \in Threads, Receive(t) PROVE (~PortReuse => HeardKept)'
  <2>1. PICK m \in network : m.port = dnsSock /\ buff' = m.msg
    BY <1>12 DEF Receive
  <2>2. /\ heard' = heard \cup {<<threadLock - 1>>}
        /\ UNCHANGED <<aResult, threadLock>>
    BY <1>12 DEF Receive, Goto
  <2>3. \A u \in Threads : pc[u] # "record"
    BY <1>12, Exclusive DEF Receive, Goto
  <2>4. ~PortReuse => buff'.answers = Zone[threadLock - 1]
    BY <1>12, <2>1 DEF Receive, Goto
  <2>5. pc'[t] = "record"
    BY <1>12 DEF Receive, Goto
  <2> QED
    BY <2>2, <2>3, <2>4, <2>5
<1>13. ASSUME NEW t \in Threads, Timeout(t) PROVE (~PortReuse => HeardKept)'
  BY <1>13 DEF Timeout, Goto, shared
<1>14. ASSUME NEW t \in Threads, Record(t) PROVE (~PortReuse => HeardKept)'
  <2>1. /\ UNCHANGED <<heard, threadLock>>
        /\ aResult' = aResult \cup Resolved(t)
        /\ pc[t] = "record" /\ threadLock \in Int
        /\ hostBuff[t] = <<threadLock - 1>>
    BY <1>14 DEF Record, Goto, Names
  <2>2. ASSUME ~PortReuse, NEW h \in heard PROVE
          \A a \in Zone[h[1]] \cap Addresses : <<h[1] + 1, h, a>> \in aResult'
    <3>1. CASE \A a \in Zone[h[1]] \cap Addresses : <<h[1] + 1, h, a>> \in aResult
      BY <2>1, <3>1
    <3>2. CASE h = <<threadLock - 1>> /\ buff.answers = Zone[threadLock - 1]
      <4>1. h[1] = threadLock - 1 /\ h[1] + 1 = threadLock
        BY <2>1, <3>2
      <4> QED
        BY <2>1, <3>2, <4>1 DEF Resolved
    <3> QED
      BY <2>2, <3>1, <3>2
  <2> QED
    BY <2>1, <2>2
<1>15. CASE Discard
  BY <1>15 DEF Discard, poolVars
<1>16. CASE UNCHANGED vars
  BY <1>16 DEF vars, poolVars, shared
<1> QED
  BY <1>1, <1>2, <1>3, <1>4, <1>5, <1>6, <1>7, <1>8,
     <1>9, <1>10, <1>11, <1>12, <1>13, <1>14, <1>15, <1>16
     DEF Next, Pool, PoolNext, Worker, Ended

LEMMA NextIInv == IInv /\ [Next]_vars => IInv'
<1>1. IInv /\ [Next]_vars => (~PortReuse => NoMixup)'
  BY NextAnswersOwned, NextResultsBelong, NextHeardKept DEF NoMixup
<1> QED
  BY <1>1, NextTypeOK, NextGuarded, NextPoolInOrder, NextBuffersClean,
     NextBuffersOwned, NextOverrun, NextAlone DEF IInv

LEMMA Invariant == Spec => []IInv
  BY InitIInv, NextIInv, PTL DEF Spec
-----------------------------------------------------------------------------
(* Every reachable state has well-typed variables; threadLock stays among  *)
(* the numbers that names are given.                                       *)
THEOREM TypeCorrect == Spec => []TypeOK
<1>1. IInv => TypeOK
  BY DEF IInv
<1> QED
  BY <1>1, Invariant, PTL

(* The unguarded check of the while condition costs at most one entry for  *)
(* every worker but one, for every dictionary and number of threads.       *)
THEOREM OverrunBounded == Spec => []OverrunBound
<1>1. ASSUME IInv PROVE OverrunBound
  <2>1. IsFiniteSet(Stale) /\ Cardinality(Stale) \in Nat
    BY ThreadsFinite, FS_Subset, FS_CardinalityType DEF Stale
  <2>2. threadLock \in Nat /\ SubdomainCount \in Nat /\ Cardinality(Threads) \in Nat
    BY <1>1, ThreadsFinite, DnsAssumption DEF IInv, TypeOK, Names
  <2>3. CASE threadLock >= SubdomainCount
    BY <1>1, <2>1, <2>2, <2>3 DEF IInv, Overrun, OverrunBound
  <2>4. CASE threadLock < SubdomainCount /\ Cardinality(Threads) # 0
    BY <2>2, <2>4 DEF OverrunBound
  <2>5. CASE Cardinality(Threads) = 0
    BY <2>2, <2>5, <2>3 DEF OverrunBound
  <2> QED
    BY <2>2, <2>3, <2>4, <2>5
<1> QED
  BY <1>1, Invariant, PTL

(* With one worker no access is beyond the dictionary.                     *)
THEOREM OneWorkerStaysInside ==
  ASSUME SetThreads(ThreadNum) = 1 PROVE Spec => []InDictionary
<1>1. Cardinality(Threads) = 1
  BY ThreadsFinite
<1>2. IInv => InDictionary
  BY <1>1 DEF IInv, Alone, Stale, Inside, InDictionary
<1> QED
  BY <1>2, Invariant, PTL

(* All workers are out of their function, the mutex is free and the socket *)
(* closed when runThread returns.                                          *)
THEOREM QuietAtTheEnd == Spec => []QuietWhenDone
<1>1. ASSUME IInv, caller = "done" PROVE \A t \in Threads : pc[t] = "exited"
  BY <1>1, AllJoined DEF IInv, TypeOK
<1>2. ASSUME IInv, caller = "done" PROVE mutex = NoThread
  BY <1>1, <1>2 DEF IInv, TypeOK, Guarded, Critical
<1>3. IInv => QuietWhenDone
  BY <1>1, <1>2 DEF IInv, BuffersClean, QuietWhenDone
<1> QED
  BY <1>3, Invariant, PTL

(* Unless the kernel reuses a port too early, what the scan records is     *)
(* what the name server answered about that name.                          *)
THEOREM RecordsBelong == ASSUME ~PortReuse PROVE Spec => []ResultsBelong
<1>1. IInv => ResultsBelong
  BY DEF IInv, NoMixup
<1> QED
  BY <1>1, Invariant, PTL

(* Under the same assumption no answer that was received is lost.          *)
THEOREM RecordsComplete == ASSUME ~PortReuse PROVE Spec => []CompleteWhenDone
<1>1. ASSUME IInv, caller = "done" PROVE \A t \in Threads : pc[t] = "exited"
  BY <1>1, AllJoined DEF IInv, TypeOK
<1>2. IInv => CompleteWhenDone
  BY <1>1 DEF IInv, NoMixup, HeardKept, CompleteWhenDone
<1> QED
  BY <1>2, Invariant, PTL
-----------------------------------------------------------------------------
(***************************************************************************)
(* The name scan implements WorkQueue with one worker or more: every entry *)
(* of the dictionary is handed out once and in order, all workers but one  *)
(* are handed at most one number beyond it, and runThread returns only     *)
(* when all were dealt with.                                               *)
(***************************************************************************)
(* Workers leave the loop only at the end of the dictionary.               *)
LeftAtEnd == \A t \in Threads : pc[t] = "exited" => ~Inside

QInv == IInv /\ LeftAtEnd

LEMMA Counts ==
  ASSUME IInv
  PROVE  /\ threadLock \in Nat /\ SubdomainCount \in Nat
         /\ pc \in [Threads -> Locations \cup {"new", "exited"}]
BY ThreadsFinite, DnsAssumption DEF IInv, TypeOK, PoolTypeOK, Names

LEMMA NextLeftAtEnd == QInv /\ [Next]_vars => LeftAtEnd'
<1> SUFFICES ASSUME IInv, LeftAtEnd, [Next]_vars PROVE LeftAtEnd'
  BY DEF QInv
<1> USE Counts DEF LeftAtEnd, Inside
<1>1. CASE Pool
  BY <1>1 DEF Pool, PoolNext, Spawn, SpawnFails, SpawnDone, Join, JoinDone, shared
<1>2. ASSUME NEW t \in Threads, While(t) PROVE LeftAtEnd'
  BY <1>2 DEF While, Goto, shared
<1>3. ASSUME NEW t \in Threads, Claim(t) PROVE LeftAtEnd'
  BY <1>3 DEF Claim, Goto, shared
<1>4. ASSUME NEW t \in Threads,
             Lock(t) \/ ClaimCrashes(t) \/ Request(t) \/ SendFails(t)
               \/ Receive(t) \/ Timeout(t) \/ Record(t)
      PROVE  LeftAtEnd'
  BY <1>4 DEF Lock, ClaimCrashes, Request, SendFails, Receive, Timeout, Record,
              Goto, shared
<1>5. CASE Discard \/ UNCHANGED vars
  BY <1>5 DEF Discard, vars, poolVars
<1> QED
  BY <1>1, <1>2, <1>3, <1>4, <1>5 DEF Next, Worker, Ended

LEMMA QInvariant == Spec => []QInv
<1>1. Init => LeftAtEnd
  BY DEF Init, PoolInit, LeftAtEnd
<1> QED
  BY <1>1, InitIInv, NextIInv, NextLeftAtEnd, PTL DEF Spec, QInv
-----------------------------------------------------------------------------
(* When nothing that the queue sees of a step changes, it is a stutter.    *)
LEMMA Unseen ==
  ASSUME threadLock' = threadLock, InHand' = InHand,
         caller' = "done" <=> caller = "done"
  PROVE  UNCHANGED Queue!queueVars
BY DEF Queue!queueVars

(* A worker has the entry before the counter in hand, or nobody has one.   *)
LEMMA InHandIs ==
  /\ (\E t \in Threads : pc[t] \in Asked) => InHand = {threadLock - 1}
  /\ (\A t \in Threads : pc[t] \notin Asked) => InHand = {}
BY DEF InHand, Asked

LEMMA SameInHand ==
  ASSUME threadLock' = threadLock,
         \A t \in Threads : pc'[t] \in Asked <=> pc[t] \in Asked
  PROVE  InHand' = InHand
BY DEF InHand, Asked

(* Claim hands out an entry, or a number close beyond the last one.        *)
LEMMA ClaimTakes ==
  ASSUME SetThreads(ThreadNum) >= 1, QInv, NEW t \in Threads, Claim(t)
  PROVE  Queue!Take
<1> USE Counts DEF QInv
<1>1. /\ pc[t] = "claim" /\ pc' = [pc EXCEPT ![t] = "request"]
      /\ caller' = caller /\ threadLock' = threadLock + 1
  BY DEF Claim, Goto
<1>2. InHand = {}
  <2>1. \A u \in Threads : pc[u] \notin Asked
    BY <1>1, Exclusive DEF Asked, Critical
  <2> QED
    BY <2>1, InHandIs
<1>3. InHand' = {threadLock}
  <2>1. pc'[t] \in Asked
    BY <1>1 DEF Asked
  <2>2. InHand' = {threadLock' - 1}
    BY <2>1 DEF InHand, Asked
  <2> QED
    BY <1>1, <2>2
<1>4. caller # "done"
  BY <1>1, ThreadsFinite DEF IInv, PoolInOrder, TypeOK, PoolTypeOK, Threads
<1>5. threadLock < SubdomainCount + (Cardinality(Threads) - 1)
  BY <1>1, ClaimInRange, ThreadsFinite DEF Inside
<1> QED
  BY <1>1, <1>2, <1>3, <1>4, <1>5 DEF Queue!Take

(* Record finishes what Claim handed out.                                  *)
LEMMA RecordFinishes ==
  ASSUME QInv, NEW t \in Threads, Record(t) PROVE Queue!Finish
<1> USE Counts DEF QInv
<1>1. /\ pc[t] = "record" /\ pc' = [pc EXCEPT ![t] = "while"]
      /\ caller' = caller /\ threadLock' = threadLock
  BY DEF Record, Goto
<1>2. InHand = {threadLock - 1}
  BY <1>1, InHandIs DEF Asked
<1>3. InHand' = {}
  <2>1. \A u \in Threads : pc[u] \in Critical => u = t
    BY <1>1, Exclusive DEF Critical
  <2>2. \A u \in Threads : pc'[u] \notin Asked
    BY <1>1, <2>1 DEF Asked, Critical
  <2> QED
    BY <2>2 DEF InHand, Asked
<1> QED
  BY <1>1, <1>2, <1>3 DEF Queue!Finish

(* setJoin returns when every entry was handed out and dealt with.         *)
LEMMA JoinCloses ==
  ASSUME SetThreads(ThreadNum) >= 1, QInv, Pool, JoinDone
  PROVE  Queue!Close
<1> USE Counts DEF QInv
<1>1. /\ caller = "join" /\ caller' = "done" /\ joined >= SetThreads(ThreadNum)
      /\ pc' = pc /\ threadLock' = threadLock
  BY ThreadsFinite DEF Pool, JoinDone, MoreToJoin, IInv, TypeOK, PoolTypeOK
<1>2. \A t \in Threads : pc[t] = "exited"
  BY <1>1, ThreadsFinite DEF IInv, PoolInOrder, TypeOK, PoolTypeOK, Threads
<1>3. InHand = {} /\ InHand' = {}
  BY <1>1, <1>2 DEF InHand
<1>4. ~Inside
  <2>1. 0 \in Threads
    BY ThreadsFinite DEF Threads
  <2> QED
    BY <1>2, <2>1 DEF LeftAtEnd
<1> QED
  BY <1>1, <1>3, <1>4 DEF Queue!Close, Inside

LEMMA StepImplements ==
  ASSUME SetThreads(ThreadNum) >= 1
  PROVE  QInv /\ [Next]_vars => [Queue!Next]_Queue!queueVars
<1> SUFFICES ASSUME QInv, [Next]_vars PROVE [Queue!Next]_Queue!queueVars
  OBVIOUS
<1> USE Counts DEF QInv
<1>1. CASE Pool /\ Spawn("while")
  <2>1. \A t \in Threads : pc'[t] \in Asked <=> pc[t] \in Asked
    BY <1>1, ThreadsFinite
       DEF Pool, Spawn, MoreToStart, Asked, IInv, PoolInOrder, TypeOK, PoolTypeOK, Threads
  <2> QED
    BY <1>1, <2>1, SameInHand, Unseen DEF Pool, Spawn
<1>2. CASE Pool /\ (SpawnFails \/ SpawnDone \/ Join)
  BY <1>2, SameInHand, Unseen DEF Pool, SpawnFails, SpawnDone, Join
<1>3. CASE Pool /\ JoinDone
  BY <1>3, JoinCloses DEF Queue!Next
<1>4. ASSUME NEW t \in Threads, Claim(t) PROVE [Queue!Next]_Queue!queueVars
  BY <1>4, ClaimTakes DEF Queue!Next
<1>5. ASSUME NEW t \in Threads, Record(t) PROVE [Queue!Next]_Queue!queueVars
  BY <1>5, RecordFinishes DEF Queue!Next
<1>6. ASSUME NEW t \in Threads,
             While(t) \/ Lock(t) \/ Request(t) \/ SendFails(t) \/ Receive(t) \/ Timeout(t)
      PROVE  [Queue!Next]_Queue!queueVars
  <2>1. threadLock' = threadLock /\ caller' = caller
    BY <1>6 DEF While, Lock, Request, SendFails, Receive, Timeout, Goto
  <2>2. \A u \in Threads : pc'[u] \in Asked <=> pc[u] \in Asked
    BY <1>6 DEF While, Lock, Request, SendFails, Receive, Timeout, Goto, Asked
  <2> QED
    BY <2>1, <2>2, SameInHand, Unseen
<1>7. ASSUME NEW t \in Threads, ClaimCrashes(t) PROVE [Queue!Next]_Queue!queueVars
  <2>1. caller # "done"
    BY <1>7, ThreadsFinite
       DEF ClaimCrashes, IInv, PoolInOrder, TypeOK, PoolTypeOK, Threads
  <2> QED
    BY <1>7, <2>1, SameInHand, Unseen DEF ClaimCrashes
<1>8. CASE Discard \/ UNCHANGED vars
  BY <1>8, SameInHand, Unseen DEF Discard, vars, poolVars
<1> QED
  BY <1>1, <1>2, <1>3, <1>4, <1>5, <1>6, <1>7, <1>8
     DEF Next, Pool, PoolNext, Worker, Ended

(* With at least one worker the scan hands out the dictionary as promised: *)
(* each entry once, in order, and runThread returns when all are done.     *)
(* With none, as threads = 0 in pls.conf makes it, it returns at once.     *)
THEOREM ScanImplementsQueue ==
  ASSUME SetThreads(ThreadNum) >= 1 PROVE Spec => HandsOutDictionary
<1>1. Init => Queue!Init
  <2> SUFFICES ASSUME Init PROVE Queue!Init
    OBVIOUS
  <2>1. threadLock = 0 /\ caller = "spawn" /\ \A t \in Threads : pc[t] = "new"
    BY DEF Init, PoolInit
  <2>2. InHand = {}
    BY <2>1 DEF InHand
  <2> QED
    BY <2>1, <2>2 DEF Queue!Init
<1>2. QInv /\ [Next]_vars => [Queue!Next]_Queue!queueVars
  BY StepImplements
<1> QED
  BY <1>1, <1>2, QInvariant, PTL DEF Spec, HandsOutDictionary, Queue!Spec
=============================================================================
