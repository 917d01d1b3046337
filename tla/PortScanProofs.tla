---------------------------- MODULE PortScanProofs ----------------------------
(***************************************************************************)
(* The safety of the port scans, for any number of workers, ports and      *)
(* hosts, wherever the allocator puts the lists.  Of every scan: the types *)
(* are right and nobody is left when runThread returns.  Of the first one, *)
(* which sets the static iterator: FirstInOrder says that the iterator     *)
(* stays in the list, and how far it came is how many ports were tried.    *)
(***************************************************************************)
EXTENDS PortScan, MythreadProofs

(* The worker in the critical section is the holder of the mutex.          *)
Guarded == \A t \in Threads : pc[t] \in Critical <=> mutex = t

Position == IF it = Unset THEN 0 ELSE it - base

FirstN(n) == [k \in 1 .. n |-> k]

FirstInOrder ==
  scan = 1 =>
    /\ it = Unset \/ it \in base .. End
    /\ tried = FirstN(Position)
    /\ \A t \in Threads :
         /\ pc[t] \notin {"new", "static"} => it # Unset
         /\ pc[t] = "connect" => it > base /\ port[t] = it - base
         /\ pc[t] = "exited" => it = End

IInv ==
  /\ TypeOK
  /\ PoolInOrder
  /\ Guarded
  /\ FirstInOrder
  /\ OpenPortsAreReal
-----------------------------------------------------------------------------
LEMMA AppendNext ==
  ASSUME NEW n \in Nat PROVE Append(FirstN(n), n + 1) = FirstN(n + 1)
<1>1. FirstN(n) \in Seq(Nat) /\ Len(FirstN(n)) = n
  BY DEF FirstN
<1> QED
  BY <1>1 DEF FirstN

LEMMA ToSetAppend ==
  ASSUME NEW S, NEW s \in Seq(S), NEW e \in S
  PROVE  ToSet(Append(s, e)) = ToSet(s) \cup {e}
<1>1. /\ DOMAIN s = 1 .. Len(s) /\ Len(s) \in Nat
      /\ DOMAIN Append(s, e) = 1 .. Len(s) + 1
      /\ \A i \in 1 .. Len(s) : Append(s, e)[i] = s[i]
      /\ Append(s, e)[Len(s) + 1] = e
  OBVIOUS
<1> QED
  BY <1>1 DEF ToSet

LEMMA InitIInv == Init => IInv
<1> SUFFICES ASSUME Init PROVE IInv
  OBVIOUS
<1>1. TypeOK
  BY ThreadsFinite, PortAssumption DEF Init, PoolInit, TypeOK, PoolTypeOK, Stray
<1>2. PoolInOrder
  BY PoolStarts DEF Init
<1>3. Guarded
  BY DEF Init, PoolInit, Guarded, Critical, NoThread, Threads
<1>4. FirstInOrder
  <2>1. << >> = FirstN(0)
    BY DEF FirstN
  <2> QED
    BY <2>1 DEF Init, PoolInit, FirstInOrder, Position
<1>5. OpenPortsAreReal
  BY DEF Init, OpenPortsAreReal, ToSet
<1> QED
  BY <1>1, <1>2, <1>3, <1>4, <1>5 DEF IInv

(* The types as the provers need them.                                     *)
LEMMA Types ==
  ASSUME IInv
  PROVE  /\ PoolTypeOK(Locations)
         /\ pc \in [Threads -> Locations \cup {"new", "exited"}]
         /\ scan \in Nat /\ scan >= 1
         /\ base \in Nat /\ PortCount \in Nat \ {0} /\ End \in Nat
         /\ it \in Nat \/ it = Unset
BY PortAssumption DEF IInv, TypeOK, PoolTypeOK, End

(* Nobody is at work any more when runThread returns.                      *)
LEMMA Quiet ==
  ASSUME IInv, caller = "done"
  PROVE  mutex = NoThread /\ \A t \in Threads : pc[t] = "exited"
<1>1. \A t \in Threads : pc[t] = "exited"
  BY Types, AllJoined DEF IInv
<1> QED
  BY <1>1 DEF IInv, TypeOK, Guarded, Critical

LEMMA ValuesTyped == ASSUME NEW a \in Int, IInv PROVE ValuesAt(a) \subseteq 0 .. Stray
BY Types DEF ValuesAt, Stray, End

(* In the first scan Claim takes the next port.                            *)
LEMMA ClaimsNext ==
  ASSUME IInv, scan = 1, NEW t \in Threads, pc[t] = "claim", ~Exhausted
  PROVE  it \in Nat /\ it \in base .. End - 1 /\ ValuesAt(it) = {it - base + 1}
BY Types DEF IInv, FirstInOrder, Exhausted, ValuesAt, Unset

LEMMA NextTypeOK == IInv /\ [Next]_vars => TypeOK' /\ PoolInOrder'
<1> SUFFICES ASSUME IInv, [Next]_vars PROVE TypeOK' /\ PoolInOrder'
  OBVIOUS
<1>0. TypeOK /\ PoolInOrder
  BY DEF IInv
<1>1. ASSUME NEW t \in Threads, NEW from \in Locations,
             NEW to \in Locations \cup {"exited"}, Goto(t, from, to)
      PROVE  PoolTypeOK(Locations)' /\ PoolInOrder'
  <2>1. "new" \notin Locations /\ "exited" \notin Locations
    BY DEF Locations
  <2> QED
    BY <1>0, <1>1, <2>1, WorkerStep DEF Goto, TypeOK
<1>2. CASE Pool
  BY <1>0, <1>2, CallerStep DEF Pool, TypeOK, Locations
<1>3. ASSUME NEW t \in Threads, Static(t) \/ While(t) \/ Lock(t) \/ Leave(t)
      PROVE  TypeOK' /\ PoolInOrder'
  BY <1>0, <1>1, <1>3, PortAssumption
     DEF Static, While, Lock, Leave, TypeOK, Locations
<1>4. ASSUME NEW t \in Threads, Claim(t) PROVE TypeOK' /\ PoolInOrder'
  <2>1. PoolTypeOK(Locations)' /\ PoolInOrder'
    BY <1>1, <1>4 DEF Claim, Locations
  <2>2. PICK p \in ValuesAt(it) \ {0} : port' = [port EXCEPT ![t] = p]
                                       /\ tried' = Append(tried, p)
    BY <1>4 DEF Claim
  <2>3. p \in 0 .. Stray /\ p \in PortNumbers \cup {Stray}
    BY <2>2, Types, ValuesTyped DEF Unset, Stray, PortNumbers
  <2>4. it' \in Nat \cup {Unset}
    BY <1>4, Types DEF Claim, Unset
  <2>5. tried' \in Seq(PortNumbers \cup {Stray})
    BY <1>0, <2>2, <2>3 DEF TypeOK
  <2> QED
    BY <1>0, <1>4, <2>1, <2>2, <2>3, <2>4, <2>5 DEF Claim, TypeOK
<1>5. ASSUME NEW t \in Threads, Connect(t) PROVE TypeOK' /\ PoolInOrder'
  <2>1. PoolTypeOK(Locations)' /\ PoolInOrder'
    BY <1>1, <1>5 DEF Connect, Locations
  <2>2. Listening[scan] \subseteq PortNumbers \cup {Stray}
    BY <1>0, PortAssumption DEF TypeOK
  <2>3. openList' \in Seq(PortNumbers \cup {Stray})
    BY <1>0, <1>5, <2>2 DEF Connect, TypeOK
  <2> QED
    BY <1>0, <1>5, <2>1, <2>3 DEF Connect, TypeOK
<1>6. CASE NextHost
  <2>1. PoolTypeOK(Locations)' /\ PoolInOrder'
    BY <1>6, ThreadsFinite DEF NextHost, PoolTypeOK, PoolInOrder, Threads
  <2> QED
    BY <1>0, <1>6, <2>1, Types, PortAssumption DEF NextHost, TypeOK, Stray
<1>7. CASE UNCHANGED vars
  BY <1>0, <1>7 DEF vars, poolVars, TypeOK, PoolTypeOK, PoolInOrder
<1> QED
  BY <1>2, <1>3, <1>4, <1>5, <1>6, <1>7 DEF Next, Worker, Ended

(* Mutual exclusion.                                                       *)
LEMMA NextGuarded == IInv /\ [Next]_vars => Guarded'
<1> SUFFICES ASSUME IInv, [Next]_vars PROVE Guarded'
  OBVIOUS
<1>0. Guarded /\ pc \in [Threads -> Locations \cup {"new", "exited"}]
  BY Types DEF IInv
<1> USE <1>0 DEF Guarded, Critical, NoThread, Threads
<1>1. CASE Pool
  <2>1. \A t \in Threads : pc'[t] \in Critical <=> pc[t] \in Critical
    <3>1. CASE Spawn("static")
      <4>1. started \in Threads /\ pc[started] = "new"
        BY <3>1, Types, ThreadsFinite
           DEF Spawn, MoreToStart, IInv, PoolInOrder, PoolTypeOK
      <4> QED
        BY <3>1, <4>1 DEF Spawn
    <3>2. CASE ~Spawn("static")
      BY <1>1, <3>2 DEF Pool, PoolNext, SpawnFails, SpawnDone, Join, JoinDone
    <3> QED
      BY <3>1, <3>2
  <2> QED
    BY <1>1, <2>1 DEF Pool
<1>2. ASSUME NEW t \in Threads, Static(t) \/ While(t) PROVE Guarded'
  BY <1>2 DEF Static, While, Goto
<1>3. ASSUME NEW t \in Threads, Lock(t) PROVE Guarded'
  BY <1>3 DEF Lock, Goto, Unlocked
<1>4. ASSUME NEW t \in Threads, Leave(t) PROVE Guarded'
  BY <1>4 DEF Leave, Goto
<1>5. ASSUME NEW t \in Threads, Claim(t) PROVE Guarded'
  BY <1>5 DEF Claim, Goto
<1>6. ASSUME NEW t \in Threads, Connect(t) PROVE Guarded'
  BY <1>6 DEF Connect, Goto
<1>7. CASE NextHost
  BY <1>7, Quiet DEF NextHost
<1>8. CASE UNCHANGED vars
  BY <1>8 DEF vars, poolVars
<1> QED
  BY <1>1, <1>2, <1>3, <1>4, <1>5, <1>6, <1>7, <1>8 DEF Next, Worker, Ended

(* The first scan goes through its list in order.                          *)
LEMMA NextFirstInOrder == IInv /\ [Next]_vars => FirstInOrder'
<1> SUFFICES ASSUME IInv, [Next]_vars PROVE FirstInOrder'
  OBVIOUS
<1>0. FirstInOrder /\ Guarded
  BY DEF IInv
<1> USE <1>0, Types DEF FirstInOrder, Position, Unset, End
<1>1. CASE Pool
  <2>1. \A t \in Threads : pc'[t] # pc[t] => pc'[t] = "static"
    BY <1>1 DEF Pool, PoolNext, Spawn, SpawnFails, SpawnDone, Join, JoinDone
  <2> QED
    BY <1>1, <2>1 DEF Pool
<1>2. ASSUME NEW t \in Threads, Static(t) PROVE FirstInOrder'
  BY <1>2 DEF Static, Goto
<1>3. ASSUME NEW t \in Threads, While(t) \/ Lock(t) \/ Leave(t) PROVE FirstInOrder'
  BY <1>3 DEF While, Lock, Leave, Goto, Exhausted, ValuesAt
<1>4. ASSUME NEW t \in Threads, Claim(t), scan = 1 PROVE FirstInOrder'
  <2>1. /\ pc[t] = "claim" /\ pc' = [pc EXCEPT ![t] = "connect"]
        /\ it' = it + 1 /\ UNCHANGED <<scan, base>> /\ ~Exhausted
    BY <1>4 DEF Claim, Goto
  <2>2. /\ it \in Nat /\ it \in base .. End - 1
        /\ port' = [port EXCEPT ![t] = it - base + 1]
        /\ tried' = Append(tried, it - base + 1)
    BY <1>4, <2>1, ClaimsNext DEF Claim
  <2>3. tried' = FirstN(Position')
    <3>1. it - base \in Nat /\ tried = FirstN(it - base)
      BY <1>4, <2>2
    <3>2. Append(FirstN(it - base), it - base + 1) = FirstN(it - base + 1)
      BY <3>1, AppendNext
    <3>3. Position' = it - base + 1
      BY <2>1, <2>2
    <3> QED
      BY <2>2, <3>1, <3>2, <3>3
  <2>4. \A u \in Threads : pc[u] \in Critical => u = t
    BY <2>1 DEF Guarded, Critical
  <2>5. \A u \in Threads : pc[u] # "exited"
    BY <1>4, <2>2
  <2>6. port[t] \in Int /\ port'[t] = it' - base
    BY <2>1, <2>2 DEF IInv, TypeOK
  <2> QED
    BY <2>1, <2>2, <2>3, <2>4, <2>5, <2>6 DEF Critical
<1>5. ASSUME NEW t \in Threads, Connect(t) PROVE FirstInOrder'
  BY <1>5 DEF Connect, Goto
<1>6. CASE NextHost
  BY <1>6 DEF NextHost
<1>7. CASE UNCHANGED vars
  BY <1>7 DEF vars, poolVars
<1>8. ASSUME NEW t \in Threads, Claim(t), scan # 1 PROVE FirstInOrder'
  BY <1>8 DEF Claim
<1> QED
  BY <1>1, <1>2, <1>3, <1>4, <1>5, <1>6, <1>7, <1>8 DEF Next, Worker, Ended

(* It reports no port that it did not try, or that is closed.              *)
LEMMA NextOpenPortsAreReal == IInv /\ [Next]_vars => OpenPortsAreReal'
<1> SUFFICES ASSUME IInv, [Next]_vars PROVE OpenPortsAreReal'
  OBVIOUS
<1>0. OpenPortsAreReal /\ TypeOK
  BY DEF IInv
<1>1. CASE UNCHANGED <<scan, openList, tried>>
  BY <1>0, <1>1 DEF OpenPortsAreReal
<1>2. ASSUME NEW t \in Threads, Claim(t) PROVE OpenPortsAreReal'
  <2>1. PICK p \in ValuesAt(it) \ {0} : tried' = Append(tried, p)
    BY <1>2 DEF Claim
  <2>2. p \in PortNumbers \cup {Stray}
    BY <2>1, Types, ValuesTyped DEF Unset, Stray, PortNumbers
  <2>3. ToSet(tried') = ToSet(tried) \cup {p}
    BY <1>0, <2>1, <2>2, ToSetAppend DEF TypeOK
  <2> QED
    BY <1>0, <1>2, <2>3 DEF Claim, OpenPortsAreReal
<1>3. ASSUME NEW t \in Threads, Connect(t) PROVE OpenPortsAreReal'
  <2>1. CASE UNCHANGED openList
    BY <1>0, <1>3, <2>1 DEF Connect, OpenPortsAreReal
  <2>2. CASE port[t] \in Listening[scan] /\ openList' = Append(openList, port[t])
    <3>1. Listening[scan] \subseteq PortNumbers \cup {Stray}
      BY <1>0, PortAssumption DEF TypeOK
    <3>2. ToSet(openList') = ToSet(openList) \cup {port[t]}
      BY <1>0, <2>2, <3>1, ToSetAppend DEF TypeOK
    <3>3. ASSUME scan = 1 PROVE port[t] \in PortNumbers /\ port[t] \in ToSet(tried)
      <4>1. /\ it \in Nat /\ it > base /\ it <= End /\ port[t] = it - base
            /\ tried = FirstN(it - base)
        BY <1>3, <3>3, Types DEF Connect, Goto, IInv, FirstInOrder, Position, Unset
      <4>2. port[t] \in 1 .. it - base /\ tried[port[t]] = port[t]
            /\ DOMAIN tried = 1 .. it - base
        BY <4>1, Types DEF FirstN
      <4> QED
        BY <4>1, <4>2, Types DEF ToSet, PortNumbers, End
    <3> QED
      BY <1>0, <1>3, <2>2, <3>2, <3>3 DEF Connect, OpenPortsAreReal
  <2> QED
    BY <1>3, <2>1, <2>2 DEF Connect
<1>4. CASE NextHost
  BY <1>4, Types DEF NextHost, OpenPortsAreReal
<1> QED
  BY <1>1, <1>2, <1>3, <1>4
     DEF Next, Pool, Worker, Static, While, Lock, Leave, Ended, vars

LEMMA Invariant == Spec => []IInv
<1>1. IInv /\ [Next]_vars => IInv'
  BY NextTypeOK, NextGuarded, NextFirstInOrder, NextOpenPortsAreReal DEF IInv
<1> QED
  BY <1>1, InitIInv, PTL DEF Spec
-----------------------------------------------------------------------------
(* The variables of all scans of a job stay well typed.                    *)
THEOREM TypeCorrect == Spec => []TypeOK
<1>1. IInv => TypeOK
  BY DEF IInv
<1> QED
  BY <1>1, Invariant, PTL

(* In every scan, whatever the stale iterator points to, the object is     *)
(* deleted only when no worker uses it or holds its mutex.                 *)
THEOREM QuietAtTheEnd == Spec => []QuietWhenDone
<1>1. IInv => QuietWhenDone
  BY Quiet DEF QuietWhenDone
<1> QED
  BY <1>1, Invariant, PTL

(* The first scan reports only ports that it tried and that are open.      *)
THEOREM OpenIsOpen == Spec => []OpenPortsAreReal
<1>1. IInv => OpenPortsAreReal
  BY DEF IInv
<1> QED
  BY <1>1, Invariant, PTL

(* With at least one worker, the first scan tries every port, in order and *)
(* once each; with none, as threads = 0 makes it, it tries nothing.        *)
THEOREM FirstScanTriesAll ==
  ASSUME SetThreads(ThreadNum) >= 1 PROVE Spec => []FirstScanComplete
<1>1. ASSUME IInv, scan = 1, caller = "done" PROVE tried = [k \in PortNumbers |-> k]
  <2>1. 0 \in Threads
    BY ThreadsFinite DEF Threads
  <2>2. it = End
    BY <1>1, <2>1, Quiet DEF IInv, FirstInOrder
  <2>3. Position = PortCount
    BY <1>1, <2>2, Types DEF Position, End, Unset
  <2> QED
    BY <1>1, <2>3 DEF IInv, FirstInOrder, FirstN, PortNumbers
<1>2. IInv => FirstScanComplete
  BY <1>1 DEF FirstScanComplete, AllPortsTried
<1> QED
  BY <1>2, Invariant, PTL
-----------------------------------------------------------------------------
(* What the queue sees of a state.                                         *)
Seen == <<IF ~First THEN PortCount ELSE Position, IF First THEN InHand ELSE {},
          First => caller = "done">>

(* A worker has the port before the iterator in hand, or nobody has one.   *)
LEMMA InHandIs ==
  /\ (\E t \in Threads : pc[t] = "connect") => InHand = {it - base - 1}
  /\ (\A t \in Threads : pc[t] # "connect") => InHand = {}
BY DEF InHand

LEMMA SeenIsSeen == Queue!queueVars = Seen /\ (Queue!queueVars)' = Seen'
BY DEF Queue!queueVars, Seen, Position

LEMMA SameSeen ==
  ASSUME IInv, UNCHANGED <<scan, base>>, it' = it \/ (it = Unset /\ it' = base),
         \A t \in Threads : pc'[t] = "connect" <=> pc[t] = "connect",
         scan = 1 => (caller' = "done" <=> caller = "done")
  PROVE  UNCHANGED Queue!queueVars
<1>1. First' = First
  BY DEF First
<1>2. First => (First => caller = "done")' = (First => caller = "done")
  BY DEF First
<1>3. First => Position' = Position
  BY Types DEF Position, Unset
<1>4. First => InHand' = InHand
  <2>1. CASE it' = it
    BY <2>1 DEF InHand
  <2>2. CASE it = Unset
    <3>1. First => \A t \in Threads : pc[t] # "connect"
      BY <2>2 DEF First, IInv, FirstInOrder
    <3>2. First => InHand = {} /\ InHand' = {}
      BY <3>1 DEF InHand
    <3> QED
      BY <3>2
  <2> QED
    BY <2>1, <2>2
<1>5. Seen' = Seen
  BY <1>1, <1>2, <1>3, <1>4 DEF Seen
<1> QED
  BY <1>5, SeenIsSeen

(* Nobody has anything in hand that the mutex would not tell.              *)
LEMMA Alone ==
  ASSUME IInv, NEW t \in Threads, pc[t] \in Critical,
         NEW u \in Threads, pc[u] \in Critical
  PROVE  u = t
BY DEF IInv, Guarded

LEMMA NotDone ==
  ASSUME IInv, NEW t \in Threads, pc[t] # "exited" PROVE caller # "done"
BY Quiet

LEMMA ClaimTakes ==
  ASSUME IInv, scan = 1, NEW t \in Threads, Claim(t)
  PROVE  Queue!Take
<1>1. /\ pc[t] = "claim" /\ pc' = [pc EXCEPT ![t] = "connect"]
      /\ caller' = caller /\ it' = it + 1 /\ UNCHANGED <<scan, base>> /\ ~Exhausted
  BY DEF Claim, Goto
<1>2. it \in Nat /\ it \in base .. End - 1
  BY <1>1, ClaimsNext
<1>3. InHand = {}
  <2>1. \A u \in Threads : pc[u] # "connect"
    BY <1>1, Alone DEF Critical
  <2> QED
    BY <2>1, InHandIs
<1>4. InHand' = {it - base}
  <2>1. pc'[t] = "connect"
    BY <1>1, Types
  <2>2. InHand' = {it' - base' - 1}
    BY <2>1 DEF InHand
  <2>3. it' - base' - 1 = it - base
    BY <1>1, <1>2, Types
  <2> QED
    BY <2>2, <2>3
<1>5. caller # "done"
  BY <1>1, NotDone
<1>6. /\ it # Unset /\ it' # Unset
      /\ it - base < PortCount + 0 /\ it' - base' = it - base + 1
  BY <1>1, <1>2, Types DEF Unset, End
<1> QED
  BY <1>1, <1>3, <1>4, <1>5, <1>6 DEF Queue!Take, First

LEMMA ConnectFinishes ==
  ASSUME IInv, scan = 1, NEW t \in Threads, Connect(t)
  PROVE  Queue!Finish
<1>1. /\ pc[t] = "connect" /\ pc' = [pc EXCEPT ![t] = "while"]
      /\ caller' = caller /\ UNCHANGED <<scan, base, it>>
  BY DEF Connect, Goto
<1>2. InHand = {it - base - 1}
  BY <1>1, InHandIs
<1>3. InHand' = {}
  <2>1. \A u \in Threads : pc'[u] # "connect"
    BY <1>1, Types, Alone DEF Critical
  <2> QED
    BY <2>1 DEF InHand
<1> QED
  BY <1>1, <1>2, <1>3 DEF Queue!Finish, First

LEMMA JoinCloses ==
  ASSUME IInv, SetThreads(ThreadNum) >= 1, scan = 1, Pool, JoinDone
  PROVE  Queue!Close
<1>1. /\ caller = "join" /\ caller' = "done" /\ joined >= SetThreads(ThreadNum)
      /\ pc' = pc /\ UNCHANGED <<scan, base, it>>
  BY Types, ThreadsFinite DEF Pool, JoinDone, MoreToJoin, PoolTypeOK
<1>2. \A t \in Threads : pc[t] = "exited"
  BY <1>1, Types, ThreadsFinite DEF IInv, PoolInOrder, PoolTypeOK, Threads
<1>3. InHand = {} /\ InHand' = {}
  BY <1>1, <1>2 DEF InHand
<1>4. /\ it = End /\ it # Unset
      /\ it - base = PortCount /\ it - base >= PortCount
  <2>1. 0 \in Threads
    BY ThreadsFinite DEF Threads
  <2> QED
    BY <1>2, <2>1, Types DEF IInv, FirstInOrder, End, Unset
<1> QED
  BY <1>1, <1>3, <1>4 DEF Queue!Close, First

LEMMA StepImplements ==
  ASSUME SetThreads(ThreadNum) >= 1
  PROVE  IInv /\ [Next]_vars => [Queue!Next]_Queue!queueVars
<1> SUFFICES ASSUME IInv, [Next]_vars PROVE [Queue!Next]_Queue!queueVars
  OBVIOUS
<1>1. CASE scan # 1 /\ scan' # 1
  BY <1>1, SeenIsSeen DEF Seen, First
<1>2. ASSUME scan = 1, Pool, ~JoinDone PROVE UNCHANGED Queue!queueVars
  <2>1. \A t \in Threads : pc'[t] = "connect" <=> pc[t] = "connect"
    <3>1. CASE Spawn("static")
      <4>1. started \in Threads /\ pc[started] = "new"
        BY <3>1, Types, ThreadsFinite
           DEF Spawn, MoreToStart, IInv, PoolInOrder, PoolTypeOK, Threads
      <4> QED
        BY <3>1, <4>1, Types DEF Spawn
    <3>2. CASE ~Spawn("static")
      BY <1>2, <3>2 DEF Pool, PoolNext, SpawnFails, SpawnDone, Join
    <3> QED
      BY <3>1, <3>2
  <2>2. (caller' = "done" <=> caller = "done") /\ UNCHANGED <<scan, base, it>>
    BY <1>2 DEF Pool, PoolNext, Spawn, SpawnFails, SpawnDone, Join
  <2> QED
    BY <2>1, <2>2, SameSeen
<1>3. ASSUME NEW t \in Threads, Static(t) \/ While(t) \/ Lock(t) \/ Leave(t)
      PROVE  UNCHANGED Queue!queueVars
  <2>1. \A u \in Threads : pc'[u] = "connect" <=> pc[u] = "connect"
    BY <1>3, Types DEF Static, While, Lock, Leave, Goto
  <2>2. /\ UNCHANGED <<scan, base, caller>>
        /\ it' = it \/ (it = Unset /\ it' = base)
    BY <1>3 DEF Static, While, Lock, Leave, Goto
  <2> QED
    BY <2>1, <2>2, SameSeen
<1>4. ASSUME scan = 1, NextHost PROVE UNCHANGED Queue!queueVars
  <2>1. caller = "done" /\ scan' = 2
    BY <1>4 DEF NextHost
  <2>2. \A t \in Threads : pc[t] = "exited"
    BY <2>1, Quiet
  <2>3. InHand = {}
    BY <2>2, InHandIs
  <2>4. Position = PortCount
    <3>1. 0 \in Threads
      BY ThreadsFinite DEF Threads
    <3> QED
      BY <1>4, <2>2, <3>1, Types DEF IInv, FirstInOrder, Position, End, Unset
  <2> QED
    BY <1>4, <2>1, <2>3, <2>4, SeenIsSeen DEF Seen, First
<1>5. CASE UNCHANGED vars
  <2>1. Seen' = Seen
    BY <1>5 DEF vars, poolVars, Seen, First, Position, InHand
  <2> QED
    BY <2>1, SeenIsSeen
<1>6. CASE scan = 1
  BY <1>2, <1>3, <1>4, <1>5, <1>6, ClaimTakes, ConnectFinishes, JoinCloses
     DEF Next, Pool, Worker, Ended, Queue!Next
<1>7. scan # 1 => scan' # 1
  BY Types DEF Next, Pool, Worker, Static, While, Lock, Leave, Claim, Connect,
               NextHost, Ended, vars
<1> QED
  BY <1>1, <1>6, <1>7

(* With at least one worker the first scan hands out its ports as promised, *)
(* and the later scans, stale as they are, do nothing to that.              *)
THEOREM FirstScanImplementsQueue ==
  ASSUME SetThreads(ThreadNum) >= 1 PROVE Spec => HandsOutPorts
<1>1. Init => Queue!Init
  <2> SUFFICES ASSUME Init PROVE Queue!Init
    OBVIOUS
  <2>1. scan = 1 /\ it = Unset /\ caller = "spawn" /\ \A t \in Threads : pc[t] = "new"
    BY DEF Init, PoolInit
  <2>2. InHand = {}
    BY <2>1, InHandIs
  <2> QED
    BY <2>1, <2>2 DEF Queue!Init, First
<1>2. IInv /\ [Next]_vars => [Queue!Next]_Queue!queueVars
  BY StepImplements
<1> QED
  BY <1>1, <1>2, Invariant, PTL DEF Spec, HandsOutPorts, Queue!Spec
=============================================================================
