------------------------------ MODULE PortScan ------------------------------
(***************************************************************************)
(* MyportScan::runThread and the worker it starts on every thread of a     *)
(* Mythread, MyportScan::_scanPort: try to connect to every port of        *)
(* _portList and collect the open ones in _openList, the body of the loop  *)
(* under _portScanMutex.  A job makes one scan after another, each with a  *)
(* MyportScan of its own, of the hosts that were resolved.                 *)
(*                                                                         *)
(* The iterator _it that numbers the next port is a function-local static: *)
(* it is set to the begin of the first scan's _portList, and the later     *)
(* scans go on with what it holds, an address in memory that was freed.    *)
(* So memory is modelled: the elements of the current _portList are at the *)
(* addresses base .. base+PortCount-1, base is wherever the allocator puts *)
(* it, and every other address holds any value, 0 included.  An element's  *)
(* value is the number of the port, 1 .. PortCount, in the order of the    *)
(* addPort calls; Stray is some other port number.                         *)
(***************************************************************************)
EXTENDS Mythread, Sequences, SequencesExt

CONSTANTS
  PortCount,   (* how many ports addPort was called with                   *)
  Hosts,       (* how many hosts the job scans, one after the other        *)
  Bases,       (* the addresses the allocator may put a _portList at       *)
  Listening    (* the ports that accept connections, for each host         *)

PortNumbers == 1 .. PortCount
Stray == PortCount + 1

ASSUME PortAssumption ==
  /\ PortCount \in Nat \ {0}
  /\ Hosts \in Nat \ {0}
  /\ Bases \subseteq Nat /\ Bases # {}
  /\ Listening \in [1 .. Hosts -> SUBSET (PortNumbers \cup {Stray})]

Unset == -1

VARIABLES
  scan,       (* the number of the host that is being scanned              *)
  base,       (* address of the first element of this scan's _portList     *)
  it,         (* static _it: an address, or Unset before the first scan    *)
  mutex,      (* the worker that holds _portScanMutex, or NoThread         *)
  port,       (* each worker's local `port`                                *)
  openList,   (* _openList                                                 *)
  tried       (* history: the ports connect was called with in this scan   *)

vars == <<poolVars, scan, base, it, mutex, port, openList, tried>>

Locations == {"static", "while", "lock", "claim", "connect"}
Critical == {"claim", "connect"}

End == base + PortCount      (* _portList.cend() *)

Init ==
  /\ PoolInit
  /\ scan = 1
  /\ base \in Bases
  /\ it = Unset
  /\ mutex = NoThread
  /\ port = [t \in Threads |-> 0]
  /\ openList = << >>
  /\ tried = << >>

Goto(t, from, to) ==
  /\ Alive
  /\ pc[t] = from
  /\ pc' = [pc EXCEPT ![t] = to]
  /\ UNCHANGED <<caller, started, joined>>

(* What the memory at address a holds.                                     *)
ValuesAt(a) == IF a \in base .. End - 1 THEN {a - base + 1} ELSE {0, Stray}

(* The part of the loop's condition that is checked again under the mutex. *)
Exhausted_mutant == FALSE
Exhausted == it >= End

(* What lock() waits for.                                                  *)
Unlocked_mutant == TRUE
Unlocked == mutex = NoThread
-----------------------------------------------------------------------------
(* The initialisation of the static _it, done by the first worker of the   *)
(* first scan that comes here.                                             *)
Static_mutant(t) ==
  /\ Goto(t, "static", "while")
  /\ it' = base
  /\ UNCHANGED <<scan, base, mutex, port, openList, tried>>
Static(t) ==
  /\ Goto(t, "static", "while")
  /\ it' = IF it = Unset THEN base ELSE it
  /\ UNCHANGED <<scan, base, mutex, port, openList, tried>>

(* The condition of the while loop, read without the mutex.                *)
While(t) ==
  /\ Goto(t, "while", IF it # End THEN "lock" ELSE "exited")
  /\ UNCHANGED <<scan, base, it, mutex, port, openList, tried>>

Lock(t) ==
  /\ Goto(t, "lock", "claim")
  /\ Unlocked
  /\ mutex' = t
  /\ UNCHANGED <<scan, base, it, port, openList, tried>>

(* Past the end, or at an element that is 0: unlock and leave the loop.    *)
Leave_mutant(t) ==
  /\ Goto(t, "claim", "exited")
  /\ Exhausted \/ 0 \in ValuesAt(it)
  /\ UNCHANGED <<scan, base, it, mutex, port, openList, tried>>
Leave(t) ==
  /\ Goto(t, "claim", "exited")
  /\ Exhausted \/ 0 \in ValuesAt(it)
  /\ mutex' = NoThread
  /\ UNCHANGED <<scan, base, it, port, openList, tried>>

(* Take the element and advance the iterator.                              *)
Claim(t) ==
  /\ Goto(t, "claim", "connect")
  /\ ~Exhausted
  /\ \E p \in ValuesAt(it) \ {0} :
       /\ port' = [port EXCEPT ![t] = p]
       /\ tried' = Append(tried, p)
  /\ it' = it + 1
  /\ UNCHANGED <<scan, base, mutex, openList>>

(* connect succeeds, if the host accepts connections on the port, or fails *)
(* (refused, or no answer within the send timeout).  Then close and unlock. *)
Connect(t) ==
  /\ Goto(t, "connect", "while")
  /\ \/ port[t] \in Listening[scan] /\ openList' = Append(openList, port[t])
     \/ UNCHANGED openList
  /\ mutex' = NoThread
  /\ UNCHANGED <<scan, base, it, port, tried>>
-----------------------------------------------------------------------------
Pool == /\ PoolNext("static")
        /\ UNCHANGED <<scan, base, it, mutex, port, openList, tried>>

Worker(t) ==
  Static(t) \/ While(t) \/ Lock(t) \/ Leave(t) \/ Claim(t) \/ Connect(t)

(* _getDomainInfo deletes the MyportScan, and is called for the next host: *)
(* a new MyportScan, its ports added, and runThread.                       *)
NextHost ==
  /\ caller = "done"
  /\ scan < Hosts
  /\ scan' = scan + 1
  /\ base' \in Bases
  /\ caller' = "spawn"
  /\ started' = 0
  /\ joined' = 0
  /\ pc' = [t \in Threads |-> "new"]
  /\ port' = [t \in Threads |-> 0]
  /\ openList' = << >>
  /\ tried' = << >>
  /\ UNCHANGED <<it, mutex>>

Ended ==
  /\ caller = "terminated" \/ (caller = "done" /\ scan = Hosts)
  /\ UNCHANGED vars

Next == Pool \/ (\E t \in Threads : Worker(t)) \/ NextHost \/ Ended

(* The operating system goes on scheduling every thread that can run.      *)
Fairness ==
  /\ WF_vars(Pool)
  /\ WF_vars(NextHost)
  /\ \A t \in Threads : WF_vars(Worker(t))

Spec == Init /\ [][Next]_vars
FairSpec == Spec /\ Fairness
-----------------------------------------------------------------------------
TypeOK ==
  /\ PoolTypeOK(Locations)
  /\ scan \in 1 .. Hosts
  /\ base \in Bases
  /\ it \in Nat \cup {Unset}
  /\ mutex \in Threads \cup {NoThread}
  /\ port \in [Threads -> 0 .. Stray]
  /\ openList \in Seq(PortNumbers \cup {Stray})
  /\ tried \in Seq(PortNumbers \cup {Stray})

(* When runThread returns, connect was tried with every port that was      *)
(* added, in order and once each.                                          *)
AllPortsTried == caller = "done" => tried = [k \in PortNumbers |-> k]

(* The first scan of a process keeps that, with one worker or more.        *)
FirstScanComplete == scan = 1 => AllPortsTried

(* In the first scan, every port reported open was added to it, was tried, *)
(* and accepts connections on its host.                                    *)
OpenPortsAreReal ==
  scan = 1 => \A p \in ToSet(openList) :
                p \in PortNumbers \cap Listening[scan] /\ p \in ToSet(tried)

(* delete(PortScan) frees the object the workers use: none of them is left *)
(* in the loop, and none holds its mutex.                                  *)
QuietWhenDone ==
  caller = "done" => mutex = NoThread /\ \A t \in Threads : pc[t] = "exited"

(* Every scan of the job comes to its end.                                 *)
AllScansEnd == <>(caller = "terminated" \/ (caller = "done" /\ scan = Hosts))

InHand == {it - base - 1 : t \in {u \in Threads : pc[u] = "connect"}}

(* The first scan hands out its ports as promised and none beyond them,    *)
(* with one worker or more; the others, which do not, are stutters.        *)
First == scan = 1
Queue == INSTANCE WorkQueue WITH
           Size <- PortCount, Slack <- 0,
           next <- IF ~First THEN PortCount ELSE IF it = Unset THEN 0 ELSE it - base,
           inHand <- IF First THEN InHand ELSE {},
           over <- First => caller = "done"
HandsOutPorts == Queue!Spec
=============================================================================
