------------------------------- MODULE DnsScan ------------------------------
(***************************************************************************)
(* dns::runThread and the worker it starts on every thread of a Mythread,  *)
(* dns::threadRequest: resolve <subdomain>.<hostname> for every entry of   *)
(* the dictionary dns::_subdomain over one shared set of buffers, guarded  *)
(* by dns::_mutex.  The dictionary's entries are the numbers               *)
(* 0 .. SubdomainCount-1.  The function-local static threadLock numbers    *)
(* the next entry; it is read without the mutex by the while condition     *)
(* and not read again before it is used under the mutex.                   *)
(*                                                                         *)
(* A name and the message about it are identified by the entry's number    *)
(* (the dot appended to a name is left to Session, whose reports show it), *)
(* and of an answer section only the set of records matters: the IPv4      *)
(* addresses in Addresses, everything else as other records.  The build    *)
(* (g++ -g, x86-64) reads and writes the int threadLock in one access, so  *)
(* the unguarded read sees the counter before or after an increment.       *)
(***************************************************************************)
EXTENDS Mythread, Sequences

CONSTANTS
  SubdomainCount,   (* _subdomain.size()                                   *)
  Addresses,        (* IPv4 addresses                                      *)
  Records,          (* the records an answer section may hold              *)
  Zone,             (* what the name server answers about each name        *)
  LocalPorts,       (* the local UDP ports the kernel picks from           *)
  PortReuse         (* may it pick a port that a late answer is still on   *)
                    (* its way to?                                         *)

(* A worker that finds threadLock beyond the dictionary still uses it, so  *)
(* names are numbered on past the last entry, one for each worker.         *)
Names == 0 .. SubdomainCount + Cardinality(Threads)

ASSUME DnsAssumption ==
  /\ SubdomainCount \in Nat
  /\ Addresses \subseteq Records
  /\ Zone \in [Names -> SUBSET Records]
  /\ PortReuse \in BOOLEAN
  /\ -1 \notin LocalPorts

NoSocket == -1

VARIABLES
  threadLock,        (* static int: the next entry to resolve              *)
  mutex,             (* the worker that holds _mutex, or NoThread          *)
  currentHostname,   (* _currentHostname: the subdomains appended to it    *)
  hostBuff,          (* each worker's local copy of the name it asks for   *)
  buff,              (* the message in _buff: the name it is about and the *)
                     (* records of its answer section                      *)
  dnsSock,           (* local port of the open socket, or NoSocket         *)
  aResult,           (* _aResult: <<number, name, address>>                *)
  network,           (* answers on their way: the port they go to, and     *)
                     (* what buff will be                                  *)
  heard              (* history: the names an answer was received for      *)

shared == <<currentHostname, hostBuff, buff, dnsSock, aResult, network, heard>>
vars == <<poolVars, threadLock, mutex, shared>>

Locations == {"while", "lock", "claim", "request", "recv", "record"}
Critical == {"claim", "request", "recv", "record"}

Message == [name : Seq(Names), answers : SUBSET Records]

Init ==
  /\ PoolInit
  /\ threadLock = 0
  /\ mutex = NoThread
  /\ currentHostname = << >>
  /\ hostBuff = [t \in Threads |-> << >>]
  /\ buff = [name |-> << >>, answers |-> {}]
  /\ dnsSock = NoSocket
  /\ aResult = {}
  /\ network = {}
  /\ heard = {}

Goto(t, from, to) ==
  /\ Alive
  /\ pc[t] = from
  /\ pc' = [pc EXCEPT ![t] = to]
  /\ UNCHANGED <<caller, started, joined>>

(* What the while condition asks.                                          *)
Inside_mutant == threadLock <= SubdomainCount
Inside == threadLock < SubdomainCount

(* What lock() waits for.                                                  *)
Unlocked_mutant == TRUE
Unlocked == mutex = NoThread
-----------------------------------------------------------------------------
(* The condition of the while loop, read without the mutex.                *)
While(t) ==
  /\ Goto(t, "while", IF Inside THEN "lock" ELSE "exited")
  /\ UNCHANGED <<threadLock, mutex, shared>>

Lock(t) ==
  /\ Goto(t, "lock", "claim")
  /\ Unlocked
  /\ mutex' = t
  /\ UNCHANGED <<threadLock, shared>>

(* Append _subdomain[threadLock], advance the counter, and write the query *)
(* into _buff, whose answer count becomes 0.                               *)
Claim(t) ==
  /\ Goto(t, "claim", "request")
  /\ currentHostname' = Append(currentHostname, threadLock)
  /\ hostBuff' = [hostBuff EXCEPT ![t] = currentHostname']
  /\ buff' = [name |-> currentHostname', answers |-> {}]
  /\ threadLock' = threadLock + 1
  /\ UNCHANGED <<mutex, dnsSock, aResult, network, heard>>

(* Beyond the last entry the string read is whatever memory holds: either  *)
(* Claim goes on with some name, or the read brings the process down.      *)
ClaimCrashes(t) ==
  /\ Alive
  /\ pc[t] = "claim"
  /\ ~Inside
  /\ caller' = "terminated"
  /\ UNCHANGED <<started, joined, pc, threadLock, mutex, shared>>

(* The kernel binds the new socket to a port as the query is sent.         *)
MayBind(p) == PortReuse \/ \A m \in network : m.port # p

(* The name server's answer to the query in _buff.                         *)
Answer(p) == [port |-> p,
              msg |-> [name |-> buff.name,
                       answers |-> Zone[buff.name[Len(buff.name)]]]]

(* requestDnsServer, first half: a socket, a receive timeout and sendto.   *)
(* The query or its answer may be lost on the way.                         *)
Request(t) ==
  /\ Goto(t, "request", "recv")
  /\ \E p \in LocalPorts :
       /\ MayBind(p)
       /\ dnsSock' = p
       /\ \/ network' = network \cup {Answer(p)}
          \/ UNCHANGED network
  /\ UNCHANGED <<threadLock, mutex, currentHostname, hostBuff, buff, aResult,
                 heard>>

(* sendto fails: requestDnsServer returns and _buff still holds the query. *)
SendFails(t) ==
  /\ Goto(t, "request", "record")
  /\ \E p \in LocalPorts : MayBind(p) /\ dnsSock' = p
  /\ UNCHANGED <<threadLock, mutex, currentHostname, hostBuff, buff, aResult,
                 network, heard>>

(* recvfrom takes the first datagram that reached the socket's port; the   *)
(* message's identification and question are not looked at.                *)
Receive(t) ==
  /\ Goto(t, "recv", "record")
  /\ \E m \in network :
       /\ m.port = dnsSock
       /\ buff' = m.msg
       /\ network' = network \ {m}
  /\ heard' = heard \cup {hostBuff[t]}
  /\ UNCHANGED <<threadLock, mutex, currentHostname, hostBuff, dnsSock, aResult>>

(* Two seconds pass: recvfrom fails and _buff still holds the query.       *)
Timeout_mutant(t) == FALSE
Timeout(t) ==
  /\ Goto(t, "recv", "record")
  /\ UNCHANGED <<threadLock, mutex, shared>>

(* The tuples the answer section in _buff adds to _aResult.                *)
Resolved_mutant(t) == IF buff.answers \subseteq Addresses
                      THEN {<<threadLock, hostBuff[t], a>> : a \in buff.answers}
                      ELSE {}
Resolved(t) == {<<threadLock, hostBuff[t], a>> : a \in buff.answers \cap Addresses}

(* Parse the answers, record the addresses, close the socket, clear the    *)
(* name and unlock.                                                        *)
Record(t) ==
  /\ Goto(t, "record", "while")
  /\ aResult' = aResult \cup Resolved(t)
  /\ dnsSock' = NoSocket
  /\ hostBuff' = [hostBuff EXCEPT ![t] = << >>]
  /\ currentHostname' = << >>
  /\ mutex' = NoThread
  /\ UNCHANGED <<threadLock, buff, network, heard>>
-----------------------------------------------------------------------------
Pool == PoolNext("while") /\ UNCHANGED <<threadLock, mutex, shared>>

Worker(t) ==
  \/ While(t) \/ Lock(t) \/ Claim(t) \/ ClaimCrashes(t) \/ Request(t)
  \/ SendFails(t) \/ Receive(t) \/ Timeout(t) \/ Record(t)

(* A datagram for a port without a socket is thrown away by the kernel.    *)
Discard ==
  /\ \E m \in network : m.port # dnsSock /\ network' = network \ {m}
  /\ UNCHANGED <<poolVars, threadLock, mutex, currentHostname, hostBuff, buff,
                 dnsSock, aResult, heard>>

(* runThread returned or the process ended.                                *)
Ended == caller \in {"done", "terminated"} /\ UNCHANGED vars

Next == Pool \/ (\E t \in Threads : Worker(t)) \/ Discard \/ Ended

(* The operating system goes on scheduling every thread that can run.      *)
Fairness == WF_vars(Pool) /\ \A t \in Threads : WF_vars(Worker(t))

Spec == Init /\ [][Next]_vars
FairSpec == Spec /\ Fairness
-----------------------------------------------------------------------------
TypeOK ==
  /\ PoolTypeOK(Locations)
  /\ threadLock \in Names
  /\ mutex \in Threads \cup {NoThread}
  /\ currentHostname \in Seq(Names)
  /\ hostBuff \in [Threads -> Seq(Names)]
  /\ buff \in Message
  /\ dnsSock \in LocalPorts \cup {NoSocket}
  /\ aResult \subseteq (Names \X Seq(Names) \X Addresses)
  /\ network \subseteq [port : LocalPorts, msg : Message]
  /\ heard \subseteq Seq(Names)

(* A worker reads a dictionary entry that exists: the check made before    *)
(* lock() still holds after it.  It does with one worker only, because     *)
(* others may have taken the rest while this one waited for the mutex.     *)
InDictionary ==
  \A t \in Threads : pc[t] = "claim" => threadLock < SubdomainCount

(* However the workers interleave, they overrun the dictionary by at most  *)
(* one entry for every worker but the one that took the last entry.        *)
OverrunBound ==
  threadLock = 0 \/ threadLock <= SubdomainCount + Cardinality(Threads) - 1

(* Every recorded tuple joins the number, the name and an address that     *)
(* belong together, although all three went through buffers that every     *)
(* worker shares, and although a late answer to an earlier query may be    *)
(* under way.                                                              *)
ResultsBelong ==
  \A r \in aResult :
    /\ r[2] = <<r[1] - 1>>
    /\ r[3] \in Zone[r[1] - 1]

(* When runThread returns, getResult finds all addresses of every name an  *)
(* answer was received for.                                                *)
CompleteWhenDone ==
  caller = "done" =>
    \A h \in heard : \A a \in Zone[h[1]] \cap Addresses :
      <<h[1] + 1, h, a>> \in aResult

(* getResult reads _aResult without the mutex, and the dns object is gone  *)
(* soon after: no worker may still be at work when runThread returns.      *)
QuietWhenDone ==
  caller = "done" =>
    /\ \A t \in Threads : pc[t] = "exited"
    /\ mutex = NoThread
    /\ dnsSock = NoSocket
    /\ currentHostname = << >>

(* Whatever the name server does or fails to do, runThread returns.        *)
ScanEnds == <>(caller \in {"done", "terminated"})

(* The entry a worker is dealing with, between Claim and Record.           *)
InHand ==
  {threadLock - 1 : t \in {u \in Threads : pc[u] \in {"request", "recv", "record"}}}

(* The scan hands out the dictionary as promised, with one worker or more: *)
(* each entry once, in order, and runThread returns only when all were     *)
(* dealt with.  All workers but one may be handed one number beyond it.    *)
Queue == INSTANCE WorkQueue WITH
           Size <- SubdomainCount, Slack <- Cardinality(Threads) - 1,
           next <- threadLock, inHand <- InHand, over <- caller = "done"
HandsOutDictionary == Queue!Spec
=============================================================================
