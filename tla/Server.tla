------------------------------- MODULE Server -------------------------------
(***************************************************************************)
(* ServerClass::startServer and ServerClass::_signalHandler: the processes *)
(* of the program.  The first process forks the server and waits for it;   *)
(* the server accepts connections and forks a session for each of them;    *)
(* SIGCHLD is handled, in the first process and in the server, by one call *)
(* of wait.  What a session does is modelled by the other modules: here it *)
(* runs and at some moment it is dead.                                     *)
(*                                                                         *)
(* SIGCHLD is a standard signal: one instance at most is pending, however  *)
(* many children die, and it is blocked while its handler runs.  signal()  *)
(* gives it BSD semantics, so system calls it interrupts are restarted.    *)
(* An accept that fails returns -1 and the loop calls it again.            *)
(***************************************************************************)
EXTENDS Integers, FiniteSets

CONSTANTS
  Clients,          (* connection requests                                 *)
  MaxDescriptors,   (* client sockets the server may have open             *)
  SocketAccepts     (* does accept work on the type of socket created?     *)

ASSUME ServerAssumption ==
  /\ IsFiniteSet(Clients)
  /\ MaxDescriptors \in Nat
  /\ SocketAccepts \in BOOLEAN

VARIABLES
  parent,          (* the first process: "fork", "wait" or "returned"      *)
  parentPending,   (* SIGCHLD pending in it                                *)
  parentReaped,    (* has it reaped the server?                            *)
  server,          (* the server: "none", "bind", "accept", "fork",        *)
                   (* "exited"                                             *)
  pending,         (* SIGCHLD pending in the server                        *)
  handling,        (* is the server in _signalHandler, at wait(NULL)?      *)
  client,          (* each request: "idle", "queued", "accepted", then its *)
                   (* session: "running", "dead", "reaped"; or "dropped"   *)
  descriptors      (* requests whose _clientSock is open in the server     *)

parentVars == <<parent, parentPending, parentReaped>>
vars == <<parentVars, server, pending, handling, client, descriptors>>

With(state) == {c \in Clients : client[c] = state}

Init ==
  /\ parent = "fork"
  /\ parentPending = FALSE
  /\ parentReaped = FALSE
  /\ server = "none"
  /\ pending = FALSE
  /\ handling = FALSE
  /\ client = [c \in Clients |-> "idle"]
  /\ descriptors = {}
-----------------------------------------------------------------------------
(* The first process.                                                      *)

ForkServer ==
  /\ parent = "fork"
  /\ parent' = "wait"
  /\ server' = "bind"
  /\ UNCHANGED <<parentPending, parentReaped, pending, handling, client,
                 descriptors>>

(* fork returns -1: waitpid(-1) has no child to wait for and fails.        *)
ForkServerFails ==
  /\ parent = "fork"
  /\ parent' = "returned"
  /\ UNCHANGED <<parentPending, parentReaped, server, pending, handling, client,
                 descriptors>>

(* waitpid(pid): returns when the server is dead, or at once with an error *)
(* when the handler has already reaped it.                                 *)
WaitReturns_mutant ==
  /\ parent = "wait"
  /\ server = "exited"
  /\ ~parentReaped
  /\ parent' = "returned"
  /\ parentReaped' = TRUE
  /\ UNCHANGED <<parentPending, server, pending, handling, client, descriptors>>
WaitReturns ==
  /\ parent = "wait"
  /\ server = "exited"
  /\ parent' = "returned"
  /\ parentReaped' = TRUE
  /\ UNCHANGED <<parentPending, server, pending, handling, client, descriptors>>

(* The handler in the first process: wait(NULL) reaps the server, or fails *)
(* when waitpid already did.                                               *)
ParentHandler ==
  /\ parentPending
  /\ parentPending' = FALSE
  /\ parentReaped' = TRUE
  /\ UNCHANGED <<parent, server, pending, handling, client, descriptors>>
-----------------------------------------------------------------------------
(* The server.                                                             *)

(* The server runs its own code, not the handler.                          *)
Running(at) == server = at /\ ~handling

Bind ==
  /\ Running("bind")
  /\ server' = "accept"
  /\ UNCHANGED <<parentVars, pending, handling, client, descriptors>>

BindFails ==
  /\ Running("bind")
  /\ server' = "exited"
  /\ parentPending' = TRUE
  /\ UNCHANGED <<parent, parentReaped, pending, handling, client, descriptors>>

(* accept has a socket to return a client on, and may make a descriptor.   *)
Acceptable == SocketAccepts /\ Cardinality(descriptors) < MaxDescriptors

Accept_mutant ==
  /\ Running("accept")
  /\ IF Acceptable
     THEN \E c \in With("queued") :
            /\ client' = [client EXCEPT ![c] = "accepted"]
            /\ descriptors' = descriptors \cup {c}
     ELSE UNCHANGED <<client, descriptors>>
  /\ server' = "fork"
  /\ UNCHANGED <<parentVars, pending, handling>>
Accept ==
  /\ Running("accept")
  /\ Acceptable
  /\ \E c \in With("queued") :
       /\ client' = [client EXCEPT ![c] = "accepted"]
       /\ descriptors' = descriptors \cup {c}
  /\ server' = "fork"
  /\ UNCHANGED <<parentVars, pending, handling>>

(* No connection is queued and accept blocks; or it returns -1, and the    *)
(* loop calls it again.                                                    *)
AcceptAgain ==
  /\ Running("accept")
  /\ Acceptable => With("queued") = {}
  /\ UNCHANGED vars

(* fork: the session runs; or it fails, and the connection stays open with *)
(* nobody to serve it.  The server never closes its _clientSock.           *)
Fork ==
  /\ Running("fork")
  /\ \E c \in With("accepted") : \E outcome \in {"running", "dropped"} :
       client' = [client EXCEPT ![c] = outcome]
  /\ server' = "accept"
  /\ UNCHANGED <<parentVars, pending, handling, descriptors>>

(* SIGCHLD is delivered: _signalHandler begins.                            *)
Deliver ==
  /\ pending
  /\ ~handling
  /\ pending' = FALSE
  /\ handling' = TRUE
  /\ UNCHANGED <<parentVars, server, client, descriptors>>

(* wait(NULL) reaps one dead session and the handler returns.  It blocks   *)
(* while all its children are alive, and fails when there is none.         *)
WaitOne_mutant ==
  /\ handling
  /\ IF With("dead") # {}
     THEN /\ \E c \in With("dead") : client' = [client EXCEPT ![c] = "reaped"]
          /\ handling' = (With("running") \cup With("dead") # {})
     ELSE /\ With("running") = {}
          /\ handling' = FALSE
          /\ UNCHANGED client
  /\ UNCHANGED <<parentVars, server, pending, descriptors>>
WaitOne ==
  /\ handling
  /\ IF With("dead") # {}
     THEN \E c \in With("dead") : client' = [client EXCEPT ![c] = "reaped"]
     ELSE With("running") = {} /\ UNCHANGED client
  /\ handling' = FALSE
  /\ UNCHANGED <<parentVars, server, pending, descriptors>>
-----------------------------------------------------------------------------
(* The environment.                                                        *)

Connect ==
  /\ server \in {"accept", "fork"}
  /\ \E c \in With("idle") : client' = [client EXCEPT ![c] = "queued"]
  /\ UNCHANGED <<parentVars, server, pending, handling, descriptors>>

(* A session calls exit, or is killed: SIGCHLD becomes pending, unless an  *)
(* earlier one still is.                                                   *)
SessionEnds ==
  /\ \E c \in With("running") : client' = [client EXCEPT ![c] = "dead"]
  /\ pending' = TRUE
  /\ UNCHANGED <<parentVars, server, handling, descriptors>>

Ended == parent = "returned" /\ ~parentPending /\ UNCHANGED vars

Parent == ForkServer \/ ForkServerFails \/ WaitReturns \/ ParentHandler
Listener == Bind \/ BindFails \/ Accept \/ Fork
Handler == Deliver \/ WaitOne
Environment == Connect \/ SessionEnds

Next == Parent \/ Listener \/ AcceptAgain \/ Handler \/ Environment \/ Ended

(* The two processes are scheduled and pending signals are delivered.  No  *)
(* fairness for the sessions: they may run for ever.                       *)
Fairness == WF_vars(Parent) /\ WF_vars(Listener) /\ WF_vars(Handler)

Spec == Init /\ [][Next]_vars
FairSpec == Spec /\ Fairness
-----------------------------------------------------------------------------
(* The types of the variables, and what goes with a type: the open sockets *)
(* are within their limit, and the server calls fork with a client.        *)
TypeOK ==
  /\ parent \in {"fork", "wait", "returned"}
  /\ parentPending \in BOOLEAN
  /\ parentReaped \in BOOLEAN
  /\ server \in {"none", "bind", "accept", "fork", "exited"}
  /\ pending \in BOOLEAN
  /\ handling \in BOOLEAN
  /\ client \in [Clients -> {"idle", "queued", "accepted", "running", "dead",
                             "reaped", "dropped"}]
  /\ descriptors \subseteq Clients
  /\ Cardinality(descriptors) <= MaxDescriptors
  /\ server = "fork" => With("accepted") # {}

(* wait(NULL) in the handler finds a dead session whenever it is called:   *)
(* it never blocks the server, although other sessions are alive and one   *)
(* signal may stand for several deaths.                                    *)
WaitNeverBlocks == handling => With("dead") # {}

(* So the handler always returns, with no assumption about the sessions.   *)
HandlerReturns == handling ~> ~handling

(* "Used to reap zombie processes": a dead session is reaped.              *)
ZombiesReaped == \A c \in Clients : client[c] = "dead" ~> client[c] = "reaped"

(* "Receive client requests": whatever the handler does, a client that     *)
(* connects is accepted, until the sockets the server never closes have    *)
(* used up its descriptors.                                                *)
EveryClientAccepted ==
  \A c \in Clients :
    client[c] = "queued" ~>
      client[c] # "queued" \/ Cardinality(descriptors) = MaxDescriptors

(* Whether the handler or waitpid comes first when the server has exited,  *)
(* the first process returns and has reaped it.                            *)
ParentReturns == server = "exited" ~> (parent = "returned" /\ parentReaped)
=============================================================================
