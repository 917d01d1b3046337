----------------------------- MODULE ServerProofs ----------------------------
(***************************************************************************)
(* The handler of SIGCHLD never blocks the server, for any number of       *)
(* clients.  The invariant that carries it counts: a pending signal and a  *)
(* handler that is about to call wait each account for a dead session of   *)
(* their own.                                                              *)
(***************************************************************************)
EXTENDS Server, FiniteSetTheorems, TLAPS

(* One dead session for each of the two.                                   *)
DeadAccounted ==
  /\ (pending \/ handling) => \E c \in Clients : client[c] = "dead"
  /\ (pending /\ handling) =>
       \E c, d \in Clients : c # d /\ client[c] = "dead" /\ client[d] = "dead"

IInv == TypeOK /\ DeadAccounted

LEMMA InitIInv == Init => IInv
<1>1. Cardinality({}) = 0 /\ MaxDescriptors >= 0
  BY FS_EmptySet, ServerAssumption
<1> QED
  BY <1>1 DEF Init, IInv, TypeOK, DeadAccounted

(* One more descriptor, where there is room for it.                        *)
LEMMA OneMore ==
  ASSUME descriptors \subseteq Clients, NEW c \in Clients,
         Cardinality(descriptors) < MaxDescriptors
  PROVE  Cardinality(descriptors \cup {c}) <= MaxDescriptors
<1>1. IsFiniteSet(descriptors)
  BY FS_Subset, ServerAssumption
<1>2. Cardinality(descriptors) \in Nat /\ MaxDescriptors \in Nat
  BY <1>1, FS_CardinalityType, ServerAssumption
<1>3. Cardinality(descriptors \cup {c}) \in
        {Cardinality(descriptors), Cardinality(descriptors) + 1}
  BY <1>1, FS_AddElement
<1> QED
  BY <1>2, <1>3

LEMMA NextIInv == IInv /\ [Next]_vars => IInv'
<1> SUFFICES ASSUME IInv, [Next]_vars PROVE IInv'
  OBVIOUS
<1> USE DEF IInv, TypeOK, DeadAccounted, With, Running, parentVars
<1>1. CASE ForkServer
  BY <1>1 DEF ForkServer
<1>2. CASE ForkServerFails
  BY <1>2 DEF ForkServerFails
<1>3. CASE WaitReturns
  BY <1>3 DEF WaitReturns
<1>4. CASE ParentHandler
  BY <1>4 DEF ParentHandler
<1>5. CASE Bind
  BY <1>5 DEF Bind
<1>6. CASE BindFails
  BY <1>6 DEF BindFails
<1>7. CASE Accept
  <2>1. PICK c \in Clients :
          /\ client' = [client EXCEPT ![c] = "accepted"]
          /\ descriptors' = descriptors \cup {c}
          /\ client[c] = "queued"
    BY <1>7 DEF Accept
  <2>2. Cardinality(descriptors') <= MaxDescriptors
    BY <1>7, <2>1, OneMore DEF Accept, Acceptable
  <2> QED
    BY <1>7, <2>1, <2>2 DEF Accept
<1>8. CASE Fork
  BY <1>8 DEF Fork
<1>9. CASE Deliver
  BY <1>9 DEF Deliver
<1>10. CASE WaitOne
  BY <1>10 DEF WaitOne
<1>11. CASE Connect
  BY <1>11 DEF Connect
<1>12. CASE SessionEnds
  BY <1>12 DEF SessionEnds
<1>13. CASE UNCHANGED vars
  BY <1>13 DEF vars
<1> QED
  BY <1>1, <1>2, <1>3, <1>4, <1>5, <1>6, <1>7, <1>8, <1>9, <1>10, <1>11, <1>12, <1>13
     DEF Next, Parent, Listener, Handler, Environment, AcceptAgain, Ended

(* Every reachable state has well-typed variables.                         *)
THEOREM TypeCorrect == Spec => []TypeOK
<1>1. IInv => TypeOK
  BY DEF IInv
<1> QED
  BY <1>1, InitIInv, NextIInv, PTL DEF Spec

(* _signalHandler's wait(NULL) always finds a dead session.                *)
THEOREM HandlerNeverBlocks == Spec => []WaitNeverBlocks
<1>1. IInv => WaitNeverBlocks
  BY DEF IInv, DeadAccounted, WaitNeverBlocks, With
<1> QED
  BY <1>1, InitIInv, NextIInv, PTL DEF Spec
=============================================================================
