------------------------------ MODULE WorkQueue -----------------------------
(***************************************************************************)
(* What a scan promises its caller, whoever the workers are: the items     *)
(* 0 .. Size-1 are handed out in order, each of them once, at most Slack   *)
(* numbers beyond the last item are handed out after them, and the scan is *)
(* over only when every item was handed out and all that was handed out is *)
(* dealt with.  dns::runThread promises it of the dictionary's entries,    *)
(* where workers may run past the last one; MyportScan::runThread of the   *)
(* ports added to it, with no slack.                                       *)
(***************************************************************************)
EXTENDS Integers

CONSTANTS
  Size,      (* how many items there are: a natural number       *)
  Slack      (* how far beyond them the handing out may run on   *)

VARIABLES
  next,      (* the next item to hand out           *)
  inHand,    (* items handed out and being worked on *)
  over       (* the caller was told that it is done  *)

queueVars == <<next, inHand, over>>

Init == next = 0 /\ inHand = {} /\ over = FALSE

Take ==
  /\ ~over
  /\ next < Size + Slack
  /\ next' = next + 1
  /\ inHand' = inHand \cup {next}
  /\ UNCHANGED over

Finish ==
  /\ \E i \in inHand : inHand' = inHand \ {i}
  /\ UNCHANGED <<next, over>>

Close ==
  /\ ~over
  /\ next >= Size
  /\ inHand = {}
  /\ over' = TRUE
  /\ UNCHANGED <<next, inHand>>

Next == Take \/ Finish \/ Close

Spec == Init /\ [][Next]_queueVars
=============================================================================
