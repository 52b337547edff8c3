--------------------------- MODULE ReliableSession ---------------------------
(***************************************************************************)
(* What a FIX session promises to the two applications that use it, with   *)
(* no word about sequence numbers, resends or connections: each side's     *)
(* messages form a log; the other side is handed messages of the log,      *)
(* possibly out of order and more than once, and from time to time         *)
(* declares a prefix of the log done.  A message of a done prefix has been *)
(* handed over, and what is done stays done.                               *)
(***************************************************************************)
EXTENDS Integers, FiniteSets

CONSTANT Side, Peer(_)

VARIABLES
  log,     \* log[p]: number of messages p has submitted; they are 1..log[p]
  handed,  \* handed[p]: messages of the peer that p's application has seen
  done     \* done[p]: length of the prefix of the peer's log that p is done with

vars == <<log, handed, done>>

Init ==
  /\ log = [p \in Side |-> 0]
  /\ handed = [p \in Side |-> {}]
  /\ done = [p \in Side |-> 0]

Submit(p) ==
  /\ log' = [log EXCEPT ![p] = @ + 1]
  /\ UNCHANGED <<handed, done>>

\* p's application is handed some message, and p may be done with more.
Deliver(p) ==
  \E S \in SUBSET (1..log[Peer(p)]), k \in done[p]..log[Peer(p)] :
    /\ Cardinality(S) <= 1
    /\ handed' = [handed EXCEPT ![p] = @ \cup S]
    /\ 1..k \subseteq handed[p] \cup S
    /\ done' = [done EXCEPT ![p] = k]
    /\ UNCHANGED log

Next == \E p \in Side : Submit(p) \/ Deliver(p)

Spec == Init /\ [][Next]_vars
=============================================================================
