------------------------------ MODULE LossyFeed ------------------------------
(***************************************************************************)
(* What the Gateway promises of a live trace (DESIGN sections 9 and 11),   *)
(* without goroutines, buffers or sockets.  Lines are numbered in the      *)
(* order the tail produced them.  A line may be lost, but lines are never  *)
(* reordered, repeated or invented, only a line that a newer one has       *)
(* overtaken is shed, losses are counted, and no line is delivered across  *)
(* a gap the browser has not been told about, up to the one loss that is   *)
(* being counted at that moment.                                           *)
(***************************************************************************)
EXTENDS Naturals, Sequences

VARIABLES
  offered,    \* lines the tail has produced: 1 .. offered
  pending,    \* offered, neither delivered nor lost
  delivered,  \* event frames given to the browser, in order
  lost,       \* number of lines lost
  reported    \* the latest loss count given to the browser

vars == <<offered, pending, delivered, lost, reported>>

Init ==
  /\ offered = 0 /\ pending = {} /\ delivered = <<>>
  /\ lost = 0 /\ reported = 0

Offer ==
  /\ offered' = offered + 1
  /\ pending' = pending \union {offered + 1}
  /\ UNCHANGED <<delivered, lost, reported>>

\* A line over the size cap is lost on arrival.
Reject ==
  /\ offered' = offered + 1
  /\ lost' = lost + 1
  /\ UNCHANGED <<pending, delivered, reported>>

\* Backpressure: only a line that is not the newest may be shed.
Shed ==
  /\ \E line \in pending \ {offered} : pending' = pending \ {line}
  /\ lost' = lost + 1
  /\ UNCHANGED <<offered, delivered, reported>>

Report ==
  /\ reported' \in (reported + 1)..lost
  /\ UNCHANGED <<offered, pending, delivered, lost>>

\* The oldest pending line, once the gap before it has been reported.
Deliver ==
  /\ \E line \in pending :
       /\ \A other \in pending : line <= other
       /\ line <= Len(delivered) + reported + 2
       /\ pending' = pending \ {line}
       /\ delivered' = Append(delivered, line)
  /\ UNCHANGED <<offered, lost, reported>>

Next == Offer \/ Reject \/ Shed \/ Report \/ Deliver

Spec == Init /\ [][Next]_vars
=============================================================================
