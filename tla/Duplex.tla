-------------------------------- MODULE Duplex --------------------------------
(***************************************************************************)
(* What the relay promises of the two directions between a browser and the *)
(* Gateway: "frames pass end-to-end unmodified" (internal/wire/wire.go:2,  *)
(* internal/bff/relay.go:13).  Each end receives, in order and without a   *)
(* gap, frames the other end sent; when an end leaves, what is still on    *)
(* its way may be lost, and nothing is sent or received there any more.    *)
(***************************************************************************)
EXTENDS Naturals, Sequences

CONSTANTS Dirs, Ends, From, To,  \* directions, and the two ends of each
          Frame                  \* what may be sent in each direction

VARIABLES sent, got, left

Init ==
  /\ sent = [d \in Dirs |-> <<>>]
  /\ got = [d \in Dirs |-> <<>>]
  /\ left = {}

Send(d) ==
  /\ From[d] \notin left
  /\ \E f \in Frame[d] : sent' = [sent EXCEPT ![d] = Append(@, f)]
  /\ UNCHANGED <<got, left>>

\* The next frame, as it was sent.
Deliver(d) ==
  /\ To[d] \notin left
  /\ Len(got[d]) < Len(sent[d])
  /\ got' = [got EXCEPT ![d] = Append(@, sent[d][Len(@) + 1])]
  /\ UNCHANGED <<sent, left>>

Leave ==
  /\ \E e \in Ends \ left : left' = left \union {e}
  /\ UNCHANGED <<sent, got>>

Next == (\E d \in Dirs : Send(d) \/ Deliver(d)) \/ Leave

Spec == Init /\ [][Next]_<<sent, got, left>>
=============================================================================
