------------------------------ MODULE GatewayEnd ------------------------------
(***************************************************************************)
(* What the Gateway promises whoever asks it for a terminal or a trace,    *)
(* without goroutines, calls or failures: one answer, and an end that      *)
(* comes once.  Whoever is refused, or sees the WebSocket close, and asks  *)
(* again, as the page and the trace worker do, competes with nothing that  *)
(* the former request left behind: the SSH side is released by then, and   *)
(* is not taken again.                                                     *)
(***************************************************************************)
VARIABLES
  stage,  \* "opening", then "refused", or "there" and at last "gone"
  side    \* the SSH side: "none", then "held", then "released"

Init == stage = "opening" /\ side = "none"

Acquire == stage = "opening" /\ side = "none" /\ side' = "held" /\ UNCHANGED stage

Accept == stage = "opening" /\ side # "none" /\ stage' = "there" /\ UNCHANGED side

Refuse ==
  /\ stage = "opening" /\ stage' = "refused"
  /\ side' = IF side = "none" THEN "none" ELSE "released"

\* By a goroutine of the request, at any time once it is held.
Release == side = "held" /\ side' = "released" /\ UNCHANGED stage

End == stage = "there" /\ side = "released" /\ stage' = "gone" /\ UNCHANGED side

Next == Acquire \/ Accept \/ Refuse \/ Release \/ End

Spec == Init /\ [][Next]_<<stage, side>>
=============================================================================
