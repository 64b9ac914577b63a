---------------------------- MODULE MCTraceBridge ----------------------------
(* TraceBridge on a short channel and a tail that overruns it several times. *)
EXTENDS TraceBridge

MCQueueSize == 2
MCMaxLines  == 5
=============================================================================
