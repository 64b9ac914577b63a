---------------------------- MODULE MCTraceWorker ----------------------------
(* TraceWorker with two targets and a capture of two lines. *)
EXTENDS TraceWorker

CONSTANTS vm1, vm2

MCTargets == {vm1, vm2}
=============================================================================
