-------------------------------- MODULE Fleet --------------------------------
(***************************************************************************)
(* The Gateway process and the guests it owns: main of cmd/gw/main.go, the *)
(* QEMU runtime of internal/runtime/qemu.go and Stop of launch.go.         *)
(*                                                                         *)
(*   main      launches the fleet, serves until its context is cancelled,  *)
(*             then drains HTTP, waits for the pollers and stops guests    *)
(*   poller t  probes target t until it answers, its deadline has passed   *)
(*             or the runtime shuts down                                   *)
(*   guest t   a QEMU process in a process group of its own, so the signal *)
(*             that ends the Gateway does not reach it                     *)
(*                                                                         *)
(* main holds q.mu through the whole launch loop; every other critical     *)
(* section of q.mu is one step.  The order in which targets are launched   *)
(* and stopped is left open, which includes the configuration order.       *)
(***************************************************************************)
EXTENDS Naturals

CONSTANTS
  Targets,  \* the configured targets
  None      \* no target

ASSUME NoneAssumption == None \notin Targets

VARIABLES
  main,      \* where main is, or how the process ended
  trap,      \* SIGINT and SIGTERM cancel the context instead of killing us
  cancelled, \* the context is done
  todo,      \* targets EnsureStarted has not reached yet
  status,    \* st.status
  proc,      \* st.proc # nil
  poller,    \* where pollReady of each target is
  late,      \* the target's readiness deadline has passed
  done,      \* q.done is closed
  procs,     \* Shutdown's slice of processes still to be stopped
  stopping,  \* the process Stop is waiting for, or None
  guest      \* what became of the QEMU process

vars == <<main, trap, cancelled, todo, status, proc, poller, late, done,
          procs, stopping, guest>>

stopVars == <<procs, stopping>>
mainVars == <<main, trap, cancelled, todo, proc, done, stopVars>>

Live == {"booting", "up", "termed"}  \* the QEMU process exists
Running == main \notin {"exited", "killed"}
LockFree == main # "launch"          \* q.mu can be taken

Init ==
  /\ main = "launch" /\ trap = FALSE /\ cancelled = FALSE
  /\ todo = Targets
  /\ status = [t \in Targets |-> "booting"]
  /\ proc = [t \in Targets |-> FALSE]
  /\ poller = [t \in Targets |-> "none"]
  /\ late = [t \in Targets |-> FALSE]
  /\ done = FALSE
  /\ procs = {} /\ stopping = None
  /\ guest = [t \in Targets |-> "none"]

-----------------------------------------------------------------------------
(* main: start *)

LaunchOk(t) ==
  /\ main = "launch" /\ t \in todo
  /\ todo' = todo \ {t}
  /\ guest' = [guest EXCEPT ![t] = "booting"]
  /\ proc' = [proc EXCEPT ![t] = TRUE]
  /\ poller' = [poller EXCEPT ![t] = "probe"]
  /\ UNCHANGED <<main, trap, cancelled, status, late, done, stopVars>>

\* (mutant) the loop goes on to the next target without recording the failure
LaunchFailsQuietly(t) ==
  /\ main = "launch" /\ t \in todo
  /\ todo' = todo \ {t}
  /\ UNCHANGED <<main, trap, cancelled, status, proc, poller, late, done, stopVars, guest>>

LaunchFails(t) ==
  /\ main = "launch" /\ t \in todo
  /\ todo' = todo \ {t}
  /\ status' = [status EXCEPT ![t] = "error"]
  /\ UNCHANGED <<main, trap, cancelled, proc, poller, late, done, stopVars, guest>>

LaunchDone ==
  /\ main = "launch" /\ todo = {}
  /\ main' = "launched"
  /\ UNCHANGED <<trap, cancelled, todo, status, proc, poller, late, done, stopVars, guest>>

\* signal.NotifyContext, and the serving goroutine starts.
Serve ==
  /\ main = "launched"
  /\ main' = "serve"
  /\ trap' = TRUE
  /\ UNCHANGED <<cancelled, todo, status, proc, poller, late, done, stopVars, guest>>

\* ListenAndServe fails: stop() cancels the context and releases the signals.
ServeFails ==
  /\ main = "serve"
  /\ cancelled' = TRUE
  /\ trap' = FALSE
  /\ UNCHANGED <<main, todo, status, proc, poller, late, done, stopVars, guest>>

\* SIGINT or SIGTERM; untrapped, it ends the process at once.
Signal ==
  /\ Running
  /\ IF trap THEN cancelled' = TRUE /\ UNCHANGED main
             ELSE main' = "killed" /\ UNCHANGED cancelled
  /\ UNCHANGED <<trap, todo, status, proc, poller, late, done, stopVars, guest>>

-----------------------------------------------------------------------------
(* main: shutdown *)

\* <-ctx.Done()
Cancelled ==
  /\ main = "serve" /\ cancelled
  /\ main' = "drain"
  /\ UNCHANGED <<trap, cancelled, todo, status, proc, poller, late, done, stopVars, guest>>

\* srv.Shutdown returns, after ten seconds at the latest; rt.Shutdown closes done.
Drained ==
  /\ main = "drain"
  /\ main' = "wait"
  /\ done' = TRUE
  /\ UNCHANGED <<trap, cancelled, todo, status, proc, poller, late, stopVars, guest>>

\* (mutant) only targets that became ready are stopped
CollectReady ==
  /\ main = "wait"
  /\ \A t \in Targets : poller[t] \in {"none", "end"}
  /\ main' = "stop"
  /\ procs' = {t \in Targets : proc[t] /\ status[t] = "ready"}
  /\ proc' = [t \in Targets |-> FALSE]
  /\ UNCHANGED <<trap, cancelled, todo, status, poller, late, done, stopping, guest>>

\* (mutant) the nil check is dropped: what was never started is taken over too
CollectNil ==
  /\ main = "wait"
  /\ \A t \in Targets : poller[t] \in {"none", "end"}
  /\ main' = "stop"
  /\ procs' = {IF proc[t] THEN t ELSE None : t \in Targets}
  /\ proc' = [t \in Targets |-> FALSE]
  /\ UNCHANGED <<trap, cancelled, todo, status, poller, late, done, stopping, guest>>

\* wg.Wait returns and the processes are taken over under the lock.
Collect ==
  /\ main = "wait"
  /\ \A t \in Targets : poller[t] \in {"none", "end"}
  /\ main' = "stop"
  /\ procs' = {t \in Targets : proc[t]}
  /\ proc' = [t \in Targets |-> FALSE]
  /\ UNCHANGED <<trap, cancelled, todo, status, poller, late, done, stopping, guest>>

\* Stop sends SIGTERM and waits; a process that is gone already is reaped below.
Terminate(t) ==
  /\ main = "stop" /\ stopping = None /\ t \in procs
  /\ procs' = procs \ {t}
  /\ stopping' = t
  /\ guest' = [guest EXCEPT ![t] = IF @ \in Live THEN "termed" ELSE @]
  /\ UNCHANGED <<main, trap, cancelled, todo, status, proc, poller, late, done>>

\* (mutant) no escalation: Stop waits for SIGTERM to take effect
NoKill == FALSE /\ UNCHANGED vars

\* The grace period ends before the guest does: SIGKILL.
Kill ==
  /\ main = "stop" /\ stopping # None /\ guest[stopping] \in Live
  /\ guest' = [guest EXCEPT ![stopping] = "gone"]
  /\ UNCHANGED <<mainVars, status, poller, late>>

\* cmd.Wait returns.
Reap ==
  /\ main = "stop" /\ stopping # None /\ guest[stopping] \notin Live
  /\ stopping' = None
  /\ UNCHANGED <<main, trap, cancelled, todo, status, proc, poller, late, done, procs, guest>>

Exit ==
  /\ main = "stop" /\ stopping = None /\ procs = {}
  /\ main' = "exited"
  /\ UNCHANGED <<trap, cancelled, todo, status, proc, poller, late, done, stopVars, guest>>

-----------------------------------------------------------------------------
(* pollReady *)

Poll(t, from, to) ==
  Running /\ poller[t] = from /\ poller' = [poller EXCEPT ![t] = to]

ProbeOk(t) ==
  /\ guest[t] = "up"
  /\ Poll(t, "probe", "answered")
  /\ UNCHANGED <<mainVars, status, late, guest>>

ProbeFails(t) ==
  /\ Poll(t, "probe", "failed")
  /\ UNCHANGED <<mainVars, status, late, guest>>

\* (mutant) after publishing, the poller goes on polling
SetReadyAndGoOn(t) ==
  /\ LockFree
  /\ Poll(t, "answered", "select")
  /\ status' = [status EXCEPT ![t] = "ready"]
  /\ UNCHANGED <<mainVars, late, guest>>

SetReady(t) ==
  /\ LockFree
  /\ Poll(t, "answered", "end")
  /\ status' = [status EXCEPT ![t] = "ready"]
  /\ UNCHANGED <<mainVars, late, guest>>

\* (mutant) a late target keeps being polled
NeverLate(t) ==
  /\ Poll(t, "failed", "select")
  /\ UNCHANGED <<mainVars, status, late, guest>>

\* The deadline is looked at only once a probe has failed.
CheckDeadline(t) ==
  /\ Poll(t, "failed", IF late[t] THEN "expired" ELSE "select")
  /\ UNCHANGED <<mainVars, status, late, guest>>

SetError(t) ==
  /\ LockFree
  /\ Poll(t, "expired", "end")
  /\ status' = [status EXCEPT ![t] = "error"]
  /\ UNCHANGED <<mainVars, late, guest>>

SelectDone(t) ==
  /\ done
  /\ Poll(t, "select", "end")
  /\ UNCHANGED <<mainVars, status, late, guest>>

SelectTick(t) ==
  /\ Poll(t, "select", "probe")
  /\ UNCHANGED <<mainVars, status, late, guest>>

-----------------------------------------------------------------------------
(* Time and the guests *)

DeadlinePasses(t) ==
  /\ poller[t] \notin {"none", "end"} /\ ~late[t]
  /\ late' = [late EXCEPT ![t] = TRUE]
  /\ UNCHANGED <<mainVars, status, poller, guest>>

\* sshd starts answering.
GuestUp(t) ==
  /\ guest[t] = "booting"
  /\ guest' = [guest EXCEPT ![t] = "up"]
  /\ UNCHANGED <<mainVars, status, poller, late>>

\* The guest powers off, crashes, or gives in to SIGTERM.
GuestExits(t) ==
  /\ guest[t] \in Live
  /\ guest' = [guest EXCEPT ![t] = "gone"]
  /\ UNCHANGED <<mainVars, status, poller, late>>

Terminated == ~Running /\ UNCHANGED vars

Launch(t) == LaunchOk(t) \/ LaunchFails(t)
Probe(t) == ProbeOk(t) \/ ProbeFails(t)
PollStep(t) == SetReady(t) \/ CheckDeadline(t) \/ SetError(t) \/ SelectDone(t) \/ SelectTick(t)
ShutdownStep == Cancelled \/ Drained \/ Collect \/ Kill \/ Reap \/ Exit

Next ==
  \/ \E t \in Targets :
       \/ Launch(t) \/ Probe(t) \/ PollStep(t) \/ Terminate(t)
       \/ DeadlinePasses(t) \/ GuestUp(t) \/ GuestExits(t)
  \/ LaunchDone \/ Serve \/ ServeFails \/ Signal \/ ShutdownStep
  \/ Terminated

Spec == Init /\ [][Next]_vars

\* Code that is ready to run runs and time passes; a probe need not return.
HungProbeSpec ==
  /\ Spec
  /\ WF_vars(\E t \in Targets : Launch(t)) /\ WF_vars(LaunchDone) /\ WF_vars(Serve)
  /\ WF_vars(ShutdownStep) /\ WF_vars(\E t \in Targets : Terminate(t))
  /\ \A t \in Targets : WF_vars(PollStep(t)) /\ WF_vars(DeadlinePasses(t))

\* Every probe returns at last.
FairSpec == HungProbeSpec /\ \A t \in Targets : WF_vars(Probe(t))

-----------------------------------------------------------------------------
(* Properties *)

TypeOK ==
  /\ main \in {"launch", "launched", "serve", "drain", "wait", "stop", "exited", "killed"}
  /\ trap \in BOOLEAN /\ cancelled \in BOOLEAN /\ done \in BOOLEAN
  /\ todo \subseteq Targets /\ procs \subseteq Targets
  /\ stopping \in Targets \union {None}
  /\ status \in [Targets -> {"booting", "ready", "error"}]
  /\ proc \in [Targets -> BOOLEAN] /\ late \in [Targets -> BOOLEAN]
  /\ poller \in [Targets -> {"none", "probe", "answered", "failed", "expired",
                             "select", "end"}]
  /\ guest \in [Targets -> {"none"} \union Live \union {"gone"}]

NoGuest == \A t \in Targets : guest[t] \notin Live

\* When main returns, no guest it launched is left: not one that crashed before,
\* never answered or was declared in error, nor one that ignores SIGTERM
\* (qemu.go:218-234, launch.go:76-93).
NoOrphans == main = "exited" => NoGuest

\* main.go:3-4, "on SIGINT/SIGTERM it stops the whole fleet", and README.md:78,
\* "Stop the GW with Ctrl-C; it terminates every guest it launched": however the
\* Gateway ends on a signal, no guest outlives it.
SignalStopsFleet == ~Running => NoGuest

\* What a target has been declared to be, it stays: the launch loop, the probe
\* and the deadline never overrule one another (qemu.go:129, 148, 152).
StatusFinal ==
  [][\A t \in Targets : status'[t] # status[t] => status[t] = "booting"]_vars

\* Until the runtime shuts down, a target that is still booting has somebody left to
\* declare it: the launch loop or its poller, wherever that is (qemu.go:127-161).
SomebodyDeclares ==
  \A t \in Targets :
    status[t] = "booting" /\ ~done => t \in todo \/ poller[t] \notin {"none", "end"}

\* Every target is declared ready or in error at last, whatever its guest does,
\* unless the Gateway is told to stop first.
Settles ==
  \A t \in Targets : status[t] = "booting" ~> (status[t] # "booting" \/ done \/ ~Running)

\* Shutdown ends: once the context is cancelled main stops the fleet and returns
\* (or a signal that is no longer trapped kills it).
ShutdownCompletes == (main = "serve" /\ cancelled) ~> ~Running
=============================================================================
