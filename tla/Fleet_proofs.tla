----------------------------- MODULE Fleet_proofs -----------------------------
(***************************************************************************)
(* Proofs about Fleet for every set of targets.  The invariant behind them *)
(* follows a guest from hand to hand: a live QEMU process is always        *)
(* referred to by its target's st.proc, by the slice Shutdown took over,   *)
(* or by the Stop call that is waiting for it.                             *)
(***************************************************************************)
EXTENDS Fleet, TLAPS

\* Somebody still refers to every live guest.
Owned == \A t \in Targets : guest[t] \in Live => proc[t] \/ t \in procs \/ stopping = t

\* What main's position says of the launch loop and of Shutdown's variables.
Phases ==
  /\ main \notin {"launch", "killed"} => todo = {}
  /\ main \notin {"stop", "killed"} => procs = {} /\ stopping = None
  /\ main \in {"stop", "exited"} => \A t \in Targets : ~proc[t]

\* A target is undeclared as long as its launch or its poller may declare it.
Undeclared ==
  /\ \A t \in todo : poller[t] = "none" /\ status[t] = "booting"
  /\ \A t \in Targets : poller[t] \notin {"none", "end"} => status[t] = "booting"

IInv == TypeOK /\ Owned /\ Phases /\ Undeclared

-----------------------------------------------------------------------------

LEMMA InitIInv == Init => IInv
  BY NoneAssumption DEF Init, IInv, TypeOK, Owned, Phases, Undeclared, Live

\* Launching a target gives it a process, a guest and a poller, or an error.
LEMMA LaunchKeeps == ASSUME IInv, NEW t \in Targets, Launch(t) PROVE IInv'
<1> USE DEF Launch, LaunchOk, LaunchFails, stopVars, IInv
<1>1. TypeOK'
  BY DEF TypeOK, Live
<1>2. Owned'
  BY DEF TypeOK, Owned
<1>3. Phases'
  BY DEF TypeOK, Phases
<1>4. Undeclared'
  BY DEF TypeOK, Undeclared
<1> QED BY <1>1, <1>2, <1>3, <1>4

\* A step of a poller touches its own program counter and its target's status.
LEMMA PollKeeps ==
  ASSUME IInv, NEW t \in Targets, NEW from, NEW to, Poll(t, from, to),
         from \in {"probe", "answered", "failed", "expired", "select"},
         to \in {"probe", "answered", "failed", "expired", "select", "end"},
         \/ status' = status
         \/ /\ to = "end"
            /\ \E s \in {"ready", "error"} : status' = [status EXCEPT ![t] = s],
         UNCHANGED <<mainVars, late, guest>>
  PROVE  IInv'
<1> USE DEF Poll, mainVars, stopVars, IInv
<1>1. TypeOK'
  BY DEF TypeOK
<1>2. Owned' /\ Phases'
  BY DEF Owned, Phases
<1>3. Undeclared'
  BY DEF TypeOK, Undeclared
<1> QED BY <1>1, <1>2, <1>3

LEMMA PollerKeeps ==
  ASSUME IInv, NEW t \in Targets, Probe(t) \/ PollStep(t)
  PROVE  IInv'
<1>1. CASE Probe(t)
  BY <1>1, PollKeeps DEF Probe, ProbeOk, ProbeFails
<1>2. CASE SetReady(t)
  BY <1>2, PollKeeps DEF SetReady
<1>3. CASE CheckDeadline(t)
  BY <1>3, PollKeeps DEF CheckDeadline
<1>4. CASE SetError(t)
  BY <1>4, PollKeeps DEF SetError
<1>5. CASE SelectDone(t) \/ SelectTick(t)
  BY <1>5, PollKeeps DEF SelectDone, SelectTick
<1> QED BY <1>1, <1>2, <1>3, <1>4, <1>5 DEF PollStep

\* Steps of main that only move it on, before the processes are collected.
LEMMA AdvanceKeeps ==
  ASSUME IInv, LaunchDone \/ Serve \/ ServeFails \/ Signal \/ Cancelled \/ Drained
  PROVE  IInv'
<1> USE DEF LaunchDone, Serve, ServeFails, Signal, Cancelled, Drained, stopVars, IInv
<1>1. /\ UNCHANGED <<todo, status, proc, poller, late, procs, stopping, guest>>
      /\ main' \in {main, "launched", "serve", "drain", "wait", "killed"}
      /\ main' \in {"launched", "serve", "drain", "wait"} \ {main} =>
           main \notin {"stop", "exited", "killed"}
      /\ main' \in {"launched", "serve", "drain", "wait"} => todo = {} \/ main' = main
  BY DEF Phases
<1>2. TypeOK'
  BY <1>1 DEF TypeOK
<1>3. Owned' /\ Undeclared'
  BY <1>1 DEF Owned, Undeclared
<1>4. Phases'
  BY <1>1 DEF Phases
<1> QED BY <1>2, <1>3, <1>4

\* The processes pass from the targets to Shutdown, when the pollers are done.
LEMMA CollectKeeps == ASSUME IInv, Collect PROVE IInv'
<1> USE DEF Collect, IInv
<1>1. TypeOK'
  BY DEF TypeOK
<1>2. Owned'
  BY DEF TypeOK, Owned, Phases
<1>3. Phases' /\ Undeclared'
  BY DEF Phases, Undeclared
<1> QED BY <1>1, <1>2, <1>3

\* Stopping the guests one after the other.
LEMMA StopKeeps ==
  ASSUME IInv, (\E t \in Targets : Terminate(t)) \/ Kill \/ Reap \/ Exit
  PROVE  IInv'
<1> USE DEF IInv
<1>1. ASSUME NEW t \in Targets, Terminate(t) PROVE IInv'
  <2> USE <1>1 DEF Terminate
  <2>1. TypeOK'
    BY DEF TypeOK, Live
  <2>2. Owned'
    <3> SUFFICES ASSUME NEW u \in Targets, guest'[u] \in Live
                 PROVE  proc'[u] \/ u \in procs' \/ stopping' = u
      BY DEF Owned
    <3>1. CASE u = t
      BY <3>1
    <3>2. CASE u # t
      <4>1. guest[u] \in Live /\ stopping # u
        BY <3>2, NoneAssumption DEF TypeOK
      <4> QED BY <3>2, <4>1 DEF Owned
    <3> QED BY <3>1, <3>2
  <2>3. Phases' /\ Undeclared'
    BY DEF Phases, Undeclared
  <2> QED BY <2>1, <2>2, <2>3
<1>2. CASE Kill
  <2> USE <1>2 DEF Kill, mainVars, stopVars
  <2>1. TypeOK'
    BY DEF TypeOK
  <2>2. Owned'
    BY DEF TypeOK, Owned, Live
  <2>3. Phases' /\ Undeclared'
    BY DEF Phases, Undeclared
  <2> QED BY <2>1, <2>2, <2>3
<1>3. CASE Reap
  <2> USE <1>3 DEF Reap
  <2>1. TypeOK' /\ Owned'
    BY NoneAssumption DEF TypeOK, Owned
  <2>2. Phases' /\ Undeclared'
    BY DEF Phases, Undeclared
  <2> QED BY <2>1, <2>2
<1>4. CASE Exit
  BY <1>4 DEF Exit, stopVars, TypeOK, Owned, Phases, Undeclared
<1> QED BY <1>1, <1>2, <1>3, <1>4

\* A deadline passes, or a guest boots or exits.
LEMMA WorldKeeps ==
  ASSUME IInv, NEW t \in Targets, DeadlinePasses(t) \/ GuestUp(t) \/ GuestExits(t)
  PROVE  IInv'
<1> USE DEF DeadlinePasses, GuestUp, GuestExits, mainVars, stopVars, IInv
<1>1. TypeOK'
  BY DEF TypeOK, Live
<1>2. Owned'
  BY DEF TypeOK, Owned, Live
<1>3. Phases' /\ Undeclared'
  BY DEF Phases, Undeclared
<1> QED BY <1>1, <1>2, <1>3

LEMMA NextKeeps == IInv /\ [Next]_vars => IInv'
<1> SUFFICES ASSUME IInv, [Next]_vars PROVE IInv'
  OBVIOUS
<1>1. CASE \E t \in Targets : Launch(t) \/ Probe(t) \/ PollStep(t)
  BY <1>1, LaunchKeeps, PollerKeeps
<1>2. CASE \E t \in Targets : DeadlinePasses(t) \/ GuestUp(t) \/ GuestExits(t)
  BY <1>2, WorldKeeps
<1>3. CASE LaunchDone \/ Serve \/ ServeFails \/ Signal \/ Cancelled \/ Drained
  BY <1>3, AdvanceKeeps
<1>4. CASE Collect
  BY <1>4, CollectKeeps
<1>5. CASE (\E t \in Targets : Terminate(t)) \/ Kill \/ Reap \/ Exit
  BY <1>5, StopKeeps
<1>6. CASE Terminated \/ UNCHANGED vars
  BY <1>6 DEF Terminated, vars, stopVars, IInv, TypeOK, Owned, Phases,
              Undeclared
<1> QED BY <1>1, <1>2, <1>3, <1>4, <1>5, <1>6 DEF Next, ShutdownStep

-----------------------------------------------------------------------------

THEOREM Invariance == Spec => []IInv
<1>1. Init => IInv
  BY InitIInv
<1>2. IInv /\ [Next]_vars => IInv'
  BY NextKeeps
<1> QED BY <1>1, <1>2, PTL DEF Spec

\* Every variable keeps its type, for every set of targets.
THEOREM TypeCorrect == Spec => []TypeOK
<1>1. IInv => TypeOK
  BY DEF IInv
<1> QED BY <1>1, Invariance, PTL

\* When main has returned, no guest is left running (qemu.go:214-235).
THEOREM FleetStopped == Spec => []NoOrphans
<1>1. IInv => NoOrphans
  <2> SUFFICES ASSUME IInv, main = "exited", NEW t \in Targets PROVE guest[t] \notin Live
    BY DEF NoOrphans, NoGuest
  <2>1. ~proc[t] /\ procs = {} /\ stopping = None
    BY DEF IInv, Phases
  <2> QED BY <2>1, NoneAssumption DEF IInv, Owned
<1> QED BY <1>1, Invariance, PTL

\* A status that has been declared never changes (qemu.go:129, 148, 152).
THEOREM StatusesFinal == Spec => StatusFinal
<1>1. IInv /\ [Next]_vars =>
        [\A t \in Targets : status'[t] # status[t] => status[t] = "booting"]_vars
  <2> SUFFICES ASSUME IInv, Next, NEW t \in Targets, status'[t] # status[t]
               PROVE  status[t] = "booting"
    OBVIOUS
  <2> USE DEF IInv, TypeOK
  <2>1. CASE \E u \in Targets : Launch(u)
    BY <2>1 DEF Launch, LaunchOk, LaunchFails, Undeclared
  <2>2. CASE \E u \in Targets : Probe(u)
    BY <2>2 DEF Probe, ProbeOk, ProbeFails
  <2>3. CASE \E u \in Targets : PollStep(u)
    BY <2>3 DEF PollStep, SetReady, CheckDeadline, SetError, SelectDone, SelectTick,
                Poll, Undeclared
  <2>4. CASE \E u \in Targets : \/ Terminate(u) \/ DeadlinePasses(u)
                                \/ GuestUp(u) \/ GuestExits(u)
    BY <2>4 DEF Terminate, DeadlinePasses, GuestUp, GuestExits
  <2>5. CASE LaunchDone \/ Serve \/ ServeFails \/ Signal
    BY <2>5 DEF LaunchDone, Serve, ServeFails, Signal
  <2>6. CASE ShutdownStep \/ Terminated
    BY <2>6 DEF ShutdownStep, Cancelled, Drained, Collect, Kill, Reap, Exit,
                Terminated, vars
  <2> QED BY <2>1, <2>2, <2>3, <2>4, <2>5, <2>6 DEF Next
<1> QED BY <1>1, Invariance, PTL DEF Spec, StatusFinal

-----------------------------------------------------------------------------
(* Somebody is left to declare a target *)

\* The launch loop hands a target to its poller or declares it in error, and a poller
\* ends only when it has declared its target or the runtime shuts down.
LEMMA DeclarerKept == IInv /\ SomebodyDeclares /\ [Next]_vars => SomebodyDeclares'
<1> SUFFICES ASSUME IInv, SomebodyDeclares, [Next]_vars,
                    NEW t \in Targets, status'[t] = "booting", ~done'
             PROVE  t \in todo' \/ poller'[t] \notin {"none", "end"}
  BY DEF SomebodyDeclares
<1> USE DEF IInv, TypeOK
<1>1. CASE \E u \in Targets : Launch(u)
  BY <1>1 DEF Launch, LaunchOk, LaunchFails, SomebodyDeclares
<1>2. CASE \E u \in Targets : Probe(u)
  BY <1>2 DEF Probe, ProbeOk, ProbeFails, Poll, mainVars, SomebodyDeclares
<1>3. CASE \E u \in Targets : PollStep(u)
  BY <1>3 DEF PollStep, SetReady, CheckDeadline, SetError, SelectDone, SelectTick,
              Poll, mainVars, SomebodyDeclares
<1>4. CASE UNCHANGED <<status, poller, todo>> /\ (done' = done \/ done')
  BY <1>4 DEF SomebodyDeclares
<1>5. CASE UNCHANGED vars
  BY <1>5 DEF vars, SomebodyDeclares
<1>6. \/ \E u \in Targets : Launch(u) \/ Probe(u) \/ PollStep(u)
      \/ UNCHANGED <<status, poller, todo>> /\ (done' = done \/ done')
      \/ UNCHANGED vars
  BY DEF Next, Terminate, DeadlinePasses, GuestUp, GuestExits, LaunchDone, Serve, ServeFails,
         Signal, ShutdownStep, Cancelled, Drained, Collect, Kill, Reap, Exit, Terminated,
         mainVars
<1> QED BY <1>1, <1>2, <1>3, <1>4, <1>5, <1>6

\* Until the runtime shuts down, no booting target is without somebody who may declare
\* it: what Settles rests on (qemu.go:127-161).
THEOREM AlwaysSomebody == Spec => []SomebodyDeclares
<1>1. Init => SomebodyDeclares
  BY DEF Init, SomebodyDeclares
<1> QED BY <1>1, DeclarerKept, Invariance, PTL DEF Spec
=============================================================================
