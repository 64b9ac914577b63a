----------------------------- MODULE TraceWorker -----------------------------
(***************************************************************************)
(* The Web Worker of web/trace-worker.js that owns the trace WebSocket and *)
(* the durable capture.  JavaScript runs one task at a time, so an action  *)
(* is a task: a message from the page, a socket event, a timer, or what    *)
(* follows an await.  Between the awaits of openStream any other task may  *)
(* run, and a socket that ws no longer refers to still delivers events.    *)
(*                                                                         *)
(* closedByMain is not a variable: openStream sets it and clears it again  *)
(* within one task, and the page never posts "close", so it is false in    *)
(* every onclose.  The display feed and the counters of the status row     *)
(* other than liveness are left out.                                       *)
(***************************************************************************)
EXTENDS Naturals, Sequences, FiniteSets

CONSTANTS
  Targets,
  None,      \* no target, no file
  Cap,       \* SIZE_CAP, in lines
  MaxOpens,  \* bound: how often the operator selects a target
  MaxCuts,   \* bound: how often a connection is lost
  MaxLines   \* bound: how many lines arrive

ASSUME BoundsAssumption ==
  None \notin Targets /\ Cap \in Nat /\ MaxOpens \in Nat /\ MaxCuts \in Nat /\ MaxLines \in Nat

VARIABLES
  currentId,  \* the selected target
  opens,      \* the openStream calls so far, in order: target and stage
  sockets,    \* the WebSockets created so far, in order: target and readyState
  ws,         \* index of the socket ws refers to, or 0
  timers,     \* reconnects scheduled
  handle,     \* the file handle refers to
  locked,     \* files with an open sync access handle
  file,       \* contents of each capture file
  pending,    \* lines persisted but not flushed
  received,   \* lines handled
  cuts,       \* connections lost
  alive       \* the status row shows the tracer alive

vars == <<currentId, opens, sockets, ws, timers, handle, locked, file, pending,
          received, cuts, alive>>

connVars    == <<sockets, ws, timers, cuts>>
captureVars == <<handle, locked, file, pending>>

Live == {"connecting", "open"}

Init ==
  /\ currentId = None /\ opens = <<>>
  /\ sockets = <<>> /\ ws = 0 /\ timers = 0 /\ cuts = 0
  /\ handle = None /\ locked = {}
  /\ file = [t \in Targets |-> <<>>] /\ pending = <<>>
  /\ received = 0 /\ alive = FALSE

-----------------------------------------------------------------------------
(* flush, closeStream and connect *)

\* (mutant) the lines written stay in pending
FlushKeepsPending(lines) ==
  IF handle = None \/ lines = <<>>
  THEN UNCHANGED file /\ pending' = lines
  ELSE file' = [file EXCEPT ![handle] = @ \o lines] /\ pending' = lines

\* flush, of the lines given: over the cap the whole capture is dropped first.
Flush(lines) ==
  IF handle = None \/ lines = <<>>
  THEN UNCHANGED file /\ pending' = lines
  ELSE /\ file' = [file EXCEPT ![handle] =
                     IF Len(@) + Len(lines) > Cap THEN lines ELSE @ \o lines]
       /\ pending' = <<>>

\* (mutant) closeStream discards what has not been flushed
CloseWithoutFlush ==
  /\ sockets' = [i \in DOMAIN sockets |->
                   IF i = ws /\ sockets[i].state \in Live
                   THEN [sockets[i] EXCEPT !.state = "closing"] ELSE sockets[i]]
  /\ ws' = 0
  /\ pending' = <<>> /\ UNCHANGED file
  /\ locked' = locked \ {handle}
  /\ handle' = None

\* closeStream: only the socket ws refers to is closed; its close event is still
\* to come.
CloseStream ==
  /\ sockets' = [i \in DOMAIN sockets |->
                   IF i = ws /\ sockets[i].state \in Live
                   THEN [sockets[i] EXCEPT !.state = "closing"] ELSE sockets[i]]
  /\ ws' = 0
  /\ Flush(pending)
  /\ locked' = locked \ {handle}
  /\ handle' = None

Connect ==
  /\ sockets' = Append(sockets, [target |-> currentId, state |-> "connecting"])
  /\ ws' = Len(sockets) + 1

-----------------------------------------------------------------------------
(* openStream *)

\* Up to the first await of openHandle.
OpenStream(t) ==
  /\ Len(opens) < MaxOpens
  /\ CloseStream
  /\ currentId' = t
  /\ alive' = FALSE
  /\ opens' = Append(opens, [target |-> t, stage |-> "awaiting"])
  /\ UNCHANGED <<timers, cuts, received>>

\* The browser answers: a file has one sync access handle at a time, and OPFS
\* may be unavailable altogether.
HandleGranted(k) ==
  /\ opens[k].stage = "awaiting" /\ opens[k].target \notin locked
  /\ opens' = [opens EXCEPT ![k].stage = "granted"]
  /\ locked' = locked \union {opens[k].target}
  /\ UNCHANGED <<currentId, connVars, handle, file, pending, received, alive>>

HandleRefused(k) ==
  /\ opens[k].stage = "awaiting"
  /\ opens' = [opens EXCEPT ![k].stage = "refused"]
  /\ UNCHANGED <<currentId, connVars, captureVars, received, alive>>

\* (mutant) without a file handle openStream gives up
ResumeOpenGivesUp(k) ==
  /\ opens' = [opens EXCEPT ![k].stage = "resumed"]
  /\ \/ /\ opens[k].stage = "granted"
        /\ handle' = opens[k].target
        /\ file' = [file EXCEPT ![opens[k].target] = <<>>]
        /\ Connect
     \/ /\ opens[k].stage = "refused"
        /\ handle' = None
        /\ UNCHANGED <<file, sockets, ws>>
  /\ UNCHANGED <<currentId, timers, cuts, locked, pending, received, alive>>

\* After the await: the handle is kept, the file truncated, and the socket opened.
ResumeOpen(k) ==
  /\ opens' = [opens EXCEPT ![k].stage = "resumed"]
  /\ \/ /\ opens[k].stage = "granted"
        /\ handle' = opens[k].target
        /\ file' = [file EXCEPT ![opens[k].target] = <<>>]
     \/ /\ opens[k].stage = "refused"
        /\ handle' = None
        /\ UNCHANGED file
  /\ Connect
  /\ UNCHANGED <<currentId, timers, cuts, locked, pending, received, alive>>

-----------------------------------------------------------------------------
(* Socket events and timers *)

SocketOpens(i) ==
  /\ sockets[i].state = "connecting"
  /\ sockets' = [sockets EXCEPT ![i].state = "open"]
  /\ UNCHANGED <<currentId, opens, ws, timers, cuts, captureVars, received, alive>>

\* onmessage: handleLine, and in it persist, which flushes when enough is pending
\* or enough time has passed.
Message(i) ==
  /\ sockets[i].state = "open"
  /\ received < MaxLines
  /\ received' = received + 1
  /\ alive' \in {alive, TRUE}   \* a HEARTBEAT event, or another
  /\ LET lines == Append(pending, [from |-> sockets[i].target, number |-> received + 1])
     IN  IF handle = None
         THEN UNCHANGED <<file, pending>>
         ELSE Flush(lines) \/ (pending' = lines /\ UNCHANGED file)
  /\ UNCHANGED <<currentId, opens, connVars, handle, locked>>

Closes(i) ==
  \/ sockets[i].state = "closing" /\ UNCHANGED cuts
  \/ sockets[i].state \in Live /\ cuts < MaxCuts /\ cuts' = cuts + 1

\* (mutant) the close handler and the error handler both schedule a reconnect
SocketClosesTwice(i) ==
  /\ Closes(i)
  /\ sockets' = [sockets EXCEPT ![i].state = "closed"]
  /\ alive' = FALSE
  /\ timers' = timers + 2
  /\ UNCHANGED <<currentId, opens, ws, captureVars, received>>

\* (mutant) the status row is not updated
SocketClosesAlive(i) ==
  /\ Closes(i)
  /\ sockets' = [sockets EXCEPT ![i].state = "closed"]
  /\ timers' = timers + 1
  /\ UNCHANGED <<currentId, opens, ws, captureVars, received, alive>>

\* (mutant) no reconnect
SocketClosesForGood(i) ==
  /\ Closes(i)
  /\ sockets' = [sockets EXCEPT ![i].state = "closed"]
  /\ alive' = FALSE
  /\ UNCHANGED <<currentId, opens, ws, timers, captureVars, received>>

\* onclose, after our own close or because the connection was lost; it does not
\* ask whether the socket is still the one ws refers to.
SocketCloses(i) ==
  /\ Closes(i)
  /\ sockets' = [sockets EXCEPT ![i].state = "closed"]
  /\ alive' = FALSE
  /\ timers' = timers + 1
  /\ UNCHANGED <<currentId, opens, ws, captureVars, received>>

\* (mutant) the timer keeps firing after the reconnect
TimerFiresOn ==
  /\ timers > 0
  /\ Len(sockets) < MaxOpens + MaxCuts + 3
  /\ timers' = timers
  /\ Connect
  /\ UNCHANGED <<currentId, opens, cuts, captureVars, received, alive>>

TimerFires ==
  /\ timers > 0
  /\ timers' = timers - 1
  /\ Connect
  /\ UNCHANGED <<currentId, opens, cuts, captureVars, received, alive>>

\* The interval timer and an export from the page both flush.
Tick ==
  /\ pending # <<>>
  /\ Flush(pending)
  /\ UNCHANGED <<currentId, opens, connVars, handle, locked, received, alive>>

Next ==
  \/ \E t \in Targets : OpenStream(t)
  \/ \E k \in DOMAIN opens : HandleGranted(k) \/ HandleRefused(k) \/ ResumeOpen(k)
  \/ \E i \in DOMAIN sockets : SocketOpens(i) \/ Message(i) \/ SocketCloses(i)
  \/ TimerFires \/ Tick

Spec == Init /\ [][Next]_vars

\* The browser answers requests and runs timers and continuations.  Nothing makes
\* a connection fail, a line arrive or the operator select a target.
FairSpec ==
  /\ Spec
  /\ WF_vars(TimerFires) /\ WF_vars(Tick)
  /\ WF_vars(\E k \in DOMAIN opens : HandleGranted(k) \/ HandleRefused(k))
  /\ WF_vars(\E k \in DOMAIN opens : ResumeOpen(k))

-----------------------------------------------------------------------------
(* Properties *)

Line == [from : Targets, number : 1..MaxLines]

TypeOK ==
  /\ currentId \in Targets \union {None}
  /\ opens \in Seq([target : Targets, stage : {"awaiting", "granted", "refused", "resumed"}])
  /\ sockets \in Seq([target : Targets, state : Live \union {"closing", "closed"}])
  /\ Len(opens) <= MaxOpens /\ Len(sockets) <= 2 * MaxOpens + MaxCuts
  /\ ws \in 0..Len(sockets) /\ timers \in Nat /\ cuts \in 0..MaxCuts
  /\ handle \in locked \union {None} /\ locked \subseteq Targets
  /\ file \in [Targets -> Seq(Line)] /\ pending \in Seq(Line)
  /\ received \in 0..MaxLines /\ alive \in BOOLEAN

Elements(s) == {s[i] : i \in DOMAIN s}

\* Whatever is persisted is persisted once and in the order it was received: within
\* a file line numbers increase, pending lines come after them, and no line is in
\* two files, although handles are swapped and flushed between awaits (158-183).
CaptureInOrder ==
  /\ \A t \in Targets : LET all == file[t] \o pending
                        IN  \A i, j \in DOMAIN all : i < j => all[i].number < all[j].number
  /\ \A t, u \in Targets : t # u => Elements(file[t]) \intersect Elements(file[u]) = {}

\* A captured line disappears only where the code means it to: the file is opened
\* anew for its target (71), or the size cap is reached (170-174).
CaptureKept ==
  [][\A t \in Targets :
       \A line \in Elements(file[t]) \union Elements(pending) :
         \/ line \in Elements(pending') \union UNION {Elements(file'[u]) : u \in Targets}
         \/ \E k \in DOMAIN opens : /\ opens[k] = [target |-> t, stage |-> "granted"]
                                    /\ opens'[k].stage = "resumed"
         \/ Len(file[t]) + Len(pending) + 1 > Cap]_vars

\* The status row never shows the tracer alive when no connection is open
\* (91, 60): old sockets' events arrive after the new stream was set up.
AliveMeansConnected == alive => \E i \in DOMAIN sockets : sockets[i].state = "open"

LiveSockets == {i \in DOMAIN sockets : sockets[i].state \in Live}

\* DESIGN.md:578, "one trace subscriber per target is assumed", and line 54, "tear
\* down any previous subscription first": there is never a second live socket.
OneSubscription == Cardinality(LiveSockets) <= 1

Unclosed   == {i \in DOMAIN sockets : sockets[i].state # "closed"}
Unfinished == {k \in DOMAIN opens : opens[k].stage # "resumed"}

\* A selection starts at most one stream, and no stream forks: a lost connection, a
\* late close event or an overlapping call never makes two of one.  A stream is a call
\* awaiting its handle, a socket or a reconnect that is due (62, 80-98).  That a change
\* of target ends the previous stream is OneSubscription, which fails.
StreamsNeverFork == Cardinality(Unclosed) + timers + Cardinality(Unfinished) <= Len(opens)

\* The subscription to the selected target is never given up: the call that selected it
\* has yet to connect, a reconnect is due, or a socket for it has yet to close, however
\* calls, reconnects and close events of other streams come in between (62-98).
NeverGivenUp ==
  opens # <<>> =>
    \/ Len(opens) \in Unfinished \/ timers > 0
    \/ \E i \in Unclosed : sockets[i].target = currentId

\* As long as the operator stays on the first target selected, a lost connection is
\* replaced by one new one, never by two (88-98).
OneReconnect == Len(opens) <= 1 => OneSubscription

\* DESIGN.md:607, the trace of vm1 "reflects activity on vm1, not vm3": the capture
\* of a target holds that target's lines only.
CaptureRouting == \A t \in Targets : \A line \in Elements(file[t]) : line.from = t

\* The selected target is subscribed to at last, after a lost connection too: each
\* time the last socket for it goes, a reconnect is due or a handle awaited (80-98).
StaysSubscribed ==
  \A t \in Targets :
    []<>(currentId = t => \E i \in LiveSockets : sockets[i].target = t)
=============================================================================
