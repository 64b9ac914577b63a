------------------------------- MODULE Session -------------------------------
(***************************************************************************)
(* One request to the Gateway, from handler to teardown: handleAttach and  *)
(* handleTrace (internal/gw/server.go), what the runtime opens for them    *)
(* (ssh.go, trace.go), the terminal bridge (internal/gw/bridge.go) and the *)
(* keepalive of a trace.  Requests share nothing but the target's status.  *)
(*                                                                         *)
(*   handler    opens the SSH side, upgrades, then is one of the pumps     *)
(*   down       reads the SSH side                                         *)
(*   up         reads the WebSocket (trace; for a terminal the handler     *)
(*              does)                                                      *)
(*   keepalive  of a trace stream                                          *)
(*                                                                         *)
(* The lines and losses of the trace queue are the subject of TraceBridge; *)
(* here the queue is the number of lines it holds.                         *)
(***************************************************************************)
EXTENDS Naturals

CONSTANT QueueSize  \* traceQueueSize

ASSUME QueueAssumption == QueueSize \in Nat \ {0}

VARIABLES
  kind,        \* "attach" or "trace"
  admissible,  \* the id is configured and, for a trace, tracing is enabled
  status,      \* of the target
  pc,          \* where each goroutine is
  reply,       \* what the client was answered
  conn,        \* the SSH connection, at our end
  channel,     \* the SSH channel of the shell or the tail; "eof": its process ended
  peer,        \* the SSH connection, at the guest's end
  done,        \* sshTrace.done is closed
  ws,          \* the WebSocket, at our end
  browser,     \* the other end of the WebSocket
  once,        \* the sync.Once of the bridge's shutdown
  queued, queueClosed,
  tracer,      \* bloodhound in the guest
  journal,     \* its journal holds a 'Resolved task_struct offsets' line
  seen         \* history: what the tracer has been while the gate was asking;
               \* "unanswered" if a command could not be run, "misread" if one ran
               \* and exited non-zero although what it asks was so

sshVars   == <<conn, channel, done>>
wsVars    == <<ws, once>>
queueVars == <<queued, queueClosed>>
gateVars  == <<tracer, journal, seen>>
envVars   == <<kind, admissible, status, peer, browser>>
vars == <<envVars, pc, reply, sshVars, wsVars, queueVars, gateVars>>

Goroutines == {"handler", "down", "up", "keepalive"}
Calls == {"dial", "active", "offsets", "session", "pty", "shell", "tail"}

Goto(g, from, to) == pc[g] = from /\ pc' = [pc EXCEPT ![g] = to]

AllDone == \A g \in Goroutines : pc[g] \in {"off", "done"}

Init ==
  /\ kind \in {"attach", "trace"} /\ admissible \in BOOLEAN
  /\ status \in {"booting", "ready", "error"}
  /\ pc = [g \in Goroutines |-> IF g = "handler" THEN "lookup" ELSE "off"]
  /\ reply = "none"
  /\ conn = "none" /\ channel = "none" /\ peer = "answers" /\ done = FALSE
  /\ ws = "none" /\ browser = "there" /\ once = "unused"
  /\ queued = 0 /\ queueClosed = FALSE
  /\ tracer \in {"off", "starting"} /\ journal \in BOOLEAN /\ seen = {}

-----------------------------------------------------------------------------
(* Opening the SSH side *)

Refuse(why) ==
  /\ pc' = [pc EXCEPT !["handler"] = "done"]
  /\ reply' = why

\* (mutant) the session is closed and the connection forgotten
CloseSessionOnly ==
  /\ conn' = conn
  /\ channel' = IF channel = "none" THEN "none" ELSE "closed"

\* sess.Close then client.Close; closing what is already closed is harmless.
CloseSsh ==
  /\ conn' = "closed"
  /\ channel' = IF channel = "none" THEN "none" ELSE "closed"

\* Attach and TraceStream: the status is a snapshot, the dial follows the unlock.
Lookup ==
  /\ pc["handler"] = "lookup"
  /\ IF admissible /\ status = "ready"
       THEN pc' = [pc EXCEPT !["handler"] = "dial"] /\ UNCHANGED reply
       ELSE Refuse("refused")
  /\ UNCHANGED <<envVars, sshVars, wsVars, queueVars, gateVars>>

Dial ==
  /\ peer = "answers"
  /\ conn' = "open"
  /\ IF kind = "trace"
       THEN Goto("handler", "dial", "active") /\ seen' = {tracer}
       ELSE Goto("handler", "dial", "session") /\ UNCHANGED seen
  /\ UNCHANGED <<envVars, reply, channel, done, wsVars, queueVars, tracer, journal>>

\* Refused, reset, or no TCP connection in sshDialTimeout; once TCP is up the
\* handshake has no deadline of its own.
DialFails ==
  /\ pc["handler"] = "dial" /\ peer # "wedged"
  /\ Refuse("refused")
  /\ UNCHANGED <<envVars, sshVars, wsVars, queueVars, gateVars>>

\* A call over the connection waits for the guest's answer or for the connection
\* to break.
Answered == peer = "answers"
Fails    == peer \in {"answers", "reset"}

\* (mutant) a command that cannot be run refuses the stream
GateIsActiveFailClosed ==
  /\ pc["handler"] = "active"
  /\ \/ /\ Answered
        /\ pc' = [pc EXCEPT !["handler"] = IF tracer = "off" THEN "session" ELSE "offsets"]
        /\ UNCHANGED <<conn, channel, reply, seen>>
     \/ Fails /\ CloseSsh /\ Refuse("blind") /\ seen' = seen \union {"unanswered"}
  /\ UNCHANGED <<envVars, done, wsVars, queueVars, tracer, journal>>

\* The command was not run or its end not seen, which counts as healthy; a command that
\* ran and failed, or was killed, is not that but an answer (errors.As(err, &ee)).
Unanswered(from) ==
  /\ Fails
  /\ Goto("handler", from, "session")
  /\ seen' = seen \union {"unanswered"}
  /\ UNCHANGED <<conn, channel, reply>>

\* checkTraceHealth, systemctl is-active.  Any non-zero exit says the tracer is absent,
\* and the stream is opened.
GateIsActive ==
  /\ \/ /\ Answered /\ tracer # "off"
        /\ Goto("handler", "active", "offsets")
        /\ UNCHANGED <<conn, channel, reply, seen>>
     \/ /\ Answered
        /\ Goto("handler", "active", "session")
        /\ seen' = IF tracer = "off" THEN seen ELSE seen \union {"misread"}
        /\ UNCHANGED <<conn, channel, reply>>
     \/ Unanswered("active")
  /\ UNCHANGED <<envVars, done, wsVars, queueVars, tracer, journal>>

\* (mutant) a blind tracer is only warned about
GateOffsetsWarnOnly ==
  /\ Fails
  /\ Goto("handler", "offsets", "session")
  /\ UNCHANGED <<envVars, reply, sshVars, wsVars, queueVars, gateVars>>

\* Second command: grep over everything the journal keeps of the unit.  Any non-zero
\* exit says blind: there is no such line, or journalctl fails, the pipeline is killed
\* or the line has been rotated away.
GateOffsets ==
  /\ \/ /\ Answered /\ journal
        /\ Goto("handler", "offsets", "session")
        /\ UNCHANGED <<conn, channel, reply, seen>>
     \/ /\ Answered
        /\ pc["handler"] = "offsets"
        /\ CloseSsh /\ Refuse("blind")
        /\ seen' = IF journal THEN seen \union {"misread"} ELSE seen
     \/ Unanswered("offsets")
  /\ UNCHANGED <<envVars, done, wsVars, queueVars, tracer, journal>>

OpenChannel ==
  /\ Answered
  /\ Goto("handler", "session", IF kind = "trace" THEN "tail" ELSE "pty")
  /\ channel' = "open"
  /\ UNCHANGED <<envVars, reply, conn, done, wsVars, queueVars, gateVars>>

StartShell ==
  /\ Answered
  /\ Goto("handler", "pty", "shell") \/ Goto("handler", "shell", "upgrade")
  /\ UNCHANGED <<envVars, reply, sshVars, wsVars, queueVars, gateVars>>

StartTail ==
  /\ Answered
  /\ pc["handler"] = "tail"
  /\ pc' = [pc EXCEPT !["handler"] = "upgrade", !["keepalive"] = "wait"]
  /\ UNCHANGED <<envVars, reply, sshVars, wsVars, queueVars, gateVars>>

\* Every later failure closes what was opened so far.
OpenFails ==
  /\ pc["handler"] \in {"session", "pty", "shell", "tail"} /\ Fails
  /\ CloseSsh /\ Refuse("refused")
  /\ UNCHANGED <<envVars, done, wsVars, queueVars, gateVars>>

-----------------------------------------------------------------------------
(* Upgrading *)

Upgrade ==
  /\ pc["handler"] = "upgrade"
  /\ ws' = "open" /\ reply' = "upgraded"
  /\ pc' = IF kind = "trace"
             THEN [pc EXCEPT !["handler"] = "recv", !["down"] = "readSSH", !["up"] = "readWS"]
             ELSE [pc EXCEPT !["handler"] = "readWS", !["down"] = "readSSH"]
  /\ UNCHANGED <<envVars, sshVars, once, queueVars, gateVars>>

\* (mutant) what was opened is not closed when the upgrade fails
UpgradeFailsLeaks ==
  /\ pc["handler"] = "upgrade"
  /\ Refuse("refused")
  /\ UNCHANGED <<envVars, sshVars, wsVars, queueVars, gateVars>>

UpgradeFails ==
  /\ pc["handler"] = "upgrade"
  /\ CloseSsh /\ done' = (kind = "trace") /\ Refuse("refused")
  /\ UNCHANGED <<envVars, wsVars, queueVars, gateVars>>

-----------------------------------------------------------------------------
(* Bridging *)

SshBroken == conn # "open" \/ channel # "open" \/ peer = "reset"
WsBroken  == ws # "open" \/ browser = "gone"

WsReader == IF kind = "attach" THEN "handler" ELSE "up"

\* (mutant) a full queue grows
ReadSshUnbounded ==
  /\ ~SshBroken /\ Answered
  /\ IF kind = "attach"
       THEN Goto("down", "readSSH", "send") /\ UNCHANGED queued
       ELSE pc["down"] = "readSSH" /\ UNCHANGED pc /\ queued' = queued + 1
  /\ UNCHANGED <<envVars, reply, sshVars, wsVars, queueClosed, gateVars>>

\* Output of the shell or lines of the tail; a full trace queue sheds a line.
ReadSsh ==
  /\ ~SshBroken /\ Answered
  /\ IF kind = "attach"
       THEN Goto("down", "readSSH", "send") /\ UNCHANGED queued
       ELSE /\ pc["down"] = "readSSH" /\ UNCHANGED pc
            /\ queued' = IF queued < QueueSize THEN queued + 1 ELSE queued
  /\ UNCHANGED <<envVars, reply, sshVars, wsVars, queueClosed, gateVars>>

\* The trace's producer closes its queue before it calls shutdown.
ReadSshFails ==
  /\ SshBroken
  /\ Goto("down", "readSSH", "shutdown")
  /\ queueClosed' = (kind = "trace")
  /\ UNCHANGED <<envVars, reply, sshVars, wsVars, queued, gateVars>>

\* The trace's writer; a closed queue is drained first.
Receive ==
  /\ \/ queued > 0 /\ Goto("handler", "recv", "send") /\ queued' = queued - 1
     \/ queued = 0 /\ queueClosed /\ Goto("handler", "recv", "shutdown") /\ UNCHANGED queued
  /\ UNCHANGED <<envVars, reply, sshVars, wsVars, queueClosed, gateVars>>

Sent == \/ kind = "attach" /\ Goto("down", "send", "readSSH")
        \/ kind = "trace" /\ Goto("handler", "send", "recv")

\* A write that the transport accepts; to a departed browser it may still succeed.
WriteWs ==
  /\ ws = "open" /\ Sent
  /\ UNCHANGED <<envVars, reply, sshVars, wsVars, queueVars, gateVars>>

WriteWsFails ==
  /\ WsBroken
  /\ \E g \in {"down", "handler"} : Goto(g, "send", "shutdown")
  /\ UNCHANGED <<envVars, reply, sshVars, wsVars, queueVars, gateVars>>

\* Keystrokes.  Control frames change nothing here and a trace's browser sends none.
ReadWs ==
  /\ ~WsBroken /\ kind = "attach"
  /\ Goto("handler", "readWS", "write")
  /\ UNCHANGED <<envVars, reply, sshVars, wsVars, queueVars, gateVars>>

ReadWsFails ==
  /\ WsBroken
  /\ Goto(WsReader, "readWS", "shutdown")
  /\ UNCHANGED <<envVars, reply, sshVars, wsVars, queueVars, gateVars>>

\* The SSH window takes the keystrokes, answered or not.
WriteSsh ==
  /\ ~SshBroken
  /\ Goto("handler", "write", "readWS")
  /\ UNCHANGED <<envVars, reply, sshVars, wsVars, queueVars, gateVars>>

WriteSshFails ==
  /\ SshBroken
  /\ Goto("handler", "write", "shutdown")
  /\ UNCHANGED <<envVars, reply, sshVars, wsVars, queueVars, gateVars>>

\* once.Do: the first caller closes the SSH side, then the WebSocket; another
\* caller waits for it.
CloseSession(g) ==
  /\ once = "unused"
  /\ Goto(g, "shutdown", "closeWS")
  /\ once' = "running"
  /\ CloseSsh /\ done' = (kind = "trace")
  /\ UNCHANGED <<envVars, reply, ws, queueVars, gateVars>>

CloseWs(g) ==
  /\ Goto(g, "closeWS", "done")
  /\ ws' = "closed" /\ once' = "done"
  /\ UNCHANGED <<envVars, reply, sshVars, queueVars, gateVars>>

\* (mutant) a flag instead of a sync.Once: a second caller does not wait
AwaitShutdownNot(g) ==
  /\ once # "unused"
  /\ Goto(g, "shutdown", "done")
  /\ UNCHANGED <<envVars, reply, sshVars, wsVars, queueVars, gateVars>>

AwaitShutdown(g) ==
  /\ once = "done"
  /\ Goto(g, "shutdown", "done")
  /\ UNCHANGED <<envVars, reply, sshVars, wsVars, queueVars, gateVars>>

Shutdown(g) == CloseSession(g) \/ CloseWs(g) \/ AwaitShutdown(g)

-----------------------------------------------------------------------------
(* Keepalive *)

\* (mutant) the ticker is never looked at
TickNever == pc["keepalive"] = "none" /\ UNCHANGED vars

Tick ==
  /\ Goto("keepalive", "wait", "ask")
  /\ UNCHANGED <<envVars, reply, sshVars, wsVars, queueVars, gateVars>>

Stopped ==
  /\ done
  /\ Goto("keepalive", "wait", "done")
  /\ UNCHANGED <<envVars, reply, sshVars, wsVars, queueVars, gateVars>>

\* (mutant) after an error the loop goes on
AskForEver ==
  /\ \/ conn = "open" /\ Answered /\ Goto("keepalive", "ask", "wait")
     \/ (conn # "open" \/ peer = "reset") /\ Goto("keepalive", "ask", "wait")
  /\ UNCHANGED <<envVars, reply, sshVars, wsVars, queueVars, gateVars>>

\* SendRequest with wantReply: it waits as long as the connection stands.
Ask ==
  /\ \/ conn = "open" /\ Answered /\ Goto("keepalive", "ask", "wait")
     \/ (conn # "open" \/ peer = "reset") /\ Goto("keepalive", "ask", "close")
  /\ UNCHANGED <<envVars, reply, sshVars, wsVars, queueVars, gateVars>>

KeepaliveClose ==
  /\ Goto("keepalive", "close", "done")
  /\ CloseSsh /\ done' = TRUE
  /\ UNCHANGED <<envVars, reply, wsVars, queueVars, gateVars>>

-----------------------------------------------------------------------------
(* Environment *)

\* pollReady publishes the outcome once.
Publish ==
  /\ status = "booting" /\ pc["handler"] = "lookup"
  /\ status' \in {"ready", "error"}
  /\ UNCHANGED <<kind, admissible, peer, browser, pc, reply, sshVars, wsVars,
                 queueVars, gateVars>>

\* The guest's sshd stops answering while its kernel still takes what is sent
\* (wedged), the path to it is lost without a word (cut), or the connection ends
\* in an error both ends see (reset).
PeerFails ==
  /\ pc["handler"] # "lookup" /\ ~AllDone
  /\ \/ peer = "answers" /\ peer' \in {"wedged", "cut", "reset"}
     \/ peer = "wedged" /\ peer' \in {"cut", "reset"}
     \/ peer = "cut" /\ peer' = "reset"
  /\ UNCHANGED <<kind, admissible, status, browser, pc, reply, sshVars, wsVars,
                 queueVars, gateVars>>

\* TCP retransmits what is outstanding for a while, then resets; on a silent
\* connection nothing is outstanding and nothing is noticed.
Outstanding == pc["handler"] \in Calls \union {"write"} \/ pc["keepalive"] = "ask"

KernelGivesUp ==
  /\ peer = "cut" /\ Outstanding
  /\ peer' = "reset"
  /\ UNCHANGED <<kind, admissible, status, browser, pc, reply, sshVars, wsVars,
                 queueVars, gateVars>>

\* The shell exits, or the tail is killed.
ProcessEnds ==
  /\ channel = "open" /\ Answered /\ reply # "none"
  /\ channel' = "eof"
  /\ UNCHANGED <<envVars, pc, reply, conn, done, wsVars, queueVars, gateVars>>

BrowserLeaves ==
  /\ browser = "there" /\ reply # "refused"
  /\ browser' = "gone"
  /\ UNCHANGED <<kind, admissible, status, peer, pc, reply, sshVars, wsVars,
                 queueVars, gateVars>>

\* systemd starts, restarts and stops the tracer; each run resolves the offsets
\* of the kernel it finds, or does not and stays blind.  Bound: up to the verdict.
Gating == kind = "trace" /\ pc["handler"] \in {"lookup", "dial", "active", "offsets"}

TracerChanges ==
  /\ Gating
  /\ \/ tracer = "off" /\ tracer' = "starting"
     \/ tracer = "starting" /\ tracer' \in {"resolved", "blind", "off"}
     \/ tracer \in {"resolved", "blind"} /\ tracer' = "off"
  /\ journal' = (journal \/ tracer' = "resolved")
  /\ seen' = IF pc["handler"] \in {"active", "offsets"} THEN seen \union {tracer'} ELSE seen
  /\ UNCHANGED <<envVars, pc, reply, sshVars, wsVars, queueVars>>

-----------------------------------------------------------------------------
(* Specification *)

Terminated == AllDone /\ UNCHANGED vars

Open == \/ Lookup \/ Dial \/ DialFails \/ GateIsActive \/ GateOffsets
        \/ OpenChannel \/ StartShell \/ StartTail \/ OpenFails
        \/ Upgrade \/ UpgradeFails

Bridge == \/ ReadSsh \/ ReadSshFails \/ Receive \/ WriteWs \/ WriteWsFails
          \/ ReadWs \/ ReadWsFails \/ WriteSsh \/ WriteSshFails
          \/ \E g \in Goroutines : Shutdown(g)

Keepalive == Tick \/ Stopped \/ Ask \/ KeepaliveClose

Environment == \/ Publish \/ PeerFails \/ KernelGivesUp \/ ProcessEnds
               \/ BrowserLeaves \/ TracerChanges

Next == Open \/ Bridge \/ Keepalive \/ Environment \/ Terminated

Spec == Init /\ [][Next]_vars

\* Goroutines keep being scheduled, the ticker ticks and TCP gives up in the end.
\* Nothing obliges the guest to print, the browser to type, to read or to leave.
SlowGuestSpec ==
  /\ Spec
  /\ WF_vars(Open) /\ WF_vars(ReadSshFails) /\ WF_vars(Receive) /\ WF_vars(WriteWsFails)
  /\ WF_vars(ReadWsFails) /\ WF_vars(WriteSshFails)
  /\ \A g \in Goroutines : WF_vars(Shutdown(g))
  /\ WF_vars(Keepalive) /\ WF_vars(KernelGivesUp)

\* Besides, neither end of a terminal leaves a write blocked for ever: the shell
\* reads its input, the browser what is printed.  A trace needs no such promise.
FairSpec ==
  /\ SlowGuestSpec
  /\ WF_vars(WriteSsh) /\ WF_vars(kind = "attach" /\ WriteWs)

-----------------------------------------------------------------------------
(* Properties *)

Pcs == Calls \union
  {"off", "lookup", "upgrade", "recv", "send", "readSSH", "readWS", "write",
   "wait", "ask", "close", "shutdown", "closeWS", "done"}

TypeOK ==
  /\ kind \in {"attach", "trace"} /\ admissible \in BOOLEAN
  /\ status \in {"booting", "ready", "error"}
  /\ pc \in [Goroutines -> Pcs]
  /\ reply \in {"none", "refused", "blind", "upgraded"}
  /\ conn \in {"none", "open", "closed"} /\ channel \in {"none", "open", "eof", "closed"}
  /\ peer \in {"answers", "wedged", "cut", "reset"}
  /\ done \in BOOLEAN
  /\ ws \in {"none", "open", "closed"} /\ browser \in {"there", "gone"}
  /\ once \in {"unused", "running", "done"}
  /\ queued \in 0..QueueSize /\ queueClosed \in BOOLEAN
  /\ tracer \in {"off", "starting", "resolved", "blind"} /\ journal \in BOOLEAN
  /\ seen \subseteq {"off", "starting", "resolved", "blind", "unanswered", "misread"}

\* A handler that has returned holds nothing: whichever call failed, whichever
\* goroutine ran shutdown, and whether or not the keepalive closed the stream
\* first, the SSH connection, its channel and the WebSocket are closed by then
\* (server.go:76-80, trace.go:101-133, ssh.go:70-104, bridge.go:19-28).
Released ==
  pc["handler"] = "done" =>
    conn # "open" /\ channel \in {"none", "closed"} /\ ws # "open"

\* The gate fails open (trace.go:66-70): no stream is refused as blind after a command
\* that could not be run, and a tracer that has resolved its offsets, however it restarts
\* between the two questions, is refused only if the second command itself exits
\* non-zero in spite of the line.  It says nothing of a tracer that has not resolved
\* yet: one that is still starting, or off again by the second question, is refused as
\* blind, although "only a definitively blind tracer is reported" (69-70).
FailsOpen ==
  reply = "blind" =>
    /\ "unanswered" \notin seen
    /\ "resolved" \in seen => "misread" \in seen

\* A tracer that ran blind all the while, and of which no command misreported, is
\* streamed only if a run before it left its line in the journal: the grep is not
\* limited to the present run (trace.go:80).
BlindRefused == (kind = "trace" /\ reply = "upgraded" /\ seen = {"blind"}) => journal

\* Where a goroutine may be waiting, for the guest, the browser, the queue or another
\* goroutine.
Blocked(g) ==
  \/ pc[g] \in {"readSSH", "write"} /\ ~SshBroken
  \/ pc[g] \in {"readWS", "send"} /\ ~WsBroken
  \/ pc[g] = "recv" /\ queued = 0 /\ ~queueClosed
  \/ pc[g] = "ask" /\ conn = "open" /\ ~Fails
  \/ pc[g] = "shutdown" /\ once = "running"

\* shutdown frees whoever is blocked, wherever it is: from then on a goroutine waits at
\* most for the one that is closing the WebSocket, or the trace's writer for a producer
\* that is not blocked itself (bridge.go:19-28, tracebridge.go:37-43, 63, 84).
ShutdownFrees ==
  once # "unused" =>
    \A g \in Goroutines : Blocked(g) =>
      \/ \E h \in Goroutines : pc[h] = "closeWS"
      \/ pc[g] = "recv" /\ pc["down"] = "readSSH" /\ ~Blocked("down")

\* As long as the connection of a trace stands, its keepalive goes on asking, or is
\* about to close it: it never leaves a stream that nobody watches (trace.go:160-176).
KeepaliveWatches ==
  (kind = "trace" /\ reply = "upgraded" /\ conn = "open") =>
    pc["keepalive"] \in {"wait", "ask", "close"}

\* The request keeps what GatewayEnd promises.  Held is the connection or a channel.
Stage ==
  CASE reply = "none" -> "opening"
    [] reply \in {"refused", "blind"} -> "refused"
    [] reply = "upgraded" -> IF ws = "closed" THEN "gone" ELSE "there"

Side ==
  IF conn = "none" THEN "none"
  ELSE IF conn = "open" \/ channel \in {"open", "eof"} THEN "held" ELSE "released"

End == INSTANCE GatewayEnd WITH stage <- Stage, side <- Side

KeepsPromise == End!Spec

\* When either end is seen to go, every goroutine of the request finishes, the
\* keepalive too, and nothing stays open (bridge.go:19-20, trace.go:152-158).
Teardown ==
  (reply = "upgraded" /\ (browser = "gone" \/ peer = "reset" \/ channel = "eof"))
    ~> (AllDone /\ conn = "closed" /\ ws = "closed")

\* DESIGN.md:360-367: a trace whose peer vanished without a word is closed toward
\* the browser, thanks to the keepalive alone.
LostPeerNoticed == (kind = "trace" /\ reply = "upgraded" /\ peer = "cut") ~> ws = "closed"

\* bridge.go:19, "It returns once either side closes": also while the shell does
\* not read its input.
BridgeReturns == (kind = "attach" /\ ws = "open" /\ browser = "gone") ~> pc["handler"] = "done"
=============================================================================
