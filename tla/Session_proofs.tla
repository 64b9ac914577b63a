--------------------------- MODULE Session_proofs ---------------------------
(***************************************************************************)
(* Proofs about Session for every queue size.  Three invariants, each      *)
(* inductive given the ones before it:                                     *)
(*   IInv  what is open at each call, and how far a shutdown has come      *)
(*   GInv  what the health gate has seen of the tracer, and its journal    *)
(*   LInv  who may wait where, who is closing, and who watches the peer    *)
(* From IInv and LInv, a request implements GatewayEnd.                    *)
(***************************************************************************)
EXTENDS Session, TLAPS

\* The handler has not upgraded the client's connection yet.
Setup == Calls \union {"lookup", "upgrade"}

\* Until the upgrade there is no bridge.
Opening ==
  IF reply = "upgraded"
    THEN pc["handler"] \notin Setup
    ELSE /\ pc["handler"] \in Setup \union {"done"}
         /\ pc["down"] = "off" /\ pc["up"] = "off"
         /\ ws = "none" /\ once = "unused"

\* What a handler has opened by the time it makes a call.
Progress ==
  /\ pc["keepalive"] \in {"off", "wait", "ask", "close", "done"}
  /\ pc["handler"] \in {"lookup", "dial"} => conn = "none" /\ pc["keepalive"] = "off"
  /\ pc["handler"] \in {"lookup", "dial", "active", "offsets", "session"} => channel = "none"

SshReleased == conn # "open" /\ channel \in {"none", "closed"}

\* How far the shutdown of the bridge has come.
Closing ==
  /\ once # "unused" => SshReleased
  /\ once = "done" => ws = "closed"
  /\ \A g \in Goroutines : pc[g] = "closeWS" => once # "unused"
  /\ pc["handler"] = "done" => IF reply = "upgraded" THEN once = "done" ELSE SshReleased

IInv == TypeOK /\ Opening /\ Progress /\ Closing

\* Where the handler is once the gate has let it through.
PastGate == {"session", "pty", "shell", "tail", "upgrade"}

\* The history of the gate against the journal it reads.
Gate ==
  /\ tracer = "resolved" => journal
  /\ "resolved" \in seen => journal
  /\ pc["handler"] \in {"active", "offsets"} => tracer \in seen
  /\ pc["handler"] \in {"lookup", "dial", "active", "offsets"} => "unanswered" \notin seen
  /\ (kind = "trace" /\ pc["handler"] \in PastGate /\ seen = {"blind"}) => journal
  /\ pc["handler"] \in Setup => reply = "none"

GInv == Gate /\ FailsOpen /\ BlindRefused

USE DEF Goroutines, PastGate

\* What a goroutine's step does to the program counters.
LEMMA GotoFacts ==
  ASSUME pc \in [Goroutines -> Pcs], NEW g \in Goroutines, NEW from, NEW to \in Pcs,
         Goto(g, from, to)
  PROVE  /\ pc' \in [Goroutines -> Pcs]
         /\ pc[g] = from /\ pc'[g] = to
         /\ g # "handler" => pc'["handler"] = pc["handler"]
         /\ g # "down" => pc'["down"] = pc["down"]
         /\ g # "up" => pc'["up"] = pc["up"]
         /\ g # "keepalive" => pc'["keepalive"] = pc["keepalive"]
BY DEF Goto

LEMMA RefuseFacts ==
  ASSUME pc \in [Goroutines -> Pcs], NEW why, Refuse(why)
  PROVE  /\ pc' \in [Goroutines -> Pcs] /\ reply' = why
         /\ pc'["handler"] = "done" /\ pc'["down"] = pc["down"] /\ pc'["up"] = pc["up"]
         /\ pc'["keepalive"] = pc["keepalive"]
BY DEF Refuse, Pcs

LEMMA CloseFacts ==
  ASSUME TypeOK, CloseSsh
  PROVE  /\ conn' = "closed" /\ channel' \in {"none", "closed"}
         /\ channel = "none" => channel' = "none"
BY DEF CloseSsh

\* Every step of the handler before the bridge moves the handler forward or ends
\* the request.
HandlerTo(p) ==
  /\ pc' \in [Goroutines -> Pcs] /\ pc'["handler"] = p
  /\ pc'["down"] = pc["down"] /\ pc'["up"] = pc["up"]
  /\ pc'["keepalive"] = pc["keepalive"]

LEMMA HandlerMoves ==
  ASSUME TypeOK, NEW from, NEW to \in Pcs, Goto("handler", from, to)
  PROVE  pc["handler"] = from /\ HandlerTo(to)
BY GotoFacts DEF HandlerTo, TypeOK

LEMMA HandlerRefuses ==
  ASSUME TypeOK, NEW why, Refuse(why)
  PROVE  HandlerTo("done") /\ reply' = why
BY RefuseFacts DEF HandlerTo, TypeOK

-----------------------------------------------------------------------------
(* A handler that has returned holds nothing *)

\* Nothing is open at first.
LEMMA InitKeeps == Init => IInv
<1> SUFFICES ASSUME Init PROVE IInv
  OBVIOUS
<1>1. /\ pc \in [Goroutines -> Pcs] /\ pc["handler"] = "lookup" /\ pc["down"] = "off"
      /\ pc["up"] = "off" /\ pc["keepalive"] = "off"
      /\ \A g \in Goroutines : pc[g] # "closeWS"
  BY DEF Init, Pcs
<1>2. TypeOK
  <2>1. queued \in 0..QueueSize
    BY QueueAssumption DEF Init
  <2>2. seen \subseteq {"off", "starting", "resolved", "blind", "unanswered", "misread"}
    BY DEF Init
  <2>3. done \in BOOLEAN /\ queueClosed \in BOOLEAN /\ admissible \in BOOLEAN
        /\ journal \in BOOLEAN
    BY DEF Init
  <2> QED BY <1>1, <2>1, <2>2, <2>3 DEF Init, TypeOK
<1>3. Opening /\ Progress /\ Closing
  BY <1>1 DEF Init, Opening, Progress, Closing, Setup
<1> QED BY <1>2, <1>3 DEF IInv

\* Ending a request before the upgrade with nothing left open keeps the invariant.
LEMMA RefusalKeeps ==
  ASSUME IInv, NEW why \in {"refused", "blind"}, Refuse(why),
         pc["handler"] \in Setup,
         \/ UNCHANGED <<conn, channel>> /\ pc["handler"] \in {"lookup", "dial"}
         \/ CloseSsh,
         done' \in BOOLEAN, seen' = seen \/ seen' = seen \union {"misread"},
         UNCHANGED <<envVars, wsVars, queueVars, tracer, journal>>
  PROVE  IInv'
<1> USE DEF envVars, wsVars, queueVars, gateVars
<1>1. HandlerTo("done") /\ reply' = why
  BY HandlerRefuses DEF IInv
<1>2. conn' \in {"none", "closed"} /\ channel' \in {"none", "closed"}
  BY CloseFacts DEF IInv, Progress
<1>3. reply # "upgraded"
  BY DEF IInv, Opening
<1>4. TypeOK'
  <2>1. seen' \subseteq {"off", "starting", "resolved", "blind", "unanswered", "misread"}
    BY DEF IInv, TypeOK
  <2> QED BY <1>1, <1>2, <2>1 DEF IInv, TypeOK, HandlerTo
<1>5. Opening'
  BY <1>1, <1>3 DEF IInv, Opening, HandlerTo
<1>6. Progress'
  BY <1>1 DEF IInv, Progress, HandlerTo
<1>7. Closing'
  BY <1>1, <1>2, <1>3 DEF IInv, Opening, Closing, SshReleased, HandlerTo
<1> QED BY <1>4, <1>5, <1>6, <1>7 DEF IInv

\* A call that succeeds: the handler moves on, and opens at most what Progress
\* allows by then.
LEMMA CallKeeps ==
  ASSUME IInv, NEW to \in Setup \ {"lookup"}, HandlerTo(to), pc["handler"] \in Setup,
         conn' \in {"none", "open", "closed"}, to = "dial" => conn' = conn /\ pc["handler"] = "lookup",
         channel' \in {"none", "open", "eof", "closed"},
         to \in {"dial", "active", "offsets", "session"} =>
           channel' = channel /\ pc["handler"] \in {"lookup", "dial", "active", "offsets"},
         seen' \subseteq {"off", "starting", "resolved", "blind", "unanswered", "misread"},
         UNCHANGED <<envVars, reply, done, wsVars, queueVars, tracer, journal>>
  PROVE  IInv'
<1> USE DEF envVars, wsVars, queueVars, Setup, Calls
<1>1. reply # "upgraded"
  BY DEF IInv, Opening
<1>2. TypeOK'
  BY DEF IInv, TypeOK, HandlerTo
<1>3. Opening'
  BY <1>1 DEF IInv, Opening, HandlerTo
<1>4. Progress'
  BY DEF IInv, Progress, HandlerTo
<1>5. Closing'
  BY <1>1 DEF IInv, Opening, Closing, HandlerTo
<1> QED BY <1>2, <1>3, <1>4, <1>5 DEF IInv

\* Each step of the handler before the bridge.
LEMMA OpenKeeps == ASSUME IInv, Open PROVE IInv'
<1> USE DEF envVars, sshVars, wsVars, queueVars, gateVars, Setup, Calls
<1>0. TypeOK /\ done \in BOOLEAN
  BY DEF IInv, TypeOK
<1>1. CASE Lookup
  <2>1. CASE admissible /\ status = "ready"
    <3>1. HandlerTo("dial")
      BY <1>0, <1>1, <2>1 DEF Lookup, HandlerTo, TypeOK, Pcs
    <3> QED BY <1>0, <1>1, <2>1, <3>1, CallKeeps DEF Lookup, TypeOK
  <2>2. CASE ~(admissible /\ status = "ready")
    BY <1>0, <1>1, <2>2, RefusalKeeps DEF Lookup
  <2> QED BY <2>1, <2>2
<1>2. CASE Dial
  <2>1. \E to \in {"active", "session"} : pc["handler"] = "dial" /\ HandlerTo(to)
    BY <1>0, <1>2, HandlerMoves DEF Dial, Pcs
  <2>2. seen' \subseteq {"off", "starting", "resolved", "blind", "unanswered", "misread"}
    BY <1>0, <1>2 DEF Dial, TypeOK
  <2> QED BY <1>0, <1>2, <2>1, <2>2, CallKeeps DEF Dial, TypeOK
<1>3. CASE DialFails
  BY <1>0, <1>3, RefusalKeeps DEF DialFails
<1>4. CASE GateIsActive
  <2>1. \E to \in {"offsets", "session"} : pc["handler"] = "active" /\ HandlerTo(to)
    BY <1>0, <1>4, HandlerMoves DEF GateIsActive, Unanswered, Pcs
  <2>2. seen' \subseteq {"off", "starting", "resolved", "blind", "unanswered", "misread"}
    BY <1>0, <1>4 DEF GateIsActive, Unanswered, TypeOK
  <2>3. UNCHANGED <<envVars, reply, conn, channel, done, wsVars, queueVars, tracer, journal>>
    BY <1>4 DEF GateIsActive, Unanswered
  <2> QED BY <1>0, <2>1, <2>2, <2>3, CallKeeps DEF TypeOK
<1>5. CASE GateOffsets
  <2>1. CASE Goto("handler", "offsets", "session") /\ UNCHANGED <<conn, channel, reply>>
    <3>1. pc["handler"] = "offsets" /\ HandlerTo("session")
      BY <1>0, <2>1, HandlerMoves DEF Pcs
    <3>2. seen' \subseteq {"off", "starting", "resolved", "blind", "unanswered", "misread"}
      BY <1>0, <1>5 DEF GateOffsets, Unanswered, TypeOK
    <3> QED BY <1>0, <1>5, <2>1, <3>1, <3>2, CallKeeps DEF GateOffsets, TypeOK
  <2>2. CASE /\ pc["handler"] = "offsets" /\ CloseSsh /\ Refuse("blind")
             /\ seen' = seen \/ seen' = seen \union {"misread"}
    BY <1>0, <1>5, <2>2, RefusalKeeps DEF GateOffsets
  <2> QED BY <1>5, <2>1, <2>2 DEF GateOffsets, Unanswered
<1>6. CASE OpenChannel
  <2>1. \E to \in {"tail", "pty"} : pc["handler"] = "session" /\ HandlerTo(to)
    BY <1>0, <1>6, HandlerMoves DEF OpenChannel, Pcs
  <2> QED BY <1>0, <1>6, <2>1, CallKeeps DEF OpenChannel, TypeOK
<1>7. CASE StartShell
  <2>1. \E to \in {"shell", "upgrade"} : pc["handler"] \in Setup /\ HandlerTo(to)
    BY <1>0, <1>7, HandlerMoves DEF StartShell, Pcs
  <2> QED BY <1>0, <1>7, <2>1, CallKeeps DEF StartShell, TypeOK
<1>8. CASE StartTail
  <2>1. /\ pc' \in [Goroutines -> Pcs] /\ pc["handler"] = "tail"
        /\ pc'["handler"] = "upgrade" /\ pc'["keepalive"] = "wait"
        /\ pc'["down"] = pc["down"] /\ pc'["up"] = pc["up"]
    BY <1>0, <1>8 DEF StartTail, TypeOK, Pcs
  <2>2. TypeOK'
    BY <1>0, <1>8, <2>1 DEF StartTail, TypeOK
  <2>3. Opening' /\ Progress'
    BY <1>8, <2>1 DEF StartTail, IInv, Opening, Progress
  <2>4. Closing'
    BY <1>8, <2>1 DEF StartTail, IInv, Opening, Closing, SshReleased
  <2> QED BY <2>2, <2>3, <2>4 DEF IInv
<1>9. CASE OpenFails
  BY <1>0, <1>9, RefusalKeeps DEF OpenFails
<1>10. CASE Upgrade
  <2>1. /\ pc' \in [Goroutines -> Pcs] /\ pc["handler"] = "upgrade"
        /\ pc'["handler"] \in {"recv", "readWS"} /\ pc'["keepalive"] = pc["keepalive"]
        /\ pc'["down"] = "readSSH" /\ pc'["up"] \in {"readWS", pc["up"]}
    BY <1>0, <1>10 DEF Upgrade, TypeOK, Pcs
  <2>2. ws' = "open" /\ reply' = "upgraded" /\ UNCHANGED <<envVars, sshVars, once, queueVars, gateVars>>
    BY <1>10 DEF Upgrade
  <2>3. reply # "upgraded" /\ once = "unused" /\ pc["up"] = "off"
    BY <2>1 DEF IInv, Opening
  <2>4. TypeOK'
    BY <1>0, <2>1, <2>2 DEF TypeOK
  <2>5. Opening' /\ Progress'
    BY <2>1, <2>2 DEF IInv, Opening, Progress
  <2>6. Closing'
    BY <2>1, <2>2, <2>3 DEF IInv, Closing, SshReleased, Progress
  <2> QED BY <2>4, <2>5, <2>6 DEF IInv
<1>11. CASE UpgradeFails
  <2>1. done' \in BOOLEAN
    BY <1>11 DEF UpgradeFails
  <2> QED BY <1>0, <1>11, <2>1, RefusalKeeps DEF UpgradeFails
<1> QED BY <1>1, <1>2, <1>3, <1>4, <1>5, <1>6, <1>7, <1>8, <1>9, <1>10, <1>11 DEF Open

\* What the bridging and the keepalive goroutines do to the program counters: none
\* enters the handler's Setup, and only a bridging goroutine gets to closeWS.
BridgeTo(g, p) ==
  /\ pc' \in [Goroutines -> Pcs] /\ pc'[g] = p
  /\ g # "handler" => pc'["handler"] = pc["handler"]
  /\ g # "down" => pc'["down"] = pc["down"]
  /\ g # "up" => pc'["up"] = pc["up"]
  /\ g # "keepalive" => pc'["keepalive"] = pc["keepalive"]

LEMMA BridgeMoves ==
  ASSUME TypeOK, NEW g \in Goroutines, NEW from, NEW to \in Pcs, Goto(g, from, to)
  PROVE  pc[g] = from /\ BridgeTo(g, to)
BY GotoFacts DEF BridgeTo, TypeOK

Relaying == {"recv", "readSSH", "readWS", "send", "write", "shutdown"}

\* A step of a pump that closes nothing.
LEMMA PumpKeeps ==
  ASSUME IInv, NEW g \in {"handler", "down", "up"}, NEW to \in Relaying, BridgeTo(g, to),
         pc[g] \in Relaying,
         queued' \in 0..QueueSize, queueClosed' \in BOOLEAN,
         UNCHANGED <<envVars, reply, sshVars, wsVars, gateVars>>
  PROVE  IInv'
<1> USE DEF envVars, sshVars, wsVars, gateVars, Relaying
<1>1. reply = "upgraded"
  BY DEF IInv, Opening, Setup, Calls
<1>2. TypeOK'
  BY DEF IInv, TypeOK, BridgeTo
<1>3. Opening'
  BY <1>1 DEF IInv, Opening, BridgeTo, Setup, Calls
<1>4. Progress'
  BY <1>1 DEF IInv, Opening, Progress, BridgeTo, Setup, Calls
<1>5. Closing'
  BY <1>1 DEF IInv, Closing, SshReleased, BridgeTo
<1> QED BY <1>2, <1>3, <1>4, <1>5 DEF IInv

\* A step of the keepalive that closes nothing, or closes the SSH side.
LEMMA KeepaliveKeeps == ASSUME IInv, Keepalive PROVE IInv'
<1> USE DEF envVars, sshVars, wsVars, queueVars, gateVars
<1>0. TypeOK
  BY DEF IInv
<1>1. \E p \in {"wait", "ask", "close", "done"} :
        BridgeTo("keepalive", p) /\ pc["keepalive"] \in {"wait", "ask", "close"}
  BY <1>0, BridgeMoves DEF Keepalive, Tick, Stopped, Ask, KeepaliveClose, Pcs
<1>2. UNCHANGED <<envVars, reply, wsVars, queueVars, gateVars>>
  BY DEF Keepalive, Tick, Stopped, Ask, KeepaliveClose
<1>3. \/ UNCHANGED <<conn, channel, done>>
      \/ /\ conn' = "closed" /\ channel' \in {"none", "closed"} /\ done' = TRUE
         /\ channel = "none" => channel' = "none"
  BY <1>0, CloseFacts DEF Keepalive, Tick, Stopped, Ask, KeepaliveClose
<1>4. TypeOK'
  <2>1. done' \in BOOLEAN
    BY <1>0, <1>3 DEF TypeOK
  <2> QED BY <1>0, <1>1, <1>2, <1>3, <2>1 DEF TypeOK, BridgeTo
<1>5. Opening'
  BY <1>1, <1>2 DEF IInv, Opening, BridgeTo
<1>6. Progress'
  BY <1>1, <1>2, <1>3 DEF IInv, Progress, BridgeTo
<1>7. Closing'
  BY <1>1, <1>2, <1>3 DEF IInv, Closing, SshReleased, BridgeTo
<1> QED BY <1>4, <1>5, <1>6, <1>7 DEF IInv

\* The shutdown of the bridge, by whichever goroutine comes first.
LEMMA ShutdownKeeps == ASSUME IInv, NEW g \in Goroutines, Shutdown(g) PROVE IInv'
<1> USE DEF envVars, sshVars, wsVars, queueVars, gateVars
<1>0. TypeOK /\ g # "keepalive"
  BY DEF IInv, Progress, Shutdown, CloseSession, CloseWs, AwaitShutdown, Goto
<1>1. reply = "upgraded"
  BY <1>0 DEF IInv, Opening, Setup, Calls, Shutdown, CloseSession, CloseWs, AwaitShutdown, Goto
<1>2. CASE CloseSession(g)
  <2>1. BridgeTo(g, "closeWS")
    BY <1>0, <1>2, BridgeMoves DEF CloseSession, Pcs
  <2>2. /\ conn' = "closed" /\ channel' \in {"none", "closed"} /\ done' \in BOOLEAN
        /\ once = "unused" /\ once' = "running" /\ pc[g] = "shutdown"
        /\ UNCHANGED <<envVars, reply, ws, queueVars, gateVars>>
    BY <1>0, <1>2, CloseFacts DEF CloseSession, Goto
  <2>3. TypeOK'
    BY <1>0, <2>1, <2>2 DEF TypeOK, BridgeTo
  <2>4. Opening' /\ Progress'
    BY <1>0, <1>1, <2>1, <2>2 DEF IInv, Opening, Progress, BridgeTo, Setup, Calls
  <2>5. Closing'
    BY <1>0, <1>1, <2>1, <2>2 DEF IInv, Closing, SshReleased, BridgeTo
  <2> QED BY <2>3, <2>4, <2>5 DEF IInv
<1>3. CASE CloseWs(g)
  <2>1. BridgeTo(g, "done") /\ pc[g] = "closeWS"
    BY <1>0, <1>3, BridgeMoves DEF CloseWs, Pcs
  <2>2. /\ ws' = "closed" /\ once' = "done" /\ once # "unused"
        /\ UNCHANGED <<envVars, reply, sshVars, queueVars, gateVars>>
    BY <1>3, <2>1 DEF CloseWs, IInv, Closing
  <2>3. TypeOK'
    BY <1>0, <2>1, <2>2 DEF TypeOK, BridgeTo
  <2>4. Opening' /\ Progress'
    BY <1>0, <1>1, <2>1, <2>2 DEF IInv, Opening, Progress, BridgeTo, Setup, Calls
  <2>5. Closing'
    BY <1>0, <1>1, <2>1, <2>2 DEF IInv, Closing, SshReleased, BridgeTo
  <2> QED BY <2>3, <2>4, <2>5 DEF IInv
<1>4. CASE AwaitShutdown(g)
  <2>1. BridgeTo(g, "done") /\ pc[g] = "shutdown"
    BY <1>0, <1>4, BridgeMoves DEF AwaitShutdown, Pcs
  <2>2. once = "done" /\ UNCHANGED <<envVars, reply, sshVars, wsVars, queueVars, gateVars>>
    BY <1>4 DEF AwaitShutdown
  <2>3. TypeOK'
    BY <1>0, <2>1, <2>2 DEF TypeOK, BridgeTo
  <2>4. Opening' /\ Progress'
    BY <1>0, <1>1, <2>1, <2>2 DEF IInv, Opening, Progress, BridgeTo, Setup, Calls
  <2>5. Closing'
    BY <1>0, <1>1, <2>1, <2>2 DEF IInv, Closing, SshReleased, BridgeTo
  <2> QED BY <2>3, <2>4, <2>5 DEF IInv
<1> QED BY <1>2, <1>3, <1>4 DEF Shutdown

\* Each step of the pumps.
LEMMA BridgeKeeps == ASSUME IInv, Bridge PROVE IInv'
<1> USE DEF envVars, sshVars, wsVars, queueVars, gateVars, Relaying
<1>0. TypeOK /\ queued \in 0..QueueSize /\ queueClosed \in BOOLEAN /\ QueueSize \in Nat
  BY QueueAssumption DEF IInv, TypeOK
<1>1. CASE ReadSsh
  <2>1. CASE kind = "attach"
    <3>1. pc["down"] = "readSSH" /\ BridgeTo("down", "send")
      BY <1>0, <1>1, <2>1, BridgeMoves DEF ReadSsh, Pcs
    <3> QED BY <1>0, <1>1, <2>1, <3>1, PumpKeeps DEF ReadSsh
  <2>2. CASE kind # "attach"
    <3>1. pc["down"] = "readSSH" /\ BridgeTo("down", "readSSH")
      BY <1>0, <1>1, <2>2 DEF ReadSsh, BridgeTo, TypeOK
    <3>2. queued' \in 0..QueueSize
      BY <1>0, <1>1, <2>2 DEF ReadSsh
    <3> QED BY <1>0, <1>1, <3>1, <3>2, PumpKeeps DEF ReadSsh
  <2> QED BY <2>1, <2>2
<1>2. CASE ReadSshFails
  <2>1. pc["down"] = "readSSH" /\ BridgeTo("down", "shutdown")
    BY <1>0, <1>2, BridgeMoves DEF ReadSshFails, Pcs
  <2>2. queueClosed' \in BOOLEAN
    BY <1>2 DEF ReadSshFails
  <2> QED BY <1>0, <1>2, <2>1, <2>2, PumpKeeps DEF ReadSshFails
<1>3. CASE Receive
  <2>1. \E to \in {"send", "shutdown"} : pc["handler"] = "recv" /\ BridgeTo("handler", to)
    BY <1>0, <1>3, BridgeMoves DEF Receive, Pcs
  <2>2. queued' \in 0..QueueSize
    BY <1>0, <1>3 DEF Receive
  <2> QED BY <1>0, <1>3, <2>1, <2>2, PumpKeeps DEF Receive
<1>4. CASE WriteWs
  <2>1. \/ pc["down"] = "send" /\ BridgeTo("down", "readSSH")
        \/ pc["handler"] = "send" /\ BridgeTo("handler", "recv")
    BY <1>0, <1>4, BridgeMoves DEF WriteWs, Sent, Pcs
  <2> QED BY <1>0, <1>4, <2>1, PumpKeeps DEF WriteWs
<1>5. CASE WriteWsFails
  <2>1. \E g \in {"down", "handler"} : pc[g] = "send" /\ BridgeTo(g, "shutdown")
    BY <1>0, <1>5, BridgeMoves DEF WriteWsFails, Pcs
  <2> QED BY <1>0, <1>5, <2>1, PumpKeeps DEF WriteWsFails
<1>6. CASE ReadWs
  <2>1. pc["handler"] = "readWS" /\ BridgeTo("handler", "write")
    BY <1>0, <1>6, BridgeMoves DEF ReadWs, Pcs
  <2> QED BY <1>0, <1>6, <2>1, PumpKeeps DEF ReadWs
<1>7. CASE ReadWsFails
  <2>1. \E g \in {"up", "handler"} : pc[g] = "readWS" /\ BridgeTo(g, "shutdown")
    BY <1>0, <1>7, BridgeMoves DEF ReadWsFails, WsReader, Pcs
  <2> QED BY <1>0, <1>7, <2>1, PumpKeeps DEF ReadWsFails
<1>8. CASE WriteSsh \/ WriteSshFails
  <2>1. \E to \in {"readWS", "shutdown"} : pc["handler"] = "write" /\ BridgeTo("handler", to)
    BY <1>0, <1>8, BridgeMoves DEF WriteSsh, WriteSshFails, Pcs
  <2> QED BY <1>0, <1>8, <2>1, PumpKeeps DEF WriteSsh, WriteSshFails
<1>9. CASE \E g \in Goroutines : Shutdown(g)
  BY <1>9, ShutdownKeeps
<1> QED BY <1>1, <1>2, <1>3, <1>4, <1>5, <1>6, <1>7, <1>8, <1>9 DEF Bridge

\* The environment opens nothing and moves no goroutine.
LEMMA EnvironmentKeeps == ASSUME IInv, Environment PROVE IInv'
<1> USE DEF envVars, sshVars, wsVars, queueVars, gateVars
<1>1. UNCHANGED <<pc, reply, conn, wsVars, done, queueVars, kind, admissible>>
  BY DEF Environment, Publish, PeerFails, KernelGivesUp, ProcessEnds, BrowserLeaves,
         TracerChanges
<1>2. channel' = channel \/ (channel = "open" /\ channel' = "eof")
  BY DEF Environment, Publish, PeerFails, KernelGivesUp, ProcessEnds, BrowserLeaves,
         TracerChanges
<1>3. /\ status' \in {"booting", "ready", "error"}
      /\ peer' \in {"answers", "wedged", "cut", "reset"} /\ browser' \in {"there", "gone"}
  BY DEF IInv, TypeOK, Environment, Publish, PeerFails, KernelGivesUp, ProcessEnds,
         BrowserLeaves, TracerChanges
<1>4. tracer' \in {"off", "starting", "resolved", "blind"} /\ journal' \in BOOLEAN
  BY DEF IInv, TypeOK, Environment, Publish, PeerFails, KernelGivesUp, ProcessEnds,
         BrowserLeaves, TracerChanges
<1>5. seen' \subseteq {"off", "starting", "resolved", "blind", "unanswered", "misread"}
  BY <1>4 DEF IInv, TypeOK, Environment, Publish, PeerFails, KernelGivesUp, ProcessEnds,
         BrowserLeaves, TracerChanges
<1>6. TypeOK'
  BY <1>1, <1>2, <1>3, <1>4, <1>5 DEF IInv, TypeOK
<1>7. Opening' /\ Progress'
  BY <1>1, <1>2 DEF IInv, Opening, Progress
<1>8. Closing'
  BY <1>1, <1>2 DEF IInv, Closing, SshReleased
<1> QED BY <1>6, <1>7, <1>8 DEF IInv

LEMMA StutterKeeps == ASSUME IInv, UNCHANGED vars PROVE IInv'
<1> USE DEF vars, envVars, sshVars, wsVars, queueVars, gateVars
<1>1. TypeOK'
  BY DEF IInv, TypeOK
<1>2. Opening' /\ Progress' /\ Closing'
  BY DEF IInv, Opening, Progress, Closing, SshReleased
<1> QED BY <1>1, <1>2 DEF IInv

\* The invariant that carries TypeOK and Released.
THEOREM Invariance == Spec => []IInv
<1>1. ASSUME IInv, [Next]_vars PROVE IInv'
  <2>1. CASE UNCHANGED vars
    BY <1>1, <2>1, StutterKeeps
  <2>2. CASE Next
    <3>1. CASE Terminated
      BY <1>1, <3>1, StutterKeeps DEF Terminated
    <3> QED BY <1>1, <2>2, <3>1, OpenKeeps, BridgeKeeps, KeepaliveKeeps, EnvironmentKeeps
            DEF Next
  <2> QED BY <1>1, <2>1, <2>2
<1> QED BY InitKeeps, <1>1, PTL DEF Spec

\* Every variable of a request keeps its type, for every size of the trace queue.
THEOREM TypeCorrect == Spec => []TypeOK
<1>1. IInv => TypeOK
  BY DEF IInv
<1> QED BY <1>1, Invariance, PTL

\* A handler that has returned holds neither SSH connection nor WebSocket, on every
\* path through opening, bridging and keepalive.
THEOREM NothingHeld == Spec => []Released
<1>1. IInv => Released
  BY DEF IInv, Opening, Closing, SshReleased, Released
<1> QED BY <1>1, Invariance, PTL

-----------------------------------------------------------------------------
(* What the health gate refuses and lets through *)

\* From the bridge on, the gate and its verdict are history.
LEMMA LaterKeepsGate ==
  ASSUME IInv, GInv, Bridge \/ Keepalive
  PROVE  GInv'
<1> USE DEF envVars, sshVars, wsVars, queueVars, gateVars
<1>0. TypeOK
  BY DEF IInv
<1>1. UNCHANGED <<kind, reply, tracer, journal, seen>>
  BY DEF Bridge, Keepalive, ReadSsh, ReadSshFails, Receive, WriteWs, WriteWsFails, ReadWs,
         ReadWsFails, WriteSsh, WriteSshFails, Shutdown, CloseSession, CloseWs, AwaitShutdown,
         Tick, Stopped, Ask, KeepaliveClose
<1>2. \/ pc'["handler"] = pc["handler"]
      \/ pc'["handler"] \in Relaying \union {"closeWS", "done"}
  <2>1. CASE Keepalive
    BY <1>0, <2>1, BridgeMoves DEF Keepalive, Tick, Stopped, Ask, KeepaliveClose, BridgeTo, Pcs
  <2>2. CASE Bridge
    <3>1. CASE ReadSsh \/ ReadSshFails
      BY <1>0, <3>1, BridgeMoves DEF ReadSsh, ReadSshFails, BridgeTo, Pcs
    <3>2. CASE Receive
      BY <1>0, <3>2, BridgeMoves DEF Receive, BridgeTo, Relaying, Pcs
    <3>3. CASE WriteWs \/ WriteWsFails
      BY <1>0, <3>3, BridgeMoves DEF WriteWs, WriteWsFails, Sent, BridgeTo, Relaying, Pcs
    <3>4. CASE ReadWs \/ ReadWsFails \/ WriteSsh \/ WriteSshFails
      BY <1>0, <3>4, BridgeMoves DEF ReadWs, ReadWsFails, WsReader, WriteSsh, WriteSshFails,
         BridgeTo, Relaying, Pcs
    <3>5. CASE \E g \in Goroutines : Shutdown(g)
      BY <1>0, <3>5, BridgeMoves DEF Shutdown, CloseSession, CloseWs, AwaitShutdown,
         BridgeTo, Relaying, Pcs
    <3> QED BY <2>2, <3>1, <3>2, <3>3, <3>4, <3>5 DEF Bridge
  <2> QED BY <2>1, <2>2
<1>3. Gate'
  BY <1>1, <1>2 DEF GInv, Gate, Relaying, Setup, Calls
<1>4. FailsOpen' /\ BlindRefused'
  BY <1>1 DEF GInv, FailsOpen, BlindRefused
<1> QED BY <1>3, <1>4 DEF GInv

\* The tracer may restart while the gate asks; everything it was is in `seen`.
LEMMA EnvironmentKeepsGate == ASSUME IInv, GInv, Environment PROVE GInv'
<1> USE DEF envVars
<1>1. CASE TracerChanges
  <2>1. reply = "none" /\ pc' = pc /\ reply' = reply /\ kind' = kind
    BY <1>1 DEF TracerChanges, Gating, GInv, Gate, Setup, Calls
  <2>2. /\ tracer' = "resolved" => journal'
        /\ "resolved" \in seen' => journal'
    BY <1>1 DEF TracerChanges, GInv, Gate
  <2>3. /\ pc["handler"] \in {"active", "offsets"} => tracer' \in seen'
        /\ pc["handler"] \notin PastGate
    BY <1>1 DEF TracerChanges, Gating
  <2>4. pc["handler"] \in {"lookup", "dial", "active", "offsets"} => "unanswered" \notin seen'
    BY <1>1 DEF TracerChanges, GInv, Gate
  <2> QED BY <2>1, <2>2, <2>3, <2>4 DEF GInv, Gate, FailsOpen, BlindRefused
<1>2. CASE UNCHANGED <<kind, pc, reply, tracer, journal, seen>>
  BY <1>2 DEF GInv, Gate, FailsOpen, BlindRefused
<1>3. TracerChanges \/ UNCHANGED <<kind, pc, reply, tracer, journal, seen>>
  BY DEF Environment, Publish, PeerFails, KernelGivesUp, ProcessEnds, BrowserLeaves, gateVars
<1> QED BY <1>1, <1>2, <1>3

\* The handler's way through the gate.
LEMMA OpenKeepsGate == ASSUME IInv, GInv, Open PROVE GInv'
<1> USE DEF envVars, gateVars, Setup, Calls, GInv, Gate, FailsOpen, BlindRefused
<1>0. TypeOK /\ pc["handler"] \in Setup /\ reply = "none"
  <2>1. TypeOK
    BY DEF IInv
  <2>2. pc["handler"] \in Setup
    BY DEF Open, Lookup, Dial, DialFails, GateIsActive, GateOffsets, Unanswered, OpenChannel, StartShell,
           StartTail, OpenFails, Upgrade, UpgradeFails, Goto
  <2> QED BY <2>1, <2>2
<1>1. CASE Dial
  <2>1. /\ kind' = kind /\ reply' = reply /\ tracer' = tracer /\ journal' = journal
        /\ kind = "trace" => pc'["handler"] = "active" /\ seen' = {tracer}
        /\ kind # "trace" => pc'["handler"] = "session" /\ seen' = seen
        /\ tracer # "unanswered"
    BY <1>0, <1>1, HandlerMoves DEF Dial, HandlerTo, TypeOK, Pcs
  <2> QED BY <1>0, <2>1
<1>2. CASE GateIsActive
  <2>1. /\ kind' = kind /\ reply' = reply /\ tracer' = tracer /\ journal' = journal
        /\ pc["handler"] = "active"
        /\ \/ seen' = seen /\ pc'["handler"] = "offsets"
           \/ seen' = seen /\ tracer = "off" /\ pc'["handler"] = "session"
           \/ seen' = seen \union {"misread"} /\ pc'["handler"] = "session"
           \/ seen' = seen \union {"unanswered"} /\ pc'["handler"] = "session"
    BY <1>0, <1>2, HandlerMoves DEF GateIsActive, Unanswered, HandlerTo, Pcs
  <2> QED BY <1>0, <2>1
<1>3. CASE GateOffsets
  <2>1. /\ kind' = kind /\ tracer' = tracer /\ journal' = journal /\ pc["handler"] = "offsets"
        /\ \/ pc'["handler"] = "session" /\ seen' = seen /\ reply' = reply /\ journal
           \/ /\ pc'["handler"] = "done" /\ reply' = "blind"
              /\ seen' = IF journal THEN seen \union {"misread"} ELSE seen
           \/ pc'["handler"] = "session" /\ seen' = seen \union {"unanswered"} /\ reply' = reply
    BY <1>0, <1>3, HandlerMoves, HandlerRefuses DEF GateOffsets, Unanswered, HandlerTo, Pcs
  <2> QED BY <1>0, <2>1
<1>4. CASE Lookup
  <2>1. /\ kind' = kind /\ tracer' = tracer /\ journal' = journal /\ seen' = seen
        /\ pc["handler"] = "lookup"
        /\ \/ pc'["handler"] = "dial" /\ reply' = reply
           \/ pc'["handler"] = "done" /\ reply' = "refused"
    BY <1>0, <1>4, HandlerRefuses DEF Lookup, HandlerTo, TypeOK
  <2> QED BY <1>0, <2>1
<1>5. CASE DialFails \/ OpenFails \/ UpgradeFails
  <2>1. /\ kind' = kind /\ tracer' = tracer /\ journal' = journal /\ seen' = seen
        /\ pc'["handler"] = "done" /\ reply' = "refused"
    BY <1>0, <1>5, HandlerRefuses DEF DialFails, OpenFails, UpgradeFails, HandlerTo
  <2> QED BY <1>0, <2>1
<1>6. CASE OpenChannel \/ StartShell \/ StartTail
  <2>1. /\ kind' = kind /\ reply' = reply /\ tracer' = tracer /\ journal' = journal
        /\ seen' = seen /\ pc'["handler"] \in {"tail", "pty", "shell", "upgrade"}
    BY <1>0, <1>6, HandlerMoves DEF OpenChannel, StartShell, StartTail, HandlerTo, TypeOK, Pcs
  <2>2. pc["handler"] \in PastGate
    BY <1>6 DEF OpenChannel, StartShell, StartTail, Goto
  <2> QED BY <1>0, <2>1, <2>2
<1>7. CASE Upgrade
  <2>1. /\ kind' = kind /\ tracer' = tracer /\ journal' = journal /\ seen' = seen
        /\ pc["handler"] = "upgrade" /\ pc'["handler"] \in {"recv", "readWS"}
        /\ reply' = "upgraded"
    BY <1>0, <1>7 DEF Upgrade, TypeOK
  <2> QED BY <1>0, <2>1
<1> QED BY <1>1, <1>2, <1>3, <1>4, <1>5, <1>6, <1>7 DEF Open

\* The invariant that carries FailsOpen and BlindRefused.
THEOREM GateInvariance == Spec => []GInv
<1>1. Init => GInv
  BY DEF Init, GInv, Gate, FailsOpen, BlindRefused
<1>2. ASSUME IInv, GInv, [Next]_vars PROVE GInv'
  <2>1. CASE UNCHANGED vars \/ Terminated
    BY <1>2, <2>1 DEF Terminated, vars, envVars, gateVars, GInv, Gate, FailsOpen,
       BlindRefused
  <2> QED BY <1>2, <2>1, OpenKeepsGate, LaterKeepsGate, EnvironmentKeepsGate DEF Next
<1> QED BY <1>1, <1>2, Invariance, PTL DEF Spec

\* A command of the gate that cannot be run lets the stream pass, and a tracer that has
\* resolved, however it restarts while it is asked, is refused only on a second command
\* that exits non-zero in spite of its line (trace.go:56-59, 66-88).
THEOREM GateFailsOpen == Spec => []FailsOpen
<1>1. GInv => FailsOpen
  BY DEF GInv
<1> QED BY <1>1, GateInvariance, PTL

\* The gate lets a tracer through that was blind all the while only on the word of
\* an earlier run.
THEOREM BlindNotStreamed == Spec => []BlindRefused
<1>1. GInv => BlindRefused
  BY DEF GInv
<1> QED BY <1>1, GateInvariance, PTL

-----------------------------------------------------------------------------
(* Shutdown frees whoever is blocked, and the keepalive stays with its stream *)

\* Which goroutine waits where.
Pumps ==
  /\ pc["down"] \in {"off", "readSSH", "send", "shutdown", "closeWS", "done"}
  /\ pc["up"] \in {"off", "readWS", "shutdown", "closeWS", "done"}
  /\ pc["handler"] = "recv" => kind = "trace"
  /\ pc["down"] = "send" => kind = "attach"
  /\ pc["handler"] \in {"pty", "shell"} => kind = "attach"
  /\ (kind = "trace" /\ reply = "upgraded" /\ ~queueClosed) => pc["down"] = "readSSH"

\* The caller that runs shutdown is not done with it.
Closer == once = "running" => \E g \in Goroutines : pc[g] = "closeWS"

\* What is open at each stage.
Holding ==
  /\ pc["handler"] \in Calls \ {"dial"} => conn = "open" /\ pc["keepalive"] = "off"
  /\ (pc["handler"] = "upgrade" \/ reply = "upgraded") => conn # "none"
  /\ pc["keepalive"] # "off" => conn # "none"
  /\ conn = "none" => channel = "none"
  /\ conn = "closed" => channel \in {"none", "closed"}
  /\ reply = "none" <=> pc["handler"] \in Setup

\* sshTrace.done is closed with the connection, and nothing else lets the keepalive go.
Watching ==
  /\ done => conn # "open" /\ pc["handler"] \notin {"lookup", "dial"}
  /\ (kind = "trace" /\ (pc["handler"] = "upgrade" \/ reply = "upgraded") /\ conn = "open")
       => pc["keepalive"] \in {"wait", "ask", "close"}

LInv == Pumps /\ Closer /\ Holding /\ Watching

LEMMA InitRoles == Init => LInv
BY DEF Init, LInv, Pumps, Closer, Holding, Watching, Setup, Calls

\* A request that ends before the upgrade.
LEMMA RefusalRoles ==
  ASSUME IInv, LInv, NEW why \in {"refused", "blind"}, Refuse(why),
         pc["handler"] \in Setup,
         \/ UNCHANGED sshVars /\ pc["handler"] \in {"lookup", "dial"}
         \/ CloseSsh /\ pc["handler"] \notin {"lookup", "dial"},
         UNCHANGED <<kind, once, queueClosed>>
  PROVE  LInv'
<1> USE DEF sshVars, Setup, Calls
<1>1. HandlerTo("done") /\ reply' = why
  BY HandlerRefuses DEF IInv
<1>2. reply # "upgraded" /\ once = "unused" /\ pc["down"] = "off" /\ pc["up"] = "off"
  BY DEF IInv, Opening
<1>3. Pumps' /\ Closer'
  BY <1>1, <1>2 DEF Pumps, Closer, HandlerTo
<1>4. CASE UNCHANGED sshVars /\ pc["handler"] \in {"lookup", "dial"}
  <2>1. conn = "none" /\ channel = "none" /\ ~done /\ pc["keepalive"] = "off"
    BY <1>4 DEF IInv, Progress, LInv, Watching
  <2>2. Holding' /\ Watching'
    BY <1>1, <1>4, <2>1 DEF Holding, Watching, HandlerTo
  <2> QED BY <1>3, <2>2 DEF LInv
<1>5. CASE CloseSsh
  <2>1. conn' = "closed" /\ channel' \in {"none", "closed"}
    BY <1>5, CloseFacts DEF IInv
  <2>2. Holding' /\ Watching'
    BY <1>1, <2>1 DEF Holding, Watching, HandlerTo
  <2> QED BY <1>3, <2>2 DEF LInv
<1> QED BY <1>4, <1>5

\* A call that succeeds, up to the start of the tail.
LEMMA CallRoles ==
  ASSUME IInv, LInv, NEW from \in Calls \union {"lookup"},
         NEW to \in (Calls \union {"upgrade"}) \ {"dial"},
         pc["handler"] = from, HandlerTo(to),
         from # "lookup", to = "upgrade" => from = "shell",
         to = "pty" => kind = "attach", to = "shell" => from = "pty",
         from = "dial" => conn' = "open" /\ UNCHANGED channel,
         from # "dial" => UNCHANGED conn /\ channel' \in {channel, "open"},
         UNCHANGED <<kind, reply, done, once, queueClosed>>
  PROVE  LInv'
<1> USE DEF Setup, Calls
<1>1. reply = "none" /\ once = "unused" /\ pc["down"] = "off" /\ pc["up"] = "off"
  BY DEF IInv, Opening, LInv, Holding
<1>2. Pumps' /\ Closer'
  BY <1>1 DEF LInv, Pumps, Closer, HandlerTo
<1>3. conn' = "open" /\ pc["keepalive"] = "off" /\ ~done
  BY DEF IInv, Progress, LInv, Holding, Watching
<1>4. Holding' /\ Watching'
  BY <1>1, <1>3 DEF LInv, Pumps, Holding, Watching, HandlerTo
<1> QED BY <1>2, <1>4 DEF LInv

LEMMA OpenRoles == ASSUME IInv, LInv, Open PROVE LInv'
<1> USE DEF envVars, sshVars, wsVars, queueVars, gateVars, Calls
<1>0. TypeOK
  BY DEF IInv
<1>1. CASE Lookup
  <2>1. CASE admissible /\ status = "ready"
    <3>1. /\ HandlerTo("dial") /\ pc["handler"] = "lookup"
          /\ UNCHANGED <<kind, reply, conn, channel, done, once, queueClosed>>
      BY <1>0, <1>1, <2>1 DEF Lookup, HandlerTo, TypeOK, Pcs
    <3>2. reply = "none" /\ once = "unused" /\ ~done
      BY <3>1 DEF IInv, Opening, LInv, Holding, Watching, Setup
    <3> QED BY <3>1, <3>2 DEF IInv, Progress, LInv, Pumps, Closer, Holding, Watching, HandlerTo, Setup
  <2>2. CASE ~(admissible /\ status = "ready")
    BY <1>0, <1>1, <2>2, RefusalRoles DEF Lookup, Setup
  <2> QED BY <2>1, <2>2
<1>2. CASE Dial
  <2>1. \E to \in {"active", "session"} : pc["handler"] = "dial" /\ HandlerTo(to)
    BY <1>0, <1>2, HandlerMoves DEF Dial, Pcs
  <2> QED BY <1>2, <2>1, CallRoles DEF Dial
<1>3. CASE DialFails
  BY <1>3, RefusalRoles DEF DialFails, Setup
<1>4. CASE GateIsActive
  <2>1. \E to \in {"offsets", "session"} : pc["handler"] = "active" /\ HandlerTo(to)
    BY <1>0, <1>4, HandlerMoves DEF GateIsActive, Unanswered, Pcs
  <2> QED BY <1>4, <2>1, CallRoles DEF GateIsActive, Unanswered
<1>5. CASE GateOffsets
  <2>1. CASE Goto("handler", "offsets", "session") /\ UNCHANGED <<conn, channel, reply>>
    <3>1. pc["handler"] = "offsets" /\ HandlerTo("session")
      BY <1>0, <2>1, HandlerMoves DEF Pcs
    <3> QED BY <1>5, <2>1, <3>1, CallRoles DEF GateOffsets
  <2>2. CASE pc["handler"] = "offsets" /\ CloseSsh /\ Refuse("blind")
    BY <1>5, <2>2, RefusalRoles DEF GateOffsets, Setup
  <2> QED BY <1>5, <2>1, <2>2 DEF GateOffsets, Unanswered
<1>6. CASE OpenChannel
  <2>1. pc["handler"] = "session" /\ HandlerTo(IF kind = "trace" THEN "tail" ELSE "pty")
    BY <1>0, <1>6, HandlerMoves DEF OpenChannel, Pcs
  <2>2. kind = "trace" \/ kind = "attach"
    BY <1>0 DEF TypeOK
  <2> QED BY <1>6, <2>1, <2>2, CallRoles DEF OpenChannel
<1>7. CASE StartShell
  <2>1. \/ pc["handler"] = "pty" /\ HandlerTo("shell")
        \/ pc["handler"] = "shell" /\ HandlerTo("upgrade")
    BY <1>0, <1>7, HandlerMoves DEF StartShell, Pcs
  <2> QED BY <1>7, <2>1, CallRoles DEF StartShell
<1>8. CASE StartTail
  <2>1. /\ pc["handler"] = "tail"
        /\ pc'["handler"] = "upgrade" /\ pc'["keepalive"] = "wait"
        /\ pc'["down"] = pc["down"] /\ pc'["up"] = pc["up"]
        /\ UNCHANGED <<kind, reply, conn, channel, done, once, queueClosed>>
    BY <1>0, <1>8 DEF StartTail, TypeOK
  <2>2. conn = "open" /\ reply = "none" /\ once = "unused"
    BY <2>1 DEF IInv, Opening, LInv, Holding, Setup
  <2> QED BY <2>1, <2>2 DEF LInv, Pumps, Closer, Holding, Watching, Setup
<1>9. CASE OpenFails
  BY <1>9, RefusalRoles DEF OpenFails, Setup
<1>10. CASE Upgrade
  <2>1. /\ pc["handler"] = "upgrade" /\ reply' = "upgraded"
        /\ pc'["handler"] \in {"recv", "readWS"} /\ pc'["keepalive"] = pc["keepalive"]
        /\ pc'["down"] = "readSSH" /\ pc'["up"] \in {"readWS", pc["up"]}
        /\ pc'["handler"] = "recv" => kind = "trace"
        /\ UNCHANGED <<kind, conn, channel, done, once, queueClosed>>
    BY <1>0, <1>10 DEF Upgrade, TypeOK
  <2>2. once = "unused" /\ pc["up"] = "off"
    BY <2>1 DEF IInv, Opening, LInv, Holding, Setup
  <2> QED BY <2>1, <2>2 DEF LInv, Pumps, Closer, Holding, Watching, Setup
<1>11. CASE UpgradeFails
  <2>1. /\ pc["handler"] = "upgrade" /\ HandlerTo("done") /\ reply' = "refused"
        /\ conn' = "closed" /\ channel' \in {"none", "closed"}
        /\ UNCHANGED <<kind, once, queueClosed>>
    BY <1>0, <1>11, HandlerRefuses, CloseFacts DEF UpgradeFails
  <2>2. once = "unused" /\ pc["down"] = "off" /\ pc["up"] = "off"
    BY <2>1 DEF IInv, Opening, LInv, Holding, Setup
  <2> QED BY <2>1, <2>2 DEF LInv, Pumps, Closer, Holding, Watching, Setup, HandlerTo
<1> QED BY <1>1, <1>2, <1>3, <1>4, <1>5, <1>6, <1>7, <1>8, <1>9, <1>10, <1>11 DEF Open

\* A step of a pump that is not a step of shutdown.
LEMMA PumpRoles ==
  ASSUME IInv, LInv, NEW g \in {"handler", "down", "up"}, NEW to \in Relaying, BridgeTo(g, to),
         pc[g] \in Relaying,
         g = "up" => to = "shutdown",
         g = "down" => \/ to = "send" /\ kind = "attach"
                       \/ to = "readSSH"
                       \/ to = "shutdown" /\ (kind = "trace" => queueClosed'),
         g = "handler" /\ to = "recv" => kind = "trace",
         queueClosed' \in {queueClosed, TRUE},
         UNCHANGED <<kind, reply, sshVars, once>>
  PROVE  LInv'
<1> USE DEF sshVars, Relaying
<1>1. reply = "upgraded"
  BY DEF IInv, Opening, Setup, Calls
<1>2. Pumps'
  BY <1>1 DEF LInv, Pumps, BridgeTo
<1>3. Closer'
  BY DEF LInv, Closer, BridgeTo
<1>4. Holding' /\ Watching'
  BY <1>1 DEF LInv, Holding, Watching, BridgeTo, Setup, Calls
<1> QED BY <1>2, <1>3, <1>4 DEF LInv

LEMMA ShutdownRoles == ASSUME IInv, LInv, NEW g \in Goroutines, Shutdown(g) PROVE LInv'
<1> USE DEF envVars, sshVars, wsVars, queueVars, gateVars
<1>0. TypeOK /\ g # "keepalive" /\ pc[g] \in {"shutdown", "closeWS"}
  BY DEF IInv, Progress, Shutdown, CloseSession, CloseWs, AwaitShutdown, Goto
<1>1. reply = "upgraded" /\ UNCHANGED <<kind, reply, queueClosed>>
  BY <1>0 DEF IInv, Opening, Setup, Calls, Shutdown, CloseSession, CloseWs, AwaitShutdown, Goto
<1>2. \E p \in {"closeWS", "done"} : BridgeTo(g, p)
  BY <1>0, BridgeMoves DEF Shutdown, CloseSession, CloseWs, AwaitShutdown, Pcs
<1>3. \/ once' = "running" /\ pc'[g] = "closeWS"
      \/ once' = "done"
  BY <1>0, BridgeMoves DEF Shutdown, CloseSession, CloseWs, AwaitShutdown, BridgeTo, Pcs
<1>4. \/ UNCHANGED sshVars
      \/ conn' = "closed" /\ channel' \in {"none", "closed"}
  BY <1>0, CloseFacts DEF Shutdown, CloseSession, CloseWs, AwaitShutdown
<1>5. Pumps'
  BY <1>0, <1>1, <1>2 DEF LInv, Pumps, BridgeTo
<1>6. Closer'
  BY <1>3 DEF Closer
<1>7. Holding' /\ Watching'
  BY <1>0, <1>1, <1>2, <1>4 DEF LInv, Holding, Watching, BridgeTo, Setup, Calls
<1> QED BY <1>5, <1>6, <1>7 DEF LInv

LEMMA BridgeRoles == ASSUME IInv, LInv, Bridge PROVE LInv'
<1> USE DEF envVars, sshVars, wsVars, queueVars, gateVars, Relaying
<1>0. TypeOK /\ kind \in {"attach", "trace"} /\ queueClosed \in BOOLEAN
  BY DEF IInv, TypeOK
<1>1. CASE ReadSsh
  <2>1. CASE kind = "attach"
    <3>1. pc["down"] = "readSSH" /\ BridgeTo("down", "send")
      BY <1>0, <1>1, <2>1, BridgeMoves DEF ReadSsh, Pcs
    <3> QED BY <1>1, <2>1, <3>1, PumpRoles DEF ReadSsh
  <2>2. CASE kind # "attach"
    <3>1. pc["down"] = "readSSH" /\ BridgeTo("down", "readSSH")
      BY <1>0, <1>1, <2>2 DEF ReadSsh, BridgeTo, TypeOK
    <3> QED BY <1>1, <3>1, PumpRoles DEF ReadSsh
  <2> QED BY <2>1, <2>2
<1>2. CASE ReadSshFails
  <2>1. pc["down"] = "readSSH" /\ BridgeTo("down", "shutdown")
    BY <1>0, <1>2, BridgeMoves DEF ReadSshFails, Pcs
  <2>2. /\ kind = "trace" => queueClosed'
        /\ UNCHANGED <<kind, reply, sshVars, once>>
    BY <1>2 DEF ReadSshFails
  <2>3. CASE kind = "trace"
    BY <2>1, <2>2, <2>3, PumpRoles
  <2>4. CASE kind = "attach"
    <3>1. reply = "upgraded"
      BY <2>1 DEF IInv, Opening
    <3>2. Pumps' /\ Closer'
      BY <2>1, <2>2, <2>4 DEF LInv, Pumps, Closer, BridgeTo
    <3>3. Holding' /\ Watching'
      BY <2>1, <2>2, <2>4, <3>1 DEF LInv, Holding, Watching, BridgeTo
    <3> QED BY <3>2, <3>3 DEF LInv
  <2> QED BY <1>0, <2>3, <2>4
<1>3. CASE Receive
  <2>1. \E to \in {"send", "shutdown"} : pc["handler"] = "recv" /\ BridgeTo("handler", to)
    BY <1>0, <1>3, BridgeMoves DEF Receive, Pcs
  <2> QED BY <1>3, <2>1, PumpRoles DEF Receive
<1>4. CASE WriteWs
  <2>1. \/ pc["down"] = "send" /\ BridgeTo("down", "readSSH")
        \/ pc["handler"] = "send" /\ BridgeTo("handler", "recv") /\ kind = "trace"
    BY <1>0, <1>4, BridgeMoves DEF WriteWs, Sent, Pcs
  <2> QED BY <1>4, <2>1, PumpRoles DEF WriteWs
<1>5. CASE WriteWsFails
  <2>1. \E g \in {"down", "handler"} : pc[g] = "send" /\ BridgeTo(g, "shutdown")
    BY <1>0, <1>5, BridgeMoves DEF WriteWsFails, Pcs
  <2>2. pc["down"] = "send" => kind # "trace"
    BY DEF LInv, Pumps
  <2> QED BY <1>5, <2>1, <2>2, PumpRoles DEF WriteWsFails
<1>6. CASE ReadWs
  <2>1. pc["handler"] = "readWS" /\ BridgeTo("handler", "write")
    BY <1>0, <1>6, BridgeMoves DEF ReadWs, Pcs
  <2> QED BY <1>6, <2>1, PumpRoles DEF ReadWs
<1>7. CASE ReadWsFails
  <2>1. \E g \in {"up", "handler"} : pc[g] = "readWS" /\ BridgeTo(g, "shutdown")
    BY <1>0, <1>7, BridgeMoves DEF ReadWsFails, WsReader, Pcs
  <2> QED BY <1>7, <2>1, PumpRoles DEF ReadWsFails
<1>8. CASE WriteSsh \/ WriteSshFails
  <2>1. \E to \in {"readWS", "shutdown"} : pc["handler"] = "write" /\ BridgeTo("handler", to)
    BY <1>0, <1>8, BridgeMoves DEF WriteSsh, WriteSshFails, Pcs
  <2> QED BY <1>8, <2>1, PumpRoles DEF WriteSsh, WriteSshFails
<1>9. CASE \E g \in Goroutines : Shutdown(g)
  BY <1>9, ShutdownRoles
<1> QED BY <1>1, <1>2, <1>3, <1>4, <1>5, <1>6, <1>7, <1>8, <1>9 DEF Bridge

LEMMA KeepaliveRoles == ASSUME IInv, LInv, Keepalive PROVE LInv'
<1> USE DEF envVars, sshVars, wsVars, queueVars, gateVars
<1>0. TypeOK /\ UNCHANGED <<kind, reply, once, queueClosed>>
  BY DEF IInv, Keepalive, Tick, Stopped, Ask, KeepaliveClose
<1>1. \E p \in {"wait", "ask", "close", "done"} :
        BridgeTo("keepalive", p) /\ pc["keepalive"] \in {"wait", "ask", "close"}
  BY <1>0, BridgeMoves DEF Keepalive, Tick, Stopped, Ask, KeepaliveClose, Pcs
<1>2. \/ /\ UNCHANGED sshVars
         /\ pc'["keepalive"] = "done" => done
      \/ conn' = "closed" /\ channel' \in {"none", "closed"} /\ done'
  BY <1>0, CloseFacts, BridgeMoves
     DEF Keepalive, Tick, Stopped, Ask, KeepaliveClose, BridgeTo, Pcs
<1>3. Pumps' /\ Closer'
  BY <1>0, <1>1 DEF LInv, Pumps, Closer, BridgeTo
<1>4. Holding'
  BY <1>0, <1>1, <1>2 DEF LInv, Holding, BridgeTo, Setup, Calls
<1>5. Watching'
  BY <1>0, <1>1, <1>2 DEF IInv, Progress, LInv, Watching, BridgeTo
<1> QED BY <1>3, <1>4, <1>5 DEF LInv

LEMMA EnvironmentRoles == ASSUME IInv, LInv, Environment PROVE LInv'
<1> USE DEF envVars, sshVars, wsVars, queueVars, gateVars
<1>1. /\ UNCHANGED <<pc, reply, conn, done, once, queueClosed, kind>>
      /\ channel' = channel \/ (channel = "open" /\ channel' = "eof")
  BY DEF Environment, Publish, PeerFails, KernelGivesUp, ProcessEnds, BrowserLeaves,
         TracerChanges
<1>2. Pumps' /\ Closer' /\ Holding' /\ Watching'
  BY <1>1 DEF LInv, Pumps, Closer, Holding, Watching
<1> QED BY <1>2 DEF LInv

LEMMA StutterRoles == ASSUME LInv, UNCHANGED vars PROVE LInv'
BY DEF vars, envVars, sshVars, wsVars, queueVars, gateVars, LInv, Pumps, Closer, Holding,
       Watching

\* The invariant that carries ShutdownFrees, KeepaliveWatches and the refinement.
THEOREM RolesInvariance == Spec => []LInv
<1>1. ASSUME IInv, LInv, [Next]_vars PROVE LInv'
  <2>1. CASE UNCHANGED vars \/ Terminated
    BY <1>1, <2>1, StutterRoles DEF Terminated
  <2> QED BY <1>1, <2>1, OpenRoles, BridgeRoles, KeepaliveRoles, EnvironmentRoles DEF Next
<1> QED BY InitRoles, <1>1, Invariance, PTL DEF Spec

\* Once a goroutine has called shutdown no other waits for the guest, the browser or the
\* queue, for every size of the queue: what Teardown and LostPeerNoticed rest on.
THEOREM NobodyLeftBlocked == Spec => []ShutdownFrees
<1>1. ASSUME IInv, LInv PROVE ShutdownFrees
  <2>1. SUFFICES ASSUME once # "unused", NEW g \in Goroutines, Blocked(g),
                        ~\E h \in Goroutines : pc[h] = "closeWS"
                 PROVE  pc[g] = "recv" /\ pc["down"] = "readSSH" /\ ~Blocked("down")
    BY DEF ShutdownFrees
  <2>2. once = "done" /\ ws = "closed" /\ conn # "open"
    BY <1>1, <2>1 DEF IInv, TypeOK, Closing, SshReleased, LInv, Closer
  <2>3. pc[g] = "recv" /\ ~queueClosed
    BY <2>1, <2>2 DEF Blocked, SshBroken, WsBroken
  <2>4. g = "handler" /\ reply = "upgraded"
    BY <1>1, <2>3 DEF IInv, Opening, Progress, LInv, Pumps, Setup, Calls
  <2>5. pc["down"] = "readSSH"
    BY <1>1, <2>3, <2>4 DEF LInv, Pumps
  <2> QED BY <2>2, <2>3, <2>5 DEF Blocked, SshBroken
<1> QED BY <1>1, Invariance, RolesInvariance, PTL

\* The keepalive never leaves an open trace connection, whatever fails and whenever.
THEOREM KeepaliveStays == Spec => []KeepaliveWatches
<1>1. LInv => KeepaliveWatches
  BY DEF LInv, Watching, KeepaliveWatches
<1> QED BY <1>1, RolesInvariance, PTL

-----------------------------------------------------------------------------
(* The request keeps what GatewayEnd promises *)

LEMMA InitPromises == Init => End!Init
BY DEF Init, End!Init, Stage, Side

\* A refusal releases what was taken.
LEMMA RefusalPromises ==
  ASSUME IInv, LInv, NEW why \in {"refused", "blind"}, Refuse(why),
         pc["handler"] \in Setup,
         \/ UNCHANGED sshVars /\ pc["handler"] \in {"lookup", "dial"}
         \/ CloseSsh /\ pc["handler"] \notin {"lookup", "dial"}
  PROVE  End!Refuse
<1>1. reply = "none" /\ reply' = why
  BY DEF LInv, Holding, Refuse
<1>2. Stage = "opening" /\ Stage' = "refused"
  BY <1>1 DEF Stage
<1>3. CASE UNCHANGED sshVars /\ pc["handler"] \in {"lookup", "dial"}
  <2>1. Side = "none" /\ Side' = "none"
    BY <1>3 DEF IInv, Progress, Side, sshVars
  <2> QED BY <1>2, <2>1 DEF End!Refuse
<1>4. CASE CloseSsh /\ pc["handler"] \notin {"lookup", "dial"}
  <2>1. conn # "none"
    BY <1>4 DEF LInv, Holding, Setup, Calls
  <2>2. conn' = "closed" /\ channel' \in {"none", "closed"}
    BY <1>4, CloseFacts DEF IInv
  <2>3. Side # "none" /\ Side' = "released"
    BY <2>1, <2>2 DEF Side
  <2> QED BY <1>2, <2>3 DEF End!Refuse
<1> QED BY <1>3, <1>4

\* Calls over an open connection are no step of the abstract gateway.
LEMMA CallPromises ==
  ASSUME IInv, LInv, UNCHANGED <<reply, conn, ws>>, conn = "open"
  PROVE  UNCHANGED <<Stage, Side>>
BY DEF Stage, Side

LEMMA OpenPromises == ASSUME IInv, LInv, Open PROVE [End!Next]_<<Stage, Side>>
<1> USE DEF envVars, sshVars, wsVars
<1>0. TypeOK
  BY DEF IInv
<1>1. CASE Lookup
  <2>1. CASE admissible /\ status = "ready"
    BY <1>1, <2>1 DEF Lookup, Stage, Side
  <2>2. CASE ~(admissible /\ status = "ready")
    BY <1>1, <2>2, RefusalPromises DEF Lookup, Setup, End!Next
  <2> QED BY <2>1, <2>2
<1>2. CASE Dial
  <2>1. pc["handler"] = "dial" /\ conn' = "open" /\ UNCHANGED <<reply, channel, ws>>
    BY <1>2 DEF Dial, Goto
  <2>2. reply = "none" /\ conn = "none"
    BY <2>1 DEF IInv, Progress, LInv, Holding, Setup, Calls
  <2>3. End!Acquire
    BY <2>1, <2>2 DEF End!Acquire, Stage, Side
  <2> QED BY <2>3 DEF End!Next
<1>3. CASE DialFails
  BY <1>3, RefusalPromises DEF DialFails, Setup, Calls, End!Next
<1>4. CASE GateIsActive \/ OpenChannel \/ StartShell \/ StartTail
  <2>1. UNCHANGED <<reply, conn, ws>> /\ pc["handler"] \in Calls \ {"dial"}
    BY <1>4 DEF GateIsActive, Unanswered, OpenChannel, StartShell, StartTail, Goto, Calls
  <2>2. conn = "open"
    BY <2>1 DEF LInv, Holding
  <2> QED BY <2>1, <2>2, CallPromises
<1>5. CASE GateOffsets
  <2>1. CASE Goto("handler", "offsets", "session") /\ UNCHANGED <<conn, channel, reply>>
    <3>1. conn = "open" /\ UNCHANGED <<reply, conn, ws>>
      BY <1>5, <2>1 DEF GateOffsets, Goto, LInv, Holding, Calls
    <3> QED BY <3>1, CallPromises
  <2>2. CASE pc["handler"] = "offsets" /\ CloseSsh /\ Refuse("blind")
    BY <2>2, RefusalPromises DEF Setup, Calls, End!Next
  <2> QED BY <1>5, <2>1, <2>2 DEF GateOffsets, Unanswered
<1>6. CASE OpenFails
  BY <1>6, RefusalPromises DEF OpenFails, Setup, Calls, End!Next
<1>7. CASE Upgrade
  <2>1. pc["handler"] = "upgrade" /\ reply' = "upgraded" /\ ws' = "open" /\ UNCHANGED <<conn, channel>>
    BY <1>7 DEF Upgrade
  <2>2. reply = "none" /\ conn # "none"
    BY <2>1 DEF LInv, Holding, Setup
  <2>3. End!Accept
    BY <2>1, <2>2 DEF End!Accept, Stage, Side
  <2> QED BY <2>3 DEF End!Next
<1>8. CASE UpgradeFails
  BY <1>8, RefusalPromises DEF UpgradeFails, Setup, End!Next
<1> QED BY <1>1, <1>2, <1>3, <1>4, <1>5, <1>6, <1>7, <1>8 DEF Open

\* The SSH side is released by whichever goroutine closes it first.
LEMMA ClosePromises ==
  ASSUME IInv, LInv, CloseSsh, conn # "none", UNCHANGED <<reply, ws>>
  PROVE  [End!Next]_<<Stage, Side>>
<1>1. Stage' = Stage
  BY DEF Stage
<1>2. Side' = "released" /\ Side \in {"held", "released"}
  BY CloseFacts DEF IInv, Side
<1>3. End!Release \/ UNCHANGED <<Stage, Side>>
  BY <1>1, <1>2 DEF End!Release
<1> QED BY <1>3 DEF End!Next

LEMMA ShutdownPromises ==
  ASSUME IInv, LInv, NEW g \in Goroutines, Shutdown(g)
  PROVE  [End!Next]_<<Stage, Side>>
<1> USE DEF sshVars, wsVars
<1>1. pc[g] \in {"shutdown", "closeWS"} /\ g # "keepalive"
  BY DEF IInv, Progress, Shutdown, CloseSession, CloseWs, AwaitShutdown, Goto
<1>2. reply = "upgraded" /\ conn # "none"
  BY <1>1 DEF IInv, Opening, LInv, Holding, Setup, Calls
<1>3. CASE CloseSession(g)
  BY <1>2, <1>3, ClosePromises DEF CloseSession
<1>4. CASE CloseWs(g)
  <2>1. ws' = "closed" /\ pc[g] = "closeWS" /\ UNCHANGED <<reply, conn, channel>>
    BY <1>4 DEF CloseWs, Goto
  <2>2. conn # "open" /\ channel \in {"none", "closed"}
    BY <2>1 DEF IInv, Closing, SshReleased
  <2>3. Side = "released" /\ Side' = "released"
    BY <1>2, <2>1, <2>2 DEF Side
  <2>4. Stage \in {"there", "gone"} /\ Stage' = "gone"
    BY <1>2, <2>1 DEF Stage
  <2>5. End!End \/ UNCHANGED <<Stage, Side>>
    BY <2>3, <2>4 DEF End!End
  <2> QED BY <2>5 DEF End!Next
<1>5. CASE AwaitShutdown(g)
  BY <1>5 DEF AwaitShutdown, Stage, Side
<1> QED BY <1>3, <1>4, <1>5 DEF Shutdown

LEMMA LaterPromises ==
  ASSUME IInv, LInv, Bridge \/ Keepalive
  PROVE  [End!Next]_<<Stage, Side>>
<1> USE DEF envVars, sshVars, wsVars
<1>1. CASE \E g \in Goroutines : Shutdown(g)
  BY <1>1, ShutdownPromises
<1>2. CASE KeepaliveClose
  <2>1. CloseSsh /\ conn # "none" /\ UNCHANGED <<reply, ws>>
    BY <1>2 DEF KeepaliveClose, Goto, LInv, Holding
  <2> QED BY <2>1, ClosePromises
<1>3. CASE UNCHANGED <<reply, conn, channel, ws>>
  BY <1>3 DEF Stage, Side
<1>4. \/ \E g \in Goroutines : Shutdown(g)
      \/ KeepaliveClose
      \/ UNCHANGED <<reply, conn, channel, ws>>
  BY DEF Bridge, Keepalive, ReadSsh, ReadSshFails, Receive, WriteWs, WriteWsFails, ReadWs,
         ReadWsFails, WriteSsh, WriteSshFails, Tick, Stopped, Ask
<1> QED BY <1>1, <1>2, <1>3, <1>4

LEMMA EnvironmentPromises ==
  ASSUME IInv, LInv, Environment
  PROVE  [End!Next]_<<Stage, Side>>
<1> USE DEF envVars, sshVars, wsVars
<1>1. /\ UNCHANGED <<reply, conn, ws>>
      /\ channel' = channel \/ (channel = "open" /\ channel' = "eof")
  BY DEF Environment, Publish, PeerFails, KernelGivesUp, ProcessEnds, BrowserLeaves,
         TracerChanges
<1>2. UNCHANGED <<Stage, Side>>
  BY <1>1 DEF Stage, Side
<1> QED BY <1>2

\* One answer and one end, after which the request neither holds nor takes anything:
\* for every size of the queue, every step of a request is one of GatewayEnd or none.
THEOREM PromiseKept == Spec => KeepsPromise
<1>1. ASSUME IInv, LInv, [Next]_vars PROVE [End!Next]_<<Stage, Side>>
  <2>1. CASE UNCHANGED vars \/ Terminated
    BY <2>1 DEF Terminated, vars, envVars, sshVars, wsVars, Stage, Side
  <2> QED BY <1>1, <2>1, OpenPromises, LaterPromises, EnvironmentPromises DEF Next
<1> QED BY InitPromises, <1>1, Invariance, RolesInvariance, PTL DEF Spec, KeepsPromise, End!Spec
=============================================================================
