-------------------------------- MODULE Relay --------------------------------
(***************************************************************************)
(* One WebSocket request to the BFF: handleWS or handleTraceWS             *)
(* (internal/bff/server.go), the two pumps of relay.go, the end of the BFF *)
(* process (cmd/bff/main.go), and its two peers: a browser, and a Gateway  *)
(* whose bridge applies what it reads to the shell (internal/gw/bridge.go, *)
(* internal/wire).                                                         *)
(*                                                                         *)
(*   handler  dials the Gateway, upgrades the browser, then is the pump    *)
(*            from the Gateway to the browser ("down")                     *)
(*   up       the pump from the browser to the Gateway                     *)
(*                                                                         *)
(* How the Gateway opens and ends its side is the subject of Session.      *)
(***************************************************************************)
EXTENDS Naturals, Sequences

CONSTANTS
  Keys, Sizes, Output,  \* payloads: what is typed, window sizes, what is shown
  Other,                \* a text frame that is no resize, or no control message
  Buffer,               \* frames one connection holds in one direction
  MaxSent               \* bound: frames each end sends

ASSUME OtherAssumption == Other \notin Sizes
ASSUME BoundAssumption == Buffer \in Nat \ {0} /\ MaxSent \in Nat

Ends == {"browser", "gw"}
Dirs == {"up", "down"}
From == [d \in Dirs |-> IF d = "up" THEN "browser" ELSE "gw"]
To   == [d \in Dirs |-> IF d = "up" THEN "gw" ELSE "browser"]

\* binary: terminal bytes; text: control messages one way, trace lines the other
Frame == [d \in Dirs |->
  IF d = "up" THEN ({"binary"} \X Keys) \union ({"text"} \X (Sizes \union {Other}))
              ELSE {"binary", "text"} \X Output]

VARIABLES
  kind,    \* "terminal" or "trace"
  hasId,   \* the request names a target
  pc,      \* where each goroutine is
  reply,   \* what the browser was answered
  conn,    \* our end of the two WebSockets
  once,    \* the sync.Once of shutdown
  in,      \* frames on their way to us, by direction
  hand,    \* the frame a pump has read and not yet written: a sequence of at most one
  out,     \* frames on their way from us
  far,     \* the other end of the two WebSockets
  window,  \* the size of the shell's window
  sent, got \* history: frames each far end has sent and taken

relayVars == <<pc, reply, conn, once, hand>>
farVars   == <<kind, hasId, far, window, sent, got>>
vars == <<relayVars, farVars, in, out>>

Goroutines == {"handler", "up"}
Pump == [d \in Dirs |-> IF d = "up" THEN "up" ELSE "handler"]

Goto(g, from, to) == pc[g] = from /\ pc' = [pc EXCEPT ![g] = to]

AllDone == \A g \in Goroutines : pc[g] \in {"off", "done"}

Empty == [d \in Dirs |-> <<>>]

\* Closing a connection loses what is on its way to us, and the tail of what is on
\* its way from us if the kernel resets it.
Cut(q) == {SubSeq(q, 1, n) : n \in 0..Len(q)}

Close(e) ==
  /\ conn' = [conn EXCEPT ![e] = "closed"]
  /\ in' = [d \in Dirs |-> IF From[d] = e THEN <<>> ELSE in[d]]
  /\ \E d \in Dirs : To[d] = e /\ \E q \in Cut(out[d]) : out' = [out EXCEPT ![d] = q]

Init ==
  /\ kind \in {"terminal", "trace"} /\ hasId \in BOOLEAN
  /\ pc = [g \in Goroutines |-> IF g = "handler" THEN "start" ELSE "off"]
  /\ reply = "none"
  /\ conn = [e \in Ends |-> "none"] /\ once = "unused"
  /\ in = Empty /\ hand = Empty /\ out = Empty
  /\ far = [e \in Ends |-> IF e = "browser" THEN "there" ELSE "none"]
  /\ window = "initial"
  /\ sent = Empty /\ got = Empty

-----------------------------------------------------------------------------
(* The handler *)

MissingId ==
  /\ ~hasId
  /\ Goto("handler", "start", "done")
  /\ reply' = "bad request"
  /\ UNCHANGED <<conn, once, hand, farVars, in, out>>

Dial ==
  /\ hasId
  /\ Goto("handler", "start", "dialing")
  /\ far' = [far EXCEPT !["gw"] = "opening"]
  /\ UNCHANGED <<kind, hasId, reply, conn, once, hand, window, sent, got, in, out>>

Dialed ==
  /\ far["gw"] = "there"
  /\ Goto("handler", "dialing", "upgrade")
  /\ conn' = [conn EXCEPT !["gw"] = "open"]
  /\ UNCHANGED <<reply, once, hand, farVars, in, out>>

\* (mutant) giving up does not close the connection
DialGivesUp ==
  /\ Goto("handler", "dialing", "done")
  /\ reply' = "bad gateway"
  /\ UNCHANGED <<conn, once, hand, farVars, in, out>>

\* The Gateway refused, or has not answered by the dialer's handshake timeout: it
\* may still answer, to a connection we have closed.
DialFails ==
  /\ Goto("handler", "dialing", "done")
  /\ reply' = "bad gateway"
  /\ Close("gw")
  /\ UNCHANGED <<once, hand, farVars>>

Upgrade ==
  /\ pc["handler"] = "upgrade"
  /\ pc' = [g \in Goroutines |-> "read"]
  /\ reply' = "upgraded"
  /\ conn' = [conn EXCEPT !["browser"] = "open"]
  /\ UNCHANGED <<once, hand, farVars, in, out>>

\* (mutant) the Gateway's connection is forgotten
UpgradeForgets ==
  /\ Goto("handler", "upgrade", "done")
  /\ reply' = "bad request"
  /\ UNCHANGED <<conn, once, hand, farVars, in, out>>

UpgradeFails ==
  /\ Goto("handler", "upgrade", "done")
  /\ reply' = "bad request"
  /\ Close("gw")
  /\ UNCHANGED <<once, hand, farVars>>

-----------------------------------------------------------------------------
(* The pumps *)

\* (mutant) one goroutine serves both directions, so that one waits for the other
ReadInTurn(d) ==
  /\ conn[From[d]] = "open" /\ in[d] # <<>> /\ \A e \in Dirs : hand[e] = <<>>
  /\ Goto(Pump[d], "read", "write")
  /\ hand' = [hand EXCEPT ![d] = <<Head(in[d])>>]
  /\ in' = [in EXCEPT ![d] = Tail(@)]
  /\ UNCHANGED <<reply, conn, once, farVars, out>>

Read(d) ==
  /\ conn[From[d]] = "open" /\ in[d] # <<>>
  /\ Goto(Pump[d], "read", "write")
  /\ hand' = [hand EXCEPT ![d] = <<Head(in[d])>>]
  /\ in' = [in EXCEPT ![d] = Tail(@)]
  /\ UNCHANGED <<reply, conn, once, farVars, out>>

ReadFails(d) ==
  /\ conn[From[d]] = "closed" \/ (far[From[d]] = "gone" /\ in[d] = <<>>)
  /\ Goto(Pump[d], "read", "shutdown")
  /\ UNCHANGED <<reply, conn, once, hand, farVars, in, out>>

\* (mutant) every frame is written as a binary one
WriteBinary(d) ==
  /\ conn[To[d]] = "open" /\ Len(out[d]) < Buffer
  /\ Goto(Pump[d], "write", "read")
  /\ out' = [out EXCEPT ![d] = Append(@, <<"binary", Head(hand[d])[2]>>)]
  /\ hand' = [hand EXCEPT ![d] = <<>>]
  /\ UNCHANGED <<reply, conn, once, farVars, in>>

\* (mutant) frames are queued without bound
WriteAtOnce(d) ==
  /\ conn[To[d]] = "open"
  /\ Goto(Pump[d], "write", "read")
  /\ out' = [out EXCEPT ![d] = Append(@, Head(hand[d]))]
  /\ hand' = [hand EXCEPT ![d] = <<>>]
  /\ UNCHANGED <<reply, conn, once, farVars, in>>

\* A write waits for room; toward an end that has gone it may still succeed.
Write(d) ==
  /\ conn[To[d]] = "open" /\ Len(out[d]) < Buffer
  /\ Goto(Pump[d], "write", "read")
  /\ out' = [out EXCEPT ![d] = Append(@, Head(hand[d]))]
  /\ hand' = [hand EXCEPT ![d] = <<>>]
  /\ UNCHANGED <<reply, conn, once, farVars, in>>

WriteFails(d) ==
  /\ conn[To[d]] = "closed" \/ far[To[d]] = "gone"
  /\ Goto(Pump[d], "write", "shutdown")
  /\ hand' = [hand EXCEPT ![d] = <<>>]
  /\ UNCHANGED <<reply, conn, once, farVars, in, out>>

\* (mutant) only the Gateway's connection is closed
LeaveBrowser(g) ==
  /\ once = "unused"
  /\ Goto(g, "shutdown", "closeGw")
  /\ once' = "running"
  /\ UNCHANGED <<reply, conn, hand, farVars, in, out>>

\* once.Do: the browser's connection is closed, then the Gateway's; a second
\* caller waits until both are.
CloseBrowser(g) ==
  /\ once = "unused"
  /\ Goto(g, "shutdown", "closeGw")
  /\ once' = "running"
  /\ Close("browser")
  /\ UNCHANGED <<reply, hand, farVars>>

CloseGw(g) ==
  /\ Goto(g, "closeGw", "done")
  /\ once' = "done"
  /\ Close("gw")
  /\ UNCHANGED <<reply, hand, farVars>>

AwaitShutdown(g) ==
  /\ once = "done"
  /\ Goto(g, "shutdown", "done")
  /\ UNCHANGED <<reply, conn, once, hand, farVars, in, out>>

\* SIGTERM: srv.Shutdown waits for no relay, as their connections are hijacked, and
\* for ten seconds at most for a handler that dials; then main returns.
ProcessEnds ==
  /\ ~AllDone
  /\ pc' = [g \in Goroutines |-> "done"]
  /\ conn' = [e \in Ends |-> "closed"]
  /\ in' = Empty /\ hand' = Empty
  /\ \E p \in Cut(out["up"]), q \in Cut(out["down"]) :
       out' = [d \in Dirs |-> IF d = "up" THEN p ELSE q]
  /\ UNCHANGED <<reply, once, farVars>>

-----------------------------------------------------------------------------
(* The far ends *)

\* The Gateway refuses, or opens its session and upgrades.
GatewayAnswers ==
  /\ far["gw"] = "opening"
  /\ \E answer \in {"there", "refused"} : far' = [far EXCEPT !["gw"] = answer]
  /\ UNCHANGED <<relayVars, kind, hasId, window, sent, got, in, out>>

\* A trace's browser says nothing; its lines are text, a terminal's output is binary.
Spoken(d) ==
  IF kind = "terminal" THEN {f \in Frame[d] : d = "up" \/ f[1] = "binary"}
                       ELSE {f \in Frame[d] : d = "down" /\ f[1] = "text"}

Sends(d) ==
  /\ far[From[d]] = "there" /\ conn[From[d]] # "closed" /\ Len(in[d]) < Buffer
  /\ d = "up" => reply = "upgraded"
  /\ Len(sent[d]) < MaxSent
  /\ \E f \in Spoken(d) :
       /\ sent' = [sent EXCEPT ![d] = Append(@, f)]
       /\ in' = [in EXCEPT ![d] = Append(@, f)]
  /\ UNCHANGED <<relayVars, kind, hasId, far, window, got, out>>

\* The bridge writes binary frames to the shell and decodes the others: a resize
\* reaches the shell's window, anything else is ignored.
Apply(f) == window' = IF f[1] = "text" /\ f[2] \in Sizes THEN f[2] ELSE window

\* The page, or the bridge, takes a frame.
Takes(d) ==
  /\ far[To[d]] = "there" /\ out[d] # <<>>
  /\ got' = [got EXCEPT ![d] = Append(@, Head(out[d]))]
  /\ out' = [out EXCEPT ![d] = Tail(@)]
  /\ IF d = "up" THEN Apply(Head(out[d])) ELSE UNCHANGED window
  /\ UNCHANGED <<relayVars, kind, hasId, far, sent, in>>

\* An end that goes of its own accord; the tail of what it sent may be lost.
Leaves(e) ==
  /\ far[e] = "there" /\ conn[e] # "closed"
  /\ far' = [far EXCEPT ![e] = "gone"]
  /\ \E d \in Dirs : From[d] = e /\ \E q \in Cut(in[d]) : in' = [in EXCEPT ![d] = q]
  /\ UNCHANGED <<relayVars, kind, hasId, window, sent, got, out>>

\* An end that has read all there is and finds its connection closed.
Notices(e) ==
  /\ far[e] = "there" /\ conn[e] = "closed"
  /\ \A d \in Dirs : To[d] = e => out[d] = <<>>
  /\ far' = [far EXCEPT ![e] = "gone"]
  /\ UNCHANGED <<relayVars, kind, hasId, window, sent, got, in, out>>

-----------------------------------------------------------------------------
(* Specification *)

Handler == MissingId \/ Dial \/ Dialed \/ DialFails \/ Upgrade \/ UpgradeFails

PumpStep(d) == Read(d) \/ ReadFails(d) \/ Write(d) \/ WriteFails(d)

Shutdown(g) == CloseBrowser(g) \/ CloseGw(g) \/ AwaitShutdown(g)

\* Nothing is left to do once the relay is over and so are its ends.
Over ==
  /\ AllDone /\ far["gw"] # "opening"
  /\ \A e \in Ends : far[e] = "there" => conn[e] = "none"

Terminated == Over /\ UNCHANGED vars

Next ==
  \/ Handler \/ ProcessEnds \/ GatewayAnswers \/ Terminated
  \/ \E d \in Dirs : PumpStep(d) \/ Sends(d) \/ Takes(d)
  \/ \E g \in Goroutines : Shutdown(g)
  \/ \E e \in Ends : Leaves(e) \/ Notices(e)

Spec == Init /\ [][Next]_vars

\* Goroutines are scheduled, the Gateway answers and its bridge keeps reading (the
\* shell reads its input), and an end notices a closed connection.  The browser need
\* not read, send or leave.
FairSpec ==
  /\ Spec
  /\ WF_vars(Handler) /\ WF_vars(GatewayAnswers) /\ WF_vars(Takes("up"))
  /\ \A d \in Dirs : WF_vars(PumpStep(d))
  /\ \A g \in Goroutines : WF_vars(Shutdown(g))
  /\ \A e \in Ends : WF_vars(Notices(e))

-----------------------------------------------------------------------------
(* Properties *)

AnyFrame == Frame["up"] \union Frame["down"]
Queues == [Dirs -> Seq(AnyFrame)]

TypeOK ==
  /\ kind \in {"terminal", "trace"} /\ hasId \in BOOLEAN
  /\ pc \in [Goroutines -> {"off", "start", "dialing", "upgrade", "read", "write",
                            "shutdown", "closeGw", "done"}]
  /\ reply \in {"none", "bad request", "bad gateway", "upgraded"}
  /\ conn \in [Ends -> {"none", "open", "closed"}]
  /\ once \in {"unused", "running", "done"}
  /\ in \in Queues /\ hand \in Queues /\ out \in Queues
  /\ sent \in Queues /\ got \in Queues
  /\ \A d \in Dirs :
       /\ Len(in[d]) <= Buffer /\ Len(out[d]) <= Buffer /\ Len(sent[d]) <= MaxSent
       /\ Len(hand[d]) = IF pc[Pump[d]] = "write" THEN 1 ELSE 0
  /\ far \in [Ends -> {"none", "opening", "there", "refused", "gone"}]
  /\ window \in Sizes \union {"initial"}

\* A handler that has returned holds no connection: neither when the browser cannot
\* be upgraded after the Gateway was dialled, nor when the other pump is the one
\* that shuts down; and a Gateway that was dialled finds its connection closed, even
\* if it is still about to answer (server.go:88-101, relay.go:20-25).
Released ==
  pc["handler"] = "done" =>
    /\ \A e \in Ends : conn[e] # "open"
    /\ far["gw"] # "none" => conn["gw"] = "closed"

\* As long as neither connection is closed and neither end has gone, no frame is
\* missing: what was sent has arrived or is on its way, however full the buffers are
\* and wherever the pumps wait (relay.go:33-44).
NoneMissing ==
  (\A e \in Ends : conn[e] # "closed" /\ far[e] # "gone") =>
    \A d \in Dirs : sent[d] = got[d] \o out[d] \o hand[d] \o in[d]

\* Where a goroutine may be waiting, for one of the ends or for the other goroutine.
Blocked(g) ==
  \/ \E d \in Dirs :
       /\ g = Pump[d]
       /\ \/ pc[g] = "read"  /\ conn[From[d]] # "closed" /\ far[From[d]] # "gone"
          \/ pc[g] = "write" /\ conn[To[d]] # "closed"   /\ far[To[d]] # "gone"
  \/ pc[g] = "shutdown" /\ once = "running"

\* shutdown frees the pump that is blocked in a read or in a write to an end that has
\* stopped reading: from then on a goroutine waits at most for the one that is closing
\* the Gateway's connection (relay.go:14, 19-29).
ShutdownFrees ==
  once # "unused" =>
    \A g \in Goroutines : Blocked(g) => \E h \in Goroutines : pc[h] = "closeGw"

\* relay.go:12-13: frames pass unmodified, in order and without a gap in between, with
\* their type, whatever closes when.
Channel == INSTANCE Duplex WITH left <- {e \in Ends : far[e] = "gone"}
PassesFrames == Channel!Spec

\* What the browser asks the window to be, it becomes, though the browser may have
\* stopped reading: the two directions do not wait for each other, and the frame is
\* still a control message when the bridge reads it (wire.go:6-7, bridge.go:59-66).
WindowFollows ==
  \A s \in Sizes :
    (sent["up"] # <<>> /\ sent["up"][Len(sent["up"])] = <<"text", s>>)
      ~> (window = s \/ \E e \in Ends : far[e] = "gone")

\* relay.go:14, "once either side closes both connections are then torn down": if the
\* browser takes what it is sent as long as it is there, both ends go and both
\* goroutines finish.
Teardown ==
  WF_vars(Takes("down")) =>
    ((reply = "upgraded" /\ \E e \in Ends : far[e] = "gone")
       ~> (AllDone /\ \A e \in Ends : far[e] = "gone"))

\* Every session the Gateway opens is ended once the handler has returned, also one
\* it opens after the dialer gave up or the process has ended (server.go:88-101).
NoOrphan ==
  (pc["handler"] = "done" /\ far["gw"] \in {"opening", "there"})
    ~> far["gw"] \in {"refused", "gone"}
=============================================================================
