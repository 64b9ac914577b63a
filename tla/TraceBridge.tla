----------------------------- MODULE TraceBridge -----------------------------
(***************************************************************************)
(* traceBridge of internal/gw/tracebridge.go: three goroutines share a     *)
(* bounded channel, an atomic drop counter and a sync.Once that closes the *)
(* guest stream and the WebSocket.                                         *)
(*                                                                         *)
(*   producer  stream -> queue, evicting the oldest line when it is full   *)
(*   writer    queue -> WebSocket, the only goroutine that writes frames   *)
(*   pump      reads the WebSocket, only to notice that it closed          *)
(*                                                                         *)
(* Non-blank lines are numbered in the order the tail emits them, so the   *)
(* line in the producer's hand is always number `read`.  A channel         *)
(* operation, an access to the counter and a socket call are one step      *)
(* each; the goroutines interleave between them.                           *)
(***************************************************************************)
EXTENDS Naturals, Sequences

CONSTANTS
  QueueSize,  \* traceQueueSize
  MaxLines    \* bound: how many lines the tail emits

ASSUME SizesAssumption == QueueSize \in Nat \ {0} /\ MaxLines \in Nat

VARIABLES
  pc,            \* where each goroutine is
  read,          \* lines read from the stream
  ended,         \* the producer's ReadBytes returned an error
  torn,          \* number of the unterminated line ReadBytes returned with the error, or 0
  queue,         \* the channel
  queueClosed,
  dropped,       \* the atomic counter
  out,           \* the line in the writer's hand, or 0
  lastReported,  \* the writer's local variable
  lines,         \* event frames written, in order
  meta,          \* count in the latest trace_meta frame written
  open,          \* our ends: closed only by shutdown
  up             \* the peers: the guest tail and the browser

vars == <<pc, read, ended, torn, queue, queueClosed, dropped, out,
          lastReported, lines, meta, open, up>>

producerVars == <<read, ended, torn>>
writerVars   == <<out, lastReported, lines, meta>>
endVars      == <<open, up>>

Goroutines == {"producer", "writer", "pump"}
Ends == {"stream", "ws"}

\* A call on this end returns an error: we closed it, or its peer is gone.
Broken(end) == ~open[end] \/ ~up[end]

Goto(g, from, to) == pc[g] = from /\ pc' = [pc EXCEPT ![g] = to]

Init ==
  /\ pc = [producer |-> "read", writer |-> "recv", pump |-> "read"]
  /\ read = 0 /\ ended = FALSE /\ torn = 0
  /\ queue = <<>> /\ queueClosed = FALSE /\ dropped = 0
  /\ out = 0 /\ lastReported = 0 /\ lines = <<>> /\ meta = 0
  /\ open = [end \in Ends |-> TRUE]
  /\ up = [end \in Ends |-> TRUE]

-----------------------------------------------------------------------------
(* Producer *)

AfterLine(err) == IF err THEN "close" ELSE "read"

\* A line within the cap goes on to enqueueDropOldest, a longer one is counted.
HandleLine(err) ==
  /\ read < MaxLines
  /\ read' = read + 1
  /\ \/ Goto("producer", "read", "send") /\ UNCHANGED dropped
     \/ Goto("producer", "read", AfterLine(err)) /\ dropped' = dropped + 1

ReadLine ==
  /\ HandleLine(FALSE)
  /\ UNCHANGED <<ended, torn, queue, queueClosed, writerVars, endVars>>

\* ReadBytes returns what it has together with the error: what the stream held
\* after its last newline is handled like a line.
ReadError ==
  /\ Broken("stream")
  /\ ended' = TRUE
  /\ \/ /\ Goto("producer", "read", "close")
        /\ UNCHANGED <<read, torn, dropped>>
     \/ HandleLine(TRUE) /\ torn' = read + 1
  /\ UNCHANGED <<queue, queueClosed, writerVars, endVars>>

Full == Len(queue) >= QueueSize

\* enqueueDropOldest: the outer select
\* (mutant) the line is queued without asking whether there is room
SendUnbounded ==
  /\ Goto("producer", "send", AfterLine(ended))
  /\ queue' = Append(queue, read)
  /\ UNCHANGED <<producerVars, queueClosed, dropped, writerVars, endVars>>

Send ==
  /\ ~Full
  /\ Goto("producer", "send", AfterLine(ended))
  /\ queue' = Append(queue, read)
  /\ UNCHANGED <<producerVars, queueClosed, dropped, writerVars, endVars>>

\* (mutant) a full queue sheds the newest line instead of the oldest
SendFullDropNewest ==
  /\ Full
  /\ Goto("producer", "send", AfterLine(ended))
  /\ dropped' = dropped + 1
  /\ UNCHANGED <<producerVars, queue, queueClosed, writerVars, endVars>>

\* (mutant) a plain channel send: wait until the writer makes room
SendFullBlocks == Full /\ FALSE /\ UNCHANGED vars

SendFull ==
  /\ Full
  /\ Goto("producer", "send", "evict")
  /\ UNCHANGED <<producerVars, queue, queueClosed, dropped, writerVars, endVars>>

\* (mutant) the eviction is never counted
EvictUncounted ==
  /\ Goto("producer", "evict", "send")
  /\ queue' = IF queue = <<>> THEN queue ELSE Tail(queue)
  /\ UNCHANGED <<producerVars, queueClosed, dropped, writerVars, endVars>>

\* enqueueDropOldest: the inner select; the writer may have emptied the queue
Evict ==
  /\ \/ /\ queue # <<>>
        /\ Goto("producer", "evict", "count")
        /\ queue' = Tail(queue)
     \/ /\ queue = <<>>
        /\ Goto("producer", "evict", "send")
        /\ UNCHANGED queue
  /\ UNCHANGED <<producerVars, queueClosed, dropped, writerVars, endVars>>

Count ==
  /\ Goto("producer", "count", "send")
  /\ dropped' = dropped + 1
  /\ UNCHANGED <<producerVars, queue, queueClosed, writerVars, endVars>>

\* The deferred calls run last-in first-out: the queue is closed before shutdown.
CloseQueue ==
  /\ Goto("producer", "close", "shutdown")
  /\ queueClosed' = TRUE
  /\ UNCHANGED <<producerVars, queue, dropped, writerVars, endVars>>

-----------------------------------------------------------------------------
(* Writer *)

\* (mutant) the newest queued line is taken first
ReceiveNewest ==
  /\ queue # <<>>
  /\ Goto("writer", "recv", "load")
  /\ out' = queue[Len(queue)]
  /\ queue' = SubSeq(queue, 1, Len(queue) - 1)
  /\ UNCHANGED <<producerVars, queueClosed, dropped, lastReported, lines, meta, endVars>>

\* A closed channel is drained before the range loop ends.
Receive ==
  /\ \/ /\ queue # <<>>
        /\ Goto("writer", "recv", "load")
        /\ out' = Head(queue)
        /\ queue' = Tail(queue)
     \/ /\ queue = <<>> /\ queueClosed
        /\ Goto("writer", "recv", "shutdown")
        /\ UNCHANGED <<out, queue>>
  /\ UNCHANGED <<producerVars, queueClosed, dropped, lastReported, lines, meta, endVars>>

\* (mutant) the counter is remembered but no trace_meta frame is written
LoadSilent ==
  /\ lastReported' = dropped
  /\ Goto("writer", "load", "line")
  /\ UNCHANGED <<producerVars, queue, queueClosed, dropped, out, lines, meta, endVars>>

Load ==
  /\ lastReported' = dropped
  /\ Goto("writer", "load", IF dropped # lastReported THEN "meta" ELSE "line")
  /\ UNCHANGED <<producerVars, queue, queueClosed, dropped, out, lines, meta, endVars>>

\* A write that the transport accepts; to a departed browser it may still succeed.
WriteMeta ==
  /\ open["ws"]
  /\ Goto("writer", "meta", "line")
  /\ meta' = lastReported
  /\ UNCHANGED <<producerVars, queue, queueClosed, dropped, out, lastReported, lines, endVars>>

WriteLine ==
  /\ open["ws"]
  /\ Goto("writer", "line", "recv")
  /\ lines' = Append(lines, out)
  /\ out' = 0
  /\ UNCHANGED <<producerVars, queue, queueClosed, dropped, lastReported, meta, endVars>>

WriteFails ==
  /\ Broken("ws")
  /\ \E at \in {"meta", "line"} : Goto("writer", at, "shutdown")
  /\ UNCHANGED <<producerVars, queue, queueClosed, dropped, writerVars, endVars>>

-----------------------------------------------------------------------------
(* Pump and teardown *)

\* (mutant) no read pump
NoPump == pc["pump"] = "none" /\ UNCHANGED vars

NoticeClose ==
  /\ Broken("ws")
  /\ Goto("pump", "read", "shutdown")
  /\ UNCHANGED <<producerVars, queue, queueClosed, dropped, writerVars, endVars>>

\* once.Do: the first caller closes the stream, then the WebSocket; a later
\* caller waits until the first has returned.
CloseStream(g) ==
  /\ open["stream"]
  /\ Goto(g, "shutdown", "closing")
  /\ open' = [open EXCEPT !["stream"] = FALSE]
  /\ UNCHANGED <<producerVars, queue, queueClosed, dropped, writerVars, up>>

CloseWs(g) ==
  /\ Goto(g, "closing", "done")
  /\ open' = [open EXCEPT !["ws"] = FALSE]
  /\ UNCHANGED <<producerVars, queue, queueClosed, dropped, writerVars, up>>

AwaitShutdown(g) ==
  /\ ~open["ws"]
  /\ Goto(g, "shutdown", "done")
  /\ UNCHANGED <<producerVars, queue, queueClosed, dropped, writerVars, endVars>>

Shutdown(g) == CloseStream(g) \/ CloseWs(g) \/ AwaitShutdown(g)

-----------------------------------------------------------------------------
(* Environment, and the specification *)

\* The SSH connection dies (or its keepalive closes it), or the browser leaves.
PeerGone(end) ==
  /\ up[end]
  /\ up' = [up EXCEPT ![end] = FALSE]
  /\ UNCHANGED <<pc, producerVars, queue, queueClosed, dropped, writerVars, open>>

AllDone == \A g \in Goroutines : pc[g] = "done"

Terminated == AllDone /\ UNCHANGED vars

Enqueue == Send \/ SendFull \/ Evict \/ Count

Next ==
  \/ ReadLine \/ ReadError \/ Enqueue \/ CloseQueue
  \/ Receive \/ Load \/ WriteMeta \/ WriteLine \/ WriteFails
  \/ NoticeClose
  \/ \E g \in Goroutines : Shutdown(g)
  \/ \E end \in Ends : PeerGone(end)
  \/ Terminated

Spec == Init /\ [][Next]_vars

\* Every goroutine keeps being scheduled and the tail's buffered bytes run out.
\* Nothing obliges the tail to emit a line, a peer to leave, or the browser to
\* take a frame: a blocked write may stay blocked for as long as ws is open.
FairSpec ==
  /\ Spec
  /\ WF_vars(ReadError) /\ WF_vars(Enqueue) /\ WF_vars(CloseQueue)
  /\ WF_vars(Receive) /\ WF_vars(Load) /\ WF_vars(WriteFails)
  /\ WF_vars(NoticeClose)
  /\ \A g \in Goroutines : WF_vars(Shutdown(g))

-----------------------------------------------------------------------------
(* Properties *)

Pcs == {"read", "send", "evict", "count", "close", "recv", "load", "meta",
        "line", "shutdown", "closing", "done"}

TypeOK ==
  /\ pc \in [Goroutines -> Pcs]
  /\ read \in 0..MaxLines /\ ended \in BOOLEAN /\ torn \in 0..MaxLines
  /\ queue \in Seq(1..MaxLines) /\ Len(queue) <= QueueSize
  /\ queueClosed \in BOOLEAN
  /\ dropped \in 0..MaxLines
  /\ out \in 0..MaxLines /\ lastReported \in 0..MaxLines
  /\ lines \in Seq(1..MaxLines) /\ meta \in 0..MaxLines
  /\ open \in [Ends -> BOOLEAN] /\ up \in [Ends -> BOOLEAN]

Enqueueing == pc["producer"] \in {"send", "evict", "count"}

\* Lines in the hands of the producer and of the writer, and lines evicted but
\* not yet counted.
Held      == IF Enqueueing THEN 1 ELSE 0
InHand    == IF out # 0 THEN 1 ELSE 0
Uncounted == IF pc["producer"] = "count" THEN 1 ELSE 0

\* Every line read from the tail is in exactly one place or counted exactly
\* once: evictions racing the writer on the same channel (lines 107-113), the
\* size cap (69-70) and the writer's abandoned line leave no line unaccounted.
Conservation ==
  read = Len(lines) + InHand + Len(queue) + dropped + Uncounted + Held

\* The browser gets the lines in the order the tail emitted them, none twice,
\* although both goroutines take lines off the head of the queue (86 and 111).
InOrder ==
  /\ \A i, j \in DOMAIN lines : i < j => lines[i] < lines[j]
  /\ out # 0 => \A i \in DOMAIN lines : lines[i] < out

\* When a line is about to be written, the browser has been told of every line
\* missing before it except at most one: an eviction and its dropped.Add are
\* two steps (111-112), and the writer may load the counter between them (87).
GapReported ==
  pc["writer"] = "line" => out - 1 - Len(lines) <= meta + 1

\* DESIGN.md:318-319, "one frame carries exactly one complete NDJSON line" (and
\* the comment on line 29): no frame holds a line the tail left unterminated.
WholeLines == torn # 0 => torn \notin {lines[i] : i \in DOMAIN lines}

\* When either peer goes, all three goroutines finish and both ends are closed,
\* also while the trace is silent or the writer is stuck in a write: the reason
\* for the read pump (48-58) and for the shared once (37-43).
Teardown == (\E end \in Ends : ~up[end]) ~> (AllDone /\ \A end \in Ends : ~open[end])

\* The comment on lines 102-103: a full queue never blocks the goroutine that
\* drains the tail, even when the writer stays in a write for ever.
TailNeverStalls == Enqueueing ~> ~Enqueueing

\* The retry after an eviction finds room, and keeps it, whatever the writer does
\* meanwhile: at most one line is shed to make room for another (104-117).
RetryFindsRoom ==
  [][/\ pc["producer"] \in {"evict", "count"} \/ (pc["producer"] = "send" /\ ~Full)
     /\ pc'["producer"] = "send"
     => ~Full']_vars

\* Where a goroutine may be waiting: for a peer, for a line, or for shutdown to return.
Blocked(g) ==
  \/ g = "producer" /\ pc[g] = "read" /\ ~Broken("stream")
  \/ g = "writer" /\ pc[g] = "recv" /\ queue = <<>> /\ ~queueClosed
  \/ g = "writer" /\ pc[g] \in {"meta", "line"} /\ ~Broken("ws")
  \/ g = "pump" /\ pc[g] = "read" /\ ~Broken("ws")
  \/ pc[g] = "shutdown" /\ ~open["stream"] /\ open["ws"]

\* Closing the stream frees everybody in the end: from then on a goroutine waits at most
\* for the one that is closing the WebSocket, or the writer for the producer, which is
\* not blocked itself and has yet to close the queue (37-43, 63, 84-85).
ShutdownFrees ==
  ~open["stream"] =>
    \A g \in Goroutines : Blocked(g) =>
      \/ \E h \in Goroutines : pc[h] = "closing"
      \/ /\ g = "writer" /\ pc[g] = "recv"
         /\ pc["producer"] \in {"read", "send", "evict", "count", "close"}
         /\ ~Blocked("producer")

\* The bridge is a lossy feed: see LossyFeed.  An eviction counts as a loss from
\* the moment it happens; a line is delivered when its frame is written.
Pending ==
  {queue[i] : i \in DOMAIN queue}
    \union (IF out # 0 THEN {out} ELSE {})
    \union (IF Enqueueing THEN {read} ELSE {})

Feed == INSTANCE LossyFeed WITH
  offered <- read, pending <- Pending, delivered <- lines,
  lost <- dropped + Uncounted, reported <- meta

ImplementsFeed == Feed!Spec
=============================================================================
