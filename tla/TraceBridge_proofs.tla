-------------------------- MODULE TraceBridge_proofs --------------------------
(***************************************************************************)
(* Proofs about TraceBridge for every queue size and every number of       *)
(* lines.  The inductive invariant IInv adds to the checked invariants     *)
(* what relates the lines in the queue to those before and after it:       *)
(* the lines missing before any queued line have all been counted, or are  *)
(* being counted.                                                          *)
(***************************************************************************)
EXTENDS TraceBridge, TLAPS

\* Which program counters a goroutine can have, and when the writer holds a line.
PcOK ==
  /\ pc["producer"] \in {"read", "send", "evict", "count", "close",
                         "shutdown", "closing", "done"}
  /\ pc["writer"] \in {"recv", "load", "meta", "line", "shutdown", "closing", "done"}
  /\ pc["pump"] \in {"read", "shutdown", "closing", "done"}
  /\ pc["writer"] \in {"load", "meta", "line"} => out # 0
  /\ pc["writer"] = "recv" => out = 0

\* The queue is sorted and newer than what has left it.
QueueOrder ==
  /\ \A i, j \in DOMAIN queue : i < j => queue[i] < queue[j]
  /\ \A i \in DOMAIN queue : out < queue[i]
  /\ \A i \in DOMAIN queue, j \in DOMAIN lines : lines[j] < queue[i]

\* Behind a queued line there is room for the lines queued after it.
Spacing ==
  /\ \A i \in DOMAIN queue : queue[i] + (Len(queue) - i) + Held <= read
  /\ out + Held <= read
  /\ \A i \in DOMAIN lines : lines[i] + Held <= read

\* What the writer knows of the counter, and of the gap before its line.
Reports ==
  /\ meta <= lastReported /\ lastReported <= dropped
  /\ pc["writer"] = "load" => out - 1 - Len(lines) <= dropped + Uncounted
  /\ pc["writer"] \in {"meta", "line"} => out - 1 - Len(lines) <= lastReported + 1
  /\ pc["writer"] \in {"recv", "load", "line"} => meta = lastReported
  /\ pc["writer"] = "meta" => meta < lastReported

Order == InOrder /\ QueueOrder /\ Spacing

IInv == TypeOK /\ PcOK /\ Conservation /\ Order /\ Reports

-----------------------------------------------------------------------------
(* Lemmas *)

\* A sequence is a function on an initial segment of the positive naturals.
LEMMA SeqFacts ==
  ASSUME NEW S, NEW s \in Seq(S)
  PROVE  Len(s) \in Nat /\ DOMAIN s = 1..Len(s) /\ \A i \in DOMAIN s : s[i] \in S
  OBVIOUS

\* What the head and the tail of a sequence are made of.
LEMMA TailFacts ==
  ASSUME NEW S, NEW s \in Seq(S), s # <<>>
  PROVE  /\ Len(s) \in Nat \ {0} /\ DOMAIN s = 1..Len(s)
         /\ Head(s) = s[1] /\ Head(s) \in S
         /\ Tail(s) \in Seq(S) /\ Len(Tail(s)) = Len(s) - 1
         /\ DOMAIN Tail(s) = 1..(Len(s) - 1)
         /\ \A i \in 1..(Len(s) - 1) : Tail(s)[i] = s[i + 1]
  OBVIOUS

\* What a sequence is made of once an element has been appended.
LEMMA AppendFacts ==
  ASSUME NEW S, NEW s \in Seq(S), NEW e \in S
  PROVE  /\ Len(s) \in Nat /\ DOMAIN s = 1..Len(s)
         /\ Append(s, e) \in Seq(S) /\ Len(Append(s, e)) = Len(s) + 1
         /\ DOMAIN Append(s, e) = 1..(Len(s) + 1)
         /\ \A i \in 1..Len(s) : Append(s, e)[i] = s[i]
         /\ Append(s, e)[Len(s) + 1] = e
  OBVIOUS

\* Goto moves one goroutine and leaves the others where they are.
LEMMA GotoFacts ==
  ASSUME TypeOK, NEW g \in Goroutines, NEW from, NEW to, Goto(g, from, to)
  PROVE  /\ pc[g] = from /\ pc'[g] = to
         /\ \A h \in Goroutines \ {g} : pc'[h] = pc[h]
  BY DEF TypeOK, Goto

\* Moving a goroutine to a program counter of its own keeps PcOK's first part
\* and pc's type.
LEMMA GotoType ==
  ASSUME TypeOK, NEW g \in Goroutines, NEW from, NEW to, Goto(g, from, to),
         to \in Pcs
  PROVE  pc' \in [Goroutines -> Pcs]
  BY DEF TypeOK, Goto

\* The counts in terms of the type invariant.
LEMMA Counts ==
  ASSUME IInv
  PROVE  /\ Held \in 0..1 /\ InHand \in 0..1 /\ Uncounted \in 0..1
         /\ Len(queue) \in Nat /\ Len(lines) \in Nat /\ dropped \in Nat /\ read \in Nat
         /\ read = Len(lines) + InHand + Len(queue) + dropped + Uncounted + Held
<1>1. Held \in 0..1 /\ InHand \in 0..1 /\ Uncounted \in 0..1
  BY DEF Held, InHand, Uncounted
<1>2. Len(queue) \in Nat /\ Len(lines) \in Nat
  BY DEF IInv, TypeOK
<1>3. dropped \in Nat /\ read \in Nat
  BY SizesAssumption DEF IInv, TypeOK
<1> QED BY <1>1, <1>2, <1>3 DEF IInv, Conservation

\* What the sequences and the numbers are, without the bounds.
LEMMA Types ==
  ASSUME TypeOK
  PROVE  /\ read \in Nat /\ out \in Nat /\ dropped \in Nat
         /\ lastReported \in Nat /\ meta \in Nat
         /\ queue \in Seq(1..MaxLines) /\ DOMAIN queue = 1..Len(queue)
         /\ lines \in Seq(1..MaxLines) /\ DOMAIN lines = 1..Len(lines)
         /\ Len(queue) \in Nat /\ Len(lines) \in Nat
         /\ \A i \in DOMAIN queue : queue[i] \in Nat
         /\ \A i \in DOMAIN lines : lines[i] \in Nat
<1>1. /\ read \in Nat /\ out \in Nat /\ dropped \in Nat
      /\ lastReported \in Nat /\ meta \in Nat
  BY SizesAssumption DEF TypeOK
<1>2. queue \in Seq(1..MaxLines) /\ lines \in Seq(1..MaxLines)
  BY DEF TypeOK
<1>3. /\ DOMAIN queue = 1..Len(queue) /\ Len(queue) \in Nat
      /\ \A i \in DOMAIN queue : queue[i] \in 1..MaxLines
  BY <1>2, SeqFacts
<1>4. /\ DOMAIN lines = 1..Len(lines) /\ Len(lines) \in Nat
      /\ \A i \in DOMAIN lines : lines[i] \in 1..MaxLines
  BY <1>2, SeqFacts
<1>7. 1..MaxLines \subseteq Nat
  BY SizesAssumption
<1> QED BY <1>1, <1>2, <1>3, <1>4, <1>7

\* A step that moves no line and counts nothing keeps everything but TypeOK and
\* PcOK, provided the writer stays where it is or gives up.
LEMMA Frame ==
  ASSUME IInv,
         UNCHANGED <<read, queue, dropped, out, lastReported, lines, meta>>,
         Held' = Held, Uncounted' = Uncounted,
         \/ pc'["writer"] = pc["writer"]
         \/ pc'["writer"] \in {"shutdown", "closing", "done"}
  PROVE  Conservation' /\ Order' /\ Reports'
<1>1. Conservation'
  BY DEF IInv, Conservation, InHand
<1>2. Order'
  BY DEF IInv, Order, InOrder, QueueOrder, Spacing
<1>3. Reports'
  BY DEF IInv, Reports
<1> QED BY <1>1, <1>2, <1>3

-----------------------------------------------------------------------------
(* The invariant holds at the start and every action keeps it *)

LEMMA InitIInv == Init => IInv
<1> SUFFICES ASSUME Init PROVE IInv
  OBVIOUS
<1>1. TypeOK
  <2>1. /\ pc \in [Goroutines -> {"read", "recv"}]
        /\ open \in [Ends -> BOOLEAN] /\ up \in [Ends -> BOOLEAN]
    BY DEF Init, Goroutines, Ends
  <2>4. {"read", "recv"} \subseteq Pcs
    BY DEF Pcs
  <2>2. <<>> \in Seq(1..MaxLines) /\ Len(<<>>) = 0
    OBVIOUS
  <2>3. 0 \in 0..MaxLines /\ 0 <= QueueSize
    BY SizesAssumption
  <2> QED BY <2>1, <2>2, <2>3, <2>4 DEF Init, TypeOK
<1>4. PcOK
  BY DEF Init, PcOK
<1>2. Conservation /\ Reports
  BY DEF Init, Conservation, Reports, Held, InHand, Uncounted, Enqueueing
<1>3. Order
  BY DEF Init, Order, InOrder, QueueOrder, Spacing, Held, Enqueueing
<1> QED BY <1>1, <1>2, <1>3, <1>4 DEF IInv

\* A line read from the stream is either in the producer's hand or counted.
LEMMA HandleLineKeeps ==
  ASSUME IInv, NEW err \in BOOLEAN, HandleLine(err), writerVars' = writerVars,
         torn' \in {torn, read + 1}, UNCHANGED <<queue, queueClosed, endVars>>,
         ended' \in BOOLEAN
  PROVE  IInv'
<1> USE DEF HandleLine, writerVars, endVars
<1>1. /\ pc["producer"] = "read"
      /\ pc'["producer"] \in {"send", "close", "read"}
      /\ pc'["writer"] = pc["writer"] /\ pc'["pump"] = pc["pump"]
      /\ \/ pc'["producer"] = "send" /\ dropped' = dropped
         \/ pc'["producer"] # "send" /\ dropped' = dropped + 1
  BY GotoFacts DEF IInv, Goroutines, AfterLine
<1>2. Held = 0 /\ Uncounted = 0 /\ Uncounted' = 0 /\ InHand' = InHand
  BY <1>1 DEF Held, Uncounted, Enqueueing, InHand
<1>3. Held' = IF pc'["producer"] = "send" THEN 1 ELSE 0
  BY <1>1 DEF Held, Enqueueing
<1>4. TypeOK'
  <2>1. pc' \in [Goroutines -> Pcs]
    BY GotoType DEF Pcs, IInv, Goroutines, AfterLine
  <2>2. dropped <= read /\ read + 1 <= MaxLines
    BY Counts, SizesAssumption DEF IInv, TypeOK
  <2>3. dropped' \in 0..MaxLines /\ read' \in 0..MaxLines /\ torn' \in 0..MaxLines
    BY <1>1, <2>2, SizesAssumption DEF IInv, TypeOK
  <2> QED BY <2>1, <2>3 DEF IInv, TypeOK
<1>5. PcOK'
  BY <1>1 DEF IInv, PcOK
<1>6. Conservation'
  BY <1>1, <1>2, <1>3, Counts DEF Conservation
<1>7. Order'
  <2>1. read + 1 \in Nat /\ Held' \in 0..1 /\ read' = read + 1
    BY <1>3, Counts
  <2>2. InOrder' /\ QueueOrder'
    BY DEF IInv, Order, InOrder, QueueOrder
  <2>3. Spacing'
    BY <1>2, <2>1, Types DEF IInv, Order, Spacing
  <2> QED BY <2>2, <2>3 DEF Order
<1>8. Reports'
  BY <1>1, <1>2 DEF IInv, TypeOK, Reports
<1> QED BY <1>4, <1>5, <1>6, <1>7, <1>8 DEF IInv

LEMMA SendKeeps == ASSUME IInv, Send PROVE IInv'
<1> USE DEF Send, producerVars, writerVars, endVars
<1>1. /\ pc["producer"] = "send" /\ pc'["producer"] \in {"close", "read"}
      /\ pc'["writer"] = pc["writer"] /\ pc'["pump"] = pc["pump"]
  BY GotoFacts DEF IInv, Goroutines, AfterLine
<1>2. /\ Held = 1 /\ Held' = 0 /\ Uncounted = 0 /\ Uncounted' = 0
      /\ InHand' = InHand
  BY <1>1 DEF Held, Uncounted, Enqueueing, InHand
<1>3. read \in 1..MaxLines
  BY <1>2, Counts DEF IInv, TypeOK
<1>4. /\ queue \in Seq(1..MaxLines) /\ queue' = Append(queue, read)
      /\ queue' \in Seq(1..MaxLines) /\ Len(queue') = Len(queue) + 1
      /\ DOMAIN queue = 1..Len(queue) /\ DOMAIN queue' = 1..(Len(queue) + 1)
      /\ \A i \in 1..Len(queue) : queue'[i] = queue[i]
      /\ \A i \in 1..Len(queue) : queue[i] \in Nat
      /\ queue'[Len(queue) + 1] = read
      /\ Len(queue) \in Nat
  BY <1>3, AppendFacts, Types DEF IInv
<1>5. TypeOK'
  <2>1. pc' \in [Goroutines -> Pcs]
    BY GotoType DEF Pcs, IInv, Goroutines, AfterLine
  <2>2. Len(queue') <= QueueSize
    BY <1>4, SizesAssumption DEF Full
  <2> QED BY <1>4, <2>1, <2>2 DEF IInv, TypeOK
<1>6. PcOK'
  BY <1>1 DEF IInv, PcOK
<1>7. Conservation'
  <2>1. read' = read /\ dropped' = dropped /\ lines' = lines
    OBVIOUS
  <2>2. Len(queue') = Len(queue) + 1
    BY <1>4
  <2> HIDE DEF Send
  <2> QED BY <1>2, <2>1, <2>2, Counts DEF Conservation
<1>8. Order'
  <2>1. InOrder'
    BY DEF IInv, Order, InOrder
  <2>2. /\ \A i \in 1..Len(queue) : queue[i] < read
        /\ out < read /\ \A i \in DOMAIN lines : lines[i] < read /\ lines[i] \in Nat
    <3>1. \A i \in 1..Len(queue) : queue[i] + (Len(queue) - i) + 1 <= read
      BY <1>2, <1>4 DEF IInv, Order, Spacing
    <3>2. /\ out + 1 <= read /\ out \in Nat /\ read \in Nat
          /\ \A i \in DOMAIN lines : lines[i] + 1 <= read /\ lines[i] \in Nat
      BY <1>2, Types DEF IInv, Order, Spacing
    <3> QED BY <1>4, <3>1, <3>2
  <2>3. QueueOrder'
    BY <1>4, <2>2, Counts DEF IInv, TypeOK, Order, QueueOrder
  <2>4. \A i \in DOMAIN queue' : queue'[i] + (Len(queue') - i) + Held' <= read'
    BY <1>2, <1>4, Counts DEF IInv, Order, Spacing
  <2>5. Spacing'
    BY <1>2, <2>2, <2>4, Counts DEF IInv, TypeOK, Spacing
  <2> QED BY <2>1, <2>3, <2>5 DEF Order
<1>9. Reports'
  BY <1>1, <1>2 DEF IInv, Reports
<1> QED BY <1>5, <1>6, <1>7, <1>8, <1>9 DEF IInv

LEMMA EvictKeeps == ASSUME IInv, Evict PROVE IInv'
<1> USE DEF Evict, producerVars, writerVars, endVars
<1>1. /\ pc["producer"] = "evict" /\ pc'["producer"] \in {"count", "send"}
      /\ pc'["writer"] = pc["writer"] /\ pc'["pump"] = pc["pump"]
  BY GotoFacts DEF IInv, Goroutines
<1>2. /\ Held = 1 /\ Held' = 1 /\ Uncounted = 0 /\ InHand' = InHand
  BY <1>1 DEF Held, Uncounted, Enqueueing, InHand
<1>3. pc' \in [Goroutines -> Pcs]
  BY GotoType DEF Pcs, IInv, Goroutines
<1>4. PcOK'
  BY <1>1 DEF IInv, PcOK
<1>5. CASE queue = <<>> /\ queue' = queue /\ pc'["producer"] = "send"
  <2>1. Uncounted' = Uncounted
    BY <1>1, <1>5 DEF Uncounted
  <2>2. TypeOK'
    BY <1>3, <1>5 DEF IInv, TypeOK
  <2> QED BY <1>1, <1>2, <1>4, <1>5, <2>1, <2>2, Frame DEF IInv
<1>6. CASE queue # <<>> /\ queue' = Tail(queue) /\ pc'["producer"] = "count"
  <2>1. Uncounted' = 1
    BY <1>6 DEF Uncounted
  <2>2. /\ queue' \in Seq(1..MaxLines) /\ Len(queue') = Len(queue) - 1
        /\ DOMAIN queue = 1..Len(queue) /\ DOMAIN queue' = 1..(Len(queue) - 1)
        /\ \A i \in 1..(Len(queue) - 1) : queue'[i] = queue[i + 1]
        /\ \A i \in 1..Len(queue) : queue[i] \in Nat
        /\ Len(queue) \in Nat \ {0}
    BY <1>6, TailFacts, Types DEF IInv
  <2>3. TypeOK'
    BY <1>3, <2>2, SizesAssumption DEF IInv, TypeOK
  <2>4. Conservation'
    BY <1>2, <2>1, <2>2, Counts DEF Conservation
  <2>5. Order'
    <3>1. InOrder'
      BY DEF IInv, Order, InOrder
    <3>2. QueueOrder'
      <4>1. \A i \in DOMAIN queue' : i + 1 \in DOMAIN queue /\ queue'[i] = queue[i + 1]
        BY <2>2
      <4>2. \A i, j \in DOMAIN queue' : i < j => i + 1 < j + 1
        BY <2>2
      <4> QED BY <4>1, <4>2 DEF IInv, Order, QueueOrder
    <3>3. ASSUME NEW i \in DOMAIN queue'
          PROVE  queue'[i] + (Len(queue') - i) + Held' <= read'
      <4>1. queue[i + 1] + (Len(queue) - (i + 1)) + Held <= read
        BY <2>2 DEF IInv, Order, Spacing
      <4>2. i \in Nat /\ queue'[i] = queue[i + 1] /\ read' = read
        BY <2>2
      <4> QED BY <1>2, <2>2, <4>1, <4>2
    <3>4. Spacing'
      BY <1>2, <3>3 DEF IInv, Order, Spacing
    <3> QED BY <3>1, <3>2, <3>4 DEF Order
  <2>6. Reports'
    BY <1>1, <1>2, <2>1 DEF IInv, TypeOK, Reports
  <2> QED BY <1>4, <2>3, <2>4, <2>5, <2>6 DEF IInv
<1>7. \/ queue = <<>> /\ queue' = queue /\ pc'["producer"] = "send"
      \/ queue # <<>> /\ queue' = Tail(queue) /\ pc'["producer"] = "count"
  BY GotoFacts DEF IInv, Goroutines
<1> QED BY <1>5, <1>6, <1>7

LEMMA CountKeeps == ASSUME IInv, Count PROVE IInv'
<1> USE DEF Count, producerVars, writerVars, endVars
<1>1. /\ pc["producer"] = "count" /\ pc'["producer"] = "send"
      /\ pc'["writer"] = pc["writer"] /\ pc'["pump"] = pc["pump"]
  BY GotoFacts DEF IInv, Goroutines
<1>2. /\ Held = 1 /\ Held' = 1 /\ Uncounted = 1 /\ Uncounted' = 0
      /\ InHand' = InHand
  BY <1>1 DEF Held, Uncounted, Enqueueing, InHand
<1>3. TypeOK'
  <2>1. pc' \in [Goroutines -> Pcs]
    BY GotoType DEF Pcs, IInv, Goroutines
  <2>2. dropped + 1 <= read
    BY <1>2, Counts
  <2>3. dropped' \in 0..MaxLines
    BY <2>2, SizesAssumption DEF IInv, TypeOK
  <2> QED BY <2>1, <2>3 DEF IInv, TypeOK
<1>4. PcOK'
  BY <1>1 DEF IInv, PcOK
<1>5. Conservation'
  BY <1>2, Counts DEF Conservation
<1>6. Order'
  BY <1>2 DEF IInv, Order, InOrder, QueueOrder, Spacing
<1>7. Reports'
  BY <1>1, <1>2, Types DEF IInv, Reports
<1> QED BY <1>3, <1>4, <1>5, <1>6, <1>7 DEF IInv

\* The line the writer receives is the oldest in the queue, so what is missing
\* before it has been evicted or rejected.
LEMMA ReceiveKeeps == ASSUME IInv, Receive PROVE IInv'
<1> USE DEF Receive, producerVars, writerVars, endVars
<1>1. /\ pc["writer"] = "recv" /\ pc'["writer"] \in {"load", "shutdown"}
      /\ pc'["producer"] = pc["producer"] /\ pc'["pump"] = pc["pump"]
      /\ out = 0
  BY GotoFacts DEF IInv, PcOK, Goroutines
<1>2. Held' = Held /\ Uncounted' = Uncounted /\ InHand = 0
  BY <1>1 DEF Held, Uncounted, Enqueueing, InHand
<1>3. pc' \in [Goroutines -> Pcs]
  BY GotoType DEF Pcs, IInv, Goroutines
<1>4. CASE queue' = queue /\ out' = out /\ pc'["writer"] = "shutdown"
  <2>1. TypeOK'
    BY <1>3, <1>4 DEF IInv, TypeOK
  <2>2. PcOK'
    BY <1>1, <1>4 DEF IInv, PcOK
  <2> QED BY <1>2, <1>4, <2>1, <2>2, Frame DEF IInv
<1>5. CASE /\ queue # <<>> /\ out' = Head(queue) /\ queue' = Tail(queue)
           /\ pc'["writer"] = "load"
  <2>1. /\ queue' \in Seq(1..MaxLines) /\ Len(queue') = Len(queue) - 1
        /\ DOMAIN queue = 1..Len(queue) /\ DOMAIN queue' = 1..(Len(queue) - 1)
        /\ \A i \in 1..(Len(queue) - 1) : queue'[i] = queue[i + 1]
        /\ out' = queue[1] /\ out' \in 1..MaxLines
        /\ Len(queue) \in Nat \ {0}
    BY <1>5, TailFacts, Types DEF IInv
  <2>2. /\ \A i \in DOMAIN queue' : i + 1 \in DOMAIN queue /\ queue'[i] = queue[i + 1]
        /\ \A i, j \in DOMAIN queue' : i < j => i + 1 < j + 1
        /\ \A i \in DOMAIN queue' : 1 < i + 1
        /\ 1 \in DOMAIN queue
    BY <2>1
  <2>3. InHand' = 1 /\ out' # 0
    BY <2>1, SizesAssumption DEF InHand
  <2>4. TypeOK'
    <3>1. Len(queue') <= QueueSize
      BY <2>1, SizesAssumption DEF IInv, TypeOK
    <3>2. out' \in 0..MaxLines
      BY <2>1, SizesAssumption
    <3> QED BY <1>3, <2>1, <3>1, <3>2 DEF IInv, TypeOK
  <2>5. PcOK'
    BY <1>1, <1>5, <2>3 DEF IInv, PcOK
  <2>6. Conservation'
    <3>1. /\ read' = read /\ dropped' = dropped /\ lines' = lines
          /\ Len(queue') = Len(queue) - 1
      BY <2>1
    <3> HIDE DEF Receive
    <3> QED BY <1>2, <2>3, <3>1, Counts DEF Conservation
  <2>7. Order'
    <3>1. InOrder' /\ QueueOrder'
      BY <2>1, <2>2 DEF IInv, Order, InOrder, QueueOrder
    <3>2. \A i \in DOMAIN queue' : queue'[i] + (Len(queue') - i) + Held' <= read'
      <4>1. \A i \in DOMAIN queue' :
              queue[i + 1] + (Len(queue) - (i + 1)) + Held <= read
        BY <2>2 DEF IInv, Order, Spacing
      <4>2. \A i \in DOMAIN queue' : Len(queue') - i = Len(queue) - (i + 1)
        BY <2>1
      <4> QED BY <1>2, <2>2, <4>1, <4>2
    <3>3. queue[1] + (Len(queue) - 1) + Held <= read
      BY <2>2 DEF IInv, Order, Spacing
    <3>4. out' + Held' <= read'
      BY <1>2, <2>1, <3>3, Counts
    <3>5. Spacing'
      BY <1>2, <3>2, <3>4 DEF IInv, Order, Spacing
    <3> QED BY <3>1, <3>5 DEF Order
  <2>8. Reports'
    <3>1. queue[1] + (Len(queue) - 1) + Held <= read /\ queue[1] \in Nat
      BY <2>2, Types DEF IInv, Order, Spacing
    <3>2. read = Len(lines) + Len(queue) + dropped + Uncounted + Held
      BY <1>2, Counts
    <3>3. queue[1] - 1 - Len(lines) <= dropped + Uncounted
      <4> HIDE DEF Receive, producerVars, writerVars, endVars
      <4>1. /\ Len(queue) \in Nat /\ Len(lines) \in Nat /\ dropped \in Nat
            /\ read \in Nat /\ Held \in 0..1 /\ Uncounted \in 0..1
        BY Counts
      <4> QED BY <3>1, <3>2, <4>1
    <3> QED BY <1>1, <1>2, <1>5, <2>1, <3>3 DEF IInv, Reports
  <2> QED BY <2>4, <2>5, <2>6, <2>7, <2>8 DEF IInv
<1>6. \/ queue' = queue /\ out' = out /\ pc'["writer"] = "shutdown"
      \/ /\ queue # <<>> /\ out' = Head(queue) /\ queue' = Tail(queue)
         /\ pc'["writer"] = "load"
  BY GotoFacts DEF IInv, Goroutines
<1> QED BY <1>4, <1>5, <1>6

\* The load catches all losses before the line but one that is being counted.
LEMMA LoadKeeps == ASSUME IInv, Load PROVE IInv'
<1> USE DEF Load, producerVars, writerVars, endVars
<1>1. /\ pc["writer"] = "load" /\ pc'["producer"] = pc["producer"]
      /\ pc'["pump"] = pc["pump"]
      /\ pc'["writer"] = IF dropped # lastReported THEN "meta" ELSE "line"
  BY GotoFacts DEF IInv, Goroutines
<1>2. /\ Held' = Held /\ Uncounted' = Uncounted /\ Uncounted \in 0..1
      /\ InHand' = InHand
  BY <1>1 DEF Held, Uncounted, Enqueueing, InHand
<1>3. TypeOK'
  <2>1. pc' \in [Goroutines -> Pcs]
    BY GotoType DEF Pcs, IInv, Goroutines
  <2> QED BY <2>1 DEF IInv, TypeOK
<1>4. PcOK'
  BY <1>1 DEF IInv, PcOK
<1>5. Conservation' /\ Order'
  BY <1>2 DEF IInv, Conservation, Order, InOrder, QueueOrder, Spacing
<1>6. Reports'
  BY <1>1, <1>2, Types DEF IInv, Reports
<1> QED BY <1>3, <1>4, <1>5, <1>6 DEF IInv

LEMMA WriteMetaKeeps == ASSUME IInv, WriteMeta PROVE IInv'
<1> USE DEF WriteMeta, producerVars, writerVars, endVars
<1>1. /\ pc["writer"] = "meta" /\ pc'["writer"] = "line"
      /\ pc'["producer"] = pc["producer"] /\ pc'["pump"] = pc["pump"]
  BY GotoFacts DEF IInv, Goroutines
<1>2. Held' = Held /\ Uncounted' = Uncounted /\ InHand' = InHand
  BY <1>1 DEF Held, Uncounted, Enqueueing, InHand
<1>3. TypeOK'
  <2>1. pc' \in [Goroutines -> Pcs]
    BY GotoType DEF Pcs, IInv, Goroutines
  <2> QED BY <2>1 DEF IInv, TypeOK
<1>4. PcOK'
  BY <1>1 DEF IInv, PcOK
<1>5. Conservation' /\ Order'
  BY <1>2 DEF IInv, Conservation, Order, InOrder, QueueOrder, Spacing
<1>6. Reports'
  BY <1>1, <1>2, Types DEF IInv, Reports
<1> QED BY <1>3, <1>4, <1>5, <1>6 DEF IInv

LEMMA WriteLineKeeps == ASSUME IInv, WriteLine PROVE IInv'
<1> USE DEF WriteLine, producerVars, writerVars, endVars
<1>1. /\ pc["writer"] = "line" /\ pc'["writer"] = "recv"
      /\ pc'["producer"] = pc["producer"] /\ pc'["pump"] = pc["pump"]
      /\ out # 0
  BY GotoFacts DEF IInv, PcOK, Goroutines
<1>2. Held' = Held /\ Uncounted' = Uncounted /\ InHand = 1 /\ InHand' = 0
  BY <1>1 DEF Held, Uncounted, Enqueueing, InHand
<1>3. out \in 1..MaxLines
  BY <1>1, SizesAssumption DEF IInv, TypeOK
<1>4. /\ lines' \in Seq(1..MaxLines) /\ Len(lines') = Len(lines) + 1
      /\ DOMAIN lines = 1..Len(lines) /\ DOMAIN lines' = 1..(Len(lines) + 1)
      /\ \A i \in 1..Len(lines) : lines'[i] = lines[i]
      /\ lines'[Len(lines) + 1] = out
      /\ Len(lines) \in Nat
  BY <1>3, AppendFacts, Types DEF IInv
<1>5. TypeOK'
  <2>1. pc' \in [Goroutines -> Pcs]
    BY GotoType DEF Pcs, IInv, Goroutines
  <2> QED BY <1>4, <2>1, SizesAssumption DEF IInv, TypeOK
<1>6. PcOK'
  BY <1>1 DEF IInv, PcOK
<1>7. Conservation'
  <2>1. /\ read' = read /\ dropped' = dropped /\ queue' = queue
        /\ Len(lines') = Len(lines) + 1
    BY <1>4
  <2> HIDE DEF WriteLine
  <2> QED BY <1>2, <2>1, Counts DEF Conservation
<1>8. Order'
  <2>1. \A i \in DOMAIN lines' : \/ i \in DOMAIN lines /\ lines'[i] = lines[i]
                                 \/ i = Len(lines) + 1 /\ lines'[i] = out
    BY <1>4
  <2>2. \A i, j \in DOMAIN lines' : i < j => i \in DOMAIN lines
    BY <1>4
  <2>3. InOrder'
    BY <1>1, <2>1, <2>2 DEF IInv, Order, InOrder
  <2>4. QueueOrder'
    <3>1. \A i \in DOMAIN queue, j \in DOMAIN lines' : lines'[j] < queue[i]
      BY <2>1 DEF IInv, Order, QueueOrder
    <3>2. \A i \in DOMAIN queue : out' < queue[i]
      BY <1>3, Types DEF IInv, Order, QueueOrder
    <3> QED BY <3>1, <3>2 DEF IInv, Order, QueueOrder
  <2>5. Spacing'
    <3>1. \A i \in DOMAIN lines' : lines'[i] + Held <= read
      BY <2>1 DEF IInv, Order, Spacing
    <3>2. out' + Held' <= read'
      BY <1>2, <1>3, Counts DEF IInv, Order, Spacing
    <3> QED BY <1>2, <3>1, <3>2 DEF IInv, Order, Spacing
  <2> QED BY <2>3, <2>4, <2>5 DEF Order
<1>9. Reports'
  BY <1>1, <1>2 DEF IInv, Reports
<1> QED BY <1>5, <1>6, <1>7, <1>8, <1>9 DEF IInv

\* The other steps move a goroutine or an end, and no line.
LEMMA OtherKeeps ==
  ASSUME IInv,
         \/ SendFull \/ CloseQueue \/ WriteFails \/ NoticeClose
         \/ \E g \in Goroutines : Shutdown(g)
         \/ \E end \in Ends : PeerGone(end)
         \/ UNCHANGED vars
  PROVE  IInv'
<1> USE DEF producerVars, writerVars, endVars
<1>1. UNCHANGED <<read, queue, dropped, out, lastReported, lines, meta>>
  BY DEF SendFull, CloseQueue, WriteFails, NoticeClose, Shutdown, CloseStream,
         CloseWs, AwaitShutdown, PeerGone, vars
<1>2. /\ ended' \in BOOLEAN /\ torn' = torn /\ queueClosed' \in BOOLEAN
      /\ open' \in [Ends -> BOOLEAN] /\ up' \in [Ends -> BOOLEAN]
  BY DEF IInv, TypeOK, SendFull, CloseQueue, WriteFails, NoticeClose, Shutdown,
         CloseStream, CloseWs, AwaitShutdown, PeerGone, vars
<1>3. CASE pc' = pc
  <2>1. Held' = Held /\ Uncounted' = Uncounted
    BY <1>3 DEF Held, Uncounted, Enqueueing
  <2>2. TypeOK' /\ PcOK'
    BY <1>1, <1>2, <1>3 DEF IInv, TypeOK, PcOK
  <2> QED BY <1>1, <1>3, <2>1, <2>2, Frame DEF IInv
<1>4. CASE \E from \in {"send", "close"}, to \in {"evict", "shutdown"} :
             /\ from = "send" <=> to = "evict"
             /\ Goto("producer", from, to)
  <2>1. PICK from \in {"send", "close"}, to \in {"evict", "shutdown"} :
          /\ from = "send" <=> to = "evict"
          /\ Goto("producer", from, to)
    BY <1>4
  <2>2. /\ pc["producer"] = from /\ pc'["producer"] = to
        /\ pc'["writer"] = pc["writer"] /\ pc'["pump"] = pc["pump"]
    BY <2>1, GotoFacts DEF IInv, Goroutines
  <2>3. Held' = Held /\ Uncounted' = Uncounted
    BY <2>1, <2>2 DEF Held, Uncounted, Enqueueing
  <2>4. TypeOK'
    BY <1>1, <1>2, <2>1, GotoType DEF Pcs, IInv, TypeOK, Goroutines
  <2>5. PcOK'
    BY <1>1, <2>2 DEF IInv, PcOK
  <2> QED BY <1>1, <2>2, <2>3, <2>4, <2>5, Frame DEF IInv
<1>5. CASE \E g \in Goroutines, from \in {"meta", "line", "read", "shutdown", "closing"},
             to \in {"shutdown", "closing", "done"} :
             /\ Goto(g, from, to)
             /\ from = "read" => g # "producer"
  <2>1. PICK g \in Goroutines, from \in {"meta", "line", "read", "shutdown", "closing"},
             to \in {"shutdown", "closing", "done"} :
          /\ Goto(g, from, to)
          /\ from = "read" => g # "producer"
    BY <1>5
  <2>2. /\ pc[g] = from /\ pc'[g] = to
        /\ \A h \in Goroutines \ {g} : pc'[h] = pc[h]
    BY <2>1, GotoFacts DEF IInv
  <2>3. Held' = Held /\ Uncounted' = Uncounted
    BY <2>1, <2>2 DEF Held, Uncounted, Enqueueing, Goroutines
  <2>4. TypeOK'
    BY <1>1, <1>2, <2>1, GotoType DEF Pcs, IInv, TypeOK
  <2>5. PcOK'
    BY <1>1, <2>1, <2>2 DEF IInv, PcOK, Goroutines
  <2>6. \/ pc'["writer"] = pc["writer"]
        \/ pc'["writer"] \in {"shutdown", "closing", "done"}
    BY <2>2 DEF Goroutines
  <2> QED BY <1>1, <2>3, <2>4, <2>5, <2>6, Frame DEF IInv
<1>6. CASE SendFull \/ CloseQueue
  BY <1>4, <1>6 DEF SendFull, CloseQueue
<1>7. CASE WriteFails
  <2>1. \E from \in {"meta", "line"} : Goto("writer", from, "shutdown")
    BY <1>7 DEF WriteFails
  <2> QED BY <1>5, <2>1 DEF Goroutines
<1>8. CASE NoticeClose
  BY <1>5, <1>8 DEF NoticeClose, Goroutines
<1>9. CASE \E g \in Goroutines : Shutdown(g)
  <2>1. PICK g \in Goroutines : CloseStream(g) \/ CloseWs(g) \/ AwaitShutdown(g)
    BY <1>9 DEF Shutdown
  <2>2. \E from \in {"shutdown", "closing"}, to \in {"closing", "done"} : Goto(g, from, to)
    BY <2>1 DEF CloseStream, CloseWs, AwaitShutdown
  <2> QED BY <1>5, <2>2
<1>10. CASE (\E end \in Ends : PeerGone(end)) \/ UNCHANGED vars
  BY <1>3, <1>10 DEF PeerGone, vars
<1> QED BY <1>6, <1>7, <1>8, <1>9, <1>10

LEMMA NextKeeps == IInv /\ [Next]_vars => IInv'
<1> SUFFICES ASSUME IInv, [Next]_vars PROVE IInv'
  OBVIOUS
<1>1. CASE ReadLine
  BY <1>1, HandleLineKeeps DEF ReadLine, IInv, TypeOK, writerVars, endVars
<1>2. CASE ReadError
  <2>1. CASE HandleLine(TRUE) /\ torn' = read + 1
    BY <1>2, <2>1, HandleLineKeeps DEF ReadError
  <2>2. CASE /\ Goto("producer", "read", "close")
             /\ UNCHANGED <<read, torn, dropped>>
    <3>1. UNCHANGED <<read, queue, dropped, out, lastReported, lines, meta>>
      BY <1>2, <2>2 DEF ReadError, writerVars
    <3>2. /\ pc["producer"] = "read" /\ pc'["producer"] = "close"
          /\ pc'["writer"] = pc["writer"] /\ pc'["pump"] = pc["pump"]
      BY <2>2, GotoFacts DEF IInv, Goroutines
    <3>3. Held' = Held /\ Uncounted' = Uncounted
      BY <3>2 DEF Held, Uncounted, Enqueueing
    <3>4. TypeOK'
      <4>1. pc' \in [Goroutines -> Pcs]
        BY <2>2, GotoType DEF Pcs, IInv, Goroutines
      <4> QED BY <1>2, <2>2, <4>1 DEF ReadError, IInv, TypeOK, writerVars, endVars
    <3>5. PcOK'
      BY <3>1, <3>2 DEF IInv, PcOK
    <3> QED BY <3>1, <3>2, <3>3, <3>4, <3>5, Frame DEF IInv
  <2> QED BY <1>2, <2>1, <2>2 DEF ReadError
<1>3. CASE Enqueue
  BY <1>3, SendKeeps, EvictKeeps, CountKeeps, OtherKeeps DEF Enqueue
<1>4. CASE Receive \/ Load \/ WriteMeta \/ WriteLine
  BY <1>4, ReceiveKeeps, LoadKeeps, WriteMetaKeeps, WriteLineKeeps
<1>5. CASE CloseQueue \/ WriteFails \/ NoticeClose
  BY <1>5, OtherKeeps
<1>6. CASE \E g \in Goroutines : Shutdown(g)
  BY <1>6, OtherKeeps
<1>7. CASE \E end \in Ends : PeerGone(end)
  BY <1>7, OtherKeeps
<1>8. CASE Terminated \/ UNCHANGED vars
  BY <1>8, OtherKeeps DEF Terminated
<1> QED BY <1>1, <1>2, <1>3, <1>4, <1>5, <1>6, <1>7, <1>8 DEF Next

-----------------------------------------------------------------------------
(* Safety *)

THEOREM Invariance == Spec => []IInv
<1>1. Init => IInv
  BY InitIInv
<1>2. IInv /\ [Next]_vars => IInv'
  BY NextKeeps
<1> QED BY <1>1, <1>2, PTL DEF Spec

\* Every variable keeps its type; in particular the channel never holds more
\* than QueueSize lines.
THEOREM TypeCorrect == Spec => []TypeOK
<1>1. IInv => TypeOK
  BY DEF IInv
<1> QED BY <1>1, Invariance, PTL

\* Every line read is in one place or counted once, however the producer's
\* evictions and the writer's receives interleave (tracebridge.go:86, 107-113).
THEOREM NothingUnaccounted == Spec => []Conservation
<1>1. IInv => Conservation
  BY DEF IInv
<1> QED BY <1>1, Invariance, PTL

\* Event frames reach the browser in the tail's order, none twice.
THEOREM OrderKept == Spec => []InOrder
<1>1. IInv => InOrder
  BY DEF IInv, Order
<1> QED BY <1>1, Invariance, PTL

\* No line is written across a gap that the trace_meta frames written so far
\* leave more than one line short (tracebridge.go:87-95 against 111-112).
THEOREM GapsReported == Spec => []GapReported
<1>1. IInv => GapReported
  <2> SUFFICES ASSUME IInv, pc["writer"] = "line" PROVE out - 1 - Len(lines) <= meta + 1
    BY DEF GapReported
  <2>1. out - 1 - Len(lines) <= lastReported + 1 /\ meta = lastReported
    BY DEF IInv, Reports
  <2> QED BY <2>1
<1> QED BY <1>1, Invariance, PTL

-----------------------------------------------------------------------------
(* The retry after an eviction finds room *)

\* Between an eviction and its dropped.Add the queue has room: the writer only takes.
Room == pc["producer"] = "count" => ~Full

\* A queue that a line is taken from has room.
LEMMA TakingMakesRoom ==
  ASSUME TypeOK, queue # <<>>, queue' = Tail(queue)
  PROVE  Len(queue') < QueueSize /\ ~Full'
<1>1. Len(queue') = Len(queue) - 1 /\ Len(queue) \in Nat /\ Len(queue) <= QueueSize
  BY TailFacts DEF TypeOK
<1>2. QueueSize \in Nat
  BY SizesAssumption
<1> QED BY <1>1, <1>2 DEF Full

\* What a step can do to the producer's place and to the queue at once.
LEMMA ProducerMoves ==
  ASSUME IInv, [Next]_vars
  PROVE  \/ /\ pc'["producer"] = pc["producer"]
            /\ queue' = queue \/ (queue # <<>> /\ queue' = Tail(queue))
         \/ /\ pc["producer"] = "evict" /\ queue = <<>> /\ UNCHANGED queue
            /\ pc'["producer"] = "send"
         \/ /\ pc["producer"] = "evict" /\ queue # <<>> /\ queue' = Tail(queue)
            /\ pc'["producer"] = "count"
         \/ /\ pc["producer"] = "count" /\ UNCHANGED queue /\ pc'["producer"] = "send"
         \/ /\ pc["producer"] \notin {"evict", "count"} /\ pc'["producer"] # "count"
            /\ pc["producer"] = "send" => pc'["producer"] # "send"
<1> USE DEF Goroutines, endVars, producerVars, writerVars
<1>0. TypeOK
  BY DEF IInv
<1>1. CASE ReadLine \/ ReadError
  BY <1>0, <1>1, GotoFacts DEF ReadLine, ReadError, HandleLine, AfterLine
<1>2. CASE Send \/ SendFull
  BY <1>0, <1>2, GotoFacts DEF Send, SendFull, AfterLine
<1>3. CASE Evict
  BY <1>0, <1>3, GotoFacts DEF Evict
<1>4. CASE Count
  BY <1>0, <1>4, GotoFacts DEF Count
<1>5. CASE CloseQueue
  BY <1>0, <1>5, GotoFacts DEF CloseQueue
<1>6. CASE Receive
  BY <1>0, <1>6, GotoFacts DEF Receive
<1>7. CASE Load \/ WriteMeta \/ WriteLine
  BY <1>0, <1>7, GotoFacts DEF Load, WriteMeta, WriteLine
<1>8. CASE WriteFails \/ NoticeClose
  BY <1>0, <1>8, GotoFacts DEF WriteFails, NoticeClose
<1>9. CASE \E g \in Goroutines : Shutdown(g)
  <2>1. PICK g \in Goroutines : Shutdown(g)
    BY <1>9
  <2>2. \E from \in {"shutdown", "closing"}, to \in {"closing", "done"} : Goto(g, from, to)
    BY <2>1 DEF Shutdown, CloseStream, CloseWs, AwaitShutdown
  <2>3. queue' = queue
    BY <2>1 DEF Shutdown, CloseStream, CloseWs, AwaitShutdown
  <2> QED BY <1>0, <2>2, <2>3, GotoFacts
<1>10. CASE (\E end \in Ends : PeerGone(end)) \/ Terminated \/ UNCHANGED vars
  BY <1>10 DEF PeerGone, Terminated, vars
<1> QED BY <1>1, <1>2, <1>3, <1>4, <1>5, <1>6, <1>7, <1>8, <1>9, <1>10 DEF Next, Enqueue

LEMMA RoomKeeps == IInv /\ Room /\ [Next]_vars => Room'
<1> SUFFICES ASSUME IInv, Room, [Next]_vars, pc'["producer"] = "count" PROVE ~Full'
  BY DEF Room
<1>0. TypeOK
  BY DEF IInv
<1>1. CASE queue # <<>> /\ queue' = Tail(queue)
  BY <1>0, <1>1, TakingMakesRoom
<1>2. CASE pc["producer"] = "count" /\ queue' = queue
  BY <1>2 DEF Room, Full
<1> QED BY <1>1, <1>2, ProducerMoves

THEOREM RoomInvariance == Spec => []Room
<1>1. Init => Room
  BY DEF Init, Room
<1> QED BY <1>1, RoomKeeps, Invariance, PTL DEF Spec

\* The retry after an eviction finds room and keeps it, for every queue size: what
\* TailNeverStalls rests on (tracebridge.go:104-117).
THEOREM RetrySucceeds == Spec => RetryFindsRoom
<1>1. IInv /\ Room /\ [Next]_vars =>
        [/\ pc["producer"] \in {"evict", "count"} \/ (pc["producer"] = "send" /\ ~Full)
         /\ pc'["producer"] = "send"
         => ~Full']_vars
  <2> SUFFICES ASSUME IInv, Room, [Next]_vars,
                      pc["producer"] \in {"evict", "count"} \/ (pc["producer"] = "send" /\ ~Full),
                      pc'["producer"] = "send"
               PROVE  ~Full'
    OBVIOUS
  <2>0. TypeOK
    BY DEF IInv
  <2>1. CASE queue # <<>> /\ queue' = Tail(queue)
    BY <2>0, <2>1, TakingMakesRoom
  <2>2. CASE queue = <<>> /\ queue' = queue
    <3>1. Len(queue') = 0
      BY <2>2
    <3>2. QueueSize \in Nat \ {0}
      BY SizesAssumption
    <3> QED BY <3>1, <3>2 DEF Full
  <2>3. CASE pc["producer"] \in {"count", "send"} /\ queue' = queue
    <3>1. ~Full
      BY <2>3 DEF Room
    <3> QED BY <2>3, <3>1 DEF Full
  <2> QED BY <2>1, <2>2, <2>3, ProducerMoves
<1> QED BY <1>1, Invariance, RoomInvariance, PTL DEF Spec, RetryFindsRoom

-----------------------------------------------------------------------------
(* Closing the stream frees everybody *)

\* A shutdown under way has somebody to finish it, and the queue is open only as long as
\* the producer may put a line on it.
Closers ==
  /\ ~open["stream"] /\ open["ws"] => \E g \in Goroutines : pc[g] = "closing"
  /\ ~queueClosed => pc["producer"] \in {"read", "send", "evict", "count", "close"}

LEMMA ClosersKeep == IInv /\ Closers /\ [Next]_vars => Closers'
<1> SUFFICES ASSUME IInv, Closers, [Next]_vars PROVE Closers'
  OBVIOUS
<1> USE DEF Goroutines, endVars, producerVars, writerVars
<1>0. TypeOK
  BY DEF IInv
<1>1. ASSUME open' = open, queueClosed' = queueClosed,
             NEW g \in Goroutines, NEW from, NEW to, Goto(g, from, to), from # "closing",
             g = "producer" => to \in {"read", "send", "evict", "count", "close"} \/ queueClosed
      PROVE  Closers'
  BY <1>0, <1>1, GotoFacts DEF Closers
<1>2. CASE ReadLine \/ ReadError
  BY <1>1, <1>2 DEF ReadLine, ReadError, HandleLine, AfterLine
<1>3. CASE Enqueue
  BY <1>1, <1>3 DEF Enqueue, Send, SendFull, Evict, Count, AfterLine
<1>4. CASE CloseQueue
  BY <1>0, <1>4, GotoFacts DEF CloseQueue, Closers
<1>5. CASE Receive \/ Load \/ WriteMeta \/ WriteLine
  BY <1>1, <1>5 DEF Receive, Load, WriteMeta, WriteLine
<1>6. CASE WriteFails \/ NoticeClose
  BY <1>1, <1>6 DEF WriteFails, NoticeClose
<1>7. ASSUME NEW g \in Goroutines, Shutdown(g) PROVE Closers'
  <2>0. g = "producer" => queueClosed
    BY <1>7 DEF Closers, Shutdown, CloseStream, CloseWs, AwaitShutdown, Goto
  <2>1. CASE CloseStream(g)
    <3>1. pc'[g] = "closing" /\ queueClosed' = queueClosed
      BY <1>0, <2>1, GotoFacts DEF CloseStream
    <3>2. queueClosed \/ pc'["producer"] = pc["producer"]
      BY <1>0, <2>0, <2>1, GotoFacts DEF CloseStream
    <3> QED BY <3>1, <3>2 DEF Closers
  <2>2. CASE CloseWs(g)
    <3>1. ~open'["ws"] /\ queueClosed' = queueClosed
      BY <1>0, <2>2 DEF CloseWs, TypeOK, Ends
    <3>2. queueClosed \/ pc'["producer"] = pc["producer"]
      BY <1>0, <2>0, <2>2, GotoFacts DEF CloseWs
    <3> QED BY <3>1, <3>2 DEF Closers
  <2>3. CASE AwaitShutdown(g)
    BY <1>1, <2>0, <2>3 DEF AwaitShutdown
  <2> QED BY <1>7, <2>1, <2>2, <2>3 DEF Shutdown
<1>8. CASE \E end \in Ends : PeerGone(end)
  BY <1>8 DEF PeerGone, Closers
<1>9. CASE Terminated \/ UNCHANGED vars
  BY <1>9 DEF Terminated, vars, Closers
<1> QED BY <1>2, <1>3, <1>4, <1>5, <1>6, <1>7, <1>8, <1>9 DEF Next

\* Once the stream is closed every wait has an end, for every queue size: what Teardown
\* rests on (tracebridge.go:37-43, 48-63).
THEOREM NobodyLeftBlocked == Spec => []ShutdownFrees
<1>1. Init => Closers
  BY DEF Init, Closers, Ends
<1>2. Spec => []Closers
  BY <1>1, ClosersKeep, Invariance, PTL DEF Spec
<1>3. IInv /\ Closers => ShutdownFrees
  <2> SUFFICES ASSUME Closers, ~open["stream"], NEW g \in Goroutines, Blocked(g),
                      ~\E h \in Goroutines : pc[h] = "closing"
               PROVE  /\ g = "writer" /\ pc[g] = "recv"
                      /\ pc["producer"] \in {"read", "send", "evict", "count", "close"}
                      /\ ~Blocked("producer")
    BY DEF ShutdownFrees
  <2>1. ~open["ws"]
    BY DEF Closers
  <2>2. Broken("ws") /\ Broken("stream")
    BY <2>1 DEF Broken
  <2>3. g = "writer" /\ pc[g] = "recv" /\ ~queueClosed
    BY <2>1, <2>2 DEF Blocked
  <2>4. ~Blocked("producer")
    BY <2>1, <2>2 DEF Blocked
  <2> QED BY <2>3, <2>4 DEF Closers
<1> QED BY <1>2, <1>3, Invariance, PTL

-----------------------------------------------------------------------------
(* TraceBridge implements LossyFeed *)

\* What a step leaves alone when it touches none of the feed's variables.
LEMMA FeedStutter ==
  ASSUME UNCHANGED <<read, queue, dropped, out, lines, meta>>,
         Enqueueing' = Enqueueing, Uncounted' = Uncounted
  PROVE  UNCHANGED Feed!vars
  BY DEF Feed!vars, Pending

\* A line read from the stream is offered, or rejected on arrival.
LEMMA HandleLineFeeds ==
  ASSUME IInv, IInv', NEW err \in BOOLEAN, HandleLine(err),
         UNCHANGED <<queue, out, lines, meta>>
  PROVE  Feed!Next
<1> USE DEF HandleLine
<1>1. /\ pc["producer"] = "read" /\ ~Enqueueing /\ Uncounted = 0 /\ Uncounted' = 0
      /\ read' = read + 1
      /\ \/ Enqueueing' /\ dropped' = dropped
         \/ ~Enqueueing' /\ dropped' = dropped + 1
  BY GotoFacts DEF IInv, Goroutines, AfterLine, Uncounted, Enqueueing
<1>2. CASE Enqueueing' /\ dropped' = dropped
  <2>1. Pending' = Pending \union {read + 1}
    BY <1>1, <1>2 DEF Pending
  <2>2. Feed!Offer
    BY <1>1, <1>2, <2>1 DEF Feed!Offer
  <2> QED BY <2>2 DEF Feed!Next
<1>3. CASE ~Enqueueing' /\ dropped' = dropped + 1
  <2>1. Pending' = Pending
    BY <1>1, <1>3 DEF Pending
  <2>2. Feed!Reject
    BY <1>1, <1>3, <2>1, Counts DEF Feed!Reject
  <2> QED BY <2>2 DEF Feed!Next
<1> QED BY <1>1, <1>2, <1>3

\* Queueing moves the producer's line; to the feed nothing happens.
LEMMA SendFeeds == ASSUME IInv, IInv', Send PROVE UNCHANGED Feed!vars
<1> USE DEF Send, producerVars, writerVars, endVars
<1>1. /\ Enqueueing /\ ~Enqueueing' /\ Uncounted' = Uncounted
  BY GotoFacts DEF IInv, Goroutines, AfterLine, Uncounted, Enqueueing
<1>2. read \in 1..MaxLines
  BY <1>1, Counts DEF IInv, TypeOK, Held
<1>3. {queue'[i] : i \in DOMAIN queue'} = {queue[i] : i \in DOMAIN queue} \union {read}
  <2>1. queue' = Append(queue, read) /\ queue \in Seq(1..MaxLines)
    BY Types DEF IInv
  <2>2. /\ DOMAIN queue = 1..Len(queue) /\ DOMAIN queue' = 1..(Len(queue) + 1)
        /\ \A i \in 1..Len(queue) : queue'[i] = queue[i]
        /\ queue'[Len(queue) + 1] = read /\ Len(queue) \in Nat
    BY <1>2, <2>1, AppendFacts
  <2>3. \A i \in DOMAIN queue' : i \in DOMAIN queue \/ i = Len(queue) + 1
    BY <2>2
  <2>4. DOMAIN queue \subseteq DOMAIN queue' /\ Len(queue) + 1 \in DOMAIN queue'
    BY <2>2
  <2> QED BY <2>2, <2>3, <2>4
<1>4. Pending' = Pending
  BY <1>1, <1>3 DEF Pending
<1> QED BY <1>1, <1>4 DEF Feed!vars

\* The set of lines in the queue without its head.
LEMMA TailOfQueue ==
  ASSUME IInv, queue # <<>>
  PROVE  /\ Head(queue) \in {queue[i] : i \in DOMAIN queue}
         /\ {Tail(queue)[i] : i \in DOMAIN Tail(queue)} =
              {queue[i] : i \in DOMAIN queue} \ {Head(queue)}
<1>1. /\ DOMAIN queue = 1..Len(queue) /\ DOMAIN Tail(queue) = 1..(Len(queue) - 1)
      /\ \A i \in 1..(Len(queue) - 1) : Tail(queue)[i] = queue[i + 1]
      /\ Head(queue) = queue[1] /\ Len(queue) \in Nat \ {0}
  BY TailFacts, Types DEF IInv
<1>2. /\ \A i \in DOMAIN Tail(queue) : i + 1 \in DOMAIN queue \ {1}
                                       /\ Tail(queue)[i] = queue[i + 1]
      /\ \A j \in DOMAIN queue \ {1} : /\ j - 1 \in DOMAIN Tail(queue)
                                       /\ Tail(queue)[j - 1] = queue[j]
      /\ 1 \in DOMAIN queue /\ \A j \in DOMAIN queue \ {1} : 1 < j
  BY <1>1
<1>3. \A j \in DOMAIN queue \ {1} : queue[1] # queue[j]
  <2>1. \A j \in DOMAIN queue \ {1} : queue[1] < queue[j]
    BY <1>2 DEF IInv, Order, QueueOrder
  <2> QED BY <1>2, <2>1, Types DEF IInv
<1> DEFINE inTail == {Tail(queue)[i] : i \in DOMAIN Tail(queue)}
           inQueue == {queue[i] : i \in DOMAIN queue}
<1>4. \A line \in inTail : line \in inQueue /\ line # Head(queue)
  <2> TAKE line \in inTail
  <2>1. PICK i \in DOMAIN Tail(queue) : line = Tail(queue)[i]
    OBVIOUS
  <2> QED BY <1>1, <1>2, <1>3, <2>1
<1>5. \A line \in inQueue : line # Head(queue) => line \in inTail
  <2> TAKE line \in inQueue
  <2>1. PICK j \in DOMAIN queue : line = queue[j]
    OBVIOUS
  <2> HAVE line # Head(queue)
  <2>2. j \in DOMAIN queue \ {1}
    BY <1>1, <2>1
  <2> QED BY <1>2, <2>1, <2>2
<1>6. Head(queue) \in inQueue
  BY <1>1, <1>2
<1>7. inTail = inQueue \ {Head(queue)}
  BY <1>4, <1>5
<1> QED BY <1>6, <1>7

\* An eviction sheds the oldest queued line, which the producer's line overtook.
LEMMA EvictFeeds == ASSUME IInv, IInv', Evict PROVE [Feed!Next]_(Feed!vars)
<1> USE DEF Evict, producerVars, writerVars, endVars
<1>1. CASE queue' = queue /\ pc'["producer"] = "send" /\ pc["producer"] = "evict"
  <2>1. Enqueueing' = Enqueueing /\ Uncounted' = Uncounted
    BY <1>1 DEF Enqueueing, Uncounted
  <2> QED BY <1>1, <2>1, FeedStutter
<1>2. CASE /\ queue # <<>> /\ queue' = Tail(queue)
           /\ pc'["producer"] = "count" /\ pc["producer"] = "evict"
  <2>1. Enqueueing /\ Enqueueing' /\ Uncounted = 0 /\ Uncounted' = 1 /\ Held = 1
    BY <1>2 DEF Enqueueing, Uncounted, Held
  <2>2. /\ Head(queue) = queue[1] /\ 1 \in DOMAIN queue
        /\ \A i \in DOMAIN queue : i <= Len(queue)
    <3>1. queue \in Seq(1..MaxLines) /\ DOMAIN queue = 1..Len(queue)
      BY Types DEF IInv
    <3>2. Head(queue) = queue[1] /\ Len(queue) \in Nat \ {0}
      BY <1>2, <3>1, TailFacts
    <3> QED BY <3>1, <3>2
  <2>3. Head(queue) # read
    <3>1. queue[1] + (Len(queue) - 1) + Held <= read
      BY <2>2 DEF IInv, Order, Spacing
    <3> QED BY <2>1, <2>2, <3>1, Types DEF IInv
  <2>4. out # Head(queue)
    BY <2>2, Types DEF IInv, Order, QueueOrder
  <2>5. Pending' = Pending \ {Head(queue)} /\ Head(queue) \in Pending
    <3>1. out' = out /\ read' = read
      OBVIOUS
    <3>2. /\ Head(queue) \in {queue[i] : i \in DOMAIN queue}
          /\ {queue'[i] : i \in DOMAIN queue'} =
               {queue[i] : i \in DOMAIN queue} \ {Head(queue)}
      BY <1>2, TailOfQueue
    <3> HIDE DEF Evict
    <3>3. Pending' = Pending \ {Head(queue)}
      BY <2>1, <2>3, <2>4, <3>1, <3>2 DEF Pending
    <3>4. Head(queue) \in Pending
      BY <3>2 DEF Pending
    <3> QED BY <3>3, <3>4
  <2>6. Feed!Shed
    BY <2>1, <2>3, <2>5, Counts DEF Feed!Shed
  <2> QED BY <2>6 DEF Feed!Next
<1>3. \/ queue' = queue /\ pc'["producer"] = "send" /\ pc["producer"] = "evict"
      \/ /\ queue # <<>> /\ queue' = Tail(queue)
         /\ pc'["producer"] = "count" /\ pc["producer"] = "evict"
  BY GotoFacts DEF IInv, Goroutines
<1> QED BY <1>1, <1>2, <1>3

\* A line moves from the queue into the writer's hand.
LEMMA ReceiveFeeds == ASSUME IInv, IInv', Receive PROVE UNCHANGED Feed!vars
<1> USE DEF Receive, producerVars, writerVars, endVars
<1>1. /\ Enqueueing' = Enqueueing /\ Uncounted' = Uncounted /\ out = 0
      /\ \/ queue' = queue /\ out' = out
         \/ queue # <<>> /\ out' = Head(queue) /\ queue' = Tail(queue) /\ out' # 0
  BY GotoFacts DEF IInv, PcOK, Goroutines, Enqueueing, Uncounted
<1>2. Pending' = Pending
  <2>1. CASE queue' = queue /\ out' = out
    BY <1>1, <2>1 DEF Pending
  <2>2. CASE queue # <<>> /\ out' = Head(queue) /\ queue' = Tail(queue) /\ out' # 0
    <3>1. /\ Head(queue) \in {queue[i] : i \in DOMAIN queue}
          /\ {queue'[i] : i \in DOMAIN queue'} =
               {queue[i] : i \in DOMAIN queue} \ {Head(queue)}
      BY <2>2, TailOfQueue
    <3>2. read' = read
      OBVIOUS
    <3> HIDE DEF Receive
    <3> QED BY <1>1, <2>2, <3>1, <3>2 DEF Pending
  <2> QED BY <1>1, <2>1, <2>2
<1> QED BY <1>1, <1>2 DEF Feed!vars

\* Writing a trace_meta frame reports losses that have been counted.
LEMMA WriteMetaFeeds == ASSUME IInv, IInv', WriteMeta PROVE Feed!Next
<1> USE DEF WriteMeta, producerVars, writerVars, endVars
<1>1. /\ pc["writer"] = "meta" /\ Enqueueing' = Enqueueing /\ Uncounted' = Uncounted
  BY GotoFacts DEF IInv, Goroutines, Enqueueing, Uncounted
<1>2. meta < lastReported /\ lastReported <= dropped
  BY <1>1 DEF IInv, Reports
<1>3. meta' \in (meta + 1)..(dropped + Uncounted)
  BY <1>2, Types, Counts DEF IInv
<1>4. Pending' = Pending
  BY <1>1 DEF Pending
<1>5. Feed!Report
  BY <1>1, <1>3, <1>4 DEF Feed!Report
<1> QED BY <1>5 DEF Feed!Next

\* The line in the writer's hand is the oldest pending one.
LEMMA WriteLineFeeds == ASSUME IInv, IInv', WriteLine PROVE Feed!Next
<1> USE DEF WriteLine, producerVars, writerVars, endVars
<1>1. /\ pc["writer"] = "line" /\ Enqueueing' = Enqueueing /\ Uncounted' = Uncounted
      /\ out # 0
  BY GotoFacts DEF IInv, PcOK, Goroutines, Enqueueing, Uncounted
<1>2. \A i \in DOMAIN queue : out < queue[i]
  BY DEF IInv, Order, QueueOrder
<1>3. Enqueueing => out < read
  BY Types DEF IInv, Order, Spacing, Held
<1>4. \A other \in Pending : out <= other /\ (other # out => other \in Pending')
  BY <1>1, <1>2, <1>3, Types DEF IInv, Pending
<1>5. out \notin Pending'
  BY <1>1, <1>2, <1>3, Types DEF IInv, Pending
<1>6. Pending' \subseteq Pending /\ out \in Pending
  BY <1>1 DEF Pending
<1>7. Pending' = Pending \ {out}
  BY <1>4, <1>5, <1>6
<1>8. out <= Len(lines) + meta + 2
  <2>1. out - 1 - Len(lines) <= lastReported + 1 /\ meta = lastReported
    BY <1>1 DEF IInv, Reports
  <2> QED BY <2>1, Types DEF IInv
<1>9. Feed!Deliver
  BY <1>1, <1>4, <1>6, <1>7, <1>8 DEF Feed!Deliver
<1> QED BY <1>9 DEF Feed!Next

\* Every step of the goroutines is a step of the feed or none.
LEMMA StepFeeds == IInv /\ IInv' /\ [Next]_vars => [Feed!Next]_(Feed!vars)
<1> SUFFICES ASSUME IInv, IInv', [Next]_vars PROVE [Feed!Next]_(Feed!vars)
  OBVIOUS
<1> USE DEF producerVars, writerVars, endVars
<1>1. CASE ReadLine
  BY <1>1, HandleLineFeeds DEF ReadLine
<1>2. CASE ReadError
  <2>1. CASE HandleLine(TRUE)
    BY <1>2, <2>1, HandleLineFeeds DEF ReadError
  <2>2. CASE Goto("producer", "read", "close") /\ UNCHANGED <<read, torn, dropped>>
    <3>1. Enqueueing' = Enqueueing /\ Uncounted' = Uncounted
      BY <2>2, GotoFacts DEF IInv, Goroutines, Enqueueing, Uncounted
    <3> QED BY <1>2, <2>2, <3>1, FeedStutter DEF ReadError
  <2> QED BY <1>2, <2>1, <2>2 DEF ReadError
<1>3. CASE Send
  BY <1>3, SendFeeds
<1>4. CASE Evict
  BY <1>4, EvictFeeds
<1>5. CASE Count
  <2>1. /\ Enqueueing' = Enqueueing /\ Uncounted = 1 /\ Uncounted' = 0
        /\ Pending' = Pending
    BY <1>5, GotoFacts DEF Count, IInv, Goroutines, Enqueueing, Uncounted, Pending
  <2>2. dropped' + Uncounted' = dropped + Uncounted
    BY <1>5, <2>1, Counts DEF Count
  <2> QED BY <1>5, <2>1, <2>2 DEF Count, Feed!vars
<1>6. CASE Receive
  BY <1>6, ReceiveFeeds
<1>7. CASE WriteMeta
  BY <1>7, WriteMetaFeeds
<1>8. CASE WriteLine
  BY <1>8, WriteLineFeeds
<1>9. CASE SendFull \/ CloseQueue
  <2>1. Enqueueing' = Enqueueing /\ Uncounted' = Uncounted
    BY <1>9, GotoFacts DEF SendFull, CloseQueue, IInv, Goroutines, Enqueueing, Uncounted
  <2> QED BY <1>9, <2>1, FeedStutter DEF SendFull, CloseQueue
<1>10. CASE Load \/ WriteFails \/ NoticeClose
  <2>1. pc'["producer"] = pc["producer"]
    BY <1>10, GotoFacts DEF Load, WriteFails, NoticeClose, IInv, Goroutines
  <2>2. Enqueueing' = Enqueueing /\ Uncounted' = Uncounted
    BY <2>1 DEF Enqueueing, Uncounted
  <2> QED BY <1>10, <2>2, FeedStutter DEF Load, WriteFails, NoticeClose
<1>11. CASE \E g \in Goroutines : Shutdown(g)
  <2>1. PICK g \in Goroutines : CloseStream(g) \/ CloseWs(g) \/ AwaitShutdown(g)
    BY <1>11 DEF Shutdown
  <2>2. \E from \in {"shutdown", "closing"}, to \in {"closing", "done"} : Goto(g, from, to)
    BY <2>1 DEF CloseStream, CloseWs, AwaitShutdown
  <2>3. Enqueueing' = Enqueueing /\ Uncounted' = Uncounted
    BY <2>2, GotoFacts DEF IInv, Goroutines, Enqueueing, Uncounted
  <2> QED BY <2>1, <2>3, FeedStutter DEF CloseStream, CloseWs, AwaitShutdown
<1>12. CASE (\E end \in Ends : PeerGone(end)) \/ Terminated \/ UNCHANGED vars
  <2>1. UNCHANGED <<pc, read, queue, dropped, out, lines, meta>>
    BY <1>12 DEF PeerGone, Terminated, vars
  <2>2. Enqueueing' = Enqueueing /\ Uncounted' = Uncounted
    BY <2>1 DEF Enqueueing, Uncounted
  <2> QED BY <2>1, <2>2, FeedStutter
<1> QED BY <1>1, <1>2, <1>3, <1>4, <1>5, <1>6, <1>7, <1>8, <1>9, <1>10, <1>11, <1>12
        DEF Next, Enqueue

\* The three goroutines, the channel and the counter implement the feed that
\* loses only overtaken lines and reports what it loses.
THEOREM Refinement == Spec => ImplementsFeed
<1>1. Init => Feed!Init
  BY DEF Init, Feed!Init, Pending, Enqueueing, Uncounted
<1>2. IInv /\ IInv' /\ [Next]_vars => [Feed!Next]_(Feed!vars)
  BY StepFeeds
<1> QED BY <1>1, <1>2, Invariance, PTL DEF Spec, ImplementsFeed, Feed!Spec
=============================================================================
