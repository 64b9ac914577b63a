----------------------------- MODULE Relay_proofs -----------------------------
(***************************************************************************)
(* What holds of one relayed request for every set of payloads, buffer and *)
(* number of frames.  The inductive invariant:                             *)
(*   types    TypeOK                                                       *)
(*   phases   which connections are open, and who runs shutdown, in each   *)
(*            phase of the handler and of its pumps                        *)
(*   order    where in what was sent the frames lie that are got, on their *)
(*            way from us, in a pump's hand, and on their way to us        *)
(* A step of the relay is then a step of Duplex or leaves it as it is.     *)
(* Closer, Fallen and Silent, inductive given these, say who is closing,   *)
(* why a goroutine gave up, and that nothing is sent before the dial.      *)
(***************************************************************************)
EXTENDS Relay, TLAPS

\* What one direction of the relay holds, from the receiver's end to the sender's:
\* a is got, b on its way from us, c in the pump's hand, e on its way to us, s sent.
\* Ahead: what the receiver has and gets is the beginning of what was sent.
Ahead(a, b, s) ==
  /\ Len(a) + Len(b) <= Len(s)
  /\ \A i \in 1..Len(a) : a[i] = s[i]
  /\ \A i \in 1..Len(b) : b[i] = s[Len(a) + i]

\* Behind: what the pump has and gets comes next.
Behind(a, b, c, e, s) ==
  /\ Len(a) + Len(b) + Len(c) + Len(e) <= Len(s)
  /\ \A i \in 1..Len(c) : c[i] = s[Len(a) + Len(b) + i]
  /\ \A i \in 1..Len(e) : e[i] = s[Len(a) + Len(b) + Len(c) + i]

\* Nothing that was sent is lost.
All(a, b, c, e, s) == Len(a) + Len(b) + Len(c) + Len(e) = Len(s)

LEMMA Take ==
  ASSUME NEW S, NEW a \in Seq(S), NEW b \in Seq(S), NEW c \in Seq(S), NEW e \in Seq(S),
         NEW s \in Seq(S), Ahead(a, b, s), b # <<>>,
         NEW a2, a2 = Append(a, Head(b)), NEW b2, b2 = Tail(b)
  PROVE  /\ Ahead(a2, b2, s)
         /\ Behind(a, b, c, e, s) => Behind(a2, b2, c, e, s)
         /\ All(a, b, c, e, s) => All(a2, b2, c, e, s)
<1>1. /\ Len(b) \in Nat /\ Len(a) \in Nat /\ Len(c) \in Nat /\ Len(e) \in Nat
      /\ Len(s) \in Nat /\ Len(b) >= 1
  OBVIOUS
<1>2. /\ Len(a2) = Len(a) + 1 /\ Len(b2) = Len(b) - 1 /\ Head(b) = b[1]
      /\ \A i \in 1..Len(a) : a2[i] = a[i]
      /\ a2[Len(a) + 1] = b[1]
      /\ \A i \in 1..(Len(b) - 1) : b2[i] = b[i + 1]
  BY <1>1
<1>3. b[1] = s[Len(a) + 1]
  BY <1>1 DEF Ahead
<1>4. Ahead(a2, b2, s)
  BY <1>1, <1>2, <1>3 DEF Ahead
<1>5. Behind(a, b, c, e, s) => Behind(a2, b2, c, e, s)
  BY <1>1, <1>2 DEF Behind
<1>6. All(a, b, c, e, s) => All(a2, b2, c, e, s)
  BY <1>1, <1>2 DEF All
<1>7. QED
  BY <1>4, <1>5, <1>6

LEMMA NextFrame ==
  ASSUME NEW S, NEW a \in Seq(S), NEW b \in Seq(S), NEW s \in Seq(S), Ahead(a, b, s), b # <<>>
  PROVE  Len(a) < Len(s) /\ Head(b) = s[Len(a) + 1]
<1>1. Len(b) \in Nat /\ Len(a) \in Nat /\ Len(s) \in Nat /\ Len(b) >= 1 /\ Head(b) = b[1]
  OBVIOUS
<1>2. QED
  BY <1>1 DEF Ahead

LEMMA Fetch ==
  ASSUME NEW S, NEW a \in Seq(S), NEW b \in Seq(S), NEW c \in Seq(S), NEW e \in Seq(S),
         NEW s \in Seq(S), e # <<>>, Len(c) = 0,
         NEW c2, c2 = <<Head(e)>>, NEW e2, e2 = Tail(e)
  PROVE  /\ Behind(a, b, c, e, s) => Behind(a, b, c2, e2, s)
         /\ All(a, b, c, e, s) => All(a, b, c2, e2, s)
<1>1. /\ Len(b) \in Nat /\ Len(a) \in Nat /\ Len(e) \in Nat /\ Len(s) \in Nat
      /\ Len(e) >= 1
  OBVIOUS
<1>2. /\ Len(c2) = 1 /\ c2[1] = e[1] /\ Len(e2) = Len(e) - 1
      /\ \A i \in 1..(Len(e) - 1) : e2[i] = e[i + 1]
  BY <1>1
<1>3. QED
  BY <1>1, <1>2 DEF Behind, All

LEMMA Pass ==
  ASSUME NEW S, NEW a \in Seq(S), NEW b \in Seq(S), NEW c \in Seq(S), NEW e \in Seq(S),
         NEW s \in Seq(S), Ahead(a, b, s), Behind(a, b, c, e, s), Len(c) = 1,
         NEW b2, b2 = Append(b, Head(c)), NEW c2, c2 = <<>>
  PROVE  /\ Ahead(a, b2, s) /\ Behind(a, b2, c2, e, s)
         /\ All(a, b, c, e, s) => All(a, b2, c2, e, s)
<1>1. /\ Len(b) \in Nat /\ Len(a) \in Nat /\ Len(e) \in Nat /\ Len(s) \in Nat
  OBVIOUS
<1>2. /\ Len(b2) = Len(b) + 1 /\ Len(c2) = 0
      /\ \A i \in 1..Len(b) : b2[i] = b[i]
      /\ b2[Len(b) + 1] = c[1]
  BY <1>1
<1>3. c[1] = s[Len(a) + Len(b) + 1]
  BY <1>1 DEF Behind
<1>4. Len(a) + Len(b) + 1 <= Len(s)
  BY <1>1 DEF Behind
<1>5. Ahead(a, b2, s)
  BY <1>1, <1>2, <1>3, <1>4 DEF Ahead
<1>6. Behind(a, b2, c2, e, s) /\ (All(a, b, c, e, s) => All(a, b2, c2, e, s))
  BY <1>1, <1>2 DEF Behind, All
<1>7. QED
  BY <1>5, <1>6

LEMMA Add ==
  ASSUME NEW S, NEW a \in Seq(S), NEW b \in Seq(S), NEW c \in Seq(S), NEW e \in Seq(S),
         NEW s \in Seq(S), NEW f \in S, Ahead(a, b, s),
         NEW e2, e2 = Append(e, f), NEW s2, s2 = Append(s, f)
  PROVE  /\ Ahead(a, b, s2)
         /\ Behind(a, b, c, e, s) /\ All(a, b, c, e, s) =>
              Behind(a, b, c, e2, s2) /\ All(a, b, c, e2, s2)
<1>1. /\ Len(b) \in Nat /\ Len(a) \in Nat /\ Len(e) \in Nat /\ Len(s) \in Nat
      /\ Len(c) \in Nat
  OBVIOUS
<1>2. /\ Len(e2) = Len(e) + 1 /\ Len(s2) = Len(s) + 1
      /\ \A i \in 1..Len(e) : e2[i] = e[i]
      /\ \A i \in 1..Len(s) : s2[i] = s[i]
      /\ e2[Len(e) + 1] = f /\ s2[Len(s) + 1] = f
  BY <1>1
<1>3. Ahead(a, b, s2)
  BY <1>1, <1>2 DEF Ahead
<1>4. ASSUME Behind(a, b, c, e, s), All(a, b, c, e, s)
      PROVE  Behind(a, b, c, e2, s2) /\ All(a, b, c, e2, s2)
  <2>1. Len(a) + Len(b) + Len(c) + Len(e2) = Len(s2)
    BY <1>1, <1>2, <1>4 DEF All
  <2>2. \A i \in 1..Len(c) : Len(a) + Len(b) + i \in 1..Len(s)
    BY <1>1, <1>4 DEF All
  <2>3. \A i \in 1..Len(c) : c[i] = s2[Len(a) + Len(b) + i]
    BY <1>2, <1>4, <2>2 DEF Behind
  <2>4. \A i \in 1..Len(e) : Len(a) + Len(b) + Len(c) + i \in 1..Len(s)
    BY <1>1, <1>4 DEF All
  <2>5. \A i \in 1..Len(e) : e2[i] = s2[Len(a) + Len(b) + Len(c) + i]
    BY <1>2, <1>4, <2>4 DEF Behind
  <2>6. e2[Len(e) + 1] = s2[Len(a) + Len(b) + Len(c) + (Len(e) + 1)]
    <3>1. Len(a) + Len(b) + Len(c) + (Len(e) + 1) = Len(s) + 1
      BY <1>1, <1>4 DEF All
    <3>2. QED
      BY <1>2, <3>1
  <2>7. ASSUME NEW i \in 1..Len(e2) PROVE e2[i] = s2[Len(a) + Len(b) + Len(c) + i]
    <3>1. i \in 1..Len(e) \/ i = Len(e) + 1
      BY <1>1, <1>2
    <3>2. QED
      BY <2>5, <2>6, <3>1
  <2>8. Len(a) + Len(b) + Len(c) + Len(e2) <= Len(s2)
    BY <1>1, <1>2, <2>1
  <2>9. Behind(a, b, c, e2, s2)
    BY <2>3, <2>7, <2>8 DEF Behind
  <2>10. QED
    BY <2>1, <2>9 DEF All
<1>5. QED
  BY <1>3, <1>4

LEMMA CutBehind ==
  ASSUME NEW S, NEW a \in Seq(S), NEW b \in Seq(S), NEW c \in Seq(S), NEW e \in Seq(S),
         NEW s \in Seq(S), Behind(a, b, c, e, s), NEW e2 \in Cut(e)
  PROVE  Behind(a, b, c, e2, s)
<1>1. /\ Len(b) \in Nat /\ Len(a) \in Nat /\ Len(e) \in Nat /\ Len(s) \in Nat
      /\ Len(c) \in Nat
  OBVIOUS
<1>2. PICK n \in 0..Len(e) : e2 = SubSeq(e, 1, n)
  BY DEF Cut
<1>3. /\ Len(e2) \in Nat /\ Len(e2) <= Len(e)
      /\ \A i \in 1..Len(e2) : i \in 1..Len(e) /\ e2[i] = e[i]
  BY <1>1, <1>2
<1>4. Len(a) + Len(b) + Len(c) + Len(e2) <= Len(s)
  BY <1>1, <1>3 DEF Behind
<1>5. \A i \in 1..Len(e2) : e2[i] = s[Len(a) + Len(b) + Len(c) + i]
  BY <1>3 DEF Behind
<1>6. QED
  BY <1>4, <1>5 DEF Behind

LEMMA CutAhead ==
  ASSUME NEW S, NEW a \in Seq(S), NEW b \in Seq(S), NEW s \in Seq(S), Ahead(a, b, s),
         NEW b2 \in Cut(b)
  PROVE  Ahead(a, b2, s)
<1>1. Len(b) \in Nat /\ Len(a) \in Nat /\ Len(s) \in Nat
  OBVIOUS
<1>2. PICK n \in 0..Len(b) : b2 = SubSeq(b, 1, n)
  BY DEF Cut
<1>3. /\ Len(b2) \in Nat /\ Len(b2) <= Len(b)
      /\ \A i \in 1..Len(b2) : i \in 1..Len(b) /\ b2[i] = b[i]
  BY <1>1, <1>2
<1>4. Len(a) + Len(b2) <= Len(s)
  BY <1>1, <1>3 DEF Ahead
<1>5. \A i \in 1..Len(b2) : b2[i] = s[Len(a) + i]
  BY <1>3 DEF Ahead
<1>6. QED
  BY <1>4, <1>5 DEF Ahead

-----------------------------------------------------------------------------
(* The inductive invariant *)

Whole(d) == conn[To[d]] # "closed" /\ pc[Pump[d]] \notin {"shutdown", "closeGw", "done"}
Live(d) == conn[From[d]] # "closed" /\ far[From[d]] # "gone"

InOrder(d) ==
  /\ Ahead(got[d], out[d], sent[d])
  /\ Whole(d) => Behind(got[d], out[d], hand[d], in[d], sent[d])
  /\ Whole(d) /\ Live(d) => All(got[d], out[d], hand[d], in[d], sent[d])
Order == \A d \in Dirs : InOrder(d)

\* What is open in each phase of the handler and of shutdown.
Phases ==
  /\ pc["handler"] \in {"start", "dialing", "upgrade"} =>
       pc["up"] = "off" /\ conn["browser"] = "none"
  /\ pc["handler"] \in {"start", "dialing"} => conn["gw"] = "none"
  /\ pc["handler"] = "start" => far["gw"] = "none"
  /\ once = "done" => conn["browser"] = "closed" /\ conn["gw"] = "closed"
  /\ \A g \in Goroutines : pc[g] = "closeGw" => conn["browser"] = "closed"
  /\ pc["handler"] = "done" =>
       /\ conn["browser"] # "open" /\ conn["gw"] # "open"
       /\ far["gw"] # "none" => conn["gw"] = "closed"

IInv == TypeOK /\ Phases /\ Order

LEMMA Wiring ==
  /\ "up" \in Dirs /\ "down" \in Dirs
  /\ From["up"] = "browser" /\ To["up"] = "gw" /\ Pump["up"] = "up"
  /\ From["down"] = "gw" /\ To["down"] = "browser" /\ Pump["down"] = "handler"
  /\ \A d \in Dirs : /\ From[d] \in Ends /\ To[d] \in Ends /\ From[d] # To[d]
                     /\ Pump[d] \in Goroutines
                     /\ \A d2 \in Dirs : d2 # d => Pump[d2] # Pump[d]
BY DEF Dirs, From, To, Pump, Ends, Goroutines

LEMMA FrameType == \A d \in Dirs : Frame[d] \subseteq AnyFrame
BY DEF AnyFrame, Dirs

Pcs == {"off", "start", "dialing", "upgrade", "read", "write", "shutdown", "closeGw", "done"}

LEMMA GotoFacts ==
  ASSUME pc \in [Goroutines -> Pcs], NEW g \in Goroutines, NEW from, NEW to \in Pcs,
         Goto(g, from, to)
  PROVE  /\ pc[g] = from /\ pc'[g] = to /\ pc' \in [Goroutines -> Pcs]
         /\ \A h \in Goroutines : h # g => pc'[h] = pc[h]
BY DEF Goto

\* An initial part of a queue.
LEMMA CutFacts ==
  ASSUME NEW S, NEW q \in Seq(S), NEW r \in Cut(q)
  PROVE  r \in Seq(S) /\ Len(r) <= Len(q) /\ \E n \in 0..Len(q) : r = SubSeq(q, 1, n)
<1>1. PICK n \in 0..Len(q) : r = SubSeq(q, 1, n)
  BY DEF Cut
<1>2. Len(q) \in Nat
  OBVIOUS
<1>3. SubSeq(q, 1, n) \in Seq(S) /\ Len(SubSeq(q, 1, n)) = n
  BY <1>2
<1>4. QED
  BY <1>1, <1>2, <1>3

LEMMA CloseFacts ==
  ASSUME TypeOK, NEW e \in Ends, Close(e)
  PROVE  /\ conn' \in [Ends -> {"none", "open", "closed"}]
         /\ conn'[e] = "closed" /\ \A x \in Ends : x # e => conn'[x] = conn[x]
         /\ in' \in Queues /\ out' \in Queues
         /\ \A d \in Dirs :
              /\ in'[d] = IF From[d] = e THEN <<>> ELSE in[d]
              /\ out'[d] \in Cut(out[d]) /\ (To[d] # e => out'[d] = out[d])
              /\ Len(in'[d]) <= Buffer /\ Len(out'[d]) <= Buffer
<1>1. /\ conn' \in [Ends -> {"none", "open", "closed"}]
      /\ conn'[e] = "closed" /\ \A x \in Ends : x # e => conn'[x] = conn[x]
  BY DEF Close, TypeOK
<1>2. PICK d0 \in Dirs : To[d0] = e /\ \E q \in Cut(out[d0]) : out' = [out EXCEPT ![d0] = q]
  BY DEF Close
<1>3. PICK q \in Cut(out[d0]) : out' = [out EXCEPT ![d0] = q]
  BY <1>2
<1>4. /\ in \in [Dirs -> Seq(AnyFrame)] /\ out \in [Dirs -> Seq(AnyFrame)]
      /\ \A d \in Dirs : Len(in[d]) <= Buffer /\ Len(out[d]) <= Buffer
  BY DEF TypeOK, Queues
<1>5. q \in Seq(AnyFrame) /\ Len(q) <= Len(out[d0])
  BY <1>3, <1>4, CutFacts
<1>6. \A d \in Dirs : out[d] \in Cut(out[d])
  <2> TAKE d \in Dirs
  <2>1. Len(out[d]) \in Nat /\ out[d] \in Seq(AnyFrame)
    BY <1>4
  <2>2. SubSeq(out[d], 1, Len(out[d])) = out[d]
    BY <2>1
  <2>3. QED
    BY <2>1, <2>2 DEF Cut
<1>7. out' \in Queues /\ \A d \in Dirs :
         /\ out'[d] \in Cut(out[d]) /\ (To[d] # e => out'[d] = out[d])
         /\ Len(out'[d]) <= Buffer
  <2>1. out' \in Queues
    BY <1>3, <1>4, <1>5 DEF Queues
  <2>2. Len(q) <= Buffer
    BY <1>4, <1>5, BoundAssumption
  <2>3. out'[d0] = q /\ \A d \in Dirs : d # d0 => out'[d] = out[d]
    BY <1>3, <1>4
  <2>4. QED
    BY <1>2, <1>3, <1>4, <1>6, <2>1, <2>2, <2>3
<1>8. in' \in Queues /\ \A d \in Dirs :
         in'[d] = (IF From[d] = e THEN <<>> ELSE in[d]) /\ Len(in'[d]) <= Buffer
  <2>1. in' = [d \in Dirs |-> IF From[d] = e THEN <<>> ELSE in[d]]
    BY DEF Close
  <2>2. <<>> \in Seq(AnyFrame) /\ Len(<<>>) = 0
    OBVIOUS
  <2>3. QED
    BY <1>4, <2>1, <2>2, BoundAssumption DEF Queues
<1>9. QED
  BY <1>1, <1>7, <1>8

-----------------------------------------------------------------------------
(* Types *)

QueuesOK ==
  /\ in \in Queues /\ out \in Queues /\ sent \in Queues /\ got \in Queues
  /\ \A d \in Dirs : Len(in[d]) <= Buffer /\ Len(out[d]) <= Buffer /\ Len(sent[d]) <= MaxSent

HandsOK ==
  /\ hand \in Queues
  /\ \A d \in Dirs : Len(hand[d]) = IF pc[Pump[d]] = "write" THEN 1 ELSE 0

ControlOK ==
  /\ kind \in {"terminal", "trace"} /\ hasId \in BOOLEAN
  /\ pc \in [Goroutines -> Pcs]
  /\ reply \in {"none", "bad request", "bad gateway", "upgraded"}
  /\ conn \in [Ends -> {"none", "open", "closed"}]
  /\ once \in {"unused", "running", "done"}
  /\ far \in [Ends -> {"none", "opening", "there", "refused", "gone"}]
  /\ window \in Sizes \union {"initial"}

Types == QueuesOK /\ HandsOK /\ ControlOK

LEMMA TypeParts == Types <=> TypeOK
BY DEF Types, TypeOK, QueuesOK, HandsOK, ControlOK, Pcs

\* A goroutine moves on, and it is not to or from a write.
LEMMA HandsKept ==
  ASSUME ControlOK, HandsOK, hand' = hand,
         NEW g \in Goroutines, NEW from, NEW to, Goto(g, from, to),
         from # "write", to # "write"
  PROVE  HandsOK'
<1>1. \A h \in Goroutines : (pc'[h] = "write") <=> (pc[h] = "write")
  BY DEF Goto, ControlOK
<1>2. QED
  BY <1>1, Wiring DEF HandsOK

LEMMA HeadTail ==
  ASSUME NEW S, NEW q \in Seq(S), q # <<>>
  PROVE  Head(q) \in S /\ Tail(q) \in Seq(S) /\ Len(q) \in Nat /\ Len(Tail(q)) = Len(q) - 1
OBVIOUS

LEMMA HandlerTypes ==
  ASSUME Types, Phases, Handler
  PROVE  Types'
<1>0. TypeOK /\ QueuesOK /\ HandsOK /\ ControlOK /\ "handler" \in Goroutines /\ "gw" \in Ends
  BY TypeParts DEF Types, Goroutines, Ends
<1>1. CASE MissingId
  <2>1. HandsOK'
    BY <1>0, <1>1, HandsKept DEF MissingId
  <2>2. QueuesOK' /\ ControlOK'
    BY <1>0, <1>1, GotoFacts DEF MissingId, QueuesOK, ControlOK, farVars, Pcs
  <2>3. QED
    BY <2>1, <2>2 DEF Types
<1>2. CASE Dial
  <2>1. HandsOK'
    BY <1>0, <1>2, HandsKept DEF Dial
  <2>2. QueuesOK' /\ ControlOK'
    BY <1>0, <1>2, GotoFacts DEF Dial, QueuesOK, ControlOK, Pcs
  <2>3. QED
    BY <2>1, <2>2 DEF Types
<1>3. CASE Dialed
  <2>1. HandsOK'
    BY <1>0, <1>3, HandsKept DEF Dialed
  <2>2. QueuesOK' /\ ControlOK'
    BY <1>0, <1>3, GotoFacts DEF Dialed, QueuesOK, ControlOK, farVars, Pcs
  <2>3. QED
    BY <2>1, <2>2 DEF Types
<1>4. CASE DialFails
  <2>1. HandsOK'
    BY <1>0, <1>4, HandsKept DEF DialFails
  <2>2. Close("gw") /\ sent' = sent /\ got' = got
    BY <1>4 DEF DialFails, farVars
  <2>3. QueuesOK'
    BY <1>0, <2>2, CloseFacts DEF QueuesOK
  <2>4. ControlOK'
    BY <1>0, <1>4, <2>2, CloseFacts, GotoFacts DEF DialFails, ControlOK, farVars, Pcs
  <2>5. QED
    BY <2>1, <2>3, <2>4 DEF Types
<1>5. CASE Upgrade
  <2>1. HandsOK'
    <3>1. \A g \in Goroutines : pc[g] # "write" /\ pc'[g] # "write"
      BY <1>5 DEF Upgrade, Phases, Goroutines
    <3>2. QED
      BY <1>0, <1>5, <3>1, Wiring DEF Upgrade, HandsOK
  <2>2. QueuesOK' /\ ControlOK'
    BY <1>0, <1>5 DEF Upgrade, QueuesOK, ControlOK, farVars, Pcs, Ends
  <2>3. QED
    BY <2>1, <2>2 DEF Types
<1>6. CASE UpgradeFails
  <2>1. HandsOK'
    BY <1>0, <1>6, HandsKept DEF UpgradeFails
  <2>2. Close("gw") /\ sent' = sent /\ got' = got
    BY <1>6 DEF UpgradeFails, farVars
  <2>3. QueuesOK'
    BY <1>0, <2>2, CloseFacts DEF QueuesOK
  <2>4. ControlOK'
    BY <1>0, <1>6, <2>2, CloseFacts, GotoFacts DEF UpgradeFails, ControlOK, farVars, Pcs
  <2>5. QED
    BY <2>1, <2>3, <2>4 DEF Types
<1>7. QED
  BY <1>1, <1>2, <1>3, <1>4, <1>5, <1>6 DEF Handler

\* A pump moves on, with r in its hand.
LEMMA HandsMoved ==
  ASSUME ControlOK, HandsOK, NEW d \in Dirs, NEW from, NEW to, Goto(Pump[d], from, to),
         NEW r, r \in Seq(AnyFrame), Len(r) = IF to = "write" THEN 1 ELSE 0,
         hand' = [hand EXCEPT ![d] = r]
  PROVE  HandsOK'
<1>1. /\ pc'[Pump[d]] = to
      /\ \A d2 \in Dirs : d2 # d => pc'[Pump[d2]] = pc[Pump[d2]]
  BY Wiring DEF Goto, ControlOK
<1>2. /\ hand' \in Queues /\ hand'[d] = r
      /\ \A d2 \in Dirs : d2 # d => hand'[d2] = hand[d2]
  BY DEF HandsOK, Queues
<1>3. QED
  BY <1>1, <1>2 DEF HandsOK

LEMMA HandsEmptied ==
  ASSUME ControlOK, HandsOK, NEW d \in Dirs, NEW from, NEW to, Goto(Pump[d], from, to),
         to # "write", hand' = [hand EXCEPT ![d] = <<>>]
  PROVE  HandsOK'
<1>1. /\ pc'[Pump[d]] = to
      /\ \A d2 \in Dirs : d2 # d => pc'[Pump[d2]] = pc[Pump[d2]]
  BY Wiring DEF Goto, ControlOK
<1>2. <<>> \in Seq(AnyFrame) /\ Len(<<>>) = 0
  OBVIOUS
<1>3. /\ hand' \in Queues /\ hand'[d] = <<>>
      /\ \A d2 \in Dirs : d2 # d => hand'[d2] = hand[d2]
  BY <1>2 DEF HandsOK, Queues
<1>4. QED
  BY <1>1, <1>2, <1>3 DEF HandsOK

LEMMA PumpTypes ==
  ASSUME Types, NEW d \in Dirs, PumpStep(d)
  PROVE  Types'
<1>0. QueuesOK /\ HandsOK /\ ControlOK /\ Pump[d] \in Goroutines
  BY Wiring DEF Types
<1>1. CASE Read(d)
  <2>1. in[d] \in Seq(AnyFrame) /\ in[d] # <<>>
    BY <1>0, <1>1 DEF QueuesOK, Queues, Read
  <2>2. /\ Head(in[d]) \in AnyFrame /\ Tail(in[d]) \in Seq(AnyFrame)
        /\ Len(Tail(in[d])) <= Len(in[d]) /\ Len(in[d]) \in Nat /\ Len(Tail(in[d])) \in Nat
    BY <2>1, HeadTail
  <2>3. in' = [in EXCEPT ![d] = Tail(in[d])] /\ UNCHANGED <<out, sent, got>>
    BY <1>1 DEF Read, farVars
  <2>4. QueuesOK'
    <3>1. /\ in' \in Queues /\ in'[d] = Tail(in[d])
          /\ \A d2 \in Dirs : d2 # d => in'[d2] = in[d2]
      BY <1>0, <2>2, <2>3 DEF QueuesOK, Queues
    <3>2. Len(Tail(in[d])) <= Buffer
      BY <1>0, <2>2, BoundAssumption DEF QueuesOK
    <3>3. QED
      BY <1>0, <2>3, <3>1, <3>2 DEF QueuesOK
  <2>5. HandsOK'
    <3>1. <<Head(in[d])>> \in Seq(AnyFrame) /\ Len(<<Head(in[d])>>) = 1
      BY <2>2
    <3>2. Goto(Pump[d], "read", "write") /\ hand' = [hand EXCEPT ![d] = <<Head(in[d])>>]
      BY <1>1 DEF Read
    <3>3. QED
      BY <1>0, <3>1, <3>2, HandsMoved
  <2>6. ControlOK'
    BY <1>0, <1>1, GotoFacts DEF Read, ControlOK, farVars, Pcs
  <2>7. QED
    BY <2>4, <2>5, <2>6 DEF Types
<1>2. CASE ReadFails(d)
  <2>1. HandsOK'
    BY <1>0, <1>2, HandsKept DEF ReadFails
  <2>2. QueuesOK' /\ ControlOK'
    BY <1>0, <1>2, GotoFacts DEF ReadFails, QueuesOK, ControlOK, farVars, Pcs
  <2>3. QED
    BY <2>1, <2>2 DEF Types
<1>3. CASE Write(d)
  <2>1. /\ hand[d] \in Seq(AnyFrame) /\ Len(hand[d]) = 1 /\ out[d] \in Seq(AnyFrame)
        /\ Len(out[d]) < Buffer
    BY <1>0, <1>3 DEF HandsOK, QueuesOK, Queues, Write, Goto
  <2>2. /\ Append(out[d], Head(hand[d])) \in Seq(AnyFrame)
        /\ Len(Append(out[d], Head(hand[d]))) <= Buffer
    BY <2>1, BoundAssumption
  <2>3. /\ out' = [out EXCEPT ![d] = Append(out[d], Head(hand[d]))]
        /\ UNCHANGED <<in, sent, got>>
    BY <1>3 DEF Write, farVars
  <2>4. QueuesOK'
    <3>1. /\ out' \in Queues /\ out'[d] = Append(out[d], Head(hand[d]))
          /\ \A d2 \in Dirs : d2 # d => out'[d2] = out[d2]
      BY <1>0, <2>2, <2>3 DEF QueuesOK, Queues
    <3>2. QED
      BY <1>0, <2>2, <2>3, <3>1 DEF QueuesOK
  <2>5. HandsOK'
    <3>1. Goto(Pump[d], "write", "read") /\ hand' = [hand EXCEPT ![d] = <<>>]
      BY <1>3 DEF Write
    <3>2. QED
      BY <1>0, <3>1, HandsEmptied
  <2>6. ControlOK'
    BY <1>0, <1>3, GotoFacts DEF Write, ControlOK, farVars, Pcs
  <2>7. QED
    BY <2>4, <2>5, <2>6 DEF Types
<1>4. CASE WriteFails(d)
  <2>1. HandsOK'
    <3>1. Goto(Pump[d], "write", "shutdown") /\ hand' = [hand EXCEPT ![d] = <<>>]
      BY <1>4 DEF WriteFails
    <3>2. QED
      BY <1>0, <3>1, HandsEmptied
  <2>2. QueuesOK' /\ ControlOK'
    BY <1>0, <1>4, GotoFacts DEF WriteFails, QueuesOK, ControlOK, farVars, Pcs
  <2>3. QED
    BY <2>1, <2>2 DEF Types
<1>5. QED
  BY <1>1, <1>2, <1>3, <1>4 DEF PumpStep

LEMMA ShutdownTypes ==
  ASSUME Types, NEW g \in Goroutines, Shutdown(g)
  PROVE  Types'
<1>0. TypeOK /\ QueuesOK /\ HandsOK /\ ControlOK /\ "browser" \in Ends /\ "gw" \in Ends
  BY TypeParts DEF Types, Ends
<1>1. CASE CloseBrowser(g)
  <2>1. HandsOK'
    BY <1>0, <1>1, HandsKept DEF CloseBrowser
  <2>2. Close("browser") /\ sent' = sent /\ got' = got
    BY <1>1 DEF CloseBrowser, farVars
  <2>3. QueuesOK'
    BY <1>0, <2>2, CloseFacts DEF QueuesOK
  <2>4. ControlOK'
    BY <1>0, <1>1, <2>2, CloseFacts, GotoFacts DEF CloseBrowser, ControlOK, farVars, Pcs
  <2>5. QED
    BY <2>1, <2>3, <2>4 DEF Types
<1>2. CASE CloseGw(g)
  <2>1. HandsOK'
    BY <1>0, <1>2, HandsKept DEF CloseGw
  <2>2. Close("gw") /\ sent' = sent /\ got' = got
    BY <1>2 DEF CloseGw, farVars
  <2>3. QueuesOK'
    BY <1>0, <2>2, CloseFacts DEF QueuesOK
  <2>4. ControlOK'
    BY <1>0, <1>2, <2>2, CloseFacts, GotoFacts DEF CloseGw, ControlOK, farVars, Pcs
  <2>5. QED
    BY <2>1, <2>3, <2>4 DEF Types
<1>3. CASE AwaitShutdown(g)
  <2>1. HandsOK'
    BY <1>0, <1>3, HandsKept DEF AwaitShutdown
  <2>2. QueuesOK' /\ ControlOK'
    BY <1>0, <1>3, GotoFacts DEF AwaitShutdown, QueuesOK, ControlOK, farVars, Pcs
  <2>3. QED
    BY <2>1, <2>2 DEF Types
<1>4. QED
  BY <1>1, <1>2, <1>3 DEF Shutdown

\* What the end of the process leaves in the connections.
LEMMA ProcessEndsFacts ==
  ASSUME Types, ProcessEnds
  PROVE  /\ in' \in Queues /\ hand' \in Queues /\ out' \in Queues
         /\ \A d \in Dirs : /\ in'[d] = <<>> /\ hand'[d] = <<>> /\ out'[d] \in Cut(out[d])
                            /\ Len(in'[d]) = 0 /\ Len(hand'[d]) = 0 /\ Len(out'[d]) <= Buffer
         /\ \A g \in Goroutines : pc'[g] = "done"
         /\ \A e \in Ends : conn'[e] = "closed"
<1>1. /\ pc' = [g \in Goroutines |-> "done"] /\ conn' = [e \in Ends |-> "closed"]
      /\ in' = Empty /\ hand' = Empty
  BY DEF ProcessEnds
<1>2. PICK p \in Cut(out["up"]), q \in Cut(out["down"]) :
        out' = [d \in Dirs |-> IF d = "up" THEN p ELSE q]
  BY DEF ProcessEnds
<1>3. \A d \in Dirs : out[d] \in Seq(AnyFrame) /\ Len(out[d]) <= Buffer
  BY DEF Types, QueuesOK, Queues
<1>4. /\ p \in Seq(AnyFrame) /\ Len(p) <= Buffer /\ q \in Seq(AnyFrame) /\ Len(q) <= Buffer
  <2>1. /\ p \in Seq(AnyFrame) /\ Len(p) <= Len(out["up"])
        /\ q \in Seq(AnyFrame) /\ Len(q) <= Len(out["down"])
    BY <1>3, Wiring, CutFacts
  <2>2. Len(p) \in Nat /\ Len(q) \in Nat /\ Len(out["up"]) \in Nat /\ Len(out["down"]) \in Nat
    BY <1>3, <2>1, Wiring
  <2>3. QED
    BY <1>3, <2>1, <2>2, Wiring, BoundAssumption
<1>5. out' \in Queues /\ \A d \in Dirs : out'[d] \in Cut(out[d]) /\ Len(out'[d]) <= Buffer
  BY <1>2, <1>4 DEF Queues, Dirs
<1>6. <<>> \in Seq(AnyFrame) /\ Len(<<>>) = 0
  OBVIOUS
<1>7. QED
  BY <1>1, <1>5, <1>6 DEF Empty, Queues

LEMMA FarTypes ==
  ASSUME Types,
         \/ GatewayAnswers
         \/ \E d \in Dirs : Sends(d) \/ Takes(d)
         \/ \E e \in Ends : Leaves(e) \/ Notices(e)
  PROVE  Types'
<1>0. QueuesOK /\ HandsOK /\ ControlOK
  BY DEF Types
<1>1. HandsOK'
  BY <1>0 DEF GatewayAnswers, Sends, Takes, Leaves, Notices, relayVars, HandsOK
<1>2. CASE GatewayAnswers
  <2>1. QueuesOK' /\ ControlOK'
    BY <1>0, <1>2 DEF GatewayAnswers, QueuesOK, ControlOK, relayVars
  <2>2. QED
    BY <1>1, <2>1 DEF Types
<1>3. ASSUME NEW d \in Dirs, Sends(d) PROVE Types'
  <2>1. PICK f \in Spoken(d) : /\ sent' = [sent EXCEPT ![d] = Append(@, f)]
                              /\ in' = [in EXCEPT ![d] = Append(@, f)]
    BY <1>3 DEF Sends
  <2>2. f \in AnyFrame
    BY FrameType DEF Spoken
  <2>3. in[d] \in Seq(AnyFrame) /\ sent[d] \in Seq(AnyFrame)
        /\ Len(in[d]) < Buffer /\ Len(sent[d]) < MaxSent
    BY <1>0, <1>3 DEF QueuesOK, Queues, Sends
  <2>4. /\ Append(in[d], f) \in Seq(AnyFrame) /\ Len(Append(in[d], f)) <= Buffer
        /\ Append(sent[d], f) \in Seq(AnyFrame) /\ Len(Append(sent[d], f)) <= MaxSent
    BY <2>2, <2>3, BoundAssumption
  <2>5. QueuesOK'
    BY <1>0, <1>3, <2>1, <2>4 DEF QueuesOK, Queues, Sends
  <2>6. ControlOK'
    BY <1>0, <1>3 DEF Sends, ControlOK, relayVars
  <2>7. QED
    BY <1>1, <2>5, <2>6 DEF Types
<1>4. ASSUME NEW d \in Dirs, Takes(d) PROVE Types'
  <2>1. /\ got[d] \in Seq(AnyFrame) /\ out[d] \in Seq(AnyFrame) /\ out[d] # <<>>
        /\ Len(out[d]) <= Buffer
    BY <1>0, <1>4 DEF QueuesOK, Queues, Takes
  <2>2. /\ Head(out[d]) \in AnyFrame /\ Tail(out[d]) \in Seq(AnyFrame)
        /\ Len(out[d]) \in Nat /\ Len(Tail(out[d])) = Len(out[d]) - 1
    BY <2>1, HeadTail
  <2>3. /\ Append(got[d], Head(out[d])) \in Seq(AnyFrame) /\ Len(Tail(out[d])) <= Buffer
    BY <2>1, <2>2, BoundAssumption
  <2>4. QueuesOK'
    BY <1>0, <1>4, <2>2, <2>3 DEF QueuesOK, Queues, Takes
  <2>5. window' \in Sizes \union {"initial"}
    BY <1>0, <1>4 DEF Takes, Apply, ControlOK
  <2>6. ControlOK'
    BY <1>0, <1>4, <2>5 DEF Takes, ControlOK, relayVars
  <2>7. QED
    BY <1>1, <2>4, <2>6 DEF Types
<1>5. ASSUME NEW e \in Ends, Leaves(e) PROVE Types'
  <2>0. PICK d \in Dirs : \E q \in Cut(in[d]) : in' = [in EXCEPT ![d] = q]
    BY <1>5 DEF Leaves
  <2>1. PICK q \in Cut(in[d]) : in' = [in EXCEPT ![d] = q]
    BY <2>0
  <2>2. in[d] \in Seq(AnyFrame) /\ Len(in[d]) <= Buffer
    BY <1>0 DEF QueuesOK, Queues
  <2>3. q \in Seq(AnyFrame) /\ Len(q) <= Len(in[d])
    BY <2>1, <2>2, CutFacts
  <2>4. Len(q) <= Buffer
    BY <2>2, <2>3, BoundAssumption
  <2>5. QueuesOK'
    BY <1>0, <1>5, <2>1, <2>3, <2>4 DEF QueuesOK, Queues, Leaves
  <2>6. ControlOK'
    BY <1>0, <1>5 DEF Leaves, ControlOK, relayVars
  <2>7. QED
    BY <1>1, <2>5, <2>6 DEF Types
<1>6. ASSUME NEW e \in Ends, Notices(e) PROVE Types'
  <2>1. QueuesOK' /\ ControlOK'
    BY <1>0, <1>6 DEF Notices, QueuesOK, ControlOK, relayVars
  <2>2. QED
    BY <1>1, <2>1 DEF Types
<1>7. QED
  BY <1>2, <1>3, <1>4, <1>5, <1>6

LEMMA TypesKeep ==
  ASSUME Types, Phases, [Next]_vars
  PROVE  Types'
<1>1. CASE ProcessEnds
  <2>1. QueuesOK'
    BY <1>1, ProcessEndsFacts, BoundAssumption DEF ProcessEnds, Types, QueuesOK, farVars
  <2>2. HandsOK'
    BY <1>1, ProcessEndsFacts, Wiring DEF HandsOK
  <2>3. ControlOK'
    BY <1>1 DEF ProcessEnds, Types, ControlOK, farVars, Pcs
  <2>4. QED
    BY <2>1, <2>2, <2>3 DEF Types
<1>2. CASE UNCHANGED vars
  BY <1>2 DEF vars, relayVars, farVars, Types, QueuesOK, HandsOK, ControlOK
<1>3. CASE Terminated
  BY <1>2, <1>3 DEF Terminated
<1>4. QED
  BY <1>1, <1>2, <1>3, HandlerTypes, PumpTypes, ShutdownTypes, FarTypes DEF Next

-----------------------------------------------------------------------------
(* What is closed stays closed *)

Ended == {"shutdown", "closeGw", "done"}

\* A closed connection is not opened again, a far end that has gone does not come
\* back, and a pump that has stopped does not go on.
Stable ==
  /\ \A e \in Ends : conn[e] = "closed" => conn'[e] = "closed"
  /\ \A e \in Ends : far[e] = "gone" => far'[e] = "gone"
  /\ \A g \in Goroutines : pc[g] \in Ended => pc'[g] \in Ended

LEMMA StepStable ==
  ASSUME Types, Phases, [Next]_vars
  PROVE  Stable
<1>0. /\ TypeOK /\ pc \in [Goroutines -> Pcs] /\ conn \in [Ends -> {"none", "open", "closed"}]
      /\ far \in [Ends -> {"none", "opening", "there", "refused", "gone"}]
      /\ "handler" \in Goroutines /\ "up" \in Goroutines
      /\ "gw" \in Ends /\ "browser" \in Ends
      /\ Goroutines = {"handler", "up"}
  BY TypeParts DEF Types, ControlOK, Goroutines, Ends
<1>1. CASE MissingId
  BY <1>0, <1>1, GotoFacts DEF MissingId, Stable, Ended, farVars, Pcs
<1>2. CASE Dial
  BY <1>0, <1>2, GotoFacts DEF Dial, Stable, Ended, Pcs, Phases
<1>3. CASE Dialed
  BY <1>0, <1>3, GotoFacts DEF Dialed, Stable, Ended, farVars, Pcs, Phases
<1>4. CASE DialFails
  <2>1. /\ conn'["gw"] = "closed" /\ conn'["browser"] = conn["browser"]
        /\ far' = far /\ Goto("handler", "dialing", "done")
    BY <1>0, <1>4, CloseFacts DEF DialFails, farVars, Ends
  <2>2. QED
    BY <1>0, <2>1, GotoFacts DEF Stable, Ended, Pcs, Ends
<1>5. CASE Upgrade
  BY <1>0, <1>5 DEF Upgrade, Stable, Ended, farVars, Phases
<1>6. CASE UpgradeFails
  <2>1. /\ conn'["gw"] = "closed" /\ conn'["browser"] = conn["browser"]
        /\ far' = far /\ Goto("handler", "upgrade", "done")
    BY <1>0, <1>6, CloseFacts DEF UpgradeFails, farVars, Ends
  <2>2. QED
    BY <1>0, <2>1, GotoFacts DEF Stable, Ended, Pcs, Ends
<1>7. ASSUME NEW d \in Dirs, PumpStep(d) PROVE Stable
  BY <1>0, <1>7, GotoFacts, Wiring
     DEF PumpStep, Read, ReadFails, Write, WriteFails, Stable, Ended, farVars, Pcs
<1>8. ASSUME NEW g \in Goroutines, Shutdown(g) PROVE Stable
  BY <1>0, <1>8, GotoFacts, CloseFacts
     DEF Shutdown, CloseBrowser, CloseGw, AwaitShutdown, Stable, Ended, farVars, Pcs
<1>9. CASE ProcessEnds
  BY <1>9 DEF ProcessEnds, Stable, Ended, farVars
<1>10. CASE GatewayAnswers
  BY <1>0, <1>10 DEF GatewayAnswers, Stable, relayVars
<1>11. ASSUME NEW d \in Dirs, Sends(d) \/ Takes(d) PROVE Stable
  BY <1>11 DEF Sends, Takes, Stable, relayVars
<1>12. ASSUME NEW e \in Ends, Leaves(e) \/ Notices(e) PROVE Stable
  BY <1>0, <1>12 DEF Leaves, Notices, Stable, relayVars
<1>13. CASE UNCHANGED vars
  BY <1>13 DEF vars, Stable, relayVars, farVars
<1>14. QED
  BY <1>1, <1>2, <1>3, <1>4, <1>5, <1>6, <1>7, <1>8, <1>9, <1>10, <1>11, <1>12, <1>13
     DEF Next, Handler, Terminated

LEMMA PhasesKeep ==
  ASSUME Types, Phases, [Next]_vars
  PROVE  Phases'
<1>0. /\ TypeOK /\ pc \in [Goroutines -> Pcs] /\ conn \in [Ends -> {"none", "open", "closed"}]
      /\ "handler" \in Goroutines /\ "up" \in Goroutines
      /\ "gw" \in Ends /\ "browser" \in Ends
      /\ Goroutines = {"handler", "up"} /\ Ends = {"browser", "gw"}
      /\ once \in {"unused", "running", "done"}
  BY TypeParts DEF Types, ControlOK, Goroutines, Ends
<1>1. CASE MissingId
  BY <1>0, <1>1, GotoFacts DEF MissingId, Phases, Pcs, farVars
<1>2. CASE Dial
  BY <1>0, <1>2, GotoFacts DEF Dial, Phases, Pcs
<1>3. CASE Dialed
  BY <1>0, <1>3, GotoFacts DEF Dialed, Phases, Pcs, farVars
<1>4. CASE DialFails
  <2>1. /\ conn'["gw"] = "closed" /\ conn'["browser"] = conn["browser"] /\ once' = once
        /\ far' = far /\ Goto("handler", "dialing", "done")
    BY <1>0, <1>4, CloseFacts DEF DialFails, farVars
  <2>2. QED
    BY <1>0, <2>1, GotoFacts DEF Phases, Pcs
<1>5. CASE Upgrade
  BY <1>0, <1>5 DEF Upgrade, Phases, farVars
<1>6. CASE UpgradeFails
  <2>1. /\ conn'["gw"] = "closed" /\ conn'["browser"] = conn["browser"] /\ once' = once
        /\ far' = far /\ Goto("handler", "upgrade", "done")
    BY <1>0, <1>6, CloseFacts DEF UpgradeFails, farVars
  <2>2. QED
    BY <1>0, <2>1, GotoFacts DEF Phases, Pcs
<1>7. ASSUME NEW d \in Dirs, PumpStep(d) PROVE Phases'
  BY <1>0, <1>7, GotoFacts, Wiring
     DEF PumpStep, Read, ReadFails, Write, WriteFails, Phases, Pcs, farVars
<1>8. ASSUME NEW g \in Goroutines, CloseBrowser(g) PROVE Phases'
  BY <1>0, <1>8, GotoFacts, CloseFacts DEF CloseBrowser, Phases, Pcs, farVars
<1>9. ASSUME NEW g \in Goroutines, CloseGw(g) PROVE Phases'
  BY <1>0, <1>9, GotoFacts, CloseFacts DEF CloseGw, Phases, Pcs, farVars
<1>10. ASSUME NEW g \in Goroutines, AwaitShutdown(g) PROVE Phases'
  BY <1>0, <1>10, GotoFacts DEF AwaitShutdown, Phases, Pcs, farVars
<1>11. CASE ProcessEnds
  BY <1>0, <1>11 DEF ProcessEnds, Phases, farVars
<1>12. ASSUME UNCHANGED relayVars, far["gw"] = "none" => far'["gw"] = "none" PROVE Phases'
  BY <1>12 DEF relayVars, Phases
<1>13. GatewayAnswers => Phases'
  BY <1>12 DEF GatewayAnswers, relayVars
<1>14. ASSUME NEW d \in Dirs, Sends(d) \/ Takes(d) PROVE Phases'
  BY <1>12, <1>14 DEF Sends, Takes
<1>15. ASSUME NEW e \in Ends, Leaves(e) \/ Notices(e) PROVE Phases'
  <2>1. UNCHANGED relayVars /\ far' = [far EXCEPT ![e] = "gone"] /\ far[e] = "there"
    BY <1>15 DEF Leaves, Notices
  <2>2. far["gw"] = "none" => far'["gw"] = "none"
    BY <1>0, <2>1 DEF Types, ControlOK
  <2>3. QED
    BY <1>12, <2>1, <2>2
<1>16. CASE UNCHANGED vars
  BY <1>12, <1>16 DEF vars, farVars
<1>17. QED
  BY <1>1, <1>2, <1>3, <1>4, <1>5, <1>6, <1>7, <1>8, <1>9, <1>10, <1>11, <1>13, <1>14,
     <1>15, <1>16
     DEF Next, Handler, Shutdown, Terminated

-----------------------------------------------------------------------------
(* Order *)

LEMMA Weaker ==
  ASSUME Stable, NEW d \in Dirs
  PROVE  /\ Whole(d)' => Whole(d)
         /\ Live(d)' => Live(d)
BY Wiring DEF Stable, Whole, Live, Ended

LEMMA Quiet ==
  ASSUME Stable, NEW d \in Dirs, InOrder(d),
         got'[d] = got[d], out'[d] = out[d], hand'[d] = hand[d], in'[d] = in[d],
         sent'[d] = sent[d]
  PROVE  InOrder(d)'
BY Weaker DEF InOrder

LEMMA OneQueue ==
  ASSUME Types, NEW d \in Dirs
  PROVE  /\ got[d] \in Seq(AnyFrame) /\ out[d] \in Seq(AnyFrame) /\ hand[d] \in Seq(AnyFrame)
         /\ in[d] \in Seq(AnyFrame) /\ sent[d] \in Seq(AnyFrame)
BY DEF Types, QueuesOK, HandsOK, Queues

\* The pump has ended, or its connection to the receiver is closed.
LEMMA Broken ==
  ASSUME Types, NEW d \in Dirs, InOrder(d), got'[d] = got[d], out'[d] \in Cut(out[d]),
         sent'[d] = sent[d], ~Whole(d)'
  PROVE  InOrder(d)'
<1>1. Ahead(got[d], out[d], sent[d])
  BY DEF InOrder
<1>2. Ahead(got[d], out'[d], sent[d])
  BY <1>1, OneQueue, CutAhead
<1>3. QED
  BY <1>2 DEF InOrder

LEMMA Uncut ==
  ASSUME NEW S, NEW q \in Seq(S)
  PROVE  q \in Cut(q) /\ <<>> \in Cut(q)
<1>1. Len(q) \in Nat /\ SubSeq(q, 1, Len(q)) = q /\ SubSeq(q, 1, 0) = <<>>
  OBVIOUS
<1>2. Len(q) \in 0..Len(q) /\ 0 \in 0..Len(q)
  BY <1>1
<1>3. q \in Cut(q)
  BY <1>1, <1>2 DEF Cut
<1>4. <<>> \in Cut(q)
  BY <1>1, <1>2 DEF Cut
<1>5. QED
  BY <1>3, <1>4

\* What is on its way to the pump is cut.
LEMMA Starved ==
  ASSUME Types, Stable, NEW d \in Dirs, InOrder(d), got'[d] = got[d], out'[d] = out[d],
         hand'[d] = hand[d], in'[d] \in Cut(in[d]), sent'[d] = sent[d], ~Live(d)'
  PROVE  InOrder(d)'
<1>1. Ahead(got[d], out[d], sent[d]) /\ (Whole(d)' => Whole(d))
  BY Weaker DEF InOrder
<1>2. Whole(d) => Behind(got[d], out[d], hand[d], in[d], sent[d])
  BY DEF InOrder
<1>3. Whole(d) => Behind(got[d], out[d], hand[d], in'[d], sent[d])
  BY <1>2, OneQueue, CutBehind
<1>4. QED
  BY <1>1, <1>3 DEF InOrder

\* Closing the connection to one end: the direction toward it is broken, and of the
\* other, what was on its way to us is lost.
LEMMA CloseOrder ==
  ASSUME Types, Stable, Order, NEW e \in Ends, Close(e),
         hand' = hand, sent' = sent, got' = got
  PROVE  Order'
<1>1. /\ conn'[e] = "closed"
      /\ \A d \in Dirs :
           /\ in'[d] = IF From[d] = e THEN <<>> ELSE in[d]
           /\ out'[d] \in Cut(out[d]) /\ (To[d] # e => out'[d] = out[d])
  BY TypeParts, CloseFacts
<1> SUFFICES ASSUME NEW d \in Dirs PROVE InOrder(d)'
  BY DEF Order
<1>2. InOrder(d)
  BY DEF Order
<1>3. CASE To[d] = e
  <2>1. ~Whole(d)'
    BY <1>1, <1>3 DEF Whole
  <2>2. QED
    BY <1>1, <1>2, <2>1, Broken
<1>4. CASE To[d] # e
  <2>1. From[d] = e
    BY <1>4, Wiring DEF Ends
  <2>2. out'[d] = out[d] /\ in'[d] = <<>> /\ ~Live(d)'
    BY <1>1, <1>4, <2>1 DEF Live
  <2>3. in'[d] \in Cut(in[d])
    BY <2>2, OneQueue, Uncut
  <2>4. QED
    BY <1>2, <2>2, <2>3, Starved
<1>5. QED
  BY <1>3, <1>4

\* Steps of one direction leave the other alone.
LEMMA OneDirection ==
  ASSUME Stable, Order, NEW d \in Dirs, InOrder(d)',
         \A d2 \in Dirs : d2 # d =>
           /\ got'[d2] = got[d2] /\ out'[d2] = out[d2] /\ hand'[d2] = hand[d2]
           /\ in'[d2] = in[d2] /\ sent'[d2] = sent[d2]
  PROVE  Order'
<1> SUFFICES ASSUME NEW d2 \in Dirs PROVE InOrder(d2)'
  BY DEF Order
<1>1. CASE d2 = d
  BY <1>1
<1>2. CASE d2 # d
  BY <1>2, Quiet DEF Order
<1>3. QED
  BY <1>1, <1>2

LEMMA PumpOrder ==
  ASSUME Types, Stable, Order, NEW d \in Dirs, PumpStep(d)
  PROVE  Order'
<1>1. /\ InOrder(d) /\ Pump[d] \in Goroutines /\ pc \in [Goroutines -> Pcs]
      /\ QueuesOK /\ HandsOK
  BY Wiring DEF Order, Types, ControlOK
<1>2. (Whole(d)' => Whole(d)) /\ (Live(d)' => Live(d))
  BY Weaker
<1>3. CASE Read(d)
  <2>1. Len(hand[d]) = 0 /\ in[d] # <<>>
    BY <1>1, <1>3 DEF HandsOK, Read, Goto
  <2>2. /\ hand'[d] = <<Head(in[d])>> /\ in'[d] = Tail(in[d])
        /\ \A d2 \in Dirs : d2 # d => hand'[d2] = hand[d2] /\ in'[d2] = in[d2]
        /\ got' = got /\ out' = out /\ sent' = sent
    BY <1>1, <1>3 DEF Read, QueuesOK, HandsOK, Queues, farVars
  <2>3. /\ Behind(got[d], out[d], hand[d], in[d], sent[d]) =>
             Behind(got[d], out[d], hand'[d], in'[d], sent[d])
        /\ All(got[d], out[d], hand[d], in[d], sent[d]) =>
             All(got[d], out[d], hand'[d], in'[d], sent[d])
    BY <2>1, <2>2, OneQueue, Fetch
  <2>4. InOrder(d)'
    BY <1>1, <1>2, <2>2, <2>3 DEF InOrder
  <2>5. QED
    BY <2>2, <2>4, OneDirection
<1>4. CASE ReadFails(d)
  <2>1. UNCHANGED <<got, out, hand, in, sent>>
    BY <1>4 DEF ReadFails, farVars
  <2>2. InOrder(d)'
    BY <1>1, <2>1, Quiet
  <2>3. QED
    BY <2>1, <2>2, OneDirection
<1>5. CASE Write(d)
  <2>1. Len(hand[d]) = 1 /\ Whole(d)
    BY <1>1, <1>5 DEF HandsOK, Write, Goto, Whole
  <2>2. /\ hand'[d] = <<>> /\ out'[d] = Append(out[d], Head(hand[d]))
        /\ \A d2 \in Dirs : d2 # d => hand'[d2] = hand[d2] /\ out'[d2] = out[d2]
        /\ got' = got /\ in' = in /\ sent' = sent
    BY <1>1, <1>5 DEF Write, QueuesOK, HandsOK, Queues, farVars
  <2>3. Ahead(got[d], out[d], sent[d]) /\ Behind(got[d], out[d], hand[d], in[d], sent[d])
    BY <1>1, <2>1 DEF InOrder
  <2>4. /\ Ahead(got[d], out'[d], sent[d])
        /\ Behind(got[d], out'[d], hand'[d], in[d], sent[d])
        /\ All(got[d], out[d], hand[d], in[d], sent[d]) =>
             All(got[d], out'[d], hand'[d], in[d], sent[d])
    BY <2>1, <2>2, <2>3, OneQueue, Pass
  <2>5. InOrder(d)'
    BY <1>1, <1>2, <2>2, <2>4 DEF InOrder
  <2>6. QED
    BY <2>2, <2>5, OneDirection
<1>6. CASE WriteFails(d)
  <2>1. /\ \A d2 \in Dirs : d2 # d => hand'[d2] = hand[d2]
        /\ UNCHANGED <<got, out, in, sent>>
    BY <1>1, <1>6 DEF WriteFails, HandsOK, Queues, farVars
  <2>2. ~Whole(d)'
    BY <1>1, <1>6 DEF WriteFails, Whole, Goto
  <2>3. InOrder(d)'
    BY <1>1, <2>1, <2>2, OneQueue, Uncut, Broken
  <2>4. QED
    BY <2>1, <2>3, OneDirection
<1>7. QED
  BY <1>3, <1>4, <1>5, <1>6 DEF PumpStep

\* A frame taken is the next one that was sent.
LEMMA TakesOrder ==
  ASSUME Types, Stable, Order, NEW d \in Dirs, Takes(d)
  PROVE  /\ Order'
         /\ Len(got[d]) < Len(sent[d])
         /\ got' = [got EXCEPT ![d] = Append(@, sent[d][Len(@) + 1])]
<1>1. InOrder(d) /\ Ahead(got[d], out[d], sent[d]) /\ out[d] # <<>>
  BY DEF Order, InOrder, Takes
<1>2. /\ got' = [got EXCEPT ![d] = Append(@, Head(out[d]))]
      /\ out' = [out EXCEPT ![d] = Tail(@)]
      /\ hand' = hand /\ in' = in /\ sent' = sent
  BY DEF Takes, relayVars
<1>3. /\ got'[d] = Append(got[d], Head(out[d])) /\ out'[d] = Tail(out[d])
      /\ \A d2 \in Dirs : d2 # d => got'[d2] = got[d2] /\ out'[d2] = out[d2]
  BY <1>2 DEF Types, QueuesOK, Queues
<1>4. /\ Ahead(got'[d], out'[d], sent[d])
      /\ Behind(got[d], out[d], hand[d], in[d], sent[d]) =>
           Behind(got'[d], out'[d], hand[d], in[d], sent[d])
      /\ All(got[d], out[d], hand[d], in[d], sent[d]) =>
           All(got'[d], out'[d], hand[d], in[d], sent[d])
      /\ Len(got[d]) < Len(sent[d]) /\ Head(out[d]) = sent[d][Len(got[d]) + 1]
  <2>1. /\ got[d] \in Seq(AnyFrame) /\ out[d] \in Seq(AnyFrame) /\ hand[d] \in Seq(AnyFrame)
        /\ in[d] \in Seq(AnyFrame) /\ sent[d] \in Seq(AnyFrame)
    BY OneQueue
  <2>2. Ahead(got'[d], out'[d], sent[d])
    BY <1>1, <1>3, <2>1, Take
  <2>3. Behind(got[d], out[d], hand[d], in[d], sent[d]) =>
          Behind(got'[d], out'[d], hand[d], in[d], sent[d])
    BY <1>1, <1>3, <2>1, Take
  <2>4. All(got[d], out[d], hand[d], in[d], sent[d]) =>
          All(got'[d], out'[d], hand[d], in[d], sent[d])
    BY <1>1, <1>3, <2>1, Take
  <2>5. Len(got[d]) < Len(sent[d]) /\ Head(out[d]) = sent[d][Len(got[d]) + 1]
    BY <1>1, <2>1, NextFrame
  <2>6. QED
    BY <2>2, <2>3, <2>4, <2>5
<1>5. InOrder(d)'
  BY <1>1, <1>2, <1>4, Weaker DEF InOrder
<1>6. Order'
  BY <1>2, <1>3, <1>5, OneDirection
<1>7. QED
  BY <1>2, <1>4, <1>6

LEMMA SendsOrder ==
  ASSUME Types, Stable, Order, NEW d \in Dirs, Sends(d)
  PROVE  Order'
<1>1. InOrder(d) /\ Ahead(got[d], out[d], sent[d]) /\ Live(d)
  BY Wiring DEF Order, InOrder, Sends, Live
<1>2. PICK f \in Spoken(d) : /\ sent' = [sent EXCEPT ![d] = Append(@, f)]
                            /\ in' = [in EXCEPT ![d] = Append(@, f)]
  BY DEF Sends
<1>3. f \in AnyFrame
  BY FrameType DEF Spoken
<1>4. /\ sent'[d] = Append(sent[d], f) /\ in'[d] = Append(in[d], f)
      /\ \A d2 \in Dirs : d2 # d => sent'[d2] = sent[d2] /\ in'[d2] = in[d2]
      /\ got' = got /\ out' = out /\ hand' = hand
  BY <1>2 DEF Sends, Types, QueuesOK, Queues, relayVars
<1>5. /\ Ahead(got[d], out[d], sent'[d])
      /\ Behind(got[d], out[d], hand[d], in[d], sent[d])
           /\ All(got[d], out[d], hand[d], in[d], sent[d]) =>
         Behind(got[d], out[d], hand[d], in'[d], sent'[d])
           /\ All(got[d], out[d], hand[d], in'[d], sent'[d])
  BY <1>1, <1>3, <1>4, OneQueue, Add
<1>6. InOrder(d)'
  BY <1>1, <1>4, <1>5, Weaker DEF InOrder
<1>7. QED
  BY <1>4, <1>6, OneDirection

LEMMA LeavesOrder ==
  ASSUME Types, Stable, Order, NEW e \in Ends, Leaves(e)
  PROVE  Order'
<1>1. PICK d \in Dirs : From[d] = e /\ \E q \in Cut(in[d]) : in' = [in EXCEPT ![d] = q]
  BY DEF Leaves
<1>2. /\ in'[d] \in Cut(in[d]) /\ \A d2 \in Dirs : d2 # d => in'[d2] = in[d2]
      /\ got' = got /\ out' = out /\ hand' = hand /\ sent' = sent
  BY <1>1 DEF Leaves, Types, QueuesOK, Queues, relayVars
<1>3. ~Live(d)'
  BY <1>1 DEF Leaves, Live, Types, ControlOK
<1>4. InOrder(d)'
  BY <1>2, <1>3, Starved DEF Order
<1>5. QED
  BY <1>2, <1>4, OneDirection

LEMMA OrderKeeps ==
  ASSUME Types, Phases, Order, [Next]_vars
  PROVE  Order'
<1>0. Stable /\ "browser" \in Ends /\ "gw" \in Ends
  BY StepStable DEF Ends
<1>1. ASSUME UNCHANGED <<got, out, hand, in, sent>> PROVE Order'
  BY <1>0, <1>1, Quiet DEF Order
<1>2. CASE MissingId \/ Dial \/ Dialed \/ Upgrade
  BY <1>1, <1>2 DEF MissingId, Dial, Dialed, Upgrade, farVars
<1>3. CASE DialFails \/ UpgradeFails
  BY <1>0, <1>3, CloseOrder DEF DialFails, UpgradeFails, farVars
<1>4. ASSUME NEW d \in Dirs, PumpStep(d) PROVE Order'
  BY <1>0, <1>4, PumpOrder
<1>5. ASSUME NEW g \in Goroutines, CloseBrowser(g) \/ CloseGw(g) PROVE Order'
  BY <1>0, <1>5, CloseOrder DEF CloseBrowser, CloseGw, farVars
<1>6. ASSUME NEW g \in Goroutines, AwaitShutdown(g) PROVE Order'
  BY <1>1, <1>6 DEF AwaitShutdown, farVars
<1>7. CASE ProcessEnds
  <2>1. \A d \in Dirs : ~Whole(d)' /\ out'[d] \in Cut(out[d]) /\ got' = got /\ sent' = sent
    BY <1>7, ProcessEndsFacts, Wiring DEF Whole, ProcessEnds, farVars
  <2>2. QED
    BY <2>1, Broken DEF Order
<1>8. CASE GatewayAnswers
  BY <1>1, <1>8 DEF GatewayAnswers, relayVars
<1>9. ASSUME NEW d \in Dirs, Sends(d) \/ Takes(d) PROVE Order'
  BY <1>0, <1>9, SendsOrder, TakesOrder
<1>10. ASSUME NEW e \in Ends, Leaves(e) PROVE Order'
  BY <1>0, <1>10, LeavesOrder
<1>11. ASSUME NEW e \in Ends, Notices(e) PROVE Order'
  BY <1>1, <1>11 DEF Notices, relayVars
<1>12. CASE UNCHANGED vars
  BY <1>1, <1>12 DEF vars, relayVars, farVars
<1>13. QED
  BY <1>2, <1>3, <1>4, <1>5, <1>6, <1>7, <1>8, <1>9, <1>10, <1>11, <1>12
     DEF Next, Handler, Shutdown, Terminated

-----------------------------------------------------------------------------
(* Theorems *)

LEMMA InitIInv == Init => Types /\ Phases /\ Order
<1> SUFFICES ASSUME Init PROVE Types /\ Phases /\ Order
  OBVIOUS
<1>1. <<>> \in Seq(AnyFrame) /\ Len(<<>>) = 0
  OBVIOUS
<1>2. /\ in = Empty /\ hand = Empty /\ out = Empty /\ sent = Empty /\ got = Empty
      /\ Empty \in Queues /\ \A d \in Dirs : Empty[d] = <<>>
  BY <1>1 DEF Init, Empty, Queues
<1>3. QueuesOK
  BY <1>1, <1>2, BoundAssumption DEF QueuesOK
<1>4. HandsOK
  BY <1>1, <1>2, Wiring DEF HandsOK, Init
<1>5. ControlOK /\ Phases
  BY DEF Init, ControlOK, Phases, Goroutines, Ends, Pcs
<1>6. ASSUME NEW d \in Dirs PROVE InOrder(d)
  <2>1. /\ in[d] = <<>> /\ hand[d] = <<>> /\ out[d] = <<>> /\ sent[d] = <<>> /\ got[d] = <<>>
    BY <1>2
  <2>2. Ahead(<<>>, <<>>, <<>>) /\ Behind(<<>>, <<>>, <<>>, <<>>, <<>>)
        /\ All(<<>>, <<>>, <<>>, <<>>, <<>>)
    BY <1>1 DEF Ahead, Behind, All
  <2>3. QED
    BY <2>1, <2>2 DEF InOrder
<1>7. QED
  BY <1>3, <1>4, <1>5, <1>6 DEF Types, Order

\* The inductive invariant: types, what is open in which phase of the handler, and,
\* for each direction, the place in what was sent of every frame that is held.
THEOREM Inductive == Spec => [](Types /\ Phases /\ Order)
<1>1. Types /\ Phases /\ Order /\ [Next]_vars => (Types /\ Phases /\ Order)'
  BY TypesKeep, PhasesKeep, OrderKeeps
<1>2. QED
  BY InitIInv, <1>1, PTL DEF Spec

\* Every variable keeps its type and no connection holds more than its buffer.
THEOREM TypeCorrect == Spec => []TypeOK
<1>1. Types => TypeOK
  BY TypeParts
<1>2. QED
  BY Inductive, <1>1, PTL

\* A handler that has returned has closed both WebSockets, on every path.
THEOREM ReleasesBoth == Spec => []Released
<1>1. Phases => Released
  BY DEF Phases, Released, Ends
<1>2. QED
  BY Inductive, <1>1, PTL

LEMMA StepMaps ==
  ASSUME Types, Phases, Order, [Next]_vars
  PROVE  [Channel!Next]_<<sent, got, {e \in Ends : far[e] = "gone"}>>
<1> DEFINE gone == {e \in Ends : far[e] = "gone"}
<1>0. Stable
  BY StepStable
<1>1. ASSUME UNCHANGED <<sent, got, far>>
      PROVE  UNCHANGED <<sent, got, gone>>
  BY <1>1
<1>2. CASE MissingId \/ Dialed \/ Upgrade \/ DialFails \/ UpgradeFails \/ ProcessEnds
  BY <1>1, <1>2
     DEF MissingId, Dialed, Upgrade, DialFails, UpgradeFails, ProcessEnds, farVars
<1>3. ASSUME NEW d \in Dirs, PumpStep(d) PROVE UNCHANGED <<sent, got, gone>>
  BY <1>1, <1>3 DEF PumpStep, Read, ReadFails, Write, WriteFails, farVars
<1>4. ASSUME NEW g \in Goroutines, Shutdown(g) PROVE UNCHANGED <<sent, got, gone>>
  BY <1>1, <1>4 DEF Shutdown, CloseBrowser, CloseGw, AwaitShutdown, farVars
<1>5. CASE Dial \/ GatewayAnswers
  <2>1. /\ far["gw"] \in {"none", "opening"} /\ sent' = sent /\ got' = got
        /\ \E x \in {"opening", "there", "refused"} : far' = [far EXCEPT !["gw"] = x]
    BY <1>5 DEF Dial, GatewayAnswers, Phases, Goto
  <2>2. gone' = gone
    BY <2>1 DEF Types, ControlOK
  <2>3. QED
    BY <2>1, <2>2
<1>6. ASSUME NEW d \in Dirs, Sends(d) PROVE Channel!Send(d)
  <2>1. PICK f \in Spoken(d) : sent' = [sent EXCEPT ![d] = Append(@, f)]
    BY <1>6 DEF Sends
  <2>2. f \in Frame[d]
    BY DEF Spoken
  <2>3. From[d] \notin gone /\ got' = got /\ far' = far
    BY <1>6 DEF Sends, relayVars
  <2>4. QED
    BY <2>1, <2>2, <2>3 DEF Channel!Send
<1>7. ASSUME NEW d \in Dirs, Takes(d) PROVE Channel!Deliver(d)
  <2>1. /\ Len(got[d]) < Len(sent[d])
        /\ got' = [got EXCEPT ![d] = Append(@, sent[d][Len(@) + 1])]
    BY <1>0, <1>7, TakesOrder
  <2>2. To[d] \notin gone /\ sent' = sent /\ far' = far
    BY <1>7 DEF Takes, relayVars
  <2>3. QED
    BY <2>1, <2>2 DEF Channel!Deliver
<1>8. ASSUME NEW e \in Ends, Leaves(e) \/ Notices(e) PROVE Channel!Leave
  <2>1. /\ far[e] = "there" /\ far' = [far EXCEPT ![e] = "gone"] /\ sent' = sent /\ got' = got
    BY <1>8 DEF Leaves, Notices
  <2>2. e \in Ends \ gone /\ gone' = gone \union {e}
    BY <2>1 DEF Types, ControlOK
  <2>3. QED
    BY <2>1, <2>2 DEF Channel!Leave
<1>9. CASE UNCHANGED vars
  BY <1>1, <1>9 DEF vars, farVars
<1>10. QED
  BY <1>2, <1>3, <1>4, <1>5, <1>6, <1>7, <1>8, <1>9
     DEF Next, Handler, Terminated, Channel!Next

\* The relay implements the duplex channel: whatever closes when, what an end has
\* taken is the beginning of what the other has sent, frame types included.
THEOREM RelayRefinesDuplex == Spec => PassesFrames
<1>1. Init => Channel!Init
  BY DEF Init, Channel!Init, Empty, Ends
<1>2. Types /\ Phases /\ Order /\ [Next]_vars
        => [Channel!Next]_<<sent, got, {e \in Ends : far[e] = "gone"}>>
  BY StepMaps
<1>3. QED
  BY Inductive, <1>1, <1>2, PTL DEF Spec, PassesFrames, Channel!Spec

-----------------------------------------------------------------------------
(* Shutdown frees the pumps, and until something closes no frame is missing *)

\* Whoever runs shutdown is not done with it, unless the process has ended.
Closer == once = "running" => AllDone \/ \E g \in Goroutines : pc[g] = "closeGw"

\* A goroutine gives up only when a connection is closed or an end has gone, or when
\* there never was a Gateway to talk to.
Fallen ==
  \A g \in Goroutines : pc[g] \in Ended =>
    far["gw"] = "none" \/ \E e \in Ends : conn[e] = "closed" \/ far[e] = "gone"

\* Before the Gateway is dialled nobody has sent anything.
Silent ==
  far["gw"] = "none" =>
    /\ pc["handler"] \in {"start", "done"} /\ pc["up"] \in {"off", "done"}
    /\ reply # "upgraded"
    /\ \A d \in Dirs : sent[d] = <<>> /\ in[d] = <<>>

LEMMA InitRest == Init => Closer /\ Fallen /\ Silent
BY DEF Init, Closer, Fallen, Silent, Empty, Ended, Goroutines

\* Only the goroutine that closes the Gateway's connection leaves closeGw.
LEMMA CloserKeeps ==
  ASSUME Types, Phases, Closer, [Next]_vars
  PROVE  Closer'
<1>0. /\ pc \in [Goroutines -> Pcs] /\ Goroutines = {"handler", "up"}
      /\ "handler" \in Goroutines /\ "up" \in Goroutines
  BY DEF Types, ControlOK, Goroutines
<1>1. ASSUME once' = once,
             NEW g \in Goroutines, pc[g] \notin {"off", "closeGw", "done"},
             \A h \in Goroutines : h # g => pc'[h] = pc[h]
      PROVE  Closer'
  BY <1>1 DEF Closer, AllDone
<1>2. CASE MissingId \/ Dial \/ Dialed \/ DialFails \/ UpgradeFails
  <2>1. /\ once' = once /\ pc["handler"] \in {"start", "dialing", "upgrade"}
        /\ pc'["up"] = pc["up"]
    BY <1>0, <1>2, GotoFacts DEF MissingId, Dial, Dialed, DialFails, UpgradeFails, Pcs
  <2>2. QED
    BY <1>0, <1>1, <2>1
<1>3. CASE Upgrade
  <2>1. once' = once /\ pc["handler"] = "upgrade" /\ pc["up"] = "off"
    BY <1>3 DEF Upgrade, Phases
  <2>2. once # "running"
    BY <1>0, <2>1 DEF Closer, AllDone
  <2>3. QED
    BY <2>1, <2>2 DEF Closer
<1>4. ASSUME NEW d \in Dirs, PumpStep(d) PROVE Closer'
  <2>1. /\ once' = once /\ Pump[d] \in Goroutines /\ pc[Pump[d]] \in {"read", "write"}
        /\ \A h \in Goroutines : h # Pump[d] => pc'[h] = pc[h]
    BY <1>0, <1>4, GotoFacts, Wiring DEF PumpStep, Read, ReadFails, Write, WriteFails, Pcs
  <2>2. QED
    BY <1>1, <2>1
<1>5. ASSUME NEW g \in Goroutines, CloseBrowser(g) PROVE Closer'
  BY <1>0, <1>5, GotoFacts DEF CloseBrowser, Closer, Pcs
<1>6. ASSUME NEW g \in Goroutines, CloseGw(g) \/ AwaitShutdown(g) PROVE Closer'
  BY <1>6 DEF CloseGw, AwaitShutdown, Closer
<1>7. CASE ProcessEnds
  BY <1>7 DEF ProcessEnds, Closer, AllDone
<1>8. ASSUME UNCHANGED <<pc, once>> PROVE Closer'
  BY <1>8 DEF Closer, AllDone
<1>9. CASE GatewayAnswers \/ UNCHANGED vars
  BY <1>8, <1>9 DEF GatewayAnswers, vars, relayVars
<1>10. ASSUME NEW d \in Dirs, Sends(d) \/ Takes(d) PROVE Closer'
  BY <1>8, <1>10 DEF Sends, Takes, relayVars
<1>11. ASSUME NEW e \in Ends, Leaves(e) \/ Notices(e) PROVE Closer'
  BY <1>8, <1>11 DEF Leaves, Notices, relayVars
<1>12. QED
  BY <1>2, <1>3, <1>4, <1>5, <1>6, <1>7, <1>9, <1>10, <1>11
     DEF Next, Handler, Shutdown, Terminated

\* A goroutine that has given up had a reason to, and the reason stays.
LEMMA FallenKeeps ==
  ASSUME Types, Phases, Silent, Fallen, [Next]_vars
  PROVE  Fallen'
<1>0. /\ pc \in [Goroutines -> Pcs] /\ Goroutines = {"handler", "up"} /\ TypeOK
      /\ "handler" \in Goroutines /\ "up" \in Goroutines /\ Stable
      /\ "gw" \in Ends /\ "browser" \in Ends
  BY TypeParts, StepStable DEF Types, ControlOK, Goroutines, Ends
<1>1. ASSUME \A g \in Goroutines : pc'[g] \in Ended => pc[g] \in Ended,
             far["gw"] = "none" => far'["gw"] = "none"
      PROVE  Fallen'
  BY <1>0, <1>1 DEF Fallen, Stable
<1>2. ASSUME \E e \in Ends : conn'[e] = "closed" \/ far'[e] = "gone" PROVE Fallen'
  BY <1>2 DEF Fallen
<1>3. CASE MissingId
  BY <1>3 DEF MissingId, Phases, Fallen, Goto, farVars
<1>4. CASE Dial
  <2>1. /\ pc["handler"] = "start" /\ pc'["handler"] = "dialing" /\ pc'["up"] = pc["up"]
        /\ pc["up"] = "off"
    BY <1>0, <1>4, GotoFacts DEF Dial, Phases, Pcs
  <2>2. QED
    BY <1>0, <2>1 DEF Fallen, Ended
<1>5. CASE Dialed \/ Upgrade
  <2>1. \A g \in Goroutines : pc'[g] \in Ended => pc[g] \in Ended
    BY <1>0, <1>5, GotoFacts DEF Dialed, Upgrade, Ended, Pcs
  <2>2. far' = far
    BY <1>5 DEF Dialed, Upgrade, farVars
  <2>3. QED
    BY <1>1, <2>1, <2>2
<1>6. CASE DialFails \/ UpgradeFails
  <2>1. Close("gw")
    BY <1>6 DEF DialFails, UpgradeFails
  <2>2. conn'["gw"] = "closed"
    BY <1>0, <2>1, CloseFacts
  <2>3. QED
    BY <1>0, <1>2, <2>2
<1>7. ASSUME NEW d \in Dirs, Read(d) \/ Write(d) PROVE Fallen'
  <2>1. \A g \in Goroutines : pc'[g] \in Ended => pc[g] \in Ended
    BY <1>0, <1>7, GotoFacts, Wiring DEF Read, Write, Ended, Pcs
  <2>2. far' = far
    BY <1>7 DEF Read, Write, farVars
  <2>3. QED
    BY <1>1, <2>1, <2>2
<1>8. ASSUME NEW d \in Dirs, ReadFails(d) \/ WriteFails(d) PROVE Fallen'
  <2>1. \E e \in Ends : conn[e] = "closed" \/ far[e] = "gone"
    BY <1>8, Wiring DEF ReadFails, WriteFails
  <2>2. UNCHANGED <<conn, far>>
    BY <1>8 DEF ReadFails, WriteFails, farVars
  <2>3. QED
    BY <1>2, <2>1, <2>2
<1>9. ASSUME NEW g \in Goroutines, CloseBrowser(g) \/ CloseGw(g) PROVE Fallen'
  <2>1. \E e \in Ends : Close(e)
    BY <1>0, <1>9 DEF CloseBrowser, CloseGw
  <2>2. \E e \in Ends : conn'[e] = "closed"
    BY <1>0, <2>1, CloseFacts
  <2>3. QED
    BY <1>2, <2>2
<1>10. ASSUME NEW g \in Goroutines, AwaitShutdown(g) PROVE Fallen'
  <2>1. once = "done" /\ conn' = conn
    BY <1>10 DEF AwaitShutdown
  <2>2. QED
    BY <1>0, <1>2, <2>1 DEF Phases
<1>11. CASE ProcessEnds
  <2>1. conn'["gw"] = "closed"
    BY <1>0, <1>11 DEF ProcessEnds
  <2>2. QED
    BY <1>0, <1>2, <2>1
<1>12. ASSUME UNCHANGED pc, far["gw"] = "none" => far'["gw"] = "none" PROVE Fallen'
  BY <1>1, <1>12
<1>13. CASE GatewayAnswers \/ UNCHANGED vars
  BY <1>12, <1>13 DEF GatewayAnswers, vars, relayVars, farVars
<1>14. ASSUME NEW d \in Dirs, Sends(d) \/ Takes(d) PROVE Fallen'
  BY <1>12, <1>14 DEF Sends, Takes, relayVars
<1>15. ASSUME NEW e \in Ends, Leaves(e) \/ Notices(e) PROVE Fallen'
  <2>1. pc' = pc /\ far' = [far EXCEPT ![e] = "gone"] /\ far[e] = "there"
    BY <1>15 DEF Leaves, Notices, relayVars
  <2>2. far["gw"] = "none" => far'["gw"] = "none"
    BY <1>0, <2>1 DEF Types, ControlOK
  <2>3. QED
    BY <1>12, <2>1, <2>2
<1>16. QED
  BY <1>3, <1>4, <1>5, <1>6, <1>7, <1>8, <1>9, <1>10, <1>11, <1>13, <1>14, <1>15
     DEF Next, Handler, PumpStep, Shutdown, Terminated

\* As long as no Gateway was dialled nothing is under way but the request itself.
LEMMA SilentKeeps ==
  ASSUME Types, Phases, Silent, [Next]_vars
  PROVE  Silent'
<1>0. /\ pc \in [Goroutines -> Pcs] /\ "handler" \in Goroutines /\ "up" \in Goroutines
      /\ far \in [Ends -> {"none", "opening", "there", "refused", "gone"}]
      /\ "gw" \in Ends /\ "browser" \in Ends /\ "gw" # "browser"
      /\ Goroutines = {"handler", "up"}
  BY DEF Types, ControlOK, Goroutines, Ends
<1>1. ASSUME far["gw"] = "none" => far'["gw"] # "none",
             far'["gw"] = "none" => far["gw"] = "none"
      PROVE  Silent'
  BY <1>1 DEF Silent
<1>2. ASSUME far' = far, far["gw"] # "none" PROVE Silent'
  BY <1>2 DEF Silent
<1>3. ASSUME UNCHANGED <<pc, reply, sent, in>>, far'["gw"] = "none" => far["gw"] = "none"
      PROVE  Silent'
  BY <1>3 DEF Silent
<1>4. CASE MissingId
  <2>1. /\ pc'["handler"] = "done" /\ pc'["up"] = pc["up"] /\ reply' # "upgraded"
        /\ UNCHANGED <<far, sent, in>>
    BY <1>0, <1>4, GotoFacts DEF MissingId, farVars, Pcs
  <2>2. QED
    BY <2>1 DEF Silent
<1>5. CASE Dial
  BY <1>0, <1>1, <1>5 DEF Dial
<1>6. CASE Dialed \/ DialFails \/ Upgrade \/ UpgradeFails
  <2>1. pc["handler"] \in {"dialing", "upgrade"} /\ far' = far
    BY <1>6 DEF Dialed, DialFails, Upgrade, UpgradeFails, Goto, farVars
  <2>2. QED
    BY <1>2, <2>1 DEF Silent
<1>7. ASSUME NEW d \in Dirs, PumpStep(d) PROVE Silent'
  <2>1. pc[Pump[d]] \in {"read", "write"} /\ Pump[d] \in {"handler", "up"} /\ far' = far
    BY <1>7, Wiring DEF PumpStep, Read, ReadFails, Write, WriteFails, Goto, farVars, Goroutines
  <2>2. QED
    BY <1>2, <2>1 DEF Silent
<1>8. ASSUME NEW g \in Goroutines, Shutdown(g) PROVE Silent'
  <2>1. pc[g] \in {"shutdown", "closeGw"} /\ far' = far
    BY <1>8 DEF Shutdown, CloseBrowser, CloseGw, AwaitShutdown, Goto, farVars
  <2>2. QED
    BY <1>0, <1>2, <2>1 DEF Silent
<1>9. CASE ProcessEnds
  <2>1. /\ pc'["handler"] = "done" /\ pc'["up"] = "done" /\ UNCHANGED <<reply, far, sent>>
        /\ \A d \in Dirs : in'[d] = <<>>
    BY <1>0, <1>9, ProcessEndsFacts DEF ProcessEnds, farVars
  <2>2. QED
    BY <2>1 DEF Silent
<1>10. CASE GatewayAnswers
  <2>1. far["gw"] = "opening" /\ far'["gw"] \in {"there", "refused"}
    BY <1>0, <1>10 DEF GatewayAnswers
  <2>2. QED
    BY <1>1, <2>1
<1>11. ASSUME NEW d \in Dirs, Sends(d) PROVE Silent'
  <2>1. /\ far' = far /\ far[From[d]] = "there" /\ (d = "up" => reply = "upgraded")
        /\ d = "up" \/ d = "down"
    BY <1>11 DEF Sends, Dirs
  <2>2. far["gw"] # "none"
    BY <2>1, Wiring DEF Silent
  <2>3. QED
    BY <1>2, <2>1, <2>2
<1>12. ASSUME NEW d \in Dirs, Takes(d) PROVE Silent'
  BY <1>3, <1>12 DEF Takes, relayVars
<1>13. ASSUME NEW e \in Ends, Leaves(e) PROVE Silent'
  <2>1. /\ far' = [far EXCEPT ![e] = "gone"] /\ far[e] = "there"
        /\ UNCHANGED <<pc, reply, sent>>
    BY <1>13 DEF Leaves, relayVars
  <2>2. CASE e = "gw"
    BY <1>0, <1>1, <2>1, <2>2
  <2>3. CASE e # "gw"
    <3>1. far'["gw"] = far["gw"]
      BY <1>0, <2>1, <2>3
    <3>2. \A d \in Dirs : in'[d] = in[d] \/ in'[d] \in Cut(in[d])
      BY <1>13 DEF Leaves, Types, QueuesOK, Queues
    <3>3. \A d \in Dirs : in[d] = <<>> => in'[d] = <<>>
      <4>1. \A q \in Cut(<<>>) : q = <<>>
        BY DEF Cut
      <4>2. QED
        BY <3>2, <4>1
    <3>4. QED
      BY <2>1, <3>1, <3>3 DEF Silent
  <2>4. QED
    BY <2>2, <2>3
<1>14. ASSUME NEW e \in Ends, Notices(e) PROVE Silent'
  <2>1. /\ far' = [far EXCEPT ![e] = "gone"] /\ UNCHANGED <<pc, reply, sent, in>>
    BY <1>14 DEF Notices, relayVars
  <2>2. far'["gw"] = "none" => far["gw"] = "none"
    BY <1>0, <2>1
  <2>3. QED
    BY <1>3, <2>1, <2>2
<1>15. CASE UNCHANGED vars
  BY <1>3, <1>15 DEF vars, relayVars, farVars
<1>16. QED
  BY <1>4, <1>5, <1>6, <1>7, <1>8, <1>9, <1>10, <1>11, <1>12, <1>13, <1>14, <1>15
     DEF Next, Handler, Terminated

THEOREM RestInvariance == Spec => [](Closer /\ Fallen /\ Silent)
<1>1. Types /\ Phases /\ Closer /\ Fallen /\ Silent /\ [Next]_vars => (Closer /\ Fallen /\ Silent)'
  BY CloserKeeps, FallenKeeps, SilentKeeps
<1>2. QED
  BY InitRest, <1>1, Inductive, PTL DEF Spec

\* Once a goroutine has called shutdown no other waits for an end, for every size of the
\* buffers: what Teardown rests on.
THEOREM PumpsFreed == Spec => []ShutdownFrees
<1>1. ASSUME Types, Phases, Closer PROVE ShutdownFrees
  <2> SUFFICES ASSUME once # "unused", NEW g \in Goroutines, Blocked(g)
               PROVE  \E h \in Goroutines : pc[h] = "closeGw"
    BY DEF ShutdownFrees
  <2>1. CASE once = "running"
    <3>1. pc[g] \in {"read", "write", "shutdown"}
      BY DEF Blocked
    <3>2. ~AllDone
      BY <3>1 DEF AllDone
    <3>3. QED
      BY <1>1, <2>1, <3>2 DEF Closer
  <2>2. CASE once = "done"
    <3>1. \A e \in Ends : conn[e] = "closed"
      BY <1>1, <2>2 DEF Phases, Ends
    <3>2. ~Blocked(g)
      BY <2>2, <3>1, Wiring DEF Blocked
    <3>3. QED
      BY <3>2
  <2>3. QED
    BY <1>1, <2>1, <2>2 DEF Types, ControlOK
<1>2. QED
  BY <1>1, Inductive, RestInvariance, PTL

\* Where the elements of a concatenation come from.
LEMMA Joined ==
  ASSUME NEW S, NEW a \in Seq(S), NEW b \in Seq(S), NEW q, q = a \o b
  PROVE  /\ q \in Seq(S) /\ Len(q) = Len(a) + Len(b)
         /\ \A i \in 1..Len(q) : q[i] = IF i <= Len(a) THEN a[i] ELSE b[i - Len(a)]
OBVIOUS

\* Sequences with the same elements are the same.
LEMMA SameElements ==
  ASSUME NEW S, NEW p \in Seq(S), NEW q \in Seq(S), Len(p) = Len(q),
         \A i \in 1..Len(p) : p[i] = q[i]
  PROVE  p = q
OBVIOUS

\* A beginning of s, and what comes next in s, together are a beginning of s.
LEMMA Extended ==
  ASSUME NEW S, NEW p \in Seq(S), NEW b \in Seq(S), NEW s \in Seq(S), NEW q, q = p \o b,
         \A i \in 1..Len(p) : p[i] = s[i],
         \A i \in 1..Len(b) : b[i] = s[Len(p) + i]
  PROVE  /\ q \in Seq(S) /\ Len(q) = Len(p) + Len(b)
         /\ \A i \in 1..Len(q) : q[i] = s[i]
<1>1. /\ q \in Seq(S) /\ Len(q) = Len(p) + Len(b)
      /\ \A i \in 1..Len(q) : q[i] = IF i <= Len(p) THEN p[i] ELSE b[i - Len(p)]
  BY Joined
<1>2. Len(p) \in Nat /\ Len(b) \in Nat
  OBVIOUS
<1>3. ASSUME NEW i \in 1..Len(q) PROVE q[i] = s[i]
  <2>1. CASE i <= Len(p)
    BY <1>1, <1>2, <2>1
  <2>2. CASE i > Len(p)
    <3>1. i - Len(p) \in 1..Len(b) /\ Len(p) + (i - Len(p)) = i
      BY <1>1, <1>2, <2>2
    <3>2. b[i - Len(p)] = s[Len(p) + (i - Len(p))]
      BY <3>1
    <3>3. q[i] = b[i - Len(p)]
      BY <1>1, <1>2, <2>2
    <3>4. QED
      BY <3>1, <3>2, <3>3
  <2>3. QED
    BY <1>1, <1>2, <2>1, <2>2
<1>4. QED
  BY <1>1, <1>3

\* What lies where in what was sent makes up what was sent, if nothing is lost.
LEMMA Assembled ==
  ASSUME NEW S, NEW a \in Seq(S), NEW b \in Seq(S), NEW c \in Seq(S), NEW e \in Seq(S),
         NEW s \in Seq(S), Ahead(a, b, s), Behind(a, b, c, e, s), All(a, b, c, e, s)
  PROVE  s = a \o b \o c \o e
<1>0. PICK ab, abc, q : ab = a \o b /\ abc = ab \o c /\ q = abc \o e
  OBVIOUS
<1>1. /\ ab \in Seq(S) /\ Len(ab) = Len(a) + Len(b)
      /\ \A i \in 1..Len(ab) : ab[i] = s[i]
  <2>1. /\ \A i \in 1..Len(a) : a[i] = s[i]
        /\ \A i \in 1..Len(b) : b[i] = s[Len(a) + i]
    BY DEF Ahead
  <2>2. QED
    BY <1>0, <2>1, Extended
<1>2. /\ abc \in Seq(S) /\ Len(abc) = Len(a) + Len(b) + Len(c)
      /\ \A i \in 1..Len(abc) : abc[i] = s[i]
  <2>1. \A i \in 1..Len(c) : c[i] = s[Len(ab) + i]
    BY <1>1 DEF Behind
  <2>2. QED
    BY <1>0, <1>1, <2>1, Extended
<1>3. /\ q \in Seq(S) /\ Len(q) = Len(a) + Len(b) + Len(c) + Len(e)
      /\ \A i \in 1..Len(q) : q[i] = s[i]
  <2>1. \A i \in 1..Len(e) : e[i] = s[Len(abc) + i]
    BY <1>2 DEF Behind
  <2>2. QED
    BY <1>0, <1>2, <2>1, Extended
<1>4. s = q
  BY <1>3, SameElements DEF All
<1>5. QED
  BY <1>0, <1>4

\* Until a connection is closed or an end has gone, every frame sent has arrived or is on
\* its way, for every size of the buffers: what WindowFollows rests on.
THEOREM EveryFrameKept == Spec => []NoneMissing
<1>1. ASSUME Types, Phases, Order, Fallen, Silent PROVE NoneMissing
  <2> SUFFICES ASSUME \A e \in Ends : conn[e] # "closed" /\ far[e] # "gone", NEW d \in Dirs
               PROVE  sent[d] = got[d] \o out[d] \o hand[d] \o in[d]
    BY DEF NoneMissing
  <2>1. /\ got[d] \in Seq(AnyFrame) /\ out[d] \in Seq(AnyFrame) /\ hand[d] \in Seq(AnyFrame)
        /\ in[d] \in Seq(AnyFrame) /\ sent[d] \in Seq(AnyFrame)
    BY <1>1, OneQueue
  <2>2. InOrder(d)
    BY <1>1 DEF Order
  <2>3. CASE far["gw"] = "none"
    <3>1. sent[d] = <<>> /\ in[d] = <<>>
      BY <1>1, <2>3 DEF Silent
    <3>2. pc[Pump[d]] # "write"
      BY <1>1, <2>3 DEF Silent, Pump, Dirs
    <3>3. hand[d] = <<>>
      BY <1>1, <2>1, <3>2 DEF Types, HandsOK
    <3>4. got[d] = <<>> /\ out[d] = <<>>
      <4>1. Len(got[d]) \in Nat /\ Len(out[d]) \in Nat /\ Len(sent[d]) = 0
        BY <2>1, <3>1
      <4>2. Len(got[d]) + Len(out[d]) <= Len(sent[d])
        BY <2>2 DEF InOrder, Ahead
      <4>3. Len(got[d]) = 0 /\ Len(out[d]) = 0
        <5>1. \A m, n, k \in Nat : (k = 0 /\ m + n <= k) => (m = 0 /\ n = 0)
          OBVIOUS
        <5>2. Len(sent[d]) \in Nat
          BY <2>1
        <5>3. QED
          BY <4>1, <4>2, <5>1, <5>2
      <4>4. QED
        BY <2>1, <4>3
    <3>5. <<>> \o <<>> \o <<>> \o <<>> = <<>>
      OBVIOUS
    <3>6. QED
      BY <3>1, <3>3, <3>4, <3>5
  <2>4. CASE far["gw"] # "none"
    <3>1. Whole(d) /\ Live(d)
      BY <1>1, <2>4, Wiring DEF Whole, Live, Fallen, Ended
    <3>2. /\ Ahead(got[d], out[d], sent[d])
          /\ Behind(got[d], out[d], hand[d], in[d], sent[d])
          /\ All(got[d], out[d], hand[d], in[d], sent[d])
      BY <2>2, <3>1 DEF InOrder
    <3>3. PICK a, b, c, e, s \in Seq(AnyFrame) :
            a = got[d] /\ b = out[d] /\ c = hand[d] /\ e = in[d] /\ s = sent[d]
      BY <2>1
    <3>4. Ahead(a, b, s) /\ Behind(a, b, c, e, s) /\ All(a, b, c, e, s)
      BY <3>2, <3>3
    <3>5. s = a \o b \o c \o e
      BY <3>4, Assembled
    <3>6. QED
      BY <3>3, <3>5
  <2>5. QED
    BY <2>3, <2>4
<1>2. QED
  BY <1>1, Inductive, RestInvariance, PTL
=============================================================================
