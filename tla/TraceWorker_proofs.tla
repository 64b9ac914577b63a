-------------------------- MODULE TraceWorker_proofs --------------------------
(***************************************************************************)
(* What holds of the trace worker for every set of targets, size cap and   *)
(* number of selections, losses and lines.  The inductive invariant adds   *)
(* to StreamsNeverFork, NeverGivenUp and AliveMeansConnected:              *)
(*   Started  nothing happens before a target is selected                  *)
(*   Locks    a handle granted but not yet kept is locked, differs from    *)
(*            the one kept, and was granted to one call only               *)
(*   Budget   what a selection or a lost connection can still become a     *)
(*            socket is counted, which bounds the sockets                  *)
(*   Order    captured lines are ordered within a file, before the pending *)
(*            ones, and no number is in two files                          *)
(***************************************************************************)
EXTENDS TraceWorker, FiniteSetTheorems, TLAPS

Open == [target : Targets, stage : {"awaiting", "granted", "refused", "resumed"}]
Sock == [target : Targets, state : Live \union {"closing", "closed"}]

\* TypeOK but for the bound on the number of sockets.
Types ==
  /\ currentId \in Targets \union {None}
  /\ opens \in Seq(Open) /\ sockets \in Seq(Sock)
  /\ Len(opens) <= MaxOpens
  /\ ws \in 0..Len(sockets) /\ timers \in Nat /\ cuts \in 0..MaxCuts
  /\ handle \in locked \union {None} /\ locked \subseteq Targets
  /\ file \in [Targets -> Seq(Line)] /\ pending \in Seq(Line)
  /\ received \in 0..MaxLines /\ alive \in BOOLEAN

Started ==
  /\ opens = <<>> => sockets = <<>> /\ timers = 0
  /\ opens # <<>> => currentId \in Targets

Locks ==
  /\ \A k \in DOMAIN opens :
       opens[k].stage = "granted" => opens[k].target \in locked /\ opens[k].target # handle
  /\ \A k, l \in DOMAIN opens :
       opens[k].stage = "granted" /\ opens[l].stage = "granted"
         /\ opens[k].target = opens[l].target => k = l

Closing == {i \in DOMAIN sockets : sockets[i].state = "closing"}

Budget ==
  Len(sockets) + timers + Cardinality(Unfinished) + Cardinality(Closing) <= 2 * Len(opens) + cuts

\* Lines of the files f, then the lines p, numbered up to n.
Ordered(f, p, n) ==
  /\ \A t \in Targets : \A i, j \in DOMAIN f[t] : i < j => f[t][i].number < f[t][j].number
  /\ \A i, j \in DOMAIN p : i < j => p[i].number < p[j].number
  /\ \A t \in Targets : \A i \in DOMAIN f[t], j \in DOMAIN p : f[t][i].number < p[j].number
  /\ \A t, u \in Targets :
       t # u => \A i \in DOMAIN f[t], j \in DOMAIN f[u] : f[t][i].number # f[u][j].number
  /\ \A t \in Targets : \A i \in DOMAIN f[t] : f[t][i].number <= n
  /\ \A j \in DOMAIN p : p[j].number <= n

Order == Ordered(file, pending, received)

Streams == StreamsNeverFork /\ NeverGivenUp

IInv == Types /\ Started /\ Locks /\ Budget /\ Streams /\ Order /\ AliveMeansConnected

-----------------------------------------------------------------------------
(* The capture *)

LEMMA LineNumber == \A x \in Line : x.number \in Nat
  BY BoundsAssumption DEF Line

LEMMA Concatenated ==
  ASSUME NEW S, NEW a \in Seq(S), NEW b \in Seq(S), NEW q, q = a \o b
  PROVE  /\ q \in Seq(S) /\ DOMAIN q = 1..(Len(a) + Len(b))
         /\ \A i \in 1..Len(a) : q[i] = a[i]
         /\ \A i \in (Len(a) + 1)..(Len(a) + Len(b)) : q[i] = b[i - Len(a)]
  OBVIOUS

\* Two increasing sequences, the second above the first, put together.
LEMMA Increases ==
  ASSUME NEW a \in Seq(Line), NEW b \in Seq(Line), NEW q, q = a \o b,
         \A i, j \in DOMAIN a : i < j => a[i].number < a[j].number,
         \A i, j \in DOMAIN b : i < j => b[i].number < b[j].number,
         \A i \in DOMAIN a, j \in DOMAIN b : a[i].number < b[j].number
  PROVE  \A i, j \in DOMAIN q : i < j => q[i].number < q[j].number
<1> DEFINE m == Len(a)
           n == Len(b)
<1>1. m \in Nat /\ n \in Nat /\ DOMAIN a = 1..m /\ DOMAIN b = 1..n
  OBVIOUS
<1>2. /\ DOMAIN q = 1..(m + n)
      /\ \A i \in 1..m : q[i] = a[i]
      /\ \A i \in (m + 1)..(m + n) : q[i] = b[i - m]
  BY Concatenated
<1> HIDE DEF m, n
<1> SUFFICES ASSUME NEW i \in 1..(m + n), NEW j \in 1..(m + n), i < j
             PROVE  q[i].number < q[j].number
  BY <1>2
<1>3. CASE j <= m
  <2>1. i \in 1..m /\ j \in 1..m
    BY <1>1, <1>3
  <2>2. q[i] = a[i] /\ q[j] = a[j]
    BY <1>2, <2>1
  <2>3. a[i].number < a[j].number
    BY <1>1, <2>1
  <2> QED
    BY <2>2, <2>3
<1>4. CASE i <= m /\ j > m
  <2>1. i \in 1..m /\ j \in (m + 1)..(m + n) /\ j - m \in 1..n
    BY <1>1, <1>4
  <2>2. q[i] = a[i] /\ q[j] = b[j - m]
    BY <1>2, <2>1
  <2>3. a[i].number < b[j - m].number
    BY <1>1, <2>1
  <2> QED
    BY <2>2, <2>3
<1>5. CASE i > m
  <2>1. /\ i \in (m + 1)..(m + n) /\ j \in (m + 1)..(m + n)
        /\ i - m \in 1..n /\ j - m \in 1..n /\ i - m < j - m
    BY <1>1, <1>5
  <2>2. q[i] = b[i - m] /\ q[j] = b[j - m]
    BY <1>2, <2>1
  <2> DEFINE k == i - m
             l == j - m
  <2>3. k \in DOMAIN b /\ l \in DOMAIN b /\ k < l
    BY <1>1, <2>1
  <2>4. q[i] = b[k] /\ q[j] = b[l]
    BY <2>2
  <2> HIDE DEF k, l
  <2>5. b[k].number < b[l].number
    BY <2>3
  <2> QED
    BY <2>4, <2>5
<1> QED
  BY <1>1, <1>3, <1>4, <1>5

\* The files after a flush of the lines p to the handle h.
LEMMA Flushed ==
  ASSUME NEW f \in [Targets -> Seq(Line)], NEW p \in Seq(Line), NEW h \in Targets,
         NEW n \in Nat, Ordered(f, p, n),
         NEW q, q = p \/ q = f[h] \o p, NEW f2, f2 = [f EXCEPT ![h] = q]
  PROVE  f2 \in [Targets -> Seq(Line)] /\ Ordered(f2, <<>>, n)
<1>1. f[h] \in Seq(Line) /\ q \in Seq(Line)
  <2>1. f[h] \in Seq(Line)
    OBVIOUS
  <2> QED
    BY <2>1, Concatenated
<1>2. /\ DOMAIN p = 1..Len(p) /\ Len(p) \in Nat /\ DOMAIN f[h] = 1..Len(f[h]) /\ Len(f[h]) \in Nat
      /\ \A i \in DOMAIN p : p[i] \in Line /\ p[i].number \in Nat
      /\ \A t \in Targets : \A i \in DOMAIN f[t] : f[t][i] \in Line /\ f[t][i].number \in Nat
  BY <1>1, LineNumber
<1>3. \A i \in DOMAIN q : \/ \E j \in DOMAIN p : q[i] = p[j]
                          \/ \E j \in DOMAIN f[h] : q[i] = f[h][j]
  <2>1. CASE q = p
    BY <2>1
  <2>2. CASE q = f[h] \o p
    <3> DEFINE a == f[h]
    <3>1. a \in Seq(Line)
      BY <1>1
    <3> HIDE DEF a
    <3>2. q = a \o p /\ DOMAIN a = 1..Len(a) /\ Len(a) \in Nat
      BY <2>2, <3>1 DEF a
    <3>3. \A i \in DOMAIN q : \/ i \in 1..Len(a) /\ q[i] = a[i]
                              \/ i - Len(a) \in 1..Len(p) /\ q[i] = p[i - Len(a)]
      <4>1. /\ DOMAIN q = 1..(Len(a) + Len(p))
            /\ \A i \in 1..Len(a) : q[i] = a[i]
            /\ \A i \in (Len(a) + 1)..(Len(a) + Len(p)) : q[i] = p[i - Len(a)]
        BY <3>1, <3>2, Concatenated
      <4>2. \A i \in 1..(Len(a) + Len(p)) :
              \/ i \in 1..Len(a)
              \/ i \in (Len(a) + 1)..(Len(a) + Len(p)) /\ i - Len(a) \in 1..Len(p)
        <5>1. Len(a) \in Nat /\ Len(p) \in Nat
          BY <1>2, <3>2
        <5> QED
          BY <5>1
      <4> QED
        BY <4>1, <4>2
    <3>4. \A i \in DOMAIN q : \/ \E j \in DOMAIN p : q[i] = p[j]
                              \/ \E j \in DOMAIN a : q[i] = a[j]
      BY <1>2, <3>2, <3>3
    <3> QED
      BY <3>4 DEF a
  <2> QED
    BY <2>1, <2>2
<1>4. \A i, j \in DOMAIN q : i < j => q[i].number < q[j].number
  <2>1. CASE q = p
    BY <2>1 DEF Ordered
  <2>2. CASE q = f[h] \o p
    BY <1>1, <2>2, Increases DEF Ordered
  <2> QED
    BY <2>1, <2>2
<1>5. f2 \in [Targets -> Seq(Line)] /\ f2[h] = q /\ \A t \in Targets : t # h => f2[t] = f[t]
  BY <1>1
<1>6. \A t \in Targets : t # h =>
        \A i \in DOMAIN f[t], j \in DOMAIN q : f[t][i].number # q[j].number
  BY <1>2, <1>3 DEF Ordered
<1>7. \A i \in DOMAIN q : q[i].number <= n
  BY <1>3 DEF Ordered
<1>8. \A t \in Targets : \A i, j \in DOMAIN f2[t] : i < j => f2[t][i].number < f2[t][j].number
  BY <1>4, <1>5 DEF Ordered
<1>9. \A t, u \in Targets :
        t # u => \A i \in DOMAIN f2[t], j \in DOMAIN f2[u] : f2[t][i].number # f2[u][j].number
  BY <1>5, <1>6 DEF Ordered
<1>10. \A t \in Targets : \A i \in DOMAIN f2[t] : f2[t][i].number <= n
  BY <1>5, <1>7 DEF Ordered
<1> QED
  BY <1>5, <1>8, <1>9, <1>10 DEF Ordered

LEMMA Received ==
  ASSUME NEW f \in [Targets -> Seq(Line)], NEW p \in Seq(Line), NEW n \in Nat, Ordered(f, p, n),
         NEW line \in Line, line.number = n + 1, NEW q, q = Append(p, line)
  PROVE  q \in Seq(Line) /\ Ordered(f, q, n + 1)
<1>1. /\ q \in Seq(Line) /\ DOMAIN q = 1..(Len(p) + 1) /\ DOMAIN p = 1..Len(p) /\ Len(p) \in Nat
      /\ q[Len(p) + 1] = line /\ \A i \in 1..Len(p) : q[i] = p[i]
  OBVIOUS
<1>2. /\ \A i \in DOMAIN p : p[i].number \in Nat
      /\ \A t \in Targets : \A i \in DOMAIN f[t] : f[t][i].number \in Nat
  BY LineNumber
<1>3. \A i, j \in DOMAIN q : i < j => q[i].number < q[j].number
  BY <1>1, <1>2 DEF Ordered
<1>4. \A t \in Targets : \A i \in DOMAIN f[t], j \in DOMAIN q : f[t][i].number < q[j].number
  BY <1>1, <1>2 DEF Ordered
<1>5. \A t \in Targets : \A i \in DOMAIN f[t] : f[t][i].number <= n + 1
  BY <1>2 DEF Ordered
<1>6. \A j \in DOMAIN q : q[j].number <= n + 1
  BY <1>1, <1>2 DEF Ordered
<1> QED
  BY <1>1, <1>3, <1>4, <1>5, <1>6 DEF Ordered

LEMMA FlushOrder ==
  ASSUME Types, NEW n \in Nat, NEW lines \in Seq(Line), Ordered(file, lines, n), Flush(lines)
  PROVE  /\ file' \in [Targets -> Seq(Line)] /\ pending' \in Seq(Line)
         /\ Ordered(file', pending', n)
<1>1. CASE handle = None \/ lines = <<>>
  BY <1>1 DEF Flush, Types
<1>2. CASE ~(handle = None \/ lines = <<>>)
  <2>1. handle \in Targets /\ file \in [Targets -> Seq(Line)]
    BY <1>2 DEF Types
  <2>2. PICK q : /\ q = lines \/ q = file[handle] \o lines
                 /\ file' = [file EXCEPT ![handle] = q]
    BY <1>2 DEF Flush
  <2>3. pending' = <<>>
    BY <1>2 DEF Flush
  <2>4. file' \in [Targets -> Seq(Line)] /\ Ordered(file', <<>>, n)
    BY <2>1, <2>2, Flushed
  <2> QED
    BY <2>3, <2>4
<1> QED
  BY <1>1, <1>2

\* A file opened anew loses what it held, and nothing else changes.
LEMMA Truncated ==
  ASSUME NEW f \in [Targets -> Seq(Line)], NEW p \in Seq(Line), NEW n \in Nat, Ordered(f, p, n),
         NEW h \in Targets, NEW f2, f2 = [f EXCEPT ![h] = <<>>]
  PROVE  f2 \in [Targets -> Seq(Line)] /\ Ordered(f2, p, n)
<1>1. f2 \in [Targets -> Seq(Line)] /\ f2[h] = <<>> /\ \A t \in Targets : t # h => f2[t] = f[t]
  OBVIOUS
<1>2. DOMAIN f2[h] = {}
  BY <1>1
<1> QED
  BY <1>1, <1>2 DEF Ordered

-----------------------------------------------------------------------------
(* Counting *)

LEMMA Indices ==
  ASSUME Types
  PROVE  /\ DOMAIN opens = 1..Len(opens) /\ Len(opens) \in Nat
         /\ DOMAIN sockets = 1..Len(sockets) /\ Len(sockets) \in Nat
         /\ \A k \in DOMAIN opens : opens[k] \in Open
         /\ \A i \in DOMAIN sockets : sockets[i] \in Sock
         /\ timers \in Nat /\ cuts \in Nat /\ received \in Nat
  BY BoundsAssumption DEF Types

LEMMA Finite ==
  ASSUME Types
  PROVE  /\ IsFiniteSet(Unfinished) /\ Cardinality(Unfinished) \in Nat
         /\ IsFiniteSet(Closing) /\ Cardinality(Closing) \in Nat
         /\ IsFiniteSet(Unclosed) /\ Cardinality(Unclosed) \in Nat
<1>1. /\ Unfinished \in SUBSET (1..Len(opens)) /\ Closing \in SUBSET (1..Len(sockets))
      /\ Unclosed \in SUBSET (1..Len(sockets))
  BY Indices DEF Unfinished, Closing, Unclosed
<1>2. Len(opens) \in Int /\ Len(sockets) \in Int /\ 1 \in Int
  BY Indices
<1>3. IsFiniteSet(1..Len(opens)) /\ IsFiniteSet(1..Len(sockets))
  BY <1>2, FS_Interval
<1>4. IsFiniteSet(Unfinished) /\ IsFiniteSet(Closing) /\ IsFiniteSet(Unclosed)
  BY <1>1, <1>3, FS_Subset
<1> QED
  BY <1>4, FS_CardinalityType

\* The bound on the sockets follows from the budget.
LEMMA SocketsBounded ==
  ASSUME Types, Budget
  PROVE  Len(sockets) <= 2 * MaxOpens + MaxCuts
<1>1. /\ Len(sockets) \in Nat /\ Len(opens) \in Nat /\ timers \in Nat /\ cuts \in Nat
      /\ MaxOpens \in Nat /\ MaxCuts \in Nat /\ Len(opens) <= MaxOpens /\ cuts <= MaxCuts
  BY Indices, BoundsAssumption DEF Types
<1>2. Cardinality(Unfinished) \in Nat /\ Cardinality(Closing) \in Nat
  BY Finite
<1> QED
  BY <1>1, <1>2 DEF Budget

\* One more element, or one less.
LEMMA Grown ==
  ASSUME NEW S, IsFiniteSet(S), NEW x, NEW T, T = S \union {x}
  PROVE  Cardinality(T) \in Nat /\ Cardinality(T) <= Cardinality(S) + 1
<1>1. Cardinality(S) \in Nat
  BY FS_CardinalityType
<1> QED
  BY <1>1, FS_AddElement

LEMMA Added ==
  ASSUME NEW S, IsFiniteSet(S), NEW x, x \notin S, NEW T, T = S \union {x}
  PROVE  Cardinality(T) \in Nat /\ Cardinality(T) = Cardinality(S) + 1
<1>1. Cardinality(S) \in Nat
  BY FS_CardinalityType
<1> QED
  BY <1>1, FS_AddElement

LEMMA Shrunk ==
  ASSUME NEW S, IsFiniteSet(S), NEW x \in S, NEW T, T = S \ {x}
  PROVE  Cardinality(T) \in Nat /\ Cardinality(T) = Cardinality(S) - 1
<1>1. IsFiniteSet(T) /\ Cardinality(T) = Cardinality(S) - 1
  BY FS_RemoveElement
<1> QED
  BY <1>1, FS_CardinalityType

-----------------------------------------------------------------------------
(* Selections *)

\* closeStream leaves every socket but one as it is, and that one is closing.
LEMMA Closed ==
  ASSUME Types, CloseStream
  PROVE  /\ sockets' \in Seq(Sock) /\ Len(sockets') = Len(sockets)
         /\ DOMAIN sockets' = 1..Len(sockets)
         /\ Closing' = Closing \/ Closing' = Closing \union {ws}
         /\ Unclosed' = Unclosed
<1> DEFINE n == Len(sockets)
           x == [sockets[ws] EXCEPT !.state = "closing"]
           dead == ws \in 1..n /\ sockets[ws].state \in Live
<1>1. /\ DOMAIN sockets = 1..n /\ n \in Nat /\ sockets \in Seq(Sock)
      /\ \A i \in 1..n : sockets[i] \in Sock
  BY Indices DEF Types
<1>2. sockets' = [i \in 1..n |-> IF i = ws /\ sockets[i].state \in Live
                                THEN [sockets[i] EXCEPT !.state = "closing"] ELSE sockets[i]]
  BY <1>1 DEF CloseStream
<1>3. \A i \in 1..n : [sockets[i] EXCEPT !.state = "closing"] \in Sock
                      /\ [sockets[i] EXCEPT !.state = "closing"].state = "closing"
  BY <1>1 DEF Sock
<1>4. sockets' \in [1..n -> Sock]
  BY <1>1, <1>2, <1>3
<1>5. sockets' \in Seq(Sock) /\ Len(sockets') = n /\ DOMAIN sockets' = 1..n
  BY <1>1, <1>4
<1>6. CASE dead
  <2>1. \A i \in 1..n : sockets'[i].state = "closing" <=> sockets[i].state = "closing" \/ i = ws
    BY <1>2, <1>3, <1>6 DEF Live
  <2>2. \A i \in 1..n : sockets'[i].state = "closed" <=> sockets[i].state = "closed"
    BY <1>2, <1>3, <1>6 DEF Live
  <2>3. Closing' = Closing \union {ws}
    BY <1>1, <1>5, <1>6, <2>1 DEF Closing
  <2>4. Unclosed' = Unclosed
    BY <1>1, <1>5, <2>2 DEF Unclosed
  <2> QED
    BY <1>5, <2>3, <2>4
<1>7. CASE ~dead
  <2>1. \A i \in 1..n : sockets'[i] = sockets[i]
    BY <1>2, <1>7
  <2> QED
    BY <1>1, <1>5, <2>1 DEF Closing, Unclosed
<1> QED
  BY <1>5, <1>6, <1>7

LEMMA OpenStep ==
  ASSUME IInv, NEW t \in Targets, OpenStream(t)
  PROVE  IInv'
<1> DEFINE n == Len(opens)
           new == [target |-> t, stage |-> "awaiting"]
<1>1. Types /\ Started /\ Locks /\ Budget /\ Streams /\ Order
  BY DEF IInv
<1>2. /\ CloseStream /\ n < MaxOpens /\ currentId' = t /\ alive' = FALSE
      /\ opens' = Append(opens, new) /\ UNCHANGED <<timers, cuts, received>>
  BY DEF OpenStream
<1>3. /\ DOMAIN opens = 1..n /\ n \in Nat /\ opens \in Seq(Open)
      /\ DOMAIN sockets = 1..Len(sockets) /\ Len(sockets) \in Nat
      /\ timers \in Nat /\ cuts \in Nat /\ received \in Nat
  BY <1>1, Indices DEF Types
<1>4. new \in Open /\ new.stage = "awaiting"
  BY DEF Open
<1>5. /\ opens' \in Seq(Open) /\ Len(opens') = n + 1 /\ DOMAIN opens' = 1..(n + 1)
      /\ opens'[n + 1] = new /\ \A k \in 1..n : opens'[k] = opens[k]
  <2> HIDE DEF new
  <2> QED
    BY <1>2, <1>3, <1>4
<1> HIDE DEF new
<1>6. /\ sockets' \in Seq(Sock) /\ Len(sockets') = Len(sockets)
      /\ DOMAIN sockets' = 1..Len(sockets)
      /\ Closing' = Closing \/ Closing' = Closing \union {ws}
      /\ Unclosed' = Unclosed
  BY <1>1, <1>2, Closed
<1>7. /\ file' \in [Targets -> Seq(Line)] /\ pending' \in Seq(Line)
      /\ Ordered(file', pending', received)
  <2>1. Flush(pending) /\ pending \in Seq(Line) /\ Ordered(file, pending, received)
    BY <1>1, <1>2 DEF CloseStream, Types, Order
  <2> QED
    BY <1>1, <1>3, <2>1, FlushOrder
<1>8. ws' = 0 /\ handle' = None /\ locked' = locked \ {handle}
  BY <1>2 DEF CloseStream
<1>9. Types'
  <2>1. Len(opens') <= MaxOpens /\ ws' \in 0..Len(sockets')
    BY <1>2, <1>3, <1>5, <1>6, <1>8, BoundsAssumption
  <2> QED
    BY <1>1, <1>2, <1>5, <1>6, <1>7, <1>8, <2>1 DEF Types
<1>10. Started'
  <2>1. opens' # <<>>
    BY <1>3, <1>5
  <2> QED
    BY <1>2, <2>1 DEF Started
<1>11. Locks'
  <2>1. \A k \in DOMAIN opens' : opens'[k].stage = "granted" =>
          k \in DOMAIN opens /\ opens'[k] = opens[k]
    BY <1>3, <1>4, <1>5
  <2>2. \A k \in DOMAIN opens : opens[k] \in Open
    BY <1>1, Indices
  <2>3. \A k \in DOMAIN opens : opens[k].target # None
    BY <2>2, BoundsAssumption DEF Open
  <2> QED
    BY <1>1, <1>8, <2>1, <2>3 DEF Locks
<1>12. Unfinished' = Unfinished \union {n + 1}
  BY <1>3, <1>4, <1>5 DEF Unfinished
<1>13. Budget'
  <2>1. /\ IsFiniteSet(Unfinished) /\ Cardinality(Unfinished) \in Nat
        /\ IsFiniteSet(Closing) /\ Cardinality(Closing) \in Nat
    BY <1>1, Finite
  <2>2. Cardinality(Unfinished') \in Nat /\ Cardinality(Unfinished') <= Cardinality(Unfinished) + 1
    BY <1>12, <2>1, Grown
  <2>3. Cardinality(Closing') \in Nat /\ Cardinality(Closing') <= Cardinality(Closing) + 1
    <3>1. CASE Closing' = Closing
      BY <2>1, <3>1
    <3>2. CASE Closing' = Closing \union {ws}
      BY <2>1, <3>2, Grown
    <3> QED
      BY <1>6, <3>1, <3>2
  <2>4. Len(sockets) + timers + Cardinality(Unfinished) + Cardinality(Closing) <= 2 * n + cuts
    BY <1>1 DEF Budget
  <2> DEFINE u == Cardinality(Unfinished)
             c == Cardinality(Closing)
             u2 == Cardinality(Unfinished')
             c2 == Cardinality(Closing')
  <2>5. /\ u \in Nat /\ c \in Nat /\ u2 \in Nat /\ c2 \in Nat /\ u2 <= u + 1 /\ c2 <= c + 1
        /\ Len(sockets) + timers + u + c <= 2 * n + cuts
    BY <2>1, <2>2, <2>3, <2>4
  <2> HIDE DEF u, c, u2, c2
  <2>6. Len(sockets) + timers + u2 + c2 <= 2 * (n + 1) + cuts
    BY <1>3, <2>5
  <2> QED
    BY <1>2, <1>5, <1>6, <2>6 DEF Budget, u2, c2
<1>14. Streams'
  <2>1. n + 1 \notin Unfinished /\ n + 1 \in Unfinished'
    BY <1>3, <1>12 DEF Unfinished
  <2>2. /\ Cardinality(Unfinished) \in Nat /\ Cardinality(Unclosed) \in Nat
        /\ Cardinality(Unfinished') \in Nat
        /\ Cardinality(Unfinished') = Cardinality(Unfinished) + 1
    BY <1>1, <1>12, <2>1, Finite, Added
  <2>3. StreamsNeverFork'
    <3> DEFINE u == Cardinality(Unfinished)
               c == Cardinality(Unclosed)
    <3>1. /\ u \in Nat /\ c \in Nat /\ Cardinality(Unfinished') = u + 1
          /\ Cardinality(Unclosed') = c
      BY <1>6, <2>2
    <3> HIDE DEF u, c
    <3>2. c = Cardinality(Unclosed) /\ u = Cardinality(Unfinished)
      BY DEF c, u
    <3>3. c + timers + u <= n
      BY <1>1, <3>2 DEF Streams, StreamsNeverFork
    <3>4. c + timers + (u + 1) <= n + 1
      BY <1>1, <1>3, <3>1, <3>3
    <3> QED
      BY <1>2, <1>5, <3>1, <3>4 DEF StreamsNeverFork
  <2>4. NeverGivenUp'
    BY <1>5, <2>1 DEF NeverGivenUp
  <2> QED
    BY <2>3, <2>4 DEF Streams
<1>15. Order' /\ AliveMeansConnected'
  BY <1>2, <1>7 DEF Order, AliveMeansConnected
<1> QED
  BY <1>9, <1>10, <1>11, <1>13, <1>14, <1>15 DEF IInv

\* The browser's answer moves a call on; only a handle that is granted is locked.
LEMMA AnswerStep ==
  ASSUME IInv, NEW k \in DOMAIN opens, HandleGranted(k) \/ HandleRefused(k)
  PROVE  IInv'
<1>1. Types /\ Started /\ Locks /\ Budget /\ Streams /\ Order /\ AliveMeansConnected
  BY DEF IInv
<1>2. PICK stage \in {"granted", "refused"} :
        /\ opens[k].stage = "awaiting" /\ opens' = [opens EXCEPT ![k].stage = stage]
        /\ IF stage = "granted"
           THEN opens[k].target \notin locked /\ locked' = locked \union {opens[k].target}
           ELSE locked' = locked
  BY DEF HandleGranted, HandleRefused, captureVars
<1>3. UNCHANGED <<currentId, sockets, ws, timers, cuts, handle, file, pending, received, alive>>
  BY DEF HandleGranted, HandleRefused, connVars, captureVars
<1>4. /\ DOMAIN opens = 1..Len(opens) /\ Len(opens) \in Nat /\ opens \in Seq(Open)
      /\ \A l \in DOMAIN opens : opens[l] \in Open
  BY <1>1, Indices DEF Types
<1> DEFINE x == [opens[k] EXCEPT !.stage = stage]
<1>5. x \in Open /\ x.stage = stage /\ x.target = opens[k].target
  BY <1>2, <1>4 DEF Open
<1>6. /\ opens' \in Seq(Open) /\ Len(opens') = Len(opens) /\ DOMAIN opens' = DOMAIN opens
      /\ opens'[k] = x /\ \A l \in DOMAIN opens : l # k => opens'[l] = opens[l]
  <2>1. opens' = [opens EXCEPT ![k] = x]
    BY <1>2
  <2> HIDE DEF x
  <2> QED
    BY <1>4, <1>5, <2>1
<1> HIDE DEF x
<1>7. opens[k].target \in Targets /\ locked \subseteq Targets /\ handle \in locked \union {None}
  BY <1>1, <1>4 DEF Open, Types
<1>8. Types'
  <2>1. locked' \subseteq Targets /\ locked \subseteq locked'
    BY <1>2, <1>7
  <2> QED
    BY <1>1, <1>3, <1>6, <2>1 DEF Types
<1>9. Started'
  <2>1. opens # <<>> /\ opens' # <<>>
    BY <1>4, <1>6
  <2> QED
    BY <1>1, <1>3, <2>1 DEF Started
<1>10. Locks'
  <2>1. \A l \in DOMAIN opens : l # k /\ opens'[l].stage = "granted" =>
          opens[l].stage = "granted" /\ opens'[l] = opens[l]
    BY <1>6
  <2>2. locked \subseteq locked'
    BY <1>2
  <2>3. CASE stage = "granted"
    <3>1. /\ opens[k].target \notin locked /\ opens[k].target \in locked'
          /\ opens[k].target # handle
      BY <1>2, <1>7, <2>3, BoundsAssumption
    <3> QED
      BY <1>1, <1>3, <1>5, <1>6, <2>1, <2>2, <3>1 DEF Locks
  <2>4. CASE stage = "refused"
    BY <1>1, <1>3, <1>5, <1>6, <2>1, <2>2, <2>4 DEF Locks
  <2> QED
    BY <1>2, <2>3, <2>4
<1>11. Unfinished' = Unfinished /\ Closing' = Closing /\ Unclosed' = Unclosed
  BY <1>2, <1>3, <1>5, <1>6 DEF Unfinished, Closing, Unclosed
<1>12. Budget' /\ Streams'
  <2>1. opens # <<>>
    BY <1>4
  <2> QED
    BY <1>1, <1>3, <1>6, <1>11, <2>1 DEF Budget, Streams, StreamsNeverFork, NeverGivenUp
<1>13. Order' /\ AliveMeansConnected'
  BY <1>1, <1>3 DEF Order, AliveMeansConnected
<1> QED
  BY <1>8, <1>9, <1>10, <1>12, <1>13 DEF IInv

-----------------------------------------------------------------------------
(* Connections *)

\* connect adds one live socket and changes no other.
LEMMA Connected ==
  ASSUME Types, currentId \in Targets, Connect
  PROVE  /\ sockets' \in Seq(Sock) /\ Len(sockets') = Len(sockets) + 1
         /\ ws' \in 0..Len(sockets') /\ DOMAIN sockets' = 1..Len(sockets')
         /\ \A i \in DOMAIN sockets : i \in DOMAIN sockets' /\ sockets'[i] = sockets[i]
         /\ Len(sockets') \in DOMAIN sockets'
         /\ sockets'[Len(sockets')].target = currentId /\ Closing' = Closing
         /\ Len(sockets') \notin Unclosed /\ Unclosed' = Unclosed \union {Len(sockets')}
<1> DEFINE n == Len(sockets)
           new == [target |-> currentId, state |-> "connecting"]
<1>1. DOMAIN sockets = 1..n /\ n \in Nat /\ sockets \in Seq(Sock)
  BY Indices DEF Types
<1>2. new \in Sock /\ new.state = "connecting" /\ new.target = currentId
  BY DEF Sock, Live
<1>3. sockets' = Append(sockets, new) /\ ws' = n + 1
  BY DEF Connect
<1> HIDE DEF new
<1>4. /\ sockets' \in Seq(Sock) /\ Len(sockets') = n + 1 /\ DOMAIN sockets' = 1..(n + 1)
      /\ sockets'[n + 1] = new /\ \A i \in 1..n : sockets'[i] = sockets[i]
  BY <1>1, <1>2, <1>3
<1>5. Closing' = Closing
  BY <1>1, <1>2, <1>4 DEF Closing
<1>6. n + 1 \notin Unclosed /\ Unclosed' = Unclosed \union {n + 1}
  BY <1>1, <1>2, <1>4 DEF Unclosed
<1>7. ws' \in 0..(n + 1) /\ n + 1 \in 1..(n + 1) /\ \A i \in 1..n : i \in 1..(n + 1)
  BY <1>1, <1>3
<1> QED
  BY <1>1, <1>2, <1>4, <1>5, <1>6, <1>7

\* A stream that becomes a socket: one call or one reconnect less, one socket more.
LEMMA StreamConnects ==
  ASSUME Types, Streams, currentId \in Targets, Connect, UNCHANGED currentId,
         Len(opens') = Len(opens),
         \/ timers' = timers /\ \E k \in Unfinished : Unfinished' = Unfinished \ {k}
         \/ timers # 0 /\ timers' = timers - 1 /\ Unfinished' = Unfinished
  PROVE  Streams'
<1>1. /\ Len(sockets') \in DOMAIN sockets' /\ sockets'[Len(sockets')].target = currentId
      /\ Len(sockets') \notin Unclosed /\ Unclosed' = Unclosed \union {Len(sockets')}
  BY Connected
<1> DEFINE u == Cardinality(Unfinished)
           c == Cardinality(Unclosed)
<1>2. /\ u \in Nat /\ c \in Nat /\ timers \in Nat /\ Len(opens) \in Nat
      /\ IsFiniteSet(Unfinished) /\ IsFiniteSet(Unclosed)
  BY Finite, Indices
<1>3. Cardinality(Unclosed') = c + 1
  BY <1>1, <1>2, Added
<1>4. StreamsNeverFork'
  <2>1. CASE timers' = timers /\ \E k \in Unfinished : Unfinished' = Unfinished \ {k}
    <3>1. Cardinality(Unfinished') \in Nat /\ Cardinality(Unfinished') = u - 1
      BY <1>2, <2>1, Shrunk
    <3>2. c = Cardinality(Unclosed) /\ u = Cardinality(Unfinished)
      OBVIOUS
    <3> HIDE DEF u, c
    <3>3. c + timers + u <= Len(opens)
      BY <3>2 DEF Streams, StreamsNeverFork
    <3>4. (c + 1) + timers + (u - 1) <= Len(opens)
      BY <1>2, <3>3
    <3> QED
      BY <1>3, <2>1, <3>1, <3>4 DEF StreamsNeverFork
  <2>2. CASE timers # 0 /\ timers' = timers - 1 /\ Unfinished' = Unfinished
    <3>1. c = Cardinality(Unclosed) /\ u = Cardinality(Unfinished) /\ Cardinality(Unfinished') = u
      BY <2>2
    <3> HIDE DEF u, c
    <3>2. c + timers + u <= Len(opens)
      BY <3>1 DEF Streams, StreamsNeverFork
    <3>3. (c + 1) + (timers - 1) + u <= Len(opens)
      BY <1>2, <3>2
    <3> QED
      BY <1>3, <2>2, <3>1, <3>3 DEF StreamsNeverFork
  <2> QED
    BY <2>1, <2>2
<1>5. NeverGivenUp'
  BY <1>1 DEF NeverGivenUp
<1> QED
  BY <1>4, <1>5 DEF Streams

LEMMA Counted ==
  ASSUME Types, Budget
  PROVE  /\ Len(sockets) \in Nat /\ timers \in Nat /\ Cardinality(Unfinished) \in Nat
         /\ Cardinality(Closing) \in Nat /\ 2 * Len(opens) + cuts \in Nat
         /\ Len(sockets) + timers + Cardinality(Unfinished) + Cardinality(Closing)
              <= 2 * Len(opens) + cuts
<1>1. Cardinality(Unfinished) \in Nat /\ Cardinality(Closing) \in Nat
  BY Finite
<1>2. Len(sockets) \in Nat /\ timers \in Nat /\ Len(opens) \in Nat /\ cuts \in Nat
  BY Indices
<1> QED
  BY <1>1, <1>2 DEF Budget

\* After the await the handle is kept, the file truncated and the socket opened.
LEMMA ResumeStep ==
  ASSUME IInv, NEW k \in DOMAIN opens, ResumeOpen(k)
  PROVE  IInv'
<1>1. Types /\ Started /\ Locks /\ Budget /\ Streams /\ Order /\ AliveMeansConnected
  BY DEF IInv
<1>2. /\ opens' = [opens EXCEPT ![k].stage = "resumed"] /\ Connect
      /\ UNCHANGED <<currentId, timers, cuts, locked, pending, received, alive>>
  BY DEF ResumeOpen
<1>3. /\ DOMAIN opens = 1..Len(opens) /\ Len(opens) \in Nat /\ opens \in Seq(Open)
      /\ DOMAIN sockets = 1..Len(sockets) /\ Len(sockets) \in Nat /\ received \in Nat
      /\ \A l \in DOMAIN opens : opens[l] \in Open
  BY <1>1, Indices DEF Types
<1> DEFINE x == [opens[k] EXCEPT !.stage = "resumed"]
<1>4. x \in Open /\ x.stage = "resumed" /\ opens[k].stage # "resumed"
  BY <1>3 DEF Open, ResumeOpen
<1>5. /\ opens' \in Seq(Open) /\ Len(opens') = Len(opens) /\ DOMAIN opens' = DOMAIN opens
      /\ opens'[k] = x /\ \A l \in DOMAIN opens : l # k => opens'[l] = opens[l]
  <2>1. opens' = [opens EXCEPT ![k] = x]
    BY <1>2
  <2> HIDE DEF x
  <2> QED
    BY <1>3, <1>4, <2>1
<1> HIDE DEF x
<1>6. opens # <<>> /\ opens' # <<>> /\ currentId \in Targets
  BY <1>1, <1>3, <1>5 DEF Started
<1>7. /\ sockets' \in Seq(Sock) /\ Len(sockets') = Len(sockets) + 1
      /\ ws' \in 0..Len(sockets') /\ DOMAIN sockets' = 1..Len(sockets')
      /\ \A i \in DOMAIN sockets : i \in DOMAIN sockets' /\ sockets'[i] = sockets[i]
      /\ Closing' = Closing
  BY <1>1, <1>2, <1>6, Connected
<1>8. /\ handle' \in locked' \union {None}
      /\ \A l \in DOMAIN opens : opens'[l].stage = "granted" => opens[l].target # handle'
      /\ file' \in [Targets -> Seq(Line)] /\ Ordered(file', pending', received')
  <2>0. \A l \in DOMAIN opens : opens[l].target # None
    BY <1>3, BoundsAssumption DEF Open
  <2>1. CASE /\ opens[k].stage = "granted" /\ handle' = opens[k].target
             /\ file' = [file EXCEPT ![opens[k].target] = <<>>]
    <3>1. opens[k].target \in locked /\ opens[k].target \in Targets
      BY <1>1, <1>3, <2>1 DEF Locks, Open
    <3>2. \A l \in DOMAIN opens : opens'[l].stage = "granted" => opens[l].target # handle'
      BY <1>1, <1>4, <1>5, <2>1 DEF Locks
    <3>3. file' \in [Targets -> Seq(Line)] /\ Ordered(file', pending, received)
      BY <1>1, <1>3, <2>1, <3>1, Truncated DEF Types, Order
    <3> QED
      BY <1>2, <2>1, <3>1, <3>2, <3>3
  <2>2. CASE opens[k].stage = "refused" /\ handle' = None /\ UNCHANGED file
    BY <1>1, <1>2, <2>0, <2>2 DEF Types, Order
  <2> QED
    BY <2>1, <2>2 DEF ResumeOpen
<1>9. Types'
  BY <1>1, <1>2, <1>5, <1>7, <1>8 DEF Types
<1>10. Started'
  BY <1>2, <1>6 DEF Started
<1>11. Locks'
  BY <1>1, <1>2, <1>4, <1>5, <1>8 DEF Locks
<1>12. Unfinished' = Unfinished \ {k} /\ k \in Unfinished
  BY <1>4, <1>5 DEF Unfinished
<1>13. Budget'
  <2>1. Cardinality(Unfinished') \in Nat /\ Cardinality(Unfinished') = Cardinality(Unfinished) - 1
    BY <1>1, <1>12, Finite, Shrunk
  <2>2. /\ Len(sockets) \in Nat /\ timers \in Nat /\ Cardinality(Unfinished) \in Nat
        /\ Cardinality(Closing) \in Nat /\ 2 * Len(opens) + cuts \in Nat
        /\ Len(sockets) + timers + Cardinality(Unfinished) + Cardinality(Closing)
             <= 2 * Len(opens) + cuts
    BY <1>1, Counted
  <2>3. /\ Len(sockets') = Len(sockets) + 1 /\ timers' = timers /\ Closing' = Closing
        /\ Len(opens') = Len(opens) /\ cuts' = cuts
    BY <1>2, <1>5, <1>7
  <2>4. Len(sockets') + timers' + Cardinality(Unfinished') + Cardinality(Closing')
          <= 2 * Len(opens') + cuts'
    BY <2>1, <2>2, <2>3
  <2> QED
    BY <2>4 DEF Budget
<1>14. Streams'
  BY <1>1, <1>2, <1>5, <1>6, <1>12, StreamConnects
<1>15. Order' /\ AliveMeansConnected'
  BY <1>1, <1>2, <1>7, <1>8 DEF Order, AliveMeansConnected
<1> QED
  BY <1>9, <1>10, <1>11, <1>13, <1>14, <1>15 DEF IInv

\* A reconnect that was due becomes a socket.
LEMMA TimerStep ==
  ASSUME IInv, TimerFires
  PROVE  IInv'
<1>1. Types /\ Started /\ Locks /\ Budget /\ Streams /\ Order /\ AliveMeansConnected
  BY DEF IInv
<1>2. /\ timers > 0 /\ timers' = timers - 1 /\ Connect
      /\ UNCHANGED <<currentId, opens, cuts, handle, locked, file, pending, received, alive>>
  BY DEF TimerFires, captureVars
<1>3. timers \in Nat /\ timers' \in Nat /\ timers # 0
  <2>1. timers \in Nat
    BY <1>1, Indices
  <2> QED
    BY <1>2, <2>1
<1>4. opens # <<>> /\ currentId \in Targets
  BY <1>1, <1>3 DEF Started
<1>5. /\ sockets' \in Seq(Sock) /\ Len(sockets') = Len(sockets) + 1
      /\ ws' \in 0..Len(sockets') /\ DOMAIN sockets' = 1..Len(sockets')
      /\ \A i \in DOMAIN sockets : i \in DOMAIN sockets' /\ sockets'[i] = sockets[i]
      /\ Closing' = Closing
  BY <1>1, <1>2, <1>4, Connected
<1>6. Types'
  BY <1>1, <1>2, <1>3, <1>5 DEF Types
<1>7. Started' /\ Locks' /\ Order' /\ Unfinished' = Unfinished
  BY <1>1, <1>2, <1>4 DEF Started, Locks, Order, Unfinished
<1>8. Budget'
  <2>1. /\ Len(sockets) \in Nat /\ timers \in Nat /\ Cardinality(Unfinished) \in Nat
        /\ Cardinality(Closing) \in Nat /\ 2 * Len(opens) + cuts \in Nat
        /\ Len(sockets) + timers + Cardinality(Unfinished) + Cardinality(Closing)
             <= 2 * Len(opens) + cuts
    BY <1>1, Counted
  <2>2. Len(sockets') + timers' + Cardinality(Unfinished') + Cardinality(Closing')
          <= 2 * Len(opens') + cuts'
    BY <1>2, <1>5, <1>7, <2>1
  <2> QED
    BY <2>2 DEF Budget
<1>9. Streams'
  BY <1>1, <1>2, <1>3, <1>4, <1>7, StreamConnects
<1>10. AliveMeansConnected'
  BY <1>1, <1>2, <1>5 DEF AliveMeansConnected
<1> QED
  BY <1>6, <1>7, <1>8, <1>9, <1>10 DEF IInv

\* One socket changes state and no other.
LEMMA StateSet ==
  ASSUME Types, NEW i \in DOMAIN sockets, NEW st \in Live \union {"closing", "closed"},
         sockets' = [sockets EXCEPT ![i].state = st]
  PROVE  /\ sockets' \in Seq(Sock) /\ Len(sockets') = Len(sockets)
         /\ DOMAIN sockets' = DOMAIN sockets /\ sockets'[i].state = st
         /\ \A j \in DOMAIN sockets : j # i => sockets'[j] = sockets[j]
<1> DEFINE x == [sockets[i] EXCEPT !.state = st]
<1>1. DOMAIN sockets = 1..Len(sockets) /\ Len(sockets) \in Nat /\ sockets \in Seq(Sock)
  BY Indices DEF Types
<1>2. x \in Sock /\ x.state = st
  <2>1. sockets[i] \in Sock
    BY Indices
  <2> QED
    BY <2>1 DEF Sock
<1>3. sockets' = [sockets EXCEPT ![i] = x]
  OBVIOUS
<1> HIDE DEF x
<1> QED
  BY <1>1, <1>2, <1>3

LEMMA SocketOpensStep ==
  ASSUME IInv, NEW i \in DOMAIN sockets, SocketOpens(i)
  PROVE  IInv'
<1>1. Types /\ Started /\ Locks /\ Budget /\ Streams /\ Order /\ AliveMeansConnected
  BY DEF IInv
<1>2. /\ sockets[i].state = "connecting" /\ sockets' = [sockets EXCEPT ![i].state = "open"]
      /\ UNCHANGED <<currentId, opens, ws, timers, cuts, handle, locked, file, pending,
                     received, alive>>
  BY DEF SocketOpens, captureVars
<1>3. /\ sockets' \in Seq(Sock) /\ Len(sockets') = Len(sockets)
      /\ DOMAIN sockets' = DOMAIN sockets /\ sockets'[i].state = "open"
      /\ \A j \in DOMAIN sockets : j # i => sockets'[j] = sockets[j]
  BY <1>1, <1>2, StateSet DEF Live
<1>4. Closing' = Closing /\ Unclosed' = Unclosed /\ Unfinished' = Unfinished
  BY <1>2, <1>3 DEF Closing, Unclosed, Unfinished
<1>5. Types'
  BY <1>1, <1>2, <1>3 DEF Types
<1>6. Started'
  <2>1. sockets = <<>> => sockets' = <<>>
    BY <1>1, <1>3
  <2> QED
    BY <1>1, <1>2, <2>1 DEF Started
<1>7. Locks' /\ Order'
  BY <1>1, <1>2 DEF Locks, Order
<1>8. Budget' /\ Streams'
  <2>1. \A j \in DOMAIN sockets : sockets'[j].target = sockets[j].target
    BY <1>1, <1>2, Indices DEF Sock
  <2>2. NeverGivenUp'
    BY <1>1, <1>2, <1>3, <1>4, <2>1 DEF Streams, NeverGivenUp, Unclosed
  <2> QED
    BY <1>1, <1>2, <1>3, <1>4, <2>2 DEF Budget, Streams, StreamsNeverFork
<1>9. AliveMeansConnected'
  BY <1>1, <1>2, <1>3 DEF AliveMeansConnected
<1> QED
  BY <1>5, <1>6, <1>7, <1>8, <1>9 DEF IInv

\* A close event makes a reconnect due: of a socket that was closing, or of a live
\* one whose connection was lost.
LEMMA SocketClosesStep ==
  ASSUME IInv, NEW i \in DOMAIN sockets, SocketCloses(i)
  PROVE  IInv'
<1>1. Types /\ Started /\ Locks /\ Budget /\ Streams /\ Order
  BY DEF IInv
<1>2. /\ sockets' = [sockets EXCEPT ![i].state = "closed"]
      /\ alive' = FALSE /\ timers' = timers + 1
      /\ UNCHANGED <<currentId, opens, ws, handle, locked, file, pending, received>>
  BY DEF SocketCloses, captureVars
<1>3. /\ sockets' \in Seq(Sock) /\ Len(sockets') = Len(sockets)
      /\ DOMAIN sockets' = DOMAIN sockets /\ sockets'[i].state = "closed"
      /\ \A j \in DOMAIN sockets : j # i => sockets'[j] = sockets[j]
  BY <1>1, <1>2, StateSet
<1>4. timers \in Nat /\ cuts \in Nat /\ MaxCuts \in Nat /\ Unfinished' = Unfinished
  BY <1>1, <1>2, Indices, BoundsAssumption DEF Unfinished
<1>5. \/ i \in Closing /\ cuts' = cuts
      \/ i \in LiveSockets /\ i \notin Closing /\ cuts < MaxCuts /\ cuts' = cuts + 1
  BY DEF SocketCloses, Closes, Closing, LiveSockets, Live
<1>6. Closing' = Closing \ {i} /\ Unclosed' = Unclosed \ {i} /\ i \in Unclosed
  BY <1>3, <1>5 DEF Closing, Unclosed, LiveSockets, Live
<1>7. Types'
  <2>1. timers' \in Nat /\ cuts' \in 0..MaxCuts
    BY <1>1, <1>2, <1>4, <1>5 DEF Types
  <2> QED
    BY <1>1, <1>2, <1>3, <2>1 DEF Types
<1>8. Started'
  <2>1. opens # <<>>
    BY <1>1 DEF Started
  <2> QED
    BY <1>1, <1>2, <2>1 DEF Started
<1>9. Locks' /\ Order' /\ AliveMeansConnected'
  BY <1>1, <1>2 DEF Locks, Order, AliveMeansConnected
<1>10. Budget'
  <2>1. /\ Len(sockets) \in Nat /\ timers \in Nat /\ Cardinality(Unfinished) \in Nat
        /\ Cardinality(Closing) \in Nat /\ 2 * Len(opens) + cuts \in Nat
        /\ Len(sockets) + timers + Cardinality(Unfinished) + Cardinality(Closing)
             <= 2 * Len(opens) + cuts
    BY <1>1, Counted
  <2>2. Len(opens) \in Nat
    BY <1>1, Indices
  <2>3. CASE i \in Closing /\ cuts' = cuts
    <3>1. Cardinality(Closing') \in Nat /\ Cardinality(Closing') = Cardinality(Closing) - 1
      BY <1>1, <1>6, <2>3, Finite, Shrunk
    <3>2. Len(sockets') + timers' + Cardinality(Unfinished') + Cardinality(Closing')
            <= 2 * Len(opens') + cuts'
      BY <1>2, <1>3, <1>4, <2>1, <2>3, <3>1
    <3> QED
      BY <3>2 DEF Budget
  <2>4. CASE i \notin Closing /\ cuts' = cuts + 1
    <3>1. Cardinality(Closing') = Cardinality(Closing)
      BY <1>6, <2>4
    <3> DEFINE s == Len(sockets)
               u == Cardinality(Unfinished)
               c == Cardinality(Closing)
               o == 2 * Len(opens)
    <3>2. s \in Nat /\ u \in Nat /\ c \in Nat /\ o \in Nat /\ s + timers + u + c <= o + cuts
      BY <2>1, <2>2
    <3>3. /\ Len(sockets') = s /\ Cardinality(Unfinished') = u /\ Cardinality(Closing') = c
          /\ 2 * Len(opens') = o
      BY <1>2, <1>3, <1>4, <3>1
    <3> HIDE DEF s, u, c, o
    <3>4. s + (timers + 1) + u + c <= o + (cuts + 1)
      BY <1>4, <3>2
    <3> QED
      BY <1>2, <2>4, <3>3, <3>4 DEF Budget
  <2> QED
    BY <1>5, <2>3, <2>4
<1>11. Streams'
  <2> DEFINE u == Cardinality(Unfinished)
             c == Cardinality(Unclosed)
  <2>1. /\ u \in Nat /\ c \in Nat /\ Len(opens) \in Nat /\ IsFiniteSet(Unclosed)
    BY <1>1, Finite, Indices
  <2>2. /\ Cardinality(Unclosed') \in Nat /\ Cardinality(Unclosed') = c - 1
        /\ Cardinality(Unfinished') = u
    BY <1>4, <1>6, <2>1, Shrunk
  <2>3. c = Cardinality(Unclosed) /\ u = Cardinality(Unfinished)
    OBVIOUS
  <2> HIDE DEF u, c
  <2>4. c + timers + u <= Len(opens)
    BY <2>3 DEF IInv, Streams, StreamsNeverFork
  <2>5. (c - 1) + (timers + 1) + u <= Len(opens)
    BY <1>4, <2>1, <2>4
  <2>6. StreamsNeverFork'
    BY <1>1, <1>2, <2>2, <2>5 DEF StreamsNeverFork
  <2>7. NeverGivenUp'
    <3>1. timers + 1 > 0
      BY <1>4
    <3> QED
      BY <1>2, <3>1 DEF NeverGivenUp
  <2> QED
    BY <2>6, <2>7 DEF Streams
<1> QED
  BY <1>7, <1>8, <1>9, <1>10, <1>11 DEF IInv

-----------------------------------------------------------------------------
(* Lines *)

\* What a step that leaves the connections and the selections alone preserves.
LEMMA CaptureStep ==
  ASSUME IInv, UNCHANGED <<currentId, opens, sockets, ws, timers, cuts, handle, locked>>,
         received' \in 0..MaxLines, alive' \in BOOLEAN,
         alive' => \E i \in DOMAIN sockets : sockets[i].state = "open",
         file' \in [Targets -> Seq(Line)], pending' \in Seq(Line),
         Ordered(file', pending', received')
  PROVE  IInv'
<1>1. Types /\ Started /\ Locks /\ Budget /\ Streams
  BY DEF IInv
<1>2. Types' /\ Started' /\ Locks'
  BY <1>1 DEF Types, Started, Locks
<1>3. Unfinished' = Unfinished /\ Closing' = Closing /\ Unclosed' = Unclosed
  BY DEF Unfinished, Closing, Unclosed
<1>4. Budget' /\ Streams'
  BY <1>1, <1>3 DEF Budget, Streams, StreamsNeverFork, NeverGivenUp
<1>5. Order' /\ AliveMeansConnected'
  BY DEF Order, AliveMeansConnected
<1> QED
  BY <1>2, <1>4, <1>5 DEF IInv

LEMMA MessageStep ==
  ASSUME IInv, NEW i \in DOMAIN sockets, Message(i)
  PROVE  IInv'
<1>1. Types /\ Order
  BY DEF IInv
<1> DEFINE line == [from |-> sockets[i].target, number |-> received + 1]
           lines == Append(pending, line)
<1>2. /\ UNCHANGED <<currentId, opens, sockets, ws, timers, cuts, handle, locked>>
      /\ sockets[i].state = "open" /\ received < MaxLines /\ received' = received + 1
      /\ alive' \in {alive, TRUE}
  BY DEF Message, connVars
<1>3. received \in Nat /\ MaxLines \in Nat /\ alive \in BOOLEAN /\ pending \in Seq(Line)
  BY <1>1, Indices, BoundsAssumption DEF Types
<1>4. received' \in 0..MaxLines /\ received' \in Nat /\ received + 1 \in 1..MaxLines
  BY <1>2, <1>3
<1>5. line \in Line /\ line.number = received + 1
  <2>1. sockets[i].target \in Targets
    BY <1>1, Indices DEF Sock
  <2> QED
    BY <1>4, <2>1 DEF Line
<1>6. lines \in Seq(Line) /\ Ordered(file, lines, received')
  <2> HIDE DEF line
  <2>1. Ordered(file, pending, received) /\ file \in [Targets -> Seq(Line)]
    BY <1>1 DEF Order, Types
  <2> QED
    BY <1>2, <1>3, <1>5, <2>1, Received
<1>7. \/ handle = None /\ UNCHANGED <<file, pending>>
      \/ Flush(lines)
      \/ pending' = lines /\ UNCHANGED file
  BY DEF Message
<1> HIDE DEF line, lines
<1>8. /\ file' \in [Targets -> Seq(Line)] /\ pending' \in Seq(Line)
      /\ Ordered(file', pending', received')
  <2>1. CASE UNCHANGED <<file, pending>>
    <3>1. \A n \in {received'} : Ordered(file, pending, n)
      <4>1. /\ \A t \in Targets : \A j \in DOMAIN file[t] :
                 file[t][j].number \in Nat /\ file[t][j].number <= received
            /\ \A j \in DOMAIN pending : pending[j].number \in Nat /\ pending[j].number <= received
        BY <1>1, LineNumber DEF Types, Order, Ordered
      <4>2. /\ \A t \in Targets : \A j \in DOMAIN file[t] : file[t][j].number <= received'
            /\ \A j \in DOMAIN pending : pending[j].number <= received'
        BY <1>2, <1>3, <4>1
      <4> QED
        BY <1>1, <4>2 DEF Order, Ordered
    <3> QED
      BY <1>1, <2>1, <3>1 DEF Types
  <2>2. CASE Flush(lines)
    BY <1>1, <1>4, <1>6, <2>2, FlushOrder
  <2>3. CASE pending' = lines /\ UNCHANGED file
    BY <1>1, <1>6, <2>3 DEF Types
  <2> QED
    BY <1>7, <2>1, <2>2, <2>3
<1>9. alive' \in BOOLEAN
  BY <1>2, <1>3
<1> QED
  BY <1>2, <1>4, <1>8, <1>9, CaptureStep

LEMMA TickStep ==
  ASSUME IInv, Tick
  PROVE  IInv'
<1>1. Types /\ Order /\ AliveMeansConnected
  BY DEF IInv
<1>2. /\ UNCHANGED <<currentId, opens, sockets, ws, timers, cuts, handle, locked>>
      /\ received' = received /\ alive' = alive /\ Flush(pending)
  BY DEF Tick, connVars
<1>3. received \in Nat /\ pending \in Seq(Line) /\ Ordered(file, pending, received)
  BY <1>1, Indices DEF Types, Order
<1>4. /\ file' \in [Targets -> Seq(Line)] /\ pending' \in Seq(Line)
      /\ Ordered(file', pending', received)
  BY <1>1, <1>2, <1>3, FlushOrder
<1>5. /\ received' \in 0..MaxLines /\ alive' \in BOOLEAN
      /\ (alive' => \E i \in DOMAIN sockets : sockets[i].state = "open")
  BY <1>1, <1>2 DEF Types, AliveMeansConnected
<1> QED
  BY <1>2, <1>4, <1>5, CaptureStep

-----------------------------------------------------------------------------
(* The invariant *)

\* IInv is inductive: every task of the worker and every event of its sockets
\* preserves it (trace-worker.js:40-190).
THEOREM Inductive == Spec => []IInv
<1>1. Init => IInv
  <2> SUFFICES ASSUME Init
               PROVE  IInv
    OBVIOUS
  <2>1. /\ currentId = None /\ opens = <<>> /\ sockets = <<>> /\ ws = 0 /\ timers = 0 /\ cuts = 0
        /\ handle = None /\ locked = {} /\ file = [t \in Targets |-> <<>>] /\ pending = <<>>
        /\ received = 0 /\ alive = FALSE
    BY DEF Init
  <2>2. Types
    <3>1. /\ opens \in Seq(Open) /\ Len(opens) = 0 /\ sockets \in Seq(Sock) /\ Len(sockets) = 0
          /\ pending \in Seq(Line)
      BY <2>1
    <3>2. 0 <= MaxOpens /\ 0 \in 0..0 /\ 0 \in Nat /\ 0 \in 0..MaxCuts /\ 0 \in 0..MaxLines
      BY BoundsAssumption
    <3>3. file \in [Targets -> Seq(Line)]
      <4>1. <<>> \in Seq(Line)
        OBVIOUS
      <4> QED
        BY <2>1, <4>1
    <3> QED
      BY <2>1, <3>1, <3>2, <3>3 DEF Types
  <2>3. Unfinished = {} /\ Closing = {} /\ Unclosed = {}
    BY <2>1 DEF Unfinished, Closing, Unclosed
  <2>4. Budget /\ Streams
    <3>1. Cardinality({}) = 0
      BY FS_EmptySet
    <3>2. Len(sockets) = 0 /\ Len(opens) = 0
      BY <2>1
    <3> QED
      BY <2>1, <2>3, <3>1, <3>2 DEF Budget, Streams, StreamsNeverFork, NeverGivenUp
  <2>5. \A t \in Targets : DOMAIN file[t] = {}
    BY <2>1
  <2>6. DOMAIN pending = {}
    BY <2>1
  <2>7. Order
    BY <2>5, <2>6 DEF Order, Ordered
  <2> QED
    BY <2>1, <2>2, <2>4, <2>7 DEF IInv, Started, Locks, AliveMeansConnected
<1>2. IInv /\ [Next]_vars => IInv'
  <2> SUFFICES ASSUME IInv, [Next]_vars
               PROVE  IInv'
    OBVIOUS
  <2>1. ASSUME NEW t \in Targets, OpenStream(t) PROVE IInv'
    BY <2>1, OpenStep
  <2>2. ASSUME NEW k \in DOMAIN opens, HandleGranted(k) PROVE IInv'
    BY <2>2, AnswerStep
  <2>3. ASSUME NEW k \in DOMAIN opens, HandleRefused(k) PROVE IInv'
    BY <2>3, AnswerStep
  <2>4. ASSUME NEW k \in DOMAIN opens, ResumeOpen(k) PROVE IInv'
    BY <2>4, ResumeStep
  <2>5. ASSUME NEW i \in DOMAIN sockets, SocketOpens(i) PROVE IInv'
    BY <2>5, SocketOpensStep
  <2>6. ASSUME NEW i \in DOMAIN sockets, Message(i) PROVE IInv'
    BY <2>6, MessageStep
  <2>7. ASSUME NEW i \in DOMAIN sockets, SocketCloses(i) PROVE IInv'
    BY <2>7, SocketClosesStep
  <2>8. CASE TimerFires
    BY <2>8, TimerStep
  <2>9. CASE Tick
    BY <2>9, TickStep
  <2>10. CASE UNCHANGED vars
    BY <2>10 DEF vars, IInv, Types, Started, Locks, Budget, Streams, StreamsNeverFork,
       NeverGivenUp, Order, AliveMeansConnected, Unfinished, Closing, Unclosed
  <2> QED
    BY <2>1, <2>2, <2>3, <2>4, <2>5, <2>6, <2>7, <2>8, <2>9, <2>10 DEF Next
<1> QED
  BY <1>1, <1>2, PTL DEF Spec

\* Every variable keeps its type, and a selection costs at most two sockets and a
\* lost connection one more: reconnects do not multiply (trace-worker.js:88-98).
THEOREM TypeCorrect == Spec => []TypeOK
<1>1. IInv => TypeOK
  <2> SUFFICES ASSUME IInv
               PROVE  TypeOK
    OBVIOUS
  <2>1. Types /\ Len(sockets) <= 2 * MaxOpens + MaxCuts
    BY SocketsBounded DEF IInv
  <2> QED
    BY <2>1 DEF Types, TypeOK, Open, Sock
<1> QED
  BY <1>1, Inductive, PTL

\* A line is captured once and in order, whichever handles were swapped and flushed
\* between the awaits of openStream (trace-worker.js:63-78, 150-183).
THEOREM CaptureOrdered == Spec => []CaptureInOrder
<1>1. IInv => CaptureInOrder
  <2> SUFFICES ASSUME IInv
               PROVE  CaptureInOrder
    OBVIOUS
  <2>1. Ordered(file, pending, received) /\ file \in [Targets -> Seq(Line)] /\ pending \in Seq(Line)
    BY DEF IInv, Order, Types
  <2>2. ASSUME NEW t \in Targets, NEW all, all = file[t] \o pending
        PROVE  \A i, j \in DOMAIN all : i < j => all[i].number < all[j].number
    <3>1. file[t] \in Seq(Line)
      BY <2>1
    <3>2. /\ \A i, j \in DOMAIN file[t] : i < j => file[t][i].number < file[t][j].number
          /\ \A i, j \in DOMAIN pending : i < j => pending[i].number < pending[j].number
          /\ \A i \in DOMAIN file[t], j \in DOMAIN pending : file[t][i].number < pending[j].number
      BY <2>1 DEF Ordered
    <3> QED
      BY <2>1, <2>2, <3>1, <3>2, Increases
  <2>3. \A t, u \in Targets : t # u => Elements(file[t]) \intersect Elements(file[u]) = {}
    BY <2>1 DEF Ordered, Elements
  <2> QED
    BY <2>2, <2>3 DEF CaptureInOrder
<1> QED
  BY <1>1, Inductive, PTL

\* The status row never calls the tracer alive without an open connection, though
\* old sockets' events arrive after the stream has changed (trace-worker.js:60, 91).
THEOREM AliveMeansOpen == Spec => []AliveMeansConnected
<1>1. IInv => AliveMeansConnected
  BY DEF IInv
<1> QED
  BY <1>1, Inductive, PTL

\* However often targets are selected and connections lost, and in whatever order calls,
\* close events and timers come, there are at most as many streams as selections
\* (trace-worker.js:62, 80-98).
THEOREM StreamsCounted == Spec => []StreamsNeverFork
<1>1. IInv => StreamsNeverFork
  BY DEF IInv, Streams
<1> QED
  BY <1>1, Inductive, PTL

\* The selected target is subscribed to, or going to be (trace-worker.js:62-98): what
\* StaysSubscribed rests on.
THEOREM SubscriptionKept == Spec => []NeverGivenUp
<1>1. IInv => NeverGivenUp
  BY DEF IInv, Streams
<1> QED
  BY <1>1, Inductive, PTL

\* As long as the first target stays selected, a lost connection is replaced by one
\* new one and never by two (trace-worker.js:88-98).
THEOREM ReconnectsOnce == Spec => []OneReconnect
<1>1. IInv => OneReconnect
  <2> SUFFICES ASSUME IInv, Len(opens) <= 1
               PROVE  Cardinality(LiveSockets) <= 1
    BY DEF OneReconnect, OneSubscription
  <2>1. Types /\ StreamsNeverFork
    BY DEF IInv, Streams
  <2>2. LiveSockets \in SUBSET Unclosed
    BY DEF LiveSockets, Unclosed, Live
  <2>3. /\ IsFiniteSet(Unclosed) /\ Cardinality(Unclosed) \in Nat
        /\ Cardinality(Unfinished) \in Nat /\ timers \in Nat /\ Len(opens) \in Nat
    BY <2>1, Finite, Indices
  <2>4. /\ Cardinality(LiveSockets) <= Cardinality(Unclosed)
        /\ Cardinality(LiveSockets) \in Nat
    BY <2>2, <2>3, FS_Subset, FS_CardinalityType
  <2>5. Cardinality(Unclosed) + timers + Cardinality(Unfinished) <= Len(opens)
    BY <2>1 DEF StreamsNeverFork
  <2> QED
    BY <2>3, <2>4, <2>5
<1> QED
  BY <1>1, Inductive, PTL

-----------------------------------------------------------------------------
(* What a step may never lose *)

\* A flush keeps the lines given and those of a file the cap leaves room in.
LEMMA FlushKeeps ==
  ASSUME Types, NEW lines \in Seq(Line), Flush(lines), NEW t \in Targets,
         Len(file[t]) + Len(lines) <= Cap,
         NEW x, x \in Elements(file[t]) \/ x \in Elements(lines)
  PROVE  x \in Elements(pending') \/ \E u \in Targets : x \in Elements(file'[u])
<1>1. file \in [Targets -> Seq(Line)]
  BY DEF Types
<1>2. CASE handle = None \/ lines = <<>>
  <2>1. file' = file /\ pending' = lines
    BY <1>2 DEF Flush
  <2> QED
    BY <2>1
<1>3. CASE ~(handle = None \/ lines = <<>>)
  <2>1. handle \in Targets
    BY <1>3 DEF Types
  <2>2. PICK q : /\ q = IF Len(file[handle]) + Len(lines) > Cap THEN lines ELSE file[handle] \o lines
                 /\ file' = [file EXCEPT ![handle] = q]
    BY <1>3 DEF Flush
  <2>3. file'[handle] = q /\ \A u \in Targets : u # handle => file'[u] = file[u]
    BY <1>1, <2>1, <2>2
  <2>4. Elements(lines) \subseteq Elements(q) /\ (t = handle => Elements(file[t]) \subseteq Elements(q))
    <3>1. CASE Len(file[handle]) + Len(lines) > Cap
      <4>1. Len(file[t]) \in Nat /\ Len(lines) \in Nat /\ Cap \in Nat
        BY <1>1, BoundsAssumption
      <4> QED
        BY <2>2, <3>1, <4>1
    <3>2. CASE ~(Len(file[handle]) + Len(lines) > Cap)
      <4> DEFINE a == file[handle]
      <4>1. a \in Seq(Line)
        BY <1>1, <2>1
      <4> HIDE DEF a
      <4>2. q = a \o lines
        BY <2>2, <3>2 DEF a
      <4>3. /\ DOMAIN q = 1..(Len(a) + Len(lines)) /\ \A i \in 1..Len(a) : q[i] = a[i]
            /\ \A i \in (Len(a) + 1)..(Len(a) + Len(lines)) : q[i] = lines[i - Len(a)]
        BY <4>1, <4>2, Concatenated
      <4>4. /\ Len(a) \in Nat /\ Len(lines) \in Nat /\ DOMAIN a = 1..Len(a)
            /\ DOMAIN lines = 1..Len(lines)
        BY <4>1
      <4>5. ASSUME NEW i \in DOMAIN a PROVE \E j \in DOMAIN q : q[j] = a[i]
        <5>1. i \in DOMAIN q /\ q[i] = a[i]
          BY <4>3, <4>4
        <5> QED
          BY <5>1
      <4>6. ASSUME NEW i \in DOMAIN lines PROVE \E j \in DOMAIN q : q[j] = lines[i]
        <5>1. /\ Len(a) + i \in (Len(a) + 1)..(Len(a) + Len(lines)) /\ Len(a) + i \in DOMAIN q
              /\ (Len(a) + i) - Len(a) = i
          BY <4>3, <4>4
        <5>2. q[Len(a) + i] = lines[i]
          BY <4>3, <5>1
        <5> QED
          BY <5>1, <5>2
      <4> QED
        BY <4>5, <4>6 DEF Elements, a
    <3> QED
      BY <3>1, <3>2
  <2>5. CASE x \in Elements(file[t]) /\ t # handle
    BY <2>3, <2>5
  <2>6. CASE x \in Elements(lines) \/ t = handle
    <3>1. x \in Elements(q)
      BY <2>4, <2>6
    <3> QED
      BY <2>1, <2>3, <3>1
  <2> QED
    BY <2>5, <2>6
<1> QED
  BY <1>2, <1>3

\* A captured line disappears only when its target's file is opened anew or the size
\* cap is reached (trace-worker.js:71, 168-174).
THEOREM NothingLost == Spec => CaptureKept
<1> DEFINE Kept(x) == x \in Elements(pending') \/ \E u \in Targets : x \in Elements(file'[u])
           Opened(t) == \E k \in DOMAIN opens : /\ opens[k] = [target |-> t, stage |-> "granted"]
                                                /\ opens'[k].stage = "resumed"
           Step == \A t \in Targets : \A x \in Elements(file[t]) \union Elements(pending) :
                     \/ Kept(x) \/ Opened(t) \/ Len(file[t]) + Len(pending) + 1 > Cap
<1>1. IInv /\ [Next]_vars => Step
  <2> SUFFICES ASSUME IInv, [Next]_vars, NEW t \in Targets,
                      NEW x \in Elements(file[t]) \union Elements(pending),
                      ~(Len(file[t]) + Len(pending) + 1 > Cap), ~Opened(t)
               PROVE  Kept(x)
    OBVIOUS
  <2>1. Types /\ file \in [Targets -> Seq(Line)] /\ pending \in Seq(Line)
    BY DEF IInv, Types
  <2>2. /\ Len(file[t]) + Len(pending) <= Cap /\ Len(file[t]) + (Len(pending) + 1) <= Cap
        /\ Len(pending) \in Nat
    <3>1. Len(file[t]) \in Nat /\ Len(pending) \in Nat /\ Cap \in Nat
      BY <2>1, BoundsAssumption
    <3>2. \A a, b, c \in Nat : ~(a + b + 1 > c) => a + b <= c /\ a + (b + 1) <= c
      OBVIOUS
    <3> QED
      BY <3>1, <3>2
  <2>3. CASE Flush(pending)
    BY <2>1, <2>2, <2>3, FlushKeeps
  <2>4. CASE UNCHANGED <<file, pending>>
    BY <2>4
  <2>5. ASSUME NEW k \in DOMAIN opens, ResumeOpen(k) PROVE Kept(x)
    <3>1. pending' = pending
      BY <2>5 DEF ResumeOpen
    <3>2. CASE UNCHANGED file
      BY <2>4, <3>1, <3>2
    <3>3. CASE /\ opens[k].stage = "granted"
               /\ file' = [file EXCEPT ![opens[k].target] = <<>>]
      <4>1. opens[k] \in Open
        BY <2>1, Indices
      <4>2. opens'[k].stage = "resumed"
        BY <2>5, <4>1 DEF ResumeOpen, Open
      <4>3. opens[k].target # t
        BY <3>3, <4>1, <4>2 DEF Open
      <4>4. file'[t] = file[t]
        BY <2>1, <3>3, <4>3
      <4> QED
        BY <3>1, <4>4
    <3> QED
      BY <2>5, <3>2, <3>3 DEF ResumeOpen
  <2>6. ASSUME NEW i \in DOMAIN sockets, Message(i) PROVE Kept(x)
    <3> DEFINE line == [from |-> sockets[i].target, number |-> received + 1]
               lines == Append(pending, line)
    <3>1. line \in Line
      <4>1. sockets[i].target \in Targets
        BY <2>1, Indices DEF Sock
      <4>2. received + 1 \in 1..MaxLines
        BY <2>1, <2>6, BoundsAssumption DEF Message, Types
      <4> QED
        BY <4>1, <4>2 DEF Line
    <3>2. \/ UNCHANGED <<file, pending>>
          \/ Flush(lines)
          \/ pending' = lines /\ UNCHANGED file
      BY <2>6 DEF Message
    <3> HIDE DEF line
    <3>3. lines \in Seq(Line) /\ Len(lines) = Len(pending) + 1
          /\ \A j \in DOMAIN pending : j \in DOMAIN lines /\ lines[j] = pending[j]
      BY <2>1, <3>1
    <3> HIDE DEF lines
    <3>4. Elements(pending) \subseteq Elements(lines)
      BY <3>3 DEF Elements
    <3>5. CASE Flush(lines)
      <4>1. Len(file[t]) + Len(lines) <= Cap
        BY <2>2, <3>3
      <4>2. x \in Elements(file[t]) \/ x \in Elements(lines)
        BY <3>4
      <4> QED
        BY <2>1, <3>3, <3>5, <4>1, <4>2, FlushKeeps
    <3>6. CASE pending' = lines /\ UNCHANGED file
      BY <3>4, <3>6
    <3> QED
      BY <2>4, <3>2, <3>5, <3>6
  <2>7. ASSUME NEW k \in DOMAIN opens, HandleGranted(k) \/ HandleRefused(k) PROVE Kept(x)
    BY <2>4, <2>7 DEF HandleGranted, HandleRefused, captureVars
  <2>8. ASSUME NEW i \in DOMAIN sockets, SocketOpens(i) \/ SocketCloses(i) PROVE Kept(x)
    BY <2>4, <2>8 DEF SocketOpens, SocketCloses, captureVars
  <2>9. CASE TimerFires \/ UNCHANGED vars
    BY <2>4, <2>9 DEF TimerFires, captureVars, vars
  <2>10. CASE Tick \/ \E u \in Targets : OpenStream(u)
    BY <2>3, <2>10 DEF Tick, OpenStream, CloseStream
  <2> QED
    BY <2>5, <2>6, <2>7, <2>8, <2>9, <2>10 DEF Next
<1>2. IInv /\ [Next]_vars =>
        \A t \in Targets :
          \A line \in Elements(file[t]) \union Elements(pending) :
            \/ line \in Elements(pending') \union UNION {Elements(file'[u]) : u \in Targets}
            \/ \E k \in DOMAIN opens : /\ opens[k] = [target |-> t, stage |-> "granted"]
                                       /\ opens'[k].stage = "resumed"
            \/ Len(file[t]) + Len(pending) + 1 > Cap
  BY <1>1
<1> HIDE DEF Step
<1> QED
  BY <1>2, Inductive, PTL DEF Spec, CaptureKept
=============================================================================
