----------------------------- MODULE Page_proofs -----------------------------
(***************************************************************************)
(* What holds of the page for every configuration, number of requests and  *)
(* number of selections.  The inductive invariant adds to the types:       *)
(*   Accepted  the configuration passed Validate                           *)
(*   Offers    what a list calls settled is so, lists under way included   *)
(*   Chosen    a socket has the id of the entry selected, which is ready,  *)
(*             and a guest behind that entry's port                        *)
(*   Served    with ports of their own, an open socket has the guest of    *)
(*             the entry selected as long as that runs                     *)
(*   Before    a socket knows which earlier ones may yet close             *)
(*   Current   ws is the socket of the last selection, or null             *)
(*   Keyed     the last key went to a guest behind the entry's port, and   *)
(*             to those it was due at                                      *)
(***************************************************************************)
EXTENDS Page, TLAPS

Accepted == Validate(config)

Claims(list) ==
  \A i \in DOMAIN list : /\ i \in Entries
                         /\ list[i].id = config.targets[i].id
                         /\ list[i].status # "booting" => list[i].status = status[i]

Offers == Claims(shown) /\ \A r \in Requests : Claims(requests[r].list)

Behind(i) == {g \in Entries : config.targets[g].sshPort = config.targets[i].port}

Chosen ==
  \A s \in DOMAIN sockets : /\ sockets[s].id = config.targets[sockets[s].entry].id
                            /\ status[sockets[s].entry] = "ready"
                            /\ sockets[s].guest \subseteq Behind(sockets[s].entry)

Current == ws = 0 \/ ws = Len(sockets)

Served ==
  OwnPorts =>
    \A s \in DOMAIN sockets :
      sockets[s].state = "open" /\ sockets[s].entry \in up =>
        sockets[s].entry \in sockets[s].guest

Before ==
  \A s \in DOMAIN sockets :
    /\ sockets[s].before \subseteq 1..(s - 1)
    /\ \A r \in 1..(s - 1) : sockets[r].state # "closed" => r \in sockets[s].before

Keyed ==
  /\ key.guest # {} => key.entry \in Entries /\ key.guest \subseteq Behind(key.entry)
  /\ OwnPorts => key.due \subseteq key.guest

IInv == /\ TypeOK /\ Accepted /\ Offers /\ Chosen /\ Served /\ Before /\ Current /\ Keyed
        /\ OneSession

-----------------------------------------------------------------------------
(* The configuration *)

LEMMA ConfigType ==
  ASSUME config \in Configs
  PROVE  /\ config.targets \in Seq(TargetConfig) /\ config.traced \in BOOLEAN
         /\ Len(config.targets) \in Nat /\ Entries = 1..Len(config.targets)
         /\ \A i \in Entries : config.targets[i] \in TargetConfig
<1>1. config \in Config
  BY ConfigsAssumption
<1>2. config.targets \in Seq(TargetConfig) /\ config.traced \in BOOLEAN
  BY <1>1 DEF Config
<1> QED
  BY <1>2 DEF Entries

\* Validate admits each id once, so that byID finds the target the id was read from.
LEMMA IdNamesTarget ==
  ASSUME config \in Configs, Accepted, NEW i \in Entries
  PROVE  ById(config.targets[i].id) = i
<1>1. \A j \in Entries : config.targets[j].id = config.targets[i].id => j = i
  <2> SUFFICES ASSUME NEW j \in Entries, config.targets[j].id = config.targets[i].id, j # i
               PROVE  FALSE
    OBVIOUS
  <2>1. i \in Nat /\ j \in Nat /\ i >= 1 /\ j >= 1
    BY ConfigType
  <2>2. CASE j < i
    <3>1. j \in 1..(i - 1)
      BY <2>1, <2>2
    <3> QED
      BY <3>1 DEF Accepted, Validate, Entries
  <2>3. CASE i < j
    <3>1. i \in 1..(j - 1)
      BY <2>1, <2>3
    <3> QED
      BY <3>1 DEF Accepted, Validate, Entries
  <2> QED
    BY <2>1, <2>2, <2>3
<1>2. i \in Nat
  BY ConfigType
<1> DEFINE Named(k) == /\ config.targets[k].id = config.targets[i].id
                       /\ \A j \in Entries : config.targets[j].id = config.targets[i].id => j <= k
<1>3. Named(i)
  BY <1>1, <1>2
<1>4. \A k \in Entries : Named(k) => k = i
  BY <1>1
<1> QED
  BY <1>3, <1>4 DEF ById

\* A sequence rewritten element by element keeps its length.
LEMMA Rewritten ==
  ASSUME NEW S, NEW n \in Nat, NEW f \in [1..n -> S]
  PROVE  f \in Seq(S) /\ Len(f) = n
  OBVIOUS

-----------------------------------------------------------------------------
(* Types *)

Socket == [id : STRING, entry : Entries, guest : SUBSET Entries,
           state : Live \union {"closing", "closed"}, before : SUBSET Nat]

LEMMA SocketTypes ==
  ASSUME TypeOK
  PROVE  /\ sockets \in Seq(Socket) /\ Len(sockets) \in Nat
         /\ DOMAIN sockets = 1..Len(sockets)
         /\ \A s \in 1..Len(sockets) : sockets[s] \in Socket /\ sockets[s].entry \in Entries
<1>1. sockets \in Seq(Socket)
  BY DEF TypeOK, Socket
<1>2. \A s \in 1..Len(sockets) : sockets[s] \in Socket
  BY <1>1
<1>3. \A x \in Socket : x.entry \in Entries
  BY DEF Socket
<1> QED
  BY <1>1, <1>2, <1>3

LEMMA InitType == ASSUME Init PROVE TypeOK
<1>1. config \in Configs
  BY DEF Init
<1>2. Entries = 1..Len(config.targets) /\ Len(config.targets) \in Nat
  BY <1>1, ConfigType
<1>3. requests \in [Requests -> [stage : {"idle", "asked", "answered"}, list : Lists]]
  BY DEF Init, Lists
<1>4. up \subseteq Entries
  BY DEF Init, Startable
<1>5. status \in [Entries -> Statuses]
  BY DEF Init, Statuses
<1>6. key \in [entry : Entries \union {0}, guest : SUBSET Entries, due : SUBSET Entries]
  BY DEF Init
<1>7. sockets \in Seq(Socket) /\ Len(sockets) <= MaxClicks /\ ws \in 0..Len(sockets)
  BY ConfigsAssumption DEF Init
<1> QED
  BY <1>1, <1>3, <1>4, <1>5, <1>6, <1>7 DEF Init, TypeOK, Lists, Socket

\* The entries and the lists depend on the configuration only, which never changes.
LEMMA SameConfig ==
  ASSUME TypeOK, config' = config
  PROVE  /\ Entries' = Entries /\ Lists' = Lists /\ Socket' = Socket
         /\ \A i : Behind(i)' = Behind(i)
         /\ \A id : ById(id)' = ById(id)
         /\ Accepted' <=> Accepted
         /\ OwnPorts' <=> OwnPorts
  BY DEF Entries, Lists, Socket, Behind, ById, Accepted, OwnPorts

-----------------------------------------------------------------------------
(* The steps of the Gateway *)

\* A target settles once and for good, so the lists stay true.
LEMMA SettleStep ==
  ASSUME IInv, NEW i \in Entries, BecomesReady(i) \/ BecomesError(i)
  PROVE  IInv'
<1> USE DEF IInv
<1>1. /\ status[i] = "booting"
      /\ \E x \in {"ready", "error"} : status' = [status EXCEPT ![i] = x]
      /\ UNCHANGED <<config, up, requests, shown, sockets, ws, key>>
  BY DEF BecomesReady, BecomesError, listVars, termVars
<1>2. /\ Entries' = Entries /\ Lists' = Lists /\ \A j : Behind(j)' = Behind(j)
      /\ (Accepted' <=> Accepted) /\ (OwnPorts' <=> OwnPorts)
  BY <1>1, SameConfig
<1>3. status \in [Entries -> Statuses] /\ Statuses = {"booting", "ready", "error"}
  BY DEF TypeOK, Statuses
<1>4. status' \in [Entries -> Statuses]
  BY <1>1, <1>3
<1>5. \A j \in Entries : status[j] # "booting" => status'[j] = status[j]
  BY <1>1, <1>3
<1>6. TypeOK'
  BY <1>1, <1>2, <1>4 DEF TypeOK, Statuses
<1>7. Offers'
  <2>1. ASSUME NEW list, Claims(list) PROVE Claims(list)'
    BY <1>1, <1>2, <1>5, <2>1 DEF Claims
  <2>2. Claims(shown)' /\ \A r \in Requests : Claims(requests[r].list)'
    BY <1>1, <2>1 DEF Offers
  <2> QED
    BY <1>1, <2>2 DEF Offers
<1>8. \A s \in DOMAIN sockets : sockets[s].entry \in Entries
  BY SocketTypes
<1>9. Chosen'
  BY <1>1, <1>2, <1>5, <1>8 DEF Chosen
<1>10. Current' /\ Keyed' /\ OneSession'
  BY <1>1, <1>2 DEF Current, Keyed, OneSession, Overtaken
<1>11. Served' /\ Before'
  BY <1>1, <1>2 DEF Served, Before
<1> QED
  BY <1>2, <1>6, <1>7, <1>9, <1>10, <1>11

LEMMA ExitStep ==
  ASSUME IInv, NEW i \in Entries, GuestExits(i)
  PROVE  IInv'
<1> USE DEF IInv
<1>1. /\ up' = up \ {i}
      /\ sockets' = [s \in DOMAIN sockets |->
                       IF i \in sockets[s].guest THEN [sockets[s] EXCEPT !.guest = {}]
                       ELSE sockets[s]]
      /\ UNCHANGED <<config, status, requests, shown, ws, key>>
  BY DEF GuestExits, listVars
<1>2. /\ Entries' = Entries /\ Lists' = Lists /\ Socket' = Socket
      /\ \A j : Behind(j)' = Behind(j)
      /\ (Accepted' <=> Accepted) /\ (OwnPorts' <=> OwnPorts)
  BY <1>1, SameConfig
<1>3. sockets \in Seq(Socket) /\ DOMAIN sockets = 1..Len(sockets) /\ Len(sockets) \in Nat
  BY SocketTypes
<1>4. \A s \in 1..Len(sockets) :
        /\ sockets'[s] \in Socket /\ sockets'[s].id = sockets[s].id
        /\ sockets'[s].entry = sockets[s].entry /\ sockets'[s].state = sockets[s].state
        /\ sockets'[s].before = sockets[s].before
        /\ sockets'[s].guest \subseteq sockets[s].guest
        /\ i \notin sockets[s].guest => sockets'[s].guest = sockets[s].guest
  <2> SUFFICES ASSUME NEW s \in 1..Len(sockets)
               PROVE  /\ sockets'[s] \in Socket /\ sockets'[s].id = sockets[s].id
                      /\ sockets'[s].entry = sockets[s].entry
                      /\ sockets'[s].state = sockets[s].state
                      /\ sockets'[s].before = sockets[s].before
                      /\ sockets'[s].guest \subseteq sockets[s].guest
                      /\ i \notin sockets[s].guest => sockets'[s].guest = sockets[s].guest
    OBVIOUS
  <2>1. sockets[s] \in Socket
    BY SocketTypes
  <2>2. LET x == [sockets[s] EXCEPT !.guest = {}]
        IN  /\ x \in Socket /\ x.id = sockets[s].id /\ x.entry = sockets[s].entry
            /\ x.state = sockets[s].state /\ x.guest = {} /\ x.before = sockets[s].before
    BY <2>1 DEF Socket
  <2>3. IF i \in sockets[s].guest THEN sockets'[s] = [sockets[s] EXCEPT !.guest = {}]
                                  ELSE sockets'[s] = sockets[s]
    BY <1>1, <1>3
  <2> QED
    BY <2>1, <2>2, <2>3
<1>5. sockets' \in [1..Len(sockets) -> Socket]
  BY <1>1, <1>3, <1>4
<1>6. sockets' \in Seq(Socket) /\ Len(sockets') = Len(sockets) /\ DOMAIN sockets' = 1..Len(sockets)
  BY <1>3, <1>5, Rewritten
<1>7. TypeOK'
  BY <1>1, <1>2, <1>6 DEF TypeOK, Socket
<1>8. Offers'
  BY <1>1, <1>2 DEF Offers, Claims
<1>9. Chosen'
  BY <1>1, <1>2, <1>3, <1>4, <1>6 DEF Chosen
<1>10. Current' /\ Keyed'
  BY <1>1, <1>2, <1>6 DEF Current, Keyed
<1>11. Before'
  BY <1>3, <1>4, <1>6 DEF Before
<1>12. OneSession'
  <2> SUFFICES ASSUME NEW s \in 1..Len(sockets), sockets'[s].state \in Live, s # ws
               PROVE  \E r \in sockets'[s].before : sockets'[r].state = "closed"
    BY <1>1, <1>6 DEF OneSession, Overtaken, Live
  <2>1. PICK r \in sockets[s].before : sockets[r].state = "closed"
    BY <1>3, <1>4 DEF OneSession, Overtaken
  <2>2. r \in 1..Len(sockets)
    BY <1>3 DEF Before
  <2> QED
    BY <1>4, <2>1, <2>2
<1>13. Served'
  <2> SUFFICES ASSUME OwnPorts, NEW s \in 1..Len(sockets), sockets'[s].state = "open",
                      sockets'[s].entry \in up'
               PROVE  sockets'[s].entry \in sockets'[s].guest
    BY <1>2, <1>6 DEF Served
  <2>1. sockets[s].entry \in up /\ sockets[s].entry # i /\ sockets[s].state = "open"
    BY <1>1, <1>4
  <2>2. sockets[s].entry \in sockets[s].guest
    BY <1>3, <2>1 DEF Served
  <2>3. i \notin sockets[s].guest
    <3>1. sockets[s].guest \subseteq Behind(sockets[s].entry) /\ sockets[s].entry \in Entries
      BY <1>3, SocketTypes DEF Chosen
    <3> QED
      BY <2>1, <3>1 DEF OwnPorts, Behind
  <2> QED
    BY <1>4, <2>2, <2>3
<1> QED
  BY <1>2, <1>7, <1>8, <1>9, <1>10, <1>11, <1>12, <1>13

-----------------------------------------------------------------------------
(* The steps of the picker *)

LEMMA ListStep ==
  ASSUME IInv, NEW r \in Requests,
         Refresh(r) \/ Answer(r) \/ RefreshFails(r) \/ Render(r)
  PROVE  IInv'
<1> USE DEF IInv
<1> DEFINE Request == [stage : {"idle", "asked", "answered"}, list : Lists]
<1>1. UNCHANGED <<config, up, status, sockets, ws, key>>
  BY DEF Refresh, Answer, RefreshFails, Render, gwVars, termVars
<1>2. /\ Entries' = Entries /\ Lists' = Lists /\ \A j : Behind(j)' = Behind(j)
      /\ (Accepted' <=> Accepted) /\ (OwnPorts' <=> OwnPorts)
  BY <1>1, SameConfig
<1>3. requests \in [Requests -> Request] /\ shown \in Lists /\ <<>> \in Lists
  BY DEF TypeOK, Lists
<1>4. \A list : Claims(list)' <=> Claims(list)
  BY <1>1, <1>2 DEF Claims
<1>5. Claims(<<>>)
  BY DEF Claims
<1>6. Listing \in Lists /\ Claims(Listing)
  <2>1. \A i \in Entries : config.targets[i].id \in STRING /\ status[i] \in Statuses
    BY ConfigType DEF TypeOK, TargetConfig, Statuses
  <2> QED
    BY <2>1 DEF Listing, Lists, Claims
<1>7. \E q \in Request :
        /\ Claims(q.list) /\ requests' = [requests EXCEPT ![r] = q]
        /\ shown' = shown \/ shown' = requests[r].list
  <2>1. CASE Refresh(r)
    <3>1. requests[r] \in Request /\ Claims(requests[r].list)
      BY <1>3 DEF Offers
    <3>2. [requests[r] EXCEPT !.stage = "asked"] \in Request
      BY <3>1
    <3>3. [requests[r] EXCEPT !.stage = "asked"].list = requests[r].list
      BY <3>1
    <3>4. requests' = [requests EXCEPT ![r] = [requests[r] EXCEPT !.stage = "asked"]] /\ shown' = shown
      BY <2>1 DEF Refresh
    <3> QED
      BY <3>1, <3>2, <3>3, <3>4
  <2>2. CASE Answer(r)
    <3> DEFINE q == [stage |-> "answered", list |-> Listing]
    <3>1. q \in Request /\ q.list = Listing
      BY <1>6
    <3>2. requests' = [requests EXCEPT ![r] = q] /\ shown' = shown
      BY <2>2 DEF Answer
    <3> QED
      BY <1>6, <3>1, <3>2
  <2>3. CASE RefreshFails(r) \/ Render(r)
    <3> DEFINE q == [stage |-> "idle", list |-> <<>>]
    <3>1. q \in Request /\ q.list = <<>>
      BY <1>3
    <3>2. /\ requests' = [requests EXCEPT ![r] = q]
          /\ shown' = shown \/ shown' = requests[r].list
      BY <2>3 DEF RefreshFails, Render
    <3> QED
      BY <1>5, <3>1, <3>2
  <2> QED
    BY <2>1, <2>2, <2>3
<1>8. requests' \in [Requests -> Request] /\ shown' \in Lists
  BY <1>3, <1>7
<1>9. TypeOK'
  BY <1>1, <1>2, <1>8 DEF TypeOK
<1>10. Claims(shown') /\ \A q \in Requests : Claims(requests'[q].list)
  BY <1>3, <1>7 DEF Offers
<1>11. Offers'
  BY <1>1, <1>2, <1>10 DEF Offers, Claims
<1>12. Chosen' /\ Served' /\ Before' /\ Current' /\ Keyed' /\ OneSession'
  BY <1>1, <1>2 DEF Chosen, Served, Before, Current, Keyed, OneSession, Overtaken
<1> QED
  BY <1>2, <1>9, <1>11, <1>12

-----------------------------------------------------------------------------
(* The steps of the terminal pane *)

\* Every live socket but the one ws refers to has been overtaken, and a new selection
\* closes the one ws refers to.
LEMMA ConnectStep ==
  ASSUME IInv, NEW i \in Entries, Connect(i)
  PROVE  IInv'
<1> USE DEF IInv
<1> DEFINE n == Len(sockets)
           Replaced(s) == IF s = ws /\ sockets[s].state \in Live
                          THEN [sockets[s] EXCEPT !.state = "closing"] ELSE sockets[s]
           old == [s \in 1..n |-> Replaced(s)]
           new == [id |-> shown[i].id, entry |-> i, guest |-> {}, state |-> "connecting",
                   before |-> Unclosed]
<1>1. /\ i \in DOMAIN shown /\ shown[i].status = "ready" /\ n < MaxClicks
      /\ ws' = n + 1
      /\ UNCHANGED <<config, up, status, requests, shown, key>>
  BY DEF Connect, gwVars, listVars
<1>2. /\ Entries' = Entries /\ Lists' = Lists /\ Socket' = Socket
      /\ \A j : Behind(j)' = Behind(j)
      /\ (Accepted' <=> Accepted) /\ (OwnPorts' <=> OwnPorts)
  BY <1>1, SameConfig
<1>3. sockets \in Seq(Socket) /\ DOMAIN sockets = 1..n /\ n \in Nat /\ MaxClicks \in Nat
  BY SocketTypes, ConfigsAssumption
<1>4. \A s \in 1..n :
        /\ Replaced(s) \in Socket /\ Replaced(s).id = sockets[s].id
        /\ Replaced(s).entry = sockets[s].entry /\ Replaced(s).guest = sockets[s].guest
        /\ Replaced(s).before = sockets[s].before
        /\ Replaced(s).state = "open" => sockets[s].state = "open"
        /\ Replaced(s).state = "closed" <=> sockets[s].state = "closed"
        /\ Replaced(s).state \in Live => s # ws /\ sockets[s].state \in Live
  <2> SUFFICES ASSUME NEW s \in 1..n
               PROVE  /\ Replaced(s) \in Socket /\ Replaced(s).id = sockets[s].id
                      /\ Replaced(s).entry = sockets[s].entry
                      /\ Replaced(s).guest = sockets[s].guest
                      /\ Replaced(s).before = sockets[s].before
                      /\ Replaced(s).state = "open" => sockets[s].state = "open"
                      /\ Replaced(s).state = "closed" <=> sockets[s].state = "closed"
                      /\ Replaced(s).state \in Live => s # ws /\ sockets[s].state \in Live
    OBVIOUS
  <2>1. sockets[s] \in Socket
    BY SocketTypes
  <2>2. LET x == [sockets[s] EXCEPT !.state = "closing"]
        IN  /\ x \in Socket /\ x.id = sockets[s].id /\ x.entry = sockets[s].entry
            /\ x.guest = sockets[s].guest /\ x.before = sockets[s].before
            /\ x.state = "closing"
    BY <2>1 DEF Socket
  <2>3. CASE s = ws /\ sockets[s].state \in Live
    BY <2>2, <2>3 DEF Live
  <2>4. CASE ~(s = ws /\ sockets[s].state \in Live)
    BY <2>1, <2>4
  <2> QED
    BY <2>3, <2>4
<1>5. old \in Seq(Socket) /\ Len(old) = n
  <2>1. old \in [1..n -> Socket]
    BY <1>4
  <2> QED
    BY <1>3, <2>1, Rewritten
<1>6. /\ new \in Socket /\ new.id = config.targets[i].id /\ new.entry = i
      /\ new.guest = {} /\ new.state = "connecting" /\ status[i] = "ready"
      /\ new.before = Unclosed
  <2>1. shown[i].id = config.targets[i].id /\ status[i] = "ready"
    BY <1>1 DEF Offers, Claims
  <2>2. config.targets[i].id \in STRING
    BY ConfigType DEF TypeOK, TargetConfig
  <2>3. Unclosed \in SUBSET Nat
    BY <1>3 DEF Unclosed
  <2> QED
    BY <2>1, <2>2, <2>3 DEF Socket, Live
<1>7. sockets' = Append(old, new)
  BY <1>3 DEF Connect, NewSocket
<1>8. /\ sockets' \in Seq(Socket) /\ Len(sockets') = n + 1 /\ DOMAIN sockets' = 1..(n + 1)
      /\ sockets'[n + 1] = new /\ \A s \in 1..n : sockets'[s] = Replaced(s)
  <2> HIDE DEF new, old
  <2>1. /\ sockets' \in Seq(Socket) /\ Len(sockets') = n + 1 /\ sockets'[n + 1] = new
        /\ \A s \in 1..n : sockets'[s] = old[s]
    BY <1>3, <1>5, <1>6, <1>7
  <2>2. \A s \in 1..n : old[s] = Replaced(s)
    BY DEF old
  <2> QED
    BY <1>3, <2>1, <2>2
<1> HIDE DEF old, new, Replaced
<1>9. TypeOK'
  <2>1. Len(sockets') <= MaxClicks /\ ws' \in 0..Len(sockets')
    BY <1>1, <1>3, <1>8
  <2> QED
    BY <1>1, <1>2, <1>8, <2>1 DEF TypeOK, Socket
<1>10. Offers'
  BY <1>1, <1>2 DEF Offers, Claims
<1>11. Chosen'
  <2> SUFFICES ASSUME NEW s \in 1..(n + 1)
               PROVE  /\ sockets'[s].id = config.targets[sockets'[s].entry].id
                      /\ status[sockets'[s].entry] = "ready"
                      /\ sockets'[s].guest \subseteq Behind(sockets'[s].entry)
    BY <1>1, <1>2, <1>8 DEF Chosen
  <2>1. CASE s = n + 1
    BY <1>6, <1>8, <2>1
  <2>2. CASE s \in 1..n
    BY <1>3, <1>4, <1>8, <2>2 DEF Chosen
  <2> QED
    BY <1>3, <2>1, <2>2
<1>12. Current' /\ Keyed'
  BY <1>1, <1>2, <1>8 DEF Current, Keyed
<1>13. Before'
  <2> SUFFICES ASSUME NEW s \in 1..(n + 1)
               PROVE  /\ sockets'[s].before \subseteq 1..(s - 1)
                      /\ \A r \in 1..(s - 1) :
                           sockets'[r].state # "closed" => r \in sockets'[s].before
    BY <1>8 DEF Before
  <2>1. \A r \in 1..(s - 1) : r \in 1..n
    BY <1>3
  <2>2. \A r \in 1..(s - 1) : sockets'[r].state # "closed" => sockets[r].state # "closed"
    BY <1>4, <1>8, <2>1
  <2>3. CASE s = n + 1
    <3>1. sockets'[s].before = Unclosed /\ s - 1 = n
      BY <1>3, <1>6, <1>8, <2>3
    <3> QED
      BY <1>3, <2>2, <3>1 DEF Unclosed
  <2>4. CASE s \in 1..n
    BY <1>3, <1>4, <1>8, <2>2, <2>4 DEF Before
  <2> QED
    BY <1>3, <2>3, <2>4
<1>14. Served'
  <2> SUFFICES ASSUME OwnPorts, NEW s \in 1..(n + 1), sockets'[s].state = "open",
                      sockets'[s].entry \in up
               PROVE  sockets'[s].entry \in sockets'[s].guest
    BY <1>1, <1>2, <1>8 DEF Served
  <2>1. s \in 1..n
    BY <1>3, <1>6, <1>8
  <2> QED
    BY <1>3, <1>4, <1>8, <2>1 DEF Served
<1>15. OneSession'
  <2> SUFFICES ASSUME NEW s \in 1..(n + 1), sockets'[s].state \in Live, s # n + 1
               PROVE  \E r \in sockets'[s].before : sockets'[r].state = "closed"
    BY <1>1, <1>8 DEF OneSession, Overtaken, Live
  <2>1. s \in 1..n
    BY <1>3
  <2>2. s # ws /\ sockets[s].state \in Live
    BY <1>4, <1>8, <2>1
  <2>3. PICK r \in sockets[s].before : sockets[r].state = "closed"
    BY <1>3, <2>1, <2>2 DEF OneSession, Overtaken
  <2>4. r \in 1..n
    BY <1>3, <2>1 DEF Before
  <2> QED
    BY <1>4, <1>8, <2>1, <2>3, <2>4
<1> QED
  BY <1>2, <1>9, <1>10, <1>11, <1>12, <1>13, <1>14, <1>15

\* A socket reports that it is open or closed.
LEMMA SocketStep ==
  ASSUME IInv, NEW s \in DOMAIN sockets, SocketOpens(s) \/ SocketCloses(s)
  PROVE  IInv'
<1> USE DEF IInv
<1> DEFINE n == Len(sockets)
<1>1. UNCHANGED <<config, up, status, requests, shown, key>>
  BY DEF SocketOpens, SocketCloses, gwVars, listVars
<1>2. /\ Entries' = Entries /\ Lists' = Lists /\ Socket' = Socket
      /\ \A j : Behind(j)' = Behind(j)
      /\ (Accepted' <=> Accepted) /\ (OwnPorts' <=> OwnPorts)
  BY <1>1, SameConfig
<1>3. sockets \in Seq(Socket) /\ DOMAIN sockets = 1..n /\ n \in Nat /\ s \in 1..n
  BY SocketTypes
<1>4. sockets[s] \in Socket /\ sockets[s].entry \in Entries
  BY <1>3, SocketTypes
<1>5. PICK x \in Socket :
        /\ sockets' = [sockets EXCEPT ![s] = x]
        /\ x.id = sockets[s].id /\ x.entry = sockets[s].entry
        /\ x.before = sockets[s].before /\ x.guest \subseteq Behind(x.entry)
        /\ \/ /\ x.state = "open" /\ sockets[s].state = "connecting" /\ ws' = ws
              /\ OwnPorts /\ x.entry \in up => x.entry \in x.guest
           \/ x.state = "closed" /\ sockets[s].state # "closed" /\ ws' = 0
  <2>1. CASE SocketOpens(s)
    <3> DEFINE i == sockets[s].entry
               g == Reached(ById(sockets[s].id))
               x == [[sockets[s] EXCEPT !.state = "open"] EXCEPT !.guest = g]
    <3>1. ById(sockets[s].id) = i
      BY <1>3, <1>4, IdNamesTarget DEF Chosen, TypeOK
    <3>2. g \subseteq Behind(i) /\ g \subseteq Entries
      BY <3>1 DEF Reached, Behind, TypeOK
    <3>3. /\ x \in Socket /\ x.id = sockets[s].id /\ x.entry = i /\ x.guest = g
          /\ x.state = "open" /\ x.before = sockets[s].before
      BY <1>4, <3>2 DEF Socket, Live
    <3>4. sockets' = [sockets EXCEPT ![s] = x] /\ ws' = ws /\ sockets[s].state = "connecting"
      BY <1>3, <1>4, <2>1 DEF SocketOpens, Socket
    <3>5. OwnPorts /\ i \in up => i \in g
      BY <1>4, <3>1 DEF OwnPorts, Reached
    <3> HIDE DEF x, g
    <3> QED
      BY <3>2, <3>3, <3>4, <3>5
  <2>2. CASE SocketCloses(s)
    <3> DEFINE x == [[sockets[s] EXCEPT !.state = "closed"] EXCEPT !.guest = {}]
    <3>1. /\ x \in Socket /\ x.id = sockets[s].id /\ x.entry = sockets[s].entry
          /\ x.guest = {} /\ x.state = "closed" /\ x.before = sockets[s].before
      BY <1>4 DEF Socket, Live
    <3>2. sockets' = [sockets EXCEPT ![s] = x] /\ sockets[s].state # "closed" /\ ws' = 0
      BY <1>3, <1>4, <2>2 DEF SocketCloses, Socket
    <3> HIDE DEF x
    <3> QED
      BY <3>1, <3>2
  <2> QED
    BY <2>1, <2>2
<1>6. /\ sockets' \in Seq(Socket) /\ Len(sockets') = n /\ DOMAIN sockets' = 1..n
      /\ sockets'[s] = x /\ \A t \in 1..n : t # s => sockets'[t] = sockets[t]
  BY <1>3, <1>5
<1>7. ws' = ws \/ ws' = 0
  BY <1>5
<1>8. TypeOK'
  <2>1. Len(sockets') <= MaxClicks /\ ws' \in 0..Len(sockets')
    BY <1>3, <1>6, <1>7 DEF TypeOK
  <2> QED
    BY <1>1, <1>2, <1>6, <2>1 DEF TypeOK, Socket
<1>9. Offers'
  BY <1>1, <1>2 DEF Offers, Claims
<1>10. Chosen'
  <2> SUFFICES ASSUME NEW t \in 1..n
               PROVE  /\ sockets'[t].id = config.targets[sockets'[t].entry].id
                      /\ status[sockets'[t].entry] = "ready"
                      /\ sockets'[t].guest \subseteq Behind(sockets'[t].entry)
    BY <1>1, <1>2, <1>6 DEF Chosen
  <2>1. CASE t = s
    BY <1>3, <1>5, <1>6, <2>1 DEF Chosen
  <2>2. CASE t # s
    BY <1>3, <1>6, <2>2 DEF Chosen
  <2> QED
    BY <2>1, <2>2
<1>11. Current' /\ Keyed'
  BY <1>1, <1>2, <1>6, <1>7 DEF Current, Keyed
<1>12. \A t \in 1..n : /\ sockets'[t].before = sockets[t].before
                       /\ sockets'[t].state # "closed" => sockets[t].state # "closed"
  <2> SUFFICES ASSUME NEW t \in 1..n
               PROVE  /\ sockets'[t].before = sockets[t].before
                      /\ sockets'[t].state # "closed" => sockets[t].state # "closed"
    OBVIOUS
  <2>1. CASE t = s
    BY <1>5, <1>6, <2>1
  <2>2. CASE t # s
    BY <1>6, <2>2
  <2> QED
    BY <2>1, <2>2
<1>13. Before'
  <2> SUFFICES ASSUME NEW t \in 1..n
               PROVE  /\ sockets'[t].before \subseteq 1..(t - 1)
                      /\ \A r \in 1..(t - 1) :
                           sockets'[r].state # "closed" => r \in sockets'[t].before
    BY <1>6 DEF Before
  <2>1. \A r \in 1..(t - 1) : r \in 1..n
    BY <1>3
  <2> QED
    BY <1>3, <1>12, <2>1 DEF Before
<1>14. Served'
  <2> SUFFICES ASSUME OwnPorts, NEW t \in 1..n, sockets'[t].state = "open",
                      sockets'[t].entry \in up
               PROVE  sockets'[t].entry \in sockets'[t].guest
    BY <1>1, <1>2, <1>6 DEF Served
  <2>1. CASE t = s
    BY <1>5, <1>6, <2>1
  <2>2. CASE t # s
    BY <1>3, <1>6, <2>2 DEF Served
  <2> QED
    BY <2>1, <2>2
<1>15. OneSession'
  <2> SUFFICES ASSUME NEW t \in 1..n, sockets'[t].state \in Live, t # ws'
               PROVE  \E r \in sockets'[t].before : sockets'[r].state = "closed"
    BY <1>6 DEF OneSession, Overtaken, Live
  <2>1. sockets[t].state \in Live
    BY <1>5, <1>6 DEF Live
  <2>2. CASE t # ws
    <3>1. PICK r \in sockets[t].before : sockets[r].state = "closed"
      BY <1>3, <2>1, <2>2 DEF OneSession, Overtaken
    <3>2. r \in 1..n
      BY <1>3 DEF Before
    <3> QED
      BY <1>12, <3>1, <3>2, <1>5, <1>6
  <2>3. CASE t = ws
    <3>1. x.state = "closed" /\ sockets[s].state # "closed" /\ t = n
      BY <1>3, <1>5, <2>3 DEF Current
    <3>2. s # t
      BY <1>6, <3>1 DEF Live
    <3>3. s \in 1..(t - 1)
      BY <1>3, <3>1, <3>2
    <3>4. s \in sockets[t].before
      BY <1>3, <3>1, <3>3 DEF Before
    <3> QED
      BY <1>6, <1>12, <3>1, <3>4
  <2> QED
    BY <2>2, <2>3
<1> QED
  BY <1>2, <1>8, <1>9, <1>10, <1>11, <1>13, <1>14, <1>15

\* A key goes to the socket ws refers to, which is that of the last selection unless it
\* has been overtaken.
LEMMA KeyStep == ASSUME IInv, Key PROVE IInv'
<1> USE DEF IInv
<1> DEFINE n == Len(sockets)
<1>1. UNCHANGED <<config, up, status, requests, shown, sockets, ws>>
  BY DEF Key, gwVars, listVars
<1>2. /\ Entries' = Entries /\ Lists' = Lists /\ \A j : Behind(j)' = Behind(j)
      /\ (Accepted' <=> Accepted) /\ (OwnPorts' <=> OwnPorts)
  BY <1>1, SameConfig
<1>3. DOMAIN sockets = 1..n /\ n \in Nat /\ n \in 1..n
  BY SocketTypes DEF Key
<1>4. sockets[n] \in Socket /\ sockets[n].entry \in Entries
  BY <1>3, SocketTypes
<1> DEFINE e == sockets[n].entry
           g == IF ws # 0 /\ sockets[ws].state = "open" THEN sockets[ws].guest ELSE {}
<1>5. key' = [entry |-> e, guest |-> g, due |-> Due(n)]
  BY DEF Key
<1>6. g \subseteq Entries /\ g \subseteq Behind(e)
  <2>1. ws = 0 \/ ws = n
    BY DEF Current
  <2>2. sockets[n].guest \subseteq Entries /\ sockets[n].guest \subseteq Behind(e)
    BY <1>3, <1>4 DEF Chosen, Socket
  <2> QED
    BY <2>1, <2>2
<1>7. Due(n) \subseteq Entries
  BY DEF Due, TypeOK
<1>8. ASSUME OwnPorts, NEW i \in Due(n) PROVE i \in g
  <2>1. i = e /\ e \in up /\ sockets[n].state = "open" /\ ~Overtaken(n)
    BY <1>8 DEF Due
  <2>2. ws = n /\ n # 0
    BY <1>3, <2>1 DEF OneSession, Live
  <2>3. e \in sockets[n].guest
    BY <1>3, <1>8, <2>1 DEF Served
  <2> QED
    BY <2>1, <2>2, <2>3
<1> HIDE DEF e, g
<1>9. key'.entry = e /\ key'.guest = g /\ key'.due = Due(n)
  BY <1>5
<1>10. TypeOK'
  <2>1. key' \in [entry : Entries \union {0}, guest : SUBSET Entries, due : SUBSET Entries]
    BY <1>4, <1>5, <1>6, <1>7 DEF e
  <2> QED
    BY <1>1, <1>2, <2>1 DEF TypeOK
<1>11. /\ Offers' /\ Chosen' /\ Served' /\ Before' /\ Current' /\ OneSession'
  BY <1>1, <1>2 DEF Offers, Claims, Chosen, Served, Before, Current, OneSession, Overtaken
<1>12. Keyed'
  <2>1. e \in Entries
    BY <1>4 DEF e
  <2> QED
    BY <1>2, <1>6, <1>8, <1>9, <2>1 DEF Keyed
<1> QED
  BY <1>2, <1>10, <1>11, <1>12

-----------------------------------------------------------------------------
(* Theorems *)

\* Lists, sockets and keys agree with the configuration and the statuses at all times
\* (config.go:95-131, qemu.go:98-119, index.html:267-300, 633-659).
THEOREM Inductive == Spec => []IInv
<1>1. Init => IInv
  <2> SUFFICES ASSUME Init PROVE IInv
    OBVIOUS
  <2>1. TypeOK /\ Accepted
    BY InitType DEF Init, Accepted
  <2>2. /\ Offers /\ Chosen /\ Served /\ Before /\ Current /\ Keyed /\ OneSession
    BY DEF Init, Offers, Claims, Chosen, Served, Before, Current, Keyed, OneSession
  <2> QED
    BY <2>1, <2>2 DEF IInv
<1>2. IInv /\ [Next]_vars => IInv'
  <2> SUFFICES ASSUME IInv, [Next]_vars PROVE IInv'
    OBVIOUS
  <2>1. ASSUME NEW i \in Entries,
               BecomesReady(i) \/ BecomesError(i) \/ GuestExits(i) \/ Connect(i)
        PROVE  IInv'
    BY <2>1, SettleStep, ExitStep, ConnectStep
  <2>2. ASSUME NEW r \in Requests, Refresh(r) \/ Answer(r) \/ RefreshFails(r) \/ Render(r)
        PROVE  IInv'
    BY <2>2, ListStep
  <2>3. ASSUME NEW s \in DOMAIN sockets, SocketOpens(s) \/ SocketCloses(s)
        PROVE  IInv'
    BY <2>3, SocketStep
  <2>4. CASE Key
    BY <2>4, KeyStep
  <2>5. CASE UNCHANGED vars
    <3>1. /\ UNCHANGED <<config, up, status, requests, shown, sockets, ws, key>>
      BY <2>5 DEF vars, gwVars, listVars, termVars
    <3>2. /\ Entries' = Entries /\ Lists' = Lists /\ \A j : Behind(j)' = Behind(j)
          /\ (Accepted' <=> Accepted) /\ (OwnPorts' <=> OwnPorts)
      BY <3>1, SameConfig DEF IInv
    <3>3. TypeOK' /\ Offers'
      BY <3>1, <3>2 DEF IInv, TypeOK, Offers, Claims
    <3>4. /\ Chosen' /\ Served' /\ Before' /\ Current' /\ Keyed' /\ OneSession'
      BY <3>1, <3>2 DEF IInv, Chosen, Served, Before, Current, Keyed, OneSession, Overtaken
    <3> QED
      BY <3>2, <3>3, <3>4 DEF IInv
  <2> QED
    BY <2>1, <2>2, <2>3, <2>4, <2>5 DEF Next
<1> QED
  BY <1>1, <1>2, PTL DEF Spec

\* The types, for every set of configurations.
THEOREM TypeCorrect == Spec => []TypeOK
<1>1. IInv => TypeOK
  BY DEF IInv
<1> QED
  BY <1>1, Inductive, PTL

\* With ports of their own, what is typed goes to the guest of the entry selected last or
\* nowhere, and to that guest while its session is open and not overtaken by the close of
\* an earlier one (index.html:267-300).
THEOREM KeysArriveHome == Spec => []KeysReachTheirTarget
<1>1. IInv => KeysReachTheirTarget
  BY DEF IInv, Keyed, Behind, OwnPorts, KeysReachTheirTarget
<1> QED
  BY <1>1, Inductive, PTL

\* A second live session takes the close event of a socket selected before it.
THEOREM SecondSessionDisowned == Spec => []OneSession
<1>1. IInv => OneSession
  BY DEF IInv
<1> QED
  BY <1>1, Inductive, PTL

\* No selection is refused as not ready, in whatever order the lists arrive.
THEOREM SelectionsAreReady == Spec => []OffersOnlyReady
<1>1. IInv => OffersOnlyReady
  <2> SUFFICES ASSUME IInv, NEW s \in DOMAIN sockets
               PROVE  status[ById(sockets[s].id)] = "ready"
    BY DEF OffersOnlyReady
  <2>1. sockets[s].entry \in Entries
    BY SocketTypes DEF IInv
  <2>2. ById(sockets[s].id) = sockets[s].entry
    BY <2>1, IdNamesTarget DEF IInv, TypeOK, Chosen
  <2> QED
    BY <2>2 DEF IInv, Chosen
<1> QED
  BY <1>1, Inductive, PTL

\* What the picker shows as settled is so, for every number of overlapping requests: what
\* PickerSettles rests on (index.html:647-663).
THEOREM ShownSettledIsTrue == Spec => []ShownIsTrue
<1>1. IInv => ShownIsTrue
  BY DEF IInv, Offers, Claims, ShownIsTrue
<1> QED
  BY <1>1, Inductive, PTL
=============================================================================
