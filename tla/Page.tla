--------------------------------- MODULE Page ---------------------------------
(***************************************************************************)
(* From the Gateway's configuration to the operator's keyboard: the targets*)
(* that internal/runtime/config.go accepts, the guests behind their ports, *)
(* the list the page polls through BFF and Gateway, and the page's target  *)
(* picker and terminal pane (web/index.html).                              *)
(*                                                                         *)
(* A target is known by its place in the configuration.  How a guest comes *)
(* up is the subject of Fleet, how a socket is relayed and a session opened*)
(* that of Relay and Session; here a target settles, and a socket opens or *)
(* closes.  Page tasks run one at a time; a socket that ws no longer refers*)
(* to still delivers events.                                               *)
(***************************************************************************)
EXTENDS Naturals, Sequences

CONSTANTS
  Configs,   \* the configuration files considered
  Requests,  \* requests for the list that may be under way at once
  MaxClicks  \* bound: how often the operator selects a target

\* What json.Unmarshal can make of a file; "" and 0 are what it leaves out.  port is 0
\* if the host or the port is missing.
TargetConfig == [id : STRING, user : STRING, port : Nat, sshPort : Nat]
Config == [runtime : STRING, targets : Seq(TargetConfig), traced : BOOLEAN, watcher : STRING]

ASSUME ConfigsAssumption == Configs \subseteq Config /\ MaxClicks \in Nat

VARIABLES
  config,
  up,        \* targets whose guest runs, its sshPort forwarded
  status,    \* what the Gateway knows of each target
  requests,  \* the page's requests for the list: stage, and the list answered
  shown,     \* lastTargets, the list in the picker
  sockets,   \* the terminal's WebSockets so far: id, entry selected, guest, readyState,
             \* and, as history, the sockets yet to close when this one was made
  ws,        \* index of the socket ws refers to, or 0
  key        \* history, of the last key: the entry selected, the guests reached, and
             \* those it was due at

gwVars   == <<config, up, status>>
listVars == <<requests, shown>>
termVars == <<sockets, ws, key>>
vars == <<gwVars, listVars, termVars>>

-----------------------------------------------------------------------------
(* The configuration *)

\* (mutant) ids may repeat
ValidateDuplicates(c) ==
  /\ c.runtime # "" /\ c.targets # <<>>
  /\ \A i \in DOMAIN c.targets :
       c.targets[i].id # "" /\ c.targets[i].port # 0 /\ c.targets[i].user # ""
  /\ c.traced => /\ c.watcher # ""
                 /\ \A i \in DOMAIN c.targets : c.watcher # c.targets[i].user

Validate(c) ==
  /\ c.runtime # "" /\ c.targets # <<>>
  /\ \A i \in DOMAIN c.targets :
       /\ c.targets[i].id # "" /\ c.targets[i].port # 0 /\ c.targets[i].user # ""
       /\ \A j \in 1..(i - 1) : c.targets[j].id # c.targets[i].id
  /\ c.traced => /\ c.watcher # ""
                 /\ \A i \in DOMAIN c.targets : c.watcher # c.targets[i].user

Entries == DOMAIN config.targets

\* byID: a later entry replaces an earlier one of the same id.
ById(id) == CHOOSE i \in Entries : /\ config.targets[i].id = id
                                   /\ \A j \in Entries : config.targets[j].id = id => j <= i

\* The guest that answers where a target is dialled: the one whose port is forwarded.
Reached(i) == {j \in up : config.targets[j].sshPort = config.targets[i].port}

\* Of two guests that want one host port, the second does not start.
Startable == {g \in SUBSET Entries :
                \A i, j \in g : config.targets[i].sshPort = config.targets[j].sshPort => i = j}

\* A configuration that is refused ends the Gateway; one that is accepted is launched.
Init ==
  /\ config \in {c \in Configs : Validate(c)}
  /\ up \in Startable
  /\ status = [i \in Entries |-> "booting"]
  /\ requests = [r \in Requests |-> [stage |-> "idle", list |-> <<>>]]
  /\ shown = <<>>
  /\ sockets = <<>> /\ ws = 0 /\ key = [entry |-> 0, guest |-> {}, due |-> {}]

-----------------------------------------------------------------------------
(* The Gateway's targets *)

BecomesReady(i) ==
  /\ status[i] = "booting" /\ Reached(i) # {}
  /\ status' = [status EXCEPT ![i] = "ready"]
  /\ UNCHANGED <<config, up, listVars, termVars>>

\* The launch failed, or the deadline has passed.
BecomesError(i) ==
  /\ status[i] = "booting"
  /\ status' = [status EXCEPT ![i] = "error"]
  /\ UNCHANGED <<config, up, listVars, termVars>>

\* Nothing watches a guest that was ready.
GuestExits(i) ==
  /\ i \in up
  /\ up' = up \ {i}
  /\ sockets' = [s \in DOMAIN sockets |->
                   IF i \in sockets[s].guest THEN [sockets[s] EXCEPT !.guest = {}] ELSE sockets[s]]
  /\ UNCHANGED <<config, status, listVars, ws, key>>

-----------------------------------------------------------------------------
(* The target picker *)

Listing == [i \in Entries |-> [id |-> config.targets[i].id, status |-> status[i]]]

\* refreshTargets, at once and every three seconds, whatever is still under way.
Refresh(r) ==
  /\ requests[r].stage = "idle"
  /\ requests' = [requests EXCEPT ![r].stage = "asked"]
  /\ UNCHANGED <<gwVars, shown, termVars>>

\* (mutant) targets that are not ready are left out of the list
AnswerReady(r) ==
  /\ requests[r].stage = "asked"
  /\ requests' = [requests EXCEPT
       ![r] = [stage |-> "answered",
               list |-> SelectSeq(Listing, LAMBDA t : t.status = "ready")]]
  /\ UNCHANGED <<gwVars, shown, termVars>>

\* The Gateway takes its snapshot under q.mu; the BFF copies it.
Answer(r) ==
  /\ requests[r].stage = "asked"
  /\ requests' = [requests EXCEPT ![r] = [stage |-> "answered", list |-> Listing]]
  /\ UNCHANGED <<gwVars, shown, termVars>>

\* The BFF or the Gateway cannot be reached, or the answer is no JSON: the list stays.
RefreshFails(r) ==
  /\ requests[r].stage # "idle"
  /\ requests' = [requests EXCEPT ![r] = [stage |-> "idle", list |-> <<>>]]
  /\ UNCHANGED <<gwVars, shown, termVars>>

\* (mutant) an answer is shown only if nothing else is under way
RenderAlone(r) ==
  /\ requests[r].stage = "answered"
  /\ requests' = [requests EXCEPT ![r] = [stage |-> "idle", list |-> <<>>]]
  /\ shown' = IF \A q \in Requests \ {r} : requests[q].stage = "idle"
              THEN requests[r].list ELSE shown
  /\ UNCHANGED <<gwVars, termVars>>

\* renderTargets, in whatever order the answers arrive.
Render(r) ==
  /\ requests[r].stage = "answered"
  /\ requests' = [requests EXCEPT ![r] = [stage |-> "idle", list |-> <<>>]]
  /\ shown' = requests[r].list
  /\ UNCHANGED <<gwVars, termVars>>

-----------------------------------------------------------------------------
(* The terminal pane *)

Live == {"connecting", "open"}

Unclosed == {s \in DOMAIN sockets : sockets[s].state # "closed"}

NewSocket(i) == [id |-> shown[i].id, entry |-> i, guest |-> {}, state |-> "connecting",
                 before |-> Unclosed]

\* (mutant) every entry can be clicked
ConnectAny(i) ==
  /\ i \in DOMAIN shown
  /\ Len(sockets) < MaxClicks
  /\ sockets' = Append([s \in DOMAIN sockets |->
                          IF s = ws /\ sockets[s].state \in Live
                          THEN [sockets[s] EXCEPT !.state = "closing"] ELSE sockets[s]],
                       NewSocket(i))
  /\ ws' = Len(sockets) + 1
  /\ UNCHANGED <<gwVars, listVars, key>>

\* (mutant) the previous socket is not closed
ConnectOver(i) ==
  /\ i \in DOMAIN shown /\ shown[i].status = "ready"
  /\ Len(sockets) < MaxClicks
  /\ sockets' = Append(sockets, NewSocket(i))
  /\ ws' = Len(sockets) + 1
  /\ UNCHANGED <<gwVars, listVars, key>>

\* A click on an entry shown as ready: the socket ws refers to is closed, a new one made.
\* The trace subscription it starts is the subject of TraceWorker.
Connect(i) ==
  /\ i \in DOMAIN shown /\ shown[i].status = "ready"
  /\ Len(sockets) < MaxClicks
  /\ sockets' = Append([s \in DOMAIN sockets |->
                          IF s = ws /\ sockets[s].state \in Live
                          THEN [sockets[s] EXCEPT !.state = "closing"] ELSE sockets[s]],
                       NewSocket(i))
  /\ ws' = Len(sockets) + 1
  /\ UNCHANGED <<gwVars, listVars, key>>

\* Attach found the target ready and dialled it.
SocketOpens(s) ==
  /\ sockets[s].state = "connecting"
  /\ LET i == ById(sockets[s].id)
     IN  /\ status[i] = "ready" /\ Reached(i) # {}
         /\ sockets' = [sockets EXCEPT ![s].state = "open", ![s].guest = Reached(i)]
  /\ UNCHANGED <<gwVars, listVars, ws, key>>

\* onclose, whichever socket it is: the connection was refused, lost or closed by us.
SocketCloses(s) ==
  /\ sockets[s].state # "closed"
  /\ sockets' = [sockets EXCEPT ![s].state = "closed", ![s].guest = {}]
  /\ ws' = 0
  /\ UNCHANGED <<gwVars, listVars, key>>

\* A close event of an earlier selection's socket has come since s was made.
Overtaken(s) == \E r \in sockets[s].before : sockets[r].state = "closed"

\* A key is due at the guest of the entry selected last, while that runs and the session
\* is open, unless the page has forgotten the session over such an event.
Due(s) == {i \in up : i = sockets[s].entry /\ sockets[s].state = "open" /\ ~Overtaken(s)}

\* onData: a key is sent if ws is open and dropped otherwise.
Key ==
  /\ sockets # <<>>
  /\ key' = [entry |-> sockets[Len(sockets)].entry,
             guest |-> IF ws # 0 /\ sockets[ws].state = "open" THEN sockets[ws].guest ELSE {},
             due   |-> Due(Len(sockets))]
  /\ UNCHANGED <<gwVars, listVars, sockets, ws>>

-----------------------------------------------------------------------------
(* Specification *)

Next ==
  \/ \E i \in Entries : BecomesReady(i) \/ BecomesError(i) \/ GuestExits(i) \/ Connect(i)
  \/ \E r \in Requests : Refresh(r) \/ Answer(r) \/ RefreshFails(r) \/ Render(r)
  \/ \E s \in DOMAIN sockets : SocketOpens(s) \/ SocketCloses(s)
  \/ Key

Spec == Init /\ [][Next]_vars

\* The page goes on asking, and no outage of the BFF or the Gateway is for good.
FairSpec ==
  /\ Spec
  /\ \A r \in Requests : WF_vars(Refresh(r)) /\ SF_vars(Answer(r)) /\ SF_vars(Render(r))

-----------------------------------------------------------------------------
(* Properties *)

Statuses == {"booting", "ready", "error"}
Lists == {<<>>} \union [Entries -> [id : STRING, status : Statuses]]

TypeOK ==
  /\ config \in Configs /\ up \subseteq Entries /\ status \in [Entries -> Statuses]
  /\ requests \in [Requests -> [stage : {"idle", "asked", "answered"}, list : Lists]]
  /\ shown \in Lists
  /\ sockets \in Seq([id : STRING, entry : Entries, guest : SUBSET Entries,
                      state : Live \union {"closing", "closed"}, before : SUBSET Nat])
  /\ Len(sockets) <= MaxClicks /\ ws \in 0..Len(sockets)
  /\ key \in [entry : Entries \union {0}, guest : SUBSET Entries, due : SUBSET Entries]

OwnPorts ==
  \A i, j \in Entries :
    config.targets[i].port = config.targets[j].sshPort <=> i = j

\* Terminal routing (DESIGN.md:279-280, 607), as far as the code keeps it.  What is typed
\* goes to the guest of the entry selected last or nowhere, and it does go there while
\* that guest runs and its session is open and no socket of an earlier selection has
\* closed since: neither a session that ended by itself, nor one that is refused, nor
\* any number of selections before costs a key.  The exception is no rarity: every change
\* of target while a session is open has the old socket's onclose set ws to null
\* (index.html:290), after which keys are dropped until the next selection.
\* Supposed is a configuration that gives every target a port of its own; that no two
\* share an id, Validate sees to (config.go:107-109).
KeysReachTheirTarget ==
  OwnPorts => key.due \subseteq key.guest /\ key.guest \subseteq {key.entry}

\* There is one live terminal session; a second one takes the close event of an earlier
\* selection's socket that comes after the selection, and makes the page forget the
\* session it has (index.html:268, 290).
OneSession ==
  \A s \in DOMAIN sockets : sockets[s].state \in Live /\ s # ws => Overtaken(s)

\* DESIGN.md:277, targets that are not ready are not selectable: the Gateway has no
\* reason to refuse a selection as not ready, however late and in whatever order
\* the lists arrived (index.html:642, 647-651, qemu.go:178-184).
OffersOnlyReady ==
  \A s \in DOMAIN sockets :
    sockets[s].state = "connecting" => status[ById(sockets[s].id)] = "ready"

\* What the picker shows as settled is so: lists that overtake each other can show a
\* target as booting that no longer is, and nothing else (index.html:647-663).
ShownIsTrue ==
  \A i \in DOMAIN shown : shown[i].status # "booting" => shown[i].status = status[i]

\* A target that has become ready, or failed, is shown as such for good at last,
\* although lists overtake each other and requests fail (index.html:647-663).
PickerSettles ==
  <>[](\A i \in Entries :
         status[i] # "booting" => i \in DOMAIN shown /\ shown[i].status = status[i])
=============================================================================
