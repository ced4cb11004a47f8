------------------------------ MODULE UsbLink ------------------------------
(***************************************************************************)
(* Who is connected to whom, and what the iPad shows of it: the app model   *)
(* and its network client (AppModel, NetworkClient), the server process in  *)
(* USB mode (usb::run_server) and the iproxy process between them.          *)
(* A client's handlers run on its own queue, the user's actions on the      *)
(* main thread, and every change of a client's state goes to the main queue *)
(* before the user sees it.                                                 *)
(***************************************************************************)
EXTENDS Integers, Sequences, SequencesExt

CONSTANTS
  Transports,  \* what the user can connect over: "usb", "network"
  MaxClients,  \* bound: times the user connects
  MaxServers,  \* bound: times the server is started
  MaxQueue     \* bound: blocks on the main queue when another may be put there

ASSUME LinkAssumption ==
  /\ Transports \subseteq {"usb", "network"}
  /\ MaxClients \in Nat /\ MaxServers \in Nat /\ MaxQueue \in Nat \ {0}

VARIABLES
  client,     \* the network client AppModel holds
  held,       \* FALSE without one
  made,       \* clients made so far
  attached,   \* history: connections this client had
  stale,      \* handlers of stopped clients that are still running
  late,       \* history: such a handler has set a state
  mainQueue,  \* states on their way to the main thread
  shown,      \* AppModel.state
  server,     \* the server process
  own,        \* the iproxy it started
  orphan,     \* an iproxy without its server still has the port
  started,    \* times the server was started
  link,       \* how far the server's connection has come
  still       \* the desktop stands still: no frame is captured

clientVars == <<client, held, made, attached, stale, late>>
screenVars == <<mainQueue, shown>>
serverVars == <<server, own, orphan, started>>
vars == <<clientVars, screenVars, serverVars, link, still>>

NewClient == [transport |-> "usb", state |-> "idle", connection |-> "none",
              listening |-> FALSE, handler |-> "none"]

Init ==
  /\ client = NewClient /\ held = FALSE
  /\ made = 0 /\ attached = 0
  /\ stale = <<>> /\ late = FALSE
  /\ mainQueue = <<>> /\ shown = "idle"
  /\ server = "off" /\ own = "none" /\ orphan = FALSE
  /\ started = 0
  /\ link = "none"
  /\ still \in BOOLEAN

-----------------------------------------------------------------------------
(* The main thread *)

\* stop: the listener or browser and the connection are cancelled.
Stopped(c) == [c EXCEPT !.state = "disconnected", !.connection = "none", !.listening = FALSE]

\* disconnectInternal: a running handler of the client goes on by itself; without
\* one, a handler that the cancelled connection calls (the pending receive fails,
\* .cancelled) may be entered just before the client is released.
StopNotice == IF held THEN <<"disconnected">> ELSE <<>>
CancelCalls ==
  {k \in {"failed", "cancelled"} :
     IF k = "failed" THEN client.connection = "ready" ELSE client.connection # "none"}
Leftovers ==
  CASE ~ held -> {<<>>}
    [] held /\ client.handler # "none" -> {<<client.handler>>}
    [] OTHER -> {<<>>} \cup {<<k>> : k \in CancelCalls}
LetGo ==
  /\ \E leftover \in Leftovers : stale' = stale \o leftover
  /\ link' = IF link = "client" THEN "closed" ELSE link

\* The states a client goes through when it starts: startUSB stops first, and
\* making the listener may fail.
StartStates(t) ==
  IF t = "usb"
  THEN {<<"disconnected", "connecting">>, <<"disconnected", "connecting", "failed">>}
  ELSE {<<"connecting">>}

Started(t, states) ==
  [NewClient EXCEPT !.transport = t, !.state = Last(states),
                    !.listening = Last(states) = "connecting"]

\* Mutant of Connect: the old client is stopped after the new one has started.
ConnectBeforeStop ==
  /\ shown # "connected" /\ made < MaxClients /\ Len(mainQueue) < MaxQueue
  /\ \E t \in Transports : \E states \in StartStates(t) :
       /\ client' = Started(t, states)
       /\ mainQueue' = mainQueue \o states \o StopNotice
  /\ LetGo
  /\ held' = TRUE /\ made' = made + 1 /\ attached' = 0
  /\ UNCHANGED <<late, shown, serverVars, still>>

\* Mutant of Connect: the old client is let go of without a stop.
ConnectWithoutStop ==
  /\ shown # "connected" /\ made < MaxClients /\ Len(mainQueue) < MaxQueue
  /\ \E t \in Transports : \E states \in StartStates(t) :
       /\ client' = Started(t, states)
       /\ mainQueue' = mainQueue \o states
  /\ held' = TRUE /\ made' = made + 1 /\ attached' = 0
  /\ UNCHANGED <<late, shown, stale, link, serverVars, still>>

\* connect and connectUSB; the connect screen is there unless the model is
\* connected.
Connect ==
  /\ shown # "connected" /\ made < MaxClients /\ Len(mainQueue) < MaxQueue
  /\ \E t \in Transports : \E states \in StartStates(t) :
       /\ client' = Started(t, states)
       /\ mainQueue' = mainQueue \o StopNotice \o states
  /\ LetGo
  /\ held' = TRUE /\ made' = made + 1 /\ attached' = 0
  /\ UNCHANGED <<late, shown, serverVars, still>>

\* disconnect, when the view disappears.
Disconnect ==
  /\ held /\ Len(mainQueue) < MaxQueue
  /\ client' = NewClient /\ held' = FALSE /\ attached' = 0
  /\ mainQueue' = mainQueue \o StopNotice
  /\ shown' = "disconnected"
  /\ LetGo
  /\ UNCHANGED <<made, late, serverVars, still>>

\* The block that onStateChange has put on the main queue.
ShowState ==
  /\ mainQueue # <<>>
  /\ shown' = Head(mainQueue)
  /\ mainQueue' = Tail(mainQueue)
  /\ UNCHANGED <<clientVars, serverVars, link, still>>

-----------------------------------------------------------------------------
(* The client's queue *)

\* Whether its connection is up; one over the network comes and goes.
MayLast == client.transport = "network" \/ link = "client"
MayEnd  == client.transport = "network" \/ link # "client"

Kinds == {"ready", "failed", "complete", "malformed", "cancelled", "down"}

\* Mutant of Calls: the end of the stream is not looked at.
CallsWithoutEnd ==
  {k \in Kinds :
     \/ k = "ready" /\ client.connection = "starting" /\ MayLast
     \/ k = "failed" /\ client.connection = "starting" /\ MayEnd
     \/ k = "malformed" /\ client.connection = "ready" /\ MayLast
     \/ k = "cancelled" /\ client.connection = "cancelled"
     \/ k = "down" /\ client.listening}

\* The handlers that may be called: those of the connection's state and of its
\* receives, and that of a listener or browser that failed.
Calls ==
  {k \in Kinds :
     \/ k = "ready" /\ client.connection = "starting" /\ MayLast
     \/ k = "failed" /\ client.connection \in {"starting", "ready"} /\ MayEnd
     \/ k = "complete" /\ client.connection = "ready" /\ MayEnd
     \/ k = "malformed" /\ client.connection = "ready" /\ MayLast
     \/ k = "cancelled" /\ client.connection = "cancelled"
     \/ k = "down" /\ client.listening}

\* A handler is called; from here on it keeps its client alive.
EnterHandler ==
  /\ held /\ client.handler = "none"
  /\ \E k \in Calls : client' = [client EXCEPT !.handler = k]
  /\ UNCHANGED <<held, made, attached, stale, late, screenVars, serverVars, link, still>>

StateAfter(k) ==
  CASE k = "ready" -> "connected"
    [] k \in {"failed", "down"} -> "failed"
    [] OTHER -> "disconnected"

\* Mutant of Handled: a connection that ended is forgotten.
HandledForgetful(c) ==
  LET done == [c EXCEPT !.handler = "none", !.state = StateAfter(c.handler)]
  IN CASE c.handler = "ready" -> [done EXCEPT !.connection = "ready"]
       [] c.handler = "down" -> [done EXCEPT !.listening = FALSE]
       [] c.handler \in {"failed", "complete", "cancelled"} -> [done EXCEPT !.connection = "none"]
       [] OTHER -> [Stopped(done) EXCEPT !.connection = "cancelled"]

\* What a handler does to its client: a connection that ended stays the
\* client's, and a malformed message stops the client, whose connection then
\* tells that it was cancelled.
Handled(c) ==
  LET done == [c EXCEPT !.handler = "none", !.state = StateAfter(c.handler)]
  IN CASE c.handler = "ready" -> [done EXCEPT !.connection = "ready"]
       [] c.handler = "down" -> [done EXCEPT !.listening = FALSE]
       [] c.handler \in {"failed", "complete"} -> [done EXCEPT !.connection = "ended"]
       [] c.handler = "cancelled" -> [done EXCEPT !.connection = "none"]
       [] OTHER -> [Stopped(done) EXCEPT !.connection = "cancelled"]

FinishHandler ==
  /\ client.handler # "none" /\ Len(mainQueue) < MaxQueue
  /\ client' = Handled(client)
  /\ mainQueue' = Append(mainQueue, StateAfter(client.handler))
  /\ link' = IF link = "client" /\ client.handler = "malformed" THEN "closed" ELSE link
  /\ UNCHANGED <<held, made, attached, stale, late, shown, serverVars, still>>

\* The same of a client that was stopped after the handler was called: there is
\* no connection to receive from, but the state is set.
FinishStale ==
  /\ stale # <<>> /\ Len(mainQueue) < MaxQueue
  /\ \E i \in DOMAIN stale :
       /\ mainQueue' = Append(mainQueue, StateAfter(stale[i]))
       /\ stale' = RemoveAt(stale, i)
  /\ late' = TRUE
  /\ UNCHANGED <<client, held, made, attached, shown, serverVars, link, still>>

\* attach: a connection becomes the client's.
Attach ==
  /\ client' = [client EXCEPT !.connection = "starting"]
  /\ attached' = attached + 1

Waiting(t) ==
  held /\ client.transport = t /\ client.listening /\ client.handler = "none"

\* browseResultsChangedHandler: the first service found is opened, once.
OpenEndpoint ==
  /\ Waiting("network") /\ client.connection = "none"
  /\ Attach
  /\ UNCHANGED <<held, made, stale, late, screenVars, serverVars, link, still>>

-----------------------------------------------------------------------------
(* The server process in USB mode, and iproxy *)

\* start_iproxy; when it fails, so does the process.
StartServer ==
  /\ server = "off" /\ started < MaxServers
  /\ server' = "polling" /\ own' = "running"
  /\ started' = started + 1
  /\ UNCHANGED <<clientVars, screenVars, orphan, link, still>>

\* kill and wait, and the end of the process.
StopServer ==
  /\ server' = "off" /\ own' = "none" /\ link' = "none"
  /\ UNCHANGED <<clientVars, screenVars, orphan, started, still>>

\* One turn of the loop in run_server: the child is looked at, and then the
\* proxy's port is tried, which any iproxy answers; after a refusal it is tried
\* again.
PollExited == server = "polling" /\ own = "exited" /\ StopServer
PollConnect ==
  /\ server = "polling" /\ own = "running"
  /\ server' = "serving"
  /\ link' = "proxy"
  /\ UNCHANGED <<clientVars, screenVars, own, orphan, started, still>>

\* Mutant of ForwardToListener: the test of `connection` is the wrong way round.
ForwardToBusyListener ==
  /\ link = "proxy" /\ Waiting("usb")
  /\ IF client.connection # "none"
     THEN Attach /\ link' = "client"
     ELSE UNCHANGED <<client, attached>> /\ link' = "closed"
  /\ UNCHANGED <<held, made, stale, late, screenVars, serverVars, still>>

\* iproxy forwards what it has accepted to the port on the device: the listener
\* of a client that has a connection refuses another, and without a listener
\* iproxy closes.
ForwardToListener ==
  /\ link = "proxy" /\ Waiting("usb")
  /\ IF client.connection = "none"
     THEN Attach /\ link' = "client"
     ELSE UNCHANGED <<client, attached>> /\ link' = "closed"
  /\ UNCHANGED <<held, made, stale, late, screenVars, serverVars, still>>
ForwardToNobody ==
  /\ link = "proxy"
  /\ ~ (held /\ client.transport = "usb" /\ client.listening)
  /\ link' = "closed"
  /\ UNCHANGED <<clientVars, screenVars, serverVars, still>>

\* Mutant of EndServing: a failed write is passed over.
EndServingOtherwise == server = "serving" /\ link # "closed" /\ StopServer

\* handle_client_usb returns: the next frame cannot be written to a closed
\* connection, or the capture or the encoder fails.  While no frame comes the
\* writer loop waits again and again and does not look at the connection.
EndServing == server = "serving" /\ StopServer

\* The desktop comes to a standstill, or changes again.
ToggleStill ==
  /\ still' = ~ still
  /\ UNCHANGED <<clientVars, screenVars, serverVars, link>>

\* An iproxy ends, for one because another has the port.
Cut == IF link = "none" THEN link ELSE "closed"
ProxyExits ==
  /\ own = "running"
  /\ own' = "exited"
  /\ link' = IF orphan THEN link ELSE Cut
  /\ UNCHANGED <<clientVars, screenVars, server, orphan, started, still>>
OrphanExits ==
  /\ orphan
  /\ orphan' = FALSE
  /\ link' = Cut
  /\ UNCHANGED <<clientVars, screenVars, server, own, started, still>>

\* The process is killed: nothing is left to stop iproxy.
KillServer ==
  /\ server # "off"
  /\ server' = "off" /\ own' = "none" /\ link' = "none"
  /\ orphan' = (orphan \/ own = "running")
  /\ UNCHANGED <<clientVars, screenVars, started, still>>

Next ==
  \/ Connect \/ Disconnect \/ ShowState
  \/ EnterHandler \/ FinishHandler \/ FinishStale \/ OpenEndpoint
  \/ StartServer \/ PollExited \/ PollConnect \/ ForwardToListener \/ ForwardToNobody
  \/ EndServing \/ ToggleStill \/ ProxyExits \/ OrphanExits \/ KillServer

\* Queues and threads go on, iproxy forwards, and what happened to a connection
\* over USB is told to its handler.  While the desktop changes, frames come that
\* the server tries to write; whether it does is up to the user.
Fairness ==
  /\ WF_vars(ShowState)
  /\ WF_vars(EnterHandler /\ client.transport = "usb" /\ client'.handler # "down")
  /\ WF_vars(FinishHandler) /\ WF_vars(FinishStale)
  /\ WF_vars(PollExited) /\ WF_vars(PollConnect)
  /\ WF_vars(ForwardToListener) /\ WF_vars(ForwardToNobody)
  /\ WF_vars(link = "closed" /\ ~ still /\ EndServing)

Spec == Init /\ [][Next]_vars /\ Fairness

-----------------------------------------------------------------------------
(* Properties *)

States == {"idle", "connecting", "connected", "failed", "disconnected"}

\* Type correctness; the server's connection ends at the client the app holds,
\* which has it as its connection.
TypeOK ==
  /\ client \in [transport : {"usb", "network"}, state : States,
                 connection : {"none", "starting", "ready", "ended", "cancelled"},
                 listening : BOOLEAN, handler : Kinds \cup {"none"}]
  /\ held \in BOOLEAN
  /\ made \in 0 .. MaxClients /\ attached \in Nat
  /\ stale \in Seq(Kinds) /\ late \in BOOLEAN
  /\ mainQueue \in Seq(States) /\ shown \in States
  /\ server \in {"off", "polling", "serving"}
  /\ own \in {"none", "running", "exited"} /\ (own = "none" <=> server = "off")
  /\ orphan \in BOOLEAN
  /\ started \in 0 .. MaxServers
  /\ link \in {"none", "proxy", "client", "closed"}
  /\ still \in BOOLEAN
  /\ link = "client" =>
       held /\ client.connection \in {"starting", "ready", "ended"} /\ server = "serving"

\* What the user sees is the state of the client the app holds, once the main
\* queue is empty, unless a handler of a client that had been stopped set a state
\* afterwards (AppModel.connect, disconnect; NetworkClient.stop; the hop of every
\* state to the main queue).
ShownIsCurrent ==
  mainQueue = <<>> /\ ~ late =>
    shown = CASE held -> client.state
              [] ~ held /\ made = 0 -> "idle"
              [] OTHER -> "disconnected"

\* A client never has a second connection: its readBuffer may end in the middle
\* of a message and is not emptied (the tests of connection in startUSB and start).
OneConnectionPerClient == attached <= 1

\* When the server or iproxy has gone, the iPad does not go on showing the stream
\* view, which has no way to connect again; a late handler excepted (receiveLoop).
LostLinkIsShown ==
  shown = "connected" /\ held /\ client.transport = "usb" /\ link # "client"
    ~> shown # "connected" \/ late

\* A started server gets a client or ends, or the desktop stands still: it does
\* not wait for a listener, since iproxy accepts for it, but it needs a frame to
\* find out that nobody is there (run_server, handle_client_usb).
ServesOrEnds == server # "off" ~> server = "off" \/ link = "client" \/ still

\* A server that starts while a client listens finds it, whether or not the desktop
\* changes: the client gets the connection unless it stops listening, or one of
\* the processes ends, or an iproxy left behind has the port (run_server, startUSB).
Listening == Waiting("usb") /\ client.connection = "none"
ListenerIsServed ==
  server = "polling" /\ Listening
    ~> \/ link = "client" \/ ~ Listening
       \/ server = "off" \/ own = "exited" \/ orphan
=============================================================================
