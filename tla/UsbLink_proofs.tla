--------------------------- MODULE UsbLink_proofs ---------------------------
(***************************************************************************)
(* The safety of UsbLink for every number of clients, servers and blocks   *)
(* on the main queue: type correctness, one connection per client, and     *)
(* what the user sees.                                                     *)
(*                                                                         *)
(* A client that may still take a connection has had none (Attachment).    *)
(* What is shown is behind by the main queue only: its last block is the   *)
(* client's state, or it is empty and the state is shown (ScreenFollows).  *)
(***************************************************************************)
EXTENDS UsbLink, TLAPS

\* The connection is the server's while it has one.
LinkOfServer == link # "none" => server = "serving"

\* Only a connection that was cancelled tells so, and only of a client that was
\* stopped.
Cancelled ==
  /\ client.handler = "cancelled" => client.connection = "cancelled"
  /\ client.connection = "cancelled" => ~ client.listening

\* A client that waits for a connection has had none.
Attachment ==
  attached <= 1 /\ (client.listening /\ client.connection = "none" => attached = 0)

\* The state the user should see.
Current ==
  CASE held -> client.state
    [] ~ held /\ made = 0 -> "idle"
    [] OTHER -> "disconnected"

\* The last block on the main queue brings the current state, or it is shown.
ScreenFollows ==
  /\ held => made > 0
  /\ client.handler # "none" => held
  /\ ~ late => IF mainQueue = <<>> THEN shown = Current
                                   ELSE mainQueue[Len(mainQueue)] = Current

IInv == TypeOK /\ LinkOfServer /\ Cancelled /\ Attachment /\ ScreenFollows

Client == [transport : {"usb", "network"}, state : States,
           connection : {"none", "starting", "ready", "ended", "cancelled"},
           listening : BOOLEAN, handler : Kinds \cup {"none"}]

-----------------------------------------------------------------------------
(* The helpers *)

\* A client that was just made.
LEMMA NewClientType ==
  /\ NewClient \in Client
  /\ NewClient.connection = "none" /\ NewClient.handler = "none"
  /\ NewClient.state = "idle" /\ NewClient.listening = FALSE
  BY DEF NewClient, Client, States, Kinds

\* The states of a start, the last of which the client is left in.
LEMMA StartedType ==
  ASSUME NEW t \in Transports, NEW states \in StartStates(t)
  PROVE  /\ states \in Seq(States) /\ Len(states) > 0
         /\ Started(t, states) \in Client
         /\ Started(t, states).state = states[Len(states)]
         /\ Started(t, states).connection = "none" /\ Started(t, states).handler = "none"
<1>1. \/ states = <<"connecting">>
      \/ states = <<"disconnected", "connecting">>
      \/ states = <<"disconnected", "connecting", "failed">>
  BY DEF StartStates
<1>2. /\ states \in Seq(States) /\ Len(states) > 0
      /\ Last(states) = states[Len(states)] /\ Last(states) \in States
  BY <1>1 DEF States, Last
<1>3. t \in {"usb", "network"}
  BY LinkAssumption
<1> QED
  BY <1>2, <1>3 DEF Started, NewClient, Client, Kinds

\* What a handler leaves.
LEMMA HandledType ==
  ASSUME NEW c \in Client, c.handler # "none"
  PROVE  /\ Handled(c) \in Client /\ StateAfter(c.handler) \in States
         /\ Handled(c).handler = "none" /\ Handled(c).state = StateAfter(c.handler)
         /\ Handled(c).connection \in {"none", "cancelled"} =>
              c.handler \in {"malformed", "cancelled"} \/ c.connection = Handled(c).connection
         /\ Handled(c).connection = "cancelled" /\ c.handler # "malformed" =>
              c.connection = "cancelled"
         /\ c.handler = "malformed" => ~ Handled(c).listening
         /\ Handled(c).listening => c.listening
         /\ Handled(c).listening /\ Handled(c).connection = "none" =>
              c.listening /\ (c.connection = "none" \/ c.handler = "cancelled")
<1> USE DEF Client, Kinds, States, Handled, StateAfter, Stopped
<1>1. CASE c.handler = "ready"
  BY <1>1
<1>2. CASE c.handler = "failed"
  BY <1>2
<1>3. CASE c.handler = "complete"
  BY <1>3
<1>4. CASE c.handler = "malformed"
  BY <1>4
<1>5. CASE c.handler = "cancelled"
  BY <1>5
<1>6. CASE c.handler = "down"
  BY <1>6
<1> QED
  BY <1>1, <1>2, <1>3, <1>4, <1>5, <1>6

\* The handlers that a stopped client leaves running.
LEMMA LeftoversType ==
  ASSUME client \in Client, stale \in Seq(Kinds), LetGo
  PROVE  stale' \in Seq(Kinds)
<1>1. ASSUME NEW leftover \in Leftovers PROVE leftover \in Seq(Kinds)
  <2>1. CASE leftover = <<>>
    BY <2>1
  <2>2. CASE leftover # <<>>
    <3>1. PICK k \in Kinds : leftover = <<k>>
      BY <2>2 DEF Leftovers, CancelCalls, Client, Kinds
    <3> QED
      BY <3>1
  <2> QED
    BY <2>1, <2>2
<1> QED
  BY <1>1 DEF LetGo

\* The notice of a stop is a sequence of states.
LEMMA StopNoticeType == StopNotice \in Seq(States)
<1>1. CASE held
  <2>1. StopNotice = <<"disconnected">> /\ "disconnected" \in States
    BY <1>1 DEF StopNotice, States
  <2> QED
    BY <2>1
<1>2. CASE ~ held
  BY <1>2 DEF StopNotice
<1> QED
  BY <1>1, <1>2

\* The last element of two sequences put together.
LEMMA LastOfTwo ==
  ASSUME NEW S, NEW s \in Seq(S), NEW t \in Seq(S), Len(t) > 0
  PROVE  s \o t \in Seq(S) /\ s \o t # <<>> /\ (s \o t)[Len(s \o t)] = t[Len(t)]
<1>1. s \o t \in Seq(S) /\ Len(s \o t) = Len(s) + Len(t)
  OBVIOUS
<1>2. (s \o t)[Len(s) + Len(t)] = t[Len(t)]
  OBVIOUS
<1> QED
  BY <1>1, <1>2

\* The last element after an append.
LEMMA LastOfAppend ==
  ASSUME NEW S, NEW s \in Seq(S), NEW e \in S
  PROVE  /\ Append(s, e) \in Seq(S) /\ Append(s, e) # <<>>
         /\ Append(s, e)[Len(Append(s, e))] = e
  OBVIOUS

\* RemoveAt gives a sequence of the same set.
LEMMA RemoveAtType ==
  ASSUME NEW S, NEW s \in Seq(S), NEW i \in 1 .. Len(s)
  PROVE  RemoveAt(s, i) \in Seq(S)
<1>1. SubSeq(s, 1, i - 1) \in Seq(S)
  BY SMTT(30)
<1>2. SubSeq(s, i + 1, Len(s)) \in Seq(S)
  BY SMTT(30)
<1> QED
  BY <1>1, <1>2 DEF RemoveAt

\* The first steps of a queue: taking its head leaves the last element, if any.
LEMMA LastOfTail ==
  ASSUME NEW S, NEW s \in Seq(S), s # <<>>
  PROVE  /\ Tail(s) \in Seq(S) /\ Head(s) \in S
         /\ IF Tail(s) = <<>> THEN Head(s) = s[Len(s)]
                              ELSE Tail(s)[Len(Tail(s))] = s[Len(s)]
<1>1. /\ Tail(s) \in Seq(S) /\ Head(s) = s[1] /\ Len(s) \in Nat /\ Len(s) > 0
      /\ s[1] \in S /\ Len(Tail(s)) = Len(s) - 1
  OBVIOUS
<1>2. ASSUME Len(s) = 1 PROVE Tail(s) = <<>>
  <2> DEFINE q == Tail(s)
  <2>1. q \in Seq(S) /\ Len(q) = 0
    BY <1>1, <1>2
  <2> HIDE DEF q
  <2>2. q = <<>>
    BY <2>1
  <2> QED
    BY <2>2 DEF q
<1>3. ASSUME Len(s) # 1 PROVE Tail(s) # <<>> /\ Tail(s)[Len(s) - 1] = s[Len(s)]
  BY <1>1, <1>3
<1> QED
  BY <1>1, <1>2, <1>3

-----------------------------------------------------------------------------
(* The invariants *)

\* They hold at first.
LEMMA InvInit == Init => IInv
<1> SUFFICES ASSUME Init PROVE IInv
  OBVIOUS
<1>1. TypeOK
  <2>1. "idle" \in States /\ client \in Client /\ client.connection = "none"
    BY NewClientType DEF Init, States
  <2>2. made \in 0 .. MaxClients /\ started \in 0 .. MaxServers
    BY LinkAssumption DEF Init
  <2>3. stale \in Seq(Kinds) /\ mainQueue \in Seq(States)
    BY DEF Init
  <2> QED
    BY <2>1, <2>2, <2>3 DEF Init, TypeOK, Client
<1> QED
  BY <1>1, NewClientType DEF Init, IInv, LinkOfServer, Cancelled, Attachment, ScreenFollows, Current

\* Each action keeps the types.
LEMMA TypeStep == TypeOK /\ LinkOfServer /\ Cancelled /\ [Next]_vars => TypeOK'
<1> SUFFICES ASSUME TypeOK, LinkOfServer, Cancelled, [Next]_vars PROVE TypeOK'
  OBVIOUS
<1> USE DEF TypeOK, Client
<1>1. CASE Connect
  <2> PICK t \in Transports : \E states \in StartStates(t) :
        client' = Started(t, states) /\ mainQueue' = mainQueue \o StopNotice \o states
    BY <1>1 DEF Connect
  <2>1. PICK states \in StartStates(t) :
          client' = Started(t, states) /\ mainQueue' = mainQueue \o StopNotice \o states
    OBVIOUS
  <2>2. client' \in Client /\ mainQueue' \in Seq(States)
    BY <2>1, StartedType, StopNoticeType
  <2>3. stale' \in Seq(Kinds)
    BY <1>1, LeftoversType DEF Connect
  <2> QED
    BY <1>1, <2>2, <2>3, LinkAssumption DEF Connect, LetGo, serverVars
<1>2. CASE Disconnect
  <2>1. client' \in Client /\ mainQueue' \in Seq(States)
    BY <1>2, NewClientType, StopNoticeType DEF Disconnect
  <2>2. stale' \in Seq(Kinds)
    BY <1>2, LeftoversType DEF Disconnect
  <2> QED
    BY <1>2, <2>1, <2>2, LinkAssumption DEF Disconnect, LetGo, States, serverVars
<1>3. CASE ShowState
  BY <1>3, LastOfTail DEF ShowState, clientVars, serverVars
<1>4. CASE EnterHandler
  <2>1. client' \in Client /\ client'.connection = client.connection
    BY <1>4 DEF EnterHandler, Calls, Client, Kinds
  <2> QED
    BY <1>4, <2>1 DEF EnterHandler, screenVars, serverVars
<1>5. CASE FinishHandler
  <2>1. /\ client' \in Client /\ mainQueue' \in Seq(States)
        /\ client'.connection \in {"none", "cancelled"} =>
             client.handler = "malformed" \/ client.connection \in {"none", "cancelled"}
    BY <1>5, HandledType DEF FinishHandler, Cancelled
  <2>2. link' = "client" =>
          /\ held' /\ client'.connection \in {"starting", "ready", "ended"}
          /\ server' = "serving"
    BY <1>5, <2>1 DEF FinishHandler, serverVars
  <2> QED
    BY <1>5, <2>1, <2>2 DEF FinishHandler, serverVars
<1>6. CASE FinishStale
  <2>1. PICK i \in DOMAIN stale :
          mainQueue' = Append(mainQueue, StateAfter(stale[i])) /\ stale' = RemoveAt(stale, i)
    BY <1>6 DEF FinishStale
  <2>2. StateAfter(stale[i]) \in States
    BY DEF StateAfter, States
  <2>3. mainQueue' \in Seq(States)
    BY <2>1, <2>2
  <2>4. stale' \in Seq(Kinds)
    BY <2>1, RemoveAtType
  <2> QED
    BY <1>6, <2>3, <2>4 DEF FinishStale, serverVars
<1>7. CASE OpenEndpoint
  <2>1. [client EXCEPT !.connection = "starting"] \in Client
    BY DEF Client
  <2> QED
    BY <1>7, <2>1 DEF OpenEndpoint, Attach, Waiting, Client, screenVars, serverVars, LinkOfServer
<1>8. CASE StartServer
  BY <1>8, LinkAssumption DEF StartServer, clientVars, screenVars, LinkOfServer
<1>9. CASE PollExited
  BY <1>9, LinkAssumption DEF PollExited, StopServer, clientVars, screenVars, LinkOfServer
<1>10. CASE PollConnect
  BY <1>10, LinkAssumption DEF PollConnect, clientVars, screenVars, LinkOfServer
<1>11. CASE ForwardToListener
  <2>1. [client EXCEPT !.connection = "starting"] \in Client
    BY DEF Client
  <2> QED
    BY <1>11, <2>1 DEF ForwardToListener, Attach, Waiting, Client, screenVars, serverVars, LinkOfServer
<1>12. CASE ForwardToNobody
  BY <1>12, LinkAssumption DEF ForwardToNobody, clientVars, screenVars, serverVars, LinkOfServer
<1>13. CASE EndServing
  BY <1>13, LinkAssumption DEF EndServing, StopServer, clientVars, screenVars, LinkOfServer
<1>14. CASE ProxyExits
  BY <1>14, LinkAssumption DEF ProxyExits, Cut, clientVars, screenVars, LinkOfServer
<1>15. CASE OrphanExits
  <2>1. link' \in {"none", "closed"}
    BY <1>15 DEF OrphanExits, Cut
  <2>2. orphan' \in BOOLEAN /\ UNCHANGED <<clientVars, screenVars, server, own, started, still>>
    BY <1>15, Zenon DEF OrphanExits
  <2> QED
    BY <2>1, <2>2 DEF clientVars, screenVars
<1>16. CASE KillServer
  BY <1>16, LinkAssumption DEF KillServer, clientVars, screenVars, LinkOfServer
<1>17. CASE ToggleStill
  BY <1>17, LinkAssumption DEF ToggleStill, clientVars, screenVars, serverVars, LinkOfServer
<1>18. CASE UNCHANGED vars
  BY <1>18 DEF vars, clientVars, screenVars, serverVars
<1> QED
  BY <1>1, <1>2, <1>3, <1>4, <1>5, <1>6, <1>7, <1>8, <1>9,
     <1>10, <1>11, <1>12, <1>13, <1>14, <1>15, <1>16, <1>17, <1>18 DEF Next

\* Each action keeps the connection the server's.
LEMMA LinkStep == TypeOK /\ LinkOfServer /\ [Next]_vars => LinkOfServer'
<1> SUFFICES ASSUME TypeOK, LinkOfServer, [Next]_vars PROVE LinkOfServer'
  OBVIOUS
<1> USE DEF LinkOfServer
<1>1. CASE Connect
  BY <1>1 DEF Connect, LetGo, TypeOK, serverVars
<1>2. CASE Disconnect
  BY <1>2 DEF Disconnect, LetGo, TypeOK, serverVars
<1>3. CASE ShowState
  BY <1>3 DEF ShowState, TypeOK, clientVars, serverVars
<1>4. CASE EnterHandler
  BY <1>4 DEF EnterHandler, TypeOK, screenVars, serverVars
<1>5. CASE FinishHandler
  BY <1>5 DEF FinishHandler, TypeOK, serverVars
<1>6. CASE FinishStale
  BY <1>6 DEF FinishStale, TypeOK, serverVars
<1>7. CASE OpenEndpoint
  BY <1>7 DEF OpenEndpoint, Attach, Waiting, TypeOK, screenVars, serverVars
<1>8. CASE StartServer
  BY <1>8 DEF StartServer, TypeOK, clientVars, screenVars
<1>9. CASE PollExited
  BY <1>9 DEF PollExited, StopServer, TypeOK, clientVars, screenVars
<1>10. CASE PollConnect
  BY <1>10 DEF PollConnect, TypeOK, clientVars, screenVars
<1>11. CASE ForwardToListener
  BY <1>11 DEF ForwardToListener, Attach, Waiting, TypeOK, screenVars, serverVars
<1>12. CASE ForwardToNobody
  BY <1>12 DEF ForwardToNobody, TypeOK, clientVars, screenVars, serverVars
<1>13. CASE EndServing
  BY <1>13 DEF EndServing, StopServer, TypeOK, clientVars, screenVars
<1>14. CASE ProxyExits
  BY <1>14 DEF ProxyExits, Cut, TypeOK, clientVars, screenVars
<1>15. CASE OrphanExits
  BY <1>15 DEF OrphanExits, Cut, TypeOK, clientVars, screenVars
<1>16. CASE KillServer
  BY <1>16 DEF KillServer, TypeOK, clientVars, screenVars
<1>17. CASE ToggleStill
  BY <1>17 DEF ToggleStill, TypeOK, clientVars, screenVars, serverVars
<1>18. CASE UNCHANGED vars
  BY <1>18 DEF vars, clientVars, screenVars, serverVars
<1> QED
  BY <1>1, <1>2, <1>3, <1>4, <1>5, <1>6, <1>7, <1>8, <1>9,
     <1>10, <1>11, <1>12, <1>13, <1>14, <1>15, <1>16, <1>17, <1>18 DEF Next

\* Each action keeps a cancelled connection one of a stopped client.
LEMMA CancelStep == TypeOK /\ Cancelled /\ [Next]_vars => Cancelled'
<1> SUFFICES ASSUME TypeOK, Cancelled, [Next]_vars PROVE Cancelled'
  OBVIOUS
<1> USE DEF Cancelled
<1>1. CASE Connect
  BY <1>1, StartedType DEF Connect
<1>2. CASE Disconnect
  BY <1>2, NewClientType DEF Disconnect
<1>3. CASE EnterHandler
  BY <1>3 DEF EnterHandler, Calls, TypeOK
<1>4. CASE FinishHandler
  BY <1>4, HandledType DEF FinishHandler, TypeOK, Client
<1>5. CASE OpenEndpoint \/ ForwardToListener
  BY <1>5 DEF OpenEndpoint, ForwardToListener, Attach, Waiting, TypeOK
<1>6. CASE ShowState \/ FinishStale \/ StartServer \/ PollExited \/ PollConnect
           \/ ForwardToNobody \/ EndServing \/ ToggleStill \/ ProxyExits \/ OrphanExits
           \/ KillServer \/ UNCHANGED vars
  BY <1>6 DEF ShowState, FinishStale, StartServer, PollExited, PollConnect, StopServer,
              ForwardToNobody, EndServing, ToggleStill, ProxyExits, OrphanExits, KillServer,
              vars, clientVars
<1> QED
  BY <1>1, <1>2, <1>3, <1>4, <1>5, <1>6 DEF Next

\* Each action keeps a waiting client without a connection before it.
LEMMA AttachStep == TypeOK /\ Cancelled /\ Attachment /\ [Next]_vars => Attachment'
<1> SUFFICES ASSUME TypeOK, Cancelled, Attachment, [Next]_vars PROVE Attachment'
  OBVIOUS
<1> USE DEF Attachment
<1>1. CASE Connect
  BY <1>1 DEF Connect
<1>2. CASE Disconnect
  BY <1>2 DEF Disconnect
<1>3. CASE ShowState
  BY <1>3 DEF ShowState, clientVars, serverVars
<1>4. CASE EnterHandler
  BY <1>4 DEF EnterHandler, TypeOK
<1>5. CASE FinishHandler
  BY <1>5, HandledType DEF FinishHandler, Cancelled, TypeOK, Client
<1>6. CASE FinishStale
  BY <1>6 DEF FinishStale, serverVars
<1>7. CASE OpenEndpoint
  BY <1>7 DEF OpenEndpoint, Attach, Waiting, TypeOK
<1>8. CASE StartServer
  BY <1>8 DEF StartServer, clientVars, screenVars
<1>9. CASE PollExited
  BY <1>9 DEF PollExited, StopServer, clientVars, screenVars
<1>10. CASE PollConnect
  BY <1>10 DEF PollConnect, clientVars, screenVars
<1>11. CASE ForwardToListener
  BY <1>11 DEF ForwardToListener, Attach, Waiting, TypeOK
<1>12. CASE ForwardToNobody
  BY <1>12 DEF ForwardToNobody, clientVars, screenVars, serverVars
<1>13. CASE EndServing
  BY <1>13 DEF EndServing, StopServer, clientVars, screenVars
<1>14. CASE ProxyExits
  BY <1>14 DEF ProxyExits, Cut, clientVars, screenVars
<1>15. CASE OrphanExits
  BY <1>15 DEF OrphanExits, Cut, clientVars, screenVars
<1>16. CASE KillServer
  BY <1>16 DEF KillServer, clientVars, screenVars
<1>17. CASE ToggleStill
  BY <1>17 DEF ToggleStill, clientVars, screenVars, serverVars
<1>18. CASE UNCHANGED vars
  BY <1>18 DEF vars, clientVars, screenVars, serverVars
<1> QED
  BY <1>1, <1>2, <1>3, <1>4, <1>5, <1>6, <1>7, <1>8, <1>9,
     <1>10, <1>11, <1>12, <1>13, <1>14, <1>15, <1>16, <1>17, <1>18 DEF Next

\* Each action keeps the screen behind by the main queue only.
LEMMA ScreenStep == TypeOK /\ ScreenFollows /\ [Next]_vars => ScreenFollows'
<1> SUFFICES ASSUME TypeOK, ScreenFollows, [Next]_vars PROVE ScreenFollows'
  OBVIOUS
<1> USE DEF ScreenFollows
<1>1. CASE Connect
  <2> PICK t \in Transports : \E states \in StartStates(t) :
        client' = Started(t, states) /\ mainQueue' = mainQueue \o StopNotice \o states
    BY <1>1 DEF Connect
  <2>1. PICK states \in StartStates(t) :
          client' = Started(t, states) /\ mainQueue' = mainQueue \o StopNotice \o states
    OBVIOUS
  <2>2. mainQueue \o StopNotice \in Seq(States)
    BY StopNoticeType DEF TypeOK
  <2>3. mainQueue' # <<>> /\ mainQueue'[Len(mainQueue')] = states[Len(states)]
    BY <2>1, <2>2, StartedType, LastOfTwo
  <2>4. client'.state = states[Len(states)] /\ client'.handler = "none"
    BY <2>1, StartedType
  <2>5. held' /\ made' > 0
    BY <1>1 DEF Connect, TypeOK
  <2> QED
    BY <2>3, <2>4, <2>5 DEF Current
<1>2. CASE Disconnect
  <2>1. held /\ StopNotice = <<"disconnected">> /\ mainQueue' = Append(mainQueue, "disconnected")
    BY <1>2 DEF Disconnect, StopNotice, TypeOK
  <2>2. mainQueue' # <<>> /\ mainQueue'[Len(mainQueue')] = "disconnected"
    BY <2>1, LastOfAppend DEF TypeOK, States
  <2>3. ~ held' /\ made' > 0 /\ client'.handler = "none"
    BY <1>2, <2>1, NewClientType DEF Disconnect
  <2> QED
    BY <2>2, <2>3 DEF Current, TypeOK
<1>3. CASE ShowState
  <2>1. /\ mainQueue # <<>> /\ shown' = Head(mainQueue) /\ mainQueue' = Tail(mainQueue)
        /\ UNCHANGED <<held, made, client, late>>
    BY <1>3 DEF ShowState, clientVars
  <2>2. IF mainQueue' = <<>> THEN shown' = mainQueue[Len(mainQueue)]
                             ELSE mainQueue'[Len(mainQueue')] = mainQueue[Len(mainQueue)]
    BY <2>1, LastOfTail DEF TypeOK
  <2>3. Current' = Current
    BY <2>1 DEF Current
  <2> QED
    BY <2>1, <2>2, <2>3
<1>4. CASE EnterHandler
  BY <1>4 DEF EnterHandler, Current, TypeOK, screenVars
<1>5. CASE FinishHandler
  <2>1. /\ held /\ client.handler # "none" /\ client' = Handled(client)
        /\ mainQueue' = Append(mainQueue, StateAfter(client.handler))
        /\ UNCHANGED <<held, made, late>>
    BY <1>5 DEF FinishHandler
  <2>2. /\ StateAfter(client.handler) \in States /\ client'.handler = "none"
        /\ client'.state = StateAfter(client.handler)
    BY <2>1, HandledType DEF TypeOK, Client
  <2>3. mainQueue' # <<>> /\ mainQueue'[Len(mainQueue')] = client'.state
    BY <2>1, <2>2, LastOfAppend DEF TypeOK
  <2> QED
    BY <2>1, <2>2, <2>3 DEF Current
<1>6. CASE FinishStale
  BY <1>6 DEF FinishStale, serverVars
<1>7. CASE OpenEndpoint
  BY <1>7 DEF OpenEndpoint, Attach, Waiting, Current, TypeOK, screenVars
<1>8. CASE StartServer
  BY <1>8 DEF StartServer, Current, clientVars, screenVars
<1>9. CASE PollExited
  BY <1>9 DEF PollExited, StopServer, Current, clientVars, screenVars
<1>10. CASE PollConnect
  BY <1>10 DEF PollConnect, Current, clientVars, screenVars
<1>11. CASE ForwardToListener
  BY <1>11 DEF ForwardToListener, Attach, Waiting, Current, TypeOK, screenVars
<1>12. CASE ForwardToNobody
  BY <1>12 DEF ForwardToNobody, Current, clientVars, screenVars, serverVars
<1>13. CASE EndServing
  BY <1>13 DEF EndServing, StopServer, Current, clientVars, screenVars
<1>14. CASE ProxyExits
  BY <1>14 DEF ProxyExits, Cut, Current, clientVars, screenVars
<1>15. CASE OrphanExits
  BY <1>15 DEF OrphanExits, Cut, Current, clientVars, screenVars
<1>16. CASE KillServer
  BY <1>16 DEF KillServer, Current, clientVars, screenVars
<1>17. CASE ToggleStill
  BY <1>17 DEF ToggleStill, Current, clientVars, screenVars, serverVars
<1>18. CASE UNCHANGED vars
  BY <1>18 DEF vars, clientVars, screenVars, serverVars, Current
<1> QED
  BY <1>1, <1>2, <1>3, <1>4, <1>5, <1>6, <1>7, <1>8, <1>9,
     <1>10, <1>11, <1>12, <1>13, <1>14, <1>15, <1>16, <1>17, <1>18 DEF Next

-----------------------------------------------------------------------------
(* The theorems *)

\* The inductive invariant holds.
LEMMA Inductive == Spec => []IInv
<1>1. IInv /\ [Next]_vars => IInv'
  BY TypeStep, LinkStep, CancelStep, AttachStep, ScreenStep DEF IInv
<1> QED
  BY <1>1, InvInit, PTL DEF Spec

\* TypeOK of the run `usb`: the server's connection ends at the client the app
\* holds, for every number of clients, servers and queued blocks.
THEOREM TypeCorrect == Spec => []TypeOK
<1>1. IInv => TypeOK
  BY DEF IInv
<1> QED
  BY <1>1, Inductive, PTL

\* OneConnectionPerClient of the run `usb`: whatever handlers, stops and servers
\* come in between, a client has one connection and one stream to parse.
THEOREM OneConnection == Spec => []OneConnectionPerClient
<1>1. IInv => OneConnectionPerClient
  BY DEF IInv, Attachment, OneConnectionPerClient
<1> QED
  BY <1>1, Inductive, PTL

\* ShownIsCurrent of the run `usb`: the order of the main queue is enough for the
\* screen to end at the client's state, unless a stopped client's handler was late.
THEOREM ScreenCurrent == Spec => []ShownIsCurrent
<1>1. IInv => ShownIsCurrent
  BY DEF IInv, ScreenFollows, Current, ShownIsCurrent
<1> QED
  BY <1>1, Inductive, PTL
=============================================================================
