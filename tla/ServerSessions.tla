--------------------------- MODULE ServerSessions ---------------------------
(***************************************************************************)
(* The threads of the network server across connections: the accept loop   *)
(* of run_server, one handle_client per connection with its writer loop    *)
(* and its reader thread, and the registration thread of VideoUdp, which   *)
(* all connections share.  iPads connect, disconnect and connect again.    *)
(*                                                                         *)
(* A session is <<d, k>>: the k-th connection of iPad d, d standing for    *)
(* its address.  The writer compares its frame counter with 2 and nothing  *)
(* else, so the counter stops at Many.  Which frame goes out is the        *)
(* business of VideoDelivery; here it matters whether a thread still runs, *)
(* whether it writes to the TCP stream, and whom it sends datagrams to.    *)
(***************************************************************************)
EXTENDS Integers, FiniteSets

CONSTANTS Devices,     \* the iPads, each with an address of its own
          MaxSessions  \* bound: connections of all iPads together

ASSUME SessionsAssumption ==
  /\ IsFiniteSet(Devices) /\ Devices # {}
  /\ MaxSessions \in Nat \ {0}

Sessions == Devices \X (1 .. MaxSessions)
Many == 3

VARIABLES
  latest,       \* [iPad -> its connections so far]
  connection,   \* the iPad's end of each TCP connection: "none", "open", "closed"
  writer,       \* handle_client: "none", "setup", "stream", "done"
  reader,       \* its reader thread: "none", "run", "done"
  frame_count, sent_reliable_keyframe,  \* locals of the writer loop
  tmreg,        \* the TMREG1 of a session: "none", "flight", "inbox", "taken"
  clients,      \* VideoUdp.clients: [iPad -> the session registered last, or 0]
  stop,         \* VideoUdp.stop, shared by every clone
  registrar     \* the registration thread: "check", "recv" or "done"

threadVars == <<writer, reader, frame_count, sent_reliable_keyframe>>
udpVars == <<tmreg, clients, stop, registrar>>
vars == <<latest, connection, threadVars, udpVars>>

Init ==
  /\ latest = [d \in Devices |-> 0]
  /\ connection = [s \in Sessions |-> "none"]
  /\ writer = [s \in Sessions |-> "none"]
  /\ reader = [s \in Sessions |-> "none"]
  /\ frame_count = [s \in Sessions |-> 0]
  /\ sent_reliable_keyframe = [s \in Sessions |-> FALSE]
  /\ tmreg = [s \in Sessions |-> "none"]
  /\ clients = [d \in Devices |-> 0]
  /\ stop = FALSE
  /\ registrar = "check"

-----------------------------------------------------------------------------
(* The iPads *)

\* A new NetworkClient connects, the previous one having been stopped; the
\* accept loop takes the connection and starts its thread.
Connect(d) ==
  /\ Cardinality({s \in Sessions : connection[s] # "none"}) < MaxSessions
  /\ latest[d] > 0 => connection[<<d, latest[d]>>] = "closed"
  /\ latest' = [latest EXCEPT ![d] = @ + 1]
  /\ connection' = [connection EXCEPT ![<<d, latest'[d]>>] = "open"]
  /\ writer' = [writer EXCEPT ![<<d, latest'[d]>>] = "setup"]
  /\ UNCHANGED <<reader, frame_count, sent_reliable_keyframe, udpVars>>

\* `stop()`: the user disconnects, or the app goes away.
Disconnect(s) ==
  /\ connection[s] = "open"
  /\ connection' = [connection EXCEPT ![s] = "closed"]
  /\ UNCHANGED <<latest, threadVars, udpVars>>

\* The client handles the hello, which the server wrote before it started the
\* reader thread, and sends TMREG1 once.
HandleHello(s) ==
  /\ connection[s] = "open"
  /\ reader[s] # "none" /\ tmreg[s] = "none"
  /\ tmreg' = [tmreg EXCEPT ![s] = "flight"]
  /\ UNCHANGED <<latest, connection, threadVars, clients, stop, registrar>>

\* The datagram gets to the server's socket; one that is lost never does.
ArriveTmreg(s) ==
  /\ tmreg[s] = "flight"
  /\ tmreg' = [tmreg EXCEPT ![s] = "inbox"]
  /\ UNCHANGED <<latest, connection, threadVars, clients, stop, registrar>>

-----------------------------------------------------------------------------
(* handle_client *)

\* handle_client returns, with an error or not: its capture, encoder and
\* locals go, and so does its VideoUdp, whose Drop sets the shared flag.
EndClient(s) ==
  /\ writer' = [writer EXCEPT ![s] = "done"]
  /\ frame_count' = [frame_count EXCEPT ![s] = 0]
  /\ sent_reliable_keyframe' = [sent_reliable_keyframe EXCEPT ![s] = FALSE]
  /\ stop' = TRUE

\* The capture, the encoder and the injector are created, the hello written
\* and the reader thread started; a failure of any of them ends the session.
Setup(s) ==
  /\ writer[s] = "setup"
  /\ \/ /\ writer' = [writer EXCEPT ![s] = "stream"]
        /\ reader' = [reader EXCEPT ![s] = "run"]
        /\ UNCHANGED <<frame_count, sent_reliable_keyframe, stop>>
     \/ EndClient(s) /\ UNCHANGED reader
  /\ UNCHANGED <<latest, connection, tmreg, clients, registrar>>

\* `has_client`, for the address of the session's peer.
has_client(s) == clients[s[1]] # 0

\* Does the writer put this unit on the TCP stream, where alone it can notice
\* that the peer has gone?
WritesTcp(s, n, keyframe) ==
  \/ keyframe /\ ~ sent_reliable_keyframe[s]
  \/ n <= 2 /\ ~ has_client(s)

\* One turn of the writer loop with a captured frame.  The encoder may return
\* nothing, and then nothing is sent.
WriteFrame(s) ==
  LET n == IF frame_count[s] < Many THEN frame_count[s] + 1 ELSE Many IN
  /\ writer[s] = "stream"
  /\ frame_count' = [frame_count EXCEPT ![s] = n]
  /\ \/ UNCHANGED sent_reliable_keyframe
     \/ \E keyframe \in BOOLEAN :
          /\ WritesTcp(s, n, keyframe)
          /\ sent_reliable_keyframe' = [sent_reliable_keyframe EXCEPT ![s] = @ \/ keyframe]
  /\ UNCHANGED <<latest, connection, writer, reader, udpVars>>

\* The write to a connection that the peer has closed fails.
WriteError(s) ==
  /\ writer[s] = "stream"
  /\ connection[s] = "closed"
  /\ \E keyframe \in BOOLEAN : WritesTcp(s, frame_count[s] + 1, keyframe)
  /\ EndClient(s)
  /\ UNCHANGED <<latest, connection, reader, tmreg, clients, registrar>>

\* encode_frame returns an error, a timeout or a failed call of the encoder; or
\* the capture has closed.
EncodeError(s) ==
  /\ writer[s] = "stream"
  /\ EndClient(s)
  /\ UNCHANGED <<latest, connection, reader, tmreg, clients, registrar>>

\* read_message fails once the peer has closed the connection, and the reader
\* thread returns.  Nobody joins it and it tells nobody.
ReadEnd(s) ==
  /\ reader[s] = "run"
  /\ connection[s] = "closed"
  /\ reader' = [reader EXCEPT ![s] = "done"]
  /\ UNCHANGED <<latest, connection, writer, frame_count, sent_reliable_keyframe, udpVars>>

-----------------------------------------------------------------------------
(* The registration thread *)

\* Mutant of RegistrarCheck: the thread ends when an iPad has registered.
RegistrarCheckOnce ==
  /\ registrar = "check"
  /\ registrar' = IF stop \/ \E d \in Devices : clients[d] # 0 THEN "done" ELSE "recv"
  /\ UNCHANGED <<latest, connection, threadVars, tmreg, clients, stop>>

\* The stop flag is looked at before every receive.
RegistrarCheck ==
  /\ registrar = "check"
  /\ registrar' = IF stop THEN "done" ELSE "recv"
  /\ UNCHANGED <<latest, connection, threadVars, tmreg, clients, stop>>

\* Mutants of RegistrarRecv: an empty socket ends the thread; the client is
\* stored under any address.
RegistrarRecvOrDie ==
  /\ registrar = "recv"
  /\ registrar' = IF \E s \in Sessions : tmreg[s] = "inbox" THEN "check" ELSE "done"
  /\ \A s \in Sessions : tmreg[s] # "inbox"
  /\ UNCHANGED <<latest, connection, threadVars, tmreg, clients, stop>>
RegistrarRecvAnyAddress ==
  /\ registrar = "recv"
  /\ registrar' = "check"
  /\ \E s \in Sessions, d \in Devices :
       /\ tmreg[s] = "inbox"
       /\ tmreg' = [tmreg EXCEPT ![s] = "taken"]
       /\ clients' = [clients EXCEPT ![d] = s[2]]
  /\ UNCHANGED <<latest, connection, threadVars, stop>>

\* `recv_from` on the non-blocking socket: a datagram, if one is there.
RegistrarRecv ==
  /\ registrar = "recv"
  /\ registrar' = "check"
  /\ IF \A s \in Sessions : tmreg[s] # "inbox"
     THEN UNCHANGED <<tmreg, clients>>
     ELSE \E s \in Sessions :
            /\ tmreg[s] = "inbox"
            /\ tmreg' = [tmreg EXCEPT ![s] = "taken"]
            /\ clients' = [clients EXCEPT ![s[1]] = s[2]]
  /\ UNCHANGED <<latest, connection, threadVars, stop>>

Next ==
  \/ \E d \in Devices : Connect(d)
  \/ \E s \in Sessions :
       \/ Disconnect(s) \/ HandleHello(s) \/ ArriveTmreg(s)
       \/ Setup(s) \/ WriteFrame(s) \/ WriteError(s) \/ EncodeError(s)
       \/ ReadEnd(s)
  \/ RegistrarCheck \/ RegistrarRecv

\* Every server thread that can go on does; frames keep coming (a desktop that
\* changes), encoders need not fail, and the iPads do as they like.
Fairness ==
  /\ \A s \in Sessions : WF_vars(Setup(s)) /\ WF_vars(WriteFrame(s)) /\ WF_vars(ReadEnd(s))
  /\ WF_vars(RegistrarCheck) /\ WF_vars(RegistrarRecv)

Spec == Init /\ [][Next]_vars /\ Fairness

-----------------------------------------------------------------------------
(* Properties *)

\* Type correctness: the client registered under an address is one of the
\* connections that came from there.
TypeOK ==
  /\ latest \in [Devices -> 0 .. MaxSessions]
  /\ connection \in [Sessions -> {"none", "open", "closed"}]
  /\ writer \in [Sessions -> {"none", "setup", "stream", "done"}]
  /\ reader \in [Sessions -> {"none", "run", "done"}]
  /\ frame_count \in [Sessions -> 0 .. Many]
  /\ sent_reliable_keyframe \in [Sessions -> BOOLEAN]
  /\ tmreg \in [Sessions -> {"none", "flight", "inbox", "taken"}]
  /\ clients \in [Devices -> Nat] /\ \A d \in Devices : clients[d] <= latest[d]
  /\ stop \in BOOLEAN
  /\ registrar \in {"check", "recv", "done"}

\* The registration thread lives as long as no connection has ended: neither
\* an empty socket nor a registration nor a disconnect alone ends it.
RegistrarOutlivesSessions ==
  registrar = "done" => \E s \in Sessions : writer[s] = "done"

\* A TMREG1 that reached the socket is registered, however many iPads register
\* at the same time, unless some connection has ended by then.
RegistrationServed ==
  \A s \in Sessions : tmreg[s] = "inbox" ~> tmreg[s] = "taken" \/ stop

\* "Reconnect works twice without restarting either device"
\* (system-spec.md:45): a connection that lasts has its TMREG1 registered, whatever
\* became of the connections before it.
ReconnectRegisters ==
  \A s \in Sessions :
    tmreg[s] = "inbox" ~> tmreg[s] = "taken" \/ connection[s] = "closed" \/ writer[s] = "done"

\* "TCP disconnect must stop the writer loop" (network-transport-spec.md:18).
DisconnectStopsWriter ==
  \A s \in Sessions : connection[s] = "closed" ~> writer[s] = "done"
=============================================================================
