----------------------- MODULE ServerSessions_proofs -----------------------
(***************************************************************************)
(* The safety of ServerSessions for every set of iPads and every number of *)
(* connections: type correctness, and the life of the registration thread. *)
(***************************************************************************)
EXTENDS ServerSessions, FiniteSetTheorems, FunctionTheorems, TLAPS

\* The types proper, without what relates the counters.
Types ==
  /\ latest \in [Devices -> Nat]
  /\ connection \in [Sessions -> {"none", "open", "closed"}]
  /\ writer \in [Sessions -> {"none", "setup", "stream", "done"}]
  /\ reader \in [Sessions -> {"none", "run", "done"}]
  /\ frame_count \in [Sessions -> 0 .. Many]
  /\ sent_reliable_keyframe \in [Sessions -> BOOLEAN]
  /\ tmreg \in [Sessions -> {"none", "flight", "inbox", "taken"}]
  /\ clients \in [Devices -> Nat]
  /\ stop \in BOOLEAN
  /\ registrar \in {"check", "recv", "done"}

\* The k-th connection of an iPad exists as soon as it has had k of them, and
\* nothing of it does before: a new connection finds no trace of itself.
SessionsInOrder ==
  \A s \in Sessions :
    /\ connection[s] # "none" <=> s[2] <= latest[s[1]]
    /\ connection[s] = "none" => writer[s] = "none" /\ reader[s] = "none" /\ tmreg[s] = "none"

\* No iPad has had more connections than there are; its registration is one of
\* them.
WithinBounds ==
  \A d \in Devices : latest[d] <= MaxSessions /\ clients[d] <= latest[d]

\* The flag, which every VideoUdp shares, is set by one that was dropped.
StoppedByDrop ==
  /\ stop => \E s \in Sessions : writer[s] = "done"
  /\ registrar = "done" => stop

\* The inductive invariant.
IInv == Types /\ SessionsInOrder /\ WithinBounds /\ StoppedByDrop

-----------------------------------------------------------------------------
(* Sessions *)

\* A session is an iPad and a number.
LEMMA SessionParts ==
  ASSUME NEW s \in Sessions
  PROVE  /\ s[1] \in Devices /\ s[2] \in 1 .. MaxSessions /\ s[2] \in Nat
         /\ s = <<s[1], s[2]>>
BY SessionsAssumption DEF Sessions

\* While there is a connection left, every iPad has had fewer than there are.
LEMMA RoomForOne ==
  ASSUME IInv, NEW d \in Devices,
         Cardinality({s \in Sessions : connection[s] # "none"}) < MaxSessions
  PROVE  latest[d] < MaxSessions
<1> DEFINE Made == {s \in Sessions : connection[s] # "none"}
           Own == {<<d, k>> : k \in 1 .. latest[d]}
           F == [k \in 1 .. latest[d] |-> <<d, k>>]
<1>1. latest[d] \in Nat /\ latest[d] <= MaxSessions /\ MaxSessions \in Nat
  BY SessionsAssumption DEF IInv, Types, WithinBounds
<1>2. IsFiniteSet(Made)
  <2>1. IsFiniteSet(1 .. MaxSessions)
    BY <1>1, FS_Interval
  <2>2. IsFiniteSet(Sessions)
    BY <2>1, SessionsAssumption, FS_Product DEF Sessions
  <2> QED BY <2>2, FS_Subset
<1>3. Own \subseteq Made
  <2> SUFFICES ASSUME NEW k \in 1 .. latest[d] PROVE <<d, k>> \in Made
    OBVIOUS
  <2>1. <<d, k>> \in Sessions
    BY <1>1 DEF Sessions
  <2> QED BY <2>1 DEF IInv, SessionsInOrder
<1>4. Cardinality(Own) = latest[d]
  <2>1. F \in Bijection(1 .. latest[d], Own)
    <3>1. F \in [1 .. latest[d] -> Own]
      OBVIOUS
    <3>2. \A a, b \in 1 .. latest[d] : F[a] = F[b] => a = b
      OBVIOUS
    <3>3. \A t \in Own : \E k \in 1 .. latest[d] : F[k] = t
      OBVIOUS
    <3> HIDE DEF F, Own
    <3> QED BY <3>1, <3>2, <3>3, Fun_IsBij
  <2> HIDE DEF F, Own
  <2>2. ExistsBijection(1 .. latest[d], Own)
    BY <2>1, Fun_ExistsBij
  <2> QED BY <1>1, <2>2, FS_CountingElements
<1>5. Cardinality(Own) <= Cardinality(Made) /\ Cardinality(Made) \in Nat
  <2> HIDE DEF Own, Made
  <2> QED BY <1>2, <1>3, FS_Subset, FS_CardinalityType
<1> QED BY <1>1, <1>4, <1>5

-----------------------------------------------------------------------------
(* The invariant, action by action *)

\* Nothing has happened.
LEMMA InitInvariant == Init => IInv
<1> SUFFICES ASSUME Init PROVE IInv
  OBVIOUS
<1>1. Types
  <2>1. frame_count \in [Sessions -> 0 .. Many] /\ sent_reliable_keyframe \in [Sessions -> BOOLEAN]
    BY DEF Init, Many
  <2>2. latest \in [Devices -> Nat] /\ clients \in [Devices -> Nat]
    BY DEF Init
  <2>3. /\ connection \in [Sessions -> {"none", "open", "closed"}]
        /\ writer \in [Sessions -> {"none", "setup", "stream", "done"}]
        /\ reader \in [Sessions -> {"none", "run", "done"}]
        /\ tmreg \in [Sessions -> {"none", "flight", "inbox", "taken"}]
    BY DEF Init
  <2> QED BY <2>1, <2>2, <2>3 DEF Init, Types
<1>2. SessionsInOrder
  BY SessionParts DEF Init, SessionsInOrder
<1>3. WithinBounds /\ StoppedByDrop
  BY SessionsAssumption DEF Init, WithinBounds, StoppedByDrop
<1> QED BY <1>1, <1>2, <1>3 DEF IInv

\* The new session is the next one of its iPad, and was not there before.
LEMMA ConnectStep == ASSUME IInv, NEW d \in Devices, Connect(d) PROVE IInv'
<1> USE DEF IInv
<1> DEFINE new == <<d, latest[d] + 1>>
<1>1. latest[d] \in Nat /\ latest[d] < MaxSessions /\ MaxSessions \in Nat
  BY RoomForOne, SessionsAssumption DEF Connect, Types
<1>2. new \in Sessions
  BY <1>1 DEF Sessions
<1>3. /\ latest' = [latest EXCEPT ![d] = @ + 1]
      /\ connection' = [connection EXCEPT ![new] = "open"]
      /\ writer' = [writer EXCEPT ![new] = "setup"]
      /\ UNCHANGED <<reader, frame_count, sent_reliable_keyframe, udpVars>>
  BY DEF Connect, Types
<1>4. connection[new] = "none" /\ writer[new] = "none"
  <2>1. ~ (new[2] <= latest[new[1]])
    BY <1>1
  <2> QED BY <1>2, <2>1 DEF Types, SessionsInOrder
<1>5. Types'
  BY <1>1, <1>2, <1>3 DEF Types, udpVars
<1>6. SessionsInOrder'
  <2> SUFFICES ASSUME NEW s \in Sessions
               PROVE  /\ connection'[s] # "none" <=> s[2] <= latest'[s[1]]
                      /\ connection'[s] = "none" =>
                           writer'[s] = "none" /\ reader'[s] = "none" /\ tmreg'[s] = "none"
    BY DEF SessionsInOrder
  <2>1. CASE s = new
    BY <1>1, <1>2, <1>3, <2>1 DEF Types
  <2>2. CASE s # new
    <3>1. connection'[s] = connection[s] /\ writer'[s] = writer[s]
          /\ reader'[s] = reader[s] /\ tmreg'[s] = tmreg[s]
      BY <1>2, <1>3, <2>2 DEF Types, udpVars
    <3>2. s[2] <= latest'[s[1]] <=> s[2] <= latest[s[1]]
      <4>1. CASE s[1] = d
        <5>1. s[2] # latest[d] + 1 /\ s[2] \in Nat
          BY <2>2, <4>1, SessionParts
        <5> QED BY <1>1, <1>3, <4>1, <5>1 DEF Types
      <4>2. CASE s[1] # d
        BY <1>3, <4>2, SessionParts DEF Types
      <4> QED BY <4>1, <4>2
    <3> QED BY <3>1, <3>2 DEF SessionsInOrder
  <2> QED BY <2>1, <2>2
<1>7. WithinBounds'
  BY <1>1, <1>3 DEF WithinBounds, Types, udpVars
<1>8. StoppedByDrop'
  BY <1>2, <1>3, <1>4 DEF StoppedByDrop, Types, udpVars
<1> QED BY <1>5, <1>6, <1>7, <1>8

\* What the iPad does with a session that is there.
LEMMA ClientSteps ==
  ASSUME IInv, NEW s \in Sessions, Disconnect(s) \/ HandleHello(s) \/ ArriveTmreg(s)
  PROVE  IInv'
<1> USE DEF IInv
<1>1. CASE Disconnect(s)
  <2>1. Types'
    BY <1>1 DEF Disconnect, Types, threadVars, udpVars
  <2>2. SessionsInOrder'
    BY <1>1 DEF Disconnect, SessionsInOrder, Types, threadVars, udpVars
  <2>3. WithinBounds' /\ StoppedByDrop'
    BY <1>1 DEF Disconnect, WithinBounds, StoppedByDrop, threadVars, udpVars
  <2> QED BY <2>1, <2>2, <2>3
<1>2. CASE HandleHello(s)
  <2>1. Types'
    BY <1>2 DEF HandleHello, Types, threadVars
  <2>2. SessionsInOrder'
    BY <1>2 DEF HandleHello, SessionsInOrder, Types, threadVars
  <2>3. WithinBounds' /\ StoppedByDrop'
    BY <1>2 DEF HandleHello, WithinBounds, StoppedByDrop, threadVars
  <2> QED BY <2>1, <2>2, <2>3
<1>3. CASE ArriveTmreg(s)
  <2>1. Types'
    BY <1>3 DEF ArriveTmreg, Types, threadVars
  <2>2. SessionsInOrder'
    BY <1>3 DEF ArriveTmreg, SessionsInOrder, Types, threadVars
  <2>3. WithinBounds' /\ StoppedByDrop'
    BY <1>3 DEF ArriveTmreg, WithinBounds, StoppedByDrop, threadVars
  <2> QED BY <2>1, <2>2, <2>3
<1> QED BY <1>1, <1>2, <1>3

\* The end of a session that is there leaves the witness for the flag.
LEMMA EndClientStep ==
  ASSUME IInv, NEW s \in Sessions, writer[s] # "none", EndClient(s),
         UNCHANGED <<latest, connection, reader, tmreg, clients, registrar>>
  PROVE  IInv'
<1> USE DEF IInv
<1>1. Types'
  BY DEF EndClient, Types, Many
<1>2. SessionsInOrder'
  BY DEF EndClient, SessionsInOrder, Types
<1>3. WithinBounds'
  BY DEF WithinBounds
<1>4. StoppedByDrop'
  BY DEF EndClient, StoppedByDrop, Types
<1> QED BY <1>1, <1>2, <1>3, <1>4

\* handle_client starts its threads, or ends.
LEMMA SetupStep == ASSUME IInv, NEW s \in Sessions, Setup(s) PROVE IInv'
<1>1. CASE EndClient(s) /\ UNCHANGED reader
  BY <1>1, EndClientStep DEF Setup
<1>2. CASE /\ writer' = [writer EXCEPT ![s] = "stream"]
           /\ reader' = [reader EXCEPT ![s] = "run"]
           /\ UNCHANGED <<frame_count, sent_reliable_keyframe, stop>>
  <2> USE DEF IInv
  <2>1. writer[s] = "setup" /\ UNCHANGED <<latest, connection, tmreg, clients, registrar>>
    BY DEF Setup
  <2>2. Types'
    BY <1>2, <2>1 DEF Types
  <2>3. SessionsInOrder'
    BY <1>2, <2>1 DEF SessionsInOrder, Types
  <2>4. WithinBounds' /\ StoppedByDrop'
    BY <1>2, <2>1 DEF WithinBounds, StoppedByDrop, Types
  <2> QED BY <2>2, <2>3, <2>4
<1> QED BY <1>1, <1>2 DEF Setup

\* A frame changes the counter and the keyframe flag alone.
LEMMA WriteFrameStep == ASSUME IInv, NEW s \in Sessions, WriteFrame(s) PROVE IInv'
<1> USE DEF IInv
<1>1. /\ frame_count' \in [Sessions -> 0 .. Many]
      /\ UNCHANGED <<latest, connection, writer, reader, udpVars>>
  BY DEF WriteFrame, Types, Many
<1>2. sent_reliable_keyframe' \in [Sessions -> BOOLEAN]
  <2>1. CASE UNCHANGED sent_reliable_keyframe
    BY <2>1 DEF Types
  <2>2. ASSUME NEW keyframe \in BOOLEAN,
               sent_reliable_keyframe' = [sent_reliable_keyframe EXCEPT ![s] = @ \/ keyframe]
        PROVE  sent_reliable_keyframe' \in [Sessions -> BOOLEAN]
    BY <2>2 DEF Types
  <2> QED BY <2>1, <2>2 DEF WriteFrame
<1>3. Types'
  BY <1>1, <1>2 DEF Types, udpVars
<1>4. SessionsInOrder' /\ WithinBounds' /\ StoppedByDrop'
  BY <1>1 DEF SessionsInOrder, WithinBounds, StoppedByDrop, udpVars
<1> QED BY <1>3, <1>4

\* The reader thread returns.
LEMMA ReadEndStep == ASSUME IInv, NEW s \in Sessions, ReadEnd(s) PROVE IInv'
<1> USE DEF IInv
<1>1. Types'
  BY DEF ReadEnd, Types, udpVars
<1>2. SessionsInOrder'
  BY DEF ReadEnd, SessionsInOrder, Types, udpVars
<1>3. WithinBounds' /\ StoppedByDrop'
  BY DEF ReadEnd, WithinBounds, StoppedByDrop, udpVars
<1> QED BY <1>1, <1>2, <1>3

\* The registration thread ends when the flag is set, and stores a connection
\* that has been made.
LEMMA RegistrarSteps == ASSUME IInv, RegistrarCheck \/ RegistrarRecv PROVE IInv'
<1> USE DEF IInv
<1>1. CASE RegistrarCheck
  <2>1. Types' /\ WithinBounds' /\ SessionsInOrder'
    BY <1>1 DEF RegistrarCheck, Types, WithinBounds, SessionsInOrder, threadVars
  <2>2. StoppedByDrop'
    BY <1>1 DEF RegistrarCheck, StoppedByDrop, threadVars
  <2> QED BY <2>1, <2>2
<1>2. CASE RegistrarRecv
  <2>1. /\ registrar = "recv" /\ registrar' = "check"
        /\ UNCHANGED <<latest, connection, threadVars, stop>>
    BY <1>2 DEF RegistrarRecv
  <2>2. StoppedByDrop'
    BY <2>1 DEF StoppedByDrop, threadVars
  <2>3. CASE UNCHANGED <<tmreg, clients>>
    BY <2>1, <2>2, <2>3 DEF Types, WithinBounds, SessionsInOrder, threadVars
  <2>4. ASSUME NEW s \in Sessions, tmreg[s] = "inbox",
               tmreg' = [tmreg EXCEPT ![s] = "taken"],
               clients' = [clients EXCEPT ![s[1]] = s[2]]
        PROVE  IInv'
    <3>1. s[1] \in Devices /\ s[2] \in Nat /\ s[2] <= latest[s[1]]
      BY <2>4, SessionParts DEF SessionsInOrder
    <3>2. Types'
      BY <2>1, <2>4, <3>1 DEF Types, threadVars
    <3>3. SessionsInOrder'
      BY <2>1, <2>4 DEF SessionsInOrder, Types, threadVars
    <3>4. WithinBounds'
      BY <2>1, <2>4, <3>1 DEF WithinBounds, Types
    <3> QED BY <2>2, <3>2, <3>3, <3>4
  <2> QED BY <1>2, <2>3, <2>4 DEF RegistrarRecv
<1> QED BY <1>1, <1>2

\* The invariant holds throughout.
LEMMA Invariant == Spec => []IInv
<1>1. IInv /\ UNCHANGED vars => IInv'
  BY DEF IInv, vars, threadVars, udpVars, Types, SessionsInOrder, WithinBounds, StoppedByDrop
<1>2. ASSUME IInv, NEW s \in Sessions, WriteError(s) \/ EncodeError(s) PROVE IInv'
  BY <1>2, EndClientStep DEF WriteError, EncodeError
<1>3. IInv /\ [Next]_vars => IInv'
  BY <1>1, <1>2, ConnectStep, ClientSteps, SetupStep, WriteFrameStep, ReadEndStep,
     RegistrarSteps DEF Next
<1> QED BY InitInvariant, <1>3, PTL DEF Spec

-----------------------------------------------------------------------------
(* The theorems *)

\* However many iPads and connections there are, a registration is of one of
\* the connections that came from its address.
THEOREM TypeCorrect == Spec => []TypeOK
<1>1. IInv => TypeOK
  BY SessionsAssumption DEF IInv, Types, WithinBounds, TypeOK
<1> QED BY Invariant, <1>1, PTL

\* The registration thread ends only after some connection has: neither an empty
\* socket nor a registration nor a disconnect alone ends it.
THEOREM RegistrarLives == Spec => []RegistrarOutlivesSessions
<1>1. IInv => RegistrarOutlivesSessions
  BY DEF IInv, StoppedByDrop, RegistrarOutlivesSessions
<1> QED BY Invariant, <1>1, PTL
=============================================================================
