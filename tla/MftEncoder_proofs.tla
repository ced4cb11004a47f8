------------------------- MODULE MftEncoder_proofs -------------------------
(***************************************************************************)
(* The safety of MftEncoder for every set of depths: type correctness, one *)
(* request or event at a time, the transform's contract, no unit left      *)
(* behind, and no timeout with a transform of depth one.                   *)
(*                                                                         *)
(* An event says something about the transform only as long as nothing     *)
(* happened since, so the argument counts: what the transform has asked    *)
(* for and not been given bounds the NeedInput events on their way and in  *)
(* hand, and what it has announced equals the HaveOutput events            *)
(* (EventsCover).  encode_frame discards events, but never a HaveOutput,   *)
(* because it never has more than one frame in flight (OneFrameInFlight).  *)
(***************************************************************************)
EXTENDS MftEncoder, FiniteSetTheorems, FunctionTheorems, TLAPS

\* The number of events of a kind in a queue, and on their way to the call.
Positions(q, event) == {i \in 1 .. Len(q) : q[i] = event}
Count(q, event) == Cardinality(Positions(q, event))
Coming(event) == Count(events, event) + Count(mftEvents, event)

\* A synchronous transform is not waited for and has no events; between calls
\* it keeps at most `lookahead` frames.
Synchronous ==
  ~ async_mode =>
    /\ events = <<>> /\ mftEvents = <<>>
    /\ asked = 0 /\ ready = 0
    /\ pc \notin {"wait", "timed_out"}
    /\ pc \in {"idle", "input"} => held <= lookahead
    /\ held <= lookahead + 1

\* The transform asks for no more than it has room for.
WithinDepth == async_mode => asked + held + ready <= depth

\* From its input to its output, a call has one frame in an asynchronous
\* transform; outside of them there is none.
OneFrameInFlight ==
  async_mode /\ pc # "error" =>
    /\ held + ready = IF expected = HaveOutput /\ pc \in {"wait", "output", "timed_out"}
                      THEN 1 ELSE 0
    /\ pc = "output" => expected = HaveOutput

\* An event in hand counts like one that is coming: of the inputs asked for,
\* some events may have been discarded, unless there is room for one frame
\* only; of the outputs announced, none.
InHand(at) == IF pc = at THEN 1 ELSE 0
EventsCover ==
  async_mode /\ pc # "error" =>
    /\ Coming(NeedInput) + InHand("input") <= asked
    /\ depth = 1 => Coming(NeedInput) + InHand("input") = asked
    /\ Coming(HaveOutput) + InHand("output") = ready

\* Two stream changes at most, but for a call that has failed.
FewStreamChanges == output_renegotiations = 3 => pc = "error"

\* The inductive invariant.
IInv ==
  /\ TypeOK /\ OneRequestOrEvent /\ SerialNeverTimesOut
  /\ Synchronous /\ WithinDepth /\ OneFrameInFlight /\ EventsCover /\ FewStreamChanges

-----------------------------------------------------------------------------
(* Counting events *)

Events == {NeedInput, HaveOutput}

\* Positions are finite sets, and counts numbers.
LEMMA CountType ==
  ASSUME NEW q \in Seq(Events), NEW event
  PROVE  IsFiniteSet(Positions(q, event)) /\ Count(q, event) \in Nat
<1>1. IsFiniteSet(1 .. Len(q))
  BY FS_Interval
<1>2. Positions(q, event) \in SUBSET (1 .. Len(q))
  BY DEF Positions
<1>3. IsFiniteSet(Positions(q, event))
  BY <1>1, <1>2, FS_Subset
<1> QED BY <1>3, FS_CardinalityType DEF Count

\* There is nothing in an empty queue.
LEMMA CountEmpty ==
  ASSUME NEW event
  PROVE  Count(<<>>, event) = 0
<1>1. Positions(<<>>, event) = {}
  BY DEF Positions
<1> QED BY <1>1, FS_EmptySet DEF Count

\* An event that is appended counts one more.
LEMMA CountAppend ==
  ASSUME NEW q \in Seq(Events), NEW e \in Events, NEW event
  PROVE  Count(Append(q, e), event) = Count(q, event) + (IF e = event THEN 1 ELSE 0)
<1>1. IsFiniteSet(Positions(q, event))
  BY CountType
<1>2. CASE e = event
  <2>1. Positions(Append(q, e), event) = Positions(q, event) \cup {Len(q) + 1}
    BY <1>2 DEF Positions
  <2>2. Len(q) + 1 \notin Positions(q, event)
    BY DEF Positions
  <2> QED BY <1>1, <1>2, <2>1, <2>2, FS_AddElement DEF Count
<1>3. CASE e # event
  <2>1. Positions(Append(q, e), event) = Positions(q, event)
    BY <1>3 DEF Positions
  <2>2. Count(q, event) \in Nat
    BY CountType
  <2> QED BY <1>3, <2>1, <2>2 DEF Count
<1> QED BY <1>2, <1>3

\* An event that is taken counts one less.
LEMMA CountTail ==
  ASSUME NEW q \in Seq(Events), q # <<>>, NEW event
  PROVE  Count(q, event) = Count(Tail(q), event) + (IF Head(q) = event THEN 1 ELSE 0)
<1> DEFINE S == Positions(q, event) \ {1}
<1> DEFINE T == Positions(Tail(q), event)
<1>1. IsFiniteSet(Positions(q, event)) /\ Count(q, event) \in Nat
  BY CountType
<1>2. Cardinality(T) = Cardinality(S) /\ IsFiniteSet(S)
  <2>1. IsFiniteSet(S)
    BY <1>1, FS_RemoveElement
  <2> DEFINE F == [i \in S |-> i - 1]
  <2>2. /\ Len(q) \in Nat /\ Len(q) >= 1 /\ Len(Tail(q)) = Len(q) - 1
        /\ \A i \in 1 .. Len(q) - 1 : Tail(q)[i] = q[i + 1]
    OBVIOUS
  <2>3. \A i \in S : i \in 2 .. Len(q) /\ q[i] = event
    BY <2>2 DEF Positions
  <2>4. \A j \in T : j \in 1 .. Len(q) - 1 /\ q[j + 1] = event
    BY <2>2 DEF Positions
  <2>5. \A i \in 2 .. Len(q) : q[i] = event => i \in S
    BY <2>2 DEF Positions
  <2>6. \A j \in 1 .. Len(q) - 1 : q[j + 1] = event => j \in T
    BY <2>2 DEF Positions
  <2> HIDE DEF S, T
  <2>7. \A i \in S : i - 1 \in T
    <3> SUFFICES ASSUME NEW i \in S PROVE i - 1 \in T
      OBVIOUS
    <3>1. i \in 2 .. Len(q) /\ q[(i - 1) + 1] = event /\ i - 1 \in 1 .. Len(q) - 1
      BY <2>2, <2>3
    <3> QED BY <2>6, <3>1
  <2>8. F \in [S -> T] /\ \A a, b \in S : F[a] = F[b] => a = b
    BY <2>2, <2>3, <2>7
  <2>9. \A j \in T : \E i \in S : F[i] = j
    <3> SUFFICES ASSUME NEW j \in T PROVE \E i \in S : F[i] = j
      OBVIOUS
    <3>1. j + 1 \in S /\ j \in Int
      BY <2>2, <2>4, <2>5
    <3> QED BY <3>1
  <2> HIDE DEF F
  <2>10. F \in Bijection(S, T)
    BY <2>8, <2>9, Fun_IsBij
  <2>11. ExistsBijection(S, T)
    BY <2>10, Fun_ExistsBij
  <2> QED BY <2>1, <2>11, FS_Bijection
<1>3. 1 \in Positions(q, event) <=> Head(q) = event
  BY DEF Positions
<1>4. Cardinality(S) = IF 1 \in Positions(q, event) THEN Count(q, event) - 1 ELSE Count(q, event)
  BY <1>1, FS_RemoveElement DEF Count
<1> QED BY <1>1, <1>2, <1>3, <1>4 DEF Count

\* What comes, as numbers.
LEMMA ComingType ==
  ASSUME TypeOK, NEW event
  PROVE  /\ Count(events, event) \in Nat /\ Count(mftEvents, event) \in Nat
         /\ Coming(event) \in Nat
<1>1. events \in Seq(Events) /\ mftEvents \in Seq(Events)
  BY DEF TypeOK, Events
<1>2. Count(events, event) \in Nat /\ Count(mftEvents, event) \in Nat
  BY <1>1, CountType
<1> QED BY <1>2 DEF Coming

\* The transform generates an event.
LEMMA ComingGenerated ==
  ASSUME TypeOK, NEW e \in Events, mftEvents' = Append(mftEvents, e), UNCHANGED events
  PROVE  /\ Coming(NeedInput)' = Coming(NeedInput) + (IF e = NeedInput THEN 1 ELSE 0)
         /\ Coming(HaveOutput)' = Coming(HaveOutput) + (IF e = HaveOutput THEN 1 ELSE 0)
<1>1. mftEvents \in Seq(Events)
  BY DEF TypeOK, Events
<1>2. /\ Count(mftEvents', NeedInput) =
           Count(mftEvents, NeedInput) + (IF e = NeedInput THEN 1 ELSE 0)
      /\ Count(mftEvents', HaveOutput) =
           Count(mftEvents, HaveOutput) + (IF e = HaveOutput THEN 1 ELSE 0)
  BY <1>1, CountAppend
<1>3. /\ Count(events', NeedInput) = Count(events, NeedInput)
      /\ Count(events', HaveOutput) = Count(events, HaveOutput)
  OBVIOUS
<1> QED BY <1>2, <1>3, ComingType DEF Coming, NeedInput, HaveOutput

\* The callback moves an event on; it is still coming.
LEMMA ComingMoved ==
  ASSUME TypeOK, Invoke
  PROVE  /\ Coming(NeedInput)' = Coming(NeedInput)
         /\ Coming(HaveOutput)' = Coming(HaveOutput)
<1> DEFINE e == Head(mftEvents)
<1>1. /\ mftEvents \in Seq(Events) /\ events \in Seq(Events) /\ mftEvents # <<>>
      /\ e \in Events
      /\ events' = Append(events, e) /\ mftEvents' = Tail(mftEvents)
  BY DEF TypeOK, Events, Invoke
<1> HIDE DEF e
<1> SUFFICES ASSUME NEW event
             PROVE  Count(events', event) + Count(mftEvents', event)
                      = Count(events, event) + Count(mftEvents, event)
  BY DEF Coming
<1>2. Count(events', event) = Count(events, event) + (IF e = event THEN 1 ELSE 0)
  BY <1>1, CountAppend
<1>3. Count(mftEvents, event) = Count(mftEvents', event) + (IF e = event THEN 1 ELSE 0)
  BY <1>1, CountTail DEF e
<1>4. /\ Count(events, event) \in Nat /\ Count(mftEvents, event) \in Nat
      /\ Count(mftEvents', event) \in Nat
  <2>1. mftEvents' \in Seq(Events)
    BY <1>1
  <2> QED BY <1>1, <2>1, CountType
<1> QED BY <1>2, <1>3, <1>4

\* The encoder thread takes an event; it is coming no more.
LEMMA ComingTaken ==
  ASSUME TypeOK, events # <<>>, events' = Tail(events), UNCHANGED mftEvents
  PROVE  /\ Head(events) \in Events
         /\ Coming(NeedInput) = Coming(NeedInput)' + (IF Head(events) = NeedInput THEN 1 ELSE 0)
         /\ Coming(HaveOutput) = Coming(HaveOutput)' + (IF Head(events) = HaveOutput THEN 1 ELSE 0)
         /\ Coming(NeedInput)' \in Nat /\ Coming(HaveOutput)' \in Nat
<1>1. events \in Seq(Events) /\ mftEvents \in Seq(Events) /\ events' \in Seq(Events)
      /\ Head(events) \in Events
  BY DEF TypeOK, Events
<1> DEFINE took(event) == IF Head(events) = event THEN 1 ELSE 0
<1>2. \A event : /\ Count(events, event) = Count(events', event) + took(event)
                 /\ Count(events', event) \in Nat /\ Count(mftEvents, event) \in Nat
  <2> SUFFICES ASSUME NEW event
               PROVE  /\ Count(events, event) = Count(events', event) + took(event)
                      /\ Count(events', event) \in Nat /\ Count(mftEvents, event) \in Nat
    OBVIOUS
  <2>1. Count(events, event) = Count(Tail(events), event) + took(event)
    BY <1>1, CountTail
  <2> QED BY <1>1, <2>1, CountType
<1>3. \A event : Coming(event) = Count(events', event) + Count(mftEvents, event) + took(event)
  BY <1>2 DEF Coming
<1>4. /\ Coming(NeedInput)' = Count(events', NeedInput) + Count(mftEvents, NeedInput)
      /\ Coming(HaveOutput)' = Count(events', HaveOutput) + Count(mftEvents, HaveOutput)
  BY DEF Coming
<1> QED BY <1>1, <1>2, <1>3, <1>4

\* Nothing happens to the events.
LEMMA ComingSame ==
  ASSUME UNCHANGED <<events, mftEvents>>
  PROVE  /\ Coming(NeedInput)' = Coming(NeedInput)
         /\ Coming(HaveOutput)' = Coming(HaveOutput)
BY DEF Coming

-----------------------------------------------------------------------------
(* The invariant, action by action *)

\* What the provers need of the types, as numbers.
LEMMA Numbers ==
  ASSUME TypeOK
  PROVE  /\ depth \in Nat /\ depth >= 1 /\ lookahead \in Nat /\ lookahead < depth
         /\ asked \in Nat /\ held \in Nat /\ ready \in Nat
         /\ Coming(NeedInput) \in Nat /\ Coming(HaveOutput) \in Nat
         /\ NeedInput # HaveOutput
         /\ Len(events) \in Nat /\ (Len(events) = 0 <=> events = <<>>)
BY EncoderAssumption, ComingType DEF TypeOK, NeedInput, HaveOutput

\* Nothing is asked, announced or kept.
LEMMA InitInvariant == Init => IInv
<1> SUFFICES ASSUME Init PROVE IInv
  OBVIOUS
<1>1. Coming(NeedInput) = 0 /\ Coming(HaveOutput) = 0
  BY CountEmpty DEF Init, Coming
<1>2. depth \in Nat /\ depth >= 1 /\ lookahead \in Nat
  BY EncoderAssumption DEF Init
<1>3. TypeOK
  BY <1>2 DEF Init, TypeOK
<1>4. OneRequestOrEvent /\ SerialNeverTimesOut /\ FewStreamChanges
  BY DEF Init, OneRequestOrEvent, SerialNeverTimesOut, FewStreamChanges
<1>5. Synchronous /\ WithinDepth /\ OneFrameInFlight
  BY <1>2 DEF Init, Synchronous, WithinDepth, OneFrameInFlight
<1>6. EventsCover
  BY <1>1 DEF Init, EventsCover, InHand
<1> QED BY <1>3, <1>4, <1>5, <1>6 DEF IInv

\* An input asked for is an event that comes.
LEMMA MftAskStep == IInv /\ MftAsk => IInv'
<1> SUFFICES ASSUME IInv, MftAsk PROVE IInv'
  OBVIOUS
<1> USE DEF IInv
<1>1. /\ async_mode /\ asked + held + ready < depth /\ asked' = asked + 1
      /\ mftEvents' = Append(mftEvents, NeedInput)
      /\ UNCHANGED <<async_mode, depth, lookahead, held, ready>>
      /\ UNCHANGED <<armed, events, pc, expected, output_renegotiations>>
  BY DEF MftAsk, eventVars, callVars
<1>2. /\ Coming(NeedInput)' = Coming(NeedInput) + 1
      /\ Coming(HaveOutput)' = Coming(HaveOutput)
  <2>1. NeedInput \in Events
    BY DEF Events
  <2> QED BY <1>1, <2>1, ComingGenerated, Numbers
<1>3. TypeOK'
  BY <1>1, Numbers DEF TypeOK
<1>4. OneRequestOrEvent' /\ SerialNeverTimesOut' /\ FewStreamChanges'
  BY <1>1 DEF OneRequestOrEvent, SerialNeverTimesOut, FewStreamChanges
<1>5. Synchronous' /\ WithinDepth'
  BY <1>1, Numbers DEF Synchronous, WithinDepth
<1>7. OneFrameInFlight'
  BY <1>1, Numbers DEF OneFrameInFlight
<1>6. EventsCover'
  BY <1>1, <1>2, Numbers DEF EventsCover, InHand
<1> QED BY <1>3, <1>4, <1>5, <1>6, <1>7

\* An output announced is an event that comes, and the frame stays in flight.
LEMMA MftEncodeStep == IInv /\ MftEncode => IInv'
<1> SUFFICES ASSUME IInv, MftEncode PROVE IInv'
  OBVIOUS
<1> USE DEF IInv
<1>1. /\ async_mode /\ held > lookahead /\ held' = held - 1 /\ ready' = ready + 1
      /\ mftEvents' = Append(mftEvents, HaveOutput)
      /\ UNCHANGED <<async_mode, depth, lookahead, asked>>
      /\ UNCHANGED <<armed, events, pc, expected, output_renegotiations>>
  BY DEF MftEncode, eventVars, callVars
<1>2. /\ Coming(NeedInput)' = Coming(NeedInput)
      /\ Coming(HaveOutput)' = Coming(HaveOutput) + 1
  <2>1. HaveOutput \in Events
    BY DEF Events
  <2> QED BY <1>1, <2>1, ComingGenerated, Numbers
<1>3. TypeOK'
  BY <1>1, Numbers DEF TypeOK, WithinDepth
<1>4. OneRequestOrEvent' /\ SerialNeverTimesOut' /\ FewStreamChanges'
  BY <1>1 DEF OneRequestOrEvent, SerialNeverTimesOut, FewStreamChanges
<1>5. Synchronous' /\ WithinDepth'
  BY <1>1, Numbers DEF Synchronous, WithinDepth
<1>7. OneFrameInFlight'
  BY <1>1, Numbers DEF OneFrameInFlight
<1>6. EventsCover'
  BY <1>1, <1>2, Numbers DEF EventsCover, InHand
<1> QED BY <1>3, <1>4, <1>5, <1>6, <1>7

\* The request is answered: there is an event in hand instead.
LEMMA InvokeStep == IInv /\ Invoke => IInv'
<1> SUFFICES ASSUME IInv, Invoke PROVE IInv'
  OBVIOUS
<1> USE DEF IInv
<1>1. /\ armed /\ mftEvents # <<>> /\ armed' = FALSE
      /\ UNCHANGED <<async_mode, depth, lookahead, asked, held, ready>>
      /\ UNCHANGED <<pc, expected, output_renegotiations>>
  BY DEF Invoke, callVars
<1>2. events' \in Seq(Events) /\ Len(events') = Len(events) + 1 /\ mftEvents' \in Seq(Events)
  BY DEF Invoke, TypeOK, Events
<1>3. TypeOK'
  BY <1>1, <1>2 DEF TypeOK, Events
<1>4. OneRequestOrEvent' /\ SerialNeverTimesOut' /\ FewStreamChanges'
  BY <1>1, <1>2, Numbers DEF OneRequestOrEvent, SerialNeverTimesOut, FewStreamChanges
<1>5. Synchronous' /\ WithinDepth'
  BY <1>1, Numbers DEF Synchronous, WithinDepth
<1>7. OneFrameInFlight'
  BY <1>1, Numbers DEF OneFrameInFlight
<1>6. EventsCover'
  BY <1>1, ComingMoved, Numbers DEF EventsCover, InHand
<1> QED BY <1>3, <1>4, <1>5, <1>6, <1>7

\* The event is taken and the next one requested.  One that is discarded is a
\* NeedInput, of a transform with room for more than the frame in flight.
LEMMA WaitForEventStep == IInv /\ WaitForEvent => IInv'
<1> SUFFICES ASSUME IInv, WaitForEvent PROVE IInv'
  OBVIOUS
<1> USE DEF IInv
<1>1. /\ pc = "wait" /\ events # <<>> /\ events' = Tail(events)
      /\ UNCHANGED <<async_mode, depth, lookahead, asked, held, ready, mftEvents>>
      /\ UNCHANGED <<expected, output_renegotiations>>
      /\ async_mode
  BY DEF WaitForEvent, mftVars, Synchronous
<1>2. events' \in Seq(Events) /\ Len(events') = Len(events) - 1
  BY <1>1 DEF TypeOK, Events
<1>3. Len(events) = 1 /\ ~ armed
  BY <1>1, Numbers DEF OneRequestOrEvent, TypeOK
<1>4. /\ Synchronous' /\ WithinDepth'
  BY <1>1 DEF Synchronous, WithinDepth
<1>5. CASE pc' = "error" /\ UNCHANGED armed
  <2>1. TypeOK'
    BY <1>1, <1>2, <1>5 DEF TypeOK, Events
  <2>2. /\ OneRequestOrEvent' /\ SerialNeverTimesOut' /\ FewStreamChanges'
        /\ OneFrameInFlight' /\ EventsCover'
    BY <1>5 DEF OneRequestOrEvent, SerialNeverTimesOut, FewStreamChanges, OneFrameInFlight,
                EventsCover
  <2> QED BY <1>4, <2>1, <2>2
<1>6. CASE /\ armed' = TRUE
           /\ pc' = IF Head(events) # expected THEN "wait" ELSE After(expected)
  <2>1. /\ Head(events) \in {NeedInput, HaveOutput} /\ expected \in {NeedInput, HaveOutput}
        /\ Coming(NeedInput) = Coming(NeedInput)' + (IF Head(events) = NeedInput THEN 1 ELSE 0)
        /\ Coming(HaveOutput) = Coming(HaveOutput)' + (IF Head(events) = HaveOutput THEN 1 ELSE 0)
        /\ Coming(NeedInput)' \in Nat /\ Coming(HaveOutput)' \in Nat
    BY <1>1, ComingTaken DEF TypeOK, Events
  <2>2. pc' \in {"wait", "input", "output"}
    BY <1>6 DEF After
  <2>3. TypeOK'
    BY <1>1, <1>2, <1>6, <2>2 DEF TypeOK, Events
  <2>4. OneRequestOrEvent' /\ SerialNeverTimesOut' /\ FewStreamChanges'
    BY <1>1, <1>2, <1>3, <1>6, <2>2
       DEF OneRequestOrEvent, SerialNeverTimesOut, FewStreamChanges
  <2>5. OneFrameInFlight'
    BY <1>1, <1>6, <2>1, Numbers DEF OneFrameInFlight, After
  <2>6. EventsCover'
    <3>1. CASE Head(events) = expected
      BY <1>1, <1>6, <2>1, <3>1, Numbers DEF EventsCover, InHand, After
    <3>2. CASE Head(events) # expected /\ expected = NeedInput
      BY <1>1, <2>1, <3>2, Numbers DEF EventsCover, OneFrameInFlight, InHand
    <3>3. CASE Head(events) # expected /\ expected = HaveOutput
      BY <1>1, <1>6, <2>1, <3>3, Numbers DEF EventsCover, OneFrameInFlight, WithinDepth, InHand
    <3> QED BY <2>1, <3>1, <3>2, <3>3
  <2> QED BY <1>4, <2>3, <2>4, <2>5, <2>6
<1> QED BY <1>5, <1>6 DEF WaitForEvent

\* The wait ends only when no event can come: not with a transform that takes
\* one frame at a time, of which the event awaited is coming.
LEMMA TimeoutStep == IInv /\ Timeout => IInv'
<1> SUFFICES ASSUME IInv, Timeout PROVE IInv'
  OBVIOUS
<1> USE DEF IInv
<1>1. /\ pc = "wait" /\ Quiet /\ pc' = "timed_out" /\ async_mode
      /\ UNCHANGED <<async_mode, depth, lookahead, asked, held, ready, mftEvents>>
      /\ UNCHANGED <<armed, events, expected, output_renegotiations>>
  BY DEF Timeout, mftVars, eventVars, Synchronous
<1>2. TypeOK'
  BY <1>1 DEF TypeOK
<1>3. OneRequestOrEvent' /\ FewStreamChanges'
  BY <1>1 DEF OneRequestOrEvent, FewStreamChanges
<1>4. Synchronous' /\ WithinDepth' /\ OneFrameInFlight'
  BY <1>1 DEF Synchronous, WithinDepth, OneFrameInFlight
<1>5. EventsCover'
  BY <1>1, ComingSame DEF EventsCover, InHand
<1>6. SerialNeverTimesOut'
  <2> SUFFICES ASSUME depth = 1 PROVE FALSE
    BY <1>1, Numbers DEF SerialNeverTimesOut
  <2>1. armed /\ events = <<>> /\ mftEvents = <<>>
    BY <1>1, Numbers DEF Quiet, OneRequestOrEvent, TypeOK
  <2>2. Coming(NeedInput) = 0 /\ Coming(HaveOutput) = 0
    BY <2>1, CountEmpty DEF Coming
  <2>3. asked = 0 /\ ready = 0
    BY <1>1, <2>2, Numbers DEF EventsCover, InHand
  <2>4. held = 0
    BY <1>1, Numbers DEF Quiet
  <2> QED BY <1>1, <2>3, <2>4 DEF Quiet
<1> QED BY <1>2, <1>3, <1>4, <1>5, <1>6

\* A call starts with nothing in flight.
LEMMA EncodeFrameStep == IInv /\ EncodeFrame => IInv'
<1> SUFFICES ASSUME IInv, EncodeFrame PROVE IInv'
  OBVIOUS
<1> USE DEF IInv
<1>1. /\ pc = "idle" /\ output_renegotiations' = 0
      /\ UNCHANGED <<async_mode, depth, lookahead, asked, held, ready, mftEvents>>
      /\ UNCHANGED <<armed, events>>
      /\ \/ async_mode /\ pc' = "wait" /\ expected' = NeedInput
         \/ ~ async_mode /\ pc' = "input" /\ UNCHANGED expected
  BY DEF EncodeFrame, WaitFor, mftVars, eventVars
<1>2. TypeOK'
  BY <1>1 DEF TypeOK
<1>3. OneRequestOrEvent' /\ FewStreamChanges' /\ SerialNeverTimesOut'
  BY <1>1 DEF OneRequestOrEvent, FewStreamChanges, SerialNeverTimesOut
<1>4. Synchronous' /\ WithinDepth'
  BY <1>1 DEF Synchronous, WithinDepth
<1>5. OneFrameInFlight'
  BY <1>1, Numbers DEF OneFrameInFlight
<1>6. EventsCover'
  BY <1>1, ComingSame DEF EventsCover, InHand
<1> QED BY <1>2, <1>3, <1>4, <1>5, <1>6

\* The frame goes to a transform that asked for it, or has room.
LEMMA ProcessInputStep == IInv /\ ProcessInput => IInv'
<1> SUFFICES ASSUME IInv, ProcessInput PROVE IInv'
  OBVIOUS
<1> USE DEF IInv
<1>1. /\ pc = "input" /\ held' = held + 1
      /\ UNCHANGED <<async_mode, depth, lookahead, ready, mftEvents>>
      /\ UNCHANGED <<armed, events, output_renegotiations>>
      /\ \/ /\ async_mode /\ asked > 0 /\ asked' = asked - 1
            /\ pc' = "wait" /\ expected' = HaveOutput
         \/ /\ ~ async_mode /\ held < depth /\ asked' = asked
            /\ pc' = "output" /\ UNCHANGED expected
  BY DEF ProcessInput, WaitFor, eventVars
<1>2. TypeOK'
  <2>1. asked' \in 0 .. depth /\ held' \in 0 .. depth
    BY <1>1, Numbers DEF TypeOK, WithinDepth
  <2> QED BY <1>1, <2>1 DEF TypeOK
<1>3. OneRequestOrEvent' /\ FewStreamChanges' /\ SerialNeverTimesOut'
  BY <1>1 DEF OneRequestOrEvent, FewStreamChanges, SerialNeverTimesOut
<1>4. Synchronous' /\ WithinDepth'
  BY <1>1, Numbers DEF Synchronous, WithinDepth
<1>5. OneFrameInFlight'
  BY <1>1, Numbers DEF OneFrameInFlight
<1>6. EventsCover'
  BY <1>1, ComingSame, Numbers DEF EventsCover, InHand
<1> QED BY <1>2, <1>3, <1>4, <1>5, <1>6

\* The unit in flight is collected.
LEMMA ProcessOutputStep == IInv /\ ProcessOutput => IInv'
<1> SUFFICES ASSUME IInv, ProcessOutput PROVE IInv'
  OBVIOUS
<1> USE DEF IInv
<1>1. /\ pc = "output" /\ pc' = "idle"
      /\ UNCHANGED <<async_mode, depth, lookahead, asked, mftEvents, expected>>
      /\ UNCHANGED <<armed, events, output_renegotiations>>
      /\ \/ async_mode /\ ready > 0 /\ ready' = ready - 1 /\ held' = held
         \/ ~ async_mode /\ held > lookahead /\ ready' = ready /\ held' = held - 1
  BY DEF ProcessOutput, eventVars
<1>2. TypeOK'
  <2>1. ready' \in 0 .. depth /\ held' \in 0 .. depth
    BY <1>1, Numbers DEF TypeOK
  <2> QED BY <1>1, <2>1 DEF TypeOK
<1>3. OneRequestOrEvent' /\ FewStreamChanges' /\ SerialNeverTimesOut'
  BY <1>1 DEF OneRequestOrEvent, FewStreamChanges, SerialNeverTimesOut
<1>4. Synchronous' /\ WithinDepth'
  BY <1>1, Numbers DEF Synchronous, WithinDepth
<1>5. OneFrameInFlight'
  BY <1>1, Numbers DEF OneFrameInFlight
<1>6. EventsCover'
  BY <1>1, ComingSame, Numbers DEF EventsCover, InHand
<1> QED BY <1>2, <1>3, <1>4, <1>5, <1>6

\* The output is announced again, or the call fails.
LEMMA StreamChangeStep == IInv /\ StreamChange => IInv'
<1> SUFFICES ASSUME IInv, StreamChange PROVE IInv'
  OBVIOUS
<1> USE DEF IInv
<1>1. /\ pc = "output" /\ output_renegotiations' = output_renegotiations + 1
      /\ output_renegotiations \in 0 .. 2
      /\ UNCHANGED <<async_mode, depth, lookahead, asked, held, ready, armed, events>>
      /\ IF async_mode THEN ready > 0 ELSE held > lookahead
  BY DEF StreamChange, eventVars, TypeOK, FewStreamChanges
<1>2. CASE pc' = "error" /\ UNCHANGED <<expected, mftEvents>>
  <2>1. TypeOK'
    BY <1>1, <1>2 DEF TypeOK
  <2>2. /\ OneRequestOrEvent' /\ SerialNeverTimesOut' /\ FewStreamChanges'
        /\ Synchronous' /\ WithinDepth' /\ OneFrameInFlight' /\ EventsCover'
    BY <1>1, <1>2 DEF OneRequestOrEvent, SerialNeverTimesOut, FewStreamChanges, Synchronous,
                      WithinDepth, OneFrameInFlight, EventsCover
  <2> QED BY <2>1, <2>2
<1>3. CASE /\ async_mode /\ output_renegotiations' <= 2
           /\ pc' = "wait" /\ expected' = HaveOutput
           /\ mftEvents' = Append(mftEvents, HaveOutput)
  <2>1. /\ Coming(NeedInput)' = Coming(NeedInput)
        /\ Coming(HaveOutput)' = Coming(HaveOutput) + 1
    <3>1. HaveOutput \in Events
      BY DEF Events
    <3> QED BY <1>1, <1>3, <3>1, ComingGenerated, Numbers
  <2>2. TypeOK'
    BY <1>1, <1>3 DEF TypeOK
  <2>3. OneRequestOrEvent' /\ FewStreamChanges' /\ SerialNeverTimesOut'
    BY <1>1, <1>3 DEF OneRequestOrEvent, FewStreamChanges, SerialNeverTimesOut
  <2>4. Synchronous' /\ WithinDepth'
    BY <1>1, <1>3 DEF Synchronous, WithinDepth
  <2>5. OneFrameInFlight'
    BY <1>1, <1>3, Numbers DEF OneFrameInFlight
  <2>6. EventsCover'
    BY <1>1, <1>3, <2>1, Numbers DEF EventsCover, InHand
  <2> QED BY <2>2, <2>3, <2>4, <2>5, <2>6
<1>4. CASE /\ ~ async_mode /\ output_renegotiations' <= 2
           /\ UNCHANGED <<pc, expected, mftEvents>>
  <2>1. TypeOK'
    BY <1>1, <1>4 DEF TypeOK
  <2>2. /\ OneRequestOrEvent' /\ SerialNeverTimesOut' /\ FewStreamChanges'
        /\ Synchronous' /\ WithinDepth' /\ OneFrameInFlight' /\ EventsCover'
    BY <1>1, <1>4 DEF OneRequestOrEvent, SerialNeverTimesOut, FewStreamChanges, Synchronous,
                      WithinDepth, OneFrameInFlight, EventsCover
  <2> QED BY <2>1, <2>2
<1> QED BY <1>1, <1>2, <1>3, <1>4 DEF StreamChange, WaitFor

\* A synchronous transform keeps the frame.
LEMMA NeedMoreInputStep == IInv /\ NeedMoreInput => IInv'
BY DEF IInv, NeedMoreInput, TypeOK, OneRequestOrEvent, SerialNeverTimesOut, FewStreamChanges,
       Synchronous, WithinDepth, OneFrameInFlight, EventsCover, mftVars, eventVars

\* A failed call claims nothing.
LEMMA CallFailsStep == IInv /\ CallFails => IInv'
BY DEF IInv, CallFails, TypeOK, OneRequestOrEvent, SerialNeverTimesOut, FewStreamChanges,
       Synchronous, WithinDepth, OneFrameInFlight, EventsCover, mftVars, eventVars

\* The invariant holds throughout.
LEMMA Invariant == Spec => []IInv
<1>1. IInv /\ UNCHANGED vars => IInv'
  BY ComingSame DEF IInv, vars, mftVars, eventVars, callVars, TypeOK, OneRequestOrEvent,
         SerialNeverTimesOut, FewStreamChanges, Synchronous, WithinDepth, OneFrameInFlight,
         EventsCover, InHand
<1>2. IInv /\ [Next]_vars => IInv'
  BY <1>1, MftAskStep, MftEncodeStep, InvokeStep, WaitForEventStep, TimeoutStep,
     EncodeFrameStep, ProcessInputStep, ProcessOutputStep, StreamChangeStep,
     NeedMoreInputStep, CallFailsStep DEF Next
<1> QED BY InitInvariant, <1>2, PTL DEF Spec

-----------------------------------------------------------------------------
(* The theorems *)

\* The counters of the transform stay within its depth, and a call has at most
\* two stream changes but for the one that fails it.
THEOREM TypeCorrect == Spec => []TypeOK
<1>1. IInv => TypeOK
  BY DEF IInv
<1> QED BY Invariant, <1>1, PTL

\* The callback always has a request outstanding, or the thread an event in
\* hand, until a call fails.
THEOREM AlwaysRearmed == Spec => []OneRequestOrEvent
<1>1. IInv => OneRequestOrEvent
  BY DEF IInv
<1> QED BY Invariant, <1>1, PTL

\* Whatever events wait_for_event discarded, encode_frame never gives input to
\* a transform that did not ask, nor collects an output that is not there.
THEOREM NeverRefused == Spec => []ContractObeyed
<1>1. IInv => ContractObeyed
  <2> SUFFICES ASSUME IInv PROVE ContractObeyed
    OBVIOUS
  <2>1. async_mode => (pc = "input" => asked > 0) /\ (pc = "output" => ready > 0)
    BY Numbers DEF IInv, EventsCover, InHand
  <2>2. ~ async_mode => (pc = "input" => held < depth)
    BY Numbers DEF IInv, Synchronous
  <2> QED BY <2>1, <2>2 DEF ContractObeyed
<1> QED BY Invariant, <1>1, PTL

\* With a transform of depth one no NeedInput is lost: the inputs asked for are
\* those that events on their way, or the one being answered, announce.
THEOREM SerialIsAnswered == Spec => []SerialInputAnswered
<1>1. IInv => SerialInputAnswered
  <2> SUFFICES ASSUME IInv, async_mode, depth = 1, pc # "error"
               PROVE  asked = Announced(NeedInput) + InHand("input")
    BY DEF SerialInputAnswered, InHand
  <2>1. asked = Coming(NeedInput) + InHand("input")
    BY DEF IInv, EventsCover
  <2>2. DOMAIN events = 1 .. Len(events) /\ DOMAIN mftEvents = 1 .. Len(mftEvents)
    BY DEF IInv, TypeOK
  <2>3. Announced(NeedInput) = Coming(NeedInput)
    BY <2>2 DEF Announced, Coming, Count, Positions
  <2> QED BY <2>1, <2>3
<1> QED BY Invariant, <1>1, PTL

\* Between two calls an asynchronous transform holds nothing, and a synchronous
\* one at most its lookahead.
THEOREM OutputIsOfThisFrame == Spec => []NothingLeftBehind
<1>1. IInv => NothingLeftBehind
  <2> SUFFICES ASSUME IInv, pc = "idle"
               PROVE  ready = 0 /\ held <= (IF async_mode THEN 0 ELSE lookahead)
    BY DEF NothingLeftBehind
  <2> QED BY Numbers DEF IInv, OneFrameInFlight, Synchronous
<1> QED BY Invariant, <1>1, PTL

\* encode_frame never times out with a transform that takes one frame at a time.
THEOREM SerialIsServed == Spec => []SerialNeverTimesOut
<1>1. IInv => SerialNeverTimesOut
  BY DEF IInv
<1> QED BY Invariant, <1>1, PTL
=============================================================================
