----------------------------- MODULE MftEncoder -----------------------------
(***************************************************************************)
(* MftEncoder::encode_frame and the event callback of an asynchronous      *)
(* Media Foundation transform (encoder_mft.rs), together with the          *)
(* transform itself as far as its published contract goes.                 *)
(*                                                                         *)
(* The transform asks for input with METransformNeedInput, announces       *)
(* output with METransformHaveOutput, and queues both events.  Of that     *)
(* queue the callback gets one event per BeginGetEvent; the encoder        *)
(* thread, blocked in wait_for_event, takes it and requests the next one.  *)
(* `depth` is the number of frames the transform takes in at a time and    *)
(* `lookahead` the number it keeps back before it returns the first one.   *)
(***************************************************************************)
EXTENDS Integers, Sequences, FiniteSets

CONSTANT Depths    \* the transforms to consider

ASSUME EncoderAssumption == Depths \subseteq Nat \ {0}

NeedInput == "NeedInput"
HaveOutput == "HaveOutput"

VARIABLES
  async_mode,      \* the transform chose the asynchronous model
  depth, lookahead, \* of the transform
  \* the transform
  asked,           \* NeedInput events generated and not answered by an input
  held,            \* inputs taken and not encoded
  ready,           \* outputs announced and not collected
  mftEvents,       \* its event queue
  \* MftEncoder
  armed,           \* a BeginGetEvent request is outstanding
  events,          \* EventState.events
  pc,              \* "idle", "wait", "input", "output", or how the call failed
  expected,        \* the event wait_for_event is called with
  output_renegotiations

mftVars == <<asked, held, ready, mftEvents>>
eventVars == <<armed, events>>
callVars == <<pc, expected, output_renegotiations>>
vars == <<async_mode, depth, lookahead, mftVars, eventVars, callVars>>

Init ==
  /\ async_mode \in BOOLEAN
  /\ depth \in Depths
  /\ lookahead \in 0 .. depth - 1
  /\ asked = 0 /\ held = 0 /\ ready = 0
  /\ mftEvents = <<>>
  /\ armed = async_mode
  /\ events = <<>>
  /\ pc = "idle" /\ expected = NeedInput
  /\ output_renegotiations = 0

-----------------------------------------------------------------------------
(* The transform *)

\* It asks for as much input as it has room for, in its own time.
MftAsk ==
  /\ async_mode
  /\ asked + held + ready < depth
  /\ asked' = asked + 1
  /\ mftEvents' = Append(mftEvents, NeedInput)
  /\ UNCHANGED <<async_mode, depth, lookahead, held, ready, eventVars, callVars>>

\* It encodes the oldest frame once it holds enough of them.
MftEncode ==
  /\ async_mode
  /\ held > lookahead
  /\ held' = held - 1
  /\ ready' = ready + 1
  /\ mftEvents' = Append(mftEvents, HaveOutput)
  /\ UNCHANGED <<async_mode, depth, lookahead, asked, eventVars, callVars>>

-----------------------------------------------------------------------------
(* The callback and wait_for_event *)

\* Invoke: an event answers the outstanding request and is queued.
Invoke ==
  /\ armed /\ mftEvents # <<>>
  /\ armed' = FALSE
  /\ events' = Append(events, Head(mftEvents))
  /\ mftEvents' = Tail(mftEvents)
  /\ UNCHANGED <<async_mode, depth, lookahead, asked, held, ready, callVars>>

\* What encode_frame does after the event it waited for.
After(event) == IF event = NeedInput THEN "input" ELSE "output"

\* Mutants of WaitForEvent: the next event is requested after the expected one
\* only; any event is taken for the expected one.
WaitForEventRearmsOnMatch ==
  /\ pc = "wait" /\ events # <<>>
  /\ events' = Tail(events)
  /\ armed' = (Head(events) = expected)
  /\ pc' = IF Head(events) # expected THEN "wait" ELSE After(expected)
  /\ UNCHANGED <<async_mode, depth, lookahead, mftVars, expected, output_renegotiations>>
WaitForAnyEvent ==
  /\ pc = "wait" /\ events # <<>>
  /\ events' = Tail(events)
  /\ armed' = TRUE
  /\ pc' = After(expected)
  /\ UNCHANGED <<async_mode, depth, lookahead, mftVars, expected, output_renegotiations>>

\* wait_for_event requests the next event whatever it took, and returns on the
\* expected one only: any other is gone.  An event that could not be fetched, or
\* a request that fails, is an error at once.
WaitForEvent ==
  /\ pc = "wait" /\ events # <<>>
  /\ events' = Tail(events)
  /\ \/ armed' = TRUE /\ pc' = IF Head(events) # expected THEN "wait" ELSE After(expected)
     \/ pc' = "error" /\ UNCHANGED armed
  /\ UNCHANGED <<async_mode, depth, lookahead, mftVars, expected, output_renegotiations>>

\* No event can come any more.  The transform is taken to do what it can within
\* the timeout of one second, so the wait times out in this case only.
Quiet ==
  /\ events = <<>>
  /\ ~ (armed /\ mftEvents # <<>>)
  /\ async_mode => asked + held + ready >= depth /\ held <= lookahead

\* Mutants of Timeout: it counts as a call without output; the wait for an
\* output has none.
TimeoutIsNoOutput ==
  /\ pc = "wait" /\ Quiet
  /\ pc' = "idle"
  /\ UNCHANGED <<async_mode, depth, lookahead, mftVars, eventVars, expected,
                 output_renegotiations>>
TimeoutOfInputOnly ==
  /\ pc = "wait" /\ Quiet
  /\ expected = NeedInput
  /\ pc' = "timed_out"
  /\ UNCHANGED <<async_mode, depth, lookahead, mftVars, eventVars, expected,
                 output_renegotiations>>

\* wait_for_event gives up after a second without the expected event.
Timeout ==
  /\ pc = "wait" /\ Quiet
  /\ pc' = "timed_out"
  /\ UNCHANGED <<async_mode, depth, lookahead, mftVars, eventVars, expected,
                 output_renegotiations>>

-----------------------------------------------------------------------------
(* encode_frame *)

WaitFor(event) == pc' = "wait" /\ expected' = event

\* Mutants of EncodeFrame: the call begins with the wait for an output; a
\* synchronous transform is waited for, too.
EncodeFrameOutputFirst ==
  /\ pc = "idle"
  /\ output_renegotiations' = 0
  /\ IF async_mode THEN WaitFor(HaveOutput) ELSE pc' = "input" /\ UNCHANGED expected
  /\ UNCHANGED <<async_mode, depth, lookahead, mftVars, eventVars>>
EncodeFrameAlwaysWaits ==
  /\ pc = "idle"
  /\ output_renegotiations' = 0
  /\ WaitFor(NeedInput)
  /\ UNCHANGED <<async_mode, depth, lookahead, mftVars, eventVars>>

\* The call starts; only an asynchronous transform is waited for.
EncodeFrame ==
  /\ pc = "idle"
  /\ output_renegotiations' = 0
  /\ IF async_mode THEN WaitFor(NeedInput) ELSE pc' = "input" /\ UNCHANGED expected
  /\ UNCHANGED <<async_mode, depth, lookahead, mftVars, eventVars>>

\* ProcessInput: refused by a transform that did not ask, or has no room.
ProcessInput ==
  /\ pc = "input"
  /\ IF async_mode THEN asked > 0 ELSE held < depth
  /\ held' = held + 1
  /\ asked' = IF async_mode THEN asked - 1 ELSE asked
  /\ IF async_mode THEN WaitFor(HaveOutput) ELSE pc' = "output" /\ UNCHANGED expected
  /\ UNCHANGED <<async_mode, depth, lookahead, ready, mftEvents, eventVars,
                 output_renegotiations>>

\* ProcessOutput returns the access unit, and the call returns it.
ProcessOutput ==
  /\ pc = "output"
  /\ IF async_mode THEN ready > 0 ELSE held > lookahead
  /\ ready' = IF async_mode THEN ready - 1 ELSE ready
  /\ held' = IF async_mode THEN held ELSE held - 1
  /\ pc' = "idle"
  /\ UNCHANGED <<async_mode, depth, lookahead, asked, mftEvents, eventVars, expected,
                 output_renegotiations>>

\* Mutant of StreamChange: the limit is off by one.
StreamChangeOnceMore ==
  /\ pc = "output" /\ ~ async_mode /\ held > lookahead
  /\ output_renegotiations' = output_renegotiations + 1
  /\ pc' = IF output_renegotiations' > 3 THEN "error" ELSE pc
  /\ UNCHANGED <<async_mode, depth, lookahead, mftVars, eventVars, expected>>

\* MF_E_TRANSFORM_STREAM_CHANGE, as often as the transform likes: the new type
\* is set and the output, which an asynchronous transform announces again, is
\* collected after all; the third time is an error.
StreamChange ==
  /\ pc = "output"
  /\ IF async_mode THEN ready > 0 ELSE held > lookahead
  /\ output_renegotiations' = output_renegotiations + 1
  /\ IF output_renegotiations' > 2
     THEN pc' = "error" /\ UNCHANGED <<expected, mftEvents>>
     ELSE IF async_mode
     THEN WaitFor(HaveOutput) /\ mftEvents' = Append(mftEvents, HaveOutput)
     ELSE UNCHANGED <<pc, expected, mftEvents>>
  /\ UNCHANGED <<async_mode, depth, lookahead, asked, held, ready, eventVars>>

\* MF_E_TRANSFORM_NEED_MORE_INPUT while a synchronous transform fills its
\* pipeline: the call returns Ok(None).
NeedMoreInput ==
  /\ pc = "output"
  /\ ~ async_mode /\ held <= lookahead
  /\ pc' = "idle"
  /\ UNCHANGED <<async_mode, depth, lookahead, mftVars, eventVars, expected,
                 output_renegotiations>>

\* A call of the transform fails, or one that makes or reads a sample.
CallFails ==
  /\ pc \in {"input", "output"}
  /\ pc' = "error"
  /\ UNCHANGED <<async_mode, depth, lookahead, mftVars, eventVars, expected,
                 output_renegotiations>>

Next ==
  \/ MftAsk \/ MftEncode \/ Invoke
  \/ WaitForEvent \/ Timeout
  \/ EncodeFrame \/ ProcessInput \/ ProcessOutput \/ StreamChange \/ NeedMoreInput
  \/ CallFails

\* The transform and its callback get on, and so does a call of encode_frame;
\* the next frame, and a stream change, may never come.
Fairness ==
  /\ WF_vars(MftAsk) /\ WF_vars(MftEncode) /\ WF_vars(Invoke)
  /\ WF_vars(WaitForEvent) /\ WF_vars(Timeout)
  /\ WF_vars(ProcessInput) /\ WF_vars(ProcessOutput \/ StreamChange \/ NeedMoreInput)

Spec == Init /\ [][Next]_vars /\ Fairness

-----------------------------------------------------------------------------
(* Properties *)

\* Type correctness, with the counters of the transform within its depth and at
\* most two stream changes in a call but for the one that fails it.
TypeOK ==
  /\ async_mode \in BOOLEAN
  /\ depth \in Depths /\ lookahead \in 0 .. depth - 1
  /\ asked \in 0 .. depth /\ held \in 0 .. depth /\ ready \in 0 .. depth
  /\ mftEvents \in Seq({NeedInput, HaveOutput})
  /\ armed \in BOOLEAN
  /\ events \in Seq({NeedInput, HaveOutput})
  /\ pc \in {"idle", "wait", "input", "output", "timed_out", "error"}
  /\ expected \in {NeedInput, HaveOutput}
  /\ output_renegotiations \in 0 .. 3

\* "Re-arm the callback after every event" (implementation-status.md:35): until a
\* call fails, there is one request outstanding or one event in hand, never both
\* and never neither, so no event waits for a request that nobody makes.
OneRequestOrEvent ==
  pc # "error" =>
  Len(events) + (IF armed THEN 1 ELSE 0) = IF async_mode THEN 1 ELSE 0

\* No call is made that the transform refuses, whatever events were discarded:
\* at most one input per METransformNeedInput, and ProcessOutput only after a
\* METransformHaveOutput whose output is still there.
ContractObeyed ==
  /\ pc = "input" => (IF async_mode THEN asked > 0 ELSE held < depth)
  /\ pc = "output" /\ async_mode => ready > 0

\* "Process exactly one input per METransformNeedInput" (verification-spec.md:51)
\* is kept with a transform of depth one: until a call fails, every input it asked
\* for and did not get is announced by an event still on its way, or by the one
\* encode_frame is about to answer.  It is not kept with a deeper one, which may
\* ask while its output is waited for: wait_for_event then throws the NeedInput
\* away, and no input ever answers it.
Announced(event) == Cardinality({i \in DOMAIN events : events[i] = event})
                    + Cardinality({i \in DOMAIN mftEvents : mftEvents[i] = event})
SerialInputAnswered ==
  async_mode /\ depth = 1 /\ pc # "error" =>
    asked = Announced(NeedInput) + (IF pc = "input" THEN 1 ELSE 0)

\* The access unit returned for a frame is that frame's, or with a synchronous
\* transform one at most `lookahead` frames older: nothing stays behind in the
\* encoder between two calls.
NothingLeftBehind ==
  pc = "idle" => ready = 0 /\ held <= (IF async_mode THEN 0 ELSE lookahead)

\* A wait of encode_frame times out only with a transform that takes in several
\* frames at a time: one that takes a single frame asks for it, and answers it,
\* whatever stream changes and earlier calls there were.
SerialNeverTimesOut == pc = "timed_out" => async_mode /\ depth > 1

\* Every call of encode_frame returns, with a unit, with none or with an error.
EncodeReturns == pc # "idle" ~> pc \in {"idle", "timed_out", "error"}
=============================================================================
