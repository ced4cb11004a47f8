------------------------------ MODULE TouchInput ------------------------------
(***************************************************************************)
(* Touch input of one connection, from the fingers on the iPad to the      *)
(* contacts Windows believes in: the touch callbacks of StreamSurfaceView, *)
(* the messages on the TCP connection, the reader thread of handle_client  *)
(* and TouchInjector.apply_and_send with its bookkeeping per touch id.     *)
(*                                                                         *)
(* A point is a member of a set: only whether it changed matters.  Windows *)
(* is modelled by the set of ids in contact; it refuses a transition that  *)
(* does not fit, and may refuse an injection for reasons of its own.       *)
(***************************************************************************)
EXTENDS Integers, Sequences, Functions, FiniteSets

CONSTANTS Fingers, Points,
          IdMod,     \* the number of u8 touch ids, scaled down
          MaxTaps,   \* bound: fingers put down
          MaxQueue   \* bound: messages on the connection

ASSUME TouchAssumption ==
  /\ IsFiniteSet(Fingers) /\ Points # {}
  /\ IdMod \in Nat \ {0} /\ MaxTaps \in Nat /\ MaxQueue \in Nat

VARIABLES
  \* StreamSurfaceView
  touchMap,     \* [fingers on the glass -> id and point]
  taps,         \* fingers put down so far
  \* the connection
  connected,    \* the client's end is open
  tcp,          \* touch messages in flight, each a sequence of events
  \* the reader thread
  injector,     \* "ready", "unsupported" (no device) or "dropped"
  state,        \* [ids seen -> last point, and whether active]
  \* Windows
  contacts,     \* the ids in contact
  \* history
  illegal,      \* a transition that does not fit the contacts was injected
                \* before any injection had failed
  failed,       \* an injection failed
  collided      \* two fingers on the glass had the same id

viewVars == <<touchMap, taps, collided>>
serverVars == <<injector, state, contacts, illegal, failed>>
vars == <<viewVars, connected, tcp, serverVars>>

Ids == 0 .. IdMod - 1
Events == [id : Ids, active : BOOLEAN, point : Points]

Init ==
  /\ touchMap = [f \in {} |-> 0]
  /\ taps = 0
  /\ connected = TRUE
  /\ tcp = <<>>
  /\ injector \in {"ready", "unsupported"}
  /\ state = [i \in {} |-> 0]
  /\ contacts = {}
  /\ illegal = FALSE /\ failed = FALSE /\ collided = FALSE

-----------------------------------------------------------------------------
(* The iPad *)

\* sendTouches: nothing is sent without a connection.
Send(message) == tcp' = IF connected THEN Append(tcp, message) ELSE tcp

\* The fingers of a touch map in some order: dictionaries have none.
Orders(map) == {s \in [1 .. Cardinality(DOMAIN map) -> DOMAIN map] : IsInjective(s)}

\* emitBatch: every finger on the glass, as active.
EmitBatch(map) ==
  \E order \in Orders(map) :
    Send([k \in DOMAIN order |->
            [id |-> map[order[k]].id, active |-> TRUE, point |-> map[order[k]].point]])

\* Mutant of nextTouchID: a counter that does not wrap.
nextTouchIDUnwrapped == taps

\* The u8 counter that touchesBegan increments with wrapping.
nextTouchID == taps % IdMod

\* touchesBegan: the next id is given to the finger, and a batch sent.
TouchBegan(f, p) ==
  /\ f \notin DOMAIN touchMap
  /\ taps < MaxTaps /\ Len(tcp) < MaxQueue
  /\ taps' = taps + 1
  /\ touchMap' = [g \in DOMAIN touchMap \cup {f} |->
                    IF g = f THEN [id |-> nextTouchID, point |-> p] ELSE touchMap[g]]
  /\ collided' = (collided \/ \E g \in DOMAIN touchMap : touchMap[g].id = nextTouchID)
  /\ EmitBatch(touchMap')
  /\ UNCHANGED <<connected, serverVars>>

\* touchesMoved: the points of the fingers that moved are stored, then one
\* batch is sent.
TouchesMoved(moved) ==
  /\ moved # {} /\ moved \subseteq DOMAIN touchMap
  /\ Len(tcp) < MaxQueue
  /\ \E to \in [moved -> Points] :
       touchMap' = [g \in DOMAIN touchMap |->
                      IF g \in moved THEN [touchMap[g] EXCEPT !.point = to[g]] ELSE touchMap[g]]
  /\ EmitBatch(touchMap')
  /\ UNCHANGED <<taps, collided, connected, serverVars>>

\* Mutant of TouchEnded: the finger is forgotten without a message.
TouchEndedSilently(f, p) ==
  /\ f \in DOMAIN touchMap
  /\ touchMap' = [g \in DOMAIN touchMap \ {f} |-> touchMap[g]]
  /\ UNCHANGED <<tcp, taps, collided, connected, serverVars>>

\* touchesEnded, and touchesCancelled: the finger's id is sent as inactive.
TouchEnded(f, p) ==
  /\ f \in DOMAIN touchMap
  /\ Len(tcp) < MaxQueue
  /\ touchMap' = [g \in DOMAIN touchMap \ {f} |-> touchMap[g]]
  /\ Send(<<[id |-> touchMap[f].id, active |-> FALSE, point |-> p]>>)
  /\ UNCHANGED <<taps, collided, connected, serverVars>>

\* The connection is closed; what was in flight may get through or not.
Disconnect ==
  /\ connected
  /\ connected' = FALSE
  /\ \E n \in 0 .. Len(tcp) : tcp' = SubSeq(tcp, 1, n)
  /\ UNCHANGED <<viewVars, serverVars>>

-----------------------------------------------------------------------------
(* The reader thread *)

\* The entry of the id, or an inactive one at the event's own point.
Previous(st, e) ==
  IF e.id \in DOMAIN st THEN st[e.id] ELSE [active |-> FALSE, point |-> e.point]

\* Mutant of FlagOf: an id goes down the first time it is seen only.
FlagOfFirstDown(st, e) ==
  LET prev == Previous(st, e) IN
  IF e.active /\ e.id \notin DOMAIN st THEN "DOWN"
  ELSE IF e.active /\ prev.point # e.point THEN "UPDATE"
  ELSE IF ~ e.active /\ prev.active THEN "UP"
  ELSE "none"

\* The pointer flag of the event, or "none": nothing changed.
FlagOf(st, e) ==
  LET prev == Previous(st, e) IN
  IF e.active /\ ~ prev.active THEN "DOWN"
  ELSE IF e.active /\ prev.point # e.point THEN "UPDATE"
  ELSE IF ~ e.active /\ prev.active THEN "UP"
  ELSE "none"

\* One event of a message: its flag joins the infos and the bookkeeping is
\* brought up to date; without a flag neither happens.
ApplyEvent(acc, e) ==
  LET flag == FlagOf(acc.state, e) IN
  IF flag = "none" THEN acc
  ELSE [state |-> [i \in DOMAIN acc.state \cup {e.id} |->
                     IF i = e.id THEN [active |-> e.active, point |-> e.point]
                                 ELSE acc.state[i]],
        infos |-> Append(acc.infos, [id |-> e.id, flag |-> flag])]

\* The loop over the events of a message.
ApplyEvents(st, message) ==
  LET after[k \in 0 .. Len(message)] ==
        IF k = 0 THEN [state |-> st, infos |-> <<>>] ELSE ApplyEvent(after[k - 1], message[k])
  IN after[Len(message)]

\* Windows' view of one of the infos: the ids in contact after it, and whether
\* each transition fits.
Inject(acc, info) ==
  [contacts |-> CASE info.flag = "DOWN" -> acc.contacts \cup {info.id}
                  [] info.flag = "UP" -> acc.contacts \ {info.id}
                  [] OTHER -> acc.contacts,
   fits |-> acc.fits /\ (info.flag = "DOWN" <=> info.id \notin acc.contacts)]

\* And of the infos of one injection.
InjectAll(down, infos) ==
  LET after[k \in 0 .. Len(infos)] ==
        IF k = 0 THEN [contacts |-> down, fits |-> TRUE] ELSE Inject(after[k - 1], infos[k])
  IN after[Len(infos)]

\* read_message returns the messages whole and in order.
ReadMessage == tcp # <<>> /\ tcp' = Tail(tcp)

\* A message is read and applied: the bookkeeping changes first, then one
\* injection succeeds as a whole or fails, and is only logged.
ApplyAndSend ==
  /\ ReadMessage /\ injector # "dropped"
  /\ IF injector = "unsupported" THEN UNCHANGED <<state, contacts, illegal, failed>>
     ELSE LET applied == ApplyEvents(state, Head(tcp))
              result == InjectAll(contacts, applied.infos)
          IN
          /\ state' = applied.state
          /\ illegal' = (illegal \/ (~ failed /\ ~ result.fits))
          /\ \E ok \in BOOLEAN :
               /\ ok => result.fits
               /\ applied.infos = <<>> => ok
               /\ failed' = (failed \/ ~ ok)
               /\ contacts' = IF ok THEN result.contacts ELSE contacts
  /\ UNCHANGED <<viewVars, connected, injector>>

\* The reader thread reads the end of the stream and returns.  The injector is
\* dropped; nothing calls its `shutdown`, so the device keeps its contacts.
ReaderEnds ==
  /\ ~ connected /\ tcp = <<>> /\ injector # "dropped"
  /\ injector' = "dropped"
  /\ UNCHANGED <<viewVars, connected, tcp, state, contacts, illegal, failed>>

Next ==
  \/ \E f \in Fingers, p \in Points : TouchBegan(f, p) \/ TouchEnded(f, p)
  \/ \E moved \in SUBSET Fingers : TouchesMoved(moved)
  \/ Disconnect
  \/ ApplyAndSend \/ ReaderEnds

Spec == Init /\ [][Next]_vars

-----------------------------------------------------------------------------
(* Properties *)

\* Type correctness: every id on the glass, in a message, in the bookkeeping and
\* in Windows is a u8.
TypeOK ==
  /\ DOMAIN touchMap \subseteq Fingers
  /\ \A f \in DOMAIN touchMap : touchMap[f] \in [id : Ids, point : Points]
  /\ taps \in 0 .. MaxTaps
  /\ connected \in BOOLEAN
  /\ tcp \in Seq(Seq(Events))
  /\ injector \in {"ready", "unsupported", "dropped"}
  /\ DOMAIN state \subseteq Ids
  /\ \A i \in DOMAIN state : state[i] \in [active : BOOLEAN, point : Points]
  /\ contacts \subseteq Ids
  /\ illegal \in BOOLEAN /\ failed \in BOOLEAN /\ collided \in BOOLEAN

\* "correct DOWN/MOVE/UP transitions between client messages" (touch.rs:184-185):
\* an id goes down when it is up, and moves or goes up when it is down, whatever
\* messages were lost at the end and whichever ids were used again or shared.
\* The first injection that fails is one that Windows could have carried out.
LegalTransitions == ~ illegal

\* The bookkeeping is what Windows believes, until an injection fails.
BookkeepingAgrees ==
  ~ failed => contacts = {i \in DOMAIN state : state[i].active}

\* Once all messages are applied the contacts are the fingers on the glass: no
\* finger is missing and none stuck, as long as ids were not shared, no
\* injection failed and the connection is up.
ContactsAreFingers ==
  tcp = <<>> /\ connected /\ injector = "ready" /\ ~ failed /\ ~ collided
    => contacts = {touchMap[f].id : f \in DOMAIN touchMap}
=============================================================================
