------------------------ MODULE VideoReassembly_proofs ------------------------
(***************************************************************************)
(* Proofs about VideoReassembly, for every Mod, First, MaxFrame and Chunks *)
(* its assumptions allow: the type invariant, the integrity of what is     *)
(* kept and shown, the frames a loss may cost, and that reassembly         *)
(* implements FrameChannel.                                                *)
(***************************************************************************)
EXTENDS VideoReassembly, FiniteSetTheorems, TLAPS

-----------------------------------------------------------------------------
(* Frame ids *)

\* A frame id is a u32 value.
LEMMA FrameIdType ==
  ASSUME NEW n \in Int
  PROVE  FrameId(n) \in Ids
BY ReassemblyAssumption DEF FrameId, Ids

\* Division with remainder, as the provers need it spelt out.
LEMMA FrameIdDivision ==
  ASSUME NEW n \in Int
  PROVE  /\ n \div Mod \in Int
         /\ n = (n \div Mod) * Mod + FrameId(n)
BY ReassemblyAssumption, SMTT(30) DEF FrameId

\* The remainder is the only id that fits: how `%` is computed from a witness.
LEMMA FrameIdUnique ==
  ASSUME NEW x \in Int, NEW q \in Int, NEW r \in Ids, x = q * Mod + r
  PROVE  x % Mod = r
BY ReassemblyAssumption, SMTT(30) DEF Ids

\* The wrapping difference of two ids is the wrapping difference of the frames.
LEMMA FrameIdDifference ==
  ASSUME NEW m \in Int, NEW n \in Int, NEW r \in Ids,
         \E k \in Int : m - n = k * Mod + r
  PROVE  (FrameId(m) - FrameId(n)) % Mod = r
<1> PICK k \in Int : m - n = k * Mod + r
  OBVIOUS
<1> DEFINE q == k - (m \div Mod) + (n \div Mod)
<1>1. q \in Int
  BY FrameIdDivision
<1>2. /\ FrameId(m) \in Int /\ FrameId(n) \in Int
  BY FrameIdType DEF Ids
<1>3. FrameId(m) - FrameId(n) = q * Mod + r
  <2>1. /\ m = (m \div Mod) * Mod + FrameId(m)
        /\ n = (n \div Mod) * Mod + FrameId(n)
        /\ m \div Mod \in Int
        /\ n \div Mod \in Int
    BY FrameIdDivision
  <2> QED BY <1>2, <2>1, ReassemblyAssumption, SMTT(30) DEF Ids
<1> QED BY <1>1, <1>2, <1>3, FrameIdUnique

\* Less than half the ids in flight: the signed comparison of two ids orders
\* the frames they stand for, and no two frames share an id.
LEMMA NewerIsLater ==
  ASSUME NEW m \in Frames, NEW n \in Frames
  PROVE  /\ isNewerVideoFrame(FrameId(m), FrameId(n)) <=> m > n
         /\ FrameId(m) = FrameId(n) => m = n
<1>1. /\ m \in Int /\ n \in Int /\ Mod \in Int
      /\ m - n < Mod \div 2 /\ n - m < Mod \div 2
      /\ Mod \div 2 + Mod \div 2 = Mod
  BY ReassemblyAssumption, HalfRange DEF Frames
<1>2. 0 % Mod = 0
  <2>1. 0 \in Ids /\ 0 = 0 * Mod + 0
    BY ReassemblyAssumption DEF Ids
  <2> QED BY <2>1, FrameIdUnique
<1>3. FrameId(m) \in Int /\ FrameId(n) \in Int
  BY <1>1, FrameIdType DEF Ids
<1>4. CASE m >= n
  <2>1. m - n \in Ids /\ \E k \in Int : m - n = k * Mod + (m - n)
    <3>1. 0 \in Int /\ m - n = 0 * Mod + (m - n)
      BY <1>1
    <3> QED BY <1>1, <1>4, <3>1 DEF Ids
  <2>2. (FrameId(m) - FrameId(n)) % Mod = m - n
    BY <1>1, <2>1, FrameIdDifference
  <2> DEFINE d == (FrameId(m) - FrameId(n)) % Mod
  <2>3. FrameId(m) = FrameId(n) => d = 0
    BY <1>2, <1>3
  <2>4. isNewerVideoFrame(FrameId(m), FrameId(n)) <=> d > 0 /\ d < Mod \div 2
    BY DEF isNewerVideoFrame
  <2>5. d = m - n
    BY <2>2
  <2> HIDE DEF d
  <2> QED BY <1>1, <1>4, <2>3, <2>4, <2>5
<1>5. CASE m < n
  <2>1. m - n + Mod \in Ids /\ \E k \in Int : m - n = k * Mod + (m - n + Mod)
    <3>1. -1 \in Int /\ m - n = (-1) * Mod + (m - n + Mod)
      BY <1>1
    <3> QED BY <1>1, <1>5, <3>1 DEF Ids
  <2>2. (FrameId(m) - FrameId(n)) % Mod = m - n + Mod
    BY <1>1, <2>1, FrameIdDifference
  <2> DEFINE d == (FrameId(m) - FrameId(n)) % Mod
  <2>3. FrameId(m) = FrameId(n) => d = 0
    BY <1>2, <1>3
  <2>4. isNewerVideoFrame(FrameId(m), FrameId(n)) <=> d > 0 /\ d < Mod \div 2
    BY DEF isNewerVideoFrame
  <2>5. d = m - n + Mod
    BY <2>2
  <2> HIDE DEF d
  <2> QED BY <1>1, <1>5, <2>3, <2>4, <2>5
<1> QED BY <1>1, <1>4, <1>5


-----------------------------------------------------------------------------
(* Entries *)

\* The test `parts.count == total` says that every index has arrived.
LEMMA CountIsComplete ==
  ASSUME NEW t \in Nat, NEW I \in SUBSET (0 .. t - 1)
  PROVE  Cardinality(I) = t <=> I = 0 .. t - 1
<1>1. IsFiniteSet(0 .. t - 1) /\ Cardinality(0 .. t - 1) = t
  BY FS_Interval
<1> QED BY <1>1, FS_Subset

\* A frame that was sent is in range, and it has at least one chunk.
LEMMA ChunksType ==
  ASSUME TypeOK
  PROVE  /\ sent \subseteq Frames
         /\ \A n \in Frames : n \in Int /\ Chunks[n] \in Nat \ {0}
BY ReassemblyAssumption DEF TypeOK, Frames

\* The entry a datagram of frame n finds holds chunks of frame n only.
LEMMA EntryOfFrame ==
  ASSUME TypeOK, PartsIntact, NEW n \in sent, NEW i \in 0 .. Chunks[n] - 1
  PROVE  \E I \in SUBSET (0 .. Chunks[n] - 1) :
           LET e == EntryOf(FrameId(n), Chunks[n]) IN
           /\ I # 0 .. Chunks[n] - 1
           /\ e.total = Chunks[n]
           /\ DOMAIN e.parts = I
           /\ Stored(e, i, <<n, i>>) = [j \in I \cup {i} |-> <<n, j>>]
           /\ FrameId(n) \notin DOMAIN videoParts => I = {}
           /\ \A p : [e EXCEPT !.parts = p] = [total |-> Chunks[n], parts |-> p]
<1> DEFINE id == FrameId(n)
           e  == EntryOf(id, Chunks[n])
<1>1. CASE id \in DOMAIN videoParts
  <2>0. PICK m \in sent : \E I \in SUBSET (0 .. Chunks[m] - 1) :
           FrameId(m) = id /\ I # 0 .. Chunks[m] - 1 /\ videoParts[id] = Partial(m, I)
    BY <1>1 DEF PartsIntact
  <2>1. PICK I \in SUBSET (0 .. Chunks[m] - 1) :
           FrameId(m) = id /\ I # 0 .. Chunks[m] - 1 /\ videoParts[id] = Partial(m, I)
    BY <2>0
  <2>2. m = n
    BY <2>1, ChunksType, NewerIsLater
  <2>3. e = [total |-> Chunks[n], parts |-> [j \in I |-> <<n, j>>]]
    BY <1>1, <2>1, <2>2 DEF EntryOf, Partial
  <2> QED BY <1>1, <2>1, <2>2, <2>3 DEF Stored
<1>2. CASE id \notin DOMAIN videoParts
  <2>1. e = [total |-> Chunks[n], parts |-> <<>>]
    BY <1>2 DEF EntryOf
  <2>2. DOMAIN e.parts = {}
    BY <2>1
  <2>3. {} # 0 .. Chunks[n] - 1 /\ {} \in SUBSET (0 .. Chunks[n] - 1)
    BY ChunksType
  <2>4. Stored(e, i, <<n, i>>) = [j \in {} \cup {i} |-> <<n, j>>]
    BY <2>2 DEF Stored
  <2>5. e.total = Chunks[n] /\ \A p : [e EXCEPT !.parts = p] = [total |-> Chunks[n], parts |-> p]
    BY <2>1
  <2> HIDE DEF e
  <2> QED BY <2>2, <2>3, <2>4, <2>5 DEF e
<1> QED BY <1>1, <1>2

-----------------------------------------------------------------------------
(* What a datagram does *)

\* ScreenIntact gives the frame on the screen its number.
LEMMA ShownFrameType ==
  ASSUME TypeOK, ScreenIntact
  PROVE  /\ ShownFrame \in Int
         /\ lastDeliveredVideoFrame = None => ShownFrame = First - 1
         /\ lastDeliveredVideoFrame # None =>
              /\ ShownFrame \in sent
              /\ lastDeliveredVideoFrame = FrameId(ShownFrame)
<1>1. CASE screen = NoUnit
  BY <1>1, ReassemblyAssumption DEF ScreenIntact, ShownFrame
<1>2. CASE screen # NoUnit
  <2>1. ShownFrame \in sent /\ lastDeliveredVideoFrame = FrameId(ShownFrame)
    BY <1>2 DEF ScreenIntact
  <2>2. ShownFrame \in Int /\ FrameId(ShownFrame) \in Ids
    BY <2>1, ChunksType, FrameIdType
  <2> QED BY <2>1, <2>2, ReassemblyAssumption DEF None, Ids
<1> QED BY <1>1, <1>2

\* The staleness test on ids says exactly that the frame is overtaken.
LEMMA StaleIsOvertaken ==
  ASSUME TypeOK, ScreenIntact, NEW n \in sent
  PROVE  Stale(FrameId(n)) <=> n <= ShownFrame
<1>1. n \in Frames /\ n \in Int /\ n >= First /\ First \in Int
  BY ChunksType, ReassemblyAssumption DEF Frames
<1>2. CASE lastDeliveredVideoFrame = None
  BY <1>1, <1>2, ShownFrameType DEF Stale
<1>3. CASE lastDeliveredVideoFrame # None
  <2>1. ShownFrame \in Frames /\ lastDeliveredVideoFrame = FrameId(ShownFrame)
    BY <1>3, ShownFrameType, ChunksType
  <2>2. isNewerVideoFrame(FrameId(n), FrameId(ShownFrame)) <=> n > ShownFrame
    BY <1>1, <2>1, NewerIsLater
  <2> QED BY <1>1, <1>3, <2>1, <2>2, ShownFrameType DEF Stale
<1> QED BY <1>2, <1>3

\* A completing datagram puts the whole of a newer frame on the screen.
LEMMA DeliverEffect ==
  ASSUME TypeOK, ScreenIntact, PartsIntact,
         NEW n \in sent, NEW i \in 0 .. Chunks[n] - 1, DeliverFrame(n, i)
  PROVE  /\ n > ShownFrame
         /\ screen' = AccessUnit(n) /\ screen' # NoUnit
         /\ ShownFrame' = n
         /\ lastDeliveredVideoFrame' = FrameId(n)
<1> DEFINE e == EntryOf(FrameId(n), Chunks[n])
<1>1. PICK I \in SUBSET (0 .. Chunks[n] - 1) :
         /\ e.total = Chunks[n]
         /\ Stored(e, i, <<n, i>>) = [j \in I \cup {i} |-> <<n, j>>]
  BY EntryOfFrame, Zenon
<1>2. Chunks[n] \in Nat \ {0} /\ n \in Int
  BY ChunksType
<1>3. I \cup {i} = 0 .. Chunks[n] - 1
  <2>1. Cardinality(I \cup {i}) = Chunks[n]
    BY <1>1 DEF DeliverFrame
  <2>2. I \cup {i} \in SUBSET (0 .. Chunks[n] - 1)
    OBVIOUS
  <2> QED BY <1>2, <2>1, <2>2, CountIsComplete
<1>4. screen' = AccessUnit(n)
  BY <1>1, <1>3 DEF DeliverFrame, AccessUnit
<1>5. screen' # NoUnit /\ screen'[0] = <<n, 0>>
  BY <1>2, <1>4 DEF AccessUnit, NoUnit
<1>6. ShownFrame' = n
  BY <1>5 DEF ShownFrame
<1>7. n > ShownFrame
  BY <1>2, StaleIsOvertaken, ShownFrameType DEF DeliverFrame
<1> QED BY <1>4, <1>5, <1>6, <1>7 DEF DeliverFrame

\* The clean-up after a datagram of frame n spares the frames before the wrap
\* that are at most two behind it.
LEMMA CleanUpSpares ==
  ASSUME NEW m \in Frames, NEW n \in Frames,
         m \div Mod = First \div Mod, n < m + 3
  PROVE  FrameId(m) >= OldestKept(FrameId(n))
<1> DEFINE q == First \div Mod
           k == n \div Mod
<1>1. /\ m \in Int /\ n \in Int /\ First \in Int /\ n >= First
      /\ Mod \in Nat \ {0}
  BY ReassemblyAssumption DEF Frames
<1>2. /\ q \in Int /\ k \in Int
      /\ m = q * Mod + FrameId(m)
      /\ n = k * Mod + FrameId(n)
      /\ First = q * Mod + FrameId(First)
      /\ FrameId(m) \in Ids /\ FrameId(n) \in Ids /\ FrameId(First) \in Ids
  BY <1>1, FrameIdDivision, FrameIdType
<1> HIDE DEF q, k
<1>3. k >= q
  <2> SUFFICES ASSUME k <= q - 1 PROVE FALSE
    BY <1>2
  <2>1. k * Mod <= (q - 1) * Mod
    BY <1>1, <1>2, SMTT(30)
  <2>2. (q - 1) * Mod = q * Mod - Mod
    BY <1>1, <1>2
  <2> QED BY <1>1, <1>2, <2>1, <2>2 DEF Ids
<1>4. k * Mod >= q * Mod
  BY <1>1, <1>2, <1>3, SMTT(30)
<1>5. FrameId(n) - 2 <= FrameId(m) /\ FrameId(m) >= 0
  BY <1>1, <1>2, <1>4 DEF Ids
<1> QED BY <1>2, <1>5 DEF OldestKept, Ids

-----------------------------------------------------------------------------
(* The inductive invariant *)

\* What is shown and what is kept must be known together: the screen stays
\* intact because the kept parts are, and the parts of a frame can only be told
\* from those of another because every kept id belongs to a frame in range.
IInv == TypeOK /\ ScreenIntact /\ PartsIntact /\ ChunksKept

\* A client that has received nothing satisfies the invariant.
LEMMA InitInvariant == Init => IInv
<1> SUFFICES ASSUME Init PROVE IInv
  OBVIOUS
<1>1. TypeOK
  BY ReassemblyAssumption DEF Init, TypeOK, None
<1>2. ScreenIntact /\ PartsIntact /\ ChunksKept
  BY DEF Init, ScreenIntact, PartsIntact, ChunksKept
<1> QED BY <1>1, <1>2 DEF IInv

\* Every step keeps the types; no other part of the invariant is needed.
LEMMA TypeStep == TypeOK /\ [Next]_vars => TypeOK'
<1> SUFFICES ASSUME TypeOK, [Next]_vars PROVE TypeOK'
  OBVIOUS
<1> USE ReassemblyAssumption
<1>1. CASE SendFrame
  BY <1>1 DEF TypeOK, SendFrame, clientVars, Frames
<1>2. CASE SkipFrame
  BY <1>2 DEF TypeOK, SkipFrame, clientVars, Frames
<1>3. ASSUME NEW n \in sent, NEW i \in 0 .. Chunks[n] - 1,
             IgnoreChunk(n, i) \/ KeepChunk(n, i) \/ DeliverFrame(n, i)
      PROVE  TypeOK'
  <2>1. n \in Frames /\ n \in Int /\ Chunks[n] \in Nat /\ FrameId(n) \in Ids
    BY ChunksType, FrameIdType
  <2>2. got' \subseteq {d \in Frames \X Nat : d[1] \in sent /\ d[2] < Chunks[d[1]]}
    BY <1>3, <2>1 DEF TypeOK, IgnoreChunk, KeepChunk, DeliverFrame
  <2>3. DOMAIN videoParts' \subseteq Ids
    BY <1>3, <2>1 DEF TypeOK, IgnoreChunk, KeepChunk, DeliverFrame, Kept, Without, Restrict
  <2>4. lastDeliveredVideoFrame' \in Ids \cup {None}
    BY <1>3, <2>1 DEF TypeOK, IgnoreChunk, KeepChunk, DeliverFrame
  <2>5. UNCHANGED <<frame_count, sent>>
    BY <1>3 DEF IgnoreChunk, KeepChunk, DeliverFrame
  <2> QED BY <2>2, <2>3, <2>4, <2>5 DEF TypeOK
<1>4. CASE UNCHANGED vars
  BY <1>4 DEF TypeOK, vars
<1> QED BY <1>1, <1>2, <1>3, <1>4 DEF Next, Receive

\* Only DeliverFrame touches the screen, and it shows a whole frame.
LEMMA ScreenStep == IInv /\ [Next]_vars => ScreenIntact'
<1> SUFFICES ASSUME IInv, [Next]_vars PROVE ScreenIntact'
  OBVIOUS
<1> USE DEF IInv
<1>1. ASSUME UNCHANGED <<screen, lastDeliveredVideoFrame>>, sent \subseteq sent'
      PROVE  ScreenIntact'
  BY <1>1 DEF ScreenIntact, ShownFrame, AccessUnit
<1>2. CASE SendFrame \/ SkipFrame
  BY <1>1, <1>2 DEF SendFrame, SkipFrame, clientVars
<1>3. ASSUME NEW n \in sent, NEW i \in 0 .. Chunks[n] - 1,
             IgnoreChunk(n, i) \/ KeepChunk(n, i)
      PROVE  ScreenIntact'
  BY <1>1, <1>3 DEF IgnoreChunk, KeepChunk
<1>4. ASSUME NEW n \in sent, NEW i \in 0 .. Chunks[n] - 1, DeliverFrame(n, i)
      PROVE  ScreenIntact'
  <2>1. /\ screen' = AccessUnit(n) /\ screen' # NoUnit
        /\ ShownFrame' = n
        /\ lastDeliveredVideoFrame' = FrameId(n)
    BY <1>4, DeliverEffect
  <2>2. sent' = sent /\ AccessUnit(n)' = AccessUnit(n)
    BY <1>4 DEF DeliverFrame, AccessUnit
  <2> QED BY <2>1, <2>2 DEF ScreenIntact, AccessUnit
<1>5. CASE UNCHANGED vars
  BY <1>1, <1>5 DEF vars
<1> QED BY <1>2, <1>3, <1>4, <1>5 DEF Next, Receive

\* A datagram adds to the parts of its own frame, drops a delivered frame and
\* otherwise only removes entries.
LEMMA PartsStep == IInv /\ [Next]_vars => PartsIntact'
<1> SUFFICES ASSUME IInv, [Next]_vars PROVE PartsIntact'
  OBVIOUS
<1> USE DEF IInv
<1>1. ASSUME sent \subseteq sent', DOMAIN videoParts' \subseteq DOMAIN videoParts,
             \A k \in DOMAIN videoParts' : videoParts'[k] = videoParts[k]
      PROVE  PartsIntact'
  BY <1>1 DEF PartsIntact, Partial
<1>2. CASE SendFrame \/ SkipFrame
  BY <1>1, <1>2 DEF SendFrame, SkipFrame, clientVars
<1>3. ASSUME NEW n \in sent, NEW i \in 0 .. Chunks[n] - 1,
             IgnoreChunk(n, i) \/ DeliverFrame(n, i)
      PROVE  PartsIntact'
  BY <1>1, <1>3 DEF IgnoreChunk, DeliverFrame, Without, Restrict
<1>4. ASSUME NEW n \in sent, NEW i \in 0 .. Chunks[n] - 1, KeepChunk(n, i)
      PROVE  PartsIntact'
  <2> DEFINE id == FrameId(n)
             e  == EntryOf(id, Chunks[n])
             st == Stored(e, i, <<n, i>>)
  <2>1. PICK I \in SUBSET (0 .. Chunks[n] - 1) :
           /\ e.total = Chunks[n]
           /\ st = [j \in I \cup {i} |-> <<n, j>>]
           /\ \A p : [e EXCEPT !.parts = p] = [total |-> Chunks[n], parts |-> p]
    BY EntryOfFrame, Zenon
  <2>2. Chunks[n] \in Nat \ {0} /\ I \cup {i} \in SUBSET (0 .. Chunks[n] - 1)
    BY ChunksType
  <2>3. DOMAIN st = I \cup {i} /\ Cardinality(DOMAIN st) # Chunks[n]
    BY <1>4, <2>1 DEF KeepChunk
  <2>4. I \cup {i} # 0 .. Chunks[n] - 1
    BY <2>2, <2>3, CountIsComplete
  <2>5. [e EXCEPT !.parts = st] = Partial(n, I \cup {i})
    BY <2>1 DEF Partial
  <2>6. videoParts' = [k \in Kept(id) |->
                         IF k = id THEN Partial(n, I \cup {i}) ELSE videoParts[k]]
    BY <1>4, <2>5 DEF KeepChunk
  <2>7. sent' = sent /\ Kept(id) \subseteq DOMAIN videoParts \cup {id}
    BY <1>4 DEF KeepChunk, Kept
  <2> HIDE DEF id, e, st
  <2>8. ASSUME NEW k \in DOMAIN videoParts'
        PROVE  \E m \in sent : \E J \in SUBSET (0 .. Chunks[m] - 1) :
                 /\ FrameId(m) = k
                 /\ J # 0 .. Chunks[m] - 1
                 /\ videoParts'[k] = Partial(m, J)
    <3>1. CASE k = id
      BY <2>2, <2>4, <2>6, <3>1 DEF id
    <3>2. CASE k # id
      BY <2>6, <2>7, <3>2 DEF PartsIntact
    <3> QED BY <3>1, <3>2
  <2> QED BY <2>7, <2>8 DEF PartsIntact, Partial
<1>5. CASE UNCHANGED vars
  BY <1>1, <1>5 DEF vars
<1> QED BY <1>2, <1>3, <1>4, <1>5 DEF Next, Receive

\* A frame the clean-up should have spared: none newer is on the screen, the
\* ids have not wrapped and no handled datagram is three or more frames ahead.
Spared(m, shown, handled) ==
  m > shown /\ m \div Mod = First \div Mod /\ \A e \in handled : e[1] < m + 3

\* A chunk leaves videoParts only when its frame is shown or overtaken, or when
\* a datagram comes in that is three or more frames ahead of it.
LEMMA KeptStep == IInv /\ [Next]_vars => ChunksKept'
<1> SUFFICES ASSUME IInv, [Next]_vars PROVE ChunksKept'
  OBVIOUS
<1> USE DEF IInv
<1>1. ASSUME NEW d \in got, Spared(d[1], ShownFrame, got)
      PROVE  /\ FrameId(d[1]) \in DOMAIN videoParts
             /\ d[2] \in DOMAIN videoParts[FrameId(d[1])].parts
  BY <1>1 DEF Spared, ChunksKept
<1>2. SUFFICES ASSUME NEW d \in got', Spared(d[1], ShownFrame', got')
               PROVE  /\ FrameId(d[1]) \in DOMAIN videoParts'
                      /\ d[2] \in DOMAIN videoParts'[FrameId(d[1])].parts
  BY DEF Spared, ChunksKept
<1>3. CASE UNCHANGED <<videoParts, screen, got>>
  BY <1>1, <1>2, <1>3 DEF ShownFrame
<1>4. ASSUME NEW n \in sent, NEW i \in 0 .. Chunks[n] - 1,
             got' = got \cup {<<n, i>>}, d # <<n, i>>, ShownFrame <= ShownFrame',
             ShownFrame' \in Int
      PROVE  /\ d \in got /\ d[1] \in Frames /\ d[1] \in Int
             /\ FrameId(d[1]) \in DOMAIN videoParts
             /\ d[2] \in DOMAIN videoParts[FrameId(d[1])].parts
  <2>1. d \in got
    BY <1>4
  <2>2. d[1] \in Frames /\ d[1] \in Int
    BY <2>1, ChunksType DEF TypeOK
  <2>3. Spared(d[1], ShownFrame, got)
    BY <1>2, <1>4, <2>2, ShownFrameType DEF Spared
  <2> QED BY <1>1, <2>1, <2>2, <2>3
<1>5. ASSUME NEW n \in sent, NEW i \in 0 .. Chunks[n] - 1, IgnoreChunk(n, i)
      PROVE  /\ FrameId(d[1]) \in DOMAIN videoParts'
             /\ d[2] \in DOMAIN videoParts'[FrameId(d[1])].parts
  <2>1. Stale(FrameId(n))
    BY <1>5, EntryOfFrame DEF IgnoreChunk
  <2>2. ShownFrame' = ShownFrame /\ ShownFrame \in Int /\ n <= ShownFrame
    BY <1>5, <2>1, StaleIsOvertaken, ShownFrameType DEF IgnoreChunk, ShownFrame
  <2>3. n \in Frames /\ n \in Int /\ d[1] > ShownFrame
    BY <1>2, <2>2, ChunksType DEF Spared
  <2>4. d # <<n, i>>
    BY <2>2, <2>3
  <2>5. d[1] \in Frames /\ FrameId(d[1]) \in DOMAIN videoParts
        /\ d[2] \in DOMAIN videoParts[FrameId(d[1])].parts
    BY <1>4, <1>5, <2>2, <2>4 DEF IgnoreChunk
  <2>6. FrameId(d[1]) # FrameId(n)
    BY <2>2, <2>3, <2>5, NewerIsLater
  <2> QED BY <1>5, <2>1, <2>5, <2>6 DEF IgnoreChunk, Without, Restrict
<1>6. ASSUME NEW n \in sent, NEW i \in 0 .. Chunks[n] - 1, KeepChunk(n, i)
      PROVE  /\ FrameId(d[1]) \in DOMAIN videoParts'
             /\ d[2] \in DOMAIN videoParts'[FrameId(d[1])].parts
  <2> DEFINE id == FrameId(n)
             e  == EntryOf(id, Chunks[n])
             st == Stored(e, i, <<n, i>>)
  <2>1. videoParts' = [k \in Kept(id) |->
                         IF k = id THEN [total |-> Chunks[n], parts |-> st]
                                   ELSE videoParts[k]]
    BY <1>6, EntryOfFrame DEF KeepChunk
  <2>2. DOMAIN st = DOMAIN e.parts \cup {i}
    BY DEF Stored
  <2>3. id \in DOMAIN videoParts => e = videoParts[id]
    BY DEF EntryOf
  <2>4. n \in Frames /\ n \in Int /\ id \in Nat
    BY ChunksType, FrameIdType, ReassemblyAssumption DEF Ids
  <2>5. id \in Kept(id)
    <3> HIDE DEF id, e, st
    <3> QED BY <2>4 DEF Kept, OldestKept
  <2>6. ShownFrame' = ShownFrame /\ ShownFrame \in Int
        /\ got' = got \cup {<<n, i>>}
    BY <1>6, ShownFrameType DEF KeepChunk, ShownFrame
  <2>7. CASE d = <<n, i>>
    BY <2>1, <2>2, <2>5, <2>7
  <2>8. CASE d # <<n, i>>
    <3>1. /\ d[1] \in Frames /\ d[1] \in Int
          /\ FrameId(d[1]) \in DOMAIN videoParts
          /\ d[2] \in DOMAIN videoParts[FrameId(d[1])].parts
      BY <1>4, <2>6, <2>8
    <3>2. n < d[1] + 3 /\ d[1] \div Mod = First \div Mod
      <4>1. <<n, i>> \in got' /\ <<n, i>>[1] = n
        BY <2>6
      <4>2. \A x \in got' : x[1] < d[1] + 3
        BY <1>2 DEF Spared
      <4>3. d[1] \div Mod = First \div Mod
        BY <1>2 DEF Spared
      <4> QED BY <4>1, <4>2, <4>3, Zenon
    <3>3. FrameId(d[1]) \in Kept(id)
      BY <2>4, <3>1, <3>2, CleanUpSpares DEF Kept
    <3> HIDE DEF id, e, st
    <3> QED BY <2>1, <2>2, <2>3, <3>1, <3>3
  <2> QED BY <2>7, <2>8
<1>7. ASSUME NEW n \in sent, NEW i \in 0 .. Chunks[n] - 1, DeliverFrame(n, i)
      PROVE  /\ FrameId(d[1]) \in DOMAIN videoParts'
             /\ d[2] \in DOMAIN videoParts'[FrameId(d[1])].parts
  <2>1. n > ShownFrame /\ ShownFrame' = n /\ ShownFrame \in Int
        /\ n \in Frames /\ n \in Int
    BY <1>7, DeliverEffect, ShownFrameType, ChunksType
  <2>2. d[1] > n /\ d # <<n, i>>
    BY <1>2, <2>1 DEF Spared
  <2>3. d[1] \in Frames /\ d[1] \in Int /\ FrameId(d[1]) \in DOMAIN videoParts
        /\ d[2] \in DOMAIN videoParts[FrameId(d[1])].parts
    BY <1>4, <1>7, <2>1, <2>2 DEF DeliverFrame
  <2>4. FrameId(d[1]) # FrameId(n)
    BY <2>1, <2>2, <2>3, NewerIsLater
  <2> QED BY <1>7, <2>3, <2>4 DEF DeliverFrame, Without, Restrict
<1> QED
  BY <1>3, <1>5, <1>6, <1>7 DEF Next, Receive, SendFrame, SkipFrame, clientVars, vars

-----------------------------------------------------------------------------
(* Theorems *)

\* The invariant holds in every reachable state.
LEMMA Invariant == Spec => []IInv
<1>1. IInv /\ [Next]_vars => IInv'
  BY TypeStep, ScreenStep, PartsStep, KeptStep DEF IInv
<1> QED BY InitInvariant, <1>1, PTL DEF Spec

\* The u32 ids, the bookkeeping keyed by them and the datagrams handled are
\* always of their types.
THEOREM TypeCorrect == Spec => []TypeOK
<1>1. IInv => TypeOK
  BY DEF IInv
<1> QED BY Invariant, <1>1, PTL

\* Whatever the network loses, repeats or reorders, handleVideoDatagram never
\* gives the decoder a torn access unit.
THEOREM NoTornPicture == Spec => []ScreenIntact
<1>1. IInv => ScreenIntact
  BY DEF IInv
<1> QED BY Invariant, <1>1, PTL

\* The parts kept under an id never mix two frames, and videoParts never holds
\* a frame that could have been delivered.
THEOREM NoMixedParts == Spec => []PartsIntact
<1>1. IInv => PartsIntact
  BY DEF IInv
<1> QED BY Invariant, <1>1, PTL

\* "Lost chunks discard only one frame" (udp.rs:1), within a reordering of two
\* frames and before the ids wrap.
THEOREM LossCostsOneFrame == Spec => []LossDiscardsOneFrame
<1>1. IInv => LossDiscardsOneFrame
  <2> SUFFICES ASSUME IInv, NEW n \in sent, AllChunksHandled(n),
                      n \div Mod = First \div Mod, \A d \in got : d[1] < n + 3,
                      ShownFrame < n
               PROVE  FALSE
    BY ShownFrameType, ChunksType DEF LossDiscardsOneFrame, IInv
  <2>1. Chunks[n] \in Nat \ {0}
    BY ChunksType DEF IInv
  <2>2. \A i \in 0 .. Chunks[n] - 1 :
          /\ FrameId(n) \in DOMAIN videoParts
          /\ i \in DOMAIN videoParts[FrameId(n)].parts
    BY <2>1 DEF IInv, ChunksKept, AllChunksHandled
  <2>3. PICK m \in sent : \E I \in SUBSET (0 .. Chunks[m] - 1) :
          /\ FrameId(m) = FrameId(n)
          /\ I # 0 .. Chunks[m] - 1
          /\ videoParts[FrameId(n)] = Partial(m, I)
    BY <2>1, <2>2 DEF IInv, PartsIntact
  <2>4. m = n
    BY <2>3, ChunksType, NewerIsLater DEF IInv
  <2>5. PICK I \in SUBSET (0 .. Chunks[n] - 1) :
          I # 0 .. Chunks[n] - 1 /\ DOMAIN videoParts[FrameId(n)].parts = I
    BY <2>3, <2>4 DEF Partial
  <2> QED BY <2>2, <2>5
<1> QED BY Invariant, <1>1, PTL

\* handleVideoDatagram implements the abstract channel: the picture is always
\* a whole sent frame and only moves forward, across the wrap of the ids too.
THEOREM Refinement == Spec => ImplementsChannel
<1>1. Init => Channel!ChannelInit
  BY DEF Init, Channel!ChannelInit, ShownFrame, NoUnit, Channel!NoUnit
<1>2. IInv /\ [Next]_vars => [Channel!ChannelNext]_Channel!channelVars
  <2> SUFFICES ASSUME IInv, [Next]_vars
               PROVE  Channel!ChannelNext \/ UNCHANGED Channel!channelVars
    OBVIOUS
  <2>1. CASE SendFrame \/ SkipFrame
    BY <2>1 DEF SendFrame, SkipFrame, clientVars, ShownFrame,
                Channel!ChannelNext, Channel!ChannelTake
  <2>2. ASSUME NEW n \in sent, NEW i \in 0 .. Chunks[n] - 1,
               IgnoreChunk(n, i) \/ KeepChunk(n, i)
        PROVE  UNCHANGED Channel!channelVars
    BY <2>2 DEF IgnoreChunk, KeepChunk, ShownFrame, Channel!channelVars
  <2>3. ASSUME NEW n \in sent, NEW i \in 0 .. Chunks[n] - 1, DeliverFrame(n, i)
        PROVE  Channel!ChannelNext
    <3>1. n > ShownFrame /\ screen' = AccessUnit(n) /\ ShownFrame' = n
      BY <2>3, DeliverEffect DEF IInv
    <3>2. UNCHANGED <<frame_count, sent>>
      BY <2>3 DEF DeliverFrame
    <3> QED BY <3>1, <3>2 DEF AccessUnit, Channel!AccessUnit,
                              Channel!ChannelShow, Channel!ChannelNext
  <2>4. CASE UNCHANGED vars
    BY <2>4 DEF vars, ShownFrame, Channel!channelVars
  <2> QED BY <2>1, <2>2, <2>3, <2>4 DEF Next, Receive
<1> QED BY Invariant, <1>1, <1>2, PTL DEF Spec, ImplementsChannel, Channel!ChannelSpec
=============================================================================
