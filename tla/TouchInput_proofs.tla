-------------------------- MODULE TouchInput_proofs --------------------------
(***************************************************************************)
(* The touch path for every set of fingers and points, every number of ids *)
(* and every length of the queue: type correctness, legal transitions, the *)
(* agreement of the bookkeeping with Windows, and no finger lost or stuck. *)
(*                                                                         *)
(* ApplyEvents and InjectAll are loops, written as recursive functions of  *)
(* the number of turns.  What they compute is shown by induction over the  *)
(* turns: a set of naturals that is not empty has a least element.         *)
(***************************************************************************)
EXTENDS TouchInput, FiniteSetTheorems, FunctionTheorems, WellFoundedInduction, TLAPS

-----------------------------------------------------------------------------
(* Induction *)

LessThan == {p \in Nat \X Nat : p[1] < p[2]}

\* A set of natural numbers has a least element.
LEMMA LeastElement ==
  ASSUME NEW T \in SUBSET Nat, T # {}
  PROVE  \E x \in T : \A y \in T : x <= y
<1>1. IsWellFoundedOn(LessThan, Nat)
  <2>1. IsWellFoundedOn(OpToRel(<, Nat), Nat)
    BY NatLessThanWellFounded, Zenon
  <2>2. OpToRel(<, Nat) = LessThan
    BY DEF OpToRel, LessThan
  <2> QED
    BY <2>1, <2>2
<1>2. PICK x \in T : \A y \in T : ~ (<<y, x>> \in LessThan)
  BY <1>1, WFMin
<1>3. \A y \in T : x <= y
  <2> SUFFICES ASSUME NEW y \in T, y < x PROVE FALSE
    OBVIOUS
  <2>1. <<y, x>> \in LessThan
    BY DEF LessThan
  <2> QED
    BY <1>2, <2>1
<1> QED
  BY <1>3

\* Induction up to a number, over a set.
LEMMA UpTo ==
  ASSUME NEW n \in Nat, NEW S, 0 \in S, \A k \in 0 .. n - 1 : k \in S => k + 1 \in S
  PROVE  \A k \in 0 .. n : k \in S
<1> DEFINE T == {k \in 0 .. n : k \notin S}
<1> SUFFICES ASSUME T # {} PROVE FALSE
  OBVIOUS
<1>1. PICK x \in T : \A y \in T : x <= y
  <2>1. T \in SUBSET Nat
    OBVIOUS
  <2> HIDE DEF T
  <2> QED
    BY <2>1, LeastElement
<1>2. x # 0 /\ x - 1 \in 0 .. n - 1 /\ x - 1 \notin T
  BY <1>1
<1> QED
  BY <1>1, <1>2

\* The values after each turn of a loop that begins with b and whose k-th turn
\* is the function G[k].
LoopValues(f, V, b, n, G) ==
  f \in [0 .. n -> V] /\ f[0] = b /\ \A k \in 1 .. n : f[k] = G[k][f[k - 1]]

\* A loop of n turns has a value after each of them.
LEMMA LoopExists ==
  ASSUME NEW V, NEW b \in V, NEW n \in Nat, NEW G \in [1 .. n -> [V -> V]]
  PROVE  \E f : LoopValues(f, V, b, n, G)
<1> DEFINE Run(f, j) == f[0] = b /\ \A k \in 1 .. j : f[k] = G[k][f[k - 1]]
           S == {j \in 0 .. n : \E f \in [0 .. j -> V] : Run(f, j)}
<1>1. 0 \in S
  <2> DEFINE g == [k \in 0 .. 0 |-> b]
  <2>1. g \in [0 .. 0 -> V] /\ Run(g, 0)
    OBVIOUS
  <2>2. 0 \in 0 .. n
    OBVIOUS
  <2> HIDE DEF g, Run
  <2> QED
    BY <2>1, <2>2
<1>2. ASSUME NEW j \in 0 .. n - 1, j \in S PROVE j + 1 \in S
  <2>1. PICK f \in [0 .. j -> V] : Run(f, j)
    BY <1>2
  <2> DEFINE g == [k \in 0 .. j + 1 |-> IF k = j + 1 THEN G[j + 1][f[j]] ELSE f[k]]
  <2>2. j + 1 \in 1 .. n /\ f[j] \in V /\ G[j + 1][f[j]] \in V
    OBVIOUS
  <2>3. g \in [0 .. j + 1 -> V]
    BY <2>2
  <2>4. g[0] = b
    BY <2>1
  <2>5. ASSUME NEW k \in 1 .. j + 1 PROVE g[k] = G[k][g[k - 1]]
    BY <2>1
  <2>6. Run(g, j + 1)
    BY <2>4, <2>5
  <2> HIDE DEF g, Run
  <2> QED
    BY <2>2, <2>3, <2>6
<1> HIDE DEF S
<1>3. \A k \in 0 .. n : k \in S
  <2>1. \A j \in 0 .. n - 1 : j \in S => j + 1 \in S
    BY <1>2
  <2> QED
    BY <1>1, <2>1, UpTo
<1>4. n \in S
  BY <1>3
<1> QED
  BY <1>4 DEF S, LoopValues

-----------------------------------------------------------------------------
(* The loops *)

Entries == [active : BOOLEAN, point : Points]
Books == UNION {[D -> Entries] : D \in SUBSET Ids}
Infos == [id : Ids, flag : {"DOWN", "UPDATE", "UP"}]

\* The values of the two loops.
Progress == [state : Books, infos : Seq(Infos)]
Views == [contacts : SUBSET Ids, fits : BOOLEAN]

\* The ids that the bookkeeping holds to be down.
Down(st) == {i \in DOMAIN st : st[i].active}

\* What a book is.
LEMMA BookParts ==
  ASSUME NEW st \in Books
  PROVE  /\ DOMAIN st \subseteq Ids /\ st \in [DOMAIN st -> Entries]
         /\ \A i \in DOMAIN st : st[i] \in Entries /\ st[i].active \in BOOLEAN
<1>1. PICK D \in SUBSET Ids : st \in [D -> Entries]
  BY DEF Books
<1> QED
  BY <1>1 DEF Entries

\* An entry more, or an entry changed.
LEMMA BookWritten ==
  ASSUME NEW st \in Books, NEW i \in Ids, NEW x \in Entries
  PROVE  [j \in DOMAIN st \cup {i} |-> IF j = i THEN x ELSE st[j]] \in Books
<1>1. DOMAIN st \cup {i} \in SUBSET Ids
  BY BookParts
<1>2. [j \in DOMAIN st \cup {i} |-> IF j = i THEN x ELSE st[j]] \in [DOMAIN st \cup {i} -> Entries]
  BY BookParts
<1> QED
  BY <1>1, <1>2 DEF Books

\* One turn of the loop over events: what it does to the infos and to the ids
\* that are down.
LEMMA ApplyEventStep ==
  ASSUME NEW acc \in Progress, NEW e \in Events
  PROVE  LET flag == FlagOf(acc.state, e) IN
         /\ ApplyEvent(acc, e) \in Progress
         /\ Down(ApplyEvent(acc, e).state) =
              IF e.active THEN Down(acc.state) \cup {e.id} ELSE Down(acc.state) \ {e.id}
         /\ \/ ApplyEvent(acc, e) = acc
            \/ /\ ApplyEvent(acc, e).infos = Append(acc.infos, [id |-> e.id, flag |-> flag])
               /\ flag = "DOWN" /\ e.active /\ e.id \notin Down(acc.state)
            \/ /\ ApplyEvent(acc, e).infos = Append(acc.infos, [id |-> e.id, flag |-> flag])
               /\ flag = "UPDATE" /\ e.active /\ e.id \in Down(acc.state)
            \/ /\ ApplyEvent(acc, e).infos = Append(acc.infos, [id |-> e.id, flag |-> flag])
               /\ flag = "UP" /\ ~ e.active /\ e.id \in Down(acc.state)
<1> DEFINE st == acc.state
           flag == FlagOf(st, e)
           book == [j \in DOMAIN st \cup {e.id} |->
                      IF j = e.id THEN [active |-> e.active, point |-> e.point] ELSE st[j]]
<1>0. /\ st \in Books /\ acc.infos \in Seq(Infos)
      /\ e.id \in Ids /\ e.active \in BOOLEAN /\ e.point \in Points
  BY DEF Progress, Events
<1>1. \A i \in DOMAIN st : st[i].active \in BOOLEAN
  BY <1>0, BookParts
<1>2. e.id \in Down(st) <=> Previous(st, e).active
  BY <1>1 DEF Down, Previous
<1>3. /\ flag = "DOWN" <=> e.active /\ e.id \notin Down(st)
      /\ flag = "UPDATE" => e.active /\ e.id \in Down(st)
      /\ flag = "UP" <=> ~ e.active /\ e.id \in Down(st)
      /\ flag \in {"DOWN", "UPDATE", "UP", "none"}
  BY <1>0, <1>2 DEF FlagOf
<1>4. CASE flag = "none"
  <2>1. ApplyEvent(acc, e) = acc
    BY <1>4 DEF ApplyEvent
  <2>2. e.active <=> e.id \in Down(st)
    BY <1>0, <1>3, <1>4
  <2>3. Down(st) = IF e.active THEN Down(st) \cup {e.id} ELSE Down(st) \ {e.id}
    BY <2>2
  <2> QED
    BY <2>1, <2>3
<1>5. CASE flag # "none"
  <2>1. ApplyEvent(acc, e) = [state |-> book, infos |-> Append(acc.infos, [id |-> e.id, flag |-> flag])]
    BY <1>5 DEF ApplyEvent
  <2>2. book \in Books
    <3>1. [active |-> e.active, point |-> e.point] \in Entries
      BY <1>0 DEF Entries
    <3> QED
      BY <1>0, <3>1, BookWritten
  <2>3. [id |-> e.id, flag |-> flag] \in Infos
    BY <1>0, <1>3, <1>5 DEF Infos
  <2>4. Down(book) = IF e.active THEN Down(st) \cup {e.id} ELSE Down(st) \ {e.id}
    BY <1>0 DEF Down
  <2> HIDE DEF book, flag
  <2>5. ApplyEvent(acc, e) \in Progress
    BY <1>0, <2>1, <2>2, <2>3 DEF Progress
  <2>6. ApplyEvent(acc, e).state = book
    BY <2>1
  <2>7. ApplyEvent(acc, e).infos = Append(acc.infos, [id |-> e.id, flag |-> flag])
    BY <2>1
  <2> QED
    BY <1>3, <1>5, <2>4, <2>5, <2>6, <2>7 DEF flag
<1> QED
  BY <1>4, <1>5

\* What ApplyEvents computes is the last value of its loop.
LEMMA EventsLoop ==
  ASSUME NEW st \in Books, NEW m \in Seq(Events)
  PROVE  \E f \in [0 .. Len(m) -> Progress] :
           /\ f[0] = [state |-> st, infos |-> <<>>]
           /\ \A k \in 1 .. Len(m) : f[k] = ApplyEvent(f[k - 1], m[k])
           /\ ApplyEvents(st, m) = f[Len(m)]
<1> DEFINE n == Len(m)
           b == [state |-> st, infos |-> <<>>]
           G == [k \in 1 .. n |-> [v \in Progress |-> ApplyEvent(v, m[k])]]
           Loop(f) == [k \in 0 .. n |-> IF k = 0 THEN b ELSE ApplyEvent(f[k - 1], m[k])]
           after == CHOOSE f : f = Loop(f)
<1>0. n \in Nat /\ \A k \in 1 .. n : m[k] \in Events
  OBVIOUS
<1>1. b \in Progress
  <2>1. <<>> \in Seq(Infos)
    OBVIOUS
  <2> QED
    BY <2>1 DEF Progress
<1>2. \A v \in Progress : \A k \in 1 .. n : ApplyEvent(v, m[k]) \in Progress
  BY <1>0, ApplyEventStep, Zenon
<1> HIDE DEF n, b
<1>3. G \in [1 .. n -> [Progress -> Progress]]
  BY <1>2
<1>4. PICK g \in [0 .. n -> Progress] : g[0] = b /\ \A k \in 1 .. n : g[k] = G[k][g[k - 1]]
  <2>1. n \in Nat
    BY <1>0
  <2> HIDE DEF G
  <2>2. \E g : LoopValues(g, Progress, b, n, G)
    BY <1>1, <1>3, <2>1, LoopExists
  <2> QED
    BY <2>2 DEF LoopValues
<1>5. \A k \in 0 .. n : g[k] = Loop(g)[k]
  <2> SUFFICES ASSUME NEW k \in 0 .. n PROVE g[k] = Loop(g)[k]
    OBVIOUS
  <2>1. CASE k = 0
    BY <1>4, <2>1
  <2>2. CASE k # 0
    <3>1. k \in 1 .. n /\ k - 1 \in 0 .. n /\ g[k - 1] \in Progress
      BY <1>0, <2>2
    <3>2. G[k][g[k - 1]] = ApplyEvent(g[k - 1], m[k])
      BY <3>1
    <3> QED
      BY <1>4, <2>2, <3>1, <3>2
  <2> QED
    BY <2>1, <2>2
<1>6. g = Loop(g)
  BY <1>5
<1>7. after = Loop(after)
  <2> HIDE DEF Loop
  <2> QED
    BY <1>6
<1> HIDE DEF after
<1>8. after[0] = b /\ \A k \in 1 .. n : after[k] = ApplyEvent(after[k - 1], m[k])
  BY <1>0, <1>7
<1>9. \A k \in 0 .. n : after[k] \in Progress
  <2> DEFINE S == {k \in 0 .. n : after[k] \in Progress}
  <2>1. 0 \in S
    BY <1>0, <1>1, <1>8
  <2>2. ASSUME NEW k \in 0 .. n - 1, k \in S PROVE k + 1 \in S
    <3>1. k + 1 \in 1 .. n /\ (k + 1) - 1 = k /\ after[k] \in Progress
      BY <1>0, <2>2
    <3>2. after[k + 1] = ApplyEvent(after[k], m[k + 1])
      BY <1>8, <3>1
    <3> QED
      BY <1>0, <1>2, <3>1, <3>2
  <2> HIDE DEF S
  <2>3. \A k \in 0 .. n : k \in S
    BY <1>0, <2>1, <2>2, UpTo
  <2> QED
    BY <2>3 DEF S
<1>10. after \in [0 .. n -> Progress]
  BY <1>7, <1>9
<1>11. ApplyEvents(st, m) = after[n]
  BY DEF ApplyEvents, after, n, b
<1> QED
  BY <1>8, <1>10, <1>11 DEF n, b

\* One of the infos leaves a view a view.
LEMMA InjectView ==
  ASSUME NEW acc \in Views, NEW info \in Infos
  PROVE  Inject(acc, info) \in Views
<1>1. acc.contacts \subseteq Ids /\ acc.fits \in BOOLEAN /\ info.id \in Ids
  BY DEF Views, Infos
<1> QED
  BY <1>1 DEF Inject, Views

\* What InjectAll computes is the last value of its loop.
LEMMA InfosLoop ==
  ASSUME NEW down \in SUBSET Ids, NEW infos \in Seq(Infos)
  PROVE  \E f \in [0 .. Len(infos) -> Views] :
           /\ f[0] = [contacts |-> down, fits |-> TRUE]
           /\ \A k \in 1 .. Len(infos) : f[k] = Inject(f[k - 1], infos[k])
           /\ InjectAll(down, infos) = f[Len(infos)]
<1> DEFINE n == Len(infos)
           b == [contacts |-> down, fits |-> TRUE]
           G == [k \in 1 .. n |-> [v \in Views |-> Inject(v, infos[k])]]
           Loop(f) == [k \in 0 .. n |-> IF k = 0 THEN b ELSE Inject(f[k - 1], infos[k])]
           after == CHOOSE f : f = Loop(f)
<1>0. n \in Nat /\ \A k \in 1 .. n : infos[k] \in Infos
  OBVIOUS
<1>1. b \in Views
  BY DEF Views
<1>2. \A v \in Views : \A k \in 1 .. n : Inject(v, infos[k]) \in Views
  BY <1>0, InjectView, Zenon
<1> HIDE DEF n, b
<1>3. G \in [1 .. n -> [Views -> Views]]
  BY <1>2
<1>4. PICK g \in [0 .. n -> Views] : g[0] = b /\ \A k \in 1 .. n : g[k] = G[k][g[k - 1]]
  <2>1. n \in Nat
    BY <1>0
  <2> HIDE DEF G
  <2>2. \E g : LoopValues(g, Views, b, n, G)
    BY <1>1, <1>3, <2>1, LoopExists
  <2> QED
    BY <2>2 DEF LoopValues
<1>5. \A k \in 0 .. n : g[k] = Loop(g)[k]
  <2> SUFFICES ASSUME NEW k \in 0 .. n PROVE g[k] = Loop(g)[k]
    OBVIOUS
  <2>1. CASE k = 0
    BY <1>4, <2>1
  <2>2. CASE k # 0
    <3>1. k \in 1 .. n /\ k - 1 \in 0 .. n /\ g[k - 1] \in Views
      BY <1>0, <2>2
    <3>2. G[k][g[k - 1]] = Inject(g[k - 1], infos[k])
      BY <3>1
    <3> QED
      BY <1>4, <2>2, <3>1, <3>2
  <2> QED
    BY <2>1, <2>2
<1>6. g = Loop(g)
  BY <1>5
<1>7. after = Loop(after)
  <2> HIDE DEF Loop
  <2> QED
    BY <1>6
<1> HIDE DEF after
<1>8. after[0] = b /\ \A k \in 1 .. n : after[k] = Inject(after[k - 1], infos[k])
  BY <1>0, <1>7
<1>9. \A k \in 0 .. n : after[k] \in Views
  <2> DEFINE S == {k \in 0 .. n : after[k] \in Views}
  <2>1. 0 \in S
    BY <1>0, <1>1, <1>8
  <2>2. ASSUME NEW k \in 0 .. n - 1, k \in S PROVE k + 1 \in S
    <3>1. k + 1 \in 1 .. n /\ (k + 1) - 1 = k /\ after[k] \in Views
      BY <1>0, <2>2
    <3>2. after[k + 1] = Inject(after[k], infos[k + 1])
      BY <1>8, <3>1
    <3> QED
      BY <1>0, <1>2, <3>1, <3>2
  <2> HIDE DEF S
  <2>3. \A k \in 0 .. n : k \in S
    BY <1>0, <2>1, <2>2, UpTo
  <2> QED
    BY <2>3 DEF S
<1>10. after \in [0 .. n -> Views]
  BY <1>7, <1>9
<1>11. InjectAll(down, infos) = after[n]
  BY DEF InjectAll, after, n, b
<1> QED
  BY <1>8, <1>10, <1>11 DEF n, b

\* The loop ends with a view.
LEMMA InjectAllView ==
  ASSUME NEW down \in SUBSET Ids, NEW infos \in Seq(Infos)
  PROVE  InjectAll(down, infos) \in Views
<1>1. PICK f \in [0 .. Len(infos) -> Views] : InjectAll(down, infos) = f[Len(infos)]
  BY InfosLoop
<1>2. Len(infos) \in 0 .. Len(infos)
  OBVIOUS
<1> QED
  BY <1>1, <1>2

\* Without infos nothing changes; one more is one more turn.
LEMMA InjectNone ==
  ASSUME NEW down \in SUBSET Ids
  PROVE  InjectAll(down, <<>>) = [contacts |-> down, fits |-> TRUE]
<1>1. <<>> \in Seq(Infos) /\ Len(<<>>) = 0
  OBVIOUS
<1> QED
  BY <1>1, InfosLoop

LEMMA InjectOneMore ==
  ASSUME NEW down \in SUBSET Ids, NEW infos \in Seq(Infos), NEW info \in Infos
  PROVE  /\ InjectAll(down, infos) \in Views
         /\ InjectAll(down, Append(infos, info)) = Inject(InjectAll(down, infos), info)
<1> DEFINE n == Len(infos)
           more == Append(infos, info)
<1>0. /\ n \in Nat /\ more \in Seq(Infos) /\ Len(more) = n + 1 /\ more[n + 1] = info
      /\ \A k \in 1 .. n : more[k] = infos[k]
  OBVIOUS
<1>1. PICK g \in [0 .. n -> Views] :
        /\ g[0] = [contacts |-> down, fits |-> TRUE]
        /\ \A k \in 1 .. n : g[k] = Inject(g[k - 1], infos[k])
        /\ InjectAll(down, infos) = g[n]
  BY InfosLoop
<1> HIDE DEF n, more
<1>2. PICK f \in [0 .. n + 1 -> Views] :
        /\ f[0] = [contacts |-> down, fits |-> TRUE]
        /\ \A k \in 1 .. n + 1 : f[k] = Inject(f[k - 1], more[k])
        /\ InjectAll(down, more) = f[n + 1]
  <2>1. \E f \in [0 .. Len(more) -> Views] :
          /\ f[0] = [contacts |-> down, fits |-> TRUE]
          /\ \A k \in 1 .. Len(more) : f[k] = Inject(f[k - 1], more[k])
          /\ InjectAll(down, more) = f[Len(more)]
    BY <1>0, InfosLoop
  <2> QED
    BY <1>0, <2>1
<1>3. \A k \in 0 .. n : f[k] = g[k]
  <2> DEFINE S == {k \in 0 .. n : f[k] = g[k]}
  <2>1. 0 \in S
    <3>1. 0 \in 0 .. n
      BY <1>0
    <3>2. f[0] = g[0]
      BY <1>1, <1>2, Zenon
    <3> QED
      BY <3>1, <3>2
  <2>2. ASSUME NEW k \in 0 .. n - 1, k \in S PROVE k + 1 \in S
    <3>1. k + 1 \in 1 .. n /\ k + 1 \in 1 .. n + 1 /\ (k + 1) - 1 = k /\ f[k] = g[k]
      BY <1>0, <2>2
    <3>2. f[k + 1] = Inject(f[k], more[k + 1]) /\ g[k + 1] = Inject(g[k], infos[k + 1])
      BY <1>1, <1>2, <3>1
    <3> QED
      BY <1>0, <3>1, <3>2
  <2> HIDE DEF S
  <2>3. \A k \in 0 .. n : k \in S
    BY <1>0, <2>1, <2>2, UpTo
  <2> QED
    BY <2>3 DEF S
<1>4. f[n + 1] = Inject(f[n], info) /\ f[n] = g[n] /\ g[n] \in Views
  <2>1. n + 1 \in 1 .. n + 1 /\ (n + 1) - 1 = n /\ n \in 0 .. n
    BY <1>0
  <2> QED
    BY <1>0, <1>1, <1>2, <1>3, <2>1
<1> QED
  BY <1>1, <1>2, <1>4 DEF more, n

-----------------------------------------------------------------------------
(* What a message does *)

\* The transitions made from a message fit contacts that agree with the
\* bookkeeping, and leave contacts that agree with it.
LEMMA TransitionsFit ==
  ASSUME NEW st \in Books, NEW m \in Seq(Events)
  PROVE  /\ ApplyEvents(st, m) \in Progress
         /\ InjectAll(Down(st), ApplyEvents(st, m).infos) =
              [contacts |-> Down(ApplyEvents(st, m).state), fits |-> TRUE]
<1> DEFINE n == Len(m)
<1>0. n \in Nat /\ \A k \in 1 .. n : m[k] \in Events
  OBVIOUS
<1>1. PICK f \in [0 .. n -> Progress] :
        /\ f[0] = [state |-> st, infos |-> <<>>]
        /\ \A k \in 1 .. n : f[k] = ApplyEvent(f[k - 1], m[k])
        /\ ApplyEvents(st, m) = f[n]
  BY EventsLoop
<1> HIDE DEF n
<1> DEFINE Fit(acc) == InjectAll(Down(st), acc.infos) = [contacts |-> Down(acc.state), fits |-> TRUE]
           S == {k \in 0 .. n : Fit(f[k])}
<1>2. Down(st) \in SUBSET Ids
  BY BookParts DEF Down
<1>3. 0 \in S
  <2>1. Fit(f[0])
    BY <1>1, <1>2, InjectNone
  <2> QED
    BY <1>0, <2>1
<1>4. ASSUME NEW k \in 0 .. n - 1, k \in S PROVE k + 1 \in S
  <2> DEFINE acc == f[k]
             e == m[k + 1]
             next == ApplyEvent(acc, e)
             info == [id |-> e.id, flag |-> FlagOf(acc.state, e)]
  <2>1. /\ k + 1 \in 1 .. n /\ k + 1 \in 0 .. n /\ (k + 1) - 1 = k
        /\ acc \in Progress /\ e \in Events
    BY <1>0
  <2>2. f[k + 1] = next
    BY <1>1, <2>1
  <2>3. Fit(acc)
    BY <1>4
  <2>4. /\ next \in Progress
        /\ Down(next.state) =
             IF e.active THEN Down(acc.state) \cup {e.id} ELSE Down(acc.state) \ {e.id}
        /\ \/ next = acc
           \/ next.infos = Append(acc.infos, info) /\ info.flag = "DOWN"
              /\ e.active /\ e.id \notin Down(acc.state)
           \/ next.infos = Append(acc.infos, info) /\ info.flag = "UPDATE"
              /\ e.active /\ e.id \in Down(acc.state)
           \/ next.infos = Append(acc.infos, info) /\ info.flag = "UP"
              /\ ~ e.active /\ e.id \in Down(acc.state)
    BY <2>1, ApplyEventStep
  <2>5. acc.infos \in Seq(Infos) /\ e.id \in Ids
    BY <2>1 DEF Progress, Events
  <2> HIDE DEF acc, e, next
  <2>6. ASSUME next = acc PROVE Fit(next)
    BY <2>3, <2>6
  <2>7. ASSUME /\ next.infos = Append(acc.infos, info)
               /\ info.flag \in {"DOWN", "UPDATE", "UP"}
               /\ info.flag = "DOWN" <=> e.id \notin Down(acc.state)
               /\ info.flag = "UP" <=> ~ e.active
               /\ e.active \in BOOLEAN
        PROVE  Fit(next)
    <3>1. info \in Infos /\ info.id = e.id
      BY <2>5, <2>7 DEF Infos
    <3> HIDE DEF info
    <3>2. InjectAll(Down(st), next.infos) = Inject(InjectAll(Down(st), acc.infos), info)
      BY <1>2, <2>5, <2>7, <3>1, InjectOneMore
    <3>3. Inject([contacts |-> Down(acc.state), fits |-> TRUE], info) =
            [contacts |-> Down(next.state), fits |-> TRUE]
      <4>1. CASE info.flag = "DOWN"
        BY <2>4, <2>7, <3>1, <4>1 DEF Inject
      <4>2. CASE info.flag = "UP"
        BY <2>4, <2>7, <3>1, <4>2 DEF Inject
      <4>3. CASE info.flag = "UPDATE"
        <5>1. Down(next.state) = Down(acc.state)
          BY <2>4, <2>7, <4>3
        <5> QED
          BY <2>7, <3>1, <4>3, <5>1 DEF Inject
      <4> QED
        BY <2>7, <4>1, <4>2, <4>3
    <3> QED
      BY <2>3, <3>2, <3>3
  <2>8. Fit(next)
    <3>1. e.active \in BOOLEAN
      BY <2>1 DEF Events, e
    <3> HIDE DEF Fit, info
    <3>2. \/ next = acc
          \/ /\ next.infos = Append(acc.infos, info)
             /\ info.flag \in {"DOWN", "UPDATE", "UP"}
             /\ info.flag = "DOWN" <=> e.id \notin Down(acc.state)
             /\ info.flag = "UP" <=> ~ e.active
      BY <2>4, <3>1
    <3> QED
      BY <2>6, <2>7, <3>1, <3>2
  <2> HIDE DEF Fit
  <2> QED
    BY <2>1, <2>2, <2>8
<1> HIDE DEF S
<1>5. \A k \in 0 .. n : k \in S
  BY <1>0, <1>3, <1>4, UpTo
<1>6. Fit(f[n]) /\ f[n] \in Progress
  BY <1>0, <1>5 DEF S
<1> QED
  BY <1>1, <1>6

\* Whether a message has an event of an id, whether it reports fingers on the
\* glass, and that it does not report both.
Mentions(m, i) == \E k \in 1 .. Len(m) : m[k].id = i
Says(m) == m[1].active
OneWord(m) == m # <<>> /\ \A k \in 1 .. Len(m) : m[k].active = m[1].active

\* After a message an id that it mentions is what the message says, however
\* often it is mentioned, and the others are as before.
LEMMA MessageHeard ==
  ASSUME NEW st \in Books, NEW m \in Seq(Events), NEW i \in Ids, OneWord(m)
  PROVE  i \in Down(ApplyEvents(st, m).state)
           <=> IF Mentions(m, i) THEN Says(m) ELSE i \in Down(st)
<1> DEFINE n == Len(m)
           Mentioned(k) == \E j \in 1 .. k : m[j].id = i
<1>0. n \in Nat /\ \A k \in 1 .. n : m[k] \in Events /\ m[k].active = Says(m)
  BY DEF OneWord, Says
<1>1. PICK f \in [0 .. n -> Progress] :
        /\ f[0] = [state |-> st, infos |-> <<>>]
        /\ \A k \in 1 .. n : f[k] = ApplyEvent(f[k - 1], m[k])
        /\ ApplyEvents(st, m) = f[n]
  BY EventsLoop
<1> HIDE DEF n
<1> DEFINE Right(k) == i \in Down(f[k].state) <=> IF Mentioned(k) THEN Says(m) ELSE i \in Down(st)
           S == {k \in 0 .. n : Right(k)}
<1>2. 0 \in S
  <2>1. ~ Mentioned(0)
    OBVIOUS
  <2>2. Right(0)
    BY <1>1, <2>1
  <2> QED
    BY <1>0, <2>2
<1>3. ASSUME NEW k \in 0 .. n - 1, k \in S PROVE k + 1 \in S
  <2> DEFINE e == m[k + 1]
  <2>1. /\ k + 1 \in 1 .. n /\ k + 1 \in 0 .. n /\ (k + 1) - 1 = k
        /\ f[k] \in Progress /\ e \in Events /\ e.active = Says(m)
    BY <1>0
  <2>2. f[k + 1] = ApplyEvent(f[k], e)
    BY <1>1, <2>1
  <2>3. Down(ApplyEvent(f[k], e).state) =
          IF e.active THEN Down(f[k].state) \cup {e.id} ELSE Down(f[k].state) \ {e.id}
    BY <2>1, ApplyEventStep
  <2>4. i \in Down(f[k].state) <=> IF Mentioned(k) THEN Says(m) ELSE i \in Down(st)
    BY <1>3
  <2>5. Mentioned(k + 1) <=> Mentioned(k) \/ e.id = i
    <3>1. 1 .. k + 1 = (1 .. k) \cup {k + 1}
      BY <1>0
    <3> QED
      BY <3>1
  <2>6. e.active \in BOOLEAN
    BY <2>1 DEF Events
  <2> HIDE DEF e, Mentioned
  <2>7. Right(k + 1)
    <3>1. CASE e.id = i
      BY <2>1, <2>2, <2>3, <2>5, <2>6, <3>1
    <3>2. CASE e.id # i
      BY <2>2, <2>3, <2>4, <2>5, <2>6, <3>2
    <3> QED
      BY <3>1, <3>2
  <2> QED
    BY <2>1, <2>7
<1> HIDE DEF S
<1>4. \A k \in 0 .. n : k \in S
  BY <1>0, <1>2, <1>3, UpTo
<1>5. Right(n)
  BY <1>0, <1>4 DEF S
<1> QED
  BY <1>1, <1>5 DEF n, Mentions

-----------------------------------------------------------------------------
(* What is on its way *)

\* Whether an id will be down once the messages are applied: the last message
\* that mentions it says so, or none does and it is down now.
Heard(queue, st, i) ==
  \/ \E n \in 1 .. Len(queue) :
       /\ Mentions(queue[n], i) /\ Says(queue[n])
       /\ \A l \in n + 1 .. Len(queue) : ~ Mentions(queue[l], i)
  \/ (\A n \in 1 .. Len(queue) : ~ Mentions(queue[n], i)) /\ i \in Down(st)

\* One message more.
LEMMA HeardAppended ==
  ASSUME NEW M, NEW queue \in Seq(M), NEW m \in M, NEW st, NEW i, Says(m) \in BOOLEAN
  PROVE  Heard(Append(queue, m), st, i)
           <=> IF Mentions(m, i) THEN Says(m) ELSE Heard(queue, st, i)
<1> DEFINE n == Len(queue)
           more == Append(queue, m)
<1>1. /\ n \in Nat /\ Len(more) = n + 1 /\ more[n + 1] = m
      /\ \A k \in 1 .. n : more[k] = queue[k]
  OBVIOUS
<1>2. 1 .. n + 1 = (1 .. n) \cup {n + 1} /\ (n + 1) + 1 .. n + 1 = {}
  BY <1>1
<1>3. \A k \in 1 .. n : k + 1 .. n + 1 = (k + 1 .. n) \cup {n + 1}
  BY <1>1
<1>4. \A k \in 1 .. n : \A l \in k + 1 .. n : l \in 1 .. n
  BY <1>1
<1> HIDE DEF n, more
<1>5. CASE Mentions(m, i)
  <2>1. Heard(more, st, i) => Says(m)
    BY <1>1, <1>2, <1>3, <1>5 DEF Heard
  <2>2. Says(m) => Heard(more, st, i)
    BY <1>1, <1>2, <1>5 DEF Heard
  <2> QED
    BY <1>5, <2>1, <2>2 DEF more
<1>6. CASE ~ Mentions(m, i)
  <2> DEFINE Last(s, k, l) == Mentions(s[k], i) /\ Says(s[k]) /\ \A j \in k + 1 .. l : ~ Mentions(s[j], i)
  <2>1. \A k \in 1 .. n : Last(more, k, n + 1) <=> Last(queue, k, n)
    BY <1>1, <1>3, <1>4, <1>6
  <2>2. ~ Last(more, n + 1, n + 1)
    BY <1>1, <1>6
  <2>3. (\A k \in 1 .. n + 1 : ~ Mentions(more[k], i)) <=> \A k \in 1 .. n : ~ Mentions(queue[k], i)
    BY <1>1, <1>2, <1>6
  <2> HIDE DEF Last
  <2>4. (\E k \in 1 .. n + 1 : Last(more, k, n + 1)) <=> \E k \in 1 .. n : Last(queue, k, n)
    BY <1>2, <2>1, <2>2
  <2>5. Heard(more, st, i)
          <=> \/ \E k \in 1 .. n + 1 : Last(more, k, n + 1)
              \/ (\A k \in 1 .. n + 1 : ~ Mentions(more[k], i)) /\ i \in Down(st)
    BY <1>1 DEF Heard, Last
  <2>6. Heard(queue, st, i)
          <=> \/ \E k \in 1 .. n : Last(queue, k, n)
              \/ (\A k \in 1 .. n : ~ Mentions(queue[k], i)) /\ i \in Down(st)
    BY DEF Heard, Last, n
  <2> QED
    BY <1>6, <2>3, <2>4, <2>5, <2>6 DEF more
<1> QED
  BY <1>5, <1>6

\* One message applied.
LEMMA HeardApplied ==
  ASSUME NEW M, NEW queue \in Seq(M), queue # <<>>, NEW st, NEW next, NEW i,
         i \in Down(next) <=> IF Mentions(Head(queue), i) THEN Says(Head(queue)) ELSE i \in Down(st)
  PROVE  Heard(Tail(queue), next, i) <=> Heard(queue, st, i)
<1> DEFINE n == Len(Tail(queue))
           q == Tail(queue)
<1>1. /\ n \in Nat /\ Len(queue) = n + 1 /\ queue[1] = Head(queue)
      /\ \A k \in 1 .. n : q[k] = queue[k + 1]
  OBVIOUS
<1> HIDE DEF q
<1>2. Len(q) = n
  BY DEF q
<1> HIDE DEF n
<1>3. \A k \in 1 .. n + 1 : k # 1 => k - 1 \in 1 .. n /\ (k - 1) + 1 = k
  BY <1>1
<1>4. \A k \in 1 .. n : k + 1 \in 1 .. n + 1 /\ k + 1 # 1
  BY <1>1
<1>5. (\A k \in 1 .. n + 1 : ~ Mentions(queue[k], i))
        <=> ~ Mentions(queue[1], i) /\ \A k \in 1 .. n : ~ Mentions(q[k], i)
  <2>1. 1 \in 1 .. n + 1
    BY <1>1
  <2>2. \A k \in 1 .. n : q[k] = queue[k + 1]
    BY <1>1
  <2>3. \A k \in 1 .. n + 1 : k # 1 => queue[k] = q[k - 1]
    BY <1>3, <2>2
  <2> QED
    BY <1>3, <1>4, <2>1, <2>2, <2>3
<1>6. \A k \in 1 .. n : (\A l \in k + 1 .. n : ~ Mentions(q[l], i))
                          <=> \A l \in (k + 1) + 1 .. n + 1 : ~ Mentions(queue[l], i)
  <2> SUFFICES ASSUME NEW k \in 1 .. n
               PROVE  (\A l \in k + 1 .. n : ~ Mentions(q[l], i))
                        <=> \A l \in (k + 1) + 1 .. n + 1 : ~ Mentions(queue[l], i)
    OBVIOUS
  <2>1. \A l \in k + 1 .. n : l \in 1 .. n /\ l + 1 \in (k + 1) + 1 .. n + 1
    BY <1>1
  <2>2. \A l \in (k + 1) + 1 .. n + 1 : l - 1 \in k + 1 .. n /\ l - 1 \in 1 .. n /\ (l - 1) + 1 = l
    BY <1>1
  <2> QED
    BY <1>1, <2>1, <2>2
<1>7. (\A l \in 1 + 1 .. n + 1 : ~ Mentions(queue[l], i)) <=> \A k \in 1 .. n : ~ Mentions(q[k], i)
  <2>1. \A l \in 1 + 1 .. n + 1 : l - 1 \in 1 .. n /\ (l - 1) + 1 = l
    BY <1>1
  <2>2. \A k \in 1 .. n : k + 1 \in 1 + 1 .. n + 1
    BY <1>1
  <2> QED
    BY <1>1, <2>1, <2>2
<1> DEFINE Last(s, k, l) == Mentions(s[k], i) /\ Says(s[k]) /\ \A j \in k + 1 .. l : ~ Mentions(s[j], i)
<1>8. \A k \in 1 .. n : Last(q, k, n) <=> Last(queue, k + 1, n + 1)
  BY <1>1, <1>6
<1>9. Last(queue, 1, n + 1)
        <=> Mentions(queue[1], i) /\ Says(queue[1]) /\ \A k \in 1 .. n : ~ Mentions(q[k], i)
  BY <1>7
<1> HIDE DEF Last
<1>10. (\E k \in 1 .. n + 1 : Last(queue, k, n + 1))
         <=> Last(queue, 1, n + 1) \/ \E k \in 1 .. n : Last(q, k, n)
  <2>1. 1 \in 1 .. n + 1
    BY <1>1
  <2> QED
    BY <1>3, <1>4, <1>8, <2>1
<1>11. Heard(queue, st, i)
         <=> \/ \E k \in 1 .. n + 1 : Last(queue, k, n + 1)
             \/ (\A k \in 1 .. n + 1 : ~ Mentions(queue[k], i)) /\ i \in Down(st)
  BY <1>1 DEF Heard, Last
<1>12. Heard(q, next, i)
         <=> \/ \E k \in 1 .. n : Last(q, k, n)
             \/ (\A k \in 1 .. n : ~ Mentions(q[k], i)) /\ i \in Down(next)
  BY <1>2 DEF Heard, Last
<1> QED
  BY <1>1, <1>5, <1>9, <1>10, <1>11, <1>12 DEF q

-----------------------------------------------------------------------------
(* The inductive invariant *)

\* The ids of the fingers on the glass.
OnGlass == {touchMap[f].id : f \in DOMAIN touchMap}

\* Until two fingers had the same id, none have.
IdsDiffer ==
  ~ collided => \A f, g \in DOMAIN touchMap : touchMap[f].id = touchMap[g].id => f = g

\* A message reports fingers on the glass, or one that went.
MessagesSayOneThing == \A n \in 1 .. Len(tcp) : OneWord(tcp[n])

\* While every message arrives and is applied, the fingers on the glass are the
\* ids that will be down in the bookkeeping when all of them are.
GlassIsHeard ==
  connected /\ injector = "ready" /\ ~ collided
    => \A i \in Ids : i \in OnGlass <=> Heard(tcp, state, i)

IInv ==
  /\ TypeOK /\ state \in Books
  /\ LegalTransitions /\ BookkeepingAgrees
  /\ IdsDiffer /\ MessagesSayOneThing /\ GlassIsHeard

\* A batch mentions exactly the ids of the fingers, whatever their order.
LEMMA BatchMentionsAll ==
  ASSUME NEW map, DOMAIN map \subseteq Fingers, DOMAIN map # {},
         \A f \in DOMAIN map : map[f] \in [id : Ids, point : Points],
         NEW order \in Orders(map), NEW m,
         m = [k \in DOMAIN order |->
                [id |-> map[order[k]].id, active |-> TRUE, point |-> map[order[k]].point]]
  PROVE  /\ m \in Seq(Events) /\ OneWord(m) /\ Says(m) = TRUE
         /\ \A i : Mentions(m, i) <=> \E f \in DOMAIN map : map[f].id = i
<1> DEFINE n == Cardinality(DOMAIN map)
<1>1. IsFiniteSet(DOMAIN map)
  BY FS_Subset, TouchAssumption
<1>2. n \in Nat /\ n # 0
  BY <1>1, FS_CardinalityType, FS_EmptySet
<1>3. order \in Injection(1 .. n, DOMAIN map)
  BY DEF Orders, Injection
<1>4. order \in Surjection(1 .. n, DOMAIN map)
  <2>1. Cardinality(1 .. n) = n
    BY <1>2, FS_Interval
  <2> QED
    BY <1>1, <1>3, <2>1, FS_Injection
<1> HIDE DEF n
<1>5. /\ order \in [1 .. n -> DOMAIN map]
      /\ \A f \in DOMAIN map : \E k \in 1 .. n : order[k] = f
  BY <1>4 DEF Surjection
<1>6. /\ m \in Seq(Events) /\ Len(m) = n
      /\ \A k \in 1 .. n : m[k].id = map[order[k]].id /\ m[k].active = TRUE
  <2>1. m \in [1 .. n -> Events]
    BY <1>5 DEF Events
  <2>2. m \in Seq(Events) /\ Len(m) = n
    BY <1>2, <2>1
  <2> QED
    BY <1>5, <2>2
<1>7. 1 \in 1 .. n
  BY <1>2
<1>8. m # <<>> /\ OneWord(m) /\ Says(m) = TRUE
  BY <1>6, <1>7 DEF OneWord, Says
<1>9. ASSUME NEW i PROVE Mentions(m, i) <=> \E f \in DOMAIN map : map[f].id = i
  <2>1. Mentions(m, i) <=> \E k \in 1 .. n : map[order[k]].id = i
    BY <1>6 DEF Mentions
  <2>2. (\E k \in 1 .. n : map[order[k]].id = i) => \E f \in DOMAIN map : map[f].id = i
    BY <1>5
  <2>3. ASSUME NEW f \in DOMAIN map, map[f].id = i PROVE \E k \in 1 .. n : map[order[k]].id = i
    <3>1. PICK k \in 1 .. n : order[k] = f
      BY <1>5
    <3> QED
      BY <2>3, <3>1
  <2> QED
    BY <2>1, <2>2, <2>3
<1> QED
  BY <1>6, <1>8, <1>9

\* What sending a message does to the queue.
LEMMA SendEffect ==
  ASSUME IInv, NEW m \in Seq(Events), OneWord(m), Send(m)
  PROVE  /\ tcp' \in Seq(Seq(Events)) /\ MessagesSayOneThing'
         /\ connected => \A i : Heard(tcp', state, i)
                                  <=> IF Mentions(m, i) THEN Says(m) ELSE Heard(tcp, state, i)
<1>1. tcp \in Seq(Seq(Events)) /\ MessagesSayOneThing /\ connected \in BOOLEAN
  BY DEF IInv, TypeOK
<1>2. Says(m) \in BOOLEAN
  <2>1. 1 \in 1 .. Len(m) /\ m[1] \in Events
    BY DEF OneWord
  <2> QED
    BY <2>1 DEF Says, Events
<1>3. CASE connected
  <2>1. tcp' = Append(tcp, m)
    BY <1>3 DEF Send
  <2>2. Append(tcp, m) \in Seq(Seq(Events))
    BY <1>1
  <2>3. \A n \in 1 .. Len(Append(tcp, m)) : OneWord(Append(tcp, m)[n])
    <3>1. \A n \in 1 .. Len(Append(tcp, m)) : \/ n \in 1 .. Len(tcp) /\ Append(tcp, m)[n] = tcp[n]
                                              \/ Append(tcp, m)[n] = m
      BY <1>1
    <3> QED
      BY <1>1, <3>1 DEF MessagesSayOneThing
  <2>4. \A i : Heard(Append(tcp, m), state, i)
                 <=> IF Mentions(m, i) THEN Says(m) ELSE Heard(tcp, state, i)
    BY <1>1, <1>2, HeardAppended
  <2> QED
    BY <2>1, <2>2, <2>3, <2>4 DEF MessagesSayOneThing
<1>4. CASE ~ connected
  BY <1>1, <1>4 DEF Send, MessagesSayOneThing
<1> QED
  BY <1>1, <1>3, <1>4

-----------------------------------------------------------------------------
(* The steps of the iPad *)

\* What an action of the iPad leaves alone.
LEMMA ServerUnchanged ==
  ASSUME IInv, UNCHANGED serverVars
  PROVE  /\ state' \in Books /\ LegalTransitions' /\ BookkeepingAgrees'
         /\ injector' \in {"ready", "unsupported", "dropped"}
         /\ DOMAIN state' \subseteq Ids
         /\ \A i \in DOMAIN state' : state'[i] \in [active : BOOLEAN, point : Points]
         /\ contacts' \subseteq Ids /\ illegal' \in BOOLEAN /\ failed' \in BOOLEAN
  BY DEF IInv, TypeOK, serverVars, LegalTransitions, BookkeepingAgrees

\* A finger is put down.
LEMMA TouchBeganStep ==
  ASSUME IInv, NEW f \in Fingers, NEW p \in Points, TouchBegan(f, p)
  PROVE  IInv'
<1> DEFINE new == nextTouchID
<1>1. /\ DOMAIN touchMap \subseteq Fingers
      /\ \A g \in DOMAIN touchMap : touchMap[g] \in [id : Ids, point : Points]
      /\ taps \in Nat /\ taps < MaxTaps /\ MaxTaps \in Nat /\ collided \in BOOLEAN
      /\ connected \in BOOLEAN /\ f \notin DOMAIN touchMap
  BY TouchAssumption DEF IInv, TypeOK, TouchBegan
<1>2. new \in Ids
  BY <1>1, TouchAssumption DEF nextTouchID, Ids
<1>3. touchMap' = [g \in DOMAIN touchMap \cup {f} |->
                    IF g = f THEN [id |-> new, point |-> p] ELSE touchMap[g]]
  BY DEF TouchBegan
<1> HIDE DEF new
<1>4. /\ DOMAIN touchMap' = DOMAIN touchMap \cup {f} /\ DOMAIN touchMap' \subseteq Fingers
      /\ touchMap'[f].id = new /\ \A g \in DOMAIN touchMap : touchMap'[g] = touchMap[g]
      /\ \A g \in DOMAIN touchMap' : touchMap'[g] \in [id : Ids, point : Points]
  BY <1>1, <1>2, <1>3
<1>5. taps' \in 0 .. MaxTaps /\ connected' = connected /\ UNCHANGED serverVars
  BY <1>1 DEF TouchBegan
<1>6. collided' = (collided \/ \E g \in DOMAIN touchMap : touchMap[g].id = new)
  BY DEF TouchBegan, new
<1>7. PICK m \in Seq(Events) :
        /\ OneWord(m) /\ Says(m) = TRUE /\ Send(m)
        /\ \A i : Mentions(m, i) <=> \E g \in DOMAIN touchMap' : touchMap'[g].id = i
  <2>1. PICK order \in Orders(touchMap') :
          Send([k \in DOMAIN order |-> [id |-> touchMap'[order[k]].id, active |-> TRUE,
                                        point |-> touchMap'[order[k]].point]])
    BY DEF TouchBegan, EmitBatch
  <2>2. DOMAIN touchMap' # {}
    BY <1>4
  <2> QED
    BY <1>4, <2>1, <2>2, BatchMentionsAll
<1>8. /\ tcp' \in Seq(Seq(Events)) /\ MessagesSayOneThing'
      /\ connected => \A i : Heard(tcp', state, i)
                               <=> IF Mentions(m, i) THEN Says(m) ELSE Heard(tcp, state, i)
  BY <1>7, SendEffect
<1>9. TypeOK'
  BY <1>1, <1>4, <1>5, <1>6, <1>8, ServerUnchanged DEF TypeOK
<1>10. IdsDiffer'
  BY <1>4, <1>6 DEF IInv, IdsDiffer
<1>11. GlassIsHeard'
  <2> SUFFICES ASSUME connected', injector' = "ready", ~ collided', NEW i \in Ids
               PROVE  i \in OnGlass' <=> Heard(tcp', state', i)
    BY DEF GlassIsHeard, Ids
  <2>1. connected /\ injector = "ready" /\ ~ collided /\ state' = state
    BY <1>5, <1>6 DEF serverVars
  <2>2. i \in OnGlass <=> Heard(tcp, state, i)
    BY <2>1 DEF IInv, GlassIsHeard
  <2>3. i \in OnGlass' <=> \E g \in DOMAIN touchMap' : touchMap'[g].id = i
    BY DEF OnGlass
  <2>4. ~ (i \in OnGlass') => ~ (i \in OnGlass)
    BY <1>4 DEF OnGlass
  <2> QED
    BY <1>7, <1>8, <2>1, <2>2, <2>3, <2>4
<1> QED
  BY <1>5, <1>8, <1>9, <1>10, <1>11, ServerUnchanged DEF IInv

\* Fingers move.
LEMMA TouchesMovedStep ==
  ASSUME IInv, NEW moved \in SUBSET Fingers, TouchesMoved(moved)
  PROVE  IInv'
<1>1. /\ DOMAIN touchMap \subseteq Fingers /\ DOMAIN touchMap # {}
      /\ \A g \in DOMAIN touchMap : touchMap[g] \in [id : Ids, point : Points]
  BY DEF IInv, TypeOK, TouchesMoved
<1>2. PICK to \in [moved -> Points] :
        touchMap' = [g \in DOMAIN touchMap |->
                      IF g \in moved THEN [touchMap[g] EXCEPT !.point = to[g]] ELSE touchMap[g]]
  BY DEF TouchesMoved
<1>3. /\ DOMAIN touchMap' = DOMAIN touchMap
      /\ \A g \in DOMAIN touchMap : /\ touchMap'[g] \in [id : Ids, point : Points]
                                    /\ touchMap'[g].id = touchMap[g].id
  <2>1. DOMAIN touchMap' = DOMAIN touchMap
    BY <1>2
  <2>2. ASSUME NEW g \in DOMAIN touchMap
        PROVE  /\ touchMap'[g] \in [id : Ids, point : Points]
               /\ touchMap'[g].id = touchMap[g].id
    <3>1. touchMap[g] \in [id : Ids, point : Points]
      BY <1>1
    <3>2. CASE g \in moved
      <4>1. touchMap'[g] = [touchMap[g] EXCEPT !.point = to[g]] /\ to[g] \in Points
        BY <1>2, <3>2
      <4> QED
        BY <3>1, <4>1
    <3>3. CASE g \notin moved
      <4>1. touchMap'[g] = touchMap[g]
        BY <1>2, <3>3
      <4> QED
        BY <3>1, <4>1
    <3> QED
      BY <3>2, <3>3
  <2> QED
    BY <2>1, <2>2
<1>4. UNCHANGED <<taps, collided, connected>> /\ UNCHANGED serverVars
  BY DEF TouchesMoved
<1>5. PICK m \in Seq(Events) :
        /\ OneWord(m) /\ Says(m) = TRUE /\ Send(m)
        /\ \A i : Mentions(m, i) <=> \E g \in DOMAIN touchMap' : touchMap'[g].id = i
  <2>1. PICK order \in Orders(touchMap') :
          Send([k \in DOMAIN order |-> [id |-> touchMap'[order[k]].id, active |-> TRUE,
                                        point |-> touchMap'[order[k]].point]])
    BY DEF TouchesMoved, EmitBatch
  <2>2. /\ DOMAIN touchMap' \subseteq Fingers /\ DOMAIN touchMap' # {}
        /\ \A g \in DOMAIN touchMap' : touchMap'[g] \in [id : Ids, point : Points]
    BY <1>1, <1>3
  <2> QED
    BY <2>1, <2>2, BatchMentionsAll
<1>6. /\ tcp' \in Seq(Seq(Events)) /\ MessagesSayOneThing'
      /\ connected => \A i : Heard(tcp', state, i)
                               <=> IF Mentions(m, i) THEN Says(m) ELSE Heard(tcp, state, i)
  BY <1>5, SendEffect
<1>7. TypeOK'
  <2>1. taps' \in 0 .. MaxTaps /\ connected' \in BOOLEAN /\ collided' \in BOOLEAN
    BY <1>4 DEF IInv, TypeOK
  <2> QED
    BY <1>1, <1>3, <1>4, <1>6, <2>1, ServerUnchanged DEF TypeOK
<1>8. IdsDiffer'
  BY <1>3, <1>4 DEF IInv, IdsDiffer
<1>9. GlassIsHeard'
  <2> SUFFICES ASSUME connected', injector' = "ready", ~ collided', NEW i \in Ids
               PROVE  i \in OnGlass' <=> Heard(tcp', state', i)
    BY DEF GlassIsHeard, Ids
  <2>1. connected /\ injector = "ready" /\ ~ collided /\ state' = state
    BY <1>4 DEF serverVars
  <2>2. i \in OnGlass <=> Heard(tcp, state, i)
    BY <2>1 DEF IInv, GlassIsHeard
  <2>3. i \in OnGlass' <=> \E g \in DOMAIN touchMap' : touchMap'[g].id = i
    BY DEF OnGlass
  <2>4. i \in OnGlass' <=> i \in OnGlass
    BY <1>3 DEF OnGlass
  <2> QED
    BY <1>5, <1>6, <2>1, <2>2, <2>3, <2>4
<1> QED
  BY <1>4, <1>6, <1>7, <1>8, <1>9, ServerUnchanged DEF IInv

\* A finger is lifted, or its touch cancelled.
LEMMA TouchEndedStep ==
  ASSUME IInv, NEW f \in Fingers, NEW p \in Points, TouchEnded(f, p)
  PROVE  IInv'
<1> DEFINE old == touchMap[f].id
           m == <<[id |-> old, active |-> FALSE, point |-> p]>>
<1>1. /\ DOMAIN touchMap \subseteq Fingers /\ f \in DOMAIN touchMap
      /\ \A g \in DOMAIN touchMap : touchMap[g] \in [id : Ids, point : Points]
  BY DEF IInv, TypeOK, TouchEnded
<1>2. old \in Ids
  BY <1>1
<1>3. /\ DOMAIN touchMap' = DOMAIN touchMap \ {f}
      /\ \A g \in DOMAIN touchMap' : touchMap'[g] = touchMap[g]
  BY DEF TouchEnded
<1>4. UNCHANGED <<taps, collided, connected>> /\ UNCHANGED serverVars
  BY DEF TouchEnded
<1>5. Send(m)
  BY DEF TouchEnded
<1> HIDE DEF old
<1>6. /\ m \in Seq(Events) /\ OneWord(m) /\ Says(m) = FALSE
      /\ \A i : Mentions(m, i) <=> i = old
  <2>1. [id |-> old, active |-> FALSE, point |-> p] \in Events
    BY <1>2 DEF Events
  <2>2. m \in Seq(Events) /\ Len(m) = 1 /\ m[1].id = old /\ m[1].active = FALSE /\ m # <<>>
    BY <2>1
  <2> HIDE DEF m
  <2>3. 1 .. Len(m) = {1}
    BY <2>2
  <2> QED
    BY <2>2, <2>3 DEF OneWord, Says, Mentions
<1> HIDE DEF m
<1>7. /\ tcp' \in Seq(Seq(Events)) /\ MessagesSayOneThing'
      /\ connected => \A i : Heard(tcp', state, i)
                               <=> IF Mentions(m, i) THEN Says(m) ELSE Heard(tcp, state, i)
  BY <1>5, <1>6, SendEffect
<1>8. TypeOK'
  <2>1. taps' \in 0 .. MaxTaps /\ connected' \in BOOLEAN /\ collided' \in BOOLEAN
    BY <1>4 DEF IInv, TypeOK
  <2>2. /\ DOMAIN touchMap' \subseteq Fingers
        /\ \A g \in DOMAIN touchMap' : touchMap'[g] \in [id : Ids, point : Points]
    BY <1>1, <1>3
  <2> QED
    BY <1>4, <1>7, <2>1, <2>2, ServerUnchanged DEF TypeOK
<1>9. IdsDiffer'
  BY <1>3, <1>4 DEF IInv, IdsDiffer
<1>10. GlassIsHeard'
  <2> SUFFICES ASSUME connected', injector' = "ready", ~ collided', NEW i \in Ids
               PROVE  i \in OnGlass' <=> Heard(tcp', state', i)
    BY DEF GlassIsHeard, Ids
  <2>1. connected /\ injector = "ready" /\ ~ collided /\ state' = state
    BY <1>4 DEF serverVars
  <2>2. i \in OnGlass <=> Heard(tcp, state, i)
    BY <2>1 DEF IInv, GlassIsHeard
  <2>3. i \in OnGlass' <=> i \in OnGlass /\ i # old
    <3>1. \A g \in DOMAIN touchMap : touchMap[g].id = old => g = f
      BY <1>1, <2>1 DEF IInv, IdsDiffer, old
    <3> QED
      BY <1>1, <1>3, <3>1 DEF OnGlass, old
  <2> QED
    BY <1>6, <1>7, <2>1, <2>2, <2>3
<1> QED
  BY <1>4, <1>7, <1>8, <1>9, <1>10, ServerUnchanged DEF IInv

\* The connection is closed.
LEMMA DisconnectStep ==
  ASSUME IInv, Disconnect
  PROVE  IInv'
<1>1. PICK n \in 0 .. Len(tcp) : tcp' = SubSeq(tcp, 1, n)
  BY DEF Disconnect
<1>2. tcp \in Seq(Seq(Events)) /\ MessagesSayOneThing
  BY DEF IInv, TypeOK
<1>3. /\ tcp' \in Seq(Seq(Events)) /\ Len(tcp') = n
      /\ \A k \in 1 .. n : tcp'[k] = tcp[k]
  BY <1>1, <1>2
<1>4. MessagesSayOneThing'
  <2>1. \A k \in 1 .. n : k \in 1 .. Len(tcp) /\ OneWord(tcp[k])
    BY <1>2 DEF MessagesSayOneThing
  <2>2. \A k \in 1 .. n : OneWord(tcp'[k])
    BY <1>3, <2>1
  <2> QED
    BY <1>3, <2>2 DEF MessagesSayOneThing
<1>5. connected' = FALSE /\ UNCHANGED viewVars /\ UNCHANGED serverVars
  BY DEF Disconnect
<1>6. TypeOK'
  <2>1. /\ DOMAIN touchMap' \subseteq Fingers
        /\ \A g \in DOMAIN touchMap' : touchMap'[g] \in [id : Ids, point : Points]
        /\ taps' \in 0 .. MaxTaps /\ collided' \in BOOLEAN
    BY <1>5 DEF IInv, TypeOK, viewVars
  <2> QED
    BY <1>3, <1>5, <2>1, ServerUnchanged DEF TypeOK
<1>7. IdsDiffer'
  BY <1>5 DEF IInv, IdsDiffer, viewVars
<1>8. GlassIsHeard'
  BY <1>5 DEF GlassIsHeard
<1> QED
  BY <1>4, <1>5, <1>6, <1>7, <1>8, ServerUnchanged DEF IInv

-----------------------------------------------------------------------------
(* The steps of the reader thread *)

\* What reading the first message leaves of the queue.
LEMMA ReadEffect ==
  ASSUME IInv, ReadMessage
  PROVE  /\ tcp # <<>> /\ tcp' = Tail(tcp) /\ tcp' \in Seq(Seq(Events)) /\ MessagesSayOneThing'
         /\ Head(tcp) \in Seq(Events) /\ OneWord(Head(tcp))
<1>1. tcp \in Seq(Seq(Events)) /\ tcp # <<>> /\ tcp' = Tail(tcp) /\ MessagesSayOneThing
  BY DEF IInv, TypeOK, ReadMessage
<1>2. /\ Head(tcp) = tcp[1] /\ Head(tcp) \in Seq(Events) /\ 1 \in 1 .. Len(tcp)
      /\ Tail(tcp) \in Seq(Seq(Events)) /\ Len(Tail(tcp)) = Len(tcp) - 1
      /\ \A k \in 1 .. Len(Tail(tcp)) : k + 1 \in 1 .. Len(tcp) /\ Tail(tcp)[k] = tcp[k + 1]
  BY <1>1
<1>3. MessagesSayOneThing'
  BY <1>1, <1>2 DEF MessagesSayOneThing
<1> QED
  BY <1>1, <1>2, <1>3 DEF MessagesSayOneThing

\* A message is applied.
LEMMA ApplyAndSendStep ==
  ASSUME IInv, ApplyAndSend
  PROVE  IInv'
<1>1. /\ tcp # <<>> /\ tcp' = Tail(tcp) /\ tcp' \in Seq(Seq(Events)) /\ MessagesSayOneThing'
      /\ Head(tcp) \in Seq(Events) /\ OneWord(Head(tcp))
  BY ReadEffect DEF ApplyAndSend
<1>2. UNCHANGED viewVars /\ connected' = connected /\ injector' = injector
  BY DEF ApplyAndSend
<1>3. /\ DOMAIN touchMap' \subseteq Fingers
      /\ \A g \in DOMAIN touchMap' : touchMap'[g] \in [id : Ids, point : Points]
      /\ taps' \in 0 .. MaxTaps /\ collided' \in BOOLEAN /\ connected' \in BOOLEAN
      /\ injector' \in {"ready", "unsupported", "dropped"}
  BY <1>2 DEF IInv, TypeOK, viewVars
<1>4. IdsDiffer'
  BY <1>2 DEF IInv, IdsDiffer, viewVars
<1>5. CASE injector = "unsupported"
  <2>1. UNCHANGED <<state, contacts, illegal, failed>>
    BY <1>5 DEF ApplyAndSend
  <2>2. UNCHANGED serverVars
    BY <1>2, <2>1 DEF serverVars
  <2>3. TypeOK'
    BY <1>1, <1>3, <2>2, ServerUnchanged DEF TypeOK
  <2>4. GlassIsHeard'
    BY <1>2, <1>5 DEF GlassIsHeard
  <2> QED
    BY <1>1, <1>4, <2>2, <2>3, <2>4, ServerUnchanged DEF IInv
<1>6. CASE injector # "unsupported"
  <2> DEFINE m == Head(tcp)
             applied == ApplyEvents(state, m)
             result == InjectAll(contacts, applied.infos)
  <2>1. /\ state' = applied.state
        /\ illegal' = (illegal \/ (~ failed /\ ~ result.fits))
        /\ \E ok \in BOOLEAN :
             /\ ok => result.fits
             /\ applied.infos = <<>> => ok
             /\ failed' = (failed \/ ~ ok)
             /\ contacts' = IF ok THEN result.contacts ELSE contacts
    BY <1>6 DEF ApplyAndSend
  <2>2. /\ state \in Books /\ contacts \in SUBSET Ids
        /\ illegal = FALSE /\ failed \in BOOLEAN /\ (~ failed => contacts = Down(state))
    BY DEF IInv, TypeOK, LegalTransitions, BookkeepingAgrees, Down
  <2>3. /\ applied \in Progress
        /\ InjectAll(Down(state), applied.infos) = [contacts |-> Down(applied.state), fits |-> TRUE]
    BY <1>1, <2>2, TransitionsFit
  <2>4. applied.state \in Books /\ applied.infos \in Seq(Infos)
    BY <2>3 DEF Progress
  <2>5. result \in Views
    BY <2>2, <2>4, InjectAllView
  <2>6. \A i \in Ids : i \in Down(applied.state)
                         <=> IF Mentions(m, i) THEN Says(m) ELSE i \in Down(state)
    BY <1>1, <2>2, MessageHeard
  <2>7. ~ failed => result = [contacts |-> Down(applied.state), fits |-> TRUE]
    BY <2>2, <2>3
  <2> HIDE DEF applied, result, m
  <2> DEFINE fit == result.fits
             down == result.contacts
  <2>8. ~ failed => fit = TRUE /\ down = Down(applied.state)
    BY <2>7
  <2>9. /\ illegal' = (illegal \/ (~ failed /\ ~ fit))
         /\ \E ok \in BOOLEAN :
              failed' = (failed \/ ~ ok) /\ contacts' = IF ok THEN down ELSE contacts
    BY <2>1
  <2> HIDE DEF fit, down
  <2>10. illegal' = FALSE
    BY <2>2, <2>8, <2>9, Zenon
  <2>11. failed' \in BOOLEAN /\ contacts' \in SUBSET Ids
    BY <2>1, <2>2, <2>5 DEF Views
  <2>12. ~ failed' => contacts' = Down(state')
    <3>1. PICK ok \in BOOLEAN :
            failed' = (failed \/ ~ ok) /\ contacts' = IF ok THEN down ELSE contacts
      BY <2>9
    <3>2. ~ failed' => ~ failed /\ ok = TRUE
      BY <3>1, Zenon
    <3> QED
      BY <2>1, <2>8, <3>1, <3>2
  <2>13. /\ state' \in Books /\ DOMAIN state' \subseteq Ids
         /\ \A i \in DOMAIN state' : state'[i] \in [active : BOOLEAN, point : Points]
    <3>1. state' \in Books
      BY <2>1, <2>4
    <3> QED
      BY <3>1, BookParts DEF Entries
  <2>14. TypeOK'
    BY <1>1, <1>3, <2>10, <2>11, <2>13 DEF TypeOK
  <2>15. GlassIsHeard'
    <3> SUFFICES ASSUME connected', injector' = "ready", ~ collided', NEW i \in Ids
                 PROVE  i \in OnGlass' <=> Heard(tcp', state', i)
      BY DEF GlassIsHeard, Ids
    <3>1. connected /\ injector = "ready" /\ ~ collided /\ OnGlass' = OnGlass
      BY <1>2 DEF viewVars, OnGlass
    <3>2. i \in OnGlass <=> Heard(tcp, state, i)
      BY <3>1 DEF IInv, GlassIsHeard
    <3>3. i \in Down(state')
            <=> IF Mentions(Head(tcp), i) THEN Says(Head(tcp)) ELSE i \in Down(state)
      BY <2>1, <2>6 DEF m
    <3>4. tcp \in Seq(Seq(Events))
      BY DEF IInv, TypeOK
    <3>5. Heard(Tail(tcp), state', i) <=> Heard(tcp, state, i)
      BY <1>1, <3>3, <3>4, HeardApplied
    <3> QED
      BY <1>1, <3>1, <3>2, <3>5
  <2>16. LegalTransitions' /\ BookkeepingAgrees'
    BY <2>10, <2>12 DEF LegalTransitions, BookkeepingAgrees, Down
  <2> QED
    BY <1>1, <1>4, <2>13, <2>14, <2>15, <2>16 DEF IInv
<1> QED
  BY <1>5, <1>6

\* The reader thread ends.
LEMMA ReaderEndsStep ==
  ASSUME IInv, ReaderEnds
  PROVE  IInv'
<1>1. /\ UNCHANGED viewVars /\ UNCHANGED <<connected, tcp, state, contacts, illegal, failed>>
      /\ injector' = "dropped"
  BY DEF ReaderEnds
<1>2. TypeOK' /\ state' \in Books
  BY <1>1 DEF IInv, TypeOK, viewVars
<1>3. LegalTransitions' /\ BookkeepingAgrees' /\ IdsDiffer' /\ MessagesSayOneThing'
  BY <1>1 DEF IInv, LegalTransitions, BookkeepingAgrees, IdsDiffer, MessagesSayOneThing, viewVars
<1>4. GlassIsHeard'
  BY <1>1 DEF GlassIsHeard
<1> QED
  BY <1>2, <1>3, <1>4 DEF IInv

-----------------------------------------------------------------------------
(* The theorems *)

LEMMA InitInv == Init => IInv
<1> SUFFICES ASSUME Init PROVE IInv
  OBVIOUS
<1>1. DOMAIN touchMap = {} /\ DOMAIN state = {} /\ tcp = <<>> /\ contacts = {}
  BY DEF Init
<1>2. TypeOK
  <2>1. tcp \in Seq(Seq(Events)) /\ 0 \in 0 .. MaxTaps
    BY <1>1, TouchAssumption
  <2> QED
    BY <1>1, <2>1 DEF Init, TypeOK
<1>3. state \in Books
  <2>1. [i \in {} |-> 0] \in [{} -> Entries] /\ {} \in SUBSET Ids
    OBVIOUS
  <2> QED
    BY <2>1 DEF Init, Books
<1>4. LegalTransitions /\ BookkeepingAgrees /\ IdsDiffer
  BY <1>1 DEF Init, LegalTransitions, BookkeepingAgrees, IdsDiffer
<1>5. MessagesSayOneThing
  BY <1>1 DEF MessagesSayOneThing
<1>6. GlassIsHeard
  <2>1. Len(tcp) = 0 /\ OnGlass = {} /\ Down(state) = {}
    BY <1>1 DEF OnGlass, Down
  <2> QED
    BY <2>1 DEF GlassIsHeard, Heard
<1> QED
  BY <1>2, <1>3, <1>4, <1>5, <1>6 DEF IInv

LEMMA StepInv == IInv /\ [Next]_vars => IInv'
<1> SUFFICES ASSUME IInv, [Next]_vars PROVE IInv'
  OBVIOUS
<1>1. CASE UNCHANGED vars
  BY <1>1 DEF vars, viewVars, serverVars, IInv, TypeOK, LegalTransitions, BookkeepingAgrees,
              IdsDiffer, MessagesSayOneThing, GlassIsHeard, OnGlass
<1>2. ASSUME NEW f \in Fingers, NEW p \in Points, TouchBegan(f, p) PROVE IInv'
  BY <1>2, TouchBeganStep
<1>3. ASSUME NEW f \in Fingers, NEW p \in Points, TouchEnded(f, p) PROVE IInv'
  BY <1>3, TouchEndedStep
<1>4. ASSUME NEW moved \in SUBSET Fingers, TouchesMoved(moved) PROVE IInv'
  BY <1>4, TouchesMovedStep
<1>5. CASE Disconnect
  BY <1>5, DisconnectStep
<1>6. CASE ApplyAndSend
  BY <1>6, ApplyAndSendStep
<1>7. CASE ReaderEnds
  BY <1>7, ReaderEndsStep
<1> QED
  BY <1>1, <1>2, <1>3, <1>4, <1>5, <1>6, <1>7 DEF Next

LEMMA InvAlways == Spec => []IInv
<1> QED
  BY InitInv, StepInv, PTL DEF Spec

\* Every id, point and message has its type in every state.
THEOREM TypeCorrect == Spec => []TypeOK
<1>1. IInv => TypeOK
  BY DEF IInv
<1> QED
  BY <1>1, InvAlways, PTL

\* Whatever ids are shared, used again or lost with the connection, the first
\* injection that fails was one that Windows could carry out (touch.rs:184).
THEOREM TransitionsLegal == Spec => []LegalTransitions
<1>1. IInv => LegalTransitions
  BY DEF IInv
<1> QED
  BY <1>1, InvAlways, PTL

\* The injector's bookkeeping is what Windows believes until an injection fails.
THEOREM BookkeepingTrue == Spec => []BookkeepingAgrees
<1>1. IInv => BookkeepingAgrees
  BY DEF IInv
<1> QED
  BY <1>1, InvAlways, PTL

\* No finger is missing in Windows and none stuck once all messages are applied.
THEOREM FingersFollowed == Spec => []ContactsAreFingers
<1>1. IInv => ContactsAreFingers
  <2> SUFFICES ASSUME IInv, tcp = <<>>, connected, injector = "ready", ~ failed, ~ collided
               PROVE  contacts = OnGlass
    BY DEF ContactsAreFingers, OnGlass
  <2>1. contacts = Down(state) /\ contacts \subseteq Ids
    BY DEF IInv, TypeOK, BookkeepingAgrees, Down
  <2>2. OnGlass \subseteq Ids
    BY DEF IInv, TypeOK, OnGlass
  <2>3. \A i \in Ids : i \in OnGlass <=> Heard(tcp, state, i)
    BY DEF IInv, GlassIsHeard
  <2>4. \A i : Heard(<<>>, state, i) <=> i \in Down(state)
    <3>1. Len(<<>>) = 0
      OBVIOUS
    <3> QED
      BY <3>1 DEF Heard
  <2> QED
    BY <2>1, <2>2, <2>3, <2>4
<1> QED
  BY <1>1, InvAlways, PTL
=============================================================================
