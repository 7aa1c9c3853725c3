------------------------- MODULE StreamReconnectProofs -------------------------
(***************************************************************************)
(* The order-state stream across interruptions, for any orders, overlap,   *)
(* number of attempts and of failures: proofs about StreamReconnect.       *)
(***************************************************************************)
EXTENDS StreamReconnect, SequenceTheorems, TLAPS

Statuses == {"accepted", "triggered", "partial", "filled", "canceled"}
Events == [order : Orders, status : Statuses \cup {"lapsed"}, filled : 0..Lots, at : 0..MaxTime]
ShownStates == [status : Statuses \cup {"none"}, filled : 0..Lots, ts : 0..1]

\* The events of an order among the first n, and the last of them.
Past(o, n) == {k \in 1..n : log[k].order = o}
IsLast(o, n, k) == k \in Past(o, n) /\ \A j \in Past(o, n) : j <= k

\* How far an order is at the broker, and what it may become.
Stage(status) == IF status = "lapsed" THEN 4 ELSE Rank(status)

Precedes(s, t) ==
    /\ Stage(s.status) <= Stage(t.status) /\ s.filled <= t.filled
    /\ s.status \in Ends => t.status = s.status /\ t.filled = s.filled

Consistent(s) ==
    /\ s.status \in {"accepted", "triggered"} => s.filled = 0
    /\ s.status = "partial" => s.filled < Lots

Shape ==
    /\ TypeOK
    /\ log \in Seq(Events) /\ wire \in Seq(Nat)
    /\ shown \in [Orders -> ShownStates]

LogIsConsistent == \A k \in 1..Len(log) : Consistent(log[k]) /\ log[k].at <= now

LogIsInOrder ==
    \A j, k \in 1..Len(log) : j <= k =>
        /\ log[j].at <= log[k].at
        /\ log[j].order = log[k].order => Precedes(log[j], log[k])

LogHasLasts ==
    \A o \in Orders, n \in 0..Len(log) : Past(o, n) = {} \/ \E k \in 1..n : IsLast(o, n, k)

LogInv == LogIsConsistent /\ LogIsInOrder /\ LogHasLasts

\* What is shown of an order was its state at some time, told by the stream or
\* by a query.
TellsOf(r, e) ==
    /\ r.filled = e.filled
    /\ \/ r.status = e.status
       \/ e.status = "lapsed" /\ r.status \in {"partial", "canceled"}

AsOf(r, o, m) == TellsOf(r, StateAt(o, m))
ShownHappened ==
    \A o \in Orders : shown[o] = Unseen \/ \E m \in 0..Len(log) : AsOf(shown[o], o, m)

\* The events that neither the stream nor a reconciliation has brought or will.
Missed == (1..Len(log)) \ (told \cup OnWire \cup abandoned \cup 1..unheard)

\* A stream that is not open brings nothing.
ClosedIsQuiet == pc = "closed" => OnWire = {}

Times == observed <= now /\ (recovery # NoGap => recovery <= now)

\* A snapshot is read while a stream is open, and not older than the overlap.
SnapshotIsRecent ==
    snapshot.stage # "none" => pc # "closed" /\ snapshot.at <= now /\ now <= snapshot.at + Overlap

\* Before the children are read, every order has been.
SnapshotIsWhole ==
    snapshot.stage \in {"stops", "read"} => \A o \in Orders : snapshot.seen[o].through # "none"

\* What happened after the snapshot saw the order is on the wire, unless that is cut.
SinceTheSnapshot ==
    snapshot.stage # "none" =>
        \A n \in 1..Len(log) :
            LET s == snapshot.seen[log[n].order] IN
            s.through # "none" /\ n > s.upto =>
                /\ log[n].at >= snapshot.at
                /\ n \in Missed => cut /\ \A m \in OnWire : m < n

\* Whatever the stream is about to bring lies in the gap that is owed, ...
WireIsInTheGap == recovery # NoGap => \A n \in OnWire : recovery <= log[n].at

\* ... and without one, is recent: only right after a reconciliation it may be
\* older, and is then known already.
WireIsRecent ==
    recovery = NoGap =>
        \A n \in OnWire : n \notin told \cup abandoned \/ observed # now => now <= log[n].at + Overlap

\* What a dead stream misses comes after everything it still brings.
MissedIsBehind == recovery = NoGap => \A n \in Missed, m \in OnWire : m < n

GapInv ==
    /\ Times /\ ClosedIsQuiet /\ SnapshotIsRecent /\ SnapshotIsWhole /\ SinceTheSnapshot
    /\ WireIsInTheGap /\ WireIsRecent /\ MissedIsBehind /\ GapIsCovered

IInv == Shape /\ LogInv /\ ShownHappened /\ GapInv

-----------------------------------------------------------------------------
\* The log

\* The rank of each status.
LEMMA Ranks ==
    /\ Rank("accepted") = 1 /\ Rank("triggered") = 2 /\ Rank("partial") = 3
    /\ Rank("filled") = 4 /\ Rank("canceled") = 4 /\ Rank("none") = 0
<1> QED BY DEF Rank, Terminal

LEMMA RankIsNat == \A s \in Statuses \cup {"none"} : Rank(s) \in 0..4
<1> QED BY Ranks DEF Statuses

LEMMA StageIsNat == \A s \in Statuses \cup {"lapsed"} : Stage(s) \in 1..4 /\ (s # "lapsed" => Stage(s) = Rank(s))
<1> QED BY Ranks DEF Statuses, Stage

LEMMA Transitive ==
    ASSUME NEW r \in Events, NEW s \in Events, NEW t \in Events, Precedes(r, s), Precedes(s, t)
    PROVE  Precedes(r, t)
<1>1. Stage(r.status) \in Nat /\ Stage(s.status) \in Nat /\ Stage(t.status) \in Nat
    BY StageIsNat DEF Events
<1>2. r.filled \in Nat /\ s.filled \in Nat /\ t.filled \in Nat
    BY ReconnectAssumption DEF Events
<1> QED BY <1>1, <1>2 DEF Precedes

LEMMA Reflexive == \A s \in Events : Precedes(s, s)
<1>1. \A s \in Events : Stage(s.status) \in Nat /\ s.filled \in Nat
    BY StageIsNat, ReconnectAssumption DEF Events
<1> QED BY <1>1 DEF Precedes

LEMMA PlacedIsFirst ==
    ASSUME NEW o \in Orders
    PROVE  /\ Placed(o) \in Events /\ Consistent(Placed(o)) /\ Placed(o).order = o
           /\ \A s \in Events : Precedes(Placed(o), s)
<1>1. Placed(o) \in Events BY ReconnectAssumption DEF Placed, Events, Statuses
<1>2. Consistent(Placed(o)) /\ Placed(o).order = o BY DEF Placed, Consistent
<1>3. ASSUME NEW s \in Events PROVE Precedes(Placed(o), s)
  <2>1. s.filled >= 0 /\ s.status \in Statuses \cup {"lapsed"} BY ReconnectAssumption DEF Events
  <2>2. Stage(s.status) >= 1 BY <2>1, StageIsNat
  <2>3. Placed(o).status = "accepted" /\ Placed(o).filled = 0 BY DEF Placed
  <2>4. Stage("accepted") = 1 /\ "accepted" \notin Ends BY Ranks DEF Stage, Ends, Terminal
  <2> QED BY <2>1, <2>2, <2>3, <2>4 DEF Precedes
<1> QED BY <1>1, <1>2, <1>3

\* The state of an order is its placement or its last event.
LEMMA StateIsLast ==
    ASSUME LogHasLasts, NEW o \in Orders, NEW n \in 0..Len(log)
    PROVE  \/ Past(o, n) = {} /\ StateAt(o, n) = Placed(o)
           \/ \E k \in 1..n : IsLast(o, n, k) /\ StateAt(o, n) = log[k]
<1>1. CASE Past(o, n) = {} BY <1>1 DEF StateAt, Past
<1>2. CASE Past(o, n) # {}
  <2>1. PICK k \in 1..n : IsLast(o, n, k) BY <1>2 DEF LogHasLasts
  <2> DEFINE c == CHOOSE i \in Past(o, n) : \A j \in Past(o, n) : j <= i
  <2>2. k \in Past(o, n) /\ \A j \in Past(o, n) : j <= k BY <2>1 DEF IsLast
  <2>3. c \in Past(o, n) /\ \A j \in Past(o, n) : j <= c BY <2>2
  <2>4. StateAt(o, n) = log[c] BY <1>2 DEF StateAt, Past
  <2> HIDE DEF c
  <2>5. c \in 1..n BY <2>3 DEF Past
  <2> QED BY <2>3, <2>4, <2>5 DEF IsLast
<1> QED BY <1>1, <1>2

\* An event is the state of its order when it happens.
LEMMA EventIsState ==
    ASSUME LogHasLasts, log \in Seq(Events), NEW k \in 1..Len(log)
    PROVE  log[k].order \in Orders /\ StateAt(log[k].order, k) = log[k]
<1> DEFINE o == log[k].order
<1>1. log[k] \in Events BY ElementOfSeq
<1>2. o \in Orders BY <1>1 DEF Events
<1>3. k \in 0..Len(log) /\ Len(log) \in Nat BY LenProperties
<1>4. k \in Past(o, k) BY <1>3 DEF Past
<1>5. PICK j \in 1..k : IsLast(o, k, j) /\ StateAt(o, k) = log[j] BY <1>2, <1>3, <1>4, StateIsLast
<1>6. j = k BY <1>3, <1>4, <1>5 DEF IsLast
<1> QED BY <1>2, <1>5, <1>6

LEMMA StatesInOrder ==
    ASSUME LogInv, log \in Seq(Events), NEW o \in Orders,
           NEW m \in 0..Len(log), NEW n \in 0..Len(log), m <= n
    PROVE  /\ StateAt(o, m) \in Events /\ StateAt(o, n) \in Events
           /\ Consistent(StateAt(o, m)) /\ StateAt(o, m).order = o
           /\ Precedes(StateAt(o, m), StateAt(o, n))
<1>0. Len(log) \in Nat /\ \A k \in 1..Len(log) : log[k] \in Events BY LenProperties, ElementOfSeq
<1>1. \A i \in 0..Len(log) : StateAt(o, i) \in Events /\ Consistent(StateAt(o, i)) /\ StateAt(o, i).order = o
  <2> TAKE i \in 0..Len(log)
  <2>1. CASE Past(o, i) = {} BY <2>1, StateIsLast, PlacedIsFirst DEF LogInv, IsLast
  <2>2. CASE Past(o, i) # {}
    <3>1. PICK k \in 1..i : IsLast(o, i, k) /\ StateAt(o, i) = log[k] BY <2>2, StateIsLast DEF LogInv
    <3>2. k \in 1..Len(log) /\ log[k].order = o BY <3>1, <1>0 DEF IsLast, Past
    <3> QED BY <3>1, <3>2, <1>0 DEF LogInv, LogIsConsistent
  <2> QED BY <2>1, <2>2
<1>2. Precedes(StateAt(o, m), StateAt(o, n))
  <2>1. CASE StateAt(o, m) = Placed(o) BY <2>1, <1>1, PlacedIsFirst
  <2>2. ASSUME NEW k \in 1..m, IsLast(o, m, k), StateAt(o, m) = log[k]
        PROVE  Precedes(StateAt(o, m), StateAt(o, n))
    <3>1. k \in Past(o, n) /\ k \in 1..Len(log) /\ log[k].order = o
        BY <2>2, <1>0 DEF IsLast, Past
    <3>2. PICK j \in 1..n : IsLast(o, n, j) /\ StateAt(o, n) = log[j] BY <3>1, StateIsLast DEF LogInv
    <3>3. k <= j /\ j \in 1..Len(log) /\ log[j].order = o BY <3>1, <3>2, <1>0 DEF IsLast, Past
    <3> QED BY <2>2, <3>1, <3>2, <3>3 DEF LogInv, LogIsInOrder
  <2> QED BY <2>1, <2>2, StateIsLast DEF LogInv
<1> QED BY <1>1, <1>2
\* An event that follows the state of an order.
LEMMA AfterFollows ==
    ASSUME NEW s \in Events, Consistent(s), NEW t \in After(s), NEW at \in 0..MaxTime
    PROVE  LET e == [t EXCEPT !.at = at] IN
           /\ e \in Events /\ Consistent(e) /\ e.order = s.order /\ e.at = at
           /\ Precedes(s, e)
<1>0. s.status \notin Ends /\ Lots \in Nat \ {0} /\ s.filled \in 0..Lots /\ s.status \in Statuses
      /\ s.order \in Orders
    BY ReconnectAssumption DEF After, Events, Ends
<1>1. s.filled < Lots BY <1>0 DEF Consistent, Statuses, Ends, Terminal
<1>2. t \in Events /\ t.order = s.order
      /\ (\/ t.status \in {"canceled", "lapsed"} /\ t.filled = s.filled
          \/ t.status = "filled" /\ t.filled = s.filled + 1
          \/ t.status = "partial" /\ t.filled = s.filled + 1 /\ t.filled < Lots
          \/ t.status = "triggered" /\ t.filled = s.filled /\ s.status = "accepted")
  <2>0. {"canceled", "filled", "partial", "triggered", "lapsed"} \subseteq Statuses \cup {"lapsed"}
      BY DEF Statuses
  <2>1. CASE t = [s EXCEPT !.status = "canceled"] \/ t = [s EXCEPT !.status = "lapsed"]
    <3>1. t \in Events BY <2>0, <2>1 DEF Events
    <3> QED BY <2>1, <3>1 DEF Events
  <2>2. CASE t = [s EXCEPT !.status = "triggered"] /\ s.status = "accepted"
    <3>1. t \in Events BY <2>0, <2>2 DEF Events
    <3> QED BY <2>2, <3>1 DEF Events
  <2>3. CASE t = [s EXCEPT !.filled = s.filled + 1,
                           !.status = IF s.filled + 1 = Lots THEN "filled" ELSE "partial"]
    <3> DEFINE f == s.filled + 1
               st == IF f = Lots THEN "filled" ELSE "partial"
    <3>1. f \in 0..Lots /\ (f # Lots => f < Lots) BY <1>0, <1>1
    <3>2. st \in Statuses \cup {"lapsed"} /\ (f = Lots => st = "filled") /\ (f # Lots => st = "partial") BY <2>0
    <3>3. t = [s EXCEPT !.filled = f, !.status = st] BY <2>3
    <3> HIDE DEF f, st
    <3>4. t \in Events BY <3>1, <3>2, <3>3 DEF Events
    <3>5. t.filled = f /\ t.status = st /\ t.order = s.order BY <3>3 DEF Events
    <3> QED BY <3>1, <3>2, <3>4, <3>5 DEF f
  <2> QED BY <2>1, <2>2, <2>3, <1>0 DEF After
<1> DEFINE e == [t EXCEPT !.at = at]
<1>5. e \in Events /\ e.order = t.order /\ e.at = at /\ e.status = t.status /\ e.filled = t.filled
    BY <1>2 DEF Events
<1> HIDE DEF e
<1>3. Consistent(e) BY <1>2, <1>5, <1>0 DEF Consistent
<1>4. Precedes(s, e)
  <2>1. s.filled <= e.filled BY <1>2, <1>5, <1>0
  <2>2. Stage(s.status) <= Stage(e.status)
      BY <1>2, <1>5, <1>0, Ranks DEF Statuses, Ends, Terminal, Consistent, Stage
  <2> QED BY <2>1, <2>2, <1>0 DEF Precedes
<1> QED BY <1>2, <1>3, <1>4, <1>5 DEF e

\* An event more does not change what was.
LEMMA PastIsKept ==
    ASSUME log \in Seq(Events), LogHasLasts, NEW e \in Events, log' = Append(log, e)
    PROVE  /\ log' \in Seq(Events) /\ Len(log') = Len(log) + 1 /\ log'[Len(log')] = e
           /\ \A k \in 1..Len(log) : log'[k] = log[k]
           /\ \A o \in Orders, n \in 0..Len(log) :
                 (Past(o, n))' = Past(o, n) /\ (StateAt(o, n))' = StateAt(o, n)
<1>1. /\ log' \in Seq(Events) /\ Len(log') = Len(log) + 1 /\ log'[Len(log')] = e
      /\ Len(log) \in Nat /\ \A k \in 1..Len(log) : log'[k] = log[k]
    BY AppendProperties, LenProperties
<1>2. ASSUME NEW o \in Orders, NEW n \in 0..Len(log)
      PROVE  (Past(o, n))' = Past(o, n) /\ (StateAt(o, n))' = StateAt(o, n)
  <2>1. \A k \in 1..n : log'[k] = log[k] BY <1>1
  <2>2. (Past(o, n))' = Past(o, n) BY <2>1 DEF Past
  <2>3. CASE Past(o, n) = {} BY <2>2, <2>3 DEF StateAt, Past, Placed
  <2>4. CASE Past(o, n) # {}
    <3>1. PICK k \in 1..n : IsLast(o, n, k) BY <2>4 DEF LogHasLasts
    <3> DEFINE c == CHOOSE i \in Past(o, n) : \A j \in Past(o, n) : j <= i
    <3>2. k \in Past(o, n) /\ \A j \in Past(o, n) : j <= k BY <3>1 DEF IsLast
    <3>3. c \in Past(o, n) BY <3>2
    <3>4. StateAt(o, n) = log[c] BY <2>4 DEF StateAt, Past
    <3>5. (StateAt(o, n))' = log'[c]
      <4>1. {i \in 1..n : log'[i].order = o} = Past(o, n) BY <2>2 DEF Past
      <4> QED BY <2>4, <4>1 DEF StateAt
    <3> HIDE DEF c
    <3> QED BY <2>1, <2>2, <3>3, <3>4, <3>5 DEF Past
  <2> QED BY <2>2, <2>3, <2>4
<1> QED BY <1>1, <1>2

\* The broker's log stays in order.
LEMMA HappenKeepsLog ==
    ASSUME Shape, LogInv, NEW o \in Orders, Happen(o)
    PROVE  /\ LogInv' /\ \E e \in Events : e.at = now /\ log' = Append(log, e)
<1>10. PICK N \in Nat : N = Len(log) BY LenProperties DEF Shape
<1>0. N = Len(log) /\ N \in 0..N /\ now \in 0..MaxTime /\ log \in Seq(Events)
    BY <1>10 DEF Shape, TypeOK
<1>1. PICK t \in After(StateAt(o, N)) : log' = Append(log, [t EXCEPT !.at = now])
    BY <1>0 DEF Happen
<1>2. StateAt(o, N) \in Events /\ Consistent(StateAt(o, N)) /\ StateAt(o, N).order = o
    BY <1>0, StatesInOrder
<1> DEFINE e == [t EXCEPT !.at = now]
<1>3. e \in Events /\ Consistent(e) /\ e.order = o /\ e.at = now /\ Precedes(StateAt(o, N), e)
    BY <1>0, <1>1, <1>2, AfterFollows
<1>4. log' = Append(log, e) BY <1>1
<1> HIDE DEF e
<1>5. /\ log' \in Seq(Events) /\ Len(log') = N + 1 /\ log'[N + 1] = e
      /\ \A k \in 1..N : log'[k] = log[k] /\ log[k] \in Events
      /\ \A q \in Orders, n \in 0..N : (Past(q, n))' = Past(q, n)
    BY <1>0, <1>3, <1>4, PastIsKept, ElementOfSeq DEF LogInv
<1>6. now' = now BY DEF Happen
<1>7. LogIsConsistent'
  <2> SUFFICES ASSUME NEW k \in 1..(N + 1)
               PROVE  Consistent(log'[k]) /\ log'[k].at <= now
      BY <1>5, <1>6 DEF LogIsConsistent, Consistent
  <2>1. CASE k = N + 1 BY <2>1, <1>3, <1>5, <1>0
  <2>2. CASE k # N + 1
    <3>1. k \in 1..N BY <2>2, <1>0
    <3> QED BY <3>1, <1>0, <1>5 DEF LogInv, LogIsConsistent
  <2> QED BY <2>1, <2>2
<1>8. LogIsInOrder'
  <2> SUFFICES ASSUME NEW j \in 1..(N + 1), NEW k \in 1..(N + 1), j <= k
               PROVE  /\ log'[j].at <= log'[k].at
                      /\ log'[j].order = log'[k].order => Precedes(log'[j], log'[k])
      BY <1>5 DEF LogIsInOrder, Precedes
  <2>1. CASE k # N + 1
    <3>1. j \in 1..N /\ k \in 1..N BY <2>1, <1>0
    <3> QED BY <3>1, <1>0, <1>5 DEF LogInv, LogIsInOrder
  <2>2. CASE k = N + 1 /\ j = N + 1
    <3>1. Precedes(e, e) /\ e.at <= e.at BY <1>3, Reflexive, <1>0
    <3> QED BY <2>2, <3>1, <1>5
  <2>3. CASE k = N + 1 /\ j # N + 1
    <3>1. j \in 1..N /\ log'[j] = log[j] /\ log'[k] = e /\ log[j] \in Events BY <2>3, <1>0, <1>5
    <3>2. log[j].at <= now BY <1>0, <3>1 DEF LogInv, LogIsConsistent
    <3>3. ASSUME log[j].order = o PROVE Precedes(log[j], e)
      <4>1. j \in Past(o, N) BY <3>1, <3>3 DEF Past
      <4>2. PICK i \in 1..N : IsLast(o, N, i) /\ StateAt(o, N) = log[i]
          BY <4>1, <1>0, StateIsLast DEF LogInv
      <4>3. j <= i /\ log[i].order = o BY <4>1, <4>2 DEF IsLast, Past
      <4>4. Precedes(log[j], log[i]) BY <1>0, <3>1, <3>3, <4>2, <4>3 DEF LogInv, LogIsInOrder
      <4> QED BY <4>2, <4>4, <3>1, <1>2, <1>3, Transitive
    <3> QED BY <3>1, <3>2, <3>3, <1>3
  <2> QED BY <2>1, <2>2, <2>3
<1>9. LogHasLasts'
  <2> SUFFICES ASSUME NEW q \in Orders, NEW n \in 0..(N + 1)
               PROVE  (Past(q, n))' = {} \/ \E k \in 1..n : (IsLast(q, n, k))'
      BY <1>5 DEF LogHasLasts
  <2>1. CASE n # N + 1
    <3>1. n \in 0..N BY <2>1, <1>0
    <3> QED BY <3>1, <1>0, <1>5 DEF LogInv, LogHasLasts, IsLast
  <2>2. CASE n = N + 1
    <3>1. (Past(q, N))' = {i \in 1..N : log'[i].order = q} BY DEF Past
    <3>2. (Past(q, n))' = (Past(q, N))' \cup (IF q = o THEN {N + 1} ELSE {})
      <4>1. (Past(q, n))' = {i \in 1..(N + 1) : log'[i].order = q} BY <2>2 DEF Past
      <4>2. 1..(N + 1) = 1..N \cup {N + 1} BY <1>0
      <4> QED BY <3>1, <4>1, <4>2, <1>3, <1>5
    <3>3. CASE q = o
      <4>1. N + 1 \in 1..n /\ \A i \in 1..N : i <= N + 1 BY <2>2, <1>0
      <4>2. (IsLast(q, n, N + 1))' BY <3>1, <3>2, <3>3, <4>1 DEF IsLast
      <4> QED BY <4>1, <4>2
    <3>4. CASE q # o
      <4>1. (Past(q, n))' = Past(q, N) BY <3>2, <3>4, <1>5, <1>0
      <4>2. Past(q, N) = {} \/ \E k \in 1..N : IsLast(q, N, k) BY <1>0 DEF LogInv, LogHasLasts
      <4> QED BY <4>1, <4>2, <2>2, <1>0 DEF IsLast
    <3> QED BY <3>3, <3>4
  <2> QED BY <2>1, <2>2
<1> QED BY <1>3, <1>4, <1>7, <1>8, <1>9 DEF LogInv

-----------------------------------------------------------------------------
\* The projection

\* A report of a state the order was in takes nothing back of what is shown.
LEMMA ProjectionHolds ==
    ASSUME Shape, LogInv, ShownHappened, NEW o \in Orders, NEW m \in 0..Len(log),
           NEW new \in ShownStates, AsOf(new, o, m)
    PROVE  LET r == Project(shown[o], new) IN
           /\ r \in ShownStates /\ \E n \in 0..Len(log) : AsOf(r, o, n)
           /\ Rank(r.status) >= Rank(shown[o].status) /\ r.filled >= shown[o].filled
           /\ shown[o].status \in Terminal => r.status = shown[o].status
<1> DEFINE old == shown[o]
           r == Project(old, new)
<1>1. old \in ShownStates /\ Rank(old.status) \in 0..4 /\ Rank(new.status) \in 0..4
      /\ old.filled \in Nat /\ new.filled \in Nat
    BY RankIsNat, ReconnectAssumption DEF Shape, ShownStates
<1>2. CASE old = Unseen
  <2>1. r = new BY <1>2, <1>1 DEF Project, ShownStates
  <2>2. old.status = "none" /\ old.filled = 0 BY <1>2 DEF Unseen
  <2> HIDE DEF r, old
  <2> QED BY <1>1, <2>1, <2>2, Ranks DEF Terminal, old, r
<1>3. CASE old # Unseen
  <2>1. PICK n \in 0..Len(log) : AsOf(old, o, n) BY <1>3 DEF ShownHappened
  <2>2. CASE Drops(old, new)
    <3>1. r = old BY <1>3, <2>2 DEF Project
    <3> HIDE DEF r, old
    <3> QED BY <1>1, <2>1, <3>1 DEF old, r
  <2>3. CASE ~Drops(old, new)
    <3>1. r = [new EXCEPT !.ts = Later(new.ts, old.ts)] BY <1>3, <2>3 DEF Project
    <3>2. Later(new.ts, old.ts) \in 0..1 BY <1>1 DEF Later, ShownStates
    <3> HIDE DEF r, old
    <3>3. r \in ShownStates /\ r.status = new.status /\ r.filled = new.filled
        BY <3>1, <3>2 DEF ShownStates
    <3>4. AsOf(r, o, m) BY <3>3 DEF AsOf, TellsOf
    <3>5. Rank(new.status) >= Rank(old.status) /\ ~(new.status = old.status /\ new.filled <= old.filled)
          /\ (old.status \in Terminal => new.filled > old.filled)
        BY <1>1, <2>3 DEF Drops
    <3>6. new.filled >= old.filled /\ old.status \notin Terminal
      <4>0. n \in Nat /\ m \in Nat /\ log \in Seq(Events) BY LenProperties DEF Shape
      <4> DEFINE S == StateAt(o, n)
                 T == StateAt(o, m)
      <4>5. TellsOf(old, S) /\ TellsOf(new, T) BY <2>1 DEF AsOf
      <4>1. CASE n <= m
        <5>1. Precedes(S, T) BY <4>0, <4>1, StatesInOrder
        <5> HIDE DEF S, T
        <5>2. old.filled <= new.filled
              /\ (old.status \in Terminal => new.filled = old.filled)
            BY <5>1, <4>5 DEF Precedes, TellsOf, Ends
        <5> QED BY <5>2, <3>5, <1>1
      <4>2. CASE m <= n
        <5>1. Precedes(T, S) /\ S \in Events /\ T \in Events BY <4>0, <4>2, StatesInOrder
        <5> HIDE DEF S, T
        <5>2. new.filled <= old.filled BY <5>1, <4>5 DEF Precedes, TellsOf
        <5>3. CASE T.status \in Ends
          <6>1. new.filled = old.filled BY <5>1, <5>3, <4>5 DEF Precedes, TellsOf
          <6> QED BY <6>1, <3>5, <1>1
        <5>4. CASE T.status \notin Ends
          <6>1. /\ new.status = T.status /\ new.status \in {"accepted", "triggered", "partial"}
                /\ Stage(T.status) = Rank(new.status)
              BY <5>1, <5>4, <4>5, StageIsNat DEF TellsOf, Ends, Terminal, Events, Statuses
          <6>2. new.status = old.status
            <7>1. CASE S.status = "lapsed"
              <8>1. old.status \in {"lapsed", "partial", "canceled"} BY <7>1, <4>5 DEF TellsOf
              <8>2. old.status \in {"partial", "canceled"} BY <8>1, <1>1 DEF ShownStates, Statuses
              <8> QED BY <6>1, <8>2, <3>5, Ranks
            <7>2. CASE S.status # "lapsed"
              <8>1. old.status = S.status /\ old.status \in Statuses
                    /\ Stage(S.status) = Rank(old.status)
                  BY <7>2, <5>1, <4>5, StageIsNat DEF TellsOf, Events
              <8>2. Rank(new.status) <= Rank(old.status) BY <5>1, <6>1, <8>1 DEF Precedes
              <8>3. Rank(new.status) = Rank(old.status) BY <8>2, <3>5, <1>1
              <8> QED BY <8>1, <8>3, <6>1, Ranks DEF Statuses
            <7> QED BY <7>1, <7>2
          <6> QED BY <5>2, <6>2, <3>5
        <5> QED BY <5>3, <5>4
      <4> QED BY <4>0, <4>1, <4>2
    <3> QED BY <3>3, <3>4, <3>5, <3>6 DEF old, r
  <2> QED BY <2>2, <2>3
<1> QED BY <1>2, <1>3

\* A report of a state tells of that state.
LEMMA ReportsAreStates ==
    ASSUME NEW s \in Events
    PROVE  /\ StreamReport(s) \in ShownStates /\ TellsOf(StreamReport(s), s)
           /\ QueryReport(s) \in ShownStates /\ TellsOf(QueryReport(s), s)
<1>1. s.status \in Statuses \cup {"lapsed"} /\ s.filled \in 0..Lots BY DEF Events
<1>2. \A e, ts : /\ Report(e, ts).status = e.status /\ Report(e, ts).filled = e.filled
                 /\ ts \in 0..1 /\ e.status \in Statuses /\ e.filled \in 0..Lots
                       => Report(e, ts) \in ShownStates
    BY DEF Report, ShownStates
<1>3. 0 \in 0..1 /\ 1 \in 0..1 OBVIOUS
<1>4. CASE s.status = "lapsed"
  <2> DEFINE c == [s EXCEPT !.status = "canceled"]
             q == [s EXCEPT !.status = "partial"]
  <2>1. StreamReport(s) = Report(c, 1) /\ QueryReport(s) = Report(q, 0)
      BY <1>4 DEF StreamReport, QueryReport
  <2>2. /\ c.status = "canceled" /\ c.filled = s.filled
        /\ q.status = "partial" /\ q.filled = s.filled
      BY DEF Events
  <2> HIDE DEF c, q
  <2>3. "canceled" \in Statuses /\ "partial" \in Statuses BY DEF Statuses
  <2> QED BY <1>1, <1>2, <1>3, <1>4, <2>1, <2>2, <2>3 DEF TellsOf
<1>5. CASE s.status # "lapsed"
  <2>1. s.status \in Statuses BY <1>1, <1>5
  <2>2. QueryReport(s) = Report(s, 0) BY <1>5 DEF QueryReport
  <2>3. PICK ts \in 0..1 : StreamReport(s) = Report(s, ts) BY <1>3, <1>5 DEF StreamReport
  <2> QED BY <1>1, <1>2, <1>3, <2>1, <2>2, <2>3 DEF TellsOf
<1> QED BY <1>4, <1>5

\* What a snapshot reports of an order was its state at some time.
LEMMA ReportedHappened ==
    ASSUME Shape, LogInv, NEW o \in Orders
    PROVE  Reported(o) \in ShownStates /\ \E m \in 0..Len(log) : AsOf(Reported(o), o, m)
<1> DEFINE s == snapshot.seen[o]
<1>0. s.upto \in 0..Len(log) /\ log \in Seq(Events) /\ Len(log) \in Nat
    BY LenProperties DEF Shape, TypeOK
<1>1. StateAt(o, s.upto) \in Events BY <1>0, StatesInOrder
<1>2. CASE s.through = "order" \/ ~Triggered(o, s.upto)
  <2>1. Reported(o) = QueryReport(StateAt(o, s.upto)) BY <1>2 DEF Reported, OrderReport, StopState
  <2> QED BY <1>0, <1>1, <2>1, ReportsAreStates DEF AsOf
<1>3. CASE s.through # "order" /\ Triggered(o, s.upto)
  <2> DEFINE p == [Placed(o) EXCEPT !.status = "triggered"]
  <2>1. Reported(o) = QueryReport(p) BY <1>3 DEF Reported, OrderReport, StopState
  <2>2. p \in Events /\ p.status = "triggered" /\ p.filled = 0
    <3>1. Placed(o) = [order |-> o, status |-> "accepted", filled |-> 0, at |-> 0] BY DEF Placed
    <3> QED BY <3>1, PlacedIsFirst DEF Events, Statuses
  <2>3. PICK k \in 1..s.upto : log[k].order = o /\ log[k].status = "triggered"
      BY <1>3 DEF Triggered
  <2>4. k \in 1..Len(log) /\ k \in 0..Len(log) BY <1>0, <2>3
  <2>5. StateAt(o, k) = log[k] /\ log[k].filled = 0 /\ log[k].status = "triggered"
      BY <2>3, <2>4, <1>0, EventIsState DEF LogInv, LogIsConsistent, Consistent
  <2> HIDE DEF p
  <2>6. TellsOf(QueryReport(p), log[k]) BY <2>2, <2>5, ReportsAreStates DEF TellsOf
  <2> QED BY <2>1, <2>2, <2>4, <2>5, <2>6, ReportsAreStates DEF AsOf
<1> QED BY <1>2, <1>3

\* What an event of the stream reports was the order's state when it happened.
LEMMA StreamedHappened ==
    ASSUME Shape, LogInv, wire # <<>>
    PROVE  LET e == log[Head(wire)] IN
           /\ Head(wire) \in OnWire /\ Head(wire) \in 1..Len(log) /\ e.order \in Orders
           /\ StreamReport(e) \in ShownStates /\ AsOf(StreamReport(e), e.order, Head(wire))
<1>0. log \in Seq(Events) /\ Len(log) \in Nat /\ wire \in Seq(Nat) BY LenProperties DEF Shape
<1>1. Head(wire) \in OnWire
  <2>1. Len(wire) \in Nat \ {0} BY <1>0, EmptySeq
  <2>2. 1 \in 1..Len(wire) /\ Head(wire) = wire[1] BY <2>1, <1>0
  <2> QED BY <2>2 DEF OnWire
<1>2. Head(wire) \in 1..Len(log) BY <1>1 DEF Shape, TypeOK
<1> DEFINE k == Head(wire)
<1> HIDE DEF k
<1>3. k \in 1..Len(log) BY <1>2 DEF k
<1>4. log[k] \in Events /\ log[k].order \in Orders /\ StateAt(log[k].order, k) = log[k]
    BY <1>0, <1>3, EventIsState, ElementOfSeq DEF LogInv
<1>5. StreamReport(log[k]) \in ShownStates /\ AsOf(StreamReport(log[k]), log[k].order, k)
    BY <1>4, ReportsAreStates DEF AsOf
<1> QED BY <1>1, <1>3, <1>4, <1>5 DEF k

\* A step that shows something keeps what is shown true, and takes nothing back.
Forward ==
    \A o \in Orders :
        /\ Rank(shown'[o].status) >= Rank(shown[o].status)
        /\ shown'[o].filled >= shown[o].filled
        /\ shown[o].status \in Terminal => shown'[o].status = shown[o].status

LEMMA ReceiveShows ==
    ASSUME Shape, LogInv, ShownHappened, Receive
    PROVE  shown' \in [Orders -> ShownStates] /\ ShownHappened' /\ Forward
<1> DEFINE k == Head(wire)
           p == log[k].order
           new == StreamReport(log[k])
<1>1. wire # <<>> /\ log' = log BY DEF Receive
<1>2. k \in 1..Len(log) /\ p \in Orders /\ new \in ShownStates /\ AsOf(new, p, k)
    BY <1>1, StreamedHappened
<1>3. shown' = [shown EXCEPT ![p] = Project(shown[p], new)] BY DEF Receive
<1>4. k \in 0..Len(log) BY <1>2, LenProperties DEF Shape
<1> HIDE DEF k, p, new
<1> DEFINE r == Project(shown[p], new)
<1>5. /\ r \in ShownStates /\ \E n \in 0..Len(log) : AsOf(r, p, n)
      /\ Rank(r.status) >= Rank(shown[p].status) /\ r.filled >= shown[p].filled
      /\ shown[p].status \in Terminal => r.status = shown[p].status
    BY <1>2, <1>4, ProjectionHolds
<1> HIDE DEF r
<1>6. shown \in [Orders -> ShownStates] BY DEF Shape
<1>7. /\ shown' \in [Orders -> ShownStates] /\ shown'[p] = r
      /\ \A o \in Orders \ {p} : shown'[o] = shown[o]
    BY <1>2, <1>3, <1>5, <1>6 DEF r
<1>8. ShownHappened'
  <2>1. \A o \in Orders : \A m : (StateAt(o, m))' = StateAt(o, m) BY <1>1 DEF StateAt, Placed
  <2> SUFFICES ASSUME NEW o \in Orders
               PROVE  shown'[o] = Unseen \/ \E m \in 0..Len(log) : AsOf(shown'[o], o, m)
      BY <1>1, <2>1 DEF ShownHappened, AsOf, TellsOf
  <2> QED BY <1>5, <1>7 DEF ShownHappened
<1>9. Forward
  <2> SUFFICES ASSUME NEW o \in Orders
               PROVE  /\ Rank(shown'[o].status) >= Rank(shown[o].status)
                      /\ shown'[o].filled >= shown[o].filled
                      /\ shown[o].status \in Terminal => shown'[o].status = shown[o].status
      BY DEF Forward
  <2>1. Rank(shown[o].status) \in Nat /\ shown[o].filled \in Nat
      BY <1>6, RankIsNat, ReconnectAssumption DEF ShownStates
  <2> QED BY <2>1, <1>5, <1>7
<1> QED BY <1>7, <1>8, <1>9

LEMMA CompleteShows ==
    ASSUME Shape, LogInv, ShownHappened, Complete
    PROVE  shown' \in [Orders -> ShownStates] /\ ShownHappened' /\ Forward
<1>1. shown' = [o \in Orders |-> Project(shown[o], Reported(o))] /\ log' = log BY DEF Complete, broker
<1>2. ASSUME NEW o \in Orders
      PROVE  /\ shown'[o] \in ShownStates /\ \E n \in 0..Len(log) : AsOf(shown'[o], o, n)
             /\ Rank(shown'[o].status) >= Rank(shown[o].status) /\ shown'[o].filled >= shown[o].filled
             /\ shown[o].status \in Terminal => shown'[o].status = shown[o].status
  <2>1. PICK m \in 0..Len(log) : AsOf(Reported(o), o, m) BY ReportedHappened
  <2>2. Reported(o) \in ShownStates BY ReportedHappened
  <2>3. shown'[o] = Project(shown[o], Reported(o)) BY <1>1
  <2> QED BY <2>1, <2>2, <2>3, ProjectionHolds
<1>3. shown' \in [Orders -> ShownStates] BY <1>1, <1>2
<1>4. \A o \in Orders : \A m : (StateAt(o, m))' = StateAt(o, m) BY <1>1 DEF StateAt, Placed
<1>5. ShownHappened' BY <1>1, <1>2, <1>4 DEF ShownHappened, AsOf, TellsOf
<1>6. Forward BY <1>2 DEF Forward
<1> QED BY <1>3, <1>5, <1>6

-----------------------------------------------------------------------------
\* The shape of the state

\* What comes, goes and ends on the wire.
LEMMA WireSteps ==
    ASSUME wire \in Seq(Nat)
    PROVE  /\ \A n \in Nat : wire' = Append(wire, n) =>
                 wire' \in Seq(Nat) /\ OnWire' = OnWire \cup {n}
           /\ wire # <<>> /\ wire' = Tail(wire) =>
                 wire' \in Seq(Nat) /\ OnWire' \subseteq OnWire /\ OnWire \subseteq OnWire' \cup {Head(wire)}
           /\ wire' = <<>> => wire' \in Seq(Nat) /\ OnWire' = {}
           /\ wire' = wire => OnWire' = OnWire
<1>0. Len(wire) \in Nat BY LenProperties
<1>1. ASSUME NEW n \in Nat, wire' = Append(wire, n)
      PROVE  wire' \in Seq(Nat) /\ OnWire' = OnWire \cup {n}
  <2>1. /\ wire' \in Seq(Nat) /\ Len(wire') = Len(wire) + 1 /\ wire'[Len(wire) + 1] = n
        /\ \A i \in 1..Len(wire) : wire'[i] = wire[i]
      BY <1>1, AppendProperties
  <2>2. 1..Len(wire') = 1..Len(wire) \cup {Len(wire) + 1} BY <1>0, <2>1
  <2>3. OnWire' = {wire'[i] : i \in 1..Len(wire')} BY DEF OnWire
  <2>4. OnWire' \subseteq OnWire \cup {n} BY <2>1, <2>2, <2>3 DEF OnWire
  <2>5. OnWire \cup {n} \subseteq OnWire' BY <2>1, <2>2, <2>3 DEF OnWire
  <2> QED BY <2>1, <2>4, <2>5
<1>2. ASSUME wire # <<>>, wire' = Tail(wire)
      PROVE  wire' \in Seq(Nat) /\ OnWire' \subseteq OnWire /\ OnWire \subseteq OnWire' \cup {Head(wire)}
  <2>1. /\ wire' \in Seq(Nat) /\ Len(wire') = Len(wire) - 1
        /\ \A i \in 1..Len(wire') : wire'[i] = wire[i + 1]
      BY <1>2, HeadTailProperties
  <2>2. OnWire' = {wire'[i] : i \in 1..Len(wire')} BY DEF OnWire
  <2>3. \A i \in 1..Len(wire') : i + 1 \in 1..Len(wire) BY <1>0, <2>1
  <2>4. OnWire' \subseteq OnWire BY <2>1, <2>2, <2>3 DEF OnWire
  <2>5. ASSUME NEW x \in OnWire PROVE x \in OnWire' \cup {Head(wire)}
    <3>1. PICK i \in 1..Len(wire) : x = wire[i] BY <2>5 DEF OnWire
    <3>2. CASE i = 1 BY <3>1, <3>2, <1>2
    <3>3. CASE i # 1
      <4>1. i - 1 \in 1..Len(wire') /\ (i - 1) + 1 = i BY <1>0, <2>1, <3>3
      <4>2. wire'[i - 1] = wire[i] BY <2>1, <4>1
      <4> QED BY <3>1, <4>1, <4>2, <2>2
    <3> QED BY <3>2, <3>3
  <2> QED BY <2>1, <2>4, <2>5
<1>3. ASSUME wire' = <<>> PROVE wire' \in Seq(Nat) /\ OnWire' = {}
  <2>1. wire' \in Seq(Nat) /\ Len(wire') = 0 BY <1>3, EmptySeq
  <2> QED BY <2>1 DEF OnWire
<1>4. wire' = wire => OnWire' = OnWire BY DEF OnWire
<1> QED BY <1>1, <1>2, <1>3, <1>4

Gaps == {NoGap} \cup (-Overlap)..MaxTime
SeenStates(n) == [through : {"none", "order", "stop"}, upto : 0..n]
Snapshots(n) ==
    [stage : {"none", "orders", "active", "stops", "read"}, at : 0..MaxTime,
     seen : [Orders -> SeenStates(n)]]

LEMMA EmptySnapshot ==
    ASSUME NEW n \in Nat
    PROVE  NoSnapshot \in Snapshots(n) /\ NoSnapshot.stage = "none"
<1>1. NotSeen \in SeenStates(n) BY DEF NotSeen, SeenStates
<1>2. 0 \in 0..MaxTime BY ReconnectAssumption
<1> QED BY <1>1, <1>2 DEF NoSnapshot, Snapshots

\* The gap that is owed after an interruption.
LEMMA GapIsTyped ==
    ASSUME TypeOK, NEW since \in 0..MaxTime
    PROVE  Gap(since) \in Gaps /\ Gap(since) # NoGap
<1>1. since - Overlap \in (-Overlap)..MaxTime BY ReconnectAssumption
<1>2. \A x \in (-Overlap)..MaxTime : x # NoGap BY ReconnectAssumption DEF NoGap
<1> QED BY <1>1, <1>2 DEF Gap, Gaps, TypeOK

\* A step that keeps the broker's log and what is shown, and shapes the rest.
LEMMA KeepsShape ==
    ASSUME Shape, log' = log, shown' \in [Orders -> ShownStates],
           now' \in 0..MaxTime, observed' \in 0..MaxTime, faults' \in 0..MaxFaults,
           pc' \in {"closed", "reconciling", "live"}, recovery' \in Gaps,
           unheard' \in {NotOpened} \cup 0..Len(log),
           IF unheard' = NotOpened THEN pc' = "closed" ELSE pc' = "live" \/ recovery' # NoGap,
           cut' \in BOOLEAN,
           attempt' \in 0..Attempts - 1, snapshot' \in Snapshots(Len(log)),
           told' \subseteq 1..Len(log), abandoned' \subseteq 1..Len(log),
           wire' \in Seq(Nat), OnWire' \subseteq OnWire
    PROVE  Shape'
<1>1. TypeOK'
  <2>1. \A o \in Orders : shown'[o].status \in {"none", "accepted", "triggered", "partial"} \cup Terminal
      BY DEF ShownStates, Statuses, Terminal
  <2> QED BY <2>1 DEF Shape, TypeOK, Gaps, Snapshots, SeenStates
<1> QED BY <1>1 DEF Shape

LEMMA InitShape == Init => Shape
<1> SUFFICES ASSUME Init PROVE Shape OBVIOUS
<1>1. log \in Seq(Events) /\ Len(log) = 0 /\ wire \in Seq(Nat) /\ Len(wire) = 0
    BY EmptySeq DEF Init
<1>2. NoSnapshot \in Snapshots(0) BY EmptySnapshot
<1>3. Unseen \in ShownStates /\ shown \in [Orders -> ShownStates]
    BY ReconnectAssumption DEF Init, Unseen, ShownStates
<1>4. \A o \in Orders : shown[o].status = "none" BY DEF Init, Unseen
<1>5. 0 \in 0..MaxTime /\ 0 \in 0..MaxFaults /\ 0 \in 0..Attempts - 1 BY ReconnectAssumption
<1>6. OnWire = {} BY <1>1 DEF OnWire
<1>7. snapshot \in Snapshots(Len(log)) BY <1>1, <1>2 DEF Init
<1>8. TypeOK BY <1>4, <1>5, <1>6, <1>7 DEF Init, TypeOK, Snapshots, SeenStates
<1> QED BY <1>1, <1>3, <1>8 DEF Shape

LEMMA HappenKeepsShape ==
    ASSUME Shape, LogInv, NEW o \in Orders, Happen(o)
    PROVE  Shape'
<1>1. PICK e \in Events : e.at = now /\ log' = Append(log, e) BY HappenKeepsLog
<1>2. log' \in Seq(Events) /\ Len(log') = Len(log) + 1 /\ Len(log) \in Nat
    BY <1>1, AppendProperties, LenProperties DEF Shape
<1>3. 1..Len(log) \subseteq 1..Len(log') /\ 0..Len(log) \subseteq 0..Len(log') /\ Len(log') \in 1..Len(log')
    BY <1>2
<1>4. wire' \in Seq(Nat) /\ OnWire' \subseteq OnWire \cup {Len(log')}
    BY <1>2, WireSteps DEF Happen, Shape
<1>5. UNCHANGED <<now, cut, pc, recovery, observed, attempt, snapshot, shown, faults, told, abandoned,
                  unheard>>
    BY DEF Happen, gap, history
<1>6. SeenStates(Len(log)) \subseteq SeenStates(Len(log')) BY <1>3 DEF SeenStates
<1>7. snapshot' \in Snapshots(Len(log'))
  <2>1. snapshot \in Snapshots(Len(log)) BY DEF Shape, TypeOK, Snapshots, SeenStates
  <2> QED BY <1>5, <1>6, <2>1 DEF Snapshots
<1>8. TypeOK' BY <1>3, <1>4, <1>5, <1>7 DEF Shape, TypeOK, Snapshots, SeenStates
<1> QED BY <1>2, <1>4, <1>5, <1>8 DEF Shape

\* The stages of a reconciliation's reading.
LEMMA ReadingIsTyped ==
    ASSUME Shape, NEW stage \in {"active", "stops", "read"}, NEW os \in SUBSET Orders,
           NEW list \in {"order", "stop"}
    PROVE  /\ Reading(stage, os, list) \in Snapshots(Len(log))
           /\ Reading(stage, os, list).stage = stage /\ Reading(stage, os, list).at = snapshot.at
           /\ \A o \in Orders : Reading(stage, os, list).seen[o] =
                                   IF o \in os THEN Through(list) ELSE snapshot.seen[o]
<1> DEFINE seen == [o \in Orders |-> IF o \in os THEN Through(list) ELSE snapshot.seen[o]]
<1>0. Len(log) \in Nat BY LenProperties DEF Shape
<1>1. snapshot \in Snapshots(Len(log)) BY DEF Shape, TypeOK, Snapshots, SeenStates
<1>2. Through(list) \in SeenStates(Len(log)) BY <1>0 DEF Through, SeenStates
<1>3. seen \in [Orders -> SeenStates(Len(log))] BY <1>1, <1>2 DEF Snapshots
<1>4. Reading(stage, os, list) = [snapshot EXCEPT !.stage = stage, !.seen = seen] BY DEF Reading
<1>5. \A o \in Orders : seen[o] = IF o \in os THEN Through(list) ELSE snapshot.seen[o] OBVIOUS
<1> HIDE DEF seen
<1> QED BY <1>1, <1>3, <1>4, <1>5 DEF Snapshots

Read == ReadActiveStops \/ ReadStops \/ ReadChildren

\* Every stage of the reading but the first.
LEMMA ReadSteps ==
    ASSUME Shape, Read
    PROVE  \E stage \in {"active", "stops", "read"}, os \in SUBSET Orders, list \in {"order", "stop"} :
              /\ snapshot.stage # "none" /\ Reconciles
              /\ stage = "stops" => SeenThrough("none") \subseteq os
              /\ stage = "read" => snapshot.stage = "stops"
              /\ snapshot' = Reading(stage, os, list)
              /\ UNCHANGED <<now, broker, pc, gap, attempt, shown, faults, history>>
<1>0. \A l : SeenThrough(l) \subseteq Orders BY DEF SeenThrough
<1>1. CASE ReadActiveStops
  <2> DEFINE os == {o \in Stops : snapshot.seen[o] = NotSeen /\ StateAt(o, Len(log)).status = "accepted"}
  <2>1. os \in SUBSET Orders BY ReconnectAssumption
  <2>2. ReadStage("orders", Reading("active", os, "stop")) BY <1>1 DEF ReadActiveStops
  <2> HIDE DEF os
  <2> QED BY <2>1, <2>2 DEF ReadStage
<1>2. CASE ReadStops
  <2>1. PICK ranged \in SUBSET SeenThrough("stop") :
            ReadStage("active", Reading("stops", ranged \cup SeenThrough("none"), "stop"))
      BY <1>2 DEF ReadStops
  <2> DEFINE os == ranged \cup SeenThrough("none")
  <2>2. os \in SUBSET Orders /\ SeenThrough("none") \subseteq os BY <1>0
  <2>3. ReadStage("active", Reading("stops", os, "stop")) BY <2>1
  <2> HIDE DEF os
  <2> QED BY <2>2, <2>3 DEF ReadStage
<1>3. CASE ReadChildren
  <2>1. MissingChildren \in SUBSET Orders BY <1>0 DEF MissingChildren
  <2> QED BY <1>3, <2>1 DEF ReadChildren, ReadStage
<1> QED BY <1>1, <1>2, <1>3 DEF Read

LEMMA FirstReadIsTyped ==
    ASSUME Shape, ReadOrders
    PROVE  /\ snapshot' \in Snapshots(Len(log)) /\ snapshot'.stage = "orders" /\ snapshot'.at = now
           /\ \A o \in Orders : snapshot'.seen[o] \in {Through("order"), NotSeen}
           /\ UNCHANGED <<now, broker, pc, gap, attempt, shown, faults, history>> /\ Reconciles
<1> DEFINE seen == [o \in Orders |-> IF HasOrderState(o, Len(log)) THEN Through("order") ELSE NotSeen]
<1>0. Len(log) \in Nat BY LenProperties DEF Shape
<1>1. Through("order") \in SeenStates(Len(log)) /\ NotSeen \in SeenStates(Len(log))
    BY <1>0 DEF Through, NotSeen, SeenStates
<1>2. seen \in [Orders -> SeenStates(Len(log))] BY <1>1
<1>3. snapshot' = [stage |-> "orders", at |-> now, seen |-> seen]
      /\ UNCHANGED <<now, broker, pc, gap, attempt, shown, faults, history>> /\ Reconciles
    BY DEF ReadOrders, ReadStage
<1>4. \A o \in Orders : seen[o] \in {Through("order"), NotSeen} OBVIOUS
<1> HIDE DEF seen
<1> QED BY <1>2, <1>3, <1>4 DEF Snapshots, Shape, TypeOK

\* Every step but the broker's keeps the shape.
LEMMA StepKeepsShape ==
    ASSUME Shape, LogInv, ShownHappened,
           Tick \/ Cut \/ Receive \/ Break \/ Open \/ OpenFails \/ ReadOrders \/ Read \/ Complete
           \/ FailTransiently \/ FailForGood \/ Refuse
    PROVE  Shape'
<1>0. /\ wire \in Seq(Nat) /\ Len(log) \in Nat /\ 0 \in 0..Attempts - 1
      /\ shown \in [Orders -> ShownStates]
    BY ReconnectAssumption, LenProperties DEF Shape
<1>1. /\ now \in 0..MaxTime /\ observed \in 0..MaxTime /\ faults \in 0..MaxFaults
      /\ pc \in {"closed", "reconciling", "live"} /\ recovery \in Gaps
      /\ unheard \in {NotOpened} \cup 0..Len(log)
      /\ (IF unheard = NotOpened THEN pc = "closed" ELSE pc = "live" \/ recovery # NoGap)
      /\ cut \in BOOLEAN /\ attempt \in 0..Attempts - 1
      /\ snapshot \in Snapshots(Len(log)) /\ told \subseteq 1..Len(log) /\ abandoned \subseteq 1..Len(log)
    BY DEF Shape, TypeOK, Gaps, Snapshots, SeenStates
<1>2. NoSnapshot \in Snapshots(Len(log)) BY <1>0, EmptySnapshot
<1>3. wire' = wire => wire' \in Seq(Nat) /\ OnWire' \subseteq OnWire BY <1>0, WireSteps
<1>4. faults < MaxFaults => faults + 1 \in 0..MaxFaults BY <1>1, ReconnectAssumption
<1>5. CASE Tick
  <2>1. now + 1 \in 0..MaxTime BY <1>1, <1>5, ReconnectAssumption DEF Tick
  <2> QED BY <1>0, <1>1, <1>3, <1>5, <2>1, KeepsShape DEF Tick, broker, gap, history
<1>6. CASE Cut
    BY <1>0, <1>1, <1>3, <1>4, <1>6, KeepsShape DEF Cut, gap, history
<1>7. CASE Receive
  <2>1. wire' \in Seq(Nat) /\ OnWire' \subseteq OnWire BY <1>0, <1>7, WireSteps DEF Receive
  <2>2. Head(wire) \in 1..Len(log) BY <1>7, StreamedHappened DEF Receive
  <2>3. shown' \in [Orders -> ShownStates] BY <1>7, ReceiveShows
  <2>4. told' \subseteq 1..Len(log) BY <2>2, <1>1, <1>7 DEF Receive
  <2> QED BY <1>0, <1>1, <1>7, <2>1, <2>3, <2>4, KeepsShape DEF Receive
<1>8. CASE Break
  <2>1. wire' \in Seq(Nat) /\ OnWire' \subseteq OnWire BY <1>0, <1>8, WireSteps DEF Break
  <2>2. observed' \in 0..MaxTime BY <1>1, <1>8 DEF Break
  <2>3. recovery' \in Gaps /\ recovery' # NoGap BY <2>2, <1>8, GapIsTyped DEF Break, Shape
  <2>4. faults' \in 0..MaxFaults BY <1>1, <1>4, <1>8 DEF Break
  <2> QED BY <1>0, <1>1, <1>2, <1>8, <2>1, <2>2, <2>3, <2>4, KeepsShape DEF Break, history
<1>9. CASE Open
  <2>1. unheard' \in 0..Len(log) /\ unheard' # NotOpened BY <1>0, <1>1, <1>9 DEF Open, NotOpened
  <2>2. pc' = "live" \/ recovery' # NoGap BY <1>9 DEF Open, gap
  <2> QED BY <1>0, <1>1, <1>2, <1>3, <1>9, <2>1, <2>2, KeepsShape DEF Open, broker, gap
<1>15. CASE OpenFails
  <2>1. recovery' \in Gaps /\ recovery' # NoGap BY <1>1, <1>15, GapIsTyped DEF OpenFails, Shape
  <2> QED BY <1>0, <1>1, <1>3, <1>4, <1>15, <2>1, KeepsShape DEF OpenFails, broker, history
<1>10. CASE ReadOrders
    BY <1>0, <1>1, <1>3, <1>10, FirstReadIsTyped, KeepsShape DEF broker, gap, history
<1>11. CASE Read
  <2>1. snapshot' \in Snapshots(Len(log))
        /\ UNCHANGED <<now, broker, pc, gap, attempt, shown, faults, history>>
      BY <1>11, ReadSteps, ReadingIsTyped
  <2> QED BY <1>0, <1>1, <1>3, <2>1, KeepsShape DEF broker, gap, history
<1>12. CASE Complete
  <2>1. shown' \in [Orders -> ShownStates] BY <1>12, CompleteShows
  <2>2. told' \subseteq 1..Len(log) BY <1>1, <1>12 DEF Complete, Known
  <2>3. recovery' \in Gaps /\ unheard # NotOpened BY <1>1, <1>12 DEF Complete, Gaps, Reconciles
  <2> QED BY <1>0, <1>1, <1>2, <1>3, <1>12, <2>1, <2>2, <2>3, KeepsShape DEF Complete, broker
<1>13. CASE FailTransiently
  <2>1. attempt' \in 0..Attempts - 1 BY <1>1, <1>13, ReconnectAssumption DEF FailTransiently
  <2>2. pc' \in {"closed", "reconciling", "live"} /\ unheard # NotOpened
        /\ (pc' = "live" \/ recovery' # NoGap)
      BY <1>1, <1>13 DEF FailTransiently, Reconciles, gap
  <2> QED BY <1>0, <1>1, <1>2, <1>3, <1>4, <1>13, <2>1, <2>2, KeepsShape
      DEF FailTransiently, broker, gap, history
<1>14. CASE FailForGood \/ Refuse
  <2>1. EndForGood /\ faults' \in 0..MaxFaults /\ unheard # NotOpened
      BY <1>1, <1>4, <1>14 DEF FailForGood, Refuse, Reconciles
  <2>2. recovery' \in Gaps /\ observed' \in 0..MaxTime /\ abandoned' \subseteq 1..Len(log)
      BY <1>1, <2>1 DEF EndForGood, Gaps, gap
  <2> QED BY <1>0, <1>1, <1>2, <1>3, <2>1, <2>2, KeepsShape DEF EndForGood, broker
<1> QED BY <1>5, <1>6, <1>7, <1>8, <1>9, <1>10, <1>11, <1>12, <1>13, <1>14, <1>15

\* The log and what is shown.
LEMMA LogIsKept ==
    ASSUME Shape, LogInv, log' = log, now' >= now, now' \in Nat
    PROVE  LogInv'
<1>0. now \in Nat /\ Len(log) \in Nat /\ \A k \in 1..Len(log) : log[k] \in Events
    BY LenProperties, ElementOfSeq DEF Shape, TypeOK
<1>1. \A k \in 1..Len(log) : log[k].at \in Nat BY <1>0 DEF Events
<1>2. LogIsConsistent' BY <1>0, <1>1 DEF LogInv, LogIsConsistent, Consistent
<1>3. LogIsInOrder' BY DEF LogInv, LogIsInOrder, Precedes
<1>4. LogHasLasts' BY ZenonT(60) DEF LogInv, LogHasLasts, IsLast, Past
<1> QED BY <1>2, <1>3, <1>4 DEF LogInv

LEMMA ShownIsKept ==
    ASSUME ShownHappened, log' = log, shown' = shown
    PROVE  ShownHappened'
<1>1. \A o \in Orders : \A m : (StateAt(o, m))' = StateAt(o, m) BY DEF StateAt, Placed
<1> QED BY <1>1 DEF ShownHappened, AsOf, TellsOf

LEMMA HappenKeepsShown ==
    ASSUME Shape, LogInv, ShownHappened, NEW o \in Orders, Happen(o)
    PROVE  ShownHappened'
<1>1. PICK e \in Events : log' = Append(log, e) BY HappenKeepsLog
<1>2. PICK N \in Nat : N = Len(log) BY LenProperties DEF Shape
<1>3. Len(log') = N + 1 /\ \A q \in Orders, n \in 0..N : (StateAt(q, n))' = StateAt(q, n)
    BY <1>1, <1>2, PastIsKept DEF Shape, LogInv
<1>4. shown' = shown BY DEF Happen
<1>5. 0..N \subseteq 0..(N + 1) BY <1>2
<1> SUFFICES ASSUME NEW q \in Orders, shown[q] # Unseen
             PROVE  \E m \in 0..(N + 1) : (AsOf(shown[q], q, m))'
    BY <1>3, <1>4 DEF ShownHappened, AsOf, TellsOf
<1>6. PICK m \in 0..N : AsOf(shown[q], q, m) BY <1>2 DEF ShownHappened
<1>7. (AsOf(shown[q], q, m))' BY <1>3, <1>4, <1>6 DEF AsOf, TellsOf
<1> QED BY <1>5, <1>6, <1>7

-----------------------------------------------------------------------------
\* The gap

LEMMA Numbers ==
    ASSUME Shape
    PROVE  /\ now \in Nat /\ observed \in Nat /\ Overlap \in Nat /\ recovery \in Int
           /\ NoGap \in Int /\ snapshot.at \in Nat /\ Len(log) \in Nat
           /\ \A n \in 1..Len(log) : log[n].at \in Nat /\ log[n].order \in Orders /\ n \in Nat
           /\ \A o \in Orders : snapshot.seen[o].upto \in 0..Len(log)
           /\ OnWire \subseteq 1..Len(log) /\ Missed \subseteq 1..Len(log)
           /\ unheard \in {NotOpened} \cup 0..Len(log) /\ (unheard = NotOpened => pc = "closed")
           /\ unheard # NotOpened /\ pc # "live" => recovery # NoGap
<1>1. \A n \in 1..Len(log) : log[n] \in Events BY ElementOfSeq DEF Shape
<1>2. \A n \in 1..Len(log) : log[n].at \in Nat /\ log[n].order \in Orders BY <1>1 DEF Events
<1> QED BY <1>2, ReconnectAssumption, LenProperties DEF Shape, TypeOK, NoGap, Missed

LEMMA InitGapInv == Init => GapInv
<1> SUFFICES ASSUME Init PROVE GapInv OBVIOUS
<1>1. Len(log) = 0 /\ Len(wire) = 0 BY EmptySeq DEF Init
<1>2. OnWire = {} /\ Missed = {} BY <1>1 DEF OnWire, Missed
<1>3. snapshot.stage = "none" BY DEF Init, NoSnapshot
<1> QED BY <1>1, <1>2, <1>3
    DEF Init, GapInv, Times, ClosedIsQuiet, SnapshotIsRecent, SnapshotIsWhole, SinceTheSnapshot, WireIsInTheGap,
        WireIsRecent, MissedIsBehind, GapIsCovered, Missed

\* An event happens: it is on the wire, or lies behind whatever still comes.
LEMMA HappenKeepsGap ==
    ASSUME IInv, NEW o \in Orders, Happen(o)
    PROVE  GapInv'
<1>1. PICK e \in Events : e.at = now /\ log' = Append(log, e) BY HappenKeepsLog DEF IInv
<1>2. PICK N \in Nat : N = Len(log) BY Numbers DEF IInv
<1>3. /\ Len(log') = N + 1 /\ log'[N + 1].at = now /\ log'[N + 1].order \in Orders
      /\ \A k \in 1..N : log'[k] = log[k]
    BY <1>1, <1>2, PastIsKept DEF IInv, Shape, LogInv, Events
<1>4. UNCHANGED <<now, cut, pc, recovery, observed, attempt, snapshot, told, abandoned, unheard>>
    BY DEF Happen, gap, history
<1>5. /\ now \in Nat /\ observed \in Nat /\ Overlap \in Nat /\ recovery \in Int /\ snapshot.at \in Nat
      /\ OnWire \subseteq 1..N /\ Missed \subseteq 1..N
      /\ \A n \in 1..N : log[n].at \in Nat /\ log[n].order \in Orders
      /\ \A q \in Orders : snapshot.seen[q].upto \in 0..N
      /\ unheard \in {NotOpened} \cup 0..N /\ (unheard = NotOpened => pc = "closed")
      /\ (unheard # NotOpened /\ pc # "live" => recovery # NoGap)
    BY <1>2, Numbers DEF IInv
<1>6. 1..(N + 1) = 1..N \cup {N + 1} /\ N + 1 \notin 1..N BY <1>2
<1>7. IF pc = "closed" \/ cut THEN OnWire' = OnWire ELSE OnWire' = OnWire \cup {N + 1}
    BY <1>2, <1>3, WireSteps DEF Happen, IInv, Shape
<1>8. told \subseteq 1..N /\ abandoned \subseteq 1..N /\ 1..unheard \subseteq 1..N
  <2>1. told \subseteq 1..N /\ abandoned \subseteq 1..N BY <1>2 DEF IInv, Shape, TypeOK
  <2> QED BY <2>1, <1>2, <1>5 DEF NotOpened
<1>9. Missed' = IF pc = "closed" \/ cut THEN Missed \cup {N + 1} ELSE Missed
  <2>1. Missed' = (1..(N + 1)) \ (told \cup OnWire' \cup abandoned \cup 1..unheard)
      BY <1>3, <1>4 DEF Missed
  <2>2. Missed = (1..N) \ (told \cup OnWire \cup abandoned \cup 1..unheard) BY <1>2 DEF Missed
  <2> QED BY <2>1, <2>2, <1>5, <1>6, <1>7, <1>8
<1>10. Times' /\ ClosedIsQuiet' /\ SnapshotIsRecent' /\ SnapshotIsWhole'
    BY <1>4, <1>7 DEF IInv, GapInv, Times, ClosedIsQuiet, SnapshotIsRecent, SnapshotIsWhole
<1>11. SinceTheSnapshot'
  <2> SUFFICES ASSUME snapshot.stage # "none", NEW n \in 1..(N + 1),
                      snapshot.seen[log'[n].order].through # "none",
                      n > snapshot.seen[log'[n].order].upto
               PROVE  /\ log'[n].at >= snapshot.at
                      /\ n \in Missed' => cut /\ \A m \in OnWire' : m < n
      BY <1>3, <1>4 DEF SinceTheSnapshot
  <2>1. pc # "closed" /\ snapshot.at <= now BY DEF IInv, GapInv, SnapshotIsRecent
  <2>2. CASE n \in 1..N
    <3>1. log'[n] = log[n] BY <2>2, <1>3
    <3>2. /\ log[n].at >= snapshot.at
          /\ n \in Missed => cut /\ \A m \in OnWire : m < n
        BY <2>2, <3>1, <1>2 DEF IInv, GapInv, SinceTheSnapshot
    <3> QED BY <2>1, <2>2, <3>1, <3>2, <1>6, <1>7, <1>9
  <2>3. CASE n = N + 1
    <3>1. \A m \in OnWire : m < N + 1 BY <1>5
    <3> QED BY <2>1, <2>3, <3>1, <1>3, <1>6, <1>7, <1>9, <1>5
  <2> QED BY <2>2, <2>3, <1>6
<1>12. WireIsInTheGap'
    BY <1>2, <1>3, <1>4, <1>5, <1>7 DEF IInv, GapInv, WireIsInTheGap, Times
<1>13. WireIsRecent'
  <2> SUFFICES ASSUME recovery = NoGap, NEW n \in OnWire', n \notin told \cup abandoned \/ observed # now
               PROVE  now <= log'[n].at + Overlap
      BY <1>4 DEF WireIsRecent
  <2>1. CASE n \in OnWire
    <3>1. log'[n] = log[n] BY <2>1, <1>3, <1>5
    <3> QED BY <2>1, <3>1 DEF IInv, GapInv, WireIsRecent
  <2>2. CASE n = N + 1 BY <2>2, <1>3, <1>5
  <2> QED BY <2>1, <2>2, <1>7
<1>14. MissedIsBehind'
  <2> SUFFICES ASSUME recovery = NoGap, NEW n \in Missed', NEW m \in OnWire' PROVE m < n
      BY <1>4 DEF MissedIsBehind
  <2>1. pc = "live" /\ unheard # NotOpened
    <3>1. pc # "closed" BY <1>7 DEF IInv, GapInv, ClosedIsQuiet
    <3> QED BY <3>1, <1>5
  <2>2. CASE cut
    <3>1. m \in OnWire /\ n \in Missed \cup {N + 1} BY <2>2, <1>7, <1>9
    <3> QED BY <3>1, <1>5 DEF IInv, GapInv, MissedIsBehind
  <2>3. CASE ~cut
    <3>1. n \in Missed BY <2>1, <2>3, <1>9
    <3> QED BY <2>1, <2>3, <3>1 DEF IInv, GapInv, GapIsCovered, Missed
  <2> QED BY <2>2, <2>3
<1>15. GapIsCovered'
  <2> SUFFICES ASSUME NEW n \in Missed'
               PROVE  (recovery # NoGap \/ cut \/ unheard = NotOpened) /\ Gap(observed) <= log'[n].at
      BY <1>4 DEF GapIsCovered, Missed, Gap
  <2>1. CASE n \in Missed
    <3>1. log'[n] = log[n] BY <2>1, <1>3, <1>5
    <3> QED BY <2>1, <3>1 DEF IInv, GapInv, GapIsCovered, Missed
  <2>2. CASE n = N + 1 /\ (pc = "closed" \/ cut)
    <3>1. recovery # NoGap \/ cut \/ unheard = NotOpened BY <2>2, <1>5
    <3>2. Gap(observed) <= now BY <1>5 DEF Gap, IInv, GapInv, Times
    <3> QED BY <2>2, <3>1, <3>2, <1>3
  <2> QED BY <2>1, <2>2, <1>9
<1> QED BY <1>10, <1>11, <1>12, <1>13, <1>14, <1>15 DEF GapInv

\* Time passes only while nothing on the wire and nothing read grows too old.
LEMMA TickKeepsGap ==
    ASSUME IInv, Tick
    PROVE  GapInv'
<1>0. now' = now + 1 /\ OnWire' = OnWire /\ Missed' = Missed
      /\ UNCHANGED <<log, cut, pc, recovery, observed, snapshot, told, abandoned, unheard>>
    BY DEF Tick, broker, gap, history, OnWire, Missed
<1>1. /\ now \in Nat /\ observed \in Nat /\ Overlap \in Nat /\ recovery \in Int /\ snapshot.at \in Nat
      /\ OnWire \subseteq 1..Len(log)
      /\ \A n \in 1..Len(log) : log[n].at \in Nat
      /\ pc \in {"closed", "reconciling", "live"}
      /\ (unheard = NotOpened => pc = "closed") /\ (unheard # NotOpened /\ pc # "live" => recovery # NoGap)
    BY Numbers DEF IInv, Shape, TypeOK
<1>2. Times' /\ ClosedIsQuiet' BY <1>0, <1>1 DEF IInv, GapInv, Times, ClosedIsQuiet
<1>3. SnapshotIsRecent'
  <2>1. snapshot.stage # "none" => now < snapshot.at + Overlap BY DEF Tick, NoSnapshot
  <2> QED BY <1>0, <1>1, <2>1 DEF IInv, GapInv, SnapshotIsRecent
<1>4. SnapshotIsWhole' /\ SinceTheSnapshot' /\ WireIsInTheGap' /\ MissedIsBehind'
    BY <1>0 DEF IInv, GapInv, SnapshotIsWhole, SinceTheSnapshot, WireIsInTheGap, MissedIsBehind
<1>5. WireIsRecent'
  <2>1. recovery = NoGap => \A n \in OnWire : now < log[n].at + Overlap
      BY <1>1 DEF Tick, IInv, GapInv, ClosedIsQuiet
  <2> QED BY <1>0, <1>1, <2>1 DEF WireIsRecent
<1>6. GapIsCovered' BY <1>0 DEF IInv, GapInv, GapIsCovered, Missed, Gap
<1> QED BY <1>2, <1>3, <1>4, <1>5, <1>6 DEF GapInv

LEMMA CutKeepsGap ==
    ASSUME IInv, Cut
    PROVE  GapInv'
<1>0. cut' = TRUE /\ OnWire' = OnWire /\ Missed' = Missed
      /\ UNCHANGED <<now, log, pc, recovery, observed, snapshot, told, abandoned, unheard>>
    BY DEF Cut, gap, history, OnWire, Missed
<1>1. Times' /\ ClosedIsQuiet' /\ SnapshotIsRecent' /\ SnapshotIsWhole' /\ SinceTheSnapshot'
      /\ WireIsInTheGap' /\ WireIsRecent' /\ MissedIsBehind'
    BY <1>0 DEF IInv, GapInv, Times, ClosedIsQuiet, SnapshotIsRecent, SnapshotIsWhole, SinceTheSnapshot, WireIsInTheGap,
                WireIsRecent, MissedIsBehind
<1>2. GapIsCovered' BY <1>0 DEF IInv, GapInv, GapIsCovered, Missed, Gap
<1> QED BY <1>1, <1>2 DEF GapInv

\* An event that arrives is no later than what a dead stream has missed.
LEMMA ReceiveKeepsGap ==
    ASSUME IInv, Receive
    PROVE  GapInv'
<1> DEFINE k == Head(wire)
<1>0. /\ told' = told \cup {k} /\ observed' = now
      /\ UNCHANGED <<now, log, cut, pc, recovery, snapshot, abandoned, unheard>>
    BY DEF Receive
<1>1. k \in OnWire /\ OnWire' \subseteq OnWire /\ OnWire \subseteq OnWire' \cup {k}
    BY WireSteps, StreamedHappened DEF Receive, IInv, Shape
<1> HIDE DEF k
<1>2. Missed' \subseteq Missed BY <1>0, <1>1 DEF Missed
<1>3. /\ now \in Nat /\ observed \in Nat /\ Overlap \in Nat /\ recovery \in Int
      /\ OnWire \subseteq 1..Len(log) /\ Missed \subseteq 1..Len(log)
      /\ \A n \in 1..Len(log) : log[n].at \in Nat
    BY Numbers DEF IInv
<1>4. Times' BY <1>0, <1>3 DEF IInv, GapInv, Times
<1>5. ClosedIsQuiet' /\ SnapshotIsRecent' /\ SnapshotIsWhole'
    BY <1>0, <1>1 DEF IInv, GapInv, ClosedIsQuiet, SnapshotIsRecent, SnapshotIsWhole
<1>6. SinceTheSnapshot' BY <1>0, <1>1, <1>2 DEF IInv, GapInv, SinceTheSnapshot
<1>7. WireIsInTheGap' BY <1>0, <1>1 DEF IInv, GapInv, WireIsInTheGap
<1>8. WireIsRecent' BY <1>0, <1>1 DEF IInv, GapInv, WireIsRecent
<1>9. MissedIsBehind' BY <1>0, <1>1, <1>2 DEF IInv, GapInv, MissedIsBehind
<1>10. GapIsCovered'
  <2> SUFFICES ASSUME NEW n \in Missed'
               PROVE  (recovery # NoGap \/ cut \/ unheard = NotOpened)
                      /\ (IF recovery = NoGap THEN now - Overlap ELSE recovery) <= log[n].at
      BY <1>0 DEF GapIsCovered, Missed, Gap
  <2>1. n \in Missed /\ n \in 1..Len(log) BY <1>2, <1>3
  <2>2. (recovery # NoGap \/ cut \/ unheard = NotOpened) /\ Gap(observed) <= log[n].at
      BY <2>1 DEF IInv, GapInv, GapIsCovered, Missed
  <2>3. CASE recovery # NoGap BY <2>2, <2>3 DEF Gap
  <2>4. CASE recovery = NoGap
    <3>1. k < n /\ k \in 1..Len(log) BY <1>1, <1>3, <2>1, <2>4 DEF IInv, GapInv, MissedIsBehind
    <3>2. log[k].at <= log[n].at BY <2>1, <3>1 DEF IInv, LogInv, LogIsInOrder
    <3>3. observed # now => now <= log[k].at + Overlap
        BY <1>1, <2>4 DEF IInv, GapInv, WireIsRecent
    <3>4. observed = now => now - Overlap <= log[n].at BY <2>2, <2>4 DEF Gap
    <3>5. log[k].at \in Nat /\ log[n].at \in Nat BY <1>3, <2>1, <3>1
    <3>6. now - Overlap <= log[n].at BY <3>2, <3>3, <3>4, <3>5, <1>3
    <3> QED BY <2>2, <2>4, <3>6
  <2> QED BY <2>3, <2>4
<1> QED BY <1>4, <1>5, <1>6, <1>7, <1>8, <1>9, <1>10 DEF GapInv

\* What is lost with a stream lies in the gap that is owed from then on.
LEMMA BreakKeepsGap ==
    ASSUME IInv, Break
    PROVE  GapInv'
<1>0. /\ recovery' = Gap(observed') /\ pc' = "closed" /\ cut' = FALSE /\ snapshot' = NoSnapshot
      /\ (observed' = observed \/ (wire # <<>> /\ observed' = now))
      /\ UNCHANGED <<now, log, told, abandoned, unheard>>
    BY DEF Break, history
<1>1. OnWire' = {} BY WireSteps DEF Break, IInv, Shape
<1>2. Missed' = Missed \cup (OnWire \ (told \cup abandoned \cup 1..unheard))
    BY <1>0, <1>1, Numbers DEF Missed, IInv
<1>3. /\ now \in Nat /\ observed \in Nat /\ Overlap \in Nat /\ recovery \in Int
      /\ OnWire \subseteq 1..Len(log) /\ Missed \subseteq 1..Len(log)
      /\ \A n \in 1..Len(log) : log[n].at \in Nat
    BY Numbers DEF IInv
<1>4. snapshot'.stage = "none" BY <1>0 DEF NoSnapshot
<1>5. recovery' # NoGap
  <2>1. observed' \in 0..MaxTime BY <1>0 DEF IInv, Shape, TypeOK
  <2> QED BY <1>0, <2>1, GapIsTyped DEF IInv, Shape
<1>6. observed' \in Nat /\ observed' <= now BY <1>0, <1>3 DEF IInv, GapInv, Times
<1>7. recovery' <= now'
  <2>1. CASE recovery = NoGap
    <3>1. recovery' = observed' - Overlap BY <1>0, <2>1 DEF Gap
    <3>2. now' = now BY <1>0
    <3>3. \A x, y, z \in Nat : x <= y => x - z <= y OBVIOUS
    <3>4. observed' - Overlap <= now
      <4>1. now \in Nat /\ Overlap \in Nat BY <1>3
      <4> QED BY <1>6, <3>3, <4>1
    <3> QED BY <3>1, <3>2, <3>4
  <2>2. CASE recovery # NoGap
    <3>1. recovery' = recovery BY <1>0, <2>2 DEF Gap
    <3> QED BY <1>0, <2>2, <3>1 DEF IInv, GapInv, Times
  <2> QED BY <2>1, <2>2
<1>8. ASSUME NEW n \in Missed' PROVE recovery' <= log[n].at
  <2>0. n \in 1..Len(log) BY <1>2, <1>3
  <2>1. CASE recovery # NoGap
    <3>1. recovery' = recovery BY <1>0, <2>1 DEF Gap
    <3>2. CASE n \in Missed
        BY <3>1, <3>2, <2>1 DEF IInv, GapInv, GapIsCovered, Missed, Gap
    <3>3. CASE n \in OnWire BY <3>1, <3>3, <2>1 DEF IInv, GapInv, WireIsInTheGap
    <3> QED BY <3>2, <3>3, <1>2, <1>8
  <2>2. CASE recovery = NoGap
    <3>0. recovery' = observed' - Overlap BY <1>0, <2>2 DEF Gap
    <3>1. CASE n \in Missed
      <4>1. observed - Overlap <= log[n].at
          BY <3>1, <2>2 DEF IInv, GapInv, GapIsCovered, Missed, Gap
      <4>2. CASE observed' = observed BY <4>1, <4>2, <3>0
      <4>3. CASE wire # <<>> /\ observed' = now /\ observed # now
        <5> DEFINE k == Head(wire)
        <5>1. k \in OnWire BY <4>3, StreamedHappened DEF IInv
        <5> HIDE DEF k
        <5>2. k < n /\ k \in 1..Len(log) BY <5>1, <1>3, <3>1, <2>2 DEF IInv, GapInv, MissedIsBehind
        <5>3. log[k].at <= log[n].at BY <5>2, <2>0 DEF IInv, LogInv, LogIsInOrder
        <5>4. now <= log[k].at + Overlap BY <5>1, <4>3, <2>2 DEF IInv, GapInv, WireIsRecent
        <5>5. log[k].at \in Nat /\ log[n].at \in Nat BY <1>3, <2>0, <5>2
        <5> QED BY <5>3, <5>4, <5>5, <4>3, <3>0, <1>3
      <4> QED BY <4>2, <4>3, <1>0
    <3>2. CASE n \in OnWire /\ n \notin told \cup abandoned
      <4>1. now <= log[n].at + Overlap BY <3>2, <2>2 DEF IInv, GapInv, WireIsRecent
      <4>2. log[n].at \in Nat BY <1>3, <2>0
      <4> QED BY <4>1, <4>2, <3>0, <1>3, <1>6
    <3> QED BY <3>1, <3>2, <1>2, <1>8
  <2> QED BY <2>1, <2>2
<1>9. GapIsCovered' BY <1>0, <1>5, <1>8 DEF GapIsCovered, Missed, Gap
<1>10. Times' BY <1>0, <1>6, <1>7 DEF Times
<1> QED BY <1>1, <1>4, <1>5, <1>9, <1>10
    DEF GapInv, ClosedIsQuiet, SnapshotIsRecent, SnapshotIsWhole, SinceTheSnapshot, WireIsInTheGap,
        WireIsRecent, MissedIsBehind

\* A first stream that is opened at once brings nothing of what came before, and
\* no other changes what is owed.
LEMMA OpenKeepsGap ==
    ASSUME IInv, Open
    PROVE  GapInv'
<1>0. /\ pc = "closed" /\ OnWire = {} /\ OnWire' = OnWire /\ snapshot'.stage = "none"
      /\ UNCHANGED <<now, log, cut, recovery, observed, told, abandoned>>
    BY DEF Open, broker, gap, OnWire, NoSnapshot, IInv, GapInv, ClosedIsQuiet
<1>1. /\ unheard \in {NotOpened} \cup 0..Len(log) /\ Len(log) \in Nat
      /\ (unheard # NotOpened => recovery # NoGap)
    BY <1>0, Numbers DEF IInv
<1>2. Missed' = {} \/ (recovery # NoGap /\ Missed' = Missed)
  <2>1. CASE unheard # NotOpened
    <3>1. unheard' = unheard BY <2>1 DEF Open
    <3> QED BY <1>0, <1>1, <2>1, <3>1 DEF Missed
  <2>2. CASE unheard = NotOpened /\ recovery = NoGap
    <3>1. unheard' = Len(log) BY <2>2 DEF Open
    <3> QED BY <1>0, <3>1 DEF Missed
  <2>3. CASE unheard = NotOpened /\ recovery # NoGap
    <3>1. unheard' = 0 BY <2>3 DEF Open
    <3>2. 1..unheard' = {} /\ 1..unheard = {} BY <2>3, <3>1 DEF NotOpened
    <3> QED BY <1>0, <2>3, <3>2 DEF Missed
  <2> QED BY <2>1, <2>2, <2>3
<1>3. Times' /\ ClosedIsQuiet' /\ WireIsInTheGap' /\ WireIsRecent' /\ MissedIsBehind'
    BY <1>0 DEF IInv, GapInv, Times, ClosedIsQuiet, WireIsInTheGap, WireIsRecent, MissedIsBehind
<1>4. GapIsCovered' BY <1>0, <1>2 DEF IInv, GapInv, GapIsCovered, Missed, Gap
<1> QED BY <1>0, <1>3, <1>4 DEF GapInv, SnapshotIsRecent, SnapshotIsWhole, SinceTheSnapshot

\* A first stream that cannot be opened owes all since the task was spawned.
LEMMA OpenFailsKeepsGap ==
    ASSUME IInv, OpenFails
    PROVE  GapInv'
<1>0. /\ pc = "closed" /\ OnWire = {} /\ OnWire' = OnWire /\ Missed' = Missed
      /\ recovery = NoGap /\ recovery' = Gap(observed)
      /\ UNCHANGED <<now, log, cut, pc, observed, snapshot, told, abandoned, unheard>>
    BY DEF OpenFails, broker, history, OnWire, Missed, IInv, GapInv, ClosedIsQuiet
<1>1. now \in Nat /\ observed \in Nat /\ Overlap \in Nat BY Numbers DEF IInv
<1>2. recovery' # NoGap BY <1>0, GapIsTyped DEF IInv, Shape, TypeOK
<1>3. recovery' = observed - Overlap BY <1>0 DEF Gap
<1>4. Times' BY <1>0, <1>1, <1>3 DEF IInv, GapInv, Times
<1>5. ClosedIsQuiet' /\ SnapshotIsRecent' /\ SnapshotIsWhole' /\ SinceTheSnapshot' /\ WireIsInTheGap'
      /\ WireIsRecent' /\ MissedIsBehind'
    BY <1>0 DEF IInv, GapInv, ClosedIsQuiet, SnapshotIsRecent, SnapshotIsWhole, SinceTheSnapshot,
                WireIsInTheGap, WireIsRecent, MissedIsBehind
<1>6. GapIsCovered' BY <1>0, <1>2 DEF IInv, GapInv, GapIsCovered, Missed, Gap
<1> QED BY <1>4, <1>5, <1>6 DEF GapInv

\* Steps that only move the task, with a snapshot that is dropped or kept.
LEMMA MovesKeepGap ==
    ASSUME IInv, UNCHANGED <<now, broker, gap, told, abandoned, unheard>>, snapshot'.stage = "none",
           pc' # "closed"
    PROVE  GapInv'
<1>0. OnWire' = OnWire /\ Missed' = Missed /\ UNCHANGED <<now, log, cut, recovery, observed>>
    BY DEF broker, gap, OnWire, Missed
<1>1. Times' /\ WireIsInTheGap' /\ WireIsRecent' /\ MissedIsBehind'
    BY <1>0 DEF IInv, GapInv, Times, WireIsInTheGap, WireIsRecent, MissedIsBehind
<1>2. GapIsCovered' BY <1>0 DEF IInv, GapInv, GapIsCovered, Missed, Gap
<1> QED BY <1>1, <1>2 DEF GapInv, ClosedIsQuiet, SnapshotIsRecent, SnapshotIsWhole, SinceTheSnapshot

\* What has been read was read just now, or before as it stands.
LEMMA ReadingKeepsGap ==
    ASSUME IInv, ReadOrders \/ Read
    PROVE  GapInv'
<1>0. /\ UNCHANGED <<now, log, cut, pc, recovery, observed, told, abandoned, unheard>> /\ Reconciles
      /\ OnWire' = OnWire /\ Missed' = Missed
    BY FirstReadIsTyped, ReadSteps DEF IInv, broker, gap, history, OnWire, Missed
<1>1. /\ now \in Nat /\ Overlap \in Nat /\ Len(log) \in Nat
      /\ \A n \in 1..Len(log) : log[n].order \in Orders /\ n \in Nat
    BY Numbers DEF IInv
<1>2. Times' /\ ClosedIsQuiet' /\ WireIsInTheGap' /\ WireIsRecent' /\ MissedIsBehind'
    BY <1>0 DEF IInv, GapInv, Times, ClosedIsQuiet, WireIsInTheGap, WireIsRecent, MissedIsBehind
<1>3. GapIsCovered' BY <1>0 DEF IInv, GapInv, GapIsCovered, Missed, Gap
<1>4. \A l : Through(l).upto = Len(log) BY DEF Through
<1>5. SnapshotIsRecent' /\ SnapshotIsWhole' /\ SinceTheSnapshot'
  <2>1. CASE ReadOrders
    <3>1. snapshot'.stage = "orders" /\ snapshot'.at = now
          /\ \A o \in Orders : snapshot'.seen[o] \in {Through("order"), NotSeen}
        BY <2>1, FirstReadIsTyped DEF IInv
    <3>2. SnapshotIsRecent' BY <1>0, <1>1, <3>1 DEF SnapshotIsRecent, Reconciles
    <3>3. SnapshotIsWhole' BY <3>1 DEF SnapshotIsWhole
    <3>4. ASSUME NEW n \in 1..Len(log), snapshot'.seen[log[n].order].through # "none"
          PROVE  ~(n > snapshot'.seen[log[n].order].upto)
      <4>1. snapshot'.seen[log[n].order] = Through("order") BY <1>1, <3>1, <3>4 DEF NotSeen
      <4> QED BY <1>1, <1>4, <4>1
    <3>5. SinceTheSnapshot' BY <1>0, <3>4 DEF SinceTheSnapshot
    <3> QED BY <3>2, <3>3, <3>5
  <2>2. CASE Read
    <3>1. PICK stage \in {"active", "stops", "read"}, os \in SUBSET Orders, list \in {"order", "stop"} :
              /\ snapshot.stage # "none"
              /\ stage = "stops" => SeenThrough("none") \subseteq os
              /\ stage = "read" => snapshot.stage = "stops"
              /\ snapshot' = Reading(stage, os, list)
        BY <2>2, ReadSteps DEF IInv
    <3>2. /\ snapshot'.stage = stage /\ snapshot'.at = snapshot.at
          /\ \A o \in Orders : snapshot'.seen[o] = IF o \in os THEN Through(list) ELSE snapshot.seen[o]
        BY <3>1, ReadingIsTyped DEF IInv
    <3>3. SnapshotIsRecent' BY <1>0, <3>1, <3>2 DEF IInv, GapInv, SnapshotIsRecent
    <3>4. SnapshotIsWhole'
      <4>1. Through(list).through # "none" BY DEF Through
      <4>2. stage = "stops" => \A o \in Orders : o \notin os => snapshot.seen[o].through # "none"
          BY <3>1 DEF SeenThrough
      <4>3. stage = "read" => \A o \in Orders : snapshot.seen[o].through # "none"
          BY <3>1 DEF IInv, GapInv, SnapshotIsWhole
      <4> QED BY <3>2, <4>1, <4>2, <4>3 DEF SnapshotIsWhole
    <3>5. SinceTheSnapshot'
      <4> SUFFICES ASSUME NEW n \in 1..Len(log),
                          snapshot'.seen[log[n].order].through # "none",
                          n > snapshot'.seen[log[n].order].upto
                   PROVE  /\ log[n].at >= snapshot.at
                          /\ n \in Missed => cut /\ \A m \in OnWire : m < n
          BY <1>0, <3>2 DEF SinceTheSnapshot
      <4>1. log[n].order \notin os BY <1>1, <1>4, <3>2
      <4>2. snapshot'.seen[log[n].order] = snapshot.seen[log[n].order] BY <1>1, <3>2, <4>1
      <4> QED BY <3>1, <4>2 DEF IInv, GapInv, SinceTheSnapshot
    <3> QED BY <3>3, <3>4, <3>5
  <2> QED BY <2>1, <2>2
<1> QED BY <1>2, <1>3, <1>5 DEF GapInv

\* The reconciliation brings all of the gap but what a dead stream has missed since.
LEMMA CompleteKeepsGap ==
    ASSUME IInv, Complete
    PROVE  GapInv'
<1>0. /\ recovery' = NoGap /\ observed' = now /\ told' = told \cup Known /\ snapshot' = NoSnapshot
      /\ UNCHANGED <<now, log, cut, abandoned, unheard>> /\ OnWire' = OnWire
      /\ recovery # NoGap /\ snapshot.stage = "read" /\ pc' = "live"
    BY DEF Complete, Reconciles, broker, OnWire
<1>1. /\ now \in Nat /\ Overlap \in Nat /\ recovery \in Int /\ snapshot.at \in Nat
      /\ OnWire \subseteq 1..Len(log) /\ Missed \subseteq 1..Len(log)
      /\ \A n \in 1..Len(log) : log[n].at \in Nat /\ log[n].order \in Orders /\ n \in Nat
      /\ \A o \in Orders : snapshot.seen[o].upto \in 0..Len(log)
    BY Numbers DEF IInv
<1>2. Missed' = Missed \ Known BY <1>0 DEF Missed
<1>3. snapshot'.stage = "none" BY <1>0 DEF NoSnapshot
<1>4. now <= snapshot.at + Overlap BY <1>0 DEF IInv, GapInv, SnapshotIsRecent
<1>5. ASSUME NEW n \in 1..Len(log), n \notin Known, recovery <= log[n].at
      PROVE  /\ log[n].at >= snapshot.at
             /\ n \in Missed => cut /\ \A m \in OnWire : m < n
  <2>1. n > snapshot.seen[log[n].order].upto
    <3>1. ~(n <= snapshot.seen[log[n].order].upto) BY <1>5 DEF Known
    <3>2. snapshot.seen[log[n].order].upto \in 0..Len(log) BY <1>1
    <3> QED BY <3>1, <3>2, <1>1
  <2>2. snapshot.seen[log[n].order].through # "none"
      BY <1>0, <1>1 DEF IInv, GapInv, SnapshotIsWhole
  <2> QED BY <1>0, <2>1, <2>2 DEF IInv, GapInv, SinceTheSnapshot
<1>6. \A n \in Missed : recovery <= log[n].at
    BY <1>0 DEF IInv, GapInv, GapIsCovered, Missed, Gap
<1>7. ASSUME NEW n \in Missed'
      PROVE  cut /\ now - Overlap <= log[n].at /\ \A m \in OnWire : m < n
  <2>1. n \in 1..Len(log) /\ n \notin Known /\ n \in Missed /\ recovery <= log[n].at
      BY <1>1, <1>2, <1>6, <1>7
  <2>2. log[n].at >= snapshot.at /\ cut /\ \A m \in OnWire : m < n BY <2>1, <1>5
  <2> QED BY <2>1, <2>2, <1>1, <1>4
<1>8. Times' /\ WireIsInTheGap' BY <1>0, <1>1 DEF Times, WireIsInTheGap
<1>9. WireIsRecent'
  <2> SUFFICES ASSUME NEW n \in OnWire, n \notin told \cup Known PROVE now <= log[n].at + Overlap
      BY <1>0 DEF WireIsRecent
  <2>1. n \in 1..Len(log) /\ recovery <= log[n].at
      BY <1>0, <1>1 DEF IInv, GapInv, WireIsInTheGap
  <2>2. log[n].at >= snapshot.at BY <2>1, <1>5
  <2> QED BY <2>1, <2>2, <1>1, <1>4
<1>10. MissedIsBehind' BY <1>0, <1>7 DEF MissedIsBehind
<1>11. GapIsCovered' BY <1>0, <1>7 DEF GapIsCovered, Missed, Gap
<1> QED BY <1>0, <1>3, <1>8, <1>9, <1>10, <1>11
    DEF GapInv, ClosedIsQuiet, SnapshotIsRecent, SnapshotIsWhole, SinceTheSnapshot

\* A gap that is given up is set aside whole.
LEMMA EndKeepsGap ==
    ASSUME IInv, EndForGood
    PROVE  GapInv'
<1>0. snapshot'.stage = "none" /\ pc' = "live" BY DEF EndForGood, NoSnapshot
<1>1. CASE pc = "reconciling"
    BY <1>0, <1>1, MovesKeepGap DEF EndForGood
<1>2. CASE pc # "reconciling"
  <2>1. /\ recovery' = NoGap /\ observed' = now /\ now' = now /\ log' = log /\ told' = told /\ unheard' = unheard
        /\ abandoned' = abandoned \cup ((1..Len(log)) \ told) /\ OnWire' = OnWire
      BY <1>2 DEF EndForGood, broker, OnWire
  <2>2. Missed' = {} BY <2>1 DEF Missed
  <2>3. OnWire \subseteq 1..Len(log) /\ now \in Nat BY Numbers DEF IInv
  <2>4. Times' /\ WireIsInTheGap' BY <2>1, <2>3 DEF Times, WireIsInTheGap
  <2>5. WireIsRecent' BY <2>1, <2>3 DEF WireIsRecent
  <2>6. MissedIsBehind' /\ GapIsCovered' BY <2>2 DEF MissedIsBehind, GapIsCovered, Missed
  <2> QED BY <1>0, <2>4, <2>5, <2>6 DEF GapInv, ClosedIsQuiet, SnapshotIsRecent, SnapshotIsWhole, SinceTheSnapshot
<1> QED BY <1>1, <1>2

-----------------------------------------------------------------------------

LEMMA InitIInv == Init => IInv
<1> SUFFICES ASSUME Init PROVE IInv OBVIOUS
<1>1. Len(log) = 0 BY EmptySeq DEF Init
<1>2. LogIsConsistent /\ LogIsInOrder BY <1>1 DEF LogIsConsistent, LogIsInOrder
<1>3. LogHasLasts BY <1>1 DEF LogHasLasts, Past
<1>4. ShownHappened BY DEF Init, ShownHappened
<1> QED BY <1>2, <1>3, <1>4, InitShape, InitGapInv DEF IInv, LogInv

LEMMA NextIInv == IInv /\ [Next]_vars => IInv' /\ [Forward]_vars
<1> SUFFICES ASSUME IInv, [Next]_vars PROVE IInv' /\ (Forward \/ UNCHANGED vars) OBVIOUS
<1>0. /\ now \in Nat /\ \A o \in Orders : Rank(shown[o].status) \in Nat /\ shown[o].filled \in Nat
  <2>1. \A o \in Orders : shown[o] \in ShownStates BY DEF IInv, Shape
  <2>2. \A o \in Orders : shown[o].status \in Statuses \cup {"none"} /\ shown[o].filled \in Nat
      BY <2>1, ReconnectAssumption DEF ShownStates
  <2>3. now \in Nat BY Numbers DEF IInv
  <2>4. \A o \in Orders : Rank(shown[o].status) \in Nat BY <2>2, RankIsNat
  <2> QED BY <2>2, <2>3, <2>4
<1>1. shown' = shown => Forward BY <1>0 DEF Forward
<1>2. log' = log /\ now' = now => LogInv' BY <1>0, LogIsKept DEF IInv
<1>3. log' = log /\ shown' = shown => ShownHappened' BY ShownIsKept DEF IInv
<1>4. CASE Tick
  <2>1. log' = log /\ shown' = shown /\ now' = now + 1 BY <1>4 DEF Tick, broker
  <2>2. LogInv' BY <2>1, <1>0, LogIsKept DEF IInv
  <2> QED BY <1>1, <1>3, <1>4, <2>1, <2>2, TickKeepsGap, StepKeepsShape DEF IInv
<1>5. CASE Cut
    BY <1>1, <1>2, <1>3, <1>5, CutKeepsGap, StepKeepsShape DEF IInv, Cut
<1>6. ASSUME NEW o \in Orders, Happen(o) PROVE IInv' /\ Forward
  <2>1. shown' = shown BY <1>6 DEF Happen
  <2> QED BY <1>1, <1>6, <2>1, HappenKeepsShape, HappenKeepsLog, HappenKeepsShown, HappenKeepsGap DEF IInv
<1>7. CASE Receive
    BY <1>2, <1>7, ReceiveShows, ReceiveKeepsGap, StepKeepsShape DEF IInv, Receive
<1>8. CASE Break
    BY <1>1, <1>2, <1>3, <1>8, BreakKeepsGap, StepKeepsShape DEF IInv, Break
<1>9. CASE Open
    BY <1>1, <1>2, <1>3, <1>9, OpenKeepsGap, StepKeepsShape DEF IInv, Open, broker
<1>16. CASE OpenFails
    BY <1>1, <1>2, <1>3, <1>16, OpenFailsKeepsGap, StepKeepsShape DEF IInv, OpenFails, broker
<1>10. CASE ReadOrders
    BY <1>1, <1>2, <1>3, <1>10, FirstReadIsTyped, ReadingKeepsGap, StepKeepsShape DEF IInv, broker
<1>11. CASE Read
    BY <1>1, <1>2, <1>3, <1>11, ReadSteps, ReadingKeepsGap, StepKeepsShape DEF IInv, broker
<1>12. CASE Complete
    BY <1>2, <1>12, CompleteShows, CompleteKeepsGap, StepKeepsShape DEF IInv, Complete, broker
<1>13. CASE FailTransiently
  <2>1. snapshot'.stage = "none" /\ pc' # "closed"
      BY <1>13 DEF FailTransiently, NoSnapshot, Reconciles
  <2> QED BY <1>1, <1>2, <1>3, <1>13, <2>1, MovesKeepGap, StepKeepsShape
      DEF IInv, FailTransiently, broker, history
<1>14. CASE FailForGood \/ Refuse
  <2>1. EndForGood BY <1>14 DEF FailForGood, Refuse
  <2>2. log' = log /\ now' = now /\ shown' = shown BY <2>1 DEF EndForGood, broker
  <2> QED BY <1>1, <1>2, <1>3, <1>14, <2>1, <2>2, EndKeepsGap, StepKeepsShape DEF IInv
<1>15. CASE UNCHANGED vars
  <2>1. /\ UNCHANGED <<now, log, wire, cut, pc, recovery, observed, attempt, snapshot, shown, faults,
                       told, abandoned, unheard>> /\ OnWire' = OnWire
      BY <1>15 DEF vars, broker, gap, history, OnWire
  <2>2. Shape' BY <2>1 DEF IInv, Shape, TypeOK
  <2>3. GapInv'
      BY <2>1 DEF IInv, GapInv, Times, ClosedIsQuiet, SnapshotIsRecent, SnapshotIsWhole, SinceTheSnapshot,
                  WireIsInTheGap, WireIsRecent, MissedIsBehind, GapIsCovered, Missed, Gap
  <2> QED BY <1>2, <1>3, <1>15, <2>1, <2>2, <2>3 DEF IInv
<1> QED BY <1>4, <1>5, <1>6, <1>7, <1>8, <1>9, <1>10, <1>11, <1>12, <1>13, <1>14, <1>15, <1>16 DEF Next, Read

\* The invariant of the stream and its reconciliations, in every reachable state.
THEOREM ReconnectInvariant == Spec => []IInv
<1>1. IInv /\ [Next]_vars => IInv' BY NextIInv
<1> QED BY InitIInv, <1>1, PTL DEF Spec

\* The state keeps its shape, for any orders, overlap and number of attempts.
THEOREM TypeCorrect == Spec => []TypeOK
<1>1. IInv => TypeOK BY DEF IInv, Shape
<1> QED BY ReconnectInvariant, <1>1, PTL

\* An event that is neither known nor on its way lies in the gap that is owed or
\* will be, but for a gap that was given up and for what came before a first
\* stream that was opened at once (recovery_from, RECONNECT_RECONCILIATION_OVERLAP_NANOS).
THEOREM NoEventFallsOut == Spec => []GapIsCovered
<1>1. IInv => GapIsCovered BY DEF IInv, GapInv
<1> QED BY ReconnectInvariant, <1>1, PTL

\* No report, streamed or read, in whatever order they come, takes back what is
\* shown of an order (project_order_status_report).
THEOREM NothingIsTakenBack == Spec => NeverBackwards
<1> DEFINE Kept == \A o \in Orders :
         /\ Rank(shown'[o].status) >= Rank(shown[o].status)
         /\ shown'[o].filled >= shown[o].filled
         /\ shown[o].status \in Terminal => shown'[o].status = shown[o].status
<1>1. IInv /\ [Next]_vars => [Kept]_vars BY NextIInv DEF Forward
<1> QED BY ReconnectInvariant, <1>1, PTL DEF Spec, NeverBackwards


=============================================================================
