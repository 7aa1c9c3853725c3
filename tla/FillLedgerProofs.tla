-------------------------- MODULE FillLedgerProofs --------------------------
(***************************************************************************)
(* Proofs about FillLedger, for any executions of any size, any sources    *)
(* and any bound: the ledger loses nothing, publishes nothing twice while  *)
(* the ids are not torn apart, implements OrderFills, takes no commission  *)
(* back, keeps rows that add up, and tells commissions that add up.        *)
(*                                                                         *)
(* The argument is an account of lots.  Every row stands for the lots of   *)
(* the trades it has seen and the lots only a cumulative state vouches for *)
(* (Weight); what was published covers the rows' weights together, and     *)
(* equals what they emitted as long as the fills are under one id.  The    *)
(* copy a reconnect snapshot works on has the same account, with the lots  *)
(* it is about to send.                                                    *)
(*                                                                         *)
(* The second argument is about what the host knows of commissions.  A row *)
(* knows what the host was told of its fills; the copy of a snapshot knows *)
(* what was told and what is to be told with it; and until the alias is    *)
(* known a row has seen the trades of its own id only, unless the task in  *)
(* the gate is about to tear the fills apart.  So the fills are in one row *)
(* when the alias folds the rows together, and no fill loses a commission. *)
(*                                                                         *)
(* The third is about the books of a row (IsBooked): its queue and matches *)
(* have one entry per fill, the queue adds up to the lots without a match, *)
(* and a commission covers no more lots than its fill has.  Taking lots    *)
(* off a queue, joining and merging queues are lemmas of their own.        *)
(*                                                                         *)
(* The fourth is about amounts, where the broker charges in proportion to  *)
(* the lots.  In a fair row (IsFair) the fills add up to what it emitted,  *)
(* each has the commission due for the lots it covers, and what a trade    *)
(* published itself is what its matches leave of it; so every share the    *)
(* largest remainder hands out is exact, and what the host was told of a   *)
(* row's fills is due for their lots, until an alias cuts a commission     *)
(* down or what was left of a trade is charged for all of it.              *)
(***************************************************************************)
EXTENDS FillLedger, TLAPS, FiniteSetTheorems, WellFoundedInduction

Weight(r) == Lots[r.seen] + r.unmatched

RowFields ==
    {"cum", "emitted", "notional", "unmatched", "seen", "queue", "matches", "fees"}

\* The shape of a row whose trades are among the first n executions.
IsRow(r, n) ==
    /\ DOMAIN r = RowFields
    /\ r.cum \in Nat /\ r.emitted \in Nat /\ r.unmatched \in Nat
    /\ r.seen \in SUBSET Upto(n)
    /\ r.cum <= r.emitted

\* A row that emitted what it stands for, all of it executed.
Exact(r, n) == r.emitted = Weight(r) /\ r.emitted <= Lots[Upto(n)]

\* The account of a pair of rows against sent lots.
IsPair(rs, n) == DOMAIN rs = Ids /\ IsRow(rs["order"], n) /\ IsRow(rs["child"], n)

Seen(rs) == rs["order"].seen \cup rs["child"].seen

Covered(rs, sent) ==
    /\ Weight(rs["order"]) + Weight(rs["child"]) <= sent
    /\ rs["order"].emitted <= sent /\ rs["child"].emitted <= sent

ExactPair(rs, sent, n) ==
    /\ Exact(rs["order"], n) /\ Exact(rs["child"], n)
    /\ rs["order"].emitted + rs["child"].emitted = sent

InOneRow == rows["order"].emitted = 0 \/ rows["child"].emitted = 0

\* The task in the gate.
IsProjecting ==
    \/ /\ DOMAIN task = {"at", "key", "source", "k", "given"}
       /\ task.at \in {"resolved", "publishing"} /\ task.key \in Ids
       /\ task.k \in 1 .. executed
       /\ task.at = "publishing" => ~Lags(rows[task.key], task.k)
    \/ /\ DOMAIN task = {"at", "key", "t"}
       /\ task.at = "keyed" /\ task.key \in Ids /\ task.t \in Upto(executed)

IsStaging ==
    /\ DOMAIN task = {"at", "k", "staged", "todo", "done", "lots", "c"} /\ task.at = "staging"
    /\ IsPair(task.staged, executed) /\ Covered(task.staged, published + task.lots)
    /\ task.todo \in SUBSET Upto(executed) /\ task.lots \in Nat
    /\ task.done \in SUBSET Seen(task.staged) /\ heard.trades \in SUBSET Seen(task.staged)
    /\ ~split => ExactPair(task.staged, published + task.lots, executed)

IsTask == task = Idle \/ IsProjecting \/ IsStaging

IsHeard ==
    /\ DOMAIN heard = {"trades", "lots"}
    /\ heard.trades \in SUBSET Upto(executed) /\ heard.trades \in SUBSET Seen(rows)
    /\ heard.lots \in Nat /\ heard.lots <= published

IsAccount ==
    /\ published \in Nat /\ split \in BOOLEAN
    /\ IsPair(rows, executed) /\ Covered(rows, published)
    /\ ~split => ExactPair(rows, published, executed) /\ InOneRow

Inv == executed \in Nat /\ IsAccount /\ IsHeard /\ IsTask

\* Every trade a snapshot has still to project belongs to a known order.
IsMapped ==
    /\ orderOf \in [Trades -> Ids \cup {"none"}]
    /\ task.at = "staging" => \A t \in task.todo : orderOf[t] \in Ids

-----------------------------------------------------------------------------
\* The measure of lots

\* Lots is an additive measure of the sets of executions.
LEMMA LotsMeasure ==
    /\ Trades \subseteq Nat \ {0}
    /\ Lots \in [SUBSET Trades -> Nat] /\ Lots[{}] = 0
    /\ \A S \in SUBSET Trades : \A t \in Trades \ S : Lots[S \cup {t}] = Lots[S] + Lots[{t}]
    /\ \A S, T \in SUBSET Trades : Lots[S \cup T] <= Lots[S] + Lots[T]
    /\ \A S, T \in SUBSET Trades : S \subseteq T => Lots[S] <= Lots[T]
    /\ \A t \in Trades : Lots[{t}] > 0
BY MeasuresAreAdditive DEF Additive

\* The first executions grow with their number, and are executions.
LEMMA UptoGrows ==
    ASSUME NEW n \in Int, NEW m \in Int, n <= m
    PROVE  /\ Upto(n) \subseteq Upto(m) /\ Upto(m) \subseteq Trades
           /\ Lots[Upto(n)] \in Nat /\ Lots[Upto(n)] <= Lots[Upto(m)]
<1>0. Trades \subseteq Nat \ {0}
  BY LotsMeasure
<1>1. Upto(n) \subseteq Upto(m) /\ Upto(m) \subseteq Trades /\ Upto(n) \subseteq Trades
  <2>1. \A t \in Trades : t \in Nat
    BY <1>0
  <2> QED BY <2>1 DEF Upto
<1> QED BY <1>1, LotsMeasure

\* A row's weight is a number, and no smaller than the lots it has seen.
LEMMA RowWeight ==
    ASSUME NEW r, NEW n \in Nat, IsRow(r, n)
    PROVE  /\ r.seen \in SUBSET Trades /\ Lots[r.seen] \in Nat /\ Weight(r) \in Nat
           /\ Lots[r.seen] <= Weight(r) /\ Lots[r.seen] <= Lots[Upto(n)]
<1>1. r.seen \subseteq Upto(n) /\ Upto(n) \subseteq Trades
  BY UptoGrows DEF IsRow
<1>2. Lots[r.seen] \in Nat /\ Lots[r.seen] <= Lots[Upto(n)]
  BY <1>1, LotsMeasure
<1> QED BY <1>1, <1>2 DEF IsRow, Weight

\* A row stays a row as more executions are made.
LEMMA RowGrows ==
    ASSUME NEW r, NEW n \in Nat, IsRow(r, n)
    PROVE  IsRow(r, n + 1) /\ (Exact(r, n) => Exact(r, n + 1))
<1>1. Upto(n) \subseteq Upto(n + 1) /\ Lots[Upto(n)] <= Lots[Upto(n + 1)]
      /\ Lots[Upto(n)] \in Nat /\ Lots[Upto(n + 1)] \in Nat
  BY UptoGrows
<1>2. IsRow(r, n + 1)
  BY <1>1 DEF IsRow
<1> QED BY <1>1, <1>2, RowWeight DEF Exact, IsRow

\* A row that emitted nothing, and is exact, has seen nothing.
LEMMA EmptyIsExact ==
    ASSUME NEW r, NEW n \in Nat, IsRow(r, n), Exact(r, n), r.emitted = 0
    PROVE  r.seen = {} /\ r.unmatched = 0 /\ r.cum = 0
<1>a. Lots[r.seen] \in Nat /\ r.unmatched \in Nat /\ r.cum \in Nat /\ r.cum <= r.emitted
  BY RowWeight DEF IsRow
<1>b. Lots[r.seen] + r.unmatched = 0 BY DEF Exact, Weight
<1>1. Lots[r.seen] = 0 /\ r.unmatched = 0 /\ r.cum = 0
  BY <1>a, <1>b
<1>2. SUFFICES ASSUME NEW t \in r.seen PROVE FALSE
  BY <1>1
<1>3. t \in Trades /\ {t} \in SUBSET Trades /\ {t} \subseteq r.seen /\ r.seen \in SUBSET Trades
  BY RowWeight
<1>4. Lots[{t}] > 0 /\ Lots[{t}] <= Lots[r.seen] /\ Lots[{t}] \in Nat
  BY <1>3, LotsMeasure
<1> QED BY <1>1, <1>4

-----------------------------------------------------------------------------
\* What each operator of FillRow does to a row's account

\* A cumulative state that publishes its delta.
LEMMA CumulatedRow ==
    ASSUME NEW r, NEW n \in Nat, IsRow(r, n), NEW k \in 0 .. n, NEW f, NEW c,
           ~Lags(r, k), Delta(r, k) > 0
    PROVE  /\ IsRow(Cumulated(r, k, f, c), n)
           /\ Cumulated(r, k, f, c).seen = r.seen
           /\ Cumulated(r, k, f, c).emitted = Lots[Upto(k)]
           /\ Cumulated(r, k, f, c).emitted = r.emitted + Delta(r, k)
           /\ Weight(Cumulated(r, k, f, c)) = Weight(r) + Delta(r, k)
           /\ Exact(r, n) => Exact(Cumulated(r, k, f, c), n)
           /\ Delta(r, k) \in Nat
<1> DEFINE next == Cumulated(r, k, f, c)
<1>1. Lots[Upto(k)] \in Nat /\ Lots[Upto(n)] \in Nat /\ Lots[Upto(k)] <= Lots[Upto(n)]
  BY UptoGrows
<1>2. Delta(r, k) \in Nat /\ Delta(r, k) = Lots[Upto(k)] - r.emitted
  BY <1>1 DEF Delta, IsRow
<1>3. /\ DOMAIN next = RowFields
      /\ next.cum = Lots[Upto(k)] /\ next.emitted = r.emitted + Delta(r, k)
      /\ next.unmatched = r.unmatched + Delta(r, k) /\ next.seen = r.seen
  BY DEF Cumulated, IsRow, RowFields
<1>4. IsRow(next, n)
  BY <1>1, <1>2, <1>3 DEF IsRow
<1>5. next.emitted = Lots[Upto(k)]
  BY <1>1, <1>2, <1>3 DEF IsRow
<1>6. Weight(next) = Weight(r) + Delta(r, k)
  BY <1>2, <1>3, RowWeight DEF Weight, IsRow
<1> HIDE DEF next
<1>7. Exact(r, n) => Exact(next, n)
  BY <1>1, <1>3, <1>5, <1>6 DEF Exact
<1> QED BY <1>2, <1>3, <1>4, <1>5, <1>6, <1>7 DEF next

\* A row whose fees, queue, matches or notional alone differ has the same
\* account.
LEMMA SameAccount ==
    ASSUME NEW r, NEW next, NEW n \in Nat, IsRow(r, n),
           DOMAIN next = RowFields,
           next.cum \in Nat, next.cum <= r.emitted, next.emitted = r.emitted,
           next.unmatched = r.unmatched, next.seen = r.seen
    PROVE  IsRow(next, n) /\ Weight(next) = Weight(r) /\ (Exact(r, n) => Exact(next, n))
BY DEF IsRow, Weight, Exact

\* A trade that the row has not seen.
LEMMA TradedRow ==
    ASSUME NEW r, NEW n \in Nat, IsRow(r, n), NEW t \in Upto(n), t \notin r.seen, NEW c
    PROVE  /\ IsRow(Traded(r, t, c), n)
           /\ Traded(r, t, c).seen = r.seen \cup {t}
           /\ Fresh(r, t) \in Nat
           /\ Traded(r, t, c).emitted = r.emitted + Fresh(r, t)
           /\ Weight(Traded(r, t, c)) = Weight(r) + Fresh(r, t)
           /\ Exact(r, n) => Exact(Traded(r, t, c), n)
<1> DEFINE next == Traded(r, t, c)
<1>1. t \in Trades /\ r.seen \in SUBSET Trades /\ r.seen \cup {t} \in SUBSET Upto(n)
      /\ {t} \in SUBSET Trades /\ r.seen \cup {t} \in SUBSET Trades /\ Upto(n) \in SUBSET Trades
  BY UptoGrows, RowWeight DEF IsRow
<1>2. Lots[{t}] \in Nat /\ Lots[r.seen] \in Nat /\ Lots[r.seen \cup {t}] = Lots[r.seen] + Lots[{t}]
      /\ Lots[r.seen \cup {t}] <= Lots[Upto(n)] /\ Lots[Upto(n)] \in Nat
  BY <1>1, LotsMeasure
<1>3. /\ Matched(r, t) \in Nat /\ Fresh(r, t) \in Nat /\ Matched(r, t) <= r.unmatched
      /\ Fresh(r, t) = Lots[{t}] - Matched(r, t)
      /\ Fresh(r, t) > 0 => Matched(r, t) = r.unmatched
  BY <1>2 DEF Matched, Fresh, Least, IsRow
<1>4. /\ DOMAIN next = RowFields
      /\ next.cum = Most(r.cum, r.emitted + Fresh(r, t)) /\ next.emitted = r.emitted + Fresh(r, t)
      /\ next.unmatched = r.unmatched - Matched(r, t) /\ next.seen = r.seen \cup {t}
  BY DEF Traded, IsRow, RowFields
<1> HIDE DEF next
<1>5. IsRow(next, n)
  BY <1>1, <1>3, <1>4 DEF IsRow, Most
<1>6. Weight(next) = Weight(r) + Fresh(r, t)
  BY <1>2, <1>3, <1>4 DEF Weight, IsRow
<1>7. Exact(r, n) => Exact(next, n)
  BY <1>2, <1>3, <1>4, <1>6 DEF Exact, Weight, IsRow
<1> QED BY <1>3, <1>4, <1>5, <1>6, <1>7 DEF next

\* Two rows that differ in their fees and matches only.
Alike(next, r) ==
    /\ DOMAIN next = RowFields
    /\ next.cum = r.cum /\ next.emitted = r.emitted /\ next.unmatched = r.unmatched
    /\ next.seen = r.seen

LEMMA AlikeAccount ==
    ASSUME NEW r, NEW next, NEW n \in Nat, IsRow(r, n), Alike(next, r)
    PROVE  /\ IsRow(next, n) /\ Weight(next) = Weight(r) /\ (Exact(r, n) => Exact(next, n))
           /\ next.seen = r.seen /\ next.emitted = r.emitted
BY SameAccount DEF IsRow, Alike

\* What a commission says of a trade changes fees and matches only.
LEMMA AttributedRow ==
    ASSUME NEW r, NEW n \in Nat, IsRow(r, n), NEW t, NEW c
    PROVE  Alike(Attributed(r, t, c).row, r)
<1> DEFINE a    == Attribution(r, t, c)
           kept == [r EXCEPT !.matches[t] = <<>>]
<1>1. DOMAIN r = RowFields
  BY DEF IsRow
<1>2. Alike(kept, r)
  BY <1>1 DEF Alike, RowFields
<1>3. Unchanged(r).row = r /\ [Unchanged(r) EXCEPT !.ok = FALSE].row = r
  BY DEF Unchanged
<1>4. Alike(r, r)
  BY <1>1 DEF Alike
<1>5. Alike(OwnCorrected(r, t, c).row, r)
  BY <1>1, <1>3, <1>4 DEF OwnCorrected, Changed, Alike, Unchanged, RowFields
<1> HIDE DEF kept, a
<1>6. Alike(FixedCorrected(kept, t, c, a).row, r)
  BY <1>2 DEF FixedCorrected, Changed, Alike, Unchanged, RowFields
<1>7. Alike(Spread(kept, t, a).row, r)
  BY <1>2, Zenon DEF Spread, Alike, RowFields
<1> QED BY <1>3, <1>4, <1>5, <1>6, <1>7 DEF Attributed, a, kept

\* A trade with its commission.
LEMMA ProjectedRow ==
    ASSUME NEW r, NEW n \in Nat, IsRow(r, n), NEW t \in Upto(n), NEW c
    PROVE  LET next == Projected(r, t, c).row
           IN  /\ IsRow(next, n)
               /\ next.seen = r.seen \cup {t}
               /\ SentLots(r, t) \in Nat
               /\ next.emitted = r.emitted + SentLots(r, t)
               /\ Weight(next) = Weight(r) + SentLots(r, t)
               /\ Exact(r, n) => Exact(next, n)
<1>1. CASE t \in r.seen
  <2>1. Projected(r, t, c) = Attributed(r, t, c) /\ SentLots(r, t) = 0
    BY <1>1 DEF Projected, SentLots
  <2>2. r.seen = r.seen \cup {t}
    BY <1>1
  <2>3. r.emitted \in Nat /\ Weight(r) \in Nat
    BY RowWeight DEF IsRow
  <2> QED BY <2>1, <2>2, <2>3, AttributedRow, AlikeAccount
<1>2. CASE t \notin r.seen
  <2>1. Projected(r, t, c) = Attributed(Traded(r, t, c), t, c) /\ SentLots(r, t) = Fresh(r, t)
    BY <1>2 DEF Projected, SentLots
  <2>2. IsRow(Traded(r, t, c), n)
    BY <1>2, TradedRow
  <2>3. Alike(Attributed(Traded(r, t, c), t, c).row, Traded(r, t, c))
    BY <2>2, AttributedRow
  <2> QED BY <1>2, <2>1, <2>2, <2>3, TradedRow, AlikeAccount
<1> QED BY <1>1, <1>2

\* The rows of the two ids, joined.
LEMMA MergedRow ==
    ASSUME NEW r, NEW s, NEW n \in Nat, IsRow(r, n), IsRow(s, n)
    PROVE  LET next == Merged(r, s)
           IN  /\ IsRow(next, n)
               /\ next.seen = r.seen \cup s.seen
               /\ next.emitted = Most(r.emitted, s.emitted)
               /\ Weight(next) <= Weight(r) + Weight(s)
               /\ (Exact(r, n) /\ Exact(s, n) /\ (r.emitted = 0 \/ s.emitted = 0)) =>
                      Exact(next, n) /\ next.emitted = r.emitted + s.emitted
<1> DEFINE next == Merged(r, s)
<1>1. /\ DOMAIN next = RowFields
      /\ next.cum = Most(r.cum, s.cum) /\ next.emitted = Most(r.emitted, s.emitted)
      /\ next.unmatched = Most(r.unmatched, s.unmatched) /\ next.seen = r.seen \cup s.seen
  BY DEF Merged, RowFields
<1> HIDE DEF next
<1>2. r.seen \in SUBSET Trades /\ s.seen \in SUBSET Trades
      /\ Lots[r.seen] \in Nat /\ Lots[s.seen] \in Nat
      /\ r.unmatched \in Nat /\ s.unmatched \in Nat
  BY RowWeight DEF IsRow
<1>3. Lots[r.seen \cup s.seen] \in Nat /\ Lots[r.seen \cup s.seen] <= Lots[r.seen] + Lots[s.seen]
  BY <1>2, LotsMeasure
<1>4. IsRow(next, n)
  BY <1>1 DEF IsRow, Most
<1>5. Weight(next) <= Weight(r) + Weight(s)
  BY <1>1, <1>2, <1>3 DEF Weight, Most
<1>6. ASSUME Exact(r, n), Exact(s, n), r.emitted = 0 \/ s.emitted = 0
      PROVE  Exact(next, n) /\ next.emitted = r.emitted + s.emitted
  <2>0. r.emitted \in Nat /\ s.emitted \in Nat
    BY DEF IsRow
  <2>1. CASE r.emitted = 0
    <3>1. r.seen = {} /\ r.unmatched = 0
      BY <1>6, <2>1, EmptyIsExact
    <3>2. next.emitted = s.emitted /\ next.unmatched = s.unmatched /\ next.seen = s.seen
      BY <1>1, <1>2, <2>0, <2>1, <3>1 DEF Most
    <3> QED BY <1>6, <2>0, <2>1, <3>2 DEF Exact, Weight
  <2>2. CASE s.emitted = 0
    <3>1. s.seen = {} /\ s.unmatched = 0
      BY <1>6, <2>2, EmptyIsExact
    <3>2. next.emitted = r.emitted /\ next.unmatched = r.unmatched /\ next.seen = r.seen
      BY <1>1, <1>2, <2>0, <2>2, <3>1 DEF Most
    <3> QED BY <1>6, <2>0, <2>2, <3>2 DEF Exact, Weight
  <2> QED BY <1>6, <2>1, <2>2
<1> QED BY <1>1, <1>4, <1>5, <1>6 DEF next

-----------------------------------------------------------------------------
\* The account of the rows

\* A row committed with the lots it sent keeps the account.
LEMMA CommitKeeps ==
    ASSUME executed \in Nat, IsAccount, executed' = executed,
           NEW id \in Ids, NEW next, NEW lots \in Nat, NEW c,
           Commit([rows EXCEPT ![id] = next], lots, c),
           IsRow(next, executed), rows[id].seen \subseteq next.seen,
           Weight(next) <= Weight(rows[id]) + lots,
           next.emitted = rows[id].emitted + lots,
           Exact(rows[id], executed) => Exact(next, executed)
    PROVE  /\ IsAccount' /\ Seen(rows) \subseteq Seen(rows') /\ next.seen \subseteq Seen(rows')
           /\ published' = published + lots /\ (~split' => ~split)
           /\ next.emitted <= published'
<1>1. /\ IsRow(rows["order"], executed) /\ IsRow(rows["child"], executed) /\ DOMAIN rows = Ids
      /\ published \in Nat /\ Covered(rows, published)
  BY DEF IsAccount, IsPair
<1>2. /\ Weight(rows["order"]) \in Nat /\ Weight(rows["child"]) \in Nat /\ Weight(next) \in Nat
      /\ rows["order"].emitted \in Nat /\ rows["child"].emitted \in Nat /\ next.emitted \in Nat
  BY <1>1, RowWeight DEF IsRow
<1>3. /\ rows' = [rows EXCEPT ![id] = next] /\ published' = published + lots
  BY DEF Commit
<1>4. /\ (~split' => ~split) /\ split' \in BOOLEAN
      /\ ~split' => ~(rows'["order"].emitted > 0 /\ rows'["child"].emitted > 0)
  BY DEF Commit, IsAccount
<1>5. CASE id = "order"
  <2>1. DOMAIN rows' = Ids /\ rows'["order"] = next /\ rows'["child"] = rows["child"]
    BY <1>1, <1>3, <1>5 DEF Ids
  <2>2. Covered(rows', published')
    BY <1>1, <1>2, <1>3, <1>5, <2>1 DEF Covered
  <2>3. ~split' => ExactPair(rows', published', executed)
    BY <1>2, <1>3, <1>4, <1>5, <2>1 DEF IsAccount, ExactPair
  <2>4. ~split' => InOneRow'
    BY <1>2, <1>4, <2>1 DEF InOneRow
  <2>5. Seen(rows) \subseteq Seen(rows') /\ next.seen \subseteq Seen(rows')
    BY <1>5, <2>1 DEF Seen
  <2>6. IsPair(rows', executed')
    BY <1>1, <2>1 DEF IsPair
  <2>7. published' \in Nat /\ next.emitted <= published'
    BY <1>1, <1>2, <1>3, <1>5 DEF Covered
  <2>8. ~split' => ExactPair(rows', published', executed')
    BY <2>3
  <2>9. IsAccount'
    BY <1>4, <2>2, <2>4, <2>6, <2>7, <2>8 DEF IsAccount
  <2> QED BY <1>3, <1>4, <2>5, <2>7, <2>9
<1>6. CASE id = "child"
  <2>1. DOMAIN rows' = Ids /\ rows'["child"] = next /\ rows'["order"] = rows["order"]
    BY <1>1, <1>3, <1>6 DEF Ids
  <2>2. Covered(rows', published')
    BY <1>1, <1>2, <1>3, <1>6, <2>1 DEF Covered
  <2>3. ~split' => ExactPair(rows', published', executed)
    BY <1>2, <1>3, <1>4, <1>6, <2>1 DEF IsAccount, ExactPair
  <2>4. ~split' => InOneRow'
    BY <1>2, <1>4, <2>1 DEF InOneRow
  <2>5. Seen(rows) \subseteq Seen(rows') /\ next.seen \subseteq Seen(rows')
    BY <1>6, <2>1 DEF Seen
  <2>6. IsPair(rows', executed')
    BY <1>1, <2>1 DEF IsPair
  <2>7. published' \in Nat /\ next.emitted <= published'
    BY <1>1, <1>2, <1>3, <1>6 DEF Covered
  <2>8. ~split' => ExactPair(rows', published', executed')
    BY <2>3
  <2>9. IsAccount'
    BY <1>4, <2>2, <2>4, <2>6, <2>7, <2>8 DEF IsAccount
  <2> QED BY <1>3, <1>4, <2>5, <2>7, <2>9
<1> QED BY <1>5, <1>6 DEF Ids

-----------------------------------------------------------------------------
\* What was heard, and the steps

\* What an action other than Execute may do to what the host and the ledger
\* have heard of.
Grows ==
    /\ executed' = executed
    /\ heard.trades \subseteq heard'.trades /\ heard.lots <= heard'.lots
    /\ published <= published'
    /\ ~split' => ~split

LEMMA TradesHeard ==
    ASSUME executed \in Nat, IsHeard, executed' = executed, published \in Nat,
           NEW ts \in SUBSET Upto(executed), HearTrades(ts),
           Seen(rows) \subseteq Seen(rows'), ts \subseteq Seen(rows'),
           published' \in Nat, published <= published'
    PROVE  IsHeard' /\ heard.trades \subseteq heard'.trades /\ heard.lots <= heard'.lots
<1>1. /\ DOMAIN heard' = {"trades", "lots"} /\ heard'.trades = heard.trades \cup ts
      /\ heard'.lots = heard.lots
  BY DEF HearTrades, IsHeard
<1> QED BY <1>1 DEF IsHeard

LEMMA StateHeard ==
    ASSUME executed \in Nat, IsHeard, executed' = executed, published \in Nat,
           NEW k \in 1 .. executed, HearState(k), Lots[Upto(k)] <= published',
           Seen(rows) \subseteq Seen(rows'),
           published' \in Nat, published <= published'
    PROVE  IsHeard' /\ heard.trades \subseteq heard'.trades /\ heard.lots <= heard'.lots
<1>1. /\ DOMAIN heard' = {"trades", "lots"} /\ heard'.trades = heard.trades
      /\ heard'.lots = Most(heard.lots, Lots[Upto(k)])
  BY DEF HearState, IsHeard
<1>2. Lots[Upto(k)] \in Nat
  BY UptoGrows
<1> QED BY <1>1, <1>2 DEF IsHeard, Most

\* A task that only moves on, or ends, leaves the account as it is.
LEMMA TaskMoves ==
    ASSUME Inv, UNCHANGED <<executed, rows, published, heard, split>>, IsTask'
    PROVE  Inv' /\ Grows
<1>1. IsAccount' /\ IsHeard'
  BY DEF Inv, IsAccount, IsHeard, IsPair, InOneRow
<1>2. heard.lots <= heard'.lots /\ published <= published'
  BY DEF Inv, IsHeard, IsAccount
<1> QED BY <1>1, <1>2 DEF Inv, Grows

\* A task in the gate that projects is not staging.
LEMMA Projecting ==
    ASSUME Inv, task.at \in {"resolved", "publishing", "keyed"}
    PROVE  IsProjecting
BY DEF Inv, IsTask, IsStaging, Idle

LEMMA ExecuteStep ==
    ASSUME Inv, Execute
    PROVE  Inv' /\ executed' = executed + 1 /\ UNCHANGED <<heard, published, split>>
<1>1. /\ executed \in Nat /\ executed' = executed + 1 /\ executed' \in Nat
      /\ UNCHANGED <<rows, task, published, heard, split>>
  BY DEF Inv, Execute
<1>2. Upto(executed) \subseteq Upto(executed')
  BY <1>1, UptoGrows
<1>3. \A rs : IsPair(rs, executed) => IsPair(rs, executed')
  BY <1>1, RowGrows DEF IsPair
<1>4. \A rs, sent : IsPair(rs, executed) /\ ExactPair(rs, sent, executed) => ExactPair(rs, sent, executed')
  BY <1>1, RowGrows DEF IsPair, ExactPair
<1>5. IsAccount'
  <2>1. IsPair(rows', executed') /\ Covered(rows', published') /\ published' \in Nat /\ split' \in BOOLEAN
    BY <1>1, <1>3 DEF Inv, IsAccount
  <2>2. ~split' => ExactPair(rows', published', executed')
    BY <1>1, <1>4 DEF Inv, IsAccount
  <2>3. ~split' => InOneRow'
    BY <1>1 DEF Inv, IsAccount, InOneRow
  <2> QED BY <2>1, <2>2, <2>3 DEF IsAccount
<1>6. IsHeard'
  BY <1>1, <1>2 DEF Inv, IsHeard
<1>7. IsTask'
  <2>1. CASE task = Idle
    BY <1>1, <2>1 DEF IsTask, Idle
  <2>2. CASE IsProjecting
    BY <1>1, <1>2, <2>2 DEF IsTask, IsProjecting
  <2>3. CASE IsStaging
    <3>1. IsPair(task'.staged, executed') /\ Covered(task'.staged, published' + task'.lots)
      BY <1>1, <1>3, <2>3 DEF IsStaging
    <3>2. ~split' => ExactPair(task'.staged, published' + task'.lots, executed')
      BY <1>1, <1>4, <2>3 DEF IsStaging
    <3>3. task'.todo \in SUBSET Upto(executed')
      BY <1>1, <1>2, <2>3 DEF IsStaging
    <3> QED BY <1>1, <2>3, <3>1, <3>2, <3>3 DEF IsStaging, IsTask
  <2> QED BY <2>1, <2>2, <2>3 DEF Inv, IsTask
<1> QED BY <1>1, <1>5, <1>6, <1>7 DEF Inv

-----------------------------------------------------------------------------
\* Cumulative states

LEMMA CanonicalIsId == \A id \in Ids : Canonical(id) \in Ids
BY DEF Canonical, Ids

LEMMA StateResolvedStep ==
    ASSUME Inv, NEW source, NEW id \in Ids, NEW k \in Made, NEW given,
           StateResolved(source, id, k, given)
    PROVE  Inv' /\ Grows
<1>1. /\ UNCHANGED <<executed, rows, published, heard, split>>
      /\ task' = [at |-> "resolved", key |-> ProjectedId(source, id), source |-> source,
                   k |-> k, given |-> given]
  BY DEF StateResolved
<1>2. ProjectedId(source, id) \in Ids /\ k \in 1 .. executed
  BY CanonicalIsId DEF ProjectedId, Made
<1>3. IsTask'
  BY <1>1, <1>2 DEF IsTask, IsProjecting
<1> QED BY <1>1, <1>3, TaskMoves

LEMMA TradeKeyedStep ==
    ASSUME Inv, NEW id \in Ids, NEW t \in Upto(executed), TradeKeyed(id, t)
    PROVE  Inv' /\ Grows
<1>1. /\ UNCHANGED <<executed, rows, published, heard, split>>
      /\ task' = [at |-> "keyed", key |-> Canonical(id), t |-> t]
  BY DEF TradeKeyed
<1>2. IsTask'
  BY <1>1, CanonicalIsId DEF IsTask, IsProjecting
<1> QED BY <1>1, <1>2, TaskMoves

LEMMA StateRegressedStep ==
    ASSUME Inv, StateRegressed
    PROVE  Inv' /\ Grows
BY TaskMoves DEF StateRegressed, IsTask

LEMMA StateStagedStep ==
    ASSUME Inv, StateStaged
    PROVE  Inv' /\ Grows
<1>1. /\ task.at = "resolved" /\ task' = [task EXCEPT !.at = "publishing"]
      /\ UNCHANGED <<executed, rows, published, heard, split>>
      /\ ~Lags(rows[task.key], task.k)
  BY DEF StateStaged
<1>2. DOMAIN task = {"at", "key", "source", "k", "given"} /\ task.key \in Ids /\ task.k \in 1 .. executed
  BY <1>1, Projecting DEF IsProjecting
<1>3. IsTask'
  <2>1. /\ DOMAIN task' = {"at", "key", "source", "k", "given"} /\ task'.at = "publishing"
        /\ task'.key = task.key /\ task'.k = task.k
    BY <1>1, <1>2
  <2>2. ~Lags(rows'[task'.key], task'.k)
    BY <1>1, <2>1
  <2> QED BY <1>1, <1>2, <2>1, <2>2 DEF IsTask, IsProjecting
<1> QED BY <1>1, <1>3, TaskMoves

\* The row of a task that projects a state.
LEMMA StateRow ==
    ASSUME Inv, task.at \in {"resolved", "publishing"}
    PROVE  /\ task.key \in Ids /\ task.k \in 1 .. executed /\ IsRow(rows[task.key], executed)
           /\ executed \in Nat /\ DOMAIN rows = Ids /\ rows[task.key].emitted <= published
           /\ Lots[Upto(task.k)] \in Nat /\ published \in Nat
<1>1. IsProjecting
  BY Projecting
<1>2. task.key \in Ids /\ task.k \in 1 .. executed
  BY <1>1 DEF IsProjecting
<1>3. Lots[Upto(task.k)] \in Nat
  BY <1>2, UptoGrows DEF Inv
<1> QED BY <1>2, <1>3 DEF Inv, IsAccount, IsPair, Covered, Ids

LEMMA StateIgnoredStep ==
    ASSUME Inv, StateIgnored
    PROVE  Inv' /\ Grows
<1> DEFINE row  == rows[task.key]
           n    == Lots[Upto(task.k)]
           next == [row EXCEPT !.cum = Most(@, n)]
<1>1. /\ task.key \in Ids /\ task.k \in 1 .. executed /\ IsRow(row, executed) /\ executed \in Nat
      /\ DOMAIN rows = Ids /\ row.emitted <= published /\ n \in Nat /\ published \in Nat
  BY StateRow DEF StateIgnored
<1>2. n <= row.emitted
  BY <1>1 DEF StateIgnored, Lags, Delta, Most, IsRow
<1>3. [rows EXCEPT ![task.key].cum = Most(@, n)] = [rows EXCEPT ![task.key] = next]
  OBVIOUS
<1>4. /\ DOMAIN next = RowFields /\ next.cum = Most(row.cum, n) /\ next.emitted = row.emitted
      /\ next.unmatched = row.unmatched /\ next.seen = row.seen
  BY <1>1 DEF IsRow, RowFields
<1> HIDE DEF next
<1>5. IsRow(next, executed) /\ Weight(next) = Weight(row)
      /\ (Exact(row, executed) => Exact(next, executed))
  BY <1>1, <1>2, <1>4, SameAccount DEF IsRow, Most
<1>6. Weight(row) \in Nat /\ row.emitted \in Nat
  BY <1>1, RowWeight DEF IsRow
<1>7. /\ Commit([rows EXCEPT ![task.key] = next], 0, <<>>) /\ HearState(task.k)
      /\ task' = Idle /\ executed' = executed
  BY <1>3 DEF StateIgnored
<1>8. /\ IsAccount' /\ Seen(rows) \subseteq Seen(rows') /\ published' = published + 0
      /\ (~split' => ~split) /\ next.emitted <= published'
  <2>1. 0 \in Nat /\ Weight(next) <= Weight(row) + 0 /\ next.emitted = row.emitted + 0
        /\ row.seen \subseteq next.seen
    BY <1>4, <1>5, <1>6
  <2> HIDE DEF row, n
  <2> QED BY <1>1, <1>5, <1>7, <2>1, CommitKeeps DEF Inv, row
<1>9. IsHeard' /\ heard.trades \subseteq heard'.trades /\ heard.lots <= heard'.lots
  <2>1. published' \in Nat /\ published <= published' /\ n <= published'
    BY <1>1, <1>2, <1>6, <1>8
  <2> QED BY <1>1, <1>7, <1>8, <2>1, StateHeard DEF Inv
<1> QED BY <1>1, <1>7, <1>8, <1>9 DEF Inv, IsTask, Grows

LEMMA StatePublishedStep ==
    ASSUME Inv, StatePublished
    PROVE  Inv' /\ Grows
<1> DEFINE row == rows[task.key]
           n   == Lots[Upto(task.k)]
<1>1. /\ task.key \in Ids /\ task.k \in 1 .. executed /\ IsRow(row, executed) /\ executed \in Nat
      /\ DOMAIN rows = Ids /\ row.emitted <= published /\ n \in Nat /\ published \in Nat
  BY StateRow DEF StatePublished
<1>2. /\ HearState(task.k) /\ task' = Idle /\ executed' = executed
  BY DEF StatePublished
<1>3. ~Lags(row, task.k) /\ row.emitted \in Nat /\ Weight(row) \in Nat
  <2>1. IsProjecting /\ task.at = "publishing"
    BY Projecting DEF StatePublished
  <2> QED BY <1>1, <2>1, RowWeight DEF IsProjecting, IsRow
<1>4. ASSUME NEW next, NEW lots \in Nat, NEW c, Commit([rows EXCEPT ![task.key] = next], lots, c),
             IsRow(next, executed), next.seen = row.seen,
             Weight(next) = Weight(row) + lots, next.emitted = row.emitted + lots,
             Exact(row, executed) => Exact(next, executed), n <= next.emitted
      PROVE  Inv' /\ Grows
  <2>1. /\ IsAccount' /\ Seen(rows) \subseteq Seen(rows') /\ published' = published + lots
        /\ (~split' => ~split) /\ next.emitted <= published'
    <3>1. row.seen \subseteq next.seen /\ Weight(next) <= Weight(row) + lots
      BY <1>3, <1>4
    <3> HIDE DEF n
    <3> QED BY <1>1, <1>2, <1>4, <3>1, CommitKeeps DEF Inv
  <2>2. IsHeard' /\ heard.trades \subseteq heard'.trades /\ heard.lots <= heard'.lots
    <3>1. published' \in Nat /\ published <= published' /\ n <= published'
      BY <1>1, <1>3, <1>4, <2>1
    <3> QED BY <1>1, <1>2, <2>1, <3>1, StateHeard DEF Inv
  <2> QED BY <1>1, <1>2, <2>1, <2>2 DEF Inv, IsTask, Grows
<1>5. CASE PublishDelta
  <2> DEFINE fill == Synthetic(task.source, task.key, task.k)
             c    == CumulativeFee(row, task.k, task.given)
             next == Cumulated(row, task.k, fill, c)
  <2>1. /\ Delta(row, task.k) > 0
        /\ Commit([rows EXCEPT ![task.key] = next], Delta(row, task.k), Only(fill, c))
    BY <1>5 DEF PublishDelta
  <2>2. /\ IsRow(next, executed) /\ next.seen = row.seen /\ next.emitted = n
        /\ next.emitted = row.emitted + Delta(row, task.k)
        /\ Weight(next) = Weight(row) + Delta(row, task.k)
        /\ (Exact(row, executed) => Exact(next, executed)) /\ Delta(row, task.k) \in Nat
    <3> HIDE DEF row, fill, c
    <3>1. task.k \in 0 .. executed
      BY <1>1
    <3> QED BY <1>1, <1>3, <2>1, <3>1, CumulatedRow
  <2> HIDE DEF next
  <2>3. n <= next.emitted
    BY <1>1, <2>2
  <2> QED BY <1>4, <2>1, <2>2, <2>3
<1>6. CASE PublishCorrection
  <2>1. PICK f \in Correctable([row EXCEPT !.cum = n], task.k, task.given) \cup
                   Correctable(row, task.k, task.given) :
           LET next == Corrected([row EXCEPT !.cum = n], task.k, f)
           IN  Commit([rows EXCEPT ![task.key] = next], 0, Only(f, next.fees[f].c))
    BY <1>6 DEF PublishCorrection
  <2> DEFINE next == Corrected([row EXCEPT !.cum = n], task.k, f)
  <2>2. Delta(row, task.k) <= 0
    <3>1. Delta([row EXCEPT !.cum = n], task.k) = Delta(row, task.k)
      BY <1>1 DEF Delta, IsRow, RowFields
    <3> QED BY <1>6, <3>1 DEF PublishCorrection
  <2>3. n = row.emitted
    BY <1>1, <1>3, <2>2 DEF Lags, Delta, Most, IsRow
  <2>4. /\ DOMAIN next = RowFields /\ next.cum = n /\ next.emitted = row.emitted
        /\ next.unmatched = row.unmatched /\ next.seen = row.seen
    BY <1>1 DEF Corrected, IsRow, RowFields
  <2>5. Commit([rows EXCEPT ![task.key] = next], 0, Only(f, next.fees[f].c))
    BY <2>1
  <2> HIDE DEF next
  <2>6. IsRow(next, executed) /\ Weight(next) = Weight(row)
        /\ (Exact(row, executed) => Exact(next, executed))
    BY <1>1, <1>3, <2>3, <2>4, SameAccount
  <2>7. 0 \in Nat /\ Weight(next) = Weight(row) + 0 /\ next.emitted = row.emitted + 0
        /\ n <= next.emitted
    BY <1>1, <1>3, <2>3, <2>4, <2>6
  <2> QED BY <1>4, <2>4, <2>5, <2>6, <2>7
<1> QED BY <1>5, <1>6 DEF StatePublished

-----------------------------------------------------------------------------
\* Trades, snapshots and the alias

LEMMA TradePublishedStep ==
    ASSUME Inv, TradePublished
    PROVE  Inv' /\ Grows
<1> DEFINE row  == rows[task.key]
           next == Projected(row, task.t, Unknown)
<1>1. /\ task.at = "keyed" /\ HearTrades({task.t}) /\ task' = Idle /\ executed' = executed
      /\ Commit([rows EXCEPT ![task.key] = next.row], SentLots(row, task.t),
                Telling(row, next, task.t, Unknown))
  BY DEF TradePublished
<1>2. task.key \in Ids /\ task.t \in Upto(executed)
  BY <1>1, Projecting DEF IsProjecting
<1>3. IsRow(row, executed) /\ executed \in Nat /\ published \in Nat
  BY <1>2 DEF Inv, IsAccount, IsPair, Ids
<1>4. /\ IsRow(next.row, executed) /\ next.row.seen = row.seen \cup {task.t}
      /\ SentLots(row, task.t) \in Nat
      /\ next.row.emitted = row.emitted + SentLots(row, task.t)
      /\ Weight(next.row) = Weight(row) + SentLots(row, task.t)
      /\ (Exact(row, executed) => Exact(next.row, executed))
  BY <1>2, <1>3, ProjectedRow
<1>5. Weight(next.row) <= Weight(row) + SentLots(row, task.t) /\ row.seen \subseteq next.row.seen
  BY <1>3, <1>4, RowWeight
<1>6. /\ IsAccount' /\ Seen(rows) \subseteq Seen(rows') /\ next.row.seen \subseteq Seen(rows')
      /\ published' = published + SentLots(row, task.t) /\ (~split' => ~split)
  <2> HIDE DEF next
  <2> QED BY <1>1, <1>2, <1>3, <1>4, <1>5, CommitKeeps DEF Inv
<1>7. IsHeard' /\ heard.trades \subseteq heard'.trades /\ heard.lots <= heard'.lots
  <2>1. published' \in Nat /\ published <= published' /\ {task.t} \in SUBSET Upto(executed)
        /\ {task.t} \subseteq Seen(rows')
    BY <1>2, <1>3, <1>4, <1>6
  <2> HIDE DEF next, row
  <2> QED BY <1>1, <1>3, <1>6, <2>1, TradesHeard DEF Inv
<1> QED BY <1>1, <1>3, <1>4, <1>6, <1>7 DEF Inv, IsTask, Grows

LEMMA SnapshotTakenStep ==
    ASSUME Inv, NEW k \in Made, SnapshotTaken(k)
    PROVE  Inv' /\ Grows
<1>1. /\ UNCHANGED <<executed, rows, published, heard, split>>
      /\ task' = [at |-> "staging", k |-> k, staged |-> rows, todo |-> MappedTrades(k),
                   done |-> {}, lots |-> 0, c |-> <<>>]
  BY DEF SnapshotTaken
<1>2. MappedTrades(k) \in SUBSET Upto(executed)
  <2>1. k \in Int /\ executed \in Int /\ k <= executed
    BY DEF Made, Inv
  <2> QED BY <2>1, UptoGrows DEF MappedTrades
<1>3. published' + 0 = published
  BY <1>1 DEF Inv, IsAccount
<1>4. IsStaging'
  BY <1>1, <1>2, <1>3 DEF Inv, IsAccount, IsHeard, IsStaging
<1> QED BY <1>1, <1>4, TaskMoves DEF IsTask

LEMMA SnapshotStagesStep ==
    ASSUME Inv, IsMapped, NEW t \in Upto(executed), NEW c, SnapshotStages(t, c)
    PROVE  Inv' /\ Grows
<1> DEFINE id   == Canonical(orderOf[t])
           row  == task.staged[id]
           next == Projected(row, t, c)
<1>1. /\ UNCHANGED <<executed, rows, published, heard, split>>
      /\ task.at = "staging" /\ t \in task.todo
  BY DEF SnapshotStages
<1>2. IsStaging
  BY <1>1 DEF Inv, IsTask, IsProjecting, Idle
<1>3. CASE ~next.ok
  <2>1. task' = [task EXCEPT !.todo = @ \ {t}]
    BY <1>3 DEF SnapshotStages
  <2>2. /\ DOMAIN task' = {"at", "k", "staged", "todo", "done", "lots", "c"} /\ task'.at = "staging"
        /\ task'.staged = task.staged /\ task'.todo = task.todo \ {t} /\ task'.done = task.done
        /\ task'.lots = task.lots
    BY <1>2, <2>1 DEF IsStaging
  <2>3. IsStaging'
    BY <1>1, <1>2, <2>2 DEF IsStaging
  <2> QED BY <1>1, <2>3, TaskMoves DEF IsTask
<1>4. CASE next.ok
  <2>1. id \in Ids /\ IsRow(row, executed) /\ executed \in Nat
    <3>1. orderOf[t] \in Ids
      BY <1>1 DEF IsMapped
    <3> QED BY <1>2, <3>1, CanonicalIsId DEF Inv, IsStaging, IsPair, Ids
  <2>2. /\ IsRow(next.row, executed) /\ next.row.seen = row.seen \cup {t}
        /\ SentLots(row, t) \in Nat
        /\ next.row.emitted = row.emitted + SentLots(row, t)
        /\ Weight(next.row) = Weight(row) + SentLots(row, t)
        /\ (Exact(row, executed) => Exact(next.row, executed))
    <3> HIDE DEF row
    <3> QED BY <2>1, ProjectedRow
  <2>3. task' = [task EXCEPT !.staged[id] = next.row, !.todo = @ \ {t}, !.done = @ \cup {t},
                             !.lots = @ + SentLots(row, t), !.c = Over(Telling(row, next, t, c), @)]
    BY <1>4 DEF SnapshotStages
  <2> HIDE DEF next, row, id
  <2>4. /\ DOMAIN task' = {"at", "k", "staged", "todo", "done", "lots", "c"} /\ task'.at = "staging"
        /\ task'.staged = [task.staged EXCEPT ![id] = next.row]
        /\ task'.todo = task.todo \ {t} /\ task'.done = task.done \cup {t}
        /\ task'.lots = task.lots + SentLots(row, t)
    BY <1>2, <2>3 DEF IsStaging
  <2>5. row = task.staged[id]
    BY DEF row
  <2>6. IsPair(task'.staged, executed) /\ Seen(task.staged) \cup {t} \subseteq Seen(task'.staged)
        /\ Covered(task'.staged, published + task'.lots)
    <3>1. /\ Weight(task.staged["order"]) \in Nat /\ Weight(task.staged["child"]) \in Nat
          /\ task.staged["order"].emitted \in Nat /\ task.staged["child"].emitted \in Nat
      BY <1>2, <2>1, RowWeight DEF IsStaging, IsPair, IsRow
    <3>2. published \in Nat /\ task.lots \in Nat
      BY <1>2 DEF Inv, IsAccount, IsStaging
    <3>3. CASE id = "order"
      <4>1. task'.staged["order"] = next.row /\ task'.staged["child"] = task.staged["child"]
            /\ DOMAIN task'.staged = Ids
        BY <1>2, <2>4, <3>3 DEF IsStaging, IsPair, Ids
      <4> QED BY <1>2, <2>2, <2>4, <2>5, <3>1, <3>2, <3>3, <4>1 DEF IsStaging, IsPair, Covered, Seen
    <3>4. CASE id = "child"
      <4>1. task'.staged["child"] = next.row /\ task'.staged["order"] = task.staged["order"]
            /\ DOMAIN task'.staged = Ids
        BY <1>2, <2>4, <3>4 DEF IsStaging, IsPair, Ids
      <4> QED BY <1>2, <2>2, <2>4, <2>5, <3>1, <3>2, <3>4, <4>1 DEF IsStaging, IsPair, Covered, Seen
    <3> QED BY <2>1, <3>3, <3>4 DEF Ids
  <2>7. ~split => ExactPair(task'.staged, published + task'.lots, executed)
    <3>1. /\ task.staged["order"].emitted \in Nat /\ task.staged["child"].emitted \in Nat
          /\ published \in Nat /\ task.lots \in Nat
      BY <1>2 DEF Inv, IsAccount, IsStaging, IsPair, IsRow
    <3>2. SUFFICES ASSUME ~split PROVE ExactPair(task'.staged, published + task'.lots, executed)
      OBVIOUS
    <3>3. ExactPair(task.staged, published + task.lots, executed)
      BY <1>2, <3>2 DEF IsStaging
    <3>4. CASE id = "order"
      <4>1. task'.staged["order"] = next.row /\ task'.staged["child"] = task.staged["child"]
        BY <1>2, <2>4, <3>4 DEF IsStaging, IsPair, Ids
      <4>2. Exact(task'.staged["order"], executed) /\ Exact(task'.staged["child"], executed)
        BY <2>2, <2>5, <3>3, <3>4, <4>1 DEF ExactPair
      <4>3. task'.staged["order"].emitted + task'.staged["child"].emitted = published + task'.lots
        BY <2>2, <2>4, <2>5, <3>1, <3>3, <3>4, <4>1 DEF ExactPair
      <4> QED BY <4>2, <4>3 DEF ExactPair
    <3>5. CASE id = "child"
      <4>1. task'.staged["child"] = next.row /\ task'.staged["order"] = task.staged["order"]
        BY <1>2, <2>4, <3>5 DEF IsStaging, IsPair, Ids
      <4>2. Exact(task'.staged["order"], executed) /\ Exact(task'.staged["child"], executed)
        BY <2>2, <2>5, <3>3, <3>5, <4>1 DEF ExactPair
      <4>3. task'.staged["order"].emitted + task'.staged["child"].emitted = published + task'.lots
        BY <2>2, <2>4, <2>5, <3>1, <3>3, <3>5, <4>1 DEF ExactPair
      <4> QED BY <4>2, <4>3 DEF ExactPair
    <3> QED BY <2>1, <3>4, <3>5 DEF Ids
  <2>8. task'.lots \in Nat /\ task'.todo \in SUBSET Upto(executed)
        /\ task'.done \in SUBSET Seen(task'.staged) /\ heard.trades \in SUBSET Seen(task'.staged)
    BY <1>2, <2>2, <2>4, <2>6 DEF IsStaging
  <2>9. IsStaging'
    BY <1>1, <2>4, <2>6, <2>7, <2>8 DEF IsStaging
  <2> QED BY <1>1, <2>9, TaskMoves DEF IsTask
<1> QED BY <1>3, <1>4

LEMMA SnapshotStoredStep ==
    ASSUME Inv, SnapshotStored
    PROVE  Inv' /\ Grows
<1>1. /\ task.at = "staging" /\ Commit(task.staged, task.lots, task.c) /\ HearTrades(task.done)
      /\ task' = Idle /\ executed' = executed
  BY DEF SnapshotStored
<1>2. IsStaging
  BY <1>1 DEF Inv, IsTask, IsProjecting, Idle
<1>3. /\ rows' = task.staged /\ published' = published + task.lots
      /\ (~split' => ~split) /\ split' \in BOOLEAN
      /\ ~split' => ~(rows'["order"].emitted > 0 /\ rows'["child"].emitted > 0)
  BY <1>1 DEF Commit, Inv, IsAccount
<1>4. executed \in Nat /\ published \in Nat /\ published' \in Nat /\ published <= published'
  BY <1>2, <1>3 DEF Inv, IsAccount, IsStaging
<1>5. IsPair(rows', executed') /\ Covered(rows', published')
  BY <1>1, <1>2, <1>3 DEF IsStaging
<1>6. ~split' => ExactPair(rows', published', executed')
  BY <1>1, <1>2, <1>3 DEF IsStaging
<1>7. ~split' => InOneRow'
  BY <1>3, <1>5 DEF InOneRow, IsPair, IsRow
<1>8. IsAccount'
  BY <1>3, <1>4, <1>5, <1>6, <1>7 DEF IsAccount
<1>9. /\ DOMAIN heard' = {"trades", "lots"} /\ heard'.trades = heard.trades \cup task.done
      /\ heard'.lots = heard.lots
  BY <1>1 DEF HearTrades, Inv, IsHeard
<1>10. Seen(task.staged) \subseteq Upto(executed)
  BY <1>2 DEF IsStaging, IsPair, IsRow, Seen
<1>11. IsHeard'
  BY <1>1, <1>2, <1>3, <1>4, <1>9, <1>10 DEF Inv, IsHeard, IsStaging
<1> QED BY <1>1, <1>3, <1>4, <1>8, <1>9, <1>11 DEF Inv, IsTask, Grows, IsHeard

LEMMA ProvenanceToldStep ==
    ASSUME Inv, IsMapped, NEW t \in Upto(executed), NEW c, ProvenanceTold(t, c)
    PROVE  Inv' /\ Grows
<1> DEFINE id   == Canonical(orderOf[t])
           row  == rows[id]
           next == Refined(row, t, c)
<1>1. /\ Commit([rows EXCEPT ![id] = next], 0, Only(TradeFill(t), c))
      /\ UNCHANGED <<executed, task, heard>> /\ task.at = "idle"
      /\ t \in MappedTrades(executed)
  BY DEF ProvenanceTold, Take
<1>2. id \in Ids
  <2>1. t \in Operation(t, executed) /\ t \in Trades
    BY <1>1 DEF Operation, MappedTrades, Upto
  <2>2. orderOf[t] \in Ids
    BY <1>1, <2>1 DEF IsMapped, MappedTrades
  <2> QED BY <2>2, CanonicalIsId
<1>3. IsRow(row, executed) /\ executed \in Nat /\ published \in Nat
  BY <1>2 DEF Inv, IsAccount, IsPair, Ids
<1>4. Alike(next, row)
  BY <1>3 DEF Refined, Alike, IsRow, RowFields
<1> HIDE DEF id, row, next
<1>5. /\ IsRow(next, executed) /\ Weight(next) = Weight(row) /\ next.seen = row.seen
      /\ next.emitted = row.emitted /\ (Exact(row, executed) => Exact(next, executed))
  BY <1>3, <1>4, AlikeAccount
<1>6. Weight(next) <= Weight(row) + 0 /\ next.emitted = row.emitted + 0 /\ 0 \in Nat
      /\ row.seen \subseteq next.seen
  BY <1>3, <1>5, RowWeight DEF IsRow
<1>7. row = rows[id]
  BY DEF row
<1>8. /\ IsAccount' /\ Seen(rows) \subseteq Seen(rows') /\ published' = published + 0
      /\ (~split' => ~split)
  BY <1>1, <1>2, <1>3, <1>5, <1>6, <1>7, CommitKeeps DEF Inv
<1>9. task = Idle
  BY <1>1 DEF Inv, IsTask, IsProjecting, IsStaging
<1>10. IsHeard' /\ heard.lots <= heard'.lots /\ published <= published'
  BY <1>1, <1>3, <1>8 DEF Inv, IsHeard
<1> QED BY <1>1, <1>3, <1>8, <1>9, <1>10 DEF Inv, IsTask, Grows

LEMMA LinkHoldingStep ==
    ASSUME Inv, NEW held, LinkHolding(held)
    PROVE  Inv' /\ Grows
<1>1. UNCHANGED <<executed, rows, task, published, heard, split>>
  BY DEF LinkHolding
<1>2. IsTask'
  BY <1>1 DEF Inv, IsTask, IsProjecting, IsStaging
<1> QED BY <1>1, <1>2, TaskMoves

\* The fills of the alias join those of the order: nothing was published under
\* one of the ids, or the account was given up before.
LEMMA LinkStepKeeps ==
    ASSUME Inv, Link
    PROVE  Inv' /\ Grows
<1>1. UNCHANGED <<executed, task, published, heard, split>> /\ task.at /= "publishing"
  BY DEF Link
<1>2. CASE rows' = rows
  <2>1. IsTask'
    BY <1>1, <1>2 DEF Inv, IsTask, IsProjecting, IsStaging
  <2> QED BY <1>1, <1>2, <2>1, TaskMoves
<1>3. CASE rows' = [rows EXCEPT !["order"] = Merged(rows["order"], rows["child"]),
                                !["child"] = EmptyRow]
  <2> DEFINE row == Merged(rows["order"], rows["child"])
  <2>1. /\ IsRow(rows["order"], executed) /\ IsRow(rows["child"], executed) /\ DOMAIN rows = Ids
        /\ executed \in Nat /\ published \in Nat /\ Covered(rows, published)
    BY DEF Inv, IsAccount, IsPair
  <2>2. /\ IsRow(row, executed)
        /\ row.seen = rows["order"].seen \cup rows["child"].seen
        /\ row.emitted = Most(rows["order"].emitted, rows["child"].emitted)
        /\ Weight(row) <= Weight(rows["order"]) + Weight(rows["child"])
        /\ (Exact(rows["order"], executed) /\ Exact(rows["child"], executed)
               /\ (rows["order"].emitted = 0 \/ rows["child"].emitted = 0)) =>
              Exact(row, executed) /\ row.emitted = rows["order"].emitted + rows["child"].emitted
    BY <2>1, MergedRow
  <2>3. rows' = [rows EXCEPT !["order"] = row, !["child"] = EmptyRow]
    BY <1>3
  <2> HIDE DEF row
  <2>4. DOMAIN rows' = Ids /\ rows'["order"] = row /\ rows'["child"] = EmptyRow
    BY <2>1, <2>3 DEF Ids
  <2>5. /\ IsRow(EmptyRow, executed) /\ Weight(EmptyRow) = 0 /\ EmptyRow.emitted = 0
        /\ EmptyRow.seen = {} /\ Exact(EmptyRow, executed)
    BY <2>1, LotsMeasure, UptoGrows DEF EmptyRow, IsRow, RowFields, Weight, Exact
  <2>6. Covered(rows', published')
    <3>1. /\ Weight(rows["order"]) \in Nat /\ Weight(rows["child"]) \in Nat /\ Weight(row) \in Nat
      BY <2>1, <2>2, RowWeight
    <3> QED BY <1>1, <2>1, <2>2, <2>4, <2>5, <3>1 DEF Covered, Most
  <2>7. IsPair(rows', executed')
    BY <1>1, <2>2, <2>4, <2>5 DEF IsPair
  <2>8. ASSUME ~split'
        PROVE  ExactPair(rows', published', executed') /\ InOneRow'
    <3>1. ExactPair(rows, published, executed) /\ InOneRow
      BY <1>1, <2>8 DEF Inv, IsAccount
    <3>2. Exact(row, executed) /\ row.emitted = published /\ row.emitted \in Nat
      BY <2>1, <2>2, <3>1 DEF ExactPair, InOneRow
    <3> QED BY <1>1, <2>4, <2>5, <3>2 DEF ExactPair, InOneRow
  <2>9. IsAccount'
    BY <1>1, <2>1, <2>6, <2>7, <2>8 DEF Inv, IsAccount
  <2>10. Seen(rows') = Seen(rows)
    BY <2>2, <2>4, <2>5 DEF Seen
  <2>11. IsHeard'
    BY <1>1, <2>10 DEF Inv, IsHeard
  <2>12. IsTask'
    BY <1>1 DEF Inv, IsTask, IsProjecting, IsStaging
  <2>13. heard.lots <= heard'.lots /\ published <= published'
    BY <1>1, <2>1 DEF Inv, IsHeard
  <2> QED BY <1>1, <2>1, <2>9, <2>11, <2>12, <2>13 DEF Inv, Grows
<1> QED BY <1>2, <1>3 DEF Link

-----------------------------------------------------------------------------
\* The invariant

LEMMA InitInv ==
    ASSUME NEW linked \in BOOLEAN, InitWhen(linked)
    PROVE  Inv /\ IsMapped
<1>1. /\ executed = 0 /\ rows = [id \in Ids |-> EmptyRow] /\ task = Idle
      /\ published = 0 /\ heard = [trades |-> {}, lots |-> 0] /\ split = FALSE
      /\ orderOf = [t \in Trades |-> "none"]
  BY DEF InitWhen
<1>2. rows["order"] = EmptyRow /\ rows["child"] = EmptyRow /\ DOMAIN rows = Ids
  BY <1>1 DEF Ids
<1>3. /\ DOMAIN EmptyRow = RowFields /\ EmptyRow.cum = 0 /\ EmptyRow.emitted = 0
      /\ EmptyRow.unmatched = 0 /\ EmptyRow.seen = {}
  BY DEF EmptyRow, RowFields
<1>4. Upto(0) = {} /\ Lots[{}] = 0
  <2>1. \A t \in Trades : t \in Nat /\ t > 0
    BY LotsMeasure
  <2>2. \A t \in Trades : ~(t <= 0)
    BY <2>1
  <2>3. Upto(0) = {}
    BY <2>2 DEF Upto
  <2> QED BY <2>3, LotsMeasure
<1>5. IsRow(EmptyRow, 0) /\ Weight(EmptyRow) = 0 /\ Exact(EmptyRow, 0)
  BY <1>3, <1>4 DEF IsRow, Weight, Exact
<1>6. IsAccount
  <2>1. IsPair(rows, executed) /\ InOneRow
    BY <1>1, <1>2, <1>3, <1>5 DEF IsPair, InOneRow
  <2>2. Covered(rows, 0) /\ ExactPair(rows, 0, 0)
    BY <1>2, <1>3, <1>5 DEF Covered, ExactPair
  <2> QED BY <1>1, <2>1, <2>2 DEF IsAccount
<1>7. IsHeard
  BY <1>1 DEF IsHeard
<1> QED BY <1>1, <1>6, <1>7 DEF Inv, IsTask, IsMapped, Idle

LEMMA NextInv ==
    ASSUME Inv, IsMapped, Next
    PROVE  Inv' /\ (Execute \/ Grows)
<1>1. CASE Execute
  BY <1>1, ExecuteStep
<1>2. CASE StateStep
  BY <1>2, StateResolvedStep, StateIgnoredStep, StateRegressedStep, StateStagedStep,
     StatePublishedStep DEF StateStep
<1>3. CASE TradeStep
  BY <1>3, TradeKeyedStep, TradePublishedStep DEF TradeStep
<1>4. CASE SnapshotStep
  BY <1>4, SnapshotTakenStep, SnapshotStagesStep, ProvenanceToldStep, SnapshotStoredStep
  DEF SnapshotStep
<1>5. CASE LinkStep
  BY <1>5, LinkHoldingStep, LinkStepKeeps DEF LinkStep
<1> QED BY <1>1, <1>2, <1>3, <1>4, <1>5 DEF Next

\* A trade's order, once recorded, is one of its two ids.
LEMMA NextMapped ==
    ASSUME Inv, IsMapped, Next
    PROVE  IsMapped'
<1> DEFINE Same == orderOf' = orderOf
<1>1. ASSUME NEW ts, NEW id \in Ids, MapTrades(ts, id)
      PROVE  orderOf' \in [Trades -> Ids \cup {"none"}]
  BY <1>1 DEF MapTrades, IsMapped
<1>2. ASSUME Same, task' = task \/ task'.at /= "staging"
      PROVE  IsMapped'
  BY <1>2 DEF IsMapped
<1>3. ASSUME NEW source, NEW id \in Ids, NEW k, NEW given, StateResolved(source, id, k, given)
      PROVE  IsMapped'
  <2>1. task'.at = "resolved"
    BY <1>3 DEF StateResolved
  <2>2. PICK ts : MapTrades(ts, Canonical(id))
    BY <1>3 DEF StateResolved
  <2> QED BY <1>1, <2>1, <2>2, CanonicalIsId DEF IsMapped
<1>4. ASSUME NEW id \in Ids, NEW t, TradeKeyed(id, t)
      PROVE  IsMapped'
  <2>1. task'.at = "keyed" /\ MapTrades({t}, id)
    BY <1>4 DEF TradeKeyed
  <2> QED BY <1>1, <2>1 DEF IsMapped
<1>5. ASSUME NEW k, SnapshotTaken(k)
      PROVE  IsMapped'
  <2>1. task'.todo = MappedTrades(k) /\ Same
    BY <1>5 DEF SnapshotTaken
  <2>2. \A t \in MappedTrades(k) : t \in Trades /\ orderOf[t] /= "none"
    BY DEF MappedTrades, Operation, Upto
  <2> QED BY <2>1, <2>2 DEF IsMapped
<1>6. ASSUME NEW t, NEW c, SnapshotStages(t, c)
      PROVE  IsMapped'
  <2>1. IsStaging /\ Same
    BY <1>6 DEF SnapshotStages, Inv, IsTask, IsProjecting, Idle
  <2>2. task'.todo = task.todo \ {t}
    BY <1>6, <2>1 DEF SnapshotStages, IsStaging
  <2> QED BY <2>1, <2>2 DEF IsMapped, IsStaging
<1>7. CASE Execute
  BY <1>2, <1>7 DEF Execute
<1>8. CASE StateStep
  <2>1. ASSUME StateIgnored \/ StateRegressed \/ StatePublished PROVE IsMapped'
    BY <1>2, <2>1 DEF StateIgnored, StateRegressed, StatePublished, Idle
  <2>2. ASSUME StateStaged PROVE IsMapped'
    <3>1. task'.at = "publishing"
      BY <2>2, Projecting DEF StateStaged, IsProjecting
    <3> QED BY <1>2, <2>2, <3>1 DEF StateStaged
  <2> QED BY <1>3, <1>8, <2>1, <2>2 DEF StateStep
<1>9. CASE TradeStep
  BY <1>2, <1>4, <1>9 DEF TradeStep, TradePublished, Idle
<1>10. CASE SnapshotStep
  <2>1. ASSUME NEW t, NEW c, ProvenanceTold(t, c) PROVE IsMapped'
    <3>1. task' = task /\ Same
      BY <2>1 DEF ProvenanceTold
    <3> QED BY <1>2, <3>1
  <2>2. ASSUME SnapshotStored PROVE IsMapped'
    <3>1. task' = Idle /\ Same
      BY <2>2 DEF SnapshotStored
    <3> QED BY <1>2, <3>1 DEF Idle
  <2> QED BY <1>5, <1>6, <1>10, <2>1, <2>2 DEF SnapshotStep
<1>11. CASE LinkStep
  BY <1>2, <1>11 DEF LinkStep, LinkHolding, Link
<1> QED BY <1>7, <1>8, <1>9, <1>10, <1>11 DEF Next

LEMMA StutterInv ==
    ASSUME Inv, IsMapped, UNCHANGED vars
    PROVE  Inv' /\ IsMapped' /\ Grows
<1>1. UNCHANGED <<executed, rows, published, heard, split>> /\ task' = task /\ orderOf' = orderOf
  BY DEF vars
<1>2. IsTask'
  BY <1>1 DEF Inv, IsTask, IsProjecting, IsStaging
<1>3. IsMapped'
  BY <1>1 DEF IsMapped
<1> QED BY <1>1, <1>2, <1>3, TaskMoves

\* The account of lots holds of every reachable state.
THEOREM FillInvariant == Spec => [](Inv /\ IsMapped)
<1>1. Init => Inv /\ IsMapped
  BY InitInv DEF Init
<1>2. Inv /\ IsMapped /\ [Next]_vars => (Inv /\ IsMapped)'
  BY NextInv, NextMapped, StutterInv
<1> QED BY <1>1, <1>2, PTL DEF Spec

-----------------------------------------------------------------------------
\* The promises

\* Nothing is lost, whatever the executions are heard of through
\* (execution/projections.rs, execution/client/translation.rs): what was sent
\* covers the projected trades and the projected cumulative quantities, however
\* the ids are linked, merged and overwritten by snapshots.
THEOREM NothingLost == Spec => []NothingIsLost
<1>1. Inv => NothingIsLost
  <2>1. SUFFICES ASSUME Inv PROVE NothingIsLost
    OBVIOUS
  <2>2. /\ IsRow(rows["order"], executed) /\ IsRow(rows["child"], executed)
        /\ executed \in Nat /\ published \in Nat
        /\ Weight(rows["order"]) + Weight(rows["child"]) <= published
        /\ heard.lots <= published /\ heard.trades \in SUBSET Seen(rows)
    BY <2>1 DEF Inv, IsAccount, IsHeard, IsPair, Covered
  <2> DEFINE S == rows["order"].seen
             T == rows["child"].seen
  <2>3. /\ S \in SUBSET Trades /\ T \in SUBSET Trades /\ Lots[S] \in Nat /\ Lots[T] \in Nat
        /\ Lots[S] <= Weight(rows["order"]) /\ Lots[T] <= Weight(rows["child"])
        /\ Weight(rows["order"]) \in Nat /\ Weight(rows["child"]) \in Nat
    BY <2>2, RowWeight
  <2>4. heard.trades \subseteq S \cup T
    BY <2>2 DEF Seen
  <2> HIDE DEF S, T
  <2>5. /\ Lots[heard.trades] <= Lots[S \cup T] /\ Lots[S \cup T] <= Lots[S] + Lots[T]
        /\ Lots[heard.trades] \in Nat /\ Lots[S \cup T] \in Nat
    BY <2>3, <2>4, LotsMeasure
  <2> QED BY <2>2, <2>3, <2>5 DEF NothingIsLost
<1> QED BY <1>1, FillInvariant, PTL

\* No lot is published twice while the fills are under one id
\* (execution/projections.rs:1481): the lots a trade has in common with a
\* published cumulative quantity, and the other way round, are told apart.
THEOREM PublishedAtMostOnce == Spec => []PublishedOnce
<1>1. Inv => PublishedOnce
  <2>1. SUFFICES ASSUME Inv, ~split PROVE published <= Lots[Upto(executed)]
    BY DEF PublishedOnce
  <2>2. /\ ExactPair(rows, published, executed) /\ InOneRow /\ IsPair(rows, executed)
        /\ published \in Nat
    BY <2>1 DEF Inv, IsAccount
  <2>3. /\ rows["order"].emitted \in Nat /\ rows["child"].emitted \in Nat
        /\ rows["order"].emitted <= Lots[Upto(executed)]
        /\ rows["child"].emitted <= Lots[Upto(executed)]
    BY <2>2 DEF ExactPair, Exact, IsPair, IsRow
  <2> QED BY <2>2, <2>3 DEF ExactPair, InOneRow
<1> QED BY <1>1, FillInvariant, PTL

\* The ledger implements its promise to the host: each step of a task in or out
\* of the gate is a step of OrderFills, or hears of nothing.
THEOREM Implements == Spec => ImplementsOrderFills
<1>1. Init => Promise!Init
  BY DEF Init, InitWhen, Promise!Init
<1>2. Inv /\ IsMapped /\ Inv' /\ NothingIsLost' /\ PublishedOnce' /\ [Next]_vars
      => [Promise!Next]_(Promise!vars)
  <2>1. SUFFICES ASSUME Inv, IsMapped, Inv', NothingIsLost', PublishedOnce', Next \/ UNCHANGED vars
                 PROVE  Promise!Next
    BY DEF Promise!vars
  <2>2. Execute \/ Grows
    BY <2>1, NextInv, StutterInv
  <2>3. CASE Execute
    <3>1. executed' = executed + 1 /\ UNCHANGED <<heard, published, split>>
      BY <2>1, <2>3, ExecuteStep
    <3> QED BY <3>1 DEF Promise!Next, Promise!Execute
  <2>4. CASE Grows
    <3>1. heard'.trades \in SUBSET Upto(executed)
      BY <2>1, <2>4 DEF Inv, IsHeard, Grows
    <3>2. Promise!Made = Upto(executed)
      BY DEF Promise!Made, Upto
    <3>3. Promise!Settled
      BY <2>1, <2>4, <3>2 DEF NothingIsLost, PublishedOnce, Grows, Promise!Settled
    <3>4. heard'.lots >= heard.lots /\ published' >= published
      BY <2>1, <2>4 DEF Grows, Inv, IsHeard, IsAccount
    <3> QED BY <2>4, <3>1, <3>2, <3>3, <3>4 DEF Grows, Promise!Next, Promise!Hear
  <2> QED BY <2>2, <2>3, <2>4
<1> QED
  BY <1>1, <1>2, FillInvariant, NothingLost, PublishedAtMostOnce, PTL
  DEF Spec, ImplementsOrderFills, Promise!Spec

-----------------------------------------------------------------------------
\* Queues.  The provers know sequences by their lengths and elements; what the
\* model takes from a queue is a sequence again.

\* A queue is a sequence.
IsSeq(q) == \E n \in Nat : q \in [1 .. n -> {q[i] : i \in DOMAIN q}]

\* A finite number of indices.
LEMMA IndicesAreFinite ==
    ASSUME NEW n \in Nat, NEW I \in SUBSET (1 .. n)
    PROVE  IsFiniteSet(I) /\ Cardinality(I) \in Nat /\ Cardinality(I) <= n
<1>1. IsFiniteSet(1 .. n) /\ Cardinality(1 .. n) = n
  BY FS_Interval
<1>2. IsFiniteSet(I) /\ Cardinality(I) <= Cardinality(1 .. n)
  BY <1>1, FS_Subset
<1> QED BY <1>1, <1>2, FS_CardinalityType

\* A function on the first numbers is a queue.
LEMMA QueueOf ==
    ASSUME NEW n \in Nat, NEW q, q = [i \in 1 .. n |-> q[i]]
    PROVE  IsSeq(q)
BY DEF IsSeq

LEMMA QueueLength ==
    ASSUME NEW q, IsSeq(q)
    PROVE  \E S : q \in Seq(S) /\ DOMAIN q = 1 .. Len(q) /\ Len(q) \in Nat
<1>1. PICK n \in Nat : q \in [1 .. n -> {q[i] : i \in DOMAIN q}]
  BY DEF IsSeq
<1> DEFINE S == {q[i] : i \in DOMAIN q}
<1>2. q \in [1 .. n -> S]
  BY <1>1
<1> HIDE DEF S
<1>3. q \in Seq(S)
  BY <1>2
<1> QED BY <1>3

LEMMA SeqIsQueue ==
    ASSUME NEW S, NEW q \in Seq(S)
    PROVE  IsSeq(q)
<1>1. DOMAIN q = 1 .. Len(q) /\ Len(q) \in Nat /\ q = [i \in 1 .. Len(q) |-> q[i]]
  OBVIOUS
<1> QED BY <1>1 DEF IsSeq

LEMMA QueueAppended ==
    ASSUME NEW q, IsSeq(q), NEW e
    PROVE  IsSeq(Append(q, e))
<1>1. PICK S : q \in Seq(S)
  BY QueueLength
<1>2. q \in Seq(S \cup {e})
  BY <1>1
<1>3. Append(q, e) \in Seq(S \cup {e})
  BY <1>2
<1> QED BY <1>3, SeqIsQueue

LEMMA QueueJoined ==
    ASSUME NEW a, NEW b, IsSeq(a), IsSeq(b)
    PROVE  IsSeq(a \o b)
<1>1. PICK S : a \in Seq(S)
  BY QueueLength
<1>2. PICK T : b \in Seq(T)
  BY QueueLength
<1>3. a \in Seq(S \cup T) /\ b \in Seq(S \cup T)
  BY <1>1, <1>2
<1>4. a \o b \in Seq(S \cup T)
  BY <1>3
<1> QED BY <1>4, SeqIsQueue

LEMMA QueuesTaken ==
    ASSUME NEW q, IsSeq(q), NEW n
    PROVE  IsSeq(Leading(q, n)) /\ IsSeq(Trailing(q, n))
<1>1. DOMAIN q = 1 .. Len(q) /\ Len(q) \in Nat
  BY QueueLength
<1>2. IsSeq(Leading(q, n))
  <2> DEFINE I == {j \in DOMAIN q : Before(q, j) < n}
  <2>1. Cardinality(I) \in Nat
    BY <1>1, IndicesAreFinite
  <2>2. Leading(q, n) = [i \in 1 .. Cardinality(I) |-> Leading(q, n)[i]]
    BY DEF Leading
  <2> QED BY <2>1, <2>2, QueueOf
<1>3. IsSeq(Trailing(q, n))
  <2> DEFINE I == {i \in DOMAIN q : Before(q, i) + q[i].lots <= n}
             m == Len(q) - Cardinality(I)
  <2>1. Cardinality(I) \in Nat /\ Cardinality(I) <= Len(q)
    BY <1>1, IndicesAreFinite
  <2>2. m \in Nat
    BY <1>1, <2>1
  <2>3. Trailing(q, n) = [i \in 1 .. m |-> Trailing(q, n)[i]]
    BY DEF Trailing
  <2> HIDE DEF m
  <2> QED BY <2>2, <2>3, QueueOf
<1> QED BY <1>2, <1>3

LEMMA QueuePicked ==
    ASSUME NEW q, IsSeq(q), NEW I \in SUBSET DOMAIN q
    PROVE  IsSeq(At(q, I))
<1>1. DOMAIN q = 1 .. Len(q) /\ Len(q) \in Nat
  BY QueueLength
<1>2. Cardinality(I) \in Nat
  BY <1>1, IndicesAreFinite
<1>3. At(q, I) = [i \in 1 .. Cardinality(I) |-> At(q, I)[i]]
  BY DEF At
<1> QED BY <1>2, <1>3, QueueOf

LEMMA QueueMerged ==
    ASSUME NEW a, NEW b, IsSeq(a), IsSeq(b), NEW n
    PROVE  IsSeq(MergedQueue(a, b, n))
<1> DEFINE first == [i \in DOMAIN a |-> [a[i] EXCEPT !.lots = Most(@, LotsIn(b, a[i].fill))]]
           rest  == At(b, {i \in DOMAIN b : LotsIn(a, b[i].fill) = 0})
<1>1. IsSeq(first)
  <2>1. DOMAIN a = 1 .. Len(a) /\ Len(a) \in Nat
    BY QueueLength
  <2>2. first = [i \in 1 .. Len(a) |-> first[i]]
    BY <2>1
  <2> HIDE DEF first
  <2> QED BY <2>1, <2>2, QueueOf
<1>2. IsSeq(rest)
  BY QueuePicked
<1>3. IsSeq(first \o rest)
  <2> HIDE DEF first, rest
  <2> QED BY <1>1, <1>2, QueueJoined
<1> QED BY <1>3, QueuesTaken DEF MergedQueue

-----------------------------------------------------------------------------
\* The fold over the fills of the alias.  The steps before a given one are the
\* fold over fewer entries: the least number of entries that fails has a
\* predecessor that does not.

Statuses == {"unknown", "allocated", "reported"}
IsTracked(x) == DOMAIN x = {"lots", "resolved", "c"} /\ x.c.status \in Statuses

\* The commissions of fees, known where base knows them.
Keeps(fees, base) ==
    /\ DOMAIN fees \subseteq DOMAIN base
    /\ \A f \in DOMAIN fees :
          IsTracked(fees[f]) /\ (Known(base[f].c) => Known(fees[f].c))

\* A commission that covers lots of its fill, which has some.
IsCovered(x) == x.lots \in Nat \ {0} /\ x.resolved \in Int
AreCovered(fees) == \A f \in DOMAIN fees : IsCovered(fees[f])

\* What the fold preserves, with or without the lots.
Absorbing(acc, base, sized) ==
    DOMAIN acc = {"fees", "used"} /\ Keeps(acc.fees, base) /\ (sized => AreCovered(acc.fees))

LEMMA AbsorbKeeps ==
    ASSUME NEW acc, NEW base, NEW sized, Absorbing(acc, base, sized), NEW e, NEW q, NEW s,
           \A f \in DOMAIN s.fees : IsTracked(s.fees[f]), sized => AreCovered(s.fees)
    PROVE  Absorbing(Absorb(acc, e, q, s), base, sized)
<1> DEFINE twins == {i \in DOMAIN q : q[i].lots = e.lots /\ q[i].fill \notin acc.used}
           twin  == q[CHOOSE i \in twins : \A j \in twins : i <= j].fill
           mine  == s.fees[e.fill]
           given == [lots |-> acc.fees[twin].lots, c |-> mine.c,
                     resolved |-> Least(mine.resolved, acc.fees[twin].lots)]
           moves == /\ e.fill \in DOMAIN s.fees /\ twin \in DOMAIN acc.fees /\ Known(mine.c)
                    /\ Stronger([mine EXCEPT !.lots = e.lots], acc.fees[twin])
           moved == IF moves THEN Put(acc.fees, twin, given) ELSE acc.fees
           Good(fees) == Keeps(fees, base) /\ (sized => AreCovered(fees))
<1>1. Good(moved)
  <2>1. /\ given.c = mine.c /\ DOMAIN given = {"lots", "resolved", "c"}
        /\ given.lots = acc.fees[twin].lots
        /\ given.resolved = Least(mine.resolved, acc.fees[twin].lots)
    OBVIOUS
  <2> HIDE DEF given, twin, mine
  <2>2. ASSUME moves
        PROVE  Good(Put(acc.fees, twin, given))
    <3>1. Known(given.c) /\ IsTracked(given) /\ twin \in DOMAIN acc.fees
      BY <2>1, <2>2 DEF mine, IsTracked
    <3>2. sized => IsCovered(given)
      <4>1. SUFFICES ASSUME sized PROVE IsCovered(given)
        OBVIOUS
      <4>2. IsCovered(mine) /\ IsCovered(acc.fees[twin])
        BY <2>2, <4>1 DEF Absorbing, AreCovered, mine
      <4> QED BY <2>1, <4>2 DEF IsCovered, Least
    <3> HIDE DEF moves
    <3>3. Keeps(Put(acc.fees, twin, given), base)
      BY <3>1 DEF Put, Keeps, Absorbing
    <3>4. sized => AreCovered(Put(acc.fees, twin, given))
      BY <3>1, <3>2 DEF Put, AreCovered, Absorbing
    <3> QED BY <3>3, <3>4
  <2> QED BY <2>2 DEF Absorbing
<1>2. \A fees : Good(fees) => Good(Drop(fees, {e.fill}))
  <2>1. \A fees : Keeps(fees, base) => Keeps(Drop(fees, {e.fill}), base)
    BY DEF Keeps, Drop, Restrict
  <2>2. \A fees : AreCovered(fees) => AreCovered(Drop(fees, {e.fill}))
    BY DEF AreCovered, Drop, Restrict
  <2> QED BY <2>1, <2>2
<1>3. Absorb(acc, e, q, s) = IF e.fill \in {q[i].fill : i \in DOMAIN q} THEN acc
        ELSE IF twins = {} THEN [acc EXCEPT !.fees = Drop(@, {e.fill})]
        ELSE [fees |-> Drop(moved, {e.fill}), used |-> acc.used \cup {twin}]
  BY DEF Absorb
<1> HIDE DEF moved, twins, twin
<1>4. \A a : Absorbing(a, base, sized) => Absorbing([a EXCEPT !.fees = Drop(@, {e.fill})], base, sized)
  BY <1>2 DEF Absorbing
<1>5. Absorbing([fees |-> Drop(moved, {e.fill}), used |-> acc.used \cup {twin}], base, sized)
  BY <1>1, <1>2 DEF Absorbing
<1> QED BY ONLY Absorbing(acc, base, sized), <1>3, <1>4, <1>5

\* A set of numbers that is not empty has a least one.
LEMMA LeastElement ==
    ASSUME NEW T \in SUBSET Nat, T # {}
    PROVE  \E x \in T : \A y \in T : x <= y
<1>1. \E x \in T : \A y \in T : ~ (<<y, x>> \in OpToRel(<, Nat))
    BY NatLessThanWellFounded, WFMin
<1>2. \E x \in T : \A y \in T : ~ (y < x) BY <1>1 DEF OpToRel
<1> QED BY <1>2

\* One step of the fold over the entries of the alias: iter of the
\* entries at the places of part, the fills those of row s.
Absorbed(iter, part, first, entries, q, s) ==
    IF part = {} THEN first
    ELSE Absorb(iter[part \ {Max(part)}], entries[Max(part)], q, s)

LEMMA MaxOfInterval ==
    ASSUME NEW m \in Nat, NEW s \in SUBSET (1 .. m + 1), m + 1 \in s
    PROVE  Max(s) = m + 1 /\ s \ {Max(s)} \in SUBSET (1 .. m)
<1>1. \A y \in s : m + 1 >= y
  OBVIOUS
<1>2. Max(s) = m + 1
  <2>1. \A x \in s : (\A y \in s : x >= y) => x = m + 1
    OBVIOUS
  <2>2. Max(s) \in s /\ \A y \in s : Max(s) >= y
    BY <1>1 DEF Max
  <2> QED BY <2>1, <2>2
<1> QED BY <1>2

\* The fold is defined.
LEMMA FoldExists ==
    ASSUME NEW n \in Nat, NEW first, NEW entries, NEW q, NEW other
    PROVE  \E iter : iter = [s \in SUBSET (1 .. n) |-> Absorbed(iter, s, first, entries, q, other)]
<1> DEFINE Folds(m) == \E iter : iter = [s \in SUBSET (1 .. m) |-> Absorbed(iter, s, first, entries, q, other)]
           Fails == {m \in Nat : ~Folds(m)}
<1>1. Folds(0)
  <2> DEFINE iter == [s \in SUBSET (1 .. 0) |-> first]
  <2>1. \A s \in SUBSET (1 .. 0) : s = {}
    OBVIOUS
  <2>2. iter = [s \in SUBSET (1 .. 0) |-> Absorbed(iter, s, first, entries, q, other)]
    BY <2>1 DEF Absorbed
  <2> QED BY <2>2
<1>2. ASSUME NEW m \in Nat, Folds(m)
      PROVE  Folds(m + 1)
  <2>1. PICK g : g = [s \in SUBSET (1 .. m) |-> Absorbed(g, s, first, entries, q, other)]
    BY <1>2
  <2> DEFINE iter == [s \in SUBSET (1 .. m + 1) |->
                        IF m + 1 \in s THEN Absorb(g[s \ {m + 1}], entries[m + 1], q, other) ELSE g[s]]
  <2>2. ASSUME NEW s \in SUBSET (1 .. m + 1)
        PROVE  iter[s] = Absorbed(iter, s, first, entries, q, other)
    <3>1. CASE m + 1 \in s
      <4>1. Max(s) = m + 1 /\ s \ {Max(s)} \in SUBSET (1 .. m)
        BY <3>1, MaxOfInterval
      <4>2. iter[s \ {m + 1}] = g[s \ {m + 1}]
        BY <4>1
      <4>3. iter[s] = Absorb(g[s \ {m + 1}], entries[m + 1], q, other)
        BY <3>1
      <4> HIDE DEF iter
      <4> QED BY <3>1, <4>1, <4>2, <4>3 DEF Absorbed
    <3>2. CASE m + 1 \notin s
      <4>1. s \in SUBSET (1 .. m) /\ iter[s] = g[s]
        BY <3>2
      <4>2. g[s] = Absorbed(g, s, first, entries, q, other)
        BY <2>1, <4>1
      <4>3. s \ {Max(s)} \in SUBSET (1 .. m) /\ iter[s \ {Max(s)}] = g[s \ {Max(s)}]
        <5>1. PICK r : r = s \ {Max(s)}
          OBVIOUS
        <5>2. r \in SUBSET (1 .. m)
          BY ONLY <4>1, <5>1
        <5>4. r \in SUBSET (1 .. m + 1) /\ m + 1 \notin r
          BY ONLY <5>2, m \in Nat
        <5>3. iter[r] = g[r]
          BY <5>4
        <5> QED BY <5>1, <5>2, <5>3
      <4> HIDE DEF iter
      <4> QED BY <4>1, <4>2, <4>3 DEF Absorbed
    <3> QED BY <3>1, <3>2
  <2>3. iter = [s \in SUBSET (1 .. m + 1) |-> Absorbed(iter, s, first, entries, q, other)]
    BY <2>2
  <2> QED BY <2>3
<1> HIDE DEF Folds
<1>3. ASSUME Fails /= {}
      PROVE  FALSE
  <2>1. PICK m \in Fails : \A l \in Fails : m <= l
    BY <1>3, LeastElement
  <2>2. m \in Nat /\ m /= 0 /\ ~Folds(m)
    BY <1>1, <2>1
  <2>3. m - 1 \in Nat /\ m - 1 \notin Fails
    BY <2>1, <2>2
  <2> QED BY <1>2, <2>2, <2>3
<1>4. Folds(n)
  BY <1>3
<1> QED BY <1>4 DEF Folds

\* The fold over all the entries of the alias.
AbsorbedAll(first, entries, q, s) ==
    FoldLeft(LAMBDA acc, e : Absorb(acc, e, q, s), first, entries)

\* What the steps of the fold preserve, it preserves.
LEMMA FoldKeeps ==
    ASSUME NEW first, NEW base, NEW sized, Absorbing(first, base, sized),
           NEW entries, IsSeq(entries), NEW q, NEW other,
           \A f \in DOMAIN other.fees : IsTracked(other.fees[f]), sized => AreCovered(other.fees)
    PROVE  Absorbing(AbsorbedAll(first, entries, q, other), base, sized)
<1>1. PICK n \in Nat : DOMAIN entries = 1 .. n
  BY DEF IsSeq
<1> DEFINE result == AbsorbedAll(first, entries, q, other)
           Iter(i) == i = [s \in SUBSET (1 .. n) |-> Absorbed(i, s, first, entries, q, other)]
           iter == CHOOSE i : Iter(i)
<1>2. result = iter[1 .. n]
  BY <1>1 DEF AbsorbedAll, FoldLeft, MapThenFoldSet, Absorbed
<1>3. Iter(iter)
  BY FoldExists
<1> HIDE DEF iter, result
<1> DEFINE Fails == {m \in Nat : m <= n /\ \E s \in SUBSET (1 .. m) : ~Absorbing(iter[s], base, sized)}
<1>4. ASSUME Fails /= {}
      PROVE  FALSE
  <2>1. PICK m \in Fails : \A l \in Fails : m <= l
    BY <1>4, LeastElement
  <2>2. PICK s \in SUBSET (1 .. m) : ~Absorbing(iter[s], base, sized)
    BY <2>1
  <2>3. m \in Nat /\ m <= n /\ s \in SUBSET (1 .. n)
    BY <2>1
  <2>4. iter[s] = Absorbed(iter, s, first, entries, q, other)
    BY <1>3, <2>3
  <2>5. s /= {}
    BY <2>2, <2>4 DEF Absorbed
  <2>6. m - 1 \in Nat /\ m - 1 <= n /\ m - 1 \notin Fails
    <3>1. PICK e : e \in 1 .. m
      BY <2>5
    <3>2. m - 1 \in Nat /\ m - 1 <= n /\ ~(m <= m - 1)
      BY ONLY <2>3, <3>1
    <3> QED BY <2>1, <3>2
  <2>7. m \in s
    <3>1. s \notin SUBSET (1 .. m - 1)
      BY <2>2, <2>6
    <3> QED BY <2>2, <2>3, <3>1
  <2>8. Max(s) = m /\ s \ {Max(s)} \in SUBSET (1 .. m - 1)
    <3>1. (m - 1) + 1 = m
      BY <2>3
    <3> QED BY <2>6, <2>7, <3>1, MaxOfInterval
  <2>9. Absorbing(iter[s \ {Max(s)}], base, sized)
    BY <2>6, <2>8
  <2>10. iter[s] = Absorb(iter[s \ {Max(s)}], entries[Max(s)], q, other)
    BY <2>4, <2>5 DEF Absorbed
  <2> QED BY <2>2, <2>9, <2>10, AbsorbKeeps
<1>5. Absorbing(iter[1 .. n], base, sized)
  <2>1. n \notin Fails /\ n \in Nat /\ n <= n /\ (1 .. n) \in SUBSET (1 .. n)
    BY <1>4
  <2> QED BY ONLY <2>1
<1> QED BY <1>2, <1>5 DEF result

-----------------------------------------------------------------------------
\* The commissions a row knows, under each of the row's operations.

\* A fill of a row: one of its trades, or a quantity it has emitted.
IsFill(f, r) ==
    \/ \E t \in r.seen : f = TradeFill(t)
    \/ f.source /= "trade" /\ f.n \in 1 .. r.emitted

IsFilled(r) ==
    /\ \A f \in DOMAIN r.fees : IsTracked(r.fees[f]) /\ IsFill(f, r)
    /\ r.emitted = 0 => r.notional = 0
    /\ IsSeq(r.queue)

\* What a row that goes from r to next does to its fills, if the broker's trade
\* t is all it has learnt.
LEMMA FillsGrow ==
    ASSUME NEW r, NEW next, r.seen \subseteq next.seen, r.emitted \in Nat, next.emitted \in Nat,
           r.emitted <= next.emitted, NEW f, IsFill(f, r)
    PROVE  IsFill(f, next)
BY DEF IsFill

LEMMA CommissionStatus ==
    ASSUME NEW s \in Statuses, NEW a
    PROVE  /\ Commission(s, a).status \in Statuses /\ Commission(s, a).status = s
           /\ Known(Commission(s, a)) <=> s /= "unknown"
BY DEF Commission, Statuses, Known, Unknown

LEMMA TrackedStatus ==
    ASSUME NEW lots, NEW c, c.status \in Statuses
    PROVE  Tracked(lots, c).c = c /\ IsTracked(Tracked(lots, c))
BY DEF Tracked, IsTracked

LEMMA CumulatedFilled ==
    ASSUME NEW r, NEW n \in Nat, IsRow(r, n), IsFilled(r), NEW k \in 0 .. n,
           NEW source, source /= "trade", NEW key, NEW given,
           ~Lags(r, k), Delta(r, k) > 0
    PROVE  LET fill == Synthetic(source, key, k)
               c    == CumulativeFee(r, k, given)
               next == Cumulated(r, k, fill, c)
           IN  /\ IsFilled(next) /\ fill \notin DOMAIN r.fees
               /\ next.fees = Put(r.fees, fill, Tracked(Delta(r, k), c))
<1> DEFINE fill == Synthetic(source, key, k)
           c    == CumulativeFee(r, k, given)
           next == Cumulated(r, k, fill, c)
<1>1. /\ Lots[Upto(k)] \in Nat /\ Delta(r, k) = Lots[Upto(k)] - r.emitted /\ r.emitted \in Nat
  BY UptoGrows DEF Delta, IsRow
<1>2. /\ next.emitted = Lots[Upto(k)] /\ next.seen = r.seen /\ next.emitted > r.emitted
  <2> DEFINE cumulated == Cumulated(r, k, fill, c)
  <2> HIDE DEF fill, c
  <2>1. cumulated.emitted = Lots[Upto(k)] /\ cumulated.seen = r.seen
    BY CumulatedRow
  <2> QED BY <1>1, <2>1
<1>3. /\ next.fees = Put(r.fees, fill, Tracked(Delta(r, k), c))
      /\ next.queue = Append(r.queue, [fill |-> fill, lots |-> Delta(r, k)])
  BY DEF Cumulated, IsRow, RowFields
<1>4. c.status \in Statuses
  BY CommissionStatus DEF CumulativeFee, Unknown, Statuses
<1>5. fill.source = source /\ fill.n = Lots[Upto(k)]
  BY DEF Synthetic
<1> HIDE DEF next, c, fill
<1>6. fill \notin DOMAIN r.fees
  <2>1. \A t : TradeFill(t).source = "trade"
    BY DEF TradeFill
  <2>2. ~IsFill(fill, r)
    BY <1>1, <1>2, <1>5, <2>1 DEF IsFill
  <2> QED BY <2>2 DEF IsFilled
<1>7. IsFill(fill, next)
  BY <1>1, <1>2, <1>5 DEF IsFill
<1>8. \A f \in DOMAIN r.fees : IsFill(f, next)
  BY <1>1, <1>2, FillsGrow DEF IsFilled
<1>9. \A f \in DOMAIN next.fees : IsTracked(next.fees[f]) /\ IsFill(f, next)
  BY <1>3, <1>4, <1>7, <1>8, TrackedStatus DEF IsFilled, Put
<1>10. IsSeq(next.queue)
  BY <1>3, QueueAppended DEF IsFilled
<1> QED BY <1>1, <1>2, <1>3, <1>6, <1>9, <1>10 DEF IsFilled, next, c, fill

\* A correction of one of the fills of a row.
LEMMA CorrectedFilled ==
    ASSUME NEW r, DOMAIN r = RowFields, IsFilled(r), NEW k, NEW f \in DOMAIN r.fees
    PROVE  /\ IsFilled(Corrected(r, k, f)) /\ DOMAIN Corrected(r, k, f).fees = DOMAIN r.fees
           /\ Known(Corrected(r, k, f).fees[f].c)
           /\ \A g \in DOMAIN r.fees \ {f} : Corrected(r, k, f).fees[g] = r.fees[g]
<1> DEFINE c    == Commission("allocated", Fee[Upto(k)] - KnownFee(r) + r.fees[f].c.amount)
           next == Corrected(r, k, f)
<1>1. next = [r EXCEPT !.fees = Put(@, f, Tracked(r.fees[f].lots, c))]
  BY DEF Corrected
<1>2. c.status \in Statuses /\ Known(c)
  <2>1. "allocated" \in Statuses
    BY DEF Statuses
  <2> QED BY <2>1, CommissionStatus
<1> HIDE DEF c, next
<1>3. /\ next.fees = Put(r.fees, f, Tracked(r.fees[f].lots, c)) /\ next.emitted = r.emitted
      /\ next.seen = r.seen /\ next.queue = r.queue /\ next.notional = r.notional
  BY <1>1 DEF RowFields
<1>4. /\ DOMAIN next.fees = DOMAIN r.fees /\ next.fees[f].c = c
      /\ \A g \in DOMAIN r.fees \ {f} : next.fees[g] = r.fees[g]
  BY <1>2, <1>3, TrackedStatus DEF Put
<1>5. IsFilled(next)
  <2>1. IsTracked(next.fees[f])
    BY <1>2, <1>3, TrackedStatus DEF Put
  <2> QED BY <1>3, <1>4, <2>1 DEF IsFilled, IsFill
<1> QED BY <1>2, <1>4, <1>5 DEF next

\* A trade the row has not seen.
LEMMA TradedFilled ==
    ASSUME NEW r, NEW n \in Nat, IsRow(r, n), IsFilled(r), NEW t \in Upto(n), t \notin r.seen,
           NEW c, c.status \in Statuses
    PROVE  LET next == Traded(r, t, c)
           IN  /\ IsFilled(next) /\ TradeFill(t) \notin DOMAIN r.fees
               /\ next.fees = IF Fresh(r, t) > 0 THEN Put(r.fees, TradeFill(t), Tracked(Fresh(r, t), c))
                              ELSE r.fees
<1> DEFINE next == Traded(r, t, c)
<1>1. /\ next.seen = r.seen \cup {t} /\ Fresh(r, t) \in Nat /\ next.emitted = r.emitted + Fresh(r, t)
      /\ r.emitted \in Nat
  BY TradedRow DEF IsRow
<1>2. /\ next.notional = r.notional + Price(t) * Fresh(r, t)
      /\ next.queue = Trailing(r.queue, Lots[{t}])
      /\ next.fees = IF Fresh(r, t) > 0 THEN Put(r.fees, TradeFill(t), Tracked(Fresh(r, t), c))
                     ELSE r.fees
  BY DEF Traded, IsRow, RowFields
<1> HIDE DEF next
<1>3. TradeFill(t) \notin DOMAIN r.fees
  <2>1. \A u \in r.seen : TradeFill(t) /= TradeFill(u)
    BY DEF TradeFill
  <2>2. TradeFill(t).source = "trade"
    BY DEF TradeFill
  <2> QED BY <2>1, <2>2 DEF IsFilled, IsFill
<1>4. \A f \in DOMAIN r.fees : IsFill(f, next)
  BY <1>1, FillsGrow DEF IsFilled
<1>5. IsFill(TradeFill(t), next)
  BY <1>1 DEF IsFill
<1>6. \A f \in DOMAIN next.fees : IsTracked(next.fees[f]) /\ IsFill(f, next)
  BY <1>2, <1>4, <1>5, TrackedStatus DEF IsFilled, Put
<1>7. next.emitted = 0 => next.notional = 0
  <2>1. Price(t) \in Int
    <3>1. t \in Trades /\ {t} \in SUBSET Trades
      BY UptoGrows
    <3>2. Worth[{t}] \in Nat /\ Lots[{t}] \in Nat /\ Lots[{t}] > 0
      BY <3>1, MeasuresAreAdditive DEF Additive
    <3> QED BY <3>2 DEF Price
  <2>2. SUFFICES ASSUME next.emitted = 0 PROVE next.notional = 0
    OBVIOUS
  <2>3. Fresh(r, t) = 0 /\ r.notional = 0
    BY <1>1, <2>2 DEF IsFilled
  <2> QED BY <1>2, <2>1, <2>3
<1>8. IsSeq(next.queue)
  BY <1>2, QueuesTaken DEF IsFilled
<1> QED BY <1>2, <1>3, <1>6, <1>7, <1>8 DEF IsFilled, next

\* The fills that stand for trade t and are settled are fills of the row.
LEMMA AttributionFills ==
    ASSUME NEW r, NEW t, NEW c, c.status \in Statuses
    PROVE  LET a == Attribution(r, t, c)
           IN  /\ \A m \in Range(a.fixed) : m.fill \in DOMAIN r.fees
               /\ a.status \in Statuses /\ (Known(c) => a.status /= "unknown")
<1> DEFINE a == Attribution(r, t, c)
           matches   == r.matches[t]
           settled   == {i \in DOMAIN matches :
                            matches[i].fill \in DOMAIN r.fees /\ Resolved(r.fees[matches[i].fill])}
<1>1. a.fixed = Restrict(matches, settled)
  BY DEF Attribution
<1>2. a.status = "allocated" \/ a.status = c.status
  BY DEF Attribution
<1> HIDE DEF a
<1>3. \A m \in Range(a.fixed) : m.fill \in DOMAIN r.fees
  BY <1>1 DEF Restrict, Range
<1> QED BY <1>2, <1>3 DEF a, Statuses, Known

\* What a commission does to the fills of a row, and what it has told of them.
Attributes(res, r) ==
    /\ IsFilled(res.row) /\ Keeps(res.row.fees, r.fees)
    /\ DOMAIN res.corrections \subseteq DOMAIN r.fees
    /\ \A f \in DOMAIN res.corrections :
          /\ Known(res.corrections[f]) /\ res.corrections[f].status \in Statuses
          /\ f \in DOMAIN res.row.fees => Known(res.row.fees[f].c)

\* Rows that differ in their fees and matches only, and keep the commissions
\* they know.
LEMMA KeptRow ==
    ASSUME NEW r, NEW next, IsFilled(r), next.seen = r.seen, next.emitted = r.emitted,
           next.notional = r.notional, next.queue = r.queue, Keeps(next.fees, r.fees)
    PROVE  IsFilled(next)
BY DEF IsFilled, IsFill, Keeps

LEMMA UnchangedFills ==
    ASSUME NEW r, IsFilled(r)
    PROVE  /\ Attributes(Unchanged(r), r) /\ Attributes([Unchanged(r) EXCEPT !.ok = FALSE], r)
<1>1. Keeps(r.fees, r.fees)
  BY DEF Keeps, IsFilled
<1>2. DOMAIN <<>> = {}
  OBVIOUS
<1> QED BY <1>1, <1>2 DEF Attributes, Unchanged

LEMMA PutFills ==
    ASSUME NEW r, NEW next, IsFilled(r), next.seen = r.seen, next.emitted = r.emitted,
           next.notional = r.notional, next.queue = r.queue,
           NEW f \in DOMAIN r.fees, NEW lots, NEW c, c.status \in Statuses, Known(c),
           next.fees = Put(r.fees, f, Tracked(lots, c)), NEW ok
    PROVE  Attributes([row |-> next, corrections |-> Only(f, c), ok |-> ok], r)
<1>1. Keeps(next.fees, r.fees) /\ next.fees[f].c = c
  BY TrackedStatus DEF Keeps, Put, IsFilled
<1>2. IsFilled(next)
  BY <1>1, KeptRow
<1>3. DOMAIN Only(f, c) = {f} /\ Only(f, c)[f] = c
  BY DEF Only
<1> QED BY <1>1, <1>2, <1>3 DEF Attributes

LEMMA OwnFills ==
    ASSUME NEW r, DOMAIN r = RowFields, IsFilled(r), NEW t, NEW c, c.status \in Statuses, Known(c)
    PROVE  Attributes(OwnCorrected(r, t, c), r)
<1> DEFINE fill == TradeFill(t)
           lots == r.fees[fill].lots
           next == [r EXCEPT !.fees = Put(r.fees, fill, Tracked(lots, c))]
           may  == /\ fill \in DOMAIN r.fees
                   /\ \/ ~Known(r.fees[fill].c)
                      \/ c.status = "reported" /\ r.fees[fill].c.status = "allocated"
<1>1. OwnCorrected(r, t, c) =
         IF may THEN [row |-> next, corrections |-> Only(fill, c), ok |-> TRUE] ELSE Unchanged(r)
  BY DEF OwnCorrected, Changed
<1>2. /\ next.fees = Put(r.fees, fill, Tracked(lots, c)) /\ next.seen = r.seen
      /\ next.emitted = r.emitted /\ next.notional = r.notional /\ next.queue = r.queue
  BY DEF RowFields
<1>3. may => fill \in DOMAIN r.fees
  OBVIOUS
<1> HIDE DEF next, may, lots, fill
<1>4. may => Attributes([row |-> next, corrections |-> Only(fill, c), ok |-> TRUE], r)
  BY <1>2, <1>3, PutFills
<1> QED BY <1>1, <1>4, UnchangedFills

LEMMA FixedFills ==
    ASSUME NEW r, DOMAIN r = RowFields, IsFilled(r), NEW t, NEW c, c.status \in Statuses,
           NEW a, \A m \in Range(a.fixed) : m.fill \in DOMAIN r.fees
    PROVE  Attributes(FixedCorrected(r, t, c, a), r)
<1> DEFINE whole == {m.fill : m \in {n \in Range(a.fixed) : n.lots = Lots[{t}]}}
           refined == {f \in whole : r.fees[f].lots = Lots[{t}] /\ c.status = "reported"}
           fill  == CHOOSE f \in refined : TRUE
           next == [r EXCEPT !.fees = Put(r.fees, fill, Tracked(Lots[{t}], c))]
           may == refined /= {} /\ Cardinality(DOMAIN a.fixed) = 1
<1>1. FixedCorrected(r, t, c, a) =
         IF may THEN [row |-> next, corrections |-> Only(fill, c), ok |-> TRUE] ELSE Unchanged(r)
  BY DEF FixedCorrected, Changed
<1>2. may => fill \in DOMAIN r.fees /\ Known(c)
  <2>1. SUFFICES ASSUME may PROVE fill \in DOMAIN r.fees /\ Known(c)
    OBVIOUS
  <2>2. fill \in refined
    BY <2>1
  <2> HIDE DEF fill
  <2> QED BY <2>2 DEF Known
<1> HIDE DEF fill, may
<1>3. /\ next.fees = Put(r.fees, fill, Tracked(Lots[{t}], c)) /\ next.seen = r.seen
      /\ next.emitted = r.emitted /\ next.notional = r.notional /\ next.queue = r.queue
  BY DEF RowFields
<1> HIDE DEF next
<1>4. may => Attributes([row |-> next, corrections |-> Only(fill, c), ok |-> TRUE], r)
  BY <1>2, <1>3, PutFills
<1> QED BY <1>1, <1>4, UnchangedFills

LEMMA JoinedKnown ==
    ASSUME NEW old, NEW new, old.status \in Statuses, new.status \in Statuses, Known(new)
    PROVE  Joined(old, new).status \in Statuses /\ Known(Joined(old, new))
<1>1. {"reported", "allocated"} \subseteq Statuses
  BY DEF Statuses
<1> QED BY <1>1, CommissionStatus DEF Joined

\* What a fill gains from a commission: matched lots, if it has lots without one.
LEMMA ResolvingFill ==
    ASSUME NEW x, IsTracked(x), NEW e, NEW c
    PROVE  LET next == Resolving(x, e, c)
           IN  \/ Known(x.c) /\ ~Partial(x) /\ next = x
               \/ /\ ~Known(x.c) \/ Partial(x)
                  /\ DOMAIN next = {"lots", "resolved", "c"} /\ next.lots = x.lots
                  /\ next.c = Joined(x.c, c)
                  /\ next.resolved = e.lots + (IF Known(x.c) THEN x.resolved ELSE 0)
<1> DEFINE rest == e.lots + (IF Known(x.c) THEN x.resolved ELSE 0)
           next == [x EXCEPT !.resolved = rest, !.c = Joined(x.c, c)]
<1>1. Resolving(x, e, c) = IF Known(x.c) /\ ~Partial(x) THEN x ELSE next
  BY DEF Resolving
<1> HIDE DEF rest
<1>2. /\ DOMAIN next = {"lots", "resolved", "c"} /\ next.lots = x.lots
      /\ next.c = Joined(x.c, c) /\ next.resolved = rest
  BY DEF IsTracked
<1> HIDE DEF next, Known, Partial
<1>3. CASE Known(x.c) /\ ~Partial(x)
  BY <1>1, <1>3
<1>4. CASE ~(Known(x.c) /\ ~Partial(x))
  BY <1>1, <1>2, <1>4 DEF rest
<1> QED BY <1>3, <1>4

LEMMA ResolvingKnown ==
    ASSUME NEW x, IsTracked(x), NEW e, NEW c, c.status \in Statuses, Known(c)
    PROVE  IsTracked(Resolving(x, e, c)) /\ Known(Resolving(x, e, c).c)
<1>1. PICK next : next = Resolving(x, e, c)
  OBVIOUS
<1>2. CASE next = x /\ Known(x.c)
  BY <1>1, <1>2
<1>3. CASE DOMAIN next = {"lots", "resolved", "c"} /\ next.c = Joined(x.c, c)
  <2>1. x.c.status \in Statuses
    BY DEF IsTracked
  <2> QED BY <1>1, <1>3, <2>1, JoinedKnown DEF IsTracked
<1> HIDE DEF Known
<1> QED BY <1>1, <1>2, <1>3, ResolvingFill

\* A commission spread over the fills makes those it reaches known.
LEMMA SpreadFills ==
    ASSUME NEW r, DOMAIN r = RowFields, IsFilled(r), NEW t,
           NEW a, a.status \in Statuses, a.status /= "unknown"
    PROVE  Attributes(Spread(r, t, a), r)
<1> DEFINE shares == Allocate(a.rest, [i \in DOMAIN a.open |-> a.open[i].lots])
           target(i) == a.open[i].fill
           spread(i) ==
            LET c == Commission(a.status, shares[i])
            IN  IF target(i) = TradeFill(t) THEN OwnResolved(t, a, c)
                ELSE Resolving(r.fees[target(i)], a.open[i], c)
           hit  == {i \in DOMAIN a.open : target(i) \in DOMAIN r.fees}
           fees == [f \in DOMAIN r.fees |->
                       IF \E i \in hit : target(i) = f
                       THEN spread(CHOOSE i \in hit : target(i) = f) ELSE r.fees[f]]
           whole == {f \in DOMAIN fees : Resolved(fees[f]) /\ \E i \in hit : target(i) = f}
           kept == IF a.residual > 0 THEN fees ELSE Drop(fees, {TradeFill(t)})
           next == [r EXCEPT !.fees = kept]
           res  == Spread(r, t, a)
<1>1. res.row = next /\ res.corrections = [f \in whole |-> fees[f].c]
  BY Zenon DEF Spread
<1>2. ASSUME NEW i \in hit
      PROVE  IsTracked(spread(i)) /\ Known(spread(i).c)
  <2> DEFINE c == Commission(a.status, shares[i])
             tracked == r.fees[target(i)]
  <2>1. c.status \in Statuses /\ Known(c)
    BY CommissionStatus
  <2>2. IsTracked(tracked)
    BY <1>2 DEF IsFilled
  <2>3. CASE target(i) = TradeFill(t)
    <3>1. spread(i) = Tracked(a.residual, c)
      BY <2>3 DEF OwnResolved
    <3> HIDE DEF spread, c
    <3> QED BY <2>1, <3>1, TrackedStatus
  <2>4. CASE target(i) /= TradeFill(t)
    <3>1. spread(i) = Resolving(tracked, a.open[i], c)
      BY <2>4
    <3> HIDE DEF spread, c, tracked
    <3> QED BY <2>1, <2>2, <3>1, ResolvingKnown
  <2> QED BY <2>3, <2>4
<1> HIDE DEF spread
<1>3. ASSUME NEW f \in DOMAIN r.fees
      PROVE  IsTracked(fees[f]) /\ (Known(r.fees[f].c) => Known(fees[f].c))
  <2>1. CASE \E i \in hit : target(i) = f
    <3>1. PICK i \in hit : fees[f] = spread(i)
      BY <2>1
    <3> QED BY <1>2, <3>1
  <2>2. CASE ~\E i \in hit : target(i) = f
    BY <2>2 DEF IsFilled
  <2> QED BY <2>1, <2>2
<1>4. DOMAIN fees = DOMAIN r.fees
  OBVIOUS
<1>5. \A f \in whole : f \in DOMAIN r.fees /\ Known(fees[f].c)
  BY Zenon DEF Resolved
<1> HIDE DEF fees, whole
<1>6. Keeps(kept, r.fees) /\ (\A f \in DOMAIN kept : kept[f] = fees[f])
  BY <1>3, <1>4 DEF Keeps, Drop, Restrict
<1> HIDE DEF kept
<1>7. /\ next.fees = kept /\ next.seen = r.seen /\ next.emitted = r.emitted
      /\ next.notional = r.notional /\ next.queue = r.queue
  BY DEF RowFields
<1> HIDE DEF next
<1>8. IsFilled(next)
  BY <1>6, <1>7, KeptRow
<1>9. \A f \in DOMAIN res.corrections :
          /\ f \in DOMAIN r.fees /\ res.corrections[f] = fees[f].c /\ Known(fees[f].c)
          /\ fees[f].c.status \in Statuses
  BY <1>1, <1>3, <1>5 DEF IsTracked
<1> HIDE DEF res
<1> QED BY <1>1, <1>6, <1>7, <1>8, <1>9 DEF Attributes, res

\* What the commission of a trade does to the fills of its row.
LEMMA AttributedFills ==
    ASSUME NEW r, DOMAIN r = RowFields, IsFilled(r), NEW t, NEW c, c.status \in Statuses
    PROVE  Attributes(Attributed(r, t, c), r)
<1> DEFINE a    == Attribution(r, t, c)
           kept == [r EXCEPT !.matches[t] = <<>>]
<1>1. /\ DOMAIN kept = RowFields /\ kept.fees = r.fees /\ kept.seen = r.seen
      /\ kept.emitted = r.emitted /\ kept.notional = r.notional /\ kept.queue = r.queue
  BY DEF RowFields
<1>2. /\ \A m \in Range(a.fixed) : m.fill \in DOMAIN r.fees
      /\ a.status \in Statuses /\ (Known(c) => a.status /= "unknown")
  BY AttributionFills
<1> HIDE DEF a, kept
<1>3. IsFilled(kept) /\ (\A res : Attributes(res, kept) => Attributes(res, r))
  BY <1>1 DEF IsFilled, IsFill, Attributes
<1>4. Attributes(FixedCorrected(kept, t, c, a), r)
  BY <1>1, <1>2, <1>3, FixedFills
<1>5. Known(c) => Attributes(Spread(kept, t, a), r)
  BY <1>1, <1>2, <1>3, SpreadFills
<1>6. Known(c) => Attributes(OwnCorrected(r, t, c), r)
  BY OwnFills
<1>7. Attributes(Unchanged(r), r) /\ Attributes([Unchanged(r) EXCEPT !.ok = FALSE], r)
  BY UnchangedFills
<1>8. Attributed(r, t, c) = IF ~Known(c) THEN Unchanged(r)
        ELSE IF r.matches[t] = <<>> THEN OwnCorrected(r, t, c)
        ELSE IF a.residual < 0 \/ (a.open /= <<>> /\ (~a.fits \/ a.rest < 0))
             THEN [Unchanged(r) EXCEPT !.ok = FALSE]
        ELSE IF a.open = <<>> THEN FixedCorrected(kept, t, c, a)
        ELSE Spread(kept, t, a)
  BY DEF Attributed, a, kept
<1> QED BY ONLY <1>4, <1>5, <1>6, <1>7, <1>8

-----------------------------------------------------------------------------
\* The same for a trade as a whole, and for two rows that are merged.

\* What a trade does to the fills of its row, and what is told of them.
LEMMA ProjectedFills ==
    ASSUME NEW r, NEW n \in Nat, IsRow(r, n), IsFilled(r), NEW t \in Upto(n),
           NEW c, c.status \in Statuses
    PROVE  LET next == Projected(r, t, c)
               T    == Telling(r, next, t, c)
           IN  /\ IsFilled(next.row)
               /\ \A f \in DOMAIN T : f \in DOMAIN next.row.fees /\ Known(T[f]) => Known(next.row.fees[f].c)
               /\ \A f \in DOMAIN next.row.fees \ DOMAIN T :
                     f \in DOMAIN r.fees /\ (Known(r.fees[f].c) => Known(next.row.fees[f].c))
               /\ \A f \in DOMAIN T \cap DOMAIN r.fees : Known(r.fees[f].c) => Known(T[f])
               /\ \A f \in DOMAIN T : f \notin DOMAIN r.fees => f = TradeFill(t) /\ t \notin r.seen
<1> DEFINE next == Projected(r, t, c)
           T    == Telling(r, next, t, c)
           sent == SentLots(r, t)
           own  == TradeFill(t)
           mid  == IF t \in r.seen THEN r ELSE Traded(r, t, c)
           own1 == IF sent < Lots[{t}] /\ Known(c) THEN next.row.fees[own].c ELSE c
<1>1. /\ IsFilled(mid) /\ DOMAIN mid = RowFields
      /\ mid.fees = IF sent > 0 THEN Put(r.fees, own, Tracked(sent, c)) ELSE r.fees
      /\ sent > 0 => own \notin DOMAIN r.fees /\ t \notin r.seen
  <2>1. CASE t \in r.seen
    <3>1. mid = r /\ sent = 0
      BY <2>1 DEF SentLots
    <3> QED BY <3>1 DEF IsRow
  <2>2. CASE t \notin r.seen
    <3>1. mid = Traded(r, t, c) /\ sent = Fresh(r, t)
      BY <2>2 DEF SentLots
    <3> HIDE DEF mid, sent
    <3> QED BY <2>2, <3>1, TradedFilled, TradedRow DEF IsRow
  <2> QED BY <2>1, <2>2
<1>2. next = Attributed(mid, t, c)
  BY DEF Projected
<1>3. T = Over(next.corrections, IF sent > 0 THEN Only(own, own1) ELSE <<>>)
  BY DEF Telling
<1>4. own1 = c \/ own1 = next.row.fees[own].c
  OBVIOUS
<1> HIDE DEF next, mid, T, sent, own1, own
<1>5. Attributes(next, mid)
  BY <1>1, <1>2, AttributedFills
<1>6. IsFilled(next.row) /\ Keeps(next.row.fees, mid.fees)
  BY <1>5 DEF Attributes
<1>7. /\ DOMAIN T = DOMAIN next.corrections \cup (IF sent > 0 THEN {own} ELSE {})
      /\ \A f \in DOMAIN T : T[f] = IF f \in DOMAIN next.corrections THEN next.corrections[f] ELSE own1
  <2>1. DOMAIN <<>> = {}
    OBVIOUS
  <2> QED BY <1>3, <2>1 DEF Over, Only
<1>8. /\ DOMAIN mid.fees = DOMAIN r.fees \cup (IF sent > 0 THEN {own} ELSE {})
      /\ \A f \in DOMAIN r.fees : mid.fees[f] = r.fees[f]
      /\ sent > 0 => own \in DOMAIN mid.fees /\ mid.fees[own].c = c
  BY <1>1, TrackedStatus DEF Put
<1>9. ASSUME NEW f \in DOMAIN T, f \in DOMAIN next.row.fees, Known(T[f])
      PROVE  Known(next.row.fees[f].c)
  <2>1. CASE f \in DOMAIN next.corrections
    BY <1>5, <1>9, <2>1 DEF Attributes
  <2>2. CASE f \notin DOMAIN next.corrections
    <3>1. f = own /\ sent > 0 /\ Known(own1)
      BY <1>7, <1>9, <2>2
    <3> QED BY <1>4, <1>6, <1>8, <1>9, <3>1 DEF Keeps
  <2> QED BY <2>1, <2>2
<1>10. ASSUME NEW f \in DOMAIN next.row.fees \ DOMAIN T
       PROVE  f \in DOMAIN r.fees /\ (Known(r.fees[f].c) => Known(next.row.fees[f].c))
  <2>1. f \in DOMAIN mid.fees /\ (Known(mid.fees[f].c) => Known(next.row.fees[f].c))
    BY <1>6, <1>10 DEF Keeps
  <2>2. f \in DOMAIN r.fees
    BY <1>7, <1>8, <1>10, <2>1
  <2> QED BY <1>8, <2>1, <2>2
<1>11. ASSUME NEW f \in DOMAIN T \cap DOMAIN r.fees
       PROVE  Known(T[f])
  <2>1. f \in DOMAIN next.corrections
    BY <1>1, <1>7, <1>11
  <2> QED BY <1>5, <1>7, <2>1 DEF Attributes
<1>12. ASSUME NEW f \in DOMAIN T, f \notin DOMAIN r.fees
       PROVE  f = own /\ t \notin r.seen
  <2>1. f \in DOMAIN next.corrections => f \in DOMAIN mid.fees
    BY <1>5 DEF Attributes
  <2>2. f = own /\ sent > 0
    BY <1>7, <1>8, <1>12, <2>1
  <2> QED BY <1>1, <2>2
<1> QED BY <1>6, <1>9, <1>10, <1>11, <1>12 DEF next, T, own

\* A commission a merged fill had under either id stays known.
LEMMA ResizedKnown ==
    ASSUME NEW x, IsTracked(x), NEW lots
    PROVE  IsTracked(Resized(x, lots)) /\ (Known(x.c) => Known(Resized(x, lots).c))
<1> DEFINE part == Least(x.resolved * lots, lots * x.lots)
           kept == part \div x.lots
           amount == Allocate(x.c.amount, <<part, x.resolved * x.lots - part>>)[1]
           c == IF Known(x.c) THEN Commission(x.c.status, amount) ELSE x.c
<1>1. Resized(x, lots) = IF lots >= x.lots THEN [x EXCEPT !.lots = lots]
                         ELSE [lots |-> lots, resolved |-> kept, c |-> c]
  BY DEF Resized
<1>2. c.status \in Statuses /\ (Known(x.c) => Known(c))
  <2> HIDE DEF amount
  <2> QED BY CommissionStatus DEF IsTracked, Known
<1>3. IsTracked([x EXCEPT !.lots = lots]) /\ [x EXCEPT !.lots = lots].c = x.c
  BY DEF IsTracked
<1> HIDE DEF c, kept
<1> QED BY <1>1, <1>2, <1>3 DEF IsTracked

LEMMA MergedFills ==
    ASSUME NEW r, NEW s, NEW n \in Nat, IsRow(r, n), IsRow(s, n), IsFilled(r), IsFilled(s)
    PROVE  LET next == Merged(r, s)
           IN  /\ IsFilled(next)
               /\ \A f \in DOMAIN next.fees :
                     /\ f \in DOMAIN r.fees \cup DOMAIN s.fees
                     /\ \/ f \in DOMAIN r.fees /\ (Known(r.fees[f].c) => Known(next.fees[f].c))
                        \/ f \in DOMAIN s.fees /\ (Known(s.fees[f].c) => Known(next.fees[f].c))
<1> DEFINE next == Merged(r, s)
           queue == MergedQueue(r.queue, s.queue, Most(r.unmatched, s.unmatched))
           fees == [f \in DOMAIN r.fees \cup DOMAIN s.fees |->
                       IF f \notin DOMAIN r.fees
                          \/ (f \in DOMAIN s.fees /\ Stronger(s.fees[f], r.fees[f]))
                       THEN s.fees[f] ELSE r.fees[f]]
           sized == [f \in DOMAIN fees |-> IF LotsIn(queue, f) > 0
                                           THEN Resized(fees[f], LotsIn(queue, f)) ELSE fees[f]]
           first == [fees |-> sized, used |-> {}]
           last  == FoldLeft(LAMBDA acc, e : Absorb(acc, e, queue, s), first, s.queue)
<1>1. next.fees = last.fees
  BY DEF Merged
<1>2. /\ next.queue = queue /\ next.seen = r.seen \cup s.seen
      /\ next.emitted = Most(r.emitted, s.emitted) /\ next.notional = Most(r.notional, s.notional)
  BY DEF Merged
<1>3. IsSeq(queue)
  BY QueueMerged DEF IsFilled
<1> HIDE DEF next, queue, last
<1>4. /\ DOMAIN fees = DOMAIN r.fees \cup DOMAIN s.fees
      /\ \A f \in DOMAIN fees : \/ f \in DOMAIN r.fees /\ fees[f] = r.fees[f]
                                \/ f \in DOMAIN s.fees /\ fees[f] = s.fees[f]
  OBVIOUS
<1>5. \A f \in DOMAIN fees : IsTracked(fees[f])
  BY <1>4 DEF IsFilled
<1> HIDE DEF fees
<1>6. Keeps(sized, fees)
  BY <1>5, ResizedKnown DEF Keeps
<1>7. Absorbing(first, fees, FALSE)
  BY <1>6 DEF Absorbing
<1>8. Absorbing(last, fees, FALSE)
  <2>1. last = AbsorbedAll(first, s.queue, queue, s)
    BY DEF last, AbsorbedAll
  <2> HIDE DEF first
  <2> QED BY <1>7, <2>1, FoldKeeps DEF IsFilled
<1>9. Keeps(next.fees, fees)
  BY <1>1, <1>8 DEF Absorbing
<1>10. /\ r.emitted \in Nat /\ s.emitted \in Nat /\ next.emitted \in Nat
       /\ r.emitted <= next.emitted /\ s.emitted <= next.emitted
  BY <1>2 DEF IsRow, Most
<1>11. ASSUME NEW f \in DOMAIN next.fees
       PROVE  IsTracked(next.fees[f]) /\ IsFill(f, next)
  <2>1. IsTracked(next.fees[f]) /\ f \in DOMAIN fees
    BY <1>9, <1>11 DEF Keeps
  <2>2. IsFill(f, r) \/ IsFill(f, s)
    BY <1>4, <2>1 DEF IsFilled
  <2>3. r.seen \subseteq next.seen /\ s.seen \subseteq next.seen
    BY <1>2
  <2> QED BY <1>10, <2>1, <2>2, <2>3, FillsGrow
<1>12. next.emitted = 0 => next.notional = 0
  BY <1>2, <1>10 DEF IsFilled, Most
<1>13. IsFilled(next)
  BY <1>2, <1>3, <1>11, <1>12 DEF IsFilled
<1>14. ASSUME NEW f \in DOMAIN next.fees
       PROVE  /\ f \in DOMAIN r.fees \cup DOMAIN s.fees
              /\ \/ f \in DOMAIN r.fees /\ (Known(r.fees[f].c) => Known(next.fees[f].c))
                 \/ f \in DOMAIN s.fees /\ (Known(s.fees[f].c) => Known(next.fees[f].c))
  BY <1>4, <1>9, <1>14 DEF Keeps
<1> QED BY <1>13, <1>14 DEF next

-----------------------------------------------------------------------------
\* What the rows, the copy of a snapshot and the host know of commissions.

\* Where row r knows less than c, c does not know either.
AsKnown(r, c) == \A f \in DOMAIN r.fees \cap DOMAIN c : Known(c[f]) => Known(r.fees[f].c)

Torn(rs) == rs["order"].emitted > 0 /\ rs["child"].emitted > 0

RowsKnow ==
    /\ \A id \in Ids : IsFilled(rows[id])
    /\ ~split => \A id \in Ids : AsKnown(rows[id], told)

\* The task in the gate is about to publish trade t under another id than id.
Elsewhere(id, t) ==
    /\ task.at \in {"resolved", "publishing", "keyed"} /\ task.key /= id
    /\ task.at /= "keyed" => t \in Upto(task.k)

\* Before the alias is known, a row has seen the trades of its own id.
InOwnRow ==
    /\ ~split /\ ~alias =>
          \A id \in Ids : \A t \in rows[id].seen : orderOf[t] = id \/ Elsewhere(id, t)
    /\ task.at = "keyed" /\ ~alias => orderOf[task.t] = task.key
    /\ linker /= "idle" => alias
    /\ task.at \in {"resolved", "publishing"} => task.source \in Sources

\* The copy of a snapshot knows what the host was told, and will be.
CopyKnows ==
    task.at = "staging" =>
        /\ \A id \in Ids : IsFilled(task.staged[id])
        /\ Seen(rows) \subseteq Seen(task.staged)
        /\ ~split /\ ~Torn(task.staged) => \A id \in Ids :
              /\ AsKnown(task.staged[id], Over(task.c, told))
              /\ \A f \in DOMAIN rows[id].fees \cap DOMAIN told \cap DOMAIN task.c :
                    Known(told[f]) => Known(task.c[f])
        /\ ~split /\ ~alias => \A id \in Ids : \A t \in task.staged[id].seen : orderOf[t] = id

Knows == RowsKnow /\ InOwnRow /\ CopyKnows

StaysKnown ==
    ~split' /\ told' /= told =>
        \A f \in DOMAIN told :
            Known(told[f]) /\ (\E id \in Ids : f \in DOMAIN rows[id].fees) => Known(told'[f])

\* A row that has seen a trade, or published a fill, has emitted lots.
LEMMA SeenEmits ==
    ASSUME NEW r, NEW n \in Nat, IsRow(r, n), Exact(r, n), NEW t \in r.seen
    PROVE  r.emitted > 0
<1>1. t \in Trades /\ {t} \in SUBSET Trades /\ {t} \subseteq r.seen /\ r.seen \in SUBSET Trades
  BY RowWeight
<1>2. Lots[{t}] > 0 /\ Lots[{t}] <= Lots[r.seen] /\ Lots[{t}] \in Nat /\ Lots[r.seen] \in Nat
  BY <1>1, LotsMeasure
<1>3. Lots[r.seen] <= Weight(r) /\ Weight(r) \in Nat /\ r.emitted = Weight(r)
  BY RowWeight DEF Exact
<1> QED BY <1>2, <1>3

LEMMA FillsEmit ==
    ASSUME NEW r, NEW n \in Nat, IsRow(r, n), Exact(r, n), IsFilled(r), NEW f \in DOMAIN r.fees
    PROVE  r.emitted > 0
<1>1. IsFill(f, r) /\ r.emitted \in Nat
  BY DEF IsFilled, IsRow
<1>2. (\E t \in r.seen : f = TradeFill(t)) => r.emitted > 0
  BY SeenEmits
<1> QED BY <1>1, <1>2 DEF IsFill

\* A row that has emitted lots has the fills and the trades to itself.
LEMMA OtherRow ==
    ASSUME Inv, RowsKnow, NEW id \in Ids, NEW next, NEW lots, NEW c,
           Commit([rows EXCEPT ![id] = next], lots, c), ~split', next.emitted > 0,
           NEW other \in Ids, other /= id
    PROVE  rows[other].seen = {} /\ DOMAIN rows[other].fees = {}
<1>1. ~split /\ ~(rows'["order"].emitted > 0 /\ rows'["child"].emitted > 0)
      /\ rows' = [rows EXCEPT ![id] = next] /\ DOMAIN rows = Ids
  BY DEF Commit, Inv, IsAccount, IsPair
<1>2. rows'[id] = next /\ rows'[other] = rows[other]
  BY <1>1
<1>3. ~(rows[other].emitted > 0)
  BY <1>1, <1>2 DEF Ids
<1>4. IsRow(rows[other], executed) /\ Exact(rows[other], executed) /\ executed \in Nat
      /\ IsFilled(rows[other])
  BY <1>1 DEF Inv, IsAccount, IsPair, ExactPair, Ids, RowsKnow
<1> QED BY <1>3, <1>4, SeenEmits, FillsEmit

\* A row committed with what was told of its fills.
LEMMA CommitKnows ==
    ASSUME Inv, RowsKnow, NEW id \in Ids, NEW next, NEW lots, NEW c,
           Commit([rows EXCEPT ![id] = next], lots, c), IsFilled(next),
           \A f \in DOMAIN c : f \in DOMAIN next.fees /\ Known(c[f]) => Known(next.fees[f].c),
           \A f \in DOMAIN next.fees \ DOMAIN c :
              f \in DOMAIN rows[id].fees /\ (Known(rows[id].fees[f].c) => Known(next.fees[f].c)),
           \A f \in DOMAIN c \cap DOMAIN rows[id].fees :
              Known(rows[id].fees[f].c) => Known(c[f]),
           ~split' => \A f \in DOMAIN c : \A other \in Ids \ {id} : f \notin DOMAIN rows[other].fees
    PROVE  RowsKnow' /\ StaysKnown
<1>1. /\ rows' = [rows EXCEPT ![id] = next] /\ told' = Over(c, told) /\ (~split' => ~split)
      /\ DOMAIN rows = Ids
  BY DEF Commit, Inv, IsAccount, IsPair
<1>2. rows'[id] = next /\ \A other \in Ids \ {id} : rows'[other] = rows[other]
  BY <1>1
<1>3. DOMAIN told' = DOMAIN c \cup DOMAIN told
      /\ \A f \in DOMAIN told' : told'[f] = IF f \in DOMAIN c THEN c[f] ELSE told[f]
  BY <1>1 DEF Over
<1>4. \A j \in Ids : IsFilled(rows'[j])
  BY <1>2 DEF RowsKnow
<1>5. ASSUME ~split', NEW j \in Ids
      PROVE  AsKnown(rows'[j], told')
  <2>1. CASE j = id
    BY <1>1, <1>2, <1>3, <1>5, <2>1 DEF AsKnown, RowsKnow
  <2>2. CASE j /= id
    BY <1>1, <1>2, <1>3, <1>5, <2>2 DEF AsKnown, RowsKnow
  <2> QED BY <2>1, <2>2
<1>6. ASSUME ~split', NEW f \in DOMAIN told, Known(told[f]), NEW j \in Ids, f \in DOMAIN rows[j].fees
      PROVE  Known(told'[f])
  BY <1>1, <1>3, <1>6 DEF AsKnown, RowsKnow
<1> QED BY <1>4, <1>5, <1>6 DEF RowsKnow, StaysKnown

\* What an action that leaves the rows and what was told alone has to keep.
LEMMA SameRows ==
    ASSUME RowsKnow, UNCHANGED <<rows, told, split>>
    PROVE  RowsKnow' /\ StaysKnown
BY DEF RowsKnow, StaysKnown, AsKnown

-----------------------------------------------------------------------------
\* Each action keeps it.  The actions before the ledger is written.

\* The account before and after an action.
IsStep == Inv /\ IsMapped /\ Inv' /\ Knows

LEMMA CopyIdle ==
    ASSUME task' = Idle
    PROVE  CopyKnows' /\ task'.at = "idle"
BY DEF CopyKnows, Idle

\* While the task is not one that projects, each row has its own trades.
LEMMA OwnTrades ==
    ASSUME InOwnRow, ~split, ~alias, task.at \notin {"resolved", "publishing", "keyed"},
           NEW id \in Ids, NEW t \in rows[id].seen
    PROVE  orderOf[t] = id
BY DEF InOwnRow, Elsewhere

\* A state of trades that the other row has seen will be published: it is
\* neither late nor at odds with what this row has published, which is nothing.
LEMMA Tearing ==
    ASSUME Inv, Knows, ~split, ~alias, task.at \in {"resolved", "publishing"},
           NEW id \in Ids, NEW t \in rows[id].seen, orderOf[t] /= id
    PROVE  /\ Delta(rows[task.key], task.k) > 0 /\ ~Lags(rows[task.key], task.k)
           /\ ~Regressed(rows[task.key], task.k) /\ task.key /= id
<1> DEFINE row == rows[task.key]
           n == Lots[Upto(task.k)]
<1>1. task.key /= id /\ t \in Upto(task.k)
  BY DEF Knows, InOwnRow, Elsewhere
<1>2. /\ task.key \in Ids /\ task.k \in 1 .. executed /\ IsRow(row, executed) /\ executed \in Nat
      /\ n \in Nat
  BY StateRow
<1>3. /\ IsRow(rows[id], executed) /\ Exact(rows[id], executed) /\ Exact(row, executed)
      /\ InOneRow /\ IsFilled(row)
  BY <1>2 DEF Inv, IsAccount, IsPair, ExactPair, Ids, Knows, RowsKnow
<1>4. rows[id].emitted > 0
  BY <1>2, <1>3, SeenEmits
<1>5. row.emitted = 0
  BY <1>1, <1>2, <1>3, <1>4 DEF InOneRow, Ids, IsRow
<1>6. row.cum = 0 /\ row.notional = 0
  BY <1>2, <1>3, <1>5 DEF IsRow, IsFilled
<1>7. n > 0
  <2>1. t \in Trades /\ {t} \subseteq Upto(task.k) /\ Upto(task.k) \in SUBSET Trades /\ {t} \in SUBSET Trades
    BY <1>1, UptoGrows DEF Upto
  <2>2. Lots[{t}] > 0 /\ Lots[{t}] <= n /\ Lots[{t}] \in Nat
    BY <2>1, LotsMeasure
  <2> QED BY <1>2, <2>2
<1>8. Worth[Upto(task.k)] \in Nat
  <2>1. Upto(task.k) \in SUBSET Trades
    BY DEF Upto
  <2> QED BY <2>1, MeasuresAreAdditive DEF Additive
<1> HIDE DEF row, n
<1>9. Delta(row, task.k) > 0
  BY <1>2, <1>5, <1>7 DEF Delta, n
<1>10. ~Lags(row, task.k)
  BY <1>2, <1>5, <1>6, <1>7 DEF Lags, n, Most
<1>11. ~Regressed(row, task.k)
  BY <1>6, <1>8 DEF Regressed
<1> QED BY <1>1, <1>9, <1>10, <1>11 DEF row

LEMMA ExecuteKnows ==
    ASSUME IsStep, Execute
    PROVE  Knows' /\ StaysKnown
<1>1. UNCHANGED <<alias, orderOf, rows, task, linker, told, split>>
  BY DEF Execute
<1> QED BY <1>1, SameRows DEF IsStep, Knows, InOwnRow, Elsewhere, CopyKnows, AsKnown

LEMMA StateResolvedKnows ==
    ASSUME IsStep, NEW source \in Sources, NEW id \in Ids, NEW k, NEW given,
           StateResolved(source, id, k, given)
    PROVE  Knows' /\ StaysKnown
<1> DEFINE ts == IF source = "submit" THEN {} ELSE Upto(k)
<1>1. /\ UNCHANGED <<alias, rows, linker, told, split>> /\ task.at = "idle"
      /\ task' = [at |-> "resolved", key |-> ProjectedId(source, id), source |-> source,
                   k |-> k, given |-> given]
      /\ orderOf' = [t \in Trades |-> IF t \in ts THEN Canonical(id) ELSE orderOf[t]]
  BY DEF StateResolved, Take, MapTrades
<1>2. task'.at = "resolved" /\ task'.key = ProjectedId(source, id) /\ task'.k = k
      /\ task'.source = source
  BY <1>1
<1>3. CopyKnows'
  BY <1>2 DEF CopyKnows
<1>4. ASSUME ~split', ~alias', NEW j \in Ids, NEW t \in rows'[j].seen
      PROVE  orderOf'[t] = j \/ Elsewhere(j, t)'
  <2>1. t \in Trades
    <3>1. IsRow(rows[j], executed) /\ executed \in Nat
      BY DEF IsStep, Inv, IsAccount, IsPair, Ids
    <3> QED BY <1>1, <1>4, <3>1, RowWeight
  <2>2. orderOf[t] = j
    BY <1>1, <1>4, OwnTrades DEF IsStep, Knows
  <2>3. ProjectedId(source, id) = id /\ Canonical(id) = id
    BY <1>1, <1>4 DEF ProjectedId, Canonical
  <2>4. CASE t \in ts /\ id /= j
    <3>1. t \in Upto(k)
      BY <2>4
    <3> QED BY <1>2, <2>3, <2>4, <3>1 DEF Elsewhere
  <2>5. CASE ~(t \in ts /\ id /= j)
    BY <1>1, <2>1, <2>2, <2>3, <2>5
  <2> QED BY <2>4, <2>5
<1>5. InOwnRow'
  BY <1>1, <1>2, <1>4 DEF InOwnRow, IsStep, Knows
<1> QED BY <1>1, <1>3, <1>5, SameRows DEF IsStep, Knows

LEMMA TradeKeyedKnows ==
    ASSUME IsStep, NEW id \in Ids, NEW t \in Upto(executed), TradeKeyed(id, t)
    PROVE  Knows' /\ StaysKnown
<1>1. /\ UNCHANGED <<alias, rows, linker, told, split>> /\ task.at = "idle"
      /\ task' = [at |-> "keyed", key |-> Canonical(id), t |-> t]
      /\ orderOf' = [u \in Trades |-> IF u \in {t} THEN id ELSE orderOf[u]]
  BY DEF TradeKeyed, Take, MapTrades
<1>2. task'.at = "keyed" /\ task'.key = Canonical(id) /\ task'.t = t
  BY <1>1
<1>3. CopyKnows'
  BY <1>2 DEF CopyKnows
<1>4. ASSUME ~split', ~alias', NEW j \in Ids, NEW u \in rows'[j].seen
      PROVE  orderOf'[u] = j \/ Elsewhere(j, u)'
  <2>1. u \in Trades
    <3>1. IsRow(rows[j], executed) /\ executed \in Nat
      BY DEF IsStep, Inv, IsAccount, IsPair, Ids
    <3> QED BY <1>1, <1>4, <3>1, RowWeight
  <2>2. orderOf[u] = j
    BY <1>1, <1>4, OwnTrades DEF IsStep, Knows
  <2>3. Canonical(id) = id
    BY <1>1, <1>4 DEF Canonical
  <2>4. CASE u = t /\ id /= j
    BY <1>2, <2>3, <2>4 DEF Elsewhere
  <2>5. CASE ~(u = t /\ id /= j)
    BY <1>1, <2>1, <2>2, <2>5
  <2> QED BY <2>4, <2>5
<1>5. ~alias' => orderOf'[task'.t] = task'.key
  <2>1. t \in Trades
    BY DEF Upto
  <2> QED BY <1>1, <1>2, <2>1 DEF Canonical
<1>6. InOwnRow'
  BY <1>1, <1>4, <1>5 DEF InOwnRow, IsStep, Knows
<1> QED BY <1>1, <1>3, <1>6, SameRows DEF IsStep, Knows

LEMMA StateRegressedKnows ==
    ASSUME IsStep, StateRegressed
    PROVE  Knows' /\ StaysKnown
<1>1. /\ UNCHANGED <<alias, orderOf, rows, linker, told, split>> /\ task.at = "resolved"
      /\ task' = Idle /\ Regressed(rows[task.key], task.k)
  BY DEF StateRegressed
<1>2. InOwnRow'
  <2>1. ASSUME ~split, ~alias, NEW id \in Ids, NEW t \in rows[id].seen
        PROVE  orderOf[t] = id
    BY <1>1, <2>1, Tearing DEF IsStep
  <2> QED BY <1>1, <2>1, CopyIdle DEF InOwnRow, IsStep, Knows
<1> QED BY <1>1, <1>2, CopyIdle, SameRows DEF IsStep, Knows

LEMMA StateStagedKnows ==
    ASSUME IsStep, StateStaged
    PROVE  Knows' /\ StaysKnown
<1>1. /\ UNCHANGED <<alias, orderOf, rows, linker, told, split>> /\ task.at = "resolved"
      /\ task' = [task EXCEPT !.at = "publishing"]
  BY DEF StateStaged
<1>2. DOMAIN task = {"at", "key", "source", "k", "given"}
  BY <1>1, Projecting DEF IsProjecting, IsStep
<1>3. task'.at = "publishing" /\ task'.key = task.key /\ task'.k = task.k /\ task'.source = task.source
  BY <1>1, <1>2
<1>4. InOwnRow'
  BY <1>1, <1>3 DEF InOwnRow, Elsewhere, IsStep, Knows
<1> QED BY <1>1, <1>3, <1>4, SameRows DEF IsStep, Knows, CopyKnows

LEMMA StateIgnoredKnows ==
    ASSUME IsStep, StateIgnored
    PROVE  Knows' /\ StaysKnown
<1> DEFINE row  == rows[task.key]
           next == [row EXCEPT !.cum = Most(@, Lots[Upto(task.k)])]
<1>1. /\ task.key \in Ids /\ IsRow(row, executed) /\ DOMAIN rows = Ids /\ IsFilled(row)
  BY StateRow DEF StateIgnored, IsStep, Knows, RowsKnow
<1>2. [rows EXCEPT ![task.key].cum = Most(@, Lots[Upto(task.k)])] = [rows EXCEPT ![task.key] = next]
  OBVIOUS
<1>3. /\ Commit([rows EXCEPT ![task.key] = next], 0, <<>>) /\ task.at = "resolved"
      /\ task' = Idle /\ UNCHANGED <<alias, orderOf, linker>>
      /\ Lags(row, task.k) \/ Delta(row, task.k) <= 0
  BY <1>2 DEF StateIgnored
<1>4. /\ next.fees = row.fees /\ next.emitted = row.emitted /\ next.seen = row.seen
      /\ next.notional = row.notional /\ next.queue = row.queue
  BY <1>1 DEF IsRow, RowFields
<1>5. IsFilled(next)
  BY <1>1, <1>4 DEF IsFilled, IsFill
<1> HIDE DEF next
<1>6. RowsKnow' /\ StaysKnown
  <2>1. DOMAIN <<>> = {}
    OBVIOUS
  <2> QED BY <1>1, <1>3, <1>4, <1>5, <2>1, CommitKnows DEF IsStep, Knows
<1>7. (~split' => ~split) /\ \A id \in Ids : rows'[id].seen = rows[id].seen
  BY <1>1, <1>3, <1>4 DEF Commit
<1>8. InOwnRow'
  <2>1. ASSUME ~split, ~alias, NEW id \in Ids, NEW t \in rows[id].seen
        PROVE  orderOf[t] = id
    <3>1. Delta(row, task.k) \in Int
      BY <1>1, UptoGrows, StateRow, <1>3 DEF Delta, IsRow, IsStep
    <3> QED BY <1>3, <2>1, <3>1, Tearing DEF IsStep
  <2> QED BY <1>3, <1>7, <2>1, CopyIdle DEF InOwnRow, IsStep, Knows
<1> QED BY <1>3, <1>6, <1>8, CopyIdle DEF Knows

-----------------------------------------------------------------------------
\* The publication of a state, and of a trade.

\* A projecting task that ends with its row's lots emitted leaves each row with
\* the trades of its own id.
LEMMA EndsInOwnRow ==
    ASSUME IsStep, task.at \in {"resolved", "publishing", "keyed"}, task.key \in Ids,
           NEW next, NEW lots, NEW c, Commit([rows EXCEPT ![task.key] = next], lots, c),
           ~split' => next.emitted > 0, task' = Idle, UNCHANGED <<alias, orderOf, linker>>,
           \A t \in next.seen : t \in rows[task.key].seen \/ (~alias => orderOf[t] = task.key)
    PROVE  InOwnRow'
<1>1. /\ rows' = [rows EXCEPT ![task.key] = next] /\ (~split' => ~split) /\ DOMAIN rows = Ids
  BY DEF Commit, IsStep, Inv, IsAccount, IsPair
<1>2. rows'[task.key] = next /\ \A other \in Ids \ {task.key} : rows'[other] = rows[other]
  BY <1>1
<1>3. ASSUME ~split', ~alias', NEW id \in Ids, NEW t \in rows'[id].seen
      PROVE  orderOf'[t] = id
  <2>1. CASE id = task.key
    <3>1. t \in rows[id].seen => orderOf[t] = id
      BY <1>1, <1>3, <2>1 DEF IsStep, Knows, InOwnRow, Elsewhere
    <3> QED BY <1>2, <1>3, <2>1, <3>1
  <2>2. CASE id /= task.key
    <3>1. rows[id].seen = {}
      BY <1>3, <2>2, OtherRow DEF IsStep, Knows
    <3> QED BY <1>2, <1>3, <2>2, <3>1
  <2> QED BY <2>1, <2>2
<1> QED BY <1>3, CopyIdle DEF InOwnRow, IsStep, Knows

LEMMA StatePublishedKnows ==
    ASSUME IsStep, StatePublished
    PROVE  Knows' /\ StaysKnown
<1> DEFINE row == rows[task.key]
           n   == Lots[Upto(task.k)]
<1>1. /\ task.key \in Ids /\ task.k \in 1 .. executed /\ IsRow(row, executed) /\ executed \in Nat
      /\ DOMAIN rows = Ids /\ IsFilled(row) /\ n \in Nat
  BY StateRow DEF StatePublished, IsStep, Knows, RowsKnow
<1>2. /\ task.at = "publishing" /\ task' = Idle /\ UNCHANGED <<alias, orderOf, linker>>
  BY DEF StatePublished
<1>3. DOMAIN task = {"at", "key", "source", "k", "given"} /\ ~Lags(row, task.k)
  BY <1>2, Projecting DEF IsProjecting, IsStep
<1>4. CASE PublishDelta
  <2> DEFINE fill == Synthetic(task.source, task.key, task.k)
             c    == CumulativeFee(row, task.k, task.given)
             next == Cumulated(row, task.k, fill, c)
  <2>1. /\ Delta(row, task.k) > 0
        /\ Commit([rows EXCEPT ![task.key] = next], Delta(row, task.k), Only(fill, c))
    BY <1>4 DEF PublishDelta
  <2>2. task.k \in 0 .. executed /\ task.source /= "trade"
    BY <1>1, <1>2, FillLedgerAssumption DEF IsStep, Knows, InOwnRow
  <2>3. /\ IsFilled(next) /\ fill \notin DOMAIN row.fees
        /\ next.fees = Put(row.fees, fill, Tracked(Delta(row, task.k), c))
    BY <1>1, <1>3, <2>1, <2>2, CumulatedFilled
  <2>4. next.emitted > 0 /\ next.seen = row.seen
    <3> HIDE DEF row, fill, c
    <3>1. next.emitted = row.emitted + Delta(row, task.k) /\ Delta(row, task.k) \in Nat
          /\ next.seen = row.seen
      BY <1>1, <1>3, <2>1, <2>2, CumulatedRow DEF row
    <3> QED BY <1>1, <2>1, <3>1 DEF IsRow
  <2> HIDE DEF next, fill, c
  <2> DEFINE T == Only(fill, c)
  <2>5. DOMAIN T = {fill} /\ T[fill] = c
    BY DEF Only
  <2> HIDE DEF T
  <2>6. /\ next.fees[fill].c = c
        /\ \A f \in DOMAIN next.fees \ {fill} : f \in DOMAIN row.fees /\ next.fees[f] = row.fees[f]
    BY <2>3 DEF Put, Tracked
  <2>7. ~split' => \A other \in Ids \ {task.key} : DOMAIN rows[other].fees = {}
    BY <1>1, <2>1, <2>4, OtherRow DEF IsStep, Knows
  <2>8. RowsKnow' /\ StaysKnown
    <3>1. \A f \in DOMAIN T : f \in DOMAIN next.fees /\ Known(T[f]) => Known(next.fees[f].c)
      BY <2>5, <2>6
    <3>2. \A f \in DOMAIN next.fees \ DOMAIN T :
            f \in DOMAIN row.fees /\ (Known(row.fees[f].c) => Known(next.fees[f].c))
      BY <2>5, <2>6
    <3>3. \A f \in DOMAIN T \cap DOMAIN row.fees : Known(row.fees[f].c) => Known(T[f])
      BY <2>3, <2>5
    <3>4. Commit([rows EXCEPT ![task.key] = next], Delta(row, task.k), T)
      BY <2>1 DEF T
    <3> QED BY <1>1, <2>3, <2>7, <3>1, <3>2, <3>3, <3>4, CommitKnows DEF IsStep, Knows
  <2>9. InOwnRow'
    BY <1>1, <1>2, <2>1, <2>4, EndsInOwnRow
  <2> QED BY <1>2, <2>8, <2>9, CopyIdle DEF Knows
<1>5. CASE PublishCorrection
  <2>1. PICK f \in Correctable([row EXCEPT !.cum = n], task.k, task.given) :
           LET next == Corrected([row EXCEPT !.cum = n], task.k, f)
           IN  Commit([rows EXCEPT ![task.key] = next], 0, Only(f, next.fees[f].c))
    BY <1>5 DEF PublishCorrection
  <2> DEFINE next == Corrected([row EXCEPT !.cum = n], task.k, f)
  <2>2. f \in DOMAIN row.fees
    BY <1>1 DEF Correctable, IsRow, RowFields
  <2>3. /\ IsFilled(next) /\ DOMAIN next.fees = DOMAIN row.fees /\ Known(next.fees[f].c)
        /\ \A g \in DOMAIN row.fees \ {f} : next.fees[g] = row.fees[g]
    <3> DEFINE base == [row EXCEPT !.cum = n]
    <3>1. /\ DOMAIN base = RowFields /\ base.fees = row.fees /\ base.emitted = row.emitted
          /\ base.seen = row.seen /\ base.notional = row.notional /\ base.queue = row.queue
      BY <1>1 DEF IsRow, RowFields
    <3>2. next = Corrected(base, task.k, f)
      OBVIOUS
    <3> HIDE DEF base, next
    <3>3. IsFilled(base)
      BY <1>1, <3>1 DEF IsFilled, IsFill
    <3> QED BY <2>2, <3>1, <3>2, <3>3, CorrectedFilled
  <2>4. next.emitted = row.emitted /\ next.seen = row.seen
    BY <1>1 DEF Corrected, IsRow, RowFields
  <2>5. Commit([rows EXCEPT ![task.key] = next], 0, Only(f, next.fees[f].c))
    BY <2>1
  <2> HIDE DEF next
  <2>6. ~split' => next.emitted > 0
    <3>1. ~split' => ~split
      BY <2>5 DEF Commit
    <3>2. ~split => Exact(row, executed)
      BY <1>1 DEF IsStep, Inv, IsAccount, ExactPair, Ids
    <3> QED BY <1>1, <2>2, <2>4, <3>1, <3>2, FillsEmit
  <2> DEFINE T == Only(f, next.fees[f].c)
  <2>7. DOMAIN T = {f} /\ T[f] = next.fees[f].c
    BY DEF Only
  <2>8. ~split' => \A other \in Ids \ {task.key} : DOMAIN rows[other].fees = {}
    BY <1>1, <2>5, <2>6, OtherRow DEF IsStep, Knows
  <2>9. RowsKnow' /\ StaysKnown
    <3>1. Commit([rows EXCEPT ![task.key] = next], 0, T)
      BY <2>5
    <3> HIDE DEF T
    <3>2. \A g \in DOMAIN T : g \in DOMAIN next.fees /\ Known(T[g]) => Known(next.fees[g].c)
      BY <2>7
    <3>3. \A g \in DOMAIN next.fees \ DOMAIN T :
            g \in DOMAIN row.fees /\ (Known(row.fees[g].c) => Known(next.fees[g].c))
      BY <2>3, <2>7
    <3>4. \A g \in DOMAIN T \cap DOMAIN row.fees : Known(row.fees[g].c) => Known(T[g])
      BY <2>3, <2>7
    <3> QED BY <1>1, <2>3, <2>8, <3>1, <3>2, <3>3, <3>4, CommitKnows DEF IsStep, Knows
  <2>10. InOwnRow'
    BY <1>1, <1>2, <2>4, <2>5, <2>6, EndsInOwnRow
  <2> QED BY <1>2, <2>9, <2>10, CopyIdle DEF Knows
<1> QED BY <1>4, <1>5 DEF StatePublished

LEMMA TradePublishedKnows ==
    ASSUME IsStep, TradePublished
    PROVE  Knows' /\ StaysKnown
<1> DEFINE row  == rows[task.key]
           next == Projected(row, task.t, Unknown)
           T    == Telling(row, next, task.t, Unknown)
           lots == SentLots(row, task.t)
<1>1. /\ task.at = "keyed" /\ task' = Idle /\ UNCHANGED <<executed, alias, orderOf, linker>>
      /\ Commit([rows EXCEPT ![task.key] = next.row], lots, T)
  BY DEF TradePublished
<1>2. task.key \in Ids /\ task.t \in Upto(executed)
  BY <1>1, Projecting DEF IsProjecting, IsStep
<1>3. IsRow(row, executed) /\ executed \in Nat /\ IsFilled(row) /\ DOMAIN rows = Ids
  BY <1>2 DEF IsStep, Inv, IsAccount, IsPair, Ids, Knows, RowsKnow
<1>4. next.row.seen = row.seen \cup {task.t}
  BY <1>2, <1>3, ProjectedRow
<1>5. Unknown.status \in Statuses
  BY DEF Unknown, Statuses
<1>6. /\ IsFilled(next.row)
      /\ \A f \in DOMAIN T : f \in DOMAIN next.row.fees /\ Known(T[f]) => Known(next.row.fees[f].c)
      /\ \A f \in DOMAIN next.row.fees \ DOMAIN T :
            f \in DOMAIN row.fees /\ (Known(row.fees[f].c) => Known(next.row.fees[f].c))
      /\ \A f \in DOMAIN T \cap DOMAIN row.fees : Known(row.fees[f].c) => Known(T[f])
  <2> HIDE DEF row
  <2> QED BY <1>2, <1>3, <1>5, ProjectedFills
<1> HIDE DEF next, T, lots
<1>7. ~split' => next.row.emitted > 0
  <2>1. rows'[task.key] = next.row
    BY <1>1, <1>2, <1>3 DEF Commit
  <2>2. ~split' => IsRow(next.row, executed) /\ Exact(next.row, executed)
    BY <1>1, <1>2, <2>1 DEF IsStep, Inv, IsAccount, IsPair, ExactPair, Ids
  <2> QED BY <1>3, <1>4, <2>2, SeenEmits
<1>8. ~split' => \A other \in Ids \ {task.key} : DOMAIN rows[other].fees = {}
  BY <1>1, <1>2, <1>7, OtherRow DEF IsStep, Knows
<1>9. RowsKnow' /\ StaysKnown
  BY <1>1, <1>2, <1>6, <1>8, CommitKnows DEF IsStep, Knows
<1>10. InOwnRow'
  <2>1. ~alias => orderOf[task.t] = task.key
    BY <1>1 DEF IsStep, Knows, InOwnRow
  <2>2. \A t \in next.row.seen : t \in rows[task.key].seen \/ (~alias => orderOf[t] = task.key)
    BY <1>4, <2>1
  <2> QED BY <1>1, <1>2, <1>7, <2>2, EndsInOwnRow
<1> QED BY <1>1, <1>9, <1>10, CopyIdle DEF Knows

-----------------------------------------------------------------------------
\* The commission of an operation, and the taking of a snapshot.

\* The commission an operation gives a trade has one of the statuses.
LEMMA OperationStatus ==
    ASSUME NEW t, NEW n, NEW c \in OperationFees(t, n)
    PROVE  c.status \in Statuses
<1>1. "allocated" \in Statuses /\ "reported" \in Statuses /\ Unknown.status \in Statuses
  BY DEF Statuses, Unknown
<1>2. c = Unknown \/ \E s \in {"allocated", "reported"} : c = Commission(s, Fee[{t}])
  <2>1. PICK s : s = IF Cardinality(Operation(t, n)) > 1 THEN "allocated" ELSE "reported"
    OBVIOUS
  <2>2. c \in {Commission(s, Fee[{t}])} \cup {Unknown : u \in Untold \cap {t}}
    BY <2>1 DEF OperationFees
  <2> QED BY <2>1, <2>2
<1> QED BY <1>1, <1>2, CommissionStatus

\* A snapshot only tells of trades of a known order.
LEMMA MappedOrder ==
    ASSUME IsMapped, NEW k \in Int, NEW t \in MappedTrades(k)
    PROVE  orderOf[t] \in Ids
<1>1. t \in Operation(t, k) /\ t \in Trades
  BY DEF Operation, MappedTrades, Upto
<1> QED BY <1>1 DEF IsMapped, MappedTrades

\* A report tells of the fill of a trade that no row but its own has.
LEMMA ProvenanceAlone ==
    ASSUME IsStep, NEW t \in Upto(executed), NEW c, ProvenanceTold(t, c), ~split',
           NEW other \in Ids \ {Canonical(orderOf[t])}
    PROVE  TradeFill(t) \notin DOMAIN rows[other].fees
<1> DEFINE id   == Canonical(orderOf[t])
           own  == TradeFill(t)
           next == Refined(rows[id], t, c)
<1>1. SUFFICES ASSUME own \in DOMAIN rows[other].fees PROVE FALSE
  OBVIOUS
<1>2. /\ Commit([rows EXCEPT ![id] = next], 0, Only(own, c)) /\ linker /= "holding"
      /\ task.at = "idle"
  BY DEF ProvenanceTold, Take
<1> HIDE DEF next
<1>3. /\ rows' = [rows EXCEPT ![id] = next] /\ ~split /\ DOMAIN rows = Ids
      /\ ~(alias /\ linker /= "holding" /\ rows'["child"].emitted > 0)
  BY <1>2 DEF Commit, IsStep, Inv, IsAccount, IsPair
<1>4. /\ IsRow(rows[other], executed) /\ Exact(rows[other], executed) /\ IsFilled(rows[other])
      /\ executed \in Nat
  BY <1>3 DEF IsStep, Inv, IsAccount, IsPair, ExactPair, Ids, Knows, RowsKnow
<1>5. rows[other].emitted > 0
  BY <1>1, <1>4, FillsEmit
<1>6. CASE alias
  <2>1. id = "order" /\ other = "child"
    BY <1>6 DEF Canonical, Ids
  <2>2. rows'["child"] = rows[other]
    BY <1>3, <2>1 DEF Ids
  <2> QED BY <1>2, <1>3, <1>5, <1>6, <2>2
<1>7. CASE ~alias
  <2>1. id = orderOf[t]
    BY <1>7 DEF Canonical
  <2>2. t \in rows[other].seen
    <3>1. own.source = "trade" /\ \A u \in Upto(executed) : own = TradeFill(u) => u = t
      BY DEF TradeFill
    <3>2. IsFill(own, rows[other]) /\ rows[other].seen \subseteq Upto(executed)
      BY <1>1, <1>4 DEF IsFilled, IsRow
    <3> HIDE DEF own
    <3> QED BY <3>1, <3>2 DEF IsFill
  <2> QED BY <1>2, <1>3, <1>7, <2>1, <2>2, OwnTrades DEF IsStep, Knows
<1> QED BY <1>6, <1>7

LEMMA ProvenanceToldKnows ==
    ASSUME IsStep, NEW t \in Upto(executed), NEW n, NEW c \in OperationFees(t, n), ProvenanceTold(t, c)
    PROVE  Knows' /\ StaysKnown
<1> DEFINE id   == Canonical(orderOf[t])
           row  == rows[id]
           own  == TradeFill(t)
           next == Refined(row, t, c)
           T    == Only(own, c)
<1>1. /\ Commit([rows EXCEPT ![id] = next], 0, T) /\ SnapshotTold(row, t, c) /\ linker /= "holding"
      /\ UNCHANGED <<executed, alias, orderOf, task, linker>> /\ task.at = "idle"
      /\ t \in MappedTrades(executed)
  BY DEF ProvenanceTold, Take
<1>2. orderOf[t] \in Ids /\ id \in Ids
  <2>1. orderOf[t] \in Ids
    BY <1>1, MappedOrder DEF IsStep, Inv
  <2> QED BY <2>1, CanonicalIsId
<1>3. IsRow(row, executed) /\ executed \in Nat /\ IsFilled(row) /\ DOMAIN rows = Ids
  BY <1>2 DEF IsStep, Inv, IsAccount, IsPair, Ids, Knows, RowsKnow
<1>4. c.status \in Statuses
  BY OperationStatus
<1>5. DOMAIN T = {own} /\ T[own] = c
  BY DEF Only
<1>6. own \in DOMAIN row.fees /\ Known(row.fees[own].c) => Known(c)
  <2>1. SUFFICES ASSUME own \in DOMAIN row.fees, Known(row.fees[own].c) PROVE Known(c)
    OBVIOUS
  <2>2. row.fees[own].c.status \in Statuses
    BY <1>3, <2>1 DEF IsFilled, IsTracked
  <2>3. c = row.fees[own].c \/ Rank(c.status) > Rank(row.fees[own].c.status)
    BY <1>1, <2>1 DEF SnapshotTold
  <2> HIDE DEF row, own
  <2> QED BY <1>4, <2>1, <2>2, <2>3 DEF Rank, Known, Statuses
<1>7. /\ DOMAIN next = RowFields /\ DOMAIN next.fees = DOMAIN row.fees
      /\ next.seen = row.seen /\ next.emitted = row.emitted
      /\ next.notional = row.notional /\ next.queue = row.queue
      /\ \A f \in DOMAIN row.fees \ {own} : next.fees[f] = row.fees[f]
      /\ own \in DOMAIN row.fees =>
            IsTracked(next.fees[own]) /\ (Known(c) => Known(next.fees[own].c))
  <2>1. CASE own \in DOMAIN row.fees /\ Known(c)
    <3>1. next = [row EXCEPT !.fees = Put(@, own, Tracked(Lots[{t}], c))]
      BY <2>1 DEF Refined
    <3> HIDE DEF next, row, own
    <3>2. next.fees = Put(row.fees, own, Tracked(Lots[{t}], c))
      BY <1>3, <3>1 DEF IsRow, RowFields
    <3>3. /\ DOMAIN next = RowFields /\ next.seen = row.seen /\ next.emitted = row.emitted
          /\ next.notional = row.notional /\ next.queue = row.queue
      BY <1>3, <3>1 DEF IsRow, RowFields
    <3> QED BY <1>4, <2>1, <3>2, <3>3, TrackedStatus DEF Put
  <2>2. CASE ~(own \in DOMAIN row.fees /\ Known(c))
    <3>1. next = row
      BY <2>2 DEF Refined
    <3> HIDE DEF next, row, own
    <3> QED BY <1>3, <2>2, <3>1 DEF IsRow, IsFilled
  <2> QED BY <2>1, <2>2
<1> HIDE DEF next, T, own
<1>8. IsFilled(next)
  BY <1>3, <1>7 DEF IsFilled, IsFill
<1>9. ASSUME ~split', NEW other \in Ids \ {id}
      PROVE  own \notin DOMAIN rows[other].fees
  BY <1>9, ProvenanceAlone DEF own
<1>10. RowsKnow' /\ StaysKnown
  <2>1. \A f \in DOMAIN T : f \in DOMAIN next.fees /\ Known(T[f]) => Known(next.fees[f].c)
    BY <1>5, <1>7
  <2>2. \A f \in DOMAIN next.fees \ DOMAIN T :
           f \in DOMAIN row.fees /\ (Known(row.fees[f].c) => Known(next.fees[f].c))
    BY <1>5, <1>7
  <2>3. \A f \in DOMAIN T \cap DOMAIN row.fees : Known(row.fees[f].c) => Known(T[f])
    BY <1>5, <1>6
  <2>4. ~split' => \A f \in DOMAIN T : \A other \in Ids \ {id} : f \notin DOMAIN rows[other].fees
    BY <1>5, <1>9
  <2> HIDE DEF id
  <2> QED BY <1>1, <1>2, <1>8, <2>1, <2>2, <2>3, <2>4, CommitKnows DEF IsStep, Knows
<1>11. InOwnRow' /\ CopyKnows'
  <2>1. (~split' => ~split) /\ \A j \in Ids : rows'[j].seen = rows[j].seen
    BY <1>1, <1>2, <1>3, <1>7 DEF Commit
  <2>2. InOwnRow'
    BY <1>1, <2>1 DEF InOwnRow, Elsewhere, IsStep, Knows
  <2> QED BY <1>1, <2>2 DEF CopyKnows
<1> QED BY <1>10, <1>11 DEF Knows

LEMMA SnapshotTakenKnows ==
    ASSUME IsStep, NEW k, SnapshotTaken(k)
    PROVE  Knows' /\ StaysKnown
<1>1. /\ UNCHANGED <<alias, orderOf, rows, linker, told, split>> /\ task.at = "idle"
      /\ task' = [at |-> "staging", k |-> k, staged |-> rows, todo |-> MappedTrades(k),
                   done |-> {}, lots |-> 0, c |-> <<>>]
  BY DEF SnapshotTaken, Take
<1>2. task'.at = "staging" /\ task'.staged = rows /\ task'.c = <<>>
  BY <1>1
<1>3. DOMAIN <<>> = {} /\ DOMAIN Over(<<>>, told) = DOMAIN told
      /\ \A f \in DOMAIN told : Over(<<>>, told)[f] = told[f]
  BY DEF Over
<1>4. InOwnRow'
  BY <1>1, <1>2, OwnTrades DEF InOwnRow, IsStep, Knows
<1>5. CopyKnows'
  <2>1. ~split' => \A id \in Ids : AsKnown(task'.staged[id], Over(task'.c, told'))
    BY <1>1, <1>2, <1>3 DEF IsStep, Knows, RowsKnow, AsKnown
  <2>2. ~split' /\ ~alias' => \A id \in Ids : \A t \in task'.staged[id].seen : orderOf'[t] = id
    BY <1>1, <1>2, OwnTrades DEF IsStep, Knows
  <2>3. \A id \in Ids : IsFilled(task'.staged[id])
    BY <1>2 DEF IsStep, Knows, RowsKnow
  <2>4. Seen(rows') \subseteq Seen(task'.staged)
    BY <1>1, <1>2
  <2> QED BY <1>2, <1>3, <2>1, <2>2, <2>3, <2>4 DEF CopyKnows
<1> QED BY <1>1, <1>4, <1>5, SameRows DEF IsStep, Knows

-----------------------------------------------------------------------------
\* The snapshot, and the alias.

\* The copy of a snapshot, and its fills.
LEMMA CopyRow ==
    ASSUME Inv, task.at = "staging", NEW id \in Ids
    PROVE  /\ IsStaging /\ IsRow(task.staged[id], executed) /\ executed \in Nat
           /\ DOMAIN task.staged = Ids
           /\ ~split => Exact(task.staged[id], executed)
<1>1. IsStaging
  BY DEF Inv, IsTask, IsProjecting, Idle
<1> QED BY <1>1 DEF Inv, IsStaging, IsPair, ExactPair, Ids

LEMMA SnapshotStagesKnows ==
    ASSUME IsStep, NEW t \in Upto(executed), NEW n, NEW c \in OperationFees(t, n), SnapshotStages(t, c)
    PROVE  Knows' /\ StaysKnown
<1> DEFINE id   == Canonical(orderOf[t])
           row  == task.staged[id]
           next == Projected(row, t, c)
           T    == Telling(row, next, t, c)
<1>1. /\ UNCHANGED <<executed, alias, orderOf, rows, linker, told, split>>
      /\ task.at = "staging" /\ t \in task.todo
  BY DEF SnapshotStages
<1>2. IsStaging
  BY <1>1 DEF IsStep, Inv, IsTask, IsProjecting, Idle
<1>3. SUFFICES ASSUME TRUE PROVE InOwnRow' /\ CopyKnows'
  BY <1>1, SameRows DEF IsStep, Knows
<1>4. task'.at = "staging"
  BY <1>1, <1>2 DEF SnapshotStages, IsStaging
<1>5. InOwnRow'
  BY <1>1, <1>4 DEF InOwnRow, Elsewhere, IsStep, Knows
<1>6. CASE ~next.ok
  <2>1. task' = [task EXCEPT !.todo = @ \ {t}]
    BY <1>6 DEF SnapshotStages
  <2>2. task'.staged = task.staged /\ task'.c = task.c
    BY <1>2, <2>1 DEF IsStaging
  <2>3. CopyKnows'
    BY <1>1, <2>2 DEF CopyKnows, AsKnown, IsStep, Knows
  <2> QED BY <1>5, <2>3
<1>7. CASE next.ok
  <2>1. id \in Ids /\ orderOf[t] \in Ids /\ IsRow(row, executed) /\ executed \in Nat /\ IsFilled(row)
        /\ DOMAIN task.staged = Ids
    <3>1. orderOf[t] \in Ids
      BY <1>1 DEF IsMapped, IsStep
    <3>2. id \in Ids
      BY <3>1, CanonicalIsId
    <3> QED BY <1>1, <3>1, <3>2, CopyRow DEF IsStep, Knows, CopyKnows
  <2>2. task' = [task EXCEPT !.staged[id] = next.row, !.todo = @ \ {t}, !.done = @ \cup {t},
                             !.lots = @ + SentLots(row, t), !.c = Over(T, @)]
    BY <1>7 DEF SnapshotStages
  <2>3. c.status \in Statuses
    BY OperationStatus
  <2>4. /\ IsFilled(next.row)
        /\ \A f \in DOMAIN T : f \in DOMAIN next.row.fees /\ Known(T[f]) => Known(next.row.fees[f].c)
        /\ \A f \in DOMAIN next.row.fees \ DOMAIN T :
              f \in DOMAIN row.fees /\ (Known(row.fees[f].c) => Known(next.row.fees[f].c))
        /\ \A f \in DOMAIN T \cap DOMAIN row.fees : Known(row.fees[f].c) => Known(T[f])
        /\ \A f \in DOMAIN T : f \notin DOMAIN row.fees => f = TradeFill(t) /\ t \notin row.seen
    <3> HIDE DEF row
    <3> QED BY <2>1, <2>3, ProjectedFills
  <2>5. next.row.seen = row.seen \cup {t} /\ row.emitted \in Nat /\ row.emitted <= next.row.emitted
    <3>1. /\ next.row.seen = row.seen \cup {t} /\ SentLots(row, t) \in Nat
          /\ next.row.emitted = row.emitted + SentLots(row, t)
      <4> HIDE DEF row
      <4> QED BY <2>1, ProjectedRow
    <3>2. row.emitted \in Nat
      BY <2>1 DEF IsRow
    <3> HIDE DEF next, row
    <3> QED BY <3>1, <3>2
  <2> HIDE DEF next, T
  <2>6. /\ task'.staged = [task.staged EXCEPT ![id] = next.row] /\ task'.c = Over(T, task.c)
    <3> HIDE DEF id, row
    <3> QED BY <1>2, <2>2 DEF IsStaging
  <2>7. /\ task'.staged[id] = next.row
        /\ \A other \in Ids \ {id} : task'.staged[other] = task.staged[other]
    BY <2>1, <2>6
  <2>8. \A j \in Ids : IsFilled(task'.staged[j]) /\ task.staged[j].seen \subseteq task'.staged[j].seen
    BY <1>1, <2>4, <2>5, <2>7 DEF IsStep, Knows, CopyKnows
  <2>9. Seen(rows') \subseteq Seen(task'.staged)
    BY <1>1, <2>8 DEF IsStep, Knows, CopyKnows, Seen, Ids
  <2>10. ~split' /\ ~alias' => \A j \in Ids : \A u \in task'.staged[j].seen : orderOf'[u] = j
    <3>1. ~alias => id = orderOf[t]
      BY DEF Canonical
    <3> QED BY <1>1, <2>5, <2>7, <3>1 DEF IsStep, Knows, CopyKnows
  <2>11. ASSUME ~split', ~Torn(task'.staged)
         PROVE  \A j \in Ids :
                   /\ AsKnown(task'.staged[j], Over(task'.c, told'))
                   /\ \A f \in DOMAIN rows'[j].fees \cap DOMAIN told' \cap DOMAIN task'.c :
                         Known(told'[f]) => Known(task'.c[f])
    <3>1. next.row.emitted > 0
      <4>1. IsRow(task'.staged[id], executed') /\ Exact(task'.staged[id], executed') /\ executed' \in Nat
        <5>1. IsStaging'
          BY <1>4 DEF IsStep, Inv, IsTask, IsProjecting, Idle
        <5> QED BY <1>1, <2>1, <2>11, <5>1 DEF IsStep, Inv, IsStaging, IsPair, ExactPair, Ids
      <4> QED BY <2>5, <2>7, <4>1, SeenEmits
    <3>2. ASSUME NEW other \in Ids \ {id}
          PROVE  DOMAIN task.staged[other].fees = {} /\ task.staged[other].seen = {}
      <4>1. ~(task.staged[other].emitted > 0)
        BY <2>1, <2>7, <2>11, <3>1 DEF Torn, Ids
      <4>2. IsRow(task.staged[other], executed) /\ Exact(task.staged[other], executed)
            /\ IsFilled(task.staged[other])
        BY <1>1, <2>11, CopyRow DEF IsStep, Knows, CopyKnows
      <4> QED BY <2>1, <4>1, <4>2, SeenEmits, FillsEmit
    <3>3. ~split /\ ~Torn(task.staged)
      <4>1. ASSUME Torn(task.staged) PROVE FALSE
        <5>1. \A j \in Ids : task.staged[j].emitted > 0
          BY <4>1 DEF Torn, Ids
        <5>2. \A j \in Ids : task'.staged[j].emitted > 0
          BY <2>5, <2>7, <3>1, <5>1
        <5> QED BY <2>11, <5>2 DEF Torn, Ids
      <4> QED BY <1>1, <2>11, <4>1
    <3>4. \A j \in Ids :
             /\ AsKnown(task.staged[j], Over(task.c, told))
             /\ \A f \in DOMAIN rows[j].fees \cap DOMAIN told \cap DOMAIN task.c :
                   Known(told[f]) => Known(task.c[f])
      BY <1>1, <3>3 DEF IsStep, Knows, CopyKnows
    <3>5. /\ DOMAIN task'.c = DOMAIN T \cup DOMAIN task.c
          /\ \A f \in DOMAIN task'.c : task'.c[f] = IF f \in DOMAIN T THEN T[f] ELSE task.c[f]
      BY <2>6 DEF Over
    <3> DEFINE before == Over(task.c, told)
               after  == Over(task'.c, told')
    <3>6. /\ DOMAIN after = DOMAIN T \cup DOMAIN before
          /\ \A f \in DOMAIN after : after[f] = IF f \in DOMAIN T THEN T[f] ELSE before[f]
      BY <1>1, <3>5 DEF Over
    <3>7. \A f \in DOMAIN told : f \in DOMAIN before
             /\ (before[f] = IF f \in DOMAIN task.c THEN task.c[f] ELSE told[f])
      BY DEF Over
    <3> HIDE DEF before, after
    <3>8. AsKnown(next.row, after)
      BY <2>1, <2>4, <3>4, <3>6 DEF AsKnown, before
    <3>9. \A j \in Ids : AsKnown(task'.staged[j], after)
      BY <2>7, <3>2, <3>8 DEF AsKnown
    <3>10. ASSUME NEW j \in Ids, NEW f \in DOMAIN rows'[j].fees \cap DOMAIN told' \cap DOMAIN task'.c,
                  Known(told'[f])
           PROVE  Known(task'.c[f])
      <4>1. CASE f \notin DOMAIN T
        BY <1>1, <3>4, <3>5, <3>10, <4>1
      <4>2. CASE f \in DOMAIN T /\ f \in DOMAIN row.fees
        <5>1. f \in DOMAIN before /\ Known(before[f])
          BY <1>1, <3>4, <3>7, <3>10
        <5>2. Known(row.fees[f].c)
          BY <2>1, <3>4, <4>2, <5>1 DEF AsKnown, before
        <5>3. Known(T[f])
          BY <2>4, <4>2, <5>2
        <5> QED BY <3>5, <4>2, <5>3
      <4>3. CASE f \in DOMAIN T /\ f \notin DOMAIN row.fees
        <5>1. f = TradeFill(t) /\ t \notin row.seen
          BY <2>4, <4>3
        <5>2. t \in rows[j].seen
          <6>1. f.source = "trade" /\ \A u \in Upto(executed) : f = TradeFill(u) => u = t
            BY <5>1 DEF TradeFill
          <6>2. IsFill(f, rows[j]) /\ rows[j].seen \subseteq Upto(executed)
            BY <1>1, <3>10 DEF IsStep, Knows, RowsKnow, IsFilled, Inv, IsAccount, IsPair, IsRow, Ids
          <6> QED BY <6>1, <6>2 DEF IsFill
        <5>3. t \in Seen(task.staged)
          BY <1>1, <5>2 DEF IsStep, Knows, CopyKnows, Seen, Ids
        <5>4. \E i \in Ids : t \in task.staged[i].seen
          BY <5>3 DEF Seen, Ids
        <5> QED BY <3>2, <5>1, <5>4
      <4> QED BY <4>1, <4>2, <4>3
    <3> QED BY <3>9, <3>10 DEF after
  <2>12. CopyKnows'
    BY <2>8, <2>9, <2>10, <2>11 DEF CopyKnows
  <2> QED BY <1>5, <2>12
<1> QED BY <1>6, <1>7

LEMMA SnapshotStoredKnows ==
    ASSUME IsStep, SnapshotStored
    PROVE  Knows' /\ StaysKnown
<1>1. /\ task.at = "staging" /\ Commit(task.staged, task.lots, task.c) /\ task' = Idle
      /\ UNCHANGED <<executed, alias, orderOf, linker>>
  BY DEF SnapshotStored
<1>2. /\ rows' = task.staged /\ told' = Over(task.c, told)
      /\ ~split' => ~split /\ ~Torn(task.staged)
  BY <1>1 DEF Commit, Torn
<1>3. CopyKnows
  BY DEF IsStep, Knows
<1>4. RowsKnow'
  BY <1>1, <1>2, <1>3 DEF CopyKnows, RowsKnow
<1>5. InOwnRow'
  BY <1>1, <1>2, <1>3, CopyIdle DEF CopyKnows, InOwnRow, IsStep, Knows
<1>6. StaysKnown
  <2>1. \A f \in DOMAIN told : told'[f] = IF f \in DOMAIN task.c THEN task.c[f] ELSE told[f]
    BY <1>2 DEF Over
  <2> QED BY <1>1, <1>2, <1>3, <2>1 DEF CopyKnows, StaysKnown
<1> QED BY <1>1, <1>4, <1>5, <1>6, CopyIdle DEF Knows

LEMMA LinkHoldingKnows ==
    ASSUME IsStep, NEW held, LinkHolding(held)
    PROVE  Knows' /\ StaysKnown
<1>1. UNCHANGED <<orderOf, rows, task, told, split>> /\ alias' = TRUE
  BY DEF LinkHolding
<1>2. InOwnRow'
  BY <1>1 DEF InOwnRow, IsStep, Knows
<1>3. CopyKnows'
  BY <1>1 DEF CopyKnows, AsKnown, IsStep, Knows
<1> QED BY <1>1, <1>2, <1>3, SameRows DEF IsStep, Knows

LEMMA LinkKnows ==
    ASSUME IsStep, Link
    PROVE  Knows' /\ StaysKnown
<1> DEFINE row == Merged(rows["order"], rows["child"])
<1>1. UNCHANGED <<alias, orderOf, task, told, split>> /\ linker /= "idle" /\ linker' = "idle"
  BY DEF Link
<1>2. alias /\ InOwnRow'
  BY <1>1 DEF InOwnRow, IsStep, Knows
<1>3. StaysKnown
  BY <1>1 DEF StaysKnown
<1>4. CASE rows' = rows
  <2>1. CopyKnows'
    BY <1>1, <1>4 DEF CopyKnows, AsKnown, IsStep, Knows
  <2> QED BY <1>1, <1>2, <1>4, <2>1, SameRows DEF IsStep, Knows
<1>5. CASE rows' = [rows EXCEPT !["order"] = row, !["child"] = EmptyRow]
  <2>1. /\ DOMAIN rows = Ids /\ executed \in Nat
        /\ IsRow(rows["order"], executed) /\ IsRow(rows["child"], executed)
        /\ IsFilled(rows["order"]) /\ IsFilled(rows["child"])
    BY DEF IsStep, Inv, IsAccount, IsPair, Knows, RowsKnow, Ids
  <2>2. /\ IsFilled(row)
        /\ \A f \in DOMAIN row.fees :
              /\ f \in DOMAIN rows["order"].fees \cup DOMAIN rows["child"].fees
              /\ \/ f \in DOMAIN rows["order"].fees
                       /\ (Known(rows["order"].fees[f].c) => Known(row.fees[f].c))
                 \/ f \in DOMAIN rows["child"].fees
                       /\ (Known(rows["child"].fees[f].c) => Known(row.fees[f].c))
        /\ row.seen = rows["order"].seen \cup rows["child"].seen
    BY <2>1, MergedFills, MergedRow
  <2> HIDE DEF row
  <2>3. rows'["order"] = row /\ rows'["child"] = EmptyRow
    BY <1>5, <2>1 DEF Ids
  <2>4. DOMAIN EmptyRow.fees = {} /\ EmptyRow.seen = {} /\ EmptyRow.notional = 0 /\ IsSeq(EmptyRow.queue)
    <3>1. DOMAIN <<>> = {} /\ <<>> \in Seq({})
      OBVIOUS
    <3>2. EmptyRow.fees = <<>> /\ EmptyRow.queue = <<>> /\ EmptyRow.seen = {} /\ EmptyRow.notional = 0
      BY DEF EmptyRow
    <3> QED BY <3>1, <3>2, SeqIsQueue
  <2>5. IsFilled(EmptyRow)
    BY <2>4 DEF IsFilled
  <2>6. RowsKnow'
    BY <1>1, <2>2, <2>3, <2>4, <2>5 DEF RowsKnow, AsKnown, Ids, IsStep, Knows
  <2>7. CopyKnows'
    <3>1. Seen(rows') = Seen(rows)
      BY <2>2, <2>3, <2>4 DEF Seen
    <3>2. \A id \in Ids : DOMAIN rows'[id].fees \subseteq DOMAIN rows["order"].fees \cup DOMAIN rows["child"].fees
      BY <2>2, <2>3, <2>4 DEF Ids
    <3>3. "order" \in Ids /\ "child" \in Ids
      BY DEF Ids
    <3> QED BY <1>1, <3>1, <3>2, <3>3 DEF CopyKnows, AsKnown, IsStep, Knows
  <2> QED BY <1>2, <1>3, <2>6, <2>7 DEF Knows
<1> QED BY <1>4, <1>5 DEF Link

LEMMA InitKnows ==
    ASSUME InitWhen(FALSE)
    PROVE  Knows
<1>1. /\ rows = [id \in Ids |-> EmptyRow] /\ task = Idle /\ linker = "idle"
  BY DEF InitWhen
<1>2. \A id \in Ids : rows[id] = EmptyRow
  BY <1>1
<1>3. DOMAIN EmptyRow.fees = {} /\ EmptyRow.seen = {} /\ EmptyRow.notional = 0 /\ IsSeq(EmptyRow.queue)
  <2>1. DOMAIN <<>> = {} /\ <<>> \in Seq({})
    OBVIOUS
  <2>2. EmptyRow.fees = <<>> /\ EmptyRow.queue = <<>> /\ EmptyRow.seen = {} /\ EmptyRow.notional = 0
    BY DEF EmptyRow
  <2> QED BY <2>1, <2>2, SeqIsQueue
<1>4. IsFilled(EmptyRow)
  BY <1>3 DEF IsFilled
<1>5. RowsKnow
  BY <1>2, <1>3, <1>4 DEF RowsKnow, AsKnown
<1>6. task.at = "idle"
  BY <1>1 DEF Idle
<1> QED BY <1>1, <1>2, <1>3, <1>5, <1>6 DEF Knows, InOwnRow, CopyKnows

LEMMA NextKnows ==
    ASSUME IsStep, Next
    PROVE  Knows' /\ StaysKnown
<1>1. CASE StateStep
  BY <1>1, StateResolvedKnows, StateIgnoredKnows, StateRegressedKnows, StateStagedKnows,
     StatePublishedKnows DEF StateStep
<1>2. CASE TradeStep
  BY <1>2, TradeKeyedKnows, TradePublishedKnows DEF TradeStep
<1>3. CASE SnapshotStep
  BY <1>3, SnapshotTakenKnows, SnapshotStagesKnows, ProvenanceToldKnows, SnapshotStoredKnows
  DEF SnapshotStep
<1>4. CASE LinkStep
  BY <1>4, LinkHoldingKnows, LinkKnows DEF LinkStep
<1> QED BY <1>1, <1>2, <1>3, <1>4, ExecuteKnows DEF Next

LEMMA StutterKnows ==
    ASSUME Knows, UNCHANGED vars
    PROVE  Knows' /\ StaysKnown
<1>1. UNCHANGED <<alias, orderOf, rows, task, linker, told, split>>
  BY DEF vars
<1> QED BY <1>1, SameRows DEF Knows, InOwnRow, Elsewhere, CopyKnows, AsKnown

\* What the host was told of the commission of a fill is never told again as
\* unknown while a row has that fill, unless the order's fills are torn apart
\* under two ids: the commissions of the streams, the operations and the
\* snapshots settle one another in any order, over the alias too.
THEOREM KnownCommissionsStay == Spec => KnownStaysKnown
<1>1. Init => Knows
  BY InitKnows DEF Init
<1>2. (Inv /\ IsMapped) /\ (Inv /\ IsMapped)' /\ Knows /\ [Next]_vars => Knows' /\ StaysKnown
  BY NextKnows, StutterKnows DEF IsStep
<1>3. Spec => [][StaysKnown]_vars
  BY <1>1, <1>2, FillInvariant, PTL DEF Spec
<1>4. [StaysKnown]_vars => [~split' /\ told' /= told =>
          \A f \in DOMAIN told :
             Known(told[f]) /\ (\E id \in Ids : f \in DOMAIN rows[id].fees)
                 => Known(told'[f])]_vars
  BY DEF StaysKnown
<1> QED BY <1>3, <1>4, PTL DEF KnownStaysKnown

-----------------------------------------------------------------------------
\* The total of a queue of lots.

\* A queue of lots, and the running sums of its lots.
IsLots(q) == IsSeq(q) /\ \A i \in DOMAIN q : q[i].lots \in Nat

Running(P, q) ==
    /\ P \in [0 .. Len(q) -> Nat] /\ P[0] = 0
    /\ \A i \in 1 .. Len(q) : P[i] = P[i - 1] + q[i].lots

LEMMA LotsLength ==
    ASSUME NEW q, IsLots(q)
    PROVE  /\ DOMAIN q = 1 .. Len(q) /\ Len(q) \in Nat
           /\ \A i \in 1 .. Len(q) : q[i].lots \in Nat
BY QueueLength DEF IsLots

\* The sums exist, up to any place.
LEMMA RunningExists ==
    ASSUME NEW q, IsLots(q)
    PROVE  \E P : Running(P, q)
<1> DEFINE Sums(m) == \E P \in [0 .. m -> Nat] :
                         P[0] = 0 /\ \A i \in 1 .. m : P[i] = P[i - 1] + q[i].lots
           Fails == {m \in Nat : m <= Len(q) /\ ~Sums(m)}
<1>1. Sums(0)
  <2>1. [i \in 0 .. 0 |-> 0] \in [0 .. 0 -> Nat] /\ [i \in 0 .. 0 |-> 0][0] = 0 /\ 1 .. 0 = {}
    OBVIOUS
  <2> QED BY <2>1
<1>2. ASSUME NEW m \in Nat, m + 1 <= Len(q), Sums(m)
      PROVE  Sums(m + 1)
  <2>1. PICK P \in [0 .. m -> Nat] : P[0] = 0 /\ \A i \in 1 .. m : P[i] = P[i - 1] + q[i].lots
    BY <1>2
  <2>2. q[m + 1].lots \in Nat
    BY <1>2, LotsLength
  <2> DEFINE R == [i \in 0 .. m + 1 |-> IF i = m + 1 THEN P[m] + q[m + 1].lots ELSE P[i]]
  <2>3. R \in [0 .. m + 1 -> Nat]
    BY <2>2
  <2>4. R[0] = 0 /\ \A i \in 1 .. m + 1 : R[i] = R[i - 1] + q[i].lots
    BY <2>1, <2>2
  <2> HIDE DEF R
  <2> QED BY <2>3, <2>4
<1> HIDE DEF Sums
<1>3. ASSUME Fails /= {}
      PROVE  FALSE
  <2>1. PICK m \in Fails : \A l \in Fails : m <= l
    BY <1>3, LeastElement
  <2>2. m \in Nat /\ m /= 0 /\ m <= Len(q) /\ ~Sums(m) /\ Len(q) \in Nat
    BY <1>1, <2>1, LotsLength
  <2>3. m - 1 \in Nat /\ m - 1 <= Len(q) /\ m - 1 \notin Fails
    BY <2>1, <2>2
  <2>4. Sums(m - 1) /\ (m - 1) + 1 = m
    BY <2>2, <2>3
  <2> QED BY <1>2, <2>2, <2>3, <2>4
<1>4. Sums(Len(q))
  BY <1>3, LotsLength
<1> QED BY <1>4 DEF Sums, Running

\* One step of the fold behind Total: iter of the entries at the places of part.
Summed(iter, part, q) ==
    IF part = {} THEN 0 ELSE iter[part \ {Max(part)}] + q[Max(part)].lots

LEMMA SumExists ==
    ASSUME NEW n \in Nat, NEW q
    PROVE  \E iter : iter = [s \in SUBSET (1 .. n) |-> Summed(iter, s, q)]
<1> DEFINE Folds(m) == \E iter : iter = [s \in SUBSET (1 .. m) |-> Summed(iter, s, q)]
           Fails == {m \in Nat : ~Folds(m)}
<1>1. Folds(0)
  <2> DEFINE iter == [s \in SUBSET (1 .. 0) |-> 0]
  <2>1. \A s \in SUBSET (1 .. 0) : s = {}
    OBVIOUS
  <2>2. iter = [s \in SUBSET (1 .. 0) |-> Summed(iter, s, q)]
    BY <2>1 DEF Summed
  <2> QED BY <2>2
<1>2. ASSUME NEW m \in Nat, Folds(m)
      PROVE  Folds(m + 1)
  <2>1. PICK g : g = [s \in SUBSET (1 .. m) |-> Summed(g, s, q)]
    BY <1>2
  <2> DEFINE iter == [s \in SUBSET (1 .. m + 1) |->
                        IF m + 1 \in s THEN g[s \ {m + 1}] + q[m + 1].lots ELSE g[s]]
  <2>2. ASSUME NEW s \in SUBSET (1 .. m + 1)
        PROVE  iter[s] = Summed(iter, s, q)
    <3>1. CASE m + 1 \in s
      <4>1. Max(s) = m + 1 /\ s \ {Max(s)} \in SUBSET (1 .. m)
        BY <3>1, MaxOfInterval
      <4>2. iter[s \ {m + 1}] = g[s \ {m + 1}]
        BY <4>1
      <4>3. iter[s] = g[s \ {m + 1}] + q[m + 1].lots
        BY <3>1
      <4> HIDE DEF iter
      <4> QED BY <3>1, <4>1, <4>2, <4>3 DEF Summed
    <3>2. CASE m + 1 \notin s
      <4>1. s \in SUBSET (1 .. m) /\ iter[s] = g[s]
        BY <3>2
      <4>2. g[s] = Summed(g, s, q)
        BY <2>1, <4>1
      <4>3. s \ {Max(s)} \in SUBSET (1 .. m) /\ iter[s \ {Max(s)}] = g[s \ {Max(s)}]
        <5>1. PICK r : r = s \ {Max(s)}
          OBVIOUS
        <5>2. r \in SUBSET (1 .. m)
          BY ONLY <4>1, <5>1
        <5>3. r \in SUBSET (1 .. m + 1) /\ m + 1 \notin r
          BY ONLY <5>2, m \in Nat
        <5>4. iter[r] = g[r]
          BY <5>3
        <5> QED BY <5>1, <5>2, <5>4
      <4> HIDE DEF iter
      <4> QED BY <4>1, <4>2, <4>3 DEF Summed
    <3> QED BY <3>1, <3>2
  <2>3. iter = [s \in SUBSET (1 .. m + 1) |-> Summed(iter, s, q)]
    BY <2>2
  <2> QED BY <2>3
<1> HIDE DEF Folds
<1>3. ASSUME Fails /= {}
      PROVE  FALSE
  <2>1. PICK m \in Fails : \A l \in Fails : m <= l
    BY <1>3, LeastElement
  <2>2. m \in Nat /\ m /= 0 /\ ~Folds(m)
    BY <1>1, <2>1
  <2>3. m - 1 \in Nat /\ m - 1 \notin Fails
    BY <2>1, <2>2
  <2> QED BY <1>2, <2>2, <2>3
<1>4. Folds(n)
  BY <1>3
<1> QED BY <1>4 DEF Folds

\* The total of a queue is its last running sum.
LEMMA TotalIsRunning ==
    ASSUME NEW q, IsLots(q), NEW P, Running(P, q)
    PROVE  Total(q) = P[Len(q)]
<1> DEFINE n == Len(q)
           Iter(i) == i = [s \in SUBSET (1 .. n) |-> Summed(i, s, q)]
           iter == CHOOSE i : Iter(i)
<1>1. DOMAIN q = 1 .. n /\ n \in Nat
  BY LotsLength
<1> HIDE DEF n
<1>2. Total(q) = iter[1 .. n]
  BY <1>1 DEF Total, FoldLeft, MapThenFoldSet, Summed
<1>3. Iter(iter)
  BY <1>1, SumExists
<1> HIDE DEF iter
<1> DEFINE Fails == {m \in Nat : m <= n /\ iter[1 .. m] /= P[m]}
<1>4. ASSUME Fails /= {}
      PROVE  FALSE
  <2>1. PICK m \in Fails : \A l \in Fails : m <= l
    BY <1>4, LeastElement
  <2>2. m \in Nat /\ m <= n /\ iter[1 .. m] /= P[m] /\ (1 .. m) \in SUBSET (1 .. n)
    BY <1>1, <2>1
  <2>3. iter[1 .. m] = Summed(iter, 1 .. m, q)
    BY <1>3, <2>2
  <2>4. m /= 0
    <3>1. m = 0 => 1 .. m = {}
      BY <2>2
    <3> QED BY <2>2, <2>3, <3>1 DEF Summed, Running
  <2>5. m - 1 \in Nat /\ m - 1 <= n /\ m - 1 \notin Fails /\ (m - 1) + 1 = m
    <3>1. m - 1 \in Nat /\ m - 1 <= n /\ ~(m <= m - 1) /\ (m - 1) + 1 = m
      BY ONLY <1>1, <2>2, <2>4
    <3> QED BY <2>1, <3>1
  <2>6. Max(1 .. m) = m /\ (1 .. m) \ {m} = 1 .. m - 1
    <3>1. m \in 1 .. m /\ (1 .. m) \in SUBSET (1 .. (m - 1) + 1)
      BY <2>2, <2>4, <2>5
    <3>2. Max(1 .. m) = m
      BY <2>5, <3>1, MaxOfInterval
    <3> QED BY <2>2, <2>4, <3>2
  <2>7. iter[1 .. m] = iter[1 .. m - 1] + q[m].lots
    <3>1. 1 .. m /= {}
      BY <2>2, <2>4
    <3> QED BY ONLY <2>3, <2>6, <3>1 DEF Summed
  <2>8. P[m] = P[m - 1] + q[m].lots
    BY <1>1, <2>2, <2>4 DEF Running, n
  <2>9. iter[1 .. m - 1] = P[m - 1]
    BY <2>5
  <2> QED BY <2>2, <2>7, <2>8, <2>9
<1>5. iter[1 .. n] = P[n]
  BY <1>1, <1>4
<1> QED BY <1>2, <1>5 DEF n

\* What comes before an entry is the running sum up to it.
LEMMA BeforeIsRunning ==
    ASSUME NEW q, IsLots(q), NEW P, Running(P, q), NEW i \in 1 .. Len(q)
    PROVE  Before(q, i) = P[i - 1]
<1>1. DOMAIN q = 1 .. Len(q) /\ Len(q) \in Nat /\ \A j \in 1 .. Len(q) : q[j].lots \in Nat
  BY LotsLength
<1> DEFINE s == SubSeq(q, 1, i - 1)
<1>2. PICK S : q \in Seq(S)
  BY QueueLength DEF IsLots
<1>3. Len(s) = i - 1 /\ DOMAIN s = 1 .. i - 1 /\ \A j \in 1 .. i - 1 : s[j] = q[j]
  BY <1>1, <1>2
<1>4. s \in Seq(S)
  BY <1>1, <1>2
<1>5. IsLots(s)
  <2>1. IsSeq(s)
    BY <1>4, SeqIsQueue
  <2>2. \A j \in DOMAIN s : s[j].lots \in Nat
    BY <1>1, <1>3
  <2> QED BY <2>1, <2>2 DEF IsLots
<1> HIDE DEF s
<1> DEFINE R == [j \in 0 .. i - 1 |-> P[j]]
<1>6. Running(R, s)
  <2>1. R \in [0 .. i - 1 -> Nat] /\ R[0] = 0
    BY <1>1 DEF Running
  <2>2. \A j \in 1 .. i - 1 : R[j] = R[j - 1] + s[j].lots
    BY <1>1, <1>3 DEF Running
  <2> HIDE DEF R
  <2> QED BY <1>3, <2>1, <2>2 DEF Running
<1>7. Total(s) = R[i - 1]
  BY <1>3, <1>5, <1>6, TotalIsRunning
<1> QED BY <1>1, <1>7 DEF s, Before

\* A queue of fills: some lots of each, and one entry per fill.
IsQueue(q) ==
    /\ IsSeq(q)
    /\ \A i \in DOMAIN q : DOMAIN q[i] = {"fill", "lots"} /\ q[i].lots \in Nat \ {0}
    /\ \A i, j \in DOMAIN q : q[i].fill = q[j].fill => i = j

LEMMA QueueIsLots ==
    ASSUME NEW q, IsQueue(q)
    PROVE  IsLots(q)
BY DEF IsQueue, IsLots

LEMMA RunningGrows ==
    ASSUME NEW q, IsLots(q), NEW P, Running(P, q), NEW i \in 0 .. Len(q), NEW j \in 0 .. Len(q),
           i <= j
    PROVE  P[i] <= P[j] /\ P[i] \in Nat /\ P[j] \in Nat
<1>1. DOMAIN q = 1 .. Len(q) /\ Len(q) \in Nat /\ \A k \in 1 .. Len(q) : q[k].lots \in Nat
  BY LotsLength
<1>2. \A k \in 0 .. Len(q) : P[k] \in Nat
  BY DEF Running
<1> DEFINE Fails == {m \in Nat : i <= m /\ m <= Len(q) /\ ~(P[i] <= P[m])}
<1>3. ASSUME Fails /= {}
      PROVE  FALSE
  <2>1. PICK m \in Fails : \A l \in Fails : m <= l
    BY <1>3, LeastElement
  <2>2. m \in Nat /\ i <= m /\ m <= Len(q) /\ ~(P[i] <= P[m])
    BY <2>1
  <2>3. m /= i
    BY <1>2, <2>2
  <2>4. m - 1 \in Nat /\ i <= m - 1 /\ m - 1 <= Len(q) /\ ~(m <= m - 1) /\ m \in 1 .. Len(q)
    BY <1>1, <2>2, <2>3
  <2>5. P[i] <= P[m - 1]
    <3>1. m - 1 \notin Fails
      BY <2>1, <2>4
    <3> QED BY <2>4, <3>1
  <2>6. P[m] = P[m - 1] + q[m].lots /\ q[m].lots \in Nat
    BY <1>1, <2>4 DEF Running
  <2>7. P[m - 1] \in Nat /\ P[i] \in Nat
    BY <1>1, <1>2, <2>4
  <2> QED BY ONLY <2>2, <2>5, <2>6, <2>7
<1> QED BY <1>1, <1>2, <1>3

LEMMA TotalIsNat ==
    ASSUME NEW q, IsLots(q)
    PROVE  Total(q) \in Nat
<1>1. PICK P : Running(P, q)
  BY RunningExists
<1> QED BY <1>1, LotsLength, TotalIsRunning DEF Running

LEMMA TotalEmpty == Total(<<>>) = 0 /\ IsQueue(<<>>)
<1>1. IsQueue(<<>>) /\ Len(<<>>) = 0
  <2>1. <<>> \in Seq({}) /\ DOMAIN <<>> = {}
    OBVIOUS
  <2> QED BY <2>1, SeqIsQueue DEF IsQueue
<1>2. PICK P : Running(P, <<>>)
  BY <1>1, RunningExists, QueueIsLots
<1> QED BY <1>1, <1>2, TotalIsRunning, QueueIsLots DEF Running

LEMMA TotalAppended ==
    ASSUME NEW q, IsLots(q), NEW e, e.lots \in Nat
    PROVE  IsLots(Append(q, e)) /\ Total(Append(q, e)) = Total(q) + e.lots
<1>1. DOMAIN q = 1 .. Len(q) /\ Len(q) \in Nat /\ \A k \in 1 .. Len(q) : q[k].lots \in Nat
  BY LotsLength
<1>2. PICK S : q \in Seq(S)
  BY QueueLength DEF IsLots
<1> DEFINE a == Append(q, e)
           n == Len(q)
<1>3. /\ Len(a) = n + 1 /\ DOMAIN a = 1 .. n + 1 /\ a[n + 1] = e
      /\ \A i \in 1 .. n : a[i] = q[i]
  <2>1. q \in Seq(S \cup {e}) /\ e \in S \cup {e}
    BY <1>2
  <2> QED BY <2>1
<1>4. IsSeq(a)
  BY QueueAppended DEF IsLots
<1> HIDE DEF a
<1>5. IsLots(a)
  <2>1. \A i \in 1 .. n + 1 : a[i].lots \in Nat
    BY <1>1, <1>3
  <2> QED BY <1>3, <1>4, <2>1 DEF IsLots
<1>6. PICK P : Running(P, q)
  BY RunningExists
<1> DEFINE R == [i \in 0 .. n + 1 |-> IF i = n + 1 THEN P[n] + e.lots ELSE P[i]]
<1>7. Running(R, a)
  <2>1. R \in [0 .. n + 1 -> Nat] /\ R[0] = 0
    BY <1>1, <1>6 DEF Running
  <2>2. \A i \in 1 .. n + 1 : R[i] = R[i - 1] + a[i].lots
    BY <1>1, <1>3, <1>6 DEF Running
  <2> HIDE DEF R
  <2> QED BY <1>3, <2>1, <2>2 DEF Running
<1>8. Total(a) = P[n] + e.lots /\ Total(q) = P[n]
  <2>1. Total(a) = R[n + 1]
    BY <1>3, <1>5, <1>7, TotalIsRunning
  <2>2. Total(q) = P[n]
    BY <1>6, TotalIsRunning
  <2> QED BY <1>1, <2>1, <2>2
<1> QED BY <1>5, <1>8 DEF a

LEMMA TotalJoined ==
    ASSUME NEW a, NEW b, IsLots(a), IsLots(b)
    PROVE  /\ IsLots(a \o b) /\ Total(a \o b) = Total(a) + Total(b)
           /\ Len(a \o b) = Len(a) + Len(b)
           /\ \A i \in 1 .. Len(a) : (a \o b)[i] = a[i]
           /\ \A i \in 1 .. Len(b) : (a \o b)[Len(a) + i] = b[i]
<1> DEFINE n == Len(a)
           m == Len(b)
           j == a \o b
<1>1. /\ DOMAIN a = 1 .. n /\ n \in Nat /\ \A k \in 1 .. n : a[k].lots \in Nat
      /\ DOMAIN b = 1 .. m /\ m \in Nat /\ \A k \in 1 .. m : b[k].lots \in Nat
  BY LotsLength
<1>2. /\ Len(j) = n + m /\ DOMAIN j = 1 .. n + m /\ IsSeq(j)
      /\ \A i \in 1 .. n + m : j[i] = IF i <= n THEN a[i] ELSE b[i - n]
  <2>1. PICK S : a \in Seq(S)
    BY QueueLength DEF IsLots
  <2>2. PICK T : b \in Seq(T)
    BY QueueLength DEF IsLots
  <2>3. a \in Seq(S \cup T) /\ b \in Seq(S \cup T)
    BY <2>1, <2>2
  <2> QED BY <2>3, QueueJoined DEF IsLots
<1> HIDE DEF n, m, j
<1>3. IsLots(j)
  <2>1. \A i \in 1 .. n + m : j[i].lots \in Nat
    <3> TAKE i \in 1 .. n + m
    <3>1. i <= n => i \in 1 .. n
      BY <1>1
    <3>2. ~(i <= n) => i - n \in 1 .. m
      BY <1>1
    <3> QED BY <1>1, <1>2, <3>1, <3>2
  <2> QED BY <1>2, <2>1 DEF IsLots
<1>4. PICK P : Running(P, a)
  BY RunningExists
<1>5. PICK Q : Running(Q, b)
  BY RunningExists
<1>6. /\ \A i \in 0 .. n : P[i] \in Nat
      /\ \A i \in 0 .. m : Q[i] \in Nat
      /\ P[0] = 0 /\ Q[0] = 0
      /\ \A i \in 1 .. n : P[i] = P[i - 1] + a[i].lots
      /\ \A i \in 1 .. m : Q[i] = Q[i - 1] + b[i].lots
  BY <1>4, <1>5 DEF Running, n, m
<1> DEFINE R == [i \in 0 .. n + m |-> IF i <= n THEN P[i] ELSE P[n] + Q[i - n]]
<1>7. Running(R, j)
  <2>1. R \in [0 .. n + m -> Nat]
    <3>1. \A i \in 0 .. n + m : (i <= n => i \in 0 .. n) /\ (~(i <= n) => i - n \in 0 .. m)
      BY <1>1
    <3>2. P[n] \in Nat
      BY <1>1, <1>6
    <3> QED BY <1>6, <3>1, <3>2
  <2>2. R[0] = 0
    BY <1>1, <1>6
  <2>3. ASSUME NEW i \in 1 .. n + m
        PROVE  R[i] = R[i - 1] + j[i].lots
    <3>1. CASE i <= n
      <4>1. i \in 1 .. n /\ i - 1 <= n /\ i \in 0 .. n + m /\ i - 1 \in 0 .. n + m
        BY <1>1, <3>1
      <4> QED BY <1>2, <1>6, <3>1, <4>1
    <3>2. CASE i = n + 1
      <4>1. 1 \in 1 .. m /\ i - n = 1 /\ i - 1 = n /\ i \in 0 .. n + m /\ n \in 0 .. n + m /\ ~(i <= n)
        BY <1>1, <3>2
      <4>2. Q[1] = b[1].lots /\ P[n] \in Nat /\ Q[1] \in Nat
        <5>1. Q[1] = Q[1 - 1] + b[1].lots /\ 1 - 1 = 0 /\ b[1].lots \in Nat
          BY <1>1, <1>6, <4>1
        <5> QED BY <1>1, <1>6, <5>1, <4>1
      <4>3. R[i] = P[n] + Q[1] /\ R[i - 1] = P[n] /\ j[i] = b[1]
        BY <1>1, <1>2, <4>1
      <4> QED BY ONLY <4>2, <4>3
    <3>3. CASE i > n + 1
      <4>1. /\ i - n \in 1 .. m /\ (i - n) - 1 = (i - 1) - n /\ ~(i <= n) /\ ~(i - 1 <= n)
            /\ i \in 0 .. n + m /\ i - 1 \in 0 .. n + m /\ (i - n) - 1 \in 0 .. m
        BY <1>1, <3>3
      <4>2. Q[i - n] = Q[(i - 1) - n] + b[i - n].lots /\ P[n] \in Nat
        BY <1>1, <1>6, <4>1
      <4>3. R[i] = P[n] + Q[i - n] /\ R[i - 1] = P[n] + Q[(i - 1) - n] /\ j[i] = b[i - n]
        BY <1>2, <4>1
      <4>4. Q[(i - 1) - n] \in Nat /\ b[i - n].lots \in Nat
        BY <1>1, <1>6, <4>1
      <4> QED BY ONLY <4>2, <4>3, <4>4
    <3> QED BY <1>1, <3>1, <3>2, <3>3
  <2> HIDE DEF R
  <2> QED BY <1>2, <2>1, <2>2, <2>3 DEF Running
<1>8. Total(j) = R[n + m] /\ Total(a) = P[n] /\ Total(b) = Q[m]
  BY <1>2, <1>3, <1>4, <1>5, <1>7, TotalIsRunning DEF n, m
<1>9. R[n + m] = P[n] + Q[m]
  <2>1. n + m \in 0 .. n + m /\ (n + m) - n = m /\ (n + m <= n <=> m = 0) /\ P[n] \in Nat
    BY <1>1, <1>6
  <2>2. R[n + m] = IF n + m <= n THEN P[n + m] ELSE P[n] + Q[(n + m) - n]
    BY <2>1
  <2> HIDE DEF R
  <2>3. m = 0 => n + m = n /\ Q[m] = 0
    BY <1>1, <1>6
  <2> QED BY <2>1, <2>2, <2>3
<1>10. /\ \A i \in 1 .. n : j[i] = a[i]
       /\ \A i \in 1 .. m : j[n + i] = b[i]
  <2>1. \A i \in 1 .. m : n + i \in 1 .. n + m /\ ~(n + i <= n) /\ (n + i) - n = i
    BY <1>1
  <2>2. \A i \in 1 .. n : i \in 1 .. n + m /\ i <= n
    BY <1>1
  <2> QED BY <1>2, <2>1, <2>2
<1> QED BY <1>2, <1>3, <1>8, <1>9, <1>10 DEF n, m, j

-----------------------------------------------------------------------------
\* What the first lots of a queue are, and what is left without them.

\* Indices with all those before them are the first ones.
LEMMA FirstIndices ==
    ASSUME NEW n \in Nat, NEW I \in SUBSET (1 .. n),
           \A i \in I : \A j \in 1 .. n : j <= i => j \in I
    PROVE  Cardinality(I) \in Nat /\ Cardinality(I) <= n /\ I = 1 .. Cardinality(I)
<1>1. Cardinality(I) \in Nat /\ Cardinality(I) <= n
  BY IndicesAreFinite
<1>2. CASE I = 1 .. n
  <2>1. Cardinality(1 .. n) = n
    <3>1. (1 > n => n = 0) /\ n - 1 + 1 = n /\ 1 \in Int /\ n \in Int
      OBVIOUS
    <3> QED BY <3>1, FS_Interval
  <2>2. Cardinality(I) = n
    BY <1>2, <2>1
  <2>3. I = 1 .. Cardinality(I)
    BY ONLY <1>2, <2>2
  <2> QED BY <1>1, <2>3
<1>3. CASE I /= 1 .. n
  <2>1. (1 .. n) \ I \in SUBSET Nat /\ (1 .. n) \ I /= {}
    <3>1. \E x : x \in 1 .. n /\ x \notin I
      <4>1. (\A x \in 1 .. n : x \in I) => I = 1 .. n
        OBVIOUS
      <4> QED BY <1>3, <4>1
    <3> QED BY <3>1
  <2>2. PICK x \in (1 .. n) \ I : \A y \in (1 .. n) \ I : x <= y
    BY ONLY <2>1, LeastElement
  <2>3. I = 1 .. x - 1
    <3>1. \A i \in I : i <= x - 1
      <4>1. ASSUME NEW i \in I, ~(i <= x - 1)
            PROVE  FALSE
        <5>1. x <= i /\ x \in 1 .. n
          BY <2>2, <4>1
        <5> QED BY <2>2, <5>1
      <4> QED BY <4>1
    <3>2. \A i \in 1 .. x - 1 : i \in I
      <4>1. ASSUME NEW i \in 1 .. x - 1
            PROVE  i \in 1 .. n /\ ~(x <= i)
        BY <2>2
      <4> QED BY <2>2, <4>1
    <3>3. \A i \in I : i \in 1 .. x - 1
      BY <2>2, <3>1
    <3> QED BY <3>2, <3>3
  <2>4. Cardinality(1 .. x - 1) = x - 1
    <3>1. 1 \in Int /\ x - 1 \in Int /\ (1 > x - 1 => x - 1 = 0) /\ (x - 1) - 1 + 1 = x - 1
      BY <2>2
    <3> QED BY <3>1, FS_Interval
  <2> QED BY <1>1, <2>3, <2>4
<1> QED BY <1>2, <1>3

\* The lots of q that come after the first n.
Remains(P, n) == IF P <= n THEN 0 ELSE P - n

\* The entries of x are entries of q, with as many lots or fewer.
Pieces(x, q) ==
    \A i \in DOMAIN x : \E j \in DOMAIN q : x[i].fill = q[j].fill /\ x[i].lots <= q[j].lots

\* Every fill of q is one of x.
NoneLeftOut(x, q) == \A j \in DOMAIN q : \E i \in DOMAIN x : x[i].fill = q[j].fill

LEMMA LeadingTotal ==
    ASSUME NEW q, IsQueue(q), NEW n \in Nat
    PROVE  /\ IsQueue(Leading(q, n)) /\ Total(Leading(q, n)) = Least(Total(q), n)
           /\ \A i \in DOMAIN Leading(q, n) : \E j \in DOMAIN q : Leading(q, n)[i].fill = q[j].fill
           /\ Pieces(Leading(q, n), q)
           /\ Total(q) <= n => NoneLeftOut(Leading(q, n), q)
<1> DEFINE L == Len(q)
           I == {j \in DOMAIN q : Before(q, j) < n}
           c == Cardinality(I)
           x == Leading(q, n)
<1>1. /\ DOMAIN q = 1 .. L /\ L \in Nat /\ \A k \in 1 .. L : q[k].lots \in Nat /\ q[k].lots > 0
      /\ IsLots(q)
  BY LotsLength, QueueIsLots DEF IsQueue
<1>2. PICK P : Running(P, q)
  BY <1>1, RunningExists
<1> HIDE DEF L
<1>3. /\ \A i \in 0 .. L : P[i] \in Nat
      /\ P[0] = 0
      /\ \A i \in 1 .. L : P[i] = P[i - 1] + q[i].lots
      /\ \A i \in 1 .. L : Before(q, i) = P[i - 1]
      /\ \A i, j \in 0 .. L : i <= j => P[i] <= P[j]
  BY <1>1, <1>2, BeforeIsRunning, RunningGrows DEF Running, L
<1>4. c \in Nat /\ c <= L /\ I = 1 .. c
  <2>1. \A i \in I : \A j \in 1 .. L : j <= i => j \in I
    <3> TAKE i \in I
    <3> TAKE j \in 1 .. L
    <3>1. ASSUME j <= i
          PROVE  j \in I
      <4>1. i - 1 \in 0 .. L /\ j - 1 \in 0 .. L /\ j - 1 <= i - 1 /\ i \in 1 .. L
        BY <1>1, <3>1
      <4>2. P[j - 1] <= P[i - 1] /\ P[i - 1] < n /\ P[i - 1] \in Nat /\ P[j - 1] \in Nat
        BY <1>1, <1>3, <4>1
      <4>3. P[j - 1] < n
        BY <4>2
      <4> QED BY <1>1, <1>3, <4>3
    <3> QED BY <3>1
  <2>2. I \in SUBSET (1 .. L)
    BY <1>1
  <2> HIDE DEF I
  <2> QED BY <1>1, <2>1, <2>2, FirstIndices
<1>5. /\ x = [i \in 1 .. c |-> [q[i] EXCEPT !.lots = Share(q, i, n)]]
  BY DEF Leading
<1>6. \A i \in 1 .. c : i \in 1 .. L /\ i - 1 \in 0 .. L /\ P[i - 1] < n
  BY <1>1, <1>3, <1>4
<1> HIDE DEF I, c, x
<1>7. ASSUME NEW i \in 1 .. c
      PROVE  /\ Share(q, i, n) = (IF P[i] <= n THEN P[i] ELSE n) - P[i - 1]
             /\ Share(q, i, n) \in Nat \ {0} /\ Share(q, i, n) <= q[i].lots
  <2>1. P[i] = P[i - 1] + q[i].lots /\ Before(q, i) = P[i - 1] /\ P[i - 1] < n
        /\ q[i].lots \in Nat /\ q[i].lots > 0 /\ P[i] \in Nat /\ P[i - 1] \in Nat
    BY <1>1, <1>3, <1>6
  <2>2. Share(q, i, n) = Least(q[i].lots, n - P[i - 1])
    BY <2>1 DEF Share, Most
  <2> QED BY <2>1, <2>2 DEF Least
<1>8. DOMAIN x = 1 .. c /\ \A i \in 1 .. c : x[i] = [q[i] EXCEPT !.lots = Share(q, i, n)]
  BY <1>5
<1>15. IsSeq(x)
  BY <1>4, <1>5, QueueOf
<1>9. Len(x) = c
  BY <1>4, <1>8, <1>15, QueueLength
<1> DEFINE R == [i \in 0 .. c |-> IF P[i] <= n THEN P[i] ELSE n]
<1>10. \A i \in 1 .. c : x[i].lots = Share(q, i, n) /\ x[i].fill = q[i].fill
  BY <1>1, <1>6, <1>8 DEF IsQueue
<1>11. IsQueue(x)
  <2>1. \A i \in 1 .. c : DOMAIN x[i] = {"fill", "lots"} /\ x[i].lots \in Nat \ {0}
    BY <1>1, <1>6, <1>7, <1>8, <1>10 DEF IsQueue
  <2>2. \A i, j \in 1 .. c : x[i].fill = x[j].fill => i = j
    BY <1>1, <1>6, <1>10 DEF IsQueue
  <2> QED BY <1>8, <1>15, <2>1, <2>2 DEF IsQueue
<1>12. Running(R, x)
  <2>1. R \in [0 .. c -> Nat]
    <3>1. \A i \in 0 .. c : P[i] \in Nat
      BY <1>1, <1>3, <1>4
    <3> QED BY <3>1
  <2>2. R[0] = 0
    BY <1>3, <1>4
  <2>3. ASSUME NEW i \in 1 .. c
        PROVE  R[i] = R[i - 1] + x[i].lots
    <3>1. i \in 0 .. c /\ i - 1 \in 0 .. c /\ P[i - 1] < n /\ P[i - 1] \in Nat /\ P[i] \in Nat
      BY <1>1, <1>3, <1>4, <1>6
    <3>2. R[i - 1] = P[i - 1] /\ R[i] = IF P[i] <= n THEN P[i] ELSE n
      BY <3>1
    <3> HIDE DEF R
    <3> QED BY <1>7, <1>10, <3>1, <3>2
  <2> HIDE DEF R
  <2> QED BY <1>9, <2>1, <2>2, <2>3 DEF Running
<1>13. Total(x) = R[c] /\ Total(q) = P[L]
  BY <1>1, <1>2, <1>9, <1>11, <1>12, TotalIsRunning, QueueIsLots DEF L
<1>14. R[c] = Least(P[L], n)
  <2>1. c \in 0 .. c /\ c \in 0 .. L /\ L \in 0 .. L /\ P[c] <= P[L] /\ P[c] \in Nat /\ P[L] \in Nat
    BY <1>1, <1>3, <1>4
  <2>2. c /= L => P[c] >= n
    <3>1. ASSUME c /= L
          PROVE  c + 1 \in 1 .. L /\ c + 1 \notin 1 .. c /\ (c + 1) - 1 = c
      BY <1>1, <1>4, <3>1
    <3>2. c + 1 \in 1 .. L /\ c + 1 \notin 1 .. c => ~(Before(q, c + 1) < n)
      BY <1>1, <1>4 DEF I
    <3> QED BY <1>3, <2>1, <3>1, <3>2
  <2>3. R[c] = IF P[c] <= n THEN P[c] ELSE n
    BY <2>1
  <2> HIDE DEF R
  <2> QED BY <2>1, <2>2, <2>3 DEF Least
<1>16. \A i \in 1 .. c : \E j \in DOMAIN q : x[i].fill = q[j].fill
  BY <1>1, <1>6, <1>10
<1>17. Pieces(x, q)
  <2>1. \A i \in 1 .. c : i \in DOMAIN q /\ x[i].fill = q[i].fill /\ x[i].lots <= q[i].lots
    BY <1>1, <1>6, <1>7, <1>10
  <2> QED BY <1>8, <2>1 DEF Pieces
<1>18. Total(q) <= n => NoneLeftOut(x, q)
  <2>1. SUFFICES ASSUME P[L] <= n PROVE NoneLeftOut(x, q)
    BY <1>13
  <2>2. c = L
    <3>1. ASSUME c /= L PROVE FALSE
      <4>1. c + 1 \in 1 .. L /\ c + 1 \notin 1 .. c /\ (c + 1) - 1 = c /\ c \in 0 .. L
            /\ c + 1 \in 0 .. L /\ L \in 0 .. L
        BY <1>1, <1>4, <3>1
      <4>2. ~(Before(q, c + 1) < n)
        BY <1>1, <1>4, <4>1 DEF I
      <4>3. Before(q, c + 1) = P[c] /\ P[c + 1] = P[c] + q[c + 1].lots /\ P[c + 1] <= P[L]
        BY <1>1, <1>3, <4>1
      <4>4. PICK a \in Nat : a = P[c]
        BY <1>3, <4>1
      <4>5. PICK b \in Nat : b = P[L]
        BY <1>3, <4>1
      <4>6. PICK d \in Nat \ {0} : d = q[c + 1].lots
        BY <1>1, <4>1
      <4>7. a + d <= b /\ b <= n /\ ~(a < n)
        BY ONLY <2>1, <4>2, <4>3, <4>4, <4>5, <4>6
      <4> QED BY ONLY <4>7, a \in Nat, b \in Nat, d \in Nat \ {0}, n \in Nat
    <3> QED BY <3>1
  <2> QED BY <1>1, <1>8, <1>10, <2>2 DEF NoneLeftOut
<1> QED BY <1>8, <1>11, <1>13, <1>14, <1>16, <1>17, <1>18 DEF x

LEMMA TrailingTotal ==
    ASSUME NEW q, IsQueue(q), NEW n \in Nat
    PROVE  /\ IsQueue(Trailing(q, n)) /\ Total(Trailing(q, n)) = Remains(Total(q), n)
           /\ \A i \in DOMAIN Trailing(q, n) : \E j \in DOMAIN q : Trailing(q, n)[i].fill = q[j].fill
           /\ Pieces(Trailing(q, n), q)
<1> DEFINE L == Len(q)
           I == {i \in DOMAIN q : Before(q, i) + q[i].lots <= n}
           g == Cardinality(I)
           m == L - g
           x == Trailing(q, n)
<1>1. /\ DOMAIN q = 1 .. L /\ L \in Nat /\ \A k \in 1 .. L : q[k].lots \in Nat /\ q[k].lots > 0
      /\ IsLots(q)
  BY LotsLength, QueueIsLots DEF IsQueue
<1>2. PICK P : Running(P, q)
  BY <1>1, RunningExists
<1> HIDE DEF L
<1>3. /\ \A i \in 0 .. L : P[i] \in Nat
      /\ P[0] = 0
      /\ \A i \in 1 .. L : P[i] = P[i - 1] + q[i].lots
      /\ \A i \in 1 .. L : Before(q, i) = P[i - 1]
      /\ \A i, j \in 0 .. L : i <= j => P[i] <= P[j]
  BY <1>1, <1>2, BeforeIsRunning, RunningGrows DEF Running, L
<1>4. g \in Nat /\ g <= L /\ I = 1 .. g
  <2>1. \A i \in I : \A j \in 1 .. L : j <= i => j \in I
    <3> TAKE i \in I
    <3> TAKE j \in 1 .. L
    <3>1. ASSUME j <= i
          PROVE  j \in I
      <4>1. i \in 0 .. L /\ j \in 0 .. L /\ i \in 1 .. L
        BY <1>1, <3>1
      <4>2. P[j] <= P[i] /\ P[i] <= n /\ P[i] \in Nat /\ P[j] \in Nat
        BY <1>1, <1>3, <3>1, <4>1
      <4>3. P[j] <= n
        BY <4>2
      <4> QED BY <1>1, <1>3, <4>3
    <3> QED BY <3>1
  <2>2. I \in SUBSET (1 .. L)
    BY <1>1
  <2> HIDE DEF I
  <2> QED BY <1>1, <2>1, <2>2, FirstIndices
<1>5. x = [i \in 1 .. m |-> [q[g + i] EXCEPT !.lots = @ - Share(q, g + i, n)]]
  BY DEF Trailing, L
<1>6. m \in Nat /\ \A i \in 1 .. m : g + i \in 1 .. L /\ (g + i) - 1 \in 0 .. L /\ P[g + i] > n
  <2>1. m \in Nat
    BY <1>1, <1>4
  <2>2. ASSUME NEW i \in 1 .. m
        PROVE  g + i \in 1 .. L /\ (g + i) - 1 \in 0 .. L /\ P[g + i] > n
    <3>1. g + i \in 1 .. L /\ (g + i) - 1 \in 0 .. L /\ g + i \in 0 .. L /\ g + i \notin 1 .. g
      BY <1>1, <1>4
    <3>2. g + i \notin I
      BY <1>4, <3>1
    <3>3. ~(P[g + i] <= n) /\ P[g + i] \in Nat
      BY <1>1, <1>3, <3>1, <3>2
    <3> QED BY <3>1, <3>3
  <2> QED BY <2>1, <2>2
<1> HIDE DEF I, g, m, x
<1>7. ASSUME NEW i \in 1 .. m
      PROVE  /\ q[g + i].lots - Share(q, g + i, n) = P[g + i] - n - Remains(P[(g + i) - 1], n)
             /\ q[g + i].lots - Share(q, g + i, n) \in Nat \ {0}
             /\ q[g + i].lots - Share(q, g + i, n) <= q[g + i].lots
  <2>1. PICK j \in 1 .. L : j = g + i
    BY <1>6
  <2>2. P[j] = P[j - 1] + q[j].lots /\ Before(q, j) = P[j - 1] /\ P[j] > n
        /\ q[j].lots \in Nat /\ q[j].lots > 0 /\ P[j] \in Nat /\ P[j - 1] \in Nat
    BY <1>1, <1>3, <1>6, <2>1
  <2>3. P[j - 1] <= n => Share(q, j, n) = n - P[j - 1]
    BY <2>2 DEF Share, Least, Most
  <2>4. ~(P[j - 1] <= n) => Share(q, j, n) = 0
    BY <2>2 DEF Share, Least, Most
  <2>5. /\ q[j].lots - Share(q, j, n) = P[j] - n - Remains(P[j - 1], n)
        /\ q[j].lots - Share(q, j, n) \in Nat \ {0} /\ q[j].lots - Share(q, j, n) <= q[j].lots
    BY <2>2, <2>3, <2>4 DEF Remains
  <2> QED BY <2>1, <2>5
<1>8. DOMAIN x = 1 .. m /\ \A i \in 1 .. m : x[i] = [q[g + i] EXCEPT !.lots = @ - Share(q, g + i, n)]
  BY <1>5
<1>9. IsSeq(x)
  BY <1>5, <1>6, QueueOf
<1>10. Len(x) = m
  BY <1>6, <1>8, <1>9, QueueLength
<1>11. \A i \in 1 .. m : /\ x[i].lots = q[g + i].lots - Share(q, g + i, n)
                         /\ x[i].fill = q[g + i].fill /\ DOMAIN x[i] = {"fill", "lots"}
  BY <1>1, <1>6, <1>8 DEF IsQueue
<1>12. IsQueue(x)
  <2>1. \A i \in 1 .. m : DOMAIN x[i] = {"fill", "lots"} /\ x[i].lots \in Nat \ {0}
    BY <1>7, <1>11
  <2>2. ASSUME NEW i \in 1 .. m, NEW j \in 1 .. m, x[i].fill = x[j].fill
        PROVE  i = j
    <3>1. g + i = g + j
      BY <1>1, <1>6, <1>11, <2>2 DEF IsQueue
    <3> QED BY <1>4, <1>6, <3>1
  <2> QED BY <1>8, <1>9, <2>1, <2>2 DEF IsQueue
<1> DEFINE R == [i \in 0 .. m |-> Remains(P[g + i], n)]
<1>13. Running(R, x)
  <2>1. R \in [0 .. m -> Nat]
    <3>1. \A i \in 0 .. m : g + i \in 0 .. L
      BY <1>1, <1>4 DEF m
    <3>2. \A i \in 0 .. m : P[g + i] \in Nat
      BY <1>3, <3>1
    <3>3. \A p \in Nat : Remains(p, n) \in Nat
      BY DEF Remains
    <3> QED BY <3>2, <3>3
  <2>2. R[0] = 0
    <3>1. P[g] <= n
      <4>1. g = 0 \/ (g \in 1 .. L /\ g \in I)
        BY <1>1, <1>4
      <4>2. g \in 1 .. L /\ g \in I => P[g] <= n
        BY <1>1, <1>3 DEF I
      <4> QED BY <1>3, <4>1, <4>2
    <3>2. g + 0 = g /\ 0 \in 0 .. m
      BY <1>4, <1>6
    <3> QED BY <3>1, <3>2 DEF Remains
  <2>3. ASSUME NEW i \in 1 .. m
        PROVE  R[i] = R[i - 1] + x[i].lots
    <3>1. i \in 0 .. m /\ i - 1 \in 0 .. m /\ g + (i - 1) = (g + i) - 1
      BY <1>4, <1>6
    <3>2. R[i - 1] = Remains(P[(g + i) - 1], n) /\ R[i] = P[g + i] - n
      BY <1>3, <1>6, <3>1 DEF Remains
    <3>3. P[g + i] \in Nat /\ P[(g + i) - 1] \in Nat /\ R[i - 1] \in Nat
      BY <1>1, <1>3, <1>6, <2>1, <3>1
    <3> HIDE DEF R
    <3> QED BY <1>7, <1>11, <3>2, <3>3
  <2> HIDE DEF R
  <2> QED BY <1>10, <2>1, <2>2, <2>3 DEF Running
<1>14. Total(x) = R[m] /\ Total(q) = P[L]
  BY <1>1, <1>2, <1>10, <1>12, <1>13, TotalIsRunning, QueueIsLots DEF L
<1>15. R[m] = Remains(P[L], n)
  BY <1>1, <1>4, <1>6 DEF m
<1>16. \A i \in 1 .. m : \E j \in DOMAIN q : x[i].fill = q[j].fill
  BY <1>1, <1>6, <1>11
<1>17. Pieces(x, q)
  <2>1. \A i \in 1 .. m : g + i \in DOMAIN q /\ x[i].fill = q[g + i].fill /\ x[i].lots <= q[g + i].lots
    BY <1>1, <1>6, <1>7, <1>11
  <2> QED BY <1>8, <2>1 DEF Pieces
<1> QED BY <1>8, <1>12, <1>14, <1>15, <1>16, <1>17 DEF x

-----------------------------------------------------------------------------
\* Queues with other fills: more of each, some of them, and two joined.

\* Running sums of numbers.
Sums(F, f, n) ==
    F \in [0 .. n -> Nat] /\ F[0] = 0 /\ \A i \in 1 .. n : F[i] = F[i - 1] + f[i]

LEMMA SumsGrow ==
    ASSUME NEW n \in Nat, NEW f \in [1 .. n -> Nat], NEW F, Sums(F, f, n),
           NEW i \in 0 .. n, NEW j \in 0 .. n, i <= j
    PROVE  F[i] <= F[j]
<1> DEFINE q == [k \in 1 .. n |-> [lots |-> f[k]]]
<1>1. IsSeq(q) /\ DOMAIN q = 1 .. n /\ \A k \in 1 .. n : q[k].lots = f[k]
  BY QueueOf
<1> HIDE DEF q
<1>2. IsLots(q) /\ Len(q) = n
  <2>1. IsLots(q)
    BY <1>1 DEF IsLots
  <2> QED BY <1>1, <2>1, LotsLength
<1>3. Running(F, q)
  BY <1>1, <1>2 DEF Running, Sums
<1> QED BY <1>2, <1>3, RunningGrows

\* Numbers that fit under different ones of others add up to no more.
LEMMA Dominated ==
    ASSUME NEW n \in Nat, NEW m \in Nat, NEW g \in [1 .. m -> Nat], NEW G, Sums(G, g, m),
           NEW f0 \in [1 .. n -> Nat], NEW F0, Sums(F0, f0, n),
           NEW h \in [1 .. m -> 1 .. n], \A i, j \in 1 .. m : h[i] = h[j] => i = j,
           \A i \in 1 .. m : g[i] <= f0[h[i]]
    PROVE  G[m] <= F0[n]
<1> DEFINE Fits(k, f, F) == /\ Sums(F, f, n) /\ \A i \in 1 .. k : g[i] <= f[h[i]]
                            /\ ~(G[k] <= F[n])
           Fails == {k \in Nat : k <= m /\ \E f \in [1 .. n -> Nat] : \E F : Fits(k, f, F)}
<1>1. ASSUME Fails /= {}
      PROVE  FALSE
  <2>1. PICK k \in Fails : \A l \in Fails : k <= l
    BY <1>1, LeastElement
  <2>2. PICK f \in [1 .. n -> Nat] : \E F : Fits(k, f, F)
    BY <2>1
  <2>3. PICK F : Fits(k, f, F)
    BY <2>2
  <2>4. /\ k \in Nat /\ k <= m /\ \A i \in 0 .. n : F[i] \in Nat
        /\ F[0] = 0 /\ \A i \in 1 .. n : F[i] = F[i - 1] + f[i]
        /\ \A i \in 0 .. m : G[i] \in Nat
        /\ G[0] = 0 /\ \A i \in 1 .. m : G[i] = G[i - 1] + g[i]
        /\ \A i \in 1 .. k : g[i] <= f[h[i]]
        /\ ~(G[k] <= F[n])
    BY <2>1, <2>3 DEF Sums
  <2>5. k /= 0
    BY <2>4
  <2>6. k \in 1 .. m /\ k - 1 \in Nat /\ k - 1 <= m /\ ~(k <= k - 1) /\ k - 1 \in 0 .. m /\ k \in 1 .. k
    BY <2>4, <2>5
  <2>7. k - 1 \notin Fails
    BY <2>1, <2>6
  <2>8. PICK j \in 1 .. n : j = h[k]
    BY <2>6
  <2> DEFINE e == [f EXCEPT ![j] = 0]
             E == [i \in 0 .. n |-> IF i < j THEN F[i] ELSE F[i] - f[j]]
  <2>9. e \in [1 .. n -> Nat]
    OBVIOUS
  <2>10. Sums(E, e, n)
    <3>1. \A i \in 0 .. n : ~(i < j) => F[i] >= f[j]
      <4> TAKE i \in 0 .. n
      <4>1. ASSUME ~(i < j)
            PROVE  F[i] >= f[j]
        <5>1. j \in 0 .. n /\ j <= i /\ j - 1 \in 0 .. n
          BY <4>1
        <5>2. F[j] <= F[i]
          BY <2>3, <5>1, SumsGrow
        <5>3. F[j] = F[j - 1] + f[j] /\ F[j - 1] \in Nat /\ f[j] \in Nat /\ F[i] \in Nat /\ F[j] \in Nat
          BY <2>4, <5>1
        <5>4. PICK a \in Nat : a = F[j]
          BY <5>3
        <5>5. PICK b \in Nat : b = f[j]
          BY <5>3
        <5>6. PICK c \in Nat : c = F[i]
          BY <5>3
        <5>7. PICK d \in Nat : d = F[j - 1]
          BY <5>3
        <5>8. a <= c /\ a = d + b
          BY ONLY <5>2, <5>3, <5>4, <5>5, <5>6, <5>7
        <5>9. c >= b
          BY ONLY <5>8, a \in Nat, b \in Nat, c \in Nat, d \in Nat
        <5> QED BY ONLY <5>5, <5>6, <5>9
      <4> QED BY <4>1
    <3>2. E \in [0 .. n -> Nat]
      <4>1. ASSUME NEW i \in 0 .. n
            PROVE  (IF i < j THEN F[i] ELSE F[i] - f[j]) \in Nat
        <5>1. F[i] \in Nat /\ f[j] \in Nat
          BY <2>4
        <5>2. ~(i < j) => F[i] >= f[j]
          BY <3>1
        <5> QED BY ONLY <5>1, <5>2
      <4> QED BY ONLY <4>1
    <3>3. E[0] = 0
      <4>1. 0 \in 0 .. n /\ 0 < j
        OBVIOUS
      <4> QED BY ONLY <2>4, <4>1
    <3>4. ASSUME NEW i \in 1 .. n
          PROVE  E[i] = E[i - 1] + e[i]
      <4>1. i \in 0 .. n /\ i - 1 \in 0 .. n
        OBVIOUS
      <4>2. F[i] = F[i - 1] + f[i] /\ F[i - 1] \in Nat /\ f[i] \in Nat /\ f[j] \in Nat
        BY <2>4, <4>1
      <4>3. e[i] = IF i = j THEN 0 ELSE f[i]
        OBVIOUS
      <4>4. /\ E[i] = IF i < j THEN F[i] ELSE F[i] - f[j]
            /\ E[i - 1] = IF i - 1 < j THEN F[i - 1] ELSE F[i - 1] - f[j]
        BY <4>1
      <4>5. CASE i < j
        <5>1. i - 1 < j /\ i /= j
          BY <4>5
        <5> HIDE DEF e, E
        <5> QED BY ONLY <4>2, <4>3, <4>4, <4>5, <5>1
      <4>6. CASE i = j
        <5>1. i - 1 < j /\ ~(i < j)
          BY <4>6
        <5> HIDE DEF e, E
        <5>2. E[i] = F[i] - f[i] /\ E[i - 1] = F[i - 1] /\ e[i] = 0
          BY ONLY <4>3, <4>4, <4>6, <5>1
        <5> QED BY ONLY <4>2, <5>2
      <4>7. CASE j < i
        <5>1. ~(i - 1 < j) /\ ~(i < j) /\ i /= j
          BY <4>7
        <5> HIDE DEF e, E
        <5>2. E[i] = F[i] - f[j] /\ E[i - 1] = F[i - 1] - f[j] /\ e[i] = f[i]
          BY ONLY <4>3, <4>4, <5>1
        <5>3. F[i] - f[j] = (F[i - 1] - f[j]) + f[i]
          <6>1. PICK a \in Nat : a = F[i - 1]
            BY ONLY <4>2
          <6>2. PICK b \in Nat : b = f[i]
            BY ONLY <4>2
          <6>3. PICK c \in Nat : c = f[j]
            BY ONLY <4>2
          <6>4. F[i] = a + b
            BY ONLY <4>2, <6>1, <6>2
          <6>5. (a + b) - c = (a - c) + b
            OBVIOUS
          <6> QED BY ONLY <6>1, <6>2, <6>3, <6>4, <6>5
        <5> QED BY ONLY <5>2, <5>3
      <4> QED BY <4>5, <4>6, <4>7
    <3> HIDE DEF e, E
    <3> QED BY <3>2, <3>3, <3>4 DEF Sums
  <2>11. \A i \in 1 .. k - 1 : g[i] <= e[h[i]]
    <3> TAKE i \in 1 .. k - 1
    <3>1. i \in 1 .. m /\ i \in 1 .. k /\ i /= k
      BY <2>6
    <3>2. h[i] /= j /\ h[i] \in 1 .. n
      BY <2>6, <2>8, <3>1
    <3> QED BY <2>4, <3>1, <3>2
  <2>12. E[n] = F[n] - f[j]
    OBVIOUS
  <2> HIDE DEF e, E
  <2>13. ~Fits(k - 1, e, E)
    BY <2>6, <2>7, <2>9
  <2>14. G[k - 1] <= F[n] - f[j]
    BY <2>10, <2>11, <2>12, <2>13
  <2>15. G[k] = G[k - 1] + g[k] /\ g[k] <= f[j] /\ G[k - 1] \in Nat /\ g[k] \in Nat /\ f[j] \in Nat
    BY <2>4, <2>6, <2>8
  <2>16. F[n] \in Nat
    BY <2>4
  <2>17. G[k] \in Nat /\ ~(G[k] <= F[n])
    BY <2>4, <2>6
  <2>18. G[k] <= F[n]
    <3>1. PICK a \in Nat : a = G[k - 1]
      BY <2>15
    <3>2. PICK b \in Nat : b = g[k]
      BY <2>15
    <3>3. PICK c \in Nat : c = f[j]
      BY <2>15
    <3>4. PICK d \in Nat : d = F[n]
      BY <2>16
    <3>5. G[k] = a + b /\ b <= c /\ a <= d - c
      BY ONLY <2>14, <2>15, <3>1, <3>2, <3>3, <3>4
    <3>6. a + b <= d
      BY <3>5
    <3> QED BY ONLY <3>4, <3>5, <3>6
  <2> QED BY <2>17, <2>18
<1> HIDE DEF Fails
<1>2. m \notin Fails /\ m \in Nat /\ m <= m
  <2>1. m \notin Fails
    BY ONLY <1>1
  <2> QED BY <2>1
<1>3. ASSUME NEW f \in [1 .. n -> Nat], NEW F
      PROVE  ~Fits(m, f, F)
  BY ONLY <1>2, f \in [1 .. n -> Nat] DEF Fails
<1>4. ~Fits(m, f0, F0)
  BY <1>3
<1> QED BY <1>4

LEMMA MaxOfPair == \A n \in Nat : Max({0} \cup {n}) = n /\ Max({0}) = 0
<1> SUFFICES ASSUME NEW n \in Nat PROVE Max({0} \cup {n}) = n /\ Max({0}) = 0 OBVIOUS
<1>1. \E x \in {0} \cup {n} : \A y \in {0} \cup {n} : x >= y
  <2>1. \A y \in {0} \cup {n} : n >= y
    OBVIOUS
  <2> QED BY <2>1
<1>2. Max({0} \cup {n}) \in {0} \cup {n} /\ \A y \in {0} \cup {n} : Max({0} \cup {n}) >= y
  BY <1>1 DEF Max
<1>3. Max({0}) \in {0}
  BY DEF Max
<1> QED BY <1>2, <1>3

\* The lots a queue has of a fill.
LEMMA LotsInQueue ==
    ASSUME NEW q, IsQueue(q), NEW f
    PROVE  /\ \A i \in DOMAIN q : q[i].fill = f => LotsIn(q, f) = q[i].lots
           /\ (\A i \in DOMAIN q : q[i].fill /= f) => LotsIn(q, f) = 0
           /\ LotsIn(q, f) \in Nat
<1> DEFINE I == {j \in DOMAIN q : q[j].fill = f}
<1>1. ASSUME NEW i \in DOMAIN q, q[i].fill = f
      PROVE  LotsIn(q, f) = q[i].lots /\ q[i].lots \in Nat
  <2>1. I = {i} /\ q[i].lots \in Nat
    BY <1>1 DEF IsQueue
  <2>2. {q[j].lots : j \in I} = {q[i].lots}
    BY <2>1
  <2> QED BY <2>1, <2>2, MaxOfPair DEF LotsIn
<1>2. ASSUME \A i \in DOMAIN q : q[i].fill /= f
      PROVE  LotsIn(q, f) = 0
  <2>1. {q[j].lots : j \in I} = {}
    BY <1>2
  <2> QED BY <2>1, MaxOfPair DEF LotsIn
<1> QED BY <1>1, <1>2

\* Picking entries keeps each of them once.
LEMMA PickedEntries ==
    ASSUME NEW q, IsSeq(q), NEW I \in SUBSET DOMAIN q
    PROVE  \E h \in [DOMAIN At(q, I) -> I] :
              /\ \A k \in DOMAIN At(q, I) : At(q, I)[k] = q[h[k]]
              /\ \A k, l \in DOMAIN At(q, I) : h[k] = h[l] => k = l
              /\ \A i \in I : \E k \in DOMAIN At(q, I) : h[k] = i
<1> DEFINE c == Cardinality(I)
           r == [i \in I |-> Cardinality({j \in I : j <= i})]
           h == [k \in 1 .. c |-> CHOOSE i \in I : r[i] = k]
<1>1. DOMAIN q = 1 .. Len(q) /\ Len(q) \in Nat
  BY QueueLength
<1>2. IsFiniteSet(I) /\ c \in Nat
  BY <1>1, IndicesAreFinite
<1> HIDE DEF c
<1>3. \A i \in I : r[i] \in 1 .. c
  <2> TAKE i \in I
  <2> DEFINE J == {j \in I : j <= i}
  <2>1. J \in SUBSET I /\ i \in J
    BY <1>1
  <2> HIDE DEF J
  <2>2. IsFiniteSet(J) /\ Cardinality(J) <= c /\ Cardinality(J) \in Nat
    BY <1>2, <2>1, FS_Subset, FS_CardinalityType DEF c
  <2>3. Cardinality(J) /= 0
    BY <2>1, <2>2, FS_EmptySet
  <2> QED BY <1>2, <2>2, <2>3 DEF J
<1>4. \A i, j \in I : r[i] = r[j] => i = j
  <2>1. ASSUME NEW i \in I, NEW j \in I, i < j
        PROVE  r[i] /= r[j]
    <3> DEFINE A == {k \in I : k <= i}
               B == {k \in I : k <= j}
    <3>1. A \in SUBSET B /\ j \in B /\ j \notin A /\ B \in SUBSET I
      BY <1>1, <2>1
    <3>2. r[i] = Cardinality(A) /\ r[j] = Cardinality(B)
      OBVIOUS
    <3> HIDE DEF A, B
    <3>3. IsFiniteSet(B)
      BY <1>2, <3>1, FS_Subset
    <3>4. Cardinality(B) = Cardinality(A) => B = A
      BY <3>1, <3>3, FS_Subset
    <3> QED BY <3>1, <3>2, <3>4
  <2>2. \A i, j \in I : i < j \/ j < i \/ i = j
    BY <1>1
  <2> QED BY <2>1, <2>2
<1>5. \A k \in 1 .. c : \E i \in I : r[i] = k
  <2>1. r \in Injection(I, 1 .. c)
    BY <1>3, <1>4 DEF Injection, IsInjective
  <2>2. IsFiniteSet(1 .. c) /\ Cardinality(1 .. c) = c
    <3>1. (1 > c => c = 0) /\ c - 1 + 1 = c /\ 1 \in Int /\ c \in Int
      BY <1>2
    <3> QED BY <3>1, FS_Interval
  <2>3. r \in Surjection(I, 1 .. c)
    BY <2>1, <2>2, FS_Injection DEF c
  <2> QED BY <2>3 DEF Surjection
<1>6. DOMAIN At(q, I) = 1 .. c /\ \A k \in 1 .. c : At(q, I)[k] = q[h[k]]
  <2> DEFINE pick(k) == CHOOSE i \in I : Cardinality({j \in I : j <= i}) = k
  <2>1. At(q, I) = [k \in 1 .. c |-> q[pick(k)]]
    BY DEF At, c
  <2>2. ASSUME NEW k \in 1 .. c
        PROVE  pick(k) = h[k]
    <3>1. \A i \in I : r[i] = Cardinality({j \in I : j <= i})
      OBVIOUS
    <3>2. (CHOOSE i \in I : Cardinality({j \in I : j <= i}) = k) = CHOOSE i \in I : r[i] = k
      BY ONLY <3>1
    <3>3. h[k] = CHOOSE i \in I : r[i] = k
      OBVIOUS
    <3> HIDE DEF r, h
    <3> QED BY ONLY <3>2, <3>3
  <2> HIDE DEF pick, h
  <2> QED BY ONLY <2>1, <2>2
<1> HIDE DEF r
<1>7. \A k \in 1 .. c : h[k] \in I /\ r[h[k]] = k
  BY <1>5
<1> HIDE DEF h
<1>8. h \in [1 .. c -> I]
  BY <1>7 DEF h
<1>9. \A k, l \in 1 .. c : h[k] = h[l] => k = l
  BY <1>7
<1>10. \A i \in I : \E k \in 1 .. c : h[k] = i
  BY <1>3, <1>4, <1>7
<1>11. h \in [DOMAIN At(q, I) -> I]
  BY ONLY <1>6, <1>8
<1>12. PICK d : d = DOMAIN At(q, I)
  OBVIOUS
<1>13. PICK x : x = At(q, I)
  OBVIOUS
<1>14. /\ d = 1 .. c /\ h \in [d -> I]
       /\ \A k \in d : x[k] = q[h[k]]
       /\ \A k, l \in d : h[k] = h[l] => k = l
       /\ \A i \in I : \E k \in d : h[k] = i
  BY ONLY <1>6, <1>9, <1>10, <1>11, <1>12, <1>13
<1>15. \E y \in [d -> I] :
          /\ \A k \in d : x[k] = q[y[k]]
          /\ \A k, l \in d : y[k] = y[l] => k = l
          /\ \A i \in I : \E k \in d : y[k] = i
  BY ONLY <1>14
<1> QED BY ONLY <1>12, <1>13, <1>15

\* A queue that has every fill of another, with as many lots, has more lots.
LEMMA CoveredTotal ==
    ASSUME NEW p, NEW q, IsQueue(p), IsQueue(q),
           \A i \in DOMAIN p : \E k \in DOMAIN q : q[k].fill = p[i].fill /\ p[i].lots <= q[k].lots
    PROVE  Total(p) <= Total(q)
<1>1. PICK m \in Nat : m = Len(p) /\ DOMAIN p = 1 .. m
  BY QueueIsLots, LotsLength
<1>2. PICK n \in Nat : n = Len(q) /\ DOMAIN q = 1 .. n
  BY QueueIsLots, LotsLength
<1>3. PICK G : Running(G, p)
  BY QueueIsLots, RunningExists
<1>4. PICK F : Running(F, q)
  BY QueueIsLots, RunningExists
<1> DEFINE g == [i \in 1 .. m |-> p[i].lots]
           f == [i \in 1 .. n |-> q[i].lots]
           h == [i \in 1 .. m |-> CHOOSE k \in 1 .. n : q[k].fill = p[i].fill /\ p[i].lots <= q[k].lots]
<1>5. g \in [1 .. m -> Nat] /\ \A i \in 1 .. m : g[i] = p[i].lots
  BY <1>1 DEF IsQueue
<1>6. f \in [1 .. n -> Nat] /\ \A i \in 1 .. n : f[i] = q[i].lots
  BY <1>2 DEF IsQueue
<1>7. \A i \in 1 .. m : h[i] \in 1 .. n /\ q[h[i]].fill = p[i].fill /\ p[i].lots <= q[h[i]].lots
  <2> TAKE i \in 1 .. m
  <2>1. \E k \in 1 .. n : q[k].fill = p[i].fill /\ p[i].lots <= q[k].lots
    BY <1>1, <1>2
  <2>2. h[i] = CHOOSE k \in 1 .. n : q[k].fill = p[i].fill /\ p[i].lots <= q[k].lots
    OBVIOUS
  <2> HIDE DEF h
  <2> QED BY <2>1, <2>2
<1>8. h \in [1 .. m -> 1 .. n]
  BY <1>7
<1> HIDE DEF g, f, h
<1>9. \A i, j \in 1 .. m : h[i] = h[j] => i = j
  <2> SUFFICES ASSUME NEW i \in 1 .. m, NEW j \in 1 .. m, h[i] = h[j]
               PROVE  i = j
    OBVIOUS
  <2>1. p[i].fill = p[j].fill
    BY <1>7
  <2> QED BY <1>1, <2>1 DEF IsQueue
<1>10. \A i \in 1 .. m : g[i] <= f[h[i]]
  BY <1>5, <1>6, <1>7
<1>11. Sums(G, g, m)
  BY <1>1, <1>3, <1>5 DEF Sums, Running
<1>12. Sums(F, f, n)
  BY <1>2, <1>4, <1>6 DEF Sums, Running
<1>13. G[m] <= F[n]
  BY ONLY <1>5, <1>6, <1>8, <1>9, <1>10, <1>11, <1>12, Dominated, m \in Nat, n \in Nat
<1>14. Total(p) = G[m] /\ Total(q) = F[n]
  BY <1>1, <1>2, <1>3, <1>4, QueueIsLots, TotalIsRunning
<1> QED BY <1>13, <1>14

LEMMA NoLotsNoEntries ==
    ASSUME NEW q, IsQueue(q), Total(q) = 0
    PROVE  DOMAIN q = {}
<1>1. PICK n \in Nat : n = Len(q) /\ DOMAIN q = 1 .. n
  BY QueueIsLots, LotsLength
<1>2. PICK P : Running(P, q)
  BY QueueIsLots, RunningExists
<1>3. P[n] = 0
  BY <1>1, <1>2, QueueIsLots, TotalIsRunning
<1>4. ASSUME n /= 0
      PROVE  FALSE
  <2>1. n \in 1 .. n /\ n - 1 \in 0 .. n /\ n \in 0 .. n
    BY <1>4
  <2>2. P[n] = P[n - 1] + q[n].lots
    BY <1>1, <1>2, <2>1 DEF Running
  <2>3. PICK a \in Nat : a = P[n - 1]
    BY <1>1, <1>2, <2>1 DEF Running
  <2>4. PICK b \in Nat \ {0} : b = q[n].lots
    BY <1>1, <2>1 DEF IsQueue
  <2> QED BY ONLY <1>3, <2>2, <2>3, <2>4
<1> QED BY <1>1, <1>4

\* Queues without a fill in common, one after the other.
Joins(x, a, b) ==
    /\ \A k \in DOMAIN x : (\E i \in DOMAIN a : x[k] = a[i]) \/ (\E i \in DOMAIN b : x[k] = b[i])
    /\ \A i \in DOMAIN a : \E k \in DOMAIN x : x[k] = a[i]
    /\ \A i \in DOMAIN b : \E k \in DOMAIN x : x[k] = b[i]

LEMMA JoinedQueue ==
    ASSUME NEW a, NEW b, IsQueue(a), IsQueue(b),
           \A i \in DOMAIN a, j \in DOMAIN b : a[i].fill /= b[j].fill
    PROVE  IsQueue(a \o b) /\ Total(a \o b) = Total(a) + Total(b) /\ Joins(a \o b, a, b)
<1>1. PICK m \in Nat : m = Len(a) /\ DOMAIN a = 1 .. m
  BY QueueIsLots, LotsLength
<1>2. PICK n \in Nat : n = Len(b) /\ DOMAIN b = 1 .. n
  BY QueueIsLots, LotsLength
<1>3. PICK x : x = a \o b
  OBVIOUS
<1>4. /\ IsLots(x) /\ Total(x) = Total(a) + Total(b) /\ Len(x) = m + n
      /\ \A i \in 1 .. m : x[i] = a[i]
      /\ \A i \in 1 .. n : x[m + i] = b[i]
  BY <1>1, <1>2, <1>3, QueueIsLots, TotalJoined
<1>5. DOMAIN x = 1 .. m + n /\ IsSeq(x)
  BY <1>4, LotsLength DEF IsLots
<1>6. \A k \in DOMAIN x : \/ k \in 1 .. m /\ x[k] = a[k]
                          \/ k - m \in 1 .. n /\ x[k] = b[k - m]
  <2> TAKE k \in DOMAIN x
  <2>1. CASE k <= m
    BY <1>4, <1>5, <2>1
  <2>2. CASE ~(k <= m)
    <3>1. k - m \in 1 .. n /\ m + (k - m) = k
      BY <1>5, <2>2
    <3> QED BY <1>4, <3>1
  <2> QED BY <2>1, <2>2
<1>7. \A k \in DOMAIN x : DOMAIN x[k] = {"fill", "lots"} /\ x[k].lots \in Nat \ {0}
  <2> TAKE k \in DOMAIN x
  <2>1. \/ \E i \in DOMAIN a : x[k] = a[i]
        \/ \E i \in DOMAIN b : x[k] = b[i]
    BY <1>1, <1>2, <1>6
  <2> QED BY <2>1 DEF IsQueue
<1>8. \A k, l \in DOMAIN x : x[k].fill = x[l].fill => k = l
  <2> SUFFICES ASSUME NEW k \in DOMAIN x, NEW l \in DOMAIN x, x[k].fill = x[l].fill
               PROVE  k = l
    OBVIOUS
  <2>1. k \in Int /\ l \in Int
    BY <1>5
  <2>2. CASE k \in 1 .. m /\ x[k] = a[k]
    <3>1. l \in 1 .. m /\ x[l] = a[l]
      BY <1>1, <1>2, <1>6, <2>2
    <3> QED BY <1>1, <2>2, <3>1 DEF IsQueue
  <2>3. CASE k - m \in 1 .. n /\ x[k] = b[k - m]
    <3>1. l - m \in 1 .. n /\ x[l] = b[l - m]
      BY <1>1, <1>2, <1>6, <2>3
    <3>2. k - m = l - m
      BY <1>2, <2>3, <3>1 DEF IsQueue
    <3> QED BY <2>1, <3>2
  <2> QED BY <1>6, <2>2, <2>3
<1>9. \A i \in DOMAIN a : \E k \in DOMAIN x : x[k] = a[i]
  BY <1>1, <1>4, <1>5
<1>10. \A i \in DOMAIN b : \E k \in DOMAIN x : x[k] = b[i]
  <2> TAKE i \in DOMAIN b
  <2>1. m + i \in DOMAIN x
    BY <1>2, <1>5
  <2> QED BY <1>2, <1>4, <2>1
<1>11. IsQueue(x)
  BY <1>5, <1>7, <1>8 DEF IsQueue
<1>12. \A k \in DOMAIN x : (\E i \in DOMAIN a : x[k] = a[i]) \/ (\E i \in DOMAIN b : x[k] = b[i])
  BY <1>1, <1>2, <1>6
<1>13. Joins(x, a, b)
  BY <1>9, <1>10, <1>12 DEF Joins
<1> QED BY ONLY <1>3, <1>4, <1>11, <1>13

-----------------------------------------------------------------------------
\* Queues of two rows, merged.

\* Some entries of a queue, in its order.
LEMMA PickedQueue ==
    ASSUME NEW q, IsQueue(q), NEW I \in SUBSET DOMAIN q
    PROVE  /\ IsQueue(At(q, I))
           /\ \A k \in DOMAIN At(q, I) : \E i \in I : At(q, I)[k] = q[i]
           /\ \A i \in I : \E k \in DOMAIN At(q, I) : At(q, I)[k] = q[i]
<1>1. PICK x : x = At(q, I)
  OBVIOUS
<1>2. IsSeq(q)
  BY DEF IsQueue
<1>3. IsSeq(x)
  BY <1>1, <1>2, QueuePicked
<1>4. PICK h \in [DOMAIN x -> I] : /\ \A k \in DOMAIN x : x[k] = q[h[k]]
                                   /\ \A k, l \in DOMAIN x : h[k] = h[l] => k = l
                                   /\ \A i \in I : \E k \in DOMAIN x : h[k] = i
  BY <1>1, <1>2, PickedEntries
<1>5. \A k \in DOMAIN x : h[k] \in I /\ h[k] \in DOMAIN q
  BY <1>4
<1>6. \A k \in DOMAIN x : DOMAIN x[k] = {"fill", "lots"} /\ x[k].lots \in Nat \ {0}
  <2> TAKE k \in DOMAIN x
  <2>1. x[k] = q[h[k]] /\ h[k] \in DOMAIN q
    BY <1>4, <1>5
  <2> QED BY <2>1 DEF IsQueue
<1>7. \A k, l \in DOMAIN x : x[k].fill = x[l].fill => k = l
  <2> SUFFICES ASSUME NEW k \in DOMAIN x, NEW l \in DOMAIN x, x[k].fill = x[l].fill
               PROVE  k = l
    OBVIOUS
  <2>1. q[h[k]].fill = q[h[l]].fill /\ h[k] \in DOMAIN q /\ h[l] \in DOMAIN q
    BY <1>4, <1>5
  <2>2. h[k] = h[l]
    BY <2>1 DEF IsQueue
  <2> QED BY <1>4, <2>2
<1>8. \A k \in DOMAIN x : \E i \in I : x[k] = q[i]
  BY <1>4, <1>5
<1>9. \A i \in I : \E k \in DOMAIN x : x[k] = q[i]
  BY <1>4
<1>10. IsQueue(x)
  BY <1>3, <1>6, <1>7 DEF IsQueue
<1> QED BY <1>1, <1>8, <1>9, <1>10

\* The fills of queues a and b, each with the lots of the larger entry.
Unites(both, a, b) ==
    /\ IsQueue(both) /\ Total(a) <= Total(both) /\ Total(b) <= Total(both)
    /\ \A k \in DOMAIN both : \/ \E i \in DOMAIN a : both[k].fill = a[i].fill
                              \/ \E i \in DOMAIN b : both[k].fill = b[i].fill
    /\ NoneLeftOut(both, b)
    /\ DOMAIN a = {} => Pieces(both, b)
    /\ DOMAIN b = {} => Pieces(both, a)

LEMMA MergedEntries ==
    ASSUME NEW a, NEW b, IsQueue(a), IsQueue(b), NEW n \in Nat
    PROVE  \E both : Unites(both, a, b) /\ MergedQueue(a, b, n) = Leading(both, n)
<1> DEFINE first == [i \in DOMAIN a |-> [a[i] EXCEPT !.lots = Most(@, LotsIn(b, a[i].fill))]]
           I == {i \in DOMAIN b : LotsIn(a, b[i].fill) = 0}
           rest == At(b, I)
<1>1. PICK m \in Nat : m = Len(a) /\ DOMAIN a = 1 .. m
  BY QueueIsLots, LotsLength
<1>2. \A i \in DOMAIN a : /\ first[i].fill = a[i].fill /\ DOMAIN first[i] = {"fill", "lots"}
                          /\ first[i].lots \in Nat \ {0} /\ a[i].lots <= first[i].lots
                          /\ LotsIn(b, a[i].fill) <= first[i].lots
                          /\ LotsIn(b, a[i].fill) = 0 => first[i].lots <= a[i].lots
  <2> TAKE i \in DOMAIN a
  <2>1. DOMAIN a[i] = {"fill", "lots"} /\ a[i].lots \in Nat \ {0}
    BY DEF IsQueue
  <2>2. PICK x \in Nat : x = LotsIn(b, a[i].fill)
    BY LotsInQueue
  <2>3. PICK e : e = a[i]
    OBVIOUS
  <2>4. first[i] = [e EXCEPT !.lots = Most(e.lots, x)]
    BY <2>2, <2>3
  <2>5. first[i].fill = e.fill /\ DOMAIN first[i] = {"fill", "lots"} /\ first[i].lots = Most(e.lots, x)
    BY <2>1, <2>3, <2>4
  <2>6. PICK y \in Nat \ {0} : y = e.lots
    BY <2>1, <2>3
  <2>7. /\ Most(y, x) \in Nat \ {0} /\ y <= Most(y, x) /\ x <= Most(y, x)
        /\ x = 0 => Most(y, x) <= y
    BY DEF Most
  <2> HIDE DEF first
  <2> QED BY ONLY <2>2, <2>3, <2>5, <2>6, <2>7
<1>3. DOMAIN first = DOMAIN a /\ IsSeq(first)
  <2>1. DOMAIN first = DOMAIN a /\ first = [i \in 1 .. m |-> first[i]]
    BY <1>1
  <2> HIDE DEF first
  <2> QED BY <2>1, QueueOf
<1>4. I \in SUBSET DOMAIN b /\ \A i \in DOMAIN b : i \in I <=> LotsIn(a, b[i].fill) = 0
  OBVIOUS
<1>5. MergedQueue(a, b, n) = Leading(first \o rest, n)
  BY DEF MergedQueue
<1> HIDE DEF first, I
<1>6. IsQueue(first)
  <2>1. \A i, j \in DOMAIN first : first[i].fill = first[j].fill => i = j
    BY <1>2, <1>3 DEF IsQueue
  <2> QED BY <1>2, <1>3, <2>1 DEF IsQueue
<1>7. /\ IsQueue(rest)
      /\ \A k \in DOMAIN rest : \E i \in I : rest[k] = b[i]
      /\ \A i \in I : \E k \in DOMAIN rest : rest[k] = b[i]
  BY <1>4, PickedQueue
<1> HIDE DEF rest
<1>8. \A i \in DOMAIN first, j \in DOMAIN rest : first[i].fill /= rest[j].fill
  <2> SUFFICES ASSUME NEW i \in DOMAIN first, NEW j \in DOMAIN rest, first[i].fill = rest[j].fill
               PROVE  FALSE
    OBVIOUS
  <2>1. PICK k \in I : rest[j] = b[k]
    BY <1>7
  <2>2. a[i].fill = b[k].fill /\ i \in DOMAIN a /\ LotsIn(a, b[k].fill) = 0
    BY <1>2, <1>3, <1>4, <2>1
  <2>3. LotsIn(a, b[k].fill) = a[i].lots /\ a[i].lots \in Nat \ {0}
    BY <2>2, LotsInQueue DEF IsQueue
  <2> QED BY <2>2, <2>3
<1>9. PICK both : both = first \o rest
  OBVIOUS
<1>10. IsQueue(both) /\ Joins(both, first, rest)
  <2>1. PICK x : x = first
    OBVIOUS
  <2>2. PICK y : y = rest
    OBVIOUS
  <2>3. IsQueue(x) /\ IsQueue(y) /\ \A i \in DOMAIN x, j \in DOMAIN y : x[i].fill /= y[j].fill
    BY <1>6, <1>7, <1>8, <2>1, <2>2
  <2>4. IsQueue(x \o y) /\ Joins(x \o y, x, y)
    BY <2>3, JoinedQueue
  <2> QED BY ONLY <1>9, <2>1, <2>2, <2>4
<1>11. Total(a) <= Total(both)
  <2>1. \A i \in DOMAIN a : \E k \in DOMAIN both : both[k].fill = a[i].fill /\ a[i].lots <= both[k].lots
    <3> TAKE i \in DOMAIN a
    <3>1. PICK k \in DOMAIN both : both[k] = first[i]
      BY <1>3, <1>10 DEF Joins
    <3> QED BY <1>2, <3>1
  <2> QED BY <1>10, <2>1, CoveredTotal
<1>12. Total(b) <= Total(both) /\ NoneLeftOut(both, b)
  <2>1. \A i \in DOMAIN b : \E k \in DOMAIN both : both[k].fill = b[i].fill /\ b[i].lots <= both[k].lots
    <3> TAKE i \in DOMAIN b
    <3>1. CASE i \in I
      <4>1. PICK j \in DOMAIN rest : rest[j] = b[i]
        BY <1>7, <3>1
      <4>2. PICK k \in DOMAIN both : both[k] = rest[j]
        BY <1>10 DEF Joins
      <4>3. b[i].lots \in Nat
        BY DEF IsQueue
      <4>4. b[i].lots <= b[i].lots
        BY <4>3
      <4> QED BY <4>1, <4>2, <4>4
    <3>2. CASE i \notin I
      <4>1. PICK j \in DOMAIN a : a[j].fill = b[i].fill
        BY <1>4, <3>2, LotsInQueue
      <4>2. LotsIn(b, a[j].fill) = b[i].lots
        BY <4>1, LotsInQueue
      <4>3. PICK k \in DOMAIN both : both[k] = first[j]
        BY <1>3, <1>10 DEF Joins
      <4>4. first[j].fill = a[j].fill /\ LotsIn(b, a[j].fill) <= first[j].lots
        BY <1>2
      <4> QED BY <4>1, <4>2, <4>3, <4>4
    <3> QED BY <3>1, <3>2
  <2>2. NoneLeftOut(both, b)
    BY <2>1 DEF NoneLeftOut
  <2> QED BY <1>10, <2>1, <2>2, CoveredTotal
<1>13. \A k \in DOMAIN both : \/ \E i \in DOMAIN a : both[k].fill = a[i].fill
                              \/ \E i \in DOMAIN b : both[k].fill = b[i].fill
  <2> TAKE k \in DOMAIN both
  <2>1. CASE \E i \in DOMAIN first : both[k] = first[i]
    BY <1>2, <1>3, <2>1
  <2>2. CASE \E i \in DOMAIN rest : both[k] = rest[i]
    BY <1>4, <1>7, <2>2
  <2> QED BY <1>10, <2>1, <2>2 DEF Joins
<1>14. DOMAIN a = {} => Pieces(both, b)
  <2>1. SUFFICES ASSUME DOMAIN a = {}, NEW k \in DOMAIN both
                 PROVE  \E j \in DOMAIN b : both[k].fill = b[j].fill /\ both[k].lots <= b[j].lots
    BY DEF Pieces
  <2>2. PICK i \in DOMAIN rest : both[k] = rest[i]
    BY <1>3, <1>10, <2>1 DEF Joins
  <2>3. PICK j \in DOMAIN b : rest[i] = b[j]
    BY <1>4, <1>7
  <2>4. b[j].lots \in Nat
    BY DEF IsQueue
  <2> QED BY <2>2, <2>3, <2>4
<1>15. DOMAIN b = {} => Pieces(both, a)
  <2>1. SUFFICES ASSUME DOMAIN b = {}, NEW k \in DOMAIN both
                 PROVE  \E j \in DOMAIN a : both[k].fill = a[j].fill /\ both[k].lots <= a[j].lots
    BY DEF Pieces
  <2>2. PICK i \in DOMAIN first : both[k] = first[i]
    BY <1>4, <1>7, <1>10, <2>1 DEF Joins
  <2>3. LotsIn(b, a[i].fill) = 0
    BY <2>1, LotsInQueue
  <2> QED BY <1>2, <1>3, <2>2, <2>3
<1>16. Unites(both, a, b)
  BY <1>10, <1>11, <1>12, <1>13, <1>14, <1>15 DEF Unites
<1> QED BY ONLY <1>5, <1>9, <1>16

\* The fills of q are fills of a or b.
FillsOf(q, a, b) ==
    \A k \in DOMAIN q : \/ \E i \in DOMAIN a : q[k].fill = a[i].fill
                       \/ \E i \in DOMAIN b : q[k].fill = b[i].fill

\* Merging queues up to the lots of the larger one keeps as many lots.
LEMMA PiecesOfPieces ==
    ASSUME NEW x, NEW y, NEW z, IsQueue(x), IsQueue(y), IsQueue(z), Pieces(x, y), Pieces(y, z)
    PROVE  Pieces(x, z)
<1> SUFFICES ASSUME NEW i \in DOMAIN x
             PROVE  \E k \in DOMAIN z : x[i].fill = z[k].fill /\ x[i].lots <= z[k].lots
  BY DEF Pieces
<1>1. PICK j \in DOMAIN y : x[i].fill = y[j].fill /\ x[i].lots <= y[j].lots
  BY DEF Pieces
<1>2. PICK k \in DOMAIN z : y[j].fill = z[k].fill /\ y[j].lots <= z[k].lots
  BY DEF Pieces
<1>3. x[i].lots \in Nat /\ y[j].lots \in Nat /\ z[k].lots \in Nat
  BY DEF IsQueue
<1> QED BY <1>1, <1>2, <1>3

LEMMA MergedTotal ==
    ASSUME NEW a, NEW b, IsQueue(a), IsQueue(b), NEW n, n = Most(Total(a), Total(b))
    PROVE  /\ IsQueue(MergedQueue(a, b, n)) /\ Total(MergedQueue(a, b, n)) = n
           /\ FillsOf(MergedQueue(a, b, n), a, b)
           /\ DOMAIN a = {} => Pieces(MergedQueue(a, b, n), b) /\ NoneLeftOut(MergedQueue(a, b, n), b)
           /\ DOMAIN b = {} => Pieces(MergedQueue(a, b, n), a)
<1>1. PICK x \in Nat : x = Total(a)
  BY QueueIsLots, TotalIsNat
<1>2. PICK y \in Nat : y = Total(b)
  BY QueueIsLots, TotalIsNat
<1>3. n \in Nat /\ n = Most(x, y)
  BY <1>1, <1>2 DEF Most
<1>4. PICK both : Unites(both, a, b) /\ MergedQueue(a, b, n) = Leading(both, n)
  BY <1>3, MergedEntries
<1>5. PICK z \in Nat : z = Total(both)
  BY <1>4, QueueIsLots, TotalIsNat DEF Unites
<1>6. PICK q : q = Leading(both, n)
  OBVIOUS
<1>7. /\ IsQueue(q) /\ Total(q) = Least(z, n)
      /\ \A i \in DOMAIN q : \E j \in DOMAIN both : q[i].fill = both[j].fill
      /\ Pieces(q, both) /\ (z <= n => NoneLeftOut(q, both))
  <2>1. IsQueue(both) /\ n \in Nat
    BY <1>3, <1>4 DEF Unites
  <2>2. /\ IsQueue(q) /\ Total(q) = Least(Total(both), n)
        /\ \A i \in DOMAIN q : \E j \in DOMAIN both : q[i].fill = both[j].fill
        /\ Pieces(q, both) /\ (Total(both) <= n => NoneLeftOut(q, both))
    BY ONLY <1>6, <2>1, LeadingTotal
  <2> QED BY ONLY <1>5, <2>2
<1>8. Least(z, n) = n
  <2>1. x <= z /\ y <= z
    BY <1>1, <1>2, <1>4, <1>5 DEF Unites
  <2> QED BY ONLY <1>3, <2>1, x \in Nat, y \in Nat, z \in Nat DEF Least, Most
<1>9. FillsOf(q, a, b)
  <2>1. ASSUME NEW k \in DOMAIN q
        PROVE  \/ \E i \in DOMAIN a : q[k].fill = a[i].fill
               \/ \E i \in DOMAIN b : q[k].fill = b[i].fill
    <3>1. PICK j \in DOMAIN both : q[k].fill = both[j].fill
      BY <1>7
    <3> QED BY <1>4, <3>1 DEF Unites
  <2> QED BY <2>1 DEF FillsOf
<1>10. MergedQueue(a, b, n) = q
  BY <1>4, <1>6
<1>11. DOMAIN a = {} => Pieces(q, b) /\ NoneLeftOut(q, b)
  <2>1. SUFFICES ASSUME DOMAIN a = {} PROVE Pieces(q, b) /\ NoneLeftOut(q, b)
    OBVIOUS
  <2>2. IsQueue(both) /\ Pieces(both, b) /\ NoneLeftOut(both, b)
    BY <1>4, <2>1 DEF Unites
  <2>3. z <= y
    <3>1. Total(both) <= Total(b)
      BY <2>2, CoveredTotal DEF Pieces
    <3> QED BY <1>2, <1>5, <3>1
  <2>4. z <= n
    BY ONLY <1>3, <2>3, x \in Nat, y \in Nat, z \in Nat DEF Most
  <2>5. NoneLeftOut(q, b)
    BY <1>7, <2>2, <2>4 DEF NoneLeftOut
  <2> QED BY <1>7, <2>2, <2>5, PiecesOfPieces
<1>12. DOMAIN b = {} => Pieces(q, a)
  BY <1>4, <1>7, PiecesOfPieces DEF Unites
<1> QED BY <1>7, <1>8, <1>9, <1>10, <1>11, <1>12

-----------------------------------------------------------------------------
\* The books of a row: the lots without a match are those of the queue, whose
\* fills were emitted; the matches are queues of the trades seen; and every
\* fill has lots.

IsBooked(r) ==
    /\ IsQueue(r.queue) /\ r.unmatched = Total(r.queue)
    /\ \A i \in DOMAIN r.queue : r.queue[i].fill.n \in 0 .. r.emitted
    /\ DOMAIN r.matches = Trades
    /\ \A t \in Trades : IsQueue(r.matches[t]) /\ (t \notin r.seen => DOMAIN r.matches[t] = {})
    /\ AreCovered(r.fees)

LEMMA TrackedCovers ==
    ASSUME NEW lots \in Nat \ {0}, NEW c
    PROVE  IsCovered(Tracked(lots, c))
<1>1. Tracked(lots, c).lots = lots /\ Tracked(lots, c).resolved = IF Known(c) THEN lots ELSE 0
  BY DEF Tracked
<1> HIDE DEF Known
<1> QED BY <1>1 DEF IsCovered

LEMMA PutCovers ==
    ASSUME NEW fees, AreCovered(fees), NEW f, NEW x, IsCovered(x)
    PROVE  AreCovered(Put(fees, f, x))
BY DEF AreCovered, Put

\* Rows that differ in their commissions, and in matches that were settled.
LEMMA SettledBooks ==
    ASSUME NEW r, NEW next, IsBooked(r), next.queue = r.queue, next.unmatched = r.unmatched,
           next.emitted = r.emitted, next.seen = r.seen, DOMAIN next.matches = Trades,
           \A t \in Trades : next.matches[t] = r.matches[t] \/ next.matches[t] = <<>>,
           AreCovered(next.fees)
    PROVE  IsBooked(next)
<1>1. ASSUME NEW t \in Trades
      PROVE  IsQueue(next.matches[t]) /\ (t \notin next.seen => DOMAIN next.matches[t] = {})
  <2>1. CASE next.matches[t] = r.matches[t]
    BY <2>1 DEF IsBooked
  <2>2. CASE next.matches[t] = <<>>
    <3>1. DOMAIN <<>> = {}
      OBVIOUS
    <3> QED BY <2>2, <3>1, TotalEmpty
  <2> QED BY <2>1, <2>2
<1> QED BY <1>1 DEF IsBooked

\* A fill at the end of a queue.
LEMMA AppendedQueue ==
    ASSUME NEW q, IsQueue(q), NEW e, DOMAIN e = {"fill", "lots"}, e.lots \in Nat \ {0},
           \A i \in DOMAIN q : q[i].fill /= e.fill
    PROVE  /\ IsQueue(Append(q, e)) /\ Total(Append(q, e)) = Total(q) + e.lots
           /\ \A k \in DOMAIN Append(q, e) : Append(q, e)[k] = e \/ \E i \in DOMAIN q : Append(q, e)[k] = q[i]
<1>1. PICK n \in Nat : n = Len(q) /\ DOMAIN q = 1 .. n
  BY QueueIsLots, LotsLength
<1>2. PICK S : q \in Seq(S)
  BY QueueLength DEF IsQueue
<1>3. PICK x : x = Append(q, e)
  OBVIOUS
<1>4. /\ DOMAIN x = 1 .. n + 1 /\ x[n + 1] = e /\ \A i \in 1 .. n : x[i] = q[i]
  BY <1>1, <1>2, <1>3
<1>5. IsSeq(x) /\ Total(x) = Total(q) + e.lots
  BY <1>3, QueueIsLots, TotalAppended DEF IsLots
<1>6. \A k \in DOMAIN x : \/ k = n + 1 /\ x[k] = e
                          \/ k \in DOMAIN q /\ x[k] = q[k]
  BY <1>1, <1>4
<1>7. \A k \in DOMAIN x : DOMAIN x[k] = {"fill", "lots"} /\ x[k].lots \in Nat \ {0}
  <2> TAKE k \in DOMAIN x
  <2>1. CASE x[k] = e
    BY <2>1
  <2>2. CASE k \in DOMAIN q /\ x[k] = q[k]
    BY <2>2 DEF IsQueue
  <2> QED BY <1>6, <2>1, <2>2
<1>8. \A k, l \in DOMAIN x : x[k].fill = x[l].fill => k = l
  <2> SUFFICES ASSUME NEW k \in DOMAIN x, NEW l \in DOMAIN x, x[k].fill = x[l].fill
               PROVE  k = l
    OBVIOUS
  <2>1. CASE k \in DOMAIN q /\ x[k] = q[k] /\ l \in DOMAIN q /\ x[l] = q[l]
    BY <2>1 DEF IsQueue
  <2>2. CASE k = n + 1 /\ x[k] = e
    BY <1>6, <2>2
  <2>3. CASE l = n + 1 /\ x[l] = e
    BY <1>6, <2>3
  <2> QED BY <1>6, <2>1, <2>2, <2>3
<1>9. IsQueue(x)
  BY <1>5, <1>7, <1>8 DEF IsQueue
<1>10. \A k \in DOMAIN x : x[k] = e \/ \E i \in DOMAIN q : x[k] = q[i]
  BY <1>6
<1> QED BY <1>3, <1>5, <1>9, <1>10

LEMMA CumulatedBooks ==
    ASSUME NEW r, NEW n \in Nat, IsRow(r, n), IsBooked(r), NEW k \in 0 .. n,
           NEW fill, fill.n = Lots[Upto(k)], NEW c, Delta(r, k) > 0
    PROVE  IsBooked(Cumulated(r, k, fill, c))
<1> DEFINE next == Cumulated(r, k, fill, c)
           e == [fill |-> fill, lots |-> Delta(r, k)]
<1>1. /\ Lots[Upto(k)] \in Nat /\ Delta(r, k) = Lots[Upto(k)] - r.emitted /\ r.emitted \in Nat
  BY UptoGrows DEF Delta, IsRow
<1>2. Delta(r, k) \in Nat \ {0} /\ r.emitted < Lots[Upto(k)] /\ Lots[Upto(k)] = r.emitted + Delta(r, k)
  BY <1>1
<1>3. /\ next.queue = Append(r.queue, e) /\ next.unmatched = r.unmatched + Delta(r, k)
      /\ next.emitted = r.emitted + Delta(r, k) /\ next.matches = r.matches /\ next.seen = r.seen
      /\ next.fees = Put(r.fees, fill, Tracked(Delta(r, k), c))
  BY DEF Cumulated, IsRow, RowFields
<1>4. DOMAIN e = {"fill", "lots"} /\ e.fill = fill /\ e.lots = Delta(r, k)
  OBVIOUS
<1> HIDE DEF next, e
<1>5. \A i \in DOMAIN r.queue : r.queue[i].fill /= fill
  <2> SUFFICES ASSUME NEW i \in DOMAIN r.queue, r.queue[i].fill = fill PROVE FALSE
    OBVIOUS
  <2>1. fill.n \in 0 .. r.emitted
    BY DEF IsBooked
  <2> QED BY <1>1, <1>2, <2>1
<1>6. PICK q : q = r.queue
  OBVIOUS
<1>7. PICK x : x = Append(q, e)
  OBVIOUS
<1>8. /\ IsQueue(x) /\ Total(x) = Total(q) + e.lots
      /\ \A j \in DOMAIN x : x[j] = e \/ \E i \in DOMAIN q : x[j] = q[i]
  <2>1. IsQueue(q) /\ e.lots \in Nat \ {0} /\ DOMAIN e = {"fill", "lots"}
        /\ \A i \in DOMAIN q : q[i].fill /= e.fill
    BY <1>2, <1>4, <1>5, <1>6 DEF IsBooked
  <2> QED BY <1>7, <2>1, AppendedQueue
<1>9. IsQueue(next.queue) /\ next.unmatched = Total(next.queue)
  BY <1>3, <1>4, <1>6, <1>7, <1>8 DEF IsBooked
<1>10. \A j \in DOMAIN next.queue : next.queue[j].fill.n \in 0 .. next.emitted
  <2> TAKE j \in DOMAIN next.queue
  <2>0. next.queue = x
    BY <1>3, <1>6, <1>7
  <2>1. CASE x[j] = e
    <3>1. next.queue[j].fill.n = Lots[Upto(k)]
      BY <1>4, <2>0, <2>1
    <3>2. Lots[Upto(k)] \in 0 .. next.emitted
      BY <1>1, <1>2, <1>3
    <3> QED BY <3>1, <3>2
  <2>2. CASE \E i \in DOMAIN q : x[j] = q[i]
    <3>1. next.queue[j].fill.n \in 0 .. r.emitted
      BY <1>6, <2>0, <2>2 DEF IsBooked
    <3>2. /\ r.emitted \in Int /\ next.emitted \in Int /\ r.emitted <= next.emitted
      BY <1>1, <1>2, <1>3
    <3> QED BY ONLY <3>1, <3>2
  <2>3. x[j] = e \/ \E i \in DOMAIN q : x[j] = q[i]
    BY <1>8, <2>0
  <2> QED BY ONLY <2>1, <2>2, <2>3
<1>11. AreCovered(next.fees)
  BY <1>2, <1>3, TrackedCovers, PutCovers DEF IsBooked
<1> QED BY <1>3, <1>9, <1>10, <1>11 DEF IsBooked, next

LEMMA CorrectedBooks ==
    ASSUME NEW r, DOMAIN r = RowFields, IsBooked(r), NEW k, NEW f \in DOMAIN r.fees
    PROVE  IsBooked(Corrected(r, k, f))
<1> DEFINE c    == Commission("allocated", Fee[Upto(k)] - KnownFee(r) + r.fees[f].c.amount)
           next == Corrected(r, k, f)
<1>1. next = [r EXCEPT !.fees = Put(@, f, Tracked(r.fees[f].lots, c))]
  BY DEF Corrected
<1> HIDE DEF c, next
<1>2. /\ next.fees = Put(r.fees, f, Tracked(r.fees[f].lots, c)) /\ next.emitted = r.emitted
      /\ next.seen = r.seen /\ next.queue = r.queue /\ next.unmatched = r.unmatched
      /\ next.matches = r.matches
  BY <1>1 DEF RowFields
<1>3. AreCovered(next.fees)
  <2>1. r.fees[f].lots \in Nat \ {0} /\ AreCovered(r.fees)
    BY DEF IsBooked, AreCovered, IsCovered
  <2> QED BY <1>2, <2>1, TrackedCovers, PutCovers
<1>4. DOMAIN next.matches = Trades
  BY <1>2 DEF IsBooked
<1>5. IsBooked(next)
  BY <1>2, <1>3, <1>4, SettledBooks
<1> QED BY <1>5 DEF next

\* A trade the row has not seen takes its lots off the queue.
LEMMA TradedBooks ==
    ASSUME NEW r, NEW n \in Nat, IsRow(r, n), IsBooked(r), NEW t \in Upto(n), t \notin r.seen, NEW c
    PROVE  IsBooked(Traded(r, t, c))
<1> DEFINE next == Traded(r, t, c)
           left == Trailing(r.queue, Lots[{t}])
           gone == Leading(r.queue, Lots[{t}])
<1>1. t \in Trades /\ Lots[{t}] \in Nat
  <2>1. t \in Trades /\ {t} \in SUBSET Trades
    BY UptoGrows
  <2> QED BY <2>1, LotsMeasure
<1>2. /\ next.seen = r.seen \cup {t} /\ Fresh(r, t) \in Nat /\ next.emitted = r.emitted + Fresh(r, t)
      /\ r.emitted \in Nat
  <2>1. r.emitted \in Nat
    BY DEF IsRow
  <2> HIDE DEF left, gone
  <2> QED BY ONLY n \in Nat, IsRow(r, n), t \in Upto(n), t \notin r.seen, <2>1, TradedRow DEF next
<1>3. DOMAIN r.matches = Trades
  BY DEF IsBooked
<1>4. /\ next.queue = left /\ next.unmatched = r.unmatched - Matched(r, t)
      /\ next.matches = [r.matches EXCEPT ![t] = @ \o gone]
      /\ next.fees = IF Fresh(r, t) > 0 THEN Put(r.fees, TradeFill(t), Tracked(Fresh(r, t), c))
                     ELSE r.fees
  BY DEF Traded, IsRow, RowFields
<1>5. PICK q : q = r.queue /\ IsQueue(q) /\ r.unmatched = Total(q)
  BY DEF IsBooked
<1>6. /\ IsQueue(left) /\ Total(left) = Remains(Total(q), Lots[{t}])
      /\ \A i \in DOMAIN left : \E j \in DOMAIN q : left[i].fill = q[j].fill
  <2>1. PICK m \in Nat : m = Lots[{t}]
    BY <1>1
  <2>2. PICK x : x = Trailing(q, m)
    OBVIOUS
  <2>3. /\ IsQueue(x) /\ Total(x) = Remains(Total(q), m)
        /\ \A i \in DOMAIN x : \E j \in DOMAIN q : x[i].fill = q[j].fill
    BY <1>5, <2>2, TrailingTotal
  <2>4. left = x
    BY <1>5, <2>1, <2>2
  <2> HIDE DEF left
  <2> QED BY <2>1, <2>3, <2>4
<1>7. IsQueue(gone)
  BY <1>1, <1>5, LeadingTotal
<1> HIDE DEF next, left, gone
<1>8. next.unmatched = Total(next.queue)
  <2>1. Total(q) \in Nat
    BY <1>5, QueueIsLots, TotalIsNat
  <2> QED BY <1>1, <1>4, <1>5, <1>6, <2>1 DEF Matched, Least, Remains
<1>9. \A i \in DOMAIN next.queue : next.queue[i].fill.n \in 0 .. next.emitted
  <2> TAKE i \in DOMAIN next.queue
  <2>1. PICK j \in DOMAIN q : next.queue[i].fill = q[j].fill
    BY <1>4, <1>6
  <2>2. q[j].fill.n \in 0 .. r.emitted
    BY <1>5 DEF IsBooked
  <2> QED BY <1>2, <2>1, <2>2
<1>10. ASSUME NEW u \in Trades
       PROVE  IsQueue(next.matches[u]) /\ (u \notin next.seen => DOMAIN next.matches[u] = {})
  <2>1. CASE u = t
    <3>1. next.matches[u] = r.matches[t] \o gone
      BY <1>1, <1>3, <1>4, <2>1
    <3>2. PICK m : m = r.matches[t] /\ IsQueue(m) /\ DOMAIN m = {}
      BY <1>1 DEF IsBooked
    <3>3. IsQueue(m \o gone)
      BY <1>7, <3>2, JoinedQueue
    <3> QED BY <1>2, <2>1, <3>1, <3>2, <3>3
  <2>2. CASE u /= t
    BY <1>2, <1>3, <1>4, <2>2 DEF IsBooked
  <2> QED BY <2>1, <2>2
<1>11. DOMAIN next.matches = Trades
  BY <1>3, <1>4
<1>12. AreCovered(next.fees)
  <2>1. Fresh(r, t) > 0 => Fresh(r, t) \in Nat \ {0}
    BY <1>2
  <2> QED BY <1>4, <2>1, TrackedCovers, PutCovers DEF IsBooked
<1> QED BY <1>4, <1>6, <1>8, <1>9, <1>10, <1>11, <1>12 DEF IsBooked, next

-----------------------------------------------------------------------------
\* The books and the commission of a trade.

\* What a commission that goes through leaves of the books.
Balances(res, r) == res.ok => IsBooked(res.row)

LEMMA UnchangedBooks ==
    ASSUME NEW r, IsBooked(r)
    PROVE  Balances(Unchanged(r), r) /\ Balances([Unchanged(r) EXCEPT !.ok = FALSE], r)
BY DEF Balances, Unchanged

LEMMA OwnBooks ==
    ASSUME NEW r, DOMAIN r = RowFields, IsBooked(r), NEW t, NEW c
    PROVE  Balances(OwnCorrected(r, t, c), r)
<1> DEFINE fill == TradeFill(t)
           lots == r.fees[fill].lots
           next == [r EXCEPT !.fees = Put(r.fees, fill, Tracked(lots, c))]
           may  == /\ fill \in DOMAIN r.fees
                   /\ \/ ~Known(r.fees[fill].c)
                      \/ c.status = "reported" /\ r.fees[fill].c.status = "allocated"
<1>1. OwnCorrected(r, t, c) =
         IF may THEN [row |-> next, corrections |-> Only(fill, c), ok |-> TRUE] ELSE Unchanged(r)
  BY DEF OwnCorrected, Changed
<1>2. /\ next.fees = Put(r.fees, fill, Tracked(lots, c)) /\ next.seen = r.seen
      /\ next.emitted = r.emitted /\ next.queue = r.queue /\ next.unmatched = r.unmatched
      /\ next.matches = r.matches
  BY DEF RowFields
<1>3. may => fill \in DOMAIN r.fees
  OBVIOUS
<1>4. fill \in DOMAIN r.fees => lots \in Nat \ {0}
  BY DEF IsBooked, AreCovered, IsCovered
<1>5. AreCovered(r.fees) /\ DOMAIN r.matches = Trades
  BY DEF IsBooked
<1> HIDE DEF next, may, lots, fill
<1>6. may => IsBooked(next)
  <2>1. SUFFICES ASSUME may PROVE IsBooked(next)
    OBVIOUS
  <2>2. AreCovered(next.fees)
    BY <1>2, <1>3, <1>4, <1>5, <2>1, TrackedCovers, PutCovers
  <2> QED BY <1>2, <1>5, <2>2, SettledBooks
<1>7. may => Balances([row |-> next, corrections |-> Only(fill, c), ok |-> TRUE], r)
  BY <1>6 DEF Balances
<1> QED BY <1>1, <1>7, UnchangedBooks

LEMMA FixedBooks ==
    ASSUME NEW r, DOMAIN r = RowFields, IsBooked(r), NEW t \in Trades, NEW c, NEW a
    PROVE  Balances(FixedCorrected(r, t, c, a), r)
<1> DEFINE whole == {m.fill : m \in {n \in Range(a.fixed) : n.lots = Lots[{t}]}}
           refined == {f \in whole : r.fees[f].lots = Lots[{t}] /\ c.status = "reported"}
           fill  == CHOOSE f \in refined : TRUE
           next == [r EXCEPT !.fees = Put(r.fees, fill, Tracked(Lots[{t}], c))]
           may == refined /= {} /\ Cardinality(DOMAIN a.fixed) = 1
<1>1. FixedCorrected(r, t, c, a) =
         IF may THEN [row |-> next, corrections |-> Only(fill, c), ok |-> TRUE] ELSE Unchanged(r)
  BY DEF FixedCorrected, Changed
<1>2. Lots[{t}] \in Nat \ {0}
  <2>1. {t} \in SUBSET Trades
    OBVIOUS
  <2>2. Lots[{t}] \in Nat /\ Lots[{t}] > 0
    BY <2>1, LotsMeasure
  <2> QED BY <2>2
<1> HIDE DEF fill, may
<1>3. /\ next.fees = Put(r.fees, fill, Tracked(Lots[{t}], c)) /\ next.seen = r.seen
      /\ next.emitted = r.emitted /\ next.queue = r.queue /\ next.unmatched = r.unmatched
      /\ next.matches = r.matches
  BY DEF RowFields
<1> HIDE DEF next
<1>4. IsBooked(next)
  <2>1. AreCovered(next.fees)
    <3>1. IsCovered(Tracked(Lots[{t}], c))
      BY <1>2, TrackedCovers
    <3> QED BY <1>3, <3>1, PutCovers DEF IsBooked
  <2>2. DOMAIN next.matches = Trades
    BY <1>3 DEF IsBooked
  <2> QED BY <1>3, <2>1, <2>2, SettledBooks
<1>5. Balances([row |-> next, corrections |-> Only(fill, c), ok |-> TRUE], r)
  BY <1>4 DEF Balances
<1> QED BY <1>1, <1>5, UnchangedBooks

\* A commission is spread over whole lots: those of the fills that are open,
\* and those the trade published itself.
LEMMA AttributionLots ==
    ASSUME NEW r, IsBooked(r), NEW t \in Trades, NEW c
    PROVE  LET a == Attribution(r, t, c)
           IN  /\ a.residual \in Int
               /\ \A i \in DOMAIN a.open : a.open[i].lots \in Int
<1> DEFINE a == Attribution(r, t, c)
           matches   == r.matches[t]
           settled   == {i \in DOMAIN matches :
                            matches[i].fill \in DOMAIN r.fees /\ Resolved(r.fees[matches[i].fill])}
           residual  == Lots[{t}] - Total(matches)
           own       == IF residual > 0 THEN <<[fill |-> TradeFill(t), lots |-> residual]>> ELSE <<>>
           picked    == At(matches, DOMAIN matches \ settled)
<1>1. a.open = picked \o own /\ a.residual = residual
  BY Zenon DEF Attribution
<1>2. IsQueue(matches)
  BY DEF IsBooked
<1>3. residual \in Int
  <2>1. {t} \in SUBSET Trades
    OBVIOUS
  <2>2. Lots[{t}] \in Nat
    BY <2>1, LotsMeasure
  <2>3. Total(matches) \in Nat
    BY <1>2, QueueIsLots, TotalIsNat
  <2> QED BY <2>2, <2>3
<1> HIDE DEF residual, a
<1>4. IsLots(own)
  <2>1. CASE residual > 0
    <3>1. residual \in Nat
      BY <1>3, <2>1
    <3> DEFINE e == [fill |-> TradeFill(t), lots |-> residual]
    <3>2. own = <<e>> /\ e.lots \in Nat
      BY <2>1, <3>1
    <3> HIDE DEF e
    <3>3. <<e>> \in Seq({e}) /\ DOMAIN <<e>> = {1} /\ <<e>>[1] = e
      OBVIOUS
    <3>4. IsSeq(<<e>>)
      BY <3>3, SeqIsQueue
    <3>5. PICK x : x = <<e>>
      OBVIOUS
    <3>6. IsLots(x)
      <4>1. IsSeq(x) /\ DOMAIN x = {1} /\ x[1].lots \in Nat
        BY <3>2, <3>3, <3>4, <3>5
      <4> QED BY <4>1 DEF IsLots
    <3> QED BY <3>2, <3>5, <3>6
  <2>2. CASE ~(residual > 0)
    <3>1. own = <<>>
      BY <2>2
    <3> QED BY <3>1, TotalEmpty, QueueIsLots
  <2> QED BY <2>1, <2>2
<1>5. IsLots(picked)
  <2>1. DOMAIN matches \ settled \in SUBSET DOMAIN matches
    OBVIOUS
  <2> HIDE DEF matches, settled
  <2>2. IsQueue(picked)
    BY <1>2, <2>1, PickedQueue
  <2> QED BY <2>2, QueueIsLots
<1> HIDE DEF picked, own
<1>6. IsLots(picked \o own)
  BY <1>4, <1>5, TotalJoined
<1>7. \A i \in DOMAIN a.open : a.open[i].lots \in Nat
  BY <1>1, <1>6 DEF IsLots
<1> QED BY <1>1, <1>3, <1>7 DEF a

LEMMA SpreadBooks ==
    ASSUME NEW r, DOMAIN r = RowFields, IsBooked(r), IsFilled(r), NEW t,
           NEW a, a.residual \in Int, \A i \in DOMAIN a.open : a.open[i].lots \in Int
    PROVE  Balances(Spread(r, t, a), r)
<1> DEFINE shares == Allocate(a.rest, [i \in DOMAIN a.open |-> a.open[i].lots])
           target(i) == a.open[i].fill
           spread(i) ==
            LET c == Commission(a.status, shares[i])
            IN  IF target(i) = TradeFill(t) THEN OwnResolved(t, a, c)
                ELSE Resolving(r.fees[target(i)], a.open[i], c)
           hit  == {i \in DOMAIN a.open : target(i) \in DOMAIN r.fees}
           fees == [f \in DOMAIN r.fees |->
                       IF \E i \in hit : target(i) = f
                       THEN spread(CHOOSE i \in hit : target(i) = f) ELSE r.fees[f]]
           kept == IF a.residual > 0 THEN fees ELSE Drop(fees, {TradeFill(t)})
           next == [r EXCEPT !.fees = kept]
           res  == Spread(r, t, a)
<1>1. res.row = next
  BY Zenon DEF Spread
<1>2. ASSUME NEW i \in hit, target(i) = TradeFill(t) => a.residual > 0
      PROVE  IsCovered(spread(i))
  <2> DEFINE c == Commission(a.status, shares[i])
             tracked == r.fees[target(i)]
  <2>1. IsTracked(tracked) /\ IsCovered(tracked)
    BY <1>2 DEF IsFilled, IsBooked, AreCovered
  <2>2. CASE target(i) = TradeFill(t)
    <3>1. spread(i) = Tracked(a.residual, c) /\ a.residual \in Nat \ {0}
      BY <1>2, <2>2 DEF OwnResolved
    <3> HIDE DEF spread, c
    <3> QED BY <3>1, TrackedCovers
  <2>3. CASE target(i) /= TradeFill(t)
    <3>1. spread(i) = Resolving(tracked, a.open[i], c) /\ a.open[i].lots \in Int
      BY <2>3
    <3> HIDE DEF spread, c, tracked
    <3>2. PICK n \in Int : n = a.open[i].lots
      BY <3>1
    <3>3. n + (IF Known(tracked.c) THEN tracked.resolved ELSE 0) \in Int
      <4> HIDE DEF Known
      <4> QED BY <2>1 DEF IsCovered
    <3> HIDE DEF Known, Partial
    <3> QED BY <2>1, <3>1, <3>2, <3>3, ResolvingFill DEF IsCovered
  <2> QED BY <2>2, <2>3
<1> HIDE DEF spread
<1>3. ASSUME NEW f \in DOMAIN r.fees, f = TradeFill(t) => a.residual > 0
      PROVE  IsCovered(fees[f])
  <2>1. CASE \E i \in hit : target(i) = f
    <3>1. PICK i : i = CHOOSE j \in hit : target(j) = f
      OBVIOUS
    <3>2. i \in hit /\ target(i) = f
      BY <2>1, <3>1
    <3>3. fees[f] = spread(i)
      BY <2>1, <3>1
    <3> QED BY <1>2, <1>3, <3>2, <3>3
  <2>2. CASE ~\E i \in hit : target(i) = f
    BY <2>2 DEF IsBooked, AreCovered
  <2> QED BY <2>1, <2>2
<1>4. DOMAIN fees = DOMAIN r.fees
  OBVIOUS
<1> HIDE DEF fees
<1>5. \A f \in DOMAIN kept : /\ f \in DOMAIN fees /\ kept[f] = fees[f]
                             /\ f = TradeFill(t) => a.residual > 0
  BY DEF Drop, Restrict
<1> HIDE DEF kept
<1>6. /\ next.fees = kept /\ next.seen = r.seen /\ next.emitted = r.emitted
      /\ next.queue = r.queue /\ next.unmatched = r.unmatched /\ next.matches = r.matches
  BY DEF RowFields
<1> HIDE DEF next
<1>7. IsBooked(next)
  <2>1. AreCovered(next.fees)
    <3>1. \A f \in DOMAIN kept : IsCovered(kept[f])
      BY <1>3, <1>4, <1>5
    <3> QED BY <1>6, <3>1 DEF AreCovered
  <2>2. DOMAIN next.matches = Trades
    BY <1>6 DEF IsBooked
  <2> QED BY <1>6, <2>1, <2>2, SettledBooks
<1> HIDE DEF res
<1> QED BY <1>1, <1>7 DEF Balances, res

LEMMA AttributedBooks ==
    ASSUME NEW r, DOMAIN r = RowFields, IsBooked(r), IsFilled(r), NEW t \in Trades, NEW c
    PROVE  Balances(Attributed(r, t, c), r)
<1> DEFINE a    == Attribution(r, t, c)
           kept == [r EXCEPT !.matches[t] = <<>>]
<1>1. DOMAIN r.matches = Trades
  BY DEF IsBooked
<1>2. /\ DOMAIN kept = RowFields /\ kept.fees = r.fees /\ kept.seen = r.seen
      /\ kept.emitted = r.emitted /\ kept.notional = r.notional /\ kept.queue = r.queue
      /\ kept.unmatched = r.unmatched /\ kept.matches = [r.matches EXCEPT ![t] = <<>>]
  BY DEF RowFields
<1>3. a.residual \in Int /\ \A i \in DOMAIN a.open : a.open[i].lots \in Int
  BY AttributionLots
<1> HIDE DEF a, kept
<1>4. IsFilled(kept)
  BY <1>2 DEF IsFilled, IsFill
<1>5. IsBooked(kept)
  <2>1. DOMAIN kept.matches = Trades
        /\ \A u \in Trades : kept.matches[u] = r.matches[u] \/ kept.matches[u] = <<>>
    BY <1>1, <1>2
  <2>2. AreCovered(kept.fees)
    BY <1>2 DEF IsBooked
  <2> QED BY <1>2, <2>1, <2>2, SettledBooks
<1>6. Balances(FixedCorrected(kept, t, c, a), kept)
  BY <1>2, <1>5, FixedBooks
<1>7. Balances(Spread(kept, t, a), kept)
  BY <1>2, <1>3, <1>4, <1>5, SpreadBooks
<1>8. Balances(OwnCorrected(r, t, c), r)
  BY OwnBooks
<1>9. Balances(Unchanged(r), r) /\ Balances([Unchanged(r) EXCEPT !.ok = FALSE], r)
  BY UnchangedBooks
<1>10. Attributed(r, t, c) = IF ~Known(c) THEN Unchanged(r)
        ELSE IF r.matches[t] = <<>> THEN OwnCorrected(r, t, c)
        ELSE IF a.residual < 0 \/ (a.open /= <<>> /\ (~a.fits \/ a.rest < 0))
             THEN [Unchanged(r) EXCEPT !.ok = FALSE]
        ELSE IF a.open = <<>> THEN FixedCorrected(kept, t, c, a)
        ELSE Spread(kept, t, a)
  BY DEF Attributed, a, kept
<1>11. \A res, x : Balances(res, x) => Balances(res, r)
  BY DEF Balances
<1> QED BY ONLY <1>6, <1>7, <1>8, <1>9, <1>10, <1>11

LEMMA ProjectedBooks ==
    ASSUME NEW r, NEW n \in Nat, IsRow(r, n), IsBooked(r), IsFilled(r), NEW t \in Upto(n),
           NEW c, c.status \in Statuses
    PROVE  Balances(Projected(r, t, c), r) /\ (~Known(c) => Projected(r, t, c).ok)
<1> DEFINE mid  == IF t \in r.seen THEN r ELSE Traded(r, t, c)
<1>1. DOMAIN mid = RowFields /\ IsBooked(mid) /\ IsFilled(mid)
  <2>1. CASE t \in r.seen
    BY <2>1 DEF IsRow
  <2>2. CASE t \notin r.seen
    <3>1. mid = Traded(r, t, c)
      BY <2>2
    <3> HIDE DEF mid
    <3> QED BY <2>2, <3>1, TradedFilled, TradedRow, TradedBooks DEF IsRow
  <2> QED BY <2>1, <2>2
<1>2. Projected(r, t, c) = Attributed(mid, t, c)
  BY DEF Projected
<1> HIDE DEF mid
<1>3. t \in Trades
  BY DEF Upto
<1>4. Balances(Attributed(mid, t, c), mid)
  BY <1>1, <1>3, AttributedBooks
<1>5. ~Known(c) => Attributed(mid, t, c).ok
  BY DEF Attributed, Unchanged
<1> QED BY <1>2, <1>4, <1>5 DEF Balances

LEMMA RefinedBooks ==
    ASSUME NEW r, DOMAIN r = RowFields, IsBooked(r), NEW t \in Trades, NEW c
    PROVE  IsBooked(Refined(r, t, c))
<1> DEFINE own == TradeFill(t)
           x == Tracked(Lots[{t}], c)
           next == [r EXCEPT !.fees = Put(@, own, x)]
<1>1. Refined(r, t, c) = IF own \in DOMAIN r.fees /\ Known(c) THEN next ELSE r
  BY DEF Refined
<1>2. IsCovered(x)
  <2>1. {t} \in SUBSET Trades
    OBVIOUS
  <2>2. Lots[{t}] \in Nat /\ Lots[{t}] > 0
    BY <2>1, LotsMeasure
  <2>3. Lots[{t}] \in Nat \ {0}
    BY <2>2
  <2> QED BY <2>3, TrackedCovers
<1> HIDE DEF x, own
<1>3. /\ next.fees = Put(r.fees, own, x) /\ next.seen = r.seen
      /\ next.emitted = r.emitted /\ next.queue = r.queue /\ next.unmatched = r.unmatched
      /\ next.matches = r.matches
  BY DEF RowFields
<1> HIDE DEF next
<1>4. IsBooked(next)
  <2>1. AreCovered(next.fees) /\ DOMAIN next.matches = Trades
    BY <1>2, <1>3, PutCovers DEF IsBooked
  <2> QED BY <1>3, <2>1, SettledBooks
<1> QED BY <1>1, <1>4

-----------------------------------------------------------------------------
\* The books of a merged row.

\* A fill cut down to fewer lots has those.
LEMMA ResizedCovers ==
    ASSUME NEW x, IsTracked(x), IsCovered(x), NEW lots \in Nat \ {0}
    PROVE  IsCovered(Resized(x, lots))
<1> DEFINE part == Least(x.resolved * lots, lots * x.lots)
           kept == part \div x.lots
           c    == IF Known(x.c)
                   THEN Commission(x.c.status, Allocate(x.c.amount, <<part, x.resolved * x.lots - part>>)[1])
                   ELSE x.c
           grown == [x EXCEPT !.lots = lots]
           cut   == [lots |-> lots, resolved |-> kept, c |-> c]
<1>1. Resized(x, lots) = IF lots >= x.lots THEN grown ELSE cut
  BY DEF Resized
<1>2. PICK n \in Nat \ {0} : n = x.lots
  BY DEF IsCovered
<1>3. PICK m \in Int : m = x.resolved
  BY DEF IsCovered
<1>4. grown.lots = lots /\ grown.resolved = m
  BY <1>3 DEF IsTracked
<1>5. kept \in Int
  <2>1. PICK a \in Int, b \in Int : a = m * lots /\ b = lots * n
    OBVIOUS
  <2>2. Least(a, b) \div n \in Int
    BY <1>2 DEF Least
  <2> QED BY ONLY <1>2, <1>3, <2>1, <2>2
<1>6. cut.lots = lots /\ cut.resolved = kept
  OBVIOUS
<1> HIDE DEF grown, cut, kept
<1>7. IsCovered(grown) /\ IsCovered(cut)
  BY <1>3, <1>4, <1>5, <1>6 DEF IsCovered
<1> QED BY <1>1, <1>7

LEMMA EmptyQueue ==
    ASSUME NEW q, IsQueue(q), DOMAIN q = {}
    PROVE  q = <<>>
<1>1. PICK n \in Nat : n = Len(q) /\ DOMAIN q = 1 .. n
  BY QueueIsLots, LotsLength
<1>2. n = 0
  BY <1>1
<1>3. PICK S : q \in Seq(S)
  BY QueueLength DEF IsQueue
<1> QED BY <1>1, <1>2, <1>3

LEMMA MergedBooks ==
    ASSUME NEW r, NEW s, NEW n \in Nat, IsRow(r, n), IsRow(s, n), IsFilled(r), IsFilled(s),
           IsBooked(r), IsBooked(s)
    PROVE  IsBooked(Merged(r, s))
<1> DEFINE next == Merged(r, s)
           queue == MergedQueue(r.queue, s.queue, Most(r.unmatched, s.unmatched))
           fees == [f \in DOMAIN r.fees \cup DOMAIN s.fees |->
                       IF f \notin DOMAIN r.fees
                          \/ (f \in DOMAIN s.fees /\ Stronger(s.fees[f], r.fees[f]))
                       THEN s.fees[f] ELSE r.fees[f]]
           sized == [f \in DOMAIN fees |-> IF LotsIn(queue, f) > 0
                                           THEN Resized(fees[f], LotsIn(queue, f)) ELSE fees[f]]
           first == [fees |-> sized, used |-> {}]
           last  == FoldLeft(LAMBDA acc, e : Absorb(acc, e, queue, s), first, s.queue)
           lots(t) == Most(Total(r.matches[t]), Total(s.matches[t]))
           match(t) == MergedQueue(r.matches[t], s.matches[t], lots(t))
<1>1. /\ next.fees = last.fees /\ next.queue = queue /\ next.seen = r.seen \cup s.seen
      /\ next.emitted = Most(r.emitted, s.emitted) /\ next.unmatched = Most(r.unmatched, s.unmatched)
      /\ next.matches = [t \in Trades |-> match(t)]
  BY DEF Merged
<1>2. DOMAIN next.matches = Trades /\ \A t \in Trades : next.matches[t] = match(t)
  <2> HIDE DEF match, next
  <2> QED BY <1>1
<1>3. PICK a : a = r.queue /\ IsQueue(a) /\ r.unmatched = Total(a)
  BY DEF IsBooked
<1>4. PICK b : b = s.queue /\ IsQueue(b) /\ s.unmatched = Total(b)
  BY DEF IsBooked
<1>5. PICK m : m = Most(Total(a), Total(b))
  OBVIOUS
<1>6. queue = MergedQueue(a, b, m) /\ next.unmatched = m
  BY <1>1, <1>3, <1>4, <1>5
<1> HIDE DEF next, queue, last, match
<1>7. IsQueue(queue) /\ Total(queue) = m /\ FillsOf(queue, a, b)
  <2>1. IsQueue(a) /\ IsQueue(b) /\ m = Most(Total(a), Total(b))
    BY <1>3, <1>4, <1>5
  <2> QED BY ONLY <1>6, <2>1, MergedTotal
<1>8. /\ r.emitted \in Nat /\ s.emitted \in Nat /\ next.emitted \in Nat
      /\ r.emitted <= next.emitted /\ s.emitted <= next.emitted
  BY <1>1 DEF IsRow, Most
<1>9. \A k \in DOMAIN next.queue : next.queue[k].fill.n \in 0 .. next.emitted
  <2> TAKE k \in DOMAIN next.queue
  <2>1. CASE \E i \in DOMAIN a : queue[k].fill = a[i].fill
    <3>1. next.queue[k].fill.n \in 0 .. r.emitted
      BY <1>1, <1>3, <2>1 DEF IsBooked
    <3> QED BY <1>8, <3>1
  <2>2. CASE \E i \in DOMAIN b : queue[k].fill = b[i].fill
    <3>1. next.queue[k].fill.n \in 0 .. s.emitted
      BY <1>1, <1>4, <2>2 DEF IsBooked
    <3> QED BY <1>8, <3>1
  <2> QED BY <1>1, <1>7, <2>1, <2>2 DEF FillsOf
<1>10. ASSUME NEW t \in Trades
       PROVE  IsQueue(next.matches[t]) /\ (t \notin next.seen => DOMAIN next.matches[t] = {})
  <2>1. PICK p : p = r.matches[t] /\ IsQueue(p) /\ (t \notin r.seen => DOMAIN p = {})
    BY DEF IsBooked
  <2>2. PICK q : q = s.matches[t] /\ IsQueue(q) /\ (t \notin s.seen => DOMAIN q = {})
    BY DEF IsBooked
  <2>3. PICK l : l = Most(Total(p), Total(q))
    OBVIOUS
  <2>4. PICK x : x = MergedQueue(p, q, l)
    OBVIOUS
  <2>5. next.matches[t] = x
    BY <1>2, <2>1, <2>2, <2>3, <2>4 DEF match
  <2>6. IsQueue(x) /\ Total(x) = l
    BY <2>1, <2>2, <2>3, <2>4, MergedTotal
  <2>7. t \notin next.seen => DOMAIN x = {}
    <3>1. SUFFICES ASSUME t \notin next.seen PROVE DOMAIN x = {}
      OBVIOUS
    <3>2. p = <<>> /\ q = <<>>
      BY <1>1, <2>1, <2>2, <3>1, EmptyQueue
    <3>3. Total(p) = 0 /\ Total(q) = 0
      BY <3>2, TotalEmpty
    <3>4. l = 0
      BY <2>3, <3>3 DEF Most
    <3> QED BY <2>6, <3>4, NoLotsNoEntries
  <2> QED BY <2>5, <2>6, <2>7
<1>11. /\ DOMAIN fees = DOMAIN r.fees \cup DOMAIN s.fees
       /\ \A f \in DOMAIN fees : \/ f \in DOMAIN r.fees /\ fees[f] = r.fees[f]
                                 \/ f \in DOMAIN s.fees /\ fees[f] = s.fees[f]
  OBVIOUS
<1>12. \A f \in DOMAIN fees : IsTracked(fees[f]) /\ IsCovered(fees[f])
  BY <1>11 DEF IsFilled, IsBooked, AreCovered
<1> HIDE DEF fees
<1>13. Keeps(sized, fees)
  BY <1>12, ResizedKnown DEF Keeps
<1>14. AreCovered(sized)
  <2>1. ASSUME NEW f \in DOMAIN fees PROVE IsCovered(sized[f])
    <3>1. PICK l \in Nat : l = LotsIn(queue, f)
      BY <1>7, LotsInQueue
    <3>2. sized[f] = IF l > 0 THEN Resized(fees[f], l) ELSE fees[f]
      BY <3>1
    <3>3. l > 0 => IsCovered(Resized(fees[f], l))
      BY <1>12, ResizedCovers
    <3> HIDE DEF sized
    <3> QED BY <1>12, <3>2, <3>3
  <2>2. DOMAIN sized = DOMAIN fees
    OBVIOUS
  <2> HIDE DEF sized
  <2> QED BY <2>1, <2>2 DEF AreCovered
<1> HIDE DEF sized
<1>15. Absorbing(first, fees, TRUE)
  BY <1>13, <1>14 DEF Absorbing
<1>16. Absorbing(last, fees, TRUE)
  <2>1. last = AbsorbedAll(first, s.queue, queue, s)
    BY DEF last, AbsorbedAll
  <2>2. IsSeq(s.queue) /\ (\A f \in DOMAIN s.fees : IsTracked(s.fees[f])) /\ AreCovered(s.fees)
    BY DEF IsFilled, IsBooked
  <2>3. TRUE => AreCovered(s.fees)
    BY <2>2
  <2> HIDE DEF first
  <2> QED BY <1>15, <2>1, <2>2, <2>3, FoldKeeps
<1>17. AreCovered(next.fees)
  BY <1>1, <1>16 DEF Absorbing
<1> QED BY <1>1, <1>2, <1>6, <1>7, <1>9, <1>10, <1>17 DEF IsBooked, next

LEMMA EmptyBooks == IsBooked(EmptyRow)
<1>1. /\ EmptyRow.queue = <<>> /\ EmptyRow.unmatched = 0 /\ EmptyRow.seen = {} /\ EmptyRow.fees = <<>>
      /\ DOMAIN EmptyRow.matches = Trades /\ \A t \in Trades : EmptyRow.matches[t] = <<>>
  BY DEF EmptyRow
<1>2. DOMAIN <<>> = {}
  OBVIOUS
<1> QED BY <1>1, <1>2, TotalEmpty DEF IsBooked, AreCovered

-----------------------------------------------------------------------------
\* Every action keeps the books.

\* The books of the rows, and of the copy of a snapshot.
Books ==
    /\ \A id \in Ids : IsBooked(rows[id])
    /\ task.at = "staging" => \A id \in Ids : IsBooked(task.staged[id])

\* What no action of the task touches.
Counts ==
    /\ executed \in 0 .. Cardinality(Trades) /\ alias \in BOOLEAN
    /\ linker \in {"idle", "holding", "merging"}

\* A task that ends writes one row.
LEMMA RowWritten ==
    ASSUME Books, DOMAIN rows = Ids, NEW key \in Ids, NEW next, IsBooked(next), NEW lots, NEW c,
           Commit([rows EXCEPT ![key] = next], lots, c), task'.at /= "staging"
    PROVE  Books'
<1>1. rows' = [rows EXCEPT ![key] = next]
  BY DEF Commit
<1>2. \A id \in Ids : rows'[id] = next \/ rows'[id] = rows[id]
  BY <1>1
<1> QED BY <1>2 DEF Books

LEMMA SameBooks ==
    ASSUME Books, rows' = rows, task' = task \/ task'.at /= "staging"
    PROVE  Books'
BY DEF Books

LEMMA StateIgnoredBooks ==
    ASSUME IsStep, Books, StateIgnored
    PROVE  Books'
<1> DEFINE row  == rows[task.key]
           next == [row EXCEPT !.cum = Most(@, Lots[Upto(task.k)])]
<1>1. task.key \in Ids /\ IsRow(row, executed) /\ DOMAIN rows = Ids /\ IsBooked(row)
  BY StateRow DEF StateIgnored, IsStep, Books
<1>2. [rows EXCEPT ![task.key].cum = Most(@, Lots[Upto(task.k)])] = [rows EXCEPT ![task.key] = next]
  OBVIOUS
<1>3. Commit([rows EXCEPT ![task.key] = next], 0, <<>>) /\ task' = Idle
  BY <1>2 DEF StateIgnored
<1>4. /\ next.fees = row.fees /\ next.emitted = row.emitted /\ next.seen = row.seen
      /\ next.queue = row.queue /\ next.unmatched = row.unmatched /\ next.matches = row.matches
  BY <1>1 DEF IsRow, RowFields
<1> HIDE DEF next
<1>5. IsBooked(next)
  BY <1>1, <1>4 DEF IsBooked
<1>6. task'.at /= "staging"
  BY <1>3, CopyIdle
<1> QED BY <1>1, <1>3, <1>5, <1>6, RowWritten

LEMMA StatePublishedBooks ==
    ASSUME IsStep, Books, StatePublished
    PROVE  Books'
<1> DEFINE row == rows[task.key]
           n   == Lots[Upto(task.k)]
<1>1. /\ task.key \in Ids /\ task.k \in 1 .. executed /\ IsRow(row, executed) /\ executed \in Nat
      /\ DOMAIN rows = Ids /\ IsBooked(row)
  BY StateRow DEF StatePublished, IsStep, Books
<1>2. task'.at /= "staging"
  BY CopyIdle DEF StatePublished
<1>3. CASE PublishDelta
  <2> DEFINE fill == Synthetic(task.source, task.key, task.k)
             c    == CumulativeFee(row, task.k, task.given)
             next == Cumulated(row, task.k, fill, c)
  <2>1. /\ Delta(row, task.k) > 0
        /\ Commit([rows EXCEPT ![task.key] = next], Delta(row, task.k), Only(fill, c))
    BY <1>3 DEF PublishDelta
  <2>2. task.k \in 0 .. executed /\ fill.n = Lots[Upto(task.k)]
    BY <1>1 DEF Synthetic
  <2> HIDE DEF row, fill, c
  <2>3. IsBooked(next)
    BY <1>1, <2>1, <2>2, CumulatedBooks
  <2> HIDE DEF next
  <2> QED BY <1>1, <1>2, <2>1, <2>3, RowWritten
<1>4. CASE PublishCorrection
  <2> DEFINE base == [row EXCEPT !.cum = n]
  <2>1. PICK f \in Correctable(base, task.k, task.given) :
           LET next == Corrected(base, task.k, f)
           IN  Commit([rows EXCEPT ![task.key] = next], 0, Only(f, next.fees[f].c))
    BY <1>4 DEF PublishCorrection
  <2> DEFINE next == Corrected(base, task.k, f)
  <2>2. /\ DOMAIN base = RowFields /\ base.fees = row.fees /\ base.emitted = row.emitted
        /\ base.seen = row.seen /\ base.queue = row.queue /\ base.unmatched = row.unmatched
        /\ base.matches = row.matches
    BY <1>1 DEF IsRow, RowFields
  <2>3. Commit([rows EXCEPT ![task.key] = next], 0, Only(f, next.fees[f].c))
    BY <2>1
  <2> HIDE DEF base
  <2>4. f \in DOMAIN base.fees
    BY DEF Correctable
  <2>5. IsBooked(base)
    BY <1>1, <2>2 DEF IsBooked
  <2>6. IsBooked(next)
    BY <2>2, <2>4, <2>5, CorrectedBooks
  <2> HIDE DEF next
  <2> QED BY <1>1, <1>2, <2>3, <2>6, RowWritten
<1> QED BY <1>3, <1>4 DEF StatePublished

LEMMA TradePublishedBooks ==
    ASSUME IsStep, Books, TradePublished
    PROVE  Books'
<1> DEFINE row  == rows[task.key]
           next == Projected(row, task.t, Unknown)
<1>1. /\ task.at = "keyed" /\ task' = Idle
      /\ Commit([rows EXCEPT ![task.key] = next.row], SentLots(row, task.t),
                Telling(row, next, task.t, Unknown))
  BY DEF TradePublished
<1>2. task.key \in Ids /\ task.t \in Upto(executed)
  BY <1>1, Projecting DEF IsProjecting, IsStep
<1>3. /\ IsRow(row, executed) /\ executed \in Nat /\ IsFilled(row) /\ IsBooked(row) /\ DOMAIN rows = Ids
  BY <1>2 DEF IsStep, Inv, IsAccount, IsPair, Ids, Knows, RowsKnow, Books
<1>4. Unknown.status \in Statuses /\ ~Known(Unknown)
  BY DEF Unknown, Statuses, Known
<1>5. IsBooked(next.row)
  <2> HIDE DEF row
  <2> QED BY <1>2, <1>3, <1>4, ProjectedBooks DEF Balances
<1>6. task'.at /= "staging"
  BY <1>1, CopyIdle
<1> HIDE DEF next
<1> QED BY <1>1, <1>2, <1>3, <1>5, <1>6, RowWritten

LEMMA ProvenanceToldBooks ==
    ASSUME IsStep, Books, NEW t \in Upto(executed), NEW c, ProvenanceTold(t, c)
    PROVE  Books'
<1> DEFINE id   == Canonical(orderOf[t])
           row  == rows[id]
           next == Refined(row, t, c)
<1>1. /\ Commit([rows EXCEPT ![id] = next], 0, Only(TradeFill(t), c))
      /\ UNCHANGED task /\ task.at = "idle" /\ t \in MappedTrades(executed)
  BY DEF ProvenanceTold, Take
<1>2. id \in Ids /\ t \in Trades
  <2>1. orderOf[t] \in Ids
    BY <1>1, MappedOrder DEF IsStep, Inv
  <2> QED BY <2>1, CanonicalIsId DEF Upto
<1>3. DOMAIN row = RowFields /\ IsBooked(row) /\ DOMAIN rows = Ids
  BY <1>2 DEF IsStep, Inv, IsAccount, IsPair, IsRow, Ids, Books
<1> HIDE DEF row, id
<1>4. IsBooked(next)
  BY <1>2, <1>3, RefinedBooks
<1> HIDE DEF next
<1> QED BY <1>1, <1>2, <1>3, <1>4, RowWritten

LEMMA SnapshotTakenBooks ==
    ASSUME Books, NEW k, SnapshotTaken(k)
    PROVE  Books'
<1>1. rows' = rows /\ task'.staged = rows
  BY DEF SnapshotTaken
<1> QED BY <1>1 DEF Books

LEMMA SnapshotStagesBooks ==
    ASSUME IsStep, Books, NEW t \in Upto(executed), NEW n, NEW c \in OperationFees(t, n), SnapshotStages(t, c)
    PROVE  Books'
<1> DEFINE id   == Canonical(orderOf[t])
           row  == task.staged[id]
           next == Projected(row, t, c)
<1>1. rows' = rows /\ task.at = "staging" /\ t \in task.todo
  BY DEF SnapshotStages
<1>2. IsStaging
  BY <1>1 DEF IsStep, Inv, IsTask, IsProjecting, Idle
<1>3. CASE ~next.ok
  <2>1. task' = [task EXCEPT !.todo = @ \ {t}]
    BY <1>3 DEF SnapshotStages
  <2>2. task'.staged = task.staged
    BY <1>2, <2>1 DEF IsStaging
  <2> QED BY <1>1, <2>2 DEF Books
<1>4. CASE next.ok
  <2>1. id \in Ids /\ IsRow(row, executed) /\ executed \in Nat /\ IsFilled(row) /\ IsBooked(row)
        /\ DOMAIN task.staged = Ids
    <3>1. orderOf[t] \in Ids
      BY <1>1 DEF IsMapped, IsStep
    <3>2. id \in Ids
      BY <3>1, CanonicalIsId
    <3> QED BY <1>1, <3>2, CopyRow DEF IsStep, Knows, CopyKnows, Books
  <2>2. task' = [task EXCEPT !.staged[id] = next.row, !.todo = @ \ {t}, !.done = @ \cup {t},
                             !.lots = @ + SentLots(row, t), !.c = Over(Telling(row, next, t, c), @)]
    BY <1>4 DEF SnapshotStages
  <2>3. IsBooked(next.row)
    <3>1. c.status \in Statuses
      BY OperationStatus
    <3> HIDE DEF row
    <3> QED BY <1>4, <2>1, <3>1, ProjectedBooks DEF Balances
  <2> DEFINE T == Telling(row, next, t, c)
  <2> HIDE DEF next, T
  <2>4. task'.staged = [task.staged EXCEPT ![id] = next.row]
    <3>1. task' = [task EXCEPT !.staged[id] = next.row, !.todo = @ \ {t}, !.done = @ \cup {t},
                               !.lots = @ + SentLots(row, t), !.c = Over(T, @)]
      BY <2>2 DEF T
    <3> HIDE DEF id, row
    <3> QED BY <1>2, <3>1 DEF IsStaging
  <2>5. \A other \in Ids : task'.staged[other] = next.row \/ task'.staged[other] = task.staged[other]
    BY <2>1, <2>4
  <2> HIDE DEF id, row
  <2> QED BY <1>1, <2>3, <2>5 DEF Books
<1> QED BY <1>3, <1>4

LEMMA SnapshotStoredBooks ==
    ASSUME Books, SnapshotStored
    PROVE  Books'
<1>1. task.at = "staging" /\ rows' = task.staged /\ task' = Idle
  BY DEF SnapshotStored, Commit
<1>2. task'.at /= "staging"
  BY <1>1, CopyIdle
<1> QED BY <1>1, <1>2 DEF Books

LEMMA LinkBooks ==
    ASSUME IsStep, Books, Link
    PROVE  Books'
<1> DEFINE row == Merged(rows["order"], rows["child"])
<1>1. task' = task /\ (rows' = rows \/ rows' = [rows EXCEPT !["order"] = row, !["child"] = EmptyRow])
  BY DEF Link
<1>2. IsBooked(row) /\ DOMAIN rows = Ids
  <2>1. /\ DOMAIN rows = Ids /\ executed \in Nat
        /\ IsRow(rows["order"], executed) /\ IsRow(rows["child"], executed)
        /\ IsFilled(rows["order"]) /\ IsFilled(rows["child"])
        /\ IsBooked(rows["order"]) /\ IsBooked(rows["child"])
    BY DEF IsStep, Inv, IsAccount, IsPair, Knows, RowsKnow, Ids, Books
  <2> QED BY <2>1, MergedBooks
<1> HIDE DEF row
<1>3. \A id \in Ids : rows'[id] \in {rows[id], row, EmptyRow}
  BY <1>1, <1>2 DEF Ids
<1>4. \A id \in Ids : IsBooked(rows'[id])
  BY <1>2, <1>3, EmptyBooks DEF Books
<1> QED BY <1>1, <1>4 DEF Books

LEMMA InitBooks ==
    ASSUME InitWhen(FALSE)
    PROVE  Books /\ Counts
<1>1. /\ rows = [id \in Ids |-> EmptyRow] /\ task = Idle /\ linker = "idle" /\ alias = FALSE
      /\ executed = 0
  BY DEF InitWhen
<1>2. \A id \in Ids : IsBooked(rows[id])
  BY <1>1, EmptyBooks
<1>3. task.at /= "staging"
  BY <1>1 DEF Idle
<1>4. Cardinality(Trades) \in Nat
  BY MeasuresAreAdditive, FS_CardinalityType
<1>5. executed \in 0 .. Cardinality(Trades) /\ linker \in {"idle", "holding", "merging"}
  BY <1>1, <1>4
<1>6. alias \in BOOLEAN
  BY <1>1
<1> QED BY <1>2, <1>3, <1>5, <1>6 DEF Books, Counts

LEMMA NextBooks ==
    ASSUME IsStep, Books, Next
    PROVE  Books'
<1>1. CASE StateStep
  <2>1. ASSUME NEW source, NEW id, NEW k, NEW given, StateResolved(source, id, k, given)
        PROVE  Books'
    <3>1. rows' = rows /\ task'.at = "resolved"
      BY <2>1 DEF StateResolved
    <3> QED BY <3>1, SameBooks
  <2>2. ASSUME StateRegressed PROVE Books'
    <3>1. rows' = rows /\ task'.at = "idle"
      BY <2>2, CopyIdle DEF StateRegressed
    <3> QED BY <3>1, SameBooks
  <2>3. ASSUME StateStaged PROVE Books'
    <3>1. rows' = rows /\ task' = [task EXCEPT !.at = "publishing"] /\ task.at = "resolved"
      BY <2>3 DEF StateStaged
    <3>2. "at" \in DOMAIN task
      BY <3>1, Projecting DEF IsProjecting, IsStep
    <3>3. task'.at = "publishing"
      BY <3>1, <3>2
    <3> QED BY <3>1, <3>3, SameBooks
  <2> QED BY <1>1, <2>1, <2>2, <2>3, StateIgnoredBooks, StatePublishedBooks DEF StateStep
<1>2. CASE TradeStep
  <2>1. ASSUME NEW id, NEW t, TradeKeyed(id, t) PROVE Books'
    <3>1. rows' = rows /\ task'.at = "keyed"
      BY <2>1 DEF TradeKeyed
    <3> QED BY <3>1, SameBooks
  <2> QED BY <1>2, <2>1, TradePublishedBooks DEF TradeStep
<1>3. CASE SnapshotStep
  BY <1>3, SnapshotTakenBooks, SnapshotStagesBooks, ProvenanceToldBooks, SnapshotStoredBooks
  DEF SnapshotStep
<1>4. CASE LinkStep
  <2>1. ASSUME NEW held, LinkHolding(held) PROVE Books'
    BY <2>1, SameBooks DEF LinkHolding
  <2> QED BY <1>4, <2>1, LinkBooks DEF LinkStep
<1>5. CASE Execute
  BY <1>5, SameBooks DEF Execute
<1> QED BY <1>1, <1>2, <1>3, <1>4, <1>5 DEF Next

LEMMA NextCounts ==
    ASSUME Counts, [Next]_vars
    PROVE  Counts'
<1>1. CASE Execute
  <2>1. Cardinality(Trades) \in Nat
    BY MeasuresAreAdditive, FS_CardinalityType
  <2> QED BY <1>1, <2>1 DEF Execute, Counts
<1>2. CASE StateStep
  BY <1>2 DEF StateStep, StateResolved, StateIgnored, StateRegressed, StateStaged, StatePublished, Counts
<1>3. CASE TradeStep
  BY <1>3, Zenon DEF TradeStep, TradeKeyed, TradePublished, Counts
<1>4. CASE SnapshotStep
  BY <1>4, Zenon DEF SnapshotStep, SnapshotTaken, SnapshotStages, ProvenanceTold, SnapshotStored, Counts
<1>5. CASE LinkStep
  BY <1>5 DEF LinkStep, LinkHolding, Link, Counts
<1>6. CASE UNCHANGED vars
  BY <1>6 DEF vars, Counts
<1> QED BY <1>1, <1>2, <1>3, <1>4, <1>5, <1>6 DEF Next

\* The rows add up whatever the order in which states, trades, snapshots and
\* the alias write them: the lots a row holds without a match are those of its
\* queue, and a row has seen only trades that were made (project_trade_fill_report_locked,
\* merge_fill_projection_alias).
THEOREM TypeCorrect == Spec => []TypeOK
<1>1. Init => Knows /\ Books /\ Counts
  BY InitKnows, InitBooks DEF Init
<1>2. (Inv /\ IsMapped) /\ (Inv /\ IsMapped)' /\ Knows /\ Books /\ Counts /\ [Next]_vars
        => Knows' /\ Books' /\ Counts'
  <2>1. SUFFICES ASSUME Inv /\ IsMapped, (Inv /\ IsMapped)', Knows, Books, Counts, [Next]_vars
                 PROVE  Knows' /\ Books' /\ Counts'
    OBVIOUS
  <2>2. Counts'
    BY <2>1, NextCounts
  <2>3. CASE Next
    BY <2>1, <2>2, <2>3, NextKnows, NextBooks DEF IsStep
  <2>4. CASE UNCHANGED vars
    <3>1. rows' = rows /\ task' = task
      BY <2>4 DEF vars
    <3> QED BY <2>1, <2>2, <2>4, <3>1, StutterKnows, SameBooks
  <2> QED BY <2>1, <2>3, <2>4
<1>3. Inv /\ Books /\ Counts => TypeOK
  <2>1. SUFFICES ASSUME Inv, Books, Counts PROVE TypeOK
    OBVIOUS
  <2>2. task.at \in {"idle", "resolved", "publishing", "keyed", "staging"}
    BY <2>1 DEF Inv, IsTask, IsProjecting, IsStaging, Idle
  <2>3. \A id \in Ids : IsRow(rows[id], executed)
    BY <2>1 DEF Inv, IsAccount, IsPair, Ids
  <2>4. Upto(executed) \subseteq Made /\ Upto(executed) \subseteq Trades
    <3>1. Trades \subseteq Nat \ {0} /\ executed \in Nat
      BY <2>1, LotsMeasure DEF Inv
    <3>2. ASSUME NEW t \in Upto(executed)
          PROVE  t \in Made /\ t \in Trades
      <4>1. t \in Trades /\ t <= executed
        BY <3>2 DEF Upto
      <4>2. t \in Nat \ {0} /\ executed \in Nat
        BY <3>1, <4>1
      <4> QED BY ONLY <4>1, <4>2 DEF Made
    <3> QED BY <3>2
  <2>5. \A id \in Ids : rows[id].seen \subseteq Made
    BY <2>3, <2>4 DEF IsRow
  <2>6. \A id \in Ids : rows[id].unmatched = Total(rows[id].queue)
    BY <2>1 DEF Books, IsBooked
  <2> QED BY <2>1, <2>2, <2>4, <2>5, <2>6 DEF TypeOK, Counts, Inv, IsAccount, IsHeard
<1> QED BY <1>1, <1>2, <1>3, FillInvariant, PTL DEF Spec

-----------------------------------------------------------------------------
\* Sums over finite sets.

\* What holds of no element, and of one more element than any set, holds of
\* every finite set.
LEMMA SetInduction ==
    ASSUME NEW D, IsFiniteSet(D), NEW P, {} \in P,
           \A s \in SUBSET D : \A e \in D \ s : s \in P => s \cup {e} \in P
    PROVE  \A s \in SUBSET D : s \in P
<1> DEFINE Fails == {n \in Nat : \E s \in SUBSET D : Cardinality(s) = n /\ s \notin P}
<1>1. \A s \in SUBSET D : IsFiniteSet(s) /\ Cardinality(s) \in Nat
  BY FS_Subset, FS_CardinalityType
<1>2. ASSUME Fails /= {}
      PROVE  FALSE
  <2>1. PICK n \in Fails : \A m \in Fails : n <= m
    BY <1>2, LeastElement
  <2>2. PICK s \in SUBSET D : Cardinality(s) = n /\ s \notin P
    BY <2>1
  <2>3. PICK e \in s : TRUE
    BY <2>2
  <2>4. PICK r : r = s \ {e}
    OBVIOUS
  <2>5. r \in SUBSET D /\ e \in D \ r /\ r \cup {e} = s /\ IsFiniteSet(s)
    BY <1>1, <2>2, <2>3, <2>4
  <2>6. Cardinality(r) = n - 1 /\ n \in Nat
    BY <2>1, <2>2, <2>3, <2>4, <2>5, FS_RemoveElement
  <2>7. Cardinality(r) \notin Fails
    BY <2>1, <2>6
  <2>8. r \in P
    BY <1>1, <2>5, <2>7
  <2> QED BY <2>2, <2>5, <2>8
<1> QED BY <1>1, <1>2

\* g is the sum of f over the subsets of D.
IsMeasure(g, f, D) ==
    /\ g \in [SUBSET D -> Int] /\ g[{}] = 0
    /\ \A s \in SUBSET D : \A e \in D \ s : g[s \cup {e}] = f[e] + g[s]

LEMMA MeasureExists ==
    ASSUME NEW D, IsFiniteSet(D), NEW f \in [D -> Int]
    PROVE  \E g : IsMeasure(g, f, D)
<1> DEFINE P == {s \in SUBSET D : \E g : IsMeasure(g, f, s)}
<1>1. {} \in P
  <2> DEFINE g == [s \in SUBSET {} |-> 0]
  <2>1. IsMeasure(g, f, {})
    BY DEF IsMeasure
  <2> QED BY <2>1
<1>2. ASSUME NEW s \in SUBSET D, NEW e \in D \ s, s \in P
      PROVE  s \cup {e} \in P
  <2>1. PICK g : IsMeasure(g, f, s)
    BY <1>2
  <2> DEFINE u == s \cup {e}
             h == [r \in SUBSET u |-> IF e \in r THEN f[e] + g[r \ {e}] ELSE g[r]]
  <2>2. \A r \in SUBSET u : r \ {e} \in SUBSET s /\ (e \notin r => r \in SUBSET s)
    OBVIOUS
  <2>3. h \in [SUBSET u -> Int]
    BY <2>1, <2>2 DEF IsMeasure
  <2>4. h[{}] = 0
    BY <2>1 DEF IsMeasure
  <2>5. ASSUME NEW r \in SUBSET u, NEW x \in u \ r
        PROVE  h[r \cup {x}] = f[x] + h[r]
    <3>0. r \cup {x} \in SUBSET u
      OBVIOUS
    <3>1. CASE x = e
      <4>1. (r \cup {x}) \ {e} = r /\ e \notin r
        BY <3>1
      <4> QED BY <3>0, <3>1, <4>1
    <3>2. CASE x /= e /\ e \in r
      <4>1. PICK q : q = r \ {e}
        OBVIOUS
      <4>2. q \in SUBSET s /\ x \in s \ q /\ (r \cup {x}) \ {e} = q \cup {x} /\ q \cup {x} \in SUBSET s
        BY <3>2, <4>1
      <4>3. h[r \cup {x}] = f[e] + g[q \cup {x}] /\ h[r] = f[e] + g[q]
        BY <3>0, <3>2, <4>1, <4>2
      <4>4. g[q \cup {x}] = f[x] + g[q]
        BY <2>1, <4>2 DEF IsMeasure
      <4>5. g[q] \in Int /\ f[x] \in Int /\ f[e] \in Int
        BY <2>1, <4>2 DEF IsMeasure
      <4> HIDE DEF h
      <4> QED BY <4>3, <4>4, <4>5
    <3>3. CASE x /= e /\ e \notin r
      <4>1. r \in SUBSET s /\ x \in s \ r /\ e \notin r \cup {x}
        BY <3>3
      <4>2. h[r \cup {x}] = g[r \cup {x}] /\ h[r] = g[r]
        BY <3>0, <3>3, <4>1
      <4> HIDE DEF h
      <4> QED BY <2>1, <4>1, <4>2 DEF IsMeasure
    <3> QED BY <3>1, <3>2, <3>3
  <2> HIDE DEF h
  <2>6. IsMeasure(h, f, u)
    BY <2>3, <2>4, <2>5 DEF IsMeasure
  <2> QED BY <2>6
<1> HIDE DEF P
<1>3. \A s \in SUBSET D : s \in P
  BY <1>1, <1>2, SetInduction
<1>4. D \in P
  BY <1>3
<1> QED BY <1>4 DEF P

\* One step of the sum of f over part.
Adding(iter, part, f) ==
    IF part = {} THEN 0
    ELSE f[CHOOSE x \in part : TRUE] + iter[part \ {CHOOSE x \in part : TRUE}]

LEMMA SumIsMeasure ==
    ASSUME NEW D, IsFiniteSet(D), NEW f \in [D -> Int], NEW g, IsMeasure(g, f, D)
    PROVE  SumFunction(f) = g[D]
<1> DEFINE Iter(i) == i = [s \in SUBSET D |-> Adding(i, s, f)]
           iter == CHOOSE i : Iter(i)
<1>1. DOMAIN f = D
  OBVIOUS
<1>2. SumFunction(f) = iter[D]
  BY <1>1 DEF SumFunction, SumFunctionOnSet, FoldFunctionOnSet, MapThenFoldSet, Adding
<1>3. ASSUME NEW s \in SUBSET D, s /= {}
      PROVE  LET x == CHOOSE x \in s : TRUE IN g[s] = f[x] + g[s \ {x}]
  <2>1. PICK x : x = CHOOSE y \in s : TRUE
    OBVIOUS
  <2>2. x \in s
    BY <1>3, <2>1
  <2>3. PICK r : r = s \ {x}
    OBVIOUS
  <2>4. r \in SUBSET D /\ x \in D \ r /\ r \cup {x} = s
    BY <2>2, <2>3
  <2>5. g[s] = f[x] + g[r]
    BY <2>4 DEF IsMeasure
  <2> QED BY <2>1, <2>3, <2>5
<1>4. Iter(g)
  <2>1. ASSUME NEW s \in SUBSET D PROVE g[s] = Adding(g, s, f)
    BY <1>3 DEF Adding, IsMeasure
  <2>2. g = [s \in SUBSET D |-> g[s]]
    BY DEF IsMeasure
  <2> QED BY <2>1, <2>2
<1>5. Iter(iter)
  BY <1>4
<1> HIDE DEF iter
<1> DEFINE P == {s \in SUBSET D : iter[s] = g[s]}
           Fails == {n \in Nat : \E s \in SUBSET D : Cardinality(s) = n /\ iter[s] /= g[s]}
<1>6. \A s \in SUBSET D : IsFiniteSet(s) /\ Cardinality(s) \in Nat
  BY FS_Subset, FS_CardinalityType
<1>7. ASSUME Fails /= {}
      PROVE  FALSE
  <2>1. PICK n \in Fails : \A m \in Fails : n <= m
    BY <1>7, LeastElement
  <2>2. PICK s \in SUBSET D : Cardinality(s) = n /\ iter[s] /= g[s]
    BY <2>1
  <2>3. iter[s] = Adding(iter, s, f) /\ g[s] = Adding(g, s, f)
    BY <1>4, <1>5
  <2>4. s /= {}
    BY <2>2, <2>3 DEF Adding
  <2>5. PICK x : x = CHOOSE y \in s : TRUE
    OBVIOUS
  <2>6. PICK r : r = s \ {x}
    OBVIOUS
  <2>7. x \in s /\ r \in SUBSET D
    BY <2>4, <2>5, <2>6
  <2>8. Cardinality(r) = n - 1 /\ n \in Nat
    BY <1>6, <2>1, <2>2, <2>6, <2>7, FS_RemoveElement
  <2>9. iter[r] = g[r]
    BY <1>6, <2>1, <2>7, <2>8
  <2> QED BY <2>2, <2>3, <2>4, <2>5, <2>6, <2>9 DEF Adding
<1>8. D \in SUBSET D
  OBVIOUS
<1>9. iter[D] = g[D]
  BY <1>6, <1>7, <1>8
<1> QED BY <1>2, <1>9

\* The sum of f as a measure.
LEMMA SumMeasured ==
    ASSUME NEW D, IsFiniteSet(D), NEW f \in [D -> Int]
    PROVE  \E g : IsMeasure(g, f, D) /\ SumFunction(f) = g[D] /\ SumFunction(f) \in Int
<1>1. PICK g : IsMeasure(g, f, D)
  BY MeasureExists
<1>2. SumFunction(f) = g[D]
  BY <1>1, SumIsMeasure
<1>3. g[D] \in Int
  BY <1>1 DEF IsMeasure
<1> QED BY <1>1, <1>2, <1>3

LEMMA SumOfNone ==
    ASSUME NEW f \in [{} -> Int]
    PROVE  SumFunction(f) = 0
BY FS_EmptySet, SumMeasured DEF IsMeasure

\* A sum is that of its parts.
LEMMA SumOfParts ==
    ASSUME NEW D, IsFiniteSet(D), NEW f \in [D -> Int], NEW I \in SUBSET D, NEW J \in SUBSET D,
           I \cap J = {}, I \cup J = D
    PROVE  SumFunction(f) = SumFunction(Restrict(f, I)) + SumFunction(Restrict(f, J))
<1>0. PICK a : a = Restrict(f, I)
  OBVIOUS
<1>11. PICK b : b = Restrict(f, J)
  OBVIOUS
<1>1. a \in [I -> Int] /\ b \in [J -> Int] /\ IsFiniteSet(I) /\ IsFiniteSet(J)
      /\ (\A i \in I : a[i] = f[i]) /\ \A i \in J : b[i] = f[i]
  BY <1>0, <1>11, FS_Subset DEF Restrict
<1>2. PICK g : IsMeasure(g, f, D) /\ SumFunction(f) = g[D]
  BY SumMeasured
<1>3. PICK g1 : IsMeasure(g1, a, I) /\ SumFunction(a) = g1[I]
  BY <1>1, SumMeasured
<1>4. PICK g2 : IsMeasure(g2, b, J) /\ SumFunction(b) = g2[J]
  BY <1>1, SumMeasured
<1> DEFINE P == {s \in SUBSET I : g[s] = g1[s]}
           Q == {s \in SUBSET J : g[I \cup s] = g1[I] + g2[s]}
<1>5. ASSUME NEW s \in SUBSET I, NEW e \in I \ s, s \in P
      PROVE  s \cup {e} \in P
  <2>1. s \in SUBSET D /\ e \in D \ s /\ s \cup {e} \in SUBSET I /\ a[e] = f[e]
    BY <1>1
  <2>2. g[s \cup {e}] = f[e] + g[s] /\ g1[s \cup {e}] = a[e] + g1[s]
    BY <1>2, <1>3, <2>1 DEF IsMeasure
  <2> QED BY <1>5, <2>1, <2>2
<1>6. {} \in P
  BY <1>2, <1>3 DEF IsMeasure
<1>7. g[I] = g1[I]
  <2>1. \A s \in SUBSET I : s \in P
    <3> HIDE DEF P
    <3> QED BY <1>1, <1>5, <1>6, SetInduction
  <2> QED BY <2>1
<1>8. ASSUME NEW s \in SUBSET J, NEW e \in J \ s, s \in Q
      PROVE  s \cup {e} \in Q
  <2>1. PICK u : u = I \cup s
    OBVIOUS
  <2>2. u \in SUBSET D /\ e \in D \ u /\ s \cup {e} \in SUBSET J /\ I \cup (s \cup {e}) = u \cup {e} /\ b[e] = f[e]
    BY <1>1, <2>1
  <2>3. g[u \cup {e}] = f[e] + g[u] /\ g2[s \cup {e}] = b[e] + g2[s]
    BY <1>2, <1>4, <2>2 DEF IsMeasure
  <2>4. g1[I] \in Int /\ g2[s] \in Int /\ f[e] \in Int /\ g[u] \in Int
    BY <1>2, <1>3, <1>4, <2>2 DEF IsMeasure
  <2>5. g[u] = g1[I] + g2[s]
    BY <1>8, <2>1
  <2>6. g[I \cup (s \cup {e})] = g1[I] + g2[s \cup {e}]
    <3>1. g[u \cup {e}] = g1[I] + g2[s \cup {e}]
      <4>1. PICK y : y = g[u \cup {e}] /\ y = f[e] + g[u]
        BY <2>3
      <4>2. PICK z : z = g2[s \cup {e}] /\ z = f[e] + g2[s]
        BY <2>2, <2>3
      <4>3. y = g1[I] + z
        BY ONLY <2>4, <2>5, <4>1, <4>2
      <4> QED BY ONLY <4>1, <4>2, <4>3
    <3>2. I \cup (s \cup {e}) = u \cup {e}
      BY <2>2
    <3> QED BY ONLY <3>1, <3>2
  <2> QED BY <2>2, <2>6
<1>9. {} \in Q
  <2>1. g1[I] \in Int /\ g2[{}] = 0 /\ I \cup {} = I
    BY <1>3, <1>4 DEF IsMeasure
  <2> QED BY <1>7, <2>1
<1>10. g[I \cup J] = g1[I] + g2[J]
  <2>1. \A s \in SUBSET J : s \in Q
    <3> HIDE DEF Q
    <3> QED BY <1>1, <1>8, <1>9, SetInduction
  <2> QED BY <2>1
<1> QED BY <1>0, <1>2, <1>3, <1>4, <1>10, <1>11

LEMMA SumOfOne ==
    ASSUME NEW d, NEW f \in [{d} -> Int]
    PROVE  SumFunction(f) = f[d]
<1>1. IsFiniteSet({d})
  BY FS_Singleton
<1>2. PICK g : IsMeasure(g, f, {d}) /\ SumFunction(f) = g[{d}]
  BY <1>1, SumMeasured
<1>3. {} \in SUBSET {d} /\ d \in {d} \ {} /\ {} \cup {d} = {d}
  OBVIOUS
<1>4. g[{} \cup {d}] = f[d] + g[{}]
  BY ONLY <1>2, <1>3 DEF IsMeasure
<1>5. g[{d}] = f[d] + 0
  BY <1>2, <1>3, <1>4 DEF IsMeasure
<1>6. f[d] \in Int
  OBVIOUS
<1> QED BY <1>2, <1>5, <1>6

\* One element apart from the others.
LEMMA SumWithout ==
    ASSUME NEW D, IsFiniteSet(D), NEW f \in [D -> Int], NEW d \in D
    PROVE  /\ SumFunction(f) = f[d] + SumFunction(Restrict(f, D \ {d}))
           /\ SumFunction(Restrict(f, D \ {d})) \in Int
<1>1. PICK I : I = {d}
  OBVIOUS
<1>2. PICK J : J = D \ {d}
  OBVIOUS
<1>3. SumFunction(f) = SumFunction(Restrict(f, I)) + SumFunction(Restrict(f, J))
  <2>1. I \in SUBSET D /\ J \in SUBSET D /\ I \cap J = {} /\ I \cup J = D
    BY <1>1, <1>2
  <2> QED BY <2>1, SumOfParts
<1>4. SumFunction(Restrict(f, I)) = f[d]
  <2>1. PICK a : a = Restrict(f, I)
    OBVIOUS
  <2>2. a \in [{d} -> Int] /\ a[d] = f[d]
    BY <1>1, <2>1 DEF Restrict
  <2>3. SumFunction(a) = f[d]
    BY <2>2, SumOfOne
  <2> QED BY <2>1, <2>3
<1>5. SumFunction(Restrict(f, J)) \in Int
  <2>1. PICK b : b = Restrict(f, J)
    OBVIOUS
  <2>2. b \in [J -> Int] /\ IsFiniteSet(J)
    BY <1>2, <2>1, FS_Subset DEF Restrict
  <2>3. SumFunction(b) \in Int
    BY <2>2, SumMeasured
  <2> QED BY <2>1, <2>3
<1> QED BY <1>2, <1>3, <1>4, <1>5

\* Terms that are differences add up to the difference of the sums.
LEMMA SumOfDifferences ==
    ASSUME NEW D, IsFiniteSet(D), NEW f \in [D -> Int], NEW a \in [D -> Int], NEW b \in [D -> Int],
           \A i \in D : f[i] = a[i] - b[i]
    PROVE  SumFunction(f) = SumFunction(a) - SumFunction(b)
<1>1. PICK g : IsMeasure(g, f, D) /\ SumFunction(f) = g[D]
  BY SumMeasured
<1>2. PICK g1 : IsMeasure(g1, a, D) /\ SumFunction(a) = g1[D]
  BY SumMeasured
<1>3. PICK g2 : IsMeasure(g2, b, D) /\ SumFunction(b) = g2[D]
  BY SumMeasured
<1> DEFINE P == {s \in SUBSET D : g[s] = g1[s] - g2[s]}
<1>4. {} \in P
  BY <1>1, <1>2, <1>3 DEF IsMeasure
<1>5. ASSUME NEW s \in SUBSET D, NEW e \in D \ s, s \in P
      PROVE  s \cup {e} \in P
  <2>1. g[s \cup {e}] = f[e] + g[s] /\ g1[s \cup {e}] = a[e] + g1[s] /\ g2[s \cup {e}] = b[e] + g2[s]
    BY <1>1, <1>2, <1>3 DEF IsMeasure
  <2>2. g[s] \in Int /\ g1[s] \in Int /\ g2[s] \in Int /\ a[e] \in Int /\ b[e] \in Int
        /\ f[e] = a[e] - b[e]
    BY <1>1, <1>2, <1>3 DEF IsMeasure
  <2>3. g[s] = g1[s] - g2[s]
    BY <1>5
  <2>4. g[s \cup {e}] = g1[s \cup {e}] - g2[s \cup {e}]
    BY ONLY <2>1, <2>2, <2>3
  <2>5. s \cup {e} \in SUBSET D
    OBVIOUS
  <2> QED BY <2>4, <2>5
<1>6. \A s \in SUBSET D : s \in P
  <2> HIDE DEF P
  <2> QED BY <1>4, <1>5, SetInduction
<1>7. g[D] = g1[D] - g2[D]
  BY <1>6
<1> QED BY <1>1, <1>2, <1>3, <1>7

\* A sum of terms none of which is negative is not, and is 0 only if they all are.
LEMMA SumOfNats ==
    ASSUME NEW D, IsFiniteSet(D), NEW f \in [D -> Nat]
    PROVE  SumFunction(f) \in Nat /\ (SumFunction(f) = 0 => \A i \in D : f[i] = 0)
<1>0. f \in [D -> Int]
  OBVIOUS
<1>1. PICK g : IsMeasure(g, f, D) /\ SumFunction(f) = g[D]
  BY <1>0, SumMeasured
<1> DEFINE P == {s \in SUBSET D : g[s] \in Nat /\ (g[s] = 0 => \A i \in s : f[i] = 0)}
<1>2. {} \in P
  BY <1>1 DEF IsMeasure
<1>3. ASSUME NEW s \in SUBSET D, NEW e \in D \ s, s \in P
      PROVE  s \cup {e} \in P
  <2>1. g[s \cup {e}] = f[e] + g[s]
    BY <1>1 DEF IsMeasure
  <2>2. g[s] \in Nat /\ f[e] \in Nat /\ (g[s] = 0 => \A i \in s : f[i] = 0)
    BY <1>3
  <2>3. g[s \cup {e}] \in Nat /\ (g[s \cup {e}] = 0 => g[s] = 0 /\ f[e] = 0)
    BY ONLY <2>1, <2>2
  <2>4. s \cup {e} \in SUBSET D
    OBVIOUS
  <2> QED BY <2>2, <2>3, <2>4
<1>4. \A s \in SUBSET D : s \in P
  <2> HIDE DEF P
  <2> QED BY <1>2, <1>3, SetInduction
<1>5. g[D] \in Nat /\ (g[D] = 0 => \A i \in D : f[i] = 0)
  BY <1>4
<1> QED BY <1>1, <1>5

\* Terms in another order add up to the same.
LEMMA SumReordered ==
    ASSUME NEW D, NEW E, IsFiniteSet(D), IsFiniteSet(E), NEW f \in [E -> Int], NEW h \in [D -> E],
           \A i, j \in D : h[i] = h[j] => i = j, \A e \in E : \E i \in D : h[i] = e,
           NEW a \in [D -> Int], \A i \in D : a[i] = f[h[i]]
    PROVE  SumFunction(a) = SumFunction(f)
<1>1. PICK g : IsMeasure(g, f, E) /\ SumFunction(f) = g[E]
  BY SumMeasured
<1>2. PICK g1 : IsMeasure(g1, a, D) /\ SumFunction(a) = g1[D]
  BY SumMeasured
<1> DEFINE image(s) == {h[i] : i \in s}
           P == {s \in SUBSET D : g1[s] = g[image(s)]}
<1>3. {} \in P
  <2>1. image({}) = {}
    OBVIOUS
  <2> QED BY <1>1, <1>2, <2>1 DEF IsMeasure
<1>4. ASSUME NEW s \in SUBSET D, NEW e \in D \ s, s \in P
      PROVE  s \cup {e} \in P
  <2>1. PICK m : m = image(s)
    OBVIOUS
  <2>2. m \in SUBSET E /\ h[e] \in E \ m /\ image(s \cup {e}) = m \cup {h[e]}
    BY <2>1
  <2>3. g1[s \cup {e}] = a[e] + g1[s]
    BY <1>2 DEF IsMeasure
  <2>4. g[m \cup {h[e]}] = f[h[e]] + g[m]
    BY <1>1, <2>2 DEF IsMeasure
  <2>5. g1[s] = g[m] /\ a[e] = f[h[e]]
    BY <1>4, <2>1
  <2>6. s \cup {e} \in SUBSET D
    OBVIOUS
  <2> HIDE DEF image
  <2> QED BY <2>2, <2>3, <2>4, <2>5, <2>6
<1>5. \A s \in SUBSET D : s \in P
  <2> HIDE DEF P
  <2> QED BY <1>3, <1>4, SetInduction
<1>6. image(D) = E
  OBVIOUS
<1>7. g1[D] = g[image(D)]
  BY <1>5
<1> QED BY <1>1, <1>2, <1>6, <1>7

-----------------------------------------------------------------------------
\* Commissions proportional to lots.

\* The broker charges the same for every lot.
Proportional == \E rate \in Nat : \A S \in SUBSET Trades : Fee[S] = rate * Lots[S]

Rate   == CHOOSE rate \in Nat : \A S \in SUBSET Trades : Fee[S] = rate * Lots[S]
Due(n) == Rate * n

LEMMA FeesAreDue ==
    ASSUME Proportional
    PROVE  Rate \in Nat /\ \A S \in SUBSET Trades : Fee[S] = Due(Lots[S])
BY DEF Proportional, Rate, Due

LEMMA Distributes ==
    ASSUME NEW r \in Nat, NEW m \in Int, NEW n \in Int
    PROVE  /\ r * m \in Int /\ r * (m + n) = r * m + r * n /\ r * (m - n) = r * m - r * n
           /\ r * 0 = 0
OBVIOUS

LEMMA ProductOfNats ==
    ASSUME NEW r \in Nat, NEW m \in Nat
    PROVE  r * m \in Nat
OBVIOUS

LEMMA DueIsLinear ==
    ASSUME Proportional, NEW m \in Int, NEW n \in Int
    PROVE  /\ Due(m) \in Int /\ Due(m + n) = Due(m) + Due(n) /\ Due(m - n) = Due(m) - Due(n)
           /\ Due(0) = 0 /\ (m >= 0 => Due(m) >= 0)
<1>1. PICK r \in Nat : r = Rate
  BY FeesAreDue
<1>2. m >= 0 => r * m \in Nat
  BY ProductOfNats
<1> QED BY <1>1, <1>2, Distributes DEF Due

LEMMA SumOfDue ==
    ASSUME Proportional, NEW D, IsFiniteSet(D), NEW a \in [D -> Int], NEW b \in [D -> Int],
           \A i \in D : a[i] = Due(b[i])
    PROVE  SumFunction(a) = Due(SumFunction(b))
<1>1. PICK g : IsMeasure(g, a, D) /\ SumFunction(a) = g[D]
  BY SumMeasured
<1>2. PICK h : IsMeasure(h, b, D) /\ SumFunction(b) = h[D]
  BY SumMeasured
<1> DEFINE P == {s \in SUBSET D : g[s] = Due(h[s])}
<1>3. {} \in P
  BY <1>1, <1>2, DueIsLinear DEF IsMeasure
<1>4. ASSUME NEW s \in SUBSET D, NEW e \in D \ s, s \in P
      PROVE  s \cup {e} \in P
  <2>1. g[s \cup {e}] = a[e] + g[s] /\ h[s \cup {e}] = b[e] + h[s]
    BY <1>1, <1>2 DEF IsMeasure
  <2>2. PICK x \in Int : x = b[e]
    OBVIOUS
  <2>3. PICK y \in Int : y = h[s]
    BY <1>2 DEF IsMeasure
  <2>4. a[e] = Due(x) /\ g[s] = Due(y)
    BY <1>4, <2>2, <2>3
  <2>5. Due(x + y) = Due(x) + Due(y)
    BY DueIsLinear
  <2>6. g[s \cup {e}] = Due(h[s \cup {e}])
    BY <2>1, <2>2, <2>3, <2>4, <2>5
  <2> QED BY <2>6
<1>5. \A s \in SUBSET D : s \in P
  <2> HIDE DEF P
  <2> QED BY <1>3, <1>4, SetInduction
<1>6. g[D] = Due(h[D])
  BY <1>5
<1> QED BY <1>1, <1>2, <1>6

\* A multiple divides without a rest.
LEMMA ExactQuotient ==
    ASSUME NEW r \in Nat, NEW w \in Nat, NEW n \in Nat \ {0}
    PROVE  ((r * n) * w) \div n = r * w /\ ((r * n) * w) % n = 0
<1>1. PICK y \in Nat : y = r * w
  BY ProductOfNats
<1>2. (r * n) * w = n * y
  BY <1>1
<1>3. PICK x \in Nat : x = n * y
  BY ProductOfNats
<1>4. PICK q \in Int : q = x \div n
  OBVIOUS
<1>5. PICK m \in 0 .. n - 1 : m = x % n
  OBVIOUS
<1>6. x = n * q + m
  BY <1>4, <1>5
<1>7. n * (y - q) = m
  BY <1>3, <1>6
<1>8. y - q = 0
  <2>1. ASSUME y - q >= 1 PROVE FALSE
    <3>1. PICK d \in Nat : y - q = d + 1
      BY <2>1
    <3>2. n * (d + 1) = n * d + n /\ n * d \in Nat
      BY ProductOfNats
    <3> QED BY <1>7, <3>1, <3>2
  <2>2. ASSUME y - q <= -1 PROVE FALSE
    <3>1. PICK d \in Nat : q - y = d + 1
      BY <2>2
    <3>2. n * (d + 1) = n * d + n /\ n * d \in Nat
      BY ProductOfNats
    <3>3. n * (y - q) = -(n * (d + 1))
      BY <3>1
    <3> QED BY <1>7, <3>2, <3>3
  <2> QED BY <2>1, <2>2
<1>9. n * 0 = 0
  OBVIOUS
<1> QED BY <1>1, <1>2, <1>3, <1>4, <1>5, <1>7, <1>8, <1>9

\* What is due for some lots is shared out without rounding.
LEMMA SharesAreDue ==
    ASSUME Proportional, NEW n \in Nat, NEW w \in [1 .. n -> Nat], SumFunction(w) > 0,
           NEW amount, amount = Due(SumFunction(w))
    PROVE  DOMAIN Allocate(amount, w) = 1 .. n /\ \A i \in 1 .. n : Allocate(amount, w)[i] = Due(w[i])
<1> DEFINE share == [i \in 1 .. n |-> IF SumFunction(w) > 0 THEN (amount * w[i]) \div SumFunction(w)
                                      ELSE amount \div Len(w)]
           rest(i) == IF SumFunction(w) > 0 THEN (amount * w[i]) % SumFunction(w) ELSE 0
           first == [i \in 1 .. n |-> {j \in 1 .. n : rest(j) > rest(i) \/ (rest(j) = rest(i) /\ j < i)}]
           left == amount - SumFunction(share)
<1>1. FoldSeq(+, 0, w) = SumFunction(w)
  BY DEF FoldSeq, FoldFunction, SumFunction, SumFunctionOnSet
<1>2. FoldSeq(+, 0, share) = SumFunction(share)
  BY DEF FoldSeq, FoldFunction, SumFunction, SumFunctionOnSet
<1>3. DOMAIN w = 1 .. n
  OBVIOUS
<1>4. Allocate(amount, w) =
         [i \in 1 .. n |-> share[i] + IF Cardinality(first[i]) < left THEN 1 ELSE 0]
  BY <1>1, <1>2, <1>3 DEF Allocate
<1>5. IsFiniteSet(1 .. n) /\ w \in [1 .. n -> Int]
  BY FS_Interval
<1>6. PICK total \in Nat \ {0} : total = SumFunction(w)
  BY <1>5, SumOfNats
<1>7. PICK r \in Nat : r = Rate
  BY FeesAreDue
<1>8. ASSUME NEW i \in 1 .. n
      PROVE  share[i] = Due(w[i])
  <2>1. PICK x \in Nat : x = w[i]
    OBVIOUS
  <2>2. share[i] = ((r * total) * x) \div total
    BY <1>6, <1>7, <2>1 DEF Due
  <2> HIDE DEF share
  <2> QED BY <1>7, <2>1, <2>2, ExactQuotient DEF Due
<1>9. \A i \in 1 .. n : share[i] \in Int
  BY <1>5, <1>8, DueIsLinear
<1>10. DOMAIN share = 1 .. n /\ share = [i \in 1 .. n |-> share[i]]
  OBVIOUS
<1> HIDE DEF share, left, first
<1>11. share \in [1 .. n -> Int]
  BY <1>9, <1>10
<1>12. SumFunction(share) = Due(SumFunction(w))
  BY <1>5, <1>8, <1>11, SumOfDue
<1>13. left = 0
  BY <1>6, <1>12, DueIsLinear DEF left
<1>14. ASSUME NEW i \in 1 .. n
       PROVE  Allocate(amount, w)[i] = Due(w[i])
  <2>1. PICK c \in Nat : c = Cardinality(first[i])
    <3>1. first[i] \in SUBSET (1 .. n)
      BY DEF first
    <3> QED BY <1>5, <3>1, FS_Subset, FS_CardinalityType
  <2>2. Allocate(amount, w)[i] = share[i] + IF Cardinality(first[i]) < left THEN 1 ELSE 0
    BY ONLY <1>4, i \in 1 .. n
  <2>3. Allocate(amount, w)[i] = share[i] + 0
    BY ONLY <1>13, <2>1, <2>2, c \in Nat
  <2> QED BY <1>8, <1>9, <2>3
<1> QED BY <1>4, <1>14

\* The lots of a queue, as a sum.
LotsOf(q) == [i \in DOMAIN q |-> q[i].lots]

LEMMA LotsOfQueue ==
    ASSUME NEW q, IsLots(q)
    PROVE  /\ LotsOf(q) \in [DOMAIN q -> Nat] /\ LotsOf(q) \in [DOMAIN q -> Int]
           /\ IsFiniteSet(DOMAIN q)
           /\ \A i \in DOMAIN q : LotsOf(q)[i] = q[i].lots
<1>1. PICK n \in Nat : n = Len(q) /\ DOMAIN q = 1 .. n
  BY LotsLength
<1>2. IsFiniteSet(1 .. n)
  BY FS_Interval
<1> QED BY <1>1, <1>2, LotsLength DEF LotsOf

LEMMA TotalIsSum ==
    ASSUME NEW q, IsLots(q)
    PROVE  Total(q) = SumFunction(LotsOf(q))
<1>0. PICK f : f = LotsOf(q)
  OBVIOUS
<1>1. PICK n \in Nat : n = Len(q) /\ DOMAIN q = 1 .. n
  BY LotsLength
<1>2. f \in [1 .. n -> Int] /\ IsFiniteSet(1 .. n) /\ \A i \in 1 .. n : f[i] = q[i].lots
  BY <1>0, <1>1, LotsOfQueue
<1>3. PICK g : IsMeasure(g, f, 1 .. n) /\ SumFunction(f) = g[1 .. n]
  BY <1>2, SumMeasured
<1>4. PICK P : Running(P, q)
  BY RunningExists
<1> DEFINE Fails == {m \in Nat : m <= n /\ g[1 .. m] /= P[m]}
<1>5. ASSUME Fails /= {}
      PROVE  FALSE
  <2>1. PICK m \in Fails : \A l \in Fails : m <= l
    BY <1>5, LeastElement
  <2>2. m /= 0
    <3>1. m = 0 => 1 .. m = {}
      OBVIOUS
    <3> QED BY <1>3, <1>4, <2>1, <3>1 DEF IsMeasure, Running
  <2>3. m \in 1 .. n /\ m - 1 \in Nat /\ m - 1 <= n /\ ~(m <= m - 1)
    BY <2>1, <2>2
  <2>4. g[1 .. m - 1] = P[m - 1]
    BY <2>1, <2>3
  <2>5. (1 .. m - 1) \in SUBSET (1 .. n) /\ m \in (1 .. n) \ (1 .. m - 1) /\ (1 .. m - 1) \cup {m} = 1 .. m
    BY <2>3
  <2>6. g[1 .. m] = f[m] + g[1 .. m - 1]
    BY <1>3, <2>5, Zenon DEF IsMeasure
  <2>7. P[m] = P[m - 1] + q[m].lots
    BY <1>1, <1>4, <2>3 DEF Running
  <2>8. P[m - 1] \in Nat /\ f[m] \in Int /\ f[m] = q[m].lots
    BY <1>1, <1>2, <1>4, <2>3 DEF Running
  <2>9. g[1 .. m] = P[m]
    BY ONLY <2>4, <2>6, <2>7, <2>8
  <2> QED BY <2>1, <2>9
<1>6. g[1 .. n] = P[n]
  BY <1>5
<1> QED BY <1>0, <1>1, <1>3, <1>4, <1>6, TotalIsRunning

-----------------------------------------------------------------------------
\* A fair row: its fills have the lots it emitted, each commission is what is
\* due for the lots it covers, the entries of its queues are synthetic fills
\* of at least as many lots, and what a trade published itself is what its
\* matches leave of it.

Backed(e, fees) ==
    e.fill.source /= "trade" /\ e.fill \in DOMAIN fees /\ e.lots <= fees[e.fill].lots
AreBacked(q, fees) == \A i \in DOMAIN q : Backed(q[i], fees)

\* x is what is tracked of fill f.
IsDue(f, x) ==
    /\ x.c.amount = Due(x.resolved) /\ x.resolved >= 0 /\ x.resolved <= x.lots
    /\ ~Known(x.c) => x.resolved = 0
    /\ f.source = "trade" /\ Known(x.c) => x.resolved = x.lots
AreDue(fees, F) == \A f \in DOMAIN fees \ F : IsDue(f, fees[f])

LotsTracked(fees) == [f \in DOMAIN fees |-> fees[f].lots]

OwnLots(r, t) == IF TradeFill(t) \in DOMAIN r.fees THEN r.fees[TradeFill(t)].lots ELSE 0
OwnIsRest(r, t) ==
    /\ OwnLots(r, t) <= Lots[{t}]
    /\ DOMAIN r.matches[t] /= {} => OwnLots(r, t) + Total(r.matches[t]) = Lots[{t}]
    /\ DOMAIN r.matches[t] = {} /\ TradeFill(t) \in DOMAIN r.fees =>
          OwnLots(r, t) = Lots[{t}] \/ Known(r.fees[TradeFill(t)].c)

IsWeighed(r) ==
    /\ IsFiniteSet(DOMAIN r.fees) /\ SumFunction(LotsTracked(r.fees)) = r.emitted
    /\ AreBacked(r.queue, r.fees) /\ \A t \in Trades : AreBacked(r.matches[t], r.fees)
    /\ \A t \in r.seen : OwnIsRest(r, t)

IsFair(r) == IsWeighed(r) /\ AreDue(r.fees, {})

\* A commission of some lots, if it is known.
IsPriced(c, lots) == c.amount = IF Known(c) THEN Due(lots) ELSE 0

LEMMA TrackedIsDue ==
    ASSUME Proportional, NEW lots \in Nat, NEW c, IsPriced(c, lots), NEW f
    PROVE  IsDue(f, Tracked(lots, c))
<1>1. PICK x : x = Tracked(lots, c)
  OBVIOUS
<1>2. x.lots = lots /\ x.c = c /\ x.resolved = IF Known(c) THEN lots ELSE 0
  BY <1>1 DEF Tracked
<1>3. Due(0) = 0 /\ 0 >= 0 /\ lots >= 0 /\ lots <= lots /\ 0 <= lots
  BY DueIsLinear
<1>4. CASE Known(c)
  <2>1. x.resolved = lots /\ x.c.amount = Due(lots) /\ Known(x.c)
    BY <1>2, <1>4 DEF IsPriced
  <2> HIDE DEF Known
  <2> QED BY <1>1, <1>2, <1>3, <2>1 DEF IsDue
<1>5. CASE ~Known(c)
  <2>1. x.resolved = 0 /\ x.c.amount = 0 /\ ~Known(x.c)
    BY <1>2, <1>5 DEF IsPriced
  <2> HIDE DEF Known
  <2> QED BY <1>1, <1>2, <1>3, <2>1 DEF IsDue
<1> QED BY <1>4, <1>5

LEMMA AllocatedIsPriced ==
    ASSUME NEW lots, NEW s, s /= "unknown", NEW a, a = Due(lots)
    PROVE  IsPriced(Commission(s, a), lots) /\ Known(Commission(s, a)) /\ Commission(s, a).amount = a
<1>1. Commission(s, a).status = s /\ Commission(s, a).amount = a
  BY DEF Commission
<1>2. Known(Commission(s, a))
  BY <1>1 DEF Known
<1> QED BY <1>1, <1>2 DEF IsPriced

LEMMA UnknownIsPriced ==
    ASSUME Proportional, NEW lots
    PROVE  IsPriced(Unknown, lots) /\ ~Known(Unknown)
BY DEF IsPriced, Known, Unknown

\* Fills that are kept with their lots.
Extends(fees, base) ==
    DOMAIN base \subseteq DOMAIN fees /\ \A f \in DOMAIN base : fees[f].lots = base[f].lots

LEMMA BackedStays ==
    ASSUME NEW q, NEW fees, NEW base, AreBacked(q, base), Extends(fees, base)
    PROVE  AreBacked(q, fees)
BY DEF AreBacked, Backed, Extends

LEMMA LotsOfFills ==
    ASSUME NEW fees, AreCovered(fees)
    PROVE  /\ LotsTracked(fees) \in [DOMAIN fees -> Int] /\ LotsTracked(fees) \in [DOMAIN fees -> Nat]
           /\ \A f \in DOMAIN fees : LotsTracked(fees)[f] = fees[f].lots /\ fees[f].lots \in Nat \ {0}
BY DEF LotsTracked, AreCovered, IsCovered

\* One more fill.
LEMMA PutLots ==
    ASSUME NEW fees, AreCovered(fees), IsFiniteSet(DOMAIN fees), NEW f, f \notin DOMAIN fees,
           NEW x, IsCovered(x)
    PROVE  /\ IsFiniteSet(DOMAIN Put(fees, f, x)) /\ Extends(Put(fees, f, x), fees)
           /\ SumFunction(LotsTracked(Put(fees, f, x))) = SumFunction(LotsTracked(fees)) + x.lots
<1>1. PICK D : D = DOMAIN fees \cup {f}
  OBVIOUS
<1>2. PICK next : next = Put(fees, f, x)
  OBVIOUS
<1>3. DOMAIN next = D /\ next[f] = x /\ \A g \in DOMAIN fees : next[g] = fees[g]
  BY <1>1, <1>2 DEF Put
<1>4. IsFiniteSet(D) /\ AreCovered(next)
  BY <1>1, <1>2, FS_AddElement, PutCovers
<1>5. PICK a : a = LotsTracked(next)
  OBVIOUS
<1>6. a \in [D -> Int] /\ a[f] = x.lots /\ f \in D
  BY <1>1, <1>3, <1>4, <1>5, LotsOfFills
<1>7. Restrict(a, D \ {f}) = LotsTracked(fees)
  <2>1. D \ {f} = DOMAIN fees
    BY <1>1
  <2>2. ASSUME NEW g \in DOMAIN fees
        PROVE  a[g] = fees[g].lots
    <3>1. g \in DOMAIN next /\ next[g] = fees[g]
      BY <1>1, <1>3
    <3>2. a[g] = next[g].lots
      BY <1>4, <1>5, <3>1, LotsOfFills
    <3> QED BY <3>1, <3>2
  <2>3. [g \in DOMAIN fees |-> a[g]] = [g \in DOMAIN fees |-> fees[g].lots]
    BY ONLY <2>2
  <2>4. Restrict(a, DOMAIN fees) = [g \in DOMAIN fees |-> a[g]]
    BY DEF Restrict
  <2>5. Restrict(a, D \ {f}) = Restrict(a, DOMAIN fees)
    BY ONLY <2>1
  <2> QED BY ONLY <2>3, <2>4, <2>5 DEF LotsTracked
<1>8. SumFunction(a) = a[f] + SumFunction(Restrict(a, D \ {f})) /\ SumFunction(Restrict(a, D \ {f})) \in Int
  BY <1>4, <1>6, SumWithout
<1>9. SumFunction(a) = SumFunction(LotsTracked(fees)) + x.lots
  <2>1. x.lots \in Int
    BY DEF IsCovered
  <2> QED BY ONLY <1>6, <1>7, <1>8, <2>1
<1>10. Extends(next, fees)
  BY <1>1, <1>3 DEF Extends
<1> QED BY <1>2, <1>3, <1>4, <1>5, <1>9, <1>10

\* The same fills.
LEMMA SameLots ==
    ASSUME NEW fees, NEW base, DOMAIN fees = DOMAIN base, Extends(fees, base)
    PROVE  LotsTracked(fees) = LotsTracked(base)
BY DEF LotsTracked, Extends

\* What a fair row knows of its commissions, in sum.
LEMMA RowSums ==
    ASSUME Proportional, NEW r, r.emitted \in Int, AreCovered(r.fees), IsFiniteSet(DOMAIN r.fees),
           SumFunction(LotsTracked(r.fees)) = r.emitted, AreDue(r.fees, {})
    PROVE  \E s \in Int : KnownFee(r) = Due(s) /\ UnknownLots(r) = r.emitted - s /\ UnknownLots(r) >= 0
<1>1. PICK D : D = DOMAIN r.fees
  OBVIOUS
<1>2. \A f \in D : r.fees[f].lots \in Int /\ r.fees[f].resolved \in Int
                   /\ r.fees[f].c.amount = Due(r.fees[f].resolved) /\ r.fees[f].resolved <= r.fees[f].lots
  BY <1>1 DEF AreCovered, IsCovered, AreDue, IsDue
<1>3. PICK a : a = [f \in D |-> r.fees[f].c.amount]
  OBVIOUS
<1>4. PICK b : b = [f \in D |-> r.fees[f].resolved]
  OBVIOUS
<1>5. PICK d : d = [f \in D |-> r.fees[f].lots - r.fees[f].resolved]
  OBVIOUS
<1>6. PICK l : l = LotsTracked(r.fees)
  OBVIOUS
<1>7. b \in [D -> Int] /\ \A f \in D : b[f] = r.fees[f].resolved
  BY <1>2, <1>4
<1>8. a \in [D -> Int] /\ \A f \in D : a[f] = Due(b[f])
  BY <1>2, <1>3, <1>7, DueIsLinear
<1>9. l \in [D -> Int] /\ \A f \in D : l[f] = r.fees[f].lots
  BY <1>1, <1>6, LotsOfFills
<1>10. d \in [D -> Int] /\ d \in [D -> Nat] /\ \A f \in D : d[f] = l[f] - b[f]
  BY <1>2, <1>5, <1>7, <1>9
<1>11. SumFunction(a) = Due(SumFunction(b)) /\ SumFunction(b) \in Int
  BY <1>1, <1>7, <1>8, SumOfDue, SumMeasured
<1>12. SumFunction(d) = SumFunction(l) - SumFunction(b)
  BY <1>1, <1>7, <1>9, <1>10, SumOfDifferences
<1>13. KnownFee(r) = SumFunction(a) /\ UnknownLots(r) = SumFunction(d)
  BY <1>1, <1>3, <1>5 DEF KnownFee, UnknownLots
<1>14. SumFunction(d) >= 0
  <2>1. SumFunction(d) \in Nat
    BY <1>1, <1>10, SumOfNats
  <2> QED BY <2>1
<1> QED BY <1>6, <1>11, <1>12, <1>13, <1>14

-----------------------------------------------------------------------------
\* A cumulative quantity, and the correction of its commission, keep a row fair.

\* What trade t published itself stays what its matches leave of it.
LEMMA RestStays ==
    ASSUME NEW r, NEW next, NEW t, OwnIsRest(r, t), next.matches[t] = r.matches[t],
           TradeFill(t) \in DOMAIN next.fees <=> TradeFill(t) \in DOMAIN r.fees,
           TradeFill(t) \in DOMAIN r.fees =>
              /\ next.fees[TradeFill(t)].lots = r.fees[TradeFill(t)].lots
              /\ Known(r.fees[TradeFill(t)].c) => Known(next.fees[TradeFill(t)].c)
    PROVE  OwnIsRest(next, t)
<1>1. OwnLots(next, t) = OwnLots(r, t)
  BY DEF OwnLots
<1> QED BY <1>1 DEF OwnIsRest

LEMMA TradeFillSource == \A t : TradeFill(t).source = "trade"
BY DEF TradeFill

\* A new cumulative fill takes what is left of the commission.
LEMMA CumulatedFair ==
    ASSUME Proportional, NEW r, NEW n \in Nat, IsRow(r, n), IsBooked(r), IsFair(r), NEW k \in 0 .. n,
           NEW fill, fill \notin DOMAIN r.fees, fill.source /= "trade", NEW given, Delta(r, k) > 0
    PROVE  LET c == CumulativeFee(r, k, given)
           IN  IsFair(Cumulated(r, k, fill, c)) /\ IsPriced(c, Delta(r, k))
<1>1. PICK c : c = CumulativeFee(r, k, given)
  OBVIOUS
<1>2. PICK d \in Nat \ {0} : d = Delta(r, k) /\ Lots[Upto(k)] = r.emitted + d
  <2>1. Lots[Upto(k)] \in Nat /\ r.emitted \in Nat
    BY UptoGrows DEF IsRow
  <2> QED BY <2>1 DEF Delta
<1>3. PICK next : next = Cumulated(r, k, fill, c)
  OBVIOUS
<1> DEFINE e == [fill |-> fill, lots |-> d]
<1>4. /\ next.queue = Append(r.queue, e) /\ next.matches = r.matches /\ next.seen = r.seen
      /\ next.emitted = r.emitted + d /\ next.fees = Put(r.fees, fill, Tracked(d, c))
  BY <1>2, <1>3 DEF Cumulated, IsRow, RowFields
<1>5. /\ AreCovered(r.fees) /\ IsFiniteSet(DOMAIN r.fees) /\ r.emitted \in Nat
      /\ SumFunction(LotsTracked(r.fees)) = r.emitted /\ AreDue(r.fees, {}) /\ IsWeighed(r)
  BY DEF IsFair, IsWeighed, IsBooked, IsRow
<1>6. IsPriced(c, d)
  <2>1. CASE given /\ UnknownLots(r) <= 0
    <3>1. PICK s \in Int : KnownFee(r) = Due(s) /\ UnknownLots(r) = r.emitted - s /\ UnknownLots(r) >= 0
      BY <1>5, RowSums
    <3>2. s = r.emitted
      BY <1>5, <2>1, <3>1
    <3>3. Fee[Upto(k)] = Due(Lots[Upto(k)])
      BY FeesAreDue, UptoGrows
    <3>4. Fee[Upto(k)] - KnownFee(r) = Due(d) /\ Due(d) >= 0 /\ Due(d) \in Int
      <4>1. Due(r.emitted + d) = Due(r.emitted) + Due(d) /\ Due(r.emitted) \in Int /\ Due(d) \in Int /\ Due(d) >= 0
        <5>1. PICK z \in Int : z = r.emitted
          BY <1>5
        <5>2. d \in Int /\ d >= 0
          OBVIOUS
        <5>3. Due(z + d) = Due(z) + Due(d) /\ Due(z) \in Int
          BY ONLY Proportional, z \in Int, <5>2, DueIsLinear
        <5>4. Due(d) \in Int /\ Due(d) >= 0
          BY ONLY Proportional, <5>2, DueIsLinear
        <5> QED BY ONLY <5>1, <5>3, <5>4
      <4>2. PICK x \in Int : x = Due(r.emitted)
        BY <4>1
      <4>3. PICK y \in Nat : y = Due(d)
        BY <4>1
      <4>4. Fee[Upto(k)] = Due(r.emitted + d)
        BY ONLY <1>2, <3>3
      <4>5. KnownFee(r) = Due(r.emitted)
        BY ONLY <3>1, <3>2
      <4>6. Fee[Upto(k)] = x + y
        BY ONLY <4>1, <4>2, <4>3, <4>4
      <4>7. KnownFee(r) = x
        BY ONLY <4>2, <4>5
      <4>8. Fee[Upto(k)] - KnownFee(r) = y
        BY ONLY <4>6, <4>7, x \in Int, y \in Nat
      <4> QED BY ONLY <4>3, <4>8, y \in Nat
    <3>5. Most(Fee[Upto(k)] - KnownFee(r), 0) = Due(d)
      BY <3>4 DEF Most
    <3>6. c = Commission("allocated", Most(Fee[Upto(k)] - KnownFee(r), 0))
      BY <1>1, <2>1 DEF CumulativeFee
    <3> QED BY <3>5, <3>6, AllocatedIsPriced
  <2>2. CASE ~(given /\ UnknownLots(r) <= 0)
    <3>1. c = Unknown
      BY <1>1, <2>2 DEF CumulativeFee
    <3> QED BY <3>1, UnknownIsPriced
  <2> QED BY <2>1, <2>2
<1>7. PICK x : x = Tracked(d, c)
  OBVIOUS
<1>8. IsCovered(x) /\ IsDue(fill, x) /\ x.lots = d
  BY <1>6, <1>7, TrackedCovers, TrackedIsDue DEF Tracked
<1>9. PICK fees : fees = Put(r.fees, fill, x)
  OBVIOUS
<1>10. next.fees = fees
  BY <1>4, <1>7, <1>9
<1>11. /\ IsFiniteSet(DOMAIN fees) /\ Extends(fees, r.fees)
       /\ SumFunction(LotsTracked(fees)) = r.emitted + d
  BY <1>5, <1>8, <1>9, PutLots
<1>12. /\ DOMAIN fees = DOMAIN r.fees \cup {fill} /\ fees[fill] = x
       /\ \A f \in DOMAIN r.fees : fees[f] = r.fees[f]
  BY <1>9 DEF Put
<1>13. AreDue(fees, {})
  BY <1>5, <1>8, <1>12 DEF AreDue
<1>14. AreBacked(next.queue, fees)
  <2>1. PICK q : q = r.queue /\ IsQueue(q) /\ AreBacked(q, r.fees)
    BY <1>5 DEF IsBooked, IsWeighed
  <2>2. DOMAIN e = {"fill", "lots"} /\ e.fill = fill /\ e.lots = d
    OBVIOUS
  <2>3. \A i \in DOMAIN q : q[i].fill /= fill
    BY <2>1 DEF AreBacked, Backed
  <2> HIDE DEF e
  <2>4. PICK y : y = Append(q, e)
    OBVIOUS
  <2>5. \A j \in DOMAIN y : y[j] = e \/ \E i \in DOMAIN q : y[j] = q[i]
    BY <2>1, <2>2, <2>3, <2>4, AppendedQueue
  <2>6. AreBacked(q, fees)
    BY <1>11, <2>1, BackedStays
  <2>7. Backed(e, fees)
    BY <1>8, <1>12, <2>2 DEF Backed
  <2>8. AreBacked(y, fees)
    BY <2>5, <2>6, <2>7 DEF AreBacked
  <2> QED BY <1>4, <2>1, <2>4, <2>8
<1>15. \A t \in Trades : AreBacked(next.matches[t], fees)
  BY <1>4, <1>5, <1>11, BackedStays DEF IsWeighed
<1>16. ASSUME NEW t \in next.seen PROVE OwnIsRest(next, t)
  <2>1. TradeFill(t) /= fill
    BY TradeFillSource
  <2>2. OwnIsRest(r, t) /\ next.matches[t] = r.matches[t]
    BY <1>4, <1>5 DEF IsWeighed
  <2>3. /\ TradeFill(t) \in DOMAIN next.fees <=> TradeFill(t) \in DOMAIN r.fees
        /\ TradeFill(t) \in DOMAIN r.fees => next.fees[TradeFill(t)] = r.fees[TradeFill(t)]
    BY <1>10, <1>12, <2>1
  <2> QED BY <2>2, <2>3, RestStays
<1>17. IsWeighed(next)
  BY <1>4, <1>10, <1>11, <1>14, <1>15, <1>16 DEF IsWeighed
<1> QED BY <1>1, <1>2, <1>3, <1>6, <1>10, <1>13, <1>17 DEF IsFair

\* Another commission of a fill.
LEMMA RepricedFair ==
    ASSUME Proportional, NEW r, IsBooked(r), IsFair(r), NEW f \in DOMAIN r.fees,
           NEW c, IsPriced(c, r.fees[f].lots), Known(c),
           NEW next, next.fees = Put(r.fees, f, Tracked(r.fees[f].lots, c)),
           next.queue = r.queue, next.emitted = r.emitted, next.seen = r.seen, next.matches = r.matches
    PROVE  IsFair(next) /\ Extends(next.fees, r.fees) /\ DOMAIN next.fees = DOMAIN r.fees
           /\ next.fees[f].lots = r.fees[f].lots
<1>1. PICK fees : fees = next.fees
  OBVIOUS
<1>2. PICK x : x = Tracked(r.fees[f].lots, c)
  OBVIOUS
<1>3. x.lots = r.fees[f].lots /\ x.c = c
  BY <1>2 DEF Tracked
<1>4. IsDue(f, x)
  <2>1. PICK lots \in Nat : lots = r.fees[f].lots
    BY DEF IsBooked, AreCovered, IsCovered
  <2> QED BY <1>2, <2>1, TrackedIsDue
<1>5. /\ DOMAIN fees = DOMAIN r.fees /\ fees[f] = x
      /\ \A g \in DOMAIN r.fees \ {f} : fees[g] = r.fees[g]
  BY <1>1, <1>2 DEF Put
<1>6. Extends(fees, r.fees)
  BY <1>3, <1>5 DEF Extends
<1>7. LotsTracked(fees) = LotsTracked(r.fees)
  BY <1>5, <1>6, SameLots
<1>8. AreDue(fees, {})
  BY <1>4, <1>5 DEF AreDue, IsFair
<1>9. AreBacked(next.queue, fees) /\ \A t \in Trades : AreBacked(next.matches[t], fees)
  BY <1>6, BackedStays DEF IsFair, IsWeighed
<1>10. ASSUME NEW t \in next.seen PROVE OwnIsRest(next, t)
  <2>1. PICK own : own = TradeFill(t)
    OBVIOUS
  <2>2. own \in DOMAIN r.fees => fees[own].lots = r.fees[own].lots /\ (Known(r.fees[own].c) => Known(fees[own].c))
    <3> HIDE DEF Known
    <3> QED BY <1>3, <1>5
  <2>3. OwnIsRest(r, t)
    BY DEF IsFair, IsWeighed
  <2> HIDE DEF Known
  <2> QED BY <1>1, <1>5, <2>1, <2>2, <2>3, RestStays
<1>11. IsFiniteSet(DOMAIN fees) /\ SumFunction(LotsTracked(fees)) = next.emitted
  BY <1>5, <1>7 DEF IsFair, IsWeighed
<1>12. IsWeighed(next)
  BY <1>1, <1>9, <1>10, <1>11 DEF IsWeighed
<1> QED BY <1>1, <1>3, <1>5, <1>6, <1>8, <1>12 DEF IsFair

\* The only fill that is open takes what is left of the commission.
LEMMA CorrectedFair ==
    ASSUME Proportional, NEW r, NEW n \in Nat, IsRow(r, n), IsBooked(r), IsFair(r), NEW k \in 0 .. n,
           NEW given, ~Lags(r, k), Delta(r, k) <= 0, NEW f \in Correctable(r, k, given)
    PROVE  LET next == Corrected(r, k, f)
           IN  /\ IsFair(next) /\ Extends(next.fees, r.fees) /\ DOMAIN next.fees = DOMAIN r.fees
               /\ f \in DOMAIN r.fees /\ IsPriced(next.fees[f].c, next.fees[f].lots)
<1>1. /\ f \in DOMAIN r.fees
      /\ \A g \in DOMAIN r.fees \ {f} : Resolved(r.fees[g])
  BY DEF Correctable
<1>2. /\ AreCovered(r.fees) /\ IsFiniteSet(DOMAIN r.fees) /\ r.emitted \in Nat
      /\ SumFunction(LotsTracked(r.fees)) = r.emitted /\ AreDue(r.fees, {})
  BY DEF IsFair, IsWeighed, IsBooked, IsRow
<1>3. PICK l : l = LotsTracked(r.fees)
  OBVIOUS
<1>4. PICK D : D = DOMAIN r.fees
  OBVIOUS
<1>5. l \in [D -> Int] /\ (\A g \in D : l[g] = r.fees[g].lots) /\ IsFiniteSet(D) /\ f \in D
  BY <1>1, <1>2, <1>3, <1>4, LotsOfFills
<1>6. PICK a : a = [g \in D |-> r.fees[g].c.amount]
  OBVIOUS
<1>7. a \in [D -> Int] /\ \A g \in D : a[g] = r.fees[g].c.amount
  <2>1. \A g \in D : r.fees[g].c.amount \in Int
    BY <1>2, <1>4, DueIsLinear DEF AreDue, IsDue, AreCovered, IsCovered
  <2> QED BY <1>6, <2>1
<1>8. PICK D1 : D1 = D \ {f}
  OBVIOUS
<1>9. PICK l1 : l1 = Restrict(l, D1)
  OBVIOUS
<1>10. PICK a1 : a1 = Restrict(a, D1)
  OBVIOUS
<1>11. /\ l1 \in [D1 -> Int] /\ a1 \in [D1 -> Int] /\ IsFiniteSet(D1)
       /\ \A g \in D1 : g \in D /\ l1[g] = l[g] /\ a1[g] = a[g]
  BY <1>5, <1>7, <1>8, <1>9, <1>10, FS_Subset DEF Restrict
<1>12. \A g \in D1 : a1[g] = Due(l1[g])
  BY <1>1, <1>2, <1>4, <1>5, <1>7, <1>8, <1>11 DEF Resolved, AreDue, IsDue
<1>13. SumFunction(a1) = Due(SumFunction(l1)) /\ SumFunction(l1) \in Int
  BY <1>11, <1>12, SumOfDue, SumMeasured
<1>14. SumFunction(l) = l[f] + SumFunction(l1)
  BY <1>5, <1>8, <1>9, SumWithout
<1>15. SumFunction(a) = a[f] + SumFunction(a1)
  BY <1>5, <1>7, <1>8, <1>10, SumWithout
<1>16. KnownFee(r) = SumFunction(a)
  BY <1>4, <1>6 DEF KnownFee
<1>17. Fee[Upto(k)] = Due(r.emitted)
  <2>1. Lots[Upto(k)] \in Nat /\ r.cum \in Nat
    BY UptoGrows DEF IsRow
  <2>2. Lots[Upto(k)] = r.emitted
    BY <1>2, <2>1 DEF Lags, Delta, Most
  <2> QED BY <2>2, FeesAreDue, UptoGrows
<1>18. PICK lots \in Nat : lots = r.fees[f].lots
  BY <1>1 DEF IsBooked, AreCovered, IsCovered
<1>19. Fee[Upto(k)] - KnownFee(r) + r.fees[f].c.amount = Due(lots)
  <2>1. PICK m \in Int : m = SumFunction(l1)
    BY <1>13
  <2>2. r.emitted = lots + m
    BY <1>2, <1>3, <1>5, <1>14, <1>18, <2>1
  <2>3. Due(lots + m) = Due(lots) + Due(m) /\ Due(lots) \in Int /\ Due(m) \in Int
    <3>1. lots \in Int
      OBVIOUS
    <3>2. Due(lots + m) = Due(lots) + Due(m) /\ Due(lots) \in Int
      BY ONLY Proportional, <3>1, m \in Int, DueIsLinear
    <3>3. Due(m) \in Int
      BY ONLY Proportional, m \in Int, DueIsLinear
    <3> QED BY <3>2, <3>3
  <2>4. PICK p \in Int : p = r.fees[f].c.amount /\ p = a[f]
    BY <1>5, <1>7
  <2>5. KnownFee(r) = p + Due(m)
    BY <1>13, <1>15, <1>16, <2>1, <2>4
  <2>6. Fee[Upto(k)] = Due(lots) + Due(m)
    BY ONLY <1>17, <2>2, <2>3
  <2>7. PICK x \in Int : x = Due(lots)
    BY <2>3
  <2>8. PICK y \in Int : y = Due(m)
    BY <2>3
  <2>9. Fee[Upto(k)] = x + y
    BY ONLY <2>6, <2>7, <2>8
  <2>10. KnownFee(r) = p + y
    BY ONLY <2>5, <2>8
  <2>11. Fee[Upto(k)] - KnownFee(r) + p = x
    BY ONLY <2>9, <2>10, x \in Int, y \in Int, p \in Int
  <2> QED BY ONLY <2>4, <2>7, <2>11
<1>20. PICK c : c = Commission("allocated", Fee[Upto(k)] - KnownFee(r) + r.fees[f].c.amount)
  OBVIOUS
<1>21. IsPriced(c, lots) /\ Known(c)
  BY <1>19, <1>20, AllocatedIsPriced
<1>22. PICK next : next = Corrected(r, k, f)
  OBVIOUS
<1>23. /\ next.fees = Put(r.fees, f, Tracked(r.fees[f].lots, c)) /\ next.queue = r.queue
       /\ next.emitted = r.emitted /\ next.seen = r.seen /\ next.matches = r.matches
  BY <1>20, <1>22 DEF Corrected, IsRow, RowFields
<1>24. /\ IsFair(next) /\ Extends(next.fees, r.fees) /\ DOMAIN next.fees = DOMAIN r.fees
       /\ next.fees[f].lots = lots
  BY <1>1, <1>18, <1>21, <1>23, RepricedFair
<1>25. next.fees[f].c = c
  BY <1>1, <1>23 DEF Put, Tracked
<1> QED BY <1>1, <1>21, <1>22, <1>24, <1>25

-----------------------------------------------------------------------------
\* A trade keeps a row fair.

\* The pieces of a queue of synthetic fills are of those fills.
LEMMA PiecesAreBacked ==
    ASSUME NEW x, NEW q, NEW fees, IsQueue(x), IsQueue(q), AreCovered(fees), Pieces(x, q),
           AreBacked(q, fees)
    PROVE  AreBacked(x, fees)
<1> SUFFICES ASSUME NEW i \in DOMAIN x PROVE Backed(x[i], fees)
  BY DEF AreBacked
<1>1. PICK j \in DOMAIN q : x[i].fill = q[j].fill /\ x[i].lots <= q[j].lots
  BY DEF Pieces
<1>2. q[j].fill.source /= "trade" /\ q[j].fill \in DOMAIN fees /\ q[j].lots <= fees[q[j].fill].lots
  BY DEF AreBacked, Backed
<1>3. PICK a \in Nat : a = x[i].lots
  BY DEF IsQueue
<1>4. PICK b \in Nat : b = q[j].lots
  BY DEF IsQueue
<1>5. PICK d \in Nat : d = fees[q[j].fill].lots
  BY <1>2 DEF AreCovered, IsCovered
<1>6. a <= d
  BY ONLY <1>1, <1>2, <1>3, <1>4, <1>5
<1> QED BY <1>1, <1>2, <1>3, <1>5, <1>6 DEF Backed

LEMMA LotsOfTrade ==
    ASSUME NEW t \in Trades
    PROVE  Lots[{t}] \in Nat \ {0}
<1>1. {t} \in SUBSET Trades
  OBVIOUS
<1>2. Lots[{t}] \in Nat /\ Lots[{t}] > 0
  BY <1>1, LotsMeasure
<1> QED BY <1>2

\* A trade that is new to the row: its own fill is what its matches leave of
\* it, and carries the commission of the trade until that is shared out.
LEMMA TradedFair ==
    ASSUME Proportional, NEW r, NEW n \in Nat, IsRow(r, n), IsBooked(r), IsFilled(r), IsFair(r),
           NEW t \in Upto(n), t \notin r.seen, NEW c, c.status \in Statuses
    PROVE  LET next == Traded(r, t, c)
           IN  /\ IsWeighed(next) /\ AreDue(next.fees, {TradeFill(t)}) /\ Extends(next.fees, r.fees)
               /\ IsPriced(c, Fresh(r, t)) => IsFair(next)
               /\ next.matches[t] = <<>> => Fresh(r, t) = Lots[{t}]
               /\ OwnLots(next, t) = Fresh(r, t)
<1>1. t \in Trades
  BY DEF Upto
<1>2. PICK w \in Nat \ {0} : w = Lots[{t}]
  BY <1>1, LotsOfTrade
<1>3. PICK own : own = TradeFill(t)
  OBVIOUS
<1>4. PICK fresh \in Nat : fresh = Fresh(r, t)
  BY TradedRow
<1>5. PICK next : next = Traded(r, t, c)
  OBVIOUS
<1>6. /\ own \notin DOMAIN r.fees
      /\ next.fees = IF fresh > 0 THEN Put(r.fees, own, Tracked(fresh, c)) ELSE r.fees
  BY <1>3, <1>4, <1>5, TradedFilled
<1>7. /\ next.seen = r.seen \cup {t} /\ next.emitted = r.emitted + fresh /\ r.emitted \in Nat
  <2>1. /\ Traded(r, t, c).seen = r.seen \cup {t}
        /\ Traded(r, t, c).emitted = r.emitted + Fresh(r, t)
    BY ONLY n \in Nat, IsRow(r, n), t \in Upto(n), t \notin r.seen, TradedRow
  <2>2. r.emitted \in Nat
    BY DEF IsRow
  <2> QED BY ONLY <1>4, <1>5, <2>1, <2>2
<1>8. PICK q : q = r.queue /\ IsQueue(q) /\ r.unmatched = Total(q) /\ AreBacked(q, r.fees)
  BY DEF IsBooked, IsFair, IsWeighed
<1>9. PICK gone : gone = Leading(q, w)
  OBVIOUS
<1>10. IsQueue(gone) /\ Total(gone) = Least(Total(q), w) /\ Pieces(gone, q)
  <2>1. w \in Nat
    OBVIOUS
  <2>2. PICK m \in Nat : m = w
    BY <2>1
  <2>3. IsQueue(q)
    BY <1>8
  <2>4. IsQueue(Leading(q, m)) /\ Total(Leading(q, m)) = Least(Total(q), m) /\ Pieces(Leading(q, m), q)
    BY ONLY <2>3, m \in Nat, LeadingTotal
  <2> QED BY ONLY <1>9, <2>2, <2>4
<1>11. PICK left : left = Trailing(q, w)
  OBVIOUS
<1>12. IsQueue(left) /\ Pieces(left, q)
  BY <1>8, <1>11, TrailingTotal
<1>13. next.queue = left /\ next.matches = [r.matches EXCEPT ![t] = @ \o gone] /\ DOMAIN r.matches = Trades
  BY <1>2, <1>5, <1>8, <1>9, <1>11 DEF Traded, IsRow, RowFields, IsBooked
<1>14. next.matches[t] = gone /\ \A u \in Trades \ {t} : next.matches[u] = r.matches[u]
  <2>1. PICK m : m = r.matches[t]
    OBVIOUS
  <2>2. m = <<>>
    BY <1>1, <2>1, EmptyQueue DEF IsBooked
  <2>3. <<>> \o gone = gone
    <3>1. PICK S : gone \in Seq(S)
      BY <1>10, QueueLength DEF IsQueue
    <3> QED BY <3>1
  <2> QED BY <1>1, <1>13, <2>1, <2>2, <2>3
<1>15. fresh + Total(gone) = w /\ Total(gone) \in Nat
  <2>1. PICK a \in Nat : a = Total(q)
    BY <1>8, QueueIsLots, TotalIsNat
  <2>2. Matched(r, t) = Least(a, w) /\ fresh = w - Matched(r, t)
    BY <1>2, <1>4, <1>8, <2>1 DEF Matched, Fresh
  <2>3. Total(gone) = Least(a, w)
    BY <1>10, <2>1
  <2>4. Least(a, w) \in Nat
    BY DEF Least
  <2>5. PICK l \in Nat : l = Least(a, w)
    BY <2>4
  <2> QED BY ONLY <2>2, <2>3, <2>5, fresh \in Nat, w \in Nat \ {0}
<1>16. AreCovered(r.fees) /\ IsFiniteSet(DOMAIN r.fees) /\ AreDue(r.fees, {})
       /\ SumFunction(LotsTracked(r.fees)) = r.emitted
  BY DEF IsBooked, IsFair, IsWeighed
<1>17. PICK x : x = Tracked(fresh, c)
  OBVIOUS
<1>18. x.lots = fresh /\ x.c = c /\ (fresh > 0 => IsCovered(x))
  <2>1. fresh > 0 => fresh \in Nat \ {0}
    OBVIOUS
  <2> QED BY <1>17, <2>1, TrackedCovers DEF Tracked
<1>19. PICK fees : fees = next.fees
  OBVIOUS
<1>20. /\ \A f \in DOMAIN r.fees : f \in DOMAIN fees /\ fees[f] = r.fees[f]
       /\ DOMAIN fees = IF fresh > 0 THEN DOMAIN r.fees \cup {own} ELSE DOMAIN r.fees
       /\ fresh > 0 => fees[own] = x
  BY <1>6, <1>17, <1>19 DEF Put
<1>21. IsFiniteSet(DOMAIN fees) /\ SumFunction(LotsTracked(fees)) = next.emitted
  <2>1. CASE fresh > 0
    <3>1. fees = Put(r.fees, own, x) /\ IsCovered(x)
      BY <1>6, <1>17, <1>18, <1>19, <2>1
    <3>2. /\ IsFiniteSet(DOMAIN fees)
          /\ SumFunction(LotsTracked(fees)) = SumFunction(LotsTracked(r.fees)) + x.lots
      BY <1>6, <1>16, <3>1, PutLots
    <3> QED BY <1>7, <1>16, <1>18, <3>2
  <2>2. CASE ~(fresh > 0)
    <3>1. fees = r.fees /\ fresh = 0
      BY <1>6, <1>19, <2>2
    <3> QED BY <1>7, <1>16, <3>1
  <2> QED BY <2>1, <2>2
<1>22. Extends(fees, r.fees)
  BY <1>20 DEF Extends
<1>23. AreCovered(fees)
  BY <1>6, <1>16, <1>17, <1>18, <1>19, PutCovers
<1>24. OwnLots(next, t) = fresh
  <2>1. CASE fresh > 0
    <3>1. own \in DOMAIN fees /\ fees[own].lots = fresh
      BY <1>18, <1>20, <2>1
    <3> QED BY <1>3, <1>19, <3>1 DEF OwnLots
  <2>2. CASE ~(fresh > 0)
    <3>1. own \notin DOMAIN fees /\ fresh = 0
      BY <1>6, <1>20, <2>2
    <3> QED BY <1>3, <1>19, <3>1 DEF OwnLots
  <2> QED BY <2>1, <2>2
<1>25. DOMAIN gone = {} => fresh = w
  <2>1. SUFFICES ASSUME DOMAIN gone = {} PROVE fresh = w
    OBVIOUS
  <2>2. Total(gone) = 0
    BY <1>10, <2>1, EmptyQueue, TotalEmpty
  <2> QED BY ONLY <1>15, <2>2, fresh \in Nat, w \in Nat \ {0}
<1>26. OwnIsRest(next, t)
  <2>1. fresh <= w
    BY ONLY <1>15, fresh \in Nat, w \in Nat \ {0}
  <2> QED BY <1>2, <1>14, <1>15, <1>24, <1>25, <2>1 DEF OwnIsRest
<1>27. ASSUME NEW u \in r.seen
       PROVE  OwnIsRest(next, u)
  <2>1. TradeFill(u) /= own /\ u \in Trades \ {t}
    <3>1. u /= t /\ u \in Trades
      BY DEF IsRow, Upto
    <3> QED BY <1>3, <3>1 DEF TradeFill
  <2>2. OwnIsRest(r, u) /\ next.matches[u] = r.matches[u]
    BY <1>14, <2>1 DEF IsFair, IsWeighed
  <2>3. /\ TradeFill(u) \in DOMAIN next.fees <=> TradeFill(u) \in DOMAIN r.fees
        /\ TradeFill(u) \in DOMAIN r.fees => next.fees[TradeFill(u)] = r.fees[TradeFill(u)]
    BY <1>19, <1>20, <2>1
  <2> QED BY <2>2, <2>3, RestStays
<1>28. AreBacked(left, fees) /\ AreBacked(gone, fees)
  <2>1. AreBacked(q, fees)
    BY <1>8, <1>22, BackedStays
  <2> QED BY ONLY <1>8, <1>10, <1>12, <1>23, <2>1, PiecesAreBacked
<1>29. \A u \in Trades : AreBacked(next.matches[u], fees)
  <2>1. \A u \in Trades \ {t} : AreBacked(r.matches[u], fees)
    BY <1>22, BackedStays DEF IsFair, IsWeighed
  <2> QED BY <1>14, <1>28, <2>1
<1>30. IsWeighed(next)
  BY <1>7, <1>13, <1>19, <1>21, <1>26, <1>27, <1>28, <1>29 DEF IsWeighed
<1>31. AreDue(fees, {own})
  BY <1>16, <1>20 DEF AreDue
<1>32. IsPriced(c, fresh) => AreDue(fees, {})
  <2>1. SUFFICES ASSUME IsPriced(c, fresh), NEW f \in DOMAIN fees PROVE IsDue(f, fees[f])
    BY DEF AreDue
  <2>2. IsDue(own, x)
    BY <1>17, <2>1, TrackedIsDue
  <2>3. CASE f \in DOMAIN r.fees
    <3>1. IsDue(f, r.fees[f])
      BY <1>16, <2>3 DEF AreDue
    <3> QED BY <1>20, <2>3, <3>1
  <2>4. CASE f \notin DOMAIN r.fees
    BY <1>20, <2>1, <2>2, <2>4
  <2> QED BY <2>3, <2>4
<1>33. next.matches[t] = <<>> => fresh = w
  <2>1. DOMAIN <<>> = {}
    OBVIOUS
  <2> QED BY <1>14, <1>25, <2>1
<1> QED BY <1>2, <1>3, <1>4, <1>5, <1>19, <1>22, <1>24, <1>30, <1>31, <1>32, <1>33 DEF IsFair

-----------------------------------------------------------------------------
\* What a commission shares out: what is due for the lots of the open fills.

\* The lots of some entries of a queue.
LEMMA PickedTotal ==
    ASSUME NEW q, IsQueue(q), NEW I \in SUBSET DOMAIN q
    PROVE  /\ Total(At(q, I)) = SumFunction(Restrict(LotsOf(q), I))
           /\ Restrict(LotsOf(q), I) \in [I -> Int] /\ \A i \in I : Restrict(LotsOf(q), I)[i] = q[i].lots
<1>1. PICK x : x = At(q, I)
  OBVIOUS
<1>2. IsQueue(x) /\ IsLots(x) /\ IsLots(q) /\ IsSeq(q)
  BY <1>1, PickedQueue, QueueIsLots DEF IsQueue
<1>3. PICK h \in [DOMAIN x -> I] : /\ \A k \in DOMAIN x : x[k] = q[h[k]]
                                   /\ \A k, l \in DOMAIN x : h[k] = h[l] => k = l
                                   /\ \A i \in I : \E k \in DOMAIN x : h[k] = i
  BY <1>1, <1>2, PickedEntries
<1>4. PICK l : l = LotsOf(q)
  OBVIOUS
<1>5. l \in [DOMAIN q -> Int] /\ IsFiniteSet(DOMAIN q) /\ \A i \in DOMAIN q : l[i] = q[i].lots
  BY <1>2, <1>4, LotsOfQueue
<1>6. PICK a : a = LotsOf(x)
  OBVIOUS
<1>7. a \in [DOMAIN x -> Int] /\ IsFiniteSet(DOMAIN x) /\ \A k \in DOMAIN x : a[k] = x[k].lots
  BY <1>2, <1>6, LotsOfQueue
<1>8. PICK f : f = Restrict(l, I)
  OBVIOUS
<1>9. f \in [I -> Int] /\ IsFiniteSet(I) /\ \A i \in I : f[i] = l[i] /\ i \in DOMAIN q
  <2>1. DOMAIN f = I /\ \A i \in I : f[i] = l[i]
    BY <1>8 DEF Restrict
  <2>2. f = [i \in I |-> l[i]]
    BY <1>8 DEF Restrict
  <2>3. \A i \in I : l[i] \in Int
    BY <1>5
  <2>4. IsFiniteSet(I)
    BY <1>5, FS_Subset
  <2> QED BY <2>1, <2>2, <2>3, <2>4
<1>10. \A k \in DOMAIN x : a[k] = f[h[k]]
  BY <1>3, <1>5, <1>7, <1>9
<1>11. SumFunction(a) = SumFunction(f)
  BY ONLY <1>3, <1>7, <1>9, <1>10, SumReordered
<1>12. Total(x) = SumFunction(a)
  BY <1>2, <1>6, TotalIsSum
<1>13. \A i \in I : f[i] = q[i].lots
  BY <1>5, <1>9
<1> QED BY <1>1, <1>4, <1>8, <1>9, <1>11, <1>12, <1>13

\* A fill whose commission is settled keeps what is due for the lots of an
\* entry.
LEMMA KeptIsDue ==
    ASSUME Proportional, NEW f, NEW x, IsCovered(x), IsDue(f, x), Resolved(x),
           NEW lots \in Nat, lots <= x.lots
    PROVE  Allocate(x.c.amount, <<lots, x.lots - lots>>)[1] = Due(lots)
<1>1. PICK n \in Nat \ {0} : n = x.lots
  BY DEF IsCovered
<1>2. PICK m \in Nat : m = n - lots
  BY <1>1
<1>3. PICK w : w = <<lots, m>>
  OBVIOUS
<1>4. DOMAIN w = 1 .. 2 /\ w[1] = lots /\ w[2] = m /\ w = [i \in 1 .. 2 |-> w[i]]
  BY <1>3
<1>5. w \in [1 .. 2 -> Nat] /\ w \in [1 .. 2 -> Int] /\ IsFiniteSet(1 .. 2)
  <2>1. IsFiniteSet(1 .. 2)
    <3>1. PICK k \in Int : k = 2
      OBVIOUS
    <3>2. IsFiniteSet(1 .. k)
      BY FS_Interval
    <3> QED BY <3>1, <3>2
  <2>2. \A i \in 1 .. 2 : w[i] \in Nat
    BY <1>4
  <2>3. w \in [1 .. 2 -> Nat]
    BY <1>4, <2>2
  <2> QED BY <2>1, <2>3
<1>6. SumFunction(w) = n
  <2>1. PICK v : v = Restrict(w, (1 .. 2) \ {1})
    OBVIOUS
  <2>2. SumFunction(w) = w[1] + SumFunction(v)
    <3>1. 1 \in 1 .. 2
      OBVIOUS
    <3> QED BY ONLY <1>5, <2>1, <3>1, SumWithout
  <2>3. v \in [{2} -> Int] /\ v[2] = m
    <3>1. (1 .. 2) \ {1} = {2}
      OBVIOUS
    <3>2. v = [i \in {2} |-> w[i]]
      BY <2>1, <3>1 DEF Restrict
    <3> QED BY <1>4, <3>2
  <2>4. SumFunction(v) = m
    BY <2>3, SumOfOne
  <2>5. SumFunction(w) = lots + m
    BY ONLY <1>4, <2>2, <2>4
  <2> QED BY ONLY <1>2, <2>5, n \in Nat \ {0}, m \in Nat, lots \in Nat
<1>7. PICK amount : amount = x.c.amount
  OBVIOUS
<1>8. amount = Due(n)
  BY <1>1, <1>7 DEF IsDue, Resolved
<1>9. \A i \in 1 .. 2 : Allocate(amount, w)[i] = Due(w[i])
  <2>1. SumFunction(w) > 0 /\ amount = Due(SumFunction(w)) /\ 2 \in Nat
    BY ONLY <1>6, <1>8, n \in Nat \ {0}
  <2>2. PICK k \in Nat : k = 2
    OBVIOUS
  <2>3. w \in [1 .. k -> Nat]
    BY <1>5, <2>2
  <2>4. \A i \in 1 .. k : Allocate(amount, w)[i] = Due(w[i])
    BY ONLY Proportional, k \in Nat, <2>1, <2>3, SharesAreDue
  <2> QED BY <2>2, <2>4
<1>10. 1 \in 1 .. 2
  OBVIOUS
<1>11. w = <<lots, x.lots - lots>>
  BY <1>1, <1>2, <1>3
<1> QED BY <1>4, <1>7, <1>9, <1>10, <1>11

\* Attribution a shares out what is due for the open lots: those of synthetic
\* fills of row r, and those trade t published itself.
Sharing(a, r, t) ==
    /\ IsQueue(a.open) /\ a.rest = Due(Total(a.open)) /\ a.residual = OwnLots(r, t)
    /\ \A i \in DOMAIN a.open : \/ a.open[i].fill = TradeFill(t) /\ a.open[i].lots = a.residual
                                \/ Backed(a.open[i], r.fees)
    /\ a.residual > 0 => \E i \in DOMAIN a.open : a.open[i].fill = TradeFill(t)

LEMMA OneEntry ==
    ASSUME NEW f, NEW n \in Nat \ {0}
    PROVE  LET q == <<[fill |-> f, lots |-> n]>>
           IN  IsQueue(q) /\ Total(q) = n /\ DOMAIN q = {1} /\ q[1].fill = f /\ q[1].lots = n
<1> DEFINE e == [fill |-> f, lots |-> n]
<1>1. DOMAIN e = {"fill", "lots"} /\ e.lots = n /\ e.fill = f
  OBVIOUS
<1> HIDE DEF e
<1>2. PICK x : x = Append(<<>>, e)
  OBVIOUS
<1>3. x = <<e>> /\ DOMAIN x = {1} /\ x[1] = e
  BY <1>2
<1>4. PICK q : q = <<>>
  OBVIOUS
<1>5. IsQueue(q) /\ Total(q) = 0 /\ DOMAIN q = {}
  <2>1. DOMAIN <<>> = {}
    OBVIOUS
  <2> QED BY <1>4, <2>1, TotalEmpty
<1>6. IsQueue(x) /\ Total(x) = Total(q) + e.lots
  <2>1. e.lots \in Nat \ {0} /\ \A i \in DOMAIN q : q[i].fill /= e.fill
    BY <1>1, <1>5
  <2>2. x = Append(q, e)
    BY <1>2, <1>4
  <2> QED BY ONLY <1>1, <1>5, <2>1, <2>2, AppendedQueue
<1>7. Total(x) = n
  BY ONLY <1>1, <1>5, <1>6, n \in Nat \ {0}
<1> QED BY <1>1, <1>3, <1>6, <1>7 DEF e

LEMMA AttributionFair ==
    ASSUME Proportional, NEW r, IsBooked(r), IsWeighed(r), NEW t \in Trades, t \in r.seen,
           AreDue(r.fees, {TradeFill(t)}), r.matches[t] /= <<>>,
           NEW c, Known(c), IsPriced(c, Lots[{t}])
    PROVE  Sharing(Attribution(r, t, c), r, t)
<1> DEFINE matches == r.matches[t]
           settled == {i \in DOMAIN matches :
                          matches[i].fill \in DOMAIN r.fees /\ Resolved(r.fees[matches[i].fill])}
           others  == DOMAIN matches \ settled
           residual == Lots[{t}] - Total(matches)
           own     == IF residual > 0 THEN <<[fill |-> TradeFill(t), lots |-> residual]>> ELSE <<>>
           fixed   == Restrict(matches, settled)
           kept(m) == LET tracked == r.fees[m.fill]
                      IN  Allocate(tracked.c.amount, <<m.lots, tracked.lots - m.lots>>)[1]
           part    == [i \in settled |-> kept(fixed[i])]
<1>1. PICK a : a = Attribution(r, t, c)
  OBVIOUS
<1>2. /\ a.open = At(matches, others) \o own /\ a.residual = residual
      /\ a.rest = c.amount - SumFunction(part)
  BY <1>1, Zenon DEF Attribution
<1>3. PICK M : M = matches /\ IsQueue(M) /\ AreBacked(M, r.fees) /\ M /= <<>>
  BY DEF IsBooked, IsWeighed
<1>4. PICK w \in Nat \ {0} : w = Lots[{t}]
  BY LotsOfTrade
<1>5. PICK m \in Nat : m = Total(M)
  BY <1>3, QueueIsLots, TotalIsNat
<1>6. PICK o \in Int : o = OwnLots(r, t)
  BY DEF OwnLots, IsBooked, AreCovered, IsCovered
<1>7. o + m = w /\ o >= 0
  <2>1. DOMAIN M /= {}
    BY <1>3, EmptyQueue
  <2>2. OwnLots(r, t) + Total(M) = Lots[{t}]
    BY <1>3, <2>1 DEF OwnIsRest, IsWeighed
  <2>3. OwnLots(r, t) >= 0
    BY DEF OwnLots, IsBooked, AreCovered, IsCovered
  <2> QED BY ONLY <1>4, <1>5, <1>6, <2>2, <2>3
<1>8. residual = o
  BY ONLY <1>3, <1>4, <1>5, <1>7, o \in Int
<1>9. PICK S : S = settled
  OBVIOUS
<1>10. PICK O : O = others
  OBVIOUS
<1>11. S \in SUBSET DOMAIN M /\ O \in SUBSET DOMAIN M /\ S \cap O = {} /\ S \cup O = DOMAIN M
  BY <1>3, <1>9, <1>10
<1>12. \A i \in S : M[i].fill \in DOMAIN r.fees /\ Resolved(r.fees[M[i].fill])
  BY <1>3, <1>9
<1>13. PICK l : l = LotsOf(M)
  OBVIOUS
<1>14. l \in [DOMAIN M -> Int] /\ IsFiniteSet(DOMAIN M) /\ Total(M) = SumFunction(l)
  BY <1>3, <1>13, QueueIsLots, LotsOfQueue, TotalIsSum
<1>15. PICK ls : ls = Restrict(l, S)
  OBVIOUS
<1>16. PICK lo : lo = Restrict(l, O)
  OBVIOUS
<1>17. SumFunction(l) = SumFunction(ls) + SumFunction(lo)
  BY ONLY <1>11, <1>14, <1>15, <1>16, SumOfParts
<1>18. ls \in [S -> Int] /\ (\A i \in S : ls[i] = M[i].lots) /\ IsFiniteSet(S) /\ SumFunction(ls) \in Int
  <2>1. ls \in [S -> Int] /\ (\A i \in S : ls[i] = M[i].lots)
    BY ONLY <1>3, <1>11, <1>13, <1>15, PickedTotal
  <2>2. IsFiniteSet(S)
    BY <1>11, <1>14, FS_Subset
  <2>3. SumFunction(ls) \in Int
    BY ONLY <2>1, <2>2, SumMeasured
  <2> QED BY <2>1, <2>2, <2>3
<1>19. PICK picked : picked = At(M, O)
  OBVIOUS
<1>20. Total(picked) = SumFunction(lo)
  BY ONLY <1>3, <1>11, <1>13, <1>16, <1>19, PickedTotal
<1>21. /\ IsQueue(picked) /\ \A k \in DOMAIN picked : \E i \in O : picked[k] = M[i]
  BY ONLY <1>3, <1>11, <1>19, PickedQueue
<1>22. PICK k : k = part
  BY Zenon
<1>23. ASSUME NEW i \in S
       PROVE  k[i] = Due(ls[i])
  <2>1. PICK e : e = M[i]
    OBVIOUS
  <2>2. k[i] = Allocate(r.fees[e.fill].c.amount, <<e.lots, r.fees[e.fill].lots - e.lots>>)[1]
    BY <1>3, <1>9, <1>22, <2>1, Zenon DEF Restrict
  <2>3. PICK x : x = r.fees[e.fill]
    OBVIOUS
  <2>4. Backed(e, r.fees) /\ e.lots \in Nat
    BY <1>3, <1>11, <2>1 DEF AreBacked, IsQueue
  <2>5. e.fill /= TradeFill(t)
    <3>1. e.fill.source /= "trade"
      BY <2>4 DEF Backed
    <3> QED BY ONLY <3>1, TradeFillSource
  <2>6. IsDue(e.fill, x) /\ IsCovered(x) /\ e.lots <= x.lots
    BY <2>3, <2>4, <2>5 DEF AreDue, Backed, IsBooked, AreCovered
  <2>7. Resolved(x)
    BY <1>12, <2>1, <2>3
  <2>8. PICK n \in Nat : n = e.lots
    BY <2>4
  <2>9. Allocate(x.c.amount, <<n, x.lots - n>>)[1] = Due(n)
    BY ONLY Proportional, <2>6, <2>7, <2>8, KeptIsDue
  <2> QED BY ONLY <1>18, <2>1, <2>2, <2>3, <2>8, <2>9, i \in S
<1>24. k \in [S -> Int]
  <2>1. \A i \in S : k[i] \in Int
    <3>1. \A i \in S : ls[i] \in Int
      BY <1>18
    <3> QED BY <1>23, <3>1, DueIsLinear, Zenon
  <2>2. k = [i \in S |-> k[i]]
    BY <1>9, <1>22, Zenon
  <2> HIDE DEF kept, part
  <2> QED BY <2>1, <2>2
<1>25. SumFunction(k) = Due(SumFunction(ls))
  BY ONLY Proportional, <1>18, <1>23, <1>24, SumOfDue
<1>26. c.amount = Due(w)
  BY <1>4 DEF IsPriced
<1> HIDE DEF part, settled, others, fixed, kept, matches, residual
<1>27. PICK x \in Int : x = SumFunction(ls)
  BY <1>18
<1>28. PICK y \in Int : y = SumFunction(lo)
  <2>1. Total(picked) \in Nat
    BY <1>21, QueueIsLots, TotalIsNat
  <2> QED BY <1>20, <2>1
<1>29. w = o + y + x
  BY ONLY <1>5, <1>7, <1>14, <1>17, <1>27, <1>28, o \in Int, w \in Nat \ {0}
<1>30. a.rest = Due(o + y)
  <2>1. a.rest = Due(w) - Due(x)
    BY ONLY <1>2, <1>22, <1>25, <1>26, <1>27
  <2>2. w \in Int /\ w - x = o + y
    BY ONLY <1>29, w \in Nat \ {0}, o \in Int, x \in Int, y \in Int
  <2>3. Due(w - x) = Due(w) - Due(x)
    BY ONLY Proportional, <2>2, x \in Int, DueIsLinear
  <2> QED BY ONLY <2>1, <2>2, <2>3
<1>31. /\ IsQueue(own) /\ Total(own) = o
       /\ \A i \in DOMAIN own : own[i].fill = TradeFill(t) /\ own[i].lots = o
       /\ o > 0 => \E i \in DOMAIN own : own[i].fill = TradeFill(t)
  <2>1. CASE o > 0
    <3>1. PICK n \in Nat \ {0} : n = o
      BY <2>1
    <3>2. own = <<[fill |-> TradeFill(t), lots |-> n]>>
      BY <1>8, <2>1, <3>1
    <3>3. PICK q : q = <<[fill |-> TradeFill(t), lots |-> n]>>
      OBVIOUS
    <3>4. IsQueue(q) /\ Total(q) = n /\ DOMAIN q = {1} /\ q[1].fill = TradeFill(t) /\ q[1].lots = n
      BY <3>3, OneEntry
    <3> HIDE DEF own
    <3> QED BY <3>1, <3>2, <3>3, <3>4
  <2>2. CASE ~(o > 0)
    <3>1. own = <<>> /\ o = 0
      BY <1>7, <1>8, <2>2
    <3>2. DOMAIN <<>> = {}
      OBVIOUS
    <3> HIDE DEF own
    <3> QED BY <2>2, <3>1, <3>2, TotalEmpty
  <2> QED BY <2>1, <2>2
<1> HIDE DEF own
<1>32. PICK rest : rest = own
  OBVIOUS
<1>33. PICK open : open = picked \o rest
  OBVIOUS
<1>34. a.open = open
  BY ONLY <1>2, <1>3, <1>10, <1>19, <1>32, <1>33
<1>35. \A i \in DOMAIN picked : Backed(picked[i], r.fees)
  BY <1>3, <1>11, <1>21 DEF AreBacked
<1>36. IsQueue(open) /\ Total(open) = Total(picked) + Total(rest) /\ Joins(open, picked, rest)
  <2>1. \A i \in DOMAIN picked, j \in DOMAIN rest : picked[i].fill /= rest[j].fill
    <3> SUFFICES ASSUME NEW i \in DOMAIN picked, NEW j \in DOMAIN rest
                 PROVE  picked[i].fill /= rest[j].fill
      OBVIOUS
    <3>1. picked[i].fill.source /= "trade"
      BY <1>35 DEF Backed
    <3>2. rest[j].fill.source = "trade"
      <4>1. rest[j].fill = TradeFill(t)
        BY <1>31, <1>32
      <4> QED BY ONLY <4>1, TradeFillSource
    <3> QED BY ONLY <3>1, <3>2
  <2>2. IsQueue(rest)
    BY <1>31, <1>32
  <2> QED BY ONLY <1>21, <1>33, <2>1, <2>2, JoinedQueue
<1>37. a.rest = Due(Total(open))
  <2>1. Total(open) = o + y
    BY ONLY <1>20, <1>28, <1>31, <1>32, <1>36, o \in Int, y \in Int
  <2> QED BY <1>30, <2>1
<1>38. a.residual = o
  BY <1>2, <1>8
<1>39. \A i \in DOMAIN open : \/ open[i].fill = TradeFill(t) /\ open[i].lots = o
                              \/ Backed(open[i], r.fees)
  BY <1>31, <1>32, <1>35, <1>36 DEF Joins
<1>40. o > 0 => \E i \in DOMAIN open : open[i].fill = TradeFill(t)
  <2>1. SUFFICES ASSUME o > 0 PROVE \E i \in DOMAIN open : open[i].fill = TradeFill(t)
    OBVIOUS
  <2>2. PICK j \in DOMAIN rest : rest[j].fill = TradeFill(t)
    BY <1>31, <1>32, <2>1
  <2>3. PICK i \in DOMAIN open : open[i] = rest[j]
    BY <1>36 DEF Joins
  <2> QED BY <2>2, <2>3
<1> QED BY <1>1, <1>6, <1>34, <1>36, <1>37, <1>38, <1>39, <1>40 DEF Sharing

-----------------------------------------------------------------------------
\* A commission given for a trade keeps a row fair, if it goes through.

\* What is told of a fair row's commissions, with the fills of row r.
FairResult(res, r) ==
    /\ IsFair(res.row) /\ Extends(res.row.fees, r.fees) /\ DOMAIN res.row.fees = DOMAIN r.fees
    /\ \A f \in DOMAIN res.corrections :
          f \in DOMAIN r.fees /\ IsPriced(res.corrections[f], r.fees[f].lots)

LEMMA UnchangedFair ==
    ASSUME NEW r, IsFair(r)
    PROVE  FairResult(Unchanged(r), r)
<1>1. Unchanged(r).row = r /\ Unchanged(r).corrections = <<>> /\ DOMAIN <<>> = {}
  BY DEF Unchanged
<1> QED BY <1>1 DEF FairResult, Extends

\* The matches of a trade are done with once its own fill has a commission.
LEMMA SharedFair ==
    ASSUME NEW r, IsWeighed(r), DOMAIN r.matches = Trades, NEW t \in Trades,
           NEW next, next.queue = r.queue, next.emitted = r.emitted, next.seen = r.seen,
           next.matches = [r.matches EXCEPT ![t] = <<>>],
           DOMAIN next.fees = DOMAIN r.fees, Extends(next.fees, r.fees),
           \A f \in DOMAIN r.fees : Known(r.fees[f].c) => Known(next.fees[f].c),
           TradeFill(t) \in DOMAIN r.fees => Known(next.fees[TradeFill(t)].c),
           AreDue(next.fees, {}), r.seen \subseteq Trades
    PROVE  IsFair(next)
<1>1. next.matches[t] = <<>> /\ \A u \in Trades \ {t} : next.matches[u] = r.matches[u]
  OBVIOUS
<1>2. DOMAIN <<>> = {}
  OBVIOUS
<1>3. \A u \in Trades : AreBacked(next.matches[u], next.fees)
  <2>1. \A u \in Trades \ {t} : AreBacked(next.matches[u], next.fees)
    BY <1>1, BackedStays DEF IsWeighed
  <2>2. AreBacked(next.matches[t], next.fees)
    BY <1>1, <1>2 DEF AreBacked
  <2> QED BY <2>1, <2>2
<1>4. AreBacked(next.queue, next.fees)
  BY BackedStays DEF IsWeighed
<1>5. ASSUME NEW u \in r.seen
      PROVE  OwnIsRest(next, u)
  <2>1. PICK own : own = TradeFill(u)
    OBVIOUS
  <2>2. own \in DOMAIN r.fees =>
            next.fees[own].lots = r.fees[own].lots /\ (Known(r.fees[own].c) => Known(next.fees[own].c))
    BY DEF Extends
  <2>3. OwnIsRest(r, u)
    BY DEF IsWeighed
  <2>4. CASE u /= t
    <3>1. next.matches[u] = r.matches[u]
      BY <1>1, <2>4
    <3> HIDE DEF Known
    <3> QED BY <2>1, <2>2, <2>3, <3>1, RestStays
  <2>5. CASE u = t
    <3>1. OwnLots(next, u) = OwnLots(r, u)
      BY <2>1, <2>2 DEF OwnLots
    <3>2. OwnLots(r, u) <= Lots[{u}]
      BY <2>3 DEF OwnIsRest
    <3>3. DOMAIN next.matches[u] = {}
      BY <1>1, <1>2, <2>5
    <3>4. TradeFill(u) \in DOMAIN next.fees => Known(next.fees[TradeFill(u)].c)
      BY <2>5
    <3> HIDE DEF Known
    <3> QED BY <3>1, <3>2, <3>3, <3>4 DEF OwnIsRest
  <2> QED BY <2>4, <2>5
<1>6. IsFiniteSet(DOMAIN next.fees) /\ SumFunction(LotsTracked(next.fees)) = next.emitted
  BY SameLots DEF IsWeighed
<1>7. IsWeighed(next)
  BY <1>3, <1>4, <1>5, <1>6 DEF IsWeighed
<1> QED BY <1>7 DEF IsFair

\* A share of the commission joins what a synthetic fill already has.
LEMMA JoinedIsDue ==
    ASSUME Proportional, NEW f, f.source /= "trade", NEW x, IsCovered(x), IsTracked(x), IsDue(f, x),
           NEW lots \in Nat, NEW c, c.status \in Statuses, Known(c), c.amount = Due(lots),
           NEW next, next.c = Joined(x.c, c),
           next.resolved = lots + (IF Known(x.c) THEN x.resolved ELSE 0), next.resolved <= next.lots
    PROVE  IsDue(f, next) /\ Known(next.c)
<1>1. PICK m \in Int : m = x.resolved
  BY DEF IsCovered
<1>2. m >= 0 /\ x.c.amount = Due(m)
  BY <1>1 DEF IsDue
<1>3. Known(next.c)
  BY JoinedKnown DEF IsTracked
<1>4. CASE Known(x.c)
  <2>1. next.resolved = lots + m
    BY <1>1, <1>4
  <2>2. next.c.amount = x.c.amount + c.amount
    <3>1. \E s : s /= "unknown" /\ next.c = Commission(s, x.c.amount + c.amount)
      BY <1>4 DEF Joined
    <3> QED BY <3>1 DEF Commission
  <2>3. Due(m + lots) = Due(m) + Due(lots)
    <3>1. lots \in Int
      OBVIOUS
    <3> QED BY ONLY Proportional, m \in Int, <3>1, DueIsLinear
  <2>4. next.c.amount = Due(next.resolved) /\ next.resolved >= 0
    <3>1. lots + m = m + lots /\ m + lots >= 0
      BY <1>2
    <3>2. next.c.amount = Due(m + lots)
      BY ONLY <1>2, <2>2, <2>3, c.amount = Due(lots)
    <3> QED BY ONLY <2>1, <3>1, <3>2
  <2> HIDE DEF Known
  <2> QED BY <1>3, <2>4 DEF IsDue
<1>5. CASE ~Known(x.c)
  <2>1. next.c = c /\ next.resolved = lots
    BY <1>5 DEF Joined
  <2> HIDE DEF Known
  <2> QED BY <1>3, <2>1 DEF IsDue
<1> QED BY <1>3, <1>4, <1>5

\* The shares of what is due for the open lots: each entry's is due for it.
LEMMA OpenShares ==
    ASSUME Proportional, NEW q, IsQueue(q), q /= <<>>, NEW amount, amount = Due(Total(q))
    PROVE  \A i \in DOMAIN q : Allocate(amount, LotsOf(q))[i] = Due(q[i].lots)
<1>1. PICK n \in Nat : DOMAIN q = 1 .. n
  BY QueueIsLots, LotsLength
<1>2. PICK w : w = LotsOf(q)
  OBVIOUS
<1>3. IsLots(q)
  BY QueueIsLots
<1>4. w \in [DOMAIN q -> Nat] /\ Total(q) = SumFunction(w) /\ \A i \in DOMAIN q : w[i] = q[i].lots
  BY <1>2, <1>3, LotsOfQueue, TotalIsSum
<1>5. SumFunction(w) > 0
  <2>1. Total(q) \in Nat /\ Total(q) /= 0
    <3>1. Total(q) \in Nat
      BY <1>3, TotalIsNat
    <3>2. DOMAIN q /= {}
      BY EmptyQueue
    <3>3. Total(q) /= 0
      BY <3>2, NoLotsNoEntries
    <3> QED BY <3>1, <3>3
  <2> QED BY ONLY <1>4, <2>1
<1>6. \A i \in 1 .. n : Allocate(amount, w)[i] = Due(w[i])
  <2>1. w \in [1 .. n -> Nat] /\ amount = Due(SumFunction(w))
    BY <1>1, <1>4
  <2> QED BY ONLY Proportional, <1>5, <2>1, n \in Nat, SharesAreDue
<1> QED BY <1>1, <1>2, <1>4, <1>6

\* What is spread over the fills of a row is what is due for them.
LEMMA SpreadFair ==
    ASSUME Proportional, NEW r, DOMAIN r = RowFields, IsBooked(r), IsFilled(r), IsWeighed(r),
           r.seen \subseteq Trades, NEW t \in Trades, AreDue(r.fees, {TradeFill(t)}),
           NEW kept, kept = [r EXCEPT !.matches[t] = <<>>],
           NEW a, Sharing(a, r, t), a.open /= <<>>, a.status \in Statuses, a.status /= "unknown"
    PROVE  Spread(kept, t, a).ok => FairResult(Spread(kept, t, a), r)
<1> SUFFICES ASSUME Spread(kept, t, a).ok PROVE FairResult(Spread(kept, t, a), r)
  OBVIOUS
<1> DEFINE own == TradeFill(t)
           D == DOMAIN r.fees
           shares == Allocate(a.rest, [i \in DOMAIN a.open |-> a.open[i].lots])
           target(i) == a.open[i].fill
           spread(i) ==
            LET c == Commission(a.status, shares[i])
            IN  IF target(i) = TradeFill(t) THEN OwnResolved(t, a, c)
                ELSE Resolving(kept.fees[target(i)], a.open[i], c)
           hit  == {i \in DOMAIN a.open : target(i) \in DOMAIN kept.fees}
           fees == [f \in DOMAIN kept.fees |->
                       IF \E i \in hit : target(i) = f
                       THEN spread(CHOOSE i \in hit : target(i) = f) ELSE kept.fees[f]]
           whole == {f \in DOMAIN fees : Resolved(fees[f]) /\ \E i \in hit : target(i) = f}
           last == IF a.residual > 0 THEN fees ELSE Drop(fees, {TradeFill(t)})
           next == [kept EXCEPT !.fees = last]
           res  == Spread(kept, t, a)
<1>1. /\ kept.fees = r.fees /\ kept.seen = r.seen /\ kept.emitted = r.emitted /\ kept.queue = r.queue
      /\ kept.matches = [r.matches EXCEPT ![t] = <<>>] /\ DOMAIN kept = RowFields
  BY DEF RowFields
<1>2. /\ res.row = next /\ res.corrections = [f \in whole |-> fees[f].c]
      /\ \A i \in hit : target(i) /= TradeFill(t) /\ Partial(kept.fees[target(i)])
                         => fees[target(i)].resolved <= fees[target(i)].lots
  BY Zenon DEF Spread
<1>3. /\ IsQueue(a.open) /\ a.rest = Due(Total(a.open)) /\ a.residual = OwnLots(r, t)
      /\ \A i \in DOMAIN a.open : \/ a.open[i].fill = own /\ a.open[i].lots = a.residual
                                  \/ Backed(a.open[i], r.fees)
      /\ a.residual > 0 => \E i \in DOMAIN a.open : a.open[i].fill = own
  <2>1. own = TradeFill(t)
    OBVIOUS
  <2> HIDE DEF own
  <2> QED BY ONLY Sharing(a, r, t), <2>1 DEF Sharing
<1>4. \A i \in DOMAIN a.open : shares[i] = Due(a.open[i].lots) /\ a.open[i].lots \in Nat \ {0}
  <2>1. [i \in DOMAIN a.open |-> a.open[i].lots] = LotsOf(a.open)
    BY DEF LotsOf
  <2>2. \A i \in DOMAIN a.open : Allocate(a.rest, LotsOf(a.open))[i] = Due(a.open[i].lots)
    BY ONLY Proportional, <1>3, a.open /= <<>>, OpenShares
  <2>3. \A i \in DOMAIN a.open : a.open[i].lots \in Nat \ {0}
    BY <1>3 DEF IsQueue
  <2>4. shares = Allocate(a.rest, LotsOf(a.open))
    BY ONLY <2>1
  <2> HIDE DEF shares
  <2> QED BY ONLY <2>2, <2>3, <2>4
<1>5. own \in D <=> a.residual > 0
  <2>1. own \in D => r.fees[own].lots \in Nat \ {0} /\ OwnLots(r, t) = r.fees[own].lots
    BY DEF IsBooked, AreCovered, IsCovered, OwnLots
  <2>2. own \notin D => OwnLots(r, t) = 0
    BY DEF OwnLots
  <2> QED BY <1>3, <2>1, <2>2
<1>6. own \in D => r.fees[own].lots = a.residual
  <2>1. own \in D => OwnLots(r, t) = r.fees[own].lots
    BY DEF OwnLots
  <2> QED BY <1>3, <2>1
<1> HIDE DEF shares, own
<1>7. ASSUME NEW i \in hit,
             a.open[i].fill /= own /\ Partial(r.fees[a.open[i].fill]) => spread(i).resolved <= spread(i).lots
      PROVE  /\ IsDue(a.open[i].fill, spread(i)) /\ Known(spread(i).c)
             /\ spread(i).lots = r.fees[a.open[i].fill].lots
  <2>1. PICK f : f = a.open[i].fill
    OBVIOUS
  <2>2. PICK lots \in Nat \ {0} : lots = a.open[i].lots
    BY <1>4
  <2>3. PICK c : c = Commission(a.status, shares[i])
    OBVIOUS
  <2>4. c.amount = Due(lots) /\ Known(c) /\ c.status \in Statuses /\ IsPriced(c, lots)
    <3>1. shares[i] = Due(lots)
      BY <1>4, <2>2
    <3>2. PICK s : s = a.status
      OBVIOUS
    <3>3. IsPriced(Commission(s, shares[i]), lots) /\ Known(Commission(s, shares[i]))
          /\ Commission(s, shares[i]).amount = shares[i]
      BY ONLY <3>1, <3>2, a.status /= "unknown", AllocatedIsPriced
    <3>4. c.status \in Statuses
      BY <2>3, CommissionStatus
    <3> QED BY ONLY <2>3, <3>1, <3>2, <3>3, <3>4
  <2>5. PICK x : x = r.fees[f] /\ f \in D /\ x = kept.fees[f]
    BY <1>1, <2>1
  <2>6. IsTracked(x) /\ IsCovered(x)
    BY <2>5 DEF IsFilled, IsBooked, AreCovered
  <2>7. CASE f = own
    <3>1. spread(i) = Tracked(a.residual, c)
      BY <2>1, <2>3, <2>7 DEF own, OwnResolved
    <3>2. a.residual = lots
      <4>1. ~Backed(a.open[i], r.fees)
        <5>1. f.source = "trade"
          BY ONLY <2>7, TradeFillSource DEF own
        <5> QED BY <2>1, <5>1 DEF Backed
      <4> QED BY <1>3, <2>2, <4>1
    <3>3. IsDue(f, Tracked(lots, c))
      <4>1. lots \in Nat
        OBVIOUS
      <4> QED BY ONLY Proportional, <4>1, <2>4, TrackedIsDue
    <3>4. Tracked(lots, c).c = c /\ Tracked(lots, c).lots = lots
      BY DEF Tracked
    <3>5. x.lots = lots
      BY <1>6, <2>5, <2>7, <3>2
    <3> QED BY ONLY <2>1, <2>4, <2>5, <3>1, <3>2, <3>3, <3>4, <3>5
  <2>8. CASE f /= own
    <3>1. f.source /= "trade"
      BY <1>3, <2>1, <2>8 DEF Backed
    <3>2. PICK y : y = spread(i)
      OBVIOUS
    <3>3. y = Resolving(x, a.open[i], c)
      BY <2>1, <2>3, <2>5, <2>8, <3>2 DEF own
    <3>4. IsDue(f, x)
      BY <2>5, <2>8 DEF AreDue, own
    <3>5. CASE Known(x.c) /\ y = x
      <4> HIDE DEF Known
      <4> QED BY <2>1, <2>5, <3>2, <3>4, <3>5
    <3>6. CASE /\ ~Known(x.c) \/ Partial(x)
               /\ y.c = Joined(x.c, c) /\ y.lots = x.lots
               /\ y.resolved = lots + (IF Known(x.c) THEN x.resolved ELSE 0)
      <4>1. y.resolved <= y.lots
        <5>1. CASE Known(x.c)
          <6>1. Partial(x)
            BY <3>6, <5>1
          <6> QED BY <1>7, <2>1, <2>5, <2>8, <3>2, <6>1
        <5>2. CASE ~Known(x.c)
          <6>1. Backed(a.open[i], r.fees)
            BY <1>3, <2>1, <2>8
          <6>2. lots <= x.lots /\ y.resolved = lots
            <7>1. y.resolved = lots + 0
              BY <3>6, <5>2
            <7> QED BY <2>1, <2>2, <2>5, <6>1, <7>1 DEF Backed
          <6> QED BY <3>6, <6>2
        <5> QED BY <5>1, <5>2
      <4>2. lots \in Nat
        OBVIOUS
      <4>3. IsDue(f, y) /\ Known(y.c)
        BY ONLY Proportional, <2>4, <2>6, <3>1, <3>4, <3>6, <4>1, <4>2, JoinedIsDue
      <4> HIDE DEF Known
      <4> QED BY <2>1, <2>5, <3>2, <3>6, <4>3
    <3> HIDE DEF Known, Partial, spread
    <3>7. \/ /\ y.c = Joined(x.c, c) /\ y.lots = x.lots
             /\ y.resolved = a.open[i].lots + (IF Known(x.c) THEN x.resolved ELSE 0)
             /\ ~Known(x.c) \/ Partial(x)
          \/ Known(x.c) /\ y = x
      BY <2>6, <3>3, ResolvingFill
    <3> QED BY <2>2, <3>5, <3>6, <3>7
  <2> QED BY <2>7, <2>8
<1> HIDE DEF spread
<1>8. ASSUME NEW f \in D
      PROVE  /\ fees[f].lots = r.fees[f].lots
             /\ Known(r.fees[f].c) => Known(fees[f].c)
             /\ f = own => Known(fees[f].c)
             /\ IsDue(f, fees[f])
  <2>1. CASE \E i \in hit : target(i) = f
    <3>1. PICK i : i = CHOOSE j \in hit : target(j) = f
      OBVIOUS
    <3>2. i \in hit /\ target(i) = f
      BY <2>1, <3>1
    <3>3. fees[f] = spread(i)
      BY <1>1, <2>1, <3>1
    <3>4. f /= own /\ Partial(r.fees[f]) => spread(i).resolved <= spread(i).lots
      <4>1. target(i) /= TradeFill(t) /\ Partial(kept.fees[target(i)])
              => fees[target(i)].resolved <= fees[target(i)].lots
        BY <1>2, <3>2
      <4> HIDE DEF fees, Partial
      <4> QED BY <1>1, <3>2, <3>3, <4>1 DEF own
    <3> HIDE DEF fees, Known, Partial
    <3> QED BY <1>7, <3>2, <3>3, <3>4
  <2>2. CASE ~\E i \in hit : target(i) = f
    <3>1. fees[f] = r.fees[f]
      BY <1>1, <2>2
    <3>2. f /= own
      BY <1>3, <1>5, <2>2
    <3> HIDE DEF fees
    <3> QED BY <3>1, <3>2 DEF AreDue, own
  <2> QED BY <2>1, <2>2
<1>9. DOMAIN fees = D
  BY <1>1
<1>10. \A f \in whole : f \in D /\ Resolved(fees[f])
  BY <1>1
<1> HIDE DEF fees, whole
<1>11. /\ DOMAIN last = D /\ \A f \in D : last[f] = fees[f]
  <2>1. CASE a.residual > 0
    BY <1>9, <2>1
  <2>2. CASE ~(a.residual > 0)
    <3>1. D \ {TradeFill(t)} = D
      BY <1>5, <2>2 DEF own
    <3> QED BY <1>9, <2>2, <3>1 DEF Drop, Restrict
  <2> QED BY <2>1, <2>2
<1> HIDE DEF last
<1>12. /\ next.fees = last /\ next.seen = r.seen /\ next.emitted = r.emitted /\ next.queue = r.queue
       /\ next.matches = [r.matches EXCEPT ![t] = <<>>]
  BY <1>1 DEF RowFields
<1> HIDE DEF next
<1>13. Extends(next.fees, r.fees) /\ DOMAIN next.fees = DOMAIN r.fees
  BY <1>8, <1>11, <1>12 DEF Extends
<1>14. AreDue(next.fees, {})
  BY <1>8, <1>11, <1>12 DEF AreDue
<1>15. /\ \A f \in DOMAIN r.fees : Known(r.fees[f].c) => Known(next.fees[f].c)
       /\ TradeFill(t) \in DOMAIN r.fees => Known(next.fees[TradeFill(t)].c)
  BY <1>8, <1>11, <1>12 DEF own
<1>16. IsFair(next)
  <2>1. DOMAIN r.matches = Trades
    BY DEF IsBooked
  <2> HIDE DEF Known
  <2> QED BY <1>12, <1>13, <1>14, <1>15, <2>1, SharedFair
<1>17. ASSUME NEW f \in whole
       PROVE  f \in DOMAIN r.fees /\ IsPriced(fees[f].c, r.fees[f].lots)
  <2>1. f \in D /\ Known(fees[f].c) /\ fees[f].resolved = fees[f].lots
    BY <1>10 DEF Resolved
  <2>2. fees[f].c.amount = Due(r.fees[f].lots)
    BY <1>8, <2>1 DEF IsDue
  <2> HIDE DEF Known
  <2> QED BY <2>1, <2>2 DEF IsPriced
<1>18. DOMAIN res.corrections = whole /\ \A f \in whole : res.corrections[f] = fees[f].c
  BY <1>2
<1> HIDE DEF res
<1> QED BY <1>2, <1>13, <1>16, <1>17, <1>18 DEF FairResult, res

\* The trade's own fill takes the commission of the trade: what is due for its
\* lots, unless it is charged for the whole trade.
LEMMA OwnFair ==
    ASSUME Proportional, NEW r, DOMAIN r = RowFields, IsBooked(r), IsFair(r),
           NEW t \in Trades, t \in r.seen, r.matches[t] = <<>>,
           NEW c, Known(c), IsPriced(c, Lots[{t}])
    PROVE  LET res == OwnCorrected(r, t, c) IN FairResult(res, r) \/ ChargedWhole(res.row, t)
<1> DEFINE fill == TradeFill(t)
           lots == r.fees[fill].lots
           next == [r EXCEPT !.fees = Put(r.fees, fill, Tracked(lots, c))]
           may  == /\ fill \in DOMAIN r.fees
                   /\ \/ ~Known(r.fees[fill].c)
                      \/ c.status = "reported" /\ r.fees[fill].c.status = "allocated"
           res  == OwnCorrected(r, t, c)
<1>1. res = IF may THEN [row |-> next, corrections |-> Only(fill, c), ok |-> TRUE] ELSE Unchanged(r)
  BY DEF OwnCorrected, Changed
<1>2. /\ next.fees = Put(r.fees, fill, Tracked(lots, c)) /\ next.seen = r.seen
      /\ next.emitted = r.emitted /\ next.queue = r.queue /\ next.matches = r.matches
  BY DEF RowFields
<1>3. may => /\ fill \in DOMAIN r.fees
             /\ Known(r.fees[fill].c) => c.status = "reported"
  OBVIOUS
<1>4. fill \in DOMAIN r.fees => /\ lots \in Nat \ {0} /\ lots <= Lots[{t}]
                                /\ lots = Lots[{t}] \/ Known(r.fees[fill].c)
  <2>1. SUFFICES ASSUME fill \in DOMAIN r.fees
                 PROVE  /\ lots \in Nat \ {0} /\ lots <= Lots[{t}]
                        /\ lots = Lots[{t}] \/ Known(r.fees[fill].c)
    OBVIOUS
  <2>2. lots \in Nat \ {0}
    BY <2>1 DEF IsBooked, AreCovered, IsCovered
  <2>3. OwnLots(r, t) = lots
    BY <2>1 DEF OwnLots
  <2>4. DOMAIN r.matches[t] = {}
    <3>1. DOMAIN <<>> = {}
      OBVIOUS
    <3> QED BY <3>1
  <2>5. OwnIsRest(r, t)
    BY DEF IsFair, IsWeighed
  <2> HIDE DEF lots, Known
  <2> QED BY <2>1, <2>2, <2>3, <2>4, <2>5 DEF OwnIsRest
<1> HIDE DEF next, may, fill, lots, res
<1>5. CASE ~may
  BY <1>1, <1>5, UnchangedFair DEF res
<1>6. CASE may /\ lots = Lots[{t}]
  <2>1. /\ fill \in DOMAIN r.fees /\ IsPriced(c, r.fees[fill].lots)
        /\ next.fees = Put(r.fees, fill, Tracked(r.fees[fill].lots, c))
    BY <1>2, <1>3, <1>6 DEF lots
  <2>2. IsFair(next) /\ Extends(next.fees, r.fees) /\ DOMAIN next.fees = DOMAIN r.fees
    BY ONLY Proportional, IsBooked(r), IsFair(r), Known(c), <1>2, <2>1, RepricedFair
  <2>3. res.row = next /\ res.corrections = Only(fill, c)
    BY <1>1, <1>6
  <2>4. DOMAIN Only(fill, c) = {fill} /\ Only(fill, c)[fill] = c
    BY DEF Only
  <2>5. FairResult(res, r)
    BY ONLY <2>1, <2>2, <2>3, <2>4 DEF FairResult
  <2> QED BY <2>5 DEF res
<1>7. CASE may /\ lots /= Lots[{t}]
  <2>1. fill \in DOMAIN r.fees /\ c.status = "reported" /\ lots < Lots[{t}]
    <3>1. fill \in DOMAIN r.fees /\ Known(r.fees[fill].c) /\ lots <= Lots[{t}] /\ lots \in Nat
      BY <1>3, <1>4, <1>7
    <3>2. Lots[{t}] \in Nat
      BY LotsOfTrade
    <3>3. c.status = "reported"
      BY <1>3, <1>7, <3>1
    <3> QED BY ONLY <1>7, <3>1, <3>2, <3>3
  <2>2. Tracked(lots, c).lots = lots /\ Tracked(lots, c).c = c
    BY DEF Tracked
  <2>3. fill \in DOMAIN next.fees /\ next.fees[fill].lots = lots /\ next.fees[fill].c = c
    BY <1>2, <2>2 DEF Put
  <2>4. res.row = next
    BY <1>1, <1>7
  <2>5. ChargedWhole(res.row, t)
    BY <2>1, <2>3, <2>4 DEF ChargedWhole, fill
  <2> QED BY <2>5 DEF res
<1> QED BY <1>5, <1>6, <1>7

\* A trade that is one whole fill refines that fill's commission.
LEMMA FixedFair ==
    ASSUME Proportional, NEW r, DOMAIN r = RowFields, IsBooked(r), IsWeighed(r), r.seen \subseteq Trades,
           NEW t \in Trades, AreDue(r.fees, {TradeFill(t)}), TradeFill(t) \notin DOMAIN r.fees,
           NEW kept, kept = [r EXCEPT !.matches[t] = <<>>],
           NEW c, c.status \in Statuses, IsPriced(c, Lots[{t}]),
           NEW a, \A m \in Range(a.fixed) : m.fill \in DOMAIN r.fees
    PROVE  FairResult(FixedCorrected(kept, t, c, a), r)
<1> DEFINE whole == {m.fill : m \in {n \in Range(a.fixed) : n.lots = Lots[{t}]}}
           refined == {f \in whole : kept.fees[f].lots = Lots[{t}] /\ c.status = "reported"}
           fill  == CHOOSE f \in refined : TRUE
           next == [kept EXCEPT !.fees = Put(kept.fees, fill, Tracked(Lots[{t}], c))]
           may == refined /= {} /\ Cardinality(DOMAIN a.fixed) = 1
           res == FixedCorrected(kept, t, c, a)
<1>1. res = IF may THEN [row |-> next, corrections |-> Only(fill, c), ok |-> TRUE] ELSE Unchanged(kept)
  BY DEF FixedCorrected, Changed
<1>2. /\ kept.fees = r.fees /\ kept.seen = r.seen /\ kept.emitted = r.emitted /\ kept.queue = r.queue
      /\ kept.matches = [r.matches EXCEPT ![t] = <<>>] /\ DOMAIN kept = RowFields
      /\ kept.unmatched = r.unmatched
  BY DEF RowFields
<1>3. may => /\ fill \in DOMAIN kept.fees /\ kept.fees[fill].lots = Lots[{t}] /\ Known(c)
  <2>1. SUFFICES ASSUME may
                 PROVE  fill \in DOMAIN kept.fees /\ kept.fees[fill].lots = Lots[{t}] /\ Known(c)
    OBVIOUS
  <2>2. fill \in refined
    BY <2>1
  <2> HIDE DEF fill
  <2> QED BY <1>2, <2>2 DEF Known
<1> HIDE DEF fill, may
<1>4. /\ next.fees = Put(kept.fees, fill, Tracked(Lots[{t}], c)) /\ next.seen = kept.seen
      /\ next.emitted = kept.emitted /\ next.queue = kept.queue /\ next.matches = kept.matches
  BY <1>2 DEF RowFields
<1> HIDE DEF next, res
<1>5. IsFair(kept)
  <2>1. Extends(kept.fees, r.fees)
    BY <1>2 DEF Extends
  <2>2. AreDue(kept.fees, {})
    BY <1>2 DEF AreDue
  <2>3. DOMAIN r.matches = Trades
    BY DEF IsBooked
  <2> HIDE DEF Known
  <2>4. /\ \A f \in DOMAIN r.fees : Known(r.fees[f].c) => Known(kept.fees[f].c)
        /\ TradeFill(t) \in DOMAIN r.fees => Known(kept.fees[TradeFill(t)].c)
        /\ DOMAIN kept.fees = DOMAIN r.fees
    BY <1>2
  <2>5. /\ kept.seen = r.seen /\ kept.emitted = r.emitted /\ kept.queue = r.queue
        /\ kept.matches = [r.matches EXCEPT ![t] = <<>>]
    BY <1>2
  <2> QED BY ONLY IsWeighed(r), <2>1, <2>2, <2>3, <2>4, <2>5, t \in Trades, r.seen \subseteq Trades, SharedFair
<1>6. IsBooked(kept)
  <2>1. DOMAIN r.matches = Trades /\ AreCovered(kept.fees)
    BY <1>2 DEF IsBooked
  <2>2. DOMAIN kept.matches = Trades
        /\ \A u \in Trades : kept.matches[u] = r.matches[u] \/ kept.matches[u] = <<>>
    BY <1>2, <2>1
  <2> QED BY ONLY IsBooked(r), <1>2, <2>1, <2>2, SettledBooks
<1>7. CASE ~may
  <2>1. FairResult(res, kept)
    BY <1>1, <1>5, <1>7, UnchangedFair
  <2> QED BY <1>2, <2>1 DEF FairResult, res
<1>8. CASE may
  <2>1. /\ fill \in DOMAIN kept.fees /\ IsPriced(c, kept.fees[fill].lots) /\ Known(c)
        /\ next.fees = Put(kept.fees, fill, Tracked(kept.fees[fill].lots, c))
    BY <1>3, <1>4, <1>8
  <2>2. IsFair(next) /\ Extends(next.fees, kept.fees) /\ DOMAIN next.fees = DOMAIN kept.fees
    BY ONLY Proportional, <1>4, <1>5, <1>6, <2>1, RepricedFair
  <2>3. res.row = next /\ res.corrections = Only(fill, c)
    BY <1>1, <1>8
  <2>4. DOMAIN Only(fill, c) = {fill} /\ Only(fill, c)[fill] = c
    BY DEF Only
  <2>5. FairResult(res, r)
    BY ONLY <1>2, <2>1, <2>2, <2>3, <2>4 DEF FairResult
  <2> QED BY <2>5 DEF res
<1> QED BY <1>7, <1>8

\* What a commission does to a row.
LEMMA AttributedFair ==
    ASSUME Proportional, NEW r, DOMAIN r = RowFields, IsBooked(r), IsFilled(r), IsWeighed(r),
           r.seen \subseteq Trades, NEW t \in Trades, t \in r.seen, AreDue(r.fees, {TradeFill(t)}),
           NEW c, c.status \in Statuses, IsPriced(c, Lots[{t}]),
           ~Known(c) \/ r.matches[t] = <<>> => IsFair(r)
    PROVE  LET res == Attributed(r, t, c)
           IN  res.ok => FairResult(res, r) \/ ChargedWhole(res.row, t)
<1> DEFINE res  == Attributed(r, t, c)
           kept == [r EXCEPT !.matches[t] = <<>>]
<1>1. PICK a : a = Attribution(r, t, c)
  OBVIOUS
<1>2. res = IF ~Known(c) THEN Unchanged(r)
        ELSE IF r.matches[t] = <<>> THEN OwnCorrected(r, t, c)
        ELSE IF a.residual < 0 \/ (a.open /= <<>> /\ (~a.fits \/ a.rest < 0))
             THEN [Unchanged(r) EXCEPT !.ok = FALSE]
        ELSE IF a.open = <<>> THEN FixedCorrected(kept, t, c, a)
        ELSE Spread(kept, t, a)
  BY <1>1 DEF Attributed
<1>3. PICK k : k = kept
  OBVIOUS
<1> HIDE DEF res
<1>4. CASE ~Known(c)
  <2>1. res = Unchanged(r) /\ IsFair(r)
    BY <1>2, <1>4
  <2>2. FairResult(res, r)
    BY <2>1, UnchangedFair
  <2> QED BY <2>2 DEF res
<1>5. CASE Known(c) /\ r.matches[t] = <<>>
  <2>1. res = OwnCorrected(r, t, c) /\ IsFair(r)
    BY <1>2, <1>5
  <2>2. FairResult(res, r) \/ ChargedWhole(res.row, t)
    <3> HIDE DEF Known
    <3> QED BY <1>5, <2>1, OwnFair
  <2> QED BY <2>2 DEF res
<1>6. CASE Known(c) /\ r.matches[t] /= <<>>
  <2>1. Sharing(a, r, t)
    <3> HIDE DEF Known
    <3> QED BY <1>1, <1>6, AttributionFair
  <2>2. (\A m \in Range(a.fixed) : m.fill \in DOMAIN r.fees) /\ a.status \in Statuses /\ a.status /= "unknown"
    BY <1>1, <1>6, AttributionFills
  <2>3. CASE a.residual < 0 \/ (a.open /= <<>> /\ (~a.fits \/ a.rest < 0))
    <3>1. ~res.ok
      BY <1>2, <1>6, <2>3 DEF Unchanged
    <3> QED BY <3>1 DEF res
  <2>4. CASE ~(a.residual < 0 \/ (a.open /= <<>> /\ (~a.fits \/ a.rest < 0))) /\ a.open = <<>>
    <3>1. res = FixedCorrected(k, t, c, a)
      BY <1>2, <1>3, <1>6, <2>4
    <3>2. TradeFill(t) \notin DOMAIN r.fees
      <4>1. SUFFICES ASSUME TradeFill(t) \in DOMAIN r.fees PROVE FALSE
        OBVIOUS
      <4>2. OwnLots(r, t) > 0
        BY <4>1 DEF OwnLots, IsBooked, AreCovered, IsCovered
      <4>3. DOMAIN <<>> = {}
        OBVIOUS
      <4> QED BY <2>1, <2>4, <4>2, <4>3 DEF Sharing
    <3>3. FairResult(FixedCorrected(k, t, c, a), r)
      BY <1>3, <2>2, <3>2, FixedFair
    <3> QED BY <3>1, <3>3 DEF res
  <2>5. CASE ~(a.residual < 0 \/ (a.open /= <<>> /\ (~a.fits \/ a.rest < 0))) /\ a.open /= <<>>
    <3>1. res = Spread(k, t, a)
      BY <1>2, <1>3, <1>6, <2>5
    <3>2. Spread(k, t, a).ok => FairResult(Spread(k, t, a), r)
      BY <1>3, <2>1, <2>2, <2>5, SpreadFair
    <3> QED BY <3>1, <3>2 DEF res
  <2> QED BY <2>3, <2>4, <2>5
<1> QED BY <1>4, <1>5, <1>6

\* A commission the broker gives for trade t: the trade's own, or none.
IsGiven(c, t) ==
    c.status \in Statuses /\ c.amount = IF Known(c) THEN Fee[{t}] ELSE 0

\* It is what is due for the trade's lots.
LEMMA GivenIsPriced ==
    ASSUME Proportional, NEW t \in Trades, NEW c, IsGiven(c, t)
    PROVE  IsPriced(c, Lots[{t}]) /\ (~Known(c) => \A lots : IsPriced(c, lots))
<1>1. {t} \in SUBSET Trades
  OBVIOUS
<1>2. Fee[{t}] = Due(Lots[{t}])
  BY <1>1, FeesAreDue
<1> HIDE DEF Known
<1> QED BY <1>2 DEF IsGiven, IsPriced

\* A commission of a fair row's trade, if the row knows it, is what is due for
\* the fill's lots.
LEMMA OwnIsPriced ==
    ASSUME Proportional, NEW r, AreDue(r.fees, {}), NEW t, TradeFill(t) \in DOMAIN r.fees
    PROVE  IsPriced(r.fees[TradeFill(t)].c, r.fees[TradeFill(t)].lots)
<1>1. PICK x : x = r.fees[TradeFill(t)]
  OBVIOUS
<1>2. IsDue(TradeFill(t), x)
  BY <1>1 DEF AreDue
<1>3. x.c.amount = Due(x.resolved) /\ (~Known(x.c) => x.resolved = 0) /\ (Known(x.c) => x.resolved = x.lots)
  BY <1>2, TradeFillSource DEF IsDue
<1>4. Due(0) = 0
  BY DueIsLinear
<1> HIDE DEF Known
<1> QED BY <1>1, <1>3, <1>4 DEF IsPriced

\* What a trade and its commission do to a fair row: the row stays fair, and
\* what is told is what is due for the fills' lots, unless what was left of the
\* trade was charged for all of it.
LEMMA ProjectedFair ==
    ASSUME Proportional, NEW r, NEW n \in Nat, IsRow(r, n), IsBooked(r), IsFilled(r), IsFair(r),
           NEW t \in Upto(n), NEW c, IsGiven(c, t),
           Projected(r, t, c).ok, Known(c) => ~ChargedWhole(Projected(r, t, c).row, t)
    PROVE  LET next == Projected(r, t, c)
               T    == Telling(r, next, t, c)
           IN  /\ IsFair(next.row) /\ Extends(next.row.fees, r.fees)
               /\ DOMAIN next.row.fees \subseteq DOMAIN r.fees \cup DOMAIN T
               /\ \A f \in DOMAIN T : f \in DOMAIN next.row.fees /\ IsPriced(T[f], next.row.fees[f].lots)
<1> DEFINE next == Projected(r, t, c)
           T    == Telling(r, next, t, c)
           sent == SentLots(r, t)
           own  == TradeFill(t)
           mid  == IF t \in r.seen THEN r ELSE Traded(r, t, c)
           own1 == IF sent < Lots[{t}] /\ Known(c) THEN next.row.fees[own].c ELSE c
<1>0. t \in Trades /\ c.status \in Statuses
  BY DEF Upto, IsGiven
<1>1. /\ IsFilled(mid) /\ DOMAIN mid = RowFields /\ IsBooked(mid) /\ IsWeighed(mid)
      /\ mid.seen \subseteq Trades /\ t \in mid.seen /\ AreDue(mid.fees, {own})
      /\ ~Known(c) \/ mid.matches[t] = <<>> => IsFair(mid)
      /\ mid.fees = IF sent > 0 THEN Put(r.fees, own, Tracked(sent, c)) ELSE r.fees
      /\ sent > 0 => own \notin DOMAIN r.fees /\ sent \in Nat /\ sent <= Lots[{t}]
      /\ Extends(mid.fees, r.fees)
  <2>1. CASE t \in r.seen
    <3>1. mid = r /\ sent = 0
      BY <2>1 DEF SentLots
    <3>2. r.seen \subseteq Trades
      BY DEF IsRow, Upto
    <3>3. IsWeighed(r) /\ AreDue(r.fees, {own}) /\ Extends(r.fees, r.fees)
      BY DEF IsFair, AreDue, Extends
    <3> QED BY <2>1, <3>1, <3>2, <3>3 DEF IsRow
  <2>2. CASE t \notin r.seen
    <3>1. mid = Traded(r, t, c) /\ sent = Fresh(r, t)
      BY <2>2 DEF SentLots
    <3> HIDE DEF mid, sent
    <3>2. /\ IsWeighed(mid) /\ AreDue(mid.fees, {own}) /\ Extends(mid.fees, r.fees)
          /\ IsPriced(c, Fresh(r, t)) => IsFair(mid)
          /\ mid.matches[t] = <<>> => Fresh(r, t) = Lots[{t}]
      BY <1>0, <2>2, <3>1, TradedFair
    <3>3. /\ IsFilled(mid) /\ DOMAIN mid = RowFields /\ IsBooked(mid)
          /\ mid.fees = IF sent > 0 THEN Put(r.fees, own, Tracked(sent, c)) ELSE r.fees
          /\ sent > 0 => own \notin DOMAIN r.fees
      BY <1>0, <2>2, <3>1, TradedFilled, TradedRow, TradedBooks DEF IsRow
    <3>4. IsPriced(c, Lots[{t}]) /\ (~Known(c) => IsPriced(c, Fresh(r, t)))
      <4> HIDE DEF Known
      <4> QED BY <1>0, GivenIsPriced
    <3>5. sent \in Nat /\ sent <= Lots[{t}]
      <4>1. PICK w \in Nat \ {0} : w = Lots[{t}]
        BY <1>0, LotsOfTrade
      <4>2. PICK u \in Nat : u = r.unmatched
        BY DEF IsRow
      <4>3. sent = w - (IF u <= w THEN u ELSE w)
        BY <3>1, <4>1, <4>2 DEF Fresh, Matched, Least
      <4> QED BY ONLY <4>1, <4>3, u \in Nat
    <3>6. mid.seen = r.seen \cup {t} /\ r.seen \subseteq Trades
      <4>1. mid.seen = r.seen \cup {t}
        BY <3>1 DEF Traded, IsRow, RowFields
      <4> QED BY <4>1 DEF IsRow, Upto
    <3> HIDE DEF Known
    <3> QED BY <1>0, <3>1, <3>2, <3>3, <3>4, <3>5, <3>6
  <2> QED BY <2>1, <2>2
<1>2. next = Attributed(mid, t, c)
  BY DEF Projected
<1>3. T = Over(next.corrections, IF sent > 0 THEN Only(own, own1) ELSE <<>>)
  BY DEF Telling
<1>4. next.ok /\ (Known(c) => ~ChargedWhole(next.row, t))
  <2> HIDE DEF Known
  <2> QED OBVIOUS
<1> HIDE DEF next, mid, T, sent, own1, own
<1>5. FairResult(next, mid)
  <2>1. IsPriced(c, Lots[{t}])
    BY <1>0, GivenIsPriced
  <2>2. AreDue(mid.fees, {TradeFill(t)})
    BY <1>1 DEF own
  <2> HIDE DEF Known
  <2>3. next.ok => FairResult(next, mid) \/ ChargedWhole(next.row, t)
    BY ONLY Proportional, <1>0, <1>1, <1>2, <2>1, <2>2, AttributedFair
  <2>4. ~Known(c) => FairResult(next, mid)
    <3>1. ~Known(c) => next = Unchanged(mid)
      BY <1>2 DEF Attributed
    <3> QED BY <1>1, <3>1, UnchangedFair
  <2> QED BY <1>4, <2>3, <2>4
<1>6. /\ IsFair(next.row) /\ Extends(next.row.fees, mid.fees) /\ DOMAIN next.row.fees = DOMAIN mid.fees
      /\ \A f \in DOMAIN next.corrections :
            f \in DOMAIN mid.fees /\ IsPriced(next.corrections[f], mid.fees[f].lots)
  BY <1>5 DEF FairResult
<1>7. /\ DOMAIN T = DOMAIN next.corrections \cup (IF sent > 0 THEN {own} ELSE {})
      /\ \A f \in DOMAIN T : T[f] = IF f \in DOMAIN next.corrections THEN next.corrections[f] ELSE own1
  <2>1. DOMAIN <<>> = {}
    OBVIOUS
  <2> QED BY <1>3, <2>1 DEF Over, Only
<1>8. /\ DOMAIN mid.fees = DOMAIN r.fees \cup (IF sent > 0 THEN {own} ELSE {})
      /\ sent > 0 => own \in DOMAIN mid.fees /\ mid.fees[own].lots = sent
  <2>1. Tracked(sent, c).lots = sent
    BY DEF Tracked
  <2> QED BY <1>1, <2>1 DEF Put
<1>9. Extends(next.row.fees, r.fees)
  BY <1>1, <1>6 DEF Extends
<1>10. DOMAIN next.row.fees \subseteq DOMAIN r.fees \cup DOMAIN T
  BY <1>6, <1>7, <1>8
<1>11. ASSUME NEW f \in DOMAIN T
       PROVE  f \in DOMAIN next.row.fees /\ IsPriced(T[f], next.row.fees[f].lots)
  <2>1. CASE f \in DOMAIN next.corrections
    BY <1>6, <1>7, <2>1 DEF Extends
  <2>2. CASE f \notin DOMAIN next.corrections
    <3>1. f = own /\ sent > 0 /\ T[f] = own1
      BY <1>7, <2>2
    <3>2. own \in DOMAIN next.row.fees /\ next.row.fees[own].lots = sent
      BY <1>6, <1>8, <3>1 DEF Extends
    <3>3. IsPriced(own1, sent)
      <4>1. CASE sent < Lots[{t}] /\ Known(c)
        <5>1. own1 = next.row.fees[own].c
          BY <4>1 DEF own1
        <5>2. PICK s : s = next.row
          OBVIOUS
        <5>3. AreDue(s.fees, {}) /\ TradeFill(t) \in DOMAIN s.fees
          BY <1>6, <3>2, <5>2 DEF IsFair, own
        <5>4. IsPriced(s.fees[TradeFill(t)].c, s.fees[TradeFill(t)].lots)
          BY ONLY Proportional, <5>3, OwnIsPriced
        <5> QED BY <3>2, <5>1, <5>2, <5>4 DEF own
      <4>2. CASE ~(sent < Lots[{t}] /\ Known(c))
        <5>1. own1 = c
          BY <4>2 DEF own1
        <5>2. IsPriced(c, Lots[{t}]) /\ (~Known(c) => IsPriced(c, sent))
          <6> HIDE DEF Known
          <6> QED BY <1>0, GivenIsPriced
        <5>3. Known(c) => sent = Lots[{t}]
          <6>1. Known(c) => ~(sent < Lots[{t}])
            BY <4>2
          <6>2. sent \in Nat /\ sent <= Lots[{t}] /\ Lots[{t}] \in Nat
            BY <1>0, <1>1, <3>1, LotsOfTrade
          <6> HIDE DEF Known
          <6> QED BY <6>1, <6>2
        <5> HIDE DEF Known
        <5> QED BY <5>1, <5>2, <5>3
      <4> QED BY <4>1, <4>2
    <3> QED BY <3>1, <3>2, <3>3
  <2> QED BY <2>1, <2>2
<1> QED BY <1>6, <1>9, <1>10, <1>11 DEF next, T

\* A commission a report brings for a trade that was published whole.
LEMMA RefinedFair ==
    ASSUME Proportional, NEW r, DOMAIN r = RowFields, IsBooked(r), IsFair(r), NEW t \in Trades,
           NEW c, IsGiven(c, t), SnapshotTold(r, t, c)
    PROVE  LET next == Refined(r, t, c)
           IN  /\ IsFair(next) /\ Extends(next.fees, r.fees) /\ DOMAIN next.fees = DOMAIN r.fees
               /\ TradeFill(t) \in DOMAIN r.fees => IsPriced(c, r.fees[TradeFill(t)].lots)
<1> DEFINE own == TradeFill(t)
           x == Tracked(Lots[{t}], c)
           mid == [r EXCEPT !.fees = Put(@, own, x)]
           next == Refined(r, t, c)
<1>1. next = IF own \in DOMAIN r.fees /\ Known(c) THEN mid ELSE r
  BY DEF Refined
<1>2. own \in DOMAIN r.fees => r.fees[own].lots = Lots[{t}]
  BY DEF SnapshotTold
<1>3. IsPriced(c, Lots[{t}])
  BY GivenIsPriced
<1> HIDE DEF x, own
<1>4. /\ mid.fees = Put(r.fees, own, x) /\ mid.seen = r.seen
      /\ mid.emitted = r.emitted /\ mid.queue = r.queue /\ mid.matches = r.matches
  BY DEF RowFields
<1> HIDE DEF mid, next
<1>5. CASE own \in DOMAIN r.fees /\ Known(c)
  <2>1. /\ mid.fees = Put(r.fees, own, Tracked(r.fees[own].lots, c)) /\ IsPriced(c, r.fees[own].lots)
    BY <1>2, <1>3, <1>4, <1>5 DEF x
  <2>2. IsFair(mid) /\ Extends(mid.fees, r.fees) /\ DOMAIN mid.fees = DOMAIN r.fees
    <3>1. own \in DOMAIN r.fees /\ Known(c)
      BY <1>5
    <3> QED BY ONLY Proportional, IsBooked(r), IsFair(r), <1>4, <2>1, <3>1, RepricedFair
  <2> QED BY <1>1, <1>5, <2>1, <2>2 DEF own, next
<1>6. CASE ~(own \in DOMAIN r.fees /\ Known(c))
  <2>1. next = r /\ Extends(r.fees, r.fees)
    BY <1>1, <1>6 DEF Extends
  <2> QED BY <1>2, <1>3, <2>1 DEF own, next
<1> QED BY <1>5, <1>6

-----------------------------------------------------------------------------
\* The alias keeps a row fair.

\* A row without executions.
IsVoid(r) ==
    /\ r.emitted = 0 /\ r.unmatched = 0 /\ r.seen = {} /\ DOMAIN r.queue = {} /\ DOMAIN r.fees = {}
    /\ \A t \in Trades : DOMAIN r.matches[t] = {}

\* A row that has emitted nothing has nothing.
LEMMA RowIsVoid ==
    ASSUME NEW r, NEW n \in Nat, IsRow(r, n), Exact(r, n), IsFilled(r), IsBooked(r), r.emitted = 0
    PROVE  IsVoid(r)
<1>1. r.seen = {} /\ DOMAIN r.fees = {}
  BY SeenEmits, FillsEmit
<1>2. r.unmatched = 0
  <2>1. PICK w \in Nat : w = Lots[r.seen]
    BY RowWeight, LotsMeasure
  <2>2. PICK u \in Nat : u = r.unmatched
    BY DEF IsRow
  <2>3. w + u = 0
    BY <2>1, <2>2 DEF Exact, Weight
  <2> QED BY ONLY <2>2, <2>3, w \in Nat, u \in Nat
<1>3. DOMAIN r.queue = {}
  BY <1>2, NoLotsNoEntries DEF IsBooked
<1> QED BY <1>1, <1>2, <1>3 DEF IsVoid, IsBooked

\* Such a row is fair, and no fill of it is told of.
LEMMA VoidIsFair ==
    ASSUME NEW r, IsVoid(r)
    PROVE  IsFair(r) /\ \A c : \A f \in DOMAIN r.fees \cap DOMAIN c : FALSE
<1>1. IsFiniteSet(DOMAIN r.fees) /\ DOMAIN r.fees = {}
  BY FS_EmptySet DEF IsVoid
<1>2. SumFunction(LotsTracked(r.fees)) = r.emitted
  <2>1. LotsTracked(r.fees) \in [{} -> Int]
    BY <1>1 DEF LotsTracked
  <2>2. SumFunction(LotsTracked(r.fees)) = 0
    BY <2>1, SumOfNone
  <2> QED BY <2>2 DEF IsVoid
<1> QED BY <1>1, <1>2 DEF IsVoid, IsFair, IsWeighed, AreBacked, AreDue

\* Entries of the alias that the merged queue holds leave its fold alone.
LEMMA FoldStays ==
    ASSUME NEW first, NEW entries, IsSeq(entries), NEW q, NEW other,
           \A i \in DOMAIN entries : \E k \in DOMAIN q : q[k].fill = entries[i].fill
    PROVE  AbsorbedAll(first, entries, q, other) = first
<1>1. PICK n \in Nat : DOMAIN entries = 1 .. n
  BY DEF IsSeq
<1> DEFINE result == AbsorbedAll(first, entries, q, other)
           Iter(i) == i = [s \in SUBSET (1 .. n) |-> Absorbed(i, s, first, entries, q, other)]
           iter == CHOOSE i : Iter(i)
<1>2. result = iter[1 .. n]
  BY <1>1 DEF AbsorbedAll, FoldLeft, MapThenFoldSet, Absorbed
<1>3. Iter(iter)
  BY FoldExists
<1> HIDE DEF iter, result
<1>4. ASSUME NEW i \in DOMAIN entries, NEW acc
      PROVE  Absorb(acc, entries[i], q, other) = acc
  <2>1. entries[i].fill \in {q[k].fill : k \in DOMAIN q}
    OBVIOUS
  <2> QED BY <2>1, Zenon DEF Absorb
<1> DEFINE Fails == {m \in Nat : m <= n /\ \E s \in SUBSET (1 .. m) : iter[s] /= first}
<1>5. ASSUME Fails /= {}
      PROVE  FALSE
  <2>1. PICK m \in Fails : \A l \in Fails : m <= l
    BY <1>5, LeastElement
  <2>2. PICK s \in SUBSET (1 .. m) : iter[s] /= first
    BY <2>1
  <2>3. m \in Nat /\ m <= n /\ s \in SUBSET (1 .. n)
    BY <2>1
  <2>4. iter[s] = Absorbed(iter, s, first, entries, q, other)
    BY <1>3, <2>3
  <2>5. s /= {}
    BY <2>2, <2>4 DEF Absorbed
  <2>6. m - 1 \in Nat /\ m - 1 <= n /\ m - 1 \notin Fails
    <3>1. PICK e : e \in 1 .. m
      BY <2>5
    <3>2. m - 1 \in Nat /\ m - 1 <= n /\ ~(m <= m - 1)
      BY ONLY <2>3, <3>1
    <3> QED BY <2>1, <3>2
  <2>7. m \in s
    <3>1. s \notin SUBSET (1 .. m - 1)
      BY <2>2, <2>6
    <3> QED BY <2>2, <2>3, <3>1
  <2>8. Max(s) = m /\ s \ {Max(s)} \in SUBSET (1 .. m - 1)
    <3>1. (m - 1) + 1 = m
      BY <2>3
    <3> QED BY <2>6, <2>7, <3>1, MaxOfInterval
  <2>9. iter[s \ {Max(s)}] = first
    BY <2>6, <2>8
  <2>10. iter[s] = Absorb(iter[s \ {Max(s)}], entries[Max(s)], q, other)
    BY <2>4, <2>5 DEF Absorbed
  <2>11. m \in DOMAIN entries
    BY <1>1, <2>3, <2>7
  <2> QED BY <1>4, <2>2, <2>8, <2>9, <2>10, <2>11
<1>6. iter[1 .. n] = first
  <2>1. n \notin Fails /\ n \in Nat /\ n <= n /\ (1 .. n) \in SUBSET (1 .. n)
    BY <1>5
  <2> QED BY ONLY <2>1
<1> QED BY <1>2, <1>6 DEF result

\* A commission that keeps all of its lots is left as it is.
LEMMA KeptSize ==
    ASSUME NEW x, IsTracked(x), IsCovered(x), NEW lots \in Nat, lots <= x.lots,
           NEW y, y = Resized(x, lots), x.lots <= y.lots
    PROVE  y.lots = x.lots /\ y.resolved = x.resolved /\ y.c = x.c
<1>1. PICK l \in Nat : l = x.lots
  BY DEF IsCovered
<1>2. CASE lots >= l
  <2>1. y = [x EXCEPT !.lots = lots]
    BY <1>1, <1>2 DEF Resized
  <2>2. lots = l
    BY <1>1, <1>2
  <2> QED BY <1>1, <2>1, <2>2 DEF IsTracked
<1>3. CASE ~(lots >= l)
  <2>1. ~(lots >= x.lots)
    BY <1>1, <1>3
  <2>2. y.lots = lots
    BY <2>1 DEF Resized
  <2> QED BY <1>1, <1>3, <2>2
<1> QED BY <1>2, <1>3

\* One of the queues a and b is base, the other has no entries.
IsRest(base, a, b) ==
    \/ base = b /\ DOMAIN a = {}
    \/ base = a /\ DOMAIN b = {}

\* Merging such queues keeps the entries and the lots of base.
LEMMA QueuesOfOne ==
    ASSUME NEW a, NEW b, IsQueue(a), IsQueue(b), NEW n, n = Most(Total(a), Total(b)),
           NEW base, IsRest(base, a, b),
           NEW q, q = MergedQueue(a, b, n)
    PROVE  /\ IsQueue(q) /\ Pieces(q, base) /\ Total(q) = Total(base) /\ IsQueue(base)
           /\ NoneLeftOut(q, b)
<1>1. /\ IsQueue(MergedQueue(a, b, n)) /\ Total(MergedQueue(a, b, n)) = n
      /\ DOMAIN a = {} => Pieces(MergedQueue(a, b, n), b) /\ NoneLeftOut(MergedQueue(a, b, n), b)
      /\ DOMAIN b = {} => Pieces(MergedQueue(a, b, n), a)
  BY ONLY IsQueue(a), IsQueue(b), n = Most(Total(a), Total(b)), MergedTotal
<1>2. IsQueue(q) /\ Pieces(q, base) /\ IsQueue(base)
  BY <1>1 DEF IsRest
<1>3. NoneLeftOut(q, b)
  BY <1>1 DEF IsRest, NoneLeftOut
<1>4. Total(q) = Total(base)
  <2>1. Total(a) \in Nat /\ Total(b) \in Nat
    BY QueueIsLots, TotalIsNat
  <2>2. DOMAIN a = {} => Total(a) = 0
    BY EmptyQueue, TotalEmpty
  <2>3. DOMAIN b = {} => Total(b) = 0
    BY EmptyQueue, TotalEmpty
  <2>4. n = Total(base)
    BY <2>1, <2>2, <2>3 DEF IsRest, Most
  <2> QED BY <1>1, <2>4
<1> QED BY <1>2, <1>3, <1>4

\* Row base merged with a row without executions, no commission of which was
\* cut down.
LEMMA MergedFair ==
    ASSUME NEW r, NEW s, IsRow(r, executed), IsRow(s, executed), IsFilled(r), IsFilled(s), IsBooked(r), IsBooked(s),
           NEW base, IsFair(base), \/ base = s /\ IsVoid(r)
                                   \/ base = r /\ IsVoid(s),
           NEW next, next = Merged(r, s),
           \A f \in DOMAIN next.fees \cap DOMAIN base.fees : ~(next.fees[f].lots < base.fees[f].lots)
    PROVE  IsFair(next) /\ Extends(next.fees, base.fees) /\ DOMAIN next.fees = DOMAIN base.fees
<1> DEFINE queue == MergedQueue(r.queue, s.queue, Most(r.unmatched, s.unmatched))
           fees == [f \in DOMAIN r.fees \cup DOMAIN s.fees |->
                       IF f \notin DOMAIN r.fees
                          \/ (f \in DOMAIN s.fees /\ Stronger(s.fees[f], r.fees[f]))
                       THEN s.fees[f] ELSE r.fees[f]]
           sized == [f \in DOMAIN fees |-> IF LotsIn(queue, f) > 0
                                           THEN Resized(fees[f], LotsIn(queue, f)) ELSE fees[f]]
           first == [fees |-> sized, used |-> {}]
           last  == FoldLeft(LAMBDA acc, e : Absorb(acc, e, queue, s), first, s.queue)
           lots(t) == Most(Total(r.matches[t]), Total(s.matches[t]))
           match(t) == MergedQueue(r.matches[t], s.matches[t], lots(t))
<1>1. /\ next.fees = last.fees /\ next.queue = queue /\ next.seen = r.seen \cup s.seen
      /\ next.emitted = Most(r.emitted, s.emitted) /\ next.matches = [t \in Trades |-> match(t)]
  BY Zenon DEF Merged
<1>2. \A t \in Trades : next.matches[t] = match(t)
  <2> HIDE DEF match
  <2> QED BY <1>1, Zenon
<1>3. PICK a : a = r.queue /\ IsQueue(a) /\ r.unmatched = Total(a)
  BY DEF IsBooked
<1>4. PICK b : b = s.queue /\ IsQueue(b) /\ s.unmatched = Total(b)
  BY DEF IsBooked
<1>5. PICK m : m = Most(Total(a), Total(b))
  OBVIOUS
<1>6. PICK q : q = MergedQueue(a, b, m)
  OBVIOUS
<1>7. queue = q
  BY <1>3, <1>4, <1>5, <1>6
<1> HIDE DEF queue, last, match
<1>8. /\ IsQueue(q) /\ Pieces(q, base.queue) /\ IsQueue(base.queue)
      /\ \A i \in DOMAIN b : \E k \in DOMAIN q : q[k].fill = b[i].fill
  <2>1. PICK d : d = base.queue
    OBVIOUS
  <2>2. IsRest(d, a, b)
    BY <1>3, <1>4, <2>1 DEF IsVoid, IsRest
  <2>3. /\ IsQueue(q) /\ Pieces(q, d) /\ IsQueue(d)
        /\ Total(q) = Total(d) /\ NoneLeftOut(q, b)
    <3>1. IsQueue(a) /\ IsQueue(b) /\ m = Most(Total(a), Total(b)) /\ q = MergedQueue(a, b, m)
      BY ONLY <1>3, <1>4, <1>5, <1>6
    <3> QED BY ONLY <2>2, <3>1, QueuesOfOne
  <2> QED BY <2>1, <2>3 DEF NoneLeftOut
<1>9. DOMAIN fees = DOMAIN base.fees /\ \A f \in DOMAIN fees : fees[f] = base.fees[f]
  BY DEF IsVoid
<1>10. IsFilled(base) /\ IsBooked(base)
  OBVIOUS
<1> HIDE DEF fees
<1>11. next.fees = sized
  <2>1. last = AbsorbedAll(first, s.queue, queue, s)
    BY DEF last, AbsorbedAll
  <2>2. IsSeq(s.queue)
    BY DEF IsFilled
  <2>3. first.fees = sized
    OBVIOUS
  <2> HIDE DEF first
  <2>4. \A i \in DOMAIN s.queue : \E k \in DOMAIN queue : queue[k].fill = s.queue[i].fill
    BY <1>4, <1>7, <1>8
  <2>5. last = first
    BY ONLY <2>1, <2>2, <2>4, FoldStays
  <2> QED BY <1>1, <2>3, <2>5
<1>12. DOMAIN next.fees = DOMAIN base.fees
  BY <1>9, <1>11
<1>13. AreBacked(base.queue, base.fees) /\ \A t \in Trades : AreBacked(base.matches[t], base.fees)
  BY DEF IsFair, IsWeighed
<1>14. ASSUME NEW f \in DOMAIN base.fees
       PROVE  /\ next.fees[f].lots = base.fees[f].lots /\ next.fees[f].resolved = base.fees[f].resolved
              /\ next.fees[f].c = base.fees[f].c
  <2>1. PICK x : x = base.fees[f]
    OBVIOUS
  <2>2. PICK y : y = next.fees[f]
    OBVIOUS
  <2>3. PICK l \in Nat : l = LotsIn(q, f)
    BY <1>8, LotsInQueue
  <2>4. y = IF l > 0 THEN Resized(x, l) ELSE x
    BY <1>7, <1>9, <1>11, <2>1, <2>2, <2>3
  <2>5. IsTracked(x) /\ IsCovered(x)
    BY <1>10, <2>1 DEF IsFilled, IsBooked, AreCovered
  <2>6. l > 0 => l <= x.lots
    <3>1. SUFFICES ASSUME l > 0 PROVE l <= x.lots
      OBVIOUS
    <3>2. PICK i \in DOMAIN q : q[i].fill = f /\ LotsIn(q, f) = q[i].lots
      BY <1>8, <2>3, <3>1, LotsInQueue
    <3>3. PICK j \in DOMAIN base.queue : q[i].fill = base.queue[j].fill /\ q[i].lots <= base.queue[j].lots
      BY <1>8 DEF Pieces
    <3>4. base.queue[j].lots <= x.lots
      BY <1>13, <2>1, <3>2, <3>3 DEF AreBacked, Backed
    <3>5. q[i].lots \in Nat /\ base.queue[j].lots \in Nat /\ x.lots \in Nat
      BY <1>8, <2>5 DEF IsQueue, IsCovered
    <3> QED BY <2>3, <3>2, <3>3, <3>4, <3>5
  <2>7. ~(y.lots < x.lots)
    BY <1>12, <2>1, <2>2
  <2>8. CASE l > 0
    <3>1. y = Resized(x, l) /\ l <= x.lots
      BY <2>4, <2>6, <2>8
    <3>2. x.lots <= y.lots
      <4>1. PICK n \in Nat : n = x.lots
        BY <2>5 DEF IsCovered
      <4>2. y.lots = l \/ y.lots = n
        <5>1. l = n \/ ~(l >= x.lots)
          BY <3>1, <4>1
        <5>2. CASE ~(l >= x.lots)
          BY <3>1, <5>2 DEF Resized
        <5>3. CASE l = n
          <6>1. y = [x EXCEPT !.lots = l]
            BY <3>1, <4>1, <5>3 DEF Resized
          <6> QED BY <2>5, <6>1 DEF IsTracked
        <5> QED BY <5>1, <5>2, <5>3
      <4> QED BY <2>7, <4>1, <4>2
    <3>3. y.lots = x.lots /\ y.resolved = x.resolved /\ y.c = x.c
      BY ONLY <2>5, <3>1, <3>2, l \in Nat, KeptSize
    <3> QED BY <2>1, <2>2, <3>3
  <2>9. CASE ~(l > 0)
    BY <2>1, <2>2, <2>4, <2>9
  <2> QED BY <2>8, <2>9
<1>15. Extends(next.fees, base.fees)
  BY <1>12, <1>14 DEF Extends
<1>16. AreDue(next.fees, {})
  <2>1. ASSUME NEW f \in DOMAIN base.fees
        PROVE  IsDue(f, next.fees[f])
    <3>1. IsDue(f, base.fees[f])
      BY DEF IsFair, AreDue
    <3> HIDE DEF Known
    <3> QED BY <1>14, <3>1 DEF IsDue
  <2> QED BY <1>12, <2>1 DEF AreDue
<1>17. SumFunction(LotsTracked(next.fees)) = next.emitted /\ IsFiniteSet(DOMAIN next.fees)
  <2>1. next.emitted = base.emitted
    BY <1>1 DEF IsVoid, IsRow, Most
  <2>2. LotsTracked(next.fees) = LotsTracked(base.fees)
    BY <1>12, <1>15, SameLots
  <2> QED BY <1>12, <2>1, <2>2 DEF IsFair, IsWeighed
<1>18. AreBacked(next.queue, next.fees)
  <2>1. AreBacked(q, base.fees)
    BY <1>8, <1>10, <1>13, PiecesAreBacked DEF IsBooked
  <2> QED BY <1>1, <1>7, <1>15, <2>1, BackedStays
<1>19. ASSUME NEW t \in Trades
       PROVE  /\ AreBacked(next.matches[t], next.fees) /\ Total(next.matches[t]) = Total(base.matches[t])
              /\ IsQueue(next.matches[t]) /\ IsQueue(base.matches[t])
  <2>1. PICK c : c = r.matches[t] /\ IsQueue(c)
    BY DEF IsBooked
  <2>2. PICK d : d = s.matches[t] /\ IsQueue(d)
    BY DEF IsBooked
  <2>3. PICK l : l = Most(Total(c), Total(d))
    OBVIOUS
  <2>4. PICK x : x = MergedQueue(c, d, l)
    OBVIOUS
  <2>5. next.matches[t] = x
    BY <1>2, <2>1, <2>2, <2>3, <2>4 DEF match
  <2>6. PICK p : p = base.matches[t]
    OBVIOUS
  <2>7. IsRest(p, c, d)
    BY <2>1, <2>2, <2>6 DEF IsVoid, IsRest
  <2>8. IsQueue(x) /\ Pieces(x, p) /\ Total(x) = Total(p) /\ IsQueue(p) /\ NoneLeftOut(x, d)
    <3>1. IsQueue(c) /\ IsQueue(d) /\ l = Most(Total(c), Total(d)) /\ x = MergedQueue(c, d, l)
      BY ONLY <2>1, <2>2, <2>3, <2>4
    <3> QED BY ONLY <2>7, <3>1, QueuesOfOne
  <2>9. AreBacked(p, base.fees)
    BY <1>13, <2>6
  <2>10. AreCovered(base.fees)
    BY <1>10 DEF IsBooked
  <2>11. AreBacked(x, base.fees)
    BY ONLY <2>8, <2>9, <2>10, PiecesAreBacked
  <2>12. AreBacked(x, next.fees)
    BY ONLY <1>15, <2>11, BackedStays
  <2> QED BY <2>5, <2>6, <2>8, <2>12
<1>20. ASSUME NEW t \in next.seen
       PROVE  OwnIsRest(next, t)
  <2>1. t \in base.seen /\ t \in Trades
    <3>1. next.seen = base.seen
      BY <1>1 DEF IsVoid
    <3> QED BY <3>1 DEF IsRow, Upto
  <2>2. OwnIsRest(base, t)
    BY <2>1 DEF IsFair, IsWeighed
  <2>3. OwnLots(next, t) = OwnLots(base, t)
    BY <1>12, <1>14 DEF OwnLots
  <2>4. DOMAIN next.matches[t] = {} <=> DOMAIN base.matches[t] = {}
    <3>1. PICK x : x = next.matches[t]
      OBVIOUS
    <3>2. PICK y : y = base.matches[t]
      OBVIOUS
    <3>3. IsQueue(x) /\ IsQueue(y) /\ Total(x) = Total(y)
      BY <1>19, <2>1, <3>1, <3>2
    <3>4. DOMAIN x = {} => Total(x) = 0
      BY <3>3, EmptyQueue, TotalEmpty
    <3>5. DOMAIN y = {} => Total(y) = 0
      BY <3>3, EmptyQueue, TotalEmpty
    <3> QED BY <3>1, <3>2, <3>3, <3>4, <3>5, NoLotsNoEntries
  <2>5. /\ TradeFill(t) \in DOMAIN next.fees <=> TradeFill(t) \in DOMAIN base.fees
        /\ TradeFill(t) \in DOMAIN base.fees => next.fees[TradeFill(t)].c = base.fees[TradeFill(t)].c
    BY <1>12, <1>14
  <2>6. Total(next.matches[t]) = Total(base.matches[t])
    BY <1>19, <2>1
  <2> HIDE DEF Known
  <2> QED BY <2>2, <2>3, <2>4, <2>5, <2>6 DEF OwnIsRest
<1>21. IsFair(next)
  BY <1>16, <1>17, <1>18, <1>19, <1>20 DEF IsFair, IsWeighed
<1> QED BY <1>12, <1>15, <1>21

-----------------------------------------------------------------------------
\* The rows, and the copy of a snapshot, are fair, and what the host was told of
\* a fill is what is due for its lots.

FairTold(r, c) ==
    \A f \in DOMAIN r.fees \cap DOMAIN c : Known(c[f]) => c[f].amount = Due(r.fees[f].lots)

FairRows == ~split /\ ~skewed => \A id \in Ids : IsFair(rows[id]) /\ FairTold(rows[id], told)

FairCopy ==
    task.at = "staging" /\ ~split /\ ~skewed =>
        \A id \in Ids :
            /\ IsFair(task.staged[id])
            /\ ~Torn(task.staged) => FairTold(task.staged[id], Over(task.c, told))

Fair == FairRows /\ FairCopy

\* Row r becomes next, and c tells what is due for its new and its changed fills.
Settles(r, next, c) ==
    /\ IsFair(next) /\ Extends(next.fees, r.fees)
    /\ DOMAIN next.fees \subseteq DOMAIN r.fees \cup DOMAIN c
    /\ \A f \in DOMAIN c \cap DOMAIN next.fees : IsPriced(c[f], next.fees[f].lots)

\* What was told with c of such a row, and b before, is due for its fills' lots.
LEMMA SettledTold ==
    ASSUME NEW r, NEW next, NEW c, Settles(r, next, c), NEW b, FairTold(r, b)
    PROVE  FairTold(next, Over(c, b))
<1>1. PICK d : d = Over(c, b)
  OBVIOUS
<1>2. /\ DOMAIN d = DOMAIN c \cup DOMAIN b
      /\ \A f \in DOMAIN d : d[f] = IF f \in DOMAIN c THEN c[f] ELSE b[f]
  BY <1>1 DEF Over
<1> HIDE DEF Known
<1>3. ASSUME NEW f \in DOMAIN next.fees \cap DOMAIN d, Known(d[f])
      PROVE  d[f].amount = Due(next.fees[f].lots)
  <2>1. CASE f \in DOMAIN c
    BY <1>2, <1>3, <2>1 DEF Settles, IsPriced
  <2>2. CASE f \notin DOMAIN c
    BY <1>2, <1>3, <2>2 DEF Settles, Extends, FairTold
  <2> QED BY <2>1, <2>2
<1> QED BY <1>1, <1>3 DEF FairTold

\* What is told of other fills leaves a row alone.
LEMMA OthersTold ==
    ASSUME NEW r, NEW c, NEW b, FairTold(r, b), \A f \in DOMAIN r.fees : f \notin DOMAIN c
    PROVE  FairTold(r, Over(c, b))
<1>1. PICK d : d = Over(c, b)
  OBVIOUS
<1>2. /\ DOMAIN d = DOMAIN c \cup DOMAIN b
      /\ \A f \in DOMAIN d : d[f] = IF f \in DOMAIN c THEN c[f] ELSE b[f]
  BY <1>1 DEF Over
<1> HIDE DEF Known
<1> QED BY <1>1, <1>2 DEF FairTold

\* A row committed with what was told of its fills.
LEMMA CommitFair ==
    ASSUME Inv, Fair, NEW id \in Ids, NEW next, NEW lots, NEW c,
           Commit([rows EXCEPT ![id] = next], lots, c), skewed' = skewed, task'.at /= "staging",
           ~split' /\ ~skewed => Settles(rows[id], next, c),
           ~split' => \A f \in DOMAIN c : \A other \in Ids \ {id} : f \notin DOMAIN rows[other].fees
    PROVE  Fair'
<1>1. /\ rows' = [rows EXCEPT ![id] = next] /\ told' = Over(c, told) /\ (~split' => ~split)
      /\ DOMAIN rows = Ids
  BY DEF Commit, Inv, IsAccount, IsPair
<1>2. rows'[id] = next /\ \A other \in Ids \ {id} : rows'[other] = rows[other]
  BY <1>1
<1>3. ASSUME ~split', ~skewed', NEW j \in Ids
      PROVE  IsFair(rows'[j]) /\ FairTold(rows'[j], told')
  <2>1. IsFair(rows[j]) /\ FairTold(rows[j], told) /\ FairTold(rows[id], told)
    BY <1>1, <1>3 DEF Fair, FairRows
  <2>2. CASE j = id
    <3>1. Settles(rows[id], next, c)
      BY <1>3
    <3>2. FairTold(next, Over(c, told))
      BY <2>1, <3>1, SettledTold
    <3> QED BY <1>1, <1>2, <2>2, <3>1, <3>2 DEF Settles
  <2>3. CASE j /= id
    <3>1. \A f \in DOMAIN rows[j].fees : f \notin DOMAIN c
      BY <1>3, <2>3
    <3>2. FairTold(rows[j], Over(c, told))
      BY <2>1, <3>1, OthersTold
    <3> QED BY <1>1, <1>2, <2>1, <2>3, <3>2
  <2> QED BY <2>2, <2>3
<1> QED BY <1>3 DEF Fair, FairRows, FairCopy

\* What an action that leaves the rows and what was told alone keeps.
LEMMA SameFair ==
    ASSUME Fair, UNCHANGED <<rows, told, split, skewed>>, task' = task \/ task'.at /= "staging"
    PROVE  Fair'
BY DEF Fair, FairRows, FairCopy

-----------------------------------------------------------------------------
\* Each action keeps the rows and the copy fair.

LEMMA StateIgnoredFair ==
    ASSUME IsStep, Fair, StateIgnored
    PROVE  Fair'
<1> DEFINE row  == rows[task.key]
           next == [row EXCEPT !.cum = Most(@, Lots[Upto(task.k)])]
<1>1. task.key \in Ids /\ IsRow(row, executed) /\ DOMAIN rows = Ids
  BY StateRow DEF StateIgnored, IsStep
<1>2. [rows EXCEPT ![task.key].cum = Most(@, Lots[Upto(task.k)])] = [rows EXCEPT ![task.key] = next]
  OBVIOUS
<1>3. Commit([rows EXCEPT ![task.key] = next], 0, <<>>) /\ task' = Idle /\ skewed' = skewed
  BY <1>2 DEF StateIgnored
<1>4. /\ next.fees = row.fees /\ next.emitted = row.emitted /\ next.seen = row.seen
      /\ next.queue = row.queue /\ next.matches = row.matches
  BY <1>1 DEF IsRow, RowFields
<1> HIDE DEF next
<1>5. ~split' /\ ~skewed => Settles(row, next, <<>>)
  <2>1. SUFFICES ASSUME ~split', ~skewed PROVE Settles(row, next, <<>>)
    OBVIOUS
  <2>2. IsFair(row)
    BY <1>1, <1>3, <2>1 DEF Commit, Fair, FairRows
  <2>3. IsFair(next)
    BY <1>4, <2>2 DEF IsFair, IsWeighed, OwnIsRest, OwnLots
  <2>4. DOMAIN <<>> = {}
    OBVIOUS
  <2> QED BY <1>4, <2>3, <2>4 DEF Settles, Extends
<1>6. task'.at /= "staging"
  BY <1>3, CopyIdle
<1>7. DOMAIN <<>> = {}
  OBVIOUS
<1> QED BY <1>1, <1>3, <1>5, <1>6, <1>7, CommitFair DEF IsStep

\* The publication of a state sends the rest of the commission, or corrects it.
LEMMA DeltaFair ==
    ASSUME Proportional, IsStep, Books, Fair, task.at = "publishing", task' = Idle, skewed' = skewed,
           PublishDelta
    PROVE  Fair'
<1> DEFINE row  == rows[task.key]
           fill == Synthetic(task.source, task.key, task.k)
           c    == CumulativeFee(row, task.k, task.given)
           next == Cumulated(row, task.k, fill, c)
           T    == Only(fill, c)
<1>1. /\ task.key \in Ids /\ task.k \in 1 .. executed /\ IsRow(row, executed) /\ executed \in Nat
      /\ DOMAIN rows = Ids /\ IsFilled(row) /\ IsBooked(row)
  BY StateRow DEF IsStep, Knows, RowsKnow, Books
<1>2. ~Lags(row, task.k)
  BY Projecting DEF IsProjecting, IsStep
<1>3. /\ Delta(row, task.k) > 0
      /\ Commit([rows EXCEPT ![task.key] = next], Delta(row, task.k), T)
  BY DEF PublishDelta
<1>4. task.k \in 0 .. executed /\ task.source /= "trade"
  BY <1>1, FillLedgerAssumption DEF IsStep, Knows, InOwnRow
<1>5. fill.source /= "trade"
  BY <1>4 DEF Synthetic
<1>6. /\ fill \notin DOMAIN row.fees
      /\ next.fees = Put(row.fees, fill, Tracked(Delta(row, task.k), c))
  BY <1>1, <1>2, <1>3, <1>4, CumulatedFilled
<1>7. next.emitted > 0
  <2> HIDE DEF row, fill, c
  <2>1. next.emitted = row.emitted + Delta(row, task.k) /\ Delta(row, task.k) \in Nat
    BY <1>1, <1>2, <1>3, <1>4, CumulatedRow DEF row
  <2> QED BY <1>1, <1>3, <2>1 DEF IsRow
<1>8. ~split' /\ ~skewed => Settles(row, next, T)
  <2>1. SUFFICES ASSUME ~split', ~skewed PROVE Settles(row, next, T)
    OBVIOUS
  <2>2. IsFair(row)
    BY <1>1, <1>3, <2>1 DEF Commit, Fair, FairRows
  <2> HIDE DEF row, fill
  <2>3. IsFair(next) /\ IsPriced(c, Delta(row, task.k))
    BY ONLY Proportional, <1>1, <1>3, <1>4, <1>5, <1>6, <2>2, CumulatedFair
  <2> HIDE DEF next, c
  <2>4. DOMAIN T = {fill} /\ T[fill] = c
    BY DEF Only
  <2>5. Extends(next.fees, row.fees) /\ DOMAIN next.fees = DOMAIN row.fees \cup {fill}
        /\ next.fees[fill].lots = Delta(row, task.k)
    BY <1>6 DEF Put, Tracked, Extends
  <2> HIDE DEF T
  <2> QED BY <2>3, <2>4, <2>5 DEF Settles
<1> HIDE DEF next, fill, c
<1>9. ~split' => \A f \in DOMAIN T : \A other \in Ids \ {task.key} : f \notin DOMAIN rows[other].fees
  BY <1>1, <1>3, <1>7, OtherRow DEF IsStep, Knows
<1>10. task'.at /= "staging"
  BY CopyIdle
<1> HIDE DEF T
<1>11. PICK lots : lots = Delta(row, task.k)
  OBVIOUS
<1>12. Commit([rows EXCEPT ![task.key] = next], lots, T)
  BY <1>3, <1>11
<1> QED BY ONLY Fair, skewed' = skewed, IsStep, <1>1, <1>12, <1>8, <1>9, <1>10, CommitFair DEF IsStep

LEMMA CorrectionFair ==
    ASSUME Proportional, IsStep, Books, Fair, task.at = "publishing", task' = Idle, skewed' = skewed,
           PublishCorrection
    PROVE  Fair'
<1> DEFINE row  == rows[task.key]
           n    == Lots[Upto(task.k)]
           base == [row EXCEPT !.cum = n]
<1>1. /\ task.key \in Ids /\ task.k \in 0 .. executed /\ IsRow(row, executed) /\ executed \in Nat
      /\ DOMAIN rows = Ids /\ IsFilled(row) /\ IsBooked(row) /\ n \in Nat
  BY StateRow DEF IsStep, Knows, RowsKnow, Books
<1>2. ~Lags(row, task.k)
  BY Projecting DEF IsProjecting, IsStep
<1>3. /\ DOMAIN base = RowFields /\ base.fees = row.fees /\ base.emitted = row.emitted
      /\ base.seen = row.seen /\ base.queue = row.queue /\ base.unmatched = row.unmatched
      /\ base.matches = row.matches /\ base.cum = n
  BY <1>1 DEF IsRow, RowFields
<1>4. PICK f \in Correctable(base, task.k, task.given) :
         LET next == Corrected(base, task.k, f)
         IN  Commit([rows EXCEPT ![task.key] = next], 0, Only(f, next.fees[f].c))
  BY DEF PublishCorrection
<1>5. Delta(base, task.k) <= 0
  BY DEF PublishCorrection
<1> DEFINE next == Corrected(base, task.k, f)
           T    == Only(f, next.fees[f].c)
<1>6. Commit([rows EXCEPT ![task.key] = next], 0, T)
  BY <1>4
<1> HIDE DEF base
<1>7. IsRow(base, executed) /\ IsBooked(base) /\ ~Lags(base, task.k)
  <2>1. IsBooked(base)
    BY <1>1, <1>3 DEF IsBooked
  <2>2. PICK e \in Nat : e = row.emitted
    BY <1>1 DEF IsRow
  <2>3. PICK m \in Nat : m = row.cum
    BY <1>1 DEF IsRow
  <2>4. n /= 0 /\ ~(n < (IF m >= e THEN m ELSE e))
    BY <1>2, <2>2, <2>3 DEF Lags, Most
  <2>5. n - e <= 0
    BY <1>3, <1>5, <2>2 DEF Delta
  <2> HIDE DEF n
  <2>6. n = e
    BY ONLY <1>1, <2>4, <2>5, e \in Nat, m \in Nat
  <2>7. IsRow(base, executed)
    BY <1>1, <1>3, <2>2, <2>6 DEF IsRow
  <2>8. Most(base.cum, base.emitted) = n
    BY <1>3, <2>2, <2>6 DEF Most
  <2> QED BY <1>1, <2>1, <2>4, <2>7, <2>8 DEF Lags, n
<1>8. f \in DOMAIN row.fees
  BY <1>3 DEF Correctable
<1>9. next.emitted = row.emitted
  BY <1>3 DEF Corrected, RowFields
<1>10. DOMAIN T = {f} /\ T[f] = next.fees[f].c
  BY DEF Only
<1>11. ~split' /\ ~skewed => Settles(row, next, T)
  <2>1. SUFFICES ASSUME ~split', ~skewed PROVE Settles(row, next, T)
    OBVIOUS
  <2>2. IsFair(row)
    BY <1>1, <1>6, <2>1 DEF Commit, Fair, FairRows
  <2>3. IsFair(base)
    BY <1>3, <2>2 DEF IsFair, IsWeighed, OwnIsRest, OwnLots
  <2> HIDE DEF row
  <2>4. /\ IsFair(next) /\ Extends(next.fees, base.fees) /\ DOMAIN next.fees = DOMAIN base.fees
        /\ IsPriced(next.fees[f].c, next.fees[f].lots)
    BY ONLY Proportional, <1>1, <1>4, <1>5, <1>7, <2>3, CorrectedFair
  <2> HIDE DEF next, T
  <2> QED BY <1>3, <1>10, <2>4 DEF Settles
<1> HIDE DEF next, T
<1>12. ~split' => next.emitted > 0
  <2>1. ~split' => ~split
    BY <1>6 DEF Commit
  <2>2. ~split => Exact(row, executed)
    BY <1>1 DEF IsStep, Inv, IsAccount, ExactPair, Ids
  <2> QED BY <1>1, <1>8, <1>9, <2>1, <2>2, FillsEmit
<1>13. ~split' => \A g \in DOMAIN T : \A other \in Ids \ {task.key} : g \notin DOMAIN rows[other].fees
  BY <1>1, <1>6, <1>12, OtherRow DEF IsStep, Knows
<1>14. task'.at /= "staging"
  BY CopyIdle
<1> QED BY <1>1, <1>6, <1>11, <1>13, <1>14, CommitFair DEF IsStep

LEMMA StatePublishedFair ==
    ASSUME Proportional, IsStep, Books, Fair, StatePublished
    PROVE  Fair'
<1>1. task.at = "publishing" /\ task' = Idle /\ skewed' = skewed /\ (PublishDelta \/ PublishCorrection)
  BY DEF StatePublished
<1> QED BY <1>1, DeltaFair, CorrectionFair

LEMMA TradePublishedFair ==
    ASSUME Proportional, IsStep, Books, Fair, TradePublished
    PROVE  Fair'
<1> DEFINE row  == rows[task.key]
           next == Projected(row, task.t, Unknown)
           T    == Telling(row, next, task.t, Unknown)
           lots == SentLots(row, task.t)
<1>1. /\ task.at = "keyed" /\ task' = Idle /\ skewed' = skewed
      /\ Commit([rows EXCEPT ![task.key] = next.row], lots, T)
  BY DEF TradePublished
<1>2. task.key \in Ids /\ task.t \in Upto(executed)
  BY <1>1, Projecting DEF IsProjecting, IsStep
<1>3. /\ IsRow(row, executed) /\ executed \in Nat /\ IsFilled(row) /\ IsBooked(row) /\ DOMAIN rows = Ids
  BY <1>2 DEF IsStep, Inv, IsAccount, IsPair, Ids, Knows, RowsKnow, Books
<1>4. next.row.seen = row.seen \cup {task.t}
  BY <1>2, <1>3, ProjectedRow
<1>5. IsGiven(Unknown, task.t) /\ ~Known(Unknown)
  BY DEF Unknown, Statuses, Known, IsGiven
<1>6. next.ok
  BY <1>5 DEF Projected, Attributed, Unchanged
<1>7. ~split' /\ ~skewed => Settles(row, next.row, T)
  <2>1. SUFFICES ASSUME ~split', ~skewed PROVE Settles(row, next.row, T)
    OBVIOUS
  <2>2. IsFair(row)
    BY <1>1, <1>2, <2>1 DEF Commit, Fair, FairRows
  <2> HIDE DEF row
  <2>3. Known(Unknown) => ~ChargedWhole(Projected(row, task.t, Unknown).row, task.t)
    BY <1>5
  <2>4. /\ IsFair(next.row) /\ Extends(next.row.fees, row.fees)
        /\ DOMAIN next.row.fees \subseteq DOMAIN row.fees \cup DOMAIN T
        /\ \A f \in DOMAIN T : f \in DOMAIN next.row.fees /\ IsPriced(T[f], next.row.fees[f].lots)
    BY ONLY Proportional, <1>2, <1>3, <1>5, <1>6, <2>2, <2>3, ProjectedFair
  <2> HIDE DEF next, T
  <2> QED BY <2>4 DEF Settles
<1> HIDE DEF next, T, lots
<1>8. ~split' => next.row.emitted > 0
  <2>1. rows'[task.key] = next.row
    BY <1>1, <1>2, <1>3 DEF Commit
  <2>2. ~split' => IsRow(next.row, executed') /\ Exact(next.row, executed') /\ executed' \in Nat
    BY <1>1, <1>2, <2>1 DEF IsStep, Inv, IsAccount, IsPair, ExactPair, Ids
  <2> QED BY <1>3, <1>4, <2>2, SeenEmits
<1>9. ~split' => \A f \in DOMAIN T : \A other \in Ids \ {task.key} : f \notin DOMAIN rows[other].fees
  BY <1>1, <1>2, <1>8, OtherRow DEF IsStep, Knows
<1>10. task'.at /= "staging"
  BY <1>1, CopyIdle
<1> QED BY <1>1, <1>2, <1>7, <1>9, <1>10, CommitFair DEF IsStep

\* What an operation says of a trade's commission is the trade's own, or nothing.
LEMMA OperationGiven ==
    ASSUME NEW t, NEW n, NEW c \in OperationFees(t, n)
    PROVE  IsGiven(c, t)
<1>1. c.status \in Statuses
  BY OperationStatus
<1>2. c = Unknown \/ \E s \in {"allocated", "reported"} : c = Commission(s, Fee[{t}])
  <2>1. PICK s : s = IF Cardinality(Operation(t, n)) > 1 THEN "allocated" ELSE "reported"
    OBVIOUS
  <2>2. c \in {Commission(s, Fee[{t}])} \cup {Unknown : u \in Untold \cap {t}}
    BY <2>1 DEF OperationFees
  <2> QED BY <2>1, <2>2
<1>3. c.amount = IF Known(c) THEN Fee[{t}] ELSE 0
  <2>1. CASE c = Unknown
    BY <2>1 DEF Unknown, Known
  <2>2. ASSUME NEW s \in {"allocated", "reported"}, c = Commission(s, Fee[{t}])
        PROVE  c.amount = Fee[{t}] /\ Known(c)
    BY <2>2 DEF Commission, Known
  <2> HIDE DEF Known
  <2> QED BY <1>2, <2>1, <2>2
<1> QED BY <1>1, <1>3 DEF IsGiven

LEMMA ProvenanceToldFair ==
    ASSUME Proportional, IsStep, Books, Fair, NEW t \in Upto(executed), NEW n,
           NEW c \in OperationFees(t, n), ProvenanceTold(t, c)
    PROVE  Fair'
<1> DEFINE id   == Canonical(orderOf[t])
           row  == rows[id]
           own  == TradeFill(t)
           next == Refined(row, t, c)
           T    == Only(own, c)
<1>1. /\ Commit([rows EXCEPT ![id] = next], 0, T) /\ SnapshotTold(row, t, c)
      /\ task' = task /\ task.at = "idle" /\ skewed' = skewed /\ t \in MappedTrades(executed)
  BY DEF ProvenanceTold, Take
<1>2. id \in Ids /\ t \in Trades
  <2>1. orderOf[t] \in Ids
    BY <1>1, MappedOrder DEF IsStep, Inv
  <2> QED BY <2>1, CanonicalIsId DEF Upto
<1>3. IsRow(row, executed) /\ DOMAIN row = RowFields /\ IsBooked(row) /\ DOMAIN rows = Ids
  BY <1>2 DEF IsStep, Inv, IsAccount, IsPair, IsRow, Ids, Books
<1>4. IsGiven(c, t)
  BY OperationGiven
<1>5. DOMAIN T = {own} /\ T[own] = c
  BY DEF Only
<1>6. ~split' /\ ~skewed => Settles(row, next, T)
  <2>1. SUFFICES ASSUME ~split', ~skewed PROVE Settles(row, next, T)
    OBVIOUS
  <2>2. IsFair(row)
    BY <1>1, <1>2, <2>1 DEF Commit, Fair, FairRows
  <2>3. SnapshotTold(row, t, c)
    BY <1>1
  <2> HIDE DEF row, id
  <2>4. /\ IsFair(next) /\ Extends(next.fees, row.fees) /\ DOMAIN next.fees = DOMAIN row.fees
        /\ TradeFill(t) \in DOMAIN row.fees => IsPriced(c, row.fees[TradeFill(t)].lots)
    BY ONLY Proportional, <1>2, <1>3, <1>4, <2>2, <2>3, RefinedFair
  <2> HIDE DEF next, T
  <2> QED BY <1>5, <2>4 DEF Settles, Extends
<1>7. ~split' => \A f \in DOMAIN T : \A other \in Ids \ {id} : f \notin DOMAIN rows[other].fees
  BY <1>5, ProvenanceAlone
<1>8. task'.at /= "staging"
  BY <1>1
<1> HIDE DEF next, T, id
<1> QED BY <1>1, <1>2, <1>6, <1>7, <1>8, CommitFair DEF IsStep, row

LEMMA SnapshotTakenFair ==
    ASSUME Fair, NEW k, SnapshotTaken(k)
    PROVE  Fair'
<1>1. /\ UNCHANGED <<rows, told, split, skewed>>
      /\ task' = [at |-> "staging", k |-> k, staged |-> rows, todo |-> MappedTrades(k),
                  done |-> {}, lots |-> 0, c |-> <<>>]
  BY DEF SnapshotTaken
<1>2. task'.staged = rows /\ task'.c = <<>>
  BY <1>1
<1>3. DOMAIN <<>> = {}
  OBVIOUS
<1>4. ASSUME ~split, ~skewed, NEW id \in Ids
      PROVE  IsFair(rows[id]) /\ FairTold(rows[id], Over(<<>>, told))
  <2>1. IsFair(rows[id]) /\ FairTold(rows[id], told)
    BY <1>4 DEF Fair, FairRows
  <2>2. \A f \in DOMAIN rows[id].fees : f \notin DOMAIN <<>>
    BY <1>3
  <2> QED BY <2>1, <2>2, OthersTold
<1>5. FairRows'
  BY <1>1 DEF Fair, FairRows
<1>6. FairCopy'
  BY <1>1, <1>2, <1>4 DEF FairCopy
<1> QED BY <1>5, <1>6 DEF Fair

LEMMA SnapshotStoredFair ==
    ASSUME Fair, SnapshotStored
    PROVE  Fair'
<1>1. task.at = "staging" /\ Commit(task.staged, task.lots, task.c) /\ task' = Idle /\ skewed' = skewed
  BY DEF SnapshotStored
<1>2. /\ rows' = task.staged /\ told' = Over(task.c, told)
      /\ ~split' => ~split /\ ~Torn(task.staged)
  BY <1>1 DEF Commit, Torn
<1>3. task'.at /= "staging"
  BY <1>1, CopyIdle
<1> QED BY <1>1, <1>2, <1>3 DEF Fair, FairRows, FairCopy

LEMMA SnapshotStagesFair ==
    ASSUME Proportional, IsStep, Books, Fair, NEW t \in Upto(executed), NEW n,
           NEW c \in OperationFees(t, n), SnapshotStages(t, c)
    PROVE  Fair'
<1> DEFINE id   == Canonical(orderOf[t])
           row  == task.staged[id]
           next == Projected(row, t, c)
           T    == Telling(row, next, t, c)
<1>1. /\ UNCHANGED <<executed, alias, rows, told, split>>
      /\ task.at = "staging" /\ t \in task.todo
      /\ skewed' = (skewed \/ ChargedWhole(task'.staged[id], t))
  BY DEF SnapshotStages
<1>2. IsStaging
  BY <1>1 DEF IsStep, Inv, IsTask, IsProjecting, Idle
<1>3. FairRows'
  BY <1>1 DEF Fair, FairRows
<1>4. CASE ~next.ok
  <2>1. task' = [task EXCEPT !.todo = @ \ {t}]
    BY <1>4 DEF SnapshotStages
  <2>2. task'.staged = task.staged /\ task'.c = task.c
    BY <1>2, <2>1 DEF IsStaging
  <2>3. FairCopy'
    BY <1>1, <2>2 DEF Fair, FairCopy
  <2> QED BY <1>3, <2>3 DEF Fair
<1>5. CASE next.ok
  <2>1. /\ id \in Ids /\ IsRow(row, executed) /\ executed \in Nat /\ IsFilled(row) /\ IsBooked(row)
        /\ DOMAIN task.staged = Ids
    <3>1. orderOf[t] \in Ids
      BY <1>1 DEF IsMapped, IsStep
    <3>2. id \in Ids
      BY <3>1, CanonicalIsId
    <3> QED BY <1>1, <3>2, CopyRow DEF IsStep, Knows, CopyKnows, Books
  <2>2. task' = [task EXCEPT !.staged[id] = next.row, !.todo = @ \ {t}, !.done = @ \cup {t},
                             !.lots = @ + SentLots(row, t), !.c = Over(T, @)]
    BY <1>5 DEF SnapshotStages
  <2>3. IsGiven(c, t)
    BY OperationGiven
  <2>4. next.row.seen = row.seen \cup {t} /\ row.emitted \in Nat /\ row.emitted <= next.row.emitted
    <3>1. /\ next.row.seen = row.seen \cup {t} /\ SentLots(row, t) \in Nat
          /\ next.row.emitted = row.emitted + SentLots(row, t)
      <4> HIDE DEF row
      <4> QED BY <2>1, ProjectedRow
    <3>2. row.emitted \in Nat
      BY <2>1 DEF IsRow
    <3> HIDE DEF next, row
    <3> QED BY <3>1, <3>2
  <2>5. ASSUME IsFair(row), Known(c) => ~ChargedWhole(next.row, t)
        PROVE  Settles(row, next.row, T)
    <3>1. Known(c) => ~ChargedWhole(Projected(row, t, c).row, t)
      BY <2>5
    <3> HIDE DEF row
    <3>2. /\ IsFair(next.row) /\ Extends(next.row.fees, row.fees)
          /\ DOMAIN next.row.fees \subseteq DOMAIN row.fees \cup DOMAIN T
          /\ \A f \in DOMAIN T : f \in DOMAIN next.row.fees /\ IsPriced(T[f], next.row.fees[f].lots)
      BY ONLY Proportional, t \in Upto(executed), <1>5, <2>1, <2>3, <2>5, <3>1, ProjectedFair
    <3> HIDE DEF next, T
    <3> QED BY <3>2 DEF Settles
  <2> HIDE DEF next, T
  <2>6. /\ task'.staged = [task.staged EXCEPT ![id] = next.row] /\ task'.c = Over(T, task.c)
        /\ task'.at = "staging"
    <3> HIDE DEF id, row
    <3> QED BY <1>2, <2>2 DEF IsStaging
  <2>7. /\ task'.staged[id] = next.row
        /\ \A other \in Ids \ {id} : task'.staged[other] = task.staged[other]
    BY <2>1, <2>6
  <2>8. FairCopy'
    <3>1. SUFFICES ASSUME ~split', ~skewed', NEW j \in Ids
                   PROVE  /\ IsFair(task'.staged[j])
                          /\ ~Torn(task'.staged) => FairTold(task'.staged[j], Over(task'.c, told'))
      BY DEF FairCopy
    <3>2. ~split /\ ~skewed /\ ~ChargedWhole(next.row, t)
      BY <1>1, <2>7, <3>1
    <3>3. \A i \in Ids : IsFair(task.staged[i])
      BY <1>1, <3>2 DEF Fair, FairCopy
    <3>4. Settles(row, next.row, T)
      BY <2>1, <2>5, <3>2, <3>3
    <3>5. IsFair(task'.staged[j])
      BY <2>7, <3>3, <3>4 DEF Settles
    <3>6. ASSUME ~Torn(task'.staged)
          PROVE  FairTold(task'.staged[j], Over(task'.c, told'))
      <4>1. next.row.emitted > 0
        <5>1. IsStaging'
          BY <2>6 DEF IsStep, Inv, IsTask, IsProjecting, Idle
        <5>2. IsRow(task'.staged[id], executed') /\ Exact(task'.staged[id], executed') /\ executed' \in Nat
          BY <1>1, <2>1, <3>1, <5>1 DEF IsStep, Inv, IsStaging, IsPair, ExactPair, Ids
        <5> QED BY <2>4, <2>7, <5>2, SeenEmits
      <4>2. ASSUME NEW other \in Ids \ {id}
            PROVE  DOMAIN task.staged[other].fees = {}
        <5>1. ~(task.staged[other].emitted > 0)
          BY <2>1, <2>7, <3>6, <4>1 DEF Torn, Ids
        <5>2. IsRow(task.staged[other], executed) /\ Exact(task.staged[other], executed)
              /\ IsFilled(task.staged[other])
          BY <1>1, <3>2, CopyRow DEF IsStep, Knows, CopyKnows
        <5> QED BY <2>1, <5>1, <5>2, FillsEmit
      <4>3. ~Torn(task.staged)
        <5>1. SUFFICES ASSUME Torn(task.staged) PROVE FALSE
          OBVIOUS
        <5>2. \A i \in Ids : task.staged[i].emitted > 0
          BY <5>1 DEF Torn, Ids
        <5>3. \A i \in Ids : task'.staged[i].emitted > 0
          BY <2>4, <2>7, <4>1, <5>2
        <5> QED BY <3>6, <5>3 DEF Torn, Ids
      <4>4. PICK b : b = Over(task.c, told)
        OBVIOUS
      <4>5. FairTold(row, b)
        BY <1>1, <2>1, <3>2, <4>3, <4>4 DEF Fair, FairCopy
      <4>6. Over(task'.c, told') = Over(T, b)
        <5>1. PICK x : x = Over(T, task.c)
          OBVIOUS
        <5>2. DOMAIN x = DOMAIN T \cup DOMAIN task.c
              /\ \A f \in DOMAIN x : x[f] = IF f \in DOMAIN T THEN T[f] ELSE task.c[f]
          BY <5>1 DEF Over
        <5>3. DOMAIN b = DOMAIN task.c \cup DOMAIN told
              /\ \A f \in DOMAIN b : b[f] = IF f \in DOMAIN task.c THEN task.c[f] ELSE told[f]
          BY <4>4 DEF Over
        <5>4. Over(x, told) = Over(T, b)
          BY <5>2, <5>3 DEF Over
        <5> QED BY <1>1, <2>6, <5>1, <5>4
      <4>7. CASE j = id
        BY <2>7, <3>4, <4>5, <4>6, <4>7, SettledTold
      <4>8. CASE j /= id
        <5>1. DOMAIN task'.staged[j].fees = {}
          BY <2>7, <4>2, <4>8
        <5> QED BY <5>1 DEF FairTold
      <4> QED BY <4>7, <4>8
    <3> QED BY <3>5, <3>6
  <2> QED BY <1>3, <2>8 DEF Fair
<1> QED BY <1>4, <1>5

LEMMA EmptyIsFair == IsFair(EmptyRow) /\ DOMAIN EmptyRow.fees = {}
<1>1. /\ EmptyRow.emitted = 0 /\ EmptyRow.unmatched = 0 /\ EmptyRow.seen = {} /\ EmptyRow.queue = <<>>
      /\ EmptyRow.matches = [t \in Trades |-> <<>>] /\ EmptyRow.fees = <<>>
  BY DEF EmptyRow
<1>2. DOMAIN <<>> = {}
  OBVIOUS
<1>3. IsVoid(EmptyRow)
  BY <1>1, <1>2 DEF IsVoid
<1> QED BY <1>1, <1>2, <1>3, VoidIsFair

\* The row the alias joins is the only one with fills, and keeps them.
LEMMA LinkFair ==
    ASSUME IsStep, Books, Fair, Link
    PROVE  Fair'
<1> DEFINE a   == rows["order"]
           b   == rows["child"]
           row == Merged(a, b)
           cut == {f \in DOMAIN row.fees : \E id \in Ids :
                      f \in DOMAIN rows[id].fees /\ row.fees[f].lots < rows[id].fees[f].lots}
<1>1. task' = task /\ UNCHANGED <<told, split>>
  BY DEF Link
<1>2. CASE rows' = rows /\ skewed' = skewed
  BY <1>1, <1>2, SameFair
<1>3. CASE /\ rows' = [rows EXCEPT !["order"] = row, !["child"] = EmptyRow]
           /\ skewed' = (skewed \/ cut /= {})
  <2>1. /\ DOMAIN rows = Ids /\ executed \in Nat
        /\ IsRow(a, executed) /\ IsRow(b, executed) /\ IsFilled(a) /\ IsFilled(b)
        /\ IsBooked(a) /\ IsBooked(b)
    BY DEF IsStep, Inv, IsAccount, IsPair, Knows, RowsKnow, Ids, Books
  <2>2. rows'["order"] = row /\ rows'["child"] = EmptyRow
    BY <1>3, <2>1 DEF Ids
  <2>3. FairCopy'
    BY <1>1, <1>3 DEF Fair, FairCopy
  <2>4. FairRows'
    <3>1. SUFFICES ASSUME ~split', ~skewed'
                   PROVE  \A id \in Ids : IsFair(rows'[id]) /\ FairTold(rows'[id], told')
      BY DEF FairRows
    <3>2. ~split /\ ~skewed /\ cut = {}
      BY <1>1, <1>3, <3>1
    <3>3. IsFair(a) /\ IsFair(b) /\ FairTold(a, told) /\ FairTold(b, told)
      BY <3>2 DEF Fair, FairRows, Ids
    <3>4. /\ Exact(a, executed) /\ Exact(b, executed) /\ (a.emitted = 0 \/ b.emitted = 0)
      BY <3>2 DEF IsStep, Inv, IsAccount, ExactPair, InOneRow
    <3> HIDE DEF row
    <3>5. \A f \in DOMAIN row.fees :
             /\ f \in DOMAIN a.fees => ~(row.fees[f].lots < a.fees[f].lots)
             /\ f \in DOMAIN b.fees => ~(row.fees[f].lots < b.fees[f].lots)
      BY <3>2 DEF Ids
    <3> HIDE DEF a, b
    <3>6. PICK base : /\ (base = b /\ IsVoid(a)) \/ (base = a /\ IsVoid(b))
                      /\ IsFair(base) /\ FairTold(base, told)
                      /\ \A f \in DOMAIN row.fees \cap DOMAIN base.fees :
                            ~(row.fees[f].lots < base.fees[f].lots)
      <4>1. IsVoid(a) \/ IsVoid(b)
        BY <2>1, <3>4, RowIsVoid
      <4>2. CASE IsVoid(a)
        <5>1. \A f \in DOMAIN row.fees \cap DOMAIN b.fees : ~(row.fees[f].lots < b.fees[f].lots)
          BY <3>5
        <5>2. b = b /\ IsVoid(a) /\ IsFair(b) /\ FairTold(b, told)
          BY <3>3, <4>2
        <5> WITNESS b
        <5> QED BY ONLY <5>1, <5>2
      <4>3. CASE IsVoid(b)
        <5>1. \A f \in DOMAIN row.fees \cap DOMAIN a.fees : ~(row.fees[f].lots < a.fees[f].lots)
          BY <3>5
        <5>2. a = a /\ IsVoid(b) /\ IsFair(a) /\ FairTold(a, told)
          BY <3>3, <4>3
        <5> WITNESS a
        <5> QED BY ONLY <5>1, <5>2
      <4> QED BY <4>1, <4>2, <4>3
    <3>7. row = Merged(a, b)
      BY DEF row
    <3>8. IsFair(row) /\ Extends(row.fees, base.fees) /\ DOMAIN row.fees = DOMAIN base.fees
      BY ONLY <2>1, <3>6, <3>7, MergedFair
    <3>9. FairTold(row, told)
      BY <3>6, <3>8 DEF FairTold, Extends
    <3>10. IsFair(EmptyRow) /\ FairTold(EmptyRow, told)
      BY EmptyIsFair DEF FairTold
    <3> QED BY <1>1, <2>2, <3>8, <3>9, <3>10 DEF Ids
  <2> QED BY <2>3, <2>4 DEF Fair
<1> QED BY <1>2, <1>3 DEF Link

LEMMA InitFair ==
    ASSUME InitWhen(FALSE)
    PROVE  Fair
<1>1. rows = [id \in Ids |-> EmptyRow] /\ task = Idle
  BY DEF InitWhen
<1>2. \A id \in Ids : rows[id] = EmptyRow
  BY <1>1
<1>3. task.at /= "staging"
  BY <1>1 DEF Idle
<1> QED BY <1>2, <1>3, EmptyIsFair DEF Fair, FairRows, FairCopy, FairTold

LEMMA NextFair ==
    ASSUME Proportional, IsStep, Books, Fair, Next
    PROVE  Fair'
<1>1. CASE StateStep
  <2>1. ASSUME NEW source, NEW id, NEW k, NEW given, StateResolved(source, id, k, given)
        PROVE  Fair'
    <3>1. UNCHANGED <<rows, told, split, skewed>> /\ task'.at = "resolved"
      BY <2>1 DEF StateResolved
    <3> QED BY <3>1, SameFair
  <2>2. ASSUME StateRegressed PROVE Fair'
    <3>1. UNCHANGED <<rows, told, split, skewed>> /\ task'.at = "idle"
      BY <2>2, CopyIdle DEF StateRegressed
    <3> QED BY <3>1, SameFair
  <2>3. ASSUME StateStaged PROVE Fair'
    <3>1. /\ UNCHANGED <<rows, told, split, skewed>>
          /\ task' = [task EXCEPT !.at = "publishing"] /\ task.at = "resolved"
      BY <2>3 DEF StateStaged
    <3>2. "at" \in DOMAIN task
      BY <3>1, Projecting DEF IsProjecting, IsStep
    <3>3. task'.at = "publishing"
      BY <3>1, <3>2
    <3> QED BY <3>1, <3>3, SameFair
  <2> QED BY <1>1, <2>1, <2>2, <2>3, StateIgnoredFair, StatePublishedFair DEF StateStep
<1>2. CASE TradeStep
  <2>1. ASSUME NEW id, NEW t, TradeKeyed(id, t) PROVE Fair'
    <3>1. UNCHANGED <<rows, told, split, skewed>> /\ task'.at = "keyed"
      BY <2>1 DEF TradeKeyed
    <3> QED BY <3>1, SameFair
  <2> QED BY <1>2, <2>1, TradePublishedFair DEF TradeStep
<1>3. CASE SnapshotStep
  BY <1>3, SnapshotTakenFair, SnapshotStagesFair, ProvenanceToldFair, SnapshotStoredFair
  DEF SnapshotStep
<1>4. CASE LinkStep
  <2>1. ASSUME NEW held, LinkHolding(held) PROVE Fair'
    BY <2>1, SameFair DEF LinkHolding
  <2> QED BY <1>4, <2>1, LinkFair DEF LinkStep
<1>5. CASE Execute
  BY <1>5, SameFair DEF Execute
<1> QED BY <1>1, <1>2, <1>3, <1>4, <1>5 DEF Next

\* Once every executed lot was sent, the commissions told are due for all of them.
LEMMA FairAddsUp ==
    ASSUME Proportional, Inv, Knows, Books, Fair
    PROVE  FeesAddUp
<1> DEFINE fills == UNION {DOMAIN rows[id].fees : id \in Ids}
           amounts == [f \in fills |-> told[f].amount]
<1>1. SUFFICES ASSUME ~split, ~skewed, published = Lots[Upto(executed)],
                      \A f \in fills : f \in DOMAIN told /\ Known(told[f])
               PROVE  SumFunction(amounts) = Fee[Upto(executed)]
  BY DEF FeesAddUp
<1>2. PICK e \in Nat : e = executed
  BY DEF Inv
<1>3. \A id \in Ids : /\ IsRow(rows[id], e) /\ Exact(rows[id], e) /\ IsFilled(rows[id]) /\ IsBooked(rows[id])
                      /\ IsFair(rows[id]) /\ FairTold(rows[id], told)
  BY <1>1, <1>2 DEF Inv, IsAccount, IsPair, ExactPair, Ids, Knows, RowsKnow, Books, Fair, FairRows
<1>4. PICK id \in Ids : \A other \in Ids \ {id} : rows[other].emitted = 0
  BY <1>1 DEF Inv, IsAccount, InOneRow, Ids
<1>5. \A other \in Ids \ {id} : DOMAIN rows[other].fees = {}
  BY <1>3, <1>4, RowIsVoid DEF IsVoid
<1>6. fills = DOMAIN rows[id].fees
  BY <1>5
<1>7. rows[id].emitted = published
  <2>1. PICK i \in Nat, j \in Nat : i = rows["order"].emitted /\ j = rows["child"].emitted
    BY <1>3 DEF IsRow, Ids
  <2>2. i + j = published
    BY <1>1, <2>1 DEF Inv, IsAccount, ExactPair
  <2>3. (id = "order" /\ j = 0) \/ (id = "child" /\ i = 0)
    BY <1>4, <2>1 DEF Ids
  <2> QED BY <2>1, <2>2, <2>3
<1>8. PICK r : r = rows[id]
  OBVIOUS
<1>9. /\ AreCovered(r.fees) /\ IsFiniteSet(fills) /\ fills = DOMAIN r.fees
      /\ SumFunction(LotsTracked(r.fees)) = published /\ FairTold(r, told)
  BY <1>3, <1>6, <1>7, <1>8 DEF IsBooked, IsFair, IsWeighed
<1> HIDE DEF fills, Known
<1>10. PICK l : l = LotsTracked(r.fees)
  OBVIOUS
<1>11. l \in [fills -> Int] /\ \A f \in fills : l[f] = r.fees[f].lots
  BY <1>9, <1>10, LotsOfFills
<1>12. \A f \in fills : amounts[f] = Due(l[f]) /\ Due(l[f]) \in Int
  <2>1. SUFFICES ASSUME NEW f \in fills PROVE amounts[f] = Due(l[f]) /\ Due(l[f]) \in Int
    OBVIOUS
  <2>2. told[f].amount = Due(r.fees[f].lots)
    BY <1>1, <1>9 DEF FairTold
  <2>3. PICK m \in Int : m = l[f]
    BY <1>11
  <2>4. Due(m) \in Int
    BY DueIsLinear
  <2> QED BY <1>11, <2>2, <2>3, <2>4
<1>13. amounts \in [fills -> Int]
  BY <1>12
<1> HIDE DEF amounts
<1>14. SumFunction(amounts) = Due(SumFunction(l))
  BY ONLY Proportional, <1>9, <1>11, <1>12, <1>13, SumOfDue
<1>15. Fee[Upto(executed)] = Due(Lots[Upto(executed)])
  BY FeesAreDue DEF Upto
<1> QED BY <1>1, <1>9, <1>10, <1>14, <1>15

\* The rows stay fair.
LEMMA StaysFair ==
    ASSUME Proportional
    PROVE  Spec => [](Inv /\ Knows /\ Books /\ Fair)
<1>1. Init => Knows /\ Books /\ Fair
  BY InitKnows, InitBooks, InitFair DEF Init
<1>2. (Inv /\ IsMapped) /\ (Inv /\ IsMapped)' /\ Knows /\ Books /\ Fair /\ [Next]_vars
        => Knows' /\ Books' /\ Fair'
  <2>1. SUFFICES ASSUME Inv /\ IsMapped, (Inv /\ IsMapped)', Knows, Books, Fair, [Next]_vars
                 PROVE  Knows' /\ Books' /\ Fair'
    OBVIOUS
  <2>2. CASE Next
    BY <2>1, <2>2, NextKnows, NextBooks, NextFair DEF IsStep
  <2>3. CASE UNCHANGED vars
    <3>1. UNCHANGED <<rows, told, split, skewed, task>>
      BY <2>3 DEF vars
    <3> QED BY <2>1, <2>3, <3>1, StutterKnows, SameBooks, SameFair
  <2> QED BY <2>1, <2>2, <2>3
<1> QED BY <1>1, <1>2, FillInvariant, PTL DEF Spec

\* The commissions add up for every number and size of executions, where the
\* broker charges in proportion to the lots: whichever of streams, queries,
\* submit answers, snapshots, reports and the alias split a commission, refine
\* it or move it, the host has been told the broker's commission, to the last
\* unit, once each fill's is known.
THEOREM CommissionsAddUp ==
    ASSUME Proportional
    PROVE  Spec => []FeesAddUp
<1>1. Spec => [](Inv /\ Knows /\ Books /\ Fair)
  BY StaysFair
<1>2. Inv /\ Knows /\ Books /\ Fair => FeesAddUp
  BY FairAddsUp
<1> QED BY <1>1, <1>2, PTL

\* No lot is paid for twice, for every number and size of executions, where the
\* broker charges in proportion to the lots: while no merge has cut a fill, the
\* commissions of the trades matched with a fill cover at most its lots
\* (update_duplicate_fill_provenance, project_trade_fill_report_locked).
THEOREM CommissionsFit ==
    ASSUME Proportional
    PROVE  Spec => []CommissionFitsFill
<1>1. Spec => [](Inv /\ Knows /\ Books /\ Fair)
  BY StaysFair
<1>2. Inv /\ Knows /\ Books /\ Fair => CommissionFitsFill
  <2>1. SUFFICES ASSUME Fair, ~split, ~skewed
                 PROVE  \A id \in Ids : \A f \in DOMAIN rows[id].fees :
                            rows[id].fees[f].resolved <= rows[id].fees[f].lots
    BY DEF CommissionFitsFill
  <2>2. \A id \in Ids : AreDue(rows[id].fees, {})
    BY <2>1 DEF Fair, FairRows, IsFair
  <2> QED BY <2>2 DEF AreDue, IsDue
<1> QED BY <1>1, <1>2, PTL
=============================================================================
