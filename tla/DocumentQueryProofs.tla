------------------------ MODULE DocumentQueryProofs ------------------------
(***************************************************************************)
(* Proofs about DocumentQuery, for any number of queries and audits and    *)
(* any MaxAttempts: an answered query is on record once, its number and    *)
(* its place in an audit follow those of its client's earlier queries.     *)
(***************************************************************************)
EXTENDS DocumentQuery, FiniteSetTheorems, SequenceTheorems, TLAPS

Mine(q) == RowsOf(rows, q)

\* The row that query q leaves.
RowOf(q) == [stage |-> "CUSTOM_QUERY", number |-> ask[q].number,
             errors |-> IF ask[q].parsed THEN "null" ELSE "list",
             at |-> ask[q].at, by |-> q]

Unrecorded == {"idle", "check", "refused", "first", "retry", "count", "insert"}

\* What a query has done by each step.
AskOK(q) ==
    /\ ask[q].at <= now
    /\ ask[q].pc \in {"idle", "check", "refused", "first"} => ask[q].calls = 0
    /\ ask[q].pc = "retry" => ask[q].calls = 1
    /\ ask[q].pc \in Unrecorded \ {"insert"} => ask[q].number = 0
    /\ ask[q].pc = "insert" => ask[q].number \in 1 .. Prior + 1
    /\ ask[q].pc \in Unrecorded => Mine(q) = {}
    /\ ask[q].pc \in {"committed", "answered"} => Mine(q) # {}
    /\ ask[q].pc = "answered" => ask[q].at <= ask[q].end /\ ask[q].end <= now

\* Numbers are at most the count of the rows, and each row is its query's only
\* one.
RowsOK ==
    /\ \A i \in DOMAIN rows : rows[i].stage = "CUSTOM_QUERY" => rows[i].number <= Prior
    /\ \A i \in DOMAIN rows : rows[i].by # Nobody => rows[i] = RowOf(rows[i].by)
    /\ \A i, k \in DOMAIN rows : rows[i].by # Nobody /\ rows[i].by = rows[k].by => i = k

\* What an audit lists is sorted by dates, those of the queries in it, and has
\* every query that was answered before the audit was asked for.
ListOK(r) ==
    /\ \A i, k \in DOMAIN view[r].list : i < k => view[r].list[i].at <= view[r].list[k].at
    /\ \A i \in DOMAIN view[r].list : view[r].list[i].by # Nobody =>
          LET q == view[r].list[i].by IN ask[q].pc # "idle" /\ view[r].list[i].at = ask[q].at
    /\ \A q \in Queries : ask[q].pc = "answered" /\ ask[q].end < view[r].at
                            => RowsOf(view[r].list, q) # {}

ViewOK(r) == view[r].at <= now /\ (view[r].pc = "listed" => ListOK(r))

TrailInv ==
    /\ TypeOK
    /\ RowsOK
    /\ \A q \in Queries : AskOK(q)
    /\ NumbersFollowClient
    /\ \A r \in Readers : ViewOK(r)
-----------------------------------------------------------------------------

LEMMA PriorNat ==
    ASSUME rows \in Seq(Row)
    PROVE  IsFiniteSet(QueryRows) /\ Prior \in Nat
<1>1. DOMAIN rows = 1 .. Len(rows) /\ Len(rows) \in Nat
  OBVIOUS
<1>2. QueryRows \in SUBSET (1 .. Len(rows)) /\ IsFiniteSet(1 .. Len(rows))
  BY <1>1, FS_Interval DEF QueryRows
<1>3. IsFiniteSet(QueryRows)
  BY <1>2, FS_Subset
<1> QED
  BY <1>3, FS_CardinalityType DEF Prior

LEMMA Authors ==
    ASSUME NEW s \in Seq(Row), NEW i \in DOMAIN s
    PROVE  s[i] \in Row /\ s[i].by \in Queries \cup {Nobody} /\ s[i].at \in Nat
<1>1. s[i] \in Row
  OBVIOUS
<1> QED
  BY <1>1 DEF Row

LEMMA TrailInit == Init => TrailInv
<1> SUFFICES ASSUME Init
             PROVE  TrailInv
  OBVIOUS
<1>1. TypeOK
  BY DEF Init, TypeOK, Ask, View
<1>2. \A q \in Queries : AskOK(q)
  BY DEF Init, AskOK, Mine, RowsOf, Unrecorded
<1>3. RowsOK /\ NumbersFollowClient /\ \A r \in Readers : ViewOK(r)
  BY DEF Init, RowsOK, NumbersFollowClient, Before, ViewOK
<1> QED
  BY <1>1, <1>2, <1>3 DEF TrailInv

\* The row of an answered query has a number that was counted.
LEMMA NumberCounted ==
    ASSUME TrailInv, NEW q \in Queries, ask[q].pc \in {"committed", "answered"}
    PROVE  \E i \in DOMAIN rows : /\ rows[i] = RowOf(q) /\ Mine(q) = {i}
                                  /\ ask[q].number <= Prior
<1>1. Mine(q) # {} /\ q # Nobody
  BY QueryAssumption DEF TrailInv, AskOK
<1>2. PICK i \in DOMAIN rows : rows[i].by = q
  BY <1>1 DEF Mine, RowsOf
<1>3. rows[i] = RowOf(q) /\ Mine(q) = {i}
  BY <1>1, <1>2 DEF TrailInv, RowsOK, Mine, RowsOf
<1>4. rows[i].stage = "CUSTOM_QUERY" /\ rows[i].number = ask[q].number
  BY <1>3 DEF RowOf
<1> QED
  BY <1>3, <1>4 DEF TrailInv, RowsOK

\* A step of query q that leaves the rows alone.
LEMMA QueryFrame ==
    ASSUME TrailInv, NEW q \in Queries,
           ask' \in [Queries -> Ask], \A o \in Queries \ {q} : ask'[o] = ask[o],
           UNCHANGED <<phase, text, rows, view>>, now' \in Nat, now <= now',
           ask[q].pc # "answered", ask'[q].pc # "idle",
           AskOK(q)',
           ask[q].pc # "idle" => ask'[q].at = ask[q].at,
           Mine(q) # {} => ask'[q].number = ask[q].number /\ ask'[q].parsed = ask[q].parsed,
           ask[q].pc = "idle" => ask'[q].number = 0,
           ask'[q].number = ask[q].number \/ ask'[q].number = Prior + 1,
           ask'[q].pc = "answered" => ask'[q].end = now
    PROVE  TrailInv'
<1>1. TypeOK'
  BY DEF TrailInv, TypeOK
<1>2. /\ now \in Nat /\ rows \in Seq(Row) /\ ask \in [Queries -> Ask] /\ view \in [Readers -> View]
      /\ Prior' = Prior /\ \A o \in Queries : Mine(o)' = Mine(o)
  BY DEF TrailInv, TypeOK, Prior, QueryRows, Mine, RowsOf
<1>3. ASSUME NEW o \in Queries
      PROVE  AskOK(o)'
  <2>1. CASE o # q
    <3>1. AskOK(o) /\ ask'[o] = ask[o] /\ Mine(o)' = Mine(o)
      BY <1>2, <2>1 DEF TrailInv
    <3>2. ask[o].at \in Nat /\ ask[o].end \in Nat
      BY <1>2 DEF Ask
    <3>3. ask[o].at <= now' /\ (ask[o].pc = "answered" => ask[o].end <= now')
      BY <1>2, <3>1, <3>2 DEF AskOK
    <3> QED
      BY <1>2, <3>1, <3>3 DEF AskOK
  <2> QED
    BY <2>1
<1>4. RowsOK'
  <2>1. \A i \in DOMAIN rows : rows[i].by # Nobody => rows[i].by \in Queries
    BY <1>2, Authors
  <2>2. ASSUME NEW i \in DOMAIN rows, rows[i].by # Nobody
        PROVE  rows[i] = RowOf(rows[i].by)'
    <3>1. CASE rows[i].by # q
      BY <2>1, <2>2, <3>1 DEF TrailInv, RowsOK, RowOf
    <3>2. CASE rows[i].by = q
      <4>1. Mine(q) # {} /\ rows[i] = RowOf(q)
        BY <2>2, <3>2 DEF Mine, RowsOf, TrailInv, RowsOK
      <4>2. ask[q].pc # "idle"
        BY <4>1 DEF TrailInv, AskOK, Unrecorded
      <4> QED
        BY <3>2, <4>1, <4>2 DEF RowOf
    <3> QED
      BY <3>1, <3>2
  <2> QED
    BY <1>2, <2>2 DEF TrailInv, RowsOK
<1>5. ASSUME NEW a \in Queries, NEW b \in Queries, Before(a, b)', ask'[b].number # 0
      PROVE  ask'[a].number < ask'[b].number
  <2>1. a # q
    <3>1. SUFFICES ASSUME a = q
                   PROVE  FALSE
      OBVIOUS
    <3>2. ask'[q].end = now /\ now < ask'[b].at
      BY <1>5, <3>1 DEF Before
    <3>3. b # q => ask[b].at <= now
      BY DEF TrailInv, AskOK
    <3>4. ask'[q].at <= ask'[q].end
      BY <1>5, <3>1 DEF Before, AskOK
    <3> QED
      BY <1>1, <3>2, <3>3, <3>4 DEF TypeOK, Ask
  <2>2. ask[a].pc = "answered" /\ ask'[a] = ask[a] /\ ask[a].end < ask'[b].at
    BY <1>5, <2>1 DEF Before
  <2>3. CASE b # q
    BY <1>5, <2>2, <2>3 DEF Before, TrailInv, NumbersFollowClient
  <2>4. CASE b = q
    <3>1. ask[q].pc # "idle" /\ Before(a, b)
      BY <1>5, <2>2, <2>4 DEF Before
    <3>2. CASE ask'[q].number = ask[q].number
      BY <1>5, <2>2, <2>4, <3>1, <3>2 DEF TrailInv, NumbersFollowClient
    <3>3. CASE ask'[q].number = Prior + 1
      <4>1. ask[a].number <= Prior /\ ask[a].number \in Nat /\ Prior \in Nat
        BY <1>2, <2>2, NumberCounted, PriorNat DEF Ask
      <4> QED
        BY <2>2, <2>4, <3>3, <4>1
    <3> QED
      BY <3>2, <3>3
  <2> QED
    BY <2>3, <2>4
<1>6. ASSUME NEW r \in Readers
      PROVE  ViewOK(r)'
  <2>1. view'[r].at <= now'
    <3>1. view[r].at <= now /\ view[r].at \in Nat
      BY <1>2 DEF TrailInv, ViewOK, View
    <3> QED
      BY <1>2, <3>1
  <2>2. ASSUME view[r].pc = "listed"
        PROVE  ListOK(r)'
    <3>1. ListOK(r) /\ view[r].at <= now /\ view[r].at \in Nat /\ view[r].list \in Seq(Row)
      BY <1>2, <2>2 DEF TrailInv, ViewOK, View
    <3>2. \A i \in DOMAIN view[r].list : view[r].list[i].by # Nobody =>
             LET o == view[r].list[i].by
             IN  ask'[o].pc # "idle" /\ view[r].list[i].at = ask'[o].at
      <4>1. \A i \in DOMAIN view[r].list : view[r].list[i].by \in Queries \cup {Nobody}
        BY <3>1, Authors
      <4> QED
        BY <3>1, <4>1 DEF ListOK
    <3>3. ASSUME NEW o \in Queries, ask'[o].pc = "answered", ask'[o].end < view[r].at
          PROVE  RowsOf(view[r].list, o) # {}
      <4>1. o # q
        BY <1>2, <3>1, <3>3
      <4> QED
        BY <3>1, <3>3, <4>1 DEF ListOK
    <3> QED
      BY <3>1, <3>2, <3>3 DEF ListOK
  <2> QED
    BY <2>1, <2>2 DEF ViewOK
<1> QED
  BY <1>1, <1>3, <1>4, <1>5, <1>6 DEF TrailInv, NumbersFollowClient

LEMMA QueryTrail ==
    ASSUME TrailInv, NEW q \in Queries,
           Begin(q) \/ CheckText(q) \/ Complete(q) \/ CompleteRaises(q) \/ CountPrior(q)
           \/ Answer(q) \/ FailQuery(q)
    PROVE  TrailInv'
<1>1. /\ now \in Nat /\ rows \in Seq(Row) /\ ask \in [Queries -> Ask] /\ ask[q] \in Ask
      /\ AskOK(q) /\ Prior \in Nat
  BY PriorNat DEF TrailInv, TypeOK
<1>2. UNCHANGED <<phase, text, rows, view>> /\ Prior' = Prior /\ Mine(q)' = Mine(q)
  BY DEF Begin, CheckText, Complete, CompleteRaises, CountPrior, Answer, FailQuery,
         Prior, QueryRows, Mine, RowsOf
<1>3. \A o \in Queries \ {q} : ask'[o] = ask[o]
  BY <1>1 DEF Begin, CheckText, Complete, CompleteRaises, CountPrior, Answer, FailQuery
<1>4. /\ ask[q].at \in Nat /\ ask[q].calls \in 0 .. 2 /\ ask[q].parsed \in BOOLEAN
      /\ ask[q].number \in Nat /\ ask[q].end \in Nat
  BY <1>1 DEF Ask
<1>5. CASE Begin(q)
  <2>1. /\ ask[q].pc = "idle" /\ now' = now + 1
        /\ ask' = [ask EXCEPT ![q].pc = "check", ![q].at = now + 1]
    BY <1>5 DEF Begin
  <2>2. ask' \in [Queries -> Ask] /\ ask'[q].pc = "check" /\ ask'[q].at = now'
        /\ ask'[q].calls = ask[q].calls /\ ask'[q].number = ask[q].number
    <3>1. now + 1 \in Nat
      BY <1>1
    <3>2. /\ ask'[q] = [ask[q] EXCEPT !.pc = "check", !.at = now + 1]
          /\ ask' = [ask EXCEPT ![q] = [ask[q] EXCEPT !.pc = "check", !.at = now + 1]]
      BY <1>1, <2>1
    <3>3. [ask[q] EXCEPT !.pc = "check", !.at = now + 1] \in Ask
      BY <1>1, <3>1 DEF Ask
    <3> QED
      BY <1>1, <2>1, <3>2, <3>3 DEF Ask
  <2>3. ask[q].calls = 0 /\ ask[q].number = 0 /\ Mine(q) = {}
    BY <1>1, <2>1 DEF AskOK, Unrecorded
  <2>4. AskOK(q)'
    BY <1>1, <1>2, <2>1, <2>2, <2>3 DEF AskOK
  <2> QED
    BY <1>1, <1>2, <1>3, <2>1, <2>2, <2>3, <2>4, QueryFrame
<1>6. CASE CheckText(q)
  <2>1. /\ ask[q].pc = "check" /\ now' = now
        /\ ask' = [ask EXCEPT ![q].pc = IF text = "text" THEN "first" ELSE "refused"]
    BY <1>6 DEF CheckText
  <2>2. /\ ask' \in [Queries -> Ask] /\ ask'[q].pc \in {"first", "refused"}
        /\ ask'[q].at = ask[q].at /\ ask'[q].parsed = ask[q].parsed
        /\ ask'[q].calls = ask[q].calls /\ ask'[q].number = ask[q].number
    BY <1>1, <2>1 DEF Ask
  <2>3. ask[q].calls = 0 /\ ask[q].number = 0 /\ Mine(q) = {}
    BY <1>1, <2>1 DEF AskOK, Unrecorded
  <2>4. AskOK(q)'
    BY <1>1, <1>2, <2>1, <2>2, <2>3 DEF AskOK
  <2> QED
    BY <1>1, <1>2, <1>3, <2>1, <2>2, <2>3, <2>4, QueryFrame
<1>7. CASE Complete(q)
  <2>1. ask[q].pc \in {"first", "retry"} /\ now' = now
    BY <1>7 DEF Complete
  <2>2. PICK ok \in BOOLEAN :
          ask' = [ask EXCEPT ![q].calls = @ + 1, ![q].parsed = ok,
                             ![q].pc = IF ok \/ @ = "retry" THEN "count" ELSE "retry"]
    BY <1>7 DEF Complete
  <2>3. ask[q].calls \in {0, 1} /\ ask[q].number = 0 /\ Mine(q) = {}
        /\ (ask[q].pc = "first" => ask[q].calls = 0)
    BY <1>1, <2>1 DEF AskOK, Unrecorded
  <2>4. /\ ask' \in [Queries -> Ask] /\ ask'[q].pc \in {"count", "retry"}
        /\ (ask'[q].pc = "retry" => ask[q].pc = "first")
        /\ ask'[q].at = ask[q].at /\ ask'[q].calls = ask[q].calls + 1
        /\ ask'[q].number = ask[q].number
    BY <1>1, <1>4, <2>1, <2>2, <2>3 DEF Ask
  <2>5. AskOK(q)'
    BY <1>1, <1>2, <2>1, <2>3, <2>4 DEF AskOK
  <2> QED
    BY <1>1, <1>2, <1>3, <2>1, <2>3, <2>4, <2>5, QueryFrame
<1>8. CASE CompleteRaises(q)
  <2>1. /\ ask[q].pc \in {"first", "retry"} /\ now' = now
        /\ ask' = [ask EXCEPT ![q].calls = @ + 1, ![q].pc = "error"]
    BY <1>8 DEF CompleteRaises
  <2>2. ask[q].calls \in {0, 1} /\ ask[q].number = 0 /\ Mine(q) = {}
    BY <1>1, <2>1 DEF AskOK, Unrecorded
  <2>3. /\ ask' \in [Queries -> Ask] /\ ask'[q].pc = "error"
        /\ ask'[q].at = ask[q].at /\ ask'[q].number = ask[q].number
    <3>1. ask[q].calls + 1 \in 0 .. 2
      BY <2>2
    <3>2. /\ ask'[q] = [ask[q] EXCEPT !.calls = @ + 1, !.pc = "error"]
          /\ ask' = [ask EXCEPT ![q] = [ask[q] EXCEPT !.calls = @ + 1, !.pc = "error"]]
      BY <1>1, <2>1
    <3>3. [ask[q] EXCEPT !.calls = @ + 1, !.pc = "error"] \in Ask
      BY <1>1, <3>1 DEF Ask
    <3> QED
      BY <1>1, <3>2, <3>3 DEF Ask
  <2>4. AskOK(q)'
    BY <1>1, <1>2, <2>1, <2>3 DEF AskOK, Unrecorded
  <2> QED
    BY <1>1, <1>2, <1>3, <2>1, <2>2, <2>3, <2>4, QueryFrame
<1>9. CASE CountPrior(q)
  <2>1. /\ ask[q].pc = "count" /\ now' = now
        /\ ask' = [ask EXCEPT ![q].number = Prior + 1, ![q].pc = "insert"]
    BY <1>9 DEF CountPrior
  <2>2. ask[q].number = 0 /\ Mine(q) = {}
    BY <1>1, <2>1 DEF AskOK, Unrecorded
  <2>3. /\ ask' \in [Queries -> Ask] /\ ask'[q].pc = "insert"
        /\ ask'[q].at = ask[q].at /\ ask'[q].number = Prior + 1
    BY <1>1, <2>1 DEF Ask
  <2>4. AskOK(q)'
    BY <1>1, <1>2, <2>1, <2>2, <2>3 DEF AskOK
  <2> QED
    BY <1>1, <1>2, <1>3, <2>1, <2>2, <2>3, <2>4, QueryFrame
<1>10. CASE Answer(q)
  <2>1. /\ ask[q].pc = "committed" /\ now' = now
        /\ ask' = [ask EXCEPT ![q].pc = "answered", ![q].end = now]
    BY <1>10 DEF Answer
  <2>2. /\ ask' \in [Queries -> Ask] /\ ask'[q].pc = "answered" /\ ask'[q].end = now
        /\ ask'[q].at = ask[q].at /\ ask'[q].number = ask[q].number
        /\ ask'[q].parsed = ask[q].parsed
    BY <1>1, <2>1 DEF Ask
  <2>3. AskOK(q)'
    BY <1>1, <1>2, <2>1, <2>2 DEF AskOK, Unrecorded
  <2> QED
    BY <1>1, <1>2, <1>3, <2>1, <2>2, <2>3, QueryFrame
<1>11. CASE FailQuery(q)
  <2>1. /\ ask[q].pc \in {"check", "first", "retry", "count", "insert", "committed"}
        /\ now' = now /\ ask' = [ask EXCEPT ![q].pc = "error"]
    BY <1>11 DEF FailQuery
  <2>2. /\ ask' \in [Queries -> Ask] /\ ask'[q].pc = "error"
        /\ ask'[q].at = ask[q].at /\ ask'[q].number = ask[q].number
        /\ ask'[q].parsed = ask[q].parsed
    BY <1>1, <2>1 DEF Ask
  <2>3. AskOK(q)'
    BY <1>1, <1>2, <2>1, <2>2 DEF AskOK, Unrecorded
  <2> QED
    BY <1>1, <1>2, <1>3, <2>1, <2>2, <2>3, QueryFrame
<1> QED
  BY <1>5, <1>6, <1>7, <1>8, <1>9, <1>10, <1>11

-----------------------------------------------------------------------------
(* The row of a query. *)

LEMMA InsertTrail ==
    ASSUME TrailInv, NEW q \in Queries, Insert(q)
    PROVE  TrailInv'
<1> DEFINE e == RowOf(q)
           n == Len(rows) + 1
<1>1. /\ now \in Nat /\ rows \in Seq(Row) /\ ask \in [Queries -> Ask] /\ ask[q] \in Ask
      /\ AskOK(q) /\ Prior \in Nat /\ IsFiniteSet(QueryRows) /\ Len(rows) \in Nat
      /\ DOMAIN rows = 1 .. Len(rows) /\ q # Nobody
  BY PriorNat, QueryAssumption DEF TrailInv, TypeOK
<1>2. /\ ask[q].pc = "insert" /\ rows' = Append(rows, e)
      /\ ask' = [ask EXCEPT ![q].pc = "committed"]
      /\ UNCHANGED <<now, phase, text, view>>
  BY DEF Insert, RowOf
<1>3. /\ ask' \in [Queries -> Ask] /\ ask'[q].pc = "committed"
      /\ ask'[q].at = ask[q].at /\ ask'[q].number = ask[q].number
      /\ ask'[q].parsed = ask[q].parsed
      /\ \A o \in Queries \ {q} : ask'[o] = ask[o]
  BY <1>1, <1>2 DEF Ask
<1>4. ask[q].number \in 1 .. Prior + 1 /\ Mine(q) = {} /\ ask[q].at <= now
  BY <1>1, <1>2 DEF AskOK, Unrecorded
<1>5. e \in Row /\ e.by = q /\ e.stage = "CUSTOM_QUERY" /\ e.number = ask[q].number
  BY <1>1, <1>4 DEF RowOf, Row, Ask
<1>6. \A o \in Queries : RowOf(o)' = RowOf(o)
  BY <1>3 DEF RowOf
<1> HIDE DEF e
<1>7. /\ rows' \in Seq(Row) /\ DOMAIN rows' = DOMAIN rows \cup {n} /\ n \notin DOMAIN rows
      /\ rows'[n] = e /\ \A i \in DOMAIN rows : rows'[i] = rows[i]
  BY <1>1, <1>2, <1>5
<1> HIDE DEF n
<1>8. Prior' = Prior + 1
  <2>1. QueryRows' = QueryRows \cup {n} /\ n \notin QueryRows
    BY <1>5, <1>7 DEF QueryRows
  <2> QED
    BY <1>1, <2>1, FS_AddElement DEF Prior
<1>9. Mine(q)' = {n} /\ \A o \in Queries \ {q} : Mine(o)' = Mine(o)
  BY <1>4, <1>5, <1>7 DEF Mine, RowsOf
<1>10. TypeOK'
  BY <1>2, <1>3, <1>7 DEF TrailInv, TypeOK
<1>11. ASSUME NEW o \in Queries
       PROVE  AskOK(o)'
  <2>1. CASE o = q
    BY <1>2, <1>3, <1>4, <1>9, <2>1 DEF AskOK, Unrecorded
  <2>2. CASE o # q
    <3>1. AskOK(o) /\ ask'[o] = ask[o] /\ Mine(o)' = Mine(o) /\ ask[o].number \in Nat
      BY <1>1, <1>3, <1>9, <2>2 DEF TrailInv, Ask
    <3>2. ask[o].pc = "insert" => ask[o].number \in 1 .. Prior' + 1
      BY <1>1, <1>8, <3>1 DEF AskOK
    <3> QED
      BY <1>2, <3>1, <3>2 DEF AskOK
  <2> QED
    BY <2>1, <2>2
<1>12. RowsOK'
  <2>1. ASSUME NEW i \in DOMAIN rows', rows'[i].stage = "CUSTOM_QUERY"
        PROVE  rows'[i].number <= Prior'
    <3>1. CASE i = n
      BY <1>1, <1>4, <1>5, <1>7, <1>8, <3>1
    <3>2. CASE i \in DOMAIN rows
      <4>1. rows[i].number <= Prior /\ rows[i] \in Row
        BY <1>1, <1>7, <2>1, <3>2, Authors DEF TrailInv, RowsOK
      <4> QED
        BY <1>1, <1>7, <1>8, <3>2, <4>1 DEF Row
    <3> QED
      BY <1>7, <3>1, <3>2
  <2>2. ASSUME NEW i \in DOMAIN rows', NEW o \in Queries, rows'[i].by = o
        PROVE  rows'[i] = RowOf(o)'
    <3>1. CASE i = n
      BY <1>5, <1>6, <1>7, <2>2, <3>1 DEF e
    <3>2. CASE i \in DOMAIN rows
      <4>1. rows[i] = RowOf(o) /\ rows'[i] = rows[i]
        BY <1>1, <1>7, <2>2, <3>2, QueryAssumption DEF TrailInv, RowsOK
      <4> QED
        BY <1>6, <4>1
    <3> QED
      BY <1>7, <3>1, <3>2
  <2>3. \A i, k \in DOMAIN rows' :
           rows'[i].by # Nobody /\ rows'[i].by = rows'[k].by => i = k
    <3>1. \A i \in DOMAIN rows : rows[i].by # q
      BY <1>4 DEF Mine, RowsOf
    <3> QED
      BY <1>5, <1>7, <3>1 DEF TrailInv, RowsOK
  <2>4. \A i \in DOMAIN rows' : rows'[i].by # Nobody => rows'[i].by \in Queries
    BY <1>7, Authors
  <2>5. \A i \in DOMAIN rows' : rows'[i].by # Nobody => (rows[i] = RowOf(rows[i].by))'
    BY <2>2, <2>4 DEF RowOf
  <2> QED
    BY <2>1, <2>3, <2>5 DEF RowsOK
<1>13. NumbersFollowClient'
  BY <1>2, <1>3 DEF TrailInv, NumbersFollowClient, Before
<1>14. ASSUME NEW r \in Readers
       PROVE  ViewOK(r)'
  <2>1. ViewOK(r) /\ view[r].list \in Seq(Row)
    BY DEF TrailInv, TypeOK, View
  <2>2. \A i \in DOMAIN view[r].list : view[r].list[i].by \in Queries \cup {Nobody}
    BY <2>1, Authors
  <2>3. \A o \in Queries : ask'[o].at = ask[o].at
          /\ (ask'[o].pc = "idle" => ask[o].pc = "idle")
          /\ (ask'[o].pc = "answered" => ask[o].pc = "answered" /\ ask'[o].end = ask[o].end)
    BY <1>3
  <2>4. ListOK(r) => ListOK(r)'
    BY <1>2, <2>2, <2>3 DEF ListOK
  <2> QED
    BY <1>2, <2>1, <2>4 DEF ViewOK
<1> QED
  BY <1>10, <1>11, <1>12, <1>13, <1>14 DEF TrailInv

-----------------------------------------------------------------------------
(* The rows of the worker. *)

LEMMA WorkerTrail ==
    ASSUME TrailInv, Worker
    PROVE  TrailInv'
<1>1. /\ now \in Nat /\ rows \in Seq(Row) /\ Len(rows) \in Nat
      /\ DOMAIN rows = 1 .. Len(rows) /\ UNCHANGED <<ask, view>>
  BY DEF TrailInv, TypeOK, Worker, ExtractText, GiveUp, RecordAttempts
<1>2. /\ rows' \in Seq(Row) /\ DOMAIN rows \subseteq DOMAIN rows'
      /\ \A i \in DOMAIN rows : rows'[i] = rows[i]
      /\ \A i \in DOMAIN rows' \ DOMAIN rows :
            rows'[i].by = Nobody /\ rows'[i].stage # "CUSTOM_QUERY"
  <2>1. CASE ExtractText
    BY <1>1, <2>1 DEF ExtractText
  <2>2. CASE GiveUp
    <3>1. PICK row : /\ row = WorkerRow(IF phase = "ai" THEN "EXTRACTING_AI" ELSE "EXTRACTING",
                                        1, "object")
                     /\ rows' = Append(rows, row)
      BY <2>2 DEF GiveUp
    <3>2. row \in Row /\ row.by = Nobody /\ row.stage # "CUSTOM_QUERY"
      BY <1>1, <3>1 DEF WorkerRow, Row
    <3> QED
      BY <1>1, <3>1, <3>2
  <2>3. CASE RecordAttempts
    <3>1. PICK n \in 1 .. MaxAttempts, last \in {"null", "list"} :
            rows' = rows \o [i \in 1 .. n |-> WorkerRow("EXTRACTING_AI", i,
                                                        IF i < n THEN "list" ELSE last)]
      BY <2>3 DEF RecordAttempts
    <3> DEFINE more == [i \in 1 .. n |-> WorkerRow("EXTRACTING_AI", i,
                                                   IF i < n THEN "list" ELSE last)]
    <3>2. n \in Nat
      BY QueryAssumption
    <3>3. \A i \in 1 .. n : more[i] \in Row /\ more[i].by = Nobody
                            /\ more[i].stage # "CUSTOM_QUERY"
      BY <1>1, <3>2 DEF WorkerRow, Row
    <3>4. more \in Seq(Row) /\ DOMAIN more = 1 .. n /\ Len(more) = n
      BY <3>2, <3>3
    <3>5. rows' = rows \o more
      BY <3>1
    <3> HIDE DEF more
    <3>6. /\ rows' \in Seq(Row) /\ DOMAIN rows' = 1 .. Len(rows) + n
          /\ \A i \in DOMAIN rows : rows'[i] = rows[i]
      <4>1. rows' \in Seq(Row) /\ Len(rows') = Len(rows) + n
        BY <1>1, <3>4, <3>5, ConcatProperties
      <4>2. ASSUME NEW i \in 1 .. Len(rows)
            PROVE  rows'[i] = rows[i]
        BY <1>1, <3>2, <3>4, <3>5
      <4> QED
        BY <1>1, <4>1, <4>2
    <3>7. ASSUME NEW i \in DOMAIN rows' \ DOMAIN rows
          PROVE  rows'[i].by = Nobody /\ rows'[i].stage # "CUSTOM_QUERY"
      <4>1. i - Len(rows) \in 1 .. n /\ rows'[i] = more[i - Len(rows)]
        BY <1>1, <3>2, <3>4, <3>5, <3>6
      <4> QED
        BY <3>3, <4>1
    <3> QED
      BY <1>1, <3>2, <3>6, <3>7
  <2> QED
    BY <2>1, <2>2, <2>3 DEF Worker
<1>5. Prior' = Prior
  <2>1. QueryRows' = QueryRows
    BY <1>2 DEF QueryRows
  <2> QED
    BY <2>1 DEF Prior
<1>6. ASSUME NEW q \in Queries
      PROVE  Mine(q)' = Mine(q)
  <2>1. q # Nobody
    BY QueryAssumption
  <2> QED
    BY <1>2, <2>1 DEF Mine, RowsOf
<1>7. now' \in Nat /\ now <= now'
  BY <1>1 DEF Worker, ExtractText, GiveUp, RecordAttempts
<1>8. TypeOK'
  BY <1>1, <1>2, <1>7 DEF TrailInv, TypeOK, Worker, ExtractText, GiveUp, RecordAttempts
<1>9. RowsOK'
  BY <1>1, <1>2, <1>5 DEF TrailInv, RowsOK, RowOf
<1>10. ASSUME NEW q \in Queries
       PROVE  AskOK(q)'
  <2>1. AskOK(q) /\ ask[q].at \in Nat /\ ask[q].end \in Nat
    BY DEF TrailInv, TypeOK, Ask
  <2>2. ask[q].at <= now' /\ (ask[q].pc = "answered" => ask[q].end <= now')
    BY <1>1, <1>7, <2>1 DEF AskOK
  <2> QED
    BY <1>1, <1>5, <1>6, <2>1, <2>2 DEF AskOK
<1>11. NumbersFollowClient'
  BY <1>1 DEF TrailInv, NumbersFollowClient, Before
<1>12. ASSUME NEW r \in Readers
       PROVE  ViewOK(r)'
  <2>1. ViewOK(r) /\ view[r].at \in Nat
    BY DEF TrailInv, TypeOK, View
  <2> QED
    BY <1>1, <1>7, <2>1 DEF ViewOK, ListOK
<1> QED
  BY <1>8, <1>9, <1>10, <1>11, <1>12 DEF TrailInv

-----------------------------------------------------------------------------
(* Audits. *)

\* p rearranges the rows s into list, sorted by dates.
Arranges(p, s, list) ==
    /\ \A i, k \in DOMAIN s : p[i] = p[k] => i = k
    /\ \A k \in DOMAIN s : \E i \in DOMAIN s : p[i] = k
    /\ \A i, k \in DOMAIN s : i < k => s[p[i]].at <= s[p[k]].at
    /\ list = [i \in DOMAIN s |-> s[p[i]]]

\* An order is a permutation of the rows that is sorted by dates.
LEMMA OrderPermutes ==
    ASSUME NEW s \in Seq(Row), NEW list \in Orders(s)
    PROVE  \E p \in [DOMAIN s -> DOMAIN s] : Arranges(p, s, list)
<1> DEFINE D == DOMAIN s
<1>1. PICK p \in [D -> D] :
         /\ \A i, k \in D : p[i] = p[k] => i = k
         /\ \A i, k \in D : i < k => s[p[i]].at <= s[p[k]].at
         /\ list = [i \in D |-> s[p[i]]]
  BY DEF Orders, Shuffles, Shuffled
<1>2. D = 1 .. Len(s) /\ Len(s) \in Nat /\ IsFiniteSet(D)
  BY FS_Interval
<1>3. ASSUME NEW k \in D
      PROVE  \E i \in D : p[i] = k
  <2>1. p \in Injection(D, D)
    BY <1>1 DEF Injection, IsInjective
  <2>2. p \in Surjection(D, D)
    BY <1>2, <2>1, FS_Injection
  <2> QED
    BY <2>2 DEF Surjection
<1> QED
  BY <1>1, <1>3 DEF Arranges

\* An order is sorted by dates and has every row.
LEMMA OrdersAll ==
    ASSUME NEW s \in Seq(Row), NEW list \in Orders(s)
    PROVE  /\ list \in Seq(Row)
           /\ \A i, k \in DOMAIN list : i < k => list[i].at <= list[k].at
           /\ \A i \in DOMAIN list : \E k \in DOMAIN s : list[i] = s[k]
           /\ \A k \in DOMAIN s : \E i \in DOMAIN list : list[i] = s[k]
<1>0. PICK p \in [DOMAIN s -> DOMAIN s] : Arranges(p, s, list)
  BY OrderPermutes
<1>1. /\ p \in [DOMAIN s -> DOMAIN s]
      /\ \A k \in DOMAIN s : \E i \in DOMAIN s : p[i] = k
      /\ \A i, k \in DOMAIN s : i < k => s[p[i]].at <= s[p[k]].at
      /\ list = [i \in DOMAIN s |-> s[p[i]]]
  BY <1>0 DEF Arranges
<1> DEFINE D == DOMAIN s
<1>2. D = 1 .. Len(s) /\ Len(s) \in Nat
  OBVIOUS
<1>3. \A i \in D : s[i] \in Row /\ p[i] \in D
  BY <1>1
<1>4. list \in Seq(Row) /\ DOMAIN list = D
  BY <1>1, <1>2, <1>3
<1> QED
  BY <1>1, <1>3, <1>4

LEMMA AuditTrail ==
    ASSUME TrailInv, NEW r \in Readers, Show(r)
    PROVE  TrailInv'
<1>1. /\ now \in Nat /\ rows \in Seq(Row) /\ view \in [Readers -> View]
      /\ UNCHANGED <<phase, text, rows, ask>> /\ now' \in Nat /\ now <= now'
      /\ \A o \in Readers \ {r} : view'[o] = view[o]
  BY DEF TrailInv, TypeOK, Show, BeginAudit, ReadText, ListRows
<1>2. \A o \in Readers : view[o] \in View /\ view[o].at \in Nat /\ ViewOK(o)
  BY DEF TrailInv, TypeOK, View
<1>3. view' \in [Readers -> View] /\ ViewOK(r)'
  <2>1. CASE BeginAudit(r)
    <3>1. now + 1 \in Nat /\ now' = now + 1
          /\ view' = [view EXCEPT ![r] = [view[r] EXCEPT !.pc = "text", !.at = now + 1]]
      BY <1>1, <2>1 DEF BeginAudit
    <3>2. [view[r] EXCEPT !.pc = "text", !.at = now + 1] \in View
      BY <1>2, <3>1 DEF View
    <3>3. view'[r].at = now' /\ view'[r].pc = "text"
      BY <1>1, <1>2, <3>1 DEF View
    <3> QED
      BY <1>1, <3>1, <3>2, <3>3 DEF ViewOK
  <2>2. CASE ReadText(r)
    <3>1. view' = [view EXCEPT ![r] = [view[r] EXCEPT !.text = text, !.pc = "rows"]]
      BY <1>1, <2>2 DEF ReadText
    <3>2. [view[r] EXCEPT !.text = text, !.pc = "rows"] \in View
      BY <1>2 DEF View, TrailInv, TypeOK
    <3>3. view'[r].at = view[r].at /\ view'[r].pc = "rows"
      BY <1>1, <1>2, <3>1 DEF View
    <3>4. now' = now
      BY <2>2 DEF ReadText
    <3> QED
      BY <1>1, <1>2, <3>1, <3>2, <3>3, <3>4 DEF ViewOK
  <2>3. CASE ListRows(r) /\ \E i \in DOMAIN rows : rows[i].errors = "object"
    <3>1. view' = [view EXCEPT ![r].pc = "error"] /\ now' = now
      BY <2>3 DEF ListRows
    <3>2. view' \in [Readers -> View] /\ view'[r].at = view[r].at /\ view'[r].pc = "error"
      BY <1>1, <1>2, <3>1 DEF View
    <3> QED
      BY <1>2, <3>1, <3>2 DEF ViewOK
  <2>4. CASE ListRows(r) /\ ~\E i \in DOMAIN rows : rows[i].errors = "object"
    <3>1. now' = now
      BY <2>4 DEF ListRows
    <3>2. PICK list \in Orders(rows) :
             view' = [view EXCEPT ![r].pc = "listed", ![r].list = list]
      BY <2>4 DEF ListRows
    <3>3. /\ list \in Seq(Row)
          /\ \A i, k \in DOMAIN list : i < k => list[i].at <= list[k].at
          /\ \A i \in DOMAIN list : \E k \in DOMAIN rows : list[i] = rows[k]
          /\ \A k \in DOMAIN rows : \E i \in DOMAIN list : list[i] = rows[k]
      BY <1>1, OrdersAll
    <3>4. view' = [view EXCEPT ![r] = [view[r] EXCEPT !.pc = "listed", !.list = list]]
      BY <1>1, <3>2
    <3>5. [view[r] EXCEPT !.pc = "listed", !.list = list] \in View
      BY <1>2, <3>3 DEF View
    <3>6. /\ view' \in [Readers -> View] /\ view'[r].at = view[r].at
          /\ view'[r].list = list
      BY <1>1, <1>2, <3>4, <3>5 DEF View
    <3>7. ASSUME NEW i \in DOMAIN list, NEW o \in Queries, list[i].by = o
          PROVE  ask[o].pc # "idle" /\ list[i].at = ask[o].at
      <4>1. PICK k \in DOMAIN rows : list[i] = rows[k]
        BY <3>3
      <4>2. rows[k] = RowOf(o) /\ Mine(o) # {}
        BY <3>7, <4>1, QueryAssumption DEF TrailInv, RowsOK, Mine, RowsOf
      <4> QED
        BY <4>1, <4>2 DEF TrailInv, AskOK, Unrecorded, RowOf
    <3>8. ASSUME NEW o \in Queries, ask[o].pc = "answered"
          PROVE  RowsOf(list, o) # {}
      <4>1. PICK k \in DOMAIN rows : rows[k] = RowOf(o)
        BY <3>8, NumberCounted
      <4>2. PICK i \in DOMAIN list : list[i] = rows[k]
        BY <3>3
      <4> QED
        BY <4>1, <4>2 DEF RowsOf, RowOf
    <3>9. \A i \in DOMAIN list : list[i].by # Nobody => list[i].by \in Queries
      BY <3>3, Authors
    <3>10. ListOK(r)'
      BY <1>1, <3>3, <3>6, <3>7, <3>8, <3>9 DEF ListOK
    <3> QED
      BY <1>2, <3>1, <3>6, <3>10 DEF ViewOK
  <2> QED
    BY <2>1, <2>2, <2>3, <2>4 DEF Show
<1>4. ASSUME NEW o \in Readers
      PROVE  ViewOK(o)'
  <2>1. CASE o # r
    <3>1. ViewOK(o) /\ view'[o] = view[o] /\ view[o].at <= now'
      BY <1>1, <1>2, <2>1 DEF ViewOK
    <3>2. ListOK(o) => ListOK(o)'
      BY <1>1, <3>1 DEF ListOK
    <3> QED
      BY <3>1, <3>2 DEF ViewOK
  <2> QED
    BY <1>3, <2>1
<1>5. ASSUME NEW q \in Queries
      PROVE  AskOK(q)'
  <2>1. AskOK(q) /\ ask[q].at \in Nat /\ ask[q].end \in Nat
    BY DEF TrailInv, TypeOK, Ask
  <2>2. ask[q].at <= now' /\ (ask[q].pc = "answered" => ask[q].end <= now')
    BY <1>1, <2>1 DEF AskOK
  <2>3. Prior' = Prior /\ Mine(q)' = Mine(q)
    BY <1>1 DEF Prior, QueryRows, Mine, RowsOf
  <2> QED
    BY <1>1, <2>1, <2>2, <2>3 DEF AskOK
<1>6. RowsOK' /\ NumbersFollowClient' /\ TypeOK'
  BY <1>1, <1>3 DEF TrailInv, RowsOK, RowOf, Prior, QueryRows, NumbersFollowClient, Before, TypeOK
<1> QED
  BY <1>4, <1>5, <1>6 DEF TrailInv

-----------------------------------------------------------------------------

LEMMA TrailStep == TrailInv /\ [Next]_vars => TrailInv'
<1> SUFFICES ASSUME TrailInv, [Next]_vars
             PROVE  TrailInv'
  OBVIOUS
<1>1. CASE UNCHANGED vars
  <2>1. UNCHANGED <<now, phase, text, rows, ask, view>>
    BY <1>1 DEF vars
  <2>2. Prior' = Prior /\ \A q \in Queries : Mine(q)' = Mine(q)
    BY <2>1 DEF Prior, QueryRows, Mine, RowsOf
  <2>3. \A q \in Queries : AskOK(q)'
    BY <2>1, <2>2 DEF TrailInv, AskOK
  <2>4. \A r \in Readers : ViewOK(r)'
    BY <2>1 DEF TrailInv, ViewOK, ListOK
  <2>5. TypeOK' /\ RowsOK' /\ NumbersFollowClient'
    BY <2>1, <2>2 DEF TrailInv, TypeOK, RowsOK, RowOf, NumbersFollowClient, Before
  <2> QED
    BY <2>3, <2>4, <2>5 DEF TrailInv
<1>2. CASE Next
  BY <1>2, WorkerTrail, QueryTrail, InsertTrail, AuditTrail DEF Next, Handle
<1> QED
  BY <1>1, <1>2

\* The invariant of the trail holds of every behaviour.
THEOREM TrailInvariance == Spec => []TrailInv
<1> QED
  BY TrailInit, TrailStep, PTL DEF Spec

\* Every variable keeps its shape; no query costs more than two completions.
THEOREM TypeCorrect == Spec => []TypeOK
<1>1. TrailInv => TypeOK
  BY DEF TrailInv
<1> QED
  BY <1>1, TrailInvariance, PTL

\* An answered query left one row with its number and its verdict, a refused
\* one none, and no query leaves two.
THEOREM AnsweredOnRecord == Spec => []AnsweredIsRecorded
<1>1. ASSUME TrailInv
      PROVE  AnsweredIsRecorded
  <2> SUFFICES ASSUME NEW q \in Queries
               PROVE  LET mine == RowsOf(rows, q) IN
                        /\ Cardinality(mine) <= 1
                        /\ ask[q].pc = "refused" => mine = {} /\ ask[q].calls = 0
                        /\ ask[q].pc = "answered" =>
                             \E i \in mine : /\ rows[i].number = ask[q].number
                                             /\ rows[i].errors = "null" <=> ask[q].parsed
    BY DEF AnsweredIsRecorded
  <2>1. Cardinality(Mine(q)) <= 1
    <3>1. q # Nobody
      BY QueryAssumption
    <3>2. Mine(q) = {} \/ \E i : Mine(q) = {i}
      BY <1>1, <3>1 DEF TrailInv, RowsOK, Mine, RowsOf
    <3> QED
      BY <3>2, FS_EmptySet, FS_Singleton
  <2>2. ask[q].pc = "refused" => Mine(q) = {} /\ ask[q].calls = 0
    BY <1>1 DEF TrailInv, AskOK, Unrecorded
  <2>3. ASSUME ask[q].pc = "answered"
        PROVE  \E i \in Mine(q) : /\ rows[i].number = ask[q].number
                                  /\ rows[i].errors = "null" <=> ask[q].parsed
    BY <1>1, <2>3, NumberCounted DEF RowOf
  <2> QED
    BY <2>1, <2>2, <2>3 DEF Mine
<1> QED
  BY <1>1, TrailInvariance, PTL

\* A client that waits for each answer sees its queries numbered upwards.
THEOREM NumbersFollow == Spec => []NumbersFollowClient
<1>1. TrailInv => NumbersFollowClient
  BY DEF TrailInv
<1> QED
  BY <1>1, TrailInvariance, PTL

\* An audit lists what was answered before it, in each client's order, however
\* many queries overlap.
THEOREM AuditFollows == Spec => []AuditFollowsClient
<1>1. ASSUME TrailInv
      PROVE  AuditFollowsClient
  <2> SUFFICES ASSUME NEW r \in Readers, view[r].pc = "listed"
               PROVE  LET list == view[r].list IN
                        /\ \A a \in Queries : ask[a].pc = "answered" /\ ask[a].end < view[r].at
                                                => RowsOf(list, a) # {}
                        /\ \A a, b \in Queries : Before(a, b) =>
                             \A i \in RowsOf(list, a), k \in RowsOf(list, b) : i < k
    BY DEF AuditFollowsClient
  <2>1. ListOK(r) /\ view[r].list \in Seq(Row)
    BY <1>1 DEF TrailInv, ViewOK, TypeOK, View
  <2>2. ASSUME NEW a \in Queries, NEW b \in Queries, Before(a, b),
               NEW i \in RowsOf(view[r].list, a), NEW k \in RowsOf(view[r].list, b)
        PROVE  i < k
    <3>1. /\ i \in DOMAIN view[r].list /\ view[r].list[i].by = a
          /\ k \in DOMAIN view[r].list /\ view[r].list[k].by = b
      BY DEF RowsOf
    <3>2. view[r].list[i].at = ask[a].at /\ view[r].list[k].at = ask[b].at
      BY <2>1, <3>1, QueryAssumption DEF ListOK
    <3>3. ask[a].at \in Nat /\ ask[b].at \in Nat /\ ask[a].end \in Nat
      BY <1>1 DEF TrailInv, TypeOK, Ask
    <3>4. ask[a].at < ask[b].at
      BY <1>1, <2>2, <3>3 DEF TrailInv, AskOK, Before
    <3>5. ~(k < i)
      BY <2>1, <3>1, <3>2, <3>3, <3>4 DEF ListOK
    <3>6. i # k
      BY <3>2, <3>3, <3>4
    <3>7. i \in Nat /\ k \in Nat
      BY <2>1, <3>1
    <3> QED
      BY <3>5, <3>6, <3>7
  <2> QED
    BY <2>1, <2>2 DEF ListOK
<1> QED
  BY <1>1, TrailInvariance, PTL

-----------------------------------------------------------------------------
(* What an audit shows of the worker. *)

LoopRows(s) == {i \in DOMAIN s : s[i].stage = "EXTRACTING_AI"}
Raised(s) == \E i \in DOMAIN s : s[i].errors = "object"

\* Query q has been let through to the LLM.
Asked(q) == ask[q].pc \in {"first", "retry", "count", "insert", "committed", "answered"}

\* The loop is recorded at the end, at once; the text is there before anybody
\* is answered about it, and an audit reads it after its transaction began.
WholeInv ==
    /\ phase = "extract" => text = "none"
    /\ phase # "over" => LoopRows(rows) = {}
    /\ Raised(rows) \/ WholeLoop(rows)
    /\ \A q \in Queries : Asked(q) => text = "text"
    /\ \A r \in Readers :
         /\ view[r].pc = "listed" => WholeLoop(view[r].list)
         /\ view[r].pc \in {"rows", "listed"} =>
              \A q \in Queries : ask[q].pc = "answered" /\ ask[q].end < view[r].at
                                   => view[r].text = "text"

\* Rows of others do not concern a loop.
LEMMA OthersRows ==
    ASSUME NEW s \in Seq(Row), NEW t \in Seq(Row),
           DOMAIN s \subseteq DOMAIN t, \A i \in DOMAIN s : t[i] = s[i],
           \A i \in DOMAIN t \ DOMAIN s : t[i].stage # "EXTRACTING_AI"
    PROVE  /\ LoopRows(t) = LoopRows(s)
           /\ Raised(s) => Raised(t)
           /\ WholeLoop(s) => WholeLoop(t)
<1>1. LoopRows(t) = LoopRows(s)
  BY DEF LoopRows
<1>2. \A i \in LoopRows(s) : t[i] = s[i]
  BY DEF LoopRows
<1>3. ASSUME WholeLoop(s)
      PROVE  WholeLoop(t)
  <2>1. {t[i].number : i \in LoopRows(s)} = {s[i].number : i \in LoopRows(s)}
    BY <1>2
  <2> QED
    BY <1>1, <1>2, <1>3, <2>1 DEF WholeLoop, LoopRows
<1> QED
  BY <1>1, <1>3 DEF Raised

\* Nor does the order in which they are listed.
LEMMA OrderedLoop ==
    ASSUME NEW s \in Seq(Row), NEW list \in Orders(s), WholeLoop(s)
    PROVE  WholeLoop(list)
<1>0. PICK p \in [DOMAIN s -> DOMAIN s] : Arranges(p, s, list)
  BY OrderPermutes
<1>1. /\ p \in [DOMAIN s -> DOMAIN s]
      /\ \A i, k \in DOMAIN s : p[i] = p[k] => i = k
      /\ \A k \in DOMAIN s : \E i \in DOMAIN s : p[i] = k
      /\ list = [i \in DOMAIN s |-> s[p[i]]]
  BY <1>0 DEF Arranges
<1>2. DOMAIN list = DOMAIN s /\ \A i \in DOMAIN s : list[i] = s[p[i]] /\ p[i] \in DOMAIN s
  BY <1>1
<1>3. /\ \A i \in LoopRows(list) : p[i] \in LoopRows(s) /\ list[i] = s[p[i]]
      /\ \A k \in LoopRows(s) : \E i \in LoopRows(list) : p[i] = k
  BY <1>1, <1>2 DEF LoopRows
<1>4. CASE LoopRows(s) = {}
  BY <1>3, <1>4 DEF WholeLoop, LoopRows
<1>5. CASE LoopRows(s) # {}
  <2>1. PICK n \in 1 .. MaxAttempts :
          /\ {s[i].number : i \in LoopRows(s)} = 1 .. n
          /\ \A i, k \in LoopRows(s) : s[i].number = s[k].number => i = k
          /\ \A i \in LoopRows(s) : IF s[i].number < n THEN s[i].errors = "list"
                                     ELSE s[i].errors = "null" \/ n = MaxAttempts
    BY <1>5 DEF WholeLoop, LoopRows
  <2>2. {list[i].number : i \in LoopRows(list)} = {s[i].number : i \in LoopRows(s)}
    BY <1>3
  <2>3. \A i, k \in LoopRows(list) : list[i].number = list[k].number => i = k
    <3> SUFFICES ASSUME NEW i \in LoopRows(list), NEW k \in LoopRows(list),
                        list[i].number = list[k].number
                 PROVE  i = k
      OBVIOUS
    <3>1. i \in DOMAIN s /\ k \in DOMAIN s
      BY <1>2 DEF LoopRows
    <3>2. p[i] \in LoopRows(s) /\ p[k] \in LoopRows(s) /\ s[p[i]].number = s[p[k]].number
      BY <1>3
    <3>3. p[i] = p[k]
      BY <2>1, <3>2
    <3> QED
      BY <1>1, <3>1, <3>3
  <2>4. \A i \in LoopRows(list) : IF list[i].number < n THEN list[i].errors = "list"
                                  ELSE list[i].errors = "null" \/ n = MaxAttempts
    BY <1>3, <2>1
  <2> QED
    BY <2>1, <2>2, <2>3, <2>4 DEF WholeLoop, LoopRows
<1> QED
  BY <1>4, <1>5

\* The rounds that RecordAttempts adds are a whole loop.
LEMMA LoopRecorded ==
    ASSUME TrailInv, LoopRows(rows) = {}, RecordAttempts
    PROVE  WholeLoop(rows')
<1>1. PICK n \in 1 .. MaxAttempts, last \in {"null", "list"} :
        /\ n < MaxAttempts => last = "null"
        /\ rows' = rows \o [i \in 1 .. n |-> WorkerRow("EXTRACTING_AI", i,
                                                      IF i < n THEN "list" ELSE last)]
  BY DEF RecordAttempts
<1> DEFINE more == [i \in 1 .. n |-> WorkerRow("EXTRACTING_AI", i,
                                               IF i < n THEN "list" ELSE last)]
           m == Len(rows)
<1>2. /\ rows \in Seq(Row) /\ m \in Nat /\ DOMAIN rows = 1 .. m /\ now \in Nat
      /\ n \in Nat /\ n > 0 /\ MaxAttempts \in Nat /\ n <= MaxAttempts
  BY QueryAssumption DEF TrailInv, TypeOK
<1>3. \A i \in 1 .. n : /\ more[i] \in Row /\ more[i].stage = "EXTRACTING_AI"
                        /\ more[i].number = i
                        /\ more[i].errors = IF i < n THEN "list" ELSE last
  BY <1>2 DEF WorkerRow, Row
<1>4. more \in Seq(Row) /\ Len(more) = n
  BY <1>2, <1>3
<1>5. rows' = rows \o more
  BY <1>1
<1> HIDE DEF more, m
<1>6. /\ DOMAIN rows' = 1 .. m + n
      /\ \A i \in 1 .. m : rows'[i] = rows[i]
      /\ \A i \in 1 .. n : rows'[m + i] = more[i]
  <2>1. Len(rows') = m + n /\ rows' \in Seq(Row)
    BY <1>2, <1>4, <1>5, ConcatProperties DEF m
  <2>2. ASSUME NEW i \in 1 .. m
        PROVE  rows'[i] = rows[i]
    BY <1>2, <1>4, <1>5, <2>2 DEF m
  <2>3. ASSUME NEW i \in 1 .. n
        PROVE  rows'[m + i] = more[i]
    BY <1>2, <1>4, <1>5, <2>3 DEF m
  <2> QED
    BY <1>2, <2>1, <2>2, <2>3
<1>7. LoopRows(rows') = {m + i : i \in 1 .. n}
  <2>1. \A i \in 1 .. m : rows'[i].stage # "EXTRACTING_AI"
    BY <1>2, <1>6 DEF LoopRows
  <2>2. \A i \in m + 1 .. m + n : i - m \in 1 .. n /\ i = m + (i - m)
    BY <1>2
  <2>3. \A i \in m + 1 .. m + n : rows'[i].stage = "EXTRACTING_AI"
    BY <1>3, <1>6, <2>2
  <2>4. LoopRows(rows') = m + 1 .. m + n
    BY <1>2, <1>6, <2>1, <2>3 DEF LoopRows
  <2> QED
    BY <1>2, <2>2, <2>4
<1>8. {rows'[i].number : i \in LoopRows(rows')} = 1 .. n
  BY <1>3, <1>6, <1>7
<1>9. \A i, k \in LoopRows(rows') : rows'[i].number = rows'[k].number => i = k
  BY <1>3, <1>6, <1>7
<1>10. \A i \in LoopRows(rows') : IF rows'[i].number < n THEN rows'[i].errors = "list"
                                  ELSE rows'[i].errors = "null" \/ n = MaxAttempts
  <2> SUFFICES ASSUME NEW i \in 1 .. n
               PROVE  IF rows'[m + i].number < n THEN rows'[m + i].errors = "list"
                      ELSE rows'[m + i].errors = "null" \/ n = MaxAttempts
    BY <1>7
  <2>1. rows'[m + i].number = i /\ rows'[m + i].errors = IF i < n THEN "list" ELSE last
    BY <1>3, <1>6
  <2>2. last = "null" \/ n = MaxAttempts
    BY <1>1, <1>2
  <2> QED
    BY <2>1, <2>2
<1> QED
  BY <1>8, <1>9, <1>10 DEF WholeLoop, LoopRows

\* The invariant of the first state.
LEMMA WholeInit == Init => WholeInv
<1> SUFFICES ASSUME Init
             PROVE  WholeInv
  OBVIOUS
<1>1. rows = <<>> /\ LoopRows(rows) = {}
  BY DEF Init, LoopRows
<1>2. WholeLoop(rows)
  BY <1>1 DEF WholeLoop, LoopRows
<1> QED
  BY <1>1, <1>2 DEF Init, WholeInv, Asked

\* What an audit has read and a query been answered stays so.
LEMMA ViewsKept ==
    ASSUME WholeInv, UNCHANGED view,
           \A q \in Queries : ask'[q].pc = "answered" =>
              ask[q].pc = "answered" /\ ask'[q].end = ask[q].end
    PROVE  \A r \in Readers :
             /\ view'[r].pc = "listed" => WholeLoop(view'[r].list)
             /\ view'[r].pc \in {"rows", "listed"} =>
                  \A q \in Queries : ask'[q].pc = "answered" /\ ask'[q].end < view'[r].at
                                       => view'[r].text = "text"
BY DEF WholeInv

\* The worker records a loop at its end, and its text once.
LEMMA WorkerWhole ==
    ASSUME TrailInv, WholeInv, Worker
    PROVE  WholeInv'
<1>1. UNCHANGED <<ask, view>> /\ rows \in Seq(Row)
  BY DEF Worker, ExtractText, GiveUp, RecordAttempts, TrailInv, TypeOK
<1>2. \A r \in Readers :
        /\ view'[r].pc = "listed" => WholeLoop(view'[r].list)
        /\ view'[r].pc \in {"rows", "listed"} =>
             \A q \in Queries : ask'[q].pc = "answered" /\ ask'[q].end < view'[r].at
                                  => view'[r].text = "text"
  BY <1>1, ViewsKept
<1>3. CASE ExtractText
  <2>1. /\ phase = "extract" /\ text = "none" /\ phase' \in {"ai", "over"} /\ rows' = rows
        /\ LoopRows(rows) = {}
    BY <1>3 DEF ExtractText, WholeInv
  <2>2. \A q \in Queries : ~Asked(q)'
    BY <1>1, <2>1 DEF WholeInv, Asked
  <2> QED
    BY <1>2, <2>1, <2>2 DEF WholeInv, LoopRows, Raised, WholeLoop
<1>4. CASE GiveUp
  <2>1. PICK row : row.errors = "object" /\ rows' = Append(rows, row)
    BY <1>4 DEF GiveUp, WorkerRow
  <2>2. rows'[Len(rows) + 1] = row /\ Len(rows) + 1 \in DOMAIN rows'
    BY <1>1, <2>1
  <2>3. Raised(rows')
    BY <2>1, <2>2 DEF Raised
  <2>4. phase' = "over" /\ text' = text
    BY <1>4 DEF GiveUp
  <2> QED
    BY <1>1, <1>2, <2>3, <2>4 DEF WholeInv, Asked, Raised
<1>5. CASE RecordAttempts
  <2>1. phase = "ai" /\ phase' = "over" /\ text' = text
    BY <1>5 DEF RecordAttempts
  <2>2. WholeLoop(rows')
    BY <1>5, <2>1, LoopRecorded DEF WholeInv
  <2> QED
    BY <1>1, <1>2, <2>1, <2>2 DEF WholeInv, Asked, WholeLoop
<1> QED
  BY <1>3, <1>4, <1>5 DEF Worker

\* A query is let through when there is a text, and its row is no round.
LEMMA QueryWhole ==
    ASSUME TrailInv, WholeInv, NEW q \in Queries, Handle(q)
    PROVE  WholeInv'
<1>1. /\ UNCHANGED <<phase, text, view>> /\ rows \in Seq(Row) /\ now \in Nat
      /\ ask \in [Queries -> Ask] /\ view \in [Readers -> View]
  BY DEF Handle, Begin, CheckText, Complete, CompleteRaises, CountPrior, Insert, Answer,
         FailQuery, TrailInv, TypeOK
<1>2. \A o \in Queries \ {q} : ask'[o] = ask[o]
  BY <1>1 DEF Handle, Begin, CheckText, Complete, CompleteRaises, CountPrior, Insert, Answer,
              FailQuery
<1>3. /\ Asked(q)' => Asked(q) \/ text = "text"
      /\ ask'[q].pc = "answered" => ask'[q].end = now
  <2>1. ask[q] \in Ask
    BY <1>1
  <2>2. CASE Begin(q) \/ CompleteRaises(q) \/ FailQuery(q)
    <3>1. ask'[q].pc \in {"check", "error"}
      BY <1>1, <2>1, <2>2 DEF Begin, CompleteRaises, FailQuery, Ask
    <3> QED
      BY <3>1 DEF Asked
  <2>3. CASE CheckText(q)
    <3>1. ask'[q].pc = IF text = "text" THEN "first" ELSE "refused"
      BY <1>1, <2>1, <2>3 DEF CheckText, Ask
    <3> QED
      BY <3>1 DEF Asked
  <2>4. CASE Complete(q)
    <3>1. Asked(q) /\ ask'[q].pc \in {"count", "retry"}
      BY <1>1, <2>1, <2>4 DEF Complete, Ask, Asked
    <3> QED
      BY <3>1
  <2>5. CASE CountPrior(q) \/ Insert(q)
    <3>1. Asked(q) /\ ask'[q].pc \in {"insert", "committed"}
      BY <1>1, <2>1, <2>5 DEF CountPrior, Insert, Ask, Asked
    <3> QED
      BY <3>1
  <2>6. CASE Answer(q)
    <3>1. Asked(q) /\ ask'[q].end = now
      BY <1>1, <2>1, <2>6 DEF Answer, Ask, Asked
    <3> QED
      BY <3>1
  <2> QED
    BY <2>2, <2>3, <2>4, <2>5, <2>6 DEF Handle
<1>4. \A o \in Queries : Asked(o)' => text' = "text"
  BY <1>1, <1>2, <1>3 DEF WholeInv, Asked
<1>5. ASSUME NEW r \in Readers
      PROVE  /\ view'[r].pc = "listed" => WholeLoop(view'[r].list)
             /\ view'[r].pc \in {"rows", "listed"} =>
                  \A o \in Queries : ask'[o].pc = "answered" /\ ask'[o].end < view'[r].at
                                       => view'[r].text = "text"
  <2>1. view[r].at <= now /\ view[r].at \in Nat
    BY <1>1 DEF TrailInv, ViewOK, View
  <2>2. ~(ask'[q].pc = "answered" /\ ask'[q].end < view[r].at)
    BY <1>1, <1>3, <2>1
  <2> QED
    BY <1>1, <1>2, <2>2 DEF WholeInv
<1>6. /\ phase # "over" => LoopRows(rows') = {}
      /\ Raised(rows') \/ WholeLoop(rows')
  <2>1. CASE Insert(q)
    <3>1. PICK row : row.stage = "CUSTOM_QUERY" /\ rows' = Append(rows, row)
      BY <2>1 DEF Insert
    <3>2. rows' \in Seq(Row)
      BY <2>1, InsertTrail DEF TrailInv, TypeOK
    <3>3. /\ DOMAIN rows \subseteq DOMAIN rows' /\ \A i \in DOMAIN rows : rows'[i] = rows[i]
          /\ \A i \in DOMAIN rows' \ DOMAIN rows : rows'[i] = row
      BY <1>1, <3>1
    <3>4. \A i \in DOMAIN rows' \ DOMAIN rows : rows'[i].stage # "EXTRACTING_AI"
      BY <3>1, <3>3
    <3> QED
      BY <1>1, <3>2, <3>3, <3>4, OthersRows DEF WholeInv
  <2>2. CASE ~Insert(q)
    <3>1. rows' = rows
      BY <2>2 DEF Handle, Begin, CheckText, Complete, CompleteRaises, CountPrior, Answer, FailQuery
    <3> QED
      BY <3>1 DEF WholeInv
  <2> QED
    BY <2>1, <2>2
<1> QED
  BY <1>1, <1>4, <1>5, <1>6 DEF WholeInv, LoopRows, Raised, WholeLoop

\* An audit reads the text of a moment when whoever it must show was answered.
LEMMA AuditWhole ==
    ASSUME TrailInv, WholeInv, NEW r \in Readers, Show(r)
    PROVE  WholeInv'
<1>1. /\ UNCHANGED <<phase, text, rows, ask>> /\ rows \in Seq(Row)
      /\ view \in [Readers -> View] /\ \A o \in Readers \ {r} : view'[o] = view[o]
  BY DEF Show, BeginAudit, ReadText, ListRows, TrailInv, TypeOK
<1>2. /\ view'[r].pc = "listed" => WholeLoop(view'[r].list)
      /\ view'[r].pc \in {"rows", "listed"} =>
           \A q \in Queries : ask[q].pc = "answered" /\ ask[q].end < view'[r].at
                                => view'[r].text = "text"
  <2>1. CASE BeginAudit(r)
    BY <1>1, <2>1 DEF BeginAudit, View
  <2>2. CASE ReadText(r)
    <3>1. view'[r].pc = "rows" /\ view'[r].text = text
      BY <1>1, <2>2 DEF ReadText, View
    <3>2. \A q \in Queries : ask[q].pc = "answered" => text = "text"
      BY DEF WholeInv, Asked
    <3> QED
      BY <3>1, <3>2
  <2>3. CASE ListRows(r) /\ Raised(rows)
    <3>1. view'[r].pc = "error"
      BY <1>1, <2>3 DEF ListRows, Raised, View
    <3> QED
      BY <3>1
  <2>4. CASE ListRows(r) /\ ~Raised(rows)
    <3>1. PICK list \in Orders(rows) :
             view' = [view EXCEPT ![r].pc = "listed", ![r].list = list]
      BY <2>4 DEF ListRows, Raised
    <3>2. /\ view'[r].pc = "listed" /\ view'[r].list = list
          /\ view'[r].at = view[r].at /\ view'[r].text = view[r].text /\ view[r].pc = "rows"
      BY <1>1, <2>4, <3>1 DEF ListRows, View
    <3>3. WholeLoop(list)
      BY <1>1, <2>4, OrderedLoop DEF WholeInv
    <3> QED
      BY <3>2, <3>3 DEF WholeInv
  <2> QED
    BY <2>1, <2>2, <2>3, <2>4 DEF Show
<1>3. \A o \in Readers :
        /\ view'[o].pc = "listed" => WholeLoop(view'[o].list)
        /\ view'[o].pc \in {"rows", "listed"} =>
             \A q \in Queries : ask'[q].pc = "answered" /\ ask'[q].end < view'[o].at
                                  => view'[o].text = "text"
  <2> SUFFICES ASSUME NEW o \in Readers
               PROVE  /\ view'[o].pc = "listed" => WholeLoop(view'[o].list)
                      /\ view'[o].pc \in {"rows", "listed"} =>
                           \A q \in Queries : ask'[q].pc = "answered" /\ ask'[q].end < view'[o].at
                                                => view'[o].text = "text"
    OBVIOUS
  <2>1. CASE o = r
    BY <1>1, <1>2, <2>1
  <2>2. CASE o # r
    BY <1>1, <2>2 DEF WholeInv
  <2> QED
    BY <2>1, <2>2
<1> QED
  BY <1>1, <1>3 DEF WholeInv, Asked, LoopRows, Raised, WholeLoop

\* An audit shows the whole of a correction loop or nothing of it, and the text
\* that a query answered before it was about.
THEOREM AuditsWhole == Spec => []AuditIsWhole
<1>1. TrailInv /\ WholeInv /\ [Next]_vars => WholeInv'
  <2> SUFFICES ASSUME TrailInv, WholeInv, [Next]_vars
               PROVE  WholeInv'
    OBVIOUS
  <2>1. CASE UNCHANGED vars
    BY <2>1 DEF vars, WholeInv, Asked, LoopRows, Raised, WholeLoop
  <2> QED
    BY <2>1, WorkerWhole, QueryWhole, AuditWhole DEF Next
<1>2. WholeInv => AuditIsWhole
  BY DEF WholeInv, AuditIsWhole
<1> QED
  BY <1>1, <1>2, WholeInit, TrailInvariance, PTL DEF Spec
=============================================================================
