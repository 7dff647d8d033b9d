--------------------------- MODULE ReportsProofs ---------------------------
(***************************************************************************)
(* Proofs about Reports, for any number of uploads, workers, readers, keys *)
(* and page sizes: only its owner finds a job and always does; a client    *)
(* that pages misses nothing it had; what a scrape counts drifts by what   *)
(* happened meanwhile at most.                                             *)
(***************************************************************************)
EXTENDS Reports, PipelineProofs

Begun == {u \in Uploads : req[u].pc # "idle"}

\* No two requests began at the same time, and a row is dated by its request.
DatesOK ==
    /\ \A u \in Begun : req[u].at \in 1 .. Cardinality(Begun)
    /\ \A u, v \in Begun : req[u].at = req[v].at => u = v
    /\ \A u \in Uploads : Has(u) => jobs[u].at = req[u].at
    /\ \A u \in Uploads : req[u].pc = "cached" => Has(u)

\* What a step of the pipeline may do to the rows that exist.
RowsStay ==
    /\ \A u \in Uploads : Has(u) =>
          jobs'[u].status # "absent" /\ jobs'[u].owner = jobs[u].owner
          /\ jobs'[u].at = jobs[u].at /\ jobs'[u].cached = jobs[u].cached
    /\ \A u \in Uploads : jobs[u].status = "DONE" => jobs'[u].status = "DONE"

-----------------------------------------------------------------------------
(* What a reader knows at each step. *)

StatusOK(q) ==
    /\ q.told => Has(q.job) /\ jobs[q.job].owner = q.key
    /\ q.pc = "job" => q.key \in Keys
    /\ q.pc = "over" /\ q.answer.status \notin {401, 429} =>
         /\ q.told => q.answer.status = 200
         /\ q.answer.status = 200 => Has(q.job) /\ jobs[q.job].owner = q.key
         /\ q.answer.status # 200 => q.answer = Error(404, "JOB_NOT_FOUND")

\* A job the client had and has not seen is on a page still to come.
ListOK(q) ==
    /\ q.limit \in Limits
    /\ q.had \subseteq Owned(q.key) /\ Listed(q) \subseteq Owned(q.key)
    /\ \A u \in q.had : \/ u \in Listed(q)
                        \/ q.pc # "over" /\ Place(u, Owned(q.key)) >= q.offset

ScrapeOK(q) ==
    /\ q.had \subseteq Done
    /\ q.pc # "status" => Cardinality(q.had) <= q.done /\ q.done <= DoneTotal
    /\ q.pc \in {"cached", "over"} => q.done <= q.total /\ q.total <= DoneTotal
    /\ q.pc = "over" =>
         q.cached <= q.total + Cardinality({u \in Done \ q.had : jobs[u].cached})

Questions == {Nothing, Gone} \cup Status \cup List \cup Scrape

ReaderOK(q) ==
    /\ q.kind = "status" => StatusOK(q)
    /\ q.kind = "list" => ListOK(q)
    /\ q.kind = "metrics" => ScrapeOK(q)

ReadInv ==
    /\ get \in [Readers -> Questions]
    /\ \A r \in Readers : ReaderOK(get[r])

\* The inductive invariant of the composition.
AllInv == IInv /\ DatesOK /\ ReadInv

-----------------------------------------------------------------------------
(* The rows and their dates. *)

LEMMA FiniteSets ==
    ASSUME NEW S, S \subseteq Uploads
    PROVE  IsFiniteSet(S) /\ Cardinality(S) \in Nat
BY FS_Subset, FS_CardinalityType, FiniteAssumption

LEMMA Fewer ==
    ASSUME NEW S, NEW T, S \subseteq T, T \subseteq Uploads
    PROVE  /\ Cardinality(S) \in Nat /\ Cardinality(T) \in Nat
           /\ Cardinality(S) <= Cardinality(T)
           /\ S # T => Cardinality(S) < Cardinality(T)
<1>1. S \subseteq Uploads /\ IsFiniteSet(T) /\ Cardinality(S) \in Nat /\ Cardinality(T) \in Nat
  BY FiniteSets
<1>2. Cardinality(S) <= Cardinality(T) /\ (Cardinality(T) = Cardinality(S) => T = S)
  BY <1>1, FS_Subset
<1> QED
  BY <1>1, <1>2

LEMMA Joined ==
    ASSUME NEW S, NEW T, S \subseteq Uploads, T \subseteq Uploads
    PROVE  /\ Cardinality(S) \in Nat /\ Cardinality(T) \in Nat
           /\ Cardinality(S \cup T) \in Nat /\ Cardinality(S \cap T) \in Nat
           /\ Cardinality(S \cup T) = Cardinality(S) + Cardinality(T) - Cardinality(S \cap T)
<1>1. S \cup T \subseteq Uploads /\ S \cap T \subseteq Uploads
  OBVIOUS
<1>2. /\ IsFiniteSet(S) /\ IsFiniteSet(T)
      /\ Cardinality(S) \in Nat /\ Cardinality(T) \in Nat
      /\ Cardinality(S \cup T) \in Nat /\ Cardinality(S \cap T) \in Nat
  BY <1>1, FiniteSets
<1> QED
  BY <1>2, FS_Union

LEMMA OneAtMost ==
    ASSUME NEW S, S \subseteq Uploads, \A u, v \in S : u = v
    PROVE  Cardinality(S) \in Nat /\ Cardinality(S) <= 1
<1>1. CASE S = {}
  BY <1>1, FS_EmptySet
<1>2. CASE S # {}
  <2>1. PICK e : e \in S
    BY <1>2
  <2>2. S = {e}
    BY <2>1
  <2>3. Cardinality({e}) = 1
    BY FS_Singleton
  <2> QED
    BY <2>2, <2>3
<1> QED
  BY <1>1, <1>2

\* Requests keep their dates; a new one is younger than all.
LEMMA RequestsStay ==
    ASSUME IInv, Next
    PROVE  /\ \A v \in Uploads : req[v].pc # "idle" =>
                req'[v].pc # "idle" /\ req'[v].at = req[v].at /\ req'[v].key = req[v].key
           /\ \/ \A v \in Uploads : req[v].pc = "idle" => req'[v].pc = "idle"
              \/ \E u \in Uploads :
                   /\ req[u].pc = "idle" /\ req'[u].pc = "lookup"
                   /\ req'[u].at = 1 + Cardinality(Begun)
                   /\ \A v \in Uploads \ {u} : req'[v] = req[v]
                   /\ UNCHANGED jobs
<1>1. TypeOK
  BY DEF IInv
<1>2. ASSUME NEW u \in Uploads, Begin(u)
      PROVE  /\ req[u].pc = "idle" /\ req'[u].pc = "lookup"
             /\ req'[u].at = 1 + Cardinality(Begun)
             /\ \A v \in Uploads \ {u} : req'[v] = req[v]
             /\ UNCHANGED jobs
  BY <1>1, <1>2, BeginEffect DEF Begun
<1>3. ASSUME NEW u \in Uploads, NEW p \in RequestPcs \ {"idle"}, RequestGoes(u, p),
             req[u].pc # "idle"
      PROVE  \A v \in Uploads : (req[v].pc = "idle" => req'[v].pc = "idle")
                /\ (req[v].pc # "idle" => req'[v].pc # "idle" /\ req'[v].at = req[v].at
                                          /\ req'[v].key = req[v].key)
  BY <1>3 DEF RequestGoes
<1>4. ASSUME NEW u \in Uploads, Handle(u) \/ Fail(u)
      PROVE  req[u].pc # "idle" /\ \E p \in RequestPcs \ {"idle"} : RequestGoes(u, p)
  <2>1. RequestOK(u)
    BY DEF IInv
  <2> QED
    BY <1>1, <1>4, <2>1, LookupEffect, CloneEffect, SaveEffect, InsertEffect, EnqueueEffect,
       FailEffect DEF Handle, RequestPcs, Answered
<1>5. ASSUME NEW w \in Workers, Dequeue(w) \/ Process(w) \/ Escape(w)
      PROVE  UNCHANGED req
  BY <1>5 DEF Dequeue, Process, Load, Read, ExtractRaises, ExtractText, CallLLM, LLMRaises,
              RecordAttempts, Finalize, Escape, GiveUp
<1> QED
  BY <1>2, <1>3, <1>4, <1>5 DEF Next

\* A row stays, with its owner, its date and its provenance; a new row is dated
\* by its request; a step adds one row at most.
LEMMA RowsKept ==
    ASSUME IInv, Next
    PROVE  /\ RowsStay
           /\ \A u, v \in Uploads :
                ~Has(u) /\ jobs'[u].status # "absent" /\ ~Has(v) /\ jobs'[v].status # "absent"
                  => u = v
           /\ \A u \in Uploads : ~Has(u) /\ jobs'[u].status # "absent" =>
                req[u].pc # "idle" /\ jobs'[u].at = req[u].at
           /\ \A u \in Uploads : req'[u].pc = "cached" /\ req[u].pc # "cached" =>
                jobs'[u].status # "absent"
<1>1. TypeOK
  BY DEF IInv
<1>2. ASSUME UNCHANGED jobs, NEW u \in Uploads
      PROVE  /\ RowsStay /\ jobs'[u].at = jobs[u].at
             /\ jobs'[u].status = jobs[u].status
  BY <1>2 DEF RowsStay, Has
<1>3. ASSUME NEW w \in Workers, Dequeue(w) \/ Process(w) \/ Escape(w)
      PROVE  /\ UNCHANGED req
             /\ RowsStay /\ \A u \in Uploads : ~Has(u) => jobs'[u].status = "absent"
  <2>1. UNCHANGED req
    BY <1>3 DEF Dequeue, Process, Load, Read, ExtractRaises, ExtractText, CallLLM, LLMRaises,
                RecordAttempts, Finalize, Escape, GiveUp
  <2>2. CASE Dequeue(w) \/ Escape(w) \/ Read(w) \/ CallLLM(w)
    <3>1. UNCHANGED jobs
      BY <2>2 DEF Dequeue, Escape, Read, CallLLM
    <3> QED
      BY <2>1, <3>1 DEF RowsStay, Has
  <2>3. ASSUME wk[w].pc # "idle", NEW s \in JobStatus, StatusGoes(wk[w].job, s)
        PROVE  RowsStay /\ \A u \in Uploads : ~Has(u) => jobs'[u].status = "absent"
    <3> DEFINE j == wk[w].job
    <3>1. j \in Uploads /\ Has(j) /\ jobs[j].status # "DONE"
      <4>1. j \in Uploads /\ rq[j] = "started" /\ RowOK(j) /\ WorkerOK(w) /\ wk[w].pc \in WorkerPcs
        BY <1>1, <2>3, BusyWorker DEF TypeOK, Worker, WorkerPcs
      <4>2. jobs[j].status \in Stages
        BY <2>3, <4>1 DEF WorkerOK, WorkerPcs, Stages
      <4> QED
        BY <4>1, <4>2 DEF Stages, Has
    <3>2. s # "absent"
      BY DEF JobStatus, Stages, Settled
    <3> QED
      BY <2>3, <3>1, <3>2 DEF StatusGoes, RowsStay, Has
  <2>4. CASE Load(w) \/ ExtractRaises(w) \/ LLMRaises(w) \/ ExtractText(w)
             \/ RecordAttempts(w) \/ Finalize(w)
    <3>1. ~At(w, "idle") /\ \E s \in JobStatus : StatusGoes(wk[w].job, s)
      <4>1. {"EXTRACTING", "EXTRACTING_AI", "VALIDATING", "DONE", "NEEDS_REVIEW", "FAILED"}
              \subseteq JobStatus
        BY DEF JobStatus, Stages, Settled
      <4>2. CASE Load(w)
        BY <4>1, <4>2, LoadEffect DEF At
      <4>3. CASE ExtractRaises(w) \/ LLMRaises(w)
        BY <4>1, <4>3, RaisesEffect DEF At
      <4>4. CASE ExtractText(w)
        BY <4>1, <4>4, ExtractTextEffect DEF At
      <4>5. CASE RecordAttempts(w)
        BY <4>1, <4>5, RecordAttemptsEffect DEF At
      <4>6. CASE Finalize(w)
        BY <4>1, <4>6, FinalizeEffect DEF At
      <4> QED
        BY <2>4, <4>2, <4>3, <4>4, <4>5, <4>6
    <3> QED
      BY <2>1, <2>3, <3>1 DEF At
  <2> QED
    BY <1>3, <2>1, <2>2, <2>4 DEF Process
<1>4. ASSUME NEW u \in Uploads, Clone(u) \/ Insert(u)
      PROVE  /\ RowsStay /\ \A v \in Uploads \ {u} : jobs'[v] = jobs[v] /\ req'[v] = req[v]
             /\ req[u].pc # "idle" /\ jobs'[u].at = req[u].at /\ jobs'[u].status # "absent"
  <2>1. RequestOK(u)
    BY DEF IInv
  <2>2. /\ req[u].pc \in {"clone", "insert"} /\ jobs'[u].at = req[u].at
        /\ jobs'[u].status \in {"DONE", "PENDING"}
        /\ \A v \in Uploads \ {u} : jobs'[v] = jobs[v]
        /\ \E p \in RequestPcs : RequestGoes(u, p)
    BY <1>1, <1>4, <2>1, CloneEffect, InsertEffect DEF RequestPcs, Answered
  <2>3. jobs[u].status = "absent"
    BY <2>1, <2>2 DEF RequestOK
  <2> QED
    BY <2>2, <2>3 DEF RowsStay, Has, RequestGoes
<1>5. ASSUME NEW u \in Uploads, Begin(u) \/ Lookup(u) \/ Save(u) \/ SaveWrite(u) \/ Enqueue(u)
                                \/ Fail(u)
      PROVE  /\ UNCHANGED jobs
             /\ \A v \in Uploads : req'[v].pc = "cached" => req[v].pc = "cached"
  <2>1. RequestOK(u)
    BY DEF IInv
  <2>2. \/ \E p \in RequestPcs \ {"cached"} : RequestGoes(u, p)
        \/ req'[u].pc = "lookup" /\ \A v \in Uploads \ {u} : req'[v] = req[v]
    BY <1>1, <1>5, <2>1, BeginEffect, LookupEffect, SaveEffect, EnqueueEffect, FailEffect
    DEF RequestPcs, Answered
  <2>3. UNCHANGED jobs
    BY <1>5 DEF Begin, Lookup, Save, SaveWrite, Enqueue, Fail
  <2> QED
    BY <2>2, <2>3 DEF RequestGoes
<1>6. CASE \E w \in Workers : Dequeue(w) \/ Process(w) \/ Escape(w)
  BY <1>3, <1>6 DEF Has
<1>7. CASE \E u \in Uploads : Clone(u) \/ Insert(u)
  BY <1>4, <1>7 DEF Has
<1>8. CASE \E u \in Uploads : Begin(u) \/ Lookup(u) \/ Save(u) \/ SaveWrite(u) \/ Enqueue(u)
                              \/ Fail(u)
  <2>1. UNCHANGED jobs /\ \A v \in Uploads : req'[v].pc = "cached" => req[v].pc = "cached"
    BY <1>5, <1>8
  <2> QED
    BY <2>1 DEF RowsStay, Has
<1> QED
  BY <1>6, <1>7, <1>8 DEF Next, Handle

LEMMA DatesInit == Init => DatesOK
BY FS_EmptySet DEF Init, DatesOK, Begun, Idle, NoJob, Has

\* Dates stay unique, because a request is dated by how many began before it.
LEMMA DatesStep ==
    ASSUME IInv, DatesOK, Next
    PROVE  DatesOK'
<1>1. \A v \in Begun : v \in Uploads /\ v \in Begun' /\ req'[v].at = req[v].at
  BY RequestsStay DEF Begun
<1>2. ASSUME NEW u \in Uploads, jobs'[u].status # "absent"
      PROVE  jobs'[u].at = req'[u].at
  <2>1. CASE Has(u)
    <3>1. u \in Begun /\ jobs[u].at = req[u].at
      BY <2>1 DEF IInv, RowOK, Begun, DatesOK
    <3> QED
      BY <1>1, <2>1, <3>1, RowsKept DEF RowsStay
  <2>2. CASE ~Has(u)
    <3>1. u \in Begun /\ jobs'[u].at = req[u].at
      BY <1>2, <2>2, RowsKept DEF Begun
    <3> QED
      BY <1>1, <3>1
  <2> QED
    BY <2>1, <2>2
<1>3. ASSUME NEW u \in Uploads, req'[u].pc = "cached"
      PROVE  jobs'[u].status # "absent"
  <2>1. CASE req[u].pc = "cached"
    BY <2>1, RowsKept DEF DatesOK, RowsStay
  <2>2. CASE req[u].pc # "cached"
    BY <1>3, <2>2, RowsKept
  <2> QED
    BY <2>1, <2>2
<1>4. CASE \A v \in Uploads : req[v].pc = "idle" => req'[v].pc = "idle"
  <2>1. Begun' = Begun
    BY <1>1, <1>4 DEF Begun
  <2> QED
    BY <1>1, <1>2, <1>3, <2>1 DEF DatesOK, Has
<1>5. ASSUME NEW u \in Uploads, req[u].pc = "idle", req'[u].pc = "lookup",
             req'[u].at = 1 + Cardinality(Begun), \A v \in Uploads \ {u} : req'[v] = req[v]
      PROVE  DatesOK'
  <2> DEFINE n == Cardinality(Begun)
  <2>1. Begun' = Begun \cup {u} /\ u \notin Begun /\ Begun \subseteq Uploads
    BY <1>1, <1>5 DEF Begun
  <2>2. n \in Nat /\ IsFiniteSet(Begun)
    BY <2>1, FiniteSets
  <2>3. Cardinality(Begun') = n + 1
    BY <2>1, <2>2, FS_AddElement
  <2>4. \A v \in Begun : req'[v].at \in 1 .. n
    BY <1>1 DEF DatesOK
  <2>5. \A v \in Begun' : req'[v].at \in 1 .. Cardinality(Begun')
    BY <1>5, <2>1, <2>2, <2>3, <2>4
  <2>6. \A v, x \in Begun' : req'[v].at = req'[x].at => v = x
    <3>1. \A v, x \in Begun : req'[v].at = req'[x].at => v = x
      BY <1>1 DEF DatesOK
    <3>2. req'[u].at \notin 1 .. n
      BY <1>5, <2>2
    <3> QED
      BY <2>1, <2>4, <3>1, <3>2
  <2> QED
    BY <1>2, <1>3, <2>5, <2>6 DEF DatesOK, Has
<1> QED
  BY <1>4, <1>5, RequestsStay

-----------------------------------------------------------------------------
(* Places in a list. *)

\* A list is a strict order by date.
LEMMA OwnedOnce ==
    ASSUME IInv, DatesOK, NEW key
    PROVE  /\ Owned(key) \subseteq Uploads
           /\ \A u \in Owned(key) : jobs[u].at \in Nat
           /\ \A u, v \in Owned(key) : jobs[u].at = jobs[v].at => u = v
<1>1. \A u \in Owned(key) : u \in Begun /\ jobs[u].at = req[u].at /\ jobs[u].at \in Nat
  BY DEF IInv, TypeOK, Job, RowOK, Owned, Begun, DatesOK
<1> QED
  BY <1>1 DEF Owned, DatesOK

LEMMA Places ==
    ASSUME NEW own, own \subseteq Uploads, \A u \in own : jobs[u].at \in Nat,
           \A u, v \in own : jobs[u].at = jobs[v].at => u = v
    PROVE  /\ \A u \in own : Place(u, own) \in 0 .. Cardinality(own) - 1
           /\ \A u, v \in own : Place(u, own) = Place(v, own) => u = v
           /\ \A n \in 0 .. Cardinality(own) - 1 : \E u \in own : Place(u, own) = n
<1>1. ASSUME NEW u \in own
      PROVE  Place(u, own) \in 0 .. Cardinality(own) - 1
  <2>1. {v \in own : Before(v, u)} # own
    BY <1>1 DEF Before
  <2> QED
    BY <2>1, Fewer DEF Place
<1>2. ASSUME NEW u \in own, NEW v \in own, jobs[u].at > jobs[v].at
      PROVE  Place(u, own) < Place(v, own)
  <2>1. {x \in own : Before(x, u)} \subseteq {x \in own : Before(x, v)}
    BY <1>2 DEF Before
  <2>2. u \in {x \in own : Before(x, v)} /\ u \notin {x \in own : Before(x, u)}
    BY <1>2 DEF Before
  <2>3. {x \in own : Before(x, v)} \subseteq Uploads
    OBVIOUS
  <2> QED
    BY <2>1, <2>2, <2>3, Fewer DEF Place
<1>3. \A u, v \in own : Place(u, own) = Place(v, own) => u = v
  <2> SUFFICES ASSUME NEW u \in own, NEW v \in own, u # v
               PROVE  Place(u, own) # Place(v, own)
    OBVIOUS
  <2>1. jobs[u].at > jobs[v].at \/ jobs[v].at > jobs[u].at
    OBVIOUS
  <2>2. Place(u, own) \in Nat /\ Place(v, own) \in Nat
    BY <1>1
  <2> QED
    BY <1>2, <2>1, <2>2
<1>4. \A n \in 0 .. Cardinality(own) - 1 : \E u \in own : Place(u, own) = n
  <2> DEFINE T == 0 .. Cardinality(own) - 1
             f == [u \in own |-> Place(u, own)]
  <2>1. Cardinality(own) \in Nat
    BY FiniteSets
  <2>2. IsFiniteSet(T) /\ Cardinality(T) = Cardinality(own)
    BY <2>1, FS_Interval
  <2>3. f \in Injection(own, T)
    BY <1>1, <1>3 DEF Injection, IsInjective
  <2> HIDE DEF f, T
  <2>4. f \in Surjection(own, T)
    BY <2>2, <2>3, FS_Injection
  <2> QED
    BY <2>4 DEF Surjection, f, T
<1> QED
  BY <1>1, <1>3, <1>4

\* A page: the jobs whose places it covers, all of them when it is not full.
LEMMA Pages ==
    ASSUME NEW own, own \subseteq Uploads, \A u \in own : jobs[u].at \in Nat,
           \A u, v \in own : jobs[u].at = jobs[v].at => u = v,
           NEW limit \in Nat \ {0}, NEW offset \in Nat
    PROVE  LET page == Page(own, limit, offset) IN
             /\ page \in Seq(Uploads) /\ \A i \in DOMAIN page : page[i] \in own
             /\ Len(page) <= limit
             /\ \A i \in DOMAIN page : Place(page[i], own) = offset + i - 1
             /\ \A u \in own : Place(u, own) >= offset =>
                   \/ \E i \in DOMAIN page : page[i] = u
                   \/ Len(page) = limit /\ Place(u, own) >= offset + limit
<1> DEFINE c == Cardinality(own)
           n == PageLength(own, limit, offset)
           page == Page(own, limit, offset)
<1>1. c \in Nat
  BY FiniteSets
<1> HIDE DEF c
<1>2. /\ n \in Nat /\ n <= limit
      /\ n < limit => c <= offset + n
      /\ n # 0 => offset + n <= c
  BY <1>1 DEF PageLength, c
<1>3. page = [i \in 1 .. n |-> CHOOSE u \in own : Place(u, own) = offset + i - 1]
  BY DEF Page
<1>4. /\ \A u \in own : Place(u, own) \in Nat /\ Place(u, own) < c
      /\ \A u, v \in own : Place(u, own) = Place(v, own) => u = v
      /\ \A k \in 0 .. c - 1 : \E u \in own : Place(u, own) = k
  BY <1>1, Places DEF c
<1> HIDE DEF n, page
<1>5. ASSUME NEW i \in 1 .. n
      PROVE  page[i] \in own /\ Place(page[i], own) = offset + i - 1
  <2>1. offset + i - 1 \in 0 .. c - 1
    BY <1>1, <1>2
  <2>2. \E u \in own : Place(u, own) = offset + i - 1
    BY <1>4, <2>1
  <2>3. page[i] = CHOOSE u \in own : Place(u, own) = offset + i - 1
    BY <1>3
  <2> QED
    BY <2>2, <2>3
<1>6. page \in Seq(Uploads) /\ Len(page) = n /\ DOMAIN page = 1 .. n
  <2>1. page \in [1 .. n -> Uploads]
    BY <1>3, <1>5
  <2> QED
    BY <1>2, <2>1
<1>7. ASSUME NEW u \in own, Place(u, own) >= offset, Place(u, own) < offset + n
      PROVE  \E i \in DOMAIN page : page[i] = u
  <2> DEFINE i == Place(u, own) - offset + 1
  <2>1. i \in 1 .. n /\ Place(u, own) = offset + i - 1
    BY <1>2, <1>4, <1>7
  <2> QED
    BY <1>4, <1>5, <1>6, <2>1
<1>8. ASSUME NEW u \in own, Place(u, own) >= offset
      PROVE  \/ \E i \in DOMAIN page : page[i] = u
             \/ Len(page) = limit /\ Place(u, own) >= offset + limit
  <2>1. CASE n = limit
    BY <1>4, <1>6, <1>7, <1>8, <2>1
  <2>2. CASE n < limit
    <3>1. Place(u, own) < offset + n
      BY <1>1, <1>2, <1>4, <2>2
    <3> QED
      BY <1>7, <1>8, <3>1
  <2> QED
    BY <1>2, <2>1, <2>2
<1> QED
  BY <1>2, <1>5, <1>6, <1>8 DEF page

\* A job's place moves down only, and only by new rows.
LEMMA PlacesSink ==
    ASSUME IInv, DatesOK, Next, NEW key
    PROVE  /\ Owned(key) \subseteq Owned(key)'
           /\ \A u \in Owned(key) :
                /\ Place(u, Owned(key)) \in Nat /\ Place(u, Owned(key))' \in Nat
                /\ Place(u, Owned(key))' >= Place(u, Owned(key))
<1>1. Owned(key) \subseteq Owned(key)' /\ \A u \in Owned(key) : jobs'[u].at = jobs[u].at
  BY RowsKept DEF RowsStay, Owned, Has
<1> DEFINE own == Owned(key)
<1>2. own' \subseteq Uploads
  BY DEF Owned
<1> SUFFICES ASSUME NEW u \in own
             PROVE  /\ Place(u, own) \in Nat /\ Place(u, own)' \in Nat
                    /\ Place(u, own)' >= Place(u, own)
  BY <1>1
<1>3. /\ Place(u, own) = Cardinality({v \in own : jobs[v].at > jobs[u].at})
      /\ Place(u, own)' = Cardinality({v \in own' : jobs'[v].at > jobs'[u].at})
  BY DEF Place, Before
<1>4. {v \in own : jobs[v].at > jobs[u].at} \subseteq {v \in own' : jobs'[v].at > jobs'[u].at}
  BY <1>1
<1>5. {v \in own' : jobs'[v].at > jobs'[u].at} \subseteq Uploads
  BY <1>2
<1> HIDE DEF own
<1> QED
  BY <1>3, <1>4, <1>5, Fewer

-----------------------------------------------------------------------------
(* The pipeline goes on while a reader asks. *)

LEMMA Kinds ==
    ASSUME NEW q \in Questions
    PROVE  /\ q.kind = "status" => q \in Status
           /\ q.kind = "list" => q \in List
           /\ q.kind = "metrics" => q \in Scrape
BY DEF Questions, Nothing, Gone, Status, List, Scrape

LEMMA StatusStays ==
    ASSUME IInv, Next, NEW q \in Status, StatusOK(q)
    PROVE  StatusOK(q)'
<1>1. q.job \in Uploads
  BY DEF Status
<1>2. Has(q.job) => jobs'[q.job].status # "absent" /\ jobs'[q.job].owner = jobs[q.job].owner
  BY <1>1, RowsKept DEF RowsStay
<1> QED
  BY <1>2 DEF StatusOK, Has

LEMMA ListStays ==
    ASSUME IInv, DatesOK, Next, NEW q \in List, ListOK(q)
    PROVE  ListOK(q)'
<1>1. q.offset \in Nat
  BY DEF List
<1>2. /\ Owned(q.key) \subseteq Owned(q.key)'
      /\ \A u \in Owned(q.key) :
           /\ Place(u, Owned(q.key)) \in Nat /\ Place(u, Owned(q.key))' \in Nat
           /\ Place(u, Owned(q.key))' >= Place(u, Owned(q.key))
  BY PlacesSink
<1>3. q.had \subseteq Owned(q.key)' /\ Listed(q)' \subseteq Owned(q.key)'
  BY <1>2 DEF ListOK, Listed
<1>4. ASSUME NEW u \in q.had, u \notin Listed(q)
      PROVE  q.pc # "over" /\ Place(u, Owned(q.key))' >= q.offset
  BY <1>1, <1>2, <1>4 DEF ListOK
<1> QED
  BY <1>3, <1>4 DEF ListOK, Listed

LEMMA DoneStays ==
    ASSUME IInv, Next
    PROVE  /\ Done \subseteq Done' /\ Done \subseteq Uploads /\ Done' \subseteq Uploads
           /\ \A u \in Done : jobs'[u].cached = jobs[u].cached
BY RowsKept DEF RowsStay, Done, Has

LEMMA ScrapeStays ==
    ASSUME IInv, Next, NEW q \in Scrape, ScrapeOK(q)
    PROVE  ScrapeOK(q)'
<1>1. q.done \in Nat /\ q.total \in Nat /\ q.cached \in Nat
  BY DEF Scrape
<1>2. /\ DoneTotal \in Nat /\ DoneTotal' \in Nat /\ DoneTotal <= DoneTotal'
  BY DoneStays, Fewer DEF DoneTotal
<1> DEFINE hits == {u \in Done \ q.had : jobs[u].cached}
           more == {u \in Done' \ q.had : jobs'[u].cached}
<1>3. hits \subseteq more /\ more \subseteq Uploads
  BY DoneStays
<1> HIDE DEF hits, more
<1>4. Cardinality(hits) \in Nat /\ Cardinality(more) \in Nat
      /\ Cardinality(hits) <= Cardinality(more)
  BY <1>3, Fewer
<1>5. q.had \subseteq Done'
  BY DoneStays DEF ScrapeOK
<1>6. q.pc = "over" => q.cached <= q.total + Cardinality(more)
  BY <1>1, <1>4 DEF ScrapeOK, hits
<1>7. q.pc # "status" => q.done <= DoneTotal'
  BY <1>1, <1>2 DEF ScrapeOK
<1>8. q.pc \in {"cached", "over"} => q.total <= DoneTotal'
  BY <1>1, <1>2 DEF ScrapeOK
<1> QED
  BY <1>5, <1>6, <1>7, <1>8 DEF ScrapeOK, more

LEMMA ReadersStay ==
    ASSUME IInv, DatesOK, ReadInv, Next, UNCHANGED get
    PROVE  ReadInv'
<1>1. ASSUME NEW q \in Questions, ReaderOK(q)
      PROVE  ReaderOK(q)'
  BY <1>1, Kinds, StatusStays, ListStays, ScrapeStays DEF ReaderOK
<1> QED
  BY <1>1 DEF ReadInv

-----------------------------------------------------------------------------
(* A reader asks while the pipeline stands still. *)

LEMMA StandsStill ==
    ASSUME UNCHANGED vars
    PROVE  \A x \in Questions : ReaderOK(x) => ReaderOK(x)'
<1> SUFFICES ASSUME NEW x \in Questions, ReaderOK(x) PROVE ReaderOK(x)'
  OBVIOUS
<1>1. jobs' = jobs
  BY DEF vars
<1>2. StatusOK(x) => StatusOK(x)'
  BY <1>1 DEF StatusOK, Has
<1>3. ListOK(x) => ListOK(x)'
  BY <1>1 DEF ListOK, Owned, Place, Before, Has, Listed
<1>4. ScrapeOK(x) => ScrapeOK(x)'
  BY <1>1 DEF ScrapeOK, Done, DoneTotal
<1> QED
  BY <1>2, <1>3, <1>4 DEF ReaderOK

LEMMA Answering ==
    ASSUME IInv, NEW r \in Readers, NEW q \in Questions, ReaderOK(q), Becomes(r, q),
           ReadInv, UNCHANGED vars
    PROVE  ReadInv'
<1>1. \A x \in Questions : ReaderOK(x) => ReaderOK(x)'
  BY StandsStill
<1>2. get' \in [Readers -> Questions] /\ \A x \in Readers : get'[x] \in {get[x], q}
  BY DEF ReadInv, Becomes
<1>3. \A x \in Readers : ReaderOK(get'[x])
  BY <1>2 DEF ReadInv
<1> QED
  BY <1>1, <1>2, <1>3 DEF ReadInv

\* The question that reader r goes on with keeps the invariant.
Sound(r) == \E q \in Questions : ReaderOK(q) /\ Becomes(r, q)

LEMMA AskStatusSound ==
    ASSUME IInv, DatesOK, NEW r \in Readers, AskStatus(r)
    PROVE  Sound(r)
<1>1. PICK key \in Keys \cup {None, "unknown"}, j \in Uploads :
        Becomes(r, [kind |-> "status", pc |-> "key", key |-> key, job |-> j,
                    told |-> Told(key, j), answer |-> None])
  BY DEF AskStatus
<1> DEFINE q == [kind |-> "status", pc |-> "key", key |-> key, job |-> j,
                 told |-> Told(key, j), answer |-> None]
<1>2. Told(key, j) \in BOOLEAN
  BY DEF Told
<1>3. q \in Status
  BY <1>2 DEF Status
<1>4. Told(key, j) => Has(j) /\ jobs[j].owner = key
  <2>1. RequestOK(j) /\ RowOK(j)
    BY DEF IInv
  <2>2. Told(key, j) => Has(j)
    BY <2>1 DEF Told, RequestOK, DatesOK
  <2> QED
    BY <2>1, <2>2 DEF Told, RowOK
<1>5. StatusOK(q)
  BY <1>4 DEF StatusOK
<1>6. q.kind = "status"
  OBVIOUS
<1> HIDE DEF q
<1>7. ReaderOK(q)
  BY <1>5, <1>6 DEF ReaderOK
<1> QED
  BY <1>1, <1>3, <1>7 DEF Sound, Questions, q

LEMMA Answers4xx ==
    /\ \A key : \A e \in Refusals(key) : e \in Answer /\ e.status \in {401, 429}
    /\ Error(404, "JOB_NOT_FOUND") \in Answer
    /\ Error(404, "JOB_NOT_FOUND").status = 404
BY DEF Refusals, Error, Answer

LEMMA CheckKeySound ==
    ASSUME IInv, ReadInv, NEW r \in Readers, CheckKey(r)
    PROVE  Sound(r)
<1>1. get[r].kind = "status" /\ get[r].pc = "key"
  BY DEF CheckKey, Asks
<1>2. get[r] \in Status /\ StatusOK(get[r])
  BY <1>1, Kinds DEF ReadInv, ReaderOK
<1>3. CASE Admitted(get[r].key) /\ Becomes(r, [get[r] EXCEPT !.pc = "job"])
  <2> DEFINE n == [get[r] EXCEPT !.pc = "job"]
  <2>1. /\ n \in Status /\ n.kind = "status" /\ n.pc = "job"
        /\ n.key = get[r].key /\ n.job = get[r].job /\ n.told = get[r].told
    BY <1>2 DEF Status
  <2> HIDE DEF n
  <2>2. ReaderOK(n)
    BY <1>2, <1>3, <2>1 DEF ReaderOK, StatusOK, Admitted
  <2> QED
    BY <1>3, <2>1, <2>2 DEF Sound, Questions, n
<1>4. ASSUME NEW e \in Refusals(get[r].key),
             Becomes(r, [get[r] EXCEPT !.pc = "over", !.answer = e])
      PROVE  Sound(r)
  <2> DEFINE n == [get[r] EXCEPT !.pc = "over", !.answer = e]
  <2>1. e \in Answer /\ e.status \in {401, 429}
    BY Answers4xx
  <2>2. /\ n \in Status /\ n.kind = "status" /\ n.pc = "over" /\ n.answer = e
        /\ n.key = get[r].key /\ n.job = get[r].job /\ n.told = get[r].told
    BY <1>2, <2>1 DEF Status
  <2> HIDE DEF n
  <2>3. ReaderOK(n)
    BY <1>2, <2>1, <2>2 DEF ReaderOK, StatusOK
  <2> QED
    BY <1>4, <2>2, <2>3 DEF Sound, Questions, n
<1> QED
  BY <1>3, <1>4 DEF CheckKey

LEMMA ReadJobSound ==
    ASSUME IInv, ReadInv, NEW r \in Readers, ReadJob(r)
    PROVE  Sound(r)
<1> DEFINE a == StatusAnswer(get[r].key, get[r].job)
           n == [get[r] EXCEPT !.pc = "over", !.answer = a]
<1>1. get[r].kind = "status" /\ get[r].pc = "job"
  BY DEF ReadJob, Asks
<1>2. get[r] \in Status /\ StatusOK(get[r]) /\ get[r].job \in Uploads
  BY <1>1, Kinds DEF ReadInv, ReaderOK, Status
<1>3. CASE Has(get[r].job) /\ jobs[get[r].job].owner = get[r].key
  <2>1. jobs[get[r].job].status \in JobStatus
    BY <1>2, <1>3 DEF IInv, TypeOK, Job, Has
  <2>2. a = [status |-> 200, code |-> jobs[get[r].job].status]
    BY <1>3 DEF StatusAnswer
  <2>3. a \in Answer /\ a.status = 200
    BY <2>1, <2>2 DEF Answer
  <2> HIDE DEF a
  <2>4. /\ n \in Status /\ n.kind = "status" /\ n.pc = "over" /\ n.answer = a
        /\ n.key = get[r].key /\ n.job = get[r].job /\ n.told = get[r].told
    BY <1>2, <2>3 DEF Status
  <2> HIDE DEF n
  <2>5. ReaderOK(n)
    BY <1>2, <1>3, <2>3, <2>4 DEF ReaderOK, StatusOK
  <2> QED
    BY <2>4, <2>5 DEF ReadJob, Sound, Questions, n, a
<1>4. CASE ~(Has(get[r].job) /\ jobs[get[r].job].owner = get[r].key)
  <2>1. a = Error(404, "JOB_NOT_FOUND")
    BY <1>4 DEF StatusAnswer
  <2>2. a \in Answer /\ a.status = 404
    BY <2>1, Answers4xx
  <2> HIDE DEF a
  <2>3. /\ n \in Status /\ n.kind = "status" /\ n.pc = "over" /\ n.answer = a
        /\ n.key = get[r].key /\ n.job = get[r].job /\ n.told = get[r].told
    BY <1>2, <2>2 DEF Status
  <2>4. ~get[r].told
    BY <1>2, <1>4 DEF StatusOK
  <2> HIDE DEF n
  <2>5. ReaderOK(n)
    BY <2>1, <2>2, <2>3, <2>4 DEF ReaderOK, StatusOK
  <2> QED
    BY <2>3, <2>5 DEF ReadJob, Sound, Questions, n, a
<1> QED
  BY <1>3, <1>4

LEMMA AskListSound ==
    ASSUME IInv, DatesOK, NEW r \in Readers, AskList(r)
    PROVE  Sound(r)
<1>1. PICK key \in Keys, limit \in Limits :
        Becomes(r, [kind |-> "list", pc |-> "total", key |-> key, limit |-> limit,
                    offset |-> 0, total |-> 0, listed |-> <<>>, had |-> Owned(key)])
  BY DEF AskList
<1> DEFINE q == [kind |-> "list", pc |-> "total", key |-> key, limit |-> limit,
                 offset |-> 0, total |-> 0, listed |-> <<>>, had |-> Owned(key)]
<1>2. Owned(key) \subseteq Uploads
  BY DEF Owned
<1>3. q \in List
  BY <1>2, LimitAssumption DEF List
<1>4. \A u \in Owned(key) : Place(u, Owned(key)) \in Nat
  BY <1>2, FiniteSets DEF Place
<1>5. ListOK(q) /\ q.kind = "list"
  BY <1>4 DEF ListOK, Listed
<1> HIDE DEF q
<1>6. ReaderOK(q)
  BY <1>5 DEF ReaderOK
<1> QED
  BY <1>1, <1>3, <1>6 DEF Sound, Questions, q

LEMMA CountTotalSound ==
    ASSUME IInv, ReadInv, NEW r \in Readers, CountTotal(r)
    PROVE  Sound(r)
<1> DEFINE c == Cardinality(Owned(get[r].key))
           n == [get[r] EXCEPT !.pc = "page", !.total = c]
<1>1. get[r].kind = "list" /\ get[r].pc = "total"
  BY DEF CountTotal, Asks
<1>2. get[r] \in List /\ ListOK(get[r])
  BY <1>1, Kinds DEF ReadInv, ReaderOK
<1>3. c \in Nat
  BY FiniteSets DEF Owned
<1> HIDE DEF c
<1>4. /\ n \in List /\ n.kind = "list" /\ n.pc = "page" /\ n.key = get[r].key
      /\ n.limit = get[r].limit /\ n.offset = get[r].offset
      /\ n.listed = get[r].listed /\ n.had = get[r].had
  BY <1>2, <1>3 DEF List
<1> HIDE DEF n
<1>5. ListOK(n)
  BY <1>1, <1>2, <1>4 DEF ListOK, Listed
<1>6. ReaderOK(n)
  BY <1>4, <1>5 DEF ReaderOK
<1> QED
  BY <1>4, <1>6 DEF CountTotal, Sound, Questions, n, c

Elements(s) == {s[i] : i \in DOMAIN s}

LEMMA JoinedElements ==
    ASSUME NEW S, NEW s \in Seq(S), NEW t \in Seq(S), NEW u, u = s \o t
    PROVE  Elements(u) = Elements(s) \cup Elements(t)
<1>1. u \in Seq(S) /\ Len(u) = Len(s) + Len(t) /\ Len(s) \in Nat /\ Len(t) \in Nat
  OBVIOUS
<1>2. DOMAIN s = 1 .. Len(s) /\ DOMAIN t = 1 .. Len(t) /\ DOMAIN u = 1 .. Len(s) + Len(t)
  BY <1>1
<1>3. \A i \in DOMAIN s : i \in DOMAIN u /\ u[i] = s[i]
  BY <1>1, <1>2
<1>4. \A i \in DOMAIN t : Len(s) + i \in DOMAIN u /\ u[Len(s) + i] = t[i]
  BY <1>1, <1>2
<1>5. \A k \in DOMAIN u : k \in DOMAIN s \/ k - Len(s) \in DOMAIN t
  BY <1>1, <1>2
<1>6. \A k \in DOMAIN u : k - Len(s) \in DOMAIN t => u[k] = t[k - Len(s)]
  BY <1>1, <1>2
<1>7. \A k \in DOMAIN u : \/ \E i \in DOMAIN s : u[k] = s[i]
                          \/ \E i \in DOMAIN t : u[k] = t[i]
  BY <1>3, <1>5, <1>6
<1>8. \A i \in DOMAIN t : \E k \in DOMAIN u : u[k] = t[i]
  BY <1>4
<1> QED
  BY <1>3, <1>7, <1>8 DEF Elements

LEMMA ReadPageSound ==
    ASSUME IInv, DatesOK, ReadInv, NEW r \in Readers, ReadPage(r)
    PROVE  Sound(r)
<1> DEFINE q == get[r]
           own == Owned(q.key)
           page == Page(own, q.limit, q.offset)
           pc == IF Len(page) = q.limit THEN "total" ELSE "over"
           listed == q.listed \o page
           offset == q.offset + q.limit
           n == [q EXCEPT !.listed = listed, !.offset = offset, !.pc = pc]
<1>1. q.kind = "list" /\ q.pc = "page" /\ Becomes(r, n)
  BY DEF ReadPage, Asks
<1>2. q \in List /\ ListOK(q) /\ q.offset \in Nat /\ q.limit \in Nat \ {0}
      /\ q.listed \in Seq(Uploads)
  BY <1>1, Kinds, LimitAssumption DEF ReadInv, ReaderOK, List, ListOK
<1>3. /\ own \subseteq Uploads /\ \A u \in own : jobs[u].at \in Nat
      /\ \A u, v \in own : jobs[u].at = jobs[v].at => u = v
  BY OwnedOnce
<1> HIDE DEF own
<1>4. /\ page \in Seq(Uploads) /\ \A i \in DOMAIN page : page[i] \in own
      /\ \A u \in own : Place(u, own) >= q.offset =>
           \/ \E i \in DOMAIN page : page[i] = u
           \/ Len(page) = q.limit /\ Place(u, own) >= q.offset + q.limit
  BY <1>2, <1>3, Pages
<1> HIDE DEF page
<1>5. listed \in Seq(Uploads) /\ offset \in Nat /\ pc \in {"total", "over"}
  BY <1>2, <1>4
<1>6. Listed(q) \cup Elements(page) = Elements(listed)
  <2>1. q.listed \in Seq(Uploads) /\ page \in Seq(Uploads)
    BY <1>2, <1>4
  <2>2. listed = q.listed \o page
    OBVIOUS
  <2> HIDE DEF listed
  <2>3. Elements(listed) = Elements(q.listed) \cup Elements(page)
    BY <2>1, <2>2, JoinedElements
  <2> QED
    BY <2>3 DEF Listed, Elements
<1> HIDE DEF listed, offset, pc
<1>7. /\ n \in List /\ n.kind = "list" /\ n.pc = pc /\ n.key = q.key /\ n.limit = q.limit
      /\ n.offset = offset /\ n.listed = listed /\ n.had = q.had
  BY <1>2, <1>5 DEF List
<1> HIDE DEF n
<1>8. Listed(n) = Listed(q) \cup Elements(page)
  BY <1>6, <1>7 DEF Listed, Elements
<1>9. Listed(n) \subseteq own
  BY <1>2, <1>4, <1>8 DEF ListOK, own, Elements
<1>10. ASSUME NEW u \in q.had, u \notin Listed(n)
      PROVE  n.pc # "over" /\ Place(u, own) >= n.offset
  <2>1. u \notin Listed(q) /\ ~\E i \in DOMAIN page : page[i] = u
    BY <1>8, <1>10 DEF Elements
  <2>2. u \in own /\ Place(u, own) >= q.offset
    BY <1>2, <2>1 DEF ListOK, own
  <2> QED
    BY <1>4, <1>7, <2>1, <2>2 DEF pc, offset
<1>11. ListOK(n)
  BY <1>2, <1>7, <1>9, <1>10 DEF ListOK, own
<1>12. ReaderOK(n)
  BY <1>7, <1>11 DEF ReaderOK
<1> QED
  BY <1>1, <1>7, <1>12 DEF Sound, Questions

LEMMA MetricsSound ==
    ASSUME IInv, ReadInv, NEW r \in Readers,
           AskMetrics(r) \/ CountByStatus(r) \/ CountDone(r) \/ CountCached(r)
    PROVE  Sound(r)
<1> DEFINE q == get[r]
           Cached(S) == {u \in S : jobs[u].cached}
<1>1. /\ Done \subseteq Uploads /\ DoneTotal \in Nat /\ DoneCached \in Nat
      /\ Cardinality(Done) = DoneTotal
  BY FiniteSets DEF Done, DoneTotal, DoneCached
<1>2. CASE AskMetrics(r)
  <2> DEFINE n == [kind |-> "metrics", pc |-> "status", had |-> Done,
                   done |-> 0, total |-> 0, cached |-> 0]
  <2>1. n \in Scrape
    BY <1>1 DEF Scrape
  <2>2. ScrapeOK(n) /\ n.kind = "metrics"
    BY DEF ScrapeOK
  <2> HIDE DEF n
  <2>3. ReaderOK(n)
    BY <2>2 DEF ReaderOK
  <2> QED
    BY <1>2, <2>1, <2>3 DEF AskMetrics, Sound, Questions, n
<1>3. CASE CountByStatus(r)
  <2> DEFINE n == [q EXCEPT !.pc = "total", !.done = Cardinality(Done)]
  <2>1. q.kind = "metrics" /\ Becomes(r, n)
    BY <1>3 DEF CountByStatus, Asks
  <2>2. q \in Scrape /\ ScrapeOK(q)
    BY <2>1, Kinds DEF ReadInv, ReaderOK
  <2>3. /\ n \in Scrape /\ n.kind = "metrics" /\ n.pc = "total" /\ n.had = q.had
        /\ n.done = DoneTotal
    BY <1>1, <2>1, <2>2 DEF Scrape
  <2>4. Cardinality(q.had) <= DoneTotal
    BY <1>1, <2>2, Fewer DEF ScrapeOK
  <2> HIDE DEF n
  <2>5. ReaderOK(n)
    BY <1>1, <2>2, <2>3, <2>4 DEF ReaderOK, ScrapeOK
  <2> QED
    BY <2>1, <2>3, <2>5 DEF Sound, Questions
<1>4. CASE CountDone(r)
  <2> DEFINE n == [q EXCEPT !.pc = "cached", !.total = DoneTotal]
  <2>1. q.kind = "metrics" /\ q.pc = "total" /\ Becomes(r, n)
    BY <1>4 DEF CountDone, Asks
  <2>2. q \in Scrape /\ ScrapeOK(q)
    BY <2>1, Kinds DEF ReadInv, ReaderOK
  <2>3. /\ n \in Scrape /\ n.kind = "metrics" /\ n.pc = "cached" /\ n.had = q.had
        /\ n.done = q.done /\ n.total = DoneTotal
    BY <1>1, <2>1, <2>2 DEF Scrape
  <2> HIDE DEF n
  <2>4. ReaderOK(n)
    BY <1>1, <2>1, <2>2, <2>3 DEF ReaderOK, ScrapeOK
  <2> QED
    BY <2>1, <2>3, <2>4 DEF Sound, Questions
<1>5. CASE CountCached(r)
  <2> DEFINE n == [q EXCEPT !.pc = "over", !.cached = DoneCached]
  <2>1. q.kind = "metrics" /\ q.pc = "cached" /\ Becomes(r, n)
    BY <1>5 DEF CountCached, Asks
  <2>2. q \in Scrape /\ ScrapeOK(q) /\ q.total \in Nat /\ q.done \in Nat
    BY <2>1, Kinds DEF ReadInv, ReaderOK, Scrape
  <2>3. /\ n \in Scrape /\ n.kind = "metrics" /\ n.pc = "over" /\ n.had = q.had
        /\ n.done = q.done /\ n.total = q.total /\ n.cached = DoneCached
    BY <1>1, <2>1, <2>2 DEF Scrape
  <2> HIDE DEF n
  <2>4. DoneCached <= q.total + Cardinality(Cached(Done \ q.had))
    <3> DEFINE old == Cached(q.had)
               new == Cached(Done \ q.had)
    <3>1. Cached(Done) = old \cup new /\ old \cap new = {} /\ q.had \subseteq Uploads
      BY <1>1, <2>2 DEF ScrapeOK
    <3>2. old \subseteq q.had /\ new \subseteq Uploads /\ old \subseteq Uploads
      BY <1>1, <3>1
    <3> HIDE DEF old, new
    <3>3. IsFiniteSet(old) /\ IsFiniteSet(new) /\ Cardinality(old) \in Nat
          /\ Cardinality(new) \in Nat
      BY <3>2, FiniteSets
    <3>4. Cardinality(old \cup new) = Cardinality(old) + Cardinality(new)
      BY <3>1, <3>3, FS_Union, FS_EmptySet
    <3>5. Cardinality(old) <= Cardinality(q.had) /\ Cardinality(q.had) \in Nat
      BY <3>1, <3>2, Fewer
    <3>6. Cardinality(q.had) <= q.done /\ q.done <= q.total
      BY <2>1, <2>2 DEF ScrapeOK
    <3>7. DoneCached = Cardinality(old \cup new)
      BY <3>1 DEF DoneCached
    <3> QED
      BY <2>2, <3>3, <3>4, <3>5, <3>6, <3>7 DEF new
  <2>5. ReaderOK(n)
    BY <2>1, <2>2, <2>3, <2>4 DEF ReaderOK, ScrapeOK
  <2> QED
    BY <2>1, <2>3, <2>5 DEF Sound, Questions
<1> QED
  BY <1>2, <1>3, <1>4, <1>5

LEMMA FailReadSound ==
    ASSUME NEW r \in Readers, FailRead(r)
    PROVE  Sound(r)
<1>1. Gone \in Questions /\ ReaderOK(Gone)
  BY DEF Questions, ReaderOK, Gone
<1> QED
  BY <1>1 DEF FailRead, Sound

-----------------------------------------------------------------------------
(* Repetitions. *)

\* What was listed and has been pushed down to a page still to come.
Pushed(q) == {u \in Listed(q) : Place(u, Owned(q.key)) >= q.offset}

\* Every repetition, past or to come, is owed to an arrival.
RepeatsOK(q) ==
    Len(q.listed) - Cardinality(Listed(q)) + Cardinality(Pushed(q))
      <= Cardinality(Owned(q.key) \ q.had)

RepeatInv == \A r \in Readers : get[r].kind = "list" => RepeatsOK(get[r])

LEMMA Counts ==
    ASSUME NEW q \in List, Listed(q) \subseteq Owned(q.key)
    PROVE  /\ Listed(q) \subseteq Uploads /\ Len(q.listed) \in Nat
           /\ Cardinality(Listed(q)) \in Nat /\ Cardinality(Pushed(q)) \in Nat
           /\ Cardinality(Owned(q.key) \ q.had) \in Nat
<1>1. Listed(q) \subseteq Uploads /\ Pushed(q) \subseteq Uploads
      /\ Owned(q.key) \ q.had \subseteq Uploads
  BY DEF Owned, Pushed
<1>2. q.listed \in Seq(Uploads)
  BY DEF List
<1> QED
  BY <1>1, <1>2, FiniteSets

\* A list is as long as it has elements unless one of them is repeated.
LEMMA Lengths ==
    ASSUME NEW s \in Seq(Uploads), \A i, k \in DOMAIN s : s[i] = s[k] => i = k
    PROVE  Cardinality(Elements(s)) = Len(s)
<1> DEFINE n == Len(s)
<1>1. n \in Nat /\ DOMAIN s = 1 .. n
  OBVIOUS
<1>2. IsFiniteSet(1 .. n) /\ Cardinality(1 .. n) = n
  BY <1>1, FS_Interval
<1>3. s \in Injection(1 .. n, Elements(s)) /\ s \in Surjection(1 .. n, Elements(s))
  <2>1. s \in [1 .. n -> Elements(s)]
    BY <1>1 DEF Elements
  <2>2. \A e \in Elements(s) : \E i \in 1 .. n : s[i] = e
    BY <1>1 DEF Elements
  <2> QED
    BY <1>1, <2>1, <2>2 DEF Injection, IsInjective, Surjection
<1> HIDE DEF n
<1>4. Cardinality(Elements(s)) = Cardinality(1 .. n)
  BY <1>2, <1>3, FS_Surjection
<1> QED
  BY <1>2, <1>4 DEF n

\* A new row pushes at most one job over the edge of the pages seen.
LEMMA RepeatsStay ==
    ASSUME IInv, DatesOK, Next, NEW q \in List, ListOK(q), RepeatsOK(q)
    PROVE  RepeatsOK(q)'
<1> DEFINE own == Owned(q.key)
           L == Listed(q)
<1>1. /\ own \subseteq own' /\ own \subseteq Uploads /\ own' \subseteq Uploads
      /\ \A u \in own : jobs'[u].at = jobs[u].at
      /\ \A u, v \in own' \ own : u = v
  BY RowsKept DEF RowsStay, Owned, Has
<1>2. L' = L /\ L \subseteq own /\ q.had \subseteq own /\ q.offset \in Nat
  BY DEF ListOK, List, Listed
<1>3. Len(q.listed) \in Nat /\ Cardinality(L) \in Nat /\ Cardinality(Pushed(q)) \in Nat
      /\ Cardinality(own \ q.had) \in Nat
  BY <1>2, Counts
<1>4. CASE own' = own
  <2>1. \A u \in own : Place(u, own)' = Place(u, own)
    <3> SUFFICES ASSUME NEW u \in own PROVE Place(u, own)' = Place(u, own)
      OBVIOUS
    <3>1. {v \in own' : jobs'[v].at > jobs'[u].at} = {v \in own : jobs[v].at > jobs[u].at}
      BY <1>1, <1>4
    <3> QED
      BY <3>1 DEF Place, Before
  <2>2. Pushed(q)' = Pushed(q)
    BY <1>2, <1>4, <2>1 DEF Pushed
  <2> QED
    BY <1>2, <1>4, <2>2 DEF RepeatsOK
<1>5. ASSUME NEW a \in own', a \notin own
      PROVE  RepeatsOK(q)'
  <2>1. own' = own \cup {a}
    BY <1>1, <1>5
  <2>2. ASSUME NEW u \in own
        PROVE  /\ Place(u, own) \in Nat /\ Place(u, own)' \in Nat
               /\ Place(u, own)' <= Place(u, own) + 1
    <3> DEFINE S == {v \in own : jobs[v].at > jobs[u].at}
               T == {v \in own' : jobs'[v].at > jobs'[u].at}
    <3>1. T \subseteq S \cup {a} /\ S \subseteq Uploads /\ T \subseteq Uploads
          /\ S \cup {a} \subseteq Uploads
      BY <1>1, <1>5, <2>1
    <3>2. Place(u, own) = Cardinality(S) /\ Place(u, own)' = Cardinality(T)
      BY DEF Place, Before
    <3> HIDE DEF S, T
    <3>3. Cardinality(S \cup {a}) <= Cardinality(S) + 1 /\ Cardinality(S) \in Nat
      BY <3>1, FiniteSets, FS_AddElement
    <3>4. Cardinality(T) <= Cardinality(S \cup {a}) /\ Cardinality(T) \in Nat
          /\ Cardinality(S \cup {a}) \in Nat
      BY <3>1, Fewer
    <3> QED
      BY <3>2, <3>3, <3>4
  <2> DEFINE edge == {u \in L : Place(u, own) = q.offset - 1}
  <2>3. Pushed(q)' \subseteq Pushed(q) \cup edge
    BY <1>2, <2>2 DEF Pushed
  <2>4. Cardinality(edge) <= 1 /\ Cardinality(edge) \in Nat
    <3>1. \A u, v \in own : Place(u, own) = Place(v, own) => u = v
      BY OwnedOnce, Places
    <3>2. edge \subseteq Uploads /\ \A u, v \in edge : u = v
      BY <1>1, <1>2, <3>1
    <3> HIDE DEF edge
    <3> QED
      BY <3>2, OneAtMost
  <2>5. Cardinality(Pushed(q)') <= Cardinality(Pushed(q)) + 1 /\ Cardinality(Pushed(q)') \in Nat
    <3>1. Pushed(q) \subseteq Uploads /\ edge \subseteq Uploads
          /\ Pushed(q) \cup edge \subseteq Uploads
      BY <1>1, <1>2 DEF Pushed
    <3> HIDE DEF edge
    <3>2. Cardinality(Pushed(q)') <= Cardinality(Pushed(q) \cup edge)
          /\ Cardinality(Pushed(q)') \in Nat /\ Cardinality(Pushed(q) \cup edge) \in Nat
      BY <2>3, <3>1, Fewer
    <3>3. Cardinality(Pushed(q) \cup edge) <= Cardinality(Pushed(q)) + Cardinality(edge)
      <4> DEFINE P == Pushed(q)
      <4>1. P \subseteq Uploads /\ edge \subseteq Uploads
        BY <3>1
      <4> HIDE DEF P
      <4>2. /\ Cardinality(P) \in Nat /\ Cardinality(edge) \in Nat
            /\ Cardinality(P \cup edge) \in Nat /\ Cardinality(P \cap edge) \in Nat
            /\ Cardinality(P \cup edge)
                 = Cardinality(P) + Cardinality(edge) - Cardinality(P \cap edge)
        BY <4>1, Joined
      <4> QED
        BY <4>2 DEF P
    <3> QED
      BY <1>3, <2>4, <3>2, <3>3
  <2>6. Cardinality((own \ q.had)') = Cardinality(own \ q.had) + 1
    <3>1. (own \ q.had)' = (own \ q.had) \cup {a} /\ a \notin own \ q.had
      BY <1>2, <1>5, <2>1
    <3>2. IsFiniteSet(own \ q.had)
      BY <1>1, FiniteSets
    <3> QED
      BY <3>1, <3>2, FS_AddElement
  <2>7. /\ RepeatsOK(q) <=> Len(q.listed) - Cardinality(L) + Cardinality(Pushed(q))
                              <= Cardinality(own \ q.had)
        /\ RepeatsOK(q)' <=> Len(q.listed) - Cardinality(L) + Cardinality(Pushed(q)')
                               <= Cardinality((own \ q.had)')
    BY <1>2 DEF RepeatsOK
  <2> HIDE DEF own, L
  <2> QED
    BY <1>3, <2>5, <2>6, <2>7
<1> QED
  BY <1>1, <1>4, <1>5

\* A page repeats only what was pushed onto it, and leaves it behind.
LEMMA RepeatsRead ==
    ASSUME IInv, DatesOK, NEW q \in List, ListOK(q), RepeatsOK(q),
           NEW n \in List, n.key = q.key, n.had = q.had, n.offset = q.offset + q.limit,
           NEW more, more = Page(Owned(q.key), q.limit, q.offset),
           Listed(n) = Listed(q) \cup Elements(more), Len(n.listed) = Len(q.listed) + Len(more)
    PROVE  RepeatsOK(n)
<1> DEFINE own == Owned(q.key)
           page == Page(own, q.limit, q.offset)
           L == Listed(q)
           E == Elements(page)
<1>1. /\ own \subseteq Uploads /\ \A u \in own : jobs[u].at \in Nat
      /\ \A u, v \in own : jobs[u].at = jobs[v].at => u = v
  BY OwnedOnce
<1>2. L \subseteq own /\ q.offset \in Nat /\ q.limit \in Nat \ {0} /\ q.listed \in Seq(Uploads)
  BY LimitAssumption DEF ListOK, List
<1> HIDE DEF own
<1>3. /\ page \in Seq(Uploads) /\ \A i \in DOMAIN page : page[i] \in own
      /\ Len(page) <= q.limit
      /\ \A i \in DOMAIN page : Place(page[i], own) = q.offset + i - 1
  BY <1>1, <1>2, Pages
<1> HIDE DEF page
<1>4. DOMAIN page = 1 .. Len(page) /\ Len(page) \in Nat
  BY <1>3
<1> HIDE DEF L, E
<1>5. Cardinality(E) = Len(page)
  <2>1. \A i, k \in DOMAIN page : page[i] = page[k] => i = k
    BY <1>2, <1>3, <1>4
  <2> QED
    BY <1>3, <2>1, Lengths DEF E
<1>6. \A u \in E : u \in own /\ Place(u, own) \in Int /\ Place(u, own) >= q.offset
                   /\ Place(u, own) < q.offset + q.limit
  BY <1>2, <1>3, <1>4 DEF Elements, E
<1>7. Listed(n) = L \cup E /\ Len(n.listed) = Len(q.listed) + Len(page)
  BY DEF L, E, page, own
<1>8. L \subseteq Uploads /\ E \subseteq Uploads
  BY <1>1, <1>2, <1>6
<1>9. Cardinality(L \cup E) = Cardinality(L) + Cardinality(E) - Cardinality(L \cap E)
  BY <1>8, Joined
<1>10. Cardinality(Pushed(n)) + Cardinality(L \cap E) <= Cardinality(Pushed(q))
  <2> DEFINE A == Pushed(n)
             B == L \cap E
  <2>1. \A u \in own : Place(u, own) \in Nat
    BY <1>1, FiniteSets DEF Place
  <2>2. A \cup B \subseteq Pushed(q) /\ A \cap B = {}
    BY <1>2, <1>6, <1>7, <2>1 DEF Pushed, own, L
  <2>3. Pushed(q) \subseteq Uploads /\ A \subseteq Uploads /\ B \subseteq Uploads
    BY <1>7, <1>8 DEF Pushed, L
  <2> HIDE DEF A, B
  <2>4. Cardinality(A \cup B) = Cardinality(A) + Cardinality(B)
    <3>1. /\ Cardinality(A) \in Nat /\ Cardinality(B) \in Nat
          /\ Cardinality(A \cup B) = Cardinality(A) + Cardinality(B) - Cardinality(A \cap B)
      BY <2>3, Joined
    <3>2. Cardinality(A \cap B) = 0
      BY <2>2, FS_EmptySet
    <3> QED
      BY <3>1, <3>2
  <2>5. Cardinality(A \cup B) <= Cardinality(Pushed(q))
    BY <2>2, <2>3, Fewer
  <2> QED
    BY <2>4, <2>5 DEF A, B
<1>11. /\ Cardinality(L) \in Nat /\ Cardinality(E) \in Nat /\ Cardinality(L \cap E) \in Nat
       /\ Cardinality(Pushed(n)) \in Nat /\ Cardinality(Pushed(q)) \in Nat
       /\ Cardinality(own \ q.had) \in Nat /\ Len(q.listed) \in Nat
  <2>1. Pushed(n) \subseteq Uploads /\ Pushed(q) \subseteq Uploads
    BY <1>7, <1>8 DEF Pushed, L
  <2> QED
    BY <1>1, <1>2, <1>8, <2>1, FiniteSets
<1>12. /\ RepeatsOK(q) <=> Len(q.listed) - Cardinality(L) + Cardinality(Pushed(q))
                             <= Cardinality(own \ q.had)
       /\ RepeatsOK(n) <=> Len(n.listed) - Cardinality(L \cup E) + Cardinality(Pushed(n))
                             <= Cardinality(own \ q.had)
  BY <1>7 DEF RepeatsOK, L, own
<1> DEFINE was == Len(q.listed)
           is == Len(n.listed)
           turned == Len(page)
           seen == Cardinality(L)
           both == Cardinality(L \cap E)
           all == Cardinality(L \cup E)
           before == Cardinality(Pushed(q))
           after == Cardinality(Pushed(n))
           arrived == Cardinality(own \ q.had)
<1>13. /\ was \in Nat /\ turned \in Nat /\ seen \in Nat /\ both \in Nat
       /\ before \in Nat /\ after \in Nat /\ arrived \in Nat
       /\ is = was + turned /\ all = seen + turned - both /\ after + both <= before
       /\ was - seen + before <= arrived
  <2>1. is = was + turned
    BY <1>7
  <2>2. all = seen + turned - both
    BY <1>5, <1>9
  <2>3. was - seen + before <= arrived
    BY <1>12
  <2> QED
    BY <1>4, <1>10, <1>11, <2>1, <2>2, <2>3
<1>14. is - all + after <= arrived => RepeatsOK(n)
  BY <1>12
<1> HIDE DEF was, is, turned, seen, both, all, before, after, arrived
<1> QED
  BY <1>13, <1>14

\* What a reader goes on with.
LEMMA RepeatsTold ==
    ASSUME IInv, DatesOK, ReadInv, RepeatInv, NEW r \in Readers, Tell(r), UNCHANGED vars
    PROVE  RepeatInv'
<1>1. get \in [Readers -> Questions]
  BY DEF ReadInv
<1>2. \A q : RepeatsOK(q)' <=> RepeatsOK(q)
  BY DEF vars, RepeatsOK, Pushed, Listed, Place, Before, Owned, Has
<1>3. ASSUME NEW n, Becomes(r, n), n.kind = "list" => RepeatsOK(n)
      PROVE  RepeatInv'
  BY <1>1, <1>2, <1>3 DEF RepeatInv, Becomes
<1>4. CASE AskStatus(r) \/ CheckKey(r) \/ ReadJob(r) \/ AskMetrics(r) \/ CountByStatus(r)
           \/ CountDone(r) \/ CountCached(r) \/ FailRead(r)
  <2>1. \E n : Becomes(r, n) /\ n.kind \in {"status", "metrics", "failed"}
    <3>1. /\ get[r].kind = "status" => get[r] \in Status
          /\ get[r].kind = "metrics" => get[r] \in Scrape
      BY <1>1, Kinds
    <3>2. CASE AskStatus(r)
      BY <3>2 DEF AskStatus
    <3>3. CASE AskMetrics(r) \/ FailRead(r)
      BY <3>3 DEF AskMetrics, FailRead, Gone
    <3>4. CASE CheckKey(r) \/ ReadJob(r)
      <4> DEFINE q == get[r]
      <4>1. q \in Status
        BY <3>1, <3>4 DEF CheckKey, ReadJob, Asks
      <4>2. \/ Becomes(r, [q EXCEPT !.pc = "job"])
            \/ \E e : Becomes(r, [q EXCEPT !.pc = "over", !.answer = e])
        BY <3>4 DEF CheckKey, ReadJob
      <4> HIDE DEF q
      <4>3. CASE Becomes(r, [q EXCEPT !.pc = "job"])
        BY <4>1, <4>3 DEF Status
      <4>4. ASSUME NEW e, Becomes(r, [q EXCEPT !.pc = "over", !.answer = e])
            PROVE  \E n : Becomes(r, n) /\ n.kind \in {"status", "metrics", "failed"}
        <5> DEFINE n == [q EXCEPT !.pc = "over", !.answer = e]
        <5>1. Becomes(r, n) /\ n.kind = "status"
          BY <4>1, <4>4 DEF Status
        <5> HIDE DEF n
        <5> QED
          BY <5>1
      <4> QED
        BY <4>2, <4>3, <4>4
    <3>5. CASE CountByStatus(r) \/ CountDone(r) \/ CountCached(r)
      <4> DEFINE q == get[r]
      <4>1. q \in Scrape
        BY <3>1, <3>5 DEF CountByStatus, CountDone, CountCached, Asks
      <4>2. \E pc, c : \/ Becomes(r, [q EXCEPT !.pc = pc, !.done = c])
                       \/ Becomes(r, [q EXCEPT !.pc = pc, !.total = c])
                       \/ Becomes(r, [q EXCEPT !.pc = pc, !.cached = c])
        BY <3>5 DEF CountByStatus, CountDone, CountCached
      <4> HIDE DEF q
      <4>3. ASSUME NEW pc, NEW c
            PROVE  /\ [q EXCEPT !.pc = pc, !.done = c].kind = "metrics"
                   /\ [q EXCEPT !.pc = pc, !.total = c].kind = "metrics"
                   /\ [q EXCEPT !.pc = pc, !.cached = c].kind = "metrics"
        BY <4>1 DEF Scrape
      <4>4. PICK n : Becomes(r, n) /\ n.kind = "metrics"
        BY <4>2, <4>3, Zenon
      <4> QED
        BY <4>4
    <3> QED
      BY <1>4, <3>2, <3>3, <3>4, <3>5
  <2> QED
    BY <1>3, <2>1
<1>5. CASE AskList(r)
  <2>1. PICK key \in Keys, limit \in Limits :
          Becomes(r, [kind |-> "list", pc |-> "total", key |-> key, limit |-> limit,
                      offset |-> 0, total |-> 0, listed |-> <<>>, had |-> Owned(key)])
    BY <1>5 DEF AskList
  <2> DEFINE n == [kind |-> "list", pc |-> "total", key |-> key, limit |-> limit,
                   offset |-> 0, total |-> 0, listed |-> <<>>, had |-> Owned(key)]
  <2>2. Listed(n) = {} /\ Pushed(n) = {} /\ Len(n.listed) = 0 /\ Owned(n.key) \ n.had = {}
    BY DEF Listed, Pushed
  <2> HIDE DEF n
  <2>3. RepeatsOK(n)
    BY <2>2, FS_EmptySet DEF RepeatsOK
  <2> QED
    BY <1>3, <2>1, <2>3 DEF n
<1>6. ASSUME Asks(r, "list", get[r].pc)
      PROVE  get[r] \in List /\ ListOK(get[r]) /\ RepeatsOK(get[r])
  BY <1>6, Kinds DEF Asks, ReadInv, ReaderOK, RepeatInv
<1>7. CASE CountTotal(r)
  <2> DEFINE q == get[r]
             c == Cardinality(Owned(q.key))
             n == [q EXCEPT !.pc = "page", !.total = c]
  <2>1. Becomes(r, n) /\ q \in List /\ RepeatsOK(q)
    BY <1>6, <1>7 DEF CountTotal, Asks
  <2> HIDE DEF c
  <2>2. n.key = q.key /\ n.had = q.had /\ n.offset = q.offset /\ n.listed = q.listed
    BY <2>1 DEF List
  <2> HIDE DEF n
  <2>3. RepeatsOK(n)
    BY <2>1, <2>2 DEF RepeatsOK, Pushed, Listed
  <2> QED
    BY <1>3, <2>1, <2>3
<1>8. CASE ReadPage(r)
  <2> DEFINE q == get[r]
             page == Page(Owned(q.key), q.limit, q.offset)
             pc == IF Len(page) = q.limit THEN "total" ELSE "over"
             listed == q.listed \o page
             n == [q EXCEPT !.listed = listed, !.offset = @ + q.limit, !.pc = pc]
  <2>1. Becomes(r, n) /\ q \in List /\ ListOK(q) /\ RepeatsOK(q)
    BY <1>6, <1>8 DEF ReadPage, Asks
  <2>2. /\ q.offset \in Nat /\ q.limit \in Nat \ {0} /\ q.listed \in Seq(Uploads)
        /\ page \in Seq(Uploads)
    BY <2>1, LimitAssumption, OwnedOnce, Pages DEF ListOK, List
  <2>3. listed \in Seq(Uploads) /\ q.offset + q.limit \in Nat /\ pc \in {"total", "over"}
    BY <2>2
  <2> HIDE DEF pc, listed
  <2>4. /\ n \in List /\ n.key = q.key /\ n.had = q.had /\ n.offset = q.offset + q.limit
        /\ n.listed = listed
    BY <2>1, <2>3 DEF List
  <2> HIDE DEF n
  <2>5. Elements(listed) = Elements(q.listed) \cup Elements(page)
        /\ Len(listed) = Len(q.listed) + Len(page)
    <3> HIDE DEF page
    <3>1. q.listed \in Seq(Uploads) /\ page \in Seq(Uploads)
      BY <2>2
    <3>2. listed = q.listed \o page
      BY DEF listed
    <3> HIDE DEF listed
    <3>3. Elements(listed) = Elements(q.listed) \cup Elements(page)
      BY <3>1, <3>2, JoinedElements
    <3>4. Len(listed) = Len(q.listed) + Len(page)
      BY <3>1, <3>2
    <3> QED
      BY <3>3, <3>4
  <2>6. Listed(n) = Listed(q) \cup Elements(page) /\ Len(n.listed) = Len(q.listed) + Len(page)
    BY <2>4, <2>5 DEF Listed, Elements
  <2>7. RepeatsOK(n)
    BY <2>1, <2>4, <2>6, RepeatsRead
  <2> QED
    BY <1>3, <2>1, <2>7
<1> QED
  BY <1>4, <1>5, <1>7, <1>8 DEF Tell

-----------------------------------------------------------------------------
(* The theorems. *)

LEMMA AllInit == InitAll => AllInv
<1> SUFFICES ASSUME InitAll PROVE AllInv
  OBVIOUS
<1>1. IInv /\ DatesOK
  BY InitHolds, DatesInit DEF InitAll
<1>2. Nothing \in Questions /\ ReaderOK(Nothing)
  BY DEF Questions, ReaderOK, Nothing
<1>3. ReadInv
  BY <1>2 DEF InitAll, ReadInv
<1> QED
  BY <1>1, <1>3 DEF AllInv

LEMMA AllStep == AllInv /\ [NextAll]_allVars => AllInv'
<1> SUFFICES ASSUME AllInv, [NextAll]_allVars PROVE AllInv'
  OBVIOUS
<1>1. IInv /\ DatesOK /\ ReadInv
  BY DEF AllInv
<1>2. CASE Next /\ UNCHANGED get
  <2>1. IInv'
    BY <1>1, <1>2, Inductive
  <2>2. DatesOK'
    BY <1>1, <1>2, DatesStep
  <2>3. ReadInv'
    BY <1>1, <1>2, ReadersStay
  <2> QED
    BY <2>1, <2>2, <2>3 DEF AllInv
<1>3. ASSUME UNCHANGED vars
      PROVE  IInv' /\ DatesOK'
  <2>1. IInv'
    BY <1>1, <1>3, Inductive
  <2>2. DatesOK'
    BY <1>1, <1>3 DEF vars, DatesOK, Begun, Has
  <2> QED
    BY <2>1, <2>2
<1>4. ASSUME NEW r \in Readers, Tell(r), UNCHANGED vars
      PROVE  AllInv'
  <2>1. Sound(r)
    BY <1>1, <1>4, AskStatusSound, CheckKeySound, ReadJobSound, AskListSound, CountTotalSound,
       ReadPageSound, MetricsSound, FailReadSound DEF Tell
  <2>2. ReadInv'
    BY <1>1, <1>4, <2>1, Answering DEF Sound
  <2> QED
    BY <1>3, <1>4, <2>2 DEF AllInv
<1>5. CASE UNCHANGED allVars
  <2>1. UNCHANGED vars /\ UNCHANGED get
    BY <1>5 DEF allVars
  <2>2. ReadInv'
    <3>1. \A x \in Questions : ReaderOK(x) => ReaderOK(x)'
      BY <2>1, StandsStill
    <3> QED
      BY <1>1, <2>1, <3>1 DEF ReadInv
  <2> QED
    BY <1>3, <2>1, <2>2 DEF AllInv
<1> QED
  BY <1>2, <1>4, <1>5 DEF NextAll

\* Whatever is asked while uploads and workers go on, the readers keep what
\* they know of the tables consistent with them.
THEOREM AllInvariance == SpecAll => []AllInv
BY AllInit, AllStep, PTL DEF SpecAll

\* Every question and every answer keeps its shape.
THEOREM ReadsTypeCorrect == SpecAll => []ReadsOK
<1>1. AllInv => ReadsOK
  BY DEF AllInv, ReadInv, Questions, ReadsOK
<1> QED
  BY <1>1, AllInvariance, PTL

\* Who holds the key of a job finds it, nobody else learns that it exists.
THEOREM OwnerAloneFinds == SpecAll => []OwnerAloneFindsJob
<1>1. AllInv => OwnerAloneFindsJob
  BY DEF AllInv, ReadInv, ReaderOK, StatusOK, OwnerAloneFindsJob, Over
<1> QED
  BY <1>1, AllInvariance, PTL

\* Whatever arrives between two pages, and however long each is, paging shows
\* every job that was there when it began.
THEOREM PagingComplete == SpecAll => []PagingMissesNothing
<1>1. AllInv => PagingMissesNothing
  BY DEF AllInv, ReadInv, ReaderOK, ListOK, PagingMissesNothing, Over
<1> QED
  BY <1>1, AllInvariance, PTL

\* However the pages are cut by what arrives, there are no more repetitions than
\* arrivals.
THEOREM RepetitionsOwed == SpecAll => []PagingRepeatsArrivals
<1>1. InitAll => RepeatInv
  BY DEF InitAll, RepeatInv, Nothing
<1>2. AllInv /\ RepeatInv /\ [NextAll]_allVars => RepeatInv'
  <2> SUFFICES ASSUME AllInv, RepeatInv, [NextAll]_allVars PROVE RepeatInv'
    OBVIOUS
  <2>1. IInv /\ DatesOK /\ ReadInv
    BY DEF AllInv
  <2>2. CASE Next /\ UNCHANGED get
    <3> SUFFICES ASSUME NEW r \in Readers, get[r].kind = "list" PROVE RepeatsOK(get[r])'
      BY <2>2 DEF RepeatInv
    <3>1. get[r] \in List /\ ListOK(get[r]) /\ RepeatsOK(get[r])
      BY <2>1, Kinds DEF ReadInv, ReaderOK, RepeatInv
    <3> DEFINE q == get[r]
    <3>2. q' = q
      BY <2>2
    <3>3. \A x \in List : ListOK(x) /\ RepeatsOK(x) => RepeatsOK(x)'
      BY <2>1, <2>2, RepeatsStay
    <3> QED
      BY <3>1, <3>2, <3>3
  <2>3. CASE \E r \in Readers : Tell(r) /\ UNCHANGED vars
    BY <2>1, <2>3, RepeatsTold
  <2>4. CASE UNCHANGED allVars
    BY <2>4 DEF allVars, vars, RepeatInv, RepeatsOK, Pushed, Listed, Place, Before, Owned, Has
  <2> QED
    BY <2>2, <2>3, <2>4 DEF NextAll
<1>3. AllInv /\ RepeatInv => PagingRepeatsArrivals
  <2> SUFFICES ASSUME AllInv, RepeatInv, NEW r \in Readers, get[r].kind = "list"
               PROVE  Len(get[r].listed) - Cardinality(Listed(get[r]))
                        <= Cardinality(Owned(get[r].key) \ get[r].had)
    BY DEF PagingRepeatsArrivals
  <2>1. get[r] \in List /\ ListOK(get[r]) /\ RepeatsOK(get[r])
    BY Kinds DEF AllInv, ReadInv, ReaderOK, RepeatInv
  <2> DEFINE q == get[r]
             repeated == Len(q.listed) - Cardinality(Listed(q))
  <2>2. repeated \in Int /\ Cardinality(Pushed(q)) \in Nat
        /\ Cardinality(Owned(q.key) \ q.had) \in Nat
    BY <2>1, Counts DEF ListOK
  <2>3. repeated + Cardinality(Pushed(q)) <= Cardinality(Owned(q.key) \ q.had)
    BY <2>1 DEF RepeatsOK
  <2> HIDE DEF repeated, q
  <2>4. repeated <= Cardinality(Owned(q.key) \ q.had)
    BY <2>2, <2>3
  <2> QED
    BY <2>4 DEF repeated, q
<1> QED
  BY <1>1, <1>2, <1>3, AllInvariance, PTL DEF SpecAll

\* The counts of a scrape disagree by what was settled meanwhile at most.
THEOREM ScrapeDrifts == SpecAll => []ScrapeDrift
<1>1. AllInv => ScrapeDrift
  <2> SUFFICES ASSUME AllInv, NEW r \in Readers, Over(get[r], "metrics")
               PROVE  LET q == get[r] IN
                        /\ Cardinality(q.had) <= q.done /\ q.done <= q.total
                        /\ q.total <= DoneTotal
                        /\ q.cached <= q.total
                             + Cardinality({u \in Done \ q.had : jobs[u].cached})
    BY DEF ScrapeDrift
  <2>1. ScrapeOK(get[r]) /\ get[r].pc = "over"
    BY DEF AllInv, ReadInv, ReaderOK, Over
  <2> QED
    BY <2>1 DEF ScrapeOK
<1> QED
  BY <1>1, AllInvariance, PTL

=============================================================================
