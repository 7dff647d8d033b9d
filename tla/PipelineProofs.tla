--------------------------- MODULE PipelineProofs ---------------------------
(***************************************************************************)
(* Proofs about Pipeline, for any number of uploads, workers, keys, files  *)
(* and types, either storage backend and any set of faults: IInv is        *)
(* inductive, and the safety properties follow from it.                    *)
(***************************************************************************)
EXTENDS PipelineInvariant, FiniteSetTheorems, TLAPS

RqStates == {"unknown", "queued", "started", "finished", "failed"}
RequestPcs == {"idle", "lookup", "clone", "save", "write", "insert", "enqueue"} \cup Answered
WorkerPcs == {"idle", "load", "read", "extract", "ai", "validating", "final"}

-----------------------------------------------------------------------------
(* What the building blocks of the actions do, without EXCEPT. *)

\* The handler of u goes to p and nothing else happens to the requests.
RequestGoes(u, p) ==
    /\ req' \in [Uploads -> Request]
    /\ req'[u].pc = p
    /\ req'[u].key = req[u].key /\ req'[u].file = req[u].file /\ req'[u].type = req[u].type
    /\ req'[u].at = req[u].at
    /\ \A v \in Uploads \ {u} : req'[v] = req[v]

\* The row of j gets status s and nothing else happens to the jobs.
StatusGoes(j, s) ==
    /\ jobs' \in [Uploads -> Job]
    /\ jobs'[j].status = s
    /\ jobs'[j].owner = jobs[j].owner /\ jobs'[j].file = jobs[j].file
    /\ jobs'[j].type = jobs[j].type /\ jobs'[j].cached = jobs[j].cached
    /\ jobs'[j].at = jobs[j].at
    /\ \A i \in Uploads \ {j} : jobs'[i] = jobs[i]

\* Worker w goes to p with all it knows.
WorkerGoes(w, p) ==
    /\ wk' \in [Workers -> Worker]
    /\ wk'[w].pc = p
    /\ wk'[w].job = wk[w].job /\ wk'[w].tries = wk[w].tries
    /\ wk'[w].kept = wk[w].kept /\ wk'[w].passed = wk[w].passed
    /\ \A x \in Workers \ {w} : wk'[x] = wk[x]

\* Worker w becomes idle and RQ notes one of outcomes for its job.
WorkerLeaves(w, outcomes) ==
    /\ wk' \in [Workers -> Worker]
    /\ wk'[w].pc = "idle" /\ wk'[w].job = None
    /\ \A x \in Workers \ {w} : wk'[x] = wk[x]
    /\ rq' \in [Uploads -> RqStates]
    /\ rq'[wk[w].job] \in outcomes
    /\ \A i \in Uploads \ {wk[w].job} : rq'[i] = rq[i]

LEMMA GotoEffect ==
    ASSUME TypeOK, NEW u \in Uploads, NEW p \in RequestPcs, Goto(u, p)
    PROVE  RequestGoes(u, p)
<1>1. req \in [Uploads -> Request]
  BY DEF TypeOK
<1> QED
  BY <1>1 DEF Goto, RequestGoes, Request, RequestPcs, Answered

LEMMA SetStatusEffect ==
    ASSUME TypeOK, NEW j \in Uploads, NEW s \in JobStatus, SetStatus(j, s)
    PROVE  StatusGoes(j, s)
<1>1. jobs \in [Uploads -> Job]
  BY DEF TypeOK
<1> QED
  BY <1>1 DEF SetStatus, StatusGoes, Job

LEMMA StepEffect ==
    ASSUME TypeOK, NEW w \in Workers, NEW p \in WorkerPcs, Step(w, p)
    PROVE  WorkerGoes(w, p)
<1>1. wk \in [Workers -> Worker]
  BY DEF TypeOK
<1> QED
  BY <1>1 DEF Step, WorkerGoes, Worker, WorkerPcs

LEMMA FreshType ==
    ASSUME NEW j \in Uploads
    PROVE  Free \in Worker /\ Fresh("load", j) \in Worker
BY DEF Free, Fresh, Worker

LEMMA LeaveEffect ==
    ASSUME TypeOK, NEW w \in Workers, wk[w].job \in Uploads,
           NEW o \in {"finished", "failed"}, Leave(w, o)
    PROVE  WorkerLeaves(w, {o})
<1>1. wk \in [Workers -> Worker] /\ rq \in [Uploads -> RqStates]
  BY DEF TypeOK, RqStates
<1>2. wk'[w] = Free /\ (\A x \in Workers \ {w} : wk'[x] = wk[x]) /\ wk' \in [Workers -> Worker]
  BY <1>1, FreshType DEF Leave
<1> QED
  BY <1>1, <1>2 DEF Leave, WorkerLeaves, RqStates, Free, Fresh

LEMMA ReturnEffect ==
    ASSUME TypeOK, NEW w \in Workers, wk[w].job \in Uploads, Return(w)
    PROVE  WorkerLeaves(w, {"finished", "failed"})
<1>1. WorkerLeaves(w, {"finished"}) \/ WorkerLeaves(w, {"failed"})
  BY LeaveEffect DEF Return
<1> QED
  BY <1>1 DEF WorkerLeaves

LEMMA RowsType ==
    ASSUME NEW tries \in Seq({"valid", "invalid"})
    PROVE  Rows(tries) \in Seq(JobAttempt)
<1>1. ASSUME NEW n \in 1 .. Len(tries)
      PROVE  [stage |-> "EXTRACTING_AI", number |-> n, outcome |-> tries[n]] \in JobAttempt
  <2>1. tries[n] \in {"valid", "invalid"}
    OBVIOUS
  <2> QED
    BY <2>1 DEF JobAttempt
<1>2. Rows(tries) \in [1 .. Len(tries) -> JobAttempt]
  BY <1>1 DEF Rows
<1> QED
  BY <1>2

LEMMA BegunType ==
    ASSUME NEW S, S \subseteq Uploads
    PROVE  1 + Cardinality(S) \in Nat
<1>1. IsFiniteSet(S)
  BY FS_Subset, FiniteAssumption
<1>2. Cardinality(S) \in Nat
  BY <1>1, FS_CardinalityType
<1> QED
  BY <1>2

-----------------------------------------------------------------------------
(* What each action does. *)

LEMMA BeginEffect ==
    ASSUME TypeOK, NEW u \in Uploads, Begin(u)
    PROVE  /\ req[u].pc = "idle" /\ req' \in [Uploads -> Request]
           /\ req'[u].pc = "lookup"
           /\ req'[u].key \in Keys /\ req'[u].file \in Files /\ req'[u].type \in Types
           /\ req'[u].at = 1 + Cardinality({o \in Uploads : req[o].pc # "idle"})
           /\ \A v \in Uploads \ {u} : req'[v] = req[v]
           /\ UNCHANGED <<jobs, results, audit, store, queue, rq, wk, llm>>
<1>1. req \in [Uploads -> Request]
  BY DEF TypeOK
<1>2. PICK k \in Keys, f \in Files, t \in Types :
        req' = [req EXCEPT ![u] =
                 [pc |-> "lookup", key |-> k, file |-> f, type |-> t, hit |-> None,
                  at |-> 1 + Cardinality({o \in Uploads : req[o].pc # "idle"})]]
  BY DEF Begin
<1>3. [pc |-> "lookup", key |-> k, file |-> f, type |-> t, hit |-> None,
       at |-> 1 + Cardinality({o \in Uploads : req[o].pc # "idle"})] \in Request
  BY BegunType DEF Request
<1> QED
  BY <1>1, <1>2, <1>3 DEF Begin

LEMMA LookupEffect ==
    ASSUME TypeOK, NEW u \in Uploads, Lookup(u)
    PROVE  /\ req[u].pc = "lookup"
           /\ \/ RequestGoes(u, "save")
              \/ /\ RequestGoes(u, "clone")
                 /\ req'[u].hit \in Uploads
                 /\ jobs[req'[u].hit].status = "DONE"
                 /\ jobs[req'[u].hit].file = req[u].file
                 /\ jobs[req'[u].hit].type = req[u].type
           /\ UNCHANGED <<jobs, results, audit, store, queue, rq, wk, llm>>
<1>1. req \in [Uploads -> Request]
  BY DEF TypeOK
<1>2. CASE Goto(u, "save")
  BY <1>2, GotoEffect DEF Lookup, RequestPcs
<1>3. ASSUME NEW h \in Hits(u), req' = [req EXCEPT ![u].pc = "clone", ![u].hit = h]
      PROVE  /\ RequestGoes(u, "clone") /\ req'[u].hit = h /\ h \in Uploads
             /\ jobs[h].status = "DONE" /\ jobs[h].file = req[u].file
             /\ jobs[h].type = req[u].type
  BY <1>1, <1>3 DEF Hits, RequestGoes, Request
<1> QED
  BY <1>2, <1>3 DEF Lookup

LEMMA CloneEffect ==
    ASSUME TypeOK, NEW u \in Uploads, RequestOK(u), Clone(u)
    PROVE  /\ req[u].pc = "clone"
           /\ RequestGoes(u, "cached") \/ RequestGoes(u, "error")
           /\ jobs' \in [Uploads -> Job] /\ results' \in [Uploads -> JobResult]
           /\ jobs'[u].status = "DONE" /\ jobs'[u].cached = TRUE
           /\ jobs'[u].owner = req[u].key /\ jobs'[u].at = req[u].at
           /\ jobs'[u].file = req[u].file /\ jobs'[u].type = req[u].type
           /\ results'[u] = results[req[u].hit]
           /\ \A v \in Uploads \ {u} : jobs'[v] = jobs[v] /\ results'[v] = results[v]
           /\ UNCHANGED <<audit, store, queue, rq, wk, llm>>
<1> DEFINE h == req[u].hit
           row == [status |-> "DONE", owner |-> req[u].key, file |-> jobs[h].file,
                   type |-> jobs[h].type, cached |-> TRUE, at |-> req[u].at]
<1>1. /\ req \in [Uploads -> Request] /\ jobs \in [Uploads -> Job]
      /\ results \in [Uploads -> JobResult]
  BY DEF TypeOK
<1>2. /\ req[u].pc = "clone" /\ h \in Uploads
      /\ jobs[h].file = req[u].file /\ jobs[h].type = req[u].type
  BY DEF RequestOK, Clone
<1>3. row \in Job
  <2>1. /\ req[u].key \in Keys \cup {None} /\ req[u].at \in Nat
        /\ jobs[h].file \in Files \cup {None} /\ jobs[h].type \in Types \cup {None}
    BY <1>1, <1>2 DEF Request, Job
  <2> QED
    BY <2>1 DEF Job, JobStatus, Settled
<1>4. jobs' = [jobs EXCEPT ![u] = row] /\ results' = [results EXCEPT ![u] = results[h]]
  BY DEF Clone
<1>5. RequestGoes(u, "cached") \/ RequestGoes(u, "error")
  <2>1. Goto(u, "cached") \/ Goto(u, "error")
    BY DEF Clone, Respond
  <2> QED
    BY <2>1, GotoEffect DEF RequestPcs, Answered
<1> QED
  BY <1>1, <1>2, <1>3, <1>4, <1>5 DEF Clone

LEMMA SaveEffect ==
    ASSUME TypeOK, NEW u \in Uploads, RequestOK(u), Save(u) \/ SaveWrite(u)
    PROVE  /\ req[u].pc \in {"save", "write"}
           /\ RequestGoes(u, "write") \/ RequestGoes(u, "insert")
           /\ store' \in [Files -> {"absent", "whole"} \cup Uploads]
           /\ \A f \in Files : store'[f] = "absent" => store[f] = "absent" /\ f # req[u].file
           /\ UNCHANGED <<jobs, results, audit, queue, rq, wk, llm>>
<1>1. store \in [Files -> {"absent", "whole"} \cup Uploads]
  BY DEF TypeOK
<1>2. RequestGoes(u, "write") \/ RequestGoes(u, "insert")
  <2>1. Goto(u, "write") \/ Goto(u, "insert")
    BY DEF Save, SaveWrite
  <2> QED
    BY <2>1, GotoEffect DEF RequestPcs
<1>3. req[u].file \in Files
  BY DEF RequestOK, Save, SaveWrite
<1>4. PICK s \in {"whole", u, store[req[u].file]} :
        store' = [store EXCEPT ![req[u].file] = s] /\ s # "absent"
  <2>1. CASE Save(u)
    BY <2>1, UploadAssumption DEF Save
  <2>2. CASE SaveWrite(u)
    BY <2>2 DEF SaveWrite, RequestOK
  <2> QED
    BY <2>1, <2>2
<1> QED
  BY <1>1, <1>2, <1>3, <1>4 DEF Save, SaveWrite

LEMMA InsertEffect ==
    ASSUME TypeOK, NEW u \in Uploads, RequestOK(u), Insert(u)
    PROVE  /\ req[u].pc = "insert" /\ RequestGoes(u, "enqueue")
           /\ jobs' \in [Uploads -> Job]
           /\ jobs'[u].status = "PENDING" /\ jobs'[u].cached = FALSE
           /\ jobs'[u].owner = req[u].key /\ jobs'[u].at = req[u].at
           /\ jobs'[u].file = req[u].file /\ jobs'[u].type = req[u].type
           /\ \A v \in Uploads \ {u} : jobs'[v] = jobs[v]
           /\ UNCHANGED <<results, audit, store, queue, rq, wk, llm>>
<1> DEFINE row == [status |-> "PENDING", owner |-> req[u].key, file |-> req[u].file,
                   type |-> req[u].type, cached |-> FALSE, at |-> req[u].at]
<1>1. req \in [Uploads -> Request] /\ jobs \in [Uploads -> Job]
  BY DEF TypeOK
<1>2. row \in Job
  <2>1. /\ req[u].key \in Keys /\ req[u].at \in Nat
        /\ req[u].file \in Files /\ req[u].type \in Types
    BY <1>1 DEF Request, RequestOK, Insert
  <2> QED
    BY <2>1 DEF Job, JobStatus, Stages
<1>3. jobs' = [jobs EXCEPT ![u] = row]
  BY DEF Insert
<1>4. RequestGoes(u, "enqueue")
  BY GotoEffect DEF Insert, RequestPcs
<1> QED
  BY <1>1, <1>2, <1>3, <1>4 DEF Insert

LEMMA EnqueueEffect ==
    ASSUME TypeOK, NEW u \in Uploads, Enqueue(u)
    PROVE  /\ req[u].pc = "enqueue"
           /\ RequestGoes(u, "accepted") \/ RequestGoes(u, "error")
           /\ queue' = Append(queue, u) /\ queue' \in Seq(Uploads)
           /\ rq' \in [Uploads -> RqStates]
           /\ rq'[u] = "queued"
           /\ \A v \in Uploads \ {u} : rq'[v] = rq[v]
           /\ UNCHANGED <<jobs, results, audit, store, wk, llm>>
<1>1. queue \in Seq(Uploads) /\ rq \in [Uploads -> RqStates]
  BY DEF TypeOK, RqStates
<1>2. RequestGoes(u, "accepted") \/ RequestGoes(u, "error")
  <2>1. Goto(u, "accepted") \/ Goto(u, "error")
    BY DEF Enqueue, Respond
  <2> QED
    BY <2>1, GotoEffect DEF RequestPcs, Answered
<1> QED
  BY <1>1, <1>2 DEF Enqueue, RqStates

LEMMA FailEffect ==
    ASSUME TypeOK, NEW u \in Uploads, Fail(u)
    PROVE  /\ req[u].pc \notin {"idle", "accepted", "cached", "error"}
           /\ RequestGoes(u, "error")
           /\ UNCHANGED <<jobs, results, audit, store, queue, rq, wk, llm>>
<1>1. RequestGoes(u, "error")
  BY GotoEffect DEF Fail, RequestPcs, Answered
<1> QED
  BY <1>1 DEF Fail, Answered

LEMMA DequeueEffect ==
    ASSUME TypeOK, NEW w \in Workers, Dequeue(w)
    PROVE  /\ wk[w].pc = "idle" /\ queue # <<>>
           /\ Head(queue) \in Uploads
           /\ queue' = Tail(queue) /\ queue' \in Seq(Uploads)
           /\ wk' \in [Workers -> Worker]
           /\ wk'[w].pc = "load" /\ wk'[w].job = Head(queue)
           /\ wk'[w].kept = None /\ wk'[w].tries = <<>>
           /\ \A x \in Workers \ {w} : wk'[x] = wk[x]
           /\ rq' \in [Uploads -> RqStates]
           /\ rq'[Head(queue)] = "started"
           /\ \A i \in Uploads \ {Head(queue)} : rq'[i] = rq[i]
           /\ UNCHANGED <<req, jobs, results, audit, store, llm>>
<1>1. /\ wk \in [Workers -> Worker] /\ rq \in [Uploads -> RqStates]
      /\ queue \in Seq(Uploads) /\ queue # <<>>
  BY DEF TypeOK, RqStates, Dequeue
<1>2. Head(queue) \in Uploads /\ Tail(queue) \in Seq(Uploads)
  BY <1>1
<1>3. /\ wk' = [wk EXCEPT ![w] = Fresh("load", Head(queue))]
      /\ rq' = [rq EXCEPT ![Head(queue)] = "started"]
      /\ queue' = Tail(queue) /\ wk[w].pc = "idle"
      /\ UNCHANGED <<req, jobs, results, audit, store, llm>>
  BY DEF Dequeue, At
<1>4. /\ wk' \in [Workers -> Worker] /\ wk'[w] = Fresh("load", Head(queue))
      /\ \A x \in Workers \ {w} : wk'[x] = wk[x]
  BY <1>1, <1>2, <1>3, FreshType
<1>5. /\ wk'[w].pc = "load" /\ wk'[w].job = Head(queue)
      /\ wk'[w].kept = None /\ wk'[w].tries = <<>>
  BY <1>4 DEF Fresh
<1>6. /\ rq' \in [Uploads -> RqStates] /\ rq'[Head(queue)] = "started"
      /\ \A i \in Uploads \ {Head(queue)} : rq'[i] = rq[i]
  BY <1>1, <1>2, <1>3 DEF RqStates
<1> QED
  BY <1>1, <1>2, <1>3, <1>4, <1>5, <1>6

\* A busy worker runs a job that RQ calls started.
LEMMA BusyWorker ==
    ASSUME IInv, NEW w \in Workers, wk[w].pc # "idle"
    PROVE  /\ wk[w].job \in Uploads /\ rq[wk[w].job] = "started"
           /\ WorkerOK(w) /\ RowOK(wk[w].job) /\ ~jobs[wk[w].job].cached
<1>1. WorkerOK(w) /\ wk \in [Workers -> Worker]
  BY DEF IInv, TypeOK
<1>2. wk[w].job \in Uploads
  BY <1>1 DEF WorkerOK, Worker
<1> QED
  BY <1>1, <1>2 DEF IInv, WorkerOK

LEMMA LoadEffect ==
    ASSUME IInv, NEW w \in Workers, Load(w)
    PROVE  /\ wk[w].pc = "load" /\ WorkerGoes(w, "read")
           /\ StatusGoes(wk[w].job, "EXTRACTING")
           /\ UNCHANGED <<req, results, audit, store, queue, rq, llm>>
<1>1. wk[w].pc = "load" /\ TypeOK
  BY DEF Load, At, IInv
<1>2. wk[w].job \in Uploads /\ Has(wk[w].job)
  BY <1>1, BusyWorker DEF WorkerOK, Has
<1> QED
  BY <1>1, <1>2, SetStatusEffect, StepEffect DEF Load, JobStatus, Stages, WorkerPcs

LEMMA ReadEffect ==
    ASSUME IInv, NEW w \in Workers, Read(w)
    PROVE  /\ wk[w].pc = "read" /\ WorkerGoes(w, "extract") /\ wk'[w].data # "none"
           /\ UNCHANGED <<req, jobs, results, audit, store, queue, rq, llm>>
<1>1. wk[w].pc = "read" /\ wk \in [Workers -> Worker]
  BY DEF Read, At, IInv, TypeOK
<1>2. /\ wk[w].job \in Uploads /\ RowOK(wk[w].job) /\ Has(wk[w].job)
      /\ ~jobs[wk[w].job].cached
  BY <1>1, BusyWorker DEF WorkerOK, Has
<1>3. store[jobs[wk[w].job].file] # "absent"
  BY <1>2 DEF RowOK
<1>4. PICK d \in {"whole", "damaged"} : wk' = [wk EXCEPT ![w].pc = "extract", ![w].data = d]
  BY <1>3 DEF Read
<1>5. WorkerGoes(w, "extract") /\ wk'[w].data = d
  BY <1>1, <1>4 DEF WorkerGoes, Worker
<1> QED
  BY <1>1, <1>3, <1>5 DEF Read

LEMMA RaisesEffect ==
    ASSUME IInv, NEW w \in Workers, ExtractRaises(w) \/ LLMRaises(w)
    PROVE  /\ wk[w].pc \in {"extract", "ai"}
           /\ WorkerLeaves(w, {"finished", "failed"})
           /\ StatusGoes(wk[w].job, "FAILED")
           /\ audit' \in [Uploads -> Seq(JobAttempt)]
           /\ llm' \in [Uploads -> 0 .. MaxAttempts]
           /\ \A i \in Uploads \ {wk[w].job} : audit'[i] = audit[i] /\ llm'[i] = llm[i]
           /\ UNCHANGED <<req, results, store, queue>>
<1> DEFINE j == wk[w].job
<1>1. wk[w].pc \in {"extract", "ai"} /\ TypeOK
  BY DEF ExtractRaises, LLMRaises, At, IInv
<1>2. j \in Uploads /\ WorkerOK(w)
  BY <1>1, BusyWorker
<1>3. PICK stage \in {"EXTRACTING", "EXTRACTING_AI"} : GiveUp(w, stage)
  BY DEF ExtractRaises, LLMRaises
<1>4. audit' = [audit EXCEPT ![j] = Append(@, RaisedRow(stage))]
  BY <1>3 DEF GiveUp
<1>5. RaisedRow(stage) \in JobAttempt /\ audit \in [Uploads -> Seq(JobAttempt)]
  BY DEF RaisedRow, JobAttempt, IInv, TypeOK
<1>6. /\ audit' \in [Uploads -> Seq(JobAttempt)]
      /\ \A i \in Uploads \ {j} : audit'[i] = audit[i]
  BY <1>2, <1>4, <1>5
<1>7. /\ llm' \in [Uploads -> 0 .. MaxAttempts]
      /\ \A i \in Uploads \ {j} : llm'[i] = llm[i]
  <2>1. llm \in [Uploads -> 0 .. MaxAttempts] /\ wk[w] \in Worker
    BY DEF IInv, TypeOK
  <2>2. CASE LLMRaises(w)
    <3>1. llm' = [llm EXCEPT ![j] = @ + 1] /\ wk[w].pc = "ai"
      BY <2>2 DEF LLMRaises, At
    <3>2. llm[j] = Len(wk[w].tries) /\ Len(wk[w].tries) < MaxAttempts
      BY <1>2, <3>1 DEF WorkerOK
    <3> QED
      BY <1>2, <2>1, <3>1, <3>2, AttemptsAssumption
  <2>3. CASE ExtractRaises(w)
    BY <2>1, <2>3 DEF ExtractRaises
  <2> QED
    BY <2>2, <2>3
<1>8. WorkerLeaves(w, {"finished", "failed"}) /\ StatusGoes(j, "FAILED")
  BY <1>1, <1>2, <1>3, ReturnEffect, SetStatusEffect DEF GiveUp, JobStatus, Settled
<1> QED
  BY <1>1, <1>3, <1>6, <1>7, <1>8 DEF GiveUp

LEMMA ExtractTextEffect ==
    ASSUME IInv, NEW w \in Workers, ExtractText(w)
    PROVE  /\ wk[w].pc = "extract"
           /\ results' \in [Uploads -> JobResult]
           /\ results'[wk[w].job].text # "absent" /\ results'[wk[w].job].fields = None
           /\ \A i \in Uploads \ {wk[w].job} : results'[i] = results[i]
           /\ \/ /\ jobs[wk[w].job].type = Invoice /\ UNCHANGED rq
                 /\ WorkerGoes(w, "ai") /\ StatusGoes(wk[w].job, "EXTRACTING_AI")
              \/ /\ jobs[wk[w].job].type # Invoice
                 /\ WorkerLeaves(w, {"finished", "failed"}) /\ StatusGoes(wk[w].job, "DONE")
           /\ UNCHANGED <<req, audit, store, queue, llm>>
<1> DEFINE j == wk[w].job
<1>1. /\ wk[w].pc = "extract" /\ TypeOK
      /\ results \in [Uploads -> JobResult] /\ wk \in [Workers -> Worker]
  BY DEF ExtractText, At, IInv, TypeOK
<1>2. j \in Uploads /\ wk[w].data \in {"whole", "damaged"}
  BY <1>1, BusyWorker DEF WorkerOK, Worker
<1>3. /\ results' = [results EXCEPT ![j] = [text |-> wk[w].data, fields |-> None]]
      /\ [text |-> wk[w].data, fields |-> None] \in JobResult
  BY <1>2 DEF ExtractText, JobResult
<1>4. CASE jobs[j].type = Invoice
  <2>1. WorkerGoes(w, "ai") /\ StatusGoes(j, "EXTRACTING_AI") /\ UNCHANGED rq
    BY <1>1, <1>2, <1>4, StepEffect, SetStatusEffect
    DEF ExtractText, WorkerPcs, JobStatus, Stages
  <2> QED
    BY <1>1, <1>2, <1>3, <1>4, <2>1 DEF ExtractText
<1>5. CASE jobs[j].type # Invoice
  <2>1. WorkerLeaves(w, {"finished", "failed"}) /\ StatusGoes(j, "DONE")
    BY <1>1, <1>2, <1>5, ReturnEffect, SetStatusEffect DEF ExtractText, JobStatus, Settled
  <2> QED
    BY <1>1, <1>2, <1>3, <1>5, <2>1 DEF ExtractText
<1> QED
  BY <1>4, <1>5

LEMMA RepliedEffect ==
    ASSUME NEW o \in Worker, NEW a \in Answers \cup {None},
           o.kept \notin Valid, Len(o.tries) < MaxAttempts
    PROVE  LET n == Replied(o, a) IN
             /\ n \in Worker /\ n.job = o.job /\ Len(n.tries) = Len(o.tries) + 1
             /\ n.passed <=> n.kept \in Valid
             /\ \/ n.pc = "ai" /\ ~n.passed /\ Len(n.tries) < MaxAttempts
                \/ n.pc = "validating"
<1> DEFINE tries == Append(o.tries, IF a \in Valid THEN "valid" ELSE "invalid")
           kept  == IF a = None THEN o.kept ELSE a
<1>1. /\ o.tries \in Seq({"valid", "invalid"}) /\ tries \in Seq({"valid", "invalid"})
      /\ Len(tries) = Len(o.tries) + 1 /\ Len(o.tries) \in Nat
      /\ o.job \in Uploads \cup {None} /\ o.data \in {"none", "whole", "damaged"}
      /\ kept \in Answers \cup {None}
  BY DEF Worker
<1>2. None \notin Valid
  BY SetAssumption, NoneAssumption
<1>3. Replied(o, a) = [pc |-> IF a \in Valid \/ Len(tries) = MaxAttempts THEN "validating" ELSE "ai",
                       job |-> o.job, data |-> o.data,
                       tries |-> tries, kept |-> kept, passed |-> a \in Valid]
  BY DEF Replied, LastAttempt
<1>4. kept \in Valid <=> a \in Valid
  BY <1>2
<1>5. a \in Valid \/ Len(tries) = MaxAttempts \/ Len(tries) < MaxAttempts
  BY <1>1, AttemptsAssumption
<1> HIDE DEF tries, kept
<1>6. CASE a \in Valid
  <2>1. Replied(o, a) = [pc |-> "validating", job |-> o.job, data |-> o.data,
                         tries |-> tries, kept |-> kept, passed |-> TRUE]
    BY <1>3, <1>6
  <2> QED
    BY <1>1, <1>4, <1>6, <2>1 DEF Worker
<1>7. CASE a \notin Valid
  <2> DEFINE pc == IF Len(tries) = MaxAttempts THEN "validating" ELSE "ai"
  <2>1. Replied(o, a) = [pc |-> pc, job |-> o.job, data |-> o.data,
                         tries |-> tries, kept |-> kept, passed |-> FALSE]
    <3>1. (a \in Valid) = FALSE
      BY <1>7
    <3>2. (a \in Valid \/ Len(tries) = MaxAttempts) = (Len(tries) = MaxAttempts)
      BY <1>7
    <3> QED
      BY <1>3, <3>1, <3>2
  <2>2. pc \in {"validating", "ai"} /\ (pc = "ai" => Len(tries) < MaxAttempts)
    BY <1>5, <1>7
  <2> HIDE DEF pc
  <2> QED
    BY <1>1, <1>4, <1>7, <2>1, <2>2 DEF Worker
<1> QED
  BY <1>6, <1>7

LEMMA CallLLMEffect ==
    ASSUME IInv, NEW w \in Workers, CallLLM(w)
    PROVE  /\ wk[w].pc = "ai" /\ wk' \in [Workers -> Worker]
           /\ wk'[w].job = wk[w].job
           /\ wk'[w].passed <=> wk'[w].kept \in Valid
           /\ \/ wk'[w].pc = "ai" /\ ~wk'[w].passed /\ Len(wk'[w].tries) < MaxAttempts
              \/ wk'[w].pc = "validating"
           /\ \A x \in Workers \ {w} : wk'[x] = wk[x]
           /\ llm' \in [Uploads -> 0 .. MaxAttempts]
           /\ llm'[wk[w].job] = Len(wk'[w].tries)
           /\ \A i \in Uploads \ {wk[w].job} : llm'[i] = llm[i]
           /\ UNCHANGED <<req, jobs, results, audit, store, queue, rq>>
<1> DEFINE j == wk[w].job
<1>1. /\ wk[w].pc = "ai" /\ wk \in [Workers -> Worker]
      /\ llm \in [Uploads -> 0 .. MaxAttempts]
  BY DEF CallLLM, At, IInv, TypeOK
<1>2. /\ j \in Uploads /\ wk[w].kept \notin Valid
      /\ llm[j] = Len(wk[w].tries) /\ Len(wk[w].tries) < MaxAttempts
  BY <1>1, BusyWorker DEF WorkerOK
<1>3. PICK a \in Answers \cup {None} : wk' = [wk EXCEPT ![w] = Replied(wk[w], a)]
  BY DEF CallLLM
<1>4. LET n == Replied(wk[w], a) IN
        /\ n \in Worker /\ n.job = j /\ Len(n.tries) = Len(wk[w].tries) + 1
        /\ n.passed <=> n.kept \in Valid
        /\ \/ n.pc = "ai" /\ ~n.passed /\ Len(n.tries) < MaxAttempts
           \/ n.pc = "validating"
  BY <1>1, <1>2, RepliedEffect
<1>5. /\ wk' \in [Workers -> Worker] /\ wk'[w] = Replied(wk[w], a)
      /\ \A x \in Workers \ {w} : wk'[x] = wk[x]
  BY <1>1, <1>3, <1>4
<1>6. llm' = [llm EXCEPT ![j] = @ + 1]
  BY DEF CallLLM
<1>7. /\ llm' \in [Uploads -> 0 .. MaxAttempts] /\ llm'[j] = llm[j] + 1
      /\ \A i \in Uploads \ {j} : llm'[i] = llm[i]
  BY <1>1, <1>2, <1>6, AttemptsAssumption
<1> QED
  BY <1>1, <1>2, <1>4, <1>5, <1>7 DEF CallLLM

LEMMA RecordAttemptsEffect ==
    ASSUME IInv, NEW w \in Workers, RecordAttempts(w)
    PROVE  /\ wk[w].pc = "validating" /\ WorkerGoes(w, "final")
           /\ StatusGoes(wk[w].job, "VALIDATING")
           /\ audit' \in [Uploads -> Seq(JobAttempt)]
           /\ \A i \in Uploads \ {wk[w].job} : audit'[i] = audit[i]
           /\ UNCHANGED <<req, results, store, queue, rq, llm>>
<1> DEFINE j == wk[w].job
<1>1. /\ wk[w].pc = "validating" /\ TypeOK /\ wk \in [Workers -> Worker]
      /\ audit \in [Uploads -> Seq(JobAttempt)]
  BY DEF RecordAttempts, At, IInv, TypeOK
<1>2. j \in Uploads
  BY <1>1, BusyWorker
<1>3. Rows(wk[w].tries) \in Seq(JobAttempt)
  BY <1>1, RowsType DEF Worker
<1>4. audit' = [audit EXCEPT ![j] = @ \o Rows(wk[w].tries)]
  BY DEF RecordAttempts
<1>5. audit[j] \o Rows(wk[w].tries) \in Seq(JobAttempt)
  BY <1>1, <1>2, <1>3
<1>6. /\ audit' \in [Uploads -> Seq(JobAttempt)]
      /\ \A i \in Uploads \ {j} : audit'[i] = audit[i]
  BY <1>1, <1>2, <1>4, <1>5
<1>7. WorkerGoes(w, "final") /\ StatusGoes(j, "VALIDATING")
  BY <1>1, <1>2, StepEffect, SetStatusEffect DEF RecordAttempts, WorkerPcs, JobStatus, Stages
<1> QED
  BY <1>1, <1>6, <1>7 DEF RecordAttempts

LEMMA FinalizeEffect ==
    ASSUME IInv, NEW w \in Workers, Finalize(w)
    PROVE  /\ wk[w].pc = "final" /\ WorkerLeaves(w, {"finished", "failed"})
           /\ results' \in [Uploads -> JobResult]
           /\ results'[wk[w].job].text = results[wk[w].job].text
           /\ results'[wk[w].job].fields = wk[w].kept
           /\ \A i \in Uploads \ {wk[w].job} : results'[i] = results[i]
           /\ \/ wk[w].passed /\ StatusGoes(wk[w].job, "DONE")
              \/ ~wk[w].passed /\ StatusGoes(wk[w].job, "NEEDS_REVIEW")
           /\ UNCHANGED <<req, audit, store, queue, llm>>
<1> DEFINE j == wk[w].job
<1>1. /\ wk[w].pc = "final" /\ TypeOK /\ wk \in [Workers -> Worker]
      /\ results \in [Uploads -> JobResult]
  BY DEF Finalize, At, IInv, TypeOK
<1>2. j \in Uploads /\ wk[w].kept \in Answers \cup {None}
  BY <1>1, BusyWorker DEF Worker
<1>3. results' = [results EXCEPT ![j].fields = wk[w].kept]
  BY DEF Finalize
<1>4. /\ results' \in [Uploads -> JobResult]
      /\ results'[j].text = results[j].text /\ results'[j].fields = wk[w].kept
      /\ \A i \in Uploads \ {j} : results'[i] = results[i]
  BY <1>1, <1>2, <1>3 DEF JobResult
<1>5. WorkerLeaves(w, {"finished", "failed"})
  BY <1>1, <1>2, ReturnEffect DEF Finalize
<1>6. \/ wk[w].passed /\ StatusGoes(j, "DONE")
      \/ ~wk[w].passed /\ StatusGoes(j, "NEEDS_REVIEW")
  BY <1>1, <1>2, SetStatusEffect DEF Finalize, Verdict, JobStatus, Settled
<1> QED
  BY <1>1, <1>4, <1>5, <1>6 DEF Finalize

LEMMA EscapeEffect ==
    ASSUME IInv, NEW w \in Workers, Escape(w)
    PROVE  /\ wk[w].pc # "idle" /\ WorkerLeaves(w, {"failed"})
           /\ UNCHANGED <<req, jobs, results, audit, store, queue, llm>>
<1>1. wk[w].pc # "idle" /\ TypeOK
  BY DEF Escape, At, IInv
<1>2. wk[w].job \in Uploads
  BY <1>1, BusyWorker
<1> QED
  BY <1>1, <1>2, LeaveEffect DEF Escape

-----------------------------------------------------------------------------
(* The quantified conjuncts of IInv, one job at a time. *)

Earned(j) ==
    LET s == jobs[j].status IN
      /\ s = "DONE" => /\ results[j].text # "absent"
                       /\ jobs[j].type = Invoice => results[j].fields \in Valid
      /\ s = "NEEDS_REVIEW" => /\ results[j].text # "absent"
                               /\ results[j].fields \notin Valid

\* o is a job a worker took to DONE, with the file, type and result of j.
Origin(o, j) ==
    /\ jobs[o].status = "DONE" /\ ~jobs[o].cached /\ rq[o] \in {"finished", "failed"}
    /\ jobs[o].file = jobs[j].file /\ jobs[o].type = jobs[j].type
    /\ results[o] = results[j]

Proven(j) ==
    jobs[j].cached => /\ jobs[j].owner = req[j].key
                      /\ jobs[j].file = req[j].file /\ jobs[j].type = req[j].type
                      /\ \E o \in Uploads : Origin(o, j)

\* All that IInv says of job j.
JobOK(j) == RequestOK(j) /\ RowOK(j) /\ Earned(j) /\ Proven(j)

LEMMA Unfolded ==
    IInv <=> /\ TypeOK /\ QueueOK /\ Alone
             /\ \A j \in Uploads : JobOK(j)
             /\ \A w \in Workers : WorkerOK(w)
<1>1. VerdictIsEarned <=> \A j \in Uploads : Earned(j)
  BY DEF VerdictIsEarned, Earned
<1>2. CacheProvenance <=> \A j \in Uploads : Proven(j)
  BY DEF CacheProvenance, Proven, Origin
<1> QED
  BY <1>1, <1>2 DEF IInv, JobOK

\* The same of the next state, one job singled out.
LEMMA Refolded ==
    ASSUME NEW u \in Uploads, TypeOK', QueueOK', Alone', JobOK(u)',
           \A v \in Uploads \ {u} : JobOK(v)', \A w \in Workers : WorkerOK(w)'
    PROVE  IInv'
<1>1. \A v \in Uploads : JobOK(v)'
  OBVIOUS
<1>2. VerdictIsEarned'
  BY <1>1 DEF VerdictIsEarned, JobOK, Earned
<1>3. CacheProvenance'
  BY <1>1 DEF CacheProvenance, JobOK, Proven, Origin
<1> QED
  BY <1>1, <1>2, <1>3 DEF IInv, JobOK

\* A settled job is in nobody's hands.
LEMMA SettledIsFree ==
    ASSUME IInv, NEW j \in Uploads, jobs[j].status \in Settled
    PROVE  /\ rq[j] \in {"unknown", "finished", "failed"}
           /\ ~jobs[j].cached => rq[j] # "unknown"
           /\ \A w \in Workers : wk[w].job # j
<1>1. RowOK(j) /\ rq[j] \in RqStates /\ jobs[j].status \notin Stages \cup {"absent"}
  BY DEF IInv, TypeOK, RqStates, Settled, Stages
<1>2. rq[j] # "queued" /\ (rq[j] = "unknown" => jobs[j].cached)
  BY <1>1 DEF RowOK, Stages
<1>3. ASSUME NEW w \in Workers, wk[w].job = j
      PROVE  FALSE
  <2>1. j # None /\ WorkerOK(w) /\ wk[w].pc \in WorkerPcs
    BY NoneAssumption DEF IInv, TypeOK, Worker, WorkerPcs
  <2> QED
    BY <1>1, <1>3, <2>1 DEF WorkerOK, WorkerPcs, Stages
<1>4. rq[j] # "started"
  BY <1>1, <1>3 DEF RowOK
<1> QED
  BY <1>1, <1>2, <1>3, <1>4 DEF RqStates

\* A job without a row is unknown to RQ and in nobody's hands.
LEMMA AbsentIsFree ==
    ASSUME IInv, NEW j \in Uploads, jobs[j].status = "absent"
    PROVE  rq[j] = "unknown" /\ ~jobs[j].cached /\ \A w \in Workers : wk[w].job # j
<1>1. RowOK(j) /\ rq[j] \in RqStates
  BY DEF IInv, TypeOK, RqStates
<1>2. ASSUME NEW w \in Workers, wk[w].job = j
      PROVE  FALSE
  <2>1. j # None /\ WorkerOK(w) /\ wk[w].pc \in WorkerPcs
    BY NoneAssumption DEF IInv, TypeOK, Worker, WorkerPcs
  <2> QED
    BY <1>2, <2>1 DEF WorkerOK, WorkerPcs
<1>3. rq[j] # "started"
  BY <1>1, <1>2 DEF RowOK
<1> QED
  BY <1>1, <1>2, <1>3 DEF RowOK, RqStates, Has, Settled

-----------------------------------------------------------------------------
(* The initial states. *)

LEMMA InitHolds == Init => IInv
<1> SUFFICES ASSUME Init PROVE IInv
  OBVIOUS
<1>1. Idle \in Request /\ NoJob \in Job /\ NoResult \in JobResult
  BY DEF Idle, Request, NoJob, Job, NoResult, JobResult
<1>2. Free \in Worker
  BY DEF Free, Fresh, Worker
<1>3. TypeOK
  <2>1. 0 \in 0 .. MaxAttempts /\ <<>> \in Seq(JobAttempt) /\ <<>> \in Seq(Uploads)
    BY AttemptsAssumption
  <2> QED
    BY <1>1, <1>2, <2>1 DEF TypeOK, Init
<1>4. ASSUME NEW j \in Uploads
      PROVE  JobOK(j)
  <2>1. /\ req[j].pc = "idle" /\ jobs[j].status = "absent" /\ jobs[j].cached = FALSE
        /\ rq[j] = "unknown" /\ llm[j] = 0
    BY DEF Init, Idle, NoJob
  <2> QED
    BY <2>1 DEF JobOK, RequestOK, RowOK, Earned, Proven, Has
<1>5. \A w \in Workers : wk[w].pc = "idle" /\ wk[w].job = None
  BY DEF Init, Free, Fresh
<1>6. \A w \in Workers : WorkerOK(w)
  BY <1>5 DEF WorkerOK
<1>7. QueueOK /\ Alone
  BY <1>5 DEF QueueOK, Alone, Init
<1> QED
  BY <1>3, <1>4, <1>6, <1>7, Unfolded

-----------------------------------------------------------------------------
(* The steps of an upload handler. *)

\* A step of the handler of u leaves the other jobs and the workers alone.
LEMMA HandlerFrame ==
    ASSUME IInv, NEW u \in Uploads, UNCHANGED <<wk, llm>>, Entries \subseteq Entries',
           \A v \in Uploads \ {u} : /\ req'[v] = req[v] /\ jobs'[v] = jobs[v]
                                    /\ results'[v] = results[v] /\ rq'[v] = rq[v],
           \A f \in Files : store'[f] = "absent" => store[f] = "absent",
           \/ UNCHANGED <<jobs, results, rq>>
           \/ jobs[u].status # "DONE" /\ \A w \in Workers : wk[w].job # u
    PROVE  /\ \A v \in Uploads \ {u} : JobOK(v)'
           /\ \A w \in Workers : WorkerOK(w)'
           /\ Alone'
<1>1. /\ \A v \in Uploads : JobOK(v)
      /\ \A w \in Workers : WorkerOK(w)
      /\ Alone
  BY Unfolded
<1>2. ASSUME NEW v \in Uploads \ {u}
      PROVE  JobOK(v)'
  <2>1. RequestOK(v) /\ RowOK(v) /\ Earned(v) /\ Proven(v)
    BY <1>1 DEF JobOK
  <2>2. RequestOK(v)'
    BY <2>1 DEF RequestOK, Has
  <2>3. RowOK(v)'
    <3>1. Has(v) => jobs[v].file \in Files
      BY <2>1 DEF RowOK, RequestOK
    <3> QED
      BY <2>1, <3>1 DEF RowOK, Has
  <2>4. Earned(v)'
    BY <2>1 DEF Earned
  <2>5. Proven(v)'
    BY <2>1 DEF Proven, Origin
  <2> QED
    BY <2>2, <2>3, <2>4, <2>5 DEF JobOK
<1>3. ASSUME NEW w \in Workers
      PROVE  WorkerOK(w)'
  <2>1. WorkerOK(w) /\ wk[w] \in Worker
    BY <1>1 DEF IInv, TypeOK
  <2>2. CASE wk[w].pc = "idle"
    BY <2>1, <2>2 DEF WorkerOK
  <2>3. CASE wk[w].pc # "idle"
    <3>1. wk[w].job \in Uploads
      BY <2>3, BusyWorker
    <3>2. /\ jobs'[wk[w].job] = jobs[wk[w].job] /\ rq'[wk[w].job] = rq[wk[w].job]
          /\ results'[wk[w].job] = results[wk[w].job]
      BY <3>1
    <3> QED
      BY <2>1, <3>2 DEF WorkerOK
  <2> QED
    BY <2>2, <2>3
<1>4. Alone'
  BY <1>1 DEF Alone
<1> QED
  BY <1>2, <1>3, <1>4

LEMMA BeginKeeps ==
    ASSUME IInv, NEW u \in Uploads, Begin(u)
    PROVE  IInv'
<1>1. TypeOK /\ JobOK(u) /\ QueueOK
  BY Unfolded
<1>2. /\ req[u].pc = "idle" /\ req' \in [Uploads -> Request]
      /\ req'[u].pc = "lookup"
      /\ req'[u].key \in Keys /\ req'[u].file \in Files /\ req'[u].type \in Types
      /\ \A v \in Uploads \ {u} : req'[v] = req[v]
      /\ UNCHANGED <<jobs, results, audit, store, queue, rq, wk, llm>>
  BY <1>1, BeginEffect
<1>3. TypeOK'
  BY <1>1, <1>2 DEF TypeOK
<1>4. JobOK(u)'
  <2>1. jobs[u].status = "absent"
    BY <1>1, <1>2 DEF JobOK, RequestOK
  <2>2. rq[u] = "unknown" /\ ~jobs[u].cached /\ llm[u] = 0
    BY <1>1, <2>1, AbsentIsFree DEF JobOK, RowOK
  <2> QED
    BY <1>2, <2>1, <2>2 DEF JobOK, RequestOK, RowOK, Earned, Proven, Has
<1>5. /\ \A v \in Uploads \ {u} : JobOK(v)'
      /\ \A w \in Workers : WorkerOK(w)'
      /\ Alone'
  BY <1>2, HandlerFrame DEF Entries
<1>6. QueueOK'
  BY <1>1, <1>2 DEF QueueOK
<1> QED
  BY <1>3, <1>4, <1>5, <1>6, Refolded

LEMMA LookupKeeps ==
    ASSUME IInv, NEW u \in Uploads, Lookup(u)
    PROVE  IInv'
<1>1. TypeOK /\ JobOK(u) /\ QueueOK
  BY Unfolded
<1>2. /\ req[u].pc = "lookup"
      /\ \/ RequestGoes(u, "save")
         \/ /\ RequestGoes(u, "clone")
            /\ req'[u].hit \in Uploads
            /\ jobs[req'[u].hit].status = "DONE"
            /\ jobs[req'[u].hit].file = req[u].file
            /\ jobs[req'[u].hit].type = req[u].type
      /\ UNCHANGED <<jobs, results, audit, store, queue, rq, wk, llm>>
  BY <1>1, LookupEffect
<1>3. TypeOK'
  BY <1>1, <1>2 DEF TypeOK, RequestGoes
<1>4. JobOK(u)'
  <2>1. jobs[u].status = "absent"
    BY <1>1, <1>2 DEF JobOK, RequestOK
  <2>2. rq[u] = "unknown" /\ ~jobs[u].cached /\ llm[u] = 0
    BY <1>1, <2>1, AbsentIsFree DEF JobOK, RowOK
  <2>3. req[u].key \in Keys /\ req[u].file \in Files /\ req[u].type \in Types
    BY <1>1, <1>2 DEF JobOK, RequestOK
  <2>4. RequestOK(u)'
    BY <1>2, <2>1, <2>3 DEF RequestOK, RequestGoes
  <2> QED
    BY <1>2, <2>1, <2>2, <2>4 DEF JobOK, RowOK, Earned, Proven, Has
<1>5. /\ \A v \in Uploads \ {u} : JobOK(v)'
      /\ \A w \in Workers : WorkerOK(w)'
      /\ Alone'
  BY <1>2, HandlerFrame DEF Entries, RequestGoes
<1>6. QueueOK'
  BY <1>1, <1>2 DEF QueueOK
<1> QED
  BY <1>3, <1>4, <1>5, <1>6, Refolded

LEMMA CloneKeeps ==
    ASSUME IInv, NEW u \in Uploads, Clone(u)
    PROVE  IInv'
<1> DEFINE h == req[u].hit
<1>1. TypeOK /\ JobOK(u) /\ RequestOK(u) /\ QueueOK
  BY Unfolded DEF JobOK
<1>2. /\ req[u].pc = "clone"
      /\ RequestGoes(u, "cached") \/ RequestGoes(u, "error")
      /\ jobs' \in [Uploads -> Job] /\ results' \in [Uploads -> JobResult]
      /\ jobs'[u].status = "DONE" /\ jobs'[u].cached = TRUE
      /\ jobs'[u].owner = req[u].key
      /\ jobs'[u].file = req[u].file /\ jobs'[u].type = req[u].type
      /\ results'[u] = results[h]
      /\ \A v \in Uploads \ {u} : jobs'[v] = jobs[v] /\ results'[v] = results[v]
      /\ UNCHANGED <<audit, store, queue, rq, wk, llm>>
  BY <1>1, CloneEffect
<1>3. /\ jobs[u].status = "absent" /\ h \in Uploads /\ jobs[h].status = "DONE"
      /\ jobs[h].file = req[u].file /\ jobs[h].type = req[u].type
      /\ req[u].key \in Keys /\ req[u].file \in Files /\ req[u].type \in Types
  BY <1>1, <1>2 DEF RequestOK
<1>4. /\ rq[u] = "unknown" /\ ~jobs[u].cached /\ llm[u] = 0
      /\ \A w \in Workers : wk[w].job # u
  BY <1>1, <1>3, AbsentIsFree DEF JobOK, RowOK
<1>5. TypeOK'
  BY <1>1, <1>2 DEF TypeOK, RequestGoes
<1>6. JobOK(h)
  BY <1>3, Unfolded
<1>7. RequestOK(u)' /\ RowOK(u)'
  BY <1>2, <1>3, <1>4 DEF RequestOK, RowOK, RequestGoes, Has
<1>8. Earned(u)'
  BY <1>2, <1>3, <1>6 DEF JobOK, Earned
<1>9. Proven(u)'
  <2>1. PICK o \in Uploads : Origin(o, h)
    <3>1. CASE jobs[h].cached
      BY <1>6, <3>1 DEF JobOK, Proven
    <3>2. CASE ~jobs[h].cached
      <4>1. rq[h] \in {"finished", "failed"}
        BY <1>3, <3>2, SettledIsFree DEF Settled
      <4> QED
        BY <1>3, <3>2, <4>1 DEF Origin
    <3> QED
      BY <3>1, <3>2
  <2>2. o # u
    BY <1>3, <2>1 DEF Origin
  <2>3. Origin(o, u)'
    BY <1>2, <1>3, <2>1, <2>2 DEF Origin
  <2> QED
    BY <1>2, <2>3 DEF Proven, RequestGoes
<1>10. /\ \A v \in Uploads \ {u} : JobOK(v)'
       /\ \A w \in Workers : WorkerOK(w)'
       /\ Alone'
  BY <1>2, <1>3, <1>4, HandlerFrame DEF Entries, RequestGoes
<1>11. QueueOK'
  BY <1>1, <1>2 DEF QueueOK
<1> QED
  BY <1>5, <1>7, <1>8, <1>9, <1>10, <1>11, Refolded DEF JobOK

LEMMA SaveKeeps ==
    ASSUME IInv, NEW u \in Uploads, Save(u) \/ SaveWrite(u)
    PROVE  IInv'
<1>1. TypeOK /\ JobOK(u) /\ RequestOK(u) /\ QueueOK
  BY Unfolded DEF JobOK
<1>2. /\ req[u].pc \in {"save", "write"}
      /\ RequestGoes(u, "write") \/ RequestGoes(u, "insert")
      /\ store' \in [Files -> {"absent", "whole"} \cup Uploads]
      /\ \A f \in Files : store'[f] = "absent" => store[f] = "absent" /\ f # req[u].file
      /\ UNCHANGED <<jobs, results, audit, queue, rq, wk, llm>>
  BY <1>1, SaveEffect
<1>3. /\ jobs[u].status = "absent"
      /\ req[u].key \in Keys /\ req[u].file \in Files /\ req[u].type \in Types
  BY <1>1, <1>2 DEF RequestOK
<1>4. rq[u] = "unknown" /\ ~jobs[u].cached /\ llm[u] = 0
  BY <1>1, <1>3, AbsentIsFree DEF JobOK, RowOK
<1>5. TypeOK'
  BY <1>1, <1>2 DEF TypeOK, RequestGoes
<1>6. RequestOK(u)'
  BY <1>2, <1>3 DEF RequestOK, RequestGoes
<1>7. RowOK(u)' /\ Earned(u)' /\ Proven(u)'
  BY <1>2, <1>3, <1>4 DEF RowOK, Earned, Proven, Has
<1>8. /\ \A v \in Uploads \ {u} : JobOK(v)'
      /\ \A w \in Workers : WorkerOK(w)'
      /\ Alone'
  BY <1>2, HandlerFrame DEF Entries, RequestGoes
<1>9. QueueOK'
  BY <1>1, <1>2 DEF QueueOK
<1> QED
  BY <1>5, <1>6, <1>7, <1>8, <1>9, Refolded DEF JobOK

LEMMA InsertKeeps ==
    ASSUME IInv, NEW u \in Uploads, Insert(u)
    PROVE  IInv'
<1>1. TypeOK /\ JobOK(u) /\ RequestOK(u) /\ QueueOK
  BY Unfolded DEF JobOK
<1>2. /\ req[u].pc = "insert" /\ RequestGoes(u, "enqueue")
      /\ jobs' \in [Uploads -> Job]
      /\ jobs'[u].status = "PENDING" /\ jobs'[u].cached = FALSE
      /\ jobs'[u].owner = req[u].key
      /\ jobs'[u].file = req[u].file /\ jobs'[u].type = req[u].type
      /\ \A v \in Uploads \ {u} : jobs'[v] = jobs[v]
      /\ UNCHANGED <<results, audit, store, queue, rq, wk, llm>>
  BY <1>1, InsertEffect
<1>3. /\ jobs[u].status = "absent" /\ store[req[u].file] # "absent"
      /\ req[u].key \in Keys /\ req[u].file \in Files /\ req[u].type \in Types
  BY <1>1, <1>2 DEF RequestOK
<1>4. /\ rq[u] = "unknown" /\ ~jobs[u].cached /\ llm[u] = 0
      /\ \A w \in Workers : wk[w].job # u
  BY <1>1, <1>3, AbsentIsFree DEF JobOK, RowOK
<1>5. TypeOK'
  BY <1>1, <1>2 DEF TypeOK, RequestGoes
<1>6. RequestOK(u)'
  BY <1>2, <1>3, <1>4 DEF RequestOK, RequestGoes
<1>7. RowOK(u)' /\ Earned(u)' /\ Proven(u)'
  BY <1>2, <1>3, <1>4 DEF RowOK, Earned, Proven, Has, RequestGoes
<1>8. /\ \A v \in Uploads \ {u} : JobOK(v)'
      /\ \A w \in Workers : WorkerOK(w)'
      /\ Alone'
  BY <1>2, <1>3, <1>4, HandlerFrame DEF Entries, RequestGoes
<1>9. QueueOK'
  BY <1>1, <1>2 DEF QueueOK
<1> QED
  BY <1>5, <1>6, <1>7, <1>8, <1>9, Refolded DEF JobOK

LEMMA AppendedQueue ==
    ASSUME NEW u \in Uploads, queue \in Seq(Uploads), queue' = Append(queue, u)
    PROVE  /\ Entries' = Entries \cup {u}
           /\ \A i \in DOMAIN queue : queue'[i] = queue[i]
           /\ DOMAIN queue' = DOMAIN queue \cup {Len(queue) + 1}
           /\ queue'[Len(queue) + 1] = u
<1>1. /\ DOMAIN queue = 1 .. Len(queue) /\ Len(queue) \in Nat
      /\ DOMAIN queue' = 1 .. Len(queue) + 1
      /\ \A i \in 1 .. Len(queue) : queue'[i] = queue[i]
      /\ queue'[Len(queue) + 1] = u
  OBVIOUS
<1>2. DOMAIN queue' = DOMAIN queue \cup {Len(queue) + 1}
  BY <1>1
<1>3. Entries' = Entries \cup {u}
  BY <1>1, <1>2 DEF Entries
<1> QED
  BY <1>1, <1>2, <1>3

LEMMA EnqueueKeeps ==
    ASSUME IInv, NEW u \in Uploads, Enqueue(u)
    PROVE  IInv'
<1>1. TypeOK /\ JobOK(u) /\ RequestOK(u) /\ RowOK(u) /\ QueueOK
  BY Unfolded DEF JobOK
<1>2. /\ req[u].pc = "enqueue"
      /\ RequestGoes(u, "accepted") \/ RequestGoes(u, "error")
      /\ queue' = Append(queue, u) /\ queue' \in Seq(Uploads)
      /\ rq' \in [Uploads -> RqStates]
      /\ rq'[u] = "queued"
      /\ \A v \in Uploads \ {u} : rq'[v] = rq[v]
      /\ UNCHANGED <<jobs, results, audit, store, wk, llm>>
  BY <1>1, EnqueueEffect
<1>3. /\ jobs[u].status = "PENDING" /\ rq[u] = "unknown"
      /\ req[u].key \in Keys /\ req[u].file \in Files /\ req[u].type \in Types
  BY <1>1, <1>2 DEF RequestOK
<1>4. ~jobs[u].cached
  BY <1>1, <1>3 DEF RowOK
<1>5. \A w \in Workers : wk[w].job # u
  <2> SUFFICES ASSUME NEW w \in Workers, wk[w].job = u
               PROVE  FALSE
    OBVIOUS
  <2>1. wk[w].pc # "idle"
    BY NoneAssumption, Unfolded DEF WorkerOK
  <2> QED
    BY <1>3, <2>1, BusyWorker
<1>6. /\ Entries' = Entries \cup {u}
      /\ \A i \in DOMAIN queue : queue'[i] = queue[i]
      /\ DOMAIN queue' = DOMAIN queue \cup {Len(queue) + 1}
      /\ queue'[Len(queue) + 1] = u
  BY <1>1, <1>2, AppendedQueue DEF TypeOK
<1>7. TypeOK'
  BY <1>1, <1>2 DEF TypeOK, RequestGoes, RqStates
<1>8. RequestOK(u)'
  BY <1>2, <1>3, <1>4 DEF RequestOK, RequestGoes, Has
<1>9. RowOK(u)'
  BY <1>1, <1>2, <1>3, <1>4, <1>6 DEF RowOK, Has, RequestGoes
<1>10. Earned(u)' /\ Proven(u)'
  BY <1>2, <1>3, <1>4 DEF Earned, Proven
<1>11. /\ \A v \in Uploads \ {u} : JobOK(v)'
       /\ \A w \in Workers : WorkerOK(w)'
       /\ Alone'
  BY <1>2, <1>3, <1>5, <1>6, HandlerFrame DEF RequestGoes
<1>12. QueueOK'
  <2>1. \A i \in DOMAIN queue : queue[i] \in Uploads /\ queue[i] # u /\ rq[queue[i]] = "queued"
    BY <1>1, <1>3 DEF QueueOK, TypeOK
  <2> QED
    BY <1>1, <1>2, <1>6, <2>1 DEF QueueOK
<1> QED
  BY <1>7, <1>8, <1>9, <1>10, <1>11, <1>12, Refolded DEF JobOK

LEMMA FailKeeps ==
    ASSUME IInv, NEW u \in Uploads, Fail(u)
    PROVE  IInv'
<1>1. TypeOK /\ JobOK(u) /\ RequestOK(u) /\ QueueOK
  BY Unfolded DEF JobOK
<1>2. /\ req[u].pc \notin {"idle", "accepted", "cached", "error"}
      /\ RequestGoes(u, "error")
      /\ UNCHANGED <<jobs, results, audit, store, queue, rq, wk, llm>>
  BY <1>1, FailEffect
<1>3. TypeOK'
  BY <1>1, <1>2 DEF TypeOK, RequestGoes
<1>4. RequestOK(u)'
  BY <1>1, <1>2 DEF RequestOK, RequestGoes
<1>5. RowOK(u)' /\ Earned(u)' /\ Proven(u)'
  BY <1>1, <1>2 DEF JobOK, RowOK, Earned, Proven, Origin, Has, RequestGoes, Entries
<1>6. /\ \A v \in Uploads \ {u} : JobOK(v)'
      /\ \A w \in Workers : WorkerOK(w)'
      /\ Alone'
  BY <1>2, HandlerFrame DEF Entries, RequestGoes
<1>7. QueueOK'
  BY <1>1, <1>2 DEF QueueOK
<1> QED
  BY <1>3, <1>4, <1>5, <1>6, <1>7, Refolded DEF JobOK

-----------------------------------------------------------------------------
(* The steps of a worker. *)

\* The row of j stays what it is but for its status.
SameRow(j) ==
    /\ jobs'[j].owner = jobs[j].owner /\ jobs'[j].file = jobs[j].file
    /\ jobs'[j].type = jobs[j].type /\ jobs'[j].cached = jobs[j].cached
    /\ jobs'[j].status # "absent"

\* A step of w on j leaves the other jobs and the other workers alone.
LEMMA WorkerFrame ==
    ASSUME IInv, NEW w \in Workers, NEW j \in Uploads, UNCHANGED <<req, store>>,
           wk[w].job \in {j, None}, wk'[w].job \in {j, None},
           \A x \in Workers \ {w} : wk'[x] = wk[x] /\ wk[x].job # j,
           \A i \in Uploads \ {j} : /\ jobs'[i] = jobs[i] /\ results'[i] = results[i]
                                    /\ rq'[i] = rq[i] /\ llm'[i] = llm[i]
                                    /\ i \in Entries => i \in Entries',
           Has(j), jobs[j].status \notin Settled, ~jobs[j].cached, SameRow(j),
           rq[j] # "unknown", rq'[j] \in {"started", "finished", "failed"},
           rq'[j] = "started" => wk'[w].job = j,
           rq'[j] = "finished" => jobs'[j].status \in Settled,
           jobs'[j].status \in {"PENDING", "EXTRACTING"} => llm'[j] = 0
    PROVE  /\ \A v \in Uploads \ {j} : JobOK(v)'
           /\ RequestOK(j)' /\ RowOK(j)' /\ Proven(j)'
           /\ \A x \in Workers \ {w} : WorkerOK(x)'
           /\ Alone'
<1>1. /\ \A v \in Uploads : RequestOK(v) /\ RowOK(v) /\ Earned(v) /\ Proven(v)
      /\ \A x \in Workers : WorkerOK(x)
      /\ Alone
  BY Unfolded DEF JobOK
<1>2. ASSUME NEW v \in Uploads \ {j}
      PROVE  JobOK(v)'
  <2>1. RequestOK(v)'
    BY <1>1 DEF RequestOK, Has, Settled
  <2>2. RowOK(v)'
    <3>1. v # None /\ j # None
      BY NoneAssumption
    <3>2. rq[v] = "started" => \E x \in Workers : wk'[x].job = v
      BY <1>1, <3>1 DEF RowOK
    <3> QED
      BY <1>1, <3>2 DEF RowOK, Has
  <2>3. Earned(v)'
    BY <1>1 DEF Earned
  <2>4. Proven(v)'
    <3>1. \A o \in Uploads : Origin(o, v) => o # j
      BY DEF Origin, Settled
    <3>2. \A o \in Uploads : Origin(o, v) => Origin(o, v)'
      BY <3>1 DEF Origin
    <3> QED
      BY <1>1, <3>2 DEF Proven
  <2> QED
    BY <2>1, <2>2, <2>3, <2>4 DEF JobOK
<1>3. RequestOK(j)'
  BY <1>1 DEF RequestOK, Has, SameRow
<1>4. RowOK(j)'
  BY <1>1 DEF RowOK, Has, SameRow
<1>5. Proven(j)'
  BY DEF Proven, SameRow
<1>6. ASSUME NEW x \in Workers \ {w}
      PROVE  WorkerOK(x)'
  <2>1. WorkerOK(x) /\ wk'[x] = wk[x]
    BY <1>1
  <2>2. CASE wk[x].pc = "idle"
    BY <2>1, <2>2 DEF WorkerOK
  <2>3. CASE wk[x].pc # "idle"
    <3>1. wk[x].job \in Uploads \ {j}
      BY <2>3, BusyWorker
    <3>2. /\ jobs'[wk[x].job] = jobs[wk[x].job] /\ rq'[wk[x].job] = rq[wk[x].job]
          /\ results'[wk[x].job] = results[wk[x].job] /\ llm'[wk[x].job] = llm[wk[x].job]
      BY <3>1
    <3> QED
      BY <2>1, <3>2 DEF WorkerOK
  <2> QED
    BY <2>2, <2>3
<1>7. Alone'
  BY <1>1 DEF Alone
<1> QED
  BY <1>2, <1>3, <1>4, <1>5, <1>6, <1>7

\* What a step of a busy worker has to show.
LEMMA BusyFrame ==
    ASSUME IInv, NEW w \in Workers, NEW j \in Uploads, wk[w].job = j, wk[w].pc # "idle",
           UNCHANGED <<req, store, queue>>,
           wk'[w].job \in {j, None},
           \A x \in Workers \ {w} : wk'[x] = wk[x],
           \A i \in Uploads \ {j} :
              /\ jobs'[i] = jobs[i] /\ results'[i] = results[i]
              /\ rq'[i] = rq[i] /\ llm'[i] = llm[i],
           SameRow(j), rq'[j] \in {"started", "finished", "failed"},
           rq'[j] = "started" => wk'[w].job = j,
           rq'[j] = "finished" => jobs'[j].status \in Settled,
           jobs'[j].status \in {"PENDING", "EXTRACTING"} => llm'[j] = 0,
           TypeOK', WorkerOK(w)', Earned(j)'
    PROVE  IInv'
<1>1. rq[j] = "started" /\ WorkerOK(w) /\ ~jobs[j].cached
  BY BusyWorker
<1>2. \A x \in Workers \ {w} : wk[x].job # j
  <2>1. Alone /\ j # None
    BY <1>1, NoneAssumption, Unfolded
  <2> QED
    BY <2>1 DEF Alone
<1>3. Has(j) /\ jobs[j].status \notin Settled
  <2>1. wk[w].pc \in WorkerPcs
    BY DEF IInv, TypeOK, Worker, WorkerPcs
  <2> QED
    BY <1>1, <2>1 DEF WorkerOK, WorkerPcs, Has, Settled
<1>4. Entries' = Entries
  BY DEF Entries
<1>5. /\ \A v \in Uploads \ {j} : JobOK(v)'
      /\ RequestOK(j)' /\ RowOK(j)' /\ Proven(j)'
      /\ \A x \in Workers \ {w} : WorkerOK(x)'
      /\ Alone'
  BY <1>1, <1>2, <1>3, <1>4, WorkerFrame
<1>6. JobOK(j)' /\ \A x \in Workers : WorkerOK(x)'
  BY <1>5 DEF JobOK
<1>7. QueueOK'
  <2>1. QueueOK /\ \A i \in DOMAIN queue : queue[i] \in Uploads
    BY Unfolded DEF TypeOK
  <2> QED
    BY <1>1, <2>1 DEF QueueOK
<1> QED
  BY <1>1, <1>5, <1>6, <1>7, Refolded

LEMMA DequeueKeeps ==
    ASSUME IInv, NEW w \in Workers, Dequeue(w)
    PROVE  IInv'
<1>1. TypeOK /\ QueueOK /\ WorkerOK(w) /\ Alone
  BY Unfolded
<1>2. PICK j \in Uploads : j = Head(queue)
  BY <1>1, DequeueEffect
<1>3. /\ wk[w].pc = "idle" /\ queue # <<>>
      /\ queue' = Tail(queue) /\ queue' \in Seq(Uploads)
      /\ wk' \in [Workers -> Worker]
      /\ wk'[w].pc = "load" /\ wk'[w].job = j
      /\ wk'[w].kept = None /\ wk'[w].tries = <<>>
      /\ \A x \in Workers \ {w} : wk'[x] = wk[x]
      /\ rq' \in [Uploads -> RqStates]
      /\ rq'[j] = "started"
      /\ \A i \in Uploads \ {j} : rq'[i] = rq[i]
      /\ UNCHANGED <<req, jobs, results, audit, store, llm>>
  BY <1>1, <1>2, DequeueEffect
<1>4. /\ Len(queue) \in Nat \ {0} /\ DOMAIN queue = 1 .. Len(queue) /\ queue[1] = j
      /\ DOMAIN queue' = 1 .. Len(queue) - 1
      /\ \A i \in 1 .. Len(queue) - 1 : queue'[i] = queue[i + 1]
      /\ \A i \in 1 .. Len(queue) : queue[i] \in Uploads
  <2>1. queue \in Seq(Uploads)
    BY <1>1 DEF TypeOK
  <2> QED
    BY <1>2, <1>3, <2>1
<1>5. rq[j] = "queued"
  BY <1>1, <1>4 DEF QueueOK
<1>6. jobs[j].status = "PENDING" /\ ~jobs[j].cached /\ llm[j] = 0
  <2>1. RowOK(j)
    BY Unfolded DEF JobOK
  <2> QED
    BY <1>5, <2>1 DEF RowOK
<1>7. wk[w].job = None /\ \A x \in Workers : wk[x].job # j
  <2>1. \A x \in Workers : wk[x].pc # "idle" => wk[x].job # j
    BY <1>5, BusyWorker
  <2>2. \A x \in Workers : wk[x].pc = "idle" => wk[x].job = None
    BY Unfolded DEF WorkerOK
  <2> QED
    BY <1>3, <2>1, <2>2, NoneAssumption
<1>8. \A i \in Uploads \ {j} : i \in Entries => i \in Entries'
  <2> SUFFICES ASSUME NEW i \in Uploads \ {j}, NEW k \in DOMAIN queue, queue[k] = i
               PROVE  i \in Entries'
    BY DEF Entries
  <2>1. k - 1 \in 1 .. Len(queue) - 1 /\ (k - 1) + 1 = k
    BY <1>4
  <2>2. k - 1 \in DOMAIN queue' /\ queue'[k - 1] = i
    BY <1>4, <2>1
  <2> QED
    BY <2>2 DEF Entries
<1>9. TypeOK'
  BY <1>1, <1>3 DEF TypeOK, RqStates
<1>10. WorkerOK(w)'
  BY <1>3, <1>6, NoneAssumption DEF WorkerOK
<1>11. Earned(j)'
  BY <1>3, <1>6 DEF Earned
<1>12. /\ \A v \in Uploads \ {j} : JobOK(v)'
       /\ RequestOK(j)' /\ RowOK(j)' /\ Proven(j)'
       /\ \A x \in Workers \ {w} : WorkerOK(x)'
       /\ Alone'
  BY <1>3, <1>5, <1>6, <1>7, <1>8, WorkerFrame DEF SameRow, Has, Settled
<1>13. QueueOK'
  <2>1. /\ \A i \in 1 .. Len(queue) : rq[queue[i]] = "queued"
        /\ \A i, k \in 1 .. Len(queue) : queue[i] = queue[k] => i = k
    BY <1>1, <1>4 DEF QueueOK
  <2>2. \A i \in 1 .. Len(queue) - 1 : i + 1 \in 1 .. Len(queue) /\ i + 1 # 1
    BY <1>4
  <2>3. \A i \in DOMAIN queue' : queue'[i] \in Uploads \ {j} /\ rq'[queue'[i]] = "queued"
    BY <1>3, <1>4, <2>1, <2>2
  <2>4. \A i, k \in DOMAIN queue' : queue'[i] = queue'[k] => i = k
    BY <1>4, <2>1, <2>2
  <2> QED
    BY <2>3, <2>4 DEF QueueOK
<1> QED
  BY <1>9, <1>10, <1>11, <1>12, <1>13, Refolded DEF JobOK

LEMMA LoadKeeps ==
    ASSUME IInv, NEW w \in Workers, Load(w)
    PROVE  IInv'
<1>1. /\ wk[w].pc = "load" /\ WorkerGoes(w, "read")
      /\ StatusGoes(wk[w].job, "EXTRACTING")
      /\ UNCHANGED <<req, results, audit, store, queue, rq, llm>>
  BY LoadEffect
<1>2. PICK j \in Uploads : wk[w].job = j
  BY <1>1, BusyWorker
<1>3. TypeOK /\ WorkerOK(w) /\ rq[j] = "started" /\ ~jobs[j].cached /\ RowOK(j)
  BY <1>1, <1>2, BusyWorker DEF IInv
<1>4. jobs[j].status = "PENDING" /\ llm[j] = 0
  BY <1>1, <1>2, <1>3 DEF WorkerOK, RowOK
<1>5. TypeOK'
  BY <1>1, <1>2, <1>3 DEF TypeOK, WorkerGoes, StatusGoes
<1>6. WorkerOK(w)'
  BY <1>1, <1>2, <1>3, NoneAssumption DEF WorkerOK, WorkerGoes, StatusGoes
<1>7. Earned(j)'
  BY <1>1, <1>2 DEF Earned, StatusGoes
<1> QED
  BY <1>1, <1>2, <1>3, <1>4, <1>5, <1>6, <1>7, BusyFrame DEF SameRow, WorkerGoes, StatusGoes

LEMMA ReadKeeps ==
    ASSUME IInv, NEW w \in Workers, Read(w)
    PROVE  IInv'
<1>1. /\ wk[w].pc = "read" /\ WorkerGoes(w, "extract") /\ wk'[w].data # "none"
      /\ UNCHANGED <<req, jobs, results, audit, store, queue, rq, llm>>
  BY ReadEffect
<1>2. PICK j \in Uploads : wk[w].job = j
  BY <1>1, BusyWorker
<1>3. TypeOK /\ WorkerOK(w) /\ rq[j] = "started" /\ ~jobs[j].cached /\ RowOK(j)
  BY <1>1, <1>2, BusyWorker DEF IInv
<1>4. jobs[j].status = "EXTRACTING" /\ llm[j] = 0
  BY <1>1, <1>2, <1>3 DEF WorkerOK, RowOK
<1>5. TypeOK'
  BY <1>1, <1>3 DEF TypeOK, WorkerGoes
<1>6. WorkerOK(w)'
  BY <1>1, <1>2, <1>3, <1>4, NoneAssumption DEF WorkerOK, WorkerGoes
<1>7. Earned(j)'
  BY <1>1, <1>4 DEF Earned
<1> QED
  BY <1>1, <1>2, <1>3, <1>4, <1>5, <1>6, <1>7, BusyFrame DEF SameRow, WorkerGoes

LEMMA ExtractTextKeeps ==
    ASSUME IInv, NEW w \in Workers, ExtractText(w)
    PROVE  IInv'
<1>1. /\ wk[w].pc = "extract"
      /\ results' \in [Uploads -> JobResult]
      /\ results'[wk[w].job].text # "absent" /\ results'[wk[w].job].fields = None
      /\ \A i \in Uploads \ {wk[w].job} : results'[i] = results[i]
      /\ \/ /\ jobs[wk[w].job].type = Invoice /\ UNCHANGED rq
            /\ WorkerGoes(w, "ai") /\ StatusGoes(wk[w].job, "EXTRACTING_AI")
         \/ /\ jobs[wk[w].job].type # Invoice
            /\ WorkerLeaves(w, {"finished", "failed"}) /\ StatusGoes(wk[w].job, "DONE")
      /\ UNCHANGED <<req, audit, store, queue, llm>>
  BY ExtractTextEffect
<1>2. PICK j \in Uploads : wk[w].job = j
  BY <1>1, BusyWorker
<1>3. TypeOK /\ WorkerOK(w) /\ rq[j] = "started" /\ ~jobs[j].cached /\ RowOK(j)
  BY <1>1, <1>2, BusyWorker DEF IInv
<1>4. /\ jobs[j].status = "EXTRACTING" /\ llm[j] = 0
      /\ wk[w].tries = <<>> /\ wk[w].kept = None
  BY <1>1, <1>2, <1>3 DEF WorkerOK, RowOK
<1>5. CASE jobs[j].type = Invoice
  <2>1. /\ WorkerGoes(w, "ai") /\ StatusGoes(j, "EXTRACTING_AI") /\ UNCHANGED rq
        /\ results'[j].text # "absent"
    BY <1>1, <1>2, <1>5
  <2>2. TypeOK'
    BY <1>1, <1>3, <2>1 DEF TypeOK, WorkerGoes, StatusGoes
  <2>3. WorkerOK(w)'
    <3>1. Len(<<>>) = 0 /\ 0 < MaxAttempts /\ None \notin Valid /\ j # None
      BY AttemptsAssumption, NoneAssumption, SetAssumption
    <3> QED
      BY <1>1, <1>2, <1>3, <1>4, <1>5, <2>1, <3>1 DEF WorkerOK, WorkerGoes, StatusGoes
  <2>4. Earned(j)'
    BY <2>1 DEF Earned, StatusGoes
  <2> QED
    BY <1>1, <1>2, <1>3, <2>1, <2>2, <2>3, <2>4, BusyFrame
    DEF SameRow, WorkerGoes, StatusGoes
<1>6. CASE jobs[j].type # Invoice
  <2>1. /\ WorkerLeaves(w, {"finished", "failed"}) /\ StatusGoes(j, "DONE")
        /\ results'[j].text # "absent"
    BY <1>1, <1>2, <1>6
  <2>2. TypeOK'
    BY <1>1, <1>3, <2>1 DEF TypeOK, WorkerLeaves, StatusGoes, RqStates
  <2>3. WorkerOK(w)'
    BY <2>1 DEF WorkerOK, WorkerLeaves
  <2>4. Earned(j)'
    BY <1>6, <2>1 DEF Earned, StatusGoes
  <2> QED
    BY <1>1, <1>2, <1>3, <2>1, <2>2, <2>3, <2>4, BusyFrame
    DEF SameRow, WorkerLeaves, StatusGoes, Settled
<1> QED
  BY <1>5, <1>6

LEMMA CallLLMKeeps ==
    ASSUME IInv, NEW w \in Workers, CallLLM(w)
    PROVE  IInv'
<1>1. /\ wk[w].pc = "ai" /\ wk' \in [Workers -> Worker]
      /\ wk'[w].job = wk[w].job
      /\ wk'[w].passed <=> wk'[w].kept \in Valid
      /\ \/ wk'[w].pc = "ai" /\ ~wk'[w].passed /\ Len(wk'[w].tries) < MaxAttempts
         \/ wk'[w].pc = "validating"
      /\ \A x \in Workers \ {w} : wk'[x] = wk[x]
      /\ llm' \in [Uploads -> 0 .. MaxAttempts]
      /\ llm'[wk[w].job] = Len(wk'[w].tries)
      /\ \A i \in Uploads \ {wk[w].job} : llm'[i] = llm[i]
      /\ UNCHANGED <<req, jobs, results, audit, store, queue, rq>>
  BY CallLLMEffect
<1>2. PICK j \in Uploads : wk[w].job = j
  BY <1>1, BusyWorker
<1>3. TypeOK /\ WorkerOK(w) /\ rq[j] = "started" /\ ~jobs[j].cached
  BY <1>1, <1>2, BusyWorker DEF IInv
<1>4. /\ jobs[j].status = "EXTRACTING_AI" /\ jobs[j].type = Invoice
      /\ results[j].text # "absent"
  BY <1>1, <1>2, <1>3 DEF WorkerOK
<1>5. TypeOK'
  BY <1>1, <1>3 DEF TypeOK
<1>6. WorkerOK(w)'
  BY <1>1, <1>2, <1>3, <1>4, NoneAssumption DEF WorkerOK
<1>7. Earned(j)'
  BY <1>1, <1>4 DEF Earned
<1> QED
  BY <1>1, <1>2, <1>3, <1>4, <1>5, <1>6, <1>7, BusyFrame DEF SameRow

LEMMA RecordAttemptsKeeps ==
    ASSUME IInv, NEW w \in Workers, RecordAttempts(w)
    PROVE  IInv'
<1>1. /\ wk[w].pc = "validating" /\ WorkerGoes(w, "final")
      /\ StatusGoes(wk[w].job, "VALIDATING")
      /\ audit' \in [Uploads -> Seq(JobAttempt)]
      /\ \A i \in Uploads \ {wk[w].job} : audit'[i] = audit[i]
      /\ UNCHANGED <<req, results, store, queue, rq, llm>>
  BY RecordAttemptsEffect
<1>2. PICK j \in Uploads : wk[w].job = j
  BY <1>1, BusyWorker
<1>3. TypeOK /\ WorkerOK(w) /\ rq[j] = "started" /\ ~jobs[j].cached
  BY <1>1, <1>2, BusyWorker DEF IInv
<1>4. TypeOK'
  BY <1>1, <1>3 DEF TypeOK, WorkerGoes, StatusGoes
<1>5. WorkerOK(w)'
  BY <1>1, <1>2, <1>3, NoneAssumption DEF WorkerOK, WorkerGoes, StatusGoes
<1>6. Earned(j)'
  BY <1>1, <1>2 DEF Earned, StatusGoes
<1> QED
  BY <1>1, <1>2, <1>3, <1>4, <1>5, <1>6, BusyFrame DEF SameRow, WorkerGoes, StatusGoes

LEMMA FinalizeKeeps ==
    ASSUME IInv, NEW w \in Workers, Finalize(w)
    PROVE  IInv'
<1>1. /\ wk[w].pc = "final" /\ WorkerLeaves(w, {"finished", "failed"})
      /\ results' \in [Uploads -> JobResult]
      /\ results'[wk[w].job].text = results[wk[w].job].text
      /\ results'[wk[w].job].fields = wk[w].kept
      /\ \A i \in Uploads \ {wk[w].job} : results'[i] = results[i]
      /\ \/ wk[w].passed /\ StatusGoes(wk[w].job, "DONE")
         \/ ~wk[w].passed /\ StatusGoes(wk[w].job, "NEEDS_REVIEW")
      /\ UNCHANGED <<req, audit, store, queue, llm>>
  BY FinalizeEffect
<1>2. PICK j \in Uploads : wk[w].job = j
  BY <1>1, BusyWorker
<1>3. TypeOK /\ WorkerOK(w) /\ rq[j] = "started"
  BY <1>1, <1>2, BusyWorker DEF IInv
<1>4. results[j].text # "absent" /\ (wk[w].passed <=> wk[w].kept \in Valid)
  BY <1>1, <1>2, <1>3 DEF WorkerOK
<1>5. TypeOK'
  BY <1>1, <1>3 DEF TypeOK, WorkerLeaves, StatusGoes, RqStates
<1>6. WorkerOK(w)'
  BY <1>1 DEF WorkerOK, WorkerLeaves
<1>7. Earned(j)'
  BY <1>1, <1>2, <1>4 DEF Earned, StatusGoes
<1> QED
  BY <1>1, <1>2, <1>3, <1>5, <1>6, <1>7, BusyFrame
  DEF SameRow, WorkerLeaves, StatusGoes, Settled

LEMMA RaisesKeeps ==
    ASSUME IInv, NEW w \in Workers, ExtractRaises(w) \/ LLMRaises(w)
    PROVE  IInv'
<1>1. /\ wk[w].pc \in {"extract", "ai"}
      /\ WorkerLeaves(w, {"finished", "failed"})
      /\ StatusGoes(wk[w].job, "FAILED")
      /\ audit' \in [Uploads -> Seq(JobAttempt)]
      /\ llm' \in [Uploads -> 0 .. MaxAttempts]
      /\ \A i \in Uploads \ {wk[w].job} : audit'[i] = audit[i] /\ llm'[i] = llm[i]
      /\ UNCHANGED <<req, results, store, queue>>
  BY RaisesEffect
<1>2. PICK j \in Uploads : wk[w].job = j
  BY <1>1, BusyWorker
<1>3. TypeOK
  BY Unfolded
<1>4. TypeOK'
  BY <1>1, <1>3 DEF TypeOK, WorkerLeaves, StatusGoes, RqStates
<1>5. WorkerOK(w)'
  BY <1>1 DEF WorkerOK, WorkerLeaves
<1>6. Earned(j)'
  BY <1>1, <1>2 DEF Earned, StatusGoes
<1> QED
  BY <1>1, <1>2, <1>4, <1>5, <1>6, BusyFrame DEF SameRow, WorkerLeaves, StatusGoes, Settled

LEMMA EscapeKeeps ==
    ASSUME IInv, NEW w \in Workers, Escape(w)
    PROVE  IInv'
<1>1. /\ wk[w].pc # "idle" /\ WorkerLeaves(w, {"failed"})
      /\ UNCHANGED <<req, jobs, results, audit, store, queue, llm>>
  BY EscapeEffect
<1>2. PICK j \in Uploads : wk[w].job = j
  BY <1>1, BusyWorker
<1>3. TypeOK /\ WorkerOK(w) /\ RowOK(j) /\ wk[w].pc \in WorkerPcs
  BY <1>1, <1>2, BusyWorker DEF IInv, TypeOK, Worker, WorkerPcs
<1>4. jobs[j].status \in Stages
  BY <1>1, <1>2, <1>3 DEF WorkerOK, WorkerPcs, Stages
<1>5. TypeOK'
  BY <1>1, <1>3 DEF TypeOK, WorkerLeaves, RqStates
<1>6. WorkerOK(w)'
  BY <1>1 DEF WorkerOK, WorkerLeaves
<1>7. Earned(j)'
  BY <1>1, <1>4 DEF Earned, Stages
<1> QED
  BY <1>1, <1>2, <1>3, <1>4, <1>5, <1>6, <1>7, BusyFrame
  DEF SameRow, WorkerLeaves, RowOK, Stages

-----------------------------------------------------------------------------
(* The theorems. *)

LEMMA StutterKeeps ==
    ASSUME IInv, UNCHANGED vars
    PROVE  IInv'
<1>1. UNCHANGED <<req, jobs, results, audit, store, queue, rq, wk, llm>>
  BY DEF vars
<1>2. TypeOK'
  BY <1>1, Unfolded DEF TypeOK
<1>3. QueueOK' /\ Alone'
  BY <1>1, Unfolded DEF QueueOK, Alone
<1>4. \A j \in Uploads : RequestOK(j)' /\ RowOK(j)'
  BY <1>1, Unfolded DEF JobOK, RequestOK, RowOK, Has, Entries
<1>5. \A w \in Workers : WorkerOK(w)'
  BY <1>1, Unfolded DEF WorkerOK
<1>6. VerdictIsEarned' /\ CacheProvenance'
  BY <1>1 DEF IInv, VerdictIsEarned, CacheProvenance
<1> QED
  BY <1>2, <1>3, <1>4, <1>5, <1>6 DEF IInv

\* IInv is inductive: who may touch a job is decided by the state of its row,
\* whatever uploads and workers interleave, fail or die.
THEOREM Inductive == IInv /\ [Next]_vars => IInv'
<1> SUFFICES ASSUME IInv, [Next]_vars PROVE IInv'
  OBVIOUS
<1>1. ASSUME NEW u \in Uploads, Begin(u) \/ Handle(u) \/ Fail(u)
      PROVE  IInv'
  BY <1>1, BeginKeeps, LookupKeeps, CloneKeeps, SaveKeeps, InsertKeeps, EnqueueKeeps,
     FailKeeps DEF Handle
<1>2. ASSUME NEW w \in Workers, Dequeue(w) \/ Process(w) \/ Escape(w)
      PROVE  IInv'
  BY <1>2, DequeueKeeps, LoadKeeps, ReadKeeps, RaisesKeeps, ExtractTextKeeps,
     CallLLMKeeps, RecordAttemptsKeeps, FinalizeKeeps, EscapeKeeps DEF Process
<1>3. CASE UNCHANGED vars
  BY <1>3, StutterKeeps
<1> QED
  BY <1>1, <1>2, <1>3 DEF Next

\* Every reachable state satisfies IInv.
THEOREM Invariance == Spec => []IInv
BY InitHolds, Inductive, PTL DEF Spec

\* The variables keep their shape; in particular one job costs at most
\* MAX_ATTEMPTS completions.
THEOREM TypeCorrect == Spec => []TypeOK
<1>1. IInv => TypeOK
  BY DEF IInv
<1> QED
  BY <1>1, Invariance, PTL

\* A worker that takes an id from the queue finds its committed row and its
\* stored file, and no other worker runs the job.
THEOREM HandOffHolds == Spec => []HandOff
<1>1. IInv => HandOff
  <2> SUFFICES ASSUME IInv PROVE HandOff
    OBVIOUS
  <2>1. ASSUME NEW i \in DOMAIN queue
        PROVE  LET row == jobs[queue[i]] IN
                 /\ row.status = "PENDING" /\ ~row.cached
                 /\ store[row.file] # "absent"
                 /\ queue[i] \notin Held
                 /\ \A k \in DOMAIN queue : queue[k] = queue[i] => k = i
    <3>1. PICK j \in Uploads : j = queue[i]
      BY Unfolded DEF TypeOK
    <3>2. rq[j] = "queued" /\ \A k \in DOMAIN queue : queue[k] = queue[i] => k = i
      BY <3>1, Unfolded DEF QueueOK
    <3>3. RowOK(j)
      BY Unfolded DEF JobOK
    <3>4. jobs[j].status = "PENDING" /\ ~jobs[j].cached /\ store[jobs[j].file] # "absent"
      BY <3>2, <3>3 DEF RowOK, Has
    <3>5. \A w \in Workers : wk[w].pc # "idle" => wk[w].job # j
      BY <3>2, BusyWorker
    <3>6. \A w \in Workers : wk[w].pc = "idle" => wk[w].job = None
      BY Unfolded DEF WorkerOK
    <3>7. j \notin Held
      BY <3>5, <3>6, NoneAssumption DEF Held
    <3> QED
      BY <3>1, <3>2, <3>4, <3>7
  <2> QED
    BY <2>1, Unfolded DEF HandOff, Alone
<1> QED
  BY <1>1, Invariance, PTL

\* No job answered 202 is lost: it is queued, held, settled or in RQ's list of
\* failed jobs.
THEOREM AcceptedIsTrackedHolds == Spec => []AcceptedIsTracked
<1>1. IInv => AcceptedIsTracked
  <2> SUFFICES ASSUME IInv, NEW u \in Uploads, req[u].pc = "accepted"
               PROVE  u \in Entries \cup Held \/ jobs[u].status \in Settled \/ rq[u] = "failed"
    BY DEF AcceptedIsTracked
  <2>1. RowOK(u) /\ rq[u] # "unknown" /\ rq[u] \in RqStates
    BY Unfolded DEF JobOK, RequestOK, TypeOK, RqStates
  <2>2. CASE rq[u] = "started"
    BY <2>1, <2>2, NoneAssumption DEF RowOK, Held
  <2>3. CASE rq[u] \in {"queued", "finished", "failed"}
    BY <2>1, <2>3 DEF RowOK
  <2> QED
    BY <2>1, <2>2, <2>3 DEF RqStates
<1> QED
  BY <1>1, Invariance, PTL

\* DONE is only said of a job that has a result, an invoice's validated;
\* NEEDS_REVIEW of one whose answer did not pass.
THEOREM VerdictIsEarnedHolds == Spec => []VerdictIsEarned
<1>1. IInv => VerdictIsEarned
  BY DEF IInv
<1> QED
  BY <1>1, Invariance, PTL

\* What the cache hands over was worked out by a worker for the same file and
\* type, and belongs to the key that asked.
THEOREM CacheProvenanceHolds == Spec => []CacheProvenance
<1>1. IInv => CacheProvenance
  BY DEF IInv
<1> QED
  BY <1>1, Invariance, PTL

\* A step leaves a settled job as it is.
LEMMA SettledKept ==
    ASSUME IInv, Next, NEW j \in Uploads, jobs[j].status \in Settled
    PROVE  jobs'[j] = jobs[j] /\ results'[j] = results[j] /\ audit'[j] = audit[j]
<1>1. TypeOK /\ RequestOK(j) /\ jobs[j].status # "absent"
  BY Unfolded DEF JobOK, Settled
<1>2. ASSUME NEW u \in Uploads, Begin(u) \/ Handle(u) \/ Fail(u)
      PROVE  jobs'[j] = jobs[j] /\ results'[j] = results[j] /\ audit'[j] = audit[j]
  <2>1. RequestOK(u)
    BY Unfolded DEF JobOK
  <2>2. CASE Clone(u)
    <3>1. j # u
      BY <1>1, <2>1, <2>2 DEF Clone, RequestOK
    <3> QED
      BY <1>1, <2>1, <2>2, <3>1, CloneEffect
  <2>3. CASE Insert(u)
    <3>1. j # u
      BY <1>1, <2>1, <2>3 DEF Insert, RequestOK
    <3> QED
      BY <1>1, <2>1, <2>3, <3>1, InsertEffect
  <2> QED
    BY <1>1, <1>2, <2>1, <2>2, <2>3
    DEF Handle, Begin, Lookup, Save, SaveWrite, Enqueue, Fail
<1>3. ASSUME NEW w \in Workers, Dequeue(w) \/ Process(w) \/ Escape(w)
      PROVE  jobs'[j] = jobs[j] /\ results'[j] = results[j] /\ audit'[j] = audit[j]
  <2>1. wk[w].job # j
    BY SettledIsFree
  <2>2. CASE Dequeue(w) \/ Escape(w) \/ Read(w) \/ CallLLM(w)
    BY <2>2 DEF Dequeue, Escape, Read, CallLLM
  <2>3. CASE Load(w)
    BY <2>1, <2>3, LoadEffect DEF StatusGoes
  <2>4. CASE ExtractRaises(w) \/ LLMRaises(w)
    BY <2>1, <2>4, RaisesEffect DEF StatusGoes
  <2>5. CASE ExtractText(w)
    BY <2>1, <2>5, ExtractTextEffect DEF StatusGoes
  <2>6. CASE RecordAttempts(w)
    BY <2>1, <2>6, RecordAttemptsEffect DEF StatusGoes
  <2>7. CASE Finalize(w)
    BY <2>1, <2>7, FinalizeEffect DEF StatusGoes
  <2> QED
    BY <1>3, <2>2, <2>3, <2>4, <2>5, <2>6, <2>7 DEF Process
<1> QED
  BY <1>2, <1>3 DEF Next

\* No upload and no worker, late or twice, changes a job that is settled.
THEOREM SettledStaysSettledHolds == Spec => SettledStaysSettled
<1> DEFINE Kept == \A j \in Uploads : jobs[j].status \in Settled =>
               /\ jobs'[j] = jobs[j] /\ results'[j] = results[j] /\ audit'[j] = audit[j]
<1>1. IInv /\ [Next]_vars => [Kept]_vars
  BY SettledKept
<1> QED
  BY <1>1, Invariance, PTL DEF Spec, SettledStaysSettled

=============================================================================
