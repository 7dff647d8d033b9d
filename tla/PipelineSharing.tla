-------------------------- MODULE PipelineSharing --------------------------
(***************************************************************************)
(* What uploads of the same file do to each other, proved on top of IInv:  *)
(* whoever reads a half-written object has a rival to thank for it, and    *)
(* nobody works on a document again once it is DONE.                       *)
(***************************************************************************)
EXTENDS PipelineStory

-----------------------------------------------------------------------------
(* How a handler moves. *)

\* Where a handler may go from pc p.
After(p) ==
    CASE p = "idle"    -> {"lookup"}
      [] p = "lookup"  -> {"clone", "save", "error"}
      [] p = "clone"   -> {"cached", "error"}
      [] p = "save"    -> {"write", "insert", "error"}
      [] p = "write"   -> {"insert", "error"}
      [] p = "insert"  -> {"enqueue", "error"}
      [] p = "enqueue" -> {"accepted", "error"}
      [] OTHER         -> {}

LEMMA Moves ==
    ASSUME IInv, NEW u \in Uploads, Begin(u) \/ Handle(u) \/ Fail(u)
    PROVE  /\ req'[u].pc \in After(req[u].pc)
           /\ req[u].pc # "idle" => req'[u].file = req[u].file /\ req'[u].type = req[u].type
           /\ req[u].pc = "idle" => req'[u].hit = None
           /\ req'[u].pc # "clone" /\ req[u].pc # "idle" => req'[u].hit = req[u].hit
           /\ \A v \in Uploads \ {u} : req'[v] = req[v]
           /\ UNCHANGED <<wk, llm>>
<1>1. /\ req \in [Uploads -> Request] /\ RequestOK(u)
      /\ req[u].pc \in RequestPcs
  BY DEF IInv, TypeOK, Request, RequestPcs, Answered
<1>2. UNCHANGED <<wk, llm>>
  BY DEF Begin, Handle, Lookup, Clone, Save, SaveWrite, Insert, Enqueue, Fail
<1>3. ASSUME NEW p \in After(req[u].pc), Goto(u, p), req[u].pc # "idle"
      PROVE  /\ req'[u].pc \in After(req[u].pc)
             /\ req'[u].file = req[u].file /\ req'[u].type = req[u].type
             /\ req'[u].hit = req[u].hit
             /\ \A v \in Uploads \ {u} : req'[v] = req[v]
  BY <1>1, <1>3 DEF Goto, Request
<1>4. CASE Begin(u)
  <2> DEFINE at == 1 + Cardinality({o \in Uploads : req[o].pc # "idle"})
  <2>1. PICK k \in Keys, f \in Files, t \in Types :
          req' = [req EXCEPT ![u] = [pc |-> "lookup", key |-> k, file |-> f, type |-> t,
                                     hit |-> None, at |-> at]]
    BY <1>4 DEF Begin
  <2> HIDE DEF at
  <2>2. req'[u].pc = "lookup" /\ req'[u].hit = None
        /\ \A v \in Uploads \ {u} : req'[v] = req[v]
    BY <1>1, <2>1
  <2> QED
    BY <1>2, <1>4, <2>2 DEF Begin, After
<1>5. CASE Lookup(u)
  <2>1. req[u].pc = "lookup"
    BY <1>5 DEF Lookup
  <2>2. CASE Goto(u, "save")
    BY <1>2, <1>3, <2>1, <2>2 DEF After
  <2>3. ASSUME NEW h \in Hits(u), req' = [req EXCEPT ![u].pc = "clone", ![u].hit = h]
        PROVE  /\ req'[u].pc = "clone"
               /\ req'[u].file = req[u].file /\ req'[u].type = req[u].type
               /\ \A v \in Uploads \ {u} : req'[v] = req[v]
    BY <1>1, <2>3 DEF Request
  <2> QED
    BY <1>2, <1>5, <2>1, <2>2, <2>3 DEF Lookup, After
<1>6. CASE Clone(u) \/ Save(u) \/ SaveWrite(u) \/ Insert(u) \/ Enqueue(u) \/ Fail(u)
  <2>1. PICK p \in After(req[u].pc) : Goto(u, p) /\ req[u].pc # "idle"
    BY <1>1, <1>6 DEF Clone, Save, SaveWrite, Insert, Enqueue, Fail, Respond, After, Answered,
                      RequestPcs
  <2> QED
    BY <1>2, <1>3, <2>1
<1> QED
  BY <1>4, <1>5, <1>6 DEF Handle

\* What a worker does not touch.
LEMMA WorkersLeave ==
    ASSUME IInv, NEW w \in Workers, Dequeue(w) \/ Process(w) \/ Escape(w)
    PROVE  /\ UNCHANGED <<req, store>>
           /\ \A u \in Uploads : rq[u] = "unknown" =>
                jobs'[u] = jobs[u] /\ llm'[u] = llm[u] /\ rq'[u] = rq[u]
<1>1. UNCHANGED <<req, store>>
  BY DEF Dequeue, Process, Load, Read, ExtractRaises, ExtractText, CallLLM, LLMRaises,
         RecordAttempts, Finalize, Escape, GiveUp
<1>2. SUFFICES ASSUME NEW u \in Uploads, rq[u] = "unknown"
               PROVE  jobs'[u] = jobs[u] /\ llm'[u] = llm[u] /\ rq'[u] = rq[u]
  BY <1>1
<1>3. CASE Dequeue(w)
  <2>1. TypeOK /\ QueueOK
    BY DEF IInv
  <2>2. queue \in Seq(Uploads) /\ queue # <<>> /\ 1 \in DOMAIN queue /\ Head(queue) = queue[1]
    BY <1>3, <2>1 DEF TypeOK, Dequeue
  <2>3. u # Head(queue)
    BY <1>2, <2>1, <2>2 DEF QueueOK
  <2> QED
    BY <1>2, <1>3, <2>1, <2>3, DequeueEffect
<1>4. CASE ~Dequeue(w)
  <2>1. wk[w].pc # "idle"
    BY <1>4 DEF Process, Load, Read, ExtractRaises, ExtractText, CallLLM, LLMRaises,
                RecordAttempts, Finalize, Escape, At
  <2>2. wk[w].job # u
    BY <1>2, <2>1, BusyWorker
  <2> QED
    BY <1>2, <1>4, <2>2, LoadEffect, ReadEffect, RaisesEffect, ExtractTextEffect, CallLLMEffect,
       RecordAttemptsEffect, FinalizeEffect, EscapeEffect
    DEF Process, StatusGoes, WorkerLeaves
<1> QED
  BY <1>3, <1>4

-----------------------------------------------------------------------------
(* Objects that are being written. *)

Rival(j) == \E v \in Uploads \ {j} : Wrote(v, jobs[j].file)

\* Who misses the cache has no hit; who has an object open is writing it or was
\* interrupted, and has no row; who reads it damaged has a rival.
SharedInv ==
    /\ \A u \in Uploads :
         req[u].pc \in {"lookup", "save", "write", "insert", "enqueue", "accepted"}
           => req[u].hit = None
    /\ \A f \in Files, u \in Uploads :
         store[f] = u => req[u].pc \in {"write", "error"} /\ Wrote(u, f) /\ ~Has(u)
    /\ \A w \in Workers : wk[w].pc = "extract" /\ wk[w].data = "damaged" => Rival(wk[w].job)
    /\ \A j \in Uploads : results[j].text = "damaged" /\ ~jobs[j].cached => Rival(j)
    /\ \A j \in Uploads : ~Has(j) => results[j].text = "absent"

LEMMA SharedInit == Init => SharedInv
<1> SUFFICES ASSUME Init PROVE SharedInv
  OBVIOUS
<1>1. /\ \A u \in Uploads : req[u].pc = "idle" /\ results[u].text = "absent"
      /\ \A f \in Files : store[f] = "absent"
      /\ \A w \in Workers : wk[w].pc = "idle"
  BY DEF Init, Idle, NoResult, Free, Fresh
<1> QED
  BY <1>1, UploadAssumption DEF SharedInv

\* Whoever wrote goes on having written.
LEMMA WroteStays ==
    ASSUME IInv, SharedInv, NEW u \in Uploads, Begin(u) \/ Handle(u) \/ Fail(u),
           NEW v \in Uploads, NEW f, Wrote(v, f)
    PROVE  Wrote(v, f)'
<1>1. CASE v = u
  <2>1. req[u].pc \in {"write", "insert", "enqueue"}
        /\ req'[u].pc \in {"write", "insert", "enqueue", "accepted", "error"}
    BY <1>1, Moves DEF Wrote, After
  <2> QED
    BY <1>1, <2>1, Moves DEF Wrote
<1>2. CASE v # u
  BY <1>2, Moves DEF Wrote
<1> QED
  BY <1>1, <1>2

\* A row, once there, keeps its file, and a rival of it stays one.
LEMMA RivalStays ==
    ASSUME IInv, SharedInv, NEW j \in Uploads, Rival(j), jobs'[j].file = jobs[j].file,
           \/ UNCHANGED req
           \/ \E u \in Uploads : Begin(u) \/ Handle(u) \/ Fail(u)
    PROVE  Rival(j)'
<1>1. PICK v \in Uploads \ {j} : Wrote(v, jobs[j].file)
  BY DEF Rival
<1>2. CASE UNCHANGED req
  BY <1>1, <1>2 DEF Rival, Wrote
<1>3. CASE \E u \in Uploads : Begin(u) \/ Handle(u) \/ Fail(u)
  <2>1. Wrote(v, jobs[j].file)'
    BY <1>1, <1>3, WroteStays
  <2> QED
    BY <1>1, <2>1 DEF Rival, Wrote
<1> QED
  BY <1>2, <1>3

LEMMA HandlerShares ==
    ASSUME IInv, SharedInv, NEW u \in Uploads, Begin(u) \/ Handle(u) \/ Fail(u)
    PROVE  SharedInv'
<1>1. TypeOK /\ RequestOK(u) /\ store \in [Files -> {"absent", "whole"} \cup Uploads]
  BY DEF IInv, TypeOK
<1>2. \A v \in Uploads \ {u} : jobs'[v] = jobs[v] /\ results'[v] = results[v]
  BY <1>1, CloneEffect, InsertEffect DEF Begin, Handle, Lookup, Save, SaveWrite, Enqueue, Fail
<1>3. Has(u) => UNCHANGED <<jobs, results>>
  BY <1>1 DEF RequestOK, Has, Begin, Handle, Lookup, Clone, Save, SaveWrite, Insert, Enqueue, Fail
<1>4. /\ Clone(u) => jobs'[u].cached /\ jobs'[u].status = "DONE"
      /\ ~Clone(u) => UNCHANGED results
      /\ ~Clone(u) /\ ~Insert(u) => UNCHANGED jobs
  BY <1>1, CloneEffect DEF Begin, Handle, Lookup, Save, SaveWrite, Insert, Enqueue, Fail
<1>5. ASSUME NEW v \in Uploads,
             req'[v].pc \in {"lookup", "save", "write", "insert", "enqueue", "accepted"}
      PROVE  req'[v].hit = None
  <2>1. CASE v = u
    <3>1. req[u].pc \in {"idle", "lookup", "save", "write", "insert", "enqueue"}
      BY <1>5, <2>1, Moves DEF After
    <3> QED
      BY <1>5, <2>1, <3>1, Moves DEF SharedInv
  <2>2. CASE v # u
    BY <1>5, <2>2, Moves DEF SharedInv
  <2> QED
    BY <2>1, <2>2
<1>6. ASSUME NEW f \in Files, NEW x \in Uploads, store'[f] = x
      PROVE  req'[x].pc \in {"write", "error"} /\ Wrote(x, f)' /\ ~Has(x)'
  <2>1. ASSUME store[f] = x, ~Has(x)', req'[x].pc \in {"write", "error"}
        PROVE  req'[x].pc \in {"write", "error"} /\ Wrote(x, f)' /\ ~Has(x)'
    BY <2>1, WroteStays DEF SharedInv
  <2>2. store[f] = x => req[x].pc \in {"write", "error"} /\ req[x].file = f /\ ~Has(x)
    BY DEF SharedInv, Wrote
  <2>3. ASSUME store[f] = x, x # u
        PROVE  req'[x].pc \in {"write", "error"} /\ Wrote(x, f)' /\ ~Has(x)'
    <3>1. ~Has(x)' /\ req'[x].pc \in {"write", "error"}
      BY <1>2, <2>2, <2>3, Moves DEF Has
    <3> QED
      BY <2>1, <2>3, <3>1
  <2>4. CASE Save(u)
    <3>1. /\ req[u].pc = "save" /\ UNCHANGED jobs
          /\ store' = [store EXCEPT ![req[u].file] = IF AtomicPut THEN "whole" ELSE u]
          /\ Goto(u, IF AtomicPut THEN "insert" ELSE "write")
      BY <2>4 DEF Save
    <3>2. CASE f = req[u].file
      <4>1. x = u /\ ~AtomicPut
        BY <1>1, <1>6, <3>1, <3>2, UploadAssumption
      <4>2. req'[u].pc = "write" /\ ~Has(u)'
        BY <1>1, <3>1, <4>1, GotoEffect DEF RequestGoes, RequestPcs, RequestOK, Has
      <4>3. req'[u].file = f /\ req'[u].hit = None
        BY <2>4, <3>1, <3>2, <4>2, Moves DEF SharedInv, Handle
      <4> QED
        BY <4>1, <4>2, <4>3 DEF Wrote
    <3>3. CASE f # req[u].file
      BY <1>1, <1>6, <2>2, <2>3, <3>1, <3>3
    <3> QED
      BY <3>2, <3>3
  <2>5. CASE SaveWrite(u)
    <3>1. PICK s \in (IF store[req[u].file] = u THEN {"whole"} ELSE {store[req[u].file], "whole"}) :
            store' = [store EXCEPT ![req[u].file] = s]
      BY <2>5 DEF SaveWrite
    <3>2. store[f] = x /\ x # u
      BY <1>1, <1>6, <2>2, <3>1, UploadAssumption
    <3> QED
      BY <2>3, <3>2
  <2>6. CASE ~Save(u) /\ ~SaveWrite(u)
    <3>1. UNCHANGED store /\ store[f] = x
      BY <1>6, <2>6 DEF Begin, Handle, Lookup, Clone, Insert, Enqueue, Fail
    <3>2. CASE x = u
      <4>1. req[u].pc = "write" /\ req'[u].pc \in {"insert", "error"}
        BY <2>2, <3>1, <3>2, Moves DEF After
      <4>2. Fail(u)
        BY <2>6, <4>1 DEF Begin, Handle, Lookup, Clone, Insert, Enqueue
      <4>3. UNCHANGED jobs /\ req'[u].pc = "error"
        BY <1>1, <4>2, FailEffect DEF RequestGoes
      <4> QED
        BY <2>1, <2>2, <3>1, <3>2, <4>3 DEF Has
    <3> QED
      BY <2>3, <3>1, <3>2
  <2> QED
    BY <2>4, <2>5, <2>6
<1>7. ASSUME NEW w \in Workers, wk'[w].pc = "extract", wk'[w].data = "damaged"
      PROVE  Rival(wk[w].job)'
  <2>1. UNCHANGED wk /\ Rival(wk[w].job)
    BY <1>7, Moves DEF SharedInv
  <2>2. wk[w].job \in Uploads /\ Has(wk[w].job)
    BY <1>7, <2>1, BusyWorker DEF WorkerOK, Has
  <2>3. jobs'[wk[w].job].file = jobs[wk[w].job].file
    BY <1>2, <1>3, <2>2
  <2>4. \A j \in Uploads : Rival(j) /\ jobs'[j].file = jobs[j].file => Rival(j)'
    BY RivalStays
  <2>5. wk[w].job' = wk[w].job
    BY <2>1
  <2> QED
    BY <2>1, <2>2, <2>3, <2>4, <2>5 DEF Rival
<1>8. ASSUME NEW j \in Uploads, results'[j].text = "damaged", ~jobs'[j].cached
      PROVE  Rival(j)'
  <2>1. results'[j] = results[j]
    BY <1>2, <1>4, <1>8
  <2>2. Has(j)
    BY <1>8, <2>1 DEF SharedInv
  <2>3. jobs'[j] = jobs[j]
    BY <1>2, <1>3, <2>2
  <2> QED
    BY <1>8, <2>1, <2>3, RivalStays DEF SharedInv
<1>9. ASSUME NEW j \in Uploads, ~Has(j)'
      PROVE  results'[j].text = "absent"
  <2>1. ~Has(j) /\ results'[j] = results[j]
    BY <1>2, <1>3, <1>4, <1>9 DEF Has
  <2> QED
    BY <2>1 DEF SharedInv
<1> QED
  BY <1>5, <1>6, <1>7, <1>8, <1>9 DEF SharedInv

\* A worker changes the status of its own job and nothing else of the rows.
LEMMA RowsOutlive ==
    ASSUME IInv, NEW w \in Workers, Dequeue(w) \/ Process(w) \/ Escape(w), NEW j \in Uploads
    PROVE  /\ jobs'[j].file = jobs[j].file /\ jobs'[j].cached = jobs[j].cached
           /\ Has(j)' <=> Has(j)
           /\ ~Has(j) => results'[j] = results[j]
<1>1. CASE UNCHANGED <<jobs, results>>
  BY <1>1 DEF Has
<1>2. CASE ~UNCHANGED <<jobs, results>>
  <2>1. wk[w].pc # "idle" /\ ~Dequeue(w) /\ ~Escape(w) /\ ~Read(w) /\ ~CallLLM(w)
    BY <1>2 DEF Dequeue, Process, Load, Read, ExtractRaises, ExtractText, CallLLM, LLMRaises,
                RecordAttempts, Finalize, Escape, At
  <2>2. wk[w].job \in Uploads
    BY <2>1, BusyWorker
  <2>3. Has(wk[w].job)
    BY <2>2, AbsentIsFree DEF Has
  <2>4. PICK s \in JobStatus \ {"absent"} :
          /\ StatusGoes(wk[w].job, s)
          /\ \A i \in Uploads \ {wk[w].job} : results'[i] = results[i]
    <3>1. {"EXTRACTING", "EXTRACTING_AI", "VALIDATING", "DONE", "NEEDS_REVIEW", "FAILED"}
            \subseteq JobStatus
      BY DEF JobStatus, Stages, Settled
    <3>2. CASE Load(w) \/ RecordAttempts(w)
      BY <3>1, <3>2, LoadEffect, RecordAttemptsEffect
    <3>3. CASE ExtractRaises(w) \/ LLMRaises(w)
      BY <3>1, <3>3, RaisesEffect
    <3>4. CASE ExtractText(w)
      BY <3>1, <3>4, ExtractTextEffect
    <3>5. CASE Finalize(w)
      BY <3>1, <3>5, FinalizeEffect
    <3> QED
      BY <2>1, <3>2, <3>3, <3>4, <3>5 DEF Process
  <2> QED
    BY <2>2, <2>3, <2>4 DEF StatusGoes, Has
<1> QED
  BY <1>1, <1>2

LEMMA WorkerShares ==
    ASSUME IInv, SharedInv, NEW w \in Workers, Dequeue(w) \/ Process(w) \/ Escape(w)
    PROVE  SharedInv'
<1>1. TypeOK /\ UNCHANGED <<req, store>>
  BY WorkersLeave DEF IInv
<1>2. \A j \in Uploads : Rival(j) => Rival(j)'
  BY <1>1, RivalStays, RowsOutlive
<1>3. /\ \A x \in Workers \ {w} : wk'[x] = wk[x]
      /\ ~Read(w) => \A x \in Workers : wk'[x].pc = "extract" => wk'[x] = wk[x]
  BY <1>1, DequeueEffect, LoadEffect, ReadEffect, RaisesEffect, ExtractTextEffect, CallLLMEffect,
     RecordAttemptsEffect, FinalizeEffect, EscapeEffect
  DEF Process, WorkerGoes, WorkerLeaves
<1>4. ASSUME Read(w), wk'[w].data = "damaged"
      PROVE  Rival(wk[w].job) /\ wk'[w].job = wk[w].job
  <2> DEFINE j == wk[w].job
             f == jobs[j].file
  <2>1. wk[w].pc = "read" /\ wk \in [Workers -> Worker] /\ wk'[w].job = j
    BY <1>1, <1>4, ReadEffect DEF TypeOK, WorkerGoes
  <2>2. j \in Uploads /\ Has(j) /\ RowOK(j) /\ RequestOK(j) /\ ~jobs[j].cached
    BY <2>1, BusyWorker DEF IInv, WorkerOK, Has
  <2>3. f \in Files /\ store[f] # "absent" /\ store[f] \in {"absent", "whole"} \cup Uploads
    BY <1>1, <2>2 DEF RowOK, RequestOK, TypeOK
  <2>4. store[f] # "whole"
    <3>1. wk'[w].data = IF store[f] = "whole" THEN "whole" ELSE "damaged"
      BY <1>4, <2>1, <2>3 DEF Read, Worker
    <3> QED
      BY <1>4, <3>1
  <2>5. Wrote(store[f], f) /\ ~Has(store[f])
    BY <2>3, <2>4 DEF SharedInv
  <2> QED
    BY <2>1, <2>2, <2>3, <2>4, <2>5 DEF Rival
<1>5. ASSUME NEW x \in Workers, wk'[x].pc = "extract", wk'[x].data = "damaged"
      PROVE  Rival(wk[x].job)'
  <2>1. Rival(wk[x].job) /\ wk'[x].job = wk[x].job
    BY <1>3, <1>4, <1>5 DEF SharedInv
  <2>2. wk[x].job \in Uploads
    <3>1. wk[x].pc # "idle"
      BY <1>3, <1>5, ReadEffect
    <3> QED
      BY <3>1, BusyWorker
  <2> QED
    BY <1>2, <2>1, <2>2 DEF Rival
<1>6. ASSUME NEW j \in Uploads, results'[j].text = "damaged", ~jobs'[j].cached
      PROVE  Rival(j)
  <2>1. CASE ExtractText(w) /\ j = wk[w].job
    <3>1. results' = [results EXCEPT ![j] = [text |-> wk[w].data, fields |-> None]]
          /\ wk[w].pc = "extract" /\ results \in [Uploads -> JobResult]
      BY <1>1, <2>1 DEF ExtractText, At, TypeOK
    <3>2. wk[w].data = "damaged"
      BY <1>6, <3>1
    <3> QED
      BY <2>1, <3>1, <3>2 DEF SharedInv
  <2>2. CASE ~(ExtractText(w) /\ j = wk[w].job)
    <3>1. results'[j].text = results[j].text
      <4>1. CASE ExtractText(w) \/ Finalize(w)
        BY <2>2, <4>1, ExtractTextEffect, FinalizeEffect
      <4>2. CASE ~ExtractText(w) /\ ~Finalize(w)
        BY <4>2 DEF Dequeue, Process, Load, Read, ExtractRaises, CallLLM, LLMRaises, GiveUp,
                    RecordAttempts, Escape
      <4> QED
        BY <4>1, <4>2
    <3> QED
      BY <1>6, <3>1, RowsOutlive DEF SharedInv
  <2> QED
    BY <2>1, <2>2
<1>7. ASSUME NEW j \in Uploads, ~Has(j)'
      PROVE  results'[j].text = "absent"
  <2>1. ~Has(j) /\ results'[j] = results[j]
    BY <1>7, RowsOutlive
  <2> QED
    BY <2>1 DEF SharedInv
<1>8. \A f \in Files, u \in Uploads :
         store'[f] = u => req'[u].pc \in {"write", "error"} /\ Wrote(u, f)' /\ ~Has(u)'
  BY <1>1, RowsOutlive DEF SharedInv, Wrote
<1> QED
  BY <1>1, <1>2, <1>5, <1>6, <1>7, <1>8 DEF SharedInv

LEMMA SharedStep ==
    ASSUME IInv, SharedInv, [Next]_vars
    PROVE  SharedInv'
<1>1. CASE UNCHANGED vars
  BY <1>1 DEF vars, SharedInv, Rival, Wrote, Has
<1> QED
  BY <1>1, HandlerShares, WorkerShares DEF Next

\* A worker only ever reads half an object because a second upload of the file,
\* which missed the cache like the first, is writing it or died writing it.
THEOREM DamagedByRivalHolds == Spec => []DamagedByRival
<1>1. SharedInv => DamagedByRival
  BY DEF SharedInv, DamagedByRival, Rival
<1> QED
  BY <1>1, SharedInit, SharedStep, Invariance, PTL DEF Spec

-----------------------------------------------------------------------------
(* Documents that are DONE. *)

\* Whether u is about another document, has not begun, or is and stays free.
Cheap(u, f, t) ==
    \/ req[u].pc = "idle"
    \/ req[u].file # f \/ req[u].type # t
    \/ req[u].pc \in {"lookup", "clone", "cached", "error"} /\ Spared(u, f)

LEMMA OnRecordStays ==
    ASSUME IInv, [Next]_vars, NEW f, NEW t, OnRecord(f, t)
    PROVE  OnRecord(f, t)'
<1>1. PICK o \in Uploads : jobs[o].status = "DONE" /\ jobs[o].file = f /\ jobs[o].type = t
  BY DEF OnRecord
<1>2. jobs'[o] = jobs[o]
  BY <1>1, SettledKept DEF Settled, vars
<1> QED
  BY <1>1, <1>2 DEF OnRecord

\* Before it is queued an upload owes nobody anything.
LEMMA AbsentIsSpared ==
    ASSUME IInv, SharedInv, NEW u \in Uploads, NEW f \in Files, ~Has(u),
           req[u].pc \notin {"write", "error"}
    PROVE  Spared(u, f)
<1>1. rq[u] = "unknown" /\ llm[u] = 0
  BY AbsentIsFree DEF IInv, RowOK, Has
<1> QED
  BY <1>1 DEF Spared, SharedInv

LEMMA CheapStays ==
    ASSUME IInv, SharedInv, [Next]_vars, NEW u \in Uploads, NEW f \in Files, NEW t \in Types,
           OnRecord(f, t), Cheap(u, f, t)
    PROVE  Cheap(u, f, t)'
<1>1. TypeOK /\ RequestOK(u)
  BY DEF IInv
<1>2. ASSUME Begin(u) \/ Handle(u) \/ Fail(u)
      PROVE  Cheap(u, f, t)'
  <2>1. CASE req[u].pc = "idle" \/ req[u].pc = "lookup"
    <3>1. Spared(u, f) /\ (Begin(u) \/ Lookup(u) \/ Fail(u))
      BY <1>1, <1>2, <2>1, AbsentIsSpared
      DEF RequestOK, Has, Handle, Clone, Save, SaveWrite, Insert, Enqueue
    <3>2. Spared(u, f)'
      BY <3>1 DEF Begin, Lookup, Fail, Spared, Has
    <3>3. Lookup(u) /\ req[u].file = f /\ req[u].type = t => req'[u].pc = "clone"
      <4>1. req \in [Uploads -> Request]
        BY <1>1 DEF TypeOK
      <4> QED
        BY <4>1 DEF Lookup, Hits, OnRecord, Request
    <3>4. Begin(u) => req'[u].pc = "lookup"
      BY <1>1, BeginEffect
    <3>5. Fail(u) => req'[u].pc = "error"
      BY <1>1, FailEffect DEF RequestGoes
    <3>6. Lookup(u) => req'[u].file = req[u].file /\ req'[u].type = req[u].type
      BY <1>1, LookupEffect DEF RequestGoes
    <3> QED
      BY <3>1, <3>2, <3>3, <3>4, <3>5, <3>6 DEF Cheap
  <2>2. CASE req[u].pc # "idle" /\ (req[u].file # f \/ req[u].type # t)
    BY <1>2, <2>2, Moves DEF Cheap
  <2>3. CASE req[u].pc = "clone" /\ Spared(u, f)
    <3>1. Clone(u) \/ Fail(u)
      BY <1>2, <2>3 DEF Begin, Handle, Lookup, Save, SaveWrite, Insert, Enqueue
    <3>2. req'[u].pc \in {"cached", "error"}
      BY <1>2, <2>3, Moves DEF After
    <3>3. Spared(u, f)'
      <4>1. CASE Clone(u)
        BY <1>1, <2>3, <4>1, CloneEffect DEF Spared
      <4>2. CASE Fail(u)
        BY <2>3, <4>2 DEF Fail, Spared, Has
      <4> QED
        BY <3>1, <4>1, <4>2
    <3> QED
      BY <3>2, <3>3 DEF Cheap
  <2>4. CASE req[u].pc \in {"cached", "error"}
    BY <1>2, <2>4, Moves DEF After
  <2> QED
    BY <2>1, <2>2, <2>3, <2>4 DEF Cheap
<1>3. ASSUME req'[u] = req[u], Spared(u, f) => Spared(u, f)'
      PROVE  Cheap(u, f, t)'
  BY <1>3 DEF Cheap
<1>4. ASSUME NEW v \in Uploads \ {u}, Begin(v) \/ Handle(v) \/ Fail(v)
      PROVE  Cheap(u, f, t)'
  <2>1. req'[u] = req[u] /\ UNCHANGED <<wk, llm>>
    BY <1>4, Moves
  <2>2. RequestOK(v)
    BY DEF IInv
  <2>3. jobs'[u] = jobs[u] /\ rq'[u] = rq[u]
    BY <1>1, <1>4, <2>2, CloneEffect, InsertEffect, EnqueueEffect
    DEF Begin, Handle, Lookup, Save, SaveWrite, Fail
  <2>4. store[f] # u => store'[f] # u
    <3>1. store \in [Files -> {"absent", "whole"} \cup Uploads]
      BY <1>1 DEF TypeOK
    <3>2. CASE Save(v)
      BY <3>1, <3>2, UploadAssumption DEF Save
    <3>3. CASE SaveWrite(v)
      <4>1. PICK s \in (IF store[req[v].file] = v THEN {"whole"} ELSE {store[req[v].file], "whole"}) :
              store' = [store EXCEPT ![req[v].file] = s]
        BY <3>3 DEF SaveWrite
      <4> QED
        BY <3>1, <4>1, UploadAssumption
    <3>4. CASE ~Save(v) /\ ~SaveWrite(v)
      BY <1>4, <3>4 DEF Begin, Handle, Lookup, Clone, Insert, Enqueue, Fail
    <3> QED
      BY <3>2, <3>3, <3>4
  <2> QED
    BY <1>3, <2>1, <2>3, <2>4 DEF Spared, Has
<1>5. ASSUME NEW w \in Workers, Dequeue(w) \/ Process(w) \/ Escape(w)
      PROVE  Cheap(u, f, t)'
  BY <1>3, <1>5, WorkersLeave DEF Spared, Has
<1>6. CASE UNCHANGED vars
  BY <1>6 DEF vars, Cheap, Spared, Has
<1> QED
  BY <1>2, <1>4, <1>5, <1>6 DEF Next

\* Once a document is DONE, no later upload of it reaches the queue, the LLM or
\* the stored object.
THEOREM DoneIsReusedHolds == Spec => DoneIsReused
<1>1. SUFFICES ASSUME NEW u \in Uploads, NEW f \in Files, NEW t \in Types
               PROVE  Spec => []( /\ req[u].pc = "idle" /\ OnRecord(f, t)
                                  => [](req[u].file = f /\ req[u].type = t => Spared(u, f)) )
  BY DEF DoneIsReused
<1> DEFINE Early == req[u].pc = "idle" /\ OnRecord(f, t)
           Late  == req[u].file = f /\ req[u].type = t => Spared(u, f)
           Inv   == IInv /\ SharedInv
           Kept == OnRecord(f, t) /\ Cheap(u, f, t)
<1>2. Early => Kept
  BY DEF Cheap
<1>3. Inv /\ Kept /\ [Next]_vars => Kept'
  BY OnRecordStays, CheapStays
<1>4. Inv /\ Kept => Late
  BY AbsentIsSpared DEF Cheap, IInv, RequestOK, Has
<1>5. Spec => []Inv
  BY SharedInit, SharedStep, Invariance, PTL DEF Spec
<1> HIDE DEF Inv, Kept, Early, Late
<1>6. Spec => [](Early => []Late)
  BY <1>2, <1>3, <1>4, <1>5, PTL DEF Spec
<1> QED
  BY <1>6, PTL DEF Early, Late

=============================================================================
