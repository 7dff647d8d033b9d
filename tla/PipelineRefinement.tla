------------------------- MODULE PipelineRefinement -------------------------
(***************************************************************************)
(* Proof that Pipeline implements JobLifecycle: every step of an upload    *)
(* handler or of a worker is, to a client that polls its job, a step of    *)
(* the job's life or invisible.                                            *)
(***************************************************************************)
EXTENDS PipelineProofs

\* The job as its client sees it.
Shown(j) == [status |-> jobs[j].status, doc |-> Doc(j),
             answer |-> IF Published(j) THEN results[j] ELSE None]
Board == [j \in Uploads |-> Shown(j)]

-----------------------------------------------------------------------------
(* How the board changes when one row or none does. *)

LEMMA BoardChanges ==
    ASSUME NEW j \in Uploads, \A i \in Uploads \ {j} : Shown(i)' = Shown(i)
    PROVE  Board' = [Board EXCEPT ![j] = Shown(j)']
<1>1. \A i \in Uploads : Board'[i] = [Board EXCEPT ![j] = Shown(j)'][i]
  BY DEF Board
<1> QED
  BY <1>1 DEF Board

LEMMA OthersShown ==
    ASSUME NEW j \in Uploads,
           \A i \in Uploads \ {j} : jobs'[i] = jobs[i] /\ results'[i] = results[i]
    PROVE  \A i \in Uploads \ {j} : Shown(i)' = Shown(i)
BY DEF Shown, Doc, Has, Published

LEMMA NothingShown ==
    ASSUME UNCHANGED <<jobs, results>>
    PROVE  Board' = Board
BY DEF Board, Shown, Doc, Has, Published

LEMMA StageStep ==
    ASSUME NEW j \in Uploads, NEW from, NEW to,
           \A i \in Uploads \ {j} : Shown(i)' = Shown(i),
           Shown(j).status = from,
           Shown(j)' = [status |-> to, doc |-> Shown(j).doc, answer |-> Shown(j).answer]
    PROVE  Lifecycle!Stage(from, to, j)
<1>1. Board' = [Board EXCEPT ![j] = Shown(j)']
  BY BoardChanges
<1>2. [Board EXCEPT ![j].status = to] = [Board EXCEPT ![j] = Shown(j)']
  <2>1. [Shown(j) EXCEPT !.status = to] = Shown(j)'
    BY DEF Shown
  <2>2. Board[j] = Shown(j)
    BY DEF Board
  <2> QED
    BY <2>1, <2>2
<1>3. Board[j].status = from
  BY DEF Board
<1> QED
  BY <1>1, <1>2, <1>3 DEF Lifecycle!Stage, Board, Shown

\* Worker w gives its job j the status s and changes no published answer.
LEMMA StatusStep ==
    ASSUME NEW j \in Uploads, NEW from \in Stages, NEW to \in Stages \cup {"FAILED"},
           jobs[j].status = from, StatusGoes(j, to),
           \A i \in Uploads \ {j} : results'[i] = results[i]
    PROVE  Lifecycle!Stage(from, to, j)
<1>1. \A i \in Uploads \ {j} : Shown(i)' = Shown(i)
  BY OthersShown DEF StatusGoes
<1>2. Shown(j).status = from
  BY DEF Shown
<1>3. Shown(j)' = [status |-> to, doc |-> Shown(j).doc, answer |-> Shown(j).answer]
  BY DEF Shown, StatusGoes, Doc, Has, Published, Stages
<1> QED
  BY <1>1, <1>2, <1>3, StageStep

\* Worker w publishes the verdict s and the result p of its job j.
LEMMA PublishStep ==
    ASSUME NEW j \in Uploads, NEW s \in {"DONE", "NEEDS_REVIEW"}, NEW p \in JobResult,
           p = results'[j], jobs[j].status \in {"EXTRACTING", "VALIDATING"},
           jobs[j].status = "EXTRACTING" => s = "DONE",
           StatusGoes(j, s), \A i \in Uploads \ {j} : results'[i] = results[i]
    PROVE  Lifecycle!Publish(j, s, p)
<1>1. \A i \in Uploads \ {j} : Shown(i)' = Shown(i)
  BY OthersShown DEF StatusGoes
<1>2. Board' = [Board EXCEPT ![j] = Shown(j)']
  BY <1>1, BoardChanges
<1>3. Shown(j)' = [status |-> s, doc |-> Shown(j).doc, answer |-> p]
  BY DEF Shown, StatusGoes, Doc, Has, Published
<1>4. Board[j] = Shown(j) /\ Board[j].status = jobs[j].status
  BY DEF Board, Shown
<1>5. [Board EXCEPT ![j].status = s, ![j].answer = p] = [Board EXCEPT ![j] = Shown(j)']
  <2>1. [[Shown(j) EXCEPT !.status = s] EXCEPT !.answer = p] = Shown(j)'
    <3> DEFINE r == [status |-> s, doc |-> Shown(j).doc, answer |-> Shown(j).answer]
    <3>1. [Shown(j) EXCEPT !.status = s] = r
      BY DEF Shown
    <3>2. [r EXCEPT !.answer = p] = [status |-> s, doc |-> Shown(j).doc, answer |-> p]
      <4> HIDE DEF Shown
      <4> QED
        OBVIOUS
    <3> QED
      BY <1>3, <3>1, <3>2
  <2>2. \A i \in Uploads : [Board EXCEPT ![j].status = s, ![j].answer = p][i]
                             = [Board EXCEPT ![j] = Shown(j)'][i]
    BY <1>4, <2>1 DEF Board
  <2> QED
    BY <2>2 DEF Board
<1> QED
  BY <1>2, <1>4, <1>5 DEF Lifecycle!Publish, Board, Shown

-----------------------------------------------------------------------------
(* The refinement. *)

LEMMA InitMaps == Init => Lifecycle!Init
<1> SUFFICES ASSUME Init PROVE Lifecycle!Init
  OBVIOUS
<1>1. \A j \in Uploads : Shown(j) = [status |-> "absent", doc |-> None, answer |-> None]
  BY DEF Init, NoJob, Shown, Doc, Has, Published
<1>2. Board = [j \in Uploads |-> [status |-> "absent", doc |-> None, answer |-> None]]
  BY <1>1 DEF Board
<1> QED
  BY <1>2 DEF Lifecycle!Init, Lifecycle!Unseen, Board, Shown

LEMMA HandlerMaps ==
    ASSUME IInv, NEW u \in Uploads, Begin(u) \/ Handle(u) \/ Fail(u)
    PROVE  Lifecycle!Next \/ Board' = Board
<1>1. TypeOK /\ RequestOK(u)
  BY Unfolded DEF JobOK
<1>2. CASE Clone(u)
  <2>1. PICK h \in Uploads : h = req[u].hit
    BY <1>1, <1>2 DEF RequestOK, Clone
  <2>2. /\ jobs[u].status = "absent" /\ jobs[h].status = "DONE"
        /\ jobs[h].file = req[u].file /\ jobs[h].type = req[u].type
    BY <1>1, <1>2, <2>1 DEF RequestOK, Clone
  <2>3. /\ jobs'[u].status = "DONE"
        /\ jobs'[u].file = req[u].file /\ jobs'[u].type = req[u].type
        /\ results'[u] = results[h]
        /\ \A v \in Uploads \ {u} : jobs'[v] = jobs[v] /\ results'[v] = results[v]
    BY <1>1, <1>2, <2>1, CloneEffect
  <2>4. Shown(u)' = Shown(h)
    BY <2>2, <2>3 DEF Shown, Doc, Has, Published
  <2>5. Board' = [Board EXCEPT ![u] = Board[h]]
    BY <2>3, <2>4, BoardChanges, OthersShown DEF Board
  <2>6. Board[u].status = "absent" /\ Board[h].status = "DONE"
    BY <2>2 DEF Board, Shown
  <2>7. Lifecycle!Reuse(u, h)
    BY <2>5, <2>6 DEF Lifecycle!Reuse, Board, Shown
  <2> QED
    BY <2>7 DEF Lifecycle!Next
<1>3. CASE Insert(u)
  <2>1. /\ jobs'[u].status = "PENDING"
        /\ jobs'[u].file = req[u].file /\ jobs'[u].type = req[u].type
        /\ \A v \in Uploads \ {u} : jobs'[v] = jobs[v]
        /\ UNCHANGED results
    BY <1>1, <1>3, InsertEffect
  <2>2. /\ jobs[u].status = "absent"
        /\ [file |-> req[u].file, type |-> req[u].type] \in [file : Files, type : Types]
    BY <1>1, <1>3 DEF RequestOK, Insert
  <2> PICK d \in [file : Files, type : Types] :
             d = [file |-> req[u].file, type |-> req[u].type]
    BY <2>2
  <2>3. Shown(u)' = [status |-> "PENDING", doc |-> d, answer |-> None]
    BY <2>1 DEF Shown, Doc, Has, Published
  <2>4. Board' = [Board EXCEPT ![u] = [status |-> "PENDING", doc |-> d, answer |-> None]]
    BY <2>1, <2>3, BoardChanges, OthersShown
  <2>5. Board[u].status = "absent"
    BY <2>2 DEF Board, Shown
  <2>6. Lifecycle!Accept(u, d)
    BY <2>4, <2>5 DEF Lifecycle!Accept, Board, Shown
  <2> QED
    BY <2>2, <2>6 DEF Lifecycle!Next
<1>4. CASE Begin(u) \/ Lookup(u) \/ Save(u) \/ SaveWrite(u) \/ Enqueue(u) \/ Fail(u)
  <2>1. UNCHANGED <<jobs, results>>
    BY <1>4 DEF Begin, Lookup, Save, SaveWrite, Enqueue, Fail
  <2> QED
    BY <2>1, NothingShown
<1> QED
  BY <1>2, <1>3, <1>4 DEF Handle

LEMMA WorkerMaps ==
    ASSUME IInv, NEW w \in Workers, Dequeue(w) \/ Process(w) \/ Escape(w)
    PROVE  Lifecycle!Next \/ Board' = Board
<1>1. CASE Dequeue(w) \/ Read(w) \/ CallLLM(w) \/ Escape(w)
  <2>1. UNCHANGED <<jobs, results>>
    BY <1>1, ReadEffect DEF Dequeue, CallLLM, Escape
  <2> QED
    BY <2>1, NothingShown
<1>2. CASE Load(w) \/ ExtractRaises(w) \/ ExtractText(w) \/ LLMRaises(w)
           \/ RecordAttempts(w) \/ Finalize(w)
  <2>1. wk[w].pc # "idle"
    BY <1>2 DEF Load, ExtractRaises, ExtractText, LLMRaises, RecordAttempts, Finalize, At
  <2>2. PICK j \in Uploads : wk[w].job = j
    BY <2>1, BusyWorker
  <2>3. WorkerOK(w)
    BY Unfolded
  <2>4. SUFFICES Lifecycle!Work(j)
    BY DEF Lifecycle!Next
  <2>5. CASE Load(w)
    <3>1. jobs[j].status = "PENDING" /\ StatusGoes(j, "EXTRACTING") /\ UNCHANGED results
      BY <2>2, <2>3, <2>5, LoadEffect DEF WorkerOK
    <3>2. Lifecycle!Stage("PENDING", "EXTRACTING", j)
      BY <3>1, StatusStep DEF Stages
    <3> QED
      BY <3>2 DEF Lifecycle!Work, Lifecycle!Advance
  <2>6. CASE ExtractRaises(w) \/ LLMRaises(w)
    <3>1. /\ jobs[j].status \in {"EXTRACTING", "EXTRACTING_AI"}
          /\ StatusGoes(j, "FAILED") /\ UNCHANGED results
      BY <2>2, <2>3, <2>6, RaisesEffect DEF WorkerOK
    <3>2. Lifecycle!Stage(jobs[j].status, "FAILED", j)
      BY <3>1, StatusStep DEF Stages
    <3>3. Board[j].status = jobs[j].status
      BY DEF Board, Shown
    <3> QED
      BY <3>1, <3>2, <3>3
      DEF Lifecycle!Work, Lifecycle!GiveUp, Lifecycle!Stage, Board, Shown
  <2>7. CASE ExtractText(w)
    <3>1. /\ jobs[j].status = "EXTRACTING" /\ results' \in [Uploads -> JobResult]
          /\ \A i \in Uploads \ {j} : results'[i] = results[i]
          /\ StatusGoes(j, "EXTRACTING_AI") \/ StatusGoes(j, "DONE")
      BY <2>2, <2>3, <2>7, ExtractTextEffect DEF WorkerOK
    <3>2. CASE StatusGoes(j, "EXTRACTING_AI")
      <4>1. Lifecycle!Stage("EXTRACTING", "EXTRACTING_AI", j)
        BY <3>1, <3>2, StatusStep DEF Stages
      <4> QED
        BY <4>1 DEF Lifecycle!Work, Lifecycle!Advance
    <3>3. CASE StatusGoes(j, "DONE")
      <4>1. PICK p \in JobResult : p = results'[j]
        BY <3>1
      <4>2. Lifecycle!Publish(j, "DONE", p)
        BY <3>1, <3>3, <4>1, PublishStep
      <4> QED
        BY <4>1, <4>2 DEF Lifecycle!Work, Lifecycle!Verdicts
    <3> QED
      BY <3>1, <3>2, <3>3
  <2>8. CASE RecordAttempts(w)
    <3>1. jobs[j].status = "EXTRACTING_AI" /\ StatusGoes(j, "VALIDATING") /\ UNCHANGED results
      BY <2>2, <2>3, <2>8, RecordAttemptsEffect DEF WorkerOK
    <3>2. Lifecycle!Stage("EXTRACTING_AI", "VALIDATING", j)
      BY <3>1, StatusStep DEF Stages
    <3> QED
      BY <3>2 DEF Lifecycle!Work, Lifecycle!Advance
  <2>9. CASE Finalize(w)
    <3>1. /\ jobs[j].status = "VALIDATING" /\ results' \in [Uploads -> JobResult]
          /\ \A i \in Uploads \ {j} : results'[i] = results[i]
      BY <2>2, <2>3, <2>9, FinalizeEffect DEF WorkerOK
    <3>2. PICK s \in {"DONE", "NEEDS_REVIEW"} : StatusGoes(j, s)
      BY <2>2, <2>9, FinalizeEffect
    <3>3. PICK p \in JobResult : p = results'[j]
      BY <3>1
    <3>4. Lifecycle!Publish(j, s, p)
      BY <3>1, <3>2, <3>3, PublishStep
    <3> QED
      BY <3>3, <3>4 DEF Lifecycle!Work, Lifecycle!Verdicts
  <2> QED
    BY <1>2, <2>5, <2>6, <2>7, <2>8, <2>9
<1> QED
  BY <1>1, <1>2 DEF Process

\* The pipeline implements the life of a job: the stages in order, an answer
\* published in one step with its verdict, and reuse only of a DONE job's.
THEOREM KeepsLifecycleHolds == Spec => KeepsLifecycle
<1>1. IInv /\ [Next]_vars => [Lifecycle!Next]_Board
  <2> SUFFICES ASSUME IInv, [Next]_vars PROVE Lifecycle!Next \/ Board' = Board
    OBVIOUS
  <2>1. CASE UNCHANGED vars
    BY <2>1, NothingShown DEF vars
  <2> QED
    BY <2>1, HandlerMaps, WorkerMaps DEF Next
<1> QED
  BY <1>1, InitMaps, Invariance, PTL DEF Spec, KeepsLifecycle, Lifecycle!Spec, Board, Shown

=============================================================================
