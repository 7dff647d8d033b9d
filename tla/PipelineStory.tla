--------------------------- MODULE PipelineStory ---------------------------
(***************************************************************************)
(* More about Pipeline, on top of IInv: the audit trail of a job tells     *)
(* the story of its verdict.                                               *)
(***************************************************************************)
EXTENDS PipelineProofs

-----------------------------------------------------------------------------
(* Audit trails. *)

\* What the rows of a job say, given its status s, whether it is an invoice
\* that a worker did, and the completions asked for it.
Story(rows, s, worked, asked) ==
    /\ \A i \in DOMAIN rows : rows[i].number = i
    /\ s \in {"absent", "PENDING", "EXTRACTING", "EXTRACTING_AI"} => rows = <<>>
    /\ s = "FAILED" => Len(rows) = 1 /\ rows[1].outcome = "raised"
    /\ s = "NEEDS_REVIEW" =>
         Len(rows) = MaxAttempts /\ \A i \in DOMAIN rows : rows[i].outcome = "invalid"
    /\ s = "DONE" /\ ~worked => rows = <<>>
    /\ s = "DONE" /\ worked =>
         /\ Len(rows) \in 1 .. MaxAttempts /\ Len(rows) = asked
         /\ rows[Len(rows)].outcome = "valid"
         /\ \A i \in DOMAIN rows : i < Len(rows) => rows[i].outcome = "invalid"

Worked(j) == ~jobs[j].cached /\ jobs[j].type = Invoice
StoryOf(j) == Story(audit[j], jobs[j].status, Worked(j), llm[j])

\* What the verdicts of a loop are after its rounds.
TriesOK(o) ==
    /\ o.pc = "ai" => \A i \in DOMAIN o.tries : o.tries[i] = "invalid"
    /\ o.pc \in {"validating", "final"} =>
         /\ Len(o.tries) \in 1 .. MaxAttempts
         /\ \A i \in DOMAIN o.tries : i < Len(o.tries) => o.tries[i] = "invalid"
         /\ o.tries[Len(o.tries)] = IF o.passed THEN "valid" ELSE "invalid"
         /\ ~o.passed => Len(o.tries) = MaxAttempts
    /\ o.pc = "final" => audit[o.job] = Rows(o.tries)

StoryInv ==
    /\ \A j \in Uploads : StoryOf(j)
    /\ \A w \in Workers : TriesOK(wk[w])

\* StoryOf is AuditTellsTheStory, job by job.
LEMMA StoriesTell ==
    ASSUME IInv, StoryInv
    PROVE  AuditTellsTheStory
<1> SUFFICES ASSUME NEW j \in Uploads
             PROVE  LET s == jobs[j].status
                        o == Outcomes(j)
                        n == Len(o)
                    IN /\ \A i \in 1 .. n : audit[j][i].number = i
                       /\ s \in {"absent", "PENDING", "EXTRACTING", "EXTRACTING_AI"} => n = 0
                       /\ s = "FAILED" => o = <<"raised">>
                       /\ s = "NEEDS_REVIEW" =>
                            n = MaxAttempts /\ \A i \in 1 .. n : o[i] = "invalid"
                       /\ s = "DONE" =>
                            IF jobs[j].cached \/ jobs[j].type # Invoice THEN n = 0
                            ELSE /\ n \in 1 .. MaxAttempts /\ n = llm[j] /\ o[n] = "valid"
                                 /\ \A i \in 1 .. n - 1 : o[i] = "invalid"
  BY DEF AuditTellsTheStory
<1>1. audit[j] \in Seq(JobAttempt) /\ StoryOf(j)
  BY DEF IInv, TypeOK, StoryInv
<1> DEFINE rows == audit[j]
           o == Outcomes(j)
           s == jobs[j].status
<1>2. /\ Len(o) = Len(rows) /\ DOMAIN rows = 1 .. Len(rows) /\ Len(rows) \in Nat
      /\ \A i \in DOMAIN rows : o[i] = rows[i].outcome
      /\ rows = <<>> => Len(rows) = 0
  BY <1>1 DEF Outcomes
<1>3. o = [i \in 1 .. Len(rows) |-> rows[i].outcome]
  BY <1>1 DEF Outcomes
<1>4. Story(rows, s, Worked(j), llm[j])
  BY <1>1 DEF StoryOf
<1> HIDE DEF rows, o, s
<1>5. s = "FAILED" => o = <<"raised">>
  <2>1. s = "FAILED" => Len(rows) = 1 /\ rows[1].outcome = "raised"
    BY <1>4 DEF Story
  <2>2. SUFFICES ASSUME s = "FAILED"
                 PROVE  o = <<"raised">>
    OBVIOUS
  <2>3. Len(rows) = 1 /\ rows[1].outcome = "raised"
    BY <2>1, <2>2
  <2>4. o = [i \in 1 .. 1 |-> rows[i].outcome]
    BY <1>3, <2>3
  <2>5. o = [i \in {1} |-> "raised"]
    BY <2>3, <2>4
  <2>6. <<"raised">> = [i \in {1} |-> "raised"]
    OBVIOUS
  <2> QED
    BY <2>5, <2>6
<1>6. /\ \A i \in 1 .. Len(o) : rows[i].number = i
      /\ s \in {"absent", "PENDING", "EXTRACTING", "EXTRACTING_AI"} => Len(o) = 0
      /\ s = "NEEDS_REVIEW" =>
           Len(o) = MaxAttempts /\ \A i \in 1 .. Len(o) : o[i] = "invalid"
  BY <1>2, <1>4 DEF Story
<1>7. s = "DONE" /\ ~Worked(j) => Len(o) = 0
  BY <1>2, <1>4 DEF Story
<1>8. s = "DONE" /\ Worked(j) =>
        /\ Len(o) \in 1 .. MaxAttempts /\ Len(o) = llm[j] /\ o[Len(o)] = "valid"
        /\ \A i \in 1 .. Len(o) - 1 : o[i] = "invalid"
  BY <1>2, <1>4, AttemptsAssumption DEF Story
<1> QED
  BY <1>5, <1>6, <1>7, <1>8 DEF Worked, rows, o, s

LEMMA StoryInit == Init => StoryInv
BY DEF Init, StoryInv, StoryOf, Story, TriesOK, Free, Fresh, NoJob

\* A step of worker w leaves the stories of the other jobs and the verdicts of
\* the other workers alone.
LEMMA StoryFrame ==
    ASSUME IInv, StoryInv, NEW w \in Workers, NEW j \in Uploads, wk[w].job = j,
           \A x \in Workers \ {w} : wk'[x] = wk[x],
           \A i \in Uploads \ {j} : jobs'[i] = jobs[i] /\ audit'[i] = audit[i] /\ llm'[i] = llm[i],
           StoryOf(j)', TriesOK(wk[w])'
    PROVE  StoryInv'
<1>1. \A i \in Uploads \ {j} : StoryOf(i)'
  BY DEF StoryInv, StoryOf, Worked
<1>2. ASSUME NEW x \in Workers \ {w}
      PROVE  TriesOK(wk[x])'
  <2>1. wk[x].pc = "final" => wk[x].job \in Uploads \ {j}
    <3>1. wk[x].pc = "final" => wk[x].job \in Uploads
      BY BusyWorker
    <3>2. j # None /\ (wk[x].job = j => x = w)
      BY NoneAssumption DEF IInv, Alone
    <3> QED
      BY <3>1, <3>2
  <2>2. TriesOK(wk[x]) /\ wk'[x] = wk[x]
    BY DEF StoryInv
  <2> QED
    BY <2>1, <2>2 DEF TriesOK
<1> QED
  BY <1>1, <1>2 DEF StoryInv

\* The loop goes on after invalid answers only.
LEMMA RepliedTries ==
    ASSUME NEW o \in Worker, NEW a \in Answers \cup {None}, o.pc = "ai", TriesOK(o),
           Len(o.tries) < MaxAttempts
    PROVE  TriesOK(Replied(o, a)) /\ Replied(o, a).pc # "final"
<1> DEFINE verdict == IF a \in Valid THEN "valid" ELSE "invalid"
           tries == Append(o.tries, verdict)
           n == Replied(o, a)
<1>1. o.tries \in Seq({"valid", "invalid"}) /\ \A i \in DOMAIN o.tries : o.tries[i] = "invalid"
  BY DEF Worker, TriesOK
<1>2. /\ Len(tries) = Len(o.tries) + 1 /\ Len(o.tries) \in Nat /\ tries[Len(tries)] = verdict
      /\ DOMAIN tries = 1 .. Len(tries)
      /\ \A i \in DOMAIN tries : i < Len(tries) => tries[i] = "invalid"
  BY <1>1
<1>3. Len(tries) \in 1 .. MaxAttempts
  BY <1>2, AttemptsAssumption
<1>4. /\ n.tries = tries /\ n.passed = (a \in Valid)
      /\ n.pc = IF a \in Valid \/ Len(tries) = MaxAttempts THEN "validating" ELSE "ai"
  BY DEF Replied, LastAttempt
<1> HIDE DEF tries, n
<1>5. n.pc = "ai" => verdict = "invalid"
  BY <1>4
<1>6. n.passed => verdict = "valid"
  BY <1>4
<1>7. ~n.passed => verdict = "invalid"
  BY <1>4
<1>8. n.pc = "validating" /\ ~n.passed => Len(tries) = MaxAttempts
  BY <1>4
<1>9. n.pc \in {"validating", "ai"}
  BY <1>4
<1>10. n.pc = "ai" => \A i \in DOMAIN n.tries : n.tries[i] = "invalid"
  BY <1>2, <1>4, <1>5
<1> QED
  BY <1>2, <1>3, <1>4, <1>6, <1>7, <1>8, <1>9, <1>10 DEF TriesOK, n

\* The rows of a loop are the story of its verdict.
LEMMA RowsTell ==
    ASSUME NEW o \in Worker, o.pc = "final", TriesOK(o)
    PROVE  /\ o.passed => Story(Rows(o.tries), "DONE", TRUE, Len(o.tries))
           /\ ~o.passed => \A worked : Story(Rows(o.tries), "NEEDS_REVIEW", worked, Len(o.tries))
<1> DEFINE rows == Rows(o.tries)
<1>1. /\ o.tries \in Seq({"valid", "invalid"}) /\ Len(o.tries) \in 1 .. MaxAttempts
      /\ \A i \in DOMAIN o.tries : i < Len(o.tries) => o.tries[i] = "invalid"
      /\ o.tries[Len(o.tries)] = IF o.passed THEN "valid" ELSE "invalid"
      /\ ~o.passed => Len(o.tries) = MaxAttempts
  BY DEF Worker, TriesOK
<1>2. DOMAIN o.tries = 1 .. Len(o.tries) /\ Len(o.tries) \in DOMAIN o.tries
  BY <1>1, AttemptsAssumption
<1>3. /\ rows \in Seq(JobAttempt) /\ DOMAIN rows = DOMAIN o.tries /\ Len(rows) = Len(o.tries)
      /\ \A i \in DOMAIN rows : rows[i].number = i /\ rows[i].outcome = o.tries[i]
  BY <1>1, RowsType DEF Rows
<1> HIDE DEF rows
<1>4. ~o.passed => \A i \in DOMAIN o.tries : o.tries[i] = "invalid"
  BY <1>1, <1>2
<1> QED
  BY <1>1, <1>2, <1>3, <1>4 DEF Story, rows

LEMMA HandlerTells ==
    ASSUME IInv, StoryInv, NEW u \in Uploads, Begin(u) \/ Handle(u) \/ Fail(u)
    PROVE  StoryInv'
<1>1. UNCHANGED <<audit, wk, llm>>
  BY DEF Begin, Handle, Lookup, Clone, Save, SaveWrite, Insert, Enqueue, Fail
<1>2. RequestOK(u) /\ TypeOK /\ StoryOf(u)
  BY DEF IInv, StoryInv
<1>3. \A v \in Uploads \ {u} : jobs'[v] = jobs[v]
  BY <1>2, CloneEffect, InsertEffect DEF Begin, Handle, Lookup, Save, SaveWrite, Enqueue, Fail
<1>4. StoryOf(u)'
  <2>1. CASE Clone(u)
    <3>1. jobs'[u].status = "DONE" /\ jobs'[u].cached = TRUE /\ jobs[u].status = "absent"
      BY <1>2, <2>1, CloneEffect DEF RequestOK
    <3> QED
      BY <1>1, <1>2, <3>1 DEF StoryOf, Story, Worked
  <2>2. CASE Insert(u)
    <3>1. jobs'[u].status = "PENDING" /\ jobs[u].status = "absent"
      BY <1>2, <2>2, InsertEffect DEF RequestOK
    <3> QED
      BY <1>1, <1>2, <3>1 DEF StoryOf, Story
  <2>3. CASE ~Clone(u) /\ ~Insert(u)
    <3>1. UNCHANGED jobs
      BY <2>3 DEF Begin, Handle, Lookup, Save, SaveWrite, Enqueue, Fail
    <3> QED
      BY <1>1, <1>2, <3>1 DEF StoryOf, Worked
  <2> QED
    BY <2>1, <2>2, <2>3
<1>5. \A v \in Uploads : StoryOf(v)'
  BY <1>1, <1>3, <1>4 DEF StoryInv, StoryOf, Worked
<1>6. \A w \in Workers : TriesOK(wk[w])'
  BY <1>1 DEF StoryInv, TriesOK
<1> QED
  BY <1>5, <1>6 DEF StoryInv

LEMMA DequeueTells ==
    ASSUME IInv, StoryInv, NEW w \in Workers, Dequeue(w)
    PROVE  StoryInv'
<1>1. /\ wk'[w].pc = "load" /\ \A x \in Workers \ {w} : wk'[x] = wk[x]
      /\ UNCHANGED <<jobs, audit, llm>>
  BY DequeueEffect DEF IInv
<1>2. \A v \in Uploads : StoryOf(v)'
  BY <1>1 DEF StoryInv, StoryOf, Worked
<1>3. \A x \in Workers : TriesOK(wk[x])'
  BY <1>1 DEF StoryInv, TriesOK
<1> QED
  BY <1>2, <1>3 DEF StoryInv

LEMMA StageTells ==
    ASSUME IInv, StoryInv, NEW w \in Workers, Load(w) \/ Read(w) \/ Escape(w)
    PROVE  StoryInv'
<1>0. PICK j \in Uploads : wk[w].job = j
  BY LoadEffect, ReadEffect, EscapeEffect, BusyWorker
<1>1. wk[w].pc # "idle" /\ UNCHANGED <<audit, llm>>
  BY <1>0, LoadEffect, ReadEffect, EscapeEffect
<1>2. j \in Uploads /\ WorkerOK(w) /\ StoryOf(j)
  BY <1>0, <1>1, BusyWorker DEF StoryInv
<1>3. /\ wk'[w].pc \in {"read", "extract", "idle"} /\ \A x \in Workers \ {w} : wk'[x] = wk[x]
  BY <1>0, LoadEffect, ReadEffect, EscapeEffect DEF WorkerGoes, WorkerLeaves
<1>4. /\ \A i \in Uploads \ {j} : jobs'[i] = jobs[i]
      /\ StoryOf(j)'
  <2>1. CASE Load(w)
    <3>1. StatusGoes(j, "EXTRACTING") /\ jobs[j].status = "PENDING"
      BY <1>0, <1>2, <2>1, LoadEffect DEF WorkerOK
    <3> QED
      BY <1>1, <1>2, <3>1 DEF StatusGoes, StoryOf, Story
  <2>2. CASE Read(w) \/ Escape(w)
    <3>1. UNCHANGED jobs
      BY <2>2, ReadEffect, EscapeEffect
    <3> QED
      BY <1>1, <1>2, <3>1 DEF StoryOf, Worked
  <2> QED
    BY <1>0, <2>1, <2>2
<1>5. TriesOK(wk[w])'
  BY <1>0, <1>3 DEF TriesOK
<1> QED
  BY <1>0, <1>1, <1>2, <1>3, <1>4, <1>5, StoryFrame

LEMMA RaisesTells ==
    ASSUME IInv, StoryInv, NEW w \in Workers, ExtractRaises(w) \/ LLMRaises(w)
    PROVE  StoryInv'
<1>0. PICK j \in Uploads : wk[w].job = j
  BY RaisesEffect, BusyWorker
<1>1. /\ wk[w].pc \in {"extract", "ai"}
      /\ WorkerLeaves(w, {"finished", "failed"}) /\ StatusGoes(j, "FAILED")
      /\ \A i \in Uploads \ {j} : audit'[i] = audit[i] /\ llm'[i] = llm[i]
  BY <1>0, RaisesEffect
<1>2. j \in Uploads /\ WorkerOK(w) /\ StoryOf(j) /\ audit \in [Uploads -> Seq(JobAttempt)]
  BY <1>0, <1>1, BusyWorker DEF StoryInv, IInv, TypeOK
<1>3. audit[j] = <<>>
  BY <1>0, <1>1, <1>2 DEF WorkerOK, StoryOf, Story
<1>4. PICK stage : audit' = [audit EXCEPT ![j] = Append(@, RaisedRow(stage))]
  BY <1>0 DEF ExtractRaises, LLMRaises, GiveUp
<1>5. audit'[j] = <<RaisedRow(stage)>>
  BY <1>0, <1>2, <1>3, <1>4
<1>6. /\ Len(audit'[j]) = 1 /\ DOMAIN audit'[j] = {1}
      /\ audit'[j][1].outcome = "raised" /\ audit'[j][1].number = 1
  BY <1>0, <1>5 DEF RaisedRow
<1>7. StoryOf(j)'
  BY <1>0, <1>1, <1>6 DEF StatusGoes, StoryOf, Story
<1>8. TriesOK(wk[w])'
  BY <1>0, <1>1 DEF WorkerLeaves, TriesOK
<1> QED
  BY <1>0, <1>1, <1>2, <1>7, <1>8, StoryFrame DEF StatusGoes, WorkerLeaves

LEMMA ExtractTextTells ==
    ASSUME IInv, StoryInv, NEW w \in Workers, ExtractText(w)
    PROVE  StoryInv'
<1>0. PICK j \in Uploads : wk[w].job = j
  BY ExtractTextEffect, BusyWorker
<1>1. wk[w].pc = "extract" /\ UNCHANGED <<audit, llm>>
  BY <1>0, ExtractTextEffect
<1>2. j \in Uploads /\ WorkerOK(w) /\ StoryOf(j)
  BY <1>0, <1>1, BusyWorker DEF StoryInv
<1>3. audit[j] = <<>> /\ wk[w].tries = <<>>
  BY <1>0, <1>1, <1>2 DEF WorkerOK, StoryOf, Story
<1>4. \/ WorkerGoes(w, "ai") /\ StatusGoes(j, "EXTRACTING_AI")
      \/ /\ jobs[j].type # Invoice
         /\ WorkerLeaves(w, {"finished", "failed"}) /\ StatusGoes(j, "DONE")
  BY <1>0, ExtractTextEffect
<1>5. StoryOf(j)'
  BY <1>0, <1>1, <1>3, <1>4 DEF StatusGoes, StoryOf, Story, Worked
<1>6. TriesOK(wk[w])'
  BY <1>0, <1>3, <1>4 DEF WorkerGoes, WorkerLeaves, TriesOK
<1> QED
  BY <1>0, <1>1, <1>2, <1>4, <1>5, <1>6, StoryFrame DEF StatusGoes, WorkerGoes, WorkerLeaves

LEMMA CallLLMTells ==
    ASSUME IInv, StoryInv, NEW w \in Workers, CallLLM(w)
    PROVE  StoryInv'
<1>0. PICK j \in Uploads : wk[w].job = j
  BY CallLLMEffect, BusyWorker
<1>1. /\ wk[w].pc = "ai" /\ UNCHANGED <<audit, jobs>>
      /\ \A x \in Workers \ {w} : wk'[x] = wk[x]
      /\ \A i \in Uploads \ {j} : llm'[i] = llm[i]
  BY <1>0, CallLLMEffect
<1>2. /\ j \in Uploads /\ WorkerOK(w) /\ StoryOf(j) /\ TriesOK(wk[w])
      /\ wk \in [Workers -> Worker]
  BY <1>0, <1>1, BusyWorker DEF StoryInv, IInv, TypeOK
<1>3. jobs[j].status = "EXTRACTING_AI" /\ Len(wk[w].tries) < MaxAttempts
  BY <1>0, <1>1, <1>2 DEF WorkerOK
<1>4. StoryOf(j)'
  BY <1>0, <1>1, <1>2, <1>3 DEF StoryOf, Story
<1>5. PICK a \in Answers \cup {None} : wk' = [wk EXCEPT ![w] = Replied(wk[w], a)]
  BY <1>0 DEF CallLLM
<1>6. wk'[w] = Replied(wk[w], a)
  BY <1>0, <1>2, <1>5
<1>7. TriesOK(Replied(wk[w], a)) /\ Replied(wk[w], a).pc # "final"
  BY <1>0, <1>1, <1>2, <1>3, RepliedTries
<1>8. TriesOK(wk[w])'
  BY <1>0, <1>6, <1>7 DEF TriesOK
<1> QED
  BY <1>0, <1>1, <1>2, <1>4, <1>8, StoryFrame

LEMMA RecordAttemptsTells ==
    ASSUME IInv, StoryInv, NEW w \in Workers, RecordAttempts(w)
    PROVE  StoryInv'
<1>0. PICK j \in Uploads : wk[w].job = j
  BY RecordAttemptsEffect, BusyWorker
<1>1. /\ wk[w].pc = "validating" /\ WorkerGoes(w, "final") /\ StatusGoes(j, "VALIDATING")
      /\ \A i \in Uploads \ {j} : audit'[i] = audit[i]
      /\ UNCHANGED llm
  BY <1>0, RecordAttemptsEffect
<1>2. /\ j \in Uploads /\ WorkerOK(w) /\ StoryOf(j) /\ TriesOK(wk[w])
      /\ wk[w].tries \in Seq({"valid", "invalid"}) /\ audit \in [Uploads -> Seq(JobAttempt)]
  BY <1>0, <1>1, BusyWorker DEF StoryInv, IInv, TypeOK, Worker
<1>3. audit[j] = <<>>
  BY <1>0, <1>1, <1>2 DEF WorkerOK, StoryOf, Story
<1>4. Rows(wk[w].tries) \in Seq(JobAttempt)
  BY <1>0, <1>2, RowsType
<1>5. audit'[j] = Rows(wk[w].tries)
  <2>1. audit' = [audit EXCEPT ![j] = @ \o Rows(wk[w].tries)]
    BY <1>0 DEF RecordAttempts
  <2>2. audit'[j] = <<>> \o Rows(wk[w].tries)
    BY <1>0, <1>2, <1>3, <2>1
  <2> QED
    BY <1>0, <1>4, <2>2
<1>6. StoryOf(j)'
  <2>1. \A i \in DOMAIN audit'[j] : audit'[j][i].number = i
    BY <1>0, <1>5 DEF Rows
  <2> QED
    BY <1>0, <1>1, <1>2, <2>1 DEF StatusGoes, StoryOf, Story
<1>7. TriesOK(wk[w])'
  BY <1>0, <1>1, <1>2, <1>5 DEF WorkerGoes, TriesOK
<1> QED
  BY <1>0, <1>1, <1>2, <1>6, <1>7, StoryFrame DEF StatusGoes, WorkerGoes

LEMMA FinalizeTells ==
    ASSUME IInv, StoryInv, NEW w \in Workers, Finalize(w)
    PROVE  StoryInv'
<1>0. PICK j \in Uploads : wk[w].job = j
  BY FinalizeEffect, BusyWorker
<1>1. /\ wk[w].pc = "final" /\ WorkerLeaves(w, {"finished", "failed"})
      /\ \/ wk[w].passed /\ StatusGoes(j, "DONE")
         \/ ~wk[w].passed /\ StatusGoes(j, "NEEDS_REVIEW")
      /\ UNCHANGED <<audit, llm>>
  BY <1>0, FinalizeEffect
<1>2. /\ j \in Uploads /\ WorkerOK(w) /\ TriesOK(wk[w]) /\ wk[w] \in Worker
      /\ ~jobs[j].cached
  BY <1>0, <1>1, BusyWorker DEF StoryInv, IInv, TypeOK
<1>3. audit[j] = Rows(wk[w].tries) /\ llm[j] = Len(wk[w].tries) /\ Worked(j)
  BY <1>0, <1>1, <1>2 DEF WorkerOK, TriesOK, Worked
<1>4. /\ wk[w].passed => Story(audit[j], "DONE", TRUE, llm[j])
      /\ ~wk[w].passed => \A worked : Story(audit[j], "NEEDS_REVIEW", worked, llm[j])
  BY <1>0, <1>1, <1>2, <1>3, RowsTell
<1>5. StoryOf(j)'
  <2>1. jobs'[j].status \in {"DONE", "NEEDS_REVIEW"}
        /\ (jobs'[j].status = "DONE" <=> wk[w].passed)
        /\ jobs'[j].cached = jobs[j].cached /\ jobs'[j].type = jobs[j].type
    BY <1>0, <1>1 DEF StatusGoes
  <2>2. Worked(j)'
    BY <1>0, <1>3, <2>1 DEF Worked
  <2> QED
    BY <1>0, <1>1, <1>4, <2>1, <2>2 DEF StoryOf, Story
<1>6. TriesOK(wk[w])'
  BY <1>0, <1>1 DEF WorkerLeaves, TriesOK
<1> QED
  BY <1>0, <1>1, <1>2, <1>5, <1>6, StoryFrame DEF StatusGoes, WorkerLeaves

LEMMA StoryStep ==
    ASSUME IInv, StoryInv, [Next]_vars
    PROVE  StoryInv'
<1>1. ASSUME NEW w \in Workers, Dequeue(w) \/ Process(w) \/ Escape(w)
      PROVE  StoryInv'
  BY <1>1, DequeueTells, StageTells, RaisesTells, ExtractTextTells, CallLLMTells,
     RecordAttemptsTells, FinalizeTells DEF Process
<1>2. CASE UNCHANGED vars
  <2>1. \A j \in Uploads : StoryOf(j)'
    BY <1>2 DEF vars, StoryInv, StoryOf, Worked
  <2>2. \A w \in Workers : TriesOK(wk[w])'
    BY <1>2 DEF vars, StoryInv, TriesOK
  <2> QED
    BY <2>1, <2>2 DEF StoryInv
<1> QED
  BY <1>1, <1>2, HandlerTells DEF Next

\* The rows on record always explain the status: one valid attempt that ended
\* the loop, MAX_ATTEMPTS invalid ones, or one exception.
THEOREM AuditTells == Spec => []AuditTellsTheStory
<1> QED
  BY StoryInit, StoryStep, StoriesTell, Invariance, PTL DEF Spec

-----------------------------------------------------------------------------
(* The worker as the queries of a job see it. *)

LEMMA TrailInit == Init => \A j \in Uploads : Trail(j)!Init
<1> SUFFICES ASSUME Init, NEW j \in Uploads PROVE Trail(j)!Init
  OBVIOUS
<1>1. audit[j] = <<>> /\ jobs[j].status = "absent" /\ results[j].text = "absent"
  BY DEF Init, NoJob, NoResult
<1> QED
  BY <1>1 DEF Trail!Init, Phase

\* What a reader of the trail cannot tell apart.
LEMMA TrailSame ==
    ASSUME NEW j \in Uploads, audit'[j] = audit[j], results'[j].text = results[j].text,
           Phase(j)' = Phase(j)
    PROVE  UNCHANGED Trail(j)!vars
BY DEF Trail!vars, Errors

LEMMA TrailExtracts ==
    ASSUME NEW j \in Uploads, audit'[j] = audit[j], results'[j].text # "absent",
           Phase(j) = "extract", Phase(j)' \in {"ai", "over"}
    PROVE  Trail(j)!ExtractText
BY DEF Trail!ExtractText, Errors

LEMMA TrailGivesUp ==
    ASSUME NEW j \in Uploads, audit[j] = <<>>, Phase(j) # "over", Phase(j)' = "over",
           audit'[j] = <<RaisedRow(IF Phase(j) = "ai" THEN "EXTRACTING_AI" ELSE "EXTRACTING")>>,
           results'[j].text = results[j].text
    PROVE  Trail(j)!GiveUp
<1> DEFINE stage == IF Phase(j) = "ai" THEN "EXTRACTING_AI" ELSE "EXTRACTING"
           row == [stage |-> stage, number |-> 1, errors |-> "object", at |-> 1, by |-> None]
<1> HIDE DEF stage
<1>1. audit'[j] = <<RaisedRow(stage)>> /\ audit'[j] # <<>>
  BY DEF stage
<1>2. DOMAIN audit'[j] = {1} /\ audit'[j][1] = RaisedRow(stage)
  BY <1>1
<1>3. [i \in DOMAIN audit'[j] |->
         [stage |-> audit'[j][i].stage, number |-> audit'[j][i].number,
          errors |-> Errors(audit'[j][i].outcome), at |-> 1, by |-> None]]
        = [i \in {1} |-> row]
  BY <1>2 DEF RaisedRow, Errors
<1>4. [i \in DOMAIN audit[j] |->
         [stage |-> audit[j][i].stage, number |-> audit[j][i].number,
          errors |-> Errors(audit[j][i].outcome), at |-> 1, by |-> None]] = <<>>
  OBVIOUS
<1>5. Append(<<>>, row) = [i \in {1} |-> row]
  OBVIOUS
<1>6. row = Trail(j)!WorkerRow(stage, 1, "object")
  BY DEF Trail!WorkerRow
<1> QED
  BY <1>1, <1>3, <1>4, <1>5, <1>6 DEF Trail!GiveUp, stage

LEMMA TrailRecords ==
    ASSUME NEW j \in Uploads, NEW o \in Worker, o.pc = "validating", TriesOK(o),
           audit[j] = <<>>, audit'[j] = Rows(o.tries),
           Phase(j) = "ai", Phase(j)' = "over", results'[j].text = results[j].text
    PROVE  Trail(j)!RecordAttempts
<1> DEFINE n == Len(o.tries)
           last == IF o.passed THEN "null" ELSE "list"
           row(i) == [stage |-> "EXTRACTING_AI", number |-> i,
                      errors |-> IF i < n THEN "list" ELSE last, at |-> 1, by |-> None]
<1>1. /\ n \in 1 .. MaxAttempts /\ o.tries \in Seq({"valid", "invalid"})
      /\ \A i \in DOMAIN o.tries : i < n => o.tries[i] = "invalid"
      /\ o.tries[n] = IF o.passed THEN "valid" ELSE "invalid"
      /\ n < MaxAttempts => last = "null"
      /\ last \in {"null", "list"}
  BY AttemptsAssumption DEF TriesOK, Worker
<1>2. DOMAIN o.tries = 1 .. n
  BY <1>1
<1>3. \A i \in 1 .. n : Errors(o.tries[i]) = IF i < n THEN "list" ELSE last
  BY <1>1, <1>2 DEF Errors
<1> HIDE DEF n, last
<1>4. [i \in DOMAIN audit'[j] |->
         [stage |-> audit'[j][i].stage, number |-> audit'[j][i].number,
          errors |-> Errors(audit'[j][i].outcome), at |-> 1, by |-> None]]
        = [i \in 1 .. n |-> row(i)]
  BY <1>2, <1>3 DEF Rows
<1>5. [i \in DOMAIN audit[j] |->
         [stage |-> audit[j][i].stage, number |-> audit[j][i].number,
          errors |-> Errors(audit[j][i].outcome), at |-> 1, by |-> None]] = <<>>
  OBVIOUS
<1>6. <<>> \o [i \in 1 .. n |-> row(i)] = [i \in 1 .. n |-> row(i)]
  <2> DEFINE s == [i \in 1 .. n |-> row(i)]
  <2>1. s \in Seq({row(i) : i \in 1 .. n})
    BY <1>1
  <2> HIDE DEF s
  <2> QED
    BY <2>1 DEF s
<1>7. audit'[j] # <<>>
  BY <1>1, <1>2 DEF Rows
<1>8. [i \in 1 .. n |-> row(i)]
        = [i \in 1 .. n |->
             Trail(j)!WorkerRow("EXTRACTING_AI", i, IF i < n THEN "list" ELSE last)]
  BY DEF Trail!WorkerRow
<1> DEFINE told == [i \in DOMAIN audit[j] |->
                      [stage |-> audit[j][i].stage, number |-> audit[j][i].number,
                       errors |-> Errors(audit[j][i].outcome), at |-> 1, by |-> None]]
<1>9. told' = told \o [i \in 1 .. n |->
                         Trail(j)!WorkerRow("EXTRACTING_AI", i, IF i < n THEN "list" ELSE last)]
  BY <1>4, <1>5, <1>6, <1>8
<1>10. (IF audit[j] = <<>> THEN 0 ELSE 1)' = (IF audit[j] = <<>> THEN 0 ELSE 1) + 1
  BY <1>7
<1>11. UNCHANGED <<IF results[j].text = "absent" THEN "none" ELSE "text", <<>>, <<>>>>
  OBVIOUS
<1> HIDE DEF told
<1> QED
  BY <1>1, <1>9, <1>10, <1>11, Zenon DEF Trail!RecordAttempts, told

LEMMA TrailStep ==
    ASSUME IInv, StoryInv, [Next]_vars, NEW j \in Uploads
    PROVE  Trail(j)!Worker \/ UNCHANGED Trail(j)!vars
<1>1. TypeOK /\ audit \in [Uploads -> Seq(JobAttempt)] /\ StoryOf(j)
  BY DEF IInv, TypeOK, StoryInv
<1>2. ASSUME audit'[j] = audit[j], results'[j].text = results[j].text,
             \/ jobs'[j].status = jobs[j].status
             \/ jobs[j].status = "absent" /\ jobs'[j].status = "PENDING"
             \/ jobs[j].status = "PENDING" /\ jobs'[j].status = "EXTRACTING"
             \/ jobs[j].status = "VALIDATING" /\ jobs'[j].status \in {"DONE", "NEEDS_REVIEW"}
      PROVE  UNCHANGED Trail(j)!vars
  <2>1. Phase(j)' = Phase(j)
    BY <1>2 DEF Phase
  <2> QED
    BY <1>2, <2>1, TrailSame
<1>3. ASSUME NEW u \in Uploads, Begin(u) \/ Handle(u) \/ Fail(u)
      PROVE  Trail(j)!Worker \/ UNCHANGED Trail(j)!vars
  <2>1. RequestOK(u) /\ audit' = audit
    BY <1>3 DEF IInv, Begin, Handle, Lookup, Clone, Save, SaveWrite, Insert, Enqueue, Fail
  <2>2. CASE Clone(u) /\ u = j
    <3>1. /\ jobs[j].status = "absent" /\ jobs'[j].status = "DONE"
          /\ req[j].hit \in Uploads /\ jobs[req[j].hit].status = "DONE"
          /\ results'[j] = results[req[j].hit]
      <4>1. Clone(u) /\ RequestOK(j) /\ j = u
        BY <2>1, <2>2
      <4> QED
        BY <1>1, <4>1, CloneEffect DEF RequestOK
    <3>2. results[req[j].hit].text # "absent"
      BY <3>1 DEF IInv, VerdictIsEarned
    <3>3. Phase(j) = "extract" /\ Phase(j)' = "over"
      BY <3>1 DEF Phase
    <3> QED
      BY <2>1, <3>1, <3>2, <3>3, TrailExtracts DEF Trail!Worker
  <2>3. CASE Insert(u) /\ u = j
    <3>1. jobs[j].status = "absent" /\ jobs'[j].status = "PENDING" /\ results' = results
      BY <1>1, <2>1, <2>3, InsertEffect DEF RequestOK
    <3>2. audit'[j] = audit[j] /\ results'[j].text = results[j].text
      BY <2>1, <3>1
    <3>3. UNCHANGED Trail(j)!vars
      BY <1>2, <3>1, <3>2
    <3> QED
      BY <3>3
  <2>4. CASE ~(Clone(u) /\ u = j) /\ ~(Insert(u) /\ u = j)
    <3>1. jobs'[j] = jobs[j] /\ results'[j] = results[j]
      <4>1. CASE Clone(u)
        <5>1. j \in Uploads \ {u}
          BY <2>4, <4>1
        <5> QED
          BY <1>1, <2>1, <4>1, <5>1, CloneEffect
      <4>2. CASE Insert(u)
        <5>1. j \in Uploads \ {u}
          BY <2>4, <4>2
        <5> QED
          BY <1>1, <2>1, <4>2, <5>1, InsertEffect
      <4>3. CASE Begin(u) \/ Lookup(u) \/ Save(u) \/ SaveWrite(u) \/ Enqueue(u) \/ Fail(u)
        BY <4>3 DEF Begin, Lookup, Save, SaveWrite, Enqueue, Fail
      <4> QED
        BY <1>3, <4>1, <4>2, <4>3 DEF Handle
    <3> QED
      BY <1>2, <2>1, <3>1
  <2> QED
    BY <2>2, <2>3, <2>4
<1>4. ASSUME NEW w \in Workers, Dequeue(w) \/ Process(w) \/ Escape(w)
      PROVE  Trail(j)!Worker \/ UNCHANGED Trail(j)!vars
  <2>1. CASE Dequeue(w) \/ Read(w) \/ CallLLM(w) \/ Escape(w)
    BY <1>2, <2>1 DEF Dequeue, Read, CallLLM, Escape
  <2>2. CASE ~(Dequeue(w) \/ Read(w) \/ CallLLM(w) \/ Escape(w)) /\ wk[w].job # j
    <3>1. audit'[j] = audit[j] /\ results'[j] = results[j] /\ jobs'[j] = jobs[j]
      BY <1>4, <2>2, LoadEffect, RaisesEffect, ExtractTextEffect, RecordAttemptsEffect,
         FinalizeEffect DEF Process, StatusGoes
    <3> QED
      BY <1>2, <3>1
  <2>3. ASSUME wk[w].job = j, wk[w].pc # "idle"
        PROVE  /\ WorkerOK(w) /\ wk[w] \in Worker /\ TriesOK(wk[w])
               /\ jobs[j].status \in {"EXTRACTING", "EXTRACTING_AI"} => audit[j] = <<>>
    BY <1>1, <2>3, BusyWorker DEF TypeOK, StoryInv, StoryOf, Story
  <2>4. CASE Load(w) /\ wk[w].job = j
    <3>1. /\ jobs[j].status = "PENDING" /\ jobs'[j].status = "EXTRACTING"
          /\ UNCHANGED <<audit, results>>
      BY <2>3, <2>4, LoadEffect DEF StatusGoes, WorkerOK
    <3> QED
      BY <1>2, <3>1
  <2>5. CASE ExtractText(w) /\ wk[w].job = j
    <3>1. /\ jobs[j].status = "EXTRACTING" /\ jobs'[j].status \in {"EXTRACTING_AI", "DONE"}
          /\ results'[j].text # "absent" /\ UNCHANGED audit
      BY <2>3, <2>5, ExtractTextEffect DEF StatusGoes, WorkerOK
    <3>2. Phase(j) = "extract" /\ Phase(j)' \in {"ai", "over"}
      BY <3>1 DEF Phase
    <3> QED
      BY <3>1, <3>2, TrailExtracts DEF Trail!Worker
  <2>6. CASE (ExtractRaises(w) \/ LLMRaises(w)) /\ wk[w].job = j
    <3>1. /\ wk[w].pc \in {"extract", "ai"} /\ StatusGoes(j, "FAILED") /\ UNCHANGED results
      BY <2>6, RaisesEffect
    <3>2. /\ Phase(j) = IF wk[w].pc = "ai" THEN "ai" ELSE "extract"
          /\ Phase(j)' = "over" /\ audit[j] = <<>>
      BY <2>3, <2>6, <3>1 DEF WorkerOK, StatusGoes, Phase
    <3> DEFINE stage == IF Phase(j) = "ai" THEN "EXTRACTING_AI" ELSE "EXTRACTING"
    <3>3. audit' = [audit EXCEPT ![j] = Append(@, RaisedRow(stage))]
      BY <2>6, <3>2 DEF ExtractRaises, LLMRaises, GiveUp, At
    <3> HIDE DEF stage
    <3>4. audit'[j] = <<RaisedRow(stage)>>
      BY <1>1, <3>2, <3>3
    <3>5. Trail(j)!GiveUp
      BY <3>1, <3>2, <3>4, TrailGivesUp DEF stage
    <3> QED
      BY <3>5 DEF Trail!Worker
  <2>7. CASE RecordAttempts(w) /\ wk[w].job = j
    <3>1. /\ wk[w].pc = "validating" /\ StatusGoes(j, "VALIDATING") /\ UNCHANGED results
          /\ audit' = [audit EXCEPT ![j] = @ \o Rows(wk[w].tries)]
      BY <2>7, RecordAttemptsEffect DEF RecordAttempts
    <3>2. Phase(j) = "ai" /\ Phase(j)' = "over" /\ audit[j] = <<>>
      BY <2>3, <2>7, <3>1 DEF WorkerOK, StatusGoes, Phase
    <3>3. Rows(wk[w].tries) \in Seq(JobAttempt)
      BY <2>3, <2>7, <3>1, RowsType DEF Worker
    <3>4. audit'[j] = Rows(wk[w].tries)
      <4>1. audit'[j] = <<>> \o Rows(wk[w].tries)
        BY <1>1, <3>1, <3>2
      <4> QED
        BY <3>3, <4>1
    <3>5. Trail(j)!RecordAttempts
      BY <2>3, <2>7, <3>1, <3>2, <3>4, TrailRecords
    <3> QED
      BY <3>5 DEF Trail!Worker
  <2>8. CASE Finalize(w) /\ wk[w].job = j
    <3>1. /\ jobs[j].status = "VALIDATING" /\ jobs'[j].status \in {"DONE", "NEEDS_REVIEW"}
          /\ results'[j].text = results[j].text /\ UNCHANGED audit
      BY <2>3, <2>8, FinalizeEffect DEF StatusGoes, WorkerOK
    <3> QED
      BY <1>2, <3>1
  <2> QED
    BY <1>4, <2>1, <2>2, <2>4, <2>5, <2>6, <2>7, <2>8 DEF Process
<1>5. CASE UNCHANGED vars
  BY <1>2, <1>5 DEF vars
<1> QED
  BY <1>3, <1>4, <1>5 DEF Next

\* Uploads, clones and workers do to a job's trail what DocumentQuery's Worker
\* does, so that what is proved there of queries and audits holds beside this
\* worker.
THEOREM KeepsTrailHolds == Spec => KeepsTrail
<1> DEFINE Seen == \A j \in Uploads : [Trail(j)!Worker]_(Trail(j)!vars)
<1>1. IInv /\ StoryInv /\ [Next]_vars => [Seen]_vars
  BY TrailStep
<1>2. Spec => [](IInv /\ StoryInv)
  BY StoryInit, StoryStep, Invariance, PTL DEF Spec
<1> HIDE DEF Seen
<1>3. Spec => [][Seen]_vars
  BY <1>1, <1>2, PTL DEF Spec
<1> QED
  BY <1>3, TrailInit DEF KeepsTrail, Spec, Seen

=============================================================================
