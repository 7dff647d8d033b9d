------------------------------ MODULE Pipeline ------------------------------
(***************************************************************************)
(* The document pipeline of IntelliExtract: the upload handlers of the API *)
(* process (app/api/v1/documents.py), the RQ queue, the worker processes   *)
(* (app/worker/tasks.py), the object store (app/storage) and the three     *)
(* tables they share (jobs, job_results, job_attempts).                    *)
(*                                                                         *)
(* A step of a handler or of a worker is what it does between two awaits:  *)
(* a database transaction, a storage call, an enqueue or an LLM call.      *)
(* Everything that can interleave in the deployment interleaves here: any  *)
(* number of uploads, several workers, the death of either in any step.    *)
(***************************************************************************)
EXTENDS Naturals, Sequences, FiniteSets

CONSTANTS
    Uploads,      \* upload requests; the job row a request inserts has a
                  \* fresh uuid4, so the request also stands for its job id
    Workers,      \* RQ worker processes, each running one job at a time
    Keys,         \* API keys
    Files,        \* file contents, equivalently their SHA-256 digests
    Types,        \* document types
    Invoice,      \* the one type with a schema: DocumentType.INVOICE
    Answers,      \* what an LLM reply can parse to (InvoiceFields)
    Valid,        \* the answers validate_invoice() finds no error in
    MaxAttempts,  \* self_correction.MAX_ATTEMPTS (3)
    AtomicPut,    \* TRUE: S3Storage, FALSE: LocalFilesystemStorage
    Faults,       \* what may go wrong in this instance, a subset of Mishaps
    None          \* no answer, no key, no request

\* "db", "storage", "redis": an awaited call of that service raises.  "kill":
\* the process dies (for a worker, also RQ's job timeout fired outside a try
\* block).  "ocr", "llm": extract_text or the LLM client raises.
Mishaps == {"db", "storage", "redis", "kill", "ocr", "llm"}

ASSUME SetAssumption  == Invoice \in Types /\ Valid \subseteq Answers
                         /\ Faults \subseteq Mishaps /\ AtomicPut \in BOOLEAN
ASSUME FiniteAssumption == IsFiniteSet(Uploads)
\* store tells an upload from the two states that are not one.
ASSUME UploadAssumption == {"absent", "whole"} \cap Uploads = {}
ASSUME AttemptsAssumption == MaxAttempts \in Nat \ {0}
ASSUME NoneAssumption == None \notin Answers \cup Uploads \cup Keys \cup Files \cup Types

VARIABLES
    req,      \* req[u]: the handler of upload u (pc and locals)
    jobs,     \* table jobs, by job id
    results,  \* table job_results, by job id
    audit,    \* table job_attempts: the rows the worker wrote for each job, in
              \* commit order (DocumentQuery has those of POST .../query)
    store,    \* store[f]: the object whose key is the digest of f
    queue,    \* the RQ queue "default"
    rq,       \* rq[j]: what RQ itself records of the job
    wk,       \* wk[w]: the worker running run_extraction (pc and locals)
    llm       \* llm[j]: completions the LLM provider was asked for job j

vars == <<req, jobs, results, audit, store, queue, rq, wk, llm>>
tables == <<jobs, results, audit>>

-----------------------------------------------------------------------------
(* The tables. *)

Stages == {"PENDING", "EXTRACTING", "EXTRACTING_AI", "VALIDATING"}
Settled == {"DONE", "NEEDS_REVIEW", "FAILED"}
JobStatus == Stages \cup Settled

\* A row of jobs; status "absent" stands for "no such row".
Job == [status : JobStatus \cup {"absent"}, owner : Keys \cup {None},
        file : Files \cup {None}, type : Types \cup {None},
        cached : BOOLEAN, at : Nat]
NoJob == [status |-> "absent", owner |-> None, file |-> None, type |-> None,
          cached |-> FALSE, at |-> 0]

\* A row of job_results.  Its text is the text of the whole file or of a
\* damaged copy; text "absent" stands for "no such row".
JobResult == [text : {"absent", "whole", "damaged"}, fields : Answers \cup {None}]
NoResult == [text |-> "absent", fields |-> None]

\* A row of job_attempts; outcome abstracts validation_errors: null, a list
\* of errors, or the {"error": ...} object of an exception.
JobAttempt == [stage : {"EXTRACTING", "EXTRACTING_AI"}, number : Nat \ {0},
               outcome : {"valid", "invalid", "raised"}]

Has(j) == jobs[j].status # "absent"
RaisedRow(stage) == [stage |-> stage, number |-> 1, outcome |-> "raised"]

-----------------------------------------------------------------------------
(* The processes. *)

\* created_at is the server's now(), the start of the transaction the
\* handler opens when it authenticates its caller: `at` orders the requests
\* by that time.
Request == [pc : {"idle", "lookup", "clone", "save", "write", "insert",
                  "enqueue", "accepted", "cached", "error"},
            key : Keys \cup {None}, file : Files \cup {None},
            type : Types \cup {None}, at : Nat, hit : Uploads \cup {None}]
Idle == [pc |-> "idle", key |-> None, file |-> None, type |-> None, at |-> 0,
         hit |-> None]
Answered == {"accepted", "cached", "error"}

\* data: the bytes read; tries, kept, passed: the locals attempts,
\* last_parsed and `not errors` of run_invoice_self_correction.
Worker == [pc : {"idle", "load", "read", "extract", "ai", "validating", "final"},
           job : Uploads \cup {None}, data : {"none", "whole", "damaged"},
           tries : Seq({"valid", "invalid"}), kept : Answers \cup {None},
           passed : BOOLEAN]
Fresh(pc, j) == [pc |-> pc, job |-> j, data |-> "none", tries |-> <<>>,
                 kept |-> None, passed |-> FALSE]
Free == Fresh("idle", None)

Init ==
    /\ req = [u \in Uploads |-> Idle]
    /\ jobs = [u \in Uploads |-> NoJob]
    /\ results = [u \in Uploads |-> NoResult]
    /\ audit = [u \in Uploads |-> <<>>]
    /\ store = [f \in Files |-> "absent"]
    /\ queue = <<>>
    /\ rq = [u \in Uploads |-> "unknown"]
    /\ wk = [w \in Workers |-> Free]
    /\ llm = [u \in Uploads |-> 0]

\* The service a step awaits, by the pc of its process.
Awaits(pc) ==
    CASE pc \in {"lookup", "clone", "insert",
                 "load", "extract", "validating", "final"} -> "db"
      [] pc \in {"save", "write", "read"}                  -> "storage"
      [] pc = "enqueue"                                    -> "redis"
      [] OTHER                                             -> "kill"
Breaks(pc) == Faults \cap {Awaits(pc), "kill"} # {}

-----------------------------------------------------------------------------
(* The upload handler, upload_document. *)

Goto(u, pc) == req' = [req EXCEPT ![u].pc = pc]

\* The handler answers, unless its last await did its work and yet raised, or
\* the process dies before the answer is out.
Respond(u, pc) == Goto(u, pc) \/ (Breaks(req[u].pc) /\ Goto(u, "error"))

\* An authenticated, well-formed request arrives (refused ones change
\* nothing here): authentication starts the transaction that dates the row.
Begin(u) ==
    /\ req[u].pc = "idle"
    /\ \E k \in Keys, f \in Files, t \in Types :
         req' = [req EXCEPT ![u] =
                   [pc |-> "lookup", key |-> k, file |-> f, type |-> t, hit |-> None,
                    at |-> 1 + Cardinality({o \in Uploads : req[o].pc # "idle"})]]
    /\ UNCHANGED <<jobs, results, audit, store, queue, rq, wk, llm>>

\* _find_cache_hit without the condition on the status.
MutHitsAnyStatus(u) == {o \in Uploads : jobs[o].file = req[u].file
                                          /\ jobs[o].type = req[u].type}

\* _find_cache_hit without the condition on the type.
MutHitsAnyType(u) == {o \in Uploads : jobs[o].status = "DONE" /\ jobs[o].file = req[u].file}

\* The WHERE clause of _find_cache_hit.
Hits(u) == {o \in Uploads : /\ jobs[o].status = "DONE"
                            /\ jobs[o].file = req[u].file
                            /\ jobs[o].type = req[u].type}

\* A failing look-up is taken for a miss.
MutLookup(u) ==
    /\ req[u].pc = "lookup"
    /\ \/ /\ Hits(u) = {} \/ Breaks("lookup")
          /\ Goto(u, "save")
       \/ \E h \in Hits(u) : req' = [req EXCEPT ![u].pc = "clone", ![u].hit = h]
    /\ UNCHANGED <<jobs, results, audit, store, queue, rq, wk, llm>>

\* _find_cache_hit: the most recent hit, if there is one.
Lookup(u) ==
    /\ req[u].pc = "lookup"
    /\ \/ /\ Hits(u) = {}
          /\ Goto(u, "save")
       \/ \E h \in Hits(u) :
            /\ \A o \in Hits(u) : jobs[o].at <= jobs[h].at
            /\ req' = [req EXCEPT ![u].pc = "clone", ![u].hit = h]
    /\ UNCHANGED <<jobs, results, audit, store, queue, rq, wk, llm>>

\* _clone_from_cache that hands over the row and forgets its result.
MutCloneNoResult(u) ==
    /\ req[u].pc = "clone"
    /\ jobs' = [jobs EXCEPT ![u] =
                  [jobs[req[u].hit] EXCEPT !.owner = req[u].key, !.cached = TRUE,
                                           !.at = req[u].at]]
    /\ Respond(u, "cached")
    /\ UNCHANGED <<results, audit, store, queue, rq, wk, llm>>

\* _clone_from_cache, one transaction: a DONE job of the requester with the
\* document and the result of the hit.  Answers 200.
Clone(u) ==
    /\ req[u].pc = "clone"
    /\ LET h == req[u].hit IN
         /\ jobs' = [jobs EXCEPT ![u] =
                       [status |-> "DONE", owner |-> req[u].key, file |-> jobs[h].file,
                        type |-> jobs[h].type, cached |-> TRUE, at |-> req[u].at]]
         /\ results' = [results EXCEPT ![u] = results[h]]
    /\ Respond(u, "cached")
    /\ UNCHANGED <<audit, store, queue, rq, wk, llm>>

\* Nobody waits for the thread that writes the bytes.
MutSave(u) ==
    /\ req[u].pc = "save"
    /\ store' = [store EXCEPT ![req[u].file] = IF AtomicPut THEN "whole" ELSE u]
    /\ Goto(u, "insert")
    /\ UNCHANGED <<jobs, results, audit, queue, rq, wk, llm>>

\* storage.save, or its first step: put_object stores an object in one step;
\* path.write_bytes opens the file, which empties it, and writes afterwards.
Save(u) ==
    /\ req[u].pc = "save"
    /\ store' = [store EXCEPT ![req[u].file] = IF AtomicPut THEN "whole" ELSE u]
    /\ Goto(u, IF AtomicPut THEN "insert" ELSE "write")
    /\ UNCHANGED <<jobs, results, audit, queue, rq, wk, llm>>

\* The rest of LocalFilesystemStorage._write.  Whoever emptied the file last
\* leaves it whole; an earlier writer may have written before it was emptied
\* again, or in between.
SaveWrite(u) ==
    /\ req[u].pc = "write"
    /\ LET f == req[u].file IN
         \E s \in (IF store[f] = u THEN {"whole"} ELSE {store[f], "whole"}) :
            store' = [store EXCEPT ![f] = s]
    /\ Goto(u, "insert")
    /\ UNCHANGED <<jobs, results, audit, queue, rq, wk, llm>>

\* The row is flushed and never committed before the job is enqueued.
MutInsertUncommitted(u) ==
    /\ req[u].pc = "insert"
    /\ Goto(u, "enqueue")
    /\ UNCHANGED <<jobs, results, audit, store, queue, rq, wk, llm>>

Insert(u) ==
    /\ req[u].pc = "insert"
    /\ jobs' = [jobs EXCEPT ![u] =
                  [status |-> "PENDING", owner |-> req[u].key, file |-> req[u].file,
                   type |-> req[u].type, cached |-> FALSE, at |-> req[u].at]]
    /\ Goto(u, "enqueue")
    /\ UNCHANGED <<results, audit, store, queue, rq, wk, llm>>

\* No second entry for a file that is queued already.
MutEnqueueOncePerFile(u) ==
    /\ req[u].pc = "enqueue"
    /\ IF \E i \in DOMAIN queue : jobs[queue[i]].file = req[u].file
         THEN UNCHANGED <<queue, rq>>
         ELSE queue' = Append(queue, u) /\ rq' = [rq EXCEPT ![u] = "queued"]
    /\ Respond(u, "accepted")
    /\ UNCHANGED <<jobs, results, audit, store, wk, llm>>

\* get_task_queue().enqueue(process_document, job.id).  Answers 202.
Enqueue(u) ==
    /\ req[u].pc = "enqueue"
    /\ queue' = Append(queue, u)
    /\ rq' = [rq EXCEPT ![u] = "queued"]
    /\ Respond(u, "accepted")
    /\ UNCHANGED <<jobs, results, audit, store, wk, llm>>

\* An exception leaves the handler (500), or the API process dies: what was
\* committed, written or enqueued before stays.
Fail(u) ==
    /\ req[u].pc \notin {"idle"} \cup Answered
    /\ Breaks(req[u].pc)
    /\ Goto(u, "error")
    /\ UNCHANGED <<jobs, results, audit, store, queue, rq, wk, llm>>

-----------------------------------------------------------------------------
(* The worker, run_extraction. *)

At(w, pc) == wk[w].pc = pc
Step(w, pc) == wk' = [wk EXCEPT ![w].pc = pc]

\* The work horse exits; RQ notes how.
Leave(w, outcome) ==
    /\ wk' = [wk EXCEPT ![w] = Free]
    /\ rq' = [rq EXCEPT ![wk[w].job] = outcome]

\* run_extraction returns; the process may still die before RQ hears of it.
Return(w) == \/ Leave(w, "finished")
             \/ "kill" \in Faults /\ Leave(w, "failed")

SetStatus(j, s) == jobs' = [jobs EXCEPT ![j].status = s]

\* A queue that keeps the entry while the job runs.
MutDequeuePeek(w) ==
    /\ At(w, "idle") /\ queue # <<>>
    /\ wk' = [wk EXCEPT ![w] = Fresh("load", Head(queue))]
    /\ rq' = [rq EXCEPT ![Head(queue)] = "started"]
    /\ UNCHANGED <<req, jobs, results, audit, store, queue, llm>>

\* RQ pops the oldest entry and forks a work horse for it.
Dequeue(w) ==
    /\ At(w, "idle") /\ queue # <<>>
    /\ wk' = [wk EXCEPT ![w] = Fresh("load", Head(queue))]
    /\ rq' = [rq EXCEPT ![Head(queue)] = "started"]
    /\ queue' = Tail(queue)
    /\ UNCHANGED <<req, jobs, results, audit, store, llm>>

\* session.get and the EXTRACTING commit; a job without a row is skipped.
Load(w) ==
    /\ At(w, "load")
    /\ IF Has(wk[w].job)
         THEN SetStatus(wk[w].job, "EXTRACTING") /\ Step(w, "read") /\ UNCHANGED rq
         ELSE Return(w) /\ UNCHANGED jobs
    /\ UNCHANGED <<req, results, audit, store, queue, llm>>

\* A worker that polls until the object is complete.
MutReadWaits(w) ==
    /\ At(w, "read")
    /\ store[jobs[wk[w].job].file] = "whole"
    /\ wk' = [wk EXCEPT ![w].pc = "extract", ![w].data = "whole"]
    /\ UNCHANGED <<req, jobs, results, audit, store, queue, rq, llm>>

\* storage.read, outside any try block: no object, no job.
Read(w) ==
    /\ At(w, "read")
    /\ LET s == store[jobs[wk[w].job].file] IN
         IF s = "absent"
           THEN Leave(w, "failed")
           ELSE /\ wk' = [wk EXCEPT ![w].pc = "extract",
                                    ![w].data = IF s = "whole" THEN s ELSE "damaged"]
                /\ UNCHANGED rq
    /\ UNCHANGED <<req, jobs, results, audit, store, queue, llm>>

\* One of the two except blocks: FAILED and a lone row with the exception.
GiveUp(w, stage) ==
    /\ SetStatus(wk[w].job, "FAILED")
    /\ audit' = [audit EXCEPT ![wk[w].job] = Append(@, RaisedRow(stage))]
    /\ Return(w)
    /\ UNCHANGED <<req, results, store, queue>>

\* extract_text and the commit that follows it: it raises (any file may defeat
\* the OCR, a damaged one more so), or its text is stored and the job is done
\* unless its type has a schema.
ExtractRaises(w) ==
    /\ At(w, "extract")
    /\ wk[w].data = "damaged" \/ "ocr" \in Faults
    /\ GiveUp(w, "EXTRACTING")
    /\ UNCHANGED llm

ExtractText(w) ==
    /\ At(w, "extract")
    /\ results' = [results EXCEPT ![wk[w].job] = [text |-> wk[w].data, fields |-> None]]
    /\ IF jobs[wk[w].job].type = Invoice
         THEN SetStatus(wk[w].job, "EXTRACTING_AI") /\ Step(w, "ai") /\ UNCHANGED rq
         ELSE SetStatus(wk[w].job, "DONE") /\ Return(w)
    /\ UNCHANGED <<req, audit, store, queue, llm>>

-----------------------------------------------------------------------------
(* The self-correction loop and what the worker makes of its outcome. *)

\* range(1, MAX_ATTEMPTS + 1) with an end one too large.
MutLastAttempt(n) == n = MaxAttempts + 1

LastAttempt(n) == n = MaxAttempts

\* The locals of run_invoice_self_correction after a reply, a reply that does
\* not parse (None) or an answer; the loop ends when the answer is valid or the
\* attempt was the last one allowed.
Replied(o, a) ==
    LET tries == Append(o.tries, IF a \in Valid THEN "valid" ELSE "invalid")
        over  == a \in Valid \/ LastAttempt(Len(tries))
    IN [pc |-> IF over THEN "validating" ELSE "ai", job |-> o.job, data |-> o.data,
        tries |-> tries, kept |-> IF a = None THEN o.kept ELSE a, passed |-> a \in Valid]

\* One round of the loop.
CallLLM(w) ==
    /\ At(w, "ai")
    /\ \E a \in Answers \cup {None} : wk' = [wk EXCEPT ![w] = Replied(wk[w], a)]
    /\ llm' = [llm EXCEPT ![wk[w].job] = @ + 1]
    /\ UNCHANGED <<req, jobs, results, audit, store, queue, rq>>

\* The LLM client raises: the records of the earlier rounds go with the loop.
LLMRaises(w) ==
    /\ At(w, "ai")
    /\ "llm" \in Faults
    /\ GiveUp(w, "EXTRACTING_AI")
    /\ llm' = [llm EXCEPT ![wk[w].job] = @ + 1]

\* Only the attempt that ended the loop is recorded.
MutRows(tries) == <<[stage |-> "EXTRACTING_AI", number |-> 1, outcome |-> tries[Len(tries)]]>>

\* The rows of outcome.attempts.
Rows(tries) == [n \in DOMAIN tries |->
                  [stage |-> "EXTRACTING_AI", number |-> n, outcome |-> tries[n]]]

\* The VALIDATING commit, with the audit rows of the loop.
RecordAttempts(w) ==
    /\ At(w, "validating")
    /\ audit' = [audit EXCEPT ![wk[w].job] = @ \o Rows(wk[w].tries)]
    /\ SetStatus(wk[w].job, "VALIDATING")
    /\ Step(w, "final")
    /\ UNCHANGED <<req, results, store, queue, rq, llm>>

\* needs_review taken for "nothing was parsed".
MutVerdict(o) == IF o.kept # None THEN "DONE" ELSE "NEEDS_REVIEW"

Verdict(o) == IF o.passed THEN "DONE" ELSE "NEEDS_REVIEW"

\* The last commit: fields and verdict together.
Finalize(w) ==
    /\ At(w, "final")
    /\ results' = [results EXCEPT ![wk[w].job].fields = wk[w].kept]
    /\ SetStatus(wk[w].job, Verdict(wk[w]))
    /\ Return(w)
    /\ UNCHANGED <<req, audit, store, queue, llm>>

\* An exception outside the two try blocks, RQ's job timeout, or the death of
\* the process: RQ files the job as failed, nobody retries it, and the tables
\* stay at the last commit.  The worker (or the one that replaces it) is free.
Escape(w) ==
    /\ ~At(w, "idle")
    /\ Breaks(wk[w].pc)
    /\ Leave(w, "failed")
    /\ UNCHANGED <<req, jobs, results, audit, store, queue, llm>>

-----------------------------------------------------------------------------

Handle(u) == \/ Lookup(u) \/ Clone(u) \/ Save(u) \/ SaveWrite(u)
             \/ Insert(u) \/ Enqueue(u)

Process(w) == \/ Load(w) \/ Read(w) \/ ExtractRaises(w) \/ ExtractText(w)
              \/ CallLLM(w) \/ LLMRaises(w) \/ RecordAttempts(w) \/ Finalize(w)

Next == \/ \E u \in Uploads : Begin(u) \/ Handle(u) \/ Fail(u)
        \/ \E w \in Workers : Dequeue(w) \/ Process(w) \/ Escape(w)

Spec == Init /\ [][Next]_vars

\* Every awaited call returns or raises, RQ workers keep polling the queue;
\* nobody has to send a request.
FairSpec == /\ Spec
            /\ \A u \in Uploads : WF_vars(Handle(u))
            /\ \A w \in Workers : WF_vars(Dequeue(w)) /\ WF_vars(Process(w))

-----------------------------------------------------------------------------
(* Type invariant. *)

\* Every variable keeps its shape; in particular no job is asked of the LLM
\* more than MAX_ATTEMPTS times in one run of the loop.
TypeOK ==
    /\ req \in [Uploads -> Request]
    /\ jobs \in [Uploads -> Job]
    /\ results \in [Uploads -> JobResult]
    /\ audit \in [Uploads -> Seq(JobAttempt)]
    /\ store \in [Files -> {"absent", "whole"} \cup Uploads]
    /\ queue \in Seq(Uploads)
    /\ rq \in [Uploads -> {"unknown", "queued", "started", "finished", "failed"}]
    /\ wk \in [Workers -> Worker]
    /\ llm \in [Uploads -> 0 .. MaxAttempts]

-----------------------------------------------------------------------------
(* The hand-off between the API and the workers. *)

Entries == {queue[i] : i \in DOMAIN queue}
Held == {wk[w].job : w \in Workers} \ {None}

\* An id in the queue names a committed PENDING row whose file is stored, is
\* queued once and is run by nobody: whatever upload and worker interleave or
\* die, a worker never finds a missing row or object (documents.py:128-143
\* saves, commits, then enqueues; tasks.py:46-55 relies on it).
HandOff ==
    /\ \A i \in DOMAIN queue :
         LET row == jobs[queue[i]] IN
           /\ row.status = "PENDING" /\ ~row.cached
           /\ store[row.file] # "absent"
           /\ queue[i] \notin Held
           /\ \A k \in DOMAIN queue : queue[k] = queue[i] => k = i
    /\ \A w, x \in Workers : wk[w].job = wk[x].job /\ wk[w].job # None => w = x

\* A job answered 202 is never dropped silently: until it is settled it is in
\* the queue, in a worker's hands, or in RQ's list of failed jobs.
AcceptedIsTracked ==
    \A u \in Uploads : req[u].pc = "accepted" =>
       \/ u \in Entries \cup Held
       \/ jobs[u].status \in Settled
       \/ rq[u] = "failed"

-----------------------------------------------------------------------------
(* What a settled job tells its client. *)

\* DONE means a result, and for an invoice a result that passed validation;
\* NEEDS_REVIEW means the loop never saw one pass (tasks.py:33-36).
VerdictIsEarned ==
    \A j \in Uploads :
       LET s == jobs[j].status IN
         /\ s = "DONE" => /\ results[j].text # "absent"
                          /\ jobs[j].type = Invoice => results[j].fields \in Valid
         /\ s = "NEEDS_REVIEW" => /\ results[j].text # "absent"
                                  /\ results[j].fields \notin Valid

\* A job answered from the cache belongs to the key that asked, is about the
\* document that was asked for, and shows the result of a job that a worker
\* took to DONE for the same file and type (documents.py:149-199).
CacheProvenance ==
    \A j \in Uploads : jobs[j].cached =>
       /\ jobs[j].owner = req[j].key
       /\ jobs[j].file = req[j].file /\ jobs[j].type = req[j].type
       /\ \E o \in Uploads :
            /\ jobs[o].status = "DONE" /\ ~jobs[o].cached /\ rq[o] \in {"finished", "failed"}
            /\ jobs[o].file = jobs[j].file /\ jobs[o].type = jobs[j].type
            /\ results[o] = results[j]

Outcomes(j) == [n \in DOMAIN audit[j] |-> audit[j][n].outcome]

\* The audit trail and the verdict tell the same story: DONE after one valid
\* attempt that only invalid ones precede, NEEDS_REVIEW after MAX_ATTEMPTS
\* invalid ones, FAILED after one exception, nothing before VALIDATING.
AuditTellsTheStory ==
    \A j \in Uploads :
       LET s == jobs[j].status
           o == Outcomes(j)
           n == Len(o)
       IN /\ \A i \in 1 .. n : audit[j][i].number = i
          /\ s \in {"absent", "PENDING", "EXTRACTING", "EXTRACTING_AI"} => n = 0
          /\ s = "FAILED" => o = <<"raised">>
          /\ s = "NEEDS_REVIEW" => n = MaxAttempts /\ \A i \in 1 .. n : o[i] = "invalid"
          /\ s = "DONE" =>
               IF jobs[j].cached \/ jobs[j].type # Invoice THEN n = 0
               ELSE /\ n \in 1 .. MaxAttempts /\ n = llm[j] /\ o[n] = "valid"
                    /\ \A i \in 1 .. n - 1 : o[i] = "invalid"

\* Upload v missed the cache and may have opened the object of f.
Wrote(v, f) == /\ req[v].file = f /\ req[v].hit = None
               /\ req[v].pc \notin {"idle", "lookup", "clone", "save", "cached"}

\* On a local disk a worker reads an object that somebody is writing only if a
\* second upload of the same file missed the cache as well: what an upload saved
\* itself is complete before its row is there (local.py:26-28 empties the file
\* first; documents.py:126-138 saves before it commits).
DamagedByRival ==
    \A j \in Uploads : results[j].text = "damaged" /\ ~jobs[j].cached =>
       \E v \in Uploads \ {j} : Wrote(v, jobs[j].file)

\* What was published stays: no upload and no worker takes a job out of a
\* final status or touches its row, its result or the attempts on record
\* (test_worker.py never runs two workers; nothing in run_extraction would
\* stop a redelivered id from starting the job over).
SettledStaysSettled ==
    [][\A j \in Uploads : jobs[j].status \in Settled =>
          /\ jobs'[j] = jobs[j] /\ results'[j] = results[j] /\ audit'[j] = audit[j]]_vars

OnRecord(f, t) ==
    \E o \in Uploads : jobs[o].status = "DONE" /\ jobs[o].file = f /\ jobs[o].type = t

\* Upload u left nothing but, at most, a clone.
Spared(u, f) ==
    /\ rq[u] = "unknown" /\ llm[u] = 0 /\ store[f] # u
    /\ Has(u) => jobs[u].cached

\* Once a document is DONE nobody pays for it again: an upload that arrives
\* later, by whichever key, is answered from the cache or fails; it is never
\* queued, costs no completion and leaves the stored object alone, whatever
\* else runs or dies meanwhile (documents.py:116-124).
DoneIsReused ==
    \A u \in Uploads, f \in Files, t \in Types :
       []( /\ req[u].pc = "idle" /\ OnRecord(f, t)
           => [](req[u].file = f /\ req[u].type = t => Spared(u, f)) )

-----------------------------------------------------------------------------
(* Liveness. *)

\* Whatever fails, a job answered 202 reaches a final status or RQ's list of
\* failed jobs, where an operator finds it (tasks.py:25-135 has no retry).
AcceptedSettles ==
    \A u \in Uploads :
       req[u].pc = "accepted" ~> jobs[u].status \in Settled \/ rq[u] = "failed"

\* Whatever fails, the queue drains: an id that is enqueued is sooner or later
\* out of the queue and out of the workers' hands.
QueueDrains ==
    \A u \in Uploads : rq[u] = "queued" ~> rq[u] \in {"finished", "failed"}

-----------------------------------------------------------------------------
(* Refinement. *)

Doc(j) == IF Has(j) THEN [file |-> jobs[j].file, type |-> jobs[j].type] ELSE None
Published(j) == jobs[j].status \in {"DONE", "NEEDS_REVIEW"}

\* The job as its client sees it: row, queue and workers forgotten.
Lifecycle == INSTANCE JobLifecycle WITH
    Jobs <- Uploads, Docs <- [file : Files, type : Types], Payloads <- JobResult,
    Blank <- None,
    board <- [j \in Uploads |->
                [status |-> jobs[j].status, doc |-> Doc(j),
                 answer |-> IF Published(j) THEN results[j] ELSE None]]

\* Every step of the pipeline is a step of the job's life or invisible.
KeepsLifecycle == Lifecycle!Spec

\* A job nobody will work on any more: RQ filed it as failed before it was
\* settled, or its row was committed and it was never enqueued.
Lost(j) ==
    /\ Has(j) /\ jobs[j].status \notin Settled
    /\ rq[j] = "failed" \/ (rq[j] = "unknown" /\ req[j].pc = "error")

\* Every job that is not lost is also worked on to its verdict: there is no
\* third way for a job to stay behind.
KeepsFairLifecycle ==
    /\ Lifecycle!Spec
    /\ \A j \in Uploads : <>Lost(j) \/ Lifecycle!Fair(j)

Phase(j) == CASE jobs[j].status \in {"absent", "PENDING", "EXTRACTING"} -> "extract"
              [] jobs[j].status = "EXTRACTING_AI"                         -> "ai"
              [] OTHER                                                    -> "over"

\* validation_errors, as JSON.
Errors(outcome) == CASE outcome = "valid"   -> "null"
                     [] outcome = "invalid" -> "list"
                     [] outcome = "raised"  -> "object"

\* The audit trail of job j before anybody queries it.
Trail(j) == INSTANCE DocumentQuery WITH
    Queries <- {}, Readers <- {}, Nobody <- None, ask <- <<>>, view <- <<>>,
    now <- IF audit[j] = <<>> THEN 0 ELSE 1,
    phase <- Phase(j),
    text <- IF results[j].text = "absent" THEN "none" ELSE "text",
    rows <- [i \in DOMAIN audit[j] |->
               [stage |-> audit[j][i].stage, number |-> audit[j][i].number,
                errors |-> Errors(audit[j][i].outcome), at |-> 1, by |-> None]]

\* The worker that DocumentQuery puts beside its queries is the one of this
\* module: to whoever reads the trail of a job, uploads, clones and workers do
\* nothing but extract the text once, then end with the rows of a loop or with
\* one exception.
KeepsTrail ==
    /\ \A j \in Uploads : Trail(j)!Init
    /\ [][\A j \in Uploads : [Trail(j)!Worker]_(Trail(j)!vars)]_vars

-----------------------------------------------------------------------------
(* What the repository's texts say and the code does not do. *)

\* PROJECT_SPEC.md:28: a full audit trail, "every LLM call + response", is
\* stored with the job.
AuditComplete ==
    \A j \in Uploads : jobs[j].status \in Settled =>
       Len(SelectSeq(audit[j], LAMBDA row : row.stage = "EXTRACTING_AI")) = llm[j]

\* tasks.py:33-36: FAILED is for infrastructure problems, "unreadable file,
\* LLM API error"; so the client of a job RQ gave up sees FAILED.
GivenUpIsFailed == \A j \in Uploads : rq[j] = "failed" => jobs[j].status = "FAILED"

=============================================================================
