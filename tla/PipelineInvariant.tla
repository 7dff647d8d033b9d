-------------------------- MODULE PipelineInvariant --------------------------
(***************************************************************************)
(* The inductive invariant of Pipeline: who may be doing what to a job,    *)
(* by the state of its row.  MCPipeline checks it, PipelineProofs proves   *)
(* it inductive and derives the safety properties from it.                 *)
(***************************************************************************)
EXTENDS Pipeline

\* What the handler of u knows at each pc.  Before the insert the row does not
\* exist; at "enqueue" it is committed and RQ has never heard of it.
RequestOK(u) ==
    LET r == req[u] IN
    /\ r.pc # "idle" => r.key \in Keys /\ r.file \in Files /\ r.type \in Types
    /\ r.pc \in {"idle", "lookup", "clone", "save", "write", "insert"}
         => jobs[u].status = "absent"
    /\ r.pc = "clone" => /\ r.hit \in Uploads /\ jobs[r.hit].status = "DONE"
                         /\ jobs[r.hit].file = r.file /\ jobs[r.hit].type = r.type
    /\ r.pc \in {"write", "insert"} => store[r.file] # "absent"
    /\ r.pc = "enqueue" => jobs[u].status = "PENDING" /\ rq[u] = "unknown"
    /\ r.pc = "accepted" => Has(u) /\ rq[u] # "unknown" /\ ~jobs[u].cached

\* What RQ's record of j says about its row.
RowOK(j) ==
    /\ Has(j) => /\ req[j].pc # "idle" /\ jobs[j].owner = req[j].key
                 /\ jobs[j].file = req[j].file /\ jobs[j].type = req[j].type
                 /\ jobs[j].cached \/ store[jobs[j].file] # "absent"
    /\ jobs[j].cached => jobs[j].status = "DONE" /\ rq[j] = "unknown"
    /\ rq[j] = "unknown" => jobs[j].status \in {"absent", "PENDING"} \/ jobs[j].cached
    /\ rq[j] = "queued" => jobs[j].status = "PENDING" /\ j \in Entries
    /\ rq[j] = "started" => \E w \in Workers : wk[w].job = j
    /\ rq[j] = "finished" => jobs[j].status \in Settled
    /\ rq[j] = "failed" => Has(j)
    /\ jobs[j].status \in {"absent", "PENDING", "EXTRACTING"} => llm[j] = 0

\* What a worker knows of its job at each pc; nobody else touches that job.
WorkerOK(w) ==
    LET o == wk[w]
        s == jobs[o.job].status
    IN /\ o.pc = "idle" <=> o.job = None
       /\ o.pc # "idle" => rq[o.job] = "started" /\ ~jobs[o.job].cached
       /\ o.pc = "load" => s = "PENDING" /\ o.kept = None
       /\ o.pc \in {"read", "extract"} => s = "EXTRACTING"
       /\ o.pc = "extract" => o.data # "none"
       /\ o.pc \in {"load", "read", "extract"} => o.kept = None /\ o.tries = <<>>
       /\ o.pc \in {"ai", "validating"} => s = "EXTRACTING_AI"
       /\ o.pc = "final" => s = "VALIDATING"
       /\ o.pc \in {"ai", "validating", "final"} =>
            /\ jobs[o.job].type = Invoice /\ results[o.job].text # "absent"
            /\ llm[o.job] = Len(o.tries)
       /\ o.pc = "ai" => ~(o.kept \in Valid) /\ Len(o.tries) < MaxAttempts
       /\ o.pc \in {"validating", "final"} => (o.passed <=> o.kept \in Valid)

\* Queue entries are exactly what RQ calls queued, each of them once.
QueueOK ==
    /\ \A i \in DOMAIN queue : rq[queue[i]] = "queued"
    /\ \A i, k \in DOMAIN queue : queue[i] = queue[k] => i = k

Alone == \A w, x \in Workers : wk[w].job = wk[x].job /\ wk[w].job # None => w = x

\* The inductive invariant: the state of a job's row determines who holds it.
IInv == /\ TypeOK
        /\ \A u \in Uploads : RequestOK(u) /\ RowOK(u)
        /\ \A w \in Workers : WorkerOK(w)
        /\ QueueOK /\ Alone
        /\ VerdictIsEarned /\ CacheProvenance
=============================================================================
