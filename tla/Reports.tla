------------------------------ MODULE Reports ------------------------------
(***************************************************************************)
(* What IntelliExtract tells of its jobs while uploads and workers go on:  *)
(* GET /documents/{job_id}, GET /documents (app/api/v1/documents.py) and   *)
(* GET /metrics (app/services/metrics.py).  Each statement of a handler    *)
(* has its own snapshot (READ COMMITTED), and a list is read page by page, *)
(* one request each.                                                       *)
(***************************************************************************)
EXTENDS Pipeline

CONSTANTS Readers,  \* clients that read, one question each
          Limits    \* what they may ask for as limit

ASSUME LimitAssumption == Limits \subseteq Nat \ {0}
ASSUME UnknownAssumption == "unknown" \notin Keys

VARIABLE get  \* get[r]: the question of reader r and what it knows so far

allVars == <<vars, get>>

-----------------------------------------------------------------------------
(* Answers and the error envelope. *)

\* An answer: HTTP status and, for an error, the code of its envelope.
Answer == [status : {200, 401, 404, 429},
           code : JobStatus \cup {"MISSING_API_KEY", "INVALID_API_KEY", "RATE_LIMITED",
                                  "JOB_NOT_FOUND"}]
Error(status, code) == [status |-> status, code |-> code]

\* Taken for the check of the admin's key.
MutRefusals(key) == {Error(403, "FORBIDDEN")}

\* get_current_api_key and enforce_rate_limit: the errors they may raise for
\* what X-API-Key says (None: no such header).
Refusals(key) == IF key = None THEN {Error(401, "MISSING_API_KEY")}
                 ELSE IF key \notin Keys THEN {Error(401, "INVALID_API_KEY")}
                 ELSE {Error(429, "RATE_LIMITED")}
Admitted(key) == key \in Keys

\* _get_owned_job that says more to those who guess a job id.
MutStatusAnswer(key, j) ==
    IF ~Has(j) THEN Error(404, "JOB_NOT_FOUND")
    ELSE IF jobs[j].owner # key THEN Error(403, "FORBIDDEN")
    ELSE [status |-> 200, code |-> jobs[j].status]

\* _get_owned_job, and the status that get_document returns.
StatusAnswer(key, j) ==
    IF ~Has(j) \/ jobs[j].owner # key THEN Error(404, "JOB_NOT_FOUND")
    ELSE [status |-> 200, code |-> jobs[j].status]

-----------------------------------------------------------------------------
(* The questions. *)

Nothing == [kind |-> "none"]
Gone == [kind |-> "failed"]

Owned(key) == {u \in Uploads : Has(u) /\ jobs[u].owner = key}
Told(key, j) == req[j].pc \in {"accepted", "cached"} /\ req[j].key = key

\* told: whether its key had been answered for the job when it asked.
Status == [kind : {"status"}, pc : {"key", "job", "over"},
           key : Keys \cup {None, "unknown"}, job : Uploads, told : BOOLEAN,
           answer : Answer \cup {None}]

\* had: the key's jobs when the first page was asked for.
List == [kind : {"list"}, pc : {"total", "page", "over"},
         key : Keys, limit : Nat, offset : Nat, total : Nat, listed : Seq(Uploads),
         had : SUBSET Uploads]

Scrape == [kind : {"metrics"}, pc : {"status", "total", "cached", "over"},
           had : SUBSET Uploads, done : Nat, total : Nat, cached : Nat]

InitAll == Init /\ get = [r \in Readers |-> Nothing]

Becomes(r, question) == get' = [get EXCEPT ![r] = question]
Asks(r, kind, pc) == get[r].kind = kind /\ get[r].pc = pc

-----------------------------------------------------------------------------
(* get_document. *)

AskStatus(r) ==
    /\ get[r] = Nothing
    /\ \E key \in Keys \cup {None, "unknown"}, j \in Uploads :
         Becomes(r, [kind |-> "status", pc |-> "key", key |-> key, job |-> j,
                     told |-> Told(key, j), answer |-> None])

\* The key is looked up and charged.
CheckKey(r) ==
    /\ Asks(r, "status", "key")
    /\ \/ /\ Admitted(get[r].key)
          /\ Becomes(r, [get[r] EXCEPT !.pc = "job"])
       \/ \E e \in Refusals(get[r].key) :
            Becomes(r, [get[r] EXCEPT !.pc = "over", !.answer = e])

ReadJob(r) ==
    /\ Asks(r, "status", "job")
    /\ Becomes(r, [get[r] EXCEPT !.pc = "over",
                                 !.answer = StatusAnswer(get[r].key, get[r].job)])

-----------------------------------------------------------------------------
(* list_documents, asked for page after page. *)

AskList(r) ==
    /\ get[r] = Nothing
    /\ \E key \in Keys, limit \in Limits :
         Becomes(r, [kind |-> "list", pc |-> "total", key |-> key, limit |-> limit,
                     offset |-> 0, total |-> 0, listed |-> <<>>, had |-> Owned(key)])

CountTotal(r) ==
    /\ Asks(r, "list", "total")
    /\ Becomes(r, [get[r] EXCEPT !.pc = "page", !.total = Cardinality(Owned(get[r].key))])

Before(u, v) == jobs[u].at > jobs[v].at

\* Unfinished jobs first, then by created_at.
MutPlace(u, own) ==
    Cardinality({v \in own : IF (jobs[v].status \in Settled) = (jobs[u].status \in Settled)
                               THEN Before(v, u) ELSE jobs[u].status \in Settled})

\* How many of a key's jobs are listed above job u: ORDER BY created_at DESC.
Place(u, own) == Cardinality({v \in own : Before(v, u)})

\* LIMIT and OFFSET.
PageLength(own, limit, offset) ==
    IF Cardinality(own) < offset THEN 0
    ELSE IF Cardinality(own) - offset < limit THEN Cardinality(own) - offset
    ELSE limit

Page(own, limit, offset) ==
    [i \in 1 .. PageLength(own, limit, offset) |->
       CHOOSE u \in own : Place(u, own) = offset + i - 1]

\* A page; the client asks for the next one until one is not full.
ReadPage(r) ==
    /\ Asks(r, "list", "page")
    /\ LET page == Page(Owned(get[r].key), get[r].limit, get[r].offset) IN
         Becomes(r, [get[r] EXCEPT !.listed = @ \o page, !.offset = @ + get[r].limit,
                                   !.pc = IF Len(page) = get[r].limit THEN "total"
                                          ELSE "over"])

-----------------------------------------------------------------------------
(* render_prometheus_metrics. *)

Done == {u \in Uploads : jobs[u].status = "DONE"}

\* done_total without the jobs answered from the cache.
MutDoneTotal == Cardinality({u \in Done : ~jobs[u].cached})

DoneTotal == Cardinality(Done)
DoneCached == Cardinality({u \in Done : jobs[u].cached})

AskMetrics(r) ==
    /\ get[r] = Nothing
    /\ Becomes(r, [kind |-> "metrics", pc |-> "status", had |-> Done,
                   done |-> 0, total |-> 0, cached |-> 0])

\* GROUP BY status, of which only DONE is kept here; the average that follows
\* is left out.
CountByStatus(r) ==
    /\ Asks(r, "metrics", "status")
    /\ Becomes(r, [get[r] EXCEPT !.pc = "total", !.done = Cardinality(Done)])

CountDone(r) ==
    /\ Asks(r, "metrics", "total")
    /\ Becomes(r, [get[r] EXCEPT !.pc = "cached", !.total = DoneTotal])

CountCached(r) ==
    /\ Asks(r, "metrics", "cached")
    /\ Becomes(r, [get[r] EXCEPT !.pc = "over", !.cached = DoneCached])

-----------------------------------------------------------------------------

\* A statement raises, the process dies or the client gives up.
FailRead(r) ==
    /\ get[r] \notin {Nothing, Gone} /\ get[r].pc # "over"
    /\ Becomes(r, Gone)

Tell(r) == \/ AskStatus(r) \/ CheckKey(r) \/ ReadJob(r)
           \/ AskList(r) \/ CountTotal(r) \/ ReadPage(r)
           \/ AskMetrics(r) \/ CountByStatus(r) \/ CountDone(r) \/ CountCached(r)
           \/ FailRead(r)

NextAll == \/ Next /\ UNCHANGED get
           \/ (\E r \in Readers : Tell(r)) /\ UNCHANGED vars

SpecAll == InitAll /\ [][NextAll]_allVars

-----------------------------------------------------------------------------

Listed(q) == {q.listed[i] : i \in DOMAIN q.listed}
Over(q, kind) == q.kind = kind /\ q.pc = "over"

\* Every question keeps its shape.
ReadsOK == \A r \in Readers : get[r] \in {Nothing, Gone} \cup Status \cup List \cup Scrape

\* Who was answered 200 or 202 finds the job from then on, whatever becomes of
\* it; who holds no key of the job learns nothing of it, neither that it exists
\* nor its status (documents.py:202-211, "same 404 either way").
OwnerAloneFindsJob ==
    \A r \in Readers : Over(get[r], "status") /\ get[r].answer.status \notin {401, 429} =>
       LET q == get[r] IN
         /\ q.told => q.answer.status = 200
         /\ q.answer.status = 200 => jobs[q.job].owner = q.key
         /\ q.answer.status # 200 => q.answer = Error(404, "JOB_NOT_FOUND")

\* A client that pages until a page is not full has seen every job it had when
\* it began and no other key's, although jobs arrive and change in between and
\* a job's place is decided by when its upload began, not by when its row was
\* committed (documents.py:230-240).
PagingMissesNothing ==
    \A r \in Readers : Over(get[r], "list") =>
       get[r].had \subseteq Listed(get[r]) /\ Listed(get[r]) \subseteq Owned(get[r].key)

\* It sees a job again only because another one arrived: as many repetitions as
\* arrivals at most.
PagingRepeatsArrivals ==
    \A r \in Readers : get[r].kind = "list" =>
       LET q == get[r] IN
         Len(q.listed) - Cardinality(Listed(q)) <= Cardinality(Owned(q.key) \ q.had)

\* The numbers of one scrape are of different moments; still they are counts of
\* one growing set, and what is reported as cached exceeds what is reported as
\* DONE by the hits that came meanwhile at most (metrics.py:18-39).
ScrapeDrift ==
    \A r \in Readers : Over(get[r], "metrics") =>
       LET q == get[r] IN
         /\ Cardinality(q.had) <= q.done /\ q.done <= q.total /\ q.total <= DoneTotal
         /\ q.cached <= q.total + Cardinality({u \in Done \ q.had : jobs[u].cached})

-----------------------------------------------------------------------------
(* What the repository's texts say and the code does not do. *)

\* metrics.py:50-51: the cache hit ratio is a "Fraction of DONE jobs", so at
\* most 1 (a scrape that finds no DONE job reports 0).
RatioIsFraction ==
    \A r \in Readers : Over(get[r], "metrics") /\ get[r].total # 0 =>
       get[r].cached <= get[r].total
=============================================================================
