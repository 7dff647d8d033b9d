# A verification of IntelliExtract

IntelliExtract takes documents over HTTP, extracts their text and, for invoices,
structured fields checked against business rules. This directory holds TLA+
models of it, the TLC runs that check them, and TLAPS proofs about them.
`PROJECT.json` maps every definition to the lines it translates.

## 1. The system

```
client --HTTP--> API (FastAPI, asyncio) --+-- Postgres: api_keys, jobs, job_results, job_attempts
                   |    |                 +-- object store: local directory or S3
                   |    +-- Redis: token buckets
                   +-- Redis: RQ queue "default" --> worker(s) --+-- Postgres, object store
                                                                 +-- OCR (in process)
client --/query--> API ---------------------------------------- LLM --+
```

| Component | State it keeps | Operations | What makes it correct |
|---|---|---|---|
| Upload API, `documents.py` | rows of `jobs`, objects, queue entries | `upload_document`: look-up, clone, save, insert, enqueue | an accepted job is never lost; an id is queued only when its row and object are there |
| Result cache, `documents.py` | none of its own: DONE rows of `jobs` | `_find_cache_hit`, `_clone_from_cache` | a cached answer is the worker's answer for the same file and type, owned by who asked |
| Object storage, `storage/` | content-addressed objects | `save`, `read` | what is read is what was uploaded |
| RQ and its workers, `worker/queue.py`, `main.py` | the queue, RQ's registries | enqueue, dequeue, finish, fail | every entry is run once, the queue drains |
| Extraction worker, `worker/tasks.py` | `jobs.status`, `job_results`, `job_attempts` | `run_extraction` in up to four transactions | the verdict agrees with the result and the audit trail and never changes |
| Self-correction loop, `self_correction.py`, `ai_extraction.py` | locals of one call | up to three rounds, then scores | the fields returned are those that passed; scores tell verdicts apart |
| Rate limiter, `rate_limiter.py`, `deps.py` | one Redis hash per key, expiring | `check`, the 429 | no more than capacity and refill; Retry-After is enough |
| Document query, `documents.py`, `generic_extraction.py` | rows of `job_attempts` | `query_document`, one retry | an answered query is on record once, numbered in its client's order |
| Audit, `documents.py` | reads only | `get_document_audit` | lists what was answered, in order |
| Invoice validation, `validation.py`, `schemas/invoice.py` | none | `validate_invoice`, `_try_parse_date` | what passes adds up, what adds up passes |
| Status and listing, `documents.py` | reads only | `get_document`, `list_documents` | only its owner finds a job, and always; paging misses none |
| Metrics, `metrics.py` | reads only | `render_prometheus_metrics` in several statements | its numbers drift by what was committed meanwhile at most |
| Authentication and error envelope, `deps.py`, `error_handlers.py` | rows of `api_keys`, never changed | `get_current_api_key`, `enforce_rate_limit` | each refusal has its status and code |
| Tables and migrations, LLM client, text extraction | | | see sections 3 and 8 |
| Logging, set-up, scripts | | | see section 8 |

Components meet in the shared tables, the object store and the queue; nobody
holds a lock across an await. The behaviours that are hard here:

- any two handlers and workers interleave at every await: cache look-up against
  a running job, one upload's save against another's read, a count against an
  insert;
- a process may die between two commits, and RQ kills a job after 180 s; no
  retry is configured, so what is committed stays as it is;
- exceptions outside the two `try` blocks of `run_extraction` leave the job where
  it was; those inside drop what the loop had recorded;
- a report is several statements, a list several requests, and every one of them sees
  another moment;
- time: requests reach the rate limiter's script in another order than they read
  the clock, rows are dated by the start of a transaction that lasts through LLM
  calls.

`PROJECT.json` lists these hazards with their lines and the properties that
would show them going wrong.

## 2. Modules

| Module | What it is |
|---|---|
| `JobLifecycle` | abstract: the life of a job as promised to its client |
| `Pipeline` | uploads, cache, store, queue, workers and tables; refines `JobLifecycle` |
| `PipelineInvariant` | the inductive invariant `IInv` of `Pipeline` |
| `PipelineProofs` | `IInv` is inductive; the safety properties follow |
| `PipelineRefinement` | `Pipeline` implements `JobLifecycle`, proved |
| `PipelineStory` | the audit trail and the texts of `Pipeline`: stronger invariants on top of `IInv`; that its worker is the one of `DocumentQuery`; proved |
| `PipelineSharing` | what uploads of the same file can do to each other, over the store and the cache, proved |
| `Reports` | status, listing and metrics, read while `Pipeline` goes on (EXTENDS it) |
| `ReportsProofs` | what readers are told, proved on top of `PipelineProofs` |
| `Meter` | abstract: a rate limit as its holder sees it |
| `RateLimiter` | the token bucket of one key under overlapping requests, with its `IInv`; refines `Meter` |
| `RateLimiterProofs` | its `IInv` is inductive; the safety properties and the refinement follow |
| `InvoiceRules` | the business rules as operators on invoices |
| `SelfCorrection` | the loop with its prompts, records and scores, over `InvoiceRules`; implements the loop of `Pipeline` |
| `SelfCorrectionProofs` | its invariants, what its verdicts mean for amounts and dates, and that refinement, proved |
| `DocumentQuery` | queries and audits of one job, while its worker writes |
| `DocumentQueryProofs` | its `TrailInv` is inductive; all its safety properties follow |
| `MC*` | symmetry and sample values for TLC |

### Pipeline

An upload request `u` is a record of its handler's pc and locals; the row it may
insert has a fresh uuid4, so `u` also names the job. A step is what happens
between two awaits:

| Action | Code |
|---|---|
| `Begin`, `Lookup`, `Clone` | `upload_document` up to the look-up; `_find_cache_hit`; `_clone_from_cache` (one transaction) |
| `Save`, `SaveWrite` | `storage.save`: one step on S3 (`AtomicPut`), truncate and write on the local store. That an S3 put is one step is assumed: no property is about it |
| `Insert`, `Enqueue` | the commit of the PENDING row; `enqueue` and the 202 |
| `Fail` | an exception (500) or the death of the API process at any of these |
| `Dequeue`, `Load`, `Read` | RQ pops an id; the EXTRACTING commit; `storage.read` |
| `ExtractText`, `ExtractRaises` | `extract_text` with the commit after it, or the first `except` |
| `CallLLM`, `LLMRaises` | one round of the loop, or the second `except` |
| `RecordAttempts`, `Finalize` | the VALIDATING commit with the audit rows; the last commit with fields and verdict |
| `Escape` | an exception outside the `try` blocks, RQ's timeout, the death of the work horse |

`jobs`, `results` and `audit` are the three tables; `store[f]` is "absent",
"whole" or the upload that emptied the object last; `rq` is what RQ itself knows;
`llm` counts completions. A file stands for its content and its digest: the
storage key is a function of the content. An LLM reply is an element of
`Answers` or does not parse; `Valid` is what `validate_invoice` accepts (fixed:
that a date stops being in the future overnight is left out). A call that
did its work and whose acknowledgement is lost is a failure at the next pc, or an
error instead of the answer when it was the last one (`Respond`, `Return`). `Faults`
says which mishaps an instance has.

Requests refused with 400, 401, 413, 422 or 429 change none of this state and are
left out.

### RateLimiter

`Read` is `time.time()`, `Eval` the Lua script with what `enforce_rate_limit`
makes of its result. Tokens are counted in shares of 1/`Minute` token so that the
refill of `Limit` tokens a minute is exact. `promise` and `win` observe: until
when a refused client was told to wait, and what was admitted since a quiet
moment; `win.back` sums the time by which scripts set `last_refill` back. The clock is that
of the API host most ahead; a host that is behind is a caller that is late, so that `Delay`
is latency and difference of clocks together.

`Meter` has no time of a last refill and nothing that expires: an account that every tick
refills. `KeepsMeter` maps what a call would find now, `Refilled(clock)`, to its credit and
the time since a call read its clock to the call's age. That Redis drops a key is then
invisible, and what a late call may gain or miss is bounded by its own age.

### InvoiceRules and SelfCorrection

`InvoiceRules` translates `validate_invoice` rule by rule. Amounts are in hundredths,
`NaN` is among them (`model_validate_json` accepts it), and of the line items only the
sum is kept. The code compares floats: whether two amounts exactly the tolerance apart
differ is up to rounding, so an invoice says in `above` for which comparisons they do,
and every property must hold either way. A date string is what each of the five formats
makes of it.

In `SelfCorrection` a reply parses to an invoice or has schema errors with location and
message. `Exchange` is the loop body with the return. Scores are in hundredths; a field
that is given no score is scored `None`. `ImplementsLoop` maps its state to the locals
that `Pipeline!Replied` works on (`Seen`) and says that every round is such a step: what
`Pipeline` abstracts from a reply, whether it parsed and passed, is all that the worker
uses.

### Reports

A reader asks one question: the status of a job, a list paged to its end, or a scrape
of the metrics. One action per statement, since each statement has a snapshot of its own
(`Tell`); between them any step of `Pipeline` may happen. `Place` is a job's position in
`ORDER BY created_at DESC`; `at`, which `Pipeline!Begin` sets when it authenticates the
caller, is that date, so that rows do not appear in the order of their dates. What a
question remembers from when it was asked (`told`, `had`) only serves the properties.

### DocumentQuery

One job, its worker reduced to the commits that these endpoints can see, and
overlapping `/query` and `/audit` requests. (`KeepsTrail` in `Pipeline` says that the
uploads, clones and workers there do nothing else to the trail of a job, so that what is
shown here of queries and audits holds beside the real worker.) A handler runs in one READ
COMMITTED
transaction that begins at authentication (`get_current_api_key` uses the same
session), and `created_at` is that transaction's `now()`; `at` models it.
`validation_errors` is null, a list or a lone object.

## 3. Runs

All runs take a few seconds to about two minutes. Deadlock checking is off
everywhere because every model really ends: all requests are answered, or the
clock is at its bound.

| Run | Instance | Shows |
|---|---|---|
| `pipeline_local` | 2 uploads, 2 workers, 2 keys, 2 files, 2 types, local store, 3 attempts, all faults | hand-off, verdict, `CacheProvenance` between types and files, audit story, who damages a text, `IInv`, settled jobs stay, refinement of `JobLifecycle` and of the worker of `DocumentQuery` |
| `pipeline_settles` | 2 uploads of one file, 2 workers, 2 types, local store, 2 attempts, all faults, fairness | `AcceptedSettles`, `KeepsFairLifecycle`, `QueueDrains`, `DoneIsReused` |
| `reports` | 3 uploads of one file by 2 keys, 1 worker, S3, 1 reader, pages of 1 and 2 | what readers are told; `CacheProvenance` with a clone of a clone |
| `rate_concurrent` | 2 requests in flight, a bucket that expires | `BudgetWithOverlap`, `ExpiryHarmless`, `PromiseKept`, `IInv`, refinement of `Meter` |
| `correction` | 21 replies, all sequences of up to three | prompts, outcome, scores, what a verdict says of the amounts, refinement of the loop |
| `query_trail` | 2 queries, 1 audit and the worker | one row per answered query; numbers and the audit follow the client's order; an audit shows a loop whole |

Why the bounds are enough. Two uploads are needed for a race on the cache or on
an object, two workers for a race on a job; three uploads let a hit be cloned
from a job that itself overlapped another. Two keys, files and types tell "same"
from "other" in every comparison of the code. Three attempts are `MAX_ATTEMPTS`
itself (`pipeline_settles` takes two: it has a first and a last, and checks nothing of
the rounds between). In `rate_concurrent` the clock runs
through an expiry (`Ttl` 6 of 11 ticks) with two requests overtaking each other,
and `Ttl >= Minute + Delay` stands for 120 s against a minute plus the latency of
a call. The replies of `SelfCorrection` have
invoices a cent inside, on and outside each tolerance, with and without subtotal, with
tax, discount and adjustment alone and together, NaN in a total and in a tax, dates that
read as past one way and as future another; and replies that do not parse, in a nested
place, in two places with one message, and in the document itself. In `reports` two
uploads by one key make a page of one followed by another, the third arrives from either
key in between, and a hit can be a clone. Safety is also proved for all values of the
constants (section 5).

Symmetry is used where the sets are compared for equality only, and in no run
with a liveness property.

### Where the texts and the code differ

Each of these runs ends in a counterexample to one sentence of the repository
(quoted in `PROJECT.json`, "findings").

| Run | Sentence | What happens |
|---|---|---|
| `audit_failed` | full audit trail of a job | the audit of a FAILED job raises: a lone object is stored where `AttemptDetail` wants a list |
| `audit_order` | attempts "in order" | overlapping queries are numbered by count, listed by start |
| `pipeline_given_up` | FAILED for infrastructure problems | storage or database errors leave the job EXTRACTING for good |
| `metrics_ratio` | "Fraction of DONE jobs" | cache hits committed between two statements: a ratio of 2 |
| `pipeline_lost_attempts` | "every LLM call + response" | an LLM error drops the earlier rounds |
| `rate_overlap` | a token bucket "entirely in Redis", overlapping requests cannot over-admit | the clock is read outside the script; time is refilled twice |

The size of the rate limiter's overrun is the latency times the refill rate for
each pair of calls that overtake each other: `BudgetWithOverlap`, which holds, and
which is `AdmittedWithinBudget` where no script runs late.

Smaller differences that the models show and no run is kept for:

- `README.md:7`, "never pay for the same document twice": overlapping uploads of an
  invoice both miss the cache (`Lookup` finds DONE jobs only); `DoneIsReused` says that it
  holds from the first DONE on.
- `documents.py:172-174`, identical bytes "already sitting" in the store: on the local
  store a re-save (same bytes, other type) empties the object in place first (`Save`).
- `documents.py:321`, "a single LLM call": a second one when the JSON comes back broken, as
  `README.md:158` says (`Complete`).
- `documents.py:325-326`, "Every call is recorded": a completion that raises leaves no
  row (`CompleteRaises`).
- `self_correction.py:47-49`, a retry says "exactly what was wrong": messages go
  without locations (`Messages`), and "Field required" is the same for two fields.
- `self_correction.py:51-53`, a reviewer sees "the model's closest attempt": the last
  one that parsed (`Parsed`).
- `documents.py:243-252`, `total` beside the items: it is counted in an earlier statement
  than the page. A client that stops when `offset + limit` reaches it, and not at a page
  that is not full, may miss its oldest job: one that arrives in between pushes it off
  the page (`CountTotal`, `ReadPage`).
- `self_correction.py:19-22`, "never being named" means higher confidence: an error at
  `line_items.0.amount` does not name `line_items` (`Implicates`).

Some are in the code only, outside the models:

- `extraction.py:8-10` speaks of a "PDF page's embedded text layer"; whether to OCR is
  decided for the whole document (line 46), so a document with one digital page has its
  scanned pages skipped.
- `documents.py:345` refuses a query for a job without text; the OCR of a blank document
  of two pages is a line break (`extraction.py:54`), which counts as text.
- `validation.py:53-64` compares line items with the total when there is no subtotal,
  whatever tax or discount the invoice states; that is why `AcceptedReconciles` asks for
  `Itemized`. NaN passes every comparison (`Numeric`).
- `middleware.py:17-19`: the summary line of a request is logged by the middleware, whose
  context has the `request_id` and not the `job_id` bound in the handler; when a handler
  raises, neither that line nor `X-Request-ID` is produced.

One more difference needs no model: `README.md:71` and `PROJECT_SPEC.md:29` say
that `GET /documents/{job_id}` returns the result, and no endpoint returns
`extracted_json` (`JobStatusResponse` has the status only). `JobLifecycle` therefore
speaks of the row of `job_results`, not of a response.

## 4. Fairness

`FairSpec` is weakly fair to a handler that has begun and to each worker's polling
and processing: awaited calls return or raise, and an RQ worker polls until it is
stopped. Nothing is fair to `Begin` (nobody has to send a request) or to faults.

All three liveness properties are checked with every fault at every step. An accepted
job may be left at a stage for good (the finding `pipeline_given_up`), but never
silently: `AcceptedSettles` says that it is settled or on RQ's list of failed jobs.
`KeepsFairLifecycle` is the same from the side of the abstract specification: a job
is `Lost` (RQ gave it up, or its upload failed between commit and enqueue), or
`JobLifecycle` is fair to it and its verdict comes. `QueueDrains` frees the queue of
every entry. They
assume that a worker whose work horse dies goes on, as RQ's parent process does;
`docker-compose.yml` sets no `restart:` policy, so if the parent dies too somebody
has to start it again. Redis has no volume there: a Redis that loses its memory
loses the queue, and is not modelled.

## 5. Proofs

The pipeline's theorems are checked by TLAPS for all finite sets of uploads and any
sets of workers, keys, files, types and answers, any `MaxAttempts >= 1`, both stores
and any faults, from the assumptions named in `Pipeline`: `SetAssumption`,
`FiniteAssumption` (the clock of `Begin` counts requests), `UploadAssumption` and
`NoneAssumption` (sentinels differ from values), `AttemptsAssumption`.

`PipelineProofs`:

- `Inductive`, `Invariance`: `IInv` is inductive and holds;
- `TypeCorrect`, `HandOffHolds`, `AcceptedIsTrackedHolds`, `VerdictIsEarnedHolds`,
  `CacheProvenanceHolds`: the invariants of that name hold;
- `SettledStaysSettledHolds`: the action property holds.

`PipelineRefinement`: `KeepsLifecycleHolds`, `Spec => Lifecycle!Spec`.

`PipelineStory`: `AuditTells` (`AuditTellsTheStory`) and `KeepsTrailHolds`: seen from
the trail of any one job, every step is one of `DocumentQuery`'s worker or invisible.

`PipelineSharing`: `DamagedByRivalHolds` and `DoneIsReusedHolds`.

Why a stronger invariant is needed: nothing in `run_extraction` checks the status
it finds, so that a settled job stays settled is a fact about who can hold its id.
`IInv` says it from all sides: a handler's pc says whether its row exists and what
RQ knows of it (`RequestOK`), RQ's record says what stages its row may be in and
who holds it (`RowOK`), a worker's pc says the stage of its job and what its locals
are worth (`WorkerOK`), queue entries are the jobs RQ calls queued, each once
(`QueueOK`), and no two workers hold one job (`Alone`). `VerdictIsEarned` and
`CacheProvenance` are inductive given these: a hit is DONE, a DONE job never changes,
so its clone stays a copy of a worker's result. The proof has one lemma per action
and, under it, a step per part of `IInv` that the action can disturb.

`AuditTellsTheStory` speaks of committed rows, which `RecordAttempts` writes a commit
before the verdict; `StoryInv` says of a worker what its `tries` are by
then (`TriesOK`: invalid but for the last, which is what `passed` says, and
`MaxAttempts` of them if it did not), and that the rows are its `tries` until `Finalize`
makes them the story of the verdict.

`KeepsTrail` maps a job to a `DocumentQuery` without queries and readers: its stages to
three phases, its rows with their outcomes as JSON. The proof needs the story: that the
trail is empty when a worker gives up or records, since clone, exception and loop write it
once, and that a hit has a text. The property is stated as one box over all jobs because TLC
does not check a conjunction of boxes under a quantifier.

`DamagedByRival` needs `SharedInv`: an object that upload `u` has emptied is still in `u`'s
hands and has no row yet, or `u` failed before it had one; so whoever reads a damaged object
for a job with a row reads one that a second upload of the file opened. `DoneIsReused` is a
box inside a box: `Spared`, together with what a handler's pc then may be, is shown to be
stable from any state in which a document is DONE and the upload has not begun, since DONE
rows stay (`SettledKept`) and every later look-up finds one.

The refinement maps a job to its status, document and, once published, its row of
`job_results`. `Insert` maps to `Accept`, `Clone` to `Reuse`, worker commits to
`Advance`, `GiveUp` and `Publish`; everything else is invisible. It uses `IInv` to
know that a hit is still DONE and that a job's stage is the one its worker thinks.

`RateLimiterProofs`, for any limit, any set of requests, any clock bound and any
units of time, from `RateAssumption` (the constants are naturals, the units
positive), `TtlAssumption` (a minute and the longest call fit into the 120 s of
`EXPIRE`) and `NeverAssumption` (the sentinel is no time):

- `TypeCorrect`, `OverlapBounded`, `ForgettingHarmless`: `TypeOK`,
  `BudgetWithOverlap` and `ExpiryHarmless` are invariants;
- `RetryAfterEnough`: `PromiseKept` holds of every step;
- `KeepsMeterHolds`: `Spec => KeepsMeter`, the bucket implements `Meter`.

Its `IInv` keeps accounts. `Balance`: tokens spent and tokens left are at most
capacity plus the refill up to `last` plus what was refilled twice; a script that
runs late moves `last` back by exactly what `win.back` grows. `PromiseOK`: by the
promised time the bucket will hold a token, which a refusal preserves whichever way
it moves `last`: forward, the time is refilled; back, it will be. `ExpiryHarmless`
needs only that a bucket expires `Ttl` after its last refill or later, and that
calls are at most `Delay` old. For the refinement, `CreditIsKept` says that a bucket Redis
forgot counts as what it would hold had it been kept, and `RefillGrows` that what two calls
find differs by at most the refill of the time between them, which is all that a verdict
about a late call can be wrong by. The solver takes products of variables as opaque, so `TimesMonotonic`,
`TimesSum`, `TimesNat` and `RoundedUp` state what is used of them.

`ReportsProofs`, for any number of readers, any page sizes, and the constants of
`Pipeline` with two more assumptions (`LimitAssumption`: a limit is positive;
`UnknownAssumption`: the unknown key is no key):

- `ReadsTypeCorrect`, `OwnerAloneFinds`, `PagingComplete`, `RepetitionsOwed`,
  `ScrapeDrifts`: `ReadsOK`, `OwnerAloneFindsJob`, `PagingMissesNothing`,
  `PagingRepeatsArrivals` and `ScrapeDrift` are invariants.

`AllInv` adds to `IInv` that dates tell requests apart and are copied into the rows
(`DatesOK`), and what each reader knows at each step (`ReadInv`). The argument for paging:
rows are never deleted and keep their dates, so a job's place in the list only grows; a
job the client had is listed already or its place is not before the next offset, and a
page that is not full ends behind every place there is (`Page` is shown to list exactly
the places from offset on). Repetitions are counted without an induction over the pages:
`RepeatInv` adds to those listed so far the jobs that are listed already and have been
`Pushed` behind the offset, where the next page will repeat them; an arrival pushes at most
one, and a page turns pushed jobs into repetitions.

`SelfCorrectionProofs`, for any set of replies (`RepliesAssumption`: they parse to an
`InvoiceFields` or have errors; `NumberAssumption`, `NoneAssumption`: sentinels differ
from values):

- `TypeCorrect`, `Reprompts`, `OutcomeMatches`, `Separation`: the properties of the loop;
- `Reconciled`, `RightAccepted`: what a verdict says about amounts and dates, for all
  integers, from lemmas on `validate_invoice`;
- `RoundsAreReplies`: `Spec => ImplementsLoop`.

`LoopInv` ties the loop's locals to its records: `previous` to the last record's
messages, `last_parsed` to the last one that parsed, `outcome` to the record that ended
the loop.

`DocumentQueryProofs`, for any number of queries and audits and any `MaxAttempts`, from
`QueryAssumption`: `TypeCorrect`, `AnsweredOnRecord`, `NumbersFollow`, `AuditFollows`,
`AuditsWhole`.
`TrailInv` says that a committed number is at most the count of the rows (so a later
count exceeds it), that each row is its query's only one and has its number and date,
and that a transaction's date is at most the time its query ended, which puts a client's
queries in the order of their dates. `WholeInv`, on top of it, says that there are no
rounds on record before the worker is over, that a query let through to the LLM has a text,
and that an audit reads that text after its transaction began; an order of the rows is a
permutation (`OrderPermutes`), which a whole loop survives.

## 6. Only model-checked

- Liveness (`AcceptedSettles`, `QueueDrains`, `KeepsFairLifecycle`): fairness is out of
  the prover's reach.
- The counterexamples of the violation runs.

No module uses a RECURSIVE operator.

## 7. Plan

Done: the pipeline with its abstract specification and refinement, its readers, the
rate limiter with its abstract meter, the loop with its rules, queries and audits, and
that their workers are one; all the invariants, action properties and refinements that the
runs check are proved. What could still be added:

1. Retry-After for a client whose requests are timed by hosts with different clocks.
2. The order of the records within one loop in an audit.

## 8. Not modelled

- Text extraction, OCR and file sniffing: pure functions in external libraries;
  their outcomes (text, blank text, an exception) are in the models.
- The LLM's behaviour beyond "any reply, or an exception"; the SDK's own retries
  are part of one call.
- The admin's endpoint and the script that issue API keys: rows of `api_keys` are
  inserted and looked up, never changed. Which keys exist is a constant.
- Of the error envelope, what is made of framework errors and validation errors; of the
  metrics, the average processing time and the statuses other than DONE; of invoice
  errors, the amounts in their messages.
- Logging, configuration, migrations, scripts: no state that interleaves.
- Clocks that differ between hosts beyond what `Delay` allows, rounding of floats in the rate limiter's script,
  loss of Redis' memory; two uploads dated by the same microsecond, which a list may
  show in either order from page to page.
