---------------------------- MODULE DocumentQuery ----------------------------
(***************************************************************************)
(* POST /documents/{id}/query and GET /documents/{id}/audit on one job     *)
(* (app/api/v1/documents.py, app/services/generic_extraction.py), while    *)
(* its worker is still writing to the same audit trail.  Requests overlap: *)
(* a handler runs in one READ COMMITTED transaction that begins with the   *)
(* look-up of its API key and lasts through its LLM calls, and every row   *)
(* it inserts is dated by the beginning of that transaction (now()).       *)
(***************************************************************************)
EXTENDS Naturals, Sequences, FiniteSets

CONSTANTS Queries,      \* query requests for the job
          Readers,      \* audit requests for the job
          MaxAttempts,  \* self_correction.MAX_ATTEMPTS
          Nobody        \* the author of the rows that no query wrote

ASSUME QueryAssumption == MaxAttempts \in Nat \ {0} /\ Nobody \notin Queries

VARIABLES
    now,    \* transactions begun so far; a transaction's number is its now()
    phase,  \* how far run_extraction is: "extract", "ai", "over"
    text,   \* job_results.raw_text of the job
    rows,   \* its rows in job_attempts, in the order they were committed
    ask,    \* ask[q]: the handler of query q
    view    \* view[r]: the handler of audit request r

vars == <<now, phase, text, rows, ask, view>>

\* errors is the JSON of validation_errors: null, a list of objects (what
\* AttemptDetail declares) or a lone object (what run_extraction stores when
\* it catches an exception).
Row == [stage : {"EXTRACTING", "EXTRACTING_AI", "CUSTOM_QUERY"}, number : Nat \ {0},
        errors : {"null", "list", "object"}, at : Nat, by : Queries \cup {Nobody}]

Ask == [pc : {"idle", "check", "first", "retry", "count", "insert", "committed",
              "answered", "refused", "error"},
        at : Nat, calls : 0 .. 2, parsed : BOOLEAN, number : Nat, end : Nat]
View == [pc : {"idle", "text", "rows", "listed", "error"}, at : Nat,
         text : {"none", "empty", "text"}, list : Seq(Row)]

Init ==
    /\ now = 0 /\ phase = "extract" /\ text = "none" /\ rows = <<>>
    /\ ask = [q \in Queries |-> [pc |-> "idle", at |-> 0, calls |-> 0, parsed |-> FALSE,
                                 number |-> 0, end |-> 0]]
    /\ view = [r \in Readers |-> [pc |-> "idle", at |-> 0, text |-> "none", list |-> <<>>]]

-----------------------------------------------------------------------------
(* The worker of the job, as far as these requests can tell (run_extraction). *)

\* The commit after extract_text: the text, which may be blank, is visible;
\* an invoice goes on to the LLM.
ExtractText ==
    /\ phase = "extract"
    /\ text' \in {"empty", "text"}
    /\ phase' \in {"ai", "over"}
    /\ UNCHANGED <<now, rows, ask, view>>

\* Every row of the loop numbered like the lone row of an except block.
MutWorkerRow(stage, number, errors) ==
    [stage |-> stage, number |-> 1, errors |-> errors, at |-> now + 1, by |-> Nobody]

WorkerRow(stage, number, errors) ==
    [stage |-> stage, number |-> number, errors |-> errors, at |-> now + 1, by |-> Nobody]

\* Either except block: a lone row whose validation_errors is an object.
GiveUp ==
    /\ phase # "over"
    /\ rows' = Append(rows, WorkerRow(IF phase = "ai" THEN "EXTRACTING_AI" ELSE "EXTRACTING",
                                      1, "object"))
    /\ now' = now + 1 /\ phase' = "over"
    /\ UNCHANGED <<text, ask, view>>

\* The VALIDATING commit: the rows of the self-correction loop at once.
RecordAttempts ==
    /\ phase = "ai"
    /\ \E n \in 1 .. MaxAttempts, last \in {"null", "list"} :
         /\ n < MaxAttempts => last = "null"
         /\ rows' = rows \o [i \in 1 .. n |-> WorkerRow("EXTRACTING_AI", i,
                                                        IF i < n THEN "list" ELSE last)]
    /\ now' = now + 1 /\ phase' = "over"
    /\ UNCHANGED <<text, ask, view>>

-----------------------------------------------------------------------------
(* query_document. *)

QueryRows == {i \in DOMAIN rows : rows[i].stage = "CUSTOM_QUERY"}

\* Authentication begins the transaction that will date the row.
Begin(q) ==
    /\ ask[q].pc = "idle"
    /\ ask' = [ask EXCEPT ![q].pc = "check", ![q].at = now + 1]
    /\ now' = now + 1
    /\ UNCHANGED <<phase, text, rows, view>>

\* db.get(JobResult): 409 unless there is some text.
CheckText(q) ==
    /\ ask[q].pc = "check"
    /\ ask' = [ask EXCEPT ![q].pc = IF text = "text" THEN "first" ELSE "refused"]
    /\ UNCHANGED <<now, phase, text, rows, view>>

\* Retries until a reply parses.
MutComplete(q) ==
    /\ ask[q].pc \in {"first", "retry"}
    /\ \E ok \in BOOLEAN :
         ask' = [ask EXCEPT ![q].calls = @ + 1, ![q].parsed = ok,
                            ![q].pc = IF ok THEN "count" ELSE "retry"]
    /\ UNCHANGED <<now, phase, text, rows, view>>

\* One completion and _try_parse: whatever comes back a second time is final.
Complete(q) ==
    /\ ask[q].pc \in {"first", "retry"}
    /\ \E ok \in BOOLEAN :
         ask' = [ask EXCEPT ![q].calls = @ + 1, ![q].parsed = ok,
                            ![q].pc = IF ok \/ @ = "retry" THEN "count" ELSE "retry"]
    /\ UNCHANGED <<now, phase, text, rows, view>>

\* The completion raises: nothing in the handler catches it.
CompleteRaises(q) ==
    /\ ask[q].pc \in {"first", "retry"}
    /\ ask' = [ask EXCEPT ![q].calls = @ + 1, ![q].pc = "error"]
    /\ UNCHANGED <<now, phase, text, rows, view>>

\* SELECT count(*) that skips the queries whose answer did not parse.
MutPrior == Cardinality({i \in QueryRows : rows[i].errors = "null"})

\* SELECT count(*): the query rows that are committed.
Prior == Cardinality(QueryRows)

CountPrior(q) ==
    /\ ask[q].pc = "count"
    /\ ask' = [ask EXCEPT ![q].number = Prior + 1, ![q].pc = "insert"]
    /\ UNCHANGED <<now, phase, text, rows, view>>

\* Only an answer that parsed is recorded.
MutInsert(q) ==
    /\ ask[q].pc = "insert"
    /\ rows' = IF ask[q].parsed
                 THEN Append(rows, [stage |-> "CUSTOM_QUERY", number |-> ask[q].number,
                                    errors |-> "null", at |-> ask[q].at, by |-> q])
                 ELSE rows
    /\ ask' = [ask EXCEPT ![q].pc = "committed"]
    /\ UNCHANGED <<now, phase, text, view>>

\* db.add and the commit.
Insert(q) ==
    /\ ask[q].pc = "insert"
    /\ rows' = Append(rows, [stage |-> "CUSTOM_QUERY", number |-> ask[q].number,
                             errors |-> IF ask[q].parsed THEN "null" ELSE "list",
                             at |-> ask[q].at, by |-> q])
    /\ ask' = [ask EXCEPT ![q].pc = "committed"]
    /\ UNCHANGED <<now, phase, text, view>>

\* 200, also when nothing parsed: the result is then an empty object.
Answer(q) ==
    /\ ask[q].pc = "committed"
    /\ ask' = [ask EXCEPT ![q].pc = "answered", ![q].end = now]
    /\ UNCHANGED <<now, phase, text, rows, view>>

\* The database raises, or the process dies (after the commit: unnoticed).
FailQuery(q) ==
    /\ ask[q].pc \in {"check", "first", "retry", "count", "insert", "committed"}
    /\ ask' = [ask EXCEPT ![q].pc = "error"]
    /\ UNCHANGED <<now, phase, text, rows, view>>

-----------------------------------------------------------------------------
(* get_document_audit. *)

BeginAudit(r) ==
    /\ view[r].pc = "idle"
    /\ view' = [view EXCEPT ![r].pc = "text", ![r].at = now + 1]
    /\ now' = now + 1
    /\ UNCHANGED <<phase, text, rows, ask>>

ReadText(r) ==
    /\ view[r].pc = "text"
    /\ view' = [view EXCEPT ![r].text = text, ![r].pc = "rows"]
    /\ UNCHANGED <<now, phase, text, rows, ask>>

Shuffled(s, p) == [i \in DOMAIN s |-> s[p[i]]]
Shuffles(s) == {p \in [DOMAIN s -> DOMAIN s] : \A i, k \in DOMAIN s : p[i] = p[k] => i = k}

\* No ORDER BY.
MutOrders(s) == {Shuffled(s, p) : p \in Shuffles(s)}

\* ORDER BY created_at: rows of one transaction tie, in any order.
Orders(s) == {Shuffled(s, p) : p \in
                {p \in Shuffles(s) :
                   \A i, k \in DOMAIN s : i < k => s[p[i]].at <= s[p[k]].at}}

\* The rows are put into AttemptDetails: an object where a list is declared
\* raises, and the answer is 500.
ListRows(r) ==
    /\ view[r].pc = "rows"
    /\ IF \E i \in DOMAIN rows : rows[i].errors = "object"
         THEN view' = [view EXCEPT ![r].pc = "error"]
         ELSE \E list \in Orders(rows) :
                view' = [view EXCEPT ![r].pc = "listed", ![r].list = list]
    /\ UNCHANGED <<now, phase, text, rows, ask>>

-----------------------------------------------------------------------------

Worker == ExtractText \/ GiveUp \/ RecordAttempts

Handle(q) == \/ Begin(q) \/ CheckText(q) \/ Complete(q) \/ CompleteRaises(q)
             \/ CountPrior(q) \/ Insert(q) \/ Answer(q) \/ FailQuery(q)

Show(r) == BeginAudit(r) \/ ReadText(r) \/ ListRows(r)

Next == Worker \/ (\E q \in Queries : Handle(q)) \/ (\E r \in Readers : Show(r))

Spec == Init /\ [][Next]_vars

-----------------------------------------------------------------------------

\* Every variable keeps its shape; a query costs at most two completions.
TypeOK ==
    /\ now \in Nat /\ phase \in {"extract", "ai", "over"}
    /\ text \in {"none", "empty", "text"}
    /\ rows \in Seq(Row)
    /\ ask \in [Queries -> Ask]
    /\ view \in [Readers -> View]

RowsOf(s, q) == {i \in DOMAIN s : s[i].by = q}
Before(a, b) == ask[a].pc = "answered" /\ ask[a].end < ask[b].at

\* A query that was answered left exactly one row, with the number it counted
\* and whether its last reply parsed; a refused one left none and cost nothing;
\* whatever fails, nobody leaves two (documents.py:344-383).
AnsweredIsRecorded ==
    \A q \in Queries :
       LET mine == RowsOf(rows, q) IN
         /\ Cardinality(mine) <= 1
         /\ ask[q].pc = "refused" => mine = {} /\ ask[q].calls = 0
         /\ ask[q].pc = "answered" =>
              \E i \in mine : /\ rows[i].number = ask[q].number
                              /\ rows[i].errors = "null" <=> ask[q].parsed

\* A client that waits for each answer sees its queries numbered upwards, other
\* clients' queries, failures and the worker notwithstanding
\* (documents.py:362-371; two tests count rows, none with a second client).
NumbersFollowClient ==
    \A a, b \in Queries : Before(a, b) /\ ask[b].number # 0 => ask[a].number < ask[b].number

\* An audit that answers lists every query answered before it was asked for, a
\* client's earlier query above its later one (documents.py:294-297 orders by
\* the time a transaction began, not by the time it committed).
AuditFollowsClient ==
    \A r \in Readers : view[r].pc = "listed" =>
       LET list == view[r].list IN
         /\ \A a \in Queries : ask[a].pc = "answered" /\ ask[a].end < view[r].at
                                 => RowsOf(list, a) # {}
         /\ \A a, b \in Queries : Before(a, b) =>
              \A i \in RowsOf(list, a), k \in RowsOf(list, b) : i < k

\* The rounds of one correction loop, each once: all rejected but the last,
\* which is accepted unless no further round was left.
WholeLoop(s) ==
    LET loop == {i \in DOMAIN s : s[i].stage = "EXTRACTING_AI"} IN
      loop # {} =>
        \E n \in 1 .. MaxAttempts :
          /\ {s[i].number : i \in loop} = 1 .. n
          /\ \A i, k \in loop : s[i].number = s[k].number => i = k
          /\ \A i \in loop : IF s[i].number < n THEN s[i].errors = "list"
                            ELSE s[i].errors = "null" \/ n = MaxAttempts

\* Although its text and its rows are read at two moments, between which worker
\* and queries go on, an audit shows the whole of a correction loop or nothing
\* of it, and never comes without the text that a query answered before it was
\* about (documents.py:292-297; tasks.py:103-126 commits the rounds at once).
AuditIsWhole ==
    \A r \in Readers : view[r].pc = "listed" =>
       /\ WholeLoop(view[r].list)
       /\ (\E q \in Queries : ask[q].pc = "answered" /\ ask[q].end < view[r].at)
            => view[r].text = "text"

-----------------------------------------------------------------------------
(* What the repository's texts say and the code does not do. *)

\* documents.py:278-286 and README.md:72: the audit endpoint returns the full
\* trail of any of the caller's jobs; it declares 401, 404 and 429 and nothing
\* else, so a job that exists is never answered with an error (here, no
\* database failure is modelled for it).
AuditAnswers == \A r \in Readers : view[r].pc # "error"

\* documents.py:282-284: every attempt is returned "in order"; here for the
\* attempt_number of the query rows alone.
AuditInOrder ==
    \A r \in Readers :
       LET list == SelectSeq(view[r].list, LAMBDA row : row.stage = "CUSTOM_QUERY") IN
         \A i, k \in DOMAIN list : i < k => list[i].number < list[k].number
=============================================================================
