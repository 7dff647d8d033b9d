--------------------------- MODULE SelfCorrection ---------------------------
(***************************************************************************)
(* The self-correction loop for invoices: run_invoice_self_correction      *)
(* (app/services/self_correction.py) over extract_invoice_fields           *)
(* (app/services/ai_extraction.py) and the rules of InvoiceRules.  It      *)
(* keeps its prompts, its records and its confidence scores, these in      *)
(* hundredths.  Pipeline!CallLLM sees of a round only whether the reply    *)
(* parsed and passed; ImplementsLoop says that the two agree.              *)
(***************************************************************************)
EXTENDS InvoiceRules, Sequences, FiniteSets

CONSTANT Replies  \* what the LLM may reply, a set of Reply

RequiredFields == {"invoice_number", "date", "vendor", "line_items", "total"}
OptionalFields == {"subtotal", "tax_amount", "discount_amount", "adjustment_amount"}
FieldNames == RequiredFields \cup OptionalFields

\* An error: where it is, as the parts of Pydantic's loc, and its message.
Problem == [loc : Seq(STRING), message : STRING]

\* A reply parses as InvoiceFields or has schema errors.
IsReply(r) ==
    IF r.parsed THEN r.invoice \in InvoiceFields /\ r.problems = {}
    ELSE r.invoice = None /\ r.problems # {} /\ r.problems \subseteq Problem

ASSUME RepliesAssumption == \A r \in Replies : IsReply(r)

\* What the loop returns: InvoiceExtractionOutcome without its attempts.  A
\* name the code gives no score is scored None.
Scores == [FieldNames -> 0 .. 100 \cup {None}]
Outcome == [fields : Replies \cup {None}, needs_review : BOOLEAN, scores : Scores]

ASSUME NoneAssumption == None \notin Replies \cup Outcome

VARIABLES
    attempts,     \* AttemptRecords: what was asked and what came back
    previous,     \* previous_errors, the messages to re-prompt with
    implicated,   \* implicated_fields, as locations
    last_parsed,  \* last_parsed
    outcome       \* the InvoiceExtractionOutcome, or None while the loop runs

vars == <<attempts, previous, implicated, last_parsed, outcome>>

MAX_ATTEMPTS == 3

Init ==
    /\ attempts = <<>> /\ previous = {} /\ implicated = {}
    /\ last_parsed = None /\ outcome = None

-----------------------------------------------------------------------------
(* _score_confidence. *)

ConfidenceByAttempt == <<95, 75, 55>>
NeedsReviewConfidence == 30

\* round(base * 0.6, 2), in hundredths: no product is halfway.
Penalized(base) == (base * 6 + 5) \div 10

\* The penalty on a review is forgotten and the base is the last attempt's.
MutBase(n, needs_review) == ConfidenceByAttempt[n]

Base(n, needs_review) ==
    IF needs_review THEN NeedsReviewConfidence ELSE ConfidenceByAttempt[n]

\* `name in implicated_fields`: an error implicates the field whose name is
\* its whole location.
Implicates(locs, name) == <<name>> \in locs

\* The optional fields that the reply fills in.
Present(invoice) == {name \in OptionalFields : invoice[name] # None}

Score(n, needs_review, locs, fields) ==
    LET base == Base(n, needs_review) IN
      [name \in FieldNames |->
         CASE name \notin RequiredFields \cup Present(fields.invoice) -> None
           [] Implicates(locs, name) -> Penalized(base)
           [] OTHER                  -> base]
Unscored == [name \in FieldNames |-> None]

-----------------------------------------------------------------------------

\* The errors of a round.
Errors(reply) == IF reply.parsed THEN validate_invoice(reply.invoice) ELSE reply.problems

Locs(errors) == {e.loc : e \in errors}

\* previous_errors collects the messages of every attempt so far.
MutMessages(errors) == previous \cup {e.message : e \in errors}

Messages(errors) == {e.message : e \in errors}

\* Whatever came back is kept.
MutKeepsAny(reply) == reply

\* The parse of an earlier round survives when a later one passes.
MutParsed(reply) == IF last_parsed = None /\ reply.parsed THEN reply ELSE last_parsed

Parsed(reply) == IF reply.parsed THEN reply ELSE last_parsed

\* One round: prompt with the previous errors, record the reply, and return
\* when it has no error or was the last one allowed.
Exchange(reply) ==
    LET n == Len(attempts) + 1
        errors == Errors(reply)
        record == [prompt |-> previous, reply |-> reply, errors |-> errors]
    IN /\ attempts' = Append(attempts, record)
       /\ last_parsed' = Parsed(reply)
       /\ IF errors = {}
            THEN /\ outcome' = [fields |-> last_parsed', needs_review |-> FALSE,
                                scores |-> Score(n, FALSE, implicated, last_parsed')]
                 /\ UNCHANGED <<previous, implicated>>
            ELSE /\ previous' = Messages(errors)
                 /\ implicated' = implicated \cup Locs(errors)
                 /\ outcome' =
                      IF n < MAX_ATTEMPTS THEN None
                      ELSE [fields |-> last_parsed', needs_review |-> TRUE,
                            scores |-> IF last_parsed' = None THEN Unscored
                                       ELSE Score(n, TRUE, implicated', last_parsed')]

Round == outcome = None /\ \E reply \in Replies : Exchange(reply)

Spec == Init /\ [][Round]_vars

-----------------------------------------------------------------------------

Returned == outcome # None

\* The loop stays within MAX_ATTEMPTS rounds, keeps only what parsed, and its
\* scores are between 0 and 1.
TypeOK ==
    /\ Len(attempts) <= MAX_ATTEMPTS
    /\ \A i \in DOMAIN attempts : attempts[i].reply \in Replies
    /\ last_parsed \in {r \in Replies : r.parsed} \cup {None}
    /\ outcome \in Outcome \cup {None}

\* A re-prompt carries the problems of the attempt before it, all of them and
\* no older one, and the first prompt none (self_correction.py:44-49).
RepromptsWithLastErrors ==
    \A i \in DOMAIN attempts :
       attempts[i].prompt = IF i = 1 THEN {}
                            ELSE {e.message : e \in attempts[i - 1].errors}

\* What is returned as correct is the reply of the last round, it has no error
\* and every reply before it had one; what needs review never had one without,
\* and shows the last reply that parsed, if any did (self_correction.py:60-107).
OutcomeMatchesRecords ==
    Returned =>
       LET n == Len(attempts)
           Clean(i) == attempts[i].errors = {}
       IN /\ outcome.needs_review = ~Clean(n)
          /\ \A i \in 1 .. n - 1 : ~Clean(i)
          /\ outcome.needs_review => n = MAX_ATTEMPTS
          /\ ~outcome.needs_review => outcome.fields = attempts[n].reply
          /\ IF \A i \in 1 .. n : ~attempts[i].reply.parsed
               THEN outcome.fields = None
               ELSE \E i \in 1 .. n : /\ attempts[i].reply.parsed
                                      /\ outcome.fields = attempts[i].reply
                                      /\ \A k \in i + 1 .. n : ~attempts[k].reply.parsed

\* Scores of an accepted invoice are above those of any invoice that needs
\* review, penalties included, so that a threshold can tell them apart; and a
\* field named by an error never scores more than one that was not.
ScoresSeparateVerdicts ==
    Returned =>
       LET Scored == {f \in FieldNames : outcome.scores[f] # None} IN
         /\ \A f \in Scored :
               IF outcome.needs_review
                 THEN outcome.scores[f] <= NeedsReviewConfidence
                 ELSE outcome.scores[f] > NeedsReviewConfidence
         /\ \A f, g \in Scored :
               <<f>> \in implicated /\ <<g>> \notin implicated
               => outcome.scores[f] < outcome.scores[g]

\* In an invoice accepted as correct the line items account for the total, to
\* the cent, or within 1.01 when a subtotal stands in between; its date is past
\* in one of the readings.  Not so for amounts that are no numbers, or when tax
\* or discount come without a subtotal (validation.py:34-73).
AcceptedReconciles ==
    Returned /\ ~outcome.needs_review =>
       LET i == outcome.fields.invoice IN
         /\ PastDate(i)
         /\ Numeric(i) /\ Itemized(i) =>
              Reconciles(i, IF i.subtotal = None THEN 1 ELSE 101)

\* A reply that leaves nothing to object to: its amounts add up exactly, its
\* date is past in every way it can be read.
Right(reply) ==
    /\ reply.parsed
    /\ LET i == reply.invoice IN
         /\ Numeric(i) /\ Itemized(i) /\ Reconciles(i, 0)
         /\ i.subtotal \in {None, i.items}
         /\ PastDate(i) /\ \A f \in Formats : i.date[f] # "future"

\* The first such reply ends the loop, and no invoice is sent to review that was
\* right once: not after any number of bad rounds, whatever fields are left out.
RightIsAccepted ==
    \A k \in DOMAIN attempts : Right(attempts[k].reply) =>
       Returned /\ ~outcome.needs_review /\ outcome.fields = attempts[k].reply

-----------------------------------------------------------------------------
(* The loop as the worker sees it. *)

Passing == {r \in Replies : r.parsed /\ validate_invoice(r.invoice) = {}}

\* Of Pipeline only Replied is meant here, which no variable occurs in.
Loop == INSTANCE Pipeline WITH
    Answers <- {r \in Replies : r.parsed}, Valid <- Passing, MaxAttempts <- MAX_ATTEMPTS,
    Uploads <- {}, Workers <- {}, Keys <- {}, Files <- {}, Types <- {"invoice"},
    Invoice <- "invoice", AtomicPut <- TRUE, Faults <- {},
    req <- None, jobs <- None, results <- None, audit <- None, store <- None,
    queue <- None, rq <- None, wk <- None, llm <- None

\* The locals of run_extraction's call of the loop.
Seen == [pc |-> IF Returned THEN "validating" ELSE "ai", job |-> None, data |-> "whole",
         tries |-> [k \in DOMAIN attempts |->
                      IF attempts[k].errors = {} THEN "valid" ELSE "invalid"],
         kept |-> last_parsed,
         passed |-> Returned /\ ~outcome.needs_review]

\* Every round is the step that Pipeline!CallLLM takes for it: same number of
\* rounds, same verdict, same fields kept (tasks.py:87-133 uses only these).
ImplementsLoop ==
    [][\E a \in {r \in Replies : r.parsed} \cup {None} : Seen' = Loop!Replied(Seen, a)]_vars
=============================================================================
