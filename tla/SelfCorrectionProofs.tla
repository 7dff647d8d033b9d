------------------------ MODULE SelfCorrectionProofs ------------------------
(***************************************************************************)
(* Proofs about SelfCorrection: what the business rules guarantee of an    *)
(* invoice they have no objection to, and what the loop returns, whatever  *)
(* the LLM may reply.                                                      *)
(***************************************************************************)
EXTENDS SelfCorrection, TLAPS

-----------------------------------------------------------------------------
(* The business rules. *)

LEMMA DifferBounds ==
    ASSUME NEW x \in Int, NEW y \in Int, NEW t \in Nat, NEW above,
           ~Differ(x, y, t, above)
    PROVE  Distance(x, y) <= t
BY DEF Differ, Distance

LEMMA EqualDoNotDiffer ==
    ASSUME NEW x \in Int, NEW y, x = y, NEW t \in Nat \ {0}, NEW above
    PROVE  ~Differ(x, y, t, above)
BY DEF Differ, Distance

LEMMA AmountsOf ==
    ASSUME NEW i \in InvoiceFields
    PROVE  /\ i.items \in Amount /\ i.total \in Amount /\ i.subtotal \in OptionalAmount
           /\ OrZero(i.tax_amount) \in Amount /\ OrZero(i.discount_amount) \in Amount
           /\ OrZero(i.adjustment_amount) \in Amount
           /\ i.date \in Date
BY NumberAssumption DEF InvoiceFields, OrZero, Amount, OptionalAmount

LEMMA NumericExpectedTotal ==
    ASSUME NEW i \in InvoiceFields, Numeric(i), i.subtotal # None
    PROVE  /\ i.subtotal \in Int
           /\ ExpectedTotal(i) = i.subtotal + OrZero(i.tax_amount) - OrZero(i.discount_amount)
                                 + OrZero(i.adjustment_amount)
<1>1. /\ i.subtotal \in Int /\ OrZero(i.tax_amount) \in Int
      /\ OrZero(i.discount_amount) \in Int /\ OrZero(i.adjustment_amount) \in Int
  BY DEF Numeric, OrZero
<1>2. i.subtotal # NaN /\ OrZero(i.tax_amount) # NaN /\ OrZero(i.discount_amount) # NaN
      /\ OrZero(i.adjustment_amount) # NaN
  BY <1>1, NumberAssumption
<1> QED
  BY <1>1, <1>2 DEF ExpectedTotal

LEMMA FirstReading ==
    ASSUME NEW d \in Date
    PROVE  /\ TryParseDate(d) = "past" => \E f \in Formats : d[f] = "past"
           /\ (\E f \in Formats : d[f] = "past") /\ (\A f \in Formats : d[f] # "future")
                => TryParseDate(d) = "past"
           /\ TryParseDate(d) \in {None, "past", "future"}
<1> DEFINE First(f) == d[f] # "unreadable" /\ \A g \in 1 .. f - 1 : d[g] = "unreadable"
<1>1. CASE \A f \in Formats : d[f] = "unreadable"
  <2>1. TryParseDate(d) = None
    BY <1>1 DEF TryParseDate
  <2> QED
    BY <1>1, <2>1, NumberAssumption
<1>2. CASE \E f \in Formats : d[f] # "unreadable"
  <2>1. \E f \in Formats : First(f)
    BY <1>2 DEF Formats
  <2>2. PICK f \in Formats : f = CHOOSE g \in Formats : First(g)
    BY <2>1
  <2>3. First(f)
    BY <2>1, <2>2
  <2>4. TryParseDate(d) = d[f]
    BY <1>2, <2>2 DEF TryParseDate
  <2>5. d[f] \in {"past", "future"}
    BY <2>3 DEF Date
  <2> QED
    BY <2>4, <2>5
<1> QED
  BY <1>1, <1>2

\* What the rules guarantee of an invoice they have no objection to.
LEMMA RulesSound ==
    ASSUME NEW i \in InvoiceFields, validate_invoice(i) = {}
    PROVE  /\ PastDate(i)
           /\ Numeric(i) /\ Itemized(i) =>
                Reconciles(i, IF i.subtotal = None THEN 1 ELSE 101)
<1>1. PastDate(i)
  <2>1. DateErrors(i) = {}
    BY DEF validate_invoice
  <2>2. TryParseDate(i.date) = "past"
    BY <2>1, AmountsOf, FirstReading, NumberAssumption DEF DateErrors
  <2> QED
    BY <2>2, AmountsOf, FirstReading DEF PastDate
<1>2. ASSUME Numeric(i), Itemized(i)
      PROVE  Reconciles(i, IF i.subtotal = None THEN 1 ELSE 101)
  <2>1. /\ i.items \in Int /\ i.total \in Int /\ OrZero(i.tax_amount) \in Int
        /\ OrZero(i.discount_amount) \in Int /\ OrZero(i.adjustment_amount) \in Int
    BY <1>2 DEF Numeric
  <2>2. CASE i.subtotal = None
    <3>1. ~Differ(i.items, i.total, 1, "items" \in i.above)
      BY <2>2 DEF validate_invoice, ItemErrors, AMOUNT_TOLERANCE
    <3>2. Distance(i.items, i.total) <= 1
      BY <2>1, <3>1, DifferBounds
    <3>3. ItemsToTotal(i) = i.items
      BY <1>2, <2>2 DEF Itemized
    <3> QED
      BY <2>2, <3>2, <3>3 DEF Reconciles
  <2>3. CASE i.subtotal # None
    <3>1. /\ ~Differ(i.items, i.subtotal, 1, "items" \in i.above)
          /\ ~Differ(ExpectedTotal(i), i.total, 100, "total" \in i.above)
      BY <2>3 DEF validate_invoice, SubtotalErrors, TotalErrors, AMOUNT_TOLERANCE,
                  TOTAL_TOLERANCE
    <3>2. /\ i.subtotal \in Int
          /\ ExpectedTotal(i) = i.subtotal + OrZero(i.tax_amount)
                 - OrZero(i.discount_amount) + OrZero(i.adjustment_amount)
      BY <1>2, <2>3, NumericExpectedTotal
    <3>3. Distance(i.items, i.subtotal) <= 1
      BY <2>1, <3>1, <3>2, DifferBounds
    <3>4. ExpectedTotal(i) \in Int
      BY <2>1, <3>2
    <3>5. Distance(ExpectedTotal(i), i.total) <= 100
      BY <2>1, <3>1, <3>4, DifferBounds
    <3>6. Distance(ItemsToTotal(i), i.total) <= 101
      BY <2>1, <3>2, <3>3, <3>5 DEF Distance, ItemsToTotal
    <3> QED
      BY <2>3, <3>6 DEF Reconciles
  <2> QED
    BY <2>2, <2>3
<1> QED
  BY <1>1, <1>2

LEMMA RightPasses ==
    ASSUME NEW r \in Replies, Right(r)
    PROVE  Errors(r) = {}
<1> DEFINE i == r.invoice
<1>1. i \in InvoiceFields
  BY RepliesAssumption DEF Right, IsReply
<1>2. DateErrors(i) = {}
  <2>1. TryParseDate(i.date) = "past"
    BY <1>1, AmountsOf, FirstReading DEF Right, PastDate
  <2> QED
    BY <2>1, NumberAssumption DEF DateErrors
<1>3. /\ i.items \in Int /\ i.total \in Int /\ OrZero(i.tax_amount) \in Int
      /\ OrZero(i.discount_amount) \in Int /\ OrZero(i.adjustment_amount) \in Int
  BY DEF Right, Numeric
<1>4. ItemsToTotal(i) = i.total
  <2>1. Distance(ItemsToTotal(i), i.total) <= 0
    BY DEF Right, Reconciles
  <2>2. ItemsToTotal(i) \in Int
    BY <1>3 DEF ItemsToTotal
  <2> QED
    BY <1>3, <2>1, <2>2 DEF Distance
<1>5. CASE i.subtotal = None
  <2>1. i.items = i.total
    BY <1>4, <1>5 DEF Right, Itemized
  <2>2. ItemErrors(i) = {}
    BY <1>3, <2>1, EqualDoNotDiffer DEF ItemErrors, AMOUNT_TOLERANCE
  <2> QED
    BY <1>2, <1>5, <2>2 DEF validate_invoice, Errors, Right
<1>6. CASE i.subtotal # None
  <2>1. i.subtotal = i.items
    BY <1>6 DEF Right
  <2>2. ExpectedTotal(i) = i.total
    BY <1>1, <1>4, <1>6, <2>1, NumericExpectedTotal DEF Right, ItemsToTotal
  <2>3. SubtotalErrors(i) = {}
    BY <1>3, <2>1, EqualDoNotDiffer DEF SubtotalErrors, AMOUNT_TOLERANCE
  <2>4. TotalErrors(i) = {}
    BY <1>3, <2>2, EqualDoNotDiffer DEF TotalErrors, TOTAL_TOLERANCE
  <2> QED
    BY <1>2, <1>6, <2>3, <2>4 DEF validate_invoice, Errors, Right
<1> QED
  BY <1>5, <1>6

-----------------------------------------------------------------------------
(* The loop. *)

Problems == UNION {Errors(r) : r \in Replies}
Record == [prompt : SUBSET {e.message : e \in Problems}, reply : Replies,
           errors : SUBSET Problems]

\* last_parsed is the last reply that parsed.
KeepsLastParsed ==
    IF \A i \in DOMAIN attempts : ~attempts[i].reply.parsed
      THEN last_parsed = None
      ELSE \E i \in DOMAIN attempts :
             /\ attempts[i].reply.parsed /\ last_parsed = attempts[i].reply
             /\ \A k \in DOMAIN attempts : k > i => ~attempts[k].reply.parsed

Running ==
    outcome = None =>
       /\ Len(attempts) < MAX_ATTEMPTS
       /\ \A i \in DOMAIN attempts : attempts[i].errors # {}
       /\ previous = IF attempts = <<>> THEN {}
                     ELSE {e.message : e \in attempts[Len(attempts)].errors}

Finished ==
    Returned =>
       /\ attempts # <<>> /\ outcome \in Outcome /\ outcome.fields = last_parsed
       /\ outcome.needs_review = (attempts[Len(attempts)].errors # {})
       /\ outcome.needs_review => Len(attempts) = MAX_ATTEMPTS
       /\ outcome.scores =
            IF last_parsed = None THEN Unscored
            ELSE Score(Len(attempts), outcome.needs_review, implicated, last_parsed)

\* Every round was judged by the rules, and only the last may be clean.
LoopInv ==
    /\ attempts \in Seq(Record) /\ Len(attempts) <= MAX_ATTEMPTS
    /\ \A i \in DOMAIN attempts : attempts[i].errors = Errors(attempts[i].reply)
    /\ \A i \in DOMAIN attempts : i < Len(attempts) => attempts[i].errors # {}
    /\ last_parsed \in {r \in Replies : r.parsed} \cup {None}
    /\ RepromptsWithLastErrors /\ KeepsLastParsed /\ Running /\ Finished

\* A round without errors is one whose reply parsed.
LEMMA CleanIsParsed ==
    ASSUME NEW r \in Replies, Errors(r) = {}
    PROVE  r.parsed /\ r.invoice \in InvoiceFields /\ validate_invoice(r.invoice) = {}
BY RepliesAssumption DEF Errors, IsReply

LEMMA Passes ==
    ASSUME NEW r \in Replies
    PROVE  Errors(r) = {} <=> r \in Passing
BY CleanIsParsed DEF Passing, Errors

LEMMA Bases ==
    ASSUME NEW n \in 1 .. MAX_ATTEMPTS, NEW review \in BOOLEAN
    PROVE  /\ review => Base(n, review) = 30
           /\ ~review => Base(n, review) \in {95, 75, 55}
<1>1. n \in {1, 2, 3}
  BY DEF MAX_ATTEMPTS
<1> QED
  BY <1>1 DEF Base, NeedsReviewConfidence, ConfidenceByAttempt

LEMMA Penalties ==
    Penalized(95) = 57 /\ Penalized(75) = 45 /\ Penalized(55) = 33 /\ Penalized(30) = 18
BY DEF Penalized

\* A score is the base, or less for a field an error names.
LEMMA Scoring ==
    ASSUME NEW n \in 1 .. MAX_ATTEMPTS, NEW review \in BOOLEAN, NEW locs, NEW r
    PROVE  /\ Score(n, review, locs, r) \in Scores
           /\ \A f \in FieldNames : Score(n, review, locs, r)[f] # None =>
                Score(n, review, locs, r)[f] =
                  IF <<f>> \in locs THEN Penalized(Base(n, review)) ELSE Base(n, review)
<1>1. Base(n, review) \in 0 .. 100 /\ Penalized(Base(n, review)) \in 0 .. 100
  BY Bases, Penalties
<1>2. ASSUME NEW f \in FieldNames
      PROVE  Score(n, review, locs, r)[f] \in
               {None, IF <<f>> \in locs THEN Penalized(Base(n, review)) ELSE Base(n, review)}
  BY DEF Score, Implicates
<1>3. Score(n, review, locs, r) = [f \in FieldNames |-> Score(n, review, locs, r)[f]]
  BY DEF Score
<1> QED
  BY <1>1, <1>2, <1>3 DEF Scores

LEMMA NoScores == Unscored \in Scores
BY DEF Scores, Unscored

LEMMA LoopInit == Init => LoopInv
BY DEF Init, LoopInv, RepromptsWithLastErrors, KeepsLastParsed, Running, Finished, Returned,
       MAX_ATTEMPTS


LEMMA Outcomes ==
    ASSUME NEW fields \in Replies \cup {None}, NEW review \in BOOLEAN, NEW scores \in Scores
    PROVE  LET o == [fields |-> fields, needs_review |-> review, scores |-> scores]
           IN  o \in Outcome /\ o # None
<1>1. [fields |-> fields, needs_review |-> review, scores |-> scores] \in Outcome
  BY DEF Outcome
<1>2. \A o \in Outcome : o # None
  BY NoneAssumption
<1> QED
  BY <1>1, <1>2

\* What appending a record does to the records.
LEMMA Appended ==
    ASSUME NEW S, NEW s \in Seq(S), NEW e \in S
    PROVE  /\ Append(s, e) \in Seq(S) /\ Len(Append(s, e)) = Len(s) + 1
           /\ Append(s, e)[Len(s) + 1] = e
           /\ \A i \in DOMAIN s : i # Len(s) + 1 /\ Append(s, e)[i] = s[i]
           /\ DOMAIN Append(s, e) = DOMAIN s \cup {Len(s) + 1}
           /\ DOMAIN s = 1 .. Len(s)
OBVIOUS

LEMMA LoopStep == LoopInv /\ Round => LoopInv'
<1> SUFFICES ASSUME LoopInv, outcome = None, NEW reply \in Replies, Exchange(reply)
             PROVE  LoopInv'
  BY DEF Round
<1> DEFINE n == Len(attempts) + 1
           errors == Errors(reply)
           record == [prompt |-> previous, reply |-> reply, errors |-> errors]
<1>1. /\ attempts' = Append(attempts, record) /\ last_parsed' = Parsed(reply)
      /\ errors = {} =>
           /\ outcome' = [fields |-> last_parsed', needs_review |-> FALSE,
                          scores |-> Score(n, FALSE, implicated, last_parsed')]
           /\ previous' = previous /\ implicated' = implicated
      /\ errors # {} =>
           /\ previous' = {e.message : e \in errors}
           /\ n < MAX_ATTEMPTS => outcome' = None
           /\ ~(n < MAX_ATTEMPTS) =>
                outcome' = [fields |-> last_parsed', needs_review |-> TRUE,
                            scores |-> IF last_parsed' = None THEN Unscored
                                       ELSE Score(n, TRUE, implicated', last_parsed')]
  BY DEF Exchange, Messages
<1>2. /\ attempts \in Seq(Record) /\ Len(attempts) < MAX_ATTEMPTS
      /\ \A i \in DOMAIN attempts : attempts[i].errors # {}
      /\ previous = IF attempts = <<>> THEN {}
                    ELSE {e.message : e \in attempts[Len(attempts)].errors}
  BY DEF LoopInv, Running
<1>3. record \in Record
  <2>1. errors \subseteq Problems
    BY DEF Problems
  <2>2. ASSUME attempts # <<>>
        PROVE  attempts[Len(attempts)].errors \subseteq Problems
    <3>1. attempts[Len(attempts)] \in Record
      BY <1>2, <2>2
    <3> QED
      BY <3>1 DEF Record
  <2>3. previous \subseteq {e.message : e \in Problems}
    BY <1>2, <2>2
  <2> QED
    BY <2>1, <2>3 DEF Record
<1>4. /\ attempts' \in Seq(Record) /\ Len(attempts') = n /\ attempts'[n] = record
      /\ \A i \in DOMAIN attempts : i # n /\ attempts'[i] = attempts[i]
      /\ DOMAIN attempts' = DOMAIN attempts \cup {n}
      /\ DOMAIN attempts = 1 .. Len(attempts) /\ Len(attempts) \in Nat
  BY <1>1, <1>2, <1>3, Appended
<1>5. n \in 1 .. MAX_ATTEMPTS
  BY <1>2, <1>4 DEF MAX_ATTEMPTS
<1>6. attempts' # <<>>
  BY <1>4, <1>5
<1>7. record.reply = reply /\ record.errors = errors /\ record.prompt = previous
  OBVIOUS
<1> HIDE DEF n, errors, record
<1>8. last_parsed' \in {r \in Replies : r.parsed} \cup {None}
  BY <1>1 DEF Parsed, LoopInv
<1>9. \A i \in DOMAIN attempts' : attempts'[i].errors = Errors(attempts'[i].reply)
  BY <1>4, <1>7 DEF LoopInv, errors
<1>10. \A i \in DOMAIN attempts' : i < Len(attempts') => attempts'[i].errors # {}
  BY <1>2, <1>4, <1>5
<1>11. RepromptsWithLastErrors'
  <2>1. ASSUME NEW i \in DOMAIN attempts'
        PROVE  attempts'[i].prompt = IF i = 1 THEN {}
                                     ELSE {e.message : e \in attempts'[i - 1].errors}
    <3>1. CASE i \in DOMAIN attempts
      <4>1. i = 1 \/ i - 1 \in DOMAIN attempts
        BY <1>4, <3>1
      <4> QED
        BY <1>4, <3>1, <4>1 DEF LoopInv, RepromptsWithLastErrors
    <3>2. CASE i = n
      <4>1. CASE attempts = <<>>
        BY <1>2, <1>4, <1>7, <3>2, <4>1 DEF n
      <4>2. CASE attempts # <<>>
        <5>1. i - 1 = Len(attempts) /\ i - 1 \in DOMAIN attempts /\ i # 1
          BY <1>2, <1>4, <3>2, <4>2 DEF n
        <5> QED
          BY <1>2, <1>4, <1>7, <3>2, <4>2, <5>1
      <4> QED
        BY <4>1, <4>2
    <3> QED
      BY <1>4, <2>1, <3>1, <3>2
  <2> QED
    BY <2>1 DEF RepromptsWithLastErrors
<1>12. KeepsLastParsed'
  <2>1. CASE reply.parsed
    <3>1. last_parsed' = reply /\ n \in DOMAIN attempts' /\ attempts'[n].reply = reply
      BY <1>1, <1>4, <1>7, <2>1 DEF Parsed
    <3>2. \A k \in DOMAIN attempts' : ~(k > n)
      BY <1>4, <1>5 DEF n
    <3> QED
      BY <2>1, <3>1, <3>2 DEF KeepsLastParsed
  <2>2. CASE ~reply.parsed
    <3>1. last_parsed' = last_parsed /\ ~attempts'[n].reply.parsed
      BY <1>1, <1>4, <1>7, <2>2 DEF Parsed
    <3>2. CASE \A i \in DOMAIN attempts : ~attempts[i].reply.parsed
      <4>1. \A i \in DOMAIN attempts' : ~attempts'[i].reply.parsed
        BY <1>4, <3>1, <3>2
      <4>2. last_parsed' = None
        BY <3>1, <3>2 DEF LoopInv, KeepsLastParsed
      <4> QED
        BY <4>1, <4>2 DEF KeepsLastParsed
    <3>3. CASE ~\A i \in DOMAIN attempts : ~attempts[i].reply.parsed
      <4>1. PICK i \in DOMAIN attempts :
              /\ attempts[i].reply.parsed /\ last_parsed = attempts[i].reply
              /\ \A k \in DOMAIN attempts : k > i => ~attempts[k].reply.parsed
        BY <3>3 DEF LoopInv, KeepsLastParsed
      <4>2. /\ i \in DOMAIN attempts'
            /\ attempts'[i].reply.parsed /\ last_parsed' = attempts'[i].reply
        BY <1>4, <3>1, <4>1
      <4>3. \A k \in DOMAIN attempts' : k > i => ~attempts'[k].reply.parsed
        BY <1>4, <3>1, <4>1
      <4> QED
        BY <4>2, <4>3 DEF KeepsLastParsed
    <3> QED
      BY <3>2, <3>3
  <2> QED
    BY <2>1, <2>2
<1>13. CASE errors = {}
  <2>1. reply.parsed /\ last_parsed' = reply /\ last_parsed' # None
    BY <1>1, <1>13, CleanIsParsed, NoneAssumption DEF errors, Parsed
  <2>2. outcome' = [fields |-> last_parsed', needs_review |-> FALSE,
                    scores |-> Score(n, FALSE, implicated', last_parsed')]
    BY <1>1, <1>13
  <2>3. Score(n, FALSE, implicated', last_parsed') \in Scores
    BY <1>5, Scoring
  <2>4. outcome' \in Outcome /\ outcome' # None
    BY <1>8, <2>2, <2>3, Outcomes
  <2>5. /\ outcome'.fields = last_parsed' /\ outcome'.needs_review = FALSE
        /\ outcome'.scores = Score(n, FALSE, implicated', last_parsed')
    BY <2>2
  <2>6. outcome'.needs_review = (attempts'[Len(attempts')].errors # {})
    BY <1>4, <1>7, <1>13, <2>5
  <2>8. outcome'.scores =
          IF last_parsed' = None THEN Unscored
          ELSE Score(Len(attempts'), outcome'.needs_review, implicated', last_parsed')
    BY <1>4, <2>1, <2>5
  <2>9. Running' /\ Finished'
    BY <1>6, <2>4, <2>5, <2>6, <2>8 DEF Running, Finished
  <2> QED
    BY <1>4, <1>5, <1>8, <1>9, <1>10, <1>11, <1>12, <2>9 DEF LoopInv
<1>14. CASE errors # {} /\ n < MAX_ATTEMPTS
  <2>1. outcome' = None /\ attempts' # <<>> /\ Len(attempts') < MAX_ATTEMPTS
    BY <1>1, <1>4, <1>14, <1>6
  <2>2. \A i \in DOMAIN attempts' : attempts'[i].errors # {}
    BY <1>2, <1>4, <1>7, <1>14
  <2>3. previous' = {e.message : e \in attempts'[Len(attempts')].errors}
    BY <1>1, <1>4, <1>7, <1>14
  <2>4. Running' /\ Finished'
    BY <2>1, <2>2, <2>3 DEF Running, Finished, Returned
  <2> QED
    BY <1>4, <1>5, <1>8, <1>9, <1>10, <1>11, <1>12, <2>4 DEF LoopInv
<1>15. CASE errors # {} /\ ~(n < MAX_ATTEMPTS)
  <2>1. outcome' = [fields |-> last_parsed', needs_review |-> TRUE,
                    scores |-> IF last_parsed' = None THEN Unscored
                               ELSE Score(n, TRUE, implicated', last_parsed')]
    BY <1>1, <1>15
  <2>2. Score(n, TRUE, implicated', last_parsed') \in Scores /\ Unscored \in Scores
    BY <1>5, Scoring, NoScores
  <2>3. outcome' \in Outcome /\ outcome' # None
    BY <1>8, <2>1, <2>2, Outcomes
  <2>4. /\ outcome'.fields = last_parsed' /\ outcome'.needs_review = TRUE
        /\ outcome'.scores = IF last_parsed' = None THEN Unscored
                             ELSE Score(n, TRUE, implicated', last_parsed')
    BY <2>1
  <2>5. /\ outcome'.needs_review = (attempts'[Len(attempts')].errors # {})
        /\ Len(attempts') = MAX_ATTEMPTS
    <3>1. n = MAX_ATTEMPTS
      BY <1>5, <1>15 DEF MAX_ATTEMPTS
    <3> QED
      BY <1>4, <1>7, <1>15, <2>4, <3>1
  <2>6. outcome'.scores =
          IF last_parsed' = None THEN Unscored
          ELSE Score(Len(attempts'), outcome'.needs_review, implicated', last_parsed')
    BY <1>4, <2>4
  <2>7. Running' /\ Finished'
    BY <1>6, <2>3, <2>4, <2>5, <2>6 DEF Running, Finished
  <2> QED
    BY <1>4, <1>5, <1>8, <1>9, <1>10, <1>11, <1>12, <2>7 DEF LoopInv
<1> QED
  BY <1>13, <1>14, <1>15

LEMMA LoopStutter == LoopInv /\ UNCHANGED vars => LoopInv'
BY DEF vars, LoopInv, RepromptsWithLastErrors, KeepsLastParsed, Running, Finished, Returned

\* Whatever the LLM replies, the loop keeps its inductive invariant.
THEOREM LoopInvariance == Spec => []LoopInv
<1> QED
  BY LoopInit, LoopStep, LoopStutter, PTL DEF Spec

-----------------------------------------------------------------------------
(* What the loop returns. *)

LEMMA LoopTypeOK == LoopInv => TypeOK
<1> SUFFICES ASSUME LoopInv PROVE TypeOK
  OBVIOUS
<1>1. \A i \in DOMAIN attempts : attempts[i].reply \in Replies
  <2>1. \A i \in DOMAIN attempts : attempts[i] \in Record
    BY DEF LoopInv
  <2> QED
    BY <2>1 DEF Record
<1>2. outcome \in Outcome \cup {None}
  BY DEF LoopInv, Finished, Returned
<1> QED
  BY <1>1, <1>2 DEF LoopInv, TypeOK

\* The records are those of at most MAX_ATTEMPTS replies, what is kept is one
\* that parsed, and the scores are between 0 and 1.
THEOREM TypeCorrect == Spec => []TypeOK
BY LoopInvariance, LoopTypeOK, PTL

\* Every prompt but the first carries the problems of the reply before it.
THEOREM Reprompts == Spec => []RepromptsWithLastErrors
<1>1. LoopInv => RepromptsWithLastErrors
  BY DEF LoopInv
<1> QED
  BY <1>1, LoopInvariance, PTL

\* The last record, once the loop has returned.
LEMMA LastRecord ==
    ASSUME LoopInv, Returned
    PROVE  /\ Len(attempts) \in DOMAIN attempts /\ Len(attempts) \in 1 .. MAX_ATTEMPTS
           /\ DOMAIN attempts = 1 .. Len(attempts)
           /\ attempts[Len(attempts)].reply \in Replies
           /\ attempts[Len(attempts)].errors = Errors(attempts[Len(attempts)].reply)
           /\ outcome \in Outcome /\ outcome.fields = last_parsed
           /\ outcome.needs_review = (attempts[Len(attempts)].errors # {})
<1>1. /\ attempts \in Seq(Record) /\ Len(attempts) <= MAX_ATTEMPTS /\ attempts # <<>>
      /\ \A i \in DOMAIN attempts : attempts[i].errors = Errors(attempts[i].reply)
  BY DEF LoopInv, Finished
<1>2. Len(attempts) \in DOMAIN attempts /\ DOMAIN attempts = 1 .. Len(attempts)
      /\ Len(attempts) \in Nat \ {0}
  BY <1>1
<1>3. Len(attempts) \in 1 .. MAX_ATTEMPTS
  BY <1>1, <1>2 DEF MAX_ATTEMPTS
<1> QED
  BY <1>1, <1>2, <1>3, LoopTypeOK DEF LoopInv, Finished, TypeOK

\* A last round without errors is the one whose reply is kept.
LEMMA CleanIsKept ==
    ASSUME LoopInv, Returned, attempts[Len(attempts)].errors = {}
    PROVE  /\ last_parsed = attempts[Len(attempts)].reply
           /\ attempts[Len(attempts)].reply.parsed
           /\ outcome.needs_review = FALSE /\ outcome.fields = last_parsed
<1> DEFINE n == Len(attempts)
<1>1. n \in DOMAIN attempts /\ attempts[n].reply.parsed
  BY LastRecord, CleanIsParsed
<1>2. PICK i \in DOMAIN attempts :
        /\ attempts[i].reply.parsed /\ last_parsed = attempts[i].reply
        /\ \A k \in DOMAIN attempts : k > i => ~attempts[k].reply.parsed
  BY <1>1 DEF LoopInv, KeepsLastParsed
<1>3. ~(n > i)
  BY <1>1, <1>2
<1>4. i = n
  BY <1>2, <1>3, LastRecord
<1> QED
  BY <1>1, <1>2, <1>4, LastRecord

\* The first reply without errors is returned, and review is for those that
\* had none in MAX_ATTEMPTS rounds.
THEOREM OutcomeMatches == Spec => []OutcomeMatchesRecords
<1>1. LoopInv => OutcomeMatchesRecords
  <2> SUFFICES ASSUME LoopInv, Returned PROVE OutcomeMatchesRecords
    BY DEF OutcomeMatchesRecords
  <2> DEFINE n == Len(attempts)
             Clean(i) == attempts[i].errors = {}
  <2>1. outcome.needs_review = ~Clean(n)
    BY LastRecord
  <2>2. \A i \in 1 .. n - 1 : ~Clean(i)
    BY LastRecord DEF LoopInv
  <2>3. outcome.needs_review => n = MAX_ATTEMPTS
    BY DEF LoopInv, Finished
  <2>4. ~outcome.needs_review => outcome.fields = attempts[n].reply
    BY <2>1, CleanIsKept
  <2>5. IF \A i \in 1 .. n : ~attempts[i].reply.parsed
          THEN outcome.fields = None
          ELSE \E i \in 1 .. n : /\ attempts[i].reply.parsed
                                 /\ outcome.fields = attempts[i].reply
                                 /\ \A k \in i + 1 .. n : ~attempts[k].reply.parsed
    BY LastRecord DEF LoopInv, KeepsLastParsed
  <2> QED
    BY <2>1, <2>2, <2>3, <2>4, <2>5 DEF OutcomeMatchesRecords
<1> QED
  BY <1>1, LoopInvariance, PTL

\* Accepted and reviewed invoices never share a score, and an error costs its
\* field.
THEOREM Separation == Spec => []ScoresSeparateVerdicts
<1>1. LoopInv => ScoresSeparateVerdicts
  <2> SUFFICES ASSUME LoopInv, Returned PROVE ScoresSeparateVerdicts
    BY DEF ScoresSeparateVerdicts
  <2> DEFINE review == outcome.needs_review
             base == Base(Len(attempts), review)
             Scored == {f \in FieldNames : outcome.scores[f] # None}
  <2>1. review \in BOOLEAN /\ Len(attempts) \in 1 .. MAX_ATTEMPTS
    BY LastRecord DEF Outcome
  <2>2. \A f \in Scored : outcome.scores[f] = IF <<f>> \in implicated THEN Penalized(base)
                                              ELSE base
    <3>1. CASE last_parsed = None
      BY <3>1 DEF LoopInv, Finished, Unscored
    <3>2. CASE last_parsed # None
      <4>1. outcome.scores = Score(Len(attempts), review, implicated, last_parsed)
        BY <3>2 DEF LoopInv, Finished
      <4>2. \A f \in FieldNames : Score(Len(attempts), review, implicated, last_parsed)[f] # None =>
               Score(Len(attempts), review, implicated, last_parsed)[f] =
                 IF <<f>> \in implicated THEN Penalized(base) ELSE base
        BY <2>1, Scoring
      <4> QED
        BY <4>1, <4>2
    <3> QED
      BY <3>1, <3>2
  <2>3. /\ base \in {95, 75, 55, 30} /\ (review => base = 30)
        /\ (~review => base \in {95, 75, 55})
    BY <2>1, Bases
  <2> HIDE DEF base
  <2>4. Penalized(base) < base /\ base \in Int /\ Penalized(base) \in Int
        /\ (review => base <= 30 /\ Penalized(base) <= 30)
        /\ (~review => base > 30 /\ Penalized(base) > 30)
    BY <2>1, <2>3, Penalties
  <2> QED
    BY <2>2, <2>4 DEF ScoresSeparateVerdicts, NeedsReviewConfidence
<1> QED
  BY <1>1, LoopInvariance, PTL

\* An accepted invoice adds up and is dated in the past.
THEOREM Reconciled == Spec => []AcceptedReconciles
<1>1. LoopInv => AcceptedReconciles
  <2> SUFFICES ASSUME LoopInv, Returned, ~outcome.needs_review PROVE AcceptedReconciles
    BY DEF AcceptedReconciles
  <2>1. attempts[Len(attempts)].errors = {}
    BY LastRecord
  <2>2. outcome.fields = attempts[Len(attempts)].reply
        /\ attempts[Len(attempts)].reply \in Replies
        /\ Errors(attempts[Len(attempts)].reply) = {}
    BY <2>1, LastRecord, CleanIsKept
  <2>3. /\ outcome.fields.invoice \in InvoiceFields
        /\ validate_invoice(outcome.fields.invoice) = {}
    BY <2>2, CleanIsParsed
  <2> QED
    BY <2>3, RulesSound DEF AcceptedReconciles
<1> QED
  BY <1>1, LoopInvariance, PTL

\* A reply with nothing to object to is accepted in the round it comes.
THEOREM RightAccepted == Spec => []RightIsAccepted
<1>1. LoopInv => RightIsAccepted
  <2> SUFFICES ASSUME LoopInv, NEW k \in DOMAIN attempts, Right(attempts[k].reply)
               PROVE  Returned /\ ~outcome.needs_review /\ outcome.fields = attempts[k].reply
    BY DEF RightIsAccepted
  <2>1. attempts[k].errors = {}
    <3>1. attempts[k].reply \in Replies
      BY LoopTypeOK DEF TypeOK
    <3> QED
      BY <3>1, RightPasses DEF LoopInv
  <2>2. Returned
    BY <2>1 DEF LoopInv, Running, Returned
  <2>3. ~(k < Len(attempts))
    BY <2>1 DEF LoopInv
  <2>4. k = Len(attempts)
    BY <2>2, <2>3, LastRecord
  <2> QED
    BY <2>1, <2>2, <2>4, CleanIsKept
<1> QED
  BY <1>1, LoopInvariance, PTL

-----------------------------------------------------------------------------
(* The loop is the one Pipeline runs. *)

\* The verdicts on the attempts, as Seen shows them, grow by one.
LEMMA VerdictsGrow ==
    ASSUME NEW s \in Seq(Record), NEW e \in Record
    PROVE  LET Verdict(t) == [k \in DOMAIN t |-> IF t[k].errors = {} THEN "valid" ELSE "invalid"]
           IN  Verdict(Append(s, e)) =
                 Append(Verdict(s), IF e.errors = {} THEN "valid" ELSE "invalid")
<1> DEFINE V(t) == [k \in DOMAIN t |-> IF t[k].errors = {} THEN "valid" ELSE "invalid"]
           v == IF e.errors = {} THEN "valid" ELSE "invalid"
<1>1. V(s) \in Seq({"valid", "invalid"}) /\ v \in {"valid", "invalid"}
  OBVIOUS
<1>2. Len(V(s)) = Len(s) /\ DOMAIN V(s) = DOMAIN s
  OBVIOUS
<1>3. /\ DOMAIN Append(V(s), v) = DOMAIN s \cup {Len(s) + 1}
      /\ Append(V(s), v)[Len(s) + 1] = v
      /\ \A i \in DOMAIN s : Append(V(s), v)[i] = V(s)[i]
  BY <1>1, <1>2, Appended
<1>4. /\ DOMAIN Append(s, e) = DOMAIN s \cup {Len(s) + 1}
      /\ Append(s, e)[Len(s) + 1] = e
      /\ \A i \in DOMAIN s : i # Len(s) + 1 /\ Append(s, e)[i] = s[i]
  BY Appended
<1>5. /\ DOMAIN V(Append(s, e)) = DOMAIN s \cup {Len(s) + 1}
      /\ V(Append(s, e))[Len(s) + 1] = v
      /\ \A i \in DOMAIN s : V(Append(s, e))[i] = V(s)[i]
  BY <1>4
<1>6. Append(V(s), v) \in Seq({"valid", "invalid"})
  BY <1>1, Appended
<1>7. V(Append(s, e)) = [k \in DOMAIN V(Append(s, e)) |-> V(Append(s, e))[k]]
      /\ Append(V(s), v) = [k \in DOMAIN Append(V(s), v) |-> Append(V(s), v)[k]]
  BY <1>6
<1> HIDE DEF V, v
<1>8. V(Append(s, e)) = Append(V(s), v)
  BY <1>3, <1>5, <1>7
<1> QED
  BY <1>8 DEF V, v

\* Whatever the LLM replies, a round is a round of Pipeline's loop.
THEOREM RoundsAreReplies == Spec => ImplementsLoop
<1> DEFINE Answer == {r \in Replies : r.parsed} \cup {None}
           Step == \E a \in Answer : Seen' = Loop!Replied(Seen, a)
<1>1. LoopInv /\ LoopInv' /\ Round => Step
  <2> SUFFICES ASSUME LoopInv, LoopInv', outcome = None, NEW reply \in Replies,
                      Exchange(reply)
               PROVE  Step
    BY DEF Round
  <2> DEFINE a == IF reply.parsed THEN reply ELSE None
             n == Len(attempts) + 1
             record == [prompt |-> previous, reply |-> reply, errors |-> Errors(reply)]
             tries == Append(Seen.tries, IF a \in Passing THEN "valid" ELSE "invalid")
             over == a \in Passing \/ Loop!LastAttempt(Len(tries))
  <2>1. attempts' = Append(attempts, record)
    BY DEF Exchange
  <2>2. a \in Answer /\ (a = None <=> ~reply.parsed)
    BY NoneAssumption
  <2>3. a \in Passing <=> Errors(reply) = {}
    BY Passes, CleanIsParsed, NoneAssumption DEF Passing
  <2>4. attempts \in Seq(Record) /\ record \in Record
    <3>1. attempts' \in Seq(Record) /\ attempts'[n] = record /\ n \in DOMAIN attempts'
      BY <2>1 DEF LoopInv
    <3> QED
      BY <3>1 DEF LoopInv
  <2>5. Seen'.tries = tries
    <3>1. Seen'.tries = [k \in DOMAIN attempts' |->
                           IF attempts'[k].errors = {} THEN "valid" ELSE "invalid"]
      BY DEF Seen
    <3>2. Seen.tries = [k \in DOMAIN attempts |->
                          IF attempts[k].errors = {} THEN "valid" ELSE "invalid"]
      BY DEF Seen
    <3> DEFINE V(t) == [k \in DOMAIN t |-> IF t[k].errors = {} THEN "valid" ELSE "invalid"]
    <3>3. V(Append(attempts, record)) =
            Append(V(attempts), IF record.errors = {} THEN "valid" ELSE "invalid")
      BY <2>4, VerdictsGrow
    <3>4. record.errors = {} <=> a \in Passing
      BY <2>3
    <3> HIDE DEF record, a
    <3> QED
      BY <2>1, <3>1, <3>2, <3>3, <3>4
  <2>6. Len(tries) = n
    BY <2>4 DEF Seen
  <2>7. last_parsed' = IF a = None THEN last_parsed ELSE a
    BY <2>2 DEF Exchange, Parsed
  <2>8. Len(attempts') = n /\ n \in Nat /\ attempts'[n].errors = Errors(reply)
    BY <2>1, <2>4
  <2>9. Returned' <=> Errors(reply) = {} \/ n = MAX_ATTEMPTS
    <3>1. CASE outcome' = None
      <4>1. n < MAX_ATTEMPTS /\ Errors(reply) # {}
        <5>1. Len(attempts') < MAX_ATTEMPTS /\ \A i \in DOMAIN attempts' : attempts'[i].errors # {}
          BY <3>1 DEF LoopInv, Running
        <5>2. n \in DOMAIN attempts'
          BY <2>1, <2>4
        <5> QED
          BY <2>8, <5>1, <5>2
      <4> QED
        BY <2>8, <3>1, <4>1 DEF Returned, MAX_ATTEMPTS
    <3>2. CASE outcome' # None
      <4>1. /\ outcome'.needs_review = (attempts'[Len(attempts')].errors # {})
            /\ outcome'.needs_review => Len(attempts') = MAX_ATTEMPTS
        BY <3>2 DEF LoopInv, Finished, Returned
      <4> QED
        BY <2>8, <3>2, <4>1 DEF Returned
    <3> QED
      BY <3>1, <3>2
  <2>10. Returned' <=> over
    BY <2>3, <2>6, <2>9 DEF Loop!LastAttempt
  <2>11. (Returned' /\ ~outcome'.needs_review) <=> a \in Passing
    <3>1. CASE outcome' = None
      BY <2>3, <2>9, <3>1 DEF Returned
    <3>2. CASE outcome' # None
      <4>1. outcome'.needs_review = (attempts'[Len(attempts')].errors # {})
        BY <3>2 DEF LoopInv, Finished, Returned
      <4> QED
        BY <2>3, <2>8, <3>2, <4>1 DEF Returned
    <3> QED
      BY <3>1, <3>2
  <2> HIDE DEF a, tries, over
  <2>12. (Returned' /\ ~outcome'.needs_review) = (a \in Passing)
    BY <2>11
  <2>13. Seen'.tries = [k \in DOMAIN attempts' |->
                           IF attempts'[k].errors = {} THEN "valid" ELSE "invalid"]
    BY DEF Seen
  <2>14. Seen' = [pc |-> IF over THEN "validating" ELSE "ai", job |-> None, data |-> "whole",
                  tries |-> tries, kept |-> IF a = None THEN last_parsed ELSE a,
                  passed |-> a \in Passing]
    BY <2>5, <2>7, <2>10, <2>12, <2>13 DEF Seen
  <2>15. Seen' = Loop!Replied(Seen, a)
    <3>1. Seen.job = None /\ Seen.data = "whole" /\ Seen.kept = last_parsed
      BY DEF Seen
    <3> QED
      BY <2>14, <3>1 DEF Loop!Replied, tries, over
  <2> QED
    BY <2>2, <2>15 DEF a
<1>2. [Round]_vars /\ LoopInv /\ LoopInv' => [Step]_vars
  BY <1>1
<1> QED
  BY <1>2, LoopInvariance, PTL DEF Spec, ImplementsLoop

=============================================================================
