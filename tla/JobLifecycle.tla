---------------------------- MODULE JobLifecycle ----------------------------
(***************************************************************************)
(* What IntelliExtract promises to a client that uploads a document and    *)
(* polls GET /documents/{job_id}: the life of a job, with no queue, no     *)
(* worker, no storage and no LLM.  A job is either answered from an        *)
(* earlier DONE job of the same document, or accepted and taken through    *)
(* the stages of JobStatus; the row of job_results that goes with its      *)
(* verdict is complete when the verdict is there, and neither ever changes *)
(* again.                                                                  *)
(*                                                                         *)
(* Pipeline implements this module (see Pipeline!Lifecycle).               *)
(***************************************************************************)
CONSTANTS Jobs,      \* job ids
          Docs,      \* what a job is about: a file and the type it is read as
          Payloads,  \* what a job may publish (a job_results row)
          Blank      \* the payload of a job that has published nothing

VARIABLE board  \* board[j]: the job as its client sees it

Verdicts == {"DONE", "NEEDS_REVIEW", "FAILED"}

Unseen == [status |-> "absent", doc |-> Blank, answer |-> Blank]

Init == board = [j \in Jobs |-> Unseen]

\* POST /documents answered 202: the job exists and nothing is known yet.
Accept(j, d) ==
    /\ board[j].status = "absent"
    /\ board' = [board EXCEPT ![j] =
                   [status |-> "PENDING", doc |-> d, answer |-> Blank]]

\* POST /documents answered 200: the answer of a DONE job of the same
\* document, under a new id.
Reuse(j, o) ==
    /\ board[j].status = "absent"
    /\ board[o].status = "DONE"
    /\ board' = [board EXCEPT ![j] = board[o]]

Stage(from, to, j) ==
    /\ board[j].status = from
    /\ board' = [board EXCEPT ![j].status = to]

\* The stages are passed through in order.
Advance(j) == \/ Stage("PENDING", "EXTRACTING", j)
              \/ Stage("EXTRACTING", "EXTRACTING_AI", j)
              \/ Stage("EXTRACTING_AI", "VALIDATING", j)

\* The pipeline gives up on a job it is extracting: no answer is published.
GiveUp(j) ==
    /\ board[j].status \in {"EXTRACTING", "EXTRACTING_AI"}
    /\ board' = [board EXCEPT ![j].status = "FAILED"]

\* Verdict and answer become visible in the same step.
Publish(j, verdict, p) ==
    /\ \/ board[j].status = "VALIDATING" /\ verdict \in {"DONE", "NEEDS_REVIEW"}
       \/ board[j].status = "EXTRACTING" /\ verdict = "DONE"
    /\ board' = [board EXCEPT ![j].status = verdict, ![j].answer = p]

Work(j) == \/ Advance(j)
           \/ GiveUp(j)
           \/ \E v \in Verdicts, p \in Payloads : Publish(j, v, p)

Next == \E j \in Jobs : \/ \E d \in Docs : Accept(j, d)
                        \/ \E o \in Jobs : Reuse(j, o)
                        \/ Work(j)

Spec == Init /\ [][Next]_board

\* An accepted job is worked on until it has its verdict.
Fair(j) == WF_board(Work(j))

FairSpec == Spec /\ \A j \in Jobs : Fair(j)
=============================================================================
