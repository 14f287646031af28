------------------------------- MODULE SlurmJob -------------------------------
(***************************************************************************)
(* A Slurm workload (workloads/slurm_sbatch.py, slurm_nccl_multinode.py)   *)
(* against the cluster that runs its job: sbatch, a poll loop over sacct   *)
(* with squeue and scontrol behind it (core/slurm.py), scancel at the      *)
(* deadline.  Every command is its own step, so the job may move, leave    *)
(* the queue or be purged between two of them; every command may fail.     *)
(*                                                                         *)
(* The cluster is external: it is modelled from what the parsers expect.   *)
(***************************************************************************)
EXTENDS Naturals

CONSTANTS Polls,       \* polls the timeout leaves room for
          EndStates    \* the states a job of this cluster may end in

TERMINAL_STATES ==
  {"COMPLETED", "FAILED", "CANCELLED", "TIMEOUT", "NODE_FAIL", "PREEMPTED", "OUT_OF_MEMORY"}

Live == {"PENDING", "RUNNING"}
Ends == TERMINAL_STATES \cup {"BOOT_FAIL", "DEADLINE"}

ASSUME JobAssumption ==
  /\ Polls \in Nat /\ Polls > 0
  /\ EndStates \subseteq Ends /\ "COMPLETED" \in EndStates

VARIABLES
  \* the validation
  pc,         \* where _submit_and_wait and _wait_for_job stand
  polls,      \* polls left before the deadline
  useSacct,   \* use_sacct
  answer,     \* the last (state, exit_code) get_job_state returned
  result,     \* what the validation reported
  scancel,    \* history: what became of scancel
  \* the cluster
  job,        \* "none", or the state of the job
  accounted,  \* the state sacct prints, "" when it has no row yet
  purged,     \* scontrol has forgotten the job
  outFile     \* slurm-<id>.out is there for the validation to see

driverVars  == <<pc, polls, useSacct, answer, result, scancel>>
clusterVars == <<job, accounted, purged, outFile>>
vars == <<driverVars, clusterVars>>

Unread == [state |-> "", exit |-> 0]

Init ==
  /\ pc = "submit" /\ polls = Polls /\ useSacct = TRUE
  /\ answer = Unread /\ result = "none" /\ scancel = "none"
  /\ job = "none" /\ accounted = "" /\ purged = FALSE /\ outFile = FALSE

-----------------------------------------------------------------------------
(* The validation.                                                         *)

\* sbatch may run out of its 30 s after the controller accepted the job.
Submit ==
  /\ pc = "submit"
  /\ \/ pc' = "loop" /\ job' = "PENDING" /\ UNCHANGED result
     \/ pc' = "done" /\ result' = "submit_failed" /\ job' \in {"none", "PENDING"}
  /\ UNCHANGED <<polls, useSacct, answer, scancel, accounted, purged, outFile>>

PollsAfter_Same == polls
PollsAfter_Two == polls - 2
PollsAfter == polls - 1

Poll ==
  /\ pc = "loop" /\ polls > 0
  /\ polls' = PollsAfter
  /\ pc' = IF useSacct THEN "sacct" ELSE "squeue"
  /\ UNCHANGED <<useSacct, answer, result, scancel, clusterVars>>

\* The job is cancelled before the validation returns.
AtDeadline_Return == "done"
AtDeadline == "cancel"

\* Slow commands may use up the time of later polls.
Deadline ==
  /\ pc = "loop" /\ polls < Polls
  /\ pc' = AtDeadline
  /\ UNCHANGED <<polls, useSacct, answer, result, scancel, clusterVars>>

\* get_job_state returns; the loop goes on unless the state is terminal.
Read(state, exit) ==
  /\ answer' = [state |-> state, exit |-> exit]
  /\ pc' = IF state \in TERMINAL_STATES THEN "collect" ELSE "loop"

\* Zero or not is all that is told apart; the code of a job ended by a signal is zero.
ExitCodes(state) == IF state \in {"", "COMPLETED"} \cup Live THEN {0} ELSE {0, 1}

AskSacct ==
  /\ pc = "sacct"
  /\ \E exit \in ExitCodes(accounted) : Read(accounted, exit)
  /\ UNCHANGED <<polls, useSacct, result, scancel, clusterVars>>

\* One failure of sacct switches to squeue for the rest of the loop.
SacctFails ==
  /\ pc = "sacct"
  /\ useSacct' = FALSE
  /\ pc' = "squeue"
  /\ UNCHANGED <<polls, answer, result, scancel, clusterVars>>

\* An ended job may still be in the queue while it is cleaned up.
AskSqueue ==
  /\ pc = "squeue" /\ job # "none"
  /\ Read(IF job \in Live THEN job ELSE "COMPLETING", 0)
  /\ UNCHANGED <<polls, useSacct, result, scancel, clusterVars>>

\* Not in the queue, or squeue failed: the code does not tell them apart.
SqueueEmpty ==
  /\ pc = "squeue"
  /\ pc' = "scontrol"
  /\ UNCHANGED <<polls, useSacct, answer, result, scancel, clusterVars>>

AskScontrol ==
  /\ pc = "scontrol" /\ ~purged
  /\ \E exit \in ExitCodes(job) : Read(job, exit)
  /\ UNCHANGED <<polls, useSacct, result, scancel, clusterVars>>

\* Purged, or scontrol failed.
ScontrolFails ==
  /\ pc = "scontrol"
  /\ pc' = "testfile"
  /\ UNCHANGED <<polls, useSacct, answer, result, scancel, clusterVars>>

\* An output file is taken for the end of the job, never for its success.
PurgedExit_Zero == 0
PurgedExit == 1

TestFile ==
  /\ pc = "testfile"
  /\ \/ outFile /\ Read("COMPLETED", PurgedExit)
     \/ Read("UNKNOWN", 1)
  /\ UNCHANGED <<polls, useSacct, result, scancel, clusterVars>>

\* The output decides between passed and skipped; reading it may delete it.
Verdicts == IF answer.state = "COMPLETED" /\ answer.exit = 0 THEN {"passed", "skipped"} ELSE {"failed"}

Collect ==
  /\ pc = "collect"
  /\ result' \in Verdicts
  /\ outFile' \in {outFile, FALSE}
  /\ pc' = "done"
  /\ UNCHANGED <<polls, useSacct, answer, scancel, job, accounted, purged>>

\* scancel may fail unnoticed, and does nothing to a job that has ended.
AfterScancel(j) == IF j \in Live THEN "CANCELLED" ELSE j

Cancel ==
  /\ pc = "cancel"
  /\ \/ scancel' = "accepted" /\ job' = AfterScancel(job)
     \/ scancel' = "failed" /\ UNCHANGED job
  /\ result' = "timeout"
  /\ pc' = "done"
  /\ UNCHANGED <<polls, useSacct, answer, accounted, purged, outFile>>

\* Ctrl-C or a kill leaves the loop without scancel.
Interrupt ==
  /\ pc \notin {"done", "interrupted"}
  /\ pc' = "interrupted"
  /\ UNCHANGED <<polls, useSacct, answer, result, scancel, clusterVars>>

-----------------------------------------------------------------------------
(* The cluster.                                                            *)

\* The output file appears unless it is written where only the node sees it.
StartJob ==
  /\ job = "PENDING"
  /\ job' = "RUNNING"
  /\ outFile' \in BOOLEAN
  /\ UNCHANGED <<driverVars, accounted, purged>>

EndJob ==
  /\ job \in Live
  /\ job' \in IF job = "RUNNING" THEN EndStates ELSE EndStates \cap {"CANCELLED", "DEADLINE"}
  /\ UNCHANGED <<driverVars, accounted, purged, outFile>>

\* The accounting row follows; a cancelled job's may name who cancelled it.
Account ==
  /\ job # "none"
  /\ accounted' \in {job} \cup (IF job = "CANCELLED" THEN {"CANCELLED by"} ELSE {})
  /\ UNCHANGED <<driverVars, job, purged, outFile>>

Purge ==
  /\ job \in Ends
  /\ purged' = TRUE
  /\ UNCHANGED <<driverVars, job, accounted, outFile>>

-----------------------------------------------------------------------------
Command ==
  \/ Submit \/ Poll \/ Deadline
  \/ AskSacct \/ SacctFails \/ AskSqueue \/ SqueueEmpty \/ AskScontrol \/ ScontrolFails \/ TestFile
  \/ Collect \/ Cancel

Cluster == StartJob \/ EndJob \/ Account \/ Purge

Over == pc \in {"done", "interrupted"} /\ UNCHANGED vars

Next == Command \/ Interrupt \/ Cluster \/ Over

\* Every command has a timeout.  The cluster owes nothing.
Fairness == WF_vars(Command)

Spec == Init /\ [][Next]_vars /\ Fairness

-----------------------------------------------------------------------------
(* Properties.                                                             *)

AccountedTexts == {"", "CANCELLED by"} \cup Live \cup Ends

\* Type invariant of the validation and the cluster.
TypeOK ==
  /\ pc \in {"submit", "loop", "sacct", "squeue", "scontrol", "testfile", "collect", "cancel", "done", "interrupted"}
  /\ polls \in 0 .. Polls /\ useSacct \in BOOLEAN
  /\ answer \in [state : AccountedTexts \cup {"COMPLETING", "UNKNOWN"}, exit : {0, 1}]
  /\ result \in {"none", "passed", "skipped", "failed", "timeout", "submit_failed"}
  /\ scancel \in {"none", "accepted", "failed"}
  /\ job \in {"none"} \cup Live \cup Ends
  /\ accounted \in AccountedTexts
  /\ purged \in BOOLEAN /\ outFile \in BOOLEAN

\* The end was inferred from an output file.
Guessed == answer = [state |-> "COMPLETED", exit |-> 1]

\* A job is reported as passed or skipped only if it really completed, and as
\* failed only if it ended in the state it reports or its end was inferred, whichever command
\* answered, however late the accounting and however the job moved meanwhile.
VerdictIsTrue ==
  /\ result \in {"passed", "skipped"} => job = "COMPLETED"
  /\ result = "failed" /\ ~Guessed => job \in Ends \ {"COMPLETED"} /\ answer.state = job

\* A validation that is over leaves a job pending or running only when it never
\* learnt the job's id, scancel failed, or it inferred an end.
LiveJobHasCause ==
  pc = "done" /\ job \in Live => result = "submit_failed" \/ scancel = "failed" \/ Guessed

\* However the cluster answers, the validation ends.
ValidationEnds == <>(pc \in {"done", "interrupted"})
=============================================================================
