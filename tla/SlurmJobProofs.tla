--------------------------- MODULE SlurmJobProofs ---------------------------
(***************************************************************************)
(* Theorems about SlurmJob, for any number of polls and any set of states  *)
(* the cluster's jobs may end in.                                          *)
(***************************************************************************)
EXTENDS SlurmJob, TLAPS

\* A terminal state that was read, not inferred, is the state of the job: jobs
\* do not leave an end state, and sacct may lag but does not invent one.
Readings ==
  /\ accounted \in Ends => job = accounted
  /\ answer.state \in TERMINAL_STATES /\ ~Guessed => job = answer.state
  /\ job = "none" => pc \in {"submit", "done", "interrupted"}
  /\ pc = "submit" => job = "none"

\* What was reported follows from the last answer, or from the deadline.
Reports ==
  /\ pc = "collect" => answer.state \in TERMINAL_STATES
  /\ result \in {"passed", "skipped"} => answer = [state |-> "COMPLETED", exit |-> 0]
  /\ result = "failed" =>
       answer.state \in TERMINAL_STATES /\ answer # [state |-> "COMPLETED", exit |-> 0]
  /\ result = "timeout" => scancel # "none"
  /\ scancel = "accepted" => job \notin Live
  /\ pc = "done" => result # "none"
  /\ pc \notin {"done", "interrupted"} => result = "none" /\ scancel = "none"

IInv == TypeOK /\ Readings /\ Reports

LEMMA States ==
  /\ TERMINAL_STATES \subseteq Ends /\ \A x \in Live : x \notin Ends
  /\ "none" \notin Ends /\ "none" \notin Live /\ "COMPLETED" \in TERMINAL_STATES
  /\ "CANCELLED" \in Ends /\ "CANCELLED by" \notin Ends
  /\ "" \notin Ends /\ "COMPLETING" \notin Ends /\ "UNKNOWN" \notin Ends
BY DEF TERMINAL_STATES, Ends, Live

\* What the last answer was is told by its exit code.
LEMMA ReadOrGuessed ==
  /\ answer = [state |-> "COMPLETED", exit |-> 0] => ~Guessed /\ answer.state = "COMPLETED"
  /\ Guessed => answer # [state |-> "COMPLETED", exit |-> 0] /\ answer.state = "COMPLETED"
<1>1. [state |-> "COMPLETED", exit |-> 0].exit # [state |-> "COMPLETED", exit |-> 1].exit
  OBVIOUS
<1> QED  BY <1>1 DEF Guessed

LEMMA IInvInit == ASSUME Init PROVE IInv
<1>1. TypeOK
  <2>1. polls = Polls /\ Polls \in Nat
    BY JobAssumption DEF Init
  <2>2. polls \in 0 .. Polls
    BY <2>1
  <2> QED  BY <2>2 DEF Init, TypeOK, AccountedTexts, Unread
<1>2. Readings
  BY States DEF Init, Readings, Unread, Guessed
<1>3. Reports
  BY DEF Init, Reports, Unread
<1> QED  BY <1>1, <1>2, <1>3 DEF IInv

\* A command that reads a state keeps the invariant if what it read is the
\* job's state whenever it is terminal.
LEMMA ReadStep ==
  ASSUME IInv, NEW state \in AccountedTexts \cup {"COMPLETING", "UNKNOWN"}, NEW exit \in {0, 1},
         Read(state, exit), pc \in {"sacct", "squeue", "scontrol", "testfile"},
         state \in TERMINAL_STATES => job = state \/ (state = "COMPLETED" /\ exit = 1),
         UNCHANGED <<polls, useSacct, result, scancel, clusterVars>>
  PROVE  IInv'
<1> USE DEF IInv, Read, clusterVars
<1>1. TypeOK'
  BY DEF TypeOK
<1>2. Readings'
  BY DEF Readings, Guessed
<1>3. Reports'
  BY DEF Reports
<1> QED  BY <1>1, <1>2, <1>3

LEMMA CommandStep == ASSUME IInv, Command PROVE IInv'
<1> USE DEF clusterVars
<1>1. CASE Submit \/ Poll \/ Deadline \/ SacctFails \/ SqueueEmpty \/ ScontrolFails
  <2> USE <1>1, JobAssumption DEF Submit, Poll, PollsAfter, Deadline, AtDeadline, SacctFails, SqueueEmpty, ScontrolFails
  <2>1. TypeOK'
    <3>1. polls' \in 0 .. Polls
      <4>1. polls \in 0 .. Polls /\ Polls \in Nat
        BY DEF IInv, TypeOK
      <4>2. polls' = polls \/ (polls > 0 /\ polls' = polls - 1)
        OBVIOUS
      <4> QED  BY <4>1, <4>2
    <3> QED  BY <3>1 DEF IInv, TypeOK, Live
  <2>2. Readings'
    <3>1. CASE Submit
      <4>1. answer.state \notin TERMINAL_STATES \/ Guessed
        BY <3>1, States DEF IInv, Readings
      <4>2. job = "none"
        BY <3>1 DEF IInv, Readings
      <4>3. accounted \notin Ends
        <5>1. accounted \in Ends => accounted = "none"
          BY <4>2 DEF IInv, Readings
        <5> QED  BY <5>1, States
      <4>4. accounted' = accounted /\ answer' = answer /\ job' \in {"none", "PENDING"} /\ pc' \in {"loop", "done"}
            /\ (job' = "none" => pc' = "done")
        BY <3>1
      <4> QED  BY <4>1, <4>3, <4>4 DEF Readings, Guessed
    <3>2. CASE ~Submit
      BY <3>2 DEF IInv, Readings, Guessed
    <3> QED  BY <3>1, <3>2
  <2>3. Reports'   BY DEF IInv, Reports, Live
  <2> QED  BY <2>1, <2>2, <2>3 DEF IInv
<1>2. CASE AskSacct
  <2>1. accounted \in AccountedTexts /\ ExitCodes(accounted) \subseteq {0, 1}
    BY DEF IInv, TypeOK, ExitCodes
  <2>2. accounted \in TERMINAL_STATES => job = accounted
    BY States DEF IInv, Readings
  <2>3. PICK exit \in {0, 1} : Read(accounted, exit)
    BY <1>2, <2>1 DEF AskSacct
  <2> QED  BY <1>2, <2>1, <2>2, <2>3, ReadStep DEF AskSacct
<1>3. CASE AskSqueue
  <2> DEFINE text == IF job \in Live THEN job ELSE "COMPLETING"
  <2>1. text \in AccountedTexts \cup {"COMPLETING", "UNKNOWN"} /\ text \notin TERMINAL_STATES
    BY States DEF AccountedTexts
  <2> QED  BY <1>3, <2>1, ReadStep DEF AskSqueue
<1>4. CASE AskScontrol
  <2>1. job \in AccountedTexts
    BY <1>4 DEF AskScontrol, IInv, TypeOK, Readings, AccountedTexts
  <2>2. ExitCodes(job) \subseteq {0, 1}
    BY DEF ExitCodes
  <2>3. PICK exit \in {0, 1} : Read(job, exit)
    BY <1>4, <2>2 DEF AskScontrol
  <2> QED  BY <1>4, <2>1, <2>3, ReadStep DEF AskScontrol
<1>5. CASE TestFile
  <2>1. "COMPLETED" \in AccountedTexts /\ "UNKNOWN" \notin TERMINAL_STATES
    BY States DEF AccountedTexts
  <2>2. CASE Read("COMPLETED", PurgedExit)
    BY <1>5, <2>1, <2>2, ReadStep DEF TestFile, PurgedExit
  <2>3. CASE Read("UNKNOWN", 1)
    BY <1>5, <2>1, <2>3, ReadStep DEF TestFile
  <2> QED  BY <1>5, <2>2, <2>3 DEF TestFile
<1>6. CASE Collect
  <2> USE <1>6 DEF Collect, Verdicts
  <2>1. TypeOK'    BY DEF IInv, TypeOK
  <2>2. Readings'  BY DEF IInv, Readings, Guessed
  <2>3. Reports'   BY DEF IInv, Reports, TypeOK
  <2> QED  BY <2>1, <2>2, <2>3 DEF IInv
<1>7. CASE Cancel
  <2> USE <1>7 DEF Cancel, AfterScancel
  <2>0. job \in Live => answer.state \notin TERMINAL_STATES \/ Guessed
    BY States DEF IInv, Readings
  <2>1. TypeOK'    BY States DEF IInv, TypeOK
  <2>2. Readings'  BY <2>0, States DEF IInv, Readings, Guessed
  <2>3. Reports'   BY DEF IInv, Reports, Live
  <2> QED  BY <2>1, <2>2, <2>3 DEF IInv
<1> QED
  BY <1>1, <1>2, <1>3, <1>4, <1>5, <1>6, <1>7 DEF Command

\* The cluster only moves a live job, and its records follow it.
LEMMA ClusterStep == ASSUME IInv, Cluster PROVE IInv'
<1> USE States, JobAssumption DEF driverVars
<1>1. CASE StartJob
  <2> USE <1>1 DEF StartJob, Live
  <2>1. accounted \notin Ends /\ (answer.state \notin TERMINAL_STATES \/ Guessed)
    BY DEF IInv, Readings
  <2>2. TypeOK'    BY DEF IInv, TypeOK
  <2>3. Readings'  BY <2>1 DEF IInv, Readings, Guessed
  <2>4. Reports'   BY DEF IInv, Reports
  <2> QED  BY <2>2, <2>3, <2>4 DEF IInv
<1>2. CASE EndJob
  <2> USE <1>2 DEF EndJob
  <2>0. EndStates \cap {"CANCELLED", "DEADLINE"} \subseteq Ends
    OBVIOUS
  <2>1. job' \in Ends /\ job \in Live /\ accounted \notin Ends /\ (answer.state \notin TERMINAL_STATES \/ Guessed)
    BY <2>0 DEF IInv, Readings
  <2>2. TypeOK'
    <3>1. UNCHANGED <<pc, polls, useSacct, answer, result, scancel, accounted, purged, outFile>>
      OBVIOUS
    <3>2. job' \in {"none"} \cup Live \cup Ends
      BY <2>1
    <3> HIDE <1>2, States, JobAssumption DEF EndJob, driverVars
    <3> QED  BY <3>1, <3>2 DEF IInv, TypeOK
  <2>3. Readings'  BY <2>1 DEF IInv, Readings, Guessed
  <2>4. Reports'   BY <2>1 DEF IInv, Reports
  <2> QED  BY <2>2, <2>3, <2>4 DEF IInv
<1>3. CASE Account
  <2>1. /\ job # "none"
        /\ accounted' = job \/ accounted' = "CANCELLED by"
        /\ pc' = pc /\ polls' = polls /\ useSacct' = useSacct /\ answer' = answer /\ result' = result
        /\ scancel' = scancel /\ job' = job /\ purged' = purged /\ outFile' = outFile
    BY <1>3 DEF Account, driverVars
  <2> HIDE <1>3 DEF driverVars
  <2>2. accounted' \in AccountedTexts
    BY <2>1 DEF IInv, TypeOK, AccountedTexts
  <2>3. TypeOK'
    <3>1. /\ pc' \in {"submit", "loop", "sacct", "squeue", "scontrol", "testfile", "collect", "cancel", "done", "interrupted"}
          /\ polls' \in 0 .. Polls /\ useSacct' \in BOOLEAN
          /\ answer' \in [state : AccountedTexts \cup {"COMPLETING", "UNKNOWN"}, exit : {0, 1}]
      BY <2>1 DEF IInv, TypeOK
    <3>2. /\ result' \in {"none", "passed", "skipped", "failed", "timeout", "submit_failed"}
          /\ scancel' \in {"none", "accepted", "failed"}
          /\ job' \in {"none"} \cup Live \cup Ends /\ purged' \in BOOLEAN /\ outFile' \in BOOLEAN
      BY <2>1 DEF IInv, TypeOK
    <3> QED  BY <2>2, <3>1, <3>2 DEF TypeOK
  <2>4. Readings'
    BY <2>1 DEF IInv, Readings, Guessed
  <2>5. Reports'
    BY <2>1 DEF IInv, Reports
  <2> QED  BY <2>3, <2>4, <2>5 DEF IInv
<1>4. CASE Purge
  <2> USE <1>4 DEF Purge
  <2>2. TypeOK'    BY DEF IInv, TypeOK
  <2>3. Readings'  BY DEF IInv, Readings, Guessed
  <2>4. Reports'   BY DEF IInv, Reports
  <2> QED  BY <2>2, <2>3, <2>4 DEF IInv
<1> QED
  BY <1>1, <1>2, <1>3, <1>4 DEF Cluster

LEMMA IInvStep == ASSUME IInv, [Next]_vars PROVE IInv'
<1>1. CASE Interrupt
  BY <1>1 DEF Interrupt, IInv, TypeOK, Readings, Reports, Guessed, clusterVars
<1>2. CASE UNCHANGED vars
  BY <1>2 DEF vars, driverVars, clusterVars, IInv, TypeOK, Readings, Reports, Guessed
<1> QED
  BY <1>1, <1>2, CommandStep, ClusterStep DEF Next, Over

\* The validation and the cluster keep their types, the poll counter its bound.
THEOREM TypeCorrect == Spec => []TypeOK
<1>1. Init => IInv  BY IInvInit
<1>2. IInv /\ [Next]_vars => IInv'  BY IInvStep
<1>3. IInv => TypeOK  BY DEF IInv
<1> QED  BY <1>1, <1>2, <1>3, PTL DEF Spec

\* A validation's report is true of its job unless the end was inferred.
THEOREM VerdictsTrue == Spec => []VerdictIsTrue
<1>1. Init => IInv  BY IInvInit
<1>2. IInv /\ [Next]_vars => IInv'  BY IInvStep
<1>3. IInv => VerdictIsTrue
  <2> SUFFICES ASSUME IInv PROVE VerdictIsTrue
    OBVIOUS
  <2>1. answer \in [state : AccountedTexts \cup {"COMPLETING", "UNKNOWN"}, exit : {0, 1}]
    BY DEF IInv, TypeOK
  <2>2. result \in {"passed", "skipped"} => job = "COMPLETED"
    BY States, ReadOrGuessed DEF IInv, Readings, Reports
  <2>3. result = "failed" /\ ~Guessed => answer.state = job /\ job \in TERMINAL_STATES
    BY DEF IInv, Readings, Reports
  <2>4. result = "failed" /\ ~Guessed => answer.state # "COMPLETED"
    BY <2>1 DEF IInv, Reports, Guessed
  <2> QED  BY <2>2, <2>3, <2>4, States DEF VerdictIsTrue
<1> QED  BY <1>1, <1>2, <1>3, PTL DEF Spec

\* What a finished validation leaves running has one of three causes.
THEOREM CausesKnown == Spec => []LiveJobHasCause
<1>1. Init => IInv  BY IInvInit
<1>2. IInv /\ [Next]_vars => IInv'  BY IInvStep
<1>3. IInv => LiveJobHasCause
  <2> SUFFICES ASSUME IInv, pc = "done", job \in Live, result # "submit_failed", scancel # "failed", ~Guessed
               PROVE  FALSE
    BY DEF LiveJobHasCause
  <2>1. answer.state \notin TERMINAL_STATES
    BY States DEF IInv, Readings
  <2>2. result \notin {"passed", "skipped", "failed"}
    BY <2>1, States, ReadOrGuessed DEF IInv, Reports
  <2>3. result # "timeout"
    BY DEF IInv, TypeOK, Reports
  <2> QED  BY <2>2, <2>3 DEF IInv, TypeOK, Reports
<1> QED  BY <1>1, <1>2, <1>3, PTL DEF Spec
=============================================================================
