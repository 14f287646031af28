------------------------------- MODULE TestRun -------------------------------
(***************************************************************************)
(* The test runs of the lab service and the processes that report to them: *)
(* sessions in one working directory, each either                          *)
(*                                                                         *)
(*   single  "isvctl test run --lab-id" (cli/test.py, reporting.py), which *)
(*           creates the test run, runs the lifecycle and updates it, or   *)
(*   split   "isvreporter create", the tests, "isvreporter update"         *)
(*           (isvreporter's main.py), which pass the run's id in a file.   *)
(*                                                                         *)
(* They share the directory's id file, log and JUnit reports, and talk to  *)
(* a service over requests that may fail, or be executed and not answered. *)
(* One lifecycle run (module Orchestrator) is one step here: it returns    *)
(* and has written a report or not, or it raises.                          *)
(***************************************************************************)
EXTENDS Naturals, Sequences, FiniteSets

CONSTANTS Sessions,   \* a session creates at most one test run, named after it
          NoRun,      \* no test run, no file
          Options,    \* the command lines sessions may be started with
          Overlap     \* may sessions of one directory run at the same time

\* Where a report may be written.  cli/test.py looks in SearchOrder only.
SearchOrder == <<"output", "workdir", "cwd">>
Places == {SearchOrder[i] : i \in DOMAIN SearchOrder} \cup {"other"}
Option == [flow : {"single", "split"}, uploads : BOOLEAN, junitxml : Places]

ASSUME SessionsAssumption ==
  /\ NoRun \notin Sessions
  /\ Options \subseteq Option
  /\ \A o \in Options : o.flow = "split" => o.uploads
  /\ Overlap \in BOOLEAN

VARIABLES
  opts,      \* per session: its command line
  pc,        \* per session: where it stands
  id,        \* per session: test_run_id, the run it reports to
  token,     \* per session: whether it holds a JWT for the update
  verdict,   \* per session: result.success, or the CI job's status
  told,      \* per session: the last word on the upload the user was given
  saved,     \* per session: history, its create left its id in the file
  sent,      \* per session: history, its final status request was sent
  wrote,     \* per session: history, its lifecycle wrote a report
  idFile,    \* _output/testrun_id.txt
  reports,   \* per place: the session whose JUnit report is there
  logFile,   \* _output/pytest-output.log: the sessions whose output it holds
  status,    \* service, per run: testRunStatus
  by,        \* service, per run: history, the session whose status it holds
  results,   \* service, per run: the sessions whose reports were stored for it
  log        \* service, per run: the sessions whose output its log holds

sessionVars == <<id, token, verdict, told, saved, sent, wrote>>
diskVars    == <<idFile, reports, logFile>>
serviceVars == <<status, by, results, log>>
vars == <<opts, pc, sessionVars, diskVars, serviceVars>>

Ended == {"exited", "killed"}
Single(s) == opts[s].flow = "single"
Final == {"SUCCESS", "FAILED"}
StatusOf(v) == IF v = "success" THEN "SUCCESS" ELSE "FAILED"

Init ==
  /\ opts \in [Sessions -> Options]
  /\ pc = [s \in Sessions |-> "idle"]
  /\ id = [s \in Sessions |-> NoRun]
  /\ token = [s \in Sessions |-> FALSE]
  /\ verdict = [s \in Sessions |-> "none"]
  /\ told = [s \in Sessions |-> "none"]
  /\ saved = [s \in Sessions |-> FALSE]
  /\ sent = [s \in Sessions |-> FALSE]
  /\ wrote = [s \in Sessions |-> FALSE]
  /\ idFile = NoRun
  /\ reports = [p \in Places |-> NoRun]
  /\ logFile = {}
  /\ status = [r \in Sessions |-> "none"]
  /\ by = [r \in Sessions |-> NoRun]
  /\ results = [r \in Sessions |-> {}]
  /\ log = [r \in Sessions |-> {}]

\* A request: "ok" was executed and answered; an error (HTTPError, URLError)
\* or a timeout while the answer is read may leave it executed or not.
Answers == [kind : {"ok", "error", "timeout"}, executed : BOOLEAN]
Possible(a) == a.kind = "ok" => a.executed

Goto(s, where) == pc' = [pc EXCEPT ![s] = where]

-----------------------------------------------------------------------------
(* Creation and the lifecycle.                                             *)

\* A single session without credentials or with --no-upload goes on without.
Begin(s) ==
  /\ pc[s] = "idle"
  /\ Overlap \/ \A t \in Sessions : pc[t] \in Ended \cup {"idle"}
  /\ Goto(s, IF opts[s].uploads THEN "create" ELSE "test")
  /\ UNCHANGED <<opts, sessionVars, diskVars, serviceVars>>

\* The id replaces the file an earlier session left.  An OSError is tolerated:
\* the old file may stay, or be gone without a new one.
IdFileAfter(s) == {s, idFile, NoRun}

\* After a failed create the single session runs the tests without upload; the
\* job of a split session skips its tests, its after_script may still run.
AfterCreate(s, ok) ==
  IF ok \/ Single(s) THEN {"test"} ELSE {"load", "exited"}

CreateRun(s) ==
  /\ pc[s] = "create"
  /\ \E a \in {x \in Answers : Possible(x)} :
       LET ok == a.kind = "ok" IN
       /\ status' = IF a.executed THEN [status EXCEPT ![s] = "STARTED"] ELSE status
       /\ id' = IF ok /\ Single(s) THEN [id EXCEPT ![s] = s] ELSE id
       /\ idFile' \in IF ok THEN IdFileAfter(s) ELSE {idFile}
       /\ saved' = [saved EXCEPT ![s] = ok /\ idFile' = s]
       /\ told' = IF ok THEN told ELSE [told EXCEPT ![s] = "warning"]
       /\ verdict' = IF ok \/ Single(s) THEN verdict ELSE [verdict EXCEPT ![s] = "failure"]
       /\ \E next \in AfterCreate(s, ok) : Goto(s, next)
  /\ UNCHANGED <<opts, token, sent, wrote, reports, logFile, by, results, log>>

\* open(log_file_path, "w"), before the lifecycle.
OpenLog(s) ==
  /\ pc[s] = "test"
  /\ logFile' = {s}
  /\ Goto(s, "lifecycle")
  /\ UNCHANGED <<opts, sessionVars, idFile, reports, serviceVars>>

\* Only a single session that holds an id goes on to the update.
AfterTests_NoIdCheck(s) ==
  IF ~opts[s].uploads THEN "exited" ELSE IF Single(s) THEN "token" ELSE "load"
AfterTests(s) ==
  IF Single(s)
  THEN IF opts[s].uploads /\ id[s] # NoRun THEN "token" ELSE "exited"
  ELSE IF opts[s].uploads THEN "load" ELSE "exited"

\* A run without any testcase leaves the file of an earlier session alone.
RunTests(s) ==
  /\ pc[s] = "lifecycle"
  /\ \E v \in {"success", "failure"} : verdict' = [verdict EXCEPT ![s] = v]
  /\ \E written \in BOOLEAN :
       /\ wrote' = [wrote EXCEPT ![s] = written]
       /\ reports' = IF written THEN [reports EXCEPT ![opts[s].junitxml] = s] ELSE reports
  /\ logFile' = logFile \cup {s}
  /\ Goto(s, AfterTests(s))
  /\ UNCHANGED <<opts, id, token, told, saved, sent, idFile, serviceVars>>

\* The lifecycle raises: a single session ends there, a split one's job fails
\* and its update step still runs.
RaiseInTests(s) ==
  /\ pc[s] = "lifecycle"
  /\ verdict' = [verdict EXCEPT ![s] = "failure"]
  /\ logFile' = logFile \cup {s}
  /\ Goto(s, IF Single(s) THEN "killed" ELSE AfterTests(s))
  /\ UNCHANGED <<opts, id, token, told, saved, sent, wrote, idFile, reports, serviceVars>>

-----------------------------------------------------------------------------
(* The update.                                                             *)

\* isvreporter update: the id comes from the file, whoever wrote it.
LoadId(s) ==
  /\ pc[s] = "load"
  /\ id' = [id EXCEPT ![s] = idFile]
  /\ told' = IF idFile = NoRun THEN [told EXCEPT ![s] = "warning"] ELSE told
  /\ Goto(s, IF idFile = NoRun THEN "exited" ELSE "token")
  /\ UNCHANGED <<opts, token, verdict, saved, sent, wrote, diskVars, serviceVars>>

\* Without a token nothing is sent.
GetToken(s) ==
  /\ pc[s] = "token"
  /\ \E ok \in BOOLEAN :
       /\ token' = [token EXCEPT ![s] = ok]
       /\ told' = IF ok THEN told ELSE [told EXCEPT ![s] = "warning"]
       /\ Goto(s, IF ok THEN "report" ELSE "exited")
  /\ UNCHANGED <<opts, id, verdict, saved, sent, wrote, diskVars, serviceVars>>

\* The first report there is in the places the test command looks in; the
\* update command is given the path the tests wrote to.
FoundIn(order) ==
  LET there == {i \in DOMAIN order : reports[order[i]] # NoRun}
  IN  IF there = {} THEN NoRun
      ELSE reports[order[CHOOSE i \in there : \A j \in there : i <= j]]
FoundReport_CwdFirst(s) ==
  IF Single(s) THEN FoundIn(<<"cwd", "workdir", "output">>) ELSE reports[opts[s].junitxml]
FoundReport(s) == IF Single(s) THEN FoundIn(SearchOrder) ELSE reports[opts[s].junitxml]

\* A failed upload is tolerated, except that the update command does not catch
\* the SystemExit an HTTPError or URLError is turned into.
AfterReport_ExitsOnError(s, kind) == IF kind = "error" THEN "exited" ELSE "status"
AfterReport_Retries(s, kind) == IF kind = "timeout" THEN "token" ELSE "status"
AfterReport(s, kind) == IF ~Single(s) /\ kind = "error" THEN "exited" ELSE "status"

NoReport(s) ==
  /\ pc[s] = "report" /\ FoundReport(s) = NoRun
  /\ Goto(s, "status")
  /\ UNCHANGED <<opts, sessionVars, diskVars, serviceVars>>

UploadReport(s) ==
  /\ pc[s] = "report" /\ FoundReport(s) # NoRun
  /\ \E a \in {x \in Answers : Possible(x)} :
       /\ results' = IF a.executed THEN [results EXCEPT ![id[s]] = @ \cup {FoundReport(s)}] ELSE results
       /\ Goto(s, AfterReport(s, a.kind))
       /\ told' = IF AfterReport(s, a.kind) = "exited" THEN [told EXCEPT ![s] = "warning"] ELSE told
  /\ UNCHANGED <<opts, id, token, verdict, saved, sent, wrote, diskVars, status, by, log>>

\* The run a session updates.
Target_FromFile(s) == IF idFile = NoRun THEN id[s] ELSE idFile
Target(s) == id[s]

LastWord_Always(kind) == "ok"
LastWord(kind) == IF kind = "ok" THEN "ok" ELSE "warning"

UpdateStatus(s) ==
  /\ pc[s] = "status"
  /\ \E a \in {x \in Answers : Possible(x)} :
       /\ IF a.executed
          THEN /\ status' = [status EXCEPT ![Target(s)] = StatusOf(verdict[s])]
               /\ by' = [by EXCEPT ![Target(s)] = s]
               /\ log' = [log EXCEPT ![Target(s)] = logFile]
          ELSE UNCHANGED <<status, by, log>>
       /\ told' = [told EXCEPT ![s] = LastWord(a.kind)]
  /\ sent' = [sent EXCEPT ![s] = TRUE]
  /\ Goto(s, "exited")
  /\ UNCHANGED <<opts, id, token, verdict, saved, wrote, diskVars, results>>

\* Killed, out of memory, Ctrl-C, at any point.
Kill(s) ==
  /\ pc[s] \notin Ended \cup {"idle"}
  /\ Goto(s, "killed")
  /\ UNCHANGED <<opts, sessionVars, diskVars, serviceVars>>

SessionStep(s) ==
  \/ CreateRun(s) \/ OpenLog(s) \/ RunTests(s) \/ RaiseInTests(s)
  \/ LoadId(s) \/ GetToken(s) \/ NoReport(s) \/ UploadReport(s) \/ UpdateStatus(s)

\* No session is left to start or to go on.
AllEnded == (\A s \in Sessions : pc[s] \in Ended) /\ UNCHANGED vars

Next == (\E s \in Sessions : Begin(s) \/ SessionStep(s) \/ Kill(s)) \/ AllEnded

\* A started process goes on: requests time out, a lifecycle run ends
\* (Termination of Orchestrator).  Nothing obliges a session to be started.
Fairness == \A s \in Sessions : WF_vars(SessionStep(s))

Spec == Init /\ [][Next]_vars /\ Fairness

-----------------------------------------------------------------------------
(* Properties.                                                             *)

\* Type invariant of the sessions, the directory and the service.
TypeOK ==
  /\ opts \in [Sessions -> Options]
  /\ pc \in [Sessions -> {"idle", "create", "test", "lifecycle", "load", "token", "report", "status"} \cup Ended]
  /\ id \in [Sessions -> Sessions \cup {NoRun}]
  /\ \A s \in Sessions : pc[s] \in {"token", "report", "status"} => id[s] # NoRun
  /\ token \in [Sessions -> BOOLEAN]
  /\ verdict \in [Sessions -> {"none", "success", "failure"}]
  /\ told \in [Sessions -> {"none", "ok", "warning"}]
  /\ saved \in [Sessions -> BOOLEAN]
  /\ sent \in [Sessions -> BOOLEAN]
  /\ wrote \in [Sessions -> BOOLEAN]
  /\ idFile \in Sessions \cup {NoRun}
  /\ reports \in [Places -> Sessions \cup {NoRun}]
  /\ logFile \subseteq Sessions
  /\ status \in [Sessions -> {"none", "STARTED"} \cup Final]
  /\ by \in [Sessions -> Sessions \cup {NoRun}]
  /\ results \in [Sessions -> SUBSET Sessions]
  /\ log \in [Sessions -> SUBSET Sessions]

\* A split session whose create left no id reads what an earlier one left.
StaleId(s) == ~Single(s) /\ ~saved[s]

\* A run that reached SUCCESS or FAILED holds the verdict of the session that
\* created it, or of a split session that found a stale id: overlapping single
\* sessions share every file and still never update each other's run.
StatusIsVerdict ==
  \A r \in Sessions : status[r] \in Final =>
    /\ by[r] \in Sessions
    /\ status[r] = StatusOf(verdict[by[r]])
    /\ by[r] = r \/ StaleId(by[r])

\* A session that ends by itself with uploads on has either told the user that
\* something was lost, or the service holds its final status: no answer, of any
\* request, that never arrives goes unmentioned (reporting.py, cli/test.py:356).
NoSilentLoss ==
  \A s \in Sessions : pc[s] = "exited" /\ opts[s].uploads /\ told[s] # "warning" =>
    /\ told[s] = "ok" /\ id[s] # NoRun
    /\ status[id[s]] \in Final
    /\ by[id[s]] = s \/ StaleId(by[id[s]])

\* reporting.py:240: the single session sends the status "even if JUnit upload
\* failed", in whatever way it failed.
TolerantUpdate ==
  \A s \in Sessions : Single(s) /\ pc[s] = "exited" /\ token[s] => sent[s]

\* With one session at a time, a session that wrote its report to the default
\* place uploads that report and no file of an earlier session, and the log it
\* attaches to its run is its own.
UploadsAreOwn ==
  \A s \in Sessions :
    /\ pc[s] = "report" /\ wrote[s] /\ (Single(s) => opts[s].junitxml = "output") => FoundReport(s) = s
    /\ Single(s) /\ by[s] = s => log[s] = {s}

\* A started session ends, however its requests fare.
SessionsEnd == \A s \in Sessions : (pc[s] # "idle") ~> (pc[s] \in Ended)

-----------------------------------------------------------------------------
(* What the documentation says, and the code does not keep.                *)

\* client.py:230 calls test_run_id the "Test run ID to report results for": a
\* run gets the results of its own session.
ResultsOfOwnRun == \A r \in Sessions : results[r] \subseteq {r}
=============================================================================
