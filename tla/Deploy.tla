------------------------------- MODULE Deploy --------------------------------
(***************************************************************************)
(* "isvctl deploy run" (cli/deploy.py, remote/): deployments started on    *)
(* one machine pack the suite into one archive in /tmp, copy it to a host, *)
(* unpack it and run the tests there, fetch the log and the JUnit report   *)
(* and report to the lab service.                                          *)
(*                                                                         *)
(* The script on the host is a process of its own: it goes on when the     *)
(* connection to it is lost, and none of its commands stops it by failing. *)
(***************************************************************************)
EXTENDS Naturals, FiniteSets

CONSTANTS Deployments,   \* a deployment creates at most one test run, named after it
          NoOne,         \* no file, or bytes nobody can read
          Dirs, Hosts,   \* the working directories and the hosts they deploy to
          Options        \* the command lines: [dir, host, uploads, cleanup]

Option == [dir : Dirs, host : Hosts, uploads : BOOLEAN, cleanup : BOOLEAN]
ASSUME DeployAssumption ==
  /\ NoOne \notin Deployments
  /\ Options \subseteq Option

VARIABLES
  opts,                    \* per deployment: its command line
  pc,                      \* per deployment: where it stands on this machine
  archive,                 \* the file in /tmp: the deployments whose bytes it holds
  copy, tree,              \* per host: the archive, and the suite unpacked last
  log, junit,              \* per host: whose tests wrote the log, the report
  localLog, localJunit,    \* per directory: the same, as fetched
  script,                  \* per deployment: where its script stands on the host
  status,                  \* service, per run: none, STARTED or ENDED
  marks,                   \* per deployment: what has happened to it, see Marks
  tested, met              \* per deployment: history, the suite unpacked for it, who was under way with it

\* created: it holds a run's id; fetched: local_junit is set; told: a warning
\* about the upload.  History: the connection was lost, its tests wrote a
\* report, the log was fetched.
Marks == {"created", "fetched", "told", "lost", "wrote", "logged"}

hostVars    == <<copy, tree, log, junit>>
localVars   == <<localLog, localJunit>>
vars == <<opts, pc, archive, hostVars, localVars, script, status, marks, tested, met>>

Dir(d) == opts[d].dir
Host(d) == opts[d].host
Ended == {"exited", "stopped"}
UnderWay(d) == pc[d] \notin {"idle"} \cup Ended \/ script[d] \in {"unpack", "test"}
Somebody == Deployments \cup {NoOne}
Per(set, value) == [x \in set |-> value]

Init ==
  /\ opts \in [Deployments -> Options]
  /\ pc = Per(Deployments, "idle") /\ script = pc
  /\ archive = {}
  /\ copy = Per(Hosts, NoOne) /\ tree = copy /\ log = copy /\ junit = copy
  /\ localLog = Per(Dirs, NoOne) /\ localJunit = localLog
  /\ status = Per(Deployments, "none")
  /\ marks = Per(Deployments, {}) /\ met = marks
  /\ tested = Per(Deployments, NoOne)

Goto(d, where) == pc' = [pc EXCEPT ![d] = where]
Mark(d, set) == marks' = [marks EXCEPT ![d] = @ \cup set]

\* The way out, through the finally that unlinks the archive.
Exit_KeepsArchive(d) == Goto(d, "exited") /\ UNCHANGED archive  \* mutant: the unlink is not in a finally
Exit(d) == Goto(d, "exited") /\ archive' = {}

------------------------------------------------------------------------------
(* The archive.                                                            *)

\* tar truncates the file; another tar that is still writing it goes on, so
\* the bytes of both end up in it.
Begin(d) ==
  /\ pc[d] = "idle"
  /\ Goto(d, "pack")
  /\ archive' = {d} \cup {e \in archive : pc[e] = "pack"}
  /\ LET others == {e \in Deployments \ {d} : UnderWay(e)}
     IN met' = [e \in Deployments |-> IF e = d THEN others ELSE IF e \in others THEN met[e] \cup {d} ELSE met[e]]
  /\ UNCHANGED <<opts, hostVars, localVars, script, status, marks, tested>>

\* The archive counts as created if the file is there afterwards, whoever
\* wrote it; it is not if tar failed or another deployment has unlinked it.
Pack(d) ==
  /\ pc[d] = "pack"
  /\ \/ archive # {} /\ Goto(d, "send") /\ UNCHANGED archive
     \/ Exit(d)
  /\ UNCHANGED <<opts, hostVars, localVars, script, status, marks, tested, met>>

Readable_Mixed == archive  \* mutant: the bytes of two are unpacked together
\* What can be unpacked: the bytes of one deployment that has written them all.
Readable == IF \E e \in Deployments : archive = {e} /\ pc[e] # "pack" THEN CHOOSE e \in archive : TRUE ELSE NoOne

\* The connection, the remote directory and uv are looked at first.
Send(d) ==
  /\ pc[d] = "send"
  /\ \/ /\ archive # {}
        /\ copy' = [copy EXCEPT ![Host(d)] = Readable]
        /\ Goto(d, "create") /\ UNCHANGED archive
     \/ copy' \in {copy, [copy EXCEPT ![Host(d)] = NoOne]} /\ Exit(d)
  /\ UNCHANGED <<opts, tree, log, junit, localVars, script, status, marks, tested, met>>

------------------------------------------------------------------------------
(* The run at the lab service, and the script on the host.                 *)

\* The request may be executed and not answered: the tests go on without upload.
CreateRun(d) ==
  \/ ~opts[d].uploads /\ UNCHANGED <<status, marks>>
  \/ opts[d].uploads /\ status' = [status EXCEPT ![d] = "STARTED"] /\ Mark(d, {"created"})
  \/ opts[d].uploads /\ status' \in {status, [status EXCEPT ![d] = "STARTED"]} /\ Mark(d, {"told"})

Execute(d) ==
  /\ pc[d] = "create"
  /\ CreateRun(d)
  /\ Goto(d, "wait")
  /\ script' = [script EXCEPT ![d] = "unpack"]
  /\ UNCHANGED <<opts, archive, hostVars, localVars, tested, met>>

\* ssh returns 255, before the script was started or while it goes on.
LoseConnection(d) ==
  /\ pc[d] = "wait" /\ script[d] # "done"
  /\ script' \in {script, [script EXCEPT ![d] = "done"]}
  /\ Mark(d, {"lost"}) /\ Goto(d, "fetch")
  /\ UNCHANGED <<opts, archive, hostVars, localVars, status, tested, met>>

Unpacked_OldKept(d) ==  \* mutant: tar leaves alone the files that are there
  IF tree[Host(d)] = NoOne THEN copy[Host(d)] ELSE tree[Host(d)]
Unpacked(d) == copy[Host(d)]

\* The script has no "set -e": when tar fails, at once or halfway, the tests run
\* on what is there.  tee empties the log as they start.
Unpack(d) ==
  /\ script[d] = "unpack"
  /\ \/ /\ copy[Host(d)] # NoOne
        /\ tree' = [tree EXCEPT ![Host(d)] = Unpacked(d)]
        /\ tested' = [tested EXCEPT ![d] = Unpacked(d)]
     \/ /\ tree' \in {tree, [tree EXCEPT ![Host(d)] = NoOne]}
        /\ UNCHANGED tested
  /\ log' = [log EXCEPT ![Host(d)] = d]
  /\ script' = [script EXCEPT ![d] = "test"]
  /\ UNCHANGED <<opts, pc, archive, copy, junit, localVars, status, marks, met>>

\* Whatever ends the tests, they may have written no report.
EndTests(d) ==
  /\ script[d] = "test"
  /\ script' = [script EXCEPT ![d] = "done"]
  /\ \/ junit' = [junit EXCEPT ![Host(d)] = d] /\ Mark(d, {"wrote"})
     \/ UNCHANGED <<junit, marks>>
  /\ IF pc[d] = "wait" THEN Goto(d, "fetch") ELSE UNCHANGED pc
  /\ UNCHANGED <<opts, archive, copy, tree, log, localVars, status, tested, met>>

------------------------------------------------------------------------------
(* The results.                                                            *)

\* scp fails if there is nothing, or for its own reasons; what was fetched
\* before then stays in the directory.
FetchTo(local, dir, file, got) ==
  /\ got => file # NoOne
  /\ local' = IF got THEN [local EXCEPT ![dir] = file] ELSE local

\* local_junit is reset when no report was fetched.
HasReport_PathKept(got) == TRUE  \* mutant: it is not
HasReport(got) == got

Fetch(d) ==
  /\ pc[d] = "fetch"
  /\ \E gotLog, gotJunit \in BOOLEAN :
       /\ FetchTo(localLog, Dir(d), log[Host(d)], gotLog)
       /\ FetchTo(localJunit, Dir(d), junit[Host(d)], gotJunit)
       /\ Mark(d, {m \in {"logged", "fetched"} : IF m = "logged" THEN gotLog ELSE HasReport(gotJunit)})
  /\ Goto(d, IF "created" \in marks[d] THEN "update" ELSE "finish")
  /\ UNCHANGED <<opts, archive, hostVars, script, status, tested, met>>

LastWord_Silent(d, answered) == UNCHANGED marks  \* mutant: the result of update_test_run is not read
LastWord(d, answered) == IF answered THEN UNCHANGED marks ELSE Mark(d, {"told"})

\* update_test_run sends the report if one was fetched, and whatever log lies
\* in the directory; a request may be executed and not answered.
Update(d) ==
  /\ pc[d] = "update"
  /\ \E executed, answered \in BOOLEAN :
       /\ answered => executed
       /\ status' = IF executed THEN [status EXCEPT ![d] = "ENDED"] ELSE status
       /\ LastWord(d, answered)
  /\ Goto(d, "finish")
  /\ UNCHANGED <<opts, archive, hostVars, localVars, script, tested, met>>

\* --cleanup removes the log that is there, and the report it has fetched.
Finish(d) ==
  /\ pc[d] = "finish"
  /\ localLog' = IF opts[d].cleanup THEN [localLog EXCEPT ![Dir(d)] = NoOne] ELSE localLog
  /\ localJunit' = IF opts[d].cleanup /\ "fetched" \in marks[d]
                   THEN [localJunit EXCEPT ![Dir(d)] = NoOne] ELSE localJunit
  /\ Exit(d)
  /\ UNCHANGED <<opts, hostVars, script, status, marks, tested, met>>

\* Killed, or Ctrl-C with its finally, at any point, tar and ssh with it; the
\* script on the host may go on.
Stop(d) ==
  /\ pc[d] \notin {"idle"} \cup Ended
  /\ Goto(d, "stopped")
  /\ archive' \in {archive, {}}
  /\ UNCHANGED <<opts, hostVars, localVars, script, status, marks, tested, met>>

Step(d) ==
  \/ Begin(d) \/ Pack(d) \/ Send(d) \/ Execute(d)
  \/ LoseConnection(d) \/ Unpack(d) \/ EndTests(d)
  \/ Fetch(d) \/ Update(d) \/ Finish(d) \/ Stop(d)

\* Nobody is left to start or to go on.
AllEnded == (\A d \in Deployments : pc[d] \in Ended /\ ~UnderWay(d)) /\ UNCHANGED vars

Next == (\E d \in Deployments : Step(d)) \/ AllEnded

Spec == Init /\ [][Next]_vars

------------------------------------------------------------------------------
(* Properties.                                                             *)

TypeOK ==
  /\ opts \in [Deployments -> Options]
  /\ pc \in [Deployments -> {"idle", "pack", "send", "create", "wait", "fetch", "update", "finish"} \cup Ended]
  /\ archive \subseteq Deployments
  /\ {copy, tree, log, junit} \subseteq [Hosts -> Somebody]
  /\ {localLog, localJunit} \subseteq [Dirs -> Somebody]
  /\ script \in [Deployments -> {"idle", "unpack", "test", "done"}]
  /\ status \in [Deployments -> {"none", "STARTED", "ENDED"}]
  /\ marks \in [Deployments -> SUBSET Marks] /\ met \in [Deployments -> SUBSET Deployments]
  /\ tested \in [Deployments -> Somebody]

Alone(d) == met[d] = {}

\* Whatever earlier deployments have left in /tmp and on the host, one that
\* nobody was under way with unpacks its own suite, or tar fails.
OwnSuite == \A d \in Deployments : Alone(d) => tested[d] \in {d, NoOne}

\* What it has fetched, and is about to upload, is of its own tests: of others
\* it is only the report when its tests have written none, only the log when
\* none was fetched, and either when the connection was lost.
OwnResults ==
  \A d \in Deployments :
    pc[d] \in {"update", "finish"} /\ Alone(d) /\ "lost" \notin marks[d] =>
      /\ {"fetched", "wrote"} \subseteq marks[d] => localJunit[Dir(d)] = d
      /\ "logged" \in marks[d] => localLog[Dir(d)] = d

\* No run is left STARTED without a warning by a deployment that has exited.
OpenRunIsTold == \A d \in Deployments : pc[d] = "exited" /\ status[d] = "STARTED" => "told" \in marks[d]

\* However deployments overlap and fail, once all of them have left by
\* themselves the archive is gone.
ArchiveRemoved == (\A d \in Deployments : pc[d] \in {"idle", "exited"}) => archive = {}
==============================================================================
