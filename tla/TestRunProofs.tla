---------------------------- MODULE TestRunProofs ----------------------------
(***************************************************************************)
(* Theorems about TestRun for any set of sessions.  Types and the tolerant *)
(* update hold however the sessions overlap; the verdicts in the two       *)
(* settings where the status of a run can be trusted, one session at a     *)
(* time in the directory or single sessions only; the uploads in the first.*)
(***************************************************************************)
EXTENDS TestRun, TLAPS

-----------------------------------------------------------------------------
(* Types.                                                                  *)

LEMMA FlowCases ==
  ASSUME TypeOK, NEW s \in Sessions
  PROVE  /\ opts[s] \in Option
         /\ opts[s].uploads \in BOOLEAN /\ opts[s].junitxml \in Places
         /\ ~Single(s) => opts[s].flow = "split" /\ opts[s].uploads
BY SessionsAssumption DEF TypeOK, Option, Single

\* Whatever order the places are searched in, what is found is a session's.
LEMMA FoundType ==
  ASSUME TypeOK, NEW s \in Sessions, FoundReport(s) # NoRun
  PROVE  FoundReport(s) \in Sessions
<1>1. opts[s].junitxml \in Places /\ \A i \in DOMAIN SearchOrder : SearchOrder[i] \in Places
  BY FlowCases DEF Places
<1>2. CASE ~Single(s)
  BY <1>1, <1>2 DEF TypeOK, FoundReport
<1>3. CASE Single(s)
  <2> DEFINE there == {i \in DOMAIN SearchOrder : reports[SearchOrder[i]] # NoRun}
             first == CHOOSE i \in there : \A j \in there : i <= j
  <2>1. there # {} /\ FoundReport(s) = reports[SearchOrder[first]]
    BY <1>3 DEF FoundReport, FoundIn
  <2>2. there \subseteq {1, 2, 3}
    BY DEF SearchOrder
  <2>3. \E i \in there : \A j \in there : i <= j
    <3>1. CASE 1 \in there  BY <2>2, <3>1
    <3>2. CASE 1 \notin there /\ 2 \in there  BY <2>2, <3>2
    <3>3. CASE 1 \notin there /\ 2 \notin there  BY <2>1, <2>2, <3>3
    <3> QED  BY <3>1, <3>2, <3>3
  <2>4. first \in there
    BY <2>3
  <2> QED
    BY <2>1, <2>4, <1>1 DEF TypeOK
<1> QED
  BY <1>2, <1>3

LEMMA TypeInit == ASSUME Init PROVE TypeOK
BY SessionsAssumption DEF Init, TypeOK, Ended, Final, Places

LEMMA TypeStep == ASSUME TypeOK, [Next]_vars PROVE TypeOK'
<1> USE DEF Goto, Ended
<1>1. ASSUME NEW s \in Sessions, Begin(s) PROVE TypeOK'
  BY <1>1 DEF Begin, TypeOK, sessionVars, diskVars, serviceVars
<1>2. ASSUME NEW s \in Sessions, CreateRun(s) PROVE TypeOK'
  BY <1>2 DEF CreateRun, TypeOK, AfterCreate, IdFileAfter, Answers
<1>3. ASSUME NEW s \in Sessions, OpenLog(s) PROVE TypeOK'
  BY <1>3 DEF OpenLog, TypeOK, sessionVars, serviceVars
<1>4. ASSUME NEW s \in Sessions, RunTests(s) PROVE TypeOK'
  BY <1>4, FlowCases DEF RunTests, TypeOK, AfterTests, serviceVars
<1>5. ASSUME NEW s \in Sessions, RaiseInTests(s) PROVE TypeOK'
  BY <1>5, FlowCases DEF RaiseInTests, TypeOK, AfterTests, serviceVars
<1>6. ASSUME NEW s \in Sessions, LoadId(s) PROVE TypeOK'
  BY <1>6 DEF LoadId, TypeOK, diskVars, serviceVars
<1>7. ASSUME NEW s \in Sessions, GetToken(s) PROVE TypeOK'
  BY <1>7 DEF GetToken, TypeOK, diskVars, serviceVars
<1>8. ASSUME NEW s \in Sessions, NoReport(s) PROVE TypeOK'
  BY <1>8 DEF NoReport, TypeOK, sessionVars, diskVars, serviceVars
<1>9. ASSUME NEW s \in Sessions, UploadReport(s) PROVE TypeOK'
  <2>1. FoundReport(s) \in Sessions /\ id[s] \in Sessions
    BY <1>9, FoundType DEF UploadReport, TypeOK
  <2>2. results' \in [Sessions -> SUBSET Sessions]
    BY <1>9, <2>1 DEF UploadReport, TypeOK
  <2>3. pc' \in [Sessions -> {"idle", "create", "test", "lifecycle", "load", "token", "report", "status"} \cup Ended]
        /\ \A t \in Sessions : pc'[t] \in {"token", "report", "status"} => id[t] # NoRun
    BY <1>9 DEF UploadReport, TypeOK, AfterReport
  <2>4. told' \in [Sessions -> {"none", "ok", "warning"}]
    BY <1>9 DEF UploadReport, TypeOK
  <2> QED
    BY <1>9, <2>2, <2>3, <2>4 DEF UploadReport, TypeOK, diskVars
<1>10. ASSUME NEW s \in Sessions, UpdateStatus(s) PROVE TypeOK'
  BY <1>10 DEF UpdateStatus, TypeOK, Target, LastWord, StatusOf, Final, diskVars, Answers
<1>11. ASSUME NEW s \in Sessions, Kill(s) PROVE TypeOK'
  BY <1>11 DEF Kill, TypeOK, sessionVars, diskVars, serviceVars
<1>12. CASE UNCHANGED vars
  BY <1>12 DEF TypeOK, vars, sessionVars, diskVars, serviceVars, Single
<1> QED
  BY <1>1, <1>2, <1>3, <1>4, <1>5, <1>6, <1>7, <1>8, <1>9, <1>10, <1>11, <1>12
     DEF Next, SessionStep, AllEnded

\* Sessions, files and service keep their types, however requests fare.
THEOREM TypeCorrect == Spec => []TypeOK
<1>1. Init => TypeOK  BY TypeInit
<1>2. TypeOK /\ [Next]_vars => TypeOK'  BY TypeStep
<1> QED  BY <1>1, <1>2, PTL DEF Spec

-----------------------------------------------------------------------------
(* The inductive invariant behind StatusIsVerdict and NoSilentLoss.        *)

\* Where the owner of a status can be known.
Separate == ~Overlap \/ \A o \in Options : o.flow = "single"

Active(s) == pc[s] \notin Ended \cup {"idle"}

Alone == ~Overlap => \A s, t \in Sessions : Active(s) /\ Active(t) => s = t

\* No id is around before its run was created.
Ids ==
  /\ idFile # NoRun => pc[idFile] \notin {"idle", "create"}
  /\ \A s \in Sessions : id[s] # NoRun => pc[id[s]] \notin {"idle", "create"}
  /\ \A s \in Sessions : pc[s] \in {"idle", "create"} => id[s] = NoRun /\ ~saved[s]
  /\ \A s \in Sessions : Single(s) => id[s] \in {NoRun, s} /\ pc[s] # "load"

\* What the id file does for a split session that saved its id, and that an id
\* another session left belongs to a session that has ended.
Files ==
  /\ \A s \in Sessions : ~Single(s) /\ saved[s] => (Active(s) => idFile = s) /\ id[s] \in {NoRun, s}
  /\ \A s \in Sessions : id[s] \notin {NoRun, s} => pc[id[s]] \in Ended

Setters ==
  \A r \in Sessions :
    /\ by[r] # NoRun => pc[by[r]] = "exited" /\ id[by[r]] = r
    /\ status[r] \in Final => by[r] # NoRun /\ status[r] = StatusOf(verdict[by[r]])

Warned ==
  \A s \in Sessions :
    /\ Single(s) /\ opts[s].uploads /\ pc[s] \in {"test", "lifecycle"} /\ id[s] = NoRun => told[s] = "warning"
    /\ pc[s] = "exited" /\ opts[s].uploads => told[s] \in {"ok", "warning"}

Stored ==
  \A s \in Sessions : told[s] = "ok" =>
    /\ pc[s] = "exited" /\ id[s] # NoRun /\ status[id[s]] \in Final
    /\ by[id[s]] = s \/ StaleId(by[id[s]])

IInv == TypeOK /\ Alone /\ Ids /\ Files /\ Setters /\ Warned /\ Stored

\* With overlapping sessions, Separate leaves only single ones.
LEMMA SplitAlone ==
  ASSUME Separate, TypeOK, NEW s \in Sessions, ~Single(s)
  PROVE  ~Overlap
BY DEF Separate, TypeOK, Single

LEMMA IInvInit == ASSUME Init PROVE IInv
<1>1. TypeOK  BY TypeInit
<1>2. Alone /\ Ids /\ Files /\ Setters /\ Warned /\ Stored
  BY DEF Init, Alone, Active, Ids, Files, Setters, Warned, Stored, Final, Ended
<1> QED  BY <1>1, <1>2 DEF IInv

\* No step starts a session next to an active one.
LEMMA AloneStep == ASSUME TypeOK, Alone, [Next]_vars PROVE Alone'
<1> USE DEF Goto, Ended, Active, TypeOK
<1>1. ASSUME NEW s \in Sessions, Begin(s) PROVE Alone'
  BY <1>1 DEF Begin, Alone
<1>2. ASSUME NEW s \in Sessions, SessionStep(s) \/ Kill(s) PROVE Active(s) /\ \A t \in Sessions \ {s} : pc'[t] = pc[t]
  BY <1>2 DEF SessionStep, Kill, CreateRun, OpenLog, RunTests, RaiseInTests, LoadId, GetToken, NoReport,
              UploadReport, UpdateStatus
<1>3. ASSUME NEW s \in Sessions, SessionStep(s) \/ Kill(s) PROVE Alone'
  BY <1>2, <1>3 DEF Alone
<1>4. CASE UNCHANGED vars
  BY <1>4 DEF Alone, vars
<1> QED
  BY <1>1, <1>3, <1>4 DEF Next, AllEnded

\* Begin, Kill, OpenLog and NoReport only move the session and truncate the log.
LEMMA MoveStep ==
  ASSUME IInv, TypeOK', NEW s \in Sessions,
         Begin(s) \/ Kill(s) \/ OpenLog(s) \/ NoReport(s)
  PROVE  Ids' /\ Files' /\ Setters' /\ Warned' /\ Stored'
<1> USE DEF IInv, TypeOK, Goto, Ended, Begin, Kill, OpenLog, NoReport, sessionVars, diskVars, serviceVars, Single
<1>1. Ids'
  <2>1. \A t \in Sessions : pc'[t] \in {"idle", "create"} => pc[t] \in {"idle", "create"}
    OBVIOUS
  <2>2. \A t \in Sessions : pc'[t] = "load" => pc[t] = "load"
    OBVIOUS
  <2>3. UNCHANGED <<id, idFile, saved, opts>>
    OBVIOUS
  <2>4. \A r \in Sessions : pc[r] \notin {"idle", "create"} => pc'[r] \notin {"idle", "create"}
    BY <2>1
  <2>5. opts' = opts /\ id' = id /\ saved' = saved /\ idFile' = idFile
    BY <2>3
  <2> HIDE DEF Begin, Kill, OpenLog, NoReport
  <2> QED  BY <2>1, <2>2, <2>4, <2>5 DEF Ids
<1>2. Files'
  <2>1. \A t \in Sessions : saved[t] /\ Active(t)' => Active(t)
    BY DEF Active, Ids
  <2>2. \A r \in Sessions : pc[r] \in Ended => pc'[r] \in Ended
    OBVIOUS
  <2>3. opts' = opts /\ id' = id /\ saved' = saved /\ idFile' = idFile
    OBVIOUS
  <2> HIDE DEF Begin, Kill, OpenLog, NoReport, Ended
  <2> QED  BY <2>1, <2>2, <2>3 DEF Files
<1>3. Setters'  BY DEF Setters
<1>4. Warned'   BY DEF Warned
<1>5. Stored'   BY DEF Stored, StaleId
<1> QED  BY <1>1, <1>2, <1>3, <1>4, <1>5

LEMMA CreateStep ==
  ASSUME Separate, IInv, TypeOK', NEW s \in Sessions, CreateRun(s)
  PROVE  Ids' /\ Files' /\ Setters' /\ Warned' /\ Stored'
<1> USE SessionsAssumption DEF IInv, TypeOK, Goto, Ended, CreateRun, AfterCreate, IdFileAfter, Single
<1>1. Ids'  BY DEF Ids
<1>2. Files'
  <2>1. \A t \in Sessions : ~Single(t) /\ saved'[t] => (Active(t)' => idFile' = t) /\ id'[t] \in {NoRun, t}
    BY SplitAlone DEF Files, Active, Ids, Alone
  <2>2. \A t \in Sessions : id'[t] \notin {NoRun, t} => pc'[id'[t]] \in Ended
    BY DEF Files, Ids
  <2> QED  BY <2>1, <2>2 DEF Files
<1>3. Setters'
  BY DEF Setters, Final
<1>4. Warned'  BY DEF Warned
<1>5. Stored'  BY DEF Stored, StaleId, Ids, Setters, Final
<1> QED  BY <1>1, <1>2, <1>3, <1>4, <1>5

LEMMA TestsStep ==
  ASSUME IInv, TypeOK', NEW s \in Sessions, RunTests(s) \/ RaiseInTests(s)
  PROVE  Ids' /\ Files' /\ Setters' /\ Warned' /\ Stored'
<1> USE SessionsAssumption DEF IInv, TypeOK, Goto, Ended, RunTests, RaiseInTests, AfterTests, serviceVars
<1>1. Ids'      BY DEF Ids, Single
<1>2. Files'    BY DEF Files, Active, Single
<1>3. Setters'  BY DEF Setters
<1>4. Warned'   BY FlowCases DEF Warned, Single
<1>5. Stored'   BY DEF Stored, StaleId, Single
<1> QED  BY <1>1, <1>2, <1>3, <1>4, <1>5

LEMMA LoadStep ==
  ASSUME Separate, IInv, TypeOK', NEW s \in Sessions, LoadId(s)
  PROVE  Ids' /\ Files' /\ Setters' /\ Warned' /\ Stored'
<1> USE SessionsAssumption DEF IInv, TypeOK, Goto, Ended, LoadId, diskVars, serviceVars
<1>0. ~Single(s) /\ ~Overlap
  BY SplitAlone DEF Ids
<1>1. Ids'      BY <1>0 DEF Ids, Single
<1>2. Files'    BY <1>0 DEF Files, Active, Single, Alone, Ids
<1>3. Setters'  BY DEF Setters
<1>4. Warned'   BY DEF Warned, Single
<1>5. Stored'   BY DEF Stored, StaleId, Single
<1> QED  BY <1>1, <1>2, <1>3, <1>4, <1>5

LEMMA SendStep ==
  ASSUME IInv, TypeOK', NEW s \in Sessions, GetToken(s) \/ UploadReport(s)
  PROVE  Ids' /\ Files' /\ Setters' /\ Warned' /\ Stored'
<1> USE DEF IInv, TypeOK, Goto, Ended, GetToken, UploadReport, AfterReport, diskVars, serviceVars
<1>1. Ids'      BY DEF Ids, Single
<1>2. Files'    BY DEF Files, Active, Single
<1>3. Setters'  BY DEF Setters
<1>4. Warned'   BY DEF Warned, Single
<1>5. Stored'   BY DEF Stored, StaleId, Single
<1> QED  BY <1>1, <1>2, <1>3, <1>4, <1>5

LEMMA UpdateStep ==
  ASSUME Separate, IInv, TypeOK', NEW s \in Sessions, UpdateStatus(s)
  PROVE  Ids' /\ Files' /\ Setters' /\ Warned' /\ Stored'
<1> USE SessionsAssumption DEF IInv, TypeOK, Goto, Ended, UpdateStatus, Target, LastWord, diskVars
<1>1. Ids'      BY DEF Ids, Single
<1>2. Files'    BY DEF Files, Active, Single
<1>3. Setters'
  BY DEF Setters, Final, StatusOf
<1>4. Warned'   BY DEF Warned, Single
<1>5. Stored'
  \* Another session told "ok" about this run: this one read its id from the file.
  <2>1. ASSUME NEW t \in Sessions, t # s, told[t] = "ok", id[t] = id[s] PROVE StaleId(s)
    <3>1. SUFFICES ASSUME ~StaleId(s) PROVE FALSE
      OBVIOUS
    <3>2. id[s] = s
      BY <3>1 DEF StaleId, Ids, Files
    <3>3. pc[s] \in Ended
      BY <2>1, <3>2 DEF Files
    <3> QED  BY <3>3
  <2>2. ASSUME NEW t \in Sessions, t # s, told'[t] = "ok"
        PROVE  /\ pc'[t] = "exited" /\ id'[t] # NoRun /\ status'[id'[t]] \in Final
               /\ by'[id'[t]] = t \/ StaleId(by'[id'[t]])
    <3>1. /\ told[t] = "ok" /\ pc[t] = "exited" /\ id[t] # NoRun /\ status[id[t]] \in Final
          /\ by[id[t]] = t \/ StaleId(by[id[t]])
      BY <2>2 DEF Stored
    <3>2. id' = id /\ pc'[t] = "exited"
      BY <2>2, <3>1
    <3>3. CASE id[t] = id[s]
      <4>1. StaleId(s)  BY <2>1, <2>2, <3>1, <3>3
      <4>2. \/ status' = status /\ by' = by
            \/ status'[id[s]] = StatusOf(verdict[s]) /\ by'[id[s]] = s
        BY <3>1, <3>3
      <4> QED  BY <3>1, <3>2, <3>3, <4>1, <4>2 DEF StatusOf, Final
    <3>4. CASE id[t] # id[s]
      <4>1. status'[id[t]] = status[id[t]] /\ by'[id[t]] = by[id[t]]
        BY <3>1, <3>4
      <4> QED  BY <3>1, <3>2, <4>1
    <3> QED  BY <3>3, <3>4
  <2>3. told'[s] = "ok" => /\ pc'[s] = "exited" /\ id'[s] # NoRun /\ status'[id'[s]] \in Final /\ by'[id'[s]] = s
    BY DEF Answers, Possible, StatusOf, Final
  <2>4. SUFFICES ASSUME NEW t \in Sessions, told'[t] = "ok"
                 PROVE  /\ pc'[t] = "exited" /\ id'[t] # NoRun /\ status'[id'[t]] \in Final
                        /\ by'[id'[t]] = t \/ StaleId(by'[id'[t]])
    <3>1. opts' = opts /\ saved' = saved
      OBVIOUS
    <3> QED  BY <3>1, <2>4 DEF Stored, StaleId, Single
  <2> QED  BY <2>2, <2>3, <2>4
<1> QED  BY <1>1, <1>2, <1>3, <1>4, <1>5

LEMMA IInvStep == ASSUME Separate, IInv, [Next]_vars PROVE IInv'
<1>1. TypeOK' /\ Alone'
  BY TypeStep, AloneStep DEF IInv
<1>2. CASE UNCHANGED vars
  BY <1>1, <1>2 DEF IInv, vars, sessionVars, diskVars, serviceVars, Ids, Files, Active, Setters, Warned, Stored,
                    StaleId, Single
<1>3. ASSUME NEW s \in Sessions, Begin(s) \/ SessionStep(s) \/ Kill(s) PROVE IInv'
  BY <1>1, <1>3, MoveStep, CreateStep, TestsStep, LoadStep, SendStep, UpdateStep DEF SessionStep, IInv
<1> QED
  BY <1>2, <1>3 DEF Next, AllEnded

LEMMA Consequences == ASSUME Separate, IInv PROVE StatusIsVerdict /\ NoSilentLoss
<1>1. StatusIsVerdict
  BY SessionsAssumption DEF IInv, TypeOK, Ids, Files, Setters, StatusIsVerdict, StaleId
<1>2. NoSilentLoss
  BY DEF IInv, TypeOK, Warned, Stored, NoSilentLoss
<1> QED  BY <1>1, <1>2

\* A finished run holds the verdict of its own session, or of a split session
\* that found a stale id, for any number of sessions.
THEOREM VerdictsAreOwn ==
  ASSUME Separate
  PROVE  Spec => []StatusIsVerdict
<1>1. Init => IInv  BY IInvInit
<1>2. IInv /\ [Next]_vars => IInv'  BY IInvStep
<1>3. IInv => StatusIsVerdict  BY Consequences
<1> QED  BY <1>1, <1>2, <1>3, PTL DEF Spec

\* Every session that ends by itself has seen its status stored or has said
\* that something was lost.
THEOREM LossIsTold ==
  ASSUME Separate
  PROVE  Spec => []NoSilentLoss
<1>1. Init => IInv  BY IInvInit
<1>2. IInv /\ [Next]_vars => IInv'  BY IInvStep
<1>3. IInv => NoSilentLoss  BY Consequences
<1> QED  BY <1>1, <1>2, <1>3, PTL DEF Spec

-----------------------------------------------------------------------------
(* What is sent, and whose files it is made of.                            *)

\* A session holds a token from GetToken on, and a single one that exits with
\* it has been through UpdateStatus.
Sending ==
  \A s \in Sessions :
    /\ token[s] => pc[s] \in {"report", "status"} \cup Ended
    /\ Single(s) /\ pc[s] = "exited" /\ token[s] => sent[s]

LEMMA SendingStep == ASSUME TypeOK, Sending, [Next]_vars PROVE Sending'
<1> USE DEF TypeOK, Sending, Goto, Ended, Single
<1>1. ASSUME NEW s \in Sessions, Begin(s) \/ Kill(s) \/ OpenLog(s) \/ NoReport(s) PROVE Sending'
  BY <1>1 DEF Begin, Kill, OpenLog, NoReport, sessionVars
<1>2. ASSUME NEW s \in Sessions, CreateRun(s) PROVE Sending'
  BY <1>2 DEF CreateRun, AfterCreate
<1>3. ASSUME NEW s \in Sessions, RunTests(s) \/ RaiseInTests(s) \/ LoadId(s) PROVE Sending'
  BY <1>3 DEF RunTests, RaiseInTests, LoadId, AfterTests
<1>4. ASSUME NEW s \in Sessions, GetToken(s) PROVE Sending'
  BY <1>4 DEF GetToken
<1>5. ASSUME NEW s \in Sessions, UploadReport(s) PROVE Sending'
  BY <1>5 DEF UploadReport, AfterReport
<1>6. ASSUME NEW s \in Sessions, UpdateStatus(s) PROVE Sending'
  BY <1>6 DEF UpdateStatus
<1>7. CASE UNCHANGED vars
  BY <1>7 DEF vars, sessionVars
<1> QED  BY <1>1, <1>2, <1>3, <1>4, <1>5, <1>6, <1>7 DEF Next, SessionStep, AllEnded

\* A single session that has a token sends the final status, in whatever way
\* the upload of its report has failed.
THEOREM UpdateIsTolerant == Spec => []TolerantUpdate
<1>1. Init => TypeOK /\ Sending
  BY TypeInit DEF Init, Sending
<1>2. (TypeOK /\ Sending) /\ [Next]_vars => (TypeOK /\ Sending)'
  BY TypeStep, SendingStep
<1>3. Sending => TolerantUpdate
  BY DEF Sending, TolerantUpdate
<1> QED  BY <1>1, <1>2, <1>3, PTL DEF Spec

\* With nobody else about, the files a session has written are still there.
OwnFiles ==
  \A s \in Sessions :
    /\ Active(s) /\ wrote[s] => reports[opts[s].junitxml] = s
    /\ wrote[s] => pc[s] \notin {"idle", "create", "test", "lifecycle"}
    /\ Single(s) /\ Active(s) /\ pc[s] \notin {"create", "test"} => logFile = {s}
    /\ Single(s) => pc[s] # "load"
    /\ Single(s) /\ by[s] = s => log[s] = {s}

LEMMA OwnFilesStep ==
  ASSUME ~Overlap, TypeOK, Alone, OwnFiles, [Next]_vars
  PROVE  OwnFiles'
<1> USE DEF TypeOK, OwnFiles, Goto, Ended, Single, Active
<1>0. \A s, t \in Sessions : Active(s) /\ Active(t) => s = t
  BY DEF Alone
<1>1. ASSUME NEW s \in Sessions, Begin(s) PROVE OwnFiles'
  BY <1>1 DEF Begin, sessionVars, diskVars, serviceVars
<1>2. ASSUME NEW s \in Sessions, Kill(s) \/ NoReport(s) PROVE OwnFiles'
  BY <1>2 DEF Kill, NoReport, sessionVars, diskVars, serviceVars
<1>3. ASSUME NEW s \in Sessions, OpenLog(s) PROVE OwnFiles'
  BY <1>0, <1>3 DEF OpenLog, sessionVars, serviceVars
<1>4. ASSUME NEW s \in Sessions, CreateRun(s) PROVE OwnFiles'
  BY <1>0, <1>4 DEF CreateRun, AfterCreate
<1>5. ASSUME NEW s \in Sessions, RunTests(s) PROVE OwnFiles'
  <2>1. opts[s].junitxml \in Places
    BY FlowCases
  <2> QED  BY <1>0, <1>5, <2>1 DEF RunTests, AfterTests, serviceVars
<1>6. ASSUME NEW s \in Sessions, RaiseInTests(s) PROVE OwnFiles'
  BY <1>0, <1>6 DEF RaiseInTests, AfterTests, serviceVars
<1>7. ASSUME NEW s \in Sessions, LoadId(s) \/ GetToken(s) PROVE OwnFiles'
  BY <1>0, <1>7 DEF LoadId, GetToken, diskVars, serviceVars
<1>8. ASSUME NEW s \in Sessions, UploadReport(s) PROVE OwnFiles'
  BY <1>0, <1>8 DEF UploadReport, AfterReport, diskVars
<1>9. ASSUME NEW s \in Sessions, UpdateStatus(s) PROVE OwnFiles'
  <2>1. Single(s) => logFile = {s}
    BY <1>9 DEF UpdateStatus
  <2>2. \A t \in Sessions : Single(t) /\ by'[t] = t => log'[t] = {t}
    BY <1>9, <2>1 DEF UpdateStatus, Target
  <2> QED  BY <1>0, <1>9, <2>2 DEF UpdateStatus, diskVars
<1>10. CASE UNCHANGED vars
  BY <1>10 DEF vars, sessionVars, diskVars, serviceVars
<1> QED
  BY <1>1, <1>2, <1>3, <1>4, <1>5, <1>6, <1>7, <1>8, <1>9, <1>10 DEF Next, SessionStep, AllEnded

LEMMA FoundFirst ==
  ASSUME reports["output"] # NoRun
  PROVE  FoundIn(SearchOrder) = reports["output"]
<1> DEFINE there == {i \in DOMAIN SearchOrder : reports[SearchOrder[i]] # NoRun}
           first == CHOOSE i \in there : \A j \in there : i <= j
<1>1. 1 \in there /\ there \subseteq {1, 2, 3}
  BY DEF SearchOrder
<1>2. \E i \in there : \A j \in there : i <= j
  BY <1>1
<1>3. first \in there /\ \A j \in there : first <= j
  BY <1>2
<1>4. first = 1
  BY <1>1, <1>3
<1> HIDE DEF first
<1> QED  BY <1>1, <1>4 DEF FoundIn, SearchOrder

\* With one session at a time, what a session uploads is what it has written:
\* the report if it wrote one in the default place, and the log.
THEOREM UploadsOwn ==
  ASSUME ~Overlap
  PROVE  Spec => []UploadsAreOwn
<1>1. Init => TypeOK /\ Alone /\ OwnFiles
  BY TypeInit, SessionsAssumption DEF Init, Alone, OwnFiles, Active, Ended
<1>2. (TypeOK /\ Alone /\ OwnFiles) /\ [Next]_vars => (TypeOK /\ Alone /\ OwnFiles)'
  BY TypeStep, AloneStep, OwnFilesStep
<1>3. TypeOK /\ OwnFiles => UploadsAreOwn
  <2> SUFFICES ASSUME TypeOK, OwnFiles, NEW s \in Sessions
               PROVE  /\ pc[s] = "report" /\ wrote[s] /\ (Single(s) => opts[s].junitxml = "output") => FoundReport(s) = s
                      /\ Single(s) /\ by[s] = s => log[s] = {s}
    BY DEF UploadsAreOwn
  <2>1. Single(s) /\ by[s] = s => log[s] = {s}
    BY DEF OwnFiles
  <2>2. ASSUME pc[s] = "report", wrote[s], Single(s) => opts[s].junitxml = "output" PROVE FoundReport(s) = s
    <3>1. reports[opts[s].junitxml] = s /\ s # NoRun
      BY <2>2, SessionsAssumption DEF OwnFiles, Active, Ended
    <3> QED  BY <2>2, <3>1, FoundFirst DEF FoundReport
  <2> QED  BY <2>1, <2>2
<1> QED  BY <1>1, <1>2, <1>3, PTL DEF Spec
=============================================================================
