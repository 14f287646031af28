---------------------------- MODULE DeployProofs -----------------------------
(***************************************************************************)
(* Theorems about Deploy, for any number of deployments, directories and   *)
(* hosts.                                                                  *)
(***************************************************************************)
EXTENDS Deploy, TLAPS

\* Two that are under way at a time know of each other.
Acquainted ==
  \A d, e \in Deployments : d # e /\ UnderWay(d) /\ UnderWay(e) => e \in met[d]

\* The way of its suite, from /tmp to the host.
OwnArchive(d) ==
  /\ pc[d] \in {"pack", "send"} => archive = {d}
  /\ pc[d] = "create" \/ script[d] = "unpack" => copy[Host(d)] = d

\* The way of its results, from the host to the directory.
OwnFiles(d) ==
  "lost" \notin marks[d] =>
    /\ pc[d] \in {"fetch", "update", "finish"} => script[d] = "done"
    /\ script[d] \in {"test", "done"} => log[Host(d)] = d
    /\ "wrote" \in marks[d] => script[d] = "done" /\ junit[Host(d)] = d
    /\ pc[d] \in {"update", "finish"} =>
         /\ {"fetched", "wrote"} \subseteq marks[d] => localJunit[Dir(d)] = d
         /\ "logged" \in marks[d] => localLog[Dir(d)] = d

Undisturbed == \A d \in Deployments : UnderWay(d) /\ Alone(d) => OwnArchive(d) /\ OwnFiles(d)

Fresh ==
  \A d \in Deployments :
    /\ pc[d] \in {"idle", "pack", "send", "create"} =>
         script[d] = "idle" /\ status[d] = "none" /\ marks[d] = {} /\ tested[d] = NoOne
    /\ pc[d] = "wait" => marks[d] \cap {"fetched", "logged", "lost"} = {}
    /\ pc[d] = "fetch" => marks[d] \cap {"fetched", "logged"} = {}

\* A run that was started is known to its deployment, or its user was warned.
Known ==
  \A d \in Deployments :
    status[d] = "STARTED" => /\ marks[d] \cap {"created", "told"} # {}
                             /\ pc[d] \in {"finish", "exited"} => "told" \in marks[d]

IInv == TypeOK /\ Acquainted /\ Fresh /\ Undisturbed /\ OwnSuite /\ Known /\ ArchiveRemoved

------------------------------------------------------------------------------
(* Steps.                                                                  *)

LEMMA TypeInit == Init => TypeOK
BY DeployAssumption DEF Init, TypeOK, Per, Somebody, Ended, Marks

LEMMA TypePlaces == \A d \in Deployments : TypeOK => Dir(d) \in Dirs /\ Host(d) \in Hosts /\ opts[d] \in Option
<1> SUFFICES ASSUME NEW d \in Deployments, TypeOK PROVE Dir(d) \in Dirs /\ Host(d) \in Hosts /\ opts[d] \in Option
  OBVIOUS
<1>1. opts[d] \in Option
  BY DeployAssumption DEF TypeOK
<1> QED  BY <1>1 DEF Option, Dir, Host

LEMMA TypeStep ==
  ASSUME TypeOK, NEW d \in Deployments, Step(d)
  PROVE  TypeOK'
<1> USE DEF Somebody, Ended, Goto, Exit, hostVars, localVars
<1>0. Dir(d) \in Dirs /\ Host(d) \in Hosts /\ archive \subseteq Deployments
  BY TypePlaces DEF TypeOK
<1>1. CASE Begin(d)
  BY <1>1 DEF TypeOK, Begin
<1>2. CASE Pack(d)
  BY <1>2 DEF TypeOK, Pack
<1>3. CASE Send(d)
  <2>1. Readable \in Somebody
    BY <1>0 DEF Readable
  <2> QED  BY <1>0, <1>3, <2>1 DEF TypeOK, Send
<1>4. CASE Execute(d)
  BY <1>4 DEF TypeOK, Execute, CreateRun, Mark, Marks
<1>5. CASE LoseConnection(d)
  BY <1>5 DEF TypeOK, LoseConnection, Mark, Marks
<1>6. CASE Unpack(d)
  BY <1>0, <1>6 DEF TypeOK, Unpack, Unpacked
<1>7. CASE EndTests(d)
  BY <1>0, <1>7 DEF TypeOK, EndTests, Mark, Marks
<1>8. CASE Fetch(d)
  BY <1>0, <1>8 DEF TypeOK, Fetch, FetchTo, Mark, Marks
<1>9. CASE Update(d)
  BY <1>9 DEF TypeOK, Update, LastWord, Mark, Marks
<1>10. CASE Finish(d)
  BY <1>0, <1>10 DEF TypeOK, Finish
<1>11. CASE Stop(d)
  BY <1>11 DEF TypeOK, Stop
<1> QED  BY <1>1, <1>2, <1>3, <1>4, <1>5, <1>6, <1>7, <1>8, <1>9, <1>10, <1>11 DEF Step

\* A step is its deployment's own business, but for the acquaintances Begin makes.
LEMMA OwnStep ==
  ASSUME TypeOK, NEW d \in Deployments, Step(d), NEW e \in Deployments, e # d
  PROVE  /\ opts' = opts /\ (Begin(d) \/ met' = met)
         /\ pc'[e] = pc[e] /\ script'[e] = script[e] /\ status'[e] = status[e]
         /\ marks'[e] = marks[e] /\ tested'[e] = tested[e]
         /\ UnderWay(d)' => Begin(d) \/ UnderWay(d)
<1> USE DEF TypeOK, Goto, Exit, Mark, UnderWay, Ended
<1>1. CASE Begin(d)
  BY <1>1 DEF Begin
<1>2. CASE Pack(d) \/ Send(d)
  BY <1>2 DEF Pack, Send
<1>4. CASE Execute(d)
  BY <1>4 DEF Execute, CreateRun
<1>5. CASE LoseConnection(d) \/ Unpack(d)
  BY <1>5 DEF LoseConnection, Unpack
<1>7. CASE EndTests(d)
  BY <1>7 DEF EndTests
<1>8. CASE Fetch(d) \/ Update(d)
  BY <1>8 DEF Fetch, Update, LastWord
<1>9. CASE Finish(d) \/ Stop(d)
  BY <1>9 DEF Finish, Stop
<1> QED  BY <1>1, <1>2, <1>4, <1>5, <1>7, <1>8, <1>9 DEF Step

\* A deployment that is alone sees no step of another.
LEMMA NobodyElse ==
  ASSUME TypeOK, Acquainted, NEW d \in Deployments, Step(d), NEW e \in Deployments, e # d,
         UnderWay(e)', Alone(e)'
  PROVE  FALSE
<1>1. UnderWay(e)
  BY OwnStep DEF UnderWay
<1>2. Begin(d) => d \in met'[e]
  BY <1>1 DEF Begin, TypeOK
<1>3. ~Begin(d)
  BY <1>2 DEF Alone
<1>4. UnderWay(d)
  BY <1>3 DEF Step, Pack, Send, Execute, LoseConnection, Unpack, EndTests, Fetch, Update, Finish, Stop, UnderWay, Ended
<1>5. d \in met[e]
  BY <1>1, <1>4 DEF Acquainted
<1>6. met' = met
  BY <1>3, OwnStep
<1> QED  BY <1>5, <1>6 DEF Alone

LEMMA AcquaintedStep ==
  ASSUME TypeOK, Acquainted, NEW d \in Deployments, Step(d)
  PROVE  Acquainted'
<1> SUFFICES ASSUME NEW a \in Deployments, NEW b \in Deployments, a # b, UnderWay(a)', UnderWay(b)'
             PROVE  b \in met'[a]
  BY DEF Acquainted
<1>1. CASE Begin(d)
  <2>1. \A x \in Deployments : x # d => UnderWay(x)' = UnderWay(x)
    BY OwnStep DEF UnderWay
  <2>2. CASE a = d
    <3>1. UnderWay(b)
      BY <2>1, <2>2
    <3> QED  BY <1>1, <2>2, <3>1 DEF Begin, TypeOK
  <2>3. CASE b = d
    <3>1. UnderWay(a)
      BY <2>1, <2>3
    <3> QED  BY <1>1, <2>3, <3>1 DEF Begin, TypeOK
  <2>4. CASE a # d /\ b # d
    <3>1. b \in met[a]
      BY <2>1, <2>4 DEF Acquainted
    <3> QED  BY <1>1, <2>4, <3>1 DEF Begin, TypeOK
  <2> QED  BY <2>2, <2>3, <2>4
<1>2. CASE ~Begin(d)
  <2>1. met' = met
    BY <1>2, OwnStep
  <2>2. \A x \in Deployments : UnderWay(x)' => UnderWay(x)
    BY <1>2, OwnStep DEF UnderWay
  <2> QED  BY <2>1, <2>2 DEF Acquainted
<1> QED  BY <1>1, <1>2

LEMMA FreshStep ==
  ASSUME TypeOK, Fresh, NEW d \in Deployments, Step(d)
  PROVE  Fresh'
<1> USE DEF TypeOK, Goto, Exit, Mark, Ended
<1> DEFINE FreshAt(e) ==
      /\ pc[e] \in {"idle", "pack", "send", "create"} =>
           script[e] = "idle" /\ status[e] = "none" /\ marks[e] = {} /\ tested[e] = NoOne
      /\ pc[e] = "wait" => marks[e] \cap {"fetched", "logged", "lost"} = {}
      /\ pc[e] = "fetch" => marks[e] \cap {"fetched", "logged"} = {}
<1>0. \A e \in Deployments : FreshAt(e)
  BY DEF Fresh
<1>1. \A e \in Deployments : e # d => FreshAt(e)'
  BY <1>0, OwnStep
<1>2. FreshAt(d)'
  <2>0. FreshAt(d)
    BY <1>0
  <2>1. CASE Begin(d) \/ Pack(d) \/ Send(d)
    BY <2>0, <2>1 DEF Begin, Pack, Send
  <2>2. CASE Execute(d)
    BY <2>0, <2>2 DEF Execute, CreateRun
  <2>3. CASE LoseConnection(d)
    BY <2>0, <2>3 DEF LoseConnection
  <2>4. CASE Unpack(d)
    BY <2>0, <2>4 DEF Unpack
  <2>5. CASE EndTests(d)
    BY <2>0, <2>5 DEF EndTests
  <2>6. CASE Fetch(d)
    <3>1. pc'[d] \in {"update", "finish"}
      BY <2>6 DEF Fetch
    <3> QED  BY <3>1
  <2>7. CASE Update(d)
    <3>1. pc'[d] = "finish"
      BY <2>7 DEF Update
    <3> QED  BY <3>1
  <2>8. CASE Finish(d) \/ Stop(d)
    <3>1. pc'[d] \in Ended
      BY <2>8 DEF Finish, Stop
    <3> QED  BY <3>1
  <2> QED  BY <2>1, <2>2, <2>3, <2>4, <2>5, <2>6, <2>7, <2>8 DEF Step
<1> HIDE DEF FreshAt
<1>3. \A e \in Deployments : FreshAt(e)'
  BY <1>1, <1>2
<1> QED  BY <1>3 DEF Fresh, FreshAt

LEMMA KnownStep ==
  ASSUME TypeOK, Fresh, Known, NEW d \in Deployments, Step(d)
  PROVE  Known'
<1> USE DEF TypeOK, Goto, Exit, Mark, Ended
<1> DEFINE KnownAt(e) ==
      status[e] = "STARTED" => /\ marks[e] \cap {"created", "told"} # {}
                               /\ pc[e] \in {"finish", "exited"} => "told" \in marks[e]
<1>0. \A e \in Deployments : KnownAt(e)
  BY DEF Known
<1>1. \A e \in Deployments : e # d => KnownAt(e)'
  BY <1>0, OwnStep
<1>2. KnownAt(d)'
  <2>0. KnownAt(d)
    BY <1>0
  <2>1. CASE Begin(d) \/ Pack(d) \/ Send(d)
    BY <2>1 DEF Begin, Pack, Send, Fresh
  <2>2. CASE Execute(d)
    <3>1. pc'[d] = "wait"
      BY <2>2 DEF Execute
    <3>2. status[d] = "none"
      BY <2>2 DEF Execute, Fresh
    <3>3. status' = status \/ "created" \in marks'[d] \/ "told" \in marks'[d]
      BY <2>2 DEF Execute, CreateRun
    <3> QED  BY <3>1, <3>2, <3>3
  <2>3. CASE LoseConnection(d) \/ Unpack(d)
    BY <2>0, <2>3 DEF LoseConnection, Unpack
  <2>5. CASE EndTests(d)
    BY <2>0, <2>5 DEF EndTests
  <2>6. CASE Fetch(d)
    <3>1. marks[d] \subseteq marks'[d] /\ status' = status
      BY <2>6 DEF Fetch
    <3>2. pc'[d] = IF "created" \in marks[d] THEN "update" ELSE "finish"
      BY <2>6 DEF Fetch
    <3> QED  BY <2>0, <3>1, <3>2
  <2>7. CASE Update(d)
    BY <2>0, <2>7 DEF Update, LastWord
  <2>8. CASE Finish(d) \/ Stop(d)
    BY <2>0, <2>8 DEF Finish, Stop
  <2> QED  BY <2>1, <2>2, <2>3, <2>5, <2>6, <2>7, <2>8 DEF Step
<1> HIDE DEF KnownAt
<1>3. \A e \in Deployments : KnownAt(e)'
  BY <1>1, <1>2
<1> QED  BY <1>3 DEF Known, KnownAt

\* The archive is written only by those who will remove it.
LEMMA ArchiveStep ==
  ASSUME TypeOK, ArchiveRemoved, NEW d \in Deployments, Step(d)
  PROVE  ArchiveRemoved'
<1> USE DEF TypeOK, Goto, Exit, Ended
<1>1. SUFFICES ASSUME \A e \in Deployments : pc'[e] \in {"idle", "exited"}
               PROVE  archive' = {}
  BY DEF ArchiveRemoved
<1>2. \A e \in Deployments : e # d => pc[e] \in {"idle", "exited"}
  BY <1>1, OwnStep
<1>3. CASE Begin(d) \/ Execute(d) \/ LoseConnection(d) \/ Fetch(d) \/ Update(d) \/ Stop(d)
  <2>1. pc'[d] \notin {"idle", "exited"}
    BY <1>3 DEF Begin, Execute, LoseConnection, Fetch, Update, Stop
  <2> QED  BY <1>1, <2>1
<1>4. CASE Pack(d) \/ Send(d) \/ Finish(d)
  BY <1>1, <1>4 DEF Pack, Send, Finish
<1>5. CASE Unpack(d) \/ EndTests(d)
  <2>1. archive' = archive /\ (pc'[d] = pc[d] \/ pc'[d] = "fetch")
    BY <1>5 DEF Unpack, EndTests
  <2>2. pc[d] \in {"idle", "exited"}
    BY <1>1, <2>1
  <2> QED  BY <1>2, <2>1, <2>2 DEF ArchiveRemoved
<1> QED  BY <1>3, <1>4, <1>5 DEF Step

\* A deployment's own step, when it has been alone since it began.
LEMMA OwnArchiveStep ==
  ASSUME TypeOK, Fresh, Undisturbed, NEW d \in Deployments, Step(d), Alone(d)'
  PROVE  OwnArchive(d)'
<1> USE DEF TypeOK, Goto, Exit, Mark, Ended, OwnArchive, Alone, hostVars
<1>0. Host(d) \in Hosts /\ Host(d)' = Host(d)
  BY TypePlaces DEF Step, Begin, Pack, Send, Execute, LoseConnection, Unpack, EndTests, Fetch, Update, Finish, Stop, Host
<1>1. CASE Begin(d)
  <2>1. {e \in Deployments \ {d} : UnderWay(e)} = {}
    BY <1>1 DEF Begin
  <2>2. \A e \in archive : pc[e] # "pack"
    BY <2>1, <1>1 DEF Begin, UnderWay
  <2>3. archive' = {d}
    BY <2>2, <1>1 DEF Begin
  <2> QED  BY <1>1, <2>3 DEF Begin, Fresh
<1>2. CASE ~Begin(d)
  <2>1. UnderWay(d) /\ met' = met
    BY <1>2 DEF Step, Pack, Send, Execute, LoseConnection, Unpack, EndTests, Fetch, Update, Finish, Stop, UnderWay
  <2>2. OwnArchive(d)
    BY <2>1 DEF Undisturbed
  <2>3. CASE Pack(d)
    BY <2>2, <2>3, <1>0 DEF Pack, Fresh
  <2>4. CASE Send(d)
    <3>1. Readable = d
      BY <2>2, <2>4 DEF Send, Readable
    <3> QED  BY <2>4, <3>1, <1>0 DEF Send, Fresh
  <2>5. CASE Execute(d)
    BY <2>2, <2>5, <1>0 DEF Execute
  <2>6. CASE LoseConnection(d) \/ Unpack(d) \/ EndTests(d)
    BY <2>2, <2>6, <1>0 DEF LoseConnection, Unpack, EndTests
  <2>7. CASE Fetch(d)
    BY <2>2, <2>7, <1>0 DEF Fetch
  <2>8. CASE Update(d) \/ Finish(d) \/ Stop(d)
    BY <2>2, <2>8, <1>0 DEF Update, Finish, Stop
  <2> QED  BY <1>2, <2>3, <2>4, <2>5, <2>6, <2>7, <2>8 DEF Step
<1> QED  BY <1>1, <1>2

LEMMA OwnFilesStep ==
  ASSUME TypeOK, Fresh, Undisturbed, NEW d \in Deployments, Step(d), Alone(d)'
  PROVE  OwnFiles(d)'
<1> USE DEF TypeOK, Goto, Exit, Mark, Ended, OwnFiles, Alone
<1>0. /\ Host(d) \in Hosts /\ Host(d)' = Host(d)
      /\ Dir(d) \in Dirs /\ Dir(d)' = Dir(d)
  BY TypePlaces DEF Step, Begin, Pack, Send, Execute, LoseConnection, Unpack, EndTests, Fetch, Update, Finish, Stop, Host, Dir
<1>1. CASE Begin(d)
  BY <1>1 DEF Begin, Fresh
<1>2. CASE ~Begin(d)
  <2>1. UnderWay(d) /\ met' = met
    BY <1>2 DEF Step, Pack, Send, Execute, LoseConnection, Unpack, EndTests, Fetch, Update, Finish, Stop, UnderWay
  <2>2. OwnFiles(d)
    BY <2>1 DEF Undisturbed
  <2>3. CASE Pack(d) \/ Send(d)
    BY <2>3 DEF Pack, Send, Fresh
  <2>4. CASE Execute(d)
    <3>1. marks[d] = {} /\ marks'[d] \subseteq {"created", "told"}
      BY <2>4 DEF Execute, CreateRun, Fresh
    <3> QED  BY <2>4, <3>1 DEF Execute
  <2>5. CASE LoseConnection(d)
    <3>1. "lost" \in marks'[d]
      BY <2>5 DEF LoseConnection
    <3> QED  BY <3>1
  <2>6. CASE Unpack(d)
    BY <2>2, <2>6, <1>0 DEF Unpack
  <2>7. CASE EndTests(d)
    BY <2>2, <2>7, <1>0 DEF EndTests
  <2>8. CASE Fetch(d)
    <3>1. PICK gotLog \in BOOLEAN, gotJunit \in BOOLEAN :
            /\ FetchTo(localLog, Dir(d), log[Host(d)], gotLog)
            /\ FetchTo(localJunit, Dir(d), junit[Host(d)], gotJunit)
            /\ Mark(d, {m \in {"logged", "fetched"} : IF m = "logged" THEN gotLog ELSE HasReport(gotJunit)})
      BY <2>8 DEF Fetch
    <3>2. gotLog => localLog'[Dir(d)] = log[Host(d)]
      BY <3>1, <1>0 DEF FetchTo
    <3>3. gotJunit => localJunit'[Dir(d)] = junit[Host(d)]
      BY <3>1, <1>0 DEF FetchTo
    <3>4. marks'[d] = marks[d] \cup {m \in {"logged", "fetched"} : IF m = "logged" THEN gotLog ELSE gotJunit}
      BY <3>1 DEF HasReport
    <3>5. /\ pc[d] = "fetch" /\ marks[d] \cap {"fetched", "logged"} = {}
          /\ script' = script /\ log' = log /\ junit' = junit
      BY <2>8 DEF Fetch, Fresh, hostVars
    <3>6. SUFFICES ASSUME "lost" \notin marks'[d] PROVE OwnFiles(d)'
      OBVIOUS
    <3>7. /\ script[d] = "done" /\ log[Host(d)] = d
          /\ "wrote" \in marks[d] => junit[Host(d)] = d
      BY <2>2, <3>4, <3>5, <3>6
    <3>8. {"fetched", "wrote"} \subseteq marks'[d] => localJunit'[Dir(d)] = d
      BY <3>3, <3>4, <3>5, <3>7
    <3>9. "logged" \in marks'[d] => localLog'[Dir(d)] = d
      BY <3>2, <3>4, <3>5, <3>7
    <3>10. "wrote" \in marks'[d] => "wrote" \in marks[d]
      BY <3>4
    <3> QED  BY <3>5, <3>7, <3>8, <3>9, <3>10, <1>0
  <2>9. CASE Update(d)
    <3>1. marks[d] \subseteq marks'[d] /\ marks'[d] \subseteq marks[d] \cup {"told"}
      BY <2>9 DEF Update, LastWord
    <3> QED  BY <2>2, <2>9, <3>1, <1>0 DEF Update, hostVars, localVars
  <2>10. CASE Finish(d) \/ Stop(d)
    BY <2>2, <2>10, <1>0 DEF Finish, Stop, hostVars
  <2> QED  BY <1>2, <2>3, <2>4, <2>5, <2>6, <2>7, <2>8, <2>9, <2>10 DEF Step
<1> QED  BY <1>1, <1>2

LEMMA UndisturbedStep ==
  ASSUME TypeOK, Acquainted, Fresh, Undisturbed, NEW d \in Deployments, Step(d)
  PROVE  Undisturbed'
<1> SUFFICES ASSUME NEW e \in Deployments, UnderWay(e)', Alone(e)'
             PROVE  OwnArchive(e)' /\ OwnFiles(e)'
  BY DEF Undisturbed
<1>1. e = d
  BY NobodyElse
<1> QED  BY <1>1, OwnArchiveStep, OwnFilesStep

LEMMA OwnSuiteStep ==
  ASSUME TypeOK, Fresh, Undisturbed, OwnSuite, NEW d \in Deployments, Step(d)
  PROVE  OwnSuite'
<1> USE DEF TypeOK, Goto, Exit, Ended, Alone
<1> SUFFICES ASSUME NEW e \in Deployments, Alone(e)'
             PROVE  tested'[e] \in {e, NoOne}
  BY DEF OwnSuite
<1>1. CASE e # d
  <2>1. tested'[e] = tested[e]
    BY <1>1, OwnStep
  <2>2. met[e] = {}
    BY <1>1, OwnStep DEF Begin
  <2> QED  BY <2>1, <2>2 DEF OwnSuite
<1>2. CASE e = d /\ Begin(d)
  BY <1>2 DEF Begin, Fresh
<1>3. CASE e = d /\ Unpack(d)
  <2>1. UnderWay(d) /\ met[d] = {} /\ script[d] = "unpack"
    BY <1>3 DEF Unpack, UnderWay
  <2>2. copy[Host(d)] = d
    BY <2>1 DEF Undisturbed, OwnArchive
  <2> QED  BY <1>3, <2>1, <2>2 DEF Unpack, Unpacked, OwnSuite
<1>4. CASE e = d /\ ~Begin(d) /\ ~Unpack(d)
  <2>1. tested' = tested /\ met' = met
    BY <1>4 DEF Step, Pack, Send, Execute, LoseConnection, EndTests, Fetch, Update, Finish, Stop
  <2> QED  BY <1>4, <2>1 DEF OwnSuite
<1> QED  BY <1>1, <1>2, <1>3, <1>4

------------------------------------------------------------------------------
(* The invariant and what follows from it.                                 *)

LEMMA InvInit == Init => IInv
<1> SUFFICES ASSUME Init PROVE IInv
  OBVIOUS
<1>1. \A d \in Deployments : ~UnderWay(d)
  BY DEF Init, Per, UnderWay, Ended
<1>2. Acquainted /\ Undisturbed
  BY <1>1 DEF Acquainted, Undisturbed
<1>3. Fresh /\ OwnSuite /\ Known /\ ArchiveRemoved
  BY DEF Init, Per, Fresh, OwnSuite, Known, ArchiveRemoved
<1> QED  BY <1>2, <1>3, TypeInit DEF IInv

LEMMA InvStep == IInv /\ [Next]_vars => IInv'
<1> SUFFICES ASSUME IInv, [Next]_vars PROVE IInv'
  OBVIOUS
<1>1. CASE \E d \in Deployments : Step(d)
  <2>1. PICK d \in Deployments : Step(d)
    BY <1>1
  <2>2. TypeOK'
    BY <2>1, TypeStep DEF IInv
  <2>3. Acquainted' /\ Fresh' /\ Known'
    BY <2>1, AcquaintedStep, FreshStep, KnownStep DEF IInv
  <2>4. Undisturbed' /\ OwnSuite' /\ ArchiveRemoved'
    BY <2>1, UndisturbedStep, OwnSuiteStep, ArchiveStep DEF IInv
  <2> QED  BY <2>2, <2>3, <2>4 DEF IInv
<1>2. CASE UNCHANGED vars
  <2> USE <1>2 DEF vars, hostVars, localVars, UnderWay, Alone
  <2>1. TypeOK' /\ Fresh' /\ Known' /\ ArchiveRemoved' /\ OwnSuite'
    BY DEF IInv, TypeOK, Fresh, Known, ArchiveRemoved, OwnSuite
  <2>2. Acquainted'
    BY DEF IInv, Acquainted
  <2>3. Undisturbed'
    BY DEF IInv, Undisturbed, OwnArchive, OwnFiles, Host, Dir
  <2> QED  BY <2>1, <2>2, <2>3 DEF IInv
<1> QED  BY <1>1, <1>2 DEF Next, AllEnded

LEMMA InvHolds == Spec => []IInv
BY InvInit, InvStep, PTL DEF Spec

\* Every variable has its type.
THEOREM TypeCorrect == Spec => []TypeOK
<1>1. IInv => TypeOK
  BY DEF IInv
<1> QED  BY <1>1, InvHolds, PTL

\* A deployment nobody was under way with unpacks its own suite, or none,
\* whatever archives and suites earlier deployments have left.
THEOREM SuiteIsOwn == Spec => []OwnSuite
<1>1. IInv => OwnSuite
  BY DEF IInv
<1> QED  BY <1>1, InvHolds, PTL

\* The report and the log such a deployment uploads are those its tests wrote:
\* the report unless they wrote none, both while the connection has held.
THEOREM ResultsAreOwn == Spec => []OwnResults
<1>1. IInv => OwnResults
  <2> SUFFICES ASSUME IInv, NEW d \in Deployments,
                      pc[d] \in {"update", "finish"}, Alone(d), "lost" \notin marks[d]
               PROVE  /\ {"fetched", "wrote"} \subseteq marks[d] => localJunit[Dir(d)] = d
                      /\ "logged" \in marks[d] => localLog[Dir(d)] = d
    BY DEF OwnResults
  <2>1. UnderWay(d)
    BY DEF UnderWay, Ended
  <2> QED  BY <2>1 DEF IInv, Undisturbed, OwnFiles
<1> QED  BY <1>1, InvHolds, PTL

\* A deployment that exits by itself and leaves its run STARTED has said so.
THEOREM OpenRunsAreTold == Spec => []OpenRunIsTold
<1>1. IInv => OpenRunIsTold
  BY DEF IInv, Known, OpenRunIsTold
<1> QED  BY <1>1, InvHolds, PTL

\* When no deployment is left on the machine and none was killed, there is no
\* archive, however they had overlapped.
THEOREM ArchiveIsGone == Spec => []ArchiveRemoved
<1>1. IInv => ArchiveRemoved
  BY DEF IInv
<1> QED  BY <1>1, InvHolds, PTL
==============================================================================
