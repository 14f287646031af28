--------------------------- MODULE CheckRunProofs ----------------------------
(***************************************************************************)
(* Theorems about CheckRun, for any set of checks that meets its           *)
(* assumptions: any number of parts and operations, any findings.          *)
(***************************************************************************)
EXTENDS CheckRun, TLAPS

Here == <<part, op>>
\* Still in run(); left for good, with the verdict the test takes.
Inside == mode = "run"
Decided == mode # "run" /\ ended \in {"returned", "raised"}

\* A failed sub-test comes from a place run() has gone past; under the rule of
\* the remembered failures it has been remembered.
Subtests ==
  check.name \notin Lenient =>
    /\ Inside /\ subfailed =>
         /\ \E a \in Places(check) : Before(a, Here) /\ Leads(check, a) \cap SubFails # {}
         /\ check.rule = "noted" => noted
    /\ Decided /\ passed => ~subfailed

\* set_failed is not called while run() goes on.
Marks ==
  check.name \notin Overriding =>
    /\ Inside => ~marked
    /\ Decided /\ passed => ~marked

\* What was found bad at a place run() has gone past is remembered where the
\* rule will look for it.
Earned ==
  found = "bad" /\ WatchedOf \notin Tolerated =>
    /\ Inside => /\ Before(watched, Here) /\ NoPassAfter(check, watched)
                 /\ (noted /\ check.rule = "noted") \/ (subfailed /\ check.rule = "subtests")
    /\ ~(Decided /\ passed)

\* Whatever is remembered against the system has been found at fault.
Blames ==
  /\ Inside /\ (noted \/ subfailed) => blamed
  /\ Decided /\ ~passed => blamed

\* Past a gate, something good was seen or a failure is remembered for good.
Remembered == (noted /\ check.rule = "noted") \/ (subfailed /\ check.rule = "subtests")
Shown ==
  \/ seen
  \/ Remembered /\ \E y \in Places(check) : Before(y, Here) /\ NoPassAfter(check, y)
Sighted ==
  check.name \notin Vacuous =>
    /\ Inside => /\ Told(check, Here) => Shown
                 /\ \A g \in Places(check) : Gate(check, g) /\ Before(g, Here) => Shown
    /\ Decided /\ passed => seen

\* What the check has made it can close, or nobody can expect it to.
Grasped == made \ excused \subseteq known
\* What is neither kept nor closed in the finally is closed further on in run().
Others == known \ (check.keeps \cup ClosedIn(check))
Held ==
  /\ Inside => \A o \in Others : \E a, b \in Places(check) :
       At(check, a).of = o /\ ClosedAt(check, a, b) /\ Before(a, Here) /\ (Here = b \/ Before(Here, b))
  /\ ended \in {"returned", "skipped"} => Others = {}
\* The finally leaves nothing it closes, unless it was cut short or called off.
Emptied ==
  /\ mode = "finally" => \A i \in 1..(op - 1) :
       check.finally[i].do \in {"close", "delete"} => check.finally[i].of \notin known
  /\ mode = "over" => made \subseteq excused \/ known \cap ClosedIn(check) = {}

IInv == TypeOK /\ Subtests /\ Marks /\ Earned
ObjectInv == Grasped /\ Held /\ Emptied

------------------------------------------------------------------------------
(* Places and steps.                                                       *)

LEMMA PlaceHere ==
  ASSUME TypeOK, Running
  PROVE  /\ Here \in Places(check) /\ At(check, Here) = Now
         /\ \A f \in DOMAIN Now.on : Now.on[f] \in Leads(check, Here)
<1>1. part \in 1..Len(Parts) /\ op \in 1..Len(check.parts[part].ops)
  <2>1. Len(check.parts) \in Nat /\ part \in 1..(Len(check.parts) + 1) /\ part <= Len(check.parts)
    BY ChecksAssumption DEF TypeOK, Running, Parts
  <2>2. part \in 1..Len(check.parts)
    BY <2>1
  <2>3. Len(check.parts[part].ops) \in Nat
    BY <2>2, ChecksAssumption DEF TypeOK
  <2>4. op \in Nat \ {0} /\ op <= Len(check.parts[part].ops)
    BY DEF TypeOK, Ops, Parts
  <2> QED  BY <2>2, <2>3, <2>4 DEF Parts
<1>2. Here \in {part} \X (1..Len(check.parts[part].ops))
  BY <1>1 DEF Here
<1>3. Here \in Places(check)
  BY <1>1, <1>2 DEF Places, Parts
<1>4. At(check, Here) = Now
  BY DEF At, Here, Now, Running, Ops, Parts
<1> QED  BY <1>3, <1>4 DEF Leads

LEMMA AdvanceStep ==
  ASSUME TypeOK, Running, NEW r, Advance(r), UNCHANGED <<check, mode>>
  PROVE  /\ part' \in 1..(Len(Parts) + 1) /\ op' \in Nat \ {0}
         /\ Running' => op' <= Len(Ops')
         /\ through' \subseteq 1..Len(Parts)
         /\ Before(Here, Here') /\ \A a \in Places(check) : Before(a, Here) => Before(a, Here')
<1>1. /\ Len(Parts) \in Nat /\ part \in 1..Len(Parts) /\ op \in Nat \ {0}
      /\ Parts' = Parts /\ through \subseteq 1..Len(Parts)
  BY ChecksAssumption DEF TypeOK, Running, Parts
<1>2. \A p \in 1..Len(Parts) : Len(Parts[p].ops) \in Nat \ {0}
  BY ChecksAssumption DEF TypeOK, Parts
<1>3. \A a \in Places(check) : a[1] \in Nat /\ a[2] \in Nat
  BY ChecksAssumption DEF Places, TypeOK
<1>4. CASE op < Len(Ops) /\ op' = op + 1 /\ UNCHANGED <<part, through>>
  <2>1. Len(Ops) \in Nat /\ Ops' = Ops
    BY <1>1, <1>2, <1>4 DEF Ops
  <2> QED  BY <1>1, <1>3, <1>4, <2>1 DEF Before, Here
<1>5. CASE /\ part' \in (part + 1)..(Len(Parts) + 1) /\ op' = 1
           /\ through' \subseteq 1..Len(Parts)
  <2>1. part' \in 1..(Len(Parts) + 1) /\ part' > part
    BY <1>1, <1>5
  <2>2. Running' => op' <= Len(Ops')
    <3>1. Running' => part' \in 1..Len(Parts)
      BY <1>1, <2>1 DEF Running
    <3>2. Ops' = Parts[part'].ops
      BY <1>1 DEF Ops
    <3> QED  BY <1>2, <1>5, <3>1, <3>2
  <2> QED  BY <1>1, <1>3, <1>5, <2>1, <2>2 DEF Before, Here
<1>6. CASE part' = Len(Parts) + 1 /\ op' = 1 /\ UNCHANGED through
  BY <1>1, <1>5, <1>6
<1>7. CASE NextPart(through) \/ NextPart(through \cup {part})
  BY <1>1, <1>5, <1>7 DEF NextPart
<1> QED  BY <1>4, <1>6, <1>7 DEF Advance

\* An operation of run() is a reaction to what was found, or a deletion that
\* had nothing to delete.
Reacts(r) ==
  /\ React(r) /\ r \in Reactions
  /\ r = "go" \/ r \in Leads(check, Here)
  /\ UNCHANGED <<check, watched>> /\ seen' \in BOOLEAN /\ found' \in Findings \cup {"unseen"}
  /\ \/ found' = found
     \/ \E f \in DOMAIN Now.on : r = Now.on[f] /\ Here = watched /\ found' = f
  /\ \/ Now.do \in {"close", "delete"} /\ seen' = seen
     \/ \E f \in DOMAIN Now.on : r = Now.on[f] /\ seen' = (seen \/ f = "good")

LEMMA Found ==
  ASSUME TypeOK, Running, NEW f \in DOMAIN Now.on, React(Now.on[f]), UNCHANGED <<check, watched>>,
         Find(f) \/ (UNCHANGED sight /\ Now.do \in {"close", "delete"})
  PROVE  Reacts(Now.on[f])
<1>1. Here \in Places(check) /\ At(check, Here) = Now /\ Now.on[f] \in Leads(check, Here)
  BY PlaceHere
<1>2. Now.on[f] \in Reactions /\ f \in Findings
  BY <1>1, ChecksAssumption DEF TypeOK
<1>3. seen \in BOOLEAN /\ found \in Findings \cup {"unseen"}
  BY DEF TypeOK
<1>4. seen' \in BOOLEAN
  BY <1>3 DEF Find, sight
<1>5. /\ found' \in Findings \cup {"unseen"}
      /\ found' = found \/ (Here = watched /\ found' = f)
  BY <1>2, <1>3 DEF Find, sight, Here
<1>6. \/ Now.do \in {"close", "delete"} /\ seen' = seen
      \/ seen' = (seen \/ f = "good")
  BY DEF Find, sight
<1> QED  BY <1>1, <1>2, <1>4, <1>5, <1>6 DEF Reacts

LEMMA Operation ==
  ASSUME TypeOK, LookAt \/ Make \/ CloseIt
  PROVE  Running /\ \E r : Reacts(r)
<1>1. CASE LookAt
  BY <1>1, Found DEF LookAt
<1>2. CASE Make
  BY <1>2, Found DEF Make
<1>3. CASE CloseIt
  <2>1. Running /\ UNCHANGED <<check, watched, sight>> /\ Now.do \in {"close", "delete"}
    BY <1>3 DEF CloseIt
  <2>2. CASE React("go")
    <3>1. "go" \in Reactions /\ seen \in BOOLEAN /\ found \in Findings \cup {"unseen"}
      BY DEF Reactions, TypeOK
    <3> QED  BY <2>1, <2>2, <3>1 DEF Reacts, sight
  <2>3. CASE \E f \in DOMAIN Now.on : React(Now.on[f])
    BY <2>1, <2>3, Found
  <2> QED  BY <1>3, <2>1, <2>2, <2>3 DEF CloseIt
<1> QED  BY <1>1, <1>2, <1>3

\* A reaction ends run(), with the outcome that goes with it, or moves it on.
LEMMA Reaction ==
  ASSUME TypeOK, Running, NEW r, Reacts(r)
  PROVE  \/ /\ r \in Ending /\ mode' \in {"finally", "over"} /\ op' = 1 /\ UNCHANGED <<part, through>>
            /\ ended' \in {"returned", "raised", "skipped"}
            /\ ended' = "skipped" <=> r = "skip"
            /\ ended' = "raised" <=> r = "raise"
            /\ mode' = "over" => check.finally = <<>>
         \/ r \notin Ending /\ Advance(r) /\ UNCHANGED <<mode, ended>>
<1>1. CASE r \in Ending
  <2>1. Leave(IF r \in {"skip", "raise"} THEN Outcome[r] ELSE "returned")
    BY <1>1 DEF Reacts, React
  <2>2. Outcome["skip"] = "skipped" /\ Outcome["raise"] = "raised"
    BY DEF Outcome
  <2> QED  BY <1>1, <2>1, <2>2 DEF Leave
<1>2. CASE r \notin Ending
  BY <1>2 DEF Reacts, React
<1> QED  BY <1>1, <1>2

------------------------------------------------------------------------------
(* The invariant.                                                          *)

LEMMA InvInit == Init => IInv
<1> SUFFICES ASSUME Init PROVE IInv
  OBVIOUS
<1>1. Len(check.parts) \in Nat \ {0}
  BY ChecksAssumption DEF Init
<1>2. Running => op <= Len(Ops)
  <2>1. check \in Checks /\ 1 \in 1..Len(check.parts) /\ part = 1 /\ op = 1
    BY <1>1 DEF Init
  <2>2. Len(check.parts[1].ops) \in Nat \ {0}
    BY <2>1, ChecksAssumption
  <2> QED  BY <2>1, <2>2 DEF Ops, Parts
<1>3. TypeOK
  <2>1. /\ check \in Checks /\ watched \in Places(check) /\ part = 1 /\ op = 1 /\ through = {}
        /\ mode = "run" /\ ended = "none" /\ found = "unseen"
    BY DEF Init
  <2>2. {passed, noted, subfailed, skipped, marked, blamed, seen} \subseteq BOOLEAN
    BY DEF Init
  <2>3. part \in 1..(Len(Parts) + 1) /\ op \in Nat \ {0} /\ through \subseteq 1..Len(Parts)
    BY <1>1, <2>1 DEF Parts
  <2> QED  BY <1>2, <2>1, <2>2, <2>3 DEF TypeOK
<1> QED  BY <1>3 DEF Init, IInv, Subtests, Marks, Earned, Inside, Decided

LEMMA TypeReacts ==
  ASSUME TypeOK, Running, NEW r, Reacts(r)
  PROVE  TypeOK'
<1>1. /\ check' = check /\ watched' = watched /\ Parts' = Parts
      /\ seen' \in BOOLEAN /\ found' \in Findings \cup {"unseen"}
  BY DEF Reacts, Parts
<1>2. {passed', noted', subfailed', skipped', marked', blamed'} \subseteq BOOLEAN
  <2>1. {passed, noted, subfailed, skipped, marked, blamed} \subseteq BOOLEAN
    BY DEF TypeOK
  <2> QED  BY <2>1 DEF Reacts, React, Verdict
<1>3. part \in 1..(Len(Parts) + 1) /\ through \subseteq 1..Len(Parts) /\ mode = "run" /\ ended = "none"
  BY DEF TypeOK, Running
<1>4. CASE r \in Ending
  <2>1. /\ mode' \in {"finally", "over"} /\ op' = 1 /\ UNCHANGED <<part, through>>
        /\ ended' \in {"returned", "raised", "skipped"}
    BY <1>4, Reaction
  <2> QED  BY <1>1, <1>2, <1>3, <2>1 DEF TypeOK, Running
<1>5. CASE r \notin Ending
  <2>1. Advance(r) /\ UNCHANGED <<check, mode, ended>>
    BY <1>1, <1>5, Reaction
  <2>2. /\ part' \in 1..(Len(Parts) + 1) /\ op' \in Nat \ {0}
        /\ Running' => op' <= Len(Ops')
        /\ through' \subseteq 1..Len(Parts)
    BY <2>1, AdvanceStep
  <2> QED  BY <1>1, <1>2, <1>3, <2>1, <2>2 DEF TypeOK
<1> QED  BY <1>4, <1>5

\* What a reaction leaves of the verdict.
LEMMA Verdicts ==
  ASSUME TypeOK, Running, NEW r, Reacts(r)
  PROVE  /\ noted' = (noted \/ r \in Notes) /\ subfailed' = (subfailed \/ r \in SubFails)
         /\ r \in Ending => (Decided' /\ passed' => r \in Passing)
         /\ r \in Passing => marked' = marked
         /\ r \notin Failing \cup {"mark"} => marked' = marked
<1>1. /\ passed' = IF r \in Passing THEN TRUE ELSE IF r \in Failing \cup {"mark"} THEN FALSE ELSE passed
      /\ marked' = (marked \/ r \in Failing \cup {"mark"})
      /\ noted' = (noted \/ r \in Notes) /\ subfailed' = (subfailed \/ r \in SubFails)
  BY DEF Reacts, React, Verdict
<1>2. marked \in BOOLEAN
  BY DEF TypeOK
<1>3. r \in Ending => r \in Passing \/ r \in Failing \/ r = "skip"
  BY DEF Ending
<1>4. r \in Passing => r \notin Failing \cup {"mark"}
  BY DEF Passing, Failing
<1>5. r = "skip" => r \in Ending
  BY DEF Ending
<1>6. r = "skip" => ~Decided'
  BY <1>5, Reaction DEF Decided
<1> QED  BY <1>1, <1>2, <1>3, <1>4, <1>6

LEMMA SubtestsReacts ==
  ASSUME IInv, Running, NEW r, Reacts(r)
  PROVE  Subtests'
<1> SUFFICES ASSUME check.name \notin Lenient
             PROVE  /\ Inside' /\ subfailed' =>
                         /\ \E a \in Places(check) : Before(a, Here') /\ Leads(check, a) \cap SubFails # {}
                         /\ check.rule = "noted" => noted'
                    /\ Decided' /\ passed' => ~subfailed'
  BY DEF Subtests, Reacts
<1>1. TypeOK /\ CountsSubtests(check) /\ Inside /\ Here \in Places(check)
  BY LenientAssumption, PlaceHere DEF IInv, TypeOK, Running, Inside
<1>2. noted' = (noted \/ r \in Notes) /\ subfailed' = (subfailed \/ r \in SubFails)
  BY <1>1, Verdicts
<1>3. subfailed =>
        /\ \E a \in Places(check) : Before(a, Here) /\ Leads(check, a) \cap SubFails # {}
        /\ check.rule = "noted" => noted
  BY <1>1 DEF IInv, Subtests
<1>4. r = "go" \/ r \in Leads(check, Here)
  BY DEF Reacts
<1>5. CASE r \in Ending
  <2>1. ~Inside' /\ (Decided' /\ passed' => r \in Passing)
    BY <1>1, <1>5, Reaction, Verdicts DEF Inside
  <2>2. r \notin SubFails /\ (r \in Passing => r # "go")
    BY <1>5 DEF Ending, Passing, Failing, SubFails
  <2>3. subfailed => r \notin Passing
    BY <1>1, <1>3, <1>4, <2>2 DEF CountsSubtests, NoPassAfter
  <2> QED  BY <1>2, <2>1, <2>2, <2>3
<1>6. CASE r \notin Ending
  <2>1. Inside' /\ ~Decided' /\ Before(Here, Here') /\ \A a \in Places(check) : Before(a, Here) => Before(a, Here')
    <3>1. Advance(r) /\ UNCHANGED <<check, mode>>
      BY <1>1, <1>6, Reaction DEF Reacts
    <3> QED  BY <1>1, <3>1, AdvanceStep DEF Inside, Decided
  <2>2. CASE r \in SubFails
    <3>1. r \in Leads(check, Here) \cap SubFails
      BY <1>4, <2>2 DEF SubFails
    <3>2. check.rule = "noted" => r \in Notes
      BY <1>1, <3>1 DEF CountsSubtests, SubFails, Notes
    <3> QED  BY <1>1, <1>2, <2>1, <3>1, <3>2
  <2>3. CASE r \notin SubFails
    BY <1>2, <1>3, <2>1, <2>3
  <2> QED  BY <2>2, <2>3
<1> QED  BY <1>5, <1>6

LEMMA MarksReacts ==
  ASSUME IInv, Running, NEW r, Reacts(r)
  PROVE  Marks'
<1> SUFFICES ASSUME check.name \notin Overriding
             PROVE  (Inside' => ~marked') /\ (Decided' /\ passed' => ~marked')
  BY DEF Marks, Reacts
<1>1. TypeOK /\ Here \in Places(check) /\ ~marked
  BY PlaceHere DEF IInv, Marks, Running, Inside
<1>2. r # "mark"
  BY <1>1, OverridingAssumption DEF Reacts, TypeOK
<1>3. CASE r \in Ending
  BY <1>1, <1>3, Reaction, Verdicts DEF Inside
<1>4. CASE r \notin Ending
  <2>1. r \notin Failing \cup {"mark"}
    BY <1>2, <1>4 DEF Ending
  <2>2. marked' = marked
    BY <1>1, <2>1, Verdicts
  <2> QED  BY <1>1, <2>2
<1> QED  BY <1>3, <1>4

LEMMA EarnedReacts ==
  ASSUME IInv, Running, NEW r, Reacts(r)
  PROVE  Earned'
<1> SUFFICES ASSUME found' = "bad", WatchedOf \notin Tolerated
             PROVE  /\ Inside' => /\ Before(watched, Here') /\ NoPassAfter(check, watched)
                                  /\ (noted' /\ check.rule = "noted") \/ (subfailed' /\ check.rule = "subtests")
                    /\ ~(Decided' /\ passed')
  <2>1. WatchedOf' = WatchedOf
    BY DEF WatchedOf, Reacts
  <2> QED  BY <2>1 DEF Earned, Reacts
<1>1. TypeOK /\ Inside /\ Here \in Places(check) /\ watched \in Places(check)
  BY PlaceHere DEF IInv, TypeOK, Running, Inside
<1>2. noted' = (noted \/ r \in Notes) /\ subfailed' = (subfailed \/ r \in SubFails)
  BY <1>1, Verdicts
<1>3. r \in Ending => ~Inside' /\ (Decided' /\ passed' => r \in Passing)
  BY <1>1, Reaction, Verdicts DEF Inside
<1>4. r \notin Ending =>
        /\ Inside' /\ ~Decided' /\ Before(Here, Here')
        /\ \A a \in Places(check) : Before(a, Here) => Before(a, Here')
  <2> SUFFICES ASSUME r \notin Ending
               PROVE  /\ Inside' /\ ~Decided' /\ Before(Here, Here')
                      /\ \A a \in Places(check) : Before(a, Here) => Before(a, Here')
    OBVIOUS
  <2>1. Advance(r) /\ UNCHANGED <<check, mode>>
    BY <1>1, Reaction DEF Reacts
  <2> QED  BY <1>1, <2>1, AdvanceStep DEF Inside, Decided
<1>5. CASE found' = found
  <2>1. /\ Before(watched, Here) /\ NoPassAfter(check, watched)
        /\ (noted /\ check.rule = "noted") \/ (subfailed /\ check.rule = "subtests")
    BY <1>1, <1>5 DEF IInv, Earned
  <2>2. r \notin Passing
    <3>1. Leads(check, Here) \cap Passing = {}
      BY <1>1, <2>1 DEF NoPassAfter
    <3> QED  BY <3>1 DEF Reacts, Passing
  <2> QED  BY <1>1, <1>2, <1>3, <1>4, <2>1, <2>2
<1>6. CASE \E f \in DOMAIN Now.on : r = Now.on[f] /\ Here = watched /\ found' = f
  <2>1. At(check, Here) = Now /\ Here = watched /\ "bad" \in DOMAIN Now.on /\ r = Now.on["bad"]
    BY <1>1, <1>6, PlaceHere
  <2>2. Decides(check, watched, r)
    BY <1>1, <2>1, ToleratedAssumption DEF WatchedOf, TypeOK
  <2>3. CASE r \in Failing \cup {"skip"}
    BY <1>3, <2>3 DEF Failing, Passing, Ending
  <2>4. CASE /\ (r \in Notes /\ check.rule = "noted") \/ (r \in SubFails /\ check.rule = "subtests")
             /\ NoPassAfter(check, watched)
    <3>1. r \notin Ending
      BY <2>4 DEF Notes, SubFails, Ending, Passing, Failing
    <3> QED  BY <1>2, <1>4, <2>1, <2>4, <3>1
  <2> QED  BY <2>2, <2>3, <2>4 DEF Decides
<1> QED  BY <1>5, <1>6 DEF Reacts

LEMMA Concludes ==
  ASSUME IInv, Conclude
  PROVE  IInv'
<1>1. /\ TypeOK /\ Inside /\ check' = check /\ watched' = watched /\ Parts' = Parts
      /\ passed' = Sums(check) /\ marked' = (marked \/ ~Sums(check))
      /\ UNCHANGED <<noted, subfailed, skipped, blamed, found, seen>>
  BY DEF Conclude, IInv, Inside, Parts, sight
<1>2. mode' \in {"finally", "over"} /\ ended' = "returned" /\ op' = 1 /\ UNCHANGED <<part, through>>
  BY DEF Conclude, Leave
<1>3. TypeOK'
  <2>1. {passed', noted', subfailed', skipped', marked', blamed', seen'} \subseteq BOOLEAN
    BY <1>1 DEF TypeOK, Sums
  <2> QED  BY <1>1, <1>2, <2>1 DEF TypeOK, Running
<1>4. Subtests'
  <2>1. check.name \notin Lenient => (passed' => ~subfailed)
    <3> SUFFICES ASSUME check.name \notin Lenient, subfailed PROVE ~Sums(check)
      BY <1>1
    <3>1. CountsSubtests(check)
      BY <1>1, LenientAssumption DEF TypeOK
    <3>2. /\ \E a \in Places(check) : Leads(check, a) \cap SubFails # {}
          /\ check.rule = "noted" => noted
      BY <1>1 DEF IInv, Subtests
    <3> QED  BY <3>1, <3>2 DEF CountsSubtests, Sums
  <2> QED  BY <1>1, <1>2, <2>1 DEF Subtests, Inside
<1>5. Marks'
  BY <1>1, <1>2 DEF IInv, Marks, Inside
<1>6. Earned'
  <2>1. WatchedOf' = WatchedOf
    BY <1>1 DEF WatchedOf
  <2> QED  BY <1>1, <1>2, <2>1 DEF IInv, Earned, Inside, Sums
<1> QED  BY <1>3, <1>4, <1>5, <1>6 DEF IInv

\* After run(), only what the check has made is touched.
LEMMA Afterwards ==
  ASSUME IInv, CleanUp \/ KeepOrNot
  PROVE  IInv'
<1>1. /\ TypeOK /\ mode = "finally" /\ mode' \in {"finally", "over"} /\ op' \in Nat \ {0}
      /\ UNCHANGED <<check, watched, part, through, ended, passed, noted, subfailed, skipped, marked, blamed,
                     found, seen>>
  BY DEF IInv, TypeOK, CleanUp, KeepOrNot, Cleaning, Cleaned, verdict, sight
<1>2. Parts' = Parts /\ WatchedOf' = WatchedOf
  BY <1>1 DEF Parts, WatchedOf
<1>3. TypeOK'
  BY <1>1, <1>2 DEF TypeOK, Running
<1>4. Subtests' /\ Marks' /\ Earned'
  BY <1>1, <1>2 DEF IInv, Subtests, Marks, Earned, Inside, Decided
<1> QED  BY <1>3, <1>4 DEF IInv

LEMMA Interrupted ==
  ASSUME IInv, Interrupt
  PROVE  IInv'
<1>1. /\ TypeOK /\ mode' \in {"finally", "over"} /\ ended' = "interrupted" /\ op' \in Nat \ {0}
      /\ UNCHANGED <<check, watched, part, through, passed, noted, subfailed, skipped, marked, blamed, found, seen>>
  BY DEF IInv, TypeOK, Interrupt, Leave, place, verdict, sight
<1>2. Parts' = Parts /\ WatchedOf' = WatchedOf
  BY <1>1 DEF Parts, WatchedOf
<1>3. TypeOK'
  BY <1>1, <1>2 DEF TypeOK, Running
<1>4. Subtests' /\ Marks' /\ Earned'
  BY <1>1, <1>2 DEF Subtests, Marks, Earned, Inside, Decided
<1> QED  BY <1>3, <1>4 DEF IInv

LEMMA InvStep == IInv /\ [Next]_vars => IInv'
<1> SUFFICES ASSUME IInv, [Next]_vars PROVE IInv'
  OBVIOUS
<1>1. CASE LookAt \/ Make \/ CloseIt
  <2>1. TypeOK
    BY DEF IInv
  <2>2. PICK r : Running /\ Reacts(r)
    BY <1>1, <2>1, Operation
  <2>3. TypeOK' /\ Subtests' /\ Marks' /\ Earned'
    BY <2>1, <2>2, TypeReacts, SubtestsReacts, MarksReacts, EarnedReacts
  <2> QED  BY <2>3 DEF IInv
<1>2. CASE Conclude
  BY <1>2, Concludes
<1>3. CASE CleanUp \/ KeepOrNot
  BY <1>3, Afterwards
<1>4. CASE Interrupt
  BY <1>4, Interrupted
<1>5. CASE UNCHANGED vars
  <2>1. UNCHANGED <<check, watched, part, op, through, mode, ended, passed, noted, subfailed, skipped,
                    marked, blamed, found, seen>>
    BY <1>5 DEF vars, place, verdict, sight
  <2> QED  BY <2>1 DEF IInv, TypeOK, Subtests, Marks, Earned, Inside, Decided, Here, Running, Ops, Parts, WatchedOf
<1> QED  BY <1>1, <1>2, <1>3, <1>4, <1>5 DEF Next, Over

\* The conjunction is inductive, so it holds throughout.
LEMMA InvHolds == Spec => []IInv
BY InvInit, InvStep, PTL DEF Spec

------------------------------------------------------------------------------
(* What is remembered, what was seen.                                      *)

\* A non-final reaction moves on, not past a place it does not lead past.
LEMMA NotPast ==
  ASSUME TypeOK, Running, NEW r, Reacts(r), r \notin Ending, NEW b \in Places(check), Before(Here, b),
         LeadsUpTo(check, Here, b) \/ r \in {"go", "ok"}, Here[1] # b[1] => check.parts[b[1]].needs = {}
  PROVE  Here' = b \/ Before(Here', b)
<1>1. Advance(r) /\ (r = "go" \/ r \in Leads(check, Here)) /\ Here[1] = part /\ Here[2] = op /\ Here' = <<part', op'>>
  BY Reaction DEF Reacts, Here
<1>2. /\ Len(Parts) \in Nat /\ part \in Nat /\ op \in Nat /\ b[1] \in 1..Len(Parts)
      /\ b[2] \in 1..Len(check.parts[b[1]].ops) /\ Len(check.parts[b[1]].ops) \in Nat /\ b = <<b[1], b[2]>>
  BY ChecksAssumption DEF Places, TypeOK, Parts
<1>3. part < b[1] \/ (part = b[1] /\ op < b[2])
  BY <1>1 DEF Before
<1>4. r # "done" /\ (r \in CutsShort => part < b[1])
  BY <1>1 DEF LeadsUpTo, CutsShort
<1>5. ASSUME part < b[1], NEW gone, NextPart(gone) PROVE Here' = b \/ Before(Here', b)
  <2>1. PICK p \in (part + 1)..(Len(Parts) + 1) :
          /\ \A q \in (part + 1)..(p - 1) : ~(Parts[q].needs \subseteq gone)
          /\ part' = p /\ op' = 1
    BY <1>5 DEF NextPart
  <2>2. Parts[b[1]].needs \subseteq gone
    <3>1. Here[1] # b[1]
      BY <1>1, <1>2, <1>5
    <3> QED  BY <3>1 DEF Parts
  <2>3. ~(p > b[1])
    BY <1>2, <1>5, <2>1, <2>2
  <2>4. p < b[1] \/ (p = b[1] /\ 1 <= b[2])
    BY <1>2, <2>1, <2>3
  <2> QED  BY <1>1, <1>2, <2>1, <2>4 DEF Before
<1>6. CASE r \in CutsShort
  BY <1>1, <1>4, <1>5, <1>6 DEF Advance
<1>7. CASE op < Len(Ops) /\ op' = op + 1 /\ part' = part
  BY <1>1, <1>2, <1>3, <1>7 DEF Before
<1>8. CASE op >= Len(Ops) /\ NextPart(through \cup {part})
  <2>1. part < b[1]
    BY <1>2, <1>3, <1>8 DEF Ops, Parts
  <2> QED  BY <1>5, <1>8, <2>1
<1> QED  BY <1>1, <1>4, <1>6, <1>7, <1>8 DEF Advance

LEMMA BlamesReacts ==
  ASSUME TypeOK, Blames, Running, NEW r, Reacts(r)
  PROVE  Blames'
<1>1. /\ passed' = IF r \in Passing THEN TRUE ELSE IF r \in Failing \cup {"mark"} THEN FALSE ELSE passed
      /\ blamed' = (blamed \/ r \notin Neutral)
      /\ noted' = (noted \/ r \in Notes) /\ subfailed' = (subfailed \/ r \in SubFails)
  BY DEF Reacts, React, Verdict
<1>2. Inside /\ ((noted \/ subfailed) => blamed)
  BY DEF Blames, Inside, Running
<1>3. r \in Notes \cup SubFails \cup Failing => r \notin Neutral
  BY DEF Notes, SubFails, Failing, Neutral, Passing
<1>4. (noted' \/ subfailed') => blamed'
  BY <1>1, <1>2, <1>3
<1>5. CASE r \in Ending
  <2>1. ~Inside' /\ (Decided' => r # "skip")
    BY <1>5, Reaction DEF Inside, Decided
  <2>2. Decided' /\ ~passed' => r \in Failing
    BY <1>1, <1>5, <2>1 DEF Ending
  <2> QED  BY <1>1, <1>3, <2>1, <2>2 DEF Blames
<1>6. CASE r \notin Ending
  <2>1. ~Decided'
    BY <1>2, <1>6, Reaction DEF Inside, Decided
  <2> QED  BY <1>4, <2>1 DEF Blames
<1> QED  BY <1>5, <1>6

LEMMA BlamesStep == TypeOK /\ Blames /\ [Next]_vars => Blames'
<1> SUFFICES ASSUME TypeOK, Blames, [Next]_vars PROVE Blames'
  OBVIOUS
<1>1. CASE LookAt \/ Make \/ CloseIt
  BY <1>1, Operation, BlamesReacts
<1>2. CASE Conclude
  <2>1. /\ Inside /\ ~Inside' /\ passed' = Sums(check) /\ blamed' = blamed
    BY <1>2 DEF Conclude, Leave, Inside
  <2>2. ~Sums(check) => noted \/ subfailed
    BY DEF Sums
  <2> QED  BY <2>1, <2>2 DEF Blames
<1>3. CASE CleanUp \/ KeepOrNot
  BY <1>3 DEF CleanUp, KeepOrNot, Cleaning, Cleaned, verdict, Blames, Inside, Decided
<1>4. CASE Interrupt
  BY <1>4 DEF Interrupt, Leave, Blames, Inside, Decided
<1>5. CASE UNCHANGED vars
  BY <1>5 DEF vars, verdict, Blames, Inside, Decided
<1> QED  BY <1>1, <1>2, <1>3, <1>4, <1>5 DEF Next, Over

\* A look that tells leaves something seen or a failure remembered.
LEMMA TellsShows ==
  ASSUME TypeOK, Running, NEW r, Reacts(r), Tells(check, Here)
  PROVE  /\ r \notin Ending => Shown'
         /\ r \in Passing => seen'
<1>1. Here \in Places(check) /\ At(check, Here) = Now
  BY PlaceHere
<1>2. PICK f \in DOMAIN Now.on : r = Now.on[f] /\ seen' = (seen \/ f = "good")
  BY <1>1 DEF Reacts, Tells
<1>3. CASE f = "good"
  BY <1>2, <1>3 DEF Shown
<1>4. CASE f # "good"
  <2>1. Decides(check, Here, r)
    BY <1>1, <1>2, <1>4 DEF Tells
  <2>2. r \notin Passing
    BY <2>1 DEF Decides, Failing, Passing, Notes, SubFails
  <2>3. ASSUME r \notin Ending PROVE Shown'
    <3>1. NoPassAfter(check, Here) /\ ((r \in Notes /\ check.rule = "noted") \/ (r \in SubFails /\ check.rule = "subtests"))
      BY <2>1, <2>3 DEF Decides, Ending
    <3>2. check' = check /\ Before(Here, Here')
      <4>1. Advance(r) /\ UNCHANGED <<check, mode>>
        BY <2>3, Reaction DEF Reacts
      <4> QED  BY <4>1, AdvanceStep
    <3>3. Remembered'
      BY <3>1, <3>2, Verdicts DEF Remembered
    <3> QED  BY <1>1, <3>1, <3>2, <3>3 DEF Shown
  <2> QED  BY <2>2, <2>3
<1> QED  BY <1>3, <1>4

\* What was shown stays shown, and nothing passes over it.
LEMMA ShownStays ==
  ASSUME TypeOK, Running, NEW r, Reacts(r), Shown
  PROVE  /\ r \notin Ending => Shown'
         /\ r \in Passing => seen'
<1>1. seen => seen'
  BY DEF Reacts
<1>2. CASE seen
  BY <1>1, <1>2 DEF Shown
<1>3. CASE ~seen
  <2>1. PICK y \in Places(check) : Before(y, Here) /\ NoPassAfter(check, y)
    BY <1>3 DEF Shown
  <2>2. r \notin Passing
    <3>1. Leads(check, Here) \cap Passing = {}
      BY <2>1, PlaceHere DEF NoPassAfter
    <3> QED  BY <3>1 DEF Reacts, Passing
  <2>3. ASSUME r \notin Ending PROVE Shown'
    <3>1. check' = check /\ Before(y, Here')
      <4>1. Advance(r) /\ UNCHANGED <<check, mode>>
        BY <2>3, Reaction DEF Reacts
      <4> QED  BY <2>1, <4>1, AdvanceStep
    <3>2. Remembered'
      BY <1>3, <3>1, Verdicts DEF Shown, Remembered
    <3> QED  BY <2>1, <3>1, <3>2 DEF Shown
  <2> QED  BY <2>2, <2>3
<1> QED  BY <1>2, <1>3

LEMMA SightedReacts ==
  ASSUME TypeOK, Sighted, Running, NEW r, Reacts(r)
  PROVE  Sighted'
<1> SUFFICES ASSUME check.name \notin Vacuous
             PROVE  /\ Inside' => /\ Told(check, Here') => Shown'
                                  /\ \A g \in Places(check) : Gate(check, g) /\ Before(g, Here') => Shown'
                    /\ Decided' /\ passed' => seen'
  BY DEF Sighted, Reacts
<1>1. /\ Inside /\ Here \in Places(check) /\ Here[1] = part /\ Here[2] = op /\ Here' = <<part', op'>>
      /\ part \in Nat /\ op \in Nat
  BY PlaceHere, ChecksAssumption DEF TypeOK, Running, Inside, Here
<1>2. \A g \in Places(check) : Before(g, Here) \/ g = Here \/ Before(Here, g)
  <2> TAKE g \in Places(check)
  <2>1. g = <<g[1], g[2]>> /\ g[1] \in Nat /\ g[2] \in Nat
    BY ChecksAssumption DEF Places, TypeOK
  <2> QED  BY <1>1, <2>1 DEF Before, Here
<1>3. ASSUME Told(check, Here) \/ (\E g \in Places(check) : Gate(check, g) /\ Before(g, Here)) PROVE Shown
  BY <1>1, <1>3 DEF Sighted
<1>4. ASSUME NEW g \in Places(check), Gate(check, g)
      PROVE  /\ r \notin Ending /\ Before(g, Here') => Shown'
             /\ r \in Passing => seen'
  <2>1. CASE Before(g, Here) \/ Told(check, Here)
    BY <1>3, <1>4, <2>1, ShownStays
  <2>2. CASE g = Here
    BY <1>4, <2>2, TellsShows DEF Gate
  <2>3. CASE Before(Here, g) /\ ~Told(check, Here)
    <3>1. Leads(check, Here) \cap Passing = {} /\ LeadsUpTo(check, Here, g) /\ check.parts[g[1]].needs = {}
      BY <1>1, <1>4, <2>3 DEF Gate
    <3>2. r \notin Passing
      BY <3>1 DEF Reacts, Passing
    <3>3. ASSUME r \notin Ending PROVE ~Before(g, Here')
      <4>1. Here' = g \/ Before(Here', g)
        BY <2>3, <3>1, <3>3, NotPast
      <4>2. part' \in Nat /\ op' \in Nat /\ g[1] \in Nat /\ g[2] \in Nat
        <5>1. Advance(r) /\ UNCHANGED <<check, mode>>
          BY <3>3, Reaction DEF Reacts
        <5>2. part' \in 1..(Len(Parts) + 1) /\ op' \in Nat \ {0}
          BY <5>1, AdvanceStep
        <5>3. Len(Parts) \in Nat /\ g[1] \in Nat /\ g[2] \in Nat
          BY ChecksAssumption DEF TypeOK, Parts, Places
        <5> QED  BY <5>2, <5>3
      <4> QED  BY <1>1, <4>1, <4>2 DEF Before
    <3> QED  BY <3>2, <3>3
  <2> QED  BY <1>2, <2>1, <2>2, <2>3
<1>5. ASSUME r \notin Ending, Told(check, Here') PROVE Shown'
  <2>1. Advance(r)
    BY <1>5, Reaction
  <2>2. PICK k \in 1..(op' - 1) : Tells(check, <<part', k>>)
    BY <1>1, <1>5 DEF Told
  <2>3. part' = part /\ op' = op + 1
    <3>1. op' = 1 \/ (part' = part /\ op' = op + 1)
      BY <2>1 DEF Advance, NextPart
    <3>2. op' # 1
      BY <2>2
    <3> QED  BY <3>1, <3>2
  <2>4. CASE k = op
    BY <1>5, <2>2, <2>3, <2>4, TellsShows DEF Here
  <2>5. CASE k # op
    <3>1. k \in 1..(op - 1)
      BY <1>1, <2>2, <2>3, <2>5
    <3>2. Told(check, Here)
      BY <1>1, <2>2, <2>3, <3>1 DEF Told
    <3> QED  BY <1>3, <1>5, <3>2, ShownStays
  <2> QED  BY <2>4, <2>5
<1>6. PICK g0 \in Places(check) : Gate(check, g0)
  BY VacuousAssumption DEF TypeOK
<1>7. CASE r \in Ending
  <2>1. ~Inside' /\ (Decided' /\ passed' => r \in Passing)
    BY <1>1, <1>7, Reaction, Verdicts DEF Inside
  <2> QED  BY <1>4, <1>6, <2>1
<1>8. CASE r \notin Ending
  <2>1. ~Decided'
    BY <1>1, <1>8, Reaction DEF Inside, Decided
  <2> QED  BY <1>4, <1>5, <1>8, <2>1
<1> QED  BY <1>7, <1>8

LEMMA SightedStep == TypeOK /\ Sighted /\ [Next]_vars => Sighted'
<1> SUFFICES ASSUME TypeOK, Sighted, [Next]_vars PROVE Sighted'
  OBVIOUS
<1>1. CASE LookAt \/ Make \/ CloseIt
  BY <1>1, Operation, SightedReacts
<1>2. CASE Conclude
  <2>1. /\ Inside /\ ~Inside' /\ passed' = Sums(check) /\ seen' = seen /\ check' = check /\ part > Len(Parts)
    BY <1>2 DEF Conclude, Leave, Inside, sight
  <2> SUFFICES ASSUME check.name \notin Vacuous, Sums(check) PROVE seen
    BY <2>1 DEF Sighted
  <2>2. PICK g \in Places(check) : Gate(check, g)
    BY VacuousAssumption DEF TypeOK
  <2>3. Before(g, Here)
    <3>1. g[1] \in 1..Len(Parts) /\ Len(Parts) \in Nat
      BY ChecksAssumption DEF TypeOK, Parts, Places
    <3>2. part \in Nat
      BY <3>1 DEF TypeOK
    <3> QED  BY <2>1, <3>1, <3>2 DEF Before, Here
  <2>4. Shown
    BY <2>1, <2>2, <2>3 DEF Sighted
  <2>5. ~Remembered
    BY DEF Sums, Remembered
  <2> QED  BY <2>4, <2>5 DEF Shown
<1>3. CASE CleanUp \/ KeepOrNot
  BY <1>3 DEF CleanUp, KeepOrNot, Cleaning, Cleaned, verdict, sight, Sighted, Inside, Decided
<1>4. CASE Interrupt
  BY <1>4 DEF Interrupt, Leave, Sighted, Inside, Decided
<1>5. CASE UNCHANGED vars
  <2>1. UNCHANGED <<check, part, op, mode, ended, passed, noted, subfailed, seen>>
    BY <1>5 DEF vars, place, verdict, sight
  <2>2. Shown' = Shown /\ Here' = Here
    BY <2>1 DEF Shown, Remembered, Here
  <2> QED  BY <2>1, <2>2 DEF Sighted, Inside, Decided
<1> QED  BY <1>1, <1>2, <1>3, <1>4, <1>5 DEF Next, Over

------------------------------------------------------------------------------
(* What the check has made and what it can close.                          *)

LEMMA GraspedStep == Grasped /\ [Next]_vars => Grasped'
<1> SUFFICES ASSUME Grasped, [Next]_vars PROVE Grasped'
  OBVIOUS
<1>1. CASE LookAt
  BY <1>1 DEF LookAt, HangUpIf, Grasped
<1>2. CASE Make
  BY <1>2 DEF Make, Grasped
<1>3. CASE CloseIt \/ CleanUp
  <2>1. CASE UNCHANGED objects
    BY <2>1 DEF objects, Grasped
  <2>2. CASE \E f : Remove(f)
    BY <2>2 DEF Remove, Grasped
  <2> QED  BY <1>3, <2>1, <2>2 DEF CloseIt, CleanUp
<1>4. CASE KeepOrNot
  BY <1>4 DEF KeepOrNot, Grasped
<1>5. CASE Interrupt
  BY <1>5 DEF Interrupt, Grasped
<1>6. CASE Conclude \/ UNCHANGED vars
  BY <1>6 DEF Conclude, vars, objects, Grasped
<1> QED  BY <1>1, <1>2, <1>3, <1>4, <1>5, <1>6 DEF Next, Over

\* What an operation may come to know of, and what it closes.
Knows(r) ==
  /\ \A o \in known' \ known :
       o = Now.of /\ (Now.do = "claim" \/ (Now.do = "open" /\ r = Now.on["good"]))
  /\ Now.do \in {"close", "delete"} => Now.of \notin known'
  /\ Now.do \in {"look", "switch"} /\ r \in {"quit", "leave"} => "connection" \notin known'

LEMMA KnowsObjects ==
  ASSUME TypeOK, LookAt \/ Make \/ CloseIt
  PROVE  Running /\ \E r : Reacts(r) /\ Knows(r)
<1>1. CASE LookAt
  <2>1. PICK f \in DOMAIN Now.on : React(Now.on[f]) /\ Find(f) /\ HangUpIf(Now.on[f])
    BY <1>1 DEF LookAt
  <2>2. Running /\ Reacts(Now.on[f])
    BY <1>1, <2>1, Found DEF LookAt
  <2>3. Knows(Now.on[f])
    BY <1>1, <2>1 DEF LookAt, HangUpIf, Knows
  <2> QED  BY <2>2, <2>3
<1>2. CASE Make
  <2>1. PICK f \in DOMAIN Now.on :
          /\ React(Now.on[f]) /\ Find(f)
          /\ known' = IF f = "good" \/ Now.do = "claim" THEN known \cup {Now.of} ELSE known
    BY <1>2 DEF Make
  <2>2. Running /\ Reacts(Now.on[f])
    BY <1>2, <2>1, Found DEF Make
  <2>3. Knows(Now.on[f])
    BY <1>2, <2>1 DEF Make, Knows
  <2> QED  BY <2>2, <2>3
<1>3. CASE CloseIt
  <2>1. Running /\ UNCHANGED <<check, watched, sight>> /\ Now.do \in {"close", "delete"}
    BY <1>3 DEF CloseIt
  <2>2. CASE React("go") /\ Now.of \notin known /\ UNCHANGED objects
    <3>1. "go" \in Reactions /\ seen \in BOOLEAN /\ found \in Findings \cup {"unseen"}
      BY DEF Reactions, TypeOK
    <3>2. Reacts("go") /\ Knows("go")
      BY <2>1, <2>2, <3>1 DEF Reacts, Knows, sight, objects
    <3> QED  BY <2>1, <3>2
  <2>3. CASE \E f \in DOMAIN Now.on : React(Now.on[f]) /\ Remove(f)
    <3>1. PICK f \in DOMAIN Now.on : React(Now.on[f]) /\ Remove(f)
      BY <2>3
    <3>2. Reacts(Now.on[f]) /\ Knows(Now.on[f])
      BY <2>1, <3>1, Found DEF Remove, Knows
    <3> QED  BY <2>1, <3>2
  <2> QED  BY <1>3, <2>2, <2>3 DEF CloseIt
<1> QED  BY <1>1, <1>2, <1>3

LEMMA HeldKnows ==
  ASSUME TypeOK, Held, Running, NEW r, Reacts(r), Knows(r)
  PROVE  Held'
<1>1. /\ Inside /\ check \in Checks /\ Here \in Places(check) /\ At(check, Here) = Now /\ check' = check
      /\ r = "go" \/ r \in Leads(check, Here)
  BY PlaceHere DEF TypeOK, Running, Inside, Reacts
\* Whatever stays open is closed ahead, and nothing found here ends run() without hanging it up.
<1>2. ASSUME NEW o \in Others'
      PROVE  \E a, b \in Places(check) :
               /\ At(check, a).of = o /\ ClosedAt(check, a, b) /\ (Before(a, Here) \/ a = Here)
               /\ Before(Here, b) /\ (LeadsUpTo(check, Here, b) \/ r \in {"go", "ok"})
               /\ Here[1] # b[1] => check.parts[b[1]].needs = {}
               /\ r \in Ending => r = "raise"
  <2>1. o \in known' /\ o \notin check.keeps \cup ClosedIn(check)
    BY <1>1 DEF Others
  <2>2. CASE o \in known
    <3>1. PICK a, b \in Places(check) :
            At(check, a).of = o /\ ClosedAt(check, a, b) /\ Before(a, Here) /\ (Here = b \/ Before(Here, b))
      BY <1>1, <2>1, <2>2 DEF Held, Others
    <3>2. Before(Here, b)
      BY <1>1, <2>1, <3>1 DEF ClosedAt, Knows
    <3>3. LeadsUpTo(check, Here, b)
      BY <1>1, <3>1, <3>2 DEF ClosedAt
    <3>4. r \in Ending => r = "raise"
      <4>1. r \in Leads(check, Here) \cap Ending =>
              r = "raise" \/ (r \in {"quit", "leave"} /\ HangsUp(check, Here, o))
        BY <1>1, <3>1, <3>2 DEF ClosedAt
      <4>2. r \in Ending => r # "go"
        BY DEF Ending, Passing, Failing
      <4> QED  BY <1>1, <2>1, <4>1, <4>2 DEF HangsUp, Knows
    <3>5. Here[1] # b[1] => check.parts[b[1]].needs = {}
      <4>1. a[1] \in Nat /\ b[1] \in Nat /\ Here[1] \in Nat
        BY <1>1, ChecksAssumption DEF Places
      <4>2. Here[1] # b[1] => a[1] # b[1]
        BY <3>1, <3>2, <4>1 DEF Before
      <4> QED  BY <3>1, <4>2 DEF ClosedAt
    <3> QED  BY <3>1, <3>2, <3>3, <3>4, <3>5
  <2>3. CASE o \notin known
    <3>1. o = Now.of /\ (Now.do = "claim" \/ (Now.do = "open" /\ r = Now.on["good"]))
      BY <2>1, <2>3 DEF Knows
    <3>2. PICK b \in Places(check) : ClosedAt(check, Here, b) /\ Now.do = "open" /\ Now.on["good"] \in {"go", "ok"}
      BY <1>1, <2>1, <3>1, ClosingAssumption
    <3>3. r \in {"go", "ok"} /\ r \notin Ending
      BY <3>1, <3>2 DEF Ending, Passing, Failing
    <3> QED  BY <1>1, <3>1, <3>2, <3>3 DEF ClosedAt
  <2> QED  BY <2>2, <2>3
<1>3. CASE r \in Ending
  <2>1. ~Inside' /\ (ended' \in {"returned", "skipped"} => r # "raise")
    BY <1>1, <1>3, Reaction DEF Inside
  <2> QED  BY <1>2, <1>3, <2>1 DEF Held
<1>4. CASE r \notin Ending
  <2>1. Advance(r) /\ UNCHANGED <<check, mode>> /\ ended' = "none"
    BY <1>1, <1>4, Reaction DEF Running, TypeOK
  <2>2. Before(Here, Here') /\ \A a \in Places(check) : Before(a, Here) => Before(a, Here')
    BY <2>1, AdvanceStep
  <2>3. ASSUME NEW o \in Others'
        PROVE  \E a, b \in Places(check) :
                 At(check, a).of = o /\ ClosedAt(check, a, b) /\ Before(a, Here') /\ (Here' = b \/ Before(Here', b))
    <3>1. PICK a, b \in Places(check) :
               /\ At(check, a).of = o /\ ClosedAt(check, a, b) /\ (Before(a, Here) \/ a = Here)
               /\ Before(Here, b) /\ (LeadsUpTo(check, Here, b) \/ r \in {"go", "ok"})
               /\ Here[1] # b[1] => check.parts[b[1]].needs = {}
      BY <1>2
    <3>2. Here' = b \/ Before(Here', b)
      BY <1>4, <3>1, NotPast
    <3> QED  BY <2>2, <3>1, <3>2
  <2> QED  BY <1>1, <2>1, <2>3 DEF Held
<1> QED  BY <1>3, <1>4

LEMMA HeldStep == TypeOK /\ Held /\ [Next]_vars => Held'
<1> SUFFICES ASSUME TypeOK, Held, [Next]_vars PROVE Held'
  OBVIOUS
<1>1. CASE LookAt \/ Make \/ CloseIt
  BY <1>1, KnowsObjects, HeldKnows
<1>2. CASE Conclude
  <2>1. Inside /\ ~Inside' /\ part > Len(Parts) /\ check' = check /\ known' = known
    BY <1>2 DEF Conclude, Leave, Inside, objects
  <2>2. \A b \in Places(check) : ~(Here = b \/ Before(Here, b))
    <3>1. Len(Parts) \in Nat /\ part \in Nat /\ \A b \in Places(check) : b[1] \in 1..Len(Parts)
      BY ChecksAssumption DEF TypeOK, Parts, Places
    <3> QED  BY <2>1, <3>1 DEF Before, Here
  <2>3. Others' = {}
    BY <2>1, <2>2 DEF Held, Others
  <2> QED  BY <2>1, <2>3 DEF Held
<1>3. CASE CleanUp \/ KeepOrNot
  <2>1. ~Inside' /\ check' = check /\ ended' = ended /\ known' \subseteq known
    BY <1>3 DEF CleanUp, KeepOrNot, Cleaning, Cleaned, Remove, objects, Inside
  <2> QED  BY <2>1 DEF Held, Others
<1>4. CASE Interrupt
  BY <1>4 DEF Interrupt, Leave, Held, Inside
<1>5. CASE UNCHANGED vars
  <2>1. UNCHANGED <<check, part, op, mode, ended, known>>
    BY <1>5 DEF vars, place, objects
  <2>2. Others' = Others /\ Here' = Here
    BY <2>1 DEF Others, Here
  <2> QED  BY <2>1, <2>2 DEF Held, Inside
<1> QED  BY <1>1, <1>2, <1>3, <1>4, <1>5 DEF Next, Over

LEMMA EmptiedStep == TypeOK /\ Emptied /\ [Next]_vars => Emptied'
<1> SUFFICES ASSUME TypeOK, Emptied, [Next]_vars PROVE Emptied'
  OBVIOUS
<1>1. ASSUME check' = check, op' = 1, mode' = "over" => check.finally = <<>> PROVE Emptied'
  <2>1. check.finally = <<>> => ClosedIn(check) = {}
    BY DEF ClosedIn
  <2> QED  BY <1>1, <2>1 DEF Emptied
<1>2. CASE LookAt \/ Make \/ CloseIt
  <2>1. PICK r : Running /\ Reacts(r)
    BY <1>2, Operation
  <2>2. check' = check /\ mode = "run"
    BY <2>1 DEF Reacts, Running
  <2>3. CASE r \in Ending
    BY <1>1, <2>1, <2>2, <2>3, Reaction
  <2>4. CASE r \notin Ending
    BY <2>1, <2>2, <2>4, Reaction DEF Emptied
  <2> QED  BY <2>3, <2>4
<1>3. CASE Conclude
  BY <1>1, <1>3 DEF Conclude, Leave
<1>4. ASSUME Cleaning, Cleaned, check' = check, known' \subseteq known,
             Now.do \in {"close", "delete"} => Now.of \notin known'
      PROVE  Emptied'
  <2>1. op \in Nat /\ Len(check.finally) \in Nat /\ op <= Len(check.finally) /\ mode = "finally"
    BY <1>4, ChecksAssumption DEF Cleaning, TypeOK
  <2>2. Now = check.finally[op]
    BY <2>1 DEF Now
  <2>3. \A i \in 1..op : check.finally[i].do \in {"close", "delete"} => check.finally[i].of \notin known'
    BY <1>4, <2>1, <2>2 DEF Emptied
  <2>4. CASE op < Len(check.finally)
    BY <1>4, <2>1, <2>3, <2>4 DEF Cleaned, Emptied
  <2>5. CASE op = Len(check.finally)
    <3>1. known' \cap ClosedIn(check) = {}
      BY <2>3, <2>5 DEF ClosedIn
    <3> QED  BY <1>4, <2>1, <2>5, <3>1 DEF Cleaned, Emptied
  <2> QED  BY <2>1, <2>4, <2>5
<1>5. ASSUME made' = made, excused' = excused \cup made, mode' = "over" PROVE Emptied'
  BY <1>5 DEF Emptied
<1>6. CASE CleanUp
  BY <1>4, <1>6 DEF CleanUp, Remove, objects
<1>7. CASE KeepOrNot
  BY <1>4, <1>5, <1>7 DEF KeepOrNot
<1>8. CASE Interrupt
  BY <1>1, <1>5, <1>8 DEF Interrupt, Leave
<1>9. CASE UNCHANGED vars
  BY <1>9 DEF vars, place, objects, Emptied
<1> QED  BY <1>2, <1>3, <1>6, <1>7, <1>8, <1>9 DEF Next, Over

LEMMA ObjectsHold == Spec => []ObjectInv
<1>1. Init => ObjectInv
  BY DEF Init, ObjectInv, Grasped, Held, Others, Emptied
<1>2. IInv => TypeOK
  BY DEF IInv
<1>3. TypeOK /\ ObjectInv /\ [Next]_vars => ObjectInv'
  BY GraspedStep, HeldStep, EmptiedStep DEF ObjectInv
<1> QED  BY <1>1, <1>2, <1>3, InvHolds, PTL DEF Spec

------------------------------------------------------------------------------
(* What the runs check on the suite's checks, for any checks.              *)

\* Every check keeps to its own operations.
THEOREM TypeCorrect == Spec => []TypeOK
<1>1. IInv => TypeOK
  BY DEF IInv
<1> QED  BY <1>1, InvHolds, PTL

\* A check whose rule counts its sub-tests, wherever they fail and whatever is
\* done afterwards, is not reported as passed with a failed one.
THEOREM SubtestsCount == Spec => []SubtestsDecide
<1>1. IInv => SubtestsDecide
  BY DEF IInv, Subtests, SubtestsDecide, HasPassed, HasReturned, Decided
<1> QED  BY <1>1, InvHolds, PTL

\* A check that never marks a failure and goes on does not take one back.
THEOREM FailuresStand == Spec => []FailureStands
<1>1. IInv => FailureStands
  BY DEF IInv, Marks, FailureStands, HasPassed, HasReturned, Decided
<1> QED  BY <1>1, InvHolds, PTL

\* A check each of whose reactions to something bad decides does not pass over
\* what it found bad, at whichever place of whichever part.
THEOREM PassesEarned == Spec => []PassIsEarned
<1>1. IInv => PassIsEarned
  BY DEF IInv, Earned, PassIsEarned, HasPassed, HasReturned, Decided
<1> QED  BY <1>1, InvHolds, PTL

\* A check that fails has found fault: no skipped sub-test, no part left out
\* and no clean-up that went wrong makes one fail.
THEOREM FailuresCaused == Spec => []FailureHasCause
<1>1. Init => Blames
  BY DEF Init, Blames, Inside, Decided
<1>2. IInv => TypeOK
  BY DEF IInv
<1>3. Blames => FailureHasCause
  BY DEF Blames, FailureHasCause, HasFailed, HasReturned, Decided
<1> QED  BY <1>1, <1>2, <1>3, BlamesStep, InvHolds, PTL DEF Spec

\* A check with a gate, a look behind which nothing passes unless something good
\* was seen, passes only if something was, whichever way its parts are gone through.
THEOREM PassesSeen == Spec => []NoVacuousPass
<1>1. Init => Sighted
  <2> SUFFICES ASSUME Init PROVE Sighted
    OBVIOUS
  <2>1. Here = <<1, 1>> /\ Inside /\ ~Decided
    BY DEF Init, Here, Inside, Decided
  <2>2. ~Told(check, Here)
    BY <2>1 DEF Told
  <2>3. \A g \in Places(check) : ~Before(g, Here)
    <3>1. \A g \in Places(check) : g[1] \in Nat \ {0} /\ g[2] \in Nat \ {0}
      BY ChecksAssumption DEF Init, Places
    <3> QED  BY <2>1, <3>1 DEF Before
  <2> QED  BY <2>1, <2>2, <2>3 DEF Sighted
<1>2. IInv => TypeOK
  BY DEF IInv
<1>3. Sighted => NoVacuousPass
  BY DEF Sighted, NoVacuousPass, HasPassed, HasReturned, Decided
<1> QED  BY <1>1, <1>2, <1>3, SightedStep, InvHolds, PTL DEF Spec

\* Whatever is opened is closed on every way out of run() that is no exception
\* and no Ctrl-C, in run() or in the finally, which is gone through to its end.
THEOREM LeftoversCaused == Spec => []LeftoversHaveCause
<1>1. TypeOK /\ ObjectInv => LeftoversHaveCause
  <2> SUFFICES ASSUME TypeOK, Grasped, Held, Emptied, mode = "over", NEW o \in made \ (check.keeps \cup excused)
               PROVE  ended \in {"raised", "interrupted"} /\ o \notin ClosedIn(check)
    BY DEF ObjectInv, LeftoversHaveCause
  <2>1. o \in known /\ o \notin ClosedIn(check)
    BY DEF Grasped, Emptied
  <2>2. o \in Others
    BY <2>1 DEF Others
  <2>3. ended \in {"returned", "raised", "skipped", "interrupted"}
    BY DEF TypeOK
  <2> QED  BY <2>1, <2>2, <2>3 DEF Held
<1>2. IInv => TypeOK
  BY DEF IInv
<1> QED  BY <1>1, <1>2, ObjectsHold, InvHolds, PTL
==============================================================================
