------------------------------ MODULE CheckRun -------------------------------
(***************************************************************************)
(* BaseValidation.execute(): one validation check runs against a system it *)
(* does not control.  The checks are data (CheckOps); this module says     *)
(* what each operation does to the verdict, to the sub-tests and to what   *)
(* the check has opened or made.                                           *)
(*                                                                         *)
(* What a look finds is the system's choice, again at every look.  A call  *)
(* that opens or makes something may take effect although it reports a     *)
(* failure; Ctrl-C may come at any operation, and a finally still runs.    *)
(***************************************************************************)
EXTENDS CheckOps

CONSTANTS Checks,      \* the checks
          Lenient,     \* the names of those that pass with a failed sub-test,
          Overriding,  \* that call set_passed after set_failed,
          Vacuous,     \* that pass without having seen anything good
          Tolerated    \* what is found bad and passed over: <<name, what is looked at>>

VARIABLES check, watched,            \* the check; the look the history follows
          part, op, through,         \* where run() is; the parts gone through
          mode, ended,               \* run, finally, over; how run() was left
          passed,                    \* self._passed
          noted, subfailed,          \* a failure remembered, a failed sub-test
          skipped,                   \* a skipped sub-test
          made, known,               \* what the check has brought about, what it can close
          marked, blamed,            \* history: set_failed was called; a reaction found fault
          found, seen,               \*   what the watched look found; something good was seen
          excused                    \*   objects nobody can expect the check to have removed

place   == <<part, op, through>>
verdict == <<passed, noted, subfailed, skipped, marked, blamed>>
sight   == <<found, seen>>
objects == <<made, known, excused>>
vars == <<check, watched, place, mode, ended, verdict, sight, objects>>

Parts == check.parts
Ops == Parts[part].ops
Running == mode = "run" /\ part <= Len(Parts)
Cleaning == mode = "finally" /\ op <= Len(check.finally)
Now == IF mode = "run" THEN Ops[op] ELSE check.finally[op]

Passing   == {"pass", "leave"}
Failing   == {"fail", "quit", "raise"}
Ending    == Passing \cup Failing \cup {"skip"}
CutsShort == {"skip_sub", "flunk", "miss", "mark", "next"}
SubFails  == {"sub", "flunk"}
Notes     == {"note", "flunk", "miss"}
Neutral   == {"go", "ok", "next", "done", "skip_sub", "skip"} \cup Passing
Findings  == {"good", "bad", "none", "empty", "odd", "on", "off"}

Reactions == Ending \cup CutsShort \cup {"go", "ok", "sub", "note", "done"}

\* The operations of run(), in their order, and what each may lead to.
Places(c) == UNION {{p} \X (1..Len(c.parts[p].ops)) : p \in 1..Len(c.parts)}
At(c, a) == c.parts[a[1]].ops[a[2]]
Leads(c, a) == {At(c, a).on[f] : f \in DOMAIN At(c, a).on}
Before(a, b) == a[1] < b[1] \/ (a[1] = b[1] /\ a[2] < b[2])

ASSUME ChecksAssumption ==
  \A c \in Checks :
    /\ Len(c.parts) \in Nat \ {0} /\ Len(c.finally) \in Nat
    /\ c.rule \in {"passed", "noted", "subtests"}
    /\ \A p \in 1..Len(c.parts) : Len(c.parts[p].ops) \in Nat \ {0}
    /\ \A a \in Places(c) : Leads(c, a) \subseteq Reactions /\ DOMAIN At(c, a).on \subseteq Findings

\* A check none of whose ways out passes with a failed sub-test: its rule
\* counts them, and no set_passed inside run() comes after one.
NoPassAfter(c, a) == \A b \in Places(c) : Before(a, b) => Leads(c, b) \cap Passing = {}
CountsSubtests(c) ==
  \A a \in Places(c) :
    Leads(c, a) \cap SubFails # {} =>
      /\ NoPassAfter(c, a)
      /\ c.rule = "subtests" \/ (c.rule = "noted" /\ "sub" \notin Leads(c, a))
ASSUME LenientAssumption == \A c \in Checks : c.name \in Lenient \/ CountsSubtests(c)

ASSUME OverridingAssumption ==
  \A c \in Checks : c.name \in Overriding \/ \A a \in Places(c) : "mark" \notin Leads(c, a)

\* What is done about something bad decides: it ends run() without a pass, or
\* is remembered by what the rule reads, with no set_passed before the end.
Decides(c, a, r) ==
  \/ r \in Failing \cup {"skip"}
  \/ /\ (r \in Notes /\ c.rule = "noted") \/ (r \in SubFails /\ c.rule = "subtests")
     /\ NoPassAfter(c, a)
ASSUME ToleratedAssumption ==
  \A c \in Checks : \A a \in Places(c) :
    "bad" \in DOMAIN At(c, a).on =>
      <<c.name, At(c, a).of>> \in Tolerated \/ Decides(c, a, At(c, a).on["bad"])

\* Nothing found at x takes run() past the place b that lies ahead.
LeadsUpTo(c, x, b) ==
  /\ "done" \notin Leads(c, x)
  /\ Leads(c, x) \cap CutsShort # {} => x[1] < b[1]

\* A look that shows something good or decides; a gate is one that every way to
\* a pass goes through, unless such a look lies behind it in its own part.
Tells(c, a) ==
  /\ At(c, a).do \notin {"close", "delete"}
  /\ \A f \in DOMAIN At(c, a).on \ {"good"} : Decides(c, a, At(c, a).on[f])
Told(c, a) == \E k \in 1..(a[2] - 1) : Tells(c, <<a[1], k>>)
Gate(c, g) ==
  /\ Tells(c, g) /\ c.parts[g[1]].needs = {}
  /\ \A x \in Places(c) :
       Before(x, g) /\ ~Told(c, x) => Leads(c, x) \cap Passing = {} /\ LeadsUpTo(c, x, g)
ASSUME VacuousAssumption == \A c \in Checks : c.name \in Vacuous \/ \E g \in Places(c) : Gate(c, g)

\* What the finally of a check closes.  What is opened at a is closed at b in
\* run() itself: every way on leads there, short of an exception or the quit or
\* leave that hangs up.
ClosedIn(c) ==
  {c.finally[i].of : i \in {j \in 1..Len(c.finally) : c.finally[j].do \in {"close", "delete"}}}
HangsUp(c, x, object) == object = "connection" /\ At(c, x).do \in {"look", "switch"}
ClosedAt(c, a, b) ==
  /\ At(c, b).do \in {"close", "delete"} /\ At(c, b).of = At(c, a).of
  /\ Before(a, b) /\ (a[1] # b[1] => c.parts[b[1]].needs = {})
  /\ \A x \in Places(c) : Before(a, x) /\ Before(x, b) =>
       /\ LeadsUpTo(c, x, b)
       /\ \A r \in Leads(c, x) \cap Ending : r = "raise" \/ (r \in {"quit", "leave"} /\ HangsUp(c, x, At(c, a).of))
ASSUME ClosingAssumption ==
  \A c \in Checks : \A a \in Places(c) :
    At(c, a).do \in {"open", "claim"} =>
      \/ At(c, a).of \in c.keeps \cup ClosedIn(c)
      \/ /\ At(c, a).do = "open" /\ At(c, a).on["good"] \in {"go", "ok"}
         /\ \E b \in Places(c) : ClosedAt(c, a, b)

Init ==
  /\ check \in Checks
  /\ watched \in Places(check)
  /\ part = 1 /\ op = 1 /\ through = {}
  /\ mode = "run" /\ ended = "none"
  /\ passed = FALSE /\ noted = FALSE /\ subfailed = FALSE /\ skipped = FALSE
  /\ made = {} /\ known = {} /\ excused = {}
  /\ marked = FALSE /\ blamed = FALSE /\ found = "unseen" /\ seen = FALSE

------------------------------------------------------------------------------
(* run().                                                                  *)

NextPart_PastEnd(gone) ==  \* mutant: one too far
  \E p \in (part + 1)..(Len(Parts) + 2) :
    /\ p <= Len(Parts) => Parts[p].needs \subseteq gone
    /\ \A q \in (part + 1)..(p - 1) : q <= Len(Parts) => ~(Parts[q].needs \subseteq gone)
    /\ part' = p /\ op' = 1 /\ through' = gone
\* The next part whose needs are met, or the end of the parts.
NextPart(gone) ==
  \E p \in (part + 1)..(Len(Parts) + 1) :
    /\ p <= Len(Parts) => Parts[p].needs \subseteq gone
    /\ \A q \in (part + 1)..(p - 1) : ~(Parts[q].needs \subseteq gone)
    /\ part' = p /\ op' = 1 /\ through' = gone

Advance(r) ==
  \/ r = "done" /\ part' = Len(Parts) + 1 /\ op' = 1 /\ UNCHANGED through
  \/ r \in CutsShort /\ NextPart(through)
  \/ r \notin CutsShort \cup {"done"} /\ op < Len(Ops) /\ op' = op + 1 /\ UNCHANGED <<part, through>>
  \/ r \notin CutsShort \cup {"done"} /\ op >= Len(Ops) /\ NextPart(through \cup {part})

Leave_NoFinally(how) ==  \* mutant: the cleaning is the end of run(), not a finally
  /\ ended' = how /\ op' = 1 /\ UNCHANGED <<part, through>>
  /\ mode' = IF check.finally = <<>> \/ how # "returned" THEN "over" ELSE "finally"
\* Leaving run(): a finally, if there is one, comes first, then execute()
\* turns an exception into set_failed and lets pytest.skip and Ctrl-C through.
Leave(how) ==
  /\ ended' = how /\ op' = 1 /\ UNCHANGED <<part, through>>
  /\ mode' = IF check.finally = <<>> THEN "over" ELSE "finally"

\* set_passed and set_failed only assign self._passed: the last call counts.
Verdict(r) ==
  /\ passed' = IF r \in Passing THEN TRUE ELSE IF r \in Failing \cup {"mark"} THEN FALSE ELSE passed
  /\ marked' = (marked \/ r \in Failing \cup {"mark"})
  /\ blamed' = (blamed \/ r \notin Neutral)

Outcome == [skip |-> "skipped", raise |-> "raised"]
React_Last(r) ==  \* mutant: only the last failure is remembered
  /\ Verdict(r)
  /\ noted' = (r \in Notes)
  /\ subfailed' = (r \in SubFails)
  /\ skipped' = (skipped \/ r = "skip_sub")
  /\ IF r \in Ending
     THEN Leave(IF r \in {"skip", "raise"} THEN Outcome[r] ELSE "returned")
     ELSE Advance(r) /\ UNCHANGED <<mode, ended>>
React_NoReturn(r) ==  \* mutant: no return after set_failed
  /\ Verdict(r)
  /\ noted' = (noted \/ r \in Notes)
  /\ subfailed' = (subfailed \/ r \in SubFails)
  /\ skipped' = (skipped \/ r = "skip_sub")
  /\ IF r \in Ending \ {"fail"}
     THEN Leave(IF r \in {"skip", "raise"} THEN Outcome[r] ELSE "returned")
     ELSE Advance(r) /\ UNCHANGED <<mode, ended>>
\* report_subtest only adds to the results.
React(r) ==
  /\ Verdict(r)
  /\ noted' = (noted \/ r \in Notes)
  /\ subfailed' = (subfailed \/ r \in SubFails)
  /\ skipped' = (skipped \/ r = "skip_sub")
  /\ IF r \in Ending
     THEN Leave(IF r \in {"skip", "raise"} THEN Outcome[r] ELSE "returned")
     ELSE Advance(r) /\ UNCHANGED <<mode, ended>>

Find(f) ==
  /\ found' = IF <<part, op>> = watched THEN f ELSE found
  /\ seen' = (seen \/ f = "good")

\* Before a quit or a leave the connection is closed.
HangUpIf(r) ==
  /\ made' = IF r \in {"quit", "leave"} THEN made \ {"connection"} ELSE made
  /\ known' = IF r \in {"quit", "leave"} THEN known \ {"connection"} ELSE known
  /\ UNCHANGED excused

LookAt ==
  /\ Running /\ Now.do \in {"look", "switch"}
  /\ \E f \in DOMAIN Now.on : React(Now.on[f]) /\ Find(f) /\ HangUpIf(Now.on[f])
  /\ UNCHANGED <<check, watched>>

Make ==
  /\ Running /\ Now.do \in {"open", "claim"}
  /\ \E f \in DOMAIN Now.on, effect \in BOOLEAN :
       /\ f = "good" => effect
       /\ React(Now.on[f]) /\ Find(f)
       /\ made' = IF effect THEN made \cup {Now.of} ELSE made
       /\ known' = IF f = "good" \/ Now.do = "claim" THEN known \cup {Now.of} ELSE known
       /\ excused' = IF effect /\ Now.of \notin known' THEN excused \cup {Now.of} ELSE excused
  /\ UNCHANGED <<check, watched>>

\* A deletion that fails is logged.
Remove(f) ==
  /\ made' = IF f = "good" THEN made \ {Now.of} ELSE made
  /\ known' = known \ {Now.of}
  /\ excused' = IF f = "good" THEN excused \ {Now.of} ELSE excused \cup {Now.of}

CloseIt ==
  /\ Running /\ Now.do \in {"close", "delete"}
  /\ IF Now.do = "close" /\ Now.of \notin known
     THEN React("go") /\ UNCHANGED objects
     ELSE \E f \in DOMAIN Now.on : React(Now.on[f]) /\ Remove(f)
  /\ UNCHANGED <<check, watched, sight>>

Sums_Skipped(c) ==  \* mutant: get_failed_subtests forgets the skipped
  /\ c.rule = "noted" => ~noted
  /\ c.rule = "subtests" => ~subfailed /\ ~skipped
Sums_Unread(c) == c.rule = "noted" => ~noted  \* mutant: no look at get_failed_subtests
\* The end of run(): set_passed, unless failures were remembered, or
\* get_failed_subtests returns any; a skipped sub-test is not a failed one.
Sums(c) ==
  /\ c.rule = "noted" => ~noted
  /\ c.rule = "subtests" => ~subfailed

Conclude ==
  /\ mode = "run" /\ part > Len(Parts)
  /\ passed' = Sums(check)
  /\ marked' = (marked \/ ~Sums(check))
  /\ Leave("returned")
  /\ UNCHANGED <<check, watched, noted, subfailed, skipped, blamed, sight, objects>>

------------------------------------------------------------------------------
(* The finally of a check, and Ctrl-C.                                     *)

Cleaned ==
  IF op < Len(check.finally) THEN op' = op + 1 /\ UNCHANGED mode ELSE mode' = "over" /\ UNCHANGED op

CleanUp ==
  /\ Cleaning /\ Now.do \in {"close", "delete"}
  /\ IF Now.do = "close" /\ Now.of \notin known
     THEN UNCHANGED objects
     ELSE \E f \in DOMAIN Now.on : Remove(f)
  /\ Cleaned
  /\ UNCHANGED <<check, watched, part, through, ended, verdict, sight>>

\* Asked to leave everything in place, the rest of the finally is passed over.
KeepOrNot ==
  /\ Cleaning /\ Now.do = "switch"
  /\ \E f \in DOMAIN Now.on :
       IF Now.on[f] = "keep"
       THEN mode' = "over" /\ excused' = excused \cup made /\ UNCHANGED op
       ELSE Cleaned /\ UNCHANGED excused
  /\ UNCHANGED <<check, watched, part, through, ended, verdict, sight, made, known>>

\* KeyboardInterrupt is no Exception: execute() does not catch it.  In a
\* finally it ends the cleaning.
Interrupt ==
  /\ \/ /\ Running
        /\ Leave("interrupted")
        /\ \E effect \in BOOLEAN :
             LET hit == IF Now.do \in {"open", "claim"} /\ effect THEN {Now.of} ELSE {}
             IN /\ made' = made \cup hit /\ excused' = excused \cup (hit \ known)
                /\ known' = IF Now.do = "claim" THEN known \cup {Now.of} ELSE known
     \/ /\ Cleaning
        /\ mode' = "over" /\ ended' = "interrupted" /\ excused' = excused \cup made
        /\ UNCHANGED <<place, made, known>>
  /\ UNCHANGED <<check, watched, verdict, sight>>

Over == mode = "over" /\ UNCHANGED vars

Next == LookAt \/ Make \/ CloseIt \/ Conclude \/ CleanUp \/ KeepOrNot \/ Interrupt \/ Over

Spec == Init /\ [][Next]_vars

------------------------------------------------------------------------------
(* Properties.                                                             *)

TypeOK ==
  /\ check \in Checks /\ watched \in Places(check)
  /\ part \in 1..(Len(Parts) + 1) /\ op \in Nat \ {0} /\ (Running => op <= Len(Ops)) /\ through \subseteq 1..Len(Parts)
  /\ mode \in {"run", "finally", "over"}
  /\ ended \in {"none", "returned", "raised", "skipped", "interrupted"}
  /\ mode = "run" <=> ended = "none"
  /\ {passed, noted, subfailed, skipped, marked, blamed, seen} \subseteq BOOLEAN
  /\ found \in Findings \cup {"unseen"}

\* What execute() returns, when it does.
HasReturned == mode = "over" /\ ended \in {"returned", "raised"}
HasPassed == HasReturned /\ passed
HasFailed == HasReturned /\ ~passed

WatchedOf == <<check.name, At(check, watched).of>>

\* A check never passes over something that contradicts what it is there to
\* confirm, wherever in run() it was found and whatever was found before and
\* after it; the places where it does are listed, each with its reason.
PassIsEarned == HasPassed /\ found = "bad" => WatchedOf \in Tolerated

\* A check whose sub-tests are reported as failed is not reported as passed.
SubtestsDecide == HasPassed /\ subfailed => check.name \in Lenient

\* set_failed ends run(), or the failure is remembered until its end: no later
\* set_passed takes it back.
FailureStands == HasPassed /\ marked => check.name \in Overriding

\* A check passes only if it has seen something it was there to see: not
\* because every command failed, every list was empty or nothing was asked of it.
NoVacuousPass == HasPassed /\ ~seen => check.name \in Vacuous

\* A check fails only if some reaction found fault: a skipped sub-test, a part
\* that was not asked for or a clean-up that failed do not make it fail.
FailureHasCause == HasFailed => blamed

\* What a check has made or opened is gone when it is over, but for what it
\* keeps, what it could not know of and what refused to go; only an exception
\* or Ctrl-C leaves more, and then only what no finally closes.
LeftoversHaveCause ==
  mode = "over" =>
    \A object \in made \ (check.keeps \cup excused) :
      ended \in {"raised", "interrupted"} /\ object \notin ClosedIn(check)

\* The failure set_failed records is the check's result.
FailureIsFinal == HasPassed => ~marked
==============================================================================
