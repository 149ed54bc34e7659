----------------------------- MODULE KernelVerify -----------------------------
(***************************************************************************)
(* scripts/kernel-verify.sh: the gates run one after the other, whatever   *)
(* the ones before them found, and at the end one report says what ran and *)
(* what it found.  The script looks at no result of the redirection into   *)
(* its report: the file may not open, or take a part of the report only,   *)
(* and the script goes on to its exit status.  It may be killed between    *)
(* any two of its steps, and an older report may be lying at the same      *)
(* path.  One verification runs at a time.                                 *)
(***************************************************************************)
EXTENDS Naturals, Sequences

CONSTANTS NumGates,       \* how many gates there are, in their order
          PostgresGates,  \* the gates that need the disposable database
          Paths,          \* where reports are written
          MaxRuns,        \* bound: how often the script is started
          Truncated,      \* a report file that is still empty
          None            \* no run, or no file at a path

Gates    == 1 .. NumGates
Statuses == {"passed", "failed", "blocked"}

\* startedAt is the time in the report, here the number of the run.  What stands
\* before the gates comes first in the file, so a report that is not whole lacks
\* some of its gates.
Report == [status: {"passed", "failed"}, startedAt: 1 .. MaxRuns,
           gates: Seq(Statuses), whole: BOOLEAN]

ASSUME GatesAssumption == /\ NumGates \in Nat \ {0}
                          /\ PostgresGates \subseteq Gates
                          /\ MaxRuns \in Nat
                          /\ None \notin Report \cup {Truncated}
                          /\ None \notin 1 .. MaxRuns
                          /\ None \notin {"ok", "failed", "killed"}
                          /\ Truncated \notin Report

VARIABLES
    run,      \* the run in progress, or None
    reports,  \* reports[p]: the report file at p
    starts,   \* how often the script was started
    exits,    \* exits[n]: "ok", "failed" or "killed", once run n has ended
    \* History, read by no step of the code:
    found     \* found[n]: what became of the gates of run n, in their order

verifyVars == <<run, reports, starts, exits, found>>

VerifyInit == /\ run = None
              /\ reports = [p \in Paths |-> None]
              /\ starts = 0
              /\ exits = [n \in 1 .. MaxRuns |-> None]
              /\ found = [n \in 1 .. MaxRuns |-> <<>>]

------------------------------------------------------------------------------
\* The toolchain is compared and the database looked for once, before the gates.
\* With a toolchain that does not match, only the report and the exit follow.
StartVerify(p, postgres, mismatch) ==
    /\ run = None
    /\ starts < MaxRuns
    /\ starts' = starts + 1
    /\ run' = [number |-> starts + 1, path |-> p, postgres |-> postgres,
               mismatch |-> mismatch, gates |-> <<>>, anyFailed |-> mismatch,
               stage |-> "gates"]
    /\ UNCHANGED <<reports, exits, found>>

NextGate == Len(run.gates) + 1

BugFailedOnly(status) == status = "failed"

\* A gate that could not run fails the verification like one that failed.
CountsAsFailure(status) == status \in {"failed", "blocked"}

\* One failure is enough, whatever the gates after it find.
AnyFailed(status) == run.anyFailed \/ CountsAsFailure(status)

RecordGate(status) ==
    /\ run' = [run EXCEPT !.gates = Append(@, status),
                          !.anyFailed = AnyFailed(status)]
    /\ found' = [found EXCEPT ![run.number] = Append(@, status)]
    /\ UNCHANGED <<reports, starts, exits>>

\* A gate is next.
GateIsNext == run # None /\ ~run.mismatch /\ NextGate \in Gates

RunSuite(status) ==
    /\ GateIsNext
    /\ NextGate \in PostgresGates => run.postgres
    /\ status \in {"passed", "failed"}
    /\ RecordGate(status)

Blocked ==
    /\ GateIsNext
    /\ NextGate \in PostgresGates
    /\ ~run.postgres
    /\ RecordGate("blocked")

\* The redirection empties the file before anything is written to it, or it
\* fails and leaves whatever was there.
OpenReport ==
    /\ run # None
    /\ run.stage = "gates"
    /\ run.mismatch \/ NextGate \notin Gates
    /\ \/ /\ reports' = [reports EXCEPT ![run.path] = Truncated]
          /\ run' = [run EXCEPT !.stage = "opened"]
       \/ /\ run' = [run EXCEPT !.stage = "done"]
          /\ UNCHANGED reports
    /\ UNCHANGED <<starts, exits, found>>

Verdict == IF run.anyFailed THEN "failed" ELSE "passed"

\* What a write of report can leave in an empty file: the report, a part of it
\* without some of the gates, or nothing.
PartsOf(report) ==
    {report, Truncated}
        \cup {[report EXCEPT !.gates = SubSeq(@, 1, n), !.whole = FALSE] :
                 n \in 0 .. Len(report.gates)}

WriteReport ==
    /\ run # None
    /\ run.stage = "opened"
    /\ \E file \in PartsOf([status |-> Verdict, startedAt |-> run.number,
                            gates |-> run.gates, whole |-> TRUE]) :
          reports' = [reports EXCEPT ![run.path] = file]
    /\ run' = [run EXCEPT !.stage = "done"]
    /\ UNCHANGED <<starts, exits, found>>

BugAlwaysOk == "ok"

ExitStatus == IF Verdict = "passed" THEN "ok" ELSE "failed"

\* The exit status is the verdict's, whether the report could be written or not.
Exit ==
    /\ run # None
    /\ run.stage = "done"
    /\ exits' = [exits EXCEPT ![run.number] = ExitStatus]
    /\ run' = None
    /\ UNCHANGED <<reports, starts, found>>

\* The script is killed: there is no trap, so the report stays as it is.
Kill ==
    /\ run # None
    /\ exits' = [exits EXCEPT ![run.number] = "killed"]
    /\ run' = None
    /\ UNCHANGED <<reports, starts, found>>

VerifyStep == \/ \E status \in Statuses : RunSuite(status)
              \/ Blocked
              \/ OpenReport
              \/ WriteReport
              \/ Exit
              \/ Kill
------------------------------------------------------------------------------
Written(p) == reports[p] \notin {None, Truncated}

AllPassed == [g \in Gates |-> "passed"]

\* A report that says "passed" was written by a run that ran every gate of the
\* script and found every one of them passed: none failed, none was blocked and
\* none was skipped, whatever was killed or failed to be written in between
\* ("nothing is skipped silently", kernel-verify.sh:15).  A whole one says so of
\* every gate.
NothingSkipped ==
    \A p \in Paths :
        Written(p) /\ reports[p].status = "passed" =>
            /\ found[reports[p].startedAt] = AllPassed
            /\ reports[p].whole => reports[p].gates = AllPassed

\* A run that exits with success found every gate passed, whether or not it
\* could write that down, and one that exits with failure did not.  So the report
\* of a run never denies its exit status: only a run that was killed, after its
\* report and before its exit, leaves a passed report without a success
\* (kernel-verify.sh:222-260).
ExitMatchesReport ==
    /\ \A n \in 1 .. MaxRuns :
          /\ exits[n] = "ok" => found[n] = AllPassed
          /\ exits[n] = "failed" => found[n] # AllPassed
    /\ \A p \in Paths : Written(p) =>
          LET exit == exits[reports[p].startedAt] IN
          /\ exit = "ok" => reports[p].status = "passed"
          /\ exit = "failed" => reports[p].status = "failed"
=============================================================================
