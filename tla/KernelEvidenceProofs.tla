------------------------ MODULE KernelEvidenceProofs ------------------------
(***************************************************************************)
(* Proofs about KernelVerify and KernelEvidence, for any number of gates,  *)
(* runs, bundles and checks, whatever is killed and whatever cannot be     *)
(* written or copied: a passed report means that every gate ran and        *)
(* passed, the exit status says so too and never denies the report, and a  *)
(* passed bundle stands on what it claims.                                 *)
(***************************************************************************)
EXTENDS KernelEvidence, TLAPS

Run == [number: 1 .. MaxRuns, path: Paths, postgres: BOOLEAN,
        mismatch: BOOLEAN, gates: Seq(Statuses), anyFailed: BOOLEAN,
        stage: {"gates", "opened", "done"}]

\* The part of the type invariant that is about the verifications.
VerifyTypeOK ==
    /\ run = None \/ run \in Run
    /\ reports \in [Paths -> Report \cup {None, Truncated}]
    /\ starts \in 0 .. MaxRuns
    /\ exits \in [1 .. MaxRuns -> {None, "ok", "failed", "killed"}]
    /\ found \in [1 .. MaxRuns -> Seq(Statuses)]

\* The run in progress is the latest one, has not ended, remembers what became of
\* its gates, and is past them only when none is left to run.
RunInProgress ==
    /\ \A n \in 1 .. MaxRuns : n > starts => exits[n] = None /\ found[n] = <<>>
    /\ run # None =>
          /\ run.number = starts
          /\ exits[run.number] = None
          /\ found[run.number] = run.gates
          /\ Len(run.gates) <= NumGates
          /\ run.mismatch => run.gates = <<>>
          /\ run.anyFailed <=> \/ run.mismatch
                               \/ \E g \in DOMAIN run.gates : run.gates[g] # "passed"
          /\ run.stage # "gates" => run.mismatch \/ Len(run.gates) = NumGates

\* What a report says is what its run found, and a run that still has gates to run
\* or its report to write has no report.
ReportTrue(p) ==
    Written(p) =>
        /\ reports[p].startedAt <= starts
        /\ reports[p].status = "passed" <=> found[reports[p].startedAt] = AllPassed
        /\ reports[p].whole => reports[p].gates = found[reports[p].startedAt]
        /\ run # None /\ run.number = reports[p].startedAt => run.stage = "done"

ReportsTrue == \A p \in Paths : ReportTrue(p)

\* An exit status is what the run found.
ExitsTrue ==
    \A n \in 1 .. MaxRuns : /\ exits[n] = "ok" => found[n] = AllPassed
                            /\ exits[n] = "failed" => found[n] # AllPassed

\* The verifications alone.
Verification == VerifyTypeOK /\ RunInProgress /\ ReportsTrue /\ ExitsTrue

BundleTypeOK == /\ bundle \in Bundle \cup {None}
                /\ manifest = None \/ manifest.status \in {"passed", "failed"}

\* While a bundle is cut only its own verification writes to its directory, so
\* what it has found in the report stays true.
BundleInProgress ==
    bundle # None =>
        /\ run # None /\ run.path = BundleReport =>
              bundle.verification = run.number
        /\ bundle.reused => bundle.verification = None
        /\ bundle.taken /\ ~bundle.reused => bundle.verification # None
        /\ bundle.checked => bundle.taken /\ Verified(bundle)
        /\ bundle.results # <<>> => bundle.checked
        /\ ~bundle.failed =>
              \A i \in DOMAIN bundle.results :
                  bundle.results[i] \notin {"failed", "linked"}
        /\ bundle.checked /\ ~bundle.failed =>
              /\ bundle.reused \/ exits[bundle.verification] = "ok"
              /\ \/ reports[BundleReport] = None
                 \/ RecordsAPass(reports[BundleReport])

\* What a passed manifest stands on: for the bundle's own verification, its exit
\* status.
ManifestVouched ==
    manifest # None /\ manifest.status = "passed" =>
        LET b == manifest.bundle IN
        /\ \A i \in DOMAIN b.results : b.results[i] \notin {"failed", "linked"}
        /\ ~b.reused => /\ b.verification \in 1 .. MaxRuns
                        /\ exits[b.verification] = "ok"
        /\ manifest.report # None => RecordsAPass(manifest.report)

\* The inductive invariant.
Evidence == /\ Verification
            /\ BundleTypeOK
            /\ BundleInProgress
            /\ ManifestVouched

------------------------------------------------------------------------------
\* The two paths are different.
LEMMA TwoPaths == /\ DefaultReport \in Paths /\ BundleReport \in Paths
                  /\ DefaultReport # BundleReport
BY PathsAssumption DEF DefaultReport, BundleReport

\* The type invariant is that of the verifications and that of the bundles.
LEMMA TypesSplit == TypeOK <=> VerifyTypeOK /\ BundleTypeOK
BY DEF TypeOK, VerifyTypeOK, BundleTypeOK, Run

\* A report file that is written is a report of some run.
LEMMA WrittenIsReport ==
    ASSUME VerifyTypeOK, NEW p \in Paths, Written(p)
    PROVE  /\ reports[p] \in Report
           /\ reports[p].startedAt \in 1 .. MaxRuns
<1>1. reports[p] \in Report
    BY DEF VerifyTypeOK, Written
<1> QED BY <1>1 DEF Report

\* The run in progress is well formed and numbered like the latest one.
LEMMA RunIsLatest ==
    ASSUME Verification, run # None
    PROVE  /\ run \in Run
           /\ run.number \in 1 .. MaxRuns /\ run.number = starts
           /\ run.path \in Paths /\ run.gates \in Seq(Statuses)
           /\ exits[run.number] = None
           /\ found[run.number] = run.gates
<1>1. run \in Run
    BY DEF Verification, VerifyTypeOK
<1> QED BY <1>1 DEF Verification, RunInProgress, Run

\* Before anything was run there is nothing to be wrong about.
LEMMA InitEvidence == Init => Evidence
<1> SUFFICES ASSUME Init PROVE Evidence
    OBVIOUS
<1> USE GatesAssumption, PathsAssumption DEF Init, VerifyInit
<1>1. VerifyTypeOK
    <2>1. <<>> \in Seq(Statuses)
        OBVIOUS
    <2> QED BY <2>1 DEF VerifyTypeOK
<1>2. RunInProgress
    BY DEF RunInProgress
<1>3. ReportsTrue
    BY DEF ReportsTrue, ReportTrue, Written
<1>4. ExitsTrue
    BY DEF ExitsTrue
<1>5. BundleTypeOK /\ BundleInProgress /\ ManifestVouched
    BY DEF BundleTypeOK, BundleInProgress, ManifestVouched
<1> QED BY <1>1, <1>2, <1>3, <1>4, <1>5 DEF Evidence, Verification

------------------------------------------------------------------------------
\* A run that has no gate left says "passed" exactly when all of them passed.
LEMMA VerdictIsTrue ==
    ASSUME Verification, run # None,
           run.mismatch \/ Len(run.gates) = NumGates
    PROVE  /\ Verdict \in {"passed", "failed"}
           /\ Verdict = "passed" <=> run.gates = AllPassed
<1> USE GatesAssumption
<1>1. /\ run.gates \in Seq(Statuses) /\ run.mismatch \in BOOLEAN
      /\ run.anyFailed \in BOOLEAN
    BY RunIsLatest DEF Run
<1>2. /\ run.mismatch => run.gates = <<>>
      /\ run.anyFailed <=> \/ run.mismatch
                           \/ \E g \in DOMAIN run.gates : run.gates[g] # "passed"
    BY DEF Verification, RunInProgress
<1>3. Verdict \in {"passed", "failed"} /\ (Verdict = "passed" <=> ~run.anyFailed)
    BY <1>1 DEF Verdict
<1>4. ASSUME ~run.anyFailed
      PROVE  run.gates = AllPassed
    <2>1. Len(run.gates) = NumGates /\ DOMAIN run.gates = 1 .. Len(run.gates)
        BY <1>1, <1>2, <1>4
    <2>2. DOMAIN run.gates = Gates
        BY <2>1 DEF Gates
    <2>3. \A g \in DOMAIN run.gates : run.gates[g] = "passed"
        BY <1>2, <1>4
    <2>4. run.gates = [g \in DOMAIN run.gates |-> run.gates[g]]
        BY <1>1
    <2> QED BY <2>2, <2>3, <2>4 DEF AllPassed
<1>5. ASSUME run.gates = AllPassed
      PROVE  ~run.anyFailed
    <2>1. DOMAIN run.gates = Gates /\ 1 \in Gates
        BY <1>5 DEF AllPassed, Gates
    <2>2. run.gates # <<>>
        BY <2>1
    <2>3. \A g \in DOMAIN run.gates : run.gates[g] = "passed"
        BY <1>5, <2>1 DEF AllPassed
    <2> QED BY <1>2, <2>2, <2>3
<1> QED BY <1>3, <1>4, <1>5

\* A started run has run no gate and written nothing.
LEMMA StartKeepsVerification ==
    ASSUME Verification, NEW p \in Paths, NEW postgres \in BOOLEAN,
           NEW mismatch \in BOOLEAN, StartVerify(p, postgres, mismatch)
    PROVE  /\ Verification'
           /\ run = None
           /\ run'.path = p /\ run'.number = starts + 1
           /\ starts + 1 \in 1 .. MaxRuns
           /\ reports' = reports /\ exits' = exits
<1> USE GatesAssumption DEF Verification
<1>1. /\ run = None /\ starts < MaxRuns /\ starts' = starts + 1
      /\ run' = [number |-> starts + 1, path |-> p, postgres |-> postgres,
                 mismatch |-> mismatch, gates |-> <<>>, anyFailed |-> mismatch,
                 stage |-> "gates"]
      /\ reports' = reports /\ exits' = exits /\ found' = found
    BY DEF StartVerify
<1>2. starts \in 0 .. MaxRuns /\ starts + 1 \in 1 .. MaxRuns
    BY <1>1 DEF VerifyTypeOK
<1>3. exits[starts + 1] = None /\ found[starts + 1] = <<>>
    BY <1>2 DEF RunInProgress
<1>4. run' \in Run
    <2>1. <<>> \in Seq(Statuses)
        OBVIOUS
    <2> QED BY <1>1, <1>2, <2>1 DEF Run
<1>5. VerifyTypeOK'
    BY <1>1, <1>2, <1>4 DEF VerifyTypeOK
<1>6. RunInProgress'
    <2>1. /\ run'.number = starts + 1 /\ run'.gates = <<>>
          /\ run'.mismatch = mismatch /\ run'.anyFailed = mismatch
          /\ run'.stage = "gates"
        BY <1>1
    <2>2. Len(<<>>) = 0 /\ DOMAIN <<>> = {}
        OBVIOUS
    <2>3. \A n \in 1 .. MaxRuns : n > starts' => exits'[n] = None /\ found'[n] = <<>>
        BY <1>1, <1>2 DEF RunInProgress
    <2> QED BY <1>1, <1>3, <2>1, <2>2, <2>3 DEF RunInProgress
<1>7. ASSUME NEW q \in Paths
      PROVE  ReportTrue(q)'
    <2> SUFFICES ASSUME Written(q)
                 PROVE  ReportTrue(q)'
        BY <1>1 DEF ReportTrue, Written
    <2>1. reports[q].startedAt <= starts /\ reports[q].startedAt \in 1 .. MaxRuns
        BY WrittenIsReport DEF ReportsTrue, ReportTrue
    <2>2. run'.number = starts + 1
        BY <1>1
    <2> QED BY <1>1, <1>2, <2>1, <2>2 DEF ReportsTrue, ReportTrue, Written
<1>8. ExitsTrue'
    BY <1>1 DEF ExitsTrue
<1>9. run'.path = p /\ run'.number = starts + 1
    BY <1>1
<1> QED BY <1>1, <1>2, <1>5, <1>6, <1>7, <1>8, <1>9 DEF ReportsTrue

------------------------------------------------------------------------------
\* A gate is added to the run and to what is known of it; no file is touched.
LEMMA GateKeepsVerification ==
    ASSUME Verification, NEW status \in Statuses, GateIsNext, RecordGate(status)
    PROVE  Verification'
<1> USE GatesAssumption DEF Verification
<1>1. /\ run # None /\ ~run.mismatch
      /\ run' = [run EXCEPT !.gates = Append(run.gates, status),
                            !.anyFailed = AnyFailed(status)]
      /\ found' = [found EXCEPT ![run.number] = Append(found[run.number], status)]
      /\ reports' = reports /\ starts' = starts /\ exits' = exits
    BY DEF RecordGate, GateIsNext
<1>2. /\ run \in Run /\ run.number \in 1 .. MaxRuns /\ run.number = starts
      /\ exits[run.number] = None /\ found[run.number] = run.gates
      /\ run.gates \in Seq(Statuses) /\ run.anyFailed \in BOOLEAN
    BY <1>1, RunIsLatest DEF Run
<1>3. Len(run.gates) + 1 <= NumGates /\ Len(run.gates) \in Nat
    BY <1>2 DEF GateIsNext, NextGate, Gates
<1>4. run.stage = "gates"
    BY <1>1, <1>3 DEF RunInProgress
<1> DEFINE gates == Append(run.gates, status)
<1>5. gates \in Seq(Statuses) /\ AnyFailed(status) \in BOOLEAN
    BY <1>2 DEF AnyFailed, CountsAsFailure
<1>6. /\ run'.number = run.number /\ run'.path = run.path
      /\ run'.gates = gates /\ run'.stage = "gates" /\ run'.mismatch = run.mismatch
      /\ run'.anyFailed = AnyFailed(status) /\ run' \in Run
    BY <1>1, <1>2, <1>4, <1>5 DEF Run
<1>7. found' \in [1 .. MaxRuns -> Seq(Statuses)]
      /\ found'[run.number] = gates
      /\ \A n \in 1 .. MaxRuns : n # run.number => found'[n] = found[n]
    BY <1>1, <1>2, <1>5 DEF VerifyTypeOK
<1>8. VerifyTypeOK'
    BY <1>1, <1>6, <1>7 DEF VerifyTypeOK
<1>9. AnyFailed(status) <=> \E g \in DOMAIN gates : gates[g] # "passed"
    <2>1. run.anyFailed <=> \E g \in DOMAIN run.gates : run.gates[g] # "passed"
        BY <1>1 DEF RunInProgress
    <2> DEFINE m == Len(run.gates)
    <2>2. /\ m \in Nat /\ DOMAIN run.gates = 1 .. m
          /\ DOMAIN gates = 1 .. m + 1 /\ gates[m + 1] = status
          /\ \A g \in 1 .. m : gates[g] = run.gates[g]
        BY <1>2
    <2>3. CountsAsFailure(status) <=> status # "passed"
        BY DEF CountsAsFailure, Statuses
    <2> HIDE DEF gates, m
    <2> QED BY <2>1, <2>2, <2>3 DEF AnyFailed
<1>10. RunInProgress'
    <2>1. Len(gates) = Len(run.gates) + 1
        BY <1>2
    <2>2. \A n \in 1 .. MaxRuns : n > starts' => exits'[n] = None /\ found'[n] = <<>>
        BY <1>1, <1>2, <1>7 DEF RunInProgress
    <2>3. run'.anyFailed <=> \/ run'.mismatch
                             \/ \E g \in DOMAIN run'.gates : run'.gates[g] # "passed"
        BY <1>1, <1>6, <1>9
    <2>4. /\ run'.number = starts' /\ exits'[run'.number] = None
          /\ found'[run'.number] = run'.gates /\ ~run'.mismatch
          /\ run'.stage = "gates"
        BY <1>1, <1>2, <1>6, <1>7
    <2>5. Len(run'.gates) <= NumGates
        BY <1>3, <1>6, <2>1
    <2> QED BY <2>2, <2>3, <2>4, <2>5 DEF RunInProgress
<1>11. ASSUME NEW p \in Paths
       PROVE  ReportTrue(p)'
    <2> SUFFICES ASSUME Written(p)
                 PROVE  ReportTrue(p)'
        BY <1>1 DEF ReportTrue, Written
    <2>1. ReportTrue(p) /\ reports[p].startedAt \in 1 .. MaxRuns
        BY WrittenIsReport DEF ReportsTrue
    <2>2. reports[p].startedAt # run.number
        BY <1>1, <1>4, <2>1 DEF ReportTrue
    <2>3. found'[reports[p].startedAt] = found[reports[p].startedAt]
        BY <1>7, <2>1, <2>2
    <2> QED BY <1>1, <1>6, <2>1, <2>2, <2>3 DEF ReportTrue, Written
<1>12. ExitsTrue'
    BY <1>1, <1>2, <1>7 DEF ExitsTrue
<1> QED BY <1>8, <1>10, <1>11, <1>12 DEF ReportsTrue

\* A run that moves on without a gate leaves what is known of it as it is.
LEMMA StageKeepsRun ==
    ASSUME Verification, run # None, NEW stage \in {"opened", "done"},
           run.mismatch \/ Len(run.gates) = NumGates,
           run' = [run EXCEPT !.stage = stage],
           UNCHANGED <<starts, exits, found>>
    PROVE  /\ RunInProgress' /\ ExitsTrue' /\ run' \in Run
           /\ run'.number = run.number /\ run'.path = run.path /\ run'.stage = stage
<1> USE DEF Verification
<1>1. run \in Run
    BY RunIsLatest
<1>2. /\ run'.number = run.number /\ run'.path = run.path /\ run'.stage = stage
      /\ run'.gates = run.gates /\ run'.mismatch = run.mismatch
      /\ run'.anyFailed = run.anyFailed /\ run' \in Run
    BY <1>1 DEF Run
<1>3. RunInProgress'
    BY <1>2 DEF RunInProgress
<1>4. ExitsTrue'
    BY DEF ExitsTrue
<1> QED BY <1>2, <1>3, <1>4

\* The report is emptied, or it cannot be opened and stays as it was.
LEMMA OpenKeepsVerification ==
    ASSUME Verification, OpenReport
    PROVE  /\ Verification'
           /\ run # None /\ run'.number = run.number /\ run'.path = run.path
           /\ exits' = exits /\ starts' = starts
           /\ \A p \in Paths : p # run.path => reports'[p] = reports[p]
<1> USE GatesAssumption DEF Verification
<1>1. /\ run # None /\ run.stage = "gates"
      /\ run.mismatch \/ NextGate \notin Gates
      /\ starts' = starts /\ exits' = exits /\ found' = found
    BY DEF OpenReport
<1>2. run \in Run /\ run.path \in Paths /\ run.gates \in Seq(Statuses)
    BY <1>1, RunIsLatest
<1>3. run.mismatch \/ Len(run.gates) = NumGates
    BY <1>1, <1>2 DEF RunInProgress, NextGate, Gates
<1>4. PICK stage \in {"opened", "done"} :
          /\ run' = [run EXCEPT !.stage = stage]
          /\ stage = "opened" => reports' = [reports EXCEPT ![run.path] = Truncated]
          /\ stage = "done" => reports' = reports
    BY DEF OpenReport
<1>5. /\ RunInProgress' /\ ExitsTrue' /\ run' \in Run
      /\ run'.number = run.number /\ run'.path = run.path /\ run'.stage = stage
    BY <1>1, <1>3, <1>4, StageKeepsRun
<1>6. /\ reports' \in [Paths -> Report \cup {None, Truncated}]
      /\ \A p \in Paths : p # run.path => reports'[p] = reports[p]
      /\ reports'[run.path] \in {Truncated, reports[run.path]}
    BY <1>2, <1>4 DEF VerifyTypeOK
<1>7. VerifyTypeOK'
    BY <1>1, <1>5, <1>6 DEF VerifyTypeOK
<1>8. ASSUME NEW p \in Paths
      PROVE  ReportTrue(p)'
    <2> SUFFICES ASSUME Written(p)'
                 PROVE  ReportTrue(p)'
        BY DEF ReportTrue
    <2>1. reports'[p] = reports[p] /\ Written(p)
        BY <1>6 DEF Written
    <2>2. ReportTrue(p)
        BY DEF ReportsTrue
    <2>3. reports[p].startedAt # run.number
        BY <1>1, <2>1, <2>2 DEF ReportTrue
    <2> QED BY <1>1, <1>5, <2>1, <2>2, <2>3 DEF ReportTrue
<1> QED BY <1>1, <1>5, <1>6, <1>7, <1>8 DEF ReportsTrue

\* What a write leaves is empty, or says of the run what report says.
LEMMA PartsSayTheSame ==
    ASSUME NEW report \in Report, NEW file \in PartsOf(report), file # Truncated
    PROVE  /\ file \in Report
           /\ file.status = report.status /\ file.startedAt = report.startedAt
           /\ file.whole => file = report
<1> USE GatesAssumption
<1>1. CASE file = report
    BY <1>1
<1>2. CASE file # report
    <2>1. PICK n \in 0 .. Len(report.gates) :
              file = [report EXCEPT !.gates = SubSeq(report.gates, 1, n),
                                    !.whole = FALSE]
        BY <1>2 DEF PartsOf
    <2>2. report.gates \in Seq(Statuses)
        BY DEF Report
    <2>3. SubSeq(report.gates, 1, n) \in Seq(Statuses)
        <3>1. Len(report.gates) \in Nat
            BY <2>2
        <3>2. \A i \in 1 .. n : report.gates[i] \in Statuses
            BY <2>2, <3>1
        <3> QED BY <2>2, <3>1, <3>2
    <2> QED BY <2>1, <2>3 DEF Report
<1> QED BY <1>1, <1>2

\* The report that is written, whole or not, says what the run found.
LEMMA WriteKeepsVerification ==
    ASSUME Verification, WriteReport
    PROVE  /\ Verification'
           /\ run # None /\ run'.number = run.number /\ run'.path = run.path
           /\ exits' = exits /\ starts' = starts
           /\ \A p \in Paths : p # run.path => reports'[p] = reports[p]
<1> USE GatesAssumption DEF Verification
<1> DEFINE report == [status |-> Verdict, startedAt |-> run.number,
                      gates |-> run.gates, whole |-> TRUE]
<1>1. PICK file \in PartsOf(report) :
          /\ run # None /\ run.stage = "opened"
          /\ reports' = [reports EXCEPT ![run.path] = file]
          /\ run' = [run EXCEPT !.stage = "done"]
          /\ starts' = starts /\ exits' = exits /\ found' = found
    BY DEF WriteReport
<1>2. /\ run \in Run /\ run.path \in Paths /\ run.gates \in Seq(Statuses)
      /\ run.number \in 1 .. MaxRuns /\ run.number = starts
      /\ found[run.number] = run.gates
    BY <1>1, RunIsLatest
<1>3. run.mismatch \/ Len(run.gates) = NumGates
    BY <1>1 DEF RunInProgress
<1>4. Verdict \in {"passed", "failed"} /\ (Verdict = "passed" <=> run.gates = AllPassed)
    BY <1>1, <1>3, VerdictIsTrue
<1>5. /\ RunInProgress' /\ ExitsTrue' /\ run' \in Run
      /\ run'.number = run.number /\ run'.path = run.path /\ run'.stage = "done"
    BY <1>1, <1>3, StageKeepsRun
<1>6. report \in Report
    BY <1>2, <1>4 DEF Report
<1>7. /\ report.status = Verdict /\ report.startedAt = run.number
      /\ report.gates = run.gates
    OBVIOUS
<1> HIDE DEF report
<1>8. file \in Report \cup {Truncated}
    BY <1>1, <1>6, PartsSayTheSame
<1>9. /\ reports' \in [Paths -> Report \cup {None, Truncated}]
      /\ reports'[run.path] = file
      /\ \A p \in Paths : p # run.path => reports'[p] = reports[p]
    BY <1>1, <1>2, <1>8 DEF VerifyTypeOK
<1>10. VerifyTypeOK'
    BY <1>1, <1>5, <1>9 DEF VerifyTypeOK
<1>11. ASSUME NEW p \in Paths
       PROVE  ReportTrue(p)'
    <2> SUFFICES ASSUME Written(p)'
                 PROVE  ReportTrue(p)'
        BY DEF ReportTrue
    <2>1. CASE p = run.path
        <3>1. file # Truncated /\ reports'[p] = file
            BY <1>9, <2>1 DEF Written
        <3>2. /\ file.status = Verdict /\ file.startedAt = run.number
              /\ file.whole => file.gates = run.gates
            BY <1>1, <1>6, <1>7, <3>1, PartsSayTheSame
        <3> QED BY <1>1, <1>2, <1>4, <1>5, <3>1, <3>2 DEF ReportTrue
    <2>2. CASE p # run.path
        <3>1. reports'[p] = reports[p] /\ Written(p) /\ ReportTrue(p)
            BY <1>9, <2>2 DEF Written, ReportsTrue
        <3> QED BY <1>1, <1>5, <3>1 DEF ReportTrue
    <2> QED BY <2>1, <2>2
<1> QED BY <1>1, <1>5, <1>9, <1>10, <1>11 DEF ReportsTrue

\* An ended run leaves its report and an exit status that is true.
LEMMA EndKeepsVerification ==
    ASSUME Verification, run # None, NEW exit \in {"ok", "failed", "killed"},
           exits' = [exits EXCEPT ![run.number] = exit],
           exit = "ok" => found[run.number] = AllPassed,
           exit = "failed" => found[run.number] # AllPassed,
           run' = None, UNCHANGED <<reports, starts, found>>
    PROVE  /\ Verification'
           /\ exits'[run.number] = exit
           /\ \A n \in 1 .. MaxRuns : n # run.number => exits'[n] = exits[n]
<1> USE GatesAssumption DEF Verification
<1>1. run.number \in 1 .. MaxRuns /\ run.number = starts
    BY RunIsLatest
<1>2. /\ exits' \in [1 .. MaxRuns -> {None, "ok", "failed", "killed"}]
      /\ exits'[run.number] = exit
      /\ \A n \in 1 .. MaxRuns : n # run.number => exits'[n] = exits[n]
    BY <1>1 DEF VerifyTypeOK
<1>3. VerifyTypeOK'
    BY <1>2 DEF VerifyTypeOK
<1>4. RunInProgress'
    BY <1>1, <1>2 DEF RunInProgress, VerifyTypeOK
<1>5. ASSUME NEW p \in Paths
      PROVE  ReportTrue(p)'
    BY DEF ReportsTrue, ReportTrue, Written
<1>6. ExitsTrue'
    BY <1>2 DEF ExitsTrue
<1> QED BY <1>2, <1>3, <1>4, <1>5, <1>6 DEF ReportsTrue

\* What a step of the verification does to the rest: its own report, and the exit
\* status of the run that ends.
VerificationMoves ==
    /\ run # None
    /\ run' = None \/ (run'.number = run.number /\ run'.path = run.path)
    /\ starts' = starts
    /\ \A n \in 1 .. MaxRuns : n # run.number => exits'[n] = exits[n]
    /\ \A p \in Paths : p # run.path => reports'[p] = reports[p]

\* Every step of the verification keeps what holds of it, and moves nothing else.
LEMMA VerifyStepKeepsVerification ==
    ASSUME Verification, VerifyStep
    PROVE  Verification' /\ VerificationMoves
<1>1. CASE \E status \in Statuses : GateIsNext /\ RecordGate(status)
    <2>1. PICK status \in Statuses : GateIsNext /\ RecordGate(status)
        BY <1>1
    <2>2. run # None /\ run \in Run
        BY <2>1, RunIsLatest DEF GateIsNext
    <2>3. run'.number = run.number /\ run'.path = run.path
        BY <2>1, <2>2 DEF RecordGate, Run
    <2>4. Verification'
        BY <2>1, GateKeepsVerification
    <2> QED BY <2>1, <2>2, <2>3, <2>4 DEF RecordGate, VerificationMoves
<1>2. CASE OpenReport
    BY <1>2, OpenKeepsVerification DEF VerificationMoves
<1>3. CASE WriteReport
    BY <1>3, WriteKeepsVerification DEF VerificationMoves
<1>4. CASE Exit
    <2>1. /\ run # None /\ run.stage = "done" /\ run' = None
          /\ exits' = [exits EXCEPT ![run.number] = ExitStatus]
          /\ reports' = reports /\ starts' = starts /\ found' = found
        BY <1>4 DEF Exit
    <2>2. run.mismatch \/ Len(run.gates) = NumGates
        BY <2>1 DEF Verification, RunInProgress
    <2>3. /\ ExitStatus \in {"ok", "failed"}
          /\ ExitStatus = "ok" <=> found[run.number] = AllPassed
        BY <2>1, <2>2, VerdictIsTrue, RunIsLatest DEF ExitStatus
    <2>4. Verification' /\ \A n \in 1 .. MaxRuns : n # run.number => exits'[n] = exits[n]
        BY <2>1, <2>3, EndKeepsVerification
    <2> QED BY <2>1, <2>4 DEF VerificationMoves
<1>5. CASE Kill
    <2>1. /\ run # None /\ run' = None
          /\ exits' = [exits EXCEPT ![run.number] = "killed"]
          /\ reports' = reports /\ starts' = starts /\ found' = found
        BY <1>5 DEF Kill
    <2>2. Verification' /\ \A n \in 1 .. MaxRuns : n # run.number => exits'[n] = exits[n]
        BY <2>1, EndKeepsVerification
    <2> QED BY <2>1, <2>2 DEF VerificationMoves
<1> QED BY <1>1, <1>2, <1>3, <1>4, <1>5 DEF VerifyStep, RunSuite, Blocked, Statuses

------------------------------------------------------------------------------
\* A bundle knows its verification by the number of a run.
LEMMA BundleIsBundle ==
    ASSUME BundleTypeOK, bundle # None
    PROVE  /\ bundle \in Bundle
           /\ bundle.verification # None => bundle.verification \in 1 .. MaxRuns
           /\ bundle.results \in Seq({"passed", "failed", "linked", "nothing"})
           /\ bundle.reused \in BOOLEAN /\ bundle.failed \in BOOLEAN
<1>1. bundle \in Bundle
    BY DEF BundleTypeOK
<1> QED BY <1>1 DEF Bundle

\* Once the report was looked at, nobody writes to the directory of the bundle.
LEMMA NobodyWrites ==
    ASSUME Evidence, bundle # None, bundle.checked, run # None
    PROVE  run.path # BundleReport /\ bundle.verification # run.number
<1> USE GatesAssumption DEF Evidence
<1>1. /\ bundle.verification # None => exits[bundle.verification] # None
      /\ run.path = BundleReport => bundle.verification = run.number
    BY DEF BundleInProgress, Verified
<1>2. exits[run.number] = None /\ run.number \in 1 .. MaxRuns
    BY RunIsLatest
<1> QED BY <1>1, <1>2

\* A passed manifest knows an exit status, which no later run changes.
LEMMA ManifestStays ==
    ASSUME Evidence, manifest' = manifest,
           \A n \in 1 .. MaxRuns : exits[n] # None => exits'[n] = exits[n]
    PROVE  ManifestVouched'
<1> USE GatesAssumption DEF Evidence
<1> SUFFICES ASSUME manifest # None, manifest.status = "passed"
             PROVE  LET b == manifest.bundle IN
                    /\ \A i \in DOMAIN b.results :
                           b.results[i] \notin {"failed", "linked"}
                    /\ ~b.reused => /\ b.verification \in 1 .. MaxRuns
                                    /\ exits'[b.verification] = "ok"
                    /\ manifest.report # None => RecordsAPass(manifest.report)
    BY DEF ManifestVouched, RecordsAPass
<1> QED BY DEF ManifestVouched

\* A verification that is started or goes on changes nothing a bundle relies on.
LEMMA BundleStays ==
    ASSUME Evidence, bundle' = bundle, manifest' = manifest,
           \A n \in 1 .. MaxRuns : exits[n] # None => exits'[n] = exits[n],
           bundle # None /\ run' # None /\ run'.path = BundleReport =>
               bundle.verification = run'.number,
           bundle # None /\ bundle.checked =>
               reports'[BundleReport] = reports[BundleReport]
    PROVE  BundleTypeOK' /\ BundleInProgress' /\ ManifestVouched'
<1> USE GatesAssumption DEF Evidence
<1>1. BundleTypeOK'
    BY DEF BundleTypeOK
<1>2. ManifestVouched'
    BY ManifestStays
<1>3. BundleInProgress'
    <2> SUFFICES ASSUME bundle # None
                 PROVE  BundleInProgress'
        BY DEF BundleInProgress
    <2>1. bundle.verification # None => bundle.verification \in 1 .. MaxRuns
        BY BundleIsBundle
    <2>2. Verified(bundle) => Verified(bundle)'
        BY <2>1 DEF Verified
    <2>3. /\ bundle.checked => bundle.taken /\ Verified(bundle)
          /\ bundle.reused => bundle.verification = None
          /\ bundle.taken /\ ~bundle.reused => bundle.verification # None
          /\ bundle.results # <<>> => bundle.checked
          /\ ~bundle.failed => \A i \in DOMAIN bundle.results :
                                   bundle.results[i] \notin {"failed", "linked"}
        BY DEF BundleInProgress
    <2>4. ASSUME bundle.checked, ~bundle.failed
          PROVE  /\ bundle.reused \/ exits'[bundle.verification] = "ok"
                 /\ \/ reports'[BundleReport] = None
                    \/ RecordsAPass(reports'[BundleReport])
        <3>1. /\ bundle.reused \/ exits[bundle.verification] = "ok"
              /\ \/ reports[BundleReport] = None
                 \/ RecordsAPass(reports[BundleReport])
            BY <2>4 DEF BundleInProgress
        <3>2. reports'[BundleReport] = reports[BundleReport]
            BY <2>4
        <3>3. bundle.reused \/ bundle.verification \in 1 .. MaxRuns
            BY <2>1, <2>3, <2>4
        <3> QED BY <3>1, <3>2, <3>3
    <2>5. run' # None /\ run'.path = BundleReport => bundle.verification = run'.number
        OBVIOUS
    <2> QED BY <2>2, <2>3, <2>4, <2>5 DEF BundleInProgress, RecordsAPass
<1> QED BY <1>1, <1>2, <1>3

\* A verification that is run on its own is nowhere near the bundle being cut.
LEMMA OwnRunKeepsEvidence ==
    ASSUME Evidence, NEW p \in Paths, NEW postgres \in BOOLEAN,
           NEW mismatch \in BOOLEAN, MayWrite(p),
           StartVerify(p, postgres, mismatch), UNCHANGED evidenceVars
    PROVE  Evidence'
<1>1. /\ Verification' /\ run'.path = p
      /\ reports' = reports /\ exits' = exits
    BY StartKeepsVerification DEF Evidence
<1>2. bundle' = bundle /\ manifest' = manifest
    BY DEF evidenceVars
<1>3. bundle # None => run'.path # BundleReport
    BY <1>1 DEF MayWrite
<1>4. BundleTypeOK' /\ BundleInProgress' /\ ManifestVouched'
    BY <1>1, <1>2, <1>3, BundleStays
<1> QED BY <1>1, <1>4 DEF Evidence

\* A step of a verification is one the bundle waits for, or one elsewhere.
LEMMA VerifyStepKeepsEvidence ==
    ASSUME Evidence, VerifyStep, UNCHANGED evidenceVars
    PROVE  Evidence'
<1>1. Verification' /\ VerificationMoves
    BY VerifyStepKeepsVerification DEF Evidence
<1>2. bundle' = bundle /\ manifest' = manifest
    BY DEF evidenceVars
<1>3. run # None /\ run.number \in 1 .. MaxRuns /\ exits[run.number] = None
    BY <1>1, RunIsLatest DEF Evidence, VerificationMoves
<1>4. \A n \in 1 .. MaxRuns : exits[n] # None => exits'[n] = exits[n]
    BY <1>1, <1>3 DEF VerificationMoves
<1>5. bundle # None /\ run' # None /\ run'.path = BundleReport =>
          bundle.verification = run'.number
    BY <1>1 DEF Evidence, BundleInProgress, VerificationMoves
<1>6. bundle # None /\ bundle.checked => reports'[BundleReport] = reports[BundleReport]
    BY <1>1, <1>3, NobodyWrites, TwoPaths DEF VerificationMoves
<1>7. BundleTypeOK' /\ BundleInProgress' /\ ManifestVouched'
    BY <1>2, <1>4, <1>5, <1>6, BundleStays
<1> QED BY <1>1, <1>7 DEF Evidence

------------------------------------------------------------------------------
\* A file that is removed, or that becomes a copy of a report or a part of one,
\* says nothing that was not true.
LEMMA CopyKeepsVerification ==
    ASSUME Verification, UNCHANGED <<run, starts, exits, found>>,
           run # None => run.path # BundleReport,
           NEW file, reports' = [reports EXCEPT ![BundleReport] = file],
           \/ file = None
           \/ reports[DefaultReport] # None /\ file \in CopiesOf(reports[DefaultReport])
    PROVE  Verification'
<1> USE GatesAssumption DEF Verification
<1> DEFINE report == reports[DefaultReport]
<1>1. reports[BundleReport] \in Report \cup {None, Truncated}
    BY TwoPaths DEF VerifyTypeOK
<1>2. \/ file \in {None, Truncated, reports[BundleReport]}
      \/ report \in Report /\ file \in PartsOf(report) /\ file # Truncated
    BY TwoPaths DEF CopiesOf, VerifyTypeOK
<1>3. /\ file \in Report \cup {None, Truncated}
      /\ reports' \in [Paths -> Report \cup {None, Truncated}]
    <2>1. report \in Report /\ file \in PartsOf(report) /\ file # Truncated
              => file \in Report
        BY PartsSayTheSame
    <2>2. file \in Report \cup {None, Truncated}
        BY <1>1, <1>2, <2>1
    <2> QED BY <2>2, TwoPaths DEF VerifyTypeOK
<1>4. VerifyTypeOK'
    BY <1>3 DEF VerifyTypeOK
<1>5. RunInProgress' /\ ExitsTrue'
    BY DEF RunInProgress, ExitsTrue
<1>6. ASSUME NEW p \in Paths
      PROVE  ReportTrue(p)'
    <2> SUFFICES ASSUME Written(p)'
                 PROVE  ReportTrue(p)'
        BY DEF ReportTrue
    <2>1. CASE reports'[p] = reports[p]
        BY <2>1 DEF ReportsTrue, ReportTrue, Written
    <2>2. CASE reports'[p] # reports[p]
        <3>1. /\ reports'[p] = file /\ file \notin {None, Truncated}
              /\ file # reports[BundleReport]
            BY <2>2, TwoPaths DEF VerifyTypeOK, Written
        <3>2. report \in Report /\ file \in PartsOf(report)
            BY <1>2, <3>1
        <3>3. /\ file.status = report.status /\ file.startedAt = report.startedAt
              /\ file.whole => file = report
            BY <3>1, <3>2, PartsSayTheSame
        <3>4. ReportTrue(DefaultReport) /\ Written(DefaultReport)
            BY <3>2, TwoPaths DEF ReportsTrue, Written
        <3> QED BY <3>1, <3>3, <3>4 DEF ReportTrue, Written
    <2> QED BY <2>1, <2>2
<1> QED BY <1>4, <1>5, <1>6 DEF ReportsTrue

\* A new bundle knows nothing, and no verification writes to its directory.
LEMMA BeginKeepsEvidence ==
    ASSUME Evidence, NEW reused \in BOOLEAN, NEW fresh \in BOOLEAN,
           BeginBundle(reused, fresh)
    PROVE  Evidence'
<1> USE GatesAssumption DEF Evidence
<1>1. /\ run # None => run.path # BundleReport
      /\ run' = run /\ starts' = starts /\ exits' = exits /\ found' = found
      /\ bundle' = [reused |-> reused, verification |-> None, taken |-> FALSE,
                    failed |-> FALSE, checked |-> FALSE, results |-> <<>>]
    BY DEF BeginBundle
<1>2. /\ bundle' \in Bundle /\ bundle'.results = <<>> /\ ~bundle'.taken
      /\ ~bundle'.checked /\ bundle'.verification = None
    <2>1. <<>> \in Seq({"passed", "failed", "linked", "nothing"})
        OBVIOUS
    <2> QED BY <1>1, <2>1 DEF Bundle
<1>3. DOMAIN bundle'.results = {}
    BY <1>2
<1>4. BundleInProgress'
    BY <1>1, <1>2, <1>3 DEF BundleInProgress
<1>5. CASE fresh
    <2>1. manifest' = None /\ reports' = [reports EXCEPT ![BundleReport] = None]
        BY <1>5 DEF BeginBundle
    <2>2. Verification'
        BY <1>1, <2>1, CopyKeepsVerification
    <2> QED BY <1>2, <1>4, <2>1, <2>2 DEF BundleTypeOK, ManifestVouched
<1>6. CASE ~fresh
    <2>1. manifest' = manifest /\ reports' = reports
        BY <1>6 DEF BeginBundle
    <2>2. Verification'
        BY <1>1, <2>1 DEF Verification, VerifyTypeOK, RunInProgress, ReportsTrue,
                          ReportTrue, Written, ExitsTrue
    <2>3. ManifestVouched'
        BY <1>1, <2>1, ManifestStays
    <2> QED BY <1>2, <1>4, <2>1, <2>2, <2>3 DEF BundleTypeOK
<1> QED BY <1>5, <1>6

\* A bundle that has not looked at the report loses nothing when it takes one.
LEMMA TakeKeepsEvidence ==
    ASSUME Evidence, TakeReport
    PROVE  Evidence'
<1> USE GatesAssumption DEF Evidence
<1> DEFINE report == reports[DefaultReport]
<1>1. /\ bundle # None /\ bundle.reused /\ ~bundle.taken
      /\ bundle' = [bundle EXCEPT !.taken = TRUE,
                                  !.failed = bundle.failed \/ report = None]
      /\ run' = run /\ starts' = starts /\ exits' = exits /\ found' = found
      /\ manifest' = manifest
    BY DEF TakeReport
<1>2. /\ ~bundle.checked /\ bundle.results = <<>>
      /\ run # None => (run.path = BundleReport => bundle.verification = run.number)
    BY <1>1 DEF BundleInProgress
<1>3. /\ bundle' \in Bundle /\ bundle'.reused /\ ~bundle'.checked
      /\ bundle'.results = <<>> /\ bundle'.verification = None
    <2>1. bundle \in Bundle
        BY <1>1, BundleIsBundle
    <2>2. bundle.verification = None
        BY <1>1 DEF BundleInProgress
    <2> QED BY <1>1, <1>2, <2>1, <2>2 DEF Bundle
<1>4. run # None => run.path # BundleReport
    <2>1. bundle.verification = None
        BY <1>1 DEF BundleInProgress
    <2>2. run # None => run.number \in 1 .. MaxRuns
        BY RunIsLatest
    <2> QED BY <1>2, <2>1, <2>2
<1>5. BundleTypeOK'
    BY <1>1, <1>3 DEF BundleTypeOK
<1>6. BundleInProgress'
    <2>1. DOMAIN bundle'.results = {}
        BY <1>3
    <2> QED BY <1>1, <1>3, <1>4, <2>1 DEF BundleInProgress
<1>7. ManifestVouched'
    BY <1>1, ManifestStays
<1>8. Verification'
    <2>1. CASE report = None
        <3>1. reports' = reports
            BY <2>1 DEF TakeReport
        <3> QED BY <1>1, <3>1 DEF Verification, VerifyTypeOK, RunInProgress,
                                  ReportsTrue, ReportTrue, Written, ExitsTrue
    <2>2. CASE report # None
        <3>1. PICK file \in CopiesOf(report) :
                  reports' = [reports EXCEPT ![BundleReport] = file]
            BY <2>2 DEF TakeReport
        <3> QED BY <1>1, <1>4, <2>2, <3>1, CopyKeepsVerification
    <2> QED BY <2>1, <2>2
<1> QED BY <1>5, <1>6, <1>7, <1>8

\* The bundle's own verification is the run it remembers.
LEMMA RunVerifyKeepsEvidence ==
    ASSUME Evidence, NEW postgres \in BOOLEAN, NEW mismatch \in BOOLEAN,
           RunVerify(postgres, mismatch)
    PROVE  Evidence'
<1> USE GatesAssumption DEF Evidence
<1>1. /\ bundle # None /\ ~bundle.reused /\ ~bundle.taken
      /\ bundle' = [bundle EXCEPT !.taken = TRUE, !.verification = starts + 1]
      /\ manifest' = manifest
      /\ StartVerify(BundleReport, postgres, mismatch)
    BY DEF RunVerify
<1>2. /\ Verification' /\ run'.number = starts + 1 /\ starts + 1 \in 1 .. MaxRuns
      /\ exits' = exits
    BY <1>1, TwoPaths, StartKeepsVerification
<1>3. ~bundle.checked /\ bundle.results = <<>>
    BY <1>1 DEF BundleInProgress
<1>4. /\ bundle' \in Bundle /\ ~bundle'.checked /\ bundle'.results = <<>>
      /\ bundle'.verification = starts + 1 /\ starts + 1 # None
      /\ ~bundle'.reused
    <2>1. bundle \in Bundle
        BY <1>1, BundleIsBundle
    <2> QED BY <1>1, <1>2, <1>3, <2>1 DEF Bundle
<1>5. BundleTypeOK'
    BY <1>1, <1>4 DEF BundleTypeOK
<1>6. BundleInProgress'
    <2>1. DOMAIN bundle'.results = {}
        BY <1>4
    <2> QED BY <1>2, <1>4, <2>1 DEF BundleInProgress
<1>7. ManifestVouched'
    BY <1>1, <1>2, ManifestStays
<1> QED BY <1>2, <1>5, <1>6, <1>7

------------------------------------------------------------------------------
\* A step of the bundle that leaves the verifications alone keeps what holds of
\* them.
LEMMA OnlyTheBundle ==
    ASSUME Verification, UNCHANGED verifyVars
    PROVE  /\ Verification'
           /\ run' = run /\ exits' = exits /\ reports' = reports
<1>1. /\ run' = run /\ reports' = reports /\ starts' = starts
      /\ exits' = exits /\ found' = found
    BY DEF verifyVars
<1> QED BY <1>1 DEF Verification, VerifyTypeOK, RunInProgress, ReportsTrue,
                    ReportTrue, Written, ExitsTrue

\* The gate report is looked at, once, after the verification has ended.
LEMMA CheckReportKeepsEvidence ==
    ASSUME Evidence, CheckReport
    PROVE  Evidence'
<1> USE GatesAssumption DEF Evidence
<1> DEFINE report == reports[BundleReport]
<1>1. /\ bundle # None /\ bundle.taken /\ Verified(bundle) /\ ~bundle.checked
      /\ bundle' = [bundle EXCEPT
             !.checked = TRUE,
             !.failed = bundle.failed \/ VerificationFailed(bundle)
                        \/ (report # None /\ ~RecordsAPass(report))]
      /\ manifest' = manifest /\ UNCHANGED verifyVars
    BY DEF CheckReport
<1>2. Verification' /\ run' = run /\ exits' = exits /\ reports' = reports
    BY <1>1, OnlyTheBundle
<1>3. bundle \in Bundle
    BY <1>1, BundleIsBundle
<1>4. /\ bundle' \in Bundle /\ bundle'.taken /\ bundle'.checked
      /\ bundle'.reused = bundle.reused
      /\ bundle'.verification = bundle.verification
      /\ bundle'.results = bundle.results
      /\ ~bundle'.failed => /\ ~bundle.failed /\ ~VerificationFailed(bundle)
                            /\ report = None \/ RecordsAPass(report)
    BY <1>1, <1>3 DEF Bundle
<1>5. BundleTypeOK'
    BY <1>1, <1>4 DEF BundleTypeOK
<1>6. ManifestVouched'
    BY <1>1, <1>2, ManifestStays
<1>7. BundleInProgress'
    <2>1. /\ bundle.reused => bundle.verification = None
          /\ ~bundle.reused => bundle.verification # None
        BY <1>1 DEF BundleInProgress
    <2>2. ~bundle'.failed => bundle.reused \/ exits[bundle.verification] = "ok"
        BY <1>4, <2>1 DEF VerificationFailed
    <2>3. ~bundle.failed => \A i \in DOMAIN bundle.results :
                                bundle.results[i] \notin {"failed", "linked"}
        BY <1>1 DEF BundleInProgress
    <2>4. run # None /\ run.path = BundleReport => bundle.verification = run.number
        BY <1>1 DEF BundleInProgress
    <2>5. Verified(bundle)'
        BY <1>1, <1>2, <1>4 DEF Verified
    <2> QED BY <1>2, <1>4, <2>1, <2>2, <2>3, <2>4, <2>5
            DEF BundleInProgress, RecordsAPass
<1> QED BY <1>2, <1>5, <1>6, <1>7

\* A check adds what it found, and a failure to the bundle when it is one.
LEMMA RunCheckKeepsEvidence ==
    ASSUME Evidence,
           NEW finding \in {"passed", "failed", "linked", "nothing"},
           RunCheck(finding)
    PROVE  Evidence'
<1> USE GatesAssumption DEF Evidence
<1>1. /\ bundle # None /\ bundle.checked
      /\ bundle' = [bundle EXCEPT !.results = Append(bundle.results, finding),
                                  !.failed = FailedAfter(bundle, finding)]
      /\ manifest' = manifest /\ UNCHANGED verifyVars
    BY DEF RunCheck
<1>2. Verification' /\ run' = run /\ exits' = exits /\ reports' = reports
    BY <1>1, OnlyTheBundle
<1>3. /\ bundle \in Bundle
      /\ bundle.results \in Seq({"passed", "failed", "linked", "nothing"})
    BY <1>1, BundleIsBundle
<1>4. /\ Append(bundle.results, finding)
             \in Seq({"passed", "failed", "linked", "nothing"})
      /\ FailedAfter(bundle, finding) \in BOOLEAN
    BY <1>3 DEF FailedAfter, Bundle
<1>5. /\ bundle' \in Bundle /\ bundle'.taken = bundle.taken /\ bundle'.checked
      /\ bundle'.reused = bundle.reused
      /\ bundle'.verification = bundle.verification
      /\ bundle'.results = Append(bundle.results, finding)
      /\ ~bundle'.failed => ~bundle.failed /\ finding \notin {"failed", "linked"}
    BY <1>1, <1>3, <1>4 DEF Bundle, FailedAfter
<1>6. BundleTypeOK'
    BY <1>1, <1>5 DEF BundleTypeOK
<1>7. ManifestVouched'
    BY <1>1, <1>2, ManifestStays
<1>8. ~bundle'.failed => \A i \in DOMAIN bundle'.results :
                             bundle'.results[i] \notin {"failed", "linked"}
    <2>1. ~bundle.failed => \A i \in DOMAIN bundle.results :
                                bundle.results[i] \notin {"failed", "linked"}
        BY <1>1 DEF BundleInProgress
    <2> QED BY <1>3, <1>5, <2>1
<1>9. BundleInProgress'
    <2>1. /\ bundle.taken /\ Verified(bundle)
          /\ bundle.reused => bundle.verification = None
          /\ ~bundle.reused => bundle.verification # None
          /\ ~bundle.failed =>
                /\ bundle.reused \/ exits[bundle.verification] = "ok"
                /\ \/ reports[BundleReport] = None
                   \/ RecordsAPass(reports[BundleReport])
          /\ run # None /\ run.path = BundleReport =>
                bundle.verification = run.number
        BY <1>1 DEF BundleInProgress
    <2>2. Verified(bundle)'
        BY <1>2, <1>5, <2>1 DEF Verified
    <2> QED BY <1>2, <1>5, <1>8, <2>1, <2>2 DEF BundleInProgress, RecordsAPass
<1> QED BY <1>2, <1>6, <1>7, <1>9

\* The manifest says what the bundle came to, or stays the older one.
LEMMA WriteManifestKeepsEvidence ==
    ASSUME Evidence, WriteManifest
    PROVE  Evidence'
<1> USE GatesAssumption DEF Evidence
<1> DEFINE report == reports[BundleReport]
           new == [status |-> IF bundle.failed THEN "failed" ELSE "passed",
                   bundle |-> bundle, report |-> report]
<1>1. /\ bundle # None /\ bundle' = None
      /\ Len(bundle.results) = Len(Checks)
      /\ manifest' = new \/ manifest' = manifest
      /\ UNCHANGED verifyVars
    BY DEF WriteManifest
<1>2. Verification' /\ run' = run /\ exits' = exits /\ reports' = reports
    BY <1>1, OnlyTheBundle
<1>3. BundleInProgress'
    BY <1>1 DEF BundleInProgress
<1>4. CASE manifest' = manifest
    BY <1>1, <1>2, <1>3, <1>4, ManifestStays DEF BundleTypeOK
<1>5. CASE manifest' = new
    <2>1. bundle.checked
        <3>1. Len(bundle.results) # 0
            BY <1>1, PathsAssumption
        <3>2. bundle.results # <<>>
            BY <3>1
        <3> QED BY <1>1, <3>2 DEF BundleInProgress
    <2>2. /\ manifest'.bundle = bundle /\ manifest'.report = report
          /\ manifest'.status \in {"passed", "failed"}
          /\ manifest'.status = "passed" => ~bundle.failed
        BY <1>1, <1>5, BundleIsBundle
    <2>3. BundleTypeOK'
        BY <1>1, <2>2 DEF BundleTypeOK
    <2>4. ASSUME ~bundle.failed
          PROVE  /\ \A i \in DOMAIN bundle.results :
                        bundle.results[i] \notin {"failed", "linked"}
                 /\ ~bundle.reused => /\ bundle.verification \in 1 .. MaxRuns
                                      /\ exits[bundle.verification] = "ok"
                 /\ report # None => RecordsAPass(report)
        <3>1. bundle.verification # None => bundle.verification \in 1 .. MaxRuns
            BY <1>1, BundleIsBundle
        <3> QED BY <1>1, <2>1, <2>4, <3>1 DEF BundleInProgress
    <2>5. ManifestVouched'
        BY <1>2, <2>2, <2>4 DEF ManifestVouched, RecordsAPass
    <2> QED BY <1>2, <1>3, <2>3, <2>5
<1> QED BY <1>1, <1>4, <1>5

\* A killed bundle leaves the manifest of the one before it.
LEMMA KillBundleKeepsEvidence ==
    ASSUME Evidence, KillBundle
    PROVE  Evidence'
<1> USE DEF Evidence
<1>1. bundle' = None /\ manifest' = manifest /\ UNCHANGED verifyVars
    BY DEF KillBundle
<1>2. Verification' /\ exits' = exits
    BY <1>1, OnlyTheBundle
<1> QED BY <1>1, <1>2, ManifestStays DEF BundleTypeOK, BundleInProgress

------------------------------------------------------------------------------
\* Every step keeps the invariant.
LEMMA NextKeepsEvidence == Evidence /\ [Next]_vars => Evidence'
<1> SUFFICES ASSUME Evidence, [Next]_vars PROVE Evidence'
    OBVIOUS
<1>1. CASE UNCHANGED vars
    <2>1. UNCHANGED verifyVars /\ bundle' = bundle /\ manifest' = manifest
        BY <1>1 DEF vars, evidenceVars
    <2>2. Verification' /\ run' = run /\ exits' = exits /\ reports' = reports
        BY <2>1, OnlyTheBundle DEF Evidence
    <2>3. bundle # None /\ run' # None /\ run'.path = BundleReport =>
              bundle.verification = run'.number
        BY <2>2 DEF Evidence, BundleInProgress
    <2>4. BundleTypeOK' /\ BundleInProgress' /\ ManifestVouched'
        BY <2>1, <2>2, <2>3, BundleStays
    <2> QED BY <2>2, <2>4 DEF Evidence
<1>2. CASE Next
    BY <1>2, OwnRunKeepsEvidence, VerifyStepKeepsEvidence, BeginKeepsEvidence,
       TakeKeepsEvidence, RunVerifyKeepsEvidence, CheckReportKeepsEvidence,
       RunCheckKeepsEvidence, WriteManifestKeepsEvidence, KillBundleKeepsEvidence
       DEF Next
<1> QED BY <1>1, <1>2

\* The invariant holds in every state.
LEMMA EvidenceAlways == Spec => []Evidence
<1> QED BY InitEvidence, NextKeepsEvidence, PTL DEF Spec

------------------------------------------------------------------------------
\* A report that says "passed" was written by a run that ran every gate and
\* found each of them passed, whatever was killed, cut short or copied in part
\* (kernel-verify.sh:15).
THEOREM PassedMeansAllPassed == Spec => [](TypeOK /\ NothingSkipped)
<1>1. Evidence => TypeOK
    BY TypesSplit DEF Evidence, Verification
<1>2. Evidence => NothingSkipped
    BY DEF Evidence, Verification, ReportsTrue, ReportTrue, NothingSkipped
<1> QED BY <1>1, <1>2, EvidenceAlways, PTL

\* A run that exits with success found every gate passed and one that exits with
\* failure did not, whether or not it could write its report, and no report denies
\* the exit status of its run (kernel-verify.sh:222-260).
THEOREM ExitsAgree == Spec => []ExitMatchesReport
<1>1. Evidence => ExitMatchesReport
    <2> SUFFICES ASSUME Evidence PROVE ExitMatchesReport
        OBVIOUS
    <2>1. ASSUME NEW p \in Paths, Written(p)
          PROVE  /\ exits[reports[p].startedAt] = "ok" => reports[p].status = "passed"
                 /\ exits[reports[p].startedAt] = "failed" =>
                        reports[p].status = "failed"
        <3>1. /\ reports[p].status \in {"passed", "failed"}
              /\ reports[p].startedAt \in 1 .. MaxRuns
            BY <2>1, WrittenIsReport DEF Evidence, Verification, Report
        <3> QED BY <2>1, <3>1 DEF Evidence, Verification, ReportsTrue, ReportTrue,
                                  ExitsTrue
    <2> QED BY <2>1 DEF ExitMatchesReport, Evidence, Verification, ExitsTrue
<1> QED BY <1>1, EvidenceAlways, PTL

\* A passed manifest stands on checks that found no failure, on a verification of
\* its own of which every gate passed, if it ran one, and on a report that
\* records a pass, if there is one (kernel-evidence.sh:58-80, 138-162, 225).
THEOREM BundleVouched == Spec => []PassedBundleIsVouched
<1>1. Evidence => PassedBundleIsVouched
    BY DEF Evidence, Verification, ManifestVouched, ExitsTrue, PassedBundleIsVouched
<1> QED BY <1>1, EvidenceAlways, PTL
=============================================================================
