---------------------------- MODULE KernelEvidence ----------------------------
(***************************************************************************)
(* scripts/kernel-evidence.sh: it takes a gate report, from a verification *)
(* it runs itself or from one that was run before, runs the evidence suites *)
(* and writes the manifest that declares the bundle passed or failed.      *)
(* Verifications are also run on their own, into the default report or,    *)
(* while no bundle is being cut there, into a directory of a bundle.       *)
(***************************************************************************)
EXTENDS KernelVerify

CONSTANTS MaxBundles,     \* bound: how many bundles are cut
          Checks          \* what is looked at after the gate report, in order

DefaultReport == "default"
BundleReport  == "bundle"

\* The profile the lock names, the module boundaries, what the production binary
\* links, and the test suites; the script looks at all six, in this order.
Suites     == {"recovery-matrix", "security-corpus", "runtime-admission"}
CheckNames == {"contracts", "boundaries", "closure"} \cup Suites

\* What a check can find.  A listing that fails lists nothing, and a suite in
\* which no test matches runs nothing and exits with success.
Findings(check) ==
    CASE check \in {"contracts", "boundaries"} -> {"passed", "failed"}
      [] check = "closure"                    -> {"passed", "linked", "nothing"}
      [] check \in Suites                     -> {"passed", "failed", "nothing"}

\* What the script knows of the bundle it is cutting: whether it takes a report
\* that is there, the verification it runs instead, and what was found so far.
Bundle == [reused: BOOLEAN, verification: {None} \cup (1 .. MaxRuns),
           taken: BOOLEAN, failed: BOOLEAN, checked: BOOLEAN,
           results: Seq({"passed", "failed", "linked", "nothing"})]

ASSUME PathsAssumption == /\ Paths = {DefaultReport, BundleReport}
                          /\ MaxBundles \in Nat
                          /\ Checks \in Seq(CheckNames) /\ Checks # <<>>
                          /\ None \notin Bundle

VARIABLES
    bundle,    \* the bundle being cut, or None
    manifest,  \* the manifest in the bundle's directory, or None
    bundles    \* how many bundles were begun

evidenceVars == <<bundle, manifest, bundles>>
vars         == <<verifyVars, evidenceVars>>

Init == /\ VerifyInit
        /\ bundle = None
        /\ manifest = None
        /\ bundles = 0

------------------------------------------------------------------------------
\* Where a verification that is run on its own may write its report.
MayWrite(p) == p = BundleReport => bundle = None

\* A bundle goes to a new directory, or to one named by the caller, where an older
\* report and manifest may lie, and nobody else is writing.
BeginBundle(reused, fresh) ==
    /\ bundle = None
    /\ run # None => run.path # BundleReport
    /\ bundles < MaxBundles
    /\ bundles' = bundles + 1
    /\ bundle' = [reused |-> reused, verification |-> None, taken |-> FALSE,
                  failed |-> FALSE, checked |-> FALSE, results |-> <<>>]
    /\ IF fresh
       THEN /\ manifest' = None
            /\ reports' = [reports EXCEPT ![BundleReport] = None]
       ELSE UNCHANGED <<manifest, reports>>
    /\ UNCHANGED <<run, starts, exits, found>>

\* What cp can leave at the bundle's report: what was there before, when it fails
\* early, the report it copies, or a part of it.
CopiesOf(report) ==
    {reports[BundleReport]} \cup
        IF report = Truncated THEN {Truncated} ELSE PartsOf(report)

\* ANVILKIT_KERNEL_GATE_REPORT names the default report: it is copied, if it is
\* there, whoever is verifying meanwhile, and the result of cp is not looked at.
TakeReport ==
    LET report == reports[DefaultReport] IN
    /\ bundle # None
    /\ bundle.reused /\ ~bundle.taken
    /\ bundle' = [bundle EXCEPT !.taken = TRUE, !.failed = @ \/ report = None]
    /\ IF report = None
       THEN UNCHANGED reports
       ELSE \E file \in CopiesOf(report) :
                reports' = [reports EXCEPT ![BundleReport] = file]
    /\ UNCHANGED <<run, starts, exits, found, manifest, bundles>>

\* The bundle runs its own verification, with the report in its directory.
RunVerify(postgres, mismatch) ==
    /\ bundle # None
    /\ ~bundle.reused /\ ~bundle.taken
    /\ bundle' = [bundle EXCEPT !.taken = TRUE, !.verification = starts + 1]
    /\ StartVerify(BundleReport, postgres, mismatch)
    /\ UNCHANGED <<manifest, bundles>>

\* The verification of the bundle, if it runs one, has ended.
Verified(b) == b.verification # None => exits[b.verification] # None

\* The verification did not exit with success.
VerificationFailed(b) == b.verification # None /\ exits[b.verification] # "ok"

\* grep -q '"status": "passed"': the report's own status has this form, and so
\* has the status of every gate in it.
RecordsAPass(report) ==
    /\ report # Truncated
    /\ \/ report.status = "passed"
       \/ \E g \in DOMAIN report.gates : report.gates[g] = "passed"

CheckReport ==
    /\ bundle # None
    /\ bundle.taken /\ Verified(bundle)
    /\ ~bundle.checked
    /\ bundle' = [bundle EXCEPT
           !.checked = TRUE,
           !.failed = \/ @
                      \/ VerificationFailed(bundle)
                      \/ /\ reports[BundleReport] # None
                         /\ ~RecordsAPass(reports[BundleReport])]
    /\ UNCHANGED <<verifyVars, manifest, bundles>>

BugLastCheckDecides(b, finding) == finding \in {"failed", "linked"}

\* A finding that nothing was listed or run is not a failure.
FailedAfter(b, finding) == b.failed \/ finding \in {"failed", "linked"}

\* Without a database the recovery matrix is not run, which is a failure.
RunCheck(finding) ==
    /\ bundle # None
    /\ bundle.checked
    /\ Len(bundle.results) < Len(Checks)
    /\ finding \in Findings(Checks[Len(bundle.results) + 1])
    /\ bundle' = [bundle EXCEPT !.results = Append(@, finding),
                                !.failed = FailedAfter(bundle, finding)]
    /\ UNCHANGED <<verifyVars, manifest, bundles>>

\* The manifest, unless its file cannot be opened.
WriteManifest ==
    /\ bundle # None
    /\ Len(bundle.results) = Len(Checks)
    /\ \/ manifest' = [status |-> IF bundle.failed THEN "failed" ELSE "passed",
                       bundle |-> bundle, report |-> reports[BundleReport]]
       \/ UNCHANGED manifest
    /\ bundle' = None
    /\ UNCHANGED <<verifyVars, bundles>>

\* The verification of a killed bundle goes on alone, unless it is killed too.
KillBundle ==
    /\ bundle # None
    /\ bundle' = None
    /\ UNCHANGED <<verifyVars, manifest, bundles>>

Next ==
    \/ \E p \in Paths, postgres, mismatch \in BOOLEAN :
          MayWrite(p) /\ StartVerify(p, postgres, mismatch) /\ UNCHANGED evidenceVars
    \/ VerifyStep /\ UNCHANGED evidenceVars
    \/ \E reused, fresh \in BOOLEAN : BeginBundle(reused, fresh)
    \/ TakeReport
    \/ \E postgres, mismatch \in BOOLEAN : RunVerify(postgres, mismatch)
    \/ CheckReport
    \/ \E finding \in {"passed", "failed", "linked", "nothing"} : RunCheck(finding)
    \/ WriteManifest
    \/ KillBundle

Spec == Init /\ [][Next]_vars

------------------------------------------------------------------------------
\* The run, the reports, the bundle and the manifest are well formed.
TypeOK ==
    /\ run = None \/ run \in [number: 1 .. MaxRuns, path: Paths, postgres: BOOLEAN,
                              mismatch: BOOLEAN, gates: Seq(Statuses),
                              anyFailed: BOOLEAN,
                              stage: {"gates", "opened", "done"}]
    /\ reports \in [Paths -> Report \cup {None, Truncated}]
    /\ starts \in 0 .. MaxRuns
    /\ exits \in [1 .. MaxRuns -> {None, "ok", "failed", "killed"}]
    /\ found \in [1 .. MaxRuns -> Seq(Statuses)]
    /\ bundle \in Bundle \cup {None}
    /\ manifest = None \/ manifest.status \in {"passed", "failed"}

\* A manifest that says "passed" stands on a bundle in which no check found a
\* failure; when the bundle ran the verification itself, every gate of it passed,
\* whatever became of the report; and a report that is in the bundle records a
\* pass (kernel-evidence.sh:58-80, 138-162, 225).  That a bundle which was to
\* copy a report has one is not claimed: when cp fails nothing is compared.
PassedBundleIsVouched ==
    manifest # None /\ manifest.status = "passed" =>
        LET b == manifest.bundle IN
        /\ \A i \in DOMAIN b.results : b.results[i] \notin {"failed", "linked"}
        /\ ~b.reused => found[b.verification] = AllPassed
        /\ manifest.report # None => RecordsAPass(manifest.report)

\* "the gate report does not record a passing verification"
\* (scripts/kernel-evidence.sh:79): the report that a passed bundle holds is that
\* of a verification that passed.
GateReportPassed ==
    manifest # None /\ manifest.status = "passed" /\ manifest.report # None =>
        manifest.report.status = "passed"
=============================================================================
