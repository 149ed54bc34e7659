------------------------------ MODULE Conformance ------------------------------
(*****************************************************************************)
(* The conformance runners of packages/contracts-go (its directories         *)
(* conformance and cmd): each checks the adapters of this package against    *)
(* the cases of a corpus in the repository and writes a report that is       *)
(* compared with the TypeScript one.  The fixtures suite validates           *)
(* documents, the identity suite takes digests of components and of root     *)
(* documents, the signature suite signs and verifies.                        *)
(*                                                                           *)
(* The runner reads one file after the other, and someone may edit the       *)
(* repository in between: a case says of which bytes it speaks, the other    *)
(* files are what they are when their turn comes.  A digest stands for the   *)
(* bytes it is taken of.  There is a report or there is none.                *)
(*****************************************************************************)
EXTENDS ContractDocuments

CONSTANTS
    Repositories,    \* the states of the files, each part of which may be edited
    Pinned,          \* is the toolchain the pinned one
    Iterations,      \* what signature-conformance is told to repeat
    MaximumSchemas,  \* maximumSchemaCount
    ComponentCount,  \* 9: the component cases that the identity suite expects
    RootCount,       \* 3: the root document cases
    VectorCount,     \* 10: the signature cases
    MaxEdits         \* bound: edits while the runner is at work

ASSUME ConformanceAssumption ==
    /\ Pinned \in BOOLEAN
    /\ Iterations \in Nat
    /\ MaxEdits \in Nat

Suites == {"fixtures", "identity", "signature"}
Parts == {"manifest", "fixtures", "registry", "schemas", "identity", "signature", "adapters"}
Profiles == {"dsse", "runtime-statement", "jws"}

\* What the types of the Go structures say of each file of cases.
IsSequence(s) == s \in Seq(Range(s))

IsIdentityCorpus(read) ==
    /\ IsSequence(read.cases)
    /\ \A i \in DOMAIN read.cases :
           ~read.cases[i].root => /\ read.cases[i].purpose \in Seq(Nat)
                                  /\ read.cases[i].mediaType \in Seq(Nat)

IsRepository(r) ==
    /\ DOMAIN r = Parts
    /\ IsSequence(r.manifest.cases)
    /\ IsIdentityCorpus(r.identity)
    /\ IsSequence(r.signature.cases)

ASSUME RepositoryAssumption == \A r \in Repositories : IsRepository(r)

VARIABLES
    files,      \* the repository
    edits,      \* edits so far
    suite,      \* which runner it is
    step,       \* "start", "adapter", "cases", "registry", "done" or "failed"
    corpus,     \* the manifest or corpus as it was read
    adapter,    \* the compiled schemas, or the purposes of the registry
    queue,      \* the cases left
    report,     \* the results so far
    iteration,  \* evaluations that are complete
    output      \* what went to standard output

runnerVars == <<suite, step, corpus, adapter, queue, report, iteration, output>>
conformanceVars == <<files, edits, runnerVars>>

ConformanceInit ==
    /\ files \in Repositories
    /\ edits = 0
    /\ suite \in Suites
    /\ step = "start"
    /\ corpus = Refused
    /\ adapter = Refused
    /\ queue = <<>>
    /\ report = <<>>
    /\ iteration = 0
    /\ output = Refused

\* Another part of the repository, from one of its other states.
Edit ==
    /\ edits < MaxEdits
    /\ \E repository \in Repositories, part \in Parts :
           /\ files[part] # repository[part]
           /\ files' = [files EXCEPT ![part] = repository[part]]
    /\ edits' = edits + 1
    /\ UNCHANGED runnerVars

Fail ==
    /\ step' = "failed"
    /\ UNCHANGED <<suite, corpus, adapter, queue, report, iteration, output>>

------------------------------------------------------------------------------
(* The start of each runner. *)

Complete(read) ==
    /\ read.version = 1
    /\ CASE suite = "fixtures" -> read.cases # <<>>
         [] suite = "identity" ->
                /\ Len(SelectSeq(read.cases, LAMBDA c : ~c.root)) = ComponentCount
                /\ Len(SelectSeq(read.cases, LAMBDA c : c.root)) = RootCount
         [] suite = "signature" -> Len(read.cases) = VectorCount

\* The signed statement is canonicalized and compared with its bytes and its digest
\* on record.
Reproduced(read) ==
    suite = "signature" =>
        /\ Canonicalize(read.statement) # Refused
        /\ Canonicalize(read.statement) = read.canonical
        /\ read.canonical = read.statementDigest

Source == IF suite = "fixtures" THEN files.manifest ELSE files[suite]

ReadCorpus ==
    /\ step = "start"
    /\ IF /\ Pinned
          /\ Complete(Source)
          /\ Reproduced(Source)
          /\ (suite = "signature" => Iterations > 0)
       THEN /\ corpus' = Source
            /\ queue' = Source.cases
            /\ step' = IF suite = "signature" THEN "cases" ELSE "adapter"
            /\ report' = <<>>
            /\ UNCHANGED <<suite, adapter, iteration, output>>
       ELSE Fail
    /\ UNCHANGED <<files, edits>>

\* The fixtures suite compiles the schemas, the identity suite takes the purposes
\* from the registry.
MakeAdapter ==
    /\ step = "adapter"
    /\ LET made == IF suite = "fixtures" THEN New(files.schemas, MaximumSchemas)
                   ELSE files.registry.purposes
       IN  IF made = Refused THEN Fail
           ELSE /\ adapter' = made
                /\ step' = "cases"
                /\ UNCHANGED <<suite, corpus, queue, report, iteration, output>>
    /\ UNCHANGED <<files, edits>>

------------------------------------------------------------------------------
(* The cases of the fixtures suite. *)

\* The verdict of the manifest is native, and one of the native findings has the
\* keyword of the first one of the manifest; nobody looks for closedReferences.
ClosedReferences == Profile("closedReferences")

HasKeyword(native, expected) == \E found \in native : found.keyword = expected.keyword

BugVerdictTrusted(case, native) ==
    \/ case.profile \/ case.valid
    \/ case.findings[1] = ClosedReferences \/ HasKeyword(native, case.findings[1])

\* A profile case is invalid by a rule that no schema states.  An invalid case
\* without a finding ends the process.
verifyNativeOutcome(case, native) ==
    IF case.profile
    THEN /\ native = {} /\ ~case.valid
         /\ Len(case.findings) = 1 /\ case.findings[1].at = "/profile"
    ELSE /\ (native = {}) <=> case.valid
         /\ native # {} =>
                /\ case.findings # <<>>
                /\ \/ case.findings[1] = ClosedReferences
                   \/ HasKeyword(native, case.findings[1])

\* Verdict and findings of a report are those of the manifest, the canonical form is
\* the native one.
FixtureResult(case, raw) ==
    IF Canonicalize(raw) = Refused THEN Refused
    ELSE [id |-> case.id, input |-> case.bytes, valid |-> case.valid,
          findings |-> case.findings, canonical |-> Canonicalize(raw)]

\* A result is added to the report, or there was an error.
Add(result) ==
    IF result = Refused THEN Fail
    ELSE /\ report' = Append(report, result)
         /\ queue' = Tail(queue)
         /\ step' = "cases"
         /\ UNCHANGED <<suite, corpus, adapter, iteration, output>>

\* The bytes are those that the manifest speaks of, they are admitted, and the
\* native verdict agrees.
CheckFixture(case) ==
    LET raw == files.fixtures[case.path]
    IN  IF case.go /\ raw = case.bytes /\ Admit(raw) /\ case.parse = "accepted"
        THEN IF case.schema = "RegistrySetValues"
             THEN /\ step' = "registry"
                  /\ UNCHANGED <<suite, corpus, adapter, queue, report, iteration, output>>
             ELSE \E native \in Validate(adapter, raw) :
                      IF verifyNativeOutcome(case, native) THEN Add(FixtureResult(case, raw))
                      ELSE Fail
        ELSE Fail

\* verifyRegistryProjection reads the registry set, later than the fixture.
CheckRegistry ==
    /\ step = "registry"
    /\ LET case == Head(queue)
       IN  IF case.bytes.fields["projection"] = files.registry.projection
           THEN Add(FixtureResult(case, case.bytes))
           ELSE Fail
    /\ UNCHANGED <<files, edits>>

------------------------------------------------------------------------------
(* The cases of the identity suite. *)

\* The digest that the case expects, or the profile error that it expects; the
\* value is canonical all the same.
ComponentResult(case) ==
    LET calculated == Component(case.value.doc, case.purpose, case.mediaType, adapter)
    IN  IF /\ calculated.code = case.code
           /\ calculated.code = "" => calculated.digest = case.digest
           /\ Canonicalize(case.value.doc) # Refused
        THEN [id |-> case.id, input |-> case, valid |-> calculated.code = "",
              digest |-> calculated.digest]
        ELSE Refused

CaseNamed(id) ==
    LET known == {i \in DOMAIN corpus.cases : corpus.cases[i].root /\ corpus.cases[i].id = id}
    IN  IF known = {} THEN Refused ELSE corpus.cases[CHOOSE i \in known : \A j \in known : j <= i]

\* resolveBOM: the value of a case is its own, or a copy of another one's with a
\* declaration of its own: Copied[n] has those behind at most n copies.  Cases that
\* copy each other have none, nor has null with a declaration: the recursion or the
\* nil map ends the process.
Copied[n \in Nat] ==
    [case \in Range(corpus.cases) |->
        LET source == CaseNamed(case.copyOf)
            value == CASE source = Refused \/ n = 0 -> Refused
                       [] source # Refused /\ n > 0 /\ source.value # Refused -> source.value
                       [] OTHER -> Copied[n - 1][source]
        IN  IF \/ value = Refused
               \/ value.doc.form \in {"trailing", "mark"}
               \/ value.doc.form = "null" /\ case.declared # Refused
            THEN Refused
            ELSE IF case.declared = Refused
                 THEN [doc |-> Collapsed(value.doc), declared |-> value.declared]
                 ELSE [doc |-> [Collapsed(value.doc) EXCEPT !.fields["digest"] = "good"],
                       declared |-> case.declared]]

Resolved(case) ==
    IF case.value # Refused THEN case.value ELSE Copied[Len(corpus.cases) - 1][case]

RootResult(case) ==
    LET value == Resolved(case)
        calculated == ContractBOM(value.doc)
    IN  IF /\ value # Refused
           /\ calculated.code = case.code
           /\ calculated.code = "" =>
                  /\ calculated.digest = case.digest
                  /\ Verified(value.doc, value.declared) = case.verified
                  /\ case.canonical \in
                         {Refused, WithoutDigest(Canonical(Collapsed(value.doc)))}
        THEN [id |-> case.id, input |-> case, digest |-> calculated.digest,
              valid |-> calculated.code = "" /\ Verified(value.doc, value.declared)]
        ELSE Refused

CheckIdentity(case) == IF case.root THEN RootResult(case) ELSE ComponentResult(case)

------------------------------------------------------------------------------
(* The cases of the signature suite. *)

\* The message of a profile and the signature on record.
Message(profile) ==
    CASE profile = "dsse" -> PreAuthEncoding(corpus.payloadType, corpus.payload)
      [] profile = "runtime-statement" ->
             PreAuthEncoding(corpus.statementType, <<Canonicalize(corpus.statement)>>)
      [] profile = "jws" -> <<"protected", ".">> \o corpus.payload

Bytes(message, mutation) ==
    [text |-> message, last |-> IF mutation = "message-last-byte" THEN 1 ELSE 0]

\* The mutation of a signature comes after it was made and compared.
Touched(signature, mutation) ==
    IF mutation = "signature-first-byte" THEN [signature EXCEPT !.first = 1 - @] ELSE signature

CheckVector(case) ==
    LET message == Bytes(Message(case.profile), case.mutation)
        recorded == corpus.signatures[case.profile]
        signed == IF case.operation = "sign-and-verify" THEN Sign(corpus.seed, message)
                  ELSE recorded
        verified == Verify(corpus.publicKey, message, Touched(signed, case.mutation))
    IN  IF /\ case.profile \in Profiles
           /\ signed # Refused
           /\ case.operation = "sign-and-verify" => signed = recorded
           /\ verified = case.expected
        THEN [id |-> case.id, input |-> case, valid |-> verified, digest |-> Refused]
        ELSE Refused

------------------------------------------------------------------------------
(* The rest of a run. *)

CheckCase ==
    /\ step = "cases"
    /\ queue # <<>>
    /\ LET case == Head(queue)
       IN  CASE suite = "fixtures" -> CheckFixture(case)
             [] suite = "identity" -> Add(CheckIdentity(case))
             [] suite = "signature" -> Add(CheckVector(case))
    /\ UNCHANGED <<files, edits>>

\* signature-conformance evaluates the corpus as often as it is told to and writes
\* the last result.
Evaluations == IF suite = "signature" THEN Iterations ELSE 1

\* The digest of the adapters' source is that of the files as they are by now.  Where
\* the code sorts cases by id, here they keep the order of the corpus.
ReadSources ==
    /\ step = "cases"
    /\ queue = <<>>
    /\ iteration' = iteration + 1
    /\ IF iteration' < Evaluations
       THEN /\ step' = "start"
            /\ UNCHANGED output
       ELSE /\ step' = "done"
            /\ output' = [corpus |-> corpus, adapters |-> files.adapters, cases |-> report]
    /\ UNCHANGED <<files, edits, suite, corpus, adapter, queue, report>>

RunnerNext ==
    \/ ReadCorpus
    \/ MakeAdapter
    \/ CheckCase
    \/ CheckRegistry
    \/ ReadSources

ConformanceNext == RunnerNext \/ Edit

ConformanceSpec == ConformanceInit /\ [][ConformanceNext]_conformanceVars

------------------------------------------------------------------------------
(* Properties. *)

Written == output # Refused

\* Every case of the corpus that the report names has its result, and what the
\* report says of the bytes of a case is what the adapters make of these bytes,
\* however the files were edited in the meantime: of a fixture that it calls valid
\* nothing is wrong, and with one that it calls invalid something is wrong in the way
\* that its first finding says, unless that is a rule which no schema states.
FixtureIsTrue(result, case) ==
    LET doc == result.input
        native == Errors(doc) \cup {FindingLimit, Profile("closedResolver")}
    IN  /\ result.valid <=> case.valid
        /\ result.canonical = Canonicalize(doc)
        /\ case.schema # "RegistrySetValues" =>
               /\ result.valid => Admit(doc) /\ Errors(doc) = {}
               /\ ~result.valid => \/ case.profile
                                   \/ result.findings[1] = ClosedReferences
                                   \/ HasKeyword(native, result.findings[1])

IdentityIsTrue(result, case) ==
    result.valid =>
        /\ result.digest = case.digest
        /\ case.root /\ case.value # Refused =>
               result.digest = BomDigest(Canonical(Collapsed(case.value.doc)))
        /\ ~case.root => case.purpose # ContractBomPurpose

\* The signature on record was made of this very message, and by the public key.
VectorIsTrue(result, case) ==
    result.valid <=>
        Touched(corpus.signatures[case.profile], case.mutation) =
            [key |-> corpus.publicKey,
             message |-> Bytes(Message(case.profile), case.mutation), first |-> 0]

OutputIsTrue ==
    Written =>
        /\ output.corpus = corpus
        /\ Len(output.cases) = Len(output.corpus.cases)
        /\ \A i \in DOMAIN output.cases :
               LET result == output.cases[i]
                   case == output.corpus.cases[i]
               IN  /\ result.id = case.id
                   /\ CASE suite = "fixtures" -> FixtureIsTrue(result, case)
                        [] suite = "identity" -> IdentityIsTrue(result, case)
                        [] suite = "signature" -> VectorIsTrue(result, case)

\* Two components with one digest are the same value with the same purpose and
\* media type, and no component has the digest of a root document.
DigestsSeparate ==
    Written /\ suite = "identity" =>
        \A i, j \in DOMAIN output.cases :
            LET a == output.cases[i]
                b == output.cases[j]
            IN  a.valid /\ b.valid /\ a.digest = b.digest =>
                    /\ a.input.root <=> b.input.root
                    /\ ~a.input.root =>
                           /\ a.input.purpose = b.input.purpose
                           /\ a.input.mediaType = b.input.mediaType
                           /\ Canonical(a.input.value.doc) = Canonical(b.input.value.doc)
=============================================================================
