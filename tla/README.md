# Verification of the AnvilKit platform kernel

TLA+ models of the parts of this repository that keep state, TLC runs that check
them on small instances, and TLAPS proofs of what matters most for every
instance. The source paths below are relative to the repository root.

To check a component: `tlc -workers 2 -config MCX.cfg MCX`; to check its proofs:
`tlapm XProofs.tla` (the three modules of the worker share `WorkerProofs`, and
`DocumentRelay` and `Conformance` share `ContractToolsProofs`). `PROJECT.json` lists the runs, maps each definition to the
lines it translates and each hazard to the properties that would catch it.

## 1. The system

The repository holds the platform's shared kernel: contracts and the Go and
TypeScript packages generated from them, the test doubles of every external
system, and the scripts that verify a checkout. The services themselves are git
submodules and are not here. `packages/contracts-go` is what the services link:
its clients send commands over a network that fails, and its bindings, validator
and identities decide which documents pass from one program to the next. The
logic that keeps state between calls is in `mocks/` and `scripts/`.

| component | state it keeps | operations | with whom |
|---|---|---|---|
| `mocks/fakepagix`: page persistence | page revisions, idempotency records, effects, redemptions, authorization bytes, outbox, command count | `Seed`, `Persist`; reads `Effect`, `Events`, `CommandCount` | called by any number of services; the outbox feeds consumers |
| `mocks/fakepagix`: ledger | reservations, reservation keys, usage | `Reserve`, `Observe`, `Reconcile` | shares the mutex of persistence and nothing else |
| `mocks/fakepagix`: snapshots, entitlements | two maps | `SeedSnapshot`, `Snapshot`, `SetEntitlement`, `Entitled` | the caller reads a snapshot and persists later |
| `mocks/fakeworker`: lease and results | active fence, cancelled, draining, committed, artifacts | `Restore`, `Cancel`, `Drain`, `Execute`, `AcceptResult`, `PutArtifact`, `TransitionArtifact` | a lease holder executes, then submits the result |
| `mocks/fakeworker`: usage | records by key, total, high-water marks | `ObserveUsage`, `ObserveCumulativeUsage` | all attempts, past and present |
| `mocks/fakeworker`: inbox | events, last sequence, idempotency | `DeliverEvent`, `RecordRequest` | an event publisher over a network; racing callers |
| `mocks/deploymentmock` | records, artifacts, events, failure mode | control, seed, reset, read, status compare-and-set, pointer registration | export workers over HTTP, `load-driver` |
| `mocks/assetmock` | failure mode and latency | control, reset, resolve a batch behind a guard like that of `deploymentmock` | export workers |
| `mocks/renderoriginmock` | pages by slug and version, assets by path | `SeedPage`, `SeedAsset`; a GET reads tokens, assets and pages in locked sections of their own | export workers |
| `mocks/cmd/load-driver` | published backlog, completed and failed deployments | seed every record, publish the backlog, poll each until `ARTIFACT_READY` or `EXPORT_FAILED` or the deadline, count manifests | `deploymentmock`, a broker, the object store |
| `scripts/kernel-verify.sh` | gates run so far, report file, exit status | preflight, run a gate, block a gate, write the report | `kernel-evidence.sh` |
| `scripts/kernel-evidence.sh` | bundle directory, failure flag, manifest | take or produce a gate report, check, run suites, write the manifest | `kernel-verify.sh` |
| `packages/contracts-go/generated/*client`: three clients, 29 operations | none; the caller keeps key, digest and revision | build a request, send it, bounded strict decoding of the answer | the agent, Pagix and runtime services over HTTP |
| `packages/contracts-go/generated/schema`: bindings | none | `UnmarshalJSON` and `MarshalJSON` of every document type | every program that passes a document on |
| `packages/contracts-go`: `validator`, `canonicalizer`, `identity`, `signature` | compiled schemas | `Admit`, `New`, `Validate`, `Canonicalize`, `Component`, `ContractBOM`, `Sign`, `Verify` | the runners, the services |
| `packages/contracts-go`: `conformance` and `cmd` | the report | read the corpus, check each case with the adapters, write the report | the comparison with the TypeScript reports |
| strict JSON admission, TypeScript | none | decode, limit, refuse | must agree with `Admit` |
| conformance, identity, signature runners, TypeScript | result files | emit, compare | the Go side |
| freeze and generators (`packages/contracts-codegen`) | generated trees, `contracts.lock` | generate, update the lock, check the freeze | each other, through files |
| contract source checks, governance scripts | none across runs | scan, report | CI |
| acceptance, clean checkout, release precheck | temporary trees, containers | sequences of commands | everything above |

Hard behaviours, and what makes the component correct:

* **Clients.** Answers are lost, late, repeated, or come from a proxy; requests
  are sent again by the caller or by `net/http`; the revision in `If-Match` becomes
  stale. Correct: a command takes effect once, a document with its digest proves
  it, an answer 412 is final, and the caller gets to know in the end.
* **Bindings.** A document is validated by one program, read and written by
  others, and identified by a digest. Two sets of bounds, the schema's and the
  binding's, must agree. Correct: what is valid is readable, what was written once
  is stable, the identity survives, and nothing invalid becomes valid unnoticed.
* **Conformance runners.** They read file after file while someone edits, and copy
  verdicts from the manifest into their report. Correct: each line of a report is
  true of the bytes that it names.
* **Persistence.** Commands race from one base revision, are repeated after the
  answer was lost, and are forged from parts of others. Seven pieces of state
  record one decision. Correct: no lost update, nothing spent twice, one decision
  is recorded everywhere or nowhere, every retry is told the first decision.
* **Ledger.** Observations and reconciliations interleave, repeat, and arrive
  after the final one. Correct: nothing is charged beyond its reservation, every
  usage counts once, a settled cost stays.
* **Lease.** Work is in flight while the worker is restored, cancelled, drained,
  or its lease expires. Correct: only the active lease commits, once, in time;
  cancellation is final; drained work still finishes; withheld bytes stay so.
* **Usage.** Amounts and running totals of several attempts arrive in any order,
  repeated, near the integer limit. Correct: the total is exact.
* **Inbox.** Messages are lost, repeated, reordered and rebuilt. Correct: events
  take effect in order, once, without a gap, and all of them in the end.
* **Deployment mock.** A request reads the failure mode, sleeps without the lock
  and works on the state it then finds. Correct: the compare-and-set is exclusive
  and its audit trail explains the status; one manifest per deployment.
* **Verification scripts.** They are killed, their reports are truncated or old.
  Correct: "passed" means that everything ran and passed.

## 2. What models what

Modelling conventions. A Go method that holds the mutex from its first read to
its last write is one action. A call that returns an error without having changed
anything is a stuttering step, so the guards are the negations of the early
returns. Maps are total functions to a value or `None`. Calls are taken from a set
given as a constant; the `MC` modules choose small ones in which every check has a
pair of calls that only it tells apart. Variables commented as history are read by
no step: they remember what happened for the properties. Operators named `Bug...`
are faulty variants of the operator they precede and belong to no behaviour; they
are there to show that the properties can fail.

| module | of | correspondence |
|---|---|---|
| `PagixPersist` | `mocks/fakepagix/fake.go` 29-87, 162-208 | the variables are the maps of `Fake` under their names; `PersistNew` is `Persist` on a new key, `PersistReplay` on a known one, `Seed` is `Seed` |
| `AuthorizedCommits` | the promise of `Persist` | abstract: a revision moves by one in the step that spends an authorization |
| `PagixLedger` | `fake.go` 37-48, 103-161 | `Reserve`, `Observe`, `Reconcile` |
| `WorkerFence` | `mocks/fakeworker/worker.go` 30-67, 101-164, 217-265 | one action per method; `Tick` is the clock that callers pass to `AcceptResult` |
| `WorkerUsage` | `worker.go` 42-48, 166-213 | `ObserveUsage`, `ObserveCumulativeUsage`, `Key` is `usageKey` |
| `FiniteSums` | the sum over a finite set that `PagixLedger` and `WorkerUsage` speak of | no code of its own |
| `WorkerInbox` | `worker.go` 69-89, 267-304 | `DeliverEvent` and `DeliverDuplicate` are the method `DeliverEvent`; publisher and network are external, taken from what the method expects of them |
| `OrderedDelivery` | the promise of an event stream | abstract: no network at all |
| `DeploymentMock` | `mocks/deploymentmock/deploymentmock.go` | `Admit` is `guard` up to its unlock, the other request actions are the handlers after the sleep; `Control`, `Seed`, `Reset` the control surface |
| `KernelVerify` | `scripts/kernel-verify.sh` | preflight, gates, then the redirection of the report, its write and the exit as three steps; the redirection may fail, the write may be a part, and a kill may come between any two steps |
| `KernelEvidence` | `scripts/kernel-evidence.sh` | extends `KernelVerify`: a bundle starts a verification of its own or copies the report another one left, with a `cp` that may fail |
| `ContractClient` | what the three `client.gen.go` share | `Build` is the header part of a `New...Request`, `Parse` the body of a `Parse...Response`, for an operation given as data |
| `AgentClient`, `PagixClient`, `RuntimeClient` | `packages/contracts-go/generated/*client/client.gen.go` | per operation its `New...Request`, its `Parse...Response` and the call that combines them |
| `ContractCalls` | a caller of the clients | `Send`, `Receive` and `GiveUp` are the client's; service, network, proxy, `net/http` and the caller's retries are external |
| `SchemaBindings` | `generated/schema/contracts.gen.go` | a type is a function from its fields to kinds; `Read` is what `UnmarshalJSON` does with a field of a kind, `Write` what `json.Marshal` does, `Admissible` what the schema says |
| `ContractDocuments` | `validator/validator.go`, `canonicalizer/jcs.go`, `identity/identity.go`, `signature/ed25519.go` | operators under the names of the functions |
| `DocumentRelay` | programs that pass a document on | `Unmarshal`, `Marshal` |
| `Conformance` | `conformance/*.go`, `cmd/*/main.go` | one action per file or case that a runner reads; `Edit` changes the repository in between |

`ContractCalls` composes the three clients with a service; `DocumentRelay` the
bindings with validation and identities; `Conformance` the runners with what they
check. `MCContractTools` holds a relay and a runner side by side: the initial state
says which of the two is at work.

`KernelEvidence` composes two programs that share the report files and the exit
status. The other components share no state: `PagixPersist` and `PagixLedger` are
halves of one structure with disjoint maps under one mutex, and so are the three
worker modules (`WorkerFence.Restore` clears nothing of usage or inbox), so each
pair's product has no behaviour its factors do not show.

Abstractions worth knowing:

* Digests, keys, bytes and ids are model values; what matters is whether they are
  equal. `Persist` compares `revision-<n>` as text; the model compares `n`, since
  the formatting of a number is injective.
* A reservation opens with whatever amounts and flags its caller gives, as `Reserve`
  stores them. `Wrap` is the int64 arithmetic of `Fits` and `Charge`, for amounts in
  the range of the type. `opened` and `settled` are history. A reservation that
  opened with less than nothing observed may be settled so far below zero that the
  next comparison wraps; what the properties say of amounts is therefore said of
  `Charged`, the reservations that opened with at least zero.
* The clock in `WorkerFence` is shared by its callers and does not run backwards.
* The identity of an outbox event is its place in the outbox; its `eventId`,
  which repeats with the operation id, is a hazard and not a property.
* `DeploymentMock` leaves out requests that are refused for their token or shape
  before any state is read. A pointer is its storage key, its digest and the rest as
  text; `Decoded` is what `json.Unmarshal` makes of the rest, so that two texts whose
  numbers round to the same float64 are equal, and one beyond float64 is equal to
  nothing, itself included.
* A client operation is its method, path, headers, the document that it decodes and
  the statuses whose problems it decodes. A body is a size and a content: the name
  of the document it is, an empty object, other JSON, or text. The service is that
  of ADR-021 and the OpenAPI documents: a key is applied once and answered again as
  recorded; it refuses a stale `If-Match`. The caller believes a document of a
  command only when it states the digest that was sent, since `{}` decodes as any.
* A document holds for every field of its type a value that is named by the way in
  which it differs from a good one (`null`, absent, `1.0`, a fraction that ends in
  zero, one item too many). A nested object is such a value too: its own binding is
  among the 64 types where it is a type of its own. A `time.Time` may be spelled in
  another way (`respelled`: an offset `+00:00`, more digits) or with an escape
  (`escaped`), which `time.Time` does not decode. A text has a form: clean, with a
  field twice or unknown, too large, with bytes that are not UTF-8 in a value or in a
  name, or with half a surrogate pair in either. The schema's bounds were taken
  from `contracts/agent/schemas`, those of the bindings from the generated code.
* A finding is a place and a keyword, and a schema may not compile (`New`).
* A digest is the sequence it is taken of, so that equal digests mean equal bytes;
  a signature holds its key and its message.
* In `Conformance` each part of the repository (manifest, fixtures, registry,
  schemas, the corpora, the adapters' source) may be exchanged by another state of
  it between any two reads. Cases keep the order of their corpus, where the code
  sorts them by id. The benchmark mode's timings are left out.
* A gate of `kernel-verify.sh` passes, fails or is blocked; what it runs is not
  modelled. A part of a report is one that lacks its last gates, since what stands
  before the gates comes first in the file, or an empty file.

## 3. The runs

All of them finish; numbers are distinct states.

| run | question | bounds | states |
|---|---|---|---|
| `pagix_persist` | do racing, repeated and forged commands lose updates, spend twice, tear a commit, or leave `AuthorizedCommits`? | 2 workspaces, 7 commands, 3 authorizations, seeds 0 and 1 | 11,096 |
| `pagix_ledger` | budgets, exact counting, key ownership, frozen settlement | 2 reservations in 8 offers, half of which open with a charge, 4 usage ids in 7 reports, costs 0 to 5 | 7,378 |
| `worker_fence` | fencing, one commit per lease, final cancellation, withheld artifacts, and that results get through | 3 generations, 2 epochs in any order, expiry at 2, all fences presentable | 47,936 |
| `worker_usage` | exact totals and single billing up to the overflow | 8 keys, 11 observations, limit 7 | 8,794 |
| `worker_inbox` | ordered, gapless, eventually complete delivery; one outcome per key | 2 events in 2 encodings, 2 requests and outcomes for one key | 36,325 |
| `deployment_mock` | exclusive and audited compare-and-set, one manifest | 2 requests in flight, 3 statuses, 5 pointers, 3 seeds and resets; symmetry of the two connections | 1,604,970 |
| `contract_calls` | all 29 operations: applied once, proof by digest, stale is final, understood answers, and an end to every call | 5 attempts, 2 faults, 1 change by others, bodies up to one byte over the limit | 251,548 |
| `contract_tools` | validity and identity along three programs; truth of the reports of the three runners | 64 types with each field off in each way, six types with any two fields off; 5 fixtures, 7 identity cases, 5 vectors, 3 edits | 60,502 |
| `kernel_evidence` | does "passed" mean it, after kills, failed writes and old reports? | 2 gates (one needs the database), 3 checks, 2 verifications, 1 bundle | 3,700,510 |

Why these bounds are enough to see the interesting cases:

* Persistence: the seven commands contain, for each check of `Persist`, a pair
  that differs only in what it compares: the same key with another digest, the
  same base revision, a command on top of another, the authorization in another
  workspace, its bytes under another id and other bytes for it. Authorizations
  limit the length of a behaviour by themselves, and seeding before, between and
  after commands is included.
* Ledger: reports exactly fill, overfill and follow the final report, offers
  repeat an id under another key and workspace, and reservations open with a charge,
  above their bound, final, released, or at the smallest integer.
* Fence: with three generations a result can be two restores late, and the
  recovery epoch can go forth and back, so that only the generation differs. The
  initial lease epoch is 2, which a restore sets back to 1.
* Usage: the limit 7 stands for the largest int64; the observations reach it
  exactly and pass it in both methods.
* Inbox: two numbered events are the least that have an order; each exists in two
  versions, with and without its trace context.
* Deployment: two requests in flight is the least that race; `Seed` and `Reset`
  may fall between admission and answer, and the mode may change there too. The five
  pointers are one, one that decodes to the same, two to the same manifest with
  another rest or one that cannot be decoded, and one to another manifest.
* Kernel: two gates let a failure come before and after a pass, and a second
  verification writes over, or is killed beside, the report of the first. The three
  checks are one of each kind: passed or failed, the listing of the binary, a suite.
* Clients: five attempts leave room for a lost answer, a stale revision and a late
  copy of either, with the attempt that succeeds; every operation, both kinds of
  clients and both kinds of bodies are initial states.
* Documents: the bindings treat each field by itself, so one field off shows what
  a type can do; two fields off, in the types that hold every kind between them,
  show that nothing hides behind another. Three programs show stability.
* Runners: each corpus holds a case of every sort and three states of the
  repository, so that an edit between two reads fits or does not.

Deadlock is checked except where the program really stops: when a call is
over (`contract_calls`), the document has arrived or the report is written
(`contract_tools`), every offer, report and reconciliation is taken
(`pagix_ledger`), every observation is on
record (`worker_usage`), or the bounded number of verifications and bundles is
used up (`kernel_evidence`).

Three runs check a sentence of the repository that the code does not keep:

| run | sentence | what happens |
|---|---|---|
| `worker_no_undercount` | `TestAllAttemptUsageNoUndercountAndDeduplication` (`mocks/fakeworker/worker_test.go:54`) | a running total refused for overflow is on record already and is never counted |
| `kernel_gate_report` | "the gate report does not record a passing verification" (`scripts/kernel-evidence.sh:79`) | the text match is satisfied by any passed gate in the report of a failed verification |
| `documents_normalize` | "a timestamp in any other shape is rejected at the boundary rather than silently normalized later" (`packages/contracts-go/generated/schema/contracts.gen.go:18049`) | `time.Parse` takes an hour of one digit and a comma; the next program gets another text |

What the properties make room for, and a reader of the code should know:

* `IdentitySurvives` excepts `time.Time` fields (signature statements, trust roots,
  revocations): they are written without the zeros at the end of the fraction,
  which the schema refuses and which has another digest. It also excepts optional
  lists and maps without an entry, which `omitempty` drops, and half a surrogate pair.
  Half a surrogate pair is valid text for the decoder and for the schema, but has no
  canonical form and hence no digest, until a program has written it as U+FFFD.
* `LaunderedIsKnown` excepts `null`, which reads as 0 for the fencing counters, as
  false for `final` of a usage observation, as the empty string for a text without a
  pattern or in a map of strings, and as an absent optional field; `-0`; a comma or an
  hour of one digit in a timestamp; and for a `time.Time` `+00:00`, `-00:00` and more
  than three digits, which it writes as a valid instant. Blanks beyond the size limit and bytes that are not UTF-8 do not survive a
  program either, so a text that was refused for them is admitted behind it.
* `ValidatedIsBound` excepts `1.0` for an integer, the leap second, and a `time.Time`
  that is written with an escape.
* `RootIsAdmitted` excepts root documents with a field that comes twice, with bytes
  in the name of a field that are not UTF-8, or with blanks beyond the size limit:
  `json.Unmarshal` removes all three before admission.
* `BudgetHeld` and `UsageCountedOnce` speak of amounts for reservations that opened
  with an observed cost of at least zero. One that opened above its bound stays as it
  opened: nothing can be charged to it, nor can it be settled.
* `OneManifest` is what ADR-004 and the mock agree on: all pointers that were
  accepted name one manifest by storage key and digest, and an accepted one is accepted
  again, unless its text cannot be decoded. They do not agree on more: a pointer to
  the same manifest that differs in another field is identical for
  `docs/adr/ADR-004-repeated-artifact-submission-semantics.md:17`, which accepts it,
  and a conflict for the mock. The run posts such pointers and sees them refused; no
  property calls that right.
* `ExitMatchesReport` relates the report of a run to its exit status when it has one:
  a run that is killed between its report and its exit leaves a report that says
  passed. A run whose report could not be written exits with success all the same.
* `PassedBundleIsVouched` does not promise that a bundle holds a gate report: when the
  copy of a reused report fails and nothing was there before, the script compares nothing.
  The report it does hold records a pass, of a gate or of the verification
  (`kernel_gate_report` shows the difference).
* `GetsThrough` excepts the commands on artifacts, since no operation of the client
  decodes the ETag of an artifact, and clients of the caller's own without timeout.
* `OutputIsTrue` says nothing of the adapter digest of a report, which is of the
  source files as they are at the end of the run and not of the running program.

### Fairness

Safety runs assume none. Three runs assume the least their liveness needs:

* `worker_fence`: `Submission`, weak fairness of submitting a result that is held
  and would be accepted. The callers of `Execute` submit its result next; nothing
  is assumed of restores, cancellations or time. Weak fairness is enough because
  the only things that disable the submission are the ones the property names.
* `worker_inbox`: `Retransmission`, weak fairness of sending the first event not
  yet accepted with its trace context, and `FairLoss`, strong fairness of its
  delivery. The publisher is not in the repository: `DeliverEvent` refuses every
  number but the next, so a publisher that gave up on an event would never be
  heard again. Strong fairness is needed because the network may lose every copy
  of the message in between: it says that it does not lose all of infinitely many.
* `contract_calls`: weak fairness of sending and of reading the revision again
  (the caller's loop), of receiving an answer that is there, of the service's
  answer to the attempt that is waited for, and of the client's timeout when
  nothing is under way any more. Faults are bounded and not fair; a timeout while
  an answer may still come is a fault.

## 4. The proofs

For every value of the constants that satisfies the named assumptions. The
assumptions say that the sets of calls contain calls, that `None` is no recorded
value (nor `Missing` a header value or the content of a body), that bounds are
natural numbers, and that the files of cases are decoded into the types that the
Go structures declare (`RepositoryAssumption`). TLC evaluates them in each run.

Every safety property of the passing runs is the statement of a theorem.

| module | theorems | argument |
|---|---|---|
| `PagixPersistProofs` | `TypeCorrect`, `SpentOnce`, `CommitsAlways`, `LostUpdateFree`, `OutboxAccounts`, `ReadersAgree`, `Refinement` | `Commits`, `Bases`, `Accounts`, `Agreed` |
| `PagixLedgerProofs` | `LedgerBalances`, `SettledForGood`, `KeysOwnTheirs`, `UsageIsCountedOnce` | `Books`, `Counted` |
| `FiniteSumsProofs` | `SumTakesOff`, `SumIsMonotone` and the other facts on sums | smallest counterexamples |
| `WorkerProofs` | `FencesNeverReturn`, `LeasesAreFenced`, `WithheldForGood`, `CancelledForGood` of the lease | `Leases` |
| | `RecordHasNoGap`, `AcknowledgedForGood`, `OneOutcome`, `DeliveredInSequence` of the inbox | `Inbox` |
| | `UsageFits`, `TotalIsBetween`, `BilledOnce` of the usage | `Accounts` |
| `DeploymentMockProofs` | `StatusIsExplained`, `OneManifestEach`, `ClaimedForward` | `Mock`, `Claims` |
| `KernelEvidenceProofs` | `PassedMeansAllPassed`, `ExitsAgree`, `BundleVouched` | `Evidence` |
| `ContractCallsProofs` | `CommandsApplyOnce`, `DocumentsAreProof`, `StaleAnswersAreFinal`, `ServiceIsUnderstoodTheorem` | `Calls`, `Meanings` |
| `ContractToolsProofs` | `WrittenIsStableTheorem`, `ValidatedIsBoundTheorem`, `IdentitySurvivesTheorem`, `LaunderedIsKnownTheorem`, `RootIsAdmittedTheorem` of the relay | `Way` |
| | `OutputIsTrueTheorem`, `DigestsSeparateTheorem`, `ComponentDigestSeparates` of the runners | `Work` |

* **Commits.** `NoDoubleSpend` is not inductive: a command is compared with the
  redemption map and not with the outbox. `AtomicCommit` relates the two in both
  directions (an event has its redemption, its idempotency record and its bytes;
  a redemption and a record have their event), so that a new command, which finds
  none of the three, differs from every accepted one.
* **Lost updates.** `NoLostUpdate` is strengthened by `Bases`: what was applied to
  a workspace since its seed was applied on a revision below the current one.
  A newly applied command carries the current revision, hence a base of its own.
  Seeding empties the set of events it speaks of. With the library's theorems on
  cardinality the same invariant shows that the revision counts those events: a
  decision adds at most one to both.
* **Readers.** `AnswersAgree` is inductive beside `Commits`: every answer has its
  event on record, so a key that is new has no answer yet, and a known one is
  answered from a record that agrees with each event of the key. A decision
  records the effect and appends the event, which is then the last one.
* **Refinement.** Each action maps to one of `AuthorizedCommits`: an applied or a
  conflicting command to `Commit` of its authorization, seeding to `Reseed`, a
  replay to a stutter.
* **Books.** A reservation that opened with at least zero is charged at most what it
  holds, or is as it opened; once it is settled it is charged exactly what it holds.
  Amounts of at least zero do not wrap, so what fits is what the comparison says. A
  further observation then fits a settled reservation only at cost zero, and a further
  reconciliation only at the same cost, so nothing moves.
* **Counted.** `UsageCountedOnce` says that the observed cost of a reservation is what
  it opened with and the sum over its usage. It is inductive beside `Books` and
  `KeysOwnReservations`: no usage names a reservation before it exists, so the sum of a
  new one is that over nothing, and an observation adds one id, new to its reservation,
  and its cost. The
  set of usage ids may be infinite; that only finitely many are on record is part of
  the invariant.
* **Sums.** The sum over a finite set is a fold, a recursive function chosen by its
  equation. An induction over sets would need a theorem with an operator as parameter.
  `FiniteSumsProofs` argues by a smallest counterexample instead, which the library
  states for any set of sets: were a fact wrong for some finite set, it would be wrong
  for one of which all the smaller ones have it. So it shows that the equation has a
  solution and only one, that any element may be taken off first (`SumTakesOff`), and
  that the sum is monotone and moves as its summands do.
* **Leases.** Every fence ever active has a generation up to the active one, and a
  generation determines the fence; commits are in the order of generations and by
  fences that were active; a lease has committed exactly if the last commit is
  its own. A restore issues a larger generation than any before.
* **Inbox.** Messages on the way were published, each under the number its key
  names (`NetworkIsPublished`), the publisher has bytes for what it published
  (`LogIsFilled`), and what took effect is the sequence of numbers up to the last
  accepted one (`DeliveredInOrder`). Since `DeliverEvent` accepts the next number
  only, an accepted event is new, and it acknowledges a known one only if its bytes
  are those on record. `DeliveredInSequence` is the safety half of the refinement
  `IsOrderedDelivery`: initial states map to initial states, and each step to a
  delivery of the next event or to a stutter.
* **Accounts.** The total of the usage is kept between two sums over the attempts,
  `Least` and `Most`. Each of them moves at one attempt only, the one that reports, so
  it is enough to know by how much that attempt's account moves (`SumMovesAtOne`):
  `AccountOf` says of every attempt that its high-water mark is at most its largest
  amount on record and at most their sum, and equal to the largest where no running
  total was reported, and that an attempt of which nothing is known counts for
  nothing. A running total that is refused for overflow is recorded and moves no mark,
  which is why the largest amount is only an upper bound there. `RecordedUnderItsKey`
  gives `BilledOnce`: a record lies under the key that is computed from it.
* **Mock.** `TrailExplainsStatus` speaks of the transitions since a deployment was
  seeded. It is strengthened by `EpochsArePast`: no transition carries an epoch
  beyond its deployment's, and no epoch one that a later seed will open, so that a
  new seed starts with an empty trail. For `OneManifest`, `PointersCompared` says that
  every pointer that was answered was compared with the one on record, equal if it was
  accepted and different if it was refused; `Seed` keeps that one and only `Reset`
  removes it. `ClaimedOnce` is a promise to callers who ask for
  transitions that lead forward: `ClaimedForward` assumes a rank of the statuses
  that each of them raises, as the transitions of the run do, and shows that every
  transition of the trail left a status below the present one (`Climbs`).
* **Evidence.** `NothingSkipped` is not inductive: it speaks of reports, and the
  step that writes one relies on the run. `RunInProgress` says that the run
  remembers what its gates found and is the latest, not yet ended; `ReportsTrue` that
  a report, whole or in part, has the verdict of what its run found; `ExitsTrue` that
  an exit status has it too. Report and status thus agree by way of the gates, although
  a kill, or a failed redirection, may leave one without the other.
  `BundleInProgress` says that while a bundle waits, nobody but its own verification
  writes its report, and that what a check has established of that report stays true
  until the manifest is written; `ManifestVouched` that a written manifest keeps it.
  The proof needs no bound on gates, checks or runs.
* **Calls.** That an operation is applied once follows from the recorded key, so
  `Effects` says what the service has on record of each key and `Preconditions`
  how the attempts under way relate to the revision that they carry.
  `StaleStaysStale` says that a refused revision never becomes the current one
  again, however often others move the resource. `AnswersAreTrue` speaks of every
  answer under way, late ones and copies included: what it says was so when it was
  given, and `ProofIsFinal` that it stays so; `DocumentIsProof` then holds when the
  caller reads one of them. What an operation decodes is a table of 29 entries in
  three modules; `TablesAreSound` is what the proofs need of them, row by row.
* **Meanings.** `ServiceIsUnderstood` is inductive with the operation's name. The work
  is again in the tables: a command decodes 400 and 409, one with a body 422, one on a
  run or an artifact 412 and 428, one of a runtime 410, and no operation's status of
  success is one of its problems, so that the two switches of `Parse` exclude each
  other. The service's rules speak of paths (`Conditional`, `Expiring`) and the tables
  of statuses; the proof relates the two for each of the 29 rows.
* **Way.** The lemmas on one field do the work, for every kind of field and every
  value: what a binding reads is a value that it reads as itself, or nil
  (`FieldIsRead`), and what is written for that is read and written as it came
  (`ReadingSettles`). A document follows field by field. `Way` says that behind
  the first program the text is what one program writes for the document that set
  out, which no later program changes, so that the properties are properties of
  one reading and one writing. The theorems hold for every document of the 64
  types with any number of fields off, and for any number of programs.
* **Work.** A result is true of its case when it is added and can become false no
  more: it holds the bytes it speaks of and the case is in the corpus that was read
  at the start. So `Work` says that every result so far is true (`IsTrueOf`), that
  results and the cases in the queue make up the corpus (`Accounted`), and that what
  is written is the report. `Edit` changes none of it. Copies among the root
  cases are followed by a recursive function (`Copied`), of which the proof needs no
  more than that the digest of what it returns was compared with the expected one.
  That equal digests mean equal components is a fact about the
  encoding: the parts are separated by a zero byte that none of them contains, being
  printable, so the first zero ends the first part in both (`SplitAtSeparator`).
  `DigestsSeparateTheorem` follows, with the case on record behind each digest.

Two statements were corrected by their proofs. `OutputIsTrue` held in its run only
because no corpus there had a case that expects `/profile/closedResolver`: with one, a
document without any error is reported as invalid, truly, since `Validate` finds that
for a document whose schema was not compiled. The property has it as an alternative
now and a corpus such a case. And what it said of signatures left out the mutation of
the signature; it is now about the signature on record as the mutation leaves it.
`ServiceIsUnderstood` needs that `Missing` is not the content of a body, which is part
of `ClientAssumption` now.

Left to the model checker. Liveness (`ResultGetsThrough`, `GetsThrough` and the
delivery part of `IsOrderedDelivery`), which the prover does not reach: it has no
rules for fairness. The three runs that expect a violation have no theorem. What a
recursive definition computes for every input is proved only where it is a sum over a
finite set, as above; `Copied` and the canonical form are used by what they return.

## 5. Not modelled

`PROJECT.json` gives the reason for each component. In short: reads, since they
change nothing; the TypeScript side of the contracts, whose promises are those of
the Go side; the bindings of objects inside objects, which are of the kinds that the
64 types show; declarative infrastructure; one-pass scans that keep no state; the
services, which are not in this repository. Aliasing
of Go slices (`DeliverEvent` and `PutArtifact` keep their caller's buffers) is
below the level of the models, which pass values.

## 6. Plan

Done, in the order of importance: persistence with its abstract specification and
proofs, the ledger, the lease and the usage with proofs, the inbox with its
abstract specification and proofs, the deployment mock with proofs, the verification
and evidence scripts with proofs, the clients with proofs, the bindings and documents
with proofs, the Go runners with proofs.

Next, modules:

1. `ExportFlow`: `DeploymentMock` composed with the load driver and the external
   export workers, the render origin and the asset mock. Questions: does a pinned
   fetch stay what it was, given that `SeedPage` overwrites a published version and
   assets are not pinned at all; does the driver's poll end for every status a
   deployment can be in, and what does it report for a backlog of none.
2. `StrictAdmission`: the TypeScript decoder beside `Admit`, one run that compares
   them at the limits of depth, items and numbers.
3. `Freeze`: the generator's writes, the lock and the check, with a kill between
   any two of them and sources edited meanwhile; then the agent package generator,
   which deletes its trees before it writes them.
4. `ApplyFlow`: snapshot, entitlement and `Persist` as one client, over
   `PagixPersist`: what an entitlement withdrawn in between still allows.
5. `CleanCheckout` and `Acceptance`: partial failures of pipes and of a stopped
   render origin; what `closure.json` says when nothing could be listed.
6. `Comparison`: the result sets of both languages and the comparison of their
   reports; operation conformance.

Next, theorems: a refinement of the usage ledger to a set of billed requests; the
digests of root documents in general, beside those of components.
