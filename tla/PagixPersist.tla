----------------------------- MODULE PagixPersist -----------------------------
(***************************************************************************)
(* The page-persistence half of mocks/fakepagix/fake.go: the revision      *)
(* compare-and-set, the idempotency records, the redemption of Apply       *)
(* Authorizations, the recorded effects and the outbox.                    *)
(*                                                                         *)
(* Every method holds the mutex from its first read of the state to its    *)
(* last write, so a call is one step.  A call that returns an error        *)
(* changes nothing and is a stuttering step: the guards are the negations  *)
(* of the early returns, and the commands the validation at the top of     *)
(* Persist refuses are not enumerated.  Any caller may send any command at *)
(* any time and again, so duplicated, delayed and reordered requests are   *)
(* all behaviours.  Operators named Bug... are faulty variants of the      *)
(* operator they precede and are part of no behaviour: they show that the  *)
(* properties can fail.                                                    *)
(***************************************************************************)
EXTENDS Naturals, Sequences, FiniteSets

CONSTANTS Workspaces, Keys, Digests, OperationIDs,
          AuthorizationIDs,
          AuthorizationBytes, \* the signed wire bytes of an authorization
          Commands,           \* the commands callers may send
          SeedRevisions,      \* revisions a workspace is seeded with
          None                \* a missing map entry

\* The fields of Command the properties tell apart.  A base revision is the
\* number in "revision-<n>", a uint64 no run or seed brings near 2^64.
Command == [workspace: Workspaces, key: Keys, digest: Digests,
            operation: OperationIDs, authorization: AuthorizationIDs,
            bytes: AuthorizationBytes, expected: Nat]

Applied  == "applied"
Conflict == "conflict"

Result == [outcome: {Applied, Conflict}, operation: OperationIDs,
           authorization: AuthorizationIDs, revision: Nat]

Record     == [digest: Digests, result: Result]
Redemption == [bytes: AuthorizationBytes, result: Result]
Event      == [workspace: Workspaces, result: Result]

ASSUME CommandsAssumption == Commands \subseteq Command
ASSUME SeedRevisionsAssumption == SeedRevisions \subseteq Nat
ASSUME NoneAssumption ==
    None \notin Result \cup Record \cup Redemption \cup AuthorizationIDs

VARIABLES
    revisions,          \* revisions[w]: the page revision of workspace w
    idempotency,        \* idempotency[w, k]: the recorded digest and result
    effects,            \* effects[w, o]: the result recorded for operation o
    redemptions,        \* redemptions[a]: the bytes and result a was spent on
    authorizationBytes, \* authorizationBytes[b]: the authorization b names
    outbox,             \* the emitted domain events, oldest first
    commands,           \* how many commands reached the compare-and-set
    \* History, read by no step of the code:
    accepted,           \* accepted[i]: the command that emitted outbox[i]
    seeded,             \* seeded[w]: the last seed of w, and the outbox then
    answers             \* <<w, k, digest, result>>, as returned to callers

codeVars == <<revisions, idempotency, effects, redemptions,
              authorizationBytes, outbox, commands>>
vars     == <<codeVars, accepted, seeded, answers>>

Init ==
    /\ revisions = [w \in Workspaces |-> 0]
    /\ idempotency = [wk \in Workspaces \X Keys |-> None]
    /\ effects = [wo \in Workspaces \X OperationIDs |-> None]
    /\ redemptions = [a \in AuthorizationIDs |-> None]
    /\ authorizationBytes = [b \in AuthorizationBytes |-> None]
    /\ outbox = <<>>
    /\ commands = 0
    /\ accepted = <<>>
    /\ seeded = [w \in Workspaces |-> [at |-> 0, revision |-> 0]]
    /\ answers = {}

------------------------------------------------------------------------------
\* Seed overwrites the revision, whatever has been persisted before.
Seed(w, r) ==
    /\ revisions' = [revisions EXCEPT ![w] = r]
    /\ seeded' = [seeded EXCEPT ![w] = [at |-> Len(outbox), revision |-> r]]
    /\ UNCHANGED <<idempotency, effects, redemptions, authorizationBytes,
                   outbox, commands, accepted, answers>>

BugAnyAuthorization(c) == TRUE

\* The authorization bytes were not seen before under another authorization.
BytesNameThisAuthorization(c) ==
    authorizationBytes[c.bytes] \in {None, c.authorization}

BugUnredeemedOrSameBytes(c) ==
    redemptions[c.authorization] # None =>
        redemptions[c.authorization].bytes = c.bytes

\* A redeemed authorization is refused, whether the bytes agree or not.
Unredeemed(c) == redemptions[c.authorization] = None

BugNotAhead(c) == c.expected <= revisions[c.workspace]

\* The compare-and-set: the caller's base revision is the current one.
RevisionMatches(c) == c.expected = revisions[c.workspace]

BugAlwaysIncrement(c) == revisions[c.workspace] + 1

\* The revision the workspace has once the command is decided.
RevisionAfter(c) ==
    IF RevisionMatches(c) THEN revisions[c.workspace] + 1
                          ELSE revisions[c.workspace]

Outcome(c) ==
    [outcome       |-> IF RevisionMatches(c) THEN Applied ELSE Conflict,
     operation     |-> c.operation,
     authorization |-> c.authorization,
     revision      |-> RevisionAfter(c)]

RecordIdempotency(c) ==
    idempotency' = [idempotency EXCEPT ![<<c.workspace, c.key>>] =
                        [digest |-> c.digest, result |-> Outcome(c)]]

BugKeepFirstBytes(c) ==
    /\ redemptions' = [redemptions EXCEPT ![c.authorization] =
                           [bytes |-> c.bytes, result |-> Outcome(c)]]
    /\ UNCHANGED authorizationBytes

\* An applied command and one in conflict spend the authorization alike.
RecordRedemption(c) ==
    /\ redemptions' = [redemptions EXCEPT ![c.authorization] =
                           [bytes |-> c.bytes, result |-> Outcome(c)]]
    /\ authorizationBytes' =
           [authorizationBytes EXCEPT ![c.bytes] = c.authorization]

BugEffectIfApplied(c) ==
    effects' = IF RevisionMatches(c)
               THEN [effects EXCEPT ![<<c.workspace, c.operation>>] = Outcome(c)]
               ELSE effects

\* An operation ID used again overwrites the effect it recorded before.
RecordEffect(c) ==
    effects' = [effects EXCEPT ![<<c.workspace, c.operation>>] = Outcome(c)]

\* A command under a new idempotency key, applied or in conflict.
PersistNew(c) ==
    /\ idempotency[<<c.workspace, c.key>>] = None
    /\ BytesNameThisAuthorization(c)
    /\ Unredeemed(c)
    /\ commands' = commands + 1
    /\ revisions' = [revisions EXCEPT ![c.workspace] = RevisionAfter(c)]
    /\ RecordIdempotency(c)
    /\ RecordEffect(c)
    /\ RecordRedemption(c)
    /\ outbox' = Append(outbox, [workspace |-> c.workspace,
                                 result    |-> Outcome(c)])
    /\ accepted' = Append(accepted, c)
    /\ answers' = answers \cup {<<c.workspace, c.key, c.digest, Outcome(c)>>}
    /\ UNCHANGED seeded

BugSameKey(c) == idempotency[<<c.workspace, c.key>>] # None

\* The same key and the same request digest again.  (The same key with another
\* digest is the idempotency conflict, an error.)
Repeated(c) ==
    /\ idempotency[<<c.workspace, c.key>>] # None
    /\ idempotency[<<c.workspace, c.key>>].digest = c.digest

\* What a repeated request is answered: the result recorded the first time.
ReplayAnswer(c) == idempotency[<<c.workspace, c.key>>].result

PersistReplay(c) ==
    /\ Repeated(c)
    /\ answers' =
           answers \cup {<<c.workspace, c.key, c.digest, ReplayAnswer(c)>>}
    /\ UNCHANGED <<codeVars, accepted, seeded>>

Next ==
    \/ \E w \in Workspaces, r \in SeedRevisions : Seed(w, r)
    \/ \E c \in Commands : PersistNew(c)
    \/ \E c \in Commands : PersistReplay(c)

Spec == Init /\ [][Next]_vars

------------------------------------------------------------------------------
\* The maps hold what Persist may put in them.
TypeOK ==
    /\ revisions \in [Workspaces -> Nat]
    /\ idempotency \in [Workspaces \X Keys -> Record \cup {None}]
    /\ effects \in [Workspaces \X OperationIDs -> Result \cup {None}]
    /\ redemptions \in [AuthorizationIDs -> Redemption \cup {None}]
    /\ authorizationBytes \in
           [AuthorizationBytes -> AuthorizationIDs \cup {None}]
    /\ outbox \in Seq(Event)
    /\ commands \in Nat
    /\ accepted \in Seq(Command)
    /\ seeded \in [Workspaces -> [at: Nat, revision: Nat]]
    /\ answers \subseteq (Workspaces \X Keys \X Digests \X Result)

\* No authorization, and no signed authorization bytes, are ever spent twice,
\* even by commands of different workspaces or under different keys
\* (fake.go:178-187: the redemption and byte-substitution checks).
NoDoubleSpend ==
    \A i, j \in DOMAIN outbox : i # j =>
        /\ accepted[i].authorization # accepted[j].authorization
        /\ accepted[i].bytes # accepted[j].bytes

\* The events of a workspace that moved its revision since it was last seeded.
AppliedSinceSeed(w) ==
    {i \in DOMAIN outbox : /\ i > seeded[w].at
                           /\ outbox[i].workspace = w
                           /\ outbox[i].result.outcome = Applied}

\* Since a workspace was last seeded, no two commands were applied on the same
\* base revision: of two callers racing from one snapshot, one is in conflict
\* (fake.go:189-200: the compare-and-set).
NoLostUpdate ==
    \A w \in Workspaces : \A i, j \in AppliedSinceSeed(w) :
        i # j => accepted[i].expected # accepted[j].expected

\* The outbox accounts for every revision: the current revision is the seeded
\* one plus one for each applied event, so no event is missing or doubled.
OutboxExplainsRevision ==
    \A w \in Workspaces :
        revisions[w] = seeded[w].revision + Cardinality(AppliedSinceSeed(w))

\* Redemption, idempotency record, outbox event and command count are one
\* commit: each exists exactly for the commands that were decided, and they
\* agree on the result, over every sequence of calls (the test
\* TestCASIdempotencyRedemptionEffectAndOutboxAreAtomic runs one of them).
AtomicCommit ==
    /\ commands = Len(outbox)
    /\ \A i \in DOMAIN outbox :
          LET c == accepted[i] IN
          /\ redemptions[c.authorization] =
                 [bytes |-> c.bytes, result |-> outbox[i].result]
          /\ idempotency[<<c.workspace, c.key>>] =
                 [digest |-> c.digest, result |-> outbox[i].result]
          /\ authorizationBytes[c.bytes] = c.authorization
    /\ \A a \in AuthorizationIDs : redemptions[a] # None =>
          \E i \in DOMAIN outbox : accepted[i].authorization = a
    /\ \A w \in Workspaces, k \in Keys : idempotency[<<w, k>>] # None =>
          \E i \in DOMAIN outbox : /\ accepted[i].workspace = w
                                   /\ accepted[i].key = k

\* The effect recorded for an operation is the one of its last outbox event,
\* and an operation with an event has an effect: a reader of Effect and a
\* consumer of the outbox never disagree about how the operation ended
\* (fake.go:203, 206).
EffectIsLastEvent ==
    \A w \in Workspaces, o \in OperationIDs :
        LET own == {i \in DOMAIN outbox : /\ outbox[i].workspace = w
                                          /\ outbox[i].result.operation = o}
        IN  IF own = {} THEN effects[<<w, o>>] = None
            ELSE \E i \in own : /\ \A j \in own : j <= i
                                /\ effects[<<w, o>>] = outbox[i].result

\* Every caller that used one idempotency key was told the same result, asked
\* for it with the digest of the request that was decided, and is told what the
\* event of that request tells the consumers of the outbox (fake.go:171-177);
\* so is whoever reads the effect of the operation.
AnswersAgree ==
    /\ EffectIsLastEvent
    /\ \A x \in answers :
           /\ \A y \in answers : x[1] = y[1] /\ x[2] = y[2] => x = y
           /\ \E i \in DOMAIN outbox : /\ accepted[i].workspace = x[1]
                                       /\ accepted[i].key = x[2]
                                       /\ accepted[i].digest = x[3]
                                       /\ outbox[i].result = x[4]

\* The commits as the abstract specification sees them.
Abstract == INSTANCE AuthorizedCommits WITH
                head  <- revisions,
                spent <- {a \in AuthorizationIDs : redemptions[a] # None}

\* The detailed machine implements the promise of AuthorizedCommits: a revision
\* moves only in the step that spends an authorization, by one, and never on an
\* authorization already spent.
ImplementsAuthorizedCommits == Abstract!AbsSpec
=============================================================================
