-------------------------- MODULE PagixPersistProofs --------------------------
(***************************************************************************)
(* Theorems about PagixPersist, for every value of its constants.          *)
(***************************************************************************)
EXTENDS PagixPersist, FiniteSetTheorems, TLAPS

------------------------------------------------------------------------------
\* Every command names a member of each of the sets of names.
LEMMA CommandFields ==
    ASSUME NEW c \in Commands
    PROVE  /\ c \in Command
           /\ c.workspace \in Workspaces
           /\ c.key \in Keys
           /\ c.digest \in Digests
           /\ c.operation \in OperationIDs
           /\ c.authorization \in AuthorizationIDs
           /\ c.bytes \in AuthorizationBytes
           /\ c.expected \in Nat
BY CommandsAssumption DEF Command

\* What Persist answers is a result, with a revision that is a number.
LEMMA OutcomeIsResult ==
    ASSUME TypeOK, NEW c \in Commands
    PROVE  /\ RevisionAfter(c) \in Nat
           /\ Outcome(c) \in Result
<1>1. RevisionAfter(c) \in Nat
  BY CommandFields DEF TypeOK, RevisionAfter
<1>2. QED
  BY <1>1, CommandFields DEF Outcome, Result, Applied, Conflict

\* A command that is decided keeps every map, the outbox and the history typed.
LEMMA PersistNewTypeOK ==
    ASSUME TypeOK, NEW c \in Commands, PersistNew(c)
    PROVE  TypeOK'
<1> USE CommandFields, OutcomeIsResult
<1>1. (revisions \in [Workspaces -> Nat])'
  BY DEF TypeOK, PersistNew
<1>2. (idempotency \in [Workspaces \X Keys -> Record \cup {None}])'
  <2>1. [digest |-> c.digest, result |-> Outcome(c)] \in Record
    BY DEF Record
  <2>2. QED
    BY <2>1 DEF TypeOK, PersistNew, RecordIdempotency
<1>3. (effects \in [Workspaces \X OperationIDs -> Result \cup {None}])'
  BY DEF TypeOK, PersistNew, RecordEffect
<1>4. (redemptions \in [AuthorizationIDs -> Redemption \cup {None}])'
  <2>1. [bytes |-> c.bytes, result |-> Outcome(c)] \in Redemption
    BY DEF Redemption
  <2>2. QED
    BY <2>1 DEF TypeOK, PersistNew, RecordRedemption
<1>5. (authorizationBytes \in
          [AuthorizationBytes -> AuthorizationIDs \cup {None}])'
  BY DEF TypeOK, PersistNew, RecordRedemption
<1>6. (outbox \in Seq(Event))'
  <2>1. [workspace |-> c.workspace, result |-> Outcome(c)] \in Event
    BY DEF Event
  <2>2. QED
    BY <2>1 DEF TypeOK, PersistNew
<1>7. (commands \in Nat)' /\ (accepted \in Seq(Command))'
  BY DEF TypeOK, PersistNew
<1>8. (seeded \in [Workspaces -> [at: Nat, revision: Nat]])'
  BY DEF TypeOK, PersistNew
<1>9. (answers \subseteq (Workspaces \X Keys \X Digests \X Result))'
  <2>1. answers \subseteq (Workspaces \X Keys \X Digests \X Result)
    BY DEF TypeOK
  <2>2. <<c.workspace, c.key, c.digest, Outcome(c)>> \in
            Workspaces \X Keys \X Digests \X Result
    OBVIOUS
  <2>3. answers' = answers \cup {<<c.workspace, c.key, c.digest, Outcome(c)>>}
    BY DEF PersistNew
  <2> QED
    BY <2>1, <2>2, <2>3, Zenon
<1> QED
  BY <1>1, <1>2, <1>3, <1>4, <1>5, <1>6, <1>7, <1>8, <1>9 DEF TypeOK

\* So does a command that is answered from its idempotency record.
LEMMA PersistReplayTypeOK ==
    ASSUME TypeOK, NEW c \in Commands, PersistReplay(c)
    PROVE  TypeOK'
<1>1. idempotency[<<c.workspace, c.key>>] \in Record
  BY CommandFields DEF TypeOK, PersistReplay, Repeated
<1>2. ReplayAnswer(c) \in Result
  BY <1>1 DEF ReplayAnswer, Record
<1>3. (answers \subseteq (Workspaces \X Keys \X Digests \X Result))'
  BY <1>2, CommandFields DEF TypeOK, PersistReplay
<1> QED
  BY <1>3 DEF TypeOK, PersistReplay, codeVars

\* No step of the program takes the state out of its types.
LEMMA TypeOKStep == TypeOK /\ [Next]_vars => TypeOK'
<1> SUFFICES ASSUME TypeOK, [Next]_vars PROVE TypeOK'
  OBVIOUS
<1>1. ASSUME NEW w \in Workspaces, NEW r \in SeedRevisions, Seed(w, r)
      PROVE  TypeOK'
  <2>1. /\ (revisions \in [Workspaces -> Nat])'
        /\ (seeded \in [Workspaces -> [at: Nat, revision: Nat]])'
    BY <1>1, SeedRevisionsAssumption DEF TypeOK, Seed
  <2>2. QED
    BY <1>1, <2>1 DEF TypeOK, Seed
<1>2. CASE UNCHANGED vars
  BY <1>2 DEF TypeOK, vars, codeVars
<1> QED
  BY <1>1, <1>2, PersistNewTypeOK, PersistReplayTypeOK DEF Next

\* The type invariant of the persistence state holds in every behaviour.
THEOREM TypeCorrect == Spec => []TypeOK
<1>1. Init => TypeOK
  BY DEF Init, TypeOK
<1> QED
  BY <1>1, TypeOKStep, PTL DEF Spec

------------------------------------------------------------------------------
(***************************************************************************)
(* NoDoubleSpend and AtomicCommit need each other: a spent authorization   *)
(* is refused because its redemption is still there, and the redemption is *)
(* still there because no later command named the same authorization.      *)
(***************************************************************************)
Commits == /\ TypeOK
           /\ Len(accepted) = Len(outbox)
           /\ NoDoubleSpend
           /\ AtomicCommit

\* The authorization, bytes and key of a command that is decided are new.
LEMMA DecidedIsNew ==
    ASSUME Commits, NEW c \in Commands, PersistNew(c), NEW i \in DOMAIN outbox
    PROVE  /\ accepted[i].authorization # c.authorization
           /\ accepted[i].bytes # c.bytes
           /\ <<accepted[i].workspace, accepted[i].key>> # <<c.workspace, c.key>>
<1> DEFINE d == accepted[i]
<1>1. /\ redemptions[d.authorization] =
            [bytes |-> d.bytes, result |-> outbox[i].result]
      /\ idempotency[<<d.workspace, d.key>>] =
            [digest |-> d.digest, result |-> outbox[i].result]
      /\ authorizationBytes[d.bytes] = d.authorization
  BY DEF Commits, AtomicCommit
<1>2. d \in Command /\ outbox[i].result \in Result
  <2>1. i \in DOMAIN accepted
    BY DEF Commits, TypeOK
  <2>2. outbox[i] \in Event
    BY DEF Commits, TypeOK
  <2> QED
    BY <2>1, <2>2 DEF Commits, TypeOK, Event
<1>3. /\ redemptions[d.authorization] # None
      /\ idempotency[<<d.workspace, d.key>>] # None
      /\ authorizationBytes[d.bytes] # None
  <2>1. redemptions[d.authorization] \in Redemption
    BY <1>1, <1>2 DEF Redemption, Command
  <2>2. idempotency[<<d.workspace, d.key>>] \in Record
    BY <1>1, <1>2 DEF Record, Command
  <2>3. authorizationBytes[d.bytes] \in AuthorizationIDs
    BY <1>1, <1>2 DEF Command
  <2> QED
    BY <2>1, <2>2, <2>3, NoneAssumption
<1>4. d.authorization # c.authorization
  BY <1>3 DEF PersistNew, Unredeemed
<1>5. d.bytes # c.bytes
  BY <1>1, <1>3, <1>4 DEF PersistNew, BytesNameThisAuthorization
<1>6. <<d.workspace, d.key>> # <<c.workspace, c.key>>
  BY <1>3 DEF PersistNew
<1> QED
  BY <1>4, <1>5, <1>6

\* What a decided command appends, and what it leaves of the histories.
LEMMA DecidedIsAppended ==
    ASSUME TypeOK, Len(accepted) = Len(outbox),
           NEW c \in Commands, PersistNew(c)
    PROVE  /\ Len(outbox') = Len(outbox) + 1
           /\ Len(accepted') = Len(outbox) + 1
           /\ DOMAIN outbox' = DOMAIN outbox \cup {Len(outbox) + 1}
           /\ outbox'[Len(outbox) + 1] =
                 [workspace |-> c.workspace, result |-> Outcome(c)]
           /\ accepted'[Len(outbox) + 1] = c
           /\ \A i \in DOMAIN outbox : /\ i # Len(outbox) + 1
                                       /\ outbox'[i] = outbox[i]
                                       /\ accepted'[i] = accepted[i]
BY CommandFields DEF TypeOK, PersistNew

\* A decided command keeps spending, records and outbox one commit.
LEMMA PersistNewCommits ==
    ASSUME Commits, NEW c \in Commands, PersistNew(c)
    PROVE  Commits'
<1> DEFINE n == Len(outbox) + 1
<1>1. TypeOK'
  BY PersistNewTypeOK DEF Commits
<1>2. Len(accepted') = Len(outbox')
  BY DecidedIsAppended DEF Commits
<1>3. NoDoubleSpend'
  <2> SUFFICES ASSUME NEW i \in DOMAIN outbox', NEW j \in DOMAIN outbox', i # j
               PROVE  /\ accepted'[i].authorization # accepted'[j].authorization
                      /\ accepted'[i].bytes # accepted'[j].bytes
    BY DEF NoDoubleSpend
  <2>1. /\ i \in DOMAIN outbox \/ i = n
        /\ j \in DOMAIN outbox \/ j = n
        /\ accepted'[n] = c
        /\ \A k \in DOMAIN outbox : accepted'[k] = accepted[k]
    BY DecidedIsAppended DEF Commits
  <2>2. CASE i \in DOMAIN outbox /\ j \in DOMAIN outbox
    BY <2>1, <2>2 DEF Commits, NoDoubleSpend
  <2>3. CASE i = n /\ j \in DOMAIN outbox
    BY <2>1, <2>3, DecidedIsNew
  <2>4. CASE i \in DOMAIN outbox /\ j = n
    BY <2>1, <2>4, DecidedIsNew
  <2> QED
    BY <2>1, <2>2, <2>3, <2>4
<1>4. (commands = Len(outbox))'
  BY DecidedIsAppended DEF Commits, AtomicCommit, PersistNew
<1>5. ASSUME NEW i \in DOMAIN outbox'
      PROVE  /\ redemptions'[accepted'[i].authorization] =
                   [bytes |-> accepted'[i].bytes, result |-> outbox'[i].result]
             /\ idempotency'[<<accepted'[i].workspace, accepted'[i].key>>] =
                   [digest |-> accepted'[i].digest, result |-> outbox'[i].result]
             /\ authorizationBytes'[accepted'[i].bytes] =
                   accepted'[i].authorization
  <2>1. CASE i = n
    <3>1. /\ accepted'[n] = c
          /\ outbox'[n] = [workspace |-> c.workspace, result |-> Outcome(c)]
      BY DecidedIsAppended DEF Commits
    <3> QED
      BY <2>1, <3>1, CommandFields
      DEF Commits, TypeOK, PersistNew, RecordRedemption, RecordIdempotency
  <2>2. CASE i \in DOMAIN outbox
    <3>1. /\ accepted'[i] = accepted[i]
          /\ outbox'[i] = outbox[i]
      BY <2>2, DecidedIsAppended DEF Commits
    <3>2. /\ accepted[i].authorization # c.authorization
          /\ accepted[i].bytes # c.bytes
          /\ <<accepted[i].workspace, accepted[i].key>> # <<c.workspace, c.key>>
      BY <2>2, DecidedIsNew
    <3>3. accepted[i] \in Command
      BY <2>2 DEF Commits, TypeOK
    <3>4. redemptions'[accepted[i].authorization] =
              redemptions[accepted[i].authorization]
      BY <3>2, <3>3 DEF Commits, TypeOK, PersistNew, RecordRedemption
    <3>5. idempotency'[<<accepted[i].workspace, accepted[i].key>>] =
              idempotency[<<accepted[i].workspace, accepted[i].key>>]
      BY <3>2, <3>3 DEF Commits, TypeOK, PersistNew, RecordIdempotency, Command
    <3>6. authorizationBytes'[accepted[i].bytes] =
              authorizationBytes[accepted[i].bytes]
      BY <3>2, <3>3 DEF Commits, TypeOK, PersistNew, RecordRedemption
    <3> QED
      BY <2>2, <3>1, <3>4, <3>5, <3>6 DEF Commits, AtomicCommit
  <2> QED
    BY <2>1, <2>2, DecidedIsAppended DEF Commits
<1>6. ASSUME NEW a \in AuthorizationIDs, redemptions'[a] # None
      PROVE  \E i \in DOMAIN outbox' : accepted'[i].authorization = a
  <2>1. CASE a = c.authorization
    BY <2>1, DecidedIsAppended DEF Commits
  <2>2. CASE a # c.authorization
    <3>1. redemptions[a] # None
      BY <1>6, <2>2 DEF Commits, TypeOK, PersistNew, RecordRedemption
    <3>2. PICK i \in DOMAIN outbox : accepted[i].authorization = a
      BY <3>1 DEF Commits, AtomicCommit
    <3> QED
      BY <3>2, DecidedIsAppended DEF Commits
  <2> QED
    BY <2>1, <2>2
<1>7. ASSUME NEW w \in Workspaces, NEW k \in Keys, idempotency'[<<w, k>>] # None
      PROVE  \E i \in DOMAIN outbox' : /\ accepted'[i].workspace = w
                                       /\ accepted'[i].key = k
  <2>1. CASE w = c.workspace /\ k = c.key
    BY <2>1, DecidedIsAppended DEF Commits
  <2>2. CASE ~(w = c.workspace /\ k = c.key)
    <3>1. idempotency[<<w, k>>] # None
      BY <1>7, <2>2 DEF Commits, TypeOK, PersistNew, RecordIdempotency
    <3>2. PICK i \in DOMAIN outbox : accepted[i].workspace = w /\ accepted[i].key = k
      BY <3>1 DEF Commits, AtomicCommit
    <3> QED
      BY <3>2, DecidedIsAppended DEF Commits
  <2> QED
    BY <2>1, <2>2
<1> QED
  BY <1>1, <1>2, <1>3, <1>4, <1>5, <1>6, <1>7 DEF Commits, AtomicCommit

\* The invariant holds at the start and every step keeps it.
LEMMA CommitsHold == Spec => []Commits
<1>1. Init => Commits
  <2> SUFFICES ASSUME Init PROVE Commits
    OBVIOUS
  <2>1. TypeOK
    BY DEF Init, TypeOK
  <2>2. outbox = <<>> /\ accepted = <<>> /\ DOMAIN outbox = {} /\ Len(outbox) = 0
    BY DEF Init
  <2>3. NoDoubleSpend
    BY <2>2 DEF NoDoubleSpend
  <2>4. AtomicCommit
    BY <2>2 DEF Init, AtomicCommit
  <2> QED
    BY <2>1, <2>2, <2>3, <2>4 DEF Commits
<1>2. Commits /\ [Next]_vars => Commits'
  <2> SUFFICES ASSUME Commits, [Next]_vars PROVE Commits'
    OBVIOUS
  <2>1. TypeOK'
    <3>1. TypeOK /\ [Next]_vars => TypeOK'
      BY TypeOKStep
    <3> QED
      BY <3>1 DEF Commits
  <2>2. ASSUME NEW w \in Workspaces, NEW r \in SeedRevisions, Seed(w, r)
        PROVE  Commits'
    BY <2>1, <2>2 DEF Seed, Commits, NoDoubleSpend, AtomicCommit
  <2>3. ASSUME NEW c \in Commands, PersistReplay(c)
        PROVE  Commits'
    BY <2>1, <2>3 DEF PersistReplay, codeVars, Commits, NoDoubleSpend, AtomicCommit
  <2>4. CASE UNCHANGED vars
    BY <2>1, <2>4 DEF vars, codeVars, Commits, NoDoubleSpend, AtomicCommit
  <2> QED
    BY <2>2, <2>3, <2>4, PersistNewCommits DEF Next
<1> QED
  BY <1>1, <1>2, PTL DEF Spec

\* No authorization and no signed bytes are spent twice (fake.go:178-187).
THEOREM SpentOnce == Spec => []NoDoubleSpend
<1>1. Commits => NoDoubleSpend
  BY DEF Commits
<1> QED
  BY <1>1, CommitsHold, PTL

\* Redemption, idempotency record, outbox event and command count exist together
\* or not at all, and agree (fake.go:201-207).
THEOREM CommitsAlways == Spec => []AtomicCommit
<1>1. Commits => AtomicCommit
  BY DEF Commits
<1> QED
  BY <1>1, CommitsHold, PTL

------------------------------------------------------------------------------
(***************************************************************************)
(* Why the compare-and-set loses no update: every base revision that was   *)
(* applied since the last seed is below the current revision, and the next *)
(* command to be applied names the current one.                            *)
(***************************************************************************)
Bases == /\ TypeOK
         /\ Len(accepted) = Len(outbox)
         /\ \A w \in Workspaces :
               /\ seeded[w].at <= Len(outbox)
               /\ \A i \in AppliedSinceSeed(w) : accepted[i].expected < revisions[w]
         /\ NoLostUpdate

\* The applied events of a workspace since its seed, after a command is decided.
LEMMA AppliedAfterDecision ==
    ASSUME Bases, NEW c \in Commands, PersistNew(c), NEW w \in Workspaces,
           NEW i \in AppliedSinceSeed(w)'
    PROVE  \/ i \in AppliedSinceSeed(w) /\ accepted'[i] = accepted[i]
           \/ /\ i = Len(outbox) + 1
              /\ accepted'[i] = c
              /\ c.workspace = w
              /\ RevisionMatches(c)
<1> DEFINE n == Len(outbox) + 1
<1>1. /\ i \in DOMAIN outbox \/ i = n
      /\ i > seeded[w].at
      /\ outbox'[i].workspace = w
      /\ outbox'[i].result.outcome = Applied
  BY DecidedIsAppended DEF Bases, AppliedSinceSeed, PersistNew
<1>2. CASE i \in DOMAIN outbox
  <2>1. outbox'[i] = outbox[i] /\ accepted'[i] = accepted[i]
    BY <1>2, DecidedIsAppended DEF Bases
  <2> QED
    BY <1>1, <1>2, <2>1 DEF AppliedSinceSeed
<1>3. CASE i = n
  <2>1. /\ outbox'[n] = [workspace |-> c.workspace, result |-> Outcome(c)]
        /\ accepted'[n] = c
    BY DecidedIsAppended DEF Bases
  <2>2. Outcome(c).outcome = Applied /\ c.workspace = w
    BY <1>1, <1>3, <2>1
  <2>3. RevisionMatches(c)
    BY <2>2 DEF Outcome, Applied, Conflict
  <2> QED
    BY <1>3, <2>1, <2>2, <2>3
<1> QED
  BY <1>1, <1>2, <1>3

\* A decided command keeps the applied bases below the revision, and distinct.
LEMMA PersistNewBases ==
    ASSUME Bases, NEW c \in Commands, PersistNew(c)
    PROVE  Bases'
<1>1. TypeOK' /\ Len(accepted') = Len(outbox')
  BY PersistNewTypeOK, DecidedIsAppended DEF Bases
<1>2. ASSUME NEW w \in Workspaces
      PROVE  /\ revisions[w] \in Nat /\ revisions'[w] \in Nat
             /\ revisions[w] <= revisions'[w]
             /\ c.workspace = w /\ RevisionMatches(c) =>
                   /\ c.expected = revisions[w]
                   /\ revisions'[w] = revisions[w] + 1
  BY CommandFields DEF Bases, TypeOK, PersistNew, RevisionAfter, RevisionMatches
<1>3. ASSUME NEW w \in Workspaces, NEW i \in AppliedSinceSeed(w)
      PROVE  /\ accepted[i].expected \in Nat
             /\ accepted[i].expected < revisions[w]
  <2>1. i \in DOMAIN accepted
    BY DEF Bases, TypeOK, AppliedSinceSeed
  <2>2. accepted[i] \in Command
    BY <2>1 DEF Bases, TypeOK
  <2> QED
    BY <2>2 DEF Bases, Command
<1>4. ASSUME NEW w \in Workspaces
      PROVE  seeded'[w].at <= Len(outbox')
  BY <1>1, DecidedIsAppended DEF Bases, TypeOK, PersistNew
<1>5. ASSUME NEW w \in Workspaces, NEW i \in AppliedSinceSeed(w)'
      PROVE  accepted'[i].expected < revisions'[w]
  BY <1>2, <1>3, AppliedAfterDecision
<1>6. ASSUME NEW w \in Workspaces, NEW i \in AppliedSinceSeed(w)',
             NEW j \in AppliedSinceSeed(w)', i # j
      PROVE  accepted'[i].expected # accepted'[j].expected
  <2>1. CASE i \in AppliedSinceSeed(w) /\ j \in AppliedSinceSeed(w)
    <3>1. accepted'[i] = accepted[i] /\ accepted'[j] = accepted[j]
      BY <2>1, DecidedIsAppended DEF Bases, AppliedSinceSeed
    <3> QED
      BY <2>1, <3>1, <1>6 DEF Bases, NoLostUpdate
  <2>2. CASE i \notin AppliedSinceSeed(w) \/ j \notin AppliedSinceSeed(w)
    BY <1>2, <1>3, <1>6, <2>2, AppliedAfterDecision
  <2> QED
    BY <2>1, <2>2
<1> QED
  BY <1>1, <1>4, <1>5, <1>6 DEF Bases, NoLostUpdate

\* The invariant holds at the start and every step keeps it.
LEMMA BasesHold == Spec => []Bases
<1>1. Init => Bases
  <2> SUFFICES ASSUME Init PROVE Bases
    OBVIOUS
  <2>1. TypeOK
    BY DEF Init, TypeOK
  <2>2. outbox = <<>> /\ accepted = <<>> /\ Len(outbox) = 0
    BY DEF Init
  <2>3. \A w \in Workspaces : AppliedSinceSeed(w) = {}
    BY <2>2 DEF AppliedSinceSeed
  <2> QED
    BY <2>1, <2>2, <2>3 DEF Init, Bases, NoLostUpdate
<1>2. Bases /\ [Next]_vars => Bases'
  <2> SUFFICES ASSUME Bases, [Next]_vars PROVE Bases'
    OBVIOUS
  <2>1. TypeOK'
    BY TypeOKStep DEF Bases
  <2>2. ASSUME NEW w \in Workspaces, NEW r \in SeedRevisions, Seed(w, r)
        PROVE  Bases'
    <3>1. /\ Len(accepted') = Len(outbox')
          /\ Len(outbox) \in Nat
          /\ seeded' = [seeded EXCEPT ![w] = [at |-> Len(outbox), revision |-> r]]
      BY <2>2 DEF Seed, Bases, TypeOK
    <3>2. AppliedSinceSeed(w)' = {}
      BY <2>2, <3>1 DEF Seed, Bases, TypeOK, AppliedSinceSeed
    <3>3. seeded'[w].at <= Len(outbox')
      BY <2>2, <3>1 DEF Seed, Bases, TypeOK
    <3>4. ASSUME NEW u \in Workspaces, u # w
          PROVE  /\ AppliedSinceSeed(u)' = AppliedSinceSeed(u)
                 /\ revisions'[u] = revisions[u]
                 /\ seeded'[u].at <= Len(outbox')
      BY <2>2, <3>4 DEF Seed, Bases, TypeOK, AppliedSinceSeed
    <3>5. accepted' = accepted
      BY <2>2 DEF Seed
    <3> QED
      BY <2>1, <3>1, <3>2, <3>3, <3>4, <3>5 DEF Bases, NoLostUpdate
  <2>3. ASSUME UNCHANGED <<revisions, outbox, accepted, seeded>>
        PROVE  Bases'
    BY <2>1, <2>3 DEF Bases, NoLostUpdate, AppliedSinceSeed
  <2>4. ASSUME NEW c \in Commands, PersistReplay(c)
        PROVE  Bases'
    BY <2>3, <2>4 DEF PersistReplay, codeVars
  <2>5. CASE UNCHANGED vars
    BY <2>3, <2>5 DEF vars, codeVars
  <2> QED
    BY <2>2, <2>4, <2>5, PersistNewBases DEF Next
<1> QED
  BY <1>1, <1>2, PTL DEF Spec

\* Of the commands applied to one page since it was seeded, no two were applied
\* on the same base revision (fake.go:189-200).
THEOREM LostUpdateFree == Spec => []NoLostUpdate
<1>1. Bases => NoLostUpdate
  BY DEF Bases
<1> QED
  BY <1>1, BasesHold, PTL

------------------------------------------------------------------------------
\* Persist implements the abstract promise: each of its steps is a commit, a
\* reseed or a stutter of AuthorizedCommits.
THEOREM Refinement == Spec => ImplementsAuthorizedCommits
<1> DEFINE spentIDs == {a \in AuthorizationIDs : redemptions[a] # None}
<1>1. Init => Abstract!AbsInit
  BY DEF Init, Abstract!AbsInit
<1>2. TypeOK /\ [Next]_vars => [Abstract!AbsNext]_(Abstract!absVars)
  <2> SUFFICES ASSUME TypeOK, [Next]_vars
               PROVE  Abstract!AbsNext \/ UNCHANGED Abstract!absVars
    OBVIOUS
  <2>1. ASSUME NEW w \in Workspaces, NEW r \in SeedRevisions, Seed(w, r)
        PROVE  Abstract!AbsNext
    BY <2>1 DEF Seed, Abstract!AbsNext, Abstract!Reseed
  <2>2. ASSUME NEW c \in Commands, PersistNew(c)
        PROVE  Abstract!AbsNext
    <3>1. c.authorization \notin spentIDs
      BY <2>2 DEF PersistNew, Unredeemed
    <3>2. [bytes |-> c.bytes, result |-> Outcome(c)] # None
      BY CommandFields, OutcomeIsResult, NoneAssumption DEF Redemption
    <3>3. spentIDs' = spentIDs \cup {c.authorization}
      BY <2>2, <3>2, CommandFields DEF TypeOK, PersistNew, RecordRedemption
    <3>4. \/ revisions' = [revisions EXCEPT ![c.workspace] = @ + 1]
          \/ UNCHANGED revisions
      BY <2>2, CommandFields DEF TypeOK, PersistNew, RevisionAfter
    <3>5. Abstract!Commit(c.workspace, c.authorization)
      BY <3>1, <3>3, <3>4 DEF Abstract!Commit
    <3> QED
      BY <3>5, CommandFields DEF Abstract!AbsNext
  <2>3. ASSUME NEW c \in Commands, PersistReplay(c)
        PROVE  UNCHANGED Abstract!absVars
    BY <2>3 DEF PersistReplay, codeVars, Abstract!absVars
  <2>4. CASE UNCHANGED vars
    BY <2>4 DEF vars, codeVars, Abstract!absVars
  <2> QED
    BY <2>1, <2>2, <2>3, <2>4 DEF Next
<1> QED
  BY <1>1, <1>2, TypeCorrect, PTL
  DEF Spec, ImplementsAuthorizedCommits, Abstract!AbsSpec

------------------------------------------------------------------------------
(***************************************************************************)
(* Why the outbox accounts for every revision: an applied command adds one *)
(* to the revision and one event to those since the seed, a conflict none  *)
(* to either, and seeding begins both anew.                                *)
(***************************************************************************)
Accounts == Bases /\ OutboxExplainsRevision

\* The events since a seed are finitely many.
LEMMA AppliedIsFinite ==
    ASSUME TypeOK, NEW w \in Workspaces
    PROVE  /\ IsFiniteSet(AppliedSinceSeed(w))
           /\ AppliedSinceSeed(w) \subseteq 1 .. Len(outbox)
<1>1. Len(outbox) \in Nat /\ DOMAIN outbox = 1 .. Len(outbox)
  BY DEF TypeOK
<1>2. IsFiniteSet(1 .. Len(outbox))
  BY <1>1, FS_Interval
<1>3. AppliedSinceSeed(w) \subseteq 1 .. Len(outbox)
  BY <1>1 DEF AppliedSinceSeed
<1> QED
  BY <1>2, <1>3, FS_Subset

\* A decision adds its event to those of its workspace exactly if it is applied.
LEMMA AppliedGrows ==
    ASSUME TypeOK, Len(accepted) = Len(outbox), \A u \in Workspaces : seeded[u].at <= Len(outbox),
           NEW c \in Commands, PersistNew(c), NEW w \in Workspaces
    PROVE  AppliedSinceSeed(w)' =
               IF c.workspace = w /\ RevisionMatches(c)
               THEN AppliedSinceSeed(w) \cup {Len(outbox) + 1}
               ELSE AppliedSinceSeed(w)
<1> DEFINE n == Len(outbox) + 1
<1>1. /\ DOMAIN outbox' = DOMAIN outbox \cup {n}
      /\ outbox'[n] = [workspace |-> c.workspace, result |-> Outcome(c)]
      /\ \A i \in DOMAIN outbox : outbox'[i] = outbox[i]
      /\ seeded' = seeded
  BY DecidedIsAppended DEF PersistNew
<1>2. n > seeded[w].at
  BY DEF TypeOK
<1>3. Outcome(c).outcome = Applied <=> RevisionMatches(c)
  BY DEF Outcome, Applied, Conflict
<1>4. \A i \in DOMAIN outbox : i \in AppliedSinceSeed(w)' <=> i \in AppliedSinceSeed(w)
  BY <1>1 DEF AppliedSinceSeed
<1>5. n \in AppliedSinceSeed(w)' <=> c.workspace = w /\ RevisionMatches(c)
  BY <1>1, <1>2, <1>3 DEF AppliedSinceSeed
<1>6. AppliedSinceSeed(w)' \subseteq DOMAIN outbox \cup {n} /\ AppliedSinceSeed(w) \subseteq DOMAIN outbox
  BY <1>1 DEF AppliedSinceSeed
<1> HIDE DEF n
<1>7. AppliedSinceSeed(w)' = IF c.workspace = w /\ RevisionMatches(c)
                             THEN AppliedSinceSeed(w) \cup {n}
                             ELSE AppliedSinceSeed(w)
  BY <1>4, <1>5, <1>6
<1> QED
  BY <1>7 DEF n

\* A decision moves the revision by as much as it adds to the events.
LEMMA PersistNewAccounts ==
    ASSUME Accounts, NEW c \in Commands, PersistNew(c), NEW w \in Workspaces
    PROVE  revisions'[w] = seeded'[w].revision + Cardinality(AppliedSinceSeed(w)')
<1>1. /\ TypeOK /\ Len(accepted) = Len(outbox)
      /\ \A u \in Workspaces : seeded[u].at <= Len(outbox)
      /\ revisions[w] = seeded[w].revision + Cardinality(AppliedSinceSeed(w))
  BY DEF Accounts, Bases, OutboxExplainsRevision
<1>2. /\ IsFiniteSet(AppliedSinceSeed(w))
      /\ Cardinality(AppliedSinceSeed(w)) \in Nat
      /\ Len(outbox) + 1 \notin AppliedSinceSeed(w)
  <2>1. Len(outbox) \in Nat
    BY <1>1 DEF TypeOK
  <2> QED
    BY <1>1, <2>1, AppliedIsFinite, FS_CardinalityType
<1>3. seeded' = seeded /\ seeded[w].revision \in Nat /\ revisions[w] \in Nat
  BY <1>1 DEF TypeOK, PersistNew
<1>4. revisions'[w] = IF c.workspace = w /\ RevisionMatches(c)
                      THEN revisions[w] + 1 ELSE revisions[w]
  BY <1>1, CommandFields DEF TypeOK, PersistNew, RevisionAfter
<1>5. AppliedSinceSeed(w)' = IF c.workspace = w /\ RevisionMatches(c)
                             THEN AppliedSinceSeed(w) \cup {Len(outbox) + 1}
                             ELSE AppliedSinceSeed(w)
  BY <1>1, AppliedGrows
<1>6. Cardinality(AppliedSinceSeed(w) \cup {Len(outbox) + 1}) =
          Cardinality(AppliedSinceSeed(w)) + 1
  BY <1>2, FS_AddElement
<1> QED
  BY <1>1, <1>2, <1>3, <1>4, <1>5, <1>6

\* Since its seed the revision of a page has moved by one for every applied event
\* in the outbox, and by nothing else (fake.go:189-206).
THEOREM OutboxAccounts == Spec => []OutboxExplainsRevision
<1>1. Init => OutboxExplainsRevision
  <2> SUFFICES ASSUME Init PROVE OutboxExplainsRevision
    OBVIOUS
  <2>1. \A w \in Workspaces : AppliedSinceSeed(w) = {}
    BY DEF Init, AppliedSinceSeed
  <2> QED
    <3>1. \A w \in Workspaces : revisions[w] = 0 /\ seeded[w].revision = 0
      BY DEF Init
    <3>2. \A w \in Workspaces : Cardinality(AppliedSinceSeed(w)) = 0
      BY <2>1, FS_EmptySet
    <3> QED
      BY <3>1, <3>2 DEF OutboxExplainsRevision
<1>2. Bases /\ OutboxExplainsRevision /\ [Next]_vars => OutboxExplainsRevision'
  <2> SUFFICES ASSUME Accounts, [Next]_vars PROVE OutboxExplainsRevision'
    BY DEF Accounts
  <2>1. ASSUME UNCHANGED <<revisions, outbox, seeded>>
        PROVE  OutboxExplainsRevision'
    BY <2>1 DEF Accounts, OutboxExplainsRevision, AppliedSinceSeed
  <2>2. ASSUME NEW w \in Workspaces, NEW r \in SeedRevisions, Seed(w, r)
        PROVE  OutboxExplainsRevision'
    <3>1. /\ seeded' = [seeded EXCEPT ![w] = [at |-> Len(outbox), revision |-> r]]
          /\ revisions' = [revisions EXCEPT ![w] = r]
          /\ outbox' = outbox
          /\ TypeOK
      BY <2>2 DEF Seed, Accounts, Bases
    <3>2. AppliedSinceSeed(w)' = {}
      BY <3>1 DEF TypeOK, AppliedSinceSeed
    <3>3. /\ seeded'[w].revision = r /\ revisions'[w] = r
          /\ r \in Nat
      BY <3>1, SeedRevisionsAssumption DEF TypeOK
    <3>4. ASSUME NEW u \in Workspaces, u # w
          PROVE  revisions'[u] = seeded'[u].revision + Cardinality(AppliedSinceSeed(u)')
      <4>1. seeded'[u] = seeded[u] /\ revisions'[u] = revisions[u]
        BY <3>1, <3>4 DEF TypeOK
      <4>2. AppliedSinceSeed(u)' = AppliedSinceSeed(u)
        BY <3>1, <4>1 DEF AppliedSinceSeed
      <4> QED
        BY <4>1, <4>2 DEF Accounts, OutboxExplainsRevision
    <3> QED
      BY <3>2, <3>3, <3>4, FS_EmptySet DEF OutboxExplainsRevision
  <2>3. ASSUME NEW c \in Commands, PersistNew(c)
        PROVE  OutboxExplainsRevision'
    BY <2>3, PersistNewAccounts DEF OutboxExplainsRevision
  <2>4. ASSUME NEW c \in Commands, PersistReplay(c)
        PROVE  OutboxExplainsRevision'
    BY <2>1, <2>4 DEF PersistReplay, codeVars
  <2>5. CASE UNCHANGED vars
    BY <2>1, <2>5 DEF vars, codeVars
  <2> QED
    BY <2>2, <2>3, <2>4, <2>5 DEF Next
<1>3. Spec => []Bases
  BY BasesHold
<1> QED
  BY <1>1, <1>2, <1>3, PTL DEF Spec

------------------------------------------------------------------------------
(***************************************************************************)
(* Why all readers agree: an answer is on record with the event of its     *)
(* request, so a new key has no answer yet and a known one has only the    *)
(* answer that is given again; and the effect of an operation is that of   *)
(* its last event, since each decision writes both.                        *)
(***************************************************************************)
Agreed == Commits /\ AnswersAgree

\* The events of an operation.
Own(w, o) == {i \in DOMAIN outbox : /\ outbox[i].workspace = w
                                    /\ outbox[i].result.operation = o}

\* The effect that is recorded for it.
EffectIsLastOf(w, o) ==
    /\ Own(w, o) = {} => effects[<<w, o>>] = None
    /\ Own(w, o) # {} => \E i \in Own(w, o) : /\ \A j \in Own(w, o) : j <= i
                                              /\ effects[<<w, o>>] = outbox[i].result

\* The same for all of them.
LEMMA EffectsAreLast ==
    EffectIsLastEvent <=> \A w \in Workspaces, o \in OperationIDs : EffectIsLastOf(w, o)
BY DEF EffectIsLastEvent, EffectIsLastOf, Own

\* The same in the next state.
LEMMA EffectsAreLastNext ==
    EffectIsLastEvent' <=> (\A w \in Workspaces, o \in OperationIDs : EffectIsLastOf(w, o))'
BY EffectsAreLast, PTL

\* What every answer has on record.
Answered(x) ==
    \E i \in DOMAIN outbox : /\ accepted[i].workspace = x[1]
                             /\ accepted[i].key = x[2]
                             /\ accepted[i].digest = x[3]
                             /\ outbox[i].result = x[4]

\* A decision records the effect that its event tells of.
LEMMA PersistNewEffects ==
    ASSUME Agreed, NEW c \in Commands, PersistNew(c)
    PROVE  EffectIsLastEvent'
<1> DEFINE n == Len(outbox) + 1
<1>1. /\ DOMAIN outbox' = DOMAIN outbox \cup {n}
      /\ outbox'[n] = [workspace |-> c.workspace, result |-> Outcome(c)]
      /\ \A i \in DOMAIN outbox : outbox'[i] = outbox[i]
      /\ n \in Nat
      /\ \A i \in DOMAIN outbox : i \in Nat /\ i < n
  <2>1. /\ n \in Nat
        /\ \A i \in DOMAIN outbox : i \in Nat /\ i < n
    BY DEF Agreed, Commits, TypeOK
  <2> QED
    BY <2>1, DecidedIsAppended DEF Agreed, Commits
<1>2. effects' = [effects EXCEPT ![<<c.workspace, c.operation>>] = Outcome(c)]
  BY DEF PersistNew, RecordEffect
<1>3. ASSUME NEW w \in Workspaces, NEW o \in OperationIDs
      PROVE  EffectIsLastOf(w, o)'
  <2>1. CASE w = c.workspace /\ o = c.operation
    <3>1. n \in Own(w, o)'
      BY <1>1, <2>1 DEF Own, Outcome
    <3>2. \A j \in Own(w, o)' : j <= n
      BY <1>1 DEF Own
    <3>3. effects'[<<w, o>>] = outbox'[n].result
      BY <1>1, <1>2, <2>1, CommandFields DEF Agreed, Commits, TypeOK
    <3> QED
      BY <3>1, <3>2, <3>3 DEF EffectIsLastOf
  <2>2. CASE ~(w = c.workspace /\ o = c.operation)
    <3>1. Own(w, o)' = Own(w, o)
      <4>1. n \notin Own(w, o)'
        BY <1>1, <2>2 DEF Own, Outcome
      <4> QED
        BY <1>1, <4>1 DEF Own
    <3>2. effects'[<<w, o>>] = effects[<<w, o>>]
      BY <1>2, <2>2 DEF Agreed, Commits, TypeOK
    <3>3. \A i \in Own(w, o) : outbox'[i] = outbox[i]
      BY <1>1 DEF Own
    <3>4. EffectIsLastOf(w, o)
      BY EffectsAreLast DEF Agreed, AnswersAgree
    <3> QED
      BY <3>1, <3>2, <3>3, <3>4 DEF EffectIsLastOf
  <2> QED
    BY <2>1, <2>2
<1> QED
  BY <1>3, EffectsAreLastNext

\* A decided command is the first one of its key that is answered.
LEMMA PersistNewAnswers ==
    ASSUME Agreed, NEW c \in Commands, PersistNew(c)
    PROVE  /\ \A x \in answers' : Answered(x)'
           /\ \A x, y \in answers' : x[1] = y[1] /\ x[2] = y[2] => x = y
<1> DEFINE new == <<c.workspace, c.key, c.digest, Outcome(c)>>
           n == Len(outbox) + 1
<1>1. answers' = answers \cup {new}
  BY DEF PersistNew
<1>2. /\ \A x \in answers : Answered(x)
      /\ \A x, y \in answers : x[1] = y[1] /\ x[2] = y[2] => x = y
  BY DEF Agreed, AnswersAgree, Answered
<1>3. /\ DOMAIN outbox' = DOMAIN outbox \cup {n}
      /\ outbox'[n] = [workspace |-> c.workspace, result |-> Outcome(c)]
      /\ accepted'[n] = c
      /\ \A i \in DOMAIN outbox : outbox'[i] = outbox[i] /\ accepted'[i] = accepted[i]
  BY DecidedIsAppended DEF Agreed, Commits
<1> HIDE DEF n
<1>4. ASSUME NEW x \in answers'
      PROVE  Answered(x)'
  <2>1. CASE x \in answers
    <3>1. PICK i \in DOMAIN outbox : /\ accepted[i].workspace = x[1]
                                     /\ accepted[i].key = x[2]
                                     /\ accepted[i].digest = x[3]
                                     /\ outbox[i].result = x[4]
      BY <1>2, <2>1 DEF Answered
    <3> QED
      BY <1>3, <3>1 DEF Answered
  <2>2. CASE x = new
    <3>1. n \in DOMAIN outbox' /\ outbox'[n].result = Outcome(c)
      BY <1>3
    <3>2. x[1] = c.workspace /\ x[2] = c.key /\ x[3] = c.digest /\ x[4] = Outcome(c)
      BY <2>2
    <3> QED
      BY <1>3, <3>1, <3>2 DEF Answered
  <2> QED
    BY <1>1, <2>1, <2>2
<1>5. \A x \in answers : ~(x[1] = c.workspace /\ x[2] = c.key)
  BY <1>2, DecidedIsNew DEF Agreed, Answered
<1>6. \A x, y \in answers' : x[1] = y[1] /\ x[2] = y[2] => x = y
  BY <1>1, <1>2, <1>5
<1> QED
  BY <1>4, <1>6

\* A repeated one is answered as all the others of its key were.
LEMMA PersistReplayAnswers ==
    ASSUME Agreed, NEW c \in Commands, PersistReplay(c)
    PROVE  /\ \A x \in answers' : Answered(x)'
           /\ \A x, y \in answers' : x[1] = y[1] /\ x[2] = y[2] => x = y
<1> DEFINE again == <<c.workspace, c.key, c.digest, ReplayAnswer(c)>>
<1>1. answers' = answers \cup {again} /\ UNCHANGED <<outbox, accepted>>
  BY DEF PersistReplay, codeVars
<1>2. /\ \A x \in answers : Answered(x)
      /\ \A x, y \in answers : x[1] = y[1] /\ x[2] = y[2] => x = y
      /\ answers \subseteq (Workspaces \X Keys \X Digests \X Result)
  BY DEF Agreed, AnswersAgree, Answered, Commits, TypeOK
<1>3. \A i \in DOMAIN outbox :
          accepted[i].workspace = c.workspace /\ accepted[i].key = c.key =>
              /\ accepted[i].digest = c.digest
              /\ outbox[i].result = ReplayAnswer(c)
  <2> SUFFICES ASSUME NEW i \in DOMAIN outbox,
                      accepted[i].workspace = c.workspace, accepted[i].key = c.key
               PROVE  /\ accepted[i].digest = c.digest
                      /\ outbox[i].result = ReplayAnswer(c)
    OBVIOUS
  <2>1. idempotency[<<c.workspace, c.key>>] =
            [digest |-> accepted[i].digest, result |-> outbox[i].result]
    BY DEF Agreed, Commits, AtomicCommit
  <2>2. idempotency[<<c.workspace, c.key>>].digest = c.digest
    BY DEF PersistReplay, Repeated
  <2> QED
    BY <2>1, <2>2 DEF ReplayAnswer
<1>4. PICK i \in DOMAIN outbox : accepted[i].workspace = c.workspace /\ accepted[i].key = c.key
  BY CommandFields DEF Agreed, Commits, AtomicCommit, PersistReplay, Repeated
<1>5. Answered(again)
  BY <1>3, <1>4 DEF Answered
<1>6. ASSUME NEW x \in answers, x[1] = c.workspace, x[2] = c.key
      PROVE  x = again
  <2>1. x[3] = c.digest /\ x[4] = ReplayAnswer(c)
    BY <1>2, <1>3, <1>6 DEF Answered
  <2>2. x = <<x[1], x[2], x[3], x[4]>>
    BY <1>2
  <2> QED
    BY <1>6, <2>1, <2>2
<1>7. ASSUME NEW x \in answers'
      PROVE  Answered(x)'
  <2>1. Answered(x)
    BY <1>1, <1>2, <1>5
  <2> QED
    BY <1>1, <2>1 DEF Answered
<1> QED
  BY <1>1, <1>2, <1>6, <1>7

\* All callers of one key are told one result, that of the event, and the effect
\* of an operation is that of its last event (fake.go:171-177, 203-206).
THEOREM ReadersAgree == Spec => []AnswersAgree
<1>1. Init => AnswersAgree
  <2> SUFFICES ASSUME Init PROVE AnswersAgree
    OBVIOUS
  <2>1. DOMAIN outbox = {} /\ answers = {}
    BY DEF Init
  <2>2. EffectIsLastEvent
    <3>1. \A w \in Workspaces, o \in OperationIDs : EffectIsLastOf(w, o)
      BY <2>1 DEF Init, EffectIsLastOf, Own
    <3> QED
      BY <3>1, EffectsAreLast
  <2> QED
    BY <2>1, <2>2 DEF AnswersAgree
<1>2. Commits /\ AnswersAgree /\ [Next]_vars => AnswersAgree'
  <2> SUFFICES ASSUME Agreed, [Next]_vars PROVE AnswersAgree'
    BY DEF Agreed
  <2>1. ASSUME UNCHANGED <<outbox, effects>>
        PROVE  EffectIsLastEvent'
    <3>1. \A w \in Workspaces, o \in OperationIDs : EffectIsLastOf(w, o)
      BY EffectsAreLast DEF Agreed, AnswersAgree
    <3>2. ASSUME NEW w \in Workspaces, NEW o \in OperationIDs
          PROVE  EffectIsLastOf(w, o)'
      <4>1. Own(w, o)' = Own(w, o)
        BY <2>1 DEF Own
      <4> QED
        BY <2>1, <3>1, <4>1 DEF EffectIsLastOf
    <3> QED
      BY <3>2, EffectsAreLastNext
  <2>2. ASSUME NEW w \in Workspaces, NEW r \in SeedRevisions, Seed(w, r)
        PROVE  AnswersAgree'
    BY <2>1, <2>2 DEF Seed, Agreed, AnswersAgree
  <2>3. ASSUME NEW c \in Commands, PersistNew(c)
        PROVE  AnswersAgree'
    BY <2>3, PersistNewEffects, PersistNewAnswers DEF AnswersAgree, Answered
  <2>4. ASSUME NEW c \in Commands, PersistReplay(c)
        PROVE  AnswersAgree'
    BY <2>1, <2>4, PersistReplayAnswers DEF AnswersAgree, Answered, PersistReplay, codeVars
  <2>5. CASE UNCHANGED vars
    BY <2>1, <2>5 DEF vars, codeVars, Agreed, AnswersAgree
  <2> QED
    BY <2>2, <2>3, <2>4, <2>5 DEF Next
<1>3. Spec => []Commits
  BY CommitsHold
<1> QED
  BY <1>1, <1>2, <1>3, PTL DEF Spec
=============================================================================
