---------------------------- MODULE MCContractTools ----------------------------
(*****************************************************************************)
(* A document on its way (DocumentRelay) or a conformance runner at work     *)
(* (Conformance): the initial state says which of the two it is, the other   *)
(* one stands still.                                                         *)
(*                                                                           *)
(* The repository: a case of every sort in each corpus, and other states of  *)
(* each part, which fit the others or do not.                                *)
(*****************************************************************************)
EXTENDS MCDocumentRelay, Conformance, TLC

------------------------------------------------------------------------------
Lease == Document("WorkerLease", "clean", AllGood("WorkerLease"))
With(f, v) == [Lease EXCEPT !.fields[f] = v]
Projection(r) == Document("RegistrySetValues", "clean", [projection |-> r])

NoFinding == Finding("/", "none")

Fixture(id, d, valid, finding) ==
    [id |-> id, path |-> id, bytes |-> d, schema |-> d.type, parse |-> "accepted",
     valid |-> valid, findings |-> IF valid THEN <<>> ELSE <<finding>>,
     profile |-> finding = Profile("rule"), go |-> TRUE]

ManifestOf(second, registry, last) ==
    [version |-> 1,
     cases |-> << Fixture(1, Lease, TRUE, NoFinding), second,
                  Fixture(3, Lease, FALSE, Profile("rule")),
                  Fixture(4, Projection(registry), TRUE, NoFinding),
                  Fixture(5, Document("AgentTask", "clean", AllGood("AgentTask")), FALSE, last) >>]

Refusable == With("leaseEpoch", "below")
Mixed == [Refusable EXCEPT !.fields["kind"] = "other", !.fields["owner"] = "other"]
FixturesOf(manifest) == [i \in 1..5 |-> manifest.cases[i].bytes]

M1 == ManifestOf(Fixture(2, Refusable, FALSE, Finding("owner", "below")), "r1",
                 Profile("closedResolver"))
M2 == ManifestOf(Fixture(2, With("kind", "other"), TRUE, NoFinding), "r2", ClosedReferences)
M3 == ManifestOf(Fixture(2, Mixed, FALSE, Finding("leaseEpoch", "below")), "r1",
                 ClosedReferences)

SchemaFile(type, admitted) ==
    [file |-> TRUE, schema |-> TRUE, link |-> FALSE, large |-> FALSE,
     admitted |-> admitted, metadata |-> TRUE, compiles |-> TRUE, type |-> type]

------------------------------------------------------------------------------
P1 == <<97>>
P2 == <<97, 98>>
T1 == <<98, 97, 47, 97>>
T2 == <<97, 47, 97>>

ComponentCase(id, d, purpose, type, code) ==
    [id |-> id, root |-> FALSE, value |-> [doc |-> d, declared |-> Refused],
     purpose |-> purpose, mediaType |-> type, code |-> code,
     digest |-> IF code = "" THEN ComponentDigest(purpose, type, Canonical(d)) ELSE Refused]

RootCase(id, raw, copyOf, declared, digest, verified, code) ==
    [id |-> id, root |-> TRUE, value |-> raw, copyOf |-> copyOf, declared |-> declared,
     canonical |-> IF raw = Refused \/ code # "" THEN Refused
                   ELSE WithoutDigest(Canonical(Collapsed(raw.doc))),
     digest |-> digest, verified |-> verified, code |-> code]

Bom == Document("ContractBom", "clean", AllGood("ContractBom"))
BomTwice == [Bom EXCEPT !.form = "twice"]
Undeclared == [Bom EXCEPT !.fields["digest"] = "absent"]
D == BomDigest(Canonical(Bom))

IdentityOf(d, root, copied) ==
    [version |-> 1,
     cases |-> << ComponentCase(1, d, P1, T1, ""), ComponentCase(2, Lease, P2, T2, ""),
                  ComponentCase(3, Lease, ContractBomPurpose, T2, "IDENTITY_PURPOSE_RESERVED"),
                  ComponentCase(4, Lease, P1, <<97>>, "IDENTITY_MEDIA_TYPE_INVALID"),
                  RootCase(5, [doc |-> root, declared |-> D], 0, Refused, D, TRUE, ""),
                  RootCase(6, Refused, copied, <<"other">>, D, FALSE, ""),
                  RootCase(7, [doc |-> Undeclared, declared |-> Refused], 0, Refused, Refused,
                           FALSE, "BOM_DIGEST_MISSING") >>]

------------------------------------------------------------------------------
Vector(id, profile, operation, mutation, expected) ==
    [id |-> id, profile |-> profile, operation |-> operation, mutation |-> mutation,
     expected |-> expected]

Recorded(message) == [key |-> "k1", message |-> [text |-> message, last |-> 0], first |-> 0]

SignatureOf(publicKey, whole, last) ==
    [version |-> 1, statement |-> Lease, canonical |-> Canonical(Lease), statementDigest |-> Canonical(Lease),
     payloadType |-> T1, statementType |-> T2, payload |-> <<1, 2>>,
     publicKey |-> publicKey, seed |-> [key |-> "k1", whole |-> whole],
     signatures |->
        [dsse |-> Recorded(PreAuthEncoding(T1, <<1, 2>>)),
         jws |-> Recorded(<<"protected", ".", 1, 2>>)]
        @@ ("runtime-statement" :> Recorded(PreAuthEncoding(T2, <<Canonical(Lease)>>))),
     cases |-> << Vector(1, "dsse", "sign-and-verify", "none", TRUE),
                  Vector(2, "dsse", "verify", "message-last-byte", FALSE),
                  Vector(3, "jws", "sign-and-verify", "signature-first-byte", FALSE),
                  Vector(4, "runtime-statement", "verify", "none", TRUE),
                  Vector(5, "runtime-statement", "sign-and-verify", last, FALSE) >>]

------------------------------------------------------------------------------
Repository(m, fixtures, r, schemas, i, s, a) ==
    [manifest |-> m, fixtures |-> fixtures, schemas |-> schemas,
     registry |-> [projection |-> r, purposes |-> IF r = "r1" THEN {P1, P2} ELSE {P1}],
     identity |-> i, signature |-> s, adapters |-> a]

MCRepositories == {
    Repository(M1, FixturesOf(M1), "r1", {SchemaFile("WorkerLease", TRUE)},
               IdentityOf(Lease, Bom, 5), SignatureOf("k1", TRUE, "signature-first-byte"), "a1"),
    Repository(M2, FixturesOf(M2), "r2", {SchemaFile("WorkerLease", FALSE)},
               IdentityOf(Lease, BomTwice, 6), SignatureOf("k2", TRUE, "message-last-byte"), "a2"),
    Repository(M3, FixturesOf(M3), "r1",
               {SchemaFile("WorkerLease", TRUE), SchemaFile("AgentTask", TRUE)},
               IdentityOf(With("kind", "other"), BomTwice, 7), SignatureOf("k1", FALSE, "none"), "a1")}

------------------------------------------------------------------------------
Init ==
    \/ RelayInit /\ edits = MaxEdits /\ suite = "fixtures" /\ step = "done" /\ iteration = 0
       /\ files = Refused /\ corpus = Refused /\ adapter = Refused /\ queue = <<>>
       /\ report = <<>> /\ output = Refused
    \/ ConformanceInit /\ original = Lease /\ doc = Lease /\ value = Refused
       /\ hops = MaxHops /\ previous = Lease

Next ==
    \/ RelayNext /\ UNCHANGED conformanceVars
    \/ ConformanceNext /\ UNCHANGED relayVars

Spec == Init /\ [][Next]_<<relayVars, conformanceVars>>
=============================================================================
