-------------------------- MODULE ContractDocuments --------------------------
(*****************************************************************************)
(* What packages/contracts-go does with the text of a document before any    *)
(* binding sees it: strict admission and validation                          *)
(* (validator/validator.go), RFC 8785 canonicalization                       *)
(* (canonicalizer/jcs.go), the identities (identity/identity.go) and the     *)
(* signatures (signature/ed25519.go).                                        *)
(*                                                                           *)
(* A digest is the sequence of bytes that it is taken of.  A purpose and a   *)
(* media type are sequences of character codes, of which these matter: 0,    *)
(* the space (32), the slash (47) and any other one.  A canonical document   *)
(* is one element of a sequence: there is no zero byte in it.                *)
(*****************************************************************************)
EXTENDS SchemaBindings, Sequences, FiniteSetsExt

CONSTANT MaximumFindings  \* maximumFindingCount

ASSUME FindingsAssumption == MaximumFindings \in Nat \ {0}

------------------------------------------------------------------------------
(* Admission, canonicalization and validation. *)

\* decodeValue refuses -0 and an integer that is not safe, wherever they are.
AdmittedNumber(v) == v \notin {"minusZero", "unsafe"}

\* Admit: the limits of size and depth, the encoding, names that come twice, and
\* one value only.  It knows no type: a field more is none of its business; and its
\* decoder reads the escape of half a pair as U+FFFD.
Admit(doc) ==
    /\ doc.form \in {"clean", "extra", "null", "half", "nameHalf"}
    /\ \A f \in DOMAIN doc.fields : AdmittedNumber(doc.fields[f])

\* Two documents with the same canonical form differ only in what RFC 8785 does
\* away with: the order of the fields, how a number is written, and escapes.
Canonical(doc) ==
    [doc EXCEPT !.fields = [f \in DOMAIN doc.fields |->
        IF doc.fields[f] \in {"fraction", "escaped"} THEN "good" ELSE doc.fields[f]]]

\* What is admitted has a canonical form, but for half a pair (jcs_test.go:15).
Canonicalize(doc) ==
    IF Admit(doc) /\ doc.form \notin {"half", "nameHalf"} THEN Canonical(doc) ELSE Refused

\* A finding: where it is, and the keyword at the end of its schemaPath.
Finding(at, keyword) == [at |-> at, keyword |-> keyword]

\* What the schema of its type finds wrong with an admitted document: in which way
\* a value is wrong stands for the keyword that says so.
Errors(doc) ==
    IF doc.form = "null" THEN {Finding("/", "type")}
    ELSE {Finding(f, doc.fields[f]) :
             f \in {g \in DOMAIN doc.fields : ~Admissible(Shape[doc.type][g], doc.fields[g])}}
         \cup {Finding("/", "additionalProperties") :
                   form \in {doc.form} \cap {"extra", "nameHalf"}}

\* flatten collects errors up to a limit, in the order in which the validator has
\* met them (that of a Go map), and says whether there were more.
Flattened(errors, limit) ==
    IF Cardinality(errors) <= limit
    THEN {[findings |-> errors, more |-> FALSE]}
    ELSE {[findings |-> kept, more |-> TRUE] : kept \in kSubset(limit, errors)}

\* The findings that no schema makes; one stands for those that are left out.
Profile(rule) == Finding("/profile", rule)
FindingLimit == Profile("findingLimit")

\* The possible answers of Validate, the schema of the document's type being one
\* of the compiled ones or not.
Validate(compiled, doc) ==
    CASE ~Admit(doc) -> {{Profile("strictAdmission")}}
      [] Admit(doc) /\ doc.type \notin compiled -> {{Profile("closedResolver")}}
      [] OTHER -> {flat.findings \cup (IF flat.more THEN {FindingLimit} ELSE {}) :
                      flat \in Flattened(Errors(doc), MaximumFindings - 1)}

\* A schema directory: what New makes of each of its entries, and whether the
\* compiler takes them all.
Schemas(entries) == {e \in entries : e.file /\ e.schema}
New(entries, MaximumSchemas) ==
    IF \/ Cardinality(entries) > MaximumSchemas
       \/ \E e \in Schemas(entries) : e.link \/ e.large \/ ~e.admitted \/ ~e.metadata \/ ~e.compiles
    THEN Refused
    ELSE {e.type : e \in Schemas(entries)}

------------------------------------------------------------------------------
(* Identities. *)

validPrintableASCII(text) == text # <<>> /\ \A i \in DOMAIN text : text[i] > 32

\* Two names around one slash.
mediaType(text) ==
    \E i \in DOMAIN text :
        /\ 1 < i /\ i < Len(text)
        /\ \A j \in DOMAIN text : text[j] = 47 <=> j = i

\* The purpose that only the root document uses.
ContractBomPurpose == <<98, 111, 109>>

ComponentDomain == "anvilkit.component.identity.v1"
BomDomain == "anvilkit.contract-bom.identity.v1"

BugUnseparated(purpose, contentType, canonical) ==
    <<ComponentDomain, 0>> \o purpose \o contentType \o <<0, canonical>>

\* wireDigest of the domain and the parts, with a zero byte behind each.
ComponentDigest(purpose, contentType, canonical) ==
    <<ComponentDomain, 0>> \o purpose \o <<0>> \o contentType \o <<0, canonical>>

Unidentified(code) == [code |-> code, digest |-> Refused]

\* Component: the digest, the code of a profile error, or another error.
Component(doc, purpose, contentType, allowed) ==
    CASE ~validPrintableASCII(purpose) -> Unidentified("IDENTITY_PURPOSE_INVALID")
      [] purpose = ContractBomPurpose -> Unidentified("IDENTITY_PURPOSE_RESERVED")
      [] purpose \notin allowed -> Unidentified("IDENTITY_PURPOSE_UNKNOWN")
      [] ~(validPrintableASCII(contentType) /\ mediaType(contentType)) ->
             Unidentified("IDENTITY_MEDIA_TYPE_INVALID")
      [] Canonicalize(doc) = Refused -> Unidentified("error")
      [] OTHER -> [code |-> "",
                   digest |-> ComponentDigest(purpose, contentType, Canonicalize(doc))]

\* The root document's identity is taken without its digest field.
WithoutDigest(doc) == [doc EXCEPT !.fields["digest"] = "absent"]

BomDigest(canonical) ==
    <<BomDomain, 0, "application/vnd.anvilkit.contract-bom+json", 0, WithoutDigest(canonical)>>

\* json.Unmarshal takes the document apart before anything is admitted: of two
\* fields with one name the last is left, blanks are gone, what is no character in a
\* name has become U+FFFD, and what is admitted then is the rest without its digest.
Collapsed(doc) ==
    CASE doc.form \in {"twice", "oversized"} -> [doc EXCEPT !.form = "clean"]
      [] doc.form \in {"nameBytes", "nameHalf"} -> [doc EXCEPT !.form = "extra"]
      [] OTHER -> doc

BugUnadmitted(doc) ==
    IF doc.form \in {"null", "trailing", "mark"} THEN Unidentified("BOM_SHAPE_INVALID")
    ELSE [code |-> "", digest |-> BomDigest(Canonical(doc))]

\* ContractBOM: the digest, or the code of the error.
ContractBOM(doc) ==
    CASE doc.form \in {"null", "trailing", "mark"} -> Unidentified("BOM_SHAPE_INVALID")
      [] doc.fields["digest"] = "absent" -> Unidentified("BOM_DIGEST_MISSING")
      [] Canonicalize(Collapsed(doc)) = Refused -> Unidentified("error")
      [] OTHER -> [code |-> "", digest |-> BomDigest(Canonical(Collapsed(doc)))]

\* ... and whether the document declares the digest.
Verified(doc, declared) ==
    LET root == ContractBOM(doc) IN root.code = "" /\ root.digest = declared

------------------------------------------------------------------------------
(* Signatures. *)

\* The lengths come before what they are the lengths of.
PreAuthEncoding(payloadType, payload) ==
    <<"DSSEv1", Len(payloadType)>> \o payloadType \o <<Len(payload)>> \o payload

\* A seed that has not its 32 bytes has no key.
Sign(seed, message) ==
    IF seed.whole THEN [key |-> seed.key, message |-> message, first |-> 0] ELSE Refused

\* A signature verifies the message that it was made of, and is whole itself.
Verify(publicKey, message, signature) ==
    signature = [key |-> publicKey, message |-> message, first |-> 0]
=============================================================================
