----------------------------- MODULE DocumentRelay -----------------------------
(*****************************************************************************)
(* A document of the contracts on its way through programs that use the Go   *)
(* bindings: each reads it with the binding of its type (json.Unmarshal) and *)
(* writes what it has read (json.Marshal) for the next one.  The first       *)
(* program takes the identity of the document, a root document also declares *)
(* its own; both are looked at again behind every program.                   *)
(*****************************************************************************)
EXTENDS ContractDocuments

CONSTANTS
    Documents,  \* the documents that set out
    MaxHops     \* bound: programs on the way

\* A document of a type of the contracts, with a value for each of its fields.
IsDocument(d) ==
    /\ d = Document(d.type, d.form, [f \in DOMAIN Shape[d.type] |-> d.fields[f]])
    /\ d.type \in Types
    /\ d.form \in Forms
    /\ \A f \in DOMAIN Shape[d.type] : d.fields[f] \in Values(Shape[d.type][f])

ASSUME RelayAssumption == /\ \A d \in Documents : IsDocument(d)
                          /\ MaxHops \in Nat

VARIABLES
    original,  \* the document that set out
    doc,       \* the text that the next program gets
    value,     \* what the current program has read, Refused when it has not
    hops,      \* programs that have written the document
    previous   \* history: the text before the last program

relayVars == <<original, doc, value, hops, previous>>

\* A document that validation lets through.
Valid(d) == Admit(d) /\ Errors(d) = {}

TypeOK ==
    /\ IsDocument(doc)
    /\ doc.type = original.type
    /\ value = Refused \/ value.type = doc.type
    /\ hops \in 0..MaxHops

RelayInit ==
    /\ original \in Documents
    /\ doc = original
    /\ value = Refused
    /\ hops = 0
    /\ previous = original

\* The next program reads the document, unless its binding refuses it.
Unmarshal ==
    /\ hops < MaxHops
    /\ value = Refused
    /\ Accepts(doc)
    /\ value' = UnmarshalJSON(doc)
    /\ UNCHANGED <<original, doc, hops, previous>>

\* It writes the document for the one after it.
Marshal ==
    /\ value # Refused
    /\ doc' = MarshalJSON(value)
    /\ previous' = doc
    /\ value' = Refused
    /\ hops' = hops + 1
    /\ UNCHANGED original

RelayNext == Unmarshal \/ Marshal

RelaySpec == RelayInit /\ [][RelayNext]_relayVars

------------------------------------------------------------------------------
(* What a document is known by. *)

Purpose == <<97>>
MediaType == <<97, 47, 97>>

Identity(d) == Component(d, Purpose, MediaType, {Purpose}).digest

\* What a root document declares: the digest that the document that set out gets.
Declared ==
    IF original.fields["digest"] = "good" THEN BomDigest(Canonical(Collapsed(original)))
    ELSE Refused

IsRoot == original.type = "ContractBom"

\* The values by which a document changes its identity though it is valid.
Unfaithful(kind, v) ==
    \/ kind.sort = "instant" /\ v = "whole"
    \/ kind.sort \in Collections /\ kind.optional /\ v = "empty"

Faithful(d) ==
    /\ d.form # "half"
    /\ \A f \in DOMAIN Shape[d.type] : ~Unfaithful(Shape[d.type][f], d.fields[f])

\* The values that are read as others, which the schema admits.
Mended(kind, v) ==
    \/ v = "null" /\ kind.sort \in Counts \cup {"flag", "text"}
    \/ v = "null" /\ kind.optional
    \/ v = "minusZero"
    \/ v = "loose" /\ kind.sort = "moment"
    \/ v = "respelled" /\ kind.sort = "instant"
    \/ v = "nullItem" /\ kind.sort = "table"

------------------------------------------------------------------------------
(* Properties. *)

\* The first program settles how a document is written: every later one can read
\* it and writes it as it came.
WrittenIsStable ==
    hops > 0 => /\ Accepts(doc)
                /\ hops > 1 => doc = previous

\* Validation does not let a document through that the binding refuses, but for
\* whole numbers that are written with a fraction, the leap second, and a time.Time
\* that is written with an escape.
ValidatedIsBound ==
    Valid(doc) /\ ~Accepts(doc) =>
        \E f \in DOMAIN doc.fields : doc.fields[f] \in {"fraction", "leap", "escaped"}

\* A valid document has the same identity at the end of the way, and a root
\* document still declares it, unless it holds a time.Time with a fraction that
\* ends in a zero, an optional collection without an entry, or half a surrogate
\* pair, with which it has no identity.
IdentitySurvives ==
    Valid(original) /\ Faithful(original) =>
        /\ Identity(doc) = Identity(original)
        /\ IsRoot /\ Verified(original, Declared) => Verified(doc, Declared)

\* A document that validation would have refused is still refused behind the
\* programs that have read and written it, unless all that is wrong with it are
\* blanks beyond the limit of its size, bytes that are not UTF-8, and fields that the
\* bindings mend: null for a zero value, -0, a comma or an hour of one digit in a
\* timestamp, another spelling of a time.Time, and an entry of a map that is null.
LaunderedIsKnown ==
    hops > 0 /\ Valid(doc) =>
        /\ original.form \in {"clean", "half", "oversized", "bytes"}
        /\ \A f \in DOMAIN Shape[original.type] :
               LET kind == Shape[original.type][f]
                   v == original.fields[f]
               IN  (Admissible(kind, v) /\ AdmittedNumber(v)) \/ Mended(kind, v)

\* A root document whose digest is verified is one that strict admission lets
\* through, unless a field of its root comes twice, the name of one is not UTF-8, or
\* blanks make it too large.
RootIsAdmitted ==
    IsRoot /\ Verified(doc, Declared) =>
        Admit(doc) \/ doc.form \in {"twice", "nameBytes", "oversized"}

\* "a timestamp in any other shape is rejected at the boundary rather than
\* silently normalized later" (the comment on UnmarshalJSON of the timestamps,
\* contracts.gen.go:18049-18051): no program writes another timestamp than the
\* one that it read.
NothingIsNormalized ==
    \A f \in DOMAIN Shape[original.type] :
        Shape[original.type][f].sort = "moment" => doc.fields[f] = original.fields[f]
=============================================================================
