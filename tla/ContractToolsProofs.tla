-------------------------- MODULE ContractToolsProofs --------------------------
(*****************************************************************************)
(* Proofs about DocumentRelay and Conformance.                               *)
(*                                                                           *)
(* DocumentRelay: for any set of documents of the contracts, whatever their  *)
(* fields hold, and any number of programs.  The lemmas on one field are     *)
(* what the bindings promise field by field; that of a document follows      *)
(* since every field is read and written by itself.                          *)
(*                                                                           *)
(* Conformance: for any repositories, corpora of any length and any edits.   *)
(* The lemmas on one case say what its result is worth; the invariant of a   *)
(* run keeps that of every result in the report, and that the report and the *)
(* queue are the corpus.  That digests tell their parts apart is a fact of   *)
(* sequences: a separator that is in none of the parts.                      *)
(*****************************************************************************)
EXTENDS DocumentRelay, Conformance, FiniteSetTheorems, SequenceTheorems, TLAPS

------------------------------------------------------------------------------
(* One field. *)

\* What the next program writes for a value.
Rewritten(kind, v) == Write(kind, Read(kind, v))

\* What a binding has read: nil, where there may be nothing, or a value that it
\* reads as itself.
IsReading(kind, r) ==
    \/ /\ r = "nil"
       /\ \/ kind.optional
          \/ kind.sort = "fixed"
          \/ kind.sort \in Lists
    \/ r \in Readings \ {"nil"} /\ Read(kind, r) = r

\* Every accepted value is read as one of these.
LEMMA FieldIsRead ==
    ASSUME NEW kind, NEW v \in Values(kind), Read(kind, v) # Refused
    PROVE  IsReading(kind, Read(kind, v))
<1>1. CASE v = "absent" \/ (v = "null" /\ kind.optional)
    BY <1>1 DEF Read, IsReading
<1>2. CASE v = "null" /\ ~kind.optional
    <2>1. Read(kind, v) = ReadNull(kind)
        BY <1>2 DEF Read
    <2>2. CASE kind.sort \in Counts
        <3>1. Read(kind, v) = "zero" /\ kind.floor = 0
            BY <2>1, <2>2 DEF ReadNull, Counts, Lists
        <3>2. Read(kind, "zero") = "zero"
            BY <2>2, <3>1 DEF Read, ReadCount, Counts, Lists
        <3> QED
            BY <3>1, <3>2 DEF IsReading, Readings
    <2>3. CASE kind.sort \in {"text", "flag"}
        <3>1. \/ Read(kind, v) = "empty" /\ kind.sort = "text" /\ kind.floor = 0
              \/ Read(kind, v) = "false" /\ kind.sort = "flag"
            BY <2>1, <2>3 DEF ReadNull, Counts, Lists
        <3>2. Read(kind, Read(kind, v)) = Read(kind, v)
            BY <3>1 DEF Read, Admissible, Counts, Lists
        <3> QED
            BY <3>1, <3>2 DEF IsReading, Readings
    <2>4. CASE kind.sort = "instant"
        <3>1. Read(kind, v) = "yearOne"
            BY <2>1, <2>4 DEF ReadNull, Counts, Lists
        <3>2. Read(kind, "yearOne") = "yearOne"
            BY <2>4 DEF Read, ReadInstant, Counts, Lists
        <3> QED
            BY <3>1, <3>2 DEF IsReading, Readings
    <2>5. CASE kind.sort \notin Counts \cup {"text", "flag", "instant"}
        BY <2>1, <2>5 DEF ReadNull, IsReading, Counts, Lists
    <2> QED
        BY <2>2, <2>3, <2>4, <2>5
<1>3. CASE v \notin {"null", "absent"}
    <2>1. CASE kind.sort \in Counts
        <3>1. Read(kind, v) \in {"good", "zero"} /\ Read(kind, v) = ReadCount(kind, v)
            BY <1>3, <2>1 DEF Read, ReadCount, Counts, Lists
        <3>2. ReadCount(kind, ReadCount(kind, v)) = ReadCount(kind, v)
            BY <3>1 DEF ReadCount
        <3>3. Read(kind, Read(kind, v)) = ReadCount(kind, Read(kind, v))
            BY <2>1, <3>1 DEF Read, Counts, Lists
        <3> QED
            BY <3>1, <3>2, <3>3 DEF IsReading, Readings
    <2>2. CASE kind.sort = "moment"
        <3>1. Read(kind, v) \in {"good", "whole"}
            BY <1>3, <2>2 DEF Read, ReadMoment, Counts, Lists
        <3>2. Read(kind, Read(kind, v)) = Read(kind, v)
            BY <2>2, <3>1 DEF Read, ReadMoment, Counts, Lists
        <3> QED
            BY <3>1, <3>2 DEF IsReading, Readings
    <2>3. CASE kind.sort = "table"
        <3>1. Read(kind, v) \in {"good", "empty"}
            BY <1>3, <2>3 DEF Read, ReadTable, Counts, Lists
        <3>2. Read(kind, Read(kind, v)) = Read(kind, v)
            BY <2>3, <3>1 DEF Read, ReadTable, Counts, Lists
        <3> QED
            BY <3>1, <3>2 DEF IsReading, Readings
    <2>4. CASE kind.sort \in Lists
        <3>1. /\ Read(kind, v) = ReadList(kind, v)
              /\ Read(kind, v) \in {"good", "twins", "badItem", "empty"}
              /\ Read(kind, v) = "empty" => kind.floor = 0
            BY <1>3, <2>4 DEF Read, ReadList, Counts, Lists
        <3>2. Read(kind, Read(kind, v)) = Read(kind, v)
            BY <2>4, <3>1 DEF Read, ReadList, Counts, Lists
        <3> QED
            BY <3>1, <3>2 DEF IsReading, Readings
    <2>5. CASE kind.sort = "instant" /\ v = "respelled"
        <3>1. Read(kind, v) = "good" /\ Read(kind, "good") = "good"
            BY <2>5 DEF Read, ReadInstant, Counts, Lists
        <3> QED
            BY <3>1 DEF IsReading, Readings
    <2>6. CASE /\ kind.sort \notin Counts \cup Lists \cup {"moment", "table"}
               /\ ~(kind.sort = "instant" /\ v = "respelled")
        <3>1. Read(kind, v) = v
            BY <1>3, <2>6 DEF Read, ReadInstant, Counts, Lists
        <3>2. v \in Readings \ {"nil"}
            BY <1>3, <2>6, <3>1
               DEF Read, ReadInstant, Admissible, Values, Readings, Counts, Times, Lists
        <3> QED
            BY <3>1, <3>2 DEF IsReading
    <2> QED
        BY <2>1, <2>2, <2>3, <2>4, <2>5, <2>6
<1> QED
    BY <1>1, <1>2, <1>3

\* What is written for it is read again, and written as it came.
LEMMA ReadingSettles ==
    ASSUME NEW kind, NEW r, IsReading(kind, r)
    PROVE  /\ Read(kind, Write(kind, r)) # Refused
           /\ Rewritten(kind, Write(kind, r)) = Write(kind, r)
<1> USE RefusedAssumption DEF Readings, IsReading, Rewritten
<1>1. CASE r = "nil"
    BY <1>1 DEF Write, Read, ReadNull, Lists, Counts
<1>2. CASE r = "empty" /\ kind.optional /\ kind.sort \in Collections
    BY <1>2 DEF Write, Read
<1>3. CASE r = "whole" /\ kind.sort = "instant"
    BY <1>3 DEF Write, Read, ReadInstant, Counts, Collections, Lists
<1>4. CASE /\ r # "nil"
           /\ ~(r = "empty" /\ kind.optional /\ kind.sort \in Collections)
           /\ ~(r = "whole" /\ kind.sort = "instant")
    <2>1. Write(kind, r) = r
        BY <1>4 DEF Write
    <2> QED
        BY <1>4, <2>1
<1> QED
    BY <1>1, <1>2, <1>3, <1>4

\* A value that was written once is read again, and written as it came.
LEMMA FieldSettles ==
    ASSUME NEW kind, NEW v \in Values(kind), Read(kind, v) # Refused
    PROVE  /\ Read(kind, Rewritten(kind, v)) # Refused
           /\ Rewritten(kind, Rewritten(kind, v)) = Rewritten(kind, v)
BY FieldIsRead, ReadingSettles DEF Rewritten

\* A value that is valid is written as it was read, unless it is one of those
\* that the bindings change.
LEMMA FieldIsFaithful ==
    ASSUME NEW kind, NEW v \in Values(kind), Read(kind, v) # Refused,
           Admissible(kind, v), AdmittedNumber(v), ~Unfaithful(kind, v)
    PROVE  Rewritten(kind, v) = v
<1> USE RefusedAssumption
    DEF Readings, Values, Rewritten, Write, Read, ReadNull, ReadCount, ReadMoment, ReadInstant,
        ReadTable, ReadList, Admissible, AdmittedNumber, Unfaithful, Counts, Times,
        Lists, Collections
<1>1. CASE kind.sort \in {"text", "object", "flag", "fixed"}
    BY <1>1
<1>2. CASE kind.sort \in Counts
    BY <1>2
<1>3. CASE kind.sort = "moment"
    BY <1>3
<1>4. CASE kind.sort = "instant"
    BY <1>4
<1>5. CASE kind.sort = "table"
    BY <1>5
<1>6. CASE kind.sort \in Lists
    BY <1>6
<1>7. CASE kind.sort \notin {"text", "object", "flag", "fixed", "moment", "instant", "table"}
                              \cup Counts \cup Lists
    BY <1>7
<1> QED
    BY <1>1, <1>2, <1>3, <1>4, <1>5, <1>6, <1>7

\* A value that is valid is read, but for three spellings.
LEMMA FieldIsBound ==
    ASSUME NEW kind, NEW v \in Values(kind), Read(kind, v) = Refused,
           Admissible(kind, v), AdmittedNumber(v)
    PROVE  v \in {"fraction", "leap", "escaped"}
<1> USE RefusedAssumption
    DEF Readings, Values, Read, ReadNull, ReadCount, ReadMoment, ReadInstant, ReadTable, ReadList,
        Admissible, AdmittedNumber, Counts, Times, Lists
<1>1. CASE kind.sort \in {"text", "object", "flag", "fixed"}
    BY <1>1
<1>2. CASE kind.sort \in Counts
    BY <1>2
<1>3. CASE kind.sort = "moment"
    BY <1>3
<1>4. CASE kind.sort = "instant"
    BY <1>4
<1>5. CASE kind.sort = "table"
    BY <1>5
<1>6. CASE kind.sort \in Lists
    BY <1>6
<1>7. CASE kind.sort \notin {"text", "object", "flag", "fixed", "moment", "instant", "table"}
                              \cup Counts \cup Lists
    BY <1>7
<1> QED
    BY <1>1, <1>2, <1>3, <1>4, <1>5, <1>6, <1>7

\* A value that is valid once it was written was valid before, or is mended.
LEMMA FieldIsKnown ==
    ASSUME NEW kind, NEW v \in Values(kind), Read(kind, v) # Refused,
           Admissible(kind, Rewritten(kind, v))
    PROVE  \/ Admissible(kind, v) /\ AdmittedNumber(v)
           \/ Mended(kind, v)
<1> USE RefusedAssumption
    DEF Readings, Values, Rewritten, Write, Read, ReadNull, ReadCount, ReadMoment, ReadInstant,
        ReadTable, ReadList, Admissible, AdmittedNumber, Mended, Counts, Times, Lists,
        Collections
<1>1. CASE kind.sort \in {"text", "object", "flag", "fixed"}
    <2>1. CASE kind.sort = "text"
        BY <2>1
    <2>2. CASE kind.sort = "object"
        BY <2>2
    <2>3. CASE kind.sort = "flag"
        BY <2>3
    <2>4. CASE kind.sort = "fixed"
        BY <2>4
    <2> QED
        BY <1>1, <2>1, <2>2, <2>3, <2>4
<1>2. CASE kind.sort \in Counts
    <2>1. CASE v \in {"null", "absent"}
        BY <1>2, <2>1
    <2>2. CASE v \notin {"null", "absent"}
        BY <1>2, <2>2
    <2> QED
        BY <2>1, <2>2
<1>3. CASE kind.sort = "moment"
    BY <1>3
<1>4. CASE kind.sort = "instant"
    <2>1. CASE v \in {"good", "whole", "leap", "escaped", "respelled"}
        BY <1>4, <2>1
    <2>2. CASE v \in {"null", "absent"}
        BY <1>4, <2>2
    <2>3. CASE v \in {"other", "trimmed", "loose", "offset", "yearOne"}
        BY <1>4, <2>3
    <2> QED
        BY <1>4, <2>1, <2>2, <2>3
<1>5. CASE kind.sort = "table"
    BY <1>5
<1>6. CASE kind.sort \in Lists
    <2>1. CASE v \in {"null", "absent"}
        BY <1>6, <2>1
    <2>2. CASE v \notin {"null", "absent"}
        <3>1. Read(kind, v) = ReadList(kind, v)
            BY <1>6, <2>2
        <3>2. CASE v = "empty"
            BY <1>6, <3>1, <3>2
        <3>3. CASE v \in {"twins", "badItem", "nullItem"}
            <4>1. Rewritten(kind, v) \in {"twins", "badItem"}
                BY <1>6, <3>1, <3>3
            <4> HIDE DEF Rewritten
            <4>2. ~Admissible(kind, Rewritten(kind, v))
                BY <4>1
            <4> QED
                BY <4>2
        <3>4. CASE v \notin {"empty", "twins", "badItem", "nullItem"}
            BY <1>6, <2>2, <3>1, <3>4
        <3> QED
            BY <3>2, <3>3, <3>4
    <2> QED
        BY <2>1, <2>2
<1>7. CASE kind.sort \notin {"text", "object", "flag", "fixed", "moment", "instant", "table"}
                              \cup Counts \cup Lists
    BY <1>7
<1> QED
    BY <1>1, <1>2, <1>3, <1>4, <1>5, <1>6, <1>7

------------------------------------------------------------------------------
(* A document. *)

\* What the next program writes.
Relayed(d) == MarshalJSON(UnmarshalJSON(d))

\* It has the type of what was read, and every field of it was written for
\* itself.
LEMMA RelayedFields ==
    ASSUME NEW d
    PROVE  /\ Relayed(d).type = d.type
           /\ Relayed(d).form = "clean"
           /\ Relayed(d).fields =
                  [f \in DOMAIN Shape[d.type] |-> Rewritten(Shape[d.type][f], d.fields[f])]
BY DEF Relayed, MarshalJSON, UnmarshalJSON, Document, Rewritten

\* A binding reads what a binding has written, and writes it as it came.
LEMMA DocumentSettles ==
    ASSUME NEW d, IsDocument(d), Accepts(d)
    PROVE  /\ Accepts(Relayed(d))
           /\ Relayed(Relayed(d)) = Relayed(d)
<1> DEFINE shape == Shape[d.type]
           e == Relayed(d)
<1>1. \A f \in DOMAIN shape : /\ d.fields[f] \in Values(shape[f])
                              /\ Read(shape[f], d.fields[f]) # Refused
    BY DEF IsDocument, Accepts
<1>2. /\ e.type = d.type
      /\ e.form = "clean"
      /\ e.fields = [f \in DOMAIN shape |-> Rewritten(shape[f], d.fields[f])]
    BY RelayedFields
<1> HIDE DEF e
<1>3. \A f \in DOMAIN shape : /\ Read(shape[f], e.fields[f]) # Refused
                              /\ Rewritten(shape[f], e.fields[f]) = e.fields[f]
    BY <1>1, <1>2, FieldSettles
<1>4. Accepts(e)
    BY <1>2, <1>3 DEF Accepts, rejectUnknownJSONFields
<1>5. Relayed(e) = Document(d.type, "clean",
                            [f \in DOMAIN shape |-> Rewritten(shape[f], e.fields[f])])
    BY <1>2 DEF Relayed, MarshalJSON, UnmarshalJSON, Rewritten
<1>6. [f \in DOMAIN shape |-> Rewritten(shape[f], e.fields[f])] =
      [f \in DOMAIN shape |-> Rewritten(shape[f], d.fields[f])]
    BY <1>2, <1>3
<1>7. e = Document(d.type, "clean",
                   [f \in DOMAIN shape |-> Rewritten(shape[f], d.fields[f])])
    BY DEF e, Relayed, MarshalJSON, UnmarshalJSON, Rewritten
<1> QED
    BY <1>4, <1>5, <1>6, <1>7 DEF e

\* A document is valid when its text is and each of its fields is.
LEMMA ValidFields ==
    ASSUME NEW d, DOMAIN d.fields = DOMAIN Shape[d.type]
    PROVE  Valid(d) <=>
               /\ d.form \in {"clean", "half"}
               /\ \A f \in DOMAIN Shape[d.type] : /\ Admissible(Shape[d.type][f], d.fields[f])
                                                  /\ AdmittedNumber(d.fields[f])
<1>1. CASE d.form = "null"
    BY <1>1 DEF Valid, Errors
<1>2. CASE d.form \in {"extra", "nameHalf"}
    <2>1. Finding("/", "additionalProperties") \in Errors(d)
        BY <1>2 DEF Errors
    <2> QED
        BY <1>2, <2>1 DEF Valid
<1>3. CASE d.form \notin {"null", "extra", "nameHalf"}
    <2> DEFINE wrong == {g \in DOMAIN d.fields : ~Admissible(Shape[d.type][g], d.fields[g])}
    <2>1. Errors(d) = {Finding(f, d.fields[f]) : f \in wrong}
        BY <1>3 DEF Errors
    <2>2. Errors(d) = {} <=> wrong = {}
        BY <2>1
    <2> QED
        BY <1>3, <2>2 DEF Valid, Admit
<1> QED
    BY <1>1, <1>2, <1>3

\* A valid document without one of the values that the bindings change is written
\* as it was read.
LEMMA DocumentIsFaithful ==
    ASSUME NEW d, IsDocument(d), Accepts(d), Valid(d), Faithful(d)
    PROVE  Relayed(d) = d
<1> DEFINE shape == Shape[d.type]
<1>1. d = Document(d.type, d.form, [f \in DOMAIN shape |-> d.fields[f]])
    BY DEF IsDocument
<1>2. DOMAIN d.fields = DOMAIN shape
    BY <1>1 DEF Document
<1>3. d.form = "clean"
    BY <1>2, ValidFields DEF Faithful
<1>4. \A f \in DOMAIN shape : Rewritten(shape[f], d.fields[f]) = d.fields[f]
    <2> SUFFICES ASSUME NEW f \in DOMAIN shape
                 PROVE  Rewritten(shape[f], d.fields[f]) = d.fields[f]
        OBVIOUS
    <2>1. d.fields[f] \in Values(shape[f]) /\ Read(shape[f], d.fields[f]) # Refused
        BY DEF IsDocument, Accepts
    <2>2. Admissible(shape[f], d.fields[f]) /\ AdmittedNumber(d.fields[f])
        BY <1>2, ValidFields
    <2>3. ~Unfaithful(shape[f], d.fields[f])
        BY DEF Faithful
    <2> QED
        BY <2>1, <2>2, <2>3, FieldIsFaithful
<1>5. Relayed(d) = Document(d.type, "clean",
                            [f \in DOMAIN shape |-> Rewritten(shape[f], d.fields[f])])
    BY DEF Relayed, MarshalJSON, UnmarshalJSON, Rewritten
<1>6. [f \in DOMAIN shape |-> Rewritten(shape[f], d.fields[f])] =
      [f \in DOMAIN shape |-> d.fields[f]]
    BY <1>4
<1> QED
    BY <1>1, <1>3, <1>5, <1>6

\* What is valid once it was written was valid before, but for what is mended.
LEMMA DocumentIsKnown ==
    ASSUME NEW d, IsDocument(d), Accepts(d), Valid(Relayed(d)),
           NEW f \in DOMAIN Shape[d.type]
    PROVE  \/ Admissible(Shape[d.type][f], d.fields[f]) /\ AdmittedNumber(d.fields[f])
           \/ Mended(Shape[d.type][f], d.fields[f])
<1> DEFINE kind == Shape[d.type][f]
<1>1. d.fields[f] \in Values(kind) /\ Read(kind, d.fields[f]) # Refused
    BY DEF IsDocument, Accepts
<1>2. Admissible(kind, Rewritten(kind, d.fields[f]))
    <2> DEFINE e == Relayed(d)
    <2>1. /\ e.type = d.type
          /\ e.fields = [g \in DOMAIN Shape[d.type] |->
                             Rewritten(Shape[d.type][g], d.fields[g])]
        BY RelayedFields
    <2> HIDE DEF e
    <2>2. Admissible(Shape[e.type][f], e.fields[f])
        <3>1. Valid(e)
            BY DEF e
        <3>2. DOMAIN e.fields = DOMAIN Shape[e.type]
            BY <2>1
        <3> QED
            BY <2>1, <3>1, <3>2, ValidFields
    <2> QED
        BY <2>1, <2>2
<1> QED
    BY <1>1, <1>2, FieldIsKnown

------------------------------------------------------------------------------
(* The way of a document. *)

\* The inductive invariant: behind the first program the text is what one program
\* writes for the document that set out, and every later program leaves it alone.
\* What a program has read is what its binding reads from the text.
Way ==
    /\ IsDocument(original)
    /\ hops \in Nat
    /\ hops = 0 => doc = original
    /\ hops > 0 => Accepts(original) /\ doc = Relayed(original)
    /\ hops > 1 => doc = previous
    /\ value # Refused => Accepts(doc) /\ value = UnmarshalJSON(doc)

\* The text is one that the next program can read as soon as one has written it.
LEMMA WayIsReadable ==
    ASSUME Way, hops > 0
    PROVE  Accepts(doc) /\ Relayed(doc) = doc
BY DocumentSettles DEF Way

\* The invariant holds at the start and every program keeps it.
THEOREM WayTheorem == RelaySpec => []Way
<1>1. RelayInit => Way
    BY RelayAssumption DEF RelayInit, Way
<1>2. Way /\ [RelayNext]_relayVars => Way'
    <2> SUFFICES ASSUME Way, [RelayNext]_relayVars
                 PROVE  Way'
        OBVIOUS
    <2>1. CASE Unmarshal
        BY <2>1 DEF Way, Unmarshal
    <2>2. CASE Marshal
        <3>1. /\ Accepts(doc)
              /\ doc' = Relayed(doc)
              /\ previous' = doc
              /\ value' = Refused
              /\ hops' = hops + 1
              /\ original' = original
            BY <2>2 DEF Way, Marshal, Relayed
        <3>2. CASE hops = 0
            BY <3>1, <3>2 DEF Way
        <3>3. CASE hops > 0
            <4>1. doc' = doc
                BY <3>1, <3>3, WayIsReadable
            <4> QED
                BY <3>1, <3>3, <4>1 DEF Way
        <3>4. hops \in Nat
            BY DEF Way
        <3> QED
            BY <3>2, <3>3, <3>4
    <2>3. CASE UNCHANGED relayVars
        BY <2>3 DEF Way, relayVars
    <2> QED
        BY <2>1, <2>2, <2>3 DEF RelayNext
<1> QED
    BY <1>1, <1>2, PTL DEF RelaySpec

\* The first program settles how a document is written: every later binding
\* accepts what it gets and writes it as it came.
THEOREM WrittenIsStableTheorem == RelaySpec => []WrittenIsStable
<1>1. Way => WrittenIsStable
    <2> SUFFICES ASSUME Way
                 PROVE  WrittenIsStable
        OBVIOUS
    <2> QED
        BY WayIsReadable DEF WrittenIsStable, Way
<1> QED
    BY <1>1, WayTheorem, PTL

\* Validation lets nothing through that the binding of its type refuses, but for
\* numbers that are written with a fraction, and the leap second.
THEOREM ValidatedIsBoundTheorem == RelaySpec => []ValidatedIsBound
<1>1. Way => ValidatedIsBound
    <2> SUFFICES ASSUME Way, Valid(doc), ~Accepts(doc)
                 PROVE  \E f \in DOMAIN doc.fields : doc.fields[f] \in {"fraction", "leap", "escaped"}
        BY DEF ValidatedIsBound
    <2>1. doc = original
        BY WayIsReadable DEF Way
    <2>2. DOMAIN doc.fields = DOMAIN Shape[doc.type]
        BY <2>1 DEF Way, IsDocument, Document
    <2>3. rejectUnknownJSONFields(doc)
        BY <2>2, ValidFields DEF rejectUnknownJSONFields
    <2>4. PICK f \in DOMAIN Shape[doc.type] :
              Read(Shape[doc.type][f], doc.fields[f]) = Refused
        BY <2>3 DEF Accepts
    <2>5. /\ Admissible(Shape[doc.type][f], doc.fields[f])
          /\ AdmittedNumber(doc.fields[f])
        BY <2>2, ValidFields
    <2>6. doc.fields[f] \in Values(Shape[doc.type][f])
        BY <2>1 DEF Way, IsDocument
    <2> QED
        BY <2>2, <2>4, <2>5, <2>6, FieldIsBound
<1> QED
    BY <1>1, WayTheorem, PTL

\* A valid document without one of the values that the bindings change keeps its
\* identity on the way, and a root document its declared digest.
THEOREM IdentitySurvivesTheorem == RelaySpec => []IdentitySurvives
<1>1. Way => IdentitySurvives
    <2> SUFFICES ASSUME Way, Valid(original), Faithful(original)
                 PROVE  doc = original
        BY DEF IdentitySurvives
    <2> QED
        BY DocumentIsFaithful DEF Way
<1> QED
    BY <1>1, WayTheorem, PTL

\* A document that is valid behind a program was valid before it, but for its size,
\* bytes that are not UTF-8 and the fields that the bindings mend.
THEOREM LaunderedIsKnownTheorem == RelaySpec => []LaunderedIsKnown
<1>1. Way => LaunderedIsKnown
    <2>1. ASSUME Way, hops > 0
          PROVE  original.form \in {"clean", "half", "oversized", "bytes"}
        BY <2>1 DEF Way, Accepts, rejectUnknownJSONFields
    <2> SUFFICES ASSUME Way, hops > 0, Valid(doc),
                        NEW f \in DOMAIN Shape[original.type]
                 PROVE  \/ /\ Admissible(Shape[original.type][f], original.fields[f])
                           /\ AdmittedNumber(original.fields[f])
                        \/ Mended(Shape[original.type][f], original.fields[f])
        BY <2>1 DEF LaunderedIsKnown
    <2>2. Accepts(original) /\ Valid(Relayed(original)) /\ IsDocument(original)
        BY DEF Way
    <2> QED
        BY <2>2, DocumentIsKnown
<1> QED
    BY <1>1, WayTheorem, PTL

\* A root document whose digest is verified is one that strict admission lets
\* through, but for a field that comes twice, a name that is not UTF-8 and blanks
\* beyond the limit.
THEOREM RootIsAdmittedTheorem == RelaySpec => []RootIsAdmitted
<1>1. Way => RootIsAdmitted
    <2> SUFFICES ASSUME Way, Verified(doc, Declared),
                        doc.form \notin {"twice", "nameBytes", "oversized"}
                 PROVE  Admit(doc)
        BY DEF RootIsAdmitted
    <2>1. ContractBOM(doc).code = ""
        BY DEF Verified
    <2>2. Canonicalize(Collapsed(doc)) # Refused
        BY <2>1 DEF ContractBOM, Unidentified
    <2>3. Admit(Collapsed(doc))
        BY <2>2 DEF Canonicalize
    <2>4. CASE doc.form = "nameHalf"
        <3>1. doc = original
            <4>1. Relayed(original).form = "clean"
                BY RelayedFields
            <4> QED
                BY <2>4, <4>1 DEF Way
        <3>2. PICK fields : doc = Document(doc.type, doc.form, fields)
            BY <3>1 DEF Way, IsDocument
        <3>3. Collapsed(doc).fields = doc.fields
            BY <2>4, <3>2 DEF Collapsed, Document
        <3> QED
            BY <2>3, <2>4, <3>3 DEF Admit
    <2>5. CASE doc.form # "nameHalf"
        <3>1. Collapsed(doc) = doc
            BY <2>5 DEF Collapsed
        <3> QED
            BY <2>3, <3>1
    <2> QED
        BY <2>4, <2>5
<1> QED
    BY <1>1, WayTheorem, PTL

------------------------------------------------------------------------------
(* Sequences, and the encoding that a digest is taken of. *)

\* What is a sequence of anything is one of its own elements.
LEMMA IsItsOwnSequence ==
    ASSUME NEW S, NEW s \in Seq(S)
    PROVE  IsSequence(s)
<1>1. \A i \in 1..Len(s) : s[i] \in Range(s)
    BY DEF Range
<1> QED
    BY <1>1, SeqDef DEF IsSequence

\* A text without a separator before a separator can be told from what follows.
LEMMA SplitAtSeparator ==
    ASSUME NEW S, NEW T, NEW p \in Seq(T), NEW q \in Seq(T),
           NEW t \in Seq(S) \ {<<>>}, NEW u \in Seq(S) \ {<<>>},
           t[1] \notin T, u[1] \notin T, p \o t = q \o u
    PROVE  p = q /\ t = u
<1> DEFINE U == S \cup T
<1>1. p \in Seq(U) /\ q \in Seq(U) /\ t \in Seq(U) /\ u \in Seq(U)
    BY SeqMonotonic
<1> HIDE DEF U
<1>2. /\ Len(p) \in Nat /\ Len(q) \in Nat
      /\ Len(t) \in Nat \ {0} /\ Len(u) \in Nat \ {0}
    BY LenProperties, EmptySeq
<1>3. /\ Len(p) + Len(t) = Len(q) + Len(u)
      /\ \A i \in 1..Len(p) + Len(t) : (p \o t)[i] =
             IF i <= Len(p) THEN p[i] ELSE t[i - Len(p)]
      /\ \A i \in 1..Len(q) + Len(u) : (p \o t)[i] =
             IF i <= Len(q) THEN q[i] ELSE u[i - Len(q)]
    <2>1. /\ Len(p \o t) = Len(p) + Len(t)
          /\ \A i \in 1..Len(p) + Len(t) : (p \o t)[i] =
                 IF i <= Len(p) THEN p[i] ELSE t[i - Len(p)]
        BY ONLY <1>1, ConcatProperties
    <2>2. /\ Len(q \o u) = Len(q) + Len(u)
          /\ \A i \in 1..Len(q) + Len(u) : (q \o u)[i] =
                 IF i <= Len(q) THEN q[i] ELSE u[i - Len(q)]
        BY ONLY <1>1, ConcatProperties
    <2> QED
        BY <2>1, <2>2
<1>4. ~(Len(p) < Len(q))
    <2> SUFFICES ASSUME Len(p) < Len(q)
                 PROVE  FALSE
        OBVIOUS
    <2> DEFINE i == Len(p) + 1
    <2>1. i \in 1..Len(p) + Len(t) /\ i \in 1..Len(q) + Len(u) /\ i \in 1..Len(q)
        BY <1>2, <1>3
    <2>2. (p \o t)[i] = t[1]
        BY <2>1, <1>2, <1>3
    <2>3. (p \o t)[i] = q[i]
        BY <2>1, <1>2, <1>3
    <2>4. q[i] \in T
        BY <2>1, ElementOfSeq
    <2> QED
        BY <2>2, <2>3, <2>4
<1>5. ~(Len(q) < Len(p))
    <2> SUFFICES ASSUME Len(q) < Len(p)
                 PROVE  FALSE
        OBVIOUS
    <2> DEFINE i == Len(q) + 1
    <2>1. i \in 1..Len(p) + Len(t) /\ i \in 1..Len(q) + Len(u) /\ i \in 1..Len(p)
        BY <1>2, <1>3
    <2>2. (p \o t)[i] = u[1]
        BY <2>1, <1>2, <1>3
    <2>3. (p \o t)[i] = p[i]
        BY <2>1, <1>2, <1>3
    <2>4. p[i] \in T
        BY <2>1, ElementOfSeq
    <2> QED
        BY <2>2, <2>3, <2>4
<1>6. Len(p) = Len(q)
    BY <1>2, <1>4, <1>5
<1>7. \A i \in 1..Len(p) : p[i] = q[i]
    <2> TAKE i \in 1..Len(p)
    <2>1. i \in 1..Len(p) + Len(t) /\ i \in 1..Len(q) + Len(u) /\ i <= Len(p)
        BY <1>2, <1>6
    <2> QED
        BY <2>1, <1>3, <1>6
<1>8. p = q
    BY <1>6, <1>7, SeqEqual
<1> QED
    BY <1>1, <1>8, ConcatSimplifications

\* The encoding, its separators one by one.
LEMMA ComponentEncoding ==
    ASSUME NEW S, 0 \in S, ComponentDomain \in S,
           NEW p \in Seq(S), NEW m \in Seq(S), NEW c \in S
    PROVE  /\ ComponentDigest(p, m, c) =
                  <<ComponentDomain, 0>> \o (p \o (<<0>> \o (m \o (<<0>> \o <<c>>))))
           /\ ComponentDigest(p, m, c)[1] = ComponentDomain
<1> DEFINE head == <<ComponentDomain, 0>>
           zero == <<0>>
           last == <<c>>
           end == <<0, c>>
<1>1. /\ head \in Seq(S) /\ Len(head) = 2 /\ head[1] = ComponentDomain
      /\ zero \in Seq(S) /\ last \in Seq(S) /\ end \in Seq(S)
    OBVIOUS
<1>2. end = zero \o last
    OBVIOUS
<1>3. ComponentDigest(p, m, c) = (((head \o p) \o zero) \o m) \o end
    BY DEF ComponentDigest
<1> HIDE DEF head, zero, last, end
<1>4. m \o end \in Seq(S)
    BY <1>1, ConcatProperties
<1>5. zero \o (m \o end) \in Seq(S)
    BY <1>1, <1>4, ConcatProperties
<1>6. p \o (zero \o (m \o end)) \in Seq(S)
    BY <1>5, ConcatProperties
<1>7. head \o p \in Seq(S)
    BY <1>1, ConcatProperties
<1>8. (head \o p) \o zero \in Seq(S)
    BY <1>1, <1>7, ConcatProperties
<1>9. (((head \o p) \o zero) \o m) \o end = ((head \o p) \o zero) \o (m \o end)
    <2> DEFINE left == (head \o p) \o zero
    <2>1. left \in Seq(S) /\ m \in Seq(S) /\ end \in Seq(S)
        BY <1>1, <1>8
    <2> HIDE DEF left
    <2>2. (left \o m) \o end = left \o (m \o end)
        BY ONLY <2>1, ConcatAssociative
    <2> QED
        BY <2>2 DEF left
<1>10. ((head \o p) \o zero) \o (m \o end) = (head \o p) \o (zero \o (m \o end))
    <2> DEFINE left == head \o p
               right == m \o end
    <2>1. left \in Seq(S) /\ zero \in Seq(S) /\ right \in Seq(S)
        BY <1>1, <1>4, <1>7
    <2> HIDE DEF left, right
    <2>2. (left \o zero) \o right = left \o (zero \o right)
        BY ONLY <2>1, ConcatAssociative, SMTT(30)
    <2> QED
        BY <2>2 DEF left, right
<1>11. (head \o p) \o (zero \o (m \o end)) = head \o (p \o (zero \o (m \o end)))
    <2> DEFINE right == zero \o (m \o end)
    <2>1. head \in Seq(S) /\ p \in Seq(S) /\ right \in Seq(S)
        BY <1>1, <1>5
    <2> HIDE DEF right
    <2>2. (head \o p) \o right = head \o (p \o right)
        BY ONLY <2>1, ConcatAssociative
    <2> QED
        BY <2>2 DEF right
<1>12. (head \o (p \o (zero \o (m \o end))))[1] = ComponentDomain
    BY <1>1, <1>6, ConcatProperties, LenProperties
<1>13. ComponentDigest(p, m, c) = head \o (p \o (zero \o (m \o (zero \o last))))
    BY <1>2, <1>3, <1>9, <1>10, <1>11
<1> QED
    BY <1>3, <1>9, <1>10, <1>11, <1>12, <1>13 DEF head, zero, last

\* The digest of a component tells its purpose, its media type and its canonical
\* form: there is no zero byte in any of them (identity.go:65-73).
LEMMA ComponentDigestSeparates ==
    ASSUME NEW p \in Seq(Nat \ {0}), NEW q \in Seq(Nat \ {0}),
           NEW m \in Seq(Nat \ {0}), NEW n \in Seq(Nat \ {0}), NEW c, NEW d,
           ComponentDigest(p, m, c) = ComponentDigest(q, n, d)
    PROVE  p = q /\ m = n /\ c = d
<1> DEFINE T == Nat \ {0}
           S == Nat \cup {ComponentDomain, c, d}
           head == <<ComponentDomain, 0>>
           zero == <<0>>
           left == <<c>>
           right == <<d>>
<1>1. 0 \in S /\ ComponentDomain \in S /\ c \in S /\ d \in S /\ T \subseteq S
    OBVIOUS
<1>2. Len(zero) = 1 /\ zero[1] \notin T
    OBVIOUS
<1>3. head \in Seq(S) /\ zero \in Seq(S) /\ left \in Seq(S) /\ right \in Seq(S)
    OBVIOUS
<1>4. p \in Seq(T) /\ q \in Seq(T) /\ m \in Seq(T) /\ n \in Seq(T)
    OBVIOUS
<1> HIDE DEF S, T
<1>5. p \in Seq(S) /\ q \in Seq(S) /\ m \in Seq(S) /\ n \in Seq(S)
    BY <1>1, <1>4, SeqMonotonic
<1>6. /\ ComponentDigest(p, m, c) = head \o (p \o (zero \o (m \o (zero \o left))))
      /\ ComponentDigest(q, n, d) = head \o (q \o (zero \o (n \o (zero \o right))))
    BY <1>1, <1>5, ComponentEncoding
<1> HIDE DEF head, zero, left, right
<1>7. \A s \in Seq(S) : /\ zero \o s \in Seq(S) \ {<<>>}
                        /\ (zero \o s)[1] \notin T
    <2> TAKE s \in Seq(S)
    <2>1. zero \o s \in Seq(S) /\ Len(zero \o s) = Len(zero) + Len(s)
        BY ONLY <1>3, s \in Seq(S), ConcatProperties
    <2>2. \A i \in 1..Len(zero) + Len(s) : (zero \o s)[i] =
              IF i <= Len(zero) THEN zero[i] ELSE s[i - Len(zero)]
        BY ONLY <1>3, s \in Seq(S), ConcatProperties
    <2>3. Len(s) \in Nat
        BY LenProperties
    <2>4. (zero \o s)[1] = zero[1]
        <3>1. 1 \in 1..Len(zero) + Len(s) /\ 1 <= Len(zero)
            BY <1>2, <2>3
        <3> QED
            BY <2>2, <3>1
    <2>5. Len(zero \o s) # 0
        BY <1>2, <2>1, <2>3
    <2> QED
        BY <1>2, <2>1, <2>4, <2>5
<1> DEFINE behindP == zero \o (m \o (zero \o left))
           behindQ == zero \o (n \o (zero \o right))
           endP == zero \o left
           endQ == zero \o right
<1>8. /\ endP \in Seq(S) \ {<<>>} /\ endP[1] \notin T
      /\ endQ \in Seq(S) \ {<<>>} /\ endQ[1] \notin T
    BY <1>3, <1>7
<1>9. m \o endP \in Seq(S) /\ n \o endQ \in Seq(S)
    <2> HIDE DEF endP, endQ
    <2> QED
        BY <1>5, <1>8, ConcatProperties
<1>10. /\ behindP \in Seq(S) \ {<<>>} /\ behindP[1] \notin T
       /\ behindQ \in Seq(S) \ {<<>>} /\ behindQ[1] \notin T
    BY <1>7, <1>9
<1>11. p \o behindP = q \o behindQ
    <2> DEFINE a == p \o behindP
               b == q \o behindQ
    <2>1. head \o a = head \o b
        BY <1>6
    <2> HIDE DEF behindP, behindQ
    <2>2. a \in Seq(S) /\ b \in Seq(S)
        BY <1>5, <1>10, ConcatProperties
    <2> HIDE DEF a, b
    <2>3. a = b
        BY ONLY <1>3, <2>1, <2>2, ConcatSimplifications
    <2> QED
        BY <2>3 DEF a, b
<1>12. p = q /\ behindP = behindQ
    <2> HIDE DEF behindP, behindQ
    <2> QED
        BY ONLY <1>4, <1>10, <1>11, SplitAtSeparator
<1>13. m \o endP = n \o endQ
    <2> DEFINE a == m \o endP
               b == n \o endQ
    <2>1. zero \o a = zero \o b
        BY <1>12
    <2>2. a \in Seq(S) /\ b \in Seq(S)
        BY <1>9
    <2> HIDE DEF a, b
    <2>3. a = b
        BY ONLY <1>3, <2>1, <2>2, ConcatSimplifications
    <2> QED
        BY <2>3 DEF a, b
<1>14. m = n /\ endP = endQ
    <2> HIDE DEF endP, endQ
    <2> QED
        BY ONLY <1>4, <1>8, <1>13, SplitAtSeparator
<1>15. left = right
    <2>1. zero \o left = zero \o right
        BY <1>14
    <2> QED
        BY ONLY <1>3, <2>1, ConcatSimplifications
<1> QED
    BY <1>12, <1>14, <1>15 DEF left, right

\* The digest of a component does not begin as that of a root document does.
LEMMA DomainsDiffer ==
    ASSUME NEW p \in Seq(Nat \ {0}), NEW m \in Seq(Nat \ {0}), NEW c
    PROVE  ComponentDigest(p, m, c)[1] # BomDomain
<1> DEFINE S == Nat \cup {ComponentDomain, c}
<1>1. 0 \in S /\ ComponentDomain \in S /\ c \in S /\ Nat \ {0} \subseteq S
    OBVIOUS
<1> HIDE DEF S
<1>2. p \in Seq(S) /\ m \in Seq(S)
    BY <1>1, SeqMonotonic
<1>3. ComponentDigest(p, m, c)[1] = ComponentDomain
    BY <1>1, <1>2, ComponentEncoding
<1> QED
    BY <1>3 DEF ComponentDomain, BomDomain

\* A printable text holds no zero byte.
LEMMA PrintableIsWithoutZero ==
    ASSUME NEW text \in Seq(Nat), validPrintableASCII(text)
    PROVE  text \in Seq(Nat \ {0})
<1>1. \A i \in 1..Len(text) : text[i] \in Nat \ {0}
    BY ElementOfSeq, LenProperties DEF validPrintableASCII
<1> QED
    BY <1>1, LenProperties, SeqDef

------------------------------------------------------------------------------
(* What the validator finds. *)

\* Flattening cuts findings off, but never all of them unnoticed, and adds none.
LEMMA FlattenedIsFound ==
    ASSUME NEW errors, NEW limit \in Nat, NEW flat \in Flattened(errors, limit)
    PROVE  /\ (flat.findings = {} /\ ~flat.more) <=> errors = {}
           /\ \A found \in flat.findings : found \in errors
<1>1. CASE Cardinality(errors) <= limit
    BY <1>1 DEF Flattened
<1>2. CASE ~(Cardinality(errors) <= limit)
    <2>1. PICK kept \in kSubset(limit, errors) : flat = [findings |-> kept, more |-> TRUE]
        BY <1>2 DEF Flattened
    <2>2. kept \in SUBSET errors
        BY <2>1 DEF kSubset
    <2> QED
        BY <1>2, <2>1, <2>2, FS_EmptySet
<1> QED
    BY <1>1, <1>2

\* Validation finds nothing in an admitted document only if nothing is wrong with
\* it, and it finds only what is wrong, that there is more, or an unknown schema.
LEMMA ValidateIsFound ==
    ASSUME NEW compiled, NEW d, Admit(d), NEW native \in Validate(compiled, d)
    PROVE  /\ native = {} => Errors(d) = {}
           /\ \A found \in native :
                  found \in Errors(d) \cup {FindingLimit, Profile("closedResolver")}
<1>1. CASE d.type \notin compiled
    BY <1>1 DEF Validate
<1>2. CASE d.type \in compiled
    <2>1. PICK flat \in Flattened(Errors(d), MaximumFindings - 1) :
              native = flat.findings \cup (IF flat.more THEN {FindingLimit} ELSE {})
        BY <1>2 DEF Validate
    <2>2. /\ (flat.findings = {} /\ ~flat.more) <=> Errors(d) = {}
          /\ \A found \in flat.findings : found \in Errors(d)
        BY <2>1, FindingsAssumption, FlattenedIsFound
    <2> QED
        BY <2>1, <2>2
<1> QED
    BY <1>1, <1>2

------------------------------------------------------------------------------
(* What one case comes to. *)

\* A result of the fixtures suite is that of an admitted document on which the
\* validator and the manifest agree.
LEMMA FixtureIsAgreed ==
    ASSUME NEW case, Admit(case.bytes), FixtureResult(case, case.bytes) # Refused,
           NEW native \in Validate(adapter, case.bytes), verifyNativeOutcome(case, native)
    PROVE  FixtureIsTrue(FixtureResult(case, case.bytes), case)
<1> DEFINE result == FixtureResult(case, case.bytes)
           possible == Errors(case.bytes) \cup {FindingLimit, Profile("closedResolver")}
<1>1. /\ result.input = case.bytes /\ result.valid = case.valid
      /\ result.findings = case.findings /\ result.canonical = Canonicalize(case.bytes)
    BY DEF FixtureResult
<1>2. /\ native = {} => Errors(case.bytes) = {}
      /\ \A found \in native : found \in possible
    BY ValidateIsFound
<1>3. case.valid => native = {}
    BY DEF verifyNativeOutcome
<1>4. ~case.valid /\ ~case.profile =>
          \/ case.findings[1] = ClosedReferences
          \/ \E found \in native : found.keyword = case.findings[1].keyword
    BY DEF verifyNativeOutcome, HasKeyword
<1> HIDE DEF result, possible
<1>5. result.valid => Admit(case.bytes) /\ Errors(case.bytes) = {}
    BY <1>1, <1>2, <1>3
<1>6. ~result.valid => \/ case.profile
                       \/ result.findings[1] = ClosedReferences
                       \/ \E found \in possible : found.keyword = result.findings[1].keyword
    BY <1>1, <1>2, <1>4
<1> QED
    BY <1>1, <1>5, <1>6 DEF FixtureIsTrue, HasKeyword, result, possible

\* One of a registry projection is not checked against a schema.
LEMMA ProjectionIsTrue ==
    ASSUME NEW case, case.schema = "RegistrySetValues",
           FixtureResult(case, case.bytes) # Refused
    PROVE  FixtureIsTrue(FixtureResult(case, case.bytes), case)
BY DEF FixtureIsTrue, FixtureResult

\* What the digest of a valid result of the identity suite was made of.
Identified(result, case) ==
    result.valid =>
        /\ case.root => result.digest[1] = BomDomain
        /\ ~case.root => /\ validPrintableASCII(case.purpose)
                         /\ validPrintableASCII(case.mediaType)
                         /\ result.digest = ComponentDigest(case.purpose, case.mediaType,
                                                            Canonical(case.value.doc))

\* A component's digest is the one that the corpus expects, made of the purpose,
\* the media type and the value of the case.
LEMMA ComponentIsIdentified ==
    ASSUME NEW case, ~case.root, ComponentResult(case) # Refused
    PROVE  /\ ComponentResult(case).id = case.id
           /\ ComponentResult(case).input = case
           /\ IdentityIsTrue(ComponentResult(case), case)
           /\ Identified(ComponentResult(case), case)
<1> DEFINE calculated == Component(case.value.doc, case.purpose, case.mediaType, adapter)
           result == ComponentResult(case)
<1>1. /\ calculated.code = "" => calculated.digest = case.digest
      /\ result = [id |-> case.id, input |-> case, valid |-> calculated.code = "",
                   digest |-> calculated.digest]
    BY DEF ComponentResult
<1>2. calculated.code = "" =>
          /\ validPrintableASCII(case.purpose) /\ validPrintableASCII(case.mediaType)
          /\ case.purpose # ContractBomPurpose
          /\ Canonicalize(case.value.doc) # Refused
          /\ calculated.digest = ComponentDigest(case.purpose, case.mediaType,
                                                 Canonicalize(case.value.doc))
    BY DEF Component, Unidentified
<1>3. Canonicalize(case.value.doc) # Refused => Canonicalize(case.value.doc) = Canonical(case.value.doc)
    BY DEF Canonicalize
<1> HIDE DEF calculated, result
<1>4. /\ result.id = case.id /\ result.input = case
      /\ result.valid <=> calculated.code = ""
      /\ result.digest = calculated.digest
    BY <1>1
<1>5. IdentityIsTrue(result, case)
    BY <1>1, <1>2, <1>4 DEF IdentityIsTrue
<1>6. Identified(result, case)
    BY <1>2, <1>3, <1>4 DEF Identified
<1> QED
    BY <1>4, <1>5, <1>6 DEF result

\* So is a root document's, of the value of the case or of the case it copies.
LEMMA RootIsIdentified ==
    ASSUME NEW case, case.root, RootResult(case) # Refused
    PROVE  /\ RootResult(case).id = case.id
           /\ RootResult(case).input = case
           /\ IdentityIsTrue(RootResult(case), case)
           /\ Identified(RootResult(case), case)
<1> DEFINE held == Resolved(case)
           calculated == ContractBOM(held.doc)
           result == RootResult(case)
<1>1. /\ calculated.code = "" => calculated.digest = case.digest
      /\ result = [id |-> case.id, input |-> case, digest |-> calculated.digest,
                   valid |-> calculated.code = "" /\ Verified(held.doc, held.declared)]
    BY DEF RootResult
<1>2. calculated.code = "" => calculated.digest = BomDigest(Canonical(Collapsed(held.doc)))
    BY DEF ContractBOM, Unidentified
<1>3. case.value # Refused => held = case.value
    BY DEF Resolved
<1>4. \A d : BomDigest(d)[1] = BomDomain
    BY DEF BomDigest
<1> HIDE DEF held, calculated, result
<1>5. /\ result.id = case.id /\ result.input = case
      /\ result.valid => calculated.code = ""
      /\ result.digest = calculated.digest
    BY <1>1
<1>6. IdentityIsTrue(result, case)
    BY <1>1, <1>2, <1>3, <1>5 DEF IdentityIsTrue
<1>7. Identified(result, case)
    BY <1>2, <1>4, <1>5 DEF Identified
<1> QED
    BY <1>5, <1>6, <1>7 DEF result

\* A vector passes when the signature on record is that of the message: the one
\* that was made anew was compared with it.
LEMMA VectorIsVerified ==
    ASSUME NEW case, CheckVector(case) # Refused
    PROVE  /\ CheckVector(case).id = case.id
           /\ VectorIsTrue(CheckVector(case), case)
<1> DEFINE message == Bytes(Message(case.profile), case.mutation)
           recorded == corpus.signatures[case.profile]
           signed == IF case.operation = "sign-and-verify" THEN Sign(corpus.seed, message)
                     ELSE recorded
           verified == Verify(corpus.publicKey, message, Touched(signed, case.mutation))
           result == CheckVector(case)
<1>1. /\ case.operation = "sign-and-verify" => signed = recorded
      /\ result = [id |-> case.id, input |-> case, valid |-> verified, digest |-> Refused]
    BY DEF CheckVector
<1>2. signed = recorded
    BY <1>1
<1>3. verified <=> Touched(recorded, case.mutation) =
                       [key |-> corpus.publicKey, message |-> message, first |-> 0]
    BY <1>2 DEF Verify
<1>4. result.id = case.id /\ (result.valid <=> verified)
    BY <1>1
<1> HIDE DEF verified, result
<1> QED
    BY <1>3, <1>4 DEF VectorIsTrue, result

------------------------------------------------------------------------------
(* A run from its first read to the report. *)

\* What a result says of its case.
IsTrueOf(result, case) ==
    /\ result.id = case.id
    /\ suite = "fixtures" => FixtureIsTrue(result, case)
    /\ suite = "identity" => /\ result.input = case
                             /\ IdentityIsTrue(result, case)
                             /\ Identified(result, case)
    /\ suite = "signature" => VectorIsTrue(result, case)

\* The corpus of the suite has been read.
IsCorpus(read) ==
    /\ IsSequence(read.cases)
    /\ suite = "identity" => IsIdentityCorpus(read)

HasCorpus == step \in {"adapter", "cases", "registry", "done"}

\* The cases that are in the report and those that are left are the corpus, in
\* its order.
Accounted ==
    /\ queue \in Seq(Range(corpus.cases))
    /\ IsSequence(report)
    /\ Len(report) + Len(queue) = Len(corpus.cases)
    /\ \A i \in 1..Len(queue) : queue[i] = corpus.cases[Len(report) + i]

\* The inductive invariant: every result in the report is true of the case of its
\* number, whatever was edited since; and a projection is compared only for a case
\* of the fixtures suite that asks for it.
Work ==
    /\ suite \in Suites
    /\ IsRepository(files)
    /\ HasCorpus => /\ IsCorpus(corpus)
                    /\ Accounted
                    /\ \A i \in 1..Len(report) : IsTrueOf(report[i], corpus.cases[i])
    /\ step = "registry" => /\ suite = "fixtures" /\ queue # <<>>
                            /\ Head(queue).schema = "RegistrySetValues"
    /\ step = "done" => queue = <<>>
    /\ Written => step = "done" /\ output.corpus = corpus /\ output.cases = report

\* An edit leaves a repository.
LEMMA EditKeeps ==
    ASSUME IsRepository(files), NEW r \in Repositories, NEW part \in Parts,
           files' = [files EXCEPT ![part] = r[part]]
    PROVE  IsRepository(files)'
<1>1. IsRepository(r)
    BY RepositoryAssumption
<1>2. /\ DOMAIN files' = Parts
      /\ files'.manifest = files.manifest \/ files'.manifest = r.manifest
      /\ files'.identity = files.identity \/ files'.identity = r.identity
      /\ files'.signature = files.signature \/ files'.signature = r.signature
    BY DEF IsRepository, Parts
<1> QED
    BY <1>1, <1>2 DEF IsRepository

\* The head of the queue is the case that the next result is of.
LEMMA HeadIsNext ==
    ASSUME Accounted, IsCorpus(corpus), queue # <<>>
    PROVE  /\ Head(queue) = corpus.cases[Len(report) + 1]
           /\ Len(report) \in Nat
           /\ Len(report) + 1 \in DOMAIN corpus.cases
<1>1. Len(queue) \in Nat \ {0} /\ Head(queue) = queue[1]
    BY EmptySeq DEF Accounted
<1>2. Len(report) \in Nat /\ Len(corpus.cases) \in Nat
    BY LenProperties DEF Accounted, IsCorpus, IsSequence
<1>3. DOMAIN corpus.cases = 1..Len(corpus.cases)
    BY LenProperties DEF IsCorpus, IsSequence
<1> QED
    BY <1>1, <1>2, <1>3 DEF Accounted

\* A result for the head of the queue joins the report.
LEMMA ReportGrows ==
    ASSUME Work, step \in {"cases", "registry"}, queue # <<>>,
           NEW result, IsTrueOf(result, Head(queue)),
           report' = Append(report, result), queue' = Tail(queue), step' = "cases",
           UNCHANGED <<suite, corpus, output, files>>
    PROVE  Work'
<1>1. Accounted /\ IsCorpus(corpus)
    BY DEF Work, HasCorpus
<1>2. /\ Head(queue) = corpus.cases[Len(report) + 1]
      /\ Len(report) \in Nat
    BY <1>1, HeadIsNext
<1> DEFINE S == Range(report) \cup {result}
<1>3. report \in Seq(S) /\ result \in S
    BY <1>1, SeqMonotonic DEF Accounted, IsSequence
<1>4. /\ report' \in Seq(S)
      /\ Len(report') = Len(report) + 1
      /\ \A i \in 1..Len(report) : report'[i] = report[i]
      /\ report'[Len(report) + 1] = result
    <2> HIDE DEF S
    <2> QED
        BY <1>3, AppendProperties
<1>5. /\ queue' \in Seq(Range(corpus.cases))
      /\ Len(queue) \in Nat \ {0}
      /\ Len(queue') = Len(queue) - 1
      /\ \A i \in 1..Len(queue') : queue'[i] = queue[i + 1]
    BY <1>1, HeadTailProperties, EmptySeq DEF Accounted
<1>6. Accounted'
    <2>1. IsSequence(report)'
        BY <1>4, IsItsOwnSequence
    <2>2. Len(report') + Len(queue') = Len(corpus.cases')
        <3>1. Len(report) + Len(queue) = Len(corpus.cases)
            BY <1>1 DEF Accounted
        <3> QED
            <4>1. (Len(report) + 1) + (Len(queue) - 1) = Len(report) + Len(queue)
                BY <1>2, <1>5
            <4>2. corpus' = corpus
                OBVIOUS
            <4> QED
                BY <1>4, <1>5, <3>1, <4>1, <4>2
    <2>3. \A i \in 1..Len(queue') : queue'[i] = corpus.cases'[Len(report') + i]
        <3> TAKE i \in 1..Len(queue')
        <3>1. i \in Nat \ {0} /\ i <= Len(queue) - 1
            BY <1>5
        <3>2. i + 1 \in 1..Len(queue)
            BY <1>5, <3>1
        <3>3. Len(report) + (i + 1) = Len(report') + i
            BY <1>2, <1>4, <3>1
        <3> QED
            BY <1>1, <1>5, <3>2, <3>3 DEF Accounted
    <2> QED
        BY <1>5, <2>1, <2>2, <2>3 DEF Accounted
<1>7. \A i \in 1..Len(report') : IsTrueOf(report[i], corpus.cases[i])'
    <2> SUFFICES ASSUME NEW i \in 1..Len(report')
                 PROVE  IsTrueOf(report[i], corpus.cases[i])'
        OBVIOUS
    <2>1. CASE i <= Len(report)
        <3>1. IsTrueOf(report[i], corpus.cases[i]) /\ report'[i] = report[i]
            BY <1>2, <1>4, <2>1 DEF Work, HasCorpus
        <3> QED
            BY <3>1
            DEF IsTrueOf, FixtureIsTrue, IdentityIsTrue, Identified, VectorIsTrue, Message
    <2>2. CASE i = Len(report) + 1
        <3>1. report'[i] = result /\ corpus.cases[i] = Head(queue)
            BY <1>2, <1>4, <2>2
        <3> QED
            BY <3>1
            DEF IsTrueOf, FixtureIsTrue, IdentityIsTrue, Identified, VectorIsTrue, Message
    <2> QED
        BY <1>2, <1>4, <2>1, <2>2
<1> QED
    BY <1>1, <1>6, <1>7 DEF Work, HasCorpus, IsCorpus, Written

\* The invariant holds at the start, and every step of a runner and of those who
\* edit the repository keeps it.
THEOREM WorkTheorem == ConformanceSpec => []Work
<1>1. ConformanceInit => Work
    BY RepositoryAssumption DEF ConformanceInit, Work, HasCorpus, Written
<1>2. Work /\ [ConformanceNext]_conformanceVars => Work'
    <2> SUFFICES ASSUME Work, [ConformanceNext]_conformanceVars
                 PROVE  Work'
        OBVIOUS
    <2> USE DEF conformanceVars, runnerVars
    <2>fail. ASSUME Fail, UNCHANGED files, ~Written
             PROVE  Work'
        BY <2>fail DEF Fail, Work, HasCorpus, Written
    <2>1. CASE Edit
        <3>1. PICK r \in Repositories, part \in Parts : files' = [files EXCEPT ![part] = r[part]]
            BY <2>1 DEF Edit
        <3>2. IsRepository(files)'
            BY <3>1, EditKeeps DEF Work
        <3>3. \A i \in 1..Len(report) : IsTrueOf(report[i], corpus.cases[i]) <=>
                                            IsTrueOf(report[i], corpus.cases[i])'
            BY <2>1 DEF Edit, IsTrueOf, FixtureIsTrue, IdentityIsTrue, Identified,
                        VectorIsTrue, Message
        <3> QED
            BY <2>1, <3>2, <3>3
            DEF Edit, Work, HasCorpus, Accounted, IsCorpus, Written
    <2>2. CASE ReadCorpus
        <3>1. CASE Fail
            BY <2>2, <3>1, <2>fail DEF ReadCorpus, Work, Written
        <3>2. CASE ~Fail
            <4>1. /\ corpus' = Source /\ queue' = Source.cases /\ report' = <<>>
                  /\ step' \in {"adapter", "cases"}
                  /\ UNCHANGED <<suite, adapter, iteration, output, files>>
                  /\ step = "start"
                BY <2>2, <3>2 DEF ReadCorpus
            <4>2. IsSequence(Source.cases) /\ (suite = "identity" => IsIdentityCorpus(Source))
                BY DEF Work, IsRepository, Source, Suites, IsIdentityCorpus
            <4>3. /\ IsSequence(report)' /\ Len(report') = 0
                  /\ queue' \in Seq(Range(corpus'.cases))
                  /\ Len(queue') \in Nat
                BY <4>1, <4>2, EmptySeq, LenProperties, IsItsOwnSequence DEF IsSequence
            <4>4. Accounted'
                BY <4>1, <4>3 DEF Accounted
            <4>5. IsCorpus(corpus)'
                BY <4>1, <4>2 DEF IsCorpus
            <4> QED
                BY <4>1, <4>3, <4>4, <4>5 DEF Work, HasCorpus, Written
        <3> QED
            BY <3>1, <3>2
    <2>3. CASE MakeAdapter
        <3>1. CASE Fail
            BY <2>3, <3>1, <2>fail DEF MakeAdapter, Work, Written
        <3>2. CASE ~Fail
            <4>1. /\ step = "adapter" /\ step' = "cases"
                  /\ UNCHANGED <<suite, corpus, queue, report, iteration, output, files>>
                BY <2>3, <3>2 DEF MakeAdapter
            <4>2. \A i \in 1..Len(report) : IsTrueOf(report[i], corpus.cases[i]) <=>
                                                IsTrueOf(report[i], corpus.cases[i])'
                BY <4>1 DEF IsTrueOf, FixtureIsTrue, IdentityIsTrue, Identified,
                            VectorIsTrue, Message
            <4> QED
                BY <4>1, <4>2
                DEF Work, HasCorpus, Accounted, IsCorpus, Written
        <3> QED
            BY <3>1, <3>2
    <2>4. CASE CheckCase
        <3> DEFINE case == Head(queue)
        <3>1. CASE Fail
            BY <2>4, <3>1, <2>fail DEF CheckCase, Work, Written
        <3>2. CASE ~Fail /\ suite = "fixtures"
            <4>1. CheckFixture(case) /\ files.fixtures[case.path] = case.bytes /\ Admit(case.bytes)
                  /\ queue # <<>> /\ step = "cases" /\ UNCHANGED files
                BY <2>4, <3>2 DEF CheckCase, CheckFixture
            <4>2. CASE case.schema = "RegistrySetValues"
                <5>1. /\ step' = "registry"
                      /\ UNCHANGED <<suite, corpus, queue, report, iteration, output, files>>
                    BY <4>1, <4>2, <3>2 DEF CheckFixture
                <5>2. \A i \in 1..Len(report) : IsTrueOf(report[i], corpus.cases[i]) <=>
                                                    IsTrueOf(report[i], corpus.cases[i])'
                    BY <5>1 DEF IsTrueOf, FixtureIsTrue, IdentityIsTrue, Identified,
                                VectorIsTrue, Message
                <5> QED
                    BY <3>2, <4>1, <4>2, <5>1, <5>2
                    DEF Work, HasCorpus, Accounted, IsCorpus, Written
            <4>3. CASE case.schema # "RegistrySetValues"
                <5>1. PICK native \in Validate(adapter, case.bytes) :
                          /\ verifyNativeOutcome(case, native)
                          /\ FixtureResult(case, case.bytes) # Refused
                          /\ report' = Append(report, FixtureResult(case, case.bytes))
                          /\ queue' = Tail(queue)
                          /\ UNCHANGED <<suite, step, corpus, adapter, iteration, output>>
                    BY <4>1, <4>3, <3>2 DEF CheckFixture, Add
                <5>2. FixtureIsTrue(FixtureResult(case, case.bytes), case)
                    BY <4>1, <5>1, FixtureIsAgreed
                <5>3. IsTrueOf(FixtureResult(case, case.bytes), case)
                    BY <3>2, <5>1, <5>2 DEF IsTrueOf, FixtureResult
                <5> QED
                    BY <4>1, <5>1, <5>3, ReportGrows
            <4> QED
                BY <4>2, <4>3
        <3>3. CASE ~Fail /\ suite = "identity"
            <4> DEFINE result == CheckIdentity(case)
            <4>1. /\ result # Refused
                  /\ report' = Append(report, result) /\ queue' = Tail(queue)
                  /\ UNCHANGED <<suite, step, corpus, adapter, iteration, output, files>>
                  /\ queue # <<>> /\ step = "cases"
                BY <2>4, <3>3 DEF CheckCase, Add
            <4>2. /\ result.id = case.id /\ result.input = case
                  /\ IdentityIsTrue(result, case) /\ Identified(result, case)
                BY <4>1, ComponentIsIdentified, RootIsIdentified DEF CheckIdentity
            <4>3. IsTrueOf(result, case)
                BY <3>3, <4>2 DEF IsTrueOf
            <4> QED
                BY <4>1, <4>3, ReportGrows
        <3>4. CASE ~Fail /\ suite = "signature"
            <4> DEFINE result == CheckVector(case)
            <4>1. /\ result # Refused
                  /\ report' = Append(report, result) /\ queue' = Tail(queue)
                  /\ UNCHANGED <<suite, step, corpus, adapter, iteration, output, files>>
                  /\ queue # <<>> /\ step = "cases"
                BY <2>4, <3>4 DEF CheckCase, Add
            <4>2. result.id = case.id /\ VectorIsTrue(result, case)
                BY <4>1, VectorIsVerified
            <4>3. IsTrueOf(result, case)
                BY <3>4, <4>2 DEF IsTrueOf
            <4> QED
                BY <4>1, <4>3, ReportGrows
        <3> QED
            BY <3>1, <3>2, <3>3, <3>4 DEF Work, Suites
    <2>5. CASE CheckRegistry
        <3> DEFINE case == Head(queue)
        <3>1. CASE Fail
            BY <2>5, <3>1, <2>fail DEF CheckRegistry, Work, Written
        <3>2. CASE ~Fail
            <4>1. /\ step = "registry" /\ step' = "cases"
                  /\ FixtureResult(case, case.bytes) # Refused
                  /\ report' = Append(report, FixtureResult(case, case.bytes))
                  /\ queue' = Tail(queue)
                  /\ UNCHANGED <<suite, corpus, output, files>>
                BY <2>5, <3>2 DEF CheckRegistry, Add
            <4>2. suite = "fixtures" /\ queue # <<>> /\ case.schema = "RegistrySetValues"
                BY <4>1 DEF Work
            <4>3. IsTrueOf(FixtureResult(case, case.bytes), case)
                BY <4>1, <4>2, ProjectionIsTrue DEF IsTrueOf, FixtureResult
            <4> QED
                BY <4>1, <4>2, <4>3, ReportGrows
        <3> QED
            BY <3>1, <3>2
    <2>6. CASE ReadSources
        <3>1. /\ step = "cases" /\ queue = <<>>
              /\ UNCHANGED <<files, suite, corpus, queue, report>>
              /\ \/ step' = "start" /\ output' = output
                 \/ /\ step' = "done"
                    /\ output' = [corpus |-> corpus, adapters |-> files.adapters, cases |-> report]
            BY <2>6 DEF ReadSources
        <3>2. \A i \in 1..Len(report) : IsTrueOf(report[i], corpus.cases[i]) <=>
                                            IsTrueOf(report[i], corpus.cases[i])'
            BY <3>1 DEF IsTrueOf, FixtureIsTrue, IdentityIsTrue, Identified,
                        VectorIsTrue, Message
        <3> QED
            BY <3>1, <3>2
            DEF Work, HasCorpus, Accounted, IsCorpus, Written
    <2>7. CASE UNCHANGED conformanceVars
        <3>1. \A i \in 1..Len(report) : IsTrueOf(report[i], corpus.cases[i]) <=>
                                            IsTrueOf(report[i], corpus.cases[i])'
            BY <2>7 DEF IsTrueOf, FixtureIsTrue, IdentityIsTrue, Identified,
                        VectorIsTrue, Message
        <3> QED
            BY <2>7, <3>1
            DEF Work, HasCorpus, Accounted, IsCorpus, Written
    <2> QED
        BY <2>1, <2>2, <2>3, <2>4, <2>5, <2>6, <2>7 DEF ConformanceNext, RunnerNext
<1> QED
    BY <1>1, <1>2, PTL DEF ConformanceSpec

\* What the report says of a case is what the adapters make of the bytes of this
\* case, however the files are edited meanwhile, for any repository.
THEOREM OutputIsTrueTheorem == ConformanceSpec => []OutputIsTrue
<1>1. Work => OutputIsTrue
    <2> SUFFICES ASSUME Work, Written
                 PROVE  OutputIsTrue
        BY DEF OutputIsTrue
    <2>1. /\ step = "done" /\ queue = <<>> /\ output.corpus = corpus /\ output.cases = report
          /\ Accounted /\ IsCorpus(corpus)
          /\ \A i \in 1..Len(report) : IsTrueOf(report[i], corpus.cases[i])
        BY DEF Work, HasCorpus
    <2>2. Len(report) \in Nat /\ DOMAIN report = 1..Len(report) /\ Len(queue) = 0
        BY <2>1, LenProperties, EmptySeq DEF Accounted, IsSequence
    <2>3. Len(report) = Len(corpus.cases)
        BY <2>1, <2>2 DEF Accounted
    <2>4. \A i \in DOMAIN report :
              /\ report[i].id = corpus.cases[i].id
              /\ CASE suite = "fixtures" -> FixtureIsTrue(report[i], corpus.cases[i])
                   [] suite = "identity" -> IdentityIsTrue(report[i], corpus.cases[i])
                   [] suite = "signature" -> VectorIsTrue(report[i], corpus.cases[i])
        <3> TAKE i \in DOMAIN report
        <3>1. IsTrueOf(report[i], corpus.cases[i])
            BY <2>1, <2>2
        <3>2. suite \in Suites
            BY DEF Work
        <3> QED
            BY <3>1, <3>2 DEF IsTrueOf, Suites
    <2> QED
        BY <2>1, <2>3, <2>4 DEF OutputIsTrue
<1> QED
    BY <1>1, WorkTheorem, PTL

\* The digests of a report tell components of different purposes, media types and
\* contents apart, and components from root documents: no text of an encoding can
\* be taken for a part of another.
THEOREM DigestsSeparateTheorem == ConformanceSpec => []DigestsSeparate
<1>1. Work => DigestsSeparate
    <2> SUFFICES ASSUME Work, Written, suite = "identity",
                        NEW i \in DOMAIN output.cases, NEW j \in DOMAIN output.cases,
                        output.cases[i].valid, output.cases[j].valid,
                        output.cases[i].digest = output.cases[j].digest
                 PROVE  LET a == output.cases[i].input
                            b == output.cases[j].input
                        IN  /\ a.root <=> b.root
                            /\ ~a.root => /\ a.purpose = b.purpose
                                          /\ a.mediaType = b.mediaType
                                          /\ Canonical(a.value.doc) = Canonical(b.value.doc)
        BY DEF DigestsSeparate
    <2> DEFINE a == corpus.cases[i]
               b == corpus.cases[j]
    <2>1. /\ output.cases = report /\ queue = <<>>
          /\ Accounted /\ IsCorpus(corpus) /\ IsIdentityCorpus(corpus)
          /\ \A k \in 1..Len(report) : IsTrueOf(report[k], corpus.cases[k])
        BY DEF Work, HasCorpus, IsCorpus
    <2>2. /\ DOMAIN report = 1..Len(report)
          /\ i \in DOMAIN corpus.cases /\ j \in DOMAIN corpus.cases
        <3>1. Len(report) \in Nat /\ DOMAIN report = 1..Len(report) /\ Len(queue) = 0
            BY <2>1, LenProperties, EmptySeq DEF Accounted, IsSequence
        <3>2. DOMAIN corpus.cases = 1..Len(corpus.cases)
            BY <2>1, LenProperties DEF IsCorpus, IsSequence
        <3>3. Len(report) = Len(corpus.cases)
            BY <2>1, <3>1 DEF Accounted
        <3> QED
            BY <2>1, <3>1, <3>2, <3>3
    <2>3. /\ report[i].input = a /\ Identified(report[i], a)
          /\ report[j].input = b /\ Identified(report[j], b)
        BY <2>1, <2>2 DEF IsTrueOf
    <2>4. /\ ~a.root => a.purpose \in Seq(Nat) /\ a.mediaType \in Seq(Nat)
          /\ ~b.root => b.purpose \in Seq(Nat) /\ b.mediaType \in Seq(Nat)
        BY <2>1, <2>2 DEF IsIdentityCorpus
    <2> DEFINE digest == report[i].digest
    <2>5. /\ a.root => digest[1] = BomDomain
          /\ ~a.root => /\ validPrintableASCII(a.purpose) /\ validPrintableASCII(a.mediaType)
                        /\ digest = ComponentDigest(a.purpose, a.mediaType, Canonical(a.value.doc))
          /\ b.root => digest[1] = BomDomain
          /\ ~b.root => /\ validPrintableASCII(b.purpose) /\ validPrintableASCII(b.mediaType)
                        /\ digest = ComponentDigest(b.purpose, b.mediaType, Canonical(b.value.doc))
        BY <2>1, <2>3 DEF Identified
    <2> HIDE DEF a, b, digest
    <2>6. /\ ~a.root => a.purpose \in Seq(Nat \ {0}) /\ a.mediaType \in Seq(Nat \ {0})
          /\ ~b.root => b.purpose \in Seq(Nat \ {0}) /\ b.mediaType \in Seq(Nat \ {0})
        BY <2>4, <2>5, PrintableIsWithoutZero
    <2>7. /\ ~a.root => digest[1] # BomDomain
          /\ ~b.root => digest[1] # BomDomain
        BY <2>5, <2>6, DomainsDiffer
    <2>8. a.root <=> b.root
        BY <2>5, <2>7
    <2>9. ~a.root => /\ a.purpose = b.purpose /\ a.mediaType = b.mediaType
                     /\ Canonical(a.value.doc) = Canonical(b.value.doc)
        BY <2>5, <2>6, <2>8, ComponentDigestSeparates
    <2> QED
        BY <2>1, <2>3, <2>8, <2>9
<1> QED
    BY <1>1, WorkTheorem, PTL
=============================================================================
