---------------------------- MODULE MCDocumentRelay ----------------------------
(*****************************************************************************)
(* Every type with its fields good but for at most one, which takes each of  *)
(* the values of its kind; every form of the text; null in every field; and  *)
(* of the types that hold every kind between them, any two fields.           *)
(*****************************************************************************)
EXTENDS DocumentRelay

AllGood(type) == [f \in DOMAIN Shape[type] |-> "good"]

OneOff(type) ==
    UNION {{[AllGood(type) EXCEPT ![f] = v] : v \in Values(Shape[type][f])} :
              f \in DOMAIN Shape[type]}

TwoOff(type) ==
    UNION {{[fields EXCEPT ![f] = v] : fields \in OneOff(type), v \in Values(Shape[type][f])} :
              f \in DOMAIN Shape[type]}

Paired == {"WorkerLease", "AgentEvidence", "ComponentRequest", "ContractSignatureStatement",
           "ContractBom", "CatalogSearchResultEntriesElem"}

MCDocuments ==
    UNION {{Document(t, "clean", fields) : fields \in OneOff(t)} : t \in Types \ Paired}
    \cup UNION {{Document(t, "clean", fields) : fields \in TwoOff(t)} : t \in Paired}
    \cup {Document(t, form, AllGood(t)) : t \in Types, form \in Forms}
    \cup {Document(t, "clean", [f \in DOMAIN Shape[t] |-> "null"]) : t \in Types}

\* Every lease of a worker with one field off.
Leases == {Document("WorkerLease", "clean", fields) : fields \in OneOff("WorkerLease")}
=============================================================================
