-------------------------- MODULE AuthorizedCommits --------------------------
(***************************************************************************)
(* What the page-persistence operation of Pagix promises its callers, with *)
(* no word of how: a page revision moves by exactly one, and only in the   *)
(* same step that spends one authorization for ever.  A step that finds    *)
(* the caller's base revision out of date spends the authorization and     *)
(* leaves the revision where it is.                                        *)
(***************************************************************************)
EXTENDS Naturals

CONSTANTS Workspaces,        \* the workspaces whose pages are persisted
          AuthorizationIDs,  \* every Apply Authorization ever issued
          SeedRevisions      \* the revisions a workspace may be seeded with

VARIABLES head,              \* head[w]: the current revision of workspace w
          spent              \* the authorizations already spent

absVars == <<head, spent>>

AbsInit == /\ head = [w \in Workspaces |-> 0]
           /\ spent = {}

\* One authorized command: applied, or refused for a stale base revision.
Commit(w, a) ==
    /\ a \notin spent
    /\ spent' = spent \cup {a}
    /\ \/ head' = [head EXCEPT ![w] = @ + 1]
       \/ UNCHANGED head

\* The workspace is (re)initialised from outside; no authorization is involved.
Reseed(w, r) ==
    /\ head' = [head EXCEPT ![w] = r]
    /\ UNCHANGED spent

AbsNext == \/ \E w \in Workspaces, a \in AuthorizationIDs : Commit(w, a)
           \/ \E w \in Workspaces, r \in SeedRevisions : Reseed(w, r)

AbsSpec == AbsInit /\ [][AbsNext]_absVars
=============================================================================
