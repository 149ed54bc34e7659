----------------------------- MODULE PagixLedger ------------------------------
(***************************************************************************)
(* The financial ledger of mocks/fakepagix/fake.go: reservations made under *)
(* an idempotency key, usage observed against them, and reconciliation.    *)
(* It shares the mutex of PagixPersist and none of its maps, so it is a    *)
(* module of its own; a method call is one step, a refused one a stutter.  *)
(* Amounts are int64 micro-units, and a reservation opens with the amounts *)
(* its caller gave it: only the upper bound is checked.  The checks of     *)
(* Observe and Reconcile keep an amount that opened at 0 or more between 0 *)
(* and its bound; one that opened below 0 can be settled so far below that *)
(* the next comparison wraps.                                              *)
(***************************************************************************)
EXTENDS Integers, FiniteSums

CONSTANTS Workspaces, Keys, Digests, ReservationIDs, Generations, UsageIDs,
          MaxMicros,   \* the largest int64
          Offers,      \* the Reserve calls: a key, a digest, an id and the
                       \* reservation as the caller gives it
          Reports,     \* the Observe calls: [id, reservation, cost, final]
          FinalCosts,  \* the costs Reconcile is called with
          None         \* a missing map entry

Micros == -MaxMicros - 1 .. MaxMicros

Reservation == [workspace: Workspaces, generation: Generations, upper: Micros,
                observed: Micros, final: BOOLEAN, released: BOOLEAN]

Usage == [id: UsageIDs, reservation: ReservationIDs, cost: 0..MaxMicros,
          final: BOOLEAN]

KeyRecord == [digest: Digests, id: ReservationIDs]

ASSUME MicrosAssumption == MaxMicros \in Nat
ASSUME CallsAssumption == /\ \A o \in Offers :
                                /\ o.key \in Keys /\ o.digest \in Digests
                                /\ o.id \in ReservationIDs
                                /\ o.value \in Reservation
                                /\ o.value.upper >= 1
                          /\ Reports \subseteq Usage
                          /\ FinalCosts \subseteq Micros
ASSUME NoneAssumption == None \notin Reservation \cup KeyRecord \cup Usage

VARIABLES
    reservations,    \* reservations[id]: the reservation, or None
    reservationKeys, \* reservationKeys[w, k]: the digest and reservation id
    usage,           \* usage[u]: the usage recorded under the id u
    opened,          \* history: opened[id], the reservation as it was made
    settled          \* history: the reservations reconciled at least once

vars == <<reservations, reservationKeys, usage, opened, settled>>

Init == /\ reservations = [id \in ReservationIDs |-> None]
        /\ reservationKeys = [wk \in Workspaces \X Keys |-> None]
        /\ usage = [u \in UsageIDs |-> None]
        /\ opened = [id \in ReservationIDs |-> None]
        /\ settled = {}

------------------------------------------------------------------------------
BugAnyID(o) == TRUE

\* Reservation ids are global: another key or workspace cannot take one again.
FreshReservation(o) == reservations[o.id] = None

\* The value is kept as the caller gave it, with whatever it says was observed
\* and released already.  A repeated key and digest is answered from the maps
\* and changes nothing.
Reserve(o) ==
    /\ reservationKeys[<<o.value.workspace, o.key>>] = None
    /\ FreshReservation(o)
    /\ reservations' = [reservations EXCEPT ![o.id] = o.value]
    /\ opened' = [opened EXCEPT ![o.id] = o.value]
    /\ reservationKeys' = [reservationKeys EXCEPT
           ![<<o.value.workspace, o.key>>] = [digest |-> o.digest, id |-> o.id]]
    /\ UNCHANGED <<usage, settled>>

\* An int64 sum or difference, x being less than one span out of range.
Wrap(x) == IF x > MaxMicros THEN x - 2 * (MaxMicros + 1)
           ELSE IF x < -MaxMicros - 1 THEN x + 2 * (MaxMicros + 1)
           ELSE x

BugOneTooMany(r, cost) == r.observed <= Wrap(r.upper - cost) + 1

\* The observation fits what is left of the reservation.
Fits(r, cost) == r.observed <= Wrap(r.upper - cost)

BugFinalIsLatest(r, u) ==
    [r EXCEPT !.observed = Wrap(@ + u.cost), !.final = u.final]

\* Costs add up, and the final observation stays final whatever follows it.
Charge(r, u) ==
    [r EXCEPT !.observed = Wrap(@ + u.cost), !.final = @ \/ u.final]

\* A new usage id.  A usage id seen before changes nothing: it is a duplicate
\* when the usage is the same and an idempotency conflict when it is not.
Observe(u) ==
    /\ usage[u.id] = None
    /\ reservations[u.reservation] # None
    /\ Fits(reservations[u.reservation], u.cost)
    /\ reservations' =
           [reservations EXCEPT ![u.reservation] = Charge(@, u)]
    /\ usage' = [usage EXCEPT ![u.id] = u]
    /\ UNCHANGED <<reservationKeys, opened, settled>>

BugNoUpperBound(r, generation, cost) ==
    r.generation = generation /\ r.final /\ cost >= r.observed

\* The reconciliation fence: the caller's generation, after the final usage, a
\* cost that covers what was observed and stays within the reservation.
FencePasses(r, generation, cost) ==
    /\ r.generation = generation
    /\ r.final
    /\ r.observed <= cost /\ cost <= r.upper

\* Both the observed and the reserved amount become the final cost.
Settle(r, cost, release) ==
    [r EXCEPT !.observed = cost, !.upper = cost, !.released = release]

Reconcile(id, generation, cost, release) ==
    /\ reservations[id] # None
    /\ FencePasses(reservations[id], generation, cost)
    /\ reservations' =
           [reservations EXCEPT ![id] = Settle(@, cost, release)]
    /\ settled' = settled \cup {id}
    /\ UNCHANGED <<reservationKeys, usage, opened>>

Next ==
    \/ \E o \in Offers : Reserve(o)
    \/ \E u \in Reports : Observe(u)
    \/ \E id \in ReservationIDs, g \in Generations, cost \in FinalCosts,
          release \in BOOLEAN : Reconcile(id, g, cost, release)

Spec == Init /\ [][Next]_vars

------------------------------------------------------------------------------
\* The maps hold reservations, key records and usage.
TypeOK ==
    /\ reservations \in [ReservationIDs -> Reservation \cup {None}]
    /\ reservationKeys \in [Workspaces \X Keys -> KeyRecord \cup {None}]
    /\ usage \in [UsageIDs -> Usage \cup {None}]
    /\ opened \in [ReservationIDs -> Reservation \cup {None}]
    /\ settled \subseteq ReservationIDs

Open == {id \in ReservationIDs : reservations[id] # None}

\* The amounts of a reservation that opened below 0 may wrap: the properties
\* about amounts leave it out, those about its flags and keys do not.
Charged == {id \in Open : opened[id].observed >= 0}

\* However observations and reconciliations interleave, no reservation is
\* charged more than it holds: what exceeds it was there when it opened, and
\* then nothing is charged to it at all.  One that was reconciled is charged
\* exactly what it holds, and none is released before it is final and settled
\* unless it opened as released (fake.go:119, 140, 153).
BudgetHeld ==
    /\ \A id \in Charged :
          LET r == reservations[id] IN
          /\ r.observed <= r.upper \/ r = opened[id]
          /\ id \in settled => r.observed = r.upper
    /\ \A id \in Open :
          LET r == reservations[id] IN
          r.released => \/ opened[id].released
                        \/ r.final /\ id \in settled

\* The usage recorded against a reservation, and what it costs together.
UsageOf(id) == {u \in UsageIDs : usage[u] # None /\ usage[u].reservation = id}

Total(id) == SumOver([u \in UsageOf(id) |-> usage[u].cost], UsageOf(id))

\* Every accepted usage is counted exactly once: until it is reconciled a
\* reservation is charged what it opened with and the sum of its usage, and
\* never less after it (fake.go:119, 130-147).  It is final when it opened as
\* final or a final usage is among them.
UsageCountedOnce ==
    /\ \A id \in Charged :
          LET due == opened[id].observed + Total(id) IN
          /\ id \notin settled => reservations[id].observed = due
          /\ id \in settled => reservations[id].observed >= due
    /\ \A id \in Open :
          reservations[id].final <=> \/ opened[id].final
                                    \/ \E u \in UsageOf(id) : usage[u].final

\* Usage and idempotency keys name reservations that exist, a key names one of
\* its own workspace, and no two keys name the same one (fake.go:109-121), so a
\* repeated Reserve is never answered with another caller's reservation.
KeysOwnReservations ==
    /\ \A u \in UsageIDs : usage[u] # None => usage[u].reservation \in Open
    /\ \A wk \in Workspaces \X Keys : reservationKeys[wk] # None =>
          /\ reservationKeys[wk].id \in Open
          /\ reservations[reservationKeys[wk].id].workspace = wk[1]
          /\ \A other \in Workspaces \X Keys :
                /\ reservationKeys[other] # None
                /\ reservationKeys[other].id = reservationKeys[wk].id
                => other = wk

\* What is charged to a reservation never shrinks, what it holds never grows,
\* and neither moves once it was reconciled: a repeated or late reconciliation
\* and a late observation cannot change the cost that was settled.
SettledCostIsFrozen ==
    [][\A id \in Charged :
          /\ reservations'[id] # None
          /\ reservations'[id].observed >= reservations[id].observed
          /\ reservations'[id].upper <= reservations[id].upper
          /\ id \in settled =>
                /\ reservations'[id].observed = reservations[id].observed
                /\ reservations'[id].upper = reservations[id].upper]_vars
=============================================================================
