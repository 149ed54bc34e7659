--------------------------- MODULE PagixLedgerProofs --------------------------
(***************************************************************************)
(* Theorems about PagixLedger, for every value of its constants.           *)
(***************************************************************************)
EXTENDS PagixLedger, FiniteSumsProofs

------------------------------------------------------------------------------
(***************************************************************************)
(* The inductive invariant.  Each fact of BudgetHeld makes the fence of    *)
(* the next call sound: an observation is compared with the reserved       *)
(* amount, which is the settled cost once there is one, and an id that is  *)
(* offered for the first time was never settled.  Amounts that opened at 0 *)
(* or more stay there, so nothing that is subtracted from them wraps.      *)
(***************************************************************************)
Books ==
    /\ TypeOK /\ BudgetHeld
    /\ settled \subseteq Open
    /\ \A id \in Open : opened[id] # None
    /\ \A id \in Charged : reservations[id].observed >= 0 /\ reservations[id].upper >= 0

\* The fields of the calls that reach the ledger.
LEMMA CallFields ==
    /\ \A o \in Offers : /\ o.value \in Reservation
                         /\ o.value # None
                         /\ o.value.workspace \in Workspaces
                         /\ o.value.observed \in Int
                         /\ o.value.upper \in Int
                         /\ o.value.upper >= 1
                         /\ o.key \in Keys
                         /\ o.digest \in Digests
                         /\ o.id \in ReservationIDs
    /\ \A u \in Reports : /\ u \in Usage
                          /\ u.id \in UsageIDs
                          /\ u.reservation \in ReservationIDs
                          /\ u.cost \in Nat /\ u.cost <= MaxMicros
                          /\ u.final \in BOOLEAN
    /\ \A cost \in FinalCosts : cost \in Micros /\ cost \in Int
    /\ MaxMicros \in Nat
BY CallsAssumption, MicrosAssumption, NoneAssumption
DEF Usage, Reservation, Micros

\* An open reservation is a reservation, with the fields of one.
LEMMA OpenFields ==
    ASSUME TypeOK, NEW id \in ReservationIDs, reservations[id] # None
    PROVE  /\ id \in Open
           /\ reservations[id] \in Reservation
           /\ reservations[id].workspace \in Workspaces
           /\ reservations[id].generation \in Generations
           /\ reservations[id].observed \in Int
           /\ reservations[id].upper \in Int
           /\ -MaxMicros - 1 <= reservations[id].observed
           /\ reservations[id].observed <= MaxMicros
           /\ -MaxMicros - 1 <= reservations[id].upper
           /\ reservations[id].upper <= MaxMicros
           /\ reservations[id].final \in BOOLEAN
           /\ reservations[id].released \in BOOLEAN
BY MicrosAssumption DEF Open, TypeOK, Reservation, Micros

\* A sum in range is that sum, and any other stays an int64.
LEMMA WrapStays ==
    ASSUME NEW x \in Int
    PROVE  /\ x \in Micros => Wrap(x) = x
           /\ (-2 * MaxMicros - 2 <= x /\ x <= 2 * MaxMicros) => Wrap(x) \in Micros
BY MicrosAssumption DEF Wrap, Micros

\* A charged reservation is a reservation.
LEMMA ChargeFields ==
    ASSUME NEW r \in Reservation, NEW u \in Reports
    PROVE  /\ Charge(r, u) \in Reservation
           /\ Charge(r, u).workspace = r.workspace
           /\ Charge(r, u).observed = Wrap(r.observed + u.cost)
           /\ Charge(r, u).upper = r.upper
           /\ Charge(r, u).released = r.released
           /\ Charge(r, u).final <=> r.final \/ u.final
           /\ r.observed \in Int /\ r.upper \in Int /\ u.cost \in Nat
<1> DEFINE f == r.final \/ u.final
           c == Wrap(r.observed + u.cost)
<1>1. /\ f \in BOOLEAN /\ (f <=> r.final \/ u.final)
      /\ r.observed \in Int /\ r.upper \in Int /\ u.cost \in Nat
  BY CallFields DEF Reservation, Micros
<1>2. Charge(r, u) = [r EXCEPT !.observed = c, !.final = f]
  BY DEF Charge
<1>3. /\ r.workspace \in Workspaces /\ r.generation \in Generations
      /\ r.released \in BOOLEAN /\ r.upper \in Micros
  BY DEF Reservation
<1>4. c \in Micros
  <2>1. /\ r.observed + u.cost \in Int
        /\ -2 * MaxMicros - 2 <= r.observed + u.cost
        /\ r.observed + u.cost <= 2 * MaxMicros
    BY CallFields DEF Reservation, Micros
  <2> QED
    BY <2>1, WrapStays
<1> HIDE DEF f, c
<1>5. Charge(r, u) =
        [workspace |-> r.workspace, generation |-> r.generation,
         upper |-> r.upper, observed |-> c,
         final |-> f, released |-> r.released]
  BY <1>2 DEF Reservation
<1>6. Charge(r, u) \in Reservation
  BY <1>1, <1>3, <1>4, <1>5 DEF Reservation
<1> QED
  BY <1>1, <1>5, <1>6 DEF c

\* So is a settled one, and it is charged exactly what it holds.
LEMMA SettleFields ==
    ASSUME NEW r \in Reservation, NEW cost \in FinalCosts, NEW release \in BOOLEAN
    PROVE  /\ Settle(r, cost, release) \in Reservation
           /\ Settle(r, cost, release).workspace = r.workspace
           /\ Settle(r, cost, release).observed = cost
           /\ Settle(r, cost, release).upper = cost
           /\ Settle(r, cost, release).final = r.final
           /\ cost \in Int
BY CallFields DEF Settle, Reservation

\* What the books say of one reservation that opened as o, when it is r.
Kept(o, r, isSettled) ==
    /\ o.observed >= 0 => /\ r.observed <= r.upper \/ r = o
                          /\ isSettled => r.observed = r.upper
                          /\ r.observed >= 0 /\ r.upper >= 0
    /\ r.released => o.released \/ (r.final /\ isSettled)

\* The books of a reservation that is open.
LEMMA OpenIsKept ==
    ASSUME Books, NEW id \in Open
    PROVE  /\ Kept(opened[id], reservations[id], id \in settled)
           /\ opened[id] \in Reservation
BY DEF Books, BudgetHeld, Charged, Kept, TypeOK, Open

\* A step that puts a kept reservation in one place keeps the books.
LEMMA OneChanges ==
    ASSUME Books, NEW id \in ReservationIDs, NEW r \in Reservation,
           reservations' = [reservations EXCEPT ![id] = r],
           settled' = settled \/ settled' = settled \cup {id},
           \A other \in ReservationIDs : other # id => opened'[other] = opened[other],
           opened' \in [ReservationIDs -> Reservation \cup {None}],
           opened'[id] # None,
           Kept(opened'[id], r, id \in settled')
    PROVE  /\ BudgetHeld'
           /\ (reservations \in [ReservationIDs -> Reservation \cup {None}])'
           /\ (settled \subseteq ReservationIDs)'
           /\ (settled \subseteq Open)'
           /\ (\A other \in Open : opened[other] # None)'
           /\ (\A other \in Charged : /\ reservations[other].observed >= 0
                                      /\ reservations[other].upper >= 0)'
<1>1. /\ reservations'[id] = r
      /\ r # None
      /\ \A other \in ReservationIDs : other # id =>
            /\ reservations'[other] = reservations[other]
            /\ other \in settled' <=> other \in settled
  BY NoneAssumption DEF Books, TypeOK
<1>2. (settled \subseteq Open)'
  BY <1>1 DEF Books, TypeOK, Open
<1>3. ASSUME NEW other \in Open'
      PROVE  /\ Kept(opened'[other], reservations'[other], other \in settled')
             /\ opened'[other] # None
  <2>1. CASE other = id
    BY <1>1, <2>1
  <2>2. CASE other # id
    <3>1. /\ other \in Open
          /\ opened'[other] = opened[other]
          /\ reservations'[other] = reservations[other]
          /\ other \in settled' <=> other \in settled
      BY <1>1, <2>2 DEF Open
    <3>2. Kept(opened[other], reservations[other], other \in settled)
      BY <3>1, OpenIsKept
    <3>3. Kept(opened'[other], reservations'[other], other \in settled')
      BY <3>1, <3>2 DEF Kept
    <3> QED
      BY <3>1, <3>3 DEF Books
  <2> QED
    BY <2>1, <2>2
<1>4. BudgetHeld'
  BY <1>3 DEF BudgetHeld, Charged, Kept
<1>5. (\A other \in Charged : /\ reservations[other].observed >= 0
                              /\ reservations[other].upper >= 0)'
  BY <1>3 DEF Charged, Kept
<1> QED
  BY <1>1, <1>2, <1>3, <1>4, <1>5 DEF Books, TypeOK

\* A new reservation opens as its caller gave it, under an id nothing was
\* settled for.
LEMMA ReserveKeepsBooks ==
    ASSUME Books, NEW o \in Offers, Reserve(o)
    PROVE  Books'
<1>1. /\ o.value \in Reservation /\ o.value # None
      /\ o.id \in ReservationIDs /\ o.id \notin settled
  BY CallFields DEF Reserve, FreshReservation, Open, Books
<1>2. /\ reservations' = [reservations EXCEPT ![o.id] = o.value]
      /\ opened' = [opened EXCEPT ![o.id] = o.value]
      /\ settled' = settled
  BY DEF Reserve
<1>3. /\ \A other \in ReservationIDs : other # o.id => opened'[other] = opened[other]
      /\ opened' \in [ReservationIDs -> Reservation \cup {None}]
      /\ opened'[o.id] = o.value
  BY <1>1, <1>2 DEF Books, TypeOK
<1>4. Kept(opened'[o.id], o.value, o.id \in settled')
  BY <1>1, <1>2, <1>3, CallFields DEF Kept
<1>5. /\ BudgetHeld'
      /\ (reservations \in [ReservationIDs -> Reservation \cup {None}])'
      /\ (settled \subseteq ReservationIDs)'
      /\ (settled \subseteq Open)'
      /\ (\A other \in Open : opened[other] # None)'
      /\ (\A other \in Charged : /\ reservations[other].observed >= 0
                                 /\ reservations[other].upper >= 0)'
  <2> DEFINE r == o.value
             id == o.id
  <2>1. /\ r \in Reservation /\ id \in ReservationIDs
        /\ reservations' = [reservations EXCEPT ![id] = r]
        /\ settled' = settled
        /\ \A other \in ReservationIDs : other # id => opened'[other] = opened[other]
        /\ opened' \in [ReservationIDs -> Reservation \cup {None}]
        /\ opened'[id] # None
        /\ Kept(opened'[id], r, id \in settled')
    BY <1>1, <1>2, <1>3, <1>4
  <2> HIDE DEF r, id
  <2> QED
    BY <2>1, OneChanges
<1>6. (reservationKeys \in [Workspaces \X Keys -> KeyRecord \cup {None}])'
  BY CallFields DEF Books, TypeOK, Reserve, KeyRecord
<1> QED
  BY <1>3, <1>5, <1>6 DEF Books, TypeOK, Reserve

\* Of a reservation that opened at 0 or more, an observation that fits takes
\* what is left, as a number and not only as an int64.
LEMMA FitsIsExact ==
    ASSUME Books, NEW id \in Charged, NEW u \in Reports,
           Fits(reservations[id], u.cost)
    PROVE  /\ Charge(reservations[id], u).observed = reservations[id].observed + u.cost
           /\ reservations[id].observed + u.cost <= reservations[id].upper
           /\ id \in settled => u.cost = 0
<1>1. /\ id \in ReservationIDs /\ id \in Open
      /\ reservations[id] \in Reservation
      /\ reservations[id].observed \in Int /\ reservations[id].upper \in Int
      /\ reservations[id].upper <= MaxMicros
      /\ 0 <= reservations[id].observed /\ 0 <= reservations[id].upper
      /\ u.cost \in Nat /\ u.cost <= MaxMicros /\ MaxMicros \in Nat
  BY CallFields, OpenFields DEF Books, Charged, Open
<1>2. Wrap(reservations[id].upper - u.cost) = reservations[id].upper - u.cost
  BY <1>1 DEF Wrap
<1>3. reservations[id].observed + u.cost <= reservations[id].upper
  BY <1>1, <1>2 DEF Fits
<1>4. Wrap(reservations[id].observed + u.cost) = reservations[id].observed + u.cost
  BY <1>1, <1>3 DEF Wrap
<1>5. id \in settled => reservations[id].observed = reservations[id].upper
  BY DEF Books, BudgetHeld
<1> QED
  BY <1>1, <1>3, <1>4, <1>5, ChargeFields

\* An observation that fits is charged within the reserved amount, and one that
\* fits a settled reservation costs nothing.
LEMMA ObserveKeepsBooks ==
    ASSUME Books, NEW u \in Reports, Observe(u)
    PROVE  /\ Books'
           /\ reservations' = [reservations EXCEPT ![u.reservation] = Charge(@, u)]
           /\ u.reservation \in Open
           /\ Fits(reservations[u.reservation], u.cost)
<1> DEFINE id == u.reservation
           r  == Charge(reservations[id], u)
           o  == opened[id]
<1>1. /\ id \in ReservationIDs /\ id \in Open
      /\ reservations[id] \in Reservation
      /\ Fits(reservations[id], u.cost)
      /\ u.cost \in Nat
  BY CallFields, OpenFields DEF Books, Observe
<1>2. /\ r \in Reservation
      /\ r.upper = reservations[id].upper
      /\ r.released = reservations[id].released
      /\ reservations[id].final => r.final
      /\ reservations[id].observed \in Int /\ reservations[id].upper \in Int
  BY <1>1, ChargeFields
<1>3. /\ reservations' = [reservations EXCEPT ![id] = r]
      /\ settled' = settled /\ opened' = opened
  BY DEF Observe
<1>4. /\ Kept(o, reservations[id], id \in settled)
      /\ o \in Reservation /\ o # None
  BY <1>1, OpenIsKept DEF Books
<1>5. ASSUME o.observed >= 0
      PROVE  /\ r.observed <= r.upper
             /\ id \in settled => r.observed = r.upper
             /\ r.observed >= 0 /\ r.upper >= 0
  <2>1. id \in Charged
    BY <1>1, <1>5 DEF Charged
  <2>2. /\ r.observed = reservations[id].observed + u.cost
        /\ reservations[id].observed + u.cost <= reservations[id].upper
        /\ id \in settled => u.cost = 0
    BY <1>1, <2>1, FitsIsExact
  <2>3. /\ reservations[id].observed >= 0 /\ reservations[id].upper >= 0
        /\ id \in settled => reservations[id].observed = reservations[id].upper
    BY <1>4, <1>5 DEF Kept
  <2> QED
    BY <1>1, <1>2, <2>2, <2>3
<1>6. Kept(opened'[id], r, id \in settled')
  BY <1>2, <1>3, <1>4, <1>5 DEF Kept
<1>7. /\ BudgetHeld'
      /\ (reservations \in [ReservationIDs -> Reservation \cup {None}])'
      /\ (settled \subseteq ReservationIDs)'
      /\ (settled \subseteq Open)'
      /\ (\A other \in Open : opened[other] # None)'
      /\ (\A other \in Charged : /\ reservations[other].observed >= 0
                                 /\ reservations[other].upper >= 0)'
  <2>1. /\ \A other \in ReservationIDs : other # id => opened'[other] = opened[other]
        /\ opened' \in [ReservationIDs -> Reservation \cup {None}]
        /\ opened'[id] # None
    BY <1>3, <1>4 DEF Books, TypeOK
  <2> HIDE DEF r
  <2> QED
    BY <1>1, <1>2, <1>3, <1>6, <2>1, OneChanges
<1>8. (usage \in [UsageIDs -> Usage \cup {None}])'
  BY CallFields DEF Books, TypeOK, Observe
<1>9. Books'
  BY <1>3, <1>7, <1>8 DEF Books, TypeOK, Observe
<1> QED
  BY <1>1, <1>9 DEF Observe

\* A reconciliation that passes the fence settles within the reserved amount.
LEMMA ReconcileKeepsBooks ==
    ASSUME Books, NEW id \in ReservationIDs, NEW g \in Generations,
           NEW cost \in FinalCosts, NEW release \in BOOLEAN,
           Reconcile(id, g, cost, release)
    PROVE  /\ Books'
           /\ reservations' = [reservations EXCEPT ![id] = Settle(@, cost, release)]
           /\ id \in Open
           /\ reservations[id].observed <= cost /\ cost <= reservations[id].upper
<1> DEFINE r == Settle(reservations[id], cost, release)
           o == opened[id]
<1>1. /\ id \in Open
      /\ reservations[id] \in Reservation
      /\ reservations[id].observed \in Int
      /\ reservations[id].final
      /\ reservations[id].observed <= cost /\ cost <= reservations[id].upper
      /\ cost \in Int
  BY CallFields, OpenFields DEF Books, Reconcile, FencePasses
<1>2. /\ r \in Reservation
      /\ r.observed = cost /\ r.upper = cost
      /\ r.final
  BY <1>1, SettleFields
<1>3. /\ reservations' = [reservations EXCEPT ![id] = r]
      /\ settled' = settled \cup {id} /\ opened' = opened
  BY DEF Reconcile
<1>4. /\ Kept(o, reservations[id], id \in settled)
      /\ o \in Reservation /\ o # None
  BY <1>1, OpenIsKept DEF Books
<1>5. Kept(opened'[id], r, id \in settled')
  BY <1>1, <1>2, <1>3, <1>4 DEF Kept
<1>6. /\ BudgetHeld'
      /\ (reservations \in [ReservationIDs -> Reservation \cup {None}])'
      /\ (settled \subseteq ReservationIDs)'
      /\ (settled \subseteq Open)'
      /\ (\A other \in Open : opened[other] # None)'
      /\ (\A other \in Charged : /\ reservations[other].observed >= 0
                                 /\ reservations[other].upper >= 0)'
  <2>1. /\ \A other \in ReservationIDs : other # id => opened'[other] = opened[other]
        /\ opened' \in [ReservationIDs -> Reservation \cup {None}]
        /\ opened'[id] # None
    BY <1>3, <1>4 DEF Books, TypeOK
  <2> HIDE DEF r
  <2> QED
    BY <1>2, <1>3, <1>5, <2>1, OneChanges
<1>7. Books'
  BY <1>3, <1>6 DEF Books, TypeOK, Reconcile
<1> QED
  BY <1>1, <1>7 DEF Reconcile

\* Every step of the ledger keeps the books.
LEMMA BooksStep == Books /\ [Next]_vars => Books'
<1>1. Books /\ UNCHANGED vars => Books'
  BY DEF Books, TypeOK, BudgetHeld, Open, Charged, vars
<1> QED
  BY <1>1, ReserveKeepsBooks, ObserveKeepsBooks, ReconcileKeepsBooks DEF Next

\* An empty ledger has its books in order.
LEMMA BooksInit == Init => Books
BY DEF Init, Books, TypeOK, BudgetHeld, Open, Charged

\* Whatever amounts, final or released, a reservation opens with: nothing is
\* charged beyond what it holds, a settled one is charged exactly that, and none
\* that did not open as released is released before it is final and settled
\* (fake.go:103-161).  Of one that opened below 0 only the release is claimed.
THEOREM LedgerBalances == Spec => [](TypeOK /\ BudgetHeld)
<1>1. Books => TypeOK /\ BudgetHeld
  BY DEF Books
<1> QED
  BY <1>1, BooksInit, BooksStep, PTL DEF Spec

\* What a step may do to a reservation that is open: nothing, a charge within
\* what it holds, or a settlement between what is charged and what it holds.
LEMMA OpenStep ==
    ASSUME Books, Next, NEW id \in Open
    PROVE  /\ opened'[id] = opened[id]
           /\ \/ reservations'[id] = reservations[id]
              \/ \E u \in Reports :
                    /\ reservations'[id] = Charge(reservations[id], u)
                    /\ Fits(reservations[id], u.cost)
              \/ \E cost \in FinalCosts, release \in BOOLEAN :
                    /\ reservations'[id] = Settle(reservations[id], cost, release)
                    /\ reservations[id].observed <= cost
                    /\ cost <= reservations[id].upper
<1>1. id \in ReservationIDs /\ reservations[id] # None
  BY DEF Open
<1>2. ASSUME NEW o \in Offers, Reserve(o)
      PROVE  reservations'[id] = reservations[id] /\ opened'[id] = opened[id]
  BY <1>1, <1>2 DEF Reserve, FreshReservation, Books, TypeOK
<1>3. ASSUME NEW u \in Reports, Observe(u)
      PROVE  /\ opened' = opened
             /\ \/ reservations'[id] = reservations[id]
                \/ /\ reservations'[id] = Charge(reservations[id], u)
                   /\ Fits(reservations[id], u.cost)
  <2>1. /\ reservations' = [reservations EXCEPT ![u.reservation] = Charge(@, u)]
        /\ Fits(reservations[u.reservation], u.cost)
    BY <1>3, ObserveKeepsBooks
  <2>2. CASE id = u.reservation
    <3>1. reservations'[id] = Charge(reservations[id], u)
      BY <1>1, <2>1, <2>2 DEF Books, TypeOK
    <3> QED
      BY <1>3, <2>1, <2>2, <3>1 DEF Observe
  <2>3. CASE id # u.reservation
    BY <1>1, <1>3, <2>1, <2>3 DEF Books, TypeOK, Observe
  <2> QED
    BY <2>2, <2>3
<1>4. ASSUME NEW other \in ReservationIDs, NEW g \in Generations,
             NEW cost \in FinalCosts, NEW release \in BOOLEAN,
             Reconcile(other, g, cost, release)
      PROVE  /\ opened' = opened
             /\ \/ reservations'[id] = reservations[id]
                \/ /\ reservations'[id] = Settle(reservations[id], cost, release)
                   /\ reservations[id].observed <= cost
                   /\ cost <= reservations[id].upper
  <2>1. /\ reservations' =
              [reservations EXCEPT ![other] = Settle(@, cost, release)]
        /\ reservations[other].observed <= cost
        /\ cost <= reservations[other].upper
    BY <1>4, ReconcileKeepsBooks
  <2> QED
    BY <1>1, <1>4, <2>1 DEF Books, TypeOK, Reconcile
<1> QED
  BY <1>2, <1>3, <1>4 DEF Next

\* What SettledCostIsFrozen says of one reservation and one step.
FrozenIn(id) ==
    /\ reservations'[id] # None
    /\ reservations'[id].observed >= reservations[id].observed
    /\ reservations'[id].upper <= reservations[id].upper
    /\ id \in settled => /\ reservations'[id].observed = reservations[id].observed
                         /\ reservations'[id].upper = reservations[id].upper

\* An open reservation stays one, in its workspace.
LEMMA OpenStaysOpen ==
    ASSUME Books, Next, NEW id \in Open
    PROVE  /\ reservations'[id] \in Reservation
           /\ reservations'[id] # None
           /\ id \in Open'
           /\ reservations'[id].workspace = reservations[id].workspace
<1>1. reservations[id] \in Reservation /\ id \in ReservationIDs
  BY OpenFields DEF Open, Books
<1>2. /\ reservations'[id] \in Reservation
      /\ reservations'[id].workspace = reservations[id].workspace
  BY <1>1, OpenStep, ChargeFields, SettleFields
<1> QED
  BY <1>1, <1>2, NoneAssumption DEF Open

\* No step shrinks a charge, widens a reservation or moves a settled cost.
LEMMA ChargedStaysFrozen ==
    ASSUME Books, Next, NEW id \in Charged
    PROVE  FrozenIn(id)
<1>1. /\ id \in Open
      /\ reservations[id] \in Reservation
      /\ reservations[id].observed \in Int /\ reservations[id].upper \in Int
      /\ reservations'[id] # None
  BY OpenFields, OpenStaysOpen DEF Charged, Open, Books
<1>2. id \in settled => reservations[id].observed = reservations[id].upper
  BY DEF Books, BudgetHeld
<1>3. CASE reservations'[id] = reservations[id]
  BY <1>1, <1>3 DEF FrozenIn
<1>4. ASSUME NEW u \in Reports, reservations'[id] = Charge(reservations[id], u),
             Fits(reservations[id], u.cost)
      PROVE  FrozenIn(id)
  <2>1. /\ Charge(reservations[id], u).observed = reservations[id].observed + u.cost
        /\ id \in settled => u.cost = 0
    BY <1>4, FitsIsExact
  <2>2. Charge(reservations[id], u).upper = reservations[id].upper /\ u.cost \in Nat
    BY <1>1, ChargeFields
  <2> QED
    BY <1>1, <1>4, <2>1, <2>2 DEF FrozenIn
<1>5. ASSUME NEW cost \in FinalCosts, NEW release \in BOOLEAN,
             reservations'[id] = Settle(reservations[id], cost, release),
             reservations[id].observed <= cost, cost <= reservations[id].upper
      PROVE  FrozenIn(id)
  <2>1. /\ Settle(reservations[id], cost, release).observed = cost
        /\ Settle(reservations[id], cost, release).upper = cost
        /\ cost \in Int
    BY <1>1, SettleFields
  <2> QED
    BY <1>1, <1>2, <1>5, <2>1 DEF FrozenIn
<1> QED
  BY <1>1, <1>3, <1>4, <1>5, OpenStep

\* What is charged never shrinks, what is held never grows, and a settled cost
\* is final: no later observation or reconciliation moves it.
THEOREM SettledForGood == Spec => SettledCostIsFrozen
<1>1. Books /\ [Next]_vars => [\A id \in Charged : FrozenIn(id)]_vars
  BY ChargedStaysFrozen
<1> QED
  BY <1>1, BooksInit, BooksStep, PTL DEF Spec, SettledCostIsFrozen, FrozenIn

\* A reservation's key record, workspace and id stay together for ever.
THEOREM KeysOwnTheirs == Spec => []KeysOwnReservations
<1>1. Init => KeysOwnReservations
  BY DEF Init, KeysOwnReservations
<1>2. Books /\ KeysOwnReservations /\ [Next]_vars => KeysOwnReservations'
  <2> SUFFICES ASSUME Books, KeysOwnReservations, [Next]_vars
               PROVE  KeysOwnReservations'
    OBVIOUS
  <2>1. CASE Next
    <3>1. \A id \in Open : /\ id \in Open'
                           /\ reservations'[id].workspace = reservations[id].workspace
      BY <2>1, OpenStaysOpen
    <3>2. ASSUME NEW o \in Offers, Reserve(o)
          PROVE  KeysOwnReservations'
      <4>1. /\ o.id \notin Open
            /\ o.id \in Open'
            /\ reservations'[o.id].workspace = o.value.workspace
            /\ reservationKeys' = [reservationKeys EXCEPT
                   ![<<o.value.workspace, o.key>>] =
                       [digest |-> o.digest, id |-> o.id]]
            /\ usage' = usage
        <5>1. reservations' = [reservations EXCEPT ![o.id] = o.value]
          BY <3>2 DEF Reserve
        <5>2. /\ reservations'[o.id] = o.value
              /\ o.id \in ReservationIDs /\ o.value # None
          BY <5>1, CallFields DEF Books, TypeOK
        <5> QED
          BY <3>2, <5>2 DEF Reserve, FreshReservation, Open
      <4>2. ASSUME NEW wk \in Workspaces \X Keys,
                   reservationKeys'[wk] # None
            PROVE  \/ /\ wk = <<o.value.workspace, o.key>>
                      /\ reservationKeys'[wk].id = o.id
                   \/ /\ reservationKeys'[wk] = reservationKeys[wk]
                      /\ reservationKeys[wk].id \in Open
        BY <4>1, <4>2 DEF KeysOwnReservations, Books, TypeOK
      <4> QED
        BY <3>1, <4>1, <4>2 DEF KeysOwnReservations
    <3>3. ASSUME NEW u \in Reports, Observe(u)
          PROVE  KeysOwnReservations'
      <4>1. /\ usage' = [usage EXCEPT ![u.id] = u]
            /\ u.reservation \in Open
            /\ reservationKeys' = reservationKeys
        BY <3>3, ObserveKeepsBooks DEF Observe
      <4>2. ASSUME NEW v \in UsageIDs, usage'[v] # None
            PROVE  usage'[v].reservation \in Open
        BY <4>1, <4>2, CallFields DEF KeysOwnReservations, Books, TypeOK
      <4> QED
        BY <3>1, <4>1, <4>2 DEF KeysOwnReservations
    <3>4. ASSUME UNCHANGED <<usage, reservationKeys>>
          PROVE  KeysOwnReservations'
      BY <3>1, <3>4 DEF KeysOwnReservations
    <3> QED
      BY <2>1, <3>2, <3>3, <3>4 DEF Next, Reconcile
  <2>2. CASE UNCHANGED vars
    BY <2>2 DEF vars, KeysOwnReservations, Open
  <2> QED
    BY <2>1, <2>2
<1> QED
  BY <1>1, <1>2, BooksInit, BooksStep, PTL DEF Spec

------------------------------------------------------------------------------
(***************************************************************************)
(* The sum of the usage.  UsageCountedOnce is inductive beside the books   *)
(* and KeysOwnReservations: no usage names a reservation that does not     *)
(* exist yet, so a new one starts with none; and only finitely many usages *)
(* are ever on record, which the facts about sums ask for.                 *)
(***************************************************************************)
Counted ==
    /\ Books /\ KeysOwnReservations
    /\ UsageCountedOnce
    /\ \A id \in Open : IsFiniteSet(UsageOf(id))

\* The recorded usage has the fields of one.
LEMMA RecordedUsage ==
    ASSUME TypeOK, NEW id, NEW u \in UsageOf(id)
    PROVE  /\ u \in UsageIDs /\ usage[u] # None
           /\ usage[u].reservation = id
           /\ usage[u].cost \in Nat
           /\ usage[u].final \in BOOLEAN
BY DEF UsageOf, TypeOK, Usage

\* What a reservation's usage costs together is a natural number.
LEMMA TotalIsNat ==
    ASSUME TypeOK, NEW id, IsFiniteSet(UsageOf(id))
    PROVE  Total(id) \in Nat
<1> DEFINE f == [u \in UsageOf(id) |-> usage[u].cost]
<1>1. \A u \in UsageOf(id) : f[u] \in Nat
  BY RecordedUsage
<1> HIDE DEF f
<1>2. SumOver(f, UsageOf(id)) \in Nat
  BY <1>1, SumIsNat
<1> QED
  BY <1>2 DEF Total, f

\* The counts of one reservation, as UsageCountedOnce states them.
CountOf(id) ==
    /\ id \in Charged => LET due == opened[id].observed + Total(id) IN
                         /\ id \notin settled => reservations[id].observed = due
                         /\ id \in settled => reservations[id].observed >= due
    /\ reservations[id].final <=> \/ opened[id].final
                                  \/ \E u \in UsageOf(id) : usage[u].final
    /\ IsFiniteSet(UsageOf(id))

\* An open reservation is counted, and opened with the fields of one.
LEMMA OpenIsCounted ==
    ASSUME Counted, NEW id \in Open
    PROVE  /\ CountOf(id)
           /\ TypeOK /\ Books
           /\ id \in ReservationIDs
           /\ reservations[id] \in Reservation
           /\ reservations[id].observed \in Int
           /\ opened[id] \in Reservation
           /\ opened[id].observed \in Int
           /\ id \in Charged <=> opened[id].observed >= 0
<1>1. CountOf(id) /\ TypeOK /\ Books
  BY DEF Counted, Books, UsageCountedOnce, CountOf
<1>2. opened[id] \in Reservation
  BY <1>1, OpenIsKept
<1> QED
  BY <1>1, <1>2, OpenFields DEF Open, Charged, Reservation, Micros

\* A new usage adds its cost to what the usage of its reservation costs, and
\* leaves the usage of every other reservation as it is.
LEMMA ObserveCounts ==
    ASSUME TypeOK, NEW u \in Reports, Observe(u), NEW id \in ReservationIDs,
           IsFiniteSet(UsageOf(id))
    PROVE  /\ IsFiniteSet(UsageOf(id)')
           /\ id # u.reservation => UsageOf(id)' = UsageOf(id)
           /\ id # u.reservation => Total(id)' = Total(id)
           /\ id = u.reservation => UsageOf(id)' = UsageOf(id) \cup {u.id}
           /\ id = u.reservation => Total(id)' = Total(id) + u.cost
           /\ \A v \in UsageOf(id) : usage'[v] = usage[v]
           /\ usage'[u.id] = u
           /\ Total(id) \in Nat
<1> DEFINE S == UsageOf(id)
           f == [v \in S |-> usage[v].cost]
           g == [v \in S' |-> usage'[v].cost]
<1>1. /\ u.id \in UsageIDs /\ u \in Usage /\ u # None /\ u.cost \in Nat
      /\ usage' = [usage EXCEPT ![u.id] = u]
      /\ usage[u.id] = None
  BY CallFields, NoneAssumption DEF Observe
<1>2. /\ usage'[u.id] = u
      /\ \A v \in UsageIDs : v # u.id => usage'[v] = usage[v]
  BY <1>1 DEF TypeOK
<1>3. \A v \in S : v \in UsageIDs /\ v # u.id /\ usage'[v] = usage[v]
  BY <1>1, <1>2 DEF UsageOf
<1>4. id # u.reservation => S' = S
  BY <1>1, <1>2 DEF UsageOf
<1>5. id = u.reservation => S' = S \cup {u.id}
  BY <1>1, <1>2 DEF UsageOf
<1>6. IsFiniteSet(S')
  <2>1. IsFiniteSet(S \cup {u.id})
    BY FS_AddElement
  <2> QED
    BY <1>4, <1>5, <2>1
<1>7. \A v \in S : f[v] \in Nat /\ (v \in S' => f[v] = g[v])
  BY <1>3, RecordedUsage
<1>8. Total(id) = SumOver(f, S) /\ Total(id)' = SumOver(g, S')
  BY DEF Total
<1>9. ASSUME id # u.reservation
      PROVE  Total(id)' = Total(id)
  <2> HIDE DEF f, g
  <2>1. SumOver(f, S) = SumOver(g, S)
    BY <1>4, <1>7, <1>9, SumOfEqualValues
  <2> QED
    BY <1>4, <1>8, <1>9, <2>1
<1>10. ASSUME id = u.reservation
       PROVE  Total(id)' = Total(id) + u.cost
  <2>1. /\ u.id \notin S /\ g[u.id] = u.cost
        /\ \A v \in S \cup {u.id} : g[v] \in Nat
    BY <1>1, <1>2, <1>3, <1>5, <1>7, <1>10
  <2> HIDE DEF f, g
  <2>2. SumOver(g, S \cup {u.id}) = SumOver(g, S) + u.cost
    BY <2>1, SumTakesIn
  <2>3. SumOver(f, S) = SumOver(g, S)
    BY <1>5, <1>7, <1>10, SumOfEqualValues
  <2> QED
    BY <1>5, <1>8, <1>10, <2>2, <2>3
<1> QED
  BY <1>2, <1>3, <1>4, <1>5, <1>6, <1>9, <1>10, TotalIsNat

\* An observation is counted once in its reservation.
LEMMA ObserveKeepsCount ==
    ASSUME Counted, NEW u \in Reports, Observe(u), NEW id \in Open
    PROVE  CountOf(id)'
<1>1. /\ id \in ReservationIDs /\ reservations[id] \in Reservation
      /\ reservations[id].observed \in Int
      /\ opened[id].observed \in Int
      /\ TypeOK /\ Books
      /\ CountOf(id)
  BY OpenIsCounted
<1>2. /\ reservations' = [reservations EXCEPT ![u.reservation] = Charge(@, u)]
      /\ Fits(reservations[u.reservation], u.cost)
      /\ settled' = settled /\ opened' = opened
      /\ u.cost \in Nat /\ u.final \in BOOLEAN
  BY <1>1, ObserveKeepsBooks, CallFields DEF Observe
<1>3. IsFiniteSet(UsageOf(id))
  BY <1>1 DEF CountOf
<1>4. id \in Charged' <=> id \in Charged
  <2>1. id \in Open'
    BY <1>1, OpenStaysOpen DEF Next
  <2> QED
    BY <1>2, <2>1 DEF Charged
<1>5. CASE id # u.reservation
  <2>1. reservations'[id] = reservations[id]
    BY <1>1, <1>2, <1>5 DEF TypeOK
  <2>2. /\ UsageOf(id)' = UsageOf(id) /\ Total(id)' = Total(id)
        /\ \A v \in UsageOf(id) : usage'[v] = usage[v]
    BY <1>1, <1>3, <1>5, ObserveCounts
  <2> QED
    BY <1>1, <1>2, <1>4, <2>1, <2>2 DEF CountOf
<1>6. CASE id = u.reservation
  <2>1. reservations'[id] = Charge(reservations[id], u)
    BY <1>1, <1>2, <1>6 DEF TypeOK
  <2>2. /\ id \in Charged =>
             reservations'[id].observed = reservations[id].observed + u.cost
        /\ reservations'[id].final <=> reservations[id].final \/ u.final
    BY <1>1, <1>2, <1>6, <2>1, ChargeFields, FitsIsExact
  <2>3. /\ UsageOf(id)' = UsageOf(id) \cup {u.id}
        /\ Total(id)' = Total(id) + u.cost /\ Total(id) \in Nat
        /\ \A v \in UsageOf(id) : usage'[v] = usage[v]
        /\ usage'[u.id] = u
        /\ IsFiniteSet(UsageOf(id)')
    BY <1>1, <1>3, <1>6, ObserveCounts
  <2>4. (\E v \in UsageOf(id)' : usage'[v].final)
            <=> (\E v \in UsageOf(id) : usage[v].final) \/ u.final
    BY <2>3
  <2>5. reservations'[id].final <=> \/ opened[id].final
                                    \/ \E v \in UsageOf(id)' : usage'[v].final
    BY <1>1, <2>2, <2>4 DEF CountOf
  <2>6. id \in Charged =>
          /\ id \notin settled =>
                reservations'[id].observed = opened[id].observed + Total(id)'
          /\ id \in settled =>
                reservations'[id].observed >= opened[id].observed + Total(id)'
    BY <1>1, <1>2, <2>2, <2>3 DEF CountOf
  <2> QED
    BY <1>2, <1>4, <2>3, <2>5, <2>6 DEF CountOf
<1> QED
  BY <1>5, <1>6

\* A reservation opens with no usage counted, for none names it yet.
LEMMA ReserveKeepsCount ==
    ASSUME Counted, NEW o \in Offers, Reserve(o), NEW id \in Open'
    PROVE  CountOf(id)'
<1>1. /\ reservations' = [reservations EXCEPT ![o.id] = o.value]
      /\ opened' = [opened EXCEPT ![o.id] = o.value]
      /\ reservations[o.id] = None
      /\ usage' = usage /\ settled' = settled
      /\ o.id \in ReservationIDs /\ id \in ReservationIDs
      /\ o.value.observed \in Int
      /\ TypeOK
  BY CallFields DEF Reserve, FreshReservation, Open, Counted, Books
<1>2. UsageOf(id)' = UsageOf(id) /\ Total(id)' = Total(id)
  BY <1>1 DEF UsageOf, Total
<1>3. CASE id = o.id
  <2>1. reservations'[id] = o.value /\ opened'[id] = o.value
    BY <1>1, <1>3 DEF TypeOK
  <2>2. id \notin Open /\ id \notin settled
    BY <1>1, <1>3 DEF Open, Counted, Books
  <2>3. UsageOf(id) = {}
    BY <2>2 DEF Counted, KeysOwnReservations, UsageOf
  <2>4. Total(id) = 0
    BY <2>3, SumOfNone DEF Total
  <2> QED
    BY <1>1, <1>2, <2>1, <2>2, <2>3, <2>4, FS_EmptySet DEF CountOf
<1>4. CASE id # o.id
  <2>1. /\ reservations'[id] = reservations[id] /\ id \in Open
        /\ opened'[id] = opened[id]
    BY <1>1, <1>4 DEF TypeOK, Open
  <2>2. CountOf(id) /\ (id \in Charged' <=> id \in Charged)
    BY <2>1, OpenIsCounted DEF Charged
  <2> QED
    BY <1>1, <1>2, <2>1, <2>2 DEF CountOf
<1> QED
  BY <1>3, <1>4

\* A reconciliation settles at no less than what was counted.
LEMMA ReconcileKeepsCount ==
    ASSUME Counted, NEW other \in ReservationIDs, NEW g \in Generations,
           NEW cost \in FinalCosts, NEW release \in BOOLEAN,
           Reconcile(other, g, cost, release), NEW id \in Open
    PROVE  CountOf(id)'
<1>1. /\ id \in ReservationIDs /\ reservations[id] \in Reservation
      /\ reservations[id].observed \in Int /\ cost \in Int
      /\ opened[id].observed \in Int
      /\ TypeOK /\ Books
      /\ CountOf(id)
  BY OpenIsCounted, CallFields
<1>2. /\ reservations' = [reservations EXCEPT ![other] = Settle(@, cost, release)]
      /\ reservations[other].observed <= cost
      /\ settled' = settled \cup {other} /\ usage' = usage /\ opened' = opened
  BY <1>1, ReconcileKeepsBooks DEF Reconcile
<1>3. /\ UsageOf(id)' = UsageOf(id) /\ Total(id)' = Total(id)
  BY <1>2 DEF UsageOf, Total
<1>4. id \in Charged' <=> id \in Charged
  <2>1. id \in Open'
    BY <1>1, OpenStaysOpen DEF Next
  <2> QED
    BY <1>2, <2>1 DEF Charged
<1>5. CASE id # other
  <2>1. reservations'[id] = reservations[id]
    BY <1>1, <1>2, <1>5 DEF TypeOK
  <2> QED
    BY <1>1, <1>2, <1>3, <1>4, <1>5, <2>1 DEF CountOf
<1>6. CASE id = other
  <2>1. /\ reservations'[id] = Settle(reservations[id], cost, release)
        /\ reservations[id].observed <= cost
    BY <1>1, <1>2, <1>6 DEF TypeOK
  <2>2. /\ reservations'[id].observed = cost
        /\ reservations'[id].final = reservations[id].final
    BY <1>1, <2>1, SettleFields
  <2>3. Total(id) \in Nat
    BY <1>1, TotalIsNat DEF CountOf
  <2>4. id \in Charged => cost >= opened[id].observed + Total(id)
    BY <1>1, <2>1, <2>3 DEF CountOf
  <2>5. id \in settled'
    BY <1>2, <1>6
  <2> QED
    BY <1>1, <1>2, <1>3, <1>4, <2>2, <2>4, <2>5 DEF CountOf
<1> QED
  BY <1>5, <1>6

\* Every step counts every usage once.
LEMMA CountedStep ==
    ASSUME Counted, [Next]_vars
    PROVE  UsageCountedOnce' /\ (\A id \in Open : IsFiniteSet(UsageOf(id)))'
<1>1. CASE UNCHANGED vars
  BY <1>1 DEF Counted, UsageCountedOnce, Open, Charged, UsageOf, Total, vars
<1>2. CASE Next
  <2>1. ASSUME NEW id \in Open'
        PROVE  CountOf(id)'
    <3>1. (~\E o \in Offers : Reserve(o)) => id \in Open
      BY <1>2 DEF Next, Observe, Reconcile, Open, Counted, Books, TypeOK
    <3> QED
      BY <1>2, <3>1, ReserveKeepsCount, ObserveKeepsCount, ReconcileKeepsCount
      DEF Next
  <2> QED
    BY <2>1 DEF CountOf, UsageCountedOnce, Charged
<1> QED
  BY <1>1, <1>2

\* Every accepted usage is counted exactly once: until it is reconciled, a
\* reservation that opened at 0 or more is charged what it opened with and the
\* sum of its usage, and no less after it, for any number of usages in any order
\* among any reservations (fake.go:103-149).
THEOREM UsageIsCountedOnce == Spec => []UsageCountedOnce
<1>1. Init => UsageCountedOnce /\ \A id \in Open : IsFiniteSet(UsageOf(id))
  BY DEF Init, UsageCountedOnce, Open, Charged
<1>2. Counted /\ [Next]_vars =>
          UsageCountedOnce' /\ (\A id \in Open : IsFiniteSet(UsageOf(id)))'
  BY CountedStep
<1> QED
  BY <1>1, <1>2, BooksInit, BooksStep, KeysOwnTheirs, PTL DEF Spec, Counted
=============================================================================
