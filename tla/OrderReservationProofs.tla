------------------------ MODULE OrderReservationProofs ------------------------
(***************************************************************************)
(* Proofs about OrderReservation, for any sets of tickets, users and       *)
(* orders and with every fault switched on or off.                         *)
(***************************************************************************)
EXTENDS OrderReservation, TLAPS

\* Every step, by the action that takes it: the shape of all the proofs below.
LEMMA StepCases ==
  ASSUME OrdersNext
  PROVE  \/ \E t \in Tickets : EnsureTicketProjection(t)
         \/ \E o \in Orders, u \in Users, t \in Tickets : RequestOrder(o, u, t)
         \/ \E o \in Orders, u \in Users : RequestCancel(o, u)
         \/ \E o \in Orders, u \in Users : StartPayment(o, u)
         \/ \E o \in Orders, oc \in Outcomes : RequestResolution(o, oc)
         \/ \E o \in Orders : StartExpiry(o)
         \/ \E o \in Orders : DeadlinePasses(o)
         \/ \E o \in Orders : TimerFires(o)
         \/ \E o \in Orders, acked \in BOOLEAN : ReserveOrder(o, acked)
         \/ \E o \in Orders, acked \in BOOLEAN : ClaimTicket(o, acked)
         \/ \E o \in Orders, acked \in BOOLEAN : ExpireOrder(o, acked)
         \/ \E o \in Orders, acked \in BOOLEAN : ReleaseExpired(o, acked)
         \/ \E o \in Orders, acked \in BOOLEAN : CancelOrder(o, acked)
         \/ \E o \in Orders, acked \in BOOLEAN : ReleaseCanceled(o, acked)
         \/ \E o \in Orders, oc \in Outcomes, acked \in BOOLEAN : ResolvePayment(o, oc, acked)
         \/ \E o \in Orders, oc \in Outcomes, acked \in BOOLEAN : ReleaseFailed(o, oc, acked)
<1>1. Attempts \subseteq BOOLEAN
  BY DEF Attempts
<1>2. CASE Environment
  BY <1>2, Zenon DEF Environment
<1>3. CASE \E o \in Orders : StartExpiry(o) \/ DeadlinePasses(o) \/ TimerFires(o)
  BY <1>3, Zenon
<1>4. CASE \E o \in Orders, acked \in Attempts : Activity(o, acked)
  <2>1. PICK o \in Orders, acked \in BOOLEAN : Activity(o, acked)
    BY <1>1, <1>4, Zenon
  <2>2. QED
    BY <2>1, Zenon DEF Activity
<1>5. QED
  BY <1>2, <1>3, <1>4, Zenon DEF OrdersNext

\* Every order's status, request and claim keep their types.
LEMMA InitType == OrdersInit => OrdersTypeOK
  BY DEF OrdersInit, OrdersTypeOK, Statuses

\* Every activity writes what its column or its workflow may hold.
LEMMA NextType ==
  ASSUME OrdersTypeOK, [OrdersNext]_ordersVars
  PROVE  OrdersTypeOK'
<1> USE DEF OrdersTypeOK, Statuses
<1>1. CASE UNCHANGED ordersVars
  BY <1>1 DEF ordersVars, rows, flows
<1>2. CASE OrdersNext
  <2>1. CASE \E t \in Tickets : EnsureTicketProjection(t)
    BY <2>1 DEF EnsureTicketProjection, rows, flows
  <2>2. CASE \E o \in Orders, u \in Users, t \in Tickets : RequestOrder(o, u, t)
    BY <2>2 DEF RequestOrder
  <2>3. CASE \E o \in Orders, u \in Users : RequestCancel(o, u)
    BY <2>3 DEF RequestCancel, rows
  <2>4. CASE \E o \in Orders, u \in Users : StartPayment(o, u)
    BY <2>4 DEF StartPayment, flows
  <2>5. CASE \E o \in Orders, oc \in Outcomes : RequestResolution(o, oc)
    BY <2>5 DEF RequestResolution, rows
  <2>6. CASE \E o \in Orders : StartExpiry(o)
    <3>1. PICK o \in Orders : StartExpiry(o)
      BY <2>6
    <3>2. expire' \in [Orders -> {"none", "sleeping", "expiring", "releasing", "done"}]
      BY <3>1 DEF StartExpiry
    <3>3. create' \in [Orders -> {"idle", "reserve", "claim", "startExpiry", "done", "failed"}]
      BY <3>1 DEF StartExpiry
    <3>4. UNCHANGED <<projected, status, buyer, wanted, overdue, claim, joined, fresh, cancel,
                      canceler, resolve>>
      BY <3>1 DEF StartExpiry, rows
    <3>5. QED
      BY <3>2, <3>3, <3>4
  <2>7. CASE \E o \in Orders : DeadlinePasses(o)
    BY <2>7 DEF DeadlinePasses, flows
  <2>8. CASE \E o \in Orders : TimerFires(o)
    BY <2>8 DEF TimerFires, rows
  <2>9. CASE \E o \in Orders, acked \in BOOLEAN : ReserveOrder(o, acked)
    <3>1. PICK o \in Orders, acked \in BOOLEAN : ReserveOrder(o, acked)
      BY <2>9
    <3>2. BlockingOrders(wanted[o]) \subseteq Orders
      BY DEF BlockingOrders
    <3>3. CASE InsertOrder(o, acked)
      <4>1. /\ status' = [status EXCEPT ![o] = "Created"]
            /\ UNCHANGED <<projected, buyer, wanted, overdue, claim, expire, cancel, canceler, resolve>>
        BY <3>1, <3>3 DEF ReserveOrder, InsertOrder
      <4>2. \/ /\ create' = [create EXCEPT ![o] = "claim"]
               /\ joined' = [joined EXCEPT ![o] = o]
               /\ fresh' = [fresh EXCEPT ![o] = TRUE]
            \/ UNCHANGED <<create, joined, fresh>>
        BY <3>3, Zenon DEF InsertOrder
      <4>3. status' \in [Orders -> {"None", "Created", "AwaitingPayment", "Complete", "Canceled"}]
        BY <4>1
      <4>4. create' \in [Orders -> {"idle", "reserve", "claim", "startExpiry", "done", "failed"}]
        BY <4>2
      <4>5. joined' \in [Orders -> Orders \cup {NULL}]
        BY <4>2
      <4>6. fresh' \in [Orders -> BOOLEAN]
        BY <4>2
      <4>7. QED
        BY <4>1, <4>3, <4>4, <4>5, <4>6
    <3>4. CASE RefuseOrder(o)
      BY <3>1, <3>4 DEF ReserveOrder, RefuseOrder
    <3>5. CASE JoinOrder(o)
      <4>1. /\ create' = [create EXCEPT ![o] = "claim"]
            /\ fresh' = [fresh EXCEPT ![o] = FALSE]
            /\ UNCHANGED <<projected, status, buyer, wanted, overdue, claim, expire, cancel,
                           canceler, resolve>>
        BY <3>1, <3>5 DEF ReserveOrder, JoinOrder
      <4>2. \E b \in Orders : joined' = [joined EXCEPT ![o] = b]
        BY <3>2, <3>5, Zenon DEF JoinOrder
      <4>3. QED
        BY <4>1, <4>2
    <3>6. QED
      BY <3>1, <3>3, <3>4, <3>5 DEF ReserveOrder
  <2>10. CASE \E o \in Orders, acked \in BOOLEAN : ClaimTicket(o, acked)
    BY <2>10 DEF ClaimTicket, ReserveForOrder, rows
  <2>11. CASE \E o \in Orders, acked \in BOOLEAN : ExpireOrder(o, acked)
    BY <2>11 DEF ExpireOrder
  <2>12. CASE \E o \in Orders, acked \in BOOLEAN : ReleaseExpired(o, acked)
    BY <2>12 DEF ReleaseExpired, ReleaseTicket, rows
  <2>13. CASE \E o \in Orders, acked \in BOOLEAN : CancelOrder(o, acked)
    BY <2>13 DEF CancelOrder
  <2>14. CASE \E o \in Orders, acked \in BOOLEAN : ReleaseCanceled(o, acked)
    BY <2>14 DEF ReleaseCanceled, ReleaseTicket, rows
  <2>15. CASE \E o \in Orders, oc \in Outcomes, acked \in BOOLEAN : ResolvePayment(o, oc, acked)
    BY <2>15 DEF ResolvePayment, Resolved
  <2>16. CASE \E o \in Orders, oc \in Outcomes, acked \in BOOLEAN : ReleaseFailed(o, oc, acked)
    BY <2>16 DEF ReleaseFailed, ReleaseTicket, rows
  <2>17. QED
    BY <1>2, <2>1, <2>2, <2>3, <2>4, <2>5, <2>6, <2>7, <2>8, <2>9, <2>10, <2>11, <2>12,
       <2>13, <2>14, <2>15, <2>16, StepCases, Zenon
<1>3. QED
  BY <1>1, <1>2

\* Every step of Orders keeps its rows, the claims and the workflows well typed.
THEOREM TypeCorrect == OrdersSpec => []OrdersTypeOK
<1>1. QED
  BY InitType, NextType, PTL DEF OrdersSpec
\* The inductive step of ReservationInv.
LEMMA NextReservation ==
  ASSUME ReservationInv, OrdersNext
  PROVE  ReservationInv'
<1> USE NullAssumption DEF ReservationInv, OrdersTypeOK
<1>1. OrdersTypeOK'
  BY NextType
<1>2. CASE \E t \in Tickets : EnsureTicketProjection(t)
  BY <1>1, <1>2 DEF EnsureTicketProjection, rows, flows, RowsInv, ClaimInv, JoinedInv, ReleaseInv, AtMostOneBlocking,
       AcknowledgedOrderHoldsClaim
<1>3. CASE \E o \in Orders, u \in Users, t \in Tickets : RequestOrder(o, u, t)
  <2>1. RowsInv'
    BY <1>3 DEF RequestOrder, RowsInv
  <2>2. ClaimInv'
    BY <1>3 DEF RequestOrder, ClaimInv, RowsInv
  <2>3. JoinedInv'
    BY <1>3 DEF RequestOrder, JoinedInv, RowsInv
  <2>4. ReleaseInv'
    BY <1>3 DEF RequestOrder, ReleaseInv
  <2>5. AtMostOneBlocking'
    BY <1>3 DEF RequestOrder, AtMostOneBlocking, RowsInv, Blocking
  <2>6. AcknowledgedOrderHoldsClaim'
    BY <1>3 DEF RequestOrder, AcknowledgedOrderHoldsClaim
  <2>7. QED
    BY <1>1, <2>1, <2>2, <2>3, <2>4, <2>5, <2>6
<1>4. CASE \E o \in Orders, u \in Users : RequestCancel(o, u)
  BY <1>1, <1>4 DEF RequestCancel, rows, RowsInv, ClaimInv, JoinedInv, ReleaseInv, AtMostOneBlocking,
       AcknowledgedOrderHoldsClaim
<1>5. CASE \E o \in Orders, u \in Users : StartPayment(o, u)
  <2>1. RowsInv'
    BY <1>5 DEF StartPayment, flows, RowsInv
  <2>2. ClaimInv'
    BY <1>5 DEF StartPayment, flows, ClaimInv
  <2>3. JoinedInv'
    BY <1>5 DEF StartPayment, flows, JoinedInv
  <2>4. ReleaseInv'
    BY <1>5 DEF StartPayment, flows, ReleaseInv
  <2>5. AtMostOneBlocking'
    BY <1>5 DEF StartPayment, flows, AtMostOneBlocking, Blocking
  <2>6. AcknowledgedOrderHoldsClaim'
    BY <1>5 DEF StartPayment, flows, AcknowledgedOrderHoldsClaim
  <2>7. QED
    BY <1>1, <2>1, <2>2, <2>3, <2>4, <2>5, <2>6
<1>6. CASE \E o \in Orders, oc \in Outcomes : RequestResolution(o, oc)
  BY <1>1, <1>6 DEF RequestResolution, rows, RowsInv, ClaimInv, JoinedInv, ReleaseInv, AtMostOneBlocking,
       AcknowledgedOrderHoldsClaim
<1>7. CASE \E o \in Orders : StartExpiry(o)
  BY <1>1, <1>7 DEF StartExpiry, rows, RowsInv, ClaimInv, JoinedInv, ReleaseInv, AtMostOneBlocking,
       AcknowledgedOrderHoldsClaim
<1>8. CASE \E o \in Orders : DeadlinePasses(o)
  BY <1>1, <1>8 DEF DeadlinePasses, flows, RowsInv, ClaimInv, JoinedInv, ReleaseInv, AtMostOneBlocking,
       AcknowledgedOrderHoldsClaim
<1>9. CASE \E o \in Orders : TimerFires(o)
  BY <1>1, <1>9 DEF TimerFires, rows, RowsInv, ClaimInv, JoinedInv, ReleaseInv, AtMostOneBlocking,
       AcknowledgedOrderHoldsClaim
<1>10. CASE \E o \in Orders, acked \in BOOLEAN : ReserveOrder(o, acked)
  <2>1. PICK o \in Orders, acked \in BOOLEAN : ReserveOrder(o, acked)
    BY <1>10
  <2>2. CASE InsertOrder(o, acked)
    <3>1. /\ status[o] = "None"
          /\ status' = [status EXCEPT ![o] = "Created"]
          /\ create[o] = "reserve" /\ wanted[o] \in projected
          /\ UNCHANGED <<projected, buyer, wanted, overdue, claim, expire, cancel, canceler, resolve>>
      BY <2>1, <2>2 DEF ReserveOrder, InsertOrder
    <3>2. \/ /\ create' = [create EXCEPT ![o] = "claim"]
             /\ joined' = [joined EXCEPT ![o] = o]
          \/ UNCHANGED <<create, joined>>
      BY <2>2, Zenon DEF InsertOrder
    <3>3. \A p \in Orders : wanted[p] = wanted[o] => status[p] \notin Blocking
      BY <2>2 DEF InsertOrder, BlockingOrders
    <3>4. RowsInv' /\ ClaimInv' /\ JoinedInv' /\ ReleaseInv'
      BY <3>1, <3>2 DEF RowsInv, ClaimInv, JoinedInv, ReleaseInv
    <3>5. AtMostOneBlocking'
      BY <3>1, <3>3 DEF AtMostOneBlocking, Blocking
    <3>6. AcknowledgedOrderHoldsClaim'
      BY <3>1, <3>2 DEF AcknowledgedOrderHoldsClaim, JoinedInv
    <3>7. QED
      BY <1>1, <3>4, <3>5, <3>6
  <2>3. CASE RefuseOrder(o)
    BY <1>1, <2>1, <2>3 DEF ReserveOrder, RefuseOrder, RowsInv, ClaimInv, JoinedInv, ReleaseInv,
       AtMostOneBlocking, AcknowledgedOrderHoldsClaim
  <2>4. CASE JoinOrder(o)
    <3>1. PICK b \in Orders : /\ status[b] \in Blocking /\ wanted[b] = wanted[o]
                              /\ joined' = [joined EXCEPT ![o] = b]
      BY <2>4 DEF JoinOrder, BlockingOrders
    <3>2. /\ create[o] = "reserve"
          /\ create' = [create EXCEPT ![o] = "claim"]
          /\ UNCHANGED <<projected, rows, claim, expire, cancel, canceler, resolve>>
      BY <2>1, <2>4 DEF ReserveOrder, JoinOrder, rows
    <3>3. QED
      BY <1>1, <3>1, <3>2 DEF rows, Blocking, RowsInv, ClaimInv, JoinedInv, ReleaseInv,
         AtMostOneBlocking, AcknowledgedOrderHoldsClaim
  <2>5. QED
    BY <2>1, <2>2, <2>3, <2>4, Zenon DEF ReserveOrder
<1>11. CASE \E o \in Orders, acked \in BOOLEAN : ClaimTicket(o, acked)
  <2>1. RowsInv'
    BY <1>11 DEF ClaimTicket, ReserveForOrder, rows, RowsInv
  <2>2. ClaimInv'
    BY <1>11 DEF ClaimTicket, ReserveForOrder, rows, ClaimInv, JoinedInv, RowsInv
  <2>3. JoinedInv'
    BY <1>11 DEF ClaimTicket, ReserveForOrder, rows, JoinedInv
  <2>4. ReleaseInv'
    BY <1>11 DEF ClaimTicket, ReserveForOrder, rows, ReleaseInv
  <2>5. AtMostOneBlocking'
    BY <1>11 DEF ClaimTicket, ReserveForOrder, rows, AtMostOneBlocking, Blocking
  <2>6. AcknowledgedOrderHoldsClaim'
    BY <1>11 DEF ClaimTicket, ReserveForOrder, rows, AcknowledgedOrderHoldsClaim, JoinedInv, RowsInv, ClaimInv
  <2>7. QED
    BY <1>1, <2>1, <2>2, <2>3, <2>4, <2>5, <2>6
<1>12. CASE \E o \in Orders, acked \in BOOLEAN : ExpireOrder(o, acked)
  <2>1. RowsInv'
    BY <1>12 DEF ExpireOrder, Expirable, ShouldRelease, RowsInv
  <2>2. ClaimInv'
    BY <1>12 DEF ExpireOrder, Expirable, ShouldRelease, ClaimInv
  <2>3. JoinedInv'
    BY <1>12 DEF ExpireOrder, Expirable, ShouldRelease, JoinedInv
  <2>4. ReleaseInv'
    BY <1>12 DEF ExpireOrder, Expirable, ShouldRelease, ReleaseInv
  <2>5. AtMostOneBlocking'
    BY <1>12 DEF ExpireOrder, Expirable, ShouldRelease, AtMostOneBlocking, Blocking
  <2>6. AcknowledgedOrderHoldsClaim'
    BY <1>12 DEF ExpireOrder, Expirable, ShouldRelease, AcknowledgedOrderHoldsClaim
  <2>7. QED
    BY <1>1, <2>1, <2>2, <2>3, <2>4, <2>5, <2>6
<1>13. CASE \E o \in Orders, acked \in BOOLEAN : ReleaseExpired(o, acked)
  <2>1. RowsInv'
    BY <1>13 DEF ReleaseExpired, ReleaseTicket, rows, RowsInv
  <2>2. ClaimInv'
    BY <1>13 DEF ReleaseExpired, ReleaseTicket, rows, ClaimInv
  <2>3. JoinedInv'
    BY <1>13 DEF ReleaseExpired, ReleaseTicket, rows, JoinedInv
  <2>4. ReleaseInv'
    BY <1>13 DEF ReleaseExpired, ReleaseTicket, rows, ReleaseInv
  <2>5. AtMostOneBlocking'
    BY <1>13 DEF ReleaseExpired, ReleaseTicket, rows, AtMostOneBlocking, Blocking
  <2>6. AcknowledgedOrderHoldsClaim'
    BY <1>13 DEF ReleaseExpired, ReleaseTicket, rows, AcknowledgedOrderHoldsClaim, RowsInv, ReleaseInv, JoinedInv
  <2>7. QED
    BY <1>1, <2>1, <2>2, <2>3, <2>4, <2>5, <2>6
<1>14. CASE \E o \in Orders, acked \in BOOLEAN : CancelOrder(o, acked)
  <2>1. RowsInv'
    BY <1>14 DEF CancelOrder, Cancelable, RowsInv
  <2>2. ClaimInv'
    BY <1>14 DEF CancelOrder, Cancelable, ClaimInv
  <2>3. JoinedInv'
    BY <1>14 DEF CancelOrder, Cancelable, JoinedInv
  <2>4. ReleaseInv'
    BY <1>14 DEF CancelOrder, Cancelable, ReleaseInv
  <2>5. AtMostOneBlocking'
    BY <1>14 DEF CancelOrder, Cancelable, AtMostOneBlocking, Blocking
  <2>6. AcknowledgedOrderHoldsClaim'
    BY <1>14 DEF CancelOrder, Cancelable, AcknowledgedOrderHoldsClaim
  <2>7. QED
    BY <1>1, <2>1, <2>2, <2>3, <2>4, <2>5, <2>6
<1>15. CASE \E o \in Orders, acked \in BOOLEAN : ReleaseCanceled(o, acked)
  <2>1. RowsInv'
    BY <1>15 DEF ReleaseCanceled, ReleaseTicket, rows, RowsInv
  <2>2. ClaimInv'
    BY <1>15 DEF ReleaseCanceled, ReleaseTicket, rows, ClaimInv
  <2>3. JoinedInv'
    BY <1>15 DEF ReleaseCanceled, ReleaseTicket, rows, JoinedInv
  <2>4. ReleaseInv'
    BY <1>15 DEF ReleaseCanceled, ReleaseTicket, rows, ReleaseInv
  <2>5. AtMostOneBlocking'
    BY <1>15 DEF ReleaseCanceled, ReleaseTicket, rows, AtMostOneBlocking, Blocking
  <2>6. AcknowledgedOrderHoldsClaim'
    BY <1>15 DEF ReleaseCanceled, ReleaseTicket, rows, AcknowledgedOrderHoldsClaim, RowsInv, ReleaseInv, JoinedInv
  <2>7. QED
    BY <1>1, <2>1, <2>2, <2>3, <2>4, <2>5, <2>6
<1>16. CASE \E o \in Orders, oc \in Outcomes, acked \in BOOLEAN : ResolvePayment(o, oc, acked)
  <2>1. RowsInv'
    BY <1>16 DEF ResolvePayment, Accepted, Resolved, RowsInv
  <2>2. ClaimInv'
    BY <1>16 DEF ResolvePayment, Accepted, Resolved, ClaimInv
  <2>3. JoinedInv'
    BY <1>16 DEF ResolvePayment, Accepted, Resolved, JoinedInv
  <2>4. ReleaseInv'
    BY <1>16 DEF ResolvePayment, Accepted, Resolved, ReleaseInv
  <2>5. AtMostOneBlocking'
    BY <1>16 DEF ResolvePayment, Accepted, Resolved, AtMostOneBlocking, Blocking
  <2>6. AcknowledgedOrderHoldsClaim'
    BY <1>16 DEF ResolvePayment, Accepted, Resolved, AcknowledgedOrderHoldsClaim
  <2>7. QED
    BY <1>1, <2>1, <2>2, <2>3, <2>4, <2>5, <2>6
<1>17. CASE \E o \in Orders, oc \in Outcomes, acked \in BOOLEAN : ReleaseFailed(o, oc, acked)
  <2>1. RowsInv'
    BY <1>17 DEF ReleaseFailed, ReleaseTicket, rows, RowsInv
  <2>2. ClaimInv'
    BY <1>17 DEF ReleaseFailed, ReleaseTicket, rows, ClaimInv
  <2>3. JoinedInv'
    BY <1>17 DEF ReleaseFailed, ReleaseTicket, rows, JoinedInv
  <2>4. ReleaseInv'
    BY <1>17 DEF ReleaseFailed, ReleaseTicket, rows, ReleaseInv
  <2>5. AtMostOneBlocking'
    BY <1>17 DEF ReleaseFailed, ReleaseTicket, rows, AtMostOneBlocking, Blocking
  <2>6. AcknowledgedOrderHoldsClaim'
    BY <1>17 DEF ReleaseFailed, ReleaseTicket, rows, AcknowledgedOrderHoldsClaim, RowsInv, ReleaseInv, JoinedInv
  <2>7. QED
    BY <1>1, <2>1, <2>2, <2>3, <2>4, <2>5, <2>6
<1>18. QED
  BY <1>2, <1>3, <1>4, <1>5, <1>6, <1>7, <1>8, <1>9, <1>10, <1>11, <1>12, <1>13, <1>14, <1>15, <1>16, <1>17,
     StepCases, Zenon

\* The invariant at the start ...
LEMMA InitReservation == OrdersInit => ReservationInv
<1> SUFFICES ASSUME OrdersInit PROVE ReservationInv
  OBVIOUS
<1>1. ClaimInv
  BY NullAssumption DEF OrdersInit, ClaimInv
<1>2. RowsInv /\ JoinedInv /\ ReleaseInv /\ AtMostOneBlocking /\ AcknowledgedOrderHoldsClaim
  BY DEF OrdersInit, RowsInv, JoinedInv, ReleaseInv, AtMostOneBlocking,
     AcknowledgedOrderHoldsClaim, Blocking
<1>3. QED
  BY <1>1, <1>2, InitType DEF ReservationInv

\* ... and after every step.
LEMMA StepReservation ==
  ASSUME ReservationInv, [OrdersNext]_ordersVars
  PROVE  ReservationInv'
<1>1. CASE UNCHANGED ordersVars
  BY <1>1 DEF ordersVars, rows, flows, ReservationInv, OrdersTypeOK, RowsInv, ClaimInv, JoinedInv,
     ReleaseInv, AtMostOneBlocking, AcknowledgedOrderHoldsClaim, Blocking
<1>2. QED
  BY <1>1, NextReservation

\* Rows, claims and workflows always fit together: a claim is of an order that was
\* requested for the ticket, create-order goes on with an existing order for it, and
\* only a canceled order's claim is released.
THEOREM ReservationInvariant == OrdersSpec => []ReservationInv
<1>1. QED
  BY InitReservation, StepReservation, PTL DEF OrdersSpec

\* A ticket never has two open or completed orders.
THEOREM OneBlockingOrder == OrdersSpec => []AtMostOneBlocking
<1>1. ReservationInv => AtMostOneBlocking
  BY DEF ReservationInv
<1>2. QED
  BY <1>1, ReservationInvariant, PTL

\* An order that create-order has answered with holds its ticket's claim until
\* it is canceled.
THEOREM AnsweredOrderClaimed == OrdersSpec => []AcknowledgedOrderHoldsClaim
<1>1. ReservationInv => AcknowledgedOrderHoldsClaim
  BY DEF ReservationInv
<1>2. QED
  BY <1>1, ReservationInvariant, PTL

-------------------------------------------------------------------------------
\* Only the three releases and the claim itself write reserved_by_order_id.
LEMMA ClaimStep ==
  ASSUME ReservationInv, OrdersNext, NEW t \in Tickets, claim[t] \in Orders, claim'[t] # claim[t]
  PROVE  status[claim[t]] = "Canceled" /\ claim'[t] = NULL
<1> USE DEF OrdersTypeOK
<1>1. OrdersTypeOK /\ ReleaseInv
  BY DEF ReservationInv
<1>2. CASE \E o \in Orders, acked \in BOOLEAN : ClaimTicket(o, acked)
  BY <1>1, <1>2, NullAssumption DEF ClaimTicket, ReserveForOrder
<1>3. CASE \E o \in Orders, acked \in BOOLEAN : ReleaseExpired(o, acked)
  BY <1>1, <1>3 DEF ReleaseExpired, ReleaseTicket, ReleaseInv
<1>4. CASE \E o \in Orders, acked \in BOOLEAN : ReleaseCanceled(o, acked)
  BY <1>1, <1>4 DEF ReleaseCanceled, ReleaseTicket, ReleaseInv
<1>5. CASE \E o \in Orders, oc \in Outcomes, acked \in BOOLEAN : ReleaseFailed(o, oc, acked)
  BY <1>1, <1>5 DEF ReleaseFailed, ReleaseTicket, ReleaseInv
<1>6. CASE UNCHANGED claim
  BY <1>6
<1>7. QED
  BY <1>2, <1>3, <1>4, <1>5, <1>6, StepCases, Zenon
     DEF EnsureTicketProjection, RequestOrder, RequestCancel, StartPayment, RequestResolution,
         StartExpiry, DeadlinePasses, TimerFires, ReserveOrder, ExpireOrder, CancelOrder,
         ResolvePayment

\* A claim is only ever given up by a canceled order, and then the ticket is free.
THEOREM ClaimSafety == OrdersSpec => ClaimLeavesOnlyCanceledOrder
<1>1. ReservationInv /\ [OrdersNext]_ordersVars =>
        [\A t \in Tickets : claim[t] \in Orders /\ claim'[t] # claim[t]
           => status[claim[t]] = "Canceled" /\ claim'[t] = NULL]_ordersVars
  BY ClaimStep
<1>2. QED
  BY <1>1, ReservationInvariant, PTL DEF OrdersSpec, ClaimLeavesOnlyCanceledOrder

\* An order's status changes only in its own row, and only in these ways.
LEMMA StatusStep ==
  ASSUME OrdersTypeOK, OrdersNext, NEW o \in Orders, status'[o] # status[o]
  PROVE  \/ status[o] = "None" /\ status'[o] = "Created"
         \/ status[o] = "Created" /\ status'[o] \in {"AwaitingPayment", "Canceled"}
         \/ /\ status[o] = "AwaitingPayment"
            /\ \E oc \in Outcomes : resolve[<<o, oc>>] = "resolving" /\ status'[o] = Resolved(oc)
<1> USE DEF OrdersTypeOK
<1>1. CASE \E p \in Orders, acked \in BOOLEAN : ReserveOrder(p, acked)
  BY <1>1 DEF ReserveOrder, InsertOrder, RefuseOrder, JoinOrder
<1>2. CASE \E p \in Orders, u \in Users : StartPayment(p, u)
  BY <1>2 DEF StartPayment
<1>3. CASE \E p \in Orders, acked \in BOOLEAN : ExpireOrder(p, acked)
  BY <1>3 DEF ExpireOrder, Expirable
<1>4. CASE \E p \in Orders, acked \in BOOLEAN : CancelOrder(p, acked)
  BY <1>4 DEF CancelOrder, Cancelable
<1>5. CASE \E p \in Orders, oc \in Outcomes, acked \in BOOLEAN : ResolvePayment(p, oc, acked)
  BY <1>5 DEF ResolvePayment, Accepted
<1>6. CASE UNCHANGED status
  BY <1>6
<1>7. QED
  BY <1>1, <1>2, <1>3, <1>4, <1>5, <1>6, StepCases, Zenon
     DEF EnsureTicketProjection, RequestOrder, RequestCancel, RequestResolution, StartExpiry,
         DeadlinePasses, TimerFires, ClaimTicket, ReleaseExpired, ReleaseCanceled,
         ReleaseFailed, rows

\* An order in checkout is moved by a resolution of its payment and by nothing else.
THEOREM CheckoutSafety == OrdersSpec => CheckoutEndsByResolution
<1>1. OrdersTypeOK /\ [OrdersNext]_ordersVars =>
        [\A o \in Orders : status[o] = "AwaitingPayment" /\ status'[o] # status[o]
           => \E oc \in Outcomes : resolve[<<o, oc>>] = "resolving" /\ status'[o] = Resolved(oc)]_ordersVars
  BY StatusStep
<1>2. QED
  BY <1>1, TypeCorrect, PTL DEF OrdersSpec, CheckoutEndsByResolution

-------------------------------------------------------------------------------
\* One row of the orders table changes at a time.
LEMMA RowStep ==
  ASSUME ReservationInv, OrdersNext
  PROVE  \/ /\ UNCHANGED status
            /\ \A o \in Orders : status[o] # "None" => wanted'[o] = wanted[o]
         \/ \E o \in Orders :
              /\ status' = [status EXCEPT ![o] = status'[o]]
              /\ UNCHANGED wanted
              /\ wanted[o] \in Tickets
              /\ status[o] = "None" => BlockingOrders(wanted[o]) = {}
<1> USE DEF ReservationInv, OrdersTypeOK, RowsInv
<1>1. CASE \E o \in Orders, acked \in BOOLEAN : ReserveOrder(o, acked)
  <2>1. PICK o \in Orders, acked \in BOOLEAN : ReserveOrder(o, acked)
    BY <1>1
  <2>2. create[o] = "reserve" /\ UNCHANGED wanted
    BY <2>1 DEF ReserveOrder
  <2>3. \/ UNCHANGED status
        \/ status' = [status EXCEPT ![o] = "Created"] /\ BlockingOrders(wanted[o]) = {}
    BY <2>1, Zenon DEF ReserveOrder, InsertOrder, RefuseOrder, JoinOrder
  <2>4. QED
    BY <2>2, <2>3
<1>2. CASE \E o \in Orders, u \in Users : StartPayment(o, u)
  BY <1>2 DEF StartPayment
<1>3. CASE \E o \in Orders, acked \in BOOLEAN : ExpireOrder(o, acked)
  BY <1>3 DEF ExpireOrder, Expirable
<1>4. CASE \E o \in Orders, acked \in BOOLEAN : CancelOrder(o, acked)
  BY <1>4 DEF CancelOrder, Cancelable
<1>5. CASE \E o \in Orders, oc \in Outcomes, acked \in BOOLEAN : ResolvePayment(o, oc, acked)
  BY <1>5 DEF ResolvePayment, Accepted, Resolved
<1>6. CASE \E o \in Orders, u \in Users, t \in Tickets : RequestOrder(o, u, t)
  BY <1>6 DEF RequestOrder
<1>7. CASE UNCHANGED <<status, wanted>>
  BY <1>7
<1>8. QED
  BY <1>1, <1>2, <1>3, <1>4, <1>5, <1>6, <1>7, StepCases, Zenon
     DEF EnsureTicketProjection, RequestCancel, RequestResolution, StartExpiry,
         DeadlinePasses, TimerFires, ClaimTicket, ReleaseExpired, ReleaseCanceled,
         ReleaseFailed, rows

\* Every step of the Orders database is a step of the sale, or leaves it alone.
LEMMA SaleStep ==
  ASSUME ReservationInv, OrdersNext
  PROVE  [Sale!Next]_(Sale!vars)
<1> DEFINE H == Rows({"Created", "AwaitingPayment"})
           S == Rows({"Complete"})
           D == Rows({"Canceled"})
<1> USE DEF ReservationInv, OrdersTypeOK, Rows
<1>1. CASE /\ UNCHANGED status
           /\ \A o \in Orders : status[o] # "None" => wanted'[o] = wanted[o]
  <2>1. UNCHANGED <<H, S, D>>
    BY <1>1
  <2>2. QED
    BY <2>1 DEF Sale!vars
<1>2. ASSUME NEW o \in Orders,
             status' = [status EXCEPT ![o] = status'[o]],
             UNCHANGED wanted, wanted[o] \in Tickets,
             status[o] = "None" => BlockingOrders(wanted[o]) = {},
             status'[o] # status[o]
      PROVE  [Sale!Next]_(Sale!vars)
  <2> DEFINE t == wanted[o]
  <2>1. CASE status[o] = "None"
    <3>1. status'[o] = "Created"
      BY <1>2, <2>1, StatusStep
    <3>2. H' = H \cup {<<t, o>>} /\ S' = S /\ D' = D
      BY <1>2, <2>1, <3>1
    <3>3. \A p \in Orders : wanted[p] = t => status[p] \notin Blocking
      BY <1>2, <2>1 DEF BlockingOrders
    <3>4. ~Sale!Taken(t)
      BY <3>3 DEF Sale!Taken, Blocking
    <3>5. <<t, o>> \notin D
      BY <2>1
    <3>6. Sale!Hold(t, o)
      BY <3>2, <3>4, <3>5 DEF Sale!Hold
    <3>7. QED
      BY <1>2, <3>6 DEF Sale!Next
  <2>2. CASE status[o] = "Created" /\ status'[o] = "AwaitingPayment"
    <3>1. H' = H /\ S' = S /\ D' = D
      BY <1>2, <2>2
    <3>2. QED
      BY <3>1 DEF Sale!vars
  <2>3. CASE status[o] \in {"Created", "AwaitingPayment"} /\ status'[o] = "Canceled"
    <3>1. H' = H \ {<<t, o>>} /\ S' = S /\ D' = D \cup {<<t, o>>} /\ <<t, o>> \in H
      BY <1>2, <2>3
    <3>2. Sale!Drop(t, o)
      BY <3>1 DEF Sale!Drop
    <3>3. QED
      BY <1>2, <3>2 DEF Sale!Next
  <2>4. CASE status[o] = "AwaitingPayment" /\ status'[o] = "Complete"
    <3>1. H' = H \ {<<t, o>>} /\ S' = S \cup {<<t, o>>} /\ D' = D /\ <<t, o>> \in H
      BY <1>2, <2>4
    <3>2. Sale!Sell(t, o)
      BY <3>1 DEF Sale!Sell
    <3>3. QED
      BY <1>2, <3>2 DEF Sale!Next
  <2>5. QED
    BY <1>2, <2>1, <2>2, <2>3, <2>4, StatusStep DEF Resolved
<1>3. CASE \E o \in Orders : status' = [status EXCEPT ![o] = status'[o]]
                           /\ UNCHANGED wanted /\ status'[o] = status[o]
  <2>1. UNCHANGED status
    BY <1>3
  <2>2. QED
    BY <1>1, <1>3, <2>1
<1>4. QED
  BY <1>1, <1>2, <1>3, RowStep

\* The Orders database implements the abstract sale of tickets.
THEOREM Refinement == OrdersSpec => ImplementsTicketSale
<1>1. OrdersInit => Sale!Init
  BY DEF OrdersInit, Sale!Init, Rows
<1>2. ReservationInv /\ [OrdersNext]_ordersVars => [Sale!Next]_(Sale!vars)
  <2>1. ASSUME UNCHANGED ordersVars PROVE UNCHANGED Sale!vars
    BY <2>1 DEF ordersVars, rows, Sale!vars, Rows
  <2>2. QED
    BY <2>1, SaleStep
<1>3. QED
  BY <1>1, <1>2, ReservationInvariant, PTL DEF OrdersSpec, ImplementsTicketSale, Sale!Spec
===============================================================================
