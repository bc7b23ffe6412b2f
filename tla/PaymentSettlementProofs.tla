------------------------- MODULE PaymentSettlementProofs -------------------------
(***************************************************************************)
(* Proofs about PaymentSettlement.  They extend those about Orders, whose  *)
(* constants and variables PaymentSettlement has under the same names: a   *)
(* step of Payments is a step of Orders or leaves Orders alone, so what is *)
(* proved of OrderReservation holds here, too.                             *)
(***************************************************************************)
EXTENDS OrderReservationProofs, PaymentSettlement

-------------------------------------------------------------------------------
\* OrdersStep takes a step of Orders that is not made on Payments' behalf.
LEMMA OrdersStepIsNext == OrdersStep => OrdersNext
BY Zenon DEF OrdersStep, OrdersNext, Environment

\* Every step, by the action that takes it.
LEMMA SettlementCases ==
  ASSUME PaymentsNext
  PROVE  \/ OrdersStep
         \/ \E o \in Orders : LeaseExpires(o)
         \/ \E w \in Workers, o \in Orders : ClaimNextPending(w, o)
         \/ \E w \in Workers : CallResolvePayment(w)
         \/ \E w \in Workers : ReceiveResolution(w)
         \/ \E w \in Workers : MarkResolved(w)
         \/ \E w \in Workers : GiveUp(w)
         \/ \E w \in Workers : Restart(w)
         \/ \E o \in Orders : CreatePayment(o)
         \/ \E o \in Orders : StartCheckout(o)
         \/ \E o \in Orders, acked \in BOOLEAN : StartOrderPayment(o, acked)
         \/ \E o \in Orders, acked \in BOOLEAN : PersistPayment(o, acked)
<1>1. Attempts \subseteq BOOLEAN
  BY DEF Attempts
<1>2. CASE Settlement
  BY <1>2, Zenon DEF Settlement
<1>3. QED
  BY <1>1, <1>2, Zenon DEF PaymentsNext

\* Only StartPayment and a resolution touch Orders on Payments' behalf, and both as
\* OrderReservation assumes.
LEMMA OrdersPart ==
  ASSUME SettlementInv, [PaymentsNext]_paymentsVars
  PROVE  [OrdersNext]_ordersVars
<1> USE DEF SettlementInv
<1>1. OrdersTypeOK /\ RowsInv
  BY DEF ReservationInv
<1>2. CASE OrdersStep
  BY <1>2, OrdersStepIsNext
<1>3. CASE \E w \in Workers : CallResolvePayment(w)
  <2>1. PICK w \in Workers : CallResolvePayment(w)
    BY <1>3
  <2>2. PICK o \in Orders, oc \in Outcomes : job[w] = <<o, oc>> /\ outcome[o] = oc
    BY <2>1 DEF CallResolvePayment, JobsInv, Jobs
  <2>3. status[o] \notin {"None", "Created"}
    BY <2>2, NullAssumption DEF DecisionInv, Resolved
  <2>4. /\ resolve' = [resolve EXCEPT ![<<o, oc>>] = IF @ = "idle" THEN "resolving" ELSE @]
        /\ UNCHANGED <<projected, rows, claim, create, joined, fresh, expire, cancel, canceler>>
    BY <2>1, <2>2 DEF CallResolvePayment, rows
  <2>5. CASE resolve[<<o, oc>>] = "idle"
    <3>1. RequestResolution(o, oc)
      BY <2>3, <2>4, <2>5 DEF RequestResolution
    <3>2. QED
      BY <3>1 DEF OrdersNext, Environment
  <2>6. CASE resolve[<<o, oc>>] # "idle"
    BY <1>1, <2>4, <2>6 DEF OrdersTypeOK, ordersVars, flows, rows
  <2>7. QED
    BY <2>5, <2>6
<1>4. CASE \E o \in Orders, acked \in BOOLEAN : StartOrderPayment(o, acked)
  <2>1. PICK o \in Orders, acked \in BOOLEAN : StartOrderPayment(o, acked)
    BY <1>4
  <2>2. CASE StartPayment(o, buyer[o])
    <3>1. StartPayment(o, buyer[o]) /\ status[o] = "Created"
      BY <2>2 DEF StartPayment
    <3>2. buyer[o] \in Users
      BY <1>1, <3>1 DEF RowsInv, EntryInv
    <3>3. QED
      BY <3>1, <3>2 DEF OrdersNext, Environment
  <2>3. CASE UNCHANGED ordersVars
    BY <2>3
  <2>4. QED
    BY <2>1, <2>2, <2>3, Zenon DEF StartOrderPayment
<1>5. CASE UNCHANGED ordersVars
  BY <1>5
<1>6. CASE UNCHANGED paymentsVars
  BY <1>6 DEF paymentsVars
<1>7. QED
  BY <1>2, <1>3, <1>4, <1>5, <1>6, SettlementCases, Zenon
     DEF LeaseExpires, ClaimNextPending, ReceiveResolution,
         MarkResolved, GiveUp, Restart, CreatePayment,
         StartCheckout, PersistPayment

\* What Orders does by itself to a resolution that Payments waits for: it ends with
\* the order as it was asked to be.
LEMMA ResolutionEnds ==
  ASSUME SettlementInv, OrdersStep, NEW o \in Orders, NEW oc \in Outcomes
  PROVE  /\ resolve[<<o, oc>>] = "idle" => resolve'[<<o, oc>>] = "idle"
         /\ resolve[<<o, oc>>] # "idle" /\ resolve'[<<o, oc>>] = "idle" =>
              status'[o] = Resolved(oc)
<1>1. /\ OrdersTypeOK /\ ReleaseInv
      /\ DecisionInv /\ ResolutionInv
  BY DEF SettlementInv, ReservationInv
<1>2. resolve[<<o, oc>>] # "idle" => status[o] \in {"AwaitingPayment", Resolved(oc)}
  BY <1>1, NullAssumption DEF DecisionInv, ResolutionInv
<1>3. CASE \E p \in Orders, od \in Outcomes, acked \in BOOLEAN : ResolvePayment(p, od, acked)
  <2>1. PICK p \in Orders, od \in Outcomes, acked \in BOOLEAN : ResolvePayment(p, od, acked)
    BY <1>3
  <2>2. CASE p = o /\ od = oc
    BY <1>1, <1>2, <2>1, <2>2 DEF OrdersTypeOK, ResolvePayment, Accepted
  <2>3. CASE ~(p = o /\ od = oc)
    <3>1. <<p, od>> # <<o, oc>>
      BY <2>3
    <3>2. resolve'[<<o, oc>>] = resolve[<<o, oc>>]
      BY <1>1, <2>1, <3>1 DEF OrdersTypeOK, ResolvePayment
    <3>3. QED
      BY <3>2
  <2>4. QED
    BY <2>2, <2>3
<1>4. CASE \E p \in Orders, od \in Outcomes, acked \in BOOLEAN : ReleaseFailed(p, od, acked)
  BY <1>1, <1>2, <1>4 DEF OrdersTypeOK, ReleaseFailed, ReleaseInv, Resolved, rows
<1>5. CASE UNCHANGED resolve
  BY <1>5
<1>6. \/ \E p \in Orders, od \in Outcomes, acked \in BOOLEAN : ResolvePayment(p, od, acked)
      \/ \E p \in Orders, od \in Outcomes, acked \in BOOLEAN : ReleaseFailed(p, od, acked)
      \/ UNCHANGED resolve
  <2>1. CASE \E p \in Orders, u \in Users : RequestCancel(p, u)
    BY <2>1 DEF RequestCancel
  <2>2. CASE \E t \in Tickets : EnsureTicketProjection(t)
    BY <2>2 DEF EnsureTicketProjection, flows
  <2>3. CASE \E p \in Orders, u \in Users, t \in Tickets : RequestOrder(p, u, t)
    BY <2>3 DEF RequestOrder
  <2>4. CASE \E p \in Orders : \/ StartExpiry(p)
                               \/ DeadlinePasses(p)
                               \/ TimerFires(p)
    BY <2>4, Zenon DEF StartExpiry, DeadlinePasses, TimerFires, flows
  <2>5. CASE \E p \in Orders, acked \in Attempts :
               Activity(p, acked)
    <3>1. PICK p \in Orders, acked \in BOOLEAN : Activity(p, acked)
      BY <2>5 DEF Attempts
    <3>2. QED
      BY <3>1, Zenon DEF Activity, ReserveOrder, ClaimTicket, ExpireOrder, ReleaseExpired,
         CancelOrder, ReleaseCanceled
  <2>6. QED
    BY <2>1, <2>2, <2>3, <2>4, <2>5, Zenon DEF OrdersStep
<1>7. QED
  BY <1>3, <1>4, <1>5, <1>6

\* Only a request gives an order its buyer, who stays.
LEMMA BuyersStay ==
  ASSUME OrdersTypeOK, [OrdersNext]_ordersVars, \A o \in Orders : create[o] # "idle" => buyer[o] \in Users
  PROVE  \A o \in Orders : create'[o] # "idle" => buyer'[o] \in Users
<1> USE DEF OrdersTypeOK
<1>1. CASE \E o \in Orders, u \in Users, t \in Tickets : RequestOrder(o, u, t)
  BY <1>1 DEF RequestOrder
<1>2. CASE \E o \in Orders, acked \in BOOLEAN : ReserveOrder(o, acked)
  <2>1. PICK o \in Orders, acked \in BOOLEAN : ReserveOrder(o, acked)
    BY <1>2
  <2>2. /\ create[o] # "idle" /\ UNCHANGED buyer
        /\ \/ create' = [create EXCEPT ![o] = "claim"]
           \/ create' = [create EXCEPT ![o] = "failed"]
           \/ create' = create
    BY <2>1, Zenon DEF ReserveOrder, InsertOrder, RefuseOrder, JoinOrder
  <2>3. QED
    BY <2>2
<1>3. CASE \E o \in Orders, acked \in BOOLEAN : ClaimTicket(o, acked)
  BY <1>3 DEF ClaimTicket, rows
<1>4. CASE \E o \in Orders : StartExpiry(o)
  BY <1>4 DEF StartExpiry, rows
<1>5. CASE UNCHANGED <<create, buyer>>
  BY <1>5
<1>6. CASE UNCHANGED ordersVars
  BY <1>6 DEF ordersVars, flows, rows
<1>7. QED
  BY <1>1, <1>2, <1>3, <1>4, <1>5, <1>6, StepCases, Zenon
     DEF EnsureTicketProjection, RequestCancel, StartPayment, RequestResolution, DeadlinePasses,
         TimerFires, ExpireOrder, ReleaseExpired, CancelOrder, ReleaseCanceled, ResolvePayment,
         ReleaseFailed, rows, flows

\* Payments' databases and workers stay well typed.
LEMMA SettlementType ==
  ASSUME PaymentsTypeOK, [OrdersNext]_ordersVars, [PaymentsNext]_paymentsVars
  PROVE  PaymentsTypeOK'
<1> USE DEF PaymentsTypeOK
<1>1. OrdersTypeOK'
  BY NextType
<1>2. CASE OrdersStep
  BY <1>1, <1>2 DEF OrdersStep, payments, workers
<1>3. CASE \E o \in Orders : LeaseExpires(o)
  BY <1>1, <1>3 DEF LeaseExpires, workers
<1>4. CASE \E w \in Workers, o \in Orders : ClaimNextPending(w, o)
  <2>1. PICK w \in Workers, o \in Orders : ClaimNextPending(w, o)
    BY <1>4
  <2>2. ChosenOutcome(w, o) \in Outcomes
    BY DEF ChosenOutcome
  <2>3. QED
    BY <1>1, <2>1, <2>2 DEF ClaimNextPending, Jobs
<1>5. CASE \E w \in Workers : CallResolvePayment(w)
  BY <1>1, <1>5 DEF CallResolvePayment, payments
<1>6. CASE \E w \in Workers : ReceiveResolution(w)
  BY <1>1, <1>6 DEF ReceiveResolution, payments
<1>7. CASE \E w \in Workers : MarkResolved(w)
  <2>1. PICK w \in Workers : MarkResolved(w)
    BY <1>7
  <2>2. PICK o, oc : job[w] = <<o, oc>> /\ (o \notin Orders \/ oc \in Outcomes)
    BY NullAssumption DEF Jobs, Idle
  <2>3. \/ UNCHANGED <<payment, leased>>
        \/ payment' = [payment EXCEPT ![o] = oc] /\ leased' = [leased EXCEPT ![o] = FALSE]
    BY <2>1, <2>2 DEF MarkResolved
  <2>4. /\ settle' = [settle EXCEPT ![w] = "idle"] /\ job' = [job EXCEPT ![w] = Idle]
        /\ UNCHANGED <<outcome, checked, checkout, configured>>
    BY <2>1 DEF MarkResolved
  <2>5. QED
    BY <1>1, <2>2, <2>3, <2>4
<1>8. CASE \E w \in Workers : GiveUp(w)
  BY <1>1, <1>8 DEF GiveUp, payments
<1>9. CASE \E w \in Workers : Restart(w)
  BY <1>1, <1>9 DEF Restart, payments
<1>10. CASE \E o \in Orders : CreatePayment(o)
  BY <1>1, <1>10 DEF CreatePayment, payments, workers
<1>11. CASE \E o \in Orders : StartCheckout(o)
  BY <1>1, <1>11 DEF StartCheckout, payments, workers
<1>12. CASE \E o \in Orders, acked \in BOOLEAN : StartOrderPayment(o, acked)
  BY <1>1, <1>12 DEF StartOrderPayment, payments, workers
<1>13. CASE \E o \in Orders, acked \in BOOLEAN : PersistPayment(o, acked)
  BY <1>1, <1>13 DEF PersistPayment, workers
<1>14. CASE UNCHANGED paymentsVars
  BY <1>1, <1>14 DEF paymentsVars, payments, workers
<1>15. QED
  BY <1>2, <1>3, <1>4, <1>5, <1>6, <1>7, <1>8, <1>9, <1>10, <1>11, <1>12, <1>13, <1>14,
     SettlementCases, Zenon

-------------------------------------------------------------------------------
\* What the other conjuncts need of Payments' types.
LEMMA SettlementFacts ==
  ASSUME SettlementInv
  PROVE  /\ OrdersTypeOK /\ RowsInv
         /\ payment \in [Orders -> {"None", "Pending"} \cup Outcomes]
         /\ outcome \in [Orders -> Outcomes \cup {NULL}]
         /\ checkout \in [Orders -> {"idle", "start", "persist"}]
         /\ settle \in [Workers -> {"idle", "calling", "waiting", "marking"}]
         /\ job \in [Workers -> Jobs \cup {Idle}]
BY DEF SettlementInv, PaymentsTypeOK, ReservationInv

\* A worker at work has an order whose chosen outcome it is settling.
LEMMA JobUnderWay ==
  ASSUME SettlementInv, NEW w \in Workers, settle[w] # "idle"
  PROVE  \E o \in Orders, oc \in Outcomes :
           /\ job[w] = <<o, oc>> /\ outcome[o] = oc
           /\ settle[w] = "marking" => status[o] = Resolved(oc)
<1>1. JobsInv
  BY DEF SettlementInv
<1>2. PICK o \in Orders, oc \in Outcomes : job[w] = <<o, oc>>
  BY <1>1 DEF JobsInv, Jobs
<1>3. outcome[o] = oc /\ (settle[w] = "marking" => status[o] = Resolved(oc))
  BY <1>1, <1>2 DEF JobsInv
<1>4. QED
  BY <1>2, <1>3

\* An order leaves checkout when its payment has an outcome, and by that outcome.
LEMMA CheckoutLeft ==
  ASSUME SettlementInv, [OrdersNext]_ordersVars, NEW o \in Orders, status'[o] # status[o]
  PROVE  \/ status[o] = "None" /\ status'[o] = "Created"
         \/ status[o] = "Created" /\ status'[o] \in {"AwaitingPayment", "Canceled"}
         \/ /\ status[o] = "AwaitingPayment" /\ outcome[o] \in Outcomes
            /\ status'[o] = Resolved(outcome[o]) /\ payment[o] # "None"
<1>1. OrdersNext
  BY DEF ordersVars, flows, rows
<1>2. OrdersTypeOK
  BY SettlementFacts
<1>3. CASE \E oc \in Outcomes : resolve[<<o, oc>>] = "resolving" /\ status'[o] = Resolved(oc)
  BY <1>1, <1>2, <1>3, StatusStep, NullAssumption
     DEF SettlementInv, ResolutionInv, DecisionInv
<1>4. QED
  BY <1>1, <1>2, <1>3, StatusStep

\* The inductive step for the databases ...
LEMMA NextDecision ==
  ASSUME SettlementInv, PaymentsNext, [OrdersNext]_ordersVars
  PROVE  EntryInv' /\ DecisionInv' /\ ResolutionInv'
<1> USE SettlementFacts, NullAssumption, OutcomesAssumption
    DEF SettlementInv, ordersVars, flows, rows
<1>1. \A o \in Orders : create'[o] # "idle" => buyer'[o] \in Users
  BY BuyersStay DEF EntryInv
<1>2. CASE OrdersStep
  <2>1. UNCHANGED <<payment, outcome, checkout>>
    BY <1>2 DEF OrdersStep, payments
  <2>2. EntryInv'
    BY <1>1, <2>1, CheckoutLeft DEF EntryInv
  <2>3. DecisionInv'
    BY <2>1, CheckoutLeft DEF DecisionInv, Resolved
  <2>4. ResolutionInv'
    BY <1>2, <2>1, ResolutionEnds DEF ResolutionInv
  <2>5. QED
    BY <2>2, <2>3, <2>4
<1>3. CASE \E w \in Workers, o \in Orders : ClaimNextPending(w, o)
  BY <1>1, <1>3 DEF ClaimNextPending, Claimable, ChosenOutcome,
     EntryInv, DecisionInv, ResolutionInv
<1>4. CASE \E w \in Workers : CallResolvePayment(w)
  <2>1. PICK w \in Workers : CallResolvePayment(w)
    BY <1>4
  <2>2. PICK o \in Orders, oc \in Outcomes : job[w] = <<o, oc>> /\ outcome[o] = oc
    BY <2>1, JobUnderWay DEF CallResolvePayment
  <2>3. UNCHANGED <<status, buyer, create, payment, outcome, checkout>>
    BY <2>1 DEF CallResolvePayment, payments
  <2>4. ResolutionInv'
    BY <2>1, <2>2, <2>3 DEF CallResolvePayment, ResolutionInv, OrdersTypeOK
  <2>5. QED
    BY <2>3, <2>4 DEF EntryInv, DecisionInv
<1>5. CASE \E w \in Workers : MarkResolved(w)
  <2>1. PICK w \in Workers : MarkResolved(w)
    BY <1>5
  <2>2. PICK o \in Orders, oc \in Outcomes :
          job[w] = <<o, oc>> /\ outcome[o] = oc /\ status[o] = Resolved(oc)
    BY <2>1, JobUnderWay DEF MarkResolved
  <2>3. UNCHANGED <<status, buyer, create, resolve, outcome, checkout>>
    BY <2>1 DEF MarkResolved
  <2>4. UNCHANGED payment \/ payment' = [payment EXCEPT ![o] = oc]
    BY <2>1, <2>2 DEF MarkResolved
  <2>5. QED
    BY <2>2, <2>3, <2>4 DEF EntryInv, DecisionInv, ResolutionInv
<1>6. CASE \E o \in Orders, acked \in BOOLEAN : StartOrderPayment(o, acked)
  <2>1. PICK o \in Orders, acked \in BOOLEAN : StartOrderPayment(o, acked)
    BY <1>6
  <2>2. UNCHANGED <<payment, outcome, resolve>>
    BY <2>1 DEF StartOrderPayment, StartPayment,
       flows, payments
  <2>3. \/ checkout' = checkout
        \/ checkout' = [checkout EXCEPT ![o] = "persist"] /\ status'[o] = "AwaitingPayment"
        \/ checkout' = [checkout EXCEPT ![o] = "idle"]
    BY <2>1 DEF StartOrderPayment, StartPayment, OrdersTypeOK
  <2>4. EntryInv'
    BY <1>1, <2>2, <2>3, CheckoutLeft DEF EntryInv
  <2>5. DecisionInv' /\ ResolutionInv'
    BY <2>2, CheckoutLeft DEF DecisionInv, ResolutionInv, Resolved
  <2>6. QED
    BY <2>4, <2>5
<1>7. CASE \E o \in Orders, acked \in BOOLEAN : PersistPayment(o, acked)
  BY <1>7 DEF PersistPayment, EntryInv, DecisionInv,
     ResolutionInv
<1>8. CASE \E o \in Orders : StartCheckout(o)
  BY <1>8 DEF StartCheckout, EntryInv, DecisionInv,
     ResolutionInv, payments
<1>9. CASE UNCHANGED <<ordersVars, payment, outcome, checkout>>
  BY <1>9 DEF EntryInv, DecisionInv, ResolutionInv
<1>10. QED
  BY <1>2, <1>3, <1>4, <1>5, <1>6, <1>7, <1>8, <1>9, SettlementCases, Zenon
     DEF LeaseExpires, ReceiveResolution, GiveUp, Restart,
         CreatePayment, payments

\* ... and for the workers: a chosen outcome is not chosen again, and an order that has
\* ended by it has ended for good.
LEMMA NextJobs ==
  ASSUME SettlementInv, PaymentsNext, [OrdersNext]_ordersVars
  PROVE  JobsInv' /\ ResolutionIsAsAsked'
<1> USE SettlementFacts, NullAssumption DEF SettlementInv
<1>1. \A o \in Orders, oc \in Outcomes : status[o] = Resolved(oc) => status'[o] = Resolved(oc)
  BY CheckoutLeft DEF Resolved
<1>2. CASE OrdersStep
  <2>1. UNCHANGED <<outcome, settle, job>>
    BY <1>2 DEF OrdersStep, payments, workers
  <2>2. JobsInv'
    BY <1>1, <2>1 DEF JobsInv, Jobs
  <2>3. ASSUME NEW w \in Workers, settle[w] = "waiting", resolve'[job[w]] = "idle"
        PROVE  status'[job[w][1]] = Resolved(job[w][2])
    <3>1. PICK o \in Orders, oc \in Outcomes : job[w] = <<o, oc>>
      BY <2>3, JobUnderWay
    <3>2. CASE resolve[<<o, oc>>] = "idle"
      BY <1>1, <2>3, <3>1, <3>2 DEF ResolutionIsAsAsked
    <3>3. CASE resolve[<<o, oc>>] # "idle"
      BY <1>2, <2>3, <3>1, <3>3, ResolutionEnds
    <3>4. QED
      BY <3>2, <3>3
  <2>4. ResolutionIsAsAsked'
    BY <2>1, <2>3 DEF ResolutionIsAsAsked
  <2>5. QED
    BY <2>2, <2>4
<1>3. CASE \E w \in Workers, o \in Orders : ClaimNextPending(w, o)
  <2>1. PICK w \in Workers, o \in Orders : ClaimNextPending(w, o)
    BY <1>3
  <2>2. PICK oc \in Outcomes :
          /\ outcome[o] = NULL \/ outcome[o] = oc
          /\ outcome' = [outcome EXCEPT ![o] = oc]
          /\ job' = [job EXCEPT ![w] = <<o, oc>>]
          /\ settle' = [settle EXCEPT ![w] = "calling"]
          /\ UNCHANGED <<status, resolve>>
    BY <2>1 DEF ClaimNextPending, ChosenOutcome, PaymentsTypeOK,
       ordersVars, flows, rows
  <2>3. JobsInv'
    BY <2>2 DEF JobsInv, Jobs
  <2>4. QED
    BY <2>2, <2>3 DEF ResolutionIsAsAsked
<1>4. CASE \E w \in Workers : CallResolvePayment(w)
  <2>1. PICK w \in Workers : CallResolvePayment(w)
    BY <1>4
  <2>2. PICK o \in Orders, oc \in Outcomes : job[w] = <<o, oc>> /\ outcome[o] = oc
    BY <2>1, JobUnderWay DEF CallResolvePayment
  <2>3. /\ settle' = [settle EXCEPT ![w] = "waiting"]
        /\ resolve'[<<o, oc>>] # "idle"
        /\ \A r \in Orders \X Outcomes : resolve'[r] = "idle" => resolve[r] = "idle"
        /\ UNCHANGED <<status, outcome, job>>
    BY <2>1, <2>2 DEF CallResolvePayment, payments, OrdersTypeOK
  <2>4. JobsInv'
    BY <2>2, <2>3 DEF JobsInv, Jobs
  <2>5. ResolutionIsAsAsked'
    BY <2>2, <2>3 DEF ResolutionIsAsAsked, JobsInv, Jobs
  <2>6. QED
    BY <2>4, <2>5
<1>5. CASE \E w \in Workers : ReceiveResolution(w)
  BY <1>5 DEF ReceiveResolution, ordersVars, flows, rows, payments,
     JobsInv, ResolutionIsAsAsked
<1>6. CASE UNCHANGED <<ordersVars, outcome>> /\ \E w \in Workers :
             settle' = [settle EXCEPT ![w] = "idle"] /\ job' = [job EXCEPT ![w] = Idle]
  BY <1>6 DEF ordersVars, flows, rows, JobsInv, ResolutionIsAsAsked
<1>7. CASE \E o \in Orders, acked \in BOOLEAN : StartOrderPayment(o, acked)
  <2>1. UNCHANGED <<outcome, resolve, settle, job>>
    BY <1>7 DEF StartOrderPayment, StartPayment,
       flows, ordersVars, rows, payments, workers
  <2>2. JobsInv'
    BY <1>1, <2>1 DEF JobsInv, Jobs
  <2>3. ResolutionIsAsAsked'
    BY <1>1, <2>1, JobUnderWay DEF ResolutionIsAsAsked
  <2>4. QED
    BY <2>2, <2>3
<1>8. CASE UNCHANGED <<ordersVars, outcome, settle, job>>
  BY <1>8 DEF ordersVars, flows, rows, JobsInv, ResolutionIsAsAsked
<1>9. QED
  BY <1>2, <1>3, <1>4, <1>5, <1>6, <1>7, <1>8, SettlementCases, Zenon
     DEF LeaseExpires, MarkResolved, GiveUp, Restart,
         CreatePayment, StartCheckout, PersistPayment,
         payments, workers

\* The invariant at the start ...
LEMMA InitSettlement == PaymentsInit => SettlementInv
<1> SUFFICES ASSUME PaymentsInit PROVE SettlementInv
  OBVIOUS
<1>1. ReservationInv /\ OrdersTypeOK
  BY InitReservation DEF PaymentsInit, ReservationInv
<1>2. QED
  BY <1>1, OutcomesAssumption
     DEF OrdersInit, PaymentsInit, SettlementInv, PaymentsTypeOK, EntryInv, DecisionInv,
         ResolutionInv, JobsInv, ResolutionIsAsAsked

\* ... and after every step, of which those of Orders keep what is theirs.
LEMMA StepSettlement ==
  ASSUME SettlementInv, [PaymentsNext]_paymentsVars
  PROVE  SettlementInv'
<1>1. [OrdersNext]_ordersVars
  BY OrdersPart
<1>2. ReservationInv' /\ PaymentsTypeOK'
  BY <1>1, StepReservation, SettlementType DEF SettlementInv
<1>3. CASE PaymentsNext
  BY <1>1, <1>2, <1>3, NextDecision, NextJobs DEF SettlementInv
<1>4. CASE UNCHANGED paymentsVars
  BY <1>2, <1>4
     DEF paymentsVars, ordersVars, rows, flows, payments, workers, SettlementInv, EntryInv,
         DecisionInv, ResolutionInv, JobsInv, ResolutionIsAsAsked
<1>5. QED
  BY <1>3, <1>4

\* A payment's records, its order and the workers that settle it always fit together:
\* the inductive invariant, of which the next two theorems are parts.
THEOREM SettlementInvariant == PaymentsSpec => []SettlementInv
BY InitSettlement, StepSettlement, PTL DEF PaymentsSpec

\* A payment is recorded for an order in checkout only, and settled only as its order
\* has ended.
THEOREM DatabasesAgree == PaymentsSpec => []PaymentAgreesWithOrder
<1>1. SettlementInv => PaymentAgreesWithOrder
  BY OutcomesAssumption, SettlementFacts
     DEF SettlementInv, DecisionInv, PaymentAgreesWithOrder, Resolved
<1>2. QED
  BY <1>1, SettlementInvariant, PTL

\* Orders never ends an order otherwise than a settlement worker has asked it to.
THEOREM SettlementNeverRefused == PaymentsSpec => []ResolutionIsAsAsked
<1>1. SettlementInv => ResolutionIsAsAsked
  BY DEF SettlementInv
<1>2. QED
  BY <1>1, SettlementInvariant, PTL

\* Payments calls Orders only as OrderReservation lets its environment call it ...
THEOREM OrdersUse == PaymentsSpec => UsesOrdersAsAssumed
<1>1. PaymentsInit => OrdersInit
  BY DEF PaymentsInit
<1>2. SettlementInv /\ [PaymentsNext]_paymentsVars => [OrdersNext]_ordersVars
  BY OrdersPart
<1>3. QED
  BY <1>1, <1>2, SettlementInvariant, PTL DEF PaymentsSpec, UsesOrdersAsAssumed, OrdersSpec

\* ... so that all that Orders promises is kept while Payments uses it.
THEOREM OrdersKeepsItsPromises ==
  PaymentsSpec => /\ []AtMostOneBlocking
                   /\ []AcknowledgedOrderHoldsClaim
                   /\ ClaimLeavesOnlyCanceledOrder
                   /\ CheckoutEndsByResolution
                   /\ ImplementsTicketSale
<1>1. PaymentsSpec => OrdersSpec
  BY OrdersUse DEF UsesOrdersAsAssumed
<1>2. QED
  BY <1>1, OneBlockingOrder, AnsweredOrderClaimed, ClaimSafety, CheckoutSafety, Refinement, PTL

-------------------------------------------------------------------------------
\* A step of Orders: an order enters checkout, or ends by the decision.
LEMMA PayingByOrders ==
  ASSUME SettlementInv, OrdersNext, UNCHANGED <<payment, outcome>>
  PROVE  [Paying!Next]_(Paying!vars)
<1> DEFINE order == [p \in Orders |-> EndedBy(p)]
           due == [p \in Orders |-> Due(p)]
<1> USE SettlementFacts, OutcomesAssumption, NullAssumption
<1>1. due' = due
  BY DEF Due
<1>2. CASE UNCHANGED status
  <2>1. order' = order
    BY <1>2 DEF EndedBy
  <2>2. QED
    BY <1>1, <2>1 DEF Paying!vars
<1>3. ASSUME NEW o \in Orders, status' = [status EXCEPT ![o] = status'[o]], status'[o] # status[o]
      PROVE  [Paying!Next]_(Paying!vars)
  <2>1. \A p \in Orders : p # o => status'[p] = status[p]
    BY <1>3 DEF OrdersTypeOK
  <2>2. \A p \in Orders : p # o => order'[p] = order[p]
    BY <2>1 DEF EndedBy
  <2>3. CASE status[o] = "AwaitingPayment"
    <3>1. outcome[o] \in Outcomes /\ status'[o] = Resolved(outcome[o]) /\ payment[o] # "None"
      BY <1>3, <2>3, CheckoutLeft
    <3>2. order[o] = "checkout" /\ order'[o] = outcome[o]
      BY <2>3, <3>1 DEF EndedBy, Resolved
    <3>3. order' = [order EXCEPT ![o] = outcome[o]]
      BY <2>2, <3>2
    <3>4. Paying!End(o)
      BY <1>1, <3>1, <3>2, <3>3 DEF Paying!End
    <3>5. QED
      BY <3>4 DEF Paying!Next
  <2>4. CASE status[o] = "Created" /\ status'[o] = "AwaitingPayment"
    <3>1. order[o] = "outside" /\ order'[o] = "checkout"
      BY <2>4 DEF EndedBy
    <3>2. order' = [order EXCEPT ![o] = "checkout"]
      BY <2>2, <3>1
    <3>3. Paying!Begin(o)
      BY <1>1, <3>1, <3>2 DEF Paying!Begin
    <3>4. QED
      BY <3>3 DEF Paying!Next
  <2>5. CASE status[o] \in {"None", "Created"} /\ status'[o] \in {"Created", "Canceled"}
    <3>1. payment[o] = "None"
      BY <2>5 DEF SettlementInv, DecisionInv, Resolved
    <3>2. order'[o] = order[o]
      BY <2>5, <3>1 DEF EndedBy
    <3>3. order' = order
      BY <2>2, <3>2
    <3>4. QED
      BY <1>1, <3>3 DEF Paying!vars
  <2>6. QED
    BY <1>3, <2>3, <2>4, <2>5, CheckoutLeft
<1>4. ReservationInv
  BY DEF SettlementInv
<1>5. UNCHANGED status \/ \E o \in Orders : status' = [status EXCEPT ![o] = status'[o]]
  BY <1>4, RowStep
<1>6. QED
  BY <1>2, <1>3, <1>5 DEF OrdersTypeOK

\* Every step of Payments and Orders is a step of the abstract payment, or leaves it alone.
LEMMA PayingStep ==
  ASSUME SettlementInv, PaymentsNext
  PROVE  [Paying!Next]_(Paying!vars)
<1> DEFINE order == [p \in Orders |-> EndedBy(p)]
           due == [p \in Orders |-> Due(p)]
<1> USE SettlementFacts, OutcomesAssumption, NullAssumption
<1>1. [OrdersNext]_ordersVars
  BY OrdersPart
<1>2. CASE UNCHANGED <<status, payment, outcome>>
  <2>1. order' = order /\ due' = due
    BY <1>2 DEF EndedBy, Due
  <2>2. QED
    BY <1>2, <2>1 DEF Paying!vars
<1>3. CASE UNCHANGED <<payment, outcome>>
  BY <1>1, <1>2, <1>3, PayingByOrders DEF ordersVars, flows, rows
<1>4. CASE \E w \in Workers, o \in Orders : ClaimNextPending(w, o)
  <2>1. PICK w \in Workers, o \in Orders : ClaimNextPending(w, o)
    BY <1>4
  <2>2. UNCHANGED <<status, payment>>
    BY <2>1 DEF ClaimNextPending, ordersVars, flows, rows
  <2>3. order' = order /\ due' = due
    BY <2>2 DEF EndedBy, Due
  <2>4. CASE outcome[o] = NULL
    <3>1. PICK oc \in Outcomes : outcome' = [outcome EXCEPT ![o] = oc]
      BY <2>1, <2>4 DEF ClaimNextPending, ChosenOutcome,
         SettlementInv, PaymentsTypeOK
    <3>2. due[o] = "due"
      BY <2>1 DEF ClaimNextPending, Claimable, Due
    <3>3. Paying!Decide(o, oc)
      BY <2>3, <2>4, <3>1, <3>2 DEF Paying!Decide
    <3>4. QED
      BY <3>3 DEF Paying!Next
  <2>5. CASE outcome[o] # NULL
    <3>1. outcome' = outcome
      BY <2>1, <2>5 DEF ClaimNextPending, ChosenOutcome
    <3>2. QED
      BY <1>2, <2>2, <3>1
  <2>6. QED
    BY <2>4, <2>5
<1>5. CASE \E w \in Workers : MarkResolved(w)
  <2>1. PICK w \in Workers : MarkResolved(w)
    BY <1>5
  <2>2. PICK o \in Orders, oc \in Outcomes :
          job[w] = <<o, oc>> /\ outcome[o] = oc /\ status[o] = Resolved(oc)
    BY <2>1, JobUnderWay DEF MarkResolved
  <2>3. UNCHANGED <<status, outcome>>
    BY <2>1 DEF MarkResolved, ordersVars, flows, rows
  <2>4. CASE Markable(o, oc)
    <3>1. payment' = [payment EXCEPT ![o] = oc] /\ payment[o] = "Pending"
      BY <2>1, <2>2, <2>4 DEF MarkResolved, Markable
    <3>2. order' = order
      BY <2>3, <3>1 DEF EndedBy
    <3>3. due[o] = "due" /\ due' = [due EXCEPT ![o] = oc]
      BY <3>1 DEF Due
    <3>4. order[o] = oc
      BY <2>2, <3>1 DEF EndedBy, Resolved
    <3>5. Paying!Settle(o)
      BY <2>2, <2>3, <3>2, <3>3, <3>4 DEF Paying!Settle
    <3>6. QED
      BY <3>5 DEF Paying!Next
  <2>5. CASE ~Markable(o, oc)
    BY <1>2, <2>1, <2>2, <2>3, <2>5 DEF MarkResolved
  <2>6. QED
    BY <2>4, <2>5
<1>6. CASE \E o \in Orders, acked \in BOOLEAN : PersistPayment(o, acked)
  <2>1. PICK o \in Orders, acked \in BOOLEAN : PersistPayment(o, acked)
    BY <1>6
  <2>2. UNCHANGED <<status, outcome>>
    BY <2>1 DEF PersistPayment, ordersVars, flows, rows
  <2>3. CASE payment[o] = "None"
    <3>1. payment' = [payment EXCEPT ![o] = "Pending"] /\ status[o] = "AwaitingPayment"
      BY <2>1, <2>3 DEF PersistPayment, SettlementInv, EntryInv
    <3>2. order[o] = "checkout" /\ order' = order
      BY <2>2, <3>1 DEF EndedBy
    <3>3. due[o] = "none" /\ due' = [due EXCEPT ![o] = "due"]
      BY <2>3, <3>1 DEF Due
    <3>4. Paying!Record(o)
      BY <2>2, <3>2, <3>3 DEF Paying!Record
    <3>5. QED
      BY <3>4 DEF Paying!Next
  <2>4. CASE payment[o] # "None"
    BY <1>2, <2>1, <2>2, <2>4 DEF PersistPayment
  <2>5. QED
    BY <2>3, <2>4
<1>7. QED
  BY <1>3, <1>4, <1>5, <1>6, SettlementCases, Zenon
     DEF OrdersStep, LeaseExpires, CallResolvePayment,
         ReceiveResolution, GiveUp, Restart, CreatePayment,
         StartCheckout, StartOrderPayment, payments

\* Orders and Payments together implement the abstract payment of an order: one decision,
\* by which the order ends and after that its payment.
THEOREM PaymentRefinement == PaymentsSpec => ImplementsOrderPayment
<1>1. PaymentsInit => Paying!Init
  BY OutcomesAssumption
     DEF PaymentsInit, OrdersInit, Paying!Init, EndedBy, Due
<1>2. SettlementInv /\ [PaymentsNext]_paymentsVars
        => [Paying!Next]_(Paying!vars)
  <2>1. ASSUME UNCHANGED paymentsVars PROVE UNCHANGED Paying!vars
    BY <2>1 DEF paymentsVars, ordersVars, flows, rows, payments, Paying!vars,
       EndedBy, Due
  <2>2. QED
    BY <2>1, PayingStep
<1>3. QED
  BY <1>1, <1>2, SettlementInvariant, PTL
     DEF PaymentsSpec, ImplementsOrderPayment, Paying!Spec
===============================================================================
