----------------------------- MODULE CheckoutProofs -----------------------------
(***************************************************************************)
(* Proofs about Checkout.  They extend those about its parts: a step of    *)
(* Checkout is a step of Orders and Payments or leaves them alone, and a   *)
(* step of Tickets or leaves that alone, so what is proved of the parts    *)
(* holds here, too.                                                        *)
(***************************************************************************)
EXTENDS TicketUpdatesProofs, PaymentSettlementProofs, Checkout

\* Every step of Checkout, by the action that takes it.
LEMMA ServicesCases ==
  ASSUME Next
  PROVE  \/ TicketStep
         \/ OrderStep
         \/ \E o \in Orders, acked \in BOOLEAN : QuoteOrder(o, acked)
         \/ \E o \in Orders, acked \in BOOLEAN : PersistPrice(o, acked)
<1>1. Attempts \subseteq BOOLEAN
  BY DEF Attempts
<1>2. QED
  BY <1>1, Zenon DEF Next

\* The steps of Tickets are its own, but for the views; the others make none of them.
LEMMA ServicesSides ==
  ASSUME Next
  PROVE  \/ TicketStep
         \/ UNCHANGED ticketVars
BY ServicesCases, Zenon DEF OrderStep, QuoteOrder, PersistPrice

\* Tickets has the ticket that everything is about.
LEMMA TicketIsThere == Ticket \in Tickets
BY TicketAssumption

-------------------------------------------------------------------------------
\* Both views are those of what is shared.
LEMMA ViewsStep ==
  ASSUME ViewsInv, [Next]_vars
  PROVE  ViewsInv'
<1>1. CASE Next
  BY <1>1 DEF Next, Views, ViewsInv, Ticket
<1>2. CASE UNCHANGED vars
  BY <1>2 DEF vars, ticketVars, orderVars, views, projection, ViewsInv, Ticket
<1>3. QED
  BY <1>1, <1>2

\* Orders and Payments are used as PaymentSettlement assumes: a step of Tickets projects
\* the ticket to Orders, once, or is none of theirs.
LEMMA PaymentsPart ==
  ASSUME HistoryInv, ViewsInv, [Next]_vars
  PROVE  [PaymentsNext]_paymentsVars
<1>1. CASE OrderStep
  BY <1>1, Zenon DEF OrderStep, PaymentsNext
<1>2. CASE \E o \in Orders, acked \in Attempts : QuoteOrder(o, acked) \/ PersistPrice(o, acked)
  BY <1>2, Zenon DEF QuoteOrder, PersistPrice, PaymentsNext
<1>3. CASE TicketStep /\ Views
  <2>1. UNCHANGED orderVars /\ WorkflowStep
    BY <1>3 DEF TicketStep
  <2>2. CASE UNCHANGED projected
    BY <2>1, <2>2 DEF orderVars, paymentsVars, ordersVars
  <2>3. CASE projected' # projected
    <3>1. shown' >= shown /\ shown \in Nat /\ shown' \in Nat
      <4>1. [UpdatesNext]_updatesVars
        BY <2>1, Zenon DEF UpdatesNext
      <4>2. QED
        BY <4>1, ProjectionGrows, NextUpdatesType DEF HistoryInv, UpdatesTypeOK
    <3>2. projected = {} /\ projected' = {Ticket}
      BY <1>3, <2>3, <3>1, TicketAssumption DEF Views, ViewsInv
    <3>3. EnsureTicketProjection(Ticket)
      BY <2>1, <3>2 DEF orderVars, EnsureTicketProjection
    <3>4. OrdersStep
      BY <2>1, <3>3, TicketIsThere DEF orderVars, OrdersStep
    <3>5. QED
      BY <3>4, Zenon DEF PaymentsNext
  <2>4. QED
    BY <2>2, <2>3
<1>4. CASE UNCHANGED vars
  BY <1>4 DEF vars, orderVars, views, paymentsVars, ordersVars
<1>5. QED
  BY <1>1, <1>2, <1>3, <1>4, Zenon DEF Next

\* Tickets is used as TicketUpdates assumes: an order that has the claim is one for a
\* ticket that Orders shows, and a claim is gone before another one is made.
LEMMA UpdatesPart ==
  ASSUME ViewsInv, ViewsInv', ReservationInv', [Next]_vars
  PROVE  [UpdatesNext]_updatesVars
<1>1. CASE TicketStep
  BY <1>1, Zenon DEF TicketStep, UpdatesNext
<1>2. CASE UNCHANGED ticketVars
  <2>1. UNCHANGED <<version, ledger, projection, creation, updates>>
    BY <1>2 DEF ticketVars
  <2>2. reserved \in BOOLEAN /\ reserved' \in BOOLEAN
    BY Zenon DEF ViewsInv
  <2>3. CASE reserved' = reserved
    BY <2>1, <2>3 DEF updatesVars, source
  <2>4. CASE reserved = TRUE /\ reserved' = FALSE
    <3>1. Release
      BY <2>1, <2>4 DEF Release
    <3>2. QED
      BY <3>1, Zenon DEF UpdatesNext
  <2>5. CASE reserved = FALSE /\ reserved' = TRUE
    <3>1. claim'[Ticket] \in Orders
      <4>1. claim'[Ticket] # NULL
        BY <2>5, Zenon DEF ViewsInv, Ticket
      <4>2. QED
        BY <4>1, TicketIsThere DEF ReservationInv, OrdersTypeOK
    <3>2. projected' # {}
      BY <3>1, TicketIsThere DEF ReservationInv, ClaimInv, RowsInv
    <3>3. shown > 0
      BY <2>1, <3>2 DEF ViewsInv, projection
    <3>4. Reserve
      BY <2>1, <2>5, <3>3 DEF Reserve
    <3>5. QED
      BY <3>4, Zenon DEF UpdatesNext
  <2>6. QED
    BY <2>2, <2>3, <2>4, <2>5
<1>3. CASE UNCHANGED vars
  BY <1>3 DEF vars, ticketVars, views, updatesVars, source
<1>4. QED
  BY <1>1, <1>2, <1>3, ServicesSides

\* Settling a payment touches neither what there is to pay nor the way there.
LEMMA PaymentsStay ==
  ASSUME PaymentsTypeOK, OrderStep
  PROVE  \A o \in Orders : /\ checkout'[o] = "persist" => checkout[o] = "persist"
                           /\ payment'[o] # "None" => payment[o] # "None"
<1> USE DEF PaymentsTypeOK, payments, workers
<1>1. CASE OrdersStep
  BY <1>1 DEF OrdersStep
<1>2. CASE \E w \in Workers : MarkResolved(w)
  <2>1. PICK w \in Workers : MarkResolved(w)
    BY <1>2
  <2>2. /\ UNCHANGED checkout
        /\ \/ UNCHANGED payment
           \/ payment' = [payment EXCEPT ![job[w][1]] = job[w][2]] /\ payment[job[w][1]] = "Pending"
    BY <2>1 DEF MarkResolved, Markable
  <2>3. QED
    BY <2>2
<1>3. CASE UNCHANGED <<payment, checkout>>
  BY <1>3
<1>4. CASE \E o \in Orders : StartCheckout(o)
  BY <1>4 DEF StartCheckout
<1>5. Settlement => (\E w \in Workers : MarkResolved(w)) \/ UNCHANGED <<payment, checkout>>
  BY Zenon DEF Settlement, LeaseExpires, ClaimNextPending, CallResolvePayment,
     ReceiveResolution, GiveUp, Restart
<1>6. (\E o \in Orders : CreatePayment(o)) => UNCHANGED <<payment, checkout>>
  BY Zenon DEF CreatePayment
<1>7. QED
  BY <1>1, <1>2, <1>3, <1>4, <1>5, <1>6, Zenon DEF OrderStep

\* An order that can be paid for is one of a ticket that Orders shows at a price.
LEMMA OrderedIsShown ==
  ASSUME ReservationInv, ViewsInv, NEW o \in Orders, status[o] # "None"
  PROVE  shown > 0
BY DEF ReservationInv, RowsInv, ViewsInv

\* A price is quoted before the workflow persists the payment, with that price.
LEMMA PricesStep ==
  ASSUME CheckoutInv, [Next]_vars
  PROVE  PricesInv'
<1>1. /\ PaymentsTypeOK /\ status \in [Orders -> Statuses] /\ shown \in Nat
      /\ quote \in [Orders -> Nat] /\ price \in [Orders -> Nat] /\ PricesInv
  BY DEF CheckoutInv, SettlementInv, ReservationInv, OrdersTypeOK, UpdatesInv, HistoryInv,
     UpdatesTypeOK, PricesInv
<1> USE <1>1 DEF PaymentsTypeOK, payments, workers, PricesInv
<1>2. CASE TicketStep
  BY <1>2 DEF TicketStep, orderVars, prices
<1>3. CASE OrderStep
  BY <1>3, PaymentsStay DEF OrderStep, prices
<1>4. ASSUME NEW o \in Orders, NEW acked \in BOOLEAN, QuoteOrder(o, acked)
      PROVE  PricesInv'
  <2>1. StartOrderPayment(o, acked) /\ UNCHANGED <<price, payment>>
    BY <1>4 DEF QuoteOrder, StartOrderPayment
  <2>2. quote' = IF status'[o] = "AwaitingPayment" THEN [quote EXCEPT ![o] = shown] ELSE quote
    BY <1>4 DEF QuoteOrder, Quoted
  <2>3. \/ UNCHANGED checkout
        \/ checkout' = [checkout EXCEPT ![o] = "idle"]
        \/ /\ checkout' = [checkout EXCEPT ![o] = "persist"]
           /\ status'[o] = "AwaitingPayment" /\ status[o] # "None"
    BY <2>1 DEF StartOrderPayment, StartPayment, ordersVars, rows
  <2>4. status[o] # "None" => shown > 0
    BY OrderedIsShown DEF CheckoutInv, SettlementInv
  <2>5. checkout[o] = "start"
    BY <2>1 DEF StartOrderPayment
  <2>6. QED
    BY <2>1, <2>2, <2>3, <2>4, <2>5
<1>5. ASSUME NEW o \in Orders, NEW acked \in BOOLEAN, PersistPrice(o, acked)
      PROVE  PricesInv'
  <2>1. PersistPayment(o, acked) /\ UNCHANGED quote
    BY <1>5 DEF PersistPrice
  <2>2. quote[o] # 0 /\ price' = [price EXCEPT ![o] = IF price[o] = 0 THEN quote[o] ELSE price[o]]
    BY <1>5, <2>1 DEF PersistPrice, RecordedPrice, PersistPayment
  <2>3. /\ payment' = payment \/ payment' = [payment EXCEPT ![o] = "Pending"]
        /\ checkout' = checkout \/ checkout' = [checkout EXCEPT ![o] = "idle"]
    BY <2>1 DEF PersistPayment
  <2>4. QED
    BY <2>1, <2>2, <2>3
<1>6. CASE UNCHANGED vars
  BY <1>6 DEF vars, orderVars, prices
<1>7. QED
  BY <1>2, <1>3, <1>4, <1>5, <1>6, ServicesCases

-------------------------------------------------------------------------------
\* Each part needs the other's invariant to be used as it assumes: of Tickets that the
\* projection stays, of Orders that a claim is for a ticket with one.
LEMMA StepCheckout ==
  ASSUME CheckoutInv, [Next]_vars
  PROVE  CheckoutInv' /\ [PaymentsNext]_paymentsVars /\ [UpdatesNext]_updatesVars
<1> USE DEF CheckoutInv
<1>1. ViewsInv'
  BY ViewsStep
<1>2. [PaymentsNext]_paymentsVars
  BY PaymentsPart DEF UpdatesInv
<1>3. SettlementInv'
  BY <1>2, StepSettlement
<1>4. [UpdatesNext]_updatesVars
  BY <1>1, <1>3, UpdatesPart DEF SettlementInv
<1>5. UpdatesInv'
  BY <1>4, StepUpdates
<1>6. PricesInv'
  BY PricesStep
<1>7. QED
  BY <1>1, <1>2, <1>3, <1>4, <1>5, <1>6

\* Both sides see the claim and the projection that there are, and no payment is made
\* before its order has been quoted a price, on top of what holds of either side.
THEOREM CheckoutInvariant == Spec => []CheckoutInv
<1>1. Init => CheckoutInv
  <2> SUFFICES ASSUME Init PROVE CheckoutInv
    OBVIOUS
  <2>1. UpdatesInit /\ PaymentsInit
    BY DEF Init
  <2>2. UpdatesInv /\ SettlementInv
    BY <2>1, InitUpdates, InitSettlement
  <2>3. ViewsInv
    <3>1. claim[Ticket] = NULL /\ projected = {}
      BY <2>1, TicketIsThere DEF PaymentsInit, OrdersInit
    <3>2. reserved = FALSE /\ ~(shown > 0)
      BY <2>1 DEF UpdatesInit
    <3>3. reserved = (claim[Ticket] # NULL)
      BY <3>1, <3>2
    <3>4. QED
      BY <3>1, <3>2, <3>3 DEF ViewsInv
  <2>4. PricesInv
    BY <2>1 DEF Init, PaymentsInit, PricesInv
  <2>5. QED
    BY <2>2, <2>3, <2>4 DEF CheckoutInv
<1>2. CheckoutInv /\ [Next]_vars => CheckoutInv'
  BY StepCheckout
<1>3. QED
  BY <1>1, <1>2, PTL DEF Spec

\* Tickets' edits change nothing for Orders and Payments but when the ticket is first
\* there ...
THEOREM PaymentsAreUsedAsAssumed == Spec => PaymentsSpec
<1>1. Init => PaymentsInit
  BY DEF Init
<1>2. CheckoutInv /\ [Next]_vars => [PaymentsNext]_paymentsVars
  BY StepCheckout
<1>3. QED
  BY <1>1, <1>2, CheckoutInvariant, PTL DEF Spec, PaymentsSpec

\* ... and a claim is made only of a free ticket that Orders shows, whatever the orders,
\* their payments and the edits do meanwhile ...
THEOREM TicketsUse == Spec => TicketsAreUsedAsAssumed
<1>1. Init => UpdatesInit
  BY DEF Init
<1>2. CheckoutInv /\ [Next]_vars => [UpdatesNext]_updatesVars
  BY StepCheckout
<1>3. QED
  BY <1>1, <1>2, CheckoutInvariant, PTL DEF Spec, TicketsAreUsedAsAssumed, UpdatesSpec

\* ... so that all that the services promise by themselves they keep together.
THEOREM ServicesKeepTheirPromises ==
  Spec => /\ []AtMostOneBlocking
          /\ []AcknowledgedOrderHoldsClaim
          /\ []PaymentAgreesWithOrder
          /\ []ResolutionIsAsAsked
          /\ []AnswerIsProjected
          /\ ImplementsTicketSale
          /\ ImplementsOrderPayment
          /\ ImplementsTicketHistory
<1>1. Spec => UpdatesSpec
  BY TicketsUse DEF TicketsAreUsedAsAssumed
<1>2. QED
  BY <1>1, PaymentsAreUsedAsAssumed, OrdersKeepsItsPromises, DatabasesAgree,
     SettlementNeverRefused, PaymentRefinement, AnswersProjected, HistoryRefinement, PTL

-------------------------------------------------------------------------------
\* The price of a payment is the one it was made with, whatever is quoted since.
THEOREM PricesAreFinal == Spec => RecordedPriceIsFinal
<1>1. CheckoutInv /\ [Next]_vars
        => [\A o \in Orders : payment[o] # "None" => price'[o] = price[o] /\ price[o] # 0]_vars
  <2> SUFFICES ASSUME CheckoutInv, Next
               PROVE  \A o \in Orders : payment[o] # "None" => price'[o] = price[o] /\ price[o] # 0
    OBVIOUS
  <2>1. price \in [Orders -> Nat] /\ PricesInv
    BY DEF CheckoutInv, PricesInv
  <2>2. UNCHANGED price \/ \E o \in Orders : price' = [price EXCEPT ![o] = RecordedPrice(o)]
    BY ServicesCases, Zenon DEF TicketStep, OrderStep, QuoteOrder, PersistPrice, prices
  <2>3. QED
    BY <2>1, <2>2 DEF PricesInv, RecordedPrice
<1>2. QED
  BY <1>1, CheckoutInvariant, PTL DEF Spec, RecordedPriceIsFinal

\* An order that was answered and stands holds the claim, which no edit gets past.
LEMMA FrozenStep ==
  ASSUME CheckoutInv, Next, NEW o \in Orders, Answered(o), status[o] # "Canceled"
  PROVE  version' = version
<1>1. ReservationInv /\ HistoryInv /\ ViewsInv
  BY DEF CheckoutInv, SettlementInv, UpdatesInv
<1>2. PICK p \in Orders : create[p] \in {"startExpiry", "done"} /\ joined[p] = o
  BY DEF Answered
<1>3. wanted[p] = Ticket /\ claim[wanted[p]] = o
  BY <1>1, <1>2, TicketAssumption DEF ReservationInv, RowsInv, AcknowledgedOrderHoldsClaim
<1>4. reserved /\ version # 0
  <2>1. reserved
    BY <1>1, <1>3, NullAssumption DEF ViewsInv, Ticket
  <2>2. shown > 0
    BY <1>1, <1>2, OrderedIsShown DEF ReservationInv, JoinedInv
  <2>3. QED
    BY <1>1, <2>1, <2>2 DEF HistoryInv, UpdatesTypeOK, ProjectionIsHistory
<1>5. CASE TicketStep
  <2>1. UpdatesNext
    BY <1>5, Zenon DEF TicketStep, UpdatesNext
  <2>2. CASE \E acked \in BOOLEAN : PersistTicket(acked)
    BY <1>4, <2>2 DEF PersistTicket
  <2>3. CASE \E k \in Keys, acked \in BOOLEAN : PersistTicketUpdate(k, acked)
    BY <1>4, <2>3 DEF PersistTicketUpdate, Forbidden
  <2>4. CASE UNCHANGED version
    BY <2>4
  <2>5. QED
    BY <2>1, <2>2, <2>3, <2>4, UpdatesStepCases, Zenon
       DEF Reserve, Release, RequestUpdate, Lock, ProjectCreated, ProjectUpdate, source
<1>6. QED
  BY <1>5, ServicesSides DEF ticketVars

\* Once a buyer is told of an order, its ticket stays what it is until the order is
\* Canceled: nothing that Tickets has accepted before gets through.
THEOREM OrdersFreezeTickets == Spec => AnsweredOrderFreezesTicket
<1>1. CheckoutInv /\ [Next]_vars
        => [\A o \in Orders : Answered(o) /\ status[o] # "Canceled" => version' = version]_vars
  BY FrozenStep
<1>2. QED
  BY <1>1, CheckoutInvariant, PTL DEF Spec, AnsweredOrderFreezesTicket

\* A version that an answered order's quote leaves out is that of an update under way, or
\* of one that was refused.
LEMMA QuoteStep ==
  ASSUME UpdatesPerRun > 1, CheckoutInv, Next,
         NEW o \in Orders, Answered(o), quote'[o] # quote[o],
         NEW v \in quote'[o] + 1 .. version
  PROVE  \E k \in Keys : ledger[k] = v /\ update[k] \in {"persist", "project", "failed"}
<1>1. /\ shown \in Nat /\ version \in Nat /\ ledger \in [Keys -> Nat]
      /\ LedgerIsHistory /\ FlightInv /\ ReservationInv /\ ViewsInv
      /\ quote \in [Orders -> Nat]
  BY DEF CheckoutInv, UpdatesInv, HistoryInv, UpdatesTypeOK, SettlementInv, PricesInv
<1>2. shown > 0
  <2>1. PICK p \in Orders : create[p] \in {"startExpiry", "done"}
    BY DEF Answered
  <2>2. joined[p] \in Orders /\ status[joined[p]] # "None"
    BY <1>1, <2>1 DEF ReservationInv, JoinedInv
  <2>3. QED
    BY <1>1, <2>2, OrderedIsShown
<1>3. PICK p \in Orders : quote' = [quote EXCEPT ![p] = shown]
  BY ServicesCases, Zenon
     DEF TicketStep, OrderStep, QuoteOrder, PersistPrice, Quoted, prices
<1>4. v \in 2 .. version /\ v > shown
  BY <1>1, <1>2, <1>3
<1>5. PICK k \in Keys : ledger[k] = v
  BY <1>1, <1>4 DEF LedgerIsHistory
<1>6. QED
  BY <1>1, <1>2, <1>4, <1>5 DEF FlightInv, NextInv

\* An order that was answered is asked the price that its ticket has, but for edits under
\* way and one that was refused when it was tried again.
THEOREM QuotesAreCurrent ==
  ASSUME UpdatesPerRun > 1
  PROVE  Spec => QuoteIsCurrent
<1>1. CheckoutInv /\ [Next]_vars
        => [\A o \in Orders : Answered(o) /\ quote'[o] # quote[o] =>
              \A v \in quote'[o] + 1 .. version :
                \E k \in Keys : ledger[k] = v /\ update[k] \in {"persist", "project", "failed"}]_vars
  BY QuoteStep
<1>2. QED
  BY <1>1, CheckoutInvariant, PTL DEF Spec, QuoteIsCurrent
===============================================================================
