-------------------------------- MODULE Checkout --------------------------------
(***************************************************************************)
(* The three services around one ticket: its edits (TicketUpdates), its    *)
(* orders and their payments (PaymentSettlement, on OrderReservation), and *)
(* what only exists where they meet: the price that a buyer pays.          *)
(*                                                                         *)
(* The services share two things.  The claim, in the Tickets database,     *)
(* forbids edits while an order has it.  The projection, in the Orders     *)
(* database, is what orders look at: a ticket without one cannot be        *)
(* ordered, and StartPayment takes the price from it.  Either side has its *)
(* own view of both (of claim, Tickets' reserved; of Tickets' shown,       *)
(* projected), and Views keeps the two together.  A price is named by the  *)
(* version that set it.                                                    *)
(***************************************************************************)
EXTENDS TicketUpdates, PaymentSettlement

\* Tickets has the one ticket of TicketUpdates.
Ticket == CHOOSE t \in Tickets : TRUE
ASSUME TicketAssumption == Tickets = {Ticket}

VARIABLES
  quote,      \* order -> version whose price StartPayment returned last, 0 if none
  price       \* order -> that of orders.price in the Payments database, 0 if none

\* The variables of Tickets and of Orders and Payments, without their views of each other.
ticketVars == <<version, ledger, projection, creation, updates>>
orderVars == <<rows, claim, flows, payments, checked, checkout, workers>>
views == <<reserved, projected>>
prices == <<quote, price>>
vars == <<ticketVars, orderVars, views, prices>>

Init ==
  /\ UpdatesInit
  /\ PaymentsInit
  /\ quote = [o \in Orders |-> 0]
  /\ price = [o \in Orders |-> 0]

\* StartPayment joins the order with the projection for its price.
Quoted == shown

\* The activity calls StartPayment, which returns a quote unless it refuses.  (The
\* quote of an attempt whose result is lost was returned, too.)
QuoteOrder(o, acked) ==
  /\ UNCHANGED <<ticketVars, price>>
  /\ StartOrderPayment(o, acked)
  /\ quote' = IF status'[o] = "AwaitingPayment" THEN [quote EXCEPT ![o] = Quoted] ELSE quote

\* Mutant: ON CONFLICT DO UPDATE.
RecordedPriceAnew(o) == quote[o]

\* The order snapshot is inserted with the payment, ON CONFLICT DO NOTHING.
RecordedPrice(o) == IF price[o] = 0 THEN quote[o] ELSE price[o]

PersistPrice(o, acked) ==
  /\ UNCHANGED <<ticketVars, quote>>
  /\ PersistPayment(o, acked)
  /\ price' = [price EXCEPT ![o] = RecordedPrice(o)]

\* The other steps of Orders and Payments ...
OrderStep ==
  /\ UNCHANGED <<ticketVars, prices>>
  /\ \/ OrdersStep \/ Settlement
     \/ \E o \in Orders : CreatePayment(o) \/ StartCheckout(o)

\* ... and those of Tickets, which make the projection that Orders waits for.
TicketStep ==
  /\ UNCHANGED <<orderVars, prices>>
  /\ WorkflowStep

\* A claim is seen by Tickets as Orders' call makes it, and a projection by Orders as
\* Tickets' call makes it.
Views ==
  /\ reserved' = (claim'[Ticket] # NULL)
  /\ projected' = IF shown' > 0 THEN Tickets ELSE {}

Next ==
  /\ \/ OrderStep
     \/ TicketStep
     \/ \E o \in Orders, acked \in Attempts : QuoteOrder(o, acked) \/ PersistPrice(o, acked)
  /\ Views

Spec == Init /\ [][Next]_vars

-------------------------------------------------------------------------------
\* Order o was answered as created, to its buyer's first or a later request.
Answered(o) ==
  \E p \in Orders : create[p] \in {"startExpiry", "done"} /\ joined[p] = o

\* Once an order is answered, nothing changes the ticket until the order is
\* Canceled: not an edit that was accepted before the claim, not its retry, not the
\* replay of an old key.
AnsweredOrderFreezesTicket ==
  [][\A o \in Orders : Answered(o) /\ status[o] # "Canceled" => version' = version]_vars

\* An answered order is quoted the price that its ticket has, unless an update is under
\* way, or one was refused on its retry: every version made since the quoted one is
\* that of such an update.
QuoteIsCurrent ==
  [][\A o \in Orders : Answered(o) /\ quote'[o] # quote[o] =>
       \A v \in quote'[o] + 1 .. version :
         \E k \in Keys : ledger[k] = v /\ update[k] \in {"persist", "project", "failed"}]_vars

\* "Replaying CreatePayment returns the original payment": the price of a payment
\* is fixed when it is made, though a projection that lands during checkout makes a
\* replay of StartPayment return another one.
RecordedPriceIsFinal ==
  [][\A o \in Orders : payment[o] # "None" => price'[o] = price[o] /\ price[o] # 0]_vars

\* The inductive invariant of the proofs: those of the parts; both sides see what they
\* share ...
ViewsInv ==
  /\ reserved = (claim[Ticket] # NULL)
  /\ projected = IF shown > 0 THEN Tickets ELSE {}
\* ... and no payment is made before its order has been quoted a price.
PricesInv ==
  /\ {quote, price} \subseteq [Orders -> Nat]
  /\ \A o \in Orders :
       /\ checkout[o] = "persist" => quote[o] # 0
       /\ payment[o] # "None" => price[o] # 0
CheckoutInv == UpdatesInv /\ SettlementInv /\ ViewsInv /\ PricesInv

\* Orders uses Tickets as TicketUpdates assumes: only a ticket that Orders shows is
\* claimed, and a claim is gone before another one is made.
TicketsAreUsedAsAssumed == UpdatesSpec
===============================================================================
