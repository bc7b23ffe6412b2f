------------------------------ MODULE TicketSale ------------------------------
(***************************************************************************)
(* What the ticketing system promises about the sale of tickets, with      *)
(* nothing said of databases, workflows or payments: a ticket is held for  *)
(* at most one order at a time, a hold ends in a sale or is dropped, and   *)
(* neither a sale nor a drop is ever undone.  OrderReservation implements  *)
(* this specification.                                                     *)
(***************************************************************************)
CONSTANTS
  Tickets,   \* tickets offered for sale
  Orders     \* order IDs

VARIABLES
  held,      \* pairs <<ticket, order>> of open orders
  sold,      \* pairs <<ticket, order>> of completed orders
  dropped    \* pairs <<ticket, order>> of canceled orders

vars == <<held, sold, dropped>>

Taken(t) == \E o \in Orders : <<t, o>> \in held \cup sold

Init ==
  /\ held = {}
  /\ sold = {}
  /\ dropped = {}

Hold(t, o) ==
  /\ ~Taken(t)
  /\ <<t, o>> \notin dropped
  /\ held' = held \cup {<<t, o>>}
  /\ UNCHANGED <<sold, dropped>>

Drop(t, o) ==
  /\ <<t, o>> \in held
  /\ held' = held \ {<<t, o>>}
  /\ dropped' = dropped \cup {<<t, o>>}
  /\ UNCHANGED sold

Sell(t, o) ==
  /\ <<t, o>> \in held
  /\ held' = held \ {<<t, o>>}
  /\ sold' = sold \cup {<<t, o>>}
  /\ UNCHANGED dropped

Next == \E t \in Tickets, o \in Orders : Hold(t, o) \/ Drop(t, o) \/ Sell(t, o)

Spec == Init /\ [][Next]_vars
===============================================================================
