----------------------------- MODULE TicketHistory -----------------------------
(***************************************************************************)
(* What a ticket's edits promise, with nothing said of databases, retries  *)
(* or workflows: its contents follow each other in one order, each edit    *)
(* enters it once, and the market shows contents of that history at their  *)
(* own place, never going back and, once it shows any, never leaving one   *)
(* out.  TicketUpdates implements this specification.                      *)
(***************************************************************************)
EXTENDS Naturals, Sequences

CONSTANTS
  Keys,   \* edits, by their idempotency keys
  NULL    \* the content that the ticket was created with

VARIABLES
  contents,  \* the ticket's contents so far, named by the edits that set them
  shown,     \* how many of them the market has seen, 0 before the first
  author     \* the content that it shows

vars == <<contents, shown, author>>

Init ==
  /\ contents = <<>>
  /\ shown = 0
  /\ author = NULL

Create ==
  /\ contents = <<>>
  /\ contents' = <<NULL>>
  /\ UNCHANGED <<shown, author>>

Edit(k) ==
  /\ contents # <<>>
  /\ \A v \in DOMAIN contents : contents[v] # k
  /\ contents' = Append(contents, k)
  /\ UNCHANGED <<shown, author>>

Show(v) ==
  /\ v = shown + 1 \/ shown = 0
  /\ shown' = v
  /\ author' = contents[v]
  /\ UNCHANGED contents

Next ==
  \/ Create
  \/ \E k \in Keys : Edit(k)
  \/ \E v \in DOMAIN contents : Show(v)

Spec == Init /\ [][Next]_vars
===============================================================================
