----------------------------- MODULE TicketUpdates -----------------------------
(***************************************************************************)
(* One ticket from its creation on: its row and its ledger of idempotent   *)
(* updates in the Tickets database, its projection in the Orders database, *)
(* and the two Temporal workflows of the Tickets service that write them   *)
(* (apps/tickets/internal/creation):                                       *)
(*                                                                         *)
(*   create-ticket/<key>      persist the row at version 1, project it     *)
(*   ticket-updates/<ticket>  long-lived: serve updates one at a time, each*)
(*                            persisted and then projected; continue as    *)
(*                            new after UpdatesPerRun completed ones       *)
(*                                                                         *)
(* Tickets do not interact, so one is enough.  A title and price are named *)
(* by the idempotency key of the update that set them, NULL standing for   *)
(* those of the creation; different keys carry different ones.  Only an    *)
(* order's claim meets the updates, and it is reduced to whether there is  *)
(* one.                                                                    *)
(***************************************************************************)
EXTENDS Naturals, Activities

CONSTANTS
  Keys,           \* idempotency keys of update requests
  ForeignKeys,    \* those of users who do not own the ticket
  UpdatesPerRun,  \* maxUpdatesPerWorkflow, 100 in the code
  EarlyEdits      \* may the ticket be edited before its creation has finished?

ASSUME KeysAssumption == ForeignKeys \subseteq Keys /\ NULL \notin Keys
ASSUME RunAssumption == UpdatesPerRun \in Nat \ {0}
ASSUME EditsAssumption == EarlyEdits \in BOOLEAN

VARIABLES
  \* The Tickets database:
  version,    \* tickets.aggregate_version, 0 while there is no row
  ledger,     \* key -> its version in ticket_update_operations, 0 if none
  reserved,   \* is tickets.reserved_by_order_id set?
  \* The projection in the Orders database:
  shown,      \* tickets.aggregate_version there, 0 while there is no row
  author,     \* the key whose title and price are shown
  \* The workflows:
  creation,   \* step of create-ticket
  update,     \* key -> step of its update in the current run of ticket-updates
  snapshot,   \* key -> the version that PersistTicketUpdate returned
  completed   \* completedUpdates of the current run

source == <<version, ledger, reserved>>
projection == <<shown, author>>
updates == <<update, snapshot, completed>>
updatesVars == <<source, projection, creation, updates>>

UpdatesTypeOK ==
  /\ version \in Nat
  /\ ledger \in [Keys -> Nat]
  /\ reserved \in BOOLEAN
  /\ shown \in Nat
  /\ author \in Keys \cup {NULL}
  /\ creation \in {"persist", "project", "done", "failed"}
  /\ update \in [Keys -> {"none", "queued", "persist", "project", "done", "failed"}]
  /\ snapshot \in [Keys -> Nat]
  /\ completed \in 0 .. UpdatesPerRun - 1

UpdatesInit ==
  /\ version = 0
  /\ ledger = [k \in Keys |-> 0]
  /\ reserved = FALSE
  /\ shown = 0
  /\ author = NULL
  /\ creation = "persist"
  /\ update = [k \in Keys |-> "none"]
  /\ snapshot = [k \in Keys |-> 0]
  /\ completed = 0

(***************************************************************************)
(* Orders' EnsureTicketProjection of version v with the content of key k.  *)
(***************************************************************************)
ApplicableAhead(v) == shown < v  \* Mutant: any newer version replaces the projection

\* The upsert inserts any version into an empty table and else only the next one.
Applicable(v) == shown = 0 \/ shown = v - 1

\* Mutant: a version too far ahead counts as projected.
ProjectWithGaps(v, k) ==
  \/ Applicable(v) /\ shown' = v /\ author' = k
  \/ shown # v - 1 /\ UNCHANGED projection

Project(v, k) ==
  \/ Applicable(v) /\ shown' = v /\ author' = k
  \/ shown = v /\ author = k /\ UNCHANGED projection

ConflictingReplay(v, k) == shown >= v  \* Mutant: the content is not compared

\* The version is behind the projection, or another content has it: AlreadyExists,
\* which is not retried.  (A version too far ahead is Unavailable and is retried:
\* no step.)
Conflicting(v, k) == ~Applicable(v) /\ (shown > v \/ (shown = v /\ author # k))

(***************************************************************************)
(* create-ticket                                                           *)
(***************************************************************************)
PersistTicket(acked) ==
  /\ creation = "persist"
  /\ version' = IF version = 0 THEN 1 ELSE version
  /\ creation' = IF acked THEN "project" ELSE creation
  /\ UNCHANGED <<ledger, reserved, projection, updates>>

\* A retried PersistTicket returned the creation's own content at version 1.
ProjectCreated(acked) ==
  /\ creation = "project"
  /\ \/ Project(1, NULL) /\ creation' = IF acked THEN "done" ELSE creation
     \/ Conflicting(1, NULL) /\ acked /\ creation' = "failed" /\ UNCHANGED projection
  /\ UNCHANGED <<source, updates>>

(***************************************************************************)
(* ticket-updates                                                          *)
(***************************************************************************)
\* PUT /tickets/:id.  Temporal answers a key that this run has seen with that
\* update's own result: no step.
RequestUpdate(k) ==
  /\ version > 0
  /\ EarlyEdits \/ creation = "done"
  /\ update[k] = "none"
  /\ update' = [update EXCEPT ![k] = "queued"]
  /\ UNCHANGED <<source, projection, creation, snapshot, completed>>

\* Mutant: an update that succeeds keeps the mutex.
LockedForGood == \E k \in Keys : update[k] \in {"persist", "project", "done"}

Locked == \E k \in Keys : update[k] \in {"persist", "project"}

Lock(k) ==
  /\ update[k] = "queued"
  /\ ~Locked
  /\ update' = [update EXCEPT ![k] = "persist"]
  /\ UNCHANGED <<source, projection, creation, snapshot, completed>>

ForbiddenToStrangers(k) == k \in ForeignKeys  \* Mutant: the claim is not looked at
Forbidden(k) == k \in ForeignKeys \/ reserved

\* Mutant: a key of the ledger makes another version.
ApplyUpdateAgain(k) == version' = version + 1 /\ ledger' = [ledger EXCEPT ![k] = version + 1]

\* UpdateWithIdempotency, one transaction: the claim is looked at before the
\* ledger; a key of the ledger returns its snapshot; a new one makes a version.
ApplyUpdate(k) ==
  IF ledger[k] # 0 THEN UNCHANGED <<version, ledger>>
  ELSE version' = version + 1 /\ ledger' = [ledger EXCEPT ![k] = version + 1]

PersistTicketUpdate(k, acked) ==
  /\ update[k] = "persist"
  /\ \/ /\ Forbidden(k) /\ acked
        /\ update' = [update EXCEPT ![k] = "failed"]
        /\ UNCHANGED <<version, ledger, snapshot>>
     \/ /\ ~Forbidden(k)
        /\ ApplyUpdate(k)
        /\ update' = IF acked THEN [update EXCEPT ![k] = "project"] ELSE update
        /\ snapshot' = IF acked THEN [snapshot EXCEPT ![k] = ledger'[k]] ELSE snapshot
  /\ UNCHANGED <<reserved, projection, creation, completed>>

\* The handler returns and counts.  The one that reaches the limit ends the run in
\* the same workflow task: queued updates are dropped (their callers are told to
\* retry), and what the run remembers of its keys is gone.
FinishUpdate(k) ==
  IF completed + 1 < UpdatesPerRun
  THEN /\ update' = [update EXCEPT ![k] = "done"]
       /\ completed' = completed + 1
       /\ UNCHANGED snapshot
  ELSE /\ update' = [j \in Keys |-> "none"]
       /\ completed' = 0
       /\ snapshot' = [j \in Keys |-> 0]

ProjectUpdate(k, acked) ==
  /\ update[k] = "project"
  /\ \/ /\ Project(snapshot[k], k)
        /\ IF acked THEN FinishUpdate(k) ELSE UNCHANGED updates
     \/ /\ Conflicting(snapshot[k], k) /\ acked
        /\ update' = [update EXCEPT ![k] = "failed"]
        /\ UNCHANGED <<projection, snapshot, completed>>
  /\ UNCHANGED <<source, creation>>

(***************************************************************************)
(* Orders that come and go (OrderReservation): only a projected ticket can *)
(* be ordered.                                                             *)
(***************************************************************************)
Reserve ==
  /\ shown > 0 /\ ~reserved
  /\ reserved' = TRUE
  /\ UNCHANGED <<version, ledger, projection, creation, updates>>

Release ==
  /\ reserved
  /\ reserved' = FALSE
  /\ UNCHANGED <<version, ledger, projection, creation, updates>>

-------------------------------------------------------------------------------
\* The steps of the Tickets service by itself.
WorkflowStep ==
  \/ \E k \in Keys : RequestUpdate(k) \/ Lock(k)
  \/ \E acked \in Attempts :
       \/ PersistTicket(acked) \/ ProjectCreated(acked)
       \/ \E k \in Keys : PersistTicketUpdate(k, acked) \/ ProjectUpdate(k, acked)

UpdatesNext == Reserve \/ Release \/ WorkflowStep

UpdatesSpec == UpdatesInit /\ [][UpdatesNext]_updatesVars

\* Temporal runs both workflows: activities are retried until a result comes back,
\* and a free mutex is given to some waiting handler.
UpdatesFairness ==
  /\ WF_updatesVars(PersistTicket(TRUE) \/ ProjectCreated(TRUE))
  /\ WF_updatesVars(\E k \in Keys : Lock(k))
  /\ \A k \in Keys : WF_updatesVars(PersistTicketUpdate(k, TRUE) \/ ProjectUpdate(k, TRUE))

FairUpdatesSpec == UpdatesSpec /\ UpdatesFairness

-------------------------------------------------------------------------------
\* The ledger is the ticket's history: every version after the first was made by
\* exactly one key, whatever was retried or replayed.
LedgerIsHistory ==
  /\ \A k \in Keys : ledger[k] # 0 => ledger[k] \in 2 .. version
  /\ \A v \in 2 .. version : \E k \in Keys : ledger[k] = v
  /\ \A j, k \in Keys : ledger[j] = ledger[k] /\ ledger[j] # 0 => j = k

\* Orders shows a title and price that the ticket had, at the version it had them.
ProjectionIsHistory ==
  /\ shown <= version
  /\ shown > 1 => author \in Keys /\ ledger[author] = shown
  /\ shown = 1 => author = NULL

\* A success is answered only of what Orders has: of an update its version or a
\* later one, of a creation the ticket.  It stays true however long the run goes on
\* giving it to repetitions of the key, which look neither at the claim nor at the
\* ledger.
AnswerIsProjected ==
  /\ \A k \in Keys : update[k] = "done" => ledger[k] # 0 /\ ledger[k] <= shown
  /\ creation = "done" => shown > 0

\* The handlers under way know the version that their keys made.
HandlersInv ==
  /\ \A k \in Keys : update[k] = "project" => ledger[k] # 0 /\ snapshot[k] = ledger[k]
  /\ version = 0 => creation = "persist" /\ \A k \in Keys : update[k] = "none"

\* One history in both databases, with results lost, keys replayed and versions
\* projected out of turn.
HistoryInv ==
  /\ UpdatesTypeOK
  /\ LedgerIsHistory
  /\ ProjectionIsHistory
  /\ HandlersInv

\* Before Orders has the ticket nothing is refused, so the first version made waits for
\* its handler ...
FirstInv ==
  /\ \A k \in ForeignKeys : ledger[k] = 0
  /\ shown = 0 =>
       /\ ~reserved /\ creation \in {"persist", "project"}
       /\ \A k \in Keys : ledger[k] # 0 => update[k] \in {"persist", "project"}
\* ... one handler at a time has the mutex ...
MutexInv ==
  \A j, k \in Keys :
    update[j] \in {"persist", "project"} /\ update[k] \in {"persist", "project"} => j = k
\* ... a version that Orders lacks is the last one, with its handler under way, or its
\* handler was refused in this run ...
NextInv ==
  \A k \in Keys : shown > 0 /\ ledger[k] > shown =>
    update[k] = "failed" \/ (update[k] \in {"persist", "project"} /\ version = ledger[k])
\* ... and a run that has counted an update before it remembers those since, so that
\* it is not ended by the repetition of a key behind a refused one.
RunInv ==
  /\ completed > 0 => \E k \in Keys : update[k] = "done"
  /\ \A j, k \in Keys :
       update[j] = "done" /\ ledger[j] < shown /\ ledger[k] = shown =>
         update[k] = "done" \/ (update[k] = "project" /\ version = shown)
FlightInv == FirstInv /\ MutexInv /\ NextInv /\ RunInv

\* The inductive invariant of the proofs.  A run of a single update would be ended by
\* such a repetition.
UpdatesInv == HistoryInv /\ AnswerIsProjected /\ (UpdatesPerRun > 1 => FlightInv)

\* "The persistence activity atomically records the key and increments the
\* version, then the projection activity applies that exact next version": a
\* version that Orders lacks is in the hands of a workflow that will project it.
MissingVersionIsInFlight ==
  shown < version =>
    \/ creation \in {"persist", "project"}
    \/ \E k \in Keys : update[k] \in {"persist", "project"} /\ ledger[k] = shown + 1

\* An update that made the next version Orders lacks, and was refused when it was
\* tried again.
Dropped(k) == update[k] = "failed" /\ ledger[k] = shown + 1

\* With claims and lost results: the next version that Orders lacks is in flight, or
\* was made by a refused update of this run.  No other way loses a version.
MissingVersionIsKnown ==
  MissingVersionIsInFlight \/ \E k \in Keys : Dropped(k)

\* An accepted update comes to a result: the mutex is held for good only behind a
\* version that a refusal dropped.
UpdateIsAnswered ==
  \A k \in Keys :
    update[k] = "queued" ~> update[k] \in {"done", "failed", "none"} \/ \E j \in Keys : Dropped(j)

\* "A ticket already written is retained; projection resumes after a transient
\* Orders outage.  This is eventual completion": every creation comes to success,
\* except one that an edit has overtaken, and then Orders shows the edit.
CreationCompletes == <>(creation = "done" \/ (creation = "failed" /\ shown > 1))

\* Tickets and Orders together keep one history of the ticket.
History == INSTANCE TicketHistory WITH
             contents <- [v \in 1 .. version |->
                            IF v = 1 THEN NULL ELSE CHOOSE k \in Keys : ledger[k] = v],
             shown    <- shown
ImplementsTicketHistory == History!Spec
===============================================================================
