------------------------- MODULE TicketUpdatesProofs -------------------------
(***************************************************************************)
(* Proofs about TicketUpdates, for any keys and any length of a run and    *)
(* with every fault switched on or off.                                    *)
(***************************************************************************)
EXTENDS TicketUpdates, Sequences, TLAPS

\* Every step, by the action that takes it: the shape of the proofs below.
LEMMA UpdatesStepCases ==
  ASSUME UpdatesNext
  PROVE  \/ Reserve
         \/ Release
         \/ \E k \in Keys : RequestUpdate(k)
         \/ \E k \in Keys : Lock(k)
         \/ \E acked \in BOOLEAN : PersistTicket(acked)
         \/ \E acked \in BOOLEAN : ProjectCreated(acked)
         \/ \E k \in Keys, acked \in BOOLEAN : PersistTicketUpdate(k, acked)
         \/ \E k \in Keys, acked \in BOOLEAN : ProjectUpdate(k, acked)
<1>1. Attempts \subseteq BOOLEAN
  BY DEF Attempts
<1>2. QED
  BY <1>1, Zenon DEF UpdatesNext, WorkflowStep

\* Whatever ends an update keeps the types, the end of a run included.
LEMMA FinishType ==
  ASSUME UpdatesTypeOK, NEW k \in Keys, FinishUpdate(k)
  PROVE  /\ update' \in [Keys -> {"none", "queued", "persist", "project", "done", "failed"}]
         /\ snapshot' \in [Keys -> Nat]
         /\ completed' \in 0 .. UpdatesPerRun - 1
BY RunAssumption DEF UpdatesTypeOK, FinishUpdate

\* Versions stay numbers and every handler is at one of its steps.
LEMMA NextUpdatesType ==
  ASSUME UpdatesTypeOK, [UpdatesNext]_updatesVars
  PROVE  UpdatesTypeOK'
<1> USE RunAssumption DEF UpdatesTypeOK, source, projection, updates
<1>1. CASE UNCHANGED updatesVars
  BY <1>1 DEF updatesVars
<1>2. CASE Reserve \/ Release
  BY <1>2 DEF Reserve, Release
<1>3. CASE \E k \in Keys : RequestUpdate(k) \/ Lock(k)
  BY <1>3 DEF RequestUpdate, Lock
<1>4. CASE \E acked \in BOOLEAN : PersistTicket(acked)
  BY <1>4 DEF PersistTicket
<1>5. CASE \E acked \in BOOLEAN : ProjectCreated(acked)
  BY <1>5 DEF ProjectCreated, Project
<1>6. CASE \E k \in Keys, acked \in BOOLEAN : PersistTicketUpdate(k, acked)
  BY <1>6 DEF PersistTicketUpdate, ApplyUpdate
<1>7. ASSUME NEW k \in Keys, NEW acked \in BOOLEAN, ProjectUpdate(k, acked)
      PROVE  UpdatesTypeOK'
  <2>1. /\ update' \in [Keys -> {"none", "queued", "persist", "project", "done", "failed"}]
        /\ snapshot' \in [Keys -> Nat]
        /\ completed' \in 0 .. UpdatesPerRun - 1
    BY <1>7, FinishType DEF ProjectUpdate
  <2>2. shown' \in Nat /\ author' \in Keys \cup {NULL}
    BY <1>7 DEF ProjectUpdate, Project
  <2>3. QED
    BY <1>7, <2>1, <2>2 DEF ProjectUpdate
<1>8. QED
  BY <1>1, <1>2, <1>3, <1>4, <1>5, <1>6, <1>7, UpdatesStepCases, Zenon

-------------------------------------------------------------------------------
\* Orders is only given versions that Tickets has, with the content they had, and a
\* version that is given stays what it was.
LEMMA ProjectionStep ==
  ASSUME HistoryInv, NEW v \in 1 .. version, NEW k \in Keys \cup {NULL}, Project(v, k),
         v = 1 => k = NULL,
         v > 1 => k \in Keys /\ ledger[k] = v
  PROVE  /\ shown' \in v .. version
         /\ shown' > 1 => author' \in Keys /\ ledger[author'] = shown'
         /\ shown' = 1 => author' = NULL
         /\ shown' # shown => shown' = v /\ author' = k
BY DEF HistoryInv, UpdatesTypeOK, ProjectionIsHistory, Project, Applicable, projection

\* Before the ticket is created there is no history.
LEMMA InitHistory == UpdatesInit => HistoryInv
<1> SUFFICES ASSUME UpdatesInit PROVE HistoryInv
  OBVIOUS
<1>1. UpdatesTypeOK
  <2>1. completed \in 0 .. UpdatesPerRun - 1
    BY RunAssumption DEF UpdatesInit
  <2>2. update \in [Keys -> {"none", "queued", "persist", "project", "done", "failed"}]
    BY DEF UpdatesInit
  <2>3. ledger \in [Keys -> Nat] /\ snapshot \in [Keys -> Nat]
    BY DEF UpdatesInit
  <2>4. version \in Nat /\ reserved \in BOOLEAN /\ shown \in Nat
    BY DEF UpdatesInit
  <2>5. author \in Keys \cup {NULL} /\ creation \in {"persist", "project", "done", "failed"}
    BY DEF UpdatesInit
  <2>6. QED
    BY <2>1, <2>2, <2>3, <2>4, <2>5 DEF UpdatesTypeOK
<1>2. LedgerIsHistory /\ ProjectionIsHistory
  BY DEF UpdatesInit, LedgerIsHistory, ProjectionIsHistory
<1>3. HandlersInv
  BY DEF UpdatesInit, HandlersInv
<1>4. QED
  BY <1>1, <1>2, <1>3 DEF HistoryInv

\* A transaction of PersistTicketUpdate makes the next version, or none.
LEMMA LedgerStep ==
  ASSUME HistoryInv, NEW k \in Keys, version > 0, ApplyUpdate(k)
  PROVE  /\ LedgerIsHistory'
         /\ ledger'[k] # 0
         /\ version' >= version
         /\ \A j \in Keys : ledger[j] # 0 => ledger'[j] = ledger[j]
<1> USE DEF HistoryInv, UpdatesTypeOK, LedgerIsHistory
<1>1. CASE ledger[k] # 0
  BY <1>1 DEF ApplyUpdate
<1>2. CASE ledger[k] = 0
  <2>1. version' = version + 1 /\ ledger' = [ledger EXCEPT ![k] = version + 1]
    BY <1>2 DEF ApplyUpdate
  <2>2. \A v \in 2 .. version' : \E j \in Keys : ledger'[j] = v
    <3>1. TAKE v \in 2 .. version'
    <3>2. CASE v = version + 1
      BY <2>1, <3>2
    <3>3. CASE v # version + 1
      <4>1. PICK j \in Keys : ledger[j] = v
        BY <2>1, <3>3
      <4>2. ledger'[j] = v
        BY <1>2, <2>1, <4>1
      <4>3. QED
        BY <4>2
    <3>4. QED
      BY <3>2, <3>3
  <2>3. QED
    BY <1>2, <2>1, <2>2
<1>3. QED
  BY <1>1, <1>2

\* The invariant is kept by every step.
LEMMA NextHistory ==
  ASSUME HistoryInv, [UpdatesNext]_updatesVars
  PROVE  HistoryInv'
<1>1. UpdatesTypeOK'
  BY NextUpdatesType DEF HistoryInv
<1> USE DEF HistoryInv, UpdatesTypeOK, source, projection, updates
<1>2. CASE UNCHANGED updatesVars
  BY <1>1, <1>2 DEF updatesVars, LedgerIsHistory, ProjectionIsHistory, HandlersInv
<1>3. CASE Reserve \/ Release
  BY <1>1, <1>3 DEF Reserve, Release, LedgerIsHistory, ProjectionIsHistory, HandlersInv
<1>4. CASE \E k \in Keys : RequestUpdate(k) \/ Lock(k)
  BY <1>1, <1>4 DEF RequestUpdate, Lock, LedgerIsHistory, ProjectionIsHistory, HandlersInv
<1>5. CASE \E acked \in BOOLEAN : PersistTicket(acked)
  BY <1>1, <1>5 DEF PersistTicket, LedgerIsHistory, ProjectionIsHistory, HandlersInv
<1>6. ASSUME NEW acked \in BOOLEAN, ProjectCreated(acked)
      PROVE  HistoryInv'
  <2>1. UNCHANGED <<source, updates>> /\ version > 0 /\ creation' # "persist"
    BY <1>6 DEF ProjectCreated, HandlersInv
  <2>2. ProjectionIsHistory'
    <3>1. CASE Project(1, NULL)
      BY <2>1, <3>1, ProjectionStep DEF ProjectionIsHistory
    <3>2. CASE UNCHANGED projection
      BY <2>1, <3>2 DEF ProjectionIsHistory
    <3>3. QED
      BY <1>6, <3>1, <3>2 DEF ProjectCreated
  <2>3. QED
    BY <1>1, <2>1, <2>2 DEF LedgerIsHistory, HandlersInv
<1>7. ASSUME NEW k \in Keys, NEW acked \in BOOLEAN, PersistTicketUpdate(k, acked)
      PROVE  HistoryInv'
  <2>1. version > 0
    BY <1>7 DEF PersistTicketUpdate, HandlersInv
  <2>2. CASE UNCHANGED <<version, ledger, snapshot>> /\ update' = [update EXCEPT ![k] = "failed"]
    BY <1>1, <1>7, <2>1, <2>2
       DEF PersistTicketUpdate, LedgerIsHistory, ProjectionIsHistory, HandlersInv
  <2>3. CASE ApplyUpdate(k)
    <3>1. /\ LedgerIsHistory'
          /\ ledger'[k] # 0
          /\ version' >= version
          /\ \A j \in Keys : ledger[j] # 0 => ledger'[j] = ledger[j]
      BY <2>1, <2>3, LedgerStep
    <3>2. ProjectionIsHistory'
      BY <1>1, <1>7, <3>1 DEF PersistTicketUpdate, ProjectionIsHistory
    <3>3. CASE UNCHANGED <<update, snapshot>>
      BY <1>1, <2>1, <3>1, <3>2, <3>3 DEF HandlersInv
    <3>4. CASE /\ update' = [update EXCEPT ![k] = "project"]
               /\ snapshot' = [snapshot EXCEPT ![k] = ledger'[k]]
      BY <1>1, <2>1, <3>1, <3>2, <3>4 DEF HandlersInv
    <3>5. QED
      BY <1>7, <2>2, <3>3, <3>4 DEF PersistTicketUpdate
  <2>4. QED
    BY <1>7, <2>2, <2>3 DEF PersistTicketUpdate
<1>8. ASSUME NEW k \in Keys, NEW acked \in BOOLEAN, ProjectUpdate(k, acked)
      PROVE  HistoryInv'
  <2>1. /\ UNCHANGED <<source, creation>>
        /\ update[k] = "project" /\ snapshot[k] = ledger[k] /\ ledger[k] \in 2 .. version
    BY <1>8 DEF ProjectUpdate, HandlersInv, LedgerIsHistory
  <2>2. ProjectionIsHistory'
    <3>1. CASE Project(snapshot[k], k)
      BY <2>1, <3>1, ProjectionStep DEF ProjectionIsHistory
    <3>2. CASE UNCHANGED projection
      BY <2>1, <3>2 DEF ProjectionIsHistory
    <3>3. QED
      BY <1>8, <3>1, <3>2 DEF ProjectUpdate
  <2>3. \A j \in Keys : update'[j] = "project" => update[j] = "project" /\ UNCHANGED snapshot
    BY <1>8 DEF ProjectUpdate, FinishUpdate
  <2>4. QED
    BY <1>1, <2>1, <2>2, <2>3 DEF LedgerIsHistory, HandlersInv
<1>9. QED
  BY <1>2, <1>3, <1>4, <1>5, <1>6, <1>7, <1>8, UpdatesStepCases, Zenon

\* Both databases keep one history of the ticket, whatever was lost or replayed.
THEOREM HistoryInvariant == UpdatesSpec => []HistoryInv
<1>1. UpdatesInit => HistoryInv
  BY InitHistory
<1>2. HistoryInv /\ [UpdatesNext]_updatesVars => HistoryInv'
  BY NextHistory
<1>3. QED
  BY <1>1, <1>2, PTL DEF UpdatesSpec

-------------------------------------------------------------------------------
\* A version that Orders shows is not taken back: the projection only goes on.
LEMMA ProjectionGrows ==
  ASSUME HistoryInv, [UpdatesNext]_updatesVars
  PROVE  shown' >= shown /\ version' >= version
<1> USE DEF HistoryInv, UpdatesTypeOK, source, projection, updates
<1>1. \A v \in Nat, k \in Keys \cup {NULL} : Project(v, k) /\ v > 0 => shown' >= shown
  BY DEF Project, Applicable
<1>2. CASE \E acked \in BOOLEAN : ProjectCreated(acked)
  BY <1>1, <1>2 DEF ProjectCreated
<1>3. CASE \E k \in Keys, acked \in BOOLEAN : ProjectUpdate(k, acked)
  BY <1>1, <1>3 DEF ProjectUpdate, HandlersInv
<1>4. CASE \E acked \in BOOLEAN : PersistTicket(acked)
  BY <1>4 DEF PersistTicket
<1>5. CASE \E k \in Keys, acked \in BOOLEAN : PersistTicketUpdate(k, acked)
  BY <1>5 DEF PersistTicketUpdate, ApplyUpdate
<1>6. CASE UNCHANGED <<version, shown>>
  BY <1>6
<1>7. CASE UNCHANGED updatesVars
  BY <1>6, <1>7 DEF updatesVars
<1>8. QED
  BY <1>2, <1>3, <1>4, <1>5, <1>6, <1>7, UpdatesStepCases, Zenon
     DEF Reserve, Release, RequestUpdate, Lock, source, projection

\* A success is answered after the projection, which is not taken back.
LEMMA NextAnswer ==
  ASSUME HistoryInv, AnswerIsProjected, [UpdatesNext]_updatesVars
  PROVE  AnswerIsProjected'
<1> USE DEF HistoryInv, UpdatesTypeOK, source, projection, updates
<1>1. shown' >= shown /\ shown' \in Nat
  BY ProjectionGrows, NextUpdatesType
<1>2. CASE UNCHANGED <<ledger, update, creation>>
  BY <1>1, <1>2 DEF AnswerIsProjected
<1>3. CASE \E k \in Keys : RequestUpdate(k) \/ Lock(k)
  BY <1>1, <1>3 DEF RequestUpdate, Lock, AnswerIsProjected
<1>4. CASE \E acked \in BOOLEAN : PersistTicket(acked)
  BY <1>1, <1>4 DEF PersistTicket, AnswerIsProjected
<1>5. CASE \E acked \in BOOLEAN : ProjectCreated(acked)
  BY <1>1, <1>5 DEF ProjectCreated, Project, AnswerIsProjected
<1>6. ASSUME NEW k \in Keys, NEW acked \in BOOLEAN, PersistTicketUpdate(k, acked)
      PROVE  AnswerIsProjected'
  BY <1>1, <1>6 DEF PersistTicketUpdate, ApplyUpdate, AnswerIsProjected
<1>7. ASSUME NEW k \in Keys, NEW acked \in BOOLEAN, ProjectUpdate(k, acked)
      PROVE  AnswerIsProjected'
  <2>1. UNCHANGED <<ledger, creation>> /\ ledger[k] # 0 /\ snapshot[k] = ledger[k]
    BY <1>7 DEF ProjectUpdate, HandlersInv
  <2>2. \A j \in Keys : update'[j] = "done" =>
          update[j] = "done" \/ (j = k /\ Project(snapshot[k], k))
    BY <1>7 DEF ProjectUpdate, FinishUpdate
  <2>3. Project(snapshot[k], k) => shown' = snapshot[k]
    BY DEF Project
  <2>4. QED
    BY <1>1, <2>1, <2>2, <2>3 DEF AnswerIsProjected
<1>8. CASE UNCHANGED updatesVars
  BY <1>2, <1>8 DEF updatesVars
<1>9. QED
  BY <1>2, <1>3, <1>4, <1>5, <1>6, <1>7, <1>8, UpdatesStepCases, Zenon DEF Reserve, Release

\* Who was told of a success finds it in Orders, then and ever after.
THEOREM AnswersProjected == UpdatesSpec => []AnswerIsProjected
<1>1. UpdatesInit => AnswerIsProjected
  BY DEF UpdatesInit, AnswerIsProjected
<1>2. HistoryInv /\ AnswerIsProjected /\ [UpdatesNext]_updatesVars => AnswerIsProjected'
  BY NextAnswer
<1>3. QED
  BY <1>1, <1>2, HistoryInvariant, PTL DEF UpdatesSpec

-------------------------------------------------------------------------------
\* With runs of more than one update.  No workflow has a version in hand before the first
\* projection but the one it is waiting for.
LEMMA FirstIsAlone ==
  ASSUME HistoryInv, FirstInv, MutexInv, shown = 0, NEW k \in Keys, ledger[k] # 0
  PROVE  ledger[k] = 2 /\ version = 2 /\ update[k] \in {"persist", "project"}
<1> USE DEF HistoryInv, UpdatesTypeOK
<1>1. \A j \in Keys : ledger[j] # 0 => j = k
  BY DEF FirstInv, MutexInv
<1>2. ledger[k] \in 2 .. version
  BY DEF LedgerIsHistory
<1>3. \A v \in 2 .. version : v = ledger[k]
  BY <1>1 DEF LedgerIsHistory
<1>4. 2 \in 2 .. version /\ version \in 2 .. version
  BY <1>2
<1>5. QED
  BY <1>3, <1>4 DEF FirstInv

\* A version that enters the projection is the last one.
LEMMA ProjectedIsLast ==
  ASSUME HistoryInv, FirstInv, MutexInv, NextInv, NEW k \in Keys, update[k] = "project",
         Project(snapshot[k], k)
  PROVE  /\ shown' = ledger[k] /\ ledger[k] \in 2 .. version
         /\ version = ledger[k] \/ (shown = ledger[k] /\ UNCHANGED projection)
<1> USE DEF HistoryInv, UpdatesTypeOK
<1>1. snapshot[k] = ledger[k] /\ ledger[k] \in 2 .. version
  BY DEF HandlersInv, LedgerIsHistory
<1>2. CASE shown = 0
  BY <1>1, <1>2, FirstIsAlone DEF Project
<1>3. CASE shown # 0 /\ shown = ledger[k] - 1
  <2>1. ledger[k] = shown + 1 /\ shown > 0
    BY <1>3
  <2>2. version = shown + 1
    BY <2>1 DEF NextInv
  <2>3. QED
    BY <1>1, <1>3, <2>2 DEF Project
<1>4. CASE shown # 0 /\ shown # ledger[k] - 1
  BY <1>1, <1>4 DEF Project, Applicable, projection
<1>5. QED
  BY <1>2, <1>3, <1>4

\* A run does not end on the repetition of a key while a later version is missing.
LEMMA RunEndsLast ==
  ASSUME HistoryInv, AnswerIsProjected, MutexInv, NextInv, RunInv, UpdatesPerRun > 1,
         completed + 1 >= UpdatesPerRun,
         NEW k \in Keys, update[k] = "project", shown = ledger[k], ledger[k] # 0
  PROVE  \A j \in Keys : ledger[j] <= shown
<1> USE RunAssumption DEF HistoryInv, UpdatesTypeOK
<1> SUFFICES ASSUME NEW j \in Keys, ~(ledger[j] <= shown) PROVE FALSE
  OBVIOUS
<1>1. ledger[j] \in 2 .. version /\ shown > 0
  BY DEF LedgerIsHistory
<1>2. PICK i \in Keys : update[i] = "done"
  BY DEF RunInv
<1>3. ledger[i] < shown
  BY <1>2 DEF AnswerIsProjected, LedgerIsHistory
<1>4. update[k] = "done" \/ version = shown
  BY <1>2, <1>3 DEF RunInv
<1>5. QED
  BY <1>1, <1>4

\* A version is made by the handler that has the mutex, when Orders lacks no other ...
LEMMA FlightPersist ==
  ASSUME HistoryInv, HistoryInv', FlightInv, NEW k \in Keys, NEW acked \in BOOLEAN,
         PersistTicketUpdate(k, acked)
  PROVE  FlightInv'
<1> USE DEF HistoryInv, UpdatesTypeOK, projection
<1>1. /\ update[k] = "persist"
      /\ update' \in {update, [update EXCEPT ![k] = "failed"], [update EXCEPT ![k] = "project"]}
      /\ UNCHANGED <<reserved, projection, creation, completed>>
  BY DEF PersistTicketUpdate
<1>2. MutexInv'
  BY <1>1 DEF FlightInv, MutexInv
<1>3. CASE UNCHANGED <<version, ledger>>
  <2>1. FirstInv'
    BY <1>1, <1>3 DEF FlightInv, FirstInv, PersistTicketUpdate, Forbidden
  <2>2. NextInv' /\ RunInv'
    BY <1>1, <1>3 DEF FlightInv, NextInv, RunInv
  <2>3. QED
    BY <1>2, <2>1, <2>2 DEF FlightInv
<1>4. CASE ~(UNCHANGED <<version, ledger>>)
  <2>1. /\ k \notin ForeignKeys /\ ledger[k] = 0
        /\ version' = version + 1 /\ ledger' = [ledger EXCEPT ![k] = version + 1]
        /\ update' \in {update, [update EXCEPT ![k] = "project"]}
    BY <1>4 DEF PersistTicketUpdate, ApplyUpdate, Forbidden
  <2>2. FirstInv'
    BY <1>1, <2>1 DEF FlightInv, FirstInv
  <2>3. \A j \in Keys : j # k =>
          ledger'[j] = ledger[j] /\ update'[j] = update[j] /\ update[j] \notin {"persist", "project"}
    BY <1>1, <2>1 DEF FlightInv, MutexInv
  <2>4. ledger'[k] = version + 1 /\ update'[k] \in {"persist", "project"} /\ shown <= version
    BY <1>1, <2>1 DEF ProjectionIsHistory
  <2>5. NextInv'
    BY <1>1, <2>1, <2>3, <2>4 DEF FlightInv, NextInv
  <2>6. RunInv'
    <3>1. completed' > 0 => \E j \in Keys : update'[j] = "done"
      BY <1>1, <2>3 DEF FlightInv, RunInv
    <3>2. ASSUME NEW i \in Keys, NEW j \in Keys,
                 update'[i] = "done", ledger'[i] < shown', ledger'[j] = shown'
          PROVE  update'[j] = "done"
      <4>1. i # k /\ j # k
        BY <1>1, <2>4, <3>2
      <4>2. QED
        BY <1>1, <2>3, <3>2, <4>1 DEF FlightInv, RunInv
    <3>3. QED
      BY <3>1, <3>2 DEF RunInv
  <2>7. QED
    BY <1>2, <2>2, <2>5, <2>6 DEF FlightInv
<1>5. QED
  BY <1>3, <1>4

\* ... it projects that version, and may end the run only when no other is missing ...
LEMMA FlightProject ==
  ASSUME HistoryInv, HistoryInv', AnswerIsProjected, FlightInv, UpdatesPerRun > 1,
         NEW k \in Keys, NEW acked \in BOOLEAN, ProjectUpdate(k, acked)
  PROVE  FlightInv'
<1> USE DEF HistoryInv, UpdatesTypeOK, source, projection, updates
<1>1. /\ update[k] = "project" /\ snapshot[k] = ledger[k] /\ ledger[k] \in 2 .. version
      /\ UNCHANGED <<version, ledger, reserved, creation>>
  BY DEF ProjectUpdate, HandlersInv, LedgerIsHistory
<1>2. \A j \in Keys : ledger[j] = ledger[k] => j = k
  BY <1>1 DEF LedgerIsHistory
<1>3. CASE /\ Conflicting(snapshot[k], k)
           /\ update' = [update EXCEPT ![k] = "failed"]
           /\ UNCHANGED <<projection, snapshot, completed>>
  <2>1. shown > ledger[k]
    BY <1>1, <1>2, <1>3 DEF Conflicting, ProjectionIsHistory
  <2>2. FirstInv' /\ MutexInv'
    BY <1>1, <1>3, <2>1 DEF FlightInv, FirstInv, MutexInv
  <2>3. NextInv' /\ RunInv'
    BY <1>1, <1>3, <2>1 DEF FlightInv, NextInv, RunInv
  <2>4. QED
    BY <2>2, <2>3 DEF FlightInv
<1>4. CASE Project(snapshot[k], k) /\ (FinishUpdate(k) \/ UNCHANGED updates)
  <2>1. /\ shown' = ledger[k]
        /\ version = ledger[k] \/ (shown = ledger[k] /\ UNCHANGED projection)
    BY <1>1, <1>4, ProjectedIsLast DEF FlightInv
  <2>2. FirstInv'
    BY <1>1, <2>1 DEF FlightInv, FirstInv
  <2>3. \A j \in Keys : ledger[j] # 0 => ledger[j] <= version
    BY DEF LedgerIsHistory
  <2>4. CASE UNCHANGED updates
    <3>1. MutexInv'
      BY <2>4 DEF FlightInv, MutexInv
    <3>2. NextInv'
      BY <1>1, <2>1, <2>3, <2>4 DEF FlightInv, NextInv
    <3>3. RunInv'
      BY <1>1, <1>2, <2>1, <2>4 DEF FlightInv, RunInv
    <3>4. QED
      BY <2>2, <3>1, <3>2, <3>3 DEF FlightInv
  <2>5. CASE FinishUpdate(k) /\ completed + 1 < UpdatesPerRun
    <3>1. update' = [update EXCEPT ![k] = "done"]
      BY <2>5 DEF FinishUpdate
    <3>2. MutexInv'
      BY <3>1 DEF FlightInv, MutexInv
    <3>3. NextInv'
      BY <1>1, <2>1, <2>3, <3>1 DEF FlightInv, NextInv
    <3>4. RunInv'
      BY <1>1, <1>2, <2>1, <3>1 DEF RunInv
    <3>5. QED
      BY <2>2, <3>2, <3>3, <3>4 DEF FlightInv
  <2>6. CASE FinishUpdate(k) /\ ~(completed + 1 < UpdatesPerRun)
    <3>1. update' = [j \in Keys |-> "none"] /\ completed' = 0
      BY <2>6 DEF FinishUpdate
    <3>2. \A j \in Keys : ledger[j] <= ledger[k]
      <4>1. CASE version = ledger[k]
        BY <1>1, <2>3, <4>1
      <4>2. CASE shown = ledger[k]
        BY <1>1, <2>6, <4>2, RunEndsLast, RunAssumption DEF FlightInv
      <4>3. QED
        BY <2>1, <4>1, <4>2
    <3>3. QED
      BY <1>1, <2>1, <2>2, <3>1, <3>2 DEF FlightInv, MutexInv, NextInv, RunInv
  <2>7. QED
    BY <1>4, <2>4, <2>5, <2>6
<1>5. QED
  BY <1>3, <1>4 DEF ProjectUpdate

\* ... and the creation projects the first, or is overtaken.
LEMMA FlightCreated ==
  ASSUME HistoryInv, HistoryInv', AnswerIsProjected, FlightInv, NEW acked \in BOOLEAN,
         ProjectCreated(acked)
  PROVE  FlightInv'
<1> USE DEF HistoryInv, UpdatesTypeOK, source, projection, updates
<1>1. creation = "project" /\ UNCHANGED <<version, ledger, reserved, update, snapshot, completed>>
  BY DEF ProjectCreated
<1>2. MutexInv'
  BY <1>1 DEF FlightInv, MutexInv
<1>3. CASE shown # 0
  <2>1. UNCHANGED projection
    BY <1>3 DEF ProjectCreated, Project, Applicable
  <2>2. QED
    BY <1>1, <1>2, <1>3, <2>1 DEF FlightInv, FirstInv, NextInv, RunInv
<1>4. CASE shown = 0
  <2>1. shown' = 1
    BY <1>4 DEF ProjectCreated, Project, Conflicting, Applicable
  <2>2. FirstInv'
    BY <1>1, <2>1 DEF FlightInv, FirstInv
  <2>3. NextInv'
    BY <1>1, <1>4, <2>1, FirstIsAlone DEF FlightInv, NextInv
  <2>4. \A k \in Keys : update[k] # "done"
    BY <1>4 DEF AnswerIsProjected
  <2>5. RunInv'
    BY <1>1, <2>4 DEF FlightInv, RunInv
  <2>6. QED
    BY <1>2, <2>2, <2>3, <2>5 DEF FlightInv
<1>5. QED
  BY <1>3, <1>4

\* The version that Orders lacks next stays with its handler, or with a refusal that this
\* run remembers.
LEMMA NextFlight ==
  ASSUME HistoryInv, HistoryInv', AnswerIsProjected, FlightInv, UpdatesPerRun > 1, [UpdatesNext]_updatesVars
  PROVE  FlightInv'
<1> USE DEF HistoryInv, UpdatesTypeOK, source, projection, updates
<1>1. CASE UNCHANGED updatesVars
  BY <1>1 DEF updatesVars, FlightInv, FirstInv, MutexInv, NextInv, RunInv
<1>2. CASE Reserve \/ Release
  <2>1. /\ shown = 0 => reserved' = FALSE
        /\ UNCHANGED <<version, ledger, shown, creation, update, completed>>
    BY <1>2 DEF Reserve, Release
  <2>2. FirstInv' /\ MutexInv'
    BY <2>1 DEF FlightInv, FirstInv, MutexInv
  <2>3. NextInv' /\ RunInv'
    BY <2>1 DEF FlightInv, NextInv, RunInv
  <2>4. QED
    BY <2>2, <2>3 DEF FlightInv
<1>3. ASSUME NEW k \in Keys, RequestUpdate(k) \/ Lock(k)
      PROVE  FlightInv'
  <2>1. /\ update[k] \in {"none", "queued"}
        /\ \/ update' = [update EXCEPT ![k] = "queued"]
           \/ update' = [update EXCEPT ![k] = "persist"] /\ ~Locked
        /\ UNCHANGED <<source, projection, creation, snapshot, completed>>
    BY <1>3 DEF RequestUpdate, Lock
  <2>2. MutexInv'
    BY <2>1 DEF FlightInv, MutexInv, Locked
  <2>3. FirstInv' /\ NextInv'
    BY <2>1 DEF FlightInv, FirstInv, NextInv
  <2>4. RunInv'
    BY <2>1 DEF FlightInv, RunInv
  <2>5. QED
    BY <2>2, <2>3, <2>4 DEF FlightInv
<1>4. ASSUME NEW acked \in BOOLEAN, PersistTicket(acked)
      PROVE  FlightInv'
  <2>1. /\ creation' \in {"persist", "project"}
        /\ version' = version \/ (version = 0 /\ version' = 1)
        /\ UNCHANGED <<ledger, reserved, projection, updates>>
    BY <1>4 DEF PersistTicket
  <2>2. version = 0 => shown = 0 /\ \A k \in Keys : ledger[k] = 0 /\ update[k] = "none"
    BY DEF HandlersInv, LedgerIsHistory, ProjectionIsHistory
  <2>3. FirstInv' /\ MutexInv'
    BY <2>1 DEF FlightInv, FirstInv, MutexInv
  <2>4. NextInv' /\ RunInv'
    BY <2>1, <2>2 DEF FlightInv, NextInv, RunInv
  <2>5. QED
    BY <2>3, <2>4 DEF FlightInv
<1>5. CASE \E acked \in BOOLEAN : ProjectCreated(acked)
  BY <1>5, FlightCreated
<1>6. CASE \E k \in Keys, acked \in BOOLEAN : PersistTicketUpdate(k, acked)
  BY <1>6, FlightPersist
<1>7. CASE \E k \in Keys, acked \in BOOLEAN : ProjectUpdate(k, acked)
  BY <1>7, FlightProject
<1>8. QED
  BY <1>1, <1>2, <1>3, <1>4, <1>5, <1>6, <1>7, UpdatesStepCases, Zenon

\* The invariant at the start ...
LEMMA InitUpdates == UpdatesInit => UpdatesInv
<1> SUFFICES ASSUME UpdatesInit PROVE UpdatesInv
  OBVIOUS
<1>1. \A k \in Keys : ledger[k] = 0 /\ update[k] = "none"
  BY DEF UpdatesInit
<1>2. shown = 0 /\ completed = 0 /\ ~reserved /\ creation = "persist"
  BY DEF UpdatesInit
<1>3. FlightInv
  BY <1>1, <1>2, KeysAssumption DEF FlightInv, FirstInv, MutexInv, NextInv, RunInv
<1>4. QED
  BY <1>1, <1>2, <1>3, InitHistory DEF AnswerIsProjected, UpdatesInv

\* ... and after every step.
LEMMA StepUpdates ==
  ASSUME UpdatesInv, [UpdatesNext]_updatesVars
  PROVE  UpdatesInv'
<1>1. HistoryInv' /\ AnswerIsProjected'
  BY NextHistory, NextAnswer DEF UpdatesInv
<1>2. UpdatesPerRun > 1 => FlightInv'
  BY <1>1, NextFlight DEF UpdatesInv
<1>3. QED
  BY <1>1, <1>2 DEF UpdatesInv

\* The whole inductive invariant: one history in both databases, successes that Orders
\* shows, and the whereabouts of every version that it does not.
THEOREM UpdatesInvariant == UpdatesSpec => []UpdatesInv
BY InitUpdates, StepUpdates, PTL DEF UpdatesSpec

\* A version of the ticket that Orders lacks is in the hands of a workflow that will
\* project it, or was dropped by a refusal that this run still answers for.
THEOREM MissingVersionsKnown ==
  ASSUME UpdatesPerRun > 1
  PROVE  UpdatesSpec => []MissingVersionIsKnown
<1>1. UpdatesInv => MissingVersionIsKnown
  <2> SUFFICES ASSUME UpdatesInv, shown < version
               PROVE  MissingVersionIsKnown
    BY DEF MissingVersionIsKnown, MissingVersionIsInFlight
  <2> USE DEF UpdatesInv, HistoryInv, UpdatesTypeOK, MissingVersionIsKnown, MissingVersionIsInFlight
  <2>1. CASE shown = 0
    BY <2>1 DEF FlightInv, FirstInv
  <2>2. CASE shown # 0
    <3>1. shown + 1 \in 2 .. version
      BY <2>2
    <3>2. PICK k \in Keys : ledger[k] = shown + 1
      BY <3>1 DEF LedgerIsHistory
    <3>3. update[k] = "failed" \/ update[k] \in {"persist", "project"}
      BY <2>2, <3>2 DEF FlightInv, NextInv
    <3>4. QED
      BY <3>2, <3>3 DEF Dropped
  <2>3. QED
    BY <2>1, <2>2
<1>2. QED
  BY <1>1, UpdatesInvariant, PTL

-------------------------------------------------------------------------------
\* The content of a version, in the order of the ledger.
Content(v) == IF v = 1 THEN NULL ELSE CHOOSE k \in Keys : ledger[k] = v

\* A version has the content of the one key whose version it is ...
LEMMA ContentIsAuthor ==
  ASSUME HistoryInv, NEW k \in Keys, ledger[k] # 0
  PROVE  Content(ledger[k]) = k
BY DEF HistoryInv, UpdatesTypeOK, LedgerIsHistory, Content

\* ... and keeps it.
LEMMA ContentOfLater ==
  ASSUME HistoryInv, HistoryInv', NEW k \in Keys, ledger[k] # 0, ledger'[k] = ledger[k]
  PROVE  Content(ledger[k])' = k
<1>1. ledger'[k] \in 2 .. version' /\ \A j \in Keys : ledger'[j] = ledger'[k] => j = k
  BY DEF HistoryInv, LedgerIsHistory
<1>2. ledger'[k] # 1 /\ ledger'[k] = ledger[k]
  BY <1>1
<1>3. (CHOOSE j \in Keys : ledger'[j] = ledger'[k]) = k
  BY <1>1
<1>4. QED
  BY <1>2, <1>3 DEF Content

Contents == [v \in 1 .. version |-> Content(v)]

\* A step that makes no version leaves the history alone.
LEMMA ContentsStay ==
  ASSUME UNCHANGED <<version, ledger>>
  PROVE  UNCHANGED Contents
BY DEF Contents, Content

\* PersistTicket creates the abstract ticket, once.
LEMMA CreationStep ==
  ASSUME HistoryInv, NEW acked \in BOOLEAN, PersistTicket(acked)
  PROVE  History!Create \/ UNCHANGED History!vars
<1> USE DEF HistoryInv, UpdatesTypeOK
<1>1. CASE version = 0
  <2>1. version' = 1 /\ UNCHANGED <<ledger, shown, author>>
    BY <1>1 DEF PersistTicket, projection
  <2>2. [v \in 1 .. version |-> IF v = 1 THEN NULL ELSE CHOOSE k \in Keys : ledger[k] = v] = <<>>
    BY <1>1
  <2>3. [v \in 1 .. version |-> IF v = 1 THEN NULL ELSE CHOOSE k \in Keys : ledger[k] = v]'
          = <<NULL>>
    BY <2>1
  <2>4. QED
    BY <2>1, <2>2, <2>3 DEF History!Create
<1>2. CASE version # 0
  BY <1>2 DEF PersistTicket, projection, History!vars
<1>3. QED
  BY <1>1, <1>2

\* UpdateWithIdempotency makes an abstract version, once per key.
LEMMA EditStep ==
  ASSUME HistoryInv, HistoryInv', NEW k \in Keys, version > 0, ApplyUpdate(k), UNCHANGED projection
  PROVE  History!Edit(k) \/ UNCHANGED History!vars
<1> USE DEF HistoryInv, UpdatesTypeOK
<1>1. CASE ledger[k] # 0
  BY <1>1 DEF ApplyUpdate, projection, History!vars
<1>2. CASE ledger[k] = 0
  <2>1. version' = version + 1 /\ ledger' = [ledger EXCEPT ![k] = version + 1]
    BY <1>2 DEF ApplyUpdate
  <2> PICK n \in Nat : n = version + 1
    OBVIOUS
  <2>2. Content(n)' = k
    <3>1. ledger'[k] = n /\ \A j \in Keys : ledger'[j] = ledger'[k] => j = k
      BY <2>1 DEF LedgerIsHistory
    <3>2. (CHOOSE j \in Keys : ledger'[j] = n) = k
      BY <3>1
    <3>3. QED
      BY <3>2 DEF Content
  <2>3. \A v \in 2 .. version :
          \E j \in Keys : j # k /\ Content(v) = j /\ Content(v)' = j
    <3>1. TAKE v \in 2 .. version
    <3>2. PICK j \in Keys : ledger[j] = v
      BY DEF LedgerIsHistory
    <3>3. j # k /\ ledger'[j] = v
      BY <1>2, <2>1, <3>2
    <3>4. Content(v) = j
      BY <3>2, ContentIsAuthor
    <3>5. Content(ledger[j])' = j
      BY <3>2, <3>3, ContentOfLater
    <3>6. Content(v)' = j
      BY <3>3, <3>5 DEF Content
    <3>7. QED
      BY <3>3, <3>4, <3>6
  <2>4. Content(1) = NULL /\ Content(1)' = NULL /\ k # NULL
    BY KeysAssumption DEF Content
  <2>5. Contents # <<>> /\ \A v \in DOMAIN Contents : Contents[v] # k
    <3>1. DOMAIN Contents = 1 .. version /\ \A v \in 1 .. version : Contents[v] = Content(v)
      BY DEF Contents
    <3>2. \A v \in 1 .. version : Content(v) # k
      BY <2>3, <2>4
    <3>3. 1 \in 1 .. version /\ 1 \notin DOMAIN <<>>
      OBVIOUS
    <3>4. QED
      BY <3>1, <3>2, <3>3
  <2>6. Contents' = Append(Contents, k)
    <3>1. \A v \in 1 .. version : Content(v)' = Content(v)
      BY <2>3, <2>4
    <3>2. Contents' = [v \in 1 .. n |-> Content(v)']
      BY <2>1 DEF Contents
    <3>3. \A v \in 1 .. n : Content(v)' = IF v = n THEN k ELSE Content(v)
      BY <2>2, <3>1
    <3>4. Contents' = [v \in 1 .. n |-> IF v = n THEN k ELSE Content(v)]
      BY <3>2, <3>3
    <3>5. Append(Contents, k) = [v \in 1 .. n |-> IF v = n THEN k ELSE Content(v)]
      BY DEF Contents
    <3>6. QED
      BY <3>4, <3>5
  <2>7. QED
    BY <2>1, <2>5, <2>6 DEF History!Edit, Contents, Content, projection
<1>3. QED
  BY <1>1, <1>2

\* EnsureTicketProjection shows the next abstract version, or none.
LEMMA ShowStep ==
  ASSUME HistoryInv, NEW v \in 1 .. version, NEW k \in Keys \cup {NULL}, Project(v, k),
         v = 1 => k = NULL,
         v > 1 => k \in Keys /\ ledger[k] = v,
         UNCHANGED <<version, ledger>>
  PROVE  History!Show(v) \/ UNCHANGED History!vars
<1>1. UNCHANGED Contents
  BY ContentsStay
<1>2. CASE UNCHANGED projection
  BY <1>1, <1>2 DEF projection, History!vars, Contents, Content
<1>3. CASE Applicable(v) /\ shown' = v /\ author' = k
  <2>1. Content(v) = k
    <3>1. CASE v = 1
      BY <3>1 DEF Content
    <3>2. CASE v # 1
      BY <3>2, ContentIsAuthor
    <3>3. QED
      BY <3>1, <3>2
  <2>2. author' = Contents[v]
    BY <1>3, <2>1 DEF Contents
  <2>3. v = shown + 1 \/ shown = 0
    BY <1>3 DEF Applicable, HistoryInv, UpdatesTypeOK
  <2>4. QED
    BY <1>1, <1>3, <2>2, <2>3 DEF History!Show, Contents, Content
<1>4. QED
  BY <1>2, <1>3 DEF Project

\* Every step of the two databases is a step of the history, or leaves it alone.
LEMMA HistoryStep ==
  ASSUME HistoryInv, HistoryInv', [UpdatesNext]_updatesVars
  PROVE  [History!Next]_(History!vars)
<1> USE DEF HistoryInv, UpdatesTypeOK, source, projection, updates
<1>1. CASE UNCHANGED <<version, ledger, shown, author>>
  BY <1>1 DEF History!vars
<1>2. CASE \E acked \in BOOLEAN : PersistTicket(acked)
  BY <1>2, CreationStep DEF History!Next
<1>3. ASSUME NEW acked \in BOOLEAN, ProjectCreated(acked)
      PROVE  [History!Next]_(History!vars)
  <2>1. UNCHANGED <<version, ledger>> /\ 1 \in 1 .. version
    BY <1>3 DEF ProjectCreated, HandlersInv
  <2>2. CASE Project(1, NULL)
    <3>1. History!Show(1) \/ UNCHANGED History!vars
      BY <2>1, <2>2, ShowStep
    <3>2. 1 \in DOMAIN Contents
      BY <2>1 DEF Contents
    <3>3. QED
      BY <3>1, <3>2 DEF History!Next, Contents, Content
  <2>3. QED
    BY <1>1, <1>3, <2>1, <2>2 DEF ProjectCreated
<1>4. ASSUME NEW k \in Keys, NEW acked \in BOOLEAN, PersistTicketUpdate(k, acked)
      PROVE  [History!Next]_(History!vars)
  <2>1. version > 0 /\ UNCHANGED projection
    BY <1>4 DEF PersistTicketUpdate, HandlersInv
  <2>2. CASE ApplyUpdate(k)
    BY <2>1, <2>2, EditStep DEF History!Next
  <2>3. QED
    BY <1>1, <1>4, <2>1, <2>2 DEF PersistTicketUpdate
<1>5. ASSUME NEW k \in Keys, NEW acked \in BOOLEAN, ProjectUpdate(k, acked)
      PROVE  [History!Next]_(History!vars)
  <2>1. /\ UNCHANGED <<version, ledger>>
        /\ snapshot[k] = ledger[k] /\ ledger[k] \in 2 .. version
    BY <1>5 DEF ProjectUpdate, HandlersInv, LedgerIsHistory
  <2> PICK v \in 2 .. version : v = snapshot[k]
    BY <2>1
  <2>2. CASE Project(v, k)
    <3>1. History!Show(v) \/ UNCHANGED History!vars
      BY <2>1, <2>2, ShowStep
    <3>2. v \in DOMAIN Contents
      BY DEF Contents
    <3>3. QED
      BY <3>1, <3>2 DEF History!Next, Contents, Content
  <2>3. QED
    BY <1>1, <1>5, <2>1, <2>2 DEF ProjectUpdate
<1>6. CASE UNCHANGED updatesVars
  BY <1>1, <1>6 DEF updatesVars
<1>7. QED
  BY <1>1, <1>2, <1>3, <1>4, <1>5, <1>6, UpdatesStepCases, Zenon
     DEF Reserve, Release, RequestUpdate, Lock, source, projection

\* Tickets and Orders together implement the history of a ticket: edits follow each
\* other and enter once, Orders shows them in order and, once it shows any, leaves none out.
THEOREM HistoryRefinement == UpdatesSpec => ImplementsTicketHistory
<1>1. UpdatesInit => History!Init
  BY DEF UpdatesInit, History!Init
<1>2. HistoryInv /\ HistoryInv' /\ [UpdatesNext]_updatesVars => [History!Next]_(History!vars)
  BY HistoryStep
<1>3. QED
  BY <1>1, <1>2, HistoryInvariant, PTL DEF UpdatesSpec, ImplementsTicketHistory, History!Spec
===============================================================================
