--------------------------- MODULE WorkQueueProofs ---------------------------
(***************************************************************************)
(* Theorems about WorkQueue.  The safety properties follow from one        *)
(* inductive invariant, QueueInv: it adds to them what the row lock of     *)
(* claim_task protects between its SELECT and its UPDATE, and that only a  *)
(* task that was edited can be pending and yet be somebody's.              *)
(***************************************************************************)
EXTENDS WorkQueue, FiniteSetTheorems, TLAPS

\* A worker in a claim is in it for one task.
CallsWellFormed ==
    \A w \in Workers :
        IF call[w].pc = "idle" THEN call[w] = Idle ELSE call[w].task \in Tasks

\* A row has a job and needs rows that exist; an id without one is nobody's,
\* needs nothing and was not edited.
RowsWellFormed ==
    \A t \in Tasks :
        /\ IF status[t] = "absent"
           THEN owner[t] = Nobody /\ deps[t] = {} /\ t \notin edited
           ELSE job[t] \in Jobs
        /\ \A d \in deps[t] \cap Tasks : status[d] # "absent"

\* A selected row stays pending, and stays one whose dependencies were met.
SelectedStaysPending ==
    \A w \in Workers :
        call[w].pc = "select" =>
            status[call[w].task] = "pending" /\ deps[call[w].task] \cap Tasks \subseteq done

\* FOR UPDATE SKIP LOCKED: no two open transactions have selected one row.
SelectedOnce ==
    \A v, w \in Workers :
        v # w /\ call[v].pc = "select" /\ call[w].pc = "select"
            => call[v].task # call[w].task

CompletedIsDone == \A t \in Tasks : status[t] = "completed" => t \in done

\* Only an edited task is pending and somebody's: it was reopened.
PendingUnowned ==
    \A t \in Tasks : status[t] = "pending" /\ t \notin edited => owner[t] = Nobody

HeldIsTaken ==
    \A w \in Workers, t \in Tasks :
        Holds(w, t) => status[t] # "absent" /\ (status[t] = "pending" => t \in edited)

\* A claimed task is with a worker of the agent it is claimed by, or lost.
ClaimantHolds ==
    \A t \in Tasks :
        status[t] = "claimed" =>
            t \in lost \/ \E w \in Workers : Holds(w, t) /\ AgentOf[w] = owner[t]

QueueInv ==
    /\ QueueTypeOK /\ CallsWellFormed /\ RowsWellFormed
    /\ SelectedStaysPending /\ SelectedOnce
    /\ CompletedIsDone /\ PendingUnowned /\ DepsHonoured
    /\ HeldIsTaken /\ SingleWorker
    /\ ClaimantHolds
-----------------------------------------------------------------------------
LEMMA InitEstablishes == Init => QueueInv
BY QueueAssumption
   DEF Init, QueueInv, QueueTypeOK, Status, Call, Idle, CallsWellFormed,
       RowsWellFormed, SelectedStaysPending, SelectedOnce, CompletedIsDone,
       PendingUnowned, DepsHonoured, HeldIsTaken, SingleWorker, ClaimantHolds,
       Holds

\* A new row is pending and nobody's, and nothing refers to it yet.
LEMMA InsertPreserves ==
    ASSUME NEW t \in Tasks, NEW j \in Jobs, NEW D \in SUBSET (Tasks \cup Strays),
           QueueInv, Insert(t, j, D)
    PROVE  QueueInv'
<1> USE DEF QueueInv
<1>1. QueueTypeOK'
  <2>1. Cardinality(Existing) \in Nat
    BY QueueAssumption, FS_Subset, FS_CardinalityType DEF Existing
  <2>. QED
    BY <2>1 DEF Insert, QueueTypeOK, Status, Stored
<1>2. CallsWellFormed' /\ SelectedOnce'
  BY DEF Insert, CallsWellFormed, SelectedOnce
<1>3. RowsWellFormed'
  BY QueueAssumption DEF Insert, RowsWellFormed, QueueTypeOK, Existing
<1>4. SelectedStaysPending'
  BY DEF Insert, SelectedStaysPending, QueueTypeOK, CallsWellFormed, Idle
<1>5. CompletedIsDone' /\ PendingUnowned' /\ DepsHonoured'
  BY DEF Insert, CompletedIsDone, PendingUnowned, DepsHonoured, QueueTypeOK,
         RowsWellFormed
<1>6. HeldIsTaken' /\ SingleWorker' /\ ClaimantHolds'
  BY DEF Insert, HeldIsTaken, SingleWorker, ClaimantHolds, Holds, QueueTypeOK
<1>. QED
  BY <1>1, <1>2, <1>3, <1>4, <1>5, <1>6

LEMMA ClaimSelectPreserves ==
    ASSUME NEW w \in Workers, NEW f \in Filters, QueueInv, ClaimSelect(w, f)
    PROVE  QueueInv'
<1> USE DEF QueueInv
<1>1. PICK t \in Tasks :
        /\ Eligible(w, f, t)
        /\ call' = [call EXCEPT ![w] = [pc |-> "select", task |-> t]]
  BY DEF ClaimSelect
<1>2. UNCHANGED <<status, owner, job, deps, born, has, done, lost, edited, crashes>>
  BY DEF ClaimSelect, rows
<1>3. call[w].pc = "idle"
  BY DEF ClaimSelect, Idle
<1>4. QueueTypeOK' /\ CallsWellFormed' /\ RowsWellFormed'
  BY <1>1, <1>2 DEF QueueTypeOK, CallsWellFormed, RowsWellFormed, Call
<1>5. SelectedStaysPending'
  BY <1>1, <1>2 DEF SelectedStaysPending, QueueTypeOK, Eligible, DepsMet, CompletedIsDone,
                    Existing, RowsWellFormed
<1>6. SelectedOnce'
  BY <1>1 DEF SelectedOnce, Eligible, RowLocked, QueueTypeOK
<1>7. CompletedIsDone' /\ PendingUnowned' /\ DepsHonoured'
  BY <1>2 DEF CompletedIsDone, PendingUnowned, DepsHonoured
<1>8. \A v \in Workers, u \in Tasks : Holds(v, u)' <=> Holds(v, u)
  BY <1>1, <1>2, <1>3 DEF Holds, QueueTypeOK
<1>9. HeldIsTaken' /\ SingleWorker' /\ ClaimantHolds'
  BY <1>2, <1>8 DEF HeldIsTaken, SingleWorker, ClaimantHolds
<1>. QED
  BY <1>4, <1>5, <1>6, <1>7, <1>9

\* The selected row is still pending, so nobody holds it unless it is an issue.
LEMMA ClaimUpdatePreserves ==
    ASSUME NEW w \in Workers, QueueInv, ClaimUpdate(w)
    PROVE  QueueInv'
<1> USE DEF QueueInv
<1>1. PICK t \in Tasks : t = call[w].task
  BY DEF ClaimUpdate, CallsWellFormed, Idle
<1>2. /\ call[w].pc = "select"
      /\ status' = [status EXCEPT ![t] = "claimed"]
      /\ owner' = [owner EXCEPT ![t] = AgentOf[w]]
      /\ call' = [call EXCEPT ![w].pc = "scan"]
      /\ lost' = lost \ {t}
      /\ UNCHANGED <<job, deps, born, has, done, edited, crashes>>
  BY <1>1 DEF ClaimUpdate
<1>3. status[t] = "pending" /\ deps[t] \cap Tasks \subseteq done
  BY <1>1, <1>2 DEF SelectedStaysPending
<1>4. QueueTypeOK'
  <2>1. status' \in [Tasks -> Status] /\ lost' \subseteq Tasks
    BY <1>2 DEF QueueTypeOK, Status, Stored
  <2>2. owner' \in [Tasks -> Agents \cup {Nobody}]
    BY <1>2, QueueAssumption DEF QueueTypeOK
  <2>3. call' \in [Workers -> Call]
    BY <1>2 DEF QueueTypeOK, Call
  <2>4. QED
    BY <1>2, <2>1, <2>2, <2>3 DEF QueueTypeOK
<1>5. CallsWellFormed' /\ RowsWellFormed'
  <2>1. CallsWellFormed'
    <3>1. call'[w].pc = "scan" /\ call'[w].task = t
      BY <1>1, <1>2 DEF QueueTypeOK, Call
    <3>2. \A v \in Workers \ {w} : call'[v] = call[v]
      BY <1>2 DEF QueueTypeOK
    <3>3. QED
      BY <3>1, <3>2 DEF CallsWellFormed
  <2>2. RowsWellFormed'
    BY <1>2, <1>3 DEF QueueTypeOK, RowsWellFormed
  <2>3. QED
    BY <2>1, <2>2
<1>6. SelectedStaysPending' /\ SelectedOnce'
  BY <1>1, <1>2 DEF SelectedStaysPending, SelectedOnce, QueueTypeOK, Call,
                    CallsWellFormed, Idle
<1>7. CompletedIsDone' /\ PendingUnowned' /\ DepsHonoured'
  BY <1>2, <1>3 DEF CompletedIsDone, PendingUnowned, DepsHonoured, QueueTypeOK
<1>8. \A v \in Workers, u \in Tasks :
        Holds(v, u)' <=> Holds(v, u) \/ (v = w /\ u = t)
  BY <1>1, <1>2 DEF Holds, QueueTypeOK, Call
<1>10. \A v \in Workers : Holds(v, t) => t \in edited
  BY <1>3 DEF HeldIsTaken
<1>11. HeldIsTaken' /\ SingleWorker'
  BY <1>2, <1>8, <1>10 DEF HeldIsTaken, SingleWorker, QueueTypeOK
<1>12. ClaimantHolds'
  BY <1>2, <1>8 DEF ClaimantHolds, QueueTypeOK
<1>. QED
  BY <1>4, <1>5, <1>6, <1>7, <1>11, <1>12

LEMMA ClaimHandOutPreserves ==
    ASSUME NEW w \in Workers, QueueInv, ClaimHandOut(w)
    PROVE  QueueInv'
<1> USE DEF QueueInv
<1>1. PICK t \in Tasks : t = call[w].task
  BY DEF ClaimHandOut, CallsWellFormed, Idle
<1>2. /\ call[w].pc = "scan"
      /\ has' = [has EXCEPT ![w] = @ \cup {t}]
      /\ call' = [call EXCEPT ![w] = Idle]
      /\ UNCHANGED <<status, owner, job, deps, born, done, lost, edited, crashes>>
  BY <1>1 DEF ClaimHandOut, rows
<1>3. QueueTypeOK' /\ CallsWellFormed' /\ RowsWellFormed'
  BY <1>2 DEF QueueTypeOK, CallsWellFormed, RowsWellFormed, Idle, Call
<1>4. SelectedStaysPending' /\ SelectedOnce'
  BY <1>2 DEF SelectedStaysPending, SelectedOnce, QueueTypeOK, Idle
<1>5. CompletedIsDone' /\ PendingUnowned' /\ DepsHonoured'
  BY <1>2 DEF CompletedIsDone, PendingUnowned, DepsHonoured
<1>6. \A v \in Workers, u \in Tasks : Holds(v, u)' <=> Holds(v, u)
  BY <1>1, <1>2 DEF Holds, QueueTypeOK, Idle
<1>7. HeldIsTaken' /\ SingleWorker' /\ ClaimantHolds'
  BY <1>2, <1>6 DEF HeldIsTaken, SingleWorker, ClaimantHolds
<1>. QED
  BY <1>3, <1>4, <1>5, <1>7

\* The refused task fails unless somebody else has reopened and claimed it, or
\* it is lost; either way its claim is accounted for.
LEMMA ClaimRefusePreserves ==
    ASSUME NEW w \in Workers, QueueInv, ClaimRefuse(w)
    PROVE  QueueInv'
<1> USE DEF QueueInv
<1>1. PICK t \in Tasks : t = call[w].task
  BY DEF ClaimRefuse, CallsWellFormed, Idle
<1>2. /\ call[w].pc = "scan"
      /\ call' = [call EXCEPT ![w] = Idle]
      /\ UNCHANGED <<owner, job, deps, born, has, done, edited, crashes>>
      /\ \/ /\ t \notin RowLocked
            /\ status' = IF owner[t] = AgentOf[w]
                         THEN [status EXCEPT ![t] = "failed"] ELSE status
            /\ lost' = lost
         \/ status' = status /\ lost' = lost \cup {t}
  BY <1>1 DEF ClaimRefuse
<1>3. Holds(w, t) /\ status[t] # "absent"
  BY <1>1, <1>2 DEF Holds, HeldIsTaken
<1>4. QueueTypeOK' /\ CallsWellFormed' /\ RowsWellFormed'
  BY <1>2, <1>3 DEF QueueTypeOK, CallsWellFormed, RowsWellFormed, Idle, Call, Status, Stored
<1>5. SelectedStaysPending' /\ SelectedOnce'
  BY <1>2 DEF SelectedStaysPending, SelectedOnce, QueueTypeOK, Idle, RowLocked,
              CallsWellFormed
<1>7. CompletedIsDone' /\ PendingUnowned' /\ DepsHonoured'
  BY <1>2 DEF CompletedIsDone, PendingUnowned, DepsHonoured, QueueTypeOK
<1>8. \A v \in Workers, u \in Tasks :
        /\ Holds(v, u)' => Holds(v, u)
        /\ Holds(v, u) /\ ~(v = w /\ u = t) => Holds(v, u)'
  BY <1>1, <1>2 DEF Holds, QueueTypeOK, Idle
<1>9. HeldIsTaken' /\ SingleWorker'
  BY <1>2, <1>8 DEF HeldIsTaken, SingleWorker, QueueTypeOK
<1>10. ClaimantHolds'
  BY <1>2, <1>8 DEF ClaimantHolds, QueueTypeOK
<1>. QED
  BY <1>4, <1>5, <1>7, <1>9, <1>10

LEMMA CompletePreserves ==
    ASSUME NEW w \in Workers, NEW t \in Tasks, NEW ok \in BOOLEAN,
           QueueInv, Complete(w, t, ok)
    PROVE  QueueInv'
<1> USE DEF QueueInv
<1>1. /\ status[t] # "absent" /\ t \notin RowLocked
      /\ owner[t] = AgentOf[w]
      /\ status' = [status EXCEPT ![t] = IF ok THEN "completed" ELSE "failed"]
      /\ done' = IF ok THEN done \cup {t} ELSE done
      /\ has' = [has EXCEPT ![w] = @ \ {t}]
      /\ UNCHANGED <<owner, job, deps, born, call, lost, edited, crashes>>
  BY DEF Complete
<1>2. QueueTypeOK' /\ CallsWellFormed' /\ RowsWellFormed'
  BY <1>1 DEF QueueTypeOK, CallsWellFormed, RowsWellFormed, Status, Stored
<1>3. SelectedStaysPending' /\ SelectedOnce'
  BY <1>1 DEF SelectedStaysPending, SelectedOnce, QueueTypeOK, RowLocked,
              CallsWellFormed, Idle
<1>5. CompletedIsDone' /\ PendingUnowned' /\ DepsHonoured'
  BY <1>1 DEF CompletedIsDone, PendingUnowned, DepsHonoured, QueueTypeOK
<1>6. \A v \in Workers, u \in Tasks :
        /\ Holds(v, u)' => Holds(v, u)
        /\ Holds(v, u) /\ u # t => Holds(v, u)'
  BY <1>1 DEF Holds, QueueTypeOK
<1>7. HeldIsTaken' /\ SingleWorker' /\ ClaimantHolds'
  BY <1>1, <1>6 DEF HeldIsTaken, SingleWorker, ClaimantHolds, QueueTypeOK
<1>. QED
  BY <1>2, <1>3, <1>5, <1>7

LEMMA CompleteRejectedPreserves ==
    ASSUME NEW w \in Workers, NEW t \in Tasks, QueueInv, CompleteRejected(w, t)
    PROVE  QueueInv'
<1> USE DEF QueueInv
<1>1. /\ owner[t] # AgentOf[w]
      /\ has' = [has EXCEPT ![w] = @ \ {t}]
      /\ UNCHANGED <<status, owner, job, deps, born, call, done, lost, edited, crashes>>
  BY DEF CompleteRejected, rows
<1>2. /\ QueueTypeOK' /\ CallsWellFormed' /\ RowsWellFormed'
      /\ SelectedStaysPending' /\ SelectedOnce'
      /\ CompletedIsDone' /\ PendingUnowned' /\ DepsHonoured'
  BY <1>1 DEF QueueTypeOK, CallsWellFormed, RowsWellFormed, SelectedStaysPending,
              SelectedOnce, CompletedIsDone, PendingUnowned, DepsHonoured
<1>3. \A v \in Workers, u \in Tasks :
        /\ Holds(v, u)' => Holds(v, u)
        /\ Holds(v, u) /\ ~(v = w /\ u = t) => Holds(v, u)'
  BY <1>1 DEF Holds, QueueTypeOK
<1>4. HeldIsTaken' /\ SingleWorker' /\ ClaimantHolds'
  BY <1>1, <1>3 DEF HeldIsTaken, SingleWorker, ClaimantHolds
<1>. QED
  BY <1>2, <1>4

\* An issue call changes what is edited from then on, or nothing but a priority.
LEMMA IssueWritePreserves ==
    ASSUME NEW t \in Tasks, NEW st \in Stored, NEW j \in Jobs,
           QueueInv, IssueWrite(t, st, j)
    PROVE  QueueInv'
<1> USE DEF QueueInv
<1>1. /\ status[t] # "absent" /\ t \notin RowLocked
      /\ status' = [status EXCEPT ![t] = st]
      /\ job' = [job EXCEPT ![t] = j]
      /\ done' = IF st = "completed" THEN done \cup {t} ELSE done
      /\ edited' = IF st = status[t] THEN edited ELSE edited \cup {t}
      /\ lost' = IF st = "claimed" /\ st # status[t] THEN lost \cup {t} ELSE lost
      /\ UNCHANGED <<owner, deps, born, call, has, crashes>>
  BY DEF IssueWrite, Existing
<1>2. QueueTypeOK' /\ CallsWellFormed' /\ RowsWellFormed'
  <2>1. st # "absent"
    BY DEF Stored
  <2>2. QueueTypeOK'
    BY <1>1 DEF QueueTypeOK, Status
  <2>3. CallsWellFormed' /\ RowsWellFormed'
    BY <1>1, <2>1 DEF QueueTypeOK, CallsWellFormed, RowsWellFormed
  <2>. QED
    BY <2>2, <2>3
<1>3. SelectedStaysPending' /\ SelectedOnce'
  BY <1>1 DEF SelectedStaysPending, SelectedOnce, QueueTypeOK, RowLocked,
              CallsWellFormed, Idle
<1>4. CompletedIsDone' /\ PendingUnowned' /\ DepsHonoured'
  BY <1>1 DEF CompletedIsDone, PendingUnowned, DepsHonoured, QueueTypeOK
<1>5. \A v \in Workers, u \in Tasks : Holds(v, u)' <=> Holds(v, u)
  BY <1>1 DEF Holds
<1>6. HeldIsTaken' /\ SingleWorker'
  <2>1. st # "absent"
    BY DEF Stored
  <2>. QED
    BY <1>1, <1>5, <2>1 DEF HeldIsTaken, SingleWorker, QueueTypeOK
<1>7. ClaimantHolds'
  BY <1>1, <1>5 DEF ClaimantHolds, QueueTypeOK
<1>. QED
  BY <1>2, <1>3, <1>4, <1>6, <1>7

LEMMA CrashPreserves ==
    ASSUME NEW w \in Workers, QueueInv, Crash(w)
    PROVE  QueueInv'
<1> USE DEF QueueInv
<1>1. /\ crashes < MaxCrashes /\ crashes' = crashes + 1
      /\ call' = [call EXCEPT ![w] = Idle]
      /\ has' = [has EXCEPT ![w] = {}]
      /\ lost' = lost \cup has[w]
                      \cup (IF call[w].pc = "scan" THEN {call[w].task} ELSE {})
      /\ UNCHANGED <<status, owner, job, deps, born, done, edited>>
  BY DEF Crash, rows
<1>2. QueueTypeOK' /\ CallsWellFormed' /\ RowsWellFormed'
  BY <1>1, QueueAssumption
     DEF QueueTypeOK, CallsWellFormed, RowsWellFormed, Call, Idle
<1>3. SelectedStaysPending' /\ SelectedOnce'
  BY <1>1 DEF SelectedStaysPending, SelectedOnce, QueueTypeOK, Idle
<1>4. CompletedIsDone' /\ PendingUnowned' /\ DepsHonoured'
  BY <1>1 DEF CompletedIsDone, PendingUnowned, DepsHonoured
<1>5. \A v \in Workers, u \in Tasks :
        /\ Holds(v, u)' => Holds(v, u)
        /\ Holds(v, u) => Holds(v, u)' \/ u \in lost'
  BY <1>1 DEF Holds, QueueTypeOK, Idle
<1>6. lost \subseteq lost'
  BY <1>1
<1>7. HeldIsTaken' /\ SingleWorker' /\ ClaimantHolds'
  BY <1>1, <1>5, <1>6 DEF HeldIsTaken, SingleWorker, ClaimantHolds
<1>. QED
  BY <1>2, <1>3, <1>4, <1>7

LEMMA StutterPreserves == QueueInv /\ UNCHANGED vars => QueueInv'
BY DEF QueueInv, vars, rows, QueueTypeOK, CallsWellFormed, RowsWellFormed,
       SelectedStaysPending, SelectedOnce, CompletedIsDone, PendingUnowned,
       DepsHonoured, HeldIsTaken, SingleWorker, ClaimantHolds, Holds

LEMMA NextPreserves == QueueInv /\ [Next]_vars => QueueInv'
<1> SUFFICES ASSUME QueueInv, [Next]_vars PROVE QueueInv'
  OBVIOUS
<1>1. CASE \E t \in Tasks, j \in Jobs, D \in SUBSET (Tasks \cup Strays) :
             (\E a \in Agents : Submit(t, a, j, D)) \/ IssueCreate(t, j, D)
  BY <1>1, InsertPreserves DEF Submit, IssueCreate
<1>2. CASE \E w \in Workers : ClaimStep(w)
  BY <1>2, ClaimSelectPreserves, ClaimUpdatePreserves, ClaimHandOutPreserves,
     ClaimRefusePreserves DEF ClaimStep
<1>3. CASE \E w \in Workers, t \in Tasks :
             CompleteRejected(w, t) \/ \E ok \in BOOLEAN : Complete(w, t, ok)
  BY <1>3, CompletePreserves, CompleteRejectedPreserves
<1>4. CASE \E w \in Workers : Crash(w)
  BY <1>4, CrashPreserves
<1>5. CASE \E t \in Tasks : IssueUpdate(t) \/ IssueClose(t)
  <2>1. PICK t \in Tasks : IssueUpdate(t) \/ IssueClose(t)
    BY <1>5
  <2>2. CASE IssueUpdate(t)
    BY <2>2, QueueAssumption, IssueWritePreserves DEF IssueUpdate, Repriced
  <2>3. CASE IssueClose(t)
    <3>1. job[t] \in Jobs
      BY <2>3 DEF IssueClose, IssueWrite, Existing, QueueInv, RowsWellFormed
    <3>. QED
      BY <2>3, <3>1, IssueWritePreserves DEF IssueClose, Stored
  <2>. QED
    BY <2>1, <2>2, <2>3
<1>6. CASE UNCHANGED vars
  BY <1>6, StutterPreserves
<1>. QED
  BY <1>1, <1>2, <1>3, <1>4, <1>5, <1>6 DEF Next

\* The invariant of the work queue, for any tables, workers, jobs and faults.
THEOREM QueueInvariant == Spec => []QueueInv
<1>. QED
  BY InitEstablishes, NextPreserves, PTL DEF Spec

\* Types of the table and of the claims in progress.
THEOREM QueueTypeCorrect == Spec => []QueueTypeOK
<1>1. QueueInv => QueueTypeOK
  BY DEF QueueInv
<1>. QED
  BY <1>1, QueueInvariant, PTL

\* No double claim: a task is with two workers only after an issue call has
\* changed its status.
THEOREM NoDoubleClaim == Spec => []SingleWorker
<1>1. QueueInv => SingleWorker
  BY DEF QueueInv
<1>. QED
  BY <1>1, QueueInvariant, PTL

\* What is claimed had all its dependencies completed once.
THEOREM DependenciesHonoured == Spec => []DepsHonoured
<1>1. QueueInv => DepsHonoured
  BY DEF QueueInv
<1>. QED
  BY <1>1, QueueInvariant, PTL

\* A claimed task has a worker unless a crash or a failed give-back took it, or
\* an issue call claimed it for nobody.
THEOREM ClaimsAccounted == Spec => []ClaimAccounted
<1>1. QueueInv => ClaimAccounted
  BY DEF QueueInv, ClaimantHolds, ClaimAccounted
<1>. QED
  BY <1>1, QueueInvariant, PTL

-----------------------------------------------------------------------------
(* The refinement: how the table looks as a task board. *)
Phase == [t \in Tasks |->
    IF status[t] = "absent" THEN "none"
    ELSE IF t \in edited THEN "edited"
    ELSE IF status[t] = "pending" THEN "open"
    ELSE IF status[t] = "claimed" THEN "taken" ELSE "closed"]
Taker == [t \in Tasks |-> IF t \in edited THEN Nobody ELSE owner[t]]
Needs == [t \in Tasks |-> IF t \in edited THEN {} ELSE deps[t] \cap Tasks]

BoardStep == Board!Next \/ UNCHANGED <<Phase, Taker, Needs, done>>

\* The mapped variables, before and after a step, are functions on the tasks.
LEMMA BoardFunctions ==
    /\ Phase = [t \in Tasks |-> Phase[t]] /\ Phase' = [t \in Tasks |-> Phase'[t]]
    /\ Taker = [t \in Tasks |-> Taker[t]] /\ Taker' = [t \in Tasks |-> Taker'[t]]
    /\ Needs = [t \in Tasks |-> Needs[t]] /\ Needs' = [t \in Tasks |-> Needs'[t]]
BY DEF Phase, Taker, Needs

LEMMA BoardInit == Init => Board!Init
BY DEF Init, Board!Init

\* A step that leaves each task's phase, taker and needs alone and completes
\* nothing is a stutter.
LEMMA BoardStutter ==
    ASSUME \A t \in Tasks : /\ Phase'[t] = Phase[t]
                            /\ Taker'[t] = Taker[t]
                            /\ Needs'[t] = Needs[t],
           done' = done
    PROVE  BoardStep
<1>1. Phase' = Phase /\ Taker' = Taker /\ Needs' = Needs
  BY DEF Phase, Taker, Needs
<1>. QED
  BY <1>1 DEF BoardStep

LEMMA BoardUnchanged ==
    ASSUME UNCHANGED <<status, owner, deps, done, edited>>
    PROVE  BoardStep
BY DEF BoardStep, Phase, Taker, Needs

LEMMA BoardInsert ==
    ASSUME NEW t \in Tasks, NEW j \in Jobs, NEW D \in SUBSET (Tasks \cup Strays),
           QueueInv, Insert(t, j, D)
    PROVE  BoardStep
<1>1. /\ status[t] = "absent" /\ owner[t] = Nobody /\ deps[t] = {} /\ t \notin edited
      /\ status' = [status EXCEPT ![t] = "pending"]
      /\ deps' = [deps EXCEPT ![t] = D]
      /\ UNCHANGED <<owner, done, edited>>
  BY DEF Insert, QueueInv, RowsWellFormed
<1>2. \A u \in Tasks \ {t} : /\ Phase'[u] = Phase[u]
                             /\ Taker'[u] = Taker[u]
                             /\ Needs'[u] = Needs[u]
  BY <1>1 DEF Phase, Taker, Needs, QueueInv, QueueTypeOK
<1>3. Phase[t] = "none" /\ Taker[t] = Nobody
  BY <1>1 DEF Phase, Taker
<1>4. Phase'[t] = "open" /\ Taker'[t] = Nobody /\ Needs'[t] = D \cap Tasks
  BY <1>1 DEF Phase, Taker, Needs, QueueInv, QueueTypeOK
<1>5. /\ Phase' = [Phase EXCEPT ![t] = "open"]
      /\ Taker' = Taker
      /\ Needs' = [Needs EXCEPT ![t] = D \cap Tasks]
  BY <1>2, <1>3, <1>4, BoardFunctions
<1>6. Board!Post(t, D \cap Tasks)
  BY <1>1, <1>3, <1>5 DEF Board!Post, Phase, Taker, Needs
<1>. QED
  BY <1>6 DEF BoardStep, Board!Next

LEMMA BoardClaimUpdate ==
    ASSUME NEW w \in Workers, QueueInv, ClaimUpdate(w)
    PROVE  BoardStep
<1>1. PICK t \in Tasks : t = call[w].task
  BY DEF ClaimUpdate, QueueInv, CallsWellFormed, Idle
<1>2. /\ status[t] = "pending" /\ deps[t] \cap Tasks \subseteq done
      /\ status' = [status EXCEPT ![t] = "claimed"]
      /\ owner' = [owner EXCEPT ![t] = AgentOf[w]]
      /\ UNCHANGED <<deps, done, edited>>
  BY <1>1 DEF ClaimUpdate, QueueInv, SelectedStaysPending
<1>3. \A u \in Tasks \ {t} : /\ Phase'[u] = Phase[u]
                             /\ Taker'[u] = Taker[u]
                             /\ Needs'[u] = Needs[u]
  BY <1>2 DEF Phase, Taker, Needs, QueueInv, QueueTypeOK
<1>4. CASE t \in edited
  <2>1. /\ Phase'[t] = Phase[t]
        /\ Taker'[t] = Taker[t]
        /\ Needs'[t] = Needs[t]
    BY <1>2, <1>4 DEF Phase, Taker, Needs, QueueInv, QueueTypeOK
  <2>. QED
    BY <1>2, <1>3, <2>1, BoardStutter
<1>5. CASE t \notin edited
  <2>1. Phase[t] = "open" /\ Needs[t] \subseteq done
    BY <1>2, <1>5 DEF Phase, Needs
  <2>2. Phase'[t] = "taken" /\ Taker'[t] = AgentOf[w] /\ Needs'[t] = Needs[t]
    BY <1>2, <1>5 DEF Phase, Taker, Needs, QueueInv, QueueTypeOK
  <2>3. /\ Phase' = [Phase EXCEPT ![t] = "taken"]
        /\ Taker' = [Taker EXCEPT ![t] = AgentOf[w]]
        /\ Needs' = Needs
    BY <1>3, <2>2, BoardFunctions
  <2>4. Board!Take(t, AgentOf[w])
    BY <1>2, <2>1, <2>3 DEF Board!Take, Phase, Taker, Needs
  <2>. QED
    BY <2>4, QueueAssumption DEF BoardStep, Board!Next
<1>. QED
  BY <1>4, <1>5

\* Whatever happens to a task that has been edited, or is being edited, is an edit.
LEMMA BoardEdit ==
    ASSUME NEW t \in Tasks, NEW st \in Stored, QueueInv, status[t] # "absent",
           status' = [status EXCEPT ![t] = st],
           edited' = edited \cup {t},
           done' = IF st = "completed" THEN done \cup {t} ELSE done,
           UNCHANGED <<owner, deps>>
    PROVE  BoardStep
<1>1. \A u \in Tasks \ {t} : /\ Phase'[u] = Phase[u]
                             /\ Taker'[u] = Taker[u]
                             /\ Needs'[u] = Needs[u]
  BY DEF Phase, Taker, Needs, QueueInv, QueueTypeOK
<1>2. Phase'[t] = "edited" /\ Taker'[t] = Nobody /\ Needs'[t] = {}
  BY DEF Phase, Taker, Needs, QueueInv, QueueTypeOK, Stored
<1>3. Phase[t] # "none"
  BY DEF Phase
<1>4. /\ Phase' = [Phase EXCEPT ![t] = "edited"]
      /\ Taker' = [Taker EXCEPT ![t] = Nobody]
      /\ Needs' = [Needs EXCEPT ![t] = {}]
  BY <1>1, <1>2, BoardFunctions
<1>5. Board!Edit(t, st = "completed")
  BY <1>3, <1>4 DEF Board!Edit, Phase, Taker, Needs
<1>. QED
  BY <1>5 DEF BoardStep, Board!Next

\* Ending a task that nobody has edited closes what was taken or closed.
LEMMA BoardEnd ==
    ASSUME NEW t \in Tasks, NEW ok \in BOOLEAN, QueueInv,
           status[t] # "absent", t \in edited \/ status[t] # "pending",
           status' = [status EXCEPT ![t] = IF ok THEN "completed" ELSE "failed"],
           done' = IF ok THEN done \cup {t} ELSE done,
           UNCHANGED <<owner, deps, edited>>
    PROVE  BoardStep
<1>1. CASE t \in edited
  <2>1. edited' = edited \cup {t}
    BY <1>1
  <2>2. CASE ok
    BY <2>1, <2>2, BoardEdit DEF Stored
  <2>3. CASE ~ok
    BY <2>1, <2>3, BoardEdit DEF Stored
  <2>. QED
    BY <2>2, <2>3
<1>2. CASE t \notin edited
  <2>1. Taker' = Taker /\ Needs' = Needs
    BY DEF Taker, Needs
  <2>2. \A u \in Tasks \ {t} : Phase'[u] = Phase[u]
    BY DEF Phase, QueueInv, QueueTypeOK
  <2>3. Phase[t] \in {"taken", "closed"} /\ Phase'[t] = "closed"
    BY <1>2 DEF Phase, QueueInv, QueueTypeOK
  <2>4. Phase' = [Phase EXCEPT ![t] = "closed"]
    BY <2>2, <2>3 DEF Phase
  <2>5. Board!Close(t, ok)
    BY <2>1, <2>3, <2>4 DEF Board!Close, Phase, Taker, Needs
  <2>. QED
    BY <2>5 DEF BoardStep, Board!Next
<1>. QED
  BY <1>1, <1>2

LEMMA BoardIssueWrite ==
    ASSUME NEW t \in Tasks, NEW st \in Stored, NEW j \in Jobs,
           QueueInv, IssueWrite(t, st, j)
    PROVE  BoardStep
<1>1. /\ status[t] # "absent"
      /\ status' = [status EXCEPT ![t] = st]
      /\ done' = IF st = "completed" THEN done \cup {t} ELSE done
      /\ UNCHANGED <<owner, deps>>
  BY DEF IssueWrite, Existing
<1>2. CASE st = status[t]
  <2>1. UNCHANGED <<status, done, edited>>
    BY <1>1, <1>2 DEF IssueWrite, QueueInv, QueueTypeOK, CompletedIsDone
  <2>. QED
    BY <1>1, <2>1, BoardUnchanged
<1>3. CASE st # status[t]
  <2>1. edited' = edited \cup {t}
    BY <1>3 DEF IssueWrite
  <2>. QED
    BY <1>1, <2>1, BoardEdit
<1>. QED
  BY <1>2, <1>3

LEMMA BoardNext == QueueInv /\ [Next]_vars => BoardStep
<1> SUFFICES ASSUME QueueInv, [Next]_vars PROVE BoardStep
  OBVIOUS
<1>1. ASSUME NEW t \in Tasks, NEW j \in Jobs, NEW D \in SUBSET (Tasks \cup Strays), Insert(t, j, D)
      PROVE  BoardStep
  BY <1>1, BoardInsert
<1>2. ASSUME NEW w \in Workers, ClaimUpdate(w)
      PROVE  BoardStep
  BY <1>2, BoardClaimUpdate
<1>3. ASSUME NEW w \in Workers, ClaimRefuse(w)
      PROVE  BoardStep
  <2>1. PICK t \in Tasks : t = call[w].task
    BY <1>3 DEF ClaimRefuse, QueueInv, CallsWellFormed, Idle
  <2>2. /\ UNCHANGED <<owner, deps, done, edited>>
        /\ \/ status' = status
           \/ status' = [status EXCEPT ![t] = "failed"]
    BY <1>3, <2>1 DEF ClaimRefuse
  <2>3. Holds(w, t)
    BY <1>3, <2>1 DEF ClaimRefuse, Holds
  <2>4. status[t] # "absent" /\ (t \in edited \/ status[t] # "pending")
    BY <2>3 DEF QueueInv, HeldIsTaken
  <2>5. CASE status' = [status EXCEPT ![t] = "failed"]
    BY <2>2, <2>4, <2>5, BoardEnd
  <2>. QED
    BY <2>2, <2>5, BoardUnchanged
<1>4. ASSUME NEW w \in Workers, NEW t \in Tasks, NEW ok \in BOOLEAN, Complete(w, t, ok)
      PROVE  BoardStep
  <2>1. t \in edited \/ status[t] # "pending"
    BY <1>4, QueueAssumption DEF Complete, QueueInv, PendingUnowned
  <2>. QED
    BY <1>4, <2>1, BoardEnd DEF Complete
<1>5. ASSUME NEW t \in Tasks, IssueUpdate(t) \/ IssueClose(t)
      PROVE  BoardStep
  <2>1. CASE IssueUpdate(t)
    BY <2>1, QueueAssumption, BoardIssueWrite DEF IssueUpdate, Repriced
  <2>2. CASE IssueClose(t)
    <3>1. job[t] \in Jobs
      BY <2>2 DEF IssueClose, IssueWrite, Existing, QueueInv, RowsWellFormed
    <3>. QED
      BY <2>2, <3>1, BoardIssueWrite DEF IssueClose, Stored
  <2>. QED
    BY <1>5, <2>1, <2>2
<1>6. ASSUME UNCHANGED <<status, owner, deps, done, edited>>
      PROVE  BoardStep
  BY <1>6, BoardUnchanged
<1>7. ASSUME NEW w \in Workers,
             \/ \E f \in Filters : ClaimSelect(w, f)
             \/ ClaimHandOut(w)
             \/ \E t \in Tasks : CompleteRejected(w, t)
             \/ Crash(w)
      PROVE  UNCHANGED <<status, owner, deps, done, edited>>
  BY <1>7 DEF ClaimSelect, ClaimHandOut, CompleteRejected, Crash, rows
<1>8. UNCHANGED vars => UNCHANGED <<status, owner, deps, done, edited>>
  BY DEF vars
<1>. QED
  BY <1>1, <1>2, <1>3, <1>4, <1>5, <1>6, <1>7, <1>8
     DEF Next, ClaimStep, Submit, IssueCreate

\* The work queue implements the task board: a task is posted, taken once with
\* its needs met, and closed for good, as long as no issue call changes its status.
THEOREM QueueImplementsTaskBoard == Spec => ImplementsTaskBoard
<1>1. QueueInv /\ [Next]_vars => [Board!Next]_<<Phase, Taker, Needs, done>>
  BY BoardNext DEF BoardStep
<1>. QED
  BY BoardInit, <1>1, QueueInvariant, PTL
     DEF Spec, ImplementsTaskBoard, Board!Spec, Phase, Taker, Needs
=============================================================================
