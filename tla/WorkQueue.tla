------------------------------ MODULE WorkQueue ------------------------------
(***************************************************************************)
(* The work_queue table: WorkQueueService (work_queue.py) over the         *)
(* claim_task, complete_task and submit_task database functions, and       *)
(* IssueService (issue_service.py), which keeps its issues in the same     *)
(* table and writes their status without those functions.                  *)
(*                                                                         *)
(* A claim takes three steps: the SELECT ... FOR UPDATE SKIP LOCKED of     *)
(* claim_task, its UPDATE with the commit, and the guardrail scan that     *)
(* WorkQueueService.claim makes before it answers.  A call that policy, a  *)
(* result scan or a CHECK constraint refuses changes nothing and is not    *)
(* modelled; attempt_count, results and timestamps are never read back.    *)
(***************************************************************************)
EXTENDS Integers, FiniteSets

CONSTANTS
    Tasks,     \* ids of rows
    Strays,    \* ids that depends_on may name although no row has them
    Agents,    \* values of agent_id
    Workers,   \* callers; several workers may share one agent_id
    AgentOf,   \* [Workers -> Agents]
    Jobs,      \* what a row asks for: task_type, priority and submitted_by
    Filters,   \* the task_types arguments callers pass, {} for None (an empty
               \* list, which claims nothing, is not modelled)
    Suited,    \* agents and jobs whose archetype and trust filters agree
    Blocked,   \* agents and jobs the guardrails refuse them
    Writes,    \* statuses that issue updates write
    Faults,    \* which exceptions can happen: "guardrail" (the scan or the
               \* trust lookup), "complete" (the call that returns the claim)
    MaxCrashes, \* bound on workers that crash or lose an answer
    NoTask, Nobody, NoJob

Types == {"test", "review", "issue"}
NoFilter == {}

\* CHECK (status IN (...))
Stored == {"pending", "claimed", "running", "completed", "failed", "cancelled"}

ASSUME QueueAssumption ==
    /\ IsFiniteSet(Tasks)
    /\ AgentOf \in [Workers -> Agents]
    /\ Jobs \subseteq [type : Types, priority : 1 .. 10, by : Agents \cup {Nobody}]
    /\ Filters \subseteq SUBSET Types
    /\ Writes \subseteq Stored
    /\ MaxCrashes \in Nat
    /\ NoTask \notin Tasks
    /\ Strays \cap Tasks = {}
    /\ Nobody \notin Agents
    /\ NoJob \notin Jobs

VARIABLES
    status,     \* [Tasks -> Status]: the status column, "absent" without a row
    owner,      \* [Tasks -> Agents \cup {Nobody}]: claimed_by
    job,        \* [Tasks -> Jobs \cup {NoJob}]
    deps,       \* [Tasks -> SUBSET (Tasks \cup Strays)]: depends_on
    born,       \* [Tasks -> Nat]: the order of created_at
    call,       \* [Workers -> Call]: the claim a worker is in
    has,        \* [Workers -> SUBSET Tasks]: what a worker was told it got
    done,       \* tasks that have been completed at some time (history)
    lost,       \* claimed tasks whose claimant will not act on them (history)
    edited,     \* tasks whose status an issue call has changed (history)
    crashes     \* how many crashes there have been

rows == <<status, owner, job, deps, born>>
vars == <<status, owner, job, deps, born, call, has, done, lost, edited,
          crashes>>

-----------------------------------------------------------------------------
\* "absent" is no row.
Status == Stored \cup {"absent"}

Call == [pc : {"idle", "select", "scan"}, task : Tasks \cup {NoTask}]
Idle == [pc |-> "idle", task |-> NoTask]

Existing == {t \in Tasks : status[t] # "absent"}

\* Rows whose lock an open claim_task transaction holds.
RowLocked == {t \in Tasks : \E w \in Workers : call[w].pc = "select" /\ call[w].task = t}

Init ==
    /\ status = [t \in Tasks |-> "absent"]
    /\ owner = [t \in Tasks |-> Nobody]
    /\ job = [t \in Tasks |-> NoJob]
    /\ deps = [t \in Tasks |-> {}]
    /\ born = [t \in Tasks |-> 0]
    /\ call = [w \in Workers |-> Idle]
    /\ has = [w \in Workers |-> {}]
    /\ done = {}
    /\ lost = {}
    /\ edited = {}
    /\ crashes = 0

\* Ids are drawn by the database: a dependency is a row there is, or an id that
\* is no row's.
Insert(t, j, D) ==
    /\ status[t] = "absent"
    /\ D \subseteq Existing \cup Strays
    /\ status' = [status EXCEPT ![t] = "pending"]
    /\ job' = [job EXCEPT ![t] = j]
    /\ deps' = [deps EXCEPT ![t] = D]
    /\ born' = [born EXCEPT ![t] = Cardinality(Existing) + 1]
    /\ UNCHANGED <<owner, call, has, done, lost, edited, crashes>>

\* WorkQueueService.submit: a refused scan inserts nothing, a scan that fails
\* is logged and the row inserted.
Submit(t, a, j, D) ==
    /\ j.type # "issue"
    /\ <<a, j>> \notin Blocked \/ "guardrail" \in Faults
    /\ Insert(t, j, D)

\* IssueService.create inserts without policy or guardrails.
IssueCreate(t, j, D) ==
    /\ j.type = "issue"
    /\ Insert(t, j, D)

\* Mutant: any ended dependency counts.
DepsEnded(t) ==
    \A d \in deps[t] \cap Existing : status[d] \notin {"pending", "claimed", "running"}
\* NOT EXISTS a row among the dependencies that is not completed: a failed one
\* blocks until somebody edits it, one without a row counts as met.
DepsMet(t) == \A d \in deps[t] \cap Existing : status[d] = "completed"

\* The task type filter, and the self-review exclusion, which claim() asks for
\* only when the caller named the review type.
Wanted(f, a, j) ==
    \/ f = NoFilter
    \/ /\ j.type \in f
       /\ "review" \in f => j.by # a

\* Mutant: a claim that does not lock the row it chose.
EligibleUnlocked(w, f, t) ==
    /\ status[t] = "pending"
    /\ Wanted(f, AgentOf[w], job[t])
    /\ DepsMet(t)
    /\ <<AgentOf[w], job[t]>> \in Suited
Eligible(w, f, t) ==
    /\ status[t] = "pending"
    /\ t \notin RowLocked
    /\ Wanted(f, AgentOf[w], job[t])
    /\ DepsMet(t)
    /\ <<AgentOf[w], job[t]>> \in Suited

\* ORDER BY priority, created_at
Before(t, u) ==
    \/ job[t].priority < job[u].priority
    \/ job[t].priority = job[u].priority /\ born[t] <= born[u]

\* Mutant: ORDER BY priority DESC.
ClaimSelectLast(w, f) ==
    /\ call[w] = Idle
    /\ \E t \in Tasks :
        /\ Eligible(w, f, t)
        /\ \A u \in Tasks : Eligible(w, f, u) => Before(u, t)
        /\ call' = [call EXCEPT ![w] = [pc |-> "select", task |-> t]]
    /\ UNCHANGED <<rows, has, done, lost, edited, crashes>>
\* The SELECT of claim_task: the first eligible row that is not locked.
ClaimSelect(w, f) ==
    /\ call[w] = Idle
    /\ \E t \in Tasks :
        /\ Eligible(w, f, t)
        /\ \A u \in Tasks : Eligible(w, f, u) => Before(t, u)
        /\ call' = [call EXCEPT ![w] = [pc |-> "select", task |-> t]]
    /\ UNCHANGED <<rows, has, done, lost, edited, crashes>>

\* The UPDATE of claim_task and the commit.
ClaimUpdate(w) ==
    LET t == call[w].task IN
    /\ call[w].pc = "select"
    /\ status' = [status EXCEPT ![t] = "claimed"]
    /\ owner' = [owner EXCEPT ![t] = AgentOf[w]]
    /\ call' = [call EXCEPT ![w].pc = "scan"]
    /\ lost' = lost \ {t}
    /\ UNCHANGED <<job, deps, born, has, done, edited, crashes>>

\* The scan lets the job through, or raises and is ignored: the worker has it.
ClaimHandOut(w) ==
    LET t == call[w].task IN
    /\ call[w].pc = "scan"
    /\ <<AgentOf[w], job[t]>> \notin Blocked \/ "guardrail" \in Faults
    /\ has' = [has EXCEPT ![w] = @ \cup {t}]
    /\ call' = [call EXCEPT ![w] = Idle]
    /\ UNCHANGED <<rows, done, lost, edited, crashes>>

\* The scan refuses the job: claim() fails the task with complete_task, whose
\* exception is only logged.
\* Mutant: the refused claim is not given back.
RefuseKeepsClaim(w) ==
    /\ call[w].pc = "scan"
    /\ <<AgentOf[w], job[call[w].task]>> \in Blocked
    /\ call' = [call EXCEPT ![w] = Idle]
    /\ UNCHANGED <<rows, has, done, lost, edited, crashes>>
ClaimRefuse(w) ==
    LET t == call[w].task IN
    /\ call[w].pc = "scan"
    /\ <<AgentOf[w], job[t]>> \in Blocked
    /\ call' = [call EXCEPT ![w] = Idle]
    /\ \/ /\ t \notin RowLocked
          /\ status' = IF owner[t] = AgentOf[w]
                       THEN [status EXCEPT ![t] = "failed"] ELSE status
          /\ UNCHANGED lost
       \/ /\ "complete" \in Faults
          /\ lost' = lost \cup {t}
          /\ UNCHANGED status
    /\ UNCHANGED <<owner, job, deps, born, has, done, edited, crashes>>

\* WorkQueueService.complete, also behind cancel_task_convention: complete_task
\* asks only that the caller's agent is claimed_by.
\* Mutant: a failure gives the task back for another attempt.
CompleteRetries(w, t, ok) ==
    /\ status[t] # "absent" /\ t \notin RowLocked
    /\ owner[t] = AgentOf[w]
    /\ status' = [status EXCEPT ![t] = IF ok THEN "completed" ELSE "pending"]
    /\ done' = IF ok THEN done \cup {t} ELSE done
    /\ has' = [has EXCEPT ![w] = @ \ {t}]
    /\ UNCHANGED <<owner, job, deps, born, call, lost, edited, crashes>>
Complete(w, t, ok) ==
    /\ status[t] # "absent" /\ t \notin RowLocked
    /\ owner[t] = AgentOf[w]
    /\ status' = [status EXCEPT ![t] = IF ok THEN "completed" ELSE "failed"]
    /\ done' = IF ok THEN done \cup {t} ELSE done
    /\ has' = [has EXCEPT ![w] = @ \ {t}]
    /\ UNCHANGED <<owner, job, deps, born, call, lost, edited, crashes>>

\* complete_task answers that the task is not the caller's.
CompleteRejected(w, t) ==
    /\ t \in has[w]
    /\ owner[t] # AgentOf[w]
    /\ has' = [has EXCEPT ![w] = @ \ {t}]
    /\ UNCHANGED <<rows, call, done, lost, edited, crashes>>

\* IssueService.update and close write a row by id, whatever its task_type and
\* its status: only claimed_by stays.  Who writes "claimed" claims for nobody.
IssueWrite(t, s, j) ==
    /\ t \in Existing /\ t \notin RowLocked
    /\ status' = [status EXCEPT ![t] = s]
    /\ job' = [job EXCEPT ![t] = j]
    /\ done' = IF s = "completed" THEN done \cup {t} ELSE done
    /\ edited' = IF s = status[t] THEN edited ELSE edited \cup {t}
    /\ lost' = IF s = "claimed" /\ s # status[t] THEN lost \cup {t} ELSE lost
    /\ UNCHANGED <<owner, deps, born, call, has, crashes>>

\* The job with another priority.
Repriced(t) == {j \in Jobs : j.type = job[t].type /\ j.by = job[t].by}

\* Mutant: the friendly status is written as it is.
IssueUpdateUnmapped(t) ==
    t \in Existing /\ \E s \in {"open", "in_progress"} : IssueWrite(t, s, job[t])
\* open, in_progress and closed are translated, every other status is passed on
\* and the CHECK constraint admits what the column may hold.
IssueUpdate(t) ==
    /\ t \in Existing
    /\ \E s \in Writes, j \in Repriced(t) : IssueWrite(t, s, j)

IssueClose(t) == IssueWrite(t, "completed", job[t])

\* A worker crashes, or the answer to its claim is lost: an open transaction
\* rolls back, a committed claim stays, and the worker knows of nothing.
Crash(w) ==
    /\ crashes < MaxCrashes
    /\ crashes' = crashes + 1
    /\ call' = [call EXCEPT ![w] = Idle]
    /\ has' = [has EXCEPT ![w] = {}]
    /\ lost' = lost \cup has[w]
                    \cup (IF call[w].pc = "scan" THEN {call[w].task} ELSE {})
    /\ UNCHANGED <<rows, done, edited>>

ClaimStep(w) ==
    \/ \E f \in Filters : ClaimSelect(w, f)
    \/ ClaimUpdate(w)
    \/ ClaimHandOut(w)
    \/ ClaimRefuse(w)

Next ==
    \/ \E t \in Tasks, j \in Jobs, D \in SUBSET (Tasks \cup Strays) :
        \/ \E a \in Agents : Submit(t, a, j, D)
        \/ IssueCreate(t, j, D)
    \/ \E w \in Workers :
        \/ ClaimStep(w)
        \/ \E t \in Tasks : CompleteRejected(w, t)
        \/ \E t \in Tasks, ok \in BOOLEAN : Complete(w, t, ok)
        \/ Crash(w)
    \/ \E t \in Tasks : IssueUpdate(t) \/ IssueClose(t)

Spec == Init /\ [][Next]_vars

\* Workers finish the claims they begin and keep asking for work of any type.
\* Nothing obliges a worker to complete a task, or anybody to touch an issue.
FairSpec ==
    /\ Spec
    /\ \A w \in Workers :
         /\ WF_vars(ClaimUpdate(w) \/ ClaimHandOut(w) \/ ClaimRefuse(w))
         /\ SF_vars(ClaimSelect(w, NoFilter))

-----------------------------------------------------------------------------
(* Properties                                                              *)

\* Every variable of the table, of the claims and of the history has its type.
QueueTypeOK ==
    /\ status \in [Tasks -> Status]
    /\ owner \in [Tasks -> Agents \cup {Nobody}]
    /\ job \in [Tasks -> Jobs \cup {NoJob}]
    /\ deps \in [Tasks -> SUBSET (Tasks \cup Strays)]
    /\ born \in [Tasks -> Nat]
    /\ call \in [Workers -> Call]
    /\ has \in [Workers -> SUBSET Tasks]
    /\ done \subseteq Tasks
    /\ lost \subseteq Tasks
    /\ edited \subseteq Tasks
    /\ crashes \in 0 .. MaxCrashes

\* Worker w has task t, or its claim of t has committed and will be answered.
Holds(w, t) == t \in has[w] \/ (call[w].pc = "scan" /\ call[w].task = t)

\* Whatever claims, crashes, completions and issue calls overlap, a task is with
\* two workers only after an issue call has changed its status (the row lock and
\* the status test of claim_task).
SingleWorker ==
    \A t \in Tasks, v, w \in Workers :
        Holds(v, t) /\ Holds(w, t) /\ v # w => t \in edited

\* A task is claimed only after each task it depends on has been completed once,
\* although other transactions change the dependencies while claim_task runs.
\* What depends on an id without a row does not wait for it.
DepsHonoured ==
    \A t \in Tasks : owner[t] # Nobody => deps[t] \cap Tasks \subseteq done

\* A claimed task has a worker, unless a crash, a lost answer or a failed
\* give-back took it away or an issue call claimed it for nobody: reopened tasks,
\* refusals by the scan and claims by two sessions of an agent leave no others.
ClaimAccounted ==
    \A t \in Tasks :
        status[t] = "claimed" => t \in lost \/ \E w \in Workers : Holds(w, t)

\* A pending task whose dependencies are completed and that suits some worker.
Waiting(t) ==
    /\ status[t] = "pending"
    /\ DepsMet(t)
    /\ \E w \in Workers : <<AgentOf[w], job[t]>> \in Suited

\* A ready task is claimed, or stops being ready, or it is passed over for one
\* that has the better priority or age, each time it is not: no row lock, filter
\* or crash keeps it waiting, though an endless stream of urgent tasks may.
ReadyServed ==
    \A t \in Tasks :
        Waiting(t) ~> \/ ~Waiting(t)
                      \/ \E u \in RowLocked \ {t} : Before(u, t)

\* The refinement: a row whose status no issue call has changed implements the
\* abstract task board.
Board == INSTANCE TaskBoard WITH
    phase <- [t \in Tasks |->
        IF status[t] = "absent" THEN "none"
        ELSE IF t \in edited THEN "edited"
        ELSE IF status[t] = "pending" THEN "open"
        ELSE IF status[t] = "claimed" THEN "taken" ELSE "closed"],
    taker <- [t \in Tasks |-> IF t \in edited THEN Nobody ELSE owner[t]],
    needs <- [t \in Tasks |-> IF t \in edited THEN {} ELSE deps[t] \cap Tasks],
    good <- done

\* A task is posted, taken once with its needs met, and closed for good, as long
\* as nobody edits it.
ImplementsTaskBoard == Board!Spec
=============================================================================
