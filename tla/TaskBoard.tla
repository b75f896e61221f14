------------------------------ MODULE TaskBoard ------------------------------
(***************************************************************************)
(* What the work queue promises about a task, with no rows, transactions,  *)
(* filters or scans: it is posted once, taken by at most one agent, and    *)
(* only when the tasks it needs have succeeded, and then closed for good.  *)
(* A closed task may still change its verdict, because complete_task does  *)
(* not look at the task's status.                                          *)
(***************************************************************************)
CONSTANTS Tasks, Agents, Nobody

VARIABLES
    phase,    \* [Tasks -> {"none", "open", "taken", "closed", "edited"}]
    taker,    \* [Tasks -> Agents \cup {Nobody}]
    needs,    \* [Tasks -> SUBSET Tasks]
    good      \* the tasks that have succeeded at some time

Init ==
    /\ phase = [t \in Tasks |-> "none"]
    /\ taker = [t \in Tasks |-> Nobody]
    /\ needs = [t \in Tasks |-> {}]
    /\ good = {}

Post(t, D) ==
    /\ phase[t] = "none"
    /\ phase' = [phase EXCEPT ![t] = "open"]
    /\ needs' = [needs EXCEPT ![t] = D]
    /\ UNCHANGED <<taker, good>>

Take(t, a) ==
    /\ phase[t] = "open"
    /\ needs[t] \subseteq good
    /\ phase' = [phase EXCEPT ![t] = "taken"]
    /\ taker' = [taker EXCEPT ![t] = a]
    /\ UNCHANGED <<needs, good>>

Close(t, ok) ==
    /\ phase[t] \in {"taken", "closed"}
    /\ phase' = [phase EXCEPT ![t] = "closed"]
    /\ good' = IF ok THEN good \cup {t} ELSE good
    /\ UNCHANGED <<taker, needs>>

\* Somebody edits the task by hand: from then on the board promises nothing
\* about it, except that a success is remembered.
Edit(t, ok) ==
    /\ phase[t] # "none"
    /\ phase' = [phase EXCEPT ![t] = "edited"]
    /\ taker' = [taker EXCEPT ![t] = Nobody]
    /\ needs' = [needs EXCEPT ![t] = {}]
    /\ good' = IF ok THEN good \cup {t} ELSE good

Next ==
    \E t \in Tasks :
        \/ \E D \in SUBSET Tasks : Post(t, D)
        \/ \E a \in Agents : Take(t, a)
        \/ \E ok \in BOOLEAN : Close(t, ok) \/ Edit(t, ok)

Spec == Init /\ [][Next]_<<phase, taker, needs, good>>
=============================================================================
