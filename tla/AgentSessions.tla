---------------------------- MODULE AgentSessions ----------------------------
(***************************************************************************)
(* agent_sessions and the lock table together: registration, heartbeats,   *)
(* kick_agent and cleanup_dead_agents (migrations 003 and 026,             *)
(* discovery.py, coordination_api.py).  The clean-up is one transaction of *)
(* three statements.  Each reads what is committed when it begins; what it *)
(* writes is locked, and seen by nobody, until the commit.                 *)
(***************************************************************************)
EXTENDS FileLocks

CONSTANTS
    StaleAfter,  \* p_stale_threshold (15 minutes by default)
    NoSession,   \* "no SESSION_ID in the coordinator's configuration"
    Default      \* config.agent.session_id of the coordinator

ASSUME SessionAssumption ==
    /\ StaleAfter \in Nat
    /\ NoSession \notin Sessions
    /\ Default \in Sessions \cup {NoSession}

VARIABLES
    status,  \* [Sessions -> {"none", "active", "disconnected"}]; "none": no row
    quiet,   \* [Sessions -> Nat]: NOW() - last_heartbeat, counted up to
             \* StaleAfter + 1
    beats,   \* session ids for which an agent_heartbeat call is under way
    cleanup  \* the cleanup_dead_agents transaction in progress

sessionVars == <<status, quiet, beats, cleanup>>
lifecycleVars == <<holder, left, tx, force, lease, dead, status, quiet, beats, cleanup>>

\* v_stale_agent_ids, and what the UPDATE and the DELETE have locked.
Cleanups == [pc : {"idle", "update", "delete", "commit"}, agents : SUBSET Agents,
             rows : SUBSET Sessions, keys : SUBSET Keys]

NoCleanup == [pc |-> "idle", agents |-> {}, rows |-> {}, keys |-> {}]

LifecycleInit ==
    /\ Init
    /\ status = [s \in Sessions |-> "none"]
    /\ quiet = [s \in Sessions |-> 0]
    /\ beats = {}
    /\ cleanup = NoCleanup

\* The rows of the agents A.
RowsOf(A) == {s \in Sessions : AgentOf[s] \in A /\ status[s] # "none"}

\* register_agent_session: INSERT ... ON CONFLICT (id) DO UPDATE.
Register(s) ==
    /\ s \notin dead
    /\ s \notin cleanup.rows
    /\ status' = [status EXCEPT ![s] = "active"]
    /\ quiet' = [quiet EXCEPT ![s] = 0]
    /\ UNCHANGED <<beats, cleanup, vars>>

\* agent_id=eq.a & status=eq.active & order=last_heartbeat.desc & limit=1
MostRecent(a) ==
    {s \in RowsOf({a}) :
        /\ status[s] = "active"
        /\ \A t \in RowsOf({a}) : status[t] = "active" => quiet[s] <= quiet[t]}

\* DiscoveryService.heartbeat: c gives its session id; or only its agent_id, and
\* the service looks for that agent's most recent active session; or the service
\* finds none, or the query raises, and it takes its own.
SendHeartbeat(c) ==
    /\ c \notin dead
    /\ \E s \in ({c} \cup MostRecent(AgentOf[c]) \cup {Default}) \ {NoSession} :
         beats' = beats \cup {s}
    /\ UNCHANGED <<status, quiet, cleanup, vars>>

\* agent_heartbeat(p_session_id), whoever is still there to hear the answer: it
\* also brings a disconnected session back, and it does nothing without a row.
Heartbeat(s) ==
    /\ s \in beats
    /\ s \notin cleanup.rows
    /\ beats' = beats \ {s}
    /\ \/ /\ status[s] # "none"
          /\ status' = [status EXCEPT ![s] = "active"]
          /\ quiet' = [quiet EXCEPT ![s] = 0]
       \/ /\ status[s] = "none"
          /\ UNCHANGED <<status, quiet>>
    /\ UNCHANGED <<cleanup, vars>>

\* kick_agent: an operator disconnects the rows of an agent with a heartbeat of
\* 1970; its locks are reported and stay.
Kick(a) ==
    /\ RowsOf({a}) \cap cleanup.rows = {}
    /\ status' = [s \in Sessions |->
                     IF s \in RowsOf({a}) THEN "disconnected" ELSE status[s]]
    /\ quiet' = [s \in Sessions |->
                     IF s \in RowsOf({a}) THEN StaleAfter + 1 ELSE quiet[s]]
    /\ UNCHANGED <<beats, cleanup, vars>>

-----------------------------------------------------------------------------
(* cleanup_dead_agents                                                     *)

\* Mutant: the comparison with the threshold is the wrong way round.
IsStaleInverted(s) == status[s] = "active" /\ quiet[s] < StaleAfter
\* status IN ('active', 'idle') AND last_heartbeat < NOW() - p_stale_threshold;
\* nothing in the code sets 'idle'.
IsStale(s) == status[s] = "active" /\ quiet[s] > StaleAfter

\* The SELECT of stale agents.  Without any it returns.
CleanupSelect ==
    /\ cleanup.pc = "idle"
    /\ \E s \in Sessions : IsStale(s)
    /\ cleanup' = [NoCleanup EXCEPT !.pc = "update",
                      !.agents = {AgentOf[s] : s \in {t \in Sessions : IsStale(t)}}]
    /\ UNCHANGED <<status, quiet, beats, vars>>

\* The UPDATE of agent_sessions: by agent, not by session, and without a second
\* look at the heartbeats.
CleanupUpdate ==
    /\ cleanup.pc = "update"
    /\ cleanup' = [cleanup EXCEPT !.pc = "delete", !.rows = RowsOf(cleanup.agents)]
    /\ UNCHANGED <<status, quiet, beats, vars>>

\* The DELETE FROM file_locks WHERE locked_by = ANY(v_stale_agent_ids).
CleanupDelete ==
    /\ cleanup.pc = "delete"
    /\ cleanup' = [cleanup EXCEPT !.pc = "commit",
                      !.keys = {k \in Keys : holder[k] \in cleanup.agents}]
    /\ UNCHANGED <<status, quiet, beats, vars>>

CleanupCommit ==
    /\ cleanup.pc = "commit"
    /\ status' = [s \in Sessions |->
                     IF s \in cleanup.rows THEN "disconnected" ELSE status[s]]
    /\ DropRows(cleanup.keys)
    /\ cleanup' = NoCleanup
    /\ UNCHANGED <<quiet, beats>>

-----------------------------------------------------------------------------
(* The calls of FileLocks, next to a clean-up                              *)

\* Mutant: each statement of the clean-up is committed on its own, so that its
\* row locks are gone.
WaitsNever(s) == FALSE
\* acquire_lock waits for rows that the DELETE has locked.
Waits(s) ==
    /\ tx[s].pc # "idle"
    /\ \/ tx[s].key \in cleanup.keys
       \/ tx[s].pc = "insert" /\ \E k \in cleanup.keys : Expired(k, tx[s].age)

SessionLocks(s) ==
    /\ \/ \E k \in Keys, ttl \in TTLs : AcquireStart(s, k, ttl)
       \/ /\ ~Waits(s)
          /\ \E heard \in BOOLEAN : AcquireInsert(s, heard) \/ AcquireResolve(s, heard)
       \/ \E k \in Keys \ cleanup.keys : Release(s, k)
       \/ Crash(s)
    /\ UNCHANGED sessionVars

OperatorLocks(o) ==
    /\ \/ \E k \in Keys : ForceRead(o, k)
       \/ force[o] \notin cleanup.keys /\ ForceDelete(o)
       \/ ForceFail(o)
    /\ UNCHANGED sessionVars

LifecycleTick ==
    /\ Tick
    /\ quiet' = [s \in Sessions |->
                    IF status[s] = "none" THEN 0
                    ELSE Smaller(quiet[s] + 1, StaleAfter + 1)]
    /\ UNCHANGED <<status, beats, cleanup>>

LifecycleNext ==
    \/ \E s \in Sessions :
         Register(s) \/ SendHeartbeat(s) \/ Heartbeat(s) \/ SessionLocks(s)
    \/ \E a \in Agents : Kick(a)
    \/ \E o \in Operators : OperatorLocks(o)
    \/ CleanupSelect
    \/ CleanupUpdate
    \/ CleanupDelete
    \/ CleanupCommit
    \/ LifecycleTick

LifecycleSpec == LifecycleInit /\ [][LifecycleNext]_lifecycleVars

\* Somebody keeps calling POST /discovery/cleanup; the database finishes what
\* it started, and time does not stop however many calls are made.
FairLifecycleSpec ==
    /\ LifecycleSpec
    /\ WF_lifecycleVars(CleanupSelect)
    /\ WF_lifecycleVars(CleanupUpdate \/ CleanupDelete \/ CleanupCommit)
    /\ SF_lifecycleVars(LifecycleTick)
    /\ \A s \in Sessions :
         /\ WF_lifecycleVars(Heartbeat(s))
         /\ WF_lifecycleVars(/\ ~Waits(s)
                             /\ \E heard \in BOOLEAN :
                                  AcquireInsert(s, heard) \/ AcquireResolve(s, heard)
                             /\ UNCHANGED sessionVars)

-----------------------------------------------------------------------------
(* Properties                                                              *)

\* Every variable of the lifecycle has its type.
LifecycleTypeOK ==
    /\ TypeOK
    /\ status \in [Sessions -> {"none", "active", "disconnected"}]
    /\ quiet \in [Sessions -> 0 .. StaleAfter + 1]
    /\ beats \subseteq Sessions
    /\ cleanup \in Cleanups

\* The rows that a clean-up takes out of file_locks are, when it commits, still
\* those of agents it found stale: none has changed hands since the DELETE chose
\* it, by a release, an expiry and a sweep or an operator (force_release, which
\* also reads first and deletes later, has no such guarantee).
CleanupTakesItsOwn == \A k \in cleanup.keys : holder[k] \in cleanup.agents

\* Nobody is left to send a heartbeat for a session of agent a.
Silent(a) ==
    /\ {s \in Sessions : AgentOf[s] = a} \subseteq dead
    /\ Default # NoSession /\ AgentOf[Default] = a => Sessions \subseteq dead

\* "The system SHALL detect unresponsive agents and reclaim their resources":
\* once all callers of an agent have crashed, its sessions are disconnected and
\* its keys come free, although heartbeats and locks they asked for before may
\* still be carried out, after a clean-up too.
DeadAgentDetected ==
    \A a \in Agents :
        Silent(a) ~> /\ \A s \in Sessions : AgentOf[s] = a => status[s] # "active"
                     /\ \A k \in Keys : Active(k) => holder[k] # a
=============================================================================
