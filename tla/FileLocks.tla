------------------------------ MODULE FileLocks ------------------------------
(***************************************************************************)
(* The file_locks table of the agent coordinator and the operations that   *)
(* change it: the acquire_lock and release_lock database functions         *)
(* (migration 001), LockService.force_release (locks.py) and the DELETE of *)
(* cleanup_dead_agents (migration 003).                                    *)
(*                                                                         *)
(* Time is relative: `left[k]' is expires_at - NOW() of the row of key k,  *)
(* counted down by Tick, so that no bound on the clock is needed.  NOW()   *)
(* in a database function is the start of its transaction, which may have  *)
(* waited for another transaction's row lock: `tx[s].age' is the time      *)
(* since then.                                                             *)
(***************************************************************************)
EXTENDS Integers

CONSTANTS
    Agents,     \* values of agent_id
    Sessions,   \* callers; several sessions may share one agent_id
    AgentOf,    \* [Sessions -> Agents]: the identity a session calls with
    Keys,       \* file paths and logical lock keys
    Operators,  \* callers of the operator endpoint DELETE /locks/{file_path}
    MinTTL,     \* smallest and largest TTL the agents ask for: acquire_lock
    MaxTTL,     \* accepts 1 to 480 minutes, 120 is its default
    MaxWait,    \* how long a transaction can wait for a row lock
    NoAgent,    \* "no row" in holder
    NoKey       \* "no call in progress"

ASSUME LockAssumption ==
    /\ AgentOf \in [Sessions -> Agents]
    /\ MinTTL \in Nat \ {0}
    /\ MaxTTL \in Nat
    /\ MinTTL <= MaxTTL
    /\ MaxWait \in Nat
    /\ NoAgent \notin Agents
    /\ NoKey \notin Keys

VARIABLES
    holder,  \* [Keys -> Agents \cup {NoAgent}]: file_locks.locked_by
    left,    \* [Keys -> Int]: file_locks.expires_at - NOW(), 0 without a row
    tx,      \* [Sessions -> Tx]: the acquire_lock call a session is in
    force,   \* [Operators -> Keys \cup {NoKey}]: the key whose row the
             \* force_release call of an operator has read
    lease,   \* [Sessions -> [Keys -> Nat]]: how much longer a session counts on
             \* a key, from the expires_at of the last answer it had about it
             \* (a history variable)
    dead     \* sessions that have crashed and will not call again

vars == <<holder, left, tx, force, lease, dead>>

-----------------------------------------------------------------------------
\* Mutant: the upper bound of p_ttl_minutes is off by one.
TTLsTooLong == MinTTL .. MaxTTL + 1
TTLs == MinTTL .. MaxTTL

\* Rows that expired longer ago than any transaction's NOW() are not told apart.
Oldest == -(MaxWait + 1)

Tx == [pc : {"idle", "insert", "conflict"}, key : Keys \cup {NoKey},
       ttl : 0 .. MaxTTL, age : 0 .. MaxWait]

NoTx == [pc |-> "idle", key |-> NoKey, ttl |-> 0, age |-> 0]

Larger(a, b) == IF a >= b THEN a ELSE b
Smaller(a, b) == IF a <= b THEN a ELSE b

Init ==
    /\ holder = [k \in Keys |-> NoAgent]
    /\ left = [k \in Keys |-> 0]
    /\ tx = [s \in Sessions |-> NoTx]
    /\ force = [o \in Operators |-> NoKey]
    /\ lease = [s \in Sessions |-> [k \in Keys |-> 0]]
    /\ dead = {}

\* A session goes by what it was told: the coordinator has committed an expiry
\* e for k, and the answer arrives or is lost.  Other sessions of the same agent
\* hear nothing of it and go on counting on what they were told before.
Told(s, k, e, heard) ==
    IF heard THEN [lease EXCEPT ![s][k] = Larger(e, 0)] ELSE lease

\* What the holders of the keys K were promised is taken back with their rows
\* (the properties are about leases that nobody took back).
Withdraw(K) ==
    [s \in Sessions |-> [k \in Keys |->
        IF k \in K /\ holder[k] = AgentOf[s] THEN 0 ELSE lease[s][k]]]

-----------------------------------------------------------------------------
(* acquire_lock                                                            *)

\* Mutants: the sweep does not ask whether a row has expired; the sweep is
\* dropped.
ExpiredAny(k, age) == holder[k] # NoAgent
NeverExpired(k, age) == FALSE
\* DELETE FROM file_locks WHERE expires_at < NOW(), NOW() being `age' ago.
Expired(k, age) == holder[k] # NoAgent /\ left[k] + age < 0

\* The policy check has passed and the arguments are valid (every other call
\* returns without touching the table); the transaction starts.
AcquireStart(s, k, ttl) ==
    /\ s \notin dead
    /\ tx[s].pc = "idle"
    /\ tx' = [tx EXCEPT ![s] = [pc |-> "insert", key |-> k, ttl |-> ttl, age |-> 0]]
    /\ UNCHANGED <<holder, left, force, lease, dead>>

\* The sweep of expired rows, then INSERT ... ON CONFLICT DO NOTHING.
AcquireInsert(s, heard) ==
    LET k     == tx[s].key
        e     == tx[s].ttl - tx[s].age
        swept == {j \in Keys : Expired(j, tx[s].age)}
        free  == holder[k] = NoAgent \/ k \in swept
        after == [j \in Keys |-> IF j \in swept THEN NoAgent ELSE holder[j]]
        time  == [j \in Keys |-> IF j \in swept THEN 0 ELSE left[j]]
    IN  /\ tx[s].pc = "insert"
        /\ \/ /\ free
              /\ holder' = [after EXCEPT ![k] = AgentOf[s]]
              /\ left' = [time EXCEPT ![k] = e]
              /\ tx' = [tx EXCEPT ![s] = NoTx]
              /\ lease' = Told(s, k, e, heard)
           \/ /\ ~free
              /\ holder' = after
              /\ left' = time
              /\ tx' = [tx EXCEPT ![s].pc = "conflict"]
              /\ lease' = lease
        /\ UNCHANGED <<force, dead>>

\* Mutant: any row counts as the caller's own.
OwnsAnyRow(a, k) == holder[k] # NoAgent
\* v_existing.locked_by = p_agent_id
OwnsRow(a, k) == holder[k] = a

\* SELECT ... FOR UPDATE after the conflict: refresh the caller's own row, or
\* refuse.  The row may have gone since the INSERT: that is a refusal too.
AcquireResolve(s, heard) ==
    LET k == tx[s].key
        e == tx[s].ttl - tx[s].age
    IN  /\ tx[s].pc = "conflict"
        /\ tx' = [tx EXCEPT ![s] = NoTx]
        /\ \/ /\ OwnsRow(AgentOf[s], k)
              /\ left' = [left EXCEPT ![k] = e]
              /\ lease' = Told(s, k, e, heard)
           \/ /\ ~OwnsRow(AgentOf[s], k)
              /\ UNCHANGED <<left, lease>>
        /\ UNCHANGED <<holder, force, dead>>

-----------------------------------------------------------------------------
(* release_lock, force_release and the DELETE of cleanup_dead_agents       *)

DeleteRows(K) ==
    /\ holder' = [k \in Keys |-> IF k \in K THEN NoAgent ELSE holder[k]]
    /\ left' = [k \in Keys |-> IF k \in K THEN 0 ELSE left[k]]
    /\ lease' = Withdraw(K)

\* Mutant: DELETE ... WHERE file_path = p_file_path alone.
ReleaseForeign(s, k) ==
    /\ s \notin dead
    /\ tx[s].pc = "idle"
    /\ holder' = [holder EXCEPT ![k] = NoAgent]
    /\ left' = [left EXCEPT ![k] = 0]
    /\ lease' = [lease EXCEPT ![s][k] = 0]
    /\ UNCHANGED <<tx, force, dead>>
\* DELETE ... WHERE file_path = p_file_path AND locked_by = p_agent_id; a call
\* that deletes nothing reports lock_not_found_or_not_owner.
Release(s, k) ==
    /\ s \notin dead
    /\ tx[s].pc = "idle"
    /\ OwnsRow(AgentOf[s], k)
    /\ DeleteRows({k})
    /\ UNCHANGED <<tx, force, dead>>

\* force_release first reads the active row (is_locked: expires_at > now) ...
ForceRead(o, k) ==
    /\ force[o] = NoKey
    /\ holder[k] # NoAgent
    /\ left[k] > 0
    /\ force' = [force EXCEPT ![o] = k]
    /\ UNCHANGED <<holder, left, tx, lease, dead>>

\* ... and then deletes by file_path alone, whoever has it now.
ForceDelete(o) ==
    /\ force[o] # NoKey
    /\ DeleteRows({force[o]})
    /\ force' = [force EXCEPT ![o] = NoKey]
    /\ UNCHANGED <<tx, dead>>

\* The db.delete of force_release raises: nothing is deleted or audited.
ForceFail(o) ==
    /\ force[o] # NoKey
    /\ force' = [force EXCEPT ![o] = NoKey]
    /\ UNCHANGED <<holder, left, tx, lease, dead>>

\* The rows that the DELETE of cleanup_dead_agents has chosen go when it commits.
DropRows(K) ==
    /\ DeleteRows(K)
    /\ UNCHANGED <<tx, force, dead>>

-----------------------------------------------------------------------------
(* The environment                                                         *)

\* A session stops; an acquire_lock call it has sent still runs to its end.
Crash(s) ==
    /\ s \notin dead
    /\ dead' = dead \cup {s}
    /\ UNCHANGED <<holder, left, tx, force, lease>>

Tick ==
    /\ \A s \in Sessions : tx[s].pc # "idle" => tx[s].age < MaxWait
    /\ left' = [k \in Keys |->
                   IF holder[k] = NoAgent THEN 0 ELSE Larger(left[k] - 1, Oldest)]
    /\ lease' = [s \in Sessions |-> [k \in Keys |-> Larger(lease[s][k] - 1, 0)]]
    /\ tx' = [s \in Sessions |->
                   IF tx[s].pc = "idle" THEN tx[s]
                   ELSE [tx[s] EXCEPT !.age = tx[s].age + 1]]
    /\ UNCHANGED <<holder, force, dead>>

SessionNext(s) ==
    \/ \E k \in Keys, ttl \in TTLs : AcquireStart(s, k, ttl)
    \/ \E heard \in BOOLEAN : AcquireInsert(s, heard)
    \/ \E heard \in BOOLEAN : AcquireResolve(s, heard)
    \/ \E k \in Keys : Release(s, k)
    \/ Crash(s)

OperatorNext(o) ==
    \/ \E k \in Keys : ForceRead(o, k)
    \/ ForceDelete(o)
    \/ ForceFail(o)

Next ==
    \/ \E s \in Sessions : SessionNext(s)
    \/ \E o \in Operators : OperatorNext(o)
    \/ \E K \in SUBSET Keys : DropRows(K)
    \/ Tick

Spec == Init /\ [][Next]_vars

\* The database finishes what it started and time does not stop; a session that
\* has not crashed asks again and again for every key (an agent's retry loop).
Fairness ==
    /\ SF_vars(Tick)
    /\ \A s \in Sessions :
         /\ WF_vars(\E heard \in BOOLEAN :
                        AcquireInsert(s, heard) \/ AcquireResolve(s, heard))
         /\ \A k \in Keys : SF_vars(\E ttl \in TTLs : AcquireStart(s, k, ttl))

FairSpec == Spec /\ Fairness

-----------------------------------------------------------------------------
(* Properties                                                              *)

\* Every variable has its type, and a call in progress names a key and a TTL.
TypeOK ==
    /\ holder \in [Keys -> Agents \cup {NoAgent}]
    /\ left \in [Keys -> Oldest .. MaxTTL]
    /\ tx \in [Sessions -> Tx]
    /\ force \in [Operators -> Keys \cup {NoKey}]
    /\ lease \in [Sessions -> [Keys -> 0 .. MaxTTL]]
    /\ dead \subseteq Sessions
    /\ \A s \in Sessions :
         tx[s].pc # "idle" => tx[s].key \in Keys /\ tx[s].ttl \in TTLs

\* By how much the row of a key may end before a session that was told of it
\* believes: another session of the agent may have asked for less, an answer may
\* have been lost, and a refresh may be committed with a NOW() that is older by
\* as much as a transaction can wait.
Slack == (MaxTTL - MinTTL) + MaxWait

\* s counts on k for at least that long.
Assured(s, k) == lease[s][k] > 0 /\ lease[s][k] >= Slack

\* A session that counts on a key for Slack or longer, and from whom it was not
\* taken back, is of the agent that has the row, and the row ends at most Slack
\* before the session believes: whatever sweeps, refreshes by other sessions of
\* the agent, lost answers and late commits happened since it was told.
LeaseBacked ==
    \A s \in Sessions, k \in Keys :
        Assured(s, k) => holder[k] = AgentOf[s] /\ lease[s][k] <= left[k] + Slack

\* "Exclusive locks with TTL and auto-expiration prevent concurrent edits": the
\* sessions of two agents never both count on one key for Slack or longer.  Who
\* stops Slack before the end it was told is alone with the key; where all
\* agents ask for one TTL that is the longest wait of a transaction.
Exclusion ==
    \A s, t \in Sessions, k \in Keys :
        Assured(s, k) /\ Assured(t, k) => AgentOf[s] = AgentOf[t]

\* "lock TTL expires without renewal ... other agents MAY acquire the lock":
\* once every session of the other agents is gone, a session that keeps asking
\* gets the key, though nobody releases it.
Reclaimed ==
    \A s \in Sessions, k \in Keys :
        (\A t \in Sessions : AgentOf[t] # AgentOf[s] => t \in dead)
            ~> (holder[k] = AgentOf[s] \/ s \in dead)

-----------------------------------------------------------------------------
(* The table implements the abstract lease lock: a row is a lease while    *)
(* check() reports it (expires_at > now()); what is left of it afterwards, *)
(* until somebody's acquire sweeps it, is invisible.                       *)

Active(k) == holder[k] # NoAgent /\ left[k] > 0

Abstract == INSTANCE LeaseLock WITH
    owner <- [k \in Keys |-> IF Active(k) THEN holder[k] ELSE NoAgent],
    time  <- [k \in Keys |-> IF Active(k) THEN left[k] ELSE 0]

\* Every behaviour of the table is, key by key, a behaviour of the lease lock.
ImplementsLeaseLock == Abstract!Spec
=============================================================================
