-------------------------- MODULE AgentSessionsProofs --------------------------
(***************************************************************************)
(* The lock table for every set of agents, sessions, keys and operators    *)
(* and for every TTL bound: types, the backing of leases, the exclusion    *)
(* that follows from it and the refinement of the abstract lease lock.     *)
(* Registration, heartbeats and the dead-agent clean-up only do to the     *)
(* table what FileLocks allows, so that what is proved of it holds with    *)
(* them, too.                                                              *)
(***************************************************************************)
EXTENDS AgentSessions, TLAPS

\* The initial table is empty and nobody was promised anything.
LEMMA InitType == Init => TypeOK
BY LockAssumption, SMT DEF Init, TypeOK, Tx, NoTx, Oldest

\* Told and Withdraw keep leases between 0 and MaxTTL.
LEMMA LeaseType ==
    ASSUME TypeOK
    PROVE  /\ \A s \in Sessions, k \in Keys, e \in Int, heard \in BOOLEAN :
                e <= MaxTTL => Told(s, k, e, heard) \in [Sessions -> [Keys -> 0 .. MaxTTL]]
           /\ \A K \in SUBSET Keys : Withdraw(K) \in [Sessions -> [Keys -> 0 .. MaxTTL]]
BY LockAssumption, SMT DEF TypeOK, Told, Withdraw, Larger

\* The expiry an acquire_lock transaction writes is a legal value of left.
LEMMA ExpiryType ==
    ASSUME TypeOK, NEW s \in Sessions, tx[s].pc # "idle"
    PROVE  /\ tx[s].key \in Keys
           /\ tx[s].ttl - tx[s].age \in Oldest .. MaxTTL
           /\ tx[s].age \in Nat
BY LockAssumption, SMT DEF TypeOK, Tx, TTLs, Oldest

LEMMA TypeStep == TypeOK /\ [Next]_vars => TypeOK'
<1> SUFFICES ASSUME TypeOK, [Next]_vars PROVE TypeOK'
  OBVIOUS
<1>1. \A K \in SUBSET Keys :
        DeleteRows(K) => /\ holder' \in [Keys -> Agents \cup {NoAgent}]
                         /\ left' \in [Keys -> Oldest .. MaxTTL]
                         /\ lease' \in [Sessions -> [Keys -> 0 .. MaxTTL]]
  <2> SUFFICES ASSUME NEW K \in SUBSET Keys, DeleteRows(K)
               PROVE  /\ holder' \in [Keys -> Agents \cup {NoAgent}]
                      /\ left' \in [Keys -> Oldest .. MaxTTL]
                      /\ lease' \in [Sessions -> [Keys -> 0 .. MaxTTL]]
    OBVIOUS
  <2>1. lease' \in [Sessions -> [Keys -> 0 .. MaxTTL]]
    BY LeaseType DEF DeleteRows
  <2>2. QED
    BY LockAssumption, <2>1, SMT DEF DeleteRows, TypeOK, Oldest
<1>2. ASSUME NEW s \in Sessions, NEW k \in Keys, NEW ttl \in TTLs, AcquireStart(s, k, ttl)
      PROVE  TypeOK'
  BY LockAssumption, <1>2, SMT DEF AcquireStart, TypeOK, Tx, TTLs
<1>3. ASSUME NEW s \in Sessions, NEW heard \in BOOLEAN, AcquireInsert(s, heard)
      PROVE  TypeOK'
  <2> DEFINE k == tx[s].key
             e == tx[s].ttl - tx[s].age
             swept == {j \in Keys : Expired(j, tx[s].age)}
             after == [j \in Keys |-> IF j \in swept THEN NoAgent ELSE holder[j]]
             time == [j \in Keys |-> IF j \in swept THEN 0 ELSE left[j]]
  <2>1. k \in Keys /\ e \in Oldest .. MaxTTL
    BY <1>3, ExpiryType DEF AcquireInsert
  <2>2. AgentOf[s] \in Agents
    BY LockAssumption
  <2>3. after \in [Keys -> Agents \cup {NoAgent}] /\ time \in [Keys -> Oldest .. MaxTTL]
    BY LockAssumption, SMT DEF TypeOK, Oldest
  <2>4. Told(s, k, e, heard) \in [Sessions -> [Keys -> 0 .. MaxTTL]]
    BY LockAssumption, <2>1, <2>2, LeaseType, SMT DEF Oldest
  <2>5. CASE holder' = [after EXCEPT ![k] = AgentOf[s]] /\ left' = [time EXCEPT ![k] = e]
             /\ tx' = [tx EXCEPT ![s] = NoTx] /\ lease' = Told(s, k, e, heard)
    <3> HIDE DEF k, e, after, time
    <3>1. force' = force /\ dead' = dead
      BY <1>3 DEF AcquireInsert
    <3>2. QED
      BY LockAssumption, <2>1, <2>2, <2>3, <2>4, <2>5, <3>1, SMT DEF TypeOK, Tx, NoTx
  <2>6. CASE holder' = after /\ left' = time
             /\ tx' = [tx EXCEPT ![s].pc = "conflict"] /\ lease' = lease
    <3>1. force' = force /\ dead' = dead /\ tx[s].pc = "insert"
      BY <1>3 DEF AcquireInsert
    <3> HIDE DEF k, e, after, time
    <3>2. tx' \in [Sessions -> Tx]
      <4>1. tx \in [Sessions -> Tx]
        BY DEF TypeOK
      <4>2. [tx[s] EXCEPT !.pc = "conflict"] \in Tx
        BY <4>1, SMT DEF Tx
      <4>3. tx' = [tx EXCEPT ![s] = [tx[s] EXCEPT !.pc = "conflict"]]
        BY <2>6
      <4>4. QED
        BY <4>1, <4>2, <4>3
    <3>3. \A t \in Sessions : tx'[t].key = tx[t].key /\ tx'[t].ttl = tx[t].ttl
      BY <2>6, SMT DEF TypeOK, Tx
    <3>4. \A t \in Sessions : tx'[t].pc # "idle" => tx[t].pc # "idle"
      BY <2>6, <3>1, SMT DEF TypeOK, Tx
    <3>5. QED
      BY <2>3, <2>6, <3>1, <3>2, <3>3, <3>4, SMT DEF TypeOK
  <2>7. QED
    BY <1>3, <2>5, <2>6 DEF AcquireInsert
<1>4. ASSUME NEW s \in Sessions, NEW heard \in BOOLEAN, AcquireResolve(s, heard)
      PROVE  TypeOK'
  <2>1. tx[s].key \in Keys /\ tx[s].ttl - tx[s].age \in Oldest .. MaxTTL
    BY <1>4, ExpiryType DEF AcquireResolve
  <2>2. AgentOf[s] \in Agents
    BY LockAssumption
  <2>3. Told(s, tx[s].key, tx[s].ttl - tx[s].age, heard)
           \in [Sessions -> [Keys -> 0 .. MaxTTL]]
    BY LockAssumption, <2>1, <2>2, LeaseType, SMT DEF Oldest
  <2>4. lease' \in [Sessions -> [Keys -> 0 .. MaxTTL]]
    BY <1>4, <2>3 DEF AcquireResolve, TypeOK
  <2>5. left' \in [Keys -> Oldest .. MaxTTL]
    BY <1>4, <2>1, SMT DEF AcquireResolve, TypeOK
  <2>6. tx' = [tx EXCEPT ![s] = NoTx] /\ UNCHANGED <<holder, force, dead>>
    BY <1>4 DEF AcquireResolve
  <2>7. NoTx \in Tx /\ NoTx.pc = "idle"
    BY LockAssumption, SMT DEF NoTx, Tx
  <2>8. tx' \in [Sessions -> Tx] /\ \A t \in Sessions \ {s} : tx'[t] = tx[t]
    BY <2>6, <2>7 DEF TypeOK
  <2>9. tx'[s] = NoTx
    BY <2>6 DEF TypeOK
  <2>10. QED
    BY <2>4, <2>5, <2>6, <2>7, <2>8, <2>9 DEF TypeOK
<1>5. ASSUME NEW s \in Sessions, NEW k \in Keys, Release(s, k)
      PROVE  TypeOK'
  BY <1>1, <1>5, SMT DEF Release, TypeOK
<1>6. ASSUME NEW o \in Operators, NEW k \in Keys, ForceRead(o, k)
      PROVE  TypeOK'
  BY <1>6, SMT DEF ForceRead, TypeOK
<1>7. ASSUME NEW o \in Operators, ForceDelete(o)
      PROVE  TypeOK'
  <2>1. {force[o]} \in SUBSET Keys
    BY <1>7 DEF ForceDelete, TypeOK
  <2>2. QED
    BY <1>1, <1>7, <2>1, SMT DEF ForceDelete, TypeOK
<1>8. ASSUME NEW o \in Operators, ForceFail(o)
      PROVE  TypeOK'
  BY <1>8, SMT DEF ForceFail, TypeOK
<1>9. ASSUME NEW K \in SUBSET Keys, DropRows(K)
      PROVE  TypeOK'
  BY <1>1, <1>9, SMT DEF DropRows, TypeOK
<1>10. ASSUME NEW s \in Sessions, Crash(s)
       PROVE  TypeOK'
  BY <1>10, SMT DEF Crash, TypeOK
<1>11. CASE Tick
  <2>1. left' \in [Keys -> Oldest .. MaxTTL]
    BY LockAssumption, <1>11, SMT DEF Tick, TypeOK, Larger, Oldest
  <2>2. lease' \in [Sessions -> [Keys -> 0 .. MaxTTL]]
    BY LockAssumption, <1>11, SMT DEF Tick, TypeOK, Larger
  <2>3. /\ tx' \in [Sessions -> Tx]
        /\ \A s \in Sessions :
             tx'[s].pc # "idle" => tx'[s].key \in Keys /\ tx'[s].ttl \in TTLs
    <3>0. tx' = [s \in Sessions |-> tx'[s]]
      BY <1>11 DEF Tick
    <3> SUFFICES ASSUME NEW s \in Sessions
                 PROVE  /\ tx'[s] \in Tx
                        /\ tx'[s].pc # "idle" => tx'[s].key \in Keys /\ tx'[s].ttl \in TTLs
      BY <3>0, Zenon
    <3>1. CASE tx[s].pc = "idle"
      BY <1>11, <3>1, SMT DEF Tick, TypeOK
    <3>2. CASE tx[s].pc # "idle"
      <4>1. tx'[s] = [tx[s] EXCEPT !.age = tx[s].age + 1] /\ tx[s].age < MaxWait
        BY <1>11, <3>2, SMT DEF Tick
      <4>2. QED
        BY LockAssumption, <3>2, <4>1, SMT DEF TypeOK, Tx
    <3>3. QED
      BY <3>1, <3>2
  <2>4. QED
    BY <1>11, <2>1, <2>2, <2>3 DEF Tick, TypeOK
<1>12. CASE UNCHANGED vars
  BY <1>12, SMT DEF vars, TypeOK
<1>13. QED
  BY <1>2, <1>3, <1>4, <1>5, <1>6, <1>7, <1>8, <1>9, <1>10, <1>11, <1>12
     DEF Next, SessionNext, OperatorNext

\* Type correctness, for every instance of the lock table.
THEOREM TypeCorrect == Spec => []TypeOK
BY InitType, TypeStep, PTL DEF Spec

-----------------------------------------------------------------------------
(* Leases are backed by rows.  LeaseBacked is not inductive: it says nothing*)
(* of a session whose agent has lost the row to another one, or whose lease *)
(* is shorter than Slack.  Backed does: as long as the agent has the row it *)
(* ends at most Slack before any of the agent's sessions believes, and when *)
(* the row can be swept less than Slack is left of what they believe.       *)

Backed ==
    \A s \in Sessions, k \in Keys :
        lease[s][k] > 0 => IF holder[k] = AgentOf[s]
                           THEN lease[s][k] <= left[k] + Slack
                           ELSE lease[s][k] < Slack

LEMMA InitBacked == Init => Backed
BY SMT DEF Init, Backed

LEMMA SlackType == Slack \in Nat /\ Slack = (MaxTTL - MinTTL) + MaxWait
BY LockAssumption, SMT DEF Slack

\* A row that a sweep may take is one no session counts on for Slack or longer.
LEMMA SweptShort ==
    ASSUME TypeOK, Backed, NEW s \in Sessions, NEW k \in Keys, NEW age \in Nat,
           Expired(k, age), lease[s][k] > 0
    PROVE  lease[s][k] < Slack
BY LockAssumption, SlackType, SMT DEF TypeOK, Backed, Expired, Oldest

\* The expiry that a transaction of whatever age writes for whatever TTL is at
\* most Slack before what anybody was ever told.
LEMMA ExpiryLate ==
    ASSUME TypeOK, NEW s \in Sessions, tx[s].pc # "idle",
           NEW t \in Sessions, NEW k \in Keys
    PROVE  lease[t][k] <= (tx[s].ttl - tx[s].age) + Slack
<1>1. tx[s].ttl >= MinTTL /\ tx[s].age <= MaxWait /\ tx[s].ttl \in Int /\ tx[s].age \in Int
  BY LockAssumption, SMT DEF TypeOK, Tx, TTLs
<1>2. lease[t][k] \in Int /\ lease[t][k] <= MaxTTL
  BY LockAssumption, SMT DEF TypeOK
<1>3. QED
  BY LockAssumption, SlackType, <1>1, <1>2, SMT

\* What Told says session by session and key by key.
LEMMA ToldAt ==
    ASSUME TypeOK, NEW s \in Sessions, NEW k \in Keys, NEW e \in Int, NEW heard \in BOOLEAN,
           NEW t \in Sessions, NEW j \in Keys
    PROVE  \/ Told(s, k, e, heard)[t][j] = lease[t][j]
           \/ t = s /\ j = k /\ Told(s, k, e, heard)[t][j] = Larger(e, 0)
BY LockAssumption, SMT DEF TypeOK, Told, Larger

LEMMA BackedStep == TypeOK /\ Backed /\ [Next]_vars => Backed'
<1> DEFINE Good(t, j) == IF holder[j] = AgentOf[t]
                         THEN lease[t][j] <= left[j] + Slack
                         ELSE lease[t][j] < Slack
<1> SUFFICES ASSUME TypeOK, Backed, [Next]_vars,
                    NEW t \in Sessions, NEW j \in Keys, lease'[t][j] > 0
             PROVE  Good(t, j)'
  BY DEF Backed, Slack
<1> USE LockAssumption, SlackType
<1>0. lease[t][j] > 0 => Good(t, j)
  BY DEF Backed
<1>1. ASSUME UNCHANGED <<holder, left, lease>>
      PROVE  Good(t, j)'
  BY <1>0, <1>1 DEF Slack
<1>2. ASSUME NEW K \in SUBSET Keys, DeleteRows(K)
      PROVE  Good(t, j)'
  <2>1. lease'[t][j] = IF j \in K /\ holder[j] = AgentOf[t] THEN 0 ELSE lease[t][j]
    BY <1>2 DEF DeleteRows, Withdraw
  <2>2. lease'[t][j] = lease[t][j] /\ ~(j \in K /\ holder[j] = AgentOf[t]) /\ Good(t, j)
    BY <1>0, <2>1, SMT
  <2>3. CASE j \in K
    <3>1. holder'[j] = NoAgent /\ AgentOf[t] \in Agents
      BY <1>2, <2>3 DEF DeleteRows
    <3>2. QED
      BY <2>2, <2>3, <3>1 DEF Slack
  <2>4. CASE j \notin K
    BY <1>2, <2>2, <2>4 DEF DeleteRows, Slack
  <2>5. QED
    BY <2>3, <2>4
<1>3. ASSUME NEW s \in Sessions, NEW heard \in BOOLEAN, AcquireInsert(s, heard)
      PROVE  Good(t, j)'
  <2> DEFINE k == tx[s].key
             e == tx[s].ttl - tx[s].age
             swept == {i \in Keys : Expired(i, tx[s].age)}
             after == [i \in Keys |-> IF i \in swept THEN NoAgent ELSE holder[i]]
             time == [i \in Keys |-> IF i \in swept THEN 0 ELSE left[i]]
  <2>1. k \in Keys /\ e \in Int /\ tx[s].age \in Nat /\ AgentOf[s] \in Agents
        /\ AgentOf[t] \in Agents /\ lease[t][j] \in Int /\ tx[s].pc # "idle"
    BY <1>3, ExpiryType, SMT DEF AcquireInsert, Oldest, TypeOK
  <2>2. ASSUME lease[t][j] > 0, j \in swept
        PROVE  lease[t][j] < Slack
    BY <2>1, <2>2, SweptShort
  <2>3. lease[t][j] <= e + Slack
    BY <2>1, ExpiryLate
  <2>4. CASE /\ holder[k] = NoAgent \/ k \in swept
             /\ holder' = [after EXCEPT ![k] = AgentOf[s]]
             /\ left' = [time EXCEPT ![k] = e]
             /\ lease' = Told(s, k, e, heard)
    <3>1. CASE j = k
      <4>1. holder'[j] = AgentOf[s] /\ left'[j] = e
        BY <2>1, <2>4, <3>1
      <4>2. CASE lease'[t][j] = lease[t][j]
        <5>1. CASE AgentOf[t] = AgentOf[s]
          BY <2>1, <2>3, <4>1, <4>2, <5>1 DEF Slack
        <5>2. CASE AgentOf[t] # AgentOf[s]
          <6>1. holder[j] # AgentOf[t] \/ j \in swept
            BY <2>1, <2>4, <3>1
          <6>2. lease[t][j] < Slack
            BY <1>0, <2>2, <4>2, <6>1
          <6>3. QED
            BY <4>1, <4>2, <5>2, <6>2 DEF Slack
        <5>3. QED
          BY <5>1, <5>2
      <4>3. CASE t = s /\ lease'[t][j] = Larger(e, 0)
        <5>1. lease'[t][j] = e
          BY <2>1, <4>3, SMT DEF Larger
        <5>2. e <= e + Slack
          BY <2>1, SMT
        <5>3. QED
          BY <4>1, <4>3, <5>1, <5>2 DEF Slack
      <4>4. QED
        BY <2>1, <2>4, <4>2, <4>3, ToldAt
    <3>2. CASE j # k
      <4>1. lease'[t][j] = lease[t][j]
        BY <2>1, <2>4, <3>2, ToldAt
      <4>2. holder'[j] = after[j] /\ left'[j] = time[j]
        BY <2>4, <3>2
      <4>3. CASE j \in swept
        BY <2>1, <2>2, <4>1, <4>2, <4>3 DEF Slack
      <4>4. CASE j \notin swept
        BY <1>0, <4>1, <4>2, <4>4 DEF Slack
      <4>5. QED
        BY <4>3, <4>4
    <3>3. QED
      BY <3>1, <3>2
  <2>5. CASE holder' = after /\ left' = time /\ lease' = lease
    <3>1. CASE j \in swept
      BY <2>1, <2>2, <2>5, <3>1 DEF Slack
    <3>2. CASE j \notin swept
      BY <1>0, <2>5, <3>2 DEF Slack
    <3>3. QED
      BY <3>1, <3>2
  <2>6. QED
    BY <1>3, <2>4, <2>5 DEF AcquireInsert
<1>4. ASSUME NEW s \in Sessions, NEW heard \in BOOLEAN, AcquireResolve(s, heard)
      PROVE  Good(t, j)'
  <2> DEFINE k == tx[s].key
             e == tx[s].ttl - tx[s].age
  <2>1. k \in Keys /\ e \in Int /\ AgentOf[s] \in Agents /\ AgentOf[t] \in Agents
        /\ lease[t][j] \in Int /\ tx[s].pc # "idle"
    BY <1>4, ExpiryType, SMT DEF AcquireResolve, Oldest, TypeOK
  <2>2. holder' = holder
    BY <1>4 DEF AcquireResolve
  <2>3. lease[t][j] <= e + Slack
    BY <2>1, ExpiryLate
  <2>4. CASE /\ holder[k] = AgentOf[s]
             /\ left' = [left EXCEPT ![k] = e]
             /\ lease' = Told(s, k, e, heard)
    <3>1. CASE j = k
      <4>1. left'[j] = e
        BY <2>1, <2>4, <3>1, SMT DEF TypeOK
      <4>2. CASE lease'[t][j] = lease[t][j]
        BY <1>0, <2>2, <2>3, <4>1, <4>2 DEF Slack
      <4>3. CASE t = s /\ lease'[t][j] = Larger(e, 0)
        <5>1. lease'[t][j] = e
          BY <2>1, <4>3, SMT DEF Larger
        <5>2. e <= e + Slack
          BY <2>1, SMT
        <5>3. QED
          BY <2>2, <2>4, <3>1, <4>1, <4>3, <5>1, <5>2 DEF Slack
      <4>4. QED
        BY <2>1, <2>4, <4>2, <4>3, ToldAt
    <3>2. CASE j # k
      <4>1. lease'[t][j] = lease[t][j]
        BY <2>1, <2>4, <3>2, ToldAt
      <4>2. left'[j] = left[j]
        BY <2>1, <2>4, <3>2, SMT DEF TypeOK
      <4>3. QED
        BY <1>0, <2>2, <4>1, <4>2 DEF Slack
    <3>3. QED
      BY <3>1, <3>2
  <2>5. CASE UNCHANGED <<left, lease>>
    BY <1>1, <2>2, <2>5
  <2>6. QED
    BY <1>4, <2>4, <2>5 DEF AcquireResolve, OwnsRow
<1>5. CASE Tick
  <2>1. lease'[t][j] = Larger(lease[t][j] - 1, 0) /\ holder' = holder
    BY <1>5 DEF Tick
  <2>2. lease[t][j] > 1 /\ lease'[t][j] = lease[t][j] - 1 /\ lease[t][j] \in Int
        /\ left[j] \in Int /\ AgentOf[t] \in Agents
    BY <2>1, SMT DEF Larger, TypeOK, Oldest
  <2>3. Good(t, j)
    BY <1>0, <2>2, SMT
  <2>4. CASE holder[j] = AgentOf[t]
    <3>1. left'[j] = Larger(left[j] - 1, Oldest)
      BY <1>5, <2>2, <2>4 DEF Tick
    <3>2. left'[j] \in Int /\ left'[j] >= left[j] - 1
      BY <2>2, <3>1, SMT DEF Larger, Oldest
    <3>3. lease'[t][j] <= left'[j] + Slack
      BY <2>2, <2>3, <2>4, <3>2, SMT
    <3>4. QED
      BY <2>1, <2>4, <3>3 DEF Slack
  <2>5. CASE holder[j] # AgentOf[t]
    <3>1. lease'[t][j] < Slack
      BY <2>2, <2>3, <2>5, SMT
    <3>2. QED
      BY <2>1, <2>5, <3>1 DEF Slack
  <2>6. QED
    BY <2>4, <2>5
<1>6. ASSUME NEW s \in Sessions, SessionNext(s)
      PROVE  Good(t, j)'
  <2>1. CASE \E k \in Keys, ttl \in TTLs : AcquireStart(s, k, ttl)
    BY <1>1, <2>1 DEF AcquireStart
  <2>2. CASE \E k \in Keys : Release(s, k)
    BY <1>2, <2>2 DEF Release
  <2>3. CASE Crash(s)
    BY <1>1, <2>3 DEF Crash
  <2>4. QED
    BY <1>3, <1>4, <1>6, <2>1, <2>2, <2>3 DEF SessionNext
<1>7. ASSUME NEW o \in Operators, OperatorNext(o)
      PROVE  Good(t, j)'
  <2>1. CASE \E k \in Keys : ForceRead(o, k)
    BY <1>1, <2>1 DEF ForceRead
  <2>2. CASE ForceDelete(o)
    <3>1. {force[o]} \in SUBSET Keys
      BY <2>2 DEF ForceDelete, TypeOK
    <3>2. QED
      BY <1>2, <2>2, <3>1 DEF ForceDelete
  <2>3. CASE ForceFail(o)
    BY <1>1, <2>3 DEF ForceFail
  <2>4. QED
    BY <1>7, <2>1, <2>2, <2>3 DEF OperatorNext
<1>8. CASE \E K \in SUBSET Keys : DropRows(K)
  BY <1>2, <1>8 DEF DropRows
<1>9. CASE UNCHANGED vars
  BY <1>1, <1>9 DEF vars
<1>10. QED
  BY <1>5, <1>6, <1>7, <1>8, <1>9 DEF Next

LEMMA AlwaysBacked == Spec => [](TypeOK /\ Backed)
BY InitType, TypeStep, InitBacked, BackedStep, PTL DEF Spec

\* What a session was told about a key is true of the table up to Slack before
\* the end it was told, in every behaviour of the lock service.
THEOREM LeasesBacked == Spec => []LeaseBacked
<1>1. TypeOK /\ Backed => LeaseBacked
  BY LockAssumption, SlackType, SMT DEF TypeOK, Backed, LeaseBacked, Assured
<1>2. QED
  BY <1>1, AlwaysBacked, PTL

\* The sessions of two agents never both count on one key for Slack or longer.
THEOREM LeaseExclusion == Spec => []Exclusion
<1>1. LeaseBacked => Exclusion
  BY DEF LeaseBacked, Exclusion
<1>2. QED
  BY <1>1, LeasesBacked, PTL

-----------------------------------------------------------------------------
(* The table implements the abstract lease lock.                           *)

Owner == [k \in Keys |-> IF Active(k) THEN holder[k] ELSE NoAgent]
Time == [k \in Keys |-> IF Active(k) THEN left[k] ELSE 0]

\* Rewriting rows that are not active, before or after, is invisible.
LEMMA Invisible ==
    ASSUME \A k \in Keys : /\ Active(k) <=> Active(k)'
                           /\ Active(k) => holder'[k] = holder[k] /\ left'[k] = left[k]
    PROVE  UNCHANGED <<Owner, Time>>
BY Zenon DEF Owner, Time

\* Taking rows out of the table, seen through the mapping.
LEMMA DeletedRows ==
    ASSUME TypeOK, NEW K \in SUBSET Keys, DeleteRows(K)
    PROVE  /\ Owner' = [k \in Keys |-> IF k \in K THEN NoAgent ELSE Owner[k]]
           /\ Time' = [k \in Keys |-> IF k \in K THEN 0 ELSE Time[k]]
BY SMT DEF DeleteRows, Owner, Time, Active

\* Writing a row (AgentOf[s], e) for a key that is free for s to take.
LEMMA WrittenRow ==
    ASSUME TypeOK, NEW k \in Keys, NEW a \in Agents, NEW e \in Int,
           e <= MaxTTL, Active(k) => holder[k] = a,
           holder'[k] = a, left'[k] = e,
           \A j \in Keys \ {k} :
               /\ Active(j) <=> Active(j)'
               /\ Active(j) => holder'[j] = holder[j] /\ left'[j] = left[j]
    PROVE  (\E t \in 1 .. MaxTTL : Abstract!Grant(a, k, t)) \/ Abstract!Free({k})
<1> USE LockAssumption
<1>1. CASE e > 0
  <2>1. e \in 1 .. MaxTTL
    BY <1>1, SMT
  <2>2. Active(k)'
    BY <1>1, SMT DEF Active
  <2>3. Owner[k] \in {a, NoAgent}
    BY DEF Owner
  <2>4. Owner' = [Owner EXCEPT ![k] = a]
    BY <2>2 DEF Owner
  <2>5. Time' = [Time EXCEPT ![k] = e]
    BY <2>2 DEF Time
  <2>6. QED
    BY <2>1, <2>3, <2>4, <2>5 DEF Owner, Time, Abstract!Grant
<1>2. CASE ~(e > 0)
  <2>1. ~Active(k)'
    BY <1>2, SMT DEF Active
  <2>2. Owner' = [Owner EXCEPT ![k] = NoAgent] /\ Time' = [Time EXCEPT ![k] = 0]
    BY <2>1 DEF Owner, Time
  <2>3. QED
    BY <2>2 DEF Owner, Time, Abstract!Free
<1>3. QED
  BY <1>1, <1>2

LEMMA RefinementStep ==
    TypeOK /\ [Next]_vars => Abstract!Next \/ UNCHANGED <<Owner, Time>>
<1> SUFFICES ASSUME TypeOK, [Next]_vars
             PROVE  Abstract!Next \/ UNCHANGED <<Owner, Time>>
  OBVIOUS
<1> USE LockAssumption
<1>1. UNCHANGED <<holder, left>> => UNCHANGED <<Owner, Time>>
  BY DEF Owner, Time, Active
<1>2. ASSUME NEW K \in SUBSET Keys, DeleteRows(K)
      PROVE  Abstract!Free(K)
  BY <1>2, DeletedRows DEF Abstract!Free, Owner, Time
<1>3. ASSUME NEW s \in Sessions, NEW heard \in BOOLEAN, AcquireInsert(s, heard)
      PROVE  Abstract!Next \/ UNCHANGED <<Owner, Time>>
  <2>0. PICK k \in Keys, e \in Int :
               k = tx[s].key /\ e = tx[s].ttl - tx[s].age /\ e <= MaxTTL
    BY <1>3, ExpiryType, SMT DEF AcquireInsert, Oldest
  <2> DEFINE swept == {i \in Keys : Expired(i, tx[s].age)}
             after == [i \in Keys |-> IF i \in swept THEN NoAgent ELSE holder[i]]
             time == [i \in Keys |-> IF i \in swept THEN 0 ELSE left[i]]
  <2>1. tx[s].age \in Nat /\ AgentOf[s] \in Agents
    BY <1>3, ExpiryType DEF AcquireInsert
  <2>2. \A i \in swept : ~Active(i)
    BY <2>1, SMT DEF Expired, Active, TypeOK, Oldest
  <2>3. ASSUME NEW i \in Keys, holder'[i] = after[i], left'[i] = time[i]
        PROVE  /\ Active(i) <=> Active(i)'
               /\ Active(i) => holder'[i] = holder[i] /\ left'[i] = left[i]
    BY <2>2, <2>3, SMT DEF Active
  <2>4. CASE /\ holder[k] = NoAgent \/ k \in swept
             /\ holder' = [after EXCEPT ![k] = AgentOf[s]]
             /\ left' = [time EXCEPT ![k] = e]
    <3>1. ~Active(k)
      BY <2>2, <2>4 DEF Active
    <3>2. holder'[k] = AgentOf[s] /\ left'[k] = e
      BY <2>1, <2>4
    <3>3. \A i \in Keys \ {k} : holder'[i] = after[i] /\ left'[i] = time[i]
      BY <2>4
    <3>4. (\E t \in 1 .. MaxTTL : Abstract!Grant(AgentOf[s], k, t)) \/ Abstract!Free({k})
      <4> HIDE DEF after, time
      <4>1. QED
        BY <2>0, <2>1, <2>3, <3>1, <3>2, <3>3, WrittenRow
    <3>5. QED
      BY <2>1, <3>4 DEF Abstract!Next
  <2>5. CASE holder' = after /\ left' = time
    BY <2>3, <2>5, Invisible
  <2>6. QED
    BY <1>3, <2>0, <2>4, <2>5 DEF AcquireInsert
<1>4. ASSUME NEW s \in Sessions, NEW heard \in BOOLEAN, AcquireResolve(s, heard)
      PROVE  Abstract!Next \/ UNCHANGED <<Owner, Time>>
  <2>0. PICK k \in Keys, e \in Int :
               k = tx[s].key /\ e = tx[s].ttl - tx[s].age /\ e <= MaxTTL
    BY <1>4, ExpiryType, SMT DEF AcquireResolve, Oldest
  <2>1. AgentOf[s] \in Agents
    OBVIOUS
  <2>2. holder' = holder
    BY <1>4 DEF AcquireResolve
  <2>3. CASE holder[k] = AgentOf[s] /\ left' = [left EXCEPT ![k] = e]
    <3>1. left'[k] = e /\ \A j \in Keys \ {k} : left'[j] = left[j]
      BY <2>1, <2>3, SMT DEF TypeOK
    <3>2. \A j \in Keys \ {k} :
             /\ Active(j) <=> Active(j)'
             /\ Active(j) => holder'[j] = holder[j] /\ left'[j] = left[j]
      BY <2>2, <3>1, SMT DEF Active
    <3>3. (\E t \in 1 .. MaxTTL : Abstract!Grant(AgentOf[s], k, t)) \/ Abstract!Free({k})
      BY <2>0, <2>1, <2>2, <2>3, <3>1, <3>2, WrittenRow
    <3>4. QED
      BY <2>1, <3>3 DEF Abstract!Next
  <2>4. CASE UNCHANGED left
    BY <1>1, <2>2, <2>4
  <2>5. QED
    BY <1>4, <2>0, <2>3, <2>4 DEF AcquireResolve, OwnsRow
<1>5. ASSUME NEW s \in Sessions, SessionNext(s)
      PROVE  Abstract!Next \/ UNCHANGED <<Owner, Time>>
  <2>1. CASE \E k \in Keys, ttl \in TTLs : AcquireStart(s, k, ttl)
    BY <1>1, <2>1 DEF AcquireStart
  <2>2. CASE \E k \in Keys : Release(s, k)
    BY <1>2, <2>2 DEF Release, Abstract!Next
  <2>3. CASE Crash(s)
    BY <1>1, <2>3 DEF Crash
  <2>4. QED
    BY <1>3, <1>4, <1>5, <2>1, <2>2, <2>3 DEF SessionNext
<1>6. ASSUME NEW o \in Operators, OperatorNext(o)
      PROVE  Abstract!Next \/ UNCHANGED <<Owner, Time>>
  <2>1. CASE \E k \in Keys : ForceRead(o, k)
    BY <1>1, <2>1 DEF ForceRead
  <2>2. CASE ForceDelete(o)
    <3>1. force[o] \in Keys
      BY <2>2 DEF ForceDelete, TypeOK
    <3>2. QED
      BY <1>2, <2>2, <3>1 DEF ForceDelete, Abstract!Next
  <2>3. CASE ForceFail(o)
    BY <1>1, <2>3 DEF ForceFail
  <2>4. QED
    BY <1>6, <2>1, <2>2, <2>3 DEF OperatorNext
<1>7. CASE \E K \in SUBSET Keys : DropRows(K)
  BY <1>2, <1>7 DEF DropRows, Abstract!Next
<1>8. CASE Tick
  <2>1. /\ holder' = holder
        /\ \A k \in Keys : Active(k) => left'[k] = left[k] - 1
        /\ \A k \in Keys : ~Active(k) => ~Active(k)'
    BY <1>8, SMT DEF Tick, Active, Larger, Oldest, TypeOK
  <2>2. \A k \in Keys : Active(k)' <=> Time[k] > 1
    BY <2>1, SMT DEF Active, Time, TypeOK, Oldest
  <2>3. \A k \in Keys : Time[k] > 1 => Active(k) /\ Time[k] = left[k] /\ Owner[k] = holder[k]
    BY SMT DEF Time, Owner
  <2>4. Owner' = [k \in Keys |-> IF Time[k] > 1 THEN Owner[k] ELSE NoAgent]
    BY <2>1, <2>2, <2>3, Zenon DEF Owner
  <2>5. Time' = [k \in Keys |-> IF Time[k] > 1 THEN Time[k] - 1 ELSE 0]
    BY <2>1, <2>2, <2>3, Zenon DEF Time
  <2>6. QED
    BY <2>4, <2>5 DEF Abstract!Pass, Abstract!Next, Owner, Time
<1>9. CASE UNCHANGED vars
  BY <1>1, <1>9 DEF vars
<1>10. QED
  BY <1>5, <1>6, <1>7, <1>8, <1>9 DEF Next, Abstract!Next

\* The lock table, with its sweeps, stale rows and two-step transactions,
\* implements the abstract lease lock.
THEOREM TableImplementsLeaseLock == Spec => ImplementsLeaseLock
<1>1. Init => Abstract!Init
  BY DEF Init, Abstract!Init, Active
<1>2. TypeOK /\ [Next]_vars => Abstract!Next \/ UNCHANGED <<Owner, Time>>
  BY RefinementStep
<1>3. QED
  BY <1>1, <1>2, TypeCorrect, PTL DEF Spec, ImplementsLeaseLock, Abstract!Spec, Owner, Time
-----------------------------------------------------------------------------
(* Sessions that come, go and are cleaned up                              *)

\* The lifecycle's own variables have their types.
LifeTypes ==
    /\ status \in [Sessions -> {"none", "active", "disconnected"}]
    /\ quiet \in [Sessions -> 0 .. StaleAfter + 1]
    /\ beats \subseteq Sessions
    /\ cleanup \in Cleanups

LEMMA LifeTypesInit == LifecycleInit => LifeTypes
BY SessionAssumption DEF LifecycleInit, LifeTypes, Cleanups, NoCleanup

LEMMA LifeTypesStep == LifeTypes /\ [LifecycleNext]_lifecycleVars => LifeTypes'
<1> SUFFICES ASSUME LifeTypes, [LifecycleNext]_lifecycleVars PROVE LifeTypes'
  OBVIOUS
<1> USE DEF LifeTypes
<1>1. ASSUME NEW s \in Sessions, Register(s)
      PROVE  LifeTypes'
  BY <1>1, SessionAssumption DEF Register
<1>2. ASSUME NEW s \in Sessions, SendHeartbeat(s)
      PROVE  LifeTypes'
  <2>1. MostRecent(AgentOf[s]) \subseteq Sessions
    BY DEF MostRecent, RowsOf
  <2>2. beats' \subseteq Sessions
    BY <1>2, <2>1, SessionAssumption DEF SendHeartbeat
  <2>3. QED
    BY <1>2, <2>2 DEF SendHeartbeat
<1>3. ASSUME NEW s \in Sessions, Heartbeat(s)
      PROVE  LifeTypes'
  BY <1>3, SessionAssumption DEF Heartbeat
<1>4. ASSUME NEW a \in Agents, Kick(a)
      PROVE  LifeTypes'
  BY <1>4, SessionAssumption DEF Kick
<1>5. CASE CleanupSelect
  <2>1. {AgentOf[s] : s \in {t \in Sessions : IsStale(t)}} \subseteq Agents
    BY LockAssumption
  <2>2. cleanup' \in Cleanups
    BY <1>5, <2>1 DEF CleanupSelect, Cleanups, NoCleanup
  <2>3. QED
    BY <1>5, <2>2 DEF CleanupSelect
<1>6. CASE CleanupUpdate
  <2>1. RowsOf(cleanup.agents) \subseteq Sessions
    BY DEF RowsOf
  <2>2. cleanup' \in Cleanups
    BY <1>6, <2>1 DEF CleanupUpdate, Cleanups
  <2>3. QED
    BY <1>6, <2>2 DEF CleanupUpdate
<1>7. CASE CleanupDelete
  BY <1>7 DEF CleanupDelete, Cleanups
<1>8. CASE CleanupCommit
  BY <1>8 DEF CleanupCommit, Cleanups, NoCleanup
<1>9. CASE LifecycleTick
  <2>1. \A s \in Sessions :
          (IF status[s] = "none" THEN 0 ELSE Smaller(quiet[s] + 1, StaleAfter + 1))
            \in 0 .. StaleAfter + 1
    BY SessionAssumption, SMT DEF Smaller
  <2>2. QED
    BY <1>9, <2>1 DEF LifecycleTick
<1>10. CASE UNCHANGED sessionVars
  BY <1>10 DEF sessionVars
<1>11. QED
  BY <1>1, <1>2, <1>3, <1>4, <1>5, <1>6, <1>7, <1>8, <1>9, <1>10
     DEF LifecycleNext, SessionLocks, OperatorLocks, sessionVars, lifecycleVars

\* Whatever sessions, operators and the clean-up do is something that FileLocks
\* allows to happen to its table.
LEMMA LifecycleStep == LifeTypes /\ [LifecycleNext]_lifecycleVars => [Next]_vars
<1> SUFFICES ASSUME LifeTypes, [LifecycleNext]_lifecycleVars PROVE [Next]_vars
  OBVIOUS
<1>1. CASE \E s \in Sessions : Register(s) \/ SendHeartbeat(s) \/ Heartbeat(s)
  BY <1>1 DEF Register, SendHeartbeat, Heartbeat
<1>2. CASE \E a \in Agents : Kick(a)
  BY <1>2 DEF Kick
<1>3. CASE CleanupSelect \/ CleanupUpdate \/ CleanupDelete
  BY <1>3 DEF CleanupSelect, CleanupUpdate, CleanupDelete
<1>4. CASE CleanupCommit
  <2>1. cleanup.keys \in SUBSET Keys
    BY DEF LifeTypes, Cleanups
  <2>2. QED
    BY <1>4, <2>1 DEF CleanupCommit, Next
<1>5. CASE LifecycleTick
  BY <1>5 DEF LifecycleTick, Next
<1>6. CASE \E s \in Sessions : SessionLocks(s)
  BY <1>6 DEF SessionLocks, SessionNext, Next
<1>7. CASE \E o \in Operators : OperatorLocks(o)
  BY <1>7 DEF OperatorLocks, OperatorNext, Next
<1>8. CASE UNCHANGED lifecycleVars
  BY <1>8 DEF lifecycleVars, vars
<1>9. QED
  BY <1>1, <1>2, <1>3, <1>4, <1>5, <1>6, <1>7, <1>8 DEF LifecycleNext

LEMMA LifecycleLocks == LifecycleSpec => Spec /\ []LifeTypes
<1>1. LifecycleInit => Init
  BY DEF LifecycleInit
<1>2. QED
  BY <1>1, LifeTypesInit, LifeTypesStep, LifecycleStep, PTL DEF LifecycleSpec, Spec

\* With sessions coming, going, being kicked and cleaned up, a session that was
\* told it holds a key and from whom it was not taken back still has its row, up
\* to Slack before the end it was told.
THEOREM LifecycleLeasesBacked == LifecycleSpec => []LeaseBacked
BY LifecycleLocks, LeasesBacked, PTL

\* Every variable of the lifecycle and of the lock table has its type.
THEOREM LifecycleTyped == LifecycleSpec => []LifecycleTypeOK
<1>1. LifeTypes /\ TypeOK => LifecycleTypeOK
  BY DEF LifeTypes, LifecycleTypeOK
<1>2. QED
  BY <1>1, LifecycleLocks, TypeCorrect, PTL

\* With sessions, heartbeats and the clean-up on top, the table still is a lease
\* service: what cleanup_dead_agents commits is one of its revocations.
THEOREM LifecycleImplementsLeaseLock == LifecycleSpec => ImplementsLeaseLock
BY LifecycleLocks, TableImplementsLeaseLock, PTL

-----------------------------------------------------------------------------
(* What a clean-up has chosen does not change hands before it commits: every*)
(* step that writes a row of the lock table other than the commit itself    *)
(* waits for the rows that the DELETE has locked.                           *)

LEMMA OwnStep ==
    TypeOK /\ LifeTypes /\ CleanupTakesItsOwn /\ [LifecycleNext]_lifecycleVars
        => CleanupTakesItsOwn'
<1> SUFFICES ASSUME TypeOK, LifeTypes, CleanupTakesItsOwn, [LifecycleNext]_lifecycleVars,
                    NEW k \in cleanup'.keys
             PROVE  holder'[k] \in cleanup'.agents
  BY DEF CleanupTakesItsOwn
<1> USE LockAssumption
<1>1. ASSUME UNCHANGED cleanup, UNCHANGED holder \/ holder'[k] = holder[k]
      PROVE  holder'[k] \in cleanup'.agents
  BY <1>1 DEF CleanupTakesItsOwn
<1>2. CASE \E s \in Sessions : Register(s) \/ SendHeartbeat(s) \/ Heartbeat(s)
  BY <1>1, <1>2 DEF Register, SendHeartbeat, Heartbeat, vars
<1>3. CASE \E a \in Agents : Kick(a)
  BY <1>1, <1>3 DEF Kick, vars
<1>4. CASE CleanupSelect
  BY <1>4 DEF CleanupSelect, NoCleanup
<1>5. CASE CleanupUpdate
  <2>1. cleanup'.keys = cleanup.keys /\ cleanup'.agents = cleanup.agents
    BY <1>5 DEF CleanupUpdate, LifeTypes, Cleanups
  <2>2. holder' = holder
    BY <1>5 DEF CleanupUpdate, vars
  <2>3. QED
    BY <2>1, <2>2 DEF CleanupTakesItsOwn
<1>6. CASE CleanupDelete
  <2>1. /\ cleanup'.keys = {j \in Keys : holder[j] \in cleanup.agents}
        /\ cleanup'.agents = cleanup.agents
    BY <1>6 DEF CleanupDelete, LifeTypes, Cleanups
  <2>2. holder' = holder
    BY <1>6 DEF CleanupDelete, vars
  <2>3. QED
    BY <2>1, <2>2
<1>7. CASE CleanupCommit
  BY <1>7 DEF CleanupCommit, NoCleanup
<1>8. CASE LifecycleTick
  BY <1>1, <1>8 DEF LifecycleTick, Tick
<1>9. ASSUME NEW s \in Sessions, SessionLocks(s)
      PROVE  holder'[k] \in cleanup'.agents
  <2>0. UNCHANGED cleanup /\ k \in cleanup.keys /\ k \in Keys
    BY <1>9 DEF SessionLocks, sessionVars, LifeTypes, Cleanups
  <2>1. CASE (\E j \in Keys, ttl \in TTLs : AcquireStart(s, j, ttl)) \/ Crash(s)
    BY <1>1, <2>0, <2>1 DEF AcquireStart, Crash
  <2>2. ASSUME NEW j \in Keys \ cleanup.keys, Release(s, j)
        PROVE  holder'[k] = holder[k]
    BY <2>0, <2>2 DEF Release, DeleteRows
  <2>3. ASSUME ~Waits(s), NEW heard \in BOOLEAN, AcquireInsert(s, heard)
        PROVE  holder'[k] = holder[k]
    <3>1. tx[s].key # k /\ ~Expired(k, tx[s].age)
      BY <2>0, <2>3 DEF Waits, AcquireInsert
    <3> DEFINE swept == {j \in Keys : Expired(j, tx[s].age)}
               after == [j \in Keys |-> IF j \in swept THEN NoAgent ELSE holder[j]]
    <3>2. after \in [Keys -> Agents \cup {NoAgent}] /\ after[k] = holder[k]
      BY <2>0, <3>1 DEF TypeOK
    <3>3. holder' = after \/ holder' = [after EXCEPT ![tx[s].key] = AgentOf[s]]
      BY <2>3 DEF AcquireInsert
    <3>4. QED
      <4> HIDE DEF after
      <4>1. QED
        BY <2>0, <3>1, <3>2, <3>3
  <2>4. ASSUME NEW heard \in BOOLEAN, AcquireResolve(s, heard)
        PROVE  holder'[k] = holder[k]
    BY <2>4 DEF AcquireResolve
  <2>5. QED
    BY <1>1, <1>9, <2>0, <2>1, <2>2, <2>3, <2>4 DEF SessionLocks
<1>10. ASSUME NEW o \in Operators, OperatorLocks(o)
       PROVE  holder'[k] \in cleanup'.agents
  <2>0. UNCHANGED cleanup /\ k \in cleanup.keys /\ k \in Keys
    BY <1>10 DEF OperatorLocks, sessionVars, LifeTypes, Cleanups
  <2>1. CASE (\E j \in Keys : ForceRead(o, j)) \/ ForceFail(o)
    BY <1>1, <2>0, <2>1 DEF ForceRead, ForceFail
  <2>2. CASE force[o] \notin cleanup.keys /\ ForceDelete(o)
    <3>1. holder'[k] = holder[k]
      BY <2>0, <2>2 DEF ForceDelete, DeleteRows
    <3>2. QED
      BY <1>1, <2>0, <3>1
  <2>3. QED
    BY <1>10, <2>1, <2>2 DEF OperatorLocks
<1>11. CASE UNCHANGED lifecycleVars
  BY <1>1, <1>11 DEF lifecycleVars
<1>12. QED
  BY <1>2, <1>3, <1>4, <1>5, <1>6, <1>7, <1>8, <1>9, <1>10, <1>11 DEF LifecycleNext

\* A clean-up takes rows of agents it found stale and of nobody else, whatever
\* is acquired, swept, released and forced out between its DELETE and its commit.
THEOREM CleanupOwnRows == LifecycleSpec => []CleanupTakesItsOwn
<1>1. LifecycleInit => CleanupTakesItsOwn
  BY DEF LifecycleInit, NoCleanup, CleanupTakesItsOwn
<1>2. LifecycleSpec => []TypeOK
  BY LifecycleLocks, TypeCorrect, PTL
<1>3. QED
  BY <1>1, <1>2, LifecycleLocks, OwnStep, PTL DEF LifecycleSpec
=============================================================================
