------------------------- MODULE IndexRegistryProofs -------------------------
(***************************************************************************)
(* IndexRegistry for every set of indexes, workers and collections and for *)
(* every lease: the types, what a query may read of a ready index, and the *)
(* pinning of parents and of the canonical index.                          *)
(***************************************************************************)
EXTENDS IndexRegistry, TLAPS

\* Who is at what: a run that has claimed is at an index, and so is a
\* collection that deletes; only an index of main waits for its promotion.
StepsOK ==
    /\ \A w \in Workers :
         /\ work[w].step \in Running => work[w].index \in Indexes
         /\ work[w].step = "ready" => work[w].index \in Main
    /\ \A c \in Collectors :
         pass[c].step \in {"deleting", "erased"} => pass[c].index \in Indexes

-----------------------------------------------------------------------------
(* Types                                                                   *)

\* Taking the lease off a row, or putting one on it, keeps the lease's shape.
LEMMA RowChange ==
    ASSUME IndexTypeOK, NEW i \in Indexes,
           \/ \E s \in Statuses \ Leased : Unlease(i, s)
           \/ \E s \in Leased, h \in Holders, d \in Int : Grant(i, s, h, d)
    PROVE  /\ status' \in [Indexes -> Statuses]
           /\ holder' \in [Indexes -> Holders \cup {NoOne}]
           /\ left' \in [Indexes -> Int]
           /\ \A j \in Indexes : status'[j] \in Leased <=> holder'[j] # NoOne
<1> USE RegistryAssumption DEF IndexTypeOK
<1>1. CASE \E s \in Statuses \ Leased : Unlease(i, s)
  BY <1>1 DEF Unlease
<1>2. CASE \E s \in Leased, h \in Holders, d \in Int : Grant(i, s, h, d)
  BY <1>2 DEF Grant, Statuses
<1>3. QED
  BY <1>1, <1>2

LEMMA InitTyped == Init => IndexTypeOK /\ StepsOK
BY RegistryAssumption
   DEF Init, IndexTypeOK, StepsOK, Resting, NoPass, Statuses, Claimable, Leased,
       Running, WorkSteps, Runs, Passes

\* A step of a run is a run again, wherever it stands afterwards.
LEMMA RunType ==
    ASSUME IndexTypeOK, NEW w \in Workers
    PROVE  /\ Resting \in Runs
           /\ \A s \in WorkSteps, e \in Indexes \cup {NoIndex} :
                /\ [work[w] EXCEPT !.step = s] \in Runs
                /\ [work[w] EXCEPT !.step = s, !.expected = e] \in Runs
           /\ \A i \in Indexes : [step |-> "claimed", index |-> i,
                                  attempt |-> attempt[i] + 1, expected |-> NoIndex] \in Runs
           /\ work[w] \in Runs
<1>1. work[w] \in Runs
  BY DEF IndexTypeOK
<1>2. Resting \in Runs
  BY DEF Runs, Resting, WorkSteps
<1>3. \A s \in WorkSteps, e \in Indexes \cup {NoIndex} :
        /\ [work[w] EXCEPT !.step = s] \in Runs
        /\ [work[w] EXCEPT !.step = s, !.expected = e] \in Runs
  BY <1>1 DEF Runs
<1>4. \A i \in Indexes : attempt[i] + 1 \in Nat
  BY DEF IndexTypeOK
<1>5. "claimed" \in WorkSteps
  BY DEF WorkSteps, Running
<1>6. \A i \in Indexes : [step |-> "claimed", index |-> i, attempt |-> attempt[i] + 1,
                          expected |-> NoIndex] \in Runs
  BY <1>4, <1>5 DEF Runs
<1>7. QED
  BY <1>1, <1>2, <1>3, <1>6

LEMMA PassType ==
    ASSUME IndexTypeOK, NEW c \in Collectors
    PROVE  /\ NoPass \in Passes
           /\ pass[c] \in Passes
           /\ \A s \in {"scanned", "deleting", "erased"}, i \in Indexes \cup {NoIndex},
                 B \in SUBSET Indexes :
                /\ [pass[c] EXCEPT !.step = s] \in Passes
                /\ [pass[c] EXCEPT !.step = s, !.index = i] \in Passes
                /\ [pass[c] EXCEPT !.batch = B] \in Passes
                /\ [pass[c] EXCEPT !.step = s, !.index = i, !.batch = B] \in Passes
                /\ [step |-> s, batch |-> B, index |-> i, age |-> 0] \in Passes
           /\ [pass[c] EXCEPT !.age = @ + 1] \in Passes
<1>1. pass[c] \in Passes
  BY DEF IndexTypeOK
<1>2. NoPass \in Passes
  BY DEF Passes, NoPass
<1>3. \A s \in {"scanned", "deleting", "erased"}, i \in Indexes \cup {NoIndex},
         B \in SUBSET Indexes :
        /\ [pass[c] EXCEPT !.step = s] \in Passes
        /\ [pass[c] EXCEPT !.step = s, !.index = i] \in Passes
  BY <1>1 DEF Passes
<1>4. \A s \in {"scanned", "deleting", "erased"}, i \in Indexes \cup {NoIndex},
         B \in SUBSET Indexes :
        /\ [pass[c] EXCEPT !.batch = B] \in Passes
        /\ [pass[c] EXCEPT !.step = s, !.index = i, !.batch = B] \in Passes
        /\ [step |-> s, batch |-> B, index |-> i, age |-> 0] \in Passes
  BY <1>1 DEF Passes
<1>5. [pass[c] EXCEPT !.age = @ + 1] \in Passes
  BY <1>1 DEF Passes
<1>6. QED
  BY <1>1, <1>2, <1>3, <1>4, <1>5

\* Whatever a worker does, only its own run moves, and to a run.
LEMMA RunMoves ==
    ASSUME IndexTypeOK, NEW w \in Workers, WorkerNext(w)
    PROVE  /\ work' \in [Workers -> Runs]
           /\ \A v \in Workers \ {w} : work'[v] = work[v]
           /\ UNCHANGED pass
<1>1. work \in [Workers -> Runs]
  BY DEF IndexTypeOK
<1>2. ASSUME NEW r \in Runs, work' = [work EXCEPT ![w] = r]
      PROVE  /\ work' \in [Workers -> Runs]
             /\ \A v \in Workers \ {w} : work'[v] = work[v]
  BY <1>1, <1>2
<1>3. ASSUME NEW i \in Indexes, Claim(w, i) PROVE \E r \in Runs : work' = [work EXCEPT ![w] = r]
  BY <1>3, RunType DEF Claim
<1>4. ASSUME NEW p \in Indexes, PlanOn(w, p) PROVE \E r \in Runs : work' = [work EXCEPT ![w] = r]
  <2>1. Expected(work[w].index) \in Indexes \cup {NoIndex}
    BY DEF Expected, IndexTypeOK
  <2>2. work' = [work EXCEPT ![w] = [work[w] EXCEPT !.step = "planned",
                                                  !.expected = Expected(work[w].index)]]
    BY <1>1, <1>4 DEF PlanOn
  <2>3. QED
    BY <2>1, <2>2, RunType DEF WorkSteps, Running
<1>5. ASSUME PlanFull(w) PROVE \E r \in Runs : work' = [work EXCEPT ![w] = r]
  <2>1. Expected(work[w].index) \in Indexes \cup {NoIndex}
    BY DEF Expected, IndexTypeOK
  <2>2. work' = [work EXCEPT ![w] = [work[w] EXCEPT !.step = "planned",
                                                  !.expected = Expected(work[w].index)]]
    BY <1>1, <1>5 DEF PlanFull
  <2>3. QED
    BY <2>1, <2>2, RunType DEF WorkSteps, Running
<1>6. ASSUME PublishLock(w) \/ PublishCommit(w) PROVE \E r \in Runs : work' = [work EXCEPT ![w] = r]
  <2>1. \E s \in WorkSteps : work' = [work EXCEPT ![w] = [work[w] EXCEPT !.step = s]]
    BY <1>1, <1>6 DEF PublishLock, PublishCommit, Goes, WorkSteps, Running
  <2>2. QED
    BY <2>1, RunType
<1>7. ASSUME MarkReady(w) PROVE \E r \in Runs : work' = [work EXCEPT ![w] = r]
  BY <1>1, <1>7, RunType DEF MarkReady, WorkSteps
<1>8. ASSUME Fail(w) \/ Promote(w) \/ Stop(w) PROVE \E r \in Runs : work' = [work EXCEPT ![w] = r]
  BY <1>8, RunType DEF Fail, Promote, Stop
<1>9. ASSUME Renew(w) PROVE UNCHANGED work
  BY <1>9 DEF Renew
<1>10. UNCHANGED pass
  BY DEF WorkerNext, Claim, PlanOn, Renew, PlanFull, PublishLock, PublishCommit,
         MarkReady, Promote, Fail, Stop
<1>11. QED
  BY <1>1, <1>2, <1>3, <1>4, <1>5, <1>6, <1>7, <1>8, <1>9, <1>10 DEF WorkerNext

LEMMA WorkerTyped ==
    ASSUME IndexTypeOK, StepsOK, NEW w \in Workers, WorkerNext(w)
    PROVE  IndexTypeOK'
<1> USE RegistryAssumption
<1> DEFINE Rest == work' \in [Workers -> Runs] /\ UNCHANGED pass
<1>0. Rest
  BY RunMoves
<1> HIDE DEF Rest
<1>1. ASSUME NEW i \in Indexes, Claim(w, i) PROVE IndexTypeOK'
  <2>1. Grant(i, "indexing", w, Lease) /\ w \in Holders
    BY <1>1 DEF Claim, Holders
  <2>2. attempt' \in [Indexes -> Nat]
    BY <1>1 DEF Claim, IndexTypeOK
  <2>3. QED
    BY <1>0, <1>1, <2>1, <2>2, RowChange DEF Claim, IndexTypeOK, Leased, storage, Rest
<1>2. ASSUME NEW p \in Indexes, PlanOn(w, p) PROVE IndexTypeOK'
  <2>1. parent' \in [Indexes -> Indexes \cup {NoIndex}]
    BY <1>2 DEF PlanOn, IndexTypeOK
  <2>2. QED
    BY <1>0, <1>2, <2>1 DEF PlanOn, IndexTypeOK, storage, Rest
<1>3. ASSUME Renew(w) PROVE IndexTypeOK'
  <2>1. left' \in [Indexes -> Int]
    <3>1. Lease \in Int /\ left \in [Indexes -> Int]
      BY DEF IndexTypeOK
    <3>2. left' = [left EXCEPT ![work[w].index] = Lease]
      BY <1>3 DEF Renew
    <3>3. QED
      BY <3>1, <3>2
  <2>2. QED
    BY <1>0, <1>3, <2>1 DEF Renew, IndexTypeOK, storage, Rest
<1>4. ASSUME PlanFull(w) \/ Stop(w) \/ PublishLock(w) PROVE IndexTypeOK'
  BY <1>0, <1>4 DEF PlanFull, Stop, PublishLock, IndexTypeOK, storage, row, Rest
<1>5. ASSUME PublishCommit(w) PROVE IndexTypeOK'
  <2>1. work[w].attempt \in Nat
    BY DEF IndexTypeOK, Runs
  <2>2. table' \in [Indexes -> Nat] /\ manifest' \in [Indexes -> Nat] /\ stray' \subseteq Indexes
    BY <1>5, <2>1 DEF PublishCommit, IndexTypeOK
  <2>3. QED
    BY <1>0, <1>5, <2>2 DEF PublishCommit, IndexTypeOK, row, Rest
<1>6. ASSUME MarkReady(w) \/ Fail(w) PROVE IndexTypeOK'
  <2>1. work[w].index \in Indexes
    BY <1>6 DEF MarkReady, Fail, StepsOK, Running
  <2>2. \E s \in Statuses \ Leased : Unlease(work[w].index, s)
    BY <1>6 DEF MarkReady, Fail, Statuses, Claimable, Leased
  <2>3. QED
    BY <1>0, <1>6, <2>1, <2>2, RowChange DEF MarkReady, Fail, IndexTypeOK, storage, Rest
<1>7. ASSUME Promote(w) PROVE IndexTypeOK'
  <2>1. work[w].index \in Indexes
    <3>1. work[w].index \in Main
      BY <1>7 DEF Promote, StepsOK
    <3>2. QED
      BY <3>1
  <2>2. canonical' = work[w].index
    BY <1>7 DEF Promote
  <2>3. QED
    BY <1>0, <1>7, <2>1, <2>2 DEF Promote, IndexTypeOK, row, storage, Rest
<1>8. QED
  BY <1>1, <1>2, <1>3, <1>4, <1>5, <1>6, <1>7 DEF WorkerNext

\* A run has an index once it has claimed one.
LEMMA WorkerSteps ==
    ASSUME IndexTypeOK, StepsOK, NEW w \in Workers, WorkerNext(w)
    PROVE  StepsOK'
<1>1. /\ \A v \in Workers \ {w} : work'[v] = work[v]
      /\ UNCHANGED pass
  BY RunMoves
<1>2. work \in [Workers -> Runs]
  BY DEF IndexTypeOK
<1>3. /\ work'[w].step \in Running => work'[w].index \in Indexes
      /\ work'[w].step = "ready" => work'[w].index \in Main
  <2>1. CASE \E i \in Indexes : Claim(w, i)
    BY <1>2, <2>1 DEF Claim
  <2>2. CASE (\E p \in Indexes : PlanOn(w, p)) \/ PlanFull(w)
    BY <1>2, <2>2 DEF PlanOn, PlanFull, StepsOK, Running, Runs
  <2>3. CASE Renew(w)
    BY <2>3 DEF Renew, StepsOK
  <2>4. CASE PublishLock(w) \/ PublishCommit(w)
    BY <1>2, <2>4 DEF PublishLock, PublishCommit, Goes, StepsOK, Running, Runs
  <2>5. CASE MarkReady(w)
    BY <1>2, <2>5 DEF MarkReady, Resting, Running, Runs
  <2>6. CASE Fail(w) \/ Promote(w) \/ Stop(w)
    BY <1>2, <2>6 DEF Fail, Promote, Stop, Resting, Running
  <2>7. QED
    BY <2>1, <2>2, <2>3, <2>4, <2>5, <2>6 DEF WorkerNext
<1>4. QED
  BY <1>1, <1>3 DEF StepsOK

\* Whatever a collection does, only its own pass moves, and to a pass.
LEMMA PassMoves ==
    ASSUME IndexTypeOK, NEW c \in Collectors, CollectorNext(c)
    PROVE  /\ pass' \in [Collectors -> Passes]
           /\ \A d \in Collectors \ {c} : pass'[d] = pass[d]
           /\ UNCHANGED <<work, attempt, parent, canonical, manifest>>
<1>1. pass \in [Collectors -> Passes]
  BY DEF IndexTypeOK
<1>2. ASSUME NEW r \in Passes, pass' = [pass EXCEPT ![c] = r]
      PROVE  /\ pass' \in [Collectors -> Passes]
             /\ \A d \in Collectors \ {c} : pass'[d] = pass[d]
  BY <1>1, <1>2
<1>3. pass[c].batch \in SUBSET Indexes
  BY <1>1 DEF Passes
<1>4. ASSUME NEW batch \in SUBSET Indexes, Scan(c, batch)
      PROVE  \E r \in Passes : pass' = [pass EXCEPT ![c] = r]
  BY <1>4, PassType DEF Scan
<1>5. ASSUME NEW i \in Indexes, Take(c, i)
      PROVE  \E r \in Passes : pass' = [pass EXCEPT ![c] = r]
  <2>1. pass' = [pass EXCEPT ![c] = [pass[c] EXCEPT !.step = "deleting", !.index = i,
                                                  !.batch = pass[c].batch \ {i}]]
    BY <1>1, <1>5 DEF Take, Passes
  <2>2. QED
    BY <1>3, <2>1, PassType
<1>6. ASSUME NEW i \in Indexes, Skip(c, i)
      PROVE  \E r \in Passes : pass' = [pass EXCEPT ![c] = r]
  <2>1. pass' = [pass EXCEPT ![c] = [pass[c] EXCEPT !.batch = pass[c].batch \ {i}]]
    BY <1>1, <1>6 DEF Skip, Passes
  <2>2. QED
    BY <1>3, <2>1, PassType
<1>7. ASSUME Erase(c) PROVE \E r \in Passes : pass' = [pass EXCEPT ![c] = r]
  <2>1. pass' = [pass EXCEPT ![c] = [pass[c] EXCEPT !.step = "erased"]]
    BY <1>1, <1>7 DEF Erase
  <2>2. [pass[c] EXCEPT !.step = "erased"] \in Passes
    BY PassType
  <2>3. QED
    BY <2>1, <2>2
<1>8. ASSUME Tombstone(c) \/ GcFailed(c) PROVE \E r \in Passes : pass' = [pass EXCEPT ![c] = r]
  <2>1. pass' = [pass EXCEPT ![c] = [pass[c] EXCEPT !.step = "scanned", !.index = NoIndex]]
    BY <1>1, <1>8 DEF Tombstone, GcFailed
  <2>2. QED
    BY <2>1, PassType
<1>9. ASSUME EndPass(c) PROVE \E r \in Passes : pass' = [pass EXCEPT ![c] = r]
  BY <1>9, PassType DEF EndPass
<1>10. UNCHANGED <<work, attempt, parent, canonical, manifest>>
  BY DEF CollectorNext, Scan, Take, Skip, Erase, Tombstone, GcFailed, EndPass, row, storage
<1>11. QED
  BY <1>2, <1>4, <1>5, <1>6, <1>7, <1>8, <1>9, <1>10 DEF CollectorNext

LEMMA CollectorTyped ==
    ASSUME IndexTypeOK, StepsOK, NEW c \in Collectors, CollectorNext(c)
    PROVE  IndexTypeOK'
<1> USE RegistryAssumption
<1> DEFINE Rest == /\ pass' \in [Collectors -> Passes]
                   /\ UNCHANGED <<work, attempt, parent, canonical, manifest>>
<1>0. Rest
  BY PassMoves
<1> HIDE DEF Rest
<1>1. CASE \/ \E batch \in SUBSET Indexes : Scan(c, batch)
           \/ \E i \in Indexes : Skip(c, i)
           \/ EndPass(c)
  BY <1>0, <1>1 DEF Scan, Skip, EndPass, IndexTypeOK, row, storage, Rest
<1>2. ASSUME NEW i \in Indexes, Take(c, i) PROVE IndexTypeOK'
  <2>1. pass[c].age \in Nat
    BY DEF IndexTypeOK, Passes
  <2>2. Grant(i, "deleting", c, Lease - pass[c].age) /\ c \in Holders
    BY <1>2 DEF Take, Holders
  <2>3. QED
    BY <1>0, <1>2, <2>1, <2>2, RowChange DEF Take, IndexTypeOK, Leased, storage, Rest
<1>3. ASSUME Erase(c) PROVE IndexTypeOK'
  <2>1. table' \in [Indexes -> Nat] /\ stray' \subseteq Indexes
    BY <1>3 DEF Erase, IndexTypeOK, StepsOK
  <2>2. QED
    BY <1>0, <1>3, <2>1 DEF Erase, IndexTypeOK, row, Rest
<1>4. ASSUME Tombstone(c) \/ GcFailed(c) PROVE IndexTypeOK'
  <2>1. pass[c].index \in Indexes
    BY <1>4 DEF Tombstone, GcFailed, StepsOK
  <2>2. \/ \E s \in Statuses \ Leased : Unlease(pass[c].index, s)
        \/ UNCHANGED <<status, holder, left>>
    BY <1>4 DEF Tombstone, GcFailed, Statuses, Claimable, Leased
  <2>3. UNCHANGED <<table, stray>>
    BY <1>4 DEF Tombstone, GcFailed, storage
  <2>4. QED
    BY <1>0, <2>1, <2>2, <2>3, RowChange DEF IndexTypeOK, Rest
<1>5. QED
  BY <1>1, <1>2, <1>3, <1>4 DEF CollectorNext

\* A collection has an index while it deletes.
LEMMA CollectorSteps ==
    ASSUME IndexTypeOK, StepsOK, NEW c \in Collectors, CollectorNext(c)
    PROVE  StepsOK'
<1>1. /\ \A d \in Collectors \ {c} : pass'[d] = pass[d]
      /\ UNCHANGED work
  BY PassMoves
<1>2. pass \in [Collectors -> Passes]
  BY DEF IndexTypeOK
<1>3. pass'[c].step \in {"deleting", "erased"} => pass'[c].index \in Indexes
  <2>1. CASE \E batch \in SUBSET Indexes : Scan(c, batch)
    BY <1>2, <2>1 DEF Scan
  <2>2. CASE \E i \in Indexes : Take(c, i)
    BY <1>2, <2>2 DEF Take, Passes
  <2>3. CASE \E i \in Indexes : Skip(c, i)
    BY <1>2, <2>3 DEF Skip, Passes
  <2>4. CASE Erase(c)
    BY <1>2, <2>4 DEF Erase, Passes, StepsOK
  <2>5. CASE Tombstone(c) \/ GcFailed(c)
    BY <1>2, <2>5 DEF Tombstone, GcFailed, Passes
  <2>6. CASE EndPass(c)
    BY <1>2, <2>6 DEF EndPass, NoPass
  <2>7. QED
    BY <2>1, <2>2, <2>3, <2>4, <2>5, <2>6 DEF CollectorNext
<1>4. QED
  BY <1>1, <1>3 DEF StepsOK

LEMMA TypedStep == IndexTypeOK /\ StepsOK /\ [Next]_vars => IndexTypeOK' /\ StepsOK'
<1> SUFFICES ASSUME IndexTypeOK, StepsOK, [Next]_vars PROVE IndexTypeOK' /\ StepsOK'
  OBVIOUS
<1>1. CASE Tick
  <2>1. pass' \in [Collectors -> Passes]
    BY <1>1, PassType DEF Tick, Passes
  <2>2. left' \in [Indexes -> Int]
    BY <1>1 DEF Tick, IndexTypeOK
  <2>3. ASSUME NEW c \in Collectors
        PROVE  pass'[c].step = pass[c].step /\ pass'[c].index = pass[c].index
    <3>1. pass[c] \in Passes
      BY PassType
    <3>2. pass'[c] = pass[c] \/ pass'[c] = [pass[c] EXCEPT !.age = @ + 1]
      BY <1>1 DEF Tick
    <3>3. QED
      BY <3>1, <3>2 DEF Passes
  <2>4. QED
    BY <1>1, <2>1, <2>2, <2>3 DEF Tick, Passes, IndexTypeOK, StepsOK, storage
<1>2. CASE \E i \in Indexes : Reuse(i)
  BY <1>2 DEF Reuse, IndexTypeOK, StepsOK, row, storage
<1>3. CASE \E w \in Workers : WorkerNext(w)
  BY <1>3, WorkerTyped, WorkerSteps
<1>4. CASE \E c \in Collectors : CollectorNext(c)
  BY <1>4, CollectorTyped, CollectorSteps
<1>5. CASE UNCHANGED vars
  BY <1>5 DEF vars, IndexTypeOK, StepsOK
<1>6. QED
  BY <1>1, <1>2, <1>3, <1>4, <1>5 DEF Next

\* Every variable has its type, and a row has a lease exactly while it is
\* indexed or deleted.
THEOREM IndexTyped == Spec => []IndexTypeOK
BY InitTyped, TypedStep, PTL DEF Spec

-----------------------------------------------------------------------------
(* Storage.  What a run that still has its row knows of it is true, and a  *)
(* publication that is open keeps the row as it found it.                  *)

Owns(w, i) ==
    /\ work[w].step \in Running /\ work[w].index = i
    /\ status[i] = "indexing" /\ holder[i] = w

Collecting(c, i) ==
    /\ pass[c].index = i
    /\ status[i] = "deleting" /\ holder[i] = c

\* Runs lease rows that are indexed, collections those that are deleted.
RolesOK ==
    \A i \in Indexes :
      /\ status[i] = "indexing" => holder[i] \in Workers
      /\ status[i] = "deleting" => holder[i] \in Collectors

\* The attempt of a run that has its row is the row's, and once published it is
\* what is stored; an open publication has its row.
AttemptsOK ==
    \A w \in Workers :
      /\ \A i \in Indexes : Owns(w, i) =>
           /\ attempt[i] > 0 /\ work[w].attempt = attempt[i]
           /\ work[w].step = "published" => manifest[i] = attempt[i] /\ TableAgrees(i)
      /\ work[w].step = "publishing" => Owns(w, work[w].index)

\* A collection that has had the storage deleted finds it so while it has the
\* row.
ErasedOK ==
    \A c \in Collectors, i \in Indexes :
      pass[c].step = "erased" /\ Collecting(c, i) => table[i] = 0

StorageInv == RolesOK /\ AttemptsOK /\ ErasedOK /\ StorageAgrees

LEMMA InitStorage == Init => StorageInv
BY DEF Init, StorageInv, RolesOK, AttemptsOK, ErasedOK, StorageAgrees, TableAgrees,
       Owns, Collecting, Resting, NoPass, Running

LEMMA RowPoint ==
    ASSUME IndexTypeOK, NEW i \in Indexes
    PROVE  /\ \A s : Unlease(i, s) => \A j \in Indexes :
                /\ status'[j] = IF j = i THEN s ELSE status[j]
                /\ holder'[j] = IF j = i THEN NoOne ELSE holder[j]
           /\ \A s, h, d : Grant(i, s, h, d) => \A j \in Indexes :
                /\ status'[j] = IF j = i THEN s ELSE status[j]
                /\ holder'[j] = IF j = i THEN h ELSE holder[j]
BY DEF IndexTypeOK, Unlease, Grant

\* Only the run of its holder publishes a row.
LEMMA ClaimStorage ==
    ASSUME IndexTypeOK, StepsOK, StorageInv, NEW w \in Workers, NEW i \in Indexes, Claim(w, i)
    PROVE  StorageInv'
<1>1. /\ work[w].step = "idle" /\ ~Locked(i) /\ Free(i)
      /\ Grant(i, "indexing", w, Lease)
      /\ UNCHANGED <<table, manifest, stray, pass>>
  BY DEF Claim, storage, Resting
<1>2. \A j \in Indexes :
        /\ status'[j] = IF j = i THEN "indexing" ELSE status[j]
        /\ holder'[j] = IF j = i THEN w ELSE holder[j]
        /\ attempt'[j] = IF j = i THEN attempt[i] + 1 ELSE attempt[j]
        /\ attempt[j] \in Nat
  BY <1>1, RowPoint DEF Claim, IndexTypeOK
<1>3. \A v \in Workers :
        work'[v] = IF v = w THEN [step |-> "claimed", index |-> i,
                                  attempt |-> attempt[i] + 1, expected |-> NoIndex]
                   ELSE work[v]
  BY DEF Claim, IndexTypeOK
<1>4. status[i] \notin {"ready", "deleted", "deleting"}
  BY <1>1 DEF Free, Claimable
<1>5. Workers \cap Collectors = {}
  BY RegistryAssumption
<1>6. RolesOK'
  BY <1>2 DEF StorageInv, RolesOK
<1>7. AttemptsOK'
  <2>1. \A v \in Workers : work[v].step = "publishing" => work[v].index # i
    BY <1>1 DEF Locked
  <2>2. \A v \in Workers, j \in Indexes : Owns(v, j)' /\ v # w => Owns(v, j) /\ j # i
    BY <1>2, <1>3 DEF Owns
  <2>3. \A v \in Workers : work[v].step = "publishing" => work[v].index \in Indexes
    BY DEF StepsOK, Running
  <2>4. \A j \in Indexes : Owns(w, j)' => j = i
    BY <1>3 DEF Owns
  <2>5. \A v \in Workers \ {w} : work[v].step = "publishing" => Owns(v, work[v].index)'
    BY <1>2, <1>3, <2>1, <2>3 DEF StorageInv, AttemptsOK, Owns
  <2>6. QED
    BY <1>1, <1>2, <1>3, <2>2, <2>4, <2>5 DEF StorageInv, AttemptsOK, TableAgrees
<1>8. ErasedOK' /\ StorageAgrees'
  BY <1>1, <1>2, <1>4, <1>5 DEF StorageInv, ErasedOK, Collecting, StorageAgrees, TableAgrees
<1>9. QED
  BY <1>6, <1>7, <1>8 DEF StorageInv

\* Planning, renewing and taking the lock leave rows and storage as they are.
LEMMA RunStorage ==
    ASSUME IndexTypeOK, StepsOK, StorageInv, NEW w \in Workers,
           \/ Renew(w) \/ PlanFull(w) \/ PublishLock(w) \/ Promote(w) \/ Stop(w)
           \/ \E p \in Indexes : PlanOn(w, p)
    PROVE  StorageInv'
<1>1. UNCHANGED <<status, holder, attempt, table, manifest, stray, pass>>
  BY DEF Renew, PlanFull, PublishLock, Promote, Stop, PlanOn, row, storage
<1>2. work \in [Workers -> Runs]
  BY DEF IndexTypeOK
<1>3. \A v \in Workers \ {w} : work'[v] = work[v]
  BY RunMoves DEF WorkerNext
<1>4. \/ work'[w].step = "idle"
      \/ /\ work'[w].index = work[w].index /\ work'[w].attempt = work[w].attempt
         /\ work'[w].step = work[w].step \/ work'[w].step = "planned"
         /\ work[w].step \in Running
      \/ PublishLock(w)
  <2>1. CASE Renew(w)
    BY <2>1 DEF Renew
  <2>2. CASE PlanFull(w)
    BY <1>2, <2>2 DEF PlanFull, Runs, Running
  <2>3. ASSUME NEW p \in Indexes, PlanOn(w, p)
        PROVE  /\ work[w].step = "claimed" /\ work'[w].step = "planned"
               /\ work'[w].index = work[w].index /\ work'[w].attempt = work[w].attempt
    <3>1. work' = [work EXCEPT ![w] = [work[w] EXCEPT !.step = "planned",
                                        !.expected = Expected(work[w].index)]]
      BY <1>2, <2>3 DEF PlanOn
    <3>2. QED
      BY <1>2, <2>3, <3>1 DEF PlanOn, Runs
  <2>4. CASE Promote(w) \/ Stop(w)
    BY <1>2, <2>4 DEF Promote, Stop, Resting
  <2>5. QED
    BY <2>1, <2>2, <2>3, <2>4 DEF Running
<1>5. RolesOK' /\ ErasedOK' /\ StorageAgrees'
  BY <1>1 DEF StorageInv, RolesOK, ErasedOK, StorageAgrees, TableAgrees, Collecting
<1>6. AttemptsOK'
  <2>1. CASE PublishLock(w)
    <3>1. /\ work'[w].step = "publishing" /\ work'[w].index = work[w].index
          /\ work'[w].attempt = work[w].attempt /\ work[w].step \in Running
          /\ Holds(w)
      BY <1>2, <2>1 DEF PublishLock, Goes, Runs, Running
    <3>2. \A v \in Workers : \A j : Owns(v, j)' <=> Owns(v, j)
      BY <1>1, <1>3, <3>1 DEF Owns, Running
    <3>3. Owns(w, work[w].index)
      BY <3>1 DEF Owns, Holds
    <3>4. QED
      BY <1>1, <1>3, <3>1, <3>2, <3>3 DEF StorageInv, AttemptsOK, TableAgrees
  <2>2. CASE ~PublishLock(w)
    <3>1. \A v \in Workers : \A j : Owns(v, j)' => Owns(v, j)
      BY <1>1, <1>3, <1>4, <2>2 DEF Owns, Running
    <3>2. \A v \in Workers \ {w} : \A j : Owns(v, j) => Owns(v, j)'
      BY <1>1, <1>3 DEF Owns
    <3>3. work'[w].step = "publishing" => work[w].step = "publishing" /\ work'[w].index = work[w].index
      BY <1>4, <2>2
    <3>4. work'[w].step = "publishing" => Owns(w, work[w].index)'
      BY <1>1, <3>3 DEF StorageInv, AttemptsOK, Owns
    <3>5. \A j \in Indexes : Owns(w, j)' =>
            /\ work'[w].attempt = work[w].attempt
            /\ work'[w].step = "published" => work[w].step = "published"
      BY <1>4, <2>2 DEF Owns, Running
    <3>6. QED
      BY <1>1, <1>3, <3>1, <3>2, <3>4, <3>5 DEF StorageInv, AttemptsOK, TableAgrees
  <2>3. QED
    BY <2>1, <2>2
<1>7. QED
  BY <1>5, <1>6 DEF StorageInv

\* The commit of a publication stores the attempt that the row has.
LEMMA CommitStorage ==
    ASSUME IndexTypeOK, StepsOK, StorageInv, NEW w \in Workers, PublishCommit(w)
    PROVE  StorageInv'
<1> DEFINE i == work[w].index
<1>1. work \in [Workers -> Runs]
  BY DEF IndexTypeOK
<1>2. /\ work[w].step = "publishing" /\ work'[w].step = "published"
      /\ work'[w].index = i /\ work'[w].attempt = work[w].attempt
      /\ \A v \in Workers \ {w} : work'[v] = work[v]
      /\ UNCHANGED <<status, holder, attempt, pass>>
  BY <1>1 DEF PublishCommit, Goes, Runs, row
<1>3. i \in Indexes /\ status[i] = "indexing" /\ holder[i] = w /\ Owns(w, i)
  BY <1>2 DEF PublishCommit, Holds, StepsOK, Running, Owns
<1>4. \A j \in Indexes :
        /\ table'[j] = IF j = i THEN work[w].attempt ELSE table[j]
        /\ manifest'[j] = IF j = i THEN work[w].attempt ELSE manifest[j]
        /\ j \in stray' <=> j \in stray /\ j # i
  BY DEF PublishCommit, IndexTypeOK
<1>5. work[w].attempt = attempt[i]
  BY <1>3 DEF StorageInv, AttemptsOK
<1>6. RolesOK' /\ ErasedOK' /\ StorageAgrees'
  BY <1>2, <1>3, <1>4 DEF StorageInv, RolesOK, ErasedOK, StorageAgrees, TableAgrees, Collecting
<1>7. AttemptsOK'
  <2>1. \A v \in Workers : \A j : Owns(v, j)' <=> Owns(v, j)
    BY <1>2 DEF Owns, Running
  <2>2. \A v \in Workers \ {w} : \A j : Owns(v, j) => j # i
    BY <1>3 DEF Owns
  <2>3. \A j : Owns(w, j) => j = i
    BY DEF Owns
  <2>4. QED
    BY <1>2, <1>4, <1>5, <2>1, <2>2, <2>3 DEF StorageInv, AttemptsOK, TableAgrees
<1>8. QED
  BY <1>6, <1>7 DEF StorageInv

\* A row that is marked ready has its attempt stored; one that has failed is
\* not read.
LEMMA CompleteStorage ==
    ASSUME IndexTypeOK, StepsOK, StorageInv, NEW w \in Workers, MarkReady(w) \/ Fail(w)
    PROVE  StorageInv'
<1> DEFINE i == work[w].index
<1>1. work[w].step \in Running /\ Holds(w)
  BY DEF MarkReady, Fail, Running
<1>2. i \in Indexes /\ status[i] = "indexing" /\ holder[i] = w /\ Owns(w, i)
  BY <1>1 DEF Holds, StepsOK, Owns
<1>3. /\ \A v \in Workers \ {w} : work'[v] = work[v]
      /\ UNCHANGED <<attempt, table, manifest, stray, pass>>
  BY RunMoves DEF WorkerNext, MarkReady, Fail, storage
<1>4. work'[w].step \in {"idle", "ready"}
  BY DEF MarkReady, Fail, IndexTypeOK, Resting, Runs
<1>5. \A j \in Indexes \ {i} : status'[j] = status[j] /\ holder'[j] = holder[j]
  BY <1>2, RowPoint DEF MarkReady, Fail
<1>6. status'[i] = "failed" \/ (status'[i] = "ready" /\ work[w].step = "published")
  BY <1>2, RowPoint DEF MarkReady, Fail
<1>7. RolesOK' /\ ErasedOK'
  BY <1>3, <1>5, <1>6 DEF StorageInv, RolesOK, ErasedOK, Collecting
<1>8. StorageAgrees'
  BY <1>2, <1>3, <1>5, <1>6 DEF StorageInv, StorageAgrees, AttemptsOK, TableAgrees
<1>9. AttemptsOK'
  <2>1. \A v \in Workers, j \in Indexes : Owns(v, j)' => Owns(v, j) /\ v # w
    BY <1>3, <1>4, <1>5, <1>6 DEF Owns, Running
  <2>2. \A v \in Workers \ {w}, j \in Indexes : Owns(v, j) => j # i
    BY <1>2 DEF Owns
  <2>3. \A v \in Workers \ {w}, j \in Indexes : Owns(v, j) => Owns(v, j)'
    BY <1>3, <1>5, <2>2 DEF Owns
  <2>4. \A v \in Workers : work[v].step = "publishing" => work[v].index \in Indexes
    BY DEF StepsOK, Running
  <2>5. QED
    BY <1>3, <1>4, <2>1, <2>3, <2>4 DEF StorageInv, AttemptsOK, TableAgrees
<1>10. QED
  BY <1>7, <1>8, <1>9 DEF StorageInv

\* A collection leaves a row alone once it has lost it; if it drops the table
\* all the same, the index is known for it.
LEMMA CollectStorage ==
    ASSUME IndexTypeOK, StepsOK, StorageInv, NEW c \in Collectors, CollectorNext(c)
    PROVE  StorageInv'
<1>1. /\ \A d \in Collectors \ {c} : pass'[d] = pass[d]
      /\ UNCHANGED <<work, attempt, manifest>>
  BY PassMoves
<1>2. pass \in [Collectors -> Passes] /\ Workers \cap Collectors = {}
  BY RegistryAssumption DEF IndexTypeOK
<1>3. \A v \in Workers : work[v].step = "publishing" => work[v].index \in Indexes
  BY DEF StepsOK, Running
<1>4. CASE \/ \E batch \in SUBSET Indexes : Scan(c, batch)
           \/ \E i \in Indexes : Skip(c, i)
           \/ EndPass(c)
  <2>1. UNCHANGED <<status, holder, table, stray>>
    BY <1>4 DEF Scan, Skip, EndPass, row, storage
  <2>2. pass'[c].step # "erased"
    BY <1>2, <1>4 DEF Scan, Skip, EndPass, NoPass, Passes
  <2>3. \A v \in Workers : \A j : Owns(v, j)' <=> Owns(v, j)
    BY <1>1, <2>1 DEF Owns
  <2>4. AttemptsOK'
    BY <1>1, <2>1, <2>3 DEF StorageInv, AttemptsOK, TableAgrees
  <2>5. QED
    BY <1>1, <2>1, <2>2, <2>4 DEF StorageInv, RolesOK, ErasedOK, Collecting, StorageAgrees, TableAgrees
<1>5. ASSUME NEW i \in Indexes, Take(c, i) PROVE StorageInv'
  <2>1. /\ ~Locked(i) /\ Grant(i, "deleting", c, Lease - pass[c].age)
        /\ UNCHANGED <<table, stray>>
    BY <1>5 DEF Take, storage
  <2>2. \A j \in Indexes : /\ status'[j] = IF j = i THEN "deleting" ELSE status[j]
                           /\ holder'[j] = IF j = i THEN c ELSE holder[j]
    BY <2>1, RowPoint
  <2>3. pass'[c].step = "deleting"
    BY <1>2, <1>5 DEF Take, Passes
  <2>4. \A v \in Workers, j \in Indexes : Owns(v, j)' <=> Owns(v, j) /\ j # i
    BY <1>1, <2>2 DEF Owns
  <2>5. \A v \in Workers : work[v].step = "publishing" => work[v].index # i
    BY <2>1 DEF Locked
  <2>6. AttemptsOK'
    BY <1>1, <1>3, <2>1, <2>4, <2>5 DEF StorageInv, AttemptsOK, TableAgrees
  <2>7. ErasedOK'
    BY <1>1, <2>1, <2>2, <2>3 DEF StorageInv, ErasedOK, Collecting
  <2>8. QED
    BY <1>1, <2>1, <2>2, <2>6, <2>7 DEF StorageInv, RolesOK, StorageAgrees, TableAgrees
<1>6. ASSUME Erase(c) PROVE StorageInv'
  <2> DEFINE i == pass[c].index
  <2>1. i \in Indexes /\ UNCHANGED <<status, holder>>
    BY <1>6 DEF Erase, StepsOK, row
  <2>2. \A j \in Indexes : table'[j] = IF j = i THEN 0 ELSE table[j]
    BY <1>6 DEF Erase, IndexTypeOK
  <2>3. stray' = IF holder[i] = c \/ table[i] = 0 THEN stray ELSE stray \cup {i}
    BY <1>6 DEF Erase
  <2>4. pass'[c].index = i
    BY <1>2, <1>6 DEF Erase, Passes
  <2>5. \A v \in Workers : \A j : Owns(v, j)' <=> Owns(v, j)
    BY <1>1, <2>1 DEF Owns
  <2>6. holder[i] = c => status[i] = "deleting"
    <3>1. holder[i] = c => holder[i] # NoOne
      BY RegistryAssumption DEF Holders
    <3>2. holder[i] = c => status[i] \in Leased
      BY <2>1, <3>1 DEF IndexTypeOK
    <3>3. QED
      BY <1>2, <2>1, <3>2 DEF Leased, StorageInv, RolesOK
  <2>7. \A j \in Indexes : TableAgrees(j) =>
          TableAgrees(j)' \/ (j = i /\ status[i] = "deleting")
    <3>1. ASSUME NEW j \in Indexes, TableAgrees(j), j # i PROVE TableAgrees(j)'
      BY <1>1, <2>2, <2>3, <3>1 DEF TableAgrees
    <3>2. ASSUME NEW j \in Indexes, TableAgrees(j), j = i, holder[i] # c, table[i] # 0
          PROVE  TableAgrees(j)'
      BY <2>1, <2>2, <2>3, <3>2 DEF TableAgrees
    <3>3. ASSUME NEW j \in Indexes, TableAgrees(j), j = i, table[i] = 0 PROVE TableAgrees(j)'
      BY <1>1, <2>1, <2>2, <2>3, <3>3 DEF TableAgrees
    <3>4. QED
      BY <2>6, <3>1, <3>2, <3>3
  <2>8. AttemptsOK'
    <3>1. \A v \in Workers : \A j : Owns(v, j) => j \in Indexes /\ status[j] = "indexing"
      BY DEF Owns, StepsOK
    <3>2. QED
      BY <1>1, <2>5, <2>7, <3>1 DEF StorageInv, AttemptsOK
  <2>9. StorageAgrees'
    BY <1>1, <2>1, <2>2, <2>7 DEF StorageInv, StorageAgrees
  <2>10. QED
    BY <1>1, <2>1, <2>2, <2>4, <2>8, <2>9 DEF StorageInv, RolesOK, ErasedOK, Collecting
<1>7. ASSUME Tombstone(c) \/ GcFailed(c) PROVE StorageInv'
  <2> DEFINE i == pass[c].index
  <2>1. i \in Indexes /\ UNCHANGED <<table, stray>> /\ pass'[c].step = "scanned"
    BY <1>2, <1>7 DEF Tombstone, GcFailed, StepsOK, storage, Passes
  <2>2. CASE UNCHANGED <<status, holder>>
    <3>1. \A v \in Workers : \A j : Owns(v, j)' <=> Owns(v, j)
      BY <1>1, <2>2 DEF Owns
    <3>2. AttemptsOK'
      BY <1>1, <2>1, <3>1 DEF StorageInv, AttemptsOK, TableAgrees
    <3>3. QED
      BY <1>1, <2>1, <2>2, <3>2 DEF StorageInv, RolesOK, ErasedOK, Collecting, StorageAgrees, TableAgrees
  <2>3. CASE Collects(c) /\ (Unlease(i, "failed") \/ (Unlease(i, "deleted") /\ pass[c].step = "erased"))
    <3>1. status[i] = "deleting" /\ Collecting(c, i)
      BY <2>3 DEF Collects, Collecting
    <3>2. \A j \in Indexes \ {i} : status'[j] = status[j] /\ holder'[j] = holder[j]
      BY <2>1, <2>3, RowPoint
    <3>3. \/ status'[i] = "failed"
          \/ status'[i] = "deleted" /\ table[i] = 0
      BY <2>1, <2>3, <3>1, RowPoint DEF StorageInv, ErasedOK
    <3>4. \A v \in Workers, j \in Indexes : Owns(v, j)' <=> Owns(v, j)
      BY <1>1, <3>1, <3>2, <3>3 DEF Owns
    <3>5. AttemptsOK'
      BY <1>1, <1>3, <2>1, <3>4 DEF StorageInv, AttemptsOK, TableAgrees
    <3>6. QED
      BY <1>1, <2>1, <3>2, <3>3, <3>5
         DEF StorageInv, RolesOK, ErasedOK, Collecting, StorageAgrees, TableAgrees
  <2>4. QED
    BY <1>7, <2>2, <2>3 DEF Tombstone, GcFailed
<1>8. QED
  BY <1>4, <1>5, <1>6, <1>7 DEF CollectorNext

LEMMA StorageStep ==
    IndexTypeOK /\ StepsOK /\ StorageInv /\ [Next]_vars => StorageInv'
<1> SUFFICES ASSUME IndexTypeOK, StepsOK, StorageInv, [Next]_vars PROVE StorageInv'
  OBVIOUS
<1>1. CASE UNCHANGED <<status, holder, attempt, table, manifest, stray, work>>
           /\ \A c \in Collectors : pass'[c].step = pass[c].step /\ pass'[c].index = pass[c].index
  <2>1. \A v \in Workers : \A j : Owns(v, j)' <=> Owns(v, j)
    BY <1>1 DEF Owns
  <2>2. AttemptsOK'
    BY <1>1, <2>1 DEF StorageInv, AttemptsOK, TableAgrees
  <2>3. QED
    BY <1>1, <2>2 DEF StorageInv, RolesOK, ErasedOK, Collecting, StorageAgrees, TableAgrees
<1>2. CASE Tick
  <2>1. \A c \in Collectors : pass'[c].step = pass[c].step /\ pass'[c].index = pass[c].index
    <3>1. pass \in [Collectors -> Passes]
      BY DEF IndexTypeOK
    <3>2. QED
      BY <1>2, <3>1 DEF Tick, Passes
  <2>2. QED
    BY <1>1, <1>2, <2>1 DEF Tick, storage
<1>3. CASE \E i \in Indexes : Reuse(i)
  BY <1>1, <1>3 DEF Reuse, row, storage
<1>4. CASE \E w \in Workers : WorkerNext(w)
  BY <1>4, ClaimStorage, RunStorage, CommitStorage, CompleteStorage DEF WorkerNext
<1>5. CASE \E c \in Collectors : CollectorNext(c)
  BY <1>5, CollectStorage
<1>6. CASE UNCHANGED vars
  BY <1>1, <1>6 DEF vars
<1>7. QED
  BY <1>2, <1>3, <1>4, <1>5, <1>6 DEF Next

\* What is stored for a ready index is what its last attempt built, save for a
\* table that a deleter dropped after its collection had lost the row.
THEOREM StorageInAgreement == Spec => []StorageAgrees
<1>1. StorageInv => StorageAgrees
  BY DEF StorageInv
<1>2. QED
  BY <1>1, InitTyped, InitStorage, TypedStep, StorageStep, PTL DEF Spec

-----------------------------------------------------------------------------
(* Pinning.  Only a collection takes a ready row, and never one of main or *)
(* one that another was built on.                                          *)

LEMMA ReadyStays ==
    ASSUME IndexTypeOK, StepsOK, [Next]_vars, NEW i \in Indexes, status[i] = "ready"
    PROVE  status'[i] = "ready" \/ \E c \in Collectors : Take(c, i)
<1>1. CASE \E w \in Workers : WorkerNext(w)
  <2> SUFFICES ASSUME NEW w \in Workers, WorkerNext(w) PROVE status'[i] = "ready"
    BY <1>1
  <2>1. ASSUME NEW j \in Indexes, Claim(w, j) PROVE status'[i] = "ready"
    <3>1. i # j /\ Grant(j, "indexing", w, Lease)
      BY <2>1 DEF Claim, Free, Claimable
    <3>2. QED
      BY <3>1, RowPoint
  <2>2. CASE MarkReady(w) \/ Fail(w)
    <3>1. work[w].index \in Indexes /\ status[work[w].index] = "indexing"
      BY <2>2 DEF MarkReady, Fail, Holds, StepsOK, Running
    <3>2. QED
      BY <2>2, <3>1, RowPoint DEF MarkReady, Fail
  <2>3. QED
    BY <2>1, <2>2 DEF WorkerNext, PlanOn, Renew, PlanFull, PublishLock, PublishCommit,
                      Promote, Stop, row
<1>2. CASE \E c \in Collectors : CollectorNext(c)
  <2> SUFFICES ASSUME NEW c \in Collectors, CollectorNext(c), ~Take(c, i)
               PROVE  status'[i] = "ready"
    BY <1>2
  <2>1. ASSUME NEW j \in Indexes, Take(c, j) PROVE status'[i] = "ready"
    <3>1. i # j /\ Grant(j, "deleting", c, Lease - pass[c].age)
      BY <2>1 DEF Take
    <3>2. QED
      BY <3>1, RowPoint
  <2>2. CASE Tombstone(c) \/ GcFailed(c)
    <3>1. pass[c].index \in Indexes
      BY <2>2 DEF Tombstone, GcFailed, StepsOK
    <3>2. Collects(c) => pass[c].index # i
      BY DEF Collects
    <3>3. QED
      BY <2>2, <3>1, <3>2, RowPoint DEF Tombstone, GcFailed
  <2>3. QED
    BY <2>1, <2>2 DEF CollectorNext, Scan, Skip, Erase, EndPass, row
<1>3. CASE UNCHANGED status
  BY <1>3
<1>4. QED
  BY <1>1, <1>2, <1>3 DEF Next, Tick, Reuse, row, vars

\* A link and a promotion find the index ready.
LEMMA LinkReady ==
    ASSUME IndexTypeOK, StepsOK, [Next]_vars
    PROVE  /\ \A i \in Indexes : parent'[i] # parent[i] =>
                parent'[i] \in Indexes /\ status[parent'[i]] = "ready" /\ UNCHANGED status
           /\ canonical' # canonical =>
                canonical' \in Main /\ status[canonical'] = "ready" /\ UNCHANGED status
<1>1. CASE \E w \in Workers, p \in Indexes : PlanOn(w, p)
  BY <1>1 DEF PlanOn, IndexTypeOK
<1>2. CASE (\E i \in Indexes : Reuse(i)) \/ (\E w \in Workers : Promote(w))
  BY <1>2 DEF Reuse, Promote, StepsOK, row
<1>3. CASE UNCHANGED <<parent, canonical>>
  BY <1>3
<1>4. CASE \E c \in Collectors : CollectorNext(c)
  BY <1>3, <1>4, PassMoves
<1>5. QED
  BY <1>1, <1>2, <1>3, <1>4
     DEF Next, Tick, WorkerNext, Claim, Renew, PlanFull, PublishLock, PublishCommit,
         MarkReady, Fail, Stop, row, storage, vars

LEMMA PinnedStep == IndexTypeOK /\ StepsOK /\ PinnedReady /\ [Next]_vars => PinnedReady'
<1> SUFFICES ASSUME IndexTypeOK, StepsOK, PinnedReady, [Next]_vars PROVE PinnedReady'
  OBVIOUS
<1>1. /\ \A i \in Indexes : parent[i] \in Indexes \cup {NoIndex}
      /\ NoIndex \notin Indexes /\ Main \subseteq Indexes
  BY RegistryAssumption DEF IndexTypeOK
<1>2. \A i \in Indexes, c \in Collectors :
        Take(c, i) => i \notin Main /\ ~HasChild(i) /\ UNCHANGED <<parent, canonical>>
  BY DEF Take, Collectable
<1>3. canonical' # NoIndex => canonical' \in Main /\ status'[canonical'] = "ready"
  <2>1. CASE canonical' = canonical
    BY <1>1, <1>2, <2>1, ReadyStays DEF PinnedReady
  <2>2. CASE canonical' # canonical
    BY <2>2, LinkReady
  <2>3. QED
    BY <2>1, <2>2
<1>4. ASSUME NEW i \in Indexes, parent'[i] # NoIndex PROVE status'[parent'[i]] = "ready"
  <2>1. CASE parent'[i] = parent[i]
    <3>1. parent[i] \in Indexes /\ status[parent[i]] = "ready" /\ HasChild(parent[i])
      BY <1>1, <1>4, <2>1 DEF PinnedReady, HasChild
    <3>2. QED
      BY <1>2, <2>1, <3>1, ReadyStays
  <2>2. CASE parent'[i] # parent[i]
    BY <2>2, LinkReady
  <2>3. QED
    BY <2>1, <2>2
<1>5. QED
  BY <1>3, <1>4 DEF PinnedReady

\* The canonical index and every index that another was built on stay ready, for
\* any number of workers and collections, and whatever leases run out.
THEOREM ParentsPinned == Spec => []PinnedReady
<1>1. Init => PinnedReady
  BY DEF Init, PinnedReady
<1>2. QED
  BY <1>1, InitTyped, TypedStep, PinnedStep, PTL DEF Spec

-----------------------------------------------------------------------------
(* The registry implements the catalogue.                                  *)

Building == [i \in Indexes |-> status[i] = "indexing"]
Serving  == [i \in Indexes |-> IF status[i] = "ready" THEN manifest[i] ELSE 0]

\* One row changes its status, manifests of ready rows stay: what the catalogue
\* sees of it.
LEMMA SeenPoint ==
    ASSUME NEW i \in Indexes,
           \A j \in Indexes \ {i} : status'[j] = status[j],
           \A j \in Indexes : status[j] = "ready" => manifest'[j] = manifest[j]
    PROVE  /\ Building' = [Building EXCEPT ![i] = (status'[i] = "indexing")]
           /\ Serving' = [Serving EXCEPT ![i] = IF status'[i] = "ready" THEN manifest'[i] ELSE 0]
<1>1. ASSUME NEW j \in Indexes
      PROVE  Building'[j] = [Building EXCEPT ![i] = (status'[i] = "indexing")][j]
  <2>1. CASE j = i
    BY <2>1 DEF Building
  <2>2. CASE j # i
    BY <2>2 DEF Building
  <2>3. QED
    BY <2>1, <2>2
<1>2. ASSUME NEW j \in Indexes
      PROVE  Serving'[j] = [Serving EXCEPT ![i] = IF status'[i] = "ready" THEN manifest'[i] ELSE 0][j]
  <2>1. CASE j = i
    BY <2>1 DEF Serving
  <2>2. CASE j # i
    BY <2>2 DEF Serving
  <2>3. QED
    BY <2>1, <2>2
<1>3. QED
  BY <1>1, <1>2 DEF Building, Serving

\* Nothing is seen of a row that neither was nor is indexed or ready.
LEMMA UnseenPoint ==
    ASSUME NEW i \in Indexes,
           \A j \in Indexes \ {i} : status'[j] = status[j],
           status[i] \notin {"indexing", "ready"}, status'[i] \notin {"indexing", "ready"},
           UNCHANGED <<manifest, attempt, parent, canonical>>
    PROVE  UNCHANGED <<Building, attempt, Serving, parent, canonical>>
<1>1. \A j \in Indexes : /\ (status'[j] = "indexing") = (status[j] = "indexing")
                         /\ (status'[j] = "ready") = (status[j] = "ready")
  OBVIOUS
<1>2. Building' = Building
  BY <1>1 DEF Building
<1>3. Serving' = Serving
  BY <1>1 DEF Serving
<1>4. QED
  BY <1>2, <1>3

\* The initial registry is an empty catalogue.
LEMMA InitCatalog == Init => Catalog!Init
<1> SUFFICES ASSUME Init PROVE Catalog!Init
  OBVIOUS
<1>1. [i \in Indexes |-> status[i] = "indexing"] = [i \in Indexes |-> FALSE]
  BY DEF Init
<1>2. [i \in Indexes |-> IF status[i] = "ready" THEN manifest[i] ELSE 0] = [i \in Indexes |-> 0]
  BY DEF Init
<1>3. QED
  BY <1>1, <1>2 DEF Init, Catalog!Init

\* What a worker does begins, builds on, serves, gives up, points, or is unseen.
LEMMA WorkerCatalog ==
    ASSUME IndexTypeOK, StepsOK, StorageInv, NEW w \in Workers, WorkerNext(w)
    PROVE  Catalog!Next \/ UNCHANGED <<Building, attempt, Serving, parent, canonical>>
<1> DEFINE i == work[w].index
<1> USE DEF Building, Serving
<1>0. \A j \in Indexes : status \in [Indexes -> Statuses] /\ Serving[j] = IF status[j] = "ready" THEN manifest[j] ELSE 0
  BY DEF IndexTypeOK
<1>1. ASSUME NEW j \in Indexes, Claim(w, j) PROVE Catalog!Begin(j)
  <2>1. /\ status[j] # "ready"
        /\ attempt' = [attempt EXCEPT ![j] = @ + 1]
        /\ Grant(j, "indexing", w, Lease)
        /\ UNCHANGED <<manifest, parent, canonical>>
    BY <1>1 DEF Claim, Free, Claimable, storage
  <2>2. \A k \in Indexes : status'[k] = IF k = j THEN "indexing" ELSE status[k]
    BY <2>1, RowPoint
  <2>3. /\ Building' = [Building EXCEPT ![j] = TRUE]
        /\ Serving' = [Serving EXCEPT ![j] = 0]
    BY <2>1, <2>2, SeenPoint
  <2>4. Serving[j] = 0 /\ [Serving EXCEPT ![j] = 0] = Serving
    BY <2>1
  <2>5. QED
    BY <2>1, <2>3, <2>4 DEF Catalog!Begin
<1>2. ASSUME NEW p \in Indexes, PlanOn(w, p) PROVE i \in Indexes /\ Catalog!BuildOn(i, p)
  <2>1. i \in Indexes
    BY <1>2 DEF PlanOn, StepsOK, Running
  <2>2. status[i] = "indexing" /\ status[p] = "ready" /\ <<p, i>> \in Ancestor
    BY <1>2 DEF PlanOn, Holds
  <2>3. Serving[p] # 0
    BY <2>2 DEF StorageInv, StorageAgrees, IndexTypeOK
  <2>4. /\ parent' = [parent EXCEPT ![i] = p]
        /\ UNCHANGED <<status, manifest, attempt, canonical>>
    BY <1>2 DEF PlanOn, storage
  <2>5. QED
    BY <2>1, <2>2, <2>3, <2>4 DEF Catalog!BuildOn
<1>3. CASE Renew(w) \/ PlanFull(w) \/ PublishLock(w) \/ Stop(w)
  BY <1>3 DEF Renew, PlanFull, PublishLock, Stop, row, storage
<1>4. CASE PublishCommit(w)
  <2>1. /\ \A j \in Indexes : status[j] = "ready" => manifest'[j] = manifest[j]
        /\ UNCHANGED <<status, attempt, parent, canonical>>
    BY <1>4 DEF PublishCommit, Holds, IndexTypeOK, row
  <2>2. Serving' = Serving
    BY <2>1
  <2>3. QED
    BY <2>1, <2>2
<1>5. ASSUME NEW j \in Indexes, j = work[w].index, MarkReady(w) \/ Fail(w)
      PROVE  Catalog!Next
  <2>1. status[j] = "indexing" /\ Owns(w, j)
    BY <1>5 DEF MarkReady, Fail, Running, Holds, Owns
  <2>2. /\ \E s \in {"ready", "failed"} : /\ Unlease(j, s)
                                          /\ s = "ready" => work[w].step = "published"
        /\ UNCHANGED <<manifest, attempt, parent, canonical>>
    BY <1>5 DEF MarkReady, Fail, storage
  <2>3. PICK s \in {"ready", "failed"} :
          /\ \A k \in Indexes : status'[k] = IF k = j THEN s ELSE status[k]
          /\ s = "ready" => work[w].step = "published"
    BY <2>1, <2>2, RowPoint
  <2>4. /\ Building' = [Building EXCEPT ![j] = FALSE]
        /\ Serving' = [Serving EXCEPT ![j] = IF s = "ready" THEN manifest[j] ELSE 0]
    BY <2>1, <2>2, <2>3, SeenPoint
  <2>5. CASE s = "ready"
    <3>1. manifest[j] = attempt[j]
      BY <2>1, <2>3, <2>5 DEF StorageInv, AttemptsOK
    <3>2. Catalog!Serve(j)
      BY <2>1, <2>2, <2>4, <2>5, <3>1 DEF Catalog!Serve
    <3>3. QED
      BY <2>1, <3>2 DEF Catalog!Next
  <2>6. CASE s = "failed"
    <3>1. Serving' = Serving
      BY <2>1, <2>4, <2>6
    <3>2. Catalog!GiveUp(j)
      BY <2>1, <2>2, <2>4, <2>6, <3>1 DEF Catalog!GiveUp
    <3>3. QED
      BY <2>1, <3>2 DEF Catalog!Next
  <2>7. QED
    BY <2>5, <2>6
<1>6. ASSUME Promote(w) PROVE i \in Indexes /\ Catalog!Point(i)
  <2>1. i \in Main /\ Main \subseteq Indexes
    BY <1>6, RegistryAssumption DEF Promote, StepsOK
  <2>2. Serving[i] # 0
    BY <1>6, <2>1 DEF Promote, StorageInv, StorageAgrees, IndexTypeOK
  <2>3. QED
    BY <1>6, <2>1, <2>2 DEF Promote, Catalog!Point, row, storage
<1>7. (\E j \in Indexes : Claim(w, j)) => Catalog!Next
  BY <1>1 DEF Catalog!Next
<1>8. (\E p \in Indexes : PlanOn(w, p)) => Catalog!Next
  BY <1>2 DEF Catalog!Next
<1>9. MarkReady(w) \/ Fail(w) => Catalog!Next
  BY <1>5 DEF MarkReady, Fail, StepsOK, Running
<1>10. Promote(w) => Catalog!Next
  BY <1>6 DEF Catalog!Next
<1> HIDE DEF Building, Serving
<1>11. QED
  BY <1>3, <1>4, <1>7, <1>8, <1>9, <1>10 DEF WorkerNext

\* Of a collection is seen that it withdraws what nothing refers to.
LEMMA CollectorCatalog ==
    ASSUME IndexTypeOK, StepsOK, StorageInv, NEW c \in Collectors, CollectorNext(c)
    PROVE  Catalog!Next \/ UNCHANGED <<Building, attempt, Serving, parent, canonical>>
<1> DEFINE i == pass[c].index
<1>0. UNCHANGED <<attempt, parent, canonical, manifest>>
  BY PassMoves
<1>1. CASE UNCHANGED status
  BY <1>0, <1>1 DEF Building, Serving
<1>2. ASSUME NEW j \in Indexes, Take(c, j)
      PROVE  Catalog!Next \/ UNCHANGED <<Building, attempt, Serving, parent, canonical>>
  <2>1. \A k \in Indexes : status'[k] = IF k = j THEN "deleting" ELSE status[k]
    BY <1>2, RowPoint DEF Take
  <2>2. /\ Building' = [Building EXCEPT ![j] = FALSE]
        /\ Serving' = [Serving EXCEPT ![j] = 0]
    BY <1>0, <2>1, SeenPoint
  <2>3. Collectable(j, pass[c].age)
    BY <1>2 DEF Take
  <2>4. CASE status[j] = "ready"
    <3>0. manifest[j] # 0
      BY <2>4 DEF StorageInv, StorageAgrees, IndexTypeOK
    <3>1. Serving[j] # 0 /\ Building' = Building
      <4>1. Serving[j] # 0
        BY <2>4, <3>0 DEF Serving
      <4>2. Building = [Building EXCEPT ![j] = FALSE]
        BY <2>4 DEF Building
      <4>3. QED
        BY <2>2, <4>1, <4>2
    <3>2. j \notin Main /\ canonical # j /\ \A k \in Indexes : parent[k] # j
      BY <2>3 DEF Collectable, HasChild
    <3>3. Catalog!Withdraw(j)
      BY <1>0, <2>2, <3>1, <3>2 DEF Catalog!Withdraw, Building, Serving
    <3>4. QED
      BY <3>3 DEF Catalog!Next
  <2>5. CASE status[j] = "indexing"
    <3>1. Building[j] /\ Serving' = Serving
      BY <2>2, <2>5 DEF Building, Serving
    <3>2. Catalog!GiveUp(j)
      BY <1>0, <2>2, <3>1 DEF Catalog!GiveUp, Building, Serving
    <3>3. QED
      BY <3>2 DEF Catalog!Next
  <2>6. CASE status[j] \notin {"ready", "indexing"}
    BY <1>0, <2>1, <2>6, UnseenPoint
  <2>7. QED
    BY <2>4, <2>5, <2>6
<1>3. CASE (Tombstone(c) \/ GcFailed(c)) /\ ~UNCHANGED status
  <2>1. i \in Indexes /\ status[i] = "deleting" /\ \E s \in {"failed", "deleted"} : Unlease(i, s)
    BY <1>3 DEF Tombstone, GcFailed, StepsOK, Collects
  <2>2. /\ \A j \in Indexes \ {i} : status'[j] = status[j]
        /\ status'[i] \notin {"indexing", "ready"}
    BY <2>1, RowPoint
  <2>3. QED
    BY <1>0, <2>1, <2>2, UnseenPoint
<1>4. QED
  BY <1>1, <1>2, <1>3 DEF CollectorNext, Scan, Skip, Erase, EndPass, row

LEMMA CatalogStep ==
    IndexTypeOK /\ StepsOK /\ StorageInv /\ [Next]_vars => [Catalog!Next]_(Catalog!vars)
<1> SUFFICES ASSUME IndexTypeOK, StepsOK, StorageInv, [Next]_vars
             PROVE  Catalog!Next \/ UNCHANGED <<Building, attempt, Serving, parent, canonical>>
  BY DEF Catalog!vars, Building, Serving
<1>1. CASE Tick \/ UNCHANGED vars
  BY <1>1 DEF Tick, storage, vars, Building, Serving
<1>2. ASSUME NEW i \in Indexes, Reuse(i) PROVE Catalog!Point(i)
  <2>1. [k \in Indexes |-> IF status[k] = "ready" THEN manifest[k] ELSE 0][i] # 0
    BY <1>2 DEF Reuse, StorageInv, StorageAgrees, IndexTypeOK
  <2>2. QED
    BY <1>2, <2>1 DEF Reuse, Catalog!Point, row, storage
<1>3. CASE \E w \in Workers : WorkerNext(w)
  BY <1>3, WorkerCatalog
<1>4. CASE \E c \in Collectors : CollectorNext(c)
  BY <1>4, CollectorCatalog
<1>5. QED
  BY <1>1, <1>2, <1>3, <1>4 DEF Next, Catalog!Next

\* Whatever leases run out and however late runs, collections and deleters
\* act, the registry is a catalogue: an index serves the attempt begun last, is
\* not built while it serves, and is withdrawn only when nothing refers to it.
THEOREM RegistryImplementsCatalog == Spec => ImplementsIndexCatalog
BY InitTyped, InitStorage, TypedStep, StorageStep, InitCatalog, CatalogStep, PTL
   DEF Spec, ImplementsIndexCatalog, Catalog!Spec
=============================================================================
