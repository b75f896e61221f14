--------------------------- MODULE IndexRegistry ---------------------------
(***************************************************************************)
(* The registry of semantic code-search indexes and the storage behind it: *)
(* registry.py and registry_incremental.py, the runs of indexing_runtime.py *)
(* with the publication of storage_pg.py, and the triggers of migrations   *)
(* 029 and 030.                                                            *)
(*                                                                         *)
(* A worker claims an index under a lease, builds an attempt in a staging  *)
(* table of its own, publishes it (the staging table becomes the index's   *)
(* table, its manifest the index's manifest) and, in a later statement,    *)
(* marks the row ready.  A garbage collection scans for rows whose time is *)
(* over, claims them one by one under leases of its own, has the storage   *)
(* deleted and marks the row deleted.  Leases run out, processes die, and  *)
(* what has lost its lease may go on for a while.                          *)
(***************************************************************************)
EXTENDS Integers, FiniteSets

CONSTANTS
    Indexes,     \* rows of code_search_indexes of one repository
    Main,        \* those of the namespace "main"
    Ancestor,    \* <<p, i>>: p is compatible with i and its Git ancestor
    Workers,     \* operations of IndexingRuntime.execute
    Collectors,  \* calls of collect_garbage
    Lease,       \* lease_duration
    Limit,       \* how many rows a collection takes at most
    MaxPass,     \* bound: a collection takes no longer
    NoIndex, NoOne

Holders == Workers \cup Collectors

ASSUME RegistryAssumption ==
    /\ Main \subseteq Indexes
    /\ Ancestor \subseteq (Main \X Main) \cup ((Indexes \ Main) \X (Indexes \ Main))
    /\ Workers \cap Collectors = {}
    /\ Lease \in Nat \ {0} /\ Limit \in Nat /\ MaxPass \in Nat
    /\ NoIndex \notin Indexes /\ NoOne \notin Holders

VARIABLES
    status,     \* status of every row
    attempt,    \* attempt_count
    holder,     \* who drew the row's lease_token, if it has one
    left,       \* lease_expires_at - now() of a row that is leased
    parent,     \* parent_index_id
    canonical,  \* canonical_index_id of the repository
    table,      \* the attempt whose rows are in the index's table, 0 if none is
    manifest,   \* the attempt whose files are in code_search_index_files
    work,       \* where every worker stands
    pass,       \* where every collection stands
    stray       \* history: indexes whose table a storage_deleter dropped when
                \* its collection no longer had the row; no action reads it

row == <<status, attempt, holder, left, parent>>
storage == <<table, manifest, stray>>
vars == <<status, attempt, holder, left, parent, canonical, table, manifest,
          work, pass, stray>>

(* "failed" is also "not_configured": no statement tells them apart. *)
Leased    == {"indexing", "deleting"}
Claimable == {"pending", "failed"}
Statuses  == {"ready", "deleted"} \cup Claimable \cup Leased

Running   == {"claimed", "planned", "publishing", "published"}
WorkSteps == {"idle", "ready"} \cup Running
Runs == [step : WorkSteps, index : Indexes \cup {NoIndex},
         attempt : Nat, expected : Indexes \cup {NoIndex}]
Passes == [step : {"idle", "scanned", "deleting", "erased"}, batch : SUBSET Indexes,
           index : Indexes \cup {NoIndex}, age : Nat]

Resting   == [step |-> "idle", index |-> NoIndex, attempt |-> 0, expected |-> NoIndex]
NoPass    == [step |-> "idle", batch |-> {}, index |-> NoIndex, age |-> 0]

(* ensure_index has inserted the rows; on one that is there it does nothing. *)
Init ==
    /\ status = [i \in Indexes |-> "pending"]
    /\ attempt = [i \in Indexes |-> 0]
    /\ holder = [i \in Indexes |-> NoOne]
    /\ left = [i \in Indexes |-> 0]
    /\ parent = [i \in Indexes |-> NoIndex]
    /\ canonical = NoIndex
    /\ table = [i \in Indexes |-> 0]
    /\ manifest = [i \in Indexes |-> 0]
    /\ work = [w \in Workers |-> Resting]
    /\ pass = [c \in Collectors |-> NoPass]
    /\ stray = {}

(* Time passes for the leases and for the collections, which go on with the *)
(* time at which they began.                                                *)
Tick ==
    /\ \A c \in Collectors : pass[c].age < MaxPass
    /\ left' = [i \in Indexes |->
                  IF holder[i] = NoOne \/ left[i] <= -MaxPass
                  THEN left[i] ELSE left[i] - 1]
    /\ pass' = [c \in Collectors |->
                  IF pass[c].step = "idle" THEN pass[c]
                  ELSE [pass[c] EXCEPT !.age = @ + 1]]
    /\ UNCHANGED <<status, attempt, holder, parent, canonical, storage, work>>

-----------------------------------------------------------------------------
(* The statements of the registry *)

(* publish_attempt has the row FOR UPDATE: other updates of it wait.        *)
Locked(i) == \E w \in Workers : work[w].step = "publishing" /\ work[w].index = i

(* The row takes a status without a lease, or with one.                     *)
Unlease(i, s) ==
    /\ status' = [status EXCEPT ![i] = s]
    /\ holder' = [holder EXCEPT ![i] = NoOne]
    /\ left' = [left EXCEPT ![i] = 0]

Grant(i, s, h, duration) ==
    /\ status' = [status EXCEPT ![i] = s]
    /\ holder' = [holder EXCEPT ![i] = h]
    /\ left' = [left EXCEPT ![i] = duration]

\* Mutant: a lease that runs is enough, whoever has it.
HoldsAnyToken(w) ==
    LET i == work[w].index
    IN  status[i] = "indexing" /\ left[i] > 0

(* What renewal, completion and the attempt's manifest ask of the row.      *)
Holds(w) ==
    LET i == work[w].index
    IN  status[i] = "indexing" /\ holder[i] = w /\ left[i] > 0

\* Mutant: an index that is ready is claimed for another attempt.
FreeReady(i) ==
    \/ status[i] \in Claimable \cup {"ready"}
    \/ status[i] = "indexing" /\ left[i] <= 0

Free(i) ==
    \/ status[i] \in Claimable
    \/ status[i] = "indexing" /\ left[i] <= 0

Claim(w, i) ==
    /\ work[w] = Resting
    /\ Free(i) /\ ~Locked(i)
    /\ Grant(i, "indexing", w, Lease)
    /\ attempt' = [attempt EXCEPT ![i] = @ + 1]
    /\ work' = [work EXCEPT ![w] =
                  [step |-> "claimed", index |-> i, attempt |-> attempt[i] + 1,
                   expected |-> NoIndex]]
    /\ UNCHANGED <<parent, canonical, storage, pass>>

(* The heartbeat of LeaseGuard. *)
Renew(w) ==
    /\ work[w].step \in Running
    /\ Holds(w) /\ ~Locked(work[w].index)
    /\ left' = [left EXCEPT ![work[w].index] = Lease]
    /\ UNCHANGED <<status, attempt, holder, parent, canonical, storage, work, pass>>

-----------------------------------------------------------------------------
(* A run of a worker that has claimed an index *)

Goes(w, from, to) ==
    /\ work[w].step = from
    /\ work' = [work EXCEPT ![w].step = to]

Expected(i) == IF i \in Main THEN canonical ELSE NoIndex

(* set_parent_index, and the trigger that asks for a ready parent and keeps *)
(* it FOR SHARE.                                                            *)
PlanOn(w, p) ==
    LET i == work[w].index IN
    /\ work[w].step = "claimed"
    /\ <<p, i>> \in Ancestor
    /\ Holds(w) /\ status[p] = "ready"
    /\ parent' = [parent EXCEPT ![i] = p]
    /\ work' = [work EXCEPT ![w].step = "planned", ![w].expected = Expected(i)]
    /\ UNCHANGED <<status, attempt, holder, left, canonical, storage, pass>>

(* A full rebuild, or no ancestor: an older attempt's link stays. *)
PlanFull(w) ==
    /\ work[w].step = "claimed"
    /\ work' = [work EXCEPT ![w].step = "planned",
                            ![w].expected = Expected(work[w].index)]
    /\ UNCHANGED <<row, canonical, storage, pass>>

(* The staging table is filled and verified with its manifest.  Then        *)
(* publish_attempt locks the row and looks at the lease, ...                *)
PublishLock(w) ==
    /\ Goes(w, "planned", "publishing")
    /\ Holds(w) /\ attempt[work[w].index] = work[w].attempt
    /\ UNCHANGED <<row, canonical, storage, pass>>

(* ... and looked at again with the manifest; then everything commits.      *)
PublishCommit(w) ==
    /\ Goes(w, "publishing", "published")
    /\ Holds(w)
    /\ table' = [table EXCEPT ![work[w].index] = work[w].attempt]
    /\ manifest' = [manifest EXCEPT ![work[w].index] = work[w].attempt]
    /\ stray' = stray \ {work[w].index}
    /\ UNCHANGED <<row, canonical, pass>>

MarkReady(w) ==
    /\ work[w].step = "published"
    /\ Holds(w)
    /\ Unlease(work[w].index, "ready")
    /\ work' = [work EXCEPT ![w] = IF work[w].index \in Main
                                   THEN [@ EXCEPT !.step = "ready"] ELSE Resting]
    /\ UNCHANGED <<attempt, parent, canonical, storage, pass>>

(* promote_canonical with the pointer that was expected. *)
Promote(w) ==
    LET i == work[w].index IN
    /\ work[w].step = "ready"
    /\ canonical = work[w].expected /\ status[i] = "ready"
    /\ canonical' = i
    /\ work' = [work EXCEPT ![w] = Resting]
    /\ UNCHANGED <<row, storage, pass>>

(* _ready_result: a request for an index that is ready may promote it, too. *)
Reuse(i) ==
    /\ i \in Main /\ status[i] = "ready"
    /\ canonical \in {NoIndex, parent[i]} \ {i}
    /\ canonical' = i
    /\ UNCHANGED <<row, storage, work, pass>>

(* _handle_readiness without a provider, or _durable_failure after an        *)
(* exception; an open publication is rolled back.                           *)
Fail(w) ==
    /\ work[w].step \in Running
    /\ Holds(w)
    /\ Unlease(work[w].index, "failed")
    /\ work' = [work EXCEPT ![w] = Resting]
    /\ UNCHANGED <<attempt, parent, canonical, storage, pass>>

(* The process dies, a heartbeat or a fence says that the lease is lost, or *)
(* the pointer is not as expected: the run ends and leaves the row alone.   *)
Stop(w) ==
    /\ work[w].step # "idle"
    /\ work' = [work EXCEPT ![w] = Resting]
    /\ UNCHANGED <<row, canonical, storage, pass>>

WorkerNext(w) ==
    \/ \E i \in Indexes : Claim(w, i) \/ PlanOn(w, i)
    \/ Renew(w) \/ PlanFull(w) \/ PublishLock(w) \/ PublishCommit(w)
    \/ MarkReady(w) \/ Promote(w) \/ Fail(w) \/ Stop(w)

-----------------------------------------------------------------------------
(* Garbage collection *)

HasChild(i) == \E k \in Indexes : parent[k] = i

\* Mutant: nobody asks whether another index was built on this one.
CollectableParent(i, age) ==
    /\ i \notin Main /\ canonical # i
    /\ \/ status[i] \in Claimable \cup {"ready"}
       \/ status[i] \in Leased /\ left[i] <= -age

(* What the scan and the claim ask of a row, at the time the pass began.    *)
Collectable(i, age) ==
    /\ i \notin Main /\ canonical # i /\ ~HasChild(i)
    /\ \/ status[i] \in Claimable \cup {"ready"}
       \/ status[i] \in Leased /\ left[i] <= -age

(* Which of them retention_until and the order put first is left open. *)
Scan(c, batch) ==
    /\ pass[c] = NoPass
    /\ batch # {} /\ Cardinality(batch) <= Limit
    /\ \A i \in batch : Collectable(i, 0)
    /\ pass' = [pass EXCEPT ![c] =
                  [step |-> "scanned", batch |-> batch, index |-> NoIndex, age |-> 0]]
    /\ UNCHANGED <<row, canonical, storage, work>>

(* The claim waits for a link to i that is being made, and the trigger on    *)
(* the target of such links looks again when the row has changed.           *)
Take(c, i) ==
    /\ pass[c].step = "scanned" /\ i \in pass[c].batch
    /\ Collectable(i, pass[c].age) /\ ~Locked(i)
    /\ Grant(i, "deleting", c, Lease - pass[c].age)
    /\ pass' = [pass EXCEPT ![c].step = "deleting", ![c].index = i,
                            ![c].batch = @ \ {i}]
    /\ UNCHANGED <<attempt, parent, canonical, storage, work>>

Skip(c, i) ==
    /\ pass[c].step = "scanned" /\ i \in pass[c].batch
    /\ ~Collectable(i, pass[c].age)
    /\ pass' = [pass EXCEPT ![c].batch = @ \ {i}]
    /\ UNCHANGED <<row, canonical, storage, work>>

(* storage_deleter drops the table.  It is awaited, for as long as it takes, *)
(* and nothing stops it when the row has gone to somebody else.             *)
Erase(c) ==
    LET i == pass[c].index IN
    /\ pass[c].step = "deleting"
    /\ table' = [table EXCEPT ![i] = 0]
    /\ stray' = IF holder[i] = c \/ table[i] = 0 THEN stray ELSE stray \cup {i}
    /\ pass' = [pass EXCEPT ![c].step = "erased"]
    /\ UNCHANGED <<row, canonical, manifest, work>>

(* What the end of a collection asks of the row: the lease may be over.     *)
Collects(c) ==
    LET i == pass[c].index IN status[i] = "deleting" /\ holder[i] = c

Tombstone(c) ==
    /\ pass[c].step = "erased"
    /\ Collects(c)
    /\ Unlease(pass[c].index, "deleted")
    /\ pass' = [pass EXCEPT ![c].step = "scanned", ![c].index = NoIndex]
    /\ UNCHANGED <<attempt, parent, canonical, storage, work>>

\* Mutant: the failure is recorded and the lease is left on the row.
GcFailedKeepsLease(c) ==
    /\ pass[c].step \in {"deleting", "erased"}
    /\ IF Collects(c) THEN status' = [status EXCEPT ![pass[c].index] = "failed"]
                      ELSE UNCHANGED status
    /\ pass' = [pass EXCEPT ![c].step = "scanned", ![c].index = NoIndex]
    /\ UNCHANGED <<attempt, holder, left, parent, canonical, storage, work>>

(* storage_deleter raises, before or after it had its effect. *)
GcFailed(c) ==
    /\ pass[c].step \in {"deleting", "erased"}
    /\ IF Collects(c) THEN Unlease(pass[c].index, "failed")
                      ELSE UNCHANGED <<status, holder, left>>
    /\ pass' = [pass EXCEPT ![c].step = "scanned", ![c].index = NoIndex]
    /\ UNCHANGED <<attempt, parent, canonical, storage, work>>

(* The collection is through, has lost its lease, or dies. *)
EndPass(c) ==
    /\ pass[c].step # "idle"
    /\ pass' = [pass EXCEPT ![c] = NoPass]
    /\ UNCHANGED <<row, canonical, storage, work>>

CollectorNext(c) ==
    \/ \E batch \in SUBSET Indexes : Scan(c, batch)
    \/ \E i \in Indexes : Take(c, i) \/ Skip(c, i)
    \/ Erase(c) \/ Tombstone(c) \/ GcFailed(c) \/ EndPass(c)

Next ==
    \/ Tick
    \/ \E i \in Indexes : Reuse(i)
    \/ \E w \in Workers : WorkerNext(w)
    \/ \E c \in Collectors : CollectorNext(c)

Spec == Init /\ [][Next]_vars

-----------------------------------------------------------------------------
(* Properties *)

(* Every variable has its type, and a row has a lease exactly while it is   *)
(* being indexed or deleted, as the table's CHECK wants it.                 *)
IndexTypeOK ==
    /\ status \in [Indexes -> Statuses]
    /\ attempt \in [Indexes -> Nat]
    /\ holder \in [Indexes -> Holders \cup {NoOne}]
    /\ left \in [Indexes -> Int]
    /\ parent \in [Indexes -> Indexes \cup {NoIndex}]
    /\ canonical \in Indexes \cup {NoIndex}
    /\ table \in [Indexes -> Nat] /\ manifest \in [Indexes -> Nat]
    /\ work \in [Workers -> Runs] /\ pass \in [Collectors -> Passes]
    /\ stray \subseteq Indexes
    /\ \A i \in Indexes : status[i] \in Leased <=> holder[i] # NoOne

(* The table of i is that of its last attempt, unless a deleter that came   *)
(* too late has taken it.                                                   *)
TableAgrees(i) == table[i] = attempt[i] \/ (i \in stray /\ table[i] = 0)

(* What a query may read: the manifest of a ready index is that of its last *)
(* attempt, whoever built, lost or collected it before, and so is its       *)
(* table, which is never that of another attempt and is missing only where  *)
(* a storage_deleter outlived its collection's lease; and a row is marked   *)
(* deleted only when its table is gone and nobody can publish another.      *)
StorageAgrees ==
    \A i \in Indexes :
      /\ status[i] = "ready" =>
           attempt[i] > 0 /\ manifest[i] = attempt[i] /\ TableAgrees(i)
      /\ status[i] = "deleted" => table[i] = 0

(* The canonical index is ready and of the main namespace, and an index     *)
(* that another was built on stays ready, however late that one's worker    *)
(* linked it and however long ago a collection chose it.                    *)
PinnedReady ==
    /\ canonical # NoIndex => canonical \in Main /\ status[canonical] = "ready"
    /\ \A i \in Indexes :
         parent[i] # NoIndex => status[parent[i]] = "ready"

(* The registry as who builds and who queries sees it: a row that is being  *)
(* indexed, and one that is ready with the manifest that it has.            *)
Catalog == INSTANCE IndexCatalog WITH
    building <- [i \in Indexes |-> status[i] = "indexing"],
    begun    <- attempt,
    serving  <- [i \in Indexes |-> IF status[i] = "ready" THEN manifest[i] ELSE 0],
    base     <- parent,
    canon    <- canonical

(* Leases, overtaken runs and late collections are invisible from outside:  *)
(* an index serves its last attempt, and is withdrawn only unreferenced.    *)
ImplementsIndexCatalog == Catalog!Spec
=============================================================================
