----------------------------- MODULE MergeTrain -----------------------------
(***************************************************************************)
(* The speculative merge train (merge_train.py, merge_train_service.py).   *)
(*                                                                         *)
(* A sweep composes every feature that is not terminal or blocked into a   *)
(* train: features whose claims share a lock-key prefix are stacked on one *)
(* another in speculative refs, features of different prefixes are         *)
(* speculated apart, and a feature of several prefixes (a cross entry) is  *)
(* stacked first.  CI reports on each ref; a failing feature is blocked or *)
(* ejected; the wave executor fast-forwards main to what has passed, while *)
(* other processes may push to main.                                       *)
(*                                                                         *)
(* A ref is abstracted to the set of this train's features it has merged   *)
(* on top of the train's base, {} standing for None: within one train a    *)
(* ref is an ancestor of another exactly when its set is a subset.         *)
(***************************************************************************)
EXTENDS Integers, FiniteSets

CONSTANTS
    Features,        \* feature ids, naturals: priority ties go by id
    Claims,          \* feature -> the lock-key prefixes of its claims
    Prefixes,        \* lock-key prefixes, naturals: waves go by partition id
    StartPriority,   \* feature -> merge_priority at enqueue
    MAX_EJECT_COUNT, EJECT_PRIORITY_DECREMENT,
    MaxTrains,       \* bound on the trains composed
    MaxEjects,       \* bound on the eject_count of a feature
    LeastPriority    \* bound below which ejections take no priority

Unclaimed == -1      \* the "(unclaimed)" bucket

ASSUME TrainAssumption ==
    /\ Features \subseteq Nat \ {0} /\ Prefixes \subseteq Nat
    /\ IsFiniteSet(Features) /\ IsFiniteSet(Prefixes)
    /\ Claims \in [Features -> SUBSET Prefixes]
    /\ StartPriority \in [Features -> Int]
    /\ MAX_EJECT_COUNT \in Nat \ {0} /\ EJECT_PRIORITY_DECREMENT \in Nat
    /\ MaxTrains \in Nat /\ MaxEjects \in Nat /\ LeastPriority \in Int

VARIABLES
    status, priority, ejects,   \* of each feature's entry
    train, pos,      \* the train an entry was last placed in (0: None), where
    ref,             \* the entry's speculative_ref: what it has merged
    trains,          \* how many trains were composed; the last is the one run
    members,         \* the entries of its composition
    refsKept,        \* its refs are still in the repository
    plan,            \* nodes the executor has yet to merge
    checked,         \* the node whose ref was found to descend from main
    main,            \* features whose code main has
    base,            \* those it had when this train was composed on top of it
    landed,          \* those that this train has put there
    moved            \* another process pushed to main since the train's base

entryVars == <<status, priority, ejects, train, pos, ref>>
trainVars == <<trains, members, refsKept>>
mainVars  == <<main, base, landed, moved>>
vars == <<entryVars, trainVars, plan, checked, mainVars>>

Status == {"queued", "speculating", "spec_passed", "merging", "merged",
           "ejected", "blocked", "abandoned"}
TERMINAL_STATUSES == {"merged", "abandoned"}

\* An executor that is running holds the event loop: only pushes by other
\* processes come in between its git commands.
Idle == plan = {} /\ checked = {}

Init ==
    /\ status = [f \in Features |-> "queued"]
    /\ priority = StartPriority
    /\ ejects = [f \in Features |-> 0]
    /\ train = [f \in Features |-> 0] /\ pos = [f \in Features |-> 0]
    /\ ref = [f \in Features |-> {}]
    /\ trains = 0 /\ members = {} /\ refsKept = FALSE
    /\ plan = {} /\ checked = {}
    /\ main = {} /\ base = {} /\ landed = {} /\ moved = FALSE

-----------------------------------------------------------------------------
(* Composing a train.                                                      *)

Cross(f) == Cardinality(Claims[f]) > 1

\* The partition of an entry with at most one prefix.
Home(f) == IF Claims[f] = {} THEN Unclaimed ELSE CHOOSE p \in Claims[f] : TRUE

Spans(f, p) == Cross(f) /\ p \in Claims[f]

\* Higher merge_priority first, feature_id breaking ties.
Precedes(f, g) ==
    priority[f] > priority[g] \/ (priority[f] = priority[g] /\ f < g)

\* f is given a position before g: cross entries, then partition by partition.
Ahead(f, g) ==
    \/ Cross(f) /\ ~Cross(g)
    \/ Cross(f) /\ Cross(g) /\ Precedes(f, g)
    \/ /\ ~Cross(f) /\ ~Cross(g)
       /\ Home(f) < Home(g) \/ (Home(f) = Home(g) /\ Precedes(f, g))

\* Cross entries stack on one another; ok are the entries that did not conflict.
CrossRef(f, ok) == {g \in ok : Cross(g) /\ (g = f \/ Precedes(g, f))}

\* Mutant: a partition starts from main.
BaseMain(p, ok) == {}

\* A partition starts from the ref of the spanning cross entry visited last,
\* and they are visited by feature_id.
BaseOf(p, ok) ==
    UNION {CrossRef(f, ok) : f \in {g \in ok : Spans(g, p) /\
        \A h \in ok : Spans(h, p) => h <= g}}

RefOf(f, ok) ==
    IF Cross(f) THEN CrossRef(f, ok)
    ELSE BaseOf(Home(f), ok) \cup
         {g \in ok : ~Cross(g) /\ Home(g) = Home(f) /\ (g = f \/ Precedes(g, f))}

\* compose_train: blocked entries that have aged are tried again; entries whose
\* merge conflicts are blocked, and keep the place they had in an older train.
Compose(aged, conflicting) ==
    LET active == {f \in Features :
                      /\ status[f] \notin TERMINAL_STATUSES
                      /\ status[f] # "blocked" \/ f \in aged}
        ok == active \ conflicting
    IN  /\ Idle /\ trains < MaxTrains
        /\ \A f \in aged : status[f] = "blocked"
        /\ conflicting \subseteq active /\ active # {}
        /\ status' = [f \in Features |->
                         IF f \in ok THEN "speculating"
                         ELSE IF f \in conflicting THEN "blocked" ELSE status[f]]
        /\ train' = [f \in Features |-> IF f \in ok THEN trains + 1 ELSE train[f]]
        /\ pos' = [f \in Features |->
                      IF f \in ok THEN 1 + Cardinality({g \in active : Ahead(g, f)})
                      ELSE pos[f]]
        /\ ref' = [f \in Features |->
                      IF f \in ok THEN RefOf(f, ok)
                      ELSE IF f \in conflicting THEN {} ELSE ref[f]]
        /\ trains' = trains + 1 /\ members' = active /\ refsKept' = TRUE
        /\ base' = main /\ landed' = {} /\ moved' = FALSE
        /\ UNCHANGED <<priority, ejects, plan, checked, main>>

-----------------------------------------------------------------------------
(* Verdicts on a speculation.                                              *)

\* report_spec_result: CI's verdict, which counts only for a speculating entry.
\* A blocked entry keeps its ref and its place.
ReportSpecResult(f, passed) ==
    /\ Idle /\ status[f] = "speculating"
    /\ status' = [status EXCEPT ![f] = IF passed THEN "spec_passed" ELSE "blocked"]
    /\ UNCHANGED <<priority, ejects, train, pos, ref, trainVars, plan, checked, mainVars>>

\* validate_post_speculation_claims: the speculations that touch namespaces they
\* did not claim are blocked.
ValidateClaims(mismatched) ==
    /\ Idle /\ mismatched # {}
    /\ \A f \in mismatched : status[f] = "speculating" /\ ref[f] # {}
    /\ status' = [f \in Features |-> IF f \in mismatched THEN "blocked" ELSE status[f]]
    /\ UNCHANGED <<priority, ejects, train, pos, ref, trainVars, plan, checked, mainVars>>

Overlap(f, g) == Claims[f] \cap Claims[g] # {}

\* The entries the service passes to the engine: later in the same train.
Successors(f) ==
    {g \in Features \ {f} : train[f] # 0 /\ train[g] = train[f] /\ pos[g] > pos[f]}

\* Mutant: only the entry right behind is speculated again.
RequeuedNext(f) == {g \in Successors(f) : Overlap(f, g) /\ pos[g] = pos[f] + 1}

\* The successors that have to be speculated again.
Requeued(f) == {g \in Successors(f) : Overlap(f, g)}

\* eject_from_train, by a caller entitled to it.
Eject(f) ==
    LET count == ejects[f] + 1
        abandon == count >= MAX_EJECT_COUNT
        back == Requeued(f)
    IN  /\ Idle /\ count <= MaxEjects /\ (abandon \/ priority[f] > LeastPriority)
        /\ ejects' = [ejects EXCEPT ![f] = count]
        /\ priority' = [priority EXCEPT ![f] =
                           IF abandon THEN @ ELSE @ - EJECT_PRIORITY_DECREMENT]
        /\ status' = [g \in Features |->
                         IF g = f THEN IF abandon THEN "abandoned" ELSE "ejected"
                         ELSE IF g \in back THEN "queued" ELSE status[g]]
        /\ ref' = [g \in Features |-> IF g \in back \cup {f} THEN {} ELSE ref[g]]
        /\ train' = [g \in Features |-> IF g \in back THEN 0 ELSE train[g]]
        /\ pos' = [g \in Features |-> IF g \in back THEN 0 ELSE pos[g]]
        /\ UNCHANGED <<trainVars, plan, checked, mainVars>>

Unplace(f) ==
    /\ status' = [status EXCEPT ![f] = "queued"]
    /\ ref' = [ref EXCEPT ![f] = {}]
    /\ train' = [train EXCEPT ![f] = 0]
    /\ pos' = [pos EXCEPT ![f] = 0]

\* reset_blocked_entry, by the owner who has dealt with the cause.
ResetBlocked(f) ==
    /\ Idle /\ status[f] = "blocked"
    /\ Unplace(f)
    /\ UNCHANGED <<priority, ejects, trainVars, plan, checked, mainVars>>

\* reset_abandoned_entry.  Nothing sets original_priority, so the decremented
\* merge_priority stays.
ResetAbandoned(f) ==
    /\ Idle /\ status[f] = "abandoned"
    /\ Unplace(f)
    /\ ejects' = [ejects EXCEPT ![f] = 0]
    /\ UNCHANGED <<priority, trainVars, plan, checked, mainVars>>

-----------------------------------------------------------------------------
(* Merging.                                                                *)

\* Cross entries that are merge nodes, each waiting for the one placed before.
CrossReady == {f \in members : Cross(f) /\ status[f] = "spec_passed" /\ ref[f] # {}}
CrossWave(f) == Cardinality({g \in CrossReady : pos[g] <= pos[f]})

Residents(p) == {f \in members : ~Cross(f) /\ Home(f) = p}

\* Mutant: the first entry's ref stands for the partition.
FirstEntry(entries) == CHOOSE f \in entries : \A g \in entries : pos[f] <= pos[g]

\* The entry of a node whose ref main is moved to.
FinalEntry(entries) == CHOOSE f \in entries : \A g \in entries : pos[g] <= pos[f]

\* A partition is a node when every entry of it has passed.
PartitionReady(p) ==
    /\ Residents(p) # {}
    /\ \A f \in Residents(p) : status[f] = "spec_passed"
    /\ ref[FinalEntry(Residents(p))] # {}

ReadyPartitions == {p \in Prefixes \cup {Unclaimed} : PartitionReady(p)}

\* Mutant: only cross entries that are merge nodes count.
DependsOnPresent(p) == {f \in CrossReady : Spans(f, p)}

\* A partition follows every cross entry that spans it, merge node or not.
DependsOn(p) == {f \in members : Spans(f, p)}

PartitionWave(p) == 1 + Cardinality(
    {g \in CrossReady : \E f \in DependsOn(p) : pos[g] <= pos[f]})

Nodes ==
    {[wave |-> CrossWave(f), kind |-> 0, id |-> f, entries |-> {f}] : f \in CrossReady}
    \cup
    {[wave |-> PartitionWave(p), kind |-> 1, id |-> p, entries |-> Residents(p)]
        : p \in ReadyPartitions}

\* Within a wave cross entries come first, then it goes by id.
Earlier(m, n) ==
    \/ m.wave < n.wave
    \/ m.wave = n.wave /\ m.kind < n.kind
    \/ m.wave = n.wave /\ m.kind = n.kind /\ m.id < n.id

\* A partition that waits for a cross entry that is no node is a deadlock.
Deadlocked == \E p \in ReadyPartitions : DependsOn(p) \ CrossReady # {}

\* execute_wave_merge builds its waves, or raises TrainDeadlockError and changes
\* nothing.  With nothing to merge it only deletes the train's refs.
ExecuteWaveMerge ==
    /\ Idle /\ trains > 0 /\ ~Deadlocked
    /\ plan' = Nodes
    /\ refsKept' = (refsKept /\ Nodes # {})
    /\ UNCHANGED <<entryVars, trains, members, checked, mainVars>>

NextNode(n) == n \in plan /\ \A m \in plan \ {n} : Earlier(n, m)

\* main is an ancestor of the ref.
Descends(r) == refsKept /\ ~moved /\ landed \subseteq r

\* The node's entries are merging and git says that main can be fast-forwarded.
CheckNode(n) ==
    /\ checked = {} /\ NextNode(n)
    /\ Descends(ref[FinalEntry(n.entries)])
    /\ status' = [f \in Features |-> IF f \in n.entries THEN "merging" ELSE status[f]]
    /\ checked' = n.entries
    /\ UNCHANGED <<priority, ejects, train, pos, ref, trainVars, plan, mainVars>>

\* ... or that it cannot: the entries are reverted and the executor raises.
CheckFails(n) ==
    /\ checked = {} /\ NextNode(n)
    /\ ~Descends(ref[FinalEntry(n.entries)])
    /\ plan' = {}
    /\ UNCHANGED <<entryVars, trainVars, checked, mainVars>>

\* update-ref puts the node's ref in the place of main, whatever that is by now
\* (a push since CheckNode is gone); after the last node the train's refs are
\* deleted.
UpdateMain(n) ==
    LET new == ref[FinalEntry(n.entries)]
    IN  /\ NextNode(n) /\ checked = n.entries
        /\ main' = base \cup new
        /\ landed' = new /\ moved' = FALSE
        /\ status' = [f \in Features |-> IF f \in n.entries THEN "merged" ELSE status[f]]
        /\ plan' = plan \ {n} /\ checked' = {}
        /\ refsKept' = (plan' # {})
        /\ UNCHANGED <<priority, ejects, train, pos, ref, trains, members, base>>

\* Mutant: the entries are not reverted when main could not be set.
UpdateLeavesMerging(n) ==
    /\ NextNode(n) /\ checked = n.entries
    /\ plan' = {} /\ checked' = {}
    /\ UNCHANGED <<entryVars, trainVars, mainVars>>

\* update-ref fails: nodes merged before stay merged.
UpdateFails(n) ==
    /\ NextNode(n) /\ checked = n.entries
    /\ status' = [f \in Features |-> IF f \in n.entries THEN "spec_passed" ELSE status[f]]
    /\ plan' = {} /\ checked' = {}
    /\ UNCHANGED <<priority, ejects, train, pos, ref, trainVars, mainVars>>

\* Another process pushes to main.
OutsidePush ==
    /\ ~moved
    /\ moved' = TRUE
    /\ UNCHANGED <<entryVars, trainVars, plan, checked, main, base, landed>>

Next ==
    \/ \E aged, conflicting \in SUBSET Features : Compose(aged, conflicting)
    \/ \E f \in Features, passed \in BOOLEAN : ReportSpecResult(f, passed)
    \/ \E F \in SUBSET Features : ValidateClaims(F)
    \/ \E f \in Features : Eject(f) \/ ResetBlocked(f) \/ ResetAbandoned(f)
    \/ ExecuteWaveMerge
    \/ \E n \in plan : CheckNode(n) \/ CheckFails(n) \/ UpdateMain(n) \/ UpdateFails(n)
    \/ OutsidePush

Spec == Init /\ [][Next]_vars

-----------------------------------------------------------------------------
(* Properties                                                              *)

Node == [wave : Nat, kind : {0, 1}, id : Int, entries : SUBSET Features]

\* Every variable has its type; only entries the executor is at are merging.
TrainTypeOK ==
    /\ status \in [Features -> Status]
    /\ priority \in [Features -> Int]
    /\ ejects \in [Features -> 0 .. MaxEjects]
    /\ train \in [Features -> 0 .. trains] /\ pos \in [Features -> Nat]
    /\ ref \in [Features -> SUBSET Features]
    /\ trains \in 0 .. MaxTrains /\ members \subseteq Features
    /\ refsKept \in BOOLEAN /\ moved \in BOOLEAN
    /\ plan \subseteq Node /\ checked \subseteq Features
    /\ main \subseteq Features /\ base \subseteq main /\ landed \subseteq main
    /\ \A f \in Features : status[f] = "merging" <=> f \in checked

\* The speculation of f counts: it is being verified, or was and may be merged.
Speculated(f) == status[f] \in {"speculating", "spec_passed", "merging"}

\* The cross entry f spans the partition of g, whose base was taken from another
\* one that is visited later.
Bypassed(f, g) ==
    /\ Cross(f) /\ ~Cross(g)
    /\ \E h \in ref[g] : h > f /\ Spans(h, Home(g))

\* "Entries within a partition are serialized": of two entries of one train that
\* share a prefix and are both verified, one was verified on top of the other.
\* The exception is a partition that several cross entries span: it starts from
\* one of them only, and that one need not have the others below it.
OverlapSerialized ==
    \A f, g \in Features :
        /\ Speculated(f) /\ Speculated(g) /\ train[f] = train[g]
        /\ Overlap(f, g)
        => f \in ref[g] \/ g \in ref[f] \/ Bypassed(f, g) \/ Bypassed(g, f)

\* Once an entry has been ejected from its train, no entry that shares a prefix
\* with it keeps a verification that was made on top of it.
EjectedNotBuiltOn ==
    [][\A f \in Features : ejects'[f] > ejects[f] /\ train[f] # 0 =>
          \A g \in Features : Speculated(g)' /\ Overlap(f, g) => f \notin ref'[g]]_vars

\* An entry reported as merged is in main, and stays there when main is replaced
\* by the ref of a later node or train.
MergedLanded == \A f \in Features : status[f] = "merged" => f \in main

\* A cross entry that has not passed lies below another cross entry, which does
\* not wait for it.
Smuggled(f) ==
    /\ Cross(f) /\ status[f] \notin {"spec_passed", "merging"}
    /\ \E h \in Features \ {f} : Cross(h) /\ f \in ref[h]

\* A feature's code comes to main only by its own merge, after its verification
\* passed, and never as part of somebody else's ref, save for the cross entries
\* that others were stacked on.
OnlyVerifiedLands ==
    [][\A f \in main' \ main :
         (status[f] = "merging" /\ status'[f] = "merged") \/ Smuggled(f)]_vars
=============================================================================
