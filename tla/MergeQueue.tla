----------------------------- MODULE MergeQueue -----------------------------
(***************************************************************************)
(* The feature registry and the merge queue in it (feature_registry.py,    *)
(* merge_queue.py, migration 012), shared with the merge train's service   *)
(* (merge_train_service.py).                                               *)
(*                                                                         *)
(* A feature's row holds its claims and one metadata blob.  Both the merge *)
(* queue and the train service keep a feature's place in that blob, under  *)
(* one key, and every call of either loads rows in one statement and       *)
(* writes whole blobs back in later ones: calls interleave at each await.  *)
(* A blob is abstracted to the entry's status and eject_count; a priority  *)
(* is any value the table admits.                                          *)
(***************************************************************************)
EXTENDS Integers, FiniteSets

CONSTANTS
    Features, Keys,
    ClaimChoices,    \* feature -> the claim lists it may be registered with
    Calls,           \* requests that may be in progress at a time
    MAX_EJECT_COUNT, EJECT_PRIORITY_DECREMENT

ASSUME MergeQueueAssumption ==
    /\ Features # {} /\ IsFiniteSet(Keys)
    /\ ClaimChoices \in [Features -> SUBSET SUBSET Keys]
    /\ MAX_EJECT_COUNT \in Nat \ {0} /\ EJECT_PRIORITY_DECREMENT \in Nat

VARIABLES
    reg,       \* a feature's row: "absent", "active" or "ended"
    claims,    \* its resource_claims
    mq,        \* its metadata blob's merge_queue entry
    amended,   \* history: it was registered again with other claims
    call       \* what each request has loaded and has yet to write

vars == <<reg, claims, mq, amended, call>>

Blob == [status : {"none", "queued", "ready", "blocked", "speculating",
                   "spec_passed", "ejected", "abandoned"},
         ejects : 0 .. MAX_EJECT_COUNT]
NoEntry == [status |-> "none", ejects |-> 0]
Queued == [status |-> "queued", ejects |-> 0]

Priorities == 1 .. 10     \* CHECK (merge_priority BETWEEN 1 AND 10)

Ops == {"enqueue", "check", "remove", "compose", "report", "eject"}
CallState ==
    [op : Ops, at : {"idle", "loaded", "saving"},
     of : Features,                \* the feature asked for
     old : Blob, fit : BOOLEAN,    \* a check: its blob, and whether it was active,
     needs : SUBSET Keys,          \* and its claims, when they were loaded
     saves : SUBSET Features,      \* rows yet to write
     put : [Features -> Blob]]     \* what to write there

NoBlobs == [f \in Features |-> NoEntry]
Only(f, b) == [NoBlobs EXCEPT ![f] = b]
Somebody == CHOOSE f \in Features : TRUE
Idle == [op |-> "enqueue", at |-> "idle", of |-> Somebody, old |-> NoEntry,
         fit |-> FALSE, needs |-> {}, saves |-> {}, put |-> NoBlobs]

\* A request has loaded what it will write; it has to write something.
Starts(c, op, f, saves, put) ==
    /\ call[c] = Idle /\ saves # {}
    /\ call' = [call EXCEPT ![c] = [Idle EXCEPT !.op = op, !.at = "loaded", !.of = f,
                                                !.saves = saves, !.put = put]]

\* After its last write the request is answered.
Goes(c, S) == call' = [call EXCEPT ![c] =
                  IF S = {} THEN Idle ELSE [@ EXCEPT !.at = "saving", !.saves = S]]

Init ==
    /\ reg = [f \in Features |-> "absent"]
    /\ claims = [f \in Features |-> {}]
    /\ mq = NoBlobs
    /\ amended = [f \in Features |-> FALSE]
    /\ call = [c \in Calls |-> Idle]

-----------------------------------------------------------------------------
(* The registry.  Each call is one statement.                              *)

\* register_feature: a first registration, or one of an active feature, whose
\* claims it replaces; one of a feature that has ended changes nothing.
Register(f, cl) ==
    /\ reg[f] \in {"absent", "active"}
    /\ reg' = [reg EXCEPT ![f] = "active"]
    /\ claims' = [claims EXCEPT ![f] = cl]
    /\ amended' = [amended EXCEPT ![f] = @ \/ (reg[f] = "active" /\ cl # claims[f])]
    /\ UNCHANGED <<mq, call>>

\* deregister_feature, and mark_merged, which asks for no queue status; nothing
\* tells a completed feature from a cancelled one.
Deregister(f) ==
    /\ reg[f] = "active"
    /\ reg' = [reg EXCEPT ![f] = "ended"]
    /\ UNCHANGED <<claims, mq, amended, call>>

\* Mutant: only features that are queued are compared with.
ContestedQueued(f, needs) ==
    {k \in needs : \E g \in Features \ {f} :
        reg[g] = "active" /\ mq[g] # NoEntry /\ k \in claims[g]}

\* The feature's claims that other active features also have.
Contested(f, needs) ==
    {k \in needs : \E g \in Features \ {f} : reg[g] = "active" /\ k \in claims[g]}

\* analyze_conflicts: SEQUENTIAL, more than half of the claims are contested.
Sequential(needs, contested) == 2 * Cardinality(contested) > Cardinality(needs)

-----------------------------------------------------------------------------
(* The merge queue.  Each call is a query, then an update by feature_id.   *)

Enqueue(c, f) ==
    /\ reg[f] = "active"
    /\ Starts(c, "enqueue", f, {f}, Only(f, Queued))
    /\ UNCHANGED <<reg, claims, mq, amended>>

\* Mutant: the entry is marked and stays.
RemoveMarks(c, f) ==
    /\ reg[f] # "absent" /\ mq[f] # NoEntry
    /\ Starts(c, "remove", f, {f}, Only(f, [mq[f] EXCEPT !.status = "removed"]))
    /\ UNCHANGED <<reg, claims, mq, amended>>

RemoveFromQueue(c, f) ==
    /\ reg[f] # "absent" /\ mq[f] # NoEntry
    /\ Starts(c, "remove", f, {f}, NoBlobs)
    /\ UNCHANGED <<reg, claims, mq, amended>>

\* run_pre_merge_checks: get_feature ...
Check(c, f) ==
    /\ call[c] = Idle /\ reg[f] # "absent"
    /\ call' = [call EXCEPT ![c] = [Idle EXCEPT
           !.op = "check", !.at = "loaded", !.of = f,
           !.old = mq[f], !.fit = (reg[f] = "active"), !.needs = claims[f]]]
    /\ UNCHANGED <<reg, claims, mq, amended>>

\* ... then analyze_conflicts, which reads the active features.  The verdict
\* is only written for a feature that was queued.
CheckConflicts(c) ==
    LET f == call[c].of
        fails == Sequential(call[c].needs, Contested(f, call[c].needs))
        verdict == IF call[c].fit /\ ~fails THEN "ready" ELSE "blocked"
    IN  /\ call[c].op = "check" /\ call[c].at = "loaded"
        /\ call' = [call EXCEPT ![c] =
               IF @.old = NoEntry THEN Idle
               ELSE [@ EXCEPT !.at = "saving", !.saves = {f},
                              !.put = Only(f, [call[c].old EXCEPT !.status = verdict])]]
        /\ UNCHANGED <<reg, claims, mq, amended>>

-----------------------------------------------------------------------------
(* The merge train's service.  It loads every entry, works on them, reads  *)
(* the active features again and saves each entry whose feature is there.  *)
(* It knows no status "ready": such an entry is loaded as a queued one.    *)

Loaded == {f \in Features : reg[f] = "active" /\ mq[f] # NoEntry}

\* compose_train: entries that are terminal or freshly blocked are saved as
\* they were loaded; the others are speculated, or blocked by a conflict.
Compose(c, aged, conflicting) ==
    LET skipped == {f \in Loaded : \/ mq[f].status = "abandoned"
                                   \/ mq[f].status = "blocked" /\ f \notin aged}
        made(f) == IF f \in conflicting THEN "blocked" ELSE "speculating"
    IN  /\ aged \subseteq {f \in Loaded : mq[f].status = "blocked"}
        /\ conflicting \subseteq Loaded \ skipped
        /\ Starts(c, "compose", Somebody, Loaded,
               [g \in Features |-> IF g \in Loaded \ skipped
                                   THEN [mq[g] EXCEPT !.status = made(g)]
                                   ELSE IF g \in Loaded THEN mq[g] ELSE NoEntry])
        /\ UNCHANGED <<reg, claims, mq, amended>>

\* report_spec_result: an entry that is not speculating is left alone.
Report(c, f, verdict) ==
    /\ f \in Loaded /\ mq[f].status = "speculating"
    /\ Starts(c, "report", f, {f}, Only(f, [mq[f] EXCEPT !.status = verdict]))
    /\ UNCHANGED <<reg, claims, mq, amended>>

\* eject_from_train: the entry, and successors in its train that overlap it.
\* Counts past the limit are all one.
Eject(c, f, requeued) ==
    LET n == IF mq[f].ejects < MAX_EJECT_COUNT THEN mq[f].ejects + 1 ELSE MAX_EJECT_COUNT
        ejected == [status |-> IF n >= MAX_EJECT_COUNT THEN "abandoned" ELSE "ejected",
                    ejects |-> n]
    IN  /\ f \in Loaded
        /\ requeued \subseteq {g \in Loaded \ {f} :
               claims[f] \cap claims[g] # {} /\ mq[g].status \notin {"queued", "ready"}}
        /\ Starts(c, "eject", f, {f} \cup requeued,
               [g \in Features |-> IF g = f THEN ejected
                                   ELSE IF g \in requeued
                                   THEN [mq[g] EXCEPT !.status = "queued"] ELSE NoEntry])
        /\ UNCHANGED <<reg, claims, mq, amended>>

\* The second get_active_features decides which entries are saved.
Reread(c) ==
    /\ call[c].op \in {"compose", "report", "eject"} /\ call[c].at = "loaded"
    /\ Goes(c, {f \in call[c].saves : reg[f] = "active"})
    /\ UNCHANGED <<reg, claims, mq, amended>>

-----------------------------------------------------------------------------
(* Saving: UPDATE feature_registry SET metadata WHERE feature_id, one row  *)
(* at a time (in any order, an ejected entry first).                       *)

\* The queue's own calls have nothing more to read.
ReadyToSave(c) ==
    \/ call[c].at = "saving"
    \/ call[c].at = "loaded" /\ call[c].op \in {"enqueue", "remove"}

\* An ejection is saved with its priority lowered, unless it is abandoned.
Lowered(b, p) == IF b.status = "abandoned" THEN p ELSE p - EJECT_PRIORITY_DECREMENT

IsEjection(c, f) == call[c].op = "eject" /\ f = call[c].of

Save(c, f) ==
    /\ ReadyToSave(c) /\ f \in call[c].saves
    /\ call[c].op = "eject" /\ call[c].of \in call[c].saves => f = call[c].of
    /\ IsEjection(c, f) =>
           \E p \in Priorities : Lowered(call[c].put[f], p) \in Priorities
    /\ mq' = [mq EXCEPT ![f] = call[c].put[f]]
    /\ Goes(c, call[c].saves \ {f})
    /\ UNCHANGED <<reg, claims, amended>>

\* The table refuses the row: the call fails, its other rows unsaved.
SaveRefused(c) ==
    /\ ReadyToSave(c) /\ call[c].of \in call[c].saves /\ IsEjection(c, call[c].of)
    /\ \E p \in Priorities : Lowered(call[c].put[call[c].of], p) \notin Priorities
    /\ Goes(c, {})
    /\ UNCHANGED <<reg, claims, mq, amended>>

Next ==
    \/ \E f \in Features :
          \/ \E cl \in ClaimChoices[f] : Register(f, cl)
          \/ Deregister(f)
    \/ \E c \in Calls, f \in Features :
          \/ Enqueue(c, f) \/ RemoveFromQueue(c, f) \/ Check(c, f)
          \/ \E v \in {"spec_passed", "blocked"} : Report(c, f, v)
          \/ \E requeued \in SUBSET Features : Eject(c, f, requeued)
          \/ Save(c, f)
    \/ \E c \in Calls :
          \/ CheckConflicts(c) \/ Reread(c) \/ SaveRefused(c)
          \/ \E aged, conflicting \in SUBSET Features : Compose(c, aged, conflicting)

Spec == Init /\ [][Next]_vars

-----------------------------------------------------------------------------
(* Properties.                                                             *)

\* The rows and the requests have the shapes of the schema and the services.
MergeQueueTypeOK ==
    /\ reg \in [Features -> {"absent", "active", "ended"}]
    /\ claims \in [Features -> SUBSET Keys]
    /\ mq \in [Features -> Blob]
    /\ amended \in [Features -> BOOLEAN]
    /\ call \in [Calls -> CallState]

\* Each of the two has more than half of its claims in common with the other.
Rivals(f, g) ==
    LET shared == Cardinality(claims[f] \cap claims[g])
    IN  2 * shared > Cardinality(claims[f]) /\ 2 * shared > Cardinality(claims[g])

\* Two active features that each block the other, and that kept the claims
\* they registered, are never both offered for merging, however the checks,
\* sweeps, removals and registrations interleave: a feature is in the table
\* before it is checked, so of two rivals the one checked last sees the other.
ReadyExclusive ==
    \A f, g \in Features :
        /\ f # g /\ Rivals(f, g) /\ reg[f] = "active" /\ reg[g] = "active"
        /\ ~amended[f] /\ ~amended[g]
        => ~(mq[f].status = "ready" /\ mq[g].status = "ready")

\* An ejection whose feature is still active is recorded in its entry.
EjectionRecorded ==
    [][\A c \in Calls :
          call[c].op = "eject" /\ call[c].at = "saving" /\ call[c].of \in call[c].saves
          /\ call'[c] # call[c] => mq'[call[c].of].status \in {"ejected", "abandoned"}]_vars
=============================================================================
