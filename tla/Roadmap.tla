------------------------------ MODULE Roadmap ------------------------------
(***************************************************************************)
(* Executing a roadmap: the orchestrator of autopilot-roadmap with the      *)
(* checkpoint manager and the models of roadmap-runtime.                    *)
(*                                                                          *)
(* Two files carry a run across the death of its process: checkpoint.json,  *)
(* written at every phase, and roadmap.yaml, written when an item is        *)
(* settled, after the checkpoint that settles it.  Both are written in      *)
(* place, so that a process that dies while it writes leaves the first part *)
(* of a file.  The first part of a JSON checkpoint does not load; the first *)
(* part of a YAML roadmap may, as a shorter roadmap.                        *)
(* The work itself is behind a callback, dispatch_fn, that is called for    *)
(* every phase of an item.                                                  *)
(***************************************************************************)
EXTENDS Integers, FiniteSets

CONSTANTS
    N,            \* number of items, numbered as roadmap.yaml lists them
    Deps,         \* depends_on of every item, at first
    External,     \* items with a prerequisite in another roadmap, at first
    Priorities,   \* priority of every item at first
    Lowest,       \* the largest number that is a priority
    InitStatuses, \* statuses the plan may give an item
    Policy,       \* default_action for a vendor's limit: "wait" or "switch"
    MaxSwitches,  \* max_switch_attempts_per_item
    MaxDeaths     \* bound: how often the process dies

Items == 1 .. N

ASSUME RoadmapAssumption ==
    /\ N \in Nat \ {0} /\ MaxSwitches \in Nat /\ MaxDeaths \in Nat
    /\ Deps \in [Items -> SUBSET Items]
    /\ External \subseteq Items
    /\ Lowest \in Nat /\ Priorities \in [Items -> 1 .. Lowest]
    /\ InitStatuses \subseteq {"approved", "candidate", "superseded"}
    /\ Policy \in {"wait", "switch"}

VARIABLES
    file,       \* roadmap.yaml, as it loads
    saved,      \* checkpoint.json, or Absent; the last that was written whole
    torn,       \* one of the files does not load
    roadmap,    \* the roadmap in memory
    checkpoint, \* the checkpoint in memory
    switches,   \* switch_attempts of the process
    outside,    \* items whose prerequisites elsewhere are completed
    pc,         \* where execute_roadmap stands
    deaths,     \* history: how often the process died
    dispatched, \* history: how often each phase of each item was dispatched
    skipped     \* history: items with a phase the loop left without a success
                \* since it began the item

vars == <<file, saved, torn, roadmap, checkpoint, switches, outside, pc, deaths,
          dispatched, skipped>>

(* _ITEM_PHASES without the last, which is only reached. *)
Phases == {"planning", "implementing", "reviewing", "validating"}
After(phase) ==
    CASE phase = "planning"     -> "implementing"
      [] phase = "implementing" -> "reviewing"
      [] phase = "reviewing"    -> "validating"
      [] phase = "validating"   -> "completed"

Statuses == {"approved", "candidate", "superseded", "in_progress", "completed",
             "failed", "blocked"}

(* A dependency whose name was cut short: it names no item. *)
Nobody   == 0

(* A roadmap lists its items up to the last; depends_on and                 *)
(* external_depends_on may have lost entries.                               *)
Maps     == [status : [Items -> Statuses], priority : [Items -> 1 .. Lowest],
             last : Items, deps : [Items -> SUBSET (Items \cup {Nobody})],
             external : SUBSET External]
Points   == [item : Items, phase : Phases \cup {"completed", "failed"},
             completed : SUBSET Items, failed : SUBSET Items]
Absent   == [item |-> 0]

(* Down, or: create is to be saved; at the top of the loop; a phase is to   *)
(* be saved; dispatched; its end is to be saved; the roadmap is to be saved.*)
Places == {"down", "create", "pick", "enter", "dispatch", "settle", "write"}

(* Checkpoint.create. *)
Created(i) == [item |-> i, phase |-> "planning", completed |-> {}, failed |-> {}]

Init ==
    /\ file \in [status : [Items -> InitStatuses], priority : {Priorities},
                 last : {N}, deps : {Deps}, external : {External}]
    /\ saved = Absent /\ torn = FALSE
    /\ roadmap = file /\ checkpoint = Created(1)
    /\ switches = [i \in Items |-> 0]
    /\ outside = {} /\ pc = "down" /\ deaths = 0
    /\ dispatched = [i \in Items |-> [p \in Phases |-> 0]]
    /\ skipped = {}

history == <<deaths, dispatched, skipped>>

(* The process ends and its memory is gone: the next one starts from the    *)
(* files.                                                                   *)
Ends ==
    /\ pc' = "down"
    /\ roadmap' = file' /\ checkpoint' = Created(1)
    /\ switches' = [i \in Items |-> 0]

-----------------------------------------------------------------------------
(* Roadmap.ready_items, which goes by the statuses alone and knows of no    *)
(* other roadmap, and CheckpointManager.create.                             *)
ReadyByStatus(r) ==
    {i \in 1 .. r.last \ r.external :
       /\ r.status[i] = "approved"
       /\ \A d \in r.deps[i] : d \in 1 .. r.last /\ r.status[d] = "completed"}

Leads(r, i) ==
    LET ready == ReadyByStatus(r) IN
    IF ready = {} THEN i = 1 ELSE i \in ready /\ \A j \in ready : i <= j

(* execute_roadmap up to its loop, which raises if a file does not load.    *)
Start ==
    /\ pc = "down" /\ ~torn
    /\ roadmap' = file
    /\ \/ /\ saved = Absent
          /\ \E i \in Items : Leads(file, i) /\ checkpoint' = Created(i)
          /\ pc' = "create"
       \/ /\ saved # Absent
          /\ checkpoint' = saved
          /\ pc' = "pick"
    /\ switches' = [i \in Items |-> 0]
    /\ UNCHANGED <<file, saved, torn, outside, history>>

\* Mutant: only completed items are passed over, failed ones by their status.
ExecutableFailed(i) ==
    /\ i \notin checkpoint.completed
    /\ roadmap.status[i] \in {"approved", "in_progress"}
    /\ roadmap.deps[i] \subseteq checkpoint.completed
    /\ i \in roadmap.external => i \in outside

(* _get_ready_items, sorted by priority and otherwise as listed. *)
Executable(i) ==
    /\ i \notin checkpoint.completed \cup checkpoint.failed
    /\ roadmap.status[i] \in {"approved", "in_progress"}
    /\ roadmap.deps[i] \subseteq checkpoint.completed
    /\ i \in roadmap.external => i \in outside

Ready == {i \in 1 .. roadmap.last : Executable(i)}

Precedes(i, j) ==
    \/ roadmap.priority[i] < roadmap.priority[j]
    \/ roadmap.priority[i] = roadmap.priority[j] /\ i <= j

\* Mutant: a resumed item goes on after the phase the checkpoint names.
PickAfter ==
    /\ pc = "pick"
    /\ \E i \in Ready :
         /\ \A j \in Ready : Precedes(i, j)
         /\ IF checkpoint.item = i /\ checkpoint.phase \in Phases \ {"validating"}
            THEN /\ checkpoint' = [checkpoint EXCEPT !.phase = After(@)]
                 /\ UNCHANGED skipped
            ELSE /\ checkpoint' = [checkpoint EXCEPT !.item = i, !.phase = "planning"]
                 /\ skipped' = skipped \ {i}
         /\ roadmap' = [roadmap EXCEPT !.status[i] = "in_progress"]
    /\ pc' = "enter"
    /\ UNCHANGED <<file, saved, torn, switches, outside, deaths, dispatched>>

(* The top of the loop: the item the checkpoint is in the middle of goes on *)
(* from its phase if it is the first, any other item starts afresh.         *)
Pick ==
    /\ pc = "pick"
    /\ \E i \in Ready :
         /\ \A j \in Ready : Precedes(i, j)
         /\ IF checkpoint.item = i /\ checkpoint.phase \in Phases
            THEN UNCHANGED <<checkpoint, skipped>>
            ELSE /\ checkpoint' = [checkpoint EXCEPT !.item = i, !.phase = "planning"]
                 /\ skipped' = skipped \ {i}
         /\ roadmap' = [roadmap EXCEPT !.status[i] = "in_progress"]
    /\ pc' = "enter"
    /\ UNCHANGED <<file, saved, torn, switches, outside, deaths, dispatched>>

\* Mutant: the loop waits until every item is settled.
FinishAll ==
    /\ pc = "pick" /\ Items = checkpoint.completed \cup checkpoint.failed
    /\ UNCHANGED <<file, saved, torn, outside, history>>
    /\ Ends

Finish ==
    /\ pc = "pick" /\ Ready = {}
    /\ UNCHANGED <<file, saved, torn, outside, history>>
    /\ Ends

(* save_checkpoint, and the call of dispatch_fn that follows advance_phase. *)
Save ==
    /\ pc \in {"create", "enter", "settle"}
    /\ saved' = checkpoint
    /\ pc' = CASE pc = "create" -> "pick" [] pc = "enter" -> "dispatch"
               [] pc = "settle" -> "write"
    /\ dispatched' = IF pc = "enter"
                     THEN [dispatched EXCEPT ![checkpoint.item][checkpoint.phase] = @ + 1]
                     ELSE dispatched
    /\ UNCHANGED <<file, torn, roadmap, checkpoint, switches, outside, deaths, skipped>>

(* The loop over the phases goes on to the next one. *)
NextPhase ==
    /\ checkpoint.phase # "validating"
    /\ checkpoint' = [checkpoint EXCEPT !.phase = After(@)]
    /\ pc' = "enter"
    /\ UNCHANGED roadmap

(* replan lowers the priority of items a recommendation speaks of. *)
Replanned(r, p) ==
    \A i \in Items :
       \/ p[i] = r.priority[i]
       \/ /\ p[i] < r.priority[i] /\ i <= r.last
          /\ r.status[i] \in {"approved", "candidate"}

(* complete_item and what execute_roadmap does before it saves the roadmap. *)
CompleteItem ==
    LET i == checkpoint.item
        done == [roadmap EXCEPT !.status[i] = "completed"]
    IN /\ checkpoint.phase = "validating"
       /\ checkpoint' = [checkpoint EXCEPT !.completed = @ \cup {i}, !.phase = "completed"]
       /\ \E p \in [Items -> 1 .. Lowest] :
            Replanned(done, p) /\ roadmap' = [done EXCEPT !.priority = p]
       /\ pc' = "settle"

\* Mutant: the failure is not recorded, and the item is tried again.
FailItemAgain ==
    /\ checkpoint' = [checkpoint EXCEPT !.phase = "failed"]
    /\ roadmap' = roadmap
    /\ pc' = "settle"

(* fail_item blocks the direct dependents. *)
FailItem ==
    LET i == checkpoint.item
        blocked == {j \in 1 .. roadmap.last :
                      /\ i \in roadmap.deps[j]
                      /\ roadmap.status[j] \in {"approved", "candidate"}}
    IN /\ checkpoint' = [checkpoint EXCEPT !.failed = @ \cup {i}, !.phase = "failed"]
       /\ roadmap' = [roadmap EXCEPT !.status =
                        [j \in Items |-> CASE j = i -> "failed"
                                           [] j \in blocked \ {i} -> "blocked"
                                           [] OTHER -> @[j]]]
       /\ pc' = "settle"

Succeeds ==
    /\ pc = "dispatch"
    /\ NextPhase \/ CompleteItem
    /\ UNCHANGED <<file, saved, torn, switches, outside, history>>

(* "failed:<reason>", and any outcome the loop does not know. *)
Fails ==
    /\ pc = "dispatch"
    /\ FailItem
    /\ UNCHANGED <<file, saved, torn, switches, outside, history>>

\* Mutant: the last switch that is allowed is allowed twice.
ExhaustedLate(i) == switches[i] > MaxSwitches

(* The first question of evaluate_policy. *)
Exhausted(i) == switches[i] >= MaxSwitches

(* "vendor_limit:<vendor>:<reason>": evaluate_policy fails the item when it *)
(* has switched too often or a switch costs too much, and otherwise the     *)
(* loop over the phases continues.                                          *)
Limited ==
    LET i == checkpoint.item
    IN /\ pc = "dispatch"
       /\ \/ /\ Exhausted(i) \/ Policy = "switch"
             /\ FailItem
             /\ UNCHANGED <<switches, skipped>>
          \/ /\ ~Exhausted(i)
             /\ NextPhase \/ CompleteItem
             /\ switches' = IF Policy = "switch" THEN [switches EXCEPT ![i] = @ + 1]
                            ELSE switches
             /\ skipped' = skipped \cup {i}
    /\ UNCHANGED <<file, saved, torn, outside, deaths, dispatched>>

(* save_roadmap at the end of an item. *)
WriteRoadmap ==
    /\ pc = "write"
    /\ file' = roadmap
    /\ pc' = "pick"
    /\ UNCHANGED <<saved, torn, roadmap, checkpoint, switches, outside, history>>

(* What a roadmap.yaml that was cut off within item n, or at its end, loads *)
(* as.  The items after n are gone; of n, whose depends_on comes before its *)
(* external_depends_on, the end of one list or of both may be, and a name   *)
(* in it be cut short.                                                      *)
CutShort(r) ==
    \E n \in 1 .. r.last :
    \E D \in SUBSET (r.deps[n] \cup {Nobody}), E \in {r.external, r.external \ {n}} :
       /\ n \in E => D = r.deps[n]
       /\ r.deps[n] \subseteq D => D = r.deps[n] \/ n \in r.external
       /\ file' = [r EXCEPT !.last = n, !.deps[n] = D, !.external = E]

(* The process dies, at a write perhaps in the middle of it: half a         *)
(* checkpoint never loads, half a roadmap may.                              *)
Die ==
    /\ pc # "down" /\ deaths < MaxDeaths
    /\ \/ UNCHANGED <<file, torn>>
       \/ pc \in {"create", "enter", "settle", "write"} /\ torn' = TRUE /\ UNCHANGED file
       \/ pc = "write" /\ CutShort(roadmap) /\ UNCHANGED torn
    /\ Ends /\ deaths' = deaths + 1
    /\ UNCHANGED <<saved, outside, dispatched, skipped>>

(* Operators approve candidates in roadmap.yaml, at any time. *)
Approve(i) ==
    /\ ~torn /\ i <= file.last /\ file.status[i] = "candidate"
    /\ file' = [file EXCEPT !.status[i] = "approved"]
    /\ UNCHANGED <<saved, torn, roadmap, checkpoint, switches, outside, pc, history>>

(* Another roadmap completes what item i waits for. *)
CompletedElsewhere(i) ==
    /\ i \in External \ outside
    /\ outside' = outside \cup {i}
    /\ UNCHANGED <<file, saved, torn, roadmap, checkpoint, switches, pc, history>>

Loop == Pick \/ Finish \/ Save \/ Succeeds \/ Fails \/ Limited \/ WriteRoadmap

Next ==
    \/ Start \/ Loop \/ Die
    \/ \E i \in Items : Approve(i) \/ CompletedElsewhere(i)

Spec == Init /\ [][Next]_vars

(* The loop is one thread, and a dispatch returns in the end. *)
FairSpec == Spec /\ WF_vars(Loop)

-----------------------------------------------------------------------------
(* Properties *)

(* The files and the memory are roadmaps and checkpoints, and the loop is   *)
(* where execute_roadmap can be.                                            *)
RoadmapTypeOK ==
    /\ file \in Maps /\ roadmap \in Maps
    /\ saved \in Points \cup {Absent} /\ checkpoint \in Points
    /\ torn \in BOOLEAN /\ pc \in Places
    /\ switches \in [Items -> 0 .. MaxSwitches]
    /\ outside \subseteq External
    /\ deaths \in 0 .. MaxDeaths
    /\ dispatched \in [Items -> [Phases -> Nat]]
    /\ skipped \subseteq Items

(* The checkpoints on disk settle an item once and for all and after the    *)
(* items roadmap.yaml then lists as its dependencies, over any number of    *)
(* deaths and resumed runs, and although roadmap.yaml lags behind them.     *)
(* The lists only ever lose entries, one item's at a time.                  *)
Settled(i) ==
    IF saved = Absent THEN "open"
    ELSE IF i \in saved.completed THEN "completed"
    ELSE IF i \in saved.failed THEN "failed" ELSE "open"

Ledger == INSTANCE ItemLedger WITH settled <- [i \in Items |-> Settled(i)],
                                   deps <- file.deps

ImplementsItemLedger == Ledger!LedgerSpec

(* Resuming repeats little: a phase of an item is dispatched once, and once *)
(* more for every death of the process, also when the resumed run first     *)
(* turns to another item (checkpoint resume of execute_roadmap).            *)
DispatchesAccounted ==
    \A i \in Items, p \in Phases : dispatched[i][p] <= 1 + deaths

(* Resuming leaves nothing out: every phase of a completed item was         *)
(* dispatched, in this run or in one before it died.                        *)
CompletedWhole ==
    saved # Absent =>
      \A i \in saved.completed : \A p \in Phases : dispatched[i][p] > 0

(* A run comes to its end: no item is picked for ever.                      *)
RunEnds == pc # "down" ~> pc = "down"

(* An item is completed only if every phase of it has returned success: a   *)
(* phase that met a vendor's limit is tried again, as the comment in        *)
(* _execute_item_phases says, "to let the dispatch_fn retry".               *)
PhasesSucceeded == saved # Absent => saved.completed \cap skipped = {}
=============================================================================
