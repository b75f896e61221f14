--------------------------- MODULE RoadmapProofs ---------------------------
(***************************************************************************)
(* Proofs about the execution of a roadmap, for any items, dependencies,    *)
(* policies and number of deaths.                                           *)
(*                                                                          *)
(* A run may be resumed from the checkpoint on disk, so what is proved of   *)
(* the checkpoint in memory has to hold of the one on disk too (Whole), and *)
(* the two may differ by one settled item at most (Agree).  The dispatches  *)
(* are counted against the deaths: a phase that the present process may     *)
(* still come to was dispatched at most once for every death (Counted).     *)
(***************************************************************************)
EXTENDS Roadmap, FiniteSetTheorems, TLAPS

Running == pc \in {"enter", "dispatch"}

TypeInv == RoadmapTypeOK /\ (Running => checkpoint.phase \in Phases)

Earlier(phase) ==
    CASE phase = "planning"     -> {}
      [] phase = "implementing" -> {"planning"}
      [] phase = "reviewing"    -> {"planning", "implementing"}
      [] phase = "validating"   -> {"planning", "implementing", "reviewing"}

(* A checkpoint settles no item twice, and everything that lies behind it   *)
(* was dispatched.                                                          *)
Whole(c) ==
    /\ c.completed \cap c.failed = {}
    /\ \A i \in c.completed : \A p \in Phases : dispatched[i][p] > 0
    /\ c.phase \in Phases => \A p \in Earlier(c.phase) : dispatched[c.item][p] > 0

(* How the checkpoint in memory differs from the one on disk; the lists of  *)
(* dependencies do not differ at all.                                       *)
Agree ==
    /\ pc # "down" => roadmap.deps = file.deps
    /\ pc = "create" => /\ saved = Absent /\ checkpoint.phase = "planning"
                        /\ checkpoint.completed = {} /\ checkpoint.failed = {}
    /\ pc \in {"pick", "enter", "dispatch", "write"} =>
         /\ saved \in Points
         /\ saved.completed = checkpoint.completed /\ saved.failed = checkpoint.failed
    /\ Running => /\ checkpoint.item \notin checkpoint.completed \cup checkpoint.failed
                  /\ file.deps[checkpoint.item] \subseteq checkpoint.completed
    /\ pc = "dispatch" => dispatched[checkpoint.item][checkpoint.phase] > 0
    /\ pc = "settle" =>
         /\ saved \in Points /\ checkpoint.phase \notin Phases
         /\ checkpoint.item \notin saved.completed \cup saved.failed
         /\ file.deps[checkpoint.item] \subseteq saved.completed
         /\ \/ /\ checkpoint.completed = saved.completed \cup {checkpoint.item}
               /\ checkpoint.failed = saved.failed
            \/ /\ checkpoint.completed = saved.completed
               /\ checkpoint.failed = saved.failed \cup {checkpoint.item}

(* The present process, or the next one, may come to phase p of item i.     *)
Ahead(i, p) ==
    /\ pc = "down" => saved = Absent \/ i \notin saved.completed \cup saved.failed
    /\ pc # "down" => i \notin checkpoint.completed \cup checkpoint.failed
    /\ Running /\ i = checkpoint.item => p \notin Earlier(checkpoint.phase)
    /\ pc = "dispatch" /\ i = checkpoint.item => p # checkpoint.phase

Counted ==
    \A i \in Items, p \in Phases :
      /\ dispatched[i][p] <= 1 + deaths
      /\ Ahead(i, p) => dispatched[i][p] <= deaths

RunInv ==
    /\ Agree /\ Counted
    /\ saved # Absent => Whole(saved)
    /\ pc # "down" => Whole(checkpoint)

-----------------------------------------------------------------------------
(* There is no checkpoint with the number of no item. *)
LEMMA AbsentIsNoPoint == Absent \notin Points
BY RoadmapAssumption DEF RoadmapAssumption, Absent, Points, Items

(* The phases in their order. *)
LEMMA PhaseOrder ==
    ASSUME NEW p \in Phases
    PROVE  /\ Earlier(p) \subseteq Phases /\ p \notin Earlier(p)
           /\ p # "validating" =>
                /\ After(p) \in Phases /\ After(p) # p
                /\ Earlier(After(p)) = Earlier(p) \cup {p}
           /\ p = "validating" => Phases = Earlier(p) \cup {p}
           /\ p \notin {"completed", "failed"}
BY DEF Phases, Earlier, After

(* One more dispatch. *)
LEMMA OneMore ==
    ASSUME NEW f \in [Items -> [Phases -> Nat]], NEW i \in Items, NEW p \in Phases
    PROVE  LET g == [f EXCEPT ![i][p] = @ + 1]
           IN  /\ g \in [Items -> [Phases -> Nat]]
               /\ g[i][p] = f[i][p] + 1
               /\ \A j \in Items, q \in Phases : j # i \/ q # p => g[j][q] = f[j][q]
OBVIOUS

(* Fields of a roadmap and of a checkpoint. *)
LEMMA MapTypes ==
    ASSUME NEW r \in Maps
    PROVE  /\ r.status \in [Items -> Statuses] /\ r.priority \in [Items -> 1 .. Lowest]
           /\ r.last \in Items /\ r.external \subseteq External
           /\ r.deps \in [Items -> SUBSET (Items \cup {Nobody})]
           /\ \A s \in [Items -> Statuses] : [r EXCEPT !.status = s].deps = r.deps
           /\ \A i \in Items, s \in Statuses : [r EXCEPT !.status[i] = s].deps = r.deps
           /\ \A p \in [Items -> 1 .. Lowest] : [r EXCEPT !.priority = p].deps = r.deps
           /\ \A s \in [Items -> Statuses] : [r EXCEPT !.status = s] \in Maps
           /\ \A i \in Items, s \in Statuses : [r EXCEPT !.status[i] = s] \in Maps
           /\ \A p \in [Items -> 1 .. Lowest] : [r EXCEPT !.priority = p] \in Maps
BY DEF Maps

(* Which fields an update of a checkpoint leaves alone. *)
LEMMA PointUpdates ==
    ASSUME NEW c \in Points, NEW i \in Items, NEW p \in Phases \cup {"completed", "failed"}
    PROVE  /\ LET d == [c EXCEPT !.item = i, !.phase = p]
              IN  /\ d.item = i /\ d.phase = p
                  /\ d.completed = c.completed /\ d.failed = c.failed
           /\ LET d == [c EXCEPT !.phase = p]
              IN  /\ d.item = c.item /\ d.phase = p
                  /\ d.completed = c.completed /\ d.failed = c.failed
           /\ LET d == [c EXCEPT !.completed = @ \cup {i}, !.phase = p]
              IN  /\ d.item = c.item /\ d.phase = p
                  /\ d.completed = c.completed \cup {i} /\ d.failed = c.failed
           /\ LET d == [c EXCEPT !.failed = @ \cup {i}, !.phase = p]
              IN  /\ d.item = c.item /\ d.phase = p
                  /\ d.completed = c.completed /\ d.failed = c.failed \cup {i}
BY DEF Points

(* What is left of a roadmap that was cut off is a roadmap, with one list   *)
(* of dependencies changed: it has no item that was not on it.              *)
LEMMA CutType ==
    ASSUME NEW r \in Maps, CutShort(r)
    PROVE  /\ file' \in Maps
           /\ \E n \in Items :
                /\ \A j \in Items \ {n} : file'.deps[j] = r.deps[j]
                /\ file'.deps[n] \cap Items \subseteq r.deps[n]
<1>1. r.last \in Items /\ 1 .. r.last \subseteq Items
  BY RoadmapAssumption, MapTypes DEF RoadmapAssumption, Items
<1>n. PICK n \in 1 .. r.last :
        \E D \in SUBSET (r.deps[n] \cup {Nobody}), E \in {r.external, r.external \ {n}} :
          file' = [r EXCEPT !.last = n, !.deps[n] = D, !.external = E]
  BY Zenon DEF CutShort
<1>2. PICK D \in SUBSET (r.deps[n] \cup {Nobody}), E \in {r.external, r.external \ {n}} :
        file' = [r EXCEPT !.last = n, !.deps[n] = D, !.external = E]
  BY <1>n
<1>3. /\ n \in Items /\ r.deps \in [Items -> SUBSET (Items \cup {Nobody})]
      /\ r.external \subseteq External
  BY <1>1, MapTypes
<1>4. D \in SUBSET (Items \cup {Nobody}) /\ E \in SUBSET External
  BY <1>3
<1>5. [r.deps EXCEPT ![n] = D] \in [Items -> SUBSET (Items \cup {Nobody})]
  BY <1>3, <1>4
<1>6. /\ file'.status = r.status /\ file'.priority = r.priority
      /\ file'.last = n /\ file'.deps = [r.deps EXCEPT ![n] = D] /\ file'.external = E
      /\ file' = [status |-> r.status, priority |-> r.priority, last |-> n,
                  deps |-> [r.deps EXCEPT ![n] = D], external |-> E]
  BY <1>2 DEF Maps
<1>7. file' \in Maps
  <2>1. r.status \in [Items -> Statuses] /\ r.priority \in [Items -> 1 .. Lowest]
    BY MapTypes
  <2> QED
    BY <1>3, <1>4, <1>5, <1>6, <2>1 DEF Maps
<1>8. Nobody \notin Items
  BY DEF Nobody, Items
<1> QED
  BY <1>3, <1>6, <1>7, <1>8

(* What a checkpoint becomes. *)
LEMMA PointTypes ==
    ASSUME NEW c \in Points
    PROVE  /\ c.item \in Items /\ c.phase \in Phases \cup {"completed", "failed"}
           /\ c.completed \subseteq Items /\ c.failed \subseteq Items
           /\ \A i \in Items : [c EXCEPT !.item = i, !.phase = "planning"] \in Points
           /\ \A p \in Phases : [c EXCEPT !.phase = p] \in Points
           /\ [c EXCEPT !.completed = @ \cup {c.item}, !.phase = "completed"] \in Points
           /\ [c EXCEPT !.failed = @ \cup {c.item}, !.phase = "failed"] \in Points
BY DEF Points, Phases

(* What is ready is on the roadmap. *)
LEMMA ReadyListed ==
    ASSUME roadmap \in Maps
    PROVE  Ready \subseteq Items /\ \A i \in Ready : Executable(i)
<1>1. roadmap.last \in Items
  BY MapTypes
<1>2. 1 .. roadmap.last \subseteq Items
  BY <1>1, RoadmapAssumption DEF RoadmapAssumption, Items
<1> QED
  BY <1>2 DEF Ready

(* The types are inductive, with the phase a running item is in. *)
THEOREM RoadmapInductive == Spec => []TypeInv
<1> USE RoadmapAssumption DEF RoadmapAssumption
<1>1. Init => TypeInv
  <2> SUFFICES ASSUME Init PROVE TypeInv
    OBVIOUS
  <2>0. N \in Items /\ Deps \in [Items -> SUBSET (Items \cup {Nobody})]
    BY DEF Items
  <2>1. file \in Maps /\ roadmap \in Maps
    BY <2>0 DEF Init, Maps, Statuses
  <2>2. 1 \in Items
    BY DEF Items
  <2>3. checkpoint \in Points
    BY <2>2 DEF Init, Created, Points, Phases
  <2>4. /\ saved = Absent /\ torn = FALSE /\ pc = "down" /\ outside = {} /\ deaths = 0
        /\ skipped = {}
        /\ switches = [i \in Items |-> 0]
        /\ dispatched = [i \in Items |-> [p \in Phases |-> 0]]
    BY DEF Init
  <2>5. /\ switches \in [Items -> 0 .. MaxSwitches]
        /\ dispatched \in [Items -> [Phases -> Nat]]
        /\ deaths \in 0 .. MaxDeaths
    BY <2>4
  <2> QED
    BY <2>1, <2>3, <2>4, <2>5 DEF TypeInv, RoadmapTypeOK, Running, Places
<1>2. TypeInv /\ [Next]_vars => TypeInv'
  <2> SUFFICES ASSUME TypeInv, [Next]_vars PROVE TypeInv'
    OBVIOUS
  <2>t. /\ file \in Maps /\ roadmap \in Maps
        /\ saved \in Points \cup {Absent} /\ checkpoint \in Points
        /\ torn \in BOOLEAN /\ pc \in Places
        /\ switches \in [Items -> 0 .. MaxSwitches]
        /\ outside \subseteq External
        /\ deaths \in 0 .. MaxDeaths
        /\ dispatched \in [Items -> [Phases -> Nat]]
        /\ skipped \subseteq Items
        /\ Running => checkpoint.phase \in Phases
    BY DEF TypeInv, RoadmapTypeOK
  <2>c. /\ checkpoint.item \in Items
        /\ checkpoint.phase \in Phases \cup {"completed", "failed"}
    BY <2>t, PointTypes
  <2>1. CASE Start
    <3>1. \A i \in Items : Created(i) \in Points
      BY DEF Created, Points, Phases
    <3>2. checkpoint' \in Points
      BY <2>1, <3>1, <2>t DEF Start
    <3>3. pc' \in Places /\ ~Running'
      BY <2>1 DEF Start, Places, Running
    <3>4. switches' \in [Items -> 0 .. MaxSwitches] /\ roadmap' \in Maps
      BY <2>1, <2>t DEF Start
    <3> QED
      BY <2>1, <3>2, <3>3, <3>4, <2>t DEF Start, history, TypeInv, RoadmapTypeOK
  <2>2. CASE Pick
    <3>1. PICK i \in Items :
            /\ IF checkpoint.item = i /\ checkpoint.phase \in Phases
               THEN UNCHANGED <<checkpoint, skipped>>
               ELSE /\ checkpoint' = [checkpoint EXCEPT !.item = i, !.phase = "planning"]
                    /\ skipped' = skipped \ {i}
            /\ roadmap' = [roadmap EXCEPT !.status[i] = "in_progress"]
      BY <2>2, <2>t, ReadyListed DEF Pick
    <3>2. roadmap' \in Maps
      BY <3>1, <2>t, MapTypes DEF Statuses
    <3>3. /\ checkpoint' \in Points /\ checkpoint'.phase \in Phases /\ skipped' \subseteq Items
      <4>1. CASE checkpoint.item = i /\ checkpoint.phase \in Phases
        BY <3>1, <4>1, <2>t
      <4>2. CASE ~(checkpoint.item = i /\ checkpoint.phase \in Phases)
        <5>1. [checkpoint EXCEPT !.item = i, !.phase = "planning"].phase = "planning"
          BY <2>t DEF Points
        <5>2. /\ checkpoint' = [checkpoint EXCEPT !.item = i, !.phase = "planning"]
              /\ skipped' = skipped \ {i}
          BY <3>1, <4>2
        <5>3. checkpoint' \in Points
          BY <5>2, <2>t, PointTypes
        <5> QED
          BY <5>1, <5>2, <5>3, <2>t DEF Phases
      <4> QED
        BY <4>1, <4>2
    <3> QED
      BY <2>2, <3>2, <3>3, <2>t DEF Pick, Places, TypeInv, RoadmapTypeOK
  <2>e. ASSUME Ends, file' \in Maps
        PROVE  /\ roadmap' \in Maps /\ checkpoint' \in Points /\ pc' \in Places /\ ~Running'
               /\ switches' \in [Items -> 0 .. MaxSwitches]
    <3>1. 1 \in Items
      BY DEF Items
    <3>2. Created(1) \in Points
      BY <3>1 DEF Created, Points, Phases
    <3> QED
      BY <2>e, <3>2 DEF Ends, Places, Running
  <2>3. CASE Finish
    <3>1. Ends /\ file' = file
      BY <2>3 DEF Finish
    <3> QED
      BY <2>3, <3>1, <2>e, <2>t DEF Finish, history, TypeInv, RoadmapTypeOK
  <2>4. CASE Save
    <3>1. dispatched' \in [Items -> [Phases -> Nat]]
      BY <2>4, <2>t, <2>c, OneMore DEF Save, Running
    <3>2. pc' \in Places /\ (Running' => Running)
      BY <2>4 DEF Save, Places, Running
    <3> QED
      BY <2>4, <3>1, <3>2, <2>t DEF Save, TypeInv, RoadmapTypeOK
  <2>5. ASSUME pc = "dispatch", NextPhase
        PROVE  /\ checkpoint' \in Points /\ roadmap' \in Maps /\ pc' \in Places
               /\ checkpoint'.phase \in Phases
    <3>1. After(checkpoint.phase) \in Phases
      BY <2>5, <2>t, PhaseOrder DEF NextPhase, Running
    <3>2. [checkpoint EXCEPT !.phase = After(checkpoint.phase)].phase
            = After(checkpoint.phase)
      BY <2>t DEF Points
    <3> QED
      BY <2>5, <3>1, <3>2, <2>t, PointTypes DEF NextPhase, Places
  <2>6. ASSUME CompleteItem
        PROVE  checkpoint' \in Points /\ roadmap' \in Maps /\ pc' = "settle"
    <3>1. checkpoint' \in Points /\ pc' = "settle"
      BY <2>6, <2>t, PointTypes DEF CompleteItem
    <3>2. [roadmap EXCEPT !.status[checkpoint.item] = "completed"] \in Maps
      BY <2>c, <2>t, MapTypes DEF Statuses
    <3>3. PICK p \in [Items -> 1 .. Lowest] :
            roadmap' = [[roadmap EXCEPT !.status[checkpoint.item] = "completed"]
                          EXCEPT !.priority = p]
      BY <2>6 DEF CompleteItem
    <3> QED
      BY <3>1, <3>2, <3>3, MapTypes
  <2>7. ASSUME FailItem
        PROVE  checkpoint' \in Points /\ roadmap' \in Maps /\ pc' = "settle"
    <3>1. checkpoint' \in Points /\ pc' = "settle"
      BY <2>7, <2>t, PointTypes DEF FailItem
    <3> DEFINE blocked == {j \in Items : /\ checkpoint.item \in Deps[j]
                                         /\ roadmap.status[j] \in {"approved", "candidate"}}
               s == [j \in Items |-> CASE j = checkpoint.item -> "failed"
                                       [] j \in blocked \ {checkpoint.item} -> "blocked"
                                       [] OTHER -> roadmap.status[j]]
    <3>2. roadmap.status \in [Items -> Statuses]
      BY <2>t, MapTypes
    <3>3. \A j \in Items : s[j] \in Statuses
      BY <3>2 DEF Statuses
    <3>4. s \in [Items -> Statuses]
      BY <3>3
    <3>5. roadmap' = [roadmap EXCEPT !.status = s]
      BY <2>7 DEF FailItem
    <3> QED
      BY <3>1, <3>4, <3>5, <2>t, MapTypes
  <2>8. CASE Succeeds
    <3>1. /\ checkpoint' \in Points /\ roadmap' \in Maps /\ pc' \in Places
          /\ Running' => checkpoint'.phase \in Phases
      BY <2>8, <2>5, <2>6 DEF Succeeds, Places, Running
    <3> QED
      BY <2>8, <3>1, <2>t DEF Succeeds, history, TypeInv, RoadmapTypeOK
  <2>9. CASE Fails
    <3>1. /\ checkpoint' \in Points /\ roadmap' \in Maps /\ pc' \in Places /\ ~Running'
      BY <2>9, <2>7 DEF Fails, Places, Running
    <3> QED
      BY <2>9, <3>1, <2>t DEF Fails, history, TypeInv, RoadmapTypeOK
  <2>10. CASE Limited
    <3>1. /\ checkpoint' \in Points /\ roadmap' \in Maps /\ pc' \in Places
          /\ Running' => checkpoint'.phase \in Phases
      BY <2>10, <2>5, <2>6, <2>7 DEF Limited, Places, Running
    <3>2. switches' \in [Items -> 0 .. MaxSwitches] /\ skipped' \subseteq Items
      BY <2>10, <2>c, <2>t DEF Limited, Exhausted
    <3> QED
      BY <2>10, <3>1, <3>2, <2>t DEF Limited, TypeInv, RoadmapTypeOK
  <2>11. CASE WriteRoadmap
    BY <2>11, <2>t DEF WriteRoadmap, history, Places, Running, TypeInv, RoadmapTypeOK
  <2>12. CASE Die
    <3>0. torn' = torn \/ torn' = TRUE
      BY <2>12, Zenon DEF Die
    <3>1. CutShort(roadmap) => file' \in Maps
      BY <2>t, CutType
    <3>2. file' = file \/ CutShort(roadmap)
      BY <2>12, Zenon DEF Die
    <3>3. file' \in Maps
      BY <3>1, <3>2, <2>t
    <3>4. Ends /\ deaths' \in 0 .. MaxDeaths
      BY <2>12, <2>t DEF Die
    <3>5. UNCHANGED <<saved, outside, dispatched, skipped>>
      BY <2>12, Zenon DEF Die
    <3> QED
      BY <3>0, <3>3, <3>4, <3>5, <2>e, <2>t DEF TypeInv, RoadmapTypeOK
  <2>13. ASSUME NEW i \in Items, Approve(i) PROVE TypeInv'
    <3>1. file' \in Maps
      BY <2>13, <2>t, MapTypes DEF Approve, Statuses
    <3> QED
      BY <2>13, <3>1, <2>t DEF Approve, history, Running, TypeInv, RoadmapTypeOK
  <2>14. ASSUME NEW i \in Items, CompletedElsewhere(i) PROVE TypeInv'
    BY <2>14, <2>t DEF CompletedElsewhere, history, Running, TypeInv, RoadmapTypeOK
  <2>15. CASE UNCHANGED vars
    BY <2>15, <2>t DEF vars, Running, TypeInv, RoadmapTypeOK
  <2> QED
    BY <2>1, <2>2, <2>3, <2>4, <2>8, <2>9, <2>10, <2>11, <2>12, <2>13, <2>14, <2>15
       DEF Next, Loop
<1> QED
  BY <1>1, <1>2, PTL DEF Spec

(* The files and the memory of a run are well-formed for all items and      *)
(* policies, and the switches stay within their limit.                      *)
THEOREM RoadmapTyped == Spec => []RoadmapTypeOK
<1>1. TypeInv => RoadmapTypeOK
  BY DEF TypeInv
<1> QED
  BY <1>1, RoadmapInductive, PTL

-----------------------------------------------------------------------------
(* What lies behind a checkpoint stays behind it. *)
LEMMA WholeStays ==
    ASSUME NEW c \in Points, Whole(c),
           \A i \in Items, p \in Phases : dispatched[i][p] > 0 => dispatched'[i][p] > 0
    PROVE  Whole(c)'
<1>1. \A p \in Phases : Earlier(p) \subseteq Phases
  BY PhaseOrder
<1> QED
  BY <1>1, PointTypes DEF Whole

(* The lists of dependencies change only when a roadmap is cut off.         *)
LEMMA ListsStay ==
    ASSUME TypeInv, pc # "down" => roadmap.deps = file.deps, [Next]_vars
    PROVE  /\ pc' # "down" => roadmap'.deps = file'.deps
           /\ \/ file'.deps = file.deps
              \/ pc = "write" /\ CutShort(roadmap) /\ pc' = "down"
<1>t. /\ roadmap \in Maps /\ file \in Maps /\ checkpoint.item \in Items
      /\ pc # "down" => roadmap.deps = file.deps
  BY PointTypes DEF TypeInv, RoadmapTypeOK
<1>1. CASE Start
  BY <1>1, <1>t DEF Start
<1>2. CASE Pick
  <2>1. PICK i \in Items : roadmap' = [roadmap EXCEPT !.status[i] = "in_progress"]
    BY <1>2, <1>t, ReadyListed DEF Pick
  <2>2. roadmap'.deps = roadmap.deps
    BY <2>1, <1>t, MapTypes DEF Statuses
  <2> QED
    BY <1>2, <2>2, <1>t DEF Pick
<1>3. CASE Finish \/ Save
  BY <1>3, <1>t DEF Finish, Ends, Save
<1>4. CASE pc = "dispatch" /\ (NextPhase \/ CompleteItem \/ FailItem) /\ file' = file
  <2>1. CASE NextPhase
    BY <1>4, <2>1, <1>t DEF NextPhase
  <2>2. CASE CompleteItem
    <3> DEFINE done == [roadmap EXCEPT !.status[checkpoint.item] = "completed"]
    <3>1. done \in Maps /\ done.deps = roadmap.deps
      BY <1>t, MapTypes DEF Statuses
    <3>2. PICK p \in [Items -> 1 .. Lowest] : roadmap' = [done EXCEPT !.priority = p]
      BY <2>2 DEF CompleteItem
    <3>3. roadmap'.deps = done.deps
      BY <3>1, <3>2, MapTypes
    <3> QED
      BY <1>4, <3>1, <3>3, <1>t
  <2>3. CASE FailItem
    <3>1. PICK f : roadmap' = [roadmap EXCEPT !.status = f]
      BY <2>3 DEF FailItem
    <3>2. roadmap'.deps = roadmap.deps
      BY <3>1, <1>t DEF Maps
    <3> QED
      BY <1>4, <3>2, <1>t
  <2> QED
    BY <1>4, <2>1, <2>2, <2>3
<1>5. CASE WriteRoadmap
  BY <1>5, <1>t DEF WriteRoadmap
<1>6. CASE Die
  <2>1. pc' = "down" /\ (file' = file \/ (pc = "write" /\ CutShort(roadmap)))
    BY <1>6, Zenon DEF Die, Ends
  <2> QED
    BY <2>1
<1>7. ASSUME NEW i \in Items, Approve(i)
      PROVE  file'.deps = file.deps /\ roadmap' = roadmap /\ pc' = pc
  <2>1. file' = [file EXCEPT !.status[i] = "approved"]
    BY <1>7 DEF Approve
  <2> QED
    BY <1>7, <2>1, <1>t, MapTypes DEF Approve, Statuses
<1>8. CASE UNCHANGED vars \/ \E i \in Items : CompletedElsewhere(i)
  BY <1>8, <1>t DEF vars, CompletedElsewhere
<1>9. CASE Succeeds \/ Fails \/ Limited
  BY <1>9, <1>4 DEF Succeeds, Fails, Limited
<1> QED
  BY <1>1, <1>2, <1>3, <1>5, <1>6, <1>7, <1>8, <1>9, <1>t DEF Next, Loop

(* The invariant of a run that may die anywhere and is resumed. *)
THEOREM RunSound == Spec => [](TypeInv /\ RunInv)
<1> USE RoadmapAssumption DEF RoadmapAssumption
<1>1. Init => RunInv
  <2> SUFFICES ASSUME Init PROVE RunInv
    OBVIOUS
  <2>1. /\ saved = Absent /\ pc = "down" /\ deaths = 0
        /\ dispatched = [i \in Items |-> [p \in Phases |-> 0]]
    BY DEF Init
  <2> QED
    BY <2>1 DEF RunInv, Agree, Counted, Running
<1>2. TypeInv /\ TypeInv' /\ RunInv /\ [Next]_vars => RunInv'
  <2> SUFFICES ASSUME TypeInv, TypeInv', RunInv, [Next]_vars PROVE RunInv'
    OBVIOUS
  <2>t. /\ saved \in Points \cup {Absent} /\ checkpoint \in Points
        /\ deaths \in Nat
        /\ dispatched \in [Items -> [Phases -> Nat]]
        /\ checkpoint' \in Points /\ saved' \in Points \cup {Absent}
        /\ roadmap \in Maps /\ file \in Maps
        /\ Running => checkpoint.phase \in Phases
    BY DEF TypeInv, RoadmapTypeOK
  <2>c. /\ checkpoint.item \in Items
        /\ checkpoint.phase \in Phases \cup {"completed", "failed"}
        /\ checkpoint.completed \subseteq Items /\ checkpoint.failed \subseteq Items
    BY <2>t, PointTypes
  <2>n. \A i \in Items, p \in Phases : dispatched[i][p] \in Nat
    BY <2>t
  <2>i. /\ Agree
        /\ Counted
        /\ saved # Absent => Whole(saved)
        /\ pc # "down" => Whole(checkpoint)
    BY DEF RunInv
  <2>a. Absent \notin Points
    BY AbsentIsNoPoint
  <2>d. pc' # "down" => roadmap'.deps = file'.deps /\ file'.deps = file.deps
    BY <2>t, <2>i, ListsStay DEF Agree
  <2>1. CASE Start
    <3>1. /\ pc = "down" /\ pc' \in {"create", "pick"}
          /\ UNCHANGED <<saved, deaths, dispatched>>
      BY <2>1 DEF Start, history
    <3>2. CASE saved = Absent
      <4>1. PICK i \in Items : checkpoint' = Created(i)
        BY <2>1, <3>2 DEF Start
      <4>2. /\ pc' = "create" /\ checkpoint'.phase = "planning"
            /\ checkpoint'.completed = {} /\ checkpoint'.failed = {}
        BY <2>1, <3>2, <4>1 DEF Start, Created
      <4>3. Earlier("planning") = {}
        BY DEF Earlier
      <4>4. Whole(checkpoint)'
        BY <4>2, <4>3 DEF Whole
      <4>5. Counted'
        BY <3>1, <3>2, <4>2, <2>i DEF Counted, Ahead, Running
      <4>6. Agree'
        BY <2>d, <3>1, <3>2, <4>2 DEF Agree, Running
      <4> QED
        BY <3>1, <3>2, <4>4, <4>5, <4>6 DEF RunInv
    <3>3. CASE saved # Absent
      <4>1. checkpoint' = saved /\ pc' = "pick" /\ saved \in Points
        BY <2>1, <3>3, <2>t DEF Start
      <4>2. Whole(saved)'
        BY <4>1, <3>1, <3>3, <2>i, WholeStays
      <4>3. Whole(checkpoint)'
        BY <4>1, <4>2, <3>1 DEF Whole
      <4>4. Counted'
        BY <3>1, <3>3, <4>1, <2>i DEF Counted, Ahead, Running
      <4>5. Agree'
        BY <2>d, <3>1, <4>1 DEF Agree, Running
      <4> QED
        BY <4>2, <4>3, <4>4, <4>5 DEF RunInv
    <3> QED
      BY <3>2, <3>3
  <2>2. CASE Pick
    <3>1. PICK i \in Items :
            /\ Executable(i)
            /\ \/ /\ checkpoint.item = i
                  /\ checkpoint.phase \in Phases
                  /\ checkpoint' = checkpoint
               \/ checkpoint' = [checkpoint EXCEPT !.item = i, !.phase = "planning"]
      BY <2>2, <2>t, ReadyListed DEF Pick
    <3>2. pc = "pick" /\ pc' = "enter" /\ UNCHANGED <<saved, deaths, dispatched>>
      BY <2>2 DEF Pick
    <3>3. /\ checkpoint'.item = i
          /\ checkpoint'.completed = checkpoint.completed
          /\ checkpoint'.failed = checkpoint.failed
          /\ \/ checkpoint'.phase = "planning"
             \/ /\ checkpoint.item = i
                /\ checkpoint'.phase = checkpoint.phase
                /\ checkpoint.phase \in Phases
      <4>1. "planning" \in Phases
        BY DEF Phases
      <4>2. CASE checkpoint' = [checkpoint EXCEPT !.item = i, !.phase = "planning"]
        <5>1. checkpoint \in Points
          BY <2>t
        <5> QED
          BY <4>1, <4>2, <5>1 DEF Points
      <4>3. CASE /\ checkpoint.item = i
                 /\ checkpoint.phase \in Phases
                 /\ checkpoint' = checkpoint
        <5>1. checkpoint' = checkpoint /\ checkpoint.item = i /\ checkpoint.phase \in Phases
          BY <4>3
        <5> QED
          BY <5>1
      <4> QED
        BY <4>2, <4>3, <3>1
    <3>4. Earlier("planning") = {}
      BY DEF Earlier
    <3>5. Whole(checkpoint)' /\ (saved # Absent => Whole(saved)')
      <4>1. saved # Absent => Whole(saved)'
        BY <3>2, <2>i DEF Whole
      <4>2. Whole(checkpoint)'
        BY <3>2, <3>3, <3>4, <2>i DEF Whole
      <4> QED
        BY <4>1, <4>2
    <3>6. Counted'
      BY <3>2, <3>3, <2>i DEF Counted, Ahead, Running
    <3>7. Agree'
      BY <2>d, <3>1, <3>2, <3>3, <2>i DEF Agree, Running, Executable
    <3> QED
      BY <3>2, <3>5, <3>6, <3>7 DEF RunInv
  <2>3. CASE Finish
    <3>1. pc = "pick" /\ pc' = "down" /\ UNCHANGED <<saved, deaths, dispatched>>
      BY <2>3 DEF Finish, Ends, history
    <3>2. Counted'
      BY <3>1, <2>i, <2>a DEF Counted, Ahead, Running, Agree
    <3>3. Agree'
      BY <3>1 DEF Agree, Running
    <3>4. saved # Absent => Whole(saved)'
      BY <3>1, <2>i, <2>t, WholeStays
    <3> QED
      BY <3>1, <3>2, <3>3, <3>4 DEF RunInv
  <2>4. CASE Save
    <3>1. /\ pc # "down" /\ saved' = checkpoint /\ UNCHANGED <<checkpoint, deaths>>
          /\ saved' # Absent
      BY <2>4, <2>t, <2>a DEF Save
    <3>2. CASE pc = "enter"
      <4> DEFINE i == checkpoint.item
                 p == checkpoint.phase
      <4>1. /\ pc' = "dispatch" /\ p \in Phases
            /\ dispatched' = [dispatched EXCEPT ![i][p] = @ + 1]
        BY <2>4, <3>2, <2>t DEF Save, Running
      <4>2. /\ dispatched'[i][p] = dispatched[i][p] + 1
            /\ \A j \in Items, q \in Phases :
                 j # i \/ q # p => dispatched'[j][q] = dispatched[j][q]
        BY <4>1, <2>c, <2>t, OneMore
      <4>3. \A j \in Items, q \in Phases : dispatched[j][q] > 0 => dispatched'[j][q] > 0
        BY <4>1, <4>2, <2>c, <2>n
      <4>4. Whole(checkpoint)'
        <5>1. \A q \in Phases : Earlier(q) \subseteq Phases
          BY PhaseOrder
        <5> QED
          BY <4>3, <3>1, <2>i, <2>c, <5>1 DEF Whole
      <4>5. Whole(saved)'
        BY <4>4, <3>1 DEF Whole
      <4>6. Agree'
        BY <2>d, <3>1, <3>2, <4>1, <4>2, <2>i, <2>t, <2>c, <2>n DEF Agree, Running
      <4>7. Ahead(i, p)
        BY <3>2, <4>1, <2>i, PhaseOrder DEF Ahead, Agree, Running
      <4>8. ASSUME NEW j \in Items, NEW q \in Phases
            PROVE  /\ dispatched'[j][q] <= 1 + deaths'
                   /\ Ahead(j, q)' => dispatched'[j][q] <= deaths'
        <5>1. CASE j = i /\ q = p
          <6>1. dispatched[i][p] <= deaths
            BY <4>1, <4>7, <2>i, <2>c DEF Counted
          <6>2. ~Ahead(j, q)'
            BY <5>1, <4>1, <3>1 DEF Ahead
          <6> QED
            BY <5>1, <6>1, <6>2, <4>1, <4>2, <3>1, <2>c, <2>n, <2>t
        <5>2. CASE ~(j = i /\ q = p)
          <6>1. Ahead(j, q)' => Ahead(j, q)
            BY <3>1, <3>2, <4>1 DEF Ahead, Running
          <6>2. dispatched'[j][q] = dispatched[j][q]
            BY <5>2, <4>2
          <6> QED
            BY <6>1, <6>2, <3>1, <2>i DEF Counted
        <5> QED
          BY <5>1, <5>2
      <4>9. Counted'
        BY <4>8 DEF Counted
      <4> QED
        BY <4>4, <4>5, <4>6, <4>9 DEF RunInv
    <3>3. CASE pc \in {"create", "settle"}
      <4>1. pc' \in {"pick", "write"} /\ dispatched' = dispatched
        BY <2>4, <3>3 DEF Save
      <4>2. Whole(checkpoint)'
        BY <3>1, <4>1, <2>i, <2>t, WholeStays DEF Whole
      <4>3. Whole(saved)'
        BY <4>2, <3>1 DEF Whole
      <4>4. Agree'
        BY <2>d, <3>1, <3>3, <4>1, <2>t, <2>i DEF Agree, Running
      <4>5. Counted'
        BY <3>1, <3>3, <4>1, <2>i DEF Counted, Ahead, Running
      <4> QED
        BY <4>2, <4>3, <4>4, <4>5 DEF RunInv
    <3> QED
      BY <2>4, <3>2, <3>3 DEF Save
  <2>5. ASSUME pc = "dispatch", NextPhase, UNCHANGED <<saved, deaths, dispatched>>
        PROVE  RunInv'
    <3>1. /\ pc' = "enter" /\ checkpoint.phase \in Phases /\ checkpoint.phase # "validating"
          /\ checkpoint' = [checkpoint EXCEPT !.phase = After(checkpoint.phase)]
      BY <2>5, <2>t DEF NextPhase, Running
    <3>2. /\ After(checkpoint.phase) \in Phases
          /\ Earlier(After(checkpoint.phase)) = Earlier(checkpoint.phase) \cup {checkpoint.phase}
      BY <3>1, PhaseOrder
    <3>3. /\ checkpoint'.item = checkpoint.item /\ checkpoint'.phase = After(checkpoint.phase)
          /\ checkpoint'.completed = checkpoint.completed
          /\ checkpoint'.failed = checkpoint.failed
      BY <3>1, <3>2, <2>t, <2>c, PointUpdates
    <3>4. Whole(checkpoint)'
      BY <2>5, <3>1, <3>2, <3>3, <2>i DEF Whole, Agree
    <3>5. saved # Absent => Whole(saved)'
      BY <2>5, <2>i, <2>t, WholeStays
    <3>6. Agree'
      BY <2>d, <2>5, <3>1, <3>3, <2>i DEF Agree, Running
    <3>7. Counted'
      <4>1. \A i \in Items, p \in Phases : Ahead(i, p)' => Ahead(i, p)
        BY <2>5, <3>1, <3>2, <3>3 DEF Ahead, Running
      <4> QED
        BY <4>1, <2>5, <2>i DEF Counted
    <3> QED
      BY <2>5, <3>4, <3>5, <3>6, <3>7 DEF RunInv
  <2>6. ASSUME pc = "dispatch", UNCHANGED <<saved, deaths, dispatched>>,
               pc' = "settle", checkpoint'.phase \notin Phases,
               checkpoint'.item = checkpoint.item,
               \/ /\ checkpoint'.completed = checkpoint.completed \cup {checkpoint.item}
                  /\ checkpoint'.failed = checkpoint.failed
                  /\ \A p \in Phases : dispatched[checkpoint.item][p] > 0
               \/ /\ checkpoint'.completed = checkpoint.completed
                  /\ checkpoint'.failed = checkpoint.failed \cup {checkpoint.item}
        PROVE  RunInv'
    <3>1. Whole(checkpoint)'
      BY <2>6, <2>i, <2>c DEF Whole, Agree, Running
    <3>2. saved # Absent => Whole(saved)'
      BY <2>6, <2>i, <2>t, WholeStays
    <3>3. Agree'
      BY <2>d, <2>6, <2>i DEF Agree, Running
    <3>4. Counted'
      <4>1. \A i \in Items, p \in Phases : Ahead(i, p)' => Ahead(i, p)
        BY <2>6 DEF Ahead, Running
      <4> QED
        BY <4>1, <2>6, <2>i DEF Counted
    <3> QED
      BY <2>6, <3>1, <3>2, <3>3, <3>4 DEF RunInv
  <2>7. ASSUME pc = "dispatch", CompleteItem, UNCHANGED <<saved, deaths, dispatched>>
        PROVE  RunInv'
    <3>1. /\ checkpoint.phase = "validating" /\ pc' = "settle"
          /\ checkpoint' = [checkpoint EXCEPT !.completed = @ \cup {checkpoint.item},
                                              !.phase = "completed"]
      BY <2>7 DEF CompleteItem
    <3>2. /\ checkpoint'.item = checkpoint.item /\ checkpoint'.phase = "completed"
          /\ checkpoint'.completed = checkpoint.completed \cup {checkpoint.item}
          /\ checkpoint'.failed = checkpoint.failed
      BY <3>1, <2>t, <2>c, PointUpdates
    <3>3. \A p \in Phases : dispatched[checkpoint.item][p] > 0
      <4>1. "validating" \in Phases
        BY DEF Phases
      <4>2. Phases = Earlier("validating") \cup {"validating"}
        BY <4>1, PhaseOrder
      <4> QED
        BY <4>1, <4>2, <3>1, <2>7, <2>i DEF Whole, Agree
    <3>4. "completed" \notin Phases
      BY DEF Phases
    <3> QED
      BY <2>7, <3>1, <3>2, <3>3, <3>4, <2>6
  <2>8. ASSUME pc = "dispatch", FailItem, UNCHANGED <<saved, deaths, dispatched>>
        PROVE  RunInv'
    <3>1. /\ pc' = "settle"
          /\ checkpoint' = [checkpoint EXCEPT !.failed = @ \cup {checkpoint.item},
                                              !.phase = "failed"]
      BY <2>8 DEF FailItem
    <3>2. /\ checkpoint'.item = checkpoint.item /\ checkpoint'.phase = "failed"
          /\ checkpoint'.completed = checkpoint.completed
          /\ checkpoint'.failed = checkpoint.failed \cup {checkpoint.item}
      BY <3>1, <2>t, <2>c, PointUpdates
    <3>3. "failed" \notin Phases
      BY DEF Phases
    <3> QED
      BY <2>8, <3>1, <3>2, <3>3, <2>6
  <2>9. CASE Succeeds \/ Fails \/ Limited
    BY <2>9, <2>5, <2>7, <2>8 DEF Succeeds, Fails, Limited, history
  <2>10. CASE WriteRoadmap
    <3>1. pc = "write" /\ pc' = "pick" /\ UNCHANGED <<saved, checkpoint, deaths, dispatched>>
      BY <2>10 DEF WriteRoadmap, history
    <3>2. Agree' /\ Counted'
      BY <2>d, <3>1, <2>i DEF Agree, Counted, Ahead, Running
    <3>3. Whole(checkpoint)' /\ (saved # Absent => Whole(saved)')
      BY <3>1, <2>i, <2>t, WholeStays DEF Whole
    <3> QED
      BY <3>1, <3>2, <3>3 DEF RunInv
  <2>11. CASE Die
    <3>1. pc' = "down" /\ deaths' = deaths + 1 /\ UNCHANGED <<saved, dispatched>>
      BY <2>11, Zenon DEF Die, Ends
    <3>2. Counted'
      BY <3>1, <2>i, <2>t, <2>n DEF Counted
    <3>3. Agree'
      BY <3>1 DEF Agree, Running
    <3>4. saved # Absent => Whole(saved)'
      BY <3>1, <2>i, <2>t, WholeStays
    <3> QED
      BY <3>1, <3>2, <3>3, <3>4 DEF RunInv
  <2>12. CASE \/ UNCHANGED vars
              \/ \E i \in Items : Approve(i) \/ CompletedElsewhere(i)
    <3>1. UNCHANGED <<saved, checkpoint, pc, deaths, dispatched>>
      BY <2>12 DEF vars, Approve, CompletedElsewhere, history
    <3> QED
      BY <2>d, <3>1, <2>i DEF RunInv, Agree, Counted, Ahead, Running, Whole
  <2> QED
    BY <2>1, <2>2, <2>3, <2>4, <2>9, <2>10, <2>11, <2>12 DEF Next, Loop
<1> QED
  BY <1>1, <1>2, RoadmapInductive, PTL DEF Spec

(* A phase is dispatched once, and once more at most for every death of the *)
(* process (the resume of execute_roadmap), for any number of deaths.       *)
THEOREM DispatchesBounded == Spec => []DispatchesAccounted
<1>1. RunInv => DispatchesAccounted
  BY DEF RunInv, Counted, DispatchesAccounted
<1> QED
  BY <1>1, RunSound, PTL

(* No phase of a completed item was left out, however often the run died in *)
(* the middle of it.                                                        *)
THEOREM CompletedItemsWhole == Spec => []CompletedWhole
<1>1. RunInv => CompletedWhole
  BY DEF RunInv, Whole, CompletedWhole
<1> QED
  BY <1>1, RunSound, PTL

-----------------------------------------------------------------------------
(* The checkpoints on disk implement the ledger: an item is settled once,   *)
(* for good and after what roadmap.yaml then lists as its dependencies, and *)
(* the lists only lose entries (complete_item, fail_item, the resume of     *)
(* execute_roadmap and a death within save_roadmap).                        *)
THEOREM CheckpointsImplementLedger == Spec => ImplementsItemLedger
<1> DEFINE L == [i \in Items |-> Settled(i)]
           D == file.deps
<1>1. Init => Ledger!LedgerInit
  BY DEF Init, Ledger!LedgerInit, Settled
<1>2. /\ TypeInv /\ RunInv /\ TypeInv' /\ RunInv' /\ [Next]_vars
      => [Ledger!LedgerNext]_<<L, D>>
  <2> SUFFICES ASSUME TypeInv, RunInv, TypeInv', RunInv', [Next]_vars
               PROVE  [Ledger!LedgerNext]_<<L, D>>
    OBVIOUS
  <2>a. /\ Absent \notin Points /\ checkpoint \in Points
        /\ roadmap \in Maps /\ file \in Maps
        /\ pc # "down" => roadmap.deps = file.deps
    BY AbsentIsNoPoint DEF TypeInv, RoadmapTypeOK, RunInv, Agree
  <2>d. \/ file'.deps = file.deps
        \/ pc = "write" /\ CutShort(roadmap)
    BY <2>a, ListsStay
  <2>1. CASE saved' = saved
    <3>1. L' = L
      BY <2>1 DEF Settled
    <3>2. CASE D' = D
      BY <3>1, <3>2
    <3>3. CASE pc = "write" /\ CutShort(roadmap)
      <4>1. \E n \in Items : /\ \A j \in Items \ {n} : D'[j] = D[j]
                             /\ D'[n] \cap Items \subseteq D[n]
        BY <3>3, <2>a, CutType
      <4> QED
        BY <3>1, <4>1 DEF Ledger!LedgerNext, Ledger!Lose
    <3> QED
      BY <2>d, <3>2, <3>3
  <2>2. CASE Save
    <3>1. saved' = checkpoint /\ saved' # Absent /\ D' = D
      BY <2>2, <2>a DEF Save
    <3>2. CASE pc \in {"create", "enter"}
      <4>1. \A i \in Items : Settled(i)' = Settled(i)
        BY <3>1, <3>2, <2>a DEF RunInv, Agree, Settled
      <4> QED
        BY <3>1, <4>1
    <3>3. CASE pc = "settle"
      <4>k. PICK k \in Items : k = checkpoint.item
        BY <2>a, PointTypes
      <4>1. /\ saved \in Points /\ saved # Absent
            /\ k \notin saved.completed \cup saved.failed /\ D[k] \subseteq saved.completed
            /\ \/ /\ checkpoint.completed = saved.completed \cup {k}
                  /\ checkpoint.failed = saved.failed
               \/ /\ checkpoint.completed = saved.completed
                  /\ checkpoint.failed = saved.failed \cup {k}
        BY <4>k, <3>3, <2>a DEF RunInv, Agree
      <4>2. Settled(k) = "open" /\ \A d \in D[k] : Settled(d) = "completed"
        BY <4>1 DEF Settled
      <4>3. /\ \A i \in Items : i # k => Settled(i)' = Settled(i)
            /\ Settled(k)' \in {"completed", "failed"}
        BY <4>1, <3>1 DEF Settled
      <4>4. D[k] \subseteq Items
        BY <4>1, PointTypes
      <4>5. L' = [L EXCEPT ![k] = Settled(k)']
        BY <4>1, <4>3
      <4>6. L[k] = "open" /\ \A d \in D[k] : d \in Items /\ L[d] = "completed"
        BY <4>1, <4>2, <4>4
      <4>7. \E i \in Items, outcome \in {"completed", "failed"} :
              /\ L[i] = "open" /\ \A d \in D[i] : d \in Items /\ L[d] = "completed"
              /\ L' = [L EXCEPT ![i] = outcome]
              /\ D' = D
        BY <3>1, <4>1, <4>3, <4>5, <4>6
      <4> QED
        BY <4>7 DEF Ledger!LedgerNext, Ledger!Settle
    <3> QED
      BY <2>2, <3>2, <3>3 DEF Save
  <2> QED
    BY <2>1, <2>2 DEF Next, Loop, Start, Pick, Finish, Succeeds, Fails, Limited,
       WriteRoadmap, Die, Approve, CompletedElsewhere, vars
<1> QED
  BY <1>1, <1>2, RunSound, RoadmapInductive, PTL DEF Spec, ImplementsItemLedger,
     Ledger!LedgerSpec

-----------------------------------------------------------------------------
(* How far a run is from its end, at the most: eleven steps for every item  *)
(* that is not settled, of which two for each phase that is left of the     *)
(* present one.                                                             *)
Open == Items \ (checkpoint.completed \cup checkpoint.failed)

PhasesLeft(phase) ==
    CASE phase = "planning" -> 3 [] phase = "implementing" -> 2
      [] phase = "reviewing" -> 1 [] phase = "validating" -> 0

WithinItem ==
    CASE pc = "settle"   -> 11
      [] pc = "write"    -> 10
      [] pc = "create"   -> 10
      [] pc = "pick"     -> 9
      [] pc = "enter"    -> 2 + 2 * PhasesLeft(checkpoint.phase)
      [] pc = "dispatch" -> 1 + 2 * PhasesLeft(checkpoint.phase)

Distance == IF pc = "down" THEN 0 ELSE 11 * Cardinality(Open) + WithinItem

LEMMA PhasesLeftDrop ==
    ASSUME NEW p \in Phases
    PROVE  /\ PhasesLeft(p) \in 0 .. 3
           /\ p # "validating" => PhasesLeft(After(p)) = PhasesLeft(p) - 1
BY DEF Phases, PhasesLeft, After

LEMMA DistanceRange ==
    ASSUME TypeInv
    PROVE  /\ IsFiniteSet(Open) /\ Cardinality(Open) \in 0 .. N
           /\ pc # "down" => WithinItem \in 1 .. 11
           /\ Distance \in 0 .. 11 * N + 11
           /\ pc # "down" => Distance > 0
<1>1. N \in Nat /\ IsFiniteSet(Items) /\ Cardinality(Items) = N
  <2>1. N \in Nat
    BY RoadmapAssumption DEF RoadmapAssumption
  <2>2. IsFiniteSet(1 .. N) /\ Cardinality(1 .. N) = IF 1 > N THEN 0 ELSE N - 1 + 1
    BY <2>1, FS_Interval
  <2> QED
    BY <2>1, <2>2 DEF Items
<1>2. IsFiniteSet(Open) /\ Cardinality(Open) \in 0 .. N
  <2>1. Open \subseteq Items
    BY DEF Open
  <2>2. IsFiniteSet(Open) /\ Cardinality(Open) <= Cardinality(Items)
    BY <1>1, <2>1, FS_Subset
  <2>3. Cardinality(Open) \in Nat
    BY <2>2, FS_CardinalityType
  <2> QED
    BY <1>1, <2>2, <2>3
<1>3. pc # "down" => WithinItem \in 1 .. 11
  <2>1. pc \in Places /\ (pc \in {"enter", "dispatch"} => checkpoint.phase \in Phases)
    BY DEF TypeInv, RoadmapTypeOK, Running
  <2>2. pc \in {"enter", "dispatch"} => PhasesLeft(checkpoint.phase) \in 0 .. 3
    BY <2>1, PhasesLeftDrop
  <2> QED
    BY <2>1, <2>2 DEF Places, WithinItem
<1> QED
  BY <1>1, <1>2, <1>3 DEF Distance

(* The present item is settled. *)
LEMMA SettlingNearer ==
    ASSUME TypeInv, RunInv, pc = "dispatch", pc' = "settle",
           checkpoint'.completed \cup checkpoint'.failed
             = checkpoint.completed \cup checkpoint.failed \cup {checkpoint.item}
    PROVE  Distance' < Distance
<1>1. /\ checkpoint.item \in Items /\ checkpoint.phase \in Phases
      /\ checkpoint.item \notin checkpoint.completed \cup checkpoint.failed
  BY PointTypes DEF TypeInv, RoadmapTypeOK, RunInv, Agree, Running
<1>2. Open' = Open \ {checkpoint.item} /\ checkpoint.item \in Open
  BY <1>1 DEF Open
<1>3. IsFiniteSet(Open) /\ Cardinality(Open) \in Nat /\ WithinItem >= 1 /\ WithinItem \in Nat
  BY DistanceRange, RoadmapAssumption DEF RoadmapAssumption
<1>4. Cardinality(Open') = Cardinality(Open) - 1
  BY <1>2, <1>3, FS_RemoveElement
<1>5. WithinItem' = 11
  BY DEF WithinItem
<1>6. Distance = 11 * Cardinality(Open) + WithinItem /\ Distance' = 11 * Cardinality(Open') + 11
  BY <1>5 DEF Distance
<1> QED
  BY <1>3, <1>4, <1>6

(* The next phase of the present item is entered. *)
LEMMA PhaseNearer ==
    ASSUME TypeInv, pc = "dispatch", NextPhase
    PROVE  Distance' < Distance
<1>1. checkpoint \in Points /\ checkpoint.phase \in Phases
  BY DEF TypeInv, RoadmapTypeOK, Running
<1>2. /\ checkpoint.phase # "validating" /\ pc' = "enter"
      /\ checkpoint' = [checkpoint EXCEPT !.phase = After(checkpoint.phase)]
  BY DEF NextPhase
<1>3. /\ checkpoint'.phase = After(checkpoint.phase)
      /\ checkpoint'.completed = checkpoint.completed
      /\ checkpoint'.failed = checkpoint.failed
  BY <1>1, <1>2 DEF Points
<1>4. Open' = Open /\ Cardinality(Open) \in Nat
  BY <1>3, DistanceRange, RoadmapAssumption DEF RoadmapAssumption, Open
<1>5. /\ WithinItem' = 2 + 2 * PhasesLeft(After(checkpoint.phase))
      /\ WithinItem = 1 + 2 * PhasesLeft(checkpoint.phase)
  BY <1>2, <1>3 DEF WithinItem
<1>6. /\ PhasesLeft(checkpoint.phase) \in 0 .. 3
      /\ PhasesLeft(After(checkpoint.phase)) = PhasesLeft(checkpoint.phase) - 1
  BY <1>1, <1>2, PhasesLeftDrop
<1> QED
  BY <1>2, <1>4, <1>5, <1>6 DEF Distance

(* Every step of the loop brings the run nearer to its end, whatever the    *)
(* dispatches return, and nothing else takes it further away: a run makes   *)
(* at most 11 * N + 11 steps (the while loop of execute_roadmap and the one *)
(* over the phases of _execute_item_phases).                                *)
THEOREM RunDescends ==
    Spec => /\ [](Distance \in 0 .. 11 * N + 11)
            /\ [][/\ Loop => Distance' < Distance
                  /\ pc # "down" => Distance' <= Distance]_vars
<1>1. TypeInv => Distance \in 0 .. 11 * N + 11
  BY DistanceRange
<1>p. TypeInv' => (Distance \in 0 .. 11 * N + 11)'
  BY <1>1, PTL
<1>2. TypeInv /\ RunInv /\ TypeInv' /\ Loop => Distance' < Distance
  <2> SUFFICES ASSUME TypeInv, RunInv, TypeInv', Loop PROVE Distance' < Distance
    OBVIOUS
  <2>t. checkpoint \in Points /\ checkpoint.item \in Items /\ pc \in Places /\ roadmap \in Maps
    BY PointTypes DEF TypeInv, RoadmapTypeOK
  <2>r. Cardinality(Open) \in Nat
    BY DistanceRange, RoadmapAssumption DEF RoadmapAssumption
  <2>1. CASE Pick
    <3>1. PICK i \in Items :
            \/ checkpoint.phase \in Phases /\ checkpoint' = checkpoint
            \/ checkpoint' = [checkpoint EXCEPT !.item = i, !.phase = "planning"]
      BY <2>1, <2>t, ReadyListed DEF Pick
    <3>2. /\ checkpoint'.phase \in Phases
          /\ checkpoint'.completed = checkpoint.completed
          /\ checkpoint'.failed = checkpoint.failed
      <4>1. CASE checkpoint.phase \in Phases /\ checkpoint' = checkpoint
        BY <4>1
      <4>2. CASE checkpoint' = [checkpoint EXCEPT !.item = i, !.phase = "planning"]
        BY <4>2, <2>t DEF Points, Phases
      <4> QED
        BY <3>1, <4>1, <4>2
    <3>3. pc = "pick" /\ pc' = "enter" /\ Open' = Open
      BY <2>1, <3>2 DEF Pick, Open
    <3>4. WithinItem = 9 /\ WithinItem' = 2 + 2 * PhasesLeft(checkpoint'.phase)
      BY <3>3 DEF WithinItem, PhasesLeft
    <3>5. PhasesLeft(checkpoint'.phase) \in 0 .. 3
      BY <3>2, PhasesLeftDrop
    <3> QED
      BY <3>3, <3>4, <3>5, <2>r DEF Distance
  <2>2. CASE Finish
    <3>1. pc = "pick" /\ pc' = "down"
      BY <2>2 DEF Finish, Ends
    <3> QED
      BY <3>1, <2>r, DistanceRange DEF Distance, WithinItem
  <2>3. CASE Save
    <3>1. /\ \/ pc = "create" /\ pc' = "pick"
             \/ pc = "enter" /\ pc' = "dispatch"
             \/ pc = "settle" /\ pc' = "write"
          /\ checkpoint' = checkpoint /\ Open' = Open
      BY <2>3 DEF Save, Open
    <3>2. pc = "enter" => PhasesLeft(checkpoint.phase) \in 0 .. 3
      BY PhasesLeftDrop DEF TypeInv, Running
    <3>3. WithinItem' = WithinItem - 1 /\ WithinItem \in Nat
      <4>1. CASE pc = "create" /\ pc' = "pick"
        BY <4>1 DEF WithinItem
      <4>2. CASE pc = "enter" /\ pc' = "dispatch"
        <5>1. /\ WithinItem = 2 + 2 * PhasesLeft(checkpoint.phase)
              /\ WithinItem' = 1 + 2 * PhasesLeft(checkpoint.phase)
          BY <4>2, <3>1 DEF WithinItem
        <5> QED
          BY <5>1, <4>2, <3>2
      <4>3. CASE pc = "settle" /\ pc' = "write"
        BY <4>3 DEF WithinItem
      <4> QED
        BY <3>1, <4>1, <4>2, <4>3
    <3> QED
      BY <3>1, <3>3, <2>r DEF Distance
  <2>4. CASE pc = "dispatch" /\ (NextPhase \/ CompleteItem \/ FailItem)
    <3>1. CASE NextPhase
      BY <2>4, <3>1, PhaseNearer
    <3>2. CASE CompleteItem
      <4>1. /\ pc' = "settle"
            /\ checkpoint' = [checkpoint EXCEPT !.completed = @ \cup {checkpoint.item},
                                                !.phase = "completed"]
        BY <3>2 DEF CompleteItem
      <4>2. /\ checkpoint'.completed = checkpoint.completed \cup {checkpoint.item}
            /\ checkpoint'.failed = checkpoint.failed
        BY <4>1, <2>t DEF Points
      <4> QED
        BY <4>1, <4>2, <2>4, SettlingNearer
    <3>3. CASE FailItem
      <4>1. /\ pc' = "settle"
            /\ checkpoint' = [checkpoint EXCEPT !.failed = @ \cup {checkpoint.item},
                                                !.phase = "failed"]
        BY <3>3 DEF FailItem
      <4>2. /\ checkpoint'.completed = checkpoint.completed
            /\ checkpoint'.failed = checkpoint.failed \cup {checkpoint.item}
        BY <4>1, <2>t DEF Points
      <4> QED
        BY <4>1, <4>2, <2>4, SettlingNearer
    <3> QED
      BY <2>4, <3>1, <3>2, <3>3
  <2>5. CASE WriteRoadmap
    <3>1. pc = "write" /\ pc' = "pick" /\ Open' = Open
      BY <2>5 DEF WriteRoadmap, Open
    <3> QED
      BY <3>1, <2>r DEF Distance, WithinItem
  <2> QED
    BY <2>1, <2>2, <2>3, <2>4, <2>5 DEF Loop, Succeeds, Fails, Limited
<1>3. /\ TypeInv /\ RunInv /\ TypeInv' /\ [Next]_vars
      => [/\ Loop => Distance' < Distance
          /\ pc # "down" => Distance' <= Distance]_vars
  <2> SUFFICES ASSUME TypeInv, RunInv, TypeInv', Next, pc # "down"
               PROVE  Distance' <= Distance
    BY <1>2
  <2>1. Distance \in Nat /\ Distance' \in Nat
    <3>1. N \in Nat
      BY RoadmapAssumption DEF RoadmapAssumption
    <3>2. Distance \in 0 .. 11 * N + 11 /\ Distance' \in 0 .. 11 * N + 11
      BY <1>1, <1>p
    <3> QED
      BY <3>1, <3>2
  <2>2. CASE Loop
    BY <2>1, <2>2, <1>2
  <2>3. CASE Die
    <3>1. Distance' = 0
      BY <2>3 DEF Die, Ends, Distance
    <3> QED
      BY <3>1, <2>1
  <2>4. CASE \E i \in Items : Approve(i) \/ CompletedElsewhere(i)
    <3>1. pc' = pc /\ checkpoint' = checkpoint
      BY <2>4 DEF Approve, CompletedElsewhere, history
    <3>2. Distance' = Distance
      BY <3>1 DEF Distance, WithinItem, Open, PhasesLeft
    <3> QED
      BY <3>2, <2>1
  <2> QED
    BY <2>2, <2>3, <2>4 DEF Next, Start
<1> QED
  BY <1>1, <1>2, <1>3, RunSound, RoadmapInductive, PTL DEF Spec
=============================================================================
