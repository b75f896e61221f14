-------------------------- MODULE AutopilotProofs --------------------------
(***************************************************************************)
(* The safety of the phase machine, for every cap and every number of      *)
(* deaths.  Each state that the loop may be resumed from, the file's or    *)
(* the running process's, is Sound: what a late phase takes for granted    *)
(* holds of the change, also when the phase is reached again through the   *)
(* previous_phase of an escalation, however old that is.                   *)
(***************************************************************************)
EXTENDS Autopilot, TLAPS

\* Phases that the review counter may be used up in.
Counting == Reviews \cup Fixes \cup {"VALIDATE", "ESCALATE"}

Sound(s) ==
    /\ s.phase \in {"VAL_REVIEW", "SUBMIT_PR", "DONE"} => validated
    /\ s.phase \in {"SUBMIT_PR", "DONE"} /\ s.val => reviewed
    /\ s.prev = "VAL_REVIEW" =>
          /\ s.phase \in {"VALIDATE", "VAL_FIX", "VAL_REVIEW", "SUBMIT_PR", "DONE", "ESCALATE"}
          /\ s.phase = "ESCALATE" => validated
    /\ s.prev = "SUBMIT_PR" =>
          /\ s.phase \in {"SUBMIT_PR", "DONE", "ESCALATE"}
          /\ validated /\ (s.val => reviewed)
    /\ s.prev # "DONE"
    /\ s.phase \notin Counting => s.iter = 0
    /\ s.phase = "ESCALATE" /\ s.prev \notin Counting => s.iter = 0
    /\ s.phase = "VAL_REVIEW" \/ s.prev = "VAL_REVIEW" => s.val
    /\ s.phase \in {"VALIDATE", "VAL_FIX"} /\ ~s.val => s.iter = 0
    /\ s.phase = "ESCALATE" /\ s.prev \in {"VALIDATE", "VAL_FIX"} /\ ~s.val => s.iter = 0

\* At the head of the loop the file holds what the process does.
Synced == run = "head" =>
    \/ disk = Absent /\ mem.phase = "INIT"
    \/ disk \in State /\ disk.phase = mem.phase

Published == disk.phase = "DONE" \/ disk = Torn \/ (run # "off" /\ mem.phase = "DONE")

LoopInv ==
    /\ disk \in State \cup {Absent, Torn} /\ mem \in State
    /\ run \in {"off", "head", "go", "stop"}
    /\ validated \in BOOLEAN /\ reviewed \in BOOLEAN
    /\ prs \in Nat /\ lost \in Nat /\ deaths \in Nat
    /\ lost <= MaxFailures + deaths /\ deaths <= MaxDeaths
    /\ disk = Torn => run = "off"
    /\ disk \in State => Sound(disk)
    /\ run # "off" => Sound(mem)
    /\ Synced
    /\ run = "off" => mem = Fresh
    /\ run # "off" /\ disk.phase = "DONE" => mem.phase = "DONE"
    /\ prs <= lost + (IF Published THEN 1 ELSE 0)

-----------------------------------------------------------------------------
(* The table, row by row.                                                  *)

LEMMA Outcomes ==
    /\ DOMAIN Table["PLAN"] = {"exists", "created", "failed"}
    /\ DOMAIN Table["PLAN_ITERATE"] = {"complete", "failed"}
    /\ DOMAIN Table["IMPLEMENT"] = {"complete", "failed"}
    /\ DOMAIN Table["IMPL_ITERATE"] = {"complete", "failed"}
    /\ DOMAIN Table["VALIDATE"] = {"passed", "failed"}
BY DEF Table

LEMMA Targets ==
    ASSUME NEW s \in State
    PROVE /\ s.phase = "INIT" => Target(s, "next") \in {"PLAN", "GATEKEEPER"}
          /\ s.phase = "GATEKEEPER" => /\ Target(s, "proceed") = "PLAN"
                                       /\ Target(s, "proceed_with_review") = "PLAN"
          /\ s.phase = "PLAN" => \A o \in {"exists", "created", "failed"} :
                Target(s, o) \in {"PLAN_ITERATE", "ESCALATE"}
          /\ s.phase = "PLAN_ITERATE" => \A o \in {"complete", "failed"} :
                Target(s, o) \in {"PLAN_REVIEW", "IMPLEMENT", "ESCALATE"}
          /\ s.phase = "IMPLEMENT" => \A o \in {"complete", "failed"} :
                Target(s, o) \in {"IMPL_ITERATE", "ESCALATE"}
          /\ s.phase = "IMPL_ITERATE" => \A o \in {"complete", "failed"} :
                Target(s, o) \in {"IMPL_REVIEW", "VALIDATE", "ESCALATE"}
          /\ s.phase = "VALIDATE" =>
                /\ Target(s, "passed") = IF s.val THEN "VAL_REVIEW" ELSE "SUBMIT_PR"
                /\ Target(s, "failed") = "VAL_FIX"
<1>1. CASE s.phase = "INIT"
  BY <1>1 DEF Target, Table
<1>7. CASE s.phase = "GATEKEEPER"
  BY <1>7 DEF Target, Table
<1>2. CASE s.phase = "PLAN"
  BY <1>2 DEF Target, Table
<1>3. CASE s.phase = "PLAN_ITERATE"
  BY <1>3 DEF Target, Table
<1>4. CASE s.phase = "IMPLEMENT"
  BY <1>4 DEF Target, Table
<1>5. CASE s.phase = "IMPL_ITERATE"
  BY <1>5 DEF Target, Table
<1>6. CASE s.phase = "VALIDATE"
  BY <1>6 DEF Target, Table
<1> QED
  BY <1>1, <1>2, <1>3, <1>4, <1>5, <1>6, <1>7

LEMMA LateTargets ==
    ASSUME NEW s \in State
    PROVE /\ s.phase \in Reviews => Target(s, "max_iter") = "ESCALATE"
          /\ s.phase = "PLAN_REVIEW" => /\ Target(s, "converged") = "IMPLEMENT"
                                        /\ Target(s, "not_converged") = "PLAN_FIX"
          /\ s.phase = "IMPL_REVIEW" => /\ Target(s, "converged") = "VALIDATE"
                                        /\ Target(s, "not_converged") = "IMPL_FIX"
          /\ s.phase = "VAL_REVIEW" => /\ Target(s, "converged") = "SUBMIT_PR"
                                       /\ Target(s, "not_converged") = "VAL_FIX"
          /\ s.phase = "PLAN_FIX" => Target(s, "fixed") = "PLAN_REVIEW"
          /\ s.phase = "IMPL_FIX" => Target(s, "fixed") = "IMPL_REVIEW"
          /\ s.phase = "VAL_FIX" => Target(s, "fixed") = "VALIDATE"
          /\ s.phase = "SUBMIT_PR" => Target(s, "created") = "DONE"
          /\ s.phase = "ESCALATE" => Target(s, "resolved") = s.prev
<1>1. s.phase = "PLAN_REVIEW" =>
        /\ Target(s, "converged") = "IMPLEMENT" /\ Target(s, "not_converged") = "PLAN_FIX"
        /\ Target(s, "max_iter") = "ESCALATE"
  BY DEF Target, Table
<1>2. s.phase = "IMPL_REVIEW" =>
        /\ Target(s, "converged") = "VALIDATE" /\ Target(s, "not_converged") = "IMPL_FIX"
        /\ Target(s, "max_iter") = "ESCALATE"
  BY DEF Target, Table
<1>3. s.phase = "VAL_REVIEW" =>
        /\ Target(s, "converged") = "SUBMIT_PR" /\ Target(s, "not_converged") = "VAL_FIX"
        /\ Target(s, "max_iter") = "ESCALATE"
  BY DEF Target, Table
<1>4. s.phase = "PLAN_FIX" => Target(s, "fixed") = "PLAN_REVIEW"
  BY DEF Target, Table
<1>5. s.phase = "IMPL_FIX" => Target(s, "fixed") = "IMPL_REVIEW"
  BY DEF Target, Table
<1>6. s.phase = "VAL_FIX" => Target(s, "fixed") = "VALIDATE"
  BY DEF Target, Table
<1>7. s.phase = "SUBMIT_PR" => Target(s, "created") = "DONE"
  BY DEF Target, Table
<1>8. s.phase = "ESCALATE" => Target(s, "resolved") = s.prev
  BY DEF Target, Table
<1> QED
  BY <1>1, <1>2, <1>3, <1>4, <1>5, <1>6, <1>7, <1>8 DEF Reviews

-----------------------------------------------------------------------------
(* What a handler leaves in memory.                                        *)

LEMMA Applied ==
    ASSUME AutopilotAssumption, NEW s \in State, s.total < MaxGlobalIterations, NEW o,
           Target(s, o) \in Phases, Apply(s, o)
    PROVE /\ run' = "go" /\ mem' \in State
          /\ mem'.phase = Target(s, o) /\ mem'.prev = s.prev
          /\ mem'.iter = s.iter /\ mem'.val = s.val
<1>1. Target(s, o) # "none"
  BY DEF Phases, Worked, Reviews, Fixes
<1>2. mem' = [s EXCEPT !.phase = Target(s, o), !.total = s.total + 1] /\ run' = "go"
  BY <1>1 DEF Apply
<1>3. s.total + 1 \in 0 .. MaxGlobalIterations
  BY DEF State, AutopilotAssumption
<1> QED
  BY <1>2, <1>3 DEF State

LEMMA EscalatedFields ==
    ASSUME NEW s \in State
    PROVE /\ Escalated(s) \in State
          /\ Escalated(s).phase = "ESCALATE" /\ Escalated(s).prev = s.phase
          /\ Escalated(s).iter = s.iter /\ Escalated(s).val = s.val
<1>1. "ESCALATE" \in Phases
  BY DEF Phases
<1> QED
  BY <1>1 DEF Escalated, State

LEMMA FreshSound ==
    ASSUME AutopilotAssumption
    PROVE Fresh \in State /\ Absent \notin State /\ Torn \notin State
<1>1. Fresh \in State
  BY DEF Fresh, State, Phases, AutopilotAssumption
<1>2. "absent" \notin Phases /\ "torn" \notin Phases
  BY DEF Phases, Worked, Reviews, Fixes
<1>3. Absent.phase = "absent" /\ Torn.phase = "torn"
  BY DEF Fresh, Absent, Torn
<1> QED
  BY <1>1, <1>2, <1>3 DEF State

-----------------------------------------------------------------------------
(* The frame of a handler: it holds the process's state and the change,    *)
(* and leaves the file alone.                                              *)

LEMMA AtHead ==
    ASSUME AutopilotAssumption, LoopInv, Looping
    PROVE /\ run = "head" /\ mem \in State /\ Sound(mem) /\ disk # Torn
          /\ mem.phase # "DONE" /\ mem.total < MaxGlobalIterations
          /\ disk \in State => disk.phase = mem.phase /\ Sound(disk)
          /\ disk.phase # "DONE" /\ prs <= lost
<1>1. run = "head" /\ mem.phase # "DONE" /\ mem.total < MaxGlobalIterations
  BY DEF Looping
<1>2. mem \in State /\ Sound(mem) /\ disk # Torn
  BY <1>1 DEF LoopInv
<1>3. disk \in State => disk.phase = mem.phase /\ Sound(disk)
  <2>1. Absent \notin State
    BY FreshSound
  <2> QED
    BY <1>1, <2>1 DEF LoopInv, Synced
<1>4. disk.phase # "DONE"
  <2>1. disk \in State \/ disk = Absent
    BY <1>2 DEF LoopInv
  <2>2. Absent.phase = "absent"
    BY DEF Absent, Fresh
  <2> QED
    BY <1>1, <1>3, <2>1, <2>2
<1>5. prs <= lost
  <2>1. ~Published
    BY <1>1, <1>2, <1>4 DEF Published
  <2> QED
    BY <2>1 DEF LoopInv
<1> QED
  BY <1>1, <1>2, <1>3, <1>4, <1>5

LEMMA Handled ==
    ASSUME AutopilotAssumption, LoopInv, Looping,
           run' \in {"go", "stop"}, mem' \in State, Sound(mem)',
           validated' \in BOOLEAN, reviewed' \in BOOLEAN,
           disk \in State => Sound(disk)',
           UNCHANGED <<disk, deaths>>,
           \/ /\ prs' \in Nat /\ prs' <= prs + (IF mem'.phase = "DONE" THEN 1 ELSE 0)
              /\ UNCHANGED lost
           \/ lost < MaxFailures /\ prs' = prs + 1 /\ lost' = lost + 1
    PROVE LoopInv'
<1>1. /\ disk' = disk /\ deaths' = deaths /\ disk # Torn /\ prs <= lost
      /\ disk.phase # "DONE"
  BY AtHead
<1>2. prs' <= lost' + (IF Published' THEN 1 ELSE 0)
  <2>1. mem'.phase = "DONE" => Published'
    BY DEF Published
  <2>2. prs' \in Nat /\ prs \in Nat /\ lost \in Nat /\ lost' \in Nat
    BY DEF LoopInv
  <2>3. CASE lost < MaxFailures /\ prs' = prs + 1 /\ lost' = lost + 1
    BY <1>1, <2>2, <2>3
  <2>4. CASE lost' = lost /\ prs' <= prs /\ mem'.phase # "DONE"
    BY <1>1, <2>2, <2>4
  <2>5. CASE lost' = lost /\ prs' <= prs + 1 /\ mem'.phase = "DONE"
    BY <1>1, <2>1, <2>2, <2>5
  <2>6. \/ lost < MaxFailures /\ prs' = prs + 1 /\ lost' = lost + 1
        \/ lost' = lost /\ prs' <= prs /\ mem'.phase # "DONE"
        \/ lost' = lost /\ prs' <= prs + 1 /\ mem'.phase = "DONE"
    BY <2>2
  <2> QED
    BY <2>3, <2>4, <2>5, <2>6
<1>3. Synced'
  BY DEF Synced
<1>4. prs' \in Nat /\ lost' \in Nat /\ lost' <= MaxFailures + deaths'
  BY <1>1 DEF LoopInv, AutopilotAssumption
<1> QED
  BY <1>1, <1>2, <1>3, <1>4 DEF LoopInv

LEMMA Stopped ==
    ASSUME AutopilotAssumption, LoopInv, Looping,
           run' = "off", mem' = Fresh,
           validated' \in BOOLEAN, reviewed' \in BOOLEAN,
           disk \in State => Sound(disk)',
           UNCHANGED <<disk, deaths>>,
           \/ UNCHANGED <<prs, lost>>
           \/ lost < MaxFailures /\ prs' = prs + 1 /\ lost' = lost + 1
    PROVE LoopInv'
<1>1. /\ disk' = disk /\ deaths' = deaths /\ prs <= lost
      /\ \/ prs' = prs /\ lost' = lost
         \/ lost < MaxFailures /\ prs' = prs + 1 /\ lost' = lost + 1
  BY AtHead
<1>2. /\ prs' <= lost' + (IF Published' THEN 1 ELSE 0)
      /\ prs' \in Nat /\ lost' \in Nat /\ lost' <= MaxFailures + deaths'
  BY <1>1 DEF LoopInv, AutopilotAssumption
<1>3. Synced' /\ mem' \in State
  BY FreshSound DEF Synced
<1> QED
  BY <1>1, <1>2, <1>3 DEF LoopInv

-----------------------------------------------------------------------------
(* Each handler keeps the invariant.                                       *)

LEMMA InitPhaseKeeps ==
    ASSUME AutopilotAssumption, LoopInv, PhaseInit PROVE LoopInv'
<1>1. Looping /\ mem.phase = "INIT" /\ UNCHANGED <<disk, validated, reviewed, prs, lost, deaths>>
  BY DEF PhaseInit
<1>2. mem \in State /\ Sound(mem) /\ (disk \in State => Sound(disk))
  BY <1>1, AtHead
<1>3. /\ validated' \in BOOLEAN /\ reviewed' \in BOOLEAN /\ prs' \in Nat /\ prs' <= prs
      /\ disk \in State => Sound(disk)'
  BY <1>1, <1>2 DEF LoopInv, Sound
<1>4. CASE mem' = Escalated(mem) /\ run' \in {"go", "stop"}
  <2>1. mem' \in State /\ Sound(mem)' /\ mem'.phase # "DONE"
    BY <1>1, <1>2, <1>4, EscalatedFields DEF Sound, Counting, Reviews, Fixes
  <2> QED
    BY <1>1, <1>3, <1>4, <2>1, Handled
<1>5. ASSUME NEW risk \in BOOLEAN, Apply([mem EXCEPT !.val = @ \/ risk], "next")
      PROVE LoopInv'
  <2> DEFINE s == [mem EXCEPT !.val = mem.val \/ risk]
  <2>1. /\ s \in State /\ s.phase = "INIT" /\ s.prev = mem.prev /\ s.iter = mem.iter
        /\ s.total = mem.total
    BY <1>1, <1>2 DEF State
  <2>2. mem.total < MaxGlobalIterations
    BY <1>1 DEF Looping
  <2>3. Target(s, "next") \in {"PLAN", "GATEKEEPER"}
    BY <2>1, Targets
  <2>4. Target(s, "next") \in Phases
    BY <2>3 DEF Phases, Worked
  <2>5. Apply(s, "next")
    BY <1>5
  <2> HIDE DEF s
  <2>6. /\ run' = "go" /\ mem' \in State
        /\ mem'.phase = Target(s, "next") /\ mem'.prev = s.prev
        /\ mem'.iter = s.iter /\ mem'.val = s.val
    BY <2>1, <2>2, <2>4, <2>5, Applied
  <2>7. Sound(mem)' /\ mem'.phase # "DONE"
    BY <1>1, <1>2, <2>1, <2>3, <2>6 DEF Sound, Counting, Reviews, Fixes
  <2> QED
    BY <1>1, <1>3, <2>6, <2>7, Handled
<1> QED
  BY <1>4, <1>5 DEF PhaseInit, Escalate, Raised

LEMMA GatekeeperKeeps ==
    ASSUME AutopilotAssumption, LoopInv, PhaseGatekeeper PROVE LoopInv'
<1>1. /\ Looping /\ mem.phase = "GATEKEEPER"
      /\ UNCHANGED <<disk, validated, reviewed, prs, lost, deaths>>
  BY DEF PhaseGatekeeper
<1>2. mem \in State /\ Sound(mem) /\ (disk \in State => Sound(disk))
  BY <1>1, AtHead
<1>3. /\ validated' \in BOOLEAN /\ reviewed' \in BOOLEAN /\ prs' \in Nat /\ prs' <= prs
      /\ disk \in State => Sound(disk)'
  BY <1>1, <1>2 DEF LoopInv, Sound
<1>4. CASE mem' = Escalated(mem) /\ run' \in {"go", "stop"}
  <2>1. mem' \in State /\ Sound(mem)' /\ mem'.phase # "DONE"
    BY <1>1, <1>2, <1>4, EscalatedFields DEF Sound, Counting, Reviews, Fixes
  <2> QED
    BY <1>1, <1>3, <1>4, <2>1, Handled
<1>5. ASSUME NEW s \in State, NEW o \in {"proceed", "proceed_with_review"},
             s.phase = "GATEKEEPER", s.prev = mem.prev, s.iter = mem.iter,
             s.total = mem.total, Apply(s, o)
      PROVE LoopInv'
  <2>1. Target(s, o) = "PLAN" /\ "PLAN" \in Phases
    BY <1>5, Targets DEF Phases, Worked
  <2>2. s.total < MaxGlobalIterations
    BY <1>1, <1>5 DEF Looping
  <2>3. run' = "go" /\ mem' \in State /\ mem'.phase = "PLAN" /\ mem'.prev = s.prev
        /\ mem'.iter = s.iter
    BY <1>5, <2>1, <2>2, Applied
  <2>4. Sound(mem)' /\ mem'.phase # "DONE"
    BY <1>1, <1>2, <1>5, <2>3 DEF Sound, Counting, Reviews, Fixes
  <2> QED
    BY <1>1, <1>3, <2>3, <2>4, Handled
<1>6. CASE Apply(mem, "proceed")
  BY <1>1, <1>2, <1>5, <1>6
<1>7. CASE Apply([mem EXCEPT !.val = TRUE], "proceed_with_review")
  <2>1. LET s == [mem EXCEPT !.val = TRUE]
        IN  s \in State /\ s.phase = mem.phase /\ s.prev = mem.prev /\ s.iter = mem.iter
              /\ s.total = mem.total
    BY <1>2 DEF State
  <2> QED
    BY <1>1, <1>5, <1>7, <2>1
<1> QED
  BY <1>4, <1>6, <1>7 DEF PhaseGatekeeper, Escalate, Raised

LEMMA PlanKeeps ==
    ASSUME AutopilotAssumption, LoopInv, PhasePlan PROVE LoopInv'
<1>1. /\ Looping /\ mem.phase \in {"PLAN", "PLAN_ITERATE"}
      /\ UNCHANGED <<disk, validated, reviewed, prs, lost, deaths>>
  BY DEF PhasePlan
<1>2. /\ mem \in State /\ Sound(mem) /\ (disk \in State => Sound(disk))
      /\ mem.total < MaxGlobalIterations
  BY <1>1, AtHead
<1>3. /\ validated' \in BOOLEAN /\ reviewed' \in BOOLEAN /\ prs' \in Nat /\ prs' <= prs
      /\ disk \in State => Sound(disk)'
  BY <1>1, <1>2 DEF LoopInv, Sound
<1>4. CASE Raised(mem)
  <2>1. mem' = Escalated(mem) /\ run' = "stop"
    BY <1>4 DEF Raised
  <2>2. mem' \in State /\ Sound(mem)' /\ mem'.phase # "DONE"
    BY <1>1, <1>2, <2>1, EscalatedFields DEF Sound, Counting, Reviews, Fixes
  <2> QED
    BY <1>1, <1>3, <2>1, <2>2, Handled
<1>5. CASE Refused
  BY <1>1, <1>3, <1>5, Stopped DEF Refused
<1>6. ASSUME NEW o \in DOMAIN Table[mem.phase], Apply(mem, o) PROVE LoopInv'
  <2>1. Target(mem, o) \in {"PLAN_ITERATE", "PLAN_REVIEW", "IMPLEMENT", "ESCALATE"}
    BY <1>1, <1>2, <1>6, Outcomes, Targets
  <2>2. Target(mem, o) \in Phases
    BY <2>1 DEF Phases, Worked, Reviews
  <2>3. /\ run' = "go" /\ mem' \in State /\ mem'.phase = Target(mem, o)
        /\ mem'.prev = mem.prev /\ mem'.iter = mem.iter
    BY <1>2, <1>6, <2>2, Applied
  <2>4. Sound(mem)' /\ mem'.phase # "DONE"
    BY <1>1, <1>2, <2>1, <2>3 DEF Sound, Counting, Reviews, Fixes
  <2> QED
    BY <1>1, <1>3, <2>3, <2>4, Handled
<1> QED
  BY <1>4, <1>5, <1>6 DEF PhasePlan

LEMMA ImplementKeeps ==
    ASSUME AutopilotAssumption, LoopInv, PhaseImplement PROVE LoopInv'
<1>1. /\ Looping /\ mem.phase \in {"IMPLEMENT", "IMPL_ITERATE"}
      /\ validated' = FALSE /\ reviewed' = FALSE /\ UNCHANGED <<disk, prs, lost, deaths>>
  BY DEF PhaseImplement, Touched
<1>2. /\ mem \in State /\ Sound(mem) /\ mem.total < MaxGlobalIterations
      /\ disk \in State => Sound(disk) /\ disk.phase = mem.phase
  BY <1>1, AtHead
<1>3. /\ validated' \in BOOLEAN /\ reviewed' \in BOOLEAN /\ prs' \in Nat /\ prs' <= prs
      /\ disk \in State => Sound(disk)'
  <2>1. disk \in State => Sound(disk)'
    BY <1>1, <1>2 DEF Sound, Counting, Reviews, Fixes
  <2>2. validated' \in BOOLEAN /\ reviewed' \in BOOLEAN
    BY <1>1
  <2>3. prs' \in Nat /\ prs' <= prs
    BY <1>1 DEF LoopInv
  <2> QED
    BY <2>1, <2>2, <2>3
<1>4. CASE Raised(mem)
  <2>1. mem' = Escalated(mem) /\ run' = "stop"
    BY <1>4 DEF Raised
  <2>2. mem' \in State /\ Sound(mem)' /\ mem'.phase # "DONE"
    BY <1>1, <1>2, <2>1, EscalatedFields DEF Sound, Counting, Reviews, Fixes
  <2> QED
    BY <1>1, <1>3, <2>1, <2>2, Handled
<1>5. CASE Refused
  BY <1>1, <1>3, <1>5, Stopped DEF Refused
<1>6. ASSUME NEW o \in DOMAIN Table[mem.phase], Apply(mem, o) PROVE LoopInv'
  <2>1. Target(mem, o) \in {"IMPL_ITERATE", "IMPL_REVIEW", "VALIDATE", "ESCALATE"}
    BY <1>1, <1>2, <1>6, Outcomes, Targets
  <2>2. Target(mem, o) \in Phases
    BY <2>1 DEF Phases, Worked, Reviews
  <2>3. /\ run' = "go" /\ mem' \in State /\ mem'.phase = Target(mem, o)
        /\ mem'.prev = mem.prev /\ mem'.iter = mem.iter
    BY <1>2, <1>6, <2>2, Applied
  <2>4. Sound(mem)' /\ mem'.phase # "DONE"
    BY <1>1, <1>2, <2>1, <2>3 DEF Sound, Counting, Reviews, Fixes
  <2> QED
    BY <1>1, <1>3, <2>3, <2>4, Handled
<1> QED
  BY <1>4, <1>5, <1>6 DEF PhaseImplement

LEMMA ValidateKeeps ==
    ASSUME AutopilotAssumption, LoopInv, PhaseValidate PROVE LoopInv'
<1>1. Looping /\ mem.phase = "VALIDATE" /\ UNCHANGED <<disk, prs, lost, deaths>>
  BY DEF PhaseValidate
<1>2. /\ mem \in State /\ Sound(mem) /\ mem.total < MaxGlobalIterations
      /\ disk \in State => Sound(disk) /\ disk.phase = mem.phase
  BY <1>1, AtHead
<1>3. reviewed' = reviewed /\ validated' \in BOOLEAN
  BY DEF PhaseValidate, LoopInv
<1>4. /\ reviewed' \in BOOLEAN /\ prs' \in Nat /\ prs' <= prs
      /\ disk \in State => Sound(disk)'
  BY <1>1, <1>2, <1>3 DEF LoopInv, Sound
<1>5. CASE Raised(mem)
  <2>1. mem' = Escalated(mem) /\ run' = "stop"
    BY <1>5 DEF Raised
  <2>2. mem' \in State /\ Sound(mem)' /\ mem'.phase # "DONE"
    BY <1>1, <1>2, <2>1, EscalatedFields DEF Sound, Counting, Reviews, Fixes
  <2> QED
    BY <1>1, <1>3, <1>4, <2>1, <2>2, Handled
<1>6. CASE Refused
  BY <1>1, <1>3, <1>4, <1>6, Stopped DEF Refused
<1>7. ASSUME NEW o \in DOMAIN Table["VALIDATE"], Apply(mem, o), validated' = (o = "passed")
      PROVE LoopInv'
  <2>1. \/ o = "passed" /\ Target(mem, o) = IF mem.val THEN "VAL_REVIEW" ELSE "SUBMIT_PR"
        \/ o = "failed" /\ Target(mem, o) = "VAL_FIX"
    BY <1>1, <1>2, <1>7, Outcomes, Targets
  <2>2. Target(mem, o) \in Phases
    BY <2>1 DEF Phases, Worked, Reviews, Fixes
  <2>3. /\ run' = "go" /\ mem' \in State /\ mem'.phase = Target(mem, o)
        /\ mem'.prev = mem.prev /\ mem'.iter = mem.iter /\ mem'.val = mem.val
    BY <1>2, <1>7, <2>2, Applied
  <2>4. Sound(mem)' /\ mem'.phase # "DONE"
    BY <1>1, <1>2, <1>7, <2>1, <2>3 DEF Sound, Counting, Reviews, Fixes
  <2> QED
    BY <1>1, <1>3, <1>4, <2>3, <2>4, Handled
<1> QED
  BY <1>5, <1>6, <1>7 DEF PhaseValidate

LEMMA ReviewKeeps ==
    ASSUME AutopilotAssumption, LoopInv, PhaseReview PROVE LoopInv'
<1>1. Looping /\ mem.phase \in Reviews /\ UNCHANGED <<disk, validated, prs, lost, deaths>>
  BY DEF PhaseReview
<1>2. /\ mem \in State /\ Sound(mem) /\ mem.total < MaxGlobalIterations
      /\ disk \in State => Sound(disk) /\ disk.phase = mem.phase
  BY <1>1, AtHead
<1>3. validated' \in BOOLEAN /\ prs' \in Nat /\ prs' <= prs
  BY <1>1 DEF LoopInv
<1>4. /\ reviewed' \in BOOLEAN /\ (reviewed => reviewed')
      /\ reviewed' = reviewed \/ reviewed' = (reviewed \/ mem.phase = "VAL_REVIEW")
  BY DEF PhaseReview, LoopInv
<1>5. disk \in State => Sound(disk)'
  BY <1>1, <1>2, <1>4 DEF Sound, Reviews
<1>6. ASSUME NEW k \in 0 .. MaxPhaseIterations, NEW o,
             Apply([mem EXCEPT !.iter = k], o),
             \/ o = "max_iter" /\ k = 0
             \/ o = "converged" /\ k = 0 /\ (reviewed' \/ mem.phase # "VAL_REVIEW")
             \/ o = "not_converged"
      PROVE LoopInv'
  <2>1. PICK s : s = [mem EXCEPT !.iter = k]
    OBVIOUS
  <2>2. /\ s \in State /\ s.phase = mem.phase /\ s.prev = mem.prev /\ s.iter = k
        /\ s.val = mem.val /\ s.total = mem.total
    BY <1>2, <2>1 DEF State
  <2>3. \/ Target(s, o) = "ESCALATE" /\ k = 0
        \/ Target(s, o) \in {"IMPLEMENT", "VALIDATE"} /\ k = 0 /\ mem.phase # "VAL_REVIEW"
        \/ Target(s, o) = "SUBMIT_PR" /\ k = 0 /\ mem.phase = "VAL_REVIEW" /\ reviewed'
        \/ Target(s, o) \in {"PLAN_FIX", "IMPL_FIX"} /\ mem.phase # "VAL_REVIEW"
        \/ Target(s, o) = "VAL_FIX" /\ mem.phase = "VAL_REVIEW"
    BY <1>1, <1>6, <2>2, LateTargets DEF Reviews
  <2>4. Target(s, o) \in Phases
    BY <2>3 DEF Phases, Worked, Reviews, Fixes
  <2>5. Apply(s, o)
    BY <1>6, <2>1
  <2>6. /\ run' = "go" /\ mem' \in State /\ mem'.phase = Target(s, o)
        /\ mem'.prev = mem.prev /\ mem'.iter = k /\ mem'.val = mem.val
    BY <1>2, <2>2, <2>4, <2>5, Applied
  <2>7. Sound(mem)' /\ mem'.phase # "DONE"
    BY <1>1, <1>2, <1>4, <2>3, <2>6 DEF Sound, Counting, Reviews, Fixes
  <2> QED
    BY <1>1, <1>3, <1>4, <1>5, <2>6, <2>7, Handled
<1>7. ASSUME NEW k \in 0 .. MaxPhaseIterations, Raised([mem EXCEPT !.iter = k])
      PROVE LoopInv'
  <2>1. PICK s : s = [mem EXCEPT !.iter = k]
    OBVIOUS
  <2>2. /\ s \in State /\ s.phase = mem.phase /\ s.prev = mem.prev /\ s.iter = k
        /\ s.val = mem.val
    BY <1>2, <2>1 DEF State
  <2>3. mem' = Escalated(s) /\ run' = "stop"
    BY <1>7, <2>1 DEF Raised
  <2>4. /\ mem' \in State /\ mem'.phase = "ESCALATE" /\ mem'.prev = mem.phase
        /\ mem'.iter = k /\ mem'.val = mem.val
    BY <2>2, <2>3, EscalatedFields
  <2>5. Sound(mem)' /\ mem'.phase # "DONE"
    BY <1>1, <1>2, <1>4, <2>4 DEF Sound, Counting, Reviews, Fixes
  <2> QED
    BY <1>1, <1>3, <1>4, <1>5, <2>3, <2>4, <2>5, Handled
<1>8. CASE mem.iter + 1 > MaxPhaseIterations
  <2>1. Apply([mem EXCEPT !.iter = 0], "max_iter") /\ 0 \in 0 .. MaxPhaseIterations
    BY <1>8 DEF PhaseReview, AutopilotAssumption
  <2> QED
    BY <1>6, <2>1
<1>9. CASE ~(mem.iter + 1 > MaxPhaseIterations)
  <2>1. 0 \in 0 .. MaxPhaseIterations /\ mem.iter + 1 \in 0 .. MaxPhaseIterations
    BY <1>2, <1>9 DEF State, AutopilotAssumption
  <2>2. CASE /\ Apply([mem EXCEPT !.iter = 0], "converged")
             /\ reviewed' = (reviewed \/ mem.phase = "VAL_REVIEW")
    BY <1>6, <2>1, <2>2
  <2>3. CASE Apply([mem EXCEPT !.iter = mem.iter + 1], "not_converged")
    BY <1>6, <2>1, <2>3
  <2>4. CASE Raised([mem EXCEPT !.iter = mem.iter + 1])
    BY <1>7, <2>1, <2>4
  <2> QED
    BY <1>9, <2>2, <2>3, <2>4 DEF PhaseReview
<1> QED
  BY <1>8, <1>9

LEMMA FixKeeps ==
    ASSUME AutopilotAssumption, LoopInv, PhaseFix PROVE LoopInv'
<1>1. /\ Looping /\ mem.phase \in Fixes /\ Apply(mem, "fixed")
      /\ UNCHANGED <<disk, validated, reviewed, prs, lost, deaths>>
  BY DEF PhaseFix
<1>2. /\ mem \in State /\ Sound(mem) /\ (disk \in State => Sound(disk))
      /\ mem.total < MaxGlobalIterations
  BY <1>1, AtHead
<1>3. /\ validated' \in BOOLEAN /\ reviewed' \in BOOLEAN /\ prs' \in Nat /\ prs' <= prs
      /\ disk \in State => Sound(disk)'
  BY <1>1, <1>2 DEF LoopInv, Sound
<1>4. \/ Target(mem, "fixed") \in {"PLAN_REVIEW", "IMPL_REVIEW"} /\ mem.phase # "VAL_FIX"
      \/ Target(mem, "fixed") = "VALIDATE" /\ mem.phase = "VAL_FIX"
  BY <1>1, <1>2, LateTargets DEF Fixes
<1>5. Target(mem, "fixed") \in Phases
  BY <1>4 DEF Phases, Worked, Reviews
<1>6. /\ run' = "go" /\ mem' \in State /\ mem'.phase = Target(mem, "fixed")
      /\ mem'.prev = mem.prev /\ mem'.iter = mem.iter /\ mem'.val = mem.val
  BY <1>1, <1>2, <1>5, Applied
<1>7. Sound(mem)' /\ mem'.phase # "DONE"
  BY <1>1, <1>2, <1>4, <1>6 DEF Sound, Counting, Reviews, Fixes
<1> QED
  BY <1>1, <1>3, <1>6, <1>7, Handled

LEMMA SubmitKeeps ==
    ASSUME AutopilotAssumption, LoopInv, PhaseSubmit PROVE LoopInv'
<1>1. /\ Looping /\ mem.phase = "SUBMIT_PR"
      /\ UNCHANGED <<disk, validated, reviewed, deaths>>
  BY DEF PhaseSubmit
<1>2. /\ mem \in State /\ Sound(mem) /\ (disk \in State => Sound(disk))
      /\ mem.total < MaxGlobalIterations
  BY <1>1, AtHead
<1>3. /\ validated' \in BOOLEAN /\ reviewed' \in BOOLEAN /\ prs \in Nat
      /\ disk \in State => Sound(disk)'
  BY <1>1, <1>2 DEF LoopInv, Sound
<1> DEFINE Opened == \/ UNCHANGED <<prs, lost>>
                     \/ lost < MaxFailures /\ prs' = prs + 1 /\ lost' = lost + 1
<1>4. CASE Raised(mem) /\ Opened
  <2>1. mem' = Escalated(mem) /\ run' = "stop"
    BY <1>4 DEF Raised
  <2>2. mem' \in State /\ Sound(mem)' /\ mem'.phase # "DONE"
    BY <1>1, <1>2, <2>1, EscalatedFields DEF Sound, Counting, Reviews, Fixes
  <2> QED
    BY <1>1, <1>3, <1>4, <2>1, <2>2, Handled
<1>5. CASE Refused /\ Opened
  BY <1>1, <1>3, <1>5, Stopped DEF Refused
<1>6. CASE Apply(mem, "created") /\ prs' = prs + 1 /\ lost' = lost
  <2>1. Target(mem, "created") = "DONE" /\ "DONE" \in Phases
    BY <1>1, <1>2, LateTargets DEF Phases
  <2>2. /\ run' = "go" /\ mem' \in State /\ mem'.phase = "DONE"
        /\ mem'.prev = mem.prev /\ mem'.iter = mem.iter /\ mem'.val = mem.val
    BY <1>2, <1>6, <2>1, Applied
  <2>3. Sound(mem)'
    BY <1>1, <1>2, <2>2 DEF Sound, Counting, Reviews, Fixes
  <2>4. prs' \in Nat /\ prs' <= prs + (IF mem'.phase = "DONE" THEN 1 ELSE 0)
    BY <1>3, <1>6, <2>2
  <2> QED
    BY <1>1, <1>3, <1>6, <2>2, <2>3, <2>4, Handled
<1> QED
  BY <1>4, <1>5, <1>6 DEF PhaseSubmit

LEMMA EscalateKeeps ==
    ASSUME AutopilotAssumption, LoopInv, PhaseEscalate PROVE LoopInv'
<1>1. /\ Looping /\ mem.phase = "ESCALATE"
      /\ UNCHANGED <<disk, validated, reviewed, prs, lost, deaths>>
  BY DEF PhaseEscalate
<1>2. /\ mem \in State /\ Sound(mem) /\ (disk \in State => Sound(disk))
      /\ mem.total < MaxGlobalIterations
  BY <1>1, AtHead
<1>3. /\ validated' \in BOOLEAN /\ reviewed' \in BOOLEAN /\ prs' \in Nat /\ prs' <= prs
      /\ disk \in State => Sound(disk)'
  BY <1>1, <1>2 DEF LoopInv, Sound
<1>4. CASE Raised(mem)
  <2>1. mem' = Escalated(mem) /\ run' = "stop"
    BY <1>4 DEF Raised
  <2>2. mem' \in State /\ Sound(mem)' /\ mem'.phase # "DONE"
    BY <1>1, <1>2, <2>1, EscalatedFields DEF Sound, Counting, Reviews, Fixes
  <2> QED
    BY <1>1, <1>3, <2>1, <2>2, Handled
<1>5. CASE mem' = mem /\ run' = "stop"
  <2>1. mem' \in State /\ Sound(mem)' /\ mem'.phase # "DONE"
    BY <1>1, <1>2, <1>5 DEF Sound
  <2> QED
    BY <1>1, <1>3, <1>5, <2>1, Handled
<1>6. CASE Apply(mem, "resolved")
  <2>1. Target(mem, "resolved") = mem.prev
    BY <1>1, <1>2, LateTargets
  <2>2. CASE mem.prev = "none"
    <3>1. mem' = Fresh /\ run' = "off"
      BY <1>6, <2>1, <2>2 DEF Apply
    <3> QED
      BY <1>1, <1>3, <3>1, Stopped
  <2>3. CASE mem.prev # "none"
    <3>1. mem.prev \in Phases
      BY <1>2, <2>3 DEF State
    <3>2. /\ run' = "go" /\ mem' \in State /\ mem'.phase = mem.prev
          /\ mem'.prev = mem.prev /\ mem'.iter = mem.iter /\ mem'.val = mem.val
      BY <1>2, <1>6, <2>1, <3>1, Applied
    <3>3. Sound(mem)' /\ mem'.phase # "DONE"
      BY <1>1, <1>2, <3>2 DEF Sound, Counting, Reviews, Fixes
    <3> QED
      BY <1>1, <1>3, <3>2, <3>3, Handled
  <2> QED
    BY <2>2, <2>3
<1> QED
  BY <1>4, <1>5, <1>6 DEF PhaseEscalate

-----------------------------------------------------------------------------
(* So do the steps of the loop around them.                                *)

LEMMA LaunchKeeps ==
    ASSUME AutopilotAssumption, LoopInv, NEW cli \in BOOLEAN, NEW force \in BOOLEAN,
           Launch(cli, force)
    PROVE LoopInv'
<1>1. /\ run = "off" /\ disk # Torn /\ run' = "head"
      /\ UNCHANGED <<disk, validated, reviewed, prs, lost, deaths>>
  BY DEF Launch
<1>2. PICK s : s = IF disk = Absent THEN Fresh ELSE disk
  OBVIOUS
<1>3. mem' = [s EXCEPT !.cli = cli, !.force = force]
  BY <1>2 DEF Launch
<1>4. s \in State
  BY <1>1, <1>2, FreshSound DEF LoopInv
<1>5. /\ mem' \in State /\ mem'.phase = s.phase /\ mem'.prev = s.prev
      /\ mem'.iter = s.iter /\ mem'.val = s.val
  BY <1>3, <1>4 DEF State
<1>6. disk = Absent => s.phase = "INIT" /\ s.prev = "none" /\ s.iter = 0 /\ s.val = FALSE
  BY <1>2 DEF Fresh
<1>7. disk # Absent => disk \in State /\ s = disk /\ Sound(disk)
  BY <1>1, <1>2 DEF LoopInv
<1>8. Sound(mem)'
  <2>1. CASE disk = Absent
    BY <1>5, <1>6, <2>1 DEF Sound, Counting, Reviews, Fixes
  <2>2. CASE disk # Absent
    BY <1>1, <1>5, <1>7, <2>2 DEF Sound
  <2> QED
    BY <2>1, <2>2
<1>9. disk \in State => Sound(disk)'
  BY <1>1 DEF LoopInv, Sound
<1>10. Synced' /\ (disk'.phase = "DONE" => mem'.phase = "DONE")
  <2>1. Absent.phase = "absent"
    BY DEF Absent, Fresh
  <2> QED
    BY <1>1, <1>5, <1>6, <1>7, <2>1 DEF Synced
<1>11. prs' <= lost' + (IF Published' THEN 1 ELSE 0)
  <2>1. Published => Published'
    BY <1>1 DEF Published
  <2> QED
    BY <1>1, <2>1 DEF LoopInv
<1> QED
  BY <1>1, <1>5, <1>8, <1>9, <1>10, <1>11 DEF LoopInv

LEMMA SaveKeeps ==
    ASSUME AutopilotAssumption, LoopInv, Save PROVE LoopInv'
<1>1. /\ run \in {"go", "stop"} /\ disk' = mem
      /\ UNCHANGED <<validated, reviewed, prs, lost, deaths>>
  BY DEF Save
<1>2. mem \in State /\ Sound(mem) /\ disk # Torn
  BY <1>1 DEF LoopInv
<1>3. \/ run' = "head" /\ mem' = mem
      \/ run' = "off" /\ mem' = Fresh
  BY DEF Save
<1>4. disk' \in State /\ Sound(disk)' /\ disk' # Torn
  BY <1>1, <1>2, FreshSound DEF Sound
<1>5. mem' \in State /\ (run' # "off" => Sound(mem)')
  BY <1>1, <1>2, <1>3, FreshSound DEF Sound
<1>6. Synced'
  BY <1>1, <1>3, <1>4 DEF Synced
<1>7. prs' <= lost' + (IF Published' THEN 1 ELSE 0)
  <2>1. Published => Published'
    BY <1>1, <1>2 DEF LoopInv, Published
  <2> QED
    BY <1>1, <2>1 DEF LoopInv
<1>8. run' # "off" /\ disk'.phase = "DONE" => mem'.phase = "DONE"
  BY <1>1, <1>3
<1> QED
  BY <1>1, <1>3, <1>4, <1>5, <1>6, <1>7, <1>8 DEF LoopInv

LEMMA FinishKeeps ==
    ASSUME AutopilotAssumption, LoopInv, Finish PROVE LoopInv'
<1>1. run = "head" /\ UNCHANGED <<disk, validated, reviewed, prs, lost, deaths>>
  BY DEF Finish
<1>2. \/ mem.phase = "DONE" /\ run' = "stop" /\ mem' = mem
      \/ run' = "off" /\ mem' = Fresh
  BY DEF Finish
<1>3. mem \in State /\ Sound(mem) /\ (disk \in State => Sound(disk)) /\ disk # Torn
  BY <1>1 DEF LoopInv
<1>4. /\ mem' \in State /\ (run' # "off" => Sound(mem)')
      /\ disk \in State => Sound(disk)'
  BY <1>1, <1>2, <1>3, FreshSound DEF Sound
<1>5. Synced' /\ (run' # "off" => mem'.phase = "DONE")
  BY <1>2 DEF Synced
<1>6. prs' <= lost' + (IF Published' THEN 1 ELSE 0)
  <2>1. Published => Published'
    <3>1. mem.phase = "DONE" => disk.phase = "DONE"
      <4>1. "DONE" # "INIT"
        OBVIOUS
      <4> QED
        BY <1>1, <4>1 DEF LoopInv, Synced
    <3> QED
      BY <1>1, <3>1 DEF Published
  <2> QED
    BY <1>1, <2>1 DEF LoopInv
<1> QED
  BY <1>1, <1>2, <1>3, <1>4, <1>5, <1>6 DEF LoopInv

LEMMA DieKeeps ==
    ASSUME AutopilotAssumption, LoopInv, Die PROVE LoopInv'
<1>1. /\ run # "off" /\ deaths < MaxDeaths /\ disk' \in {disk, Torn}
      /\ mem' = Fresh /\ run' = "off" /\ deaths' = deaths + 1
      /\ lost' = lost + (IF run # "head" /\ mem.phase = "DONE" /\ disk.phase # "DONE"
                         THEN 1 ELSE 0)
      /\ UNCHANGED <<validated, reviewed, prs>>
  BY DEF Die
<1>2. /\ lost' \in Nat /\ lost <= lost' /\ deaths' \in Nat
      /\ lost' <= MaxFailures + deaths'
      /\ deaths' <= MaxDeaths
  BY <1>1 DEF LoopInv, AutopilotAssumption
<1>3. /\ disk' \in State \cup {Absent, Torn}
      /\ disk' \in State => Sound(disk)'
  BY <1>1, FreshSound DEF LoopInv, Sound
<1>4. Synced' /\ mem' \in State
  BY <1>1, FreshSound DEF Synced
<1>5. prs' <= lost' + (IF Published' THEN 1 ELSE 0)
  <2>1. CASE disk.phase = "DONE" \/ ~Published
    <3>1. Published => Published'
      <4>1. disk' = disk \/ disk' = Torn
        BY <1>1
      <4> QED
        BY <2>1, <4>1 DEF Published
    <3> QED
      BY <1>1, <1>2, <3>1 DEF LoopInv
  <2>2. CASE disk.phase # "DONE" /\ Published
    <3>1. mem.phase = "DONE" /\ disk # Torn
      BY <1>1, <2>2 DEF LoopInv, Published
    <3>2. run # "head"
      <4>1. run = "head" => mem.phase = "INIT" \/ disk.phase = mem.phase
        BY DEF LoopInv, Synced
      <4> QED
        BY <2>2, <3>1, <4>1
    <3>3. lost' = lost + 1
      BY <1>1, <2>2, <3>1, <3>2
    <3> QED
      BY <1>1, <3>3 DEF LoopInv
  <2> QED
    BY <2>1, <2>2
<1> QED
  BY <1>1, <1>2, <1>3, <1>4, <1>5 DEF LoopInv

LEMMA LoopInductive ==
    ASSUME AutopilotAssumption, LoopInv, [Next]_vars PROVE LoopInv'
<1>1. ASSUME NEW cli \in BOOLEAN, NEW force \in BOOLEAN, Launch(cli, force) PROVE LoopInv'
  BY <1>1, LaunchKeeps
<1>2. CASE Phase
  BY <1>2, InitPhaseKeeps, GatekeeperKeeps, PlanKeeps, ImplementKeeps, ValidateKeeps,
     ReviewKeeps, FixKeeps, SubmitKeeps, EscalateKeeps DEF Phase
<1>3. CASE Save
  BY <1>3, SaveKeeps
<1>4. CASE Finish
  BY <1>4, FinishKeeps
<1>5. CASE Die
  BY <1>5, DieKeeps
<1>6. CASE UNCHANGED vars
  <2>1. (disk \in State => Sound(disk)') /\ (run # "off" => Sound(mem)')
    BY <1>6 DEF LoopInv, Sound, vars
  <2>2. Synced' /\ (Published' <=> Published)
    BY <1>6 DEF LoopInv, Synced, Published, vars
  <2> QED
    BY <1>6, <2>1, <2>2 DEF LoopInv, vars
<1> QED
  BY <1>1, <1>2, <1>3, <1>4, <1>5, <1>6 DEF Next

-----------------------------------------------------------------------------
THEOREM LoopSound == Spec => []LoopInv
<1>1. Init => LoopInv
  <2> SUFFICES ASSUME Init PROVE LoopInv
    OBVIOUS
  <2>1. /\ disk = Absent /\ mem = Fresh /\ run = "off"
        /\ validated = FALSE /\ reviewed = FALSE /\ prs = 0 /\ lost = 0 /\ deaths = 0
    BY DEF Init
  <2>2. mem \in State /\ disk \notin State /\ disk \in State \cup {Absent, Torn}
    BY <2>1, AutopilotAssumption, FreshSound
  <2>3. disk.phase = "absent"
    BY <2>1 DEF Absent, Fresh
  <2>4. validated \in BOOLEAN /\ reviewed \in BOOLEAN
    BY <2>1
  <2>5. prs <= lost + (IF Published THEN 1 ELSE 0)
    BY <2>1
  <2>6. lost <= MaxFailures + deaths /\ deaths <= MaxDeaths /\ prs \in Nat /\ lost \in Nat /\ deaths \in Nat
    BY <2>1, AutopilotAssumption DEF AutopilotAssumption
  <2> QED
    BY <2>1, <2>2, <2>3, <2>4, <2>5, <2>6 DEF LoopInv, Synced
<1>2. LoopInv /\ [Next]_vars => LoopInv'
  BY AutopilotAssumption, LoopInductive
<1> QED
  BY <1>1, <1>2, PTL DEF Spec

\* The loop's two states are well formed, through any deaths and resumes; and
\* at most one pull request is opened for each death and each failure of
\* submit_pr_fn after it opened one, and one more.
THEOREM AutopilotTyped == Spec => []AutopilotTypeOK
<1>1. LoopInv => AutopilotTypeOK
  BY AutopilotAssumption DEF LoopInv, AutopilotTypeOK, AutopilotAssumption
<1> QED
  BY <1>1, LoopSound, PTL

\* submit_pr_fn is called again only for a pull request that it opened and
\* failed to report, or whose saving was lost.
THEOREM DuplicatesOwed == Spec => []DuplicatesAccounted
<1>1. LoopInv => DuplicatesAccounted
  BY DEF LoopInv, DuplicatesAccounted
<1> QED
  BY <1>1, LoopSound, PTL

\* A review phase starts with its whole budget, though the three share it.
THEOREM BudgetsWhole == Spec => []ReviewBudgetWhole
<1>1. LoopInv => ReviewBudgetWhole
  <2>1. Fresh.iter = 0
    BY DEF Fresh
  <2> QED
    BY <2>1 DEF LoopInv, ReviewBudgetWhole, Sound, Counting
<1> QED
  BY <1>1, LoopSound, PTL

\* What is published was validated, and reviewed when that was asked for: the
\* invariant makes SUBMIT_PR's state Sound, and only its handler publishes.
THEOREM OnlyValidatedPublished == Spec => PublishesValidated
<1>1. LoopInv /\ [Next]_vars =>
         [prs' # prs => validated /\ (mem.val => reviewed)]_vars
  <2>1. SUFFICES ASSUME LoopInv, [Next]_vars, prs' # prs
                 PROVE validated /\ (mem.val => reviewed)
    OBVIOUS
  <2>2. PhaseSubmit
    BY <2>1 DEF Next, Phase, Launch, PhaseInit, PhaseGatekeeper, PhasePlan, PhaseImplement,
       PhaseValidate, PhaseReview, PhaseFix, PhaseEscalate, Save, Finish, Die, vars
  <2>3. run # "off" /\ mem.phase = "SUBMIT_PR"
    BY <2>2 DEF PhaseSubmit, Looping
  <2> QED
    BY <2>1, <2>3 DEF LoopInv, Sound
<1> QED
  BY <1>1, LoopSound, PTL DEF Spec, PublishesValidated

-----------------------------------------------------------------------------
(* How far the loop is from its return, at the most.  A transition counts   *)
(* as an iteration; an escalation by a handler or its exception does not,   *)
(* but it comes from another phase, and leaving it is a transition.         *)

Left(s) == 4 * (MaxGlobalIterations - s.total) + (IF s.phase = "ESCALATE" THEN 0 ELSE 2)

Distance ==
    CASE run = "off" -> 0
      [] run = "stop" -> 1
      [] run = "head" -> 2 + Left(mem)
      [] run = "go" -> 3 + Left(mem)

LEMMA LeftRange ==
    ASSUME NEW s \in State
    PROVE  Left(s) \in Nat /\ Left(s) <= 4 * MaxGlobalIterations + 2
<1>1. MaxGlobalIterations \in Nat /\ s.total \in 0 .. MaxGlobalIterations
  BY AutopilotAssumption DEF State, AutopilotAssumption
<1> QED
  BY <1>1 DEF Left

\* What a handler does to the state it was given, s, which may have had flags
\* and the counter set before.
LEMMA HandlerNearer ==
    ASSUME mem \in State, mem' \in State, Looping, NEW s \in State,
           s.phase = mem.phase, s.total = mem.total,
           \/ \E o : Apply(s, o)
           \/ s.phase # "ESCALATE" /\ Escalate(s)
           \/ Raised(s)
           \/ Refused
           \/ mem' = mem /\ run' = "stop"
    PROVE  Distance' < Distance
<1>1. run = "head" /\ Distance = 2 + Left(mem) /\ Left(mem) \in Nat
  BY LeftRange DEF Looping, Distance
<1>2. run' = "off" => Distance' = 0
  BY DEF Distance
<1>3. run' = "stop" => Distance' = 1
  BY DEF Distance
<1>4. run' = "go" => Distance' = 3 + Left(mem')
  BY DEF Distance, Left
<1>5. MaxGlobalIterations \in Nat /\ mem.total \in Nat
  BY AutopilotAssumption DEF State, AutopilotAssumption
<1>6. ASSUME NEW o, Apply(s, o) PROVE Distance' < Distance
  <2>1. CASE run' = "off"
    BY <2>1, <1>1, <1>2
  <2>2. CASE run' # "off"
    <3>1. run' = "go" /\ mem'.total = mem.total + 1
      <4>1. run' = "go" /\ mem' = [s EXCEPT !.phase = Target(s, o), !.total = @ + 1]
        BY <1>6, <2>2 DEF Apply
      <4> QED
        BY <4>1 DEF State
    <3>2. Left(mem') <= Left(mem) - 2
      BY <3>1, <1>5 DEF Left
    <3>3. Left(mem') \in Nat
      BY LeftRange
    <3> QED
      BY <3>1, <3>2, <3>3, <1>1, <1>4
  <2> QED
    BY <2>1, <2>2
<1>7. CASE s.phase # "ESCALATE" /\ Escalate(s)
  <2>1. run' = "go" /\ mem' = [s EXCEPT !.prev = s.phase, !.phase = "ESCALATE"]
    BY <1>7 DEF Escalate, Escalated
  <2>2. mem'.total = mem.total /\ mem'.phase = "ESCALATE"
    BY <2>1 DEF State
  <2>3. Left(mem') = Left(mem) - 2
    BY <2>2, <1>5, <1>7 DEF Left
  <2> QED
    BY <2>1, <2>3, <1>1, <1>4
<1>8. CASE Raised(s) \/ Refused \/ (mem' = mem /\ run' = "stop")
  BY <1>8, <1>1, <1>2, <1>3 DEF Raised, Refused
<1> QED
  BY <1>6, <1>7, <1>8

\* Every step of a running loop, and of its process's death, brings it nearer
\* to its return, over any phases, resolved escalations and flags: it takes at
\* most 4 * max_global_iterations + 5 steps, whatever the callbacks answer.
THEOREM LoopDescends ==
    Spec => /\ [](Distance \in 0 .. 4 * MaxGlobalIterations + 5)
            /\ [][run # "off" => Distance' < Distance]_vars
<1>1. LoopInv => Distance \in 0 .. 4 * MaxGlobalIterations + 5
  <2> SUFFICES ASSUME LoopInv PROVE Distance \in 0 .. 4 * MaxGlobalIterations + 5
    OBVIOUS
  <2>1. /\ Left(mem) \in Nat /\ Left(mem) <= 4 * MaxGlobalIterations + 2
        /\ run \in {"off", "head", "go", "stop"}
    BY LeftRange DEF LoopInv
  <2>2. MaxGlobalIterations \in Nat
    BY AutopilotAssumption DEF AutopilotAssumption
  <2> QED
    BY <2>1, <2>2 DEF Distance
<1>2. LoopInv /\ LoopInv' /\ [Next]_vars => [run # "off" => Distance' < Distance]_vars
  <2> SUFFICES ASSUME LoopInv, LoopInv', Next, run # "off" PROVE Distance' < Distance
    OBVIOUS
  <2>t. mem \in State /\ mem' \in State
    BY DEF LoopInv
  <2>s. \A b \in BOOLEAN : /\ [mem EXCEPT !.val = b] \in State
                           /\ [mem EXCEPT !.val = b].phase = mem.phase
                           /\ [mem EXCEPT !.val = b].total = mem.total
    BY <2>t DEF State
  <2>c. \A i \in 0 .. MaxPhaseIterations : /\ [mem EXCEPT !.iter = i] \in State
                                           /\ [mem EXCEPT !.iter = i].phase = mem.phase
                                           /\ [mem EXCEPT !.iter = i].total = mem.total
    BY <2>t DEF State
  <2>1. CASE PhaseInit
    <3>1. mem.val \in BOOLEAN
      BY <2>t DEF State
    <3> QED
      BY <2>1, <2>t, <2>s, <3>1, HandlerNearer DEF PhaseInit
  <2>2. CASE PhaseGatekeeper
    BY <2>2, <2>t, <2>s, HandlerNearer DEF PhaseGatekeeper
  <2>3. CASE PhasePlan \/ PhaseImplement \/ PhaseValidate \/ PhaseFix \/ PhaseSubmit
             \/ PhaseEscalate
    BY <2>3, <2>t, HandlerNearer
       DEF PhasePlan, PhaseImplement, PhaseValidate, PhaseFix, PhaseSubmit, PhaseEscalate
  <2>4. CASE PhaseReview
    <3>1. 0 \in 0 .. MaxPhaseIterations /\ mem.iter \in 0 .. MaxPhaseIterations
      BY <2>t, AutopilotAssumption DEF State, AutopilotAssumption
    <3>2. CASE mem.iter + 1 > MaxPhaseIterations
      BY <2>4, <3>1, <3>2, <2>t, <2>c, HandlerNearer DEF PhaseReview
    <3>3. CASE ~(mem.iter + 1 > MaxPhaseIterations)
      <4>1. mem.iter + 1 \in 0 .. MaxPhaseIterations
        BY <3>1, <3>3, AutopilotAssumption DEF AutopilotAssumption
      <4>2. /\ Looping
            /\ \/ Apply([mem EXCEPT !.iter = 0], "converged")
               \/ Apply([mem EXCEPT !.iter = @ + 1], "not_converged")
               \/ Raised([mem EXCEPT !.iter = @ + 1])
        BY <2>4, <3>3 DEF PhaseReview
      <4>3. [mem EXCEPT !.iter = @ + 1] = [mem EXCEPT !.iter = mem.iter + 1]
        OBVIOUS
      <4> QED
        BY <4>1, <4>2, <4>3, <3>1, <2>t, <2>c, HandlerNearer
    <3> QED
      BY <3>2, <3>3
  <2>5. Left(mem) \in Nat
    BY <2>t, LeftRange
  <2>6. CASE Save
    <3>1. /\ run \in {"go", "stop"}
          /\ \/ run = "go" /\ run' = "head" /\ mem' = mem
             \/ run = "stop" /\ run' = "off"
      BY <2>6 DEF Save
    <3>2. CASE run = "go" /\ run' = "head" /\ mem' = mem
      BY <3>2, <2>5 DEF Distance, Left
    <3>3. CASE run = "stop" /\ run' = "off"
      BY <3>3 DEF Distance
    <3> QED
      BY <3>1, <3>2, <3>3
  <2>7. CASE Finish
    <3>1. run = "head" /\ run' \in {"stop", "off"}
      BY <2>7 DEF Finish
    <3> QED
      BY <3>1, <2>5 DEF Distance
  <2>8. CASE Die
    <3>1. run \in {"head", "go", "stop"} /\ run' = "off"
      BY <2>8 DEF Die, LoopInv
    <3> QED
      BY <3>1, <2>5 DEF Distance
  <2> QED
    BY <2>1, <2>2, <2>3, <2>4, <2>6, <2>7, <2>8 DEF Next, Phase, Launch
<1> QED
  BY <1>1, <1>2, LoopSound, PTL DEF Spec
=============================================================================
