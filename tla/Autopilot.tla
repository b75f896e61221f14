----------------------------- MODULE Autopilot -----------------------------
(***************************************************************************)
(* The autopilot's phase machine (autopilot.py): run_loop drives a change  *)
(* from INIT to DONE, keeping its state in loop-state.json.                *)
(*                                                                         *)
(* An iteration is two steps: the phase's handler does its work and the    *)
(* loop's state changes in memory, then save_state writes the file.  The   *)
(* process may die between the two, and in the middle of a save, which     *)
(* truncates the file before it writes it.  What the callbacks do to the   *)
(* change is abstracted to three facts: whether the code passed VALIDATE   *)
(* since an implementing phase last worked on it, whether VAL_REVIEW then  *)
(* converged, and how many pull requests were opened.                      *)
(***************************************************************************)
EXTENDS Integers

CONSTANTS
    MaxPhaseIterations,     \* LoopState.max_phase_iterations
    MaxGlobalIterations,    \* run_loop's max_global_iterations
    MaxDeaths,              \* bound: process deaths considered
    MaxFailures             \* bound: pull requests that submit_pr_fn opens and
                            \* then raises, or returns what the table has not

ASSUME AutopilotAssumption ==
    /\ MaxPhaseIterations \in Nat /\ MaxGlobalIterations \in Nat /\ MaxDeaths \in Nat
    /\ MaxFailures \in Nat

VARIABLES
    disk,         \* loop-state.json
    mem,          \* the LoopState of the running process
    run,          \* "off"; "head" of the loop; about to save and "go" on or "stop"
    validated,    \* VALIDATE passed since the last implementing work
    reviewed,     \* and VAL_REVIEW converged since
    prs,          \* pull requests opened by submit_pr_fn
    lost,         \* history: those that submit_pr_fn failed to return, or a
                  \* death of the process kept from being saved
    deaths

vars == <<disk, mem, run, validated, reviewed, prs, lost, deaths>>

Worked == {"PLAN", "PLAN_ITERATE", "IMPLEMENT", "IMPL_ITERATE", "VALIDATE", "SUBMIT_PR"}
Reviews == {"PLAN_REVIEW", "IMPL_REVIEW", "VAL_REVIEW"}
Fixes == {"PLAN_FIX", "IMPL_FIX", "VAL_FIX"}
Phases == {"INIT", "GATEKEEPER", "ESCALATE", "DONE"} \cup Worked \cup Reviews \cup Fixes

State == [phase : Phases, prev : Phases \cup {"none"},
          iter : 0 .. MaxPhaseIterations, total : 0 .. MaxGlobalIterations,
          cli : BOOLEAN, force : BOOLEAN, val : BOOLEAN]
Fresh == [phase |-> "INIT", prev |-> "none", iter |-> 0, total |-> 0,
          cli |-> TRUE, force |-> FALSE, val |-> FALSE]

\* What the file may hold instead of a state: it does not exist, or it was
\* left truncated.  A phase no handler knows stands for both in State's shape.
Absent == [Fresh EXCEPT !.phase = "absent"]
Torn == [Fresh EXCEPT !.phase = "torn"]

-----------------------------------------------------------------------------
(* The transition table, and transition() on it.                           *)

Table == [
    INIT         |-> [next |-> "GATEKEEPER_OR_PLAN"],
    GATEKEEPER   |-> [proceed |-> "PLAN", proceed_with_review |-> "PLAN",
                      escalate |-> "ESCALATE"],
    PLAN         |-> [exists |-> "PLAN_ITERATE", created |-> "PLAN_ITERATE",
                      failed |-> "ESCALATE"],
    PLAN_ITERATE |-> [complete |-> "PLAN_REVIEW_OR_IMPLEMENT", failed |-> "ESCALATE"],
    PLAN_REVIEW  |-> [converged |-> "IMPLEMENT", not_converged |-> "PLAN_FIX",
                      max_iter |-> "ESCALATE"],
    PLAN_FIX     |-> [fixed |-> "PLAN_REVIEW", stuck |-> "ESCALATE"],
    IMPLEMENT    |-> [complete |-> "IMPL_ITERATE", failed |-> "ESCALATE"],
    IMPL_ITERATE |-> [complete |-> "IMPL_REVIEW_OR_VALIDATE", failed |-> "ESCALATE"],
    IMPL_REVIEW  |-> [converged |-> "VALIDATE", not_converged |-> "IMPL_FIX",
                      max_iter |-> "ESCALATE"],
    IMPL_FIX     |-> [fixed |-> "IMPL_REVIEW", stuck |-> "ESCALATE"],
    VALIDATE     |-> [passed |-> "VAL_REVIEW_OR_SUBMIT", failed |-> "VAL_FIX"],
    VAL_REVIEW   |-> [converged |-> "SUBMIT_PR", not_converged |-> "VAL_FIX",
                      max_iter |-> "ESCALATE"],
    VAL_FIX      |-> [fixed |-> "VALIDATE", stuck |-> "ESCALATE"],
    SUBMIT_PR    |-> [created |-> "DONE"],
    ESCALATE     |-> [resolved |-> "_previous_phase", abandoned |-> "DONE"]]

\* Mutant: validation passed, the review that was asked for is skipped.
TargetUnreviewed(s, outcome) ==
    LET t == Table[s.phase][outcome]
    IN  CASE t = "GATEKEEPER_OR_PLAN" -> IF s.force THEN "PLAN" ELSE "GATEKEEPER"
          [] t = "PLAN_REVIEW_OR_IMPLEMENT" -> IF s.cli THEN "PLAN_REVIEW" ELSE "IMPLEMENT"
          [] t = "IMPL_REVIEW_OR_VALIDATE" -> IF s.cli THEN "IMPL_REVIEW" ELSE "VALIDATE"
          [] t = "VAL_REVIEW_OR_SUBMIT" -> IF s.cli THEN "VAL_REVIEW" ELSE "SUBMIT_PR"
          [] t = "_previous_phase" -> s.prev
          [] OTHER -> t

Target(s, outcome) ==
    LET t == Table[s.phase][outcome]
    IN  CASE t = "GATEKEEPER_OR_PLAN" -> IF s.force THEN "PLAN" ELSE "GATEKEEPER"
          [] t = "PLAN_REVIEW_OR_IMPLEMENT" -> IF s.cli THEN "PLAN_REVIEW" ELSE "IMPLEMENT"
          [] t = "IMPL_REVIEW_OR_VALIDATE" -> IF s.cli THEN "IMPL_REVIEW" ELSE "VALIDATE"
          [] t = "VAL_REVIEW_OR_SUBMIT" -> IF s.val THEN "VAL_REVIEW" ELSE "SUBMIT_PR"
          [] t = "_previous_phase" -> s.prev
          [] OTHER -> t

\* Mutant: an escalation's resolution is not counted as an iteration.
ApplyUncounted(s, outcome) ==
    IF Target(s, outcome) = "none"
    THEN mem' = Fresh /\ run' = "off"
    ELSE /\ mem' = [s EXCEPT !.phase = Target(s, outcome),
                            !.total = @ + (IF s.phase = "ESCALATE" THEN 0 ELSE 1)]
         /\ run' = "go"

\* _apply_transition; the state is saved before the loop goes on.  Resolving an
\* escalation that recorded no phase raises, out of run_loop.
Apply(s, outcome) ==
    IF Target(s, outcome) = "none"
    THEN mem' = Fresh /\ run' = "off"
    ELSE /\ mem' = [s EXCEPT !.phase = Target(s, outcome), !.total = @ + 1]
         /\ run' = "go"

\* So does an outcome that the table does not have for the phase: nothing is saved.
Refused == mem' = Fresh /\ run' = "off"

Escalated(s) == [s EXCEPT !.prev = s.phase, !.phase = "ESCALATE"]

\* enter_escalate by a handler, and for an exception, after which the loop ends.
Escalate(s) == mem' = Escalated(s) /\ run' = "go"
Raised(s) == mem' = Escalated(s) /\ run' = "stop"

-----------------------------------------------------------------------------
Init ==
    /\ disk = Absent /\ mem = Fresh /\ run = "off"
    /\ validated = FALSE /\ reviewed = FALSE
    /\ prs = 0 /\ lost = 0 /\ deaths = 0

\* Mutant: a state file that does not parse is resumed.
LaunchAnyway(cli, force) ==
    /\ run = "off"
    /\ run' = "head"
    /\ mem' = [(IF disk = Absent THEN Fresh ELSE disk) EXCEPT !.cli = cli, !.force = force]
    /\ UNCHANGED <<disk, validated, reviewed, prs, lost, deaths>>

\* run_loop is called.  A file that does not parse makes it raise.
Launch(cli, force) ==
    /\ run = "off" /\ disk # Torn
    /\ run' = "head"
    /\ mem' = [(IF disk = Absent THEN Fresh ELSE disk) EXCEPT !.cli = cli, !.force = force]
    /\ UNCHANGED <<disk, validated, reviewed, prs, lost, deaths>>

Looping == run = "head" /\ mem.phase # "DONE" /\ mem.total < MaxGlobalIterations

\* The change as the implementing phases leave it, whatever they return.
Touched == validated' = FALSE /\ reviewed' = FALSE

\* _phase_init: the scope floor escalates, risk signals ask for a validation review.
PhaseInit ==
    /\ Looping /\ mem.phase = "INIT"
    /\ \/ ~mem.force /\ Escalate(mem)
       \/ \E risk \in BOOLEAN : Apply([mem EXCEPT !.val = @ \/ risk], "next")
       \/ Raised(mem)
    /\ UNCHANGED <<disk, validated, reviewed, prs, lost, deaths>>

\* _phase_gatekeeper; with no judge, the verdict is one of the first two.
PhaseGatekeeper ==
    /\ Looping /\ mem.phase = "GATEKEEPER"
    /\ \/ Apply(mem, "proceed")
       \/ Apply([mem EXCEPT !.val = TRUE], "proceed_with_review")
       \/ Escalate(mem)
       \/ Raised(mem)
    /\ UNCHANGED <<disk, validated, reviewed, prs, lost, deaths>>

\* The phases whose callback may return anything: "refused" is any outcome that
\* the table does not have.
PhasePlan ==
    /\ Looping /\ mem.phase \in {"PLAN", "PLAN_ITERATE"}
    /\ \/ \E o \in DOMAIN Table[mem.phase] : Apply(mem, o)
       \/ Refused
       \/ Raised(mem)
    /\ UNCHANGED <<disk, validated, reviewed, prs, lost, deaths>>

PhaseImplement ==
    /\ Looping /\ mem.phase \in {"IMPLEMENT", "IMPL_ITERATE"}
    /\ \/ \E o \in DOMAIN Table[mem.phase] : Apply(mem, o)
       \/ Refused
       \/ Raised(mem)
    /\ Touched
    /\ UNCHANGED <<disk, prs, lost, deaths>>

PhaseValidate ==
    /\ Looping /\ mem.phase = "VALIDATE"
    /\ \/ /\ \E o \in DOMAIN Table["VALIDATE"] :
                Apply(mem, o) /\ validated' = (o = "passed")
          /\ UNCHANGED reviewed
       \/ (Refused \/ Raised(mem)) /\ UNCHANGED <<validated, reviewed>>
    /\ UNCHANGED <<disk, prs, lost, deaths>>

\* Mutant: convergence leaves the counter as it is.
PhaseReviewNoReset ==
    /\ Looping /\ mem.phase \in Reviews
    /\ IF mem.iter + 1 > MaxPhaseIterations
       THEN Apply([mem EXCEPT !.iter = 0], "max_iter") /\ UNCHANGED reviewed
       ELSE \/ /\ Apply([mem EXCEPT !.iter = @ + 1], "converged")
               /\ reviewed' = (reviewed \/ mem.phase = "VAL_REVIEW")
            \/ /\ \/ Apply([mem EXCEPT !.iter = @ + 1], "not_converged")
                  \/ Raised([mem EXCEPT !.iter = @ + 1])
               /\ UNCHANGED reviewed
    /\ UNCHANGED <<disk, validated, prs, lost, deaths>>

\* _phase_review: one counter for the three review phases.  The convergence
\* loop is called without a fix_callback, so a review changes no code.
PhaseReview ==
    /\ Looping /\ mem.phase \in Reviews
    /\ IF mem.iter + 1 > MaxPhaseIterations
       THEN Apply([mem EXCEPT !.iter = 0], "max_iter") /\ UNCHANGED reviewed
       ELSE \/ /\ Apply([mem EXCEPT !.iter = 0], "converged")
               /\ reviewed' = (reviewed \/ mem.phase = "VAL_REVIEW")
            \/ /\ \/ Apply([mem EXCEPT !.iter = @ + 1], "not_converged")
                  \/ Raised([mem EXCEPT !.iter = @ + 1])
               /\ UNCHANGED reviewed
    /\ UNCHANGED <<disk, validated, prs, lost, deaths>>

\* The fix phases do nothing: the loop is expected to have fixed inline.
PhaseFix ==
    /\ Looping /\ mem.phase \in Fixes
    /\ Apply(mem, "fixed")
    /\ UNCHANGED <<disk, validated, reviewed, prs, lost, deaths>>

\* submit_pr_fn may have opened the pull request before it fails; the phase is
\* then run again once the escalation is resolved.
PhaseSubmit ==
    /\ Looping /\ mem.phase = "SUBMIT_PR"
    /\ \/ Apply(mem, "created") /\ prs' = prs + 1 /\ lost' = lost
       \/ /\ Refused \/ Raised(mem)
          /\ \/ lost < MaxFailures /\ prs' = prs + 1 /\ lost' = lost + 1
             \/ UNCHANGED <<prs, lost>>
    /\ UNCHANGED <<disk, validated, reviewed, deaths>>

\* _phase_escalate: resolved, or the loop saves and stops.
PhaseEscalate ==
    /\ Looping /\ mem.phase = "ESCALATE"
    /\ \/ Apply(mem, "resolved")
       \/ mem' = mem /\ run' = "stop"
       \/ Raised(mem)
    /\ UNCHANGED <<disk, validated, reviewed, prs, lost, deaths>>

Phase == PhaseInit \/ PhaseGatekeeper \/ PhasePlan \/ PhaseImplement \/ PhaseValidate
            \/ PhaseReview \/ PhaseFix \/ PhaseSubmit \/ PhaseEscalate

\* Mutant: the state is saved only when the loop stops.
SaveLast ==
    /\ run \in {"go", "stop"}
    /\ disk' = (IF run = "stop" THEN mem ELSE disk)
    /\ IF run = "go" THEN run' = "head" /\ mem' = mem
                     ELSE run' = "off" /\ mem' = Fresh
    /\ UNCHANGED <<validated, reviewed, prs, lost, deaths>>

Save ==
    /\ run \in {"go", "stop"}
    /\ disk' = mem
    /\ IF run = "go" THEN run' = "head" /\ mem' = mem
                     ELSE run' = "off" /\ mem' = Fresh
    /\ UNCHANGED <<validated, reviewed, prs, lost, deaths>>

\* The loop is over; a change that is done has a last memory saved.
Finish ==
    /\ run = "head" /\ ~Looping
    /\ \/ mem.phase = "DONE" /\ run' = "stop" /\ mem' = mem
       \/ run' = "off" /\ mem' = Fresh
    /\ UNCHANGED <<disk, validated, reviewed, prs, lost, deaths>>

\* The process dies, or handoff_fn raises between a transition and its save.
\* Dying within a save leaves the file truncated.
Die ==
    /\ run # "off" /\ deaths < MaxDeaths
    /\ disk' \in {disk} \cup {t \in {Torn} : run \in {"go", "stop"}}
    /\ mem' = Fresh /\ run' = "off" /\ deaths' = deaths + 1
    /\ lost' = lost + (IF run # "head" /\ mem.phase = "DONE" /\ disk.phase # "DONE"
                       THEN 1 ELSE 0)
    /\ UNCHANGED <<validated, reviewed, prs>>

Next ==
    \/ \E cli, force \in BOOLEAN : Launch(cli, force)
    \/ Phase
    \/ Save
    \/ Finish
    \/ Die

Spec == Init /\ [][Next]_vars

\* A process that runs goes on: its callbacks return or raise.
FairSpec == Spec /\ WF_vars(Phase) /\ WF_vars(Save) /\ WF_vars(Finish)

-----------------------------------------------------------------------------
\* Every variable has its type, and there are no more pull requests and losses
\* than the deaths and the failures allow.
AutopilotTypeOK ==
    /\ disk \in State \cup {Absent, Torn} /\ mem \in State
    /\ run \in {"off", "head", "go", "stop"}
    /\ validated \in BOOLEAN /\ reviewed \in BOOLEAN
    /\ prs \in 0 .. MaxFailures + MaxDeaths + 1 /\ lost \in 0 .. MaxFailures + MaxDeaths
    /\ deaths \in 0 .. MaxDeaths

\* A pull request is opened only for code that VALIDATE passed after the last
\* implementing work on it, and that VAL_REVIEW then approved when a risk signal
\* or the judge had asked for it: through any deaths, resumes, escalations that
\* lead back to an older phase, and changes of the flags between runs.
PublishesValidated ==
    [][prs' # prs => validated /\ (mem.val => reviewed)]_vars

\* Every pull request beyond the first is owed to one of which the loop never
\* learned, or could not save that it was opened: a pull request whose opening
\* was reported and saved is never followed by another, through deaths, torn
\* files, resumes and escalations that lead back to SUBMIT_PR.
DuplicatesAccounted == prs <= 1 + lost

\* The review phases share one counter, and yet each starts with all of its
\* max_phase_iterations: outside a review and its fixes nothing is used up.
ReviewBudgetWhole ==
    mem.phase \notin Reviews \cup Fixes \cup {"VALIDATE", "ESCALATE"} => mem.iter = 0

\* run_loop returns: its cap on iterations ends every cycle of the machine, the
\* ones through VAL_FIX and through an escalation that is resolved each time.
LoopEnds == run # "off" ~> run = "off"
=============================================================================
