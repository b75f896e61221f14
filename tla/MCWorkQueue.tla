---------------------------- MODULE MCWorkQueue ----------------------------
(***************************************************************************)
(* Instances of WorkQueue: w1 is a worker of agent a1, w3 of a2.  The      *)
(* guardrails refuse a2 the test job that a1 may submit and run.  a1       *)
(* submitted the review job, and it is the only one whom it suits.         *)
(***************************************************************************)
EXTENDS WorkQueue, TLC

CONSTANTS a1, a2, w1, w3

MCAgentOf == w1 :> a1 @@ w3 :> a2

TestJob == [type |-> "test", priority |-> 5, by |-> Nobody]
ReviewJob == [type |-> "review", priority |-> 5, by |-> a1]
UrgentIssue == [type |-> "issue", priority |-> 1, by |-> Nobody]

MCJobs == {TestJob}
MCRankedJobs == {ReviewJob, UrgentIssue}
MCFilters == {NoFilter, {"test", "review"}}
MCBlocked == {<<a2, TestJob>>}
MCNoneBlocked == {}
MCSuited == Agents \X Jobs
MCSuitedOne == {<<a1, ReviewJob>>, <<a1, UrgentIssue>>, <<a2, UrgentIssue>>}

TaskSymmetry == Permutations(Tasks)
=============================================================================
