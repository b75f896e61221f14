---------------------------- MODULE IndexCatalog ----------------------------
(***************************************************************************)
(* What the index registry promises to who queries and who builds, with no *)
(* leases, workers, collections or tables: an index serves the attempt     *)
(* that was begun last or nothing, one that serves is not built again, and *)
(* it is withdrawn only while the canonical pointer and everything that    *)
(* was built incrementally point elsewhere.                                *)
(***************************************************************************)
EXTENDS Naturals

CONSTANTS Indexes, Main, Ancestor, NoIndex

VARIABLES
    building,  \* is an attempt under way
    begun,     \* how many attempts there were
    serving,   \* the attempt that queries see, 0 if there is none
    base,      \* what the index was last built on
    canon      \* the canonical index

vars == <<building, begun, serving, base, canon>>

Init ==
    /\ building = [i \in Indexes |-> FALSE]
    /\ begun = [i \in Indexes |-> 0]
    /\ serving = [i \in Indexes |-> 0]
    /\ base = [i \in Indexes |-> NoIndex]
    /\ canon = NoIndex

\* An attempt that nobody keeps alive is followed by another.
Begin(i) ==
    /\ serving[i] = 0
    /\ begun' = [begun EXCEPT ![i] = @ + 1]
    /\ building' = [building EXCEPT ![i] = TRUE]
    /\ UNCHANGED <<serving, base, canon>>

BuildOn(i, p) ==
    /\ building[i] /\ serving[p] # 0 /\ <<p, i>> \in Ancestor
    /\ base' = [base EXCEPT ![i] = p]
    /\ UNCHANGED <<building, begun, serving, canon>>

Serve(i) ==
    /\ building[i]
    /\ serving' = [serving EXCEPT ![i] = begun[i]]
    /\ building' = [building EXCEPT ![i] = FALSE]
    /\ UNCHANGED <<begun, base, canon>>

GiveUp(i) ==
    /\ building[i]
    /\ building' = [building EXCEPT ![i] = FALSE]
    /\ UNCHANGED <<begun, serving, base, canon>>

Point(i) ==
    /\ i \in Main /\ serving[i] # 0
    /\ canon' = i
    /\ UNCHANGED <<building, begun, serving, base>>

Withdraw(i) ==
    /\ i \notin Main /\ canon # i
    /\ serving[i] # 0 /\ \A k \in Indexes : base[k] # i
    /\ serving' = [serving EXCEPT ![i] = 0]
    /\ UNCHANGED <<building, begun, base, canon>>

Next ==
    \E i \in Indexes :
       \/ Begin(i) \/ Serve(i) \/ GiveUp(i) \/ Point(i) \/ Withdraw(i)
       \/ \E p \in Indexes : BuildOn(i, p)

Spec == Init /\ [][Next]_vars
=============================================================================
