------------------------------ MODULE LeaseLock ------------------------------
(***************************************************************************)
(* What the lock service promises, with no rows, sweeps, transactions or   *)
(* sessions: at any time a key is free or owned by one agent for some more *)
(* time.  A free key may be granted; an owned key may only be granted anew *)
(* to its owner.  An owner loses a key when its time is up, or when the    *)
(* key is given up or revoked, perhaps together with others.               *)
(***************************************************************************)
EXTENDS Integers

CONSTANTS Agents, Keys, MaxTTL, NoAgent

VARIABLES
    owner,  \* [Keys -> Agents \cup {NoAgent}]
    time    \* [Keys -> 0 .. MaxTTL]: how much longer the owner has the key

Init ==
    /\ owner = [k \in Keys |-> NoAgent]
    /\ time = [k \in Keys |-> 0]

Grant(a, k, t) ==
    /\ owner[k] \in {a, NoAgent}
    /\ owner' = [owner EXCEPT ![k] = a]
    /\ time' = [time EXCEPT ![k] = t]

\* Keys are released, cut short by their owner, or revoked.
Free(K) ==
    /\ owner' = [k \in Keys |-> IF k \in K THEN NoAgent ELSE owner[k]]
    /\ time' = [k \in Keys |-> IF k \in K THEN 0 ELSE time[k]]

Pass ==
    /\ owner' = [k \in Keys |-> IF time[k] > 1 THEN owner[k] ELSE NoAgent]
    /\ time' = [k \in Keys |-> IF time[k] > 1 THEN time[k] - 1 ELSE 0]

Next ==
    \/ \E a \in Agents, k \in Keys, t \in 1 .. MaxTTL : Grant(a, k, t)
    \/ \E K \in SUBSET Keys : Free(K)
    \/ Pass

Spec == Init /\ [][Next]_<<owner, time>>
=============================================================================
