------------------------- MODULE MergeQueueProofs -------------------------
(***************************************************************************)
(* Rival features are never both ready, for any features, claims and       *)
(* number of requests.                                                     *)
(***************************************************************************)
EXTENDS MergeQueue, FiniteSetTheorems, TLAPS

\* A check has passed f, and its verdict is written or about to be.
Cleared(f) ==
    \/ mq[f].status = "ready"
    \/ \E c \in Calls : f \in call[c].saves /\ call[c].put[f].status = "ready"

\* What a check has loaded of an active feature is still so, unless the
\* feature was amended.
LoadedHolds ==
    \A c \in Calls : call[c].fit =>
        /\ reg[call[c].of] # "absent"
        /\ ~amended[call[c].of] => call[c].needs = claims[call[c].of]

ClearedRegistered == \A f \in Features : Cleared(f) => reg[f] # "absent"

RivalsNotCleared ==
    \A f, g \in Features :
        /\ f # g /\ Rivals(f, g) /\ reg[f] = "active" /\ reg[g] = "active"
        /\ ~amended[f] /\ ~amended[g]
        => ~(Cleared(f) /\ Cleared(g))

GateInv == MergeQueueTypeOK /\ LoadedHolds /\ ClearedRegistered /\ RivalsNotCleared

-----------------------------------------------------------------------------
(* Types.                                                                  *)

LEMMA BlobsTyped == NoEntry \in Blob /\ Queued \in Blob /\ NoBlobs \in [Features -> Blob]
                    /\ Idle \in CallState
<1>1. NoEntry \in Blob /\ Queued \in Blob
  BY MergeQueueAssumption DEF NoEntry, Queued, Blob
<1>2. NoBlobs \in [Features -> Blob]
  BY <1>1 DEF NoBlobs
<1>3. Somebody \in Features
  BY MergeQueueAssumption DEF Somebody
<1> QED
  BY <1>1, <1>2, <1>3 DEF Idle, CallState, Ops

LEMMA OnlyTyped == ASSUME NEW f \in Features, NEW b \in Blob
                   PROVE Only(f, b) \in [Features -> Blob]
                         /\ \A g \in Features : Only(f, b)[g] = IF g = f THEN b ELSE NoEntry
  BY BlobsTyped DEF Only, NoBlobs

LEMMA OneChanged == ASSUME NEW S, NEW T, NEW g \in [S -> T], NEW c \in S, NEW t \in T
                    PROVE  [g EXCEPT ![c] = t] \in [S -> T]
  OBVIOUS

\* What a request may become by the two ways of changing it.
LEMMA StartsTyped ==
    ASSUME MergeQueueTypeOK, NEW c \in Calls, NEW op \in Ops, NEW f \in Features,
           NEW S \in SUBSET Features, NEW put \in [Features -> Blob],
           Starts(c, op, f, S, put)
    PROVE  call' \in [Calls -> CallState]
<1>1. [Idle EXCEPT !.op = op, !.at = "loaded", !.of = f, !.saves = S, !.put = put] \in CallState
  BY BlobsTyped DEF CallState, Idle
<1> DEFINE s == [Idle EXCEPT !.op = op, !.at = "loaded", !.of = f, !.saves = S, !.put = put]
<1>2. call' = [call EXCEPT ![c] = s] /\ s \in CallState
  BY <1>1 DEF Starts
<1>3. call \in [Calls -> CallState]
  BY DEF MergeQueueTypeOK
<1> HIDE DEF s
<1> QED
  BY <1>2, <1>3, OneChanged

LEMMA GoesTyped ==
    ASSUME MergeQueueTypeOK, NEW c \in Calls, NEW S \in SUBSET Features, Goes(c, S)
    PROVE  call' \in [Calls -> CallState]
<1>1. [call[c] EXCEPT !.at = "saving", !.saves = S] \in CallState
  BY DEF MergeQueueTypeOK, CallState
<1> QED
  BY <1>1, BlobsTyped DEF MergeQueueTypeOK, Goes

LEMMA EnqueueTyped ==
    ASSUME MergeQueueTypeOK, NEW c \in Calls, NEW f \in Features, Enqueue(c, f)
    PROVE  MergeQueueTypeOK'
<1>1. call' \in [Calls -> CallState]
  BY StartsTyped, OnlyTyped, BlobsTyped DEF Enqueue, Ops
<1> QED
  BY <1>1 DEF Enqueue, MergeQueueTypeOK

LEMMA RemoveTyped ==
    ASSUME MergeQueueTypeOK, NEW c \in Calls, NEW f \in Features, RemoveFromQueue(c, f)
    PROVE  MergeQueueTypeOK'
<1>1. call' \in [Calls -> CallState]
  BY StartsTyped, BlobsTyped DEF RemoveFromQueue, Ops
<1> QED
  BY <1>1 DEF RemoveFromQueue, MergeQueueTypeOK

LEMMA CheckTyped ==
    ASSUME MergeQueueTypeOK, NEW c \in Calls, NEW f \in Features, Check(c, f)
    PROVE  MergeQueueTypeOK'
<1>1. [Idle EXCEPT !.op = "check", !.at = "loaded", !.of = f, !.old = mq[f],
                   !.fit = (reg[f] = "active"), !.needs = claims[f]] \in CallState
  BY BlobsTyped DEF CallState, Idle, MergeQueueTypeOK, Ops
<1> QED
  BY <1>1 DEF Check, MergeQueueTypeOK

LEMMA CheckConflictsTyped ==
    ASSUME MergeQueueTypeOK, NEW c \in Calls, CheckConflicts(c)
    PROVE  MergeQueueTypeOK'
<1> DEFINE f == call[c].of
<1>1. call[c] \in CallState /\ f \in Features /\ call[c].old \in Blob
  BY DEF MergeQueueTypeOK, CallState
<1>2. \A v \in {"ready", "blocked"} : [call[c].old EXCEPT !.status = v] \in Blob
  BY <1>1 DEF Blob
<1>3. \A b \in Blob : [call[c] EXCEPT !.at = "saving", !.saves = {f}, !.put = Only(f, b)] \in CallState
  BY <1>1, OnlyTyped DEF CallState
<1>4. call' \in [Calls -> CallState]
  BY <1>2, <1>3, BlobsTyped DEF CheckConflicts, MergeQueueTypeOK
<1> QED
  BY <1>4 DEF CheckConflicts, MergeQueueTypeOK

LEMMA ComposeTyped ==
    ASSUME MergeQueueTypeOK, NEW c \in Calls, NEW aged \in SUBSET Features,
           NEW conflicting \in SUBSET Features, Compose(c, aged, conflicting)
    PROVE  MergeQueueTypeOK'
<1> DEFINE skipped == {f \in Loaded : \/ mq[f].status = "abandoned"
                                      \/ mq[f].status = "blocked" /\ f \notin aged}
           made(f) == IF f \in conflicting THEN "blocked" ELSE "speculating"
           put == [g \in Features |-> IF g \in Loaded \ skipped
                                   THEN [mq[g] EXCEPT !.status = made(g)]
                                   ELSE IF g \in Loaded THEN mq[g] ELSE NoEntry]
<1>1. \A g \in Features : [mq[g] EXCEPT !.status = made(g)] \in Blob /\ mq[g] \in Blob
  BY DEF MergeQueueTypeOK, Blob
<1>2. put \in [Features -> Blob]
  BY <1>1, BlobsTyped
<1>3. Loaded \in SUBSET Features /\ "compose" \in Ops /\ Somebody \in Features
  BY MergeQueueAssumption DEF Loaded, Ops, Somebody
<1>4. Starts(c, "compose", Somebody, Loaded, put)
  BY DEF Compose
<1>5. call' \in [Calls -> CallState]
  BY <1>2, <1>3, <1>4, StartsTyped
<1> QED
  BY <1>5 DEF Compose, MergeQueueTypeOK

LEMMA ReportTyped ==
    ASSUME MergeQueueTypeOK, NEW c \in Calls, NEW f \in Features,
           NEW v \in {"spec_passed", "blocked"}, Report(c, f, v)
    PROVE  MergeQueueTypeOK'
<1>1. [mq[f] EXCEPT !.status = v] \in Blob
  BY DEF MergeQueueTypeOK, Blob
<1>2. call' \in [Calls -> CallState]
  <2>1. Only(f, [mq[f] EXCEPT !.status = v]) \in [Features -> Blob]
    BY <1>1, OnlyTyped
  <2>2. Starts(c, "report", f, {f}, Only(f, [mq[f] EXCEPT !.status = v]))
    BY DEF Report
  <2> QED
    BY <2>1, <2>2, StartsTyped DEF Ops
<1>3. UNCHANGED <<reg, claims, mq, amended>>
  BY DEF Report
<1> QED
  BY <1>2, <1>3 DEF MergeQueueTypeOK

LEMMA EjectTyped ==
    ASSUME MergeQueueTypeOK, NEW c \in Calls, NEW f \in Features,
           NEW requeued \in SUBSET Features, Eject(c, f, requeued)
    PROVE  MergeQueueTypeOK'
<1> DEFINE n == IF mq[f].ejects < MAX_EJECT_COUNT THEN mq[f].ejects + 1
                ELSE MAX_EJECT_COUNT
           ejected == [status |-> IF n >= MAX_EJECT_COUNT THEN "abandoned" ELSE "ejected",
                       ejects |-> n]
           put == [g \in Features |-> IF g = f THEN ejected
                                   ELSE IF g \in requeued
                                   THEN [mq[g] EXCEPT !.status = "queued"] ELSE NoEntry]
<1>1. ejected \in Blob
  BY MergeQueueAssumption DEF MergeQueueTypeOK, Blob, Eject
<1>2. \A g \in Features : [mq[g] EXCEPT !.status = "queued"] \in Blob
  BY DEF MergeQueueTypeOK, Blob
<1>3. put \in [Features -> Blob]
  BY <1>1, <1>2, BlobsTyped
<1>4. Starts(c, "eject", f, {f} \cup requeued, put)
  BY DEF Eject
<1>5. call' \in [Calls -> CallState]
  BY <1>3, <1>4, StartsTyped DEF Ops
<1> QED
  BY <1>5 DEF Eject, MergeQueueTypeOK

LEMMA SavesTyped ==
    ASSUME MergeQueueTypeOK, NEW c \in Calls,
           \/ \E f \in Features : Save(c, f)
           \/ SaveRefused(c) \/ Reread(c)
    PROVE  MergeQueueTypeOK'
<1>1. call[c].saves \in SUBSET Features /\ call[c].put \in [Features -> Blob]
  BY DEF MergeQueueTypeOK, CallState
<1>2. ASSUME NEW f \in Features, Save(c, f)
      PROVE  MergeQueueTypeOK'
  <2>1. call' \in [Calls -> CallState]
    BY <1>1, <1>2, GoesTyped DEF Save
  <2> QED
    BY <1>1, <1>2, <2>1 DEF Save, MergeQueueTypeOK
<1>3. CASE SaveRefused(c)
  BY <1>3, GoesTyped DEF SaveRefused, MergeQueueTypeOK
<1>4. CASE Reread(c)
  <2>1. {f \in call[c].saves : reg[f] = "active"} \in SUBSET Features
    BY <1>1
  <2>2. call' \in [Calls -> CallState]
    BY <1>4, <2>1, GoesTyped DEF Reread
  <2> QED
    BY <1>4, <2>2 DEF Reread, MergeQueueTypeOK
<1> QED
  BY <1>2, <1>3, <1>4

LEMMA RegistryTyped ==
    ASSUME MergeQueueTypeOK, NEW f \in Features,
           (\E cl \in ClaimChoices[f] : Register(f, cl)) \/ Deregister(f)
    PROVE  MergeQueueTypeOK'
<1>1. ASSUME NEW cl \in ClaimChoices[f], Register(f, cl)
      PROVE  MergeQueueTypeOK'
  <2>1. cl \in SUBSET Keys
    BY MergeQueueAssumption
  <2>2. amended' \in [Features -> BOOLEAN]
    BY <1>1 DEF Register, MergeQueueTypeOK
  <2> QED
    BY <1>1, <2>1, <2>2 DEF Register, MergeQueueTypeOK
<1>2. CASE Deregister(f)
  BY <1>2 DEF Deregister, MergeQueueTypeOK
<1> QED
  BY <1>1, <1>2

LEMMA MergeQueueTypeInductive ==
    ASSUME MergeQueueTypeOK, [Next]_vars PROVE MergeQueueTypeOK'
<1>1. ASSUME NEW f \in Features, NEW cl \in ClaimChoices[f], Register(f, cl)
      PROVE MergeQueueTypeOK'
  BY <1>1, RegistryTyped
<1>2. ASSUME NEW f \in Features, Deregister(f) PROVE MergeQueueTypeOK'
  BY <1>2, RegistryTyped
<1>3. ASSUME NEW c \in Calls, NEW f \in Features,
             Enqueue(c, f) \/ RemoveFromQueue(c, f) \/ Check(c, f)
      PROVE MergeQueueTypeOK'
  BY <1>3, EnqueueTyped, RemoveTyped, CheckTyped
<1>4. ASSUME NEW c \in Calls, NEW f \in Features, NEW v \in {"spec_passed", "blocked"}, Report(c, f, v)
      PROVE MergeQueueTypeOK'
  BY <1>4, ReportTyped
<1>5. ASSUME NEW c \in Calls, NEW f \in Features, NEW requeued \in SUBSET Features, Eject(c, f, requeued)
      PROVE MergeQueueTypeOK'
  BY <1>5, EjectTyped
<1>6. ASSUME NEW c \in Calls, NEW f \in Features, Save(c, f) PROVE MergeQueueTypeOK'
  BY <1>6, SavesTyped
<1>7. ASSUME NEW c \in Calls, CheckConflicts(c) \/ Reread(c) \/ SaveRefused(c)
      PROVE MergeQueueTypeOK'
  BY <1>7, SavesTyped, CheckConflictsTyped
<1>8. ASSUME NEW c \in Calls, NEW aged \in SUBSET Features, NEW conflicting \in SUBSET Features,
             Compose(c, aged, conflicting)
      PROVE MergeQueueTypeOK'
  BY <1>8, ComposeTyped
<1>9. CASE UNCHANGED vars
  BY <1>9 DEF vars, MergeQueueTypeOK
<1> QED
  BY <1>1, <1>2, <1>3, <1>4, <1>5, <1>6, <1>7, <1>8, <1>9 DEF Next

\* The registry's rows, the queue's entries and the requests keep their types
\* through every interleaving of calls.
THEOREM MergeQueueTyped == Spec => []MergeQueueTypeOK
<1>1. Init => MergeQueueTypeOK
  BY BlobsTyped DEF Init, MergeQueueTypeOK
<1> QED
  BY <1>1, MergeQueueTypeInductive, PTL DEF Spec

-----------------------------------------------------------------------------
(* Rivals are not both cleared.                                            *)

\* Nothing is cleared by a step that neither writes "ready" nor plans to.
LEMMA StartsNotReady ==
    ASSUME MergeQueueTypeOK, NEW c \in Calls, NEW op \in Ops, NEW f \in Features,
           NEW S \in SUBSET Features, NEW put \in [Features -> Blob],
           Starts(c, op, f, S, put),
           \A g \in S : put[g].status # "ready",
           UNCHANGED mq
    PROVE  /\ \A g \in Features : Cleared(g)' => Cleared(g)
           /\ \A d \in Calls : call'[d] = call[d] \/ ~call'[d].fit
<1>1. \A d \in Calls : d # c => call'[d] = call[d]
  BY DEF MergeQueueTypeOK, Starts
<1>2. call'[c] = [Idle EXCEPT !.op = op, !.at = "loaded", !.of = f, !.saves = S, !.put = put]
  BY DEF MergeQueueTypeOK, Starts
<1>3. ~call'[c].fit /\ call'[c].saves = S /\ call'[c].put = put
  BY <1>2 DEF Idle
<1> QED
  BY <1>1, <1>3 DEF Cleared

LEMMA GoesNotReady ==
    ASSUME MergeQueueTypeOK, NEW c \in Calls, NEW S \in SUBSET call[c].saves, Goes(c, S)
    PROVE  /\ \A d \in Calls : d # c => call'[d] = call[d]
           /\ call'[c].saves = S
           /\ \A g \in S : call'[c].put[g] = call[c].put[g]
           /\ call'[c].fit => call[c].fit /\ call'[c].of = call[c].of
                              /\ call'[c].needs = call[c].needs
<1>1. \A d \in Calls : d # c => call'[d] = call[d]
  BY DEF MergeQueueTypeOK, Goes
<1>2. CASE S = {}
  <2>1. call'[c] = Idle
    BY <1>2 DEF Goes, MergeQueueTypeOK
  <2>2. call'[c].saves = {} /\ call'[c].fit = FALSE
    BY <2>1 DEF Idle
  <2> QED
    BY <1>1, <1>2, <2>2
<1>3. CASE S # {}
  <2>1. call'[c] = [call[c] EXCEPT !.at = "saving", !.saves = S]
    BY <1>3 DEF Goes, MergeQueueTypeOK
  <2>2. call[c] \in CallState
    BY DEF MergeQueueTypeOK
  <2>3. call'[c].saves = S /\ call'[c].put = call[c].put /\ call'[c].fit = call[c].fit
        /\ call'[c].of = call[c].of /\ call'[c].needs = call[c].needs
    BY <2>1, <2>2 DEF CallState
  <2> QED
    BY <1>1, <2>3
<1> QED
  BY <1>2, <1>3

\* The invariant is kept when nothing is newly cleared or loaded and the
\* registry is left alone.
LEMMA NothingCleared ==
    ASSUME GateInv, MergeQueueTypeOK', UNCHANGED <<reg, claims, amended>>,
           \A g \in Features : Cleared(g)' => Cleared(g),
           \A d \in Calls : \/ ~call'[d].fit
                            \/ /\ call[d].fit /\ call'[d].of = call[d].of
                               /\ call'[d].needs = call[d].needs
    PROVE  GateInv'
<1>1. LoadedHolds'
  BY DEF GateInv, LoadedHolds
<1>2. ClearedRegistered'
  BY DEF GateInv, ClearedRegistered
<1>3. \A f, g \in Features : Rivals(f, g)' <=> Rivals(f, g)
  BY DEF Rivals
<1>4. RivalsNotCleared'
  BY <1>3 DEF GateInv, RivalsNotCleared
<1> QED
  BY <1>1, <1>2, <1>4 DEF GateInv

LEMMA StartsKeep ==
    ASSUME GateInv, MergeQueueTypeOK', NEW c \in Calls, NEW op \in Ops, NEW f \in Features,
           NEW S \in SUBSET Features, NEW put \in [Features -> Blob],
           Starts(c, op, f, S, put), \A g \in S : put[g].status # "ready",
           UNCHANGED <<reg, claims, mq, amended>>
    PROVE  GateInv'
<1>1. MergeQueueTypeOK
  BY DEF GateInv
<1>2. /\ \A g \in Features : Cleared(g)' => Cleared(g)
      /\ \A d \in Calls : call'[d] = call[d] \/ ~call'[d].fit
  BY <1>1, StartsNotReady
<1> QED
  BY <1>2, NothingCleared

\* Of two rivals that are compared in full, the one checked finds the other.
LEMMA RivalContests ==
    ASSUME MergeQueueTypeOK, NEW f \in Features, NEW g \in Features, f # g,
           Rivals(f, g), reg[g] = "active"
    PROVE  Sequential(claims[f], Contested(f, claims[f]))
<1> DEFINE shared == claims[f] \cap claims[g]
           contested == Contested(f, claims[f])
<1>1. shared \subseteq contested /\ contested \subseteq Keys /\ claims[f] \subseteq Keys
  BY DEF Contested, MergeQueueTypeOK
<1>2. IsFiniteSet(contested) /\ IsFiniteSet(claims[f]) /\ IsFiniteSet(shared)
  BY <1>1, FS_Subset, MergeQueueAssumption
<1>3. Cardinality(shared) <= Cardinality(contested)
      /\ Cardinality(shared) \in Nat /\ Cardinality(contested) \in Nat
      /\ Cardinality(claims[f]) \in Nat
  BY <1>1, <1>2, FS_Subset, FS_CardinalityType
<1>4. 2 * Cardinality(shared) > Cardinality(claims[f])
  BY DEF Rivals
<1>5. 2 * Cardinality(contested) > Cardinality(claims[f])
  BY <1>3, <1>4
<1> QED
  BY <1>5 DEF Sequential

LEMMA RivalsSymmetric ==
    ASSUME NEW f \in Features, NEW g \in Features, Rivals(f, g) PROVE Rivals(g, f)
<1>1. claims[f] \cap claims[g] = claims[g] \cap claims[f]
  OBVIOUS
<1> QED
  BY <1>1 DEF Rivals

LEMMA CheckConflictsKeeps ==
    ASSUME GateInv, MergeQueueTypeOK', NEW c \in Calls, CheckConflicts(c)
    PROVE  GateInv'
<1>0. MergeQueueTypeOK /\ call[c] \in CallState /\ call[c].of \in Features
      /\ call[c].old \in Blob /\ UNCHANGED <<reg, claims, mq, amended>>
  BY DEF GateInv, MergeQueueTypeOK, CallState, CheckConflicts
<1> PICK f \in Features : f = call[c].of
  BY <1>0
<1> PICK needs : needs = call[c].needs
  OBVIOUS
<1> PICK passed \in BOOLEAN : passed <=> call[c].fit /\ ~Sequential(needs, Contested(f, needs))
  OBVIOUS
<1>1. MergeQueueTypeOK /\ call[c] \in CallState /\ call[c].old \in Blob
      /\ UNCHANGED <<reg, claims, mq, amended>>
  BY <1>0
<1>2. \A d \in Calls : d # c => call'[d] = call[d]
  BY <1>1 DEF CheckConflicts, MergeQueueTypeOK
<1>3. CASE call[c].old = NoEntry
  <2>1. call'[c] = Idle
    BY <1>1, <1>3 DEF CheckConflicts, MergeQueueTypeOK
  <2>2. call'[c].saves = {} /\ ~call'[c].fit
    BY <2>1 DEF Idle
  <2>3. \A g \in Features : Cleared(g)' => Cleared(g)
    BY <1>1, <1>2, <2>2 DEF Cleared
  <2> QED
    BY <1>1, <1>2, <2>2, <2>3, NothingCleared
<1>4. CASE call[c].old # NoEntry
  <2> DEFINE b == [call[c].old EXCEPT !.status = IF passed THEN "ready" ELSE "blocked"]
  <2>1. call'[c] = [call[c] EXCEPT !.at = "saving", !.saves = {f}, !.put = Only(f, b)]
    BY <1>1, <1>4 DEF CheckConflicts, MergeQueueTypeOK
  <2>2. call'[c].saves = {f} /\ call'[c].put = Only(f, b) /\ call'[c].fit = call[c].fit
        /\ call'[c].of = f /\ call'[c].needs = needs
    BY <1>1, <2>1 DEF CallState
  <2>3. b \in Blob /\ (b.status = "ready" => passed)
    BY <1>1 DEF Blob
  <2>4. Only(f, b)[f] = b
    <3> HIDE DEF b
    <3> QED
      BY <2>3, OnlyTyped
  <2>5. \A g \in Features : g # f => (Cleared(g)' => Cleared(g))
    BY <1>1, <1>2, <2>2 DEF Cleared
  <2>6. Cleared(f)' => Cleared(f) \/ passed
    BY <1>1, <1>2, <2>2, <2>3, <2>4 DEF Cleared
  <2>7. \A d \in Calls : call'[d].fit => /\ call[d].fit /\ call'[d].of = call[d].of
                                         /\ call'[d].needs = call[d].needs
    BY <1>2, <2>2
  <2>8. CASE ~passed
    <3>1. \A g \in Features : Cleared(g)' => Cleared(g)
      BY <2>5, <2>6, <2>8
    <3> QED
      BY <1>1, <2>7, <3>1, NothingCleared
  <2>9. CASE passed
    <3>1. reg[f] # "absent" /\ (~amended[f] => needs = claims[f])
      BY <2>9, <1>1 DEF GateInv, LoadedHolds
    <3>2. LoadedHolds'
      BY <1>1, <2>7 DEF GateInv, LoadedHolds
    <3>3. ClearedRegistered'
      BY <1>1, <2>5, <3>1 DEF GateInv, ClearedRegistered
    <3>4. \A g \in Features : ~(/\ g # f /\ Rivals(f, g) /\ reg[g] = "active" /\ ~amended[f])
      BY <1>1, <2>9, <3>1, RivalContests
    <3>5. RivalsNotCleared'
      <4> SUFFICES ASSUME NEW x \in Features, NEW y \in Features,
                          x # y, Rivals(x, y)', reg[x]' = "active", reg[y]' = "active",
                          ~amended[x]', ~amended[y]', Cleared(x)', Cleared(y)'
                   PROVE  FALSE
        BY DEF RivalsNotCleared
      <4>1. Rivals(x, y) /\ reg[x] = "active" /\ reg[y] = "active" /\ ~amended[x] /\ ~amended[y]
        BY <1>1 DEF Rivals
      <4>2. x # f /\ y # f
        BY <3>4, <4>1, RivalsSymmetric
      <4> QED
        BY <2>5, <4>1, <4>2 DEF GateInv, RivalsNotCleared
    <3> QED
      BY <3>2, <3>3, <3>5 DEF GateInv
  <2> QED
    BY <2>8, <2>9
<1> QED
  BY <1>3, <1>4

LEMMA CheckKeeps ==
    ASSUME GateInv, MergeQueueTypeOK', NEW c \in Calls, NEW f \in Features, Check(c, f)
    PROVE  GateInv'
<1>1. MergeQueueTypeOK /\ UNCHANGED <<reg, claims, mq, amended>>
  BY DEF GateInv, Check
<1>2. \A d \in Calls : d # c => call'[d] = call[d]
  BY <1>1 DEF Check, MergeQueueTypeOK
<1>3. call'[c] = [Idle EXCEPT !.op = "check", !.at = "loaded", !.of = f, !.old = mq[f],
                              !.fit = (reg[f] = "active"), !.needs = claims[f]]
  BY <1>1 DEF Check, MergeQueueTypeOK
<1>4. call'[c].saves = {} /\ call'[c].of = f /\ call'[c].needs = claims[f]
  BY <1>3 DEF Idle
<1>5. \A g \in Features : Cleared(g)' => Cleared(g)
  BY <1>1, <1>2, <1>4 DEF Cleared
<1>6. reg[f] # "absent"
  BY DEF Check
<1>7. LoadedHolds'
  BY <1>1, <1>2, <1>4, <1>6 DEF GateInv, LoadedHolds
<1>8. ClearedRegistered'
  BY <1>1, <1>5 DEF GateInv, ClearedRegistered
<1>9. \A x, y \in Features : Rivals(x, y)' <=> Rivals(x, y)
  BY <1>1 DEF Rivals
<1>10. RivalsNotCleared'
  BY <1>1, <1>5, <1>9 DEF GateInv, RivalsNotCleared
<1> QED
  BY <1>7, <1>8, <1>10 DEF GateInv

LEMMA RegisterKeeps ==
    ASSUME GateInv, MergeQueueTypeOK', NEW f \in Features, NEW cl \in ClaimChoices[f],
           Register(f, cl)
    PROVE  GateInv'
<1>1. MergeQueueTypeOK /\ UNCHANGED <<mq, call>>
  BY DEF GateInv, Register
<1>2. \A g \in Features : Cleared(g)' <=> Cleared(g)
  BY <1>1 DEF Cleared
<1>3. \A g \in Features \ {f} : /\ reg'[g] = reg[g] /\ claims'[g] = claims[g]
                                /\ amended'[g] = amended[g]
  BY <1>1 DEF Register, MergeQueueTypeOK
<1>4. reg'[f] = "active" /\ claims'[f] = cl
      /\ amended'[f] = (amended[f] \/ (reg[f] = "active" /\ cl # claims[f]))
  BY <1>1 DEF Register, MergeQueueTypeOK
<1>5. reg[f] \in {"absent", "active"}
  BY DEF Register
<1>6. ClearedRegistered'
  BY <1>2, <1>3, <1>4 DEF GateInv, ClearedRegistered
<1>7. \A d \in Calls : call[d].of \in Features
  BY <1>1 DEF MergeQueueTypeOK, CallState
<1>8. LoadedHolds'
  <2> SUFFICES ASSUME NEW d \in Calls, call[d].fit
               PROVE  /\ reg'[call[d].of] # "absent"
                      /\ ~amended'[call[d].of] => call[d].needs = claims'[call[d].of]
    BY <1>1 DEF LoadedHolds
  <2>1. /\ reg[call[d].of] # "absent"
        /\ ~amended[call[d].of] => call[d].needs = claims[call[d].of]
    BY DEF GateInv, LoadedHolds
  <2>2. CASE call[d].of = f
    BY <1>4, <1>5, <2>1, <2>2
  <2>3. CASE call[d].of # f
    BY <1>3, <1>7, <2>1, <2>3
  <2> QED
    BY <2>2, <2>3
<1>9. RivalsNotCleared'
  <2> SUFFICES ASSUME NEW x \in Features, NEW y \in Features,
                      x # y, Rivals(x, y)', reg[x]' = "active", reg[y]' = "active",
                      ~amended[x]', ~amended[y]', Cleared(x)', Cleared(y)'
               PROVE  FALSE
    BY DEF RivalsNotCleared
  <2>1. Cleared(x) /\ Cleared(y) /\ reg[x] # "absent" /\ reg[y] # "absent"
    BY <1>2 DEF GateInv, ClearedRegistered
  <2>2. \A z \in {x, y} : reg[z] = "active" /\ claims'[z] = claims[z] /\ ~amended[z]
    BY <1>3, <1>4, <1>5, <2>1
  <2>3. Rivals(x, y)
    BY <2>2 DEF Rivals
  <2> QED
    BY <2>1, <2>2, <2>3 DEF GateInv, RivalsNotCleared
<1> QED
  BY <1>6, <1>8, <1>9 DEF GateInv

LEMMA DeregisterKeeps ==
    ASSUME GateInv, MergeQueueTypeOK', NEW f \in Features, Deregister(f) PROVE GateInv'
<1>1. MergeQueueTypeOK /\ UNCHANGED <<mq, call, claims, amended>>
  BY DEF GateInv, Deregister
<1>2. \A g \in Features : Cleared(g)' <=> Cleared(g)
  BY <1>1 DEF Cleared
<1>3. \A g \in Features : /\ reg'[g] = "active" => reg[g] = "active"
                          /\ reg[g] # "absent" => reg'[g] # "absent"
  BY <1>1 DEF Deregister, MergeQueueTypeOK
<1>4. \A x, y \in Features : Rivals(x, y)' <=> Rivals(x, y)
  BY <1>1 DEF Rivals
<1>5. \A d \in Calls : call[d].of \in Features
  BY <1>1 DEF MergeQueueTypeOK, CallState
<1>6. LoadedHolds'
  BY <1>1, <1>3, <1>5 DEF GateInv, LoadedHolds
<1>7. ClearedRegistered' /\ RivalsNotCleared'
  BY <1>1, <1>2, <1>3, <1>4 DEF GateInv, ClearedRegistered, RivalsNotCleared
<1> QED
  BY <1>6, <1>7 DEF GateInv

LEMMA SaveKeeps ==
    ASSUME GateInv, MergeQueueTypeOK', NEW c \in Calls,
           (\E f \in Features : Save(c, f)) \/ SaveRefused(c) \/ Reread(c)
    PROVE  GateInv'
<1>1. MergeQueueTypeOK /\ UNCHANGED <<reg, claims, amended>>
  BY DEF GateInv, Save, SaveRefused, Reread
<1>2. \E S \in SUBSET call[c].saves : Goes(c, S)
  <2>1. ASSUME NEW f \in Features, Save(c, f) PROVE Goes(c, call[c].saves \ {f})
    BY <2>1 DEF Save
  <2>2. ASSUME SaveRefused(c) PROVE Goes(c, {})
    BY <2>2 DEF SaveRefused
  <2>3. ASSUME Reread(c) PROVE Goes(c, {f \in call[c].saves : reg[f] = "active"})
    BY <2>3 DEF Reread
  <2>4. /\ \A f : call[c].saves \ {f} \in SUBSET call[c].saves
        /\ {} \in SUBSET call[c].saves
        /\ {f \in call[c].saves : reg[f] = "active"} \in SUBSET call[c].saves
    OBVIOUS
  <2> QED
    BY <2>1, <2>2, <2>3, <2>4
<1>3. PICK S \in SUBSET call[c].saves : Goes(c, S)
  BY <1>2
<1>4. /\ \A d \in Calls : d # c => call'[d] = call[d]
      /\ call'[c].saves = S
      /\ \A g \in S : call'[c].put[g] = call[c].put[g]
      /\ call'[c].fit => call[c].fit /\ call'[c].of = call[c].of
                         /\ call'[c].needs = call[c].needs
  BY <1>1, <1>3, GoesNotReady
<1>5. \A g \in Features : mq'[g] = mq[g] \/ (g \in call[c].saves /\ mq'[g] = call[c].put[g])
  BY <1>1 DEF Save, SaveRefused, Reread, MergeQueueTypeOK
<1>6. \A g \in Features : Cleared(g)' => Cleared(g)
  <2> SUFFICES ASSUME NEW g \in Features, Cleared(g)' PROVE Cleared(g)
    OBVIOUS
  <2>1. CASE mq'[g].status = "ready"
    BY <1>5, <2>1 DEF Cleared
  <2>2. CASE mq'[g].status # "ready"
    <3>1. PICK d \in Calls : g \in call'[d].saves /\ call'[d].put[g].status = "ready"
      BY <2>2 DEF Cleared
    <3>2. g \in call[d].saves /\ call[d].put[g].status = "ready"
      BY <1>4, <3>1
    <3> QED
      BY <3>2 DEF Cleared
  <2> QED
    BY <2>1, <2>2
<1> QED
  BY <1>1, <1>4, <1>6, NothingCleared

LEMMA QueueCallsKeep ==
    ASSUME GateInv, MergeQueueTypeOK', NEW c \in Calls, NEW f \in Features,
           Enqueue(c, f) \/ RemoveFromQueue(c, f)
           \/ \E v \in {"spec_passed", "blocked"} : Report(c, f, v)
    PROVE  GateInv'
<1>1. MergeQueueTypeOK
  BY DEF GateInv
<1>2. CASE Enqueue(c, f)
  <2>1. Only(f, Queued) \in [Features -> Blob] /\ Only(f, Queued)[f] = Queued
    BY OnlyTyped, BlobsTyped
  <2>2. \A g \in {f} : Only(f, Queued)[g].status # "ready"
    BY <2>1 DEF Queued
  <2> QED
    BY <1>2, <2>1, <2>2, StartsKeep DEF Enqueue, Ops
<1>3. CASE RemoveFromQueue(c, f)
  <2>1. NoBlobs \in [Features -> Blob] /\ \A g \in {f} : NoBlobs[g].status # "ready"
    BY BlobsTyped DEF NoBlobs, NoEntry
  <2> QED
    BY <1>3, <2>1, StartsKeep DEF RemoveFromQueue, Ops
<1>4. ASSUME NEW v \in {"spec_passed", "blocked"}, Report(c, f, v) PROVE GateInv'
  <2> DEFINE b == [mq[f] EXCEPT !.status = v]
  <2>1. b \in Blob /\ b.status # "ready"
    BY <1>1 DEF MergeQueueTypeOK, Blob
  <2>2. Only(f, b) \in [Features -> Blob] /\ \A g \in {f} : Only(f, b)[g].status # "ready"
    <3> HIDE DEF b
    <3> QED
      BY <2>1, OnlyTyped
  <2>3. Starts(c, "report", f, {f}, Only(f, b)) /\ UNCHANGED <<reg, claims, mq, amended>>
    BY <1>4 DEF Report
  <2> QED
    BY <2>2, <2>3, StartsKeep DEF Ops
<1> QED
  BY <1>2, <1>3, <1>4

LEMMA ComposeKeeps ==
    ASSUME GateInv, MergeQueueTypeOK', NEW c \in Calls, NEW aged \in SUBSET Features,
           NEW conflicting \in SUBSET Features, Compose(c, aged, conflicting)
    PROVE  GateInv'
<1> DEFINE skipped == {f \in Loaded : \/ mq[f].status = "abandoned"
                                      \/ mq[f].status = "blocked" /\ f \notin aged}
           made(f) == IF f \in conflicting THEN "blocked" ELSE "speculating"
           put == [g \in Features |-> IF g \in Loaded \ skipped
                                   THEN [mq[g] EXCEPT !.status = made(g)]
                                   ELSE IF g \in Loaded THEN mq[g] ELSE NoEntry]
<1>1. \A g \in Features : /\ [mq[g] EXCEPT !.status = made(g)] \in Blob /\ mq[g] \in Blob
                          /\ [mq[g] EXCEPT !.status = made(g)].status # "ready"
  BY DEF GateInv, MergeQueueTypeOK, Blob
<1>2. put \in [Features -> Blob]
  BY <1>1, BlobsTyped
<1>3. Loaded \in SUBSET Features /\ "compose" \in Ops /\ Somebody \in Features
  BY MergeQueueAssumption DEF Loaded, Ops, Somebody
<1>4. \A g \in Loaded : put[g].status # "ready"
  BY <1>1, <1>3
<1>5. Starts(c, "compose", Somebody, Loaded, put) /\ UNCHANGED <<reg, claims, mq, amended>>
  BY DEF Compose
<1> QED
  BY <1>2, <1>3, <1>4, <1>5, StartsKeep

LEMMA EjectKeeps ==
    ASSUME GateInv, MergeQueueTypeOK', NEW c \in Calls, NEW f \in Features,
           NEW requeued \in SUBSET Features, Eject(c, f, requeued)
    PROVE  GateInv'
<1> DEFINE n == IF mq[f].ejects < MAX_EJECT_COUNT THEN mq[f].ejects + 1
                ELSE MAX_EJECT_COUNT
           ejected == [status |-> IF n >= MAX_EJECT_COUNT THEN "abandoned" ELSE "ejected",
                       ejects |-> n]
           put == [g \in Features |-> IF g = f THEN ejected
                                   ELSE IF g \in requeued
                                   THEN [mq[g] EXCEPT !.status = "queued"] ELSE NoEntry]
<1>1. ejected \in Blob /\ ejected.status # "ready"
  BY MergeQueueAssumption DEF GateInv, MergeQueueTypeOK, Blob, Eject
<1>2. \A g \in Features : LET b == [mq[g] EXCEPT !.status = "queued"] IN
                          b \in Blob /\ b.status # "ready"
  BY DEF GateInv, MergeQueueTypeOK, Blob
<1>3. put \in [Features -> Blob] /\ \A g \in {f} \cup requeued : put[g].status # "ready"
  BY <1>1, <1>2, BlobsTyped
<1>4. Starts(c, "eject", f, {f} \cup requeued, put) /\ UNCHANGED <<reg, claims, mq, amended>>
  BY DEF Eject
<1> QED
  BY <1>3, <1>4, StartsKeep DEF Ops

LEMMA GateInductive == ASSUME GateInv, [Next]_vars PROVE GateInv'
<1>1. MergeQueueTypeOK'
  BY MergeQueueTypeInductive DEF GateInv
<1>2. ASSUME NEW f \in Features, NEW cl \in ClaimChoices[f], Register(f, cl) PROVE GateInv'
  BY <1>1, <1>2, RegisterKeeps
<1>3. ASSUME NEW f \in Features, Deregister(f) PROVE GateInv'
  BY <1>1, <1>3, DeregisterKeeps
<1>4. ASSUME NEW c \in Calls, NEW f \in Features,
             Enqueue(c, f) \/ RemoveFromQueue(c, f)
             \/ \E v \in {"spec_passed", "blocked"} : Report(c, f, v)
      PROVE GateInv'
  BY <1>1, <1>4, QueueCallsKeep
<1>5. ASSUME NEW c \in Calls, NEW f \in Features, Check(c, f) PROVE GateInv'
  BY <1>1, <1>5, CheckKeeps
<1>6. ASSUME NEW c \in Calls, NEW f \in Features, NEW requeued \in SUBSET Features, Eject(c, f, requeued)
      PROVE GateInv'
  BY <1>1, <1>6, EjectKeeps
<1>7. ASSUME NEW c \in Calls, (\E f \in Features : Save(c, f)) \/ SaveRefused(c) \/ Reread(c)
      PROVE GateInv'
  BY <1>1, <1>7, SaveKeeps
<1>8. ASSUME NEW c \in Calls, CheckConflicts(c) PROVE GateInv'
  BY <1>1, <1>8, CheckConflictsKeeps
<1>9. ASSUME NEW c \in Calls, NEW aged \in SUBSET Features, NEW conflicting \in SUBSET Features,
             Compose(c, aged, conflicting)
      PROVE GateInv'
  BY <1>1, <1>9, ComposeKeeps
<1>10. CASE UNCHANGED vars
  <2>1. \A g \in Features : Cleared(g)' => Cleared(g)
    BY <1>10 DEF vars, Cleared
  <2> QED
    BY <1>1, <1>10, <2>1, NothingCleared DEF vars
<1> QED
  BY <1>2, <1>3, <1>4, <1>5, <1>6, <1>7, <1>8, <1>9, <1>10 DEF Next

\* Rival active features whose claims were not amended are never both ready:
\* registering before being checked is enough, with no lock.
THEOREM RivalsExcluded == Spec => []ReadyExclusive
<1>1. Init => GateInv
  <2> SUFFICES ASSUME Init PROVE GateInv
    OBVIOUS
  <2>1. MergeQueueTypeOK
    BY BlobsTyped DEF Init, MergeQueueTypeOK
  <2>2. \A c \in Calls : call[c].saves = {} /\ ~call[c].fit
    BY DEF Init, Idle
  <2>3. \A f \in Features : mq[f].status = "none"
    BY DEF Init, NoBlobs, NoEntry
  <2>4. \A f \in Features : ~Cleared(f)
    BY <2>2, <2>3 DEF Cleared
  <2> QED
    BY <2>1, <2>2, <2>4 DEF GateInv, LoadedHolds, ClearedRegistered, RivalsNotCleared
<1>2. GateInv => ReadyExclusive
  BY DEF GateInv, RivalsNotCleared, ReadyExclusive, Cleared
<1> QED
  BY <1>1, <1>2, GateInductive, PTL DEF Spec
=============================================================================
