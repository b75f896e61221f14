-------------------------- MODULE MergeTrainProofs --------------------------
(***************************************************************************)
(* What holds of the merge train for all features, claims and priorities.  *)
(* The inductive invariant says what a speculation that counts is stacked  *)
(* on: its own partition's entries placed no later (Stacked), and nothing  *)
(* that an ejection of the other would not reach (BuiltBehind).            *)
(***************************************************************************)
EXTENDS MergeTrain, FiniteSetTheorems, TLAPS

\* The speculation of f counts, or the executor is about to merge f.
Live(f) == Speculated(f) \/ \E n \in plan : f \in n.entries

\* Of two live entries of a partition, the later one is stacked on the earlier.
Stacked ==
    /\ \A f \in Features : Live(f) => f \in ref[f]
    /\ \A f, g \in Features :
          /\ Live(f) /\ Live(g) /\ ~Cross(f) /\ ~Cross(g)
          /\ Home(f) = Home(g) /\ pos[f] <= pos[g]
          => f \in ref[g]

\* What a live entry is stacked on comes before it in its train, or in none.
BuiltBehind ==
    \A g \in Features : Live(g) =>
        \A f \in ref[g] \ {g} :
            train[f] = 0 \/ (train[f] = train[g] /\ pos[f] < pos[g])

\* A node that is to be merged has entries, of one partition or a cross one.
PlanWhole ==
    \A n \in plan :
        /\ n.entries # {}
        /\ \/ \E f \in Features : n.entries = {f}
           \/ \A f, g \in n.entries : ~Cross(f) /\ Home(f) = Home(g)

\* Main is what it was under the train and what the train has put there; and that
\* is below the ref that main is about to be replaced by.
MainBuilt ==
    /\ main = base \cup landed
    /\ checked # {} => landed \subseteq ref[FinalEntry(checked)]

TrainInv == TrainTypeOK /\ Stacked /\ BuiltBehind /\ PlanWhole /\ MergedLanded

-----------------------------------------------------------------------------
(* The order in which entries are placed.                                  *)

LEMMA HomeType == ASSUME NEW f \in Features PROVE Home(f) \in Int
<1>1. Claims[f] \in SUBSET Prefixes /\ Prefixes \subseteq Nat
  BY TrainAssumption
<1>2. CASE Claims[f] = {}
  BY <1>2 DEF Home, Unclaimed
<1>3. CASE Claims[f] # {}
  <2>1. \E p \in Claims[f] : TRUE
    BY <1>3
  <2>2. (CHOOSE p \in Claims[f] : TRUE) \in Claims[f]
    BY <2>1
  <2>3. Home(f) \in Claims[f]
    BY <1>3, <2>2 DEF Home
  <2>4. Home(f) \in Nat
    BY <1>1, <2>3, Zenon
  <2>5. QED
    BY <2>4
<1>4. QED
  BY <1>2, <1>3

LEMMA PrecedesOrder ==
  ASSUME TrainTypeOK, NEW f \in Features, NEW g \in Features
  PROVE  /\ ~Precedes(f, f)
         /\ f = g \/ Precedes(f, g) \/ Precedes(g, f)
         /\ \A h \in Features : Precedes(f, g) /\ Precedes(g, h) => Precedes(f, h)
<1>1. Features \subseteq Int
  BY TrainAssumption
<1>2. \A x \in Features : priority[x] \in Int
  BY DEF TrainTypeOK
<1>3. QED
  BY <1>1, <1>2 DEF Precedes

LEMMA AheadOrder ==
  ASSUME TrainTypeOK, NEW f \in Features, NEW g \in Features
  PROVE  /\ ~Ahead(f, f)
         /\ ~Cross(f) /\ ~Cross(g) /\ Home(f) = Home(g)
               => f = g \/ Ahead(f, g) \/ Ahead(g, f)
         /\ \A h \in Features : Ahead(f, g) /\ Ahead(g, h) => Ahead(f, h)
<1>1. \A x \in Features : Home(x) \in Int
  BY HomeType
<1>2. ~Ahead(f, f)
  BY <1>1, PrecedesOrder DEF Ahead
<1>3. ~Cross(f) /\ ~Cross(g) /\ Home(f) = Home(g)
        => f = g \/ Ahead(f, g) \/ Ahead(g, f)
  BY PrecedesOrder DEF Ahead
<1>4. ASSUME NEW h \in Features, Ahead(f, g), Ahead(g, h) PROVE Ahead(f, h)
  <2>1. Precedes(f, g) /\ Precedes(g, h) => Precedes(f, h)
    BY PrecedesOrder
  <2>2. Home(f) \in Int /\ Home(g) \in Int /\ Home(h) \in Int
    BY <1>1
  <2>3. QED
    BY <1>4, <2>1, <2>2 DEF Ahead
<1>5. QED
  BY <1>2, <1>3, <1>4

\* The place an entry is given among those that are composed.
Place(f, active) == 1 + Cardinality({g \in active : Ahead(g, f)})

LEMMA PlaceType ==
  ASSUME NEW active \in SUBSET Features, NEW f
  PROVE  Place(f, active) \in Nat
<1>1. {g \in active : Ahead(g, f)} \subseteq Features
  OBVIOUS
<1>2. Cardinality({g \in active : Ahead(g, f)}) \in Nat
  BY <1>1, FS_Subset, FS_CardinalityType, TrainAssumption
<1>3. QED
  BY <1>2 DEF Place

\* Places follow the order.
LEMMA PlaceOrder ==
  ASSUME TrainTypeOK, NEW active \in SUBSET Features,
         NEW f \in active, NEW g \in active, Ahead(f, g)
  PROVE  Place(f, active) < Place(g, active)
<1> DEFINE F == {h \in active : Ahead(h, f)}
           G == {h \in active : Ahead(h, g)}
<1>1. F \subseteq G /\ f \in G /\ f \notin F
  BY AheadOrder
<1>2. IsFiniteSet(F) /\ IsFiniteSet(G)
  BY FS_Subset, TrainAssumption
<1>3. Cardinality(F) <= Cardinality(G) /\ Cardinality(F) # Cardinality(G)
  BY <1>1, <1>2, FS_Subset
<1>4. Cardinality(F) \in Nat /\ Cardinality(G) \in Nat
  BY <1>2, FS_CardinalityType
<1> HIDE DEF F, G
<1>5. Cardinality(F) < Cardinality(G)
  BY <1>3, <1>4
<1>6. Place(f, active) = 1 + Cardinality(F) /\ Place(g, active) = 1 + Cardinality(G)
  BY DEF Place, F, G
<1>7. QED
  BY <1>4, <1>5, <1>6

\* A non-empty set of entries has a last one.
LEMMA FinalEntryLast ==
  ASSUME TrainTypeOK, NEW S \in SUBSET Features, S # {}
  PROVE  /\ FinalEntry(S) \in S
         /\ \A g \in S : pos[g] <= pos[FinalEntry(S)]
<1> DEFINE After(f) == {g \in S : pos[g] > pos[f]}
           T == {After(f) : f \in S}
<1>1. \A f \in S : pos[f] \in Nat
  BY DEF TrainTypeOK
<1>2. IsFiniteSet(S)
  BY FS_Subset, TrainAssumption
<1>3. IsWellFoundedOn(StrictSubsetOrdering(S), SUBSET S)
  BY <1>2, FS_StrictSubsetOrderingWellFounded, FS_FiniteSubsetsOfFinite
<1>4. T \subseteq SUBSET S /\ T # {}
  OBVIOUS
<1>5. PICK U \in T : \A V \in T : ~(<<V, U>> \in StrictSubsetOrdering(S))
  BY <1>3, <1>4, WFMin
<1>6. PICK f \in S : U = After(f)
  BY <1>5
<1>7. ASSUME NEW g \in S, pos[g] > pos[f] PROVE FALSE
  <2>1. g \in After(f) /\ g \notin After(g)
    BY <1>1, <1>7
  <2>2. After(g) \subseteq After(f)
    BY <1>1, <1>7
  <2>3. <<After(g), After(f)>> \in StrictSubsetOrdering(S)
    BY <2>1, <2>2 DEF StrictSubsetOrdering
  <2>4. QED
    BY <1>5, <1>6, <2>3
<1>8. \A g \in S : pos[g] <= pos[f]
  BY <1>1, <1>7
<1>9. QED
  BY <1>8 DEF FinalEntry

-----------------------------------------------------------------------------
(* The inductive invariant.                                                *)

\* A step that makes no entry live, and moves entries out of the train only.
LEMMA Shrink ==
  ASSUME TrainTypeOK, Stacked, BuiltBehind,
         \A f \in Features : Live(f)' =>
            Live(f) /\ ref'[f] = ref[f] /\ train'[f] = train[f] /\ pos'[f] = pos[f],
         \A f \in Features :
            train'[f] = 0 \/ (train'[f] = train[f] /\ pos'[f] = pos[f])
  PROVE  Stacked' /\ BuiltBehind'
<1>1. Stacked'
  <2>1. ASSUME NEW f \in Features, Live(f)' PROVE f \in ref'[f]
    BY <2>1 DEF Stacked
  <2>2. ASSUME NEW f \in Features, NEW g \in Features, Live(f)', Live(g)',
               ~Cross(f), ~Cross(g), Home(f) = Home(g), pos'[f] <= pos'[g]
        PROVE  f \in ref'[g]
    BY <2>2 DEF Stacked
  <2>3. QED
    BY <2>1, <2>2 DEF Stacked
<1>2. ASSUME NEW g \in Features, Live(g)', NEW f \in ref'[g] \ {g}
      PROVE  train'[f] = 0 \/ (train'[f] = train'[g] /\ pos'[f] < pos'[g])
  <2>1. Live(g) /\ ref'[g] = ref[g] /\ train'[g] = train[g] /\ pos'[g] = pos[g]
    BY <1>2
  <2>2. f \in Features
    BY <2>1 DEF TrainTypeOK
  <2>3. train[f] = 0 \/ (train[f] = train[g] /\ pos[f] < pos[g])
    BY <2>1 DEF BuiltBehind
  <2>4. QED
    BY <2>1, <2>2, <2>3
<1>3. QED
  BY <1>1, <1>2 DEF BuiltBehind

\* What an entry is stacked on was placed before it.
LEMMA RefAhead ==
  ASSUME TrainTypeOK, NEW ok \in SUBSET Features, NEW g \in ok
  PROVE  /\ RefOf(g, ok) \subseteq ok
         /\ g \in RefOf(g, ok)
         /\ \A f \in RefOf(g, ok) \ {g} : Ahead(f, g)
<1>1. CASE Cross(g)
  BY <1>1 DEF RefOf, CrossRef, Ahead
<1>2. CASE ~Cross(g)
  <2>1. \A f \in BaseOf(Home(g), ok) : f \in ok /\ Cross(f)
    BY DEF BaseOf, CrossRef
  <2>2. QED
    BY <1>2, <2>1 DEF RefOf, Ahead
<1>3. QED
  BY <1>1, <1>2

LEMMA RefStacked ==
  ASSUME NEW ok \in SUBSET Features, NEW f \in ok, NEW g \in ok,
         ~Cross(f), ~Cross(g), Home(f) = Home(g), Ahead(f, g)
  PROVE  f \in RefOf(g, ok)
<1>1. ASSUME Home(f) < Home(g) PROVE FALSE
  BY <1>1, HomeType
<1>2. Precedes(f, g)
  BY <1>1 DEF Ahead
<1>3. QED
  BY <1>2 DEF RefOf

LEMMA InvInit == Init => TrainInv
<1> SUFFICES ASSUME Init PROVE TrainInv
  OBVIOUS
<1>1. TrainTypeOK
  <2>1. status \in [Features -> Status] /\ priority \in [Features -> Int]
    BY TrainAssumption DEF Init, Status
  <2>2. /\ ejects \in [Features -> 0 .. MaxEjects] /\ pos \in [Features -> Nat]
        /\ train \in [Features -> 0 .. trains] /\ trains \in 0 .. MaxTrains
    BY TrainAssumption DEF Init
  <2>3. \A f \in Features : status[f] = "merging" <=> f \in checked
    BY DEF Init
  <2>4. ref \in [Features -> SUBSET Features]
    BY DEF Init
  <2>5. QED
    BY <2>1, <2>2, <2>3, <2>4 DEF Init, TrainTypeOK
<1>2. \A f \in Features : ~Live(f)
  BY DEF Init, Live, Speculated
<1>3. Stacked /\ BuiltBehind
  BY <1>2 DEF Stacked, BuiltBehind
<1>4. PlanWhole /\ MergedLanded
  BY DEF Init, PlanWhole, MergedLanded
<1>5. QED
  BY <1>1, <1>3, <1>4 DEF TrainInv

LEMMA ComposeInv ==
  ASSUME TrainInv, NEW aged \in SUBSET Features, NEW conflicting \in SUBSET Features,
         Compose(aged, conflicting)
  PROVE  TrainInv'
<1> DEFINE active == {f \in Features :
                         /\ status[f] \notin TERMINAL_STATUSES
                         /\ status[f] # "blocked" \/ f \in aged}
           ok == active \ conflicting
<1>1. /\ Idle
      /\ conflicting \subseteq active
      /\ status' = [f \in Features |->
                       IF f \in ok THEN "speculating"
                       ELSE IF f \in conflicting THEN "blocked" ELSE status[f]]
      /\ train' = [f \in Features |-> IF f \in ok THEN trains + 1 ELSE train[f]]
      /\ pos' = [f \in Features |-> IF f \in ok THEN Place(f, active) ELSE pos[f]]
      /\ ref' = [f \in Features |->
                    IF f \in ok THEN RefOf(f, ok)
                    ELSE IF f \in conflicting THEN {} ELSE ref[f]]
      /\ trains' = trains + 1 /\ members' = active /\ refsKept' = TRUE
      /\ base' = main /\ landed' = {} /\ moved' = FALSE /\ trains < MaxTrains
      /\ UNCHANGED <<priority, ejects, plan, checked, main>>
  BY DEF Compose, Place
<1>2. active \in SUBSET Features /\ ok \in SUBSET Features /\ ok \subseteq active
  OBVIOUS
<1>3. \A f \in Features : f \notin ok /\ f \notin conflicting =>
          status[f] \in {"merged", "abandoned", "blocked"}
  BY DEF TERMINAL_STATUSES
<1> HIDE DEF active, ok
<1>4. TrainTypeOK
  BY DEF TrainInv
<1>5. TrainTypeOK'
  <2>1. /\ status' \in [Features -> Status] /\ priority' \in [Features -> Int]
        /\ ejects' \in [Features -> 0 .. MaxEjects]
    BY <1>1, <1>4 DEF TrainTypeOK, Status
  <2>2. train' \in [Features -> 0 .. trains'] /\ trains' \in 0 .. MaxTrains
    BY <1>1, <1>4, TrainAssumption DEF TrainTypeOK
  <2>3. pos' \in [Features -> Nat]
    BY <1>1, <1>2, <1>4, PlaceType DEF TrainTypeOK
  <2>4. ref' \in [Features -> SUBSET Features]
    BY <1>1, <1>2, <1>4, RefAhead DEF TrainTypeOK
  <2>5. \A f \in Features : status'[f] = "merging" <=> f \in checked'
    BY <1>1, <1>3, <1>4 DEF TrainTypeOK, Idle
  <2>6. /\ members' \subseteq Features /\ refsKept' \in BOOLEAN /\ moved' \in BOOLEAN
        /\ plan' \subseteq Node /\ checked' \subseteq Features
        /\ main' \subseteq Features /\ base' \subseteq main' /\ landed' \subseteq main'
    BY <1>1, <1>2, <1>4 DEF TrainTypeOK
  <2>7. QED
    BY <2>1, <2>2, <2>3, <2>4, <2>5, <2>6 DEF TrainTypeOK
<1>6. ASSUME NEW f \in Features, Live(f)' PROVE f \in ok
  BY <1>1, <1>3, <1>6 DEF Live, Speculated, Idle
<1>7. Stacked'
  <2>1. ASSUME NEW f \in Features, Live(f)' PROVE f \in ref'[f]
    BY <1>1, <1>2, <1>4, <1>6, <2>1, RefAhead
  <2>2. ASSUME NEW f \in Features, NEW g \in Features, Live(f)', Live(g)',
               ~Cross(f), ~Cross(g), Home(f) = Home(g), pos'[f] <= pos'[g]
        PROVE  f \in ref'[g]
    <3>1. f \in ok /\ g \in ok
      BY <1>6, <2>2
    <3>2. f \in active /\ g \in active
      BY <1>2, <3>1
    <3>3. ASSUME Ahead(g, f) PROVE FALSE
      <4>1. Place(g, active) < Place(f, active)
        BY <1>2, <1>4, <3>2, <3>3, PlaceOrder
      <4>2. pos'[f] = Place(f, active) /\ pos'[g] = Place(g, active)
        BY <1>1, <3>1
      <4>3. Place(f, active) \in Nat /\ Place(g, active) \in Nat
        BY <1>2, PlaceType
      <4>4. QED
        BY <2>2, <4>1, <4>2, <4>3
    <3>4. f = g \/ Ahead(f, g)
      BY <1>4, <2>2, <3>3, AheadOrder
    <3>5. f \in RefOf(g, ok)
      BY <1>2, <1>4, <2>2, <3>1, <3>4, RefAhead, RefStacked
    <3>6. QED
      BY <1>1, <3>1, <3>5
  <2>3. QED
    BY <2>1, <2>2 DEF Stacked
<1>8. ASSUME NEW g \in Features, Live(g)', NEW f \in ref'[g] \ {g}
      PROVE  train'[f] = train'[g] /\ pos'[f] < pos'[g]
  <2>1. g \in ok /\ ref'[g] = RefOf(g, ok)
    BY <1>1, <1>6, <1>8
  <2>2. f \in ok /\ Ahead(f, g)
    BY <1>2, <1>4, <1>8, <2>1, RefAhead
  <2>3. Place(f, active) < Place(g, active)
    BY <1>2, <1>4, <2>1, <2>2, PlaceOrder
  <2>4. f \in Features
    BY <1>2, <2>2
  <2>5. QED
    BY <1>1, <2>1, <2>2, <2>3, <2>4
<1>9. PlanWhole'
  BY <1>1 DEF PlanWhole, Idle
<1>10. MergedLanded'
  BY <1>1 DEF TrainInv, MergedLanded
<1>11. QED
  BY <1>5, <1>7, <1>8, <1>9, <1>10 DEF TrainInv, BuiltBehind

-----------------------------------------------------------------------------

\* Verdicts leave the executor's state alone, and no entry becomes live, is
\* moved or merged by them.
LEMMA VerdictInv ==
  ASSUME TrainInv, Idle, UNCHANGED <<plan, checked, mainVars, trainVars>>,
         status' \in [Features -> Status \ {"merging"}],
         priority' \in [Features -> Int], ejects' \in [Features -> 0 .. MaxEjects],
         train' \in [Features -> 0 .. trains], pos' \in [Features -> Nat],
         ref' \in [Features -> SUBSET Features],
         \A f \in Features : Speculated(f)' =>
            /\ Speculated(f)
            /\ ref'[f] = ref[f] /\ train'[f] = train[f] /\ pos'[f] = pos[f],
         \A f \in Features :
            train'[f] = 0 \/ (train'[f] = train[f] /\ pos'[f] = pos[f]),
         \A f \in Features : status'[f] = "merged" => status[f] = "merged"
  PROVE  TrainInv'
<1>1. plan' = {} /\ checked' = {} /\ plan = {} /\ checked = {}
  BY DEF Idle
<1>2. TrainTypeOK'
  BY <1>1 DEF TrainInv, TrainTypeOK, trainVars, mainVars
<1>3. \A f \in Features : Live(f)' =>
         Live(f) /\ ref'[f] = ref[f] /\ train'[f] = train[f] /\ pos'[f] = pos[f]
  BY <1>1 DEF Live
<1>4. Stacked' /\ BuiltBehind'
  BY <1>3, Shrink DEF TrainInv
<1>5. PlanWhole' /\ MergedLanded'
  BY <1>1 DEF TrainInv, PlanWhole, MergedLanded, mainVars
<1>6. QED
  BY <1>2, <1>4, <1>5 DEF TrainInv

LEMMA ReportInv ==
  ASSUME TrainInv, NEW f \in Features, NEW passed \in BOOLEAN,
         ReportSpecResult(f, passed)
  PROVE  TrainInv'
<1> USE DEF ReportSpecResult
<1>1. TrainTypeOK
  BY DEF TrainInv
<1>2. \A g \in Features : status[g] # "merging"
  BY <1>1 DEF TrainTypeOK, Idle
<1>3. status' \in [Features -> Status \ {"merging"}]
  BY <1>1, <1>2 DEF TrainTypeOK, Status
<1>4. \A g \in Features : Speculated(g)' => Speculated(g)
  BY <1>1 DEF Speculated, TrainTypeOK
<1>5. \A g \in Features : status'[g] = "merged" => status[g] = "merged"
  BY <1>1 DEF TrainTypeOK
<1>6. QED
  BY <1>1, <1>3, <1>4, <1>5, VerdictInv DEF TrainTypeOK

LEMMA ValidateInv ==
  ASSUME TrainInv, NEW mismatched \in SUBSET Features, ValidateClaims(mismatched)
  PROVE  TrainInv'
<1> USE DEF ValidateClaims
<1>1. TrainTypeOK
  BY DEF TrainInv
<1>2. \A g \in Features : status[g] # "merging"
  BY <1>1 DEF TrainTypeOK, Idle
<1>3. status' \in [Features -> Status \ {"merging"}]
  BY <1>1, <1>2 DEF TrainTypeOK, Status
<1>4. \A g \in Features : Speculated(g)' => Speculated(g)
  BY <1>1 DEF Speculated, TrainTypeOK
<1>5. \A g \in Features : status'[g] = "merged" => status[g] = "merged"
  BY <1>1 DEF TrainTypeOK
<1>6. QED
  BY <1>1, <1>3, <1>4, <1>5, VerdictInv DEF TrainTypeOK

LEMMA EjectInv ==
  ASSUME TrainInv, NEW f \in Features, Eject(f)
  PROVE  TrainInv'
<1>1. TrainTypeOK
  BY DEF TrainInv
<1>2. \A g \in Features : status[g] # "merging"
  BY <1>1 DEF TrainTypeOK, Eject, Idle
<1>3. status' \in [Features -> Status \ {"merging"}]
  BY <1>1, <1>2 DEF TrainTypeOK, Status, Eject
<1>4. priority' \in [Features -> Int] /\ ejects' \in [Features -> 0 .. MaxEjects]
  BY <1>1, TrainAssumption DEF TrainTypeOK, Eject
<1>5. /\ train' \in [Features -> 0 .. trains] /\ pos' \in [Features -> Nat]
      /\ ref' \in [Features -> SUBSET Features] /\ trains \in Nat
  BY <1>1 DEF TrainTypeOK, Eject
<1>6. \A g \in Features : Speculated(g)' =>
         /\ Speculated(g)
         /\ ref'[g] = ref[g] /\ train'[g] = train[g] /\ pos'[g] = pos[g]
  BY <1>1 DEF Speculated, TrainTypeOK, Eject
<1>7. \A g \in Features :
         /\ train'[g] = 0 \/ (train'[g] = train[g] /\ pos'[g] = pos[g])
         /\ status'[g] = "merged" => status[g] = "merged"
  BY DEF Eject
<1>8. Idle /\ UNCHANGED <<plan, checked, mainVars, trainVars>>
  BY DEF Eject
<1>9. QED
  BY <1>3, <1>4, <1>5, <1>6, <1>7, <1>8, VerdictInv

LEMMA ResetInv ==
  ASSUME TrainInv, NEW f \in Features, ResetBlocked(f) \/ ResetAbandoned(f)
  PROVE  TrainInv'
<1>1. TrainTypeOK /\ Unplace(f)
  BY DEF TrainInv, ResetBlocked, ResetAbandoned
<1>2. Idle /\ UNCHANGED <<plan, checked, mainVars, trainVars>>
  BY DEF ResetBlocked, ResetAbandoned
<1>3. \A g \in Features : status[g] # "merging"
  BY <1>1, <1>2 DEF TrainTypeOK, Idle
<1>4. status' \in [Features -> Status \ {"merging"}]
  BY <1>1, <1>3 DEF TrainTypeOK, Status, Unplace
<1>5. priority' \in [Features -> Int] /\ ejects' \in [Features -> 0 .. MaxEjects]
  BY <1>1, TrainAssumption DEF TrainTypeOK, ResetBlocked, ResetAbandoned
<1>6. /\ train' \in [Features -> 0 .. trains] /\ pos' \in [Features -> Nat]
      /\ ref' \in [Features -> SUBSET Features]
  BY <1>1 DEF TrainTypeOK, Unplace
<1>7. \A g \in Features : Speculated(g)' =>
         /\ Speculated(g)
         /\ ref'[g] = ref[g] /\ train'[g] = train[g] /\ pos'[g] = pos[g]
  BY <1>1 DEF Speculated, TrainTypeOK, Unplace
<1>8. \A g \in Features :
         /\ train'[g] = 0 \/ (train'[g] = train[g] /\ pos'[g] = pos[g])
         /\ status'[g] = "merged" => status[g] = "merged"
  BY <1>1 DEF TrainTypeOK, Unplace
<1>9. QED
  BY <1>2, <1>4, <1>5, <1>6, <1>7, <1>8, VerdictInv

-----------------------------------------------------------------------------

\* The nodes of a merge are entries that have passed.
LEMMA NodesWhole ==
  ASSUME TrainTypeOK, NEW n \in Nodes
  PROVE  /\ n \in Node /\ n.entries # {}
         /\ \A f \in n.entries : f \in Features /\ status[f] = "spec_passed"
         /\ \/ \E f \in Features : n.entries = {f}
            \/ \A f, g \in n.entries : ~Cross(f) /\ Home(f) = Home(g)
<1>1. members \subseteq Features /\ Features \subseteq Int /\ Prefixes \subseteq Int
  BY TrainAssumption DEF TrainTypeOK
<1>2. CrossReady \subseteq Features
  BY <1>1 DEF CrossReady
<1>3. ASSUME NEW C \in SUBSET CrossReady PROVE Cardinality(C) \in Nat
  <2>1. IsFiniteSet(C)
    BY <1>2, FS_Subset, TrainAssumption
  <2>2. QED
    BY <2>1, FS_CardinalityType
<1>4. CASE \E f \in CrossReady :
             n = [wave |-> CrossWave(f), kind |-> 0, id |-> f, entries |-> {f}]
  <2>1. PICK f \in CrossReady :
             n = [wave |-> CrossWave(f), kind |-> 0, id |-> f, entries |-> {f}]
    BY <1>4
  <2>2. CrossWave(f) \in Nat
    BY <1>3 DEF CrossWave
  <2>3. f \in Features /\ f \in Int /\ status[f] = "spec_passed"
    BY <1>1, <1>2 DEF CrossReady
  <2>4. n.entries = {f} /\ n \in Node
    BY <2>1, <2>2, <2>3 DEF Node
  <2>5. QED
    BY <2>3, <2>4
<1>5. CASE \E p \in ReadyPartitions :
             n = [wave |-> PartitionWave(p), kind |-> 1, id |-> p,
                  entries |-> Residents(p)]
  <2>1. PICK p \in ReadyPartitions :
             n = [wave |-> PartitionWave(p), kind |-> 1, id |-> p,
                  entries |-> Residents(p)]
    BY <1>5
  <2>2. PartitionWave(p) \in Nat
    <3> DEFINE C == {g \in CrossReady : \E f \in DependsOn(p) : pos[g] <= pos[f]}
    <3>1. Cardinality(C) \in Nat
      BY <1>3
    <3>2. PartitionWave(p) = 1 + Cardinality(C)
      BY DEF PartitionWave
    <3> HIDE DEF C
    <3>3. QED
      BY <3>1, <3>2
  <2>3. p \in Int /\ PartitionReady(p)
    BY <1>1, <2>1 DEF ReadyPartitions, Unclaimed
  <2>4. Residents(p) \subseteq Features
    BY <1>1 DEF Residents
  <2>5. n.entries = Residents(p) /\ n \in Node
    BY <2>1, <2>2, <2>3, <2>4 DEF Node
  <2>6. \A f \in Residents(p) : ~Cross(f) /\ Home(f) = p
    BY DEF Residents
  <2>7. QED
    BY <2>3, <2>4, <2>5, <2>6 DEF PartitionReady
<1>6. QED
  BY <1>4, <1>5 DEF Nodes

LEMMA ExecuteInv == ASSUME TrainInv, ExecuteWaveMerge PROVE TrainInv'
<1> USE DEF ExecuteWaveMerge, entryVars, mainVars
<1>1. TrainTypeOK
  BY DEF TrainInv
<1>2. TrainTypeOK'
  BY <1>1, NodesWhole DEF TrainTypeOK
<1>3. \A f \in Features : Live(f)' => Live(f)
  BY <1>1, NodesWhole DEF Live, Speculated
<1>4. Stacked' /\ BuiltBehind'
  BY <1>1, <1>3, Shrink DEF TrainInv
<1>5. PlanWhole'
  BY <1>1, NodesWhole DEF PlanWhole
<1>6. MergedLanded'
  BY DEF TrainInv, MergedLanded
<1>7. QED
  BY <1>2, <1>4, <1>5, <1>6 DEF TrainInv

\* A node's entries are all in the ref that main is moved to.
LEMMA NodeInRef ==
  ASSUME TrainInv, NEW n \in plan
  PROVE  /\ n.entries \subseteq ref[FinalEntry(n.entries)]
         /\ FinalEntry(n.entries) \in n.entries /\ n.entries \subseteq Features
<1>1. TrainTypeOK /\ n.entries \in SUBSET Features /\ n.entries # {}
  BY DEF TrainInv, TrainTypeOK, Node, PlanWhole
<1>2. /\ FinalEntry(n.entries) \in n.entries
      /\ \A f \in n.entries : pos[f] <= pos[FinalEntry(n.entries)]
  BY <1>1, FinalEntryLast
<1>3. \A f \in n.entries : f \in Features /\ Live(f)
  BY <1>1 DEF Live
<1>4. CASE \E f \in Features : n.entries = {f}
  BY <1>2, <1>3, <1>4 DEF TrainInv, Stacked
<1>5. CASE \A f, g \in n.entries : ~Cross(f) /\ Home(f) = Home(g)
  BY <1>2, <1>3, <1>5 DEF TrainInv, Stacked
<1>6. QED
  BY <1>1, <1>2, <1>4, <1>5 DEF TrainInv, PlanWhole

\* MainBuilt is inductive by itself: while main is being set nothing else is.
LEMMA MainStep == MainBuilt /\ [Next]_vars => MainBuilt'
<1> SUFFICES ASSUME MainBuilt, [Next]_vars PROVE MainBuilt'
  OBVIOUS
<1>1. CASE \E aged, conflicting \in SUBSET Features : Compose(aged, conflicting)
  BY <1>1 DEF Compose, Idle, MainBuilt
<1>2. ASSUME Idle, checked' = checked, UNCHANGED mainVars
      PROVE  MainBuilt'
  BY <1>2 DEF Idle, mainVars, MainBuilt
<1>3. ASSUME \/ \E f \in Features, passed \in BOOLEAN : ReportSpecResult(f, passed)
             \/ \E F \in SUBSET Features : ValidateClaims(F)
             \/ \E f \in Features : Eject(f) \/ ResetBlocked(f) \/ ResetAbandoned(f)
             \/ ExecuteWaveMerge
      PROVE  MainBuilt'
  BY <1>2, <1>3 DEF ReportSpecResult, ValidateClaims, Eject, ResetBlocked,
                    ResetAbandoned, ExecuteWaveMerge
<1>4. ASSUME NEW n \in plan, CheckNode(n) PROVE MainBuilt'
  <2>1. FinalEntry(n.entries)' = FinalEntry(n.entries)
    BY <1>4 DEF CheckNode, FinalEntry
  <2>2. QED
    BY <1>4, <2>1 DEF CheckNode, Descends, MainBuilt, mainVars
<1>5. ASSUME NEW n \in plan, CheckFails(n) \/ UpdateFails(n) PROVE MainBuilt'
  BY <1>5 DEF CheckFails, UpdateFails, MainBuilt, mainVars
<1>6. ASSUME NEW n \in plan, UpdateMain(n) PROVE MainBuilt'
  BY <1>6 DEF UpdateMain, MainBuilt
<1>7. CASE OutsidePush \/ UNCHANGED vars
  BY <1>7 DEF OutsidePush, vars, entryVars, mainVars, MainBuilt, FinalEntry
<1>8. QED
  BY <1>1, <1>3, <1>4, <1>5, <1>6, <1>7 DEF Next

\* Replacing main by the ref of a node adds to it what the ref has.
LEMMA UpdateAdds ==
  ASSUME MainBuilt, TrainInv, NEW n \in plan, UpdateMain(n)
  PROVE  main' = main \cup ref[FinalEntry(n.entries)]
<1>1. n.entries # {}
  BY DEF TrainInv, PlanWhole
<1>2. landed \subseteq ref[FinalEntry(n.entries)]
  BY <1>1 DEF UpdateMain, MainBuilt
<1>3. QED
  BY <1>2 DEF UpdateMain, MainBuilt

LEMMA ExecutorInv ==
  ASSUME MainBuilt, TrainInv, NEW n \in plan,
         CheckNode(n) \/ CheckFails(n) \/ UpdateMain(n) \/ UpdateFails(n)
  PROVE  TrainInv'
<1>1. TrainTypeOK /\ n.entries \in SUBSET Features
  BY DEF TrainInv, TrainTypeOK, Node
<1>2. /\ FinalEntry(n.entries) \in Features
      /\ n.entries \subseteq ref[FinalEntry(n.entries)]
  BY NodeInRef
<1>3. UNCHANGED <<priority, ejects, train, pos, ref, trains, members>>
  BY DEF CheckNode, CheckFails, UpdateMain, UpdateFails, entryVars, trainVars
<1>4. plan' \subseteq plan /\ \A f \in n.entries : Live(f)
  BY DEF CheckNode, CheckFails, UpdateMain, UpdateFails, Live
<1>5. \A f \in Features \ n.entries : status'[f] = status[f]
  BY DEF CheckNode, CheckFails, UpdateMain, UpdateFails, entryVars
<1>6. \A f \in Features : Live(f)' => Live(f)
  BY <1>4, <1>5 DEF Live, Speculated
<1>7. Stacked' /\ BuiltBehind'
  BY <1>1, <1>3, <1>6, Shrink DEF TrainInv
<1>8. PlanWhole'
  BY <1>4 DEF TrainInv, PlanWhole
<1>9. TrainTypeOK'
  <2>1. status' \in [Features -> Status]
    BY <1>1 DEF CheckNode, CheckFails, UpdateMain, UpdateFails, TrainTypeOK, Status,
                entryVars
  <2>2. \A f \in Features : status'[f] = "merging" <=> f \in checked'
    BY <1>1 DEF CheckNode, CheckFails, UpdateMain, UpdateFails, TrainTypeOK, entryVars
  <2>3. /\ refsKept' \in BOOLEAN /\ moved' \in BOOLEAN
        /\ checked' \subseteq Features /\ plan' \subseteq Node
    BY <1>1, <1>4 DEF CheckNode, CheckFails, UpdateMain, UpdateFails, TrainTypeOK,
                trainVars, mainVars
  <2>4. main' \subseteq Features /\ base' \subseteq main' /\ landed' \subseteq main'
    BY <1>1, <1>2 DEF CheckNode, CheckFails, UpdateMain, UpdateFails, TrainTypeOK,
                mainVars
  <2>5. QED
    BY <1>1, <1>3, <2>1, <2>2, <2>3, <2>4 DEF TrainTypeOK
<1>10. MergedLanded'
  <2>1. ASSUME NEW f \in Features, status'[f] = "merged", f \notin n.entries
        PROVE  f \in main'
    <3>1. f \in main
      BY <1>5, <2>1 DEF TrainInv, MergedLanded
    <3>2. main \subseteq main'
      BY UpdateAdds DEF CheckNode, CheckFails, UpdateFails, mainVars
    <3>3. QED
      BY <3>1, <3>2
  <2>2. ASSUME NEW f \in n.entries, status'[f] = "merged" PROVE f \in main'
    <3>1. CASE UpdateMain(n)
      BY <1>2, <2>2, <3>1, UpdateAdds
    <3>2. CASE CheckFails(n)
      BY <1>1, <2>2, <3>2 DEF CheckFails, TrainInv, MergedLanded, entryVars, mainVars
    <3>3. CASE CheckNode(n) \/ UpdateFails(n)
      BY <1>1, <2>2, <3>3 DEF CheckNode, UpdateFails
    <3>4. QED
      BY <3>1, <3>2, <3>3
  <2>3. QED
    BY <2>1, <2>2 DEF MergedLanded
<1>11. QED
  BY <1>7, <1>8, <1>9, <1>10 DEF TrainInv

LEMMA PushInv == ASSUME TrainInv, OutsidePush PROVE TrainInv'
<1> USE DEF OutsidePush, entryVars, trainVars
<1>1. TrainTypeOK /\ TrainTypeOK'
  BY DEF TrainInv, TrainTypeOK
<1>2. \A f \in Features : Live(f)' <=> Live(f)
  BY DEF Live, Speculated
<1>3. Stacked' /\ BuiltBehind'
  BY <1>1, <1>2, Shrink DEF TrainInv
<1>4. PlanWhole' /\ MergedLanded'
  BY DEF TrainInv, PlanWhole, MergedLanded
<1>5. QED
  BY <1>1, <1>3, <1>4 DEF TrainInv

LEMMA InvStep == MainBuilt /\ TrainInv /\ [Next]_vars => TrainInv'
<1> SUFFICES ASSUME MainBuilt, TrainInv, [Next]_vars PROVE TrainInv'
  OBVIOUS
<1>1. CASE \E aged, conflicting \in SUBSET Features : Compose(aged, conflicting)
  BY <1>1, ComposeInv
<1>2. CASE \E f \in Features, passed \in BOOLEAN : ReportSpecResult(f, passed)
  BY <1>2, ReportInv
<1>3. CASE \E F \in SUBSET Features : ValidateClaims(F)
  BY <1>3, ValidateInv
<1>4. CASE \E f \in Features : Eject(f) \/ ResetBlocked(f) \/ ResetAbandoned(f)
  BY <1>4, EjectInv, ResetInv
<1>5. CASE ExecuteWaveMerge
  BY <1>5, ExecuteInv
<1>6. CASE \E n \in plan :
             CheckNode(n) \/ CheckFails(n) \/ UpdateMain(n) \/ UpdateFails(n)
  BY <1>6, ExecutorInv
<1>7. CASE OutsidePush
  BY <1>7, PushInv
<1>8. CASE UNCHANGED vars
  <2> USE <1>8 DEF vars, entryVars, trainVars, mainVars
  <2>1. TrainTypeOK /\ TrainTypeOK'
    BY DEF TrainInv, TrainTypeOK
  <2>2. \A f \in Features : Live(f)' <=> Live(f)
    BY DEF Live, Speculated
  <2>3. Stacked' /\ BuiltBehind'
    BY <2>1, <2>2, Shrink DEF TrainInv
  <2>4. PlanWhole' /\ MergedLanded'
    BY DEF TrainInv, PlanWhole, MergedLanded
  <2>5. QED
    BY <2>1, <2>3, <2>4 DEF TrainInv
<1>9. QED
  BY <1>1, <1>2, <1>3, <1>4, <1>5, <1>6, <1>7, <1>8 DEF Next

LEMMA Invariance == Spec => [](MainBuilt /\ TrainInv)
<1>1. Init => MainBuilt
  BY DEF Init, MainBuilt
<1>2. QED
  BY <1>1, InvInit, InvStep, MainStep, PTL DEF Spec

\* Types, and that only what the executor is at is merging.
THEOREM TrainTyped == Spec => []TrainTypeOK
<1>1. TrainInv => TrainTypeOK
  BY DEF TrainInv
<1>2. QED
  BY <1>1, Invariance, PTL

\* Whatever fails in between, an entry reported as merged is in main.
THEOREM MergedIsLanded == Spec => []MergedLanded
<1>1. TrainInv => MergedLanded
  BY DEF TrainInv
<1>2. QED
  BY <1>1, Invariance, PTL

\* Of every ejection: no speculation that shares a prefix with the ejected
\* entry goes on counting on top of it.
THEOREM EjectionIsClean == Spec => EjectedNotBuiltOn
<1> DEFINE Clean == \A f \in Features : ejects'[f] > ejects[f] /\ train[f] # 0 =>
          \A g \in Features : Speculated(g)' /\ Overlap(f, g) => f \notin ref'[g]
<1>1. TrainInv /\ [Next]_vars => [Clean]_vars
  <2> SUFFICES ASSUME TrainInv, Next, NEW f \in Features, ejects'[f] > ejects[f],
                      train[f] # 0, NEW g \in Features, Speculated(g)', Overlap(f, g),
                      f \in ref'[g]
               PROVE  FALSE
    OBVIOUS
  <2>1. ejects \in [Features -> Int]
    BY DEF TrainInv, TrainTypeOK
  <2>2. PICK h \in Features : Eject(h)
    <3>1. ejects' # ejects
      BY <2>1
    <3>2. ejects'[f] # 0
      BY <2>1 DEF TrainInv, TrainTypeOK
    <3>3. ASSUME NEW h \in Features, ResetAbandoned(h) PROVE FALSE
      BY <2>1, <3>2, <3>3 DEF ResetAbandoned
    <3>4. QED
      BY <3>1, <3>3 DEF Next, Compose, ReportSpecResult, ValidateClaims, ResetBlocked,
         ExecuteWaveMerge, CheckNode, CheckFails, UpdateMain, UpdateFails, OutsidePush,
         entryVars
  <2>3. h = f /\ Idle
    BY <2>1, <2>2 DEF Eject
  <2>4. g # f /\ g \notin Requeued(f) /\ status'[g] = status[g] /\ ref'[g] = ref[g]
    BY <2>2, <2>3 DEF Eject, Speculated
  <2>5. Live(g)
    BY <2>4 DEF Live, Speculated
  <2>6. train[f] = train[g] /\ pos[f] < pos[g]
    BY <2>4, <2>5 DEF TrainInv, BuiltBehind
  <2>7. pos[f] \in Nat /\ pos[g] \in Nat
    BY DEF TrainInv, TrainTypeOK
  <2>8. QED
    BY <2>4, <2>6, <2>7 DEF Requeued, Successors
<1>2. Spec => [][Clean]_vars
  BY <1>1, Invariance, PTL DEF Spec
<1>3. QED
  BY <1>2 DEF EjectedNotBuiltOn

-----------------------------------------------------------------------------
(* Across partitions.  With any number of cross entries, what a ref holds  *)
(* besides its own entry is known, and so is what lands with it.           *)

\* Live cross entries are stacked on one another.
CrossChained ==
    \A f, g \in Features :
        Live(f) /\ Live(g) /\ Cross(f) /\ Cross(g) => f \in ref[g] \/ g \in ref[f]

\* A live entry is stacked on the live cross entries that span its partition,
\* or on one that bypasses them.
StackedOnCross ==
    \A f, g \in Features :
        Live(f) /\ Live(g) /\ ~Cross(g) /\ Spans(f, Home(g))
        => f \in ref[g] \/ Bypassed(f, g)

\* A cross entry below a resident of p spans p, or lies below one that does.
BelowSpanning(f, p) ==
    \/ Spans(f, p)
    \/ \E h \in members \ {f} : Spans(h, p) /\ (Live(h) => f \in ref[h])

\* A live entry is of the last train, and stacked on members of it: on cross
\* entries, and if it is none itself on those of its own partition.
RefShape ==
    \A g \in Features : Live(g) =>
        /\ g \in members /\ train[g] # 0
        /\ \A f \in ref[g] \ {g} :
              /\ f \in members
              /\ ~Cross(f) => ~Cross(g) /\ Home(f) = Home(g)
              /\ Cross(f) /\ ~Cross(g) => BelowSpanning(f, Home(g))

\* No node of the merge waits for f.
Loose(f) == Smuggled(f) /\ \A m \in plan : f \notin m.entries

\* What a node's ref holds beside its entries has landed, lands before it, or is
\* a cross entry that has not passed.
PlanClosed ==
    \A n \in plan : \A f \in ref[FinalEntry(n.entries)] :
        \/ f \in n.entries \cup main
        \/ \E m \in plan : m.entries = {f} /\ m.wave < n.wave
        \/ Loose(f)

CrossInv == CrossChained /\ StackedOnCross /\ RefShape /\ PlanClosed

\* An entry of one prefix is at home there.
LEMMA HomeOf ==
  ASSUME NEW f \in Features, ~Cross(f), NEW p \in Claims[f]
  PROVE  Home(f) = p
<1>1. IsFiniteSet(Claims[f])
  BY FS_Subset, TrainAssumption
<1>2. Cardinality(Claims[f]) \in Nat /\ Cardinality(Claims[f]) # 0
  BY <1>1, FS_CardinalityType, FS_EmptySet
<1>3. Cardinality(Claims[f]) = 1
  BY <1>2 DEF Cross
<1>4. \E x : Claims[f] = {x}
  BY <1>1, <1>3, FS_Singleton
<1>5. Claims[f] = {p}
  BY <1>4
<1>6. QED
  BY <1>5 DEF Home

\* A non-empty set of features has one with the greatest id.
LEMMA GreatestFeature ==
  ASSUME NEW S \in SUBSET Features, S # {}
  PROVE  \E h \in S : \A x \in S : x <= h
<1> DEFINE After(f) == {x \in S : x > f}
           T == {After(f) : f \in S}
<1>1. S \subseteq Int /\ IsFiniteSet(S)
  <2>1. Features \subseteq Int /\ IsFiniteSet(Features)
    BY TrainAssumption
  <2>2. IsFiniteSet(S)
    BY <2>1, FS_Subset
  <2>3. QED
    BY <2>1, <2>2
<1>2. IsWellFoundedOn(StrictSubsetOrdering(S), SUBSET S)
  BY <1>1, FS_StrictSubsetOrderingWellFounded, FS_FiniteSubsetsOfFinite
<1>3. T \subseteq SUBSET S /\ T # {}
  OBVIOUS
<1>4. PICK U \in T : \A V \in T : ~(<<V, U>> \in StrictSubsetOrdering(S))
  BY <1>2, <1>3, WFMin
<1>5. PICK f \in S : U = After(f)
  BY <1>4
<1>6. ASSUME NEW x \in S, x > f PROVE FALSE
  <2> x \in Int /\ f \in Int
    BY <1>1
  <2>1. x \in After(f) /\ x \notin After(x) /\ After(x) \subseteq After(f)
    <3>1. x \in After(f) /\ x \notin After(x)
      BY <1>6
    <3>2. ASSUME NEW y \in After(x) PROVE y \in After(f)
      <4>1. y \in S /\ y \in Int /\ y > x
        BY <1>1
      <4>2. y > f
        BY <1>6, <4>1
      <4>3. QED
        BY <4>1, <4>2
    <3>3. QED
      BY <3>1, <3>2
  <2>2. <<After(x), After(f)>> \in StrictSubsetOrdering(S)
    BY <2>1 DEF StrictSubsetOrdering
  <2>3. QED
    BY <1>4, <1>5, <2>2
<1>7. \A x \in S : x <= f
  BY <1>1, <1>6
<1>8. QED
  BY <1>7

LEMMA CrossSerialized ==
  ASSUME TrainTypeOK, Stacked, CrossChained, StackedOnCross
  PROVE  OverlapSerialized
<1> SUFFICES ASSUME NEW f \in Features, NEW g \in Features,
                    Speculated(f), Speculated(g), Overlap(f, g)
             PROVE  f \in ref[g] \/ g \in ref[f] \/ Bypassed(f, g) \/ Bypassed(g, f)
  BY DEF OverlapSerialized
<1>1. Live(f) /\ Live(g)
  BY DEF Live
<1>2. PICK p \in Claims[f] : p \in Claims[g]
  BY DEF Overlap
<1>3. CASE Cross(f) /\ Cross(g)
  BY <1>1, <1>3 DEF CrossChained
<1>4. CASE Cross(f) /\ ~Cross(g)
  BY <1>1, <1>2, <1>4, HomeOf DEF StackedOnCross, Spans
<1>5. CASE ~Cross(f) /\ Cross(g)
  BY <1>1, <1>2, <1>5, HomeOf DEF StackedOnCross, Spans
<1>6. CASE ~Cross(f) /\ ~Cross(g)
  <2>1. Home(f) = Home(g)
    BY <1>2, <1>6, HomeOf
  <2>2. pos[f] \in Nat /\ pos[g] \in Nat
    BY DEF TrainTypeOK
  <2>3. pos[f] <= pos[g] \/ pos[g] <= pos[f]
    BY <2>2
  <2>4. QED
    BY <1>1, <1>6, <2>1, <2>3 DEF Stacked
<1>7. QED
  BY <1>3, <1>4, <1>5, <1>6

\* A step that makes no entry live and composes no train.
LEMMA CrossShrink ==
  ASSUME TrainTypeOK, CrossChained, StackedOnCross, RefShape, members' = members,
         \A f \in Features : Live(f)' =>
            Live(f) /\ ref'[f] = ref[f] /\ train'[f] = train[f]
  PROVE  CrossChained' /\ StackedOnCross' /\ RefShape'
<1>1. CrossChained'
  BY DEF CrossChained, Cross
<1>2. StackedOnCross'
  BY DEF StackedOnCross, Bypassed, Spans, Cross, Home
<1>3. ASSUME NEW g \in Features, Live(g)'
      PROVE  /\ g \in members' /\ train'[g] # 0
             /\ \A f \in ref'[g] \ {g} :
                   /\ f \in members'
                   /\ ~Cross(f) => ~Cross(g) /\ Home(f) = Home(g)
                   /\ Cross(f) /\ ~Cross(g) => BelowSpanning(f, Home(g))'
  <2>1. Live(g) /\ ref'[g] = ref[g] /\ train'[g] = train[g] /\ members \subseteq Features
    BY <1>3 DEF TrainTypeOK
  <2>2. ASSUME NEW f, BelowSpanning(f, Home(g)) PROVE BelowSpanning(f, Home(g))'
    BY <2>1, <2>2 DEF BelowSpanning, Spans, Cross, Home
  <2>3. QED
    BY <2>1, <2>2 DEF RefShape
<1>4. QED
  BY <1>1, <1>2, <1>3 DEF RefShape, Cross, Home

LEMMA ComposeCross ==
  ASSUME TrainInv, NEW aged \in SUBSET Features,
         NEW conflicting \in SUBSET Features, Compose(aged, conflicting)
  PROVE  CrossInv'
<1> DEFINE active == {f \in Features :
                         /\ status[f] \notin TERMINAL_STATUSES
                         /\ status[f] # "blocked" \/ f \in aged}
           ok == active \ conflicting
<1>1. /\ Idle
      /\ status' = [f \in Features |->
                       IF f \in ok THEN "speculating"
                       ELSE IF f \in conflicting THEN "blocked" ELSE status[f]]
      /\ ref' = [f \in Features |->
                    IF f \in ok THEN RefOf(f, ok)
                    ELSE IF f \in conflicting THEN {} ELSE ref[f]]
      /\ train' = [f \in Features |-> IF f \in ok THEN trains + 1 ELSE train[f]]
      /\ members' = active /\ UNCHANGED <<plan, checked>>
  BY DEF Compose
<1>2. ok \in SUBSET Features /\ ok \subseteq active
  OBVIOUS
<1>3. \A f \in Features : f \notin ok /\ f \notin conflicting =>
          status[f] \in {"merged", "abandoned", "blocked"}
  BY DEF TERMINAL_STATUSES
<1> HIDE DEF active, ok
<1>4. \A f \in Features : Live(f)' => f \in ok
  BY <1>1, <1>3 DEF Live, Speculated, Idle
<1>5. TrainTypeOK /\ Features \subseteq Int /\ trains \in Nat
  BY TrainAssumption DEF TrainInv, TrainTypeOK
<1>6. CrossChained'
  <2> SUFFICES ASSUME NEW f \in ok, NEW g \in ok, Cross(f), Cross(g)
               PROVE  f \in RefOf(g, ok) \/ g \in RefOf(f, ok)
    BY <1>1, <1>2, <1>4 DEF CrossChained
  <2>1. f = g \/ Precedes(f, g) \/ Precedes(g, f)
    BY <1>2, <1>5, PrecedesOrder
  <2>2. QED
    BY <2>1 DEF RefOf, CrossRef
<1>7. StackedOnCross'
  <2> SUFFICES ASSUME NEW f \in ok, NEW g \in ok, ~Cross(g), Spans(f, Home(g))
               PROVE  \/ f \in RefOf(g, ok)
                      \/ \E h \in RefOf(g, ok) : h > f /\ Spans(h, Home(g))
    BY <1>1, <1>2, <1>4 DEF StackedOnCross, Bypassed, Spans
  <2> DEFINE S == {x \in ok : Spans(x, Home(g))}
  <2>1. S \in SUBSET Features /\ S # {}
    BY <1>2
  <2>2. PICK h \in S : \A x \in S : x <= h
    BY <2>1, GreatestFeature
  <2>3. h \in CrossRef(h, ok)
    BY <2>2 DEF CrossRef, Spans
  <2>4. h \in BaseOf(Home(g), ok)
    BY <2>2, <2>3 DEF BaseOf
  <2>5. h \in RefOf(g, ok)
    BY <2>4 DEF RefOf
  <2>6. f <= h /\ f \in Int /\ h \in Int
    BY <1>2, <1>5, <2>2
  <2>7. QED
    BY <2>2, <2>5, <2>6
<1>8. RefShape'
  <2>1. ASSUME NEW g \in ok, NEW f \in RefOf(g, ok) \ {g}
        PROVE  /\ f \in ok
               /\ ~Cross(f) => ~Cross(g) /\ Home(f) = Home(g)
               /\ Cross(f) /\ ~Cross(g) =>
                     \/ Spans(f, Home(g))
                     \/ \E h \in ok \ {f} : Spans(h, Home(g)) /\ f \in RefOf(h, ok)
    <3>1. f \in ok
      BY <1>2, <1>5, <2>1, RefAhead
    <3>2. CASE Cross(g)
      BY <2>1, <3>1, <3>2 DEF RefOf, CrossRef
    <3>3. CASE ~Cross(g) /\ f \in BaseOf(Home(g), ok)
      <4>1. PICK h \in ok : Spans(h, Home(g)) /\ f \in CrossRef(h, ok)
        BY <3>3 DEF BaseOf
      <4>2. Cross(f) /\ Cross(h) /\ f \in RefOf(h, ok)
        BY <4>1 DEF CrossRef, Spans, RefOf
      <4>3. QED
        BY <3>1, <3>3, <4>1, <4>2
    <3>4. CASE ~Cross(g) /\ f \notin BaseOf(Home(g), ok)
      BY <2>1, <3>1, <3>4 DEF RefOf
    <3>5. QED
      BY <3>2, <3>3, <3>4
  <2>2. ASSUME NEW g \in ok, NEW f \in RefOf(g, ok) \ {g}, Cross(f), ~Cross(g)
        PROVE  BelowSpanning(f, Home(g))'
    <3>1. CASE Spans(f, Home(g))
      BY <3>1 DEF BelowSpanning, Spans, Cross, Home
    <3>2. ASSUME NEW h \in ok \ {f}, Spans(h, Home(g)), f \in RefOf(h, ok)
          PROVE  BelowSpanning(f, Home(g))'
      <4>1. h \in members' /\ f \in ref'[h]
        BY <1>1, <1>2, <3>2
      <4>2. QED
        BY <3>2, <4>1 DEF BelowSpanning, Spans, Cross, Home
    <3>3. QED
      BY <2>1, <2>2, <3>1, <3>2
  <2>3. \A g \in ok : ref'[g] = RefOf(g, ok) /\ train'[g] # 0 /\ g \in members'
    BY <1>1, <1>2, <1>5
  <2>4. \A f \in ok : f \in members'
    BY <1>1, <1>2
  <2>5. ASSUME NEW g \in Features, Live(g)'
        PROVE  /\ g \in members' /\ train'[g] # 0
               /\ \A f \in ref'[g] \ {g} :
                     /\ f \in members'
                     /\ ~Cross(f) => ~Cross(g) /\ Home(f) = Home(g)
                     /\ Cross(f) /\ ~Cross(g) => BelowSpanning(f, Home(g))'
    <3>1. g \in ok /\ ref'[g] = RefOf(g, ok)
      BY <1>4, <2>3, <2>5
    <3>2. QED
      BY <2>1, <2>2, <2>3, <2>4, <3>1
  <2>6. QED
    BY <2>5 DEF RefShape, Cross, Home
<1>9. PlanClosed'
  BY <1>1 DEF PlanClosed, Idle
<1>10. QED
  BY <1>6, <1>7, <1>8, <1>9 DEF CrossInv

\* A cross entry's wave comes after those of the cross entries placed before it.
LEMMA CrossWaveOrder ==
  ASSUME TrainTypeOK, NEW f \in CrossReady, NEW g \in CrossReady, pos[f] < pos[g]
  PROVE  CrossWave(f) < CrossWave(g)
<1> DEFINE C == {h \in CrossReady : pos[h] <= pos[f]}
           D == {h \in CrossReady : pos[h] <= pos[g]}
<1>1. CrossReady \subseteq Features /\ \A h \in CrossReady : pos[h] \in Nat
  BY DEF CrossReady, TrainTypeOK
<1>2. C \subseteq D /\ g \in D /\ g \notin C /\ D \subseteq Features
  BY <1>1
<1>3. IsFiniteSet(D) /\ IsFiniteSet(C)
  BY <1>2, FS_Subset, TrainAssumption
<1>4. Cardinality(C) <= Cardinality(D) /\ Cardinality(C) # Cardinality(D)
  BY <1>2, <1>3, FS_Subset
<1>5. Cardinality(C) \in Nat /\ Cardinality(D) \in Nat
  BY <1>3, FS_CardinalityType
<1>6. CrossWave(f) = Cardinality(C) /\ CrossWave(g) = Cardinality(D)
  BY DEF CrossWave
<1> HIDE DEF C, D
<1>7. QED
  BY <1>4, <1>5, <1>6

\* A partition's wave comes after those of the cross entries that span it, and
\* of all that were placed before one of these.
LEMMA WaveOrder ==
  ASSUME TrainTypeOK, NEW p, NEW h \in DependsOn(p), NEW f \in Features,
         pos[f] <= pos[h]
  PROVE  CrossWave(f) < PartitionWave(p)
<1> DEFINE C == {g \in CrossReady : pos[g] <= pos[f]}
           D == {g \in CrossReady : \E k \in DependsOn(p) : pos[g] <= pos[k]}
<1>1. /\ CrossReady \subseteq Features /\ h \in Features
      /\ \A g \in Features : pos[g] \in Nat
  BY DEF CrossReady, DependsOn, TrainTypeOK
<1>2. C \subseteq D /\ D \subseteq Features
  BY <1>1
<1>3. IsFiniteSet(D) /\ IsFiniteSet(C)
  BY <1>2, FS_Subset, TrainAssumption
<1>4. Cardinality(C) <= Cardinality(D)
  BY <1>2, <1>3, FS_Subset
<1>5. Cardinality(C) \in Nat /\ Cardinality(D) \in Nat
  BY <1>3, FS_CardinalityType
<1>6. CrossWave(f) = Cardinality(C) /\ PartitionWave(p) = 1 + Cardinality(D)
  BY DEF CrossWave, PartitionWave
<1> HIDE DEF C, D
<1>7. QED
  BY <1>4, <1>5, <1>6

\* A cross entry of the train below another live one: it merges in an earlier
\* wave, or it has not passed.
LEMMA BelowCross ==
  ASSUME TrainInv, RefShape, Idle, NEW h \in Features, Live(h), Cross(h),
         NEW f \in ref[h] \ {h}
  PROVE  \/ f \in CrossReady /\ pos[f] < pos[h]
         \/ Smuggled(f) /\ status[f] # "spec_passed"
<1>1. TrainTypeOK
  BY DEF TrainInv
<1>2. f \in members /\ f \in Features /\ Cross(f)
  BY <1>1 DEF RefShape, TrainTypeOK
<1>3. status[f] # "merging"
  BY <1>1, <1>2 DEF TrainTypeOK, Idle
<1>4. CASE status[f] = "spec_passed"
  <2>1. Live(f)
    BY <1>4 DEF Live, Speculated
  <2>2. f \in ref[f] /\ train[f] # 0
    BY <1>2, <2>1 DEF TrainInv, Stacked, RefShape
  <2>3. pos[f] < pos[h]
    BY <2>2 DEF TrainInv, BuiltBehind
  <2>4. QED
    BY <1>2, <1>4, <2>2, <2>3 DEF CrossReady
<1>5. CASE status[f] # "spec_passed"
  BY <1>2, <1>3, <1>5 DEF Smuggled
<1>6. QED
  BY <1>4, <1>5

LEMMA ExecuteCross ==
  ASSUME TrainInv, CrossInv, ExecuteWaveMerge
  PROVE  CrossInv'
<1>1. /\ plan' = Nodes /\ ~Deadlocked /\ Idle
      /\ UNCHANGED <<entryVars, members, main>>
  BY DEF ExecuteWaveMerge, mainVars
<1>2. TrainTypeOK /\ RefShape
  BY DEF TrainInv, CrossInv
<1>3. \A f \in Features : Live(f)' => Live(f)
  BY <1>1, <1>2, NodesWhole DEF Live, Speculated, entryVars
<1>4. CrossChained' /\ StackedOnCross' /\ RefShape'
  BY <1>1, <1>2, <1>3, CrossShrink DEF CrossInv, entryVars
<1>5. ASSUME NEW n \in Nodes, NEW f \in ref[FinalEntry(n.entries)], f \notin n.entries
      PROVE  \/ \E m \in Nodes : m.entries = {f} /\ m.wave < n.wave
             \/ Smuggled(f) /\ status[f] # "spec_passed"
  <2> DEFINE g == FinalEntry(n.entries)
  <2>1. /\ n.entries \in SUBSET Features /\ n.entries # {}
        /\ \A h \in n.entries : status[h] = "spec_passed"
    BY <1>2, NodesWhole
  <2>2. g \in n.entries
    BY <1>2, <2>1, FinalEntryLast
  <2>3. g \in Features /\ Live(g) /\ f \in ref[g] \ {g}
    BY <1>5, <2>1, <2>2 DEF Live, Speculated
  <2>4. /\ f \in members /\ f \in Features
        /\ ~Cross(f) => ~Cross(g) /\ Home(f) = Home(g)
        /\ Cross(f) /\ ~Cross(g) => BelowSpanning(f, Home(g))
    BY <1>2, <2>3 DEF RefShape, TrainTypeOK
  <2> HIDE DEF g
  <2>5. ASSUME f \in CrossReady, CrossWave(f) < n.wave
        PROVE  \E m \in Nodes : m.entries = {f} /\ m.wave < n.wave
    <3>1. [wave |-> CrossWave(f), kind |-> 0, id |-> f, entries |-> {f}] \in Nodes
      BY <2>5 DEF Nodes
    <3>2. QED
      BY <2>5, <3>1
  <2>6. ASSUME NEW h \in CrossReady,
               n = [wave |-> CrossWave(h), kind |-> 0, id |-> h, entries |-> {h}]
        PROVE  \/ f \in CrossReady /\ CrossWave(f) < n.wave
               \/ Smuggled(f) /\ status[f] # "spec_passed"
    <3>1. g = h /\ n.wave = CrossWave(h) /\ Cross(g)
      BY <2>2, <2>6 DEF CrossReady
    <3>2. \/ f \in CrossReady /\ pos[f] < pos[g]
          \/ Smuggled(f) /\ status[f] # "spec_passed"
      BY <1>1, <1>2, <2>3, <3>1, BelowCross
    <3>3. QED
      BY <1>2, <3>1, <3>2, CrossWaveOrder
  <2>7. ASSUME NEW p \in ReadyPartitions,
               n = [wave |-> PartitionWave(p), kind |-> 1, id |-> p,
                    entries |-> Residents(p)]
        PROVE  \/ f \in CrossReady /\ CrossWave(f) < n.wave
               \/ Smuggled(f) /\ status[f] # "spec_passed"
    <3>1. n.entries = Residents(p) /\ n.wave = PartitionWave(p)
      BY <2>7
    <3>2. ~Cross(g) /\ Home(g) = p
      BY <2>2, <3>1 DEF Residents
    <3>3. Cross(f)
      BY <1>5, <2>4, <3>1, <3>2 DEF Residents
    <3>4. \A h \in DependsOn(p) : h \in CrossReady
      BY <1>1, <2>7 DEF Deadlocked
    <3>5. CASE Spans(f, p)
      <4>1. f \in DependsOn(p) /\ pos[f] <= pos[f]
        BY <1>2, <2>4, <3>5 DEF DependsOn, TrainTypeOK
      <4>2. QED
        BY <1>2, <2>4, <3>1, <3>4, <4>1, WaveOrder
    <3>6. CASE \E h \in members \ {f} : Spans(h, p) /\ (Live(h) => f \in ref[h])
      <4>1. PICK h \in members \ {f} : Spans(h, p) /\ (Live(h) => f \in ref[h])
        BY <3>6
      <4>2. h \in DependsOn(p) /\ h \in CrossReady
        BY <3>4, <4>1 DEF DependsOn
      <4>3. h \in Features /\ Live(h) /\ Cross(h)
        BY <1>2, <4>1, <4>2 DEF CrossReady, Live, Speculated, TrainTypeOK
      <4>4. \/ f \in CrossReady /\ pos[f] < pos[h]
            \/ Smuggled(f) /\ status[f] # "spec_passed"
        BY <1>1, <1>2, <4>1, <4>3, BelowCross
      <4>5. pos[f] \in Nat /\ pos[h] \in Nat
        BY <1>2, <2>4, <4>3 DEF TrainTypeOK
      <4>6. pos[f] < pos[h] => CrossWave(f) < PartitionWave(p)
        BY <1>2, <2>4, <4>2, <4>5, WaveOrder
      <4>7. QED
        BY <3>1, <4>4, <4>6
    <3>7. QED
      BY <2>4, <3>2, <3>3, <3>5, <3>6 DEF BelowSpanning
  <2>8. QED
    BY <2>5, <2>6, <2>7 DEF Nodes
<1>6. PlanClosed'
  <2>1. ref' = ref /\ status' = status /\ pos' = pos
    BY <1>1 DEF entryVars
  <2>2. ASSUME NEW f, Smuggled(f), status[f] # "spec_passed" PROVE Loose(f)'
    <3>1. Smuggled(f)'
      BY <2>1, <2>2 DEF Smuggled, Cross
    <3>2. \A m \in Nodes : f \notin m.entries
      BY <1>2, <2>2, NodesWhole
    <3>3. QED
      BY <1>1, <3>1, <3>2 DEF Loose
  <2> SUFFICES ASSUME NEW n \in Nodes, NEW f \in ref[FinalEntry(n.entries)]
               PROVE  \/ f \in n.entries \cup main'
                      \/ \E m \in Nodes : m.entries = {f} /\ m.wave < n.wave
                      \/ Loose(f)'
    BY <1>1, <2>1 DEF PlanClosed, FinalEntry
  <2>3. QED
    BY <1>5, <2>2
<1>7. QED
  BY <1>4, <1>6 DEF CrossInv

LEMMA ExecutorCross ==
  ASSUME MainBuilt, TrainInv, CrossInv, NEW n \in plan,
         CheckNode(n) \/ CheckFails(n) \/ UpdateMain(n) \/ UpdateFails(n)
  PROVE  CrossInv'
<1>1. UNCHANGED <<train, pos, ref, members>> /\ plan' \subseteq plan
  BY DEF CheckNode, CheckFails, UpdateMain, UpdateFails, entryVars, trainVars
<1>2. TrainTypeOK /\ \A f \in n.entries : Live(f)
  BY DEF Live, TrainInv
<1>3. \A f \in Features \ n.entries : status'[f] = status[f]
  BY DEF CheckNode, CheckFails, UpdateMain, UpdateFails, entryVars
<1>4. \A f \in Features : Live(f)' => Live(f)
  BY <1>1, <1>2, <1>3 DEF Live, Speculated
<1>5. CrossChained' /\ StackedOnCross' /\ RefShape'
  BY <1>1, <1>2, <1>4, CrossShrink DEF CrossInv
<1>6. \/ plan' = {}
      \/ plan' = plan /\ main' = main
      \/ plan' = plan \ {n} /\ main' = main \cup ref[FinalEntry(n.entries)]
  BY UpdateAdds DEF CheckNode, CheckFails, UpdateMain, UpdateFails, mainVars
<1>7. PlanClosed'
  <2> SUFFICES ASSUME NEW k \in plan', NEW f \in ref[FinalEntry(k.entries)]
               PROVE  \/ f \in k.entries \cup main'
                      \/ \E m \in plan' : m.entries = {f} /\ m.wave < k.wave
                      \/ Loose(f)'
    BY <1>1 DEF PlanClosed, FinalEntry
  <2>1. \/ f \in k.entries \cup main
        \/ \E m \in plan : m.entries = {f} /\ m.wave < k.wave
        \/ Loose(f)
    BY <1>1 DEF CrossInv, PlanClosed
  <2>2. CASE f \in k.entries \cup main
    BY <1>6, <2>2
  <2>3. CASE \E m \in plan : m.entries = {f} /\ m.wave < k.wave
    <3>1. PICK m \in plan : m.entries = {f} /\ m.wave < k.wave
      BY <2>3
    <3>2. n.entries \subseteq ref[FinalEntry(n.entries)]
      BY NodeInRef
    <3>3. QED
      BY <1>6, <3>1, <3>2
  <2>4. CASE Loose(f)
    <3>1. f \in Features /\ f \notin n.entries
      <4>1. k.entries \in SUBSET Features /\ k \in plan
        BY <1>1, <1>2 DEF TrainTypeOK, Node
      <4>2. FinalEntry(k.entries) \in Features
        BY <4>1, NodeInRef
      <4>3. QED
        BY <1>2, <2>4, <4>2 DEF Loose, TrainTypeOK
    <3>2. Smuggled(f)'
      BY <1>1, <1>3, <2>4, <3>1 DEF Loose, Smuggled, Cross
    <3>3. QED
      BY <1>1, <2>4, <3>2 DEF Loose
  <2>5. QED
    BY <2>1, <2>2, <2>3, <2>4
<1>8. QED
  BY <1>5, <1>7 DEF CrossInv

LEMMA CrossStep ==
  ASSUME MainBuilt, TrainInv, CrossInv, [Next]_vars
  PROVE  CrossInv'
<1>1. CASE \E aged, conflicting \in SUBSET Features : Compose(aged, conflicting)
  BY <1>1, ComposeCross
<1>2. ASSUME NEW f \in Features, NEW F \in SUBSET Features,
             \/ \E passed \in BOOLEAN : ReportSpecResult(f, passed)
             \/ ValidateClaims(F) \/ Eject(f) \/ ResetBlocked(f) \/ ResetAbandoned(f)
      PROVE  CrossInv'
  <2>1. Idle /\ UNCHANGED <<plan, members>>
    BY <1>2 DEF ReportSpecResult, ValidateClaims, Eject, ResetBlocked, ResetAbandoned,
                trainVars
  <2>2. TrainTypeOK
    BY DEF TrainInv
  <2>3. \A g \in Features : Speculated(g)' =>
           Speculated(g) /\ ref'[g] = ref[g] /\ train'[g] = train[g]
    BY <1>2, <2>2 DEF ReportSpecResult, ValidateClaims, Eject, ResetBlocked,
       ResetAbandoned, Unplace, Speculated, TrainTypeOK
  <2>4. \A g \in Features : Live(g)' =>
           Live(g) /\ ref'[g] = ref[g] /\ train'[g] = train[g]
    BY <2>1, <2>3 DEF Live, Idle
  <2>5. CrossChained' /\ StackedOnCross' /\ RefShape'
    BY <2>1, <2>2, <2>4, CrossShrink DEF CrossInv
  <2>6. PlanClosed'
    BY <2>1 DEF PlanClosed, Idle
  <2>7. QED
    BY <2>5, <2>6 DEF CrossInv
<1>3. CASE ExecuteWaveMerge
  BY <1>3, ExecuteCross
<1>4. CASE \E n \in plan :
             CheckNode(n) \/ CheckFails(n) \/ UpdateMain(n) \/ UpdateFails(n)
  BY <1>4, ExecutorCross
<1>5. CASE OutsidePush \/ UNCHANGED vars
  <2>1. UNCHANGED <<status, train, pos, ref, members, plan, main>> /\ TrainTypeOK
    BY <1>5 DEF OutsidePush, vars, entryVars, trainVars, mainVars, TrainInv
  <2>2. \A f \in Features : Live(f)' => Live(f)
    BY <2>1 DEF Live, Speculated
  <2>3. CrossChained' /\ StackedOnCross' /\ RefShape'
    BY <2>1, <2>2, CrossShrink DEF CrossInv
  <2>4. PlanClosed'
    BY <2>1 DEF CrossInv, PlanClosed, FinalEntry, Loose, Smuggled, Cross
  <2>5. QED
    BY <2>3, <2>4 DEF CrossInv
<1>6. CASE \E F \in SUBSET Features : ValidateClaims(F)
  <2>1. PICK F \in SUBSET Features : ValidateClaims(F)
    BY <1>6
  <2>2. PICK f \in Features : f \in F
    BY <2>1 DEF ValidateClaims
  <2>3. QED
    BY <1>2, <2>1, <2>2
<1>7. CASE \/ \E f \in Features, passed \in BOOLEAN : ReportSpecResult(f, passed)
           \/ \E f \in Features : Eject(f) \/ ResetBlocked(f) \/ ResetAbandoned(f)
  BY <1>2, <1>7
<1>8. QED
  BY <1>1, <1>3, <1>4, <1>5, <1>6, <1>7 DEF Next

LEMMA CrossInit == Init => CrossInv
<1> SUFFICES ASSUME Init PROVE CrossInv
  OBVIOUS
<1>1. \A f \in Features : ~Live(f)
  BY DEF Init, Live, Speculated
<1>2. QED
  BY <1>1 DEF Init, CrossInv, CrossChained, StackedOnCross, RefShape, PlanClosed

LEMMA CrossInvariance == Spec => [](MainBuilt /\ TrainInv /\ CrossInv)
<1>1. MainBuilt /\ TrainInv /\ CrossInv /\ [Next]_vars => CrossInv'
  BY CrossStep
<1>2. QED
  BY <1>1, CrossInit, Invariance, PTL DEF Spec

\* Entries that share a prefix are verified one on top of the other, whatever
\* has been ejected, blocked and composed again, for any claims: but for a cross
\* entry and a resident whose partition was based on another cross entry.
THEOREM OverlapIsSerialized == Spec => []OverlapSerialized
<1>1. TrainInv /\ CrossInv => OverlapSerialized
  BY CrossSerialized DEF TrainInv, CrossInv
<1>2. QED
  BY <1>1, CrossInvariance, PTL

\* Code comes to main by its own feature's merge, or it is that of a cross entry
\* that has not passed, below another one.
THEOREM LandsVerified == Spec => OnlyVerifiedLands
<1> DEFINE Verified ==
       \A f \in main' \ main :
          (status[f] = "merging" /\ status'[f] = "merged") \/ Smuggled(f)
<1>1. MainBuilt /\ TrainInv /\ CrossInv /\ [Next]_vars => [Verified]_vars
  <2> SUFFICES ASSUME MainBuilt, TrainInv, CrossInv, Next, NEW f \in main' \ main, ~Smuggled(f)
               PROVE  status[f] = "merging" /\ status'[f] = "merged"
    OBVIOUS
  <2>1. PICK n \in plan : UpdateMain(n)
    BY DEF Next, Compose, ReportSpecResult, ValidateClaims, Eject, ResetBlocked,
           ResetAbandoned, ExecuteWaveMerge, CheckNode, CheckFails, UpdateFails,
           OutsidePush, mainVars
  <2>2. f \in ref[FinalEntry(n.entries)]
    BY <2>1, UpdateAdds
  <2>3. ASSUME NEW m \in plan, m.entries = {f}, m.wave < n.wave PROVE f \in n.entries
    <3>1. m.wave \in Nat /\ n.wave \in Nat
      BY DEF TrainInv, TrainTypeOK, Node
    <3>2. CASE m = n
      BY <2>3, <3>2
    <3>3. CASE m # n
      BY <2>1, <2>3, <3>1, <3>3 DEF UpdateMain, NextNode, Earlier
    <3>4. QED
      BY <3>2, <3>3
  <2>4. f \in n.entries
    BY <2>2, <2>3 DEF CrossInv, PlanClosed, Loose
  <2>5. f \in Features /\ f \in checked
    BY <2>1, <2>4 DEF UpdateMain, TrainInv, TrainTypeOK
  <2>6. QED
    BY <2>1, <2>4, <2>5 DEF UpdateMain, TrainInv, TrainTypeOK
<1>2. Spec => [][Verified]_vars
  BY <1>1, CrossInvariance, PTL DEF Spec
<1>3. QED
  BY <1>2 DEF OnlyVerifiedLands

-----------------------------------------------------------------------------
(* With a single cross entry neither exception can occur.                  *)

OneCross == \A f, g \in Features : Cross(f) /\ Cross(g) => f = g

\* Overlapping entries that count are always verified on top of one another.
FullySerialized ==
    \A f, g \in Features :
        /\ Speculated(f) /\ Speculated(g) /\ train[f] = train[g]
        /\ Overlap(f, g)
        => f \in ref[g] \/ g \in ref[f]

\* Code lands by its own merge and in no other way.
LandsOnlyItself ==
    [][\A f \in main' \ main : status[f] = "merging" /\ status'[f] = "merged"]_vars

\* With one cross entry, entries that share a prefix are verified one on top of
\* the other, without exception.
THEOREM OneCrossSerializes == ASSUME OneCross PROVE Spec => []FullySerialized
<1>1. TrainInv /\ OverlapSerialized => FullySerialized
  <2> SUFFICES ASSUME TrainInv, OverlapSerialized PROVE FullySerialized
    OBVIOUS
  <2>1. \A f, g \in Features : ref[g] \subseteq Features
    BY DEF TrainInv, TrainTypeOK
  <2>2. \A f, g \in Features : ~Bypassed(f, g)
    <3> SUFFICES ASSUME NEW f \in Features, NEW g \in Features, Bypassed(f, g) PROVE FALSE
      OBVIOUS
    <3>1. PICK h \in ref[g] : h > f /\ Cross(h) /\ Cross(f)
      BY DEF Bypassed, Spans
    <3>2. h = f
      BY <2>1, <3>1 DEF OneCross
    <3>3. f \in Int
      BY TrainAssumption
    <3>4. QED
      BY <3>1, <3>2, <3>3
  <2>3. QED
    BY <2>2 DEF OverlapSerialized, FullySerialized
<1>2. QED
  BY <1>1, Invariance, OverlapIsSerialized, PTL

\* With one cross entry, code comes to main only by its own feature's merge.
THEOREM OneCrossLandsVerified == ASSUME OneCross PROVE Spec => LandsOnlyItself
<1>1. \A f \in Features : ~Smuggled(f)
  BY DEF OneCross, Smuggled
<1>2. TrainTypeOK' =>
        ([\A f \in main' \ main :
            (status[f] = "merging" /\ status'[f] = "merged") \/ Smuggled(f)]_vars
         => [\A f \in main' \ main : status[f] = "merging" /\ status'[f] = "merged"]_vars)
  BY <1>1 DEF TrainTypeOK
<1>3. QED
  BY <1>2, TrainTyped, LandsVerified, PTL DEF OnlyVerifiedLands, LandsOnlyItself
=============================================================================
