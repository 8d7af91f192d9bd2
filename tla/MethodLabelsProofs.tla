------------------------- MODULE MethodLabelsProofs -------------------------
(***************************************************************************)
(* What AdmitMethod preserves, for any number of goroutines and any limit: *)
(* the counter is the number of labels and of the goroutines that hold a   *)
(* count they have yet to spend or give back, and those that are to store  *)
(* a label have room for it.                                               *)
(***************************************************************************)
EXTENDS MethodLabels, FiniteSetTheorems, TLAPS

LabelInv ==
    /\ IsFiniteSet(labels)
    /\ labelCount \in Nat
    /\ admitting \in [Recorders -> Stages]
    /\ labelCount = Cardinality(labels) + Cardinality(Storing) + Cardinality(Uncounting)
    /\ Cardinality(labels) + Cardinality(Storing) =< MaxMethodLabels

LEMMA LabelInit ==
  ASSUME InitLabels
  PROVE  LabelInv
  <1>1. Storing = {} /\ Uncounting = {} /\ labels = {}
    BY DEF InitLabels, Storing, Uncounting
  <1> QED BY <1>1, FS_EmptySet, LabelsAssumption DEF InitLabels, LabelInv, Stages

\* A goroutine is in one stage at a time: moving it moves it between the sets.
LEMMA Moving ==
  ASSUME IsFiniteSet(Recorders), LabelInv, NEW p \in Recorders, NEW stage \in Stages,
         admitting' = [admitting EXCEPT ![p] = stage]
  PROVE  /\ admitting' \in [Recorders -> Stages]
         /\ Storing' = IF stage = "store" THEN Storing \cup {p} ELSE Storing \ {p}
         /\ Uncounting' = IF stage = "uncount" THEN Uncounting \cup {p} ELSE Uncounting \ {p}
         /\ IsFiniteSet(Storing) /\ IsFiniteSet(Uncounting)
         /\ p \in Storing <=> admitting[p] = "store"
         /\ p \in Uncounting <=> admitting[p] = "uncount"
  <1>1. IsFiniteSet(Storing) /\ IsFiniteSet(Uncounting)
    <2>1. Storing \in SUBSET Recorders /\ Uncounting \in SUBSET Recorders
      BY DEF Storing, Uncounting
    <2> QED BY <2>1, FS_Subset
  <1> QED BY <1>1 DEF LabelInv, Storing, Uncounting

\* Every step of AdmitMethod keeps the books.
LEMMA AdmitStepInv ==
  ASSUME IsFiniteSet(Recorders), LabelInv, NEW p \in Recorders, AdmitStep(p)
  PROVE  LabelInv'
  <1>0. /\ IsFiniteSet(labels) /\ Cardinality(labels) \in Nat
        /\ MaxMethodLabels \in Nat /\ labelCount \in Nat
        /\ {"look", "count", "store", "uncount"} \subseteq Stages
    BY FS_CardinalityType, LabelsAssumption DEF LabelInv, Stages
  <1>1. IsFiniteSet(Storing) /\ IsFiniteSet(Uncounting)
    BY Moving, <1>0
    DEF AdmitStep, LookUp, Count, Store, Uncount, GoTo, Admit
  <1>2. Cardinality(Storing) \in Nat /\ Cardinality(Uncounting) \in Nat
    BY <1>1, FS_CardinalityType
  <1>3. /\ labelCount = Cardinality(labels) + Cardinality(Storing) + Cardinality(Uncounting)
        /\ Cardinality(labels) + Cardinality(Storing) =< MaxMethodLabels
    BY DEF LabelInv
  <1>4. /\ Cardinality(Storing \cup {p}) =
             IF p \in Storing THEN Cardinality(Storing) ELSE Cardinality(Storing) + 1
        /\ Cardinality(Storing \ {p}) =
             IF p \in Storing THEN Cardinality(Storing) - 1 ELSE Cardinality(Storing)
        /\ Cardinality(Uncounting \cup {p}) =
             IF p \in Uncounting THEN Cardinality(Uncounting) ELSE Cardinality(Uncounting) + 1
        /\ Cardinality(Uncounting \ {p}) =
             IF p \in Uncounting THEN Cardinality(Uncounting) - 1 ELSE Cardinality(Uncounting)
    BY <1>1, FS_AddElement, FS_RemoveElement
  <1>5. CASE LookUp(p)
    <2>1. PICK stage \in {"look", "count"} : admitting' = [admitting EXCEPT ![p] = stage]
      BY <1>5 DEF LookUp, Admit, GoTo
    <2>2. /\ Storing' = Storing \ {p} /\ Uncounting' = Uncounting \ {p}
          /\ p \notin Storing /\ p \notin Uncounting /\ admitting' \in [Recorders -> Stages]
      BY <1>0, <1>5, <2>1, Moving DEF LookUp, AtStage
    <2>3. labels' = labels /\ labelCount' = labelCount
      BY <1>5 DEF LookUp
    <2> QED BY <1>0, <1>2, <1>3, <1>4, <2>2, <2>3 DEF LabelInv
  <1>6. CASE Count(p)
    <2>1. labels' = labels /\ labelCount' = labelCount + 1 /\ admitting[p] = "count"
      BY <1>6 DEF Count, AtStage
    <2>2. CASE labelCount + 1 > MaxMethodLabels
      <3>1. admitting' = [admitting EXCEPT ![p] = "uncount"]
        BY <1>6, <2>1, <2>2 DEF Count, GoTo
      <3>2. /\ Storing' = Storing \ {p} /\ Uncounting' = Uncounting \cup {p}
            /\ p \notin Storing /\ p \notin Uncounting /\ admitting' \in [Recorders -> Stages]
        BY <1>0, <2>1, <3>1, Moving
      <3> QED BY <1>0, <1>2, <1>3, <1>4, <2>1, <3>2 DEF LabelInv
    <2>3. CASE ~(labelCount + 1 > MaxMethodLabels)
      <3>1. admitting' = [admitting EXCEPT ![p] = "store"]
        BY <1>6, <2>1, <2>3 DEF Count, GoTo
      <3>2. /\ Storing' = Storing \cup {p} /\ Uncounting' = Uncounting \ {p}
            /\ p \notin Storing /\ p \notin Uncounting /\ admitting' \in [Recorders -> Stages]
        BY <1>0, <2>1, <3>1, Moving
      <3> QED BY <1>0, <1>2, <1>3, <1>4, <2>1, <2>3, <3>2 DEF LabelInv
    <2> QED BY <2>2, <2>3
  <1>7. CASE Store(p)
    <2>1. labels' = labels \cup {Method(p)} /\ labelCount' = labelCount /\ admitting[p] = "store"
      BY <1>7 DEF Store, AtStage
    <2>2. /\ IsFiniteSet(labels')
          /\ Cardinality(labels') = IF Method(p) \in labels
                                    THEN Cardinality(labels) ELSE Cardinality(labels) + 1
      BY <1>0, <2>1, FS_AddElement
    <2>3. CASE Method(p) \in labels
      <3>1. admitting' = [admitting EXCEPT ![p] = "uncount"]
        BY <1>7, <2>3 DEF Store, GoTo
      <3>2. /\ Storing' = Storing \ {p} /\ Uncounting' = Uncounting \cup {p}
            /\ p \in Storing /\ p \notin Uncounting /\ admitting' \in [Recorders -> Stages]
        BY <1>0, <2>1, <3>1, Moving
      <3> QED BY <1>0, <1>2, <1>3, <1>4, <2>1, <2>2, <2>3, <3>2 DEF LabelInv
    <2>4. CASE Method(p) \notin labels
      <3>1. admitting' = [admitting EXCEPT ![p] = "look"]
        BY <1>7, <2>4 DEF Store, Admit
      <3>2. /\ Storing' = Storing \ {p} /\ Uncounting' = Uncounting \ {p}
            /\ p \in Storing /\ p \notin Uncounting /\ admitting' \in [Recorders -> Stages]
        BY <1>0, <2>1, <3>1, Moving
      <3> QED BY <1>0, <1>2, <1>3, <1>4, <2>1, <2>2, <2>4, <3>2 DEF LabelInv
    <2> QED BY <2>3, <2>4
  <1>8. CASE Uncount(p)
    <2>1. labels' = labels /\ labelCount' = labelCount - 1 /\ admitting[p] = "uncount"
      BY <1>8 DEF Uncount, AtStage
    <2>2. admitting' = [admitting EXCEPT ![p] = "look"]
      BY <1>8 DEF Uncount, Admit
    <2>3. /\ Storing' = Storing \ {p} /\ Uncounting' = Uncounting \ {p}
          /\ p \notin Storing /\ p \in Uncounting /\ admitting' \in [Recorders -> Stages]
      BY <1>0, <2>1, <2>2, Moving
    <2>4. Cardinality(Uncounting) > 0
      BY <1>1, <1>2, <2>3, FS_EmptySet
    <2> QED BY <1>0, <1>2, <1>3, <1>4, <2>1, <2>3, <2>4 DEF LabelInv
  <1> QED BY <1>5, <1>6, <1>7, <1>8 DEF AdmitStep

\* Nobody else touches the labels, the counter or a goroutine's stage.
LEMMA LabelsUntouched ==
  ASSUME LabelInv, UNCHANGED <<labels, labelCount, admitting>>
  PROVE  LabelInv'
  BY DEF LabelInv, Storing, Uncounting

LEMMA LabelInvImplies ==
  ASSUME IsFiniteSet(Recorders), LabelInv
  PROVE  LabelsAreBounded /\ LabelCountSettles
  <1>1. Storing \in SUBSET Recorders
    BY DEF Storing
  <1>2. Cardinality(Storing) \in Nat /\ Cardinality(labels) \in Nat
    BY <1>1, FS_Subset, FS_CardinalityType DEF LabelInv
  <1>3. LabelsAreBounded
    BY <1>2, LabelsAssumption DEF LabelInv, LabelsAreBounded
  <1>4. LabelCountSettles
    BY <1>2, FS_EmptySet DEF LabelInv, LabelCountSettles
  <1> QED BY <1>3, <1>4
=============================================================================
