---------------------------- MODULE MethodLabels ----------------------------
(***************************************************************************)
(* The method labels of the metrics (metrics/labels.go).  Clients choose   *)
(* the method names, so a name becomes a label only once a provider has    *)
(* answered it, and only MaxMethodLabels names do.  AdmitMethod takes no   *)
(* lock: its map and its counter are changed by separate atomic            *)
(* operations, each a step here.                                           *)
(***************************************************************************)
EXTENDS Integers, Sequences, FiniteSets

CONSTANTS
    Recorders,        \* the goroutines that record answered calls
    MaxMethodLabels   \* maxMethodLabels; 1000

ASSUME LabelsAssumption == MaxMethodLabels \in Nat

VARIABLES
    labels,       \* methodLabels
    labelCount,   \* methodLabelCount
    toAdmit,      \* the methods each goroutine has yet to admit, in order
    admitting     \* where it is with the first of them

labelVars == <<labels, labelCount, toAdmit, admitting>>

Stages == {"look", "count", "store", "uncount"}

InitLabels ==
    /\ labels = {}
    /\ labelCount = 0
    /\ toAdmit = [p \in Recorders |-> <<>>]
    /\ admitting = [p \in Recorders |-> "look"]

AllAdmitted(p) == toAdmit[p] = <<>>
Method(p) == Head(toAdmit[p])
AtStage(p, stage) == toAdmit[p] # <<>> /\ admitting[p] = stage

GoTo(p, stage) ==
    /\ admitting' = [admitting EXCEPT ![p] = stage]
    /\ UNCHANGED toAdmit

\* AdmitMethod returns.
Admit(p) ==
    /\ admitting' = [admitting EXCEPT ![p] = "look"]
    /\ toAdmit' = [toAdmit EXCEPT ![p] = Tail(@)]

-----------------------------------------------------------------------------
\* Broken: a name that has its label gives back a count it never took.
LookUpGivingBack(p) ==
    /\ AtStage(p, "look")
    /\ GoTo(p, IF Method(p) = "" \/ Method(p) \in labels THEN "uncount" ELSE "count")
    /\ UNCHANGED <<labels, labelCount>>

LookUp(p) ==
    /\ AtStage(p, "look")
    /\ IF Method(p) = "" \/ Method(p) \in labels THEN Admit(p) ELSE GoTo(p, "count")
    /\ UNCHANGED <<labels, labelCount>>

\* Broken: the limit is compared with the count before this name.
CountOneMore(p) ==
    /\ AtStage(p, "count")
    /\ labelCount' = labelCount + 1
    /\ GoTo(p, IF labelCount > MaxMethodLabels THEN "uncount" ELSE "store")
    /\ UNCHANGED labels

Count(p) ==
    /\ AtStage(p, "count")
    /\ labelCount' = labelCount + 1
    /\ GoTo(p, IF labelCount' > MaxMethodLabels THEN "uncount" ELSE "store")
    /\ UNCHANGED labels

\* Broken: a name that another goroutine stored first keeps its second count.
StoreKeepingCount(p) ==
    /\ AtStage(p, "store")
    /\ labels' = labels \union {Method(p)}
    /\ Admit(p)
    /\ UNCHANGED labelCount

\* LoadOrStore: another goroutine may have stored the name since the look-up.
Store(p) ==
    /\ AtStage(p, "store")
    /\ labels' = labels \union {Method(p)}
    /\ IF Method(p) \in labels THEN GoTo(p, "uncount") ELSE Admit(p)
    /\ UNCHANGED labelCount

Uncount(p) ==
    /\ AtStage(p, "uncount")
    /\ labelCount' = labelCount - 1
    /\ Admit(p)
    /\ UNCHANGED labels

AdmitStep(p) == LookUp(p) \/ Count(p) \/ Store(p) \/ Uncount(p)

-----------------------------------------------------------------------------
Storing == {p \in Recorders : admitting[p] = "store"}
Uncounting == {p \in Recorders : admitting[p] = "uncount"}

(***************************************************************************)
(* However the goroutines interleave between the counter and the map, no   *)
(* more than MaxMethodLabels names become labels: clients cannot make the  *)
(* metrics grow.                                                           *)
(***************************************************************************)
LabelsAreBounded == Cardinality(labels) <= MaxMethodLabels

(***************************************************************************)
(* The counter follows the map: when no goroutine is inside AdmitMethod it *)
(* is the number of labels, so lost races never use up the room there is.  *)
(***************************************************************************)
LabelCountSettles ==
    Storing = {} /\ Uncounting = {} => labelCount = Cardinality(labels)
=============================================================================
