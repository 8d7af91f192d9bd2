---------------------------------- MODULE Walk ----------------------------------
(***************************************************************************)
(* What a request may do on its way over the providers of its endpoint     *)
(* (the NextProvider loop of http.go), and what its client may be told:    *)
(* it visits the providers in failover order, each at most once; does a    *)
(* bounded number of things at each; its client is served by a provider it *)
(* has visited, and refused only when it has been past every one; and it   *)
(* may leave without being told anything, on its own account or because    *)
(* the goroutine that serves it panics.  Nobody else moves it.  Failover   *)
(* is shown to walk like this.                                             *)
(***************************************************************************)
EXTENDS Naturals

CONSTANTS
    Walkers,
    NProviders,
    MaxPatience  \* things to do at a provider before going on

VARIABLES
    place,       \* provider the walker is at; past the last one; 0: at home
    patience,    \* things it may still do there
    told,        \* what its client was told, if anything
    by           \* the provider that served it, 0: none

vars == <<place, patience, told, by>>

Providers == 1..NProviders

Init ==
    /\ place = [w \in Walkers |-> 0] /\ patience = [w \in Walkers |-> 0]
    /\ told = [w \in Walkers |-> "nothing"] /\ by = [w \in Walkers |-> 0]

GoTo(w, p) ==
    /\ place' = [place EXCEPT ![w] = p]
    /\ patience' = [patience EXCEPT ![w] = MaxPatience]

Tell(w, what, p) ==
    /\ told' = [told EXCEPT ![w] = what]
    /\ by' = [by EXCEPT ![w] = p]

GoHome(w) ==
    /\ place' = [place EXCEPT ![w] = 0]
    /\ patience' = [patience EXCEPT ![w] = 0]

Start(w) == place[w] = 0 /\ GoTo(w, 1) /\ Tell(w, "nothing", 0)

Dwell(w) ==
    /\ place[w] \in Providers /\ patience[w] > 0
    /\ patience' = [patience EXCEPT ![w] = @ - 1]
    /\ UNCHANGED <<place, told, by>>

Move(w) == place[w] \in Providers /\ GoTo(w, place[w] + 1) /\ UNCHANGED <<told, by>>

Serve(w) == \E p \in 1..place[w] \intersect Providers : GoHome(w) /\ Tell(w, "served", p)
Refuse(w) == place[w] = NProviders + 1 /\ GoHome(w) /\ Tell(w, "refused", 0)
Leave(w) == place[w] > 0 /\ GoHome(w) /\ Tell(w, "left", 0)

Next == \E w \in Walkers : Start(w) \/ Dwell(w) \/ Move(w) \/ Serve(w) \/ Refuse(w) \/ Leave(w)

Spec == Init /\ [][Next]_vars
=============================================================================
