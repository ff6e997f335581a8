---------------------------- MODULE RegistryView ----------------------------
(***************************************************************************)
(* What service discovery promises a process, whatever the backend: its    *)
(* view of the registered instances is replaced, now and then, as a whole, *)
(* by a set that holds every instance registered during all of the refill  *)
(* that it could read, and none registered at no time during it.  Refills of several  *)
(* fillers may overlap, so a view may be followed by an older one.         *)
(***************************************************************************)
EXTENDS PoolOps

CONSTANTS Procs, Loaders

VARIABLES
    registered,   \* the instances the store shows
    view,         \* what each process shows its readers
    open,         \* the refills in flight
    kept, seen    \* registered throughout, and at some time during, each of them

viewVars == <<registered, view, open, kept, seen>>

Init ==
    /\ registered = {}
    /\ view = [p \in Procs |-> NewPool]
    /\ open = [p \in Procs |-> {}]
    /\ kept = [p \in Procs |-> [l \in Loaders |-> {}]]
    /\ seen = [p \in Procs |-> [l \in Loaders |-> {}]]

Add(i) ==
    /\ registered' = registered \cup {i}
    /\ seen' = [p \in Procs |-> [l \in Loaders |->
                   IF l \in open[p] THEN seen[p][l] \cup {i} ELSE seen[p][l]]]
    /\ UNCHANGED <<view, open, kept>>

Remove(i) ==
    /\ registered' = registered \ {i}
    /\ kept' = [p \in Procs |-> [l \in Loaders |-> kept[p][l] \ {i}]]
    /\ UNCHANGED <<view, open, seen>>

Open(p, l) ==
    /\ l \notin open[p]
    /\ open' = [open EXCEPT ![p] = @ \cup {l}]
    /\ kept' = [kept EXCEPT ![p][l] = registered]
    /\ seen' = [seen EXCEPT ![p][l] = registered]
    /\ UNCHANGED <<registered, view>>

Close(p, l) ==
    /\ l \in open[p]
    /\ open' = [open EXCEPT ![p] = @ \ {l}]
    /\ kept' = [kept EXCEPT ![p][l] = {}]
    /\ seen' = [seen EXCEPT ![p][l] = {}]
    /\ UNCHANGED registered

\* The refill cannot read i.
Miss(p, l, i) ==
    /\ l \in open[p]
    /\ kept' = [kept EXCEPT ![p][l] = @ \ {i}]
    /\ UNCHANGED <<registered, view, open, seen>>

Install(p, l) ==
    /\ Close(p, l)
    /\ \E loaded \in SUBSET Instances :
          /\ kept[p][l] \subseteq loaded /\ loaded \subseteq seen[p][l]
          /\ view' = [view EXCEPT ![p] = PurgePool(loaded)]

Abandon(p, l) == Close(p, l) /\ UNCHANGED view

\* A view is emptied only by its own process as it starts or ends.
Empty(p) ==
    /\ view' = [view EXCEPT ![p] = NewPool]
    /\ \/ UNCHANGED <<open, kept, seen>>
       \/ /\ open' = [open EXCEPT ![p] = {}]
          /\ kept' = [kept EXCEPT ![p] = [l \in Loaders |-> {}]]
          /\ seen' = [seen EXCEPT ![p] = [l \in Loaders |-> {}]]
    /\ UNCHANGED registered

Next ==
    \/ \E i \in Instances : Add(i) \/ Remove(i)
    \/ \E p \in Procs : Empty(p)
    \/ \E p \in Procs, l \in Loaders :
          \/ Open(p, l) \/ Install(p, l) \/ Abandon(p, l)
          \/ \E i \in Instances : Miss(p, l, i)

Spec == Init /\ [][Next]_viewVars
=============================================================================
