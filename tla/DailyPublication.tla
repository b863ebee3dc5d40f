-------------------------- MODULE DailyPublication --------------------------
(***************************************************************************)
(* What the daily pipeline promises its readers, whatever goes wrong       *)
(* inside it: an execution publishes at most one revision and never        *)
(* changes it, the revision served for a date moves only to the one just   *)
(* published, and an execution reports success only for its own revision.  *)
(***************************************************************************)
CONSTANTS
    Executions,     \* pipeline executions
    Date,           \* the logical date of each
    Versions,       \* paper versions
    None            \* no revision, no execution

VARIABLES
    revision,   \* the published revision of each execution
    served,     \* the execution whose revision readers of a date get
    outcome     \* the revision each execution has reported as its result

vars == <<revision, served, outcome>>

Dates == {Date[e] : e \in Executions}

\* A report has a card for each selected paper; the ready ones have their
\* analysis, and it is complete when all are ready.
Reports ==
    {r \in [cards : SUBSET Versions, ready : SUBSET Versions, status : {"COMPLETE", "PARTIAL"}] :
        /\ r.ready \subseteq r.cards
        /\ r.status = "COMPLETE" <=> r.ready = r.cards}

Init ==
    /\ revision = [e \in Executions |-> None]
    /\ served = [d \in Dates |-> None]
    /\ outcome = [e \in Executions |-> None]

\* A revision that was started before the one served may be published after it
\* and does not replace it; the first revision of a date is always served.
Publish(e) ==
    /\ revision[e] = None
    /\ revision'[e] \in Reports
    /\ revision' = [x \in Executions |-> IF x = e THEN revision'[e] ELSE revision[x]]
    /\ \/ served' = [served EXCEPT ![Date[e]] = e]
       \/ served[Date[e]] # None /\ UNCHANGED served
    /\ UNCHANGED outcome

Acknowledge(e) ==
    /\ revision[e] # None
    /\ outcome[e] = None
    /\ outcome' = [outcome EXCEPT ![e] = revision[e]]
    /\ UNCHANGED <<revision, served>>

Next == \E e \in Executions : Publish(e) \/ Acknowledge(e)

Spec == Init /\ [][Next]_vars
=============================================================================
