----------------------------- MODULE RequestGate -----------------------------
(***************************************************************************)
(* The requests that processes send to remote services: the retry loops    *)
(* with their total deadlines, and the gate that all requests to arXiv     *)
(* share.  The gate is an advisory lock of PostgreSQL.  It belongs to a    *)
(* session, and the session to a connection that the process takes from    *)
(* its pool for one request and gives back.  Whoever has the lock waits    *)
(* before it sends, so that the gap to the preceding request is kept.      *)
(*                                                                         *)
(* A process has one thread, so of the three connections of its pool two   *)
(* carry its run locks and the third is free when it comes to the gate.    *)
(* The lock is granted in any order.  Time is counted in ticks and may     *)
(* pass between any two steps, so every sleep may be longer than it was    *)
(* asked to be.  The spacing of its own requests that a client keeps       *)
(* besides only makes a request longer, and is left out.                   *)
(***************************************************************************)
EXTENDS Integers

CONSTANTS
    Processes,
    Nobody, None,
    Budgets,    \* the total time an operation may be given
    Gap,        \* _MIN_REQUEST_GAP_SECONDS
    Delays,     \* waits before a retry: backoff, or what the service asks for
    MaxRetries,
    MaxLosses   \* bound on database sessions that break

ASSUME ProcessesAssumption == Nobody \notin Processes
ASSUME TimeAssumption ==
    /\ Budgets \subseteq Nat \ {0}
    /\ Gap \in Nat \ {0}
    /\ Delays \subseteq Nat
    /\ None \notin Nat
    /\ MaxRetries \in Nat
    /\ MaxLosses \in Nat

VARIABLES
    at,         \* where each process is
    service,    \* what its operation asks: arXiv, or another service
    left,       \* time until the deadline of its operation
    nap,        \* time it still means to sleep
    attempt,    \* retries so far
    again,      \* after an answer: the wait before the next attempt, or None
    session,    \* of its connection for the gate: none, open, or lost unnoticed
    holder,     \* owner of the advisory lock: the process of the session
    since,      \* time since a request that held the lock ended, up to Gap
    losses

vars == <<at, service, left, nap, attempt, again, session, holder, since, losses>>

Services == {"arxiv", "other"}
Inside == {"locking", "locked", "pacing", "sending", "releasing"}

Init ==
    /\ at = [p \in Processes |-> "idle"]
    /\ service = [p \in Processes |-> "other"]
    /\ left = [p \in Processes |-> 0]
    /\ nap = [p \in Processes |-> 0]
    /\ attempt = [p \in Processes |-> 0]
    /\ again = [p \in Processes |-> None]
    /\ session = [p \in Processes |-> "none"]
    /\ holder = Nobody
    /\ since = Gap
    /\ losses = 0

----------------------------------------------------------------------------
(* Time *)

Less(n) == IF n = 0 THEN 0 ELSE n - 1

Tick ==
    /\ left' = [p \in Processes |-> Less(left[p])]
    /\ nap' = [p \in Processes |-> Less(nap[p])]
    /\ since' = IF since < Gap THEN since + 1 ELSE Gap
    /\ UNCHANGED <<at, service, attempt, again, session, holder, losses>>

----------------------------------------------------------------------------
(* The retry loop *)

Gated(p) == service[p] = "arxiv"
Goto(p, place) == at' = [at EXCEPT ![p] = place]

\* The operation ends, with a result or with an error for its caller.
End(p) ==
    /\ Goto(p, "idle")
    /\ left' = [left EXCEPT ![p] = 0]
    /\ service' = [service EXCEPT ![p] = "other"]
    /\ attempt' = [attempt EXCEPT ![p] = 0]
    /\ again' = [again EXCEPT ![p] = None]

\* An operation with its own deadline, never later than its caller's.
Begin(p) ==
    /\ at[p] = "idle"
    /\ Goto(p, "attempt")
    /\ \E budget \in Budgets : left' = [left EXCEPT ![p] = budget]
    /\ \E asked \in Services : service' = [service EXCEPT ![p] = asked]
    /\ UNCHANGED <<nap, attempt, again, session, holder, since, losses>>

\* The deadline has passed, or the database cannot be reached.
DoNotAttempt(p) ==
    /\ at[p] = "attempt"
    /\ left[p] = 0 \/ Gated(p)
    /\ End(p)
    /\ UNCHANGED <<nap, session, holder, since, losses>>

\* Other services have no gate.
SendUngated(p) ==
    /\ at[p] = "attempt"
    /\ ~ Gated(p)
    /\ left[p] > 0
    /\ Goto(p, "sending")
    /\ UNCHANGED <<service, left, nap, attempt, again, session, holder, since, losses>>

\* A failed attempt waits before the next one, if the deadline permits.
Goes(p, outcome) ==
    IF outcome # None /\ left[p] > 0 /\ outcome <= left[p]
    THEN /\ Goto(p, "backoff")
         /\ nap' = [nap EXCEPT ![p] = outcome]
         /\ again' = [again EXCEPT ![p] = None]
         /\ UNCHANGED <<service, left, attempt>>
    ELSE End(p) /\ UNCHANGED nap

Retry(p) ==
    /\ at[p] = "backoff"
    /\ nap[p] = 0
    /\ Goto(p, "attempt")
    /\ attempt' = [attempt EXCEPT ![p] = @ + 1]
    /\ UNCHANGED <<service, left, nap, again, session, holder, since, losses>>

\* What comes of a request: a result or an error, or a timeout or a status that is
\* retried after some time.  Only some statuses are, and a service that asks for a
\* longer wait than is allowed is not asked again.
Outcomes(p) == IF attempt[p] < MaxRetries THEN Delays \cup {None} ELSE {None}

\* A request that was sent with the lock and still has it.
Covered(p) == at[p] = "sending" /\ session[p] = "open"

Answered(p) ==
    /\ at[p] = "sending"
    /\ \E outcome \in Outcomes(p) :
        IF Gated(p)
        THEN /\ Goto(p, "releasing")
             /\ again' = [again EXCEPT ![p] = outcome]
             /\ since' = IF Covered(p) THEN 0 ELSE since
             /\ UNCHANGED <<service, left, nap, attempt>>
        ELSE Goes(p, outcome) /\ UNCHANGED since
    /\ UNCHANGED <<session, holder, losses>>

----------------------------------------------------------------------------
(* The gate *)

\* A connection is taken from the pool, the time that is left becomes the
\* timeout of the statement that waits for the lock.
Enter(p) ==
    /\ at[p] = "attempt"
    /\ Gated(p)
    /\ left[p] > 0
    /\ Goto(p, "locking")
    /\ session' = [session EXCEPT ![p] = "open"]
    /\ UNCHANGED <<service, left, nap, attempt, again, holder, since, losses>>

\* PostgreSQL gives the lock to a session that waits for it.
Grant(p) ==
    /\ at[p] = "locking"
    /\ session[p] = "open"
    /\ holder = Nobody
    /\ holder' = p
    /\ UNCHANGED <<at, service, left, nap, attempt, again, session, since, losses>>

\* The process learns of it and ends the transaction.
Locked(p) ==
    /\ at[p] = "locking"
    /\ session[p] = "open"
    /\ holder = p
    /\ Goto(p, "locked")
    /\ UNCHANGED <<service, left, nap, attempt, again, session, holder, since, losses>>

\* The connection is closed, and PostgreSQL ends its session, or it is given back
\* to the pool; either way the process has none any more.
Close(p) == session' = [session EXCEPT ![p] = "none"]
Unlocked(p) == IF holder = p THEN Nobody ELSE holder

\* Mutant: nothing limits the wait for the lock.
WaitsForEver(p) == session[p] = "lost"

TimesOut(p) == left[p] = 0 \/ session[p] = "lost"

\* Mutant: a cancelled statement cannot have got the lock.
StillHeld(p) == holder

\* The lock may have been granted while its statement was cancelled, so the
\* connection is invalidated.
HolderAfterTimeout(p) == Unlocked(p)

GiveUpLock(p) ==
    /\ at[p] = "locking"
    /\ TimesOut(p)
    /\ End(p)
    /\ Close(p)
    /\ holder' = HolderAfterTimeout(p)
    /\ UNCHANGED <<nap, since, losses>>

\* Mutant: a retry has waited before.
ShorterForRetries(p) == IF attempt[p] > 0 THEN 0 ELSE Gap

\* The wait follows the release of the preceding holder.
Pause(p) == Gap

Pace(p) ==
    /\ at[p] = "locked"
    /\ IF left[p] > Gap
       THEN Goto(p, "pacing") /\ nap' = [nap EXCEPT ![p] = Pause(p)]
       ELSE Goto(p, "releasing") /\ UNCHANGED nap
    /\ UNCHANGED <<service, left, attempt, again, session, holder, since, losses>>

Send(p) ==
    /\ at[p] = "pacing"
    /\ nap[p] = 0
    /\ Goto(p, IF left[p] > 0 THEN "sending" ELSE "releasing")
    /\ UNCHANGED <<service, left, nap, attempt, again, session, holder, since, losses>>

\* The lock is released on every way out.  A process that finds its session lost
\* fails, even if it has a result.
Release(p) ==
    /\ at[p] = "releasing"
    /\ Close(p)
    /\ holder' = Unlocked(p)
    /\ IF session[p] = "lost" THEN End(p) /\ UNCHANGED nap ELSE Goes(p, again[p])
    /\ UNCHANGED <<since, losses>>

----------------------------------------------------------------------------
(* Failures *)

\* The connection breaks and the session ends with its lock; the process does not
\* notice before its next statement.
LoseSession(p) ==
    /\ session[p] = "open"
    /\ losses < MaxLosses
    /\ losses' = losses + 1
    /\ session' = [session EXCEPT ![p] = "lost"]
    /\ holder' = Unlocked(p)
    /\ UNCHANGED <<at, service, left, nap, attempt, again, since>>

\* A process dies, its session and its request with it.
Crash(p) ==
    /\ at[p] # "idle"
    /\ End(p)
    /\ nap' = [nap EXCEPT ![p] = 0]
    /\ Close(p)
    /\ holder' = Unlocked(p)
    /\ since' = IF Covered(p) THEN 0 ELSE since
    /\ UNCHANGED losses

----------------------------------------------------------------------------
Loop(p) == Begin(p) \/ DoNotAttempt(p) \/ SendUngated(p) \/ Answered(p) \/ Retry(p)
Gate(p) == Enter(p) \/ Locked(p) \/ GiveUpLock(p) \/ Pace(p) \/ Send(p) \/ Release(p)
Failure(p) == LoseSession(p) \/ Crash(p)

Next == Tick \/ \E p \in Processes : Loop(p) \/ Gate(p) \/ Grant(p) \/ Failure(p)

Spec == Init /\ [][Next]_vars

\* Time passes, and a process goes on once it is able to: a request has a timeout,
\* and a statement its own.  Nothing is asked of the order or the time in which
\* the lock is granted.
Proceed(p) == DoNotAttempt(p) \/ SendUngated(p) \/ Answered(p) \/ Retry(p) \/ Gate(p)
FairSpec == Spec /\ WF_vars(Tick) /\ \A p \in Processes : WF_vars(Proceed(p))

----------------------------------------------------------------------------
(* Properties *)

\* The lock is in the hands of a process that is inside the gate with an open
\* session, never of a session that was given back to the pool, also when it was
\* granted in the moment in which the wait for it was given up.  Therefore arXiv
\* gets one request at a time, none within the gap after another has ended,
\* whichever processes sent them and however these ended.  Only a process that
\* lost its session unnoticed is beyond the gate's reach.
RequestsAreSpaced ==
    /\ holder # Nobody => at[holder] \in Inside /\ session[holder] = "open"
    /\ \A p \in Processes : Covered(p) => holder = p /\ since = Gap

\* Every operation ends: whatever the services answer, whoever has the lock, and
\* though nothing says when it is granted.
OperationsEnd == \A p \in Processes : at[p] # "idle" ~> at[p] = "idle"
=============================================================================
