------------------------ MODULE GateAndLineageProofs ------------------------
(***************************************************************************)
(* Proofs about the two specifications that use no other: RequestGate, for *)
(* every number of processes, every gap, deadline and delay; and Lineage,  *)
(* for every set of papers and relations and all bounds on a walk.         *)
(***************************************************************************)
EXTENDS RequestGate, Lineage, FiniteSetTheorems, WellFoundedInduction, TLAPS

(*                         The gate of requests                            *)

----------------------------------------------------------------------------
(* The inductive invariant *)

Places == {"idle", "attempt", "backoff"} \cup Inside

\* The types of what the gate depends on; attempts and retries do not matter.
TypeInv ==
    /\ at \in [Processes -> Places]
    /\ service \in [Processes -> Services]
    /\ left \in [Processes -> Nat]
    /\ nap \in [Processes -> Nat]
    /\ session \in [Processes -> {"none", "open", "lost"}]
    /\ again \in [Processes -> Delays \cup {None}]
    /\ holder \in Processes \cup {Nobody}
    /\ since \in 0 .. Gap

\* A process has a session only inside the gate, on an operation of arXiv.
SessionsAreInside ==
    \A p \in Processes : session[p] # "none" => Gated(p) /\ at[p] \in Inside

\* The lock belongs to an open session, therefore to a process inside.
HolderIsInside == holder # Nobody => session[holder] = "open"

\* Past the wait for the lock, an open session has it.
OpenSessionsHold ==
    \A p \in Processes :
        at[p] \in {"locked", "pacing", "sending"} /\ session[p] = "open" => holder = p

\* The rest of the pause makes up for what is missing from the gap ...
PausesCoverGap ==
    \A p \in Processes : at[p] = "pacing" /\ session[p] = "open" => nap[p] + since >= Gap

\* ... so that nothing is missing when the request is sent.
SentAfterGap ==
    \A p \in Processes : at[p] = "sending" /\ session[p] = "open" => since = Gap

GateInv ==
    /\ TypeInv
    /\ SessionsAreInside
    /\ HolderIsInside
    /\ OpenSessionsHold
    /\ PausesCoverGap
    /\ SentAfterGap

LEMMA InitGate == Init => GateInv
  BY TimeAssumption
     DEF Init, GateInv, TypeInv, Places, Inside, Services, SessionsAreInside, HolderIsInside,
         OpenSessionsHold, PausesCoverGap, SentAfterGap

----------------------------------------------------------------------------
(* Operators *)

LEMMA LessType == \A n \in Nat : Less(n) \in Nat /\ n <= Less(n) + 1
  BY DEF Less

LEMMA PlacesType ==
    /\ Inside \subseteq Places
    /\ {"idle", "attempt", "backoff", "locking", "locked", "pacing", "sending", "releasing"}
         \subseteq Places
    /\ {"idle", "attempt", "backoff"} \cap Inside = {}
  BY DEF Places, Inside

\* An attempt that fails ends the operation or waits for the next.
LEMMA GoesOut ==
    ASSUME TypeInv, NEW p \in Processes, NEW outcome \in Delays \cup {None}, Goes(p, outcome)
    PROVE  /\ \E where \in {"idle", "backoff"} : Goto(p, where)
           /\ left' \in [Processes -> Nat]
           /\ service' \in [Processes -> Services]
           /\ again' \in [Processes -> Delays \cup {None}]
           /\ nap' \in [Processes -> Nat]
           /\ \A q \in Processes \ {p} : nap'[q] = nap[q] /\ service'[q] = service[q]
<1>1. Delays \subseteq Nat /\ None \notin Nat
  BY TimeAssumption
<1>2. CASE outcome # None /\ left[p] > 0 /\ outcome <= left[p]
  BY <1>1, <1>2 DEF Goes, TypeInv
<1>3. CASE ~(outcome # None /\ left[p] > 0 /\ outcome <= left[p])
  BY <1>3 DEF Goes, End, TypeInv, Services
<1>4. QED
  BY <1>2, <1>3

LEMMA EndType ==
    ASSUME TypeInv, NEW p \in Processes, End(p)
    PROVE  /\ Goto(p, "idle")
           /\ left' \in [Processes -> Nat]
           /\ service' \in [Processes -> Services]
           /\ again' \in [Processes -> Delays \cup {None}]
           /\ \A q \in Processes \ {p} : service'[q] = service[q]
  BY DEF End, TypeInv, Services

----------------------------------------------------------------------------
(* Time passes *)

LEMMA TickStep ==
    ASSUME GateInv, Tick
    PROVE  GateInv'
<1>1. TypeInv'
  <2>1. since' \in 0 .. Gap
    BY TimeAssumption DEF GateInv, TypeInv, Tick
  <2>2. QED
    BY <2>1, LessType DEF GateInv, TypeInv, Tick
<1>2. SessionsAreInside' /\ HolderIsInside' /\ OpenSessionsHold'
  BY DEF GateInv, Tick, SessionsAreInside, HolderIsInside, OpenSessionsHold, Gated
<1>3. PausesCoverGap'
  <2> SUFFICES ASSUME NEW p \in Processes, at[p] = "pacing", session[p] = "open"
               PROVE  nap'[p] + since' >= Gap
    BY DEF PausesCoverGap, Tick
  <2>1. nap[p] + since >= Gap /\ nap[p] \in Nat /\ since \in 0 .. Gap /\ Gap \in Nat
    BY TimeAssumption DEF GateInv, PausesCoverGap, TypeInv
  <2>2. nap'[p] = Less(nap[p]) /\ since' = IF since < Gap THEN since + 1 ELSE Gap
    BY DEF Tick
  <2>3. QED
    BY <2>1, <2>2, LessType
<1>4. SentAfterGap'
  BY TimeAssumption DEF GateInv, Tick, SentAfterGap, TypeInv
<1>5. QED
  BY <1>1, <1>2, <1>3, <1>4 DEF GateInv

----------------------------------------------------------------------------
(* Steps of a process *)

LEMMA LoopType ==
    ASSUME TypeInv, NEW p \in Processes, Loop(p)
    PROVE  TypeInv'
<1> USE PlacesType
<1>1. CASE Begin(p)
  BY <1>1, TimeAssumption DEF Begin, Goto, TypeInv
<1>2. CASE DoNotAttempt(p)
  BY <1>2, EndType DEF DoNotAttempt, Goto, TypeInv
<1>3. CASE SendUngated(p)
  BY <1>3 DEF SendUngated, Goto, TypeInv
<1>4. CASE Answered(p)
  <2>1. PICK outcome \in Outcomes(p) :
          \/ /\ Goto(p, "releasing")
             /\ again' = [again EXCEPT ![p] = outcome]
             /\ since' = IF Covered(p) THEN 0 ELSE since
             /\ UNCHANGED <<service, left, nap, attempt>>
          \/ Goes(p, outcome) /\ UNCHANGED since
    BY <1>4 DEF Answered
  <2>2. outcome \in Delays \cup {None}
    BY DEF Outcomes
  <2>3. since' \in 0 .. Gap
    BY <2>1, TimeAssumption DEF TypeInv
  <2>4. QED
    BY <1>4, <2>1, <2>2, <2>3, GoesOut DEF Answered, Goto, TypeInv
<1>5. CASE Retry(p)
  BY <1>5 DEF Retry, Goto, TypeInv
<1>6. QED
  BY <1>1, <1>2, <1>3, <1>4, <1>5 DEF Loop

LEMMA GateType ==
    ASSUME TypeInv, NEW p \in Processes, Gate(p) \/ Grant(p)
    PROVE  TypeInv'
<1> USE PlacesType
<1>1. CASE Enter(p)
  BY <1>1 DEF Enter, Goto, TypeInv
<1>2. CASE Grant(p)
  BY <1>2 DEF Grant, TypeInv
<1>3. CASE Locked(p)
  BY <1>3 DEF Locked, Goto, TypeInv
<1>4. CASE GiveUpLock(p)
  BY <1>4, EndType DEF GiveUpLock, Close, HolderAfterTimeout, Unlocked, Goto, TypeInv
<1>5. CASE Pace(p)
  BY <1>5, TimeAssumption DEF Pace, Pause, Goto, TypeInv
<1>6. CASE Send(p)
  BY <1>6 DEF Send, Goto, TypeInv
<1>7. CASE Release(p)
  <2>1. again[p] \in Delays \cup {None}
    BY DEF TypeInv
  <2>2. (End(p) /\ UNCHANGED nap) \/ Goes(p, again[p])
    BY <1>7 DEF Release
  <2>3. /\ session' = [session EXCEPT ![p] = "none"]
        /\ holder' \in {holder, Nobody}
        /\ UNCHANGED <<since, losses>>
    BY <1>7 DEF Release, Close, Unlocked
  <2>4. QED
    BY <2>1, <2>2, <2>3, EndType, GoesOut DEF Goto, TypeInv
<1>8. QED
  BY <1>1, <1>2, <1>3, <1>4, <1>5, <1>6, <1>7 DEF Gate

LEMMA FailureType ==
    ASSUME TypeInv, NEW p \in Processes, Failure(p)
    PROVE  TypeInv'
<1> USE PlacesType
<1>1. CASE LoseSession(p)
  BY <1>1 DEF LoseSession, Unlocked, TypeInv
<1>2. CASE Crash(p)
  <2>1. since' \in 0 .. Gap
    BY <1>2, TimeAssumption DEF Crash, TypeInv
  <2>2. QED
    BY <1>2, <2>1, EndType DEF Crash, Close, Unlocked, Goto, TypeInv
<1>3. QED
  BY <1>1, <1>2 DEF Failure

\* What a step of one process says of the others: their state stays, the lock
\* moves only between this process and nobody, and the clock of the gap starts
\* anew only when this process has the lock.
OthersKept(p) ==
    /\ \A q \in Processes \ {p} :
          /\ at'[q] = at[q] /\ session'[q] = session[q]
          /\ nap'[q] = nap[q] /\ service'[q] = service[q]
    /\ holder' = holder \/ (holder = p /\ holder' = Nobody) \/ (holder = Nobody /\ holder' = p)
    /\ since' = since \/ Covered(p)

LEMMA LoopKeepsOthers ==
    ASSUME TypeInv, NEW p \in Processes, Loop(p)
    PROVE  OthersKept(p)
<1>1. CASE Begin(p)
  BY <1>1 DEF Begin, Goto, TypeInv, OthersKept
<1>2. CASE DoNotAttempt(p)
  BY <1>2 DEF DoNotAttempt, End, Goto, TypeInv, OthersKept
<1>3. CASE SendUngated(p)
  BY <1>3 DEF SendUngated, Goto, TypeInv, OthersKept
<1>4. CASE Answered(p)
  <2>1. PICK outcome \in Delays \cup {None} :
          \/ /\ Goto(p, "releasing")
             /\ since' = IF Covered(p) THEN 0 ELSE since
             /\ UNCHANGED <<service, nap>>
          \/ Goes(p, outcome) /\ UNCHANGED since
    BY <1>4 DEF Answered, Outcomes
  <2>2. UNCHANGED <<session, holder>>
    BY <1>4 DEF Answered
  <2>3. QED
    BY <2>1, <2>2, GoesOut DEF Goto, TypeInv, OthersKept
<1>5. CASE Retry(p)
  BY <1>5 DEF Retry, Goto, TypeInv, OthersKept
<1>6. QED
  BY <1>1, <1>2, <1>3, <1>4, <1>5 DEF Loop

LEMMA GateKeepsOthers ==
    ASSUME TypeInv, NEW p \in Processes, Gate(p) \/ Grant(p)
    PROVE  OthersKept(p)
<1>1. CASE Enter(p)
  BY <1>1 DEF Enter, Goto, TypeInv, OthersKept
<1>2. CASE Grant(p)
  BY <1>2 DEF Grant, TypeInv, OthersKept
<1>3. CASE Locked(p)
  BY <1>3 DEF Locked, Goto, TypeInv, OthersKept
<1>4. CASE GiveUpLock(p)
  BY <1>4 DEF GiveUpLock, End, Close, HolderAfterTimeout, Unlocked, Goto, TypeInv, OthersKept
<1>5. CASE Pace(p)
  BY <1>5 DEF Pace, Goto, TypeInv, OthersKept
<1>6. CASE Send(p)
  BY <1>6 DEF Send, Goto, TypeInv, OthersKept
<1>7. CASE Release(p)
  <2>1. again[p] \in Delays \cup {None}
    BY DEF TypeInv
  <2>2. (End(p) /\ UNCHANGED nap) \/ Goes(p, again[p])
    BY <1>7 DEF Release
  <2>3. /\ session' = [session EXCEPT ![p] = "none"]
        /\ holder' = IF holder = p THEN Nobody ELSE holder
        /\ UNCHANGED <<since, losses>>
    BY <1>7 DEF Release, Close, Unlocked
  <2>4. QED
    BY <2>1, <2>2, <2>3, EndType, GoesOut DEF Goto, TypeInv, OthersKept
<1>8. QED
  BY <1>1, <1>2, <1>3, <1>4, <1>5, <1>6, <1>7 DEF Gate

LEMMA FailureKeepsOthers ==
    ASSUME TypeInv, NEW p \in Processes, Failure(p)
    PROVE  OthersKept(p)
<1>1. CASE LoseSession(p)
  BY <1>1 DEF LoseSession, Unlocked, TypeInv, OthersKept
<1>2. CASE Crash(p)
  BY <1>2 DEF Crash, End, Close, Unlocked, Goto, TypeInv, OthersKept
<1>3. QED
  BY <1>1, <1>2 DEF Failure

\* It is then enough to look at the process that took the step.
OwnPart(p) ==
    /\ session[p] # "none" => Gated(p) /\ at[p] \in Inside
    /\ holder = p => session[p] = "open"
    /\ at[p] \in {"locked", "pacing", "sending"} /\ session[p] = "open" => holder = p
    /\ at[p] = "pacing" /\ session[p] = "open" => nap[p] + since >= Gap
    /\ at[p] = "sending" /\ session[p] = "open" => since = Gap

LEMMA OwnPartHolds ==
    ASSUME GateInv, NEW p \in Processes
    PROVE  OwnPart(p) /\ p # Nobody
  BY ProcessesAssumption
     DEF GateInv, OwnPart, SessionsAreInside, HolderIsInside, OpenSessionsHold,
         PausesCoverGap, SentAfterGap

LEMMA OwnershipIsLocal ==
    ASSUME GateInv, NEW p \in Processes, OthersKept(p), OwnPart(p)', TypeInv'
    PROVE  GateInv'
<1>1. ASSUME NEW q \in Processes PROVE OwnPart(q)'
  <2>1. CASE q = p
    BY <2>1
  <2>2. CASE q # p
    <3>1. OwnPart(q) /\ q # Nobody
      BY OwnPartHolds
    <3>2. holder' = q <=> holder = q
      BY <2>2, <3>1 DEF OthersKept
    <3>3. holder = q => since' = since
      BY <2>2 DEF OthersKept, GateInv, OpenSessionsHold, Covered
    <3>4. QED
      BY <2>2, <3>1, <3>2, <3>3 DEF OthersKept, OwnPart, Gated
  <2>3. QED
    BY <2>1, <2>2
<1>2. holder' \in Processes \cup {Nobody}
  BY DEF TypeInv
<1>3. SessionsAreInside'
  BY <1>1 DEF OwnPart, SessionsAreInside
<1>4. HolderIsInside'
  BY <1>1, <1>2 DEF OwnPart, HolderIsInside
<1>5. OpenSessionsHold' /\ PausesCoverGap' /\ SentAfterGap'
  BY <1>1 DEF OwnPart, OpenSessionsHold, PausesCoverGap, SentAfterGap
<1>6. QED
  BY <1>3, <1>4, <1>5 DEF GateInv


\* Outside the gate a process has neither a session nor the lock.
LEMMA OutsideHasNothing ==
    ASSUME GateInv, NEW p \in Processes, at[p] \notin Inside \/ ~Gated(p)
    PROVE  session[p] = "none" /\ holder # p
  BY OwnPartHolds DEF OwnPart

\* A process that has neither is fine wherever it is.
LEMMA NothingToShow ==
    ASSUME NEW p \in Processes, session'[p] = "none", holder' # p
    PROVE  OwnPart(p)'
  BY DEF OwnPart

LEMMA LoopOwnPart ==
    ASSUME GateInv, NEW p \in Processes, Loop(p)
    PROVE  OwnPart(p)'
<1>1. TypeInv
  BY DEF GateInv
<1>2. CASE Answered(p) /\ Gated(p)
  <2>1. /\ Goto(p, "releasing")
        /\ UNCHANGED <<service, nap, session, holder>>
    BY <1>2 DEF Answered
  <2>2. at'[p] = "releasing" /\ "releasing" \in Inside
    BY <1>1, <2>1 DEF Goto, TypeInv, Inside
  <2>3. OwnPart(p)
    BY OwnPartHolds
  <2>4. QED
    BY <1>2, <2>1, <2>2, <2>3 DEF OwnPart, Gated
<1>3. CASE ~(Answered(p) /\ Gated(p))
  <2>1. at[p] \notin Inside \/ ~Gated(p)
    BY <1>3 DEF Loop, Begin, DoNotAttempt, SendUngated, Retry, Inside
  <2>2. UNCHANGED <<session, holder>>
    BY DEF Loop, Begin, DoNotAttempt, SendUngated, Answered, Retry
  <2>3. QED
    BY <2>1, <2>2, OutsideHasNothing, NothingToShow
<1>4. QED
  BY <1>2, <1>3

LEMMA GateOwnPart ==
    ASSUME GateInv, NEW p \in Processes, Gate(p) \/ Grant(p)
    PROVE  OwnPart(p)'
<1>1. TypeInv /\ OwnPart(p) /\ p # Nobody
  BY OwnPartHolds DEF GateInv
<1>2. CASE Enter(p)
  <2>1. holder # p
    BY <1>2, OutsideHasNothing DEF Enter, Inside
  <2>2. at'[p] = "locking" /\ session'[p] = "open" /\ Gated(p)' /\ holder' = holder
    BY <1>1, <1>2 DEF Enter, Goto, Gated, TypeInv
  <2>3. QED
    BY <2>1, <2>2 DEF OwnPart, Inside
<1>3. CASE Grant(p)
  BY <1>1, <1>3 DEF Grant, OwnPart, Inside, Gated
<1>4. CASE Locked(p)
  BY <1>1, <1>4 DEF Locked, Goto, OwnPart, Inside, Gated, TypeInv
<1>5. CASE GiveUpLock(p)
  <2>1. session'[p] = "none" /\ holder' # p
    BY <1>1, <1>5 DEF GiveUpLock, Close, HolderAfterTimeout, Unlocked, TypeInv
  <2>2. QED
    BY <2>1, NothingToShow
<1>6. CASE Pace(p)
  <2>1. at[p] = "locked" /\ UNCHANGED <<service, session, holder, since>>
    BY <1>6 DEF Pace
  <2>2. \/ at'[p] = "pacing" /\ nap'[p] = Gap
        \/ at'[p] = "releasing"
    BY <1>1, <1>6 DEF Pace, Pause, Goto, TypeInv
  <2>3. nap'[p] = Gap => nap'[p] + since' >= Gap
    BY <1>1, <2>1, TimeAssumption DEF TypeInv
  <2>4. QED
    BY <1>1, <2>1, <2>2, <2>3 DEF OwnPart, Inside, Gated
<1>7. CASE Send(p)
  <2>1. /\ at[p] = "pacing" /\ nap[p] = 0
        /\ UNCHANGED <<service, session, holder, since>>
        /\ at'[p] \in {"sending", "releasing"}
    BY <1>1, <1>7 DEF Send, Goto, TypeInv
  <2>2. session[p] = "open" => since = Gap
    BY <1>1, <2>1, TimeAssumption DEF OwnPart, TypeInv
  <2>3. QED
    BY <1>1, <2>1, <2>2 DEF OwnPart, Inside, Gated
<1>8. CASE Release(p)
  <2>1. session'[p] = "none" /\ holder' # p
    BY <1>1, <1>8 DEF Release, Close, Unlocked, TypeInv
  <2>2. QED
    BY <2>1, NothingToShow
<1>9. QED
  BY <1>2, <1>3, <1>4, <1>5, <1>6, <1>7, <1>8 DEF Gate

LEMMA FailureOwnPart ==
    ASSUME GateInv, NEW p \in Processes, Failure(p)
    PROVE  OwnPart(p)'
<1>1. TypeInv /\ OwnPart(p) /\ p # Nobody
  BY OwnPartHolds DEF GateInv
<1>2. CASE LoseSession(p)
  <2>1. session'[p] = "lost" /\ session[p] = "open" /\ holder' # p /\ UNCHANGED <<at, service>>
    BY <1>1, <1>2 DEF LoseSession, Unlocked, TypeInv
  <2>2. QED
    BY <1>1, <2>1 DEF OwnPart, Gated
<1>3. CASE Crash(p)
  <2>1. session'[p] = "none" /\ holder' # p
    BY <1>1, <1>3 DEF Crash, Close, Unlocked, TypeInv
  <2>2. QED
    BY <2>1, NothingToShow
<1>4. QED
  BY <1>2, <1>3 DEF Failure

----------------------------------------------------------------------------
(* The theorem *)

LEMMA GateStep ==
    ASSUME GateInv, [Next]_vars
    PROVE  GateInv'
<1>1. ASSUME NEW p \in Processes, Loop(p) \/ Gate(p) \/ Grant(p) \/ Failure(p)
      PROVE  GateInv'
  <2>1. TypeInv
    BY DEF GateInv
  <2>2. TypeInv'
    BY <1>1, <2>1, LoopType, GateType, FailureType
  <2>3. OthersKept(p)
    BY <1>1, <2>1, LoopKeepsOthers, GateKeepsOthers, FailureKeepsOthers
  <2>4. OwnPart(p)'
    BY <1>1, LoopOwnPart, GateOwnPart, FailureOwnPart
  <2>5. QED
    BY <2>2, <2>3, <2>4, OwnershipIsLocal
<1>2. CASE UNCHANGED vars
  BY <1>2 DEF vars, GateInv, TypeInv, SessionsAreInside, HolderIsInside, OpenSessionsHold,
     PausesCoverGap, SentAfterGap, Gated
<1>3. QED
  BY <1>1, <1>2, TickStep DEF Next

LEMMA GateInvariant == Spec => []GateInv
<1>1. GateInv /\ [Next]_vars => GateInv'
  BY GateStep
<1>2. QED
  BY InitGate, <1>1, PTL DEF Spec

\* The lock is in the hands of a process inside the gate with an open session,
\* and the requests that are covered by it go out one at a time, none within the
\* gap after another has ended.
THEOREM RequestsSpaced == Spec => []RequestsAreSpaced
<1>1. GateInv => RequestsAreSpaced
  BY DEF GateInv, TypeInv, SessionsAreInside, HolderIsInside, OpenSessionsHold, SentAfterGap,
     RequestsAreSpaced, Covered
<1>2. QED
  BY <1>1, GateInvariant, PTL

----------------------------------------------------------------------------
(*                            The lineage                                  *)
----------------------------------------------------------------------------
(* Natural numbers, ranks *)

\* Induction, with a set in the place of a predicate.
LEMMA SetInduction ==
    ASSUME NEW S \in SUBSET Nat, 0 \in S, \A n \in S : n + 1 \in S
    PROVE  S = Nat
<1>1. SUFFICES ASSUME Nat \ S # {} PROVE FALSE
  OBVIOUS
<1>2. PICK x \in Nat \ S : \A y \in Nat \ S : <<y, x>> \notin OpToRel(<, Nat)
  <2> DEFINE D == Nat \ S
  <2>1. D \subseteq Nat /\ D # {}
    BY <1>1
  <2> HIDE DEF D
  <2>2. \E x \in D : \A y \in D : <<y, x>> \notin OpToRel(<, Nat)
    BY <2>1, NatLessThanWellFounded, WFMin
  <2>3. QED
    BY <2>2 DEF D
<1>3. \A y \in Nat \ S : ~(y < x)
  BY <1>2 DEF OpToRel
<1>4. x # 0 /\ x - 1 \in Nat
  OBVIOUS
<1>5. x - 1 \in S
  BY <1>3, <1>4
<1>6. (x - 1) + 1 = x
  OBVIOUS
<1>7. QED
  BY <1>5, <1>6

\* A nonempty set of natural numbers has a least one.
LEMMA LeastExists ==
    ASSUME NEW S \in SUBSET Nat, S # {}
    PROVE  \E x \in S : \A n \in S : x <= n
<1>1. PICK x \in S : \A y \in S : <<y, x>> \notin OpToRel(<, Nat)
  BY NatLessThanWellFounded, WFMin
<1>2. \A y \in S : x <= y
  <2>1. SUFFICES ASSUME NEW y \in S, ~(x <= y) PROVE FALSE
    OBVIOUS
  <2>2. x \in Nat /\ y \in Nat
    OBVIOUS
  <2>3. y < x
    BY <2>1, <2>2
  <2>4. QED
    BY <1>1, <2>2, <2>3 DEF OpToRel
<1>3. QED
  BY <1>2

\* A strict total order, as what is below each element of the set.
TotallyOrders(below, S) ==
    /\ below \in [S -> SUBSET S]
    /\ \A t \in S : t \notin below[t]
    /\ \A t, u \in S : t = u \/ t \in below[u] \/ u \in below[t]
    /\ \A t, u \in S : u \in below[t] => below[u] \subseteq below[t]

\* The number of smaller elements is a place in a finite set: each has one of its own,
\* in the order, and no place is left out.
LEMMA RanksArePlaces ==
    ASSUME NEW S, IsFiniteSet(S), NEW below, TotallyOrders(below, S)
    PROVE  /\ \A t \in S : Cardinality(below[t]) \in 0 .. Cardinality(S) - 1
           /\ \A t, u \in S : u \in below[t] <=> Cardinality(below[u]) < Cardinality(below[t])
           /\ \A t, u \in S : Cardinality(below[t]) = Cardinality(below[u]) => t = u
           /\ \A n \in 0 .. Cardinality(S) - 1 : \E t \in S : Cardinality(below[t]) = n
<1> DEFINE N == Cardinality(S)
           rank == [t \in S |-> Cardinality(below[t])]
<1>1. N \in Nat
  BY FS_CardinalityType
<1>2. \A t \in S : below[t] \in SUBSET S /\ IsFiniteSet(below[t]) /\ Cardinality(below[t]) \in Nat
  BY FS_Subset, FS_CardinalityType DEF TotallyOrders
<1>3. \A t \in S : Cardinality(below[t]) < N
  <2>1. SUFFICES ASSUME NEW t \in S PROVE Cardinality(below[t]) < N
    OBVIOUS
  <2>2. below[t] # S
    BY DEF TotallyOrders
  <2>3. Cardinality(below[t]) <= N /\ Cardinality(below[t]) # N
    BY <1>2, <2>2, FS_Subset
  <2>4. QED
    BY <1>1, <1>2, <2>3
<1>4. \A t, u \in S : u \in below[t] => Cardinality(below[u]) < Cardinality(below[t])
  <2>1. SUFFICES ASSUME NEW t \in S, NEW u \in S, u \in below[t]
                 PROVE  Cardinality(below[u]) < Cardinality(below[t])
    OBVIOUS
  <2>2. below[u] \in SUBSET below[t] /\ below[u] # below[t]
    BY <2>1 DEF TotallyOrders
  <2>3. Cardinality(below[u]) <= Cardinality(below[t]) /\ Cardinality(below[u]) # Cardinality(below[t])
    BY <1>2, <2>2, FS_Subset
  <2>4. QED
    BY <1>2, <2>3
<1>5. \A t, u \in S : Cardinality(below[u]) < Cardinality(below[t]) => u \in below[t]
  <2>1. SUFFICES ASSUME NEW t \in S, NEW u \in S, Cardinality(below[u]) < Cardinality(below[t])
                 PROVE  u \in below[t]
    OBVIOUS
  <2>2. u # t /\ ~(Cardinality(below[t]) < Cardinality(below[u]))
    BY <1>2, <2>1
  <2>3. t \notin below[u]
    BY <1>4, <2>2
  <2>4. QED
    BY <2>2, <2>3 DEF TotallyOrders
<1>6. \A t, u \in S : Cardinality(below[t]) = Cardinality(below[u]) => t = u
  <2>1. SUFFICES ASSUME NEW t \in S, NEW u \in S, Cardinality(below[t]) = Cardinality(below[u])
                 PROVE  t = u
    OBVIOUS
  <2>2. ~(Cardinality(below[t]) < Cardinality(below[u])) /\ ~(Cardinality(below[u]) < Cardinality(below[t]))
    BY <1>2, <2>1
  <2>3. t \notin below[u] /\ u \notin below[t]
    BY <1>4, <2>2
  <2>4. QED
    BY <2>3 DEF TotallyOrders
<1>7. rank \in [S -> 0 .. N - 1]
  BY <1>1, <1>2, <1>3
<1>8. rank \in Injection(S, 0 .. N - 1)
  BY <1>6, <1>7 DEF Injection, IsInjective
<1>9. rank \in Surjection(S, 0 .. N - 1)
  <2>1. IsFiniteSet(0 .. N - 1) /\ Cardinality(0 .. N - 1) = N
    BY <1>1, FS_Interval
  <2>2. QED
    BY <1>8, <2>1, FS_Injection
<1>10. \A n \in 0 .. N - 1 : \E t \in S : rank[t] = n
  BY <1>9 DEF Surjection
<1>11. QED
  BY <1>1, <1>2, <1>3, <1>4, <1>5, <1>6, <1>10

\* The first so many elements of a finite set are so many, unless they are all of it.
LEMMA FirstOfRank ==
    ASSUME NEW S, IsFiniteSet(S), NEW below, TotallyOrders(below, S), NEW limit \in Nat,
           NEW C \in SUBSET S, \A t \in S : t \in C <=> Cardinality(below[t]) < limit
    PROVE  /\ IsFiniteSet(C) /\ Cardinality(C) \in Nat
           /\ Cardinality(C) <= limit
           /\ C # S => Cardinality(C) = limit
<1> DEFINE rank == [t \in C |-> Cardinality(below[t])]
<1>1. C \in SUBSET S
  OBVIOUS
<1>2. IsFiniteSet(C) /\ Cardinality(C) \in Nat
  BY <1>1, FS_Subset, FS_CardinalityType
<1>3. IsFiniteSet(0 .. limit - 1) /\ Cardinality(0 .. limit - 1) = limit
  BY FS_Interval
<1>4. \A t \in S : Cardinality(below[t]) \in 0 .. Cardinality(S) - 1
  BY RanksArePlaces
<1>5. Cardinality(S) \in Nat
  BY FS_CardinalityType
<1>6. rank \in [C -> 0 .. limit - 1]
  BY <1>4, <1>5
<1>7. \A t, u \in C : rank[t] = rank[u] => t = u
  BY <1>1, RanksArePlaces
<1>8. rank \in Injection(C, 0 .. limit - 1)
  BY <1>6, <1>7 DEF Injection, IsInjective
<1>9. Cardinality(C) <= limit
  BY <1>2, <1>3, <1>8, FS_Injection
<1>10. ASSUME C # S PROVE Cardinality(C) = limit
  <2>1. PICK u \in S : ~(Cardinality(below[u]) < limit)
    BY <1>10
  <2>2. limit <= Cardinality(S) - 1
    BY <1>4, <1>5, <2>1
  <2>3. \A n \in 0 .. limit - 1 : \E t \in S : Cardinality(below[t]) = n
    BY <1>5, <2>2, RanksArePlaces
  <2>4. \A n \in 0 .. limit - 1 : \E t \in C : rank[t] = n
    BY <2>3
  <2>5. rank \in Surjection(C, 0 .. limit - 1)
    BY <1>6, <2>4 DEF Surjection
  <2>6. limit <= Cardinality(C)
    BY <1>2, <1>3, <2>5, FS_Surjection
  <2>7. QED
    BY <1>2, <1>9, <2>6
<1>11. QED
  BY <1>2, <1>9, <1>10

\* The least element of a nonempty one.
LEMMA FirstExists ==
    ASSUME NEW S, IsFiniteSet(S), S # {}, NEW below, TotallyOrders(below, S)
    PROVE  \E t \in S : \A u \in S : u = t \/ t \in below[u]
<1>1. Cardinality(S) \in Nat /\ Cardinality(S) # 0
  BY FS_CardinalityType, FS_EmptySet
<1>2. PICK t \in S : Cardinality(below[t]) = 0
  BY <1>1, RanksArePlaces
<1>3. \A u \in S : u = t \/ t \in below[u]
  <2>1. SUFFICES ASSUME NEW u \in S, u \in below[t] PROVE FALSE
    BY DEF TotallyOrders
  <2>2. Cardinality(below[u]) < 0 /\ Cardinality(below[u]) \in 0 .. Cardinality(S) - 1
    BY <1>2, <2>1, RanksArePlaces
  <2>3. QED
    BY <1>1, <2>2
<1>4. QED
  BY <1>3

----------------------------------------------------------------------------
(* The orders of papers and of relations *)

Published == date \in Calendars /\ corpus \in Corpora

LEMMA PublishedFacts ==
    ASSUME Published
    PROVE  /\ IsFiniteSet(corpus)
           /\ \A e \in corpus : e.id \in Nat /\ e.type \in Nat /\ e.src \in Papers /\ e.dst \in Papers
           /\ \A e, f \in corpus : e.id = f.id => e = f
           /\ \A p \in Papers : p \in Nat /\ date[p] \in Nat \cup {NoDate}
           /\ Eligible \subseteq corpus
           /\ \A e \in Eligible : e.type \in Permitted
  BY CorporaAssumption, DatesAssumption, PapersAssumption DEF Published, Edges, Eligible

LEMMA BeforeIsAnOrder ==
    ASSUME Published
    PROVE  /\ \A p \in Papers : ~Before(p, p)
           /\ \A p, q \in Papers : p = q \/ Before(p, q) \/ Before(q, p)
           /\ \A p, q, r \in Papers : Before(p, q) /\ Before(q, r) => Before(p, r)
<1>1. \A p \in Papers : p \in Nat /\ DateKey(p) \in Nat
  BY PublishedFacts, DatesAssumption DEF DateKey
<1>2. QED
  BY <1>1 DEF Before

LEMMA EdgeBeforeIsAnOrder ==
    ASSUME Published
    PROVE  /\ \A e \in corpus : ~EdgeBefore(e, e)
           /\ \A e, f \in corpus : e = f \/ EdgeBefore(e, f) \/ EdgeBefore(f, e)
           /\ \A e, f, g \in corpus : EdgeBefore(e, f) /\ EdgeBefore(f, g) => EdgeBefore(e, g)
  BY PublishedFacts DEF EdgeBefore

\* So are the two orders of the edges that are added to a tree.
LEMMA FirstIsAnOrder ==
    ASSUME Published
    PROVE  /\ \A e \in corpus : ~First(e, e)
           /\ \A e, f \in corpus : e = f \/ First(e, f) \/ First(f, e)
           /\ \A e, f, g \in corpus : First(e, f) /\ First(f, g) => First(e, g)
<1>1. CASE phase = "building"
  <2>1. \A e \in corpus : e.src \in Nat /\ e.dst \in Nat
    BY PublishedFacts
  <2>2. \A e \in corpus : ~BuildOrder(e, e)
    BY <2>1, PublishedFacts DEF BuildOrder
  <2>3. \A e, f \in corpus : e = f \/ BuildOrder(e, f) \/ BuildOrder(f, e)
    BY <2>1, PublishedFacts DEF BuildOrder
  <2>4. \A e, f, g \in corpus : BuildOrder(e, f) /\ BuildOrder(f, g) => BuildOrder(e, g)
    BY <2>1, PublishedFacts DEF BuildOrder
  <2>5. QED
    BY <1>1, <2>2, <2>3, <2>4 DEF First
<1>2. CASE phase # "building"
  <2>1. \A e \in corpus : ~RequestOrder(e, e)
    BY PublishedFacts, BeforeIsAnOrder, EdgeBeforeIsAnOrder DEF RequestOrder
  <2>2. \A e, f \in corpus : e = f \/ RequestOrder(e, f) \/ RequestOrder(f, e)
    BY PublishedFacts, BeforeIsAnOrder, EdgeBeforeIsAnOrder DEF RequestOrder
  <2>3. ASSUME NEW e \in corpus, NEW f \in corpus, NEW g \in corpus, RequestOrder(e, f), RequestOrder(f, g)
        PROVE  RequestOrder(e, g)
    <3>1. e.dst \in Papers /\ f.dst \in Papers /\ g.dst \in Papers
      BY PublishedFacts
    <3>2. CASE e.dst = f.dst /\ f.dst = g.dst
      BY <2>3, <3>1, <3>2, BeforeIsAnOrder, EdgeBeforeIsAnOrder DEF RequestOrder
    <3>3. CASE ~(e.dst = f.dst /\ f.dst = g.dst)
      <4>1. Before(e.dst, f.dst) \/ e.dst = f.dst
        BY <2>3 DEF RequestOrder
      <4>2. Before(f.dst, g.dst) \/ f.dst = g.dst
        BY <2>3 DEF RequestOrder
      <4>3. Before(e.dst, g.dst)
        BY <3>1, <3>3, <4>1, <4>2, BeforeIsAnOrder
      <4>4. QED
        BY <4>3 DEF RequestOrder
    <3>4. QED
      BY <3>2, <3>3
  <2>4. QED
    BY <1>2, <2>1, <2>2, <2>3 DEF First
<1>3. QED
  BY <1>1, <1>2

----------------------------------------------------------------------------
(* Distances *)

Layers == 0 .. Cardinality(Papers)

Beyond(papers) == papers \cup {e.dst : e \in {f \in Eligible : f.src \in papers}}

\* The papers within n steps are those within one step less, and one step beyond them.
LEMMA WithinIsDefined ==
    Within = [n \in Layers |-> IF n = 0 THEN {Root} ELSE Beyond(Within[n - 1])]
<1> DEFINE Extends(m, f) == f = [n \in 0 .. m |-> IF n = 0 THEN {Root} ELSE Beyond(f[n - 1])]
           S == {m \in Nat : \E f : Extends(m, f)}
<1>1. 0 \in S
  <2>1. Extends(0, [n \in 0 .. 0 |-> {Root}])
    OBVIOUS
  <2>2. QED
    BY <2>1
<1>2. ASSUME NEW m \in S PROVE m + 1 \in S
  <2>1. PICK f : Extends(m, f)
    OBVIOUS
  <2> DEFINE g == [n \in 0 .. m + 1 |-> IF n = m + 1 THEN Beyond(f[m]) ELSE f[n]]
  <2>2. \A n \in 0 .. m + 1 : g[n] = IF n = 0 THEN {Root} ELSE Beyond(g[n - 1])
    <3>1. SUFFICES ASSUME NEW n \in 0 .. m + 1
                   PROVE  g[n] = IF n = 0 THEN {Root} ELSE Beyond(g[n - 1])
      OBVIOUS
    <3>2. CASE n = m + 1
      <4>1. n # 0 /\ n - 1 = m /\ n - 1 \in 0 .. m + 1 /\ n - 1 # m + 1
        BY <3>2
      <4>2. g[n - 1] = f[m]
        BY <4>1
      <4>3. QED
        BY <3>2, <4>1, <4>2
    <3>3. CASE n # m + 1
      <4>1. n \in 0 .. m
        BY <3>3
      <4>2. g[n] = f[n]
        BY <3>3
      <4>3. f[n] = IF n = 0 THEN {Root} ELSE Beyond(f[n - 1])
        BY <2>1, <4>1
      <4>4. n # 0 => n - 1 \in 0 .. m + 1 /\ n - 1 # m + 1
        BY <4>1
      <4>5. n # 0 => g[n - 1] = f[n - 1]
        BY <4>4
      <4>6. QED
        BY <4>2, <4>3, <4>5
    <3>4. QED
      BY <3>2, <3>3
  <2>3. g = [n \in 0 .. m + 1 |-> g[n]]
    OBVIOUS
  <2> HIDE DEF g
  <2>4. Extends(m + 1, g)
    BY <2>2, <2>3
  <2>5. QED
    BY <2>4
<1>3. S = Nat
  <2> HIDE DEF S
  <2>1. S \in SUBSET Nat
    BY DEF S
  <2>2. QED
    BY <1>1, <1>2, <2>1, SetInduction
<1>4. Cardinality(Papers) \in Nat
  BY PapersAssumption, FS_CardinalityType
<1>5. \E f : f = [n \in Layers |-> IF n = 0 THEN {Root} ELSE Beyond(f[n - 1])]
  BY <1>3, <1>4 DEF Layers
<1>6. Within = CHOOSE f : f = [n \in Layers |-> IF n = 0 THEN {Root} ELSE Beyond(f[n - 1])]
  BY DEF Within, Layers, Beyond
<1>7. QED
  BY <1>5, <1>6

LEMMA WithinSteps ==
    /\ Cardinality(Papers) \in Nat
    /\ DOMAIN Within = Layers
    /\ Within[0] = {Root}
    /\ \A n \in Layers : n # 0 => Within[n] = Beyond(Within[n - 1])
<1>1. Cardinality(Papers) \in Nat
  BY PapersAssumption, FS_CardinalityType
<1>2. 0 \in Layers
  BY <1>1 DEF Layers
<1>3. QED
  BY <1>1, <1>2, WithinIsDefined

LEMMA WithinGrows ==
    ASSUME NEW m \in Layers, NEW n \in Layers, m <= n
    PROVE  Within[m] \subseteq Within[n]
<1> DEFINE S == {k \in Nat : m + k \in Layers => Within[m] \subseteq Within[m + k]}
<1>1. m \in Nat /\ n \in Nat
  BY WithinSteps DEF Layers
<1>2. 0 \in S
  BY <1>1
<1>3. ASSUME NEW k \in S PROVE k + 1 \in S
  <2>1. SUFFICES ASSUME m + (k + 1) \in Layers PROVE Within[m] \subseteq Within[m + (k + 1)]
    OBVIOUS
  <2>2. m + k \in Layers /\ m + (k + 1) # 0 /\ (m + (k + 1)) - 1 = m + k
    BY <1>1, <2>1, WithinSteps DEF Layers
  <2>3. Within[m] \subseteq Within[m + k]
    BY <2>2
  <2>4. Within[m + (k + 1)] = Beyond(Within[m + k])
    BY <2>1, <2>2, WithinSteps
  <2>5. QED
    BY <2>3, <2>4 DEF Beyond
<1>4. S = Nat
  <2> HIDE DEF S
  <2>1. S \in SUBSET Nat
    BY DEF S
  <2>2. QED
    BY <1>2, <1>3, <2>1, SetInduction
<1>5. n - m \in S /\ m + (n - m) = n
  <2>1. n - m \in Nat /\ m + (n - m) = n
    BY <1>1
  <2> HIDE DEF S
  <2>2. QED
    BY <1>4, <2>1
<1>6. QED
  BY <1>5

\* An edge leads one step further.
LEMMA EdgeLeadsOn ==
    ASSUME NEW n \in Layers, n # 0, NEW e \in Eligible, e.src \in Within[n - 1]
    PROVE  e.dst \in Within[n]
  BY WithinSteps DEF Beyond

----------------------------------------------------------------------------
(* The inductive invariant *)

Begun == phase \notin {"published", "refused"}

WalkTypes ==
    /\ limits \in Bounds
    /\ edges \subseteq Eligible
    /\ Root \in Found /\ Found \subseteq Papers
    /\ depth \in [Found -> Nat]
    /\ expanded \subseteq Found
    /\ tree \subseteq edges
    /\ truncated \in BOOLEAN

\* The places of what was found are the first numbers, each once.
Numbered ==
    /\ place \in [Found -> 0 .. Cardinality(Found) - 1]
    /\ \A p, q \in Found : place[p] = place[q] => p = q

\* The queue spans two layers, and what has left it stands before it.
Queued ==
    /\ depth[Root] = 0 /\ place[Root] = 0
    /\ \A p \in Found : depth[p] = 0 => p = Root
    /\ \A p \in Found : depth[p] <= place[p] /\ depth[p] <= limits.depth
    /\ \A p \in expanded, q \in Waiting : place[p] < place[q]
    /\ \A p, q \in Found : place[p] < place[q] => depth[p] <= depth[q]
    /\ \A p \in Waiting, q \in Found : depth[q] <= depth[p] + 1

\* One edge of the tree for each paper but the root, from the layer before.
Spanned ==
    /\ \A e \in tree : e.src \in expanded /\ e.dst \in Found /\ depth[e.dst] = depth[e.src] + 1
    /\ \A p \in Found \ {Root} : \E e \in tree : e.dst = p
    /\ Cardinality(tree) = Cardinality(Found) - 1
    /\ Cardinality(Found) <= limits.nodes
    /\ Cardinality(tree) <= limits.edges

\* The walk leaves papers out when it has no room left, or at the bound on depth,
\* which all that wait have reached by then.
CutOff(e) == e.src \in expanded /\ e.dst \notin Found

Accounted ==
    /\ \A e \in edges : e.src \in expanded /\ e.dst \in Found => depth[e.dst] <= depth[e.src] + 1
    /\ Room > 0 => \A e \in edges : CutOff(e) => depth[e.src] >= limits.depth
    /\ truncated <=> \E e \in edges : CutOff(e)

\* Papers stand in the order of their first predecessors, and those of one
\* predecessor in the order of papers.
OrderedBy(papers, places, es, ts, from) ==
    \A q, r \in papers \ {Root}, e \in es :
        places[q] < places[r] /\ e.dst = r /\ e.src \in from =>
            \E f \in ts : f.dst = q /\ \/ places[f.src] < places[e.src]
                                       \/ f.src = e.src /\ Before(q, r)

Ordered == OrderedBy(Found, place, edges, tree, expanded)

WalkInv == WalkTypes /\ Numbered /\ Queued /\ Spanned /\ Accounted /\ Ordered

----------------------------------------------------------------------------
(* A step of the walk *)

LEMMA WalkIsFinite ==
    ASSUME Published, WalkTypes
    PROVE  /\ IsFiniteSet(Found) /\ Cardinality(Found) \in Nat /\ Cardinality(Found) <= Cardinality(Papers)
           /\ IsFiniteSet(tree) /\ Cardinality(tree) \in Nat
           /\ edges \subseteq corpus
           /\ limits.depth \in Nat /\ limits.nodes \in Nat /\ limits.edges \in Nat
<1>1. Found \in SUBSET Papers /\ tree \in SUBSET corpus /\ edges \subseteq corpus
  BY PublishedFacts DEF WalkTypes
<1>2. QED
  BY <1>1, PublishedFacts, PapersAssumption, FS_Subset, FS_CardinalityType DEF WalkTypes, Bounds

LEMMA HeadWaits ==
    ASSUME WalkTypes, Published, Numbered, Waiting # {}
    PROVE  Head \in Waiting /\ \A q \in Waiting : place[Head] <= place[q]
<1> DEFINE S == {place[p] : p \in Waiting}
<1>1. S \in SUBSET Nat /\ S # {}
  BY WalkIsFinite DEF Waiting, Numbered
<1>2. \E x \in S : \A n \in S : x <= n
  <2> HIDE DEF S
  <2>1. QED
    BY <1>1, LeastExists
<1>3. \E p \in Waiting : \A q \in Waiting : place[p] <= place[q]
  BY <1>2
<1>4. QED
  BY <1>3 DEF Head

\* Where the head of the queue stands: nothing found is more than a layer behind it, and
\* what is in a layer before its own has been expanded.
LEMMA HeadLeads ==
    ASSUME Published, WalkInv, Waiting # {}
    PROVE  /\ Head \in Found /\ Head \notin expanded /\ Head \in Papers
           /\ \A q \in Found : depth[q] <= depth[Head] + 1
           /\ \A q \in Waiting : depth[Head] <= depth[q]
           /\ \A q \in expanded : depth[q] <= depth[Head] /\ place[q] < place[Head]
           /\ \A q \in Found : place[q] < place[Head] => q \in expanded
<1>1. Head \in Waiting /\ \A q \in Waiting : place[Head] <= place[q]
  BY HeadWaits DEF WalkInv
<1>2. Head \in Found /\ Head \notin expanded /\ Head \in Papers
  BY <1>1 DEF Waiting, WalkInv, WalkTypes
<1>3. \A q \in Found : place[q] \in Nat
  BY WalkIsFinite DEF WalkInv, Numbered
<1>4. \A q \in Found : depth[q] <= depth[Head] + 1
  BY <1>1 DEF WalkInv, Queued
<1>5. \A q \in expanded : depth[q] <= depth[Head] /\ place[q] < place[Head]
  BY <1>1, <1>2 DEF WalkInv, Queued, WalkTypes
<1>6. \A q \in Waiting : depth[Head] <= depth[q]
  <2>1. SUFFICES ASSUME NEW q \in Waiting PROVE depth[Head] <= depth[q]
    OBVIOUS
  <2>2. q \in Found /\ depth[q] \in Nat
    BY DEF Waiting, WalkInv, WalkTypes
  <2>3. place[Head] < place[q] \/ Head = q
    BY <1>1, <1>2, <1>3, <2>2 DEF WalkInv, Numbered
  <2>4. QED
    BY <1>2, <2>2, <2>3 DEF WalkInv, Queued
<1>7. \A q \in Found : place[q] < place[Head] => q \in expanded
  BY <1>1, <1>2, <1>3 DEF Waiting
<1>8. QED
  BY <1>2, <1>4, <1>5, <1>6, <1>7

LEMMA RoomIsNat ==
    ASSUME Published, WalkTypes, Spanned
    PROVE  Room \in Nat
  BY WalkIsFinite DEF Spanned, Room

\* Before the walk finds anything, it has left nothing out.
LEMMA NothingCutBefore ==
    ASSUME Published, WalkInv, Waiting # {}, Room > 0, depth[Head] < limits.depth
    PROVE  \A e \in edges : ~CutOff(e)
<1>1. SUFFICES ASSUME NEW e \in edges, CutOff(e) PROVE FALSE
  OBVIOUS
<1>2. depth[e.src] >= limits.depth
  BY <1>1 DEF WalkInv, Accounted
<1>3. e.src \in expanded
  BY <1>1 DEF CutOff
<1>4. depth[e.src] <= depth[Head] /\ Head \in Found /\ e.src \in Found
  BY <1>3, HeadLeads DEF WalkInv, WalkTypes
<1>5. depth[e.src] \in Nat /\ depth[Head] \in Nat /\ limits.depth \in Nat
  BY <1>4, WalkIsFinite DEF WalkInv, WalkTypes
<1>6. QED
  BY <1>2, <1>4, <1>5

\* What the head leads to and has not been found: each with its place.
LEMMA FreshFacts ==
    ASSUME Published, WalkTypes, NEW p
    PROVE  /\ IsFiniteSet(Fresh(p)) /\ Fresh(p) \subseteq Papers
           /\ TotallyOrders([t \in Fresh(p) |-> {u \in Fresh(p) : Before(u, t)}], Fresh(p))
           /\ \A t \in Fresh(p) : Rank(p, t) \in 0 .. Cardinality(Fresh(p)) - 1
           /\ \A t, u \in Fresh(p) : Before(u, t) <=> Rank(p, u) < Rank(p, t)
           /\ \A t, u \in Fresh(p) : Rank(p, t) = Rank(p, u) => t = u
<1> DEFINE S == Fresh(p)
           below == [t \in S |-> {u \in S : Before(u, t)}]
<1>1. S \in SUBSET Papers
  BY WalkIsFinite, PublishedFacts DEF Fresh, Outgoing
<1>2. IsFiniteSet(S)
  BY <1>1, PapersAssumption, FS_Subset
<1>3. TotallyOrders(below, S)
  <2> HIDE DEF S
  <2>1. below \in [S -> SUBSET S]
    OBVIOUS
  <2>2. \A t \in S : t \notin below[t]
    BY <1>1, BeforeIsAnOrder
  <2>3. \A t, u \in S : t = u \/ t \in below[u] \/ u \in below[t]
    BY <1>1, BeforeIsAnOrder
  <2>4. \A t, u \in S : u \in below[t] => below[u] \subseteq below[t]
    BY <1>1, BeforeIsAnOrder
  <2> HIDE DEF below
  <2>5. QED
    BY <2>1, <2>2, <2>3, <2>4 DEF TotallyOrders
<1>4. \A t \in S : Rank(p, t) = Cardinality(below[t])
  BY DEF Rank
<1>5. \A t, u \in S : Before(u, t) <=> u \in below[t]
  OBVIOUS
<1> HIDE DEF S, below
<1>6. /\ \A t \in S : Rank(p, t) \in 0 .. Cardinality(S) - 1
      /\ \A t, u \in S : u \in below[t] <=> Rank(p, u) < Rank(p, t)
      /\ \A t, u \in S : Rank(p, t) = Rank(p, u) => t = u
  BY <1>2, <1>3, <1>4, RanksArePlaces
<1>7. QED
  BY <1>1, <1>2, <1>3, <1>5, <1>6 DEF S, below

LEMMA TakenFacts ==
    ASSUME Published, WalkTypes, Spanned, NEW p
    PROVE  /\ Taken(p) \subseteq Fresh(p) /\ IsFiniteSet(Taken(p)) /\ Cardinality(Taken(p)) \in Nat
           /\ Cardinality(Taken(p)) <= Room
           /\ Taken(p) # Fresh(p) => Cardinality(Taken(p)) = Room
           /\ \A t \in Taken(p) : Rank(p, t) \in 0 .. Cardinality(Taken(p)) - 1
<1> DEFINE S == Fresh(p)
           C == Taken(p)
           below == [t \in S |-> {u \in S : Before(u, t)}]
<1>1. IsFiniteSet(S) /\ TotallyOrders(below, S)
  BY FreshFacts
<1>2. C \in SUBSET S /\ \A t \in S : t \in C <=> Cardinality(below[t]) < Room
  BY DEF Taken, Rank
<1>3. Room \in Nat
  BY RoomIsNat
<1>4. /\ C \subseteq S /\ IsFiniteSet(C) /\ Cardinality(C) \in Nat
      /\ Cardinality(C) <= Room
      /\ C # S => Cardinality(C) = Room
  <2> HIDE DEF S, C, below
  <2>1. QED
    BY <1>1, <1>2, <1>3, FirstOfRank
<1>5. ASSUME NEW t \in C PROVE Rank(p, t) \in 0 .. Cardinality(C) - 1
  <2>1. t \in S /\ Rank(p, t) < Room
    BY DEF Taken
  <2>2. Rank(p, t) \in 0 .. Cardinality(S) - 1
    BY <2>1, FreshFacts
  <2>3. Cardinality(S) \in Nat
    BY <1>1, FS_CardinalityType
  <2> HIDE DEF S, C, below
  <2>4. Rank(p, t) < Cardinality(C)
    BY <1>3, <1>4, <2>1, <2>2, <2>3
  <2>5. QED
    BY <1>4, <2>2, <2>3, <2>4
<1>6. QED
  BY <1>4, <1>5

\* The edge by which a paper is found.
LEMMA LinkLeads ==
    ASSUME Published, WalkTypes, NEW p, NEW t \in Fresh(p)
    PROVE  Link(p, t) \in edges /\ Link(p, t).src = p /\ Link(p, t).dst = t
<1> DEFINE S == {e \in Outgoing(p) : e.dst = t}
           below == [e \in S |-> {f \in S : EdgeBefore(f, e)}]
<1>1. S \in SUBSET corpus /\ S # {}
  BY WalkIsFinite DEF Fresh, Outgoing
<1>2. IsFiniteSet(S)
  BY <1>1, PublishedFacts, FS_Subset
<1>3. \E e \in S : \A f \in S : f = e \/ EdgeBefore(e, f)
  <2> HIDE DEF S
  <2>1. below \in [S -> SUBSET S]
    OBVIOUS
  <2>2. \A e \in S : e \notin below[e]
    BY <1>1, EdgeBeforeIsAnOrder
  <2>3. \A e, f \in S : e = f \/ e \in below[f] \/ f \in below[e]
    BY <1>1, EdgeBeforeIsAnOrder
  <2>4. \A e, f \in S : f \in below[e] => below[f] \subseteq below[e]
    BY <1>1, EdgeBeforeIsAnOrder
  <2>5. \A e, f \in S : e \in below[f] => EdgeBefore(e, f)
    OBVIOUS
  <2> HIDE DEF below
  <2>6. TotallyOrders(below, S)
    BY <2>1, <2>2, <2>3, <2>4 DEF TotallyOrders
  <2>7. QED
    BY <1>1, <1>2, <2>5, <2>6, FirstExists
<1>4. \E e \in Outgoing(p) : e.dst = t /\ \A f \in Outgoing(p) : f.dst = t => f = e \/ EdgeBefore(e, f)
  BY <1>3
<1>5. Link(p, t) \in Outgoing(p) /\ Link(p, t).dst = t
  BY <1>4 DEF Link
<1>6. QED
  BY <1>5 DEF Outgoing

----------------------------------------------------------------------------
(* The walk keeps the invariant *)

LEMMA StartWalk ==
    ASSUME Published, NEW l \in Bounds, NEW es \in SUBSET Eligible, Start(l, es),
           UNCHANGED <<date, corpus>>
    PROVE  WalkInv' /\ Found' = {Root} /\ edges' = es
<1>1. Found' = {Root} /\ depth'[Root] = 0 /\ place'[Root] = 0
  BY DEF Start, Found
<1>2. limits' = l /\ edges' = es /\ expanded' = {} /\ tree' = {} /\ truncated' = FALSE
  BY DEF Start
<1>3. Eligible' = Eligible
  BY DEF Eligible, EligiblePapers, AgainstTime
<1>4. Cardinality(Found') = 1 /\ Cardinality(tree') = 0
  BY <1>1, <1>2, FS_Singleton, FS_EmptySet
<1>5. WalkTypes'
  BY <1>1, <1>2, <1>3, PapersAssumption DEF WalkTypes, Start, Found
<1>6. Numbered'
  BY <1>1, <1>4 DEF Numbered, Start
<1>7. Queued'
  <2>1. l.depth \in Nat
    BY DEF Bounds
  <2>2. Waiting' \subseteq {Root}
    BY <1>1 DEF Waiting
  <2>3. QED
    BY <1>1, <1>2, <2>1, <2>2 DEF Queued
<1>8. Spanned'
  BY <1>1, <1>2, <1>4 DEF Spanned, Bounds
<1>9. Accounted'
  BY <1>2 DEF Accounted, CutOff
<1>10. Ordered'
  BY <1>2 DEF Ordered, OrderedBy
<1>11. QED
  BY <1>1, <1>2, <1>5, <1>6, <1>7, <1>8, <1>9, <1>10 DEF WalkInv

LEMMA StopWalk ==
    ASSUME Published, WalkInv, Stop
    PROVE  WalkInv' /\ UNCHANGED <<depth, place, edges>>
<1>1. /\ Waiting # {} /\ depth[Head] >= limits.depth
      /\ expanded' = expanded \cup {Head}
      /\ truncated' = (truncated \/ Fresh(Head) # {})
      /\ UNCHANGED <<date, corpus, limits, edges, depth, place, tree>>
  BY DEF Stop
<1>2. Head \in Waiting /\ Head \in Found /\ Head \notin expanded
  BY <1>1, HeadLeads DEF Waiting
<1>3. Found' = Found /\ Room' = Room /\ Eligible' = Eligible
  BY <1>1 DEF Found, Room, Eligible, EligiblePapers, AgainstTime
<1>4. Waiting' = Waiting \ {Head}
  BY <1>1, <1>3 DEF Waiting
<1>5. WalkTypes'
  BY <1>1, <1>2, <1>3 DEF WalkInv, WalkTypes
<1>6. Numbered'
  BY <1>1, <1>3 DEF WalkInv, Numbered
<1>7. Queued'
  <2>1. \A q \in Waiting' : place[Head] < place[q]
    BY <1>2, <1>4, <1>1, HeadLeads, WalkIsFinite DEF WalkInv, Numbered, Waiting
  <2>2. \A p \in expanded', q \in Waiting' : place'[p] < place'[q]
    BY <1>1, <1>4, <2>1 DEF WalkInv, Queued
  <2>3. \A p \in Waiting', q \in Found' : depth'[q] <= depth'[p] + 1
    BY <1>1, <1>3, <1>4 DEF WalkInv, Queued
  <2>4. QED
    BY <1>1, <1>3, <2>2, <2>3 DEF WalkInv, Queued
<1>8. Spanned'
  BY <1>1, <1>3 DEF WalkInv, Spanned
<1>9. Accounted'
  <2>1. \A e \in edges : CutOff(e)' <=> CutOff(e) \/ (e.src = Head /\ e.dst \notin Found)
    BY <1>1, <1>3 DEF CutOff
  <2>2. \A e \in edges : e.src \in expanded' /\ e.dst \in Found => depth[e.dst] <= depth[e.src] + 1
    BY <1>1, HeadLeads DEF WalkInv, Accounted
  <2>3. Room > 0 => \A e \in edges : CutOff(e)' => depth[e.src] >= limits.depth
    BY <1>1, <2>1 DEF WalkInv, Accounted
  <2>4. (\E e \in edges : e.src = Head /\ e.dst \notin Found) <=> Fresh(Head) # {}
    BY DEF Fresh, Outgoing
  <2>5. truncated' <=> \E e \in edges : CutOff(e)'
    BY <1>1, <2>1, <2>4 DEF WalkInv, WalkTypes, Accounted
  <2>6. QED
    BY <1>1, <1>3, <2>2, <2>3, <2>5 DEF Accounted
<1>10. Ordered'
  <2>1. \A p, q \in Papers : Before(p, q)' <=> Before(p, q)
    BY <1>1 DEF Before, DateKey
  <2>2. SUFFICES ASSUME NEW q \in Found \ {Root}, NEW r \in Found \ {Root}, NEW e \in edges,
                        place[q] < place[r], e.dst = r, e.src \in expanded'
                 PROVE  \E f \in tree : f.dst = q /\ \/ place[f.src] < place[e.src]
                                                     \/ f.src = e.src /\ Before(q, r)
    <3>1. Found \subseteq Papers
      BY DEF WalkInv, WalkTypes
    <3>2. QED
      BY <1>1, <1>3, <2>1, <2>2, <3>1 DEF Ordered, OrderedBy
  <2>3. CASE e.src \in expanded
    BY <2>2, <2>3 DEF WalkInv, Ordered, OrderedBy
  <2>4. CASE e.src = Head
    <3>1. PICK f \in tree : f.dst = q
      BY DEF WalkInv, Spanned
    <3>2. place[f.src] < place[Head]
      BY <1>1, <3>1, HeadLeads DEF WalkInv, Spanned
    <3>3. QED
      BY <2>4, <3>1, <3>2
  <2>5. QED
    BY <1>1, <2>2, <2>3, <2>4
<1>11. QED
  BY <1>1, <1>5, <1>6, <1>7, <1>8, <1>9, <1>10 DEF WalkInv

\* What one expansion changes.
LEMMA ExpandFacts ==
    ASSUME Published, WalkInv, Expand
    PROVE  /\ Waiting # {} /\ depth[Head] < limits.depth
           /\ expanded' = expanded \cup {Head}
           /\ Found' = Found \cup Taken(Head)
           /\ Taken(Head) \cap Found = {}
           /\ \A q \in Found : depth'[q] = depth[q] /\ place'[q] = place[q]
           /\ \A q \in Taken(Head) : /\ depth'[q] = depth[Head] + 1
                                     /\ place'[q] = Cardinality(Found) + Rank(Head, q)
           /\ depth' = [q \in Found' |-> depth'[q]] /\ place' = [q \in Found' |-> place'[q]]
           /\ tree' = tree \cup {Link(Head, t) : t \in Taken(Head)}
           /\ truncated' = (truncated \/ Taken(Head) # Fresh(Head))
           /\ UNCHANGED <<date, corpus, limits, edges>>
           /\ Eligible' = Eligible
           /\ \A p, q \in Papers : Before(p, q)' <=> Before(p, q)
<1>1. Taken(Head) \cap Found = {}
  BY DEF Taken, Fresh
<1>2. QED
  BY <1>1 DEF Expand, Found, Eligible, EligiblePapers, AgainstTime, Before, DateKey

\* How much it finds.
LEMMA ExpandCounts ==
    ASSUME Published, WalkInv, Expand
    PROVE  /\ Cardinality(Found') = Cardinality(Found) + Cardinality(Taken(Head))
           /\ Cardinality(tree') = Cardinality(tree) + Cardinality(Taken(Head))
           /\ Cardinality(Found') <= limits.nodes /\ Cardinality(tree') <= limits.edges
           /\ Room' = Room - Cardinality(Taken(Head))
<1> DEFINE p == Head
           new == Taken(p)
           links == {Link(p, t) : t \in new}
           link == [t \in new |-> Link(p, t)]
<1>1. IsFiniteSet(Found) /\ Cardinality(Found) \in Nat /\ IsFiniteSet(tree) /\ Cardinality(tree) \in Nat
      /\ limits.nodes \in Nat /\ limits.edges \in Nat
  BY WalkIsFinite DEF WalkInv
<1>2. new \subseteq Fresh(p) /\ IsFiniteSet(new) /\ Cardinality(new) \in Nat /\ Cardinality(new) <= Room
  BY TakenFacts DEF WalkInv
<1>3. \A t \in new : Link(p, t) \in edges /\ Link(p, t).src = p /\ Link(p, t).dst = t
  BY <1>2, LinkLeads DEF WalkInv
<1>4. Cardinality(Found') = Cardinality(Found) + Cardinality(new)
  <2>1. Found' = Found \cup new /\ Found \cap new = {}
    BY ExpandFacts
  <2> HIDE DEF new
  <2>2. Cardinality(Found \cup new) = Cardinality(Found) + Cardinality(new) - Cardinality(Found \cap new)
    BY <1>1, <1>2, FS_Union
  <2>3. Cardinality(Found \cap new) = 0
    BY <2>1, FS_EmptySet
  <2>4. QED
    BY <1>1, <1>2, <2>1, <2>2, <2>3
<1>5. IsFiniteSet(links) /\ Cardinality(links) = Cardinality(new)
  <2>1. link \in Surjection(new, links)
    BY DEF Surjection
  <2>2. link \in Injection(new, links)
    BY <1>3 DEF Injection, IsInjective
  <2> HIDE DEF new, links, link
  <2>3. QED
    BY <1>2, <2>1, <2>2, FS_Surjection
<1>6. tree \cap links = {}
  <2>1. \A e \in tree : e.dst \in Found
    BY DEF WalkInv, Spanned
  <2>2. QED
    BY <1>3, <2>1, ExpandFacts
<1>7. Cardinality(tree') = Cardinality(tree) + Cardinality(new)
  <2>1. tree' = tree \cup links
    BY ExpandFacts
  <2> HIDE DEF new, links
  <2>2. Cardinality(tree \cup links) = Cardinality(tree) + Cardinality(links) - Cardinality(tree \cap links)
    BY <1>1, <1>5, FS_Union
  <2>3. Cardinality(tree \cap links) = 0
    BY <1>6, FS_EmptySet DEF links, new, p
  <2>4. QED
    BY <1>1, <1>2, <1>5, <2>1, <2>2, <2>3
<1>8. limits' = limits
  BY ExpandFacts
<1> HIDE DEF new, p
<1>9. Room' = Room - Cardinality(new)
  BY <1>1, <1>2, <1>4, <1>7, <1>8 DEF Room
<1>10. Cardinality(Found') <= limits.nodes /\ Cardinality(tree') <= limits.edges
  BY <1>1, <1>2, <1>4, <1>7 DEF Room, WalkInv, Spanned
<1>11. QED
  BY <1>4, <1>7, <1>9, <1>10 DEF new, p

LEMMA ExpandWalk ==
    ASSUME Published, WalkInv, Expand
    PROVE  WalkInv'
<1> DEFINE p == Head
           new == Taken(p)
<1>1. /\ p \in Found /\ p \notin expanded /\ p \in Papers
      /\ \A q \in Found : depth[q] <= depth[p] + 1
      /\ \A q \in Waiting : depth[p] <= depth[q]
      /\ \A q \in expanded : depth[q] <= depth[p] /\ place[q] < place[p]
      /\ \A q \in Found : place[q] < place[p] => q \in expanded
  BY ExpandFacts, HeadLeads
<1>2. /\ new \subseteq Fresh(p) /\ IsFiniteSet(new) /\ Cardinality(new) \in Nat
      /\ Cardinality(new) <= Room
      /\ new # Fresh(p) => Cardinality(new) = Room
      /\ \A t \in new : Rank(p, t) \in 0 .. Cardinality(new) - 1
  BY TakenFacts DEF WalkInv
<1>3. /\ IsFiniteSet(Found) /\ Cardinality(Found) \in Nat
      /\ Cardinality(tree) \in Nat
      /\ limits.depth \in Nat /\ limits.nodes \in Nat /\ limits.edges \in Nat
  BY WalkIsFinite DEF WalkInv
<1>4. new \subseteq Papers /\ Found \subseteq Papers
  BY <1>2, FreshFacts DEF WalkInv, WalkTypes
<1>5. \A q \in Found : depth[q] \in Nat /\ place[q] \in 0 .. Cardinality(Found) - 1
  BY DEF WalkInv, WalkTypes, Numbered
<1>6. Room' = Room - Cardinality(new) /\ Room \in Nat
  BY ExpandCounts, RoomIsNat DEF WalkInv
\* Nothing has been cut off if anything is found.
<1>7. new # {} => \A e \in edges : ~CutOff(e)
  <2>1. new # {} => Cardinality(new) # 0
    BY <1>2, FS_EmptySet
  <2>2. new # {} => Room > 0
    BY <1>2, <1>6, <2>1
  <2>3. QED
    BY <2>2, NothingCutBefore, ExpandFacts
<1>8. \A e \in edges : e.src \in expanded /\ e.dst \in Found \cup new => e.dst \in Found
  BY <1>7, ExpandFacts DEF CutOff
<1>9. Waiting' = (Waiting \ {p}) \cup new
  BY <1>1, ExpandFacts DEF Waiting, WalkInv, WalkTypes
<1>10. WalkTypes'
  <2>1. depth' \in [Found' -> Nat]
    BY <1>1, <1>5, ExpandFacts
  <2>2. tree' \subseteq edges
    BY <1>2, ExpandFacts, LinkLeads DEF WalkInv, WalkTypes
  <2>3. truncated' \in BOOLEAN
    BY ExpandFacts
  <2>4. QED
    BY <1>1, <1>4, <2>1, <2>2, <2>3, ExpandFacts DEF WalkInv, WalkTypes
<1>11. \A q \in new : place'[q] \in Cardinality(Found) .. Cardinality(Found') - 1
  BY <1>2, <1>3, ExpandFacts, ExpandCounts
<1>12. Numbered'
  <2>1. Cardinality(Found') = Cardinality(Found) + Cardinality(new)
    BY ExpandCounts
  <2>2. \A q \in Found' : place'[q] \in 0 .. Cardinality(Found') - 1
    BY <1>2, <1>3, <1>5, <1>11, <2>1, ExpandFacts
  <2>3. \A q, r \in Found : place[q] = place[r] => q = r
    BY DEF WalkInv, Numbered
  <2>4. \A q, r \in new : Rank(p, q) = Rank(p, r) => q = r
    BY <1>2, FreshFacts DEF WalkInv
  <2>5. ASSUME NEW q \in Found', NEW r \in Found', place'[q] = place'[r] PROVE q = r
    <3>1. CASE q \in Found /\ r \in Found
      BY <2>3, <2>5, <3>1, ExpandFacts
    <3>2. CASE q \in new /\ r \in new
      BY <1>2, <1>3, <2>4, <2>5, <3>2, ExpandFacts
    <3>3. CASE q \in Found /\ r \in new
      BY <1>3, <1>5, <1>11, <2>5, <3>3, ExpandFacts
    <3>4. CASE q \in new /\ r \in Found
      BY <1>3, <1>5, <1>11, <2>5, <3>4, ExpandFacts
    <3>5. QED
      BY <3>1, <3>2, <3>3, <3>4, ExpandFacts
  <2>6. QED
    BY <2>2, <2>5, ExpandFacts DEF Numbered
<1>13. Queued'
  <2>1. depth'[Root] = 0 /\ place'[Root] = 0
    BY ExpandFacts DEF WalkInv, WalkTypes, Queued
  <2>2. \A q \in Found' : depth'[q] = 0 => q = Root
    BY <1>1, <1>5, ExpandFacts DEF WalkInv, Queued
  <2>3. ASSUME NEW q \in Found' PROVE depth'[q] <= place'[q] /\ depth'[q] <= limits'.depth
    <3>1. CASE q \in Found
      BY <3>1, ExpandFacts DEF WalkInv, Queued
    <3>2. CASE q \in new
      <4>1. depth'[q] = depth[p] + 1 /\ depth[p] < limits.depth /\ limits' = limits
        BY <3>2, ExpandFacts
      <4>2. depth[p] <= place[p] /\ place[p] <= Cardinality(Found) - 1
        BY <1>1, <1>5 DEF WalkInv, Queued
      <4>3. QED
        BY <1>1, <1>3, <1>5, <1>11, <3>2, <4>1, <4>2
    <3>3. QED
      BY <3>1, <3>2, ExpandFacts
  <2>4. ASSUME NEW q \in expanded', NEW r \in Waiting' PROVE place'[q] < place'[r]
    <3>1. q \in Found /\ place'[q] = place[q]
      BY <1>1, ExpandFacts DEF WalkInv, WalkTypes
    <3>2. CASE r \in new
      BY <1>3, <1>5, <1>11, <3>1, <3>2
    <3>3. CASE r \in Waiting \ {p}
      <4>1. r \in Found /\ place'[r] = place[r] /\ r \notin expanded /\ r # p
        BY <3>3, ExpandFacts DEF Waiting
      <4>2. q \in expanded \/ q = p
        BY ExpandFacts
      <4>3. q \in expanded => place[q] < place[r]
        BY <3>3, <4>1 DEF WalkInv, Queued
      <4>4. place[p] < place[r]
        BY <1>1, <1>5, <4>1 DEF WalkInv, Numbered
      <4>5. QED
        BY <3>1, <4>1, <4>2, <4>3, <4>4
    <3>4. QED
      BY <1>9, <3>2, <3>3
  <2>5. ASSUME NEW q \in Found', NEW r \in Found', place'[q] < place'[r]
        PROVE  depth'[q] <= depth'[r]
    <3>1. CASE q \in Found /\ r \in Found
      BY <2>5, <3>1, ExpandFacts DEF WalkInv, Queued
    <3>2. CASE q \in Found /\ r \in new
      BY <1>1, <3>2, ExpandFacts
    <3>3. CASE q \in new /\ r \in new
      BY <1>1, <1>5, <3>3, ExpandFacts
    <3>4. CASE q \in new /\ r \in Found
      BY <1>3, <1>5, <1>11, <2>5, <3>4, ExpandFacts
    <3>5. QED
      BY <3>1, <3>2, <3>3, <3>4, ExpandFacts
  <2>6. ASSUME NEW q \in Waiting', NEW r \in Found' PROVE depth'[r] <= depth'[q] + 1
    <3>1. depth'[q] >= depth[p] /\ depth'[q] \in Nat
      <4>1. CASE q \in new
        BY <1>1, <1>5, <4>1, ExpandFacts
      <4>2. CASE q \in Waiting
        BY <1>1, <1>5, <4>2, ExpandFacts DEF Waiting
      <4>3. QED
        BY <1>9, <4>1, <4>2
    <3>2. depth'[r] <= depth[p] + 1 /\ depth'[r] \in Nat
      BY <1>1, <1>5, ExpandFacts
    <3>3. QED
      BY <1>1, <1>5, <3>1, <3>2
  <2>7. QED
    BY <2>1, <2>2, <2>3, <2>4, <2>5, <2>6 DEF Queued
<1>14. Spanned'
  <2>1. \A e \in tree' : e.src \in expanded' /\ e.dst \in Found' /\ depth'[e.dst] = depth'[e.src] + 1
    <3>1. SUFFICES ASSUME NEW e \in tree'
                   PROVE  e.src \in expanded' /\ e.dst \in Found' /\ depth'[e.dst] = depth'[e.src] + 1
      OBVIOUS
    <3>2. CASE e \in tree
      BY <3>2, ExpandFacts DEF WalkInv, Spanned, WalkTypes
    <3>3. CASE e \notin tree
      <4>1. PICK t \in new : e = Link(p, t)
        BY <3>3, ExpandFacts
      <4>2. e.src = p /\ e.dst = t
        BY <1>2, <4>1, LinkLeads DEF WalkInv
      <4>3. QED
        BY <1>1, <4>2, ExpandFacts
    <3>4. QED
      BY <3>2, <3>3
  <2>2. ASSUME NEW q \in Found' \ {Root} PROVE \E e \in tree' : e.dst = q
    <3>1. CASE q \in Found
      BY <3>1, ExpandFacts DEF WalkInv, Spanned
    <3>2. CASE q \in new
      <4>1. Link(p, q) \in tree' /\ Link(p, q).dst = q
        BY <1>2, <3>2, ExpandFacts, LinkLeads DEF WalkInv
      <4>2. QED
        BY <4>1
    <3>3. QED
      BY <3>1, <3>2, ExpandFacts
  <2>3. Cardinality(tree) = Cardinality(Found) - 1
    BY DEF WalkInv, Spanned
  <2>4. Cardinality(tree') = Cardinality(Found') - 1
    BY <1>2, <1>3, <2>3, ExpandCounts
  <2>5. QED
    BY <2>1, <2>2, <2>4, ExpandCounts, ExpandFacts DEF Spanned
<1>15. Accounted'
  <2>1. \A e \in edges : CutOff(e)' <=> CutOff(e) \/ (e.src = p /\ e.dst \notin Found \cup new)
    BY <1>8, ExpandFacts DEF CutOff
  <2>2. ASSUME NEW e \in edges, e.src \in expanded', e.dst \in Found'
        PROVE  depth'[e.dst] <= depth'[e.src] + 1
    <3>1. CASE e.src \in expanded
      <4>1. e.dst \in Found /\ e.src \in Found
        BY <1>8, <2>2, <3>1, ExpandFacts DEF WalkInv, WalkTypes
      <4>2. QED
        BY <3>1, <4>1, ExpandFacts DEF WalkInv, Accounted
    <3>2. CASE e.src = p
      <4>1. CASE e.dst \in Found
        BY <1>1, <3>2, <4>1, ExpandFacts
      <4>2. CASE e.dst \in new
        BY <1>1, <1>5, <3>2, <4>2, ExpandFacts
      <4>3. QED
        BY <2>2, <4>1, <4>2, ExpandFacts
    <3>3. QED
      BY <2>2, <3>1, <3>2, ExpandFacts
  <2>3. ASSUME Room' > 0, NEW e \in edges, CutOff(e)' PROVE depth'[e.src] >= limits'.depth
    <3>1. new = Fresh(p)
      BY <1>2, <1>6, <2>3
    <3>2. ~(e.src = p /\ e.dst \notin Found \cup new)
      BY <3>1 DEF Fresh, Outgoing
    <3>3. CutOff(e) /\ Room > 0
      BY <1>2, <1>6, <2>1, <2>3, <3>2
    <3>4. e.src \in Found
      BY <3>3 DEF CutOff, WalkInv, WalkTypes
    <3>5. QED
      BY <3>3, <3>4, ExpandFacts DEF WalkInv, Accounted
  <2>4. (\E e \in edges : e.src = p /\ e.dst \notin Found \cup new) <=> new # Fresh(p)
    BY <1>2 DEF Fresh, Outgoing
  <2>5. truncated' <=> \E e \in edges : CutOff(e)'
    BY <2>1, <2>4, ExpandFacts DEF WalkInv, Accounted
  <2>6. QED
    BY <2>2, <2>3, <2>5, ExpandFacts DEF Accounted
<1>16. Ordered'
  <2>1. SUFFICES ASSUME NEW q \in Found' \ {Root}, NEW r \in Found' \ {Root}, NEW e \in edges,
                        place'[q] < place'[r], e.dst = r, e.src \in expanded'
                 PROVE  \E f \in tree' : f.dst = q /\ \/ place'[f.src] < place'[e.src]
                                                      \/ f.src = e.src /\ Before(q, r)
    <3>1. Found' \subseteq Papers
      BY <1>4, ExpandFacts
    <3>2. QED
      BY <2>1, <3>1, ExpandFacts DEF Ordered, OrderedBy
  <2>2. \A f \in tree : f.src \in expanded /\ f.src \in Found
    BY DEF WalkInv, Spanned, WalkTypes
  <2>3. e.src \in Found
    BY <1>1, <2>1, ExpandFacts DEF WalkInv, WalkTypes
  <2>4. CASE e.src \in expanded
    <3>1. r \in Found
      BY <1>8, <2>1, <2>4, ExpandFacts
    <3>2. q \in Found
      BY <1>3, <1>5, <1>11, <2>1, <3>1, ExpandFacts
    <3>3. PICK f \in tree : f.dst = q /\ \/ place[f.src] < place[e.src]
                                         \/ f.src = e.src /\ Before(q, r)
      BY <2>1, <2>4, <3>1, <3>2, ExpandFacts DEF WalkInv, Ordered, OrderedBy
    <3>4. QED
      BY <2>2, <2>3, <3>3, ExpandFacts
  <2>5. CASE e.src = p /\ q \in Found
    <3>1. PICK f \in tree : f.dst = q
      BY <2>5 DEF WalkInv, Spanned
    <3>2. place[f.src] < place[p]
      BY <1>1, <2>2, <3>1
    <3>3. QED
      BY <2>2, <2>3, <2>5, <3>1, <3>2, ExpandFacts
  <2>6. CASE e.src = p /\ q \in new
    <3>1. r \in new
      BY <1>3, <1>5, <1>11, <2>1, <2>6, ExpandFacts
    <3>2. Rank(p, q) < Rank(p, r)
      BY <1>2, <1>3, <2>1, <2>6, <3>1, ExpandFacts
    <3>3. Before(q, r)
      BY <1>2, <2>6, <3>1, <3>2, FreshFacts DEF WalkInv
    <3>4. Link(p, q) \in tree' /\ Link(p, q).dst = q /\ Link(p, q).src = p
      BY <1>2, <2>6, ExpandFacts, LinkLeads DEF WalkInv
    <3>5. QED
      BY <2>6, <3>3, <3>4
  <2>7. QED
    BY <2>1, <2>4, <2>5, <2>6, ExpandFacts
<1>17. QED
  BY <1>10, <1>12, <1>13, <1>14, <1>15, <1>16 DEF WalkInv

----------------------------------------------------------------------------
(* Depths are distances *)

Distance(depths) ==
    \A p \in DOMAIN depths :
        /\ depths[p] \in Layers
        /\ p \in Within[depths[p]]
        /\ \A n \in Layers : p \in Within[n] => depths[p] <= n

LEMMA DepthIsLayer ==
    ASSUME Published, WalkInv, NEW p \in Found
    PROVE  depth[p] \in Layers /\ depth[p] + 1 \in Layers
<1>1. depth[p] \in Nat /\ place[p] \in 0 .. Cardinality(Found) - 1 /\ depth[p] <= place[p]
  BY DEF WalkInv, WalkTypes, Numbered, Queued
<1>2. Cardinality(Found) \in Nat /\ Cardinality(Found) <= Cardinality(Papers) /\ Cardinality(Papers) \in Nat
  BY WalkIsFinite, WithinSteps DEF WalkInv
<1>3. QED
  BY <1>1, <1>2 DEF Layers

\* While the walk finds more, it has found all that is as close as the head of its queue.
LEMMA CloserIsFound ==
    ASSUME Published, WalkInv, edges = Eligible, Waiting # {}, Room > 0, depth[Head] < limits.depth,
           NEW n \in Layers, n <= depth[Head]
    PROVE  \A q \in Within[n] : q \in Found /\ depth[q] <= n
<1> DEFINE S == {k \in Nat : k \in Layers /\ k <= depth[Head] =>
                                \A q \in Within[k] : q \in Found /\ depth[q] <= k}
<1>1. 0 \in S
  BY WithinSteps DEF WalkInv, WalkTypes, Queued
<1>2. ASSUME NEW k \in S PROVE k + 1 \in S
  <2>1. SUFFICES ASSUME k + 1 \in Layers, k + 1 <= depth[Head], NEW q \in Within[k + 1]
                 PROVE  q \in Found /\ depth[q] <= k + 1
    OBVIOUS
  <2>2. Head \in Found /\ depth[Head] \in Nat
    BY HeadLeads DEF WalkInv, WalkTypes
  <2>3. k \in Nat /\ k \in Layers /\ k <= depth[Head] /\ k < depth[Head] /\ k + 1 # 0 /\ (k + 1) - 1 = k
    BY <2>1, <2>2, WithinSteps DEF Layers
  <2>4. \A r \in Within[k] : r \in Found /\ depth[r] <= k
    BY <2>3
  <2>5. q \in Beyond(Within[k])
    BY <2>1, <2>3, WithinSteps
  <2>6. CASE q \in Within[k]
    <3>1. q \in Found /\ depth[q] <= k /\ depth[q] \in Nat
      BY <2>4, <2>6 DEF WalkInv, WalkTypes
    <3>2. QED
      BY <2>3, <3>1
  <2>7. CASE q \notin Within[k]
    <3>1. PICK e \in Eligible : e.src \in Within[k] /\ e.dst = q
      BY <2>5, <2>7 DEF Beyond
    <3>2. e.src \in Found /\ depth[e.src] <= k /\ depth[e.src] \in Nat
      BY <2>4, <3>1 DEF WalkInv, WalkTypes
    <3>3. e.src \in expanded
      BY <2>2, <2>3, <3>2, HeadLeads DEF Waiting
    <3>4. q \in Found
      BY <3>1, <3>3, NothingCutBefore DEF CutOff
    <3>5. depth[q] <= depth[e.src] + 1 /\ depth[q] \in Nat
      BY <3>1, <3>3, <3>4 DEF WalkInv, WalkTypes, Accounted
    <3>6. QED
      BY <2>3, <3>2, <3>4, <3>5
  <2>8. QED
    BY <2>6, <2>7
<1>3. S = Nat
  <2> HIDE DEF S
  <2>1. S \in SUBSET Nat
    BY DEF S
  <2>2. QED
    BY <1>1, <1>2, <2>1, SetInduction
<1>4. n \in S
  <2>1. n \in Nat
    BY WithinSteps DEF Layers
  <2> HIDE DEF S
  <2>2. QED
    BY <1>3, <2>1
<1>5. QED
  BY <1>4

LEMMA WithinStays ==
    ASSUME UNCHANGED <<date, corpus>>
    PROVE  Within' = Within /\ Eligible' = Eligible
<1>1. Eligible' = Eligible
  BY DEF Eligible, EligiblePapers, AgainstTime
<1>2. Within' = Within
  BY <1>1 DEF Within
<1>3. QED
  BY <1>1, <1>2

LEMMA ExpandDistance ==
    ASSUME Published, WalkInv, edges = Eligible, Distance(depth), Expand
    PROVE  Distance(depth)'
<1>1. Within' = Within
  BY WithinStays, ExpandFacts
<1>2. SUFFICES ASSUME NEW t \in Found'
               PROVE  /\ depth'[t] \in Layers
                      /\ t \in Within[depth'[t]]
                      /\ \A n \in Layers : t \in Within[n] => depth'[t] <= n
  BY <1>1, <1>2 DEF Distance, Found, Layers
<1>3. CASE t \in Found
  BY <1>3, ExpandFacts DEF Distance, Found
<1>4. CASE t \in Taken(Head)
  <2>1. Head \in Found /\ depth[Head] \in Nat
    BY HeadLeads, ExpandFacts DEF WalkInv, WalkTypes
  <2>2. depth'[t] = depth[Head] + 1 /\ t \notin Found
    BY <1>4, ExpandFacts
  <2>3. depth[Head] + 1 \in Layers
    BY <2>1, DepthIsLayer
  <2>4. t \in Within[depth[Head] + 1]
    <3>1. Link(Head, t) \in Eligible /\ Link(Head, t).src = Head /\ Link(Head, t).dst = t
      BY <1>4, LinkLeads DEF WalkInv, Taken
    <3>2. Head \in Within[depth[Head]]
      BY <2>1 DEF Distance, Found
    <3>3. depth[Head] + 1 # 0 /\ (depth[Head] + 1) - 1 = depth[Head]
      BY <2>1
    <3>4. QED
      BY <2>3, <3>1, <3>2, <3>3, EdgeLeadsOn
  <2>5. Room > 0
    <3>1. Cardinality(Taken(Head)) # 0
      BY <1>4, TakenFacts, FS_EmptySet DEF WalkInv
    <3>2. QED
      BY <3>1, TakenFacts, RoomIsNat DEF WalkInv
  <2>6. ASSUME NEW n \in Layers, t \in Within[n] PROVE depth[Head] + 1 <= n
    <3>1. ~(n <= depth[Head])
      BY <2>2, <2>5, <2>6, CloserIsFound, ExpandFacts
    <3>2. QED
      BY <2>1, <3>1, WithinSteps DEF Layers
  <2>7. QED
    BY <2>2, <2>3, <2>4, <2>6
<1>5. QED
  BY <1>3, <1>4, ExpandFacts

----------------------------------------------------------------------------
(* The snapshot at the end of a walk *)

LEMMA KeptFacts ==
    ASSUME Published, WalkInv
    PROVE  /\ tree \subseteq Forward /\ Forward \subseteq edges
           /\ tree \subseteq Kept /\ Kept \subseteq Forward
           /\ tree \cup Additional = Forward
           /\ Cardinality(Kept) <= limits.edges
<1> DEFINE S == Additional
           below == [e \in S |-> {f \in S : First(f, e)}]
           limit == limits.edges - Cardinality(tree)
           C == {e \in S : Cardinality(below[e]) < limit}
<1>1. tree \subseteq Forward /\ Forward \subseteq edges
  BY DEF Forward, WalkInv, WalkTypes, Spanned
<1>2. S \in SUBSET corpus
  BY <1>1, WalkIsFinite DEF Additional, WalkInv
<1>3. IsFiniteSet(S)
  BY <1>2, PublishedFacts, FS_Subset
<1>4. TotallyOrders(below, S)
  <2> HIDE DEF S
  <2>1. below \in [S -> SUBSET S]
    OBVIOUS
  <2>2. \A e \in S : e \notin below[e]
    BY <1>2, FirstIsAnOrder
  <2>3. \A e, f \in S : e = f \/ e \in below[f] \/ f \in below[e]
    BY <1>2, FirstIsAnOrder
  <2>4. \A e, f \in S : f \in below[e] => below[f] \subseteq below[e]
    BY <1>2, FirstIsAnOrder
  <2> HIDE DEF below
  <2>5. QED
    BY <2>1, <2>2, <2>3, <2>4 DEF TotallyOrders
<1>5. IsFiniteSet(tree) /\ Cardinality(tree) \in Nat /\ limits.edges \in Nat /\ Cardinality(tree) <= limits.edges
  BY WalkIsFinite DEF WalkInv, Spanned
<1>6. limit \in Nat
  BY <1>5
<1>7. Kept = tree \cup C
  BY DEF Kept
<1>8. IsFiniteSet(C) /\ Cardinality(C) \in Nat /\ Cardinality(C) <= limit
  <2>1. C \in SUBSET S /\ \A e \in S : e \in C <=> Cardinality(below[e]) < limit
    OBVIOUS
  <2> HIDE DEF S, C, below, limit
  <2>2. QED
    BY <1>3, <1>4, <1>6, <2>1, FirstOfRank
<1>9. tree \cap C = {}
  BY DEF Additional
<1>10. Cardinality(Kept) <= limits.edges
  <2> HIDE DEF C
  <2>1. Cardinality(tree \cup C) = Cardinality(tree) + Cardinality(C) - Cardinality(tree \cap C)
    BY <1>5, <1>8, FS_Union
  <2>2. Cardinality(tree \cap C) = 0
    BY <1>9, FS_EmptySet
  <2>3. QED
    BY <1>5, <1>7, <1>8, <2>1, <2>2
<1>11. QED
  BY <1>1, <1>7, <1>10 DEF Additional

LEMMA SnapshotFields ==
    ASSUME NEW cut
    PROVE  /\ Nodes(Snapshot(cut)) = Found
           /\ Snapshot(cut).depth = depth /\ Snapshot(cut).place = place
           /\ Snapshot(cut).edges = Kept /\ Snapshot(cut).limits = limits
           /\ Snapshot(cut).truncated = (truncated \/ cut \/ Kept # tree \cup Additional)
           /\ Snapshot(cut).verified = \E e \in Kept : e.src = Root /\ e.status = "HUMAN_VERIFIED"
  BY DEF Snapshot, Nodes, Found

LEMMA SnapshotIsValid ==
    ASSUME Published, WalkInv, NEW cut
    PROVE  Valid(Snapshot(cut))
<1>1. \A e \in Kept : /\ e.type \in Permitted
                      /\ {e.src, e.dst} \subseteq Found
                      /\ depth[e.dst] = depth[e.src] + 1
  <2>1. \A e \in edges : e.type \in Permitted
    BY PublishedFacts DEF WalkInv, WalkTypes
  <2>2. QED
    BY <2>1, KeptFacts DEF Forward
<1>2. \A p \in Found \ {Root} : \E e \in Kept : e.dst = p
  BY KeptFacts DEF WalkInv, Spanned
<1>3. Cardinality(Found) <= limits.nodes /\ Cardinality(Kept) <= limits.edges
  BY KeptFacts DEF WalkInv, Spanned
<1>4. Root \in Found /\ depth[Root] = 0 /\ \A p \in Found : depth[p] <= limits.depth
  BY DEF WalkInv, WalkTypes, Queued
<1> DEFINE s == Snapshot(cut)
<1>5. Nodes(s) = Found /\ s.depth = depth /\ s.edges = Kept /\ s.limits = limits
  BY SnapshotFields
<1> HIDE DEF s
<1>6. Valid(s)
  BY <1>1, <1>2, <1>3, <1>4, <1>5 DEF Valid
<1>7. QED
  BY <1>6 DEF s

\* A walk that is through has left out exactly what its edges lead to besides.
LEMMA WalkIsThrough ==
    ASSUME Published, WalkInv, Waiting = {}
    PROVE  /\ expanded = Found
           /\ truncated <=> \E e \in edges : e.src \in Found /\ e.dst \notin Found
  BY DEF WalkInv, WalkTypes, Accounted, CutOff, Waiting

\* What is reachable is what n steps lead to, for some n; the walk's papers are.
LEMMA FoundIsReachable ==
    ASSUME NEW depths, Distance(depths)
    PROVE  DOMAIN depths \subseteq Reachable
<1>1. SUFFICES ASSUME NEW p \in DOMAIN depths PROVE p \in Reachable
  OBVIOUS
<1>2. depths[p] \in Layers /\ p \in Within[depths[p]]
  BY DEF Distance
<1>3. Cardinality(Papers) \in Layers /\ depths[p] <= Cardinality(Papers)
  BY <1>2, WithinSteps DEF Layers
<1>4. QED
  BY <1>2, <1>3, WithinGrows DEF Reachable

\* A set that holds the root and is left by no edge holds all that is reachable.
LEMMA ReachableIsLeast ==
    ASSUME NEW A, Root \in A, \A e \in Eligible : e.src \in A => e.dst \in A
    PROVE  Reachable \subseteq A
<1> DEFINE S == {k \in Nat : k \in Layers => Within[k] \subseteq A}
<1>1. 0 \in S
  BY WithinSteps
<1>2. ASSUME NEW k \in S PROVE k + 1 \in S
  <2>1. SUFFICES ASSUME k + 1 \in Layers PROVE Within[k + 1] \subseteq A
    OBVIOUS
  <2>2. k \in Layers /\ k + 1 # 0 /\ (k + 1) - 1 = k
    BY <2>1, WithinSteps DEF Layers
  <2>3. Within[k] \subseteq A
    BY <2>2
  <2>4. Within[k + 1] = Beyond(Within[k])
    BY <2>1, <2>2, WithinSteps
  <2>5. QED
    BY <2>3, <2>4 DEF Beyond
<1>3. S = Nat
  <2> HIDE DEF S
  <2>1. S \in SUBSET Nat
    BY DEF S
  <2>2. QED
    BY <1>1, <1>2, <2>1, SetInduction
<1>4. Cardinality(Papers) \in S /\ Cardinality(Papers) \in Layers
  <2>1. Cardinality(Papers) \in Nat /\ Cardinality(Papers) \in Layers
    BY WithinSteps DEF Layers
  <2> HIDE DEF S
  <2>2. QED
    BY <1>3, <2>1
<1>5. QED
  BY <1>4 DEF Reachable

\* The relations between consecutive layers.
Between(s) == {e \in Eligible : {e.src, e.dst} \subseteq Nodes(s) /\ s.depth[e.dst] = s.depth[e.src] + 1}

LEMMA ToldIs ==
    ASSUME NEW s, s.truncated <=> Nodes(s) # Reachable \/ s.edges # Between(s),
           ~s.truncated => (s.verified <=> \E e \in Eligible :
                                 e.src = Root /\ e.dst # Root /\ e.status = "HUMAN_VERIFIED")
    PROVE  Told(s)
  BY DEF Told, Between

LEMMA BuiltIsTold ==
    ASSUME Published, WalkInv, Waiting = {}, edges = Eligible, Distance(depth)
    PROVE  Told(Snapshot(FALSE))
<1> DEFINE s == Snapshot(FALSE)
<1>1. Between(s) = Forward
  BY SnapshotFields DEF Between, Forward
<1>2. s.truncated <=> truncated \/ Kept # Forward
  BY SnapshotFields, KeptFacts
<1>3. Found \subseteq Reachable
  BY FoundIsReachable DEF Found
<1>4. truncated => Found # Reachable
  <2>1. SUFFICES ASSUME truncated PROVE \E p \in Reachable : p \notin Found
    OBVIOUS
  <2>2. PICK e \in edges : e.src \in Found /\ e.dst \notin Found
    BY <2>1, WalkIsThrough
  <2>3. depth[e.src] \in Nat /\ depth[e.src] + 1 \in Layers /\ e.src \in Within[depth[e.src]]
    BY <2>2, DepthIsLayer DEF Distance, Found, WalkInv, WalkTypes
  <2>4. depth[e.src] + 1 # 0 /\ (depth[e.src] + 1) - 1 = depth[e.src]
    BY <2>3
  <2>5. e.dst \in Within[depth[e.src] + 1]
    BY <2>3, <2>4, EdgeLeadsOn
  <2>6. Cardinality(Papers) \in Layers /\ depth[e.src] + 1 <= Cardinality(Papers)
    BY <2>3, WithinSteps DEF Layers
  <2>7. e.dst \in Reachable
    BY <2>3, <2>5, <2>6, WithinGrows DEF Reachable
  <2>8. QED
    BY <2>2, <2>7
<1>5. ~truncated => Reachable \subseteq Found
  <2>1. SUFFICES ASSUME ~truncated PROVE Reachable \subseteq Found
    OBVIOUS
  <2>2. \A e \in Eligible : e.src \in Found => e.dst \in Found
    BY <2>1, WalkIsThrough
  <2>3. QED
    BY <2>2, ReachableIsLeast DEF WalkInv, WalkTypes
<1>6. s.truncated <=> Nodes(s) # Reachable \/ s.edges # Between(s)
  BY <1>1, <1>2, <1>3, <1>4, <1>5, SnapshotFields
<1>7. ASSUME ~s.truncated
      PROVE  s.verified <=> \E e \in Eligible : e.src = Root /\ e.dst # Root /\ e.status = "HUMAN_VERIFIED"
  <2>1. ~truncated /\ Kept = Forward
    BY <1>2, <1>7
  <2>2. depth[Root] = 0
    BY DEF WalkInv, Queued
  <2>3. \A e \in Forward : e.src = Root => e.dst # Root
    BY <2>2 DEF Forward
  <2>4. ASSUME NEW e \in Eligible, e.src = Root, e.dst # Root PROVE e \in Forward
    <3>1. e.dst \in Found /\ Root \in Found /\ Root \in expanded
      BY <2>1, <2>4, WalkIsThrough DEF WalkInv, WalkTypes
    <3>2. depth[e.dst] <= depth[Root] + 1 /\ depth[e.dst] \in Nat /\ depth[e.dst] # 0
      BY <2>4, <3>1 DEF WalkInv, WalkTypes, Accounted, Queued
    <3>3. QED
      BY <2>2, <2>4, <3>1, <3>2 DEF Forward
  <2>5. Forward \subseteq Eligible
    BY KeptFacts
  <2>6. QED
    BY <2>1, <2>3, <2>4, <2>5, SnapshotFields
<1> HIDE DEF s
<1>8. Told(s)
  BY <1>6, <1>7, ToldIs
<1>9. QED
  BY <1>8 DEF s

----------------------------------------------------------------------------
(* The stored snapshot, and walks over its edges *)

\* A stored snapshot, whatever the bounds it was built with.
Sound(s) ==
    /\ s.limits \in Bounds
    /\ Nodes(s) \subseteq Papers
    /\ s.depth \in [Nodes(s) -> Nat]
    /\ s.place \in [Nodes(s) -> 0 .. Cardinality(Nodes(s)) - 1]
    /\ \A p, q \in Nodes(s) : s.place[p] = s.place[q] => p = q
    /\ s.place[Root] = 0
    /\ s.edges \subseteq Eligible
    /\ s.truncated \in BOOLEAN
    /\ Valid(s)
    /\ Distance(s.depth)
    /\ Told(s)
    /\ OrderedBy(Nodes(s), s.place, s.edges, s.edges, Nodes(s))

LEMMA BuiltIsSound ==
    ASSUME Published, WalkInv, Waiting = {}, edges = Eligible, Distance(depth)
    PROVE  Sound(Snapshot(FALSE))
<1> DEFINE s == Snapshot(FALSE)
<1>1. /\ s.limits \in Bounds
      /\ Nodes(s) \subseteq Papers
      /\ s.depth \in [Nodes(s) -> Nat]
      /\ s.place \in [Nodes(s) -> 0 .. Cardinality(Nodes(s)) - 1]
      /\ \A p, q \in Nodes(s) : s.place[p] = s.place[q] => p = q
      /\ s.place[Root] = 0
      /\ Distance(s.depth)
  BY SnapshotFields DEF WalkInv, WalkTypes, Numbered, Queued
<1>2. s.edges \subseteq Eligible
  BY SnapshotFields, KeptFacts
<1>3. s.truncated \in BOOLEAN
  BY SnapshotFields DEF WalkInv, WalkTypes
<1>4. Valid(s) /\ Told(s)
  BY SnapshotIsValid, BuiltIsTold
<1>5. OrderedBy(Found, place, Kept, Kept, Found)
  <2>1. SUFFICES ASSUME NEW q \in Found \ {Root}, NEW r \in Found \ {Root}, NEW e \in Kept,
                        place[q] < place[r], e.dst = r, e.src \in Found
                 PROVE  \E f \in Kept : f.dst = q /\ \/ place[f.src] < place[e.src]
                                                     \/ f.src = e.src /\ Before(q, r)
    BY DEF OrderedBy
  <2>2. e \in edges /\ e.src \in expanded /\ tree \subseteq Kept
    BY <2>1, KeptFacts, WalkIsThrough
  <2>3. QED
    BY <2>1, <2>2 DEF WalkInv, Ordered, OrderedBy
<1>6. OrderedBy(Nodes(s), s.place, s.edges, s.edges, Nodes(s))
  BY <1>5, SnapshotFields
<1> HIDE DEF s
<1>7. Sound(s)
  BY <1>1, <1>2, <1>3, <1>4, <1>6 DEF Sound
<1>8. QED
  BY <1>7 DEF s

\* The place of an element is the number of those before it.
LEMMA PlacesCount ==
    ASSUME NEW S, IsFiniteSet(S), NEW f \in [S -> 0 .. Cardinality(S) - 1],
           \A t, u \in S : f[t] = f[u] => t = u
    PROVE  /\ \A n \in 0 .. Cardinality(S) - 1 : \E t \in S : f[t] = n
           /\ \A t \in S : Cardinality({u \in S : f[u] < f[t]}) = f[t]
<1> DEFINE below == [t \in S |-> {u \in S : f[u] < f[t]}]
           N == Cardinality(S)
<1>1. N \in Nat
  BY FS_CardinalityType
<1>2. \A t \in S : f[t] \in 0 .. N - 1
  OBVIOUS
<1>3. IsFiniteSet(0 .. N - 1) /\ Cardinality(0 .. N - 1) = N
  BY <1>1, FS_Interval
<1>4. f \in Injection(S, 0 .. N - 1)
  BY DEF Injection, IsInjective
<1>5. f \in Surjection(S, 0 .. N - 1)
  BY <1>3, <1>4, FS_Injection
<1>6. \A n \in 0 .. N - 1 : \E t \in S : f[t] = n
  BY <1>5 DEF Surjection
<1>7. ASSUME NEW t \in S PROVE Cardinality({u \in S : f[u] < f[t]}) = f[t]
  <2> DEFINE B == {u \in S : f[u] < f[t]}
             g == [u \in B |-> f[u]]
  <2>1. f[t] \in Nat /\ f[t] \in 0 .. N - 1
    BY <1>1
  <2>2. g \in [B -> 0 .. f[t] - 1]
    BY <1>1, <1>2, <2>1
  <2>3. g \in Injection(B, 0 .. f[t] - 1)
    BY <2>2 DEF Injection, IsInjective
  <2>4. \A n \in 0 .. f[t] - 1 : \E u \in B : g[u] = n
    <3>1. SUFFICES ASSUME NEW n \in 0 .. f[t] - 1 PROVE \E u \in B : g[u] = n
      OBVIOUS
    <3>2. n \in 0 .. N - 1 /\ n < f[t]
      BY <1>1, <2>1
    <3>3. PICK u \in S : f[u] = n
      BY <1>6, <3>2
    <3>4. QED
      BY <3>2, <3>3
  <2>5. g \in Surjection(B, 0 .. f[t] - 1)
    BY <2>2, <2>4 DEF Surjection
  <2>6. IsFiniteSet(0 .. f[t] - 1) /\ Cardinality(0 .. f[t] - 1) = f[t]
    BY <2>1, FS_Interval
  <2> HIDE DEF B, g
  <2>7. Cardinality(B) = f[t]
    BY <2>3, <2>5, <2>6, FS_Injection
  <2>8. QED
    BY <2>7 DEF B
<1>8. QED
  BY <1>6, <1>7

\* The walk over the stored edges finds papers in the order in which they were found.
Follows ==
    \A p \in Found : /\ p \in Nodes(stored)
                     /\ depth[p] = stored.depth[p]
                     /\ place[p] = stored.place[p]

LEMMA FoundIsBeginning ==
    ASSUME Published, WalkInv, Sound(stored), Follows
    PROVE  \A q \in Nodes(stored) : stored.place[q] < Cardinality(Found) => q \in Found
<1>1. SUFFICES ASSUME NEW q \in Nodes(stored), stored.place[q] < Cardinality(Found) PROVE q \in Found
  OBVIOUS
<1>2. IsFiniteSet(Found) /\ Cardinality(Found) \in Nat
  BY WalkIsFinite DEF WalkInv
<1>3. IsFiniteSet(Nodes(stored)) /\ Cardinality(Nodes(stored)) \in Nat
  BY PapersAssumption, FS_Subset, FS_CardinalityType DEF Sound
<1>4. stored.place[q] \in 0 .. Cardinality(Found) - 1
  BY <1>1, <1>2, <1>3 DEF Sound
<1>5. PICK p \in Found : place[p] = stored.place[q]
  <2>1. place \in [Found -> 0 .. Cardinality(Found) - 1] /\ \A t, u \in Found : place[t] = place[u] => t = u
    BY DEF WalkInv, Numbered
  <2>2. QED
    BY <1>2, <1>4, <2>1, PlacesCount
<1>6. QED
  BY <1>5 DEF Follows, Sound

LEMMA ExpandFollows ==
    ASSUME Published, WalkInv, Sound(stored), Follows, edges = stored.edges, Expand, stored' = stored
    PROVE  Follows'
<1> DEFINE p == Head
           new == Taken(p)
<1>1. SUFFICES ASSUME NEW t \in new
               PROVE  /\ t \in Nodes(stored)
                      /\ depth[p] + 1 = stored.depth[t]
                      /\ Cardinality(Found) + Rank(p, t) = stored.place[t]
  BY <1>1, ExpandFacts DEF Follows
<1>2. t \in Fresh(p) /\ t \notin Found /\ t \in Papers
  BY FreshFacts DEF WalkInv, Taken, Fresh
<1>3. p \in Found /\ p \in Nodes(stored) /\ place[p] = stored.place[p] /\ depth[p] = stored.depth[p]
  BY HeadLeads, ExpandFacts DEF Follows
<1>4. \A u \in Fresh(p) : \E e \in stored.edges : e.src = p /\ e.dst = u
  BY DEF Fresh, Outgoing
<1>5. \A u \in Fresh(p) : u \in Nodes(stored) /\ stored.depth[u] = stored.depth[p] + 1 /\ u \notin Found
  BY <1>4 DEF Sound, Valid, Fresh
<1>6. \A e \in edges : ~CutOff(e)
  <2>1. Room > 0
    <3>1. Cardinality(new) # 0
      BY <1>1, TakenFacts, FS_EmptySet DEF WalkInv
    <3>2. QED
      BY <3>1, TakenFacts, RoomIsNat DEF WalkInv
  <2>2. QED
    BY <2>1, NothingCutBefore, ExpandFacts
<1>7. IsFiniteSet(Found) /\ Cardinality(Found) \in Nat
  BY WalkIsFinite DEF WalkInv
<1>8. IsFiniteSet(Nodes(stored)) /\ Cardinality(Nodes(stored)) \in Nat
  BY PapersAssumption, FS_Subset, FS_CardinalityType DEF Sound
<1>9. \A q \in Nodes(stored) : stored.place[q] \in Nat
  BY <1>8 DEF Sound
\* What was found stands before what was not.
<1>10. \A q \in Nodes(stored) \ Found : stored.place[q] >= Cardinality(Found)
  BY <1>7, <1>9, FoundIsBeginning
<1>11. \A q \in Found : stored.place[q] < Cardinality(Found) /\ q \in Nodes(stored)
  BY <1>7 DEF Follows, WalkInv, Numbered
<1>12. Root \in Found
  BY DEF WalkInv, WalkTypes
\* A predecessor of something that was not found does not stand before the head.
<1>13. \A f \in stored.edges : f.dst \notin Found => ~(stored.place[f.src] < stored.place[p])
  <2>1. SUFFICES ASSUME NEW f \in stored.edges, f.dst \notin Found, stored.place[f.src] < stored.place[p]
                 PROVE  FALSE
    OBVIOUS
  <2>2. f.src \in Nodes(stored)
    BY DEF Sound, Valid
  <2>3. f.src \in Found
    BY <1>3, <1>7, <1>9, <1>10, <1>11, <2>1, <2>2
  <2>4. place[f.src] < place[p]
    BY <1>3, <2>1, <2>3 DEF Follows
  <2>5. f.src \in expanded
    BY <2>3, <2>4, HeadLeads, ExpandFacts
  <2>6. QED
    BY <1>6, <2>1, <2>5 DEF CutOff
\* For two papers to be found: what the order of the snapshot says.
<1>14. ASSUME NEW q \in Nodes(stored) \ Found, NEW r \in Fresh(p), stored.place[q] < stored.place[r]
       PROVE  q \in Fresh(p) /\ Before(q, r)
  <2>1. PICK e \in stored.edges : e.src = p /\ e.dst = r
    BY <1>4
  <2>2. PICK f \in stored.edges : f.dst = q /\ \/ stored.place[f.src] < stored.place[e.src]
                                               \/ f.src = e.src /\ Before(q, r)
    BY <1>3, <1>5, <1>12, <1>14, <2>1 DEF Sound, OrderedBy
  <2>3. f.src = p /\ Before(q, r)
    BY <1>13, <1>14, <2>1, <2>2
  <2>4. QED
    BY <1>14, <2>2, <2>3 DEF Fresh, Outgoing
<1>15. {u \in Nodes(stored) : stored.place[u] < stored.place[t]} = Found \cup {u \in Fresh(p) : Before(u, t)}
  <2>1. \A u \in Found : u \in Nodes(stored) /\ stored.place[u] < stored.place[t]
    BY <1>2, <1>5, <1>7, <1>9, <1>10, <1>11
  <2>2. ASSUME NEW u \in Fresh(p), Before(u, t) PROVE stored.place[u] < stored.place[t]
    <3>1. u \in Papers /\ u \in Nodes(stored) /\ t \in Nodes(stored)
      BY <1>2, <1>5, FreshFacts DEF WalkInv
    <3>2. u # t /\ ~Before(t, u)
      BY <1>2, <2>2, <3>1, BeforeIsAnOrder
    <3>3. ~(stored.place[t] < stored.place[u])
      BY <1>2, <1>14, <3>1, <3>2
    <3>4. stored.place[t] # stored.place[u]
      BY <3>1, <3>2 DEF Sound
    <3>5. QED
      BY <1>9, <3>1, <3>3, <3>4
  <2>3. \A u \in Nodes(stored) : stored.place[u] < stored.place[t] =>
            u \in Found \cup {v \in Fresh(p) : Before(v, t)}
    BY <1>2, <1>14
  <2>4. \A u \in Fresh(p) : u \in Nodes(stored)
    BY <1>5
  <2>5. QED
    BY <2>1, <2>2, <2>3, <2>4
<1>16. Cardinality({u \in Nodes(stored) : stored.place[u] < stored.place[t]}) = stored.place[t]
  <2>1. /\ stored.place \in [Nodes(stored) -> 0 .. Cardinality(Nodes(stored)) - 1]
        /\ \A q, r \in Nodes(stored) : stored.place[q] = stored.place[r] => q = r
    BY DEF Sound
  <2>2. t \in Nodes(stored)
    BY <1>2, <1>5
  <2>3. QED
    BY <1>8, <2>1, <2>2, PlacesCount
<1>17. Cardinality(Found \cup {u \in Fresh(p) : Before(u, t)}) = Cardinality(Found) + Rank(p, t)
  <2> DEFINE B == {u \in Fresh(p) : Before(u, t)}
  <2>1. B \in SUBSET Fresh(p) /\ Found \cap B = {}
    BY <1>5
  <2>2. IsFiniteSet(B)
    BY <2>1, FreshFacts, FS_Subset DEF WalkInv
  <2>3. Cardinality(B) = Rank(p, t) /\ Cardinality(B) \in Nat
    BY <2>2, FS_CardinalityType DEF Rank
  <2>4. Cardinality(Found \cap B) = 0
    BY <2>1, FS_EmptySet
  <2> HIDE DEF B
  <2>5. Cardinality(Found \cup B) = Cardinality(Found) + Cardinality(B) - Cardinality(Found \cap B)
    BY <1>7, <2>2, FS_Union
  <2>6. Cardinality(Found \cup B) = Cardinality(Found) + Rank(p, t)
    BY <1>7, <2>3, <2>4, <2>5
  <2>7. QED
    BY <2>6 DEF B
<1>18. QED
  BY <1>2, <1>3, <1>5, <1>15, <1>16, <1>17

----------------------------------------------------------------------------
(* Answers *)

\* Edges of the snapshot lead to all of it.
LEMMA StoredIsConnected ==
    ASSUME NEW s, Sound(s), NEW A, Root \in A, \A e \in s.edges : e.src \in A => e.dst \in A
    PROVE  Nodes(s) \subseteq A
<1> DEFINE S == {k \in Nat : \A p \in Nodes(s) : s.depth[p] <= k => p \in A}
<1>1. \A p \in Nodes(s) : s.depth[p] \in Nat
  BY DEF Sound
<1>2. \A p \in Nodes(s) : p # Root =>
         \E e \in s.edges : e.dst = p /\ e.src \in Nodes(s) /\ s.depth[p] = s.depth[e.src] + 1
  BY DEF Sound, Valid
<1>3. 0 \in S
  <2>1. \A p \in Nodes(s) : s.depth[p] <= 0 => p = Root
    BY <1>1, <1>2
  <2>2. QED
    BY <2>1
<1>4. ASSUME NEW k \in S PROVE k + 1 \in S
  <2>1. SUFFICES ASSUME NEW p \in Nodes(s), s.depth[p] <= k + 1 PROVE p \in A
    OBVIOUS
  <2>2. CASE p = Root
    BY <2>2
  <2>3. CASE p # Root
    <3>1. PICK e \in s.edges : e.dst = p /\ e.src \in Nodes(s) /\ s.depth[p] = s.depth[e.src] + 1
      BY <1>2, <2>3
    <3>2. s.depth[e.src] <= k
      BY <1>1, <2>1, <3>1
    <3>3. QED
      BY <3>1, <3>2
  <2>4. QED
    BY <2>2, <2>3
<1>5. S = Nat
  <2> HIDE DEF S
  <2>1. S \in SUBSET Nat
    BY DEF S
  <2>2. QED
    BY <1>3, <1>4, <2>1, SetInduction
<1>6. \A p \in Nodes(s) : s.depth[p] \in S
  <2> HIDE DEF S
  <2>1. QED
    BY <1>1, <1>5
<1>7. QED
  BY <1>1, <1>6

LEMMA AnswerIsTold ==
    ASSUME Published, WalkInv, Waiting = {}, Sound(stored), Follows, edges = stored.edges
    PROVE  Told(Snapshot(stored.truncated))
<1> DEFINE s == Snapshot(stored.truncated)
           verified == \E e \in Eligible : e.src = Root /\ e.dst # Root /\ e.status = "HUMAN_VERIFIED"
<1>1. Nodes(s) = Found /\ s.depth = depth /\ s.edges = Kept
  BY SnapshotFields
<1>2. s.truncated <=> truncated \/ stored.truncated \/ Kept # Forward
  BY SnapshotFields, KeptFacts
<1>3. Found \subseteq Nodes(stored) /\ Nodes(stored) \subseteq Reachable
  BY FoundIsReachable DEF Follows, Sound, Nodes
<1>4. stored.truncated <=> Nodes(stored) # Reachable \/ stored.edges # Between(stored)
  BY DEF Sound, Told, Between
<1>5. \A p \in Found : depth[p] = stored.depth[p]
  BY DEF Follows
<1>6. stored.edges \subseteq Between(stored)
  BY DEF Sound, Valid, Between
<1>7. Between(s) = {e \in Between(stored) : {e.src, e.dst} \subseteq Found}
  BY <1>1, <1>3, <1>5 DEF Between
<1>8. Forward = {e \in stored.edges : {e.src, e.dst} \subseteq Found}
  BY <1>5, <1>6 DEF Forward, Between
<1>9. Kept \subseteq Forward /\ Forward \subseteq Between(s)
  BY <1>6, <1>7, <1>8, KeptFacts
\* What is left out is missing ...
<1>10. ASSUME truncated PROVE Found # Reachable
  <2>1. PICK e \in edges : e.src \in Found /\ e.dst \notin Found
    BY <1>10, WalkIsThrough
  <2>2. e.dst \in Nodes(stored)
    BY <2>1 DEF Sound, Valid
  <2>3. QED
    BY <1>3, <2>1, <2>2
<1>11. ASSUME stored.truncated PROVE Found # Reachable \/ Kept # Between(s)
  <2>1. SUFFICES ASSUME Found = Reachable PROVE Kept # Between(s)
    OBVIOUS
  <2>2. Nodes(stored) = Found /\ stored.edges # Between(stored)
    BY <1>3, <1>4, <1>11, <2>1
  <2>3. Between(s) = Between(stored)
    BY <1>7, <2>2 DEF Between
  <2>4. Kept \subseteq stored.edges
    BY <1>8, <1>9
  <2>5. QED
    BY <1>6, <2>2, <2>3, <2>4
<1>12. Kept # Forward => Kept # Between(s)
  BY <1>9
\* ... and nothing else is.
<1>13. ASSUME ~s.truncated PROVE Found = Reachable /\ Kept = Between(s) /\ Nodes(stored) = Found
  <2>1. ~truncated /\ ~stored.truncated /\ Kept = Forward
    BY <1>2, <1>13
  <2>2. Nodes(stored) = Reachable /\ stored.edges = Between(stored)
    BY <1>4, <2>1
  <2>3. \A e \in stored.edges : e.src \in Found => e.dst \in Found
    BY <2>1, WalkIsThrough
  <2>4. Nodes(stored) \subseteq Found
    BY <2>3, StoredIsConnected DEF WalkInv, WalkTypes
  <2>5. QED
    BY <1>3, <1>7, <1>8, <2>1, <2>2, <2>4
<1>14. s.truncated <=> Nodes(s) # Reachable \/ s.edges # Between(s)
  BY <1>1, <1>2, <1>10, <1>11, <1>12, <1>13
<1>15. ASSUME ~s.truncated PROVE s.verified <=> verified
  <2>1. Found = Nodes(stored) /\ Kept = Between(s) /\ ~stored.truncated
    BY <1>2, <1>13, <1>15
  <2>2. stored.verified <=> verified
    BY <2>1 DEF Sound, Told
  <2>3. depth[Root] = 0
    BY DEF WalkInv, Queued
  <2>4. \A e \in Between(s) : e \in Eligible /\ (e.src = Root => e.dst # Root)
    BY <1>1, <2>3 DEF Between
  <2>5. ASSUME NEW e \in Eligible, e.src = Root, e.dst # Root PROVE e \in Between(s)
    <3>1. Found = Reachable /\ Root \in Found
      BY <1>13, <1>15 DEF WalkInv, WalkTypes
    <3>2. stored.depth[Root] = 0 /\ Root \in Within[0]
      BY WithinSteps DEF Sound, Valid
    <3>3. Cardinality(Papers) # 0
      BY PapersAssumption, FS_EmptySet
    <3>4. 1 \in Layers /\ 1 # 0 /\ 1 - 1 = 0
      BY <3>3, WithinSteps DEF Layers
    <3>5. e.dst \in Within[1]
      BY <2>5, <3>2, <3>4, EdgeLeadsOn
    <3>6. e.dst \in Found
      <4>1. Cardinality(Papers) \in Layers /\ 1 <= Cardinality(Papers)
        BY <3>4, WithinSteps DEF Layers
      <4>2. e.dst \in Reachable
        BY <3>4, <3>5, <4>1, WithinGrows DEF Reachable
      <4>3. QED
        BY <3>1, <4>2
    <3>7. stored.depth[e.dst] <= 1
      BY <1>3, <3>4, <3>5, <3>6 DEF Sound, Distance, Nodes
    <3>8. depth[e.dst] <= 1 /\ depth[e.dst] \in Nat /\ depth[e.dst] # 0
      BY <1>5, <2>5, <3>6, <3>7 DEF WalkInv, WalkTypes, Queued
    <3>9. QED
      BY <1>1, <2>3, <2>5, <3>1, <3>6, <3>8 DEF Between
  <2>6. s.verified <=> \E e \in Between(s) : e.src = Root /\ e.status = "HUMAN_VERIFIED"
    BY <2>1, SnapshotFields
  <2>7. QED
    BY <2>4, <2>5, <2>6
<1> HIDE DEF s
<1>16. Told(s)
  BY <1>14, <1>15, ToldIs
<1>17. QED
  BY <1>16 DEF s

\* An answer is a beginning of the stored snapshot.
Beginning(s) ==
    /\ Nodes(s) \subseteq Nodes(stored)
    /\ \A p \in Nodes(s) : s.depth[p] = stored.depth[p]
    /\ \A p \in Nodes(s), q \in Nodes(stored) : stored.place[q] < stored.place[p] => q \in Nodes(s)
    /\ s.edges \subseteq stored.edges

LEMMA AnswerIsBeginning ==
    ASSUME Published, WalkInv, Sound(stored), Follows, edges = stored.edges
    PROVE  Beginning(Snapshot(stored.truncated))
<1>1. ASSUME NEW p \in Found, NEW q \in Nodes(stored), stored.place[q] < stored.place[p] PROVE q \in Found
  <2>1. Cardinality(Found) \in Nat
    BY WalkIsFinite DEF WalkInv
  <2>2. stored.place[p] \in 0 .. Cardinality(Found) - 1
    BY DEF Follows, WalkInv, Numbered
  <2>3. Cardinality(Nodes(stored)) \in Nat /\ stored.place[q] \in 0 .. Cardinality(Nodes(stored)) - 1
    BY PapersAssumption, FS_Subset, FS_CardinalityType DEF Sound
  <2>4. QED
    BY <1>1, <2>1, <2>2, <2>3, FoundIsBeginning
<1>2. Kept \subseteq stored.edges
  BY KeptFacts
<1>3. QED
  BY <1>1, <1>2, SnapshotFields DEF Beginning, Follows

----------------------------------------------------------------------------
(* Every step keeps the invariant *)

Phases == {"published", "refused", "building", "stored", "projecting", "answered"}

LineageInv ==
    /\ Published
    /\ phase \in Phases
    /\ phase \in {"published", "refused"} => Found = {}
    /\ Begun => WalkInv
    /\ phase = "building" => edges = Eligible /\ Distance(depth)
    /\ phase \in {"published", "refused", "building"} => stored = Nothing
    /\ phase \in {"stored", "projecting", "answered"} => Sound(stored) /\ Follows
    /\ phase = "projecting" => edges = stored.edges
    /\ phase # "answered" => answer = Nothing
    /\ phase = "answered" => Valid(answer) /\ Told(answer) /\ Beginning(answer)

\* The empty sequence stands for the function on nothing.
LEMMA EmptyDomain == DOMAIN <<>> = {}
  OBVIOUS

LEMMA InitLineage == LineageInit => LineageInv
<1>1. SUFFICES ASSUME LineageInit PROVE LineageInv
  OBVIOUS
<1>2. Found = {}
  BY <1>1, EmptyDomain DEF LineageInit, Found
<1>3. QED
  BY <1>1, <1>2 DEF LineageInit, LineageInv, Published, Phases, Begun

LEMMA StoredStays ==
    ASSUME UNCHANGED <<date, corpus, stored>>, Sound(stored)
    PROVE  Sound(stored)'
<1>1. Eligible' = Eligible /\ Within' = Within
  BY WithinStays
<1>2. Valid(stored)'
  BY DEF Sound, Valid, Nodes
<1>3. Told(stored)'
  BY <1>1 DEF Sound, Told, Nodes, Reachable
<1>4. Distance(stored.depth)'
  BY <1>1 DEF Sound, Distance, Layers
<1>5. \A p, q \in Papers : Before(p, q)' <=> Before(p, q)
  BY DEF Before, DateKey
<1>6. OrderedBy(Nodes(stored), stored.place, stored.edges, stored.edges, Nodes(stored))'
  <2>1. Nodes(stored) \subseteq Papers
    BY DEF Sound
  <2>2. QED
    BY <1>5, <2>1 DEF Sound, OrderedBy, Nodes
<1>7. QED
  BY <1>1, <1>2, <1>3, <1>4, <1>6 DEF Sound, Nodes

LEMMA PublishedStays ==
    ASSUME UNCHANGED <<date, corpus>>, Published
    PROVE  Published'
  BY DEF Published

LEMMA WalkStays ==
    ASSUME Published, WalkInv, UNCHANGED <<date, corpus, limits, edges, depth, place, expanded, tree, truncated>>
    PROVE  WalkInv'
<1>1. Found' = Found /\ Waiting' = Waiting /\ Room' = Room
  BY DEF Found, Waiting, Room
<1>2. Eligible' = Eligible
  BY WithinStays
<1>3. \A p, q \in Papers : Before(p, q)' <=> Before(p, q)
  BY DEF Before, DateKey
<1>4. WalkTypes' /\ Numbered' /\ Queued' /\ Spanned'
  BY <1>1, <1>2 DEF WalkInv, WalkTypes, Numbered, Queued, Spanned
<1>5. Accounted'
  BY <1>1 DEF WalkInv, Accounted, CutOff
<1>6. Ordered'
  <2>1. Found \subseteq Papers
    BY DEF WalkInv, WalkTypes
  <2>2. QED
    BY <1>1, <1>3, <2>1 DEF WalkInv, Ordered, OrderedBy
<1>7. QED
  BY <1>4, <1>5, <1>6 DEF WalkInv

LEMMA RefuseStep ==
    ASSUME LineageInv, Refuse
    PROVE  LineageInv'
  BY PublishedStays DEF Refuse, walk, LineageInv, Found, Phases, Begun

LEMMA BuildStep ==
    ASSUME LineageInv, NEW l \in Built, Build(l)
    PROVE  LineageInv'
<1>1. /\ Published /\ phase = "published" /\ phase' = "building"
      /\ Start(l, Eligible) /\ UNCHANGED <<date, corpus, stored, answer>>
      /\ stored = Nothing /\ answer = Nothing
  BY DEF LineageInv, Build
<1>2. WalkInv' /\ Found' = {Root} /\ edges' = Eligible
  BY <1>1, StartWalk, BoundsAssumption
<1>3. Eligible' = Eligible /\ Within' = Within
  BY <1>1, WithinStays
<1>4. Distance(depth)'
  <2>1. depth'[Root] = 0
    BY <1>1 DEF Start
  <2>2. 0 \in Layers /\ \A n \in Layers : 0 <= n
    BY WithinSteps DEF Layers
  <2>3. Root \in Within[0]
    BY WithinSteps
  <2>4. QED
    BY <1>2, <1>3, <2>1, <2>2, <2>3 DEF Distance, Found, Layers
<1>5. QED
  BY <1>1, <1>2, <1>3, <1>4, PublishedStays DEF LineageInv, Phases, Begun

LEMMA StopStep ==
    ASSUME LineageInv, Stop
    PROVE  LineageInv'
<1>1. /\ Published /\ phase \in {"building", "projecting"} /\ WalkInv
      /\ UNCHANGED <<date, corpus, phase, stored, answer>>
  BY DEF LineageInv, Stop, Walking, Begun
<1>2. WalkInv' /\ UNCHANGED <<depth, place, edges>>
  BY <1>1, StopWalk
<1>3. Eligible' = Eligible /\ Within' = Within
  BY <1>1, WithinStays
<1>4. phase = "building" => edges' = Eligible' /\ Distance(depth)'
  BY <1>2, <1>3 DEF LineageInv, Distance, Layers
<1>5. phase = "projecting" => Sound(stored)' /\ Follows'
  BY <1>1, <1>2, StoredStays DEF LineageInv, Follows, Found, Nodes
<1>6. QED
  BY <1>1, <1>2, <1>4, <1>5, PublishedStays DEF LineageInv, Phases, Begun

LEMMA ExpandStep ==
    ASSUME LineageInv, Expand
    PROVE  LineageInv'
<1>1. /\ Published /\ phase \in {"building", "projecting"} /\ WalkInv
      /\ UNCHANGED <<date, corpus, phase, edges, stored, answer>>
  BY DEF LineageInv, Expand, Walking, Begun
<1>2. WalkInv'
  BY <1>1, ExpandWalk
<1>3. Eligible' = Eligible
  BY <1>1, WithinStays
<1>4. phase = "building" => edges' = Eligible' /\ Distance(depth)'
  BY <1>1, <1>3, ExpandDistance DEF LineageInv
<1>5. phase = "projecting" => Sound(stored)' /\ Follows'
  BY <1>1, StoredStays, ExpandFollows DEF LineageInv
<1>6. QED
  BY <1>1, <1>2, <1>4, <1>5, PublishedStays DEF LineageInv, Phases, Begun

LEMMA StoreStep ==
    ASSUME LineageInv, Store
    PROVE  LineageInv'
<1>1. /\ Published /\ phase = "building" /\ phase' = "stored" /\ WalkInv /\ Waiting = {}
      /\ edges = Eligible /\ Distance(depth) /\ answer = Nothing
      /\ stored' = Snapshot(FALSE)
      /\ UNCHANGED <<date, corpus, answer>>
      /\ UNCHANGED <<limits, edges, depth, place, expanded, tree, truncated>>
  BY DEF LineageInv, Store, walk, Begun
<1>2. Sound(Snapshot(FALSE))
  BY <1>1, BuiltIsSound
<1>3. Sound(stored)'
  <2>1. Eligible' = Eligible /\ Within' = Within
    BY <1>1, WithinStays
  <2>2. \A p, q \in Papers : Before(p, q)' <=> Before(p, q)
    BY <1>1 DEF Before, DateKey
  <2> DEFINE s == Snapshot(FALSE)
  <2>3. Sound(s) /\ stored' = s
    BY <1>1, <1>2
  <2> HIDE DEF s
  <2>4. Nodes(s) \subseteq Papers /\ Nodes(stored)' = Nodes(s)
    BY <2>3 DEF Sound, Nodes
  <2>5. Valid(stored)' /\ Distance(stored.depth)' /\ Told(stored)'
    BY <2>1, <2>3 DEF Sound, Valid, Distance, Layers, Told, Reachable, Nodes
  <2>6. OrderedBy(Nodes(s), s.place, s.edges, s.edges, Nodes(s))
    BY <2>3 DEF Sound
  <2>7. OrderedBy(Nodes(stored), stored.place, stored.edges, stored.edges, Nodes(stored))'
    BY <2>2, <2>3, <2>4, <2>6 DEF OrderedBy
  <2>8. QED
    BY <2>1, <2>3, <2>4, <2>5, <2>7 DEF Sound
<1>4. WalkInv'
  BY <1>1, WalkStays
<1>5. Follows'
  BY <1>1, SnapshotFields DEF Follows, Found, Nodes
<1>6. QED
  BY <1>1, <1>3, <1>4, <1>5, PublishedStays DEF LineageInv, Phases, Begun

LEMMA RequestStep ==
    ASSUME LineageInv, NEW l \in Requested, Request(l)
    PROVE  LineageInv'
<1>1. /\ Published /\ phase \in {"stored", "answered"} /\ phase' = "projecting"
      /\ Sound(stored)
      /\ Start(Effective(l), ReadEdges)
      /\ UNCHANGED <<date, corpus, stored>> /\ answer' = Nothing
  BY DEF LineageInv, Request
<1>2. Effective(l) \in Bounds
  <2>1. l \in Bounds /\ stored.limits \in Bounds
    BY <1>1, BoundsAssumption DEF Sound
  <2>2. QED
    BY <2>1 DEF Effective, Lesser, Bounds
<1>3. ReadEdges = stored.edges /\ stored.edges \subseteq Eligible
  BY <1>1 DEF ReadEdges, Sound, Valid
<1>4. WalkInv' /\ Found' = {Root} /\ edges' = stored.edges
  BY <1>1, <1>2, <1>3, StartWalk
<1>5. Sound(stored)'
  BY <1>1, StoredStays
<1>6. Follows'
  <2>1. depth'[Root] = 0 /\ place'[Root] = 0
    BY <1>1 DEF Start
  <2>2. Root \in Nodes(stored) /\ stored.depth[Root] = 0 /\ stored.place[Root] = 0
    BY <1>1 DEF Sound, Valid
  <2>3. QED
    BY <1>1, <1>4, <2>1, <2>2 DEF Follows, Nodes
<1>7. QED
  BY <1>1, <1>4, <1>5, <1>6, PublishedStays DEF LineageInv, Phases, Begun

LEMMA AnswerStep ==
    ASSUME LineageInv, Answer
    PROVE  LineageInv'
<1>1. /\ Published /\ phase = "projecting" /\ phase' = "answered" /\ WalkInv /\ Waiting = {}
      /\ edges = stored.edges /\ Sound(stored) /\ Follows
      /\ answer' = Snapshot(stored.truncated)
      /\ UNCHANGED <<date, corpus, stored>>
      /\ UNCHANGED <<limits, edges, depth, place, expanded, tree, truncated>>
  BY DEF LineageInv, Answer, walk, Begun
<1> DEFINE s == Snapshot(stored.truncated)
<1>2. Valid(s) /\ Told(s) /\ Beginning(s)
  BY <1>1, SnapshotIsValid, AnswerIsTold, AnswerIsBeginning
<1>3. answer' = s
  BY <1>1
<1>4. Eligible' = Eligible /\ Within' = Within
  BY <1>1, WithinStays
<1> HIDE DEF s
<1>5. Valid(answer)' /\ Told(answer)' /\ Beginning(answer)'
  BY <1>1, <1>2, <1>3, <1>4 DEF Valid, Told, Reachable, Beginning, Nodes
<1>6. Sound(stored)' /\ Follows'
  BY <1>1, StoredStays DEF Follows, Found, Nodes
<1>7. QED
  BY <1>1, <1>5, <1>6, WalkStays, PublishedStays DEF LineageInv, Phases, Begun

LEMMA LineageStutters ==
    ASSUME LineageInv, UNCHANGED lineageVars
    PROVE  LineageInv'
<1>1. /\ UNCHANGED <<date, corpus, phase, stored, answer>>
      /\ UNCHANGED <<limits, edges, depth, place, expanded, tree, truncated>>
  BY DEF lineageVars, walk
<1>2. Eligible' = Eligible /\ Within' = Within
  BY <1>1, WithinStays
<1>3. Begun => WalkInv'
  BY <1>1, WalkStays DEF LineageInv
<1>4. phase = "building" => edges' = Eligible' /\ Distance(depth)'
  BY <1>1, <1>2 DEF LineageInv, Distance, Layers
<1>5. phase \in {"stored", "projecting", "answered"} => Sound(stored)' /\ Follows'
  BY <1>1, StoredStays DEF LineageInv, Follows, Found, Nodes
<1>6. phase = "answered" => Valid(answer)' /\ Told(answer)' /\ Beginning(answer)'
  BY <1>1, <1>2 DEF LineageInv, Valid, Told, Reachable, Beginning, Nodes
<1>7. QED
  BY <1>1, <1>3, <1>4, <1>5, <1>6, PublishedStays DEF LineageInv, Phases, Begun, Found

LEMMA LineageKept == LineageSpec => []LineageInv
<1>1. LineageInit => LineageInv
  BY InitLineage
<1>2. LineageInv /\ [LineageNext]_lineageVars => LineageInv'
  BY RefuseStep, BuildStep, StopStep, ExpandStep, StoreStep, RequestStep, AnswerStep, LineageStutters
     DEF LineageNext
<1>3. QED
  BY <1>1, <1>2, PTL DEF LineageSpec

----------------------------------------------------------------------------
(* The properties *)

\* No snapshot that a publication stores and no answer to a request fails the checks of
\* LineageSnapshot, and all depths are distances among the published relations
\* (build_lineage_snapshot, _bounded_lineage), whatever bounds, papers and relations there are.
THEOREM SnapshotsValid == LineageSpec => []SnapshotsAreValid
<1>1. LineageInv => SnapshotsAreValid
  <2>1. SUFFICES ASSUME LineageInv PROVE SnapshotsAreValid
    OBVIOUS
  <2>2. ASSUME NEW s \in Snapshots PROVE Valid(s)
    <3>1. CASE s = stored
      BY <2>1, <3>1 DEF LineageInv, Snapshots, Phases, Sound
    <3>2. CASE s = answer
      BY <2>1, <3>2 DEF LineageInv, Snapshots, Phases
    <3>3. QED
      BY <3>1, <3>2 DEF Snapshots
  <2>3. DepthIsDistance
    <3>1. SUFFICES ASSUME NEW p \in Found
                   PROVE  p \in Within[depth[p]] /\ (depth[p] > 0 => p \notin Within[depth[p] - 1])
      BY DEF DepthIsDistance
    <3>2. phase = "building" \/ phase \in {"stored", "projecting", "answered"}
      BY <2>1, <3>1 DEF LineageInv, Phases
    <3>3. /\ depth[p] \in Layers /\ p \in Within[depth[p]]
          /\ \A n \in Layers : p \in Within[n] => depth[p] <= n
      <4>1. CASE phase = "building"
        BY <2>1, <4>1 DEF LineageInv, Distance, Found
      <4>2. CASE phase \in {"stored", "projecting", "answered"}
        BY <2>1, <4>2 DEF LineageInv, Sound, Follows, Distance, Nodes
      <4>3. QED
        BY <3>2, <4>1, <4>2
    <3>4. depth[p] > 0 => depth[p] - 1 \in Layers /\ ~(depth[p] <= depth[p] - 1)
      BY <3>3, WithinSteps DEF Layers
    <3>5. QED
      BY <3>3, <3>4
  <2>4. QED
    BY <2>2, <2>3 DEF SnapshotsAreValid
<1>2. QED
  BY <1>1, LineageKept, PTL

\* A snapshot or an answer says that it was truncated exactly when it lacks a paper that
\* can be reached or a relation between consecutive layers (truncated).
THEOREM TruncationTold == LineageSpec => []TruncationIsTold
<1>1. LineageInv => TruncationIsTold
  BY DEF LineageInv, TruncationIsTold, Snapshots, Phases, Sound
<1>2. QED
  BY <1>1, LineageKept, PTL

\* A request that asks for less is answered with the papers that were found first, each at
\* its depth, and stored edges only (_bounded_lineage).
THEOREM AnswersBegin == LineageSpec => []AnswersAreBeginnings
<1>1. LineageInv => AnswersAreBeginnings
  BY DEF LineageInv, AnswersAreBeginnings, Beginning, Nodes
<1>2. QED
  BY <1>1, LineageKept, PTL
=============================================================================
