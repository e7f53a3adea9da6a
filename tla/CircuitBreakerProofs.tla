------------------------ MODULE CircuitBreakerProofs ------------------------
(* Theorems about CircuitBreaker, for every set of requests and every       *)
(* threshold: type correctness, that no interleaving loses a trip, and that *)
(* the half-open slot is never left claimed while calls do not overlap.     *)
EXTENDS CircuitBreaker, TLAPS

\* At most one breaker call is half done.
Exclusive ==
  \A p, q \in Requests : pc[p] \in MidCall /\ pc[q] \in MidCall => p = q

\* What a half-done call has loaded still holds.
LoadsHold ==
  \A r \in Requests :
    /\ pc[r] \in {"allowZero", "allowProbe", "succClose", "abandonSlot"}
         => state = "HalfOpen"
    /\ pc[r] \in {"allowSince", "allowCas"} => state = "Open"
    /\ pc[r] \in {"succReset", "failCount"} => state # "HalfOpen"
    /\ pc[r] # "allowReload"

\* A claimed slot is about to be released, or belongs to a half-open breaker
\* with an admitted request in flight.
SlotOwned ==
  probeSlot = 1 =>
    \/ \E r \in Requests : pc[r] \in {"succZero", "succSlot", "failSlot"}
    \/ /\ state = "HalfOpen"
       /\ \E r \in Requests : pc[r] \in {"running", "succClose", "failStamp",
                                       "failLoad", "failOpen", "abandonSlot"}

\* Why no wedge arises while calls do not overlap.
SerialInv == ~overlapped => Exclusive /\ LoadsHold /\ SlotOwned

-----------------------------------------------------------------------------
\* Every step of the specification keeps the variables in their types.
THEOREM TypeCorrect == Spec => []TypeOK
<1>1. Init => TypeOK
  <2> SUFFICES ASSUME Init PROVE TypeOK
    OBVIOUS
  <2>1. cooled \in BOOLEAN /\ overlapped \in BOOLEAN
    BY Zenon DEF Init
  <2>2. pc \in [Requests -> Labels]
    BY DEF Init, Labels
  <2> QED
    BY <2>1, <2>2 DEF Init, TypeOK
<1>2. TypeOK /\ [Next]_vars => TypeOK'
  <2> SUFFICES ASSUME TypeOK, [Next]_vars PROVE TypeOK'
    OBVIOUS
  <2> USE DEF TypeOK, Labels, MidCall, Step
  <2>1. CASE UNCHANGED vars
    BY <2>1 DEF vars
  <2>2. CASE Tick
    BY <2>2 DEF Tick
  <2>3. ASSUME NEW r \in Requests, AllowLoad(r) PROVE TypeOK'
    BY <2>3 DEF AllowLoad
  <2>4. ASSUME NEW r \in Requests, AllowSince(r) PROVE TypeOK'
    BY <2>4 DEF AllowSince
  <2>5. ASSUME NEW r \in Requests, AllowCas(r) PROVE TypeOK'
    BY <2>5 DEF AllowCas
  <2>6. ASSUME NEW r \in Requests, AllowZero(r) PROVE TypeOK'
    BY <2>6 DEF AllowZero
  <2>7. ASSUME NEW r \in Requests, AllowReload(r) PROVE TypeOK'
    BY <2>7 DEF AllowReload
  <2>8. ASSUME NEW r \in Requests, AllowProbe(r) PROVE TypeOK'
    BY <2>8 DEF AllowProbe
  <2>9. ASSUME NEW r \in Requests, SuccLoad(r) PROVE TypeOK'
    BY <2>9 DEF SuccLoad
  <2>10. ASSUME NEW r \in Requests, SuccClose(r) PROVE TypeOK'
    BY <2>10 DEF SuccClose
  <2>11. ASSUME NEW r \in Requests, SuccZero(r) PROVE TypeOK'
    BY <2>11 DEF SuccZero
  <2>12. ASSUME NEW r \in Requests, SuccSlot(r) PROVE TypeOK'
    BY <2>12 DEF SuccSlot
  <2>13. ASSUME NEW r \in Requests, SuccReset(r) PROVE TypeOK'
    BY <2>13 DEF SuccReset
  <2>14. ASSUME NEW r \in Requests, FailAdd(r) PROVE TypeOK'
    BY <2>14 DEF FailAdd
  <2>15. ASSUME NEW r \in Requests, FailStamp(r) PROVE TypeOK'
    BY <2>15 DEF FailStamp
  <2>16. ASSUME NEW r \in Requests, FailLoad(r) PROVE TypeOK'
    BY <2>16 DEF FailLoad
  <2>17. ASSUME NEW r \in Requests, FailCount(r) PROVE TypeOK'
    BY <2>17 DEF FailCount
  <2>18. ASSUME NEW r \in Requests, FailOpen(r) PROVE TypeOK'
    BY <2>18 DEF FailOpen
  <2>19. ASSUME NEW r \in Requests, FailSlot(r) PROVE TypeOK'
    BY <2>19 DEF FailSlot
  <2>20. ASSUME NEW r \in Requests, AbandonLoad(r) PROVE TypeOK'
    BY <2>20 DEF AbandonLoad
  <2>21. ASSUME NEW r \in Requests, AbandonSlot(r) PROVE TypeOK'
    BY <2>21 DEF AbandonSlot
  <2> QED
    BY <2>1, <2>2, <2>3, <2>4, <2>5, <2>6, <2>7, <2>8, <2>9, <2>10, <2>11, <2>12, <2>13, <2>14, <2>15, <2>16, <2>17, <2>18, <2>19, <2>20, <2>21 DEF Next, Arrive, Proceed
<1> QED
  BY <1>1, <1>2, PTL DEF Spec

\* A closed breaker that counts Threshold failures always has a request on its
\* way to open it or to zero the count, whatever the interleaving of the atomic
\* operations of RecordFailure, RecordSuccess and Allow.
THEOREM TripNeverMissed == Spec => []NoMissedTrip
<1>1. Init => NoMissedTrip
  BY ThresholdAssumption DEF Init, NoMissedTrip
<1>2. TypeOK /\ NoMissedTrip /\ [Next]_vars => NoMissedTrip'
  <2> SUFFICES ASSUME TypeOK, NoMissedTrip, [Next]_vars PROVE NoMissedTrip'
    OBVIOUS
  <2> USE ThresholdAssumption DEF TypeOK, NoMissedTrip, Owing, Step
  <2>1. CASE UNCHANGED vars
    BY <2>1 DEF vars
  <2>2. CASE Tick
    BY <2>2 DEF Tick
  <2>3. ASSUME NEW r \in Requests, AllowLoad(r) PROVE NoMissedTrip'
    BY <2>3 DEF AllowLoad
  <2>4. ASSUME NEW r \in Requests, AllowSince(r) PROVE NoMissedTrip'
    BY <2>4 DEF AllowSince
  <2>5. ASSUME NEW r \in Requests, AllowCas(r) PROVE NoMissedTrip'
    BY <2>5 DEF AllowCas
  <2>6. ASSUME NEW r \in Requests, AllowZero(r) PROVE NoMissedTrip'
    BY <2>6 DEF AllowZero
  <2>7. ASSUME NEW r \in Requests, AllowReload(r) PROVE NoMissedTrip'
    BY <2>7 DEF AllowReload
  <2>8. ASSUME NEW r \in Requests, AllowProbe(r) PROVE NoMissedTrip'
    BY <2>8 DEF AllowProbe
  <2>9. ASSUME NEW r \in Requests, SuccLoad(r) PROVE NoMissedTrip'
    BY <2>9 DEF SuccLoad
  <2>10. ASSUME NEW r \in Requests, SuccClose(r) PROVE NoMissedTrip'
    BY <2>10 DEF SuccClose
  <2>11. ASSUME NEW r \in Requests, SuccZero(r) PROVE NoMissedTrip'
    BY <2>11 DEF SuccZero
  <2>12. ASSUME NEW r \in Requests, SuccSlot(r) PROVE NoMissedTrip'
    BY <2>12 DEF SuccSlot
  <2>13. ASSUME NEW r \in Requests, SuccReset(r) PROVE NoMissedTrip'
    BY <2>13 DEF SuccReset
  <2>14. ASSUME NEW r \in Requests, FailAdd(r) PROVE NoMissedTrip'
    BY <2>14 DEF FailAdd
  <2>15. ASSUME NEW r \in Requests, FailStamp(r) PROVE NoMissedTrip'
    BY <2>15 DEF FailStamp
  <2>16. ASSUME NEW r \in Requests, FailLoad(r) PROVE NoMissedTrip'
    BY <2>16 DEF FailLoad
  <2>17. ASSUME NEW r \in Requests, FailCount(r) PROVE NoMissedTrip'
    BY <2>17 DEF FailCount
  <2>18. ASSUME NEW r \in Requests, FailOpen(r) PROVE NoMissedTrip'
    BY <2>18 DEF FailOpen
  <2>19. ASSUME NEW r \in Requests, FailSlot(r) PROVE NoMissedTrip'
    BY <2>19 DEF FailSlot
  <2>20. ASSUME NEW r \in Requests, AbandonLoad(r) PROVE NoMissedTrip'
    BY <2>20 DEF AbandonLoad
  <2>21. ASSUME NEW r \in Requests, AbandonSlot(r) PROVE NoMissedTrip'
    BY <2>21 DEF AbandonSlot
  <2> QED
    BY <2>1, <2>2, <2>3, <2>4, <2>5, <2>6, <2>7, <2>8, <2>9, <2>10, <2>11, <2>12, <2>13, <2>14, <2>15, <2>16, <2>17, <2>18, <2>19, <2>20, <2>21 DEF Next, Arrive, Proceed
<1> QED
  BY <1>1, <1>2, TypeCorrect, PTL DEF Spec

\* A step that leaves no overlap behind found every other call finished.
LEMMA StepExclusive ==
  ASSUME TypeOK, ~overlapped', NEW r \in Requests, NEW from, NEW to, Step(r, from, to)
  PROVE  Exclusive'
<1>1. \A q \in Requests : pc'[q] \in MidCall => q = r
  BY DEF TypeOK, Step
<1> QED
  BY <1>1 DEF Exclusive

\* The inductive step of SlotNeverLeaked: SerialInv is kept by every operation.
LEMMA SerialInvInductive == TypeOK /\ SerialInv /\ [Next]_vars => SerialInv'
<1> SUFFICES ASSUME TypeOK, SerialInv, [Next]_vars, ~overlapped' PROVE SerialInv'
  BY DEF SerialInv
<1> USE DEF TypeOK, SerialInv, Exclusive, LoadsHold, SlotOwned, MidCall, Step
<1>1. CASE UNCHANGED vars
  BY <1>1 DEF vars
<1>2. CASE Tick
  BY <1>2 DEF Tick
<1>3. ASSUME NEW r \in Requests, AllowLoad(r) PROVE SerialInv'
  <2>1. Exclusive'
    <3> HIDE DEF TypeOK, Exclusive, MidCall, Step
    <3> QED
      BY <1>3, StepExclusive DEF AllowLoad
  <2>2. LoadsHold'
    BY <1>3 DEF AllowLoad
  <2>3. SlotOwned'
    BY <1>3 DEF AllowLoad
  <2> QED
    BY <2>1, <2>2, <2>3
<1>4. ASSUME NEW r \in Requests, AllowSince(r) PROVE SerialInv'
  BY <1>4 DEF AllowSince
<1>5. ASSUME NEW r \in Requests, AllowCas(r) PROVE SerialInv'
  BY <1>5 DEF AllowCas
<1>6. ASSUME NEW r \in Requests, AllowZero(r) PROVE SerialInv'
  BY <1>6 DEF AllowZero
<1>7. ASSUME NEW r \in Requests, AllowReload(r) PROVE SerialInv'
  BY <1>7 DEF AllowReload
<1>8. ASSUME NEW r \in Requests, AllowProbe(r) PROVE SerialInv'
  BY <1>8 DEF AllowProbe
<1>9. ASSUME NEW r \in Requests, SuccLoad(r) PROVE SerialInv'
  <2>1. Exclusive'
    <3> HIDE DEF TypeOK, Exclusive, MidCall, Step
    <3> QED
      BY <1>9, StepExclusive DEF SuccLoad
  <2>2. LoadsHold'
    BY <1>9 DEF SuccLoad
  <2>3. SlotOwned'
    BY <1>9 DEF SuccLoad
  <2> QED
    BY <2>1, <2>2, <2>3
<1>10. ASSUME NEW r \in Requests, SuccClose(r) PROVE SerialInv'
  BY <1>10 DEF SuccClose
<1>11. ASSUME NEW r \in Requests, SuccZero(r) PROVE SerialInv'
  BY <1>11 DEF SuccZero
<1>12. ASSUME NEW r \in Requests, SuccSlot(r) PROVE SerialInv'
  BY <1>12 DEF SuccSlot
<1>13. ASSUME NEW r \in Requests, SuccReset(r) PROVE SerialInv'
  BY <1>13 DEF SuccReset
<1>14. ASSUME NEW r \in Requests, FailAdd(r) PROVE SerialInv'
  BY <1>14 DEF FailAdd
<1>15. ASSUME NEW r \in Requests, FailStamp(r) PROVE SerialInv'
  BY <1>15 DEF FailStamp
<1>16. ASSUME NEW r \in Requests, FailLoad(r) PROVE SerialInv'
  BY <1>16 DEF FailLoad
<1>17. ASSUME NEW r \in Requests, FailCount(r) PROVE SerialInv'
  BY <1>17 DEF FailCount
<1>18. ASSUME NEW r \in Requests, FailOpen(r) PROVE SerialInv'
  BY <1>18 DEF FailOpen
<1>19. ASSUME NEW r \in Requests, FailSlot(r) PROVE SerialInv'
  BY <1>19 DEF FailSlot
<1>20. ASSUME NEW r \in Requests, AbandonLoad(r) PROVE SerialInv'
  BY <1>20 DEF AbandonLoad
<1>21. ASSUME NEW r \in Requests, AbandonSlot(r) PROVE SerialInv'
  BY <1>21 DEF AbandonSlot
<1> QED
  BY <1>1, <1>2, <1>3, <1>4, <1>5, <1>6, <1>7, <1>8, <1>9, <1>10, <1>11, <1>12, <1>13, <1>14, <1>15, <1>16, <1>17, <1>18, <1>19, <1>20, <1>21 DEF Next, Arrive, Proceed

\* Until two breaker calls overlap, a half-open breaker with nobody in flight
\* has its probe slot free: no outcome of a probe leaves the domain wedged.
THEOREM SlotNeverLeaked == Spec => []NotWedgedWithoutOverlap
<1>1. Init => SerialInv
  BY DEF Init, SerialInv, Exclusive, LoadsHold, SlotOwned, MidCall
<1>2. SerialInv => NotWedgedWithoutOverlap
  BY DEF SerialInv, SlotOwned, NotWedgedWithoutOverlap, Wedged, Quiescent
<1> QED
  BY <1>1, <1>2, SerialInvInductive, TypeCorrect, PTL DEF Spec
=============================================================================
