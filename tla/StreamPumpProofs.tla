-------------------------- MODULE StreamPumpProofs --------------------------
(***************************************************************************)
(* Theorems about StreamPump, for every length of input and output, every  *)
(* buffer, slice and SIZE_MAX.                                             *)
(*                                                                         *)
(* PhaseInv ties the session to where the pump is: which phase has ended   *)
(* the input, and that the cursor follows what was read.  RoomInv adds,    *)
(* for a chain that holds a tail until end, that a full destination lacks  *)
(* the room the output needs.                                              *)
(***************************************************************************)
EXTENDS StreamPump, TLAPS

\* What each phase of the pump knows of its session.
PhaseInv ==
    /\ live = (IF pc \in {"begin", "returned"} THEN 0 ELSE 1)
    /\ live = 1 => used = drained
    /\ pc \in {"feed", "drain"} => ~ ended
    /\ pc \in {"last", "done"} => ended /\ offset = src
    /\ pc = "done" => drained = out
    /\ result = "none" <=> pc # "returned"
    /\ result = "ok" => offset = src /\ used = out /\ drained = out

\* On a chain that holds a tail, a full destination is too small, and a larger one
\* was needed.
RoomInv ==
  holdsTail =>
    /\ live = 1 /\ ~ ended => spooled < out
    /\ pc = "last" => drained < Needed
    /\ pc = "rejected" => cap < Needed
    /\ result = "too_small" => cap < Needed /\ (attempt = Retries \/ 2 * cap > CapMax)
    /\ attempt > 0 => 2 * Needed > cap

IInv == TypeOK /\ PhaseInv

-----------------------------------------------------------------------------
\* The guard before doubling keeps the size representable.
LEMMA Doubled ==
  ASSUME NEW c \in 0 .. CapMax, c <= CapMax \div 2
  PROVE  /\ (c * 2) % (CapMax + 1) = 2 * c
         /\ 2 * c \in 0 .. CapMax
  <1>1. 2 * c <= CapMax /\ CapMax \in Nat
    BY LengthsAssumption
  <1>2. \A a, b \in Nat : a < b => a % b = a
    OBVIOUS
  <1> QED
    BY <1>1, <1>2

\* The lengths are numbers.
LEMMA Numbers ==
  ASSUME src \in SrcLens, out \in OutLens
  PROVE  src \in Nat /\ out \in Nat /\ out > 0
  BY LengthsAssumption

\* The invariants hold at the start.
LEMMA InitFact == Init => IInv /\ RoomInv
  <1> SUFFICES ASSUME Init PROVE IInv /\ RoomInv
    OBVIOUS
  <1>1. src \in Nat /\ out \in Nat /\ out > 0 /\ cap \in 0 .. CapMax /\ cap \in Nat
    BY LengthsAssumption, Numbers DEF Init
  <1>2. live = 0 /\ ~ ended /\ ~ broken
    BY Zenon DEF Init
  <1>3. /\ attempt = 0 /\ offset = 0 /\ used = 0 /\ drained = 0 /\ spooled = 0
        /\ src \in SrcLens /\ out \in OutLens /\ pc = "begin" /\ result = "none"
    BY DEF Init
  <1>4. /\ ended \in BOOLEAN /\ broken \in BOOLEAN
        /\ grows \in BOOLEAN /\ holdsTail \in BOOLEAN /\ lags \in BOOLEAN
    BY Zenon DEF Init
  <1>5. used \in 0 .. IF grows THEN out ELSE cap
    BY <1>1, <1>3
  <1>6. TypeOK
    BY <1>1, <1>2, <1>3, <1>4, <1>5, PumpAssumption DEF TypeOK
  <1> QED
    BY <1>1, <1>2, <1>3, <1>6 DEF IInv, PhaseInv, RoomInv, Needed

\* Every step keeps the types.
LEMMA TypeStep ==
  ASSUME IInv, [Next]_vars
  PROVE  TypeOK'
  <1> USE LengthsAssumption, PumpAssumption DEF IInv, TypeOK, PhaseInv, given, Room
  <1>1. CASE Produce
    BY <1>1 DEF Produce, Ready, Running, given, pumpVars
  <1>2. CASE ChainFails
    BY <1>2 DEF ChainFails, Running, given, pumpVars
  <1>3. CASE Begin
    <2>1. ended' \in BOOLEAN /\ broken' \in BOOLEAN
      BY <1>3 DEF Begin
    <2>2. live' \in Nat
      BY <1>3 DEF Begin
    <2>3. /\ src' = src /\ out' = out /\ cap' = cap /\ attempt' = attempt /\ result' = result
          /\ offset' = 0 /\ used' = 0 /\ drained' = 0 /\ spooled' = 0 /\ pc' = "feed"
      BY <1>3 DEF Begin
    <2>4. grows' \in BOOLEAN /\ holdsTail' \in BOOLEAN /\ lags' \in BOOLEAN
      BY <1>3 DEF Begin
    <2>5. used' \in 0 .. IF grows' THEN out' ELSE cap'
      BY <2>3, Numbers
    <2> QED
      BY <2>1, <2>2, <2>3, <2>4, <2>5, Numbers
  <1>4. CASE BeginFails
    BY <1>4 DEF BeginFails, sessionVars
  <1>5. CASE Write
    BY <1>5 DEF Write, Smaller, sessionVars
  <1>6. CASE WriteFails
    BY <1>6 DEF WriteFails, Leave
  <1>7. CASE End
    BY <1>7 DEF End
  <1>8. CASE EndFails
    BY <1>8 DEF EndFails, Leave
  <1>9. CASE ReadSome
    BY <1>9 DEF ReadSome, Smaller, Finished, Draining
  <1>10. CASE ReadNone
    BY <1>10 DEF ReadNone, Answers, Draining, sessionVars
  <1>11. CASE ReadFails
    BY <1>11 DEF ReadFails, Leave, Draining
  <1>12. CASE ReadOverreports
    BY <1>12 DEF ReadOverreports, Leave, Draining
  <1>13. CASE DestinationFull
    BY <1>13 DEF DestinationFull, Draining, sessionVars
  <1>14. CASE StartOver
    BY <1>14, Doubled DEF StartOver
  <1>15. CASE GiveUp
    BY <1>15 DEF GiveUp, Leave
  <1>16. CASE Return
    BY <1>16 DEF Return, Leave
  <1>19. CASE BufferThrows
    BY <1>19 DEF BufferThrows, sessionVars
  <1>20. CASE CopyThrows
    BY <1>20 DEF CopyThrows, Leave
  <1>17. CASE Stopped
    BY <1>17 DEF Stopped, vars, given, pumpVars, sessionVars
  <1>18. CASE UNCHANGED vars
    BY <1>18 DEF vars, given, pumpVars, sessionVars
  <1> QED
    BY <1>1, <1>2, <1>3, <1>4, <1>5, <1>6, <1>7, <1>8, <1>9, <1>10, <1>11, <1>12, <1>13, <1>14, <1>15, <1>16, <1>17, <1>18, <1>19, <1>20 DEF Next, Chain, Pump

\* Every step keeps the phases.
LEMMA PhaseStep ==
  ASSUME IInv, TypeOK', [Next]_vars
  PROVE  PhaseInv'
  <1> USE LengthsAssumption, PumpAssumption DEF IInv, TypeOK, PhaseInv, given, Room
  <1>1. CASE Produce
    BY <1>1 DEF Produce, Ready, Running, given, pumpVars
  <1>2. CASE ChainFails
    BY <1>2 DEF ChainFails, Running, given, pumpVars
  <1>3. CASE Begin
    BY <1>3 DEF Begin
  <1>4. CASE BeginFails
    BY <1>4 DEF BeginFails, sessionVars
  <1>5. CASE Write
    BY <1>5 DEF Write, Smaller, sessionVars
  <1>6. CASE WriteFails
    BY <1>6 DEF WriteFails, Leave
  <1>7. CASE End
    BY <1>7 DEF End
  <1>8. CASE EndFails
    BY <1>8 DEF EndFails, Leave
  <1>9. CASE ReadSome
    BY <1>9 DEF ReadSome, Smaller, Finished, Draining
  <1>10. CASE ReadNone
    BY <1>10 DEF ReadNone, Answers, Draining, sessionVars
  <1>11. CASE ReadFails
    BY <1>11 DEF ReadFails, Leave, Draining
  <1>12. CASE ReadOverreports
    BY <1>12 DEF ReadOverreports, Leave, Draining
  <1>13. CASE DestinationFull
    BY <1>13 DEF DestinationFull, Draining, sessionVars
  <1>14. CASE StartOver
    BY <1>14, Doubled DEF StartOver
  <1>15. CASE GiveUp
    BY <1>15 DEF GiveUp, Leave
  <1>16. CASE Return
    BY <1>16 DEF Return, Leave
  <1>19. CASE BufferThrows
    BY <1>19 DEF BufferThrows, sessionVars
  <1>20. CASE CopyThrows
    BY <1>20 DEF CopyThrows, Leave
  <1>17. CASE Stopped
    BY <1>17 DEF Stopped, vars, given, pumpVars, sessionVars
  <1>18. CASE UNCHANGED vars
    BY <1>18 DEF vars, given, pumpVars, sessionVars
  <1> QED
    BY <1>1, <1>2, <1>3, <1>4, <1>5, <1>6, <1>7, <1>8, <1>9, <1>10, <1>11, <1>12, <1>13, <1>14, <1>15, <1>16, <1>17, <1>18, <1>19, <1>20 DEF Next, Chain, Pump

\* Every step keeps the room.
LEMMA RoomStep ==
  ASSUME IInv, RoomInv, TypeOK', [Next]_vars
  PROVE  RoomInv'
  <1> USE LengthsAssumption, PumpAssumption DEF IInv, TypeOK, PhaseInv, RoomInv, Needed, given, Room
  <1>1. CASE Produce
    BY <1>1 DEF Produce, Ready, Running, given, pumpVars
  <1>2. CASE ChainFails
    BY <1>2 DEF ChainFails, Running, given, pumpVars
  <1>3. CASE Begin
    BY <1>3 DEF Begin
  <1>4. CASE BeginFails
    BY <1>4 DEF BeginFails, sessionVars
  <1>5. CASE Write
    BY <1>5 DEF Write, Smaller, sessionVars
  <1>6. CASE WriteFails
    BY <1>6 DEF WriteFails, Leave
  <1>7. CASE End
    BY <1>7 DEF End
  <1>8. CASE EndFails
    BY <1>8 DEF EndFails, Leave
  <1>9. CASE ReadSome
    <2>1. PICK n \in 1 .. Smaller(spooled - drained, Room) :
             used' = used + n /\ drained' = drained + n
      BY <1>9 DEF ReadSome
    <2>2. PICK seen \in {TRUE, ~ lags} :
             pc' = IF pc = "last" /\ Finished /\ seen THEN "done" ELSE pc
      BY <1>9 DEF ReadSome
    <2>3. n <= spooled - drained
      BY <2>1 DEF Smaller
    <2>4. /\ Draining /\ UNCHANGED <<given, cap, attempt, offset, result, spooled, ended, live>>
      BY <1>9 DEF ReadSome
    <2>5. CASE lags
      BY <2>1, <2>2, <2>3, <2>4, <2>5, Numbers DEF Draining
    <2>6. CASE ~ lags
      <3>1. seen
        BY <2>6
      <3> QED
        BY <2>1, <2>2, <2>3, <2>4, <2>6, <3>1, Numbers DEF Draining, Finished
    <2> QED
      BY <2>5, <2>6
  <1>10. CASE ReadNone
    BY <1>10 DEF ReadNone, Answers, Draining, sessionVars
  <1>11. CASE ReadFails
    BY <1>11 DEF ReadFails, Leave, Draining
  <1>12. CASE ReadOverreports
    BY <1>12 DEF ReadOverreports, Leave, Draining
  <1>13. CASE DestinationFull
    BY <1>13 DEF DestinationFull, Draining, sessionVars
  <1>14. CASE StartOver
    BY <1>14, Doubled DEF StartOver
  <1>15. CASE GiveUp
    BY <1>15 DEF GiveUp, Leave
  <1>16. CASE Return
    BY <1>16 DEF Return, Leave
  <1>19. CASE BufferThrows
    BY <1>19 DEF BufferThrows, sessionVars
  <1>20. CASE CopyThrows
    BY <1>20 DEF CopyThrows, Leave
  <1>17. CASE Stopped
    BY <1>17 DEF Stopped, vars, given, pumpVars, sessionVars
  <1>18. CASE UNCHANGED vars
    BY <1>18 DEF vars, given, pumpVars, sessionVars
  <1> QED
    BY <1>1, <1>2, <1>3, <1>4, <1>5, <1>6, <1>7, <1>8, <1>9, <1>10, <1>11, <1>12, <1>13, <1>14, <1>15, <1>16, <1>17, <1>18, <1>19, <1>20 DEF Next, Chain, Pump

\* A step of the pump goes on, throws, or returns with the whole output.
Outcome ==
    /\ out' = out
    /\ \/ result' = result /\ (result = "ok" => used' = used)
       \/ result = "none" /\ result' \in {"too_small", "failed"}
       \/ result = "none" /\ result' = "ok" /\ used' = out'

\* Every step has one of these outcomes.
LEMMA OutcomeStep ==
  ASSUME IInv, IInv', [Next]_vars
  PROVE  Outcome
  <1> USE DEF IInv, PhaseInv, Outcome, given
  <1>1. CASE Produce
    BY <1>1 DEF Produce, given, pumpVars, Running
  <1>2. CASE ChainFails
    BY <1>2 DEF ChainFails, given, pumpVars, Running
  <1>3. CASE Begin
    BY <1>3 DEF Begin
  <1>4. CASE BeginFails
    BY <1>4 DEF BeginFails, sessionVars
  <1>5. CASE Write
    BY <1>5 DEF Write, sessionVars
  <1>6. CASE WriteFails
    BY <1>6 DEF WriteFails, Leave
  <1>7. CASE End
    BY <1>7 DEF End
  <1>8. CASE EndFails
    BY <1>8 DEF EndFails, Leave
  <1>9. CASE ReadSome
    BY <1>9 DEF ReadSome, Draining
  <1>10. CASE ReadNone
    BY <1>10 DEF ReadNone, sessionVars, Draining
  <1>11. CASE ReadFails
    BY <1>11 DEF ReadFails, Leave, Draining
  <1>12. CASE ReadOverreports
    BY <1>12 DEF ReadOverreports, Leave, Draining
  <1>13. CASE DestinationFull
    BY <1>13 DEF DestinationFull, sessionVars, Draining
  <1>14. CASE StartOver
    BY <1>14 DEF StartOver
  <1>15. CASE GiveUp
    BY <1>15 DEF GiveUp, Leave
  <1>16. CASE Return
    BY <1>16 DEF Return, Leave
  <1>19. CASE BufferThrows
    BY <1>19 DEF BufferThrows, sessionVars
  <1>20. CASE CopyThrows
    BY <1>20 DEF CopyThrows, Leave
  <1>17. CASE Stopped
    BY <1>17 DEF Stopped, vars, pumpVars, sessionVars
  <1>18. CASE UNCHANGED vars
    BY <1>18 DEF vars, pumpVars
  <1> QED
    BY <1>1, <1>2, <1>3, <1>4, <1>5, <1>6, <1>7, <1>8, <1>9, <1>10, <1>11, <1>12, <1>13, <1>14, <1>15, <1>16, <1>17, <1>18, <1>19, <1>20 DEF Next, Chain, Pump

-----------------------------------------------------------------------------
(* The theorems.                                                           *)

\* Types and phases hold throughout.
LEMMA Invariance == Spec => []IInv
  <1>1. Init => IInv
    BY InitFact
  <1>2. IInv /\ [Next]_vars => IInv'
    BY TypeStep, PhaseStep DEF IInv
  <1> QED
    BY <1>1, <1>2, PTL DEF Spec

\* The variables keep their types; no destination outgrows SIZE_MAX.
THEOREM TypeCorrectness == Spec => []TypeOK
  BY Invariance, PTL DEF IInv

\* A pump that returns normally delivered the whole output of one session.
THEOREM PumpsDeliverEverything == Spec => []WholeOutput
  <1>1. IInv => WholeOutput
    BY DEF IInv, PhaseInv, WholeOutput
  <1> QED
    BY <1>1, Invariance, PTL

\* The destination holds what the running session was read for, and no more
\* than it has room for.
THEOREM CursorStaysInBounds == Spec => []CursorFollowsSession
  <1>1. IInv => CursorFollowsSession
    BY DEF IInv, TypeOK, PhaseInv, CursorFollowsSession, Running
  <1> QED
    BY <1>1, Invariance, PTL

\* Sessions are freed before the next attempt and before the call ends.
THEOREM SessionsDoNotPileUp == Spec => []OneSessionAtATime
  <1>1. IInv => OneSessionAtATime
    BY DEF IInv, PhaseInv, OneSessionAtATime
  <1> QED
    BY <1>1, Invariance, PTL

\* The room invariant holds throughout.
LEMMA RoomInvariance == Spec => []RoomInv
  <1>1. Init => RoomInv
    BY InitFact
  <1>2. IInv /\ IInv' /\ RoomInv /\ [Next]_vars => RoomInv'
    BY RoomStep DEF IInv
  <1> QED
    BY <1>1, <1>2, Invariance, PTL DEF Spec

\* On a chain that holds a tail until end, std::invalid_argument means that the
\* buffer lacked the room needed and that no larger one could be tried.
THEOREM RejectionIsTrue == Spec => []RejectedOnlyIfTooSmall
  <1>1. TypeOK /\ RoomInv => RejectedOnlyIfTooSmall
    BY LengthsAssumption DEF TypeOK, RoomInv, RejectedOnlyIfTooSmall
  <1> QED
    BY <1>1, TypeCorrectness, RoomInvariance, PTL

\* On such a chain the exact size is enough, if its flag does not lag.
THEOREM ExactSizeIsEnough == Spec => []ExactSizeAccepted
  <1>1. TypeOK /\ RoomInv => ExactSizeAccepted
    BY LengthsAssumption DEF TypeOK, RoomInv, Needed, ExactSizeAccepted
  <1> QED
    BY <1>1, TypeCorrectness, RoomInvariance, PTL

\* On such a chain a buffer is doubled only for want of the room needed.
THEOREM GrowthIsNeeded == Spec => []GrownOnlyIfNeeded
  <1>1. RoomInv => GrownOnlyIfNeeded
    BY DEF RoomInv, GrownOnlyIfNeeded
  <1> QED
    BY <1>1, RoomInvariance, PTL

\* Over all its writes, reads and restarts, a pump is one call that delivers the
\* whole output or throws.
THEOREM PumpIsOneCall == Spec => DeliversWholeOrRefuses
  <1>1. Init => Call!Init
    BY DEF Init, Call!Init
  <1>2. IInv /\ IInv' /\ [Next]_vars => [Call!Next]_(Call!callVars)
    <2> SUFFICES ASSUME IInv, IInv', [Next]_vars PROVE [Call!Next]_(Call!callVars)
      OBVIOUS
    <2>1. CASE result' = result /\ (result = "ok" => used' = used)
      BY <2>1, OutcomeStep DEF Outcome, Call!callVars
    <2>2. CASE result = "none" /\ result' \in {"too_small", "failed"}
      BY <2>2, OutcomeStep DEF Outcome, Call!Next, Call!Refuse
    <2>3. CASE result = "none" /\ result' = "ok" /\ used' = out'
      BY <2>3, OutcomeStep DEF Outcome, Call!Next, Call!Deliver
    <2> QED
      BY <2>1, <2>2, <2>3, OutcomeStep DEF Outcome
  <1> QED
    BY <1>1, <1>2, Invariance, PTL DEF Spec, DeliversWholeOrRefuses, Call!Spec

=============================================================================
