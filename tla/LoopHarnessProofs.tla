------------------------- MODULE LoopHarnessProofs -------------------------
(***************************************************************************)
(* Theorems about LoopHarness, for any number of workers, any shape, any   *)
(* periods and any failures.                                               *)
(*                                                                         *)
(* The inductive invariant has four parts.  The lock's owners are the      *)
(* threads inside its critical sections; the Go side holds the handles the *)
(* pipes own, and the one a reopen has loaded; a cipher call is on the     *)
(* handle of its pipe and a wire was made under its masters.  The last two *)
(* survive maintenance because the first keeps it apart from round-trips.  *)
(* Four more invariants follow the run's phases: the barriers, the count   *)
(* of the warmup and of the budget, and the workers still active.          *)
(***************************************************************************)
EXTENDS LoopHarness, FiniteSetTheorems, TLAPS

-----------------------------------------------------------------------------
(* The inductive invariant.                                                *)

\* pipe_lock: its owners are the threads inside its critical sections, and a
\* writer excludes every reader.
LockInv ==
    /\ readers = {w \in Workers : pc[w] \in ReadLocs}
    /\ \A w \in Workers : writer = w <=> pc[w] \in WriteLocs
    /\ writer # None => readers = {}

\* What maintenance has in hand: drawn masters, a pipe left to swap.
MaintenanceInv ==
    \A w \in Workers :
        /\ pc[w] \in {"lock_rekey", "rekey"} /\ KeyedLayers => drawn[w] \in Keys
        /\ pc[w] = "swap" => todo[w] # {} /\ loaded[w] \in Handles

\* The open handles are the ones the pipes own and the one about to be swapped
\* in, no two of them the same.
HandleInv ==
    /\ \A p, q \in Pipes : p # q => handle[p] # handle[q]
    /\ \A p \in Pipes : \A w \in Workers : pc[w] = "swap" => loaded[w] # handle[p]
    /\ \A h \in Handles :
         keyOf[h] # None <=> \/ \E p \in Pipes : handle[p] = h
                             \/ \E w \in Workers : pc[w] = "swap" /\ loaded[w] = h

\* A cipher call in flight is on the handle of its pipe; a wire was made under
\* that handle's masters.
UseInv ==
    \A w \in Workers :
        /\ pc[w] \in {"encrypting", "decrypting"} => call[w] = handle[PipeOf(w)]
        /\ pc[w] \notin {"encrypting", "decrypting"} => call[w] = None
        /\ pc[w] \in {"decrypt", "decrypting"} => wire[w] = keyOf[handle[PipeOf(w)]]

IInv == TypeOK /\ LockInv /\ MaintenanceInv /\ HandleInv /\ UseInv

\* Until a worker fails, the retained blob of a pipe carries the masters of its
\* handle, and a handle about to be swapped in holds the masters of that blob.
BlobInv ==
    (\A w \in Workers : ~ failed[w]) =>
        /\ \A p \in Pipes : blob[p] = keyOf[handle[p]]
        /\ \A w \in Workers : pc[w] = "swap" => keyOf[loaded[w]] = blob[NextPipe(todo[w])]

\* Where the main thread is tells where the workers are: in their warmup before
\* the first barrier, between the barriers, or in their loops.
WarmupLocs == {"unborn", "refill", "lock_shared", "warmup_done"} \cup ReadLocs
PhaseInv ==
    /\ main = "spawn" <=> \E w \in Workers : pc[w] = "unborn"
    /\ main \in {"spawn", "warmup_done"} => \A w \in Workers : iter[w] = 0 /\ pc[w] \in WarmupLocs
    /\ main \in {"baseline", "release"} => \A w \in Workers : iter[w] = 0 /\ pc[w] = "release"
    /\ main \notin {"spawn", "warmup_done", "baseline", "release"} =>
         \A w \in Workers : iter[w] > 0 /\ pc[w] \notin {"unborn", "warmup_done", "release"}
    /\ main = "summary" => \A w \in Workers : pc[w] = "returned"

\* The warmup is counted once, when its bytes were compared.
WarmupInv ==
    \A w \in Workers :
        iter[w] = 0 => IF pc[w] \in {"unlock_shared", "warmup_done", "release"}
                       THEN iters[w] <= 1 /\ (failed[w] \/ iters[w] = 1)
                       ELSE iters[w] = 0

\* With a budget, a worker that did not fail has counted the iterations before
\* the one at hand, and that one from its comparison on; it starts none beyond the
\* budget, and leaves its loop early only when asked to stop.
CountedLocs == {"unlock_shared", "warmup_done", "release", "maintain", "draw", "lock_rekey",
                "rekey", "lock_reopen", "reopen", "swap"}
BudgetInv ==
    Iterations > 0 =>
        /\ stop => signal \/ \E w \in Workers : failed[w]
        /\ \A w \in Workers :
             ~ failed[w] =>
                 /\ iters[w] = iter[w] + (IF pc[w] \in CountedLocs THEN 1 ELSE 0)
                 /\ iter[w] <= Iterations
                 /\ pc[w] \notin {"loop", "done", "returned"} => iter[w] < Iterations
                 /\ pc[w] \in {"done", "returned"} => iter[w] = Iterations \/ stop
                 /\ pc[w] # "unlock_failed"
        /\ exit = "PASS" => main = "summary" /\ \A w \in Workers : ~ failed[w]

\* The workers counted as active are those that have not returned, and once none
\* is left the elapsed time carries the last one's stamp.
ActiveInv ==
    /\ active = Cardinality({w \in Workers : pc[w] # "returned"})
    /\ main \notin {"spawn", "warmup_done", "baseline", "release"} /\ active = 0 => stamped
    /\ main \in {"join", "summary"} => active = 0

-----------------------------------------------------------------------------
(* Facts about the operators.                                              *)

\* The pipes are among the two the program knows.
LEMMA PipesFact == Pipes \subseteq {"stream", "msg"}
  BY DEF Pipes

\* The surface of an iteration is a pipe that was built.
LEMMA SurfaceFact == \A i \in Nat : Surface(i) \in Pipes
  BY ShapeAssumption DEF Surface, Pipes, UsesStream, UsesMessage

\* Maintenance visits a pipe it has still to visit.
LEMMA NextPipeFact == \A S \in SUBSET Pipes : S # {} => NextPipe(S) \in S
  BY PipesFact DEF NextPipe

\* The counters stay numbers.
LEMMA CountersFact == \A n \in Nat : Bump(n) \in Nat /\ Count(n) \in Nat
  BY DEF Bump, Count

\* Every step keeps the types.
LEMMA TypeStep ==
  ASSUME IInv, [Next]_vars
  PROVE  TypeOK'
  <1> USE NoneAssumption DEF IInv, TypeOK, Locations, ReadLocs, WriteLocs, MainLocations, GoTo, WorkerFail,
      workerVars, pipeVars, lockVars, runVars
  <1>1. CASE UNCHANGED vars
    BY <1>1 DEF vars, workerVars, pipeVars, lockVars, runVars
  <1>2. ASSUME NEW w \in Workers, Refill(w) PROVE TypeOK'
    BY <1>2 DEF Refill
  <1>3. ASSUME NEW w \in Workers, RefillFails(w) PROVE TypeOK'
    BY <1>3 DEF RefillFails, AfterFailure
  <1>4. ASSUME NEW w \in Workers, LockShared(w) PROVE TypeOK'
    BY <1>4 DEF LockShared
  <1>5. ASSUME NEW w \in Workers, EncryptCall(w) PROVE TypeOK'
    BY <1>5, SurfaceFact DEF EncryptCall, StartCall, PipeOf
  <1>6. ASSUME NEW w \in Workers, EncryptReturns(w) PROVE TypeOK'
    BY <1>6, SurfaceFact DEF EncryptReturns, UseInv, PipeOf
  <1>7. ASSUME NEW w \in Workers, DecryptCall(w) PROVE TypeOK'
    BY <1>7, SurfaceFact DEF DecryptCall, StartCall, PipeOf
  <1>8. ASSUME NEW w \in Workers, DecryptReturns(w) PROVE TypeOK'
    BY <1>8 DEF DecryptReturns
  <1>9. ASSUME NEW w \in Workers, CipherFails(w) PROVE TypeOK'
    BY <1>9 DEF CipherFails
  <1>10. ASSUME NEW w \in Workers, Compare(w) PROVE TypeOK'
    BY <1>10, CountersFact DEF Compare
  <1>11. ASSUME NEW w \in Workers, DataMismatch(w) PROVE TypeOK'
    BY <1>11 DEF DataMismatch
  <1>12. ASSUME NEW w \in Workers, UnlockShared(w) PROVE TypeOK'
    BY <1>12 DEF UnlockShared, AfterFailure
  <1>13. ASSUME NEW w \in Workers, Maintain(w) PROVE TypeOK'
    BY <1>13, CountersFact DEF Maintain, NextIteration
  <1>14. ASSUME NEW w \in Workers, DrawMasters(w) PROVE TypeOK'
    BY <1>14 DEF DrawMasters, Least
  <1>15. ASSUME NEW w \in Workers, DrawFails(w) PROVE TypeOK'
    BY <1>15 DEF DrawFails
  <1>16. ASSUME NEW w \in Workers, LockRekey(w) PROVE TypeOK'
    BY <1>16 DEF LockRekey, LockExclusive
  <1>17. ASSUME NEW w \in Workers, RekeyPipe(w) PROVE TypeOK'
    BY <1>17, NextPipeFact DEF RekeyPipe, Rotated, MaintenanceInv, HandleInv
  <1>18. ASSUME NEW w \in Workers, RekeyFails(w) PROVE TypeOK'
    BY <1>18, NextPipeFact DEF RekeyFails, Rotated, MaintenanceInv, HandleInv
  <1>19. ASSUME NEW w \in Workers, UnlockRekey(w) PROVE TypeOK'
    BY <1>19, CountersFact DEF UnlockRekey, NextIteration
  <1>20. ASSUME NEW w \in Workers, LockReopen(w) PROVE TypeOK'
    BY <1>20 DEF LockReopen, LockExclusive
  <1>21. ASSUME NEW w \in Workers, LoadFresh(w) PROVE TypeOK'
    BY <1>21, NextPipeFact DEF LoadFresh, Least
  <1>22. ASSUME NEW w \in Workers, LoadFails(w) PROVE TypeOK'
    BY <1>22 DEF LoadFails
  <1>23. ASSUME NEW w \in Workers, SwapIn(w) PROVE TypeOK'
    BY <1>23, NextPipeFact DEF SwapIn, MaintenanceInv
  <1>24. ASSUME NEW w \in Workers, UnlockReopen(w) PROVE TypeOK'
    BY <1>24, CountersFact DEF UnlockReopen, NextIteration
  <1>25. ASSUME NEW w \in Workers, UnlockFailed(w) PROVE TypeOK'
    BY <1>25 DEF UnlockFailed
  <1>26. ASSUME NEW w \in Workers, LoopEnter(w) PROVE TypeOK'
    BY <1>26 DEF LoopEnter
  <1>27. ASSUME NEW w \in Workers, LoopLeave(w) PROVE TypeOK'
    BY <1>27 DEF LoopLeave
  <1>28. ASSUME NEW w \in Workers, WorkerDone(w) PROVE TypeOK'
    BY <1>28 DEF WorkerDone
  <1>29. ASSUME NEW w \in Workers, SpawnWorker(w) PROVE TypeOK'
    BY <1>29 DEF SpawnWorker
  <1>30. CASE WarmupBarrier
    BY <1>30 DEF WarmupBarrier
  <1>31. CASE TakeBaselines
    BY <1>31 DEF TakeBaselines
  <1>32. CASE ReleaseBarrier
    BY <1>32 DEF ReleaseBarrier
  <1>33. CASE TakeDoneMutex
    BY <1>33 DEF TakeDoneMutex
  <1>34. CASE Poll
    BY <1>34 DEF Poll
  <1>35. CASE PollEnds
    BY <1>35 DEF PollEnds
  <1>36. CASE Join
    BY <1>36 DEF Join
  <1>37. CASE FinalSummary
    BY <1>37 DEF FinalSummary
  <1>38. CASE OnSignal
    BY <1>38 DEF OnSignal
  <1>39. CASE DeadlinePasses
    BY <1>39 DEF DeadlinePasses
  <1> QED
    BY <1>1, <1>2, <1>3, <1>4, <1>5, <1>6, <1>7, <1>8, <1>9, <1>10, <1>11, <1>12, <1>13, <1>14, <1>15, <1>16, <1>17, <1>18, <1>19, <1>20, <1>21, <1>22, <1>23, <1>24, <1>25, <1>26, <1>27, <1>28, <1>29, <1>30, <1>31, <1>32, <1>33, <1>34, <1>35, <1>36, <1>37, <1>38, <1>39
    DEF Next, WorkerStep, Iterate, Maintenance, MainStep, Environment, Exited

\* Every step keeps the lock's owners where they belong.
LEMMA LockStep ==
  ASSUME IInv, [Next]_vars
  PROVE  LockInv'
  <1> USE NoneAssumption DEF IInv, TypeOK, LockInv, ReadLocs, WriteLocs, GoTo, WorkerFail, NextIteration,
      AfterFailure, workerVars, pipeVars, lockVars, runVars
  <1>1. CASE UNCHANGED vars
    BY <1>1 DEF vars, workerVars, pipeVars, lockVars, runVars
  <1>2. ASSUME NEW w \in Workers, Refill(w) PROVE LockInv'
    BY <1>2 DEF Refill
  <1>3. ASSUME NEW w \in Workers, RefillFails(w) PROVE LockInv'
    BY <1>3 DEF RefillFails
  <1>4. ASSUME NEW w \in Workers, LockShared(w) PROVE LockInv'
    BY <1>4 DEF LockShared
  <1>5. ASSUME NEW w \in Workers, EncryptCall(w) PROVE LockInv'
    BY <1>5 DEF EncryptCall, StartCall
  <1>6. ASSUME NEW w \in Workers, EncryptReturns(w) PROVE LockInv'
    BY <1>6 DEF EncryptReturns
  <1>7. ASSUME NEW w \in Workers, DecryptCall(w) PROVE LockInv'
    BY <1>7 DEF DecryptCall, StartCall
  <1>8. ASSUME NEW w \in Workers, DecryptReturns(w) PROVE LockInv'
    BY <1>8 DEF DecryptReturns
  <1>9. ASSUME NEW w \in Workers, CipherFails(w) PROVE LockInv'
    BY <1>9 DEF CipherFails
  <1>10. ASSUME NEW w \in Workers, Compare(w) PROVE LockInv'
    BY <1>10 DEF Compare
  <1>11. ASSUME NEW w \in Workers, DataMismatch(w) PROVE LockInv'
    BY <1>11 DEF DataMismatch
  <1>12. ASSUME NEW w \in Workers, UnlockShared(w) PROVE LockInv'
    BY <1>12 DEF UnlockShared
  <1>13. ASSUME NEW w \in Workers, Maintain(w) PROVE LockInv'
    BY <1>13 DEF Maintain
  <1>14. ASSUME NEW w \in Workers, DrawMasters(w) PROVE LockInv'
    BY <1>14 DEF DrawMasters
  <1>15. ASSUME NEW w \in Workers, DrawFails(w) PROVE LockInv'
    BY <1>15 DEF DrawFails
  <1>16. ASSUME NEW w \in Workers, LockRekey(w) PROVE LockInv'
    BY <1>16 DEF LockRekey, LockExclusive
  <1>17. ASSUME NEW w \in Workers, RekeyPipe(w) PROVE LockInv'
    BY <1>17 DEF RekeyPipe
  <1>18. ASSUME NEW w \in Workers, RekeyFails(w) PROVE LockInv'
    BY <1>18 DEF RekeyFails
  <1>19. ASSUME NEW w \in Workers, UnlockRekey(w) PROVE LockInv'
    BY <1>19 DEF UnlockRekey
  <1>20. ASSUME NEW w \in Workers, LockReopen(w) PROVE LockInv'
    BY <1>20 DEF LockReopen, LockExclusive
  <1>21. ASSUME NEW w \in Workers, LoadFresh(w) PROVE LockInv'
    BY <1>21 DEF LoadFresh
  <1>22. ASSUME NEW w \in Workers, LoadFails(w) PROVE LockInv'
    BY <1>22 DEF LoadFails
  <1>23. ASSUME NEW w \in Workers, SwapIn(w) PROVE LockInv'
    BY <1>23 DEF SwapIn
  <1>24. ASSUME NEW w \in Workers, UnlockReopen(w) PROVE LockInv'
    BY <1>24 DEF UnlockReopen
  <1>25. ASSUME NEW w \in Workers, UnlockFailed(w) PROVE LockInv'
    BY <1>25 DEF UnlockFailed
  <1>26. ASSUME NEW w \in Workers, LoopEnter(w) PROVE LockInv'
    BY <1>26 DEF LoopEnter
  <1>27. ASSUME NEW w \in Workers, LoopLeave(w) PROVE LockInv'
    BY <1>27 DEF LoopLeave
  <1>28. ASSUME NEW w \in Workers, WorkerDone(w) PROVE LockInv'
    BY <1>28 DEF WorkerDone
  <1>29. ASSUME NEW w \in Workers, SpawnWorker(w) PROVE LockInv'
    BY <1>29 DEF SpawnWorker
  <1>30. CASE WarmupBarrier
    BY <1>30 DEF WarmupBarrier
  <1>31. CASE TakeBaselines
    BY <1>31 DEF TakeBaselines
  <1>32. CASE ReleaseBarrier
    BY <1>32 DEF ReleaseBarrier
  <1>33. CASE TakeDoneMutex
    BY <1>33 DEF TakeDoneMutex
  <1>34. CASE Poll
    BY <1>34 DEF Poll
  <1>35. CASE PollEnds
    BY <1>35 DEF PollEnds
  <1>36. CASE Join
    BY <1>36 DEF Join
  <1>37. CASE FinalSummary
    BY <1>37 DEF FinalSummary
  <1>38. CASE OnSignal
    BY <1>38 DEF OnSignal
  <1>39. CASE DeadlinePasses
    BY <1>39 DEF DeadlinePasses
  <1> QED
    BY <1>1, <1>2, <1>3, <1>4, <1>5, <1>6, <1>7, <1>8, <1>9, <1>10, <1>11, <1>12, <1>13, <1>14, <1>15, <1>16, <1>17, <1>18, <1>19, <1>20, <1>21, <1>22, <1>23, <1>24, <1>25, <1>26, <1>27, <1>28, <1>29, <1>30, <1>31, <1>32, <1>33, <1>34, <1>35, <1>36, <1>37, <1>38, <1>39
    DEF Next, WorkerStep, Iterate, Maintenance, MainStep, Environment, Exited

\* Every step keeps what maintenance has in hand.
LEMMA MaintenanceStep ==
  ASSUME IInv, [Next]_vars
  PROVE  MaintenanceInv'
  <1> USE NoneAssumption DEF IInv, TypeOK, MaintenanceInv, GoTo, WorkerFail, NextIteration,
      AfterFailure, workerVars, pipeVars, lockVars, runVars
  <1>1. CASE UNCHANGED vars
    BY <1>1 DEF vars, workerVars, pipeVars, lockVars, runVars
  <1>2. ASSUME NEW w \in Workers, Refill(w) PROVE MaintenanceInv'
    BY <1>2 DEF Refill
  <1>3. ASSUME NEW w \in Workers, RefillFails(w) PROVE MaintenanceInv'
    BY <1>3 DEF RefillFails
  <1>4. ASSUME NEW w \in Workers, LockShared(w) PROVE MaintenanceInv'
    BY <1>4 DEF LockShared
  <1>5. ASSUME NEW w \in Workers, EncryptCall(w) PROVE MaintenanceInv'
    BY <1>5 DEF EncryptCall, StartCall
  <1>6. ASSUME NEW w \in Workers, EncryptReturns(w) PROVE MaintenanceInv'
    BY <1>6 DEF EncryptReturns
  <1>7. ASSUME NEW w \in Workers, DecryptCall(w) PROVE MaintenanceInv'
    BY <1>7 DEF DecryptCall, StartCall
  <1>8. ASSUME NEW w \in Workers, DecryptReturns(w) PROVE MaintenanceInv'
    BY <1>8 DEF DecryptReturns
  <1>9. ASSUME NEW w \in Workers, CipherFails(w) PROVE MaintenanceInv'
    BY <1>9 DEF CipherFails
  <1>10. ASSUME NEW w \in Workers, Compare(w) PROVE MaintenanceInv'
    BY <1>10 DEF Compare
  <1>11. ASSUME NEW w \in Workers, DataMismatch(w) PROVE MaintenanceInv'
    BY <1>11 DEF DataMismatch
  <1>12. ASSUME NEW w \in Workers, UnlockShared(w) PROVE MaintenanceInv'
    BY <1>12 DEF UnlockShared
  <1>13. ASSUME NEW w \in Workers, Maintain(w) PROVE MaintenanceInv'
    BY <1>13 DEF Maintain
  <1>14. ASSUME NEW w \in Workers, DrawMasters(w) PROVE MaintenanceInv'
    BY <1>14 DEF DrawMasters, Least
  <1>15. ASSUME NEW w \in Workers, DrawFails(w) PROVE MaintenanceInv'
    BY <1>15 DEF DrawFails
  <1>16. ASSUME NEW w \in Workers, LockRekey(w) PROVE MaintenanceInv'
    BY <1>16 DEF LockRekey, LockExclusive
  <1>17. ASSUME NEW w \in Workers, RekeyPipe(w) PROVE MaintenanceInv'
    BY <1>17 DEF RekeyPipe
  <1>18. ASSUME NEW w \in Workers, RekeyFails(w) PROVE MaintenanceInv'
    BY <1>18 DEF RekeyFails
  <1>19. ASSUME NEW w \in Workers, UnlockRekey(w) PROVE MaintenanceInv'
    BY <1>19 DEF UnlockRekey
  <1>20. ASSUME NEW w \in Workers, LockReopen(w) PROVE MaintenanceInv'
    BY <1>20 DEF LockReopen, LockExclusive
  <1>21. ASSUME NEW w \in Workers, LoadFresh(w) PROVE MaintenanceInv'
    BY <1>21 DEF LoadFresh, Least
  <1>22. ASSUME NEW w \in Workers, LoadFails(w) PROVE MaintenanceInv'
    BY <1>22 DEF LoadFails
  <1>23. ASSUME NEW w \in Workers, SwapIn(w) PROVE MaintenanceInv'
    BY <1>23 DEF SwapIn
  <1>24. ASSUME NEW w \in Workers, UnlockReopen(w) PROVE MaintenanceInv'
    BY <1>24 DEF UnlockReopen
  <1>25. ASSUME NEW w \in Workers, UnlockFailed(w) PROVE MaintenanceInv'
    BY <1>25 DEF UnlockFailed
  <1>26. ASSUME NEW w \in Workers, LoopEnter(w) PROVE MaintenanceInv'
    BY <1>26 DEF LoopEnter
  <1>27. ASSUME NEW w \in Workers, LoopLeave(w) PROVE MaintenanceInv'
    BY <1>27 DEF LoopLeave
  <1>28. ASSUME NEW w \in Workers, WorkerDone(w) PROVE MaintenanceInv'
    BY <1>28 DEF WorkerDone
  <1>29. ASSUME NEW w \in Workers, SpawnWorker(w) PROVE MaintenanceInv'
    BY <1>29 DEF SpawnWorker
  <1>30. CASE WarmupBarrier
    BY <1>30 DEF WarmupBarrier
  <1>31. CASE TakeBaselines
    BY <1>31 DEF TakeBaselines
  <1>32. CASE ReleaseBarrier
    BY <1>32 DEF ReleaseBarrier
  <1>33. CASE TakeDoneMutex
    BY <1>33 DEF TakeDoneMutex
  <1>34. CASE Poll
    BY <1>34 DEF Poll
  <1>35. CASE PollEnds
    BY <1>35 DEF PollEnds
  <1>36. CASE Join
    BY <1>36 DEF Join
  <1>37. CASE FinalSummary
    BY <1>37 DEF FinalSummary
  <1>38. CASE OnSignal
    BY <1>38 DEF OnSignal
  <1>39. CASE DeadlinePasses
    BY <1>39 DEF DeadlinePasses
  <1> QED
    BY <1>1, <1>2, <1>3, <1>4, <1>5, <1>6, <1>7, <1>8, <1>9, <1>10, <1>11, <1>12, <1>13, <1>14, <1>15, <1>16, <1>17, <1>18, <1>19, <1>20, <1>21, <1>22, <1>23, <1>24, <1>25, <1>26, <1>27, <1>28, <1>29, <1>30, <1>31, <1>32, <1>33, <1>34, <1>35, <1>36, <1>37, <1>38, <1>39
    DEF Next, WorkerStep, Iterate, Maintenance, MainStep, Environment, Exited

\* Every step keeps the Go side and the pipes in agreement about open handles.
LEMMA HandleStep ==
  ASSUME IInv, [Next]_vars
  PROVE  HandleInv'
  <1> USE NoneAssumption DEF IInv, TypeOK, HandleInv, GoTo, WorkerFail, NextIteration,
      AfterFailure, workerVars, pipeVars, lockVars, runVars
  <1>1. CASE UNCHANGED vars
    BY <1>1 DEF vars, workerVars, pipeVars, lockVars, runVars
  <1>2. ASSUME NEW w \in Workers, Refill(w) PROVE HandleInv'
    BY <1>2 DEF Refill
  <1>3. ASSUME NEW w \in Workers, RefillFails(w) PROVE HandleInv'
    BY <1>3 DEF RefillFails
  <1>4. ASSUME NEW w \in Workers, LockShared(w) PROVE HandleInv'
    BY <1>4 DEF LockShared
  <1>5. ASSUME NEW w \in Workers, EncryptCall(w) PROVE HandleInv'
    BY <1>5 DEF EncryptCall, StartCall
  <1>6. ASSUME NEW w \in Workers, EncryptReturns(w) PROVE HandleInv'
    BY <1>6 DEF EncryptReturns
  <1>7. ASSUME NEW w \in Workers, DecryptCall(w) PROVE HandleInv'
    BY <1>7 DEF DecryptCall, StartCall
  <1>8. ASSUME NEW w \in Workers, DecryptReturns(w) PROVE HandleInv'
    BY <1>8 DEF DecryptReturns
  <1>9. ASSUME NEW w \in Workers, CipherFails(w) PROVE HandleInv'
    BY <1>9 DEF CipherFails
  <1>10. ASSUME NEW w \in Workers, Compare(w) PROVE HandleInv'
    BY <1>10 DEF Compare
  <1>11. ASSUME NEW w \in Workers, DataMismatch(w) PROVE HandleInv'
    BY <1>11 DEF DataMismatch
  <1>12. ASSUME NEW w \in Workers, UnlockShared(w) PROVE HandleInv'
    BY <1>12 DEF UnlockShared
  <1>13. ASSUME NEW w \in Workers, Maintain(w) PROVE HandleInv'
    BY <1>13 DEF Maintain
  <1>14. ASSUME NEW w \in Workers, DrawMasters(w) PROVE HandleInv'
    BY <1>14 DEF DrawMasters
  <1>15. ASSUME NEW w \in Workers, DrawFails(w) PROVE HandleInv'
    BY <1>15 DEF DrawFails
  <1>16. ASSUME NEW w \in Workers, LockRekey(w) PROVE HandleInv'
    BY <1>16 DEF LockRekey, LockExclusive
  <1>17. ASSUME NEW w \in Workers, RekeyPipe(w) PROVE HandleInv'
    <2> DEFINE p == NextPipe(todo[w])
    <2>1. p \in Pipes /\ keyOf[handle[p]] # None
      BY <1>17, NextPipeFact DEF RekeyPipe
    <2>2. Rotated(w, p) # None
      BY <1>17, <2>1, NamesAssumption DEF RekeyPipe, Rotated, MaintenanceInv
    <2>3. /\ keyOf' = [keyOf EXCEPT ![handle[p]] = Rotated(w, p)]
          /\ UNCHANGED <<pc, loaded, handle>>
      BY <1>17 DEF RekeyPipe
    <2> QED
      BY <2>1, <2>2, <2>3
  <1>18. ASSUME NEW w \in Workers, RekeyFails(w) PROVE HandleInv'
    BY <1>18, NextPipeFact, NamesAssumption DEF RekeyFails, Rotated, MaintenanceInv
  <1>19. ASSUME NEW w \in Workers, UnlockRekey(w) PROVE HandleInv'
    BY <1>19 DEF UnlockRekey
  <1>20. ASSUME NEW w \in Workers, LockReopen(w) PROVE HandleInv'
    BY <1>20 DEF LockReopen, LockExclusive
  <1>21. ASSUME NEW w \in Workers, LoadFresh(w) PROVE HandleInv'
    <2>1. PICK h \in Handles : /\ keyOf[h] = None
                               /\ keyOf' = [keyOf EXCEPT ![h] = blob[NextPipe(todo[w])]]
                               /\ loaded' = [loaded EXCEPT ![w] = h]
      BY <1>21 DEF LoadFresh, Least, HandlesInUse
    <2>2. handle' = handle /\ pc' = [pc EXCEPT ![w] = "swap"]
      BY <1>21 DEF LoadFresh
    <2>3. \A v \in Workers : pc[v] # "swap"
      <3>1. pc[w] = "reopen" /\ writer = w
        BY <1>21 DEF LoadFresh, LockInv, WriteLocs
      <3> QED
        BY <3>1 DEF LockInv, WriteLocs
    <2>4. blob[NextPipe(todo[w])] # None
      <3>1. NextPipe(todo[w]) \in Pipes
        BY <1>21, NextPipeFact DEF LoadFresh
      <3> QED
        BY <3>1, NamesAssumption
    <2>5. \A p \in Pipes : handle[p] # h
      BY <2>1 DEF HandleInv
    <2>6. \A g \in Handles : keyOf'[g] # None <=> keyOf[g] # None \/ g = h
      BY <2>1, <2>4
    <2>7. \A v \in Workers : pc'[v] = "swap" <=> v = w
      BY <2>2, <2>3
    <2>8. \A g \in Handles : keyOf'[g] # None <=> (\E p \in Pipes : handle'[p] = g) \/ g = h
      BY <2>2, <2>3, <2>6
    <2>9. loaded'[w] = h
      BY <2>1
    <2> QED
      BY <2>2, <2>5, <2>7, <2>8, <2>9
  <1>22. ASSUME NEW w \in Workers, LoadFails(w) PROVE HandleInv'
    BY <1>22 DEF LoadFails
  <1>23. ASSUME NEW w \in Workers, SwapIn(w) PROVE HandleInv'
    BY <1>23, NextPipeFact DEF SwapIn, MaintenanceInv, LockInv, WriteLocs
  <1>24. ASSUME NEW w \in Workers, UnlockReopen(w) PROVE HandleInv'
    BY <1>24 DEF UnlockReopen
  <1>25. ASSUME NEW w \in Workers, UnlockFailed(w) PROVE HandleInv'
    BY <1>25 DEF UnlockFailed
  <1>26. ASSUME NEW w \in Workers, LoopEnter(w) PROVE HandleInv'
    BY <1>26 DEF LoopEnter
  <1>27. ASSUME NEW w \in Workers, LoopLeave(w) PROVE HandleInv'
    BY <1>27 DEF LoopLeave
  <1>28. ASSUME NEW w \in Workers, WorkerDone(w) PROVE HandleInv'
    BY <1>28 DEF WorkerDone
  <1>29. ASSUME NEW w \in Workers, SpawnWorker(w) PROVE HandleInv'
    BY <1>29 DEF SpawnWorker
  <1>30. CASE WarmupBarrier
    BY <1>30 DEF WarmupBarrier
  <1>31. CASE TakeBaselines
    BY <1>31 DEF TakeBaselines
  <1>32. CASE ReleaseBarrier
    BY <1>32 DEF ReleaseBarrier
  <1>33. CASE TakeDoneMutex
    BY <1>33 DEF TakeDoneMutex
  <1>34. CASE Poll
    BY <1>34 DEF Poll
  <1>35. CASE PollEnds
    BY <1>35 DEF PollEnds
  <1>36. CASE Join
    BY <1>36 DEF Join
  <1>37. CASE FinalSummary
    BY <1>37 DEF FinalSummary
  <1>38. CASE OnSignal
    BY <1>38 DEF OnSignal
  <1>39. CASE DeadlinePasses
    BY <1>39 DEF DeadlinePasses
  <1> QED
    BY <1>1, <1>2, <1>3, <1>4, <1>5, <1>6, <1>7, <1>8, <1>9, <1>10, <1>11, <1>12, <1>13, <1>14, <1>15, <1>16, <1>17, <1>18, <1>19, <1>20, <1>21, <1>22, <1>23, <1>24, <1>25, <1>26, <1>27, <1>28, <1>29, <1>30, <1>31, <1>32, <1>33, <1>34, <1>35, <1>36, <1>37, <1>38, <1>39
    DEF Next, WorkerStep, Iterate, Maintenance, MainStep, Environment, Exited

\* Every step keeps the calls and wires of round-trips on the handles and masters in force.
LEMMA UseStep ==
  ASSUME IInv, [Next]_vars
  PROVE  UseInv'
  <1> USE NoneAssumption DEF IInv, TypeOK, UseInv, PipeOf, GoTo, WorkerFail, NextIteration,
      AfterFailure, workerVars, pipeVars, lockVars, runVars
  <1>1. CASE UNCHANGED vars
    BY <1>1 DEF vars, workerVars, pipeVars, lockVars, runVars
  <1>2. ASSUME NEW w \in Workers, Refill(w) PROVE UseInv'
    BY <1>2 DEF Refill
  <1>3. ASSUME NEW w \in Workers, RefillFails(w) PROVE UseInv'
    BY <1>3 DEF RefillFails
  <1>4. ASSUME NEW w \in Workers, LockShared(w) PROVE UseInv'
    BY <1>4 DEF LockShared
  <1>5. ASSUME NEW w \in Workers, EncryptCall(w) PROVE UseInv'
    BY <1>5, SurfaceFact DEF EncryptCall, StartCall
  <1>6. ASSUME NEW w \in Workers, EncryptReturns(w) PROVE UseInv'
    BY <1>6, SurfaceFact DEF EncryptReturns
  <1>7. ASSUME NEW w \in Workers, DecryptCall(w) PROVE UseInv'
    BY <1>7, SurfaceFact DEF DecryptCall, StartCall
  <1>8. ASSUME NEW w \in Workers, DecryptReturns(w) PROVE UseInv'
    BY <1>8 DEF DecryptReturns
  <1>9. ASSUME NEW w \in Workers, CipherFails(w) PROVE UseInv'
    BY <1>9 DEF CipherFails
  <1>10. ASSUME NEW w \in Workers, Compare(w) PROVE UseInv'
    BY <1>10 DEF Compare
  <1>11. ASSUME NEW w \in Workers, DataMismatch(w) PROVE UseInv'
    BY <1>11 DEF DataMismatch
  <1>12. ASSUME NEW w \in Workers, UnlockShared(w) PROVE UseInv'
    BY <1>12 DEF UnlockShared
  <1>13. ASSUME NEW w \in Workers, Maintain(w) PROVE UseInv'
    BY <1>13 DEF Maintain
  <1>14. ASSUME NEW w \in Workers, DrawMasters(w) PROVE UseInv'
    BY <1>14 DEF DrawMasters
  <1>15. ASSUME NEW w \in Workers, DrawFails(w) PROVE UseInv'
    BY <1>15 DEF DrawFails
  <1>16. ASSUME NEW w \in Workers, LockRekey(w) PROVE UseInv'
    BY <1>16 DEF LockRekey, LockExclusive
  <1>17. ASSUME NEW w \in Workers, RekeyPipe(w) PROVE UseInv'
    BY <1>17 DEF RekeyPipe, LockInv, ReadLocs, WriteLocs
  <1>18. ASSUME NEW w \in Workers, RekeyFails(w) PROVE UseInv'
    BY <1>18 DEF RekeyFails, LockInv, ReadLocs, WriteLocs
  <1>19. ASSUME NEW w \in Workers, UnlockRekey(w) PROVE UseInv'
    BY <1>19 DEF UnlockRekey
  <1>20. ASSUME NEW w \in Workers, LockReopen(w) PROVE UseInv'
    BY <1>20 DEF LockReopen, LockExclusive
  <1>21. ASSUME NEW w \in Workers, LoadFresh(w) PROVE UseInv'
    BY <1>21, SurfaceFact DEF LoadFresh, LockInv, ReadLocs, WriteLocs
  <1>22. ASSUME NEW w \in Workers, LoadFails(w) PROVE UseInv'
    BY <1>22 DEF LoadFails
  <1>23. ASSUME NEW w \in Workers, SwapIn(w) PROVE UseInv'
    BY <1>23 DEF SwapIn, LockInv, ReadLocs, WriteLocs
  <1>24. ASSUME NEW w \in Workers, UnlockReopen(w) PROVE UseInv'
    BY <1>24 DEF UnlockReopen
  <1>25. ASSUME NEW w \in Workers, UnlockFailed(w) PROVE UseInv'
    BY <1>25 DEF UnlockFailed
  <1>26. ASSUME NEW w \in Workers, LoopEnter(w) PROVE UseInv'
    BY <1>26 DEF LoopEnter
  <1>27. ASSUME NEW w \in Workers, LoopLeave(w) PROVE UseInv'
    BY <1>27 DEF LoopLeave
  <1>28. ASSUME NEW w \in Workers, WorkerDone(w) PROVE UseInv'
    BY <1>28 DEF WorkerDone
  <1>29. ASSUME NEW w \in Workers, SpawnWorker(w) PROVE UseInv'
    BY <1>29 DEF SpawnWorker
  <1>30. CASE WarmupBarrier
    BY <1>30 DEF WarmupBarrier
  <1>31. CASE TakeBaselines
    BY <1>31 DEF TakeBaselines
  <1>32. CASE ReleaseBarrier
    BY <1>32 DEF ReleaseBarrier
  <1>33. CASE TakeDoneMutex
    BY <1>33 DEF TakeDoneMutex
  <1>34. CASE Poll
    BY <1>34 DEF Poll
  <1>35. CASE PollEnds
    BY <1>35 DEF PollEnds
  <1>36. CASE Join
    BY <1>36 DEF Join
  <1>37. CASE FinalSummary
    BY <1>37 DEF FinalSummary
  <1>38. CASE OnSignal
    BY <1>38 DEF OnSignal
  <1>39. CASE DeadlinePasses
    BY <1>39 DEF DeadlinePasses
  <1> QED
    BY <1>1, <1>2, <1>3, <1>4, <1>5, <1>6, <1>7, <1>8, <1>9, <1>10, <1>11, <1>12, <1>13, <1>14, <1>15, <1>16, <1>17, <1>18, <1>19, <1>20, <1>21, <1>22, <1>23, <1>24, <1>25, <1>26, <1>27, <1>28, <1>29, <1>30, <1>31, <1>32, <1>33, <1>34, <1>35, <1>36, <1>37, <1>38, <1>39
    DEF Next, WorkerStep, Iterate, Maintenance, MainStep, Environment, Exited

\* Every step keeps the blobs in step with the masters, or records a failure.
LEMMA BlobStep ==
  ASSUME IInv, BlobInv, [Next]_vars
  PROVE  BlobInv'
  <1> USE NoneAssumption DEF IInv, TypeOK, BlobInv, GoTo, WorkerFail, NextIteration,
      AfterFailure, workerVars, pipeVars, lockVars, runVars
  <1>1. CASE UNCHANGED vars
    BY <1>1 DEF vars, workerVars, pipeVars, lockVars, runVars
  <1>2. ASSUME NEW w \in Workers, Refill(w) PROVE BlobInv'
    BY <1>2 DEF Refill
  <1>3. ASSUME NEW w \in Workers, RefillFails(w) PROVE BlobInv'
    BY <1>3 DEF RefillFails
  <1>4. ASSUME NEW w \in Workers, LockShared(w) PROVE BlobInv'
    BY <1>4 DEF LockShared
  <1>5. ASSUME NEW w \in Workers, EncryptCall(w) PROVE BlobInv'
    BY <1>5 DEF EncryptCall, StartCall
  <1>6. ASSUME NEW w \in Workers, EncryptReturns(w) PROVE BlobInv'
    BY <1>6 DEF EncryptReturns
  <1>7. ASSUME NEW w \in Workers, DecryptCall(w) PROVE BlobInv'
    BY <1>7 DEF DecryptCall, StartCall
  <1>8. ASSUME NEW w \in Workers, DecryptReturns(w) PROVE BlobInv'
    BY <1>8 DEF DecryptReturns
  <1>9. ASSUME NEW w \in Workers, CipherFails(w) PROVE BlobInv'
    BY <1>9 DEF CipherFails
  <1>10. ASSUME NEW w \in Workers, Compare(w) PROVE BlobInv'
    BY <1>10 DEF Compare
  <1>11. ASSUME NEW w \in Workers, DataMismatch(w) PROVE BlobInv'
    BY <1>11 DEF DataMismatch
  <1>12. ASSUME NEW w \in Workers, UnlockShared(w) PROVE BlobInv'
    BY <1>12 DEF UnlockShared
  <1>13. ASSUME NEW w \in Workers, Maintain(w) PROVE BlobInv'
    BY <1>13 DEF Maintain
  <1>14. ASSUME NEW w \in Workers, DrawMasters(w) PROVE BlobInv'
    BY <1>14 DEF DrawMasters
  <1>15. ASSUME NEW w \in Workers, DrawFails(w) PROVE BlobInv'
    BY <1>15 DEF DrawFails
  <1>16. ASSUME NEW w \in Workers, LockRekey(w) PROVE BlobInv'
    BY <1>16 DEF LockRekey, LockExclusive
  <1>17. ASSUME NEW w \in Workers, RekeyPipe(w) PROVE BlobInv'
    BY <1>17, NextPipeFact DEF RekeyPipe, LockInv, WriteLocs, HandleInv
  <1>18. ASSUME NEW w \in Workers, RekeyFails(w) PROVE BlobInv'
    BY <1>18 DEF RekeyFails
  <1>19. ASSUME NEW w \in Workers, UnlockRekey(w) PROVE BlobInv'
    BY <1>19 DEF UnlockRekey
  <1>20. ASSUME NEW w \in Workers, LockReopen(w) PROVE BlobInv'
    BY <1>20 DEF LockReopen, LockExclusive
  <1>21. ASSUME NEW w \in Workers, LoadFresh(w) PROVE BlobInv'
    BY <1>21, NextPipeFact DEF LoadFresh, Least, HandlesInUse, LockInv, WriteLocs, HandleInv
  <1>22. ASSUME NEW w \in Workers, LoadFails(w) PROVE BlobInv'
    BY <1>22 DEF LoadFails
  <1>23. ASSUME NEW w \in Workers, SwapIn(w) PROVE BlobInv'
    BY <1>23, NextPipeFact DEF SwapIn, MaintenanceInv, LockInv, WriteLocs, HandleInv
  <1>24. ASSUME NEW w \in Workers, UnlockReopen(w) PROVE BlobInv'
    BY <1>24 DEF UnlockReopen
  <1>25. ASSUME NEW w \in Workers, UnlockFailed(w) PROVE BlobInv'
    BY <1>25 DEF UnlockFailed
  <1>26. ASSUME NEW w \in Workers, LoopEnter(w) PROVE BlobInv'
    BY <1>26 DEF LoopEnter
  <1>27. ASSUME NEW w \in Workers, LoopLeave(w) PROVE BlobInv'
    BY <1>27 DEF LoopLeave
  <1>28. ASSUME NEW w \in Workers, WorkerDone(w) PROVE BlobInv'
    BY <1>28 DEF WorkerDone
  <1>29. ASSUME NEW w \in Workers, SpawnWorker(w) PROVE BlobInv'
    BY <1>29 DEF SpawnWorker
  <1>30. CASE WarmupBarrier
    BY <1>30 DEF WarmupBarrier
  <1>31. CASE TakeBaselines
    BY <1>31 DEF TakeBaselines
  <1>32. CASE ReleaseBarrier
    BY <1>32 DEF ReleaseBarrier
  <1>33. CASE TakeDoneMutex
    BY <1>33 DEF TakeDoneMutex
  <1>34. CASE Poll
    BY <1>34 DEF Poll
  <1>35. CASE PollEnds
    BY <1>35 DEF PollEnds
  <1>36. CASE Join
    BY <1>36 DEF Join
  <1>37. CASE FinalSummary
    BY <1>37 DEF FinalSummary
  <1>38. CASE OnSignal
    BY <1>38 DEF OnSignal
  <1>39. CASE DeadlinePasses
    BY <1>39 DEF DeadlinePasses
  <1> QED
    BY <1>1, <1>2, <1>3, <1>4, <1>5, <1>6, <1>7, <1>8, <1>9, <1>10, <1>11, <1>12, <1>13, <1>14, <1>15, <1>16, <1>17, <1>18, <1>19, <1>20, <1>21, <1>22, <1>23, <1>24, <1>25, <1>26, <1>27, <1>28, <1>29, <1>30, <1>31, <1>32, <1>33, <1>34, <1>35, <1>36, <1>37, <1>38, <1>39
    DEF Next, WorkerStep, Iterate, Maintenance, MainStep, Environment, Exited

\* The counter never goes back to the warmup; with a budget it counts.
LEMMA BumpFact ==
  \A i \in Nat : /\ Bump(i) \in Nat /\ Bump(i) > 0
                 /\ Iterations > 0 => Bump(i) = i + 1 /\ Count(i) = i + 1
                 /\ Count(0) = 1
  BY CountsAssumption DEF Bump, Count

\* Every step keeps the workers in the phase that main is in.
LEMMA PhaseStep ==
  ASSUME TypeOK, PhaseInv, [Next]_vars
  PROVE  PhaseInv'
  <1> USE WorkersAssumption DEF TypeOK, GoTo, WorkerFail, NextIteration,
      AfterFailure, workerVars, pipeVars, lockVars, runVars, PhaseInv, WarmupLocs, ReadLocs
  <1>1. CASE UNCHANGED vars
    BY <1>1 DEF vars, workerVars, pipeVars, lockVars, runVars
  <1>2. ASSUME NEW w \in Workers, Refill(w) PROVE PhaseInv'
    BY <1>2 DEF Refill
  <1>3. ASSUME NEW w \in Workers, RefillFails(w) PROVE PhaseInv'
    BY <1>3 DEF RefillFails
  <1>4. ASSUME NEW w \in Workers, LockShared(w) PROVE PhaseInv'
    BY <1>4 DEF LockShared
  <1>5. ASSUME NEW w \in Workers, EncryptCall(w) PROVE PhaseInv'
    BY <1>5 DEF EncryptCall, StartCall
  <1>6. ASSUME NEW w \in Workers, EncryptReturns(w) PROVE PhaseInv'
    BY <1>6 DEF EncryptReturns
  <1>7. ASSUME NEW w \in Workers, DecryptCall(w) PROVE PhaseInv'
    BY <1>7 DEF DecryptCall, StartCall
  <1>8. ASSUME NEW w \in Workers, DecryptReturns(w) PROVE PhaseInv'
    BY <1>8 DEF DecryptReturns
  <1>9. ASSUME NEW w \in Workers, CipherFails(w) PROVE PhaseInv'
    BY <1>9 DEF CipherFails
  <1>10. ASSUME NEW w \in Workers, Compare(w) PROVE PhaseInv'
    BY <1>10 DEF Compare
  <1>11. ASSUME NEW w \in Workers, DataMismatch(w) PROVE PhaseInv'
    BY <1>11 DEF DataMismatch
  <1>12. ASSUME NEW w \in Workers, UnlockShared(w) PROVE PhaseInv'
    BY <1>12 DEF UnlockShared, AfterFailure
  <1>13. ASSUME NEW w \in Workers, Maintain(w) PROVE PhaseInv'
    BY <1>13, BumpFact DEF Maintain
  <1>14. ASSUME NEW w \in Workers, DrawMasters(w) PROVE PhaseInv'
    BY <1>14 DEF DrawMasters
  <1>15. ASSUME NEW w \in Workers, DrawFails(w) PROVE PhaseInv'
    BY <1>15 DEF DrawFails
  <1>16. ASSUME NEW w \in Workers, LockRekey(w) PROVE PhaseInv'
    BY <1>16 DEF LockRekey, LockExclusive
  <1>17. ASSUME NEW w \in Workers, RekeyPipe(w) PROVE PhaseInv'
    BY <1>17 DEF RekeyPipe
  <1>18. ASSUME NEW w \in Workers, RekeyFails(w) PROVE PhaseInv'
    BY <1>18 DEF RekeyFails
  <1>19. ASSUME NEW w \in Workers, UnlockRekey(w) PROVE PhaseInv'
    BY <1>19, BumpFact DEF UnlockRekey
  <1>20. ASSUME NEW w \in Workers, LockReopen(w) PROVE PhaseInv'
    BY <1>20 DEF LockReopen, LockExclusive
  <1>21. ASSUME NEW w \in Workers, LoadFresh(w) PROVE PhaseInv'
    BY <1>21 DEF LoadFresh
  <1>22. ASSUME NEW w \in Workers, LoadFails(w) PROVE PhaseInv'
    BY <1>22 DEF LoadFails
  <1>23. ASSUME NEW w \in Workers, SwapIn(w) PROVE PhaseInv'
    BY <1>23 DEF SwapIn
  <1>24. ASSUME NEW w \in Workers, UnlockReopen(w) PROVE PhaseInv'
    BY <1>24, BumpFact DEF UnlockReopen
  <1>25. ASSUME NEW w \in Workers, UnlockFailed(w) PROVE PhaseInv'
    BY <1>25 DEF UnlockFailed
  <1>26. ASSUME NEW w \in Workers, LoopEnter(w) PROVE PhaseInv'
    BY <1>26 DEF LoopEnter
  <1>27. ASSUME NEW w \in Workers, LoopLeave(w) PROVE PhaseInv'
    BY <1>27 DEF LoopLeave
  <1>28. ASSUME NEW w \in Workers, WorkerDone(w) PROVE PhaseInv'
    BY <1>28 DEF WorkerDone
  <1>29. ASSUME NEW w \in Workers, SpawnWorker(w) PROVE PhaseInv'
    BY <1>29 DEF SpawnWorker
  <1>30. CASE WarmupBarrier
    BY <1>30 DEF WarmupBarrier
  <1>31. CASE TakeBaselines
    BY <1>31 DEF TakeBaselines
  <1>32. CASE ReleaseBarrier
    BY <1>32 DEF ReleaseBarrier
  <1>33. CASE TakeDoneMutex
    BY <1>33 DEF TakeDoneMutex
  <1>34. CASE Poll
    BY <1>34 DEF Poll
  <1>35. CASE PollEnds
    BY <1>35 DEF PollEnds
  <1>36. CASE Join
    BY <1>36 DEF Join
  <1>37. CASE FinalSummary
    BY <1>37 DEF FinalSummary
  <1>38. CASE OnSignal
    BY <1>38 DEF OnSignal
  <1>39. CASE DeadlinePasses
    BY <1>39 DEF DeadlinePasses
  <1> QED
    BY <1>1, <1>2, <1>3, <1>4, <1>5, <1>6, <1>7, <1>8, <1>9, <1>10, <1>11, <1>12, <1>13, <1>14, <1>15, <1>16, <1>17, <1>18, <1>19, <1>20, <1>21, <1>22, <1>23, <1>24, <1>25, <1>26, <1>27, <1>28, <1>29, <1>30, <1>31, <1>32, <1>33, <1>34, <1>35, <1>36, <1>37, <1>38, <1>39
    DEF Next, WorkerStep, Iterate, Maintenance, MainStep, Environment, Exited

\* Every step keeps the warmup's count.
LEMMA WarmupStep ==
  ASSUME TypeOK, PhaseInv, WarmupInv, [Next]_vars
  PROVE  WarmupInv'
  <1> USE DEF TypeOK, GoTo, WorkerFail, NextIteration,
      AfterFailure, workerVars, pipeVars, lockVars, runVars, PhaseInv, WarmupInv, WarmupLocs, ReadLocs
  <1>1. CASE UNCHANGED vars
    BY <1>1 DEF vars, workerVars, pipeVars, lockVars, runVars
  <1>2. ASSUME NEW w \in Workers, Refill(w) PROVE WarmupInv'
    BY <1>2 DEF Refill
  <1>3. ASSUME NEW w \in Workers, RefillFails(w) PROVE WarmupInv'
    BY <1>3 DEF RefillFails
  <1>4. ASSUME NEW w \in Workers, LockShared(w) PROVE WarmupInv'
    BY <1>4 DEF LockShared
  <1>5. ASSUME NEW w \in Workers, EncryptCall(w) PROVE WarmupInv'
    BY <1>5 DEF EncryptCall, StartCall
  <1>6. ASSUME NEW w \in Workers, EncryptReturns(w) PROVE WarmupInv'
    BY <1>6 DEF EncryptReturns
  <1>7. ASSUME NEW w \in Workers, DecryptCall(w) PROVE WarmupInv'
    BY <1>7 DEF DecryptCall, StartCall
  <1>8. ASSUME NEW w \in Workers, DecryptReturns(w) PROVE WarmupInv'
    BY <1>8 DEF DecryptReturns
  <1>9. ASSUME NEW w \in Workers, CipherFails(w) PROVE WarmupInv'
    BY <1>9 DEF CipherFails
  <1>10. ASSUME NEW w \in Workers, Compare(w) PROVE WarmupInv'
    BY <1>10, BumpFact DEF Compare
  <1>11. ASSUME NEW w \in Workers, DataMismatch(w) PROVE WarmupInv'
    BY <1>11 DEF DataMismatch
  <1>12. ASSUME NEW w \in Workers, UnlockShared(w) PROVE WarmupInv'
    BY <1>12 DEF UnlockShared, AfterFailure
  <1>13. ASSUME NEW w \in Workers, Maintain(w) PROVE WarmupInv'
    BY <1>13, BumpFact DEF Maintain
  <1>14. ASSUME NEW w \in Workers, DrawMasters(w) PROVE WarmupInv'
    BY <1>14 DEF DrawMasters
  <1>15. ASSUME NEW w \in Workers, DrawFails(w) PROVE WarmupInv'
    BY <1>15 DEF DrawFails
  <1>16. ASSUME NEW w \in Workers, LockRekey(w) PROVE WarmupInv'
    BY <1>16 DEF LockRekey, LockExclusive
  <1>17. ASSUME NEW w \in Workers, RekeyPipe(w) PROVE WarmupInv'
    BY <1>17 DEF RekeyPipe
  <1>18. ASSUME NEW w \in Workers, RekeyFails(w) PROVE WarmupInv'
    BY <1>18 DEF RekeyFails
  <1>19. ASSUME NEW w \in Workers, UnlockRekey(w) PROVE WarmupInv'
    BY <1>19, BumpFact DEF UnlockRekey
  <1>20. ASSUME NEW w \in Workers, LockReopen(w) PROVE WarmupInv'
    BY <1>20 DEF LockReopen, LockExclusive
  <1>21. ASSUME NEW w \in Workers, LoadFresh(w) PROVE WarmupInv'
    BY <1>21 DEF LoadFresh
  <1>22. ASSUME NEW w \in Workers, LoadFails(w) PROVE WarmupInv'
    BY <1>22 DEF LoadFails
  <1>23. ASSUME NEW w \in Workers, SwapIn(w) PROVE WarmupInv'
    BY <1>23 DEF SwapIn
  <1>24. ASSUME NEW w \in Workers, UnlockReopen(w) PROVE WarmupInv'
    BY <1>24, BumpFact DEF UnlockReopen
  <1>25. ASSUME NEW w \in Workers, UnlockFailed(w) PROVE WarmupInv'
    BY <1>25 DEF UnlockFailed
  <1>26. ASSUME NEW w \in Workers, LoopEnter(w) PROVE WarmupInv'
    BY <1>26 DEF LoopEnter
  <1>27. ASSUME NEW w \in Workers, LoopLeave(w) PROVE WarmupInv'
    BY <1>27 DEF LoopLeave
  <1>28. ASSUME NEW w \in Workers, WorkerDone(w) PROVE WarmupInv'
    BY <1>28 DEF WorkerDone
  <1>29. ASSUME NEW w \in Workers, SpawnWorker(w) PROVE WarmupInv'
    BY <1>29 DEF SpawnWorker
  <1>30. CASE WarmupBarrier
    BY <1>30 DEF WarmupBarrier
  <1>31. CASE TakeBaselines
    BY <1>31 DEF TakeBaselines
  <1>32. CASE ReleaseBarrier
    BY <1>32 DEF ReleaseBarrier
  <1>33. CASE TakeDoneMutex
    BY <1>33 DEF TakeDoneMutex
  <1>34. CASE Poll
    BY <1>34 DEF Poll
  <1>35. CASE PollEnds
    BY <1>35 DEF PollEnds
  <1>36. CASE Join
    BY <1>36 DEF Join
  <1>37. CASE FinalSummary
    BY <1>37 DEF FinalSummary
  <1>38. CASE OnSignal
    BY <1>38 DEF OnSignal
  <1>39. CASE DeadlinePasses
    BY <1>39 DEF DeadlinePasses
  <1> QED
    BY <1>1, <1>2, <1>3, <1>4, <1>5, <1>6, <1>7, <1>8, <1>9, <1>10, <1>11, <1>12, <1>13, <1>14, <1>15, <1>16, <1>17, <1>18, <1>19, <1>20, <1>21, <1>22, <1>23, <1>24, <1>25, <1>26, <1>27, <1>28, <1>29, <1>30, <1>31, <1>32, <1>33, <1>34, <1>35, <1>36, <1>37, <1>38, <1>39
    DEF Next, WorkerStep, Iterate, Maintenance, MainStep, Environment, Exited

\* Every step keeps a worker's count in step with its budget.
LEMMA BudgetStep ==
  ASSUME TypeOK, PhaseInv, WarmupInv, BudgetInv, [Next]_vars
  PROVE  BudgetInv'
  <1> USE CountsAssumption DEF TypeOK, GoTo, WorkerFail, NextIteration,
      AfterFailure, workerVars, pipeVars, lockVars, runVars, PhaseInv, WarmupInv, BudgetInv, CountedLocs, WarmupLocs, ReadLocs
  <1>1. CASE UNCHANGED vars
    BY <1>1 DEF vars, workerVars, pipeVars, lockVars, runVars
  <1>2. ASSUME NEW w \in Workers, Refill(w), exit = "running" PROVE BudgetInv'
    BY <1>2 DEF Refill
  <1>3. ASSUME NEW w \in Workers, RefillFails(w), exit = "running" PROVE BudgetInv'
    BY <1>3 DEF RefillFails
  <1>4. ASSUME NEW w \in Workers, LockShared(w), exit = "running" PROVE BudgetInv'
    BY <1>4 DEF LockShared
  <1>5. ASSUME NEW w \in Workers, EncryptCall(w), exit = "running" PROVE BudgetInv'
    BY <1>5 DEF EncryptCall, StartCall
  <1>6. ASSUME NEW w \in Workers, EncryptReturns(w), exit = "running" PROVE BudgetInv'
    BY <1>6 DEF EncryptReturns
  <1>7. ASSUME NEW w \in Workers, DecryptCall(w), exit = "running" PROVE BudgetInv'
    BY <1>7 DEF DecryptCall, StartCall
  <1>8. ASSUME NEW w \in Workers, DecryptReturns(w), exit = "running" PROVE BudgetInv'
    BY <1>8 DEF DecryptReturns
  <1>9. ASSUME NEW w \in Workers, CipherFails(w), exit = "running" PROVE BudgetInv'
    BY <1>9 DEF CipherFails
  <1>10. ASSUME NEW w \in Workers, Compare(w), exit = "running" PROVE BudgetInv'
    BY <1>10, BumpFact DEF Compare
  <1>11. ASSUME NEW w \in Workers, DataMismatch(w), exit = "running" PROVE BudgetInv'
    BY <1>11 DEF DataMismatch
  <1>12. ASSUME NEW w \in Workers, UnlockShared(w), exit = "running" PROVE BudgetInv'
    BY <1>12 DEF UnlockShared, AfterFailure
  <1>13. ASSUME NEW w \in Workers, Maintain(w), exit = "running" PROVE BudgetInv'
    BY <1>13, BumpFact DEF Maintain
  <1>14. ASSUME NEW w \in Workers, DrawMasters(w), exit = "running" PROVE BudgetInv'
    BY <1>14 DEF DrawMasters
  <1>15. ASSUME NEW w \in Workers, DrawFails(w), exit = "running" PROVE BudgetInv'
    BY <1>15 DEF DrawFails
  <1>16. ASSUME NEW w \in Workers, LockRekey(w), exit = "running" PROVE BudgetInv'
    BY <1>16 DEF LockRekey, LockExclusive
  <1>17. ASSUME NEW w \in Workers, RekeyPipe(w), exit = "running" PROVE BudgetInv'
    BY <1>17 DEF RekeyPipe
  <1>18. ASSUME NEW w \in Workers, RekeyFails(w), exit = "running" PROVE BudgetInv'
    BY <1>18 DEF RekeyFails
  <1>19. ASSUME NEW w \in Workers, UnlockRekey(w), exit = "running" PROVE BudgetInv'
    BY <1>19, BumpFact DEF UnlockRekey
  <1>20. ASSUME NEW w \in Workers, LockReopen(w), exit = "running" PROVE BudgetInv'
    BY <1>20 DEF LockReopen, LockExclusive
  <1>21. ASSUME NEW w \in Workers, LoadFresh(w), exit = "running" PROVE BudgetInv'
    BY <1>21 DEF LoadFresh
  <1>22. ASSUME NEW w \in Workers, LoadFails(w), exit = "running" PROVE BudgetInv'
    BY <1>22 DEF LoadFails
  <1>23. ASSUME NEW w \in Workers, SwapIn(w), exit = "running" PROVE BudgetInv'
    BY <1>23 DEF SwapIn
  <1>24. ASSUME NEW w \in Workers, UnlockReopen(w), exit = "running" PROVE BudgetInv'
    BY <1>24, BumpFact DEF UnlockReopen
  <1>25. ASSUME NEW w \in Workers, UnlockFailed(w), exit = "running" PROVE BudgetInv'
    BY <1>25 DEF UnlockFailed
  <1>26. ASSUME NEW w \in Workers, LoopEnter(w), exit = "running" PROVE BudgetInv'
    BY <1>26 DEF LoopEnter, Spent
  <1>27. ASSUME NEW w \in Workers, LoopLeave(w), exit = "running" PROVE BudgetInv'
    BY <1>27 DEF LoopLeave, Spent
  <1>28. ASSUME NEW w \in Workers, WorkerDone(w), exit = "running" PROVE BudgetInv'
    BY <1>28 DEF WorkerDone
  <1>29. ASSUME NEW w \in Workers, SpawnWorker(w), exit = "running" PROVE BudgetInv'
    BY <1>29 DEF SpawnWorker
  <1>30. ASSUME WarmupBarrier, exit = "running" PROVE BudgetInv'
    BY <1>30 DEF WarmupBarrier
  <1>31. ASSUME TakeBaselines, exit = "running" PROVE BudgetInv'
    BY <1>31 DEF TakeBaselines
  <1>32. ASSUME ReleaseBarrier, exit = "running" PROVE BudgetInv'
    BY <1>32 DEF ReleaseBarrier
  <1>33. ASSUME TakeDoneMutex, exit = "running" PROVE BudgetInv'
    BY <1>33 DEF TakeDoneMutex
  <1>34. ASSUME Poll, exit = "running" PROVE BudgetInv'
    BY <1>34 DEF Poll
  <1>35. ASSUME PollEnds, exit = "running" PROVE BudgetInv'
    BY <1>35 DEF PollEnds
  <1>36. ASSUME Join, exit = "running" PROVE BudgetInv'
    BY <1>36 DEF Join
  <1>37. ASSUME FinalSummary, exit = "running" PROVE BudgetInv'
    BY <1>37 DEF FinalSummary
  <1>38. ASSUME OnSignal, exit = "running" PROVE BudgetInv'
    BY <1>38 DEF OnSignal
  <1>39. ASSUME DeadlinePasses, exit = "running" PROVE BudgetInv'
    BY <1>39 DEF DeadlinePasses
  <1> QED
    BY <1>1, <1>2, <1>3, <1>4, <1>5, <1>6, <1>7, <1>8, <1>9, <1>10, <1>11, <1>12, <1>13, <1>14, <1>15, <1>16, <1>17, <1>18, <1>19, <1>20, <1>21, <1>22, <1>23, <1>24, <1>25, <1>26, <1>27, <1>28, <1>29, <1>30, <1>31, <1>32, <1>33, <1>34, <1>35, <1>36, <1>37, <1>38, <1>39
    DEF Next, WorkerStep, Iterate, Maintenance, MainStep, Environment, Exited

\* Every step keeps count of the workers that have not returned.
LEMMA ActiveStep ==
  ASSUME TypeOK, PhaseInv, ActiveInv, [Next]_vars
  PROVE  ActiveInv'
  <1> DEFINE Out == {v \in Workers : pc[v] # "returned"}
  <1> USE DEF TypeOK, GoTo, WorkerFail, NextIteration,
      AfterFailure, workerVars, pipeVars, lockVars, runVars, PhaseInv, ActiveInv
  <1>1. CASE UNCHANGED vars
    <2>1. Out' = Out /\ UNCHANGED <<active, stamped, main>>
      BY <1>1 DEF vars
    <2> QED
      BY <2>1
  <1>2. ASSUME NEW w \in Workers, Refill(w) PROVE ActiveInv'
    <2>1. Out' = Out /\ UNCHANGED <<active, stamped, main>>
      BY <1>2 DEF Refill
    <2> QED
      BY <2>1
  <1>3. ASSUME NEW w \in Workers, RefillFails(w) PROVE ActiveInv'
    <2>1. Out' = Out /\ UNCHANGED <<active, stamped, main>>
      BY <1>3 DEF RefillFails
    <2> QED
      BY <2>1
  <1>4. ASSUME NEW w \in Workers, LockShared(w) PROVE ActiveInv'
    <2>1. Out' = Out /\ UNCHANGED <<active, stamped, main>>
      BY <1>4 DEF LockShared
    <2> QED
      BY <2>1
  <1>5. ASSUME NEW w \in Workers, EncryptCall(w) PROVE ActiveInv'
    <2>1. Out' = Out /\ UNCHANGED <<active, stamped, main>>
      BY <1>5 DEF EncryptCall, StartCall
    <2> QED
      BY <2>1
  <1>6. ASSUME NEW w \in Workers, EncryptReturns(w) PROVE ActiveInv'
    <2>1. Out' = Out /\ UNCHANGED <<active, stamped, main>>
      BY <1>6 DEF EncryptReturns
    <2> QED
      BY <2>1
  <1>7. ASSUME NEW w \in Workers, DecryptCall(w) PROVE ActiveInv'
    <2>1. Out' = Out /\ UNCHANGED <<active, stamped, main>>
      BY <1>7 DEF DecryptCall, StartCall
    <2> QED
      BY <2>1
  <1>8. ASSUME NEW w \in Workers, DecryptReturns(w) PROVE ActiveInv'
    <2>1. Out' = Out /\ UNCHANGED <<active, stamped, main>>
      BY <1>8 DEF DecryptReturns
    <2> QED
      BY <2>1
  <1>9. ASSUME NEW w \in Workers, CipherFails(w) PROVE ActiveInv'
    <2>1. Out' = Out /\ UNCHANGED <<active, stamped, main>>
      BY <1>9 DEF CipherFails
    <2> QED
      BY <2>1
  <1>10. ASSUME NEW w \in Workers, Compare(w) PROVE ActiveInv'
    <2>1. Out' = Out /\ UNCHANGED <<active, stamped, main>>
      BY <1>10 DEF Compare
    <2> QED
      BY <2>1
  <1>11. ASSUME NEW w \in Workers, DataMismatch(w) PROVE ActiveInv'
    <2>1. Out' = Out /\ UNCHANGED <<active, stamped, main>>
      BY <1>11 DEF DataMismatch
    <2> QED
      BY <2>1
  <1>12. ASSUME NEW w \in Workers, UnlockShared(w) PROVE ActiveInv'
    <2>1. Out' = Out /\ UNCHANGED <<active, stamped, main>>
      BY <1>12 DEF UnlockShared, AfterFailure
    <2> QED
      BY <2>1
  <1>13. ASSUME NEW w \in Workers, Maintain(w) PROVE ActiveInv'
    <2>1. Out' = Out /\ UNCHANGED <<active, stamped, main>>
      BY <1>13 DEF Maintain
    <2> QED
      BY <2>1
  <1>14. ASSUME NEW w \in Workers, DrawMasters(w) PROVE ActiveInv'
    <2>1. Out' = Out /\ UNCHANGED <<active, stamped, main>>
      BY <1>14 DEF DrawMasters
    <2> QED
      BY <2>1
  <1>15. ASSUME NEW w \in Workers, DrawFails(w) PROVE ActiveInv'
    <2>1. Out' = Out /\ UNCHANGED <<active, stamped, main>>
      BY <1>15 DEF DrawFails
    <2> QED
      BY <2>1
  <1>16. ASSUME NEW w \in Workers, LockRekey(w) PROVE ActiveInv'
    <2>1. Out' = Out /\ UNCHANGED <<active, stamped, main>>
      BY <1>16 DEF LockRekey, LockExclusive
    <2> QED
      BY <2>1
  <1>17. ASSUME NEW w \in Workers, RekeyPipe(w) PROVE ActiveInv'
    <2>1. Out' = Out /\ UNCHANGED <<active, stamped, main>>
      BY <1>17 DEF RekeyPipe
    <2> QED
      BY <2>1
  <1>18. ASSUME NEW w \in Workers, RekeyFails(w) PROVE ActiveInv'
    <2>1. Out' = Out /\ UNCHANGED <<active, stamped, main>>
      BY <1>18 DEF RekeyFails
    <2> QED
      BY <2>1
  <1>19. ASSUME NEW w \in Workers, UnlockRekey(w) PROVE ActiveInv'
    <2>1. Out' = Out /\ UNCHANGED <<active, stamped, main>>
      BY <1>19 DEF UnlockRekey
    <2> QED
      BY <2>1
  <1>20. ASSUME NEW w \in Workers, LockReopen(w) PROVE ActiveInv'
    <2>1. Out' = Out /\ UNCHANGED <<active, stamped, main>>
      BY <1>20 DEF LockReopen, LockExclusive
    <2> QED
      BY <2>1
  <1>21. ASSUME NEW w \in Workers, LoadFresh(w) PROVE ActiveInv'
    <2>1. Out' = Out /\ UNCHANGED <<active, stamped, main>>
      BY <1>21 DEF LoadFresh
    <2> QED
      BY <2>1
  <1>22. ASSUME NEW w \in Workers, LoadFails(w) PROVE ActiveInv'
    <2>1. Out' = Out /\ UNCHANGED <<active, stamped, main>>
      BY <1>22 DEF LoadFails
    <2> QED
      BY <2>1
  <1>23. ASSUME NEW w \in Workers, SwapIn(w) PROVE ActiveInv'
    <2>1. Out' = Out /\ UNCHANGED <<active, stamped, main>>
      BY <1>23 DEF SwapIn
    <2> QED
      BY <2>1
  <1>24. ASSUME NEW w \in Workers, UnlockReopen(w) PROVE ActiveInv'
    <2>1. Out' = Out /\ UNCHANGED <<active, stamped, main>>
      BY <1>24 DEF UnlockReopen
    <2> QED
      BY <2>1
  <1>25. ASSUME NEW w \in Workers, UnlockFailed(w) PROVE ActiveInv'
    <2>1. Out' = Out /\ UNCHANGED <<active, stamped, main>>
      BY <1>25 DEF UnlockFailed
    <2> QED
      BY <2>1
  <1>26. ASSUME NEW w \in Workers, LoopEnter(w) PROVE ActiveInv'
    <2>1. Out' = Out /\ UNCHANGED <<active, stamped, main>>
      BY <1>26 DEF LoopEnter
    <2> QED
      BY <2>1
  <1>27. ASSUME NEW w \in Workers, LoopLeave(w) PROVE ActiveInv'
    <2>1. Out' = Out /\ UNCHANGED <<active, stamped, main>>
      BY <1>27 DEF LoopLeave
    <2> QED
      BY <2>1
  <1>28. ASSUME NEW w \in Workers, WorkerDone(w) PROVE ActiveInv'
    <2>1. Out' = Out \ {w} /\ w \in Out
      BY <1>28 DEF WorkerDone
    <2>2. IsFiniteSet(Out)
      BY WorkersAssumption, FS_Subset
    <2>3. Cardinality(Out') = Cardinality(Out) - 1
      <3>1. Cardinality(Out \ {w}) = Cardinality(Out) - 1
        <4> HIDE DEF Out
        <4> QED
          BY <2>1, <2>2, FS_RemoveElement
      <3> QED
        BY <2>1, <3>1
    <2>4. Cardinality(Out) # 0
      BY <2>1, <2>2, FS_EmptySet
    <2> QED
      BY <1>28, <2>3, <2>4 DEF WorkerDone
  <1>29. ASSUME NEW w \in Workers, SpawnWorker(w) PROVE ActiveInv'
    <2>1. Out' = Out /\ UNCHANGED <<active, stamped>>
      BY <1>29 DEF SpawnWorker
    <2>2. main' \in {"spawn", "warmup_done"}
      BY <1>29 DEF SpawnWorker
    <2> QED
      BY <2>1, <2>2
  <1>30. CASE WarmupBarrier
    <2>1. Out' = Out
      BY <1>30 DEF WarmupBarrier
    <2>2. UNCHANGED active /\ main' = "baseline"
      BY <1>30 DEF WarmupBarrier
    <2> QED
      BY <2>1, <2>2
  <1>31. CASE TakeBaselines
    <2>1. Out' = Out /\ UNCHANGED active /\ main' = "release"
      BY <1>31 DEF TakeBaselines
    <2> QED
      BY <2>1
  <1>32. CASE ReleaseBarrier
    <2>1. Out' = Workers /\ Out = Workers
      BY <1>32 DEF ReleaseBarrier
    <2>2. Cardinality(Workers) # 0
      BY WorkersAssumption, FS_EmptySet
    <2>3. UNCHANGED <<active, stamped>> /\ main' = "lock_done"
      BY <1>32 DEF ReleaseBarrier
    <2> QED
      BY <2>1, <2>2, <2>3
  <1>33. CASE TakeDoneMutex
    <2>1. Out' = Out /\ UNCHANGED <<active, stamped>>
      BY <1>33 DEF TakeDoneMutex
    <2> QED
      BY <1>33, <2>1 DEF TakeDoneMutex
  <1>34. CASE Poll
    <2>1. Out' = Out /\ UNCHANGED <<active, stamped>>
      BY <1>34 DEF Poll
    <2> QED
      BY <1>34, <2>1 DEF Poll
  <1>35. CASE PollEnds
    <2>1. Out' = Out /\ UNCHANGED <<active, stamped>>
      BY <1>35 DEF PollEnds
    <2> QED
      BY <1>35, <2>1 DEF PollEnds
  <1>36. CASE Join
    <2>1. Out' = Out /\ UNCHANGED <<active, stamped>>
      BY <1>36 DEF Join
    <2> QED
      BY <1>36, <2>1 DEF Join
  <1>37. CASE FinalSummary
    <2>1. Out' = Out /\ UNCHANGED <<active, stamped, main>>
      BY <1>37 DEF FinalSummary
    <2> QED
      BY <2>1
  <1>38. CASE OnSignal
    <2>1. Out' = Out /\ UNCHANGED <<active, stamped, main>>
      BY <1>38 DEF OnSignal
    <2> QED
      BY <2>1
  <1>39. CASE DeadlinePasses
    <2>1. Out' = Out /\ UNCHANGED <<active, stamped, main>>
      BY <1>39 DEF DeadlinePasses
    <2> QED
      BY <2>1
  <1> QED
    BY <1>1, <1>2, <1>3, <1>4, <1>5, <1>6, <1>7, <1>8, <1>9, <1>10, <1>11, <1>12, <1>13, <1>14, <1>15, <1>16, <1>17, <1>18, <1>19, <1>20, <1>21, <1>22, <1>23, <1>24, <1>25, <1>26, <1>27, <1>28, <1>29, <1>30, <1>31, <1>32, <1>33, <1>34, <1>35, <1>36, <1>37, <1>38, <1>39
    DEF Next, WorkerStep, Iterate, Maintenance, MainStep, Environment, Exited

\* While a call is in flight the lock has a reader, so no thread is a writer.
LEMMA CallExcludesWriters ==
  ASSUME IInv, NEW u \in Workers, call[u] # None
  PROVE  \A w \in Workers : pc[w] \notin WriteLocs
  <1> USE DEF IInv
  <1>1. pc[u] \in {"encrypting", "decrypting"}
    BY DEF UseInv
  <1>2. u \in readers
    BY <1>1 DEF LockInv, ReadLocs
  <1>3. writer = None
    BY <1>2 DEF LockInv
  <1> QED
    BY <1>3, NoneAssumption DEF LockInv

\* No step changes a handle that a call in flight is on.
LEMMA MutationStep ==
  ASSUME IInv, [Next]_vars,
         NEW u \in Workers, call[u] # None
  PROVE  keyOf'[call[u]] = keyOf[call[u]] /\ handle' = handle
  <1> USE DEF IInv, TypeOK, GoTo, WorkerFail, NextIteration,
      AfterFailure, workerVars, pipeVars, lockVars, runVars
  <1>1. CASE UNCHANGED vars
    BY <1>1 DEF vars, workerVars, pipeVars, lockVars, runVars
  <1>2. ASSUME NEW w \in Workers, Refill(w) PROVE keyOf'[call[u]] = keyOf[call[u]] /\ handle' = handle
    BY <1>2 DEF Refill
  <1>3. ASSUME NEW w \in Workers, RefillFails(w) PROVE keyOf'[call[u]] = keyOf[call[u]] /\ handle' = handle
    BY <1>3 DEF RefillFails
  <1>4. ASSUME NEW w \in Workers, LockShared(w) PROVE keyOf'[call[u]] = keyOf[call[u]] /\ handle' = handle
    BY <1>4 DEF LockShared
  <1>5. ASSUME NEW w \in Workers, EncryptCall(w) PROVE keyOf'[call[u]] = keyOf[call[u]] /\ handle' = handle
    BY <1>5 DEF EncryptCall, StartCall
  <1>6. ASSUME NEW w \in Workers, EncryptReturns(w) PROVE keyOf'[call[u]] = keyOf[call[u]] /\ handle' = handle
    BY <1>6 DEF EncryptReturns
  <1>7. ASSUME NEW w \in Workers, DecryptCall(w) PROVE keyOf'[call[u]] = keyOf[call[u]] /\ handle' = handle
    BY <1>7 DEF DecryptCall, StartCall
  <1>8. ASSUME NEW w \in Workers, DecryptReturns(w) PROVE keyOf'[call[u]] = keyOf[call[u]] /\ handle' = handle
    BY <1>8 DEF DecryptReturns
  <1>9. ASSUME NEW w \in Workers, CipherFails(w) PROVE keyOf'[call[u]] = keyOf[call[u]] /\ handle' = handle
    BY <1>9 DEF CipherFails
  <1>10. ASSUME NEW w \in Workers, Compare(w) PROVE keyOf'[call[u]] = keyOf[call[u]] /\ handle' = handle
    BY <1>10 DEF Compare
  <1>11. ASSUME NEW w \in Workers, DataMismatch(w) PROVE keyOf'[call[u]] = keyOf[call[u]] /\ handle' = handle
    BY <1>11 DEF DataMismatch
  <1>12. ASSUME NEW w \in Workers, UnlockShared(w) PROVE keyOf'[call[u]] = keyOf[call[u]] /\ handle' = handle
    BY <1>12 DEF UnlockShared
  <1>13. ASSUME NEW w \in Workers, Maintain(w) PROVE keyOf'[call[u]] = keyOf[call[u]] /\ handle' = handle
    BY <1>13 DEF Maintain
  <1>14. ASSUME NEW w \in Workers, DrawMasters(w) PROVE keyOf'[call[u]] = keyOf[call[u]] /\ handle' = handle
    BY <1>14 DEF DrawMasters
  <1>15. ASSUME NEW w \in Workers, DrawFails(w) PROVE keyOf'[call[u]] = keyOf[call[u]] /\ handle' = handle
    BY <1>15 DEF DrawFails
  <1>16. ASSUME NEW w \in Workers, LockRekey(w) PROVE keyOf'[call[u]] = keyOf[call[u]] /\ handle' = handle
    BY <1>16 DEF LockRekey, LockExclusive
  <1>17. ASSUME NEW w \in Workers, RekeyPipe(w) PROVE keyOf'[call[u]] = keyOf[call[u]] /\ handle' = handle
    BY <1>17, CallExcludesWriters DEF RekeyPipe, WriteLocs
  <1>18. ASSUME NEW w \in Workers, RekeyFails(w) PROVE keyOf'[call[u]] = keyOf[call[u]] /\ handle' = handle
    BY <1>18, CallExcludesWriters DEF RekeyFails, WriteLocs
  <1>19. ASSUME NEW w \in Workers, UnlockRekey(w) PROVE keyOf'[call[u]] = keyOf[call[u]] /\ handle' = handle
    BY <1>19 DEF UnlockRekey
  <1>20. ASSUME NEW w \in Workers, LockReopen(w) PROVE keyOf'[call[u]] = keyOf[call[u]] /\ handle' = handle
    BY <1>20 DEF LockReopen, LockExclusive
  <1>21. ASSUME NEW w \in Workers, LoadFresh(w) PROVE keyOf'[call[u]] = keyOf[call[u]] /\ handle' = handle
    BY <1>21, SurfaceFact DEF LoadFresh, UseInv, LockInv, ReadLocs, WriteLocs, PipeOf, HandleInv, Least, HandlesInUse
  <1>22. ASSUME NEW w \in Workers, LoadFails(w) PROVE keyOf'[call[u]] = keyOf[call[u]] /\ handle' = handle
    BY <1>22 DEF LoadFails
  <1>23. ASSUME NEW w \in Workers, SwapIn(w) PROVE keyOf'[call[u]] = keyOf[call[u]] /\ handle' = handle
    BY <1>23, CallExcludesWriters DEF SwapIn, WriteLocs
  <1>24. ASSUME NEW w \in Workers, UnlockReopen(w) PROVE keyOf'[call[u]] = keyOf[call[u]] /\ handle' = handle
    BY <1>24 DEF UnlockReopen
  <1>25. ASSUME NEW w \in Workers, UnlockFailed(w) PROVE keyOf'[call[u]] = keyOf[call[u]] /\ handle' = handle
    BY <1>25 DEF UnlockFailed
  <1>26. ASSUME NEW w \in Workers, LoopEnter(w) PROVE keyOf'[call[u]] = keyOf[call[u]] /\ handle' = handle
    BY <1>26 DEF LoopEnter
  <1>27. ASSUME NEW w \in Workers, LoopLeave(w) PROVE keyOf'[call[u]] = keyOf[call[u]] /\ handle' = handle
    BY <1>27 DEF LoopLeave
  <1>28. ASSUME NEW w \in Workers, WorkerDone(w) PROVE keyOf'[call[u]] = keyOf[call[u]] /\ handle' = handle
    BY <1>28 DEF WorkerDone
  <1>29. ASSUME NEW w \in Workers, SpawnWorker(w) PROVE keyOf'[call[u]] = keyOf[call[u]] /\ handle' = handle
    BY <1>29 DEF SpawnWorker
  <1>30. CASE WarmupBarrier
    BY <1>30 DEF WarmupBarrier
  <1>31. CASE TakeBaselines
    BY <1>31 DEF TakeBaselines
  <1>32. CASE ReleaseBarrier
    BY <1>32 DEF ReleaseBarrier
  <1>33. CASE TakeDoneMutex
    BY <1>33 DEF TakeDoneMutex
  <1>34. CASE Poll
    BY <1>34 DEF Poll
  <1>35. CASE PollEnds
    BY <1>35 DEF PollEnds
  <1>36. CASE Join
    BY <1>36 DEF Join
  <1>37. CASE FinalSummary
    BY <1>37 DEF FinalSummary
  <1>38. CASE OnSignal
    BY <1>38 DEF OnSignal
  <1>39. CASE DeadlinePasses
    BY <1>39 DEF DeadlinePasses
  <1> QED
    BY <1>1, <1>2, <1>3, <1>4, <1>5, <1>6, <1>7, <1>8, <1>9, <1>10, <1>11, <1>12, <1>13, <1>14, <1>15, <1>16, <1>17, <1>18, <1>19, <1>20, <1>21, <1>22, <1>23, <1>24, <1>25, <1>26, <1>27, <1>28, <1>29, <1>30, <1>31, <1>32, <1>33, <1>34, <1>35, <1>36, <1>37, <1>38, <1>39
    DEF Next, WorkerStep, Iterate, Maintenance, MainStep, Environment, Exited

-----------------------------------------------------------------------------
(* The initial state: the pipelines just built, no thread started.         *)

\* The invariants hold at the start.
LEMMA InitFact == Init => IInv /\ BlobInv
  <1> SUFFICES ASSUME Init PROVE IInv /\ BlobInv
    OBVIOUS
  <1> USE NoneAssumption
  <1>1. /\ handle \in [Pipes -> Handles] /\ blob \in [Pipes -> Keys]
        /\ \A p, q \in Pipes : p # q => handle[p] # handle[q]
    BY DEF Init, FirstNames
  <1>2. \A p \in Pipes : keyOf[handle[p]] = blob[p]
    <2> SUFFICES ASSUME NEW p \in Pipes PROVE keyOf[handle[p]] = blob[p]
      OBVIOUS
    <2>1. handle[p] \in Handles
      BY <1>1
    <2>2. keyOf[handle[p]] = blob[CHOOSE q \in Pipes : handle[q] = handle[p]]
      BY <2>1 DEF Init
    <2>3. (CHOOSE q \in Pipes : handle[q] = handle[p]) = p
      BY <1>1
    <2> QED
      BY <2>2, <2>3
  <1>3. \A h \in Handles : (~ \E p \in Pipes : handle[p] = h) => keyOf[h] = None
    BY DEF Init
  <1>4. keyOf \in [Handles -> Keys \cup {None}]
    <2>1. \A h \in Handles : keyOf[h] \in Keys \cup {None}
      BY <1>1, <1>2, <1>3
    <2> QED
      BY <2>1 DEF Init
  <1>5. Cardinality(Workers) \in Int
    BY WorkersAssumption, FS_CardinalityType
  <1>6. TypeOK
    BY <1>1, <1>4, <1>5 DEF Init, TypeOK, Locations, MainLocations
  <1>7. LockInv /\ MaintenanceInv /\ UseInv
    BY DEF Init, LockInv, MaintenanceInv, UseInv, ReadLocs, WriteLocs
  <1>8. \A h \in Handles : keyOf[h] # None <=> \E p \in Pipes : handle[p] = h
    <2>1. \A p \in Pipes : blob[p] \in Keys
      BY <1>1
    <2>2. None \notin Keys
      BY NamesAssumption
    <2>3. \A p \in Pipes : keyOf[handle[p]] # None
      BY <1>2, <2>1, <2>2
    <2> QED
      BY <1>3, <2>3
  <1>9. HandleInv /\ BlobInv
    BY <1>1, <1>2, <1>8 DEF Init, HandleInv, BlobInv
  <1> QED
    BY <1>6, <1>7, <1>9 DEF IInv

\* The phases, the warmup's count, the budget and the active count hold at the start.
LEMMA InitPhaseFact == Init => PhaseInv /\ WarmupInv /\ BudgetInv /\ ActiveInv
  <1> SUFFICES ASSUME Init PROVE PhaseInv /\ WarmupInv /\ BudgetInv /\ ActiveInv
    OBVIOUS
  <1>1. PhaseInv
    BY WorkersAssumption DEF Init, PhaseInv, WarmupLocs
  <1>2. WarmupInv /\ BudgetInv
    BY CountsAssumption DEF Init, WarmupInv, BudgetInv, CountedLocs
  <1>3. {w \in Workers : pc[w] # "returned"} = Workers
    BY DEF Init
  <1>4. ActiveInv
    BY <1>3 DEF Init, ActiveInv
  <1> QED
    BY <1>1, <1>2, <1>4

-----------------------------------------------------------------------------
(* The theorems.                                                           *)

\* The inductive invariant holds throughout every run of the harness.
THEOREM Invariance == Spec => []IInv
  <1>1. Init => IInv
    BY InitFact
  <1>2. IInv /\ [Next]_vars => IInv'
    BY TypeStep, LockStep, MaintenanceStep, HandleStep, UseStep DEF IInv
  <1> QED
    BY <1>1, <1>2, PTL DEF Spec

\* The variables keep their types.
THEOREM TypeCorrectness == Spec => []TypeOK
  BY Invariance, PTL DEF IInv

\* No maintenance lands between an encrypt and its decrypt.
THEOREM RoundTripsUndisturbed == Spec => []RoundTripUnderOneKeying
  <1>1. IInv => RoundTripUnderOneKeying
    <2> SUFFICES ASSUME IInv, NEW w \in Workers
                 PROVE  /\ call[w] # None => call[w] = handle[PipeOf(w)] /\ keyOf[call[w]] # None
                        /\ pc[w] \in {"decrypt", "decrypting"} => wire[w] = keyOf[handle[PipeOf(w)]]
      BY DEF RoundTripUnderOneKeying
    <2>1. PipeOf(w) \in Pipes
      BY SurfaceFact DEF PipeOf, IInv, TypeOK
    <2>2. keyOf[handle[PipeOf(w)]] # None
      BY <2>1 DEF IInv, TypeOK, HandleInv
    <2> QED
      BY <2>2 DEF IInv, UseInv
  <1> QED
    BY <1>1, Invariance, PTL

\* With the lock free, every pipe owns one open handle and no other is open.
THEOREM NoHandleLeaksOrIsShared == Spec => []HandlesAccounted
  <1>1. IInv => HandlesAccounted
    <2> SUFFICES ASSUME IInv, writer = None PROVE HandlesAccounted
      BY DEF HandlesAccounted
    <2>1. \A w \in Workers : pc[w] # "swap"
      BY NoneAssumption DEF IInv, LockInv, WriteLocs
    <2> QED
      BY <2>1 DEF IInv, HandleInv, TypeOK, HandlesAccounted
  <1> QED
    BY <1>1, Invariance, PTL

\* Until a worker fails, every retained blob carries the live masters.
THEOREM RetainedBlobIsLive == Spec => []BlobCarriesLiveMasters
  <1>1. Init => BlobInv
    BY InitFact
  <1>2. IInv /\ BlobInv /\ [Next]_vars => BlobInv'
    BY BlobStep
  <1>3. BlobInv => BlobCarriesLiveMasters
    BY DEF BlobInv, BlobCarriesLiveMasters
  <1> QED
    BY <1>1, <1>2, <1>3, Invariance, PTL DEF Spec

\* The phases, the warmup's count, the budget and the active count hold
\* throughout every run.
THEOREM PhaseInvariance == Spec => [](PhaseInv /\ WarmupInv /\ BudgetInv /\ ActiveInv)
  <1>1. Init => PhaseInv /\ WarmupInv /\ BudgetInv /\ ActiveInv
    BY InitPhaseFact
  <1>2. TypeOK /\ PhaseInv /\ WarmupInv /\ BudgetInv /\ ActiveInv /\ [Next]_vars
          => (PhaseInv /\ WarmupInv /\ BudgetInv /\ ActiveInv)'
    BY PhaseStep, WarmupStep, BudgetStep, ActiveStep
  <1> QED
    BY <1>1, <1>2, TypeCorrectness, PTL DEF Spec

\* The baselines describe a process that is warm and quiet.
THEOREM BaselinesAreQuiet == Spec => []BaselineAfterWarmup
  <1>1. TypeOK /\ PhaseInv /\ WarmupInv => BaselineAfterWarmup
    BY DEF TypeOK, PhaseInv, WarmupInv, BaselineAfterWarmup
  <1> QED
    BY <1>1, TypeCorrectness, PhaseInvariance, PTL

\* A PASS that no signal cut short counts exactly the budget.
THEOREM BudgetIsExact == Spec => []BudgetHonoured
  <1>1. TypeOK /\ PhaseInv /\ BudgetInv => BudgetHonoured
    BY DEF PhaseInv, BudgetInv, BudgetHonoured, CountedLocs, TypeOK
  <1> QED
    BY <1>1, TypeCorrectness, PhaseInvariance, PTL

\* Past the wait the elapsed time ends at the last worker's return.
THEOREM ElapsedEndsWithLastReturn == Spec => []ElapsedStamped
  <1>1. ActiveInv => ElapsedStamped
    BY DEF ActiveInv, ElapsedStamped
  <1> QED
    BY <1>1, PhaseInvariance, PTL

\* No handle changes while a cipher call is in flight on it.
THEOREM CallsExcludeMutation == Spec => MutationExcludesCalls
  <1>1. IInv /\ [Next]_vars =>
          [\A w \in Workers :
             call[w] # None => /\ keyOf'[call[w]] = keyOf[call[w]]
                               /\ \A p \in Pipes : handle'[p] = handle[p]]_vars
    BY MutationStep
  <1> QED
    BY <1>1, Invariance, PTL DEF Spec, MutationExcludesCalls

=============================================================================
