---------------------------- MODULE LoopHarness ----------------------------
(***************************************************************************)
(* The round-trip harness of loop/: worker threads that encrypt, decrypt   *)
(* and compare on shared Pipeline handles, the maintenance that rotates    *)
(* the masters of those handles or reopens them from a retained blob, and  *)
(* the main thread that opens the warmup gate, polls for a deadline or a   *)
(* signal, and joins.                                                      *)
(*                                                                         *)
(* Cryptography is abstracted to the masters in force: a wire decrypts iff *)
(* the handle it is given to holds the masters it was made under.  One     *)
(* cipher call stands for a whole-buffer entry or for a stream session     *)
(* from begin to its destructor; it reads the handle when it starts and    *)
(* uses its masters when it returns, so anything that changes a handle in  *)
(* between shows.                                                          *)
(***************************************************************************)
EXTENDS Integers, FiniteSets

CONSTANTS
    Workers,         \* --goroutines worker threads
    Shape,           \* --shape
    Iterations,      \* --iterations per worker, warmup included; 0: until the deadline
    RekeyEvery,      \* --rekey-every; 0: never
    BlobCycleEvery,  \* --blob-cycle-every; 0: never
    KeyedLayers,     \* whether --parallax or --wrapper is on: masters to rotate
    Keys,            \* names of master sets
    Handles,         \* names of Go-side handles
    None,            \* no key, no handle, no worker
    Faults           \* the external failures that may strike

FaultKinds == {"refill", "encrypt", "decrypt", "corrupt", "csprng", "rekey", "load"}

ASSUME WorkersAssumption == IsFiniteSet(Workers) /\ Workers # {}
ASSUME ShapeAssumption == Shape \in {"stream", "message", "stream_one_shot", "both"}
ASSUME CountsAssumption == {Iterations, RekeyEvery, BlobCycleEvery} \subseteq Nat
ASSUME NamesAssumption == Keys \subseteq Nat /\ Handles \subseteq Nat
ASSUME NoneAssumption == None \notin Workers \cup Nat
ASSUME FlagsAssumption == KeyedLayers \in BOOLEAN /\ Faults \subseteq FaultKinds

VARIABLES
    pc,       \* where each worker thread is
    iter,     \* its loop counter
    iters,    \* its count of completed round-trips
    failed,   \* whether it recorded an error
    call,     \* the handle its cipher call in flight was given
    wire,     \* the masters its wire was made under
    drawn,    \* the masters it drew for a rotation
    todo,     \* the pipes its maintenance has still to visit
    loaded,   \* the handle it loaded and has not yet swapped in
    handle,   \* stream_pipe and msg_pipe: the handle each owns
    blob,     \* stream_blob and msg_blob: the masters each carries
    keyOf,    \* the Go side: the masters of every open handle, None when freed
    readers,  \* pipe_lock: shared owners
    writer,   \* pipe_lock: exclusive owner
    stop,     \* the stop request
    signal,   \* signal_seen
    deadline, \* whether duration_ns has passed since start_ns
    active,   \* workers that have not returned
    stamped,  \* whether finish_ns holds the last worker's instant
    main,     \* where the main thread is
    exit      \* the process: running, or its exit code's meaning

workerVars == <<pc, iter, iters, failed, call, wire, drawn, todo, loaded>>
pipeVars == <<handle, blob, keyOf>>
lockVars == <<readers, writer>>
runVars == <<signal, deadline, active, stamped, main, exit>>
vars == <<workerVars, pipeVars, lockVars, stop, runVars>>

-----------------------------------------------------------------------------
(* The pipes the shape exercises and the surface one iteration uses.       *)

UsesStream == Shape \in {"stream", "stream_one_shot", "both"}
UsesMessage == Shape \in {"message", "both"}
Pipes == {p \in {"stream", "msg"} : (p = "stream" /\ UsesStream) \/ (p = "msg" /\ UsesMessage)}

Surface(i) == IF Shape = "message" \/ (Shape = "both" /\ i % 3 = 1) THEN "msg" ELSE "stream"
PipeOf(w) == Surface(iter[w])

\* Maintenance visits the streaming pipe before the message pipe.
NextPipe(S) == IF "stream" \in S THEN "stream" ELSE "msg"

Due(every, i) == every > 0 /\ i % every = 0

\* Only the remainders of the counter matter once no budget bounds it, so in
\* duration mode it wraps at a common multiple of its periods, and of the count
\* of round-trips only whether there was one is kept.
Factor(every) == IF every = 0 THEN 1 ELSE every
Period == (IF Shape = "both" THEN 3 ELSE 1) * Factor(RekeyEvery) * Factor(BlobCycleEvery)
Bump(i) == IF Iterations = 0 /\ i = Period THEN 1 ELSE i + 1
Count(n) == IF Iterations = 0 THEN 1 ELSE n + 1

\* Names are compared only for equality: the least unused one stands for any.
Least(n, S) == n \in S /\ \A m \in S : n <= m
FirstNames(S) == {f \in [Pipes -> S] : /\ \A p, q \in Pipes : p # q => f[p] # f[q]
                                       /\ \A p \in Pipes, n \in S :
                                            n < f[p] => \E q \in Pipes : f[q] = n}
KeysInUse == {keyOf[h] : h \in Handles} \cup {blob[p] : p \in Pipes}
             \cup {drawn[w] : w \in Workers} \cup {wire[w] : w \in Workers}
HandlesInUse == {h \in Handles : keyOf[h] # None} \cup {call[w] : w \in Workers}

-----------------------------------------------------------------------------
GoTo(w, l) == pc' = [pc EXCEPT ![w] = l]

\* worker_fail: record the error, ask the whole run to stop.
WorkerFail(w, l) ==
    /\ failed' = [failed EXCEPT ![w] = TRUE]
    /\ stop' = TRUE
    /\ GoTo(w, l)

\* Both pipelines are built, in order, before any worker exists.
Init ==
    /\ pc = [w \in Workers |-> "unborn"]
    /\ iter = [w \in Workers |-> 0]
    /\ iters = [w \in Workers |-> 0]
    /\ failed = [w \in Workers |-> FALSE]
    /\ call = [w \in Workers |-> None]
    /\ wire = [w \in Workers |-> None]
    /\ drawn = [w \in Workers |-> None]
    /\ todo = [w \in Workers |-> {}]
    /\ loaded = [w \in Workers |-> None]
    /\ handle \in FirstNames(Handles)
    /\ blob \in FirstNames(Keys)
    /\ keyOf = [h \in Handles |->
                  IF \E p \in Pipes : handle[p] = h
                  THEN blob[CHOOSE p \in Pipes : handle[p] = h] ELSE None]
    /\ readers = {}
    /\ writer = None
    /\ stop = FALSE
    /\ signal = FALSE
    /\ deadline = FALSE
    /\ active = Cardinality(Workers)
    /\ stamped = FALSE
    /\ main = "spawn"
    /\ exit = "running"

-----------------------------------------------------------------------------
(* iterate(): refill, read lock, encrypt, decrypt, compare, count, unlock.  *)

Refill(w) ==
    /\ pc[w] = "refill"
    /\ GoTo(w, "lock_shared")
    /\ UNCHANGED <<iter, iters, failed, call, wire, drawn, todo, loaded, pipeVars, lockVars, stop, runVars>>

\* iterate() returned false: the warmup goes on to the barriers, a later
\* iteration breaks out of the loop.
AfterFailure(w) == IF iter[w] = 0 THEN "warmup_done" ELSE "done"

RefillFails(w) ==
    /\ pc[w] = "refill" /\ "refill" \in Faults
    /\ WorkerFail(w, AfterFailure(w))
    /\ UNCHANGED <<iter, iters, call, wire, drawn, todo, loaded, pipeVars, lockVars, runVars>>

\* Mutant: the round-trip runs without asking for the read side.
LockSharedAnyway(w) ==
    /\ pc[w] = "lock_shared"
    /\ readers' = readers \cup {w}
    /\ GoTo(w, "encrypt")
    /\ UNCHANGED <<iter, iters, failed, call, wire, drawn, todo, loaded, pipeVars, writer, stop, runVars>>

LockShared(w) ==
    /\ pc[w] = "lock_shared" /\ writer = None
    /\ readers' = readers \cup {w}
    /\ GoTo(w, "encrypt")
    /\ UNCHANGED <<iter, iters, failed, call, wire, drawn, todo, loaded, pipeVars, writer, stop, runVars>>

StartCall(w, from, to) ==
    /\ pc[w] = from
    /\ call' = [call EXCEPT ![w] = handle[PipeOf(w)]]
    /\ GoTo(w, to)
    /\ UNCHANGED <<iter, iters, failed, wire, drawn, todo, loaded, pipeVars, lockVars, stop, runVars>>

EncryptCall(w) == StartCall(w, "encrypt", "encrypting")

EncryptReturns(w) ==
    /\ pc[w] = "encrypting" /\ keyOf[call[w]] # None
    /\ wire' = [wire EXCEPT ![w] = keyOf[call[w]]]
    /\ call' = [call EXCEPT ![w] = None]
    /\ GoTo(w, "decrypt")
    /\ UNCHANGED <<iter, iters, failed, drawn, todo, loaded, pipeVars, lockVars, stop, runVars>>

DecryptCall(w) == StartCall(w, "decrypt", "decrypting")

DecryptReturns(w) ==
    /\ pc[w] = "decrypting" /\ keyOf[call[w]] = wire[w]
    /\ wire' = [wire EXCEPT ![w] = None]
    /\ call' = [call EXCEPT ![w] = None]
    /\ GoTo(w, "compare")
    /\ UNCHANGED <<iter, iters, failed, drawn, todo, loaded, pipeVars, lockVars, stop, runVars>>

\* A freed handle and a wire made under other masters both answer a status.
CipherFails(w) ==
    /\ \/ pc[w] = "encrypting" /\ ("encrypt" \in Faults \/ keyOf[call[w]] = None)
       \/ pc[w] = "decrypting" /\ ("decrypt" \in Faults \/ keyOf[call[w]] # wire[w])
    /\ wire' = [wire EXCEPT ![w] = None]
    /\ call' = [call EXCEPT ![w] = None]
    /\ WorkerFail(w, "unlock_shared")
    /\ UNCHANGED <<iter, iters, drawn, todo, loaded, pipeVars, lockVars, runVars>>

Compare(w) ==
    /\ pc[w] = "compare"
    /\ iters' = [iters EXCEPT ![w] = Count(@)]
    /\ GoTo(w, "unlock_shared")
    /\ UNCHANGED <<iter, failed, call, wire, drawn, todo, loaded, pipeVars, lockVars, stop, runVars>>

\* Other bytes than the plaintext: _Exit(3), nothing runs afterwards.
DataMismatch(w) ==
    /\ pc[w] = "compare" /\ "corrupt" \in Faults
    /\ exit' = "mismatch"
    /\ UNCHANGED <<workerVars, pipeVars, lockVars, stop, signal, deadline, active, stamped, main>>

UnlockShared(w) ==
    /\ pc[w] = "unlock_shared"
    /\ readers' = readers \ {w}
    /\ GoTo(w, IF failed[w] \/ iter[w] = 0 THEN AfterFailure(w) ELSE "maintain")
    /\ UNCHANGED <<iter, iters, failed, call, wire, drawn, todo, loaded, pipeVars, writer, stop, runVars>>

-----------------------------------------------------------------------------
(* worker_main(): the loop after the warmup, up to its budget or a stop.   *)

\* Mutant: the warmup iteration is taken off the budget a second time.
SpentEarly(w) == Iterations > 0 /\ iter[w] + 1 >= Iterations

Spent(w) == Iterations > 0 /\ iter[w] >= Iterations

LoopEnter(w) ==
    /\ pc[w] = "loop" /\ ~ Spent(w) /\ ~ stop
    /\ GoTo(w, "refill")
    /\ UNCHANGED <<iter, iters, failed, call, wire, drawn, todo, loaded, pipeVars, lockVars, stop, runVars>>

LoopLeave(w) ==
    /\ pc[w] = "loop" /\ (Spent(w) \/ stop)
    /\ GoTo(w, "done")
    /\ UNCHANGED <<iter, iters, failed, call, wire, drawn, todo, loaded, pipeVars, lockVars, stop, runVars>>

\* Mutant: the test for the last worker comes before the decrement.
WorkerDoneEarlyTest(w) ==
    /\ pc[w] = "done" /\ main # "poll"
    /\ active' = active - 1
    /\ stamped' = (stamped \/ active = 0)
    /\ GoTo(w, "returned")
    /\ UNCHANGED <<iter, iters, failed, call, wire, drawn, todo, loaded, pipeVars, lockVars, stop,
                   signal, deadline, main, exit>>

\* worker_done: under done_mu, which main holds while it polls.
WorkerDone(w) ==
    /\ pc[w] = "done" /\ main # "poll"
    /\ active' = active - 1
    /\ stamped' = (stamped \/ active' = 0)
    /\ GoTo(w, "returned")
    /\ UNCHANGED <<iter, iters, failed, call, wire, drawn, todo, loaded, pipeVars, lockVars, stop,
                   signal, deadline, main, exit>>

-----------------------------------------------------------------------------
(* worker_maintenance(): master rotation, then blob reopen, each when due. *)

NextIteration(w) ==
    /\ iter' = [iter EXCEPT ![w] = Bump(@)]
    /\ GoTo(w, "loop")

Maintain(w) ==
    /\ pc[w] = "maintain"
    /\ IF Due(RekeyEvery, iter[w])
       THEN GoTo(w, "draw") /\ UNCHANGED iter
       ELSE IF Due(BlobCycleEvery, iter[w])
            THEN GoTo(w, "lock_reopen") /\ UNCHANGED iter
            ELSE NextIteration(w)
    /\ UNCHANGED <<iters, failed, call, wire, drawn, todo, loaded, pipeVars, lockVars, stop, runVars>>

\* The masters are drawn before the lock is asked for.
DrawMasters(w) ==
    /\ pc[w] = "draw"
    /\ IF KeyedLayers
       THEN \E k \in Keys : Least(k, Keys \ KeysInUse) /\ drawn' = [drawn EXCEPT ![w] = k]
       ELSE UNCHANGED drawn
    /\ GoTo(w, "lock_rekey")
    /\ UNCHANGED <<iter, iters, failed, call, wire, todo, loaded, pipeVars, lockVars, stop, runVars>>

DrawFails(w) ==
    /\ pc[w] = "draw" /\ KeyedLayers /\ "csprng" \in Faults
    /\ WorkerFail(w, "done")
    /\ UNCHANGED <<iter, iters, call, wire, drawn, todo, loaded, pipeVars, lockVars, runVars>>

\* Mutant: a mutex of the writers' own, which lets readers be.
LockExclusiveAmongWriters(w, from, to) ==
    /\ pc[w] = from /\ writer = None
    /\ writer' = w
    /\ todo' = [todo EXCEPT ![w] = Pipes]
    /\ GoTo(w, to)
    /\ UNCHANGED <<iter, iters, failed, call, wire, drawn, loaded, pipeVars, readers, stop, runVars>>

\* Mutant: the lock is only tried, and a worker that finds readers goes on.
LockExclusiveTries(w, from, to) ==
    /\ pc[w] = from /\ writer = None
    /\ IF readers = {}
       THEN /\ writer' = w /\ todo' = [todo EXCEPT ![w] = Pipes] /\ GoTo(w, to)
            /\ UNCHANGED <<iter, drawn>>
       ELSE /\ NextIteration(w) /\ drawn' = [drawn EXCEPT ![w] = None]
            /\ UNCHANGED <<writer, todo>>
    /\ UNCHANGED <<iters, failed, call, wire, loaded, pipeVars, readers, stop, runVars>>

LockExclusive(w, from, to) ==
    /\ pc[w] = from /\ writer = None /\ readers = {}
    /\ writer' = w
    /\ todo' = [todo EXCEPT ![w] = Pipes]
    /\ GoTo(w, to)
    /\ UNCHANGED <<iter, iters, failed, call, wire, drawn, loaded, pipeVars, readers, stop, runVars>>

LockRekey(w) == LockExclusive(w, "lock_rekey", "rekey")

\* No layer on: Rekey is given no bytes and leaves the masters alone.
Rotated(w, p) == IF KeyedLayers THEN drawn[w] ELSE keyOf[handle[p]]

\* Mutant: the blob rekey returns is dropped.
RekeyPipeKeepsBlob(w) ==
    /\ pc[w] = "rekey" /\ todo[w] # {}
    /\ LET p == NextPipe(todo[w]) IN
         /\ keyOf' = [keyOf EXCEPT ![handle[p]] = Rotated(w, p)]
         /\ todo' = [todo EXCEPT ![w] = @ \ {p}]
    /\ UNCHANGED <<pc, iter, iters, failed, call, wire, drawn, loaded, handle, blob, lockVars, stop, runVars>>

RekeyPipe(w) ==
    /\ pc[w] = "rekey" /\ todo[w] # {}
    /\ LET p == NextPipe(todo[w]) IN
         /\ keyOf' = [keyOf EXCEPT ![handle[p]] = Rotated(w, p)]
         /\ blob' = [blob EXCEPT ![p] = Rotated(w, p)]
         /\ todo' = [todo EXCEPT ![w] = @ \ {p}]
    /\ UNCHANGED <<pc, iter, iters, failed, call, wire, drawn, loaded, handle, lockVars, stop, runVars>>

\* The status may come before the masters changed, or after: with the new
\* blob not delivered, the retained one is left behind.
RekeyFails(w) ==
    /\ pc[w] = "rekey" /\ todo[w] # {} /\ "rekey" \in Faults
    /\ LET p == NextPipe(todo[w]) IN
         \E k \in {keyOf[handle[p]], Rotated(w, p)} : keyOf' = [keyOf EXCEPT ![handle[p]] = k]
    /\ todo' = [todo EXCEPT ![w] = {}]
    /\ drawn' = [drawn EXCEPT ![w] = None]
    /\ WorkerFail(w, "unlock_failed")
    /\ UNCHANGED <<iter, iters, call, wire, loaded, handle, blob, lockVars, runVars>>

UnlockRekey(w) ==
    /\ pc[w] = "rekey" /\ todo[w] = {}
    /\ writer' = None
    /\ drawn' = [drawn EXCEPT ![w] = None]
    /\ IF Due(BlobCycleEvery, iter[w])
       THEN GoTo(w, "lock_reopen") /\ UNCHANGED iter
       ELSE NextIteration(w)
    /\ UNCHANGED <<iters, failed, call, wire, todo, loaded, pipeVars, readers, stop, runVars>>

LockReopen(w) == LockExclusive(w, "lock_reopen", "reopen")

LoadFresh(w) ==
    /\ pc[w] = "reopen" /\ todo[w] # {}
    /\ \E h \in Handles :
         /\ Least(h, Handles \ HandlesInUse)
         /\ keyOf' = [keyOf EXCEPT ![h] = blob[NextPipe(todo[w])]]
         /\ loaded' = [loaded EXCEPT ![w] = h]
    /\ GoTo(w, "swap")
    /\ UNCHANGED <<iter, iters, failed, call, wire, drawn, todo, handle, blob, lockVars, stop, runVars>>

\* A failing Load leaves the running handle, and the pipes not yet visited.
LoadFails(w) ==
    /\ pc[w] = "reopen" /\ todo[w] # {} /\ "load" \in Faults
    /\ todo' = [todo EXCEPT ![w] = {}]
    /\ WorkerFail(w, "unlock_failed")
    /\ UNCHANGED <<iter, iters, call, wire, drawn, loaded, pipeVars, lockVars, runVars>>

\* Mutant: the running handle is overwritten and never freed.
SwapInLeaks(w) ==
    /\ pc[w] = "swap"
    /\ LET p == NextPipe(todo[w]) IN
         /\ handle' = [handle EXCEPT ![p] = loaded[w]]
         /\ todo' = [todo EXCEPT ![w] = @ \ {p}]
    /\ loaded' = [loaded EXCEPT ![w] = None]
    /\ GoTo(w, "reopen")
    /\ UNCHANGED <<iter, iters, failed, call, wire, drawn, blob, keyOf, lockVars, stop, runVars>>

\* Move-assignment: the running handle is freed, the fresh one takes its place.
SwapIn(w) ==
    /\ pc[w] = "swap"
    /\ LET p == NextPipe(todo[w]) IN
         /\ keyOf' = [keyOf EXCEPT ![handle[p]] = None]
         /\ handle' = [handle EXCEPT ![p] = loaded[w]]
         /\ todo' = [todo EXCEPT ![w] = @ \ {p}]
    /\ loaded' = [loaded EXCEPT ![w] = None]
    /\ GoTo(w, "reopen")
    /\ UNCHANGED <<iter, iters, failed, call, wire, drawn, blob, lockVars, stop, runVars>>

UnlockReopen(w) ==
    /\ pc[w] = "reopen" /\ todo[w] = {}
    /\ writer' = None
    /\ NextIteration(w)
    /\ UNCHANGED <<iters, failed, call, wire, drawn, todo, loaded, pipeVars, readers, stop, runVars>>

UnlockFailed(w) ==
    /\ pc[w] = "unlock_failed"
    /\ writer' = None
    /\ GoTo(w, "done")
    /\ UNCHANGED <<iter, iters, failed, call, wire, drawn, todo, loaded, pipeVars, readers, stop, runVars>>

-----------------------------------------------------------------------------
(* run(): the main thread, and the two barriers it shares with the workers. *)

SpawnWorker(w) ==
    /\ main = "spawn" /\ pc[w] = "unborn"
    /\ GoTo(w, "refill")
    /\ main' = IF \E v \in Workers \ {w} : pc[v] = "unborn" THEN "spawn" ELSE "warmup_done"
    /\ UNCHANGED <<iter, iters, failed, call, wire, drawn, todo, loaded, pipeVars, lockVars, stop,
                   signal, deadline, active, stamped, exit>>

\* Mutant: a barrier for one participant too few.
WarmupBarrierShort ==
    /\ main = "warmup_done"
    /\ \E v \in Workers : \A w \in Workers \ {v} : pc[w] = "warmup_done"
    /\ pc' = [w \in Workers |-> IF pc[w] = "warmup_done" THEN "release" ELSE pc[w]]
    /\ main' = "baseline"
    /\ UNCHANGED <<iter, iters, failed, call, wire, drawn, todo, loaded, pipeVars, lockVars, stop,
                   signal, deadline, active, stamped, exit>>

\* All workers and main arrive; a failed warmup arrives like any other.
WarmupBarrier ==
    /\ main = "warmup_done" /\ \A w \in Workers : pc[w] = "warmup_done"
    /\ pc' = [w \in Workers |-> "release"]
    /\ main' = "baseline"
    /\ UNCHANGED <<iter, iters, failed, call, wire, drawn, todo, loaded, pipeVars, lockVars, stop,
                   signal, deadline, active, stamped, exit>>

\* Baselines, then start_ns, then finish_ns = start_ns, then the gate.
TakeBaselines ==
    /\ main = "baseline"
    /\ stamped' = FALSE
    /\ main' = "release"
    /\ UNCHANGED <<workerVars, pipeVars, lockVars, stop, signal, deadline, active, exit>>

ReleaseBarrier ==
    /\ main = "release" /\ \A w \in Workers : pc[w] = "release"
    /\ pc' = [w \in Workers |-> IF failed[w] THEN "done" ELSE "loop"]
    /\ iter' = [w \in Workers |-> 1]
    /\ main' = "lock_done"
    /\ UNCHANGED <<iters, failed, call, wire, drawn, todo, loaded, pipeVars, lockVars, stop,
                   signal, deadline, active, stamped, exit>>

\* done_mu: taken before the wait loop, and again when wait_for returns,
\* which its 100 ms timeout makes it do whether or not it was notified.
TakeDoneMutex ==
    /\ main \in {"lock_done", "waiting"}
    /\ main' = "poll"
    /\ UNCHANGED <<workerVars, pipeVars, lockVars, stop, signal, deadline, active, stamped, exit>>

\* Mutant: only a signal is turned into the stop request.
PollSignalOnly ==
    /\ main = "poll" /\ active > 0
    /\ stop' = (stop \/ signal)
    /\ main' = "waiting"
    /\ UNCHANGED <<workerVars, pipeVars, lockVars, signal, deadline, active, stamped, exit>>

Poll ==
    /\ main = "poll" /\ active > 0
    /\ stop' = (stop \/ signal \/ (Iterations = 0 /\ deadline))
    /\ main' = "waiting"
    /\ UNCHANGED <<workerVars, pipeVars, lockVars, signal, deadline, active, stamped, exit>>

PollEnds ==
    /\ main = "poll" /\ active = 0
    /\ main' = "join"
    /\ UNCHANGED <<workerVars, pipeVars, lockVars, stop, signal, deadline, active, stamped, exit>>

Join ==
    /\ main = "join" /\ \A w \in Workers : pc[w] = "returned"
    /\ main' = "summary"
    /\ UNCHANGED <<workerVars, pipeVars, lockVars, stop, signal, deadline, active, stamped, exit>>

FinalSummary ==
    /\ main = "summary"
    /\ exit' = IF \E w \in Workers : failed[w] THEN "FAIL" ELSE "PASS"
    /\ UNCHANGED <<workerVars, pipeVars, lockVars, stop, signal, deadline, active, stamped, main>>

\* SIGINT or SIGTERM, at any time after the handlers are installed.
OnSignal ==
    /\ ~ signal
    /\ signal' = TRUE
    /\ UNCHANGED <<workerVars, pipeVars, lockVars, stop, deadline, active, stamped, main, exit>>

\* Time passes duration_ns beyond start_ns.
DeadlinePasses ==
    /\ ~ deadline /\ main \notin {"spawn", "warmup_done", "baseline"}
    /\ deadline' = TRUE
    /\ UNCHANGED <<workerVars, pipeVars, lockVars, stop, signal, active, stamped, main, exit>>

-----------------------------------------------------------------------------
Iterate(w) ==
    \/ Refill(w) \/ RefillFails(w) \/ LockShared(w)
    \/ EncryptCall(w) \/ EncryptReturns(w) \/ DecryptCall(w) \/ DecryptReturns(w)
    \/ CipherFails(w) \/ Compare(w) \/ DataMismatch(w) \/ UnlockShared(w)

Maintenance(w) ==
    \/ Maintain(w) \/ DrawMasters(w) \/ DrawFails(w)
    \/ LockRekey(w) \/ RekeyPipe(w) \/ RekeyFails(w) \/ UnlockRekey(w)
    \/ LockReopen(w) \/ LoadFresh(w) \/ LoadFails(w) \/ SwapIn(w) \/ UnlockReopen(w)
    \/ UnlockFailed(w)

WorkerStep(w) ==
    /\ exit = "running"
    /\ Iterate(w) \/ Maintenance(w) \/ LoopEnter(w) \/ LoopLeave(w) \/ WorkerDone(w)

MainStep ==
    /\ exit = "running"
    /\ \/ \E w \in Workers : SpawnWorker(w)
       \/ WarmupBarrier \/ TakeBaselines \/ ReleaseBarrier
       \/ TakeDoneMutex \/ Poll \/ PollEnds \/ Join \/ FinalSummary

Environment == exit = "running" /\ (OnSignal \/ DeadlinePasses)

Exited == exit # "running" /\ UNCHANGED vars

Next == (\E w \in Workers : WorkerStep(w)) \/ MainStep \/ Environment \/ Exited

Spec == Init /\ [][Next]_vars

\* Every thread is scheduled, and time passes.  done_mu is strongly fair to a
\* returning worker: main leaves it free for 100 ms in every round.  Nothing is
\* assumed of signals, of failures, or of which waiter pipe_lock prefers.
Fairness ==
    /\ \A w \in Workers : WF_vars(WorkerStep(w))
    /\ \A w \in Workers : SF_vars(exit = "running" /\ WorkerDone(w))
    /\ WF_vars(MainStep)
    /\ WF_vars(exit = "running" /\ DeadlinePasses)

FairSpec == Spec /\ Fairness

-----------------------------------------------------------------------------
(* Properties.                                                             *)

ReadLocs == {"encrypt", "encrypting", "decrypt", "decrypting", "compare", "unlock_shared"}
WriteLocs == {"rekey", "reopen", "swap", "unlock_failed"}
Locations == ReadLocs \cup WriteLocs \cup
    {"unborn", "refill", "lock_shared", "warmup_done", "release", "loop", "maintain",
     "draw", "lock_rekey", "lock_reopen", "done", "returned"}
MainLocations == {"spawn", "warmup_done", "baseline", "release", "lock_done", "poll",
                  "waiting", "join", "summary"}

\* The types of the variables.
TypeOK ==
    /\ pc \in [Workers -> Locations]
    /\ iter \in [Workers -> Nat]
    /\ iters \in [Workers -> Nat]
    /\ failed \in [Workers -> BOOLEAN]
    /\ call \in [Workers -> Handles \cup {None}]
    /\ wire \in [Workers -> Keys \cup {None}]
    /\ drawn \in [Workers -> Keys \cup {None}]
    /\ todo \in [Workers -> SUBSET Pipes]
    /\ loaded \in [Workers -> Handles \cup {None}]
    /\ handle \in [Pipes -> Handles]
    /\ blob \in [Pipes -> Keys]
    /\ keyOf \in [Handles -> Keys \cup {None}]
    /\ readers \in SUBSET Workers
    /\ writer \in Workers \cup {None}
    /\ stop \in BOOLEAN /\ signal \in BOOLEAN /\ deadline \in BOOLEAN /\ stamped \in BOOLEAN
    /\ active \in Int
    /\ main \in MainLocations
    /\ exit \in {"running", "mismatch", "FAIL", "PASS"}

\* No rekey and no blob reopen lands between an encrypt and its decrypt, not
\* even in a run some failure is already stopping: a call in flight is on the
\* open handle its pipe owns, and the wire in a worker's hands opens under it.
RoundTripUnderOneKeying ==
    \A w \in Workers :
        /\ call[w] # None => call[w] = handle[PipeOf(w)] /\ keyOf[call[w]] # None
        /\ pc[w] \in {"decrypt", "decrypting"} => wire[w] = keyOf[handle[PipeOf(w)]]

\* No handle is rekeyed or freed while a cipher call is in flight on it
\* (loop.hpp on pipe_lock; itb3.hpp on rekey).
MutationExcludesCalls ==
    [][\A w \in Workers :
         call[w] # None => /\ keyOf'[call[w]] = keyOf[call[w]]
                           /\ \A p \in Pipes : handle'[p] = handle[p]]_vars

\* With the lock free the Go side holds exactly one handle per pipe, the one
\* that pipe owns: maintenance neither leaks nor shares one, even when it fails.
HandlesAccounted ==
    writer = None =>
        /\ {h \in Handles : keyOf[h] # None} = {handle[p] : p \in Pipes}
        /\ \A p, q \in Pipes : p # q => handle[p] # handle[q]

\* While no worker has failed, the retained blob is the one the live masters
\* came from, so a reopen proves the bytes that were handed out.
BlobCarriesLiveMasters ==
    (writer = None /\ \A w \in Workers : ~ failed[w]) =>
        \A p \in Pipes : blob[p] = keyOf[handle[p]]

\* The baselines are taken of a quiescent process that has run the whole
\* cipher path once per worker, and no later iteration starts before them.
BaselineAfterWarmup ==
    /\ main = "baseline" =>
         \A w \in Workers : pc[w] = "release" /\ (failed[w] \/ iters[w] = 1)
    /\ main \in {"spawn", "warmup_done", "baseline", "release"} =>
         \A w \in Workers : iter[w] = 0 /\ iters[w] <= 1

\* A PASS of a fixed-budget run that no signal cut short counts exactly the
\* budget for every worker, the warmup iteration included.
BudgetHonoured ==
    (exit = "PASS" /\ Iterations > 0 /\ ~ signal) => \A w \in Workers : iters[w] = Iterations

\* Past the wait the elapsed time ends at the last worker's return, although
\* workers that failed their warmup return as soon as the gate opens.
ElapsedStamped == main \in {"join", "summary"} => (stamped /\ active = 0)

\* The run ends: a failing warmup passes both barriers, a deadline or an error
\* stops every worker, and no wakeup of main is lost.
Termination == <>(exit # "running")

\* Every worker that asks for the exclusive side of pipe_lock gets it, before the
\* run is over: not one gives up, is overtaken for ever, or waits for a reader
\* that failed.  std::shared_mutex promises no preference and readers may overlap
\* for as long as the run lasts; the stop request is what drains them in the end.
MaintenanceServed ==
    \A w \in Workers : pc[w] \in {"lock_rekey", "lock_reopen"} ~> writer = w

=============================================================================
