# TLA+ models of itb-cpp

itb-cpp is the C++ binding of libitb3, a Go shared library of symmetric
ciphers: RAII objects over opaque handles (`src/include/itb3.hpp`,
`src/src/`), a loop harness that stresses them from many threads
(`src/loop/`), a small command (`src/eitb/`) and benchmarks.  This directory
holds models of the parts of it whose correctness depends on order, on
ownership, on retries, on partial failure or on the width of integers; the
configurations that check them with TLC on small instances; and proofs, checked
by TLAPS, that every safety property and every refinement of the passing runs
holds for all values of the constants.  Only liveness is left to TLC alone.

libitb3 itself is not in the repository.  What the models say of it (sessions,
statuses, sizes, the diagnostic, the runtime's settings, the reading of options)
is what the header, the callers and the tests rely on, and such definitions are
marked `external` in `PROJECT.json`.

## 1. The system

### Components, state, operations

| Component | State | Operations | What makes it correct |
|---|---|---|---|
| Loop harness (`loop/main.cpp`, `worker.cpp`, `ops.cpp`) | two shared pipelines and their retained blobs, `pipe_lock`, the two barriers, `stop`, `signal_seen`, `done_mu`/`active`/`finish_ns`, each worker's counters and error | `iterate`, `rekey_pipes`, `blob_cycle_pipes`, `worker_maintenance`, `worker_main`, `worker_done`, `worker_fail`, `run` | a round-trip is never split by maintenance; maintenance neither leaks nor shares a handle; the retained blob is live; the run ends, with counts and stamps that are true |
| Start of a run (`main.cpp`) | Go runtime settings, the pipelines and blobs under construction, a plaintext per worker | runtime shaping, `build_pipeline`, `fill_keystream_layers`, the exits 0, 1 and 2 | the reported settings are in force; a failed start leaves no pipeline; a start that succeeds gives the workers what they take for granted |
| Command line of the harness (`main.cpp`) | raw flag values | flag tables, `parse_argv`, `parse_flags`, `profile_surface`, `narrow_shape` | a flag has the value its last mention gave it; an accepted line is usable |
| Payloads (`payload.cpp`) | a generator per worker, the plaintexts | `seed_worker`, `splitmix64`, `fill_random`, `fill_payload` | plaintexts are what their mode promises, whole; workers' buffers differ |
| `Opts` (`opts.cpp`) | the query | `set`, `encode_into`, `url_safe` | what is read out is what was put in |
| Runtime knobs (`runtime.cpp`) | the Go runtime's limit, GC percentage and processor count | the three setters, which ask when given a negative value | asking changes nothing |
| Pipeline and Stream handles (`pipeline.cpp`, `stream.cpp`, `itb3.hpp`) | `handle_` of every object; Go-side pipelines and sessions | `init`, `init_keys`, `load`, `load_f`, moves, `close`, destructors, `*_stream_begin` | each Go-side resource has one holder and is released once |
| Whole-buffer stream pumps (`stream.cpp`, `pump_body` in `worker.cpp`) | cursor, offset, buffer, restarts; the session's spool | `pump_into`, `pump_alloc`, `pump_body` | the output is whole, buffers are refused and grown only when they must be, the call ends |
| Variable-size output dispatch (`pipeline.cpp`) | scratch buffer, reported length, the one retry | `buf_call`, `cipher_call`, `cipher_call_into`, the wipes | one call's output is handed over, key material never goes back to the allocator |
| Diagnostics (`error.cpp`, `detail()` in `main.cpp`) | one process-wide text on the Go side | `last_error`, `fail`, `detail` | an error names its own failure |
| Sizes (`loop/size.cpp`, `out_cap` in `error.cpp`) | none | `parse_size`, `out_cap`, `out_bound` | a text is the number it spells, and no product or sum wraps unnoticed |
| `eitb` command (`eitb/eitb.cpp`) | files, and blobs that pass from one invocation to the next as hex | `encrypt`, `decrypt`, `version`, `profiles` | exit code 0 means a whole file that opens; a refusal touches no file |
| Summary (`summary.cpp`) | none | verdict, exit code, report | the verdict is FAIL iff a worker failed |
| Benchmarks | none | timing loops | - |

### How they interact

* `run()` resolves the command line, shapes the Go runtime, builds one pipeline
  per surface the shape needs, fills one plaintext per worker and spawns the
  workers.  The last state of the start is an initial state of the loop.
* A worker calls the message entries, the pumps of the binding or its own
  `pump_body` on a shared `Pipeline` under the read side of `pipe_lock`; those
  that stream open a session, which is freed before the call returns.
  Maintenance calls `rekey`, `load` and move-assignment under the write side.
* The main thread and the workers meet at two barriers (`warmup_done`,
  `release`).  After them main polls under `done_mu` every 100 ms for a signal
  or a deadline and sets `stop`, which workers read at the head of their loop.
* Every failing library call goes through `check`, `fail` and `last_error`,
  which read the process-wide diagnostic in a call of its own.
* The pumps and `cipher_call` take their first capacity from `out_cap`; the
  payload size it is given comes from `parse_size` in the harness.
* `eitb` reads a file whole, runs one cipher call of the surface the profile's
  name suggests, writes the result whole and prints the blob; `decrypt` is given
  that blob back, in another process.

### What is hard

Concurrency: workers against maintenance on shared handles; a lock that is held
over a whole round-trip; the last worker's return against main's poll; the
process-wide diagnostic.  Partial failure: maintenance that fails between the
first pipe and the second, a `load` that throws, a `save` that fails after `init`
has opened a pipeline, an allocation that throws after Go has opened one, a short
`getrandom`, a full disk.  Stale data: a size told by one call and used by the
next, a diagnostic fetched a second time, a setting reported after it was
overwritten.  Order: output that arrives in any portion, before or after `end`,
with the finished flag on the last portion or after it; flags that swallow the
next argument; an output file that is the input.  Arithmetic: capacities near
SIZE_MAX, products near INT64_MAX, generator states that wrap.
The library persists nothing, so there is no crash recovery, and there are no
messages to be lost.  `PROJECT.json` lists each of these at its line, with the
properties that cover it.

## 2. The modules

Each component has one module with its state, actions and properties; `MC*`
modules and `.cfg` files instantiate it; a `*Proofs` module extends it with
theorems.  Mutants, definitions that carry a plausible bug, stand directly before
the definition they vary and are used by no action.

```
CommandLine  Opts  Payload            WholeCall        HandleLifecycle   (abstract)
      \       |       /                /      \                |
        HarnessStart               StreamPump  BufferCall   PipelineHandles
             |  HandsOver
        LoopHarness            Sizing     Diagnostics     EitbCommand
```

`HarnessStart` extends the three modules above it and hands over to an
`INSTANCE` of `LoopHarness`; `StreamPump` and `BufferCall` refine `WholeCall`;
`PipelineHandles` refines `HandleLifecycle`, twice.

### LoopHarness

One action per step of a thread that another thread can observe: the steps of
`iterate` (`Refill`, `LockShared`, `EncryptCall`/`EncryptReturns`,
`DecryptCall`/`DecryptReturns`, `Compare`, `UnlockShared`), of `rekey_pipes`
(`DrawMasters`, which is outside the lock as in the code, `LockRekey`, one
`RekeyPipe` per pipe in the code's order, `UnlockRekey`), of `blob_cycle_pipes`
(`LoadFresh`, then `SwapIn`, the move-assignment that frees the running
handle), of `worker_main` and of `run`.  Error paths are actions of their own.
Failing inside a warmup goes on to both barriers, as the code does.

Cryptography is abstracted to the masters in force: `keyOf[h]` is the key set
of an open handle, `wire[w]` the key set a wire was made under, and a decrypt
succeeds iff they agree.  A call reads `handle` when it starts and `keyOf` when
it returns, so a mutation in between would show as a call whose handle is gone or
a wire that does not open.  Failures from outside are members of `Faults`.  A `rekey` that fails may or may not have changed the
masters.

Timing figures, byte counters and memory statistics are left out.  In duration
mode the loop counter wraps at a common multiple of its periods (`Bump`), since
only its remainders matter.

### HarnessStart, with CommandLine, Opts and Payload

`HarnessStart` is `run()` before its threads, one action per step that can
fail or be observed: arguments, validation, `ShapeRuntime`, `ComposeOpts`,
`InitSucceeds`/`InitFails`/`InitThrowsLate`, `SaveSucceeds`/`SaveFails` for each
pipe, the allocation, seeding and filling of each plaintext, and `HandOver`.  Every way
out is a `Return`, which destroys the `RunState` and its pipelines.  After the
hand-over only the refills of the rotating mode go on (`BeginRefill`, `Refill`);
everything else belongs to `LoopHarness`.  `HandsOver` instantiates that module
with the configuration that was built, and states that its assumptions and its
`Init` hold and that every surface its iterations may choose has a pipe of a
profile that serves this surface.

`InitThrowsLate` is the constructor that throws when Go has opened the pipeline
already (`pipeline.cpp:62-68`); the program ends with 1, and with one pipeline
that nobody closes.

* `CommandLine`: an argument is a record (the flag it names, the value after
  `=`, and the text it has when the flag before it swallows it); `TakeArgument`
  takes one, `Config` and `Accepted` are `parse_flags`.  The names of hashes are
  looked for as a quoted text in the library's JSON, where two neighbours with the
  `","` between them stand in quotes as well: `Hashes` is the set of all such
  texts, and the runs have one of that kind.  The number, size and
  duration parsers are tables given as constants.
* `Opts`: a text is a sequence of symbols, runs of safe characters and single
  characters that need an escape; `Decoded` is the library's reading of the query.
* `Payload`: splitmix64 for words of any width, its finalizer an injective
  `Bytes`; `fill_random` fetches any positive number of bytes at a time.  A buffer
  is not cleared first, so a missed step leaves what stood there.

### HandleLifecycle and PipelineHandles

`HandleLifecycle` is the abstract promise: a resource has one holder from its
creation to its release, the holder may change, a resource never comes back.
`PipelineHandles` has the objects (`obj`, `strm`: the value of `handle_`), the
Go side (`go`, `session`) and a constructor in progress (`ctor`), and one action
per special member function and constructor outcome. `lost` records the handles
whose constructor threw when Go had opened them: the init blob could not be copied
(`InitCopyThrows`), or its reported length was beyond the buffer
(`InitMiscounted`). They count as held by the constructor for ever, released by
nobody. It maps to the abstract module twice, for pipelines
(`PipelineLife`) and for sessions (`SessionLife`), with `held` the set of
objects whose `handle_` is the resource. A freed resource is never reused, so
`Handles` and `Sessions` bound how many are made.

### WholeCall, StreamPump and BufferCall

`WholeCall` is what the binding promises of every call with a variable-size
output: the whole output the object had at one moment of the call, or an
exception and nothing.

`StreamPump` is `pump_into` and `pump_alloc` with their session, and the
harness's own `pump_body`, the same loop over a vector (`grows`).  The chain
produces on its own (`Produce`, `ChainFails`); a `read` before `end` answers at
once, a read after it blocks on an empty spool (`Answers`).  The comment in
`pump_into` says that `finished` comes with the read that takes the last byte;
`tests/test_pipeline_reuse_repro.cpp:136-141` says that it can lag that byte.
`lags` chooses: where the flag may lag, the pump reads once more, and is rejected
if the last byte has filled its buffer.  So the room with which no pump is rejected
(`Needed`) is the output, and one byte more where the flag may lag.  `Retries` bounds the doublings of `pump_alloc`, `cap` wraps at `CapMax + 1`.
`holdsTail` says whether this chain keeps some output back until `end`.

`BufferCall` is the four dispatches with a variable-size output, as one module
with a `style`.  The buffer is its size and the bytes of output in it.  Every way
out and every growth gives memory back (`GiveBack`), with what is in it after
`buf_call`'s guard (`Scrubbed`) or the wipe of `init`'s vector (`Wiped`); `spilt`
records that this was output.  `Change` lets the object behind the call change at
any time, `offered` remembers the sizes it has had, `met` those it had at the
calls, and `Miscounts` lets the library report lengths that are wrong (`lied`).

### Diagnostics

Each failing call overwrites `last`; `last_error` is `Fetch` and, for a long
sentence, `FetchTooSmall` and `Refetch`; any other status leaves the text empty
(`FetchFails`, remembered in `refused`).  A handler prints `what()`
(`HandleWhat`) or calls `detail()` (`HandleDetail`), which fetches again.

### Sizing

`parse_size` on texts that are sequences of characters, because its properties
are about what a text spells: trimming, capitals, the search for a suffix in the
table's order, digits, the guard by division.  White space is one character.
`Number` is the recursive function that `strtoll` computes digit by digit.
`ReadAsWritten` compares all this with `Written`, the texts that the grammar in
the comment of `parse_size` generates, each with its size; `Longest` bounds
the lengths generated, and is the length of the longest text given.
`out_cap` in arithmetic modulo `Modulus`.

### EitbCommand

Invocations one after the other.  A content is a plaintext, the wire of a content
under a pipeline, noise (what a pipeline without a MAC makes of a wire that is
not its own), or torn (what an unfinished write leaves).  `CreateFile` truncates,
before `WriteFile` or `WriteFails`; the output may be the input.  The blob is bytes
that are printed as hex by `HexOf` and read by `ReadsAsHex` and `BytesOf`, so
that a blob really passes through its text; blob arguments of odd length or with
other characters are refused (`HexRefused`).  The name of the profile chooses the
pair of calls, message or stream (`Pair`), and nothing in `eitb` compares it with
the pipeline the blob holds.  A wire that was sealed by the other pair may
be opened, refused or, without a MAC, become noise: what the library does with it
is left open, since the tests round-trip message calls on streaming profiles too.
Every step may fail: the files (`FileRefused`), the library and memory (`Throws`),
the write (`WriteFails`), the save (`SaveFails`).

## 3. What the runs check

All runs are exhaustive over the instance given; each finishes within a minute or
two on two cores.

| Run | Question | Instance |
|---|---|---|
| `harness` | Can any interleaving leak, share or change a handle under a call, split a round-trip, leave a blob stale, or spoil the budget, the baselines or the stamp? | 3 workers (symmetry), both pipes, 2 iterations, rekey and reopen after each, all seven kinds of failure; about a million states |
| `harness_duration` | Does a run without budget end, and does every worker that asks for the exclusive lock get it? | 2 workers, one pipe, fairness |
| `start` | Do flags mean what they say, is the reported runtime in force, do options arrive, does a failed start leave nothing, are plaintexts what they should be, and does the loop start where `LoopHarness` starts? | some 1300 command lines, 2 environments, up to 4 workers, a generator of 1100 two-byte words, int64s up to 549 |
| `start_distinct` (violation) | Are seeded buffers distinct at every payload size? | the same |
| `handles` | Does any sequence of moves, closes and destructors reach a freed resource, and do pipelines and sessions live the abstract life? | 3 objects and 4 handles, 2 stream objects and 3 sessions, symmetry, constructors that may throw late |
| `handles_alloc` (violation) | Is a handle lost when the copy of the blob throws? | the same, with true lengths |
| `pump` | Is the output whole, are growth and refusal justified, is there one session at a time, does the call end, is it one abstract call? | inputs of 0 to 5 in slices of 2, outputs of 1 to 9, buffers of 0 to 10, SIZE_MAX 11, 2 restarts, chains with and without a tail, flags with the last byte or after it, both kinds of destination |
| `buffer` | Is every call one abstract call, does any memory go back with bytes of a blob in it, does a retry fail only when the object grew between the calls? | first buffers of 0 to 4, outputs of 1 to 5, 2 changes, 4 dispatches |
| `diagnostics` | Does an exception carry its own sentence unless overtaken? | 2 threads, 2 failing calls each, sentences below and above the buffer |
| `diagnostics_detail` (violation) | Does a report? | the same with one call each |
| `sizing` | Is every text read as it is written, and does no sum wrap unnoticed? | all texts of up to 5 characters over 7 glyphs, 6-bit `size_t`, 5-bit `int64_t` |
| `eitb` | Does exit code 0 mean a whole file that opens, does a blob come only after its wire, and does a refusal keep the files? | 2 files, 3 pipelines whose blobs have zero nibbles in every place, 3 invocations, profiles of both surfaces |

Every property of a passing run has a mutant in `PROJECT.json`: a form of one of
the mapped definitions with a plausible bug, under which the property fails in
the same run.

Properties that are theorems and that other properties of the run would show as
well are proved only: `TypeOK` of `LoopHarness`,
`PipelineHandles`, `BufferCall`, `Diagnostics`, `Sizing` and `EitbCommand`, and
`CursorFollowsSession`, `ExactSizeAccepted` and `WholeOutputOfOneCall`.

### Why the bounds are enough

* `harness`: three workers are a reader against a reader, a writer against
  readers, and a writer against a writer with a third in between.  Two
  iterations are the warmup and one more, and with periods of one the
  maintenance follows both.  `Keys` and `Handles` are large enough that the least
  unused name always exists: no run deadlocks, and deadlock is checked.  What
  three workers might miss is covered by the proofs, which hold for any number.
* `harness_duration`: two workers suffice for one to be overtaken by the other.
* `start`: flags that interact (shape, profile and layers; limit, GC and
  processors; mode, size, seed and workers) vary together, the others one by
  one; the argument syntax is every sequence of up to three out of nine
  arguments, among them every kind that can be swallowed.  Payloads go from one
  byte (below a word) to beyond two words, seeds reach the wrap of the generator's
  state, limits reach the largest number, counts reach both sides of their limits.
* `handles`: three pipeline objects allow an object moved through another while
  a third takes its place; four handles allow every object to have been refilled
  once.
* `pump`: outputs go from one byte to beyond four times the smallest buffers, so
  zero, one and two restarts occur, and buffers beyond half of SIZE_MAX occur, so
  that the guard against doubling decides.
* `buffer`: buffers are below, at and above the outputs, before and after two
  changes, one before each call.
* `sizing`: six bits reach all three outcomes of `out_cap`; both wraps occur; the
  texts reach every suffix form of two units, mixed case, blanks in every place,
  lengths at the limit and numbers on either side of the guard.
* `eitb`: three invocations are two encrypts and a decrypt, or an encrypt, an
  encrypt of its wire, and a decrypt under the wrong blob; two files are the least
  for input and output to differ, and they may be one.

`CHECK_DEADLOCK FALSE` is set where the modelled program stops: a start that has
left or whose refills have reached `MaxRounds`, and `eitb` after `MaxCommands`
invocations.

### Fairness

* `LoopHarness`: every thread is weakly fair (the scheduler runs a runnable
  thread), time passes (`DeadlinePasses`), and a worker that is in
  `worker_done` gets `done_mu` (strong fairness), because main's `wait_for`
  gives the mutex up for up to 100 ms in every round of its poll.  Nothing is
  assumed of signals, of failures or of which waiter `pipe_lock` prefers:
  `std::shared_mutex` promises no preference, and a maintaining worker may be
  overtaken by readers for as long as the run lasts.  `MaintenanceServed`, that a
  worker at `lock_rekey` or `lock_reopen` becomes the lock's writer, holds all the
  same, because the deadline sets `stop`, the readers leave their loops, and the
  lock falls free for good.  It does not follow from `Termination`: a lock that
  is tried, and the maintenance skipped when it is taken, would let every run end
  (its mutant).
* `StreamPump`: the calling thread is scheduled, and a chain that was told of
  the end of its input finishes or fails.  No failure is forced: whenever one
  would let a pump go on, the call without it is enabled too, and a read that
  blocks cannot report a wrong count.

The other modules have no liveness property: their calls are bounded sequences.

### Findings

The three runs with `expect: violation` are disagreements between the code and
what a document or comment of the repository says; `PROJECT.json` quotes each.

1. `handles_alloc`: between Go's opening of a pipeline and the return of
   `Pipeline::init`, `buf_call` copies the blob.  If that allocation throws, the
   handle is in no object and is never freed.  The same happens if the library
   reports a length beyond the buffer, which `buf_call` refuses
   (`pipeline.cpp:63-65`).  These two are the only ways to lose one
   (`OwnedUnlessInitThrew`, in the run `handles` and as a theorem).
2. `diagnostics_detail`: `detail(e)` prints the status of `e` next to a fresh
   `last_error()`, which may be another thread's sentence by then; the text that
   `e` carries is the right one.
3. `start_distinct`: `payload.cpp` says that seeded workers hold
   pairwise-distinct buffers in the fixed and rotating modes.  Their generator
   states differ, and so do whole words; a payload shorter than a word keeps only
   the first bytes of one.  With `--seed 267 --payload-size 1` workers 0 and 1
   hold the same byte.  With a whole word the claim holds
   (`WordsKeepBuffersApart`).

A remark that is not a finding: the comment in `pump_into` says that an exact-size
destination never meets the "dst too small" exception.  Its argument covers the
reads after `end`.  The drain inside the feed loop (`stream.cpp:97-98`) runs
before `end` and tests for room first, and a read without the flag after the last byte is
followed by one more test for room.  The claim therefore rests on a chain that
keeps a tail until `end`, which is `holdsTail` here, and on a flag that does not
lag, and is a theorem for such a chain (`ExactSizeIsEnough`).

Two behaviours a reader of the models may want to know of: `eitb` with one path
for input and output has lost the input when the write or the save fails after
`fopen`, and an explicit `--memlimit` of INT64_MAX is Go's "no limit", which is why
`RuntimeAsReported` promises a limit only for `auto`.

## 4. What is proved

All theorems are about `Spec` for every value of the constants that satisfies the
modules' `ASSUME`s; the runs evaluate those.  Each module proves
`Init => IInv`, `IInv /\ [Next]_vars => IInv'` by one step per action, and
the theorems from `IInv`.

**LoopHarnessProofs** (any number of workers, any shape, period and set of
failures).  None of the properties is inductive: that a decrypt opens its wire
depends on who holds the lock.  The first invariant adds that the lock's owners
are exactly the threads in `ReadLocs` and `WriteLocs` and that a writer excludes
every reader (`LockInv`); what maintenance holds between two of its steps
(`MaintenanceInv`); that the open handles are the ones the pipes own and the one
a reopen has loaded, no two the same (`HandleInv`); and that a call in flight is
on the handle of its pipe and a wire was made under that handle's masters
(`UseInv`).  The last two survive maintenance because the first keeps it apart
from round-trips.  From it: `RoundTripUnderOneKeying`, `HandlesAccounted`,
`BlobCarriesLiveMasters` and the action property `MutationExcludesCalls`.  The second is about the main thread: where it is against
where the workers are (`PhaseInv`), what a worker has done before the gate
(`WarmupInv`), its counters against its budget (`BudgetInv`), and `active` as the
number of workers that have not returned (`ActiveInv`, with the cardinality
theorems of the library).  From it: `BaselineAfterWarmup`, `BudgetHonoured`,
`ElapsedStamped`.

**HarnessStartProofs** (any command lines, tables, profiles, environments,
generators and spellings).  The invariants, in the order in which they lean on
each other:

* `PipesInv`: every open pipeline is held by a pipe, and the pipe about to be
  built holds none, since the assignment of the new one would lose it; so every
  `Return` closes all there are (`FailedStartLeavesNothing`), but for the one
  pipeline of a constructor that threw late.
* `RuntimeInv`: the numeric flags always have a text that parses, an accepted
  line asks for settings in range (`AcceptedAsks`), and before the shaping the
  environment's settings stand (`RuntimeAsReported`).
* `LineInv`: after `argi - 1` arguments every flag has the value of its last
  mention *below* `argi`.  `RawAsMentioned` says this of the whole line only
  and is not inductive.  Which positions are flags and which are swallowed is
  itself a recursive function over the line (`NamesFlag`); the parser stands only
  at positions that it calls flags (`FlagPositions`, `ReadsFlag`).
* `ConfigInv`: the configuration in use is one that an accepted line has, so that
  sizes, counts and modes are in their ranges (`Configured`).
* `ContentInv`: every plaintext is blank or holds, up to its offset, what mode,
  seed, id and round determine (`Filling`), with the generator's state as many
  strides from its seed as words have been drawn.  Each step of a filling, whole
  words, a last part of a word, a pattern, and any portion of system randomness,
  extends that.  From it: `ContentAsPromised`.  If two filled buffers agreed in
  their first words, the finalizer's injectivity would make two states equal, and
  two workers' ids equal by `StrideAssumption` (`WordsKeepBuffersApart`).
* `TypeInv`, with which `TypeOK` follows from the others.
* `BuiltInv`: which pipes the shape wants and which are built by now, that blobs,
  keys and profiles are those of the pipes, and that the handles used are the
  least.  At the hand-over this is `Init` of `LoopHarness`, and `Configured`
  gives the assumptions of that module (`HandsOver`, by `EverythingIsThere`).
* `QueryInv`: an `init` is called with the query of all overrides, and every
  pipeline was made with the overrides as they were set.  It rests on
  `ReadsWhatWasBuilt`: for any list of pairs, whatever characters their texts
  are made of, `Decoded` of the query that `encode_into` builds is that list.  A
  separator in a text is escaped and a triple is no separator, so the reader,
  which goes over the tokens one by one, is followed text by text and pair by pair.  From
  it: `OverridesArrive` and `LayersNamed`.

**EitbCommandProofs** (any files, profiles, blobs and number of invocations).
`WiresInv`: every wire in a file, in the buffer or inside another wire is one an
encrypt has made.  `PlaceInv`: where an invocation is says what it has done; up to
`create` no file has changed, and from then on the buffer is the `Result` of the
cipher call.  Neither property holds of a single step: a decrypt is genuine
because of an encrypt any number of invocations ago.  From it:
`RefusalKeepsFiles`, `DecryptsWhatWasSealed`, `TypeOK`, and the action property
`BlobFollowsFile`: a blob is printed only when the wire of its pipeline stands
whole in the output file.
`EncryptedFileOpens` adds `HexRoundTrip`: for bytes of any number, what `HexOf`
prints is read as hex, and `BytesOf` gives the same bytes back.

**PipelineHandlesProofs**.  `OwnedIsUnfreed` needs that no two objects share a
handle and that a constructor's handle is in no object.  `OwnedUnlessInitThrew`
and the refinement of `HandleLifecycle` hold with constructors that throw when
the handle is open, from either cause; where neither occurs `lost` stays empty, so that
every open handle has an owner (`NothingLeaks`).  For the refinement each action is shown to be the abstract
`Create`, `Transfer`, `Close`, `Release` or `Replace`, or a stutter.

**StreamPumpProofs**.  `PhaseInv` ties the session to the pump's phase (`ended`
only after the feed, cursor equal to what was read).  `RoomInv`, for a chain with
`holdsTail`, says that before `end` less than the whole output has been
spooled and that a rejected buffer was smaller than `Needed`: the property
alone is not inductive, because `DestinationFull` sees only the cursor.
`WholeOutput`, `CursorFollowsSession`, `OneSessionAtATime` and the refinement of
`WholeCall` (`DeliversWholeOrRefuses`) need no assumption;
`RejectedOnlyIfTooSmall`, `ExactSizeAccepted` and `GrownOnlyIfNeeded` are about
chains with `holdsTail`.

**BufferCallProofs**.  `AnswerInv` says what the length and the status of the last
answer tell of the buffer: after `ok` the length is what the buffer holds, or
is out of range.  `TraceInv`: bytes of a blob are only in the buffer between a call
and its evaluation, or in the vector that was asked for; neither is given back
unwiped (`BlobLeavesNoTrace`).  `GrownInv`, for lengths that are true, says
that a retry is made at exactly the size the object had at the first call, so that
a second refusal means it was larger at the second (`TooSmallOnlyIfGrown`).
`HistoryInv`: what the buffer holds is a size that was offered; with it every
step is a step of `WholeCall` or a stutter.

**DiagnosticsProofs**.  `OwnInv`: until another call fails, `last` is the sentence
of the thread's own call, and a second fetch asks for its length; after that it is
the sentence of another thread.

**SizingProofs**.  For every width with `IntMax + IntMax \div 4 + Floor <
Modulus` (`WidthAssumption`, true of 63 and 64 bits): a product the guard
by division lets through is at most `IntMax`; the two guards of `out_cap` notice
every wrap and nothing else (`CapExact`); so every accepted payload size gets its
head-room.

`ReadAsWritten`, for any set of texts: both sides are shown to speak of the same
`Layout`, four positions `lo`, `h`, `k`, `hi` of a text such that figures go from
`lo` to `h`, blanks to `k`, the letters of a unit in either case to `hi`, and all
the rest is blank.  What the parser accepts is laid out so (`ReadIsLaidOut`), and
a text laid out so is read in just this way (`LayoutIsRead`); what the grammar
generates is laid out so (`WrittenIsLaidOut`), and a text laid out so is
generated (`LaidOutIsWritten`).  The order of the table decides in `LongestFirst`:
a unit that stands before another in the table and is no longer than it never
matches where that one ends, so the first match is the one that leaves only
figures.

### What the proofs assume

Nothing but the modules' `ASSUME`s, which TLC evaluates in the runs.  Those that
are more than types:

* `LinesAssumption`: a command line is a finite sequence of arguments.
* `ConfigAssumption`, `DefaultsAssumption`: the flags' defaults parse, `0` is
  read as zero, and the two default profiles exist, have a name, serve their
  surfaces and have every layer, as the tables of `main.cpp` and the library's
  registry have it.
* `BytesAssumption`: the finalizer of splitmix64 is injective (it is made of
  xor-shifts and odd multiplications).  `StrideAssumption`: a worker that has
  drawn more words than another never reaches that one's state; the least number
  of draws by which two of ten workers could meet is about 10^18.
* `KeysAssumption` of `EitbCommand`: a saved blob is a nonempty sequence of bytes,
  and no two pipelines have the same.
* `SpellingAssumption`: a text is a finite sequence of symbols.
* `TextsAssumption`: no text is longer than `Longest`, which may be any number.

Induction over data.  The library's induction theorems take a predicate as a
parameter, which the provers at hand cannot instantiate.  What they can use is
that a nonempty set of naturals has a least element (`WFMin`), so the induction
is stated for a set (`SetInduction`): a set that holds 0 and every successor of
its members holds every natural.  The proofs about command lines, generators,
queries, hex and numerals take the set of lengths for which the claim is true.
The recursive definitions they are about are recursive functions or folds.

### Only model-checked

`Termination` of the harness and of the pumps, and `MaintenanceServed`: TLAPS
proves neither `ENABLED` nor fairness arguments.  Every other property of a
passing run is the `property` of a theorem in `PROJECT.json`.  The three runs
that end in a violation are counterexamples, and have nothing to prove.

## 5. What is not modelled

* `parse_duration` (floating point; a table in `CommandLine`) and all renderings,
  the usage text, the log lines, the report's figures and statistics: no state,
  and no property beyond their own definition.
* `to_status`, a table from codes to an enumeration.
* `version`, `drbg_auto_tier`, the heap profile, the pool statistics,
  `register_profile`, `eitb`'s `cap_go_runtime`: single library calls without
  state of the binding's own.
* Exceptions other than `itb::Error` in a worker (an allocation that throws):
  nothing catches them and the process ends there.
* The count a `read` returns to `pump_body` (`worker.cpp:101`) is not compared
  with the buffer's size; the model takes the library's count as true there.
* Failing writes to stdout and stderr.
* The contents of wires and masters: cryptography is the library's.
* The benchmarks: sequential timing loops over calls that are modelled.

## 6. Plan

What was planned is modelled, and every safety property is proved: the start of a
run composed with the loop, the harness's own pump, the pure functions, the main
thread's invariants, one abstract call for pumps and dispatches, the command.
What would be worth adding:

1. A theorem that the loop harness refines a sequential history of round-trips
   and maintenance, of which `RoundTripUnderOneKeying` is the core.
2. That no state of the harness short of the end is stuck, stated without
   `ENABLED` as a disjunction of the actions' guards; the runs check deadlock.
