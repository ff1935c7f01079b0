---------------------------- MODULE HarnessStart ----------------------------
(***************************************************************************)
(* run() of src/loop/main.cpp up to its worker threads, and what they do   *)
(* to their plaintexts afterwards: the command line, the shaping of the Go *)
(* runtime, a pipeline per surface, a plaintext per worker, and every way  *)
(* out in between.  The state at "running" is where LoopHarness begins.    *)
(***************************************************************************)
EXTENDS CommandLine, Opts, Payload, FiniteSets

CONSTANTS
    CommandLines,    \* the command lines considered
    Runtimes,        \* the runtime settings the environment may have installed
    DefaultProfile,  \* kDefaultStreamProfile and kDefaultMessageProfile
    FillCipher,      \* kKeystreamFillCipher
    Handles,         \* Go-side handles, and the keys their pipelines draw
    None,            \* no handle, no key, no worker
    MaxRounds        \* bound: fillings of one worker

ASSUME IdsAssumption == MaxWorkers \in Nat /\ Ids = 0 .. MaxWorkers - 1
ASSUME WidthAssumption == Words = 2 * Int64Max + 2
ASSUME LinesAssumption == CommandLines \subseteq Seq(Arguments)
ASSUME RoundsAssumption == MaxRounds \in Nat \ {0}

\* The draws of a worker's earlier rounds never make up for the difference of
\* two ids.  Under splitmix64's increment and ten workers the least number of
\* draws that does is 1.0e18, far beyond the words of a payload times rounds.
ASSUME StrideAssumption ==
    \A t \in DOMAIN Sizes, v, w \in Ids, d \in 0 .. MaxRounds - 1 :
        v # w => (v + d * ((Sizes[t] + Block - 1) \div Block) * Stride) % Words # w
ASSUME HandlesAssumption == Handles \subseteq Nat /\ None \notin Nat
ASSUME DefaultsAssumption ==
    /\ \A p \in {"stream", "msg"} :
         /\ DefaultProfile[p] \in DOMAIN Profiles \ {""}
         /\ Profiles[DefaultProfile[p]] = [surface |-> p, palette |-> TRUE, segment |-> TRUE, outer |-> TRUE]

\* What the parsers return, the limits they are compared with, the settings a
\* runtime can have, and the flags' defaults, which have to parse.
ASSUME ConfigAssumption ==
    /\ Int64Max \in Nat
    /\ Numerals \in [DOMAIN Numerals -> Int] /\ {"0", "1", "3"} \subseteq DOMAIN Numerals
    /\ Numerals["0"] = 0
    /\ Sizes \in [DOMAIN Sizes -> 0 .. Int64Max]
    /\ {Caps.few, Caps.many} \subseteq 0 .. Int64Max - 1
    /\ Runtimes \subseteq [limit : 0 .. Int64Max, gc : Int, procs : Nat]

VARIABLES
    pc,       \* where run() is, or how it left
    cfg,      \* the resolved configuration
    env,      \* the runtime settings found
    rt,       \* the runtime settings in force
    at,       \* the pipe under construction
    id,       \* the worker whose plaintext is next
    query,    \* the overrides of that pipe, as built
    pipe,     \* stream_pipe and msg_pipe
    blob,     \* stream_blob and msg_blob
    made,     \* Go side: profile and overrides of every pipeline
    keyOf     \* Go side: the masters of every open pipeline

startVars == <<pc, cfg, env, rt, at, id, query>>
pipeVars == <<pipe, blob, made, keyOf>>
vars == <<lineVars, payloadVars, startVars, pipeVars>>

\* The limit of a runtime that has none.
NoLimit == Int64Max

BothPipes == {"stream", "msg"}
NoConfig == [workers |-> 0]
NotMade == [profile |-> "", overrides |-> <<>>]

Init ==
    /\ argv \in CommandLines
    /\ argi = 1
    /\ raw = Defaults
    /\ pc = "argv"
    /\ cfg = NoConfig
    /\ env \in Runtimes
    /\ rt = env
    /\ at = None
    /\ id = 0
    /\ query = <<>>
    /\ pipe = [p \in BothPipes |-> None]
    /\ blob = [p \in BothPipes |-> None]
    /\ made = [h \in Handles |-> NotMade]
    /\ keyOf = [h \in Handles |-> None]
    /\ rng = [w \in Ids |-> 0]
    /\ buf = [w \in Ids |-> <<>>]
    /\ off = [w \in Ids |-> 0]
    /\ rounds = [w \in Ids |-> 0]

\* Returning from run() destroys the RunState, and with it the pipelines.
Return(code) ==
    /\ pc' = code
    /\ keyOf' = [h \in Handles |-> IF \E p \in BothPipes : pipe[p] = h THEN None ELSE keyOf[h]]
    /\ pipe' = [p \in BothPipes |-> None]
    /\ at' = None

-----------------------------------------------------------------------------
(* The command line.                                                       *)

ReadArgument ==
    /\ pc = "argv" /\ TakeArgument
    /\ UNCHANGED <<payloadVars, startVars, pipeVars>>

PrintUsage ==
    /\ pc = "argv" /\ AsksHelp
    /\ Return("exit 0")
    /\ UNCHANGED <<lineVars, payloadVars, cfg, env, rt, id, query, blob, made>>

RefuseArgument ==
    /\ pc = "argv" /\ BadArgument
    /\ Return("exit 2")
    /\ UNCHANGED <<lineVars, payloadVars, cfg, env, rt, id, query, blob, made>>

RefuseFlags ==
    /\ pc = "argv" /\ argi > Len(argv) /\ ~ Accepted
    /\ Return("exit 2")
    /\ UNCHANGED <<lineVars, payloadVars, cfg, env, rt, id, query, blob, made>>

AcceptFlags ==
    /\ pc = "argv" /\ argi > Len(argv) /\ Accepted
    /\ cfg' = Config
    /\ pc' = "runtime"
    /\ UNCHANGED <<lineVars, payloadVars, env, rt, at, id, query, pipeVars>>

-----------------------------------------------------------------------------
(* Runtime shaping, before any pipeline exists.                            *)

\* The setters: a negative value asks, any other is put in force.
SetMemoryLimit(r, bytes) == IF bytes < 0 THEN r ELSE [r EXCEPT !.limit = bytes]
SetGCPercent(r, pct) == IF pct < 0 THEN r ELSE [r EXCEPT !.gc = pct]
SetGomaxprocs(r, n) == IF n <= 0 THEN r ELSE [r EXCEPT !.procs = n]

\* Mutant: a zero flag is handed to the setter too.
GCShapedAlways(r) == SetGCPercent(r, cfg.gogc)

GCShaped(r) == IF cfg.gogc > 0 THEN SetGCPercent(r, cfg.gogc) ELSE r

LimitShaped(r) ==
    IF cfg.auto /\ r.limit # NoLimit THEN r ELSE SetMemoryLimit(r, cfg.memlimit)

ShapeRuntime ==
    LET limited == LimitShaped(rt)
        paced == GCShaped(limited)
    IN  /\ pc = "runtime"
        /\ rt' = IF cfg.gomaxprocs > 0 THEN SetGomaxprocs(paced, cfg.gomaxprocs) ELSE paced
        /\ cfg' = [cfg EXCEPT !.memlimit = limited.limit]
        /\ pc' = "build"
        /\ at' = IF cfg.shape = "message" THEN "msg" ELSE "stream"
        /\ UNCHANGED <<lineVars, payloadVars, env, id, query, pipeVars>>

\* effective_gogc, which the summary reports.
EffectiveGogc(flag) == IF flag > 0 THEN flag ELSE rt.gc

-----------------------------------------------------------------------------
(* build_pipeline, for the streaming pipe first.                           *)

OnOff(b) == IF b THEN "true" ELSE "false"

Overrides ==
    << <<"mode", ToString(cfg.blobMode)>>, <<"innerHash", cfg.hash>>, <<"macName", cfg.mac>>,
       <<"withParallax", OnOff(cfg.parallax)>>, <<"withWrapper", OnOff(cfg.wrapper)>>,
       <<"keyBits", ToString(cfg.keyBits)>>, <<"nonceBits", ToString(cfg.nonceBits)>>,
       <<"barrierFill", ToString(cfg.barrierFill)>>, <<"drbg", cfg.drbg>>, <<"interlock", cfg.interlock>>,
       <<"chunkSize", ToString(cfg.chunk)>> >>

\* Mutant: the segment size is taken to come with every palette.
KeystreamLayersNoSegment(record) ==
    (IF cfg.parallax /\ ~ record.palette THEN << <<"parallaxPalette", FillCipher>> >> ELSE <<>>)
    \o (IF cfg.wrapper /\ ~ record.outer THEN << <<"outerCipher", FillCipher>> >> ELSE <<>>)

\* fill_keystream_layers: names for the layers asked for and left unnamed.
KeystreamLayers(record) ==
    (IF cfg.parallax /\ ~ record.palette
     THEN << <<"parallaxPalette", FillCipher>> >>
          \o (IF record.segment THEN <<>> ELSE << <<"parallaxSegmentSize", "4093">> >>)
     ELSE <<>>)
    \o (IF cfg.wrapper /\ ~ record.outer THEN << <<"outerCipher", FillCipher>> >> ELSE <<>>)

ProfileOf(p) == IF cfg.profile # "" THEN cfg.profile ELSE DefaultProfile[p]

AllOverrides ==
    Overrides \o (IF cfg.profile = "" THEN <<>> ELSE KeystreamLayers(Profiles[cfg.profile]))

ComposeOpts ==
    /\ pc = "build"
    /\ query' = QueryOf(AllOverrides)
    /\ pc' = "init"
    /\ UNCHANGED <<lineVars, payloadVars, cfg, env, rt, at, id, pipeVars>>

\* The second lookup of a named profile answers with a status.
LookupFails ==
    /\ pc = "build" /\ cfg.profile # ""
    /\ Return("exit 1")
    /\ UNCHANGED <<lineVars, payloadVars, cfg, env, rt, id, query, blob, made>>

\* Handles and keys are compared only for equality: the least unused one stands
\* for any.
Unused(h) == /\ h \in Handles /\ made[h] = NotMade
             /\ \A g \in Handles : made[g] = NotMade => h <= g

InitSucceeds ==
    \E h \in Handles :
        /\ pc = "init" /\ Unused(h)
        /\ made' = [made EXCEPT ![h] = [profile |-> ProfileOf(at), overrides |-> Decoded(query)]]
        /\ keyOf' = [keyOf EXCEPT ![h] = h]
        /\ pipe' = [pipe EXCEPT ![at] = h]
        /\ pc' = "save"
        /\ UNCHANGED <<lineVars, payloadVars, cfg, env, rt, at, id, query, blob>>

InitFails ==
    /\ pc = "init"
    /\ Return("exit 1")
    /\ UNCHANGED <<lineVars, payloadVars, cfg, env, rt, id, query, blob, made>>

\* The library opened the pipeline, and the constructor throws all the same: for
\* the length of the blob that came back, or for want of memory.  There is no
\* object to free this pipeline; the other pipe's is freed as ever.
InitThrowsLate ==
    \E h \in Handles :
        /\ pc = "init" /\ Unused(h)
        /\ made' = [made EXCEPT ![h] = [profile |-> ProfileOf(at), overrides |-> Decoded(query)]]
        /\ keyOf' = [g \in Handles |-> IF g = h THEN h
                                      ELSE IF \E p \in BothPipes : pipe[p] = g THEN None ELSE keyOf[g]]
        /\ pipe' = [p \in BothPipes |-> None]
        /\ pc' = "exit 1, lost" /\ at' = None
        /\ UNCHANGED <<lineVars, payloadVars, cfg, env, rt, id, query, blob>>

SaveSucceeds ==
    /\ pc = "save"
    /\ blob' = [blob EXCEPT ![at] = keyOf[pipe[at]]]
    /\ IF at = "stream" /\ cfg.shape = "both" THEN at' = "msg" /\ pc' = "build"
                                              ELSE at' = None /\ pc' = "alloc"
    /\ UNCHANGED <<lineVars, payloadVars, cfg, env, rt, id, query, pipe, made, keyOf>>

\* Mutant: the optional is emptied, its pipeline not destroyed.
SaveFailsForgets ==
    /\ pc = "save"
    /\ keyOf' = [h \in Handles |-> IF \E p \in BothPipes \ {at} : pipe[p] = h THEN None ELSE keyOf[h]]
    /\ pipe' = [p \in BothPipes |-> None]
    /\ pc' = "exit 1" /\ at' = None
    /\ UNCHANGED <<lineVars, payloadVars, cfg, env, rt, id, query, blob, made>>

\* pipe.reset(), and run() returns.
SaveFails ==
    /\ pc = "save"
    /\ Return("exit 1")
    /\ UNCHANGED <<lineVars, payloadVars, cfg, env, rt, id, query, blob, made>>

-----------------------------------------------------------------------------
(* Plaintexts, one worker after the other.                                 *)

AllocateBuffer ==
    /\ pc = "alloc" /\ id < cfg.workers
    /\ Allocate(id, cfg.payload)
    /\ rng' = [rng EXCEPT ![id] = SeedWorker(cfg.seed, id)]
    /\ pc' = "fill"
    /\ UNCHANGED <<lineVars, rounds, cfg, env, rt, at, id, query, pipeVars>>

FillFirst ==
    /\ pc = "fill" /\ FillPayload(id, cfg.mode, cfg.seed # 0)
    /\ UNCHANGED <<lineVars, startVars, pipeVars>>

NextWorker ==
    /\ pc = "fill" /\ ~ Unfilled(id)
    /\ id' = id + 1
    /\ pc' = "alloc"
    /\ UNCHANGED <<lineVars, payloadVars, cfg, env, rt, at, query, pipeVars>>

\* No memory for a buffer or for a pool snapshot, or no random bytes.
SetUpFails ==
    /\ \/ pc = "alloc"
       \/ pc = "fill" /\ Drawn(cfg.mode) /\ cfg.seed = 0 /\ Unfilled(id)
    /\ Return("exit 1")
    /\ UNCHANGED <<lineVars, payloadVars, cfg, env, rt, id, query, blob, made>>

HandOver ==
    /\ pc = "alloc" /\ id = cfg.workers
    /\ pc' = "running"
    /\ UNCHANGED <<lineVars, payloadVars, cfg, env, rt, at, id, query, pipeVars>>

-----------------------------------------------------------------------------
(* The running workers refill their plaintexts under the rotating mode.    *)

BeginRefill(w) ==
    /\ pc = "running" /\ w < cfg.workers /\ cfg.mode = "rotating"
    /\ ~ Unfilled(w) /\ rounds[w] < MaxRounds
    /\ off' = [off EXCEPT ![w] = 0]
    /\ UNCHANGED <<lineVars, rng, buf, rounds, startVars, pipeVars>>

Refill(w) ==
    /\ pc = "running" /\ w < cfg.workers
    /\ FillPayload(w, cfg.mode, cfg.seed # 0)
    /\ UNCHANGED <<lineVars, startVars, pipeVars>>

Next ==
    \/ ReadArgument \/ PrintUsage \/ RefuseArgument \/ RefuseFlags \/ AcceptFlags
    \/ ShapeRuntime
    \/ ComposeOpts \/ LookupFails \/ InitSucceeds \/ InitFails \/ InitThrowsLate
    \/ SaveSucceeds \/ SaveFails
    \/ AllocateBuffer \/ FillFirst \/ NextWorker \/ SetUpFails \/ HandOver
    \/ \E w \in Ids : BeginRefill(w) \/ Refill(w)

Spec == Init /\ [][Next]_vars

-----------------------------------------------------------------------------
(* Properties.                                                             *)

Exits == {"exit 0", "exit 1", "exit 1, lost", "exit 2"}
Places == {"argv", "runtime", "build", "init", "save", "alloc", "fill", "running"} \cup Exits

\* The texts a flag can have: its default, what a bare boolean means, or what
\* the line holds.
Texts ==
    {Defaults[n] : n \in FlagNames} \cup {"true"}
    \cup {argv[i].value : i \in 1 .. Len(argv)} \cup {argv[i].text : i \in 1 .. Len(argv)}

\* The types of the variables that are not records of the configuration.
TypeOK ==
    /\ pc \in Places
    /\ at \in BothPipes \cup {None} /\ id \in 0 .. MaxWorkers
    /\ argi \in 1 .. Len(argv) + 1
    /\ raw \in [FlagNames -> Texts]
    /\ {env, rt} \subseteq [limit : 0 .. Int64Max, gc : Int, procs : Nat]
    /\ pipe \in [BothPipes -> Handles \cup {None}]
    /\ blob \in [BothPipes -> Handles \cup {None}]
    /\ keyOf \in [Handles -> Handles \cup {None}]
    /\ rng \in [Ids -> 0 .. Words - 1]
    /\ DOMAIN buf = Ids /\ \A w \in Ids : off[w] \in 0 .. Len(buf[w]) /\ rounds[w] \in 0 .. MaxRounds

\* A configuration is made of what the line says: every flag has the value its
\* last mention gave it, no argument is read twice and none is passed over.
RawAsMentioned == pc \notin {"argv", "exit 0", "exit 2"} => \A n \in FlagNames : LastMention(n, raw[n])

\* The environment's runtime settings stand unless a flag replaces them, a
\* memory limit is in force all the same (unless the largest number was asked
\* for), and the summary reports what is in force.
RuntimeAsReported ==
    cfg # NoConfig /\ pc # "runtime" =>
        /\ cfg.memlimit = rt.limit /\ (cfg.auto => rt.limit # NoLimit)
        /\ cfg.auto /\ env.limit # NoLimit => rt.limit = env.limit
        /\ rt.gc = EffectiveGogc(cfg.gogc) /\ (cfg.gogc = 0 => rt.gc = env.gc)
        /\ cfg.gomaxprocs = 0 => rt.procs = env.procs

\* What a query says of a key.
Named(key) == \E i \in 1 .. Len(Decoded(query)) : Decoded(query)[i][1] = Spelled(key)

\* No pipeline is asked for with a layer that nobody named: neither the profile
\* nor the overrides.
LayersNamed ==
    pc = "init" =>
        LET record == Profiles[ProfileOf(at)]
        IN  /\ cfg.parallax => /\ record.palette \/ Named("parallaxPalette")
                               /\ record.segment \/ record.palette \/ Named("parallaxSegmentSize")
            /\ cfg.wrapper => record.outer \/ Named("outerCipher")

\* Every override reaches the library as it was set, whatever its characters:
\* pair by pair, in order, with nothing else.
OverridesArrive ==
    \A p \in BothPipes : pipe[p] # None =>
        made[pipe[p]].overrides =
            [i \in 1 .. Len(AllOverrides) |-> <<Spelled(AllOverrides[i][1]), Spelled(AllOverrides[i][2])>>]

\* A start that fails leaves no pipeline behind, but the one whose constructor
\* threw after the library had opened it; one that is refused for its command line
\* has not touched the runtime either.
FailedStartLeavesNothing ==
    /\ pc \in Exits \ {"exit 1, lost"} => \A h \in Handles : keyOf[h] = None
    /\ pc = "exit 1, lost" => \A g, h \in Handles : keyOf[g] # None /\ keyOf[h] # None => g = h
    /\ pc \in {"exit 0", "exit 2"} => rt = env

\* The plaintexts hold what their mode promises, whole, at the hand-over and
\* after every refill: seeded bytes can be replayed from seed, worker and round.
ContentAsPromised ==
    pc = "running" =>
        \A w \in 0 .. cfg.workers - 1 :
            /\ Len(buf[w]) = cfg.payload
            /\ ~ Unfilled(w) => buf[w] = ContentOf(w, cfg.mode, cfg.seed, cfg.payload)

\* Seeded workers hold pairwise-distinct buffers under the fixed and rotating
\* modes, as payload.cpp says ...
SeededBuffersDistinct ==
    pc = "running" /\ Drawn(cfg.mode) /\ cfg.seed # 0 =>
        \A v, w \in 0 .. cfg.workers - 1 :
            v # w /\ ~ Unfilled(v) /\ ~ Unfilled(w) => buf[v] # buf[w]

\* ... which is so when a buffer holds a word of the generator.
WordsKeepBuffersApart ==
    cfg # NoConfig /\ cfg.payload >= Block => SeededBuffersDistinct

BuiltPipes == {p \in BothPipes : pipe[p] # None}

\* The harness proper, for a configuration.
Loop(workers, shape, iterations, rekey, cycle, layers) ==
    INSTANCE LoopHarness WITH
        Workers <- 0 .. workers - 1, Shape <- shape, Iterations <- iterations, RekeyEvery <- rekey,
        BlobCycleEvery <- cycle, KeyedLayers <- layers, Keys <- Handles, Faults <- {},
        pc <- [w \in 0 .. workers - 1 |-> "unborn"], iter <- [w \in 0 .. workers - 1 |-> 0],
        iters <- [w \in 0 .. workers - 1 |-> 0], failed <- [w \in 0 .. workers - 1 |-> FALSE],
        call <- [w \in 0 .. workers - 1 |-> None], wire <- [w \in 0 .. workers - 1 |-> None],
        drawn <- [w \in 0 .. workers - 1 |-> None], todo <- [w \in 0 .. workers - 1 |-> {}],
        loaded <- [w \in 0 .. workers - 1 |-> None],
        handle <- [p \in BuiltPipes |-> pipe[p]], blob <- [p \in BuiltPipes |-> blob[p]],
        readers <- {}, writer <- None, stop <- FALSE, signal <- FALSE, deadline <- FALSE,
        active <- cfg.workers, stamped <- FALSE, main <- "spawn", exit <- "running"

\* A run that starts meets what LoopHarness takes for granted: its assumptions
\* on the configuration, and its initial state, with a pipe for every surface
\* an iteration may choose, built for a profile that has this surface.
HandsOver ==
    pc = "running" =>
        /\ {cfg.iterations, cfg.rekey, cfg.cycle} \subseteq Nat /\ cfg.workers > 0 /\ cfg.shape \in Shapes
        /\ \E n \in {cfg.workers}, s \in {cfg.shape}, i \in {cfg.iterations}, r \in {cfg.rekey},
              c \in {cfg.cycle}, k \in {cfg.parallax \/ cfg.wrapper} :
             /\ \A j \in 0 .. 2 :
                  LET p == Loop(n, s, i, r, c, k)!Surface(j)
                  IN  p \in BuiltPipes /\ Profiles[made[pipe[p]].profile].surface = p
             /\ Loop(n, s, i, r, c, k)!Init

=============================================================================
