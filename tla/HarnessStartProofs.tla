------------------------- MODULE HarnessStartProofs -------------------------
(***************************************************************************)
(* Theorems of HarnessStart, for every command line, table of profiles,    *)
(* environment, number of handles, generator and size: what a start that   *)
(* fails leaves behind, which runtime settings are in force under a        *)
(* configuration, that the configuration is what the line says, what the   *)
(* workers' plaintexts hold, and that the loop starts from what it takes   *)
(* for granted.                                                            *)
(***************************************************************************)
EXTENDS HarnessStart, FiniteSetTheorems, WellFoundedInduction, SequenceTheorems, TLAPS

-----------------------------------------------------------------------------
(* Induction.                                                              *)

\* The naturals are well-founded under a relation, as a set of pairs.
LEMMA NatLess ==
    \E R : /\ IsWellFoundedOn(R, Nat)
           /\ \A x, y \in Nat : x < y => <<x, y>> \in R
<1>1. \A x, y \in Nat : x < y => <<x, y>> \in OpToRel(<, Nat)
  BY DEF OpToRel
<1> QED BY <1>1, NatLessThanWellFounded

\* Induction, for a set in place of a predicate: the least natural outside it
\* would have its predecessor inside.
LEMMA SetInduction ==
    ASSUME NEW S, 0 \in S, \A n \in Nat : n \in S => n + 1 \in S
    PROVE  Nat \subseteq S
<1> SUFFICES ASSUME NEW m \in Nat, m \notin S PROVE FALSE
  OBVIOUS
<1> DEFINE T == Nat \ S
<1>1. T \subseteq Nat /\ T # {} /\ \A n \in Nat : n \notin T => n \in S
  OBVIOUS
<1>2. \A n \in T : n \notin S
  OBVIOUS
<1> HIDE DEF T
<1>3. PICK R : IsWellFoundedOn(R, Nat) /\ \A x, y \in Nat : x < y => <<x, y>> \in R
  BY NatLess
<1>4. \E x \in T : \A y \in T : ~ (<<y, x>> \in R)
  BY <1>1, <1>3, WFMin
<1>5. PICK x \in T : \A y \in T : ~ (<<y, x>> \in R)
  BY <1>4
<1>6. x \in Nat /\ x # 0
  BY <1>1, <1>2
<1>7. x - 1 \in Nat /\ x - 1 < x /\ (x - 1) + 1 = x
  BY <1>6
<1>8. x - 1 \notin T
  BY <1>3, <1>5, <1>6, <1>7
<1>9. x \in S
  BY <1>1, <1>7, <1>8
<1> QED BY <1>2, <1>9

-----------------------------------------------------------------------------
(* Pipelines on the way through run().                                     *)

\* Every open pipeline is held by a pipe, and a pipe that is about to be built
\* holds none: the assignment of the new one would lose it.  A constructor that
\* throws late leaves one, and no more.
PipesInv ==
    /\ pipe \in [BothPipes -> Handles \cup {None}]
    /\ keyOf \in [Handles -> Handles \cup {None}]
    /\ pc # "exit 1, lost" => \A h \in Handles : keyOf[h] # None => \E p \in BothPipes : pipe[p] = h
    /\ pc = "exit 1, lost" => \A g, h \in Handles : keyOf[g] # None /\ keyOf[h] # None => g = h
    /\ pc \in {"argv", "runtime"} => \A p \in BothPipes : pipe[p] = None
    /\ pc \in {"build", "init", "save"} => at \in BothPipes /\ (at = "stream" => pipe["msg"] = None)
    /\ pc \in {"build", "init"} => pipe[at] = None
    /\ pc \in Exits \ {"exit 1, lost"} => \A h \in Handles : keyOf[h] = None
    /\ pc \in {"argv", "runtime", "exit 0", "exit 2"} => rt = env

LEMMA PipesInit == Init => PipesInv
  BY HandlesAssumption DEF Init, PipesInv, BothPipes, Exits

\* A return destroys every pipeline that is held, which is every one there is.
LEMMA ReturnCloses ==
    ASSUME PipesInv, pc # "exit 1, lost", NEW code, Return(code)
    PROVE  /\ pipe' \in [BothPipes -> Handles \cup {None}]
           /\ keyOf' \in [Handles -> Handles \cup {None}]
           /\ \A h \in Handles : keyOf'[h] = None
  BY DEF PipesInv, Return

LEMMA PipesStep == PipesInv /\ [Next]_vars => PipesInv'
<1> SUFFICES ASSUME PipesInv, [Next]_vars PROVE PipesInv'
  OBVIOUS
<1>1. CASE ReadArgument
  BY <1>1 DEF ReadArgument, startVars, pipeVars, PipesInv
<1>2. CASE PrintUsage \/ RefuseArgument \/ RefuseFlags
  <2>1. Return("exit 0") \/ Return("exit 2")
    BY <1>2 DEF PrintUsage, RefuseArgument, RefuseFlags
  <2>2. pc = "argv" /\ pc' \in {"exit 0", "exit 2"} /\ rt' = rt /\ env' = env
    BY <1>2 DEF PrintUsage, RefuseArgument, RefuseFlags, Return
  <2>3. /\ pipe' \in [BothPipes -> Handles \cup {None}]
        /\ keyOf' \in [Handles -> Handles \cup {None}]
        /\ \A h \in Handles : keyOf'[h] = None
    BY <2>1, <2>2, ReturnCloses
  <2> QED BY <2>2, <2>3 DEF PipesInv, Exits
<1>3. CASE AcceptFlags
  BY <1>3 DEF AcceptFlags, pipeVars, PipesInv, Exits
<1>4. CASE ShapeRuntime
  BY <1>4 DEF ShapeRuntime, pipeVars, PipesInv, BothPipes, Exits
<1>5. CASE ComposeOpts
  BY <1>5 DEF ComposeOpts, pipeVars, PipesInv, Exits
<1>6. CASE LookupFails \/ InitFails \/ SaveFails \/ SetUpFails
  <2>1. Return("exit 1")
    BY <1>6 DEF LookupFails, InitFails, SaveFails, SetUpFails
  <2>2. pc' = "exit 1" /\ pc # "exit 1, lost"
    BY <1>6, <2>1 DEF Return, LookupFails, InitFails, SaveFails, SetUpFails
  <2>3. /\ pipe' \in [BothPipes -> Handles \cup {None}]
        /\ keyOf' \in [Handles -> Handles \cup {None}]
        /\ \A h \in Handles : keyOf'[h] = None
    BY <2>1, <2>2, ReturnCloses
  <2> QED BY <2>2, <2>3 DEF PipesInv, Exits
<1>7. CASE InitSucceeds
  <2>1. PICK h \in Handles : /\ pc = "init" /\ pc' = "save" /\ at' = at
                             /\ keyOf' = [keyOf EXCEPT ![h] = h] /\ pipe' = [pipe EXCEPT ![at] = h]
    BY <1>7 DEF InitSucceeds
  <2>2. at \in BothPipes /\ pipe[at] = None
    BY <2>1 DEF PipesInv
  <2>3. ASSUME NEW g \in Handles, keyOf'[g] # None PROVE \E p \in BothPipes : pipe'[p] = g
    <3>1. CASE g = h
      BY <3>1, <2>1, <2>2 DEF PipesInv
    <3>2. CASE g # h
      <4>1. PICK p \in BothPipes : pipe[p] = g
        BY <2>3, <3>2, <2>1 DEF PipesInv
      <4>2. p # at
        BY <4>1, <2>2, HandlesAssumption
      <4> QED BY <4>1, <4>2, <2>1 DEF PipesInv
    <3> QED BY <3>1, <3>2
  <2> QED BY <2>1, <2>2, <2>3 DEF PipesInv, BothPipes, Exits
<1>8. CASE SaveSucceeds
  BY <1>8 DEF SaveSucceeds, PipesInv, BothPipes, Exits
<1>9. CASE AllocateBuffer \/ FillFirst \/ NextWorker \/ HandOver
  BY <1>9 DEF AllocateBuffer, FillFirst, NextWorker, HandOver, startVars, pipeVars, PipesInv, Exits
<1>10. CASE \E w \in Ids : BeginRefill(w) \/ Refill(w)
  BY <1>10 DEF BeginRefill, Refill, startVars, pipeVars, PipesInv
<1>11. CASE InitThrowsLate
  <2>1. PICK h \in Handles :
          /\ pc = "init"
          /\ keyOf' = [g \in Handles |-> IF g = h THEN h
                                        ELSE IF \E p \in BothPipes : pipe[p] = g THEN None ELSE keyOf[g]]
          /\ pipe' = [p \in BothPipes |-> None]
          /\ pc' = "exit 1, lost"
    BY <1>11 DEF InitThrowsLate
  <2>2. \A g \in Handles : g # h => keyOf'[g] = None
    BY <2>1 DEF PipesInv
  <2> QED BY <2>1, <2>2 DEF PipesInv, Exits
<1>12. CASE UNCHANGED vars
  BY <1>12 DEF vars, startVars, pipeVars, PipesInv
<1> QED BY <1>1, <1>2, <1>3, <1>4, <1>5, <1>6, <1>7, <1>8, <1>9, <1>10, <1>11, <1>12 DEF Next

\* However run() leaves, on a bad line, a refused profile, an init, a save or a
\* buffer that fails, every pipeline it had opened is closed, but one whose
\* constructor threw with no object to own it; and a line that is refused has not
\* touched the runtime.
THEOREM NothingIsLeftBehind == Spec => []FailedStartLeavesNothing
<1>1. PipesInv => FailedStartLeavesNothing
  BY DEF PipesInv, FailedStartLeavesNothing
<1> QED BY PipesInit, PipesStep, <1>1, PTL DEF Spec

-----------------------------------------------------------------------------
(* The runtime.                                                            *)

Settings == [limit : 0 .. Int64Max, gc : Int, procs : Nat]

\* What ShapeRuntime reads of a configuration.
Asked(c) ==
    /\ c # NoConfig
    /\ c.gogc \in Nat /\ c.gomaxprocs \in Nat
    /\ c.memlimit \in 0 .. Int64Max /\ (c.auto => c.memlimit # NoLimit)

\* The numeric flags always parse; before the shaping the environment's settings
\* stand, after it the reported ones.
RuntimeInv ==
    /\ env \in Settings /\ rt \in Settings
    /\ DOMAIN raw = FlagNames /\ raw = [n \in FlagNames |-> raw[n]]
    /\ \A n \in IntFlags : raw[n] \in DOMAIN Numerals
    /\ pc = "argv" => cfg = NoConfig
    /\ pc \in {"argv", "runtime"} => rt = env
    /\ pc = "runtime" => cfg = Config /\ Asked(cfg)
    /\ RuntimeAsReported

LEMMA RuntimeInit == Init => RuntimeInv
<1> SUFFICES ASSUME Init PROVE RuntimeInv
  OBVIOUS
<1>1. env \in Settings /\ rt \in Settings
  BY ConfigAssumption DEF Init, Settings
<1>2. \A n \in IntFlags : raw[n] \in DOMAIN Numerals
  BY ConfigAssumption DEF Init, Defaults, IntFlags, FlagNames
<1>3. DOMAIN raw = FlagNames /\ raw = [n \in FlagNames |-> raw[n]]
  BY DEF Init, Defaults
<1> QED BY <1>1, <1>2, <1>3 DEF Init, RuntimeInv, RuntimeAsReported

\* A configuration that is accepted asks for what the setters take.
LEMMA AcceptedAsks ==
    ASSUME RuntimeInv, Accepted
    PROVE  Asked(Config)
<1> DEFINE c == Config
<1>1. c.workers = Number("goroutines") /\ c.gogc = Number("gogc") /\ c.gomaxprocs = Number("gomaxprocs")
      /\ c.auto = (raw["memlimit"] = "auto")
      /\ c.memlimit = IF raw["memlimit"] = "auto" THEN AutoLimit(Number("goroutines")) ELSE Sizes[raw["memlimit"]]
  BY DEF Config
<1>2. Number("goroutines") >= 1 /\ Number("gogc") \in Nat /\ Number("gomaxprocs") \in Nat
  BY ConfigAssumption DEF Accepted, CountsFit, Number, RuntimeInv, IntFlags
<1>3. c # NoConfig
  BY <1>1, <1>2 DEF NoConfig
<1>4. c.memlimit \in 0 .. Int64Max /\ (c.auto => c.memlimit # NoLimit)
  <2> HIDE DEF c
  <2>1. CASE raw["memlimit"] = "auto"
    BY <2>1, <1>1, ConfigAssumption DEF AutoLimit, NoLimit
  <2>2. CASE raw["memlimit"] # "auto"
    BY <2>2, <1>1, ConfigAssumption DEF Accepted, SizesFit
  <2> QED BY <2>1, <2>2
<1> QED BY <1>1, <1>2, <1>3, <1>4 DEF Asked

LEMMA RuntimeStep == RuntimeInv /\ [Next]_vars => RuntimeInv'
<1> SUFFICES ASSUME RuntimeInv, [Next]_vars PROVE RuntimeInv'
  OBVIOUS
<1>1. CASE ReadArgument
  <2>1. /\ Arg.name \in FlagNames /\ Assigns(Arg.name, Value)
        /\ raw' = [raw EXCEPT ![Arg.name] = Value]
    BY <1>1 DEF ReadArgument, TakeArgument, BadArgument
  <2>2. \A n \in IntFlags : raw'[n] \in DOMAIN Numerals
    <3>1. IntFlags \cap (StringFlags \cup BoolFlags) = {} /\ IntFlags \subseteq FlagNames
      BY DEF IntFlags, StringFlags, BoolFlags, FlagNames
    <3> QED BY <2>1, <3>1 DEF RuntimeInv, Assigns
  <2>3. DOMAIN raw' = FlagNames /\ raw' = [n \in FlagNames |-> raw'[n]]
    BY <2>1 DEF RuntimeInv
  <2> QED BY <1>1, <2>2, <2>3 DEF ReadArgument, startVars, RuntimeInv, RuntimeAsReported
<1>2. CASE AcceptFlags
  <2>1. Asked(Config) /\ cfg' = Config /\ raw' = raw /\ env' = env /\ rt' = rt /\ pc = "argv" /\ pc' = "runtime"
    BY <1>2, AcceptedAsks DEF AcceptFlags, lineVars
  <2>2. raw' = raw
    BY <2>1
  <2>3. Config' = Config
    BY <2>2 DEF Config, Number, NarrowShape, AutoLimit
  <2> QED BY <2>1, <2>3 DEF RuntimeInv, RuntimeAsReported, Asked
<1>3. CASE ShapeRuntime
  <2> DEFINE limited == LimitShaped(rt)
             paced == GCShaped(limited)
  <2>1. /\ pc = "runtime" /\ pc' = "build" /\ raw' = raw /\ env' = env
        /\ rt' = IF cfg.gomaxprocs > 0 THEN SetGomaxprocs(paced, cfg.gomaxprocs) ELSE paced
        /\ cfg' = [cfg EXCEPT !.memlimit = limited.limit]
    BY <1>3 DEF ShapeRuntime, lineVars
  <2>2. cfg = Config /\ Asked(cfg) /\ rt = env /\ rt \in Settings
    BY <2>1 DEF RuntimeInv
  <2>3. /\ limited \in Settings /\ limited.gc = rt.gc /\ limited.procs = rt.procs
        /\ limited.limit = IF cfg.auto /\ rt.limit # NoLimit THEN rt.limit ELSE cfg.memlimit
    BY <2>2, ConfigAssumption DEF LimitShaped, SetMemoryLimit, Asked, Settings
  <2>4. /\ paced \in Settings /\ paced.limit = limited.limit /\ paced.procs = limited.procs
        /\ paced.gc = IF cfg.gogc > 0 THEN cfg.gogc ELSE rt.gc
    <3> HIDE DEF limited
    <3> QED BY <2>2, <2>3 DEF GCShaped, SetGCPercent, Asked, Settings
  <2>5. /\ rt' \in Settings /\ rt'.limit = limited.limit /\ rt'.gc = paced.gc
        /\ cfg.gomaxprocs = 0 => rt'.procs = rt.procs
    <3> HIDE DEF limited, paced
    <3> QED BY <2>1, <2>2, <2>3, <2>4 DEF SetGomaxprocs, Asked, Settings
  <2>6. /\ cfg'.memlimit = limited.limit /\ cfg'.auto = cfg.auto /\ cfg'.gogc = cfg.gogc
        /\ cfg'.gomaxprocs = cfg.gomaxprocs
    <3> HIDE DEF limited
    <3> QED BY <2>1, <2>2 DEF Config
  <2>7. RuntimeAsReported'
    <3> HIDE DEF limited, paced
    <3> QED BY <2>1, <2>2, <2>3, <2>4, <2>5, <2>6 DEF RuntimeAsReported, EffectiveGogc, Asked
  <2> QED BY <2>1, <2>5, <2>7 DEF RuntimeInv
<1>4. CASE UNCHANGED <<raw, cfg, env, rt>> /\ pc \notin {"argv", "runtime"} /\ pc' \notin {"argv", "runtime"}
  BY <1>4 DEF RuntimeInv, RuntimeAsReported, EffectiveGogc
<1>5. CASE PrintUsage \/ RefuseArgument \/ RefuseFlags
  BY <1>5 DEF PrintUsage, RefuseArgument, RefuseFlags, Return, lineVars, RuntimeInv, RuntimeAsReported
<1>6. CASE ComposeOpts \/ LookupFails \/ InitSucceeds \/ InitFails \/ InitThrowsLate \/ SaveSucceeds \/ SaveFails
  BY <1>6, <1>4 DEF ComposeOpts, LookupFails, InitSucceeds, InitFails, InitThrowsLate, SaveSucceeds, SaveFails, Return, lineVars
<1>7. CASE AllocateBuffer \/ FillFirst \/ NextWorker \/ SetUpFails \/ HandOver
  BY <1>7, <1>4 DEF AllocateBuffer, FillFirst, NextWorker, SetUpFails, HandOver, Return, lineVars, startVars
<1>8. CASE \E w \in Ids : BeginRefill(w) \/ Refill(w)
  BY <1>8, <1>4 DEF BeginRefill, Refill, lineVars, startVars
<1>9. CASE UNCHANGED vars
  <2>1. UNCHANGED <<raw, cfg, env, rt, pc>>
    BY <1>9 DEF vars, lineVars, startVars
  <2>2. Config' = Config
    BY <2>1 DEF Config, Number, NarrowShape, AutoLimit
  <2> QED BY <2>1, <2>2 DEF RuntimeInv, RuntimeAsReported, EffectiveGogc, Asked
<1> QED BY <1>1, <1>2, <1>3, <1>5, <1>6, <1>7, <1>8, <1>9 DEF Next

\* Whatever flags and environment a run has: a setting that no flag replaces is
\* the environment's, an automatic memory limit is in force, and the numbers the
\* summary prints are the ones in force.
THEOREM RuntimeIsAsReported == Spec => []RuntimeAsReported
<1>1. RuntimeInv => RuntimeAsReported
  BY DEF RuntimeInv
<1> QED BY RuntimeInit, RuntimeStep, <1>1, PTL DEF Spec

-----------------------------------------------------------------------------
(* The command line.                                                       *)

\* A recursive function over a sequence's places, as NamesFlag is, exists.
LEMMA FlagsExist ==
    ASSUME NEW n \in Nat, NEW takes
    PROVE  \E f : f = [i \in 1 .. n |-> i = 1 \/ ~ (f[i - 1] /\ takes[i - 1])]
<1> DEFINE Reads(f, k) == f = [i \in 1 .. k |-> i = 1 \/ ~ (f[i - 1] /\ takes[i - 1])]
           S == {k \in Nat : \E f : Reads(f, k)}
<1>1. 0 \in S
  <2>1. Reads([i \in 1 .. 0 |-> TRUE], 0)
    OBVIOUS
  <2> QED BY <2>1
<1>2. ASSUME NEW k \in Nat, k \in S PROVE k + 1 \in S
  <2>1. PICK f : Reads(f, k)
    BY <1>2
  <2> DEFINE g == [i \in 1 .. k + 1 |-> IF i = k + 1 THEN i = 1 \/ ~ (f[i - 1] /\ takes[i - 1]) ELSE f[i]]
  <2>2. \A i \in 1 .. k + 1 : g[i] = (i = 1 \/ ~ (g[i - 1] /\ takes[i - 1]))
    <3> SUFFICES ASSUME NEW i \in 1 .. k + 1 PROVE g[i] = (i = 1 \/ ~ (g[i - 1] /\ takes[i - 1]))
      OBVIOUS
    <3>1. i # 1 => g[i - 1] = f[i - 1]
      OBVIOUS
    <3>2. i # k + 1 => g[i] = f[i] /\ f[i] = (i = 1 \/ ~ (f[i - 1] /\ takes[i - 1]))
      BY <2>1
    <3>3. i = k + 1 => g[i] = (i = 1 \/ ~ (f[i - 1] /\ takes[i - 1]))
      OBVIOUS
    <3> HIDE DEF g
    <3> QED BY <3>1, <3>2, <3>3
  <2>3. g = [i \in 1 .. k + 1 |-> g[i]]
    OBVIOUS
  <2>4. Reads(g, k + 1)
    <3> HIDE DEF g
    <3> QED BY <2>2, <2>3
  <2> HIDE DEF g, Reads
  <2> QED BY <2>4
<1>3. n \in S
  <2> HIDE DEF S
  <2> QED BY <1>1, <1>2, SetInduction
<1> QED BY <1>3

\* So NamesFlag obeys the equation it is defined by.
LEMMA FlagPositions ==
    ASSUME Len(argv) \in Nat
    PROVE  \A i \in 1 .. Len(argv) :
               NamesFlag[i] <=> (i = 1 \/ ~ (NamesFlag[i - 1] /\ argv[i - 1].value = NoValue /\ argv[i - 1].name \notin BoolFlags))
<1> DEFINE takes == [i \in 1 .. Len(argv) |-> argv[i].value = NoValue /\ argv[i].name \notin BoolFlags]
           Reads(f) == f = [i \in 1 .. Len(argv) |-> i = 1 \/ ~ (f[i - 1] /\ argv[i - 1].value = NoValue /\ argv[i - 1].name \notin BoolFlags)]
<1>1. PICK f : f = [i \in 1 .. Len(argv) |-> i = 1 \/ ~ (f[i - 1] /\ takes[i - 1])]
  BY FlagsExist
<1>2. \A i \in 1 .. Len(argv) : (i = 1 \/ ~ (f[i - 1] /\ takes[i - 1])) = (i = 1 \/ ~ (f[i - 1] /\ argv[i - 1].value = NoValue /\ argv[i - 1].name \notin BoolFlags))
  <2> SUFFICES ASSUME NEW i \in 1 .. Len(argv)
               PROVE (i = 1 \/ ~ (f[i - 1] /\ takes[i - 1])) <=> (i = 1 \/ ~ (f[i - 1] /\ argv[i - 1].value = NoValue /\ argv[i - 1].name \notin BoolFlags))
    OBVIOUS
  <2>1. CASE i # 1
    <3>1. i - 1 \in 1 .. Len(argv)
      BY <2>1
    <3>2. takes[i - 1] <=> (argv[i - 1].value = NoValue /\ argv[i - 1].name \notin BoolFlags)
      BY <3>1
    <3> QED BY <3>2
  <2> QED BY <2>1
<1>3. Reads(f)
  <2> HIDE DEF takes
  <2> QED BY <1>1, <1>2
<1>4. NamesFlag = CHOOSE g : Reads(g)
  BY DEF NamesFlag
<1>5. Reads(NamesFlag)
  <2> HIDE DEF Reads
  <2> QED BY <1>3, <1>4
<1> QED BY <1>5

\* The value a mention at place i gives to flag n.
TextOf(n, i) ==
    IF argv[i].value # NoValue THEN argv[i].value
    ELSE IF n \in BoolFlags THEN "true" ELSE argv[i + 1].text

\* The mentions before place k, and LastMention for them alone.
MentionsBelow(n, k) == {i \in 1 .. k - 1 : NamesFlag[i] /\ argv[i].name = n}

LastBelow(n, k, t) ==
    \/ MentionsBelow(n, k) = {} /\ t = Defaults[n]
    \/ \E i \in MentionsBelow(n, k) : (\A j \in MentionsBelow(n, k) : j <= i) /\ t = TextOf(n, i)

\* The next argument to be read names a flag, and the values are those of the
\* mentions before it.
LineInv ==
    /\ argv \in CommandLines
    /\ argi \in 1 .. Len(argv) + 1
    /\ argi <= Len(argv) => NamesFlag[argi]
    /\ pc \notin {"argv", "exit 0", "exit 2"} => argi = Len(argv) + 1
    /\ DOMAIN raw = FlagNames
    /\ \A n \in FlagNames : LastBelow(n, argi, raw[n])

LEMMA LineLength == argv \in CommandLines => Len(argv) \in Nat
<1>1. argv \in CommandLines => argv \in Seq(Arguments)
  BY LinesAssumption
<1> QED BY <1>1, LenProperties

\* The line has been read to its end.
LineRead == pc \notin {"argv", "exit 0", "exit 2"}

LEMMA LineTyped ==
    ASSUME LineInv
    PROVE  /\ Len(argv) \in Nat /\ argi \in Nat /\ argi >= 1 /\ argi <= Len(argv) + 1
           /\ argi \in 1 .. Len(argv) + 1
           /\ LineRead => argi = Len(argv) + 1
<1>1. Len(argv) \in Nat
  BY LineLength DEF LineInv
<1>2. argi \in 1 .. Len(argv) + 1
  BY DEF LineInv
<1>3. LineRead => argi = Len(argv) + 1
  BY DEF LineInv, LineRead
<1> QED BY <1>1, <1>2, <1>3

LEMMA LineInit == Init => LineInv
<1> SUFFICES ASSUME Init PROVE LineInv
  OBVIOUS
<1>1. argv \in CommandLines /\ Len(argv) \in Nat /\ argi = 1
  BY LineLength DEF Init
<1>2. argi <= Len(argv) => NamesFlag[argi]
  BY <1>1, FlagPositions
<1>3. \A n \in FlagNames : MentionsBelow(n, argi) = {}
  BY <1>1 DEF MentionsBelow
<1>4. raw = Defaults /\ DOMAIN Defaults = FlagNames
  BY DEF Init, Defaults
<1> QED BY <1>1, <1>2, <1>3, <1>4 DEF Init, LineInv, LastBelow

\* A flag and the value it takes are passed together: what is next names a flag.
LEMMA ReadsFlag ==
    ASSUME LineInv, TakeArgument
    PROVE  LineInv' \/ pc' # pc
<1> SUFFICES ASSUME pc' = pc PROVE LineInv'
  OBVIOUS
<1>0. Len(argv) \in Nat /\ argi \in Nat /\ argi <= Len(argv)
  BY LineTyped DEF TakeArgument
<1>1. Len(argv) \in Nat /\ argi \in 1 .. Len(argv) /\ NamesFlag[argi]
  <2>1. argi >= 1
    BY LineTyped
  <2>2. NamesFlag[argi]
    BY <1>0 DEF LineInv
  <2> QED BY <1>0, <2>1, <2>2
<1>2. argv' = argv /\ NamesFlag' = NamesFlag
  BY DEF TakeArgument, NamesFlag
<1> DEFINE next == IF TakesNext THEN argi + 2 ELSE argi + 1
<1>3. Arg.name \in FlagNames /\ ValueGiven /\ argi' = next /\ raw' = [raw EXCEPT ![Arg.name] = Value]
  BY DEF TakeArgument, BadArgument
<1>4. argi' \in 1 .. Len(argv) + 1
  BY <1>1, <1>3 DEF ValueGiven
<1>5. TakesNext => argi + 1 \in 1 .. Len(argv) /\ ~ NamesFlag[argi + 1]
  <2> SUFFICES ASSUME TakesNext PROVE argi + 1 \in 1 .. Len(argv) /\ ~ NamesFlag[argi + 1]
    OBVIOUS
  <2>1. argi + 1 \in 1 .. Len(argv) /\ argi + 1 # 1 /\ (argi + 1) - 1 = argi
    BY <1>1, <1>3 DEF ValueGiven
  <2>2. argv[argi].value = NoValue /\ argv[argi].name \notin BoolFlags
    BY DEF TakesNext, Arg
  <2> QED BY <1>1, <2>1, <2>2, FlagPositions
<1>6. argi' <= Len(argv) => NamesFlag[argi']
  <2> SUFFICES ASSUME next <= Len(argv) PROVE NamesFlag[next]
    BY <1>3
  <2>1. next \in 1 .. Len(argv) /\ next # 1
    BY <1>1
  <2>2. CASE TakesNext
    <3>1. next - 1 = argi + 1
      BY <1>1, <2>2
    <3> HIDE DEF next
    <3> QED BY <1>5, <2>1, <2>2, <3>1, <1>1, FlagPositions
  <2>3. CASE ~ TakesNext
    <3>1. next - 1 = argi
      BY <1>1, <2>3
    <3>2. ~ (argv[argi].value = NoValue /\ argv[argi].name \notin BoolFlags)
      BY <2>3 DEF TakesNext, Arg
    <3> HIDE DEF next
    <3> QED BY <2>1, <3>1, <3>2, <1>1, FlagPositions
  <2> QED BY <2>2, <2>3
<1>7. \A i : i \in 1 .. next - 1 /\ NamesFlag[i] <=> (i \in 1 .. argi - 1 /\ NamesFlag[i]) \/ i = argi
  BY <1>1, <1>5
<1>8. ASSUME NEW n \in FlagNames PROVE LastBelow(n, argi, raw[n])'
  <2>1. MentionsBelow(n, argi)' = {i \in 1 .. next - 1 : NamesFlag[i] /\ argv[i].name = n}
    BY <1>2, <1>3 DEF MentionsBelow
  <2>2. MentionsBelow(n, argi)' = MentionsBelow(n, argi) \cup (IF argv[argi].name = n THEN {argi} ELSE {})
    <3> HIDE DEF next
    <3> QED BY <2>1, <1>7 DEF MentionsBelow
  <2>3. \A i : TextOf(n, i)' = TextOf(n, i)
    BY <1>2 DEF TextOf
  <2>4. CASE argv[argi].name = n
    <3>1. raw'[n] = Value
      BY <1>3, <2>4 DEF LineInv, Arg
    <3>2. Value = TextOf(n, argi)
      BY <2>4 DEF Value, TextOf, Arg
    <3>3. \A j \in MentionsBelow(n, argi)' : j <= argi
      BY <2>2, <2>4, <1>1 DEF MentionsBelow
    <3>4. argi \in MentionsBelow(n, argi)'
      BY <2>2, <2>4
    <3> QED BY <3>1, <3>2, <3>3, <3>4, <2>3 DEF LastBelow
  <2>5. CASE argv[argi].name # n
    <3>1. raw'[n] = raw[n]
      BY <1>3, <2>5 DEF LineInv, Arg
    <3>2. LastBelow(n, argi, raw[n])
      BY DEF LineInv
    <3> QED BY <3>1, <3>2, <2>2, <2>3, <2>5 DEF LastBelow
  <2> QED BY <2>4, <2>5
<1>9. DOMAIN raw' = FlagNames
  BY <1>3 DEF LineInv
<1>10. pc' \notin {"argv", "exit 0", "exit 2"} => argi' = Len(argv') + 1
  <2>1. ~ LineRead
    BY <1>1, LineTyped
  <2> QED BY <2>1 DEF LineRead
<1> QED BY <1>2, <1>4, <1>6, <1>8, <1>9, <1>10 DEF LineInv

LEMMA LineStep == LineInv /\ [Next]_vars => LineInv'
<1> SUFFICES ASSUME LineInv, [Next]_vars PROVE LineInv'
  OBVIOUS
<1>1. CASE ReadArgument
  <2>1. TakeArgument /\ pc' = pc
    BY <1>1 DEF ReadArgument, startVars
  <2> QED BY <2>1, ReadsFlag
<1>2. CASE UNCHANGED lineVars /\ (pc' \in {"argv", "exit 0", "exit 2"} \/ pc \notin {"argv", "exit 0", "exit 2"} \/ argi > Len(argv))
  <2>0. UNCHANGED <<argv, argi, raw>>
    BY <1>2 DEF lineVars
  <2>1. UNCHANGED <<argv, argi, raw>> /\ NamesFlag' = NamesFlag
    BY <2>0 DEF NamesFlag
  <2>2. \A n \in FlagNames : LastBelow(n, argi, raw[n])'
    <3> TAKE n \in FlagNames
    <3>1. LastBelow(n, argi, raw[n])
      BY DEF LineInv
    <3> QED BY <2>1, <3>1 DEF LastBelow, MentionsBelow, TextOf
  <2>3. pc' \notin {"argv", "exit 0", "exit 2"} => argi' = Len(argv') + 1
    <3>1. Len(argv) \in Nat /\ argi \in Nat /\ argi <= Len(argv) + 1 /\ (LineRead => argi = Len(argv) + 1)
      BY LineTyped
    <3>2. argi > Len(argv) => argi = Len(argv) + 1
      BY <3>1
    <3> QED BY <1>2, <2>0, <3>1, <3>2 DEF LineRead
  <2> QED BY <2>1, <2>2, <2>3 DEF LineInv
<1>3. CASE PrintUsage \/ RefuseArgument \/ RefuseFlags \/ AcceptFlags
  BY <1>3, <1>2 DEF PrintUsage, RefuseArgument, RefuseFlags, AcceptFlags, Return
<1>4. CASE ShapeRuntime \/ ComposeOpts \/ LookupFails \/ InitSucceeds \/ InitFails \/ InitThrowsLate \/ SaveSucceeds \/ SaveFails
  BY <1>4, <1>2 DEF ShapeRuntime, ComposeOpts, LookupFails, InitSucceeds, InitFails, InitThrowsLate, SaveSucceeds, SaveFails
<1>5. CASE AllocateBuffer \/ FillFirst \/ NextWorker \/ SetUpFails \/ HandOver
  BY <1>5, <1>2 DEF AllocateBuffer, FillFirst, NextWorker, SetUpFails, HandOver
<1>6. CASE \E w \in Ids : BeginRefill(w) \/ Refill(w)
  BY <1>6, <1>2 DEF BeginRefill, Refill
<1>7. CASE UNCHANGED vars
  BY <1>7, <1>2 DEF vars, startVars
<1> QED BY <1>1, <1>3, <1>4, <1>5, <1>6, <1>7 DEF Next

\* The greatest of a set of integers is the one CHOOSE finds.
LEMMA LastOf ==
    ASSUME NEW S \in SUBSET Int, NEW i \in S, \A j \in S : j <= i
    PROVE  (CHOOSE k \in S : \A j \in S : j <= k) = i
<1> DEFINE last == CHOOSE k \in S : \A j \in S : j <= k
<1>1. last \in S /\ \A j \in S : j <= last
  OBVIOUS
<1> HIDE DEF last
<1>2. last \in Int /\ i \in Int /\ last <= i /\ i <= last
  BY <1>1
<1>3. last = i
  BY <1>2
<1> QED BY <1>3 DEF last

LEMMA ReadToTheEnd ==
    ASSUME LineInv, LineRead, NEW n \in FlagNames
    PROVE  LastMention(n, raw[n])
<1>1. Len(argv) \in Nat /\ argi - 1 = Len(argv)
  BY LineTyped
<1>2. LastBelow(n, argi, raw[n])
  BY DEF LineInv
<1> DEFINE mentions == {i \in 1 .. Len(argv) : NamesFlag[i] /\ argv[i].name = n}
<1>3. MentionsBelow(n, argi) = mentions
  BY <1>1 DEF MentionsBelow
<1>4. mentions \in SUBSET Int
  BY <1>1
<1>5. LastMention(n, raw[n]) =
        IF mentions = {} THEN raw[n] = Defaults[n]
        ELSE raw[n] = TextOf(n, CHOOSE i \in mentions : \A j \in mentions : j <= i)
  BY DEF LastMention, TextOf
<1> HIDE DEF mentions
<1>6. CASE mentions = {}
  BY <1>2, <1>3, <1>5, <1>6 DEF LastBelow
<1>7. CASE mentions # {}
  <2>1. PICK i \in mentions : (\A j \in mentions : j <= i) /\ raw[n] = TextOf(n, i)
    BY <1>2, <1>3, <1>7 DEF LastBelow
  <2>2. (CHOOSE k \in mentions : \A j \in mentions : j <= k) = i
    BY <1>4, <2>1, LastOf
  <2> QED BY <1>5, <1>7, <2>1, <2>2
<1> QED BY <1>6, <1>7

\* For every command line, each flag has, when the line has been read, the value
\* of its last mention: no argument is read twice and none is passed over.
THEOREM FlagsAreAsMentioned == Spec => []RawAsMentioned
<1>1. LineInv => RawAsMentioned
  BY ReadToTheEnd DEF RawAsMentioned, LineRead
<1> QED BY LineInit, LineStep, <1>1, PTL DEF Spec

-----------------------------------------------------------------------------
(* Words: sums that wrap, and the places of bytes.                         *)

\* Quotient and remainder.
LEMMA DivMod ==
    ASSUME NEW x \in Int, NEW w \in Nat \ {0}
    PROVE  x \div w \in Int /\ x % w \in 0 .. w - 1 /\ x = w * (x \div w) + (x % w)
  OBVIOUS

\* There is one way only to write a number with a divisor.
LEMMA Division ==
    ASSUME NEW w \in Nat \ {0}, NEW q \in Int, NEW r \in 0 .. w - 1
    PROVE  (w * q + r) % w = r /\ (w * q + r) \div w = q
<1> DEFINE x == w * q + r
<1>0. x \in Int /\ w \in Int /\ w > 0
  OBVIOUS
<1>1. x \div w \in Int /\ x % w \in 0 .. w - 1 /\ x = w * (x \div w) + (x % w)
  BY <1>0, DivMod
<1> DEFINE p == x \div w
           s == x % w
<1>2. w * q + r = w * p + s /\ p \in Int /\ s \in Int /\ 0 <= s /\ s < w
  BY <1>1
<1> HIDE DEF p, s, x
<1>3. w * (q - p) = s - r
  BY <1>2
<1>4. ~ (q - p >= 1)
  <2> SUFFICES ASSUME q - p >= 1 PROVE FALSE
    OBVIOUS
  <2>1. w * (q - p) >= w
    BY <1>2
  <2> QED BY <2>1, <1>3, <1>2
<1>5. ~ (q - p <= -1)
  <2> SUFFICES ASSUME q - p <= -1 PROVE FALSE
    OBVIOUS
  <2>1. w * (q - p) <= -w
    BY <1>2
  <2> QED BY <2>1, <1>3, <1>2
<1>6. p = q
  BY <1>4, <1>5, <1>2
<1>7. s = r
  BY <1>6, <1>2
<1> QED BY <1>6, <1>7 DEF p, s, x

\* Plus adds modulo the number of words.
LEMMA SumWraps ==
    ASSUME NEW x \in Nat, NEW b \in 0 .. Words - 1
    PROVE  Plus(x % Words, b) = (x + b) % Words /\ Plus(x % Words, b) \in 0 .. Words - 1
<1>1. Words \in Nat \ {0}
  BY GeneratorAssumption
<1> DEFINE q == x \div Words
           r == x % Words
           sum == r + b
<1>2. q \in Int /\ r \in 0 .. Words - 1 /\ x = Words * q + r
  BY <1>1, DivMod
<1> HIDE DEF q, r
<1>3. sum \in Nat /\ sum < Words + Words /\ x + b = Words * q + sum
  BY <1>1, <1>2
<1>4. Plus(r, b) = IF sum >= Words THEN sum - Words ELSE sum
  BY <1>1, <1>2 DEF Plus
<1> HIDE DEF sum
<1>5. CASE sum >= Words
  <2> DEFINE s == sum - Words
  <2>1. s \in 0 .. Words - 1 /\ x + b = Words * (q + 1) + s /\ q + 1 \in Int
    BY <1>1, <1>2, <1>3, <1>5
  <2>2. Plus(r, b) = s
    BY <1>4, <1>5
  <2> HIDE DEF s
  <2>3. (x + b) % Words = s
    BY <1>1, <2>1, Division
  <2> QED BY <2>1, <2>2, <2>3 DEF r
<1>6. CASE ~ (sum >= Words)
  <2>1. sum \in 0 .. Words - 1
    BY <1>1, <1>3, <1>6
  <2>2. Plus(r, b) = sum
    BY <1>4, <1>6
  <2>3. (x + b) % Words = sum
    BY <1>1, <1>2, <1>3, <2>1, Division
  <2> QED BY <2>1, <2>2, <2>3 DEF r
<1> QED BY <1>5, <1>6

\* A word is its own remainder.
LEMMA Small ==
    ASSUME NEW x \in 0 .. Words - 1
    PROVE  x % Words = x
<1>1. Words \in Nat \ {0} /\ x = Words * 0 + x
  BY GeneratorAssumption
<1> QED BY <1>1, Division

\* A worker's seed is its generator's state before any draw.
LEMMA FirstState ==
    ASSUME NEW seed \in 0 .. Words - 1, NEW w \in Ids
    PROVE  SeedWorker(seed, w) = StateAfter(seed, w, 0) /\ SeedWorker(seed, w) \in 0 .. Words - 1
<1>1. Words \in Nat /\ Stride \in Nat /\ w \in 0 .. Words - 1 /\ 1 \in 0 .. Words - 1
  BY GeneratorAssumption, WidthAssumption, ConfigAssumption
<1>2. Plus(seed, w) = (seed + w) % Words
  <2>1. seed % Words = seed /\ seed \in Nat
    BY <1>1, Small
  <2>2. Plus(seed % Words, w) = (seed + w) % Words
    BY <1>1, <2>1, SumWraps
  <2> QED BY <2>1, <2>2
<1>3. seed + w \in Nat
  BY <1>1
<1>4. Plus((seed + w) % Words, 1) = (seed + w + 1) % Words /\ Plus((seed + w) % Words, 1) \in 0 .. Words - 1
  BY <1>1, <1>3, SumWraps
<1>5. seed + w + 1 + 0 * Stride = seed + w + 1
  BY <1>1
<1> QED BY <1>2, <1>4, <1>5 DEF SeedWorker, StateAfter

\* A draw takes the generator from one of its states to the next.
LEMMA NextState ==
    ASSUME NEW seed \in 0 .. Words - 1, NEW w \in Ids, NEW n \in Nat
    PROVE  Splitmix(StateAfter(seed, w, n)) = StateAfter(seed, w, n + 1)
           /\ StateAfter(seed, w, n) \in 0 .. Words - 1 /\ StateAfter(seed, w, n + 1) \in 0 .. Words - 1
<1>1. Words \in Nat \ {0} /\ Stride \in 0 .. Words - 1 /\ w \in 0 .. Words - 1
  BY GeneratorAssumption
<1>2. n * Stride \in Nat
  BY <1>1
<1> DEFINE x == seed + w + 1 + n * Stride
<1>3. x \in Nat /\ seed + w + 1 + (n + 1) * Stride = x + Stride
  BY <1>1, <1>2
<1>4. x % Words \in 0 .. Words - 1
  BY <1>1, <1>3, DivMod
<1>5. Plus(x % Words, Stride) = (x + Stride) % Words /\ Plus(x % Words, Stride) \in 0 .. Words - 1
  <2> HIDE DEF x
  <2> QED BY <1>1, <1>3, SumWraps
<1> QED BY <1>3, <1>4, <1>5 DEF Splitmix, StateAfter

\* The word a byte belongs to, and its place there.
LEMMA PlaceInWord ==
    ASSUME NEW j \in Nat, NEW i \in j * Block + 1 .. j * Block + Block
    PROVE  (i - 1) \div Block = j /\ ((i - 1) % Block) + 1 = i - j * Block
<1>1. Block \in Nat \ {0}
  BY GeneratorAssumption
<1>2. j * Block \in Nat
  BY <1>1
<1> DEFINE r == i - 1 - j * Block
<1>3. r \in 0 .. Block - 1 /\ i - 1 = Block * j + r /\ j \in Int
  BY <1>1, <1>2
<1> HIDE DEF r
<1>4. (i - 1) \div Block = j /\ (i - 1) % Block = r
  BY <1>1, <1>3, Division
<1> QED BY <1>1, <1>2, <1>4 DEF r

\* The words a filling draws.
WordsOf(size) == (size + Block - 1) \div Block

\* The word that reaches the end of a buffer is its last.
LEMMA LastWord ==
    ASSUME NEW size \in Nat, NEW j \in Nat, j * Block < size, size <= j * Block + Block
    PROVE  WordsOf(size) = j + 1
<1>1. Block \in Nat \ {0}
  BY GeneratorAssumption
<1>2. j * Block \in Nat
  BY <1>1
<1> DEFINE r == size - 1 - j * Block
<1>3. r \in 0 .. Block - 1 /\ size + Block - 1 = Block * (j + 1) + r /\ j + 1 \in Int
  BY <1>1, <1>2
<1> HIDE DEF r
<1> QED BY <1>1, <1>3, Division DEF WordsOf

\* How many words a filling draws is a natural number.
LEMMA WordsCount == ASSUME NEW size \in Nat PROVE WordsOf(size) \in Nat
<1>1. Block \in Nat \ {0} /\ size + Block - 1 \in Nat
  BY GeneratorAssumption
<1> DEFINE x == size + Block - 1
           q == x \div Block
           r == x % Block
<1>2. q \in Int /\ r \in 0 .. Block - 1 /\ x = Block * q + r
  <2> HIDE DEF x
  <2> QED BY <1>1, DivMod DEF x
<1> HIDE DEF q, r, x
<1>3. ~ (q <= -1)
  <2> SUFFICES ASSUME q <= -1 PROVE FALSE
    OBVIOUS
  <2>1. Block * q <= -Block
    BY <1>1, <1>2
  <2> QED BY <1>1, <1>2, <2>1 DEF x
<1> QED BY <1>2, <1>3 DEF q, x, WordsOf

-----------------------------------------------------------------------------
(* The configuration.                                                      *)

\* The flags whose texts are numbers.
NumberFlags == IntFlags \cup Int64Flags \cup Uint64Flags

\* What an accepted configuration holds.
Configured(c) ==
    /\ c.workers \in 1 .. MaxWorkers
    /\ c.payload \in 1 .. Int64Max /\ c.payload \in {Sizes[t] : t \in DOMAIN Sizes}
    /\ c.mode \in PayloadModes /\ c.seed \in 0 .. Words - 1
    /\ c.iterations \in Nat /\ c.rekey \in Nat /\ c.cycle \in Nat /\ c.shape \in Shapes
    /\ c.parallax \in BOOLEAN /\ c.wrapper \in BOOLEAN
    /\ c.profile # "" =>
         /\ c.profile \in DOMAIN Profiles
         /\ \/ Profiles[c.profile].surface = "msg" /\ c.shape = "message"
            \/ Profiles[c.profile].surface = "stream" /\ c.shape \in {"stream", "stream_one_shot"}

\* Where a run has no configuration, or needs none any more.
Unconfigured == {"argv"} \cup Exits

\* Flags hold what the parsers take; past the checks, the configuration is one
\* that was accepted.
ConfigInv ==
    /\ DOMAIN raw = FlagNames
    /\ \A n \in NumberFlags : raw[n] \in DOMAIN Numerals
    /\ Numerals[raw["seed"]] \in 0 .. 2 * Int64Max + 1
    /\ pc = "runtime" => cfg = Config
    /\ pc \notin Unconfigured => Configured(cfg)

\* The flags' defaults parse.
LEMMA ConfigInit == Init => ConfigInv
<1> SUFFICES ASSUME Init PROVE ConfigInv
  OBVIOUS
<1>1. raw = Defaults /\ pc = "argv"
  BY DEF Init
<1>2. DOMAIN raw = FlagNames
  BY <1>1 DEF Defaults
<1>3. \A n \in NumberFlags : raw[n] \in DOMAIN Numerals
  BY <1>1, ConfigAssumption DEF Defaults, NumberFlags, IntFlags, Int64Flags, Uint64Flags, FlagNames
<1>4. Numerals[raw["seed"]] = 0
  BY <1>1, ConfigAssumption DEF Defaults, Uint64Flags, FlagNames
<1>5. 0 \in 0 .. 2 * Int64Max + 1
  BY ConfigAssumption
<1> QED BY <1>1, <1>2, <1>3, <1>4, <1>5 DEF ConfigInv, Unconfigured

\* What the checks of parse_flags let through is a configuration.
LEMMA AcceptedIsConfigured ==
    ASSUME ConfigInv, Accepted
    PROVE  Configured(Config)
<1> DEFINE c == Config
<1>1. /\ c.workers = Number("goroutines") /\ c.payload = Sizes[raw["payload-size"]]
      /\ c.mode = raw["payload-mode"] /\ c.seed = Number("seed")
      /\ c.iterations = Number("iterations") /\ c.rekey = Number("rekey-every") /\ c.cycle = Number("blob-cycle-every")
      /\ c.parallax \in BOOLEAN /\ c.wrapper \in BOOLEAN /\ c.profile = raw["profile"]
      /\ c.shape = IF raw["profile"] = "" THEN raw["shape"]
                   ELSE NarrowShape(raw["shape"], Profiles[raw["profile"]].surface)
  BY DEF Config
<1> HIDE DEF c
<1>2. \A n \in NumberFlags : Number(n) \in Int
  BY ConfigAssumption DEF ConfigInv, Number
<1>3. {"goroutines", "iterations", "rekey-every", "blob-cycle-every", "seed"} \subseteq NumberFlags
  BY DEF NumberFlags, IntFlags, Int64Flags, Uint64Flags
<1>10. CountsFit /\ SizesFit /\ ChoicesFit /\ ProfileFits
  BY DEF Accepted
<1>11. /\ Number("iterations") >= 0 /\ Number("goroutines") \in 1 .. MaxWorkers
       /\ Number("rekey-every") >= 0 /\ Number("blob-cycle-every") >= 0
  BY <1>10 DEF CountsFit
<1>12. raw["payload-size"] \in DOMAIN Sizes /\ Sizes[raw["payload-size"]] >= 1
  BY <1>10 DEF SizesFit
<1>13. raw["shape"] \in Shapes /\ raw["payload-mode"] \in PayloadModes
  <2>1. raw["shape"] \in Shapes
    BY <1>10, ZenonT(60) DEF ChoicesFit
  <2>2. raw["payload-mode"] \in PayloadModes
    BY <1>10, ZenonT(60) DEF ChoicesFit
  <2> QED BY <2>1, <2>2
<1>4. c.workers \in 1 .. MaxWorkers /\ c.iterations \in Nat /\ c.rekey \in Nat /\ c.cycle \in Nat
  <2>1. Number("iterations") \in Int /\ Number("rekey-every") \in Int /\ Number("blob-cycle-every") \in Int
    BY <1>2, <1>3
  <2>2. Number("iterations") \in Nat /\ Number("rekey-every") \in Nat /\ Number("blob-cycle-every") \in Nat
    BY <2>1, <1>11
  <2> QED BY <1>1, <2>2, <1>11, Zenon
<1>5. c.payload \in 1 .. Int64Max /\ c.payload \in {Sizes[t] : t \in DOMAIN Sizes}
  <2>1. Sizes[raw["payload-size"]] \in 0 .. Int64Max
    BY <1>12, ConfigAssumption
  <2>2. Sizes[raw["payload-size"]] \in 1 .. Int64Max /\ Sizes[raw["payload-size"]] \in {Sizes[t] : t \in DOMAIN Sizes}
    BY <1>12, <2>1, ConfigAssumption
  <2> QED BY <1>1, <2>2
<1>6. c.mode \in PayloadModes
  BY <1>1, <1>13
<1>7. c.seed \in 0 .. Words - 1
  <2>1. 0 .. Words - 1 = 0 .. 2 * Int64Max + 1
    BY WidthAssumption, ConfigAssumption
  <2> QED BY <1>1, <2>1 DEF ConfigInv, Number
<1>8. c.shape \in Shapes
  BY <1>1, <1>13 DEF NarrowShape, Shapes
<1>9. c.profile # "" =>
        /\ c.profile \in DOMAIN Profiles
        /\ \/ Profiles[c.profile].surface = "msg" /\ c.shape = "message"
           \/ Profiles[c.profile].surface = "stream" /\ c.shape \in {"stream", "stream_one_shot"}
  BY <1>1, <1>10 DEF ProfileFits, NarrowShape
<1> QED BY <1>1, <1>4, <1>5, <1>6, <1>7, <1>8, <1>9 DEF Configured, c

\* No step undoes that: shaping the runtime changes the memory limit only.
LEMMA ConfigStep == ConfigInv /\ [Next]_vars => ConfigInv'
<1> SUFFICES ASSUME ConfigInv, [Next]_vars PROVE ConfigInv'
  OBVIOUS
<1>1. CASE ReadArgument
  <2>1. /\ Arg.name \in FlagNames /\ Assigns(Arg.name, Value) /\ pc' = pc /\ cfg' = cfg /\ pc = "argv"
        /\ raw' = [raw EXCEPT ![Arg.name] = Value]
    BY <1>1 DEF ReadArgument, TakeArgument, BadArgument, startVars
  <2>2. \A n \in NumberFlags : n \in FlagNames \ (StringFlags \cup BoolFlags)
    BY DEF NumberFlags, IntFlags, Int64Flags, Uint64Flags, BoolFlags, StringFlags, FlagNames
  <2>3. \A n \in NumberFlags : raw'[n] \in DOMAIN Numerals
    BY <2>1, <2>2 DEF ConfigInv, Assigns
  <2>4. Numerals[raw'["seed"]] \in 0 .. 2 * Int64Max + 1
    <3>1. "seed" \in FlagNames /\ "seed" \notin StringFlags \cup BoolFlags \cup IntFlags \cup Int64Flags
      BY DEF IntFlags, Int64Flags, Uint64Flags, BoolFlags, StringFlags, FlagNames
    <3> QED BY <2>1, <3>1 DEF ConfigInv, Assigns
  <2>5. DOMAIN raw' = FlagNames
    BY <2>1 DEF ConfigInv
  <2> QED BY <2>1, <2>3, <2>4, <2>5 DEF ConfigInv, Unconfigured
<1>2. CASE AcceptFlags
  <2>1. Accepted /\ cfg' = Config /\ raw' = raw /\ pc' = "runtime"
    BY <1>2 DEF AcceptFlags, lineVars
  <2>2. raw' = raw
    BY <2>1
  <2>3. Config' = Config
    BY <2>2 DEF Config, Number, NarrowShape, AutoLimit
  <2>4. Configured(cfg')
    BY <2>1, AcceptedIsConfigured
  <2> QED BY <2>1, <2>3, <2>4 DEF ConfigInv
<1>3. CASE ShapeRuntime
  <2> DEFINE limit == LimitShaped(rt).limit
  <2>1. /\ pc = "runtime" /\ pc' = "build" /\ raw' = raw
        /\ cfg' = [cfg EXCEPT !.memlimit = limit]
    BY <1>3 DEF ShapeRuntime, lineVars
  <2>2. cfg = Config /\ Configured(cfg)
    BY <2>1 DEF ConfigInv, Unconfigured, Exits
  <2>3. /\ cfg'.workers = cfg.workers /\ cfg'.payload = cfg.payload /\ cfg'.mode = cfg.mode /\ cfg'.seed = cfg.seed
        /\ cfg'.iterations = cfg.iterations /\ cfg'.rekey = cfg.rekey /\ cfg'.cycle = cfg.cycle
        /\ cfg'.shape = cfg.shape /\ cfg'.parallax = cfg.parallax /\ cfg'.wrapper = cfg.wrapper
        /\ cfg'.profile = cfg.profile
    <3> HIDE DEF limit
    <3>1. /\ cfg'.workers = cfg.workers /\ cfg'.payload = cfg.payload /\ cfg'.mode = cfg.mode /\ cfg'.seed = cfg.seed
          /\ cfg'.iterations = cfg.iterations
      BY <2>1, <2>2 DEF Config
    <3>2. cfg'.rekey = cfg.rekey /\ cfg'.cycle = cfg.cycle /\ cfg'.shape = cfg.shape
      BY <2>1, <2>2 DEF Config
    <3>3. cfg'.parallax = cfg.parallax /\ cfg'.wrapper = cfg.wrapper /\ cfg'.profile = cfg.profile
      BY <2>1, <2>2 DEF Config
    <3> QED BY <3>1, <3>2, <3>3
  <2>4. Configured(cfg')
    BY <2>2, <2>3 DEF Configured
  <2> QED BY <2>1, <2>4 DEF ConfigInv
<1>4. CASE UNCHANGED <<raw, cfg>> /\ (pc' = pc \/ (pc \notin Unconfigured /\ pc' # "runtime") \/ pc' \in Unconfigured)
  <2>1. (pc' = "runtime" => pc = "runtime") /\ (pc' \notin Unconfigured => pc \notin Unconfigured)
    BY <1>4 DEF Unconfigured, Exits
  <2>2. raw' = raw
    BY <1>4
  <2>3. Config' = Config
    BY <2>2 DEF Config, Number, NarrowShape, AutoLimit
  <2> QED BY <1>4, <2>1, <2>3 DEF ConfigInv
<1>5. CASE PrintUsage \/ RefuseArgument \/ RefuseFlags
  BY <1>5, <1>4 DEF PrintUsage, RefuseArgument, RefuseFlags, Return, lineVars, Unconfigured, Exits
<1>6. CASE ComposeOpts \/ LookupFails \/ InitSucceeds \/ InitFails \/ InitThrowsLate \/ SaveSucceeds \/ SaveFails
  BY <1>6, <1>4 DEF ComposeOpts, LookupFails, InitSucceeds, InitFails, InitThrowsLate, SaveSucceeds, SaveFails, Return, lineVars,
                    Unconfigured, Exits
<1>7. CASE AllocateBuffer \/ FillFirst \/ NextWorker \/ SetUpFails \/ HandOver
  BY <1>7, <1>4 DEF AllocateBuffer, FillFirst, NextWorker, SetUpFails, HandOver, Return, lineVars, startVars,
                    Unconfigured, Exits
<1>8. CASE \E w \in Ids : BeginRefill(w) \/ Refill(w)
  BY <1>8, <1>4 DEF BeginRefill, Refill, lineVars, startVars
<1>9. CASE UNCHANGED vars
  BY <1>9, <1>4 DEF vars, lineVars, startVars
<1> QED BY <1>1, <1>2, <1>3, <1>5, <1>6, <1>7, <1>8, <1>9 DEF Next

-----------------------------------------------------------------------------
(* Plaintexts.                                                             *)

\* The filling that is under way or was completed last.
Turn(w) == IF Unfilled(w) THEN rounds[w] + 1 ELSE rounds[w]

\* What the k-th filling is to leave.
Promised(w, k) ==
    IF ~ Drawn(cfg.mode) THEN [i \in 1 .. cfg.payload |-> PatternByte(cfg.mode, i)]
    ELSE IF cfg.seed = 0 THEN [i \in 1 .. cfg.payload |-> Random]
    ELSE SeededContent(cfg.seed, w, k, cfg.payload)

\* The workers draw from their own generators.
Seeded == Drawn(cfg.mode) /\ cfg.seed # 0

\* What was written is as promised, and a seeded generator stands where the
\* next word is to be drawn.
Filling(w) ==
    /\ buf[w] = [i \in 1 .. cfg.payload |-> buf[w][i]]
    /\ off[w] \in 0 .. cfg.payload
    /\ off[w] = cfg.payload => rounds[w] >= 1
    /\ off[w] < cfg.payload => rounds[w] < MaxRounds
    /\ \A i \in 1 .. off[w] : buf[w][i] = Promised(w, Turn(w))[i]
    /\ Seeded => \E j \in Nat :
         /\ rng[w] = StateAfter(cfg.seed, w, (Turn(w) - 1) * WordsOf(cfg.payload) + j)
         /\ IF off[w] < cfg.payload THEN off[w] = j * Block ELSE j = WordsOf(cfg.payload)

\* A worker before its buffer is allocated.
Blank(w) == buf[w] = <<>> /\ off[w] = 0 /\ rounds[w] = 0

\* Buffers are allocated and filled in the order of the ids: those before `id`
\* stand as promised, those after it are untouched.
ContentInv ==
    /\ rng \in [Ids -> 0 .. Words - 1] /\ off \in [Ids -> Nat] /\ rounds \in [Ids -> 0 .. MaxRounds]
    /\ DOMAIN buf = Ids
    /\ id \in 0 .. MaxWorkers
    /\ \A w \in Ids : Blank(w) \/ Filling(w)
    /\ pc \in {"argv", "runtime", "build", "init", "save"} => id = 0 /\ \A w \in Ids : Blank(w)
    /\ pc \in {"alloc", "fill", "running"} =>
         /\ id <= cfg.workers
         /\ \A w \in Ids : w < id => Filling(w)
         /\ \A w \in Ids : w > id => Blank(w)
    /\ pc = "alloc" => \A w \in Ids : w = id => Blank(w)
    /\ pc = "fill" => id < cfg.workers /\ Filling(id)
    /\ pc = "running" => id = cfg.workers

\* A configuration's numbers.
LEMMA Numbers ==
    ASSUME Configured(cfg)
    PROVE  /\ cfg.payload \in Nat \ {0} /\ cfg.workers \in 1 .. MaxWorkers /\ cfg.seed \in 0 .. Words - 1
           /\ MaxRounds \in Nat \ {0}
<1>1. cfg.payload \in 1 .. Int64Max /\ cfg.workers \in 1 .. MaxWorkers /\ cfg.seed \in 0 .. Words - 1
  BY Zenon DEF Configured
<1>2. Int64Max \in Nat
  BY ConfigAssumption
<1> QED BY <1>1, <1>2, RoundsAssumption

\* A function on 1 .. n has length n.
LEMMA WholeLength ==
    ASSUME NEW n \in Nat, NEW f, f = [i \in 1 .. n |-> f[i]]
    PROVE  Len(f) = n /\ DOMAIN f = 1 .. n
<1>1. DOMAIN f = 1 .. n
  OBVIOUS
<1>2. \E s : s = f /\ s = [i \in 1 .. n |-> f[i]]
  OBVIOUS
<1>3. Len([i \in 1 .. n |-> f[i]]) = n
  OBVIOUS
<1> QED BY <1>1, <1>3

\* What every step of a filling does to its counters.
LEMMA FillingAdvances ==
    ASSUME NEW w \in Ids, NEW n \in 1 .. cfg.payload - off[w],
           off \in [Ids -> Nat], rounds \in [Ids -> 0 .. MaxRounds],
           Configured(cfg), cfg' = cfg, Filling(w), Unfilled(w), Advance(w, n),
           buf'[w] = [i \in 1 .. cfg.payload |-> buf'[w][i]]
    PROVE  /\ off' = [off EXCEPT ![w] = off[w] + n] /\ off' \in [Ids -> Nat] /\ off'[w] \in 0 .. cfg.payload
           /\ rounds' \in [Ids -> 0 .. MaxRounds]
           /\ \A v \in Ids : v # w => off'[v] = off[v] /\ rounds'[v] = rounds[v]
           /\ off[w] < cfg.payload
           /\ off'[w] = cfg.payload => rounds'[w] >= 1
           /\ off'[w] < cfg.payload => rounds'[w] < MaxRounds
           /\ Turn(w)' = Turn(w) /\ Turn(w) \in Nat \ {0}
<1>1. cfg.payload \in Nat \ {0} /\ MaxRounds \in Nat \ {0}
  BY Numbers
<1>2. Len(buf[w]) = cfg.payload
  BY <1>1, WholeLength DEF Filling
<1>3. Len(buf'[w]) = cfg.payload
  BY <1>1, WholeLength
<1>4. off[w] \in Nat /\ off[w] < cfg.payload /\ rounds[w] \in Nat /\ rounds[w] < MaxRounds
  <2>1. off[w] < cfg.payload
    BY <1>2 DEF Unfilled
  <2>2. off[w] < cfg.payload => rounds[w] < MaxRounds
    BY Zenon DEF Filling
  <2> QED BY <1>1, <2>1, <2>2
<1>5. off' = [off EXCEPT ![w] = off[w] + n]
  BY DEF Advance
<1>6. rounds' = [rounds EXCEPT ![w] = IF off[w] + n = cfg.payload THEN rounds[w] + 1 ELSE rounds[w]]
  BY <1>2 DEF Advance
<1>7. off'[w] = off[w] + n /\ off[w] + n \in 0 .. cfg.payload /\ off' \in [Ids -> Nat]
  BY <1>1, <1>4, <1>5
<1>8. /\ rounds'[w] = IF off[w] + n = cfg.payload THEN rounds[w] + 1 ELSE rounds[w]
      /\ rounds' \in [Ids -> 0 .. MaxRounds]
  BY <1>1, <1>4, <1>6
<1>9. Turn(w) = rounds[w] + 1
  BY DEF Turn
<1>10. Unfilled(w)' <=> off[w] + n < cfg.payload
  BY <1>3, <1>7 DEF Unfilled
<1>11. Turn(w)' = rounds[w] + 1
  BY <1>7, <1>8, <1>10, <1>4, <1>1 DEF Turn
<1> QED BY <1>1, <1>4, <1>5, <1>6, <1>7, <1>8, <1>9, <1>11

\* Within one filling the promise does not change.
LEMMA PromiseStands ==
    ASSUME cfg' = cfg, NEW w, Turn(w)' = Turn(w)
    PROVE  Promised(w, Turn(w))' = Promised(w, Turn(w))
  BY DEF Promised, Drawn, SeededContent, PatternByte, StateAfter

\* A getrandom that returns short leaves a filling under way.
LEMMA FillsRandom ==
    ASSUME NEW w \in Ids, off \in [Ids -> Nat], rounds \in [Ids -> 0 .. MaxRounds], DOMAIN buf = Ids,
           Configured(cfg), cfg' = cfg, Filling(w), Unfilled(w),
           Drawn(cfg.mode), cfg.seed = 0, FillRandom(w)
    PROVE  /\ Filling(w)' /\ rng' = rng /\ DOMAIN buf' = Ids
           /\ off' \in [Ids -> Nat] /\ rounds' \in [Ids -> 0 .. MaxRounds]
           /\ \A v \in Ids : v # w => buf'[v] = buf[v] /\ off'[v] = off[v] /\ rounds'[v] = rounds[v]
<1>1. cfg.payload \in Nat \ {0}
  BY Numbers
<1>2. Len(buf[w]) = cfg.payload /\ DOMAIN buf[w] = 1 .. cfg.payload
  BY <1>1, WholeLength DEF Filling
<1>3. PICK n \in 1 .. cfg.payload - off[w] : buf' = Overlaid(w, n, [i \in 1 .. n |-> Random]) /\ Advance(w, n) /\ rng' = rng
  BY <1>2 DEF FillRandom
<1> DEFINE put == [i \in 1 .. cfg.payload |->
                     IF i \in off[w] + 1 .. off[w] + n THEN [j \in 1 .. n |-> Random][i - off[w]] ELSE buf[w][i]]
<1>4. buf' = [buf EXCEPT ![w] = put]
  BY <1>2, <1>3 DEF Overlaid
<1>5. buf'[w] = put /\ DOMAIN buf' = Ids /\ \A v \in Ids : v # w => buf'[v] = buf[v]
  <2> HIDE DEF put
  <2> QED BY <1>4
<1>6. put = [i \in 1 .. cfg.payload |-> put[i]]
  OBVIOUS
<1>7. /\ off' = [off EXCEPT ![w] = off[w] + n] /\ off' \in [Ids -> Nat] /\ off'[w] \in 0 .. cfg.payload
      /\ rounds' \in [Ids -> 0 .. MaxRounds]
      /\ \A v \in Ids : v # w => off'[v] = off[v] /\ rounds'[v] = rounds[v]
      /\ off'[w] = cfg.payload => rounds'[w] >= 1
      /\ off'[w] < cfg.payload => rounds'[w] < MaxRounds
      /\ Turn(w)' = Turn(w)
  <2> HIDE DEF put
  <2>1. buf'[w] = [i \in 1 .. cfg.payload |-> buf'[w][i]]
    BY <1>5, <1>6
  <2> QED BY <1>3, <2>1, FillingAdvances
<1>8. off[w] \in Nat /\ off'[w] = off[w] + n
  BY <1>7
<1>9. ASSUME NEW i \in 1 .. off'[w] PROVE put[i] = Random
  <2>1. i \in 1 .. cfg.payload
    BY <1>1, <1>7
  <2>2. CASE i \in off[w] + 1 .. off[w] + n
    <3>1. i - off[w] \in 1 .. n
      BY <1>8, <2>2
    <3> QED BY <2>1, <2>2, <3>1
  <2>3. CASE i \notin off[w] + 1 .. off[w] + n
    <3>1. i \in 1 .. off[w]
      BY <1>8, <1>9, <2>3
    <3>2. buf[w][i] = Promised(w, Turn(w))[i]
      BY <3>1 DEF Filling
    <3>3. Promised(w, Turn(w))[i] = Random
      BY <2>1 DEF Promised
    <3> QED BY <2>1, <2>3, <3>2, <3>3
  <2> QED BY <2>2, <2>3
<1>10. \A i \in 1 .. off'[w] : Promised(w, Turn(w))[i] = Random
  <2> TAKE i \in 1 .. off'[w]
  <2>1. i \in 1 .. cfg.payload
    BY <1>1, <1>7
  <2> QED BY <2>1 DEF Promised
<1>11. \A i \in 1 .. off'[w] : buf'[w][i] = Promised(w, Turn(w))[i]
  <2> HIDE DEF put
  <2> QED BY <1>5, <1>9, <1>10
<1>12. ~ Seeded'
  BY DEF Seeded
<1>13. Filling(w)'
  <2> HIDE DEF put
  <2>1. buf'[w] = [i \in 1 .. cfg'.payload |-> buf'[w][i]]
    BY <1>5, <1>6
  <2>2. Promised(w, Turn(w))' = Promised(w, Turn(w))
    BY <1>7, PromiseStands
  <2> QED BY <1>7, <1>11, <1>12, <2>1, <2>2 DEF Filling
<1> QED BY <1>3, <1>5, <1>7, <1>13

\* A pattern fills the buffer at once.
LEMMA FillsPattern ==
    ASSUME NEW w \in Ids, off \in [Ids -> Nat], rounds \in [Ids -> 0 .. MaxRounds], DOMAIN buf = Ids,
           Configured(cfg), cfg' = cfg, Filling(w), Unfilled(w),
           ~ Drawn(cfg.mode), FillPattern(w, cfg.mode)
    PROVE  /\ Filling(w)' /\ rng' = rng /\ DOMAIN buf' = Ids
           /\ off' \in [Ids -> Nat] /\ rounds' \in [Ids -> 0 .. MaxRounds]
           /\ \A v \in Ids : v # w => buf'[v] = buf[v] /\ off'[v] = off[v] /\ rounds'[v] = rounds[v]
<1>1. cfg.payload \in Nat \ {0}
  BY Numbers
<1>2. Len(buf[w]) = cfg.payload /\ DOMAIN buf[w] = 1 .. cfg.payload
  BY <1>1, WholeLength DEF Filling
<1> DEFINE n == cfg.payload - off[w]
           put == [i \in 1 .. cfg.payload |-> PatternByte(cfg.mode, i)]
<1>3. buf' = [buf EXCEPT ![w] = put] /\ Advance(w, n) /\ rng' = rng
  BY <1>2 DEF FillPattern
<1>4. off[w] \in Nat /\ off[w] < cfg.payload /\ n \in 1 .. cfg.payload - off[w] /\ off[w] + n = cfg.payload
  <2>1. off[w] \in Nat /\ off[w] < cfg.payload
    BY <1>2 DEF Unfilled
  <2> QED BY <1>1, <2>1
<1>5. buf'[w] = put /\ DOMAIN buf' = Ids /\ \A v \in Ids : v # w => buf'[v] = buf[v]
  <2> HIDE DEF put, n
  <2> QED BY <1>3
<1>6. put = [i \in 1 .. cfg.payload |-> put[i]]
  OBVIOUS
<1>7. /\ off' = [off EXCEPT ![w] = off[w] + n] /\ off' \in [Ids -> Nat] /\ off'[w] \in 0 .. cfg.payload
      /\ rounds' \in [Ids -> 0 .. MaxRounds]
      /\ \A v \in Ids : v # w => off'[v] = off[v] /\ rounds'[v] = rounds[v]
      /\ off'[w] = cfg.payload => rounds'[w] >= 1
      /\ off'[w] < cfg.payload => rounds'[w] < MaxRounds
      /\ Turn(w)' = Turn(w)
  <2> HIDE DEF put, n
  <2>1. buf'[w] = [i \in 1 .. cfg.payload |-> buf'[w][i]]
    BY <1>5, <1>6
  <2> QED BY <1>3, <1>4, <2>1, FillingAdvances
<1>8. Promised(w, Turn(w)) = put
  BY DEF Promised
<1>9. \A i \in 1 .. off'[w] : buf'[w][i] = Promised(w, Turn(w))[i]
  <2> HIDE DEF put
  <2> QED BY <1>5, <1>8
<1>10. ~ Seeded'
  BY DEF Seeded, Drawn
<1>11. Filling(w)'
  <2> HIDE DEF put, n
  <2>1. buf'[w] = [i \in 1 .. cfg'.payload |-> buf'[w][i]]
    BY <1>5, <1>6
  <2>2. Promised(w, Turn(w))' = Promised(w, Turn(w))
    BY <1>7, PromiseStands
  <2> QED BY <1>7, <1>9, <1>10, <2>1, <2>2 DEF Filling
<1> QED BY <1>3, <1>5, <1>7, <1>11

\* A word of the generator, or the part of it the buffer takes, goes where the
\* words before it end.
LEMMA FillsWord ==
    ASSUME NEW w \in Ids, off \in [Ids -> Nat], rounds \in [Ids -> 0 .. MaxRounds], DOMAIN buf = Ids,
           rng \in [Ids -> 0 .. Words - 1],
           Configured(cfg), cfg' = cfg, Filling(w), Unfilled(w), Seeded, FillWord(w)
    PROVE  /\ Filling(w)' /\ rng' \in [Ids -> 0 .. Words - 1] /\ DOMAIN buf' = Ids
           /\ off' \in [Ids -> Nat] /\ rounds' \in [Ids -> 0 .. MaxRounds]
           /\ \A v \in Ids : v # w => /\ buf'[v] = buf[v] /\ off'[v] = off[v] /\ rounds'[v] = rounds[v]
                                      /\ rng'[v] = rng[v]
<1>1. cfg.payload \in Nat \ {0} /\ cfg.seed \in 0 .. Words - 1 /\ Block \in Nat \ {0}
  BY Numbers, GeneratorAssumption
<1>2. Len(buf[w]) = cfg.payload /\ DOMAIN buf[w] = 1 .. cfg.payload
  BY <1>1, WholeLength DEF Filling
<1> DEFINE left == cfg.payload - off[w]
           take == IF left < Block THEN left ELSE Block
           state == Splitmix(rng[w])
           put == [i \in 1 .. cfg.payload |->
                     IF i \in off[w] + 1 .. off[w] + take THEN Bytes(state)[i - off[w]] ELSE buf[w][i]]
<1>3. buf' = [buf EXCEPT ![w] = put] /\ Advance(w, take) /\ rng' = [rng EXCEPT ![w] = state]
  BY <1>2 DEF FillWord, Overlaid
<1>4. off[w] \in Nat /\ off[w] < cfg.payload /\ left \in Nat \ {0}
  BY <1>1, <1>2 DEF Unfilled
<1>5. take \in 1 .. cfg.payload - off[w] /\ take <= Block /\ (take < Block => off[w] + take = cfg.payload)
  BY <1>1, <1>4
<1> HIDE DEF left, take
<1>6. buf'[w] = put /\ DOMAIN buf' = Ids /\ \A v \in Ids : v # w => buf'[v] = buf[v]
  <2> HIDE DEF put
  <2> QED BY <1>3
<1>7. put = [i \in 1 .. cfg.payload |-> put[i]]
  OBVIOUS
<1>8. /\ off' = [off EXCEPT ![w] = off[w] + take] /\ off' \in [Ids -> Nat] /\ off'[w] \in 0 .. cfg.payload
      /\ rounds' \in [Ids -> 0 .. MaxRounds]
      /\ \A v \in Ids : v # w => off'[v] = off[v] /\ rounds'[v] = rounds[v]
      /\ off'[w] = cfg.payload => rounds'[w] >= 1
      /\ off'[w] < cfg.payload => rounds'[w] < MaxRounds
      /\ Turn(w)' = Turn(w) /\ Turn(w) \in Nat \ {0}
  <2> HIDE DEF put, state
  <2>1. buf'[w] = [i \in 1 .. cfg.payload |-> buf'[w][i]]
    BY <1>6, <1>7
  <2> QED BY <1>3, <1>5, <2>1, FillingAdvances
<1>9. off'[w] = off[w] + take
  BY <1>8
<1> DEFINE turn == Turn(w)
           words == WordsOf(cfg.payload)
           before == (turn - 1) * words
<1>10. PICK j \in Nat : rng[w] = StateAfter(cfg.seed, w, before + j) /\ off[w] = j * Block
  BY <1>4 DEF Filling
<1>11. words \in Nat
  BY <1>1, WordsCount
<1>12. turn - 1 \in Nat /\ before \in Nat
  BY <1>8, <1>11
<1> HIDE DEF turn, words
<1>13. state = StateAfter(cfg.seed, w, before + j + 1) /\ state \in 0 .. Words - 1
  BY <1>1, <1>10, <1>12, NextState
<1>14. rng' \in [Ids -> 0 .. Words - 1] /\ rng'[w] = state /\ \A v \in Ids : v # w => rng'[v] = rng[v]
  <2> HIDE DEF state, put
  <2> QED BY <1>3, <1>13
<1>15. ASSUME NEW i \in off[w] + 1 .. off[w] + take
       PROVE  put[i] = Promised(w, turn)[i]
  <2>1. i \in 1 .. cfg.payload /\ i \in j * Block + 1 .. j * Block + Block
    BY <1>1, <1>4, <1>5, <1>10
  <2>2. (i - 1) \div Block = j /\ ((i - 1) % Block) + 1 = i - off[w]
    BY <1>10, <2>1, PlaceInWord
  <2>3. Promised(w, turn)[i] = Bytes(StateAfter(cfg.seed, w, before + j + 1))[i - off[w]]
    <3> HIDE DEF before
    <3>1. Promised(w, turn) = SeededContent(cfg.seed, w, turn, cfg.payload)
      BY DEF Promised, Seeded
    <3>2. SeededContent(cfg.seed, w, turn, cfg.payload)[i] =
            Bytes(StateAfter(cfg.seed, w, before + ((i - 1) \div Block) + 1))[((i - 1) % Block) + 1]
      BY <2>1 DEF SeededContent, before, words, WordsOf
    <3> QED BY <2>2, <3>1, <3>2
  <2>4. put[i] = Bytes(state)[i - off[w]]
    BY <2>1
  <2> QED BY <1>13, <2>3, <2>4
<1>16. ASSUME NEW i \in 1 .. off[w]
       PROVE  put[i] = Promised(w, turn)[i]
  <2>1. i \in 1 .. cfg.payload /\ i \notin off[w] + 1 .. off[w] + take
    BY <1>1, <1>4, <1>5
  <2>2. put[i] = buf[w][i]
    BY <2>1
  <2>3. buf[w][i] = Promised(w, turn)[i]
    BY DEF Filling, turn
  <2> QED BY <2>2, <2>3
<1>17. \A i \in 1 .. off'[w] : buf'[w][i] = Promised(w, turn)[i]
  <2> TAKE i \in 1 .. off'[w]
  <2>1. i \in 1 .. off[w] \/ i \in off[w] + 1 .. off[w] + take
    BY <1>4, <1>5, <1>9
  <2>2. put[i] = Promised(w, turn)[i]
    <3> HIDE DEF put
    <3> QED BY <2>1, <1>15, <1>16
  <2> HIDE DEF put
  <2> QED BY <1>6, <2>2
<1>18. \E k \in Nat : /\ rng'[w] = StateAfter(cfg.seed, w, before + k)
                      /\ IF off'[w] < cfg.payload THEN off'[w] = k * Block ELSE k = words
  <2>1. j + 1 \in Nat /\ before + (j + 1) = before + j + 1
    BY <1>12
  <2>2. CASE off'[w] < cfg.payload
    <3>1. take = Block
      BY <1>5, <1>9, <2>2, <1>1
    <3>2. off'[w] = (j + 1) * Block
      BY <1>1, <1>9, <1>10, <3>1
    <3> HIDE DEF before, state
    <3> QED BY <2>1, <2>2, <3>2, <1>13, <1>14
  <2>3. CASE ~ (off'[w] < cfg.payload)
    <3>1. off'[w] = cfg.payload
      BY <1>1, <1>8, <2>3
    <3>2. j * Block < cfg.payload /\ cfg.payload <= j * Block + Block
      BY <1>1, <1>4, <1>5, <1>9, <1>10, <3>1
    <3>3. words = j + 1
      BY <1>1, <3>2, LastWord DEF words
    <3> HIDE DEF before, state
    <3> QED BY <2>1, <2>3, <3>3, <1>13, <1>14
  <2> QED BY <2>2, <2>3
<1>19. Filling(w)'
  <2> HIDE DEF put, state
  <2>1. buf'[w] = [i \in 1 .. cfg'.payload |-> buf'[w][i]]
    BY <1>6, <1>7
  <2>2. Promised(w, Turn(w))' = Promised(w, turn)
    BY <1>8, PromiseStands DEF turn
  <2>3. \E k \in Nat : /\ rng'[w] = StateAfter(cfg'.seed, w, (Turn(w)' - 1) * WordsOf(cfg'.payload) + k)
                       /\ IF off'[w] < cfg'.payload THEN off'[w] = k * Block ELSE k = WordsOf(cfg'.payload)
    <3>1. Turn(w)' = turn
      BY <1>8 DEF turn
    <3> QED BY <1>18, <3>1 DEF words
  <2> QED BY <1>8, <1>17, <2>1, <2>2, <2>3 DEF Filling
<1> QED BY <1>6, <1>8, <1>14, <1>19

\* Whatever the mode, a step of fill_payload keeps the promise for its worker
\* and touches no other.
LEMMA Fills ==
    ASSUME NEW w \in Ids, ContentInv, Configured(cfg), cfg' = cfg, Filling(w),
           FillPayload(w, cfg.mode, cfg.seed # 0)
    PROVE  /\ Filling(w)' /\ rng' \in [Ids -> 0 .. Words - 1] /\ DOMAIN buf' = Ids
           /\ off' \in [Ids -> Nat] /\ rounds' \in [Ids -> 0 .. MaxRounds]
           /\ \A v \in Ids : v # w => /\ buf'[v] = buf[v] /\ off'[v] = off[v] /\ rounds'[v] = rounds[v]
                                      /\ rng'[v] = rng[v]
<1>1. /\ off \in [Ids -> Nat] /\ rounds \in [Ids -> 0 .. MaxRounds] /\ DOMAIN buf = Ids
      /\ rng \in [Ids -> 0 .. Words - 1]
  BY DEF ContentInv
<1>2. Unfilled(w)
  BY DEF FillPayload
<1>3. CASE Drawn(cfg.mode) /\ ~ (cfg.seed # 0) /\ FillRandom(w)
  BY <1>1, <1>2, <1>3, FillsRandom
<1>4. CASE Drawn(cfg.mode) /\ cfg.seed # 0 /\ FillWord(w)
  BY <1>1, <1>2, <1>4, FillsWord DEF Seeded
<1>5. CASE ~ Drawn(cfg.mode) /\ FillPattern(w, cfg.mode)
  BY <1>1, <1>2, <1>5, FillsPattern
<1> QED BY <1>3, <1>4, <1>5 DEF FillPayload

\* A worker whose variables no step changes.
LEMMA FillingStands ==
    ASSUME NEW w, Filling(w), cfg' = cfg, buf'[w] = buf[w], off'[w] = off[w], rounds'[w] = rounds[w], rng'[w] = rng[w]
    PROVE  Filling(w)'
<1>1. Unfilled(w)' = Unfilled(w)
  BY DEF Unfilled
<1>2. Turn(w)' = Turn(w)
  BY <1>1 DEF Turn
<1>3. Promised(w, Turn(w))' = Promised(w, Turn(w))
  BY <1>2, PromiseStands
<1>4. Seeded' = Seeded
  BY DEF Seeded, Drawn
<1>5. \A n : StateAfter(cfg.seed, w, n)' = StateAfter(cfg.seed, w, n)
  BY DEF StateAfter
<1> QED BY <1>2, <1>3, <1>4 DEF Filling

\* Nor a worker without a buffer.
LEMMA BlankStands ==
    ASSUME NEW w, Blank(w), buf'[w] = buf[w], off'[w] = off[w], rounds'[w] = rounds[w]
    PROVE  Blank(w)'
  BY DEF Blank

\* A fresh buffer and a fresh generator begin the first filling.
LEMMA Allocated ==
    ASSUME NEW w \in Ids, ContentInv, Configured(cfg), cfg' = cfg, Blank(w),
           Allocate(w, cfg.payload), rng' = [rng EXCEPT ![w] = SeedWorker(cfg.seed, w)], rounds' = rounds
    PROVE  /\ Filling(w)' /\ rng' \in [Ids -> 0 .. Words - 1] /\ DOMAIN buf' = Ids /\ off' \in [Ids -> Nat]
           /\ \A v \in Ids : v # w => buf'[v] = buf[v] /\ off'[v] = off[v] /\ rng'[v] = rng[v]
<1>1. cfg.payload \in Nat \ {0} /\ cfg.seed \in 0 .. Words - 1 /\ MaxRounds \in Nat \ {0}
  BY Numbers
<1>2. rng \in [Ids -> 0 .. Words - 1] /\ off \in [Ids -> Nat] /\ DOMAIN buf = Ids
  BY DEF ContentInv
<1> DEFINE put == [i \in 1 .. cfg.payload |-> 0]
<1>3. buf' = [buf EXCEPT ![w] = put] /\ off' = [off EXCEPT ![w] = 0]
  BY DEF Allocate
<1>4. put = [i \in 1 .. cfg.payload |-> put[i]] /\ Len(put) = cfg.payload
  BY <1>1
<1> HIDE DEF put
<1>5. /\ buf'[w] = put /\ off'[w] = 0 /\ DOMAIN buf' = Ids /\ off' \in [Ids -> Nat] /\ rounds'[w] = 0
      /\ \A v \in Ids : v # w => buf'[v] = buf[v] /\ off'[v] = off[v]
  BY <1>2, <1>3 DEF Blank
<1> DEFINE first == SeedWorker(cfg.seed, w)
<1>6. first = StateAfter(cfg.seed, w, 0) /\ first \in 0 .. Words - 1
  BY <1>1, FirstState
<1>7. rng' = [rng EXCEPT ![w] = first]
  OBVIOUS
<1> HIDE DEF first
<1>8. rng'[w] = first /\ rng' \in [Ids -> 0 .. Words - 1] /\ \A v \in Ids : v # w => rng'[v] = rng[v]
  BY <1>2, <1>6, <1>7
<1>9. Turn(w)' = 1
  BY <1>1, <1>4, <1>5 DEF Turn, Unfilled
<1>10. WordsOf(cfg.payload) \in Nat /\ Block \in Nat
  BY <1>1, WordsCount, GeneratorAssumption
<1>11. (1 - 1) * WordsOf(cfg.payload) + 0 = 0 /\ 0 * Block = 0
  BY <1>10
<1>12. \E j \in Nat : /\ rng'[w] = StateAfter(cfg'.seed, w, (Turn(w)' - 1) * WordsOf(cfg'.payload) + j)
                      /\ IF off'[w] < cfg'.payload THEN off'[w] = j * Block ELSE j = WordsOf(cfg'.payload)
  <2>1. rng'[w] = StateAfter(cfg'.seed, w, (Turn(w)' - 1) * WordsOf(cfg'.payload) + 0)
    BY <1>6, <1>8, <1>9, <1>11
  <2>2. off'[w] = 0 * Block /\ off'[w] < cfg'.payload
    BY <1>1, <1>5, <1>11
  <2> QED BY <2>1, <2>2
<1>13. \A i \in 1 .. off'[w] : FALSE
  BY <1>5
<1>14. Filling(w)'
  BY <1>1, <1>4, <1>5, <1>12, <1>13 DEF Filling
<1> QED BY <1>5, <1>8, <1>14

\* A refill goes on where the generator stands.
LEMMA BeginsAgain ==
    ASSUME NEW w \in Ids, ContentInv, Configured(cfg), cfg' = cfg, Filling(w), ~ Unfilled(w), rounds[w] < MaxRounds,
           off' = [off EXCEPT ![w] = 0], rng' = rng, buf' = buf, rounds' = rounds
    PROVE  Filling(w)' /\ off' \in [Ids -> Nat] /\ \A v \in Ids : v # w => off'[v] = off[v]
<1>1. cfg.payload \in Nat \ {0}
  BY Numbers
<1>2. Len(buf[w]) = cfg.payload /\ off \in [Ids -> Nat] /\ off[w] \in 0 .. cfg.payload /\ rounds \in [Ids -> 0 .. MaxRounds]
  BY <1>1, WholeLength DEF Filling, ContentInv
<1>3. off[w] = cfg.payload /\ rounds[w] \in Nat
  BY <1>1, <1>2, RoundsAssumption DEF Unfilled
<1>4. off'[w] = 0 /\ off' \in [Ids -> Nat] /\ \A v \in Ids : v # w => off'[v] = off[v]
  BY <1>2
<1>5. Turn(w) = rounds[w] /\ Turn(w)' = rounds[w] + 1
  BY <1>1, <1>2, <1>3, <1>4 DEF Turn, Unfilled
<1>6. WordsOf(cfg.payload) \in Nat /\ Block \in Nat
  BY <1>1, WordsCount, GeneratorAssumption
<1> DEFINE words == WordsOf(cfg.payload)
<1>7. (rounds[w] - 1) * words + words = (rounds[w] + 1 - 1) * words + 0 /\ 0 * Block = 0
  <2> HIDE DEF words
  <2> QED BY <1>3, <1>6 DEF words
<1>8. Seeded => rng[w] = StateAfter(cfg.seed, w, (rounds[w] - 1) * words + words)
  BY <1>1, <1>3, <1>5 DEF Filling
<1>9. Seeded' = Seeded /\ \A n : StateAfter(cfg.seed, w, n)' = StateAfter(cfg.seed, w, n)
  BY DEF Seeded, Drawn, StateAfter
<1>10. Seeded' => \E j \in Nat :
         /\ rng'[w] = StateAfter(cfg'.seed, w, (Turn(w)' - 1) * WordsOf(cfg'.payload) + j)
         /\ IF off'[w] < cfg'.payload THEN off'[w] = j * Block ELSE j = WordsOf(cfg'.payload)
  <2> SUFFICES ASSUME Seeded PROVE \E j \in Nat :
         /\ rng'[w] = StateAfter(cfg'.seed, w, (Turn(w)' - 1) * WordsOf(cfg'.payload) + j)
         /\ IF off'[w] < cfg'.payload THEN off'[w] = j * Block ELSE j = WordsOf(cfg'.payload)
    BY <1>9
  <2>1. rng'[w] = StateAfter(cfg'.seed, w, (Turn(w)' - 1) * WordsOf(cfg'.payload) + 0)
    <3>1. (Turn(w)' - 1) * WordsOf(cfg'.payload) + 0 = (rounds[w] + 1 - 1) * words + 0
      <4>1. cfg'.payload = cfg.payload
        OBVIOUS
      <4>2. WordsOf(cfg'.payload) = words
        BY <4>1
      <4>3. Turn(w)' - 1 = rounds[w] + 1 - 1
        BY <1>3, <1>5
      <4> HIDE DEF words
      <4> QED BY <4>2, <4>3
    <3>2. rng[w] = StateAfter(cfg.seed, w, (rounds[w] + 1 - 1) * words + 0)
      BY <1>7, <1>8, Zenon
    <3> QED BY <3>1, <3>2, Zenon
  <2>2. off'[w] = 0 * Block /\ off'[w] < cfg'.payload
    BY <1>1, <1>4, <1>7
  <2> QED BY <2>1, <2>2
<1>11. \A i \in 1 .. off'[w] : FALSE
  BY <1>4
<1>12. buf'[w] = [i \in 1 .. cfg'.payload |-> buf'[w][i]]
  BY Zenon DEF Filling
<1>13. Filling(w)'
  BY <1>1, <1>4, <1>10, <1>11, <1>12 DEF Filling
<1> QED BY <1>4, <1>13

\* At first no worker has a buffer.
LEMMA ContentInit == Init => ContentInv
<1> SUFFICES ASSUME Init PROVE ContentInv
  OBVIOUS
<1>1. Words \in Nat \ {0} /\ MaxRounds \in Nat /\ MaxWorkers \in Nat
  BY GeneratorAssumption, RoundsAssumption, IdsAssumption
<1>2. /\ rng \in [Ids -> 0 .. Words - 1] /\ off \in [Ids -> Nat] /\ rounds \in [Ids -> 0 .. MaxRounds]
      /\ DOMAIN buf = Ids /\ \A w \in Ids : Blank(w)
  BY <1>1 DEF Init, Blank
<1>3. pc = "argv" /\ id = 0
  BY DEF Init
<1> QED BY <1>1, <1>2, <1>3 DEF ContentInv

\* Ids are the numbers below kMaxWorkers.
LEMMA IdRange ==
    ASSUME Configured(cfg)
    PROVE  cfg.workers \in Nat /\ \A v : v \in Ids <=> v \in Int /\ 0 <= v /\ v < MaxWorkers
  BY Numbers, IdsAssumption

\* Every step of run() and of the workers keeps the promise.
LEMMA ContentStep == ContentInv /\ ConfigInv /\ [Next]_vars => ContentInv'
<1> SUFFICES ASSUME ContentInv, ConfigInv, [Next]_vars PROVE ContentInv'
  OBVIOUS
<1> DEFINE Setup == {"argv", "runtime", "build", "init", "save"}
           Payloads == {"alloc", "fill", "running"}
<1>0. MaxWorkers \in Nat /\ Ids = 0 .. MaxWorkers - 1
  BY IdsAssumption
<1>1. pc \in {"alloc", "fill", "running"} => Configured(cfg)
  BY DEF ConfigInv, Unconfigured, Exits
<1>2. CASE pc \in Setup /\ UNCHANGED <<payloadVars, id>> /\ pc' \in Setup \cup Exits \cup {"alloc"} /\ (pc' = "alloc" => cfg' = cfg /\ Configured(cfg))
  <2>1. id = 0 /\ (\A w \in Ids : Blank(w)) /\ rng' = rng /\ buf' = buf /\ off' = off /\ rounds' = rounds /\ id' = id
    BY <1>2 DEF ContentInv, payloadVars
  <2>2. \A w \in Ids : Blank(w)'
    BY <2>1, BlankStands
  <2>3. pc' = "alloc" => 0 <= cfg'.workers
    BY <1>2, IdRange
  <2>4. \A w \in Ids : ~ (w < 0)
    BY <1>0
  <2> QED BY <1>2, <2>1, <2>2, <2>3, <2>4 DEF ContentInv, Exits
<1>3. CASE UNCHANGED <<payloadVars, id, cfg>> /\ pc' \in Exits
  <2>1. rng' = rng /\ buf' = buf /\ off' = off /\ rounds' = rounds /\ id' = id /\ cfg' = cfg
    BY <1>3 DEF payloadVars
  <2>2. \A w \in Ids : Blank(w)' \/ Filling(w)'
    BY <2>1, BlankStands, FillingStands DEF ContentInv
  <2> QED BY <1>3, <2>1, <2>2 DEF ContentInv, Exits
<1>4. CASE ReadArgument \/ AcceptFlags \/ ShapeRuntime \/ ComposeOpts \/ InitSucceeds
  BY <1>4, <1>2 DEF ReadArgument, AcceptFlags, ShapeRuntime, ComposeOpts, InitSucceeds, startVars
<1>5. CASE SaveSucceeds
  <2>1. pc = "save" /\ Configured(cfg)
    BY <1>5 DEF SaveSucceeds, ConfigInv, Unconfigured, Exits
  <2> QED BY <1>5, <1>2, <2>1 DEF SaveSucceeds
<1>6. CASE PrintUsage \/ RefuseArgument \/ RefuseFlags
  BY <1>6, <1>3 DEF PrintUsage, RefuseArgument, RefuseFlags, Return, Exits
<1>7. CASE LookupFails \/ InitFails \/ InitThrowsLate \/ SaveFails \/ SetUpFails
  BY <1>7, <1>3 DEF LookupFails, InitFails, InitThrowsLate, SaveFails, SetUpFails, Return, Exits
<1>8. CASE AllocateBuffer
  <2>1. /\ pc = "alloc" /\ id < cfg.workers /\ Allocate(id, cfg.payload) /\ pc' = "fill"
        /\ rng' = [rng EXCEPT ![id] = SeedWorker(cfg.seed, id)] /\ rounds' = rounds /\ cfg' = cfg /\ id' = id
    BY <1>8 DEF AllocateBuffer
  <2>2. Configured(cfg) /\ id \in 0 .. MaxWorkers
    BY <1>1, <2>1 DEF ContentInv
  <2>3. id \in Ids
    BY <1>0, <2>1, <2>2, Numbers
  <2>4. Blank(id)
    BY <2>1, <2>3 DEF ContentInv
  <2> DEFINE w == id
  <2>5. /\ \A v \in Ids : v = id => Filling(v)'
        /\ rng' \in [Ids -> 0 .. Words - 1] /\ DOMAIN buf' = Ids /\ off' \in [Ids -> Nat]
        /\ \A v \in Ids : v # id => buf'[v] = buf[v] /\ off'[v] = off[v] /\ rng'[v] = rng[v]
    <3>1. \A v \in Ids : v = id =>
            /\ Filling(v)' /\ rng' \in [Ids -> 0 .. Words - 1] /\ DOMAIN buf' = Ids /\ off' \in [Ids -> Nat]
            /\ \A u \in Ids : u # v => buf'[u] = buf[u] /\ off'[u] = off[u] /\ rng'[u] = rng[u]
      BY <2>1, <2>2, <2>4, Allocated
    <3> QED BY <2>3, <3>1
  <2>6. \A v \in Ids : v # id => (Blank(v) => Blank(v)') /\ (Filling(v) => Filling(v)')
    BY <2>1, <2>5, BlankStands, FillingStands
  <2>7. /\ \A v \in Ids : v < id => Filling(v)'
        /\ \A v \in Ids : v > id => Blank(v)'
        /\ \A v \in Ids : Blank(v)' \/ Filling(v)'
    <3>1. \A v \in Ids : (v < id => Filling(v)) /\ (v > id => Blank(v)) /\ (Blank(v) \/ Filling(v))
      BY <2>1 DEF ContentInv
    <3>2. \A v \in Ids : v < id \/ v > id => v # id
      BY <1>0, <2>2
    <3> QED BY <3>1, <3>2, <2>5, <2>6
  <2>8. Filling(id)' /\ id <= cfg.workers /\ rounds' \in [Ids -> 0 .. MaxRounds]
    <3>1. \A v : v = id => (Filling(v)' => Filling(id)')
      BY <2>1
    <3>2. id <= cfg.workers
      BY <2>1, <2>2, Numbers
    <3> QED BY <2>1, <2>3, <2>5, <3>1, <3>2 DEF ContentInv
  <2> QED BY <2>1, <2>2, <2>5, <2>7, <2>8 DEF ContentInv
<1>9. CASE FillFirst
  <2>1. pc = "fill" /\ FillPayload(id, cfg.mode, cfg.seed # 0) /\ pc' = pc /\ cfg' = cfg /\ id' = id
    BY <1>9 DEF FillFirst, startVars
  <2>2. Configured(cfg) /\ id \in 0 .. MaxWorkers /\ id < cfg.workers /\ Filling(id)
    BY <1>1, <2>1 DEF ContentInv
  <2>3. id \in Ids
    BY <1>0, <2>2, Numbers
  <2>4. \A v \in Ids : v = id =>
          /\ Filling(v)' /\ rng' \in [Ids -> 0 .. Words - 1] /\ DOMAIN buf' = Ids
          /\ off' \in [Ids -> Nat] /\ rounds' \in [Ids -> 0 .. MaxRounds]
          /\ \A u \in Ids : u # v => /\ buf'[u] = buf[u] /\ off'[u] = off[u] /\ rounds'[u] = rounds[u]
                                     /\ rng'[u] = rng[u]
    BY <2>1, <2>2, Fills
  <2>5. \A v \in Ids : v # id => (Blank(v) => Blank(v)') /\ (Filling(v) => Filling(v)')
    BY <2>1, <2>3, <2>4, BlankStands, FillingStands
  <2>6. /\ \A v \in Ids : v < id => Filling(v)'
        /\ \A v \in Ids : v > id => Blank(v)'
        /\ \A v \in Ids : Blank(v)' \/ Filling(v)'
    <3>1. \A v \in Ids : (v < id => Filling(v)) /\ (v > id => Blank(v)) /\ (Blank(v) \/ Filling(v))
      BY <2>1 DEF ContentInv
    <3>2. \A v \in Ids : v < id \/ v > id => v # id
      BY <1>0, <2>2
    <3> QED BY <3>1, <3>2, <2>4, <2>5
  <2>7. Filling(id)' /\ id <= cfg.workers
    <3>1. \A v : v = id => (Filling(v)' => Filling(id)')
      BY <2>1
    <3>2. id <= cfg.workers
      BY <2>1, <2>2, Numbers
    <3> QED BY <2>3, <2>4, <3>1, <3>2
  <2> QED BY <2>1, <2>2, <2>3, <2>4, <2>6, <2>7 DEF ContentInv
<1>10. CASE NextWorker
  <2>1. pc = "fill" /\ id' = id + 1 /\ pc' = "alloc" /\ cfg' = cfg /\ rng' = rng /\ buf' = buf /\ off' = off /\ rounds' = rounds
    BY <1>10 DEF NextWorker, payloadVars
  <2>2. Configured(cfg) /\ id \in 0 .. MaxWorkers /\ id < cfg.workers /\ Filling(id)
    BY <1>1, <2>1 DEF ContentInv
  <2>3. id + 1 \in 0 .. MaxWorkers /\ id + 1 <= cfg.workers
    BY <1>0, <2>2, Numbers
  <2>4. \A v \in Ids : (Blank(v) => Blank(v)') /\ (Filling(v) => Filling(v)')
    BY <2>1, BlankStands, FillingStands
  <2>5. \A v \in Ids : /\ v < id + 1 => Filling(v)
                       /\ v >= id + 1 => Blank(v)
                       /\ Blank(v) \/ Filling(v)
    <3>1. \A v \in Ids : (v < id => Filling(v)) /\ (v > id => Blank(v)) /\ (Blank(v) \/ Filling(v))
      BY <2>1 DEF ContentInv
    <3>2. \A v \in Ids : (v < id + 1 => v < id \/ v = id) /\ (v >= id + 1 => v > id)
      BY <1>0, <2>2
    <3> QED BY <2>2, <3>1, <3>2
  <2>6. \A v \in Ids : (v = id + 1 => v >= id + 1) /\ (v > id + 1 => v >= id + 1)
    BY <1>0, <2>2
  <2>7. \A v \in Ids : /\ v < id' => Filling(v)'
                       /\ v > id' => Blank(v)'
                       /\ v = id' => Blank(v)'
                       /\ Blank(v)' \/ Filling(v)'
    BY <2>1, <2>4, <2>5, <2>6
  <2> QED BY <2>1, <2>3, <2>7 DEF ContentInv
<1>11. CASE HandOver
  <2>1. /\ pc = "alloc" /\ id = cfg.workers /\ pc' = "running" /\ cfg' = cfg /\ id' = id
        /\ rng' = rng /\ buf' = buf /\ off' = off /\ rounds' = rounds
    BY <1>11 DEF HandOver, payloadVars
  <2>2. \A v \in Ids : (Blank(v) => Blank(v)') /\ (Filling(v) => Filling(v)')
    BY <2>1, BlankStands, FillingStands
  <2> QED BY <2>1, <2>2 DEF ContentInv
<1>12. CASE \E w \in Ids : BeginRefill(w) \/ Refill(w)
  <2>1. PICK w \in Ids : BeginRefill(w) \/ Refill(w)
    BY <1>12
  <2>2. pc = "running" /\ w < cfg.workers /\ pc' = pc /\ cfg' = cfg /\ id' = id /\ Configured(cfg) /\ id = cfg.workers
    BY <2>1, <1>1 DEF BeginRefill, Refill, startVars, ContentInv
  <2>3. Filling(w)
    BY <2>2 DEF ContentInv
  <2>4. /\ Filling(w)' /\ rng' \in [Ids -> 0 .. Words - 1] /\ DOMAIN buf' = Ids
        /\ off' \in [Ids -> Nat] /\ rounds' \in [Ids -> 0 .. MaxRounds]
        /\ \A u \in Ids : u # w => /\ buf'[u] = buf[u] /\ off'[u] = off[u] /\ rounds'[u] = rounds[u]
                                   /\ rng'[u] = rng[u]
    <3>1. CASE BeginRefill(w)
      <4>1. ~ Unfilled(w) /\ rounds[w] < MaxRounds /\ off' = [off EXCEPT ![w] = 0] /\ rng' = rng /\ buf' = buf /\ rounds' = rounds
        BY <3>1 DEF BeginRefill
      <4> QED BY <2>2, <2>3, <4>1, BeginsAgain DEF ContentInv
    <3>2. CASE Refill(w)
      <4>1. FillPayload(w, cfg.mode, cfg.seed # 0)
        BY <3>2 DEF Refill
      <4> QED BY <2>2, <2>3, <4>1, Fills
    <3> QED BY <2>1, <3>1, <3>2
  <2>5. \A v \in Ids : v # w => (Blank(v) => Blank(v)') /\ (Filling(v) => Filling(v)')
    BY <2>2, <2>4, BlankStands, FillingStands
  <2>6. \A v \in Ids : (v < id => Filling(v)) /\ (v > id => Blank(v)) /\ (Blank(v) \/ Filling(v))
    BY <2>2 DEF ContentInv
  <2>7. ~ (w > id)
    BY <1>0, <2>2, Numbers
  <2>8. \A v \in Ids : (v < id => Filling(v)') /\ (v > id => Blank(v)') /\ (Blank(v)' \/ Filling(v)')
    BY <2>4, <2>5, <2>6, <2>7
  <2> QED BY <2>2, <2>4, <2>8 DEF ContentInv
<1>13. CASE UNCHANGED vars
  <2>1. /\ pc' = pc /\ cfg' = cfg /\ id' = id /\ rng' = rng /\ buf' = buf /\ off' = off /\ rounds' = rounds
    BY <1>13 DEF vars, startVars, payloadVars
  <2>2. \A v \in Ids : (Blank(v) => Blank(v)') /\ (Filling(v) => Filling(v)')
    BY <2>1, BlankStands, FillingStands
  <2>3. pc = "fill" => Filling(id)'
    <3> SUFFICES ASSUME pc = "fill" PROVE Filling(id)'
      OBVIOUS
    <3>1. Filling(id)
      BY DEF ContentInv
    <3>2. \A v : v = id => (Filling(v) => Filling(v)')
      BY <2>1, FillingStands
    <3>3. \A v : v = id => (Filling(v)' => Filling(id)')
      BY <2>1
    <3> QED BY <3>1, <3>2, <3>3
  <2> QED BY <2>1, <2>2, <2>3 DEF ContentInv
<1> QED BY <1>4, <1>5, <1>6, <1>7, <1>8, <1>9, <1>10, <1>11, <1>12, <1>13 DEF Next

\* A filling that is complete holds what the mode promises.
LEMMA ContentHolds == ContentInv /\ ConfigInv => ContentAsPromised
<1> SUFFICES ASSUME ContentInv, ConfigInv, pc = "running", NEW w \in 0 .. cfg.workers - 1
             PROVE  /\ Len(buf[w]) = cfg.payload
                    /\ ~ Unfilled(w) => buf[w] = ContentOf(w, cfg.mode, cfg.seed, cfg.payload)
  BY DEF ContentAsPromised
<1>1. Configured(cfg) /\ id = cfg.workers
  BY DEF ConfigInv, ContentInv, Unconfigured, Exits
<1>2. cfg.payload \in Nat \ {0} /\ cfg.workers \in 1 .. MaxWorkers
  BY <1>1, Numbers
<1>3. w \in Ids /\ w < id
  BY <1>1, <1>2, IdsAssumption
<1>4. Filling(w)
  BY <1>3 DEF ContentInv
<1>5. Len(buf[w]) = cfg.payload
  BY <1>2, <1>4, WholeLength DEF Filling
<1>6. ASSUME ~ Unfilled(w) PROVE buf[w] = ContentOf(w, cfg.mode, cfg.seed, cfg.payload)
  <2>1. off[w] = cfg.payload
    <3>1. off[w] \in 0 .. cfg.payload
      BY <1>4 DEF Filling
    <3> QED BY <1>2, <1>5, <1>6, <3>1 DEF Unfilled
  <2> DEFINE promised == Promised(w, rounds[w])
  <2>2. \A i \in 1 .. cfg.payload : buf[w][i] = promised[i]
    BY <1>4, <1>6, <2>1 DEF Filling, Turn
  <2>3. buf[w] = [i \in 1 .. cfg.payload |-> buf[w][i]]
    BY <1>4 DEF Filling
  <2>4. promised = [i \in 1 .. cfg.payload |-> promised[i]]
    BY DEF Promised, SeededContent
  <2>5. promised = ContentOf(w, cfg.mode, cfg.seed, cfg.payload)
    BY DEF Promised, ContentOf
  <2> HIDE DEF promised
  <2>6. buf[w] = promised
    BY <2>2, <2>3, <2>4
  <2> QED BY <2>5, <2>6
<1> QED BY <1>5, <1>6

\* The first word of a worker's filling.
LEMMA FirstWord ==
    ASSUME ContentInv, ConfigInv, pc = "running", Drawn(cfg.mode), cfg.seed # 0, cfg.payload >= Block,
           NEW w \in 0 .. cfg.workers - 1, ~ Unfilled(w)
    PROVE  /\ rounds[w] \in 1 .. MaxRounds /\ w \in Ids
           /\ \A i \in 1 .. Block :
                buf[w][i] = Bytes(StateAfter(cfg.seed, w, (rounds[w] - 1) * WordsOf(cfg.payload) + 0 + 1))[i]
<1>1. Configured(cfg) /\ id = cfg.workers
  BY DEF ConfigInv, ContentInv, Unconfigured, Exits
<1>2. cfg.payload \in Nat \ {0} /\ cfg.workers \in 1 .. MaxWorkers /\ Block \in Nat \ {0}
  BY <1>1, Numbers, GeneratorAssumption
<1>3. w \in Ids /\ w < id
  BY <1>1, <1>2, IdsAssumption
<1>4. Filling(w)
  BY <1>3 DEF ContentInv
<1>5. off[w] = cfg.payload
  <2>1. off[w] \in 0 .. cfg.payload
    BY <1>4 DEF Filling
  <2>2. Len(buf[w]) = cfg.payload
    BY <1>2, <1>4, WholeLength DEF Filling
  <2> QED BY <1>2, <2>1, <2>2 DEF Unfilled
<1>6. rounds[w] \in 1 .. MaxRounds
  <2>1. rounds[w] >= 1
    BY <1>4, <1>5 DEF Filling
  <2>2. rounds[w] \in 0 .. MaxRounds
    BY <1>3 DEF ContentInv
  <2> QED BY <2>1, <2>2, RoundsAssumption
<1>7. buf[w] = SeededContent(cfg.seed, w, rounds[w], cfg.payload)
  <2>1. buf[w] = ContentOf(w, cfg.mode, cfg.seed, cfg.payload)
    BY ContentHolds DEF ContentAsPromised
  <2> QED BY <2>1 DEF ContentOf
<1> DEFINE before == (rounds[w] - 1) * WordsOf(cfg.payload)
<1>8. ASSUME NEW i \in 1 .. Block
      PROVE  buf[w][i] = Bytes(StateAfter(cfg.seed, w, before + 0 + 1))[i]
  <2>1. i \in 1 .. cfg.payload /\ i \in 0 * Block + 1 .. 0 * Block + Block /\ i - 0 * Block = i
    BY <1>2
  <2>2. (i - 1) \div Block = 0 /\ ((i - 1) % Block) + 1 = i
    BY <2>1, PlaceInWord
  <2>3. buf[w][i] = Bytes(StateAfter(cfg.seed, w, before + ((i - 1) \div Block) + 1))[((i - 1) % Block) + 1]
    BY <1>7, <2>1 DEF SeededContent, WordsOf
  <2> HIDE DEF before
  <2> QED BY <2>2, <2>3
<1> QED BY <1>3, <1>6, <1>8

\* What is added to both sides is taken from both.
LEMMA Cancels ==
    ASSUME NEW a \in Nat, NEW x \in Nat, NEW y \in 0 .. Words - 1, (a + x) % Words = (a + y) % Words
    PROVE  x % Words = y
<1>1. Words \in Nat \ {0}
  BY GeneratorAssumption
<1> DEFINE s == a + x
           z == a + y
           p == s \div Words
           q == z \div Words
           r == s % Words
<1>0. s \in Int /\ z \in Int /\ s % Words = z % Words
  BY <1>1
<1>2. p \in Int /\ r \in 0 .. Words - 1 /\ a + x = Words * p + r
  <2> HIDE DEF s
  <2>1. p \in Int /\ r \in 0 .. Words - 1 /\ s = Words * p + r
    BY <1>0, <1>1, DivMod
  <2> QED BY <2>1 DEF s
<1>3. q \in Int /\ a + y = Words * q + r
  <2> HIDE DEF s, z
  <2>1. q \in Int /\ z = Words * q + r
    BY <1>0, <1>1, DivMod
  <2> QED BY <2>1 DEF z
<1> HIDE DEF p, q, r
<1>4. x = Words * (p - q) + y /\ p - q \in Int
  BY <1>1, <1>2, <1>3
<1> QED BY <1>1, <1>4, Division

\* Two workers that have filled equally often, or one the more often, never
\* began with the same word.
LEMMA StatesApart ==
    ASSUME NEW seed \in 0 .. Words - 1, NEW v \in Ids, NEW w \in Ids, v # w,
           NEW t \in DOMAIN Sizes, NEW k \in 1 .. MaxRounds, NEW l \in 1 .. k
    PROVE  StateAfter(seed, v, (k - 1) * WordsOf(Sizes[t]) + 0 + 1) # StateAfter(seed, w, (l - 1) * WordsOf(Sizes[t]) + 0 + 1)
<1>1. Words \in Nat \ {0} /\ Stride \in Nat /\ v \in 0 .. Words - 1 /\ w \in 0 .. Words - 1 /\ MaxRounds \in Nat
  BY GeneratorAssumption, RoundsAssumption
<1> DEFINE words == WordsOf(Sizes[t])
           d == k - l
<1>2. words \in Nat
  BY WordsCount, ConfigAssumption
<1>3. d \in 0 .. MaxRounds - 1
  BY <1>1
<1>4. (v + d * words * Stride) % Words # w
  BY <1>3, StrideAssumption DEF WordsOf
<1> HIDE DEF words
<1> DEFINE n == (l - 1) * words + 0 + 1
           m == (k - 1) * words + 0 + 1
           a == seed + 1 + n * Stride
           x == v + d * words * Stride
<1>5. n \in Nat /\ m = n + d * words /\ d * words \in Nat
  <2>1. (l - 1) * words \in Nat
    BY <1>1, <1>2
  <2> QED BY <1>1, <1>2, <1>3, <2>1
<1>6. n * Stride \in Nat /\ d * words * Stride \in Nat
  <2> HIDE DEF n, d
  <2> QED BY <1>1, <1>5
<1>7. a \in Nat /\ x \in Nat
  <2> HIDE DEF n, d
  <2> QED BY <1>1, <1>6
<1>8. seed + v + 1 + m * Stride = a + x
  <2> DEFINE e == d * words
  <2>1. m = n + e /\ e \in Nat /\ n \in Nat
    BY <1>5
  <2> HIDE DEF n, m, e
  <2>2. m * Stride = n * Stride + e * Stride
    BY <1>1, <2>1
  <2> QED BY <1>1, <1>6, <2>1, <2>2 DEF e
<1>9. seed + w + 1 + n * Stride = a + w
  <2> HIDE DEF n
  <2> QED BY <1>1, <1>6
<1>10. x % Words # w
  BY <1>4
<1> HIDE DEF a, x, n, m
<1>11. StateAfter(seed, v, m) = (a + x) % Words /\ StateAfter(seed, w, n) = (a + w) % Words
  BY <1>8, <1>9 DEF StateAfter
<1>12. (a + x) % Words # (a + w) % Words
  <2> SUFFICES ASSUME (a + x) % Words = (a + w) % Words PROVE FALSE
    OBVIOUS
  <2> QED BY <1>1, <1>7, <1>10, Cancels
<1>13. StateAfter(seed, v, m) # StateAfter(seed, w, n)
  BY <1>11, <1>12
<1> QED BY <1>13 DEF m, n, words

\* States are told apart by their bytes.
LEMMA SameWord ==
    ASSUME NEW s \in 0 .. Words - 1, NEW t \in 0 .. Words - 1, \A i \in 1 .. Block : Bytes(s)[i] = Bytes(t)[i]
    PROVE  s = t
<1>1. Bytes(s) \in [1 .. Block -> 0 .. 255] /\ Bytes(t) \in [1 .. Block -> 0 .. 255]
  BY BytesAssumption
<1>2. \A f, g \in [1 .. Block -> 0 .. 255] : (\A i \in 1 .. Block : f[i] = g[i]) => f = g
  <2> TAKE f, g \in [1 .. Block -> 0 .. 255]
  <2> HAVE \A i \in 1 .. Block : f[i] = g[i]
  <2>1. f = [i \in 1 .. Block |-> f[i]] /\ g = [i \in 1 .. Block |-> g[i]]
    OBVIOUS
  <2>2. [i \in 1 .. Block |-> f[i]] = [i \in 1 .. Block |-> g[i]]
    OBVIOUS
  <2> QED BY <2>1, <2>2, Zenon
<1>3. Bytes(s) = Bytes(t)
  BY <1>1, <1>2, Zenon
<1> QED BY <1>3, BytesAssumption

\* Buffers that hold a word of the generator differ in the first one.
LEMMA BuffersApart == ContentInv /\ ConfigInv => WordsKeepBuffersApart
<1> SUFFICES ASSUME ContentInv, ConfigInv, cfg.payload >= Block, pc = "running", Drawn(cfg.mode), cfg.seed # 0,
                    NEW v \in 0 .. cfg.workers - 1, NEW w \in 0 .. cfg.workers - 1,
                    v # w, ~ Unfilled(v), ~ Unfilled(w), buf[v] = buf[w]
             PROVE  FALSE
  BY DEF WordsKeepBuffersApart, SeededBuffersDistinct
<1>1. Configured(cfg)
  BY DEF ConfigInv, Unconfigured, Exits
<1>2. PICK t \in DOMAIN Sizes : cfg.payload = Sizes[t]
  BY <1>1 DEF Configured
<1>3. cfg.seed \in 0 .. Words - 1 /\ cfg.payload \in Nat /\ MaxRounds \in Nat
  BY <1>1, Numbers
<1> DEFINE state(u) == StateAfter(cfg.seed, u, (rounds[u] - 1) * WordsOf(cfg.payload) + 0 + 1)
<1>4. rounds[v] \in 1 .. MaxRounds /\ v \in Ids /\ \A i \in 1 .. Block : buf[v][i] = Bytes(state(v))[i]
  BY FirstWord
<1>5. rounds[w] \in 1 .. MaxRounds /\ w \in Ids /\ \A i \in 1 .. Block : buf[w][i] = Bytes(state(w))[i]
  BY FirstWord
<1>6. state(v) \in 0 .. Words - 1 /\ state(w) \in 0 .. Words - 1
  <2>1. WordsOf(cfg.payload) \in Nat
    BY <1>3, WordsCount
  <2>2. (rounds[v] - 1) * WordsOf(cfg.payload) + 0 \in Nat /\ (rounds[w] - 1) * WordsOf(cfg.payload) + 0 \in Nat
    BY <1>3, <1>4, <1>5, <2>1
  <2> QED BY <1>3, <1>4, <1>5, <2>2, NextState
<1>7. state(v) # state(w)
  <2>1. CASE rounds[w] <= rounds[v]
    <3>1. rounds[w] \in 1 .. rounds[v]
      BY <1>3, <1>4, <1>5, <2>1
    <3> QED BY <1>2, <1>3, <1>4, <1>5, <3>1, StatesApart
  <2>2. CASE ~ (rounds[w] <= rounds[v])
    <3>1. rounds[v] \in 1 .. rounds[w]
      BY <1>3, <1>4, <1>5, <2>2
    <3> QED BY <1>2, <1>3, <1>4, <1>5, <3>1, StatesApart
  <2> QED BY <2>1, <2>2
<1>8. \A i \in 1 .. Block : Bytes(state(v))[i] = Bytes(state(w))[i]
  BY <1>4, <1>5
<1> HIDE DEF state
<1>9. state(v) = state(w)
  BY <1>6, <1>8, SameWord
<1> QED BY <1>7, <1>9

\* For every generator, size, mode and seed: when the workers run, each
\* plaintext is whole, and after every filling it holds the bytes that seed, id
\* and round determine, or the pattern, or what getrandom gave, to the last byte.
THEOREM ContentIsAsPromised == Spec => []ContentAsPromised
<1>1. ContentInv /\ ConfigInv => ContentAsPromised
  BY ContentHolds
<1> QED BY ConfigInit, ConfigStep, ContentInit, ContentStep, <1>1, PTL DEF Spec

\* Seeded workers whose buffers hold a word never have equal buffers, however
\* many fillings the one is ahead of the other.
THEOREM WordsKeepApart == Spec => []WordsKeepBuffersApart
<1>1. ContentInv /\ ConfigInv => WordsKeepBuffersApart
  BY BuffersApart
<1> QED BY ConfigInit, ConfigStep, ContentInit, ContentStep, <1>1, PTL DEF Spec

-----------------------------------------------------------------------------
(* The types.                                                              *)

\* A filling has not come further than its buffer reaches.
Offsets == \A w \in Ids : off[w] \in 0 .. Len(buf[w])

\* The types that no invariant above settles.
TypeInv ==
    /\ pc \in Places /\ at \in BothPipes \cup {None}
    /\ blob \in [BothPipes -> Handles \cup {None}]
    /\ raw \in [FlagNames -> Texts]
    /\ pc = "save" => pipe[at] \in Handles
    /\ pc \in Exits => Offsets

\* The types hold at first.
LEMMA TypeInit == Init => TypeInv
<1> SUFFICES ASSUME Init PROVE TypeInv
  OBVIOUS
<1>1. raw \in [FlagNames -> Texts]
  BY DEF Init, Texts, Defaults
<1>2. pc = "argv" /\ at = None /\ blob \in [BothPipes -> Handles \cup {None}]
  BY DEF Init
<1> QED BY <1>1, <1>2 DEF TypeInv, Places, Exits

\* Every offset lies in its buffer, filled or not.
LEMMA OffsetsFit == ContentInv /\ Configured(cfg) => Offsets
<1> SUFFICES ASSUME ContentInv, Configured(cfg), NEW w \in Ids PROVE off[w] \in 0 .. Len(buf[w])
  BY DEF Offsets
<1>1. CASE Blank(w)
  <2>1. Len(<<>>) = 0
    OBVIOUS
  <2> QED BY <1>1, <2>1 DEF Blank
<1>2. CASE Filling(w)
  <2>1. cfg.payload \in Nat /\ Len(buf[w]) = cfg.payload
    BY <1>2, Numbers, WholeLength DEF Filling
  <2> QED BY <1>2, <2>1 DEF Filling
<1> QED BY <1>1, <1>2 DEF ContentInv

\* Before the buffers there is nothing to fill.
LEMMA OffsetsAtFirst == ContentInv /\ pc \in {"argv", "runtime", "build", "init", "save"} => Offsets
<1> SUFFICES ASSUME ContentInv, pc \in {"argv", "runtime", "build", "init", "save"}, NEW w \in Ids
             PROVE  off[w] \in 0 .. Len(buf[w])
  BY DEF Offsets
<1>1. Blank(w)
  BY DEF ContentInv
<1>2. Len(<<>>) = 0
  OBVIOUS
<1> QED BY <1>1, <1>2 DEF Blank

\* Every step keeps them: a value that is read is a text of the line, and what
\* is saved is a key.
LEMMA TypeStep == TypeInv /\ PipesInv /\ LineInv /\ ConfigInv /\ ContentInv /\ [Next]_vars => TypeInv'
<1> SUFFICES ASSUME TypeInv, PipesInv, LineInv, ConfigInv, ContentInv, [Next]_vars PROVE TypeInv'
  OBVIOUS
<1>1. CASE ReadArgument
  <2>1. /\ pc' = pc /\ pc = "argv" /\ at' = at /\ blob' = blob /\ argv' = argv
        /\ raw' = [raw EXCEPT ![Arg.name] = Value]
        /\ argi <= Len(argv) /\ ValueGiven
    BY <1>1 DEF ReadArgument, TakeArgument, BadArgument, startVars, pipeVars
  <2>2. Len(argv) \in Nat /\ argi \in 1 .. Len(argv)
    BY <2>1, LineTyped
  <2>3. Value \in Texts
    <3>1. CASE Arg.value # NoValue
      BY <2>2, <3>1 DEF Value, Texts, Arg
    <3>2. CASE Arg.value = NoValue /\ Arg.name \in BoolFlags
      BY <3>2 DEF Value, Texts
    <3>3. CASE Arg.value = NoValue /\ Arg.name \notin BoolFlags
      <4>1. argi + 1 \in 1 .. Len(argv)
        BY <2>1, <2>2, <3>3 DEF ValueGiven, TakesNext
      <4>2. Value = argv[argi + 1].text
        BY <3>3 DEF Value
      <4> QED BY <4>1, <4>2 DEF Texts
    <3> QED BY <3>1, <3>2, <3>3
  <2>4. Texts' = Texts
    BY <2>1 DEF Texts
  <2>5. raw' \in [FlagNames -> Texts]
    BY <2>1, <2>3 DEF TypeInv
  <2> QED BY <2>1, <2>4, <2>5 DEF TypeInv, Exits
<1>2. ASSUME UNCHANGED <<argv, raw>> PROVE raw' \in [FlagNames -> Texts']
  <2>1. Texts' = Texts
    BY <1>2 DEF Texts
  <2> QED BY <1>2, <2>1 DEF TypeInv
<1>3. ASSUME pc \notin Exits, off' = off, buf' = buf PROVE Offsets'
  <2>1. Offsets
    <3>1. CASE pc \in {"argv", "runtime", "build", "init", "save"}
      BY <3>1, OffsetsAtFirst
    <3>2. CASE pc \notin {"argv", "runtime", "build", "init", "save"}
      BY <1>3, <3>2, OffsetsFit DEF ConfigInv, Unconfigured
    <3> QED BY <3>1, <3>2
  <2> QED BY <1>3, <2>1 DEF Offsets
<1>4. CASE PrintUsage \/ RefuseArgument \/ RefuseFlags \/ LookupFails \/ InitFails \/ InitThrowsLate \/ SaveFails \/ SetUpFails
  <2>1. /\ pc \notin Exits /\ pc' \in Exits /\ at' = None /\ blob' = blob /\ UNCHANGED <<argv, raw>> /\ off' = off /\ buf' = buf
    BY <1>4 DEF PrintUsage, RefuseArgument, RefuseFlags, LookupFails, InitFails, InitThrowsLate, SaveFails, SetUpFails, Return,
                lineVars, payloadVars, Exits
  <2> QED BY <2>1, <1>2, <1>3 DEF TypeInv, Places, Exits
<1>5. CASE AcceptFlags \/ ComposeOpts \/ AllocateBuffer \/ FillFirst \/ NextWorker \/ HandOver
           \/ \E w \in Ids : BeginRefill(w) \/ Refill(w)
  <2>1. /\ pc' \in {"runtime", "init", "fill", "alloc", "running"} /\ at' = at /\ blob' = blob /\ UNCHANGED <<argv, raw>>
    BY <1>5 DEF AcceptFlags, ComposeOpts, AllocateBuffer, FillFirst, NextWorker, HandOver, BeginRefill, Refill,
                lineVars, startVars, pipeVars
  <2> QED BY <2>1, <1>2 DEF TypeInv, Places, Exits
<1>6. CASE ShapeRuntime
  <2>1. pc' = "build" /\ at' \in BothPipes /\ blob' = blob /\ UNCHANGED <<argv, raw>>
    BY <1>6 DEF ShapeRuntime, lineVars, pipeVars, BothPipes
  <2> QED BY <2>1, <1>2 DEF TypeInv, Places, Exits
<1>7. CASE InitSucceeds
  <2>1. PICK h \in Handles : /\ pc = "init" /\ pc' = "save" /\ at' = at /\ blob' = blob /\ UNCHANGED <<argv, raw>>
                             /\ pipe' = [pipe EXCEPT ![at] = h]
    BY <1>7 DEF InitSucceeds, lineVars
  <2>2. pipe'[at'] = h
    BY <2>1 DEF PipesInv
  <2> QED BY <2>1, <2>2, <1>2 DEF TypeInv, Places, Exits
<1>8. CASE SaveSucceeds
  <2>1. /\ pc = "save" /\ pc' \in {"build", "alloc"} /\ at' \in BothPipes \cup {None} /\ UNCHANGED <<argv, raw>>
        /\ blob' = [blob EXCEPT ![at] = keyOf[pipe[at]]]
    BY <1>8 DEF SaveSucceeds, lineVars, BothPipes
  <2>2. keyOf[pipe[at]] \in Handles \cup {None}
    BY <2>1 DEF TypeInv, PipesInv
  <2>3. blob' \in [BothPipes -> Handles \cup {None}]
    BY <2>1, <2>2 DEF TypeInv
  <2> QED BY <2>1, <2>3, <1>2 DEF TypeInv, Places, Exits
<1>9. CASE UNCHANGED vars
  <2>1. /\ pc' = pc /\ at' = at /\ blob' = blob /\ pipe' = pipe /\ off' = off /\ buf' = buf /\ UNCHANGED <<argv, raw>>
    BY <1>9 DEF vars, lineVars, startVars, pipeVars, payloadVars
  <2>2. Offsets' = Offsets
    BY <2>1 DEF Offsets
  <2> QED BY <2>1, <2>2, <1>2 DEF TypeInv
<1> QED BY <1>1, <1>4, <1>5, <1>6, <1>7, <1>8, <1>9 DEF Next

\* With the other invariants that is all of the type invariant.
LEMMA TypesHold ==
    ASSUME TypeInv, PipesInv, LineInv, RuntimeInv, ConfigInv, ContentInv
    PROVE  TypeOK
<1>1. pc \in Places /\ at \in BothPipes \cup {None} /\ id \in 0 .. MaxWorkers /\ argi \in 1 .. Len(argv) + 1
  BY LineTyped DEF TypeInv, ContentInv
<1>2. {env, rt} \subseteq [limit : 0 .. Int64Max, gc : Int, procs : Nat]
  BY DEF RuntimeInv, Settings
<1>3. /\ pipe \in [BothPipes -> Handles \cup {None}] /\ keyOf \in [Handles -> Handles \cup {None}]
      /\ blob \in [BothPipes -> Handles \cup {None}] /\ raw \in [FlagNames -> Texts]
  BY DEF PipesInv, TypeInv
<1>4. rng \in [Ids -> 0 .. Words - 1] /\ DOMAIN buf = Ids /\ \A w \in Ids : rounds[w] \in 0 .. MaxRounds
  BY DEF ContentInv
<1>5. Offsets
  <2>1. CASE pc \in {"argv", "runtime", "build", "init", "save"}
    BY <2>1, OffsetsAtFirst
  <2>2. CASE pc \in Exits
    BY <2>2 DEF TypeInv
  <2>3. CASE pc \notin {"argv", "runtime", "build", "init", "save"} \cup Exits
    BY <2>3, OffsetsFit DEF ConfigInv, Unconfigured
  <2> QED BY <2>1, <2>2, <2>3
<1> QED BY <1>1, <1>2, <1>3, <1>4, <1>5 DEF TypeOK, Offsets

\* Every variable of a start has its type, the offsets of the fillings included.
THEOREM TypesAreKept == Spec => []TypeOK
<1>1. TypeInv /\ PipesInv /\ LineInv /\ RuntimeInv /\ ConfigInv /\ ContentInv => TypeOK
  BY TypesHold
<1> QED BY TypeInit, TypeStep, PipesInit, PipesStep, LineInit, LineStep, RuntimeInit, RuntimeStep, ConfigInit, ConfigStep,
           ContentInit, ContentStep, <1>1, PTL DEF Spec

-----------------------------------------------------------------------------
(* The pipelines at the hand-over.                                         *)

\* The pipes a shape exercises.
Wanted(p) == IF p = "stream" THEN cfg.shape # "message" ELSE cfg.shape \in {"message", "both"}

\* Where run() builds its pipes, and where it has.
Building == {"build", "init", "save"}
Prepared == {"alloc", "fill", "running"}

\* The pipes that stand are those the shape wants, in its order; each holds a
\* pipeline of its own, of the least names, made for the profile of its surface,
\* and its blob carries the masters the pipeline was made with.
BuiltInv ==
    /\ DOMAIN made = Handles /\ DOMAIN blob = BothPipes
    /\ pc \notin Exits =>
         /\ \A h \in Handles : made[h] # NotMade <=> \E p \in BothPipes : pipe[p] = h
         /\ \A g, h \in Handles : made[h] # NotMade /\ g < h => made[g] # NotMade
         /\ pipe["stream"] = pipe["msg"] => pipe["stream"] = None
         /\ \A p \in BothPipes : pipe[p] # None => keyOf[pipe[p]] = pipe[p] /\ made[pipe[p]].profile = ProfileOf(p)
         /\ \A p \in BothPipes : pipe[p] # None /\ ~ (pc = "save" /\ p = at) => blob[p] = pipe[p]
    /\ pc \in Building =>
         /\ at \in BothPipes /\ Wanted(at)
         /\ \A p \in BothPipes :
              pipe[p] # None <=> (p = at /\ pc = "save") \/ (p = "stream" /\ at = "msg" /\ cfg.shape = "both")
    /\ pc \in Prepared => \A p \in BothPipes : pipe[p] # None <=> Wanted(p)

\* At first nothing is built.
LEMMA BuiltInit == Init => BuiltInv
  BY HandlesAssumption DEF Init, BuiltInv, BothPipes, Exits, Building, Prepared

\* A profile that is asked for has a name.
LEMMA ProfileNamed ==
    ASSUME NEW p \in BothPipes
    PROVE  ProfileOf(p) # ""
  BY DefaultsAssumption DEF ProfileOf, BothPipes

\* Every step keeps that: the least name is drawn for a pipe that holds none, and
\* the blob is saved before the next pipe is begun.
LEMMA BuiltStep == BuiltInv /\ PipesInv /\ ConfigInv /\ [Next]_vars => BuiltInv'
<1> SUFFICES ASSUME BuiltInv, PipesInv, ConfigInv, [Next]_vars PROVE BuiltInv'
  OBVIOUS
<1>1. CASE PrintUsage \/ RefuseArgument \/ RefuseFlags \/ LookupFails \/ InitFails \/ InitThrowsLate \/ SaveFails \/ SetUpFails
  <2>1. pc' \in Exits /\ DOMAIN made' = DOMAIN made /\ blob' = blob
    BY <1>1 DEF PrintUsage, RefuseArgument, RefuseFlags, LookupFails, InitFails, InitThrowsLate, SaveFails, SetUpFails, Return, Exits
  <2> QED BY <2>1 DEF BuiltInv, Exits, Building, Prepared
<1>2. CASE ReadArgument \/ AcceptFlags
  <2>1. /\ pc = "argv" /\ pc' \in {"argv", "runtime"}
        /\ pipe' = pipe /\ blob' = blob /\ made' = made /\ keyOf' = keyOf
    BY <1>2 DEF ReadArgument, AcceptFlags, startVars, pipeVars
  <2>2. \A p \in BothPipes : pipe[p] = None
    BY <2>1 DEF PipesInv
  <2> QED BY <2>1, <2>2 DEF BuiltInv, Exits, Building, Prepared, BothPipes
<1>3. CASE ShapeRuntime
  <2>1. /\ pc = "runtime" /\ pc' = "build"
        /\ pipe' = pipe /\ blob' = blob /\ made' = made /\ keyOf' = keyOf
        /\ at' = IF cfg.shape = "message" THEN "msg" ELSE "stream"
        /\ cfg' = [cfg EXCEPT !.memlimit = LimitShaped(rt).limit]
    BY <1>3 DEF ShapeRuntime, pipeVars
  <2>2. \A p \in BothPipes : pipe[p] = None
    BY <2>1 DEF PipesInv
  <2>3. cfg'.shape = cfg.shape
    BY <2>1, Zenon DEF ConfigInv, Config
  <2> QED BY <2>1, <2>2, <2>3 DEF BuiltInv, Exits, Building, Prepared, BothPipes, Wanted
<1>4. CASE ComposeOpts
  <2>1. /\ pc = "build" /\ pc' = "init" /\ cfg' = cfg /\ at' = at
        /\ pipe' = pipe /\ blob' = blob /\ made' = made /\ keyOf' = keyOf
    BY <1>4 DEF ComposeOpts, pipeVars
  <2> QED BY <2>1 DEF BuiltInv, Exits, Building, Prepared, BothPipes, Wanted, ProfileOf
<1>5. CASE InitSucceeds
  <2>1. PICK h \in Handles :
           /\ pc = "init" /\ pc' = "save" /\ at' = at /\ cfg' = cfg /\ blob' = blob /\ Unused(h)
           /\ made' = [made EXCEPT ![h] = [profile |-> ProfileOf(at), overrides |-> Decoded(query)]]
           /\ keyOf' = [keyOf EXCEPT ![h] = h]
           /\ pipe' = [pipe EXCEPT ![at] = h]
    BY <1>5 DEF InitSucceeds
  <2>2. /\ at \in BothPipes /\ pipe[at] = None /\ DOMAIN made = Handles
        /\ pipe \in [BothPipes -> Handles \cup {None}] /\ keyOf \in [Handles -> Handles \cup {None}]
    BY <2>1 DEF BuiltInv, PipesInv
  <2>3. made'[h].profile = ProfileOf(at) /\ made'[h] # NotMade /\ \A g \in Handles : g # h => made'[g] = made[g]
    BY <2>1, <2>2, ProfileNamed DEF NotMade
  <2>4. /\ keyOf'[h] = h /\ \A g \in Handles : g # h => keyOf'[g] = keyOf[g]
        /\ pipe'[at] = h /\ \A p \in BothPipes : p # at => pipe'[p] = pipe[p]
    BY <2>1, <2>2
  <2>5. \A p \in BothPipes : pipe[p] # h
    BY <2>1 DEF BuiltInv, Unused, Exits
  <2>6. \A g \in Handles : made'[g] # NotMade <=> \E p \in BothPipes : pipe'[p] = g
    <3> SUFFICES ASSUME NEW g \in Handles PROVE made'[g] # NotMade <=> \E p \in BothPipes : pipe'[p] = g
      OBVIOUS
    <3>1. CASE g = h
      BY <3>1, <2>2, <2>3, <2>4
    <3>2. CASE g # h
      <4>1. made[g] # NotMade <=> \E p \in BothPipes : pipe[p] = g
        BY <2>1 DEF BuiltInv, Exits
      <4>2. pipe[at] # g
        BY <2>2, HandlesAssumption
      <4> QED BY <3>2, <4>1, <4>2, <2>3, <2>4
    <3> QED BY <3>1, <3>2
  <2>7. ASSUME NEW f \in Handles, NEW g \in Handles, made'[g] # NotMade, f < g PROVE made'[f] # NotMade
    <3>1. \A k \in Handles : made[k] = NotMade => h <= k
      BY <2>1 DEF Unused
    <3>2. f \in Nat /\ g \in Nat /\ h \in Nat
      BY HandlesAssumption
    <3>3. CASE g = h
      <4>1. made[f] # NotMade
        BY <3>1, <3>2, <3>3, <2>7
      <4> QED BY <4>1, <2>3
    <3>4. CASE g # h
      <4>1. made[f] # NotMade
        BY <3>4, <2>1, <2>3, <2>7 DEF BuiltInv, Exits
      <4> QED BY <4>1, <2>3
    <3> QED BY <3>3, <3>4
  <2>8. pipe'["stream"] # pipe'["msg"]
    BY <2>2, <2>4, <2>5 DEF BothPipes
  <2>9. ASSUME NEW p \in BothPipes, pipe'[p] # None
        PROVE  keyOf'[pipe'[p]] = pipe'[p] /\ made'[pipe'[p]].profile = ProfileOf(p)'
    <3>1. ProfileOf(p)' = ProfileOf(p)
      BY <2>1 DEF ProfileOf
    <3>2. CASE p = at
      BY <3>1, <3>2, <2>3, <2>4
    <3>3. CASE p # at
      <4>1. pipe'[p] = pipe[p] /\ pipe[p] \in Handles /\ pipe[p] # h
        BY <2>2, <2>4, <2>5, <2>9, <3>3
      <4>2. keyOf[pipe[p]] = pipe[p] /\ made[pipe[p]].profile = ProfileOf(p)
        BY <4>1, <2>9, <2>1 DEF BuiltInv, Exits
      <4> QED BY <3>1, <4>1, <4>2, <2>3, <2>4
    <3> QED BY <3>2, <3>3
  <2>10. \A p \in BothPipes : pipe'[p] # None /\ p # at => blob'[p] = pipe'[p]
    BY <2>1, <2>4 DEF BuiltInv, Exits
  <2>11. \A p \in BothPipes : pipe'[p] # None <=> p = at \/ (p = "stream" /\ at = "msg" /\ cfg.shape = "both")
    <3>1. \A p \in BothPipes : pipe[p] # None <=> (p = "stream" /\ at = "msg" /\ cfg.shape = "both")
      BY <2>1 DEF BuiltInv, Building
    <3>2. h # None
      BY HandlesAssumption
    <3> QED BY <3>1, <3>2, <2>4
  <2>12. Wanted(at)'
    BY <2>1 DEF BuiltInv, Building, Wanted
  <2>13. DOMAIN made' = Handles
    BY <2>1, <2>2
  <2> QED BY <2>1, <2>2, <2>6, <2>7, <2>8, <2>9, <2>10, <2>11, <2>12, <2>13 DEF BuiltInv, Exits, Building, Prepared
<1>6. CASE SaveSucceeds
  <2>1. /\ pc = "save" /\ blob' = [blob EXCEPT ![at] = keyOf[pipe[at]]]
        /\ pipe' = pipe /\ made' = made /\ keyOf' = keyOf /\ cfg' = cfg
        /\ IF at = "stream" /\ cfg.shape = "both" THEN at' = "msg" /\ pc' = "build"
                                                  ELSE at' = None /\ pc' = "alloc"
    BY <1>6 DEF SaveSucceeds
  <2>2. /\ at \in BothPipes /\ Wanted(at) /\ DOMAIN made = Handles
        /\ \A p \in BothPipes : pipe[p] # None <=> p = at \/ (p = "stream" /\ at = "msg" /\ cfg.shape = "both")
    BY <2>1 DEF BuiltInv, Building
  <2>3. keyOf[pipe[at]] = pipe[at]
    BY <2>1, <2>2 DEF BuiltInv, Exits
  <2>4. DOMAIN blob' = BothPipes /\ \A p \in BothPipes : pipe[p] # None => blob'[p] = pipe[p]
    BY <2>1, <2>2, <2>3 DEF BuiltInv, Exits
  <2>5. \A p \in BothPipes : ProfileOf(p)' = ProfileOf(p) /\ (Wanted(p)' <=> Wanted(p))
    BY <2>1 DEF ProfileOf, Wanted
  <2>6. CASE at = "stream" /\ cfg.shape = "both"
    <3>1. pc' = "build" /\ at' = "msg" /\ cfg'.shape = "both"
      BY <2>1, <2>6
    <3>2. \A p \in BothPipes : pipe'[p] # None <=> p = "stream"
      BY <2>1, <2>2, <2>6
    <3> QED BY <2>1, <2>2, <2>4, <2>5, <3>1, <3>2 DEF BuiltInv, Exits, Building, Prepared, BothPipes, Wanted
  <2>7. CASE ~ (at = "stream" /\ cfg.shape = "both")
    <3>1. pc' = "alloc" /\ at' = None
      BY <2>1, <2>7
    <3>2. \A p \in BothPipes : pipe'[p] # None <=> Wanted(p)
      BY <2>1, <2>2, <2>7 DEF Wanted, BothPipes
    <3> QED BY <2>1, <2>2, <2>4, <2>5, <3>1, <3>2 DEF BuiltInv, Exits, Building, Prepared
  <2> QED BY <2>6, <2>7
<1>7. CASE /\ UNCHANGED <<pipe, blob, made, keyOf, cfg, at>>
           /\ pc' = pc \/ (pc \in Prepared /\ pc' \in Prepared)
  <2>1. \A p \in BothPipes : ProfileOf(p)' = ProfileOf(p) /\ (Wanted(p)' <=> Wanted(p))
    BY <1>7 DEF ProfileOf, Wanted
  <2>2. Wanted(at)' <=> Wanted(at)
    BY <1>7 DEF Wanted
  <2> QED BY <1>7, <2>1, <2>2 DEF BuiltInv, Exits, Building, Prepared
<1>8. CASE AllocateBuffer \/ FillFirst \/ NextWorker \/ HandOver
  BY <1>7, <1>8 DEF AllocateBuffer, FillFirst, NextWorker, HandOver, startVars, pipeVars, Prepared
<1>9. CASE \E w \in Ids : BeginRefill(w) \/ Refill(w)
  BY <1>7, <1>9 DEF BeginRefill, Refill, startVars, pipeVars
<1>10. CASE UNCHANGED vars
  BY <1>7, <1>10 DEF vars, startVars, pipeVars
<1> QED BY <1>1, <1>2, <1>3, <1>4, <1>5, <1>6, <1>8, <1>9, <1>10 DEF Next

\* The worker ids of a run are as many as its workers.
LEMMA WorkersCounted ==
    ASSUME NEW n \in Nat \ {0}, NEW s, NEW i, NEW r, NEW c, NEW k
    PROVE  Loop(n, s, i, r, c, k)!Cardinality(0 .. n - 1) = n
<1>1. Cardinality(0 .. n - 1) = n
  BY FS_Interval
<1>2. Loop(n, s, i, r, c, k)!Cardinality(0 .. n - 1) = Cardinality(0 .. n - 1)
  BY Zenon DEF Loop!Cardinality, Cardinality
<1> QED BY <1>1, <1>2

\* The names of the pipelines, and of the masters in the blobs, are the least.
LEMMA NamesFirst ==
    ASSUME BuiltInv, PipesInv, pc = "running", NEW n, NEW s, NEW i, NEW r, NEW c, NEW k, s \in Shapes, s = cfg.shape,
           NEW STATE f, f = [p \in BuiltPipes |-> pipe[p]]
    PROVE  /\ Loop(n, s, i, r, c, k)!Pipes = BuiltPipes
           /\ f \in Loop(n, s, i, r, c, k)!FirstNames(Handles)
<1>1. pipe \in [BothPipes -> Handles \cup {None}] /\ \A p \in BothPipes : pipe[p] # None <=> Wanted(p)
  BY DEF PipesInv, BuiltInv, Prepared
<1>2. Loop(n, s, i, r, c, k)!Pipes = BuiltPipes
  BY <1>1 DEF Loop!Pipes, Loop!UsesStream, Loop!UsesMessage, BuiltPipes, BothPipes, Wanted, Shapes
<1>3. f \in [BuiltPipes -> Handles] /\ \A p \in BuiltPipes : f[p] = pipe[p]
  BY <1>1 DEF BuiltPipes
<1>4. \A p, q \in BuiltPipes : p # q => f[p] # f[q]
  BY <1>3 DEF BuiltInv, BuiltPipes, BothPipes, Exits
<1>5. ASSUME NEW p \in BuiltPipes, NEW g \in Handles, g < f[p] PROVE \E q \in BuiltPipes : f[q] = g
  <2>1. f[p] \in Handles /\ f[p] = pipe[p] /\ p \in BothPipes
    BY <1>3 DEF BuiltPipes
  <2>2. made[f[p]] # NotMade
    BY <2>1 DEF BuiltInv, Exits
  <2>3. made[g] # NotMade
    BY <1>5, <2>1, <2>2 DEF BuiltInv, Exits
  <2>4. PICK q \in BothPipes : pipe[q] = g
    BY <2>3 DEF BuiltInv, Exits
  <2>5. q \in BuiltPipes
    BY <2>4, HandlesAssumption DEF BuiltPipes
  <2> QED BY <1>3, <2>4, <2>5
<1>6. f \in Loop(n, s, i, r, c, k)!FirstNames(Handles)
  BY <1>2, <1>3, <1>4, <1>5 DEF Loop!FirstNames
<1> QED BY <1>2, <1>6

\* The state at the hand-over is an initial one of the loop.
LEMMA LoopBegins ==
    ASSUME BuiltInv, PipesInv, pc = "running", NEW n \in Nat \ {0}, NEW s \in Shapes, NEW i, NEW r, NEW c, NEW k,
           n = cfg.workers, s = cfg.shape
    PROVE  Loop(n, s, i, r, c, k)!Init
<1> DEFINE f == [p \in BuiltPipes |-> pipe[p]]
           b == [p \in BuiltPipes |-> blob[p]]
<1>1. b = f
  BY DEF BuiltInv, BuiltPipes, Exits
<1>2. /\ Loop(n, s, i, r, c, k)!Pipes = BuiltPipes
      /\ f \in Loop(n, s, i, r, c, k)!FirstNames(Handles)
  BY NamesFirst
<1>3. Loop(n, s, i, r, c, k)!Cardinality(0 .. n - 1) = n
  BY WorkersCounted
<1>4. keyOf = [h \in Handles |-> IF \E p \in BuiltPipes : f[p] = h
                                 THEN b[CHOOSE p \in BuiltPipes : f[p] = h] ELSE None]
  <2>1. ASSUME NEW h \in Handles
        PROVE  keyOf[h] = IF \E p \in BuiltPipes : f[p] = h
                          THEN b[CHOOSE p \in BuiltPipes : f[p] = h] ELSE None
    <3>1. CASE \E p \in BuiltPipes : f[p] = h
      <4> DEFINE p == CHOOSE q \in BuiltPipes : f[q] = h
      <4>1. p \in BuiltPipes /\ f[p] = h
        <5> HIDE DEF f
        <5> QED BY <3>1
      <4>2. pipe[p] = h /\ p \in BothPipes /\ pipe[p] # None
        <5> HIDE DEF p
        <5> QED BY <4>1 DEF BuiltPipes
      <4>3. keyOf[h] = h
        <5> HIDE DEF p
        <5> QED BY <4>2 DEF BuiltInv, Exits
      <4>4. b[p] = h
        <5> HIDE DEF p, f, b
        <5> QED BY <1>1, <4>1
      <4> QED BY <3>1, <4>3, <4>4
    <3>2. CASE ~ \E p \in BuiltPipes : f[p] = h
      <4>1. \A p \in BothPipes : pipe[p] # h
        BY <3>2, HandlesAssumption DEF BuiltPipes
      <4>2. keyOf[h] = None
        BY <4>1 DEF PipesInv
      <4> QED BY <3>2, <4>2
    <3> QED BY <3>1, <3>2
  <2>2. keyOf = [h \in Handles |-> keyOf[h]]
    BY DEF PipesInv
  <2> HIDE DEF f, b
  <2> QED BY <2>1, <2>2, Zenon
<1> HIDE DEF f, b
<1> QED BY <1>1, <1>2, <1>3, <1>4 DEF Loop!Init, f, b

\* With that, every surface an iteration may choose has its pipe.
LEMMA EverythingIsThere == BuiltInv /\ PipesInv /\ ConfigInv => HandsOver
<1> SUFFICES ASSUME BuiltInv, PipesInv, ConfigInv, pc = "running" PROVE HandsOver
  BY DEF HandsOver
<1>1. Configured(cfg)
  BY DEF ConfigInv, Unconfigured, Exits
<1>2. /\ cfg.workers \in 1 .. MaxWorkers /\ cfg.shape \in Shapes
      /\ cfg.iterations \in Nat /\ cfg.rekey \in Nat /\ cfg.cycle \in Nat
  BY <1>1, Zenon DEF Configured
<1>3. cfg.workers \in Nat \ {0}
  BY <1>2, IdsAssumption
<1>4. ASSUME NEW n \in {cfg.workers}, NEW s \in {cfg.shape}, NEW i \in {cfg.iterations}, NEW r \in {cfg.rekey},
             NEW c \in {cfg.cycle}, NEW k \in {cfg.parallax \/ cfg.wrapper}
      PROVE  Loop(n, s, i, r, c, k)!Init
  BY <1>2, <1>3, LoopBegins
<1>5. ASSUME NEW n \in {cfg.workers}, NEW s \in {cfg.shape}, NEW i \in {cfg.iterations}, NEW r \in {cfg.rekey},
             NEW c \in {cfg.cycle}, NEW k \in {cfg.parallax \/ cfg.wrapper}, NEW j \in 0 .. 2
      PROVE  LET p == Loop(n, s, i, r, c, k)!Surface(j)
             IN  p \in BuiltPipes /\ Profiles[made[pipe[p]].profile].surface = p
  <2> DEFINE p == Loop(n, s, i, r, c, k)!Surface(j)
  <2>1. p \in BothPipes /\ Wanted(p)
    BY <1>2 DEF Loop!Surface, BothPipes, Wanted, Shapes
  <2> HIDE DEF p
  <2>2. p \in BuiltPipes
    BY <2>1 DEF BuiltInv, BuiltPipes, Prepared
  <2>3. made[pipe[p]].profile = ProfileOf(p)
    BY <2>2 DEF BuiltInv, BuiltPipes, Exits
  <2>4. Profiles[ProfileOf(p)].surface = p
    <3>1. CASE cfg.profile = ""
      <4>1. Profiles[DefaultProfile[p]] = [surface |-> p, palette |-> TRUE, segment |-> TRUE, outer |-> TRUE]
        BY <2>1, DefaultsAssumption DEF BothPipes
      <4>2. ProfileOf(p) = DefaultProfile[p]
        BY <3>1 DEF ProfileOf
      <4> QED BY <4>1, <4>2
    <3>2. CASE cfg.profile # ""
      <4>1. \/ Profiles[cfg.profile].surface = "msg" /\ cfg.shape = "message"
            \/ Profiles[cfg.profile].surface = "stream" /\ cfg.shape \in {"stream", "stream_one_shot"}
        BY <1>1, <3>2, Zenon DEF Configured
      <4> QED BY <2>1, <3>2, <4>1 DEF ProfileOf, Wanted, BothPipes
    <3> QED BY <3>1, <3>2
  <2> QED BY <2>2, <2>3, <2>4 DEF p
<1>6. {cfg.iterations, cfg.rekey, cfg.cycle} \subseteq Nat /\ cfg.workers > 0
  BY <1>2, <1>3
<1> QED BY <1>2, <1>4, <1>5, <1>6 DEF HandsOver

\* For every configuration that is accepted and every order in which pipelines
\* are built: where the workers start, the loop is in its initial state under its
\* assumptions, and any surface an iteration chooses has a pipe that was built
\* for a profile with that surface.
THEOREM LoopIsHandedOver == Spec => []HandsOver
<1>1. BuiltInv /\ PipesInv /\ ConfigInv => HandsOver
  BY EverythingIsThere
<1> QED BY BuiltInit, BuiltStep, PipesInit, PipesStep, ConfigInit, ConfigStep, <1>1, PTL DEF Spec

-----------------------------------------------------------------------------
(* Queries: what is built is read back.                                    *)

\* The tokens over a set of symbols, and the token of a symbol.
Tokens(Symbols) == [esc : BOOLEAN, sym : Symbols]
Encoded(b) == [esc |-> ~ UrlSafe(b), sym |-> b]

\* A run over a sequence of tokens exists, whatever the tokens.
LEMMA ReadingExists ==
    ASSUME NEW n \in Nat, NEW tokens, NEW start
    PROVE  \E f : f = [i \in 0 .. n |-> IF i = 0 THEN start ELSE Read(f[i - 1], tokens[i])]
<1> DEFINE Runs(f, k) == f = [i \in 0 .. k |-> IF i = 0 THEN start ELSE Read(f[i - 1], tokens[i])]
           S == {k \in Nat : \E f : Runs(f, k)}
<1>1. 0 \in S
  <2>1. Runs([i \in 0 .. 0 |-> start], 0)
    OBVIOUS
  <2> QED BY <2>1
<1>2. ASSUME NEW k \in Nat, k \in S PROVE k + 1 \in S
  <2>1. PICK f : Runs(f, k)
    BY <1>2
  <2> DEFINE g == [i \in 0 .. k + 1 |-> IF i = k + 1 THEN Read(f[k], tokens[k + 1]) ELSE f[i]]
  <2>2. \A i \in 0 .. k + 1 : g[i] = IF i = 0 THEN start ELSE Read(g[i - 1], tokens[i])
    <3> SUFFICES ASSUME NEW i \in 0 .. k + 1 PROVE g[i] = IF i = 0 THEN start ELSE Read(g[i - 1], tokens[i])
      OBVIOUS
    <3>1. CASE i = k + 1
      <4>1. g[i - 1] = f[k] /\ i # 0 /\ g[i] = Read(f[k], tokens[i])
        BY <3>1
      <4> QED BY <4>1
    <3>2. CASE i # k + 1
      <4>1. g[i] = f[i] /\ (i # 0 => g[i - 1] = f[i - 1])
        BY <3>2
      <4>2. f[i] = IF i = 0 THEN start ELSE Read(f[i - 1], tokens[i])
        BY <2>1, <3>2
      <4> QED BY <4>1, <4>2
    <3> QED BY <3>1, <3>2
  <2>3. g = [i \in 0 .. k + 1 |-> g[i]]
    OBVIOUS
  <2>4. Runs(g, k + 1)
    <3> HIDE DEF g
    <3> QED BY <2>2, <2>3
  <2> HIDE DEF g, Runs
  <2> QED BY <2>4
<1>3. n \in S
  <2> HIDE DEF S
  <2> QED BY <1>1, <1>2, SetInduction
<1> QED BY <1>3

\* Nothing read yet.
Fresh == [done |-> <<>>, key |-> <<>>, value |-> <<>>, split |-> FALSE]

\* So Reading obeys the equation it is defined by.
LEMMA ReadingStep ==
    ASSUME NEW tokens, Len(tokens) \in Nat
    PROVE  /\ Reading(tokens)[0] = Fresh
           /\ \A n \in 1 .. Len(tokens) : Reading(tokens)[n] = Read(Reading(tokens)[n - 1], tokens[n])
<1>1. \E f : f = [i \in 0 .. Len(tokens) |-> IF i = 0 THEN Fresh ELSE Read(f[i - 1], tokens[i])]
  <2>1. \A start : \E f : f = [i \in 0 .. Len(tokens) |-> IF i = 0 THEN start ELSE Read(f[i - 1], tokens[i])]
    BY ReadingExists
  <2> QED BY <2>1
<1> DEFINE run == CHOOSE f : f = [i \in 0 .. Len(tokens) |-> IF i = 0 THEN Fresh ELSE Read(f[i - 1], tokens[i])]
<1>2. run = [i \in 0 .. Len(tokens) |-> IF i = 0 THEN Fresh ELSE Read(run[i - 1], tokens[i])]
  BY <1>1
<1>3. Reading(tokens) = run
  BY Zenon DEF Reading, Fresh
<1> HIDE DEF run
<1> QED BY <1>2, <1>3

\* The same of the sets.
LEMMA BuiltExists ==
    ASSUME NEW n \in Nat, NEW pairs
    PROVE  \E f : f = [i \in 0 .. n |-> IF i = 0 THEN <<>> ELSE Set(f[i - 1], Spelled(pairs[i][1]), Spelled(pairs[i][2]))]
<1> DEFINE Runs(f, k) == f = [i \in 0 .. k |-> IF i = 0 THEN <<>> ELSE Set(f[i - 1], Spelled(pairs[i][1]), Spelled(pairs[i][2]))]
           S == {k \in Nat : \E f : Runs(f, k)}
<1>1. 0 \in S
  <2>1. Runs([i \in 0 .. 0 |-> <<>>], 0)
    OBVIOUS
  <2> QED BY <2>1
<1>2. ASSUME NEW k \in Nat, k \in S PROVE k + 1 \in S
  <2>1. PICK f : Runs(f, k)
    BY <1>2
  <2> DEFINE g == [i \in 0 .. k + 1 |->
                     IF i = k + 1 THEN Set(f[k], Spelled(pairs[k + 1][1]), Spelled(pairs[k + 1][2])) ELSE f[i]]
  <2>2. \A i \in 0 .. k + 1 : g[i] = IF i = 0 THEN <<>> ELSE Set(g[i - 1], Spelled(pairs[i][1]), Spelled(pairs[i][2]))
    <3> SUFFICES ASSUME NEW i \in 0 .. k + 1
                 PROVE  g[i] = IF i = 0 THEN <<>> ELSE Set(g[i - 1], Spelled(pairs[i][1]), Spelled(pairs[i][2]))
      OBVIOUS
    <3>1. CASE i = k + 1
      <4>1. g[i - 1] = f[k] /\ i # 0 /\ g[i] = Set(f[k], Spelled(pairs[i][1]), Spelled(pairs[i][2]))
        BY <3>1
      <4> QED BY <4>1
    <3>2. CASE i # k + 1
      <4>1. g[i] = f[i] /\ (i # 0 => g[i - 1] = f[i - 1])
        BY <3>2
      <4>2. f[i] = IF i = 0 THEN <<>> ELSE Set(f[i - 1], Spelled(pairs[i][1]), Spelled(pairs[i][2]))
        BY <2>1, <3>2
      <4> QED BY <4>1, <4>2
    <3> QED BY <3>1, <3>2
  <2>3. g = [i \in 0 .. k + 1 |-> g[i]]
    OBVIOUS
  <2>4. Runs(g, k + 1)
    <3> HIDE DEF g
    <3> QED BY <2>2, <2>3
  <2> HIDE DEF g, Runs
  <2> QED BY <2>4
<1>3. n \in S
  <2> HIDE DEF S
  <2> QED BY <1>1, <1>2, SetInduction
<1> QED BY <1>3

\* So does Built.
LEMMA BuiltStepwise ==
    ASSUME NEW pairs, Len(pairs) \in Nat
    PROVE  /\ Built(pairs)[0] = <<>>
           /\ \A n \in 1 .. Len(pairs) :
                Built(pairs)[n] = Set(Built(pairs)[n - 1], Spelled(pairs[n][1]), Spelled(pairs[n][2]))
<1>1. \E f : f = [i \in 0 .. Len(pairs) |-> IF i = 0 THEN <<>> ELSE Set(f[i - 1], Spelled(pairs[i][1]), Spelled(pairs[i][2]))]
  BY BuiltExists
<1> DEFINE run == CHOOSE f : f = [i \in 0 .. Len(pairs) |-> IF i = 0 THEN <<>> ELSE Set(f[i - 1], Spelled(pairs[i][1]), Spelled(pairs[i][2]))]
<1>2. run = [i \in 0 .. Len(pairs) |-> IF i = 0 THEN <<>> ELSE Set(run[i - 1], Spelled(pairs[i][1]), Spelled(pairs[i][2]))]
  BY <1>1
<1>3. Built(pairs) = run
  BY Zenon DEF Built
<1> HIDE DEF run
<1> QED BY <1>2, <1>3

\* Two sequences with an element between them.
LEMMA Joins ==
    ASSUME NEW T, NEW x \in Seq(T), NEW y \in Seq(T), NEW z \in Seq(T), NEW d \in T,
           NEW s, s = Append(x \o y, d) \o z
    PROVE  /\ s \in Seq(T) /\ Len(s) = Len(x) + Len(y) + 1 + Len(z)
           /\ \A i \in 1 .. Len(x) : s[i] = x[i]
           /\ \A i \in 1 .. Len(y) : s[Len(x) + i] = y[i]
           /\ s[Len(x) + Len(y) + 1] = d
           /\ \A i \in 1 .. Len(z) : s[Len(x) + Len(y) + 1 + i] = z[i]
<1>1. Len(x) \in Nat /\ Len(y) \in Nat /\ Len(z) \in Nat
  BY LenProperties
<1> DEFINE a == x \o y
           e == Append(a, d)
           r == e \o z
<1>2. a \in Seq(T) /\ Len(a) = Len(x) + Len(y)
  OBVIOUS
<1>3. \A i \in 1 .. Len(x) : a[i] = x[i]
  BY <1>1, ConcatProperties
<1>4. \A i \in 1 .. Len(y) : a[Len(x) + i] = y[i]
  <2> TAKE i \in 1 .. Len(y)
  <2>1. Len(x) + i \in 1 .. Len(x) + Len(y) /\ ~ (Len(x) + i <= Len(x)) /\ (Len(x) + i) - Len(x) = i
    BY <1>1
  <2> QED BY <1>1, <2>1, ConcatProperties
<1> HIDE DEF a
<1>5. e \in Seq(T) /\ Len(e) = Len(x) + Len(y) + 1
  BY <1>1, <1>2, AppendProperties
<1>6. (\A i \in 1 .. Len(x) + Len(y) : e[i] = a[i]) /\ e[Len(x) + Len(y) + 1] = d
  BY <1>1, <1>2, AppendProperties
<1> HIDE DEF e
<1>7. r \in Seq(T) /\ Len(r) = Len(x) + Len(y) + 1 + Len(z)
  <2>1. r \in Seq(T) /\ Len(r) = Len(e) + Len(z)
    BY <1>5, ConcatProperties
  <2> HIDE DEF r
  <2> QED BY <1>5, <2>1
<1>8. \A i \in 1 .. Len(x) + Len(y) + 1 : r[i] = e[i]
  BY <1>1, <1>5, ConcatProperties
<1>9. \A i \in 1 .. Len(z) : r[Len(x) + Len(y) + 1 + i] = z[i]
  <2> TAKE i \in 1 .. Len(z)
  <2> DEFINE m == Len(e) + i
  <2>1. m \in 1 .. Len(e) + Len(z) /\ ~ (m <= Len(e)) /\ m - Len(e) = i /\ m = Len(x) + Len(y) + 1 + i
    BY <1>1, <1>5
  <2> HIDE DEF m
  <2> QED BY <1>5, <2>1, ConcatProperties
<1> HIDE DEF r
<1>10. \A i \in 1 .. Len(x) : r[i] = x[i]
  BY <1>1, <1>3, <1>6, <1>8
<1>11. \A i \in 1 .. Len(y) : r[Len(x) + i] = y[i]
  <2> TAKE i \in 1 .. Len(y)
  <2>1. Len(x) + i \in 1 .. Len(x) + Len(y) /\ Len(x) + i \in 1 .. Len(x) + Len(y) + 1
    BY <1>1
  <2> QED BY <1>4, <1>6, <1>8, <2>1
<1>12. r[Len(x) + Len(y) + 1] = d
  <2>1. Len(x) + Len(y) + 1 \in 1 .. Len(x) + Len(y) + 1
    BY <1>1
  <2> QED BY <1>6, <1>8, <2>1
<1>13. s = r
  BY DEF r, e, a
<1> QED BY <1>7, <1>9, <1>10, <1>11, <1>12, <1>13

\* Where the key of the next pair begins.
Behind(q) == IF q = <<>> THEN 0 ELSE Len(q) + 1

\* The encoded text stands behind a place.
StandsAt(tokens, place, text) == \A i \in 1 .. Len(text) : tokens[place + i] = Encoded(text[i])

\* A query with one more pair.
Extended(r, q, k, v) ==
    /\ Len(r) = Behind(q) + Len(k) + 1 + Len(v)
    /\ \A i \in 1 .. Len(q) : r[i] = q[i]
    /\ q # <<>> => r[Behind(q)] = Plain("&")
    /\ StandsAt(r, Behind(q), k)
    /\ r[Behind(q) + Len(k) + 1] = Plain("=")
    /\ StandsAt(r, Behind(q) + Len(k) + 1, v)

\* What a set puts where.
LEMMA SetExtends ==
    ASSUME NEW Sym, Reserved \subseteq Sym, NEW q \in Seq(Tokens(Sym)), NEW k \in Seq(Sym), NEW v \in Seq(Sym)
    PROVE  Set(q, k, v) \in Seq(Tokens(Sym)) /\ Extended(Set(q, k, v), q, k, v)
<1> DEFINE b == Behind(q)
<1>0. b = IF q = <<>> THEN 0 ELSE Len(q) + 1
  BY DEF Behind
<1> HIDE DEF b
<1> DEFINE T == Tokens(Sym)
           joined == IF q = <<>> THEN q ELSE Append(q, Plain("&"))
           ek == [i \in 1 .. Len(k) |-> Encoded(k[i])]
           ev == [i \in 1 .. Len(v) |-> Encoded(v[i])]
<1>1. Plain("&") \in T /\ Plain("=") \in T
  BY DEF Tokens, Plain, Reserved
<1>2. \A c \in Sym : Encoded(c) \in T
  BY DEF Tokens, Encoded, UrlSafe
<1>3. Len(k) \in Nat /\ Len(v) \in Nat /\ Len(q) \in Nat
  BY LenProperties
<1>4. ek \in Seq(T) /\ Len(ek) = Len(k) /\ ev \in Seq(T) /\ Len(ev) = Len(v)
  <2>1. \A i \in 1 .. Len(k) : Encoded(k[i]) \in T
    BY <1>2, ElementOfSeq
  <2>2. \A i \in 1 .. Len(v) : Encoded(v[i]) \in T
    BY <1>2, ElementOfSeq
  <2> HIDE DEF T
  <2>3. ek \in Seq(T) /\ ev \in Seq(T)
    BY <1>3, <2>1, <2>2, IsASeq
  <2> QED BY <1>3, <2>3
<1> HIDE DEF T
<1>5. joined \in Seq(T) /\ Len(joined) = b /\ (\A i \in 1 .. Len(q) : joined[i] = q[i]) /\ (q # <<>> => joined[b] = Plain("&"))
  <2>1. CASE q = <<>>
    BY <1>0, <2>1 DEF T
  <2>2. CASE q # <<>>
    <3>1. q \in Seq(T)
      BY DEF T
    <3> QED BY <1>0, <1>1, <1>3, <2>2, <3>1, AppendProperties
  <2> QED BY <2>1, <2>2
<1> DEFINE r == Append(joined \o ek, Plain("=")) \o ev
<1>6. Set(q, k, v) = r
  BY DEF Set, EncodeInto, Encoded
<1> HIDE DEF joined, ek, ev
<1>7. b \in Nat /\ (q # <<>> => b \in 1 .. b /\ Len(q) = b - 1)
  BY <1>0, <1>3
<1>10. /\ r \in Seq(T) /\ Len(r) = b + Len(k) + 1 + Len(v)
       /\ \A i \in 1 .. b : r[i] = joined[i]
       /\ \A i \in 1 .. Len(k) : r[b + i] = ek[i]
       /\ r[b + Len(k) + 1] = Plain("=")
       /\ \A i \in 1 .. Len(v) : r[b + Len(k) + 1 + i] = ev[i]
  <2>1. joined \in Seq(T) /\ ek \in Seq(T) /\ ev \in Seq(T) /\ Plain("=") \in T
    BY <1>1, <1>4, <1>5
  <2>2. /\ r \in Seq(T) /\ Len(r) = Len(joined) + Len(ek) + 1 + Len(ev)
        /\ \A i \in 1 .. Len(joined) : r[i] = joined[i]
        /\ \A i \in 1 .. Len(ek) : r[Len(joined) + i] = ek[i]
        /\ r[Len(joined) + Len(ek) + 1] = Plain("=")
        /\ \A i \in 1 .. Len(ev) : r[Len(joined) + Len(ek) + 1 + i] = ev[i]
    <3> DEFINE d == Plain("=")
    <3>1. d \in T /\ r = Append(joined \o ek, d) \o ev
      BY <2>1
    <3> HIDE DEF r
    <3>2. /\ r \in Seq(T) /\ Len(r) = Len(joined) + Len(ek) + 1 + Len(ev)
          /\ \A i \in 1 .. Len(joined) : r[i] = joined[i]
          /\ \A i \in 1 .. Len(ek) : r[Len(joined) + i] = ek[i]
          /\ r[Len(joined) + Len(ek) + 1] = d
          /\ \A i \in 1 .. Len(ev) : r[Len(joined) + Len(ek) + 1 + i] = ev[i]
      <4> HIDE DEF d
      <4> QED BY <2>1, <3>1, Joins
    <3> QED BY <3>2
  <2>3. Len(joined) = b /\ Len(ek) = Len(k) /\ Len(ev) = Len(v)
    BY <1>4, <1>5
  <2> HIDE DEF r
  <2> QED BY <2>2, <2>3, Zenon
<1> HIDE DEF r
<1>11. /\ \A i \in 1 .. Len(k) : ek[i] = Encoded(k[i])
       /\ \A i \in 1 .. Len(v) : ev[i] = Encoded(v[i])
  BY DEF ek, ev
<1>12. \A i \in 1 .. Len(q) : r[i] = q[i]
  BY <1>0, <1>3, <1>5, <1>7, <1>10
<1>13. q # <<>> => r[b] = Plain("&")
  BY <1>5, <1>7, <1>10
<1>14. StandsAt(r, b, k) /\ StandsAt(r, b + Len(k) + 1, v)
  BY <1>10, <1>11 DEF StandsAt
<1>15. Extended(r, q, k, v)
  BY <1>10, <1>12, <1>13, <1>14 DEF Extended, b
<1> QED BY <1>6, <1>10, <1>15 DEF T

\* A reader's state before and after the first '=' of a pair.
InKey(done, key, value) == [done |-> done, key |-> key, value |-> value, split |-> FALSE]
InValue(done, key, value) == [done |-> done, key |-> key, value |-> value, split |-> TRUE]

\* An encoded symbol is no separator: it goes to the key or to the value.
LEMMA ReadSymbol ==
    ASSUME NEW c, NEW D, NEW K, NEW V
    PROVE  /\ Read(InKey(D, K, V), Encoded(c)) = InKey(D, Append(K, c), V)
           /\ Read(InValue(D, K, V), Encoded(c)) = InValue(D, K, Append(V, c))
<1> DEFINE t == Encoded(c)
<1>1. t.sym = c /\ (t.esc <=> ~ UrlSafe(c))
  BY DEF Encoded
<1>2. ASSUME NEW d \in Reserved PROVE t # Plain(d)
  <2>1. Plain(d).sym = d /\ ~ Plain(d).esc
    BY DEF Plain
  <2>2. c = d => t.esc
    BY <1>1, <1>2 DEF UrlSafe
  <2> HIDE DEF t
  <2> QED BY <1>1, <2>1, <2>2
<1>3. t # Plain("&") /\ t # Plain("=") /\ t # Plain("+")
  BY <1>2 DEF Reserved
<1>4. Unescaped(t) = c
  BY <1>1, <1>3 DEF Unescaped
<1> HIDE DEF t
<1>5. Read(InKey(D, K, V), t) = InKey(D, Append(K, c), V)
  BY <1>3, <1>4 DEF Read, InKey, InValue
<1>6. Read(InValue(D, K, V), t) = InValue(D, K, Append(V, c))
  BY <1>3, <1>4 DEF Read, InKey, InValue
<1> QED BY <1>5, <1>6 DEF t

\* The separators that were set are read as separators.
LEMMA ReadSeparators ==
    ASSUME NEW D, NEW K, NEW V
    PROVE  /\ Read(InKey(D, K, V), Plain("=")) = InValue(D, K, V)
           /\ Read(InValue(D, K, V), Plain("&")) = InKey(Append(D, <<K, V>>), <<>>, <<>>)
<1>1. Plain("=") # Plain("&")
  BY DEF Plain
<1>2. Read(InKey(D, K, V), Plain("=")) = InValue(D, K, V)
  BY <1>1 DEF Read, InKey, InValue
<1>3. Read(InValue(D, K, V), Plain("&")) = InKey(Append(D, <<K, V>>), <<>>, <<>>)
  BY DEF Read, InKey, InValue
<1> QED BY <1>2, <1>3

\* A reader's states over so many tokens.
Runs(f, tokens, last) == \A n \in 1 .. last : f[n] = Read(f[n - 1], tokens[n])

\* A text is read as it was encoded.
LEMMA ReadsText ==
    ASSUME NEW Sym, NEW text \in Seq(Sym), NEW tokens, NEW f, NEW last \in Nat, NEW m \in Nat, m + Len(text) <= last,
           Runs(f, tokens, last), StandsAt(tokens, m, text)
    PROVE  /\ \A D, V : f[m] = InKey(D, <<>>, V) => f[m + Len(text)] = InKey(D, text, V)
           /\ \A D, K : f[m] = InValue(D, K, <<>>) => f[m + Len(text)] = InValue(D, K, text)
<1> SUFFICES ASSUME NEW D, NEW K, NEW V
             PROVE  /\ f[m] = InKey(D, <<>>, V) => f[m + Len(text)] = InKey(D, text, V)
                    /\ f[m] = InValue(D, K, <<>>) => f[m + Len(text)] = InValue(D, K, text)
  OBVIOUS
<1>0. Len(text) \in Nat
  BY LenProperties
<1> DEFINE Upto(k) == SubSeq(text, 1, k)
           Good(k) == /\ f[m] = InKey(D, <<>>, V) => f[m + k] = InKey(D, Upto(k), V)
                      /\ f[m] = InValue(D, K, <<>>) => f[m + k] = InValue(D, K, Upto(k))
           S == {k \in Nat : k <= Len(text) => Good(k)}
<1>1. 0 \in S
  <2>1. Upto(0) = <<>> /\ m + 0 = m
    BY SubSeqEmpty
  <2> HIDE DEF Upto
  <2> QED BY <2>1
<1>2. ASSUME NEW k \in Nat, Good(k), k + 1 <= Len(text) PROVE Good(k + 1)
  <2>2. Upto(k + 1) = Append(Upto(k), text[k + 1])
    <3>1. 1 \in 1 .. Len(text) /\ k + 1 \in 1 .. Len(text) /\ (k + 1) - 1 = k
      BY <1>0, <1>2
    <3>2. SubSeq(text, 1, k + 1) = SubSeq(text, 1, k) \o << text[k + 1] >>
      BY <3>1, SubSeqRecursiveSecond
    <3>3. SubSeq(text, 1, k) \in Seq(Sym) /\ text[k + 1] \in Sym
      BY <1>0, <3>1, ElementOfSeq, SubSeqProperties
    <3> QED BY <3>2, <3>3, AppendIsConcat
  <2>3. m + (k + 1) \in 1 .. last /\ (m + (k + 1)) - 1 = m + k /\ k + 1 \in 1 .. Len(text)
    BY <1>0, <1>2
  <2>4. f[m + (k + 1)] = Read(f[m + k], Encoded(text[k + 1]))
    BY <2>3 DEF Runs, StandsAt
  <2> HIDE DEF Upto
  <2>5. ASSUME f[m] = InKey(D, <<>>, V) PROVE f[m + (k + 1)] = InKey(D, Upto(k + 1), V)
    <3>1. f[m + k] = InKey(D, Upto(k), V)
      BY <1>2, <2>5
    <3>2. Read(InKey(D, Upto(k), V), Encoded(text[k + 1])) = InKey(D, Append(Upto(k), text[k + 1]), V)
      BY ReadSymbol
    <3> QED BY <2>2, <2>4, <3>1, <3>2, Zenon
  <2>6. ASSUME f[m] = InValue(D, K, <<>>) PROVE f[m + (k + 1)] = InValue(D, K, Upto(k + 1))
    <3>1. f[m + k] = InValue(D, K, Upto(k))
      BY <1>2, <2>6
    <3>2. Read(InValue(D, K, Upto(k)), Encoded(text[k + 1])) = InValue(D, K, Append(Upto(k), text[k + 1]))
      BY ReadSymbol
    <3> QED BY <2>2, <2>4, <3>1, <3>2, Zenon
  <2> QED BY <2>5, <2>6
<1>3. \A k \in Nat : k \in S => k + 1 \in S
  <2> HIDE DEF Good
  <2> QED BY <1>0, <1>2
<1>4. Good(Len(text))
  <2>1. Len(text) \in S
    <3> HIDE DEF S
    <3> QED BY <1>0, <1>1, <1>3, SetInduction
  <2> HIDE DEF Good
  <2> QED BY <1>0, <2>1
<1>5. Upto(Len(text)) = text
  BY SubSeqFull
<1> HIDE DEF Upto
<1> QED BY <1>4, <1>5

\* A pair is read to its end.
LEMMA ReadsPair ==
    ASSUME NEW Sym, NEW k \in Seq(Sym), NEW v \in Seq(Sym), NEW tokens, NEW f, NEW last \in Nat, NEW b \in Nat,
           b + Len(k) + 1 + Len(v) <= last, Runs(f, tokens, last),
           StandsAt(tokens, b, k), tokens[b + Len(k) + 1] = Plain("="), StandsAt(tokens, b + Len(k) + 1, v),
           NEW D, f[b] = InKey(D, <<>>, <<>>),
           NEW e, e = b + Len(k) + 1 + Len(v)
    PROVE  f[e] = InValue(D, k, v)
<1>1. Len(k) \in Nat /\ Len(v) \in Nat
  BY LenProperties
<1>2. f[b + Len(k)] = InKey(D, k, <<>>)
  <2>1. b + Len(k) <= last
    BY <1>1
  <2> QED BY <2>1, ReadsText
<1> DEFINE m == b + Len(k) + 1
<1>3. m \in 1 .. last /\ m - 1 = b + Len(k) /\ m \in Nat /\ m + Len(v) <= last
  BY <1>1
<1>4. f[m] = InValue(D, k, <<>>)
  <2>1. f[m] = Read(f[m - 1], tokens[m])
    BY <1>3 DEF Runs
  <2>2. tokens[m] = Plain("=")
    OBVIOUS
  <2> HIDE DEF m
  <2>3. Read(InKey(D, k, <<>>), Plain("=")) = InValue(D, k, <<>>)
    BY ReadSeparators
  <2> QED BY <1>2, <1>3, <2>1, <2>2, <2>3
<1>5. StandsAt(tokens, m, v)
  OBVIOUS
<1> HIDE DEF m
<1>6. f[m + Len(v)] = InValue(D, k, v)
  BY <1>3, <1>4, <1>5, ReadsText
<1> QED BY <1>6 DEF m

\* Pairs as they are spelled, in symbols of a set.
Spellings(pairs) == [i \in 1 .. Len(pairs) |-> <<Spelled(pairs[i][1]), Spelled(pairs[i][2])>>]
SpelledIn(pairs, Sym) ==
    \A i \in 1 .. Len(pairs) : Spelled(pairs[i][1]) \in Seq(Sym) /\ Spelled(pairs[i][2]) \in Seq(Sym)

\* Every text comes back as it was set, whatever its symbols.
LEMMA ReadsWhatWasBuilt ==
    ASSUME NEW Sym, Reserved \subseteq Sym, NEW pairs, Len(pairs) \in Nat \ {0}, SpelledIn(pairs, Sym)
    PROVE  Decoded(QueryOf(pairs)) = Spellings(pairs)
<1>0. PICK N \in Nat \ {0} : N = Len(pairs)
  OBVIOUS
<1> DEFINE T == Tokens(Sym)
           K == [i \in 1 .. N |-> Spelled(pairs[i][1])]
           V == [i \in 1 .. N |-> Spelled(pairs[i][2])]
           g == Built(pairs)
           b(n) == Behind(g[n - 1])
<1>1. g[0] = <<>> /\ \A n \in 1 .. N : g[n] = Set(g[n - 1], K[n], V[n])
  BY <1>0, BuiltStepwise
<1>2. \A n \in 1 .. N : K[n] \in Seq(Sym) /\ V[n] \in Seq(Sym) /\ Len(K[n]) \in Nat /\ Len(V[n]) \in Nat
  <2>1. \A n \in 1 .. N : K[n] \in Seq(Sym) /\ V[n] \in Seq(Sym)
    BY <1>0 DEF SpelledIn
  <2> HIDE DEF K, V
  <2> QED BY <2>1, LenProperties
<1>3. Spellings(pairs) = [i \in 1 .. N |-> <<K[i], V[i]>>]
  <2>1. Spellings(pairs) = [i \in 1 .. N |-> <<Spelled(pairs[i][1]), Spelled(pairs[i][2])>>]
    BY <1>0 DEF Spellings
  <2> QED BY <2>1
<1> HIDE DEF K, V, g, T
<1>4. ASSUME NEW n \in 1 .. N, g[n - 1] \in Seq(T)
      PROVE  g[n] \in Seq(T) /\ Extended(g[n], g[n - 1], K[n], V[n])
  <2>1. g[n - 1] \in Seq(Tokens(Sym))
    BY <1>4 DEF T
  <2>2. g[n] = Set(g[n - 1], K[n], V[n])
    BY <1>1
  <2> QED BY <1>2, <2>1, <2>2, SetExtends DEF T
<1>5. \A n \in 0 .. N : g[n] \in Seq(T)
  <2> DEFINE S == {n \in Nat : n <= N => g[n] \in Seq(T)}
  <2>1. 0 \in S
    <3>1. <<>> \in Seq(T)
      OBVIOUS
    <3> QED BY <1>1, <3>1
  <2>2. ASSUME NEW n \in Nat, n \in S PROVE n + 1 \in S
    <3> SUFFICES ASSUME n + 1 <= N PROVE g[n + 1] \in Seq(T)
      OBVIOUS
    <3>1. n + 1 \in 1 .. N /\ (n + 1) - 1 = n /\ g[n] \in Seq(T)
      BY <2>2
    <3> HIDE DEF b
    <3> QED BY <1>4, <3>1
  <2>3. Nat \subseteq S
    <3> HIDE DEF S
    <3> QED BY <2>1, <2>2, SetInduction
  <2> QED BY <2>3
<1>6. \A n \in 0 .. N : Len(g[n]) \in Nat
  BY <1>5, LenProperties
<1>7. \A n \in 1 .. N : b(n) \in Nat /\ Len(g[n - 1]) <= Len(g[n]) /\ g[n] # <<>> /\ b(n) <= Len(g[n])
                        /\ \A i \in 1 .. Len(g[n - 1]) : g[n][i] = g[n - 1][i]
  <2> TAKE n \in 1 .. N
  <2>1. n - 1 \in 0 .. N /\ n \in 0 .. N
    OBVIOUS
  <2>2. Len(g[n]) = b(n) + Len(K[n]) + 1 + Len(V[n]) /\ g[n - 1] \in Seq(T)
        /\ \A i \in 1 .. Len(g[n - 1]) : g[n][i] = g[n - 1][i]
    BY <1>4, <1>5, <2>1 DEF Extended
  <2>3. Len(<<>>) = 0
    OBVIOUS
  <2>4. b(n) \in Nat /\ Len(g[n - 1]) <= b(n)
    BY <1>6, <2>1, <2>3 DEF Behind
  <2> HIDE DEF b
  <2>5. Len(g[n]) > 0 /\ Len(g[n - 1]) <= Len(g[n]) /\ b(n) <= Len(g[n])
    <3>1. Len(K[n]) \in Nat /\ Len(V[n]) \in Nat /\ Len(g[n - 1]) \in Nat /\ Len(g[n]) = b(n) + Len(K[n]) + 1 + Len(V[n])
      BY <1>2, <1>6, <2>1, <2>2
    <3> DEFINE c == b(n)
               lk == Len(K[n])
               lv == Len(V[n])
               lp == Len(g[n - 1])
               lg == Len(g[n])
    <3>2. c \in Nat /\ lp <= c /\ lk \in Nat /\ lv \in Nat /\ lp \in Nat /\ lg = c + lk + 1 + lv
      BY <2>4, <3>1
    <3>3. lg > 0 /\ lp <= lg /\ c <= lg
      <4> HIDE DEF c, lk, lv, lp, lg
      <4> QED BY <3>2
    <3> QED BY <3>3
  <2>6. g[n] # <<>>
    BY <2>3, <2>5
  <2> QED BY <2>2, <2>4, <2>5, <2>6
<1> DEFINE q == QueryOf(pairs)
<1>8. q = g[N]
  BY <1>0 DEF QueryOf, g
<1> HIDE DEF q, b
<1>9. \A n \in 0 .. N : Len(g[n]) <= Len(q) /\ \A i \in 1 .. Len(g[n]) : q[i] = g[n][i]
  <2> DEFINE P(n) == Len(g[n]) <= Len(q) /\ \A i \in 1 .. Len(g[n]) : q[i] = g[n][i]
             S == {d \in Nat : d <= N => P(N - d)}
  <2>1. 0 \in S
    BY <1>6, <1>8
  <2>2. ASSUME NEW d \in Nat, d + 1 <= N, P(N - d) PROVE P(N - (d + 1))
    <3> DEFINE n == N - d
    <3>1. n \in 1 .. N /\ n - 1 = N - (d + 1) /\ n - 1 \in 0 .. N /\ n \in 0 .. N /\ N \in 0 .. N
      BY <2>2
    <3> HIDE DEF n
    <3>2. Len(g[n]) <= Len(q) /\ \A i \in 1 .. Len(g[n]) : q[i] = g[n][i]
      BY <2>2 DEF n
    <3>3. Len(g[n - 1]) <= Len(g[n]) /\ \A i \in 1 .. Len(g[n - 1]) : g[n][i] = g[n - 1][i]
      BY <1>7, <3>1
    <3>4. Len(g[n]) \in Nat /\ Len(g[n - 1]) \in Nat /\ Len(q) \in Nat
      BY <1>6, <1>8, <3>1
    <3>5. P(n - 1)
      BY <3>2, <3>3, <3>4
    <3> QED BY <3>1, <3>5
  <2>3. \A d \in Nat : d \in S => d + 1 \in S
    <3> HIDE DEF P
    <3> QED BY <2>2
  <2>4. Nat \subseteq S
    <3> HIDE DEF S
    <3> QED BY <2>1, <2>3, SetInduction
  <2>5. ASSUME NEW n \in 0 .. N PROVE P(n)
    <3>1. N - n \in Nat /\ N - n <= N /\ N - (N - n) = n
      OBVIOUS
    <3>2. P(N - (N - n))
      <4> HIDE DEF P
      <4> QED BY <2>4, <3>1
    <3> HIDE DEF P
    <3> QED BY <3>1, <3>2
  <2> QED BY <2>5
<1> DEFINE f == Reading(q)
<1>10. Len(q) \in Nat /\ f[0] = InKey(<<>>, <<>>, <<>>) /\ \A n \in 1 .. Len(q) : f[n] = Read(f[n - 1], q[n])
  <2>1. Len(q) \in Nat
    BY <1>6, <1>8
  <2> QED BY <2>1, ReadingStep DEF Fresh, InKey
<1> HIDE DEF f
<1> DEFINE D(n) == [i \in 1 .. n |-> <<K[i], V[i]>>]
           State(n) == f[Len(g[n])] = InValue(D(n - 1), K[n], V[n])
<1>11. ASSUME NEW n \in 1 .. N, NEW E, f[b(n)] = InKey(E, <<>>, <<>>) PROVE f[Len(g[n])] = InValue(E, K[n], V[n])
  <2>1. n - 1 \in 0 .. N /\ n \in 0 .. N
    OBVIOUS
  <2>2. /\ Len(g[n]) = b(n) + Len(K[n]) + 1 + Len(V[n])
        /\ \A i \in 1 .. Len(K[n]) : g[n][b(n) + i] = Encoded(K[n][i])
        /\ g[n][b(n) + Len(K[n]) + 1] = Plain("=")
        /\ \A i \in 1 .. Len(V[n]) : g[n][b(n) + Len(K[n]) + 1 + i] = Encoded(V[n][i])
    BY <1>4, <1>5, <2>1 DEF Extended, StandsAt, b
  <2>3. b(n) \in Nat /\ Len(K[n]) \in Nat /\ Len(V[n]) \in Nat
    BY <1>2, <1>7
  <2>4. Len(g[n]) <= Len(q) /\ \A i \in 1 .. Len(g[n]) : q[i] = g[n][i]
    BY <1>9, <2>1
  <2> DEFINE lk == Len(K[n])
             lv == Len(V[n])
             lg == Len(g[n])
             c == b(n)
  <2>11. c \in Nat /\ lk \in Nat /\ lv \in Nat /\ lg = c + lk + 1 + lv
    BY <2>2, <2>3
  <2>12. /\ \A i \in 1 .. lk : c + i \in 1 .. lg
         /\ c + lk + 1 \in 1 .. lg
         /\ \A i \in 1 .. lv : c + lk + 1 + i \in 1 .. lg
    <3> HIDE DEF lk, lv, lg, c
    <3> QED BY <2>11
  <2>5. StandsAt(q, b(n), K[n])
    <3> SUFFICES \A i \in 1 .. Len(K[n]) : q[b(n) + i] = Encoded(K[n][i])
      BY DEF StandsAt
    <3> TAKE i \in 1 .. Len(K[n])
    <3>1. b(n) + i \in 1 .. Len(g[n])
      BY <2>12
    <3> QED BY <2>2, <2>4, <3>1
  <2>6. q[b(n) + Len(K[n]) + 1] = Plain("=")
    <3>1. b(n) + Len(K[n]) + 1 \in 1 .. Len(g[n])
      BY <2>12
    <3> QED BY <2>2, <2>4, <3>1
  <2>7. StandsAt(q, b(n) + Len(K[n]) + 1, V[n])
    <3> SUFFICES \A i \in 1 .. Len(V[n]) : q[b(n) + Len(K[n]) + 1 + i] = Encoded(V[n][i])
      BY DEF StandsAt
    <3> TAKE i \in 1 .. Len(V[n])
    <3>1. b(n) + Len(K[n]) + 1 + i \in 1 .. Len(g[n])
      BY <2>12
    <3> QED BY <2>2, <2>4, <3>1
  <2>8. b(n) + Len(K[n]) + 1 + Len(V[n]) <= Len(q)
    BY <2>2, <2>4
  <2>9. K[n] \in Seq(Sym) /\ V[n] \in Seq(Sym)
    BY <1>2
  <2>10. f[Len(g[n])] = InValue(E, K[n], V[n])
    <3>1. Runs(f, q, Len(q))
      BY <1>10 DEF Runs
    <3> DEFINE k == K[n]
               v == V[n]
               e == Len(g[n])
    <3>2. /\ k \in Seq(Sym) /\ v \in Seq(Sym) /\ c \in Nat /\ Len(q) \in Nat /\ c + Len(k) + 1 + Len(v) <= Len(q)
          /\ StandsAt(q, c, k) /\ q[c + Len(k) + 1] = Plain("=") /\ StandsAt(q, c + Len(k) + 1, v)
          /\ f[c] = InKey(E, <<>>, <<>>) /\ e = c + Len(k) + 1 + Len(v)
      BY <1>10, <1>11, <2>2, <2>3, <2>5, <2>6, <2>7, <2>8, <2>9
    <3>3. f[e] = InValue(E, k, v)
      <4> HIDE DEF c, k, v, e
      <4> QED BY <3>1, <3>2, ReadsPair
    <3> QED BY <3>3
  <2> QED BY <2>10
<1>12. State(1)
  <2>1. 1 \in 1 .. N /\ 1 - 1 = 0
    OBVIOUS
  <2>2. b(1) = 0
    BY <1>1, <2>1 DEF b, Behind
  <2>3. f[b(1)] = InKey(<<>>, <<>>, <<>>)
    BY <1>10, <2>2
  <2>4. D(0) = <<>>
    OBVIOUS
  <2> HIDE DEF D
  <2> QED BY <1>11, <2>1, <2>3, <2>4
<1>13. \A n \in 1 .. N : Append(D(n - 1), <<K[n], V[n]>>) = D(n)
  <2> TAKE n \in 1 .. N
  <2> DEFINE R == {<<K[i], V[i]>> : i \in 1 .. N}
             P == [i \in 1 .. N |-> <<K[i], V[i]>>]
  <2>0. \A i \in 1 .. N : P[i] \in R
    OBVIOUS
  <2>1. D(n - 1) = [i \in 1 .. n - 1 |-> P[i]] /\ D(n) = [i \in 1 .. n |-> P[i]] /\ <<K[n], V[n]>> = P[n]
    OBVIOUS
  <2> HIDE DEF D, P, R
  <2>2. Append([i \in 1 .. n - 1 |-> P[i]], P[n]) = [i \in 1 .. n |-> P[i]]
    BY <2>0
  <2> QED BY <2>1, <2>2
<1> HIDE DEF D
<1>14. ASSUME NEW n \in 1 .. N - 1, State(n) PROVE State(n + 1)
  <2>1. n + 1 \in 1 .. N /\ (n + 1) - 1 = n /\ n \in 1 .. N /\ n \in 0 .. N /\ n + 1 \in 0 .. N
    OBVIOUS
  <2>2. g[n] # <<>> /\ b(n + 1) = Len(g[n]) + 1
    BY <1>7, <2>1 DEF b, Behind
  <2>3. g[n + 1][b(n + 1)] = Plain("&")
    BY <1>4, <1>5, <2>1, <2>2 DEF Extended, b
  <2>4. b(n + 1) \in 1 .. Len(g[n + 1]) /\ Len(g[n + 1]) <= Len(q) /\ q[b(n + 1)] = Plain("&")
    <3>1. b(n + 1) \in 1 .. Len(g[n + 1])
      <4>1. b(n + 1) \in Nat /\ b(n + 1) <= Len(g[n + 1]) /\ Len(g[n]) \in Nat /\ Len(g[n + 1]) \in Nat
        BY <1>6, <1>7, <2>1
      <4> QED BY <2>2, <4>1
    <3> QED BY <1>9, <2>1, <2>3, <3>1
  <2>5. f[b(n + 1)] = Read(f[Len(g[n])], q[b(n + 1)])
    <3>1. b(n + 1) \in 1 .. Len(q) /\ b(n + 1) - 1 = Len(g[n])
      <4>1. Len(g[n]) \in Nat /\ Len(g[n + 1]) \in Nat /\ Len(q) \in Nat /\ Len(g[n + 1]) <= Len(q)
        BY <1>6, <1>10, <2>1, <2>4
      <4> DEFINE c == b(n + 1)
                 lg == Len(g[n])
                 lq == Len(q)
      <4>2. c = lg + 1 /\ lg \in Nat /\ lq \in Nat /\ c <= lq
        BY <2>2, <2>4, <4>1
      <4>3. c \in 1 .. lq /\ c - 1 = lg
        <5> HIDE DEF c, lg, lq
        <5> QED BY <4>2
      <4> QED BY <4>3
    <3> QED BY <1>10, <3>1
  <2>6. Read(InValue(D(n - 1), K[n], V[n]), Plain("&")) = InKey(Append(D(n - 1), <<K[n], V[n]>>), <<>>, <<>>)
    BY ReadSeparators
  <2>7. f[b(n + 1)] = InKey(D(n), <<>>, <<>>)
    BY <1>13, <1>14, <2>1, <2>4, <2>5, <2>6
  <2> QED BY <1>11, <2>1, <2>7
<1>15. State(N)
  <2> DEFINE S == {n \in Nat : n + 1 <= N => State(n + 1)}
  <2> HIDE DEF State
  <2>1. 0 \in S
    BY <1>12
  <2>2. \A n \in Nat : n \in S => n + 1 \in S
    BY <1>14
  <2>3. N - 1 \in S
    <3> HIDE DEF S
    <3>1. N - 1 \in Nat
      OBVIOUS
    <3> QED BY <2>1, <2>2, <3>1, SetInduction
  <2> QED BY <2>3
<1>16. q # <<>>
  BY <1>7, <1>8
<1>17. Decoded(q) = Append(f[Len(q)].done, <<f[Len(q)].key, f[Len(q)].value>>)
  BY <1>16 DEF Decoded, f
<1>18. f[Len(q)].done = D(N - 1) /\ f[Len(q)].key = K[N] /\ f[Len(q)].value = V[N]
  BY <1>8, <1>15 DEF InValue
<1>19. Decoded(q) = D(N)
  BY <1>13, <1>17, <1>18
<1> QED BY <1>3, <1>19 DEF D, q

-----------------------------------------------------------------------------
(* The overrides of a pipeline.                                            *)

\* The pairs an override can be, and the symbols their texts are spelled in.
LayerPairs ==
    {<<"parallaxPalette", FillCipher>>, <<"parallaxSegmentSize", "4093">>, <<"outerCipher", FillCipher>>}
Pairs == {Overrides[i] : i \in 1 .. 11} \cup LayerPairs
Symbols == STRING \cup Reserved \cup {p[1] : p \in Pairs} \cup {p[2] : p \in Pairs}

\* A text is spelled in symbols, the empty one too.
LEMMA SpelledInSymbols ==
    ASSUME NEW t \in Symbols
    PROVE  Spelled(t) \in Seq(Symbols)
<1>1. CASE t = ""
  <2>1. <<>> \in Seq(Symbols)
    OBVIOUS
  <2> QED BY <1>1, <2>1 DEF Spelled
<1>2. CASE t # "" /\ t \in DOMAIN Spelling
  <2>1. Spelling[t] \in Seq(STRING)
    BY <1>2, SpellingAssumption
  <2>2. STRING \subseteq Symbols
    BY DEF Symbols
  <2> DEFINE x == Spelling[t]
  <2>3. Len(x) \in Nat /\ x = [i \in 1 .. Len(x) |-> x[i]] /\ \A i \in 1 .. Len(x) : x[i] \in STRING
    BY <2>1, LenProperties, ElementOfSeq
  <2>4. \A i \in 1 .. Len(x) : x[i] \in Symbols
    BY <2>2, <2>3
  <2>5. x \in Seq(Symbols)
    <3> HIDE DEF Symbols, x
    <3>1. [i \in 1 .. Len(x) |-> x[i]] \in Seq(Symbols)
      BY <2>3, <2>4, IsASeq
    <3> QED BY <2>3, <3>1
  <2> QED BY <1>2, <2>5 DEF Spelled
<1>3. CASE t # "" /\ t \notin DOMAIN Spelling
  <2>1. <<t>> \in Seq(Symbols)
    <3> HIDE DEF Symbols
    <3> QED OBVIOUS
  <2> QED BY <1>3, <2>1 DEF Spelled
<1> QED BY <1>1, <1>2, <1>3

\* The layers that are filled in: which, and that each is among the pairs.
LEMMA LayersFilled ==
    ASSUME NEW record
    PROVE  /\ KeystreamLayers(record) \in Seq(Pairs)
           /\ cfg.parallax /\ ~ record.palette =>
                \E j \in 1 .. Len(KeystreamLayers(record)) : KeystreamLayers(record)[j][1] = "parallaxPalette"
           /\ cfg.parallax /\ ~ record.palette /\ ~ record.segment =>
                \E j \in 1 .. Len(KeystreamLayers(record)) : KeystreamLayers(record)[j][1] = "parallaxSegmentSize"
           /\ cfg.wrapper /\ ~ record.outer =>
                \E j \in 1 .. Len(KeystreamLayers(record)) : KeystreamLayers(record)[j][1] = "outerCipher"
<1> DEFINE a == <<"parallaxPalette", FillCipher>>
           b == <<"parallaxSegmentSize", "4093">>
           c == <<"outerCipher", FillCipher>>
           K == KeystreamLayers(record)
<1>1. a[1] = "parallaxPalette" /\ b[1] = "parallaxSegmentSize" /\ c[1] = "outerCipher"
  OBVIOUS
<1>2. a \in Pairs /\ b \in Pairs /\ c \in Pairs
  BY DEF Pairs, LayerPairs
<1>3. K = (IF cfg.parallax /\ ~ record.palette
           THEN <<a>> \o (IF record.segment THEN <<>> ELSE <<b>>)
           ELSE <<>>)
          \o (IF cfg.wrapper /\ ~ record.outer THEN <<c>> ELSE <<>>)
  BY DEF KeystreamLayers
<1> HIDE DEF a, b, c, K
<1> DEFINE tail == IF record.segment THEN <<>> ELSE <<b>>
           head == IF cfg.parallax /\ ~ record.palette THEN <<a>> \o tail ELSE <<>>
           last == IF cfg.wrapper /\ ~ record.outer THEN <<c>> ELSE <<>>
<1>4. tail \in Seq(Pairs) /\ (~ record.segment => Len(tail) = 1 /\ tail[1] = b)
  BY <1>2
<1> HIDE DEF tail
<1>5. /\ head \in Seq(Pairs)
      /\ cfg.parallax /\ ~ record.palette => 1 \in 1 .. Len(head) /\ head[1] = a
      /\ cfg.parallax /\ ~ record.palette /\ ~ record.segment => 2 \in 1 .. Len(head) /\ head[2] = b
  BY <1>2, <1>4
<1>6. last \in Seq(Pairs) /\ (cfg.wrapper /\ ~ record.outer => Len(last) = 1 /\ last[1] = c)
  BY <1>2
<1>7. K = head \o last
  BY <1>3 DEF tail
<1> HIDE DEF head, last
<1>8. Len(head) \in Nat /\ Len(last) \in Nat
  BY <1>5, <1>6, LenProperties
<1>9. /\ K \in Seq(Pairs) /\ Len(K) = Len(head) + Len(last)
      /\ \A i \in 1 .. Len(head) : K[i] = head[i]
      /\ Len(last) = 1 => K[Len(head) + 1] = last[1]
  BY <1>5, <1>6, <1>7, <1>8, ConcatProperties
<1>10. ASSUME cfg.parallax /\ ~ record.palette PROVE \E j \in 1 .. Len(K) : K[j][1] = "parallaxPalette"
  <2>1. 1 \in 1 .. Len(K) /\ K[1] = a
    BY <1>5, <1>8, <1>9, <1>10
  <2> QED BY <1>1, <2>1
<1>11. ASSUME cfg.parallax /\ ~ record.palette /\ ~ record.segment
       PROVE  \E j \in 1 .. Len(K) : K[j][1] = "parallaxSegmentSize"
  <2>1. 2 \in 1 .. Len(K) /\ K[2] = b
    BY <1>5, <1>8, <1>9, <1>11
  <2> QED BY <1>1, <2>1
<1>12. ASSUME cfg.wrapper /\ ~ record.outer PROVE \E j \in 1 .. Len(K) : K[j][1] = "outerCipher"
  <2>1. Len(head) + 1 \in 1 .. Len(K) /\ K[Len(head) + 1] = c
    BY <1>6, <1>8, <1>9, <1>12
  <2> QED BY <1>1, <2>1
<1> QED BY <1>9, <1>10, <1>11, <1>12 DEF K

\* The pairs that are set, the named profile's layers last.
LEMMA OverridesCounted ==
    /\ AllOverrides \in Seq(Pairs) /\ Len(AllOverrides) \in Nat \ {0}
    /\ cfg.profile # "" =>
         LET K == KeystreamLayers(Profiles[cfg.profile])
         IN  \A j \in 1 .. Len(K) : 11 + j \in 1 .. Len(AllOverrides) /\ AllOverrides[11 + j] = K[j]
<1>1. Overrides \in Seq(Pairs) /\ Len(Overrides) = 11
  <2>1. Len(Overrides) = 11 /\ Overrides = [i \in 1 .. 11 |-> Overrides[i]]
    BY DEF Overrides
  <2>2. \A i \in 1 .. 11 : Overrides[i] \in Pairs
    BY DEF Pairs
  <2> HIDE DEF Pairs
  <2> QED BY <2>1, <2>2, IsASeq
<1> DEFINE K == IF cfg.profile = "" THEN <<>> ELSE KeystreamLayers(Profiles[cfg.profile])
<1>2. K \in Seq(Pairs)
  <2>1. <<>> \in Seq(Pairs)
    OBVIOUS
  <2>2. KeystreamLayers(Profiles[cfg.profile]) \in Seq(Pairs)
    BY LayersFilled
  <2> QED BY <2>1, <2>2
<1>3. AllOverrides = Overrides \o K
  BY DEF AllOverrides
<1>4. Len(K) \in Nat
  BY <1>2, LenProperties
<1>5. cfg.profile # "" => K = KeystreamLayers(Profiles[cfg.profile])
  OBVIOUS
<1> HIDE DEF K
<1>6. AllOverrides \in Seq(Pairs) /\ Len(AllOverrides) = 11 + Len(K)
  <2> DEFINE o == Overrides
             P == Pairs
  <2>1. o \in Seq(P) /\ K \in Seq(P) /\ Len(o) = 11
    BY <1>1, <1>2
  <2> HIDE DEF o, P
  <2>2. o \o K \in Seq(P) /\ Len(o \o K) = Len(o) + Len(K)
    BY <2>1, ConcatProperties
  <2>3. Len(o \o K) = 11 + Len(K)
    BY <2>1, <2>2
  <2> QED BY <1>3, <2>2, <2>3 DEF o, P
<1>7. \A j \in 1 .. Len(K) : 11 + j \in 1 .. Len(AllOverrides) /\ AllOverrides[11 + j] = K[j]
  <2> TAKE j \in 1 .. Len(K)
  <2>1. 11 + j \in 1 .. 11 + Len(K) /\ ~ (11 + j <= 11) /\ (11 + j) - 11 = j
    BY <1>4
  <2> QED BY <1>1, <1>2, <1>3, <1>6, <2>1, ConcatProperties
<1>8. Len(AllOverrides) \in Nat \ {0}
  BY <1>4, <1>6
<1> QED BY <1>5, <1>6, <1>7, <1>8, Zenon

\* What the library is told.
Told == Spellings(AllOverrides)

\* It reads them as they were set.
LEMMA ToldAsSet == Decoded(QueryOf(AllOverrides)) = Told
<1>1. AllOverrides \in Seq(Pairs) /\ Len(AllOverrides) \in Nat \ {0}
  BY OverridesCounted
<1>2. SpelledIn(AllOverrides, Symbols)
  <2> SUFFICES ASSUME NEW i \in 1 .. Len(AllOverrides)
               PROVE  Spelled(AllOverrides[i][1]) \in Seq(Symbols) /\ Spelled(AllOverrides[i][2]) \in Seq(Symbols)
    BY DEF SpelledIn
  <2>1. AllOverrides[i] \in Pairs
    BY <1>1, ElementOfSeq
  <2>2. AllOverrides[i][1] \in Symbols /\ AllOverrides[i][2] \in Symbols
    BY <2>1 DEF Symbols
  <2> QED BY <2>2, SpelledInSymbols
<1>3. Reserved \subseteq Symbols
  BY DEF Symbols
<1> QED BY <1>1, <1>2, <1>3, ReadsWhatWasBuilt DEF Told

\* What a pipe is built from is what its configuration sets.
QueryInv ==
    /\ pc = "init" => query = QueryOf(AllOverrides)
    /\ \A p \in BothPipes : pipe[p] # None => made[pipe[p]].overrides = Told

\* At first there is no pipe.
LEMMA QueryInit == Init => QueryInv
  BY HandlesAssumption DEF Init, QueryInv, BothPipes

\* One configuration, one list of overrides.
LEMMA SameOverrides == cfg' = cfg => AllOverrides' = AllOverrides /\ Told' = Told
<1>1. cfg' = cfg => AllOverrides' = AllOverrides
  BY DEF AllOverrides, Overrides, KeystreamLayers, OnOff
<1> QED BY <1>1 DEF Told

\* Every step keeps that: the configuration stands while pipes are built, and a
\* name is drawn that no other pipe has.
LEMMA QueryStep == QueryInv /\ BuiltInv /\ PipesInv /\ [Next]_vars => QueryInv'
<1> SUFFICES ASSUME QueryInv, BuiltInv, PipesInv, [Next]_vars PROVE QueryInv'
  OBVIOUS
<1>1. CASE PrintUsage \/ RefuseArgument \/ RefuseFlags \/ LookupFails \/ InitFails \/ InitThrowsLate \/ SaveFails \/ SetUpFails
  <2>1. pc' \in Exits /\ pipe' = [p \in BothPipes |-> None]
    BY <1>1 DEF PrintUsage, RefuseArgument, RefuseFlags, LookupFails, InitFails, InitThrowsLate, SaveFails, SetUpFails, Return, Exits
  <2> QED BY <2>1 DEF QueryInv, Exits
<1>2. CASE ReadArgument \/ AcceptFlags \/ ShapeRuntime
  <2>1. pc \in {"argv", "runtime"} /\ pc' \in {"argv", "runtime", "build"} /\ pipe' = pipe
    BY <1>2 DEF ReadArgument, AcceptFlags, ShapeRuntime, startVars, pipeVars
  <2>2. \A p \in BothPipes : pipe[p] = None
    BY <2>1 DEF PipesInv
  <2> QED BY <2>1, <2>2 DEF QueryInv
<1>3. CASE ComposeOpts
  <2>1. query' = QueryOf(AllOverrides) /\ cfg' = cfg /\ pipe' = pipe /\ made' = made
    BY <1>3 DEF ComposeOpts, pipeVars
  <2> QED BY <2>1, SameOverrides DEF QueryInv
<1>4. CASE InitSucceeds
  <2>1. PICK h \in Handles :
           /\ pc = "init" /\ pc' = "save" /\ cfg' = cfg /\ Unused(h)
           /\ made' = [made EXCEPT ![h] = [profile |-> ProfileOf(at), overrides |-> Decoded(query)]]
           /\ pipe' = [pipe EXCEPT ![at] = h]
    BY <1>4 DEF InitSucceeds
  <2>2. DOMAIN made = Handles /\ pipe \in [BothPipes -> Handles \cup {None}] /\ \A p \in BothPipes : pipe[p] # h
    BY <2>1 DEF BuiltInv, PipesInv, Unused, Exits
  <2>3. Decoded(query) = Told
    BY <2>1, ToldAsSet DEF QueryInv
  <2>4. made'[h].overrides = Told /\ \A g \in Handles : g # h => made'[g] = made[g]
    BY <2>1, <2>2, <2>3
  <2>5. ASSUME NEW p \in BothPipes, pipe'[p] # None PROVE made'[pipe'[p]].overrides = Told
    <3>1. CASE p = at
      BY <3>1, <2>1, <2>2, <2>4
    <3>2. CASE p # at
      <4>1. pipe'[p] = pipe[p] /\ pipe[p] \in Handles /\ pipe[p] # h
        BY <3>2, <2>1, <2>2, <2>5
      <4> QED BY <4>1, <2>4, <2>5 DEF QueryInv
    <3> QED BY <3>1, <3>2
  <2> QED BY <2>1, <2>5, SameOverrides DEF QueryInv
<1>5. CASE UNCHANGED <<cfg, pipe, made>> /\ (pc' # "init" \/ UNCHANGED <<pc, query>>)
  BY <1>5, SameOverrides DEF QueryInv
<1>6. CASE SaveSucceeds \/ AllocateBuffer \/ FillFirst \/ NextWorker \/ HandOver
  <2>1. UNCHANGED <<cfg, pipe, made>> /\ pc' # "init"
    BY <1>6 DEF SaveSucceeds, AllocateBuffer, FillFirst, NextWorker, HandOver, startVars, pipeVars
  <2> QED BY <1>5, <2>1
<1>7. CASE \E w \in Ids : BeginRefill(w) \/ Refill(w)
  BY <1>5, <1>7 DEF BeginRefill, Refill, startVars, pipeVars
<1>8. CASE UNCHANGED vars
  BY <1>5, <1>8 DEF vars, startVars, pipeVars
<1> QED BY <1>1, <1>2, <1>3, <1>4, <1>6, <1>7, <1>8 DEF Next

\* A function over the first numbers is as long as it has places.
LEMMA FunctionLength ==
    ASSUME NEW n \in Nat, NEW f, f = [i \in 1 .. n |-> f[i]]
    PROVE  Len(f) = n
<1> DEFINE E == {f[i] : i \in 1 .. n}
<1>1. \A i \in 1 .. n : f[i] \in E
  OBVIOUS
<1> HIDE DEF E
<1>2. [i \in 1 .. n |-> f[i]] \in Seq(E)
  BY <1>1, IsASeq
<1>3. f \in Seq(E) /\ DOMAIN f = 1 .. n
  BY <1>2
<1>4. DOMAIN f = 1 .. Len(f) /\ Len(f) \in Nat
  BY <1>3, LenProperties
<1> QED BY <1>3, <1>4

\* A layer that was filled in is named by the query.
LEMMA NamesWhatIsFilled ==
    ASSUME pc = "init", QueryInv, cfg.profile # "", NEW key,
           \E j \in 1 .. Len(KeystreamLayers(Profiles[cfg.profile])) : KeystreamLayers(Profiles[cfg.profile])[j][1] = key
    PROVE  Named(key)
<1> DEFINE K == KeystreamLayers(Profiles[cfg.profile])
<1>1. PICK j \in 1 .. Len(K) : K[j][1] = key
  OBVIOUS
<1>2. 11 + j \in 1 .. Len(AllOverrides) /\ AllOverrides[11 + j] = K[j] /\ Len(AllOverrides) \in Nat
  BY OverridesCounted
<1> HIDE DEF K
<1>3. Decoded(query) = Told
  BY ToldAsSet DEF QueryInv
<1> DEFINE N == Len(AllOverrides)
<1>4. N \in Nat /\ 11 + j \in 1 .. N /\ DOMAIN Told = 1 .. N /\ Told = [i \in 1 .. N |-> Told[i]]
  BY <1>2 DEF Told, Spellings
<1>5. Told[11 + j][1] = Spelled(key)
  BY <1>1, <1>2 DEF Told, Spellings
<1>6. Len(Told) = N
  <2> HIDE DEF N
  <2> QED BY <1>4, FunctionLength
<1> QED BY <1>3, <1>4, <1>5, <1>6 DEF Named

\* A default profile names every layer itself.
LEMMA EveryLayerIsNamed == QueryInv /\ BuiltInv => LayersNamed
<1> SUFFICES ASSUME QueryInv, BuiltInv, pc = "init" PROVE LayersNamed
  BY DEF LayersNamed
<1> DEFINE record == Profiles[ProfileOf(at)]
<1>1. CASE cfg.profile = ""
  <2>1. at \in BothPipes
    BY DEF BuiltInv, Building
  <2>2. record = [surface |-> at, palette |-> TRUE, segment |-> TRUE, outer |-> TRUE]
    BY <1>1, <2>1, DefaultsAssumption DEF ProfileOf, BothPipes
  <2> HIDE DEF record
  <2>3. record.palette /\ record.outer
    BY <2>2
  <2> QED BY <2>3 DEF LayersNamed, record
<1>2. CASE cfg.profile # ""
  <2>1. record = Profiles[cfg.profile]
    BY <1>2 DEF ProfileOf
  <2> HIDE DEF record
  <2>2. cfg.parallax /\ ~ record.palette => Named("parallaxPalette")
    BY <1>2, <2>1, LayersFilled, NamesWhatIsFilled
  <2>3. cfg.parallax /\ ~ record.palette /\ ~ record.segment => Named("parallaxSegmentSize")
    BY <1>2, <2>1, LayersFilled, NamesWhatIsFilled
  <2>4. cfg.wrapper /\ ~ record.outer => Named("outerCipher")
    BY <1>2, <2>1, LayersFilled, NamesWhatIsFilled
  <2> QED BY <2>2, <2>3, <2>4 DEF LayersNamed, record
<1> QED BY <1>1, <1>2

\* For every configuration, whatever characters its texts are spelled with: a
\* pipeline is built with the overrides as they were set, pair by pair.
THEOREM OverridesReachTheLibrary == Spec => []OverridesArrive
<1>1. QueryInv => OverridesArrive
  BY DEF QueryInv, OverridesArrive, Told, Spellings
<1> QED BY BuiltInit, BuiltStep, PipesInit, PipesStep, ConfigInit, ConfigStep, QueryInit, QueryStep, <1>1, PTL DEF Spec

\* For every table of profiles: no pipeline is asked for with a layer that neither
\* its profile nor its overrides name, as the library reads them.
THEOREM LayersAreNamed == Spec => []LayersNamed
<1>1. QueryInv /\ BuiltInv => LayersNamed
  BY EveryLayerIsNamed
<1> QED BY BuiltInit, BuiltStep, PipesInit, PipesStep, ConfigInit, ConfigStep, QueryInit, QueryStep, <1>1, PTL DEF Spec

=============================================================================
