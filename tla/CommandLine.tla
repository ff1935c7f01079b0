---------------------------- MODULE CommandLine ----------------------------
(***************************************************************************)
(* The harness's command line (src/loop/main.cpp): the arguments taken one *)
(* by one into raw flag values, and the validation that resolves them into *)
(* the configuration every other part reads.                               *)
(*                                                                         *)
(* An argument is a record: the flag it names, the value given with '=',   *)
(* and the text it has when it is taken as the value of the flag before    *)
(* it.  Texts are strings; what the number, size and duration parsers make *)
(* of them is given by tables (parse_size itself is in module Sizing).     *)
(***************************************************************************)
EXTENDS Integers, Sequences, TLC

CONSTANTS
    Numerals,   \* the texts strtoll reads whole, and their numbers
    IntMax,     \* INT_MAX
    Int64Max,   \* INT64_MAX
    Sizes,      \* the texts parse_size accepts, and their bytes
    Durations,  \* the texts parse_duration accepts, and their nanoseconds
    Hashes,     \* the texts that stand in quotes in the JSON of itb::hash_names:
                \* its names, and neighbours in its list joined by ","
    Profiles,   \* itb::lookup: the registered profiles and their records
    MaxWorkers, \* kMaxWorkers
    Caps        \* the automatic limits: 1 GiB for few workers, 256 MiB for more

NoValue == "(no value)"

IntFlags == {"barrier-fill", "blob-mode", "gogc", "gomaxprocs", "goroutines", "key-bits", "nonce-bits"}
Int64Flags == {"blob-cycle-every", "iterations", "rekey-every"}
Uint64Flags == {"seed"}
BoolFlags == {"json-output"}
StringFlags == {"chunk-size", "drbg", "duration", "hash", "interlock", "mac", "memlimit", "memprofile",
                "parallax", "payload-mode", "payload-size", "profile", "shape", "wrapper"}
FlagNames == IntFlags \cup Int64Flags \cup Uint64Flags \cup BoolFlags \cup StringFlags

Defaults ==
    [n \in FlagNames |->
        CASE n = "blob-mode" -> "1" [] n = "goroutines" -> "3" [] n = "chunk-size" -> "0"
          [] n = "duration" -> "5m" [] n = "hash" -> "areion512" [] n = "mac" -> "hmac-blake3"
          [] n = "memlimit" -> "auto" [] n \in {"parallax", "wrapper"} -> "on"
          [] n = "payload-mode" -> "fixed" [] n = "payload-size" -> "16MB" [] n = "shape" -> "stream"
          [] n = "json-output" -> "false"
          [] n \in {"drbg", "interlock", "memprofile", "profile"} -> ""
          [] OTHER -> "0"]

\* What an argument is read as.
Arguments == [name : STRING, value : STRING, text : STRING]

\* parse_int, parse_int64, parse_uint64 and the boolean's parser.
Assigns(n, text) ==
    \/ n \in StringFlags
    \/ n \in BoolFlags /\ text \in {"true", "false"}
    \/ /\ n \in FlagNames \ (StringFlags \cup BoolFlags) /\ text \in DOMAIN Numerals
       /\ \/ n \in IntFlags /\ Numerals[text] \in -IntMax .. IntMax
          \/ n \in Int64Flags /\ Numerals[text] \in -Int64Max - 1 .. Int64Max
          \/ n \in Uint64Flags /\ Numerals[text] \in 0 .. 2 * Int64Max + 1

-----------------------------------------------------------------------------
(* parse_argv: one argument, or a flag and the argument that is its value. *)

VARIABLES
    argv,   \* the arguments
    argi,   \* the index of the next one
    raw     \* the flag values so far

lineVars == <<argv, argi, raw>>

Arg == argv[argi]
TakesNext == Arg.value = NoValue /\ Arg.name \notin BoolFlags
ValueGiven == ~ TakesNext \/ argi < Len(argv)
Value ==
    IF Arg.value # NoValue THEN Arg.value
    ELSE IF Arg.name \in BoolFlags THEN "true" ELSE argv[argi + 1].text

AsksHelp == argi <= Len(argv) /\ Arg.name = "help" /\ Arg.value = NoValue
BadArgument ==
    /\ argi <= Len(argv) /\ ~ AsksHelp
    /\ ~ (Arg.name \in FlagNames /\ ValueGiven /\ Assigns(Arg.name, Value))

\* Mutant: the argument taken as a value is met again as a flag.
TakeArgumentTwice ==
    /\ argi <= Len(argv) /\ ~ AsksHelp /\ ~ BadArgument
    /\ raw' = [raw EXCEPT ![Arg.name] = Value]
    /\ argi' = argi + 1
    /\ UNCHANGED argv

TakeArgument ==
    /\ argi <= Len(argv) /\ ~ AsksHelp /\ ~ BadArgument
    /\ raw' = [raw EXCEPT ![Arg.name] = Value]
    /\ argi' = IF TakesNext THEN argi + 2 ELSE argi + 1
    /\ UNCHANGED argv

-----------------------------------------------------------------------------
(* parse_flags: the checks, and the configuration they leave.              *)

Shapes == {"stream", "message", "stream_one_shot", "both"}
PayloadModes == {"fixed", "rotating", "pattern-zero", "pattern-ff", "pattern-ascii"}
Number(n) == Numerals[raw[n]]

CountsFit ==
    /\ Number("iterations") >= 0
    /\ Number("goroutines") \in 1 .. MaxWorkers
    /\ Number("gogc") >= 0 /\ Number("gomaxprocs") >= 0
    /\ Number("rekey-every") >= 0 /\ Number("blob-cycle-every") >= 0

SizesFit ==
    /\ raw["duration"] \in DOMAIN Durations /\ Durations[raw["duration"]] > 0
    /\ raw["payload-size"] \in DOMAIN Sizes /\ Sizes[raw["payload-size"]] >= 1
    /\ raw["memlimit"] = "auto" \/ raw["memlimit"] \in DOMAIN Sizes
    /\ raw["chunk-size"] \in DOMAIN Sizes

ChoicesFit ==
    /\ raw["shape"] \in Shapes
    /\ raw["hash"] \in Hashes
    /\ {raw["parallax"], raw["wrapper"]} \subseteq {"on", "off"}
    /\ Number("key-bits") \in {0, 512, 1024, 2048}
    /\ Number("nonce-bits") \in {0, 128, 256, 512}
    /\ Number("blob-mode") \in {1, 2}
    /\ Number("barrier-fill") \in {0, 1, 2, 4, 8, 16, 32}
    /\ raw["interlock"] \in {"", "48", "168"}
    /\ raw["payload-mode"] \in PayloadModes

\* profile_surface: a registered profile that carries a cipher surface.
ProfileFits ==
    raw["profile"] # "" =>
        /\ raw["profile"] \in DOMAIN Profiles
        /\ Profiles[raw["profile"]].surface \in {"stream", "msg"}

Accepted == CountsFit /\ SizesFit /\ ChoicesFit /\ ProfileFits

\* Mutant: a shape that the streaming surface can not serve is kept.
NarrowShapeKeepsBoth(requested, surface) ==
    IF surface = "msg" THEN "message"
    ELSE IF requested \in {"stream_one_shot", "both"} THEN requested ELSE "stream"

NarrowShape(requested, surface) ==
    IF surface = "msg" THEN "message"
    ELSE IF requested = "stream_one_shot" THEN "stream_one_shot" ELSE "stream"

AutoLimit(workers) == IF workers <= 3 THEN Caps.few ELSE Caps.many

Config ==
    [workers |-> Number("goroutines"),
     shape |-> IF raw["profile"] = "" THEN raw["shape"]
               ELSE NarrowShape(raw["shape"], Profiles[raw["profile"]].surface),
     iterations |-> Number("iterations"), rekey |-> Number("rekey-every"), cycle |-> Number("blob-cycle-every"),
     payload |-> Sizes[raw["payload-size"]], mode |-> raw["payload-mode"], seed |-> Number("seed"),
     auto |-> raw["memlimit"] = "auto",
     memlimit |-> IF raw["memlimit"] = "auto" THEN AutoLimit(Number("goroutines")) ELSE Sizes[raw["memlimit"]],
     gogc |-> Number("gogc"), gomaxprocs |-> Number("gomaxprocs"),
     parallax |-> raw["parallax"] = "on", wrapper |-> raw["wrapper"] = "on",
     profile |-> raw["profile"], hash |-> raw["hash"], mac |-> raw["mac"], drbg |-> raw["drbg"],
     interlock |-> raw["interlock"], blobMode |-> Number("blob-mode"), keyBits |-> Number("key-bits"),
     nonceBits |-> Number("nonce-bits"), barrierFill |-> Number("barrier-fill"),
     chunk |-> Sizes[raw["chunk-size"]]]

-----------------------------------------------------------------------------
(* What the arguments say, read as a whole.                                *)

\* Whether an argument names a flag: the first does, and each later one unless
\* the flag just before it takes it as its value.
NamesFlag ==
    LET f[i \in 1 .. Len(argv)] ==
            i = 1 \/ ~ (f[i - 1] /\ argv[i - 1].value = NoValue /\ argv[i - 1].name \notin BoolFlags)
    IN  f

\* Every flag has the value its last mention gave it, or its default.
LastMention(n, t) ==
    LET at == {i \in 1 .. Len(argv) : NamesFlag[i] /\ argv[i].name = n}
    IN  IF at = {} THEN t = Defaults[n]
        ELSE LET i == CHOOSE i \in at : \A j \in at : j <= i
             IN  t = IF argv[i].value # NoValue THEN argv[i].value
                     ELSE IF n \in BoolFlags THEN "true" ELSE argv[i + 1].text

=============================================================================
