------------------------------ MODULE Payload ------------------------------
(***************************************************************************)
(* Plaintext content (src/loop/payload.cpp): how the buffer of one worker  *)
(* is filled from the operating system's generator, from the worker's own  *)
(* seeded generator, or with a pattern.                                    *)
(*                                                                         *)
(* A filling is a sequence of steps that move `off` through the buffer;    *)
(* the buffer is not cleared before, so a step that is missed leaves what  *)
(* stood there.  The seeded generator is splitmix64 with a word of any     *)
(* width: its state advances by a constant, and each state has its bytes.  *)
(***************************************************************************)
EXTENDS Integers, Sequences

CONSTANTS
    Ids,        \* worker ids
    Words,      \* the number of generator states, 2^64
    Stride,     \* what one draw adds to the state
    Block,      \* bytes of a word, 8
    Bytes(_),   \* the finalizer: the bytes drawn in a state
    Random      \* a byte from the operating system

ASSUME GeneratorAssumption ==
    /\ Words \in Nat \ {0} /\ Block \in Nat \ {0} /\ Stride \in 0 .. Words - 1
    /\ Ids \subseteq 0 .. Words - 1
    /\ Random \notin 0 .. 255

\* The finalizer is a bijection of words, so different states draw different
\* bytes, in some place of the word.
ASSUME BytesAssumption ==
    /\ \A s \in 0 .. Words - 1 : Bytes(s) \in [1 .. Block -> 0 .. 255]
    /\ \A s, t \in 0 .. Words - 1 : Bytes(s) = Bytes(t) => s = t

VARIABLES
    rng,     \* generator state of every worker
    buf,     \* its plaintext
    off,     \* how far its filling under way has come
    rounds   \* fillings it has completed (history; only its bound is read)

payloadVars == <<rng, buf, off, rounds>>

Drawn(mode) == mode \in {"fixed", "rotating"}

\* Sums of words wrap.
Plus(a, b) == IF a + b >= Words THEN a + b - Words ELSE a + b

\* Mutant: the workers' seeds are a stride apart, as their draws are.
SeedWorkerStrided(seed, id) == (seed + id * Stride + 1) % Words

\* The workers' streams are kept apart by their ids.
SeedWorker(seed, id) == Plus(Plus(seed, id), 1)

Splitmix(state) == Plus(state, Stride)

-----------------------------------------------------------------------------
(* vector::resize, then fill_payload, in steps.                            *)

Allocate(w, size) ==
    /\ buf' = [buf EXCEPT ![w] = [i \in 1 .. size |-> 0]]
    /\ off' = [off EXCEPT ![w] = 0]

Unfilled(w) == off[w] < Len(buf[w])

\* The bytes after `off` are overwritten by the first `n` of `bytes`.
Overlaid(w, n, bytes) ==
    [buf EXCEPT ![w] = [i \in DOMAIN @ |-> IF i \in off[w] + 1 .. off[w] + n THEN bytes[i - off[w]] ELSE @[i]]]

Advance(w, n) ==
    /\ off' = [off EXCEPT ![w] = @ + n]
    /\ rounds' = [rounds EXCEPT ![w] = IF off[w] + n = Len(buf[w]) THEN @ + 1 ELSE @]

\* Mutant: one call of getrandom is taken to fill the buffer.
FillRandomOnce(w) ==
    \E n \in 1 .. Len(buf[w]) - off[w] :
        /\ buf' = Overlaid(w, n, [i \in 1 .. n |-> Random])
        /\ Advance(w, Len(buf[w]) - off[w])
        /\ UNCHANGED rng

\* One getrandom, which may return short; the loop calls it for the rest.
FillRandom(w) ==
    \E n \in 1 .. Len(buf[w]) - off[w] :
        /\ buf' = Overlaid(w, n, [i \in 1 .. n |-> Random])
        /\ Advance(w, n)
        /\ UNCHANGED rng

\* Mutant: the last word is written whole.
FillWordWhole(w) ==
    LET state == Splitmix(rng[w])
    IN  /\ buf' = Overlaid(w, Block, Bytes(state))
        /\ rng' = [rng EXCEPT ![w] = state]
        /\ Advance(w, Block)

\* One word of the seeded generator; of the last only what the buffer takes.
FillWord(w) ==
    LET left == Len(buf[w]) - off[w]
        take == IF left < Block THEN left ELSE Block
        state == Splitmix(rng[w])
    IN  /\ buf' = Overlaid(w, take, Bytes(state))
        /\ rng' = [rng EXCEPT ![w] = state]
        /\ Advance(w, take)

PatternByte(mode, i) ==
    IF mode = "pattern-zero" THEN 0 ELSE IF mode = "pattern-ff" THEN 255 ELSE 65 + ((i - 1) % 26)

FillPattern(w, mode) ==
    /\ buf' = [buf EXCEPT ![w] = [i \in DOMAIN @ |-> PatternByte(mode, i)]]
    /\ Advance(w, Len(buf[w]) - off[w])
    /\ UNCHANGED rng

FillPayload(w, mode, seeded) ==
    /\ Unfilled(w)
    /\ \/ Drawn(mode) /\ ~ seeded /\ FillRandom(w)
       \/ Drawn(mode) /\ seeded /\ FillWord(w)
       \/ ~ Drawn(mode) /\ FillPattern(w, mode)

-----------------------------------------------------------------------------
(* What a filling is to leave.                                             *)

\* The state of a worker's generator after so many draws.
StateAfter(seed, w, draws) == (seed + w + 1 + draws * Stride) % Words

\* The bytes of a worker's k-th filling, by seed, worker and k alone.
SeededContent(seed, w, k, size) ==
    LET words == (size + Block - 1) \div Block
    IN  [i \in 1 .. size |->
            Bytes(StateAfter(seed, w, ((k - 1) * words) + ((i - 1) \div Block) + 1))[((i - 1) % Block) + 1]]

ContentOf(w, mode, seed, size) ==
    IF ~ Drawn(mode) THEN [i \in 1 .. size |-> PatternByte(mode, i)]
    ELSE IF seed = 0 THEN [i \in 1 .. size |-> Random]
    ELSE SeededContent(seed, w, rounds[w], size)

=============================================================================
