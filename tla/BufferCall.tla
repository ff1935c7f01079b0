----------------------------- MODULE BufferCall -----------------------------
(***************************************************************************)
(* The dispatch of calls with a variable-size output (src/pipeline.cpp):   *)
(* buf_call, whose output is key material and is wiped before its memory   *)
(* goes back; its two callers init and init_keys, which drop the blob;     *)
(* cipher_call; and cipher_call_into, which writes to the caller's buffer. *)
(* All but the last answer BufferTooSmall with one more call, at the size  *)
(* libitb3 reported.                                                       *)
(*                                                                         *)
(* The object behind the call belongs to the library and other threads may *)
(* change its size between two calls: a pipeline is rekeyed, a profile is  *)
(* registered.  A buffer is its size and how many bytes of output it       *)
(* holds.                                                                  *)
(***************************************************************************)
EXTENDS Integers, Sequences

CONSTANTS
    Styles,      \* the dispatches: "blob", "init", "cipher", "into"
    FirstCaps,   \* kBlobCap, out_cap of the input, or the size of dst
    Sizes,       \* sizes the output may have
    MaxChanges,  \* bound: changes of the object during one call
    Faults       \* "status", "count" and "alloc": what may go wrong

ASSUME StylesAssumption == Styles \subseteq {"blob", "init", "cipher", "into"}
ASSUME SizesAssumption == FirstCaps \subseteq Nat /\ Sizes \subseteq Nat \ {0} /\ MaxChanges \in Nat
ASSUME FaultsAssumption == Faults \subseteq {"status", "count", "alloc"}

VARIABLES
    style,     \* the dispatch at work
    lied,      \* whether the library reported a length that is not one
    object,    \* size of the output the library would make now
    changes,   \* how often it changed
    met,       \* its sizes at the library calls made (history only)
    offered,   \* the sizes it has had (history only: no guard reads it)
    buf,       \* the scratch buffer, or dst
    rc,        \* status of the last library call
    n,         \* the length it reported
    pc,        \* where the dispatch is
    result,    \* the vector handed over, or the count for dst
    spilt      \* memory was given back with bytes of output in it

vars == <<style, lied, object, changes, met, offered, buf, rc, n, pc, result, spilt>>

Nothing == [size |-> 0, holds |-> 0]

Init ==
    /\ style \in Styles /\ lied = FALSE
    /\ object \in Sizes /\ changes = 0 /\ met = <<>> /\ offered = {object}
    /\ buf \in [size : FirstCaps, holds : {0}]
    /\ rc = "none" /\ n = 0
    /\ pc = "call"
    /\ result = Nothing
    /\ spilt = FALSE

Retries == style # "into"
Wipes == style \in {"blob", "init"}

\* The object changes under the call.
Change ==
    /\ changes < MaxChanges /\ pc \notin {"drop", "returned"}
    /\ object' \in Sizes \ {object}
    /\ changes' = changes + 1
    /\ offered' = offered \cup {object'}
    /\ UNCHANGED <<style, lied, met, buf, rc, n, pc, result, spilt>>

-----------------------------------------------------------------------------
(* A call of the library.                                                  *)

Answer(status, len, held, lie) ==
    /\ pc \in {"call", "again"}
    /\ rc' = status /\ n' = len /\ lied' = (lied \/ lie)
    /\ buf' = [buf EXCEPT !.holds = held]
    /\ met' = Append(met, object)
    /\ pc' = IF pc = "call" THEN "first" ELSE "second"
    /\ UNCHANGED <<style, object, changes, offered, result, spilt>>

Fits == object <= buf.size /\ Answer("ok", object, object, FALSE)

\* Part of the output may be in the buffer already.
TooSmall == object > buf.size /\ \E held \in {0, buf.size} : Answer("too_small", object, held, FALSE)

Fails == "status" \in Faults /\ \E held \in {0, buf.size} : Answer("failed", 0, held, FALSE)

\* A length out of range, or a needed size that is no larger than the one offered.
Miscounts ==
    /\ "count" \in Faults
    /\ \/ Answer("ok", buf.size + 1, buf.size, TRUE)
       \/ Answer("too_small", buf.size, 0, TRUE)

-----------------------------------------------------------------------------
(* The dispatch.  Its scratch buffer is released on every way out; dst     *)
(* stays with the caller.                                                  *)

Wiped(b) == [b EXCEPT !.holds = 0]

\* Memory goes back to the allocator with what it holds then.
GiveBack(b) == spilt' = (spilt \/ b.holds > 0)

\* The guard of buf_call: its destructor wipes, whatever ends the call.
Scrubbed(b) == IF Wipes THEN Wiped(b) ELSE b

\* Mutant: no guard; only the way out with a result wipes.
ReleaseUnguarded ==
    IF Retries THEN GiveBack(IF rc' = "ok" THEN Scrubbed(buf) ELSE buf) /\ buf' = Nothing
               ELSE UNCHANGED <<spilt, buf>>

Release ==
    IF Retries THEN GiveBack(Scrubbed(buf)) /\ buf' = Nothing
               ELSE UNCHANGED <<spilt, buf>>

Throw(status) ==
    /\ rc' = status /\ pc' = "returned"
    /\ Release
    /\ UNCHANGED <<style, lied, object, changes, met, offered, n, result>>

TakenTooSmall == pc = "first" /\ Retries /\ rc = "too_small" /\ n > buf.size
Answered == pc \in {"first", "second"} /\ ~ TakenTooSmall

\* Mutant: the buffer grows to twice its size, whatever was reported.
GrowDoubles ==
    /\ TakenTooSmall
    /\ GiveBack(Scrubbed(buf))
    /\ buf' = [size |-> 2 * buf.size, holds |-> 0]
    /\ pc' = "again"
    /\ UNCHANGED <<style, lied, object, changes, met, offered, rc, n, result>>

\* One retry, at the size reported; buf_call wipes the first buffer before its
\* memory makes way.
Grow ==
    /\ TakenTooSmall
    /\ GiveBack(Scrubbed(buf))
    /\ buf' = [size |-> n, holds |-> 0]
    /\ pc' = "again"
    /\ UNCHANGED <<style, lied, object, changes, met, offered, rc, n, result>>

GrowThrows == TakenTooSmall /\ "alloc" \in Faults /\ Throw("bad_alloc")

Failed == Answered /\ rc # "ok" /\ Throw(rc)

OutOfRange == Answered /\ rc = "ok" /\ n > buf.size /\ Throw("internal")

CopyThrows ==
    Answered /\ rc = "ok" /\ n <= buf.size /\ Retries /\ "alloc" \in Faults /\ Throw("bad_alloc")

\* Mutant: the reported length is not compared with the buffer's size.
HandOverUnchecked ==
    /\ Answered /\ rc = "ok"
    /\ result' = [size |-> n, holds |-> buf.holds]
    /\ pc' = IF style = "init" THEN "drop" ELSE "returned"
    /\ rc' = rc
    /\ Release
    /\ UNCHANGED <<style, lied, object, changes, met, offered, n>>

HandOver ==
    /\ Answered /\ rc = "ok" /\ n <= buf.size
    /\ result' = [size |-> n, holds |-> buf.holds]
    /\ pc' = IF style = "init" THEN "drop" ELSE "returned"
    /\ rc' = rc
    /\ Release
    /\ UNCHANGED <<style, lied, object, changes, met, offered, n>>

\* init and init_keys wipe the blob that came back, and release it.
DropBlob ==
    /\ pc = "drop"
    /\ GiveBack(Wiped(result)) /\ result' = Nothing
    /\ pc' = "returned"
    /\ UNCHANGED <<style, lied, object, changes, met, offered, buf, rc, n>>

Library == Fits \/ TooSmall \/ Fails \/ Miscounts
Dispatch ==
    Grow \/ GrowThrows \/ Failed \/ OutOfRange \/ CopyThrows \/ HandOver \/ DropBlob
Stopped == pc = "returned" /\ UNCHANGED vars

Next == Change \/ Library \/ Dispatch \/ Stopped

Spec == Init /\ [][Next]_vars

-----------------------------------------------------------------------------
(* Properties.                                                             *)

\* The types of the variables; a scratch buffer has its first size or the one the
\* library asked for.
TypeOK ==
    /\ style \in Styles /\ lied \in BOOLEAN /\ object \in Sizes /\ changes \in 0 .. MaxChanges
    /\ offered \in SUBSET Sizes /\ met \in Seq(Sizes)
    /\ buf \in [size : FirstCaps \cup Sizes \cup {0}, holds : Nat] /\ buf.holds <= buf.size
    /\ result \in [size : Nat, holds : Nat]
    /\ rc \in {"none", "ok", "too_small", "failed", "internal", "bad_alloc"}
    /\ n \in Nat
    /\ pc \in {"call", "first", "again", "second", "drop", "returned"}
    /\ spilt \in BOOLEAN

\* Whether a call of buf_call succeeds at once, is repeated, fails or throws
\* half-way, no memory goes back with bytes of a blob in it: not the first buffer,
\* nor the second, nor the vector that init drops.  In the end the only copy is
\* the one a caller asked for, and there is none after an exception.
BlobLeavesNoTrace ==
    Wipes =>
        /\ ~ spilt
        /\ pc = "returned" => buf.holds = 0 /\ (result.holds > 0 => style = "blob" /\ rc = "ok")

\* What is handed over is the output of one library call, all of it and nothing
\* beyond: lengths of the first call are never paired with bytes of the second.
WholeOutputOfOneCall == result.size = result.holds

\* A dispatch that retries tells BufferTooSmall only when it has called twice and
\* the object grew from the one call to the other - not for one that shrank, or
\* changed before - or when the library misreported a length.
TooSmallOnlyIfGrown ==
    rc = "too_small" /\ pc = "returned" /\ Retries => lied \/ (Len(met) = 2 /\ met[1] < met[2])

\* The dispatch as its caller sees it.
Call ==
    INSTANCE WholeCall WITH
        Lengths <- Sizes,
        verdict <- IF pc \notin {"drop", "returned"} THEN "running"
                   ELSE IF rc = "ok" THEN "delivered" ELSE "refused",
        got <- result.size

\* Over its one or two calls of the library the dispatch is one call that
\* delivers an output the object really had, whole, or throws.
DeliversWholeOrRefuses == Call!Spec

=============================================================================
