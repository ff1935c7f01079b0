----------------------------- MODULE StreamPump -----------------------------
(***************************************************************************)
(* The whole-buffer stream pumps (src/stream.cpp): pump_into feeds slices  *)
(* of the input to a session and drains what the cipher chain has produced *)
(* straight into the destination; pump_alloc calls it on a buffer at the   *)
(* expansion bound and starts over with a doubled one when it was too      *)
(* small.  Retries = 0 is a caller's own buffer (encrypt_stream_pump_into  *)
(* and decrypt_stream_pump_into), Retries = 2 is pump_alloc.  The harness  *)
(* has a pump of its own (pump and pump_body of loop/worker.cpp), the same *)
(* loop over a vector that grows with every read.                          *)
(*                                                                         *)
(* The session is libitb3's: a chain that runs on its own, accepts bytes,  *)
(* spools output of its own accord and can fail at any point.  Bytes are   *)
(* counted, not named.                                                     *)
(***************************************************************************)
EXTENDS Integers

CONSTANTS
    SrcLens,    \* lengths of the input
    OutLens,    \* lengths of the output the chain makes of it
    Caps,       \* sizes of the first destination buffer
    Slice,      \* kPumpBuf
    Retries,    \* how often a buffer too small is doubled
    CapMax,     \* SIZE_MAX
    Faults      \* what may fail: "alloc", and the library's "begin", "chain", "count"

ASSUME LengthsAssumption ==
    /\ SrcLens \subseteq Nat /\ OutLens \subseteq Nat \ {0}
    /\ CapMax \in Nat \ {0} /\ Caps \subseteq 0 .. CapMax
ASSUME PumpAssumption == Slice \in Nat \ {0} /\ Retries \in Nat
ASSUME LibraryAssumption == Faults \subseteq {"alloc", "begin", "chain", "count"}

VARIABLES
    src,       \* length of the input
    out,       \* length of the output the chain would make of it
    grows,     \* the harness's pump: the destination is a vector
    holdsTail, \* whether the chain keeps some output back until end
    lags,      \* whether the finished flag may come after the last byte
    cap,       \* size of the destination
    attempt,   \* pump_alloc's count of restarts
    offset,    \* input handed to the session
    used,      \* cursor in the destination
    pc,        \* where the pump is
    result,    \* how the call ended
    spooled,   \* the session: output made so far
    drained,   \* the session: output read so far
    ended,     \* the session: end was called
    broken,    \* the session: its sticky error
    live       \* sessions not yet freed

pumpVars == <<cap, attempt, offset, used, pc, result>>
sessionVars == <<spooled, drained, ended, broken, live>>
given == <<src, out, grows, holdsTail, lags>>
vars == <<given, pumpVars, sessionVars>>

Smaller(a, b) == IF a < b THEN a ELSE b

Init ==
    /\ src \in SrcLens /\ out \in OutLens
    /\ grows \in BOOLEAN /\ holdsTail \in BOOLEAN /\ lags \in BOOLEAN
    /\ cap \in IF grows THEN {0} ELSE Caps
    /\ attempt = 0 /\ offset = 0 /\ used = 0
    /\ pc = "begin" /\ result = "none"
    /\ spooled = 0 /\ drained = 0 /\ ended = FALSE /\ broken = FALSE /\ live = 0

-----------------------------------------------------------------------------
(* The cipher chain behind a session.                                      *)

Running == live > 0

\* The last byte waits for all of the input, and for end when a tail is held.
Ready ==
    IF offset = 0 THEN 0
    ELSE IF offset = src /\ (ended \/ ~ holdsTail) THEN out
    ELSE out - 1

Produce ==
    /\ Running /\ ~ broken
    /\ \E n \in spooled + 1 .. Ready : spooled' = n
    /\ UNCHANGED <<given, pumpVars, drained, ended, broken, live>>

\* A chain that was given no input fails once it is told there is no more.
ChainFails ==
    /\ Running /\ ~ broken /\ ~ (ended /\ spooled = out)
    /\ "chain" \in Faults \/ (ended /\ src = 0)
    /\ broken' = TRUE
    /\ UNCHANGED <<given, pumpVars, spooled, drained, ended, live>>

\* All of the output is read.  A session that lags may tell so one read later.
Finished == ended /\ spooled = out /\ drained' = out

-----------------------------------------------------------------------------
(* pump_into and pump_alloc.                                               *)

\* The call ends; the session's destructor frees it.
Leave(r) ==
    /\ pc' = "returned" /\ result' = r
    /\ live' = live - 1
    /\ UNCHANGED <<given, cap, attempt, offset, used, spooled, drained, ended, broken>>

Begin ==
    /\ pc = "begin"
    /\ pc' = "feed" /\ offset' = 0 /\ used' = 0
    /\ spooled' = 0 /\ drained' = 0 /\ ended' = FALSE /\ broken' = FALSE
    /\ live' = live + 1
    /\ UNCHANGED <<given, cap, attempt, result>>

\* pump_alloc: no memory for the buffer of the attempt.
BufferThrows ==
    /\ pc = "begin" /\ "alloc" \in Faults /\ Retries > 0 /\ ~ grows
    /\ pc' = "returned" /\ result' = "failed"
    /\ UNCHANGED <<given, cap, attempt, offset, used, sessionVars>>

BeginFails ==
    /\ pc = "begin" /\ "begin" \in Faults
    /\ pc' = "returned" /\ result' = "failed"
    /\ UNCHANGED <<given, cap, attempt, offset, used, sessionVars>>

Write ==
    /\ pc = "feed" /\ offset < src /\ ~ broken
    /\ offset' = offset + Smaller(src - offset, Slice)
    /\ pc' = "drain"
    /\ UNCHANGED <<given, cap, attempt, used, result, sessionVars>>

WriteFails == pc = "feed" /\ offset < src /\ broken /\ Leave("failed")

\* Mutant: the drain starts without end.
EndForgotten ==
    /\ pc = "feed" /\ offset = src
    /\ pc' = "last"
    /\ UNCHANGED <<given, cap, attempt, offset, used, result, sessionVars>>

\* A broken session may accept end and tell at the next read.
End ==
    /\ pc = "feed" /\ offset = src
    /\ ended' = TRUE /\ pc' = "last"
    /\ UNCHANGED <<given, cap, attempt, offset, used, result, spooled, drained, broken, live>>

EndFails == pc = "feed" /\ offset = src /\ broken /\ Leave("failed")

Draining == pc \in {"drain", "last"}

\* What a read is offered: the tail of the destination, or the scratch slice.
Room == IF grows THEN Slice ELSE cap - used

\* Mutant: the bytes of a read are counted from the start of the buffer.
ReadSomeRestarts ==
    /\ Draining /\ Room > 0 /\ ~ broken
    /\ \E n \in 1 .. Smaller(spooled - drained, Room) :
         used' = n /\ drained' = drained + n
    /\ \E seen \in {TRUE, ~ lags} :
         pc' = IF pc = "last" /\ Finished /\ seen THEN "done" ELSE pc
    /\ UNCHANGED <<given, cap, attempt, offset, result, spooled, ended, broken, live>>

\* Mutant: a read that returned bytes ends the drain as an empty one does.
ReadSomeStops ==
    /\ Draining /\ Room > 0 /\ ~ broken
    /\ \E n \in 1 .. Smaller(spooled - drained, Room) :
         used' = used + n /\ drained' = drained + n
    /\ pc' = IF pc = "last" THEN "done" ELSE pc
    /\ UNCHANGED <<given, cap, attempt, offset, result, spooled, ended, broken, live>>

ReadSome ==
    /\ Draining /\ Room > 0 /\ ~ broken
    /\ \E n \in 1 .. Smaller(spooled - drained, Room) :
         used' = used + n /\ drained' = drained + n
    /\ \E seen \in {TRUE, ~ lags} :
         pc' = IF pc = "last" /\ Finished /\ seen THEN "done" ELSE pc
    /\ UNCHANGED <<given, cap, attempt, offset, result, spooled, ended, broken, live>>

\* Before end a read answers at once; after end it blocks on an empty spool,
\* unless all of the output was drained.
Answers == pc = "drain" \/ spooled > drained \/ (ended /\ spooled = out)

ReadNone ==
    /\ Draining /\ Room > 0 /\ ~ broken /\ spooled = drained /\ Answers
    /\ pc' = IF pc = "drain" THEN "feed" ELSE "done"
    /\ UNCHANGED <<given, cap, attempt, offset, used, result, sessionVars>>

ReadFails == Draining /\ Room > 0 /\ broken /\ Leave("failed")

\* A count beyond the room that was offered: Status::Internal.  The harness's
\* pump takes the count as it comes.
ReadOverreports ==
    /\ Draining /\ Room > 0 /\ ~ broken /\ Answers
    /\ "count" \in Faults /\ ~ grows
    /\ Leave("failed")

\* Mutant: less room than a slice is taken for none.
DestinationNearlyFull ==
    /\ Draining /\ ~ grows /\ used + Slice > cap
    /\ pc' = "rejected"
    /\ UNCHANGED <<given, cap, attempt, offset, used, result, sessionVars>>

\* std::invalid_argument: no room is left.
DestinationFull ==
    /\ Draining /\ Room = 0
    /\ pc' = "rejected"
    /\ UNCHANGED <<given, cap, attempt, offset, used, result, sessionVars>>

\* Mutant: no guard against doubling past SIZE_MAX.
StartOverUnguarded ==
    /\ pc = "rejected" /\ attempt < Retries
    /\ cap' = (cap * 2) % (CapMax + 1)
    /\ attempt' = attempt + 1
    /\ live' = live - 1
    /\ pc' = "begin"
    /\ UNCHANGED <<given, offset, used, result, spooled, drained, ended, broken>>

\* Mutant: the session is left to the end of the call.
StartOverKeepsSession ==
    /\ pc = "rejected" /\ attempt < Retries /\ cap <= CapMax \div 2
    /\ cap' = (cap * 2) % (CapMax + 1)
    /\ attempt' = attempt + 1
    /\ pc' = "begin"
    /\ UNCHANGED <<given, offset, used, result, spooled, drained, ended, broken, live>>

\* The scope of the attempt ends: its session is freed before the next begins.
StartOver ==
    /\ pc = "rejected" /\ attempt < Retries /\ cap <= CapMax \div 2
    /\ cap' = (cap * 2) % (CapMax + 1)
    /\ attempt' = attempt + 1
    /\ live' = live - 1
    /\ pc' = "begin"
    /\ UNCHANGED <<given, offset, used, result, spooled, drained, ended, broken>>

\* Mutant: one restart fewer than the overflow guard and the count allow.
GiveUpEarly ==
    pc = "rejected" /\ (attempt + 1 >= Retries \/ cap > CapMax \div 2) /\ Leave("too_small")

GiveUp == pc = "rejected" /\ (attempt >= Retries \/ cap > CapMax \div 2) /\ Leave("too_small")

Return == pc = "done" /\ Leave("ok")

\* pump_alloc: no memory for the vector that is returned.
CopyThrows ==
    pc = "done" /\ "alloc" \in Faults /\ Retries > 0 /\ ~ grows /\ Leave("failed")

Chain == Produce \/ ChainFails
Pump ==
    \/ Begin \/ BufferThrows \/ BeginFails \/ Write \/ WriteFails \/ End \/ EndFails
    \/ ReadSome \/ ReadNone \/ ReadFails \/ ReadOverreports
    \/ DestinationFull \/ StartOver \/ GiveUp
    \/ Return \/ CopyThrows

Stopped == pc = "returned" /\ UNCHANGED vars

Next == Chain \/ Pump \/ Stopped

Spec == Init /\ [][Next]_vars
\* The thread that pumps is scheduled; a chain that was told of the end of its
\* input finishes or fails, and before that no read waits for it.  No fault has to
\* strike: whenever one lets the pump go on, so does the call without it.
FairSpec == Spec /\ WF_vars(Pump) /\ WF_vars(Produce \/ (ended /\ ChainFails))

-----------------------------------------------------------------------------
(* Properties.                                                             *)

\* The types of the variables; a destination never outgrows SIZE_MAX.
TypeOK ==
    /\ src \in SrcLens /\ out \in OutLens /\ cap \in 0 .. CapMax
    /\ attempt \in 0 .. Retries /\ offset \in 0 .. src /\ used \in 0 .. IF grows THEN out ELSE cap
    /\ grows \in BOOLEAN /\ holdsTail \in BOOLEAN /\ lags \in BOOLEAN
    /\ pc \in {"begin", "feed", "drain", "last", "done", "rejected", "returned"}
    /\ result \in {"none", "ok", "too_small", "failed"}
    /\ drained \in 0 .. spooled /\ spooled \in 0 .. out
    /\ ended \in BOOLEAN /\ broken \in BOOLEAN /\ live \in Nat

\* A pump that returns has fed all of the input and delivered the whole output,
\* each byte once, of one session, however the reads fell between the writes and
\* whatever earlier attempts had read.
WholeOutput == result = "ok" => offset = src /\ used = out /\ drained = out

\* While a session runs, the destination holds exactly what was read from it.
CursorFollowsSession == Running => used = drained /\ (grows \/ used <= cap)

\* The room with which no pump is rejected: a flag that comes after the last byte
\* has to be asked for once more, and a read is made only with room left.
Needed == IF lags THEN out + 1 ELSE out

\* On a chain that keeps a tail until end, std::invalid_argument is thrown only
\* when the buffer was smaller than Needed, and by pump_alloc only when no larger
\* one could be tried.
RejectedOnlyIfTooSmall ==
    holdsTail /\ result = "too_small" =>
        Needed > cap /\ (attempt = Retries \/ 2 * cap > CapMax)

\* The comment in pump_into: an exact-size destination is never rejected on a
\* pump whose session did not fail, if the chain keeps a tail until end and its
\* flag comes with the last byte.
ExactSizeAccepted == holdsTail /\ ~ lags /\ pc = "rejected" => out # cap

\* On such a chain a buffer is doubled only when the smaller one lacked the room.
GrownOnlyIfNeeded == holdsTail /\ attempt > 0 => 2 * Needed > cap

\* An attempt's session is freed before the next one begins, and none outlives
\* the call, however it ends.
OneSessionAtATime == live = (IF pc \in {"begin", "returned"} THEN 0 ELSE 1)

\* The pump as its caller sees it.
Call ==
    INSTANCE WholeCall WITH
        Lengths <- OutLens,
        offered <- {out},
        verdict <- IF result = "none" THEN "running"
                   ELSE IF result = "ok" THEN "delivered" ELSE "refused",
        got <- IF result = "ok" THEN used ELSE 0

\* Over all its writes, reads and restarts a pump is one call that delivers the
\* whole output or throws.
DeliversWholeOrRefuses == Call!Spec

\* Every pump returns or throws: no read waits for a session that was not ended.
Termination == <>(pc = "returned")

=============================================================================
