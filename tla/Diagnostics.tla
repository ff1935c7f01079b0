---------------------------- MODULE Diagnostics ----------------------------
(***************************************************************************)
(* How a failed library call gets its sentence: libitb3 keeps one          *)
(* diagnostic for the whole process, fail() fetches it through             *)
(* last_error() when it throws (src/error.cpp), and the loop harness       *)
(* fetches it again when it reports the error it caught (detail() in       *)
(* loop/main.cpp).  last_error asks twice when the sentence is longer than *)
(* its buffer, so each fetch is two steps between which other threads run. *)
(***************************************************************************)
EXTENDS Naturals

CONSTANTS
    Threads,   \* threads making library calls
    Lengths,   \* lengths of the sentences
    BufLen,    \* the longest sentence last_error's own buffer takes
    MaxCalls,  \* bound: failing calls of each thread
    None       \* no thread

ASSUME LengthsAssumption == Lengths \subseteq Nat \ {0} /\ BufLen \in Nat /\ MaxCalls \in Nat
ASSUME NoneAssumption == None \notin Threads

VARIABLES
    last,      \* the library: the diagnostic of the most recent failing call
    calls,     \* failing calls of each thread
    mine,      \* the sentence of the call the thread handles now
    pc,        \* where the thread is
    field,     \* the text it fetches: what() of its exception, or a report's line
    need,      \* the size the first fetch was told
    text,      \* the two texts
    overtaken, \* whether another call failed since the thread's own
    refused    \* whether the library refused the fetch for the exception's text

vars == <<last, calls, mine, pc, field, need, text, overtaken, refused>>

\* A sentence is named by the call that left it; a buffer cuts what it cannot
\* take.  Empty is last_error's answer when it gives up.
Sentences == [by : Threads, call : 1 .. MaxCalls, len : Lengths, whole : {TRUE}]
Empty == [by |-> None, call |-> 0, len |-> 0, whole |-> TRUE]
Texts == {"what", "line"}
Blank == [f \in Texts |-> Empty]
Cut(s) == [s EXCEPT !.whole = FALSE]

Init ==
    /\ last = Empty
    /\ calls = [t \in Threads |-> 0]
    /\ mine = [t \in Threads |-> Empty]
    /\ pc = [t \in Threads |-> "idle"]
    /\ field = [t \in Threads |-> "what"]
    /\ need = [t \in Threads |-> 0]
    /\ text = [t \in Threads |-> Blank]
    /\ overtaken = [t \in Threads |-> FALSE]
    /\ refused = [t \in Threads |-> FALSE]

GoTo(t, l) == pc' = [pc EXCEPT ![t] = l]

-----------------------------------------------------------------------------
\* A call fails and leaves its sentence, over any other thread's; check() goes
\* on to fail().
CallFails(t) ==
    /\ pc[t] = "idle" /\ calls[t] < MaxCalls
    /\ calls' = [calls EXCEPT ![t] = @ + 1]
    /\ \E l \in Lengths :
         last' = [by |-> t, call |-> calls[t] + 1, len |-> l, whole |-> TRUE]
    /\ mine' = [mine EXCEPT ![t] = last']
    /\ text' = [text EXCEPT ![t] = Blank]
    /\ overtaken' = [u \in Threads |-> u # t /\ (overtaken[u] \/ pc[u] # "idle")]
    /\ refused' = [refused EXCEPT ![t] = FALSE]
    /\ GoTo(t, "fetch")
    /\ UNCHANGED <<field, need>>

\* last_error returns: the exception is thrown, or the report is written.
Deliver(t, s) ==
    /\ text' = [text EXCEPT ![t] = [@ EXCEPT ![field[t]] = s]]
    /\ GoTo(t, IF field[t] = "what" THEN "caught" ELSE "idle")
    /\ field' = [field EXCEPT ![t] = "what"]
    /\ UNCHANGED <<last, calls, mine, overtaken>>

\* The first ITB_LastError takes the sentence, or learns its length.
Fetch(t) ==
    /\ pc[t] = "fetch" /\ last.len <= BufLen
    /\ Deliver(t, last)
    /\ UNCHANGED <<need, refused>>

FetchTooSmall(t) ==
    /\ pc[t] = "fetch" /\ last.len > BufLen
    /\ need' = [need EXCEPT ![t] = last.len]
    /\ GoTo(t, "refetch")
    /\ UNCHANGED <<last, calls, mine, field, text, overtaken, refused>>

\* Mutant: the second buffer is one byte short, for the terminator.
RefetchShort(t) ==
    /\ pc[t] = "refetch"
    /\ Deliver(t, IF last.len <= need[t] - 1 THEN last ELSE Empty)
    /\ UNCHANGED <<need, refused>>

\* The second one, at that length: a sentence grown longer since is given up.
Refetch(t) ==
    /\ pc[t] = "refetch"
    /\ Deliver(t, IF last.len <= need[t] THEN last ELSE Empty)
    /\ UNCHANGED <<need, refused>>

\* Any other status of either call leaves the text empty.
FetchFails(t) ==
    /\ pc[t] \in {"fetch", "refetch"}
    /\ Deliver(t, Empty)
    /\ refused' = [refused EXCEPT ![t] = @ \/ field[t] = "what"]
    /\ UNCHANGED need

\* The handler prints what() ...
HandleWhat(t) ==
    /\ pc[t] = "caught"
    /\ GoTo(t, "idle")
    /\ UNCHANGED <<last, calls, mine, field, need, text, overtaken, refused>>

\* ... or calls detail(e), which asks the library once more.
HandleDetail(t) ==
    /\ pc[t] = "caught"
    /\ field' = [field EXCEPT ![t] = "line"]
    /\ GoTo(t, "fetch")
    /\ UNCHANGED <<last, calls, mine, need, text, overtaken, refused>>

Step(t) ==
    \/ CallFails(t) \/ Fetch(t) \/ FetchTooSmall(t) \/ Refetch(t) \/ FetchFails(t)
    \/ HandleWhat(t) \/ HandleDetail(t)

Stopped == (\A t \in Threads : pc[t] = "idle" /\ calls[t] = MaxCalls) /\ UNCHANGED vars

Next == (\E t \in Threads : Step(t)) \/ Stopped

Spec == Init /\ [][Next]_vars

-----------------------------------------------------------------------------
(* Properties.                                                             *)

\* The types of the variables; a text is a whole sentence that some failing call
\* left, or empty: last_error cuts none.
TypeOK ==
    /\ last \in Sentences \cup {Empty} /\ mine \in [Threads -> Sentences \cup {Empty}]
    /\ calls \in [Threads -> 0 .. MaxCalls]
    /\ pc \in [Threads -> {"idle", "fetch", "refetch", "caught"}]
    /\ field \in [Threads -> Texts]
    /\ need \in [Threads -> Lengths \cup {0}]
    /\ text \in [Threads -> [Texts -> Sentences \cup {Empty}]]
    /\ overtaken \in [Threads -> BOOLEAN] /\ refused \in [Threads -> BOOLEAN]

\* Whether the thread's exception has been given its text.
Thrown(t) == pc[t] = "caught" \/ field[t] = "line" \/ (pc[t] = "idle" /\ calls[t] > 0)

\* An exception carries the sentence of its own call, of any length, unless
\* another thread's call failed between the failure and the fetch: then the
\* sentence may be the other thread's, or missing if it outgrew the retry.  It is
\* never one of the thread's own earlier failures, and missing without another
\* thread only if the library refused the fetch.
OwnUnlessOvertaken ==
    \A t \in Threads : Thrown(t) =>
        \/ text[t]["what"] = mine[t]
        \/ refused[t] /\ text[t]["what"] = Empty
        \/ overtaken[t] /\ text[t]["what"].by # t

\* loop.hpp of detail(): a failed call is reported with its status and the
\* sentence the library left behind for it.
ReportNamesOwnCall ==
    \A t \in Threads : pc[t] = "idle" /\ text[t]["line"] # Empty => text[t]["line"] = mine[t]

=============================================================================
