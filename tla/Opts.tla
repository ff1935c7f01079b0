-------------------------------- MODULE Opts --------------------------------
(***************************************************************************)
(* The query builder of src/opts.cpp, and the reading that the library     *)
(* gives to what it built.                                                 *)
(*                                                                         *)
(* A text is a sequence of symbols: a run of characters that need no       *)
(* escape is one symbol, a character that needs one is a symbol of its     *)
(* own.  A query is a sequence of tokens, each a symbol as it stands or    *)
(* its percent triple.                                                     *)
(***************************************************************************)
EXTENDS Integers, Sequences

CONSTANT Spelling   \* the texts that are more than one run, and their symbols

ASSUME SpellingAssumption == \A t \in DOMAIN Spelling : Spelling[t] \in Seq(STRING)

\* The characters outside the unreserved set; ',' is not one of them.
Reserved == {"&", "=", "%", "+", " ", ";", "/", "#", "\""}

Spelled(text) ==
    IF text = "" THEN <<>> ELSE IF text \in DOMAIN Spelling THEN Spelling[text] ELSE <<text>>

\* Mutant: the separator of pairs counts as safe.
UrlSafeAmpersand(b) == b \notin Reserved \ {"&"}

UrlSafe(b) == b \notin Reserved

Plain(b) == [esc |-> FALSE, sym |-> b]

EncodeInto(dst, s) == dst \o [i \in 1 .. Len(s) |-> [esc |-> ~ UrlSafe(s[i]), sym |-> s[i]]]

Set(query, key, value) ==
    LET joined == IF query = <<>> THEN query ELSE Append(query, Plain("&"))
    IN  EncodeInto(Append(EncodeInto(joined, key), Plain("=")), value)

\* One set after the other.
Built(pairs) ==
    LET query[n \in 0 .. Len(pairs)] ==
            IF n = 0 THEN <<>> ELSE Set(query[n - 1], Spelled(pairs[n][1]), Spelled(pairs[n][2]))
    IN  query

QueryOf(pairs) == Built(pairs)[Len(pairs)]

\* The library splits at '&', then at the first '=', and undoes the escapes;
\* a bare '+' would be read as a blank.
Unescaped(t) == IF t = Plain("+") THEN " " ELSE t.sym
Read(acc, t) ==
    IF t = Plain("&")
    THEN [done |-> Append(acc.done, <<acc.key, acc.value>>), key |-> <<>>, value |-> <<>>, split |-> FALSE]
    ELSE IF t = Plain("=") /\ ~ acc.split THEN [acc EXCEPT !.split = TRUE]
    ELSE IF acc.split THEN [acc EXCEPT !.value = Append(@, Unescaped(t))]
    ELSE [acc EXCEPT !.key = Append(@, Unescaped(t))]

Reading(query) ==
    LET acc[n \in 0 .. Len(query)] ==
            IF n = 0 THEN [done |-> <<>>, key |-> <<>>, value |-> <<>>, split |-> FALSE] ELSE Read(acc[n - 1], query[n])
    IN  acc

Decoded(query) ==
    LET last == Reading(query)[Len(query)]
    IN  IF query = <<>> THEN <<>> ELSE Append(last.done, <<last.key, last.value>>)

=============================================================================
