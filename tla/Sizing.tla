------------------------------- MODULE Sizing -------------------------------
(***************************************************************************)
(* From a written size to the capacity of an output buffer: parse_size     *)
(* (loop/size.cpp) reads --payload-size into an int64_t, and out_cap       *)
(* (src/error.cpp) turns the size of a payload, from the harness or from   *)
(* any other caller, into the first capacity of cipher_call and of the     *)
(* pumps, in size_t arithmetic that wraps.                                 *)
(*                                                                         *)
(* A text is a sequence of characters; " " stands for white space.         *)
(***************************************************************************)
EXTENDS Integers, SequencesExt

CONSTANTS
    Texts,               \* values of --payload-size
    Longest,             \* the length of the longest
    Payloads,            \* sizes out_cap is asked about by other callers
    TextMax,             \* the length from which a text is refused
    Kibi, Mebi, Gibi,    \* the multipliers
    IntMax,              \* INT64_MAX
    Modulus,             \* SIZE_MAX + 1
    Floor                \* floor_cap

ASSUME TextsAssumption ==
    /\ TextMax \in Nat /\ Longest \in Nat
    /\ \A t \in Texts : t \in Seq(STRING) /\ Len(t) <= Longest
ASSUME UnitsAssumption == {Kibi, Mebi, Gibi} \subseteq Nat \ {0}
ASSUME WidthAssumption ==
    /\ IntMax \in Nat /\ Modulus \in Nat \ {0} /\ Floor \in Nat
    /\ IntMax + IntMax \div 4 + Floor < Modulus
ASSUME PayloadsAssumption == Payloads \subseteq 0 .. Modulus - 1

VARIABLES
    pc,        \* parse, bound, done or rejected
    text,      \* the text that was given; empty for another caller
    payload,   \* the size of the payload
    cap        \* the capacity

vars == <<pc, text, payload, cap>>

Init ==
    \/ pc = "parse" /\ text \in Texts /\ payload = 0 /\ cap = 0
    \/ pc = "bound" /\ text = <<>> /\ payload \in Payloads /\ cap = 0

-----------------------------------------------------------------------------
(* parse_size.                                                             *)

DigitChars == <<"0", "1", "2", "3", "4", "5", "6", "7", "8", "9">>
Capitals == [k |-> "K", m |-> "M", g |-> "G", i |-> "I", b |-> "B"]
Upper(t) == [i \in DOMAIN t |-> IF t[i] \in DOMAIN Capitals THEN Capitals[t[i]] ELSE t[i]]

Printed(t) == {i \in DOMAIN t : t[i] # " "}
Trimmed(t) == IF Printed(t) = {} THEN <<>> ELSE SubSeq(t, Min(Printed(t)), Max(Printed(t)))

\* The table is searched in this order, the longest suffix of a unit first.
Table == <<
    [text |-> <<"K", "I", "B">>, mult |-> Kibi], [text |-> <<"K", "B">>, mult |-> Kibi],
    [text |-> <<"K">>, mult |-> Kibi],
    [text |-> <<"M", "I", "B">>, mult |-> Mebi], [text |-> <<"M", "B">>, mult |-> Mebi],
    [text |-> <<"M">>, mult |-> Mebi],
    [text |-> <<"G", "I", "B">>, mult |-> Gibi], [text |-> <<"G", "B">>, mult |-> Gibi],
    [text |-> <<"G">>, mult |-> Gibi],
    [text |-> <<"B">>, mult |-> 1] >>

Matches(t) == {i \in DOMAIN Table : IsSuffix(Table[i].text, t)}

\* Mutant: the last match wins.
SuffixLast(t) ==
    IF Matches(t) = {} THEN [text |-> <<>>, mult |-> 1] ELSE Table[Max(Matches(t))]

Suffix(t) ==
    IF Matches(t) = {} THEN [text |-> <<>>, mult |-> 1] ELSE Table[Min(Matches(t))]

\* What precedes the suffix, without the blanks between.
Figures(t) == Trimmed(SubSeq(t, 1, Len(t) - Len(Suffix(t).text)))

Digit(c) == (CHOOSE i \in 1 .. 10 : DigitChars[i] = c) - 1
Number(digits) ==
    LET value[n \in 0 .. Len(digits)] ==
            IF n = 0 THEN 0 ELSE 10 * value[n - 1] + Digit(digits[n])
    IN  value[Len(digits)]

\* Mutant: a multiplied size may exceed INT64_MAX.
FitsUnguarded(n, mult) == n \in 0 .. IntMax

\* strtoll in range, and a product that does not overflow.
Fits(n, mult) == n \in 0 .. IntMax /\ (mult > 1 => n <= IntMax \div mult)

WellFormed(t) ==
    /\ t # <<>> /\ Len(t) < TextMax
    /\ Figures(t) # <<>> /\ ToSet(Figures(t)) \subseteq ToSet(DigitChars)
    /\ Fits(Number(Figures(t)), Suffix(t).mult)

SizeOf(t) == Number(Figures(t)) * Suffix(t).mult

\* parse_size, then the rule that a payload has at least one byte.
ParseSize ==
    /\ pc = "parse"
    /\ LET t == Upper(Trimmed(text)) IN
         /\ WellFormed(t) /\ SizeOf(t) >= 1
         /\ payload' = SizeOf(t)
    /\ pc' = "bound"
    /\ UNCHANGED <<text, cap>>

ParseRejects ==
    /\ pc = "parse"
    /\ LET t == Upper(Trimmed(text)) IN ~ (WellFormed(t) /\ SizeOf(t) >= 1)
    /\ pc' = "rejected"
    /\ UNCHANGED <<text, payload, cap>>

-----------------------------------------------------------------------------
(* out_cap.                                                                *)

Wrap(n) == n % Modulus
Quarter(p) == Wrap(p + p \div 4)

\* Mutant: the second sum is not guarded.
OverflowsOnce(p) == Quarter(p) < p

Overflows(p) == Quarter(p) < p \/ Wrap(Quarter(p) + Floor) < Quarter(p)

OutCap(p) ==
    IF Overflows(p) THEN p
    ELSE IF Wrap(Quarter(p) + Floor) > Floor THEN Wrap(Quarter(p) + Floor) ELSE Floor

OutBound ==
    /\ pc = "bound"
    /\ cap' = OutCap(payload)
    /\ pc' = "done"
    /\ UNCHANGED <<text, payload>>

Stopped == pc \in {"done", "rejected"} /\ UNCHANGED vars

Next == ParseSize \/ ParseRejects \/ OutBound \/ Stopped

Spec == Init /\ [][Next]_vars

-----------------------------------------------------------------------------
(* Properties.                                                             *)

\* The types of the variables: a parsed size is an int64_t, a capacity a size_t.
TypeOK ==
    /\ pc \in {"parse", "bound", "done", "rejected"} /\ text \in Texts \cup {<<>>}
    /\ payload \in 0 .. Modulus - 1 /\ cap \in 0 .. Modulus - 1

\* The grammar the comment of parse_size gives, read the other way round: every
\* text over the characters in use that spells a size, with that size.
Glyphs == UNION {ToSet(t) : t \in Texts}
Blanks == {[i \in 1 .. n |-> " "] : n \in 0 .. Longest}
Units == [text : {<<>>}, mult : {1}] \cup ToSet(Table)
Spellings(unit) == {s \in BoundedSeq(Glyphs, 3) : Upper(s) = unit.text}
Numerals == {d \in BoundedSeq(Glyphs \cap ToSet(DigitChars), Longest) : d # <<>>}

Core(unit) ==
    {<<d \o b \o s, Number(d) * unit.mult>> : d \in Numerals, b \in Blanks, s \in Spellings(unit)}
Fitting ==
    {w \in UNION {Core(u) : u \in Units} :
        w[2] <= IntMax /\ Len(w[1]) <= Longest /\ Len(w[1]) < TextMax}
Padded(a, c, w) == <<a \o w[1] \o c, w[2]>>
Written == {Padded(a, c, w) : a \in Blanks, c \in Blanks, w \in Fitting}

\* Every text is read as the size it spells, in any case and with blanks around
\* and before the suffix, and a text that spells none, or one beyond the widths,
\* is refused.
ReadAsWritten ==
    /\ text # <<>> /\ pc \in {"bound", "done"} => <<text, payload>> \in Written
    /\ pc = "rejected" => \A w \in Written : w[1] = text => w[2] = 0

\* internal.hpp: out_cap is payload * 5/4 + 131072, and the size itself exactly
\* when that would not fit in a size_t.  No other wrap passes its two guards.
CapExact ==
    pc = "done" =>
        cap = LET exact == payload + payload \div 4 + Floor IN
              IF exact < Modulus THEN exact ELSE payload

\* A payload the harness was given as a text always gets its head-room: the
\* range parse_size allows never reaches the overflow path of out_cap.
ParsedHasHeadroom ==
    pc = "done" /\ text # <<>> => cap >= payload + Floor

=============================================================================
