------------------------- MODULE DiagnosticsProofs -------------------------
(***************************************************************************)
(* Theorems about Diagnostics, for any number of threads, calls and        *)
(* lengths of sentences.                                                   *)
(***************************************************************************)
EXTENDS Diagnostics, TLAPS

\* Until another call fails, the library still keeps the thread's sentence, and
\* a second fetch asks for its length; after it, the sentence is another's.
OwnInv ==
    \A t \in Threads :
        /\ pc[t] # "idle" => last = mine[t] \/ (overtaken[t] /\ last.by # t)
        /\ pc[t] = "refetch" => need[t] = mine[t].len \/ overtaken[t]
        /\ Thrown(t) => \/ text[t]["what"] = mine[t]
                        \/ refused[t] /\ text[t]["what"] = Empty
                        \/ overtaken[t] /\ text[t]["what"].by # t

\* A report is fetched only by a handler that caught something.
ReportInv == \A t \in Threads : field[t] = "line" => pc[t] \in {"fetch", "refetch"}

IInv == TypeOK /\ ReportInv

-----------------------------------------------------------------------------
\* Sentences have lengths, and Empty is one more text.
LEMMA SentenceFact ==
  /\ \A s \in Sentences : s.len \in Lengths
  /\ Empty.len = 0
  /\ \A t \in Threads, c \in 1 .. MaxCalls, l \in Lengths :
       [by |-> t, call |-> c, len |-> l, whole |-> TRUE] \in Sentences
  BY DEF Sentences, Empty

\* Lengths are numbers.
LEMMA LengthFact == \A s \in Sentences \cup {Empty} : s.len \in Nat
  <1>1. ASSUME NEW s \in Sentences PROVE s.len \in Nat
    BY LengthsAssumption DEF Sentences
  <1>2. Empty.len = 0
    BY DEF Empty
  <1> QED
    BY <1>1, <1>2

\* The invariants hold at the start.
LEMMA InitFact == Init => IInv /\ OwnInv
  <1> SUFFICES ASSUME Init PROVE IInv /\ OwnInv
    OBVIOUS
  <1>1. Blank \in [Texts -> Sentences \cup {Empty}]
    BY DEF Blank
  <1>2. TypeOK
    BY <1>1, LengthsAssumption DEF Init, TypeOK, Texts
  <1> QED
    BY <1>2 DEF Init, IInv, ReportInv, OwnInv, Thrown, Texts

\* Every step keeps the types: no fetch cuts a sentence.
LEMMA TypeStep ==
  ASSUME IInv, [Next]_vars
  PROVE  IInv'
  <1> USE LengthsAssumption, SentenceFact DEF IInv, TypeOK, ReportInv, GoTo
  <1>1. ASSUME NEW t \in Threads, CallFails(t) PROVE IInv'
    <2>1. PICK l \in Lengths : last' = [by |-> t, call |-> calls[t] + 1, len |-> l, whole |-> TRUE]
      BY <1>1 DEF CallFails
    <2>2. calls[t] + 1 \in 1 .. MaxCalls /\ last' \in Sentences
      BY <1>1, <2>1 DEF CallFails
    <2>3. Blank \in [Texts -> Sentences \cup {Empty}]
      BY DEF Blank
    <2> QED
      BY <1>1, <2>2, <2>3 DEF CallFails
  <1>2. ASSUME NEW t \in Threads, NEW s \in Sentences \cup {Empty}, Deliver(t, s), UNCHANGED need,
                refused' \in [Threads -> BOOLEAN]
         PROVE  IInv'
    <2>1. [text[t] EXCEPT ![field[t]] = s] \in [Texts -> Sentences \cup {Empty}]
      OBVIOUS
    <2> QED
      BY <1>2, <2>1 DEF Deliver, Texts
  <1>3. ASSUME NEW t \in Threads, FetchTooSmall(t) PROVE IInv'
    <2>1. last.len \in Lengths \cup {0}
      OBVIOUS
    <2> QED
      BY <1>3, <2>1 DEF FetchTooSmall
  <1>4. ASSUME NEW t \in Threads, Fetch(t) \/ Refetch(t) \/ FetchFails(t) PROVE IInv'
    BY <1>2, <1>4 DEF Fetch, Refetch, FetchFails
  <1>5. ASSUME NEW t \in Threads, HandleWhat(t) PROVE IInv'
    BY <1>5 DEF HandleWhat
  <1>6. ASSUME NEW t \in Threads, HandleDetail(t) PROVE IInv'
    BY <1>6 DEF HandleDetail, Texts
  <1>7. CASE Stopped \/ UNCHANGED vars
    BY <1>7 DEF Stopped, vars
  <1> QED
    BY <1>1, <1>3, <1>4, <1>5, <1>6, <1>7 DEF Next, Step

\* Every step keeps a thread that nobody overtook on its own sentence.
LEMMA OwnStep ==
  ASSUME IInv, OwnInv, [Next]_vars
  PROVE  OwnInv'
  <1> USE LengthsAssumption DEF IInv, TypeOK, ReportInv, OwnInv, Thrown, GoTo, Deliver, Texts
  <1>1. ASSUME NEW t \in Threads, CallFails(t) PROVE OwnInv'
    <2>1. ASSUME NEW u \in Threads, u # t PROVE OwnInv!(u)'
      <3>1. /\ last'.by # u /\ pc'[u] = pc[u] /\ field'[u] = field[u] /\ calls'[u] = calls[u]
            /\ mine'[u] = mine[u] /\ text'[u] = text[u] /\ refused'[u] = refused[u]
        BY <1>1, <2>1 DEF CallFails
      <3>2. overtaken[u] \/ pc[u] # "idle" => overtaken'[u]
        <4>1. overtaken' = [v \in Threads |-> v # t /\ (overtaken[v] \/ pc[v] # "idle")]
          BY <1>1 DEF CallFails
        <4>2. overtaken'[u] = (u # t /\ (overtaken[u] \/ pc[u] # "idle"))
          BY <4>1
        <4> QED
          BY <2>1, <4>2
      <3> QED
        BY <2>1, <3>1, <3>2
    <2>2. OwnInv!(t)'
      <3>1. pc'[t] = "fetch" /\ field'[t] = "what" /\ mine'[t] = last'
        BY <1>1 DEF CallFails
      <3> QED
        BY <3>1
    <2> QED
      BY <2>1, <2>2
  <1>2. ASSUME NEW t \in Threads, Fetch(t) PROVE OwnInv'
    BY <1>2 DEF Fetch
  <1>3. ASSUME NEW t \in Threads, FetchTooSmall(t) PROVE OwnInv'
    BY <1>3 DEF FetchTooSmall
  <1>4. ASSUME NEW t \in Threads, Refetch(t) PROVE OwnInv'
    <2>1. PICK s \in {last, Empty} : Deliver(t, s) /\ (last.len <= need[t] => s = last)
      BY <1>4 DEF Refetch
    <2>2. s = mine[t] \/ (overtaken[t] /\ s.by # t)
      <3>1. last.len \in Nat
        BY LengthFact
      <3>2. CASE overtaken[t] /\ last.by # t
        BY <2>1, <3>2, NoneAssumption DEF Empty
      <3>3. CASE last = mine[t]
        BY <1>4, <2>1, <3>1, <3>3, NoneAssumption DEF Refetch, Empty
      <3> QED
        BY <1>4, <3>2, <3>3 DEF Refetch
    <2> QED
      BY <1>4, <2>1, <2>2 DEF Refetch
  <1>5. ASSUME NEW t \in Threads, HandleWhat(t) PROVE OwnInv'
    BY <1>5 DEF HandleWhat
  <1>6. ASSUME NEW t \in Threads, HandleDetail(t) PROVE OwnInv'
    BY <1>6 DEF HandleDetail
  <1>7. ASSUME NEW t \in Threads, FetchFails(t) PROVE OwnInv'
    <2>1. Deliver(t, Empty) /\ (field[t] = "what" => refused'[t])
      BY <1>7 DEF FetchFails
    <2>2. \A u \in Threads : refused[u] => refused'[u]
      BY <1>7 DEF FetchFails
    <2> QED
      BY <1>7, <2>1, <2>2 DEF FetchFails
  <1>8. CASE Stopped \/ UNCHANGED vars
    BY <1>8 DEF Stopped, vars
  <1> QED
    BY <1>1, <1>2, <1>3, <1>4, <1>5, <1>6, <1>7, <1>8 DEF Next, Step

-----------------------------------------------------------------------------
(* The theorems.                                                           *)

\* Types hold, and with them: no text is ever a cut sentence.
THEOREM TypeCorrectness == Spec => []TypeOK
  <1>1. IInv /\ [Next]_vars => IInv'
    BY TypeStep
  <1> QED
    BY InitFact, <1>1, PTL DEF Spec, IInv

\* An exception carries its own call's sentence unless another call failed first.
THEOREM ExceptionsCarryTheirSentence == Spec => []OwnUnlessOvertaken
  <1>1. IInv /\ OwnInv /\ [Next]_vars => IInv' /\ OwnInv'
    BY TypeStep, OwnStep
  <1>2. OwnInv => OwnUnlessOvertaken
    BY DEF OwnInv, OwnUnlessOvertaken
  <1> QED
    BY InitFact, <1>1, <1>2, PTL DEF Spec

=============================================================================
