-------------------------- MODULE BufferCallProofs --------------------------
(***************************************************************************)
(* Theorems about BufferCall, for every size of buffer and output and any  *)
(* number of changes under the call.                                       *)
(***************************************************************************)
EXTENDS BufferCall, TLAPS

\* What the length and the status of the last answer say of the buffer.
AnswerInv ==
    /\ TakenTooSmall => n \in Sizes
    /\ rc = "ok" /\ pc \in {"first", "second"} => n = buf.holds \/ n > buf.size
    /\ result.size = result.holds

\* Where a copy of the output can be: in the buffer until the hand-over, then in
\* the result, which only a call that went well has.
TraceInv ==
    /\ Wipes => ~ spilt
    /\ pc \in {"drop", "returned"} /\ Retries => buf.holds = 0
    /\ pc \notin {"drop", "returned"} => result.holds = 0
    /\ pc = "drop" => style = "init" /\ rc = "ok"
    /\ pc = "returned" /\ result.holds > 0 => style # "init" /\ rc = "ok"

\* As long as every length is true, the second buffer has the size the object had
\* at the first call, and only a larger object is too much for it.
GrownInv ==
    ~ lied =>
        /\ pc = "call" => met = <<>>
        /\ pc \in {"first", "again"} => Len(met) = 1
        /\ pc = "first" /\ rc = "too_small" => n = met[1] /\ n > buf.size
        /\ pc = "again" => buf.size = met[1]
        /\ pc = "second" => Len(met) = 2
        /\ pc \in {"second", "drop", "returned"} /\ rc = "too_small" =>
              ~ Retries \/ (Len(met) = 2 /\ met[1] < met[2])

\* A length the library reported truly was the size of the object then; nothing is
\* in the caller's hands before the hand-over.
HistoryInv ==
    /\ object \in offered
    /\ rc = "ok" /\ pc \in {"first", "second"} => n > buf.size \/ n \in offered
    /\ pc \notin {"drop", "returned"} => result.size = 0
    /\ pc = "drop" => rc = "ok"
    /\ rc # "ok" => result.size = 0

IInv == TypeOK /\ AnswerInv /\ TraceInv

-----------------------------------------------------------------------------
\* The sizes are numbers.
LEMMA Numbers ==
  ASSUME TypeOK
  PROVE  buf.size \in Nat /\ object \in Nat
  <1>1. ASSUME NEW x \in FirstCaps \cup Sizes \cup {0} PROVE x \in Nat
    BY SizesAssumption
  <1>2. buf.size \in FirstCaps \cup Sizes \cup {0} /\ object \in Sizes
    BY DEF TypeOK
  <1> QED
    BY <1>1, <1>2

\* It holds at the start.
LEMMA InitFact == Init => IInv
  <1> SUFFICES ASSUME Init PROVE IInv
    OBVIOUS
  <1>1. /\ buf.size \in FirstCaps /\ buf.holds = 0 /\ buf = [size |-> buf.size, holds |-> buf.holds]
        /\ buf.size \in Nat
    BY SizesAssumption DEF Init
  <1>2. ~ spilt /\ spilt \in BOOLEAN /\ ~ lied /\ lied \in BOOLEAN
    BY DEF Init
  <1>3. TypeOK
    BY <1>1, <1>2, SizesAssumption DEF Init, TypeOK, Nothing
  <1> QED
    BY <1>1, <1>2, <1>3 DEF Init, IInv, AnswerInv, TraceInv, Nothing, TakenTooSmall

\* Giving a buffer back, or the blob that init drops: once wiped, it leaves nothing
\* in the memory.
LEMMA Scrubs ==
  ASSUME TypeOK
  PROVE  /\ GiveBack(Scrubbed(buf)) => spilt' \in BOOLEAN /\ (Wipes => (spilt' <=> spilt))
         /\ GiveBack(Wiped(result)) => spilt' \in BOOLEAN /\ (spilt' <=> spilt)
  <1>1. Wiped(buf).holds = 0 /\ Wiped(result).holds = 0
    BY DEF TypeOK, Wiped
  <1>2. Wipes => Scrubbed(buf).holds = 0
    BY <1>1 DEF Scrubbed
  <1>3. ~ (0 > 0)
    OBVIOUS
  <1>4. ASSUME NEW b, GiveBack(b) PROVE spilt' \in BOOLEAN /\ (b.holds = 0 => (spilt' <=> spilt))
    BY <1>3, <1>4 DEF GiveBack, TypeOK
  <1> QED
    BY <1>1, <1>2, <1>4

\* The same at a way out, for the buffer the dispatch has.
LEMMA Released ==
  ASSUME TypeOK, Release
  PROVE  /\ buf' = IF Retries THEN Nothing ELSE buf
         /\ spilt' \in BOOLEAN
         /\ Wipes => (spilt' <=> spilt)
  <1>1. CASE ~ Retries
    BY <1>1 DEF TypeOK, Release, Wipes, Retries
  <1>2. CASE Retries
    BY <1>2, Scrubs DEF Release
  <1> QED
    BY <1>1, <1>2

\* The object's size at a call joins those of the calls before.
LEMMA Met ==
  ASSUME TypeOK, met' = Append(met, object)
  PROVE  /\ met' \in Seq(Sizes)
         /\ Len(met') = Len(met) + 1 /\ met'[Len(met) + 1] = object
         /\ \A i \in 1 .. Len(met) : met'[i] = met[i]
  BY DEF TypeOK

\* An answer of the library that stays in the buffer.
LEMMA Answers ==
  ASSUME TypeOK, NEW status \in {"ok", "too_small", "failed"}, NEW len \in Nat,
         NEW held \in Nat, held <= buf.size, NEW lie \in BOOLEAN, Answer(status, len, held, lie)
  PROVE  /\ TypeOK' /\ pc' \in {"first", "second"} /\ rc' = status /\ n' = len
         /\ buf'.size = buf.size /\ buf'.holds = held /\ UNCHANGED <<style, result>>
  <1> USE DEF Answer
  <1>1. buf' = [buf EXCEPT !.holds = held] /\ buf' \in [size : FirstCaps \cup Sizes \cup {0}, holds : Nat]
        /\ buf'.size = buf.size /\ buf'.holds = held
    BY DEF TypeOK
  <1>2. met' \in Seq(Sizes)
    BY Met
  <1>3. lied' \in BOOLEAN
    BY DEF TypeOK
  <1> QED
    BY <1>1, <1>2, <1>3 DEF TypeOK

\* What an answer says of the buffer.
LEMMA LibraryStep ==
  ASSUME IInv, Library
  PROVE  TypeOK' /\ AnswerInv'
  <1>1. TypeOK /\ result.size = result.holds /\ buf.size \in Nat /\ object \in Nat /\ object \in Sizes
        /\ 0 \in Nat /\ 0 <= buf.size /\ buf.size <= buf.size /\ buf.size + 1 \in Nat
        /\ \A held \in {0, buf.size} : held \in Nat /\ held <= buf.size
    BY Numbers DEF IInv, AnswerInv, TypeOK
  <1>2. CASE Fits
    <2>1. Answer("ok", object, object, FALSE) /\ object <= buf.size
      BY <1>2 DEF Fits
    <2>2. TypeOK' /\ rc' = "ok" /\ n' = object /\ buf'.holds = object /\ result' = result
      BY <1>1, <2>1, Answers
    <2> QED
      BY <1>1, <2>2 DEF AnswerInv, TakenTooSmall
  <1>3. CASE TooSmall
    <2>1. PICK held \in {0, buf.size} : Answer("too_small", object, held, FALSE)
      BY <1>3 DEF TooSmall
    <2>2. TypeOK' /\ rc' = "too_small" /\ n' = object /\ result' = result
      BY <1>1, <2>1, Answers
    <2> QED
      BY <1>1, <2>2, SizesAssumption DEF AnswerInv, TypeOK
  <1>4. CASE Fails
    <2>1. PICK held \in {0, buf.size} : Answer("failed", 0, held, FALSE)
      BY <1>4 DEF Fails
    <2>2. TypeOK' /\ rc' = "failed" /\ result' = result
      BY <1>1, <2>1, Answers
    <2> QED
      BY <1>1, <2>2 DEF AnswerInv, TakenTooSmall
  <1>5. CASE Answer("ok", buf.size + 1, buf.size, TRUE)
    <2>1. TypeOK' /\ rc' = "ok" /\ n' = buf.size + 1 /\ buf'.size = buf.size /\ result' = result
      BY <1>1, <1>5, Answers
    <2> QED
      BY <1>1, <2>1 DEF AnswerInv, TakenTooSmall
  <1>6. CASE Answer("too_small", buf.size, 0, TRUE)
    <2>1. TypeOK' /\ rc' = "too_small" /\ n' = buf.size /\ buf'.size = buf.size /\ result' = result
      BY <1>1, <1>6, Answers
    <2> QED
      BY <1>1, <2>1 DEF AnswerInv, TakenTooSmall
  <1> QED
    BY <1>2, <1>3, <1>4, <1>5, <1>6 DEF Library, Miscounts

\* Every step keeps the types and what the last answer says.
LEMMA AnswerStep ==
  ASSUME IInv, [Next]_vars
  PROVE  TypeOK' /\ AnswerInv'
  <1> USE SizesAssumption DEF IInv, TypeOK, AnswerInv, Nothing, Retries, TakenTooSmall
  <1> TypeOK /\ buf.size \in Nat /\ object \in Nat
    BY Numbers
  <1>1. CASE Change
    BY <1>1 DEF Change
  <1>2. CASE Library
    BY <1>2, LibraryStep
  <1>3. CASE Grow
    BY <1>3, Scrubs DEF Grow
  <1>4. CASE GrowThrows
    BY <1>4, Released DEF GrowThrows, Throw
  <1>5. CASE Failed
    BY <1>5, Released DEF Failed, Throw, Answered
  <1>6. CASE OutOfRange
    BY <1>6, Released DEF OutOfRange, Throw, Answered
  <1>7. CASE CopyThrows
    BY <1>7, Released DEF CopyThrows, Throw, Answered
  <1>8. CASE HandOver
    BY <1>8, Released DEF HandOver, Answered
  <1>9. CASE DropBlob
    BY <1>9, Scrubs DEF DropBlob
  <1>10. CASE Stopped
    BY <1>10 DEF Stopped, vars
  <1>11. CASE UNCHANGED vars
    BY <1>11 DEF vars
  <1> QED
    BY <1>1, <1>2, <1>3, <1>4, <1>5, <1>6, <1>7, <1>8, <1>9, <1>10, <1>11 DEF Next, Dispatch

\* Every step keeps account of the copies of the output.
LEMMA TraceStep ==
  ASSUME IInv, [Next]_vars
  PROVE  TraceInv'
  <1> USE DEF IInv, TraceInv, Nothing, Retries, Wipes, TakenTooSmall
  <1> TypeOK
    OBVIOUS
  <1>1. CASE Change
    BY <1>1 DEF Change
  <1>2. CASE Fits
    BY <1>2 DEF Fits, Answer
  <1>3. CASE TooSmall
    BY <1>3 DEF TooSmall, Answer
  <1>4. CASE Fails
    BY <1>4 DEF Fails, Answer
  <1>5. CASE Miscounts
    BY <1>5 DEF Miscounts, Answer
  <1>6. CASE Grow
    BY <1>6, Scrubs DEF Grow
  <1>7. CASE GrowThrows
    BY <1>7, Released DEF GrowThrows, Throw
  <1>8. CASE Failed
    BY <1>8, Released DEF Failed, Throw, Answered
  <1>9. CASE OutOfRange
    BY <1>9, Released DEF OutOfRange, Throw, Answered
  <1>10. CASE CopyThrows
    BY <1>10, Released DEF CopyThrows, Throw, Answered
  <1>11. CASE HandOver
    BY <1>11, Released DEF HandOver, Answered
  <1>12. CASE DropBlob
    BY <1>12, Scrubs DEF DropBlob
  <1>13. CASE Stopped
    BY <1>13 DEF Stopped, vars
  <1>14. CASE UNCHANGED vars
    BY <1>14 DEF vars
  <1> QED
    BY <1>1, <1>2, <1>3, <1>4, <1>5, <1>6, <1>7, <1>8, <1>9, <1>10, <1>11, <1>12, <1>13, <1>14 DEF Next, Library, Dispatch

\* The object's sizes at the two calls, and the buffers'.
LEMMA GrownStep ==
  ASSUME IInv, GrownInv, [Next]_vars
  PROVE  GrownInv'
  <1> USE DEF IInv, GrownInv, Nothing, Retries, TakenTooSmall
  <1> /\ TypeOK /\ buf.size \in Nat /\ object \in Nat /\ n \in Nat /\ lied \in BOOLEAN
      /\ met \in Seq(Sizes) /\ Sizes \subseteq Nat
    BY Numbers, SizesAssumption DEF TypeOK
  <1>1. CASE Change
    BY <1>1 DEF Change
  <1>2. CASE Fits
    BY <1>2, Met DEF Fits, Answer
  <1>3. CASE TooSmall
    BY <1>3, Met DEF TooSmall, Answer
  <1>4. CASE Fails
    BY <1>4, Met DEF Fails, Answer
  <1>5. CASE Miscounts
    BY <1>5, Met DEF Miscounts, Answer
  <1>6. CASE Grow
    BY <1>6, Scrubs DEF Grow
  <1>7. CASE GrowThrows
    BY <1>7, Released DEF GrowThrows, Throw
  <1>8. CASE Failed
    BY <1>8, Released DEF Failed, Throw, Answered
  <1>9. CASE OutOfRange
    BY <1>9, Released DEF OutOfRange, Throw, Answered
  <1>10. CASE CopyThrows
    BY <1>10, Released DEF CopyThrows, Throw, Answered
  <1>11. CASE HandOver
    BY <1>11, Released DEF HandOver, Answered
  <1>12. CASE DropBlob
    BY <1>12, Scrubs DEF DropBlob
  <1>13. CASE Stopped
    BY <1>13 DEF Stopped, vars
  <1>14. CASE UNCHANGED vars
    BY <1>14 DEF vars
  <1> QED
    BY <1>1, <1>2, <1>3, <1>4, <1>5, <1>6, <1>7, <1>8, <1>9, <1>10, <1>11, <1>12, <1>13, <1>14 DEF Next, Library, Dispatch

\* Every step keeps the history.
LEMMA HistoryStep ==
  ASSUME IInv, HistoryInv, [Next]_vars
  PROVE  HistoryInv'
  <1> USE SizesAssumption DEF IInv, TypeOK, AnswerInv, HistoryInv, Nothing, Retries, TakenTooSmall, GiveBack
  <1> buf.size \in Nat /\ object \in Nat
    BY Numbers
  <1>1. CASE Change
    BY <1>1 DEF Change
  <1>2. CASE Fits
    BY <1>2 DEF Fits, Answer
  <1>3. CASE TooSmall
    BY <1>3 DEF TooSmall, Answer
  <1>4. CASE Fails
    BY <1>4 DEF Fails, Answer
  <1>5. CASE Miscounts
    <2>1. CASE Answer("ok", buf.size + 1, buf.size, TRUE)
      BY <2>1 DEF Answer
    <2>2. CASE Answer("too_small", buf.size, 0, TRUE)
      BY <2>2 DEF Answer
    <2> QED
      BY <1>5, <2>1, <2>2 DEF Miscounts
  <1>6. CASE Grow
    BY <1>6 DEF Grow
  <1>7. CASE GrowThrows
    BY <1>7 DEF GrowThrows, Throw
  <1>8. CASE Failed
    BY <1>8 DEF Failed, Throw, Answered
  <1>9. CASE OutOfRange
    BY <1>9 DEF OutOfRange, Throw, Answered
  <1>10. CASE CopyThrows
    BY <1>10 DEF CopyThrows, Throw, Answered
  <1>11. CASE HandOver
    BY <1>11 DEF HandOver, Answered
  <1>12. CASE DropBlob
    BY <1>12 DEF DropBlob
  <1>13. CASE Stopped
    BY <1>13 DEF Stopped, vars
  <1>14. CASE UNCHANGED vars
    BY <1>14 DEF vars
  <1> QED
    BY <1>1, <1>2, <1>3, <1>4, <1>5, <1>6, <1>7, <1>8, <1>9, <1>10, <1>11, <1>12, <1>13, <1>14 DEF Next, Library, Dispatch

\* Every step of the dispatch is one of the call its caller sees, or none.
LEMMA CallStep ==
  ASSUME IInv, HistoryInv, [Next]_vars
  PROVE  [Call!Next]_(Call!callVars)
  <1> USE SizesAssumption DEF IInv, TypeOK, AnswerInv, HistoryInv, Nothing, Retries, TakenTooSmall, Call!callVars
  <1>1. CASE Change
    BY <1>1 DEF Change, Call!Next, Call!Change
  <1>2. CASE Fits
    BY <1>2 DEF Fits, Answer
  <1>3. CASE TooSmall
    BY <1>3 DEF TooSmall, Answer
  <1>4. CASE Fails
    BY <1>4 DEF Fails, Answer
  <1>5. CASE Miscounts
    BY <1>5 DEF Miscounts, Answer
  <1>6. CASE Grow
    BY <1>6 DEF Grow
  <1>7. CASE GrowThrows
    BY <1>7 DEF GrowThrows, Throw, Call!Next, Call!Refuse
  <1>8. CASE Failed
    BY <1>8 DEF Failed, Throw, Answered, Call!Next, Call!Refuse
  <1>9. CASE OutOfRange
    BY <1>9 DEF OutOfRange, Throw, Answered, Call!Next, Call!Refuse
  <1>10. CASE CopyThrows
    BY <1>10 DEF CopyThrows, Throw, Answered, Call!Next, Call!Refuse
  <1>11. CASE HandOver
    <2>1. /\ pc \in {"first", "second"} /\ rc = "ok" /\ rc' = rc /\ offered' = offered
          /\ pc' \in {"drop", "returned"} /\ result'.size = n
      BY <1>11 DEF HandOver, Answered
    <2>2. n \in offered
      <3>1. n <= buf.size
        BY <1>11 DEF HandOver
      <3>2. n > buf.size \/ n \in offered
        BY <2>1 DEF HistoryInv
      <3>3. n \in Nat
        BY DEF TypeOK
      <3>4. buf.size \in Nat
        BY Numbers
      <3> QED
        BY <3>1, <3>2, <3>3, <3>4
    <2>3. Call!Deliver
      BY <2>1, <2>2 DEF Call!Deliver
    <2> QED
      BY <2>3 DEF Call!Next
  <1>12. CASE DropBlob
    BY <1>12 DEF DropBlob, Call!Next, Call!Forget
  <1>13. CASE Stopped
    BY <1>13 DEF Stopped, vars
  <1>14. CASE UNCHANGED vars
    BY <1>14 DEF vars
  <1> QED
    BY <1>1, <1>2, <1>3, <1>4, <1>5, <1>6, <1>7, <1>8, <1>9, <1>10, <1>11, <1>12, <1>13, <1>14 DEF Next, Library, Dispatch

-----------------------------------------------------------------------------
(* The theorems.                                                           *)

\* The invariant holds throughout.
LEMMA Invariance == Spec => []IInv
  <1>1. IInv /\ [Next]_vars => IInv'
    BY AnswerStep, TraceStep DEF IInv
  <1> QED
    BY InitFact, <1>1, PTL DEF Spec

\* The variables keep their types, and scratch buffers their two sizes.
THEOREM TypeCorrectness == Spec => []TypeOK
  BY Invariance, PTL DEF IInv

\* Every way out of buf_call, thrown exceptions included, leaves no copy of a blob
\* behind but the one its caller asked for.
THEOREM BlobsAreWiped == Spec => []BlobLeavesNoTrace
  <1>1. IInv => BlobLeavesNoTrace
    BY DEF IInv, TypeOK, TraceInv, BlobLeavesNoTrace, Wipes, Retries
  <1> QED
    BY <1>1, Invariance, PTL

\* What is handed over is the whole output of one library call.
THEOREM OutputsAreWhole == Spec => []WholeOutputOfOneCall
  <1>1. IInv => WholeOutputOfOneCall
    BY DEF IInv, AnswerInv, WholeOutputOfOneCall
  <1> QED
    BY <1>1, Invariance, PTL

\* One retry is enough, unless the object grew between the two calls: a dispatch
\* that retries gives up for no other reason, as long as the lengths are true.
THEOREM OneRetryIsEnough == Spec => []TooSmallOnlyIfGrown
  <1>1. Init => GrownInv
    BY DEF Init, GrownInv, TakenTooSmall
  <1>2. IInv /\ GrownInv /\ [Next]_vars => GrownInv'
    BY GrownStep
  <1>3. IInv /\ GrownInv => TooSmallOnlyIfGrown
    BY DEF IInv, TypeOK, GrownInv, TooSmallOnlyIfGrown
  <1> QED
    BY <1>1, <1>2, <1>3, Invariance, PTL DEF Spec

\* Over its one or two calls of the library, the dispatch is one call that delivers
\* an output the object really had, whole, or throws.
THEOREM DispatchIsOneCall == Spec => DeliversWholeOrRefuses
  <1>1. Init => HistoryInv /\ Call!Init
    BY SizesAssumption DEF Init, HistoryInv, Nothing, Call!Init
  <1>2. IInv /\ HistoryInv /\ [Next]_vars => HistoryInv'
    BY HistoryStep
  <1>3. IInv /\ HistoryInv /\ [Next]_vars => [Call!Next]_(Call!callVars)
    BY CallStep
  <1> QED
    BY <1>1, <1>2, <1>3, Invariance, PTL DEF Spec, DeliversWholeOrRefuses, Call!Spec

=============================================================================
