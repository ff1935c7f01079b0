----------------------- MODULE PipelineHandlesProofs -----------------------
(***************************************************************************)
(* Theorems about PipelineHandles, for any number of objects and handles.  *)
(*                                                                         *)
(* The inductive invariant says which single object, or constructor local, *)
(* holds each Go-side resource that is not unborn or freed; the life cycle *)
(* of HandleLifecycle is then read off step by step.                       *)
(***************************************************************************)
EXTENDS PipelineHandles, TLAPS

-----------------------------------------------------------------------------
(* The inductive invariant.                                                *)

\* At most one holder per pipeline, and what is held is not freed.
HolderInv ==
    /\ \A o \in Pipelines : obj[o] \in Handles =>
         /\ go[obj[o]] \in {"open", "closed"}
         /\ ctor.handle # obj[o]
         /\ \A p \in Pipelines : obj[p] = obj[o] => p = o
    /\ ctor.handle \in Handles => go[ctor.handle] = "open" /\ ctor.at \in Pipelines /\ ctor.try > 0
    /\ ctor.try > 0 => ctor.at \in Pipelines
    /\ ctor.at \in Pipelines => obj[ctor.at] = Absent
    /\ \A h \in lost : /\ go[h] = "open" /\ ctor.handle # h
                       /\ \A o \in Pipelines : obj[o] # h

\* At most one holder per session, and what is held is running.
StreamHolderInv ==
    \A s \in Streams : strm[s] \in Sessions =>
        /\ session[strm[s]] = "open"
        /\ \A t \in Streams : strm[t] = strm[s] => t = s

IInv == TypeOK /\ HolderInv /\ StreamHolderInv

\* At least one holder for every pipeline the Go side keeps.
OwnerInv ==
    \A h \in Handles : go[h] \in {"open", "closed"} =>
        LocalHas(h) \/ \E o \in Pipelines : obj[o] = h

\* At least one holder for every session the Go side keeps.
StreamOwnerInv ==
    \A x \in Sessions : session[x] = "open" => \E s \in Streams : strm[s] = x

-----------------------------------------------------------------------------
\* The invariants hold at the start.
LEMMA InitFact == Init => IInv /\ OwnerInv /\ StreamOwnerInv
  BY NamesAssumption DEF Init, IInv, TypeOK, HolderInv, StreamHolderInv, OwnerInv, StreamOwnerInv, LocalHas, Idle

\* Every pipeline operation keeps the single holder.
LEMMA PipelineKeepsIInv ==
  ASSUME IInv, PipelineStep
  PROVE  IInv'
  <1> USE NamesAssumption DEF IInv, TypeOK, HolderInv, StreamHolderInv, Ready, Idle
  <1>1. ASSUME NEW o \in Pipelines, InitCalled(o) PROVE IInv'
    BY <1>1 DEF InitCalled
  <1>2. ASSUME NEW o \in Pipelines, Destroy(o) PROVE IInv'
    BY <1>2 DEF Destroy, Freed
  <1>3. ASSUME NEW o \in Pipelines, Close(o) PROVE IInv'
    BY <1>3 DEF Close
  <1>4. ASSUME NEW o \in Pipelines, NEW h \in Handles, Load(o, h) PROVE IInv'
    BY <1>4 DEF Load
  <1>5. ASSUME NEW o \in Pipelines, NEW p \in Pipelines, MoveConstruct(o, p) PROVE IInv'
    BY <1>5 DEF MoveConstruct
  <1>6. ASSUME NEW o \in Pipelines, NEW p \in Pipelines, MoveAssign(o, p) PROVE IInv'
    BY <1>6 DEF MoveAssign, Freed
  <1>7. CASE InitRetried
    BY <1>7 DEF InitRetried
  <1>8. CASE InitFailed
    BY <1>8 DEF InitFailed
  <1>9. CASE InitMiscounted \/ InitCopyThrows
    BY <1>9 DEF InitMiscounted, InitCopyThrows, Losing
  <1>10. CASE InitReturns
    BY <1>10 DEF InitReturns
  <1>11. ASSUME NEW h \in Handles, InitSucceeded(h) PROVE IInv'
    BY <1>11 DEF InitSucceeded
  <1> QED
    BY <1>1, <1>2, <1>3, <1>4, <1>5, <1>6, <1>7, <1>8, <1>9, <1>10, <1>11 DEF PipelineStep

\* Every stream operation keeps the single holder.
LEMMA StreamKeepsIInv ==
  ASSUME IInv, StreamStep
  PROVE  IInv'
  <1> USE NamesAssumption DEF IInv, TypeOK, HolderInv, StreamHolderInv, Ready, Idle
  <1>1. ASSUME NEW s \in Streams, NEW o \in Pipelines, NEW x \in Sessions, StreamBegin(s, o, x) PROVE IInv'
    BY <1>1 DEF StreamBegin
  <1>2. ASSUME NEW s \in Streams, StreamClose(s) PROVE IInv'
    BY <1>2 DEF StreamClose, StreamFreed
  <1>3. ASSUME NEW s \in Streams, StreamDestroy(s) PROVE IInv'
    BY <1>3 DEF StreamDestroy, StreamFreed
  <1>4. ASSUME NEW s \in Streams, NEW t \in Streams, StreamMoveConstruct(s, t) PROVE IInv'
    BY <1>4 DEF StreamMoveConstruct
  <1>5. ASSUME NEW s \in Streams, NEW t \in Streams, StreamMoveAssign(s, t) PROVE IInv'
    BY <1>5 DEF StreamMoveAssign, StreamFreed
  <1> QED
    BY <1>1, <1>2, <1>3, <1>4, <1>5 DEF StreamStep

\* No pipeline operation loses its handle, but for an init that throws.
LEMMA OwnersKept ==
  ASSUME IInv, OwnerInv, PipelineStep
  PROVE  OwnerInv'
  <1> USE NamesAssumption DEF IInv, TypeOK, HolderInv, OwnerInv, LocalHas, Ready, Idle
  <1>1. ASSUME NEW o \in Pipelines, InitCalled(o) PROVE OwnerInv'
    BY <1>1 DEF InitCalled
  <1>2. ASSUME NEW o \in Pipelines, Destroy(o) PROVE OwnerInv'
    BY <1>2 DEF Destroy, Freed
  <1>3. ASSUME NEW o \in Pipelines, Close(o) PROVE OwnerInv'
    BY <1>3 DEF Close
  <1>4. ASSUME NEW o \in Pipelines, NEW h \in Handles, Load(o, h) PROVE OwnerInv'
    BY <1>4 DEF Load
  <1>5. ASSUME NEW o \in Pipelines, NEW p \in Pipelines, MoveConstruct(o, p) PROVE OwnerInv'
    BY <1>5 DEF MoveConstruct
  <1>6. ASSUME NEW o \in Pipelines, NEW p \in Pipelines, MoveAssign(o, p) PROVE OwnerInv'
    BY <1>6 DEF MoveAssign, Freed
  <1>7. CASE InitRetried
    BY <1>7 DEF InitRetried
  <1>8. CASE InitFailed
    BY <1>8 DEF InitFailed
  <1>9. CASE InitMiscounted \/ InitCopyThrows
    BY <1>9 DEF InitMiscounted, InitCopyThrows, Losing
  <1>10. CASE InitReturns
    BY <1>10 DEF InitReturns
  <1>11. ASSUME NEW h \in Handles, InitSucceeded(h) PROVE OwnerInv'
    BY <1>11 DEF InitSucceeded
  <1> QED
    BY <1>1, <1>2, <1>3, <1>4, <1>5, <1>6, <1>7, <1>8, <1>9, <1>10, <1>11 DEF PipelineStep

\* No stream operation loses its session.
LEMMA StreamOwnersKept ==
  ASSUME IInv, StreamOwnerInv, StreamStep
  PROVE  StreamOwnerInv'
  <1> USE NamesAssumption DEF IInv, TypeOK, StreamHolderInv, StreamOwnerInv
  <1>1. ASSUME NEW s \in Streams, NEW o \in Pipelines, NEW x \in Sessions, StreamBegin(s, o, x)
        PROVE  StreamOwnerInv'
    BY <1>1 DEF StreamBegin
  <1>2. ASSUME NEW s \in Streams, StreamClose(s) PROVE StreamOwnerInv'
    BY <1>2 DEF StreamClose, StreamFreed
  <1>3. ASSUME NEW s \in Streams, StreamDestroy(s) PROVE StreamOwnerInv'
    BY <1>3 DEF StreamDestroy, StreamFreed
  <1>4. ASSUME NEW s \in Streams, NEW t \in Streams, StreamMoveConstruct(s, t) PROVE StreamOwnerInv'
    BY <1>4 DEF StreamMoveConstruct
  <1>5. ASSUME NEW s \in Streams, NEW t \in Streams, StreamMoveAssign(s, t) PROVE StreamOwnerInv'
    BY <1>5 DEF StreamMoveAssign, StreamFreed
  <1> QED
    BY <1>1, <1>2, <1>3, <1>4, <1>5 DEF StreamStep

\* A pipeline step leaves the streams alone, and the other way round.
LEMMA Apart ==
  /\ PipelineStep => UNCHANGED <<strm, session, parent>>
  /\ StreamStep => UNCHANGED <<obj, go, ctor, lost>>
  BY DEF PipelineStep, InitCalled, InitRetried, InitFailed, InitSucceeded, InitMiscounted, InitCopyThrows, Losing, InitReturns,
     Load, Destroy, Close, MoveConstruct, MoveAssign,
     StreamStep, StreamBegin, StreamClose, StreamDestroy, StreamMoveConstruct, StreamMoveAssign

\* Stuttering keeps everything.
LEMMA StutterKeeps ==
  ASSUME UNCHANGED vars
  PROVE  /\ IInv => IInv'
         /\ OwnerInv => OwnerInv'
         /\ StreamOwnerInv => StreamOwnerInv'
  BY DEF vars, IInv, TypeOK, HolderInv, StreamHolderInv, OwnerInv, StreamOwnerInv, LocalHas

-----------------------------------------------------------------------------
(* The theorems.                                                           *)

\* The inductive invariant holds whatever the calls.
THEOREM Invariance == Spec => []IInv
  <1>1. Init => IInv
    BY InitFact
  <1>2. IInv /\ [Next]_vars => IInv'
    BY PipelineKeepsIInv, StreamKeepsIInv, StutterKeeps DEF Next
  <1> QED
    BY <1>1, <1>2, PTL DEF Spec

\* The variables keep their types.
THEOREM TypeCorrectness == Spec => []TypeOK
  BY Invariance, PTL DEF IInv

\* However objects are moved, closed and destroyed, and even when a constructor
\* throws half-way, no object points at a freed resource.
THEOREM NoUseAfterFree == Spec => []OwnedIsUnfreed
  <1>1. IInv => OwnedIsUnfreed
    BY DEF IInv, HolderInv, StreamHolderInv, OwnedIsUnfreed
  <1> QED
    BY <1>1, Invariance, PTL

\* What the Go side keeps has a holder.
LEMMA OwnerInvariance == Spec => [](OwnerInv /\ StreamOwnerInv)
  <1>1. Init => OwnerInv /\ StreamOwnerInv
    BY InitFact
  <1>2. IInv /\ OwnerInv /\ StreamOwnerInv /\ [Next]_vars => OwnerInv' /\ StreamOwnerInv'
    <2> SUFFICES ASSUME IInv, OwnerInv, StreamOwnerInv, [Next]_vars
                 PROVE  OwnerInv' /\ StreamOwnerInv'
      OBVIOUS
    <2>1. CASE PipelineStep
      BY <2>1, OwnersKept, Apart DEF StreamOwnerInv
    <2>2. CASE StreamStep
      BY <2>2, StreamOwnersKept, Apart DEF OwnerInv, LocalHas
    <2>3. CASE UNCHANGED vars
      BY <2>3, StutterKeeps
    <2> QED
      BY <2>1, <2>2, <2>3 DEF Next
  <1> QED
    BY <1>1, <1>2, Invariance, PTL DEF Spec

\* Every resource the Go side keeps has exactly one owner, unless an init threw
\* between creating a handle and handing it over.
THEOREM OnlyAThrowingInitLoses == Spec => []OwnedUnlessInitThrew
  <1>1. IInv /\ OwnerInv /\ StreamOwnerInv => OwnedUnlessInitThrew
    <2> SUFFICES ASSUME IInv, OwnerInv, StreamOwnerInv PROVE OwnedUnlessInitThrew
      OBVIOUS
    <2>1. ASSUME NEW h \in Handles \ lost, go[h] \in {"open", "closed"}
          PROVE  \E x \in Pipelines \cup {Local} : HoldersOf(h) = {x}
      <3>1. CASE ctor.handle = h
        BY <3>1 DEF IInv, HolderInv, HoldersOf, LocalHas
      <3>2. CASE ctor.handle # h /\ \E o \in Pipelines : obj[o] = h
        BY <3>2 DEF IInv, HolderInv, HoldersOf, LocalHas
      <3> QED
        BY <2>1, <3>1, <3>2 DEF OwnerInv, LocalHas
    <2>2. ASSUME NEW h \in lost
          PROVE  go[h] = "open" /\ HoldersOf(h) = {Local} /\ ctor.handle # h
      BY <2>2 DEF IInv, HolderInv, HoldersOf, LocalHas
    <2>3. ASSUME NEW x \in Sessions, session[x] = "open"
          PROVE  \E s \in Streams : StreamHoldersOf(x) = {s}
      BY <2>3 DEF StreamOwnerInv, IInv, StreamHolderInv, StreamHoldersOf
    <2> QED
      BY <2>1, <2>2, <2>3 DEF OwnedUnlessInitThrew
  <1> QED
    BY <1>1, Invariance, OwnerInvariance, PTL

\* An init loses a handle only when its copy of the blob can throw, or the
\* library's count of the blob can lie.
LEMMA OnlyThrownIsLost == Spec => [](lost # {} => AllocMayFail \/ CountsMayLie)
  <1> DEFINE LostInv == lost # {} => AllocMayFail \/ CountsMayLie
  <1>1. Init => LostInv
    BY DEF Init
  <1>2. LostInv /\ [Next]_vars => LostInv'
    BY DEF Next, PipelineStep, StreamStep, vars, InitCalled, InitRetried, InitFailed, InitSucceeded,
       InitMiscounted, InitCopyThrows, Losing, InitReturns, Load, Destroy, Close, MoveConstruct, MoveAssign,
       StreamBegin, StreamClose, StreamDestroy, StreamMoveConstruct, StreamMoveAssign
  <1> HIDE DEF LostInv
  <1>3. Spec => []LostInv
    BY <1>1, <1>2, PTL DEF Spec
  <1> QED
    BY <1>3 DEF LostInv

\* When no copy can throw and every count is true, nothing is lost at all: those
\* two exceptions are the only ways to lose a handle.
THEOREM NothingLeaks == Spec => [](AllocMayFail \/ CountsMayLie \/ EveryHandleOwned)
  <1>1. (lost # {} => AllocMayFail \/ CountsMayLie) /\ OwnedUnlessInitThrew
        => AllocMayFail \/ CountsMayLie \/ EveryHandleOwned
    BY DEF EveryHandleOwned
  <1> QED
    BY <1>1, OnlyThrownIsLost, OnlyAThrowingInitLoses, PTL

-----------------------------------------------------------------------------
(* The refinement of HandleLifecycle.                                      *)

Held == [h \in Handles |-> HoldersOf(h)]
StreamHeld == [x \in Sessions |-> StreamHoldersOf(x)]

\* The holders of a pipeline, read off the inductive invariant.
LEMMA Holders ==
  ASSUME IInv
  PROVE  /\ \A o \in Pipelines : obj[o] \in Handles => Held[obj[o]] = {o}
         /\ ctor.handle \in Handles => Held[ctor.handle] = {Local}
         /\ \A h \in Handles : go[h] = "unborn" => Held[h] = {}
  <1> USE DEF IInv, TypeOK, HolderInv, HoldersOf, LocalHas
  <1>1. ASSUME NEW o \in Pipelines, obj[o] \in Handles PROVE Held[obj[o]] = {o}
    <2>1. HoldersOf(obj[o]) = {o}
      BY <1>1
    <2> QED
      BY <1>1, <2>1 DEF Held
  <1>2. ASSUME ctor.handle \in Handles PROVE Held[ctor.handle] = {Local}
    <2>1. HoldersOf(ctor.handle) = {Local}
      BY <1>2
    <2> QED
      BY <1>2, <2>1 DEF Held
  <1>3. ASSUME NEW h \in Handles, go[h] = "unborn" PROVE Held[h] = {}
    <2>1. HoldersOf(h) = {}
      BY <1>3
    <2> QED
      BY <1>3, <2>1 DEF Held
  <1> QED
    BY <1>1, <1>2, <1>3

\* The holder of a session, read off the inductive invariant.
LEMMA StreamHolders ==
  ASSUME IInv
  PROVE  /\ \A s \in Streams : strm[s] \in Sessions => StreamHeld[strm[s]] = {s}
         /\ \A x \in Sessions : session[x] = "unborn" => StreamHeld[x] = {}
  BY DEF IInv, StreamHolderInv, StreamHeld, StreamHoldersOf

\* The holders of every pipeline follow from the objects and the constructor:
\* one pipeline gets a holder ...
LEMMA HeldTaken ==
  ASSUME NEW h \in Handles, NEW x \in Pipelines \cup {Local},
         \A g \in Handles, q \in Pipelines : obj'[q] = g <=> IF g = h THEN q = x ELSE obj[q] = g,
         \A g \in Handles : LocalHas(g)' <=> IF g = h THEN x = Local ELSE LocalHas(g)
  PROVE  Held' = [Held EXCEPT ![h] = {x}]
  <1>1. ASSUME NEW g \in Handles PROVE HoldersOf(g)' = IF g = h THEN {x} ELSE HoldersOf(g)
    BY NamesAssumption DEF HoldersOf, LocalHas
  <1> QED
    BY <1>1 DEF Held

\* ... or loses the one it had.
LEMMA HeldDropped ==
  ASSUME NEW h \in Handles,
         \A g \in Handles, q \in Pipelines : obj'[q] = g <=> IF g = h THEN FALSE ELSE obj[q] = g,
         \A g \in Handles : LocalHas(g)' <=> IF g = h THEN FALSE ELSE LocalHas(g)
  PROVE  Held' = [Held EXCEPT ![h] = {}]
  <1>1. ASSUME NEW g \in Handles PROVE HoldersOf(g)' = IF g = h THEN {} ELSE HoldersOf(g)
    BY NamesAssumption DEF HoldersOf, LocalHas
  <1> QED
    BY <1>1 DEF Held

\* A move-assignment releases one handle and hands the other on.
LEMMA HeldReplaced ==
  ASSUME IInv, NEW o \in Pipelines, NEW p \in Pipelines, MoveAssign(o, p),
         obj[o] \in Handles, obj[p] \in Handles
  PROVE  Held' = [Held EXCEPT ![obj[o]] = {}, ![obj[p]] = {o}]
  <1>1. \A g \in Handles, q \in Pipelines :
          obj'[q] = g <=> IF g = obj[o] THEN FALSE ELSE IF g = obj[p] THEN q = o ELSE obj[q] = g
    BY NamesAssumption DEF MoveAssign, IInv, TypeOK, HolderInv, Ready, Idle, LocalHas
  <1>2. \A g \in Handles :
          /\ LocalHas(g)' <=> LocalHas(g)
          /\ LocalHas(g) => g \notin {obj[o], obj[p]}
    BY NamesAssumption DEF MoveAssign, IInv, TypeOK, HolderInv, Ready, Idle, LocalHas
  <1>3. ASSUME NEW g \in Handles
        PROVE  HoldersOf(g)' = IF g = obj[o] THEN {} ELSE IF g = obj[p] THEN {o} ELSE HoldersOf(g)
    <2>1. CASE g = obj[o]
      BY <1>1, <1>2, <1>3, <2>1, NamesAssumption DEF HoldersOf, LocalHas
    <2>2. CASE g # obj[o] /\ g = obj[p]
      BY <1>1, <1>2, <1>3, <2>2, NamesAssumption DEF HoldersOf, LocalHas
    <2>3. CASE g # obj[o] /\ g # obj[p]
      BY <1>1, <1>2, <1>3, <2>3, NamesAssumption DEF HoldersOf, LocalHas
    <2> QED
      BY <2>1, <2>2, <2>3
  <1>4. obj[o] # obj[p]
    BY DEF MoveAssign, IInv, HolderInv
  <1> QED
    BY <1>3, <1>4 DEF Held

\* The same for sessions.
LEMMA StreamHeldTaken ==
  ASSUME NEW x \in Sessions, NEW s \in Streams,
         \A y \in Sessions, q \in Streams : strm'[q] = y <=> IF y = x THEN q = s ELSE strm[q] = y
  PROVE  StreamHeld' = [StreamHeld EXCEPT ![x] = {s}]
  <1>1. ASSUME NEW y \in Sessions PROVE StreamHoldersOf(y)' = IF y = x THEN {s} ELSE StreamHoldersOf(y)
    BY DEF StreamHoldersOf
  <1> QED
    BY <1>1 DEF StreamHeld

\* A session loses the one it had.
LEMMA StreamHeldDropped ==
  ASSUME NEW x \in Sessions,
         \A y \in Sessions, q \in Streams : strm'[q] = y <=> IF y = x THEN FALSE ELSE strm[q] = y
  PROVE  StreamHeld' = [StreamHeld EXCEPT ![x] = {}]
  <1>1. ASSUME NEW y \in Sessions PROVE StreamHoldersOf(y)' = IF y = x THEN {} ELSE StreamHoldersOf(y)
    BY DEF StreamHoldersOf
  <1> QED
    BY <1>1 DEF StreamHeld

\* One session is freed and another takes its place.
LEMMA StreamHeldReplaced ==
  ASSUME IInv, NEW s \in Streams, NEW t \in Streams, StreamMoveAssign(s, t),
         strm[s] \in Sessions, strm[t] \in Sessions
  PROVE  StreamHeld' = [StreamHeld EXCEPT ![strm[s]] = {}, ![strm[t]] = {s}]
  <1>1. \A y \in Sessions, q \in Streams :
          strm'[q] = y <=> IF y = strm[s] THEN FALSE ELSE IF y = strm[t] THEN q = s ELSE strm[q] = y
    BY NamesAssumption DEF StreamMoveAssign, IInv, TypeOK, StreamHolderInv
  <1>2. ASSUME NEW y \in Sessions
        PROVE  StreamHoldersOf(y)' = IF y = strm[s] THEN {} ELSE IF y = strm[t] THEN {s} ELSE StreamHoldersOf(y)
    <2>1. CASE y = strm[s]
      BY <1>1, <2>1 DEF StreamHoldersOf
    <2>2. CASE y # strm[s] /\ y = strm[t]
      BY <1>1, <2>2 DEF StreamHoldersOf
    <2>3. CASE y # strm[s] /\ y # strm[t]
      BY <1>1, <2>3 DEF StreamHoldersOf
    <2> QED
      BY <2>1, <2>2, <2>3
  <1>3. strm[s] # strm[t]
    BY DEF StreamMoveAssign, IInv, StreamHolderInv
  <1> QED
    BY <1>2, <1>3 DEF StreamHeld

\* Every pipeline operation is a step of the life cycle, or changes nothing of it.
LEMMA PipelineStepRefines ==
  ASSUME IInv, IInv', PipelineStep
  PROVE  [PipelineLife!Next]_(PipelineLife!lifeVars)
  <1> USE NamesAssumption DEF PipelineLife!lifeVars
  <1> DEFINE Step == [PipelineLife!Next]_(PipelineLife!lifeVars)
  <1> HIDE DEF Step
  <1>a. \A h \in Handles, x \in Pipelines \cup {Local} :
          PipelineLife!Create(h, x) \/ PipelineLife!Close(h) \/ PipelineLife!Release(h, x) => Step
    BY DEF PipelineLife!Next, Step
  <1>b. \A h, g \in Handles, x, y \in Pipelines \cup {Local} :
          PipelineLife!Transfer(h, x, y) \/ PipelineLife!Replace(h, g, x, y) => Step
    BY DEF PipelineLife!Next, Step
  <1>c. UNCHANGED <<Held, go>> => Step
    BY DEF Step, Held
  <1>1. ASSUME NEW o \in Pipelines, InitCalled(o) PROVE Step
    BY <1>1, <1>c DEF InitCalled, Held, HoldersOf, LocalHas, Ready, Idle
  <1>2. ASSUME NEW o \in Pipelines, Destroy(o) PROVE Step
    <2>1. CASE obj[o] \in Handles
      <3>1. Held' = [Held EXCEPT ![obj[o]] = {}]
        <4>1. \A g \in Handles, q \in Pipelines : obj'[q] = g <=> IF g = obj[o] THEN FALSE ELSE obj[q] = g
          BY NamesAssumption, <1>2, <2>1 DEF Destroy, IInv, TypeOK, Ready, Idle, HolderInv, LocalHas
        <4>2. \A g \in Handles : LocalHas(g)' <=> IF g = obj[o] THEN FALSE ELSE LocalHas(g)
          BY NamesAssumption, <1>2, <2>1 DEF Destroy, IInv, TypeOK, Ready, Idle, HolderInv, LocalHas
        <4> QED
          BY <4>1, <4>2, <1>2, <2>1, HeldDropped
      <3>2. PipelineLife!Release(obj[o], o)
        BY <1>2, <2>1, <3>1, Holders DEF PipelineLife!Release, Destroy, Freed, Held
      <3> QED
        BY <2>1, <3>2, <1>a
    <2>2. CASE obj[o] \notin Handles
      <3>1. Held' = Held
        BY <1>2, <2>2 DEF Destroy, Held, HoldersOf, LocalHas, IInv, TypeOK
      <3> QED
        BY <1>2, <2>2, <3>1, <1>c DEF Destroy, Freed
    <2> QED
      BY <2>1, <2>2
  <1>3. ASSUME NEW o \in Pipelines, Close(o) PROVE Step
    <2>1. Held' = Held /\ Held[obj[o]] = {o} /\ go[obj[o]] \in {"open", "closed"}
      BY <1>3, Holders DEF Close, Held, HoldersOf, LocalHas, IInv, HolderInv
    <2>2. CASE go[obj[o]] = "open"
      <3>1. PipelineLife!Close(obj[o])
        BY <1>3, <2>1, <2>2 DEF PipelineLife!Close, Close, Held
      <3> QED
        BY <1>3, <3>1, <1>a DEF Close
    <2>3. CASE go[obj[o]] = "closed"
      BY <1>3, <2>1, <2>3, <1>c DEF Close, IInv, TypeOK
    <2> QED
      BY <2>1, <2>2, <2>3
  <1>4. ASSUME NEW o \in Pipelines, NEW h \in Handles, Load(o, h) PROVE Step
    <2>1. Held' = [Held EXCEPT ![h] = {o}]
      <3>1. \A g \in Handles, q \in Pipelines : obj'[q] = g <=> IF g = h THEN q = o ELSE obj[q] = g
        BY NamesAssumption, <1>4 DEF Load, IInv, TypeOK, HolderInv, LocalHas
      <3>2. \A g \in Handles : LocalHas(g)' <=> IF g = h THEN o = Local ELSE LocalHas(g)
        BY NamesAssumption, <1>4 DEF Load, IInv, TypeOK, HolderInv, LocalHas
      <3> QED
        BY <3>1, <3>2, <1>4, HeldTaken
    <2>2. PipelineLife!Create(h, o)
      BY <1>4, <2>1, Holders DEF PipelineLife!Create, Load, Held
    <2> QED
      BY <2>2, <1>a
  <1>5. ASSUME NEW o \in Pipelines, NEW p \in Pipelines, MoveConstruct(o, p) PROVE Step
    <2>1. CASE obj[p] \in Handles
      <3>1. Held' = [Held EXCEPT ![obj[p]] = {o}]
        <4>1. \A g \in Handles, q \in Pipelines : obj'[q] = g <=> IF g = obj[p] THEN q = o ELSE obj[q] = g
          BY NamesAssumption, <1>5, <2>1 DEF MoveConstruct, IInv, TypeOK, HolderInv, LocalHas
        <4>2. \A g \in Handles : LocalHas(g)' <=> IF g = obj[p] THEN o = Local ELSE LocalHas(g)
          BY NamesAssumption, <1>5, <2>1 DEF MoveConstruct, IInv, TypeOK, HolderInv, LocalHas
        <4> QED
          BY <4>1, <4>2, <1>5, <2>1, HeldTaken
      <3>2. PipelineLife!Transfer(obj[p], p, o)
        BY <1>5, <2>1, <3>1, Holders DEF PipelineLife!Transfer, MoveConstruct, Held
      <3> QED
        BY <2>1, <3>2, <1>b
    <2>2. CASE obj[p] \notin Handles
      <3>1. Held' = Held
        BY <1>5, <2>2 DEF MoveConstruct, Held, HoldersOf, LocalHas, IInv, TypeOK
      <3> QED
        BY <1>5, <3>1, <1>c DEF MoveConstruct
    <2> QED
      BY <2>1, <2>2
  <1>6. ASSUME NEW o \in Pipelines, NEW p \in Pipelines, MoveAssign(o, p) PROVE Step
    <2> USE <1>6 DEF MoveAssign
    <2>1. CASE obj[o] \in Handles /\ obj[p] \in Handles
      <3>1. obj[o] # obj[p] /\ Held[obj[o]] = {o} /\ Held[obj[p]] = {p}
        BY <2>1, Holders DEF IInv, HolderInv
      <3>2. Held' = [Held EXCEPT ![obj[o]] = {}, ![obj[p]] = {o}]
        BY <1>6, <2>1, HeldReplaced
      <3>3. PipelineLife!Replace(obj[o], obj[p], p, o)
        BY <2>1, <3>1, <3>2 DEF PipelineLife!Replace, Freed, Held
      <3> QED
        BY <2>1, <3>3, <1>b
    <2>2. CASE obj[o] \in Handles /\ obj[p] \notin Handles
      <3>1. Held' = [Held EXCEPT ![obj[o]] = {}]
        <4>1. \A g \in Handles, q \in Pipelines : obj'[q] = g <=> IF g = obj[o] THEN FALSE ELSE obj[q] = g
          BY NamesAssumption, <2>2 DEF IInv, TypeOK, HolderInv, Ready, Idle, LocalHas
        <4>2. \A g \in Handles : LocalHas(g)' <=> IF g = obj[o] THEN FALSE ELSE LocalHas(g)
          BY NamesAssumption, <2>2 DEF IInv, TypeOK, HolderInv, Ready, Idle, LocalHas
        <4> QED
          BY <4>1, <4>2, <2>2, HeldDropped
      <3>2. PipelineLife!Release(obj[o], o)
        BY <2>2, <3>1, Holders DEF PipelineLife!Release, Freed, Held
      <3> QED
        BY <2>2, <3>2, <1>a
    <2>3. CASE obj[o] \notin Handles /\ obj[p] \in Handles
      <3>1. Held' = [Held EXCEPT ![obj[p]] = {o}]
        <4>1. \A g \in Handles, q \in Pipelines : obj'[q] = g <=> IF g = obj[p] THEN q = o ELSE obj[q] = g
          BY NamesAssumption, <2>3 DEF IInv, TypeOK, HolderInv, Ready, Idle, LocalHas
        <4>2. \A g \in Handles : LocalHas(g)' <=> IF g = obj[p] THEN o = Local ELSE LocalHas(g)
          BY NamesAssumption, <2>3 DEF IInv, TypeOK, HolderInv, Ready, Idle, LocalHas
        <4> QED
          BY <4>1, <4>2, <2>3, HeldTaken
      <3>2. PipelineLife!Transfer(obj[p], p, o)
        BY <2>3, <3>1, Holders DEF PipelineLife!Transfer, Freed, Held
      <3> QED
        BY <2>3, <3>2, <1>b
    <2>4. CASE obj[o] \notin Handles /\ obj[p] \notin Handles
      <3>1. Held' = Held
        BY <2>4 DEF Held, HoldersOf, LocalHas, IInv, TypeOK
      <3> QED
        BY <2>4, <3>1, <1>c DEF Freed
    <2> QED
      BY <2>1, <2>2, <2>3, <2>4
  <1>7. CASE InitRetried
    BY <1>7, <1>c DEF InitRetried, Held, HoldersOf, LocalHas, IInv, TypeOK
  <1>8. CASE InitFailed
    BY <1>8, <1>c DEF InitFailed, Held, HoldersOf, LocalHas, IInv, TypeOK, Idle
  <1>9. CASE InitMiscounted \/ InitCopyThrows
    <2> USE <1>9 DEF InitMiscounted, InitCopyThrows, Losing
    <2>1. \A g \in Handles : LocalHas(g)' <=> LocalHas(g)
      BY NamesAssumption DEF LocalHas, Idle, IInv, TypeOK
    <2> QED
      BY <2>1, <1>c DEF Held, HoldersOf
  <1>10. ASSUME InitReturns PROVE Step
    <2>1. ctor.handle \in Handles /\ ctor.at \in Pipelines /\ Held[ctor.handle] = {Local}
      BY <1>10, Holders DEF InitReturns, IInv, TypeOK, HolderInv
    <2>2. Held' = [Held EXCEPT ![ctor.handle] = {ctor.at}]
      <3>1. \A g \in Handles, q \in Pipelines : obj'[q] = g <=> IF g = ctor.handle THEN q = ctor.at ELSE obj[q] = g
        BY NamesAssumption, <1>10, <2>1 DEF InitReturns, IInv, TypeOK, HolderInv, Idle, LocalHas
      <3>2. \A g \in Handles : LocalHas(g)' <=> IF g = ctor.handle THEN ctor.at = Local ELSE LocalHas(g)
        BY NamesAssumption, <1>10, <2>1 DEF InitReturns, IInv, TypeOK, HolderInv, Idle, LocalHas
      <3> QED
        BY <3>1, <3>2, <1>10, <2>1, HeldTaken
    <2>3. PipelineLife!Transfer(ctor.handle, Local, ctor.at)
      BY <1>10, <2>1, <2>2 DEF PipelineLife!Transfer, InitReturns, Held
    <2> QED
      BY <2>1, <2>3, <1>b
  <1>11. ASSUME NEW h \in Handles, InitSucceeded(h) PROVE Step
    <2>1. Held' = [Held EXCEPT ![h] = {Local}]
      <3>1. \A g \in Handles, q \in Pipelines : obj'[q] = g <=> IF g = h THEN q = Local ELSE obj[q] = g
        BY NamesAssumption, <1>11 DEF InitSucceeded, IInv, TypeOK, HolderInv, LocalHas
      <3>2. \A g \in Handles : LocalHas(g)' <=> IF g = h THEN Local = Local ELSE LocalHas(g)
        BY NamesAssumption, <1>11 DEF InitSucceeded, IInv, TypeOK, HolderInv, LocalHas
      <3> QED
        BY <3>1, <3>2, <1>11, HeldTaken
    <2>2. PipelineLife!Create(h, Local)
      BY <1>11, <2>1, Holders DEF PipelineLife!Create, InitSucceeded, Held
    <2> QED
      BY <2>2, <1>a
  <1> QED
    BY <1>1, <1>2, <1>3, <1>4, <1>5, <1>6, <1>7, <1>8, <1>9, <1>10, <1>11 DEF PipelineStep, Step

\* Every stream operation is a step of the life cycle, or changes nothing of it.
LEMMA StreamStepRefines ==
  ASSUME IInv, IInv', StreamStep
  PROVE  [SessionLife!Next]_(SessionLife!lifeVars)
  <1> USE NamesAssumption DEF SessionLife!lifeVars
  <1> DEFINE Step == [SessionLife!Next]_(SessionLife!lifeVars)
  <1> HIDE DEF Step
  <1>a. \A x \in Sessions, s \in Streams :
          SessionLife!Create(x, s) \/ SessionLife!Release(x, s) => Step
    BY DEF SessionLife!Next, Step
  <1>b. \A x, y \in Sessions, s, t \in Streams :
          SessionLife!Transfer(x, s, t) \/ SessionLife!Replace(x, y, s, t) => Step
    BY DEF SessionLife!Next, Step
  <1>c. UNCHANGED <<StreamHeld, session>> => Step
    BY DEF Step, StreamHeld
  <1>1. ASSUME NEW s \in Streams, NEW o \in Pipelines, NEW x \in Sessions, StreamBegin(s, o, x)
        PROVE  Step
    <2>1. StreamHeld' = [StreamHeld EXCEPT ![x] = {s}]
      <3>1. \A y \in Sessions, q \in Streams : strm'[q] = y <=> IF y = x THEN q = s ELSE strm[q] = y
        BY NamesAssumption, <1>1 DEF StreamBegin, IInv, TypeOK, StreamHolderInv
      <3> QED
        BY <3>1, <1>1, StreamHeldTaken
    <2>2. SessionLife!Create(x, s)
      BY <1>1, <2>1, StreamHolders DEF SessionLife!Create, StreamBegin, StreamHeld
    <2> QED
      BY <2>2, <1>a
  <1>2. ASSUME NEW s \in Streams, StreamClose(s) \/ StreamDestroy(s) PROVE Step
    <2>1. /\ session' = StreamFreed(strm[s])
          /\ \E v \in {Null, Absent} : strm' = [strm EXCEPT ![s] = v]
      BY <1>2 DEF StreamClose, StreamDestroy
    <2>2. CASE strm[s] \in Sessions
      <3>1. StreamHeld' = [StreamHeld EXCEPT ![strm[s]] = {}]
        <4>1. \A y \in Sessions, q \in Streams : strm'[q] = y <=> IF y = strm[s] THEN FALSE ELSE strm[q] = y
          BY NamesAssumption, <2>1, <2>2 DEF IInv, TypeOK, StreamHolderInv
        <4> QED
          BY <4>1, <2>1, <2>2, StreamHeldDropped
      <3>2. SessionLife!Release(strm[s], s)
        BY <2>1, <2>2, <3>1, StreamHolders DEF SessionLife!Release, StreamFreed, StreamHeld
      <3> QED
        BY <2>2, <3>2, <1>a
    <2>3. CASE strm[s] \notin Sessions
      <3>1. StreamHeld' = StreamHeld
        BY <2>1, <2>3 DEF StreamHeld, StreamHoldersOf, IInv, TypeOK
      <3> QED
        BY <2>1, <2>3, <3>1, <1>c DEF StreamFreed
    <2> QED
      BY <2>2, <2>3
  <1>3. ASSUME NEW s \in Streams, NEW t \in Streams, StreamMoveConstruct(s, t) PROVE Step
    <2>1. CASE strm[t] \in Sessions
      <3>1. StreamHeld' = [StreamHeld EXCEPT ![strm[t]] = {s}]
        <4>1. \A y \in Sessions, q \in Streams : strm'[q] = y <=> IF y = strm[t] THEN q = s ELSE strm[q] = y
          BY NamesAssumption, <1>3, <2>1 DEF StreamMoveConstruct, IInv, TypeOK, StreamHolderInv
        <4> QED
          BY <4>1, <1>3, <2>1, StreamHeldTaken
      <3>2. SessionLife!Transfer(strm[t], t, s)
        BY <1>3, <2>1, <3>1, StreamHolders DEF SessionLife!Transfer, StreamMoveConstruct, StreamHeld
      <3> QED
        BY <2>1, <3>2, <1>b
    <2>2. CASE strm[t] \notin Sessions
      <3>1. StreamHeld' = StreamHeld
        BY <1>3, <2>2 DEF StreamMoveConstruct, StreamHeld, StreamHoldersOf, IInv, TypeOK
      <3> QED
        BY <1>3, <3>1, <1>c DEF StreamMoveConstruct
    <2> QED
      BY <2>1, <2>2
  <1>4. ASSUME NEW s \in Streams, NEW t \in Streams, StreamMoveAssign(s, t) PROVE Step
    <2> USE <1>4 DEF StreamMoveAssign
    <2>1. CASE strm[s] \in Sessions /\ strm[t] \in Sessions
      <3>1. strm[s] # strm[t] /\ StreamHeld[strm[s]] = {s} /\ StreamHeld[strm[t]] = {t}
        BY <2>1, StreamHolders DEF IInv, StreamHolderInv
      <3>2. StreamHeld' = [StreamHeld EXCEPT ![strm[s]] = {}, ![strm[t]] = {s}]
        BY <1>4, <2>1, StreamHeldReplaced
      <3>3. SessionLife!Replace(strm[s], strm[t], t, s)
        BY <2>1, <3>1, <3>2 DEF SessionLife!Replace, StreamFreed, StreamHeld
      <3> QED
        BY <2>1, <3>3, <1>b
    <2>2. CASE strm[s] \in Sessions /\ strm[t] \notin Sessions
      <3>1. StreamHeld' = [StreamHeld EXCEPT ![strm[s]] = {}]
        <4>1. \A y \in Sessions, q \in Streams : strm'[q] = y <=> IF y = strm[s] THEN FALSE ELSE strm[q] = y
          BY NamesAssumption, <2>2 DEF IInv, TypeOK, StreamHolderInv
        <4> QED
          BY <4>1, <2>2, StreamHeldDropped
      <3>2. SessionLife!Release(strm[s], s)
        BY <2>2, <3>1, StreamHolders DEF SessionLife!Release, StreamFreed, StreamHeld
      <3> QED
        BY <2>2, <3>2, <1>a
    <2>3. CASE strm[s] \notin Sessions /\ strm[t] \in Sessions
      <3>1. StreamHeld' = [StreamHeld EXCEPT ![strm[t]] = {s}]
        <4>1. \A y \in Sessions, q \in Streams : strm'[q] = y <=> IF y = strm[t] THEN q = s ELSE strm[q] = y
          BY NamesAssumption, <2>3 DEF IInv, TypeOK, StreamHolderInv
        <4> QED
          BY <4>1, <2>3, StreamHeldTaken
      <3>2. SessionLife!Transfer(strm[t], t, s)
        BY <2>3, <3>1, StreamHolders DEF SessionLife!Transfer, StreamFreed, StreamHeld
      <3> QED
        BY <2>3, <3>2, <1>b
    <2>4. CASE strm[s] \notin Sessions /\ strm[t] \notin Sessions
      <3>1. StreamHeld' = StreamHeld
        BY <2>4 DEF StreamHeld, StreamHoldersOf, IInv, TypeOK
      <3> QED
        BY <2>4, <3>1, <1>c DEF StreamFreed
    <2> QED
      BY <2>1, <2>2, <2>3, <2>4
  <1> QED
    BY <1>1, <1>2, <1>3, <1>4 DEF StreamStep, Step

\* Every Go-side pipeline has the promised life: one holder from creation to its
\* single release; one that a throwing constructor lost stays with its local.
THEOREM PipelinesRefineLifecycle == Spec => PipelinesLiveOnce
  <1>1. Init => PipelineLife!Init
    BY NamesAssumption DEF Init, PipelineLife!Init, HoldersOf, LocalHas, Idle
  <1>2. IInv /\ IInv' /\ [Next]_vars => [PipelineLife!Next]_(PipelineLife!lifeVars)
    <2>1. CASE StreamStep
      BY <2>1, Apart DEF PipelineLife!lifeVars, HoldersOf, LocalHas
    <2>2. CASE UNCHANGED vars
      BY <2>2 DEF vars, PipelineLife!lifeVars, HoldersOf, LocalHas
    <2> QED
      BY <2>1, <2>2, PipelineStepRefines DEF Next
  <1> QED
    BY <1>1, <1>2, Invariance, PTL DEF Spec, PipelinesLiveOnce, PipelineLife!Spec

\* The same for every Go-side stream session.
THEOREM SessionsRefineLifecycle == Spec => SessionsLiveOnce
  <1>1. Init => SessionLife!Init
    BY NamesAssumption DEF Init, SessionLife!Init, StreamHoldersOf
  <1>2. IInv /\ IInv' /\ [Next]_vars => [SessionLife!Next]_(SessionLife!lifeVars)
    <2>1. CASE PipelineStep
      BY <2>1, Apart DEF SessionLife!lifeVars, StreamHoldersOf
    <2>2. CASE UNCHANGED vars
      BY <2>2 DEF vars, SessionLife!lifeVars, StreamHoldersOf
    <2> QED
      BY <2>1, <2>2, StreamStepRefines DEF Next
  <1> QED
    BY <1>1, <1>2, Invariance, PTL DEF Spec, SessionsLiveOnce, SessionLife!Spec

=============================================================================
