-------------------------- MODULE PipelineHandles --------------------------
(***************************************************************************)
(* Ownership of Go-side handles by the C++ objects: itb::Pipeline          *)
(* (src/pipeline.cpp), the stream sessions (src/stream.cpp), their move    *)
(* operations, close and destructors, and the constructors, which obtain a *)
(* Go handle before any object owns it.                                    *)
(*                                                                         *)
(* One thread makes calls in any order the header allows: an object is     *)
(* built where none lives, and a session does not outlive its pipeline.    *)
(* Handles are never reused, so their number bounds how many are created.  *)
(***************************************************************************)
EXTENDS Naturals

CONSTANTS
    Pipelines,     \* C++ Pipeline objects
    Streams,       \* C++ EncryptStream and DecryptStream objects
    Handles,       \* Go-side pipelines
    Sessions,      \* Go-side stream sessions
    Null,          \* handle_ == 0: a moved-from or closed object
    Absent,        \* no object lives there
    Local,         \* the handle variable of a constructor that has not returned
    AllocMayFail,  \* whether the copy of the init blob may throw std::bad_alloc
    CountsMayLie   \* whether the library may report a blob longer than its buffer

ASSUME NamesAssumption ==
    /\ Null \notin Handles \cup Sessions /\ Absent \notin Handles \cup Sessions
    /\ Null # Absent /\ {Local, Absent} \cap Pipelines = {}
ASSUME ThrowsAssumption == AllocMayFail \in BOOLEAN /\ CountsMayLie \in BOOLEAN

VARIABLES
    obj,       \* handle_ of every Pipeline object
    strm,      \* handle_ of every stream object
    go,        \* Go side: the state of every pipeline
    session,   \* Go side: the state of every session
    parent,    \* Go side: the pipeline a session runs on
    ctor,      \* init or init_keys under way: the object, the FFI attempt, the handle
    lost       \* handles a throwing constructor had (history only: no guard reads it)

vars == <<obj, strm, go, session, parent, ctor, lost>>

Idle == [at |-> Absent, try |-> 0, handle |-> Null]

Init ==
    /\ obj = [o \in Pipelines |-> Absent]
    /\ strm = [s \in Streams |-> Absent]
    /\ go = [h \in Handles |-> "unborn"]
    /\ session = [x \in Sessions |-> "unborn"]
    /\ parent = [x \in Sessions |-> Null]
    /\ ctor = Idle
    /\ lost = {}

\* One thread: no other call while a constructor runs.
Ready == ctor = Idle

\* The header's rule that a session must not outlive its pipeline.
NoSessionOn(h) == \A s \in Streams : strm[s] \in Sessions => parent[strm[s]] # h

-----------------------------------------------------------------------------
(* Pipeline::init and init_keys.                                           *)

InitCalled(o) ==
    /\ Ready /\ obj[o] = Absent
    /\ ctor' = [at |-> o, try |-> 1, handle |-> Null]
    /\ UNCHANGED <<obj, strm, go, session, parent, lost>>

\* BufferTooSmall: Go closes the undersized attempt; one more try.
InitRetried ==
    /\ ctor.try = 1 /\ ctor.handle = Null
    /\ ctor' = [ctor EXCEPT !.try = 2]
    /\ UNCHANGED <<obj, strm, go, session, parent, lost>>

\* Any other status: the library opened nothing.
InitFailed ==
    /\ ctor.try > 0 /\ ctor.handle = Null
    /\ ctor' = Idle
    /\ UNCHANGED <<obj, strm, go, session, parent, lost>>

InitSucceeded(h) ==
    /\ ctor.try > 0 /\ ctor.handle = Null /\ go[h] = "unborn"
    /\ go' = [go EXCEPT ![h] = "open"]
    /\ ctor' = [ctor EXCEPT !.handle = h]
    /\ UNCHANGED <<obj, strm, session, parent, lost>>

\* An exception between the library's success and the object: nothing owns the
\* handle yet, and no one will free it.
Losing ==
    /\ ctor.handle # Null
    /\ lost' = lost \cup {ctor.handle}
    /\ ctor' = Idle
    /\ UNCHANGED <<obj, strm, go, session, parent>>

\* buf_call refuses a length beyond its buffer although the status was OK.
InitMiscounted == CountsMayLie /\ Losing

\* buf_call copies the blob it is about to return before init sees it.
InitCopyThrows == AllocMayFail /\ Losing

InitReturns ==
    /\ ctor.handle # Null
    /\ obj' = [obj EXCEPT ![ctor.at] = ctor.handle]
    /\ ctor' = Idle
    /\ UNCHANGED <<strm, go, session, parent, lost>>

-----------------------------------------------------------------------------
(* Pipeline::load and load_f, moves, close and the destructor.             *)

\* Nothing can throw between the status check and the assignment; a failing
\* load changes nothing.
Load(o, h) ==
    /\ Ready /\ obj[o] = Absent /\ go[h] = "unborn"
    /\ go' = [go EXCEPT ![h] = "open"]
    /\ obj' = [obj EXCEPT ![o] = h]
    /\ UNCHANGED <<strm, session, parent, ctor, lost>>

\* ITB_Triple_Free, made only when handle_ is not zero.
Freed(h) == IF h \in Handles THEN [go EXCEPT ![h] = "freed"] ELSE go

Destroy(o) ==
    /\ Ready /\ obj[o] # Absent /\ NoSessionOn(obj[o])
    /\ go' = Freed(obj[o])
    /\ obj' = [obj EXCEPT ![o] = Absent]
    /\ UNCHANGED <<strm, session, parent, ctor, lost>>

\* Mutant: the source keeps its handle.
MoveConstructCopies(o, from) ==
    /\ Ready /\ obj[o] = Absent /\ obj[from] # Absent
    /\ obj' = [obj EXCEPT ![o] = obj[from]]
    /\ UNCHANGED <<strm, go, session, parent, ctor, lost>>

MoveConstruct(o, from) ==
    /\ Ready /\ obj[o] = Absent /\ obj[from] # Absent
    /\ obj' = [obj EXCEPT ![o] = obj[from], ![from] = Null]
    /\ UNCHANGED <<strm, go, session, parent, ctor, lost>>

\* Mutant: the handle the target held is forgotten.
MoveAssignForgets(o, from) ==
    /\ Ready /\ obj[o] # Absent /\ obj[from] # Absent /\ o # from
    /\ NoSessionOn(obj[o])
    /\ obj' = [obj EXCEPT ![o] = obj[from], ![from] = Null]
    /\ UNCHANGED <<strm, go, session, parent, ctor, lost>>

MoveAssign(o, from) ==
    /\ Ready /\ obj[o] # Absent /\ obj[from] # Absent /\ o # from
    /\ NoSessionOn(obj[o])
    /\ go' = Freed(obj[o])
    /\ obj' = [obj EXCEPT ![o] = obj[from], ![from] = Null]
    /\ UNCHANGED <<strm, session, parent, ctor, lost>>

\* ITB_Triple_Close: idempotent, and the object keeps its handle.
Close(o) ==
    /\ Ready /\ obj[o] \in Handles
    /\ go' = [go EXCEPT ![obj[o]] = "closed"]
    /\ UNCHANGED <<obj, strm, session, parent, ctor, lost>>

-----------------------------------------------------------------------------
(* Stream sessions.                                                        *)

\* A closed or moved-from pipeline answers a status, and nothing changes.
StreamBegin(s, o, x) ==
    /\ Ready /\ strm[s] = Absent /\ session[x] = "unborn"
    /\ obj[o] \in Handles /\ go[obj[o]] = "open"
    /\ session' = [session EXCEPT ![x] = "open"]
    /\ parent' = [parent EXCEPT ![x] = obj[o]]
    /\ strm' = [strm EXCEPT ![s] = x]
    /\ UNCHANGED <<obj, go, ctor, lost>>

\* ITB_Triple_StreamFree, made only when handle_ is not zero.
StreamFreed(x) == IF x \in Sessions THEN [session EXCEPT ![x] = "freed"] ELSE session

\* Mutant: close leaves the handle in the object, for the destructor to free
\* once more, and to be moved on.
StreamCloseKeeps(s) ==
    /\ Ready /\ strm[s] # Absent
    /\ session' = StreamFreed(strm[s])
    /\ UNCHANGED <<obj, strm, go, parent, ctor, lost>>

StreamClose(s) ==
    /\ Ready /\ strm[s] # Absent
    /\ session' = StreamFreed(strm[s])
    /\ strm' = [strm EXCEPT ![s] = Null]
    /\ UNCHANGED <<obj, go, parent, ctor, lost>>

StreamDestroy(s) ==
    /\ Ready /\ strm[s] # Absent
    /\ session' = StreamFreed(strm[s])
    /\ strm' = [strm EXCEPT ![s] = Absent]
    /\ UNCHANGED <<obj, go, parent, ctor, lost>>

StreamMoveConstruct(s, from) ==
    /\ Ready /\ strm[s] = Absent /\ strm[from] # Absent
    /\ strm' = [strm EXCEPT ![s] = strm[from], ![from] = Null]
    /\ UNCHANGED <<obj, go, session, parent, ctor, lost>>

StreamMoveAssign(s, from) ==
    /\ Ready /\ strm[s] # Absent /\ strm[from] # Absent /\ s # from
    /\ session' = StreamFreed(strm[s])
    /\ strm' = [strm EXCEPT ![s] = strm[from], ![from] = Null]
    /\ UNCHANGED <<obj, go, parent, ctor, lost>>

-----------------------------------------------------------------------------
PipelineStep ==
    \/ \E o \in Pipelines :
         \/ InitCalled(o) \/ Destroy(o) \/ Close(o)
         \/ \E h \in Handles : Load(o, h)
         \/ \E p \in Pipelines : MoveConstruct(o, p) \/ MoveAssign(o, p)
    \/ InitRetried \/ InitFailed \/ InitMiscounted \/ InitCopyThrows \/ InitReturns
    \/ \E h \in Handles : InitSucceeded(h)

StreamStep ==
    \E s \in Streams :
        \/ \E o \in Pipelines, x \in Sessions : StreamBegin(s, o, x)
        \/ StreamClose(s) \/ StreamDestroy(s)
        \/ \E t \in Streams : StreamMoveConstruct(s, t) \/ StreamMoveAssign(s, t)

Next == PipelineStep \/ StreamStep

Spec == Init /\ [][Next]_vars

-----------------------------------------------------------------------------
(* Properties.                                                             *)

\* The types of the variables.
TypeOK ==
    /\ obj \in [Pipelines -> Handles \cup {Null, Absent}]
    /\ strm \in [Streams -> Sessions \cup {Null, Absent}]
    /\ go \in [Handles -> {"unborn", "open", "closed", "freed"}]
    /\ session \in [Sessions -> {"unborn", "open", "freed"}]
    /\ parent \in [Sessions -> Handles \cup {Null}]
    /\ ctor \in [at : Pipelines \cup {Absent}, try : 0 .. 2, handle : Handles \cup {Null}]
    /\ lost \in SUBSET Handles

\* What holds a Go-side pipeline or session: objects, or a constructor's local,
\* for ever when the constructor threw with the handle in it.
LocalHas(h) == ctor.handle = h \/ h \in lost
HoldersOf(h) == {o \in Pipelines : obj[o] = h} \cup (IF LocalHas(h) THEN {Local} ELSE {})
StreamHoldersOf(x) == {s \in Streams : strm[s] = x}

\* The binding promises the life cycle of HandleLifecycle, for pipelines ...
PipelineLife ==
    INSTANCE HandleLifecycle WITH
        Resources <- Handles,
        Holders <- Pipelines \cup {Local},
        held <- [h \in Handles |-> HoldersOf(h)],
        stage <- go

\* ... and for stream sessions.
SessionLife ==
    INSTANCE HandleLifecycle WITH
        Resources <- Sessions,
        Holders <- Streams,
        held <- [x \in Sessions |-> StreamHoldersOf(x)],
        stage <- session

\* Every Go-side pipeline lives the life the binding promises: one holder from
\* creation to a single release, which zeroes it.
PipelinesLiveOnce == PipelineLife!Spec

\* The same for every Go-side stream session, through close, moves and
\* destructors.
SessionsLiveOnce == SessionLife!Spec

\* No object points at a pipeline that was freed: no call and no second free
\* can reach it, however the objects were moved.
OwnedIsUnfreed ==
    /\ \A o \in Pipelines : obj[o] \in Handles => go[obj[o]] \in {"open", "closed"}
    /\ \A s \in Streams : strm[s] \in Sessions => session[strm[s]] = "open"

\* Each pipeline and session the Go side keeps has exactly one owner, an object
\* or the running constructor, so a release follows; all but the pipelines whose
\* init threw with the handle open, and those no object reaches: they stay open
\* for ever, their keys unwiped.
OwnedUnlessInitThrew ==
    /\ \A h \in Handles \ lost :
         go[h] \in {"open", "closed"} => \E x \in Pipelines \cup {Local} : HoldersOf(h) = {x}
    /\ \A h \in lost : go[h] = "open" /\ HoldersOf(h) = {Local} /\ ctor.handle # h
    /\ \A x \in Sessions : session[x] = "open" => \E s \in Streams : StreamHoldersOf(x) = {s}

\* The same without the exception.
EveryHandleOwned ==
    OwnedUnlessInitThrew /\ \A h \in Handles : go[h] \in {"open", "closed"} => h \notin lost

=============================================================================
