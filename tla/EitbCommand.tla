----------------------------- MODULE EitbCommand -----------------------------
(***************************************************************************)
(* The command eitb (src/eitb/eitb.cpp): invocations one after the other,  *)
(* over files they read and write and over the blobs that they print and   *)
(* are given back.  Each invocation is a process of its own: only files    *)
(* and printed blobs pass from one to the next.                            *)
(*                                                                         *)
(* A content is what a file or a buffer holds: a plaintext, the wire that  *)
(* a pipeline's message calls or stream pump made of a content, what an    *)
(* unfinished write left, or what an unauthenticated pipeline makes of     *)
(* anything else than its wire.                                            *)
(***************************************************************************)
EXTENDS Naturals, Sequences, SequencesExt, FiniteSets

CONSTANTS
    Files,         \* paths
    Plains,        \* plaintexts in files at the start
    Profiles,      \* registered profiles
    Authenticated, \* those with a MAC
    Streaming,     \* the names that begin with "streaming-"
    Keys,          \* pipelines that can be made; each saves one blob
    BlobBytes,     \* the bytes of that blob
    StrangeTexts,  \* blob arguments nobody printed
    None,          \* no pipeline, no command
    MaxCommands    \* bound: invocations

ASSUME KeysAssumption ==
    /\ Keys \subseteq Nat /\ None \notin Keys
    /\ \A k \in Keys : BlobBytes[k] \in Seq(0 .. 255) /\ Len(BlobBytes[k]) > 0
    /\ \A k, l \in Keys : BlobBytes[k] = BlobBytes[l] => k = l
ASSUME BoundAssumption == MaxCommands \in Nat
ASSUME ProfilesAssumption == None \notin Profiles

VARIABLES
    fs,       \* the contents of the files
    printed,  \* the blobs printed on stderr, as hex
    profile,  \* library: the profile every pipeline was made with
    cmd,      \* the invocation
    pc,       \* where it is
    data,     \* plain, wire: the buffer it works on
    pipe,     \* its pipeline, None while it has none
    exit,     \* the exit code of the last one
    count,    \* invocations so far
    before,   \* the files when it began (history only: no guard reads it)
    sealed    \* contents encrypted, with their pipelines and pairs of calls (history only)

libVars == <<profile, pipe>>
history == <<before, sealed>>
vars == <<fs, printed, cmd, pc, data, exit, count, libVars, history>>

Absent == [kind |-> "absent"]
Torn == [kind |-> "torn"]
Noise == [kind |-> "noise"]
Plain(m) == [kind |-> "plain", msg |-> m]
Wire(k, pair, c) == [kind |-> "wire", key |-> k, pair |-> pair, of |-> c]

Init ==
    /\ fs \in [Files -> {Absent} \cup {Plain(m) : m \in Plains}]
    /\ printed = {} /\ profile = [k \in Keys |-> None]
    /\ cmd = None /\ pc = "idle" /\ data = Absent /\ pipe = None
    /\ exit = 0 /\ count = 0 /\ before = fs /\ sealed = {}

-----------------------------------------------------------------------------
(* main: which command, with how many arguments.                           *)

Commands ==
    [op : {"version", "profiles", "usage"}]
    \cup [op : {"encrypt"}, profile : Profiles \cup {"unregistered"}, in : Files, out : Files]
    \cup [op : {"decrypt"}, profile : Profiles \cup {"unregistered"}, blob : printed \cup StrangeTexts, in : Files, out : Files]

Begin ==
    /\ pc = "idle" /\ count < MaxCommands
    /\ cmd' \in Commands
    /\ pc' = IF cmd'.op = "decrypt" THEN "hex" ELSE IF cmd'.op = "encrypt" THEN "read" ELSE "print"
    /\ count' = count + 1 /\ before' = fs /\ data' = Absent
    /\ UNCHANGED <<fs, printed, exit, libVars, sealed>>

\* A return of main destroys the pipeline; an exception gets there as exit code 1.
Exit(code) == pc' = "idle" /\ exit' = code /\ pipe' = None

\* usage() returns 2; version and profiles ask the library, which may refuse.
Answer ==
    /\ pc = "print"
    /\ Exit(IF cmd.op = "usage" THEN 2 ELSE 0) \/ (cmd.op # "usage" /\ Exit(1))
    /\ UNCHANGED <<fs, printed, cmd, data, count, profile, history>>

-----------------------------------------------------------------------------
(* Steps of cmd_encrypt and cmd_decrypt.                                   *)

Digits == <<"0", "1", "2", "3", "4", "5", "6", "7", "8", "9", "a", "b", "c", "d", "e", "f">>
Capitals == <<"A", "B", "C", "D", "E", "F">>

\* Mutant: "%x", which prints no leading zero.
HexOfShort(bytes) ==
    FoldLeft(LAMBDA s, b : s \o (IF b < 16 THEN <<>> ELSE <<Digits[(b \div 16) + 1]>>) \o <<Digits[(b % 16) + 1]>>,
             <<>>, bytes)

\* "%02x" of every byte: two digits, the high one first.
HexOf(bytes) ==
    [i \in 1 .. 2 * Len(bytes) |->
        LET b == bytes[(i + 1) \div 2] IN Digits[(IF i % 2 = 1 THEN b \div 16 ELSE b % 16) + 1]]

IsHex(c) == c \in ToSet(Digits) \cup ToSet(Capitals)
HexNibble(c) ==
    IF c \in ToSet(Digits) THEN (CHOOSE i \in 1 .. 16 : Digits[i] = c) - 1
    ELSE (CHOOSE i \in 1 .. 6 : Capitals[i] = c) + 9

ReadsAsHex(text) ==
    /\ Len(text) > 0 /\ Len(text) % 2 = 0
    /\ \A i \in 1 .. Len(text) : IsHex(text[i])

BytesOf(text) ==
    [i \in 1 .. Len(text) \div 2 |-> (16 * HexNibble(text[(2 * i) - 1])) + HexNibble(text[2 * i])]

\* A return or an exception before the output file is opened.
Refused ==
    /\ Exit(1)
    /\ UNCHANGED <<fs, printed, cmd, data, count, profile, history>>

\* An odd or empty blob argument, or one with a character that is no hex digit.
HexRefused == pc = "hex" /\ ~ ReadsAsHex(cmd.blob) /\ Refused

\* The input can not be opened or read, the parent directory or the output file
\* not be made.
FileRefused == pc \in {"read", "create"} /\ Refused

\* The library refuses a profile, a blob, a call or a wire, or memory runs out:
\* an exception, which main answers.
Throws == pc \in {"hex", "read", "open", "cipher", "create"} /\ Refused

\* Mutant: the length of the argument is halved, odd or not.
ReadHexAnyLength ==
    /\ pc = "hex" /\ Len(cmd.blob) > 0 /\ \A i \in 1 .. Len(cmd.blob) : IsHex(cmd.blob[i])
    /\ pc' = "read"
    /\ UNCHANGED <<fs, printed, cmd, data, exit, count, libVars, history>>

ReadHex ==
    /\ pc = "hex" /\ ReadsAsHex(cmd.blob)
    /\ pc' = "read"
    /\ UNCHANGED <<fs, printed, cmd, data, exit, count, libVars, history>>

\* Mutant: the output file is opened with the input, before the cipher runs.
ReadFileOpensBoth ==
    /\ pc = "read" /\ fs[cmd.in] # Absent
    /\ data' = fs[cmd.in]
    /\ fs' = [fs EXCEPT ![cmd.out] = Torn]
    /\ pc' = "open"
    /\ UNCHANGED <<printed, cmd, exit, count, libVars, history>>

ReadFile ==
    /\ pc = "read" /\ fs[cmd.in] # Absent
    /\ data' = fs[cmd.in]
    /\ pc' = "open"
    /\ UNCHANGED <<fs, printed, cmd, exit, count, libVars, history>>

\* Pipelines are compared only for equality: the least unused one stands for any.
InitPipeline ==
    \E k \in Keys :
        /\ pc = "open" /\ cmd.op = "encrypt" /\ cmd.profile \in Profiles
        /\ profile[k] = None /\ \A l \in Keys : profile[l] = None => k <= l
        /\ profile' = [profile EXCEPT ![k] = cmd.profile]
        /\ pipe' = k
        /\ pc' = "cipher"
        /\ UNCHANGED <<fs, printed, cmd, data, exit, count, history>>

LoadPipeline ==
    \E k \in Keys :
        /\ pc = "open" /\ cmd.op = "decrypt"
        /\ BytesOf(cmd.blob) = BlobBytes[k] /\ profile[k] # None
        /\ pipe' = k
        /\ pc' = "cipher"
        /\ UNCHANGED <<fs, printed, cmd, data, exit, count, profile, history>>

\* The name of the profile chooses the pair of calls, whatever the pipeline.
Pairs == {"stream", "message"}
Pair == IF cmd.profile \in Streaming THEN "stream" ELSE "message"

Encrypt ==
    /\ pc = "cipher" /\ cmd.op = "encrypt"
    /\ data' = Wire(pipe, Pair, data)
    /\ sealed' = sealed \cup {<<pipe, Pair, data>>}
    /\ pc' = "create"
    /\ UNCHANGED <<fs, printed, cmd, exit, count, libVars, before>>

SealedBy(c, k, pairs) == c.kind = "wire" /\ c.key = k /\ c.pair \in pairs

\* What the library makes of a wire of this pipeline that the other pair of calls
\* sealed is its own affair: the content, a refusal or, without a MAC, noise.
Decrypt ==
    /\ pc = "cipher" /\ cmd.op = "decrypt"
    /\ \/ SealedBy(data, pipe, Pairs) /\ data' = data.of
       \/ ~ SealedBy(data, pipe, {Pair}) /\ profile[pipe] \notin Authenticated /\ data' = Noise
    /\ pc' = "create"
    /\ UNCHANGED <<fs, printed, cmd, exit, count, libVars, history>>

\* fopen truncates.
CreateFile ==
    /\ pc = "create"
    /\ fs' = [fs EXCEPT ![cmd.out] = Torn]
    /\ pc' = "write"
    /\ UNCHANGED <<printed, cmd, data, exit, count, libVars, history>>

\* Mutant: neither the count of fwrite nor the answer of fclose is looked at.
WriteFailsUnseen ==
    /\ pc = "write"
    /\ pc' = IF cmd.op = "encrypt" THEN "save" ELSE "idle"
    /\ exit' = IF cmd.op = "encrypt" THEN exit ELSE 0
    /\ pipe' = IF cmd.op = "encrypt" THEN pipe ELSE None
    /\ UNCHANGED <<fs, printed, cmd, data, count, profile, history>>

WriteFails ==
    /\ pc = "write"
    /\ Exit(1)
    /\ UNCHANGED <<fs, printed, cmd, data, count, profile, history>>

WriteFile ==
    /\ pc = "write"
    /\ fs' = [fs EXCEPT ![cmd.out] = data]
    /\ IF cmd.op = "encrypt" THEN pc' = "save" /\ UNCHANGED <<exit, pipe>> ELSE Exit(0)
    /\ UNCHANGED <<printed, cmd, data, count, profile, history>>

\* Save and the printing of the blob, after the wire is in its file.
SaveBlob ==
    /\ pc = "save"
    /\ printed' = printed \cup {HexOf(BlobBytes[pipe])}
    /\ Exit(0)
    /\ UNCHANGED <<fs, cmd, data, count, profile, history>>

SaveFails ==
    /\ pc = "save"
    /\ Exit(1)
    /\ UNCHANGED <<fs, printed, cmd, data, count, profile, history>>

Next ==
    \/ Begin \/ Answer \/ HexRefused \/ FileRefused \/ Throws \/ ReadHex \/ ReadFile \/ InitPipeline \/ LoadPipeline \/ Encrypt \/ Decrypt
    \/ CreateFile \/ WriteFails \/ WriteFile \/ SaveBlob \/ SaveFails

Spec == Init /\ [][Next]_vars

-----------------------------------------------------------------------------
(* Properties.                                                             *)

\* The types of the variables; of a content, its kind.
Kinds == {"absent", "torn", "noise", "plain", "wire"}
TypeOK ==
    /\ \A f \in Files : fs[f].kind \in Kinds
    /\ data.kind \in Kinds
    /\ profile \in [Keys -> Profiles \cup {None}]
    /\ pipe \in Keys \cup {None} /\ (pipe # None => profile[pipe] # None)
    /\ pc \in {"idle", "print", "hex", "read", "open", "cipher", "create", "write", "save"}
    /\ exit \in 0 .. 2 /\ count \in 0 .. MaxCommands

Ended(op, code) == cmd # None /\ pc = "idle" /\ cmd.op = op /\ exit = code

\* An encrypt that ends with 0 has left, in its output file, the whole wire of
\* what its input held, and on stderr a blob that reads back as the one of this
\* wire's pipeline.
EncryptedFileOpens ==
    Ended("encrypt", 0) =>
        \E k \in Keys :
            /\ fs[cmd.out] = Wire(k, Pair, before[cmd.in])
            /\ \E text \in printed : ReadsAsHex(text) /\ BytesOf(text) = BlobBytes[k]

\* However the command ends, no blob is printed for a wire that is not there: it
\* is the blob of the pipeline in hand, whose whole wire is in the output file.
BlobFollowsFile ==
    [][printed' # printed =>
          /\ cmd.op = "encrypt" /\ fs[cmd.out] = Wire(pipe, Pair, before[cmd.in])
          /\ \A text \in printed' \ printed : BytesOf(text) = BlobBytes[pipe]]_vars

\* A decrypt that ends with 0 was given a well-formed blob, and has written,
\* whole, what an earlier encrypt sealed into the wire it was given, under the
\* pipeline of that blob.  Only a pipeline without a MAC takes anything else, and
\* not even that one for a wire that its own pair of calls has sealed.
DecryptsWhatWasSealed ==
    Ended("decrypt", 0) =>
        /\ ReadsAsHex(cmd.blob)
        /\ \E k \in Keys :
            /\ BytesOf(cmd.blob) = BlobBytes[k]
            /\ \/ \E pair \in Pairs : /\ <<k, pair, fs[cmd.out]>> \in sealed
                                      /\ before[cmd.in] = Wire(k, pair, fs[cmd.out])
               \/ /\ profile[k] \notin Authenticated /\ fs[cmd.out] = Noise
                  /\ ~ SealedBy(before[cmd.in], k, {Pair})

\* No file is opened for writing before the whole result is there: a command
\* that is refused, whatever refuses it, leaves every file as it was.
RefusalKeepsFiles ==
    cmd # None /\ fs # before =>
        /\ cmd.op \in {"encrypt", "decrypt"}
        /\ \A f \in Files \ {cmd.out} : fs[f] = before[f]
        /\ fs[cmd.out] \in {Torn, data}
        /\ IF cmd.op = "encrypt" THEN \E k \in Keys : data = Wire(k, Pair, before[cmd.in])
           ELSE \/ \E k \in Keys, pair \in Pairs : <<k, pair, data>> \in sealed /\ before[cmd.in] = Wire(k, pair, data)
                \/ data = Noise /\ \E k \in Keys : profile[k] \notin Authenticated \cup {None}

=============================================================================
