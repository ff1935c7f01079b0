-------------------------- MODULE EitbCommandProofs --------------------------
(***************************************************************************)
(* Theorems of EitbCommand, for any files, profiles, pipelines and blobs,  *)
(* and any sequence of invocations.                                        *)
(***************************************************************************)
EXTENDS EitbCommand, SequenceTheorems, TLAPS

-----------------------------------------------------------------------------
(* The inductive invariant.                                                *)

\* A wire is one that an encrypt has made.
Genuine(c) ==
    c.kind = "wire" => /\ c.pair \in Pairs
                       /\ c = Wire(c.key, c.pair, c.of) /\ <<c.key, c.pair, c.of>> \in sealed

\* So is every wire that is in a file, in the buffer or inside another wire.
WiresInv ==
    /\ DOMAIN fs = Files
    /\ \A f \in Files : Genuine(fs[f])
    /\ Genuine(data)
    /\ \A s \in sealed : Genuine(s[3])

InFile(op) == cmd.op = op /\ cmd.in \in Files /\ cmd.out \in Files

\* The buffer holds the result of the cipher call.
Result ==
    /\ pipe \in Keys
    /\ \/ InFile("encrypt") /\ data = Wire(pipe, Pair, before[cmd.in])
       \/ /\ InFile("decrypt") /\ ReadsAsHex(cmd.blob) /\ BytesOf(cmd.blob) = BlobBytes[pipe]
          /\ \/ \E pair \in Pairs : <<pipe, pair, data>> \in sealed /\ before[cmd.in] = Wire(pipe, pair, data)
             \/ /\ data = Noise /\ profile[pipe] # None /\ profile[pipe] \notin Authenticated
                /\ ~ SealedBy(before[cmd.in], pipe, {Pair})

\* Where an invocation is, and what it has done by then: no file is touched
\* before the buffer holds the result.
PlaceInv ==
    /\ pc \in {"print", "hex", "read", "open", "cipher", "create"} => fs = before
    /\ pc = "print" => cmd.op \notin {"encrypt", "decrypt"}
    /\ pc = "hex" => InFile("decrypt")
    /\ pc \in {"read", "open", "cipher"} => InFile("encrypt") \/ InFile("decrypt")
    /\ pc \in {"read", "open", "cipher"} /\ cmd.op = "decrypt" => ReadsAsHex(cmd.blob)
    /\ pc \in {"open", "cipher"} => data = before[cmd.in]
    /\ pc = "cipher" => /\ pipe \in Keys /\ profile[pipe] # None
                        /\ cmd.op = "decrypt" => BytesOf(cmd.blob) = BlobBytes[pipe]
    /\ pc \in {"create", "write", "save"} => Result
    /\ pc = "write" => fs[cmd.out] = Torn
    /\ pc = "save" => fs[cmd.out] = data /\ cmd.op = "encrypt"
    /\ pc \in {"write", "save"} => \A f \in Files \ {cmd.out} : fs[f] = before[f]

IInv ==
    /\ WiresInv
    /\ PlaceInv
    /\ DOMAIN profile = Keys
    /\ RefusalKeepsFiles
    /\ DecryptsWhatWasSealed

-----------------------------------------------------------------------------
LEMMA InitInv == Init => IInv
<1> SUFFICES ASSUME Init PROVE IInv
  OBVIOUS
<1>1. DOMAIN fs = Files /\ \A f \in Files : fs[f].kind # "wire"
  BY DEF Init, Absent, Plain
<1>2. WiresInv
  BY <1>1 DEF Init, WiresInv, Genuine, Absent
<1> QED BY <1>2 DEF Init, IInv, PlaceInv, RefusalKeepsFiles, DecryptsWhatWasSealed, Ended

\* A refusal leaves the files alone, and its exit code is not 0.
LEMMA RefusedInv ==
    ASSUME IInv, pc \in {"read", "open", "cipher", "create", "hex"},
           Exit(1), UNCHANGED <<fs, printed, cmd, data, count, profile, history>>
    PROVE  IInv'
<1> USE DEF Pair, SealedBy
<1>1. pc' = "idle" /\ exit' = 1 /\ fs' = before' /\ UNCHANGED <<fs, data, sealed, profile, cmd>>
  BY DEF Exit, history, IInv, PlaceInv
<1>2. WiresInv'
  BY <1>1 DEF IInv, WiresInv, Genuine, Wire
<1> QED BY <1>1, <1>2 DEF IInv, PlaceInv, RefusalKeepsFiles, DecryptsWhatWasSealed, Ended

\* An invocation that leaves a file behind leaves it torn or with the result.
LEMMA WrittenInv ==
    ASSUME IInv, pc \in {"write", "save"}, NEW content \in {Torn, data},
           fs' = [fs EXCEPT ![cmd.out] = content],
           UNCHANGED <<cmd, data, profile, before, sealed>>
    PROVE  /\ WiresInv' /\ RefusalKeepsFiles' /\ fs'[cmd.out] = content
           /\ \A f \in Files \ {cmd.out} : fs'[f] = before'[f]
<1> USE DEF Pair, SealedBy
<1>1. Result /\ cmd.out \in Files /\ cmd.op \in {"encrypt", "decrypt"} /\ DOMAIN fs = Files
      /\ \A f \in Files \ {cmd.out} : fs[f] = before[f]
  BY DEF IInv, PlaceInv, WiresInv, Result, InFile
<1>2. Genuine(data)' /\ Genuine(content)'
  BY DEF IInv, WiresInv, Genuine, Wire, Torn
<1>3. WiresInv'
  BY <1>1, <1>2 DEF IInv, WiresInv, Genuine, Wire
<1>4. RefusalKeepsFiles'
  BY <1>1 DEF RefusalKeepsFiles, Result, InFile, Wire
<1> QED BY <1>1, <1>3, <1>4

LEMMA StepInv == IInv /\ [Next]_vars => IInv'
<1> SUFFICES ASSUME IInv, [Next]_vars PROVE IInv'
  OBVIOUS
<1> USE DEF history, libVars, Pair, SealedBy
<1>1. CASE Begin
  <2>1. /\ pc' = IF cmd'.op = "decrypt" THEN "hex" ELSE IF cmd'.op = "encrypt" THEN "read" ELSE "print"
        /\ cmd' \in Commands /\ before' = fs /\ data' = Absent /\ UNCHANGED <<fs, profile, sealed>>
    BY <1>1 DEF Begin
  <2>2. \/ cmd'.op \in {"version", "profiles", "usage"}
        \/ InFile("encrypt")'
        \/ InFile("decrypt")'
    BY <2>1 DEF Commands, InFile
  <2>3. WiresInv'
    BY <2>1 DEF IInv, WiresInv, Genuine, Absent, Wire
  <2>4. PlaceInv'
    BY <2>1, <2>2 DEF PlaceInv, InFile
  <2> QED BY <2>1, <2>3, <2>4 DEF IInv, RefusalKeepsFiles, DecryptsWhatWasSealed, Ended
<1>2. CASE Answer
  <2>1. /\ pc = "print" /\ pc' = "idle" /\ UNCHANGED <<fs, cmd, data, profile, before, sealed>>
        /\ fs' = before' /\ cmd.op \notin {"encrypt", "decrypt"}
    BY <1>2 DEF Answer, Exit, IInv, PlaceInv
  <2>2. WiresInv'
    BY <2>1 DEF IInv, WiresInv, Genuine, Wire
  <2> QED BY <2>1, <2>2 DEF IInv, PlaceInv, RefusalKeepsFiles, DecryptsWhatWasSealed, Ended
<1>3. CASE HexRefused \/ FileRefused \/ Throws
  BY <1>3, RefusedInv DEF HexRefused, FileRefused, Throws, Refused
<1>4. CASE ReadHex
  BY <1>4 DEF ReadHex, IInv, WiresInv, Genuine, Wire, PlaceInv, InFile, RefusalKeepsFiles, DecryptsWhatWasSealed, Ended
<1>5. CASE ReadFile
  <2>1. /\ pc = "read" /\ pc' = "open" /\ data' = fs[cmd.in] /\ UNCHANGED <<fs, cmd, profile, before, sealed>>
        /\ fs = before /\ (InFile("encrypt") \/ InFile("decrypt"))
    BY <1>5 DEF ReadFile, IInv, PlaceInv
  <2>2. WiresInv'
    BY <2>1 DEF IInv, WiresInv, Genuine, Wire, InFile
  <2> QED BY <2>1, <2>2 DEF IInv, PlaceInv, InFile, RefusalKeepsFiles, DecryptsWhatWasSealed, Ended
<1>6. CASE InitPipeline
  <2>1. PICK k \in Keys :
           /\ pc = "open" /\ pc' = "cipher" /\ cmd.op = "encrypt" /\ cmd.profile \in Profiles
           /\ profile' = [profile EXCEPT ![k] = cmd.profile] /\ pipe' = k
           /\ UNCHANGED <<fs, cmd, data, before, sealed>>
    BY <1>6 DEF InitPipeline
  <2>2. profile'[k] # None /\ DOMAIN profile' = Keys
    BY <2>1, ProfilesAssumption DEF IInv
  <2>3. WiresInv'
    BY <2>1 DEF IInv, WiresInv, Genuine, Wire
  <2> QED BY <2>1, <2>2, <2>3 DEF IInv, PlaceInv, InFile, RefusalKeepsFiles, DecryptsWhatWasSealed, Ended
<1>7. CASE LoadPipeline
  <2>1. PICK k \in Keys :
           /\ pc = "open" /\ pc' = "cipher" /\ cmd.op = "decrypt"
           /\ BytesOf(cmd.blob) = BlobBytes[k] /\ profile[k] # None /\ pipe' = k
           /\ UNCHANGED <<fs, cmd, data, profile, before, sealed>>
    BY <1>7 DEF LoadPipeline
  <2>2. WiresInv'
    BY <2>1 DEF IInv, WiresInv, Genuine, Wire
  <2> QED BY <2>1, <2>2 DEF IInv, PlaceInv, InFile, RefusalKeepsFiles, DecryptsWhatWasSealed, Ended
<1>8. CASE Encrypt
  <2>1. /\ pc = "cipher" /\ pc' = "create" /\ cmd.op = "encrypt" /\ data' = Wire(pipe, Pair, data)
        /\ sealed' = sealed \cup {<<pipe, Pair, data>>} /\ UNCHANGED <<fs, cmd, profile, pipe, before>>
        /\ fs = before /\ pipe \in Keys /\ data = before[cmd.in] /\ InFile("encrypt")
    BY <1>8 DEF Encrypt, IInv, PlaceInv, InFile
  <2>2. ASSUME NEW c, Genuine(c) 
        PROVE c.kind = "wire" => /\ c.pair \in Pairs
                                 /\ c = Wire(c.key, c.pair, c.of) /\ <<c.key, c.pair, c.of>> \in sealed'
    BY <2>2, <2>1 DEF Genuine
  <2>3. data'.kind = "wire" => /\ data'.pair \in Pairs
                               /\ data' = Wire(data'.key, data'.pair, data'.of)
                               /\ <<data'.key, data'.pair, data'.of>> \in sealed'
    BY <2>1 DEF Wire, Pair, Pairs
  <2>4. WiresInv'
    BY <2>1, <2>2, <2>3 DEF IInv, WiresInv, Genuine
  <2>5. Result'
    BY <2>1 DEF Result, InFile
  <2> QED BY <2>1, <2>4, <2>5 DEF IInv, PlaceInv, RefusalKeepsFiles, DecryptsWhatWasSealed, Ended
<1>9. CASE Decrypt
  <2>1. /\ pc = "cipher" /\ pc' = "create" /\ cmd.op = "decrypt" /\ UNCHANGED <<fs, cmd, profile, pipe, before, sealed>>
        /\ \/ SealedBy(data, pipe, Pairs) /\ data' = data.of
           \/ ~ SealedBy(data, pipe, {Pair}) /\ profile[pipe] \notin Authenticated /\ data' = Noise
        /\ fs = before /\ pipe \in Keys /\ profile[pipe] # None /\ data = before[cmd.in] /\ InFile("decrypt")
        /\ ReadsAsHex(cmd.blob) /\ BytesOf(cmd.blob) = BlobBytes[pipe]
    BY <1>9 DEF Decrypt, IInv, PlaceInv, InFile
  <2>2. \/ \E pair \in Pairs : <<pipe, pair, data'>> \in sealed /\ before[cmd.in] = Wire(pipe, pair, data')
        \/ /\ data' = Noise /\ profile[pipe] \notin Authenticated
           /\ ~ SealedBy(before[cmd.in], pipe, {Pair})
    BY <2>1 DEF SealedBy, IInv, WiresInv, Genuine
  <2>3. Result'
    BY <2>1, <2>2 DEF Result, InFile
  <2>4. Genuine(data')
    <3>1. ASSUME NEW pair \in Pairs, <<pipe, pair, data'>> \in sealed PROVE Genuine(data')
      <4>1. Genuine(<<pipe, pair, data'>>[3])
        BY <3>1 DEF IInv, WiresInv
      <4> QED BY <4>1
    <3>2. CASE data' = Noise
      BY <3>2 DEF Genuine, Noise
    <3> QED BY <2>2, <3>1, <3>2
  <2>5. WiresInv'
    BY <2>1, <2>4 DEF IInv, WiresInv, Genuine, Wire
  <2> QED BY <2>1, <2>3, <2>5 DEF IInv, PlaceInv, RefusalKeepsFiles, DecryptsWhatWasSealed, Ended
<1>10. CASE CreateFile
  <2>1. /\ pc = "create" /\ pc' = "write" /\ fs' = [fs EXCEPT ![cmd.out] = Torn]
        /\ UNCHANGED <<cmd, data, profile, pipe, before, sealed>> /\ fs = before /\ Result
    BY <1>10 DEF CreateFile, IInv, PlaceInv
  <2>2. cmd.out \in Files /\ cmd.op \in {"encrypt", "decrypt"} /\ DOMAIN fs = Files
    BY <2>1 DEF Result, InFile, IInv, WiresInv
  <2>3. WiresInv'
    BY <2>1, <2>2 DEF IInv, WiresInv, Genuine, Wire, Torn
  <2>4. Result'
    BY <2>1 DEF Result, InFile, Wire
  <2>5. RefusalKeepsFiles'
    BY <2>1, <2>2 DEF RefusalKeepsFiles, Result, InFile, Wire
  <2> QED BY <2>1, <2>2, <2>3, <2>4, <2>5 DEF IInv, PlaceInv, DecryptsWhatWasSealed, Ended
<1>11. CASE WriteFails \/ SaveFails
  <2>1. /\ pc \in {"write", "save"} /\ pc' = "idle" /\ exit' = 1
        /\ UNCHANGED <<fs, cmd, data, profile, before, sealed>>
    BY <1>11 DEF WriteFails, SaveFails, Exit
  <2>2. WiresInv' /\ RefusalKeepsFiles'
    BY <2>1 DEF IInv, WiresInv, Genuine, Wire, RefusalKeepsFiles
  <2> QED BY <2>1, <2>2 DEF IInv, PlaceInv, DecryptsWhatWasSealed, Ended
<1>12. CASE WriteFile
  <2>1. /\ pc = "write" /\ fs' = [fs EXCEPT ![cmd.out] = data]
        /\ IF cmd.op = "encrypt" THEN pc' = "save" /\ pipe' = pipe ELSE pc' = "idle"
        /\ UNCHANGED <<cmd, data, profile, before, sealed>> /\ Result
    BY <1>12 DEF WriteFile, Exit, IInv, PlaceInv
  <2>2. /\ WiresInv' /\ RefusalKeepsFiles' /\ fs'[cmd.out] = data
        /\ \A f \in Files \ {cmd.out} : fs'[f] = before'[f]
    BY <2>1, WrittenInv
  <2>3. CASE cmd.op = "encrypt"
    <3>1. Result'
      BY <2>1, <2>3 DEF Result, InFile, Wire
    <3> QED BY <2>1, <2>2, <2>3, <3>1 DEF IInv, PlaceInv, DecryptsWhatWasSealed, Ended
  <2>4. CASE cmd.op # "encrypt"
    <3>1. DecryptsWhatWasSealed'
      BY <2>1, <2>2, <2>4 DEF Result, InFile, DecryptsWhatWasSealed, Wire
    <3> QED BY <2>1, <2>2, <2>4, <3>1 DEF IInv, PlaceInv
  <2> QED BY <2>3, <2>4
<1>13. CASE SaveBlob
  <2>1. /\ pc = "save" /\ pc' = "idle" /\ cmd.op = "encrypt"
        /\ UNCHANGED <<fs, cmd, data, profile, before, sealed>>
    BY <1>13 DEF SaveBlob, Exit, IInv, PlaceInv
  <2>2. WiresInv' /\ RefusalKeepsFiles'
    BY <2>1 DEF IInv, WiresInv, Genuine, Wire, RefusalKeepsFiles
  <2> QED BY <2>1, <2>2 DEF IInv, PlaceInv, DecryptsWhatWasSealed, Ended
<1>14. CASE UNCHANGED vars
  <2>1. UNCHANGED <<fs, profile, pipe, cmd, pc, data, exit, before, sealed>>
    BY <1>14 DEF vars
  <2>2. WiresInv'
    BY <2>1 DEF IInv, WiresInv, Genuine, Wire
  <2>3. Result => Result'
    BY <2>1 DEF Result, InFile, Wire
  <2>4. PlaceInv'
    BY <2>1, <2>3 DEF IInv, PlaceInv, InFile
  <2>5. RefusalKeepsFiles' /\ DecryptsWhatWasSealed'
    BY <2>1 DEF IInv, RefusalKeepsFiles, DecryptsWhatWasSealed, Ended, Wire
  <2> QED BY <2>1, <2>2, <2>4, <2>5 DEF IInv
<1> QED BY <1>1, <1>2, <1>3, <1>4, <1>5, <1>6, <1>7, <1>8, <1>9, <1>10, <1>11, <1>12, <1>13, <1>14 DEF Next

-----------------------------------------------------------------------------
(* Hex: what is printed is read back.                                      *)

\* A digit stands for the place it has among the digits.
LEMMA NibbleOfDigit == \A d \in 0 .. 15 : IsHex(Digits[d + 1]) /\ HexNibble(Digits[d + 1]) = d
<1> SUFFICES ASSUME NEW d \in 0 .. 15 PROVE IsHex(Digits[d + 1]) /\ HexNibble(Digits[d + 1]) = d
  OBVIOUS
<1>1. Len(Digits) = 16 /\ DOMAIN Digits = 1 .. 16
  BY DEF Digits
<1>2. \A i, j \in 1 .. 16 : Digits[i] = Digits[j] => i = j
  BY DEF Digits
<1>3. Digits[d + 1] \in ToSet(Digits)
  BY <1>1 DEF ToSet
<1>4. (CHOOSE i \in 1 .. 16 : Digits[i] = Digits[d + 1]) = d + 1
  <2>1. d + 1 \in 1 .. 16
    OBVIOUS
  <2> QED BY <2>1, <1>2
<1>5. HexNibble(Digits[d + 1]) = d
  <2>1. HexNibble(Digits[d + 1]) = (CHOOSE i \in 1 .. 16 : Digits[i] = Digits[d + 1]) - 1
    BY <1>3 DEF HexNibble
  <2>2. (d + 1) - 1 = d
    OBVIOUS
  <2> QED BY <2>1, <2>2, <1>4
<1> QED BY <1>3, <1>5 DEF IsHex

\* The bytes read from what HexOf prints are the bytes it was given: no zero is
\* lost, and the digits are not swapped.
LEMMA HexRoundTrip ==
    ASSUME NEW bytes \in Seq(0 .. 255), Len(bytes) > 0
    PROVE  ReadsAsHex(HexOf(bytes)) /\ BytesOf(HexOf(bytes)) = bytes
<1> DEFINE text == HexOf(bytes)
           n == Len(bytes)
<1>1. n \in Nat \ {0} /\ DOMAIN bytes = 1 .. n /\ \A j \in 1 .. n : bytes[j] \in 0 .. 255
  <2>1. n \in Nat /\ n > 0 /\ DOMAIN bytes = 1 .. n
    OBVIOUS
  <2>2. \A j \in 1 .. n : bytes[j] \in 0 .. 255
    BY ElementOfSeq
  <2> QED BY <2>1, <2>2
<1>b. \A b \in 0 .. 255 : b \div 16 \in 0 .. 15 /\ b % 16 \in 0 .. 15 /\ (16 * (b \div 16)) + (b % 16) = b
  OBVIOUS
<1>h. \A m \in Nat : (2 * m) \div 2 = m
  OBVIOUS
<1>2. /\ DOMAIN text = 1 .. 2 * n
      /\ \A j \in 1 .. n : /\ text[(2 * j) - 1] = Digits[(bytes[j] \div 16) + 1]
                           /\ text[2 * j] = Digits[(bytes[j] % 16) + 1]
  <2>1. DOMAIN text = 1 .. 2 * n
    BY DEF HexOf
  <2>2. ASSUME NEW j \in 1 .. n
        PROVE  /\ text[(2 * j) - 1] = Digits[(bytes[j] \div 16) + 1]
               /\ text[2 * j] = Digits[(bytes[j] % 16) + 1]
    <3>1. /\ (2 * j) - 1 \in 1 .. 2 * n /\ ((2 * j) - 1) % 2 = 1 /\ (((2 * j) - 1) + 1) \div 2 = j
          /\ 2 * j \in 1 .. 2 * n /\ (2 * j) % 2 = 0 /\ ((2 * j) + 1) \div 2 = j
      BY <1>1
    <3> QED BY <3>1 DEF HexOf
  <2> QED BY <2>1, <2>2
<1>3. Len(text) = 2 * n
  BY <1>1 DEF HexOf
<1>4. ASSUME NEW j \in 1 .. n
      PROVE  /\ IsHex(text[(2 * j) - 1]) /\ HexNibble(text[(2 * j) - 1]) = bytes[j] \div 16
             /\ IsHex(text[2 * j]) /\ HexNibble(text[2 * j]) = bytes[j] % 16
  <2>1. bytes[j] \div 16 \in 0 .. 15 /\ bytes[j] % 16 \in 0 .. 15
    BY <1>1, <1>b
  <2> QED BY <2>1, <1>2, NibbleOfDigit
<1> HIDE DEF text
<1>5. ReadsAsHex(text)
  <2>1. ASSUME NEW i \in 1 .. Len(text) PROVE IsHex(text[i])
    <3>1. CASE i % 2 = 1
      <4>1. (i + 1) \div 2 \in 1 .. n /\ i = (2 * ((i + 1) \div 2)) - 1
        BY <3>1, <1>1, <1>3
      <4> QED BY <4>1, <1>4
    <3>2. CASE i % 2 = 0
      <4>1. i \div 2 \in 1 .. n /\ i = 2 * (i \div 2)
        BY <3>2, <1>1, <1>3
      <4> QED BY <4>1, <1>4
    <3> QED BY <3>1, <3>2, <1>3
  <2> QED BY <2>1, <1>1, <1>3 DEF ReadsAsHex
<1>6. BytesOf(text) = bytes
  <2>1. Len(text) \div 2 = n
    BY <1>1, <1>3, <1>h
  <2>2. \A j \in 1 .. n : (16 * HexNibble(text[(2 * j) - 1])) + HexNibble(text[2 * j]) = bytes[j]
    <3> TAKE j \in 1 .. n
    <3>1. (16 * (bytes[j] \div 16)) + (bytes[j] % 16) = bytes[j]
      BY <1>1, <1>b
    <3> QED BY <3>1, <1>4
  <2>3. BytesOf(text) = [j \in 1 .. n |-> bytes[j]]
    BY <2>1, <2>2 DEF BytesOf
  <2> QED BY <2>3, <1>1
<1> QED BY <1>5, <1>6 DEF text

\* The end of an encrypt: the wire is in its file since the place before, and
\* the blob is printed with the exit code.
LEMMA OpensStep == EncryptedFileOpens /\ IInv /\ [Next]_vars => EncryptedFileOpens'
<1> SUFFICES ASSUME EncryptedFileOpens, IInv, [Next]_vars PROVE EncryptedFileOpens'
  OBVIOUS
<1> USE DEF history, libVars, Pair, SealedBy
<1>1. CASE pc' # "idle" \/ (pc' = "idle" /\ exit' # 0)
  BY <1>1 DEF EncryptedFileOpens, Ended
<1>2. CASE Begin \/ HexRefused \/ FileRefused \/ Throws \/ ReadHex \/ ReadFile \/ InitPipeline \/ LoadPipeline \/ Encrypt \/ Decrypt
           \/ CreateFile \/ WriteFails \/ SaveFails
  <2>1. pc' # "idle" \/ exit' = 1
    BY <1>2 DEF Begin, HexRefused, FileRefused, Throws, Refused, ReadHex, ReadFile, InitPipeline, LoadPipeline, Encrypt, Decrypt, CreateFile,
       WriteFails, SaveFails, Exit
  <2> QED BY <2>1, <1>1
<1>3. CASE Answer
  <2>1. cmd' = cmd /\ cmd.op # "encrypt"
    BY <1>3 DEF Answer, IInv, PlaceInv
  <2> QED BY <2>1 DEF EncryptedFileOpens, Ended
<1>4. CASE WriteFile
  <2>1. cmd' = cmd /\ (cmd.op = "encrypt" => pc' = "save")
    BY <1>4 DEF WriteFile
  <2> QED BY <2>1 DEF EncryptedFileOpens, Ended
<1>5. CASE SaveBlob
  <2>1. /\ pc = "save" /\ UNCHANGED <<fs, cmd, data, before>>
        /\ printed' = printed \cup {HexOf(BlobBytes[pipe])}
    BY <1>5 DEF SaveBlob
  <2>2. pipe \in Keys /\ fs[cmd.out] = data /\ cmd.op = "encrypt" /\ data = Wire(pipe, Pair, before[cmd.in])
    BY <2>1 DEF IInv, PlaceInv, Result, InFile
  <2>3. ReadsAsHex(HexOf(BlobBytes[pipe])) /\ BytesOf(HexOf(BlobBytes[pipe])) = BlobBytes[pipe]
    BY <2>2, KeysAssumption, HexRoundTrip
  <2>4. fs'[cmd'.out] = Wire(pipe, Pair', before'[cmd'.in]) /\ HexOf(BlobBytes[pipe]) \in printed'
    BY <2>1, <2>2 DEF Wire
  <2> QED BY <2>2, <2>3, <2>4 DEF EncryptedFileOpens
<1>6. CASE UNCHANGED vars
  BY <1>6 DEF vars, EncryptedFileOpens, Ended, Wire
<1> QED BY <1>2, <1>3, <1>4, <1>5, <1>6 DEF Next

-----------------------------------------------------------------------------
(* Types: what was sealed is a content, so that a decrypt yields one.      *)

TypeInv == TypeOK /\ \A s \in sealed : s[3].kind \in Kinds

LEMMA InitTypes == Init => TypeInv
<1> SUFFICES ASSUME Init PROVE TypeInv
  OBVIOUS
<1>1. \A f \in Files : fs[f].kind \in Kinds
  BY DEF Init, Absent, Plain, Kinds
<1>2. data.kind \in Kinds /\ profile \in [Keys -> Profiles \cup {None}]
  BY DEF Init, Absent, Kinds
<1> QED BY <1>1, <1>2, BoundAssumption DEF Init, TypeInv, TypeOK

LEMMA StepTypes == TypeInv /\ IInv /\ [Next]_vars => TypeInv'
<1> SUFFICES ASSUME TypeInv, IInv, [Next]_vars PROVE TypeInv'
  OBVIOUS
<1> USE DEF history, libVars, Pair, SealedBy
<1>1. CASE Begin
  <2>1. count' \in 0 .. MaxCommands
    BY <1>1, BoundAssumption DEF Begin, TypeInv, TypeOK
  <2> QED BY <1>1, <2>1 DEF Begin, TypeInv, TypeOK, Absent, Kinds
<1>2. CASE Answer \/ HexRefused \/ FileRefused \/ Throws \/ WriteFails \/ SaveFails
  BY <1>2 DEF Answer, HexRefused, FileRefused, Throws, Refused, WriteFails, SaveFails, Exit, TypeInv, TypeOK
<1>3. CASE ReadHex
  BY <1>3 DEF ReadHex, TypeInv, TypeOK
<1>4. CASE ReadFile
  <2>1. fs[cmd.in].kind \in Kinds
    BY <1>4 DEF ReadFile, IInv, PlaceInv, InFile, TypeInv, TypeOK
  <2> QED BY <1>4, <2>1 DEF ReadFile, TypeInv, TypeOK
<1>5. CASE InitPipeline
  <2>1. PICK k \in Keys :
           /\ cmd.profile \in Profiles /\ profile' = [profile EXCEPT ![k] = cmd.profile]
           /\ pipe' = k /\ pc' = "cipher" /\ UNCHANGED <<fs, data, exit, count, sealed>>
    BY <1>5 DEF InitPipeline
  <2>2. profile' \in [Keys -> Profiles \cup {None}] /\ profile'[k] # None
    BY <2>1, ProfilesAssumption DEF TypeInv, TypeOK
  <2> QED BY <2>1, <2>2 DEF TypeInv, TypeOK
<1>6. CASE LoadPipeline
  BY <1>6 DEF LoadPipeline, TypeInv, TypeOK
<1>7. CASE Encrypt
  BY <1>7 DEF Encrypt, TypeInv, TypeOK, Wire, Kinds
<1>8. CASE Decrypt
  <2>1. /\ pc' = "create" /\ UNCHANGED <<fs, profile, pipe, exit, count, sealed>>
        /\ (SealedBy(data, pipe, Pairs) /\ data' = data.of) \/ data' = Noise
    BY <1>8 DEF Decrypt
  <2>2. SealedBy(data, pipe, Pairs) => <<data.key, data.pair, data.of>> \in sealed
    BY DEF SealedBy, IInv, WiresInv, Genuine
  <2>3. data'.kind \in Kinds
    BY <2>1, <2>2 DEF TypeInv, Noise, Kinds
  <2> QED BY <2>1, <2>3 DEF TypeInv, TypeOK
<1>9. CASE CreateFile
  BY <1>9 DEF CreateFile, TypeInv, TypeOK, Torn, Kinds, IInv, WiresInv
<1>10. CASE WriteFile
  BY <1>10 DEF WriteFile, Exit, TypeInv, TypeOK, IInv, WiresInv
<1>11. CASE SaveBlob
  BY <1>11 DEF SaveBlob, Exit, TypeInv, TypeOK
<1>12. CASE UNCHANGED vars
  BY <1>12 DEF vars, TypeInv, TypeOK
<1> QED BY <1>1, <1>2, <1>3, <1>4, <1>5, <1>6, <1>7, <1>8, <1>9, <1>10, <1>11, <1>12 DEF Next

-----------------------------------------------------------------------------
(* Theorems.                                                               *)

\* The variables keep their types, whatever is sealed in what; a pipeline in
\* hand always has the profile it was made with.
THEOREM TypeCorrectness == Spec => []TypeOK
<1>1. TypeInv => TypeOK
  BY DEF TypeInv
<1> QED BY InitInv, StepInv, InitTypes, StepTypes, <1>1, PTL DEF Spec

\* Whatever refuses a command - its blob, its input, the library, the output's
\* directory - no file has changed; once a file is opened for writing, the
\* result it is to hold is there whole.
THEOREM FilesAreTouchedLast == Spec => []RefusalKeepsFiles
<1>1. IInv => RefusalKeepsFiles
  BY DEF IInv
<1> QED BY InitInv, StepInv, <1>1, PTL DEF Spec

\* A decrypt that reports success has written what was encrypted, under the
\* pipeline of the blob it was given, whichever pair of calls the names of the
\* two commands chose; without a MAC it may also be noise, though never of a wire
\* which that pair of that pipeline has sealed.
THEOREM DecryptsAreGenuine == Spec => []DecryptsWhatWasSealed
<1>1. IInv => DecryptsWhatWasSealed
  BY DEF IInv
<1> QED BY InitInv, StepInv, <1>1, PTL DEF Spec

\* An encrypt that reports success has left the whole wire in its file, and a
\* blob on stderr that is read back, byte for byte, as this wire's pipeline.
THEOREM EncryptedFilesOpen == Spec => []EncryptedFileOpens
<1>1. Init => EncryptedFileOpens
  BY DEF Init, EncryptedFileOpens, Ended
<1> QED BY InitInv, StepInv, OpensStep, <1>1, PTL DEF Spec

\* A blob is printed only by an encrypt whose whole wire is in its file, and it
\* is the blob of that wire's pipeline.
THEOREM BlobsFollowFiles == Spec => BlobFollowsFile
<1>1. IInv /\ [Next]_vars =>
        [printed' # printed =>
            /\ cmd.op = "encrypt" /\ fs[cmd.out] = Wire(pipe, Pair, before[cmd.in])
            /\ \A text \in printed' \ printed : BytesOf(text) = BlobBytes[pipe]]_vars
  <2> SUFFICES ASSUME IInv, [Next]_vars, printed' # printed
               PROVE  /\ cmd.op = "encrypt" /\ fs[cmd.out] = Wire(pipe, Pair, before[cmd.in])
                      /\ \A text \in printed' \ printed : BytesOf(text) = BlobBytes[pipe]
    OBVIOUS
  <2>1. SaveBlob
    BY DEF Next, vars, Begin, Answer, HexRefused, FileRefused, Throws, Refused, ReadHex, ReadFile, InitPipeline,
       LoadPipeline, Encrypt, Decrypt, CreateFile, WriteFails, WriteFile, SaveFails
  <2>2. pc = "save" /\ printed' = printed \cup {HexOf(BlobBytes[pipe])}
    BY <2>1 DEF SaveBlob
  <2>3. pipe \in Keys /\ fs[cmd.out] = data /\ cmd.op = "encrypt" /\ data = Wire(pipe, Pair, before[cmd.in])
    BY <2>2 DEF IInv, PlaceInv, Result, InFile
  <2>4. BytesOf(HexOf(BlobBytes[pipe])) = BlobBytes[pipe]
    BY <2>3, KeysAssumption, HexRoundTrip
  <2> QED BY <2>2, <2>3, <2>4
<1> QED BY InitInv, StepInv, <1>1, PTL DEF Spec, BlobFollowsFile

=============================================================================
