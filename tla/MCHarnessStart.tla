--------------------------- MODULE MCHarnessStart ---------------------------
(* A small instance of HarnessStart: int64s up to 549, generator words of  *)
(* 1100 states and two bytes, up to four workers, and command lines that   *)
(* vary together the flags that interact and one by one those that do not. *)
EXTENDS HarnessStart

\* A flag with '=', a flag alone, and a bare word.
With(n, v) == [name |-> n, value |-> v, text |-> "--" \o n]
Flag(n) == [name |-> n, value |-> NoValue, text |-> "--" \o n]
Word(t) == [name |-> "(positional)", value |-> NoValue, text |-> t]

MCNumerals ==
    ("0" :> 0) @@ ("1" :> 1) @@ ("2" :> 2) @@ ("3" :> 3) @@ ("4" :> 4) @@ ("5" :> 5) @@ ("-1" :> -1)
    @@ ("50" :> 50) @@ ("512" :> 512) @@ ("530" :> 530) @@ ("1000" :> 1000)
    @@ ("1099" :> 1099) @@ ("1100" :> 1100)
MCSizes == ("0" :> 0) @@ ("1" :> 1) @@ ("3" :> 3) @@ ("5" :> 5) @@ ("16MB" :> 2) @@ ("200" :> 200) @@ ("549" :> 549)
MCDurations == ("5m" :> 5) @@ ("0s" :> 0)
MCCaps == [few |-> 100, many |-> 25]
Record(surface, palette, segment, outer) ==
    [surface |-> surface, palette |-> palette, segment |-> segment, outer |-> outer]
MCProfiles ==
    ("aead" :> Record("stream", TRUE, TRUE, TRUE)) @@ ("single" :> Record("msg", TRUE, TRUE, TRUE))
    @@ ("bare" :> Record("stream", FALSE, FALSE, FALSE)) @@ ("bare-msg" :> Record("msg", FALSE, TRUE, FALSE))
    @@ ("blobs" :> Record("none", TRUE, TRUE, TRUE))
MCDefaultProfile == [stream |-> "aead", msg |-> "single"]
\* Two names of the registry, and the text in whose quotes both stand.
TwoHashes == "areion512\",\"blake3"
MCHashes == {"areion512", "blake3", TwoHashes}
MCSpelling == ("a+b&c=d" :> <<"a", "+", "b", "&", "c", "=", "d">>) @@ ("50% x" :> <<"50", "%", " ", "x">>)
    @@ (TwoHashes :> <<"areion512", "\"", ",", "\"", "blake3">>)
MCRuntimes == {[limit |-> 549, gc |-> 100, procs |-> 8], [limit |-> 300, gc |-> 40, procs |-> 2]}
MCBytes(s) == <<s \div 5, s % 5>>

\* Arguments in any order, with values that are read, refused or swallowed.
Syntax ==
    LET args == {Flag("json-output"), With("json-output", "maybe"), Flag("seed"), With("seed", "3"), Word("5"),
                 With("seed", "-1"), Flag("help"), With("help", "1"), Flag("mac")}
    IN  UNION {[1 .. n -> args] : n \in 0 .. 3}

\* Shapes, profiles and layers.
Surfaces ==
    {<<With("shape", s), With("profile", p), With("parallax", x), With("wrapper", w), With("seed", "1")>> :
        s \in Shapes \cup {"x"}, p \in DOMAIN MCProfiles \cup {"", "x"}, x \in {"on", "off"}, w \in {"on", "off", "x"}}

\* The runtime.
Limits ==
    {<<With("memlimit", m), With("gogc", g), With("gomaxprocs", n), With("goroutines", k), With("seed", "1")>> :
        m \in {"auto", "200", "549", "x"}, g \in {"0", "50", "-1"}, n \in {"0", "2"}, k \in {"3", "4"}}

\* Plaintexts.
Contents ==
    {<<With("payload-mode", m), With("payload-size", z), With("seed", s), With("goroutines", k)>> :
        m \in PayloadModes, z \in {"1", "16MB", "3", "5"}, s \in {"0", "3", "1099", "1100"}, k \in {"1", "3"}}

\* One flag at a time.
Singles ==
    {<<With("hash", h)>> : h \in MCHashes} \cup
    {<<With(f[1], f[2])>> :
        f \in ({"iterations", "rekey-every", "blob-cycle-every", "goroutines", "key-bits", "blob-mode",
                "barrier-fill", "nonce-bits", "gogc", "gomaxprocs"} \X {"-1", "0", "2", "5", "512", "530", "1000", "x"})
              \cup ({"mac", "drbg"} \X DOMAIN MCSpelling)
              \cup ({"hash", "interlock", "duration", "payload-size", "chunk-size", "payload-mode"}
                    \X {"", "48", "0", "0s", "x"})}

MCCommandLines == Syntax \cup Surfaces \cup Limits \cup Contents \cup Singles

=============================================================================
