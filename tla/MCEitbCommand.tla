--------------------------- MODULE MCEitbCommand ---------------------------
(* A small instance of EitbCommand: two files, three pipelines whose blobs *)
(* have bytes with leading and trailing zeros, and profiles of both name   *)
(* prefixes, with and without a MAC.  One of the strange blobs is a good   *)
(* one with an odd digit after it.                                         *)
EXTENDS EitbCommand, TLC

MCProfiles == {"streaming-mac", "singlemsg-mac", "streaming-nomac"}
MCStreaming == {"streaming-mac", "streaming-nomac"}
MCAuthenticated == {"streaming-mac", "singlemsg-mac"}
MCBlobBytes == (0 :> <<10, 176>>) @@ (1 :> <<171, 0>>) @@ (2 :> <<160, 11>>)
MCStrangeTexts ==
    {<<>>, <<"0">>, <<"0", "g">>, <<"A", "B", "0", "0">>, <<"f", "f">>, <<"0", "a", "b", "0", "0">>}

=============================================================================
