SPECIFICATION Spec
CONSTANTS
    Files = {a, b}
    Plains = {m}
    Profiles <- MCProfiles
    Streaming <- MCStreaming
    Authenticated <- MCAuthenticated
    Keys = {0, 1, 2}
    BlobBytes <- MCBlobBytes
    StrangeTexts <- MCStrangeTexts
    None = None
    MaxCommands = 3
INVARIANT EncryptedFileOpens
INVARIANT DecryptsWhatWasSealed
INVARIANT RefusalKeepsFiles
PROPERTY BlobFollowsFile
CHECK_DEADLOCK FALSE
