SPECIFICATION Spec
CONSTANTS
    Texts <- MCTexts
    Payloads <- MCPayloads
    Longest = 5
    TextMax = 5
    Kibi = 2
    Mebi = 4
    Gibi = 8
    IntMax = 31
    Modulus = 64
    Floor = 5
INVARIANT ReadAsWritten
INVARIANT CapExact
INVARIANT ParsedHasHeadroom
