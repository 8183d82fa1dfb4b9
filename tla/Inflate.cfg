SPECIFICATION Spec
CONSTANTS
    ByteBits = 2
    WordBytes = 6
    PageBits = 16
    MaxHuffmanBits = 4
    LookupBits = 2
    MaxSymbols = 8
    CountRange = 4
    ShortRange = 65536
    CodelenLenBits = 3
    CODELEN_MAX_LIT = 4
    UINT8_MAX = 1
    LITLEN_EOB = 2
    INFLATE_OUTPUT_LENGTH = 10
    CountBits <- MCCountBits
    MinCount <- MCMinCount
    MaxCount <- MCMaxCount
    codelenLengthsOrder <- MCcodelenLengthsOrder
    Repeat <- MCRepeat
    litlen_tbl <- MClitlen_tbl
    dist_tbl <- MCdist_tbl
    Inputs <- MCInputs
INVARIANTS
    ReadsTheStream
    DecodersInvertTheirCodes
    InflatesTheStream
CHECK_DEADLOCK FALSE
