------------------------------ MODULE Messages ------------------------------
(***************************************************************************)
(* The texts that the library puts together on a StringBuilder of a fixed  *)
(* first size: the messages of its errors, the headers of the CGI library's*)
(* responses (httpresponse.c) and concatenate.  A text is the size of its  *)
(* builder and the lengths of its parts, in the order they are appended;   *)
(* lengths stand for what a caller passes.                                 *)
(***************************************************************************)
EXTENDS Integers, Sequences, SequencesExt

SB == INSTANCE StringBuilder WITH
         Sizes <- {}, Lengths <- {}, MaxLength <- 0,
         builder <- 0, peak <- 0, arrays <- FALSE

STRINGBUILDER_DEFAULT_SIZE == 64
Char == -1         \* a part that is appended with append_char
None == -2         \* a pointer that is NULL

Text(size, parts) == [size |-> size, parts |-> parts]
DefaultText(parts) == Text(STRINGBUILDER_DEFAULT_SIZE, parts)

Composed(text) ==
    FoldLeft(LAMBDA sb, part : IF part = Char THEN SB!append_char(sb) ELSE SB!append_string(sb, part),
             SB!createStringBuilder_uint32(text.size), text.parts)

------------------------------------------------------------------------------
(* Errors: what could not be done, and to what, between quotes. *)

cannotOpen(pathName)         == DefaultText(<<13, pathName, Char>>)
cannotClose(pathName)        == DefaultText(<<14, pathName, Char>>)
cannotCreate(pathName)       == DefaultText(<<20, pathName, Char>>)
createReadOnly(pathName)     == DefaultText(<<20, pathName, 39>>)
cannotFstat(fdDigits)        == DefaultText(<<14, fdDigits, Char>>)
cannotStat(pathName)         == DefaultText(<<13, pathName, Char>>)
cannotLstat(pathName)        == DefaultText(<<13, pathName, Char>>)
cannotRead(pathName)         == DefaultText(<<23, pathName, Char>>)
cannotReadLink(pathName)     == DefaultText(<<18, pathName, Char>>)
cannotResolve(pathName)      == DefaultText(<<35, pathName, Char>>)
cannotSetTimestamp(pathName) == DefaultText(<<33, pathName, Char>>)
cannotWrite(pathName)        == DefaultText(<<22, pathName, Char>>)
printOpenError(pathName)     == DefaultText(<<13, pathName, Char>>)
createAIOReadOnly(fileName)  == DefaultText(<<24, fileName, 39>>)
setMaxSendBufferSize(digits) == DefaultText(<<33, digits, Char>>)
setMaxRecvBufferSize(digits) == DefaultText(<<36, digits, Char>>)
allocationError(digits)      == DefaultText(<<32, digits, Char>>)
invalidUnsignedInteger(text) == DefaultText(<<27, text, Char>>)
noSuchFormFactor(name)       == DefaultText(<<16, name, 21>>)
noSuchMemoryType(name)       == DefaultText(<<16, name, 21>>)
noSuchErrorCorrectionType(name) == DefaultText(<<16, name, 30>>)
invalidIPv4Address(text)     == Text(128, <<23, text, Char>>)
invalidIPv6Address(text)     == Text(128, <<23, text, Char>>)
initTimeError(digits)        == Text(128, <<25, digits, Char>>)
regexError(regExpr)          == DefaultText(<<25, regExpr, Char>>)
pathError(reason, infoPath)  == DefaultText(<<reason, infoPath, Char>>)

Errors(n) ==
    {cannotOpen(n), cannotClose(n), cannotCreate(n), createReadOnly(n), cannotFstat(n),
     cannotStat(n), cannotLstat(n), cannotRead(n), cannotReadLink(n), cannotResolve(n),
     cannotSetTimestamp(n), cannotWrite(n), printOpenError(n), createAIOReadOnly(n),
     setMaxSendBufferSize(n), setMaxRecvBufferSize(n), allocationError(n),
     invalidUnsignedInteger(n), noSuchFormFactor(n), noSuchMemoryType(n), noSuchErrorCorrectionType(n),
     invalidIPv4Address(n), invalidIPv6Address(n), initTimeError(n), regexError(n),
     pathError(32, n), pathError(41, n), pathError(2, n)}

------------------------------------------------------------------------------
(* Headers.  A length that is None is a field of the struct that is not set. *)

Field(label, length) == IF length = None THEN << >> ELSE <<label, length>>

\* Max-Age, or else Expires.
addCookie(c) ==
    Text(128, <<12, c.name, Char, c.value>>
              \o (IF c.maxAge # None THEN Field(10, c.maxAge) ELSE Field(10, c.expires))
              \o Field(9, c.domain) \o Field(7, c.path) \o Field(11, c.sameSite)
              \o (IF c.isSecure THEN <<8>> ELSE << >>)
              \o (IF c.isHttpOnly THEN <<10>> ELSE << >>))

\* The first directive that is set, in this order, and one age.
Directives == <<"mustRevalidate", "noCache", "noStore", "noTransform", "isPublic", "isPrivate",
                "proxyRevalidate">>
DirectiveLength == <<15, 8, 8, 12, 6, 7, 16>>

setCacheControl(c) ==
    LET first == SelectInSeq(Directives, LAMBDA d : d \in c.directives)
    IN  DefaultText(<<15>> \o (IF first = 0 THEN << >> ELSE <<DirectiveLength[first]>>)
                    \o (IF c.maxAge # None THEN Field(10, c.maxAge)
                        ELSE Field(11, c.sharedMaxAge)))

setHttpAuthenticate(authType, realm) ==
    Text(128, <<18, authType>> \o (IF realm = None THEN << >> ELSE <<8, realm, Char>>))

concatenate(strings) == DefaultText(strings)

\* An array of numbers, with ',' between them.
extract(digits) ==
    DefaultText(<<Char>> \o FoldLeft(LAMBDA parts, d : IF parts = << >> THEN <<d>>
                                                       ELSE parts \o <<Char, d>>, << >>, digits)
                \o <<Char>>)

------------------------------------------------------------------------------
Length(text) == FoldLeft(LAMBDA n, part : n + (IF part = Char THEN 1 ELSE part), 0, text.parts)

\* A text is complete and inside its memory exactly as long as it and its NUL
\* need no more than twice the builder's first size, whichever part comes to
\* that size and however it divides the others: a path, an address or a realm
\* that is longer is written past it.
FitsUpToTwice(text) ==
    LET sb == Composed(text)
    IN  /\ sb.overrun <=> Length(text) >= 2 * text.size
        /\ sb.length = Length(text) /\ sb.nul = Length(text)
=============================================================================
