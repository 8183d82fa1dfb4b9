------------------------------- MODULE MCText -------------------------------
(***************************************************************************)
(* The text and data functions of the library for TLC: in each behaviour   *)
(* one of them is the subject, and the variables of the others stand       *)
(* still.  The subjects that keep no state between calls get one input     *)
(* each, in the variable "input".                                          *)
(***************************************************************************)
EXTENDS StringBuilder, LineBuffer, FiniteSets, SequencesExt

VARIABLES
    subject, input,
    memory, logLine, clones, meant, crashed,   \* LogLine
    arrived, request, at, shortest             \* HttpRequest

------------------------------------------------------------------------------
(* Firewall log lines: one with ports, one cut short behind another text,   *)
(* one of a protocol by number, one without a port, one in a longer line.   *)

LineHead(in, mac) ==
    <<2, in, 1, 3, 1>> \o (IF mac = 0 THEN << >> ELSE <<4, mac, 1>>) \o <<5, 21, 1, 6, 22, 1>>

MCLines ==
    {LineHead(20, 30) \o <<7, 15, 1, 9, 40, 1, 10, 41, 0>>,
     <<25, 1>> \o LineHead(23, 0) \o <<7, 11, 1, 8, 50, 0>>,
     LineHead(24, 31) \o <<7, 13, 0>>,
     LineHead(24, 31) \o <<7, 16, 1, 25, 0>>,
     LineHead(23, 32) \o <<1, 25, 1, 7, 12, 1, 8, 51, 1, 25, 0>>}

L == INSTANCE LogLine WITH Lines <- MCLines, MaxClones <- 3

------------------------------------------------------------------------------
(* Forms, and the ways a browser may send them: '%' before every code that  *)
(* needs it, '+' for a space, lower case digits, or '=' left as it is.       *)

Names == {<<1>>, <<2, 32>>}
Values == {<< >>, <<3>>, <<32, 61, 4>>, <<37, 43, 5>>, <<4, 10, 6>>, <<233>>}
Forms == {<< >>} \cup {<<f>> : f \in Names \X Values}
                 \cup {<<f, g>> : f, g \in Names \X Values}

Encoded(ch, mode) ==
    CASE ch = 32 -> IF mode = "percent" THEN 256 + 32 ELSE 43
      [] ch \in {10, 37, 43, 38, 61, 233} -> (IF mode = "lower" THEN 512 ELSE 256) + ch
      [] OTHER -> ch

EncodedText(text, mode) ==
    [i \in DOMAIN text |-> IF mode = "bare" /\ text[i] = 61 THEN 61 ELSE Encoded(text[i], mode)]

Query(form, mode) ==
    FoldLeft(LAMBDA text, field : (IF text = << >> THEN text ELSE Append(text, 38))
                                  \o EncodedText(field[1], mode) \o <<61>>
                                  \o EncodedText(field[2], mode), << >>, form)

Uses(form, codes) ==
    \E i \in DOMAIN form : codes \cap (ToSet(form[i][1]) \cup ToSet(form[i][2])) # {}

Plain(form, mode) ==
    form # << >> /\ ~Uses(form, {233}) /\ (mode = "lower" => ~Uses(form, {10, 61, 43, 37}))

Get(form, mode) ==
    [fields |-> form, method |-> "GET", query |-> <<Query(form, mode)>>, body |-> << >>,
     contentLength |-> 0, isPlain |-> Plain(form, mode)]

Post(form, newline) ==
    [fields |-> form, method |-> "POST", query |-> << >>, body |-> Query(form, "plus") \o newline,
     contentLength |-> Len(Query(form, "plus") \o newline), isPlain |-> Plain(form, "plus")]

Other(method, contentLength) ==
    [fields |-> << >>, method |-> method, query |-> << >>, body |-> << >>,
     contentLength |-> contentLength, isPlain |-> TRUE]

MCRequests ==
    {Get(form, mode) : form \in Forms, mode \in {"plus", "percent", "bare", "lower"}}
      \cup {Post(form, newline) : form \in Forms, newline \in {<< >>, <<13, 10>>}}
      \cup {Other("GET", 0), Other("POST", -1), Other("HEAD", 0)}

H == INSTANCE HttpRequest WITH Requests <- MCRequests, Limits <- {1, 3}, MAX_URL_SIZE <- 13

------------------------------------------------------------------------------
(* Messages and headers, around the lengths at which a builder is full.     *)

M == INSTANCE Messages

Cookies ==
    [name : {0, 5, 50}, value : {4, 60}, maxAge : {-2, 3}, expires : {-2, 29},
     domain : {-2, 20, 90}, path : {-2, 1, 15}, sameSite : {-2, 3, 6},
     isSecure : BOOLEAN, isHttpOnly : BOOLEAN]

CacheControls ==
    [directives : {{}, {"noCache", "isPublic"}} \cup {{d} : d \in ToSet(M!Directives)},
     maxAge : {-2, 1, 10}, sharedMaxAge : {-2, 1, 10}]

MCMessages ==
    UNION {M!Errors(n) : n \in 0 .. 130}
      \cup {M!addCookie(c) : c \in Cookies}
      \cup {M!setCacheControl(c) : c \in CacheControls}
      \cup {M!setHttpAuthenticate(a, r) : a \in {5, 6}, r \in {-2} \cup 80 .. 110 \cup 210 .. 230}
      \cup {M!concatenate(<<a, b, c>>) : a \in 0 .. 66, b \in {0, 1, 60}, c \in 0 .. 66}
      \cup {M!extract([i \in 1 .. n |-> d]) : n \in 0 .. 30, d \in {1, 2, 10}}

------------------------------------------------------------------------------
(* Numbers of an integer of 11 bits, and messages of up to almost three     *)
(* blocks of five cells.                                                     *)

N == INSTANCE Numbers WITH WordBits <- 11, Powers <- 5
D == INSTANCE Digest WITH BlockSize <- 5, SlotSize <- 2

Bytes(n, k) == [i \in 1 .. n |-> (i + k) % 3]

------------------------------------------------------------------------------
(* A log of up to six characters through a buffer of three: lines that are   *)
(* cut by a read, that fill the buffer or do not fit, and one with a NUL.    *)

MCTexts == {<< >>, <<1>>, <<10>>, <<2, 10>>, <<1, 2, 3, 4>>, <<1, 0, 10>>}

------------------------------------------------------------------------------
logVars     == <<memory, logLine, clones, meant, crashed>>
requestVars == <<arrived, request, at, shortest>>

IdleBuilder == builder = createStringBuilder_uint32(1) /\ peak = 0 /\ arrays = FALSE
IdleLog     == memory = << >> /\ logLine = << >> /\ clones = << >> /\ meant = << >> /\ crashed = TRUE
IdleRequest == arrived = << >> /\ request = << >> /\ at = "cleanedUp" /\ shortest = << >>

IdleLines ==
    /\ file = << >> /\ position = 0 /\ buffer = << >> /\ length = 0
    /\ line = NULL /\ numBytes = SYSTEM_ERROR_CODE /\ taken = 0

Inputs(of) ==
    CASE of = "Numbers" -> 0 .. N!Word - 1
      [] of = "Digest" -> {<<n, k>> : n \in 0 .. 13, k \in 0 .. 6}
      [] of = "Messages" -> MCMessages

MCInit ==
    \/ subject = "StringBuilder" /\ input = << >> /\ Init /\ IdleLog /\ IdleRequest /\ IdleLines
    \/ subject = "LogLine" /\ input = << >> /\ IdleBuilder /\ L!Init /\ IdleRequest /\ IdleLines
    \/ subject = "HttpRequest" /\ input = << >> /\ IdleBuilder /\ IdleLog /\ H!Init /\ IdleLines
    \/ /\ subject = "LineBuffer" /\ input = << >> /\ initLineBuffer
       /\ IdleBuilder /\ IdleLog /\ IdleRequest
    \/ /\ subject \in {"Numbers", "Digest", "Messages"}
       /\ input \in Inputs(subject)
       /\ IdleBuilder /\ IdleLog /\ IdleRequest /\ IdleLines

MCNext ==
    \/ subject = "StringBuilder" /\ Next /\ UNCHANGED <<subject, input, logVars, requestVars, lineVars>>
    \/ subject = "LogLine" /\ L!Next /\ UNCHANGED <<subject, input, vars, requestVars, lineVars>>
    \/ subject = "HttpRequest" /\ H!Next /\ UNCHANGED <<subject, input, vars, logVars, lineVars>>
    \/ subject = "LineBuffer" /\ LineNext /\ UNCHANGED <<subject, input, vars, logVars, requestVars>>

MCSpec == MCInit /\ [][MCNext]_<<subject, input, vars, logVars, requestVars, lineVars>>

------------------------------------------------------------------------------
\* LogLine.CloneIsIndependent: a clone goes on saying what its line said, when
\* the buffer holds another line and other clones are destroyed.
CloneIsIndependent == L!CloneIsIndependent

\* HttpRequest.EveryFieldIsFound: every field of a form is found under its name
\* with its value, up to the shortest length it was truncated to.
EveryFieldIsFound == H!EveryFieldIsFound

\* Messages.FitsUpToTwice: a message or header is whole and inside its memory
\* exactly up to twice the first size of its builder.
FitsUpToTwice == subject = "Messages" => M!FitsUpToTwice(input)

\* Numbers: a number, a hexadecimal number and a DOS time keep their value in
\* the text made of them, whose memory is just as large as it needs.
NumbersKeepTheirValue ==
    subject = "Numbers" =>
       /\ N!UnsignedRoundTrip(input)
       /\ N!SignedRoundTrip(input + N!SmallestInt)
       /\ \A precision \in {0, 2, 4, 6} : N!HexRoundTrip(input, precision)
       /\ N!DosTimeRoundTrip(31 * input, 31 * input)
       /\ \A other \in {0, 1, input, input + 1, 10 * input, 10 * input + 7, input \div 10} :
             N!TextsCompare(input, other) /\ N!TextsCompare(other, input)

=============================================================================
