---------------------------- MODULE HttpRequest ----------------------------
(***************************************************************************)
(* The CGI library's HttpRequest (httprequest.c and its assembly) and what *)
(* email.c makes of its values: the fields of a form, from the query       *)
(* string of a GET or from the body of a POST, as a map from names to      *)
(* values.  The whole text is decoded first and taken apart afterwards.  A *)
(* character is its code; in a text that is not yet decoded Upper + code is *)
(* "%XX" with upper case digits, Lower + code with lower case ones.        *)
(***************************************************************************)
EXTENDS Integers, Sequences, SequencesExt, Functions

CONSTANTS
    Requests,       \* what arrives: [method, query, body, contentLength]
    Limits,         \* lengths the caller truncates values to
    MAX_URL_SIZE

Upper == 256
Lower == 512
Nul == 0    Newline == 10   Return == 13   Blank == 32
Ampersand == 38   Plus == 43   Equals == 61

VARIABLES
    arrived,    \* the request of this process: a CGI program serves one
    request,    \* the HttpRequest: [queryString, paramStr, length, parameters]
    at,         \* "init", "post", "mapped", "error", "ranOff" or "cleanedUp"
    shortest    \* for each name the smallest length its value was truncated to

vars == <<arrived, request, at, shortest>>

Absent == << >>                 \* no such environment variable
Text(chars) == <<chars>>

------------------------------------------------------------------------------
\* The first digit is taken to be decimal, the second decimal or upper case;
\* a digit is kept in a byte.
FirstDigit(d) == IF d < 10 THEN d ELSE d + 7
SecondDigit(d, letters) == IF d < 10 THEN d ELSE IF letters = Upper THEN d ELSE d + 32

Decoded(char) ==
    LET code    == char % 256
        letters == char - code
    IN  IF char = Plus THEN Blank
        ELSE IF letters = 0 THEN char
        ELSE (FirstDigit(code \div 16) * 16 + SecondDigit(code % 16, letters)) % 256

\* A NUL that was encoded ends what is seen of the text.
urldecode(text) ==
    LET decoded == [i \in DOMAIN text |-> Decoded(text[i])]
    IN  SubSeq(decoded, 1, SelectInSeq(Append(decoded, Nul), LAMBDA ch : ch = Nul) - 1)

\* One character further: a name ends at '=', a value at '&'.
TakeChar(split, ch) ==
    IF split.inName
    THEN IF ch = Equals THEN [split EXCEPT !.inName = FALSE]
         ELSE [split EXCEPT !.name = Append(@, ch)]
    ELSE IF ch = Ampersand
         THEN [inName |-> TRUE, name |-> << >>, value |-> << >>,
               pairs |-> Append(split.pairs, <<split.name, split.value>>)]
         ELSE [split EXCEPT !.value = Append(@, ch)]

Split(text) ==
    FoldLeft(TakeChar, [inName |-> TRUE, name |-> << >>, value |-> << >>, pairs |-> << >>], text)

\* A mutant for the runs: the pairs are put in the order of the text.
putInOrder(pairs) ==
    FoldLeft(LAMBDA map, pair : (pair[1] :> pair[2]) @@ map, << >>, pairs)

\* The pairs lie on a stack and go into the map from its top: the first one of
\* a name is put last, and replaces the others.
putFromStack(pairs) ==
    FoldLeft(LAMBDA map, pair : (pair[1] :> pair[2]) @@ map, << >>, Reverse(pairs))

\* The search for a '=' does not stop at the end of the text.
mapQueryString(text) ==
    LET split == Split(text)
    IN  IF split.inName THEN [ranOff |-> TRUE, parameters |-> << >>]
        ELSE [ranOff |-> FALSE,
              parameters |-> putFromStack(Append(split.pairs, <<split.name, split.value>>))]

MapText(text) ==
    LET mapped == mapQueryString(urldecode(text))
    IN  /\ request' = [request EXCEPT !.paramStr = Text(urldecode(text)),
                                      !.parameters = mapped.parameters]
        /\ at' = IF mapped.ranOff THEN "ranOff" ELSE "mapped"

------------------------------------------------------------------------------
Init ==
    /\ arrived \in Requests
    /\ request = [paramStr |-> Absent, length |-> 0, parameters |-> << >>]
    /\ at = "init"
    /\ shortest = << >>

\* A request of any other method has no parameters.
initHttpRequest_GET ==
    /\ at = "init" /\ arrived.method # "POST"
    /\ IF arrived.method # "GET" \/ arrived.query = Absent THEN at' = "mapped" /\ UNCHANGED request
       ELSE IF Len(arrived.query[1]) > MAX_URL_SIZE THEN at' = "error" /\ UNCHANGED request
       ELSE MapText(arrived.query[1])
    /\ UNCHANGED <<arrived, shortest>>

\* The length of the body comes from the environment, as a text.
initHttpRequest_POST ==
    /\ at = "init" /\ arrived.method = "POST"
    /\ request' = [request EXCEPT !.length = arrived.contentLength]
    /\ at' = IF arrived.contentLength < 0 THEN "error" ELSE "post"
    /\ UNCHANGED <<arrived, shortest>>

\* sanitizeInput: a line without what ends it.
sanitizeInput(line) ==
    SubSeq(line, 1, SelectInSeq(Append(line, Newline), LAMBDA ch : ch \in {Newline, Return}) - 1)

\* The body's lines as fgets gives them: each with its newline, the last
\* perhaps without.
BodyLines(body) ==
    LET take(lines, ch) ==
            IF lines # << >> /\ Last(Last(lines)) # Newline
            THEN [lines EXCEPT ![Len(lines)] = Append(@, ch)] ELSE Append(lines, <<ch>>)
    IN  FoldLeft(take, << >>, body)

\* An '&' before every line but the first that has anything in it.
Joined(lines) ==
    FoldLeft(LAMBDA text, line :
                (IF text = << >> THEN text ELSE Append(text, Ampersand)) \o sanitizeInput(line),
             << >>, lines)

mapPostData ==
    /\ at = "post"
    /\ IF request.length > 0 THEN MapText(Joined(BodyLines(arrived.body)))
       ELSE at' = "mapped" /\ UNCHANGED request
    /\ UNCHANGED <<arrived, shortest>>

\* What a value was truncated to, if that is less than before.
Shortened(name, length) ==
    (name :> IF name \in DOMAIN shortest /\ shortest[name] < length
             THEN shortest[name] ELSE length) @@ shortest

\* The value that is handed out is cut off where it is kept.
getString(name, maxLen) ==
    /\ at = "mapped" /\ name \in DOMAIN request.parameters
    /\ LET value == request.parameters[name]
       IN  request' = [request EXCEPT !.parameters[name] =
                           SubSeq(value, 1, IF maxLen < Len(value) THEN maxLen ELSE Len(value))]
    /\ shortest' = Shortened(name, maxLen)
    /\ UNCHANGED <<arrived, at>>

\* An Email is made of values: each is cut at the end of its first line, where
\* the request keeps it.
initEmail(name) ==
    /\ at = "mapped" /\ name \in DOMAIN request.parameters
    /\ LET line == sanitizeInput(request.parameters[name])
       IN  /\ request' = [request EXCEPT !.parameters[name] = line]
           /\ shortest' = Shortened(name, Len(line))
    /\ UNCHANGED <<arrived, at>>

cleanUpHttpRequest ==
    /\ at = "mapped"
    /\ request' = [request EXCEPT !.parameters = << >>]
    /\ at' = "cleanedUp"
    /\ UNCHANGED <<arrived, shortest>>

Next ==
    \/ initHttpRequest_GET \/ initHttpRequest_POST \/ mapPostData
    \/ \E name \in DOMAIN request.parameters, maxLen \in Limits : getString(name, maxLen)
    \/ \E name \in DOMAIN request.parameters : initEmail(name)
    \/ cleanUpHttpRequest

Spec == Init /\ [][Next]_vars

------------------------------------------------------------------------------
\* The fields a browser filled in, as the request carries them with it.
FieldsNamed(name) == SelectSeq(arrived.fields, LAMBDA field : field[1] = name)

\* Every field of the form is found under its name with the value the browser
\* gave it, up to the shortest length it was truncated to; of several fields of
\* one name it is the first.  It is so of every form without an '&' in a field,
\* an '=' in a name or a code from A0 up, when the digits are in upper case:
\* separators are decoded before the text is taken apart, and the other digits
\* not to what they stand for.
EveryFieldIsFound ==
    (at = "mapped" /\ arrived.isPlain) =>
       /\ DOMAIN request.parameters = {field[1] : field \in ToSet(arrived.fields)}
       /\ \A name \in DOMAIN request.parameters :
             LET value == FieldsNamed(name)[1][2]
                 limit == IF name \in DOMAIN shortest /\ shortest[name] < Len(value)
                          THEN shortest[name] ELSE Len(value)
             IN  request.parameters[name] = SubSeq(value, 1, limit)
=============================================================================
