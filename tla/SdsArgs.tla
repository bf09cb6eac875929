------------------------------ MODULE SdsArgs ------------------------------
(***************************************************************************)
(* A line of arguments: sdscatrepr writes a string as a quoted one, and    *)
(* sdssplitargs reads a line of plain, "quoted" and 'single-quoted'        *)
(* arguments back (bench/sds/sds.c).  One step is one turn of a loop of    *)
(* sdssplitargs; a byte is its number.  Any allocation may fail (at most   *)
(* MaxFailures of them): the code does not look, and using the NULL is a   *)
(* crash.                                                                  *)
(***************************************************************************)
EXTENDS Integers, Sequences, FiniteSets, SequencesExt, FiniteSetsExt

CONSTANTS
  Args,         \* the lists of arguments that get written to a line
  Lines,        \* lines from anywhere else
  MaxFailures,  \* BOUND: how many allocations fail
  NULL          \* the null pointer

VARIABLES
  args,      \* what the line was written from, or NULL
  line,      \* its bytes, the terminating NUL included
  p,         \* the byte the lexer is at
  mode,      \* between tokens, or in which kind of token
  current,   \* the token so far, or NULL
  vector,    \* the tokens read, or NULL
  live,      \* how many blocks of this call are allocated: tokens and the vector
  failures,  \* how many allocations have failed
  out        \* what has become of the call

vars == <<args, line, p, mode, current, vector, live, failures, out>>
input == <<args, line>>

Byte == 0..255
NUL == 0
NL == 10
SPACE == 32
QUOTE == 34
SQUOTE == 39
BSLASH == 92
LETTER_X == 120

\* a, b, n, r, t and the bytes they name behind a backslash.
Escape == [c \in {97, 98, 110, 114, 116} |->
  CASE c = 97 -> 7 [] c = 98 -> 8 [] c = 110 -> NL [] c = 114 -> 13 [] c = 116 -> 9]

ASSUME ArgsAssumption == Args \subseteq Seq(Seq(Byte)) /\ MaxFailures \in Nat
ASSUME LinesAssumption == Lines \subseteq Seq(Byte \ {NUL})
ASSUME NullAssumption ==
  NULL \notin Seq(Byte) /\ NULL \notin Seq(Seq(Byte)) /\ NULL \notin Seq(Seq(Byte) \cup {NULL})

\* Mutant: a vertical tab or a form feed is no blank.
isspace_narrow(c) == c \in {9, NL, 13, SPACE}
isspace(c) == c \in 9..13 \cup {SPACE}
isprint(c) == c \in 32..126
is_hex_digit(c) == c \in 48..57 \cup 97..102 \cup 65..70

\* Mutant: small letters taken for capital ones.
hex_digit_to_int_capital(c) == IF c \in 48..57 THEN c - 48 ELSE c - 55

hex_digit_to_int(c) ==
  CASE c \in 48..57 -> c - 48 [] c \in 97..102 -> c - 87 [] c \in 65..70 -> c - 55 [] OTHER -> 0

-----------------------------------------------------------------------------
(* Writing a line.                                                         *)

HexDigit(n) == IF n < 10 THEN 48 + n ELSE 87 + n

\* Mutant: %x.
Hex_unpadded(c) == (IF c < 16 THEN <<>> ELSE <<HexDigit(c \div 16)>>) \o <<HexDigit(c % 16)>>

\* %02x
Hex(c) == <<HexDigit(c \div 16), HexDigit(c % 16)>>

\* One turn of the loop of sdscatrepr.
Repr(c) ==
  LET named == {e \in DOMAIN Escape : Escape[e] = c}
  IN IF c \in {BSLASH, QUOTE} THEN <<BSLASH, c>>
     ELSE IF named # {} THEN <<BSLASH, CHOOSE e \in named : TRUE>>
     ELSE IF isprint(c) THEN <<c>>
     ELSE <<BSLASH, LETTER_X>> \o Hex(c)

sdscatrepr(s, text) ==
  s \o <<QUOTE>> \o FlattenSeq([i \in DOMAIN text |-> Repr(text[i])]) \o <<QUOTE>>

\* The other ways a user may write an argument.
SingleRepr(c) == IF c = SQUOTE THEN <<BSLASH, c>> ELSE <<c>>
SingleQuoted(text) ==
  <<SQUOTE>> \o FlattenSeq([i \in DOMAIN text |-> SingleRepr(text[i])]) \o <<SQUOTE>>

Written(text) ==
  {sdscatrepr(<<>>, text)}
  \cup {w \in {SingleQuoted(text)} : NUL \notin ToSet(text) /\ BSLASH \notin ToSet(text)}
  \cup {w \in {text} : /\ text # <<>> /\ \A c \in ToSet(text) : isprint(c)
                       /\ ToSet(text) \cap {SPACE, QUOTE, SQUOTE} = {}}

\* The lines that say these arguments, with blanks between them.
LinesFor(list) ==
  {FlattenSeq([i \in DOMAIN list |-> <<SPACE>> \o w[i]]) \o <<NL>> :
     w \in {f \in [DOMAIN list -> UNION {Written(list[i]) : i \in DOMAIN list}] :
              \A i \in DOMAIN list : f[i] \in Written(list[i])}}

-----------------------------------------------------------------------------
(* sdssplitargs.                                                           *)

Init ==
  /\ \/ args \in Args /\ \E l \in LinesFor(args) : line = Append(l, NUL)
     \/ args = NULL /\ \E l \in Lines : line = Append(l, NUL)
  /\ p = 1 /\ mode = "blank" /\ current = NULL /\ vector = NULL
  /\ live = 0 /\ failures = 0 /\ out = "running"

\* Mutant: unterminated quotes are not looked for.
AtEnd_never == FALSE
AtEnd == line[p] = NUL

\* Mutant: if (*p) is missing.
Past_always(q) == q + 1

\* if (*p) p++
Past(q) == IF line[q] = NUL THEN q ELSE q + 1

Fails == failures < MaxFailures /\ failures' = failures + 1
Crashes == out' = "crash" /\ UNCHANGED <<p, mode, current, vector, live, input>>

\* current = sdscatlen(current, c, 1), the last byte used being q.  When there is
\* no memory the old block is nobody's.
Put(c, q) ==
  \/ /\ current # NULL
     /\ \/ current' = Append(current, c) /\ UNCHANGED failures
        \/ current' = NULL /\ Fails
     /\ p' = Past(q)
     /\ UNCHANGED <<mode, vector, live, out, input>>
  \/ current = NULL /\ Crashes /\ UNCHANGED failures

\* The token is done, and added to the vector.
EndToken ==
  \/ /\ vector' = Append(IF vector = NULL THEN <<>> ELSE vector, current)
     /\ live' = IF vector = NULL THEN live + 1 ELSE live
     /\ current' = NULL /\ mode' = "blank" /\ p' = Past(p)
     /\ UNCHANGED <<failures, out, input>>
  \/ Fails /\ Crashes

\* Where in the vector a token is.
Tokens == IF vector = NULL THEN {} ELSE {i \in DOMAIN vector : vector[i] # NULL}

\* Mutant: the token that was being read stays behind.
Freed_tokens == Cardinality(Tokens) + (IF vector = NULL THEN 0 ELSE 1)
Freed == Cardinality(Tokens) + (IF vector = NULL THEN 0 ELSE 1) + (IF current = NULL THEN 0 ELSE 1)

\* goto err
Err ==
  /\ live' = live - Freed /\ current' = NULL /\ vector' = NULL /\ out' = "null"
  /\ UNCHANGED <<p, mode, failures, input>>

\* A closing quote must be followed by a blank or nothing at all.
Close ==
  IF line[p + 1] # NUL /\ ~isspace(line[p + 1]) THEN Err ELSE EndToken

\* Skip blanks; then a token starts.
Blank ==
  LET q == Min({i \in p..Len(line) : ~isspace(line[i])}) IN
  /\ mode = "blank" /\ line[q] # NUL
  /\ \/ current' = <<>> /\ live' = live + 1 /\ UNCHANGED failures
     \/ current' = NULL /\ Fails /\ UNCHANGED live
  /\ p' = q /\ mode' = "plain"
  /\ UNCHANGED <<vector, out, input>>

\* Skip blanks; then the line is at its end.
Return ==
  LET q == Min({i \in p..Len(line) : ~isspace(line[i])}) IN
  /\ mode = "blank" /\ line[q] = NUL
  /\ \/ vector # NULL /\ out' = "tokens" /\ UNCHANGED <<vector, live, failures>>
     \/ /\ vector = NULL /\ out' = "tokens" /\ vector' = <<>> /\ live' = live + 1
        /\ UNCHANGED failures
     \/ vector = NULL /\ Fails /\ out' = "null" /\ UNCHANGED <<vector, live>>
  /\ p' = q
  /\ UNCHANGED <<mode, current, input>>

Plain ==
  LET c == line[p] IN
  /\ mode = "plain"
  /\ \/ c \in {SPACE, NL, 13, 9, NUL} /\ EndToken
     \/ /\ c \in {QUOTE, SQUOTE}
        /\ mode' = (IF c = QUOTE THEN "quoted" ELSE "single") /\ p' = Past(p)
        /\ UNCHANGED <<current, vector, live, failures, out, input>>
     \/ c \notin {SPACE, NL, 13, 9, NUL, QUOTE, SQUOTE} /\ Put(c, p)

\* \x and two digits.
HexAhead ==
  /\ line[p] = BSLASH /\ line[p + 1] = LETTER_X
  /\ is_hex_digit(line[p + 2]) /\ is_hex_digit(line[p + 3])

Quoted ==
  LET c == line[p] IN
  /\ mode = "quoted"
  /\ IF HexAhead
     THEN Put(hex_digit_to_int(line[p + 2]) * 16 + hex_digit_to_int(line[p + 3]), p + 3)
     ELSE IF c = BSLASH /\ line[p + 1] # NUL
     THEN Put(IF line[p + 1] \in DOMAIN Escape THEN Escape[line[p + 1]] ELSE line[p + 1], p + 1)
     ELSE IF c = QUOTE THEN Close
     ELSE IF AtEnd THEN Err
     ELSE Put(c, p)

Single ==
  LET c == line[p] IN
  /\ mode = "single"
  /\ IF c = BSLASH /\ line[p + 1] = SQUOTE THEN Put(SQUOTE, p + 1)
     ELSE IF c = SQUOTE THEN Close
     ELSE IF AtEnd THEN Err
     ELSE Put(c, p)

Next ==
  \/ out = "running" /\ (Blank \/ Return \/ Plain \/ Quoted \/ Single)
  \/ out # "running" /\ UNCHANGED vars

Spec == Init /\ [][Next]_vars

-----------------------------------------------------------------------------
(* What makes the call correct.                                            *)

\* The shape of the state; every byte of a token is a byte.
TypeOK ==
  /\ args \in Seq(Seq(Byte)) \cup {NULL} /\ line \in Seq(Byte)
  /\ p \in Nat /\ mode \in {"blank", "plain", "quoted", "single"}
  /\ current \in Seq(Byte) \cup {NULL}
  /\ vector \in Seq(Seq(Byte) \cup {NULL}) \cup {NULL}
  /\ live \in Nat /\ failures \in 0..MaxFailures
  /\ out \in {"running", "tokens", "null", "crash"}

\* The lexer stays on the line, whatever escape or quote the line ends in the
\* middle of.
InLine == p \in 1..Len(line)

\* With every allocation granted, the call never uses a NULL, a refused line leaves
\* nothing allocated, and an accepted one what sdsfreesplitres is given.
NothingLost ==
  failures = 0 =>
    /\ out # "crash"
    /\ out = "null" => live = 0
    /\ out = "tokens" => live = Cardinality(Tokens) + 1

\* "sdscatrepr() is able to convert back a string into a quoted string in the same
\* format sdssplitargs() is able to parse": the arguments come back, byte by byte.
RoundTrip ==
  args # NULL /\ failures = 0 /\ out # "running" => out = "tokens" /\ vector = args

\* The bytes of a string that are neither blanks nor its end.
Ink(s) ==
  FlattenSeq([i \in DOMAIN s |-> IF s[i] \in 9..13 \cup {SPACE, NUL} THEN <<>> ELSE <<s[i]>>])

\* Without quotes no line is refused, its bytes but the blanks are those of the
\* tokens, in order, and no token is empty or starts with a blank.
PlainTokens ==
  ToSet(line) \cap {QUOTE, SQUOTE} = {} /\ failures = 0 /\ out # "running" =>
    /\ out = "tokens" /\ Ink(FlattenSeq(vector)) = Ink(line)
    /\ \A i \in DOMAIN vector : vector[i] # <<>> /\ Ink(<<Head(vector[i])>>) # <<>>

\* What is ahead: the rest of the line, and at one place the start of a token before
\* its chars, or its end before the end of the line.
Distance == 2 * (Len(line) - p) + IF (mode = "blank") = (line[p] # NUL) THEN 1 ELSE 0

\* Every turn of a loop that does not end the call brings the lexer nearer to the end
\* of its line, from which there are only so many turns: every call returns.
Advances == [][out' = "running" => Distance' \in Nat /\ Distance' < Distance]_vars
=============================================================================
