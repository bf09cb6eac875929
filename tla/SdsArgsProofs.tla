---------------------------- MODULE SdsArgsProofs ----------------------------
(***************************************************************************)
(* What SdsArgs promises, proved for every line and every list of          *)
(* arguments: the lexer stays on the line and goes forward, nothing is     *)
(* lost, and what was written is read back.                                *)
(***************************************************************************)
EXTENDS SdsArgs, InductionLemmas

-----------------------------------------------------------------------------
(* Written lines are lines.                                                *)

LEMMA Bytes ==
  /\ NUL \in Byte /\ NL \in Byte /\ SPACE \in Byte /\ QUOTE \in Byte /\ SQUOTE \in Byte
  /\ BSLASH \in Byte /\ LETTER_X \in Byte
BY DEF Byte, NUL, NL, SPACE, QUOTE, SQUOTE, BSLASH, LETTER_X

LEMMA EscapeIs ==
  /\ DOMAIN Escape = {97, 98, 110, 114, 116}
  /\ Escape[97] = 7 /\ Escape[98] = 8 /\ Escape[110] = 10 /\ Escape[114] = 13 /\ Escape[116] = 9
BY DEF Escape, NL

LEMMA HexType ==
  ASSUME NEW c \in Byte
  PROVE  \E q, m \in 0..15 : q = c \div 16 /\ m = c % 16 /\ c = q * 16 + m
<1>1. PICK q, m : q = c \div 16 /\ m = c % 16
  OBVIOUS
<1>2. c \in 0..255
  BY DEF Byte
<1>3. m \in 0..15 /\ q \in Int /\ c = 16 * q + m
  BY <1>1, <1>2
<1>4. q \in 0..15 /\ c = q * 16 + m
  BY <1>2, <1>3
<1> QED
  BY <1>1, <1>3, <1>4

LEMMA HexDigitType == ASSUME NEW n \in 0..15 PROVE HexDigit(n) \in Byte
BY DEF HexDigit, Byte

LEMMA ReprType ==
  ASSUME NEW c \in Byte
  PROVE  Repr(c) \in Seq(Byte)
<1>1. PICK named : named = {e \in DOMAIN Escape : Escape[e] = c}
  OBVIOUS
<1>2. PICK h : h = <<BSLASH, LETTER_X>> \o Hex(c)
  OBVIOUS
<1>3. h \in Seq(Byte)
  <2>0. PICK q \in 0..15, m \in 0..15 : q = c \div 16 /\ m = c % 16
    BY HexType
  <2>1. PICK x, y : x = HexDigit(q) /\ y = HexDigit(m)
    OBVIOUS
  <2>2. x \in Byte /\ y \in Byte
    BY <2>1, HexDigitType
  <2>3. h = <<BSLASH, LETTER_X>> \o <<x, y>>
    BY <1>2, <2>0, <2>1, Zenon DEF Hex
  <2> QED
    BY <2>2, <2>3, Bytes
<1>4. named # {} => (CHOOSE e \in named : TRUE) \in Byte
  <2>1. named \subseteq Byte
    BY <1>1, EscapeIs DEF Byte
  <2> QED
    BY <2>1
<1> QED
  BY <1>1, <1>2, <1>3, <1>4, Bytes DEF Repr

LEMMA SingleReprType == ASSUME NEW c \in Byte PROVE SingleRepr(c) \in Seq(Byte)
BY Bytes DEF SingleRepr

\* Each byte of a text, written.
Reprs(text) == [i \in DOMAIN text |-> Repr(text[i])]
SingleReprs(text) == [i \in DOMAIN text |-> SingleRepr(text[i])]

LEMMA ReprsType ==
  ASSUME NEW text \in Seq(Byte)
  PROVE  /\ Reprs(text) \in Seq(Seq(Byte)) /\ Len(Reprs(text)) = Len(text)
         /\ SingleReprs(text) \in Seq(Seq(Byte)) /\ Len(SingleReprs(text)) = Len(text)
<1>1. \A i \in 1..Len(text) : Repr(text[i]) \in Seq(Byte) /\ SingleRepr(text[i]) \in Seq(Byte)
  BY ReprType, SingleReprType
<1>2. DOMAIN text = 1..Len(text) /\ Len(text) \in Nat
  OBVIOUS
<1>3. \A f : f \in [1..Len(text) -> Seq(Byte)] => f \in Seq(Seq(Byte)) /\ Len(f) = Len(text)
  BY <1>2
<1>4. Reprs(text) \in [1..Len(text) -> Seq(Byte)]
  BY <1>1, <1>2 DEF Reprs
<1>5. SingleReprs(text) \in [1..Len(text) -> Seq(Byte)]
  BY <1>1, <1>2 DEF SingleReprs
<1> QED
  BY <1>3, <1>4, <1>5

\* A text between two quotes.
Between(q, t) == <<q>> \o t \o <<q>>

IsBetween(w, q, t) ==
  /\ w \in Seq(Byte) /\ Len(w) = Len(t) + 2 /\ w[1] = q /\ w[Len(t) + 2] = q
  /\ \A k \in 1..Len(t) : w[1 + k] = t[k]

LEMMA BetweenIs ==
  ASSUME NEW q \in Byte, NEW t \in Seq(Byte)
  PROVE  IsBetween(Between(q, t), q, t)
<1>1. PICK u : u = <<q>> \o t
  OBVIOUS
<1>2. u \in Seq(Byte) /\ Len(u) = Len(t) + 1 /\ Len(t) \in Nat
  BY <1>1
<1>3. u[1] = q /\ \A k \in 1..Len(t) : u[1 + k] = t[k]
  BY <1>1, <1>2
<1>4. PICK w : w = u \o <<q>>
  OBVIOUS
<1>5. Between(q, t) = w
  BY <1>1, <1>4 DEF Between
<1>6. IsBetween(w, q, t)
  BY <1>2, <1>3, <1>4 DEF IsBetween
<1> QED
  BY <1>5, <1>6

LEMMA Written1 ==
  ASSUME NEW text \in Seq(Byte)
  PROVE  /\ sdscatrepr(<<>>, text) = Between(QUOTE, FlattenSeq(Reprs(text)))
         /\ SingleQuoted(text) = Between(SQUOTE, FlattenSeq(SingleReprs(text)))
         /\ FlattenSeq(Reprs(text)) \in Seq(Byte)
         /\ FlattenSeq(SingleReprs(text)) \in Seq(Byte)
<1>1. FlattenSeq(Reprs(text)) \in Seq(Byte) /\ FlattenSeq(SingleReprs(text)) \in Seq(Byte)
  BY ReprsType, FlattenAppend
<1>2. <<>> \o <<QUOTE>> = <<QUOTE>>
  BY Bytes
<1>3. sdscatrepr(<<>>, text) = <<QUOTE>> \o FlattenSeq(Reprs(text)) \o <<QUOTE>>
  BY <1>2 DEF sdscatrepr, Reprs
<1> QED
  BY <1>1, <1>3 DEF Between, SingleQuoted, SingleReprs
LEMMA WrittenType ==
  ASSUME NEW text \in Seq(Byte)
  PROVE  Written(text) \subseteq Seq(Byte)
<1>1. sdscatrepr(<<>>, text) \in Seq(Byte) /\ SingleQuoted(text) \in Seq(Byte)
  BY Written1, BetweenIs, Bytes DEF IsBetween
<1> QED
  BY <1>1 DEF Written

\* The pieces of a line: each argument written, a blank before it.
Pieces(list, w) == [i \in DOMAIN list |-> <<SPACE>> \o w[i]]

\* How the arguments may have been written.
Writings(list) ==
  {f \in [DOMAIN list -> UNION {Written(list[i]) : i \in DOMAIN list}] :
     \A i \in DOMAIN list : f[i] \in Written(list[i])}

LEMMA PiecesType ==
  ASSUME NEW list \in Seq(Seq(Byte)), NEW w \in Writings(list)
  PROVE  /\ Pieces(list, w) \in Seq(Seq(Byte)) /\ Len(Pieces(list, w)) = Len(list)
         /\ FlattenSeq(Pieces(list, w)) \in Seq(Byte)
<1>1. DOMAIN list = 1..Len(list) /\ Len(list) \in Nat
  OBVIOUS
<1>2. \A i \in 1..Len(list) : w[i] \in Seq(Byte)
  BY <1>1, WrittenType DEF Writings
<1>3. \A i \in 1..Len(list) : <<SPACE>> \o w[i] \in Seq(Byte)
  BY <1>2, Bytes
<1>4. Pieces(list, w) \in [1..Len(list) -> Seq(Byte)]
  BY <1>1, <1>3 DEF Pieces
<1>5. Pieces(list, w) \in Seq(Seq(Byte)) /\ Len(Pieces(list, w)) = Len(list)
  BY <1>1, <1>4
<1> QED
  BY <1>5, FlattenAppend

LEMMA LinesType ==
  ASSUME NEW list \in Seq(Seq(Byte)), NEW l \in LinesFor(list)
  PROVE  l \in Seq(Byte) /\ \E w \in Writings(list) : l = FlattenSeq(Pieces(list, w)) \o <<NL>>
<1>1. PICK w \in Writings(list) : l = FlattenSeq(Pieces(list, w)) \o <<NL>>
  BY DEF LinesFor, Writings, Pieces
<1>2. FlattenSeq(Pieces(list, w)) \in Seq(Byte)
  BY PiecesType
<1> QED
  BY <1>1, <1>2, Bytes

-----------------------------------------------------------------------------
(* The lexer stays on the line, and every block is somebody's.             *)

\* The line ends in its NUL; a token is being read or it is not; what is allocated
\* is what an error would free.
Books ==
  /\ Len(line) > 0 /\ line[Len(line)] = NUL
  /\ mode = "blank" => current = NULL
  /\ out = "running" => Freed <= live
  /\ failures = 0 =>
       /\ out = "running" => live = Freed /\ (mode # "blank" => current # NULL)
       /\ NothingLost

IInv == TypeOK /\ InLine /\ Books

\* The turns of the loops, by what they do to the books.
Opens ==
  /\ mode = "plain" /\ mode' \in {"quoted", "single"} /\ line[p] # NUL /\ p' = Past(p)
  /\ UNCHANGED <<current, vector, live, failures, out, input>>

Puts == mode # "blank" /\ \E c \in Byte, q \in p..Len(line) : line[q] # NUL /\ Put(c, q)

Turn ==
  out = "running" /\ (Blank \/ Return \/ Opens \/ Puts \/ (mode # "blank" /\ (EndToken \/ Err)))

LEMMA DigitType == ASSUME NEW c \in Byte PROVE hex_digit_to_int(c) \in 0..15
BY DEF hex_digit_to_int, Byte

LEMMA EscapeType == ASSUME NEW c \in DOMAIN Escape PROVE Escape[c] \in Byte
BY EscapeIs DEF Byte

LEMMA Ahead ==
  ASSUME TypeOK, InLine, Books, line[p] # NUL
  PROVE  /\ p + 1 \in p..Len(line) /\ line[p] \in Byte /\ line[p + 1] \in Byte
         /\ HexAhead =>
              /\ p + 3 \in p..Len(line) /\ line[p + 3] # NUL
              /\ line[p + 2] \in Byte /\ line[p + 3] \in Byte
<1>1. p + 1 \in 1..Len(line) /\ line \in Seq(Byte) /\ p \in Nat /\ Len(line) \in Nat
  BY DEF TypeOK, InLine, Books
<1>2. line[p + 1] # NUL => p + 2 \in 1..Len(line)
  BY <1>1 DEF Books
<1>3. line[p + 2] # NUL /\ p + 2 \in 1..Len(line) => p + 3 \in 1..Len(line)
  BY <1>1 DEF Books
<1>4. \A c : is_hex_digit(c) \/ c = LETTER_X => c # NUL
  BY DEF is_hex_digit, LETTER_X, NUL
<1>5. HexAhead => line[p + 1] # NUL /\ line[p + 2] # NUL /\ line[p + 3] # NUL
  BY <1>4 DEF HexAhead
<1>6. \A i \in 1..Len(line) : line[i] \in Byte
  BY <1>1
<1>7. p \in 1..Len(line) /\ \A i \in Int : p + i \in 1..Len(line) /\ i >= 0 => p + i \in p..Len(line)
  BY <1>1 DEF InLine
<1> QED
  BY <1>1, <1>2, <1>3, <1>5, <1>6, <1>7

\* Every step is such a turn.
LEMMA Turns ==
  ASSUME IInv, Next
  PROVE  Turn \/ UNCHANGED vars
<1> SUFFICES ASSUME out = "running", Blank \/ Return \/ Plain \/ Quoted \/ Single
             PROVE  Turn
  BY DEF Next
<1> USE DEF IInv
<1>0. p \in p..Len(line) /\ p \in Nat
  BY DEF TypeOK, InLine
<1>a. ASSUME mode # "blank", NEW c \in Byte, NEW q \in p..Len(line), line[q] # NUL, Put(c, q)
      PROVE  Turn
  BY <1>a DEF Turn, Puts
<1>b. ASSUME mode # "blank", EndToken \/ Err  PROVE Turn
  BY <1>b DEF Turn
<1>c. Close => EndToken \/ Err
  BY DEF Close
<1>d. QUOTE # NUL /\ SQUOTE # NUL /\ BSLASH # NUL
  BY DEF QUOTE, SQUOTE, BSLASH, NUL
<1>1. CASE Blank \/ Return
  BY <1>1 DEF Turn
<1>2. CASE Plain
  <2>1. mode # "blank"
    BY <1>2 DEF Plain
  <2>2. CASE EndToken
    BY <1>b, <2>1, <2>2
  <2>3. CASE line[p] # NUL /\ Put(line[p], p)
    BY <1>0, <1>a, <2>1, <2>3, Ahead
  <2>4. CASE Opens
    BY <2>4 DEF Turn
  <2> QED
    BY <1>2, <1>d, <2>2, <2>3, <2>4 DEF Plain, Opens
<1>3. CASE Quoted
  <2>1. mode # "blank"
    BY <1>3 DEF Quoted
  <2>2. CASE HexAhead
    <3>1. line[p] # NUL
      BY <1>d, <2>2 DEF HexAhead
    <3>2. PICK x, y : x = hex_digit_to_int(line[p + 2]) /\ y = hex_digit_to_int(line[p + 3])
      OBVIOUS
    <3>3. x \in 0..15 /\ y \in 0..15
      BY <2>2, <3>1, <3>2, Ahead, DigitType
    <3>4. x * 16 + y \in Byte
      BY <3>3 DEF Byte
    <3>5. Put(x * 16 + y, p + 3)
      BY <1>3, <2>2, <3>2 DEF Quoted
    <3> QED
      BY <1>a, <2>1, <2>2, <3>1, <3>4, <3>5, Ahead
  <2>3. CASE ~HexAhead /\ line[p] = BSLASH /\ line[p + 1] # NUL
    <3>1. PICK c : c = IF line[p + 1] \in DOMAIN Escape THEN Escape[line[p + 1]] ELSE line[p + 1]
      OBVIOUS
    <3>2. c \in Byte /\ p + 1 \in p..Len(line)
      BY <1>d, <2>3, <3>1, Ahead, EscapeType
    <3>3. Put(c, p + 1)
      BY <1>3, <2>3, <3>1 DEF Quoted
    <3> QED
      BY <1>a, <2>1, <2>3, <3>2, <3>3
  <2>4. CASE Close \/ Err
    BY <1>b, <1>c, <2>1, <2>4
  <2>5. CASE line[p] # NUL /\ Put(line[p], p)
    BY <1>0, <1>a, <2>1, <2>5, Ahead
  <2> QED
    BY <1>3, <2>2, <2>3, <2>4, <2>5 DEF Quoted, AtEnd
<1>4. CASE Single
  <2>1. mode # "blank"
    BY <1>4 DEF Single
  <2>2. CASE line[p] = BSLASH /\ line[p + 1] = SQUOTE
    <3>1. Put(SQUOTE, p + 1)
      BY <1>4, <2>2 DEF Single
    <3> QED
      BY <1>a, <1>d, <2>1, <2>2, <3>1, Ahead, Bytes
  <2>3. CASE Close \/ Err
    BY <1>b, <1>c, <2>1, <2>3
  <2>4. CASE line[p] # NUL /\ Put(line[p], p)
    BY <1>0, <1>a, <2>1, <2>4, Ahead
  <2> QED
    BY <1>4, <2>2, <2>3, <2>4 DEF Single, AtEnd
<1> QED
  BY <1>1, <1>2, <1>3, <1>4
LEMMA AtStart == Init => IInv
<1> SUFFICES ASSUME Init  PROVE IInv
  OBVIOUS
<1>1. PICK l \in Seq(Byte) : line = Append(l, NUL)
  <2>1. CASE args = NULL
    <3>1. \A l \in Lines : l \in Seq(Byte)
      BY LinesAssumption
    <3> QED
      BY <2>1, <3>1, ArgsAssumption, NullAssumption DEF Init
  <2>2. CASE args \in Args
    BY <2>2, LinesType, ArgsAssumption, NullAssumption DEF Init
  <2> QED
    BY <2>1, <2>2 DEF Init
<1>2. line \in Seq(Byte) /\ Len(line) = Len(l) + 1 /\ Len(l) \in Nat /\ line[Len(line)] = NUL
  BY <1>1, Bytes
<1>3. Tokens = {} /\ Freed = 0
  BY FS_EmptySet DEF Init, Tokens, Freed
<1>4. TypeOK
  BY <1>2, ArgsAssumption, Bytes DEF Init, TypeOK
<1>5. InLine
  BY <1>2 DEF Init, InLine
<1>6. Books
  BY <1>2, <1>3 DEF Init, Books, NothingLost
<1> QED
  BY <1>4, <1>5, <1>6 DEF IInv

\* How many tokens there are, and what one more makes of that.
LEMMA TokenCount ==
  ASSUME TypeOK
  PROVE  /\ IsFiniteSet(Tokens) /\ Cardinality(Tokens) \in Nat /\ Freed \in Nat
         /\ vector = NULL => Cardinality(Tokens) = 0
<1>1. vector # NULL => Tokens \subseteq 1..Len(vector) /\ Len(vector) \in Nat
  BY DEF Tokens, TypeOK
<1>2. IsFiniteSet(Tokens)
  <2>1. CASE vector = NULL
    BY <2>1, FS_EmptySet DEF Tokens
  <2>2. CASE vector # NULL
    <3>1. IsFiniteSet(1..Len(vector))
      BY <1>1, <2>2, FS_Interval
    <3> QED
      BY <1>1, <2>2, <3>1, FS_Subset
  <2> QED
    BY <2>1, <2>2
<1>3. Cardinality(Tokens) \in Nat
  BY <1>2, FS_CardinalityType
<1>4. vector = NULL => Tokens = {}
  BY DEF Tokens
<1> QED
  BY <1>2, <1>3, <1>4, FS_EmptySet DEF Freed

LEMMA OneMore ==
  ASSUME TypeOK, vector' = Append(IF vector = NULL THEN <<>> ELSE vector, current)
  PROVE  /\ vector' # NULL /\ vector' \in Seq(Seq(Byte) \cup {NULL})
         /\ Cardinality(Tokens') = Cardinality(Tokens) + (IF current = NULL THEN 0 ELSE 1)
<1>1. PICK v, t, U : v = (IF vector = NULL THEN <<>> ELSE vector) /\ t = current /\ U = Seq(Byte) \cup {NULL}
  OBVIOUS
<1>2. v \in Seq(U) /\ t \in U /\ vector' = Append(v, t)
  BY <1>1 DEF TypeOK
<1>3. PICK n : n = Len(v)
  OBVIOUS
<1>4. /\ n \in Nat /\ vector' \in Seq(U) /\ Len(vector') = n + 1 /\ vector'[n + 1] = t
      /\ \A i \in 1..n : vector'[i] = v[i]
  <2>1. v \in Seq(U) /\ t \in U
    BY <1>2
  <2>2. PICK w : w = Append(v, t)
    OBVIOUS
  <2>3. /\ w \in Seq(U) /\ Len(w) = Len(v) + 1
        /\ \A i \in 1..Len(v) : w[i] = v[i]
        /\ w[Len(v) + 1] = t
    BY <2>1, <2>2, AppendProperties
  <2>4. Len(v) \in Nat
    BY <2>1, LenProperties
  <2> QED
    BY <1>2, <1>3, <2>2, <2>3, <2>4, Zenon
<1>5. vector' # NULL
  BY <1>1, <1>4, NullAssumption
<1>6. Tokens = {i \in 1..n : v[i] # NULL}
  BY <1>1, <1>2, <1>3 DEF Tokens, TypeOK
<1>7. Tokens' = {i \in 1..(n + 1) : vector'[i] # NULL}
  BY <1>4, <1>5 DEF Tokens
<1>8. Tokens' = IF t = NULL THEN Tokens ELSE Tokens \cup {n + 1}
  BY <1>4, <1>6, <1>7
<1>9. n + 1 \notin Tokens
  BY <1>4, <1>6
<1>10. IsFiniteSet(Tokens) /\ Cardinality(Tokens) \in Nat
  BY TokenCount
<1>11. Cardinality(Tokens \cup {n + 1}) = Cardinality(Tokens) + 1
  BY <1>9, <1>10, FS_AddElement
<1>12. Cardinality(Tokens') = Cardinality(Tokens) + (IF t = NULL THEN 0 ELSE 1)
  BY <1>8, <1>10, <1>11
<1> QED
  BY <1>1, <1>4, <1>5, <1>12, Zenon

\* Going on by one, but not past the end.
LEMMA PastIs ==
  ASSUME TypeOK, InLine, Books, NEW q \in p..Len(line)
  PROVE  Past(q) \in p..Len(line) /\ (line[q] # NUL => Past(q) = q + 1)
<1>1. p \in Nat /\ Len(line) \in Nat /\ p \in 1..Len(line)
  BY DEF TypeOK, InLine
<1>2. line[q] # NUL => q + 1 \in p..Len(line)
  BY <1>1 DEF Books
<1> QED
  BY <1>2 DEF Past

\* Where the skipping of blanks ends.
Skipped == Min({i \in p..Len(line) : ~isspace(line[i])})

LEMMA SkippedIs ==
  ASSUME TypeOK, InLine, Books
  PROVE  /\ Skipped \in p..Len(line) /\ ~isspace(line[Skipped])
         /\ \A i \in p..(Skipped - 1) : isspace(line[i])
<1>1. PICK S : S = {i \in p..Len(line) : ~isspace(line[i])}
  OBVIOUS
<1>2. p \in Nat /\ Len(line) \in Nat /\ p \in 1..Len(line)
  BY DEF TypeOK, InLine
<1>3. ~isspace(NUL)
  BY DEF isspace, NUL, SPACE
<1>4. S \subseteq Nat /\ Len(line) \in S
  BY <1>1, <1>2, <1>3 DEF Books
<1>5. PICK m : m = Min(S)
  OBVIOUS
<1>6. m \in S /\ \A x \in S : m <= x
  BY <1>4, <1>5, Smallest
<1>7. Skipped = m
  BY <1>1, <1>5 DEF Skipped
<1>8. m \in p..Len(line) /\ ~isspace(line[m])
  BY <1>1, <1>6
<1>9. \A i \in p..(m - 1) : isspace(line[i])
  <2> TAKE i \in p..(m - 1)
  <2>1. i \in p..Len(line) /\ i \notin S
    BY <1>2, <1>6, <1>8
  <2> QED
    BY <1>1, <2>1
<1> QED
  BY <1>7, <1>8, <1>9
\* A turn keeps the books.
LEMMA PutKeeps ==
  ASSUME IInv, out = "running", Puts
  PROVE  IInv'
<1> USE DEF IInv
<1>1. PICK c \in Byte, q \in p..Len(line) : line[q] # NUL /\ Put(c, q)
  BY DEF Puts
<1>2. CASE current # NULL
  <2>1. /\ p' = Past(q) /\ UNCHANGED <<mode, vector, live, out, input>>
        /\ \/ current' = Append(current, c) /\ UNCHANGED failures
           \/ current' = NULL /\ Fails
    BY <1>1, <1>2 DEF Put
  <2>2. p' \in p..Len(line) /\ p \in Nat /\ Len(line) \in Nat /\ p \in 1..Len(line)
    BY <1>1, <2>1, PastIs DEF TypeOK, InLine
  <2>3. p' \in 1..Len(line) /\ p' \in Nat
    BY <2>2
  <2>4. Append(current, c) \in Seq(Byte)
    BY <1>2 DEF TypeOK
  <2>5. failures' \in 0..MaxFailures
    BY <2>1, ArgsAssumption DEF Fails, TypeOK
  <2>6. TypeOK'
    BY <2>1, <2>3, <2>4, <2>5 DEF TypeOK, input
  <2>7. InLine'
    BY <2>1, <2>3 DEF InLine, input
  <2>8. Tokens' = Tokens
    BY <2>1 DEF Tokens
  <2>9. Freed' <= Freed /\ (current' # NULL => Freed' = Freed)
    BY <1>2, <2>1, <2>8, TokenCount DEF Freed
  <2>10. current' = NULL => failures' # 0
    <3>1. failures' = failures + 1 => failures' # 0
      BY ArgsAssumption DEF TypeOK
    <3>2. Append(current, c) # NULL
      BY <2>4, NullAssumption
    <3> QED
      BY <2>1, <3>1, <3>2 DEF Fails
  <2>11. live \in Nat /\ Freed \in Nat /\ Freed' \in Nat
    BY <1>2, <2>1, <2>8, TokenCount DEF TypeOK, Freed
  <2>12. failures' = 0 => failures = 0
    BY <2>1, ArgsAssumption DEF Fails, TypeOK
  <2>13. mode # "blank"
    BY DEF Puts
  <2>14. Books'
    BY <2>1, <2>9, <2>10, <2>11, <2>12, <2>13 DEF Books, NothingLost, input
  <2> QED
    BY <2>6, <2>7, <2>14
<1>3. CASE current = NULL
  <2>1. /\ out' = "crash" /\ UNCHANGED <<p, mode, current, vector, live, failures, input>>
    BY <1>1, <1>3 DEF Put, Crashes
  <2>2. failures # 0
    BY <1>3 DEF Books, Puts
  <2>3. TypeOK' /\ InLine'
    BY <2>1 DEF TypeOK, InLine, input
  <2>4. Books'
    BY <2>1, <2>2 DEF Books, input
  <2> QED
    BY <2>3, <2>4
<1> QED
  BY <1>2, <1>3

LEMMA EndKeeps ==
  ASSUME IInv, out = "running", mode # "blank", EndToken
  PROVE  IInv'
<1> USE DEF IInv
<1>1. CASE Fails /\ Crashes
  <2>1. /\ out' = "crash" /\ failures' = failures + 1 /\ failures < MaxFailures
        /\ UNCHANGED <<p, mode, current, vector, live, input>>
    BY <1>1 DEF Fails, Crashes
  <2>2. failures' \in 0..MaxFailures /\ failures' # 0
    BY <2>1, ArgsAssumption DEF TypeOK
  <2>3. TypeOK' /\ InLine'
    BY <2>1, <2>2 DEF TypeOK, InLine, input
  <2>4. Books'
    BY <2>1, <2>2 DEF Books, input
  <2> QED
    BY <2>3, <2>4
<1>2. CASE ~(Fails /\ Crashes)
  <2>1. /\ vector' = Append(IF vector = NULL THEN <<>> ELSE vector, current)
        /\ live' = (IF vector = NULL THEN live + 1 ELSE live)
        /\ current' = NULL /\ mode' = "blank" /\ p' = Past(p)
        /\ UNCHANGED <<failures, out, input>>
    BY <1>2 DEF EndToken
  <2>2. p' \in p..Len(line) /\ p \in Nat /\ Len(line) \in Nat /\ p \in 1..Len(line)
    <3>1. p \in p..Len(line)
      BY DEF TypeOK, InLine
    <3> QED
      BY <2>1, <3>1, PastIs DEF TypeOK, InLine
  <2>3. p' \in 1..Len(line) /\ p' \in Nat
    BY <2>2
  <2>4. /\ vector' # NULL /\ vector' \in Seq(Seq(Byte) \cup {NULL})
        /\ Cardinality(Tokens') = Cardinality(Tokens) + (IF current = NULL THEN 0 ELSE 1)
    BY <2>1, OneMore
  <2>5. live \in Nat /\ Cardinality(Tokens) \in Nat
    BY TokenCount DEF TypeOK
  <2>6. TypeOK'
    BY <2>1, <2>3, <2>4, <2>5 DEF TypeOK, input
  <2>7. InLine'
    BY <2>1, <2>3 DEF InLine, input
  <2>8. Freed' = Cardinality(Tokens) + (IF current = NULL THEN 0 ELSE 1) + 1
    BY <2>1, <2>4, <2>5 DEF Freed
  <2>9. Freed = Cardinality(Tokens) + (IF vector = NULL THEN 0 ELSE 1) + (IF current = NULL THEN 0 ELSE 1)
    BY DEF Freed
  <2>10. live' - live = Freed' - Freed
    BY <2>1, <2>5, <2>8, <2>9
  <2>11. live \in Nat /\ live' \in Nat /\ Freed \in Nat /\ Freed' \in Nat
    BY <2>1, <2>5, <2>8, TokenCount
  <2>12. Freed <= live /\ (failures = 0 => live = Freed)
    BY DEF Books
  <2>13. Freed' <= live' /\ (failures = 0 => live' = Freed')
    BY <2>10, <2>11, <2>12
  <2>14. Books'
    BY <2>1, <2>13 DEF Books, NothingLost, input
  <2> QED
    BY <2>6, <2>7, <2>14
<1> QED
  BY <1>1, <1>2

LEMMA ErrKeeps ==
  ASSUME IInv, out = "running", mode # "blank", Err
  PROVE  IInv'
<1> USE DEF IInv
<1>1. /\ live' = live - Freed /\ current' = NULL /\ vector' = NULL /\ out' = "null"
      /\ UNCHANGED <<p, mode, failures, input>>
  BY DEF Err
<1>2. live \in Nat /\ Freed \in Nat /\ Freed <= live
  BY TokenCount DEF Books, TypeOK
<1>3. live' \in Nat
  BY <1>1, <1>2
<1>4. TypeOK'
  BY <1>1, <1>3 DEF TypeOK, input
<1>5. InLine'
  BY <1>1 DEF InLine, input
<1>6. failures = 0 => live' = 0
  BY <1>1, <1>2 DEF Books
<1>7. Books'
  BY <1>1, <1>6 DEF Books, NothingLost, input
<1> QED
  BY <1>4, <1>5, <1>7

LEMMA BlankKeeps ==
  ASSUME IInv, out = "running", Blank
  PROVE  IInv'
<1> USE DEF IInv
<1>1. /\ mode = "blank" /\ p' = Skipped /\ mode' = "plain"
      /\ UNCHANGED <<vector, out, input>>
      /\ \/ current' = <<>> /\ live' = live + 1 /\ UNCHANGED failures
         \/ current' = NULL /\ Fails /\ UNCHANGED live
  BY DEF Blank, Skipped
<1>2. p' \in p..Len(line) /\ p \in Nat /\ Len(line) \in Nat /\ p \in 1..Len(line)
  BY <1>1, SkippedIs DEF TypeOK, InLine
<1>3. p' \in 1..Len(line) /\ p' \in Nat
  BY <1>2
<1>4. live \in Nat /\ failures \in 0..MaxFailures /\ MaxFailures \in Nat
  BY ArgsAssumption DEF TypeOK
<1>5. live' \in Nat /\ failures' \in 0..MaxFailures /\ (failures' = 0 => failures = 0 /\ current' = <<>>)
  BY <1>1, <1>4 DEF Fails
<1>6. <<>> # NULL /\ <<>> \in Seq(Byte)
  <2>1. <<>> \in Seq(Byte)
    OBVIOUS
  <2> QED
    BY <2>1, NullAssumption
<1>7. TypeOK'
  BY <1>1, <1>3, <1>5, <1>6 DEF TypeOK, input
<1>8. InLine'
  BY <1>1, <1>3 DEF InLine, input
<1>9. Tokens' = Tokens
  BY <1>1 DEF Tokens
<1>10. current = NULL /\ Freed <= live /\ (failures = 0 => Freed = live) /\ Freed \in Nat
  BY <1>1, TokenCount DEF Books
<1>11. Freed' = Freed + (IF current' = NULL THEN 0 ELSE 1)
  BY <1>1, <1>9, <1>10, TokenCount DEF Freed
<1>12. Freed' <= live' /\ (failures' = 0 => Freed' = live')
  BY <1>1, <1>4, <1>5, <1>6, <1>10, <1>11
<1>13. Books'
  BY <1>1, <1>5, <1>6, <1>12 DEF Books, NothingLost, input
<1> QED
  BY <1>7, <1>8, <1>13

LEMMA ReturnKeeps ==
  ASSUME IInv, out = "running", Return
  PROVE  IInv'
<1> USE DEF IInv
<1>1. /\ mode = "blank" /\ p' = Skipped
      /\ UNCHANGED <<mode, current, input>>
      /\ \/ vector # NULL /\ out' = "tokens" /\ UNCHANGED <<vector, live, failures>>
         \/ /\ vector = NULL /\ out' = "tokens" /\ vector' = <<>> /\ live' = live + 1
            /\ UNCHANGED failures
         \/ vector = NULL /\ Fails /\ out' = "null" /\ UNCHANGED <<vector, live>>
  BY DEF Return, Skipped
<1>2. p' \in p..Len(line) /\ p \in Nat /\ Len(line) \in Nat /\ p \in 1..Len(line)
  BY <1>1, SkippedIs DEF TypeOK, InLine
<1>3. p' \in 1..Len(line) /\ p' \in Nat
  BY <1>2
<1>4. live \in Nat /\ failures \in 0..MaxFailures /\ MaxFailures \in Nat
  BY ArgsAssumption DEF TypeOK
<1>5. live' \in Nat /\ failures' \in 0..MaxFailures /\ (failures' = 0 => failures = 0 /\ out' = "tokens")
  BY <1>1, <1>4 DEF Fails
<1>6. <<>> \in Seq(Seq(Byte) \cup {NULL})
  OBVIOUS
<1>7. TypeOK'
  BY <1>1, <1>3, <1>5, <1>6 DEF TypeOK, input
<1>8. InLine'
  BY <1>1, <1>3 DEF InLine, input
<1>9. failures' = 0 => live' = Cardinality(Tokens') + 1
  <2> SUFFICES ASSUME failures' = 0  PROVE live' = Cardinality(Tokens') + 1
    OBVIOUS
  <2>1. current = NULL /\ live = Freed /\ Cardinality(Tokens) \in Nat
    BY <1>1, <1>5, TokenCount DEF Books
  <2>2. CASE vector # NULL
    <3>1. Tokens' = Tokens /\ live' = live
      BY <1>1, <2>2 DEF Tokens
    <3> QED
      BY <2>1, <2>2, <3>1 DEF Freed
  <2>3. CASE vector = NULL
    <3>1. vector' = <<>> /\ live' = live + 1
      BY <1>1, <1>5, <2>3
    <3>2. Tokens' = {}
      BY <3>1 DEF Tokens
    <3> QED
      BY <2>1, <2>3, <3>1, <3>2, TokenCount, FS_EmptySet DEF Freed
  <2> QED
    BY <2>2, <2>3
<1>10. out' # "running"
  BY <1>1
<1>11. Books'
  BY <1>1, <1>5, <1>9, <1>10 DEF Books, NothingLost, input
<1> QED
  BY <1>7, <1>8, <1>11

LEMMA OpensKeeps ==
  ASSUME IInv, out = "running", Opens
  PROVE  IInv'
<1> USE DEF IInv
<1>1. /\ mode = "plain" /\ mode' \in {"quoted", "single"} /\ p' = Past(p)
      /\ UNCHANGED <<current, vector, live, failures, out, input>>
  BY DEF Opens
<1>2. p' \in p..Len(line) /\ p \in Nat /\ Len(line) \in Nat /\ p \in 1..Len(line)
  <2>1. p \in p..Len(line)
    BY DEF TypeOK, InLine
  <2> QED
    BY <1>1, <2>1, PastIs DEF TypeOK, InLine
<1>3. p' \in 1..Len(line) /\ p' \in Nat
  BY <1>2
<1>4. TypeOK' /\ InLine'
  BY <1>1, <1>3 DEF TypeOK, InLine, input
<1>5. Freed' = Freed
  BY <1>1 DEF Freed, Tokens
<1>6. Books'
  BY <1>1, <1>5 DEF Books, NothingLost, input
<1> QED
  BY <1>4, <1>6

LEMMA EachStep == IInv /\ [Next]_vars => IInv'
<1> SUFFICES ASSUME IInv, [Next]_vars
             PROVE  IInv'
  OBVIOUS
<1>1. CASE Turn
  BY <1>1, BlankKeeps, ReturnKeeps, OpensKeeps, PutKeeps, EndKeeps, ErrKeeps DEF Turn
<1>2. CASE UNCHANGED vars
  <2>1. Freed' = Freed /\ Tokens' = Tokens
    BY <1>2 DEF Freed, Tokens, vars
  <2> QED
    BY <1>2, <2>1 DEF IInv, TypeOK, InLine, Books, NothingLost, vars
<1> QED
  BY <1>1, <1>2, Turns

LEMMA Always == Spec => []IInv
BY AtStart, EachStep, PTL DEF Spec

\* The state keeps its shape: every byte of a token is one, "\x" and its two digits
\* included.
THEOREM TypesHold == Spec => []TypeOK
<1>1. IInv => TypeOK
  BY DEF IInv
<1> QED
  BY <1>1, Always, PTL

\* sdssplitargs reads nothing outside its line, whatever escape or quote the line
\* ends in the middle of.
THEOREM StaysInLine == Spec => []InLine
<1>1. IInv => InLine
  BY DEF IInv
<1> QED
  BY <1>1, Always, PTL

\* While no allocation fails no NULL is used, a refused line leaves nothing
\* allocated and an accepted one its tokens and their vector.
THEOREM NoneLost == Spec => []NothingLost
<1>1. IInv => NothingLost
  BY DEF IInv, Books, NothingLost
<1> QED
  BY <1>1, Always, PTL

\* A turn that goes on in the line is nearer to its end, and so is one that stays
\* where it is, to begin a token or to end one.
LEMMA Nearer ==
  ASSUME IInv, line' = line, p' \in Nat, p' <= Len(line),
         p' > p \/ (p' = p /\ (mode = "blank") = (line[p] # NUL) /\ (mode' = "blank") # (line[p] # NUL))
  PROVE  Distance' \in Nat /\ Distance' < Distance
<1>1. PICK a, b : /\ a = (IF (mode = "blank") = (line[p] # NUL) THEN 1 ELSE 0)
                  /\ b = (IF (mode' = "blank") = (line[p'] # NUL) THEN 1 ELSE 0)
  OBVIOUS
<1>2. a \in {0, 1} /\ b \in {0, 1} /\ (p' = p => a = 1 /\ b = 0)
  <2>1. p \in Nat
    BY DEF IInv, TypeOK
  <2> QED
    BY <1>1, <2>1
<1>3. Distance = 2 * (Len(line) - p) + a /\ Distance' = 2 * (Len(line) - p') + b
  BY <1>1 DEF Distance
<1>4. p \in Nat /\ Len(line) \in Nat
  BY DEF IInv, TypeOK
<1> QED
  BY <1>2, <1>3, <1>4

\* Every turn brings the lexer nearer to the end of its line.
THEOREM AlwaysAdvances == Spec => Advances
<1> DEFINE Ahead1 == out' = "running" => Distance' \in Nat /\ Distance' < Distance
<1>1. IInv /\ [Next]_vars => [Ahead1]_vars
  <2> SUFFICES ASSUME IInv, Next, ~UNCHANGED vars, out' = "running"
               PROVE  Distance' \in Nat /\ Distance' < Distance
    OBVIOUS
  <2>0. p \in Nat /\ Len(line) \in Nat /\ p \in p..Len(line)
    BY DEF IInv, TypeOK, InLine
  <2>1. Turn
    BY Turns
  <2>2. CASE Blank
    <3>1. /\ p' \in p..Len(line) /\ line[p'] # NUL /\ line' = line
          /\ mode = "blank" /\ mode' = "plain"
      BY <2>0, <2>2, SkippedIs DEF IInv, Blank, Skipped, input
    <3> QED
      BY <2>0, <3>1, Nearer
  <2>3. CASE Return
    BY <2>3 DEF Return
  <2>4. CASE Opens
    <3>1. line' = line /\ p' \in p..Len(line) /\ p' > p
      BY <2>0, <2>4, PastIs DEF IInv, Opens, input
    <3> QED
      BY <2>0, <3>1, Nearer
  <2>5. CASE Puts
    <3>1. PICK c \in Byte, q \in p..Len(line) : line[q] # NUL /\ Put(c, q)
      BY <2>5 DEF Puts
    <3>2. Past(q) \in q..Len(line) /\ Past(q) = q + 1
      BY <2>0, <3>1, PastIs DEF IInv
    <3>3. line' = line /\ p' = q + 1
      BY <3>1, <3>2 DEF Put, Crashes, input
    <3> QED
      BY <2>0, <3>1, <3>2, <3>3, Nearer
  <2>6. CASE mode # "blank" /\ EndToken
    <3>1. line' = line /\ p' = Past(p) /\ mode' = "blank" /\ mode # "blank"
      BY <2>6 DEF EndToken, Crashes, input
    <3>2. Past(p) \in p..Len(line) /\ (line[p] # NUL => Past(p) = p + 1) /\ (line[p] = NUL => Past(p) = p)
      BY <2>0, PastIs DEF IInv, Past
    <3> QED
      BY <2>0, <3>1, <3>2, Nearer
  <2>7. CASE Err
    BY <2>7 DEF Err
  <2> QED
    BY <2>1, <2>2, <2>3, <2>4, <2>5, <2>6, <2>7 DEF Turn
<1> QED
  BY <1>1, Always, PTL DEF Spec, Advances
-----------------------------------------------------------------------------
(* What was written is read back.                                          *)

\* The first k elements of b are all of a.
Copied(a, k, b, V) == a \in Seq(V) /\ Len(a) = k /\ \A i \in 1..k : a[i] = b[i]

LEMMA CopyMore ==
  ASSUME NEW V, NEW b \in Seq(V), NEW a, NEW k \in Nat, k < Len(b), Copied(a, k, b, V)
  PROVE  Copied(Append(a, b[k + 1]), k + 1, b, V)
<1>1. PICK t, w : t = b[k + 1] /\ w = Append(a, t)
  OBVIOUS
<1>2. a \in Seq(V) /\ Len(a) = k /\ t \in V /\ \A i \in 1..k : a[i] = b[i]
  <2>1. Len(b) \in Nat /\ \A i \in 1..Len(b) : b[i] \in V
    BY LenProperties, ElementOfSeq
  <2>2. k + 1 \in 1..Len(b)
    BY <2>1
  <2> QED
    BY <1>1, <2>1, <2>2 DEF Copied
<1>3. /\ w \in Seq(V) /\ Len(w) = k + 1 /\ w[k + 1] = t
      /\ \A i \in 1..k : w[i] = a[i]
  <2>1. a \in Seq(V) /\ t \in V
    BY <1>2
  <2>2. /\ w \in Seq(V) /\ Len(w) = Len(a) + 1 /\ w[Len(a) + 1] = t
        /\ \A i \in 1..Len(a) : w[i] = a[i]
    BY <1>1, <2>1, AppendProperties
  <2> QED
    BY <1>2, <2>2, Zenon
<1>4. \A i \in 1..(k + 1) : i \in 1..k \/ i = k + 1
  OBVIOUS
<1> QED
  BY <1>1, <1>2, <1>3, <1>4 DEF Copied

LEMMA CopyAll ==
  ASSUME NEW V, NEW b \in Seq(V), NEW a, Copied(a, Len(b), b, V)
  PROVE  a = b
<1>1. a \in Seq(V) /\ Len(a) = Len(b) /\ \A i \in 1..Len(b) : a[i] = b[i]
  BY DEF Copied
<1> QED
  BY <1>1, SeqEqual

\* A text between quotes q, with where its bytes' writings begin.
Enclosed(q, reprs, n, v, rt) ==
  /\ v \in Seq(Byte) /\ rt \in [0..n -> Nat] /\ rt[0] = 0 /\ Len(v) = rt[n] + 2
  /\ v[1] = q /\ v[rt[n] + 2] = q
  /\ \A i \in 1..n : /\ rt[i] = rt[i - 1] + Len(reprs[i]) /\ rt[i] <= rt[n]
                     /\ \A k \in 1..Len(reprs[i]) : v[1 + rt[i - 1] + k] = reprs[i][k]

LEMMA Encloses ==
  ASSUME NEW q \in Byte, NEW reprs \in Seq(Seq(Byte)), NEW n, n = Len(reprs)
  PROVE  \E rt : Enclosed(q, reprs, n, Between(q, FlattenSeq(reprs)), rt)
<1>1. PICK rt : Spans(rt, n, Byte, reprs, FlattenSeq(reprs))
  BY FlattenAt
<1>2. PICK t, v : t = FlattenSeq(reprs) /\ v = Between(q, t)
  OBVIOUS
<1>3. /\ t \in Seq(Byte) /\ rt \in [0..n -> Nat] /\ rt[0] = 0 /\ rt[n] = Len(t) /\ n \in Nat
      /\ \A i \in 1..n : /\ rt[i] = rt[i - 1] + Len(reprs[i]) /\ rt[i] <= rt[n]
                         /\ \A k \in 1..Len(reprs[i]) : t[rt[i - 1] + k] = reprs[i][k]
  BY <1>1, <1>2 DEF Spans
<1>4. /\ v \in Seq(Byte) /\ Len(v) = rt[n] + 2 /\ v[1] = q /\ v[rt[n] + 2] = q
      /\ \A k \in 1..rt[n] : v[1 + k] = t[k]
  <2>1. t \in Seq(Byte) /\ v = Between(q, t) /\ q \in Byte
    BY <1>2, <1>3
  <2>2. IsBetween(v, q, t)
    BY <2>1, BetweenIs
  <2>3. rt[n] = Len(t)
    BY <1>3
  <2> QED
    BY <2>2, <2>3, Zenon DEF IsBetween
<1>5. \A i \in 1..n : \A k \in 1..Len(reprs[i]) : v[1 + rt[i - 1] + k] = reprs[i][k]
  <2> TAKE i \in 1..n
  <2>1. PICK x, y, z : x = rt[i - 1] /\ y = Len(reprs[i]) /\ z = rt[n]
    OBVIOUS
  <2>2. x \in Nat /\ y \in Nat /\ z \in Nat /\ x + y <= z
    <3>1. i - 1 \in 0..n /\ i \in 1..n /\ n \in 0..n
      BY <1>3
    <3>2. rt[i - 1] \in Nat /\ rt[n] \in Nat
      BY <1>3, <3>1
    <3>3. Len(reprs[i]) \in Nat
      BY <3>1
    <3>4. rt[i] = rt[i - 1] + Len(reprs[i]) /\ rt[i] <= rt[n]
      BY <1>3, <3>1
    <3> QED
      BY <2>1, <3>2, <3>3, <3>4
  <2>3. \A k \in 1..y : x + k \in 1..z /\ 1 + x + k = 1 + (x + k)
    BY <2>2
  <2>4. \A k \in 1..y : t[x + k] = reprs[i][k]
    BY <1>3, <2>1
  <2>5. \A k \in 1..z : v[1 + k] = t[k]
    BY <1>4, <2>1
  <2>6. \A k \in 1..y : v[1 + x + k] = reprs[i][k]
    BY <2>3, <2>4, <2>5
  <2> QED
    BY <2>1, <2>6, Zenon
<1>6. Enclosed(q, reprs, n, v, rt)
  BY <1>3, <1>4, <1>5 DEF Enclosed
<1> QED
  BY <1>2, <1>6

\* The three ways an argument is written.
PlainText(text, v) ==
  /\ v = text /\ text # <<>>
  /\ \A i \in 1..Len(text) : isprint(text[i]) /\ text[i] \notin {SPACE, QUOTE, SQUOTE}
DoubleText(text, v, rt) == Enclosed(QUOTE, Reprs(text), Len(text), v, rt)
SingleText(text, v, rt) ==
  /\ Enclosed(SQUOTE, SingleReprs(text), Len(text), v, rt)
  /\ \A i \in 1..Len(text) : text[i] \notin {NUL, BSLASH}

LEMMA Styles ==
  ASSUME NEW text \in Seq(Byte), NEW v \in Written(text)
  PROVE  \/ PlainText(text, v) \/ \E rt : DoubleText(text, v, rt) \/ SingleText(text, v, rt)
<1>1. \A i \in 1..Len(text) : text[i] \in ToSet(text)
  BY DEF ToSet
<1>0. PICK rs, ss, n : rs = Reprs(text) /\ ss = SingleReprs(text) /\ n = Len(text)
  OBVIOUS
<1>5. rs \in Seq(Seq(Byte)) /\ n = Len(rs) /\ ss \in Seq(Seq(Byte)) /\ n = Len(ss)
  BY <1>0, ReprsType
<1>6. PICK rt, st : /\ Enclosed(QUOTE, rs, n, Between(QUOTE, FlattenSeq(rs)), rt)
                    /\ Enclosed(SQUOTE, ss, n, Between(SQUOTE, FlattenSeq(ss)), st)
  <2>1. QUOTE \in Byte /\ SQUOTE \in Byte
    BY Bytes
  <2>2. \E rt : Enclosed(QUOTE, rs, n, Between(QUOTE, FlattenSeq(rs)), rt)
    BY <1>5, <2>1, Encloses
  <2>3. \E st : Enclosed(SQUOTE, ss, n, Between(SQUOTE, FlattenSeq(ss)), st)
    BY <1>5, <2>1, Encloses
  <2> QED
    BY <2>2, <2>3
<1>2. CASE v = sdscatrepr(<<>>, text)
  <2>1. v = Between(QUOTE, FlattenSeq(rs))
    BY <1>0, <1>2, Written1
  <2>2. DoubleText(text, v, rt)
    BY <1>0, <1>6, <2>1, Zenon DEF DoubleText
  <2> QED
    BY <2>2
<1>3. CASE v = SingleQuoted(text) /\ NUL \notin ToSet(text) /\ BSLASH \notin ToSet(text)
  <2>0. v = Between(SQUOTE, FlattenSeq(ss))
    BY <1>0, <1>3, Written1
  <2>1. Enclosed(SQUOTE, SingleReprs(text), Len(text), v, st)
    BY <1>0, <1>6, <2>0, Zenon
  <2>2. \A i \in 1..Len(text) : text[i] \notin {NUL, BSLASH}
    BY <1>1, <1>3
  <2> QED
    BY <2>1, <2>2 DEF SingleText
<1>4. CASE /\ v = text /\ text # <<>> /\ \A c \in ToSet(text) : isprint(c)
           /\ ToSet(text) \cap {SPACE, QUOTE, SQUOTE} = {}
  <2>1. \A i \in 1..Len(text) : isprint(text[i]) /\ text[i] \notin {SPACE, QUOTE, SQUOTE}
    BY <1>1, <1>4
  <2> QED
    BY <1>4, <2>1 DEF PlainText
<1> QED
  BY <1>2, <1>3, <1>4 DEF Written

\* Where on a line the arguments are: argument i is behind the blank at at[i - 1] + 1.
Laid(list, l, w, at) ==
  /\ at \in [0..Len(list) -> Nat] /\ at[0] = 0
  /\ l[at[Len(list)] + 1] = NL /\ l[at[Len(list)] + 2] = NUL
  /\ \A i \in 1..Len(list) :
       /\ w[i] \in Written(list[i]) /\ w[i] \in Seq(Byte)
       /\ at[i] = at[i - 1] + 1 + Len(w[i]) /\ l[at[i - 1] + 1] = SPACE
       /\ \A j \in 1..Len(w[i]) : l[at[i - 1] + 1 + j] = w[i][j]

LEMMA LaidOut ==
  ASSUME NEW list \in Seq(Seq(Byte)), NEW l \in LinesFor(list)
  PROVE  \E w, at : Laid(list, Append(l, NUL), w, at)
<1>1. PICK w \in Writings(list) : l = FlattenSeq(Pieces(list, w)) \o <<NL>>
  BY LinesType
<1>2. PICK n, ps, f, full :
        n = Len(list) /\ ps = Pieces(list, w) /\ f = FlattenSeq(ps) /\ full = Append(l, NUL)
  OBVIOUS
<1>3. ps \in Seq(Seq(Byte)) /\ n = Len(ps) /\ n \in Nat
  BY <1>2, PiecesType
<1>4. PICK at : Spans(at, n, Byte, ps, f)
  BY <1>2, <1>3, FlattenAt
<1>5. /\ f \in Seq(Byte) /\ at \in [0..n -> Nat] /\ at[0] = 0 /\ at[n] = Len(f)
      /\ \A i \in 1..n : /\ at[i] = at[i - 1] + Len(ps[i]) /\ at[i] <= at[n]
                         /\ \A k \in 1..Len(ps[i]) : f[at[i - 1] + k] = ps[i][k]
  BY <1>4 DEF Spans
<1>6. /\ full[at[n] + 1] = NL /\ full[at[n] + 2] = NUL
      /\ \A j \in 1..at[n] : full[j] = f[j]
  <2>1. l \in Seq(Byte) /\ Len(l) = Len(f) + 1 /\ l[Len(f) + 1] = NL /\ \A j \in 1..Len(f) : l[j] = f[j]
    BY <1>1, <1>2, <1>5, Bytes
  <2>2. Len(f) \in Nat
    BY <1>5
  <2>3. full[Len(l) + 1] = NUL /\ \A j \in 1..Len(l) : full[j] = l[j]
    BY <1>2, <2>1, Bytes
  <2>4. Len(l) + 1 = Len(f) + 2 /\ Len(f) + 1 \in 1..Len(l) /\ \A j \in 1..Len(f) : j \in 1..Len(l)
    BY <2>1, <2>2
  <2> QED
    BY <1>5, <2>1, <2>3, <2>4
<1>7. ASSUME NEW i \in 1..n
      PROVE  /\ w[i] \in Written(list[i]) /\ w[i] \in Seq(Byte)
             /\ at[i] = at[i - 1] + 1 + Len(w[i]) /\ full[at[i - 1] + 1] = SPACE
             /\ \A j \in 1..Len(w[i]) : full[at[i - 1] + 1 + j] = w[i][j]
  <2>1. i \in DOMAIN list /\ list[i] \in Seq(Byte)
    BY <1>2
  <2>2. w[i] \in Written(list[i]) /\ w[i] \in Seq(Byte)
    BY <2>1, WrittenType DEF Writings
  <2>3. PICK v, x, y, z : v = w[i] /\ x = at[i - 1] /\ y = Len(v) /\ z = at[n]
    OBVIOUS
  <2>4. ps[i] = <<SPACE>> \o v
    BY <1>2, <2>1, <2>3 DEF Pieces
  <2>5. Len(ps[i]) = y + 1 /\ ps[i][1] = SPACE /\ y \in Nat /\ \A j \in 1..y : ps[i][1 + j] = v[j]
    <3>1. v \in Seq(Byte)
      BY <2>2, <2>3
    <3> QED
      BY <2>3, <2>4, <3>1, Bytes
  <2>6. x \in Nat /\ z \in Nat
    <3>1. i - 1 \in 0..n /\ n \in 0..n
      BY <1>3
    <3> QED
      BY <1>5, <2>3, <3>1
  <2>7. at[i] = x + (y + 1) /\ x + (y + 1) <= z
    BY <1>5, <2>3, <2>5
  <2>8. \A k \in 1..(y + 1) : x + k \in 1..z
    BY <2>5, <2>6, <2>7
  <2>9. \A k \in 1..(y + 1) : full[x + k] = ps[i][k]
    <3> TAKE k \in 1..(y + 1)
    <3>1. f[x + k] = ps[i][k]
      BY <1>5, <2>3, <2>5
    <3>2. full[x + k] = f[x + k]
      BY <1>6, <2>3, <2>8
    <3> QED
      BY <3>1, <3>2
  <2>10. \A j \in 1..y : 1 + j \in 1..(y + 1) /\ x + 1 + j = x + (1 + j)
    BY <2>5, <2>6
  <2>11. 1 \in 1..(y + 1) /\ at[i] = x + 1 + y
    BY <2>5, <2>6, <2>7
  <2>12. full[x + 1] = SPACE /\ \A j \in 1..y : full[x + 1 + j] = v[j]
    BY <2>5, <2>9, <2>10, <2>11
  <2> QED
    BY <2>2, <2>3, <2>11, <2>12
<1>8. Laid(list, full, w, at)
  BY <1>2, <1>5, <1>6, <1>7 DEF Laid
<1> QED
  BY <1>2, <1>8
\* A digit that was written is the digit that is read.
LEMMA DigitBack ==
  ASSUME NEW n \in 0..15
  PROVE  is_hex_digit(HexDigit(n)) /\ hex_digit_to_int(HexDigit(n)) = n
<1>1. PICK d : d = HexDigit(n)
  OBVIOUS
<1>2. CASE n < 10
  <2>1. d = 48 + n /\ d \in 48..57 /\ d - 48 = n
    BY <1>1, <1>2 DEF HexDigit
  <2>2. is_hex_digit(d) /\ hex_digit_to_int(d) = d - 48
    BY <2>1 DEF is_hex_digit, hex_digit_to_int
  <2> QED
    BY <1>1, <2>1, <2>2
<1>3. CASE ~(n < 10)
  <2>1. d = 87 + n /\ d \in 97..102 /\ d - 87 = n /\ d \notin 48..57
    BY <1>1, <1>3 DEF HexDigit
  <2>2. is_hex_digit(d)
    BY <2>1 DEF is_hex_digit
  <2>3. hex_digit_to_int(d) = d - 87
    BY <2>1 DEF hex_digit_to_int
  <2> QED
    BY <1>1, <2>1, <2>2, <2>3
<1> QED
  BY <1>2, <1>3

\* What sdscatrepr makes of a byte, by how it is read.
IsHexOf(s, c) ==
  \E x, y \in Byte : /\ s = <<BSLASH, LETTER_X>> \o <<x, y>> /\ is_hex_digit(x) /\ is_hex_digit(y)
                     /\ hex_digit_to_int(x) * 16 + hex_digit_to_int(y) = c
IsEscapeOf(s, c) ==
  \E e \in Byte : /\ s = <<BSLASH, e>> /\ e # NUL /\ e # LETTER_X
                  /\ c = IF e \in DOMAIN Escape THEN Escape[e] ELSE e
IsItself(s, c) == s = <<c>> /\ c \notin {NUL, BSLASH, QUOTE}

LEMMA ReprShape ==
  ASSUME NEW c \in Byte
  PROVE  IsHexOf(Repr(c), c) \/ IsEscapeOf(Repr(c), c) \/ IsItself(Repr(c), c)
<1>1. PICK named : named = {e \in DOMAIN Escape : Escape[e] = c}
  OBVIOUS
<1>2. CASE c \in {BSLASH, QUOTE}
  <2>1. Repr(c) = <<BSLASH, c>>
    BY <1>2 DEF Repr
  <2>2. c # NUL /\ c # LETTER_X /\ c \notin DOMAIN Escape
    BY <1>2, EscapeIs DEF BSLASH, QUOTE, NUL, LETTER_X
  <2> QED
    BY <2>1, <2>2 DEF IsEscapeOf
<1>3. CASE c \notin {BSLASH, QUOTE} /\ named # {}
  <2>1. PICK e : e = CHOOSE x \in named : TRUE
    OBVIOUS
  <2>2. e \in DOMAIN Escape /\ Escape[e] = c
    BY <1>1, <1>3, <2>1
  <2>3. Repr(c) = <<BSLASH, e>>
    BY <1>1, <1>3, <2>1 DEF Repr
  <2>4. e \in Byte /\ e # NUL /\ e # LETTER_X
    BY <2>2, EscapeIs DEF Byte, NUL, LETTER_X
  <2> QED
    BY <2>2, <2>3, <2>4 DEF IsEscapeOf
<1>4. CASE c \notin {BSLASH, QUOTE} /\ named = {} /\ isprint(c)
  <2>1. Repr(c) = <<c>>
    BY <1>1, <1>4 DEF Repr
  <2>2. c # NUL
    BY <1>4 DEF isprint, NUL
  <2> QED
    BY <1>4, <2>1, <2>2 DEF IsItself
<1>5. CASE c \notin {BSLASH, QUOTE} /\ named = {} /\ ~isprint(c)
  <2>1. PICK q \in 0..15, m \in 0..15 : q = c \div 16 /\ m = c % 16 /\ c = q * 16 + m
    BY HexType
  <2>2. PICK x, y : x = HexDigit(q) /\ y = HexDigit(m)
    OBVIOUS
  <2>3. /\ x \in Byte /\ is_hex_digit(x) /\ hex_digit_to_int(x) = q
        /\ y \in Byte /\ is_hex_digit(y) /\ hex_digit_to_int(y) = m
    BY <2>2, HexDigitType, DigitBack
  <2>4. Hex(c) = <<x, y>>
    BY <2>1, <2>2, Zenon DEF Hex
  <2>5. Repr(c) = <<BSLASH, LETTER_X>> \o <<x, y>>
    BY <1>1, <1>5, <2>4 DEF Repr
  <2>6. hex_digit_to_int(x) * 16 + hex_digit_to_int(y) = c
    BY <2>1, <2>3
  <2> QED
    BY <2>3, <2>5, <2>6 DEF IsHexOf
<1> QED
  BY <1>2, <1>3, <1>4, <1>5

\* The bytes of s are on the line from p on.
Stands(l, q, s) == \A k \in 1..Len(s) : l[q + k] = s[k]

\* A byte that was written stands on the line: the lexer takes it, and all of it.
LEMMA ReadsDouble ==
  ASSUME IInv, NEW c \in Byte, Stands(line, p - 1, Repr(c)), Quoted
  PROVE  \E q : q = p + Len(Repr(c)) - 1 /\ line[q] # NUL /\ Put(c, q)
<1>0. p \in Nat
  BY DEF IInv, TypeOK
<1>1. PICK s : s = Repr(c)
  OBVIOUS
<1>2. \A k \in 1..Len(s) : line[p - 1 + k] = s[k]
  BY <1>1 DEF Stands
<1>3. CASE IsHexOf(s, c)
  <2>1. PICK x \in Byte, y \in Byte :
          /\ s = <<BSLASH, LETTER_X>> \o <<x, y>> /\ is_hex_digit(x) /\ is_hex_digit(y)
          /\ hex_digit_to_int(x) * 16 + hex_digit_to_int(y) = c
    BY <1>3 DEF IsHexOf
  <2>2. Len(s) = 4 /\ s[1] = BSLASH /\ s[2] = LETTER_X /\ s[3] = x /\ s[4] = y
    BY <2>1
  <2>3. line[p] = BSLASH /\ line[p + 1] = LETTER_X /\ line[p + 2] = x /\ line[p + 3] = y
    <3>1. p - 1 + 1 = p /\ p - 1 + 2 = p + 1 /\ p - 1 + 3 = p + 2 /\ p - 1 + 4 = p + 3
      BY <1>0
    <3> QED
      BY <1>2, <2>2, <3>1
  <2>4. HexAhead
    BY <2>1, <2>3 DEF HexAhead
  <2>5. Put(c, p + 3)
    BY <2>1, <2>3, <2>4, Zenon DEF Quoted
  <2>6. line[p + 3] # NUL
    BY <2>1, <2>3 DEF is_hex_digit, NUL
  <2>7. p + Len(s) - 1 = p + 3
    BY <1>0, <2>2
  <2> QED
    BY <1>1, <2>5, <2>6, <2>7
<1>4. CASE IsEscapeOf(s, c)
  <2>1. PICK e \in Byte : /\ s = <<BSLASH, e>> /\ e # NUL /\ e # LETTER_X
                          /\ c = IF e \in DOMAIN Escape THEN Escape[e] ELSE e
    BY <1>4 DEF IsEscapeOf
  <2>2. Len(s) = 2 /\ s[1] = BSLASH /\ s[2] = e
    BY <2>1
  <2>3. line[p] = BSLASH /\ line[p + 1] = e
    <3>1. p - 1 + 1 = p /\ p - 1 + 2 = p + 1
      BY <1>0
    <3> QED
      BY <1>2, <2>2, <3>1
  <2>4. ~HexAhead
    BY <2>1, <2>3 DEF HexAhead
  <2>5. Put(c, p + 1)
    BY <2>1, <2>3, <2>4, Zenon DEF Quoted
  <2>6. p + Len(s) - 1 = p + 1
    BY <1>0, <2>2
  <2> QED
    BY <1>1, <2>1, <2>3, <2>5, <2>6
<1>5. CASE IsItself(s, c)
  <2>1. Len(s) = 1 /\ s[1] = c /\ c # NUL /\ c # BSLASH /\ c # QUOTE
    BY <1>5 DEF IsItself
  <2>2. line[p] = c
    <3>1. p - 1 + 1 = p
      BY <1>0
    <3> QED
      BY <1>2, <2>1, <3>1
  <2>3. ~HexAhead
    BY <2>1, <2>2 DEF HexAhead
  <2>4. Put(c, p)
    BY <2>1, <2>2, <2>3, Zenon DEF Quoted, AtEnd
  <2>5. p + Len(s) - 1 = p
    BY <1>0, <2>1
  <2> QED
    BY <1>1, <2>1, <2>2, <2>4, <2>5
<1> QED
  BY <1>1, <1>3, <1>4, <1>5, ReprShape

LEMMA ReadsSingle ==
  ASSUME IInv, NEW c \in Byte, c \notin {NUL, BSLASH}, Stands(line, p - 1, SingleRepr(c)), Single
  PROVE  \E q : q = p + Len(SingleRepr(c)) - 1 /\ line[q] # NUL /\ Put(c, q)
<1>0. p \in Nat
  BY DEF IInv, TypeOK
<1>1. PICK s : s = SingleRepr(c)
  OBVIOUS
<1>2. \A k \in 1..Len(s) : line[p - 1 + k] = s[k]
  BY <1>1 DEF Stands
<1>3. p - 1 + 1 = p /\ p - 1 + 2 = p + 1
  BY <1>0
<1>4. CASE c = SQUOTE
  <2>1. s = <<BSLASH, c>>
    BY <1>1, <1>4 DEF SingleRepr
  <2>2. Len(s) = 2 /\ s[1] = BSLASH /\ s[2] = SQUOTE
    BY <1>4, <2>1
  <2>3. line[p] = BSLASH /\ line[p + 1] = SQUOTE
    BY <1>2, <1>3, <2>2
  <2>4. Put(c, p + 1)
    BY <1>4, <2>3, Zenon DEF Single
  <2>5. p + Len(s) - 1 = p + 1
    BY <1>0, <2>2
  <2> QED
    BY <1>1, <1>4, <2>3, <2>4, <2>5
<1>5. CASE c # SQUOTE
  <2>1. s = <<c>>
    BY <1>1, <1>5 DEF SingleRepr
  <2>2. Len(s) = 1 /\ s[1] = c
    BY <2>1
  <2>3. line[p] = c
    BY <1>2, <1>3, <2>2
  <2>4. Put(c, p)
    BY <1>5, <2>3, Zenon DEF Single, AtEnd
  <2>5. p + Len(s) - 1 = p
    BY <1>0, <2>2
  <2> QED
    BY <1>1, <2>3, <2>4, <2>5
<1> QED
  BY <1>4, <1>5
\* An argument stands on the line behind the blank at s, and a blank behind it.
Here(l, s, v) ==
  /\ s \in Nat /\ v \in Seq(Byte) /\ l[s + Len(v) + 1] \in {SPACE, NL}
  /\ \A j \in 1..Len(v) : l[s + j] = v[j]

LEMMA BlankAt ==
  ASSUME NEW list \in Seq(Seq(Byte)), NEW l, NEW w, NEW at, Laid(list, l, w, at),
         NEW k \in 0..Len(list)
  PROVE  at[k] \in Nat /\ l[at[k] + 1] \in {SPACE, NL}
<1>1. at[k] \in Nat /\ l[at[Len(list)] + 1] = NL
  BY DEF Laid
<1>2. k # Len(list) => l[at[k] + 1] = SPACE
  <2> SUFFICES ASSUME k # Len(list)  PROVE l[at[k] + 1] = SPACE
    OBVIOUS
  <2>1. k + 1 \in 1..Len(list) /\ (k + 1) - 1 = k
    OBVIOUS
  <2> QED
    BY <2>1 DEF Laid
<1> QED
  BY <1>1, <1>2

LEMMA PlaceIs ==
  ASSUME NEW list \in Seq(Seq(Byte)), NEW l, NEW w, NEW at, Laid(list, l, w, at),
         NEW k \in 0..Len(list), k < Len(list)
  PROVE  /\ Here(l, at[k] + 1, w[k + 1]) /\ w[k + 1] \in Written(list[k + 1])
         /\ at[k + 1] = at[k] + 1 + Len(w[k + 1])
<1>1. k + 1 \in 1..Len(list) /\ (k + 1) - 1 = k /\ k + 1 \in 0..Len(list)
  OBVIOUS
<1>2. PICK v, s, e : v = w[k + 1] /\ s = at[k] /\ e = at[k + 1]
  OBVIOUS
<1>3. /\ v \in Written(list[k + 1]) /\ v \in Seq(Byte)
      /\ e = s + 1 + Len(v) /\ \A j \in 1..Len(v) : l[s + 1 + j] = v[j]
  BY <1>1, <1>2 DEF Laid
<1>4. l[e + 1] \in {SPACE, NL} /\ s \in Nat
  BY <1>1, <1>2, BlankAt
<1>5. Here(l, s + 1, v)
  BY <1>3, <1>4 DEF Here
<1> QED
  BY <1>2, <1>3, <1>5

\* How far the lexer has come in an argument: m of its bytes are in current.
InToken(text, v, s) ==
  \E m \in 0..Len(text) :
    /\ Copied(current, m, text, Byte)
    /\ \/ mode = "plain" /\ PlainText(text, v) /\ p = s + 1 + m
       \/ mode = "plain" /\ m = 0 /\ p = s + 1 /\ \E rt : DoubleText(text, v, rt) \/ SingleText(text, v, rt)
       \/ mode = "quoted" /\ \E rt : DoubleText(text, v, rt) /\ p = s + 2 + rt[m]
       \/ mode = "single" /\ \E rt : SingleText(text, v, rt) /\ p = s + 2 + rt[m]

\* It goes on, or the token is done.
GoesOn(text, v, s) == InToken(text, v, s)' /\ mode' # "blank" /\ UNCHANGED <<vector, out, input>>
Done(text, v, s) ==
  /\ EndToken /\ Copied(current, Len(text), text, Byte)
  /\ line[p] # NUL /\ p + 1 \in {s + Len(v) + 1, s + Len(v) + 2}

LEMMA Takes ==
  ASSUME IInv, out = "running", mode # "blank", failures' = 0,
         NEW text \in Seq(Byte), NEW m \in Nat, m < Len(text), Copied(current, m, text, Byte),
         NEW q, line[q] # NUL, Put(text[m + 1], q)
  PROVE  /\ Copied(current', m + 1, text, Byte) /\ p' = q + 1
         /\ UNCHANGED <<mode, vector, out, input>>
<1>1. failures = 0
  BY ArgsAssumption DEF Put, Fails, Crashes, IInv, TypeOK
<1>2. current # NULL
  BY <1>1 DEF IInv, Books
<1>3. ~Fails
  BY <1>1 DEF Fails
<1>4. /\ current' = Append(current, text[m + 1]) /\ p' = q + 1
      /\ UNCHANGED <<mode, vector, out, input>>
  BY <1>2, <1>3 DEF Put, Past
<1>5. Copied(Append(current, text[m + 1]), m + 1, text, Byte)
  BY CopyMore
<1> QED
  BY <1>4, <1>5

LEMMA PlainStep ==
  ASSUME IInv, out = "running", failures' = 0, Plain,
         NEW text \in Seq(Byte), NEW v, NEW s, Here(line, s, v), InToken(text, v, s)
  PROVE  GoesOn(text, v, s) \/ Done(text, v, s)
<1>1. mode = "plain"
  BY DEF Plain
<1>2. PICK m \in 0..Len(text) :
        /\ Copied(current, m, text, Byte)
        /\ \/ PlainText(text, v) /\ p = s + 1 + m
           \/ m = 0 /\ p = s + 1 /\ \E rt : DoubleText(text, v, rt) \/ SingleText(text, v, rt)
  BY <1>1 DEF InToken
<1>3. Len(text) \in Nat /\ m \in Nat /\ s \in Nat
  BY DEF Here
<1>4. CASE PlainText(text, v) /\ p = s + 1 + m /\ m < Len(text)
  <2>1. PICK c : c = text[m + 1]
    OBVIOUS
  <2>2. m + 1 \in 1..Len(text) /\ p = s + (m + 1)
    BY <1>3, <1>4
  <2>3. line[p] = c /\ isprint(c) /\ c \notin {SPACE, QUOTE, SQUOTE}
    BY <1>4, <2>1, <2>2 DEF PlainText, Here
  <2>4. c \notin {SPACE, NL, 13, 9, NUL, QUOTE, SQUOTE}
    BY <2>3 DEF isprint, NL, NUL
  <2>5. Put(c, p) /\ line[p] # NUL
    BY <2>3, <2>4 DEF Plain
  <2>6. Copied(current', m + 1, text, Byte) /\ p' = p + 1 /\ UNCHANGED <<mode, vector, out, input>>
    BY <1>1, <1>2, <1>3, <1>4, <2>1, <2>5, Takes
  <2>7. m + 1 \in 0..Len(text) /\ p' = s + 1 + (m + 1) /\ mode' = "plain"
    BY <1>1, <1>3, <1>4, <2>6
  <2>8. InToken(text, v, s)'
    BY <1>4, <2>6, <2>7 DEF InToken
  <2> QED
    BY <2>6, <2>7, <2>8 DEF GoesOn
<1>5. CASE PlainText(text, v) /\ p = s + 1 + m /\ ~(m < Len(text))
  <2>1. m = Len(text) /\ v = text /\ p = s + Len(v) + 1
    BY <1>3, <1>5 DEF PlainText
  <2>2. line[p] \in {SPACE, NL}
    BY <2>1 DEF Here
  <2>3. EndToken /\ line[p] # NUL
    BY <2>2 DEF Plain, SPACE, NL, NUL, QUOTE, SQUOTE
  <2>4. p + 1 = s + Len(v) + 2
    BY <1>3, <2>1
  <2> QED
    BY <1>2, <2>1, <2>3, <2>4 DEF Done
<1>6. CASE m = 0 /\ p = s + 1 /\ \E rt : DoubleText(text, v, rt) \/ SingleText(text, v, rt)
  <2>1. PICK rt : DoubleText(text, v, rt) \/ SingleText(text, v, rt)
    BY <1>6
  <2>2. rt \in [0..Len(text) -> Nat] /\ rt[0] = 0 /\ Len(v) = rt[Len(text)] + 2
    BY <2>1 DEF DoubleText, SingleText, Enclosed
  <2>3. 1 \in 1..Len(v)
    BY <1>3, <2>2
  <2>4. line[p] = v[1]
    BY <1>6, <2>3 DEF Here
  <2>5. CASE DoubleText(text, v, rt)
    <3>1. line[p] = QUOTE
      BY <2>4, <2>5 DEF DoubleText, Enclosed
    <3>2. mode' = "quoted" /\ p' = p + 1 /\ UNCHANGED <<current, vector, out, input>>
      BY <3>1 DEF Plain, Past, QUOTE, SPACE, NL, NUL, SQUOTE
    <3>3. p' = s + 2 + rt[0]
      BY <1>3, <1>6, <2>2, <3>2
    <3>4. 0 \in 0..Len(text) /\ Copied(current', 0, text, Byte)
      BY <1>2, <1>3, <1>6, <3>2
    <3>5. InToken(text, v, s)'
      BY <2>5, <3>2, <3>3, <3>4 DEF InToken
    <3> QED
      BY <3>2, <3>5 DEF GoesOn
  <2>6. CASE SingleText(text, v, rt)
    <3>1. line[p] = SQUOTE
      BY <2>4, <2>6 DEF SingleText, Enclosed
    <3>2. mode' = "single" /\ p' = p + 1 /\ UNCHANGED <<current, vector, out, input>>
      BY <3>1 DEF Plain, Past, QUOTE, SPACE, NL, NUL, SQUOTE
    <3>3. p' = s + 2 + rt[0]
      BY <1>3, <1>6, <2>2, <3>2
    <3>4. 0 \in 0..Len(text) /\ Copied(current', 0, text, Byte)
      BY <1>2, <1>3, <1>6, <3>2
    <3>5. InToken(text, v, s)'
      BY <2>6, <3>2, <3>3, <3>4 DEF InToken
    <3> QED
      BY <3>2, <3>5 DEF GoesOn
  <2> QED
    BY <2>1, <2>5, <2>6
<1> QED
  BY <1>2, <1>4, <1>5, <1>6

\* What stands where the next byte, and where the closing quote, of a quoted argument
\* is expected.
\* here is where byte m + 1 of the argument begins.
Begins(here, s, rt, m) == here = s + 2 + rt[m]

Expects(l, s, v, q, reprs, n, rt, m, here) ==
  /\ m < n => /\ Stands(l, here - 1, reprs[m + 1]) /\ Len(reprs[m + 1]) \in Nat
              /\ here + Len(reprs[m + 1]) = s + 2 + rt[m + 1]
  /\ m = n => l[here] = q /\ l[here + 1] \in {SPACE, NL} /\ here + 1 = s + Len(v) + 1

LEMMA QuotedAt ==
  ASSUME NEW l, NEW s, NEW v, Here(l, s, v), NEW q, NEW n \in Nat, NEW reprs \in Seq(Seq(Byte)),
         Len(reprs) = n, NEW rt, Enclosed(q, reprs, n, v, rt), NEW m \in 0..n, NEW here \in Nat, Begins(here, s, rt, m)
  PROVE  Expects(l, s, v, q, reprs, n, rt, m, here)
<1>1. PICK x, z : x = rt[m] /\ z = rt[n]
  OBVIOUS
<1>2. x \in Nat /\ z \in Nat /\ s \in Nat /\ Len(v) = z + 2 /\ here = s + 2 + x
  <2>1. x \in Nat /\ z \in Nat /\ s \in Nat /\ Len(v) = z + 2
    BY <1>1 DEF Enclosed, Here
  <2>2. here = s + 2 + x
    BY <1>1, Zenon DEF Begins
  <2> QED
    BY <2>1, <2>2
<1>3. ASSUME m < n
      PROVE  /\ Stands(l, here - 1, reprs[m + 1]) /\ Len(reprs[m + 1]) \in Nat
             /\ here + Len(reprs[m + 1]) = s + 2 + rt[m + 1]
  <2>1. m + 1 \in 1..n /\ (m + 1) - 1 = m
    BY <1>3
  <2>2. PICK r, y, f : r = reprs[m + 1] /\ y = Len(r) /\ f = rt[m + 1]
    OBVIOUS
  <2>3. y \in Nat
    BY <2>1, <2>2
  <2>4. f = x + y /\ f <= z /\ \A k \in 1..y : v[1 + x + k] = r[k]
    <3>1. /\ rt[m + 1] = rt[(m + 1) - 1] + Len(reprs[m + 1]) /\ rt[m + 1] <= rt[n]
          /\ \A k \in 1..Len(reprs[m + 1]) : v[1 + rt[(m + 1) - 1] + k] = reprs[m + 1][k]
      BY <2>1, Zenon DEF Enclosed
    <3> QED
      BY <1>1, <2>1, <2>2, <3>1, Zenon
  <2>5. \A k \in 1..y : 1 + x + k \in 1..Len(v) /\ here - 1 + k = s + (1 + x + k)
    <3>1. PICK u : u = Len(v)
      OBVIOUS
    <3>2. /\ x \in Nat /\ y \in Nat /\ z \in Nat /\ s \in Nat
          /\ u = z + 2 /\ x + y <= z /\ here = s + 2 + x
      BY <1>2, <2>3, <2>4, <3>1
    <3>3. \A k \in 1..y : 1 + x + k \in 1..u
      BY <3>2
    <3>4. \A k \in 1..y : here - 1 + k = s + (1 + x + k)
      BY <3>2
    <3> QED
      BY <3>1, <3>3, <3>4
  <2>6. \A j \in 1..Len(v) : l[s + j] = v[j]
    BY DEF Here
  <2>7. \A k \in 1..y : l[here - 1 + k] = r[k]
    BY <2>4, <2>5, <2>6
  <2>8. here + y = s + 2 + f
    <3>1. f = x + y /\ here = s + 2 + x /\ x \in Nat /\ y \in Nat /\ s \in Nat /\ here \in Nat
      BY <1>2, <2>3, <2>4
    <3> QED
      BY <3>1
  <2> QED
    BY <2>2, <2>3, <2>7, <2>8 DEF Stands
<1>4. ASSUME m = n
      PROVE  l[here] = q /\ l[here + 1] \in {SPACE, NL} /\ here + 1 = s + Len(v) + 1
  <2>1. x = z /\ v[z + 2] = q
    BY <1>1, <1>4 DEF Enclosed
  <2>2. z + 2 \in 1..Len(v) /\ s + (z + 2) = here /\ s + Len(v) + 1 = here + 1
    <3>1. PICK y : y = Len(v)
      OBVIOUS
    <3>2. y = z + 2 /\ here = s + 2 + z /\ z \in Nat /\ s \in Nat /\ here \in Nat
      BY <1>2, <2>1, <3>1
    <3>3. z + 2 \in 1..y /\ s + (z + 2) = here /\ s + y + 1 = here + 1
      BY <3>2
    <3> QED
      BY <3>1, <3>3
  <2> QED
    BY <2>1, <2>2 DEF Here
<1> QED
  BY <1>3, <1>4 DEF Expects

LEMMA QuotedStep ==
  ASSUME IInv, out = "running", failures' = 0, Quoted,
         NEW text \in Seq(Byte), NEW v, NEW s, Here(line, s, v), InToken(text, v, s)
  PROVE  GoesOn(text, v, s) \/ Done(text, v, s)
<1>1. mode = "quoted"
  BY DEF Quoted
<1>10. PICK m \in 0..Len(text) : \E t :
        Copied(current, m, text, Byte) /\ DoubleText(text, v, t) /\ p = s + 2 + t[m]
  BY <1>1 DEF InToken
<1>2. PICK rt :
        Copied(current, m, text, Byte) /\ DoubleText(text, v, rt) /\ p = s + 2 + rt[m]
  BY <1>10
<1>3. Len(text) \in Nat /\ m \in Nat /\ s \in Nat
  BY DEF Here
<1>4. PICK rs : rs = Reprs(text)
  OBVIOUS
<1>5. rs \in Seq(Seq(Byte)) /\ Len(rs) = Len(text) /\ Enclosed(QUOTE, rs, Len(text), v, rt)
  BY <1>2, <1>4, ReprsType DEF DoubleText
<1>8. Expects(line, s, v, QUOTE, rs, Len(text), rt, m, p)
  <2>1. p \in Nat
    BY DEF IInv, TypeOK
  <2> QED
    BY <1>2, <1>3, <1>5, <2>1, QuotedAt DEF Begins
<1>6. CASE m < Len(text)
  <2>1. PICK c : c = text[m + 1]
    OBVIOUS
  <2>2. m + 1 \in 1..Len(text) /\ c \in Byte
    BY <1>3, <1>6, <2>1
  <2>3. rs[m + 1] = Repr(c)
    BY <1>4, <2>1, <2>2 DEF Reprs
  <2>4. /\ Stands(line, p - 1, Repr(c)) /\ Len(Repr(c)) \in Nat
        /\ p + Len(Repr(c)) = s + 2 + rt[m + 1]
    <3>1. /\ Stands(line, p - 1, rs[m + 1]) /\ Len(rs[m + 1]) \in Nat
          /\ p + Len(rs[m + 1]) = s + 2 + rt[m + 1]
      BY <1>6, <1>8 DEF Expects
    <3> QED
      BY <2>3, <3>1
  <2>5. PICK q : q = p + Len(Repr(c)) - 1 /\ line[q] # NUL /\ Put(c, q)
    BY <2>2, <2>4, ReadsDouble
  <2>6. Copied(current', m + 1, text, Byte) /\ p' = q + 1 /\ UNCHANGED <<mode, vector, out, input>>
    BY <1>1, <1>2, <1>3, <1>6, <2>1, <2>5, Takes
  <2>7. p \in Nat
    BY DEF IInv, TypeOK
  <2>8. m + 1 \in 0..Len(text) /\ p' = s + 2 + rt[m + 1] /\ mode' = "quoted"
    BY <1>1, <1>3, <1>6, <2>4, <2>5, <2>6, <2>7
  <2>9. InToken(text, v, s)'
    BY <1>2, <2>6, <2>8 DEF InToken
  <2> QED
    BY <2>6, <2>8, <2>9 DEF GoesOn
<1>7. CASE ~(m < Len(text))
  <2>1. m = Len(text)
    BY <1>3, <1>7
  <2>2. line[p] = QUOTE /\ line[p + 1] \in {SPACE, NL} /\ p + 1 = s + Len(v) + 1
    BY <1>8, <2>1 DEF Expects
  <2>3. line[p] # NUL /\ line[p] # BSLASH /\ isspace(line[p + 1])
    BY <2>2 DEF QUOTE, NUL, BSLASH, isspace, SPACE, NL
  <2>4. EndToken
    BY <2>2, <2>3, Zenon DEF Quoted, HexAhead, Close
  <2> QED
    BY <1>2, <2>1, <2>2, <2>3, <2>4 DEF Done
<1> QED
  BY <1>6, <1>7

LEMMA SingleStep ==
  ASSUME IInv, out = "running", failures' = 0, Single,
         NEW text \in Seq(Byte), NEW v, NEW s, Here(line, s, v), InToken(text, v, s)
  PROVE  GoesOn(text, v, s) \/ Done(text, v, s)
<1>1. mode = "single"
  BY DEF Single
<1>10. PICK m \in 0..Len(text) : \E t :
        Copied(current, m, text, Byte) /\ SingleText(text, v, t) /\ p = s + 2 + t[m]
  BY <1>1 DEF InToken
<1>2. PICK rt :
        Copied(current, m, text, Byte) /\ SingleText(text, v, rt) /\ p = s + 2 + rt[m]
  BY <1>10
<1>3. Len(text) \in Nat /\ m \in Nat /\ s \in Nat
  BY DEF Here
<1>4. PICK rs : rs = SingleReprs(text)
  OBVIOUS
<1>5. rs \in Seq(Seq(Byte)) /\ Len(rs) = Len(text) /\ Enclosed(SQUOTE, rs, Len(text), v, rt)
  BY <1>2, <1>4, ReprsType DEF SingleText
<1>8. Expects(line, s, v, SQUOTE, rs, Len(text), rt, m, p)
  <2>1. p \in Nat
    BY DEF IInv, TypeOK
  <2> QED
    BY <1>2, <1>3, <1>5, <2>1, QuotedAt DEF Begins
<1>6. CASE m < Len(text)
  <2>1. PICK c : c = text[m + 1]
    OBVIOUS
  <2>2. m + 1 \in 1..Len(text) /\ c \in Byte
    BY <1>3, <1>6, <2>1
  <2>3. c \notin {NUL, BSLASH} /\ rs[m + 1] = SingleRepr(c)
    BY <1>2, <1>4, <2>1, <2>2 DEF SingleReprs, SingleText
  <2>4. /\ Stands(line, p - 1, SingleRepr(c)) /\ Len(SingleRepr(c)) \in Nat
        /\ p + Len(SingleRepr(c)) = s + 2 + rt[m + 1]
    <3>1. /\ Stands(line, p - 1, rs[m + 1]) /\ Len(rs[m + 1]) \in Nat
          /\ p + Len(rs[m + 1]) = s + 2 + rt[m + 1]
      BY <1>6, <1>8 DEF Expects
    <3> QED
      BY <2>3, <3>1
  <2>5. PICK q : q = p + Len(SingleRepr(c)) - 1 /\ line[q] # NUL /\ Put(c, q)
    BY <2>2, <2>3, <2>4, ReadsSingle
  <2>6. Copied(current', m + 1, text, Byte) /\ p' = q + 1 /\ UNCHANGED <<mode, vector, out, input>>
    BY <1>1, <1>2, <1>3, <1>6, <2>1, <2>5, Takes
  <2>7. p \in Nat
    BY DEF IInv, TypeOK
  <2>8. m + 1 \in 0..Len(text) /\ p' = s + 2 + rt[m + 1] /\ mode' = "single"
    BY <1>1, <1>3, <1>6, <2>4, <2>5, <2>6, <2>7
  <2>9. InToken(text, v, s)'
    BY <1>2, <2>6, <2>8 DEF InToken
  <2> QED
    BY <2>6, <2>8, <2>9 DEF GoesOn
<1>7. CASE ~(m < Len(text))
  <2>1. m = Len(text)
    BY <1>3, <1>7
  <2>2. line[p] = SQUOTE /\ line[p + 1] \in {SPACE, NL} /\ p + 1 = s + Len(v) + 1
    BY <1>8, <2>1 DEF Expects
  <2>3. line[p] # NUL /\ line[p] # BSLASH /\ isspace(line[p + 1])
    BY <2>2 DEF SQUOTE, NUL, BSLASH, isspace, SPACE, NL
  <2>4. EndToken
    BY <2>2, <2>3, Zenon DEF Single, Close
  <2> QED
    BY <1>2, <2>1, <2>2, <2>3, <2>4 DEF Done
<1> QED
  BY <1>6, <1>7
\* Every argument begins with a byte that starts a token.
LEMMA FirstByte ==
  ASSUME NEW text \in Seq(Byte), NEW v \in Written(text), NEW l, NEW s, Here(l, s, v)
  PROVE  ~isspace(l[s + 1]) /\ l[s + 1] # NUL
<1>1. \A c : isprint(c) /\ c # SPACE => ~isspace(c) /\ c # NUL
  BY DEF isprint, isspace, SPACE, NUL
<1>2. v[1] \in {QUOTE, SQUOTE} => ~isspace(v[1]) /\ v[1] # NUL
  BY DEF QUOTE, SQUOTE, isspace, SPACE, NUL
<1>3. Len(v) # 0 /\ ~isspace(v[1]) /\ v[1] # NUL
  <2>1. CASE PlainText(text, v)
    <3>1. v = text /\ 1 \in 1..Len(text)
      BY <2>1 DEF PlainText
    <3> QED
      BY <1>1, <2>1, <3>1 DEF PlainText
  <2>2. ASSUME NEW rt, DoubleText(text, v, rt) \/ SingleText(text, v, rt)
        PROVE  Len(v) # 0 /\ v[1] \in {QUOTE, SQUOTE}
    <3>1. rt \in [0..Len(text) -> Nat] /\ Len(v) = rt[Len(text)] + 2 /\ v[1] \in {QUOTE, SQUOTE}
      BY <2>2 DEF DoubleText, SingleText, Enclosed
    <3>2. rt[Len(text)] \in Nat
      BY <3>1
    <3> QED
      BY <3>1, <3>2
  <2> QED
    BY <1>2, <2>1, <2>2, Styles
<1>4. 1 \in 1..Len(v)
  BY <1>3 DEF Here
<1> QED
  BY <1>3, <1>4 DEF Here

\* Behind a token, or in front of the line, one blank may be left to skip.
LEMMA SkipsOne ==
  ASSUME IInv, NEW x \in Nat, p \in {x + 1, x + 2}, line[x + 1] \in {SPACE, NL},
         ~isspace(line[x + 2])
  PROVE  Skipped = x + 2
<1>1. isspace(line[x + 1])
  BY DEF isspace, SPACE, NL
<1>2. PICK q : q = Skipped
  OBVIOUS
<1>3. q \in p..Len(line) /\ ~isspace(line[q]) /\ \A i \in p..(q - 1) : isspace(line[i])
  BY <1>2, SkippedIs DEF IInv
<1>4. q # x + 1
  BY <1>1, <1>3
<1>5. ~(q > x + 2)
  <2> SUFFICES ASSUME q > x + 2  PROVE FALSE
    OBVIOUS
  <2>1. x + 2 \in p..(q - 1)
    BY <1>3
  <2> QED
    BY <1>3, <2>1
<1>6. q \in Nat /\ q >= x + 1
  BY <1>3
<1> QED
  BY <1>2, <1>4, <1>5, <1>6

\* k arguments have been read: they are the vector's tokens.
HasRead(k) == IF k = 0 THEN vector = NULL ELSE Copied(vector, k, args, Seq(Byte))

\* Where the lexer is, on a line that was written as w and laid out as at says.
Reading(w, at) ==
  /\ out \in {"running", "tokens"}
  /\ out = "tokens" => vector = args
  /\ out = "running" =>
       \E k \in 0..Len(args) :
         /\ HasRead(k)
         /\ \/ mode = "blank" /\ p \in {at[k] + 1, at[k] + 2}
            \/ mode # "blank" /\ k < Len(args) /\ InToken(args[k + 1], w[k + 1], at[k] + 1)

LEMMA BlankReads ==
  ASSUME IInv, out = "running", failures' = 0, args \in Seq(Seq(Byte)), Blank,
         NEW w, NEW at, Laid(args, line, w, at), NEW k \in 0..Len(args), HasRead(k),
         p \in {at[k] + 1, at[k] + 2}
  PROVE  Reading(w, at)'
<1>1. PICK x : x = at[k]
  OBVIOUS
<1>2. x \in Nat /\ line[x + 1] \in {SPACE, NL}
  BY <1>1, BlankAt
<1>3. CASE k < Len(args)
  <2>1. PICK text, v, s : text = args[k + 1] /\ v = w[k + 1] /\ s = x + 1
    OBVIOUS
  <2>2. Here(line, s, v) /\ v \in Written(text) /\ text \in Seq(Byte)
    BY <1>1, <1>3, <2>1, PlaceIs
  <2>3. ~isspace(line[x + 2])
    <3>1. s + 1 = x + 2
      BY <1>2, <2>1
    <3> QED
      BY <2>2, <3>1, FirstByte
  <2>4. Skipped = x + 2
    BY <1>1, <1>2, <2>3, SkipsOne
  <2>5. ~Fails
    BY ArgsAssumption DEF Fails, IInv, TypeOK
  <2>6. current' = <<>> /\ p' = x + 2 /\ mode' = "plain" /\ UNCHANGED <<vector, out, input>>
    BY <2>4, <2>5 DEF Blank, Skipped
  <2>7. p' = s + 1 /\ p' = s + 1 + 0
    BY <1>2, <2>1, <2>6
  <2>8. 0 \in 0..Len(text) /\ Copied(current', 0, text, Byte)
    BY <2>2, <2>6 DEF Copied
  <2>9. InToken(text, v, s)'
    BY <2>2, <2>6, <2>7, <2>8, Styles DEF InToken
  <2>10. HasRead(k)' /\ args' = args
    BY <2>6 DEF HasRead, input
  <2>11. mode' # "blank" /\ InToken(args[k + 1], w[k + 1], at[k] + 1)'
    BY <1>1, <2>1, <2>6, <2>9, <2>10
  <2> QED
    BY <1>3, <2>6, <2>10, <2>11 DEF Reading
<1>4. CASE ~(k < Len(args))
  <2>1. k = Len(args)
    BY <1>4
  <2>2. line[x + 2] = NUL
    BY <1>1, <2>1 DEF Laid
  <2>3. Skipped = x + 2
    <3>1. ~isspace(line[x + 2])
      BY <2>2 DEF isspace, NUL, SPACE
    <3> QED
      BY <1>1, <1>2, <3>1, SkipsOne
  <2> QED
    BY <2>2, <2>3 DEF Blank, Skipped
<1> QED
  BY <1>3, <1>4

LEMMA ReturnReads ==
  ASSUME IInv, out = "running", failures' = 0, args \in Seq(Seq(Byte)), Return,
         NEW w, NEW at, Laid(args, line, w, at), NEW k \in 0..Len(args), HasRead(k),
         p \in {at[k] + 1, at[k] + 2}
  PROVE  Reading(w, at)'
<1>1. PICK x : x = at[k]
  OBVIOUS
<1>2. x \in Nat /\ line[x + 1] \in {SPACE, NL}
  BY <1>1, BlankAt
<1>3. CASE k < Len(args)
  <2>1. PICK text, v, s : text = args[k + 1] /\ v = w[k + 1] /\ s = x + 1
    OBVIOUS
  <2>2. Here(line, s, v) /\ v \in Written(text) /\ text \in Seq(Byte)
    BY <1>1, <1>3, <2>1, PlaceIs
  <2>3. ~isspace(line[x + 2]) /\ line[x + 2] # NUL
    <3>1. s + 1 = x + 2
      BY <1>2, <2>1
    <3> QED
      BY <2>2, <3>1, FirstByte
  <2>4. Skipped = x + 2
    BY <1>1, <1>2, <2>3, SkipsOne
  <2> QED
    BY <2>3, <2>4 DEF Return, Skipped
<1>4. CASE ~(k < Len(args))
  <2>1. k = Len(args)
    BY <1>4
  <2>2. ~Fails
    BY ArgsAssumption DEF Fails, IInv, TypeOK
  <2>3. /\ out' = "tokens" /\ UNCHANGED input
        /\ IF vector = NULL THEN vector' = <<>> ELSE vector' = vector
    BY <2>2 DEF Return
  <2>4. vector' = args
    <3>1. CASE k = 0
      <4>1. args = <<>>
        <5>1. Len(args) = 0
          BY <2>1, <3>1
        <5> QED
          BY <5>1, EmptySeq
      <4> QED
        BY <2>3, <3>1, <4>1 DEF HasRead
    <3>2. CASE k # 0
      <4>1. Copied(vector, Len(args), args, Seq(Byte))
        BY <2>1, <3>2 DEF HasRead
      <4>2. vector = args
        BY <4>1, CopyAll
      <4> QED
        BY <2>3, <4>2, NullAssumption
    <3> QED
      BY <3>1, <3>2
  <2> QED
    BY <2>3, <2>4 DEF Reading, input
<1> QED
  BY <1>3, <1>4

LEMMA DoneReads ==
  ASSUME IInv, out = "running", failures' = 0, args \in Seq(Seq(Byte)),
         NEW w, NEW at, Laid(args, line, w, at), NEW k \in 0..Len(args), k < Len(args), HasRead(k),
         Done(args[k + 1], w[k + 1], at[k] + 1)
  PROVE  Reading(w, at)'
<1>1. PICK text, v, x, f : text = args[k + 1] /\ v = w[k + 1] /\ x = at[k] /\ f = at[k + 1]
  OBVIOUS
<1>2. /\ x \in Nat /\ v \in Seq(Byte) /\ f = x + 1 + Len(v) /\ text \in Seq(Byte)
  BY <1>1, PlaceIs, BlankAt DEF Here
<1>3. /\ EndToken /\ Copied(current, Len(text), text, Byte) /\ line[p] # NUL
      /\ p + 1 \in {x + 1 + Len(v) + 1, x + 1 + Len(v) + 2}
  BY <1>1, Zenon DEF Done
<1>4. ~Fails
  BY ArgsAssumption DEF Fails, IInv, TypeOK
<1>5. /\ vector' = Append(IF vector = NULL THEN <<>> ELSE vector, current)
      /\ mode' = "blank" /\ p' = p + 1 /\ UNCHANGED <<out, input>>
  BY <1>3, <1>4 DEF EndToken, Past
<1>6. current = text
  BY <1>2, <1>3, CopyAll
<1>7. PICK so : so = IF vector = NULL THEN <<>> ELSE vector
  OBVIOUS
<1>8. Copied(so, k, args, Seq(Byte))
  <2>1. CASE k = 0
    <3>1. so = <<>>
      BY <1>7, <2>1 DEF HasRead
    <3> QED
      BY <2>1, <3>1 DEF Copied
  <2>2. CASE k # 0
    <3>1. Copied(vector, k, args, Seq(Byte))
      BY <2>2 DEF HasRead
    <3>2. vector # NULL
      BY <3>1, NullAssumption DEF Copied
    <3> QED
      BY <1>7, <3>1, <3>2
  <2> QED
    BY <2>1, <2>2
<1>9. Copied(vector', k + 1, args, Seq(Byte))
  <2>1. PICK V : V = Seq(Byte)
    OBVIOUS
  <2>2. args \in Seq(V) /\ k \in Nat /\ Copied(so, k, args, V)
    BY <1>8, <2>1
  <2>3. Copied(Append(so, args[k + 1]), k + 1, args, V)
    BY <2>2, CopyMore
  <2>4. vector' = Append(so, args[k + 1])
    BY <1>1, <1>5, <1>6, <1>7
  <2> QED
    BY <2>1, <2>3, <2>4
<1>10. k + 1 \in 0..Len(args) /\ k + 1 # 0
  OBVIOUS
<1>11. p' \in {f + 1, f + 2}
  BY <1>2, <1>3, <1>5
<1>12. HasRead(k + 1)' /\ args' = args /\ out' = "running"
  BY <1>5, <1>9, <1>10 DEF HasRead, input
<1>13. p' \in {at[k + 1] + 1, at[k + 1] + 2}
  BY <1>1, <1>11
<1> QED
  BY <1>5, <1>10, <1>12, <1>13 DEF Reading

LEMMA GoesOnReads ==
  ASSUME out = "running", NEW w, NEW at, NEW k \in 0..Len(args), k < Len(args), HasRead(k),
         GoesOn(args[k + 1], w[k + 1], at[k] + 1), args \in Seq(Seq(Byte))
  PROVE  Reading(w, at)'
<1>1. mode' # "blank" /\ out' = "running" /\ args' = args /\ vector' = vector
  BY DEF GoesOn, input
<1>2. InToken(args[k + 1], w[k + 1], at[k] + 1)'
  BY <1>1 DEF GoesOn
<1>3. HasRead(k)'
  BY <1>1 DEF HasRead
<1> QED
  BY <1>1, <1>2, <1>3 DEF Reading

\* A written line is read as far as it has been read.
RInv == args # NULL /\ failures = 0 => \E w, at : Laid(args, line, w, at) /\ Reading(w, at)

LEMMA ReadsOn == IInv /\ RInv /\ [Next]_vars => RInv'
<1> SUFFICES ASSUME IInv, RInv, [Next]_vars, args' # NULL, failures' = 0
             PROVE  \E w, at : Laid(args', line', w, at) /\ Reading(w, at)'
  BY DEF RInv
<1>1. args' = args /\ line' = line
  BY DEF Next, Blank, Return, Plain, Quoted, Single, Put, EndToken, Crashes, Close, Err, vars, input
<1>2. args \in Seq(Seq(Byte)) /\ failures \in Nat
  BY <1>1, ArgsAssumption DEF IInv, TypeOK
<1>3. failures = 0
  BY <1>2 DEF Next, Blank, Return, Plain, Quoted, Single, Put, EndToken, Fails, Close, Err, vars
<1>4. PICK w, at : Laid(args, line, w, at) /\ Reading(w, at)
  BY <1>1, <1>3 DEF RInv
<1>5. CASE UNCHANGED vars
  <2>1. \A text, v, s : InToken(text, v, s) => InToken(text, v, s)'
    BY <1>5 DEF vars, InToken
  <2>2. \A k : HasRead(k) => HasRead(k)'
    BY <1>5 DEF vars, HasRead
  <2>3. Reading(w, at)'
    BY <1>4, <1>5, <2>1, <2>2 DEF vars, Reading
  <2> QED
    BY <1>1, <1>4, <2>3
<1>6. CASE ~UNCHANGED vars
  <2>1. out = "running" /\ (Blank \/ Return \/ Plain \/ Quoted \/ Single)
    BY <1>6 DEF Next
  <2>2. PICK k \in 0..Len(args) :
         /\ HasRead(k)
         /\ \/ mode = "blank" /\ p \in {at[k] + 1, at[k] + 2}
            \/ mode # "blank" /\ k < Len(args) /\ InToken(args[k + 1], w[k + 1], at[k] + 1)
    BY <1>4, <2>1 DEF Reading
  <2>3. CASE mode = "blank"
    <3>1. Blank \/ Return
      BY <2>1, <2>3 DEF Plain, Quoted, Single
    <3>2. Reading(w, at)'
      BY <1>2, <1>4, <2>1, <2>2, <2>3, <3>1, BlankReads, ReturnReads
    <3> QED
      BY <1>1, <1>4, <3>2
  <2>4. CASE mode # "blank"
    <3>1. Plain \/ Quoted \/ Single
      BY <2>1, <2>4 DEF Blank, Return
    <3>2. PICK text, v, s : text = args[k + 1] /\ v = w[k + 1] /\ s = at[k] + 1
      OBVIOUS
    <3>3. Here(line, s, v) /\ text \in Seq(Byte) /\ InToken(text, v, s)
      BY <1>2, <1>4, <2>2, <2>4, <3>2, PlaceIs
    <3>4. GoesOn(text, v, s) \/ Done(text, v, s)
      BY <2>1, <3>1, <3>3, PlainStep, QuotedStep, SingleStep
    <3>5. Reading(w, at)'
      BY <1>2, <1>4, <2>1, <2>2, <2>4, <3>2, <3>4, GoesOnReads, DoneReads
    <3> QED
      BY <1>1, <1>4, <3>5
  <2> QED
    BY <2>3, <2>4
<1> QED
  BY <1>5, <1>6

LEMMA ReadsFirst == Init => RInv
<1> SUFFICES ASSUME Init, args # NULL  PROVE \E w, at : Laid(args, line, w, at) /\ Reading(w, at)
  BY DEF RInv
<1>1. PICK l \in LinesFor(args) : line = Append(l, NUL)
  BY DEF Init
<1>2. args \in Seq(Seq(Byte))
  BY ArgsAssumption DEF Init
<1>3. PICK w, at : Laid(args, line, w, at)
  BY <1>1, <1>2, LaidOut
<1>4. at[0] = 0 /\ 0 \in 0..Len(args)
  BY <1>2, <1>3 DEF Laid
<1>5. HasRead(0) /\ mode = "blank" /\ out = "running" /\ p \in {at[0] + 1, at[0] + 2}
  BY <1>4 DEF Init, HasRead
<1>6. Reading(w, at)
  BY <1>4, <1>5 DEF Reading
<1> QED
  BY <1>3, <1>6

\* What sdscatrepr, or a user, wrote of any arguments, sdssplitargs reads back byte by
\* byte, as long as no allocation fails.
THEOREM RoundTripHolds == Spec => []RoundTrip
<1>1. RInv => RoundTrip
  BY DEF RInv, Reading, RoundTrip
<1> QED
  BY <1>1, ReadsFirst, ReadsOn, Always, PTL DEF Spec
-----------------------------------------------------------------------------
(* Without quotes a line is its tokens and blanks.                         *)

Char == Byte \ {NUL}

LEMMA ReprChars ==
  ASSUME NEW c \in Byte
  PROVE  /\ Repr(c) \in Seq(Char)
         /\ c # NUL => SingleRepr(c) \in Seq(Char)
<1>1. PICK s : s = Repr(c)
  OBVIOUS
<1>2. BSLASH \in Char /\ LETTER_X \in Char
  BY Bytes DEF Char, BSLASH, LETTER_X, NUL
<1>3. ASSUME IsHexOf(s, c)  PROVE s \in Seq(Char)
  <2>1. PICK x \in Byte, y \in Byte :
          s = <<BSLASH, LETTER_X>> \o <<x, y>> /\ is_hex_digit(x) /\ is_hex_digit(y)
    BY <1>3 DEF IsHexOf
  <2>2. x \in Char /\ y \in Char
    BY <2>1 DEF is_hex_digit, Char, NUL
  <2> QED
    BY <1>1, <1>2, <2>1, <2>2
<1>4. ASSUME IsEscapeOf(s, c)  PROVE s \in Seq(Char)
  <2>1. PICK e \in Byte : s = <<BSLASH, e>> /\ e # NUL
    BY <1>4 DEF IsEscapeOf
  <2>2. e \in Char
    BY <2>1 DEF Char
  <2> QED
    BY <1>1, <1>2, <2>1, <2>2
<1>5. ASSUME IsItself(s, c)  PROVE s \in Seq(Char)
  <2>1. s = <<c>> /\ c \in Char
    BY <1>5 DEF IsItself, Char
  <2> QED
    BY <1>1, <2>1
<1>6. s \in Seq(Char)
  BY <1>1, <1>3, <1>4, <1>5, ReprShape
<1>7. c # NUL => SingleRepr(c) \in Seq(Char)
  <2> SUFFICES ASSUME c \in Char  PROVE SingleRepr(c) \in Seq(Char)
    BY DEF Char
  <2> QED
    BY <1>2 DEF SingleRepr
<1> QED
  BY <1>1, <1>6, <1>7

LEMMA BetweenChars ==
  ASSUME NEW q \in Char, NEW ss \in Seq(Seq(Char))
  PROVE  Between(q, FlattenSeq(ss)) \in Seq(Char)
<1>1. PICK t : t = FlattenSeq(ss)
  OBVIOUS
<1>2. t \in Seq(Char)
  <2>1. <<>> \in Seq(Char)
    OBVIOUS
  <2> QED
    BY <1>1, <2>1, FlattenAppend
<1>3. <<q>> \o t \o <<q>> \in Seq(Char)
  BY <1>2
<1> QED
  BY <1>1, <1>3 DEF Between

LEMMA WrittenChars ==
  ASSUME NEW text \in Seq(Byte)
  PROVE  Written(text) \subseteq Seq(Char)
<1>0. DOMAIN text = 1..Len(text) /\ Len(text) \in Nat /\ QUOTE \in Char /\ SQUOTE \in Char
  <2>1. QUOTE \in Char /\ SQUOTE \in Char
    BY Bytes DEF Char, QUOTE, SQUOTE, NUL
  <2> QED
    BY <2>1
<1>1. \A f : f \in [1..Len(text) -> Seq(Char)] => f \in Seq(Seq(Char))
  BY <1>0
<1>2. \A i \in 1..Len(text) : text[i] \in ToSet(text) /\ text[i] \in Byte
  BY DEF ToSet
<1>3. sdscatrepr(<<>>, text) \in Seq(Char)
  <2>1. \A i \in 1..Len(text) : Repr(text[i]) \in Seq(Char)
    BY <1>2, ReprChars
  <2>2. Reprs(text) \in [1..Len(text) -> Seq(Char)]
    BY <1>0, <2>1 DEF Reprs
  <2>3. Reprs(text) \in Seq(Seq(Char))
    BY <1>1, <2>2
  <2> QED
    BY <1>0, <2>3, BetweenChars, Written1
<1>4. ASSUME NUL \notin ToSet(text)  PROVE SingleQuoted(text) \in Seq(Char)
  <2>1. \A i \in 1..Len(text) : SingleRepr(text[i]) \in Seq(Char)
    BY <1>2, <1>4, ReprChars
  <2>2. SingleReprs(text) \in [1..Len(text) -> Seq(Char)]
    BY <1>0, <2>1 DEF SingleReprs
  <2>3. SingleReprs(text) \in Seq(Seq(Char))
    BY <1>1, <2>2
  <2> QED
    BY <1>0, <2>3, BetweenChars, Written1
<1>5. ASSUME \A c \in ToSet(text) : isprint(c)  PROVE text \in Seq(Char)
  <2>0. \A c \in Byte : isprint(c) => c \in Char
    BY DEF isprint, Char, NUL
  <2>1. \A i \in 1..Len(text) : text[i] \in Char
    BY <1>2, <1>5, <2>0
  <2>2. text \in [1..Len(text) -> Char]
    BY <1>0, <2>1
  <2> QED
    BY <1>0, <2>2
<1> QED
  BY <1>3, <1>4, <1>5 DEF Written

LEMMA LinesChars ==
  ASSUME NEW list \in Seq(Seq(Byte)), NEW l \in LinesFor(list)
  PROVE  l \in Seq(Char)
<1>1. PICK w \in Writings(list) : l = FlattenSeq(Pieces(list, w)) \o <<NL>>
  BY LinesType
<1>2. DOMAIN list = 1..Len(list) /\ Len(list) \in Nat /\ SPACE \in Char /\ NL \in Char
  <2>1. SPACE \in Char /\ NL \in Char
    BY Bytes DEF Char, SPACE, NL, NUL
  <2> QED
    BY <2>1
<1>3. \A i \in 1..Len(list) : w[i] \in Seq(Char)
  BY <1>2, WrittenChars DEF Writings
<1>4. \A i \in 1..Len(list) : <<SPACE>> \o w[i] \in Seq(Char)
  BY <1>2, <1>3
<1>5. Pieces(list, w) \in [1..Len(list) -> Seq(Char)]
  BY <1>2, <1>4 DEF Pieces
<1>6. Pieces(list, w) \in Seq(Seq(Char))
  <2>1. \A n \in Nat : \A f : f \in [1..n -> Seq(Char)] => f \in Seq(Seq(Char))
    OBVIOUS
  <2> QED
    BY <1>2, <1>5, <2>1
<1>7. FlattenSeq(Pieces(list, w)) \in Seq(Char)
  <2>1. <<>> \in Seq(Char)
    OBVIOUS
  <2> QED
    BY <1>6, <2>1, FlattenAppend
<1> QED
  BY <1>1, <1>2, <1>7

\* The bytes Ink leaves out.
IsGap(c) == c \in 9..13 \cup {SPACE, NUL}
Inks(s) == [i \in DOMAIN s |-> IF IsGap(s[i]) THEN <<>> ELSE <<s[i]>>]

LEMMA InksType ==
  ASSUME NEW s \in Seq(Byte)
  PROVE  /\ Inks(s) \in Seq(Seq(Byte)) /\ Len(Inks(s)) = Len(s)
         /\ \A i \in 1..Len(s) : Inks(s)[i] = IF IsGap(s[i]) THEN <<>> ELSE <<s[i]>>
         /\ Ink(s) = FlattenSeq(Inks(s)) /\ Ink(s) \in Seq(Byte)
<1>1. DOMAIN s = 1..Len(s) /\ Len(s) \in Nat /\ \A i \in 1..Len(s) : s[i] \in Byte
  OBVIOUS
<1>2. Inks(s) \in [1..Len(s) -> Seq(Byte)]
  BY <1>1 DEF Inks
<1>3. Inks(s) \in Seq(Seq(Byte)) /\ Len(Inks(s)) = Len(s)
  BY <1>1, <1>2
<1>4. Ink(s) = FlattenSeq(Inks(s))
  BY DEF Ink, Inks, IsGap
<1>5. FlattenSeq(Inks(s)) \in Seq(Byte)
  <2>1. <<>> \in Seq(Byte)
    OBVIOUS
  <2> QED
    BY <1>3, <2>1, FlattenAppend
<1>6. \A i \in 1..Len(s) : Inks(s)[i] = IF IsGap(s[i]) THEN <<>> ELSE <<s[i]>>
  BY <1>1 DEF Inks
<1> QED
  BY <1>3, <1>4, <1>5, <1>6

\* One byte more.
LEMMA InkAppend ==
  ASSUME NEW s \in Seq(Byte), NEW c \in Byte
  PROVE  Ink(Append(s, c)) = IF IsGap(c) THEN Ink(s) ELSE Ink(s) \o <<c>>
<1>1. PICK t, one, n : t = Append(s, c) /\ one = (IF IsGap(c) THEN <<>> ELSE <<c>>) /\ n = Len(s)
  OBVIOUS
<1>2. /\ t \in Seq(Byte) /\ n \in Nat /\ Len(t) = n + 1 /\ t[n + 1] = c
      /\ one \in Seq(Byte) /\ \A i \in 1..n : t[i] = s[i]
  BY <1>1
<1>3. PICK is, it : is = Inks(s) /\ it = Inks(t)
  OBVIOUS
<1>4. /\ is \in Seq(Seq(Byte)) /\ Len(is) = n /\ it \in Seq(Seq(Byte)) /\ Len(it) = n + 1
      /\ \A i \in 1..n : is[i] = IF IsGap(s[i]) THEN <<>> ELSE <<s[i]>>
      /\ \A i \in 1..(n + 1) : it[i] = IF IsGap(t[i]) THEN <<>> ELSE <<t[i]>>
  <2>1. /\ is \in Seq(Seq(Byte)) /\ Len(is) = Len(s)
        /\ \A i \in 1..Len(s) : is[i] = IF IsGap(s[i]) THEN <<>> ELSE <<s[i]>>
    BY <1>3, InksType
  <2>2. /\ it \in Seq(Seq(Byte)) /\ Len(it) = Len(t)
        /\ \A i \in 1..Len(t) : it[i] = IF IsGap(t[i]) THEN <<>> ELSE <<t[i]>>
    BY <1>2, <1>3, InksType
  <2> QED
    BY <1>1, <1>2, <2>1, <2>2, Zenon
<1>5. \A i \in 1..n : it[i] = is[i]
  <2> TAKE i \in 1..n
  <2>1. i \in 1..(n + 1)
    BY <1>2
  <2>2. is[i] = IF IsGap(s[i]) THEN <<>> ELSE <<s[i]>>
    BY <1>4
  <2>3. it[i] = IF IsGap(t[i]) THEN <<>> ELSE <<t[i]>>
    BY <1>4, <2>1
  <2>4. t[i] = s[i]
    BY <1>2
  <2> QED
    BY <2>2, <2>3, <2>4
<1>6. it[n + 1] = one
  <2>1. n + 1 \in 1..(n + 1)
    BY <1>2
  <2>2. it[n + 1] = IF IsGap(t[n + 1]) THEN <<>> ELSE <<t[n + 1]>>
    BY <1>4, <2>1
  <2> QED
    BY <1>1, <1>2, <2>2
<1>7. PICK js : js = Append(is, one)
  OBVIOUS
<1>8. /\ js \in Seq(Seq(Byte)) /\ Len(js) = n + 1 /\ js[n + 1] = one
      /\ \A i \in 1..n : js[i] = is[i]
  <2>1. is \in Seq(Seq(Byte)) /\ one \in Seq(Byte)
    BY <1>2, <1>4
  <2>2. /\ js \in Seq(Seq(Byte)) /\ Len(js) = Len(is) + 1 /\ js[Len(is) + 1] = one
        /\ \A i \in 1..Len(is) : js[i] = is[i]
    BY <1>7, <2>1, AppendProperties
  <2> QED
    BY <1>4, <2>2, Zenon
<1>9. it = js
  <2>1. \A i \in 1..(n + 1) : it[i] = js[i]
    <3>1. \A i \in 1..(n + 1) : i \in 1..n \/ i = n + 1
      BY <1>2
    <3> QED
      BY <1>5, <1>6, <1>8, <3>1
  <2>2. Len(it) = Len(js) /\ \A i \in 1..Len(it) : it[i] = js[i]
    BY <1>4, <1>8, <2>1
  <2> QED
    BY <1>4, <1>8, <2>2, SeqEqual
<1>10. FlattenSeq(it) = FlattenSeq(is) \o one
  BY <1>2, <1>4, <1>7, <1>9, FlattenAppend
<1>11. Ink(t) = FlattenSeq(it) /\ Ink(s) = FlattenSeq(is) /\ Ink(s) \in Seq(Byte)
  BY <1>2, <1>3, InksType
<1>12. Ink(t) = Ink(s) \o one
  BY <1>10, <1>11
<1>13. Ink(s) \o <<>> = Ink(s)
  BY <1>11, ConcatEmptySeq
<1> QED
  BY <1>1, <1>12, <1>13

LEMMA InkOne == ASSUME NEW c \in Byte, ~IsGap(c) PROVE Ink(<<c>>) # <<>>
<1>1. PICK none : none = <<>>
  OBVIOUS
<1>2. none \in Seq(Byte) /\ Append(none, c) = <<c>>
  BY <1>1
<1>3. PICK k : k = Ink(none)
  OBVIOUS
<1>4. k \in Seq(Byte)
  BY <1>2, <1>3, InksType
<1>5. Ink(Append(none, c)) = k \o <<c>>
  BY <1>2, <1>3, InkAppend
<1>6. Len(k \o <<c>>) = Len(k) + 1 /\ Len(k) \in Nat
  BY <1>4
<1>7. k \o <<c>> # <<>>
  BY <1>6
<1> QED
  BY <1>2, <1>5, <1>7
\* The line's first q bytes have the ink of text.
SeenTo(l, q, text) == \E done : Copied(done, q, l, Byte) /\ Ink(done) = Ink(text)

LEMMA SeenByte ==
  ASSUME NEW l \in Seq(Byte), NEW q \in Nat, q < Len(l), NEW text \in Seq(Byte), SeenTo(l, q, text)
  PROVE  /\ l[q + 1] \in Byte /\ SeenTo(l, q + 1, Append(text, l[q + 1]))
         /\ IsGap(l[q + 1]) => SeenTo(l, q + 1, text)
<1>1. PICK done : Copied(done, q, l, Byte) /\ Ink(done) = Ink(text)
  BY DEF SeenTo
<1>2. PICK c, more : c = l[q + 1] /\ more = Append(done, c)
  OBVIOUS
<1>3. c \in Byte /\ done \in Seq(Byte)
  BY <1>1, <1>2 DEF Copied
<1>4. Copied(more, q + 1, l, Byte)
  BY <1>1, <1>2, CopyMore
<1>5. Ink(more) = Ink(Append(text, c))
  BY <1>1, <1>2, <1>3, InkAppend
<1>6. IsGap(c) => Ink(more) = Ink(text)
  BY <1>1, <1>2, <1>3, InkAppend
<1> QED
  BY <1>2, <1>3, <1>4, <1>5, <1>6 DEF SeenTo

LEMMA SeenGaps ==
  ASSUME NEW l \in Seq(Byte), NEW q \in Nat, NEW r \in Nat, q <= r, r <= Len(l),
         NEW text \in Seq(Byte), SeenTo(l, q, text), \A i \in (q + 1)..r : IsGap(l[i])
  PROVE  SeenTo(l, r, text)
<1> DEFINE S == {j \in 0..(r - q) : SeenTo(l, q + j, text)}
<1>1. 0 \in S
  OBVIOUS
<1>2. ASSUME NEW j \in 1..(r - q), j - 1 \in S  PROVE j \in S
  <2>1. PICK k : k = q + (j - 1)
    OBVIOUS
  <2>2. k \in Nat /\ k < Len(l) /\ k + 1 \in (q + 1)..r /\ k + 1 = q + j
    BY <2>1
  <2>3. SeenTo(l, k, text) /\ IsGap(l[k + 1])
    BY <1>2, <2>1, <2>2
  <2>4. SeenTo(l, k + 1, text)
    BY <2>2, <2>3, SeenByte
  <2> QED
    BY <2>2, <2>4
<1> HIDE DEF S
<1>3. r - q \in Nat
  OBVIOUS
<1>4. 0..(r - q) \subseteq S
  BY <1>1, <1>2, <1>3, UpToInduction DEF InductiveTo
<1>5. r - q \in S
  BY <1>3, <1>4
<1>6. q + (r - q) = r
  OBVIOUS
<1> QED
  BY <1>5, <1>6 DEF S

LEMMA SeenAll ==
  ASSUME NEW l \in Seq(Byte), NEW text, SeenTo(l, Len(l), text)
  PROVE  Ink(text) = Ink(l)
BY CopyAll DEF SeenTo

\* A token as it has to be.
GoodToken(t) == t \in Seq(Byte) /\ t # <<>> /\ ~IsGap(t[1])
Good(ss) == ss \in Seq(Seq(Byte)) /\ \A i \in 1..Len(ss) : GoodToken(ss[i])

Taken == IF vector = NULL THEN <<>> ELSE vector
Cur == IF current = NULL THEN <<>> ELSE current
QuoteFree == ToSet(line) \cap {QUOTE, SQUOTE} = {}

\* The bytes in the tokens are those the lexer has left behind, but the blanks.
Lexed ==
  /\ mode \in {"blank", "plain"} /\ Good(Taken) /\ SeenTo(line, p - 1, FlattenSeq(Taken) \o Cur)
  /\ mode = "plain" => (current = <<>> /\ ~IsGap(line[p])) \/ GoodToken(current)

Lexing ==
  /\ out \in {"running", "tokens"} /\ (out = "running" => Lexed)
  /\ out = "tokens" => Good(vector) /\ Ink(FlattenSeq(vector)) = Ink(line)

PInv ==
  /\ \A i \in 1..(Len(line) - 1) : line[i] # NUL
  /\ QuoteFree /\ failures = 0 => Lexing

LEMMA GoodMore ==
  ASSUME NEW ss, Good(ss), NEW t, GoodToken(t)
  PROVE  /\ Good(Append(ss, t)) /\ FlattenSeq(ss) \in Seq(Byte)
         /\ FlattenSeq(Append(ss, t)) = FlattenSeq(ss) \o t
<1>1. ss \in Seq(Seq(Byte)) /\ t \in Seq(Byte) /\ \A i \in 1..Len(ss) : GoodToken(ss[i])
  BY DEF Good, GoodToken
<1>2. PICK w, n : w = Append(ss, t) /\ n = Len(ss)
  OBVIOUS
<1>3. /\ w \in Seq(Seq(Byte)) /\ Len(w) = Len(ss) + 1 /\ w[Len(ss) + 1] = t
      /\ \A i \in 1..Len(ss) : w[i] = ss[i]
  BY <1>1, <1>2, AppendProperties
<1>4. n \in Nat /\ \A i \in 1..(n + 1) : i \in 1..n \/ i = n + 1
  BY <1>1, <1>2
<1>5. Good(w)
  BY <1>1, <1>2, <1>3, <1>4 DEF Good
<1>6. FlattenSeq(ss) \in Seq(Byte) /\ FlattenSeq(w) = FlattenSeq(ss) \o t
  BY <1>1, <1>2, FlattenAppend
<1> QED
  BY <1>2, <1>5, <1>6

LEMMA FlatGood == ASSUME NEW ss, Good(ss) PROVE FlattenSeq(ss) \in Seq(Byte)
<1>1. ss \in Seq(Seq(Byte)) /\ <<>> \in Seq(Byte)
  BY DEF Good
<1> QED
  BY <1>1, FlattenAppend

LEMMA PlainPut ==
  ASSUME IInv, Lexed, mode = "plain", out = "running", failures' = 0, Put(line[p], p),
         line[p] # NUL
  PROVE  Lexing'
<1>1. failures = 0
  BY ArgsAssumption DEF Put, Fails, Crashes, IInv, TypeOK
<1>2. current # NULL /\ ~Fails
  BY <1>1 DEF IInv, Books, Fails
<1>3. PICK c : c = line[p]
  OBVIOUS
<1>4. /\ current' = Append(current, c) /\ p' = p + 1
      /\ UNCHANGED <<mode, vector, out, input>>
  BY <1>2, <1>3 DEF Put, Past
<1>5. /\ current \in Seq(Byte) /\ p \in Nat /\ p - 1 \in Nat /\ (p - 1) + 1 = p /\ p - 1 < Len(line)
      /\ line \in Seq(Byte)
  BY <1>2 DEF IInv, TypeOK, InLine
<1>6. PICK f : f = FlattenSeq(Taken)
  OBVIOUS
<1>7. f \in Seq(Byte) /\ Good(Taken) /\ SeenTo(line, p - 1, f \o current)
  BY <1>2, <1>6, FlatGood DEF Lexed, Cur
<1>8. f \o current \in Seq(Byte)
  BY <1>5, <1>7
<1>9. c \in Byte /\ SeenTo(line, p, Append(f \o current, c))
  <2>1. PICK q : q = p - 1
    OBVIOUS
  <2>2. q \in Nat /\ q + 1 = p /\ q < Len(line) /\ SeenTo(line, q, f \o current)
    BY <1>5, <1>7, <2>1
  <2>3. line[q + 1] \in Byte /\ SeenTo(line, q + 1, Append(f \o current, line[q + 1]))
    BY <1>5, <1>8, <2>2, SeenByte
  <2> QED
    BY <1>3, <2>2, <2>3
<1>10. Append(f \o current, c) = f \o Append(current, c)
  <2>1. <<c>> \in Seq(Byte)
    BY <1>9
  <2>2. (f \o current) \o <<c>> = f \o (current \o <<c>>)
    <3>1. f \in Seq(Byte) /\ current \in Seq(Byte) /\ <<c>> \in Seq(Byte)
      BY <1>5, <1>7, <2>1
    <3> QED
      BY <3>1, ConcatAssociative
  <2>3. Append(f \o current, c) = (f \o current) \o <<c>>
    BY <1>8, <1>9, AppendIsConcat
  <2>4. Append(current, c) = current \o <<c>>
    BY <1>5, <1>9, AppendIsConcat
  <2> QED
    BY <2>2, <2>3, <2>4
<1>11. GoodToken(Append(current, c))
  <2>1. PICK t : t = Append(current, c)
    OBVIOUS
  <2>2. t \in Seq(Byte) /\ t # <<>> /\ (current = <<>> => t[1] = c) /\ (current # <<>> => t[1] = current[1])
    BY <1>5, <1>9, <2>1
  <2>3. (current = <<>> /\ ~IsGap(c)) \/ (current # <<>> /\ ~IsGap(current[1]))
    BY <1>3 DEF Lexed, GoodToken
  <2> QED
    BY <2>1, <2>2, <2>3 DEF GoodToken
<1>12. Append(current, c) # NULL
  BY <1>11, NullAssumption DEF GoodToken
<1>13. Taken' = Taken /\ Cur' = Append(current, c)
  BY <1>4, <1>12 DEF Taken, Cur
<1>14. p' - 1 = p /\ line' = line
  BY <1>4, <1>5 DEF input
<1>15. SeenTo(line', p' - 1, FlattenSeq(Taken') \o Cur')
  BY <1>6, <1>9, <1>10, <1>13, <1>14
<1>16. Lexed'
  BY <1>4, <1>7, <1>11, <1>13, <1>15 DEF Lexed
<1> QED
  BY <1>4, <1>16 DEF Lexing

LEMMA PlainEnd ==
  ASSUME IInv, Lexed, mode = "plain", out = "running", failures' = 0, EndToken, IsGap(line[p]),
         failures = 0
  PROVE  Lexing'
<1>1. ~Fails
  BY ArgsAssumption DEF Fails, IInv, TypeOK
<1>2. /\ vector' = Append(Taken, current) /\ current' = NULL /\ mode' = "blank" /\ p' = Past(p)
      /\ UNCHANGED <<out, input>>
  BY <1>1 DEF EndToken, Taken
<1>3. GoodToken(current) /\ Good(Taken)
  BY DEF Lexed
<1>4. current # NULL /\ Cur = current
  BY <1>3, NullAssumption DEF GoodToken, Cur
<1>5. PICK f : f = FlattenSeq(Taken) \o current
  OBVIOUS
<1>6. Good(vector') /\ FlattenSeq(vector') = f /\ f \in Seq(Byte)
  <2>1. /\ Good(Append(Taken, current)) /\ FlattenSeq(Taken) \in Seq(Byte)
        /\ FlattenSeq(Append(Taken, current)) = FlattenSeq(Taken) \o current
    BY <1>3, GoodMore
  <2>2. current \in Seq(Byte)
    BY <1>3 DEF GoodToken
  <2> QED
    BY <1>2, <1>5, <2>1, <2>2
<1>7. vector' # NULL
  BY <1>6, NullAssumption DEF Good
<1>8. Taken' = vector' /\ Cur' = <<>>
  BY <1>2, <1>7 DEF Taken, Cur
<1>9. f \o <<>> = f
  BY <1>6, ConcatEmptySeq
<1>10. SeenTo(line, p - 1, f)
  BY <1>4, <1>5 DEF Lexed
<1>11. p \in Nat /\ p \in 1..Len(line) /\ line \in Seq(Byte)
  BY DEF IInv, TypeOK, InLine
<1>12. SeenTo(line, p' - 1, f)
  <2>1. CASE line[p] = NUL
    BY <1>2, <1>10, <2>1 DEF Past
  <2>2. CASE line[p] # NUL
    <3>1. PICK q : q = p - 1
      OBVIOUS
    <3>2. q \in Nat /\ q + 1 = p /\ q < Len(line)
      BY <1>11, <3>1
    <3>3. p' = p + 1
      BY <1>2, <2>2 DEF Past
    <3>4. p' - 1 = p
      BY <1>11, <3>3
    <3>5. SeenTo(line, q + 1, f)
      BY <1>6, <1>10, <1>11, <3>1, <3>2, SeenByte
    <3> QED
      BY <3>2, <3>4, <3>5
  <2> QED
    BY <2>1, <2>2
<1>13. line' = line
  BY <1>2 DEF input
<1>14. Lexed'
  BY <1>2, <1>6, <1>8, <1>9, <1>12, <1>13 DEF Lexed
<1> QED
  BY <1>2, <1>14 DEF Lexing

\* Skipping the blanks: the ink is the same.
LEMMA SkipsGaps ==
  ASSUME IInv, Lexed, mode = "blank"
  PROVE  /\ Skipped \in 1..Len(line) /\ ~isspace(line[Skipped])
         /\ SeenTo(line, Skipped - 1, FlattenSeq(Taken))
<1>1. PICK q, f : q = Skipped /\ f = FlattenSeq(Taken)
  OBVIOUS
<1>2. q \in p..Len(line) /\ ~isspace(line[q]) /\ \A i \in p..(q - 1) : isspace(line[i])
  BY <1>1, SkippedIs DEF IInv
<1>3. p \in Nat /\ p \in 1..Len(line) /\ line \in Seq(Byte) /\ Len(line) \in Nat
  BY DEF IInv, TypeOK, InLine
<1>4. f \in Seq(Byte) /\ Cur = <<>>
  BY <1>1, FlatGood DEF Lexed, Cur, IInv, Books
<1>5. SeenTo(line, p - 1, f)
  BY <1>1, <1>4, ConcatEmptySeq DEF Lexed
<1>6. \A c : isspace(c) => IsGap(c)
  BY DEF isspace, IsGap
<1>7. PICK a, b : a = p - 1 /\ b = q - 1
  OBVIOUS
<1>8. a \in Nat /\ b \in Nat /\ a <= b /\ b <= Len(line) /\ a + 1 = p
  BY <1>2, <1>3, <1>7
<1>9. \A i \in (a + 1)..b : IsGap(line[i])
  BY <1>2, <1>6, <1>7, <1>8
<1>10. SeenTo(line, b, f)
  BY <1>3, <1>4, <1>5, <1>7, <1>8, <1>9, SeenGaps
<1>11. q \in 1..Len(line)
  BY <1>2, <1>3
<1> QED
  BY <1>1, <1>2, <1>7, <1>10, <1>11

LEMMA BlankLexes ==
  ASSUME IInv, Lexed, out = "running", failures' = 0, Blank
  PROVE  Lexing'
<1>1. ~Fails
  BY ArgsAssumption DEF Fails, IInv, TypeOK
<1>2. /\ mode = "blank" /\ line[Skipped] # NUL /\ p' = Skipped /\ mode' = "plain"
      /\ current' = <<>> /\ UNCHANGED <<vector, out, input>>
  BY <1>1 DEF Blank, Skipped
<1>3. ~isspace(line[Skipped]) /\ SeenTo(line, Skipped - 1, FlattenSeq(Taken))
  BY <1>2, SkipsGaps
<1>4. ~IsGap(line[Skipped])
  BY <1>2, <1>3 DEF IsGap, isspace
<1>5. Taken' = Taken /\ Cur' = <<>> /\ line' = line
  BY <1>2 DEF Taken, Cur, input
<1>6. FlattenSeq(Taken) \o <<>> = FlattenSeq(Taken) /\ Good(Taken)
  BY FlatGood, ConcatEmptySeq DEF Lexed
<1>7. SeenTo(line', p' - 1, FlattenSeq(Taken') \o Cur')
  BY <1>2, <1>3, <1>5, <1>6
<1>8. Lexed'
  BY <1>2, <1>4, <1>5, <1>6, <1>7 DEF Lexed
<1> QED
  BY <1>2, <1>8 DEF Lexing

LEMMA ReturnLexes ==
  ASSUME IInv, PInv, Lexed, out = "running", failures' = 0, Return
  PROVE  Lexing'
<1>1. ~Fails
  BY ArgsAssumption DEF Fails, IInv, TypeOK
<1>2. /\ mode = "blank" /\ line[Skipped] = NUL /\ out' = "tokens" /\ UNCHANGED input
      /\ vector' = Taken
  BY <1>1 DEF Return, Skipped, Taken
<1>3. PICK q, f : q = Skipped /\ f = FlattenSeq(Taken)
  OBVIOUS
<1>4. q \in 1..Len(line) /\ SeenTo(line, q - 1, f)
  BY <1>2, <1>3, SkipsGaps
<1>5. line \in Seq(Byte) /\ Len(line) \in Nat /\ Good(Taken) /\ f \in Seq(Byte)
  BY <1>3, FlatGood DEF IInv, TypeOK, Lexed
<1>6. q = Len(line)
  <2>1. q \notin 1..(Len(line) - 1)
    BY <1>2, <1>3 DEF PInv
  <2> QED
    BY <1>4, <1>5, <2>1
<1>7. SeenTo(line, q, f)
  <2>1. PICK r : r = q - 1
    OBVIOUS
  <2>2. r \in Nat /\ r + 1 = q /\ r < Len(line)
    BY <1>4, <2>1
  <2>3. IsGap(line[q])
    BY <1>2, <1>3 DEF IsGap
  <2> QED
    BY <1>4, <1>5, <2>1, <2>2, <2>3, SeenByte
<1>8. Ink(f) = Ink(line)
  BY <1>5, <1>6, <1>7, SeenAll
<1> QED
  BY <1>2, <1>3, <1>5, <1>8 DEF Lexing, input

LEMMA LexesOn == IInv /\ PInv /\ [Next]_vars => PInv'
<1> SUFFICES ASSUME IInv, PInv, [Next]_vars
             PROVE  PInv'
  OBVIOUS
<1>1. line' = line
  BY DEF Next, Blank, Return, Plain, Quoted, Single, Put, EndToken, Crashes, Close, Err, vars, input
<1>2. QuoteFree' = QuoteFree
  BY <1>1 DEF QuoteFree
<1> SUFFICES ASSUME QuoteFree, failures' = 0
             PROVE  Lexing'
  BY <1>1, <1>2 DEF PInv
<1>3. failures \in Nat
  BY ArgsAssumption DEF IInv, TypeOK
<1>4. failures = 0
  BY <1>3 DEF Next, Blank, Return, Plain, Quoted, Single, Put, EndToken, Fails, Close, Err, vars
<1>5. Lexing
  BY <1>4 DEF PInv
<1>6. CASE UNCHANGED vars
  <2>1. Taken' = Taken /\ Cur' = Cur
    BY <1>6 DEF vars, Taken, Cur
  <2>2. Lexed' = Lexed
    BY <1>6, <2>1 DEF vars, Lexed
  <2> QED
    BY <1>5, <1>6, <2>2 DEF vars, Lexing
<1>7. CASE ~UNCHANGED vars
  <2>1. out = "running" /\ (Blank \/ Return \/ Plain \/ Quoted \/ Single)
    BY <1>7 DEF Next
  <2>2. Lexed
    BY <1>5, <2>1 DEF Lexing
  <2>3. CASE Blank \/ Return
    BY <2>1, <2>2, <2>3, BlankLexes, ReturnLexes
  <2>4. CASE Plain
    <3>1. mode = "plain"
      BY <2>4 DEF Plain
    <3>2. line[p] \in ToSet(line)
      BY DEF IInv, TypeOK, InLine, ToSet
    <3>3. line[p] \notin {QUOTE, SQUOTE}
      BY <3>2 DEF QuoteFree
    <3>4. CASE line[p] \in {SPACE, NL, 13, 9, NUL} /\ EndToken
      <4>1. IsGap(line[p])
        BY <3>4 DEF IsGap, NL
      <4> QED
        BY <1>4, <2>1, <2>2, <3>1, <3>4, <4>1, PlainEnd
    <3>5. CASE line[p] # NUL /\ Put(line[p], p)
      BY <2>1, <2>2, <3>1, <3>5, PlainPut
    <3> QED
      BY <2>4, <3>3, <3>4, <3>5 DEF Plain
  <2>5. ~Quoted /\ ~Single
    BY <2>2 DEF Lexed, Quoted, Single
  <2> QED
    BY <2>1, <2>3, <2>4, <2>5
<1> QED
  BY <1>6, <1>7

LEMMA LexesFirst == Init => PInv
<1> SUFFICES ASSUME Init  PROVE PInv
  OBVIOUS
<1>1. PICK l \in Seq(Char) : line = Append(l, NUL)
  <2>1. CASE args = NULL
    <3>1. \A l \in Lines : l \in Seq(Char)
      BY LinesAssumption DEF Char
    <3> QED
      BY <2>1, <3>1, ArgsAssumption, NullAssumption DEF Init
  <2>2. CASE args \in Args
    BY <2>2, LinesChars, ArgsAssumption, NullAssumption DEF Init
  <2> QED
    BY <2>1, <2>2 DEF Init
<1>2. \A i \in 1..(Len(line) - 1) : line[i] # NUL
  <2>1. Len(l) \in Nat /\ \A i \in 1..Len(l) : l[i] \in Char /\ l[i] \in Byte
    BY DEF Char
  <2>2. Len(line) = Len(l) + 1 /\ \A i \in 1..Len(l) : line[i] = l[i]
    BY <1>1, Bytes DEF Char
  <2>3. Len(line) - 1 = Len(l)
    BY <2>1, <2>2
  <2> QED
    BY <2>1, <2>2, <2>3 DEF Char
<1>3. vector = NULL /\ current = NULL /\ mode = "blank" /\ out = "running" /\ p = 1
  BY DEF Init
<1>4. Taken = <<>> /\ Cur = <<>>
  BY <1>3 DEF Taken, Cur
<1>5. PICK none : none = <<>>
  OBVIOUS
<1>6. none \in Seq(Byte) /\ none \in Seq(Seq(Byte)) /\ Len(none) = 0
  BY <1>5
<1>7. Good(none)
  BY <1>6 DEF Good
<1>8. FlattenSeq(none) = none
  BY <1>5 DEF FlattenSeq
<1>9. none \o none = none
  BY <1>5, <1>6, ConcatEmptySeq
<1>10. Copied(none, 0, line, Byte)
  BY <1>6 DEF Copied
<1>11. SeenTo(line, p - 1, FlattenSeq(Taken) \o Cur)
  <2>1. p - 1 = 0
    BY <1>3
  <2>2. FlattenSeq(Taken) \o Cur = none
    BY <1>4, <1>5, <1>8, <1>9
  <2> QED
    BY <1>10, <2>1, <2>2 DEF SeenTo
<1>12. Lexed
  BY <1>3, <1>4, <1>5, <1>7, <1>11 DEF Lexed
<1> QED
  BY <1>2, <1>3, <1>12 DEF PInv, Lexing

\* No line without quotes is refused, no byte of it that is no blank is lost, doubled
\* or moved, and no token is empty or starts with a blank.
THEOREM PlainTokensHold == Spec => []PlainTokens
<1>1. PInv => PlainTokens
  <2> SUFFICES ASSUME Good(vector)
               PROVE  \A i \in DOMAIN vector : vector[i] # <<>> /\ Ink(<<Head(vector[i])>>) # <<>>
    BY DEF PInv, Lexing, PlainTokens, QuoteFree
  <2> TAKE i \in DOMAIN vector
  <2>1. PICK t : t = vector[i]
    OBVIOUS
  <2>2. GoodToken(t)
    <3>1. i \in 1..Len(vector)
      BY DEF Good
    <3> QED
      BY <2>1, <3>1 DEF Good
  <2>3. t \in Seq(Byte) /\ t # <<>> /\ Head(t) = t[1] /\ t[1] \in Byte /\ ~IsGap(t[1])
    BY <2>2 DEF GoodToken
  <2>4. Ink(<<t[1]>>) # <<>>
    BY <2>3, InkOne
  <2> QED
    BY <2>1, <2>3, <2>4
<1> QED
  BY <1>1, LexesFirst, LexesOn, Always, PTL DEF Spec
=============================================================================
