--------------------------- MODULE SplitJoinProofs ---------------------------
(***************************************************************************)
(* The round trip: what is split and joined is the text again, with either *)
(* library, for every text, every separator and every number of failures.  *)
(***************************************************************************)
EXTENDS SplitJoin, InductionLemmas

-----------------------------------------------------------------------------
(* The inductive invariant.                                                *)

Complete == NULL \notin ToSet(parts)

\* Where the search is.
PlaceOK ==
  /\ pc = "call" => at = 0 /\ beg = 0 /\ parts = <<>> /\ live = 0 /\ list = "local"
  /\ lib = "sds" => list = "local"
  /\ pc \in {"split", "return"} => parts # NULL /\ sep # <<>>
  /\ pc = "return" => lib = "stx" /\ parts # <<>>
  /\ pc = "split" /\ lib = "stx" => at = beg /\ beg <= Len(CString(src))
  /\ pc = "split" /\ lib = "sds" => beg <= at /\ at <= len /\ len > 0
  /\ pc \notin {"free", "done"} => joined = NULL

\* Why there is no part, or no list, and why a call ends in a fault.
BlameOK ==
  /\ parts # NULL /\ ~Complete => failures > 0 /\ lib = "stx"
  /\ pc = "join" /\ lib = "stx" => parts # <<>>
  /\ pc = "join" /\ parts = NULL => failures > 0 \/ sep = <<>>
  /\ pc = "fault" => failures > 0 \/ (lib = "stx" /\ sep = <<>>) \/ ~Measured

\* The array has room, for the final part and for stx's sentinel too.
RoomOK ==
  /\ parts # NULL => Len(parts) <= slots
  /\ lib = "sds" /\ pc = "split" => Len(parts) + 1 <= slots
  /\ lib = "stx" /\ pc = "split" =>
       Len(parts) + 2 <= slots /\ (list = "local" => slots = LIST_LOCAL_MAX)
  /\ pc = "return" => Len(parts) + 1 <= slots

\* stx's array on the heap; the one that moved, and that nobody frees.
Grown == IF list \in OnHeap THEN 1 ELSE 0
Lost == IF list = "moved" THEN 1 ELSE 0

\* What is allocated.
LiveOK ==
  /\ pc \in {"split", "return"} /\ lib = "stx" /\ Complete => live = Len(parts) + Grown
  /\ pc = "split" /\ lib = "sds" => live = Len(parts) + 1
  /\ pc = "join" /\ (lib = "sds" \/ (parts # NULL /\ Complete)) => live = Listed + Lost
  /\ pc = "free" => live >= Listed /\ (joined # NULL => live = Listed + 1 + Lost)
  /\ pc = "done" /\ joined # NULL => live = 1 + Lost

\* The parts so far, each with the separator behind it.
Ended(strings, t) == FlattenSeq([i \in 1..Len(strings) |-> strings[i] \o t])

\* strstr and the loop of sdssplitlen see the same text.
Plain == lib = "stx" => NUL \notin ToSet(src)

Cleanly == failures = 0 /\ sep # <<>>

\* What the parts and the joined text say, when no allocation has failed.
SearchOK ==
  Cleanly /\ pc = "split" =>
    /\ Ended(parts, sep) = SubSeq(src, 1, beg)
    /\ lib = "sds" => \A j \in beg..(at - 1) : ~Matches(src, j, sep)
    /\ Plain => \A i \in 1..Len(parts) : EndsFirst(parts[i], sep)

AnswerOK ==
  Cleanly /\ pc \in {"return", "join"} /\ Measured =>
    /\ Glued(parts, sep) = SubSeq(src, 1, len)
    /\ Plain => IF lib = "sds" /\ len = 0 THEN parts = <<>>
                ELSE IsSplit(parts, SubSeq(src, 1, len), sep)

BackOK == Cleanly /\ pc \in {"free", "done"} /\ Measured => joined = SubSeq(src, 1, len)

BooksOK == TypeOK /\ PlaceOK /\ BlameOK /\ RoomOK /\ LiveOK
TextOK == SearchOK /\ AnswerOK /\ BackOK
IInv == BooksOK /\ TextOK

-----------------------------------------------------------------------------
(* Texts put together.                                                     *)

\* The parts and one more, with separators behind them or between them.
LEMMA GlueAppend ==
  ASSUME NEW ss \in Seq(Seq(Byte)), NEW t \in Seq(Byte), sep \in Seq(Byte)
  PROVE  /\ Ended(ss, sep) \in Seq(Byte)
         /\ Ended(Append(ss, t), sep) = Ended(ss, sep) \o (t \o sep)
         /\ Glued(Append(ss, t), sep) = Ended(ss, sep) \o t
<1>1. PICK n, tt, es : /\ n = Len(ss) /\ tt = Append(ss, t)
                       /\ es = [i \in 1..n |-> ss[i] \o sep]
  OBVIOUS
<1>2. /\ n \in Nat /\ tt \in Seq(Seq(Byte)) /\ Len(tt) = n + 1 /\ tt[n + 1] = t
      /\ \A i \in 1..n : tt[i] = ss[i] /\ ss[i] \in Seq(Byte)
      /\ \A i \in 1..(n + 1) : i = n + 1 \/ (i \in 1..n /\ i < n + 1)
      /\ t \o sep \in Seq(Byte)
  BY <1>1
<1>3. es \in Seq(Seq(Byte)) /\ Len(es) = n /\ DOMAIN es = 1..n
  <2>1. \A i \in 1..n : ss[i] \o sep \in Seq(Byte)
    BY <1>2
  <2> QED
    BY <1>1, <1>2, <2>1
<1>4. Ended(ss, sep) = FlattenSeq(es)
  BY <1>1 DEF Ended
<1>5. Ended(tt, sep) = FlattenSeq(Append(es, t \o sep))
  <2>1. PICK ts, l : ts = t \o sep /\ l = Append(es, ts)
    OBVIOUS
  <2>2. ts \in Seq(Byte)
    BY <1>2, <2>1
  <2>3. /\ l \in Seq(Seq(Byte)) /\ Len(l) = n + 1 /\ l[n + 1] = ts
        /\ \A i \in 1..n : l[i] = es[i]
    BY <1>3, <2>1, <2>2, AppendProperties
  <2>4. l \in [1..(n + 1) -> Seq(Byte)]
    BY <2>3, LenProperties
  <2>5. \A i \in 1..(n + 1) : l[i] = tt[i] \o sep
    BY <1>1, <1>2, <2>1, <2>3
  <2>6. l = [i \in 1..(n + 1) |-> tt[i] \o sep]
    BY <2>4, <2>5
  <2> QED
    BY <1>2, <2>1, <2>6 DEF Ended
<1>6. Glued(tt, sep) = FlattenSeq(Append(es, t))
  <2>1. PICK l : l = Append(es, t)
    OBVIOUS
  <2>3. /\ l \in Seq(Seq(Byte)) /\ Len(l) = n + 1 /\ l[n + 1] = t
        /\ \A i \in 1..n : l[i] = es[i]
    BY <1>3, <2>1, AppendProperties
  <2>4. l \in [1..(n + 1) -> Seq(Byte)]
    BY <2>3, LenProperties
  <2>5. \A i \in 1..(n + 1) : l[i] = tt[i] \o (IF i < n + 1 THEN sep ELSE <<>>)
    <3>1. \A i \in 1..n : l[i] = tt[i] \o sep /\ i < n + 1
      <4>1. \A i \in 1..n : l[i] = es[i]
        BY <2>3
      <4> QED
        BY <1>1, <1>2, <4>1
    <3>2. l[n + 1] = tt[n + 1] \o <<>> /\ ~(n + 1 < n + 1)
      BY <1>2, <2>3, ConcatEmptySeq
    <3> QED
      BY <1>2, <3>1, <3>2
  <2>6. l = [i \in 1..(n + 1) |-> tt[i] \o (IF i < n + 1 THEN sep ELSE <<>>)]
    BY <2>4, <2>5
  <2>7. DOMAIN tt = 1..(n + 1)
    BY <1>2
  <2> QED
    BY <1>2, <2>1, <2>6, <2>7 DEF Glued
<1>7. /\ FlattenSeq(es) \in Seq(Byte)
      /\ FlattenSeq(Append(es, t \o sep)) = FlattenSeq(es) \o (t \o sep)
      /\ FlattenSeq(Append(es, t)) = FlattenSeq(es) \o t
  <2>1. PICK ts : ts = t \o sep /\ ts \in Seq(Byte)
    BY <1>2
  <2> QED
    BY <1>3, <2>1, FlattenAppend
<1> QED
  BY <1>1, <1>4, <1>5, <1>6, <1>7

-----------------------------------------------------------------------------
(* Bytes of a text, and a separator among them.                            *)

\* The n bytes of s behind the first i.
IsPart(p, V, s, i, n) == p \in Seq(V) /\ Len(p) = n /\ \A k \in 1..n : p[k] = s[i + k]

LEMMA BytesAre ==
  ASSUME NEW V, NEW s \in Seq(V), NEW i \in Nat, NEW n \in Nat, i + n <= Len(s)
  PROVE  IsPart(Bytes(s, i, n), V, s, i, n)
<1>1. PICK a, b : a = i + 1 /\ b = i + n /\ a \in Nat /\ b \in Nat
  OBVIOUS
<1>2. \A k \in a..b : s[k] \in V
  BY <1>1
<1>3. SubSeq(s, a, b) \in Seq(V) /\ Len(SubSeq(s, a, b)) = IF a <= b THEN b - a + 1 ELSE 0
  BY <1>1, <1>2
<1> QED
  BY <1>1, <1>3 DEF Bytes, IsPart

LEMMA BytesType ==
  ASSUME NEW V, NEW s \in Seq(V), NEW i \in Nat, NEW n \in Nat, i + n <= Len(s)
  PROVE  Bytes(s, i, n) \in Seq(V) /\ Len(Bytes(s, i, n)) = n
BY BytesAre DEF IsPart

\* The bytes up to b, and those behind them.
LEMMA BytesJoin ==
  ASSUME NEW V, NEW s \in Seq(V), NEW b \in Nat, NEW n \in Nat, b + n <= Len(s)
  PROVE  SubSeq(s, 1, b) \o Bytes(s, b, n) = SubSeq(s, 1, b + n)
<1>1. /\ 1 \in 1..(Len(s) + 1) /\ b \in (1 - 1)..Len(s) /\ b + n \in b..Len(s)
  OBVIOUS
<1> QED
  BY <1>1, ConcatAdjacentSubSeq DEF Bytes

\* The part that ends at a separator, and that separator.
EndsPart(s, t, b, j) ==
  /\ j + Len(t) <= Len(s)
  /\ Bytes(s, b, j - b) \o t = Bytes(s, b, j + Len(t) - b)
  /\ SubSeq(s, 1, b) \o (Bytes(s, b, j - b) \o t) = SubSeq(s, 1, j + Len(t))

LEMMA BytesSep ==
  ASSUME NEW V, NEW s \in Seq(V), NEW t \in Seq(V), NEW b \in Nat, NEW j \in Nat,
         b <= j, Matches(s, j, t)
  PROVE  EndsPart(s, t, b, j)
<1>1. PICK e : e = j + Len(t)
  OBVIOUS
<1>2. e \in Nat /\ e <= Len(s) /\ j <= e /\ t = SubSeq(s, j + 1, e)
  BY <1>1 DEF Matches, Bytes
<1>3. b + 1 \in 1..(Len(s) + 1) /\ j \in ((b + 1) - 1)..Len(s) /\ e \in j..Len(s)
  BY <1>2
<1>4. SubSeq(s, b + 1, j) \o t = SubSeq(s, b + 1, e)
  BY <1>2, <1>3, ConcatAdjacentSubSeq
<1>5. b + (j - b) = j /\ b + (e - b) = e /\ e - b \in Nat
  BY <1>2
<1>6. Bytes(s, b, j - b) = SubSeq(s, b + 1, j) /\ Bytes(s, b, e - b) = SubSeq(s, b + 1, e)
  BY <1>5 DEF Bytes
<1>7. SubSeq(s, 1, b) \o Bytes(s, b, e - b) = SubSeq(s, 1, e)
  BY <1>2, <1>5, BytesJoin
<1>8. j + Len(t) <= Len(s) /\ j + Len(t) - b = e - b
  BY <1>1, <1>2
<1>9. Bytes(s, b, j - b) \o t = Bytes(s, b, e - b)
  BY <1>4, <1>6
<1>10. SubSeq(s, 1, b) \o (Bytes(s, b, j - b) \o t) = SubSeq(s, 1, j + Len(t))
  BY <1>1, <1>7, <1>9
<1> QED
  BY <1>8, <1>9, <1>10 DEF EndsPart

\* What is found among some bytes of a text is found in the text, and the other
\* way round.
LEMMA MatchesIn ==
  ASSUME NEW V, NEW s \in Seq(V), NEW t \in Seq(V), NEW b \in Nat, NEW n \in Nat,
         b + n <= Len(s), NEW j \in Nat
  PROVE  Matches(Bytes(s, b, n), j, t) <=> j + Len(t) <= n /\ Matches(s, b + j, t)
<1>1. PICK p, l : p = Bytes(s, b, n) /\ l = Len(t) /\ l \in Nat
  OBVIOUS
<1>2. p \in Seq(V) /\ Len(p) = n /\ \A k \in 1..n : p[k] = s[b + k]
  <2>1. IsPart(p, V, s, b, n)
    BY <1>1, BytesAre
  <2> QED
    BY <2>1 DEF IsPart
<1>3. j + l <= n => Bytes(p, j, l) = Bytes(s, b + j, l)
  <2> SUFFICES ASSUME j + l <= n
               PROVE  Bytes(p, j, l) = Bytes(s, b + j, l)
    OBVIOUS
  <2>0. PICK i : i = b + j
    OBVIOUS
  <2>1. PICK c, d : c = Bytes(p, j, l) /\ d = Bytes(s, i, l)
    OBVIOUS
  <2>2. c \in Seq(V) /\ Len(c) = l /\ \A k \in 1..l : c[k] = p[j + k]
    <3>1. j + l <= Len(p) /\ p \in Seq(V) /\ l \in Nat
      BY <1>1, <1>2
    <3>2. IsPart(c, V, p, j, l)
      BY <2>1, <3>1, BytesAre
    <3> QED
      BY <3>2 DEF IsPart
  <2>3. i \in Nat /\ i + l <= Len(s)
    BY <1>1, <2>0
  <2>4. d \in Seq(V) /\ Len(d) = l /\ \A k \in 1..l : d[k] = s[i + k]
    <3>1. l \in Nat
      BY <1>1
    <3>2. IsPart(d, V, s, i, l)
      BY <2>1, <2>3, <3>1, BytesAre
    <3> QED
      BY <3>2 DEF IsPart
  <2>5. \A k \in 1..l : c[k] = d[k]
    <3> TAKE k \in 1..l
    <3>1. j + k \in 1..n /\ b + (j + k) = i + k
      BY <1>1, <2>0
    <3> QED
      BY <1>2, <2>2, <2>4, <3>1
  <2> QED
    BY <2>0, <2>1, <2>2, <2>4, <2>5, SeqEqual
<1>4. j + l <= n => b + j + l <= Len(s)
  BY <1>1
<1> QED
  BY <1>1, <1>2, <1>3, <1>4 DEF Matches

\* A part that ends where the separator is first found is not cut again.
LEMMA PartUncut ==
  ASSUME NEW V, NEW s \in Seq(V), sep \in Seq(V), NEW b \in Nat, NEW j \in Nat,
         b <= j, Matches(s, j, sep), \A i \in b..(j - 1) : ~Matches(s, i, sep)
  PROVE  EndsFirst(Bytes(s, b, j - b), sep)
<1>1. PICK n, m, p : n = j - b /\ m = j + Len(sep) - b /\ p = Bytes(s, b, n)
  OBVIOUS
<1>2. n \in Nat /\ m \in Nat /\ Len(sep) \in Nat /\ m = n + Len(sep) /\ b + m = j + Len(sep)
  BY <1>1
<1>3. j + Len(sep) <= Len(s) /\ p \o sep = Bytes(s, b, m)
  <2>1. /\ j + Len(sep) <= Len(s)
        /\ Bytes(s, b, j - b) \o sep = Bytes(s, b, j + Len(sep) - b)
    <3>1. EndsPart(s, sep, b, j)
      BY BytesSep
    <3> QED
      BY <3>1 DEF EndsPart
  <2> QED
    BY <1>1, <2>1
<1>4. b + m <= Len(s) /\ b + n <= Len(s) /\ b + n = j
  BY <1>1, <1>2, <1>3
<1>5. Len(p) = n /\ Len(p \o sep) = m
  BY <1>1, <1>2, <1>3, <1>4, BytesType
<1>6. \A i \in Nat : Matches(p \o sep, i, sep) <=> i + Len(sep) <= m /\ Matches(s, b + i, sep)
  BY <1>2, <1>3, <1>4, MatchesIn
<1>7. PICK F : F = Found(p \o sep, 0, sep)
  OBVIOUS
<1>8. F \subseteq Nat
  BY <1>5, <1>7, <1>2 DEF Found
<1>9. n \in F
  <2>1. n \in 0..m /\ n + Len(sep) <= m
    BY <1>2
  <2>2. Matches(p \o sep, n, sep)
    BY <1>2, <1>4, <1>6, <2>1
  <2> QED
    BY <1>5, <1>7, <2>1, <2>2 DEF Found
<1>10. \A i \in F : n <= i
  <2> SUFFICES ASSUME NEW i \in F, i < n
               PROVE  FALSE
    BY <1>2, <1>8
  <2>1. i \in Nat /\ Matches(s, b + i, sep)
    <3>1. i \in Nat /\ Matches(p \o sep, i, sep)
      BY <1>7, <1>8 DEF Found
    <3> QED
      BY <1>6, <3>1
  <2>2. b + i \in b..(j - 1)
    BY <1>2, <1>4, <2>1
  <2> QED
    BY <2>1, <2>2
<1>11. Min(F) \in F /\ \A i \in F : Min(F) <= i
  <2>1. F # {}
    BY <1>9
  <2> QED
    BY <1>8, <2>1, Smallest
<1>12. Min(F) = n
  <2>1. PICK k : k = Min(F)
    OBVIOUS
  <2>2. k \in F /\ k <= n
    BY <1>9, <1>11, <2>1
  <2>3. k \in Nat /\ n <= k
    BY <1>8, <1>10, <2>2
  <2> QED
    BY <1>2, <2>1, <2>2, <2>3
<1> QED
  BY <1>1, <1>5, <1>7, <1>12 DEF EndsFirst

\* What strlen and strstr see is the beginning of the buffer, and a separator that
\* they find is there; without a NUL it is all of the buffer.
LEMMA CStringIs ==
  ASSUME src \in Seq(Byte)
  PROVE  /\ CString(src) \in Seq(Byte) /\ Len(CString(src)) <= Len(src)
         /\ \A i \in 1..Len(CString(src)) : CString(src)[i] = src[i]
         /\ NUL \notin ToSet(src) => CString(src) = src
<1>1. PICK ends : ends = {i \in DOMAIN src : src[i] = NUL}
  OBVIOUS
<1>2. CASE ends = {}
  BY <1>1, <1>2 DEF CString
<1>3. CASE ends # {}
  <2>1. ends \subseteq Nat
    BY <1>1
  <2>2. PICK m : m = Min(ends)
    OBVIOUS
  <2>3. m \in ends
    BY <1>3, <2>1, <2>2, Smallest
  <2>4. m \in 1..Len(src) /\ src[m] = NUL
    BY <1>1, <2>3
  <2>5. PICK c : c = SubSeq(src, 1, m - 1)
    OBVIOUS
  <2>6. CString(src) = c
    BY <1>1, <1>3, <2>2, <2>5 DEF CString
  <2>7. c \in Seq(Byte) /\ Len(c) = m - 1 /\ \A i \in 1..(m - 1) : c[i] = src[i]
    BY <2>4, <2>5
  <2>8. NUL \in ToSet(src)
    BY <2>4 DEF ToSet
  <2> QED
    BY <2>4, <2>6, <2>7, <2>8
<1> QED
  BY <1>2, <1>3

LEMMA CStringMatches ==
  ASSUME src \in Seq(Byte), sep \in Seq(Byte), NEW j \in Nat, Matches(CString(src), j, sep)
  PROVE  Matches(src, j, sep)
<1>1. PICK c, l : c = CString(src) /\ l = Len(sep) /\ l \in Nat
  OBVIOUS
<1>2. c \in Seq(Byte) /\ Len(c) <= Len(src) /\ \A i \in 1..Len(c) : c[i] = src[i]
  BY <1>1, CStringIs
<1>3. j + l <= Len(c) /\ Bytes(c, j, l) = sep
  BY <1>1 DEF Matches
<1>4. j + l <= Len(src)
  BY <1>1, <1>2, <1>3
<1>5. PICK b : b = Bytes(src, j, l)
  OBVIOUS
<1>6. b \in Seq(Byte) /\ Len(b) = l /\ \A k \in 1..l : b[k] = src[j + k]
  <2>1. l \in Nat
    BY <1>1
  <2>2. IsPart(b, Byte, src, j, l)
    BY <1>4, <1>5, <2>1, BytesAre
  <2> QED
    BY <2>2 DEF IsPart
<1>7. \A k \in 1..l : sep[k] = c[j + k]
  <2>1. l \in Nat /\ c \in Seq(Byte) /\ j + l <= Len(c)
    BY <1>1, <1>2, <1>3
  <2>2. \A k \in 1..l : Bytes(c, j, l)[k] = c[j + k]
    <3>1. IsPart(Bytes(c, j, l), Byte, c, j, l)
      BY <2>1, BytesAre
    <3> QED
      BY <3>1 DEF IsPart
  <2> QED
    BY <1>3, <2>2
<1>8. \A k \in 1..l : c[j + k] = src[j + k]
  <2> TAKE k \in 1..l
  <2>1. j + k \in 1..Len(c)
    BY <1>1, <1>2, <1>3
  <2> QED
    BY <1>2, <2>1
<1>9. b = sep
  BY <1>1, <1>6, <1>7, <1>8, SeqEqual
<1> QED
  BY <1>1, <1>4, <1>5, <1>9 DEF Matches

-----------------------------------------------------------------------------
(* What stx_join_len measures is what it writes.                           *)

\* totlen's sum, part by part.
LEMMA TotlenSteps ==
  ASSUME parts \in Seq(Seq(Byte)), sep \in Seq(Byte), NEW n, n = Len(parts), Count = n, n > 0
  PROVE  \E g \in [0..n -> Nat] :
           /\ g[0] = (n - 1) * Len(sep) /\ g[n] = totlen
           /\ \A i \in 1..n : g[i] = g[i - 1] + Len(parts[i])
<1>1. PICK x, l, step : /\ l = Len(sep) /\ x = (n - 1) * l
                        /\ step = [i \in 1..n |-> [v \in Nat |-> v + Len(parts[i])]]
  OBVIOUS
<1>2. /\ n \in Nat /\ x \in Nat /\ \A i \in 1..n : Len(parts[i]) \in Nat
      /\ \A i \in 1..n : i - 1 \in 0..n /\ i \in 0..n /\ i # 0
  <2>1. n \in Nat /\ l \in Nat /\ n - 1 \in Nat
    BY <1>1
  <2>2. \A a, b \in Nat : a * b \in Nat
    OBVIOUS
  <2>3. x \in Nat
    BY <1>1, <2>1, <2>2
  <2> QED
    BY <2>1, <2>3
<1>3. step \in [1..n -> [Nat -> Nat]]
  BY <1>1, <1>2
<1>4. PICK f : Recurs(f, n, Nat, x, step)
  BY <1>2, <1>3, Recursion
<1> DEFINE body(h) == [i \in 0..n |-> IF i = 0 THEN x ELSE h[i - 1] + Len(parts[i])]
           g == CHOOSE h : h = body(h)
<1>5. f = body(f)
  <2>1. f \in [0..n -> Nat] /\ f[0] = x /\ \A i \in 1..n : f[i] = step[i][f[i - 1]]
    BY <1>4 DEF Recurs
  <2>2. \A i \in 1..n : f[i] = f[i - 1] + Len(parts[i])
    BY <1>1, <1>2, <2>1
  <2>3. \A i \in 0..n : i = 0 \/ i \in 1..n
    BY <1>2
  <2> QED
    BY <2>1, <2>2, <2>3
<1>6. g = body(g)
  BY <1>5, Zenon
<1>7. totlen = g[n]
  BY <1>1, Zenon DEF totlen
<1> HIDE DEF g
<1>8. g[0] = x /\ \A i \in 1..n : g[i] = g[i - 1] + Len(parts[i])
  <2>1. \A i \in 0..n : g[i] = IF i = 0 THEN x ELSE g[i - 1] + Len(parts[i])
    BY <1>6
  <2>2. 0 \in 0..n
    BY <1>2
  <2> QED
    BY <1>2, <2>1, <2>2
<1>9. g \in [0..n -> Nat]
  <2> DEFINE S == {i \in 0..n : g[i] \in Nat}
  <2>1. 0 \in S
    BY <1>2, <1>8
  <2>2. \A i \in 1..n : i - 1 \in S => i \in S
    BY <1>2, <1>8
  <2> HIDE DEF S
  <2>3. InductiveTo(n, S)
    BY <2>1, <2>2 DEF InductiveTo
  <2>4. 0..n \subseteq S
    BY <1>2, <2>3, UpToInduction
  <2>5. \A i \in 0..n : g[i] \in Nat
    BY <2>4 DEF S
  <2> QED
    BY <1>6, <2>5
<1> QED
  BY <1>1, <1>7, <1>8, <1>9

\* The copies fill the block of totlen.
LEMMA Measure ==
  ASSUME parts \in Seq(Seq(Byte)), sep \in Seq(Byte), Count = Len(parts)
  PROVE  /\ Written = Glued(parts, sep) /\ Written \in Seq(Byte)
         /\ parts # <<>> => Len(Written) = totlen
<1>1. PICK n, l : n = Len(parts) /\ l = Len(sep)
  OBVIOUS
<1>2. /\ n \in Nat /\ l \in Nat /\ DOMAIN parts = 1..n /\ \A i \in 1..n : parts[i] \in Seq(Byte)
      /\ Count = n
  BY <1>1
<1>3. PICK ss : ss = [i \in 1..n |-> parts[i] \o (IF i < n THEN sep ELSE <<>>)]
  OBVIOUS
<1>4. ss \in Seq(Seq(Byte)) /\ Len(ss) = n
  <2>1. \A i \in 1..n : parts[i] \o (IF i < n THEN sep ELSE <<>>) \in Seq(Byte)
    BY <1>2
  <2> QED
    BY <1>2, <1>3, <2>1
<1>5. Written = FlattenSeq(ss) /\ Glued(parts, sep) = FlattenSeq(ss)
  <2>1. Written = FlattenSeq(ss)
    BY <1>2, <1>3, Zenon DEF Written
  <2>2. Glued(parts, sep) = FlattenSeq(ss)
    BY <1>1, <1>2, <1>3, Zenon DEF Glued
  <2> QED
    BY <2>1, <2>2
<1>6. PICK w : Steps(w, n, Byte, ss)
  BY <1>4, FlattenSteps
<1>7. Written = w[n]
  BY <1>4, <1>5, <1>6, FlattenIs
<1>8. w[n] \in Seq(Byte)
  BY <1>2, <1>6 DEF Steps
<1>9. ASSUME parts # <<>>
      PROVE  Len(Written) = totlen
  <2>1. n > 0
    BY <1>1, <1>9
  <2>2. PICK g \in [0..n -> Nat] :
           /\ g[0] = (n - 1) * l /\ g[n] = totlen
           /\ \A i \in 1..n : g[i] = g[i - 1] + Len(parts[i])
    BY <1>1, <1>2, <2>1, TotlenSteps
  <2> DEFINE S == {i \in 0..n : Len(w[i]) + (IF i < n THEN (n - 1 - i) * l ELSE 0) = g[i]}
  <2>3. 0 \in S
    <3>1. w[0] = <<>> /\ Len(<<>>) = 0 /\ n - 1 - 0 = n - 1 /\ 0 \in 0..n /\ 0 < n
      BY <1>2, <1>6, <2>1 DEF Steps
    <3>2. 0 + (n - 1) * l = g[0]
      BY <1>2, <2>2
    <3> QED
      BY <3>1, <3>2
  <2>4. \A i \in 1..n : i - 1 \in S => i \in S
    <3> SUFFICES ASSUME NEW i \in 1..n, i - 1 \in S
                 PROVE  i \in S
      OBVIOUS
    <3>1. PICK p, q, k : p = w[i - 1] /\ q = parts[i] /\ k = n - 1 - i
      OBVIOUS
    <3>2. i - 1 \in 0..n /\ i - 1 < n /\ p \in Seq(Byte) /\ q \in Seq(Byte)
      BY <1>2, <1>6, <3>1 DEF Steps
    <3>3. w[i] = p \o (q \o (IF i < n THEN sep ELSE <<>>))
      BY <1>3, <1>6, <3>1 DEF Steps
    <3>4. Len(w[i]) = Len(p) + (Len(q) + (IF i < n THEN l ELSE 0))
      BY <1>1, <3>2, <3>3
    <3>5. Len(p) + (n - 1 - (i - 1)) * l = g[i - 1] /\ g[i] = g[i - 1] + Len(q)
      BY <2>2, <3>1, <3>2
    <3>6. (n - 1 - (i - 1)) * l = k * l + l
      <4>1. n - 1 - (i - 1) = k + 1 /\ k \in Int
        BY <1>2, <3>1
      <4> QED
        BY <1>2, <4>1
    <3>7. ~(i < n) => k * l + l = 0
      <4>1. ~(i < n) => k = -1
        BY <1>2, <3>1
      <4> QED
        BY <1>2, <4>1
    <3>8. Len(p) \in Nat /\ Len(q) \in Nat /\ k * l \in Int
      BY <1>2, <3>1, <3>2
    <3>9. Len(w[i]) + (IF i < n THEN k * l ELSE 0) = g[i]
      <4>1. PICK kl, lp, lq, lw, gg : /\ kl = k * l /\ lp = Len(p) /\ lq = Len(q)
                                      /\ lw = Len(w[i]) /\ gg = g[i - 1]
        OBVIOUS
      <4>2. kl \in Int /\ lp \in Nat /\ lq \in Nat /\ gg \in Nat
        BY <2>2, <3>2, <3>8, <4>1
      <4>3. lp + (kl + l) = gg /\ g[i] = gg + lq
        BY <3>5, <3>6, <4>1
      <4>4. CASE i < n
        <5>1. lw = lp + (lq + l)
          BY <3>4, <4>1, <4>4
        <5>2. lw + kl = g[i]
          BY <1>2, <4>2, <4>3, <5>1
        <5> QED
          BY <4>1, <4>4, <5>2
      <4>5. CASE ~(i < n)
        <5>1. lw = lp + (lq + 0) /\ kl + l = 0
          BY <3>4, <3>7, <4>1, <4>5
        <5>2. lw + 0 = g[i]
          BY <1>2, <4>2, <4>3, <5>1
        <5> QED
          BY <4>1, <4>5, <5>2
      <4> QED
        BY <4>4, <4>5
    <3> QED
      BY <3>1, <3>9
  <2> HIDE DEF S
  <2>5. InductiveTo(n, S)
    BY <2>3, <2>4 DEF InductiveTo
  <2>6. n \in S
    BY <1>2, <2>5, UpToInduction
  <2>7. Len(w[n]) + 0 = g[n]
    <3>1. ~(n < n)
      BY <1>2
    <3>2. Len(w[n]) + (IF n < n THEN (n - 1 - n) * l ELSE 0) = g[n]
      BY <2>6 DEF S
    <3> QED
      BY <3>1, <3>2
  <2>8. Len(w[n]) \in Nat
    BY <1>8
  <2> QED
    BY <1>7, <2>2, <2>7, <2>8
<1> QED
  BY <1>5, <1>7, <1>8, <1>9

-----------------------------------------------------------------------------
(* Where the search is, what is allocated and whom a fault blames.         *)

LEMMA Constants ==
  /\ MaxFailures \in Nat /\ Libs \subseteq {"stx", "sds"}
  /\ LIST_LOCAL_MAX \in Nat /\ LIST_LOCAL_MAX >= 2
  /\ LIST_POOL_MAX \in Nat /\ LIST_POOL_MAX > LIST_LOCAL_MAX
  /\ \A s \in Seq(Byte) : s # NULL
  /\ \A s \in Seq(Seq(Byte) \cup {NULL}) : s # NULL
  /\ <<>> # NULL /\ <<>> \in Seq(Byte) /\ <<>> \in Seq(Seq(Byte) \cup {NULL})
<1>1. MaxFailures \in Nat /\ Libs \subseteq {"stx", "sds"}
  BY LibsAssumption
<1>2. NULL \notin Seq(Byte) /\ NULL \notin Seq(Seq(Byte) \cup {NULL})
  BY NullAssumption
<1>3. <<>> \in Seq(Byte) /\ <<>> \in Seq(Seq(Byte) \cup {NULL})
  OBVIOUS
<1>4. /\ LIST_LOCAL_MAX \in Nat /\ LIST_LOCAL_MAX >= 2
      /\ LIST_POOL_MAX \in Nat /\ LIST_POOL_MAX > LIST_LOCAL_MAX
  BY ListMaxAssumption
<1> QED
  BY <1>1, <1>2, <1>3, <1>4

\* A list without a part that is NULL.
LEMMA CompleteList ==
  ASSUME NEW l \in Seq(Seq(Byte) \cup {NULL})
  PROVE  NULL \notin ToSet(l) <=> l \in Seq(Seq(Byte))
<1>1. ASSUME NULL \notin ToSet(l)
      PROVE  l \in Seq(Seq(Byte))
  <2>1. \A i \in 1..Len(l) : l[i] \in Seq(Byte) \cup {NULL} /\ l[i] \in ToSet(l)
    BY DEF ToSet
  <2>2. \A i \in 1..Len(l) : l[i] \in Seq(Byte)
    BY <1>1, <2>1
  <2>3. l \in [1..Len(l) -> Seq(Byte)] /\ Len(l) \in Nat
    BY <2>2, LenProperties
  <2> QED
    BY <2>3, SeqDef
<1>2. ASSUME l \in Seq(Seq(Byte)), NULL \in ToSet(l)
      PROVE  FALSE
  <2>1. PICK i \in DOMAIN l : l[i] = NULL
    BY <1>2 DEF ToSet
  <2>2. l[i] \in Seq(Byte)
    BY <1>2, <2>1
  <2> QED
    BY <2>1, <2>2, Constants
<1> QED
  BY <1>1, <1>2

LEMMA Begins == Init => IInv
<1> SUFFICES ASSUME Init
             PROVE  IInv
  OBVIOUS
<1>1. PICK i \in Inputs : src = i.src /\ len = i.len /\ sep = i.sep
  BY DEF Init
<1>2. src \in Seq(Byte) /\ len \in 0..Len(src) /\ sep \in Seq(Byte \ {NUL})
  BY <1>1, InputsAssumption
<1>3. /\ pc = "call" /\ at = 0 /\ beg = 0 /\ parts = <<>> /\ slots = 0 /\ joined = NULL
      /\ list = "local" /\ live = 0 /\ failures = 0 /\ lib \in Libs
  BY DEF Init
<1>4. TypeOK
  BY <1>2, <1>3, Constants DEF TypeOK
<1>5. Complete
  BY <1>3 DEF Complete, ToSet
<1>6. PlaceOK /\ BlameOK /\ RoomOK /\ LiveOK
  BY <1>3, <1>5, Constants DEF PlaceOK, BlameOK, RoomOK, LiveOK
<1>7. TextOK
  BY <1>3 DEF TextOK, SearchOK, AnswerOK, BackOK
<1> QED
  BY <1>4, <1>6, <1>7 DEF IInv, BooksOK

\* What AddPart leaves, when the part is in the text.
LEMMA PartAdded ==
  ASSUME TypeOK, parts # NULL, NEW n \in Nat, beg + n <= Len(src), AddPart(n)
  PROVE  /\ parts' \in Seq(Seq(Byte) \cup {NULL}) /\ parts' # NULL /\ parts' # <<>>
         /\ Len(parts') = Len(parts) + 1 /\ live' \in Nat
         /\ failures' \in 0..MaxFailures /\ failures' >= failures
         /\ Complete' => Complete /\ live' = live + 1
         /\ ~Complete' => failures' > 0 \/ ~Complete
         /\ failures' = 0 => parts' = Append(parts, Bytes(src, beg, n))
<1>1. PICK p, l : p = Bytes(src, beg, n) /\ l = parts
  OBVIOUS
<1>2. l \in Seq(Seq(Byte) \cup {NULL}) /\ beg \in Nat /\ src \in Seq(Byte) /\ failures \in Nat
      /\ live \in Nat /\ failures \in 0..MaxFailures /\ MaxFailures \in Nat
  BY <1>1, Constants DEF TypeOK
<1>3. p \in Seq(Byte)
  BY <1>1, <1>2, BytesType
<1>4. PICK q : /\ parts' = Append(l, q) /\ q \in Seq(Byte) \cup {NULL}
               /\ \/ q = p /\ live' = live + 1 /\ failures' = failures
                  \/ q = NULL /\ live' = live /\ failures < MaxFailures /\ failures' = failures + 1
  BY <1>1, <1>3 DEF AddPart, Fails
<1>5. /\ parts' \in Seq(Seq(Byte) \cup {NULL}) /\ parts' # <<>> /\ Len(parts') = Len(l) + 1
      /\ \A i \in 1..Len(l) : parts'[i] = l[i]
      /\ parts'[Len(l) + 1] = q
  BY <1>2, <1>4, AppendProperties
<1>6. parts' # NULL
  BY <1>5, Constants
<1>7. ToSet(parts') = ToSet(l) \cup {q}
  <2>1. DOMAIN parts' = 1..(Len(l) + 1) /\ DOMAIN l = 1..Len(l) /\ Len(l) \in Nat
    BY <1>2, <1>5
  <2>2. \A x : x \in ToSet(parts') <=> x \in ToSet(l) \/ x = q
    BY <1>5, <2>1 DEF ToSet
  <2> QED
    BY <2>2
<1>8. Complete' <=> NULL \notin ToSet(parts')
  BY DEF Complete
<1>9. Complete <=> NULL \notin ToSet(l)
  BY <1>1 DEF Complete
<1>10. q = NULL => q # p
  BY <1>3, Constants
<1>11. Complete' <=> Complete /\ q # NULL
  BY <1>7, <1>8, <1>9
<1>12. /\ live' \in Nat /\ failures' \in 0..MaxFailures /\ failures' >= failures
       /\ q # NULL => live' = live + 1 /\ q = p
       /\ q = NULL => failures' > 0
  BY <1>2, <1>4, <1>10
<1>13. failures' = 0 => parts' = Append(parts, Bytes(src, beg, n))
  BY <1>1, <1>4, <1>12
<1>14. Len(parts') = Len(parts) + 1
  BY <1>1, <1>5
<1> QED
  BY <1>5, <1>6, <1>11, <1>12, <1>13, <1>14

\* One step per action.
LEMMA BooksStxCall == ASSUME BooksOK, StxCall  PROVE BooksOK'
<1> USE Constants DEF BooksOK, StxCall, input
<1>1. TypeOK'
  BY DEF TypeOK
<1>2. parts = <<>> /\ Complete /\ Len(parts) = 0
  BY DEF PlaceOK, Complete, ToSet
<1>3. sep # <<>> => parts' = parts /\ Complete' /\ pc' = "split"
  BY <1>2 DEF Complete
<1>4. sep = <<>> => parts' = NULL /\ pc' = "join"
  OBVIOUS
<1>5. 0 <= Len(CString(src))
  BY CStringIs DEF TypeOK
<1>6. PlaceOK'
  BY <1>2, <1>3, <1>4, <1>5 DEF PlaceOK
<1>7. BlameOK'
  BY <1>2, <1>3, <1>4 DEF BlameOK, Measured
<1>8. RoomOK'
  BY <1>2, <1>3, <1>4 DEF RoomOK
<1>9. LiveOK'
  BY <1>2, <1>3, <1>4 DEF LiveOK, PlaceOK, Grown, OnHeap
<1> QED
  BY <1>1, <1>6, <1>7, <1>8, <1>9

\* What strstr finds.
LEMMA Finds ==
  ASSUME TypeOK, Found(CString(src), at, sep) # {}
  PROVE  LET j == Min(Found(CString(src), at, sep)) IN
         /\ j \in Nat /\ at <= j /\ Matches(CString(src), j, sep) /\ Matches(src, j, sep)
         /\ j + Len(sep) <= Len(CString(src)) /\ Len(CString(src)) <= Len(src)
         /\ \A i \in at..(j - 1) : ~Matches(CString(src), i, sep)
<1>1. PICK c, F, j : c = CString(src) /\ F = Found(c, at, sep) /\ j = Min(F)
  OBVIOUS
<1>2. /\ src \in Seq(Byte) /\ sep \in Seq(Byte) /\ at \in Nat /\ c \in Seq(Byte)
      /\ Len(c) <= Len(src) /\ Len(src) \in Nat /\ Len(c) \in Nat
  BY <1>1, CStringIs DEF TypeOK
<1>3. \A i : i \in F <=> i \in at..Len(c) /\ Matches(c, i, sep)
  BY <1>1 DEF Found
<1>4. F \subseteq Nat /\ F # {}
  BY <1>1, <1>2, <1>3
<1>5. j \in F /\ \A i \in F : j <= i
  BY <1>1, <1>4, Smallest
<1>6. j \in Nat /\ at <= j /\ j <= Len(c) /\ Matches(c, j, sep)
  BY <1>2, <1>3, <1>4, <1>5
<1>7. j + Len(sep) <= Len(c)
  BY <1>6 DEF Matches
<1>8. Matches(src, j, sep)
  BY <1>1, <1>2, <1>6, CStringMatches
<1>9. \A i \in at..(j - 1) : ~Matches(c, i, sep)
  <2> TAKE i \in at..(j - 1)
  <2>1. i \in at..Len(c) /\ ~(j <= i)
    BY <1>2, <1>6
  <2> QED
    BY <1>3, <1>5, <2>1
<1> QED
  BY <1>1, <1>2, <1>6, <1>7, <1>8, <1>9

LEMMA BooksStxPart == ASSUME BooksOK, StxPart  PROVE BooksOK'
<1> USE DEF BooksOK
<1>1. PICK j, n : j = Min(Found(CString(src), at, sep)) /\ n = j - beg
  OBVIOUS
<1>2. /\ lib = "stx" /\ pc = "split" /\ pc' = "split" /\ AddPart(n)
      /\ at' = j + Len(sep) /\ beg' = j + Len(sep)
      /\ slots' = slots /\ list' = list /\ joined' = joined /\ UNCHANGED input
      /\ Found(CString(src), at, sep) # {} /\ ~ListCramped
  BY <1>1 DEF StxPart, Behind
<1>3. at = beg /\ parts # NULL /\ sep # <<>> /\ joined = NULL
  BY <1>2 DEF PlaceOK
<1>4. j \in Nat /\ at <= j /\ j + Len(sep) <= Len(CString(src)) /\ Len(CString(src)) <= Len(src)
  BY <1>1, <1>2, Finds
<1>5. beg \in Nat /\ Len(sep) \in Nat /\ n \in Nat /\ beg + n = j /\ j <= Len(src)
      /\ Len(src) \in Nat /\ Len(CString(src)) \in Nat
  <2>1. beg \in Nat /\ sep \in Seq(Byte) /\ src \in Seq(Byte) /\ CString(src) \in Seq(Byte)
    BY CStringIs DEF TypeOK
  <2>2. beg \in Nat /\ Len(sep) \in Nat /\ Len(src) \in Nat /\ Len(CString(src)) \in Nat
    BY <2>1
  <2> QED
    BY <1>1, <1>3, <1>4, <2>2
<1>6. /\ parts' \in Seq(Seq(Byte) \cup {NULL}) /\ parts' # NULL /\ parts' # <<>>
      /\ Len(parts') = Len(parts) + 1 /\ live' \in Nat
      /\ failures' \in 0..MaxFailures /\ failures' >= failures
      /\ Complete' => Complete /\ live' = live + 1
      /\ ~Complete' => failures' > 0 \/ ~Complete
  BY <1>2, <1>3, <1>5, PartAdded
<1>7. TypeOK'
  BY <1>2, <1>4, <1>5, <1>6 DEF TypeOK, input
<1>8. PlaceOK'
  BY <1>2, <1>3, <1>4, <1>6 DEF PlaceOK, input
<1>9. BlameOK'
  <2>1. failures \in Nat /\ failures' \in Nat
    BY <1>6 DEF TypeOK
  <2> QED
    BY <1>2, <1>3, <1>6, <2>1 DEF BlameOK, input
<1>10. RoomOK'
  <2>1. Len(parts) \in Nat /\ slots \in Nat
    BY <1>3 DEF TypeOK
  <2>2. Len(parts') + 2 <= slots
    BY <1>2, <1>6, <2>1 DEF ListCramped
  <2> QED
    BY <1>2, <1>6, <2>1, <2>2 DEF RoomOK, input
<1>11. LiveOK'
  <2>1. Len(parts) \in Nat /\ live \in Nat
    BY <1>3 DEF TypeOK
  <2>2. Grown' = Grown /\ Grown \in Nat
    BY <1>2 DEF Grown
  <2> QED
    BY <1>2, <1>6, <2>1, <2>2 DEF LiveOK, input
<1> QED
  BY <1>7, <1>8, <1>9, <1>10, <1>11

\* A list that has grown is as long as it was, and has room for a part again.
LEMMA BooksStxWiden == ASSUME BooksOK, StxWiden  PROVE BooksOK'
<1> USE DEF BooksOK
<1>1. /\ lib = "stx" /\ pc = "split" /\ UNCHANGED <<at, beg, joined, input>>
  BY DEF StxWiden
<1>2. /\ at = beg /\ parts # NULL /\ sep # <<>> /\ joined = NULL
      /\ Len(parts) + 2 <= slots /\ (list = "local" => slots = LIST_LOCAL_MAX)
      /\ Complete => live = Len(parts) + Grown
  BY <1>1 DEF PlaceOK, RoomOK, LiveOK
<1>3. /\ Len(parts) \in Nat /\ slots \in Nat /\ live \in Nat /\ failures \in Nat
      /\ failures \in 0..MaxFailures /\ list \in {"local", "pool", "dyn", "moved"}
  BY <1>2, Constants DEF TypeOK, OnHeap
<1>4. CASE /\ pc' = pc /\ parts' = parts /\ failures' = failures
           /\ slots' \in Nat /\ slots' > slots /\ list' # "local" /\ list' \in {"pool"} \cup OnHeap
           /\ live' \in Nat /\ (Complete => live' = Len(parts) + Grown')
  <2>1. Complete' <=> Complete
    BY <1>4 DEF Complete
  <2>2. TypeOK'
    BY <1>1, <1>3, <1>4 DEF TypeOK, input
  <2>3. PlaceOK' /\ BlameOK'
    BY <1>1, <1>2, <1>4, <2>1 DEF PlaceOK, BlameOK, input
  <2>4. RoomOK'
    BY <1>1, <1>2, <1>3, <1>4 DEF RoomOK, input
  <2>5. LiveOK'
    BY <1>1, <1>4, <2>1 DEF LiveOK, input
  <2> QED
    BY <2>2, <2>3, <2>4, <2>5
<1>5. CASE Fails /\ parts' = NULL /\ pc' = "join" /\ UNCHANGED <<slots, list, live>>
  <2>1. failures' > 0 /\ failures' \in 0..MaxFailures
    BY <1>3, <1>5, Constants DEF Fails
  <2>2. TypeOK'
    BY <1>1, <1>5, <2>1 DEF TypeOK, input
  <2>3. PlaceOK' /\ BlameOK' /\ RoomOK'
    BY <1>1, <1>2, <1>5, <2>1, Constants DEF PlaceOK, BlameOK, RoomOK, input
  <2>4. LiveOK'
    BY <1>1, <1>5 DEF LiveOK, input
  <2> QED
    BY <2>2, <2>3, <2>4
<1>6. list = "local" /\ list' = "pool" => Grown' = 0 /\ Grown = 0
  BY DEF Grown, OnHeap
<1>7. list = "pool" /\ list' = "dyn" => Grown' = 1 /\ Grown = 0
  BY DEF Grown, OnHeap
<1>8. list \in OnHeap /\ list' \in OnHeap => Grown' = 1 /\ Grown = 1 /\ list' # "local"
  BY DEF Grown, OnHeap
<1>9. CASE list = "local" /\ list' = "pool" /\ slots' = LIST_POOL_MAX
           /\ UNCHANGED <<pc, parts, live, failures>>
  BY <1>2, <1>3, <1>4, <1>6, <1>9, Constants
<1>10. CASE list = "pool" /\ list' = "dyn" /\ slots' = 2 * slots /\ live' = live + 1
            /\ UNCHANGED <<pc, parts, failures>>
  <2>1. slots' \in Nat /\ slots' > slots /\ live' \in Nat
        /\ (Complete => live' = Len(parts) + Grown')
    BY <1>2, <1>3, <1>7, <1>10
  <2>2. list' # "local" /\ list' \in {"pool"} \cup OnHeap
    BY <1>10 DEF OnHeap
  <2> QED
    BY <1>4, <1>10, <2>1, <2>2
<1>11. CASE list \in OnHeap /\ list' \in OnHeap /\ slots' = 2 * slots
            /\ UNCHANGED <<pc, parts, live, failures>>
  <2>1. slots' \in Nat /\ slots' > slots /\ live' \in Nat
        /\ (Complete => live' = Len(parts) + Grown')
    BY <1>2, <1>3, <1>8, <1>11
  <2> QED
    BY <1>4, <1>8, <1>11, <2>1
<1> QED
  BY <1>5, <1>9, <1>10, <1>11 DEF StxWiden

LEMMA BooksStxLast == ASSUME BooksOK, StxLast  PROVE BooksOK'
<1> USE DEF BooksOK
<1>1. lib = "stx" /\ pc = "split" /\ UNCHANGED input /\ at' = at /\ beg' = beg
      /\ slots' = slots /\ list' = list /\ joined' = joined
  BY DEF StxLast, Faults
<1>2. at = beg /\ parts # NULL /\ sep # <<>> /\ joined = NULL /\ beg <= Len(CString(src))
  BY <1>1 DEF PlaceOK
<1>3. beg \in Nat /\ len \in Nat /\ len <= Len(src) /\ Len(src) \in Nat /\ failures \in Nat
      /\ Len(CString(src)) \in Nat
  BY CStringIs DEF TypeOK
<1>4. CASE len >= beg /\ AddPart(len - beg) /\ pc' = "return"
  <2>1. PICK n : n = len - beg /\ n \in Nat /\ beg + n <= Len(src)
    BY <1>3, <1>4
  <2>2. /\ parts' \in Seq(Seq(Byte) \cup {NULL}) /\ parts' # NULL /\ parts' # <<>>
        /\ Len(parts') = Len(parts) + 1 /\ live' \in Nat
        /\ failures' \in 0..MaxFailures /\ failures' >= failures
        /\ Complete' => Complete /\ live' = live + 1
        /\ ~Complete' => failures' > 0 \/ ~Complete
    BY <1>2, <1>4, <2>1, PartAdded
  <2>3. TypeOK'
    BY <1>1, <1>4, <2>2 DEF TypeOK, input
  <2>4. PlaceOK'
    BY <1>1, <1>2, <1>4, <2>2 DEF PlaceOK, input
  <2>5. BlameOK'
    <3>1. failures' \in Nat
      BY <2>2
    <3> QED
      BY <1>1, <1>2, <1>3, <1>4, <2>2, <3>1 DEF BlameOK, input
  <2>6. RoomOK'
    <3>1. Len(parts) \in Nat /\ slots \in Nat /\ Len(parts) + 2 <= slots
      BY <1>1, <1>2 DEF RoomOK, TypeOK
    <3> QED
      BY <1>1, <1>4, <2>2, <3>1 DEF RoomOK, input
  <2>7. LiveOK'
    <3>1. Grown' = Grown /\ Grown \in Nat /\ Len(parts) \in Nat /\ live \in Nat
      BY <1>1, <1>2 DEF Grown, TypeOK
    <3> QED
      BY <1>1, <1>4, <2>2, <3>1 DEF LiveOK, input
  <2> QED
    BY <2>3, <2>4, <2>5, <2>6, <2>7
<1>5. CASE len < beg /\ pc' = "fault" /\ UNCHANGED <<parts, live, failures>>
  <2>1. ~Measured'
    BY <1>1, <1>2, <1>3, <1>5 DEF Measured, input
  <2>2. Complete' <=> Complete
    BY <1>5 DEF Complete
  <2>3. TypeOK'
    BY <1>1, <1>5 DEF TypeOK, input
  <2>4. PlaceOK' /\ BlameOK' /\ RoomOK' /\ LiveOK'
    BY <1>1, <1>2, <1>5, <2>1, <2>2 DEF PlaceOK, BlameOK, RoomOK, LiveOK, input
  <2> QED
    BY <2>3, <2>4
<1> QED
  BY <1>4, <1>5 DEF StxLast, Faults

LEMMA BooksStxReturn == ASSUME BooksOK, StxReturn  PROVE BooksOK'
<1> USE DEF BooksOK
<1>1. /\ lib = "stx" /\ pc = "return" /\ pc' = "join"
      /\ UNCHANGED <<at, beg, slots, list, joined, input>>
  BY DEF StxReturn
<1>2. /\ parts # NULL /\ parts # <<>> /\ joined = NULL /\ Len(parts) + 1 <= slots
      /\ Complete => live = Len(parts) + Grown
  BY <1>1 DEF PlaceOK, RoomOK, LiveOK
<1>3. /\ failures \in Nat /\ failures \in 0..MaxFailures /\ live \in Nat
      /\ Len(parts) \in Nat /\ slots \in Nat
  BY <1>2, Constants DEF TypeOK
<1>4. Listed = Len(parts) + 1
  BY <1>2 DEF Listed, Count
<1>5. CASE parts' = parts /\ failures' = failures /\ live' \in Nat
           /\ (Complete => live' = Listed + Lost)
  <2>1. (Complete' <=> Complete) /\ Listed' = Listed /\ Lost' = Lost
    BY <1>1, <1>5 DEF Complete, Listed, Count, Lost
  <2>2. TypeOK'
    BY <1>1, <1>5 DEF TypeOK, input
  <2>3. PlaceOK' /\ BlameOK' /\ RoomOK'
    BY <1>1, <1>2, <1>3, <1>5, <2>1 DEF PlaceOK, BlameOK, RoomOK, input
  <2>4. LiveOK'
    BY <1>1, <1>5, <2>1 DEF LiveOK, input
  <2> QED
    BY <2>2, <2>3, <2>4
<1>6. CASE parts' = NULL /\ Fails /\ live' = live
  <2>1. failures' > 0 /\ failures' \in 0..MaxFailures
    BY <1>3, <1>6, Constants DEF Fails
  <2>2. TypeOK'
    BY <1>1, <1>6, <2>1 DEF TypeOK, input
  <2>3. PlaceOK' /\ RoomOK'
    BY <1>1, <1>2, <1>6 DEF PlaceOK, RoomOK, input
  <2>5. BlameOK'
    BY <1>1, <1>6, <2>1, Constants DEF BlameOK
  <2>4. LiveOK'
    BY <1>1, <1>6 DEF LiveOK, input
  <2> QED
    BY <2>2, <2>3, <2>4, <2>5
<1>7. CASE list = "dyn" /\ UNCHANGED <<parts, live, failures>>
  <2>1. Grown = 1 /\ Lost = 0
    BY <1>7 DEF Grown, Lost, OnHeap
  <2> QED
    BY <1>2, <1>3, <1>4, <1>5, <1>7, <2>1
\* The copy is one array more: beside it is the one that moved, if any.
<1>8. CASE list # "dyn" /\ live' = live + 1 /\ UNCHANGED <<parts, failures>>
  <2>1. Grown = Lost /\ Lost \in Nat
    BY <1>8 DEF Grown, Lost, OnHeap
  <2>2. Complete => live' = Listed + Lost
    BY <1>2, <1>3, <1>4, <1>8, <2>1
  <2> QED
    BY <1>3, <1>5, <1>8, <2>2
<1> QED
  BY <1>6, <1>7, <1>8 DEF StxReturn

LEMMA BooksSdsCall == ASSUME BooksOK, SdsCall  PROVE BooksOK'
<1> USE Constants DEF BooksOK, SdsCall, Fails, input
<1>1. parts = <<>> /\ Complete /\ Len(parts) = 0 /\ live = 0 /\ at = 0 /\ beg = 0 /\ joined = NULL
      /\ list = "local" /\ list' = "local"
  BY DEF PlaceOK, Complete, ToSet
<1>2. /\ failures \in Nat /\ MaxFailures \in Nat /\ len \in Nat
  BY DEF TypeOK
<1>3. parts' = parts => Complete'
  BY <1>1 DEF Complete
<1>4. TypeOK'
  <2>1. /\ parts' \in {<<>>, NULL} /\ slots' \in Nat /\ live' \in Nat /\ at' = 0 /\ beg' = 0
        /\ pc' \in {"join", "split"} /\ joined' = NULL
    BY <1>1 DEF TypeOK
  <2>2. failures' \in 0..MaxFailures
    BY <1>2 DEF TypeOK
  <2> QED
    BY <2>1, <2>2 DEF TypeOK
<1>5. PlaceOK'
  BY <1>1, <1>2 DEF PlaceOK
<1>6. BlameOK'
  BY <1>1, <1>2, <1>3 DEF BlameOK
<1>7. RoomOK'
  BY <1>1 DEF RoomOK
<1>8. LiveOK'
  BY <1>1, <1>3 DEF LiveOK, Listed, Count, Lost
<1> QED
  BY <1>4, <1>5, <1>6, <1>7, <1>8

\* A token and its separator end within len, and what is searched is not empty.
LEMMA InReach ==
  ASSUME BooksOK, lib = "sds", pc = "split"
  PROVE  /\ beg \in Nat /\ at \in Nat /\ len \in Nat /\ Len(sep) \in Nat /\ Len(sep) > 0
         /\ beg <= at /\ at <= len /\ len <= Len(src) /\ 0 < len
         /\ Searching <=> at + Len(sep) <= len
         /\ parts \in Seq(Seq(Byte) \cup {NULL}) /\ parts # NULL /\ Len(parts) \in Nat
         /\ src \in Seq(Byte) /\ sep \in Seq(Byte) /\ sep # <<>> /\ joined = NULL
         /\ live = Len(parts) + 1 /\ Len(parts) + 1 <= slots /\ slots \in Nat
         /\ failures \in Nat /\ failures \in 0..MaxFailures /\ list = "local"
<1> USE DEF BooksOK
<1>1. src \in Seq(Byte) /\ sep \in Seq(Byte) /\ Len(src) \in Nat
  BY DEF TypeOK
<1>2. beg <= at /\ at <= len /\ parts # NULL /\ sep # <<>> /\ joined = NULL /\ 0 < len
      /\ list = "local"
  BY DEF PlaceOK
<1>3. Len(sep) \in Nat /\ Len(sep) > 0
  BY <1>1, <1>2
<1>4. beg \in Nat /\ at \in Nat /\ len \in Nat /\ len <= Len(src) /\ slots \in Nat
      /\ parts \in Seq(Seq(Byte) \cup {NULL}) /\ failures \in 0..MaxFailures
  BY <1>1, <1>2 DEF TypeOK
<1>5. Searching <=> at + Len(sep) <= len
  BY <1>3, <1>4 DEF Searching
<1>6. live = Len(parts) + 1 /\ Len(parts) + 1 <= slots
  BY DEF LiveOK, RoomOK
<1>7. Len(parts) \in Nat
  BY <1>4
<1>8. failures \in Nat
  BY <1>4, Constants
<1> QED
  BY <1>1, <1>2, <1>3, <1>4, <1>5, <1>6, <1>7, <1>8

\* One token more.
LEMMA TokenAdded ==
  ASSUME parts \in Seq(Seq(Byte) \cup {NULL}), NEW p \in Seq(Byte), parts' = Append(parts, p)
  PROVE  /\ parts' \in Seq(Seq(Byte) \cup {NULL}) /\ parts' # NULL /\ parts' # <<>>
         /\ Len(parts') = Len(parts) + 1
         /\ Complete' <=> Complete
<1>1. /\ parts' \in Seq(Seq(Byte) \cup {NULL}) /\ parts' # <<>> /\ Len(parts') = Len(parts) + 1
      /\ \A i \in 1..Len(parts) : parts'[i] = parts[i]
      /\ parts'[Len(parts) + 1] = p
  BY AppendProperties
<1>2. ToSet(parts') = ToSet(parts) \cup {p}
  <2>1. DOMAIN parts' = 1..(Len(parts) + 1) /\ DOMAIN parts = 1..Len(parts) /\ Len(parts) \in Nat
    BY <1>1
  <2>2. \A x : x \in ToSet(parts') <=> x \in ToSet(parts) \/ x = p
    BY <1>1, <2>1 DEF ToSet
  <2> QED
    BY <2>2
<1>3. p # NULL /\ parts' # NULL
  BY <1>1, Constants
<1>4. Complete' <=> NULL \notin ToSet(parts')
  BY DEF Complete
<1> QED
  BY <1>1, <1>2, <1>3, <1>4 DEF Complete

LEMMA BooksSdsTurn == ASSUME BooksOK, SdsTurn  PROVE BooksOK'
<1> USE DEF BooksOK
<1>1. /\ lib = "sds" /\ pc = "split" /\ pc' = "split" /\ UNCHANGED input /\ joined' = joined
      /\ list' = list /\ failures' = failures /\ Searching
      /\ slots' = IF Cramped THEN 2 * slots ELSE slots
  BY DEF SdsTurn, Searching
<1>2. /\ beg \in Nat /\ at \in Nat /\ len \in Nat /\ Len(sep) \in Nat /\ Len(sep) > 0
      /\ beg <= at /\ at <= len /\ len <= Len(src) /\ 0 < len /\ at + Len(sep) <= len
      /\ parts \in Seq(Seq(Byte) \cup {NULL}) /\ parts # NULL /\ Len(parts) \in Nat
      /\ src \in Seq(Byte) /\ sep # <<>> /\ joined = NULL
      /\ live = Len(parts) + 1 /\ Len(parts) + 1 <= slots /\ slots \in Nat
  BY <1>1, InReach
<1>3. slots' \in Nat /\ Len(parts) + 2 <= slots'
  BY <1>1, <1>2 DEF Cramped
<1>4. CASE at' = at + 1 /\ UNCHANGED <<beg, parts, live>>
  <2>1. at' \in Nat /\ at' <= len /\ beg <= at'
    BY <1>2, <1>4
  <2>2. Complete' <=> Complete
    BY <1>4 DEF Complete
  <2>3. TypeOK'
    BY <1>1, <1>3, <1>4, <2>1 DEF TypeOK, input
  <2>4. PlaceOK'
    BY <1>1, <1>2, <1>4, <2>1 DEF PlaceOK, input
  <2>5. BlameOK'
    BY <1>1, <1>2, <1>4, <2>2 DEF BlameOK
  <2>6. RoomOK'
    BY <1>1, <1>2, <1>3, <1>4 DEF RoomOK, input
  <2>7. LiveOK'
    BY <1>1, <1>2, <1>4 DEF LiveOK, input
  <2> QED
    BY <2>3, <2>4, <2>5, <2>6, <2>7
<1>5. CASE /\ parts' = Append(parts, Bytes(src, beg, at - beg)) /\ live' = live + 1
           /\ at' = at + Len(sep) /\ beg' = at + Len(sep)
  <2>1. PICK n, p : n = at - beg /\ n \in Nat /\ beg + n <= Len(src) /\ p = Bytes(src, beg, n)
    BY <1>2
  <2>2. p \in Seq(Byte)
    BY <1>2, <2>1, BytesType
  <2>3. parts' = Append(parts, p)
    BY <1>5, <2>1
  <2>4. /\ parts' \in Seq(Seq(Byte) \cup {NULL}) /\ parts' # NULL /\ parts' # <<>>
        /\ Len(parts') = Len(parts) + 1 /\ (Complete' <=> Complete)
    BY <1>2, <2>2, <2>3, TokenAdded
  <2>5. at' \in Nat /\ at' <= len /\ beg' = at' /\ live' \in Nat
    BY <1>2, <1>5
  <2>6. TypeOK'
    BY <1>1, <1>3, <2>4, <2>5 DEF TypeOK, input
  <2>7. PlaceOK'
    BY <1>1, <1>2, <2>4, <2>5 DEF PlaceOK, input
  <2>8. BlameOK'
    BY <1>1, <1>2, <2>4 DEF BlameOK
  <2>9. RoomOK'
    BY <1>1, <1>2, <1>3, <2>4 DEF RoomOK, input
  <2>10. LiveOK'
    BY <1>1, <1>2, <1>5, <2>4 DEF LiveOK, input
  <2> QED
    BY <2>6, <2>7, <2>8, <2>9, <2>10
<1> QED
  BY <1>4, <1>5 DEF SdsTurn, Onward, Behind

\* cleanup leaves nothing.
LEMMA BooksCleanup ==
  ASSUME BooksOK, lib = "sds", pc = "split", Cleanup
  PROVE  BooksOK'
<1> USE DEF BooksOK
<1>1. /\ live = Len(parts) + 1 /\ Len(parts) \in Nat /\ failures \in Nat /\ joined = NULL
      /\ parts # NULL /\ failures \in 0..MaxFailures /\ list = "local"
  BY InReach
<1>2. /\ failures < MaxFailures /\ failures' = failures + 1 /\ live' = live - (Len(parts) + 1)
      /\ parts' = NULL /\ pc' = "join" /\ UNCHANGED <<at, beg, slots, list, joined, input>>
  BY DEF Cleanup, Fails, Freed
<1>3. live' = 0 /\ failures' > 0 /\ failures' \in 0..MaxFailures
  BY <1>1, <1>2, Constants
<1>4. TypeOK'
  BY <1>2, <1>3 DEF TypeOK, input
<1>5. PlaceOK'
  BY <1>1, <1>2 DEF PlaceOK, input
<1>6. BlameOK' /\ RoomOK'
  BY <1>2, <1>3 DEF BlameOK, RoomOK, input
<1>7. LiveOK'
  BY <1>1, <1>2, <1>3 DEF LiveOK, Listed, Lost
<1> QED
  BY <1>4, <1>5, <1>6, <1>7

LEMMA BooksSdsLast == ASSUME BooksOK, SdsLast  PROVE BooksOK'
<1>1. lib = "sds" /\ pc = "split"
  BY DEF SdsLast
<1>2. CASE Cleanup
  BY <1>1, <1>2, BooksCleanup
<1>3. CASE /\ parts' = Append(parts, Bytes(src, beg, len - beg)) /\ live' = live + 1
           /\ pc' = "join" /\ UNCHANGED <<at, beg, slots, list, joined, failures, input>>
  <2> USE DEF BooksOK
  <2>1. /\ beg \in Nat /\ len \in Nat /\ beg <= at /\ at <= len /\ len <= Len(src) /\ at \in Nat
        /\ parts \in Seq(Seq(Byte) \cup {NULL}) /\ parts # NULL /\ Len(parts) \in Nat
        /\ src \in Seq(Byte) /\ sep # <<>> /\ joined = NULL
        /\ live = Len(parts) + 1 /\ Len(parts) + 1 <= slots /\ slots \in Nat /\ list = "local"
    BY <1>1, InReach
  <2>2. PICK n, p : n = len - beg /\ n \in Nat /\ beg + n <= Len(src) /\ p = Bytes(src, beg, n)
    BY <2>1
  <2>3. p \in Seq(Byte)
    BY <2>1, <2>2, BytesType
  <2>4. parts' = Append(parts, p)
    BY <1>3, <2>2
  <2>5. /\ parts' \in Seq(Seq(Byte) \cup {NULL}) /\ parts' # NULL /\ parts' # <<>>
        /\ Len(parts') = Len(parts) + 1 /\ (Complete' <=> Complete)
    BY <2>1, <2>3, <2>4, TokenAdded
  <2>6. TypeOK'
    BY <1>3, <2>1, <2>5 DEF TypeOK, input
  <2>7. PlaceOK'
    BY <1>1, <1>3, <2>1, <2>5 DEF PlaceOK, input
  <2>8. BlameOK' /\ RoomOK'
    BY <1>1, <1>3, <2>1, <2>5 DEF BlameOK, RoomOK, input
  <2>9. LiveOK'
    BY <1>1, <1>3, <2>1, <2>5 DEF LiveOK, Listed, Count, Lost, input
  <2> QED
    BY <2>6, <2>7, <2>8, <2>9
<1> QED
  BY <1>2, <1>3 DEF SdsLast

LEMMA BooksTurnFails == ASSUME BooksOK, SdsTurn_fails  PROVE BooksOK'
<1>1. lib = "sds" /\ pc = "split" /\ Cleanup
  BY DEF SdsTurn_fails, Searching
<1> QED
  BY <1>1, BooksCleanup

LEMMA BooksJoinFaults == ASSUME BooksOK, StxJoin_faults  PROVE BooksOK'
<1> USE DEF BooksOK
<1>1. /\ lib = "stx" /\ pc = "join" /\ pc' = "fault"
      /\ UNCHANGED <<at, beg, slots, list, parts, joined, live, input>>
      /\ \/ Count = 0 /\ failures' = failures
         \/ NULL \in ToSet(parts) /\ Count > 0 /\ failures' = failures
         \/ failures < MaxFailures /\ failures' = failures + 1
  BY DEF StxJoin_faults, Faults, Fails
<1>2. parts # <<>> /\ joined = NULL /\ failures \in Nat /\ MaxFailures \in Nat
      /\ failures \in 0..MaxFailures
  BY <1>1, Constants DEF BlameOK, PlaceOK, TypeOK
<1>3. Count = 0 => parts = NULL
  BY <1>2 DEF Count, TypeOK
<1>4. Count > 0 => parts # NULL
  BY DEF Count
<1>5. failures' > 0 \/ sep = <<>>
  BY <1>1, <1>2, <1>3, <1>4 DEF BlameOK, Complete
<1>6. failures' \in 0..MaxFailures /\ failures' >= failures
  BY <1>1, <1>2
<1>7. TypeOK'
  BY <1>1, <1>6 DEF TypeOK, input
<1>8. PlaceOK'
  BY <1>1, <1>2 DEF PlaceOK, input
<1>9. Complete' <=> Complete
  BY <1>1 DEF Complete
<1>10. BlameOK'
  BY <1>1, <1>2, <1>5, <1>6, <1>9 DEF BlameOK, input
<1>11. RoomOK' /\ LiveOK'
  BY <1>1 DEF RoomOK, LiveOK, input
<1> QED
  BY <1>7, <1>8, <1>10, <1>11

\* What is joined is right, and counted.
LEMMA Joins ==
  ASSUME BooksOK, pc = "join", parts # NULL, Complete
  PROVE  /\ parts \in Seq(Seq(Byte)) /\ sep \in Seq(Byte) /\ Count = Len(parts)
         /\ Written = Glued(parts, sep) /\ Written \in Seq(Byte)
         /\ parts # <<>> => Len(Written) = totlen
         /\ live = Listed + Lost /\ live \in Nat
<1> USE DEF BooksOK
<1>1. parts \in Seq(Seq(Byte))
  BY CompleteList DEF TypeOK, Complete
<1>2. sep \in Seq(Byte) /\ Count = Len(parts)
  BY DEF TypeOK, Count
<1>3. live = Listed + Lost /\ live \in Nat
  BY DEF LiveOK, TypeOK
<1> QED
  BY <1>1, <1>2, <1>3, Measure

\* stx_join_len writes all of its block, and nothing else.
LEMMA StxJoined ==
  ASSUME BooksOK, StxJoin
  PROVE  /\ lib = "stx" /\ pc = "join" /\ parts # NULL /\ Complete /\ parts # <<>>
         /\ pc' = "free" /\ joined' = Written /\ Written \in Seq(Byte)
         /\ live = Listed + Lost /\ live \in Nat /\ live' = live + 1
         /\ UNCHANGED <<at, beg, parts, slots, list, failures, input>>
<1>1. lib = "stx" /\ pc = "join" /\ Count > 0 /\ NULL \notin ToSet(parts) /\ failures' = failures
  BY DEF StxJoin
<1>2. parts # NULL /\ Complete /\ parts # <<>>
  BY <1>1 DEF Count, Complete, BooksOK, BlameOK
<1>3. Written \in Seq(Byte) /\ Len(Written) = totlen /\ live = Listed + Lost /\ live \in Nat
  BY <1>1, <1>2, Joins
<1>4. /\ pc' = "free" /\ live' = live + 1
      /\ joined' = Written \o [i \in 1..(totlen - Len(Written)) |-> Junk]
      /\ UNCHANGED <<at, beg, parts, slots, list, input>>
  <2>1. Len(Written) <= totlen /\ ~(Len(Written) > totlen)
    BY <1>3
  <2> QED
    BY <2>1 DEF StxJoin
<1>5. joined' = Written
  <2>1. PICK w : w = Written
    OBVIOUS
  <2>2. totlen - Len(w) = 0 /\ w \in Seq(Byte)
    BY <1>3, <2>1
  <2>3. joined' = w \o [i \in 1..0 |-> Junk]
    BY <1>4, <2>1, <2>2
  <2>4. [i \in 1..0 |-> Junk] = <<>>
    OBVIOUS
  <2> QED
    BY <2>1, <2>2, <2>3, <2>4, ConcatEmptySeq
<1> QED
  BY <1>1, <1>2, <1>3, <1>4, <1>5

LEMMA BooksStxJoin == ASSUME BooksOK, StxJoin  PROVE BooksOK'
<1>1. /\ lib = "stx" /\ pc = "join" /\ parts # NULL /\ Complete /\ parts # <<>>
      /\ pc' = "free" /\ joined' = Written /\ Written \in Seq(Byte)
      /\ live = Listed + Lost /\ live \in Nat /\ live' = live + 1
      /\ UNCHANGED <<at, beg, parts, slots, list, failures, input>>
  BY StxJoined
<1> USE DEF BooksOK
<1>2. TypeOK'
  BY <1>1 DEF TypeOK, input
<1>3. Complete' <=> Complete
  BY <1>1 DEF Complete
<1>4. PlaceOK' /\ BlameOK'
  BY <1>1, <1>3 DEF PlaceOK, BlameOK, input
<1>5. RoomOK'
  BY <1>1 DEF RoomOK, input
<1>6. Listed' = Listed /\ Lost' = Lost /\ Listed \in Nat /\ Lost \in Nat
  BY <1>1 DEF Listed, Count, Lost, TypeOK
<1>7. live' = Listed + 1 + Lost /\ live' >= Listed
  BY <1>1, <1>6
<1>8. LiveOK'
  BY <1>1, <1>6, <1>7 DEF LiveOK
<1> QED
  BY <1>2, <1>4, <1>5, <1>8

LEMMA BooksSdsJoin == ASSUME BooksOK, SdsJoin  PROVE BooksOK'
<1> USE DEF BooksOK
<1>1. /\ lib = "sds" /\ pc = "join" /\ UNCHANGED <<at, beg, parts, slots, list, input>>
      /\ \/ joined' = Written /\ pc' = "free" /\ live' = live + 1 /\ failures' = failures
         \/ /\ failures < MaxFailures /\ failures' = failures + 1 /\ pc' = "free"
            /\ (live' = live \/ live' = live + 1) /\ joined' = joined
         \/ /\ failures < MaxFailures /\ failures' = failures + 1 /\ pc' = "fault"
            /\ UNCHANGED <<joined, live>>
  BY DEF SdsJoin, Fails, Faults
<1>2. live = Listed /\ live \in Nat /\ joined = NULL /\ failures \in Nat /\ failures \in 0..MaxFailures
      /\ list = "local" /\ Lost = 0 /\ Lost' = 0
  <2>1. list = "local" /\ Lost = 0 /\ Lost' = 0
    BY <1>1 DEF PlaceOK, Lost
  <2>2. Listed \in Nat
    BY DEF Listed, Count, TypeOK
  <2> QED
    BY <1>1, <2>1, <2>2, Constants DEF LiveOK, TypeOK, PlaceOK
<1>3. failures' \in 0..MaxFailures /\ failures' \in Nat /\ failures' >= failures
      /\ (pc' = "fault" => failures' > 0) /\ live' \in Nat
  BY <1>1, <1>2, Constants
<1>4. joined' = Written => joined' \in Seq(Byte)
  <2>1. CASE parts # NULL /\ Complete
    BY <1>1, <2>1, Joins
  <2>2. CASE parts = NULL
    <3>1. [i \in 1..Count |-> parts[i] \o (IF i < Count THEN sep ELSE <<>>)] = <<>>
      BY <2>2 DEF Count
    <3>2. Written = <<>>
      BY <3>1 DEF Written, FlattenSeq
    <3> QED
      BY <3>2
  <2>3. CASE parts # NULL /\ ~Complete
    BY <1>1, <2>3 DEF BlameOK
  <2> QED
    BY <2>1, <2>2, <2>3
<1>5. TypeOK'
  BY <1>1, <1>2, <1>3, <1>4 DEF TypeOK, input
<1>6. Complete' <=> Complete
  BY <1>1 DEF Complete
<1>7. PlaceOK'
  BY <1>1, <1>2 DEF PlaceOK, input
<1>8. BlameOK'
  BY <1>1, <1>2, <1>3, <1>6 DEF BlameOK, input
<1>9. RoomOK'
  BY <1>1 DEF RoomOK, input
<1>10. Listed' = Listed
  BY <1>1 DEF Listed, Count
<1>11. LiveOK'
  <2>1. pc' = "free" => live' >= Listed'
    BY <1>1, <1>2, <1>3, <1>10
  <2>2. pc' = "free" /\ joined' # NULL => live' = Listed' + 1 + Lost'
    BY <1>1, <1>2, <1>10
  <2> QED
    BY <1>1, <2>1, <2>2 DEF LiveOK, input
<1> QED
  BY <1>5, <1>7, <1>8, <1>9, <1>11

LEMMA BooksFree == ASSUME BooksOK, Free  PROVE BooksOK'
<1> USE DEF BooksOK
<1>1. /\ pc = "free" /\ pc' = "done" /\ live' = live - Listed /\ parts' = NULL
      /\ UNCHANGED <<at, beg, slots, list, joined, failures, input>>
  BY DEF Free
<1>2. Listed \in Nat
  <2>1. Count \in Nat
    BY DEF Count, TypeOK
  <2> QED
    BY <2>1 DEF Listed
<1>3. live \in Nat /\ live >= Listed /\ (joined # NULL => live = Listed + 1 + Lost)
      /\ Lost \in Nat /\ Lost' = Lost
  BY <1>1 DEF LiveOK, TypeOK, Lost
<1>4. live' \in Nat /\ (joined # NULL => live' = 1 + Lost)
  BY <1>1, <1>2, <1>3
<1>5. TypeOK'
  BY <1>1, <1>4 DEF TypeOK, input
<1>6. PlaceOK' /\ BlameOK' /\ RoomOK'
  BY <1>1 DEF PlaceOK, BlameOK, RoomOK, input
<1>7. LiveOK'
  BY <1>1, <1>3, <1>4 DEF LiveOK
<1> QED
  BY <1>5, <1>6, <1>7

LEMMA BooksKept == ASSUME BooksOK, [Next]_vars  PROVE BooksOK'
<1>1. CASE Step
  BY <1>1, BooksStxCall, BooksStxWiden, BooksStxPart, BooksStxLast, BooksStxReturn, BooksSdsCall,
     BooksSdsTurn, BooksTurnFails, BooksSdsLast, BooksJoinFaults, BooksStxJoin,
     BooksSdsJoin, BooksFree DEF Step
<1>2. CASE UNCHANGED vars
  <2>1. Complete' <=> Complete
    BY <1>2 DEF Complete, vars
  <2>2. Listed' = Listed /\ Grown' = Grown /\ Lost' = Lost /\ (Measured' <=> Measured)
    BY <1>2 DEF Listed, Grown, Lost, Count, Measured, vars, input
  <2>3. TypeOK' /\ PlaceOK'
    BY <1>2 DEF BooksOK, TypeOK, PlaceOK, vars, input
  <2>4. BlameOK' /\ RoomOK' /\ LiveOK'
    BY <1>2, <2>1, <2>2 DEF BooksOK, BlameOK, RoomOK, LiveOK, vars, input
  <2> QED
    BY <2>3, <2>4 DEF BooksOK
<1> QED
  BY <1>1, <1>2 DEF Next

-----------------------------------------------------------------------------
(* What the parts and the joined text say.                                 *)

\* The list is there and has no part that is NULL.
LEMMA CleanList ==
  ASSUME BooksOK, Cleanly, pc \in {"call", "split", "return", "join"}
  PROVE  /\ parts \in Seq(Seq(Byte)) /\ parts # NULL /\ Complete /\ Len(parts) \in Nat
         /\ src \in Seq(Byte) /\ sep \in Seq(Byte) /\ len \in Nat /\ len <= Len(src)
         /\ beg \in Nat /\ at \in Nat
<1>1. parts # NULL
  BY Constants DEF BooksOK, PlaceOK, BlameOK, Cleanly
<1>2. Complete /\ parts \in Seq(Seq(Byte) \cup {NULL})
  BY <1>1 DEF BooksOK, BlameOK, TypeOK, Cleanly
<1>3. parts \in Seq(Seq(Byte))
  BY <1>2, CompleteList DEF Complete
<1>4. src \in Seq(Byte) /\ sep \in Seq(Byte) /\ len \in Nat /\ len <= Len(src) /\ beg \in Nat /\ at \in Nat
  BY DEF BooksOK, TypeOK
<1> QED
  BY <1>1, <1>2, <1>3, <1>4

\* No part yet, and nothing of the text.
LEMMA NoneEnded ==
  ASSUME NEW t, NEW s
  PROVE  Ended(<<>>, t) = SubSeq(s, 1, 0) /\ Glued(<<>>, t) = SubSeq(s, 1, 0)
<1>1. [i \in 1..Len(<<>>) |-> <<>>[i] \o t] = <<>>
  OBVIOUS
<1>2. [i \in DOMAIN <<>> |-> <<>>[i] \o (IF i < Len(<<>>) THEN t ELSE <<>>)] = <<>>
  OBVIOUS
<1>3. FlattenSeq(<<>>) = <<>>
  BY DEF FlattenSeq
<1>4. SubSeq(s, 1, 0) = <<>>
  BY SubSeqEmpty
<1> QED
  BY <1>1, <1>2, <1>3, <1>4 DEF Ended, Glued

\* A part and its separator.
LEMMA PartEnds ==
  ASSUME parts \in Seq(Seq(Byte)), src \in Seq(Byte), sep \in Seq(Byte), beg \in Nat,
         Ended(parts, sep) = SubSeq(src, 1, beg), NEW j \in Nat, beg <= j, Matches(src, j, sep),
         NEW l, l = Append(parts, Bytes(src, beg, j - beg))
  PROVE  /\ Ended(l, sep) = SubSeq(src, 1, j + Len(sep))
         /\ /\ \A i \in 1..Len(parts) : EndsFirst(parts[i], sep)
            /\ \A i \in beg..(j - 1) : ~Matches(src, i, sep)
            => \A i \in 1..Len(l) : EndsFirst(l[i], sep)
<1>1. PICK n, p : n = j - beg /\ n \in Nat /\ p = Bytes(src, beg, n) /\ l = Append(parts, p)
  OBVIOUS
<1>2. /\ j + Len(sep) <= Len(src)
      /\ SubSeq(src, 1, beg) \o (Bytes(src, beg, j - beg) \o sep) = SubSeq(src, 1, j + Len(sep))
  <2>1. EndsPart(src, sep, beg, j)
    BY BytesSep
  <2> QED
    BY <2>1 DEF EndsPart
<1>3. beg + n <= Len(src)
  BY <1>1, <1>2
<1>4. p \in Seq(Byte)
  BY <1>1, <1>3, BytesType
<1>5. Ended(l, sep) = Ended(parts, sep) \o (p \o sep)
  BY <1>1, <1>4, GlueAppend
<1>6. Ended(l, sep) = SubSeq(src, 1, j + Len(sep))
  BY <1>1, <1>2, <1>5
<1>7. ASSUME \A i \in 1..Len(parts) : EndsFirst(parts[i], sep),
             \A i \in beg..(j - 1) : ~Matches(src, i, sep)
      PROVE  \A i \in 1..Len(l) : EndsFirst(l[i], sep)
  <2>1. EndsFirst(Bytes(src, beg, j - beg), sep)
    BY <1>7, PartUncut
  <2>2. EndsFirst(p, sep)
    BY <1>1, <2>1
  <2>3. /\ Len(l) = Len(parts) + 1 /\ l[Len(parts) + 1] = p /\ Len(parts) \in Nat
        /\ \A i \in 1..Len(parts) : l[i] = parts[i]
    BY <1>1, <1>4, AppendProperties
  <2> TAKE i \in 1..Len(l)
  <2>4. i \in 1..Len(parts) \/ i = Len(parts) + 1
    BY <2>3
  <2> QED
    BY <1>7, <2>2, <2>3, <2>4
<1> QED
  BY <1>6, <1>7

\* What is behind the last separator.
LEMMA PartLast ==
  ASSUME parts \in Seq(Seq(Byte)), src \in Seq(Byte), sep \in Seq(Byte), beg \in Nat, len \in Nat,
         beg <= len, len <= Len(src), Ended(parts, sep) = SubSeq(src, 1, beg),
         NEW l, l = Append(parts, Bytes(src, beg, len - beg))
  PROVE  /\ Glued(l, sep) = SubSeq(src, 1, len)
         /\ /\ \A i \in 1..Len(parts) : EndsFirst(parts[i], sep)
            /\ \A i \in Nat : beg <= i /\ i + Len(sep) <= len => ~Matches(src, i, sep)
            => IsSplit(l, SubSeq(src, 1, len), sep)
<1>1. PICK n, p : n = len - beg /\ n \in Nat /\ p = Bytes(src, beg, n) /\ l = Append(parts, p)
  OBVIOUS
<1>2. beg + n = len /\ beg + n <= Len(src)
  BY <1>1
<1>3. p \in Seq(Byte) /\ Len(p) = n
  <2>1. n \in Nat /\ beg + n <= Len(src) /\ src \in Seq(Byte) /\ beg \in Nat
    BY <1>1, <1>2
  <2>2. Bytes(src, beg, n) \in Seq(Byte) /\ Len(Bytes(src, beg, n)) = n
    BY <2>1, BytesType, Zenon
  <2> QED
    BY <1>1, <2>2
<1>4. Glued(l, sep) = Ended(parts, sep) \o p
  BY <1>1, <1>3, GlueAppend
<1>5. SubSeq(src, 1, beg) \o p = SubSeq(src, 1, beg + n)
  BY <1>1, <1>2, BytesJoin
<1>6. Glued(l, sep) = SubSeq(src, 1, len)
  BY <1>2, <1>4, <1>5
<1>7. ASSUME \A i \in 1..Len(parts) : EndsFirst(parts[i], sep),
             \A i \in Nat : beg <= i /\ i + Len(sep) <= len => ~Matches(src, i, sep)
      PROVE  IsSplit(l, SubSeq(src, 1, len), sep)
  <2>1. /\ Len(l) = Len(parts) + 1 /\ l[Len(parts) + 1] = p /\ Len(parts) \in Nat
        /\ \A i \in 1..Len(parts) : l[i] = parts[i]
    BY <1>1, <1>3, AppendProperties
  <2>5. l # <<>>
    BY <2>1
  <2>2. Last(l) = p
    BY <2>1 DEF Last
  <2>3. \A i \in 1..(Len(l) - 1) : EndsFirst(l[i], sep)
    BY <1>7, <2>1
  <2>4. Found(p, 0, sep) = {}
    <3> SUFFICES ASSUME NEW i \in 0..Len(p), Matches(p, i, sep)
                 PROVE  FALSE
      BY DEF Found
    <3>1. i \in Nat
      BY <1>1, <1>3
    <3>2. i + Len(sep) <= n /\ Matches(src, beg + i, sep)
      <4>1. Matches(p, i, sep) <=> i + Len(sep) <= n /\ Matches(src, beg + i, sep)
        BY <1>1, <1>2, <3>1, MatchesIn
      <4> QED
        BY <4>1
    <3>3. beg + i \in Nat /\ beg <= beg + i /\ beg + i + Len(sep) <= len
      BY <1>1, <1>2, <3>1, <3>2
    <3> QED
      BY <1>7, <3>2, <3>3
  <2> QED
    BY <1>6, <2>2, <2>3, <2>4, <2>5 DEF IsSplit
<1> QED
  BY <1>6, <1>7

LEMMA TextStxCall == ASSUME IInv, StxCall  PROVE TextOK'
<1>1. lib = "stx" /\ UNCHANGED <<beg, at, input>> /\ (sep # <<>> => pc' = "split" /\ parts' = parts)
      /\ pc' \in {"join", "split"}
  BY DEF StxCall
<1>2. parts = <<>> /\ beg = 0 /\ Len(parts) = 0
  BY DEF StxCall, IInv, BooksOK, PlaceOK
<1>3. Cleanly' => pc' = "split" /\ parts' = <<>> /\ sep' = sep /\ beg' = 0 /\ lib' = "stx"
  BY <1>1, <1>2 DEF Cleanly, input
<1>4. Ended(<<>>, sep) = SubSeq(src, 1, 0) /\ src' = src
  BY <1>1, NoneEnded DEF input
<1>5. SearchOK'
  BY <1>3, <1>4 DEF SearchOK
<1> QED
  BY <1>1, <1>3, <1>5 DEF TextOK, AnswerOK, BackOK

\* strstr sees all of a text without a NUL.
LEMMA PlainSeen ==
  ASSUME TypeOK, lib = "stx", Plain
  PROVE  CString(src) = src
BY CStringIs DEF TypeOK, Plain

LEMMA TextStxPart == ASSUME IInv, StxPart  PROVE TextOK'
<1>1. PICK j, n : j = Min(Found(CString(src), at, sep)) /\ n = j - beg
  OBVIOUS
<1>2. /\ lib = "stx" /\ pc = "split" /\ pc' = "split" /\ AddPart(n)
      /\ at' = j + Len(sep) /\ beg' = j + Len(sep) /\ UNCHANGED input
      /\ Found(CString(src), at, sep) # {}
  BY <1>1 DEF StxPart, Behind
<1>3. TypeOK /\ at = beg /\ BooksOK /\ SearchOK
  BY <1>2 DEF IInv, BooksOK, PlaceOK, TextOK
<1>4. /\ j \in Nat /\ beg <= j /\ Matches(src, j, sep)
      /\ j + Len(sep) <= Len(CString(src)) /\ Len(CString(src)) <= Len(src)
      /\ \A i \in beg..(j - 1) : ~Matches(CString(src), i, sep)
  BY <1>1, <1>2, <1>3, Finds
<1>5. SearchOK'
  <2> SUFFICES ASSUME Cleanly'
               PROVE  /\ Ended(parts', sep') = SubSeq(src', 1, beg')
                      /\ Plain' => \A i \in 1..Len(parts') : EndsFirst(parts'[i], sep')
    BY <1>2 DEF SearchOK, input
  <2>1. failures' = 0 /\ sep # <<>> /\ sep' = sep /\ src' = src /\ lib' = lib
    BY <1>2 DEF Cleanly, input
  <2>2. failures = 0 /\ failures' = failures /\ parts' = Append(parts, Bytes(src, beg, n))
    <3>1. failures \in Nat
      BY <1>3, Constants DEF TypeOK
    <3> QED
      BY <1>2, <2>1, <3>1 DEF AddPart, Fails
  <2>3. Cleanly
    BY <2>1, <2>2 DEF Cleanly
  <2>4. /\ parts \in Seq(Seq(Byte)) /\ src \in Seq(Byte) /\ sep \in Seq(Byte) /\ beg \in Nat
    BY <1>2, <1>3, <2>3, CleanList
  <2>5. /\ Ended(parts, sep) = SubSeq(src, 1, beg)
        /\ Plain => \A i \in 1..Len(parts) : EndsFirst(parts[i], sep)
    BY <1>2, <1>3, <2>3 DEF SearchOK
  <2>6. PICK l : l = Append(parts, Bytes(src, beg, j - beg)) /\ parts' = l
    BY <1>1, <2>2
  <2>7. /\ Ended(l, sep) = SubSeq(src, 1, j + Len(sep))
        /\ /\ \A i \in 1..Len(parts) : EndsFirst(parts[i], sep)
           /\ \A i \in beg..(j - 1) : ~Matches(src, i, sep)
           => \A i \in 1..Len(l) : EndsFirst(l[i], sep)
    BY <1>4, <2>4, <2>5, <2>6, PartEnds
  <2>8. Plain' => Plain
    BY <2>1 DEF Plain
  <2>9. Plain => \A i \in beg..(j - 1) : ~Matches(src, i, sep)
    BY <1>2, <1>3, <1>4, PlainSeen
  <2>10. Plain' => \A i \in 1..Len(l) : EndsFirst(l[i], sep)
    BY <2>5, <2>7, <2>8, <2>9
  <2> QED
    BY <1>2, <2>1, <2>6, <2>7, <2>10
<1> QED
  BY <1>2, <1>5 DEF TextOK, AnswerOK, BackOK

LEMMA TextStxWiden == ASSUME IInv, StxWiden  PROVE TextOK'
<1>1. lib = "stx" /\ pc = "split" /\ UNCHANGED <<at, beg, input>>
      /\ \/ pc' = pc /\ parts' = parts /\ failures' = failures
         \/ failures' = failures + 1
  BY DEF StxWiden, Fails
<1>2. SearchOK /\ failures \in Nat
  BY Constants DEF IInv, BooksOK, TypeOK, TextOK
<1>3. Cleanly' => Cleanly /\ pc' = pc /\ parts' = parts
  BY <1>1, <1>2 DEF Cleanly, input
<1>4. Plain' => Plain
  BY <1>1 DEF Plain, input
<1>5. SearchOK'
  BY <1>1, <1>2, <1>3, <1>4 DEF SearchOK, input
<1> QED
  BY <1>1, <1>3, <1>5 DEF TextOK, AnswerOK, BackOK

LEMMA TextStxLast == ASSUME IInv, StxLast  PROVE TextOK'
<1>1. lib = "stx" /\ pc = "split" /\ UNCHANGED input /\ Found(CString(src), at, sep) = {}
      /\ (pc' = "fault" \/ (pc' = "return" /\ len >= beg /\ AddPart(len - beg)))
  BY DEF StxLast, Faults
<1>2. TypeOK /\ at = beg /\ BooksOK /\ SearchOK
  BY <1>1 DEF IInv, BooksOK, PlaceOK, TextOK
<1>3. AnswerOK'
  <2> SUFFICES ASSUME Cleanly', pc' = "return"
               PROVE  /\ Glued(parts', sep') = SubSeq(src', 1, len')
                      /\ Plain' /\ Measured' => IsSplit(parts', SubSeq(src', 1, len'), sep')
    BY <1>1 DEF AnswerOK, input
  <2>1. failures' = 0 /\ sep # <<>> /\ sep' = sep /\ src' = src /\ lib' = lib /\ len' = len
    BY <1>1 DEF Cleanly, input
  <2>2. failures = 0 /\ parts' = Append(parts, Bytes(src, beg, len - beg)) /\ beg <= len
    <3>1. failures \in Nat /\ len \in Nat /\ beg \in Nat
      BY <1>2, Constants DEF TypeOK
    <3> QED
      BY <1>1, <2>1, <3>1 DEF AddPart, Fails
  <2>3. Cleanly
    BY <2>1, <2>2 DEF Cleanly
  <2>4. /\ parts \in Seq(Seq(Byte)) /\ src \in Seq(Byte) /\ sep \in Seq(Byte) /\ beg \in Nat
        /\ len \in Nat /\ len <= Len(src)
    BY <1>1, <1>2, <2>3, CleanList
  <2>5. /\ Ended(parts, sep) = SubSeq(src, 1, beg)
        /\ Plain => \A i \in 1..Len(parts) : EndsFirst(parts[i], sep)
    BY <1>1, <1>2, <2>3 DEF SearchOK
  <2>6. PICK l : l = Append(parts, Bytes(src, beg, len - beg)) /\ parts' = l
    BY <2>2
  <2>7. /\ Glued(l, sep) = SubSeq(src, 1, len)
        /\ /\ \A i \in 1..Len(parts) : EndsFirst(parts[i], sep)
           /\ \A i \in Nat : beg <= i /\ i + Len(sep) <= len => ~Matches(src, i, sep)
           => IsSplit(l, SubSeq(src, 1, len), sep)
    BY <2>2, <2>4, <2>5, <2>6, PartLast
  <2>8. Plain' => Plain
    BY <2>1 DEF Plain
  <2>9. Plain => \A i \in Nat : beg <= i /\ i + Len(sep) <= len => ~Matches(src, i, sep)
    <3> SUFFICES ASSUME Plain, NEW i \in Nat, beg <= i, i + Len(sep) <= len, Matches(src, i, sep)
                 PROVE  FALSE
      OBVIOUS
    <3>1. CString(src) = src
      BY <1>1, <1>2, PlainSeen
    <3>2. i \in beg..Len(src)
      BY <2>4
    <3> QED
      BY <1>1, <1>2, <3>1, <3>2 DEF Found
  <2> QED
    BY <2>1, <2>5, <2>6, <2>7, <2>8, <2>9
<1> QED
  BY <1>1, <1>3 DEF TextOK, SearchOK, BackOK

LEMMA TextStxReturn == ASSUME IInv, StxReturn  PROVE TextOK'
<1>1. lib = "stx" /\ pc = "return" /\ pc' = "join" /\ UNCHANGED input
      /\ \/ parts' = parts /\ failures' = failures
         \/ failures' = failures + 1
  BY DEF StxReturn, Fails
<1>2. Cleanly' => Cleanly /\ parts' = parts
  <2>1. failures \in Nat
    BY Constants DEF IInv, BooksOK, TypeOK
  <2> QED
    BY <1>1, <2>1 DEF Cleanly, input
<1>3. AnswerOK /\ lib' = lib /\ src' = src /\ len' = len /\ sep' = sep
  BY <1>1 DEF IInv, TextOK, input
<1>4. (Measured' => Measured) /\ (Plain' => Plain)
  BY <1>3 DEF Measured, Plain
<1>5. AnswerOK'
  BY <1>1, <1>2, <1>3, <1>4 DEF AnswerOK
<1> QED
  BY <1>1, <1>5 DEF TextOK, SearchOK, BackOK

LEMMA TextSdsCall == ASSUME IInv, SdsCall  PROVE TextOK'
<1>1. /\ lib = "sds" /\ UNCHANGED <<at, beg, input>> /\ pc' \in {"join", "split"}
      /\ \/ sep = <<>>
         \/ failures' = failures + 1
         \/ parts' = parts /\ failures' = failures /\ pc' = IF len = 0 THEN "join" ELSE "split"
  BY DEF SdsCall, Fails
<1>2. parts = <<>> /\ beg = 0 /\ at = 0 /\ failures \in Nat
  BY Constants DEF SdsCall, IInv, BooksOK, PlaceOK, TypeOK
<1>3. src' = src /\ sep' = sep /\ len' = len /\ lib' = "sds" /\ beg' = 0 /\ at' = 0
  BY <1>1, <1>2 DEF input
<1>4. Cleanly' => parts' = <<>> /\ pc' = IF len = 0 THEN "join" ELSE "split"
  BY <1>1, <1>2, <1>3 DEF Cleanly
<1>5. Ended(<<>>, sep) = SubSeq(src, 1, 0) /\ Glued(<<>>, sep) = SubSeq(src, 1, 0) /\ Len(<<>>) = 0
  BY NoneEnded
<1>6. SearchOK'
  BY <1>3, <1>4, <1>5 DEF SearchOK
<1>7. AnswerOK'
  BY <1>3, <1>4, <1>5 DEF AnswerOK
<1> QED
  BY <1>1, <1>6, <1>7 DEF TextOK, BackOK

LEMMA TextSdsTurn == ASSUME IInv, SdsTurn  PROVE TextOK'
<1>1. /\ lib = "sds" /\ pc = "split" /\ pc' = "split" /\ UNCHANGED input /\ failures' = failures
      /\ \/ ~Matches(src, at, sep) /\ at' = at + 1 /\ UNCHANGED <<beg, parts>>
         \/ /\ Matches(src, at, sep) /\ parts' = Append(parts, Bytes(src, beg, at - beg))
            /\ at' = at + Len(sep) /\ beg' = at + Len(sep)
  BY DEF SdsTurn, Searching, Onward, Behind
<1>2. BooksOK /\ SearchOK
  BY DEF IInv, TextOK
<1>3. beg \in Nat /\ at \in Nat /\ beg <= at /\ Len(sep) \in Nat
  BY <1>1, <1>2, InReach
<1>4. SearchOK'
  <2> SUFFICES ASSUME Cleanly'
               PROVE  /\ Ended(parts', sep') = SubSeq(src', 1, beg')
                      /\ \A j \in beg'..(at' - 1) : ~Matches(src', j, sep')
                      /\ \A i \in 1..Len(parts') : EndsFirst(parts'[i], sep')
    BY DEF SearchOK
  <2>1. Cleanly /\ sep' = sep /\ src' = src
    BY <1>1 DEF Cleanly, input
  <2>2. /\ Ended(parts, sep) = SubSeq(src, 1, beg)
        /\ \A j \in beg..(at - 1) : ~Matches(src, j, sep)
        /\ \A i \in 1..Len(parts) : EndsFirst(parts[i], sep)
    BY <1>1, <1>2, <2>1 DEF SearchOK, Plain
  <2>3. CASE ~Matches(src, at, sep) /\ at' = at + 1 /\ UNCHANGED <<beg, parts>>
    <3>1. \A j \in beg..(at' - 1) : ~Matches(src, j, sep)
      <4> TAKE j \in beg..(at' - 1)
      <4>1. j \in beg..(at - 1) \/ j = at
        BY <1>3, <2>3
      <4> QED
        BY <2>2, <2>3, <4>1
    <3> QED
      BY <2>1, <2>2, <2>3, <3>1
  <2>4. CASE /\ Matches(src, at, sep) /\ parts' = Append(parts, Bytes(src, beg, at - beg))
             /\ at' = at + Len(sep) /\ beg' = at + Len(sep)
    <3>1. parts \in Seq(Seq(Byte)) /\ src \in Seq(Byte) /\ sep \in Seq(Byte)
      BY <1>1, <1>2, <2>1, CleanList
    <3>2. PICK l : l = Append(parts, Bytes(src, beg, at - beg)) /\ parts' = l
      BY <2>4
    <3>3. /\ Ended(l, sep) = SubSeq(src, 1, at + Len(sep))
          /\ /\ \A i \in 1..Len(parts) : EndsFirst(parts[i], sep)
             /\ \A i \in beg..(at - 1) : ~Matches(src, i, sep)
             => \A i \in 1..Len(l) : EndsFirst(l[i], sep)
      BY <1>3, <2>2, <2>4, <3>1, <3>2, PartEnds
    <3>4. \A j \in beg'..(at' - 1) : ~Matches(src, j, sep)
      BY <1>3, <2>4
    <3> QED
      BY <2>1, <2>2, <2>4, <3>2, <3>3, <3>4
  <2> QED
    BY <1>1, <2>3, <2>4
<1> QED
  BY <1>1, <1>4 DEF TextOK, AnswerOK, BackOK

\* A call that failed says nothing.
LEMMA TextFails ==
  ASSUME IInv, failures' > 0
  PROVE  TextOK'
BY DEF TextOK, SearchOK, AnswerOK, BackOK, Cleanly

LEMMA TextCleanup == ASSUME IInv, Cleanup  PROVE TextOK'
<1>1. failures' > 0
  BY Constants DEF Cleanup, Fails, IInv, BooksOK, TypeOK
<1> QED
  BY <1>1, TextFails

LEMMA TextSdsLast == ASSUME IInv, SdsLast  PROVE TextOK'
<1>1. lib = "sds" /\ pc = "split" /\ ~Searching
  BY DEF SdsLast
<1>2. CASE Cleanup
  BY <1>2, TextCleanup
<1>3. CASE /\ parts' = Append(parts, Bytes(src, beg, len - beg)) /\ pc' = "join"
           /\ failures' = failures /\ UNCHANGED input
  <2>1. BooksOK /\ SearchOK
    BY DEF IInv, TextOK
  <2>2. /\ beg \in Nat /\ at \in Nat /\ len \in Nat /\ beg <= at /\ at <= len /\ len > 0
        /\ Len(sep) \in Nat /\ at + Len(sep) > len /\ len <= Len(src)
    BY <1>1, <2>1, InReach
  <2>3. AnswerOK'
    <3> SUFFICES ASSUME Cleanly'
                 PROVE  /\ Glued(parts', sep') = SubSeq(src', 1, len')
                        /\ IsSplit(parts', SubSeq(src', 1, len'), sep') /\ len' # 0
      BY DEF AnswerOK
    <3>1. Cleanly /\ sep' = sep /\ src' = src /\ len' = len
      BY <1>3 DEF Cleanly, input
    <3>2. /\ Ended(parts, sep) = SubSeq(src, 1, beg)
          /\ \A j \in beg..(at - 1) : ~Matches(src, j, sep)
          /\ \A i \in 1..Len(parts) : EndsFirst(parts[i], sep)
      BY <1>1, <2>1, <3>1 DEF SearchOK, Plain
    <3>3. parts \in Seq(Seq(Byte)) /\ src \in Seq(Byte) /\ sep \in Seq(Byte)
      BY <1>1, <2>1, <3>1, CleanList
    <3>4. PICK l : l = Append(parts, Bytes(src, beg, len - beg)) /\ parts' = l
      BY <1>3
    <3>5. /\ Glued(l, sep) = SubSeq(src, 1, len)
          /\ /\ \A i \in 1..Len(parts) : EndsFirst(parts[i], sep)
             /\ \A i \in Nat : beg <= i /\ i + Len(sep) <= len => ~Matches(src, i, sep)
             => IsSplit(l, SubSeq(src, 1, len), sep)
      <4>1. beg <= len
        BY <2>2
      <4> QED
        BY <2>2, <3>2, <3>3, <3>4, <4>1, PartLast
    <3>6. \A i \in Nat : beg <= i /\ i + Len(sep) <= len => ~Matches(src, i, sep)
      <4> SUFFICES ASSUME NEW i \in Nat, beg <= i, i + Len(sep) <= len
                   PROVE  ~Matches(src, i, sep)
        OBVIOUS
      <4>1. i \in beg..(at - 1)
        BY <2>2
      <4> QED
        BY <3>2, <4>1
    <3> QED
      BY <2>2, <3>1, <3>2, <3>4, <3>5, <3>6
  <2> QED
    BY <1>3, <2>3 DEF TextOK, SearchOK, BackOK
<1> QED
  BY <1>2, <1>3 DEF SdsLast

\* What is joined is the text.
LEMMA TextJoined ==
  ASSUME IInv, pc = "join", pc' = "free", failures' = failures, UNCHANGED input,
         Cleanly => joined' = Written
  PROVE  TextOK'
<1>1. BooksOK /\ AnswerOK
  BY DEF IInv, TextOK
<1>2. Cleanly' => Cleanly
  BY DEF Cleanly, input
<1>3. Cleanly => parts # NULL /\ Complete
  BY <1>1, CleanList
<1>4. Cleanly => Written = Glued(parts, sep)
  BY <1>1, <1>3, Joins
<1>5. Measured' => Measured
  BY DEF Measured, input
<1>6. BackOK'
  BY <1>1, <1>2, <1>4, <1>5 DEF BackOK, AnswerOK, input
<1> QED
  BY <1>6 DEF TextOK, SearchOK, AnswerOK

LEMMA TextStxJoin == ASSUME IInv, StxJoin  PROVE TextOK'
<1>1. BooksOK
  BY DEF IInv
<1>2. pc = "join" /\ pc' = "free" /\ joined' = Written /\ UNCHANGED <<failures, input>>
  BY <1>1, StxJoined
<1> QED
  BY <1>2, TextJoined

LEMMA TextSdsJoin == ASSUME IInv, SdsJoin  PROVE TextOK'
<1>1. pc = "join" /\ (failures' = failures + 1
                      \/ (failures' = failures /\ pc' = "free" /\ joined' = Written /\ UNCHANGED input))
  BY DEF SdsJoin, Fails, Faults
<1>2. failures' = failures + 1 => failures' > 0
  BY Constants DEF IInv, BooksOK, TypeOK
<1> QED
  BY <1>1, <1>2, TextFails, TextJoined

LEMMA TextFree == ASSUME IInv, Free  PROVE TextOK'
<1>1. pc = "free" /\ pc' = "done" /\ UNCHANGED <<joined, failures, input>>
  BY DEF Free
<1>2. BackOK'
  BY <1>1 DEF IInv, TextOK, BackOK, Cleanly, Measured, input
<1> QED
  BY <1>1, <1>2 DEF TextOK, SearchOK, AnswerOK

LEMMA TextKept == ASSUME IInv, [Next]_vars  PROVE TextOK'
<1>1. CASE Step
  <2>1. ASSUME SdsTurn_fails
        PROVE  TextOK'
    BY <2>1, TextCleanup DEF SdsTurn_fails
  <2>2. ASSUME StxJoin_faults
        PROVE  TextOK'
    BY <2>2 DEF StxJoin_faults, Faults, TextOK, SearchOK, AnswerOK, BackOK
  <2> QED
    BY <1>1, <2>1, <2>2, TextStxCall, TextStxWiden, TextStxPart, TextStxLast, TextStxReturn, TextSdsCall,
       TextSdsTurn, TextSdsLast, TextStxJoin, TextSdsJoin, TextFree DEF Step
<1>2. CASE UNCHANGED vars
  BY <1>2 DEF IInv, TextOK, SearchOK, AnswerOK, BackOK, Cleanly, Measured, Plain, vars, input
<1> QED
  BY <1>1, <1>2 DEF Next

-----------------------------------------------------------------------------
(* The theorems.                                                           *)

\* The invariant holds in every state of every split and join.
THEOREM Invariant == Spec => []IInv
<1>1. Init => IInv
  BY Begins
<1>2. IInv /\ [Next]_vars => IInv'
  BY BooksKept, TextKept DEF IInv
<1> QED
  BY <1>1, <1>2, PTL DEF Spec

\* The shape of the state; the joined text has no byte that nobody wrote.
THEOREM TypesHold == Spec => []TypeOK
BY Invariant, PTL DEF IInv, BooksOK

\* Whatever the text, stx_split_len, stx_join_len and their counterparts in sds end
\* in undefined behaviour only after a failed allocation, with an empty separator or
\* with a length that is not strlen's; and the arrays of both always have room.
THEOREM NoFaultEver == Spec => []NoFault
<1>1. IInv => NoFault
  <2> SUFFICES ASSUME IInv
               PROVE  NoFault
    OBVIOUS
  <2>1. pc = "return" => Len(parts) \in Nat /\ slots \in Nat /\ Len(parts) + 1 <= slots
    BY DEF IInv, BooksOK, PlaceOK, RoomOK, TypeOK
  <2> QED
    BY <2>1 DEF IInv, BooksOK, BlameOK, RoomOK, NoFault
<1> QED
  BY <1>1, Invariant, PTL

\* The parts are the pieces of the text, each cut where the separator is first found.
THEOREM PartsAreRight == Spec => []PartsRight
<1>1. IInv => PartsRight
  <2> SUFFICES ASSUME IInv, pc = "join", failures = 0, sep # <<>>
               PROVE  IF lib = "sds" /\ len = 0 THEN parts = <<>>
                      ELSE Measured /\ (lib = "stx" => NUL \notin ToSet(src))
                           => IsSplit(parts, SubSeq(src, 1, len), sep)
    BY DEF PartsRight
  <2>1. AnswerOK /\ Cleanly
    BY DEF IInv, TextOK, Cleanly
  <2>2. lib = "sds" => Measured /\ Plain
    BY DEF Measured, Plain
  <2> QED
    BY <2>1, <2>2 DEF AnswerOK, Plain
<1> QED
  BY <1>1, Invariant, PTL

\* What was split and joined is the text again.
THEOREM RoundTripHolds == Spec => []RoundTrip
<1>1. IInv => RoundTrip
  BY DEF IInv, TextOK, BackOK, Cleanly, RoundTrip
<1> QED
  BY <1>1, Invariant, PTL

\* Beside the joined text only one block stays allocated, whatever failed before, and
\* only when realloc moved stx_split_len's list from list_dyn: that array.
THEOREM ReleasedHolds == Spec => []Released
<1>1. IInv => Released
  BY DEF IInv, BooksOK, LiveOK, Lost, Released
<1> QED
  BY <1>1, Invariant, PTL
=============================================================================
