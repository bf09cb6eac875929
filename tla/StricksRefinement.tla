--------------------------- MODULE StricksRefinement ---------------------------
(***************************************************************************)
(* Stricks implements StringPromise, for every heap, alphabet and set of   *)
(* texts, as long as no capacity overflows the header (Width).             *)
(***************************************************************************)
EXTENDS StricksImplement, StricksProofs

\* The text of a sound block is a string, and its length is the recorded one.
LEMMA TextType ==
  ASSUME NEW b, BlockOK(b)
  PROVE  /\ Text(b) \in Seq(Byte) /\ Len(Text(b)) = b.len /\ b.len \in Nat
         /\ \A i \in 1..b.len : Text(b)[i] = b.data[i - 1]
         /\ Text(b) = [i \in 1..b.len |-> b.data[i - 1]]
<1>1. PICK l, r, d : l = b.len /\ r = b.room /\ d = b.data
  OBVIOUS
<1>2. /\ l \in Nat /\ r \in Nat /\ l <= r /\ d \in [0..r -> Cell]
      /\ \A i \in 0..(l - 1) : d[i] # Junk
  BY <1>1, BlockParts, WidthAssumption DEF BlockOK
<1>3. \A i \in 1..l : At(d, i - 1) = d[i - 1] /\ d[i - 1] \in Byte
  <2> TAKE i \in 1..l
  <2>1. i - 1 \in 0..(l - 1) /\ i - 1 \in 0..r
    BY <1>2
  <2> QED
    BY <1>2, <2>1 DEF At, Cell
<1>4. PICK t : t = [i \in 1..l |-> d[i - 1]]
  OBVIOUS
<1>5. t \in Seq(Byte) /\ Len(t) = l
  BY <1>2, <1>3, <1>4
<1>6. Text(b) = t
  BY <1>1, <1>3, <1>4 DEF Text
<1> QED
  BY <1>1, <1>2, <1>4, <1>5, <1>6

\* A strick's block, and what the promise is told of it.
LEMMA Held ==
  ASSUME IInv, NEW v \in Holding
  PROVE  /\ BlockOK(Strick(v)) /\ v \in Var
         /\ StrOf[v] = Text(Strick(v)) /\ StrOf[v] # NULL /\ CapOf[v] = Strick(v).cap
         /\ Len(StrOf[v]) = Strick(v).len
         /\ v \in LooseOf <=> ~Terminated(Strick(v))
<1>1. BlockOK(Strick(v)) /\ v \in Var
  BY StrickOK DEF IInv
<1>2. StrOf[v] = Text(Strick(v)) /\ CapOf[v] = Strick(v).cap
  BY <1>1 DEF StrOf, CapOf
<1> QED
  BY <1>1, <1>2, TextType, StringAssumption DEF LooseOf

\* The promise is told that v's block is now c.
Result(v, c) ==
  /\ StrOf' = [StrOf EXCEPT ![v] = Text(c)]
  /\ CapOf' = [CapOf EXCEPT ![v] = c.cap]
  /\ LooseOf' = IF Terminated(c) THEN LooseOf \ {v} ELSE LooseOf \cup {v}

LEMMA ResultStep ==
  ASSUME NEW v \in Var, NEW c, Elsewhere(v), v \in Holding',
         Holding' = Holding \cup {v}, After(v) = c
  PROVE  Result(v, c)
<1>1. Strick(v)' = c
  BY DEF Strick, After
<1>2. \A w \in Holding' \ {v} : w \in Holding /\ Strick(w)' = Strick(w)
  BY DEF Elsewhere, Strick, After
<1>3. StrOf' = [StrOf EXCEPT ![v] = Text(c)]
  <2>1. \A w \in Var : StrOf'[w] = IF w = v THEN Text(c) ELSE StrOf[w]
    BY <1>1, <1>2 DEF StrOf
  <2> QED
    BY <2>1 DEF StrOf
<1>4. CapOf' = [CapOf EXCEPT ![v] = c.cap]
  <2>1. \A w \in Var : CapOf'[w] = IF w = v THEN c.cap ELSE CapOf[w]
    BY <1>1, <1>2 DEF CapOf
  <2> QED
    BY <2>1 DEF CapOf
<1>5. LooseOf' = IF Terminated(c) THEN LooseOf \ {v} ELSE LooseOf \cup {v}
  BY <1>1, <1>2 DEF LooseOf
<1> QED
  BY <1>3, <1>4, <1>5 DEF Result

LEMMA ReplaceResult ==
  ASSUME IInv, NEW v \in Holding, NEW a \in ReallocAt(v), NEW c, Replace(v, a, c)
  PROVE  Result(v, c)
<1>1. v \in Var /\ a \in Addr /\ a # NULL
  BY PtrType, NullAssumption DEF Holding, ReallocAt, Unused
<1>2. Elsewhere(v)
  BY ReplaceElsewhere
<1>3. After(v) = c
  BY <1>1 DEF After, Replace, IInv, HeapOK, PtrOK
<1>4. Holding' = Holding \cup {v} /\ v \in Holding'
  BY <1>1 DEF Holding, Replace, IInv, PtrOK
<1> QED
  BY <1>1, <1>2, <1>3, <1>4, ResultStep

LEMMA SameResult ==
  ASSUME UNCHANGED <<heap, ptr>>
  PROVE  Promise!Unchanged
BY DEF Promise!Unchanged, StrOf, CapOf, LooseOf, Holding, Strick

LEMMA ReturnsSame ==
  ASSUME NEW op, NEW v, NEW rc, NEW n
  PROVE  Returns(op, v, rc, n) <=> Promise!Returns(op, v, rc, n)
BY DEF Returns, Promise!Returns

-----------------------------------------------------------------------------
(* Create.                                                                 *)

LEMMA CreatePromised ==
  ASSUME IInv, NEW op, NEW v \in Var, NEW b, NEW n, Create(op, v, b, n), Terminated(b)
  PROVE  Promise!Create(op, v, Text(b), b.cap, n)
<1>1. ~Promise!Holds(v) /\ v \notin LooseOf
  BY DEF Create, Promise!Holds, StrOf, LooseOf, Holding
<1>2. CASE \E a \in Unused : /\ heap' = [heap EXCEPT ![a] = b]
                             /\ ptr'  = [ptr EXCEPT ![v] = a]
                             /\ Returns(op, v, 1, n)
  <2>1. PICK a \in Unused : /\ heap' = [heap EXCEPT ![a] = b]
                            /\ ptr'  = [ptr EXCEPT ![v] = a]
                            /\ Returns(op, v, 1, n)
    BY <1>2
  <2>2. a \in Addr /\ a # NULL
    BY NullAssumption DEF Unused
  <2>3. After(v) = b /\ Holding' = Holding \cup {v} /\ v \in Holding'
    BY <2>1, <2>2 DEF After, Holding, IInv, HeapOK, PtrOK
  <2>4. Elsewhere(v)
    BY CreateElsewhere
  <2>5. Result(v, b)
    BY <2>3, <2>4, ResultStep
  <2>6. Promise!Becomes(v, Text(b), b.cap) /\ LooseOf' = LooseOf
    BY <1>1, <2>5 DEF Result, Promise!Becomes
  <2> QED
    BY <1>1, <2>1, <2>6, ReturnsSame DEF Promise!Create
<1>3. CASE UNCHANGED <<heap, ptr>> /\ Returns(op, v, 0, n)
  BY <1>1, <1>3, SameResult, ReturnsSame DEF Promise!Create
<1> QED
  BY <1>2, <1>3 DEF Create

LEMMA NewPromised ==
  ASSUME Width, IInv, NEW v \in Var, NEW cap \in Caps, stx_new(v, cap)
  PROVE  Promise!New(v, cap)
<1>1. PICK d, b : /\ d = [i \in 0..cap |-> IF i \in {0, cap} THEN NUL ELSE Junk]
                  /\ b = MakeBlock(TYPE_FOR(cap), cap, 0, StxFamily, d)
  OBVIOUS
<1>2. cap \in 0..MaxCap /\ cap \in Nat /\ 0 \in 0..MaxCap
  BY WidthAssumption
<1>3. Stored(TYPE_FOR(cap), cap) = cap /\ Stored(TYPE_FOR(cap), 0) = 0
  BY <1>2, TypeForType, StoredExact, WidthAssumption
<1>4. b.len = 0 /\ b.cap = cap /\ b.data = d
  BY <1>1, <1>3 DEF MakeBlock
<1>5. Terminated(b)
  BY <1>1, <1>2, <1>4 DEF Terminated, At
<1>6. Text(b) = <<>>
  BY <1>4 DEF Text
<1>7. Create("new", v, b, cap)
  BY <1>1 DEF stx_new
<1> QED
  BY <1>4, <1>5, <1>6, <1>7, CreatePromised DEF Promise!New

LEMMA FromPromised ==
  ASSUME Width, IInv, NEW v \in Var, NEW src \in Texts, stx_from_len(v, src)
  PROVE  Promise!From(v, src)
<1>1. PICK n, z : n = Len(src) /\ z = [i \in 0..n |-> NUL]
  OBVIOUS
<1>2. PICK d, b : d = Write(z, 0, src) /\ b = MakeBlock(TYPE_FOR(n), n, n, StxFamily, d)
  OBVIOUS
<1>3. n \in 0..MaxCap /\ n \in Nat /\ src \in Seq(Byte) /\ z \in [0..n -> Cell] /\ 0 \in Nat
  BY <1>1, TextsType, NULType, WidthAssumption DEF stx_from_len
<1>4. Stored(TYPE_FOR(n), n) = n
  BY <1>3, TypeForType, StoredExact
<1>5. b.len = n /\ b.cap = n /\ b.data = d
  BY <1>2, <1>4 DEF MakeBlock
<1>6. /\ d \in [0..n -> Cell] /\ d[n] = NUL
      /\ \A i \in 0..(n - 1) : d[i] = src[i + 1]
  <2>1. /\ Write(z, 0, src) \in [0..n -> Cell]
        /\ \A i \in 0..n : /\ i < 0 \/ i >= 0 + Len(src) => Write(z, 0, src)[i] = z[i]
                           /\ i >= 0 /\ i < 0 + Len(src) => Write(z, 0, src)[i] = src[i - 0 + 1]
    <3>1. Lands(Write(z, 0, src), n, z, 0, src)
      BY <1>3, WriteLands
    <3> QED
      BY <3>1 DEF Lands
  <2>2. Write(z, 0, src)[n] = NUL
    BY <1>1, <1>3, <2>1
  <2>3. \A i \in 0..(n - 1) : Write(z, 0, src)[i] = src[i + 1]
    <3> TAKE i \in 0..(n - 1)
    <3>1. i \in 0..n /\ i >= 0 /\ i < 0 + Len(src) /\ i - 0 + 1 = i + 1
      BY <1>1, <1>3
    <3> QED
      BY <2>1, <3>1
  <2> QED
    BY <1>2, <2>1, <2>2, <2>3
<1>7. Terminated(b)
  BY <1>3, <1>5, <1>6 DEF Terminated, At
<1>8. Text(b) = src
  <2>1. \A i \in 1..n : At(d, i - 1) = src[i]
    BY <1>3, <1>6 DEF At
  <2>2. src = [i \in 1..n |-> src[i]]
    BY <1>1, <1>3
  <2> QED
    BY <1>5, <2>1, <2>2 DEF Text
<1>9. Create("from", v, b, n)
  BY <1>1, <1>2 DEF stx_from_len
<1> QED
  BY <1>1, <1>5, <1>7, <1>8, <1>9, CreatePromised DEF Promise!From

LEMMA DupPromised ==
  ASSUME Width, IInv, NEW v \in Var, NEW w \in Var, stx_dup(v, w)
  PROVE  Promise!Dup(v, w)
<1>1. PICK s, n, r, old : s = Strick(w) /\ n = s.len /\ r = s.room /\ old = s.data
  OBVIOUS
<1>2. PICK d, b : d = [Kept(old, n) EXCEPT ![n] = NUL] /\ b = MakeBlock(s.type, n, n, "libc", d)
  OBVIOUS
<1>3. w \in Holding /\ BlockOK(s)
  BY <1>1, StrickOK DEF stx_dup, IInv
<1>4. /\ n \in 0..MaxCap /\ n \in Nat /\ r \in Nat /\ n <= r /\ old \in [0..r -> Cell]
      /\ s.type \in Type /\ (s.type = "TYPE1" => n <= SMALL_MAX)
  BY <1>1, <1>3, BlockParts, WidthAssumption DEF BlockOK
<1>5. Stored(s.type, n) = n
  BY <1>4, StoredExact
<1>6. b.len = n /\ b.cap = n /\ b.data = d
  BY <1>2, <1>5 DEF MakeBlock
<1>7. d \in [0..n -> Cell] /\ d[n] = NUL /\ \A i \in 0..(n - 1) : d[i] = old[i]
  <2>1. Kept(old, n) \in [0..n -> Cell] /\ \A i \in 0..n : i <= r => Kept(old, n)[i] = old[i]
    BY <1>4, KeptType
  <2> QED
    BY <1>2, <1>4, <2>1, NULType
<1>8. Terminated(b)
  BY <1>4, <1>6, <1>7 DEF Terminated, At
<1>9. Text(b) = StrOf[w] /\ Len(StrOf[w]) = n /\ StrOf[w] # NULL
  <2>1. \A i \in 1..n : At(d, i - 1) = old[i - 1]
    BY <1>4, <1>7 DEF At
  <2>2. StrOf[w] = [i \in 1..n |-> old[i - 1]]
    <3>1. StrOf[w] = Text(s)
      BY <1>1, <1>3, Held
    <3>2. Text(s) = [i \in 1..s.len |-> s.data[i - 1]]
      BY <1>3, TextType
    <3>3. s.len = n /\ s.data = old
      BY <1>1
    <3> QED
      BY <3>1, <3>2, <3>3
  <2>3. Len(StrOf[w]) = n /\ StrOf[w] # NULL
    BY <1>1, <1>3, Held
  <2>4. Text(b) = [i \in 1..n |-> At(d, i - 1)]
    BY <1>6 DEF Text
  <2>5. [i \in 1..n |-> At(d, i - 1)] = [i \in 1..n |-> old[i - 1]]
    BY <2>1
  <2> QED
    BY <2>2, <2>3, <2>4, <2>5, Zenon
<1>10. Create("dup", v, b, n)
  BY <1>1, <1>2 DEF stx_dup
<1> QED
  BY <1>6, <1>8, <1>9, <1>10, CreatePromised DEF Promise!Dup, Promise!Holds

-----------------------------------------------------------------------------
(* Append.                                                                 *)

\* Two strings one after the other.
LEMMA Joined ==
  ASSUME NEW s \in Seq(Byte), NEW t \in Seq(Byte), NEW l, NEW k, l = Len(s), k = Len(t)
  PROVE  s \o t = [i \in 1..(l + k) |-> IF i <= l THEN s[i] ELSE t[i - l]]
<1>1. l \in Nat /\ k \in Nat
  OBVIOUS
<1>2. s \o t \in Seq(Byte) /\ Len(s \o t) = l + k
  OBVIOUS
<1>3. \A i \in 1..(l + k) : (s \o t)[i] = IF i <= l THEN s[i] ELSE t[i - l]
  BY ConcatProperties
<1>4. PICK u : u = s \o t
  OBVIOUS
<1>5. u \in [1..(l + k) -> Byte]
  BY <1>2, <1>4, LenProperties
<1>6. u = [i \in 1..(l + k) |-> u[i]]
  BY <1>5
<1> QED
  BY <1>3, <1>4, <1>6

\* What a block says after an append that fits: the same capacity, both texts.
LEMMA AppendedText ==
  ASSUME Width, NEW b, BlockOK(b), NEW src \in Seq(Byte), b.len + Len(src) <= b.cap
  PROVE  /\ Text(Appended(b, b.len, src)) = Text(b) \o src
         /\ Terminated(Appended(b, b.len, src))
         /\ Appended(b, b.len, src).cap = b.cap
<1>1. PICK l, r, old, k, s, n : /\ l = b.len /\ r = b.room /\ old = b.data /\ k = Len(src)
                                /\ s = Append(src, NUL) /\ n = l + k
  OBVIOUS
<1>2. /\ l \in Nat /\ r \in Nat /\ k \in Nat /\ n \in Nat /\ n <= r /\ r \in 0..MaxCap
      /\ old \in [0..r -> Cell] /\ b.type \in Type
      /\ (b.type = "TYPE1" => n <= SMALL_MAX)
  BY <1>1, BlockParts, WidthAssumption DEF BlockOK
<1>3. s \in Seq(Byte) /\ Len(s) = k + 1 /\ s[k + 1] = NUL /\ \A i \in 1..k : s[i] = src[i]
  BY <1>1, <1>2, AppendNUL
<1>4. PICK d : d = Write(old, l, s)
  OBVIOUS
<1>5. /\ d \in [0..r -> Cell]
      /\ \A i \in 0..r : /\ i < l \/ i >= l + Len(s) => d[i] = old[i]
                         /\ i >= l /\ i < l + Len(s) => d[i] = s[i - l + 1]
  <2>1. r \in Nat /\ old \in [0..r -> Cell] /\ l \in Nat /\ s \in Seq(Byte)
    BY <1>2, <1>3
  <2>2. /\ Write(old, l, s) \in [0..r -> Cell]
        /\ \A i \in 0..r : /\ i < l \/ i >= l + Len(s) => Write(old, l, s)[i] = old[i]
                           /\ i >= l /\ i < l + Len(s) => Write(old, l, s)[i] = s[i - l + 1]
    <3>1. Lands(Write(old, l, s), r, old, l, s)
      BY <2>1, WriteLands
    <3> QED
      BY <3>1 DEF Lands
  <2> QED
    BY <1>4, <2>2
<1>6. Stored(b.type, n) = n
  BY <1>2, StoredExact
<1>7. PICK c : c = Appended(b, l, src)
  OBVIOUS
<1>8. c = Written(b, n, d)
  BY <1>1, <1>4, <1>7 DEF Appended
<1>9. c.len = n /\ c.cap = b.cap /\ c.data = d
  <2>1. c = [b EXCEPT !.len = n, !.data = d]
    BY <1>6, <1>8 DEF Written
  <2> QED
    BY <2>1, BlockParts
<1>10. d[n] = NUL
  <2>1. n \in 0..r /\ n >= l /\ n < l + Len(s) /\ n - l + 1 = k + 1
    BY <1>1, <1>2, <1>3
  <2> QED
    BY <1>3, <1>5, <2>1
<1>11. \A i \in 1..n : At(d, i - 1) = IF i <= l THEN old[i - 1] ELSE src[i - l]
  <2> TAKE i \in 1..n
  <2>1. i - 1 \in 0..r /\ At(d, i - 1) = d[i - 1]
    BY <1>2, <1>5 DEF At
  <2>2. CASE i <= l
    <3>1. i - 1 < l
      BY <1>2, <2>2
    <3> QED
      BY <1>5, <2>1, <2>2, <3>1
  <2>3. CASE ~(i <= l)
    <3>1. i - 1 >= l /\ i - 1 < l + Len(s) /\ (i - 1) - l + 1 = i - l /\ i - l \in 1..k
      BY <1>1, <1>2, <1>3, <2>3
    <3> QED
      BY <1>3, <1>5, <2>1, <2>3, <3>1
  <2> QED
    BY <2>2, <2>3
<1>12. Text(c) = [i \in 1..n |-> IF i <= l THEN old[i - 1] ELSE src[i - l]]
  BY <1>9, <1>11 DEF Text
<1>13. Text(b) \o src = [i \in 1..n |-> IF i <= l THEN old[i - 1] ELSE src[i - l]]
  <2>1. PICK t : t = Text(b)
    OBVIOUS
  <2>2. t \in Seq(Byte) /\ Len(t) = l /\ \A i \in 1..l : t[i] = old[i - 1]
    BY <1>1, <2>1, TextType
  <2>3. t \o src = [i \in 1..(l + k) |-> IF i <= l THEN t[i] ELSE src[i - l]]
    BY <1>1, <2>2, Joined
  <2>4. \A i \in 1..n : (i <= l => i \in 1..l)
    BY <1>2
  <2> QED
    BY <1>1, <2>1, <2>2, <2>3, <2>4
<1>14. Terminated(c)
  BY <1>2, <1>5, <1>9, <1>10 DEF Terminated, At
<1> QED
  BY <1>1, <1>7, <1>9, <1>12, <1>13, <1>14

LEMMA InPlacePromised ==
  ASSUME Width, IInv, NEW op, NEW v \in Holding, NEW src \in Texts, AppendInPlace(op, v, src)
  PROVE  LET n == Len(StrOf[v]) + Len(src)
         IN /\ Promise!Returns(op, v, n, Len(src))
            /\ n <= CapOf[v]
            /\ Promise!Becomes(v, StrOf[v] \o src, CapOf[v])
            /\ LooseOf' = LooseOf \ {v}
<1>1. PICK b : b = Strick(v)
  OBVIOUS
<1>2. /\ BlockOK(b) /\ StrOf[v] = Text(b) /\ CapOf[v] = b.cap /\ Len(StrOf[v]) = b.len
      /\ src \in Seq(Byte)
  BY <1>1, Held, TextsType
<1>3. /\ Returns(op, v, b.len + Len(src), Len(src))
      /\ b.len + Len(src) <= b.cap
      /\ Replace(v, ptr[v], Appended(b, b.len, src))
  BY <1>1 DEF AppendInPlace, Fits
<1>4. Result(v, Appended(b, b.len, src))
  BY <1>3, OwnPlace, ReplaceResult
<1>5. /\ Text(Appended(b, b.len, src)) = Text(b) \o src
      /\ Terminated(Appended(b, b.len, src))
      /\ Appended(b, b.len, src).cap = b.cap
  BY <1>2, <1>3, AppendedText
<1> QED
  BY <1>2, <1>3, <1>4, <1>5, ReturnsSame DEF Result, Promise!Becomes

\* grow's copy: from one layout to the other the first byte is lost, and perhaps
\* those from the seventh on.
LEMMA ShiftedText ==
  ASSUME NEW r \in Nat, NEW old \in [0..r -> Cell], NEW l \in 0..r, NEW newcap \in Nat,
         l < newcap, NEW o \in [0..r -> Cell], \A j \in 0..r : j # 0 => o[j] = old[j],
         NEW d \in Shifted(o, l, newcap)
  PROVE  \A j \in 1..5 : j < l => d[j] = old[j]
<1>1. PICK step \in {[i \in 0..l |-> i], [i \in 0..l |-> i % GAP]} :
        d = [i \in 0..newcap |-> IF i > l THEN Junk ELSE At(o, step[i])]
  BY DEF Shifted
<1>2. GAP = 6
  BY DEF GAP, DATAOFF
<1> SUFFICES ASSUME NEW j \in 1..5, j < l
             PROVE  d[j] = old[j]
  OBVIOUS
<1>4. j \in 0..l /\ j \in 0..r /\ j \in 0..newcap /\ j % 6 = j /\ j # 0
  OBVIOUS
<1>5. step[j] = j
  BY <1>1, <1>2, <1>4
<1> QED
  BY <1>1, <1>4, <1>5 DEF At

LEMMA GrownText ==
  ASSUME Width, NEW b, BlockOK(b), NEW newcap \in 0..MaxCap, b.cap < newcap,
         NEW g \in grow(b, newcap)
  PROVE  /\ BlockOK(g) /\ g.len = b.len /\ g.cap = newcap
         /\ \A i \in 1..b.len :
              \/ Text(g)[i] = Text(b)[i]
              \/ i \notin 2..6 /\ b.cap <= SMALL_MAX /\ newcap > SMALL_MAX
<1>1. BlockOK(g) /\ g.len = b.len /\ g.cap = newcap /\ g.room = newcap
  BY GrowOK
<1>2. PICK l, r, old, type : l = b.len /\ r = b.room /\ old = b.data /\ type = GrownType(b, newcap)
  OBVIOUS
<1>3. /\ l \in Nat /\ r \in Nat /\ l \in 0..r /\ old \in [0..r -> Cell] /\ b.cap = r
      /\ newcap \in Nat /\ l < newcap
  BY <1>2, BlockParts, WidthAssumption
<1>4. PICK d \in Moved(b, type, newcap) :
        g = Grown(b, type, newcap, [d EXCEPT ![newcap] = NUL])
  BY <1>2 DEF grow
<1>5. g.data = [d EXCEPT ![newcap] = NUL]
  BY <1>4 DEF Grown
<1>6. \A i \in 1..l : Text(g)[i] = d[i - 1] /\ Text(b)[i] = old[i - 1] /\ i - 1 \in 0..r
  <2> TAKE i \in 1..l
  <2>1. i - 1 # newcap /\ i - 1 \in 0..r
    BY <1>3
  <2>2. g.data[i - 1] = d[i - 1]
    BY <1>5, <2>1
  <2>3. Text(g)[i] = g.data[i - 1] /\ Text(b)[i] = b.data[i - 1]
    BY <1>1, <1>2, TextType
  <2> QED
    BY <1>2, <2>1, <2>2, <2>3
<1>7. CASE type = b.type
  <2>1. d = Kept(old, newcap)
    BY <1>2, <1>7 DEF Moved
  <2>2. \A i \in 0..newcap : i <= r => Kept(old, newcap)[i] = old[i]
    BY <1>3, KeptType
  <2>3. \A i \in 1..l : d[i - 1] = old[i - 1]
    BY <1>3, <2>1, <2>2
  <2> QED
    BY <1>1, <1>2, <1>6, <2>3
<1>8. CASE type # b.type
  <2>1. PICK c \in CapTopByte(newcap) : d \in Shifted([old EXCEPT ![0] = c], l, newcap)
    BY <1>2, <1>8 DEF Moved
  <2>2. c \in Cell
    BY NULType DEF CapTopByte
  <2>3. \A j \in 1..5 : j < l => d[j] = old[j]
    <3>1. PICK o : o = [old EXCEPT ![0] = c]
      OBVIOUS
    <3>2. d \in Shifted(o, l, newcap)
      BY <2>1, <3>1
    <3>3. o \in [0..r -> Cell] /\ \A j \in 0..r : j # 0 => o[j] = old[j]
      BY <1>3, <2>2, <3>1
    <3> QED
      BY <1>3, <3>2, <3>3, ShiftedText
  <2>4. b.cap <= SMALL_MAX /\ newcap > SMALL_MAX
    <3>1. b.type = "TYPE1" /\ type = TYPE_FOR(newcap) /\ type = "TYPE4"
      BY <1>2, <1>8, BlockParts DEF GrownType, TYPE_FOR, Type
    <3> QED
      BY <1>3, <3>1, WidthAssumption DEF BlockOK, TYPE_FOR
  <2>5. \A i \in 1..l : i \in 2..6 => d[i - 1] = old[i - 1]
    <3> TAKE i \in 1..l
    <3> HAVE i \in 2..6
    <3>1. i - 1 \in 1..5 /\ i - 1 < l
      BY <1>3
    <3> QED
      BY <2>3, <3>1
  <2> QED
    BY <1>1, <1>2, <1>6, <2>4, <2>5
<1> QED
  BY <1>7, <1>8

LEMMA Prefix ==
  ASSUME NEW s \in Seq(Byte), NEW t \in Seq(Byte)
  PROVE  SubSeq(s \o t, 1, Len(s)) = s
<1>1. PICK u, n : u = SubSeq(s \o t, 1, Len(s)) /\ n = Len(s)
  OBVIOUS
<1>2. n \in Nat /\ s \o t \in Seq(Byte) /\ n <= Len(s \o t)
  BY <1>1
<1>3. u \in Seq(Byte) /\ Len(u) = n
  BY <1>1, <1>2
<1>4. \A i \in 1..n : u[i] = s[i]
  BY <1>1, <1>2, ConcatProperties
<1>5. u = [i \in 1..n |-> u[i]] /\ s = [i \in 1..n |-> s[i]]
  <2>1. u \in [1..n -> Byte] /\ s \in [1..n -> Byte]
    BY <1>1, <1>3, LenProperties
  <2> QED
    BY <2>1
<1> QED
  BY <1>1, <1>4, <1>5

LEMMA GrownPromised ==
  ASSUME Width, IInv, NEW op, NEW v \in Holding, NEW src \in Texts, AppendGrown(op, v, src)
  PROVE  LET n == Len(StrOf[v]) + Len(src)
         IN /\ Promise!Returns(op, v, n, Len(src))
            /\ n > CapOf[v]
            /\ \E s \in {SubSeq(StrOf'[v], 1, Len(StrOf[v]))} :
                 /\ Promise!Carried(StrOf[v], s, CapOf[v], n)
                 /\ Promise!Becomes(v, s \o src, 2 * n)
            /\ LooseOf' = LooseOf \ {v}
<1>1. PICK b, n : b = Strick(v) /\ n = b.len + Len(src)
  OBVIOUS
<1>2. /\ BlockOK(b) /\ StrOf[v] = Text(b) /\ CapOf[v] = b.cap /\ Len(StrOf[v]) = b.len
      /\ src \in Seq(Byte) /\ v \in Var /\ Len(src) \in Nat
  BY <1>1, Held, TextsType
<1>3. PICK a \in ReallocAt(v), g \in grow(b, 2 * n) :
        Replace(v, a, Appended(g, b.len, src))
  BY <1>1 DEF AppendGrown
<1>4. Returns(op, v, n, Len(src)) /\ n > b.cap /\ 2 * n <= MaxCap
  BY <1>1, <1>2, BlockParts DEF AppendGrown, Fits
<1>5. n \in Nat /\ b.cap \in Nat /\ 2 * n \in 0..MaxCap /\ b.cap < 2 * n /\ n <= 2 * n
  BY <1>1, <1>2, <1>4, BlockParts, WidthAssumption
<1>6. PICK m : m = 2 * n
  OBVIOUS
<1>7. /\ BlockOK(g) /\ g.len = b.len /\ g.cap = m
      /\ \A i \in 1..b.len : \/ Text(g)[i] = Text(b)[i]
                             \/ i \notin 2..6 /\ b.cap <= SMALL_MAX /\ m > SMALL_MAX
  <2>1. m \in 0..MaxCap /\ b.cap < m /\ g \in grow(b, m)
    BY <1>3, <1>5, <1>6
  <2> QED
    BY <1>2, <2>1, GrownText
<1>8. /\ Text(Appended(g, g.len, src)) = Text(g) \o src
      /\ Terminated(Appended(g, g.len, src))
      /\ Appended(g, g.len, src).cap = g.cap
  <2>1. g.len + Len(src) <= g.cap
    BY <1>1, <1>5, <1>6, <1>7
  <2> QED
    BY <1>2, <1>7, <2>1, AppendedText
<1>9. Result(v, Appended(g, g.len, src))
  BY <1>3, <1>7, ReplaceResult
<1>10. PICK s : s = Text(g)
  OBVIOUS
<1>11. s \in Seq(Byte) /\ Len(s) = b.len
  BY <1>7, <1>10, TextType
<1>12. StrOf' = [StrOf EXCEPT ![v] = s \o src] /\ StrOf'[v] = s \o src
  BY <1>2, <1>8, <1>9, <1>10 DEF Result, StrOf
<1>13. s = SubSeq(StrOf'[v], 1, Len(StrOf[v]))
  BY <1>2, <1>11, <1>12, Prefix
<1>14. DOMAIN StrOf[v] = 1..b.len
  BY <1>2, TextType
<1>15. Promise!Carried(StrOf[v], s, CapOf[v], n)
  BY <1>2, <1>6, <1>7, <1>10, <1>11, <1>14 DEF Promise!Carried
<1>16. Promise!Becomes(v, s \o src, 2 * n) /\ LooseOf' = LooseOf \ {v}
  BY <1>6, <1>7, <1>8, <1>9, <1>12 DEF Result, Promise!Becomes
<1> QED
  BY <1>1, <1>2, <1>4, <1>13, <1>15, <1>16, ReturnsSame

LEMMA AppendPromised ==
  ASSUME Width, IInv, NEW v \in Var, NEW src \in Texts
  PROVE  /\ stx_append(v, src) => Promise!Extend("append", v, src)
         /\ stx_append_fmt(v, src) => Promise!Extend("append_fmt", v, src)
<1>1. ASSUME NEW op, v \in Holding, AppendInPlace(op, v, src) \/ AppendGrown(op, v, src)
      PROVE  Promise!Extend(op, v, src)
  <2>1. Promise!Holds(v)
    BY <1>1, Held DEF Promise!Holds
  <2> QED
    BY <1>1, <2>1, InPlacePromised, GrownPromised DEF Promise!Extend
<1>2. ASSUME NEW op, v \in Holding, AppendFailed(op, v, src),
             ~Fits(Strick(v), Len(src)) \/ op = "append_fmt"
      PROVE  Promise!Extend(op, v, src)
  <2>1. Promise!Holds(v) /\ CapOf[v] = Strick(v).cap /\ Len(StrOf[v]) = Strick(v).len
    BY <1>2, Held DEF Promise!Holds
  <2>2. Len(StrOf[v]) + Len(src) > CapOf[v] \/ op = "append_fmt"
    BY <1>2, <2>1, Held, BlockParts, TextsType DEF Fits
  <2>3. Promise!Returns(op, v, 0, Len(src)) /\ Promise!Unchanged
    BY <1>2, SameResult, ReturnsSame DEF AppendFailed
  <2> QED
    BY <2>1, <2>2, <2>3 DEF Promise!Extend
<1> QED
  BY <1>1, <1>2 DEF stx_append, stx_append_fmt

LEMMA StrictPromised ==
  ASSUME Width, IInv, NEW v \in Var, NEW src \in Texts, stx_append_strict(v, src)
  PROVE  Promise!Strict("append_strict", v, src)
<1>1. v \in Holding
  BY DEF stx_append_strict
<1>2. Promise!Holds(v) /\ CapOf[v] = Strick(v).cap /\ Len(StrOf[v]) = Strick(v).len
  BY <1>1, Held DEF Promise!Holds
<1>3. CASE AppendInPlace("append_strict", v, src)
  BY <1>1, <1>2, <1>3, InPlacePromised DEF Promise!Strict
<1>4. CASE /\ ~Fits(Strick(v), Len(src))
           /\ UNCHANGED <<heap, ptr>>
           /\ Returns("append_strict", v, Needed(Strick(v), Len(src)), Len(src))
  <2>1. PICK n : n = Len(StrOf[v]) + Len(src)
    OBVIOUS
  <2>2. n > CapOf[v] /\ Needed(Strick(v), Len(src)) = -n
    BY <1>1, <1>2, <1>4, <2>1, Held, BlockParts, TextsType DEF Fits, Needed
  <2>3. Promise!Returns("append_strict", v, -n, Len(src)) /\ Promise!Unchanged
    BY <1>4, <2>2, SameResult, ReturnsSame
  <2> QED
    BY <1>2, <2>1, <2>2, <2>3 DEF Promise!Strict, Promise!Unchanged
<1> QED
  BY <1>3, <1>4 DEF stx_append_strict

\* Bytes written behind the text, and the first of them cleared: the same text.
LEMMA UndoneText ==
  ASSUME Width, NEW b, BlockOK(b), NEW data \in [0..b.room -> Cell],
         \A i \in 0..(b.len - 1) : data[i] = b.data[i]
  PROVE  /\ Text(Undone(b, data)) = Text(b)
         /\ Terminated(Undone(b, data))
         /\ Undone(b, data).cap = b.cap
<1>1. PICK r, l, old, o, s : /\ r = b.room /\ l = b.len /\ old = b.data /\ o = data /\ s = <<NUL>>
  OBVIOUS
<1>2. /\ l \in Nat /\ r \in Nat /\ l <= r /\ NUL \in Byte /\ o \in [0..r -> Cell]
      /\ old \in [0..r -> Cell] /\ \A i \in 0..(l - 1) : o[i] = old[i]
  BY <1>1, BlockParts, WidthAssumption, ByteAssumption
<1>3. PICK d : d = Write(o, l, s)
  OBVIOUS
<1>4. /\ Write(o, l, s) \in [0..r -> Cell]
      /\ \A i \in 0..r : Write(o, l, s)[i] = IF i = l THEN NUL ELSE o[i]
  <2>1. s = <<NUL>>
    BY <1>1
  <2>2. Write(o, l, <<NUL>>) = WithByte(r, o, l, NUL)
    BY <1>2, WriteOne
  <2> QED
    BY <1>2, <2>1, <2>2, NULType DEF WithByte
<1>5. /\ d \in [0..r -> Cell] /\ d[l] = NUL
      /\ \A i \in 0..(l - 1) : d[i] = old[i]
  BY <1>2, <1>3, <1>4
<1>6. PICK c : c = [b EXCEPT !.data = d]
  OBVIOUS
<1>7. c.len = l /\ c.cap = b.cap /\ c.data = d
  BY <1>1, <1>6, BlockParts
<1>8. \A i \in 1..l : At(d, i - 1) = At(old, i - 1)
  <2> TAKE i \in 1..l
  <2>1. i - 1 \in 0..(l - 1) /\ i - 1 \in 0..r
    BY <1>2
  <2> QED
    BY <1>2, <1>5, <2>1 DEF At
<1>9. Text(c) = Text(b)
  BY <1>1, <1>7, <1>8 DEF Text
<1>10. Terminated(c)
  BY <1>2, <1>5, <1>7 DEF Terminated, At
<1>11. c = Undone(b, data)
  BY <1>1, <1>3, <1>6 DEF Undone
<1> QED
  BY <1>7, <1>9, <1>10, <1>11

\* A block that says what the old one said.
LEMMA SaysTheSame ==
  ASSUME IInv, NEW v \in Holding, NEW c, Result(v, c), Text(c) = Text(Strick(v)),
         c.cap = Strick(v).cap
  PROVE  /\ UNCHANGED <<StrOf, CapOf>>
         /\ Terminated(c) => LooseOf' = LooseOf \ {v}
         /\ LooseOf' = IF Terminated(c) THEN LooseOf \ {v} ELSE LooseOf \cup {v}
<1>1. Text(c) = StrOf[v] /\ c.cap = CapOf[v] /\ v \in Var
  BY Held
<1>2. StrOf' = [StrOf EXCEPT ![v] = StrOf[v]] /\ CapOf' = [CapOf EXCEPT ![v] = CapOf[v]]
  BY <1>1 DEF Result
<1>3. StrOf' = StrOf /\ CapOf' = CapOf
  BY <1>2 DEF StrOf, CapOf
<1> QED
  BY <1>3 DEF Result

LEMMA FmtStrictPromised ==
  ASSUME Width, IInv, NEW v \in Var, NEW out \in Texts, stx_append_fmt_strict(v, out)
  PROVE  Promise!StrictFmt(v, out)
<1> DEFINE b == Strick(v)
           spc == (b.cap - b.len) % U32
           totlen == b.len + Len(out)
           written == Write(b.data, b.len, Append(Cut(out, spc), NUL))
           spoilt == [i \in DOMAIN b.data |->
                        IF i >= b.len /\ i < b.len + spc THEN Junk ELSE b.data[i]]
           Ret(rc) == Returns("append_fmt_strict", v, rc, Len(out))
<1>1. v \in Holding /\ BlockOK(b)
  BY StrickOK DEF stx_append_fmt_strict, IInv
<1>2. PICK l, r, old : l = b.len /\ r = b.room /\ old = b.data
  OBVIOUS
<1>3. /\ l \in Nat /\ r \in Nat /\ l <= r /\ b.cap = r /\ r \in 0..MaxCap
      /\ old \in [0..r -> Cell] /\ out \in Seq(Byte) /\ Len(out) \in Nat
  BY <1>1, <1>2, BlockParts, TextsType, WidthAssumption
<1>4. spc \in Nat /\ spc = r - l
  <2>1. r - l \in Nat /\ r - l < U32 /\ U32 \in Nat
    BY <1>3, U32Type, WidthAssumption DEF Width
  <2>2. (r - l) % U32 = r - l
    BY <2>1, ModSmall
  <2> QED
    BY <1>2, <1>3, <2>1, <2>2
<1>5. Promise!Holds(v) /\ CapOf[v] = r /\ Len(StrOf[v]) = l
  BY <1>1, <1>2, <1>3, Held DEF Promise!Holds
<1>6. PICK n : n = Len(StrOf[v]) + Len(out)
  OBVIOUS
<1>7. n = l + Len(out) /\ n \in Nat /\ totlen = n /\ Needed(b, Len(out)) = -n
  BY <1>2, <1>3, <1>5, <1>6 DEF Needed
<1>8. Fits(b, Len(out)) <=> n <= r
  BY <1>2, <1>3, <1>7 DEF Fits
<1> HIDE DEF spc
<1>9. CASE spc = 0 /\ Ret(0) /\ UNCHANGED <<heap, ptr>>
  <2>1. l = r
    BY <1>3, <1>4, <1>9
  <2>2. Promise!Unchanged /\ Promise!Returns("append_fmt_strict", v, 0, Len(out))
    BY <1>9, SameResult, ReturnsSame
  <2> QED
    BY <1>5, <2>1, <2>2 DEF Promise!StrictFmt, Promise!Unchanged
<1>10. CASE /\ spc > 0 /\ Fits(b, Len(out)) /\ Ret(totlen)
            /\ Replace(v, ptr[v], Written(b, totlen, written))
  <2>1. Cut(out, spc) = out
    BY <1>3, <1>4, <1>7, <1>8, <1>10 DEF Cut
  <2>2. PICK c : c = Appended(b, b.len, out)
    OBVIOUS
  <2>3. Replace(v, ptr[v], c)
    BY <1>10, <2>1, <2>2 DEF Appended
  <2>4. Result(v, c)
    BY <1>1, <2>3, OwnPlace, ReplaceResult
  <2>5. Text(c) = StrOf[v] \o out /\ Terminated(c) /\ c.cap = CapOf[v]
    <3>1. Width /\ BlockOK(b) /\ out \in Seq(Byte) /\ b.len + Len(out) <= b.cap
      BY <1>1, <1>2, <1>3, <1>7, <1>8, <1>10
    <3>2. /\ Text(c) = Text(b) \o out /\ Terminated(c) /\ c.cap = b.cap
      BY <2>2, <3>1, AppendedText
    <3>3. StrOf[v] = Text(b) /\ CapOf[v] = b.cap
      BY <1>1, Held
    <3> QED
      BY <3>2, <3>3
  <2>6. Promise!Becomes(v, StrOf[v] \o out, CapOf[v]) /\ LooseOf' = LooseOf \ {v}
    BY <2>4, <2>5 DEF Result, Promise!Becomes
  <2>7. Promise!Returns("append_fmt_strict", v, n, Len(out)) /\ n <= CapOf[v]
    BY <1>5, <1>7, <1>8, <1>10, ReturnsSame
  <2> QED
    BY <1>5, <1>6, <2>6, <2>7 DEF Promise!StrictFmt, Promise!Strict
<1>11. CASE /\ ~Fits(b, Len(out)) /\ Ret(Needed(b, Len(out)))
            /\ Replace(v, ptr[v], Undone(b, written))
  <2>1. PICK s : s = Append(Cut(out, spc), NUL)
    OBVIOUS
  <2>2. s \in Seq(Byte)
    BY <1>3, <1>4, <2>1, CutType, AppendNUL
  <2>3. PICK w : w = Write(old, l, s)
    OBVIOUS
  <2>4. w \in [0..r -> Cell] /\ \A i \in 0..(l - 1) : w[i] = old[i]
    <3>1. /\ Write(old, l, s) \in [0..r -> Cell]
          /\ \A i \in 0..r : i < l \/ i >= l + Len(s) => Write(old, l, s)[i] = old[i]
      <4>1. Lands(Write(old, l, s), r, old, l, s)
        BY <1>3, <2>2, WriteLands
      <4> QED
        BY <4>1 DEF Lands
    <3> QED
      BY <1>3, <2>3, <3>1
  <2>5. w = written
    BY <1>2, <2>1, <2>3
  <2>6. PICK c : c = Undone(b, w)
    OBVIOUS
  <2>7. Text(c) = Text(b) /\ Terminated(c) /\ c.cap = b.cap
    BY <1>1, <1>2, <2>4, <2>6, UndoneText
  <2>8. Result(v, c)
    BY <1>1, <1>11, <2>5, <2>6, OwnPlace, ReplaceResult
  <2>9. UNCHANGED <<StrOf, CapOf>> /\ LooseOf' = LooseOf \ {v}
    BY <1>1, <2>7, <2>8, SaysTheSame
  <2>10. Promise!Returns("append_fmt_strict", v, -n, Len(out)) /\ n > CapOf[v]
    BY <1>3, <1>5, <1>7, <1>8, <1>11, ReturnsSame
  <2> QED
    BY <1>5, <1>6, <2>9, <2>10 DEF Promise!StrictFmt, Promise!Strict
<1>12. CASE spc > 0 /\ Ret(0) /\ Replace(v, ptr[v], Undone(b, spoilt))
  <2>1. spoilt = [i \in 0..r |-> IF i >= l /\ i < l + spc THEN Junk ELSE old[i]]
    BY <1>2, <1>3
  <2>2. spoilt \in [0..r -> Cell] /\ \A i \in 0..(l - 1) : spoilt[i] = old[i]
    <3>1. Junk \in Cell /\ l \in Nat /\ r \in Nat /\ l <= r /\ spc \in Nat /\ old \in [0..r -> Cell]
      BY <1>3, <1>4, NULType
    <3> QED
      BY <2>1, <3>1
  <2>3. PICK w, c : w = spoilt /\ c = Undone(b, w)
    OBVIOUS
  <2>4. Text(c) = Text(b) /\ Terminated(c) /\ c.cap = b.cap
    BY <1>1, <1>2, <2>2, <2>3, UndoneText
  <2>5. Result(v, c)
    BY <1>1, <1>12, <2>3, OwnPlace, ReplaceResult
  <2>6. UNCHANGED <<StrOf, CapOf>> /\ LooseOf' = LooseOf \ {v}
    BY <1>1, <2>4, <2>5, SaysTheSame
  <2>7. Promise!Returns("append_fmt_strict", v, 0, Len(out)) /\ l # r
    BY <1>3, <1>4, <1>12, ReturnsSame
  <2> QED
    BY <1>5, <2>6, <2>7 DEF Promise!StrictFmt
<1> QED
  BY <1>9, <1>10, <1>11, <1>12, Zenon DEF stx_append_fmt_strict, spc

-----------------------------------------------------------------------------
(* Adjust, reset, free.                                                    *)

\* What a block of length n and bytes d says.
LEMMA Says ==
  ASSUME NEW c, NEW n \in Nat, NEW r \in Nat, n <= r, NEW d \in [0..r -> Cell],
         c.len = n, c.data = d
  PROVE  /\ Text(c) = [i \in 1..n |-> d[i - 1]]
         /\ Terminated(c) <=> d[n] = NUL
<1>1. \A i \in 1..n : At(d, i - 1) = d[i - 1]
  BY DEF At
<1> QED
  BY <1>1 DEF Text, Terminated, At

\* A piece of a string.
LEMMA Slice ==
  ASSUME NEW s \in Seq(Byte), NEW f \in Nat \ {0}, NEW j \in 0..Len(s), f <= j + 1,
         NEW n, n = j - f + 1
  PROVE  /\ SubSeq(s, f, j) = [i \in 1..n |-> s[f + i - 1]]
         /\ SubSeq(s, f, j) \in Seq(Byte) /\ Len(SubSeq(s, f, j)) = n /\ n \in Nat
<1>1. PICK u : u = SubSeq(s, f, j)
  OBVIOUS
<1>2. n \in Nat /\ j \in Nat /\ j <= Len(s)
  OBVIOUS
<1>3. u \in Seq(Byte) /\ Len(u) = n
  BY <1>1, <1>2
<1>4. \A i \in 1..n : u[i] = s[f + i - 1]
  BY <1>1, <1>2, <1>3
<1>5. u = [i \in 1..n |-> u[i]]
  <2>1. u \in [1..n -> Byte]
    BY <1>3, LenProperties
  <2> QED
    BY <2>1
<1> QED
  BY <1>1, <1>2, <1>3, <1>4, <1>5

\* What realloc left of a block's bytes where c are asked for.
Survive(old, b, c) ==
  /\ old \in [0..c -> Cell]
  /\ \A i \in 0..(NewLen(b, c) - 1) : old[i] = b.data[i]
  /\ NewLen(b, c) < c => old[b.len] \in {NUL, b.data[b.len]}

LEMMA ResizedText ==
  ASSUME Width, NEW b, BlockOK(b), NEW c \in 0..MaxCap, NEW old, Survive(old, b, c)
  PROVE  /\ Resized(b, c, old).cap = c
         /\ Text(Resized(b, c, old)) = IF c < b.len THEN SubSeq(Text(b), 1, c) ELSE Text(b)
         /\ Terminated(b) => Terminated(Resized(b, c, old))
<1>1. PICK d, n, l, r, o : /\ d = [old EXCEPT ![c] = NUL] /\ n = NewLen(b, c)
                           /\ l = b.len /\ r = b.room /\ o = b.data
  OBVIOUS
<1>2. /\ c \in Nat /\ c \in 0..MaxCap /\ l \in Nat /\ r \in Nat /\ l <= r /\ o \in [0..r -> Cell]
      /\ n = IF l < c THEN l ELSE c
  BY <1>1, BlockParts, WidthAssumption DEF NewLen
<1>3. n \in Nat /\ n <= c /\ n <= l /\ n \in 0..MaxCap
  BY <1>2, WidthAssumption
<1>4. d \in [0..c -> Cell] /\ d[c] = NUL /\ \A i \in 0..(n - 1) : d[i] = o[i]
  BY <1>1, <1>2, <1>3, NULType DEF Survive
<1>5. Stored(TYPE_FOR(c), c) = c /\ Stored(TYPE_FOR(c), n) = n
  BY <1>2, <1>3, TypeForType, StoredExact, WidthAssumption
<1>6. PICK q : q = Resized(b, c, old)
  OBVIOUS
<1>7. q.cap = c /\ q.len = n /\ q.data = d
  BY <1>1, <1>5, <1>6 DEF Resized, MakeBlock
<1>8. /\ Text(q) = [i \in 1..n |-> d[i - 1]]
      /\ Terminated(q) <=> d[n] = NUL
  BY <1>2, <1>3, <1>4, <1>7, Says
<1>9. Text(q) = [i \in 1..n |-> o[i - 1]]
  <2>1. \A i \in 1..n : d[i - 1] = o[i - 1]
    BY <1>3, <1>4
  <2> QED
    BY <1>8, <2>1
<1>10. PICK t : t = Text(b)
  OBVIOUS
<1>11. /\ t \in Seq(Byte) /\ Len(t) = l /\ t = [i \in 1..l |-> o[i - 1]]
       /\ \A i \in 1..l : t[i] = o[i - 1]
  BY <1>1, <1>10, TextType
<1>12. Text(q) = IF c < l THEN SubSeq(t, 1, c) ELSE t
  <2>1. CASE c < l
    <3>1. n = c /\ 1 \in Nat \ {0} /\ c \in 0..Len(t) /\ 1 <= c + 1 /\ c = c - 1 + 1
      BY <1>2, <1>11, <2>1
    <3>2. SubSeq(t, 1, c) = [i \in 1..c |-> t[1 + i - 1]]
      BY <1>11, <3>1, Slice
    <3>3. \A i \in 1..c : t[1 + i - 1] = o[i - 1]
      BY <1>2, <1>11, <2>1
    <3> QED
      BY <1>9, <2>1, <3>1, <3>2, <3>3
  <2>2. CASE ~(c < l)
    <3>1. n = l
      BY <1>2, <2>2
    <3> QED
      BY <1>9, <1>11, <2>2, <3>1
  <2> QED
    BY <2>1, <2>2
<1>13. Terminated(b) => Terminated(q)
  <2>1. Terminated(b) <=> o[l] = NUL
    <3>1. b.len = l /\ b.data = o /\ l \in Nat /\ r \in Nat /\ l <= r /\ o \in [0..r -> Cell]
      BY <1>1, <1>2
    <3> QED
      BY <3>1 DEF Terminated, At
  <2>2. n < c => n = l /\ l # c
    BY <1>2
  <2>3. n < c => d[l] = old[l]
    BY <1>1, <1>2, <2>2
  <2>4. n < c => old[l] \in {NUL, o[l]}
    BY <1>1 DEF Survive
  <2>5. d[c] = NUL /\ (Terminated(q) <=> d[n] = NUL)
    BY <1>4, <1>8
  <2>6. n < c \/ n = c
    BY <1>2
  <2> QED
    BY <2>1, <2>2, <2>3, <2>4, <2>5, <2>6
<1> QED
  BY <1>1, <1>6, <1>7, <1>10, <1>12, <1>13

LEMMA ResizePromised ==
  ASSUME Width, IInv, NEW v \in Var, NEW newcap \in Caps, stx_resize(v, newcap)
  PROVE  Promise!Resize(v, newcap)
<1>1. PICK b, r, old, n, l : /\ b = Strick(v) /\ r = b.room /\ old = b.data
                             /\ n = NewLen(b, newcap) /\ l = b.len
  OBVIOUS
<1>2. v \in Holding
  BY DEF stx_resize
<1>3. BlockOK(b)
  BY <1>1, <1>2, StrickOK DEF IInv
<1>4. /\ newcap \in Nat /\ newcap \in 0..MaxCap /\ r \in Nat /\ l \in Nat /\ l <= r
      /\ b.cap = r /\ old \in [0..r -> Cell]
      /\ n = IF l < newcap THEN l ELSE newcap
  BY <1>1, <1>3, BlockParts, WidthAssumption DEF NewLen
<1>5. Promise!Holds(v) /\ CapOf[v] = r /\ StrOf[v] = Text(b) /\ Len(StrOf[v]) = l
  BY <1>1, <1>2, <1>4, Held DEF Promise!Holds
<1>6. CASE UNCHANGED <<heap, ptr>> /\ Returns("resize", v, 0, newcap)
  BY <1>5, <1>6, SameResult, ReturnsSame DEF Promise!Resize
<1>7. CASE newcap = b.cap /\ UNCHANGED <<heap, ptr>> /\ Returns("resize", v, 1, newcap)
  <2>1. Promise!Unchanged /\ Promise!Returns("resize", v, 1, newcap)
    BY <1>7, SameResult, ReturnsSame
  <2>2. newcap = CapOf[v] /\ ~(newcap < Len(StrOf[v]))
    BY <1>4, <1>5, <1>7
  <2>3. Promise!Becomes(v, StrOf[v], newcap)
    BY <2>1, <2>2 DEF Promise!Unchanged, Promise!Becomes, StrOf, CapOf
  <2> QED
    BY <1>5, <2>1, <2>2, <2>3 DEF Promise!Resize, Promise!Unchanged
<1>8. ASSUME NEW a \in ReallocAt(v), NEW d \in [0..newcap -> Cell],
             \A i \in 0..(n - 1) : d[i] = old[i],
             n < newcap => d[l] \in {NUL, old[l]},
             Replace(v, a, Resized(b, newcap, d)), Returns("resize", v, 1, newcap)
      PROVE  Promise!Resize(v, newcap)
  <2>1. PICK c : c = Resized(b, newcap, d)
    OBVIOUS
  <2>2. /\ c.cap = newcap
        /\ Text(c) = IF newcap < l THEN SubSeq(Text(b), 1, newcap) ELSE Text(b)
        /\ Terminated(b) => Terminated(c)
    <3>1. Survive(d, b, newcap)
      BY <1>1, <1>8 DEF Survive
    <3>2. Width /\ BlockOK(b) /\ newcap \in 0..MaxCap
      BY <1>3, <1>4
    <3> QED
      BY <1>1, <2>1, <3>1, <3>2, ResizedText
  <2>3. Result(v, c)
    BY <1>2, <1>8, <2>1, ReplaceResult
  <2>4. v \in LooseOf <=> ~Terminated(b)
    BY <1>1, <1>2, Held
  <2>5. LooseOf' \in {LooseOf, LooseOf \ {v}}
    BY <2>2, <2>3, <2>4 DEF Result
  <2>6. Promise!Becomes(v, Text(c), newcap)
    BY <2>2, <2>3 DEF Result, Promise!Becomes
  <2> QED
    BY <1>5, <1>8, <2>2, <2>5, <2>6, ReturnsSame DEF Promise!Resize
<1>9. CASE /\ \E a \in ReallocAt(v) : Replace(v, a, Resized(b, newcap, Kept(old, newcap)))
           /\ Returns("resize", v, 1, newcap)
  <2>1. PICK d : d = Kept(old, newcap)
    OBVIOUS
  <2>2. d \in [0..newcap -> Cell] /\ \A i \in 0..newcap : i <= r => d[i] = old[i]
    BY <1>4, <2>1, KeptType
  <2>3. /\ \A i \in 0..(n - 1) : d[i] = old[i]
        /\ n < newcap => d[l] \in {NUL, old[l]}
    BY <1>4, <2>2
  <2> QED
    BY <1>8, <1>9, <2>1, <2>2, <2>3
<1>10. CASE /\ \E a \in Unused : Replace(v, a, Resized(b, newcap, Copied(b, n, newcap)))
            /\ Returns("resize", v, 1, newcap)
  <2>1. PICK d : d = Copied(b, n, newcap)
    OBVIOUS
  <2>2. d = [i \in 0..newcap |-> IF i < n THEN At(old, i) ELSE IF i = n THEN NUL ELSE Junk]
    BY <1>1, <2>1 DEF Copied
  <2>3. \A i \in 0..(n - 1) : At(old, i) = old[i] /\ old[i] \in Cell
    BY <1>4 DEF At
  <2>4. d \in [0..newcap -> Cell]
    BY <1>4, <2>2, <2>3, NULType
  <2>5. /\ \A i \in 0..(n - 1) : d[i] = old[i]
        /\ n < newcap => d[l] \in {NUL, old[l]}
    BY <1>4, <2>2, <2>3
  <2>6. Unused \subseteq ReallocAt(v)
    BY DEF ReallocAt
  <2> QED
    BY <1>8, <1>10, <2>1, <2>4, <2>5, <2>6
<1> QED
  BY <1>1, <1>6, <1>7, <1>9, <1>10 DEF stx_resize

LEMMA ResetPromised ==
  ASSUME Width, IInv, NEW v \in Var, stx_reset(v)
  PROVE  Promise!Reset(v)
<1>1. PICK b, r, old, s : b = Strick(v) /\ r = b.room /\ old = b.data /\ s = <<NUL>>
  OBVIOUS
<1>2. v \in Holding
  BY DEF stx_reset
<1>3. BlockOK(b)
  BY <1>1, <1>2, StrickOK DEF IInv
<1>4. /\ r \in Nat /\ old \in [0..r -> Cell] /\ b.cap = r /\ b.type \in Type /\ NUL \in Byte
      /\ 0 \in 0..MaxCap /\ 0 \in Nat
  BY <1>1, <1>3, BlockParts, WidthAssumption, ByteAssumption
<1>5. PICK d : d = Write(old, 0, s)
  OBVIOUS
<1>6. d \in [0..r -> Cell] /\ d[0] = NUL
  <2>1. s = <<NUL>>
    BY <1>1
  <2>2. /\ Write(old, 0, s) \in [0..r -> Cell]
        /\ \A i \in 0..r : Write(old, 0, s)[i] = IF i = 0 THEN NUL ELSE old[i]
    <3>1. Write(old, 0, <<NUL>>) = WithByte(r, old, 0, NUL)
      BY <1>4, WriteOne
    <3> QED
      BY <1>4, <2>1, <3>1, NULType DEF WithByte
  <2> QED
    BY <1>4, <1>5, <2>2
<1>7. Stored(b.type, 0) = 0
  BY <1>4, StoredExact, WidthAssumption
<1>8. PICK c : c = Written(b, 0, d)
  OBVIOUS
<1>9. c.len = 0 /\ c.cap = b.cap /\ c.data = d
  <2>1. c = [b EXCEPT !.len = 0, !.data = d]
    BY <1>7, <1>8 DEF Written
  <2> QED
    BY <1>3, <2>1, BlockParts
<1>10. Text(c) = <<>> /\ Terminated(c)
  <2>1. Text(c) = [i \in 1..0 |-> d[i - 1]] /\ Terminated(c)
    BY <1>4, <1>6, <1>9, Says
  <2> QED
    BY <2>1
<1>11. Result(v, c)
  BY <1>1, <1>2, <1>5, <1>8, OwnPlace, ReplaceResult DEF stx_reset
<1>12. Promise!Holds(v) /\ CapOf[v] = b.cap
  BY <1>1, <1>2, Held DEF Promise!Holds
<1> QED
  BY <1>9, <1>10, <1>11, <1>12, ReturnsSame DEF stx_reset, Result, Promise!Reset, Promise!Becomes

LEMMA FreePromised ==
  ASSUME IInv, NEW v \in Var, stx_free(v)
  PROVE  Promise!Free(v)
<1>1. v \in Holding /\ Holding' = Holding \ {v} /\ v \notin Holding'
  BY DEF stx_free, Holding, IInv, PtrOK
<1>2. Elsewhere(v)
  BY FreeElsewhere
<1>3. \A w \in Holding' : w \in Holding /\ Strick(w)' = Strick(w)
  BY <1>1, <1>2 DEF Elsewhere, Strick, After
<1>4. StrOf' = [StrOf EXCEPT ![v] = NULL]
  <2>1. \A w \in Var : StrOf'[w] = IF w = v THEN NULL ELSE StrOf[w]
    BY <1>1, <1>3 DEF StrOf
  <2> QED
    BY <2>1 DEF StrOf
<1>5. CapOf' = [CapOf EXCEPT ![v] = 0]
  <2>1. \A w \in Var : CapOf'[w] = IF w = v THEN 0 ELSE CapOf[w]
    BY <1>1, <1>3 DEF CapOf
  <2> QED
    BY <2>1 DEF CapOf
<1>6. LooseOf' = LooseOf \ {v}
  BY <1>1, <1>3 DEF LooseOf
<1> QED
  BY <1>1, <1>4, <1>5, <1>6, Held, ReturnsSame
  DEF stx_free, Promise!Free, Promise!Holds, Promise!Becomes

LEMMA WritePromised ==
  ASSUME Width, IInv, NEW v \in Var, NEW i \in 0..MaxCap, NEW ch \in UserBytes,
         UserWrite(v, i, ch)
  PROVE  Promise!Write(v, i, ch)
<1>1. PICK b, r, l, old, s : /\ b = Strick(v) /\ r = b.room /\ l = b.len /\ old = b.data
                             /\ s = <<ch>>
  OBVIOUS
<1>2. v \in Holding
  BY DEF UserWrite
<1>3. BlockOK(b)
  BY <1>1, <1>2, StrickOK DEF IInv
<1>4. /\ r \in Nat /\ l \in Nat /\ l <= r /\ old \in [0..r -> Cell] /\ b.cap = r
      /\ ch \in Byte /\ i \in Nat /\ i < r
  BY <1>1, <1>3, BlockParts, WidthAssumption, TextsAssumption DEF UserWrite
<1>5. PICK d : d = Write(old, i, s)
  OBVIOUS
<1>6. d \in [0..r -> Cell] /\ \A k \in 0..r : d[k] = IF k = i THEN ch ELSE old[k]
  <2>1. s = <<ch>>
    BY <1>1
  <2>2. /\ Write(old, i, s) \in [0..r -> Cell]
        /\ \A k \in 0..r : Write(old, i, s)[k] = IF k = i THEN ch ELSE old[k]
    <3>1. Write(old, i, <<ch>>) = WithByte(r, old, i, ch)
      BY <1>4, WriteOne
    <3> QED
      BY <1>4, <2>1, <3>1, NULType DEF WithByte
  <2> QED
    BY <1>5, <2>2
<1>7. PICK c : c = [b EXCEPT !.data = d]
  OBVIOUS
<1>8. c.len = l /\ c.cap = b.cap /\ c.data = d
  BY <1>1, <1>3, <1>7, BlockParts
<1>9. /\ Text(c) = [k \in 1..l |-> d[k - 1]]
      /\ Terminated(c) <=> d[l] = NUL
  BY <1>4, <1>6, <1>8, Says
<1>10. Terminated(b) <=> old[l] = NUL
  <2>1. b.len = l /\ b.data = old /\ l \in 0..r /\ DOMAIN old = 0..r
    BY <1>1, <1>4
  <2> QED
    BY <2>1 DEF Terminated, At
<1>11. PICK t : t = Text(b)
  OBVIOUS
<1>12. t \in Seq(Byte) /\ Len(t) = l /\ t = [k \in 1..l |-> old[k - 1]]
  BY <1>1, <1>3, <1>11, TextType
<1>13. Text(c) = IF i < l THEN [t EXCEPT ![i + 1] = ch] ELSE t
  <2>1. \A k \in 1..l : d[k - 1] = IF k = i + 1 THEN ch ELSE old[k - 1]
    BY <1>4, <1>6
  <2>2. CASE i < l
    <3>1. i + 1 \in 1..l
      BY <1>4, <2>2
    <3>2. [t EXCEPT ![i + 1] = ch] = [k \in 1..l |-> IF k = i + 1 THEN ch ELSE old[k - 1]]
      BY <1>12, <3>1
    <3> QED
      BY <1>9, <2>1, <2>2, <3>2
  <2>3. CASE ~(i < l)
    <3>1. \A k \in 1..l : d[k - 1] = old[k - 1]
      BY <1>4, <2>1, <2>3
    <3> QED
      BY <1>9, <1>12, <2>3, <3>1
  <2> QED
    BY <2>2, <2>3
<1>14. Result(v, c)
  BY <1>1, <1>2, <1>5, <1>7, OwnPlace, ReplaceResult DEF UserWrite
<1>15. Promise!Holds(v) /\ CapOf[v] = r /\ StrOf[v] = t /\ (v \in LooseOf <=> ~Terminated(b))
  BY <1>1, <1>2, <1>4, <1>11, Held DEF Promise!Holds
<1>16. StrOf' = [StrOf EXCEPT ![v] = IF i < Len(@) THEN [@ EXCEPT ![i + 1] = ch] ELSE @]
  BY <1>12, <1>13, <1>14, <1>15 DEF Result
<1>17. UNCHANGED CapOf
  <2>1. CapOf' = [CapOf EXCEPT ![v] = CapOf[v]]
    BY <1>4, <1>8, <1>14, <1>15 DEF Result
  <2> QED
    BY <2>1 DEF CapOf
<1>18. LooseOf' = IF i # l THEN LooseOf
                  ELSE IF ch = NUL THEN LooseOf \ {v} ELSE LooseOf \cup {v}
  <2>1. d[l] = IF l = i THEN ch ELSE old[l]
    BY <1>4, <1>6
  <2> QED
    BY <1>9, <1>10, <1>14, <1>15, <2>1 DEF Result
<1> QED
  BY <1>4, <1>12, <1>15, <1>16, <1>17, <1>18, ReturnsSame DEF UserWrite, Promise!Write

\* strlen stops at the first NUL: inside the text, or past a terminator the
\* program overwrote, but never past the sentinel.
LEMMA AdjustPromised ==
  ASSUME Width, IInv, NEW v \in Var, stx_adjust(v)
  PROVE  Promise!Adjust(v)
<1>1. PICK b, r, old, l : b = Strick(v) /\ r = b.room /\ old = b.data /\ l = b.len
  OBVIOUS
<1>2. v \in Holding
  BY DEF stx_adjust
<1>3. BlockOK(b)
  BY <1>1, <1>2, StrickOK DEF IInv
<1>4. /\ r \in Nat /\ old \in [0..r -> Cell] /\ old[r] = NUL /\ b.cap = r
      /\ l \in Nat /\ l <= r /\ \A i \in 0..(l - 1) : old[i] # Junk
      /\ r \in 0..MaxCap /\ b.type \in Type /\ (b.type = "TYPE1" => r <= SMALL_MAX)
  BY <1>1, <1>3, BlockParts, WidthAssumption DEF BlockOK
<1> DEFINE Seen(n, seen) ==
             Replace(v, ptr[v],
               Written(Strick(v), n,
                 [i \in DOMAIN Strick(v).data |->
                    IF i \in DOMAIN seen THEN seen[i]
                    ELSE IF i = n THEN NUL ELSE Strick(v).data[i]]))
<1>30. PICK n \in 0..(Strick(v).room + 1) :
         /\ At(Strick(v).data, n) \in {NUL, Junk}
         /\ \A i \in 0..(n - 1) : Strick(v).data[i] # NUL
         /\ \E seen \in [{i \in 0..(n - 1) : Strick(v).data[i] = Junk} -> Byte \ {NUL}] :
              Seen(n, seen)
  BY Zenon DEF stx_adjust
<1>5. /\ n \in 0..(r + 1) /\ At(old, n) \in {NUL, Junk}
      /\ \A i \in 0..(n - 1) : old[i] # NUL
  BY <1>1, <1>30
<1>6. n \in 0..r /\ n \in Nat
  <2>1. n <= r
    BY <1>4, <1>5
  <2> QED
    BY <1>4, <1>5, <2>1
<1>7. PICK seen \in [{i \in 0..(n - 1) : old[i] = Junk} -> Byte \ {NUL}] : Seen(n, seen)
  BY <1>1, <1>30
<1>8. PICK d : d = [i \in DOMAIN old |-> IF i \in DOMAIN seen THEN seen[i]
                                        ELSE IF i = n THEN NUL ELSE old[i]]
  OBVIOUS
<1>9. DOMAIN old = 0..r /\ DOMAIN seen = {i \in 0..(n - 1) : old[i] = Junk}
  BY <1>4
<1>10. \A i \in DOMAIN seen : seen[i] \in Byte /\ seen[i] # NUL /\ i < n
  BY <1>6, <1>9
<1>11. d \in [0..r -> Cell] /\ d[n] = NUL
  BY <1>4, <1>6, <1>8, <1>9, <1>10, NULType
<1>12. \A i \in 0..(n - 1) : d[i] # NUL /\ (i < l => d[i] = old[i])
  <2> TAKE i \in 0..(n - 1)
  <2>1. i \in 0..r /\ i # n
    BY <1>4, <1>6
  <2>2. i < l => i \notin DOMAIN seen
    BY <1>4, <1>6, <1>9
  <2>3. d[i] = IF i \in DOMAIN seen THEN seen[i] ELSE old[i]
    BY <1>8, <1>9, <2>1
  <2> QED
    BY <1>5, <1>10, <2>2, <2>3
<1>13. PICK c : c = Written(b, n, d)
  OBVIOUS
<1>14. Stored(b.type, n) = n
  <2>1. n \in 0..MaxCap /\ (b.type = "TYPE1" => n <= SMALL_MAX)
    BY <1>4, <1>6, WidthAssumption
  <2> QED
    BY <1>4, <2>1, StoredExact
<1>15. c.len = n /\ c.cap = r /\ c.data = d
  <2>1. c = [b EXCEPT !.len = n, !.data = d]
    BY <1>13, <1>14 DEF Written
  <2> QED
    BY <1>3, <1>4, <2>1, BlockParts
<1>16. Text(c) = [i \in 1..n |-> d[i - 1]] /\ Terminated(c)
  <2>1. n \in Nat /\ r \in Nat /\ n <= r /\ d \in [0..r -> Cell] /\ c.len = n /\ c.data = d
    BY <1>4, <1>6, <1>11, <1>15
  <2>2. d[n] = NUL
    BY <1>4, <1>6, <1>11, <1>15
  <2>3. Text(c) = [i \in 1..n |-> d[i - 1]] /\ (Terminated(c) <=> d[n] = NUL)
    <3>1. (\A i \in 1..n : At(d, i - 1) = d[i - 1]) /\ At(d, n) = d[n]
      BY <2>1 DEF At
    <3> QED
      BY <2>1, <3>1 DEF Text, Terminated
  <2> QED
    BY <2>2, <2>3
<1>17. PICK t, u : t = Text(b) /\ u = Text(c)
  OBVIOUS
<1>18. t \in Seq(Byte) /\ Len(t) = l /\ t = [i \in 1..l |-> old[i - 1]]
  BY <1>1, <1>3, <1>17, TextType
<1>19. u = [i \in 1..n |-> d[i - 1]] /\ Len(u) = n
  BY <1>6, <1>16, <1>17
<1>20. Result(v, c)
  <2>1. Replace(v, ptr[v], c)
    BY <1>1, <1>7, <1>8, <1>13
  <2> QED
    BY <1>2, <2>1, OwnPlace, ReplaceResult
<1>21. Promise!Holds(v) /\ CapOf[v] = r /\ StrOf[v] = t /\ (v \in LooseOf <=> ~Terminated(b))
  BY <1>1, <1>2, <1>4, <1>17, Held DEF Promise!Holds
<1>22. StrOf'[v] = u /\ (\A w \in Var \ {v} : StrOf'[w] = StrOf[w]) /\ LooseOf' = LooseOf \ {v}
  BY <1>16, <1>17, <1>20 DEF Result, StrOf
<1>23. UNCHANGED CapOf
  <2>1. CapOf' = [CapOf EXCEPT ![v] = CapOf[v]]
    BY <1>15, <1>20, <1>21 DEF Result
  <2> QED
    BY <2>1 DEF CapOf
<1>24. \A i \in 1..l : i <= n => t[i] # NUL
  BY <1>5, <1>6, <1>18
<1>25. n < l => t[n + 1] = NUL /\ u = SubSeq(t, 1, n)
  <2> SUFFICES ASSUME n < l
               PROVE  t[n + 1] = NUL /\ u = SubSeq(t, 1, n)
    OBVIOUS
  <2>1. n \in 0..(l - 1) /\ n + 1 \in 1..l /\ At(old, n) = old[n] /\ old[n] # Junk
    BY <1>4, <1>6 DEF At
  <2>2. t[n + 1] = NUL
    BY <1>5, <1>6, <1>18, <2>1
  <2>3. SubSeq(t, 1, n) = [i \in 1..n |-> t[1 + i - 1]]
    <3>1. 1 \in Nat \ {0} /\ n \in 0..Len(t) /\ 1 <= n + 1 /\ n = n - 1 + 1
      BY <1>4, <1>6, <1>18, <2>1
    <3> QED
      BY <1>18, <3>1, Slice
  <2>4. \A i \in 1..n : t[1 + i - 1] = d[i - 1]
    <3> TAKE i \in 1..n
    <3>1. i \in 1..l /\ i - 1 \in 0..(n - 1) /\ i - 1 < l /\ 1 + i - 1 = i
      BY <1>4, <1>6, <2>1
    <3> QED
      BY <1>12, <1>18, <3>1
  <2> QED
    BY <1>19, <2>2, <2>3, <2>4
<1>26. ~(n < l) => Promise!IsPrefix(t, u)
  <2> SUFFICES ASSUME n >= l
               PROVE  SubSeq(t, 1, l) = SubSeq(u, 1, l)
    <3>1. ~(n < l) => Len(t) <= Len(u) /\ Len(t) = l
      BY <1>4, <1>6, <1>18, <1>19
    <3> QED
      BY <1>4, <1>6, <3>1 DEF Promise!IsPrefix
  <2>1. \A i \in 1..l : t[i] = u[i]
    BY <1>4, <1>6, <1>12, <1>18, <1>19
  <2>2. SubSeq(t, 1, l) = [i \in 1..l |-> t[i]] /\ SubSeq(u, 1, l) = [i \in 1..l |-> u[i]]
    BY <1>4, <1>6, <1>18, <1>19
  <2> QED
    BY <2>1, <2>2
<1>27. n > l => v \in LooseOf
  <2>1. b.len = l /\ b.data = old
    BY <1>1
  <2>2. At(old, l) = old[l]
    BY <1>4 DEF At
  <2> QED
    BY <1>4, <1>5, <1>6, <1>21, <2>1, <2>2 DEF Terminated
<1>28. NUL \notin Promise!ToSet(u)
  <2>1. DOMAIN u = 1..n
    BY <1>19
  <2>2. \A i \in 1..n : u[i] # NUL
    BY <1>6, <1>12, <1>19
  <2> QED
    BY <2>1, <2>2 DEF Promise!ToSet
<1>29. \E m \in 0..CapOf[v] :
         /\ \A i \in 1..Len(StrOf[v]) : i <= m => StrOf[v][i] # NUL
         /\ IF m < Len(StrOf[v]) THEN StrOf[v][m + 1] = NUL /\ StrOf'[v] = SubSeq(StrOf[v], 1, m)
            ELSE /\ Len(StrOf'[v]) = m /\ Promise!IsPrefix(StrOf[v], StrOf'[v])
                 /\ m > Len(StrOf[v]) => v \in LooseOf /\ NUL \notin Promise!ToSet(StrOf'[v])
  <2>1. n \in 0..CapOf[v]
    BY <1>6, <1>21
  <2> WITNESS n \in 0..CapOf[v]
  <2> QED
    BY <1>18, <1>19, <1>21, <1>22, <1>24, <1>25, <1>26, <1>27, <1>28
<1> QED
  BY <1>21, <1>22, <1>23, <1>29, ReturnsSame DEF stx_adjust, Promise!Adjust

LEMMA TrimPromised ==
  ASSUME Width, IInv, NEW v \in Var, stx_trim(v)
  PROVE  Promise!Trim(v)
<1>1. PICK b, r, l, old : b = Strick(v) /\ r = b.room /\ l = b.len /\ old = b.data
  OBVIOUS
<1>2. v \in Holding /\ Terminated(b)
  BY <1>1 DEF stx_trim
<1>3. BlockOK(b)
  BY <1>1, <1>2, StrickOK DEF IInv
<1>4. /\ r \in Nat /\ l \in Nat /\ l <= r /\ old \in [0..r -> Cell] /\ b.cap = r
      /\ r \in 0..MaxCap /\ b.type \in Type /\ (b.type = "TYPE1" => r <= SMALL_MAX)
  BY <1>1, <1>3, BlockParts, WidthAssumption DEF BlockOK
<1>5. PICK front \in 0..l, end \in 0..l :
        /\ front <= end
        /\ \A i \in 0..(front - 1) : old[i] \in Space
        /\ old[front] \notin Space
        /\ \A i \in end..(l - 1) : old[i] \in Space
        /\ end > front => old[end - 1] \notin Space
        /\ Replace(v, ptr[v], Trimmed(b, front, end))
  BY <1>1 DEF stx_trim
<1>6. PICK n, d : /\ n = end - front
                  /\ d = [i \in 0..r |-> IF i < n THEN old[front + i]
                                         ELSE IF i = n THEN NUL ELSE old[i]]
  OBVIOUS
<1>7. n \in Nat /\ n \in 0..r /\ n <= l /\ front \in Nat /\ end \in Nat
  BY <1>4, <1>5, <1>6
<1>8. \A i \in 0..(n - 1) : front + i \in 0..r /\ d[i] = old[front + i]
  BY <1>4, <1>5, <1>6, <1>7
<1>9. d \in [0..r -> Cell] /\ d[n] = NUL
  <2>1. d[n] = NUL
    BY <1>4, <1>6, <1>7
  <2>2. \A i \in 0..r : i < n => old[front + i] \in Cell
    BY <1>4, <1>7, <1>8
  <2>3. d \in [0..r -> Cell]
    BY <1>4, <1>6, <2>2, NULType
  <2> QED
    BY <2>1, <2>3
<1>10. Stored(b.type, n) = n
  <2>1. n \in 0..MaxCap /\ (b.type = "TYPE1" => n <= SMALL_MAX)
    BY <1>4, <1>7, WidthAssumption
  <2> QED
    BY <1>4, <2>1, StoredExact
<1>11. PICK c : c = Written(b, n, d)
  OBVIOUS
<1>12. c.len = n /\ c.cap = r /\ c.data = d
  <2>1. c = [b EXCEPT !.len = n, !.data = d]
    BY <1>10, <1>11 DEF Written
  <2> QED
    BY <1>3, <1>4, <2>1, BlockParts
<1>13. Text(c) = [i \in 1..n |-> d[i - 1]] /\ Terminated(c)
  <2>1. n \in Nat /\ r \in Nat /\ n <= r /\ d \in [0..r -> Cell] /\ c.len = n /\ c.data = d
    BY <1>4, <1>7, <1>9, <1>12
  <2>2. d[n] = NUL /\ n \in 0..r
    BY <1>4, <1>7, <1>9, <1>12
  <2>3. Terminated(c)
    BY <2>1, <2>2 DEF Terminated, At
  <2>4. Text(c) = [i \in 1..n |-> d[i - 1]]
    BY <2>1, Says
  <2> QED
    BY <2>3, <2>4
<1>14. PICK t : t = Text(b)
  OBVIOUS
<1>15. t \in Seq(Byte) /\ Len(t) = l /\ t = [i \in 1..l |-> old[i - 1]]
  BY <1>1, <1>3, <1>14, TextType
<1>16. PICK kept : kept = SubSeq(t, front + 1, end)
  OBVIOUS
<1>17. /\ kept = [i \in 1..n |-> t[front + 1 + i - 1]]
       /\ kept \in Seq(Byte) /\ Len(kept) = n
  <2>1. PICK f : f = front + 1
    OBVIOUS
  <2>2. /\ f \in Nat \ {0} /\ end \in 0..Len(t) /\ f <= end + 1 /\ n = end - f + 1
        /\ t \in Seq(Byte)
    BY <1>5, <1>6, <1>7, <1>15, <2>1
  <2>3. /\ SubSeq(t, f, end) = [i \in 1..n |-> t[f + i - 1]]
        /\ SubSeq(t, f, end) \in Seq(Byte) /\ Len(SubSeq(t, f, end)) = n
    BY <2>2, Slice
  <2> QED
    BY <1>16, <2>1, <2>3
<1>18. \A i \in 1..n : kept[i] = old[front + i - 1] /\ d[i - 1] = old[front + i - 1]
  <2> TAKE i \in 1..n
  <2>1. i - 1 \in 0..(n - 1) /\ front + (i - 1) = front + i - 1 /\ front + 1 + i - 1 = front + i
    BY <1>7
  <2>2. front + i \in 1..l /\ (front + i) - 1 = front + i - 1
    BY <1>4, <1>5, <1>6, <1>7
  <2>3. t[front + i] = old[front + i - 1]
    BY <1>15, <2>2
  <2> QED
    BY <1>8, <1>17, <2>1, <2>3
<1>19. Text(c) = kept
  BY <1>13, <1>17, <1>18
<1>20. \A k \in 1..l : k < front + 1 \/ k > end => t[k] \in Space
  BY <1>4, <1>5, <1>7, <1>15
<1>21. kept # <<>> => Head(kept) \notin Space /\ Promise!Last(kept) \notin Space
  <2> SUFFICES ASSUME kept # <<>>
               PROVE  kept[1] \notin Space /\ kept[n] \notin Space
    <3>1. kept # <<>> => Head(kept) = kept[1]
      BY <1>17
    <3> QED
      BY <1>17, <3>1 DEF Promise!Last
  <2>1. n > 0
    BY <1>7, <1>17
  <2>2. kept[1] = old[front] /\ kept[n] = old[end - 1] /\ end > front
    <3>1. 1 \in 1..n /\ n \in 1..n /\ front + 1 - 1 = front /\ front + n - 1 = end - 1
      BY <1>6, <1>7, <2>1
    <3> QED
      BY <1>6, <1>7, <1>18, <2>1, <3>1
  <2> QED
    BY <1>5, <2>2
<1>22. Trimmed(b, front, end) = c
  BY <1>1, <1>4, <1>6, <1>11 DEF Trimmed
<1>23. Result(v, c)
  BY <1>2, <1>5, <1>22, OwnPlace, ReplaceResult
<1>24. /\ Promise!Holds(v) /\ CapOf[v] = r /\ StrOf[v] = t /\ v \notin LooseOf
  BY <1>1, <1>2, <1>4, <1>14, Held DEF Promise!Holds
<1>25. Promise!Becomes(v, kept, r) /\ UNCHANGED LooseOf
  BY <1>12, <1>13, <1>19, <1>23, <1>24 DEF Result, Promise!Becomes
<1>26. front + 1 \in 1..(l + 1) /\ end \in ((front + 1) - 1)..l
  BY <1>4, <1>5, <1>7
<1>27. \E i \in 1..(Len(StrOf[v]) + 1) : \E j \in (i - 1)..Len(StrOf[v]) :
         LET k == SubSeq(StrOf[v], i, j) IN
         /\ \A x \in 1..Len(StrOf[v]) : x < i \/ x > j => StrOf[v][x] \in Space
         /\ k # <<>> => Head(k) \notin Space /\ Promise!Last(k) \notin Space
         /\ Promise!Becomes(v, k, CapOf[v])
  <2>1. front + 1 \in 1..(Len(StrOf[v]) + 1)
    BY <1>15, <1>24, <1>26
  <2>2. end \in ((front + 1) - 1)..Len(StrOf[v])
    BY <1>15, <1>24, <1>26
  <2> WITNESS front + 1 \in 1..(Len(StrOf[v]) + 1), end \in ((front + 1) - 1)..Len(StrOf[v])
  <2> QED
    BY <1>15, <1>16, <1>20, <1>21, <1>24, <1>25
<1> QED
  BY <1>24, <1>25, <1>27, ReturnsSame DEF stx_trim, Promise!Trim

-----------------------------------------------------------------------------
(* Every step.                                                             *)

\* A call of the promise says in ret which call it was.
LEMMA Reported ==
  ASSUME NEW op, NEW v \in Var, NEW rc, NEW n, Promise!Returns(op, v, rc, n)
  PROVE  ret'.op = op /\ ret'.v = v
BY DEF Promise!Returns

LEMMA CallPromised ==
  ASSUME Width, IInv, NEW v \in Var, Call(v)
  PROVE  Promise!Next
<1>1. ASSUME NEW cap \in Caps, stx_new(v, cap)
      PROVE  Promise!Next
  <2>1. Promise!New(v, cap)
    BY <1>1, NewPromised
  <2>2. ret'.op = "new" /\ ret'.v = v
    BY <2>1, Reported DEF Promise!New, Promise!Create
  <2> QED
    BY <1>1, <2>1, <2>2 DEF Promise!Next, Promise!Call
<1>2. ASSUME NEW cap \in Caps, stx_resize(v, cap)
      PROVE  Promise!Next
  <2>1. Promise!Resize(v, cap)
    BY <1>2, ResizePromised
  <2>2. ret'.op = "resize" /\ ret'.v = v
    BY <2>1, Reported DEF Promise!Resize
  <2> QED
    BY <1>2, <2>1, <2>2 DEF Promise!Next, Promise!Call
<1>3. ASSUME NEW src \in Texts, stx_from_len(v, src)
      PROVE  Promise!Next
  <2>1. Promise!From(v, src)
    BY <1>3, FromPromised
  <2>2. ret'.op = "from" /\ ret'.v = v
    BY <2>1, Reported DEF Promise!From, Promise!Create
  <2> QED
    BY <1>3, <2>1, <2>2 DEF Promise!Next, Promise!Call
<1>4. ASSUME NEW src \in Texts, NEW op \in {"append", "append_fmt"}, Promise!Extend(op, v, src)
      PROVE  Promise!Next
  <2>1. ret'.op = op /\ ret'.v = v
    BY <1>4, Reported DEF Promise!Extend
  <2> QED
    BY <1>4, <2>1 DEF Promise!Next, Promise!Call
<1>5. ASSUME NEW src \in Texts, stx_append_strict(v, src)
      PROVE  Promise!Next
  <2>1. Promise!Strict("append_strict", v, src)
    BY <1>5, StrictPromised
  <2>2. ret'.op = "append_strict" /\ ret'.v = v
    BY <2>1, Reported DEF Promise!Strict
  <2> QED
    BY <1>5, <2>1, <2>2 DEF Promise!Next, Promise!Call
<1>6. ASSUME NEW src \in Texts, stx_append_fmt_strict(v, src)
      PROVE  Promise!Next
  <2>1. Promise!StrictFmt(v, src)
    BY <1>6, FmtStrictPromised
  <2>2. ret'.op = "append_fmt_strict" /\ ret'.v = v
    BY <2>1, Reported DEF Promise!StrictFmt, Promise!Strict
  <2> QED
    BY <1>6, <2>1, <2>2 DEF Promise!Next, Promise!Call
<1>7. ASSUME NEW w \in Var, stx_dup(v, w)
      PROVE  Promise!Next
  <2>1. Promise!Dup(v, w)
    BY <1>7, DupPromised
  <2>2. ret'.op = "dup" /\ ret'.v = v
    BY <2>1, Reported DEF Promise!Dup, Promise!Create
  <2> QED
    BY <1>7, <2>1, <2>2 DEF Promise!Next, Promise!Call
<1>8. ASSUME NEW i \in 0..MaxCap, NEW c \in UserBytes, UserWrite(v, i, c)
      PROVE  Promise!Next
  <2>1. Promise!Write(v, i, c)
    BY <1>8, WritePromised
  <2>2. ret'.op = "user_write" /\ ret'.v = v
    BY <2>1, Reported DEF Promise!Write
  <2> QED
    BY <1>8, <2>1, <2>2 DEF Promise!Next, Promise!Call
<1>9. CASE stx_reset(v)
  <2>1. Promise!Reset(v)
    BY <1>9, ResetPromised
  <2>2. ret'.op = "reset" /\ ret'.v = v
    BY <2>1, Reported DEF Promise!Reset
  <2> QED
    BY <2>1, <2>2 DEF Promise!Next, Promise!Call
<1>10. CASE stx_adjust(v)
  <2>1. Promise!Adjust(v)
    BY <1>10, AdjustPromised
  <2>2. ret'.op = "adjust" /\ ret'.v = v
    BY <2>1, Reported DEF Promise!Adjust
  <2> QED
    BY <2>1, <2>2 DEF Promise!Next, Promise!Call
<1>11. CASE stx_trim(v)
  <2>1. Promise!Trim(v)
    BY <1>11, TrimPromised
  <2>2. ret'.op = "trim" /\ ret'.v = v
    BY <2>1, Reported DEF Promise!Trim
  <2> QED
    BY <2>1, <2>2 DEF Promise!Next, Promise!Call
<1>12. CASE stx_free(v)
  <2>1. Promise!Free(v)
    BY <1>12, FreePromised
  <2>2. ret'.op = "free" /\ ret'.v = v
    BY <2>1, Reported DEF Promise!Free
  <2> QED
    BY <2>1, <2>2 DEF Promise!Next, Promise!Call
<1>13. ASSUME NEW src \in Texts, stx_append(v, src) \/ stx_append_fmt(v, src)
       PROVE  Promise!Next
  BY <1>4, <1>13, AppendPromised
<1> QED
  BY <1>1, <1>2, <1>3, <1>5, <1>6, <1>7, <1>8, <1>9, <1>10, <1>11, <1>12, <1>13 DEF Call

\* Every call of src/stx.c does to its string and capacity what StringPromise
\* says that call does, or refuses and does nothing: whatever malloc and realloc
\* answer, wherever the block goes and whatever its unwritten bytes hold.
THEOREM PromiseKept ==
  ASSUME Width
  PROVE  Spec => KeepsPromise
<1>1. Init => Promise!Init
  BY NullAssumption DEF Init, Promise!Init, StrOf, CapOf, LooseOf, Holding
<1>2. IInv /\ [Next]_vars => [Promise!Next]_(Promise!vars)
  <2>1. IInv /\ Next => Promise!Next
    BY NextIsCall, CallPromised
  <2>2. UNCHANGED vars => UNCHANGED Promise!vars
    BY SameResult DEF vars, Promise!vars, Promise!Unchanged
  <2> QED
    BY <2>1, <2>2
<1> QED
  BY <1>1, <1>2, Invariant, PTL DEF Spec, KeepsPromise, Promise!Spec

=============================================================================
