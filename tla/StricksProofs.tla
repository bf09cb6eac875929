---------------------------- MODULE StricksProofs ----------------------------
(***************************************************************************)
(* The invariants of Stricks, proved for every heap, alphabet, SMALL_MAX   *)
(* and set of texts.                                                       *)
(*                                                                         *)
(* None of them is inductive alone: that the header tells the truth is     *)
(* what keeps every write inside its block, writes inside the block are    *)
(* what keeps the sentinel, the sentinel is what stops strlen in           *)
(* stx_adjust, and only a block with one owner can be replaced without     *)
(* touching another.  IInv is their conjunction, with what a TYPE1 header  *)
(* can hold.                                                               *)
(***************************************************************************)
EXTENDS Stricks, SequenceTheorems, TLAPS

\* What every call leaves in a block, and finds in it.
BlockOK(b) ==
  /\ b \in Block
  /\ b.data \in [0..b.room -> Cell]
  /\ b.cap = b.room
  /\ b.len <= b.cap
  /\ b.data[b.room] = NUL
  /\ \A i \in 0..(b.len - 1) : b.data[i] # Junk
  /\ b.type = "TYPE1" => b.cap <= SMALL_MAX
  /\ ~CustomAlloc => b.owner = "libc"

HeapOK == /\ heap \in [Addr -> Block \cup {FREE}]
          /\ \A a \in Live : BlockOK(heap[a])
PtrOK  == ptr \in [Var -> Addr \cup {NULL}]
RetOK  == ret \in [op : Op, v : Var \cup {NULL}, rc : Int, n : Nat]

\* No call writes outside its block, whatever the allocators.
NoOverrun == "overrun" \notin faults
FaultsOK == /\ faults \subseteq {"wrong_family"}
            /\ ~CustomAlloc => faults = {}

IInv == HeapOK /\ PtrOK /\ RetOK /\ FaultsOK /\ OneOwner

\* No capacity overflows a uint32_t.  (Stored takes a larger one modulo 2^32.)
Width == MaxCap < U32

-----------------------------------------------------------------------------
(* Arithmetic and typing of the parts of a block.                          *)

LEMMA U32Type == U32 \in Nat \ {0} /\ U8 \in Nat \ {0}
<1>1. U8 \in Nat \ {0}
  BY WidthAssumption DEF U8
<1>2. U8 * U8 \in Nat \ {0}
  BY <1>1
<1>3. U8 * U8 * U8 \in Nat \ {0}
  BY <1>1, <1>2
<1>4. U8 * U8 * U8 * U8 \in Nat \ {0}
  BY <1>1, <1>3
<1> QED
  BY <1>1, <1>4 DEF U32

LEMMA ModSmall ==
  ASSUME NEW n \in Nat, NEW m \in Nat, n < m
  PROVE  n % m = n
OBVIOUS

\* A number that the type was chosen for is stored as it is.
LEMMA StoredExact ==
  ASSUME Width, NEW type \in Type, NEW n \in 0..MaxCap,
         type = "TYPE1" => n <= SMALL_MAX
  PROVE  Stored(type, n) = n
<1>1. n \in Nat /\ n < U32 /\ (type = "TYPE1" => n < U8)
  BY U32Type, WidthAssumption DEF Width, U8
<1> QED
  BY <1>1, ModSmall, U32Type DEF Stored

LEMMA TypeForType ==
  ASSUME NEW n \in Nat
  PROVE  TYPE_FOR(n) \in Type /\ (TYPE_FOR(n) = "TYPE1" => n <= SMALL_MAX)
BY WidthAssumption DEF TYPE_FOR, Type

LEMMA DataType ==
  ASSUME NEW room \in 0..MaxCap, NEW data \in [0..room -> Cell]
  PROVE  data \in UNION {[0..n -> Cell] : n \in 0..MaxCap}
OBVIOUS

LEMMA AtType ==
  ASSUME NEW n \in Nat, NEW data \in [0..n -> Cell], NEW i \in Int
  PROVE  At(data, i) \in Cell
BY DEF At, Cell

LEMMA FamilyType == StxFamily \in Family /\ (~CustomAlloc => StxFamily = "libc")
BY AllocAssumption DEF StxFamily, Family

LEMMA NULType == NUL \in Cell /\ NUL # Junk /\ Byte \subseteq Cell /\ Junk \notin Byte /\ Junk \in Cell
BY ByteAssumption DEF Cell

LEMMA TextsType ==
  ASSUME NEW s \in Texts
  PROVE  s \in Seq(Byte) /\ Len(s) \in Nat
BY TextsAssumption

\* memcpy of a text: where it lands, and what it leaves alone.
Lands(d, n, data, at, s) ==
  /\ d \in [0..n -> Cell]
  /\ \A i \in 0..n : /\ i < at \/ i >= at + Len(s) => d[i] = data[i]
                     /\ i >= at /\ i < at + Len(s) => d[i] = s[i - at + 1]

LEMMA WriteLands ==
  ASSUME NEW n \in Nat, NEW data \in [0..n -> Cell], NEW at \in Nat, NEW s \in Seq(Byte)
  PROVE  Lands(Write(data, at, s), n, data, at, s)
<1>1. Len(s) \in Nat /\ \A k \in 1..Len(s) : s[k] \in Byte
  OBVIOUS
<1>2. \A i \in 0..n : i >= at /\ i < at + Len(s) => s[i - at + 1] \in Byte
  BY <1>1
<1>3. DOMAIN data = 0..n
  OBVIOUS
<1> QED
  BY <1>1, <1>2, <1>3, NULType DEF Write, Lands

LEMMA AppendNUL ==
  ASSUME NEW s \in Seq(Byte)
  PROVE  /\ Append(s, NUL) \in Seq(Byte)
         /\ Len(Append(s, NUL)) = Len(s) + 1
         /\ Append(s, NUL)[Len(s) + 1] = NUL
BY ByteAssumption

\* realloc, to whatever size.
LEMMA KeptType ==
  ASSUME NEW n \in Nat, NEW data \in [0..n -> Cell], NEW room \in Nat
  PROVE  /\ Kept(data, room) \in [0..room -> Cell]
         /\ \A i \in 0..room : i <= n => Kept(data, room)[i] = data[i]
BY NULType DEF Kept, At

-----------------------------------------------------------------------------
(* Every block a call makes is sound.                                      *)

\* A block put together from parts of the right types.
LEMMA BlockMember ==
  ASSUME NEW type \in Type, NEW cap \in Nat, NEW len \in Nat, NEW room \in 0..MaxCap,
         NEW owner \in Family, NEW data \in [0..room -> Cell]
  PROVE  [type |-> type, cap |-> cap, len |-> len, room |-> room,
          owner |-> owner, data |-> data] \in Block
BY DataType DEF Block

LEMMA MakeBlockOK ==
  ASSUME Width, NEW type \in Type, NEW cap \in 0..MaxCap, NEW len \in 0..cap,
         type = "TYPE1" => cap <= SMALL_MAX,
         NEW owner \in Family, ~CustomAlloc => owner = "libc",
         NEW data \in [0..cap -> Cell], data[cap] = NUL,
         \A i \in 0..(len - 1) : data[i] # Junk
  PROVE  BlockOK(MakeBlock(type, cap, len, owner, data))
<1>1. Stored(type, cap) = cap /\ Stored(type, len) = len
  <2>1. len \in 0..MaxCap /\ (type = "TYPE1" => len <= SMALL_MAX)
    BY WidthAssumption
  <2> QED
    BY <2>1, StoredExact
<1>2. MakeBlock(type, cap, len, owner, data)
        = [type |-> type, cap |-> cap, len |-> len, room |-> cap, owner |-> owner, data |-> data]
  BY <1>1 DEF MakeBlock
<1>3. MakeBlock(type, cap, len, owner, data) \in Block
  BY <1>2, BlockMember, WidthAssumption
<1> QED
  BY <1>2, <1>3, WidthAssumption DEF BlockOK

\* The fields of a sound block.
LEMMA BlockParts ==
  ASSUME NEW b, BlockOK(b)
  PROVE  /\ b.type \in Type /\ b.cap \in Nat /\ b.len \in Nat /\ b.room \in 0..MaxCap
         /\ b.cap = b.room /\ b.len \in 0..b.cap /\ b.cap \in 0..MaxCap /\ b.owner \in Family
         /\ b.data \in [0..b.room -> Cell]
         /\ b = [type |-> b.type, cap |-> b.cap, len |-> b.len, room |-> b.room,
                 owner |-> b.owner, data |-> b.data]
<1>1. b \in Block
  BY DEF BlockOK
<1>2. /\ b.type \in Type /\ b.cap \in Nat /\ b.len \in Nat /\ b.room \in 0..MaxCap /\ b.owner \in Family
      /\ b = [type |-> b.type, cap |-> b.cap, len |-> b.len, room |-> b.room,
              owner |-> b.owner, data |-> b.data]
  BY <1>1 DEF Block
<1> QED
  BY <1>2, WidthAssumption DEF BlockOK

\* Two EXCEPTs on a block.
LEMMA TwoFields ==
  ASSUME NEW b, NEW len, NEW data,
         b = [type |-> b.type, cap |-> b.cap, len |-> b.len, room |-> b.room,
              owner |-> b.owner, data |-> b.data]
  PROVE  [b EXCEPT !.len = len, !.data = data]
           = [type |-> b.type, cap |-> b.cap, len |-> len, room |-> b.room,
              owner |-> b.owner, data |-> data]
<1> DEFINE Rec(l, d) == [type |-> b.type, cap |-> b.cap, len |-> l, room |-> b.room,
                         owner |-> b.owner, data |-> d]
<1>1. [b EXCEPT !.len = len] = Rec(len, b.data)
  OBVIOUS
<1>2. \A c : c = Rec(len, b.data) => [c EXCEPT !.data = data] = Rec(len, data)
  OBVIOUS
<1>3. [[b EXCEPT !.len = len] EXCEPT !.data = data] = Rec(len, data)
  BY <1>1, <1>2, Zenon
<1> QED
  BY <1>3, Zenon

\* A block that keeps its header but for the length: what the calls that work in
\* place leave.
LEMMA WrittenOK ==
  ASSUME Width, NEW b, BlockOK(b), NEW l \in 0..b.cap,
         NEW d \in [0..b.room -> Cell], d[b.room] = NUL,
         \A i \in 0..(l - 1) : d[i] # Junk
  PROVE  BlockOK(Written(b, l, d))
<1> DEFINE c == [type |-> b.type, cap |-> b.cap, len |-> l, room |-> b.room,
                 owner |-> b.owner, data |-> d]
<1>1. l \in 0..MaxCap /\ (b.type = "TYPE1" => l <= SMALL_MAX) /\ l \in Nat
  BY BlockParts, WidthAssumption DEF BlockOK
<1>2. Stored(b.type, l) = l
  BY <1>1, StoredExact, BlockParts
<1>3. c \in Block
  BY <1>1, BlockMember, BlockParts
<1>4. BlockOK(c)
  BY <1>1, <1>3, BlockParts DEF BlockOK
<1>5. b = [type |-> b.type, cap |-> b.cap, len |-> b.len, room |-> b.room,
           owner |-> b.owner, data |-> b.data]
  BY BlockParts
<1>6. [b EXCEPT !.len = l, !.data = d] = c
  BY <1>5, TwoFields, Zenon
<1>7. Written(b, l, d) = c
  BY <1>2, <1>6, Zenon DEF Written
<1> QED
  BY <1>4, <1>7, Zenon

\* The same, the length left alone.
LEMMA RewrittenOK ==
  ASSUME Width, NEW b, BlockOK(b),
         NEW d \in [0..b.room -> Cell], d[b.room] = NUL,
         \A i \in 0..(b.len - 1) : d[i] # Junk
  PROVE  BlockOK([b EXCEPT !.data = d])
<1>1. [b EXCEPT !.data = d]
        = [type |-> b.type, cap |-> b.cap, len |-> b.len, room |-> b.room,
           owner |-> b.owner, data |-> d]
  BY BlockParts
<1>2. [b EXCEPT !.data = d] \in Block
  BY <1>1, BlockMember, BlockParts
<1> QED
  BY <1>1, <1>2 DEF BlockOK

\* All of the first l bytes were written.
Clean(d, l) == \A i \in 0..(l - 1) : d[i] # Junk

\* grow's memcpy: whichever way it runs, what was text is still text.
LEMMA ShiftedOK ==
  ASSUME NEW r \in Nat, NEW old \in [0..r -> Cell], NEW l \in 0..r, Clean(old, l),
         NEW newcap \in Nat, l < newcap, NEW d \in Shifted(old, l, newcap)
  PROVE  d \in [0..newcap -> Cell] /\ Clean(d, l)
<1>1. PICK step \in {[i \in 0..l |-> i], [i \in 0..l |-> i % GAP]} :
        d = [i \in 0..newcap |-> IF i > l THEN Junk ELSE At(old, step[i])]
  BY DEF Shifted
<1>2. \A i \in 0..l : step[i] \in 0..i
  <2>1. \A i \in 0..l : i \in 0..i /\ i % 6 \in 0..i
    OBVIOUS
  <2>2. GAP = 6
    BY DEF GAP, DATAOFF
  <2>3. step = [i \in 0..l |-> i] \/ step = [i \in 0..l |-> i % 6]
    BY <1>1, <2>2
  <2>4. CASE step = [i \in 0..l |-> i]
    BY <2>1, <2>4
  <2>5. CASE step = [i \in 0..l |-> i % 6]
    BY <2>1, <2>5
  <2> QED
    BY <2>3, <2>4, <2>5
<1>3. \A i \in 0..l : At(old, step[i]) = old[step[i]]
  BY <1>2 DEF At
<1>4. \A i \in 0..l : At(old, step[i]) \in Cell
  BY <1>2, <1>3
<1>5. \A i \in 0..(l - 1) : d[i] = old[step[i]] /\ step[i] \in 0..(l - 1)
  BY <1>1, <1>2, <1>3
<1>6. \A i \in 0..newcap : d[i] \in Cell
  BY <1>1, <1>4, NULType
<1>7. Clean(d, l)
  BY <1>5 DEF Clean
<1> QED
  BY <1>1, <1>6, <1>7

LEMMA GrowOK ==
  ASSUME Width, NEW b, BlockOK(b), NEW newcap \in 0..MaxCap, b.cap < newcap,
         NEW g \in grow(b, newcap)
  PROVE  BlockOK(g) /\ g.len = b.len /\ g.cap = newcap /\ g.room = newcap
<1> DEFINE type == GrownType(b, newcap)
<1>1. type \in Type /\ (type = "TYPE1" => newcap <= SMALL_MAX)
      /\ (type # b.type => b.type = "TYPE1")
  BY TypeForType, BlockParts, WidthAssumption DEF GrownType, Type
<1>2. PICK d \in Moved(b, type, newcap) :
        g = Grown(b, type, newcap, [d EXCEPT ![newcap] = NUL])
  BY DEF grow
<1>3. newcap \in Nat /\ b.len < newcap /\ b.len \in 0..b.room /\ b.room \in Nat
      /\ b.data \in [0..b.room -> Cell]
  BY BlockParts, WidthAssumption
<1>4. d \in [0..newcap -> Cell] /\ \A i \in 0..(b.len - 1) : d[i] # Junk
  <2>1. CASE type = b.type
    <3>1. d = Kept(b.data, newcap)
      BY <2>1 DEF Moved
    <3>2. PICK old, r, l : old = b.data /\ r = b.room /\ l = b.len
      OBVIOUS
    <3>3. /\ r \in Nat /\ old \in [0..r -> Cell] /\ l \in 0..r /\ l < newcap /\ newcap \in Nat
          /\ d = Kept(old, newcap) /\ \A i \in 0..(l - 1) : old[i] # Junk
      BY <3>1, <3>2, <1>3 DEF BlockOK
    <3>4. /\ Kept(old, newcap) \in [0..newcap -> Cell]
          /\ \A i \in 0..newcap : i <= r => Kept(old, newcap)[i] = old[i]
      BY <3>3, KeptType
    <3>5. d \in [0..newcap -> Cell] /\ \A i \in 0..(l - 1) : d[i] # Junk
      BY <3>3, <3>4
    <3> QED
      BY <3>2, <3>5
  <2>2. CASE type # b.type
    <3>1. PICK c \in CapTopByte(newcap) : d \in Shifted([b.data EXCEPT ![0] = c], b.len, newcap)
      BY <2>2 DEF Moved
    <3>2. c \in Byte
      BY ByteAssumption DEF CapTopByte
    <3>3. PICK old : old = [b.data EXCEPT ![0] = c]
      OBVIOUS
    <3>4. old \in [0..b.room -> Cell] /\ Clean(old, b.len)
      BY <3>2, <3>3, <1>3, NULType DEF BlockOK, Clean
    <3>5. d \in [0..newcap -> Cell] /\ Clean(d, b.len)
      BY <3>1, <3>3, <3>4, <1>3, ShiftedOK
    <3> QED
      BY <3>5 DEF Clean
  <2> QED
    BY <2>1, <2>2
<1> DEFINE data == [d EXCEPT ![newcap] = NUL]
<1>5. data \in [0..newcap -> Cell] /\ data[newcap] = NUL /\ \A i \in 0..(b.len - 1) : data[i] # Junk
  BY <1>3, <1>4, NULType
<1>6. Stored(type, newcap) = newcap
  BY <1>1, StoredExact
<1>7. g = [type |-> type, cap |-> newcap, len |-> b.len, room |-> newcap,
           owner |-> StxFamily, data |-> data]
  BY <1>2, <1>6 DEF Grown
<1> HIDE DEF type, data
<1>8. g \in Block
  BY <1>1, <1>3, <1>5, <1>7, BlockMember, FamilyType
<1> QED
  BY <1>1, <1>3, <1>5, <1>7, <1>8, FamilyType DEF BlockOK

\* The bytes of a block that has room for r of them and holds a text of n.
Filled(d, r, n) ==
  /\ d \in [0..r -> Cell]
  /\ d[r] = NUL
  /\ Clean(d, n)

\* Bytes appended where there is room for them.
LEMMA AppendedData ==
  ASSUME NEW r \in Nat, NEW l \in 0..r, NEW old, Filled(old, r, l),
         NEW s \in Seq(Byte), l + Len(s) <= r
  PROVE  Filled(Write(old, l, Append(s, NUL)), r, l + Len(s))
<1>1. PICK text, m, n, d : /\ text = Append(s, NUL) /\ m = Len(s) /\ n = l + Len(s)
                           /\ d = Write(old, l, text)
  OBVIOUS
<1>2. /\ text \in Seq(Byte) /\ Len(text) = m + 1 /\ text[m + 1] = NUL /\ m \in Nat
      /\ n = l + m /\ n <= r /\ n \in Nat
  BY <1>1, AppendNUL
<1>3. old \in [0..r -> Cell] /\ old[r] = NUL /\ r \in 0..r
  BY DEF Filled
<1>4. \A k \in 1..(m + 1) : text[k] \in Byte
  BY <1>2
<1>5. d = [i \in 0..r |-> IF i >= l /\ i < l + (m + 1) THEN text[i - l + 1] ELSE old[i]]
  BY <1>1, <1>2, <1>3 DEF Write
<1>6. \A i \in l..n : d[i] = text[i - l + 1] /\ i - l + 1 \in 1..(m + 1)
  BY <1>2, <1>5
<1>7. \A i \in l..n : d[i] \in Byte
  BY <1>4, <1>6
<1>8. \A i \in 0..r : i < l \/ i > n => d[i] = old[i]
  BY <1>2, <1>5
<1>9. d \in [0..r -> Cell]
  <2>1. \A i \in 0..r : d[i] \in Cell
    <3> TAKE i \in 0..r
    <3>1. CASE i \in l..n
      BY <1>7, <3>1, NULType
    <3>2. CASE i \notin l..n
      BY <1>2, <1>3, <1>8, <3>2
    <3> QED
      BY <3>1, <3>2
  <2> QED
    BY <1>5, <2>1
<1>10. d[r] = NUL
  <2>1. CASE r = n
    <3>1. d[r] = text[m + 1]
      BY <1>2, <1>5, <2>1
    <3> QED
      BY <1>2, <3>1
  <2>2. CASE r > n
    BY <1>3, <1>8, <2>2
  <2> QED
    BY <1>2, <2>1, <2>2
<1>11. \A i \in 0..(n - 1) : d[i] # Junk
  <2>1. \A i \in 0..(l - 1) : old[i] # Junk
    BY DEF Filled, Clean
  <2> TAKE i \in 0..(n - 1)
  <2>2. CASE i \in l..n
    BY <1>7, <2>2, NULType
  <2>3. CASE i \notin l..n
    <3>1. i \in 0..(l - 1) /\ i \in 0..r
      BY <1>2, <2>3
    <3> QED
      BY <1>8, <2>1, <3>1
  <2> QED
    BY <2>2, <2>3
<1> QED
  BY <1>1, <1>9, <1>10, <1>11 DEF Filled, Clean

LEMMA AppendedOK ==
  ASSUME Width, NEW b, BlockOK(b), NEW s \in Seq(Byte), b.len + Len(s) <= b.cap
  PROVE  BlockOK(Appended(b, b.len, s))
<1>1. PICK old, r, l : old = b.data /\ r = b.room /\ l = b.len
  OBVIOUS
<1>2. PICK n : n = l + Len(s)
  OBVIOUS
<1>3. PICK d : d = Write(old, l, Append(s, NUL))
  OBVIOUS
<1>4. /\ r \in Nat /\ old \in [0..r -> Cell] /\ l \in 0..r /\ old[r] = NUL
      /\ \A i \in 0..(l - 1) : old[i] # Junk
  BY <1>1, BlockParts, WidthAssumption DEF BlockOK
<1>5. n \in Nat /\ n <= r /\ n = l + Len(s) /\ Len(s) \in Nat /\ l \in Nat
  BY <1>1, <1>2, BlockParts, WidthAssumption
<1>6. /\ d \in [0..r -> Cell]
      /\ d[r] = NUL
      /\ \A i \in 0..(n - 1) : d[i] # Junk
  <2>1. r \in Nat /\ l \in 0..r /\ n = l + Len(s) /\ n <= r
    BY <1>4, <1>5
  <2>2. Filled(old, r, l)
    BY <1>4 DEF Filled, Clean
  <2>3. Filled(d, r, n)
    BY <1>3, <2>1, <2>2, AppendedData
  <2> QED
    BY <2>3 DEF Filled, Clean
<1>7. n \in 0..b.cap
  BY <1>1, <1>5, BlockParts
<1>8. BlockOK(Written(b, n, d))
  BY <1>1, <1>6, <1>7, WrittenOK
<1>9. Appended(b, b.len, s) = Written(b, n, d)
  BY <1>1, <1>2, <1>3 DEF Appended
<1> QED
  BY <1>8, <1>9

-----------------------------------------------------------------------------
(* What the calls have in common preserves the invariant.                  *)

LEMMA ReturnsStep ==
  ASSUME NEW op \in Op, NEW v \in Var, NEW rc \in Int, NEW n \in Nat, Returns(op, v, rc, n)
  PROVE  RetOK'
BY DEF Returns, RetOK

\* The variable's own block gives way to a sound one: there, or at an address
\* nobody holds.
LEMMA ReplaceStep ==
  ASSUME HeapOK, PtrOK, OneOwner, NEW v \in Holding, NEW a \in ReallocAt(v),
         NEW b, BlockOK(b), Replace(v, a, b)
  PROVE  HeapOK' /\ PtrOK' /\ OneOwner'
<1>1. v \in Var /\ ptr[v] \in Addr /\ ptr[v] \in Live /\ a \in Addr
      /\ (a = ptr[v] \/ a \notin Live)
  BY DEF Holding, PtrOK, OneOwner, ReallocAt, Unused, Live
<1>2. b \in Block /\ b # FREE
  BY FreeAssumption DEF BlockOK
<1>3. heap' \in [Addr -> Block \cup {FREE}] /\ ptr' \in [Var -> Addr \cup {NULL}]
  BY <1>1, <1>2 DEF HeapOK, PtrOK, Replace
<1>4. \A x \in Addr : heap'[x] = IF x = a THEN b ELSE IF x = ptr[v] THEN FREE ELSE heap[x]
  BY <1>1 DEF HeapOK, Replace
<1>5. \A w \in Var : ptr'[w] = IF w = v THEN a ELSE ptr[w]
  BY <1>1 DEF PtrOK, Replace
<1>6. Live' = (Live \ {ptr[v]}) \cup {a}
  BY <1>1, <1>2, <1>4 DEF Live
<1>7. Holding' = Holding
  BY <1>1, <1>5, NullAssumption DEF Holding
<1>8. \A x \in Live' : BlockOK(heap'[x])
  BY <1>1, <1>4, <1>6 DEF HeapOK, Live
<1>9. OneOwner'
  <2>1. \A w \in Holding' : ptr'[w] \in Live'
    BY <1>1, <1>5, <1>6, <1>7 DEF OneOwner, Holding
  <2>2. \A w, u \in Holding' : ptr'[w] = ptr'[u] => w = u
    BY <1>1, <1>5, <1>7 DEF OneOwner, Holding
  <2>3. \A x \in Live' : \E w \in Holding' : ptr'[w] = x
    <3>1. \A x \in Live : x # ptr[v] => \E w \in Holding : w # v /\ ptr[w] = x
      BY DEF OneOwner
    <3>2. ptr'[v] = a /\ v \in Holding'
      BY <1>1, <1>5, <1>7
    <3>3. \A x \in Live : x # ptr[v] => \E w \in Holding' : ptr'[w] = x
      BY <3>1, <1>5, <1>7 DEF Holding
    <3> QED
      BY <3>2, <3>3, <1>6
  <2> QED
    BY <2>1, <2>2, <2>3 DEF OneOwner
<1> QED
  BY <1>3, <1>8, <1>9 DEF HeapOK, PtrOK

\* A new block, or none.
LEMMA CreateStep ==
  ASSUME HeapOK, PtrOK, OneOwner, NEW op \in Op, NEW v \in Var, NEW n \in Nat,
         NEW b, BlockOK(b), Create(op, v, b, n)
  PROVE  HeapOK' /\ PtrOK' /\ OneOwner' /\ RetOK'
<1>1. RetOK'
  BY ReturnsStep DEF Create
<1>2. CASE UNCHANGED <<heap, ptr>>
  BY <1>1, <1>2 DEF HeapOK, PtrOK, OneOwner, Live, Holding
<1>3. CASE \E a \in Unused : heap' = [heap EXCEPT ![a] = b] /\ ptr' = [ptr EXCEPT ![v] = a]
  <2>1. PICK a \in Unused : heap' = [heap EXCEPT ![a] = b] /\ ptr' = [ptr EXCEPT ![v] = a]
    BY <1>3
  <2>2. a \in Addr /\ a \notin Live /\ ptr[v] = NULL
    BY DEF Unused, Create
  <2>3. b \in Block /\ b # FREE
    BY FreeAssumption DEF BlockOK
  <2>4. heap' \in [Addr -> Block \cup {FREE}] /\ ptr' \in [Var -> Addr \cup {NULL}]
    BY <2>1, <2>2, <2>3 DEF HeapOK, PtrOK
  <2>5. \A x \in Addr : heap'[x] = IF x = a THEN b ELSE heap[x]
    BY <2>1, <2>2 DEF HeapOK
  <2>6. \A w \in Var : ptr'[w] = IF w = v THEN a ELSE ptr[w]
    BY <2>1 DEF PtrOK
  <2>7. Live' = Live \cup {a}
    BY <2>2, <2>3, <2>5 DEF Live
  <2>8. Holding' = Holding \cup {v}
    BY <2>2, <2>6, NullAssumption DEF Holding
  <2>9. \A x \in Live' : BlockOK(heap'[x])
    BY <2>2, <2>5, <2>7 DEF HeapOK, Live
  <2>10. \A w \in Holding : w # v /\ ptr'[w] = ptr[w] /\ ptr[w] \in Live
    BY <2>2, <2>6 DEF Holding, OneOwner
  <2>11. OneOwner'
    BY <2>2, <2>6, <2>7, <2>8, <2>10 DEF OneOwner
  <2> QED
    BY <1>1, <2>4, <2>9, <2>11 DEF HeapOK, PtrOK
<1> QED
  BY <1>2, <1>3 DEF Create

\* A call that leaves the heap and the variables alone.
LEMMA SameStep ==
  ASSUME HeapOK, PtrOK, OneOwner, UNCHANGED <<heap, ptr>>
  PROVE  HeapOK' /\ PtrOK' /\ OneOwner'
BY DEF HeapOK, PtrOK, OneOwner, Live, Holding

\* The block of a variable that holds one.
LEMMA StrickOK ==
  ASSUME HeapOK, PtrOK, OneOwner, NEW v \in Holding
  PROVE  BlockOK(Strick(v)) /\ v \in Var /\ ptr[v] \in ReallocAt(v)
BY DEF HeapOK, OneOwner, Strick, Holding, ReallocAt

\* What the two kinds of fault come to for a sound block.
LEMMA FaultsStep ==
  ASSUME NEW b, BlockOK(b), NEW i \in Int, i <= b.room
  PROVE  /\ Overrun(b, i) = {}
         /\ WrongFamily(b, StxFamily) \subseteq {"wrong_family"}
         /\ WrongFamily(b, "libc") \subseteq {"wrong_family"}
         /\ ~CustomAlloc => WrongFamily(b, StxFamily) = {} /\ WrongFamily(b, "libc") = {}
BY BlockParts, WidthAssumption DEF Overrun, WrongFamily, StxFamily, BlockOK

-----------------------------------------------------------------------------
(* Create.                                                                 *)

LEMMA StepNew ==
  ASSUME Width, IInv, NEW v \in Var, NEW cap \in Caps, stx_new(v, cap)
  PROVE  IInv'
<1> DEFINE d == [i \in 0..cap |-> IF i \in {0, cap} THEN NUL ELSE Junk]
           b == MakeBlock(TYPE_FOR(cap), cap, 0, StxFamily, d)
<1>1. cap \in 0..MaxCap /\ cap \in Nat /\ 0 \in 0..cap
  BY WidthAssumption
<1>2. d \in [0..cap -> Cell] /\ d[cap] = NUL /\ \A i \in 0..(0 - 1) : d[i] # Junk
  BY <1>1, NULType
<1>3. Create("new", v, b, cap) /\ UNCHANGED faults
  BY DEF stx_new
<1> HIDE DEF d
<1>4. BlockOK(b)
  BY <1>1, <1>2, TypeForType, FamilyType, MakeBlockOK
<1>5. "new" \in Op
  BY DEF Op
<1> HIDE DEF b
<1>6. HeapOK' /\ PtrOK' /\ OneOwner' /\ RetOK'
  BY <1>1, <1>3, <1>4, <1>5, CreateStep DEF IInv
<1> QED
  BY <1>3, <1>6 DEF IInv, FaultsOK

LEMMA StepFrom ==
  ASSUME Width, IInv, NEW v \in Var, NEW src \in Texts, stx_from_len(v, src)
  PROVE  IInv'
<1>1. PICK n : n = Len(src)
  OBVIOUS
<1>2. n \in 0..MaxCap /\ n \in Nat /\ src \in Seq(Byte) /\ n \in 0..n
  BY <1>1, TextsType DEF stx_from_len
<1>3. PICK z : z = [i \in 0..n |-> NUL]
  OBVIOUS
<1>4. PICK d : d = Write(z, 0, src)
  OBVIOUS
<1>5. d = [i \in 0..n |-> IF i < n THEN src[i + 1] ELSE NUL]
  BY <1>1, <1>2, <1>3, <1>4 DEF Write
<1>6. \A i \in 1..n : src[i] \in Byte
  BY <1>1, <1>2
<1>7. d \in [0..n -> Cell] /\ d[n] = NUL /\ \A i \in 0..(n - 1) : d[i] # Junk
  BY <1>2, <1>5, <1>6, NULType
<1>8. PICK b : b = MakeBlock(TYPE_FOR(n), n, n, StxFamily, d)
  OBVIOUS
<1>9. BlockOK(b)
  BY <1>2, <1>7, <1>8, TypeForType, FamilyType, MakeBlockOK
<1>10. Create("from", v, b, n) /\ UNCHANGED faults
  BY <1>1, <1>3, <1>4, <1>8 DEF stx_from_len
<1>11. "from" \in Op
  BY DEF Op
<1>12. HeapOK' /\ PtrOK' /\ OneOwner' /\ RetOK'
  BY <1>2, <1>9, <1>10, <1>11, CreateStep DEF IInv
<1> QED
  BY <1>10, <1>12 DEF IInv, FaultsOK

LEMMA StepDup ==
  ASSUME Width, IInv, NEW v \in Var, NEW src \in Var, stx_dup(v, src)
  PROVE  IInv'
<1>1. PICK b, n, old : b = Strick(src) /\ n = b.len /\ old = b.data
  OBVIOUS
<1>2. BlockOK(b)
  BY <1>1, StrickOK DEF stx_dup, IInv
<1>3. /\ n \in 0..b.room /\ n \in Nat /\ n \in 0..MaxCap /\ n \in 0..n /\ b.room \in Nat
      /\ old \in [0..b.room -> Cell] /\ \A i \in 0..(n - 1) : old[i] # Junk
      /\ b.type \in Type /\ (b.type = "TYPE1" => n <= SMALL_MAX)
  BY <1>1, <1>2, BlockParts, WidthAssumption DEF BlockOK
<1>4. PICK d : d = [Kept(old, n) EXCEPT ![n] = NUL]
  OBVIOUS
<1>5. /\ Kept(old, n) \in [0..n -> Cell]
      /\ \A i \in 0..n : Kept(old, n)[i] = old[i]
  BY <1>3, KeptType
<1>6. d \in [0..n -> Cell] /\ d[n] = NUL /\ \A i \in 0..(n - 1) : d[i] # Junk
  BY <1>3, <1>4, <1>5, NULType
<1>7. PICK c : c = MakeBlock(b.type, n, n, "libc", d)
  OBVIOUS
<1>8. "libc" \in Family /\ "dup" \in Op
  BY DEF Family, Op
<1>9. BlockOK(c)
  BY <1>3, <1>6, <1>7, <1>8, MakeBlockOK
<1>10. Create("dup", v, c, n) /\ faults' = faults \cup Overrun(b, n)
  BY <1>1, <1>4, <1>7 DEF stx_dup
<1>11. Overrun(b, n) = {}
  BY <1>2, <1>3, FaultsStep
<1>12. HeapOK' /\ PtrOK' /\ OneOwner' /\ RetOK'
  BY <1>3, <1>8, <1>9, <1>10, CreateStep DEF IInv
<1> QED
  BY <1>10, <1>11, <1>12 DEF IInv, FaultsOK

-----------------------------------------------------------------------------
(* Append.                                                                 *)

LEMMA StepInPlace ==
  ASSUME Width, IInv, NEW op \in Op, NEW v \in Holding, NEW src \in Texts,
         AppendInPlace(op, v, src)
  PROVE  IInv'
<1>1. PICK b, n : b = Strick(v) /\ n = b.len + Len(src)
  OBVIOUS
<1>2. BlockOK(b) /\ v \in Var /\ ptr[v] \in ReallocAt(v)
  BY <1>1, StrickOK DEF IInv
<1>3. src \in Seq(Byte) /\ b.len + Len(src) <= b.cap /\ n \in Nat /\ n <= b.room /\ Len(src) \in Nat
  BY <1>1, <1>2, TextsType, BlockParts DEF AppendInPlace, Fits
<1>4. BlockOK(Appended(b, b.len, src))
  BY <1>2, <1>3, AppendedOK
<1>5. /\ Replace(v, ptr[v], Appended(b, b.len, src))
      /\ faults' = faults \cup Overrun(b, n)
      /\ Returns(op, v, n, Len(src))
  BY <1>1 DEF AppendInPlace
<1>6. HeapOK' /\ PtrOK' /\ OneOwner'
  BY <1>2, <1>4, <1>5, ReplaceStep DEF IInv
<1>7. RetOK'
  BY <1>2, <1>3, <1>5, ReturnsStep
<1>8. Overrun(b, n) = {}
  BY <1>2, <1>3, FaultsStep
<1> QED
  BY <1>5, <1>6, <1>7, <1>8 DEF IInv, FaultsOK

LEMMA StepGrown ==
  ASSUME Width, IInv, NEW op \in Op, NEW v \in Holding, NEW src \in Texts,
         AppendGrown(op, v, src)
  PROVE  IInv'
<1>1. PICK b, n : b = Strick(v) /\ n = b.len + Len(src)
  OBVIOUS
<1>2. BlockOK(b) /\ v \in Var
  BY <1>1, StrickOK DEF IInv
<1>3. PICK a \in ReallocAt(v), g \in grow(b, 2 * n) :
        /\ Replace(v, a, Appended(g, b.len, src))
        /\ faults' = faults \cup Overrun(g, n) \cup WrongFamily(b, StxFamily)
  BY <1>1 DEF AppendGrown
<1>4. /\ src \in Seq(Byte) /\ Len(src) \in Nat /\ n \in Nat /\ ~(n <= b.cap)
      /\ 2 * n <= MaxCap /\ Returns(op, v, n, Len(src))
  BY <1>1, <1>2, TextsType, BlockParts DEF AppendGrown, Fits
<1>5. 2 * n \in 0..MaxCap /\ b.cap < 2 * n /\ n <= 2 * n
  BY <1>2, <1>4, BlockParts
<1>6. BlockOK(g) /\ g.len = b.len /\ g.cap = 2 * n /\ g.room = 2 * n
  BY <1>2, <1>5, GrowOK
<1>7. g.len + Len(src) <= g.cap
  BY <1>1, <1>4, <1>5, <1>6
<1>8. BlockOK(Appended(g, g.len, src))
  BY <1>4, <1>6, <1>7, AppendedOK
<1>9. HeapOK' /\ PtrOK' /\ OneOwner'
  BY <1>2, <1>3, <1>6, <1>8, ReplaceStep DEF IInv
<1>10. RetOK'
  BY <1>2, <1>4, ReturnsStep
<1>11. Overrun(g, n) = {}
  BY <1>4, <1>5, <1>6, FaultsStep
<1>12. /\ WrongFamily(b, StxFamily) \subseteq {"wrong_family"}
       /\ ~CustomAlloc => WrongFamily(b, StxFamily) = {}
  <2>1. 0 <= b.room /\ 0 \in Int
    BY <1>2, BlockParts, WidthAssumption
  <2> QED
    BY <1>2, <2>1, FaultsStep
<1> QED
  BY <1>3, <1>9, <1>10, <1>11, <1>12 DEF IInv, FaultsOK

LEMMA StepFailed ==
  ASSUME IInv, NEW op \in Op, NEW v \in Holding, NEW src \in Texts, AppendFailed(op, v, src)
  PROVE  IInv'
<1>1. v \in Var /\ Len(src) \in Nat
  BY TextsType DEF Holding
<1>2. HeapOK' /\ PtrOK' /\ OneOwner'
  BY SameStep DEF AppendFailed, IInv
<1>3. RetOK'
  BY <1>1, ReturnsStep DEF AppendFailed
<1> QED
  BY <1>2, <1>3 DEF IInv, FaultsOK, AppendFailed

LEMMA StepAppend ==
  ASSUME Width, IInv, NEW v \in Var, NEW src \in Texts,
         stx_append(v, src) \/ stx_append_fmt(v, src)
  PROVE  IInv'
<1>1. v \in Holding /\ "append" \in Op /\ "append_fmt" \in Op
  BY DEF stx_append, stx_append_fmt, Op
<1>2. \E op \in {"append", "append_fmt"} :
        AppendInPlace(op, v, src) \/ AppendGrown(op, v, src) \/ AppendFailed(op, v, src)
  BY DEF stx_append, stx_append_fmt
<1> QED
  BY <1>1, <1>2, StepInPlace, StepGrown, StepFailed

LEMMA StepAppendStrict ==
  ASSUME Width, IInv, NEW v \in Var, NEW src \in Texts, stx_append_strict(v, src)
  PROVE  IInv'
<1>1. v \in Holding /\ "append_strict" \in Op
  BY DEF stx_append_strict, Op
<1>2. CASE AppendInPlace("append_strict", v, src)
  BY <1>1, <1>2, StepInPlace
<1>3. CASE /\ UNCHANGED <<heap, ptr, faults>>
           /\ Returns("append_strict", v, Needed(Strick(v), Len(src)), Len(src))
  <2>1. Len(src) \in Nat /\ Needed(Strick(v), Len(src)) \in Int
    BY <1>1, TextsType, StrickOK, BlockParts DEF Needed, IInv
  <2>2. HeapOK' /\ PtrOK' /\ OneOwner'
    BY <1>3, SameStep DEF IInv
  <2>3. RetOK'
    BY <1>1, <1>3, <2>1, ReturnsStep
  <2> QED
    BY <1>3, <2>2, <2>3 DEF IInv, FaultsOK
<1> QED
  BY <1>2, <1>3 DEF stx_append_strict

\* One byte written.
WithByte(r, old, k, c) == [i \in 0..r |-> IF i = k THEN c ELSE old[i]]

LEMMA WriteOne ==
  ASSUME NEW r \in Nat, NEW old \in [0..r -> Cell], NEW k \in Nat, NEW c \in Byte
  PROVE  Write(old, k, <<c>>) = WithByte(r, old, k, c)
<1> DEFINE s == <<c>>
<1>1. Len(s) = 1 /\ s[1] = c
  OBVIOUS
<1>2. Write(old, k, s) = [i \in 0..r |-> IF i >= k /\ i < k + 1 THEN s[i - k + 1] ELSE old[i]]
  BY <1>1 DEF Write
<1>3. \A i \in 0..r : (i >= k /\ i < k + 1) <=> i = k
  OBVIOUS
<1>4. Write(old, k, s) = [i \in 0..r |-> IF i = k THEN c ELSE old[i]]
  BY <1>1, <1>2, <1>3
<1> QED
  BY <1>4 DEF WithByte

LEMMA UndoneOK ==
  ASSUME Width, NEW b, BlockOK(b), NEW old \in [0..b.room -> Cell], old[b.room] = NUL,
         \A i \in 0..(b.len - 1) : old[i] # Junk
  PROVE  BlockOK(Undone(b, old))
<1>1. PICK o, s, l, r : o = old /\ s = <<NUL>> /\ l = b.len /\ r = b.room
  OBVIOUS
<1>2. /\ l \in Nat /\ r \in Nat /\ l <= r /\ NUL \in Byte
      /\ o \in [0..r -> Cell] /\ o[r] = NUL /\ \A i \in 0..(l - 1) : o[i] # Junk
  BY <1>1, BlockParts, WidthAssumption, ByteAssumption
<1>3. PICK d : d = Write(o, l, s)
  OBVIOUS
<1>4. s = <<NUL>>
  BY <1>1
<1>5. /\ Write(o, l, s) \in [0..r -> Cell]
      /\ \A i \in 0..r : Write(o, l, s)[i] = IF i = l THEN NUL ELSE o[i]
  <2>1. Write(o, l, <<NUL>>) = WithByte(r, o, l, NUL)
    BY <1>2, WriteOne
  <2> QED
    BY <1>2, <1>4, <2>1, NULType DEF WithByte
<1>6. d \in [0..r -> Cell] /\ d[r] = NUL /\ \A i \in 0..(l - 1) : d[i] # Junk
  BY <1>2, <1>3, <1>5, NULType
<1>7. BlockOK([b EXCEPT !.data = d])
  BY <1>1, <1>6, RewrittenOK
<1> QED
  BY <1>1, <1>3, <1>7 DEF Undone

LEMMA CutType ==
  ASSUME NEW s \in Seq(Byte), NEW n \in Nat
  PROVE  /\ Cut(s, n) \in Seq(Byte)
         /\ Len(Cut(s, n)) <= n
         /\ Len(s) <= n => Cut(s, n) = s
<1>1. Len(s) \in Nat
  OBVIOUS
<1>2. CASE Len(s) <= n
  BY <1>2 DEF Cut
<1>3. CASE Len(s) > n
  <2>1. SubSeq(s, 1, n) \in Seq(Byte) /\ Len(SubSeq(s, 1, n)) = n
    BY <1>1, <1>3, SubSeqProperties
  <2> QED
    BY <1>1, <1>3, <2>1 DEF Cut
<1> QED
  BY <1>1, <1>2, <1>3

LEMMA StepAppendFmtStrict ==
  ASSUME Width, IInv, NEW v \in Var, NEW out \in Texts, stx_append_fmt_strict(v, out)
  PROVE  IInv'
<1> DEFINE b == Strick(v)
           spc == (b.cap - b.len) % U32
           totlen == b.len + Len(out)
           written == Write(b.data, b.len, Append(Cut(out, spc), NUL))
           spoilt == [i \in DOMAIN b.data |->
                        IF i >= b.len /\ i < b.len + spc THEN Junk ELSE b.data[i]]
           Ret(rc) == Returns("append_fmt_strict", v, rc, Len(out))
<1>1. v \in Holding /\ "append_fmt_strict" \in Op
  BY DEF stx_append_fmt_strict, Op
<1>2. BlockOK(b) /\ ptr[v] \in ReallocAt(v)
  BY <1>1, StrickOK DEF IInv
<1>3. PICK r, l, old : r = b.room /\ l = b.len /\ old = b.data
  OBVIOUS
<1>4. /\ r \in Nat /\ l \in 0..r /\ l \in Nat /\ b.cap = r /\ r \in 0..MaxCap
      /\ old \in [0..r -> Cell] /\ old[r] = NUL /\ \A i \in 0..(l - 1) : old[i] # Junk
  BY <1>2, <1>3, BlockParts, WidthAssumption DEF BlockOK
<1>5. spc = r - l /\ spc \in Nat /\ l + spc = r
  <2>1. r - l \in Nat /\ r - l < U32 /\ U32 \in Nat
    BY <1>4, U32Type, WidthAssumption DEF Width
  <2>2. (r - l) % U32 = r - l
    BY <2>1, ModSmall
  <2> QED
    BY <1>3, <1>4, <2>1, <2>2
<1>6. out \in Seq(Byte) /\ Len(out) \in Nat /\ totlen \in Nat /\ totlen = l + Len(out)
  BY <1>3, <1>4, TextsType
<1> HIDE DEF spc
<1>7. PICK s, n : s = Cut(out, spc) /\ n = l + Len(s)
  OBVIOUS
<1>8. s \in Seq(Byte) /\ Len(s) \in Nat /\ Len(s) <= spc /\ n \in Nat /\ n <= r /\ n >= l
      /\ (Len(out) <= spc => s = out)
  BY <1>4, <1>5, <1>6, <1>7, CutType
<1>9. /\ written \in [0..r -> Cell] /\ written[r] = NUL
      /\ \A i \in 0..(n - 1) : written[i] # Junk
  <2>1. PICK w : w = Write(old, l, Append(s, NUL))
    OBVIOUS
  <2>2. /\ w \in [0..r -> Cell] /\ w[r] = NUL
        /\ \A i \in 0..(n - 1) : w[i] # Junk
    <3>1. r \in Nat /\ l \in 0..r /\ n = l + Len(s) /\ n <= r /\ s \in Seq(Byte)
      BY <1>4, <1>7, <1>8
    <3>2. Filled(old, r, l)
      BY <1>4 DEF Filled, Clean
    <3>3. Filled(w, r, n)
      BY <2>1, <3>1, <3>2, AppendedData
    <3> QED
      BY <3>3 DEF Filled, Clean
  <2>3. written = w
    BY <1>3, <1>7, <2>1
  <2> QED
    BY <2>2, <2>3
<1>10. \A i \in 0..(l - 1) : written[i] # Junk
  BY <1>4, <1>8, <1>9
<1>11. CASE spc = 0 /\ Ret(0) /\ UNCHANGED <<heap, ptr, faults>>
  BY <1>1, <1>6, <1>11, SameStep, ReturnsStep DEF IInv, FaultsOK
<1>12. CASE /\ spc > 0 /\ Fits(b, Len(out))
            /\ Replace(v, ptr[v], Written(b, totlen, written))
            /\ faults' = faults \cup Overrun(b, totlen)
            /\ Ret(totlen)
  <2>1. totlen <= r /\ Len(out) <= spc
    BY <1>3, <1>4, <1>5, <1>6, <1>12 DEF Fits
  <2>2. s = out
    BY <1>8, <2>1
  <2>3. Written(b, totlen, written) = Appended(b, b.len, out)
    BY <1>3, <1>7, <2>2 DEF Appended
  <2>4. BlockOK(Written(b, totlen, written))
    BY <1>2, <1>3, <1>4, <1>6, <2>1, <2>3, AppendedOK
  <2>5. HeapOK' /\ PtrOK' /\ OneOwner'
    BY <1>1, <1>2, <1>12, <2>4, ReplaceStep DEF IInv
  <2>6. Overrun(b, totlen) = {}
    BY <1>2, <1>3, <1>6, <2>1, FaultsStep
  <2>7. RetOK'
    BY <1>1, <1>6, <1>12, ReturnsStep
  <2> QED
    BY <1>12, <2>5, <2>6, <2>7 DEF IInv, FaultsOK
<1>13. CASE /\ spc > 0 /\ ~Fits(b, Len(out))
            /\ Replace(v, ptr[v], Undone(b, written))
            /\ faults' = faults \cup Overrun(b, b.len + Len(Cut(out, spc)))
            /\ Ret(Needed(b, Len(out)))
  <2>1. BlockOK(Undone(b, written))
    BY <1>2, <1>3, <1>9, <1>10, UndoneOK
  <2>2. HeapOK' /\ PtrOK' /\ OneOwner'
    BY <1>1, <1>2, <1>13, <2>1, ReplaceStep DEF IInv
  <2>3. b.len + Len(Cut(out, spc)) = n
    BY <1>3, <1>7
  <2>4. Overrun(b, n) = {}
    BY <1>2, <1>3, <1>8, FaultsStep
  <2>5. Needed(b, Len(out)) \in Int
    BY <1>2, <1>6, BlockParts DEF Needed
  <2>6. RetOK'
    BY <1>1, <1>6, <1>13, <2>5, ReturnsStep
  <2> QED
    BY <1>13, <2>2, <2>3, <2>4, <2>6 DEF IInv, FaultsOK
<1>14. CASE /\ spc > 0
            /\ Replace(v, ptr[v], Undone(b, spoilt))
            /\ UNCHANGED faults
            /\ Ret(0)
  <2>1. spoilt = [i \in 0..r |-> IF i >= l /\ i < l + spc THEN Junk ELSE old[i]]
    BY <1>3, <1>4
  <2>2. spoilt \in [0..r -> Cell] /\ spoilt[r] = NUL /\ \A i \in 0..(l - 1) : spoilt[i] # Junk
    <3>1. /\ r \in Nat /\ old \in [0..r -> Cell] /\ old[r] = NUL /\ l + spc <= r
          /\ l \in Nat /\ spc \in Nat
          /\ \A i \in 0..(l - 1) : old[i] # Junk
      BY <1>4, <1>5
    <3>2. \A i \in 0..r : spoilt[i] \in Cell
      BY <2>1, <3>1, NULType
    <3>3. spoilt[r] = NUL
      BY <2>1, <3>1
    <3>4. \A i \in 0..(l - 1) : spoilt[i] = old[i]
      BY <2>1, <3>1
    <3> QED
      BY <2>1, <3>1, <3>2, <3>3, <3>4
  <2>3. BlockOK(Undone(b, spoilt))
    BY <1>2, <1>3, <2>2, UndoneOK
  <2>4. HeapOK' /\ PtrOK' /\ OneOwner'
    BY <1>1, <1>2, <1>14, <2>3, ReplaceStep DEF IInv
  <2>5. RetOK'
    <3>1. 0 \in Int /\ Ret(0)
      BY <1>14
    <3> QED
      BY <1>1, <1>6, <3>1, ReturnsStep
  <2> QED
    BY <1>14, <2>4, <2>5 DEF IInv, FaultsOK
<1> QED
  BY <1>11, <1>12, <1>13, <1>14, Zenon DEF stx_append_fmt_strict, spc

-----------------------------------------------------------------------------
(* Adjust, reset, free.                                                    *)

LEMMA ResizedOK ==
  ASSUME Width, NEW b, BlockOK(b), NEW c \in 0..MaxCap, NEW old \in [0..c -> Cell],
         \A i \in 0..(NewLen(b, c) - 1) : old[i] # Junk
  PROVE  BlockOK(Resized(b, c, old))
<1>1. PICK d, n : d = [old EXCEPT ![c] = NUL] /\ n = NewLen(b, c)
  OBVIOUS
<1>2. c \in Nat /\ n \in 0..c
  BY <1>1, BlockParts, WidthAssumption DEF NewLen
<1>3. d \in [0..c -> Cell] /\ d[c] = NUL /\ \A i \in 0..(n - 1) : d[i] # Junk
  BY <1>1, <1>2, NULType
<1>4. BlockOK(MakeBlock(TYPE_FOR(c), c, n, StxFamily, d))
  BY <1>2, <1>3, TypeForType, FamilyType, MakeBlockOK
<1> QED
  BY <1>1, <1>4 DEF Resized

LEMMA StepResize ==
  ASSUME Width, IInv, NEW v \in Var, NEW newcap \in Caps, stx_resize(v, newcap)
  PROVE  IInv'
<1>1. PICK b, r, old, n, l : /\ b = Strick(v) /\ r = b.room /\ old = b.data
                             /\ n = NewLen(b, newcap) /\ l = b.len
  OBVIOUS
<1>2. v \in Holding /\ "resize" \in Op
  BY DEF stx_resize, Op
<1>3. BlockOK(b) /\ ptr[v] \in ReallocAt(v)
  BY <1>1, <1>2, StrickOK DEF IInv
<1>4. /\ newcap \in Nat /\ newcap \in 0..MaxCap /\ r \in Nat /\ l \in 0..r
      /\ old \in [0..r -> Cell] /\ \A i \in 0..(l - 1) : old[i] # Junk
      /\ n \in Nat /\ n <= newcap /\ n <= l
  BY <1>1, <1>3, BlockParts, WidthAssumption DEF BlockOK, NewLen
<1>5. CASE UNCHANGED <<heap, ptr, faults>> /\ \E rc \in {0, 1} : Returns("resize", v, rc, newcap)
  BY <1>2, <1>4, <1>5, SameStep, ReturnsStep DEF IInv, FaultsOK
<1>6. CASE /\ \E a \in ReallocAt(v) : Replace(v, a, Resized(b, newcap, Kept(old, newcap)))
           /\ faults' = faults \cup WrongFamily(b, StxFamily)
           /\ Returns("resize", v, 1, newcap)
  <2>1. PICK d : d = Kept(old, newcap)
    OBVIOUS
  <2>2. d \in [0..newcap -> Cell] /\ \A i \in 0..newcap : i <= r => d[i] = old[i]
    BY <1>4, <2>1, KeptType
  <2>3. \A i \in 0..(n - 1) : d[i] # Junk
    BY <1>4, <2>2
  <2>4. BlockOK(Resized(b, newcap, d))
    BY <1>1, <1>3, <1>4, <2>2, <2>3, ResizedOK
  <2>5. HeapOK' /\ PtrOK' /\ OneOwner'
    BY <1>2, <1>6, <2>1, <2>4, ReplaceStep DEF IInv
  <2>6. RetOK'
    BY <1>2, <1>4, <1>6, ReturnsStep
  <2>7. /\ WrongFamily(b, StxFamily) \subseteq {"wrong_family"}
        /\ ~CustomAlloc => WrongFamily(b, StxFamily) = {}
    BY <1>1, <1>3, <1>4, FaultsStep
  <2> QED
    BY <1>6, <2>5, <2>6, <2>7 DEF IInv, FaultsOK
<1>7. CASE /\ \E a \in Unused : Replace(v, a, Resized(b, newcap, Copied(b, n, newcap)))
           /\ faults' = faults \cup WrongFamily(b, "libc") \cup Overrun(b, n - 1)
           /\ Returns("resize", v, 1, newcap)
  <2>1. PICK d : d = Copied(b, n, newcap)
    OBVIOUS
  <2>2. d = [i \in 0..newcap |-> IF i < n THEN At(old, i) ELSE IF i = n THEN NUL ELSE Junk]
    BY <1>1, <2>1 DEF Copied
  <2>3. \A i \in 0..(n - 1) : At(old, i) = old[i] /\ old[i] # Junk /\ old[i] \in Cell
    BY <1>4 DEF At
  <2>4. d \in [0..newcap -> Cell] /\ \A i \in 0..(n - 1) : d[i] # Junk
    BY <1>4, <2>2, <2>3, NULType
  <2>5. BlockOK(Resized(b, newcap, d))
    BY <1>1, <1>3, <1>4, <2>4, ResizedOK
  <2>6. Unused \subseteq ReallocAt(v)
    BY DEF ReallocAt
  <2>7. HeapOK' /\ PtrOK' /\ OneOwner'
    BY <1>2, <1>7, <2>1, <2>5, <2>6, ReplaceStep DEF IInv
  <2>8. RetOK'
    BY <1>2, <1>4, <1>7, ReturnsStep
  <2>9. /\ WrongFamily(b, "libc") \subseteq {"wrong_family"}
        /\ ~CustomAlloc => WrongFamily(b, "libc") = {}
        /\ Overrun(b, n - 1) = {}
    BY <1>1, <1>3, <1>4, FaultsStep
  <2> QED
    BY <1>7, <2>7, <2>8, <2>9 DEF IInv, FaultsOK
<1> QED
  BY <1>1, <1>5, <1>6, <1>7 DEF stx_resize

\* A call that changes the text in place and faults nothing.
LEMMA StepWritten ==
  ASSUME Width, IInv, NEW op \in Op, NEW v \in Holding, NEW b, BlockOK(b),
         Replace(v, ptr[v], b), UNCHANGED faults, Returns(op, v, 1, 0)
  PROVE  IInv'
<1>1. v \in Var /\ ptr[v] \in ReallocAt(v)
  BY StrickOK DEF IInv
<1>2. HeapOK' /\ PtrOK' /\ OneOwner'
  BY <1>1, ReplaceStep DEF IInv
<1>3. RetOK'
  BY <1>1, ReturnsStep
<1> QED
  BY <1>2, <1>3 DEF IInv, FaultsOK

LEMMA StepReset ==
  ASSUME Width, IInv, NEW v \in Var, stx_reset(v)
  PROVE  IInv'
<1>1. PICK b, r, old, s : b = Strick(v) /\ r = b.room /\ old = b.data /\ s = <<NUL>>
  OBVIOUS
<1>2. v \in Holding /\ "reset" \in Op
  BY DEF stx_reset, Op
<1>3. BlockOK(b)
  BY <1>1, <1>2, StrickOK DEF IInv
<1>4. /\ r \in Nat /\ old \in [0..r -> Cell] /\ old[r] = NUL /\ NUL \in Byte /\ b.cap = r
      /\ 0 \in Nat /\ 0 \in 0..b.cap
  BY <1>1, <1>3, BlockParts, WidthAssumption, ByteAssumption DEF BlockOK
<1>5. PICK d : d = Write(old, 0, s)
  OBVIOUS
<1>6. s = <<NUL>>
  BY <1>1
<1>7. /\ Write(old, 0, s) \in [0..r -> Cell]
      /\ \A i \in 0..r : Write(old, 0, s)[i] = IF i = 0 THEN NUL ELSE old[i]
  <2>1. Write(old, 0, <<NUL>>) = WithByte(r, old, 0, NUL)
    BY <1>4, WriteOne
  <2> QED
    BY <1>4, <1>6, <2>1, NULType DEF WithByte
<1>8. d \in [0..r -> Cell] /\ d[r] = NUL /\ \A i \in 0..(0 - 1) : d[i] # Junk
  BY <1>4, <1>5, <1>7
<1>9. BlockOK(Written(b, 0, d))
  BY <1>1, <1>3, <1>4, <1>8, WrittenOK
<1> QED
  BY <1>1, <1>2, <1>5, <1>9, StepWritten DEF stx_reset

LEMMA StepUserWrite ==
  ASSUME Width, IInv, NEW v \in Var, NEW i \in 0..MaxCap, NEW c \in UserBytes, UserWrite(v, i, c)
  PROVE  IInv'
<1>1. PICK b, r, l, old, s : /\ b = Strick(v) /\ r = b.room /\ l = b.len /\ old = b.data
                             /\ s = <<c>>
  OBVIOUS
<1>2. v \in Holding /\ "user_write" \in Op
  BY DEF UserWrite, Op
<1>3. BlockOK(b)
  BY <1>1, <1>2, StrickOK DEF IInv
<1>4. /\ r \in Nat /\ old \in [0..r -> Cell] /\ old[r] = NUL /\ c \in Byte /\ i \in Nat
      /\ i < r /\ l \in 0..r /\ \A k \in 0..(l - 1) : old[k] # Junk
  BY <1>1, <1>3, BlockParts, WidthAssumption, TextsAssumption DEF BlockOK, UserWrite
<1>5. PICK d : d = Write(old, i, s)
  OBVIOUS
<1>6. s = <<c>>
  BY <1>1
<1>7. /\ Write(old, i, s) \in [0..r -> Cell]
      /\ \A k \in 0..r : Write(old, i, s)[k] = IF k = i THEN c ELSE old[k]
  <2>1. Write(old, i, <<c>>) = WithByte(r, old, i, c)
    BY <1>4, WriteOne
  <2> QED
    BY <1>4, <1>6, <2>1, NULType DEF WithByte
<1>8. d \in [0..r -> Cell] /\ d[r] = NUL /\ \A k \in 0..(l - 1) : d[k] # Junk
  BY <1>4, <1>5, <1>7, NULType
<1>9. BlockOK([b EXCEPT !.data = d])
  BY <1>1, <1>3, <1>8, RewrittenOK
<1> QED
  BY <1>1, <1>2, <1>5, <1>9, StepWritten DEF UserWrite

\* strlen stops at the sentinel, if not before.
LEMMA StepAdjust ==
  ASSUME Width, IInv, NEW v \in Var, stx_adjust(v)
  PROVE  IInv'
<1>1. PICK b, r, old : b = Strick(v) /\ r = b.room /\ old = b.data
  OBVIOUS
<1>2. v \in Holding /\ "adjust" \in Op
  BY DEF stx_adjust, Op
<1>3. BlockOK(b)
  BY <1>1, <1>2, StrickOK DEF IInv
<1>4. r \in Nat /\ old \in [0..r -> Cell] /\ old[r] = NUL /\ b.cap = r
  BY <1>1, <1>3, BlockParts, WidthAssumption DEF BlockOK
<1>5. PICK n \in 0..(r + 1) :
        /\ \A i \in 0..(n - 1) : old[i] # NUL
        /\ \E seen \in [{i \in 0..(n - 1) : old[i] = Junk} -> Byte \ {NUL}] :
             Replace(v, ptr[v],
               Written(b, n, [i \in DOMAIN old |->
                                IF i \in DOMAIN seen THEN seen[i]
                                ELSE IF i = n THEN NUL ELSE old[i]]))
        /\ faults' = faults \cup Overrun(b, n)
  BY <1>1 DEF stx_adjust
<1>6. n \in 0..r /\ n \in Nat /\ n \in 0..b.cap
  <2>1. n <= r
    BY <1>4, <1>5
  <2> QED
    BY <1>4, <1>5, <2>1
<1>7. PICK seen \in [{i \in 0..(n - 1) : old[i] = Junk} -> Byte \ {NUL}] :
        Replace(v, ptr[v],
          Written(b, n, [i \in DOMAIN old |->
                           IF i \in DOMAIN seen THEN seen[i]
                           ELSE IF i = n THEN NUL ELSE old[i]]))
  BY <1>5
<1>8. PICK d : d = [i \in DOMAIN old |-> IF i \in DOMAIN seen THEN seen[i]
                                        ELSE IF i = n THEN NUL ELSE old[i]]
  OBVIOUS
<1>9. DOMAIN old = 0..r /\ DOMAIN seen = {i \in 0..(n - 1) : old[i] = Junk}
  BY <1>4
<1>10. \A i \in DOMAIN seen : seen[i] \in Byte /\ i < n
  BY <1>6, <1>9
<1>11. d \in [0..r -> Cell] /\ d[r] = NUL
  BY <1>4, <1>6, <1>8, <1>9, <1>10, NULType
<1>12. \A i \in 0..(n - 1) : d[i] # Junk
  <2>1. \A i \in 0..(n - 1) : i \in DOMAIN old /\ i # n
    BY <1>4, <1>6, <1>9
  <2>2. \A i \in DOMAIN seen : i \in DOMAIN old /\ d[i] = seen[i]
    BY <1>4, <1>6, <1>8, <1>9
  <2>3. \A i \in 0..(n - 1) : i \notin DOMAIN seen => d[i] = old[i] /\ old[i] # Junk
    BY <1>8, <1>9, <2>1
  <2> QED
    BY <1>10, <2>2, <2>3, NULType
<1>13. BlockOK(Written(b, n, d))
  BY <1>1, <1>3, <1>6, <1>11, <1>12, WrittenOK
<1>14. Overrun(b, n) = {}
  BY <1>1, <1>3, <1>6, FaultsStep
<1>15. UNCHANGED faults
  BY <1>5, <1>14
<1> QED
  BY <1>2, <1>7, <1>8, <1>13, <1>15, StepWritten DEF stx_adjust

LEMMA StepTrim ==
  ASSUME Width, IInv, NEW v \in Var, stx_trim(v)
  PROVE  IInv'
<1>1. PICK b, r, l, old : b = Strick(v) /\ r = b.room /\ l = b.len /\ old = b.data
  OBVIOUS
<1>2. v \in Holding /\ "trim" \in Op
  BY DEF stx_trim, Op
<1>3. BlockOK(b)
  BY <1>1, <1>2, StrickOK DEF IInv
<1>4. /\ r \in Nat /\ l \in 0..r /\ old \in [0..r -> Cell] /\ old[r] = NUL /\ b.cap = r
      /\ \A i \in 0..(l - 1) : old[i] # Junk
  BY <1>1, <1>3, BlockParts, WidthAssumption DEF BlockOK
<1>5. PICK front \in 0..l, end \in 0..l :
        front <= end /\ Replace(v, ptr[v], Trimmed(b, front, end))
  BY <1>1 DEF stx_trim
<1>6. PICK n, d : /\ n = end - front
                  /\ d = [i \in 0..r |-> IF i < n THEN old[front + i]
                                         ELSE IF i = n THEN NUL ELSE old[i]]
  OBVIOUS
<1>7. n \in Nat /\ n \in 0..b.cap /\ n <= l
  BY <1>4, <1>5, <1>6
<1>8. \A i \in 0..(n - 1) : front + i \in 0..(l - 1)
  BY <1>4, <1>5, <1>6
<1>9. \A i \in 0..(n - 1) : old[front + i] \in Cell /\ old[front + i] # Junk
  BY <1>4, <1>8
<1>10. \A i \in 0..(n - 1) : d[i] = old[front + i]
  BY <1>4, <1>6, <1>7
<1>11. d \in [0..r -> Cell]
  BY <1>4, <1>6, <1>7, <1>9, NULType
<1>12. d[r] = NUL
  BY <1>4, <1>6, <1>7
<1>13. \A i \in 0..(n - 1) : d[i] # Junk
  BY <1>9, <1>10
<1>14. BlockOK(Written(b, n, d))
  BY <1>1, <1>3, <1>7, <1>11, <1>12, <1>13, WrittenOK
<1>15. Trimmed(b, front, end) = Written(b, n, d)
  BY <1>1, <1>4, <1>6 DEF Trimmed
<1> QED
  BY <1>2, <1>5, <1>14, <1>15, StepWritten DEF stx_trim

LEMMA StepFree ==
  ASSUME IInv, NEW v \in Var, stx_free(v)
  PROVE  IInv'
<1>1. PICK b : b = Strick(v)
  OBVIOUS
<1>2. v \in Holding /\ "free" \in Op
  BY DEF stx_free, Op
<1>3. BlockOK(b)
  BY <1>1, <1>2, StrickOK DEF IInv
<1>4. ptr[v] \in Addr /\ ptr[v] \in Live
  BY <1>2 DEF IInv, OneOwner, Live
<1>5. /\ heap' = [heap EXCEPT ![ptr[v]] = FREE]
      /\ ptr'  = [ptr EXCEPT ![v] = NULL]
      /\ faults' = faults \cup WrongFamily(b, StxFamily)
      /\ Returns("free", v, 1, 0)
  BY <1>1 DEF stx_free
<1>6. heap' \in [Addr -> Block \cup {FREE}] /\ ptr' \in [Var -> Addr \cup {NULL}]
  BY <1>4, <1>5 DEF IInv, HeapOK, PtrOK
<1>7. \A x \in Addr : heap'[x] = IF x = ptr[v] THEN FREE ELSE heap[x]
  BY <1>4, <1>5 DEF IInv, HeapOK
<1>8. \A w \in Var : ptr'[w] = IF w = v THEN NULL ELSE ptr[w]
  BY <1>5 DEF IInv, PtrOK
<1>9. Live' = Live \ {ptr[v]} /\ Holding' = Holding \ {v}
  BY <1>7, <1>8 DEF Live, Holding
<1>10. \A x \in Live' : BlockOK(heap'[x])
  BY <1>7, <1>9 DEF IInv, HeapOK, Live
<1>11. OneOwner'
  <2>1. \A w \in Holding' : ptr'[w] = ptr[w] /\ w \in Holding /\ w # v
    BY <1>8, <1>9 DEF Holding
  <2>2. \A w \in Holding' : ptr'[w] \in Live'
    BY <1>2, <1>9, <2>1 DEF IInv, OneOwner
  <2>3. \A w, u \in Holding' : ptr'[w] = ptr'[u] => w = u
    BY <2>1 DEF IInv, OneOwner
  <2>4. \A x \in Live' : \E w \in Holding' : ptr'[w] = x
    BY <1>9, <2>1 DEF IInv, OneOwner
  <2> QED
    BY <2>2, <2>3, <2>4 DEF OneOwner
<1>12. /\ WrongFamily(b, StxFamily) \subseteq {"wrong_family"}
       /\ ~CustomAlloc => WrongFamily(b, StxFamily) = {}
  <2>1. 0 <= b.room /\ 0 \in Int
    BY <1>3, BlockParts, WidthAssumption
  <2> QED
    BY <1>3, <2>1, FaultsStep
<1>13. RetOK'
  BY <1>2, <1>5, ReturnsStep
<1> QED
  BY <1>5, <1>6, <1>10, <1>11, <1>12, <1>13 DEF IInv, HeapOK, PtrOK, FaultsOK

-----------------------------------------------------------------------------
(* The invariant, and what it gives.                                       *)

LEMMA Initially == Init => IInv
BY FreeAssumption, NullAssumption
DEF Init, IInv, HeapOK, PtrOK, RetOK, FaultsOK, OneOwner, Live, Holding, Op

LEMMA Stuttering == IInv /\ UNCHANGED vars => IInv'
BY DEF IInv, HeapOK, PtrOK, RetOK, FaultsOK, OneOwner, Live, Holding, vars

LEMMA Stepping ==
  ASSUME Width, IInv, Next
  PROVE  IInv'
<1>1. PICK v \in Var :
        \/ \E cap \in Caps : stx_new(v, cap) \/ stx_resize(v, cap)
        \/ \E src \in Texts : \/ stx_from_len(v, src)
                              \/ stx_append(v, src)
                              \/ stx_append_strict(v, src)
                              \/ stx_append_fmt(v, src)
                              \/ stx_append_fmt_strict(v, src)
        \/ \E w \in Var : stx_dup(v, w)
        \/ \E i \in 0..MaxCap, c \in UserBytes : UserWrite(v, i, c)
        \/ stx_reset(v)
        \/ stx_adjust(v)
        \/ stx_trim(v)
        \/ stx_free(v)
  BY DEF Next
<1>2. CASE \E cap \in Caps : stx_new(v, cap) \/ stx_resize(v, cap)
  BY <1>2, StepNew, StepResize
<1>3. CASE \E src \in Texts : \/ stx_from_len(v, src)
                              \/ stx_append(v, src)
                              \/ stx_append_strict(v, src)
                              \/ stx_append_fmt(v, src)
                              \/ stx_append_fmt_strict(v, src)
  BY <1>3, StepFrom, StepAppend, StepAppendStrict, StepAppendFmtStrict
<1>4. CASE \E w \in Var : stx_dup(v, w)
  BY <1>4, StepDup
<1>5. CASE \E i \in 0..MaxCap, c \in UserBytes : UserWrite(v, i, c)
  BY <1>5, StepUserWrite
<1>6. CASE stx_reset(v)
  BY <1>6, StepReset
<1>7. CASE stx_adjust(v)
  BY <1>7, StepAdjust
<1>8. CASE stx_trim(v)
  BY <1>8, StepTrim
<1>9. CASE stx_free(v)
  BY <1>9, StepFree
<1> QED
  BY <1>1, <1>2, <1>3, <1>4, <1>5, <1>6, <1>7, <1>8, <1>9

\* Every state the program reaches has sound blocks, each with one owner, as long
\* as no capacity overflows the header's 32 bits (stx.c: new, from, grow,
\* stx_resize, stx_dup and the calls that write in place).
THEOREM Invariant ==
  ASSUME Width
  PROVE  Spec => []IInv
<1>1. Width => (IInv /\ [Next]_vars => IInv')
  BY Stepping, Stuttering
<1> QED
  BY <1>1, Initially, PTL DEF Spec

\* The blocks are laid out as the structs say, and every header field is in range.
THEOREM TypesHold ==
  ASSUME Width
  PROVE  Spec => []TypeOK
<1>1. IInv => TypeOK
  <2>1. \A a \in Addr : heap[a] # FREE /\ BlockOK(heap[a]) => DOMAIN heap[a].data = 0..heap[a].room
    BY DEF BlockOK
  <2> QED
    BY <2>1 DEF IInv, HeapOK, PtrOK, RetOK, FaultsOK, TypeOK, Live
<1> QED
  BY <1>1, Invariant, PTL

\* A header's capacity is the room its block has, and its length fits in it, across
\* every realloc and change of type.
THEOREM HeadersHold ==
  ASSUME Width
  PROVE  Spec => []HeadTruth
<1>1. IInv => HeadTruth
  BY DEF IInv, HeapOK, BlockOK, HeadTruth
<1> QED
  BY <1>1, Invariant, PTL

\* The byte after the capacity is NUL (grow's cap sentinel), so that strlen in
\* stx_adjust stays inside the block whatever the program wrote.
THEOREM SentinelHolds ==
  ASSUME Width
  PROVE  Spec => []Sentinel
<1>1. IInv => Sentinel
  BY DEF IInv, HeapOK, BlockOK, Sentinel
<1> QED
  BY <1>1, Invariant, PTL

\* No byte below the length is one nobody wrote.
THEOREM TextHolds ==
  ASSUME Width
  PROVE  Spec => []TextInitialised
<1>1. IInv => TextInitialised
  <2> SUFFICES ASSUME IInv, NEW a \in Live, NEW i \in 0..(heap[a].len - 1)
               PROVE  At(heap[a].data, i) # Junk
    BY DEF TextInitialised
  <2>1. BlockOK(heap[a])
    BY DEF IInv, HeapOK
  <2>2. i \in DOMAIN heap[a].data
    BY <2>1, BlockParts, WidthAssumption
  <2> QED
    BY <2>1, <2>2 DEF BlockOK, At
<1> QED
  BY <1>1, Invariant, PTL

\* Each variable holds a live block of its own, and no block is lost, whichever
\* calls fail and wherever realloc moves the blocks.
THEOREM OwnersHold ==
  ASSUME Width
  PROVE  Spec => []OneOwner
<1>1. IInv => OneOwner
  BY DEF IInv
<1> QED
  BY <1>1, Invariant, PTL

\* No call writes outside its block, whatever the allocators are.
THEOREM NoOverrunEver ==
  ASSUME Width
  PROVE  Spec => []NoOverrun
<1>1. IInv => NoOverrun
  BY DEF IInv, FaultsOK, NoOverrun
<1> QED
  BY <1>1, Invariant, PTL

\* With the default allocators no call does anything C leaves undefined to the
\* heap.  (Without them it does: claim_alloc.)
THEOREM NoFaultEver ==
  ASSUME Width, CustomAlloc = FALSE
  PROVE  Spec => []NoFault
<1>1. IInv => NoFault
  BY DEF IInv, FaultsOK, NoFault
<1> QED
  BY <1>1, Invariant, PTL

-----------------------------------------------------------------------------
(* What no step may do: touch the strick of another variable, leave a mark *)
(* after a failure, or promise a capacity that will not do.                *)
(*                                                                         *)
(* Every call does one of four things to the heap and the variables:       *)
(* nothing, a new block for an empty variable, another block in the place  *)
(* of the variable's own, or the end of it.  That the block is nobody      *)
(* else's (OneOwner) is what keeps the others out of it.                   *)


\* A variable that holds a strick holds its address.
LEMMA PtrType ==
  ASSUME IInv, NEW v \in Holding
  PROVE  ptr[v] \in Addr /\ ptr[v] \in Live
BY DEF IInv, OneOwner, Live

-----------------------------------------------------------------------------
(* Whom a call touches.                                                    *)

Elsewhere(v) == \A w \in Holding \ {v} : ptr'[w] = ptr[w] /\ After(w) = Strick(w)

LEMMA SameElsewhere ==
  ASSUME NEW v, UNCHANGED <<heap, ptr>>
  PROVE  Elsewhere(v)
BY DEF Elsewhere, After, Strick

LEMMA ReplaceElsewhere ==
  ASSUME IInv, NEW v \in Holding, NEW a \in ReallocAt(v), NEW b, Replace(v, a, b)
  PROVE  Elsewhere(v)
<1> SUFFICES ASSUME NEW w \in Holding, w # v
             PROVE  ptr'[w] = ptr[w] /\ heap'[ptr'[w]] = heap[ptr[w]]
  BY DEF Elsewhere, After, Strick
<1>1. /\ ptr[v] \in Live /\ ptr[w] \in Live /\ ptr[w] # ptr[v]
      /\ v \in Var /\ w \in Var
  BY DEF IInv, OneOwner, Holding
<1>2. ptr[w] # a
  BY <1>1 DEF ReallocAt, Unused
<1>3. ptr'[w] = ptr[w]
  BY <1>1 DEF Replace, IInv, PtrOK
<1>4. heap'[ptr[w]] = heap[ptr[w]]
  BY <1>1, <1>2 DEF Replace, IInv, HeapOK, Live
<1> QED
  BY <1>3, <1>4

LEMMA CreateElsewhere ==
  ASSUME IInv, NEW op, NEW v \in Var, NEW b, NEW n, Create(op, v, b, n)
  PROVE  Elsewhere(v)
<1>1. CASE UNCHANGED <<heap, ptr>>
  BY <1>1, SameElsewhere
<1>2. CASE \E a \in Unused : heap' = [heap EXCEPT ![a] = b] /\ ptr' = [ptr EXCEPT ![v] = a]
  <2>1. PICK a \in Unused : heap' = [heap EXCEPT ![a] = b] /\ ptr' = [ptr EXCEPT ![v] = a]
    BY <1>2
  <2> SUFFICES ASSUME NEW w \in Holding, w # v
               PROVE  ptr'[w] = ptr[w] /\ heap'[ptr'[w]] = heap[ptr[w]]
    BY DEF Elsewhere, After, Strick
  <2>2. ptr[w] \in Live /\ w \in Var /\ a \notin Live
    BY DEF IInv, OneOwner, Holding, Unused
  <2>3. ptr'[w] = ptr[w]
    BY <2>1, <2>2 DEF IInv, PtrOK
  <2>4. heap'[ptr[w]] = heap[ptr[w]]
    BY <2>1, <2>2 DEF IInv, HeapOK, Live
  <2> QED
    BY <2>3, <2>4
<1> QED
  BY <1>1, <1>2 DEF Create

LEMMA FreeElsewhere ==
  ASSUME IInv, NEW v \in Var, stx_free(v)
  PROVE  Elsewhere(v)
<1> SUFFICES ASSUME NEW w \in Holding, w # v
             PROVE  ptr'[w] = ptr[w] /\ heap'[ptr'[w]] = heap[ptr[w]]
  BY DEF Elsewhere, After, Strick
<1>1. ptr[w] \in Live /\ ptr[w] # ptr[v] /\ w \in Var /\ v \in Holding
  BY DEF IInv, OneOwner, Holding, stx_free
<1>2. ptr'[w] = ptr[w]
  BY <1>1 DEF stx_free, IInv, PtrOK
<1>3. heap'[ptr[w]] = heap[ptr[w]]
  BY <1>1 DEF stx_free, IInv, HeapOK, Live
<1> QED
  BY <1>2, <1>3

\* The shape of every call on v: what it may do to the heap and the variables.
Shape(v) ==
  \/ UNCHANGED <<heap, ptr>>
  \/ \E op, b, n : Create(op, v, b, n)
  \/ v \in Holding /\ \E a \in ReallocAt(v) : \E b : Replace(v, a, b)
  \/ stx_free(v)

Call(v) ==
  \/ \E cap \in Caps : stx_new(v, cap) \/ stx_resize(v, cap)
  \/ \E src \in Texts : \/ stx_from_len(v, src)
                        \/ stx_append(v, src)
                        \/ stx_append_strict(v, src)
                        \/ stx_append_fmt(v, src)
                        \/ stx_append_fmt_strict(v, src)
  \/ \E w \in Var : stx_dup(v, w)
  \/ \E i \in 0..MaxCap, c \in UserBytes : UserWrite(v, i, c)
  \/ stx_reset(v)
  \/ stx_adjust(v)
  \/ stx_trim(v)
  \/ stx_free(v)

LEMMA NextIsCall == Next => \E v \in Var : Call(v)
BY DEF Next, Call

LEMMA OwnPlace ==
  ASSUME NEW v
  PROVE  ptr[v] \in ReallocAt(v) /\ Unused \subseteq ReallocAt(v)
BY DEF ReallocAt

LEMMA Creating ==
  ASSUME NEW v \in Var,
         \/ \E cap \in Caps : stx_new(v, cap)
         \/ \E src \in Texts : stx_from_len(v, src)
         \/ \E w \in Var : stx_dup(v, w)
  PROVE  ret'.v = v /\ Shape(v)
<1>1. \E op, b, n : Create(op, v, b, n)
  BY Zenon DEF stx_new, stx_from_len, stx_dup
<1> QED
  BY <1>1 DEF Create, Returns, Shape

LEMMA Appending ==
  ASSUME NEW v \in Var, NEW src, NEW op,
         AppendInPlace(op, v, src) \/ AppendGrown(op, v, src) \/ AppendFailed(op, v, src),
         v \in Holding
  PROVE  ret'.v = v /\ Shape(v)
<1>1. ret'.v = v
  BY DEF AppendInPlace, AppendGrown, AppendFailed, Returns
<1>2. CASE AppendInPlace(op, v, src)
  BY <1>1, <1>2, OwnPlace, Zenon DEF AppendInPlace, Shape
<1>3. CASE AppendGrown(op, v, src)
  BY <1>1, <1>3, Zenon DEF AppendGrown, Shape
<1>4. CASE AppendFailed(op, v, src)
  BY <1>1, <1>4, Zenon DEF AppendFailed, Shape
<1> QED
  BY <1>2, <1>3, <1>4

LEMMA AppendingStrict ==
  ASSUME NEW v \in Var, NEW src,
         stx_append_strict(v, src) \/ stx_append_fmt_strict(v, src)
  PROVE  ret'.v = v /\ Shape(v)
<1>1. v \in Holding /\ ret'.v = v
  BY DEF stx_append_strict, stx_append_fmt_strict, AppendInPlace, Returns
<1>2. UNCHANGED <<heap, ptr>> \/ \E b : Replace(v, ptr[v], b)
  BY Zenon DEF stx_append_strict, stx_append_fmt_strict, AppendInPlace
<1> QED
  BY <1>1, <1>2, OwnPlace, Zenon DEF Shape

LEMMA Resizing ==
  ASSUME NEW v \in Var, NEW cap, stx_resize(v, cap)
  PROVE  ret'.v = v /\ Shape(v)
<1>1. v \in Holding /\ ret'.v = v
  BY DEF stx_resize, Returns
<1>2. UNCHANGED <<heap, ptr>> \/ \E a \in ReallocAt(v) : \E b : Replace(v, a, b)
  BY OwnPlace DEF stx_resize
<1> QED
  BY <1>1, <1>2, Zenon DEF Shape

LEMMA InPlace ==
  ASSUME NEW v \in Var,
         \/ \E i \in 0..MaxCap, c \in UserBytes : UserWrite(v, i, c)
         \/ stx_reset(v)
         \/ stx_adjust(v)
         \/ stx_trim(v)
  PROVE  ret'.v = v /\ Shape(v)
<1>1. v \in Holding /\ \E op, rc, n : Returns(op, v, rc, n)
  BY Zenon DEF UserWrite, stx_reset, stx_adjust, stx_trim
<1>2. \E b : Replace(v, ptr[v], b)
  BY Zenon DEF UserWrite, stx_reset, stx_adjust, stx_trim
<1>3. ret'.v = v
  BY <1>1 DEF Returns
<1> QED
  BY <1>1, <1>2, <1>3, OwnPlace, Zenon DEF Shape

LEMMA Shapes ==
  ASSUME NEW v \in Var, Call(v)
  PROVE  ret'.v = v /\ Shape(v)
<1>1. CASE \E src \in Texts : stx_append(v, src) \/ stx_append_fmt(v, src)
  <2>1. PICK src \in Texts, op \in {"append", "append_fmt"} :
          /\ v \in Holding
          /\ AppendInPlace(op, v, src) \/ AppendGrown(op, v, src) \/ AppendFailed(op, v, src)
    BY <1>1 DEF stx_append, stx_append_fmt
  <2> QED
    BY <2>1, Appending
<1>2. CASE stx_free(v)
  BY <1>2 DEF Shape, stx_free, Returns
<1> QED
  BY <1>1, <1>2, Creating, AppendingStrict, Resizing, InPlace DEF Call

\* A call on one variable leaves the address, the header and every byte of the
\* other variables' stricks as they were, wherever realloc puts the block and
\* whatever fails (every public function of stx.c that changes a strick).
THEOREM OthersUntouched ==
  ASSUME Width
  PROVE  Spec => NoInterference
<1>1. ASSUME IInv, NEW v \in Var, Shape(v)
      PROVE  Elsewhere(v)
  BY <1>1, SameElsewhere, CreateElsewhere, ReplaceElsewhere, FreeElsewhere DEF Shape
<1>2. IInv /\ Next => \A w \in Holding \ {ret'.v} : ptr'[w] = ptr[w] /\ After(w) = Strick(w)
  <2> SUFFICES ASSUME IInv, Next
               PROVE  \A w \in Holding \ {ret'.v} : ptr'[w] = ptr[w] /\ After(w) = Strick(w)
    OBVIOUS
  <2>1. PICK v \in Var : ret'.v = v /\ Shape(v)
    BY NextIsCall, Shapes
  <2> QED
    BY <1>1, <2>1 DEF Elsewhere
<1> QED
  BY <1>2, Invariant, PTL DEF Spec, NoInterference

-----------------------------------------------------------------------------
(* What a failure leaves behind.                                           *)

\* The strick of v is where it was, with the same length, capacity and text.
LEMMA SameText ==
  ASSUME IInv, NEW v \in Holding, NEW c, Replace(v, ptr[v], c),
         c.cap = Strick(v).cap, stx_equal(Strick(v), c)
  PROVE  /\ ptr' = ptr
         /\ \A w \in Holding : /\ stx_equal(Strick(w), After(w))
                              /\ Strick(w).cap = After(w).cap
<1>1. v \in Var /\ ptr[v] \in Addr /\ ptr[v] \in ReallocAt(v)
  BY StrickOK, PtrType DEF IInv
<1>2. ptr' = ptr
  BY <1>1 DEF Replace, IInv, PtrOK
<1>3. After(v) = c
  BY <1>1, <1>2 DEF After, Replace, IInv, HeapOK
<1>4. \A w \in Holding \ {v} : After(w) = Strick(w)
  BY <1>1, ReplaceElsewhere DEF Elsewhere
<1>5. \A w \in Holding : stx_equal(Strick(w), Strick(w))
  BY DEF stx_equal
<1> QED
  BY <1>2, <1>3, <1>4, <1>5

Unmarked ==
  /\ ptr' = ptr
  /\ \A v \in Holding : /\ stx_equal(Strick(v), After(v))
                       /\ Strick(v).cap = After(v).cap

LEMMA SameUnmarked ==
  ASSUME UNCHANGED <<heap, ptr>>
  PROVE  Unmarked
BY DEF Unmarked, stx_equal, After, Strick

\* A text of no bytes after no bytes: 0, and still no bytes.
LEMMA InPlaceUnmarked ==
  ASSUME Width, IInv, NEW v \in Holding, NEW src \in Texts, NEW op,
         AppendInPlace(op, v, src), ret'.rc <= 0
  PROVE  Unmarked
<1>1. PICK b, n : b = Strick(v) /\ n = b.len + Len(src)
  OBVIOUS
<1>2. BlockOK(b)
  BY <1>1, StrickOK DEF IInv
<1>3. ret'.rc = n /\ Replace(v, ptr[v], Appended(b, b.len, src))
  BY <1>1 DEF AppendInPlace, Returns
<1>4. b.len = 0 /\ Len(src) = 0
  BY <1>1, <1>2, <1>3, TextsType, BlockParts
<1>5. Stored(b.type, 0) = 0
  BY U32Type DEF Stored
<1>6. PICK d : Appended(b, b.len, src) = Written(b, 0, d)
  BY <1>4 DEF Appended
<1>7. Written(b, 0, d).len = 0 /\ Written(b, 0, d).cap = b.cap
  BY <1>2, <1>5, BlockParts DEF Written
<1>8. stx_equal(b, Written(b, 0, d))
  BY <1>4, <1>7 DEF stx_equal
<1> QED
  BY <1>1, <1>3, <1>6, <1>7, <1>8, SameText DEF Unmarked

\* grow answers to a length of at least one.
LEMMA GrownSucceeds ==
  ASSUME Width, IInv, NEW v \in Holding, NEW src \in Texts, NEW op, AppendGrown(op, v, src)
  PROVE  ret'.rc > 0
<1>1. BlockOK(Strick(v))
  BY StrickOK DEF IInv
<1>2. ret'.rc = Strick(v).len + Len(src) /\ ~Fits(Strick(v), Len(src))
  BY DEF AppendGrown, Returns
<1> QED
  BY <1>1, <1>2, TextsType, BlockParts DEF Fits

\* The byte stx_append_fmt_strict clears is the one after the text.
LEMMA UndoneUnmarked ==
  ASSUME Width, IInv, NEW v \in Holding, NEW data \in [0..Strick(v).room -> Cell],
         \A i \in 0..(Strick(v).len - 1) : data[i] = Strick(v).data[i],
         Replace(v, ptr[v], Undone(Strick(v), data))
  PROVE  Unmarked
<1>1. PICK b, r, l, old, o, s : /\ b = Strick(v) /\ r = b.room /\ l = b.len /\ old = b.data
                                /\ o = data /\ s = <<NUL>>
  OBVIOUS
<1>2. BlockOK(b)
  BY <1>1, StrickOK DEF IInv
<1>3. /\ l \in Nat /\ r \in Nat /\ l <= r /\ NUL \in Byte /\ o \in [0..r -> Cell]
      /\ old \in [0..r -> Cell] /\ \A i \in 0..(l - 1) : o[i] = old[i]
  BY <1>1, <1>2, BlockParts, WidthAssumption, ByteAssumption
<1>4. PICK d : d = Write(o, l, s)
  OBVIOUS
<1>5. s = <<NUL>>
  BY <1>1
<1>6. /\ Write(o, l, s) \in [0..r -> Cell]
      /\ \A i \in 0..r : Write(o, l, s)[i] = IF i = l THEN NUL ELSE o[i]
  <2>1. Write(o, l, <<NUL>>) = WithByte(r, o, l, NUL)
    BY <1>3, WriteOne
  <2> QED
    BY <1>3, <1>5, <2>1, NULType DEF WithByte
<1>7. d \in [0..r -> Cell] /\ \A i \in 0..(l - 1) : d[i] = old[i]
  BY <1>3, <1>4, <1>6
<1>8. PICK c : c = [b EXCEPT !.data = d]
  OBVIOUS
<1>9. c.len = l /\ c.cap = b.cap /\ c.data = d
  BY <1>1, <1>2, <1>8, BlockParts
<1>10. \A i \in 0..(l - 1) : At(old, i) = At(d, i)
  BY <1>3, <1>7 DEF At
<1>11. stx_equal(b, c)
  BY <1>1, <1>9, <1>10 DEF stx_equal
<1>12. Replace(v, ptr[v], c)
  BY <1>1, <1>4, <1>8 DEF Undone
<1> QED
  BY <1>1, <1>9, <1>11, <1>12, SameText DEF Unmarked

LEMMA FmtStrictUnmarked ==
  ASSUME Width, IInv, NEW v \in Var, NEW out \in Texts, stx_append_fmt_strict(v, out),
         ret'.rc <= 0
  PROVE  Unmarked
<1> DEFINE b == Strick(v)
           spc == (b.cap - b.len) % U32
           totlen == b.len + Len(out)
           written == Write(b.data, b.len, Append(Cut(out, spc), NUL))
           spoilt == [i \in DOMAIN b.data |->
                        IF i >= b.len /\ i < b.len + spc THEN Junk ELSE b.data[i]]
           Ret(rc) == Returns("append_fmt_strict", v, rc, Len(out))
<1>1. v \in Holding /\ BlockOK(b)
  BY StrickOK DEF stx_append_fmt_strict, IInv
<1>2. PICK l, r, old : l = b.len /\ r = b.room /\ old = b.data
  OBVIOUS
<1>3. /\ l \in Nat /\ r \in Nat /\ l <= r /\ b.cap = r /\ r \in 0..MaxCap
      /\ old \in [0..r -> Cell] /\ out \in Seq(Byte) /\ Len(out) \in Nat
  BY <1>1, <1>2, BlockParts, TextsType, WidthAssumption
<1>4. spc \in Nat
  <2>1. r - l \in Nat /\ r - l < U32 /\ U32 \in Nat
    BY <1>3, U32Type, WidthAssumption DEF Width
  <2>2. (r - l) % U32 = r - l
    BY <2>1, ModSmall
  <2> QED
    BY <1>2, <1>3, <2>1, <2>2
<1> HIDE DEF spc
<1>5. CASE UNCHANGED <<heap, ptr>>
  BY <1>5, SameUnmarked
<1>6. CASE /\ spc > 0 /\ Fits(b, Len(out)) /\ Ret(totlen)
           /\ Replace(v, ptr[v], Written(b, totlen, written))
  <2>1. l = 0 /\ Len(out) = 0
    BY <1>2, <1>3, <1>6 DEF Returns
  <2>2. Cut(out, spc) = out
    BY <1>4, <2>1 DEF Cut
  <2>3. Written(b, totlen, written) = Appended(b, b.len, out)
    BY <2>2 DEF Appended
  <2>4. Returns("append_fmt_strict", v, totlen, Len(out)) /\ ret'.rc <= 0
    BY <1>6
  <2>5. PICK f : f = faults \cup Overrun(b, totlen)
    OBVIOUS
  <2>6. Stored(b.type, 0) = 0 /\ b.len = 0 /\ totlen = 0
    BY U32Type, <1>2, <2>1 DEF Stored
  <2>7. PICK d : Written(b, totlen, written) = Written(b, 0, d)
    BY <2>6
  <2>8. Written(b, 0, d).len = 0 /\ Written(b, 0, d).cap = b.cap
    BY <1>1, <2>6, BlockParts DEF Written
  <2>9. stx_equal(b, Written(b, 0, d))
    BY <2>6, <2>8 DEF stx_equal
  <2> QED
    BY <1>1, <1>6, <2>7, <2>8, <2>9, SameText DEF Unmarked
<1>7. CASE Replace(v, ptr[v], Undone(b, written))
  <2>1. PICK s : s = Append(Cut(out, spc), NUL)
    OBVIOUS
  <2>2. s \in Seq(Byte)
    BY <1>3, <1>4, <2>1, CutType, AppendNUL
  <2>3. PICK w : w = Write(old, l, s)
    OBVIOUS
  <2>4. w \in [0..r -> Cell] /\ \A i \in 0..(l - 1) : w[i] = old[i]
    <3>1. Lands(w, r, old, l, s)
      BY <1>3, <2>2, <2>3, WriteLands
    <3> QED
      BY <1>3, <3>1 DEF Lands
  <2>5. w = written
    BY <1>2, <2>1, <2>3
  <2> QED
    BY <1>1, <1>2, <1>7, <2>4, <2>5, UndoneUnmarked
<1>8. CASE Replace(v, ptr[v], Undone(b, spoilt))
  <2>1. spoilt = [i \in 0..r |-> IF i >= l /\ i < l + spc THEN Junk ELSE old[i]]
    BY <1>2, <1>3
  <2>2. spoilt \in [0..r -> Cell] /\ \A i \in 0..(l - 1) : spoilt[i] = old[i]
    <3>1. /\ r \in Nat /\ l \in Nat /\ l <= r /\ spc \in Nat
          /\ old \in [0..r -> Cell]
      BY <1>3, <1>4
    <3>2. \A i \in 0..r : spoilt[i] \in Cell
      BY <2>1, <3>1, NULType
    <3>3. \A i \in 0..(l - 1) : spoilt[i] = old[i]
      BY <2>1, <3>1
    <3>4. spoilt \in [0..r -> Cell]
      BY <2>1, <3>2, Zenon
    <3> QED
      BY <3>3, <3>4
  <2> QED
    BY <1>1, <1>2, <1>8, <2>2, UndoneUnmarked
<1> QED
  BY <1>5, <1>6, <1>7, <1>8, Zenon DEF stx_append_fmt_strict, spc

LEMMA AppendUnmarked ==
  ASSUME Width, IInv, NEW v \in Var, NEW src \in Texts, ret'.rc <= 0,
         stx_append(v, src) \/ stx_append_fmt(v, src) \/ stx_append_strict(v, src)
  PROVE  Unmarked
<1>1. v \in Holding
  BY DEF stx_append, stx_append_fmt, stx_append_strict
<1>2. \/ UNCHANGED <<heap, ptr>>
      \/ \E op : AppendInPlace(op, v, src) \/ AppendGrown(op, v, src)
  BY Zenon DEF stx_append, stx_append_fmt, stx_append_strict, AppendFailed
<1>3. ASSUME NEW op, AppendInPlace(op, v, src)
      PROVE  Unmarked
  BY <1>1, <1>3, InPlaceUnmarked
<1>4. ASSUME NEW op, AppendGrown(op, v, src)
      PROVE  Unmarked
  <2>1. ret'.rc > 0
    BY <1>1, <1>4, GrownSucceeds
  <2>2. ret'.rc \in Int
    BY <1>1, <1>4, StrickOK, BlockParts, TextsType DEF AppendGrown, Returns, IInv
  <2> QED
    BY <2>1, <2>2
<1> QED
  BY <1>2, <1>3, <1>4, SameUnmarked

LEMMA OpsReported ==
  ASSUME NEW v \in Var, Call(v), ret'.op \in Reporting
  PROVE  \/ \E cap \in Caps : stx_resize(v, cap)
         \/ \E src \in Texts : \/ stx_append(v, src)
                               \/ stx_append_strict(v, src)
                               \/ stx_append_fmt(v, src)
                               \/ stx_append_fmt_strict(v, src)
<1>1. ASSUME NEW op \in {"new", "from", "dup", "reset", "adjust", "trim", "free", "user_write"},
             NEW w, NEW rc, NEW n, Returns(op, w, rc, n)
      PROVE  FALSE
  BY <1>1 DEF Returns, Reporting
<1>2. ~ \E cap \in Caps : stx_new(v, cap)
  BY <1>1 DEF stx_new, Create
<1>3. ~ \E src \in Texts : stx_from_len(v, src)
  BY <1>1 DEF stx_from_len, Create
<1>4. ~ \E w \in Var : stx_dup(v, w)
  BY <1>1 DEF stx_dup, Create
<1>5. ~ \E i \in 0..MaxCap, c \in UserBytes : UserWrite(v, i, c)
  BY <1>1 DEF UserWrite
<1>6. ~ stx_reset(v) /\ ~ stx_free(v)
  BY <1>1 DEF stx_reset, stx_free
<1>7. ~ stx_adjust(v)
  BY <1>1 DEF stx_adjust
<1>8. ~ stx_trim(v)
  BY <1>1 DEF stx_trim
<1> QED
  BY <1>2, <1>3, <1>4, <1>5, <1>6, <1>7, <1>8, Zenon DEF Call

\* A call that reports failure, 0 or negative, has moved nothing and changed no
\* string, length or capacity: append and grow whose realloc failed,
\* stx_append_fmt_strict after vsnprintf wrote what fits or left bytes nobody
\* wrote, stx_resize without memory.
THEOREM FailuresLeaveNoMark ==
  ASSUME Width
  PROVE  Spec => FailureChangesNothing
<1>1. IInv /\ Next => (ret'.op \in Reporting /\ ret'.rc <= 0 => Unmarked)
  <2> SUFFICES ASSUME IInv, Next, ret'.op \in Reporting, ret'.rc <= 0
               PROVE  Unmarked
    OBVIOUS
  <2>1. PICK v \in Var : Call(v)
    BY NextIsCall
  <2>2. CASE \E cap \in Caps : stx_resize(v, cap)
    <3>1. UNCHANGED <<heap, ptr>>
      BY <2>2 DEF stx_resize, Returns
    <3> QED
      BY <3>1, SameUnmarked
  <2>3. CASE \E src \in Texts : stx_append_fmt_strict(v, src)
    BY <2>3, FmtStrictUnmarked
  <2>4. CASE \E src \in Texts : \/ stx_append(v, src)
                                \/ stx_append_strict(v, src)
                                \/ stx_append_fmt(v, src)
    BY <2>4, AppendUnmarked
  <2> QED
    BY <2>1, <2>2, <2>3, <2>4, OpsReported
<1>2. IInv /\ [Next]_vars =>
        [ret'.op \in Reporting /\ ret'.rc <= 0 =>
           /\ ptr' = ptr
           /\ \A v \in Holding : /\ stx_equal(Strick(v), After(v))
                                /\ Strick(v).cap = After(v).cap]_vars
  BY <1>1 DEF Unmarked
<1> QED
  BY <1>2, Invariant, PTL DEF Spec, FailureChangesNothing

-----------------------------------------------------------------------------
(* A strict append that was refused, and the resize that makes room.       *)

\* What a refusal says of the strick it refused, until the next call.
Refusal ==
  ret.op \in {"append_strict", "append_fmt_strict"} /\ ret.rc < 0 =>
    /\ ret.v \in Holding
    /\ ret.rc = -(Strick(ret.v).len + ret.n)
    /\ Strick(ret.v).cap < Strick(ret.v).len + ret.n

LEMMA NotRefused ==
  ASSUME NEW v \in Var, Call(v), ret'.op \in {"append_strict", "append_fmt_strict"}
  PROVE  \E src \in Texts : stx_append_strict(v, src) \/ stx_append_fmt_strict(v, src)
<1>1. ret'.op \in Reporting
  BY DEF Reporting
<1>2. ~ \E cap \in Caps : stx_resize(v, cap)
  BY DEF stx_resize, Returns
<1>3. ~ \E src \in Texts : stx_append(v, src) \/ stx_append_fmt(v, src)
  BY DEF stx_append, stx_append_fmt, AppendInPlace, AppendGrown, AppendFailed, Returns
<1> QED
  BY <1>1, <1>2, <1>3, OpsReported

LEMMA RefusalStep ==
  ASSUME Width, IInv, NEW v \in Var, NEW src \in Texts,
         stx_append_strict(v, src) \/ stx_append_fmt_strict(v, src), ret'.rc < 0
  PROVE  Refusal'
<1>1. PICK b : b = Strick(v)
  OBVIOUS
<1>2. v \in Holding /\ BlockOK(b) /\ Len(src) \in Nat
  BY <1>1, StrickOK, TextsType DEF stx_append_strict, stx_append_fmt_strict, IInv
<1>3. /\ ~Fits(b, Len(src))
      /\ ret'.v = v /\ ret'.n = Len(src) /\ ret'.rc = Needed(b, Len(src))
  <2>1. CASE stx_append_strict(v, src)
    BY <1>1, <1>2, <2>1, BlockParts DEF stx_append_strict, AppendInPlace, Returns
  <2>2. CASE stx_append_fmt_strict(v, src)
    BY <1>1, <1>2, <2>2, BlockParts DEF stx_append_fmt_strict, Returns
  <2> QED
    BY <2>1, <2>2
<1>4. Unmarked
  <2>1. ret'.rc <= 0
    BY <1>2, <1>3, BlockParts DEF Needed
  <2> QED
    BY <2>1, FmtStrictUnmarked, AppendUnmarked
<1>5. After(v).len = b.len /\ After(v).cap = b.cap /\ v \in Holding'
  BY <1>1, <1>2, <1>4 DEF Unmarked, stx_equal, Holding
<1>6. Strick(v)' = After(v)
  BY DEF Strick, After
<1> QED
  BY <1>2, <1>3, <1>5, <1>6, BlockParts DEF Refusal, Needed, Fits, Strick

\* The capacity that a refused strict append asks for, negated, is the one its text
\* needs: after stx_resize to it the strick has room for exactly that text, as the
\* README's example of stx_resize has it.
THEOREM RetriesFit ==
  ASSUME Width
  PROVE  Spec => RetryFits
<1>1. Init => Refusal
  BY DEF Init, Refusal
<1>2. Width => (IInv /\ Refusal /\ [Next]_vars => Refusal')
  <2> SUFFICES ASSUME Width, IInv, Refusal, [Next]_vars
               PROVE  Refusal'
    OBVIOUS
  <2>1. CASE UNCHANGED vars
    BY <2>1 DEF Refusal, Holding, Strick, vars
  <2>2. CASE Next
    <3>1. PICK v \in Var : Call(v)
      BY <2>2, NextIsCall
    <3>2. CASE ret'.op \in {"append_strict", "append_fmt_strict"} /\ ret'.rc < 0
      BY <3>1, <3>2, NotRefused, RefusalStep
    <3>3. CASE ~(ret'.op \in {"append_strict", "append_fmt_strict"} /\ ret'.rc < 0)
      BY <3>3 DEF Refusal
    <3> QED
      BY <3>2, <3>3
  <2> QED
    BY <2>1, <2>2
<1>3. Width => (IInv /\ Refusal /\ Next =>
        (/\ ret.op \in {"append_strict", "append_fmt_strict"} /\ ret.rc < 0
         /\ ret'.op = "resize" /\ ret'.rc = 1 /\ ret'.v = ret.v /\ ret'.n = -ret.rc
         => After(ret.v).cap - After(ret.v).len = ret.n))
  <2> SUFFICES ASSUME Width, IInv, Refusal, Next,
                      ret.op \in {"append_strict", "append_fmt_strict"}, ret.rc < 0,
                      ret'.op = "resize", ret'.rc = 1, ret'.v = ret.v, ret'.n = -ret.rc
               PROVE  After(ret.v).cap - After(ret.v).len = ret.n
    OBVIOUS
  <2>1. PICK v \in Var : Call(v) /\ ret'.v = v
    BY NextIsCall, Shapes
  <2>2. PICK newcap \in Caps : stx_resize(v, newcap)
    <3>1. ~ \E src \in Texts : stx_append(v, src) \/ stx_append_fmt(v, src)
      BY DEF stx_append, stx_append_fmt, AppendInPlace, AppendGrown, AppendFailed, Returns
    <3>2. ~ \E src \in Texts : stx_append_strict(v, src)
      BY DEF stx_append_strict, AppendInPlace, Returns
    <3>3. ~ \E src \in Texts : stx_append_fmt_strict(v, src)
      <4>1. ~ \E rc, n : Returns("append_fmt_strict", v, rc, n)
        BY DEF Returns
      <4> QED
        BY <4>1, Zenon DEF stx_append_fmt_strict
    <3> QED
      BY <2>1, <3>1, <3>2, <3>3, OpsReported DEF Reporting
  <2>3. PICK b, n : b = Strick(v) /\ n = ret.n
    OBVIOUS
  <2>4. /\ v \in Holding /\ BlockOK(b) /\ n \in Nat
        /\ newcap = b.len + n /\ b.cap < newcap /\ newcap \in 0..MaxCap
    BY <2>1, <2>2, <2>3, StrickOK, BlockParts, WidthAssumption
    DEF Refusal, stx_resize, Returns, IInv, RetOK
  <2>5. newcap # b.cap /\ NewLen(b, newcap) = b.len
    BY <2>4, BlockParts DEF NewLen
  <2>6. PICK a, data : a \in ReallocAt(v) /\ Replace(v, a, Resized(b, newcap, data))
    BY <2>2, <2>3, <2>4, <2>5, OwnPlace DEF stx_resize, Returns
  <2>7. After(v) = Resized(b, newcap, data)
    <3>1. a \in Addr /\ v \in Var
      BY <2>4, <2>6, PtrType DEF ReallocAt, Unused
    <3> QED
      BY <2>6, <3>1 DEF After, Replace, IInv, HeapOK, PtrOK
  <2>8. Stored(TYPE_FOR(newcap), newcap) = newcap /\ Stored(TYPE_FOR(newcap), b.len) = b.len
    <3>1. newcap \in Nat /\ b.len \in 0..MaxCap /\ b.len <= newcap
      BY <2>4, BlockParts, WidthAssumption
    <3>2. TYPE_FOR(newcap) = "TYPE1" => newcap <= SMALL_MAX /\ b.len <= SMALL_MAX
      BY <2>4, <3>1, TypeForType, WidthAssumption
    <3> QED
      BY <2>4, <3>1, <3>2, TypeForType, StoredExact
  <2>9. After(v).cap = newcap /\ After(v).len = b.len
    BY <2>5, <2>7, <2>8 DEF Resized, MakeBlock
  <2> QED
    BY <2>1, <2>3, <2>4, <2>9, BlockParts
<1> QED
  BY <1>1, <1>2, <1>3, Invariant, PTL DEF Spec, RetryFits
=============================================================================
