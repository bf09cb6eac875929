------------------------------ MODULE SdsProofs ------------------------------
(***************************************************************************)
(* The invariants of Sds, for all variables, addresses, bytes, texts and   *)
(* numbers, all limits of the types, and any SDS_MAX_PREALLOC: through all *)
(* changes of layout the header tells the truth about its block, strings   *)
(* end where it says, and every variable owns its block.                   *)
(*                                                                         *)
(* None of them is inductive alone.  A string is terminated where the      *)
(* header says because the header was right about the room; and what       *)
(* sdssetlen and sdssetalloc store is what was meant because a block has   *)
(* no more room than its type can name (Sound).                            *)
(***************************************************************************)
EXTENDS Sds, InductionLemmas

\* A block as it is while sdscatfmt fills it: it may have no terminator yet.
Sound(b) ==
  /\ b \in Block
  /\ b.alloc = IF b.type = 5 THEN 0 ELSE b.room
  /\ b.type # 64 => b.room <= Limit[b.type]
  /\ b.len <= b.room
  /\ Len(b.data) = b.len + 1 /\ \A i \in 1..b.len : b.data[i] \in Byte

\* A block as every call leaves it.
BlockOK(b) == Sound(b) /\ b.data[b.len + 1] = NUL

Whole == {b \in Block : BlockOK(b)}

Owned ==
  /\ \A v \in Holding : heap[ptr[v]] # FREE
  /\ \A v, w \in Holding : ptr[v] = ptr[w] => v = w
  /\ \A a \in Addr : heap[a] # FREE => \E v \in Holding : ptr[v] = a

IInv ==
  /\ heap \in [Addr -> Whole \cup {FREE}]
  /\ ptr \in [Var -> Addr \cup {NULL}]
  /\ ret \in [op : Op, v : Var \cup {NULL}, res : {"ok", "null", "crash"}]
  /\ Owned

-----------------------------------------------------------------------------
(* Types and their fields.                                                 *)

LEMMA LimitType ==
  ASSUME NEW t \in Type
  PROVE  /\ t \in Nat /\ (t # 64 => Limit[t] \in Nat \ {0})
         /\ Limit[5] < Limit[8]
<1>1. /\ Limit \in [Type \ {64} -> Nat \ {0}]
      /\ \A s, u \in Type \ {64} : s < u => Limit[s] < Limit[u]
  BY LimitAssumption
<1>2. 5 \in Type \ {64} /\ 8 \in Type \ {64} /\ 5 < 8 /\ Type \subseteq Nat
  BY DEF Type
<1> QED
  BY <1>1, <1>2

\* A field that is wide enough stores what it is given.
LEMMA StoredSame ==
  ASSUME NEW t \in Type, NEW n \in Nat, t # 64 => n <= Limit[t]
  PROVE  Stored(t, n) = n
<1>1. \A l \in Nat : n <= l => n % (l + 1) = n
  OBVIOUS
<1> QED
  BY <1>1, LimitType DEF Stored

\* The type that is asked for has room for as much.
LEMMA ReqType ==
  ASSUME NEW n \in Nat
  PROVE  /\ sdsReqType(n) \in Type
         /\ sdsReqType(n) # 64 => n <= Limit[sdsReqType(n)]
         /\ \A t \in Type \ {64} : n <= Limit[t] => sdsReqType(n) <= t
<1>1. PICK S : S = {t \in Type \ {64} : n <= Limit[t]} \cup {64}
  OBVIOUS
<1>2. S \subseteq Nat /\ S # {} /\ S \subseteq Type
  BY <1>1 DEF Type
<1>3. Min(S) \in S /\ \A x \in S : Min(S) <= x
  BY <1>2, Smallest
<1>4. sdsReqType(n) = Min(S)
  BY <1>1 DEF sdsReqType
<1> QED
  BY <1>1, <1>2, <1>3, <1>4

\* sdsalloc and sdsavail, in one formula for all types.
LEMMA AllocOf ==
  ASSUME NEW b, Sound(b)
  PROVE  /\ b \in Block /\ b.type \in Type /\ b.len \in Nat /\ b.room \in Nat
         /\ sdsalloc(b) = IF b.type = 5 THEN b.len ELSE b.room
         /\ sdsavail(b) = sdsalloc(b) - b.len /\ sdsalloc(b) \in Nat
         /\ b.len <= sdsalloc(b) /\ sdsalloc(b) <= b.room
<1>1. b \in Block /\ b.type \in Type /\ b.len \in Nat /\ b.room \in Nat
  BY DEF Sound, Block
<1> QED
  BY <1>1 DEF Sound, sdsalloc, sdsavail

-----------------------------------------------------------------------------
(* Bytes.                                                                  *)

\* The bytes of a sound block.
LEMMA TextOK ==
  ASSUME NEW b, Sound(b)
  PROVE  /\ Text(b) \in Seq(Byte) /\ Len(Text(b)) = b.len
         /\ \A i \in 1..b.len : Text(b)[i] = b.data[i]
         /\ Bytes(b, 0, b.len + 1) = b.data
<1>1. /\ b.len \in Nat /\ b.data \in Seq(Byte \cup {Junk}) /\ Len(b.data) = b.len + 1
      /\ \A i \in 1..b.len : b.data[i] \in Byte
  BY DEF Sound, Block
<1>2. PICK d, n : d = b.data /\ n = b.len
  OBVIOUS
<1>3. Text(b) = SubSeq(d, 1, n) /\ Bytes(b, 0, b.len + 1) = SubSeq(d, 1, n + 1)
  <2>1. 0 + 1 = 1 /\ 0 + n = n /\ 0 + (n + 1) = n + 1
    BY <1>1, <1>2
  <2>2. Bytes(b, 0, n) = SubSeq(d, 1, n) /\ Bytes(b, 0, n + 1) = SubSeq(d, 1, n + 1)
    BY <1>2, <2>1, Zenon DEF Bytes
  <2> QED
    BY <1>2, <2>2 DEF Text
<1>4. Len(SubSeq(d, 1, n)) = n /\ \A i \in 1..n : SubSeq(d, 1, n)[i] = d[i]
  BY <1>1, <1>2
<1>5. SubSeq(d, 1, n) \in Seq(Byte)
  BY <1>1, <1>2, <1>4
<1>6. SubSeq(d, 1, n + 1) = d
  BY <1>1, <1>2
<1> QED
  BY <1>2, <1>3, <1>4, <1>5, <1>6

-----------------------------------------------------------------------------
(* The blocks that the code makes.                                         *)

LEMMA BlocksAreNotFree == Whole \subseteq Block /\ FREE \notin Whole
BY FreeAssumption DEF Whole

\* A new header in front of some bytes.
LEMMA MakeSound ==
  ASSUME NEW t \in Type, NEW n \in Nat, NEW room \in Nat, NEW data \in Seq(Byte \cup {Junk}),
         n <= room, t # 64 => room <= Limit[t],
         Len(data) = n + 1, \A i \in 1..n : data[i] \in Byte,
         NEW b, b = MakeBlock(t, n, room, data)
  PROVE  /\ Sound(b) /\ b.type = t /\ b.len = n /\ b.room = room /\ b.data = data
<1>1. t # 64 => n <= Limit[t] /\ Limit[t] \in Nat
  BY LimitType
<1>2. Stored(t, n) = n /\ Stored(t, room) = room
  BY <1>1, StoredSame
<1>3. b = [type |-> t, len |-> n, alloc |-> IF t = 5 THEN 0 ELSE room, room |-> room, data |-> data]
  BY <1>2 DEF MakeBlock
<1>4. (IF t = 5 THEN 0 ELSE room) \in Nat
  OBVIOUS
<1>5. b \in Block
  BY <1>3, <1>4 DEF Block
<1> QED
  BY <1>3, <1>5 DEF Sound

\* A new string, or an old one in another layout.
LEMMA MakeBlockOK ==
  ASSUME NEW t \in Type, NEW n, NEW room \in Nat, NEW text \in Seq(Byte), n = Len(text),
         n <= room, t # 64 => room <= Limit[t]
  PROVE  MakeBlock(t, n, room, Append(text, NUL)) \in Whole
<1>1. PICK data, b : data = Append(text, NUL) /\ b = MakeBlock(t, n, room, data)
  OBVIOUS
<1>2. n \in Nat /\ NUL \in Byte
  BY BytesAssumption
<1>3. /\ data \in Seq(Byte) /\ Len(data) = n + 1 /\ data[n + 1] = NUL
      /\ \A i \in 1..n : data[i] \in Byte
  BY <1>1, <1>2
<1>4. data \in Seq(Byte \cup {Junk})
  BY <1>3
<1>5. Sound(b) /\ b.len = n /\ b.data = data
  <2>1. Len(data) = n + 1 /\ \A i \in 1..n : data[i] \in Byte
    BY <1>3
  <2>2. b = MakeBlock(t, n, room, data)
    BY <1>1
  <2> QED
    BY <1>2, <1>4, <2>1, <2>2, MakeSound
<1> QED
  BY <1>1, <1>3, <1>5 DEF Whole, BlockOK, Sound

\* A text is written into the room there is.
LEMMA HoldsOK ==
  ASSUME NEW b, Sound(b), NEW text \in Seq(Byte), Len(text) <= sdsalloc(b)
  PROVE  Holds(b, text) \in Whole
<1>1. PICK n, data, c : n = Len(text) /\ data = Append(text, NUL) /\ c = Holds(b, text)
  OBVIOUS
<1>2. n \in Nat /\ NUL \in Byte
  BY <1>1, BytesAssumption
<1>3. /\ data \in Seq(Byte) /\ Len(data) = n + 1 /\ data[n + 1] = NUL
      /\ \A i \in 1..n : data[i] \in Byte
  BY <1>1, <1>2
<1>4. data \in Seq(Byte \cup {Junk})
  BY <1>3
<1>5. b \in Block /\ b.type \in Type /\ b.room \in Nat /\ n <= b.room
  BY <1>1, <1>2, AllocOf
<1>6. Stored(b.type, n) = n
  <2>1. b.type # 64 => n <= Limit[b.type]
    BY <1>2, <1>5, LimitType DEF Sound
  <2> QED
    BY <1>2, <1>5, <2>1, StoredSame
<1>7. c = [b EXCEPT !.len = n, !.data = data]
  BY <1>1, <1>6 DEF Holds
<1>8. /\ c \in Block /\ c.type = b.type /\ c.alloc = b.alloc /\ c.room = b.room
      /\ c.len = n /\ c.data = data
  BY <1>2, <1>4, <1>5, <1>7 DEF Block
<1> QED
  BY <1>1, <1>3, <1>5, <1>8 DEF Whole, BlockOK, Sound

\* More room keeps the string.
LEMMA WidenedOK ==
  ASSUME NEW b, Sound(b), NEW addlen \in Nat, NEW w, w = Widened(b, addlen)
  PROVE  /\ Sound(w) /\ w.len = b.len /\ w.data = b.data
         /\ b.len + addlen <= sdsalloc(w)
<1>1. /\ b.len \in Nat /\ sdsavail(b) = sdsalloc(b) - b.len /\ sdsalloc(b) \in Nat
  BY AllocOf
<1>2. CASE sdsavail(b) >= addlen
  BY <1>1, <1>2 DEF Widened
<1>3. CASE ~(sdsavail(b) >= addlen)
  <2>1. PICK room, t, n : /\ room = NewAlloc(b.len + addlen) /\ n = b.len
                          /\ t = IF sdsReqType(room) = 5 THEN 8 ELSE sdsReqType(room)
    OBVIOUS
  <2>2. room \in Nat /\ n + addlen <= room /\ n <= room
    BY <1>1, <2>1, SizesAssumption DEF NewAlloc
  <2>3. t \in Type /\ t # 5 /\ (t # 64 => room <= Limit[t])
    <3>1. sdsReqType(room) \in Type /\ (sdsReqType(room) # 64 => room <= Limit[sdsReqType(room)])
      BY <2>2, ReqType
    <3>2. Limit[5] \in Nat /\ Limit[8] \in Nat /\ Limit[5] < Limit[8] /\ 8 \in Type
      BY LimitType DEF Type
    <3> QED
      BY <2>1, <2>2, <3>1, <3>2
  <2>4. w = MakeBlock(t, n, room, b.data)
    <3>1. Bytes(b, 0, b.len + 1) = b.data
      BY TextOK
    <3> QED
      BY <1>3, <2>1, <3>1 DEF Widened
  <2>5. b.data \in Seq(Byte \cup {Junk}) /\ Len(b.data) = n + 1 /\ \A i \in 1..n : b.data[i] \in Byte
    BY <2>1 DEF Sound, Block
  <2>6. Sound(w) /\ w.type = t /\ w.len = n /\ w.room = room /\ w.data = b.data
    <3>1. n \in Nat
      BY <1>1, <2>1
    <3> QED
      BY <2>2, <2>3, <2>4, <2>5, <3>1, MakeSound
  <2> QED
    BY <2>1, <2>2, <2>3, <2>6, AllocOf
<1> QED
  BY <1>2, <1>3

LEMMA WidenedWhole ==
  ASSUME NEW b \in Whole, NEW addlen \in Nat
  PROVE  Widened(b, addlen) \in Whole
<1>1. PICK w : w = Widened(b, addlen)
  OBVIOUS
<1>2. Sound(b) /\ b.data[b.len + 1] = NUL
  BY DEF Whole, BlockOK
<1>3. Sound(w) /\ w.len = b.len /\ w.data = b.data
  BY <1>1, <1>2, WidenedOK
<1> QED
  BY <1>1, <1>2, <1>3 DEF Whole, BlockOK, Sound

\* sdsRemoveFreeSpace's block.
LEMMA ShrunkOK ==
  ASSUME NEW b \in Whole
  PROVE  MakeBlock(ShrunkType(b), b.len, b.len, Bytes(b, 0, b.len + 1)) \in Whole
<1>1. Sound(b) /\ b.data[b.len + 1] = NUL
  BY DEF Whole, BlockOK
<1>2. /\ b.len \in Nat /\ b.type \in Type /\ b.room \in Nat /\ b.len <= b.room
      /\ (b.type # 64 => b.room <= Limit[b.type])
  BY <1>1, AllocOf DEF Sound
<1>3. PICK t : t = ShrunkType(b)
  OBVIOUS
<1>4. t \in Type /\ (t # 64 => b.len <= Limit[t])
  <2>1. sdsReqType(b.len) \in Type /\ (sdsReqType(b.len) # 64 => b.len <= Limit[sdsReqType(b.len)])
    BY <1>2, ReqType
  <2>2. b.type # 64 => Limit[b.type] \in Nat
    BY <1>2, LimitType
  <2>3. b.type # 64 => b.len <= Limit[b.type]
    BY <1>2, <2>2
  <2> QED
    BY <1>2, <1>3, <2>1, <2>3 DEF ShrunkType
<1>5. Bytes(b, 0, b.len + 1) = b.data
  BY <1>1, TextOK
<1>6. PICK n, d, c : n = b.len /\ d = b.data /\ c = MakeBlock(t, n, n, d)
  OBVIOUS
<1>7. d \in Seq(Byte \cup {Junk}) /\ Len(d) = n + 1 /\ \A i \in 1..n : d[i] \in Byte
  BY <1>1, <1>6 DEF Sound, Block
<1>8. Sound(c) /\ c.len = n /\ c.data = d
  BY <1>2, <1>4, <1>6, <1>7, MakeSound
<1> QED
  BY <1>1, <1>3, <1>5, <1>6, <1>8 DEF Whole, BlockOK, Sound
-----------------------------------------------------------------------------
(* The heap and its owners.                                                *)

\* The block of a variable.
LEMMA BlockAt ==
  ASSUME IInv, NEW v \in Holding
  PROVE  v \in Var /\ ptr[v] \in Addr /\ Sds(v) \in Whole /\ Sound(Sds(v)) /\ Sds(v) # FREE
<1>1. v \in Var /\ ptr[v] \in Addr
  BY DEF IInv, Holding
<1>2. heap[ptr[v]] # FREE /\ heap[ptr[v]] \in Whole \cup {FREE}
  BY <1>1 DEF IInv, Owned
<1> QED
  BY <1>1, <1>2 DEF Sds, Whole, BlockOK

Outcome(op, v, res) ==
  ret' = [op |-> op, v |-> v, res |-> res] /\ op \in Op /\ v \in Var /\ res \in {"ok", "null", "crash"}

LEMMA SameStep ==
  ASSUME IInv, NEW op, NEW v, NEW res, UNCHANGED <<heap, ptr>>, Outcome(op, v, res)
  PROVE  IInv'
BY DEF IInv, Outcome, Owned, Holding

\* v's block is b now, where it was or elsewhere.
LEMMA MovedStep ==
  ASSUME IInv, NEW op, NEW v \in Holding, NEW b \in Whole, op \in Op,
         NEW a \in Unused \cup {ptr[v]}, Moved(op, v, a, b)
  PROVE  IInv'
<1>1. v \in Var /\ ptr[v] \in Addr /\ b # FREE
  BY BlockAt, BlocksAreNotFree
<1>2. a \in Addr /\ a # NULL /\ (a # ptr[v] => heap[a] = FREE)
  BY <1>1, NullAssumption DEF Unused, Live
<1>3. heap \in [Addr -> Whole \cup {FREE}] /\ ptr \in [Var -> Addr \cup {NULL}]
  BY DEF IInv
<1>4. /\ heap' = [heap EXCEPT ![ptr[v]] = FREE, ![a] = b]
      /\ ptr' = [ptr EXCEPT ![v] = a]
      /\ ret' = [op |-> op, v |-> v, res |-> "ok"]
  BY DEF Moved, Returns
<1>5. heap' \in [Addr -> Whole \cup {FREE}] /\ ptr' \in [Var -> Addr \cup {NULL}]
  BY <1>2, <1>3, <1>4
<1>6. /\ heap'[a] = b /\ \A x \in Addr : x # a => heap'[x] = IF x = ptr[v] THEN FREE ELSE heap[x]
      /\ ptr'[v] = a /\ \A w \in Var : w # v => ptr'[w] = ptr[w]
  BY <1>1, <1>2, <1>3, <1>4
<1>7. Holding' = Holding
  BY <1>1, <1>2, <1>6 DEF Holding
<1>8. \A w \in Holding : w # v => ptr[w] # ptr[v] /\ ptr[w] # a /\ heap[ptr[w]] # FREE /\ ptr[w] \in Addr
  <2> TAKE w \in Holding
  <2>1. heap[ptr[w]] # FREE /\ ptr[w] \in Addr
    BY BlockAt DEF Sds
  <2>2. w # v => ptr[w] # ptr[v]
    BY DEF IInv, Owned
  <2> QED
    BY <1>2, <2>1, <2>2
<1>9. Owned'
  <2>1. \A w \in Holding : heap'[ptr'[w]] # FREE
    BY <1>1, <1>6, <1>8 DEF Holding
  <2>2. \A w, u \in Holding : ptr'[w] = ptr'[u] => w = u
    BY <1>6, <1>8 DEF IInv, Owned, Holding
  <2>3. \A x \in Addr : heap'[x] # FREE => \E w \in Holding : ptr'[w] = x
    <3> SUFFICES ASSUME NEW x \in Addr, heap'[x] # FREE
                 PROVE  \E w \in Holding : ptr'[w] = x
      OBVIOUS
    <3>1. CASE x = a
      BY <1>6, <3>1
    <3>2. CASE x # a
      <4>1. x # ptr[v] /\ heap[x] # FREE
        BY <1>6, <3>2
      <4>2. PICK w \in Holding : ptr[w] = x
        BY <4>1 DEF IInv, Owned
      <4>3. w # v /\ w \in Var
        BY <4>1, <4>2 DEF Holding
      <4> QED
        BY <1>6, <4>2, <4>3
    <3> QED
      BY <3>1, <3>2
  <2> QED
    BY <1>7, <2>1, <2>2, <2>3 DEF Owned
<1>10. ret' \in [op : Op, v : Var \cup {NULL}, res : {"ok", "null", "crash"}]
  BY <1>1, <1>4
<1> QED
  BY <1>5, <1>9, <1>10 DEF IInv

LEMMA InPlaceStep ==
  ASSUME IInv, NEW op, NEW v \in Holding, NEW b \in Whole, op \in Op, InPlace(op, v, b)
  PROVE  IInv'
<1>1. PICK a : a = ptr[v]
  OBVIOUS
<1>2. ptr[v] \in Addr /\ v \in Var
  BY BlockAt
<1>3. heap \in [Addr -> Whole \cup {FREE}] /\ ptr \in [Var -> Addr \cup {NULL}]
  BY DEF IInv
<1>4. /\ heap' = [heap EXCEPT ![ptr[v]] = FREE, ![a] = b]
      /\ ptr' = [ptr EXCEPT ![v] = a]
  BY <1>1, <1>2, <1>3 DEF InPlace
<1>5. Moved(op, v, a, b)
  BY <1>4 DEF Moved, InPlace
<1> QED
  BY <1>1, <1>5, MovedStep

LEMMA FailsStep ==
  ASSUME IInv, NEW op \in Op, NEW v \in Var, Fails(op, v)
  PROVE  IInv'
BY SameStep DEF Fails, Returns, Outcome

LEMMA RelocatedStep ==
  ASSUME IInv, NEW op, NEW v \in Holding, NEW b \in Whole, op \in Op, Relocated(op, v, b)
  PROVE  IInv'
<1>1. PICK a \in Unused \cup (IF b.type = Sds(v).type THEN {ptr[v]} ELSE {}) : Moved(op, v, a, b)
  BY DEF Relocated
<1>2. a \in Unused \cup {ptr[v]}
  OBVIOUS
<1> QED
  BY <1>1, <1>2, MovedStep

LEMMA WithRoomStep ==
  ASSUME IInv, NEW op \in Op, NEW v \in Holding, NEW b \in Whole, NEW addlen,
         WithRoom(op, v, addlen, b)
  PROVE  IInv'
<1>1. v \in Var
  BY DEF Holding
<1> QED
  BY <1>1, InPlaceStep, RelocatedStep, FailsStep DEF WithRoom

\* A new string of some bytes.
LEMMA CreateStep ==
  ASSUME IInv, NEW op \in Op, NEW v \in Var, NEW bytes \in Seq(Byte), Create(op, v, bytes)
  PROVE  IInv'
<1>1. CASE Fails(op, v)
  BY <1>1, FailsStep
<1>2. CASE ~Fails(op, v)
  <2>1. PICK n, t : n = Len(bytes) /\ t = NewType(n)
    OBVIOUS
  <2>2. PICK b : b = MakeBlock(t, n, n, Append(bytes, NUL))
    OBVIOUS
  <2>3. PICK a \in Unused : /\ heap' = [heap EXCEPT ![a] = b]
                            /\ ptr' = [ptr EXCEPT ![v] = a]
                            /\ ret' = [op |-> op, v |-> v, res |-> "ok"] /\ ptr[v] = NULL
    BY <1>2, <2>1, <2>2 DEF Create, Returns
  <2>4. b \in Whole /\ b # FREE
    <3>1. n \in Nat /\ n <= n
      BY <2>1
    <3>2. t \in Type /\ (t # 64 => n <= Limit[t])
      <4>1. sdsReqType(n) \in Type /\ (sdsReqType(n) # 64 => n <= Limit[sdsReqType(n)])
        BY <3>1, ReqType
      <4>2. 8 \in Type /\ 0 <= Limit[8]
        <5>1. 8 \in Type
          BY DEF Type
        <5>2. Limit[8] \in Nat
          BY <5>1, LimitType
        <5> QED
          BY <5>1, <5>2
      <4> QED
        BY <2>1, <4>1, <4>2 DEF NewType
    <3> QED
      BY <2>1, <2>2, <3>1, <3>2, MakeBlockOK, BlocksAreNotFree
  <2>5. a \in Addr /\ a # NULL /\ heap[a] = FREE
    BY <2>3, NullAssumption DEF Unused, Live
  <2>6. heap \in [Addr -> Whole \cup {FREE}] /\ ptr \in [Var -> Addr \cup {NULL}]
    BY DEF IInv
  <2>7. heap' \in [Addr -> Whole \cup {FREE}] /\ ptr' \in [Var -> Addr \cup {NULL}]
    BY <2>3, <2>4, <2>5, <2>6
  <2>8. /\ heap'[a] = b /\ \A x \in Addr : x # a => heap'[x] = heap[x]
        /\ ptr'[v] = a /\ \A w \in Var : w # v => ptr'[w] = ptr[w]
    BY <2>3, <2>5, <2>6
  <2>9. Holding' = Holding \cup {v} /\ v \notin Holding
    BY <2>3, <2>5, <2>8 DEF Holding
  <2>10. \A w \in Holding : w \in Var /\ w # v /\ heap[ptr[w]] # FREE /\ ptr[w] \in Addr /\ ptr[w] # a
    BY <2>5, <2>9, BlockAt DEF Sds
  <2>11. Owned'
    <3>1. \A w \in Holding \cup {v} : heap'[ptr'[w]] # FREE
      BY <2>4, <2>8, <2>10
    <3>2. \A w, u \in Holding \cup {v} : ptr'[w] = ptr'[u] => w = u
      BY <2>8, <2>10 DEF IInv, Owned
    <3>3. \A x \in Addr : heap'[x] # FREE => \E w \in Holding \cup {v} : ptr'[w] = x
      <4> SUFFICES ASSUME NEW x \in Addr, heap'[x] # FREE
                   PROVE  \E w \in Holding \cup {v} : ptr'[w] = x
        OBVIOUS
      <4>1. CASE x = a
        BY <2>8, <4>1
      <4>2. CASE x # a
        <5>1. PICK w \in Holding : ptr[w] = x
          BY <2>8, <4>2 DEF IInv, Owned
        <5> QED
          BY <2>8, <2>10, <5>1
      <4> QED
        BY <4>1, <4>2
    <3> QED
      BY <2>9, <3>1, <3>2, <3>3 DEF Owned
  <2>12. ret' \in [op : Op, v : Var \cup {NULL}, res : {"ok", "null", "crash"}]
    BY <2>3
  <2> QED
    BY <2>7, <2>11, <2>12 DEF IInv
<1> QED
  BY <1>1, <1>2
-----------------------------------------------------------------------------
(* The texts that the calls compute.                                       *)

LEMMA CStringOK ==
  ASSUME NEW s \in Seq(Byte)
  PROVE  CString(s) \in Seq(Byte) /\ Len(CString(s)) <= Len(s)
<1>1. PICK ends : ends = {i \in 1..Len(s) : s[i] = NUL}
  OBVIOUS
<1>2. CASE ends = {}
  BY <1>1, <1>2 DEF CString
<1>3. CASE ends # {}
  <2>1. ends \subseteq Nat
    BY <1>1
  <2>2. PICK m : m = Min(ends) /\ m \in 1..Len(s)
    BY <1>1, <1>3, <2>1, Smallest
  <2>3. CString(s) = SubSeq(s, 1, m - 1)
    BY <1>1, <1>3, <2>2 DEF CString
  <2>4. m - 1 \in Int /\ m - 1 <= Len(s) /\ 1 \in Int
    BY <2>2
  <2>5. SubSeq(s, 1, m - 1) \in Seq(Byte) /\ Len(SubSeq(s, 1, m - 1)) <= Len(s)
    BY <2>2
  <2> QED
    BY <2>3, <2>5
<1> QED
  BY <1>2, <1>3

LEMMA TrimmedOK ==
  ASSUME NEW s \in Seq(Byte), NEW cset
  PROVE  Trimmed(s, cset) \in Seq(Byte) /\ Len(Trimmed(s, cset)) <= Len(s)
<1>1. PICK kept : kept = {i \in 1..Len(s) : s[i] \notin cset \cup {NUL}}
  OBVIOUS
<1>2. CASE kept = {}
  <2>1. Trimmed(s, cset) = <<>>
    BY <1>1, <1>2 DEF Trimmed
  <2> QED
    BY <2>1
<1>3. CASE kept # {}
  <2>1. kept \subseteq Nat /\ kept \subseteq 0..Len(s) /\ Len(s) \in Nat
    BY <1>1
  <2>2. PICK m, k : m = Min(kept) /\ k = Max(kept) /\ m \in 1..Len(s) /\ k \in 1..Len(s)
    <3>1. Min(kept) \in kept
      BY <1>3, <2>1, Smallest
    <3>2. Max(kept) \in kept
      BY <1>3, <2>1, Largest
    <3> QED
      BY <1>1, <3>1, <3>2
  <2>3. Trimmed(s, cset) = SubSeq(s, m, k)
    BY <1>1, <1>3, <2>2 DEF Trimmed
  <2>4. SubSeq(s, m, k) \in Seq(Byte) /\ Len(SubSeq(s, m, k)) <= Len(s)
    BY <2>2
  <2> QED
    BY <2>3, <2>4
<1> QED
  BY <1>2, <1>3

LEMMA RangedOK ==
  ASSUME NEW s \in Seq(Byte), NEW start \in Int, NEW end \in Int
  PROVE  Ranged(s, start, end) \in Seq(Byte) /\ Len(Ranged(s, start, end)) <= Len(s)
<1>1. PICK len, from, to : len = Len(s) /\ from = FromEnd(start, len) /\ to = FromEnd(end, len)
  OBVIOUS
<1>2. len \in Nat /\ from \in Nat /\ to \in Nat
  BY <1>1 DEF FromEnd
<1>3. CASE from > to \/ from >= len
  <2>1. Ranged(s, start, end) = <<>>
    BY <1>1, <1>3 DEF Ranged
  <2> QED
    BY <2>1
<1>4. CASE ~(from > to \/ from >= len)
  <2>1. PICK n : n = IF to >= len THEN len ELSE to + 1
    OBVIOUS
  <2>2. Ranged(s, start, end) = SubSeq(s, from + 1, n)
    BY <1>1, <1>4, <2>1 DEF Ranged
  <2>3. n \in 1..len /\ from + 1 \in 1..len
    BY <1>2, <1>4, <2>1
  <2>4. SubSeq(s, from + 1, n) \in Seq(Byte) /\ Len(SubSeq(s, from + 1, n)) <= Len(s)
    BY <1>1, <2>3
  <2> QED
    BY <2>2, <2>4
<1> QED
  BY <1>3, <1>4

LEMMA MappedOK ==
  ASSUME NEW m \in Maps, NEW c \in Byte
  PROVE  Mapped(c, m.from, m.to) \in Byte
<1>1. PICK from, to, hits : from = m.from /\ to = m.to /\ hits = {i \in 1..Len(from) : from[i] = c}
  OBVIOUS
<1>2. from \in Seq(Byte) /\ to \in Seq(Byte) /\ Len(from) = Len(to)
  BY <1>1, ArgsAssumption
<1>3. CASE hits = {}
  BY <1>1, <1>3 DEF Mapped
<1>4. CASE hits # {}
  <2>1. hits \subseteq Nat
    BY <1>1, <1>2
  <2>2. Min(hits) \in 1..Len(to)
    BY <1>1, <1>2, <1>4, <2>1, Smallest
  <2>3. to[Min(hits)] \in Byte
    BY <1>2, <2>2
  <2> QED
    BY <1>1, <1>4, <2>3 DEF Mapped
<1> QED
  BY <1>3, <1>4

\* Dividing makes a number smaller.
LEMMA Quotient ==
  ASSUME NEW n \in Nat, NEW b \in Nat, b >= 2, b <= n
  PROVE  n \div b \in 0..(n - 1) /\ n % b \in 0..(b - 1)
<1>1. PICK q, m : q = n \div b /\ m = n % b
  OBVIOUS
<1>2. q \in Int /\ m \in 0..(b - 1) /\ n = b * q + m
  BY <1>1
<1>3. q >= 0
  <2> SUFFICES ASSUME q < 0 PROVE FALSE
    BY <1>2
  <2>1. b * q <= -b
    BY <1>2
  <2> QED
    BY <1>2, <2>1
<1>4. b * q >= 2 * q
  BY <1>2, <1>3
<1> QED
  BY <1>1, <1>2, <1>3, <1>4
\* sdsull2str makes a text of any number.
LEMMA NumeralOK ==
  ASSUME NEW v \in Nat
  PROVE  sdsull2str(v) \in Seq(Byte)
<1>1. PICK V, x, prev, step :
        /\ V = Seq(Byte) /\ x = <<Digit[0]>>
        /\ prev = [n \in 1..v |-> IF n < Base THEN 0 ELSE n \div Base]
        /\ step = [n \in 1..v |->
                     [t \in V |-> (IF n < Base THEN <<>> ELSE t) \o <<Digit[n % Base]>>]]
  OBVIOUS
<1>2. Base \in Nat /\ Base >= 2 /\ \A d \in 0..(Base - 1) : Digit[d] \in Byte
  BY DigitsAssumption
<1>3. \A n \in 0..v : n % Base \in 0..(Base - 1)
  BY <1>2
<1>4. x \in V /\ 0 % Base = 0
  BY <1>1, <1>2
<1>5. \A n \in 1..v : prev[n] \in 0..(n - 1)
  <2> TAKE n \in 1..v
  <2>1. ~(n < Base) => n \div Base \in 0..(n - 1)
    <3> SUFFICES ASSUME ~(n < Base) PROVE n \div Base \in 0..(n - 1)
      OBVIOUS
    <3>1. n \in Nat /\ Base \in Nat /\ Base >= 2 /\ Base <= n
      BY <1>2
    <3> QED
      BY <3>1, Quotient
  <2> QED
    BY <1>1, <1>2, <2>1
<1>6. \A n \in 0..v, t \in V : (IF n < Base THEN <<>> ELSE t) \o <<Digit[n % Base]>> \in V
  <2> TAKE n \in 0..v, t \in V
  <2>1. Digit[n % Base] \in Byte
    BY <1>2, <1>3
  <2>2. (IF n < Base THEN <<>> ELSE t) \in Seq(Byte)
    BY <1>1
  <2> QED
    BY <1>1, <2>1, <2>2
<1>7. step \in [1..v -> [V -> V]]
  <2>1. \A n \in 1..v : n \in 0..v
    OBVIOUS
  <2> QED
    BY <1>1, <1>6, <2>1
<1>8. PICK f : LooksBack(f, v, V, x, prev, step)
  BY <1>4, <1>5, <1>7, BackRecursion
<1> DEFINE body(h) == [n \in 0..v |->
                         (IF n < Base THEN <<>> ELSE h[n \div Base]) \o <<Digit[n % Base]>>]
           g == CHOOSE h : h = body(h)
           S == {n \in 0..v : \A m \in 0..n : g[m] \in V}
<1>9. f = body(f)
  <2>1. f \in [0..v -> V] /\ f[0] = x /\ \A n \in 1..v : f[n] = step[n][f[prev[n]]]
    BY <1>8 DEF LooksBack
  <2>2. \A n \in 1..v : f[n] = (IF n < Base THEN <<>> ELSE f[n \div Base]) \o <<Digit[n % Base]>>
    <3> TAKE n \in 1..v
    <3>1. prev[n] \in 0..v /\ f[prev[n]] \in V
      BY <1>5, <2>1
    <3>2. step[n][f[prev[n]]] = (IF n < Base THEN <<>> ELSE f[prev[n]]) \o <<Digit[n % Base]>>
      BY <1>1, <3>1
    <3>3. ~(n < Base) => prev[n] = n \div Base
      BY <1>1
    <3> QED
      BY <2>1, <3>2, <3>3
  <2>3. f[0] = (IF 0 < Base THEN <<>> ELSE f[0 \div Base]) \o <<Digit[0 % Base]>>
    BY <1>1, <1>2, <1>4, <2>1
  <2>4. \A n \in 0..v : n = 0 \/ n \in 1..v
    OBVIOUS
  <2>5. \A n \in 0..v : f[n] = (IF n < Base THEN <<>> ELSE f[n \div Base]) \o <<Digit[n % Base]>>
    BY <2>2, <2>3, <2>4
  <2> QED
    BY <2>1, <2>5
<1>10. g = body(g)
  BY <1>9, Zenon
<1>11. sdsull2str(v) = g[v]
  BY Zenon DEF sdsull2str
<1> HIDE DEF g
<1>12. \A n \in 0..v : g[n] = (IF n < Base THEN <<>> ELSE g[n \div Base]) \o <<Digit[n % Base]>>
  BY <1>10
<1>13. \A n \in 0..v : (~(n < Base) => g[n \div Base] \in V) => g[n] \in V
  <2> SUFFICES ASSUME NEW n \in 0..v, ~(n < Base) => g[n \div Base] \in V
               PROVE  g[n] \in V
    OBVIOUS
  <2>1. PICK t : t \in V /\ (~(n < Base) => t = g[n \div Base])
    BY <1>4
  <2>2. g[n] = (IF n < Base THEN <<>> ELSE t) \o <<Digit[n % Base]>>
    BY <1>12, <2>1
  <2> QED
    BY <1>6, <2>1, <2>2
<1>14. InductiveTo(v, S)
  <2>1. 0 \in S
    <3>1. g[0] \in V
      BY <1>2, <1>13
    <3> QED
      BY <3>1
  <2>2. \A n \in 1..v : n - 1 \in S => n \in S
    <3> SUFFICES ASSUME NEW n \in 1..v, \A m \in 0..(n - 1) : g[m] \in V
                 PROVE  g[n] \in V
      <4>1. \A n \in 1..v : n \in 0..v /\ \A m \in 0..n : m = n \/ m \in 0..(n - 1)
        OBVIOUS
      <4> QED
        BY <4>1
    <3>1. ~(n < Base) => n \div Base \in 0..(n - 1)
      <4> SUFFICES ASSUME ~(n < Base) PROVE n \div Base \in 0..(n - 1)
        OBVIOUS
      <4>1. n \in Nat /\ Base \in Nat /\ Base >= 2 /\ Base <= n
        BY <1>2
      <4> QED
        BY <4>1, Quotient
    <3> QED
      BY <1>13, <3>1
  <2> QED
    BY <2>1, <2>2 DEF InductiveTo
<1>15. v \in S
  BY <1>14, UpToInduction
<1>16. g[v] \in V
  BY <1>15
<1> QED
  BY <1>1, <1>11, <1>16

LEMMA NumberOK ==
  ASSUME NEW value \in Numbers
  PROVE  sdsll2str(value) \in Seq(Byte)
<1>1. value \in Int /\ ULLONG_MAX \in Nat /\ Minus \in Byte
  <2>1. ULLONG_MAX \in Nat /\ ULLONG_MAX + 1 \in Nat
    BY DigitsAssumption
  <2>2. (ULLONG_MAX + 1) \div 2 \in Int /\ ULLONG_MAX \div 2 \in Int
    BY <2>1
  <2> QED
    BY <2>2, DigitsAssumption
<1>2. PICK n : n = Magnitude(value) /\ n \in Nat
  BY <1>1 DEF Magnitude
<1>3. PICK s : s = sdsull2str(n) /\ s \in Seq(Byte)
  BY <1>2, NumeralOK
<1>4. (IF value < 0 THEN <<Minus>> ELSE <<>>) \in Seq(Byte)
  BY <1>1
<1> QED
  BY <1>2, <1>3, <1>4 DEF sdsll2str
-----------------------------------------------------------------------------
(* sdscatfmt's loop.                                                       *)

Piece == [fmt : {1, 2}, arg : BOOLEAN, text : Seq(Byte)]

\* A block between two turns of the loop.
Filling == {b \in Block : Sound(b)}

LEMMA PutOK ==
  ASSUME NEW b \in Filling, NEW piece \in Piece, piece.arg \/ Len(piece.text) = 1
  PROVE  Put(b, piece) \in Filling
<1>1. PICK wide, w, text, more :
        /\ wide = Widened(b, 1) /\ w = Widened(wide, more) /\ text = piece.text
        /\ more = IF piece.arg THEN Len(piece.text) ELSE 0
  OBVIOUS
<1>2. Sound(b) /\ b.len \in Nat
  BY DEF Filling, Block
<1>3. text \in Seq(Byte) /\ Len(text) \in Nat /\ more \in Nat
  <2>1. piece.text \in Seq(Byte)
    BY DEF Piece
  <2> QED
    BY <1>1, <2>1
<1>4. Sound(wide) /\ wide.len = b.len /\ b.len + 1 <= sdsalloc(wide)
  BY <1>1, <1>2, WidenedOK
<1>5. Sound(w) /\ w.len = b.len /\ wide.len + more <= sdsalloc(w)
  BY <1>1, <1>3, <1>4, WidenedOK
<1>6. more = 0 => w = wide
  BY <1>1, <1>4, AllocOf DEF Widened
<1>7. PICK n : n = b.len + Len(text) /\ n \in Nat /\ n <= sdsalloc(w)
  <2>1. CASE piece.arg
    <3>1. more = Len(text)
      BY <1>1, <2>1
    <3> QED
      BY <1>2, <1>3, <1>4, <1>5, <3>1
  <2>2. CASE ~piece.arg
    <3>1. more = 0 /\ Len(text) = 1
      BY <1>1, <2>2
    <3> QED
      BY <1>2, <1>4, <1>6, <3>1
  <2> QED
    BY <2>1, <2>2
<1>8. /\ w \in Block /\ w.type \in Type /\ w.room \in Nat /\ n <= w.room
      /\ (w.type # 64 => n <= Limit[w.type])
  <2>1. w \in Block /\ w.type \in Type /\ w.room \in Nat /\ sdsalloc(w) <= w.room /\ sdsalloc(w) \in Nat
    BY <1>5, AllocOf
  <2>2. w.type # 64 => w.room <= Limit[w.type] /\ Limit[w.type] \in Nat
    BY <1>5, <2>1, LimitType DEF Sound
  <2> QED
    BY <1>7, <2>1, <2>2
<1>9. PICK data : data = Text(w) \o text \o <<Junk>>
  OBVIOUS
<1>10. /\ data \in Seq(Byte \cup {Junk}) /\ Len(data) = n + 1
       /\ \A i \in 1..n : data[i] \in Byte
  <2>1. PICK t : t = Text(w) /\ t \in Seq(Byte) /\ Len(t) = b.len
    BY <1>5, TextOK
  <2>2. PICK u : u = t \o text /\ u \in Seq(Byte) /\ Len(u) = n
    <3>1. t \o text \in Seq(Byte) /\ Len(t \o text) = Len(t) + Len(text)
      BY <1>3, <2>1, ConcatProperties
    <3> QED
      BY <1>7, <2>1, <3>1
  <2>3. data = Append(u, Junk)
    BY <1>9, <2>1, <2>2
  <2> QED
    BY <1>7, <2>2, <2>3
<1>11. Put(b, piece) = [w EXCEPT !.len = n, !.data = data]
  <2>1. w.len + Len(piece.text) = n
    BY <1>1, <1>5, <1>7
  <2>2. Stored(w.type, n) = n
    BY <1>7, <1>8, StoredSame
  <2> QED
    BY <1>1, <1>9, <2>1, <2>2 DEF Put
<1>12. PICK c : c = Put(b, piece)
  OBVIOUS
<1>13. /\ c \in Block /\ c.type = w.type /\ c.alloc = w.alloc /\ c.room = w.room
       /\ c.len = n /\ c.data = data
  BY <1>7, <1>8, <1>10, <1>11, <1>12 DEF Block
<1>14. Sound(c)
  BY <1>5, <1>8, <1>10, <1>13 DEF Sound
<1> QED
  BY <1>12, <1>13, <1>14 DEF Filling

\* Add null-term.
LEMMA TermOK ==
  ASSUME NEW b \in Filling
  PROVE  [b EXCEPT !.data[Len(b.data)] = NUL] \in Whole
<1>1. PICK c, n, data : /\ c = [b EXCEPT !.data[Len(b.data)] = NUL] /\ n = b.len
                        /\ data = [b.data EXCEPT ![n + 1] = NUL]
  OBVIOUS
<1>2. /\ b \in Block /\ n \in Nat /\ b.data \in Seq(Byte \cup {Junk}) /\ Len(b.data) = n + 1
      /\ \A i \in 1..n : b.data[i] \in Byte
  BY <1>1 DEF Filling, Sound, Block
<1>3. /\ data \in Seq(Byte \cup {Junk}) /\ Len(data) = n + 1 /\ data[n + 1] = NUL
      /\ \A i \in 1..n : data[i] \in Byte
  BY <1>1, <1>2, BytesAssumption
<1>4. c = [b EXCEPT !.data = data]
  BY <1>1, <1>2
<1>5. c \in Block /\ c.type = b.type /\ c.alloc = b.alloc /\ c.room = b.room /\ c.len = n /\ c.data = data
  BY <1>1, <1>2, <1>3, <1>4 DEF Block
<1>6. Sound(c)
  BY <1>1, <1>3, <1>5 DEF Sound, Filling
<1> QED
  BY <1>1, <1>3, <1>5, <1>6 DEF Whole, BlockOK
LEMMA sdscatfmtStep ==
  ASSUME IInv, NEW v \in Var, NEW format \in Formats, sdscatfmt(v, format)
  PROVE  IInv'
<1> DEFINE b == Sds(v)
           fmtlen == Len(format) + Cardinality({i \in DOMAIN format : format[i].fmt = 2})
           first == Widened(b, b.len + FMT_FACTOR * fmtlen)
           body(h) == [n \in 0..Len(format) |-> IF n = 0 THEN first ELSE Put(h[n - 1], format[n])]
           after == CHOOSE h : h = body(h)
           full == after[Len(format)]
           done == [full EXCEPT !.data[Len(full.data)] = NUL]
<1>1. /\ v \in Holding
      /\ \/ InPlace("catfmt", v, done)
         \/ Relocated("catfmt", v, done)
         \/ UNCHANGED <<heap, ptr>> /\ Returns("catfmt", v, "crash")
  BY Zenon DEF sdscatfmt
<1>2. b \in Whole /\ Sound(b) /\ b.len \in Nat
  BY <1>1, BlockAt DEF Sound, Block
<1>3. PICK m : m = Len(format)
  OBVIOUS
<1>4. /\ m \in Nat /\ \A i \in 1..m : format[i] \in Piece /\ (format[i].arg \/ Len(format[i].text) = 1)
      /\ DOMAIN format = 1..m
  <2>1. format \in Seq(Piece) /\ \A i \in DOMAIN format : format[i].arg \/ Len(format[i].text) = 1
    BY PiecesAssumption DEF Piece
  <2> QED
    BY <1>3, <2>1
<1>5. PICK x : x = first /\ x \in Filling
  <2>1. fmtlen \in Nat
    <3>1. IsFiniteSet(DOMAIN format)
      BY <1>4, FS_Interval
    <3>2. PICK S : S = {i \in DOMAIN format : format[i].fmt = 2}
      OBVIOUS
    <3>3. IsFiniteSet(S)
      BY <3>1, <3>2, FS_Subset
    <3>4. Cardinality(S) \in Nat
      BY <3>3, FS_CardinalityType
    <3>5. fmtlen = m + Cardinality(S)
      BY <1>3, <3>2, Zenon
    <3> HIDE DEF fmtlen
    <3> QED
      BY <1>4, <3>4, <3>5
  <2>2. b.len + FMT_FACTOR * fmtlen \in Nat
    <3>1. FMT_FACTOR \in Nat /\ \A i, j \in Nat : i * j \in Nat
      BY SizesAssumption
    <3> HIDE DEF fmtlen, b
    <3>2. FMT_FACTOR * fmtlen \in Nat
      BY <2>1, <3>1
    <3> QED
      BY <1>2, <3>2
  <2> HIDE DEF fmtlen, b
  <2>3. first \in Whole
    BY <1>2, <2>2, WidenedWhole
  <2> QED
    BY <2>3 DEF Whole, BlockOK, Filling
<1>6. PICK step : step = [n \in 1..m |-> [c \in Filling |-> Put(c, format[n])]]
  OBVIOUS
<1>7. step \in [1..m -> [Filling -> Filling]]
  <2>1. \A n \in 1..m, c \in Filling : Put(c, format[n]) \in Filling
    BY <1>4, PutOK
  <2> QED
    BY <1>6, <2>1
<1>8. PICK f : Recurs(f, m, Filling, x, step)
  BY <1>4, <1>5, <1>7, Recursion
<1>9. /\ f \in [0..m -> Filling] /\ f[0] = x
      /\ \A n \in 1..m : n - 1 \in 0..m /\ f[n] = Put(f[n - 1], format[n])
  <2>1. f \in [0..m -> Filling] /\ f[0] = x /\ \A n \in 1..m : f[n] = step[n][f[n - 1]]
    BY <1>8 DEF Recurs
  <2>2. \A n \in 1..m : n - 1 \in 0..m /\ f[n - 1] \in Filling
    BY <1>4, <2>1
  <2>3. \A n \in 1..m, c \in Filling : step[n][c] = Put(c, format[n])
    BY <1>6
  <2> QED
    BY <2>1, <2>2, <2>3
<1> HIDE DEF first
<1>10. f = body(f)
  <2>1. \A n \in 0..m : n = 0 \/ n \in 1..m
    BY <1>4
  <2> QED
    BY <1>3, <1>5, <1>9, <2>1
<1>11. after = body(after)
  BY <1>10, Zenon
<1> HIDE DEF after
<1>12. after[0] = x /\ \A n \in 1..m : after[n] = Put(after[n - 1], format[n])
  <2>1. \A n \in 0..m : after[n] = IF n = 0 THEN first ELSE Put(after[n - 1], format[n])
    BY <1>3, <1>11
  <2>2. 0 \in 0..m /\ \A n \in 1..m : n \in 0..m /\ n # 0
    BY <1>4
  <2> QED
    BY <1>5, <2>1, <2>2
<1>13. \A n \in 0..m : after[n] \in Filling
  <2> DEFINE S == {n \in 0..m : after[n] \in Filling}
  <2>1. 0 \in S
    BY <1>4, <1>5, <1>12
  <2>2. \A n \in 1..m : n - 1 \in S => n \in S
    <3> SUFFICES ASSUME NEW n \in 1..m, after[n - 1] \in Filling
                 PROVE  after[n] \in Filling
      OBVIOUS
    <3>1. Put(after[n - 1], format[n]) \in Filling
      BY <1>4, PutOK
    <3> QED
      BY <1>12, <3>1
  <2> HIDE DEF S
  <2>3. 0..m \subseteq S
    BY <1>4, <2>1, <2>2, UpToInduction DEF InductiveTo
  <2> QED
    BY <2>3 DEF S
<1>14. full \in Filling
  BY <1>3, <1>4, <1>13
<1> HIDE DEF full
<1>15. done \in Whole
  BY <1>14, TermOK
<1> HIDE DEF done
<1>16. "catfmt" \in Op
  BY DEF Op
<1>17. CASE InPlace("catfmt", v, done)
  BY <1>1, <1>15, <1>16, <1>17, InPlaceStep
<1>18. CASE Relocated("catfmt", v, done)
  BY <1>1, <1>15, <1>16, <1>18, RelocatedStep
<1>19. CASE UNCHANGED <<heap, ptr>> /\ Returns("catfmt", v, "crash")
  BY <1>16, <1>19, SameStep DEF Outcome, Returns
<1> QED
  BY <1>1, <1>17, <1>18, <1>19

-----------------------------------------------------------------------------
(* The steps.                                                              *)

\* A text added to a string.
LEMMA CatStep ==
  ASSUME IInv, NEW op \in Op, NEW v \in Var, NEW src \in Seq(Byte), Cat(op, v, src)
  PROVE  IInv'
<1>1. PICK b : b = Widened(Sds(v), Len(src))
  OBVIOUS
<1>2. v \in Holding /\ WithRoom(op, v, Len(src), Holds(b, Text(b) \o src))
  BY <1>1 DEF Cat
<1>3. Sound(Sds(v)) /\ Len(src) \in Nat
  BY <1>2, BlockAt
<1>4. Sound(b) /\ b.len = Sds(v).len /\ Sds(v).len + Len(src) <= sdsalloc(b)
  BY <1>1, <1>3, WidenedOK
<1>5. PICK t : t = Text(b) /\ t \in Seq(Byte) /\ Len(t) = b.len
  BY <1>4, TextOK
<1>6. t \o src \in Seq(Byte) /\ Len(t \o src) = b.len + Len(src)
  BY <1>5, ConcatProperties
<1>7. Holds(b, t \o src) \in Whole
  BY <1>4, <1>6, HoldsOK
<1> QED
  BY <1>2, <1>5, <1>7, WithRoomStep

\* A text that is no longer takes the string's place.
LEMMA ShorterStep ==
  ASSUME IInv, NEW op \in Op, NEW v \in Holding, NEW text \in Seq(Byte),
         Len(text) <= Sds(v).len, InPlace(op, v, Holds(Sds(v), text))
  PROVE  IInv'
<1>1. PICK b : b = Sds(v) /\ Sound(b)
  BY BlockAt
<1>2. /\ b.len \in Nat /\ sdsalloc(b) \in Nat /\ b.len <= sdsalloc(b) /\ Len(text) \in Nat
  BY <1>1, AllocOf
<1>3. Holds(b, text) \in Whole
  BY <1>1, <1>2, HoldsOK
<1> QED
  BY <1>1, <1>3, InPlaceStep

\* The string of a variable.
LEMMA TextAt ==
  ASSUME IInv, NEW v \in Holding
  PROVE  /\ Text(Sds(v)) \in Seq(Byte) /\ Len(Text(Sds(v))) = Sds(v).len /\ Sds(v).len \in Nat
         /\ \A i \in 1..Sds(v).len : Sds(v).data[i] \in Byte
<1>1. Sound(Sds(v))
  BY BlockAt
<1> QED
  BY <1>1, TextOK DEF Sound, Block

LEMMA sdsnewStep ==
  ASSUME IInv, NEW v \in Var,
         \/ \E src \in Texts : sdsnewlen(v, src) \/ sdsnew(v, src)
         \/ \E n \in Sizes : sdsnewlen_zero(v, n) \/ sdsnewlen_noinit(v, n)
         \/ sdsempty(v)
         \/ \E w \in Var : sdsdup(v, w)
         \/ \E value \in Numbers : sdsfromlonglong(v, value)
  PROVE  IInv'
<1>1. {"newlen", "new", "newlen_zero", "noinit", "empty", "dup", "number"} \subseteq Op
  BY DEF Op
<1>2. Texts \subseteq Seq(Byte) /\ Sizes \subseteq Nat /\ NUL \in Byte
  BY SdsTextsAssumption, ArgsAssumption, BytesAssumption
<1>3. ASSUME NEW src \in Texts, sdsnewlen(v, src) PROVE IInv'
  BY <1>1, <1>2, <1>3, CreateStep DEF sdsnewlen
<1>4. ASSUME NEW src \in Texts, sdsnew(v, src) PROVE IInv'
  <2>1. CString(src) \in Seq(Byte)
    BY <1>2, CStringOK
  <2> QED
    BY <1>1, <1>4, <2>1, CreateStep DEF sdsnew
<1>5. ASSUME NEW n \in Sizes, sdsnewlen_zero(v, n) PROVE IInv'
  <2>1. [i \in 1..n |-> NUL] \in Seq(Byte)
    BY <1>2
  <2> QED
    BY <1>1, <1>5, <2>1, CreateStep DEF sdsnewlen_zero
<1>6. ASSUME NEW n \in Sizes, sdsnewlen_noinit(v, n) PROVE IInv'
  <2>1. PICK any \in [1..n -> Byte] : Create("noinit", v, any)
    BY <1>6 DEF sdsnewlen_noinit
  <2>2. any \in Seq(Byte)
    BY <1>2
  <2> QED
    BY <1>1, <2>1, <2>2, CreateStep
<1>7. ASSUME sdsempty(v) PROVE IInv'
  <2>1. <<>> \in Seq(Byte)
    OBVIOUS
  <2> QED
    BY <1>1, <1>7, <2>1, CreateStep DEF sdsempty
<1>8. ASSUME NEW w \in Var, sdsdup(v, w) PROVE IInv'
  <2>1. Text(Sds(w)) \in Seq(Byte)
    BY <1>8, TextAt DEF sdsdup
  <2> QED
    BY <1>1, <1>8, <2>1, CreateStep DEF sdsdup
<1>9. ASSUME NEW value \in Numbers, sdsfromlonglong(v, value) PROVE IInv'
  BY <1>1, <1>9, NumberOK, CreateStep DEF sdsfromlonglong
<1> QED
  BY <1>3, <1>4, <1>5, <1>6, <1>7, <1>8, <1>9

LEMMA sdscatStep ==
  ASSUME IInv, NEW v \in Var,
         \/ \E src \in Texts : sdscatlen(v, src) \/ sdscat(v, src)
         \/ \E src \in Texts : \E fmtlen \in {1, STATIC_BUF} : sdscatvprintf(v, fmtlen, src)
         \/ \E w \in Var : sdscatsds(v, w)
  PROVE  IInv'
<1>1. {"catlen", "cat", "catsds", "catprintf"} \subseteq Op
  BY DEF Op
<1>2. ASSUME NEW src \in Texts PROVE src \in Seq(Byte) /\ CString(src) \in Seq(Byte)
  BY SdsTextsAssumption, CStringOK
<1>3. ASSUME NEW src \in Texts, sdscatlen(v, src) PROVE IInv'
  BY <1>1, <1>2, <1>3, CatStep DEF sdscatlen
<1>4. ASSUME NEW src \in Texts, sdscat(v, src) PROVE IInv'
  BY <1>1, <1>2, <1>4, CatStep DEF sdscat
<1>5. ASSUME NEW src \in Texts, NEW fmtlen \in {1, STATIC_BUF}, sdscatvprintf(v, fmtlen, src)
      PROVE  IInv'
  <2>1. Fails("catprintf", v) \/ Cat("catprintf", v, CString(src))
    BY <1>5 DEF sdscatvprintf
  <2> QED
    BY <1>1, <1>2, <2>1, CatStep, FailsStep
<1>6. ASSUME NEW w \in Var, sdscatsds(v, w) PROVE IInv'
  <2>1. Text(Sds(w)) \in Seq(Byte)
    BY <1>6, TextAt DEF sdscatsds
  <2> QED
    BY <1>1, <1>6, <2>1, CatStep DEF sdscatsds
<1> QED
  BY <1>3, <1>4, <1>5, <1>6

LEMMA sdsfreeStep == ASSUME IInv, NEW v \in Var, sdsfree(v) PROVE IInv'
<1>1. v \in Holding /\ ptr[v] \in Addr
  BY BlockAt DEF sdsfree
<1>2. heap \in [Addr -> Whole \cup {FREE}] /\ ptr \in [Var -> Addr \cup {NULL}]
  BY DEF IInv
<1>3. /\ heap' = [heap EXCEPT ![ptr[v]] = FREE] /\ ptr' = [ptr EXCEPT ![v] = NULL]
      /\ ret' = [op |-> "free", v |-> v, res |-> "ok"]
  BY DEF sdsfree, Returns
<1>4. heap' \in [Addr -> Whole \cup {FREE}] /\ ptr' \in [Var -> Addr \cup {NULL}]
  BY <1>2, <1>3
<1>5. /\ \A x \in Addr : heap'[x] = IF x = ptr[v] THEN FREE ELSE heap[x]
      /\ \A w \in Var : ptr'[w] = IF w = v THEN NULL ELSE ptr[w]
  BY <1>1, <1>2, <1>3
<1>6. Holding' = Holding \ {v}
  BY <1>5 DEF Holding
<1>7. Owned'
  <2>1. \A w \in Holding \ {v} : w \in Var /\ ptr[w] \in Addr /\ heap[ptr[w]] # FREE /\ ptr[w] # ptr[v]
    BY <1>1, BlockAt DEF IInv, Owned, Sds
  <2>2. \A x \in Addr : heap'[x] # FREE => \E w \in Holding \ {v} : ptr'[w] = x
    <3> SUFFICES ASSUME NEW x \in Addr, heap'[x] # FREE
                 PROVE  \E w \in Holding \ {v} : ptr'[w] = x
      OBVIOUS
    <3>1. x # ptr[v] /\ heap[x] # FREE
      BY <1>5
    <3>2. PICK w \in Holding : ptr[w] = x
      BY <3>1 DEF IInv, Owned
    <3> QED
      BY <1>5, <2>1, <3>1, <3>2
  <2>3. \A w \in Holding \ {v} : ptr'[w] = ptr[w] /\ heap'[ptr'[w]] # FREE
    BY <1>5, <2>1
  <2>4. \A w, u \in Holding \ {v} : ptr'[w] = ptr'[u] => w = u
    BY <2>3 DEF IInv, Owned
  <2> QED
    BY <1>6, <2>2, <2>3, <2>4 DEF Owned
<1>8. ret' \in [op : Op, v : Var \cup {NULL}, res : {"ok", "null", "crash"}]
  BY <1>3 DEF Op
<1> QED
  BY <1>4, <1>7, <1>8 DEF IInv

\* sdsMakeRoomFor, sdsRemoveFreeSpace, sdsgrowzero and sdscpylen.
LEMMA RoomStep ==
  ASSUME IInv, NEW v \in Var,
         \/ \E n \in Sizes : sdsMakeRoomFor(v, n) \/ sdsgrowzero(v, n)
         \/ sdsRemoveFreeSpace(v)
         \/ \E src \in Texts : sdscpylen(v, src) \/ sdscpy(v, src)
  PROVE  IInv'
<1>1. {"make_room", "growzero", "remove_free", "cpylen"} \subseteq Op
  BY DEF Op
<1>2. v \in Holding
  BY DEF sdsMakeRoomFor, sdsgrowzero, sdsRemoveFreeSpace, sdscpylen, sdscpy
<1>3. PICK b : b = Sds(v)
  OBVIOUS
<1>4. b \in Whole /\ Sound(b) /\ b.len \in Nat /\ sdsalloc(b) \in Nat /\ b.len <= sdsalloc(b)
  BY <1>2, <1>3, BlockAt, AllocOf
<1>5. ASSUME NEW n \in Sizes, sdsMakeRoomFor(v, n) PROVE IInv'
  <2>1. Widened(b, n) \in Whole
    BY <1>4, WidenedWhole, ArgsAssumption
  <2> QED
    BY <1>1, <1>2, <1>3, <1>5, <2>1, WithRoomStep DEF sdsMakeRoomFor
<1>6. ASSUME NEW n \in Sizes, sdsgrowzero(v, n) PROVE IInv'
  <2>1. n \in Nat /\ NUL \in Byte
    BY ArgsAssumption, BytesAssumption
  <2>2. CASE n - b.len <= 0
    <3>1. InPlace("growzero", v, b)
      BY <1>3, <1>4, <1>6, <2>1, <2>2 DEF sdsgrowzero
    <3> QED
      BY <1>1, <1>2, <1>4, <3>1, InPlaceStep
  <2>3. CASE ~(n - b.len <= 0)
    <3>1. PICK more, wide, zeros : /\ more = n - b.len /\ wide = Widened(b, more)
                                   /\ zeros = [i \in 1..more |-> NUL]
      OBVIOUS
    <3>2. more \in Nat /\ zeros \in Seq(Byte) /\ Len(zeros) = more
      BY <1>4, <2>1, <2>3, <3>1
    <3>3. Sound(wide) /\ wide.len = b.len /\ b.len + more <= sdsalloc(wide)
      <4>1. Sound(b) /\ more \in Nat /\ wide = Widened(b, more)
        BY <1>4, <3>1, <3>2
      <4> QED
        BY <4>1, WidenedOK
    <3>4. PICK t : t = Text(wide) /\ t \in Seq(Byte) /\ Len(t) = b.len
      BY <3>3, TextOK
    <3>5. t \o zeros \in Seq(Byte) /\ Len(t \o zeros) = b.len + more
      BY <3>2, <3>4
    <3>6. Holds(wide, t \o zeros) \in Whole
      BY <3>3, <3>5, HoldsOK
    <3>7. WithRoom("growzero", v, more, Holds(wide, t \o zeros))
      BY <1>3, <1>4, <1>6, <2>1, <2>3, <3>1, <3>4 DEF sdsgrowzero
    <3> QED
      BY <1>1, <1>2, <3>6, <3>7, WithRoomStep
  <2> QED
    BY <2>2, <2>3
<1>7. ASSUME sdsRemoveFreeSpace(v) PROVE IInv'
  <2>1. PICK c : c = MakeBlock(ShrunkType(b), b.len, b.len, Bytes(b, 0, b.len + 1)) /\ c \in Whole
    BY <1>4, ShrunkOK
  <2>2. \/ InPlace("remove_free", v, b) \/ Relocated("remove_free", v, c)
        \/ Fails("remove_free", v)
    BY <1>3, <1>7, <2>1 DEF sdsRemoveFreeSpace
  <2> QED
    BY <1>1, <1>2, <1>4, <2>1, <2>2, InPlaceStep, RelocatedStep, FailsStep
<1>8. ASSUME NEW t \in Seq(Byte), sdscpylen(v, t) PROVE IInv'
  <2>1. PICK addlen, w : /\ addlen = IF sdsalloc(b) < Len(t) THEN Len(t) - b.len ELSE 0
                         /\ w = Widened(b, addlen)
    OBVIOUS
  <2>2. addlen \in Nat /\ Len(t) \in Nat
    BY <1>4, <2>1
  <2>3. Sound(w) /\ w.len = b.len /\ b.len + addlen <= sdsalloc(w)
    <3>1. Sound(b) /\ w = Widened(b, addlen)
      BY <1>4, <2>1
    <3> QED
      BY <2>2, <3>1, WidenedOK
  <2>4. Len(t) <= sdsalloc(w)
    <3>1. CASE sdsalloc(b) < Len(t)
      BY <1>4, <2>1, <2>2, <2>3, <3>1, AllocOf
    <3>2. CASE ~(sdsalloc(b) < Len(t))
      <4>1. sdsavail(b) >= 0 /\ addlen = 0
        BY <1>4, <2>1, <3>2, AllocOf
      <4>2. w = b
        BY <2>1, <4>1 DEF Widened
      <4> QED
        BY <1>4, <2>2, <3>2, <4>2
    <3> QED
      BY <3>1, <3>2
  <2>5. Holds(w, t) \in Whole
    BY <2>3, <2>4, HoldsOK
  <2>6. WithRoom("cpylen", v, addlen, Holds(w, t))
    BY <1>3, <1>8, <2>1 DEF sdscpylen
  <2> QED
    BY <1>1, <1>2, <2>5, <2>6, WithRoomStep
<1>9. ASSUME NEW src \in Texts PROVE src \in Seq(Byte) /\ CString(src) \in Seq(Byte)
  BY SdsTextsAssumption, CStringOK
<1> QED
  BY <1>5, <1>6, <1>7, <1>8, <1>9 DEF sdscpy
\* A call that changes the string where it is, and makes it no longer.
LEMMA ChangeStep ==
  ASSUME IInv, NEW v \in Var,
         \/ \E n \in Sizes : sdsIncrLen_negative(v, n)
         \/ sdsupdatelen(v) \/ sdsclear(v)
         \/ \E cset \in CharSets : sdstrim(v, cset)
         \/ \E start, end \in Offsets : sdsrange(v, start, end)
  PROVE  IInv'
<1>1. {"incr_len", "updatelen", "clear", "trim", "range"} \subseteq Op
  BY DEF Op
<1>2. v \in Holding
  BY DEF sdsIncrLen_negative, sdsupdatelen, sdsclear, sdstrim, sdsrange
<1>3. PICK text, len : /\ text = Text(Sds(v)) /\ text \in Seq(Byte) /\ len = Sds(v).len
                       /\ Len(text) = len /\ len \in Nat
  BY <1>2, TextAt
<1>4. ASSUME NEW n \in Sizes, sdsIncrLen_negative(v, n) PROVE IInv'
  <2>1. n \in Nat /\ n > 0 /\ n <= len
    BY <1>3, <1>4, ArgsAssumption DEF sdsIncrLen_negative
  <2>2. PICK kept : kept = Bytes(Sds(v), 0, Sds(v).len - n)
    OBVIOUS
  <2>3. kept \in Seq(Byte) /\ Len(kept) = len - n
    <3>1. PICK b : b = Sds(v) /\ Sound(b)
      BY <1>2, BlockAt
    <3>2. /\ b.data \in Seq(Byte \cup {Junk}) /\ Len(b.data) = len + 1
          /\ \A i \in 1..len : b.data[i] \in Byte
      BY <1>3, <3>1 DEF Sound, Block
    <3>3. PICK m, d : m = len - n /\ d = b.data /\ m \in 0..len
      BY <1>3, <2>1
    <3>4. 0 + 1 = 1 /\ 0 + m = m
      BY <3>3
    <3>5. kept = SubSeq(d, 1, m)
      BY <1>3, <2>2, <3>1, <3>3, <3>4, Zenon DEF Bytes
    <3>6. Len(SubSeq(d, 1, m)) = m /\ \A i \in 1..m : SubSeq(d, 1, m)[i] = d[i] /\ d[i] \in Byte
      BY <1>3, <3>2, <3>3
    <3>7. SubSeq(d, 1, m) \in Seq(Byte)
      BY <3>2, <3>3, <3>6
    <3> QED
      BY <3>3, <3>5, <3>6, <3>7
  <2>4. Len(kept) <= Sds(v).len
    BY <1>3, <2>1, <2>3
  <2> QED
    BY <1>1, <1>2, <1>4, <2>2, <2>3, <2>4, ShorterStep DEF sdsIncrLen_negative
<1>5. ASSUME sdsupdatelen(v) PROVE IInv'
  <2>1. CString(text) \in Seq(Byte) /\ Len(CString(text)) <= Sds(v).len
    BY <1>3, CStringOK
  <2> QED
    BY <1>1, <1>2, <1>3, <1>5, <2>1, ShorterStep DEF sdsupdatelen
<1>6. ASSUME sdsclear(v) PROVE IInv'
  <2>1. <<>> \in Seq(Byte) /\ Len(<<>>) <= Sds(v).len
    BY <1>3
  <2> QED
    BY <1>1, <1>2, <1>6, <2>1, ShorterStep DEF sdsclear
<1>7. ASSUME NEW cset \in CharSets, sdstrim(v, cset) PROVE IInv'
  <2>1. Trimmed(text, cset) \in Seq(Byte) /\ Len(Trimmed(text, cset)) <= Sds(v).len
    BY <1>3, TrimmedOK
  <2> QED
    BY <1>1, <1>2, <1>3, <1>7, <2>1, ShorterStep DEF sdstrim
<1>8. ASSUME NEW start \in Offsets, NEW end \in Offsets, sdsrange(v, start, end) PROVE IInv'
  <2>1. start \in Int /\ end \in Int
    BY ArgsAssumption
  <2>2. Ranged(text, start, end) \in Seq(Byte) /\ Len(Ranged(text, start, end)) <= Sds(v).len
    BY <1>3, <2>1, RangedOK
  <2> QED
    BY <1>1, <1>2, <1>3, <1>8, <2>2, ShorterStep DEF sdsrange
<1> QED
  BY <1>4, <1>5, <1>6, <1>7, <1>8

\* Free space that the program has read a text into.
LEMMA sdsIncrLenStep ==
  ASSUME IInv, NEW v \in Var, NEW src \in Texts, sdsIncrLen(v, src)
  PROVE  IInv'
<1>1. v \in Holding /\ src \in Seq(Byte) /\ "incr_len" \in Op
  BY SdsTextsAssumption DEF sdsIncrLen, Op
<1>2. PICK b, t : b = Sds(v) /\ Sound(b) /\ t = Text(b) /\ t \in Seq(Byte) /\ Len(t) = b.len
  BY <1>1, BlockAt, TextAt
<1>3. t \o src \in Seq(Byte) /\ Len(t \o src) = b.len + Len(src)
  BY <1>1, <1>2, ConcatProperties
<1>4. Len(src) <= sdsavail(b) /\ InPlace("incr_len", v, Holds(b, t \o src))
  BY <1>2 DEF sdsIncrLen
<1>5. b.len + Len(src) <= sdsalloc(b)
  <2>1. Len(src) \in Nat
    BY <1>1
  <2> QED
    BY <1>2, <1>4, <2>1, AllocOf
<1>6. Holds(b, t \o src) \in Whole
  BY <1>2, <1>3, <1>5, HoldsOK
<1> QED
  BY <1>1, <1>4, <1>6, InPlaceStep

LEMMA UserWriteStep ==
  ASSUME IInv, NEW v \in Var, NEW i \in Sizes, NEW c \in UserBytes, UserWrite(v, i, c)
  PROVE  IInv'
<1>1. v \in Holding /\ "user_write" \in Op
  BY DEF UserWrite, Op
<1>2. PICK b : b = Sds(v) /\ b \in Whole
  BY <1>1, BlockAt
<1>3. PICK d, n, k : d = b.data /\ n = b.len /\ k = i + 1
  OBVIOUS
<1>4. /\ b \in Block /\ n \in Nat /\ d \in Seq(Byte \cup {Junk}) /\ Len(d) = n + 1
      /\ d[n + 1] = NUL /\ \A j \in 1..n : d[j] \in Byte
  BY <1>2, <1>3 DEF Whole, BlockOK, Sound, Block
<1>5. k \in 1..n /\ c \in Byte
  BY <1>2, <1>3, <1>4, ArgsAssumption DEF UserWrite
<1>6. PICK dd : dd = [d EXCEPT ![k] = c]
  OBVIOUS
<1>7. /\ dd \in Seq(Byte \cup {Junk}) /\ Len(dd) = n + 1 /\ dd[n + 1] = NUL
      /\ \A j \in 1..n : dd[j] \in Byte
  BY <1>4, <1>5, <1>6
<1>8. PICK e : e = [b EXCEPT !.data = dd]
  OBVIOUS
<1>9. InPlace("user_write", v, e)
  BY <1>2, <1>3, <1>4, <1>6, <1>8 DEF UserWrite
<1>10. /\ e \in Block /\ e.type = b.type /\ e.alloc = b.alloc /\ e.room = b.room
       /\ e.len = n /\ e.data = dd
  BY <1>3, <1>4, <1>7, <1>8 DEF Block
<1>11. e \in Whole
  <2>1. Sound(e)
    BY <1>2, <1>3, <1>7, <1>10 DEF Whole, BlockOK, Sound
  <2> QED
    BY <1>7, <1>10, <2>1 DEF Whole, BlockOK
<1> QED
  BY <1>1, <1>9, <1>11, InPlaceStep

\* Every byte becomes another.
LEMMA EachStep ==
  ASSUME IInv, NEW v \in Var,
         \/ sdstolower(v) \/ sdstoupper(v)
         \/ \E m \in Maps : sdsmapchars(v, m.from, m.to)
  PROVE  IInv'
<1>1. {"tolower", "toupper", "mapchars"} \subseteq Op
  BY DEF Op
<1>2. v \in Holding
  BY DEF sdstolower, sdstoupper, sdsmapchars, Each
<1>3. PICK n, d : n = Sds(v).len /\ d = Sds(v).data /\ n \in Nat /\ \A i \in 1..n : d[i] \in Byte
  BY <1>2, TextAt
<1>4. ASSUME NEW op \in Op, NEW t \in [1..n -> Byte], InPlace(op, v, Holds(Sds(v), t)) PROVE IInv'
  <2>1. t \in Seq(Byte) /\ Len(t) = n
    BY <1>3
  <2>2. Len(t) <= Sds(v).len
    BY <1>3, <2>1
  <2> QED
    BY <1>2, <1>4, <2>1, <2>2, ShorterStep
<1>5. ASSUME sdstolower(v) PROVE IInv'
  <2>1. [i \in 1..n |-> Lower[d[i]]] \in [1..n -> Byte]
    BY <1>3, CaseAssumption
  <2> QED
    BY <1>1, <1>3, <1>4, <1>5, <2>1 DEF sdstolower, Each
<1>6. ASSUME sdstoupper(v) PROVE IInv'
  <2>1. [i \in 1..n |-> Upper[d[i]]] \in [1..n -> Byte]
    BY <1>3, CaseAssumption
  <2> QED
    BY <1>1, <1>3, <1>4, <1>6, <2>1 DEF sdstoupper, Each
<1>7. ASSUME NEW m \in Maps, sdsmapchars(v, m.from, m.to) PROVE IInv'
  <2>1. [i \in 1..n |-> Mapped(d[i], m.from, m.to)] \in [1..n -> Byte]
    BY <1>3, MappedOK
  <2> QED
    BY <1>1, <1>3, <1>4, <1>7, <2>1 DEF sdsmapchars, Each
<1> QED
  BY <1>5, <1>6, <1>7

LEMMA StepOK == IInv /\ [Next]_vars => IInv'
<1> SUFFICES ASSUME IInv, [Next]_vars PROVE IInv'
  OBVIOUS
<1>1. CASE UNCHANGED vars
  BY <1>1 DEF vars, IInv, Owned, Holding
<1>2. CASE Next
  <2>1. PICK v \in Var :
       \/ \E src \in Texts :
            \/ sdsnewlen(v, src) \/ sdsnew(v, src) \/ sdscatlen(v, src) \/ sdscat(v, src)
            \/ sdscpylen(v, src) \/ sdscpy(v, src) \/ sdsIncrLen(v, src)
            \/ \E fmtlen \in {1, STATIC_BUF} : sdscatvprintf(v, fmtlen, src)
       \/ \E w \in Var : sdsdup(v, w) \/ sdscatsds(v, w)
       \/ \E n \in Sizes : \/ sdsnewlen_zero(v, n) \/ sdsnewlen_noinit(v, n)
                           \/ sdsMakeRoomFor(v, n) \/ sdsgrowzero(v, n)
                           \/ sdsIncrLen_negative(v, n)
       \/ \E i \in Sizes, c \in UserBytes : UserWrite(v, i, c)
       \/ \E m \in Maps : sdsmapchars(v, m.from, m.to)
       \/ \E value \in Numbers : sdsfromlonglong(v, value)
       \/ \E format \in Formats : sdscatfmt(v, format)
       \/ \E cset \in CharSets : sdstrim(v, cset)
       \/ \E start, end \in Offsets : sdsrange(v, start, end)
       \/ sdsempty(v) \/ sdsfree(v) \/ sdsRemoveFreeSpace(v)
       \/ sdsupdatelen(v) \/ sdsclear(v) \/ sdstolower(v) \/ sdstoupper(v)
    BY <1>2, Zenon DEF Next
  <2>2. CASE \/ \E src \in Texts : sdsnewlen(v, src) \/ sdsnew(v, src)
             \/ \E n \in Sizes : sdsnewlen_zero(v, n) \/ sdsnewlen_noinit(v, n)
             \/ sdsempty(v)
             \/ \E w \in Var : sdsdup(v, w)
             \/ \E value \in Numbers : sdsfromlonglong(v, value)
    BY <2>2, sdsnewStep
  <2>3. CASE \/ \E src \in Texts : sdscatlen(v, src) \/ sdscat(v, src)
             \/ \E src \in Texts : \E fmtlen \in {1, STATIC_BUF} : sdscatvprintf(v, fmtlen, src)
             \/ \E w \in Var : sdscatsds(v, w)
    BY <2>3, sdscatStep
  <2>4. CASE \/ \E n \in Sizes : sdsMakeRoomFor(v, n) \/ sdsgrowzero(v, n)
             \/ sdsRemoveFreeSpace(v)
             \/ \E src \in Texts : sdscpylen(v, src) \/ sdscpy(v, src)
    BY <2>4, RoomStep
  <2>5. CASE \/ \E n \in Sizes : sdsIncrLen_negative(v, n)
             \/ sdsupdatelen(v) \/ sdsclear(v)
             \/ \E cset \in CharSets : sdstrim(v, cset)
             \/ \E start, end \in Offsets : sdsrange(v, start, end)
    BY <2>5, ChangeStep
  <2>6. CASE \/ sdstolower(v) \/ sdstoupper(v)
             \/ \E m \in Maps : sdsmapchars(v, m.from, m.to)
    BY <2>6, EachStep
  <2>7. CASE \/ \E i \in Sizes, c \in UserBytes : UserWrite(v, i, c)
             \/ \E src \in Texts : sdsIncrLen(v, src)
             \/ \E format \in Formats : sdscatfmt(v, format)
             \/ sdsfree(v)
    BY <2>7, UserWriteStep, sdsIncrLenStep, sdscatfmtStep, sdsfreeStep
  <2> QED
    BY <2>1, <2>2, <2>3, <2>4, <2>5, <2>6, <2>7, Zenon
<1> QED
  BY <1>1, <1>2

-----------------------------------------------------------------------------
(* The results.                                                            *)

LEMMA InitOK == Init => IInv
<1> SUFFICES ASSUME Init PROVE IInv
  OBVIOUS
<1>1. Holding = {}
  BY DEF Init, Holding
<1>2. heap \in [Addr -> Whole \cup {FREE}] /\ ptr \in [Var -> Addr \cup {NULL}]
  BY DEF Init
<1>3. ret \in [op : Op, v : Var \cup {NULL}, res : {"ok", "null", "crash"}]
  BY DEF Init, Op
<1>4. \A a \in Addr : heap[a] = FREE
  BY DEF Init
<1> QED
  BY <1>1, <1>2, <1>3, <1>4 DEF IInv, Owned

LEMMA Invariant == Spec => []IInv
BY InitOK, StepOK, PTL DEF Spec

\* A live address has a whole block.
LEMMA LiveBlock ==
  ASSUME IInv, NEW a \in Live
  PROVE  a \in Addr /\ heap[a] \in Whole /\ BlockOK(heap[a]) /\ Sound(heap[a]) /\ heap[a] \in Block
BY DEF IInv, Live, Whole, BlockOK

\* The shape of the heap, the pointers and what calls return, through every public
\* call of sds.c; a header of type 5 has no alloc (sdssetalloc).
THEOREM TypesHold == Spec => []TypeOK
<1>1. IInv => TypeOK
  <2> SUFFICES ASSUME IInv PROVE TypeOK
    OBVIOUS
  <2>1. \A a \in Live : heap[a].type = 5 => heap[a].alloc = 0
    BY LiveBlock DEF Sound
  <2>2. \A a \in Addr : heap[a] = FREE \/ heap[a] \in Block
    BY DEF IInv, Whole
  <2> QED
    BY <2>1, <2>2 DEF TypeOK, IInv
<1> QED
  BY <1>1, Invariant, PTL

\* Whatever layouts a string went through (sdsMakeRoomFor, sdsRemoveFreeSpace), its
\* header records the room there is, and the length fits it.
THEOREM HeadsTellTruth == Spec => []HeadTruth
<1>1. IInv => HeadTruth
  <2> SUFFICES ASSUME IInv, NEW a \in Live, NEW b, b = heap[a]
               PROVE  /\ b.len <= sdsalloc(b) /\ sdsalloc(b) <= b.room
                      /\ b.type # 5 => b.alloc = b.room
    BY DEF HeadTruth
  <2>1. Sound(b)
    BY LiveBlock
  <2> QED
    BY <2>1, AllocOf DEF Sound
<1> QED
  BY <1>1, Invariant, PTL

\* Every string ends with a NUL where its header says, holds no byte that nobody
\* wrote, and lies in its block, after every call of sds.c.
THEOREM AllTerminated == Spec => []Terminated
<1>1. IInv => Terminated
  <2> SUFFICES ASSUME IInv, NEW a \in Live, NEW b, b = heap[a]
               PROVE  /\ Len(b.data) = b.len + 1 /\ Len(b.data) <= b.room + 1
                      /\ b.data[Len(b.data)] = NUL
                      /\ \A i \in 1..b.len : b.data[i] # Junk
    BY DEF Terminated
  <2>1. BlockOK(b) /\ b \in Block
    BY LiveBlock
  <2>2. b.len \in Nat /\ b.room \in Nat
    BY <2>1 DEF Block
  <2> QED
    BY <2>1, <2>2, BytesAssumption DEF BlockOK, Sound
<1> QED
  BY <1>1, Invariant, PTL

\* No move to another layout and no failed call loses a block or leaves two
\* variables with one.
THEOREM OneOwnerHolds == Spec => []OneOwner
<1>1. IInv => OneOwner
  <2> SUFFICES ASSUME IInv PROVE OneOwner
    OBVIOUS
  <2>1. \A v \in Holding : ptr[v] \in Live
    BY BlockAt DEF Live, Sds
  <2> QED
    BY <2>1 DEF IInv, Owned, OneOwner, Live
<1> QED
  BY <1>1, Invariant, PTL
==============================================================================
