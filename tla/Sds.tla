-------------------------------- MODULE Sds --------------------------------
(***************************************************************************)
(* SDS, bench/sds/sds.c: the string library that bench.c measures stricks  *)
(* against.  A header in front of the bytes, too, but in five layouts; a   *)
(* string that must grow, or that gives its free space back, moves to      *)
(* another layout by malloc, copy and free.  The smallest one, type 5, has *)
(* no field for free space and forgets it.                                 *)
(*                                                                         *)
(* Every public call is one action.  The program keeps its old pointer     *)
(* when a call returns NULL, and passes no string to itself (sdscatsds).   *)
(* The bytes behind a string's terminator are never read: a block's data   *)
(* ends with the terminator, and what lies between it and the room is Junk.*)
(***************************************************************************)
EXTENDS Integers, Sequences, FiniteSets, FiniteSetsExt

CONSTANTS
  Var,               \* the program's variables of type sds
  Addr,              \* where a heap block may live
  Byte, NUL,         \* the values of a char, and the char 0
  Texts,             \* what the program creates, appends or copies
  Sizes, Offsets,    \* the lengths and the string indices it passes
  UserBytes,         \* the bytes it writes to a string without the library
  Maps,              \* what it passes to sdsmapchars: pairs of texts
  Formats,           \* the formats of sdscatfmt, as sequences of pieces
  CharSets,          \* what it trims off
  Lower, Upper,      \* tolower() and toupper()
  Numbers,           \* the values of a long long
  Base,              \* 10
  Digit, Minus,      \* the chars of a numeral: Digit[i] is '0' + i
  ULLONG_MAX,        \* the largest unsigned long long
  Limit,             \* largest length of each type but the last
  SDS_MAX_PREALLOC,  \* up to here a growing string doubles
  STATIC_BUF,        \* bytes of the buffer sdscatvprintf has on its stack
  FMT_FACTOR,        \* 2: what sdscatfmt reserves at first for a byte of its format
  HeapSize,          \* BOUND: room that the live blocks share
  NULL,              \* the null pointer
  FREE,              \* a heap address that holds no block
  Junk               \* a byte nobody wrote

Type == {5, 8, 16, 32, 64}

ASSUME BytesAssumption == NUL \in Byte /\ Junk \notin Byte
ASSUME SdsTextsAssumption == Texts \subseteq Seq(Byte) /\ CharSets \subseteq SUBSET (Byte \ {NUL})
ASSUME ArgsAssumption ==
  /\ Sizes \subseteq Nat /\ Offsets \subseteq Int /\ UserBytes \subseteq Byte
  /\ \A m \in Maps : {m.from, m.to} \subseteq Seq(Byte) /\ Len(m.from) = Len(m.to)
\* A piece without an argument is one char.
ASSUME PiecesAssumption ==
  \A f \in Formats : /\ f \in Seq([fmt : {1, 2}, arg : BOOLEAN, text : Seq(Byte)])
                     /\ \A i \in DOMAIN f : f[i].arg \/ Len(f[i].text) = 1
ASSUME DigitsAssumption ==
  /\ Base \in Nat /\ Base >= 2 /\ Digit \in [0..(Base - 1) -> Byte] /\ Minus \in Byte
  /\ ULLONG_MAX \in Nat
  /\ Numbers \subseteq (-((ULLONG_MAX + 1) \div 2))..(ULLONG_MAX \div 2)
ASSUME CaseAssumption == Lower \in [Byte -> Byte] /\ Upper \in [Byte -> Byte]
ASSUME LimitAssumption ==
  /\ Limit \in [Type \ {64} -> Nat \ {0}]
  /\ \A t, u \in Type \ {64} : t < u => Limit[t] < Limit[u]
ASSUME SizesAssumption ==
  SDS_MAX_PREALLOC \in Nat \ {0} /\ {STATIC_BUF, FMT_FACTOR, HeapSize} \subseteq Nat
ASSUME NullAssumption == NULL \notin Addr

VARIABLES
  heap,   \* what each address holds: a block, or FREE
  ptr,    \* the program's variables: an address, or NULL
  ret     \* the last call: its name, variable and outcome

vars == <<heap, ptr, ret>>

-----------------------------------------------------------------------------
(* The header.                                                             *)

sdsReqType(n) == Min({t \in Type \ {64} : n <= Limit[t]} \cup {64})

\* sdssetlen, sdssetalloc: a size_t lands in a field of the header.
Stored(type, n) == IF type = 64 THEN n ELSE n % (Limit[type] + 1)

sdsalloc(b) == IF b.type = 5 THEN b.len ELSE b.alloc
sdsavail(b) == IF b.type = 5 THEN 0 ELSE b.alloc - b.len

\* A block: len and alloc are the header's words (alloc 0 in type 5, which has
\* none), room the allocator's; data[1..len+1] are the bytes and the terminator.
Block == [type : Type, len : Nat, alloc : Nat, room : Nat, data : Seq(Byte \cup {Junk})]

ASSUME FreeAssumption == FREE \notin Block

\* Mutant: sdssetalloc takes type 5 for type 8, and sets a field its header lacks.
MakeBlock_sized(type, len, room, data) ==
  [type |-> type, len |-> Stored(type, len), alloc |-> Stored(type, room),
   room |-> room, data |-> data]

MakeBlock(type, len, room, data) ==
  [type |-> type, len |-> Stored(type, len),
   alloc |-> IF type = 5 THEN 0 ELSE Stored(type, room), room |-> room, data |-> data]

\* The first n bytes from data + i.
Bytes(b, i, n) == SubSeq(b.data, i + 1, i + n)
Text(b) == Bytes(b, 0, b.len)

\* s[Len(text)] = 0; sdssetlen
Holds(b, text) == [b EXCEPT !.len = Stored(b.type, Len(text)), !.data = Append(text, NUL)]

\* What strlen makes of bytes that end with a NUL.
CString(bytes) ==
  LET ends == {i \in 1..Len(bytes) : bytes[i] = NUL}
  IN IF ends = {} THEN bytes ELSE SubSeq(bytes, 1, Min(ends) - 1)

-----------------------------------------------------------------------------
(* The heap, and what every call leaves behind.                            *)

Live == {a \in Addr : heap[a] # FREE}
Unused == Addr \ Live
Holding == {v \in Var : ptr[v] # NULL}
Sds(v) == heap[ptr[v]]

Returns(op, v, res) == ret' = [op |-> op, v |-> v, res |-> res]

\* No memory: NULL, and nothing has changed.
Fails(op, v) == UNCHANGED <<heap, ptr>> /\ Returns(op, v, "null")

\* Is there memory for a block of this room, besides those of the others?
Fits(others, room) == MapThenSumSet(LAMBDA a : heap[a].room, others) + room <= HeapSize

InPlace(op, v, b) ==
  /\ heap' = [heap EXCEPT ![ptr[v]] = b]
  /\ UNCHANGED ptr
  /\ Returns(op, v, "ok")

\* Mutant: the old block is not freed.
Moved_leak(op, v, a, b) ==
  /\ heap' = [heap EXCEPT ![a] = b]
  /\ ptr' = [ptr EXCEPT ![v] = a]
  /\ Returns(op, v, "ok")

\* The string of v is now the block b, at a; its old block is free.
Moved(op, v, a, b) ==
  /\ heap' = [heap EXCEPT ![ptr[v]] = FREE, ![a] = b]
  /\ ptr' = [ptr EXCEPT ![v] = a]
  /\ Returns(op, v, "ok")

\* s_realloc when the layout stays, may leave the block in place; else s_malloc,
\* memcpy, s_free.
Relocated(op, v, b) ==
  /\ Fits(Live \ {ptr[v]}, b.room)
  /\ \E a \in Unused \cup (IF b.type = Sds(v).type THEN {ptr[v]} ELSE {}) : Moved(op, v, a, b)

-----------------------------------------------------------------------------
(* Create and free.                                                        *)

\* An empty string gets type 8: type 5 is not good at growing.
NewType(n) == IF n = 0 THEN 8 ELSE sdsReqType(n)

Create(op, v, bytes) ==
  /\ ptr[v] = NULL
  /\ \/ /\ Fits(Live, Len(bytes))
        /\ \E a \in Unused :
             /\ heap' = [heap EXCEPT ![a] =
                           MakeBlock(NewType(Len(bytes)), Len(bytes), Len(bytes),
                                     Append(bytes, NUL))]
             /\ ptr' = [ptr EXCEPT ![v] = a]
        /\ Returns(op, v, "ok")
     \/ Fails(op, v)

sdsnewlen(v, init) == Create("newlen", v, init)

\* init NULL: zero bytes.  SDS_NOINIT: bytes that hold anything.
sdsnewlen_zero(v, n) == Create("newlen_zero", v, [i \in 1..n |-> NUL])
sdsnewlen_noinit(v, n) == \E any \in [1..n -> Byte] : Create("noinit", v, any)

sdsempty(v) == Create("empty", v, <<>>)
sdsnew(v, init) == Create("new", v, CString(init))
sdsdup(v, w) == w \in Holding /\ Create("dup", v, Text(Sds(w)))

sdsfree(v) ==
  /\ v \in Holding
  /\ heap' = [heap EXCEPT ![ptr[v]] = FREE]
  /\ ptr' = [ptr EXCEPT ![v] = NULL]
  /\ Returns("free", v, "ok")

-----------------------------------------------------------------------------
(* Room.                                                                   *)

NewAlloc(len) ==
  IF len < SDS_MAX_PREALLOC THEN 2 * len ELSE len + SDS_MAX_PREALLOC

\* Mutant: no sdssetalloc.
Widened_unset(b, addlen) ==
  LET room == NewAlloc(b.len + addlen)
  IN IF sdsavail(b) >= addlen THEN b
     ELSE [MakeBlock(IF sdsReqType(room) = 5 THEN 8 ELSE sdsReqType(room), b.len, room,
                     Bytes(b, 0, b.len + 1)) EXCEPT !.alloc = b.alloc]

\* What sdsMakeRoomFor(s, addlen) makes of b.
Widened(b, addlen) ==
  LET room == NewAlloc(b.len + addlen)
  IN IF sdsavail(b) >= addlen THEN b
     ELSE MakeBlock(IF sdsReqType(room) = 5 THEN 8 ELSE sdsReqType(room), b.len, room,
                    Bytes(b, 0, b.len + 1))

\* sdsMakeRoomFor(s, addlen), and what the call then does in that room: b.
WithRoom(op, v, addlen, b) ==
  \/ sdsavail(Sds(v)) >= addlen /\ InPlace(op, v, b)
  \/ sdsavail(Sds(v)) < addlen /\ (Relocated(op, v, b) \/ Fails(op, v))

sdsMakeRoomFor(v, addlen) ==
  /\ v \in Holding
  /\ WithRoom("make_room", v, addlen, Widened(Sds(v), addlen))

\* The header that is just large enough, unless realloc can keep a wider one.
ShrunkType(b) ==
  LET type == sdsReqType(b.len) IN IF type > 8 THEN b.type ELSE type

sdsRemoveFreeSpace(v) ==
  LET b == Sds(v)
  IN /\ v \in Holding
     /\ \/ sdsavail(b) = 0 /\ InPlace("remove_free", v, b)
        \/ sdsavail(b) > 0 /\ \/ Relocated("remove_free", v,
                                     MakeBlock(ShrunkType(b), b.len, b.len,
                                               Bytes(b, 0, b.len + 1)))
                              \/ Fails("remove_free", v)

-----------------------------------------------------------------------------
(* Append.                                                                 *)

\* memcpy to s + curlen, sdssetlen, s[curlen+len] = 0
Cat(op, v, src) ==
  LET b == Widened(Sds(v), Len(src))
  IN v \in Holding /\ WithRoom(op, v, Len(src), Holds(b, Text(b) \o src))

sdscatlen(v, src) == Cat("catlen", v, src)
sdscat(v, src) == Cat("cat", v, CString(src))
sdscatsds(v, w) == v # w /\ w \in Holding /\ Cat("catsds", v, Text(Sds(w)))

\* Printed to a buffer first: on the stack, else, and each time it proves too
\* small, on the heap.
sdscatvprintf(v, fmtlen, out) ==
  \/ /\ v \in Holding
     /\ \/ 2 * fmtlen > STATIC_BUF
        \/ Len(out) > STATIC_BUF - 2 /\ out[STATIC_BUF - 1] # NUL
     /\ Fails("catprintf", v)
  \/ Cat("catprintf", v, CString(out))

sdsgrowzero(v, len) ==
  LET b == Sds(v)
      more == len - b.len
      wide == Widened(b, more)
  IN /\ v \in Holding
     /\ \/ more <= 0 /\ InPlace("growzero", v, b)
        \/ more > 0 /\ WithRoom("growzero", v, more,
                                Holds(wide, Text(wide) \o [i \in 1..more |-> NUL]))

\* The program has read src into the free space behind the string (made by
\* sdsMakeRoomFor), or takes bytes off its end.
sdsIncrLen(v, src) ==
  /\ v \in Holding /\ src # <<>> /\ Len(src) <= sdsavail(Sds(v))
  /\ InPlace("incr_len", v, Holds(Sds(v), Text(Sds(v)) \o src))

sdsIncrLen_negative(v, decr) ==
  /\ v \in Holding /\ decr > 0 /\ decr <= Sds(v).len
  /\ InPlace("incr_len", v, Holds(Sds(v), Bytes(Sds(v), 0, Sds(v).len - decr)))

-----------------------------------------------------------------------------
(* sdscatfmt, and numerals.                                                *)

\* (value < 0) ? -value : value, as an unsigned long long.
Magnitude(value) == (IF value < 0 THEN -value ELSE value) % (ULLONG_MAX + 1)

\* sdsull2str before it is reversed: the digits of v, the last one first.
sdsull2str(v) ==
  LET digits[n \in 0..v] ==
        (IF n < Base THEN <<>> ELSE digits[n \div Base]) \o <<Digit[n % Base]>>
  IN digits[v]

sdsll2str(value) == (IF value < 0 THEN <<Minus>> ELSE <<>>) \o sdsull2str(Magnitude(value))

sdsfromlonglong(v, value) == Create("number", v, sdsll2str(value))

\* Mutant: room is made for one char, whatever the argument.
Put_tight(b, piece) ==
  LET wide == Widened(b, 1)
  IN [wide EXCEPT !.len = Stored(wide.type, wide.len + Len(piece.text)),
                  !.data = Text(wide) \o piece.text \o <<Junk>>]

\* One turn of the loop: room for a char, room for the argument of a %s, %i or
\* %u, its bytes; no terminator yet.
Put(b, piece) ==
  LET wide == Widened(Widened(b, 1), IF piece.arg THEN Len(piece.text) ELSE 0)
  IN [wide EXCEPT !.len = Stored(wide.type, wide.len + Len(piece.text)),
                  !.data = Text(wide) \o piece.text \o <<Junk>>]

\* A failed sdsMakeRoomFor is not noticed: the next line reads through NULL.
sdscatfmt(v, format) ==
  LET b == Sds(v)
      fmtlen == Len(format) + Cardinality({i \in DOMAIN format : format[i].fmt = 2})
      first == Widened(b, b.len + FMT_FACTOR * fmtlen)
      after[n \in 0..Len(format)] == IF n = 0 THEN first ELSE Put(after[n - 1], format[n])
      full == after[Len(format)]
      done == [full EXCEPT !.data[Len(full.data)] = NUL]
  IN /\ v \in Holding
     /\ \/ done.type = b.type /\ done.room = b.room /\ InPlace("catfmt", v, done)
        \/ /\ done.type # b.type \/ done.room # b.room
           /\ \/ Relocated("catfmt", v, done)
              \/ UNCHANGED <<heap, ptr>> /\ Returns("catfmt", v, "crash")

-----------------------------------------------------------------------------
(* Change in place.                                                        *)

\* The program writes to the string itself.
UserWrite(v, i, c) ==
  /\ v \in Holding /\ i < Sds(v).len
  /\ InPlace("user_write", v, [Sds(v) EXCEPT !.data[i + 1] = c])

sdsupdatelen(v) ==
  v \in Holding /\ InPlace("updatelen", v, Holds(Sds(v), CString(Text(Sds(v)))))

sdsclear(v) == v \in Holding /\ InPlace("clear", v, Holds(Sds(v), <<>>))

sdscpylen(v, t) ==
  LET b == Sds(v)
      addlen == IF sdsalloc(b) < Len(t) THEN Len(t) - b.len ELSE 0
  IN v \in Holding /\ WithRoom("cpylen", v, addlen, Holds(Widened(b, addlen), t))

sdscpy(v, t) == sdscpylen(v, CString(t))

\* Mutant: the right end is looked for in the whole string.
Trimmed_over(text, cset) ==
  LET kept == {i \in 1..Len(text) : text[i] \notin cset \cup {NUL}}
  IN IF kept = {} THEN text ELSE SubSeq(text, Min(kept), Max(kept))

\* strchr finds the terminator of cset, too: NULs are trimmed off with it.
Trimmed(text, cset) ==
  LET kept == {i \in 1..Len(text) : text[i] \notin cset \cup {NUL}}
  IN IF kept = {} THEN <<>> ELSE SubSeq(text, Min(kept), Max(kept))

sdstrim(v, cset) ==
  v \in Holding /\ InPlace("trim", v, Holds(Sds(v), Trimmed(Text(Sds(v)), cset)))

\* start += len; if (start < 0) start = 0
FromEnd(i, len) == IF i >= 0 THEN i ELSE IF len + i < 0 THEN 0 ELSE len + i

\* newlen: 0 for an empty interval, or one behind the string.
Ranged(text, start, end) ==
  LET len == Len(text)
      from == FromEnd(start, len)
      to == FromEnd(end, len)
  IN IF from > to \/ from >= len THEN <<>>
     ELSE SubSeq(text, from + 1, IF to >= len THEN len ELSE to + 1)

sdsrange(v, start, end) ==
  /\ v \in Holding
  /\ InPlace("range", v, Holds(Sds(v), Ranged(Text(Sds(v)), start, end)))

Each(op, v, f(_)) ==
  /\ v \in Holding
  /\ InPlace(op, v, Holds(Sds(v), [i \in 1..Sds(v).len |-> f(Sds(v).data[i])]))

sdstolower(v) == Each("tolower", v, LAMBDA c : Lower[c])
sdstoupper(v) == Each("toupper", v, LAMBDA c : Upper[c])

\* The first match in from decides.
Mapped(c, from, to) ==
  LET hits == {i \in 1..Len(from) : from[i] = c}
  IN IF hits = {} THEN c ELSE to[Min(hits)]

sdsmapchars(v, from, to) ==
  Each("mapchars", v, LAMBDA c : Mapped(c, from, to))

-----------------------------------------------------------------------------
Init ==
  /\ heap = [a \in Addr |-> FREE]
  /\ ptr = [v \in Var |-> NULL]
  /\ ret = [op |-> "init", v |-> NULL, res |-> "ok"]

Next ==
  /\ ret.res # "crash"
  /\ \E v \in Var :
       \/ \E src \in Texts :
            \/ sdsnewlen(v, src) \/ sdsnew(v, src) \/ sdscatlen(v, src) \/ sdscat(v, src)
            \/ sdscpylen(v, src) \/ sdscpy(v, src) \/ sdsIncrLen(v, src)
            \/ \E fmtlen \in {1, STATIC_BUF} : sdscatvprintf(v, fmtlen, src)
       \/ \E w \in Var : sdsdup(v, w) \/ sdscatsds(v, w)
       \/ \E n \in Sizes : \/ sdsnewlen_zero(v, n) \/ sdsnewlen_noinit(v, n)
                           \/ sdsMakeRoomFor(v, n) \/ sdsgrowzero(v, n)
                           \/ sdsIncrLen_negative(v, n)
       \/ \E i \in Sizes, c \in UserBytes : UserWrite(v, i, c)
       \/ \E m \in Maps : sdsmapchars(v, m.from, m.to)
       \/ \E value \in Numbers : sdsfromlonglong(v, value)
       \/ \E format \in Formats : sdscatfmt(v, format)
       \/ \E cset \in CharSets : sdstrim(v, cset)
       \/ \E start, end \in Offsets : sdsrange(v, start, end)
       \/ sdsempty(v) \/ sdsfree(v) \/ sdsRemoveFreeSpace(v)
       \/ sdsupdatelen(v) \/ sdsclear(v) \/ sdstolower(v) \/ sdstoupper(v)

Spec == Init /\ [][Next]_vars

-----------------------------------------------------------------------------
(* What makes the strings correct.                                         *)

Op == {"init", "newlen", "newlen_zero", "noinit", "empty", "new", "dup", "number", "free",
       "make_room", "remove_free", "catlen", "cat", "catsds", "catprintf", "growzero",
       "incr_len", "catfmt", "user_write", "updatelen", "clear", "cpylen", "trim", "range",
       "tolower", "toupper", "mapchars"}

\* The shape of the state; sdssetalloc sets none in a header of type 5.
TypeOK ==
  /\ \A a \in Addr : heap[a] = FREE \/ heap[a] \in Block
  /\ \A a \in Live : heap[a].type = 5 => heap[a].alloc = 0
  /\ ptr \in [Var -> Addr \cup {NULL}]
  /\ ret \in [op : Op, v : Var \cup {NULL}, res : {"ok", "null", "crash"}]

\* The header tells the truth about its block, through every change of layout:
\* the free space it records is there, no less and no more, except that type 5
\* records none; the length fits its field and the block.
HeadTruth ==
  \A a \in Live :
    LET b == heap[a]
    IN /\ b.len <= sdsalloc(b) /\ sdsalloc(b) <= b.room
       /\ b.type # 5 => b.alloc = b.room

\* "All the sds strings are, always" null-terminated (sdsnewlen's comment), where
\* the header says, with no byte before that nobody wrote, and nothing was ever
\* written behind the room malloc or realloc gave.
Terminated ==
  \A a \in Live :
    LET b == heap[a]
    IN /\ Len(b.data) = b.len + 1 /\ Len(b.data) <= b.room + 1
       /\ b.data[Len(b.data)] = NUL
       /\ \A i \in 1..b.len : b.data[i] # Junk

\* Each variable holds a live block of its own, and no block is lost: neither by
\* the moves to another layout, nor by a call that fails.
OneOwner ==
  /\ \A v \in Holding : ptr[v] \in Live
  /\ \A v, w \in Holding : ptr[v] = ptr[w] => v = w
  /\ \A a \in Live : \E v \in Holding : ptr[v] = a
=============================================================================
