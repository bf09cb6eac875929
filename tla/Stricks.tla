------------------------------ MODULE Stricks ------------------------------
(***************************************************************************)
(* The strick, src/stx.c: a C string whose header (capacity, length, type) *)
(* sits in front of its bytes, in one heap block.  A program holds stricks *)
(* in variables of type stx_t and calls the public functions one at a      *)
(* time; every call is one action.  What a call can meet in between is the *)
(* allocator: malloc and realloc may fail, realloc may move the block, and *)
(* bytes never written hold anything.                                      *)
(*                                                                         *)
(* Everything about widths follows from SMALL_MAX (255 in the source): one *)
(* byte counts to SMALL_MAX, a uint32_t is four bytes.                     *)
(***************************************************************************)
EXTENDS Integers, Sequences

CONSTANTS
  Var,          \* the program's stx_t variables
  Addr,         \* where a heap block may live
  Byte,         \* the values of a char
  NUL,          \* the char 0
  Space,        \* the chars isspace() accepts
  Texts,        \* what the program appends, formats or copies
  UserBytes,    \* the bytes it writes to a strick without the library
  Caps,         \* the capacities it asks stx_new and stx_resize for
  SMALL_MAX,    \* largest capacity of a TYPE1 strick
  MaxCap,       \* BOUND: largest capacity of a block, asked for or grown to
  CustomAlloc,  \* are STX_MALLOC, STX_REALLOC, STX_FREE redefined?
  NULL,         \* the null pointer
  FREE,         \* a heap address that holds no block
  Junk          \* a byte nobody wrote

ASSUME ByteAssumption  == NUL \in Byte /\ Space \subseteq Byte \ {NUL} /\ Junk \notin Byte
ASSUME TextsAssumption == Texts \subseteq Seq(Byte) /\ UserBytes \subseteq Byte
ASSUME WidthAssumption == SMALL_MAX \in Nat \ {0} /\ MaxCap \in Nat /\ Caps \subseteq 0..MaxCap
ASSUME NullAssumption  == NULL \notin Addr /\ NULL \notin Var
ASSUME AllocAssumption == CustomAlloc \in BOOLEAN

VARIABLES
  heap,     \* what each address holds: a block, or FREE
  ptr,      \* the program's variables: an address, or NULL
  ret,      \* the last call: its name, variable, return code and size argument
  faults    \* what the calls did that C leaves undefined

vars == <<heap, ptr, ret, faults>>

-----------------------------------------------------------------------------
(* Head1, Head4, Attr: the header, and what its fields can hold.           *)

Type == {"TYPE1", "TYPE4"}

U8  == SMALL_MAX + 1
U32 == U8 * U8 * U8 * U8

\* Mutant: the bound taken for the first length of the next type.
TYPE_FOR_late(n) == IF n <= SMALL_MAX + 1 THEN "TYPE1" ELSE "TYPE4"

TYPE_FOR(n) == IF n <= SMALL_MAX THEN "TYPE1" ELSE "TYPE4"

\* hsetcap, hsetlen, hsetdims: a size_t lands in a field of the header.
Stored(type, n) == n % (IF type = "TYPE1" THEN U8 ELSE U32)

DATAOFF(type) == IF type = "TYPE1" THEN 3 ELSE 9

Cell == Byte \cup {Junk}

\* The allocator family a block came from, and must go back to.
Family == {"libc", "custom"}
StxFamily == IF CustomAlloc THEN "custom" ELSE "libc"

\* A block as the code lays it out.  cap and len are the header's words; room
\* is the allocator's: data[0..room] are the bytes after the header.
Block == [type : Type, cap : Nat, len : Nat, room : 0..MaxCap, owner : Family,
          data : UNION {[0..n -> Cell] : n \in 0..MaxCap}]

ASSUME FreeAssumption == FREE \notin Block

MakeBlock(type, cap, len, owner, data) ==
  [type |-> type, cap |-> Stored(type, cap), len |-> Stored(type, len),
   room |-> cap, owner |-> owner, data |-> data]

At(data, i) == IF i \in DOMAIN data THEN data[i] ELSE Junk

\* realloc keeps what fits, and adds bytes that hold anything.
Kept(data, room) == [i \in 0..room |-> At(data, i)]

\* memcpy(data + at, s, Len(s))
Write(data, at, s) ==
  [i \in DOMAIN data |-> IF i >= at /\ i < at + Len(s) THEN s[i - at + 1] ELSE data[i]]

\* setlen, hsetlen: a block whose bytes were written, its header otherwise as it was.
Written(b, len, data) == [b EXCEPT !.len = Stored(b.type, len), !.data = data]

\* The string a block says it holds, and whether C's string functions agree
\* on where it ends.
Text(b) == [i \in 1..b.len |-> At(b.data, i - 1)]
Terminated(b) == At(b.data, b.len) = NUL

stx_equal(b, c) ==
  b.len = c.len /\ \A i \in 0..(b.len - 1) : At(b.data, i) = At(c.data, i)

-----------------------------------------------------------------------------
(* The heap, and what every call leaves behind.                            *)

Live == {a \in Addr : heap[a] # FREE}
Unused == Addr \ Live
Holding == {v \in Var : ptr[v] # NULL}
Strick(v) == heap[ptr[v]]
After(v) == heap'[ptr'[v]]

Returns(op, v, rc, n) == ret' = [op |-> op, v |-> v, rc |-> rc, n |-> n]

\* A write whose last byte is data[last].
Overrun(b, last) == IF last > b.room THEN {"overrun"} ELSE {}

\* A block handed to the free or realloc of another family than it came from.
WrongFamily(b, family) == IF b.owner # family THEN {"wrong_family"} ELSE {}

\* Mutant: the old block is never freed.
Replace_leak(v, a, b) ==
  /\ heap' = [heap EXCEPT ![a] = b]
  /\ ptr'  = [ptr EXCEPT ![v] = a]

\* The block of variable v becomes b, at address a: its own, or a new one.
Replace(v, a, b) ==
  /\ heap' = [heap EXCEPT ![ptr[v]] = FREE, ![a] = b]
  /\ ptr'  = [ptr EXCEPT ![v] = a]

\* realloc may leave the block where it is.
ReallocAt(v) == Unused \cup {ptr[v]}

-----------------------------------------------------------------------------
(* Create.                                                                 *)

\* malloc a block b for variable v; NULL when there is no memory.
Create(op, v, b, n) ==
  /\ ptr[v] = NULL
  /\ \/ \E a \in Unused : /\ heap' = [heap EXCEPT ![a] = b]
                          /\ ptr'  = [ptr EXCEPT ![v] = a]
                          /\ Returns(op, v, 1, n)
     \/ UNCHANGED <<heap, ptr>> /\ Returns(op, v, 0, n)

stx_new(v, cap) ==
  /\ Create("new", v,
            MakeBlock(TYPE_FOR(cap), cap, 0, StxFamily,
                      [i \in 0..cap |-> IF i \in {0, cap} THEN NUL ELSE Junk]), cap)
  /\ UNCHANGED faults

stx_from_len(v, src) ==
  /\ Len(src) <= MaxCap
  /\ Create("from", v,
            MakeBlock(TYPE_FOR(Len(src)), Len(src), Len(src), StxFamily,
                      Write([i \in 0..Len(src) |-> NUL], 0, src)), Len(src))
  /\ UNCHANGED faults

\* Mutant: the pointer is copied, not the block.
stx_dup_shallow(v, src) ==
  /\ src \in Holding /\ ptr[v] = NULL
  /\ ptr' = [ptr EXCEPT ![v] = ptr[src]]
  /\ UNCHANGED <<heap, faults>>
  /\ Returns("dup", v, 1, Strick(src).len)

\* Mutant: hsetcap is missing, and the header copied says the capacity of src.
stx_dup_cap(v, src) ==
  LET b == Strick(src) IN
  /\ src \in Holding
  /\ Create("dup", v,
            [MakeBlock(b.type, b.len, b.len, "libc", Kept(b.data, b.len)) EXCEPT !.cap = b.cap],
            b.len)
  /\ UNCHANGED faults

\* The copy keeps the type of src, whatever its length; malloc, not STX_MALLOC.
stx_dup(v, src) ==
  LET b == Strick(src) IN
  /\ src \in Holding
  /\ Create("dup", v,
            MakeBlock(b.type, b.len, b.len, "libc",
                      [Kept(b.data, b.len) EXCEPT ![b.len] = NUL]), b.len)
  /\ faults' = faults \cup Overrun(b, b.len)

-----------------------------------------------------------------------------
(* Append.                                                                 *)

\* TYPE1 -> TYPE4: Head4's cap is stored before the bytes move out of its way,
\* and its last byte lands on data[0] of the old layout.
CapTopByte(newcap) ==
  IF (newcap \div (U8 * U8 * U8)) % U8 = 0 THEN {NUL} ELSE Byte \ {NUL}

\* memcpy of len+1 bytes to GAP bytes higher.  When the ranges overlap C leaves
\* the result open: as if by memmove, or byte by byte upwards.
GAP == DATAOFF("TYPE4") - DATAOFF("TYPE1")
Shifted_never(old, len, newcap) ==      \* Mutant: nothing is copied.
  { [i \in 0..newcap |-> At(old, i + GAP)] }

Shifted(old, len, newcap) ==
  { [i \in 0..newcap |-> IF i > len THEN Junk ELSE At(old, step[i])] :
    step \in {[i \in 0..len |-> i], [i \in 0..len |-> i % GAP]} }

\* The ways the bytes of b come through a realloc to newcap.
Moved(b, type, newcap) ==
  IF type = b.type THEN {Kept(b.data, newcap)}
  ELSE UNION {Shifted([b.data EXCEPT ![0] = c], b.len, newcap) : c \in CapTopByte(newcap)}

Grown(b, type, newcap, data) ==
  [type |-> type, cap |-> Stored(type, newcap), len |-> b.len, room |-> newcap,
   owner |-> StxFamily, data |-> data]

\* TYPE4 stays TYPE4.
GrownType(b, newcap) == IF b.type = "TYPE4" THEN "TYPE4" ELSE TYPE_FOR(newcap)

grow_unsealed(b, newcap) ==             \* Mutant: no cap sentinel.
  { Grown(b, GrownType(b, newcap), newcap, d) : d \in Moved(b, GrownType(b, newcap), newcap) }

grow_short(b, newcap) ==                \* Mutant: realloc is asked for the old size.
  { Grown(b, GrownType(b, newcap), newcap, d) : d \in Moved(b, GrownType(b, newcap), b.room) }

grow(b, newcap) ==
  { Grown(b, GrownType(b, newcap), newcap, [d EXCEPT ![newcap] = NUL]) :
    d \in Moved(b, GrownType(b, newcap), newcap) }

Fits_one_more(b, n) == b.len + n <= b.cap + 1  \* Mutant: the NUL's byte counted as room.

\* !(totlen > dims.cap)
Fits(b, n) == b.len + n <= b.cap

\* memcpy (end, src, srclen); end[srclen] = 0; hsetlen
Appended(b, at, src) ==
  Written(b, at + Len(src), Write(b.data, at, Append(src, NUL)))

AppendInPlace(op, v, src) ==
  LET b == Strick(v)
      totlen == b.len + Len(src)
  IN /\ Fits(b, Len(src))
     /\ Replace(v, ptr[v], Appended(b, b.len, src))
     /\ faults' = faults \cup Overrun(b, totlen)
     /\ Returns(op, v, totlen, Len(src))

AppendGrown(op, v, src) ==
  LET b == Strick(v)
      totlen == b.len + Len(src)
  IN /\ ~Fits(b, Len(src))
     /\ 2 * totlen <= MaxCap
     /\ \E a \in ReallocAt(v), g \in grow(b, 2 * totlen) :
          /\ Replace(v, a, Appended(g, b.len, src))
          /\ faults' = faults \cup Overrun(g, totlen) \cup WrongFamily(b, StxFamily)
     /\ Returns(op, v, totlen, Len(src))

\* Mutant: *dst = realloc(...), whatever it returns.
AppendFailed_lost(op, v, src) ==
  /\ ptr' = [ptr EXCEPT ![v] = NULL]
  /\ UNCHANGED <<heap, faults>>
  /\ Returns(op, v, 0, Len(src))

\* realloc failed, or vsnprintf did: 0, and nothing has changed.
AppendFailed(op, v, src) ==
  /\ UNCHANGED <<heap, ptr, faults>>
  /\ Returns(op, v, 0, Len(src))

stx_append(v, src) ==
  /\ v \in Holding
  /\ \/ AppendInPlace("append", v, src)
     \/ AppendGrown("append", v, src)
     \/ ~Fits(Strick(v), Len(src)) /\ AppendFailed("append", v, src)

stx_append_fmt(v, out) ==
  /\ v \in Holding
  /\ \/ AppendInPlace("append_fmt", v, out)
     \/ AppendGrown("append_fmt", v, out)
     \/ AppendFailed("append_fmt", v, out)

Needed_missing(b, n) == -(b.len + n - b.cap)   \* Mutant: what is missing.

\* return -totlen
Needed(b, n) == -(b.len + n)

\* Would truncate: the needed capacity, negated, and nothing has changed.
stx_append_strict(v, src) ==
  /\ v \in Holding
  /\ \/ AppendInPlace("append_strict", v, src)
     \/ /\ ~Fits(Strick(v), Len(src))
        /\ UNCHANGED <<heap, ptr, faults>>
        /\ Returns("append_strict", v, Needed(Strick(v), Len(src)), Len(src))


\* *end = 0; the length was never changed.
Undone(b, data) == [b EXCEPT !.data = Write(data, b.len, <<NUL>>)]

Cut(s, n) == IF Len(s) <= n THEN s ELSE SubSeq(s, 1, n)

\* vsnprintf writes what fits and a NUL; after a truncation, or an error that
\* left who knows what, the first byte is cleared.
stx_append_fmt_strict(v, out) ==
  LET b == Strick(v)
      spc == (b.cap - b.len) % U32
      totlen == b.len + Len(out)
      written == Write(b.data, b.len, Append(Cut(out, spc), NUL))
      spoilt == [i \in DOMAIN b.data |->
                   IF i >= b.len /\ i < b.len + spc THEN Junk ELSE b.data[i]]
      Returning(rc) == Returns("append_fmt_strict", v, rc, Len(out))
  IN /\ v \in Holding
     /\ \/ spc = 0 /\ Returning(0) /\ UNCHANGED <<heap, ptr, faults>>
        \/ /\ spc > 0 /\ Fits(b, Len(out))
           /\ Replace(v, ptr[v], Written(b, totlen, written))
           /\ faults' = faults \cup Overrun(b, totlen)
           /\ Returning(totlen)
        \/ /\ spc > 0 /\ ~Fits(b, Len(out))
           /\ Replace(v, ptr[v], Undone(b, written))
           /\ faults' = faults \cup Overrun(b, b.len + Len(Cut(out, spc)))
           /\ Returning(Needed(b, Len(out)))
        \/ /\ spc > 0
           /\ Replace(v, ptr[v], Undone(b, spoilt))
           /\ UNCHANGED faults
           /\ Returning(0)

-----------------------------------------------------------------------------
(* Adjust, reset, free.                                                    *)

NewLen_uncut(b, newcap) == newcap              \* Mutant.

\* min(dims.len, newcap)
NewLen(b, newcap) == IF b.len < newcap THEN b.len ELSE newcap

\* The block stx_resize leaves, with the bytes of data.
Resized(b, newcap, data) ==
  MakeBlock(TYPE_FOR(newcap), newcap, NewLen(b, newcap), StxFamily,
            [data EXCEPT ![newcap] = NUL])

\* malloc, then memcpy of newlen bytes and a NUL.
Copied(b, newlen, newcap) ==
  [i \in 0..newcap |-> IF i < newlen THEN At(b.data, i) ELSE IF i = newlen THEN NUL ELSE Junk]

stx_resize(v, newcap) ==
  LET b == Strick(v)
      sametype == TYPE_FOR(newcap) = b.type
      newlen == NewLen(b, newcap)
  IN /\ v \in Holding
     /\ \/ newcap = b.cap /\ UNCHANGED <<heap, ptr, faults>> /\ Returns("resize", v, 1, newcap)
        \/ /\ newcap # b.cap /\ sametype
           /\ \E a \in ReallocAt(v) : Replace(v, a, Resized(b, newcap, Kept(b.data, newcap)))
           /\ faults' = faults \cup WrongFamily(b, StxFamily)
           /\ Returns("resize", v, 1, newcap)
        \/ /\ newcap # b.cap /\ ~sametype      \* the old block goes to free()
           /\ \E a \in Unused : Replace(v, a, Resized(b, newcap, Copied(b, newlen, newcap)))
           /\ faults' = faults \cup WrongFamily(b, "libc") \cup Overrun(b, newlen - 1)
           /\ Returns("resize", v, 1, newcap)
        \/ newcap # b.cap /\ UNCHANGED <<heap, ptr, faults>> /\ Returns("resize", v, 0, newcap)

stx_reset(v) ==
  /\ v \in Holding
  /\ Replace(v, ptr[v], Written(Strick(v), 0, Write(Strick(v).data, 0, <<NUL>>)))
  /\ UNCHANGED faults
  /\ Returns("reset", v, 1, 0)

\* len = strlen(s).  A byte nobody wrote may or may not be the NUL it looks for:
\* from then on it is what strlen took it for.
stx_adjust(v) ==
  LET b == Strick(v) IN
  /\ v \in Holding
  /\ \E n \in 0..(b.room + 1) :
       /\ At(b.data, n) \in {NUL, Junk}
       /\ \A i \in 0..(n - 1) : b.data[i] # NUL
       /\ \E seen \in [{i \in 0..(n - 1) : b.data[i] = Junk} -> Byte \ {NUL}] :
            Replace(v, ptr[v],
              Written(b, n, [i \in DOMAIN b.data |->
                               IF i \in DOMAIN seen THEN seen[i]
                               ELSE IF i = n THEN NUL ELSE b.data[i]]))
       /\ faults' = faults \cup Overrun(b, n)
  /\ Returns("adjust", v, 1, 0)

\* Mutant: no memmove.
Trimmed_in_place(b, front, end) ==
  Written(b, end - front, Write(b.data, end - front, <<NUL>>))

\* memmove to the front, and a NUL.
Trimmed(b, front, end) ==
  Written(b, end - front,
          [i \in DOMAIN b.data |->
             IF i < end - front THEN b.data[front + i]
             ELSE IF i = end - front THEN NUL ELSE b.data[i]])

\* A program that wrote to the bytes itself calls stx_adjust before it trims.
stx_trim(v) ==
  LET b == Strick(v) IN
  /\ v \in Holding
  /\ Terminated(b)
  /\ \E front, end \in 0..b.len :
       /\ front <= end
       /\ \A i \in 0..(front - 1) : b.data[i] \in Space
       /\ b.data[front] \notin Space
       /\ \A i \in end..(b.len - 1) : b.data[i] \in Space
       /\ end > front => b.data[end - 1] \notin Space
       /\ Replace(v, ptr[v], Trimmed(b, front, end))
  /\ UNCHANGED faults
  /\ Returns("trim", v, 1, 0)

stx_free(v) ==
  /\ v \in Holding
  /\ heap' = [heap EXCEPT ![ptr[v]] = FREE]
  /\ ptr'  = [ptr EXCEPT ![v] = NULL]
  /\ faults' = faults \cup WrongFamily(Strick(v), StxFamily)
  /\ Returns("free", v, 1, 0)

\* The program writes to the string itself, inside its capacity.
UserWrite(v, i, c) ==
  /\ v \in Holding
  /\ i < Strick(v).cap
  /\ Replace(v, ptr[v], [Strick(v) EXCEPT !.data = Write(Strick(v).data, i, <<c>>)])
  /\ UNCHANGED faults
  /\ Returns("user_write", v, 1, 0)

-----------------------------------------------------------------------------
Init ==
  /\ heap = [a \in Addr |-> FREE]
  /\ ptr  = [v \in Var |-> NULL]
  /\ ret  = [op |-> "init", v |-> NULL, rc |-> 0, n |-> 0]
  /\ faults = {}

Next ==
  \E v \in Var :
    \/ \E cap \in Caps : stx_new(v, cap) \/ stx_resize(v, cap)
    \/ \E src \in Texts : \/ stx_from_len(v, src)
                          \/ stx_append(v, src)
                          \/ stx_append_strict(v, src)
                          \/ stx_append_fmt(v, src)
                          \/ stx_append_fmt_strict(v, src)
    \/ \E w \in Var : stx_dup(v, w)
    \/ \E i \in 0..MaxCap, c \in UserBytes : UserWrite(v, i, c)
    \/ stx_reset(v)
    \/ stx_adjust(v)
    \/ stx_trim(v)
    \/ stx_free(v)

Spec == Init /\ [][Next]_vars

-----------------------------------------------------------------------------
(* What makes the stricks correct.                                         *)

Op == {"init", "new", "from", "dup", "append", "append_fmt", "append_strict",
       "append_fmt_strict", "resize", "reset", "adjust", "trim", "free", "user_write"}

\* The shape of the state: blocks laid out as the structs say, variables that
\* are addresses or NULL, the two kinds of undefined behaviour tracked.
TypeOK ==
  /\ heap \in [Addr -> Block \cup {FREE}]
  /\ \A a \in Live : DOMAIN heap[a].data = 0..heap[a].room
  /\ ptr \in [Var -> Addr \cup {NULL}]
  /\ ret \in [op : Op, v : Var \cup {NULL}, rc : Int, n : Nat]
  /\ faults \subseteq {"overrun", "wrong_family"}

\* The header tells the truth about its block across every change of type: the
\* capacity it records is the room malloc or realloc gave, and the length fits
\* (new, from, grow, stx_resize, stx_dup).
HeadTruth ==
  \A a \in Live : heap[a].cap = heap[a].room /\ heap[a].len <= heap[a].cap

\* grow's "cap sentinel": the byte after the capacity is NUL, whatever was
\* appended, cut, trimmed or written by the program in between.
Sentinel == \A a \in Live : heap[a].data[heap[a].room] = NUL

\* No byte below the length is one nobody wrote, so that reading a strick as a
\* string never reads what malloc, or an abandoned vsnprintf, left there.
TextInitialised ==
  \A a \in Live : \A i \in 0..(heap[a].len - 1) : At(heap[a].data, i) # Junk

\* Every call stays inside its block, and gives memory back to the family of
\* functions it came from.
NoFault == faults = {}

\* Each variable holds a live block of its own and no block is lost: realloc's
\* moves and stx_resize's malloc, copy, free leave no stale pointer and no leak.
OneOwner ==
  /\ \A v \in Holding : ptr[v] \in Live
  /\ \A v, w \in Holding : ptr[v] = ptr[w] => v = w
  /\ \A a \in Live : \E v \in Holding : ptr[v] = a

\* A call on one variable leaves every other variable's strick as it was, dup's
\* copy and its source included.
NoInterference ==
  [][ \A w \in Holding \ {ret'.v} : ptr'[w] = ptr[w] /\ After(w) = Strick(w) ]_vars

Reporting == {"append", "append_fmt", "append_strict", "append_fmt_strict", "resize"}

\* A call that reports failure, 0 or negative, has moved nothing and changed no
\* string, length or capacity: also stx_append_fmt_strict, which has by then
\* written to the strick, and grow, whose realloc may have failed.
FailureChangesNothing ==
  [][ ret'.op \in Reporting /\ ret'.rc <= 0 =>
        /\ ptr' = ptr
        /\ \A v \in Holding : /\ stx_equal(Strick(v), After(v))
                             /\ Strick(v).cap = After(v).cap ]_vars

\* What the README's stx_resize example does: a strict append that returned -n
\* fits exactly once the strick is resized to n.
RetryFits ==
  [][ /\ ret.op \in {"append_strict", "append_fmt_strict"} /\ ret.rc < 0
      /\ ret'.op = "resize" /\ ret'.rc = 1 /\ ret'.v = ret.v /\ ret'.n = -ret.rc
      => After(ret.v).cap - After(ret.v).len = ret.n ]_vars
=============================================================================
