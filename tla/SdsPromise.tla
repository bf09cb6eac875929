----------------------------- MODULE SdsPromise -----------------------------
(***************************************************************************)
(* What SDS promises, with no header, layout or heap: a variable holds a   *)
(* string and some free space behind it, and a call does to them what it   *)
(* is for, or, when it needs memory, nothing at all.                       *)
(***************************************************************************)
EXTENDS Integers, Sequences, SequencesExt

CONSTANTS Var, Byte, NUL, Texts, Sizes, Offsets, UserBytes, Maps, Formats, CharSets,
          Lower, Upper, Numbers, Base, Digit, Minus, SDS_MAX_PREALLOC, NULL

VARIABLES
  str,    \* what each variable says, or NULL
  spare,  \* the free space behind it
  ret     \* the last call, as in Sds

vars == <<str, spare, ret>>

Holds(v) == str[v] # NULL
Does(op, v) == ret'.op = op /\ ret'.v = v /\ ret'.res = "ok"
Becomes(v, s, room) == str' = [str EXCEPT ![v] = s] /\ spare' = [spare EXCEPT ![v] = room]

\* NULL, and nothing has changed.
Fails(op, v) == ret' = [op |-> op, v |-> v, res |-> "null"] /\ UNCHANGED <<str, spare>>

\* The text up to its first NUL.
UpToNul(s) == CHOOSE t \in {SubSeq(s, 1, n) : n \in 0..Len(s)} :
  NUL \notin ToSet(t) /\ (Len(t) < Len(s) => s[Len(t) + 1] = NUL)

-----------------------------------------------------------------------------
Create(op, v, s) ==
  /\ ~Holds(v)
  /\ \/ Does(op, v) /\ Becomes(v, s, 0)
     \/ Fails(op, v)

\* s is the decimal numeral of n.
IsNumeral(s, n) ==
  LET digits == IF n < 0 THEN Tail(s) ELSE s
      Value(f) == FoldLeft(LAMBDA sum, d : Base * sum + d, 0, f)
  IN /\ n < 0 => Head(s) = Minus
     /\ digits # <<>> /\ (Head(digits) = Digit[0] => Len(digits) = 1)
     /\ \E f \in [1..Len(digits) -> 0..(Base - 1)] :
          /\ \A i \in DOMAIN f : Digit[f[i]] = digits[i]
          /\ Value(f) = (IF n < 0 THEN -n ELSE n)

FromNumber(v, n) ==
  /\ ~Holds(v)
  /\ \/ Does("number", v) /\ IsNumeral(str'[v], n) /\ Becomes(v, str'[v], 0)
     \/ Fails("number", v)

\* Bytes that nobody wrote hold anything.
Uninitialised(v, n) ==
  /\ ~Holds(v)
  /\ \/ Does("noinit", v) /\ str'[v] \in [1..n -> Byte] /\ Becomes(v, str'[v], 0)
     \/ Fails("noinit", v)

\* The free space behind a string that had to grow to n bytes: as much again, so
\* that appending is cheap, but no more than SDS_MAX_PREALLOC.
Prealloc(n) == IF n < SDS_MAX_PREALLOC THEN n ELSE SDS_MAX_PREALLOC

\* s is added to the string: in the free space when it fits there.
Extend(op, v, s) ==
  LET n == Len(str[v]) + Len(s) IN
  /\ Holds(v)
  /\ \/ /\ Does(op, v) /\ Len(s) <= spare[v]
        /\ Becomes(v, str[v] \o s, spare[v] - Len(s))
     \/ Does(op, v) /\ Len(s) > spare[v] /\ Becomes(v, str[v] \o s, Prealloc(n))
     \/ Len(s) > spare[v] /\ Fails(op, v)

\* Printing may need memory for itself.
Printf(v, s) == Extend("catprintf", v, UpToNul(s)) \/ (Holds(v) /\ Fails("catprintf", v))

Format(v, pieces) ==
  /\ Holds(v)
  /\ \/ Does("catfmt", v) /\ str' = [str EXCEPT ![v] = @ \o FlattenSeq(pieces)]
     \/ ret' = [op |-> "catfmt", v |-> v, res |-> "crash"] /\ UNCHANGED str
  /\ \A w \in Var \ {v} : spare'[w] = spare[w]

\* The string becomes s, which is shorter: the rest is free space, unless this is
\* a small string that forgets it.
Shorten(op, v, s) ==
  /\ Holds(v) /\ Does(op, v)
  /\ \/ Becomes(v, s, spare[v] + Len(str[v]) - Len(s))
     \/ spare[v] = 0 /\ Becomes(v, s, 0)

Copy(op, v, s) ==
  \/ Holds(v) /\ Len(s) <= Len(str[v]) + spare[v] /\ Shorten(op, v, s)
  \/ /\ Holds(v) /\ Len(s) > Len(str[v]) + spare[v]
     /\ \/ Does(op, v) /\ Becomes(v, s, Prealloc(Len(s)))
        \/ Fails(op, v)

MakeRoom(v, n) ==
  /\ Holds(v)
  /\ \/ Does("make_room", v) /\ n <= spare[v] /\ UNCHANGED <<str, spare>>
     \/ /\ n > spare[v]
        /\ \/ Does("make_room", v) /\ Becomes(v, str[v], n + Prealloc(Len(str[v]) + n))
           \/ Fails("make_room", v)

RemoveFree(v) ==
  /\ Holds(v)
  /\ \/ Does("remove_free", v) /\ Becomes(v, str[v], 0)
     \/ spare[v] > 0 /\ Fails("remove_free", v)

GrowZero(v, n) ==
  \/ Holds(v) /\ n <= Len(str[v]) /\ Does("growzero", v) /\ UNCHANGED <<str, spare>>
  \/ Holds(v) /\ n > Len(str[v]) /\ Extend("growzero", v, [i \in 1..(n - Len(str[v])) |-> NUL])

\* What the program read into the free space is part of the string.
TakeIn(v, s) ==
  Holds(v) /\ s # <<>> /\ Len(s) <= spare[v] /\ Extend("incr_len", v, s)

TakeOff(v, n) ==
  Holds(v) /\ n \in 1..Len(str[v]) /\ Shorten("incr_len", v, SubSeq(str[v], 1, Len(str[v]) - n))

\* Chars of cset (and NULs, as strchr finds them everywhere) off both ends, and
\* nothing else.
Trim(v, cset) ==
  /\ Holds(v) /\ Does("trim", v)
  /\ \E i \in 1..(Len(str[v]) + 1) : \E j \in (i - 1)..Len(str[v]) :
       LET kept == SubSeq(str[v], i, j) IN
       /\ \A k \in 1..Len(str[v]) : k < i \/ k > j => str[v][k] \in cset \cup {NUL}
       /\ kept # <<>> => {Head(kept), Last(kept)} \cap (cset \cup {NUL}) = {}
       /\ Shorten("trim", v, kept)

\* The chars from start to end, both included; a negative one counts from the end
\* of the string, and one before its beginning means the first char.
Slice(v, start, end) ==
  LET len == Len(str[v])
      from == IF start < 0 THEN start + len ELSE start
      to == IF end < 0 /\ end + len >= 0 THEN end + len ELSE IF end < 0 THEN 0 ELSE end
      kept == SelectSeq([i \in 1..len |-> <<i - 1, str[v][i]>>],
                        LAMBDA c : from <= c[1] /\ c[1] <= to)
  IN Shorten("range", v, [i \in DOMAIN kept |-> kept[i][2]])

Keeps(op, v, s) == Holds(v) /\ Does(op, v) /\ str' = [str EXCEPT ![v] = s] /\ UNCHANGED spare

Map(v, from, to) ==
  /\ Holds(v) /\ Does("mapchars", v)
  /\ \E s \in {str'[v]} :
       /\ DOMAIN s = DOMAIN str[v]
       /\ \A i \in DOMAIN s :
            \/ str[v][i] \notin ToSet(from) /\ s[i] = str[v][i]
            \/ \E k \in DOMAIN from : /\ from[k] = str[v][i] /\ s[i] = to[k]
                                      /\ str[v][i] \notin ToSet(SubSeq(from, 1, k - 1))
       /\ Keeps("mapchars", v, s)

-----------------------------------------------------------------------------
Init ==
  /\ str = [v \in Var |-> NULL]
  /\ spare = [v \in Var |-> 0]
  /\ ret = [op |-> "init", v |-> NULL, res |-> "ok"]

\* What the call that just returned, on variable v, may have done.
Call(op, v) ==
  \/ op = "newlen" /\ \E s \in Texts : Create(op, v, s)
  \/ op = "new" /\ \E s \in Texts : Create(op, v, UpToNul(s))
  \/ op = "newlen_zero" /\ \E n \in Sizes : Create(op, v, [i \in 1..n |-> NUL])
  \/ op = "noinit" /\ \E n \in Sizes : Uninitialised(v, n)
  \/ op = "empty" /\ Create(op, v, <<>>)
  \/ op = "dup" /\ \E w \in Var : Holds(w) /\ Create(op, v, str[w])
  \/ op = "number" /\ \E n \in Numbers : FromNumber(v, n)
  \/ op = "free" /\ Holds(v) /\ Does(op, v) /\ Becomes(v, NULL, 0)
  \/ op = "make_room" /\ \E n \in Sizes : MakeRoom(v, n)
  \/ op = "remove_free" /\ RemoveFree(v)
  \/ op = "catlen" /\ \E s \in Texts : Extend(op, v, s)
  \/ op = "cat" /\ \E s \in Texts : Extend(op, v, UpToNul(s))
  \/ op = "catsds" /\ \E w \in Var \ {v} : Holds(w) /\ Extend(op, v, str[w])
  \/ op = "catprintf" /\ \E s \in Texts : Printf(v, s)
  \/ op = "catfmt" /\ \E f \in Formats : Format(v, [i \in DOMAIN f |-> f[i].text])
  \/ op = "growzero" /\ \E n \in Sizes : GrowZero(v, n)
  \/ op = "incr_len" /\ ((\E s \in Texts : TakeIn(v, s)) \/ (\E n \in Sizes : TakeOff(v, n)))
  \/ op = "user_write" /\ Holds(v) /\ \E i \in Sizes, c \in UserBytes :
       i < Len(str[v]) /\ Keeps(op, v, [str[v] EXCEPT ![i + 1] = c])
  \/ op = "updatelen" /\ Holds(v) /\ Shorten(op, v, UpToNul(str[v]))
  \/ op = "clear" /\ Shorten(op, v, <<>>)
  \/ op = "cpylen" /\ \E s \in Texts : Copy(op, v, s) \/ Copy(op, v, UpToNul(s))
  \/ op = "trim" /\ \E cset \in CharSets : Trim(v, cset)
  \/ op = "range" /\ Holds(v) /\ \E start, end \in Offsets : Slice(v, start, end)
  \/ op = "tolower" /\ Holds(v) /\ Keeps(op, v, [i \in DOMAIN str[v] |-> Lower[str[v][i]]])
  \/ op = "toupper" /\ Holds(v) /\ Keeps(op, v, [i \in DOMAIN str[v] |-> Upper[str[v][i]]])
  \/ op = "mapchars" /\ \E m \in Maps : Map(v, m.from, m.to)

Next == ret'.v \in Var /\ Call(ret'.op, ret'.v)

Spec == Init /\ [][Next]_vars
=============================================================================
