---------------------------- MODULE StringPromise ----------------------------
(***************************************************************************)
(* What src/stx.c promises about a strick, with no header, block or heap:  *)
(* a variable holds a string of known length and a capacity, and each call *)
(* does to them what the function is for, or nothing at all.               *)
(*                                                                         *)
(* Two things the code does are written into the promise, because a caller *)
(* has to live with them.  A string that grows past SMALL_MAX loses its    *)
(* first byte, and may lose those from the seventh on (Carried).  A string *)
(* whose terminator the program overwrote is "loose": its length is the    *)
(* recorded one until stx_adjust finds out.                                *)
(***************************************************************************)
EXTENDS Integers, Sequences, SequencesExt

CONSTANTS Var, Byte, NUL, Space, Texts, SMALL_MAX, MaxCap, Caps, UserBytes, NULL

VARIABLES
  str,    \* what each variable says: a sequence of bytes, or NULL
  cap,    \* its capacity
  loose,  \* the variables whose terminator the program has overwritten
  ret     \* the last call, as in Stricks

vars == <<str, cap, loose, ret>>

Holds(v) == str[v] # NULL
Returns(op, v, rc, n) == ret' = [op |-> op, v |-> v, rc |-> rc, n |-> n]

Becomes(v, s, c) == str' = [str EXCEPT ![v] = s] /\ cap' = [cap EXCEPT ![v] = c]
Unchanged == UNCHANGED <<str, cap, loose>>

-----------------------------------------------------------------------------
Create(op, v, s, c, n) ==
  /\ \/ Returns(op, v, 1, n) /\ Becomes(v, s, c) /\ UNCHANGED loose
     \/ Returns(op, v, 0, n) /\ Unchanged
  /\ ~Holds(v)

New(v, c)    == Create("new", v, <<>>, c, c)
From(v, src) == Create("from", v, src, Len(src), Len(src))
Dup(v, w)    == Holds(w) /\ Create("dup", v, str[w], Len(str[w]), Len(str[w]))

\* What is left of s, as r, when its capacity goes from c to twice the length n.
Carried(s, r, c, n) ==
  /\ Len(r) = Len(s)
  /\ \A i \in DOMAIN s : r[i] = s[i] \/ (i \notin 2..6 /\ c <= SMALL_MAX /\ 2 * n > SMALL_MAX)

\* In place when it fits, else with twice the capacity needed, else not at all.
Extend(op, v, src) ==
  LET n == Len(str[v]) + Len(src) IN
  /\ Holds(v)
  /\ \/ /\ Returns(op, v, n, Len(src))
        /\ n <= cap[v]
        /\ Becomes(v, str[v] \o src, cap[v])
        /\ loose' = loose \ {v}
     \/ /\ Returns(op, v, n, Len(src))
        /\ n > cap[v]
        /\ \E s \in {SubSeq(str'[v], 1, Len(str[v]))} :
             Carried(str[v], s, cap[v], n) /\ Becomes(v, s \o src, 2 * n)
        /\ loose' = loose \ {v}
     \/ /\ Returns(op, v, 0, Len(src))
        /\ n > cap[v] \/ op = "append_fmt"
        /\ Unchanged

\* In place or not at all.
Strict(op, v, src) ==
  LET n == Len(str[v]) + Len(src) IN
  /\ Holds(v)
  /\ \/ /\ Returns(op, v, n, Len(src))
        /\ n <= cap[v]
        /\ Becomes(v, str[v] \o src, cap[v])
        /\ loose' = loose \ {v}
     \/ /\ Returns(op, v, -n, Len(src))
        /\ n > cap[v]
        /\ UNCHANGED <<str, cap>>
        /\ loose' \in {loose, loose \ {v}}

\* stx_append_fmt_strict also has 0 to say: no room at all, or a format error.
StrictFmt(v, src) ==
  \/ Strict("append_fmt_strict", v, src)
  \/ /\ Holds(v)
     /\ Returns("append_fmt_strict", v, 0, Len(src))
     /\ UNCHANGED <<str, cap>>
     /\ loose' = IF Len(str[v]) = cap[v] THEN loose ELSE loose \ {v}

Resize(v, c) ==
  /\ Holds(v)
  /\ \/ /\ Returns("resize", v, 1, c)
        /\ Becomes(v, IF c < Len(str[v]) THEN SubSeq(str[v], 1, c) ELSE str[v], c)
        /\ loose' \in {loose, loose \ {v}}
     \/ Returns("resize", v, 0, c) /\ Unchanged

Reset(v) ==
  /\ Returns("reset", v, 1, 0)
  /\ Holds(v)
  /\ Becomes(v, <<>>, cap[v])
  /\ loose' = loose \ {v}

\* The string up to its first NUL; a loose one runs on, no further than cap.
Adjust(v) ==
  /\ Returns("adjust", v, 1, 0)
  /\ Holds(v)
  /\ UNCHANGED cap
  /\ \E n \in 0..cap[v] :
       /\ \A i \in 1..Len(str[v]) : i <= n => str[v][i] # NUL
       /\ IF n < Len(str[v]) THEN str[v][n + 1] = NUL /\ str'[v] = SubSeq(str[v], 1, n)
          ELSE /\ Len(str'[v]) = n /\ IsPrefix(str[v], str'[v])
               /\ n > Len(str[v]) => v \in loose /\ NUL \notin ToSet(str'[v])
  /\ \A w \in Var \ {v} : str'[w] = str[w]
  /\ loose' = loose \ {v}

\* Spaces off both ends, and only spaces.
Trim(v) ==
  /\ Returns("trim", v, 1, 0)
  /\ Holds(v) /\ v \notin loose
  /\ \E i \in 1..(Len(str[v]) + 1) : \E j \in (i - 1)..Len(str[v]) :
       LET kept == SubSeq(str[v], i, j) IN
       /\ \A k \in 1..Len(str[v]) : k < i \/ k > j => str[v][k] \in Space
       /\ kept # <<>> => Head(kept) \notin Space /\ Last(kept) \notin Space
       /\ Becomes(v, kept, cap[v])
  /\ UNCHANGED loose

Free(v) ==
  /\ Returns("free", v, 1, 0)
  /\ Holds(v)
  /\ Becomes(v, NULL, 0)
  /\ loose' = loose \ {v}

Write(v, i, c) ==
  /\ Holds(v) /\ i < cap[v]
  /\ Returns("user_write", v, 1, 0)
  /\ UNCHANGED cap
  /\ str' = [str EXCEPT ![v] = IF i < Len(@) THEN [@ EXCEPT ![i + 1] = c] ELSE @]
  /\ loose' = IF i # Len(str[v]) THEN loose
              ELSE IF c = NUL THEN loose \ {v} ELSE loose \cup {v}

-----------------------------------------------------------------------------
Init ==
  /\ str = [v \in Var |-> NULL]
  /\ cap = [v \in Var |-> 0]
  /\ loose = {}
  /\ ret = [op |-> "init", v |-> NULL, rc |-> 0, n |-> 0]

\* What the call that just returned, on variable v, may have done.
Call(op, v) ==
  \/ op = "new" /\ \E c \in Caps : New(v, c)
  \/ op = "from" /\ \E src \in Texts : From(v, src)
  \/ op = "dup" /\ \E w \in Var : Dup(v, w)
  \/ op \in {"append", "append_fmt"} /\ \E src \in Texts : Extend(op, v, src)
  \/ op = "append_strict" /\ \E src \in Texts : Strict(op, v, src)
  \/ op = "append_fmt_strict" /\ \E src \in Texts : StrictFmt(v, src)
  \/ op = "resize" /\ \E c \in Caps : Resize(v, c)
  \/ op = "user_write" /\ \E i \in 0..MaxCap, c \in UserBytes : Write(v, i, c)
  \/ op = "reset" /\ Reset(v)
  \/ op = "adjust" /\ Adjust(v)
  \/ op = "trim" /\ Trim(v)
  \/ op = "free" /\ Free(v)

Next == ret'.v \in Var /\ Call(ret'.op, ret'.v)

Spec == Init /\ [][Next]_vars
=============================================================================
