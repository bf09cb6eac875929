----------------------------- MODULE SplitJoin -----------------------------
(***************************************************************************)
(* Split a text on a separator, join the parts, free the list: the round   *)
(* trip the unit tests and the benchmark make with both libraries.  "stx"  *)
(* is stx_split_len, stx_join_len and stx_list_free of src/stx.c, "sds" is *)
(* sdssplitlen, sdsjoinsds and sdsfreesplitres of bench/sds/sds.c.         *)
(*                                                                         *)
(* What the parts say is modelled here.  Of the array that stx keeps its   *)
(* list in, which is SplitList's subject, there is what the round trip has *)
(* to answer for: where it is, how large, and what stays allocated.  A     *)
(* text is a sequence of bytes without its terminator.                     *)
(***************************************************************************)
EXTENDS Integers, Sequences, SequencesExt, FiniteSetsExt

CONSTANTS
  Byte,         \* the chars of a text
  Inputs,       \* what is split: records of a buffer src, the len passed, and sep
  Libs,         \* subset of {"stx", "sds"}
  LIST_LOCAL_MAX, LIST_POOL_MAX,  \* stx: cells of the array on the stack, of the static one
  MaxFailures,  \* BOUND: how many allocations fail
  NUL, Junk,    \* the char 0, and a byte nobody wrote
  NULL          \* the null pointer, as a list, a part or a joined text

ASSUME InputsAssumption ==
  /\ Inputs \subseteq [src : Seq(Byte), len : Nat, sep : Seq(Byte \ {NUL})]
  /\ \A i \in Inputs : i.len <= Len(i.src)
ASSUME LibsAssumption == Libs \subseteq {"stx", "sds"} /\ MaxFailures \in Nat
ASSUME ListMaxAssumption == /\ LIST_LOCAL_MAX \in Nat /\ LIST_LOCAL_MAX >= 2
                            /\ LIST_POOL_MAX \in Nat /\ LIST_POOL_MAX > LIST_LOCAL_MAX
ASSUME NullAssumption == NULL \notin Seq(Byte) /\ NULL \notin Seq(Seq(Byte) \cup {NULL})
ASSUME JunkAssumption == Junk \notin Byte

VARIABLES
  lib, src, len, sep,  \* which library, and the input
  pc,                  \* what comes next
  at,                  \* how many bytes of the text have been searched
  beg,                 \* where the current part begins
  parts,               \* the list so far, or NULL
  slots,               \* how many parts its array has room for: slots, listmax
  list,                \* stx: on the stack, in the pool, at list_dyn, or moved from there
  joined,              \* the joined text, or NULL
  live,                \* how many blocks are allocated: arrays, parts, joined texts
  failures             \* how many allocations have failed

input == <<lib, src, len, sep>>
vars == <<input, pc, at, beg, parts, slots, list, joined, live, failures>>

-----------------------------------------------------------------------------
(* Texts.                                                                  *)

\* What strlen and strstr see of a buffer.
CString(s) ==
  LET ends == {i \in DOMAIN s : s[i] = NUL}
  IN IF ends = {} THEN s ELSE SubSeq(s, 1, Min(ends) - 1)

\* n bytes from s + i.
Bytes(s, i, n) == SubSeq(s, i + 1, i + n)
Matches(s, i, t) == i + Len(t) <= Len(s) /\ Bytes(s, i, Len(t)) = t
Found(s, i, t) == {j \in i..Len(s) : Matches(s, j, t)}

\* The texts of the tests and the benchmark: a word and a separator, n times.
str_cat(a, b) == a \o b
str_nchar(c, n) == [i \in 1..n |-> c]
str_repeat(pat, n) == FlattenSeq([i \in 1..n |-> pat])
Pattern(word, separator, n) == str_repeat(str_cat(word, separator), n)

\* stx_split passes the lengths itself.
stx_split(s, separator) == [src |-> s, len |-> Len(CString(s)), sep |-> separator]

Fails == failures < MaxFailures /\ failures' = failures + 1
Faults == pc' = "fault" /\ UNCHANGED <<at, beg, parts, slots, list, joined, live, input>>

OnHeap == {"dyn", "moved"}

Init ==
  /\ lib \in Libs
  /\ \E i \in Inputs : src = i.src /\ len = i.len /\ sep = i.sep
  /\ pc = "call" /\ at = 0 /\ beg = 0 /\ parts = <<>> /\ slots = 0 /\ list = "local"
  /\ joined = NULL /\ live = 0 /\ failures = 0

\* Behind a separator that is at j.
Behind(j) == j + Len(sep)

-----------------------------------------------------------------------------
(* stx_split_len.                                                          *)

StxCall ==
  /\ lib = "stx" /\ pc = "call"
  /\ \/ sep = <<>> /\ parts' = NULL /\ pc' = "join"
     \/ sep # <<>> /\ pc' = "split" /\ UNCHANGED parts
  /\ slots' = LIST_LOCAL_MAX
  /\ UNCHANGED <<at, beg, list, joined, live, failures, input>>

\* -2 : last part + sentinel
ListCramped == Len(parts) >= slots - 2

\* A separator is found and the list is full: it moves to the pool, from there to an
\* array from malloc, and realloc widens that, where it is or somewhere else.
\* list_dyn keeps the first address, to which a later realloc may come back.
StxWiden ==
  /\ lib = "stx" /\ pc = "split" /\ Found(CString(src), at, sep) # {} /\ ListCramped
  /\ \/ list = "local" /\ list' = "pool" /\ slots' = LIST_POOL_MAX
        /\ UNCHANGED <<pc, parts, live, failures>>
     \/ list = "pool" /\ list' = "dyn" /\ slots' = 2 * slots /\ live' = live + 1
        /\ UNCHANGED <<pc, parts, failures>>
     \/ list \in OnHeap /\ list' \in OnHeap /\ slots' = 2 * slots
        /\ UNCHANGED <<pc, parts, live, failures>>
     \/ list # "local" /\ Fails /\ parts' = NULL /\ pc' = "join"  \* cnt = 0; goto fin
        /\ UNCHANGED <<slots, list, live>>
  /\ UNCHANGED <<at, beg, joined, input>>

\* The part from beg on, n bytes, is stored: NULL when it cannot be made.
AddPart(n) ==
  \/ parts' = Append(parts, Bytes(src, beg, n)) /\ live' = live + 1 /\ UNCHANGED failures
  \/ parts' = Append(parts, NULL) /\ Fails /\ UNCHANGED live

StxPart ==
  LET found == Found(CString(src), at, sep) IN
  /\ lib = "stx" /\ pc = "split" /\ found # {} /\ ~ListCramped
  /\ AddPart(Min(found) - beg)
  /\ at' = Behind(Min(found)) /\ beg' = Behind(Min(found))
  /\ UNCHANGED <<pc, slots, list, joined, input>>

\* What len leaves behind the last separator.  When that is less than nothing the
\* part's length wraps, its block's size as well, and memcpy runs away.
StxLast ==
  /\ lib = "stx" /\ pc = "split" /\ Found(CString(src), at, sep) = {}
  /\ \/ /\ len >= beg /\ AddPart(len - beg) /\ pc' = "return"
        /\ UNCHANGED <<at, beg, slots, list, joined, input>>
     \/ len < beg /\ Faults /\ UNCHANGED failures

\* Mutant: the array that list_dyn names is copied as well, and stays behind.
StxReturn_copied ==
  /\ lib = "stx" /\ pc = "return" /\ pc' = "join" /\ live' = live + 1
  /\ UNCHANGED <<at, beg, parts, slots, list, joined, failures, input>>

\* The caller gets the array that list_dyn names, if it is still the list; else a copy,
\* and an array that moved stays behind.  Without memory for the copy the parts are lost.
StxReturn ==
  /\ lib = "stx" /\ pc = "return" /\ pc' = "join"
  /\ \/ list = "dyn" /\ UNCHANGED <<parts, live, failures>>
     \/ list # "dyn" /\ live' = live + 1 /\ UNCHANGED <<parts, failures>>
     \/ list # "dyn" /\ parts' = NULL /\ Fails /\ UNCHANGED live
  /\ UNCHANGED <<at, beg, slots, list, joined, input>>

-----------------------------------------------------------------------------
(* sdssplitlen.                                                            *)

\* No separator, no text, or no memory for the array of five.
SdsCall ==
  /\ lib = "sds" /\ pc = "call"
  /\ \/ sep = <<>> /\ parts' = NULL /\ pc' = "join" /\ UNCHANGED <<slots, live, failures>>
     \/ sep # <<>> /\ parts' = NULL /\ pc' = "join" /\ Fails /\ UNCHANGED <<slots, live>>
     \/ /\ sep # <<>> /\ slots' = 5 /\ live' = live + 1
        /\ pc' = (IF len = 0 THEN "join" ELSE "split") /\ UNCHANGED <<parts, failures>>
  /\ UNCHANGED <<at, beg, list, joined, input>>

\* Mutants: the cleanup forgets a token; it frees the one that could not be made.
Freed_less == IF parts = <<>> THEN 1 ELSE Len(parts)
Freed_more == Len(parts) + 2

\* cleanup: the tokens and their array.
Freed == Len(parts) + 1

Cleanup ==
  /\ Fails /\ live' = live - Freed /\ parts' = NULL /\ pc' = "join"
  /\ UNCHANGED <<at, beg, slots, list, joined, input>>

\* Mutant: room for the next element, and none for the final one.
Cramped_late == slots < Len(parts) + 1
Cramped == slots < Len(parts) + 2

\* Mutant: a separator at the very end is not found.
Searching_less == lib = "sds" /\ pc = "split" /\ at < len - Len(sep)
Searching == lib = "sds" /\ pc = "split" /\ at < len - (Len(sep) - 1)

\* Mutant: a loop without its j++.
Onward_not(j) == j
Onward(j) == j + 1

\* One turn of the loop: room, and a token if the separator is here.
SdsTurn ==
  /\ Searching
  /\ slots' = IF Cramped THEN 2 * slots ELSE slots
  /\ \/ /\ ~Matches(src, at, sep)
        /\ at' = Onward(at) /\ UNCHANGED <<beg, parts, live>>
     \/ /\ Matches(src, at, sep)
        /\ parts' = Append(parts, Bytes(src, beg, at - beg)) /\ live' = live + 1
        /\ at' = Behind(at) /\ beg' = Behind(at)
  /\ UNCHANGED <<pc, list, joined, failures, input>>

SdsTurn_fails == Searching /\ (Cramped \/ Matches(src, at, sep)) /\ Cleanup

SdsLast ==
  /\ lib = "sds" /\ pc = "split" /\ ~Searching
  /\ \/ /\ parts' = Append(parts, Bytes(src, beg, len - beg)) /\ live' = live + 1
        /\ pc' = "join" /\ UNCHANGED <<at, beg, slots, list, joined, failures, input>>
     \/ Cleanup

-----------------------------------------------------------------------------
(* Join and free.                                                          *)

Count == IF parts = NULL THEN 0 ELSE Len(parts)

\* Mutant: separator and part are copied in the wrong order.
Written_swapped == FlattenSeq([i \in 1..Count |-> (IF i < Count THEN sep ELSE <<>>) \o parts[i]])

\* The parts with the separator between them.
Written == FlattenSeq([i \in 1..Count |-> parts[i] \o (IF i < Count THEN sep ELSE <<>>)])

totlen ==
  LET sum[i \in 0..Count] == IF i = 0 THEN (Count - 1) * Len(sep) ELSE sum[i - 1] + Len(parts[i])
  IN sum[Count]

\* No list, a part that is NULL, or no memory: a null or wild pointer is used.
StxJoin_faults ==
  /\ lib = "stx" /\ pc = "join" /\ Faults
  /\ \/ Count = 0 /\ UNCHANGED failures
     \/ Count > 0 /\ NULL \in ToSet(parts) /\ UNCHANGED failures
     \/ Count > 0 /\ NULL \notin ToSet(parts) /\ Fails

\* The copies go to a block of totlen; what they do not reach nobody wrote.
StxJoin ==
  /\ lib = "stx" /\ pc = "join" /\ Count > 0 /\ NULL \notin ToSet(parts)
  /\ \/ /\ Len(Written) <= totlen /\ pc' = "free" /\ live' = live + 1
        /\ joined' = Written \o [i \in 1..(totlen - Len(Written)) |-> Junk]
        /\ UNCHANGED <<at, beg, parts, slots, list, input>>
     \/ Len(Written) > totlen /\ Faults
  /\ UNCHANGED failures

\* sdsempty and sdscatsds, sdscatlen in turn.  One that fails makes the next read
\* through NULL; after the last one NULL is the answer, and the string so far lost.
SdsJoin ==
  /\ lib = "sds" /\ pc = "join"
  /\ \/ /\ joined' = Written /\ pc' = "free" /\ live' = live + 1
        /\ UNCHANGED <<at, beg, parts, slots, list, failures, input>>
     \/ /\ Fails /\ pc' = "free" /\ live' = (IF Count = 0 THEN live ELSE live + 1)
        /\ UNCHANGED <<at, beg, parts, slots, list, joined, input>>
     \/ Count > 0 /\ Fails /\ Faults

\* stx_list_free, sdsfreesplitres: the parts and their array, if there is one.
Listed == IF parts = NULL THEN 0 ELSE Count + 1

Free ==
  /\ pc = "free" /\ live' = live - Listed /\ parts' = NULL /\ pc' = "done"
  /\ UNCHANGED <<at, beg, slots, list, joined, failures, input>>

-----------------------------------------------------------------------------
Step ==
  \/ StxCall \/ StxWiden \/ StxPart \/ StxLast \/ StxReturn
  \/ SdsCall \/ SdsTurn \/ SdsTurn_fails \/ SdsLast
  \/ StxJoin_faults \/ StxJoin \/ SdsJoin \/ Free

Next == Step \/ (pc \in {"done", "fault"} /\ UNCHANGED vars)

\* One thread runs the calls to their end.
Spec == Init /\ [][Next]_vars /\ WF_vars(Step)

-----------------------------------------------------------------------------
(* What makes the round trip correct.                                      *)

\* The shape of the state: a joined text has no byte that nobody wrote.
TypeOK ==
  /\ lib \in Libs /\ src \in Seq(Byte) /\ len \in 0..Len(src) /\ sep \in Seq(Byte \ {NUL})
  /\ pc \in {"call", "split", "return", "join", "free", "done", "fault"}
  /\ {at, beg, slots, live} \subseteq Nat /\ failures \in 0..MaxFailures
  /\ list \in {"local", "pool"} \cup OnHeap
  /\ parts \in Seq(Seq(Byte) \cup {NULL}) \cup {NULL} /\ joined \in Seq(Byte) \cup {NULL}

\* For stx, len is what strlen says, or counts bytes behind a NUL as well.
Measured == lib = "stx" => len >= Len(CString(src))

\* Only a failed allocation, or an empty separator (which makes stx_split_len give
\* no list, and stx_join_len take its last element all the same), ends in undefined
\* behaviour, when the text was measured.  And the array always has "room for the next
\* element and the final one" (sdssplitlen), "last part + sentinel" (stx_split_len).
NoFault ==
  /\ pc = "fault" => failures > 0 \/ (lib = "stx" /\ sep = <<>>) \/ ~Measured
  /\ parts # NULL => Len(parts) <= slots
  /\ pc = "return" => Len(parts) < slots \/ list \notin OnHeap

\* The strings with t between them.
Glued(strings, t) ==
  FlattenSeq([i \in DOMAIN strings |-> strings[i] \o (IF i < Len(strings) THEN t ELSE <<>>)])

\* The string ends where t is first found, when t follows it.
EndsFirst(string, t) == Min(Found(string \o t, 0, t)) = Len(string)

\* strings is the text s cut at t: joined by t it is s again, each string but the
\* last ends where t is first found behind its beginning, and none is found in the
\* last.
IsSplit(strings, s, t) ==
  /\ strings # <<>> /\ s = Glued(strings, t)
  /\ \A i \in 1..(Len(strings) - 1) : EndsFirst(strings[i], t)
  /\ Found(Last(strings), 0, t) = {}

\* Both libraries answer the pieces of the text, from left to right: stx of a C
\* string, sds (which has no pieces for an empty text) of any bytes.
PartsRight ==
  pc = "join" /\ failures = 0 /\ sep # <<>> =>
    IF lib = "sds" /\ len = 0 THEN parts = <<>>
    ELSE Measured /\ (lib = "stx" => NUL \notin ToSet(src)) => IsSplit(parts, SubSeq(src, 1, len), sep)

\* The benchmark's assertion, !strcmp(src, back), and check.c's: what was split and
\* joined is the text again, byte by byte, even with NULs in it.
RoundTrip ==
  pc = "done" /\ failures = 0 /\ sep # <<>> /\ Measured => joined = SubSeq(src, 1, len)

\* A program that has its joined text back and freed its list has nothing else allocated,
\* whichever allocation of sdssplitlen failed before, but for one array, when
\* stx_split_len's list was not at list_dyn any more: of all that was made that one is
\* lost, and with sds, or a list that stayed where it was, nothing.
Released == pc = "done" /\ joined # NULL => live = IF list = "moved" THEN 2 ELSE 1

\* The calls return.
Finishes == <>(pc \in {"done", "fault"})

\* "Core split method with arbitrary lengths" (README): the parts are those of the
\* first srclen bytes.
ArbitraryLengths ==
  pc \in {"join", "fault"} /\ lib = "stx" /\ failures = 0 /\ sep # <<>> =>
    pc = "join" /\ IsSplit(parts, SubSeq(src, 1, len), sep)
=============================================================================
