# A verification of Stricks

Stricks (`src/`) is a C library for strings.  A *strick* is a plain `char*` with
a header in front of it, in one heap block:

    | cap | len | flags | data ... | NUL |

A TYPE1 header has one byte each for `cap` and `len` (capacities up to 255,
`SMALL_MAX`), a TYPE4 header has a `uint32_t` each; `flags` names the type and
sits just before the bytes.  All of the library's core is in `src/src/stx.c`.  The
repository measures it against SDS (`src/bench/sds/`), a library of the same idea with
five layouts, and shows it at work in a small program, the mock forum.

This directory holds TLA+ modules that model all three, the TLC runs that check them,
and proofs that what they check holds for every size: of the library in full, of the
mock forum, and of the invariants of SDS's strings.

## Inventory

| Part | State it keeps | Operations | What is hard | What makes it correct |
|---|---|---|---|---|
| strick (`stx.c`) | per block: type, cap, len, bytes; per caller: a pointer | `stx_new` `stx_from(_len)` `stx_dup` `stx_append(_strict/_fmt/_fmt_strict)` `stx_resize` `stx_reset` `stx_adjust` `stx_trim` `stx_free` | two header layouts and the ways between them, realloc that fails or moves, bytes nobody wrote, programs that write to the bytes themselves, 8- and 32-bit fields | header and block agree, the sentinel stays, text is never uninitialised, nothing is written outside a block, failed calls change nothing, each call does to the string what it is for |
| allocator (`stx.h` macros) | the heap | malloc, realloc, free, redefinable | failing, moving, two families of functions mixed | no leak, no dangling pointer, memory goes back where it came from |
| split and lists (`stx.c`) | a list on the stack, in a static pool, or on the heap; the parts | `stx_split` `stx_split_len` `stx_list_free` | three homes for the list, doubling, failures half-way, one pool for all callers | all parts returned in order, nothing leaked, the list freed whole |
| join (`stx.c`) | the new strick | `stx_join` `stx_join_len` | count 0, a list with a NULL in it, failed allocation | join undoes split |
| assess (`stx.c`) | none | `stx_cap` `stx_len` `stx_spc` `stx_equal` `stx_dbg` | `cap - len` when they disagree | what they report is true |
| mock forum (`ex/example.c`) | the file's rows, one row's columns, a page buffer | load, split, append, flush, reset, free | a post that just fits, or fits no page; short rows; results nobody looks at | every post is sent once and whole, pages are full, everything is freed |
| SDS strings (`bench/sds/sds.c`) | per block: type, len, alloc, bytes; per caller: a pointer | create, append, format, copy, trim, cut, grow, shrink, free | five headers and the ways between them, one of which forgets free space; NULL for a string that must move | as for a strick; and a call that needs no memory does not fail |
| SDS lists and lines (`bench/sds/sds.c`) | an array of tokens | `sdssplitlen` `sdsjoinsds` `sdsfreesplitres` `sdssplitargs` `sdscatrepr` | growth of the array, cleanup half-way, lookahead at the end of a line | reading undoes writing, a refusal frees everything |
| util, tests, benchmarks | | texts for split and join, the round trip | | `split` then `join` is the text |
| log (`log.h`), try (`ex/try.c`) | | | | outside the model: printing, a scratch program |

A program calls the library one function at a time; there are no threads, no
callbacks and nothing is persisted.  What happens between two calls is the
program's: it may write to the bytes (and then owes a `stx_adjust`), drop a
pointer, or call again with what the last call reported.  What happens inside a
call is the allocator's.  The one piece of shared state is the static
`list_pool` of `stx_split_len`.  All of this holds for SDS too, with one difference in
the contract: a strick's variable is passed by reference and a failed call leaves it
alone, while an SDS call returns the string's new address or NULL, and the program must
keep the old pointer for the second case.

## Modules

| Module | Models |
|---|---|
| `Stricks` | every call on single stricks, over a heap |
| `StringPromise` | what those calls promise, with no header, block or heap |
| `StricksImplement` | the refinement mapping from `Stricks` to `StringPromise` |
| `StricksClaims` | statements of the README and the tests that the code does not keep |
| `StricksProofs` | the invariants and action properties of `Stricks`, proved |
| `StricksRefinement` | that it implements `StringPromise`, proved |
| `SplitList` | `stx_split_len` and `stx_list_free`: the list and where it lives |
| `SplitPromise` | what they promise, with no arrays |
| `SplitImplement` | the refinement mapping, and a statement of the README that does not hold |
| `SplitListProofs` | the invariants of `SplitList`, and that it implements `SplitPromise`, proved |
| `SplitJoin` | split, join and free with both libraries: what the parts say |
| `SplitJoinProofs` | the invariants of `SplitJoin`, proved |
| `Pager` | the mock forum |
| `PagerProofs` | the invariants of `Pager`, proved |
| `InductionLemmas` | induction, recursion and `FlattenSeq`, for the proofs |
| `Sds` | every SDS call on single strings, over a heap |
| `SdsProofs` | the invariants of `Sds`, proved |
| `SdsPromise` | what those calls promise, with no header, layout or heap |
| `SdsImplement` | the refinement mapping from `Sds` to `SdsPromise` |
| `SdsArgs` | `sdscatrepr` and `sdssplitargs` |
| `SdsArgsProofs` | the invariants and the action property of `SdsArgs`, proved |
| `MCStricks`, `MCSplit`, `MCSplitJoin`, `MCPager`, `MCSds`, `MCSdsArgs` | values for TLC |

### Stricks

`heap` maps addresses to blocks or `FREE`; `ptr` maps the program's variables to
addresses or `NULL`; `ret` is the last call with its return code, so that a
property can relate what a call reported to what it did; `faults` collects what
C leaves undefined: a write past a block (`"overrun"`), a block given to the
`free` or `realloc` of another family than it came from (`"wrong_family"`).

A block has the header's words (`type`, `cap`, `len`), the allocator's (`room`,
`owner`) and `data[0..room]`.  `cap` and `room` are separate on purpose: `cap` is
what the header says, `room` what malloc or realloc gave.  Numbers go into the
header through `Stored`, which takes them modulo the width of the field.  All
widths follow from `SMALL_MAX`, so that a run with `SMALL_MAX = 2` has 3-valued
bytes and 81-valued "uint32_t"s and meets every boundary within a few bytes.

Each public call is one action and covers the whole function with its helpers:

| Action | Code (`src/src/stx.c`) |
|---|---|
| `stx_new`, `stx_from_len`, `stx_dup` | `new`, `from`, `stx_dup`; malloc may fail (`Create`) |
| `stx_append`, `stx_append_fmt` | in place, grown, or failed; `grow` gives the set of blocks realloc and the copy between layouts can leave |
| `stx_append_strict`, `stx_append_fmt_strict` | in place or not at all; the format has already written when it turns out not to fit |
| `stx_resize` | same type: realloc; other type: malloc, copy, free; or failure |
| `stx_reset`, `stx_adjust`, `stx_trim`, `stx_free` | as named |
| `UserWrite` | the program writes one byte below the capacity (as `adjust` in `check.c` does) |

`Junk` stands for a byte nobody wrote.  It is what malloc returns, what realloc
adds, what a failed `vsnprintf` leaves; `strlen` may take it for a NUL or not
(`stx_adjust`).

`grow` from TYPE1 to TYPE4 is modelled at the level of the bytes it moves.  It
stores the 32-bit capacity before it moves them, and the last byte of that field
is where the TYPE1 layout has `data[0]` (`CapTopByte`: 0 unless the capacity needs
the fourth byte; byte order as on the little-endian machines the code is run on).  The copy
then runs from 3 to 9 bytes into the block: `GAP` is 6, and for more than 5 bytes the ranges
overlap, which C leaves undefined for memcpy; `Shifted` has both a copy that
behaves like memmove and one that goes upwards byte by byte.

Preconditions the code leaves to its callers and the model keeps: a variable that
holds no strick is not used, `stx_trim` is called on a string whose terminator is
in place (`stx_adjust` is documented for the other case), and a source does not
lie inside its destination.

### StringPromise and StricksImplement

`StringPromise` has a sequence of bytes and a capacity per variable and says of
each call what it does to them, or that it does nothing.  It is the specification
a caller would want, but for two things written into it because a caller has to
live with them: what grow does to the first bytes (`Carried`), and strings whose
terminator the program has overwritten (`loose`), whose length only `stx_adjust`
finds.  `StricksImplement` reads each variable's block as text and capacity;
`KeepsPromise` says that every step of `Stricks` is then a step of the promise.

### SplitList

`store` maps every place an array of parts can be in to its cells: `"local"` (the
stack frame, `FREE` outside a call), `"pool"` (the static `list_pool`) and heap
addresses.  `call` is the record of the running call's locals, or `NULL`; `held`
is what the program got back, list and count; `parts` are the stricks that `from`
made and nobody freed.  A part is the number of its call and its place in the
source: what it says is no matter here.

`stx_split_len` runs its loop in steps, since every pass can meet an allocator that fails
or moves:

| Action | Code (`src/src/stx.c`) |
|---|---|
| `Call` | entry; an empty separator returns at once |
| `ToPool`, `ToHeap`, `Widen`, `NoRoom` | a separator is found and the list is full: to the pool, to malloc, to realloc, or failure |
| `AddPart`, `LastPart` | `list[cnt++] = from(..)`; `from` may fail and gives a NULL part |
| `Return`, `NoCopy` | the list itself or a malloc'ed copy, the sentinel, `*outcnt`; or failure |
| `stx_list_free` | frees parts up to the first NULL, then the array |

`call.left` counts the separators still ahead of `end`, which `end += seplen`
moves past (`Past`).  The program is assumed not to overwrite a variable that holds a
list, and not to pass the NULL of a failed call to `stx_list_free` (which would read it).

`SplitPromise` delivers all parts in order, or loses one part or the whole list for
each failed allocation.  `SplitImplement` reads off the array what was asked for, which
parts are missing, and the delivered lists by their count.

### SplitJoin

`SplitList` has the cells of a list and who else uses them; this module has what its parts
say, and what `stx_join_len` makes of it.  The same three calls of SDS stand beside them,
because the benchmark runs them side by side on the same texts.  A behaviour is one round trip: `pc` goes from
`"call"` through `"split"`, `"return"`, `"join"` and `"free"` to `"done"`, or to `"fault"`
where the code uses a NULL or runs off an array.  `at` is `end` (stx) or `j` (sds), `beg` is
`beg` or `start`, `live` counts what is allocated, and `slots` is
the room of the array (`listmax`, `slots`).  For stx `list` says where that is: on the
stack, in the pool, at `list_dyn`, or on the heap but not there, because a realloc moved it
(`"moved"`; a later one may bring it back).  What becomes of the array on return depends on
it: the one at `list_dyn` is handed out, any other is copied, and one that moved stays behind.
The pool's cells and what they hold between calls are left to `SplitList`.

| Action | Code |
|---|---|
| `StxCall`, `StxPart`, `StxLast` | `stx_split_len`: the entry, a turn of its loop, the part behind the last separator |
| `StxWiden` | the list is full (`ListCramped`): to the pool, to malloc, to realloc that moves it or not, or failure |
| `StxReturn` | the list itself, or a copy beside an array that moved; or failure |
| `SdsCall`, `SdsTurn`, `SdsTurn_fails`, `SdsLast` | `sdssplitlen`: the entry, a turn of its loop (one byte on), `cleanup`, the final part |
| `StxJoin`, `StxJoin_faults` | `stx_join_len`, with `Written` the copies and `totlen` the room made for them |
| `SdsJoin` | `sdsjoinsds` |
| `Free` | `stx_list_free`, `sdsfreesplitres` |

`stx_split_len` looks for separators with `strstr`, so for it a text ends at its first NUL;
`sdssplitlen` counts bytes.  The inputs are buffers with NULs in them, too.

### Pager

`main` of `ex/example.c`, a step per call that may fail.  A row is how many columns it has
and how long its post is when `POST_FMT` has formatted it; `Empty` is a row of no bytes.
`page` names the posts on the page by their rows and `len` is `stx_len(page)`, so that the
two can be compared.  `Post` is the first `stx_append_fmt_strict`, which refuses a post
that does not fit (`FitsPage`) or when `vsnprintf` fails, and then leaves no piece of it
behind (`Refused`); `Flush` is the send, the reset and the second attempt.  `live` has the
five things the program allocates.

### Sds

State and style are those of `Stricks`: `heap`, `ptr`, `ret`.  A block has the header's
words (`type`, `len`, `alloc`), the allocator's (`room`) and `data`: the bytes up to and with
the terminator.  What lies between the terminator and the room is never read by any call
and left out.  `Limit` gives the largest length of each type; the code's are 31, 2^8-1,
2^16-1, 2^32-1.

`Widened` is what `sdsMakeRoomFor` makes of a block, and `WithRoom` the three ways a call
that needs room ends: in place, in a block that was moved, or with NULL and nothing
changed.  A call that keeps its type may be moved by `realloc` or not (`Relocated`), one
that changes it always moves.  Every function of `sds.h`'s list that makes or changes a
string is one action.  Some have two, where a parameter decides what they are for:
`sdsnewlen` with bytes, with NULL and with `SDS_NOINIT`; `sdsIncrLen` with a positive and a
negative number.  `sdscatfmt` takes a format as a sequence of pieces (`Put` is a turn of its
loop) and, alone of all, does not look at `sdsMakeRoomFor`'s result: with no memory it
crashes, which ends the behaviour.  `FMT_FACTOR` is its first guess, two bytes for each of
the format; the run sets it to 0, so that the guess is too small and the growth inside
the loop happens.

Preconditions: the program keeps its old pointer when NULL comes back, passes no string to
itself, does not write to the terminator, and gives `sdsIncrLen` no more than there is (an
`assert` of the code).

### SdsPromise and SdsImplement

A variable holds a string and the free space behind it, `spare`, which a program can ask
for (`sdsavail`) and which decides whether a call may fail.  Each call is stated by what
it is for and not by how the code computes it: a number's text by the sum of its digits, a
trim by what was taken off and what the rest begins and ends with, a range by the indices
that are in it.  The promise lets a string forget its free space when it is shortened
(`Shorten`), because type 5 does.  `SdsImplement` reads a variable's block as string and
free space.

### SdsArgs

A behaviour is one call of `sdssplitargs` on a line.  The line is either one that says
`args`, with each argument written by `sdscatrepr`, in single quotes, or plain where it can
be, or any other.  A byte is its number, since the escapes, `isspace`, `isprint` and the
hexadecimal digits are about numbers.  `p` is the byte the lexer is at; `mode` is `inq`, `insq`
and `done` in one; a step is one turn of a loop, lookahead included.  `live` counts the
tokens and the vector.  No allocation is looked at by the code: a NULL that is used is the
outcome `"crash"`.

## Runs

The runs of `Stricks` check for deadlock: there is always a call that can be made.
`split_lists` does not: calls are numbered, and after the last one has returned and its
list is freed the program stops.  Nor does `sds`, where a crash in `sdscatfmt` stops it.  The
others have a step that stutters at their end, and a deadlock anywhere else is an error.

| Run | Instance | Checks |
|---|---|---|
| `one_strick` | 1 variable, 2 addresses, 3 bytes (NUL, a space, a letter), texts of 0 to 2 bytes (binary ones too), `SMALL_MAX` 2, capacities to 6 | `TypeOK`, `Sentinel`, `TextInitialised`, `NoFault`, `FailureChangesNothing`, `RetryFits` |
| `two_stricks` | 2 variables, 3 addresses, 3 bytes, the empty text and one of 2 bytes that begins with a space, NULs written by the program, `SMALL_MAX` 1, capacities to 4 | `HeadTruth`, `OneOwner`, `NoInterference`, `KeepsPromise` |
| `promise_long` | one text of 7 bytes, `SMALL_MAX` 7, capacities to 28 | `KeepsPromise` where grow's copy overlaps itself |
| `split_lists` | 2 variables, 4 addresses, stack array and pool of 3 cells; 0, 2, 4 or 11 separators; 2 calls, 1 failure; fairness | `TypeOK`, `NoFault`, `NothingLost`, `NothingShared`, `KeepsPromise`, `CallsReturn` |
| `round_trip` | all buffers of up to 5 bytes over a letter, the separator's byte and NUL, all strings of up to 6, and the tests' patterns of up to 16 parts; some with a length shorter than the text; separators of 0 to 2 bytes; both libraries; stx's list of 3 cells on the stack and 4 in the pool; 1 failure; fairness | `TypeOK`, `NoFault`, `PartsRight`, `RoundTrip`, `Released`, `Finishes` |
| `pager` | all files of up to 5 rows with posts of 1/4, 1/2, 1 and more than 1 page or empty, and of 3 rows with short ones; 2 failures | `TypeOK`, `WholePosts`, `AllSent`, `PagesFull`, `NothingLeft`, `NoFault` |
| `sds` | 2 variables, 3 addresses, 4 bytes, one text with a NUL in it, types with limits 1, 2, 3, 4, a heap of 5 bytes, binary numerals of 2 bits | `TypeOK`, `HeadTruth`, `Terminated`, `OneOwner`, `KeepsPromise` |
| `sds_args` | lists of no, one (up to 3 bytes) and two arguments over 14 bytes, all lines of up to 5 of 8 bytes; 1 failure | `TypeOK`, `InLine`, `NothingLost`, `RoundTrip`, `PlainTokens`, `Advances` |
| `claim_*` | small | one claim each, refuted |

Bounds.  `MaxCap` caps the capacities asked for and grown to; it is the only
bound on behaviours, everything else is finite because capacities are.  With
`SMALL_MAX` 2 and `MaxCap` 6, blocks lie on both sides of the type boundary, grow
passes it (2 to 4 and 6) and goes on beyond it, and shrinking resizes cross back.  A TYPE4
block short enough for TYPE1 comes only from `stx_dup`, which needs a second variable: that
is `two_stricks`' part, where such copies are appended to, trimmed, cut, resized and freed, and the
reason why `HeadTruth` and `KeepsPromise` are checked there.  Two addresses are enough for
one variable (a realloc or resize needs one more than it holds) and three for two.
`CustomAlloc` is FALSE in these runs, so that of `NoFault` they check the half about
overruns; the half about families of allocators is `claim_alloc`'s.  That grow's memcpy
overlaps itself is not counted among the `faults`: its outcomes are (`Shifted`), and
`promise_long` says what they leave of the text.
Addresses are a symmetry set: no action or property tells them apart.  The return code in
`ret` multiplies the states; the `View` of `one_strick` and `two_stricks` keeps it only where a property looks at
it before a step (a refusal with the capacity it needs).  The other properties look at the
`ret` a step makes, which TLC has in full for every step it generates.

`SplitList`'s arrays are small so that the numbers of separators pass every boundary:
with 3 cells each a list is on the stack for 0, in the pool for 2, on the heap for 4 (as
full as it gets), and in its second realloc with 11, which may move back to where
`list_dyn` points.  Four addresses are as many as two calls and what they leave
behind can fill.  The one failure may meet any allocation of either call; two calls let
the pool and the addresses be used again while a list is held.  `MaxCells` is never
reached by the code as it is.  No symmetry here, because `CallsReturn` is a liveness
property.

`SplitJoin`'s array of five slots in `sdssplitlen` is the code's own number: the patterns of
8, 9 and 10 separators fill it, the doubled one and the next.  With 3 cells on the stack and 4 in
the pool stx's list passes through all its homes: the pool at the second separator, the heap at the third, a
realloc at the seventh and a second one, which may move it back, at the fifteenth; the patterns of 15 pass
them all.  One failure meets every
allocation in turn.  In `Pager` a page has room for four of the smallest posts, and one
post more than it; two failures meet any two of its calls.

`sds` has one length or two to a type, so that every append and shrink is a change of layout, and a
heap of 5 bytes that two strings share: enough for a string of type 64, too little for
much else, so that every allocation is seen both to succeed and to fail.  With three addresses a
string can move to another layout while the other variable holds one.  Strings get no
longer than the heap allows; there is no other bound.  `HeapSize` bounds the rooms, not the blocks:
headers cost nothing.  As in `one_strick` a view leaves out what no property reads before a step:
the name and the variable of the call in `ret`.

`sds_args` has each kind of byte that the lexer or the writer tells apart, alone and next to each
other one, and lines long enough for an escape of four bytes in an unfinished quote.

What the properties say of `Stricks`:

- `HeadTruth`, `Sentinel`, `TextInitialised`, `NoFault` (invariants): the recorded
  capacity is the room of the block and the length fits; the byte after the
  capacity is NUL; no byte below the length is uninitialised; nothing undefined
  happens to the heap.
- `OneOwner`, `NoInterference`: every variable holds a live block of its own, no
  block is lost, and a call leaves the other variables' stricks alone.
- `FailureChangesNothing`: a call that reports 0 or a negative number moved
  nothing and changed no text, length or capacity.
- `RetryFits`: what a strict append reports as needed is exactly what a resize
  must be asked for.
- `KeepsPromise`: refinement of `StringPromise`.  This has it, among the rest, that only the
  program's own writes make header and C string disagree on the length, and that an
  append that fits asks for no other capacity.

And of `SplitList`:

- `NoFault`: no array is overrun (the sentinel is the tight spot), `stx_list_free` meets
  a NULL and frees nothing twice.
- `NothingLost`: without failures every part is in a list, and every array too unless
  realloc moved one (for that see `claim_released`).
- `NothingShared`: a held list is alive, on the heap and nobody else's, whatever failed
  and whatever was called since.
- `KeepsPromise`: refinement of `SplitPromise`.
- `CallsReturn`: a call that was made returns.  It needs weak fairness of the call's own
  steps (`FairSpec`): sequential code runs on.  The program's calls and frees are not
  assumed to happen.

Of `SplitJoin` and `Pager`:

- `PartsRight`, `RoundTrip`: the list is the text's pieces from left to right (each ends
  where the separator is first found), and joined it is the text.  `PartsRight` states what a
  split is without saying how to compute it.
- `Released`: a program that got its text back has nothing else allocated, whatever failed
  on the way, unless its list is stx's and was moved by realloc: then that array is
  lost (`claim_released`), and nothing but that.
- `NoFault`: only failed calls and the cases it names (an empty separator with stx, a row
  of less than three columns) lead to undefined behaviour; what such a case does is not
  its matter.  The arrays of both splits have the room they need, for the final part and
  the sentinel too.
- `WholePosts`: no piece of a refused post is on a page.  `AllSent`: the posts sent are
  those of the file in order, but for the ones longer than a page, which are dropped without
  a word.  `PagesFull`: a page is only sent when the next post does not fit.
- `NothingLeft`: whatever way the loop ends, all is freed.
- `Finishes`: the round trip ends.  Weak fairness of its steps: one thread runs on.

Of `Sds`:

- `HeadTruth`: `alloc` is the room of the block in every type that has it, and `len` fits.
- `Terminated`: there is a NUL where the header says, no byte before it that nobody wrote, and
  the block was large enough for it.
- `OneOwner`: as for stricks.
- `KeepsPromise`: refinement of `SdsPromise`.

Of `SdsArgs`:

- `InLine`: lookahead never takes the lexer behind the NUL.
- `RoundTrip`: what `sdscatrepr` (or a user) wrote comes back byte by byte.
- `PlainTokens`: a line without quotes is cut at its blanks, whatever blanks they are.
- `NothingLost`: a refused line leaves nothing allocated, an accepted one what
  `sdsfreesplitres` frees.
- `Advances`: every turn that does not end the call lessens `Distance`, a natural number: twice
  what is left of the line, and one more where a token is to begin, or to end at the end of the
  line, since the lexer does that without moving.  So every call returns, with no fairness needed
  to say so.

No liveness is stated for `Stricks` and `Sds` and no fairness assumed: each call is one
terminating step and nothing obliges the program to make another.  `Pager`'s properties are
about what has happened by the end of `main`, whose loop only counts up.

### Where code and documents differ

- `claim_append`: an append that takes a strick from TYPE1 to TYPE4 clears its
  first byte (`grow` writes the header before it moves the bytes).
- `claim_alloc`: `stx_resize` uses `free` and `stx_dup` uses `malloc` whatever
  `STX_FREE` and `STX_MALLOC` are.
- `claim_released`: a list that realloc moved is copied again on return, because
  `list_dyn` was not updated, and the moved array stays allocated.
- `claim_lengths`: `stx_split_len` finds separators behind the length it was given, and
  then makes a last part of a negative length.

Met while modelling, and seen in the definitions without a run of their own:

- `stx_append_fmt_strict` on a full strick returns 0, not the needed capacity
  (`stx.c:344`), so that the README's `if (rc<0) stx_resize(&s, -rc)` never gets it out.
- `sdssplitlen`'s comment (`sds.c:808-809`) says NULL for a zero-length string; the code returns an
  array without tokens, which the caller has to free.
- `stx_resize` may move a strick also when its capacity is lowered (`stx.c:387`); README.md:436
  speaks of increases.
- `new` stores a capacity of 2^32 or more modulo 2^32 (`stx.c:151`).
- With a part that could not be made, the README's loop on the count and its loop on the
  sentinel see different lists, and `stx_list_free` leaks what is behind the gap.
- The forum's "Failed to load db file" can only be read when the file was loaded:
  `stx_from` measures the NULL of a missing one first (`Load`).

## Proofs

`StricksProofs` proves, for any set of variables, addresses, bytes and texts, any
`SMALL_MAX` and any `MaxCap`, that `TypeOK`, `HeadTruth`, `Sentinel`,
`TextInitialised` and `OneOwner` are invariants of `Spec`, that no call ever
writes outside its block, and that with the default allocators `NoFault` holds.
The assumptions are the named ones of `Stricks` (NUL is a byte and not a space,
NULL is not an address, ...) and, in each theorem, `Width`: no capacity overflows
the 32 bits of the header.  Without that one `HeadTruth` does not hold: `new` stores a larger capacity
modulo 2^32.

The argument is one inductive invariant, `IInv`.  None of the properties is
inductive alone: a write stays inside its block because the header tells the
truth; the sentinel survives because writes stay inside; `strlen` in `stx_adjust`
stops because of the sentinel; and a block can be replaced without touching
another variable's because it has one owner.  `BlockOK` adds that a TYPE1 block's
capacity fits a byte, so that what is stored in a header is what was meant.  The proof first
shows that every way the code builds or changes a block gives a sound one
(`MakeBlockOK`, `WrittenOK`, `GrowOK`, `AppendedOK`, `UndoneOK`, `ResizedOK`), then
that replacing a variable's block by a sound one preserves the rest (`ReplaceStep`,
`CreateStep`), then has one lemma per action.

It also proves from `IInv` what no step of `Stricks` does.  A call changes no strick but
its own (`OthersUntouched`): every action replaces at most the block of one variable or
makes one where none was, and `OneOwner` keeps that block from being another's.  A call that
reports a failure changes nothing (`FailuresLeaveNoMark`): each action has one of four shapes, a
block made, a block replaced, a block freed or a refusal, and only the last two leave
a return code of 0 or less, of which a refusal leaves the block as it was but for bytes behind the
terminator.  And the capacity a refused strict append asks for is the one with which it
succeeds (`RetriesFit`).

`StricksRefinement` proves `KeepsPromise`: every step of `Stricks`, read through
`StricksImplement`, is a step of `StringPromise` or changes nothing it sees.  What a block says
is its text and capacity; `Result` and `Held` say how these change when a block is replaced, and one
lemma per call (`..Promised`) finds the disjunct of the promise.  The assumptions are
`Width` and that `NULL`, the promise's value for no string, is not a text (`StringAssumption`).
The hard calls are those that grow: the promise's `Carried` is computed from strings and the code's
`Shifted` from bytes and offsets.

`SplitListProofs` proves the four invariants and the refinement of `SplitPromise`, for
any size of the stack array and of the pool, any number of separators, calls, addresses and
failures.  Its `IInv` (which TLC checked on `split_lists` and on a run with three
calls) has a part for each thing a call leans on: what is in the arrays (`StoreOK`, `HeldOK`),
that the running call's counts fit its list (`CountsOK`, `RoomOK`), that its list is the one its
size says (`CallOK`), that every part made is in it (`BuiltOK`, `WholeOK`), and that
it shares nothing with a list the program holds (`ApartOK`).  `NoFault` needs them all: the
sentinel's cell is free only because the list grows when it is full and not when it
overflows, and nothing is freed twice because no part is in two lists.
The assumptions say that the pool is no smaller than the stack array, and that the values
that stand for nothing (`NULL`, `FREE`, a cell nobody wrote) are neither parts nor arrays.

`SplitJoinProofs` proves the five invariants of the round trip, for both libraries, every text,
length, separator and number of failures.  Its `IInv` is `BooksOK` and `TextOK` (TLC checked both on
`round_trip`).  `BooksOK` counts: where the scan is (`PlaceOK`), that the list's array has room
for what the code is about to store (`RoomOK`: one place for the final part, and one for stx's
sentinel), what is allocated (`LiveOK`), and who is to blame when
something went wrong (`BlameOK`).  `LiveOK` counts stx's array from when it is on the heap
(`Grown`), and after the return the one that moved (`Lost`): the list that is freed is then a copy,
so the two are told apart by where the list was, and `Released` is what is left of that count.
Of the sizes of the stack array and the pool it assumes what `RoomOK` needs: two
cells at least, and more of them in the pool (with 8-byte pointers the code has 128 and 2,097,152).  `TextOK` reads: the parts so far, with the separator between them, are
the text up to `beg`, and each ends where the separator is first found (`SearchOK`); the list
that came back is such a split of all the text (`AnswerOK`); and joined it is the text
(`BackOK`).  `Measure` is the lemma between `totlen` and `Written`: the bytes copied are as many as were
counted.  For stx `PartsRight`, `RoundTrip` and `NoFault` speak of texts whose length
is the one passed (`Measured`); `claim_lengths` is the other case.

`PagerProofs` proves, for any file, any size of page and any number of failing calls, the five
invariants of `Pager` and its `TypeOK`, from the two assumptions on its constants.  Its `IInv` says
where the loop is: no row behind the program is empty and the row at hand is in the file
(`LoopOK`), and a row's columns live just while the program is in it (`LiveOK`).  `MailInv` (TLC
checked it on `pager`) says what has become of the rows: the posts on the pages sent and on the page at
hand are the rows so far, in order, without those that no page can hold (`OrderOK`), and each
page sent was followed by a post that had no room on it (`FullOK`), which holds of the last one
because a page that refuses a post which fits an empty page is not empty (`FlushOK` and
`WholePosts`).  There is one lemma per step of `main` for each; the four calls before
the loop share one (`GetsStep`), with `Before`: until the loop nothing is on a page.

`SdsProofs` proves the four invariants of `Sds`, for any bytes, texts, formats and
limits of the five types.  The order of the argument is that of `stx`'s, but the weight lies
elsewhere: an SDS block is never read by its terminator, yet five types share
two fields.  So `IInv` (TLC checked it on `sds`) says of each block that its `alloc` is its room
and its room no more than its type can name (`Sound`): then what `sdssetlen` and `sdssetalloc` store
is what was meant, whatever the width.  Type 5, which has no `alloc`, says 0.  To it come
the terminator (`BlockOK`) and that a block has one owner (`Owned`).  There is a lemma for each way
a block is made (`MakeBlockOK`, `WidenedWhole`, `ShrunkOK`, `HoldsOK`, `TrimmedOK`, `RangedOK`,
`MappedOK`), one for each way it takes its place (`InPlaceStep`, `RelocatedStep`, `WithRoomStep`,
`CreateStep`), and one for each group of calls.  Two calls need more.  `sdscatfmt` lets go of
the terminator until its last line, so its loop keeps only `Sound` (`Filling`), and each turn
makes room for what it puts (`PutOK`).  A number becomes text by repeated division, which ends
because the quotient is smaller (`Quotient`, `NumeralOK`).  The assumptions are those `Sds` names:
pieces of a format, and what `tolower` and `toupper` give, are bytes, and neither `NULL` nor `FREE` is what it
stands against.

`SdsArgsProofs` proves the five invariants of `SdsArgs` and `Advances`, for any lists of arguments of
any bytes, any lines without a NUL, and any number of failing allocations.  `IInv` (TLC
checked it on `sds_args`) is `TypeOK`, `InLine` and `Books`: the line ends in its NUL, which is why
lookahead, that stops at a NUL, stays on it; a token is being read just when `mode` says so; and
what is allocated is what an error would free, or more once an allocation failed.  `Turns` reduces
every step to one of six kinds, and there is a lemma for each.  `Advances` follows from it step by step, by
`Nearer`.
For `RoundTrip` the invariant is `RInv`: there are ways the arguments were written (`w`) and places on
the line where they are (`at`, from `FlattenAt`), the vector is the arguments in front
of the lexer, and in the argument at hand as many bytes are in `current` as the lexer has passed
writings of (`InToken`).  The step is that one turn reads exactly what was written of one
byte (`ReadsDouble`, `ReadsSingle`), by how the byte is written (`ReprShape`): as a hexadecimal
escape, whose digits come back (`DigitBack`), as a named one, or as itself.
For `PlainTokens` it is `PInv`: the ink of the tokens is the ink of what the lexer has left behind
(`SeenTo`), and a written line has no NUL but its last (`LinesChars`).
The assumptions are that bytes are bytes, and that `NULL` is neither a token nor a vector.

`InductionLemmas` has what the library's induction theorems cannot be used for here, since they
take an operator as parameter: induction stated of sets (a set of numbers with 0 and every
successor is all of `Nat`, from the pigeonhole principle of finite sets).  From it follow the
smallest and largest number of a set, that a recursion has a solution, be it on the number before
(`Recursion`) or on any smaller one (`BackRecursion`, for `sdsull2str`), and with that what
`FlattenSeq`, `Written`, `totlen`, `Length` and `InOrder` compute: they are recursive functions, and
any function that satisfies the equations is the one they are (`FlattenIs`, `LengthIs`, `InOrderIs`).
`FlattenAt` says where in `FlattenSeq`'s answer each of its pieces is.

Only model-checked: the liveness properties (`CallsReturn`, `Finishes`), which the prover cannot
reach; the claims, which are refuted; and the refinement of `SdsPromise`.

## Plan

1. Done: `Stricks`, its promise, its claims, its invariants proved.
2. Done: `SplitList`, its promise and its claim.
3. Done: `SplitJoin`, the round trip of both libraries, with stx's list in all its homes; `Pager`; `Sds` with its promise;
   `SdsArgs`.
4. An append whose source is its own destination.
5. Done: proofs of the invariants, action properties and refinements of `Stricks` and
   `SplitList`, and of the invariants of `SplitJoin`, `Pager`, `Sds` and `SdsArgs`.
6. Proofs: the refinement of `Sds`.

## Not modelled

`stx_dbg` and `log.h` print.  `ex/try.c` is a scratch program.  The benchmarks but the
round trip time single calls.  Of SDS: `sdscmp`, `sdsAllocSize`, `sdsAllocPtr` and the `sds_*`
wrappers change nothing, `sdsjoin` is `sdsjoinsds` over C strings, `sdsTest` is its test
program.  Of `util.c`: macros no other part uses.  Sums that wrap a `size_t` need sources of
2^63 bytes.  A source inside its own destination is left out for both libraries.  Threads:
`list_pool` is shared by all of a process, the library names no threads, and the models have none.
