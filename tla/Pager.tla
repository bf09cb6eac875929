------------------------------- MODULE Pager -------------------------------
(***************************************************************************)
(* The mock forum, ex/example.c: posts are read from a file, a row each,   *)
(* and sent in pages.  The page is one strick of PAGE_SZ bytes; a post is  *)
(* formatted to it with stx_append_fmt_strict, and when that refuses, the  *)
(* page is sent, reset, and the post formatted again.                      *)
(*                                                                         *)
(* A row is what the program makes of it: how many columns it splits into, *)
(* and the length POST_FMT gives it.  Every allocation and every vsnprintf *)
(* may fail (MaxFailures of them); few of their results are looked at, and *)
(* "fault" is the use of a NULL or of what lies behind an array.           *)
(***************************************************************************)
EXTENDS Integers, Sequences, SequencesExt

CONSTANTS
  Files,        \* what may be in the file: sequences of rows
  Empty,        \* a row without a byte
  PAGE_SZ,      \* capacity of the page
  MaxFailures   \* BOUND: how many calls fail

Row == [cols : Nat \ {0}, size : Nat \ {0}]

ASSUME FilesAssumption == Files \subseteq Seq(Row \cup {Empty}) /\ Empty \notin Row
ASSUME PageAssumption == PAGE_SZ \in Nat \ {0} /\ MaxFailures \in Nat

VARIABLES
  rows,      \* the file, split at its newlines
  pc,        \* what the program does next
  i,         \* the row at hand
  page,      \* the posts on the page, by their row
  len,       \* stx_len(page)
  sent,      \* the pages sent: their posts and their length
  live,      \* what is allocated
  failures   \* how many calls have failed

vars == <<rows, pc, i, page, len, sent, live, failures>>

Init ==
  /\ rows \in Files
  /\ pc = "load" /\ i = 1 /\ page = <<>> /\ len = 0 /\ sent = <<>> /\ live = {} /\ failures = 0

Fails == failures < MaxFailures /\ failures' = failures + 1

\* A call that allocates: what it makes is live, or it has failed.
Gets(what, then, failed) ==
  /\ \/ live' = live \cup {what} /\ pc' = then /\ UNCHANGED failures
     \/ Fails /\ pc' = failed /\ UNCHANGED live
  /\ UNCHANGED <<rows, i, page, len, sent>>

Goes(then) == pc' = then /\ UNCHANGED <<rows, i, page, len, sent, live, failures>>

-----------------------------------------------------------------------------
(* Before the loop.                                                        *)

\* No file: stx_from measures a NULL.
Load == pc = "load" /\ Gets("db_str", "from", "fault")

\* The only result the program looks at, though not before stx_new.
From == pc = "from" /\ Gets("db", "new", "failure")

\* Without a page, or without rows, the program goes on, into a NULL.
NewPage == pc = "new" /\ Gets("page", "split", "fault")
SplitRows == pc = "split" /\ Gets("rows", "row", "fault")

-----------------------------------------------------------------------------
(* The loop.                                                               *)

\* Mutant: the sentinel is taken for a row.
More_past == i <= Len(rows) + 1
More == i <= Len(rows)

\* The row is split into columns; a row behind the last is the list's sentinel.
NextRow ==
  /\ pc = "row"
  /\ \/ ~More /\ Goes("last")
     \/ More /\ i \notin DOMAIN rows /\ Goes("fault")
     \/ More /\ i \in DOMAIN rows /\ rows[i] = Empty /\ Goes("last")
     \/ More /\ i \in DOMAIN rows /\ rows[i] # Empty /\ Gets("columns", "columns", "fault")

\* Of one column or two, columns[1] or columns[2] is NULL or behind the list.
Columns == pc = "columns" /\ Goes(IF rows[i].cols < 3 THEN "fault" ELSE "post")

\* Mutants: a byte too many is taken for room; each post keeps its terminator.
FitsPage_over(n, size) == n + size <= PAGE_SZ + 1
FitsPage_under(n, size) == n + size + (IF n > 0 THEN 1 ELSE 0) <= PAGE_SZ

\* stx_append_fmt_strict: room for size bytes behind n?
FitsPage(n, size) == n + size <= PAGE_SZ

\* Mutant: the post is cut, and what there was room for stays.
Refused_cut(posts) == Append(posts, i)

\* *end = 0: what a refused post leaves on the page.
Refused(posts) == posts

\* The post is formatted to the page; flush comes next if that returned 0 (no room
\* at all, or vsnprintf failed) or less (too long for what room there was).
Post ==
  /\ pc = "post"
  /\ \/ /\ FitsPage(len, rows[i].size)
        /\ page' = Append(page, i) /\ len' = len + rows[i].size
        /\ pc' = "free" /\ UNCHANGED failures
     \/ /\ ~FitsPage(len, rows[i].size)
        /\ page' = Refused(page) /\ pc' = "flush" /\ UNCHANGED <<len, failures>>
     \/ len < PAGE_SZ /\ Fails /\ pc' = "flush" /\ UNCHANGED <<page, len>>
  /\ UNCHANGED <<rows, i, sent, live>>

Sent == Append(sent, [posts |-> page, len |-> len])

\* Mutant: the post is not formatted again.
Again_never(size) == FALSE
Again(size) == FitsPage(0, size)

\* send, stx_reset, and the post once more; nobody looks at what that returned.
Flush ==
  /\ pc = "flush" /\ pc' = "free"
  /\ sent' = Sent
  /\ \/ Again(rows[i].size) /\ page' = <<i>> /\ len' = rows[i].size /\ UNCHANGED failures
     \/ ~Again(rows[i].size) /\ page' = <<>> /\ len' = 0 /\ UNCHANGED failures
     \/ Fails /\ page' = <<>> /\ len' = 0
  /\ UNCHANGED <<rows, i, live>>

\* Mutant: the columns are not freed.
Freed_none == {}
Freed == {"columns"}

\* stx_list_free(columns); ++i
FreeColumns ==
  /\ pc = "free" /\ pc' = "row"
  /\ live' = live \ Freed /\ i' = i + 1
  /\ UNCHANGED <<rows, page, len, sent, failures>>

-----------------------------------------------------------------------------
\* The last page is sent if it is not empty; everything is freed.
Last_page ==
  /\ pc = "last" /\ pc' = "done"
  /\ sent' = IF len # 0 THEN Sent ELSE sent
  /\ live' = live \ {"rows", "page", "db", "db_str"}
  /\ UNCHANGED <<rows, i, page, len, failures>>

Step ==
  \/ Load \/ From \/ NewPage \/ SplitRows
  \/ NextRow \/ Columns \/ Post \/ Flush \/ FreeColumns
  \/ Last_page

Ended == pc \in {"done", "failure", "fault"}

Next == Step \/ (Ended /\ UNCHANGED vars)

Spec == Init /\ [][Next]_vars

-----------------------------------------------------------------------------
(* What makes the forum correct.                                           *)

\* The shape of the state; no page, sent or not, is longer than its strick.
TypeOK ==
  /\ rows \in Seq(Row \cup {Empty}) /\ i \in Nat \ {0}
  /\ pc \in {"load", "from", "new", "split", "row", "columns", "post", "flush", "free",
             "last", "done", "failure", "fault"}
  /\ page \in Seq(Nat) /\ len \in 0..PAGE_SZ
  /\ sent \in Seq([posts : Seq(Nat), len : 0..PAGE_SZ])
  /\ live \subseteq {"db_str", "db", "page", "rows", "columns"}
  /\ failures \in 0..MaxFailures

\* What some posts of a file have together.
Length(posts, file) ==
  LET sum[k \in 0..Len(posts)] == IF k = 0 THEN 0 ELSE sum[k - 1] + file[posts[k]].size
  IN sum[Len(posts)]

\* A page's length is that of the whole posts on it: a post that did not fit has
\* left no piece behind.
WholePosts ==
  /\ len = Length(page, rows)
  /\ \A k \in DOMAIN sent : sent[k].len = Length(sent[k].posts, rows)

\* The rows that the program gets to: those before the first empty one.
Reached == {k \in DOMAIN rows : \A j \in 1..k : rows[j] # Empty}
TooLong == {k \in Reached : rows[k].size > PAGE_SZ}

\* The members of S among 1..n, in their order.
InOrder(S, n) ==
  LET those[k \in 0..n] ==
        IF k = 0 THEN <<>> ELSE those[k - 1] \o (IF k \in S THEN <<k>> ELSE <<>>)
  IN those[n]

\* When every call succeeds, the posts are sent each once and in order, but for
\* those that no page can hold: these the second stx_append_fmt_strict refuses, too,
\* and nobody notices.
AllSent ==
  pc = "done" /\ failures = 0 =>
    FlattenSeq([k \in DOMAIN sent |-> sent[k].posts]) = InOrder(Reached \ TooLong, Len(rows))

\* When every call succeeds and every post fits a page, no page is sent while it
\* has room for the post that comes next, and no page is empty.
PagesFull ==
  pc = "done" /\ failures = 0 /\ TooLong = {} =>
    /\ \A k \in DOMAIN sent : sent[k].posts # <<>>
    /\ \A k \in 1..(Len(sent) - 1) :
         sent[k].len + rows[Head(sent[k + 1].posts)].size > PAGE_SZ

\* Nothing stays allocated, whatever vsnprintf did and however the loop ended, and
\* the program has only one row's columns at a time.
NothingLeft ==
  /\ pc = "done" => live = {}
  /\ pc \in {"row", "last"} => "columns" \notin live

\* Nothing undefined happens while allocations succeed and every row that the
\* program gets to has its three columns.
NoFault == pc = "fault" => failures > 0 \/ \E k \in Reached : rows[k].cols < 3
=============================================================================
