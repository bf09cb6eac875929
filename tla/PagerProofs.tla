----------------------------- MODULE PagerProofs -----------------------------
(***************************************************************************)
(* The mock forum, for every file, every size of page and any number of    *)
(* failed calls: no page is longer than its strick, every way out of the   *)
(* loop frees what was made, nothing undefined happens while calls succeed *)
(* and rows have their columns, and the posts are sent whole, in order and *)
(* on full pages.                                                          *)
(*                                                                         *)
(* What the properties lack to be inductive is where the loop is: the rows *)
(* behind it are not empty, the row at hand is in the file, and a row's    *)
(* columns live from "columns" to "free" (IInv); and what has been sent by *)
(* then: the pages and the page at hand hold the rows so far (MailInv).    *)
(***************************************************************************)
EXTENDS Pager, InductionLemmas

InRow == {"columns", "post", "flush", "free"}

\* Rows of the file are behind the program, and the one at hand is one of them.
LoopOK ==
  /\ pc \in InRow => i \in DOMAIN rows /\ rows[i] # Empty
  /\ pc \in InRow \cup {"row"} => \A j \in DOMAIN rows : j < i => rows[j] # Empty
  /\ pc \in InRow \cup {"row"} => i - 1 <= Len(rows)

\* The columns live while the program is in their row.
LiveOK ==
  /\ "columns" \in live => pc \in InRow \cup {"fault"}
  /\ pc = "done" => live = {}

IInv == TypeOK /\ LoopOK /\ LiveOK /\ NoFault

-----------------------------------------------------------------------------
(* Rows and pages.                                                         *)

LEMMA RowAtHand ==
  ASSUME TypeOK, NEW k \in DOMAIN rows, rows[k] # Empty
  PROVE  rows[k].cols \in Nat \ {0} /\ rows[k].size \in Nat \ {0} /\ k \in Nat
<1>1. rows \in Seq(Row \cup {Empty})
  BY DEF TypeOK
<1>2. rows[k] \in Row \cup {Empty} /\ k \in Nat
  BY <1>1
<1> QED
  BY <1>2 DEF Row

LEMMA SentType ==
  ASSUME TypeOK
  PROVE  Sent \in Seq([posts : Seq(Nat), len : 0..PAGE_SZ])
<1>1. [posts |-> page, len |-> len] \in [posts : Seq(Nat), len : 0..PAGE_SZ]
  BY DEF TypeOK
<1>2. sent \in Seq([posts : Seq(Nat), len : 0..PAGE_SZ])
  BY DEF TypeOK
<1> QED
  BY <1>1, <1>2, AppendProperties DEF Sent

\* The count of failures stays within its bound.
LEMMA FailsType ==
  ASSUME TypeOK, Fails \/ UNCHANGED failures
  PROVE  failures' \in 0..MaxFailures
BY PageAssumption DEF TypeOK, Fails

\* The row at hand is one the program gets to.
LEMMA AtHandReached ==
  ASSUME TypeOK, LoopOK, pc \in InRow
  PROVE  i \in Reached
<1>1. rows \in Seq(Row \cup {Empty}) /\ i \in Nat \ {0}
  BY DEF TypeOK
<1>2. i \in DOMAIN rows /\ rows[i] # Empty /\ \A j \in DOMAIN rows : j < i => rows[j] # Empty
  BY DEF LoopOK
<1>3. \A j \in 1..i : j \in DOMAIN rows /\ rows[j] # Empty
  BY <1>1, <1>2
<1> QED
  BY <1>2, <1>3 DEF Reached

-----------------------------------------------------------------------------
(* The steps.                                                              *)

LEMMA InitOK == Init => IInv
<1> SUFFICES ASSUME Init PROVE IInv
  OBVIOUS
<1>1. TypeOK
  BY FilesAssumption, PageAssumption DEF Init, TypeOK
<1>2. LoopOK /\ LiveOK /\ NoFault
  BY DEF Init, LoopOK, LiveOK, NoFault, InRow
<1> QED
  BY <1>1, <1>2 DEF IInv

\* A call before the loop that allocates what, and goes on to then or to failed.
LEMMA GetsStep ==
  ASSUME IInv, NEW what \in {"db_str", "db", "page", "rows"},
         NEW then \in {"from", "new", "split", "row"}, NEW failed \in {"failure", "fault"},
         pc \in {"load", "from", "new", "split"}, then = "row" => i = 1,
         Gets(what, then, failed)
  PROVE  IInv'
<1> USE PageAssumption DEF IInv
<1>1. TypeOK'
  <2>1. failures' \in 0..MaxFailures
    BY FailsType DEF Gets
  <2>2. UNCHANGED <<rows, i, page, len, sent>> /\ pc' \in {then, failed}
        /\ live' \subseteq live \cup {what}
    BY DEF Gets
  <2> QED
    BY <2>1, <2>2 DEF TypeOK
<1>2. LoopOK'
  <2>1. rows \in Seq(Row \cup {Empty})
    BY DEF TypeOK
  <2>2. Len(rows) \in Nat /\ DOMAIN rows = 1..Len(rows)
    BY <2>1
  <2> QED
    BY <2>2 DEF LoopOK, Gets, InRow
<1>3. LiveOK'
  BY DEF LiveOK, Gets, InRow
<1>4. NoFault'
  BY DEF NoFault, Gets, Fails, TypeOK, Reached
<1> QED
  BY <1>1, <1>2, <1>3, <1>4

\* Before the loop the row number is 1 and nothing is on a page: the invariant of
\* the lines before it.
Before ==
  pc \in {"load", "from", "new", "split"} => i = 1 /\ page = <<>> /\ len = 0 /\ sent = <<>>

LEMMA BeforeLoop ==
  ASSUME IInv, Before, Load \/ From \/ NewPage \/ SplitRows
  PROVE  IInv'
<1>1. CASE Load
  BY <1>1, GetsStep DEF Load
<1>2. CASE From
  BY <1>2, GetsStep DEF From
<1>3. CASE NewPage
  BY <1>3, GetsStep DEF NewPage
<1>4. CASE SplitRows
  BY <1>4, GetsStep DEF SplitRows, Before
<1> QED
  BY <1>1, <1>2, <1>3, <1>4

LEMMA NextRowStep == IInv /\ NextRow => IInv'
<1> SUFFICES ASSUME IInv, NextRow PROVE IInv'
  OBVIOUS
<1> USE PageAssumption DEF IInv
<1>0. rows \in Seq(Row \cup {Empty}) /\ i \in Nat \ {0} /\ i - 1 <= Len(rows) /\ pc = "row"
  BY DEF TypeOK, LoopOK, NextRow
<1>1. Len(rows) \in Nat /\ DOMAIN rows = 1..Len(rows)
  BY <1>0
<1>2. More => i \in DOMAIN rows
  BY <1>0, <1>1 DEF More
<1>3. CASE Goes("last")
  BY <1>0, <1>3 DEF Goes, TypeOK, LoopOK, LiveOK, NoFault, InRow
<1>4. CASE i \in DOMAIN rows /\ rows[i] # Empty /\ Gets("columns", "columns", "fault")
  <2>1. TypeOK'
    <3>1. failures' \in 0..MaxFailures
      BY <1>4, FailsType DEF Gets
    <3>2. UNCHANGED <<rows, i, page, len, sent>> /\ pc' \in {"columns", "fault"}
          /\ live' \subseteq live \cup {"columns"}
      BY <1>4 DEF Gets
    <3> QED
      BY <3>1, <3>2 DEF TypeOK
  <2>2. LoopOK'
    BY <1>0, <1>4 DEF LoopOK, Gets, InRow
  <2>3. LiveOK'
    BY <1>0, <1>4 DEF LiveOK, Gets, InRow
  <2>4. NoFault'
    BY <1>0, <1>4 DEF NoFault, Gets, Fails, TypeOK, Reached
  <2> QED
    BY <2>1, <2>2, <2>3, <2>4
<1> QED
  BY <1>2, <1>3, <1>4 DEF NextRow

LEMMA ColumnsStep == IInv /\ Columns => IInv'
<1> SUFFICES ASSUME IInv, Columns PROVE IInv'
  OBVIOUS
<1> USE DEF IInv
<1>1. pc = "columns" /\ i \in Reached
  BY AtHandReached DEF Columns, InRow
<1>2. TypeOK' /\ LoopOK' /\ LiveOK'
  BY <1>1 DEF Columns, Goes, TypeOK, LoopOK, LiveOK, InRow
<1>3. NoFault'
  BY <1>1 DEF Columns, Goes, NoFault, Reached
<1> QED
  BY <1>2, <1>3

LEMMA PostStep == IInv /\ Post => IInv'
<1> SUFFICES ASSUME IInv, Post PROVE IInv'
  OBVIOUS
<1> USE PageAssumption DEF IInv
<1>1. pc = "post" /\ i \in DOMAIN rows /\ rows[i] # Empty
  BY DEF Post, LoopOK, InRow
<1>2. rows[i].size \in Nat \ {0} /\ i \in Nat
  BY <1>1, RowAtHand
<1>3. TypeOK'
  <2>1. page \in Seq(Nat) /\ Append(page, i) \in Seq(Nat)
    BY <1>2, AppendProperties DEF TypeOK
  <2>2. FitsPage(len, rows[i].size) => len + rows[i].size \in 0..PAGE_SZ
    <3>1. len \in Nat /\ PAGE_SZ \in Nat
      BY DEF TypeOK
    <3> QED
      BY <1>2, <3>1 DEF FitsPage
  <2>3. failures' \in 0..MaxFailures
    BY FailsType DEF Post
  <2>4. UNCHANGED <<rows, i, sent, live>> /\ pc' \in {"free", "flush"}
    BY DEF Post
  <2>5. page' \in Seq(Nat) /\ len' \in 0..PAGE_SZ
    BY <2>1, <2>2 DEF Post, Refused, TypeOK
  <2> QED
    BY <2>3, <2>4, <2>5 DEF TypeOK
<1>4. LoopOK' /\ LiveOK' /\ NoFault'
  BY <1>1 DEF Post, LoopOK, LiveOK, NoFault, InRow
<1> QED
  BY <1>3, <1>4

LEMMA FlushStep == IInv /\ Flush => IInv'
<1> SUFFICES ASSUME IInv, Flush PROVE IInv'
  OBVIOUS
<1> USE PageAssumption DEF IInv
<1>1. pc = "flush" /\ i \in DOMAIN rows /\ rows[i] # Empty
  BY DEF Flush, LoopOK, InRow
<1>2. rows[i].size \in Nat \ {0} /\ i \in Nat
  BY <1>1, RowAtHand
<1>3. TypeOK'
  <2>1. <<i>> \in Seq(Nat) /\ <<>> \in Seq(Nat)
    BY <1>2
  <2>2. Again(rows[i].size) => rows[i].size \in 0..PAGE_SZ
    BY <1>2 DEF Again, FitsPage
  <2>3. failures' \in 0..MaxFailures
    BY FailsType DEF Flush
  <2>4. UNCHANGED <<rows, i, live>> /\ pc' = "free" /\ sent' = Sent
    BY DEF Flush
  <2>5. \/ Again(rows[i].size) /\ page' = <<i>> /\ len' = rows[i].size
        \/ page' = <<>> /\ len' = 0
    BY DEF Flush
  <2>6. page' \in Seq(Nat)
    BY <2>1, <2>5
  <2>7. len' \in 0..PAGE_SZ
    BY <2>2, <2>5
  <2> QED
    BY <2>3, <2>4, <2>6, <2>7, SentType DEF TypeOK
<1>4. LoopOK' /\ LiveOK' /\ NoFault'
  BY <1>1 DEF Flush, LoopOK, LiveOK, NoFault, InRow
<1> QED
  BY <1>3, <1>4

LEMMA FreeColumnsStep == IInv /\ FreeColumns => IInv'
<1> SUFFICES ASSUME IInv, FreeColumns PROVE IInv'
  OBVIOUS
<1> USE DEF IInv
<1>1. /\ rows \in Seq(Row \cup {Empty}) /\ i \in Nat \ {0}
      /\ pc = "free" /\ i \in DOMAIN rows /\ rows[i] # Empty
  BY DEF FreeColumns, TypeOK, LoopOK, InRow
<1>2. TypeOK'
  BY <1>1 DEF FreeColumns, Freed, TypeOK
<1>3. LoopOK'
  <2>1. Len(rows) \in Nat /\ DOMAIN rows = 1..Len(rows)
    BY <1>1
  <2>2. \A j \in DOMAIN rows : j < i + 1 => rows[j] # Empty
    <3> SUFFICES ASSUME NEW j \in DOMAIN rows, j < i + 1 PROVE rows[j] # Empty
      OBVIOUS
    <3>1. j = i \/ j < i
      BY <1>1, <2>1
    <3> QED
      BY <1>1, <3>1 DEF LoopOK, InRow
  <2> QED
    BY <1>1, <2>1, <2>2 DEF FreeColumns, LoopOK, InRow
<1>4. LiveOK' /\ NoFault'
  BY <1>1 DEF FreeColumns, Freed, LiveOK, NoFault, InRow
<1> QED
  BY <1>2, <1>3, <1>4

LEMMA LastPageStep == IInv /\ Last_page => IInv'
<1> SUFFICES ASSUME IInv, Last_page PROVE IInv'
  OBVIOUS
<1> USE DEF IInv
<1>1. TypeOK'
  BY SentType DEF Last_page, TypeOK
<1>2. live \subseteq {"db_str", "db", "page", "rows"}
  BY DEF TypeOK, LiveOK, Last_page, InRow
<1>3. LiveOK'
  BY <1>2 DEF Last_page, LiveOK
<1>4. LoopOK' /\ NoFault'
  BY DEF Last_page, LoopOK, NoFault, InRow
<1> QED
  BY <1>1, <1>3, <1>4

\* The row number does not move before the loop.
LEMMA BeforeStep == IInv /\ Before /\ [Next]_vars => Before'
  BY DEF IInv, TypeOK, Before, Next, Step, vars, Load, From, NewPage, SplitRows, NextRow, Columns,
         Post, Flush, FreeColumns, Last_page, Gets, Goes

LEMMA StepOK == IInv /\ Before /\ [Next]_vars => IInv'
<1> SUFFICES ASSUME IInv, Before, [Next]_vars PROVE IInv'
  OBVIOUS
<1>1. CASE Load \/ From \/ NewPage \/ SplitRows
  BY <1>1, BeforeLoop
<1>2. CASE UNCHANGED vars
  BY <1>2 DEF IInv, vars, TypeOK, LoopOK, LiveOK, NoFault, Reached, InRow
<1> QED
  BY <1>1, <1>2, NextRowStep, ColumnsStep, PostStep, FlushStep, FreeColumnsStep, LastPageStep
     DEF Next, Step

-----------------------------------------------------------------------------
(* The mail.                                                               *)

Posts == {k \in DOMAIN rows : rows[k] # Empty}

\* What is on a page is a post of the file.
PostsOK == page \in Seq(Posts) /\ \A k \in DOMAIN sent : sent[k].posts \in Seq(Posts)

\* The rows that have a post which can be sent.
Due == Reached \ TooLong

Flat(pages) == FlattenSeq([k \in DOMAIN pages |-> pages[k].posts])

\* While nothing fails, the rows so far are on the pages, each once and in order.
OrderOK ==
  failures = 0 =>
    /\ pc \in {"load", "from", "new", "split", "row", "columns", "post", "flush", "last"} =>
         Flat(sent) \o page = InOrder(Due, i - 1)
    /\ pc = "free" => Flat(sent) \o page = InOrder(Due, i)
    /\ pc = "last" => i - 1 <= Len(rows) /\ \A k \in i..Len(rows) : k \notin Due
    /\ pc = "done" => Flat(sent) = InOrder(Due, Len(rows))

\* The post has no room on the page that is sent.
FlushOK == failures = 0 /\ pc = "flush" => ~FitsPage(len, rows[i].size)

\* A page was sent because the next page's first post had no room on it.
FullOK ==
  failures = 0 /\ TooLong = {} =>
    /\ \A k \in DOMAIN sent : sent[k].posts # <<>>
    /\ \A k \in 1..(Len(sent) - 1) :
         sent[k].len + rows[Head(sent[k + 1].posts)].size > PAGE_SZ
    /\ pc # "done" /\ sent # <<>> =>
         page # <<>> /\ sent[Len(sent)].len + rows[Head(page)].size > PAGE_SZ

MailInv == PostsOK /\ WholePosts /\ OrderOK /\ FlushOK /\ FullOK

-----------------------------------------------------------------------------
(* What Length and InOrder answer.                                         *)

\* w has the sums that Length goes through.
Sums(w, n, posts, file) ==
  w \in [0..n -> Nat] /\ w[0] = 0 /\ \A k \in 1..n : w[k] = w[k - 1] + file[posts[k]].size

LEMMA LengthIs ==
  ASSUME NEW posts, NEW file, NEW n \in Nat, n = Len(posts), NEW w, Sums(w, n, posts, file)
  PROVE  Length(posts, file) = w[n]
<1> DEFINE body(h) == [k \in 0..n |-> IF k = 0 THEN 0 ELSE h[k - 1] + file[posts[k]].size]
           g == CHOOSE h : h = body(h)
           S == {k \in 0..n : g[k] = w[k]}
<1>1. w = body(w)
  <2>1. \A k \in 0..n : k = 0 \/ k \in 1..n
    OBVIOUS
  <2> QED
    BY <2>1 DEF Sums
<1>2. g = body(g)
  BY <1>1, Zenon
<1>3. Length(posts, file) = g[n]
  BY Zenon DEF Length
<1> HIDE DEF g
<1>4. InductiveTo(n, S)
  <2>1. \A k \in 0..n : g[k] = IF k = 0 THEN 0 ELSE g[k - 1] + file[posts[k]].size
    BY <1>2
  <2>2. 0 \in S
    BY <2>1 DEF Sums
  <2>3. \A k \in 1..n : k - 1 \in S => k \in S
    BY <2>1 DEF Sums
  <2> QED
    BY <2>2, <2>3 DEF InductiveTo
<1>5. n \in S
  BY <1>4, UpToInduction
<1> QED
  BY <1>3, <1>5

\* There are such sums.
LEMMA LengthSteps ==
  ASSUME NEW P, NEW posts \in Seq(P), NEW file, \A k \in P : file[k].size \in Nat,
         NEW n, n = Len(posts)
  PROVE  \E w : Sums(w, n, posts, file)
<1>1. PICK step : step = [k \in 1..n |-> [v \in Nat |-> v + file[posts[k]].size]]
  OBVIOUS
<1>2. n \in Nat /\ \A k \in 1..n : file[posts[k]].size \in Nat /\ k - 1 \in 0..n
  OBVIOUS
<1>3. \A k \in 1..n : [v \in Nat |-> v + file[posts[k]].size] \in [Nat -> Nat]
  BY <1>2
<1>4. step \in [1..n -> [Nat -> Nat]]
  BY <1>1, <1>3
<1>5. PICK w : Recurs(w, n, Nat, 0, step)
  BY <1>2, <1>4, Recursion
<1> QED
  BY <1>1, <1>2, <1>5 DEF Recurs, Sums

\* No posts, and one post more.
LEMMA LengthAppend ==
  ASSUME NEW P, NEW file, \A k \in P : file[k].size \in Nat \ {0},
         NEW posts \in Seq(P), NEW k \in P
  PROVE  /\ Length(<<>>, file) = 0
         /\ Length(posts, file) \in Nat
         /\ posts # <<>> => Length(posts, file) > 0
         /\ Length(Append(posts, k), file) = Length(posts, file) + file[k].size
<1>1. Length(<<>>, file) = 0
  <2>1. <<>> \in Seq(P) /\ Len(<<>>) = 0
    OBVIOUS
  <2>2. PICK w : Sums(w, 0, <<>>, file)
    BY <2>1, LengthSteps
  <2>3. Length(<<>>, file) = w[0]
    BY <2>1, <2>2, LengthIs
  <2> QED
    BY <2>2, <2>3 DEF Sums
<1>2. PICK qq, n, m : qq = Append(posts, k) /\ n = Len(posts) /\ m = n + 1
  OBVIOUS
<1>3. /\ n \in Nat /\ m \in Nat /\ qq \in Seq(P) /\ Len(qq) = m /\ qq[m] = k
      /\ \A j \in 1..n : qq[j] = posts[j] /\ j \in 1..m /\ j \in 0..m
  BY <1>2
<1>4. PICK w : Sums(w, m, qq, file)
  BY <1>3, LengthSteps
<1>5. Length(qq, file) = w[m]
  BY <1>3, <1>4, LengthIs
<1>6. w[m] = w[n] + file[k].size /\ w[n] \in Nat
  <2>1. m \in 1..m /\ m - 1 = n /\ n \in 0..m
    BY <1>2, <1>3
  <2> QED
    BY <1>3, <1>4, <2>1 DEF Sums
<1>7. Length(posts, file) = w[n]
  <2> DEFINE v == [j \in 0..n |-> w[j]]
  <2>1. \A j \in 0..n : j \in 0..m /\ v[j] = w[j]
    BY <1>2, <1>3
  <2>2. \A j \in 1..n : v[j] = v[j - 1] + file[posts[j]].size
    <3> TAKE j \in 1..n
    <3>1. j \in 0..n /\ j - 1 \in 0..n /\ j \in 1..m
      BY <1>3
    <3> HIDE DEF v
    <3> QED
      BY <1>3, <1>4, <2>1, <3>1 DEF Sums
  <2>3. v \in [0..n -> Nat] /\ v[0] = 0
    BY <1>3, <1>4, <2>1 DEF Sums
  <2>4. v[n] = w[n]
    BY <1>3
  <2> HIDE DEF v
  <2>5. Sums(v, n, posts, file)
    BY <2>2, <2>3 DEF Sums
  <2> QED
    BY <1>2, <1>3, <2>4, <2>5, LengthIs
<1>8. posts # <<>> => w[n] > 0
  <2> SUFFICES ASSUME posts # <<>> PROVE w[n] > 0
    OBVIOUS
  <2>1. n \in 1..n /\ n \in 1..m /\ n - 1 \in 0..m /\ posts[n] \in P
    BY <1>2, <1>3
  <2>2. w[n] = w[n - 1] + file[posts[n]].size /\ w[n - 1] \in Nat
    BY <1>3, <1>4, <2>1 DEF Sums
  <2> QED
    BY <2>1, <2>2
<1> QED
  BY <1>1, <1>2, <1>5, <1>6, <1>7, <1>8

\* The same of InOrder: w has the sequences that it goes through.
Those(w, n, S) ==
  /\ w \in [0..n -> Seq(Nat)] /\ w[0] = <<>>
  /\ \A k \in 1..n : w[k] = w[k - 1] \o (IF k \in S THEN <<k>> ELSE <<>>)

LEMMA InOrderIs ==
  ASSUME NEW S, NEW n \in Nat, NEW w, Those(w, n, S)
  PROVE  InOrder(S, n) = w[n]
<1> DEFINE body(h) == [k \in 0..n |->
              IF k = 0 THEN <<>> ELSE h[k - 1] \o (IF k \in S THEN <<k>> ELSE <<>>)]
           g == CHOOSE h : h = body(h)
           T == {k \in 0..n : g[k] = w[k]}
<1>1. w = body(w)
  <2>1. \A k \in 0..n : k = 0 \/ k \in 1..n
    OBVIOUS
  <2> QED
    BY <2>1 DEF Those
<1>2. g = body(g)
  BY <1>1, Zenon
<1>3. InOrder(S, n) = g[n]
  BY Zenon DEF InOrder
<1> HIDE DEF g
<1>4. InductiveTo(n, T)
  <2>1. \A k \in 0..n :
          g[k] = IF k = 0 THEN <<>> ELSE g[k - 1] \o (IF k \in S THEN <<k>> ELSE <<>>)
    BY <1>2
  <2>2. 0 \in T
    <3>1. 0 \in 0..n /\ w[0] = <<>>
      BY DEF Those
    <3>2. g[0] = <<>>
      BY <2>1, <3>1
    <3> QED
      BY <3>1, <3>2
  <2>3. \A k \in 1..n : k - 1 \in T => k \in T
    <3> SUFFICES ASSUME NEW k \in 1..n, g[k - 1] = w[k - 1] PROVE g[k] = w[k]
      OBVIOUS
    <3>1. k \in 0..n /\ k # 0
      OBVIOUS
    <3>2. g[k] = g[k - 1] \o (IF k \in S THEN <<k>> ELSE <<>>)
      BY <2>1, <3>1
    <3> QED
      BY <3>2 DEF Those
  <2> QED
    BY <2>2, <2>3 DEF InductiveTo
<1>5. n \in T
  BY <1>4, UpToInduction
<1> QED
  BY <1>3, <1>5

LEMMA InOrderSteps ==
  ASSUME NEW S, NEW n \in Nat
  PROVE  \E w : Those(w, n, S)
<1>1. PICK step, none, V : /\ V = Seq(Nat) /\ none = <<>>
        /\ step = [k \in 1..n |-> [v \in V |-> v \o (IF k \in S THEN <<k>> ELSE <<>>)]]
  OBVIOUS
<1>2. \A k \in 1..n, v \in V : v \o (IF k \in S THEN <<k>> ELSE <<>>) \in V
  <2> TAKE k \in 1..n, v \in V
  <2>1. (IF k \in S THEN <<k>> ELSE <<>>) \in Seq(Nat)
    OBVIOUS
  <2> QED
    BY <1>1, <2>1
<1>3. step \in [1..n -> [V -> V]] /\ none \in V
  BY <1>1, <1>2
<1>4. PICK w : Recurs(w, n, V, none, step)
  BY <1>3, Recursion
<1>5. /\ w \in [0..n -> V] /\ w[0] = none
      /\ \A k \in 1..n : k - 1 \in 0..n /\ w[k] = step[k][w[k - 1]]
  BY <1>4 DEF Recurs
<1>6. \A k \in 1..n : w[k] = w[k - 1] \o (IF k \in S THEN <<k>> ELSE <<>>)
  <2> TAKE k \in 1..n
  <2>1. PICK u : u = w[k - 1] /\ u \in V
    BY <1>5
  <2>2. step[k][u] = u \o (IF k \in S THEN <<k>> ELSE <<>>)
    BY <1>1, <2>1
  <2> QED
    BY <1>5, <2>1, <2>2
<1> QED
  BY <1>1, <1>5, <1>6 DEF Those

\* One number more.
LEMMA InOrderNext ==
  ASSUME NEW S, NEW n \in Nat
  PROVE  /\ InOrder(S, 0) = <<>>
         /\ InOrder(S, n) \in Seq(Nat)
         /\ InOrder(S, n + 1) = InOrder(S, n) \o (IF n + 1 \in S THEN <<n + 1>> ELSE <<>>)
<1>1. PICK w : Those(w, n + 1, S)
  BY InOrderSteps
<1>2. InOrder(S, n + 1) = w[n + 1]
  BY <1>1, InOrderIs
<1>3. \A m \in 0..(n + 1) : InOrder(S, m) = w[m]
  <2> TAKE m \in 0..(n + 1)
  <2> DEFINE v == [k \in 0..m |-> w[k]]
  <2>1. \A k \in 0..m : k \in 0..(n + 1) /\ v[k] = w[k]
    OBVIOUS
  <2>2. \A k \in 1..m : v[k] = v[k - 1] \o (IF k \in S THEN <<k>> ELSE <<>>)
    <3> TAKE k \in 1..m
    <3>1. k \in 1..(n + 1) /\ k \in 0..m /\ k - 1 \in 0..m
      OBVIOUS
    <3>2. v[k] = w[k] /\ v[k - 1] = w[k - 1]
      BY <2>1, <3>1
    <3> HIDE DEF v
    <3> QED
      BY <1>1, <3>1, <3>2 DEF Those
  <2>3. v \in [0..m -> Seq(Nat)] /\ v[0] = <<>> /\ v[m] = w[m]
    BY <1>1, <2>1 DEF Those
  <2> HIDE DEF v
  <2>4. Those(v, m, S)
    BY <2>2, <2>3 DEF Those
  <2>5. InOrder(S, m) = v[m]
    BY <2>4, InOrderIs
  <2> QED
    BY <2>3, <2>5
<1>4. /\ 0 \in 0..(n + 1) /\ n \in 0..(n + 1) /\ n + 1 \in 1..(n + 1) /\ (n + 1) - 1 = n
  OBVIOUS
<1> QED
  BY <1>1, <1>2, <1>3, <1>4 DEF Those

\* Numbers that are not in the set add nothing.
LEMMA InOrderSame ==
  ASSUME NEW S, NEW n \in Nat, NEW m \in Nat, n <= m, \A k \in (n + 1)..m : k \notin S
  PROVE  InOrder(S, m) = InOrder(S, n)
<1> DEFINE T == {d \in 0..(m - n) : InOrder(S, n + d) = InOrder(S, n)}
<1>1. 0 \in T
  BY n + 0 = n
<1>2. \A d \in 1..(m - n) : d - 1 \in T => d \in T
  <2> SUFFICES ASSUME NEW d \in 1..(m - n), d - 1 \in T PROVE d \in T
    OBVIOUS
  <2>1. PICK j : j = n + (d - 1)
    OBVIOUS
  <2>2. j \in Nat /\ j + 1 = n + d /\ j + 1 \notin S /\ InOrder(S, j) = InOrder(S, n)
    BY <2>1
  <2>3. InOrder(S, j) \in Seq(Nat) /\ InOrder(S, j + 1) = InOrder(S, j) \o <<>>
    BY <2>2, InOrderNext
  <2>4. InOrder(S, n + d) = InOrder(S, n)
    BY <2>2, <2>3
  <2> QED
    BY <2>4
<1> HIDE DEF T
<1>3. InductiveTo(m - n, T)
  BY <1>1, <1>2 DEF InductiveTo
<1>4. m - n \in T
  BY <1>3, UpToInduction
<1> QED
  BY <1>4, n + (m - n) = m DEF T

-----------------------------------------------------------------------------
(* The mail is kept by every step.                                         *)

\* A post of the file is a number, and its size is one.
LEMMA PostSizes ==
  ASSUME TypeOK
  PROVE  Posts \subseteq Nat /\ \A k \in Posts : rows[k].size \in Nat \ {0}
BY RowAtHand DEF Posts

\* The row at hand is due unless it is too long for any page.
LEMMA DueAtHand ==
  ASSUME TypeOK, LoopOK, pc \in InRow
  PROVE  /\ i \in Nat \ {0} /\ i \in Posts
         /\ rows[i].size <= PAGE_SZ => i \in Due
         /\ ~(rows[i].size <= PAGE_SZ) => i \notin Due /\ TooLong # {}
<1>1. i \in Reached /\ i \in DOMAIN rows /\ rows[i] # Empty
  BY AtHandReached DEF LoopOK
<1>2. rows[i].size \in Nat /\ i \in Nat \ {0}
  BY <1>1, RowAtHand DEF TypeOK
<1> QED
  BY <1>1, <1>2, PageAssumption DEF Due, TooLong, Posts

\* One page more.
LEMMA FlatAppend ==
  ASSUME NEW P, NEW pages \in Seq([posts : Seq(P), len : Nat]),
         NEW rec \in [posts : Seq(P), len : Nat]
  PROVE  Flat(pages) \in Seq(P) /\ Flat(Append(pages, rec)) = Flat(pages) \o rec.posts
<1>1. PICK ss, tt, n, more, t :
        /\ n = Len(pages) /\ more = Append(pages, rec) /\ t = rec.posts
        /\ ss = [k \in 1..n |-> pages[k].posts] /\ tt = [k \in DOMAIN more |-> more[k].posts]
  OBVIOUS
<1>2. n \in Nat /\ DOMAIN pages = 1..n /\ t \in Seq(P) /\ \A k \in 1..n : pages[k].posts \in Seq(P)
  <2>1. PICK R : R = [posts : Seq(P), len : Nat]
    OBVIOUS
  <2>2. pages \in Seq(R)
    BY <2>1
  <2>3. n \in Nat /\ DOMAIN pages = 1..n /\ \A k \in 1..n : pages[k] \in R
    BY <1>1, <2>2
  <2>4. t \in Seq(P) /\ \A rr \in R : rr.posts \in Seq(P)
    BY <1>1, <2>1
  <2> QED
    BY <2>3, <2>4
<1>3. ss \in Seq(Seq(P)) /\ Len(ss) = n
  BY <1>1, <1>2
<1>4. /\ DOMAIN more = 1..(n + 1) /\ more[n + 1] = rec
      /\ \A k \in 1..n : more[k] = pages[k]
  BY <1>1, <1>2
<1>5. tt = Append(ss, t)
  <2>1. Append(ss, t) \in Seq(Seq(P)) /\ Len(Append(ss, t)) = n + 1
        /\ Append(ss, t)[n + 1] = t /\ \A k \in 1..n : Append(ss, t)[k] = ss[k]
    BY <1>2, <1>3
  <2>2. \A k \in 1..(n + 1) : k \in 1..n \/ k = n + 1
    BY <1>2
  <2>3. \A k \in 1..(n + 1) : tt[k] = Append(ss, t)[k]
    BY <1>1, <1>4, <2>1, <2>2
  <2>4. tt = [k \in 1..(n + 1) |-> tt[k]] /\ Append(ss, t) = [k \in 1..(n + 1) |-> Append(ss, t)[k]]
    BY <1>1, <1>4, <2>1
  <2> QED
    BY <2>3, <2>4
<1>6. FlattenSeq(ss) \in Seq(P) /\ FlattenSeq(Append(ss, t)) = FlattenSeq(ss) \o t
  BY <1>2, <1>3, FlattenAppend
<1>7. Flat(pages) = FlattenSeq(ss) /\ Flat(more) = FlattenSeq(tt)
  BY <1>1, <1>2 DEF Flat
<1> QED
  BY <1>1, <1>5, <1>6, <1>7

\* The same of the pages sent.
LEMMA FlatSent ==
  ASSUME TypeOK, PostsOK
  PROVE  /\ page \in Seq(Nat) /\ Flat(sent) \in Seq(Nat)
         /\ Flat(Sent) = Flat(sent) \o page
<1>1. PICK rec : rec = [posts |-> page, len |-> len]
  OBVIOUS
<1>2. 0..PAGE_SZ \subseteq Nat
  BY PageAssumption
<1>3. rec \in [posts : Seq(Nat), len : Nat] /\ rec.posts = page /\ page \in Seq(Nat)
  BY <1>1, <1>2 DEF TypeOK
<1>4. sent \in Seq([posts : Seq(Nat), len : Nat])
  <2>1. [posts : Seq(Nat), len : 0..PAGE_SZ] \subseteq [posts : Seq(Nat), len : Nat]
    BY <1>2
  <2>2. PICK A, B : /\ A = [posts : Seq(Nat), len : 0..PAGE_SZ]
                    /\ B = [posts : Seq(Nat), len : Nat]
    OBVIOUS
  <2>3. sent \in Seq(A) /\ A \subseteq B
    BY <2>1, <2>2 DEF TypeOK
  <2>4. sent \in Seq(B)
    BY <2>3, SeqDef
  <2> QED
    BY <2>2, <2>4
<1> QED
  BY <1>1, <1>3, <1>4, FlatAppend DEF Sent

\* The pages with the one at hand behind them.
LEMMA SentPages ==
  ASSUME TypeOK, NEW n, n = Len(sent), NEW pages, pages = Sent
  PROVE  /\ DOMAIN sent = 1..n /\ DOMAIN pages = 1..(n + 1) /\ Len(pages) = n + 1
         /\ n \in Nat /\ pages # <<>> /\ (sent # <<>> <=> n # 0)
         /\ \A k \in 1..n : pages[k] = sent[k]
         /\ pages[n + 1].posts = page /\ pages[n + 1].len = len
         /\ \A k \in 1..(n + 1) : k \in 1..n \/ k = n + 1
<1>1. PICK rec : rec = [posts |-> page, len |-> len]
  OBVIOUS
<1>2. pages = Append(sent, rec) /\ rec.posts = page /\ rec.len = len
  BY <1>1 DEF Sent
<1>3. PICK R : sent \in Seq(R)
  BY DEF TypeOK
<1>4. n \in Nat /\ DOMAIN sent = 1..n /\ (sent # <<>> <=> n # 0)
  BY <1>3
<1>5. Len(pages) = n + 1 /\ DOMAIN pages = 1..(n + 1)
      /\ pages[n + 1] = rec /\ \A k \in 1..n : pages[k] = sent[k]
  BY <1>2, <1>3, <1>4
<1>6. pages # <<>> /\ \A k \in 1..(n + 1) : k \in 1..n \/ k = n + 1
  BY <1>4, <1>5
<1> QED
  BY <1>2, <1>4, <1>5, <1>6

\* What FullOK says of neighbours, with the page at hand among them.
LEMMA PairsKept ==
  ASSUME TypeOK, FullOK, failures = 0, TooLong = {}, pc # "done",
         NEW n, n = Len(sent), NEW pages, pages = Sent
  PROVE  \A k \in 1..n : pages[k].len + rows[Head(pages[k + 1].posts)].size > PAGE_SZ
<1> TAKE k \in 1..n
<1>1. /\ n \in Nat /\ (sent # <<>> <=> n # 0) /\ pages[n + 1].posts = page
      /\ \A j \in 1..n : pages[j] = sent[j]
  BY SentPages
<1>2. CASE k = n
  <2>1. sent # <<>>
    BY <1>1, <1>2
  <2>2. sent[n].len + rows[Head(page)].size > PAGE_SZ
    BY <2>1 DEF FullOK
  <2> QED
    BY <1>1, <1>2, <2>2
<1>3. CASE k # n
  <2>1. k \in 1..(n - 1) /\ k + 1 \in 1..n
    BY <1>1, <1>3
  <2>2. sent[k].len + rows[Head(sent[k + 1].posts)].size > PAGE_SZ
    BY <2>1 DEF FullOK
  <2> QED
    BY <1>1, <2>1, <2>2
<1> QED
  BY <1>2, <1>3

LEMMA InitMail ==
  ASSUME Init
  PROVE  MailInv
<1>1. /\ page = <<>> /\ sent = <<>> /\ len = 0 /\ i = 1 /\ pc = "load"
      /\ page \in Seq(Posts) /\ DOMAIN sent = {} /\ Len(sent) = 0
  BY DEF Init
<1>2. Length(<<>>, rows) = 0
  <2>1. PICK w : w = [k \in 0..0 |-> 0]
    OBVIOUS
  <2>2. Sums(w, 0, <<>>, rows) /\ w[0] = 0
    BY <2>1 DEF Sums
  <2> QED
    BY <2>2, LengthIs
<1>3. Flat(sent) = <<>>
  <2>1. [k \in DOMAIN sent |-> sent[k].posts] = <<>>
    BY <1>1
  <2> QED
    BY <2>1 DEF Flat, FlattenSeq
<1>4. InOrder(Due, i - 1) = <<>>
  <2>1. i - 1 = 0 /\ 0 \in Nat
    BY <1>1
  <2> QED
    BY <2>1, InOrderNext
<1>5. OrderOK
  BY <1>1, <1>3, <1>4 DEF OrderOK
<1>6. PostsOK /\ WholePosts /\ FlushOK /\ FullOK
  BY <1>1, <1>2 DEF PostsOK, WholePosts, FlushOK, FullOK
<1> QED
  BY <1>5, <1>6 DEF MailInv

\* A step that touches neither the pages nor the place in the file.
LEMMA QuietMail ==
  ASSUME IInv, MailInv, UNCHANGED <<rows, i, page, len, sent>>,
         pc \in {"load", "from", "new", "split", "row", "columns"},
         pc' \notin {"free", "flush", "done"},
         pc' = "last" => i - 1 <= Len(rows) /\ \A k \in i..Len(rows) : k \notin Due,
         failures' = 0 => failures = 0
  PROVE  MailInv'
<1> USE DEF MailInv
<1>1. UNCHANGED Due /\ UNCHANGED Posts /\ UNCHANGED TooLong /\ UNCHANGED Flat(sent)
  BY DEF Due, Posts, TooLong, Reached, Flat
<1>2. PostsOK' /\ WholePosts'
  BY <1>1 DEF PostsOK, WholePosts
<1>3. OrderOK'
  BY <1>1 DEF OrderOK
<1>4. FlushOK' /\ FullOK'
  BY <1>1 DEF FlushOK, FullOK
<1> QED
  BY <1>2, <1>3, <1>4

LEMMA PostMail == IInv /\ MailInv /\ Post => MailInv'
<1> SUFFICES ASSUME IInv, MailInv, Post PROVE MailInv'
  OBVIOUS
<1> USE DEF IInv, MailInv
<1>1. pc = "post" /\ UNCHANGED <<rows, i, sent, live>>
  BY DEF Post
<1>2. UNCHANGED Due /\ UNCHANGED Posts /\ UNCHANGED TooLong /\ UNCHANGED Flat(sent)
  BY <1>1 DEF Due, Posts, TooLong, Reached, Flat
<1>3. i \in Nat \ {0} /\ i \in Posts /\ (rows[i].size <= PAGE_SZ => i \in Due)
  BY <1>1, DueAtHand DEF InRow
<1>4. rows[i].size \in Nat \ {0} /\ len \in Nat /\ PAGE_SZ \in Nat /\ page \in Seq(Posts)
  BY <1>3, PostSizes, PageAssumption DEF TypeOK, PostsOK
<1>5. failures' = 0 => failures = 0
  BY PageAssumption DEF Post, Fails, TypeOK
<1>6. CASE FitsPage(len, rows[i].size) /\ page' = Append(page, i) /\ len' = len + rows[i].size
           /\ pc' = "free" /\ UNCHANGED failures
  <2>1. PostsOK'
    BY <1>1, <1>2, <1>3, <1>4, <1>6, AppendProperties DEF PostsOK
  <2>2. WholePosts'
    <3>1. Length(Append(page, i), rows) = Length(page, rows) + rows[i].size
      BY <1>3, <1>4, PostSizes, LengthAppend
    <3> QED
      BY <1>1, <1>6, <3>1 DEF WholePosts
  <2>3. OrderOK'
    <3> SUFFICES ASSUME failures = 0
                 PROVE  Flat(sent) \o page' = InOrder(Due, i)
      BY <1>1, <1>2, <1>6 DEF OrderOK
    <3>1. i \in Due
      BY <1>3, <1>4, <1>6 DEF FitsPage
    <3>2. Flat(sent) \o page = InOrder(Due, i - 1)
      BY <1>1 DEF OrderOK
    <3>3. InOrder(Due, i) = InOrder(Due, i - 1) \o <<i>>
      <4>1. i - 1 \in Nat /\ (i - 1) + 1 = i
        BY <1>3
      <4> QED
        BY <3>1, <4>1, InOrderNext
    <3>4. Flat(sent) \in Seq(Nat) /\ page \in Seq(Nat)
      BY FlatSent
    <3>5. Flat(sent) \o Append(page, i) = (Flat(sent) \o page) \o <<i>>
      <4>1. PICK u : u = Flat(sent) /\ u \in Seq(Nat)
        BY <3>4
      <4>2. i \in Nat
        BY <1>3
      <4> QED
        BY <3>4, <4>1, <4>2
    <3> QED
      BY <1>6, <3>2, <3>3, <3>5
  <2>4. FlushOK'
    BY <1>6 DEF FlushOK
  <2>5. FullOK'
    <3>1. page # <<>> => page' # <<>> /\ Head(page') = Head(page)
      BY <1>3, <1>4, <1>6
    <3> QED
      BY <1>1, <1>2, <1>6, <3>1 DEF FullOK
  <2> QED
    BY <2>1, <2>2, <2>3, <2>4, <2>5
<1>7. CASE UNCHANGED <<page, len>> /\ pc' = "flush"
           /\ (failures' = 0 => ~FitsPage(len, rows[i].size))
  <2>1. PostsOK' /\ WholePosts'
    BY <1>1, <1>2, <1>7 DEF PostsOK, WholePosts
  <2>2. OrderOK'
    BY <1>1, <1>2, <1>5, <1>7 DEF OrderOK
  <2>3. FlushOK'
    BY <1>1, <1>7 DEF FlushOK
  <2>4. FullOK'
    BY <1>1, <1>2, <1>5, <1>7 DEF FullOK
  <2> QED
    BY <2>1, <2>2, <2>3, <2>4
<1> QED
  <2>1. Fails => failures' # 0
    BY PageAssumption DEF Fails, TypeOK
  <2> QED
    BY <1>6, <1>7, <2>1 DEF Post, Refused

LEMMA FlushMail == IInv /\ MailInv /\ Flush => MailInv'
<1> SUFFICES ASSUME IInv, MailInv, Flush PROVE MailInv'
  OBVIOUS
<1> USE DEF IInv, MailInv
<1>1. pc = "flush" /\ pc' = "free" /\ UNCHANGED <<rows, i, live>> /\ sent' = Sent
  BY DEF Flush
<1>2. UNCHANGED Due /\ UNCHANGED Posts /\ UNCHANGED TooLong
  BY <1>1 DEF Due, Posts, TooLong, Reached
<1>3. /\ i \in Nat \ {0} /\ i \in Posts
      /\ rows[i].size <= PAGE_SZ => i \in Due
      /\ ~(rows[i].size <= PAGE_SZ) => i \notin Due /\ TooLong # {}
  BY <1>1, DueAtHand DEF InRow
<1>4. rows[i].size \in Nat \ {0} /\ len \in Nat /\ PAGE_SZ \in Nat /\ page \in Seq(Posts)
  BY <1>3, PostSizes, PageAssumption DEF TypeOK, PostsOK
<1>5. failures' = 0 => failures = 0
  BY PageAssumption DEF Flush, Fails, TypeOK
<1>6. \/ rows[i].size <= PAGE_SZ /\ page' = <<i>> /\ len' = rows[i].size
      \/ page' = <<>> /\ len' = 0 /\ (failures' = 0 => ~(rows[i].size <= PAGE_SZ))
  <2>1. Fails => failures' # 0
    BY PageAssumption DEF Fails, TypeOK
  <2>2. Again(rows[i].size) <=> rows[i].size <= PAGE_SZ
    BY <1>4 DEF Again, FitsPage
  <2> QED
    BY <2>1, <2>2 DEF Flush
<1>7. PICK n : n = Len(sent)
  OBVIOUS
<1>8. /\ DOMAIN sent = 1..n /\ DOMAIN sent' = 1..(n + 1) /\ Len(sent') = n + 1
      /\ n \in Nat /\ sent' # <<>> /\ \A k \in 1..n : sent'[k] = sent[k]
      /\ sent'[n + 1].posts = page /\ sent'[n + 1].len = len
      /\ \A k \in 1..(n + 1) : k \in 1..n \/ k = n + 1
  BY <1>1, <1>7, SentPages
<1>9. PostsOK'
  <2>1. page' \in Seq(Posts)
    <3>1. <<>> \in Seq(Posts) /\ <<i>> \in Seq(Posts)
      BY <1>3
    <3> QED
      BY <1>6, <3>1
  <2>2. \A k \in 1..(n + 1) : sent'[k].posts \in Seq(Posts)
    BY <1>4, <1>8 DEF PostsOK
  <2> QED
    BY <1>2, <1>8, <2>1, <2>2 DEF PostsOK
<1>10. WholePosts'
  <2>1. Length(<<>>, rows) = 0 /\ Length(<<i>>, rows) = rows[i].size
    <3>1. <<>> \in Seq(Posts) /\ <<i>> = Append(<<>>, i)
      BY <1>3
    <3>2. Length(<<>>, rows) = 0
          /\ Length(Append(<<>>, i), rows) = Length(<<>>, rows) + rows[i].size
      BY <1>3, <3>1, PostSizes, LengthAppend
    <3> QED
      BY <1>4, <3>1, <3>2
  <2>2. len' = Length(page', rows)
    BY <1>6, <2>1
  <2>3. \A k \in 1..(n + 1) : sent'[k].len = Length(sent'[k].posts, rows)
    BY <1>8 DEF WholePosts
  <2> QED
    BY <1>1, <1>8, <2>2, <2>3 DEF WholePosts
<1>11. OrderOK'
  <2> SUFFICES ASSUME failures = 0, failures' = 0
               PROVE  Flat(sent') \o page' = InOrder(Due, i)
    BY <1>1, <1>2, <1>5 DEF OrderOK
  <2>1. PICK u : u = Flat(sent') /\ u \in Seq(Nat) /\ u = InOrder(Due, i - 1)
    <3>1. Flat(sent') = Flat(sent) \o page /\ Flat(sent) \in Seq(Nat) /\ page \in Seq(Nat)
      BY <1>1, FlatSent
    <3>2. Flat(sent) \o page = InOrder(Due, i - 1)
      BY <1>1 DEF OrderOK
    <3> QED
      BY <3>1, <3>2, ConcatProperties
  <2>2. InOrder(Due, i) = u \o (IF i \in Due THEN <<i>> ELSE <<>>)
    <3>1. i - 1 \in Nat /\ (i - 1) + 1 = i
      BY <1>3
    <3> QED
      BY <2>1, <3>1, InOrderNext
  <2>3. page' = IF i \in Due THEN <<i>> ELSE <<>>
    BY <1>3, <1>6
  <2> QED
    BY <2>1, <2>2, <2>3
<1>12. FlushOK'
  BY <1>1 DEF FlushOK
<1>13. FullOK'
  <2> SUFFICES ASSUME failures = 0, failures' = 0, TooLong = {}
               PROVE  /\ \A k \in DOMAIN sent' : sent'[k].posts # <<>>
                      /\ \A k \in 1..(Len(sent') - 1) :
                           sent'[k].len + rows[Head(sent'[k + 1].posts)].size > PAGE_SZ
                      /\ page' # <<>>
                      /\ sent'[Len(sent')].len + rows[Head(page')].size > PAGE_SZ
    BY <1>1, <1>2, <1>5 DEF FullOK
  <2>1. page' = <<i>> /\ page' # <<>> /\ Head(page') = i /\ rows[i].size <= PAGE_SZ
    BY <1>3, <1>6
  <2>2. len + rows[i].size > PAGE_SZ
    BY <1>1, <1>4 DEF FlushOK, FitsPage
  <2>3. page # <<>>
    <3> SUFFICES ASSUME page = <<>> PROVE FALSE
      OBVIOUS
    <3>1. len = 0
      BY <1>3, <1>4, PostSizes, LengthAppend DEF WholePosts
    <3> QED
      BY <1>4, <2>1, <2>2, <3>1
  <2>4. \A k \in 1..(n + 1) : sent'[k].posts # <<>>
    BY <1>8, <2>3 DEF FullOK
  <2>5. \A k \in 1..n : sent'[k].len + rows[Head(sent'[k + 1].posts)].size > PAGE_SZ
    BY <1>1, <1>7, PairsKept
  <2>6. (n + 1) - 1 = n
    BY <1>8
  <2> QED
    BY <1>8, <2>1, <2>2, <2>4, <2>5, <2>6
<1> QED
  BY <1>9, <1>10, <1>11, <1>12, <1>13

LEMMA FreeMail == IInv /\ MailInv /\ FreeColumns => MailInv'
<1> SUFFICES ASSUME IInv, MailInv, FreeColumns PROVE MailInv'
  OBVIOUS
<1> USE DEF IInv, MailInv
<1>1. /\ pc = "free" /\ pc' = "row" /\ i' = i + 1
      /\ UNCHANGED <<rows, page, len, sent, failures>>
  BY DEF FreeColumns
<1>2. UNCHANGED Due /\ UNCHANGED Posts /\ UNCHANGED TooLong /\ UNCHANGED Flat(sent)
  BY <1>1 DEF Due, Posts, TooLong, Reached, Flat
<1>3. i' - 1 = i
  BY <1>1 DEF TypeOK
<1>4. PostsOK' /\ WholePosts'
  BY <1>1, <1>2 DEF PostsOK, WholePosts
<1>5. OrderOK'
  BY <1>1, <1>2, <1>3 DEF OrderOK
<1>6. FlushOK' /\ FullOK'
  BY <1>1, <1>2 DEF FlushOK, FullOK
<1> QED
  BY <1>4, <1>5, <1>6

\* The rows from i on, when the loop ends there.
LEMMA NextRowMail == IInv /\ MailInv /\ NextRow => MailInv'
<1> SUFFICES ASSUME IInv, MailInv, NextRow PROVE MailInv'
  OBVIOUS
<1>1. /\ rows \in Seq(Row \cup {Empty}) /\ i \in Nat \ {0} /\ i - 1 <= Len(rows)
      /\ pc = "row" /\ failures \in Nat
  BY PageAssumption DEF IInv, TypeOK, LoopOK, NextRow
<1>2. Len(rows) \in Nat /\ DOMAIN rows = 1..Len(rows)
  BY <1>1
<1>3. CASE Goes("last") /\ (~More \/ (i \in DOMAIN rows /\ rows[i] = Empty))
  <2>1. \A k \in i..Len(rows) : k \notin Due
    <3>1. CASE ~More
      BY <1>1, <1>2, <3>1 DEF More
    <3>2. CASE i \in DOMAIN rows /\ rows[i] = Empty
      <4>1. \A k \in i..Len(rows) : i \in 1..k
        BY <1>1, <1>2
      <4> QED
        BY <3>2, <4>1 DEF Due, Reached
    <3> QED
      BY <1>3, <3>1, <3>2
  <2> QED
    BY <1>1, <1>3, <2>1, QuietMail DEF Goes
<1>4. CASE Gets("columns", "columns", "fault")
  <2>1. failures' = 0 => failures = 0
    BY <1>1, <1>4 DEF Gets, Fails
  <2> QED
    BY <1>1, <1>4, <2>1, QuietMail DEF Gets
<1>5. More => i \in DOMAIN rows
  BY <1>1, <1>2 DEF More
<1>6. \/ Goes("last") /\ (~More \/ (i \in DOMAIN rows /\ rows[i] = Empty))
      \/ Gets("columns", "columns", "fault")
  BY <1>5 DEF NextRow
<1> QED
  BY <1>3, <1>4, <1>6

LEMMA BeforeMail ==
  ASSUME IInv, MailInv, Load \/ From \/ NewPage \/ SplitRows \/ Columns
  PROVE  MailInv'
<1>1. failures \in Nat
  BY PageAssumption DEF IInv, TypeOK
<1>2. Fails => failures' # 0
  BY <1>1 DEF Fails
<1>3. CASE Load
  BY <1>2, <1>3, QuietMail DEF Load, Gets
<1>4. CASE From
  BY <1>2, <1>4, QuietMail DEF From, Gets
<1>5. CASE NewPage
  BY <1>2, <1>5, QuietMail DEF NewPage, Gets
<1>6. CASE SplitRows
  BY <1>2, <1>6, QuietMail DEF SplitRows, Gets
<1>7. CASE Columns
  BY <1>7, QuietMail DEF Columns, Goes
<1> QED
  BY <1>3, <1>4, <1>5, <1>6, <1>7

LEMMA LastPageMail == IInv /\ MailInv /\ Last_page => MailInv'
<1> SUFFICES ASSUME IInv, MailInv, Last_page PROVE MailInv'
  OBVIOUS
<1> USE DEF IInv, MailInv
<1>1. /\ pc = "last" /\ pc' = "done" /\ UNCHANGED <<rows, i, page, len, failures>>
      /\ sent' = IF len # 0 THEN Sent ELSE sent
  BY DEF Last_page
<1>2. UNCHANGED Due /\ UNCHANGED Posts /\ UNCHANGED TooLong
  BY <1>1 DEF Due, Posts, TooLong, Reached
<1>3. page \in Seq(Posts) /\ len \in Nat /\ PAGE_SZ \in Nat
  BY PageAssumption DEF TypeOK, PostsOK
<1>4. len = 0 <=> page = <<>>
  <2>1. PICK posts, file : posts = Posts /\ file = rows
    OBVIOUS
  <2>2. page \in Seq(posts) /\ \A k \in posts : file[k].size \in Nat \ {0}
    BY <1>3, <2>1, PostSizes
  <2>3. page # <<>> => \E k : k \in posts
    BY <2>2
  <2>4. page # <<>> => Length(page, file) > 0
    BY <2>2, <2>3, LengthAppend
  <2>5. Length(<<>>, file) = 0
    <3>1. PICK w : w = [k \in 0..0 |-> 0]
      OBVIOUS
    <3>2. Sums(w, 0, <<>>, file) /\ w[0] = 0
      BY <3>1 DEF Sums
    <3> QED
      BY <3>2, LengthIs
  <2> QED
    BY <2>1, <2>4, <2>5 DEF WholePosts
<1>5. failures = 0 => Flat(sent) \o page = InOrder(Due, Len(rows))
  <2> SUFFICES ASSUME failures = 0
               PROVE  Flat(sent) \o page = InOrder(Due, Len(rows))
    OBVIOUS
  <2>1. /\ Flat(sent) \o page = InOrder(Due, i - 1)
        /\ i - 1 <= Len(rows) /\ \A k \in i..Len(rows) : k \notin Due
    BY <1>1 DEF OrderOK
  <2>2. i - 1 \in Nat /\ Len(rows) \in Nat /\ (i - 1) + 1 = i
    <3>1. rows \in Seq(Row \cup {Empty}) /\ i \in Nat \ {0}
      BY DEF TypeOK
    <3> QED
      BY <3>1
  <2>3. \A k \in ((i - 1) + 1)..Len(rows) : k \notin Due
    BY <2>1, <2>2
  <2> QED
    BY <2>1, <2>2, <2>3, InOrderSame
<1>6. CASE len = 0
  <2>1. sent' = sent /\ Flat(sent') = Flat(sent)
    BY <1>1, <1>6
  <2>2. failures = 0 => Flat(sent) = InOrder(Due, Len(rows))
    <3>1. Flat(sent) \in Seq(Nat)
      BY FlatSent
    <3> QED
      BY <1>4, <1>5, <1>6, <3>1
  <2>3. PostsOK' /\ WholePosts'
    BY <1>1, <1>2, <2>1 DEF PostsOK, WholePosts
  <2>4. OrderOK'
    BY <1>1, <1>2, <2>1, <2>2 DEF OrderOK
  <2>5. FlushOK' /\ FullOK'
    BY <1>1, <1>2, <2>1 DEF FlushOK, FullOK
  <2> QED
    BY <2>3, <2>4, <2>5
<1>7. CASE len # 0
  <2>1. sent' = Sent /\ page # <<>>
    BY <1>1, <1>4, <1>7
  <2>2. PICK n : n = Len(sent) /\ n \in Nat
    <3>1. PICK R : sent \in Seq(R)
      BY DEF TypeOK
    <3> QED
      BY <3>1
  <2>3. /\ DOMAIN sent = 1..n /\ DOMAIN sent' = 1..(n + 1) /\ Len(sent') = n + 1
        /\ (sent # <<>> <=> n # 0) /\ \A k \in 1..n : sent'[k] = sent[k]
        /\ sent'[n + 1].posts = page /\ sent'[n + 1].len = len
        /\ \A k \in 1..(n + 1) : k \in 1..n \/ k = n + 1
    BY <2>1, <2>2, SentPages
  <2>4. PostsOK'
    <3>1. \A k \in 1..(n + 1) : sent'[k].posts \in Seq(Posts)
      BY <1>3, <2>3 DEF PostsOK
    <3> QED
      BY <1>1, <1>2, <1>3, <2>3, <3>1 DEF PostsOK
  <2>5. WholePosts'
    <3>1. \A k \in 1..(n + 1) : sent'[k].len = Length(sent'[k].posts, rows)
      BY <2>3 DEF WholePosts
    <3> QED
      BY <1>1, <2>3, <3>1 DEF WholePosts
  <2>6. OrderOK'
    <3>1. Flat(sent') = Flat(sent) \o page
      BY <2>1, FlatSent
    <3> QED
      BY <1>1, <1>2, <1>5, <3>1 DEF OrderOK
  <2>7. FlushOK'
    BY <1>1 DEF FlushOK
  <2>8. FullOK'
    <3> SUFFICES ASSUME failures = 0, TooLong = {}
                 PROVE  /\ \A k \in DOMAIN sent' : sent'[k].posts # <<>>
                        /\ \A k \in 1..(Len(sent') - 1) :
                             sent'[k].len + rows[Head(sent'[k + 1].posts)].size > PAGE_SZ
      BY <1>1, <1>2 DEF FullOK
    <3>1. \A k \in 1..(n + 1) : sent'[k].posts # <<>>
      BY <2>1, <2>3 DEF FullOK
    <3>2. \A k \in 1..n : sent'[k].len + rows[Head(sent'[k + 1].posts)].size > PAGE_SZ
      BY <1>1, <2>2, <2>3, PairsKept
    <3>3. (n + 1) - 1 = n
      BY <2>2
    <3> QED
      BY <2>3, <3>1, <3>2, <3>3
  <2> QED
    BY <2>4, <2>5, <2>6, <2>7, <2>8
<1> QED
  BY <1>6, <1>7

LEMMA MailStep == IInv /\ MailInv /\ [Next]_vars => MailInv'
<1> SUFFICES ASSUME IInv, MailInv, [Next]_vars PROVE MailInv'
  OBVIOUS
<1>1. CASE Load \/ From \/ NewPage \/ SplitRows \/ Columns
  BY <1>1, BeforeMail
<1>2. CASE UNCHANGED vars
  <2> USE <1>2 DEF vars
  <2>1. UNCHANGED Due /\ UNCHANGED Posts /\ UNCHANGED TooLong /\ UNCHANGED Flat(sent)
    BY DEF Due, Posts, TooLong, Reached, Flat
  <2>2. PostsOK' /\ WholePosts'
    BY <2>1 DEF MailInv, PostsOK, WholePosts
  <2>3. OrderOK'
    BY <2>1 DEF MailInv, OrderOK
  <2>4. FlushOK' /\ FullOK'
    BY <2>1 DEF MailInv, FlushOK, FullOK
  <2> QED
    BY <2>2, <2>3, <2>4 DEF MailInv
<1> QED
  BY <1>1, <1>2, NextRowMail, PostMail, FlushMail, FreeMail, LastPageMail DEF Next, Step

-----------------------------------------------------------------------------
(* The results.                                                            *)

LEMMA Invariant == Spec => [](IInv /\ Before /\ MailInv)
<1>1. Init => IInv /\ Before /\ MailInv
  BY InitOK, InitMail DEF Init, Before
<1>2. IInv /\ Before /\ MailInv /\ [Next]_vars => (IInv /\ Before /\ MailInv)'
  BY StepOK, BeforeStep, MailStep
<1> QED
  BY <1>1, <1>2, PTL DEF Spec

\* No page, the one at hand or one that was sent, is longer than its strick
\* (main, stx_append_fmt_strict).
THEOREM PagesHold == Spec => []TypeOK
<1>1. IInv => TypeOK
  BY DEF IInv
<1> QED
  BY <1>1, Invariant, PTL

\* main frees all that it made, whichever row ended its loop, and has the columns
\* of only one row at a time.
THEOREM AllFreed == Spec => []NothingLeft
<1>1. IInv => NothingLeft
  BY DEF IInv, LiveOK, NothingLeft, InRow
<1> QED
  BY <1>1, Invariant, PTL

\* While its calls succeed and the rows it gets to have three columns, main uses no
\* NULL and nothing behind a list.
THEOREM NoFaultEver == Spec => []NoFault
<1>1. IInv => NoFault
  BY DEF IInv
<1> QED
  BY <1>1, Invariant, PTL

\* Whatever is refused, cut or formatted twice, the page and every page sent are as
\* long as the whole posts on them (stx_append_fmt_strict, main).
THEOREM WholePostsHold == Spec => []WholePosts
<1>1. MailInv => WholePosts
  BY DEF MailInv
<1> QED
  BY <1>1, Invariant, PTL

\* Of any file, and with pages of any size, main sends the posts before the first
\* empty row that a page can hold: each once, in the order of the file.
THEOREM AllSentInOrder == Spec => []AllSent
<1>1. MailInv => AllSent
  BY DEF MailInv, OrderOK, AllSent, Flat, Due
<1> QED
  BY <1>1, Invariant, PTL

\* main sends a page only when the next post has no room on it.
THEOREM PagesFullHold == Spec => []PagesFull
<1>1. MailInv => PagesFull
  BY DEF MailInv, FullOK, PagesFull
<1> QED
  BY <1>1, Invariant, PTL
=============================================================================
