------------------------------- MODULE SplitList -------------------------------
(***************************************************************************)
(* stx_split_len and stx_list_free, src/stx.c.  The list of parts is built *)
(* in an array on the stack; when that gets full it goes on in the static  *)
(* list_pool, then in an array from malloc that realloc doubles.  The      *)
(* caller gets the malloc'ed array, or a malloc'ed copy of the list, with  *)
(* a NULL after the last part.                                             *)
(*                                                                         *)
(* A call runs in steps: one for each separator found, with one before it  *)
(* when the list has to move, then the last part, then the return.  Any    *)
(* malloc or realloc may fail, the ones inside from included, and realloc  *)
(* may move the array.  What the parts say is not looked at here: a part   *)
(* is the number of the call that made it and its place in the source.     *)
(***************************************************************************)
EXTENDS Integers

CONSTANTS
  Var,             \* the program's variables for lists
  Addr,            \* where a malloc'ed array may live
  Seps,            \* how many separators a source may hold
  LIST_LOCAL_MAX,  \* cells of the array on the stack
  LIST_POOL_MAX,   \* cells of the static array
  MaxCalls,        \* BOUND: calls of stx_split_len
  MaxFailures,     \* BOUND: allocations that fail
  MaxCells,        \* BOUND: cells of an array
  NULL,            \* the null pointer; for call, that none is running
  FREE,            \* no array here
  Junk             \* a cell nobody wrote

ASSUME ListMaxAssumption == /\ LIST_LOCAL_MAX \in Nat /\ LIST_LOCAL_MAX >= 2
                            /\ LIST_POOL_MAX \in Nat /\ LIST_POOL_MAX >= LIST_LOCAL_MAX
ASSUME SepsAssumption == Seps \subseteq Nat
ASSUME BoundAssumption == /\ MaxCalls \in Nat /\ MaxFailures \in Nat
                          /\ MaxCells \in Nat /\ MaxCells > LIST_POOL_MAX
ASSUME HomeAssumption == NULL \notin Addr \cup {"local", "pool"} /\ Addr \cap {"local", "pool"} = {}

VARIABLES
  store,     \* the arrays: the one on the stack, list_pool, the malloc'ed ones
  parts,     \* the stricks that from made and nobody freed
  call,      \* the locals of the running stx_split_len, or NULL
  held,      \* per variable, the list and count of the last call: ret, *outcnt
  calls,     \* calls made so far
  failures,  \* allocations that failed so far
  moved,     \* has realloc ever moved a list?
  faults     \* what the calls did that C leaves undefined

vars == <<store, parts, call, held, calls, failures, moved, faults>>

-----------------------------------------------------------------------------
(* Arrays of parts.                                                        *)

Part == (1..MaxCalls) \X (Nat \ {0})
Home == Addr \cup {"local", "pool"}

\* What a cell of an array can hold.
Cell == Part \cup {NULL, Junk}
Array(n) == [0..(n - 1) -> Cell]

\* The locals of stx_split_len.
Locals == [v : Var, pc : {"while", "add", "return"}, seplen : Nat, left : Nat, cnt : Nat,
           list : Home, list_dyn : Addr \cup {NULL}, listmax : Nat]

ASSUME CellAssumption == NULL \notin Part /\ Junk \notin Part \cup {NULL}
ASSUME FreeAssumption == /\ \A n \in 1..MaxCells : FREE \notin Array(n)
                         /\ NULL \notin Locals

Blank(n) == [i \in 0..(n - 1) |-> Junk]

\* Mutant: one cell short.
Copied_short(to, from, n) ==
  [i \in DOMAIN to |-> IF i < n - 1 /\ i \in DOMAIN from THEN from[i] ELSE to[i]]

\* memcpy(to, from, n * sizeof(stx_t))
Copied(to, from, n) ==
  [i \in DOMAIN to |-> IF i < n /\ i \in DOMAIN from THEN from[i] ELSE to[i]]

\* a[i] = x
Put(a, i, x) == [j \in DOMAIN a |-> IF j = i THEN x ELSE a[j]]

\* A write or read of cells that are not all there.
Overrun(cells, a) == IF cells \subseteq DOMAIN a THEN {} ELSE {"overrun"}

Unused == {a \in Addr : store[a] = FREE}
NoList == [list |-> NULL, cnt |-> 0]
Holding == {v \in Var : held[v] # NoList}

\* The cells stx_list_free looks at, up to the first NULL.
UpToNull(a) == {i \in DOMAIN a : \A j \in 0..i : a[j] # NULL}

-----------------------------------------------------------------------------
(* Memory.                                                                 *)

\* An allocation fails.
Fails == failures < MaxFailures /\ failures' = failures + 1

\* from(beg, end-beg): the next part x, or NULL.
From(x) ==
  \/ /\ x = <<calls, call.cnt + 1>>
     /\ parts' = parts \cup {x}
     /\ UNCHANGED failures
  \/ x = NULL /\ Fails /\ UNCHANGED parts

FromResult == {<<calls, call.cnt + 1>>, NULL}

-----------------------------------------------------------------------------
(* The call.                                                               *)

\* Mutant: an empty separator is searched for like any other.
NothingToFind_ever(seplen) == FALSE

\* `if (!seplen) goto fin`: strstr(s,"") == s, for ever.
NothingToFind(seplen) == seplen = 0

\* The program calls stx_split_len for a source with n separators.
Call(v, n, seplen) ==
  /\ call = NULL /\ v \notin Holding
  /\ calls < MaxCalls
  /\ calls' = calls + 1
  /\ IF NothingToFind(seplen)
     THEN UNCHANGED <<call, store>>      \* returns NULL and 0
     ELSE /\ call' = [v |-> v, pc |-> "while", seplen |-> seplen, left |-> n, cnt |-> 0,
                      list |-> "local", list_dyn |-> NULL, listmax |-> LIST_LOCAL_MAX]
          /\ store' = [store EXCEPT !["local"] = Blank(LIST_LOCAL_MAX)]
  /\ UNCHANGED <<parts, held, failures, moved, faults>>

\* fin: *outcnt = cnt; return ret.  The stack frame goes.
Returns(list, cnt) ==
  /\ held' = [held EXCEPT ![call.v] = [list |-> list, cnt |-> cnt]]
  /\ call' = NULL

Running(pc) == call # NULL /\ call.pc = pc

\* Mutant: a list keeps room for one more part, not for two.
Cramped_late(c) == c.cnt >= c.listmax - 1

\* -2 : last part + sentinel
Cramped(c) == c.cnt >= c.listmax - 2

\* strstr finds another separator and the list has no room for its part.
MustWiden == Running("while") /\ call.left > 0 /\ Cramped(call)

\* From the stack to list_pool.
ToPool ==
  /\ MustWiden /\ call.list = "local"
  /\ store' = [store EXCEPT !["pool"] = Copied(store["pool"], store["local"], call.cnt)]
  /\ call' = [call EXCEPT !.list = "pool", !.listmax = LIST_POOL_MAX, !.pc = "add"]
  /\ faults' = faults \cup Overrun(0..(call.cnt - 1), store["pool"])
  /\ UNCHANGED <<parts, held, calls, failures, moved>>

\* Mutant: listmax doubles after the size of the new array was taken from it.
NewSize_stale == call.listmax

\* listmax *= 2; newsz = listmax * sizeof(stx_t)
NewSize == 2 * call.listmax

\* From list_pool to the heap.
ToHeap ==
  /\ MustWiden /\ call.list = "pool"
  /\ NewSize <= MaxCells
  /\ \E a \in Unused :
       /\ store' = [store EXCEPT ![a] = Copied(Blank(NewSize), store["pool"], call.cnt)]
       /\ call' = [call EXCEPT !.list = a, !.list_dyn = a, !.listmax = 2 * @, !.pc = "add"]
  /\ UNCHANGED <<parts, held, calls, failures, moved, faults>>

\* To an array twice as large.  list_dyn stays what it was.
Widen ==
  /\ MustWiden /\ call.list \in Addr
  /\ NewSize <= MaxCells
  /\ \E a \in Unused \cup {call.list} :
       /\ store' = [store EXCEPT ![call.list] = FREE,
                                 ![a] = Copied(Blank(NewSize), store[call.list], call.listmax)]
       /\ call' = [call EXCEPT !.list = a, !.listmax = 2 * @, !.pc = "add"]
       /\ moved' = (moved \/ a # call.list)
  /\ UNCHANGED <<parts, held, calls, failures, faults>>

\* malloc or realloc of the list fails: cnt = 0, goto fin.
NoRoom ==
  /\ MustWiden /\ call.list # "local"
  /\ Fails
  /\ Returns(NULL, 0)
  /\ store' = [store EXCEPT !["local"] = FREE]
  /\ UNCHANGED <<parts, calls, moved, faults>>

\* list[cnt++] = from(..)
Add(pc, left) ==
  /\ \E x \in FromResult :
       /\ From(x)
       /\ store' = [store EXCEPT ![call.list] = Put(@, call.cnt, x)]
  /\ call' = [call EXCEPT !.cnt = @ + 1, !.left = left, !.pc = pc]
  /\ faults' = faults \cup Overrun({call.cnt}, store[call.list])
  /\ UNCHANGED <<held, calls, moved>>

\* end += seplen
Past(c) == c.left - c.seplen

\* A part before a separator.
AddPart ==
  /\ \/ Running("while") /\ call.left > 0 /\ ~Cramped(call)
     \/ Running("add")
  /\ Add("while", Past(call))

\* The part after the last separator.
LastPart == Running("while") /\ call.left = 0 /\ Add("return", 0)

\* Mutant: the caller is given the list wherever it is.
ReturnAt_home == {call.list}

\* Mutant: a list on the heap is copied like the others.
ReturnAt_new == Unused

\* The list itself if it is the malloc'ed one, else a copy.
ReturnAt == IF call.list = call.list_dyn THEN {call.list} ELSE Unused

\* ret[cnt] = NULL; *outcnt = cnt; return ret
Return ==
  /\ Running("return")
  /\ \E a \in ReturnAt :
       LET array == IF a = call.list THEN store[a]
                    ELSE Copied(Blank(call.cnt + 1), store[call.list], call.cnt)
       IN /\ store' = [store EXCEPT !["local"] = FREE, ![a] = Put(array, call.cnt, NULL)]
          /\ faults' = faults \cup Overrun({call.cnt}, array)
          /\ Returns(a, call.cnt)
  /\ UNCHANGED <<parts, calls, failures, moved>>

\* The malloc of the copy fails: cnt = 0, goto fin.
NoCopy ==
  /\ Running("return") /\ call.list # call.list_dyn
  /\ Fails
  /\ Returns(NULL, 0)
  /\ store' = [store EXCEPT !["local"] = FREE]
  /\ UNCHANGED <<parts, calls, moved, faults>>

Step == ToPool \/ ToHeap \/ Widen \/ NoRoom \/ AddPart \/ LastPart \/ Return \/ NoCopy

-----------------------------------------------------------------------------
(* stx_list_free.                                                          *)

\* The program releases a list it got.
stx_list_free(v) ==
  /\ call = NULL /\ held[v].list # NULL
  /\ LET a == store[held[v].list]
         freed == {a[i] : i \in UpToNull(a)}
     IN /\ parts' = parts \ freed
        /\ faults' = faults \cup (IF freed \subseteq parts THEN {} ELSE {"double_free"})
                            \cup (IF NULL \in {a[i] : i \in DOMAIN a} THEN {} ELSE {"overrun"})
  /\ store' = [store EXCEPT ![held[v].list] = FREE]
  /\ held' = [held EXCEPT ![v] = NoList]
  /\ UNCHANGED <<call, calls, failures, moved>>

Init ==
  /\ store = [h \in Home |-> IF h = "pool" THEN [i \in 0..(LIST_POOL_MAX - 1) |-> NULL]
                             ELSE FREE]
  /\ parts = {} /\ call = NULL /\ held = [v \in Var |-> NoList]
  /\ calls = 0 /\ failures = 0 /\ moved = FALSE /\ faults = {}

Next ==
  \/ \E v \in Var : \/ \E n \in Seps, seplen \in {0, 1} : Call(v, n, seplen)
                    \/ stx_list_free(v)
  \/ Step

Spec == Init /\ [][Next]_vars

\* A function that was called goes on to its return; nothing makes the program
\* call again, or free what it holds.
FairSpec == Spec /\ WF_vars(Step)

-----------------------------------------------------------------------------
(* What should hold.                                                       *)

ListOf(v) == store[held[v].list]
Listed(a, n) == {a[i] : i \in 0..(n - 1)} \ {NULL}

\* Types; and listmax is the size of the array the list is in.
TypeOK ==
  /\ \A h \in Home : store[h] = FREE \/ \E n \in 1..MaxCells : store[h] \in Array(n)
  /\ parts \subseteq Part
  /\ call # NULL => call \in Locals /\ store[call.list] \in Array(call.listmax)
  /\ \A v \in Var : held[v].list \in Addr \cup {NULL} /\ held[v].cnt \in Nat
  /\ calls \in 0..MaxCalls /\ failures \in 0..MaxFailures
  /\ moved \in BOOLEAN /\ faults \subseteq {"overrun", "double_free"}

\* Nothing undefined: the arrays on the stack, in the pool and on the heap, the
\* last part and the sentinel included, are written and read inside their bounds
\* only, stx_list_free meets a NULL, and frees no part twice.
NoFault == faults = {}

\* The parts in the lists, held or being built, and the malloc'ed arrays of those.
HeldParts == UNION {Listed(ListOf(v), held[v].cnt) : v \in Holding}
ListedParts == HeldParts \cup (IF call = NULL THEN {} ELSE Listed(store[call.list], call.cnt))
ListArrays == {held[v].list : v \in Holding} \cup (IF call = NULL THEN {} ELSE {call.list} \cap Addr)

\* As long as no allocation fails, every part is in a list that the program holds
\* or that is being built; as long as realloc has not moved one either, so is
\* every array.
NothingLost ==
  failures = 0 => parts = ListedParts /\ (moved \/ Addr \ Unused = ListArrays)

\* Whatever fails or moves: a list the program holds is a malloc'ed array of its
\* own, that later calls, failures and frees of other lists have not given away,
\* with live parts that are in no other list.
NothingShared ==
  \A v \in Holding :
    /\ held[v].list \in Addr \ Unused
    /\ Listed(ListOf(v), held[v].cnt) \subseteq parts
    /\ \A w \in Holding \ {v} :
         /\ held[v].list # held[w].list
         /\ Listed(ListOf(v), held[v].cnt) \cap Listed(ListOf(w), held[w].cnt) = {}
    /\ call # NULL => call.list # held[v].list

\* A call returns: the search ends, also for an empty separator, and moving the
\* list always makes the room it is moved for.
CallsReturn == call # NULL ~> call = NULL
=============================================================================
