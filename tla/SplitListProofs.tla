---------------------------- MODULE SplitListProofs ----------------------------
(***************************************************************************)
(* Proofs about stx_split_len and stx_list_free, for every number of cells *)
(* on the stack and in the pool, every source, every set of variables and  *)
(* addresses and every pattern of failing and moving allocations.          *)
(*                                                                         *)
(* None of the invariants is inductive as it stands.  That no cell outside *)
(* an array is written (NoFault) needs the room a call still has at each   *)
(* place (RoomOK): one cell for the NULL, unless the list is in the pool   *)
(* and will be copied, one for the last part, and one for the part at hand *)
(* after the list moved.  That a free meets a NULL and only live parts     *)
(* needs what a delivered list looks like (HeldOK), which needs the same   *)
(* of the list that is being built (BuiltOK).  That nothing is freed twice *)
(* needs that no two lists have an array or a part in common (ApartOK),    *)
(* and that the parts of a running call are newer than all delivered ones  *)
(* (Done).  That nothing is lost is the last conjunct (WholeOK).           *)
(***************************************************************************)
EXTENDS SplitImplement, TLAPS

\* Every array is one, and the static one is always there.
StoreOK ==
  /\ store = [h \in Home |-> store[h]]
  /\ \A h \in Home : store[h] = FREE \/ \E n \in 1..MaxCells : store[h] \in Array(n)
  /\ store["pool"] \in Array(LIST_POOL_MAX)

CountsOK ==
  /\ parts \subseteq Part
  /\ calls \in 0..MaxCalls /\ failures \in 0..MaxFailures
  /\ moved \in BOOLEAN /\ faults = {}

\* Where the list is, and what the locals say of it.
CallOK ==
  call # NULL =>
    /\ call \in Locals /\ call.seplen = 1 /\ calls >= 1
    /\ call.v \notin Holding
    /\ call.listmax \in 2..MaxCells /\ store[call.list] \in Array(call.listmax)
    /\ call.list = "local" => call.listmax = LIST_LOCAL_MAX /\ call.list_dyn = NULL
    /\ call.list = "pool" => call.listmax = LIST_POOL_MAX /\ call.list_dyn = NULL
    /\ call.list \in Addr => moved \/ call.list_dyn = call.list
    /\ call.pc = "add" => call.left > 0 /\ call.list # "local"
    /\ call.pc = "return" => call.left = 0

\* How many cells are left.  Only a list on the heap is returned as it is.
RoomOK ==
  call # NULL =>
    LET left == call.listmax - call.cnt
        own  == IF call.list = "pool" THEN 0 ELSE 1
    IN /\ call.pc = "while"  => left >= own + 1
       /\ call.pc = "add"    => left >= own + 2
       /\ call.pc = "return" => left >= own

\* The list that is being built.
BuiltOK ==
  call # NULL =>
    \A i \in 0..(call.cnt - 1) :
      store[call.list][i] = NULL \/ (store[call.list][i] = <<calls, i + 1>> /\ <<calls, i + 1>> \in parts)

\* The number of the last call that returned.
Done == IF call = NULL THEN calls ELSE calls - 1

\* A list the program holds: whole, with its NULL, and of older parts.
HeldOK ==
  /\ held \in [Var -> [list : Addr \cup {NULL}, cnt : Nat]]
  /\ \A v \in Holding :
       /\ held[v].list \in Addr /\ store[held[v].list] # FREE
       /\ held[v].cnt \in DOMAIN ListOf(v) /\ ListOf(v)[held[v].cnt] = NULL
       /\ \A i \in 0..(held[v].cnt - 1) :
            ListOf(v)[i] = NULL \/ (ListOf(v)[i] \in parts /\ ListOf(v)[i][1] <= Done)

\* No two lists have an array or a part in common.
ApartOK ==
  \A v \in Holding :
    /\ call # NULL => call.list # held[v].list
    /\ \A w \in Holding \ {v} :
         /\ held[v].list # held[w].list
         /\ \A i \in 0..(held[v].cnt - 1), j \in 0..(held[w].cnt - 1) :
              ListOf(v)[i] = ListOf(w)[j] => ListOf(v)[i] = NULL

\* When nothing fails, no list has a gap, and every part and array is in one.
WholeOK ==
  failures = 0 =>
    /\ \A v \in Holding : \A i \in 0..(held[v].cnt - 1) : ListOf(v)[i] # NULL
    /\ call # NULL => \A i \in 0..(call.cnt - 1) : store[call.list][i] # NULL
    /\ \A p \in parts :
         \/ \E v \in Holding : \E i \in 0..(held[v].cnt - 1) : ListOf(v)[i] = p
         \/ call # NULL /\ \E i \in 0..(call.cnt - 1) : store[call.list][i] = p
    /\ moved \/ \A a \in Addr : store[a] # FREE =>
         \/ \E v \in Holding : held[v].list = a
         \/ call # NULL /\ call.list = a

IInv == StoreOK /\ CountsOK /\ CallOK /\ RoomOK /\ BuiltOK /\ HeldOK /\ ApartOK /\ WholeOK

-----------------------------------------------------------------------------
(* Arrays.                                                                 *)

LEMMA Constants ==
  /\ NULL \notin Addr /\ "local" \notin Addr /\ "pool" \notin Addr
  /\ "local" \in Home /\ "pool" \in Home /\ Addr \subseteq Home
  /\ Part \subseteq Cell /\ NULL \in Cell /\ Junk \in Cell /\ NULL \notin Part
  /\ LIST_LOCAL_MAX \in Nat /\ LIST_POOL_MAX \in Nat /\ MaxCells \in Nat
  /\ LIST_LOCAL_MAX \in 2..MaxCells /\ LIST_POOL_MAX \in 2..MaxCells
  /\ LIST_LOCAL_MAX <= LIST_POOL_MAX /\ LIST_POOL_MAX < MaxCells
BY HomeAssumption, CellAssumption, ListMaxAssumption, BoundAssumption DEF Home, Cell

LEMMA ArrayNotFree ==
  ASSUME NEW n \in 1..MaxCells, NEW a \in Array(n)
  PROVE  a # FREE
BY FreeAssumption

LEMMA BlankOK ==
  ASSUME NEW n \in Nat
  PROVE  Blank(n) \in Array(n)
BY Constants DEF Blank, Array

LEMMA PutOK ==
  ASSUME NEW n \in Nat, NEW a \in Array(n), NEW i \in 0..(n - 1), NEW x \in Cell
  PROVE  /\ Put(a, i, x) \in Array(n)
         /\ Put(a, i, x)[i] = x
         /\ \A j \in 0..(n - 1) : j # i => Put(a, i, x)[j] = a[j]
BY DEF Put, Array

\* An array of n cells of which the first k are those of another.
IsCopy(new, n, from, k) == new \in Array(n) /\ \A i \in 0..(k - 1) : new[i] = from[i]

LEMMA CopiedOK ==
  ASSUME NEW n \in Nat, NEW m \in Nat, NEW to \in Array(n), NEW from \in Array(m),
         NEW k \in Nat, k <= n, k <= m
  PROVE  IsCopy(Copied(to, from, k), n, from, k)
BY DEF Copied, Array, IsCopy

LEMMA InBounds ==
  ASSUME NEW n \in Nat, NEW a \in Array(n), NEW cells, cells \subseteq 0..(n - 1)
  PROVE  Overrun(cells, a) = {}
BY DEF Overrun, Array

-----------------------------------------------------------------------------
(* The lists the program holds, while a call runs or another list goes.    *)

Undisturbed ==
  /\ held' = held
  /\ parts \subseteq parts'
  /\ \A v \in Holding : store'[held[v].list] = store[held[v].list]

LEMMA UndisturbedLists ==
  ASSUME Undisturbed
  PROVE  Holding' = Holding /\ \A v \in Holding : ListOf(v)' = ListOf(v)
BY DEF Undisturbed, Holding, ListOf

LEMMA HeldStep ==
  ASSUME HeldOK, CountsOK, CallOK, Undisturbed, calls' \in Nat, Done \in Int, Done' \in Int, Done <= Done'
  PROVE  HeldOK'
<1>1. Holding' = Holding /\ \A v \in Holding : ListOf(v)' = ListOf(v)
  BY UndisturbedLists
<1>2. \A v \in Holding : /\ held'[v] = held[v] /\ held'[v].list \in Addr
                         /\ store'[held'[v].list] # FREE
  BY DEF HeldOK, Undisturbed
<1>3. ASSUME NEW v \in Holding, NEW i \in 0..(held[v].cnt - 1)
      PROVE  ListOf(v)[i] = NULL \/ (ListOf(v)[i] \in parts' /\ ListOf(v)[i][1] <= Done')
  <2>1. CASE ListOf(v)[i] \in parts /\ ListOf(v)[i][1] <= Done
    <3>1. ListOf(v)[i][1] \in Int
      BY <2>1, BoundAssumption DEF CountsOK, Part
    <3> QED
      BY <2>1, <3>1 DEF Undisturbed
  <2> QED
    BY <2>1 DEF HeldOK
<1>4. held' \in [Var -> [list : Addr \cup {NULL}, cnt : Nat]]
  BY DEF HeldOK, Undisturbed
<1> QED
  BY <1>1, <1>2, <1>3, <1>4 DEF HeldOK

LEMMA ApartStep ==
  ASSUME ApartOK, Undisturbed,
         call' # NULL => \A v \in Holding : call'.list # held[v].list
  PROVE  ApartOK'
<1>1. Holding' = Holding /\ \A v \in Holding : ListOf(v)' = ListOf(v)
  BY UndisturbedLists
<1>2. held' = held
  BY DEF Undisturbed
<1> QED
  BY <1>1, <1>2 DEF ApartOK

-----------------------------------------------------------------------------
(* The call begins.                                                        *)

LEMMA CallStep ==
  ASSUME IInv, NEW v \in Var, NEW n \in Seps, NEW seplen \in {0, 1}, Call(v, n, seplen)
  PROVE  IInv' /\ Undisturbed
<1>1. /\ call = NULL /\ v \notin Holding /\ calls < MaxCalls /\ calls' = calls + 1
      /\ parts' = parts /\ held' = held /\ failures' = failures /\ moved' = moved
      /\ faults' = faults /\ n \in Nat
  BY SepsAssumption DEF Call
<1>2. CountsOK'
  BY <1>1, BoundAssumption DEF IInv, CountsOK
<1>3. CASE UNCHANGED <<call, store>>
  <2>1. Undisturbed
    BY <1>1, <1>3 DEF Undisturbed
  <2>2. HeldOK' /\ ApartOK'
    <3>1. calls' \in Nat /\ Done \in Int /\ Done' \in Int /\ Done <= Done'
      BY <1>1, <1>3, BoundAssumption DEF IInv, CountsOK, Done
    <3> QED
      BY <1>1, <1>3, <2>1, <3>1, HeldStep, ApartStep DEF IInv
  <2>3. WholeOK'
    BY <1>1, <1>3 DEF IInv, WholeOK, Holding, ListOf
  <2>4. StoreOK' /\ CallOK' /\ RoomOK' /\ BuiltOK'
    BY <1>1, <1>3 DEF IInv, StoreOK, CallOK, RoomOK, BuiltOK
  <2> QED
    BY <1>2, <2>1, <2>2, <2>3, <2>4 DEF IInv
<1>4. CASE /\ call' = [v |-> v, pc |-> "while", seplen |-> seplen, left |-> n, cnt |-> 0,
                       list |-> "local", list_dyn |-> NULL, listmax |-> LIST_LOCAL_MAX]
           /\ store' = [store EXCEPT !["local"] = Blank(LIST_LOCAL_MAX)]
           /\ seplen = 1
  <2>1. call' \in Locals /\ call' # NULL
    BY <1>1, <1>4, Constants, FreeAssumption DEF Locals
  <2>2. \A h \in Home : store'[h] = IF h = "local" THEN Blank(LIST_LOCAL_MAX) ELSE store[h]
    BY <1>4, Constants DEF IInv, StoreOK
  <2>3. Blank(LIST_LOCAL_MAX) \in Array(LIST_LOCAL_MAX)
    BY Constants, BlankOK
  <2>4. StoreOK'
    <3>1. store' = [h \in Home |-> store'[h]]
      BY <1>4 DEF IInv, StoreOK
    <3>2. \A h \in Home : store'[h] = FREE \/ \E m \in 1..MaxCells : store'[h] \in Array(m)
      BY <2>2, <2>3, Constants DEF IInv, StoreOK
    <3>3. store'["pool"] \in Array(LIST_POOL_MAX)
      BY <2>2, Constants DEF IInv, StoreOK
    <3> QED
      BY <3>1, <3>2, <3>3 DEF StoreOK
  <2>5. \A w \in Holding : held[w].list \in Addr /\ held[w].list # "local"
    BY Constants DEF IInv, HeldOK
  <2>6. Undisturbed
    BY <1>1, <2>2, <2>5, Constants DEF Undisturbed
  <2>7. Holding' = Holding /\ \A w \in Holding : ListOf(w)' = ListOf(w)
    BY <2>6, UndisturbedLists
  <2>8. HeldOK'
    <3>1. calls' \in Nat /\ Done \in Int /\ Done' \in Int /\ Done <= Done'
      BY <1>1, <2>1, BoundAssumption DEF IInv, CountsOK, Done
    <3> QED
      BY <2>6, <3>1, HeldStep DEF IInv
  <2>9. ApartOK'
    <3>1. \A w \in Holding : call'.list # held[w].list
      BY <1>4, <2>5
    <3> QED
      BY <2>6, <3>1, ApartStep DEF IInv
  <2>10. CallOK'
    <3>1. calls' >= 1
      BY <1>1 DEF IInv, CountsOK
    <3>2. /\ call'.v = v /\ call'.pc = "while" /\ call'.seplen = 1 /\ call'.list = "local"
          /\ call'.list_dyn = NULL /\ call'.listmax = LIST_LOCAL_MAX
      BY <1>4
    <3>3. store'["local"] \in Array(LIST_LOCAL_MAX)
      BY <2>2, <2>3, Constants
    <3> QED
      BY <1>1, <2>1, <2>7, <3>1, <3>2, <3>3, Constants DEF CallOK
  <2>11. RoomOK' /\ BuiltOK'
    BY <1>4, Constants DEF RoomOK, BuiltOK
  <2>12. WholeOK'
    <3> SUFFICES ASSUME failures = 0
                 PROVE  WholeOK'
      BY <1>1 DEF WholeOK
    <3>1. \A w \in Holding : \A i \in 0..(held[w].cnt - 1) : ListOf(w)[i] # NULL
      BY DEF IInv, WholeOK
    <3>2. \A q \in parts : \E w \in Holding : \E i \in 0..(held[w].cnt - 1) : ListOf(w)[i] = q
      BY <1>1 DEF IInv, WholeOK
    <3>3. moved \/ \A a \in Addr : store'[a] # FREE => \E w \in Holding : held[w].list = a
      BY <1>1, <2>2, Constants DEF IInv, WholeOK
    <3>4. \A i \in 0..(call'.cnt - 1) : FALSE
      BY <1>4
    <3> QED
      BY <1>1, <2>7, <3>1, <3>2, <3>3, <3>4 DEF WholeOK
  <2> QED
    BY <1>2, <2>4, <2>6, <2>8, <2>9, <2>10, <2>11, <2>12 DEF IInv
<1> QED
  BY <1>1, <1>3, <1>4 DEF Call, NothingToFind

-----------------------------------------------------------------------------
(* The list moves.                                                         *)

\* What the running call's list is apart from.
LEMMA HeldApart ==
  ASSUME IInv, call # NULL
  PROVE  \A v \in Holding : /\ held[v].list \in Addr /\ held[v].list \notin Unused
                            /\ held[v].list # call.list
                            /\ held[v].list # "local" /\ held[v].list # "pool"
BY Constants DEF IInv, HeldOK, ApartOK, Unused

\* The cells so far go to the array at home, of max cells, and the call on to add.
MovedTo(home, max, dyn) ==
  /\ home \in Home \ {"local"} /\ max \in 2..MaxCells
  /\ call'.list = home /\ call'.listmax = max /\ call'.pc = "add" /\ call'.list_dyn = dyn
  /\ call'.cnt = call.cnt /\ call'.left = call.left /\ call'.v = call.v /\ call'.seplen = call.seplen
  /\ call' \in Locals
  /\ store' = [h \in Home |-> store'[h]]
  /\ store'[home] \in Array(max)
  /\ \A i \in 0..(call.cnt - 1) : store'[home][i] = store[call.list][i]
  /\ home = "pool" \/ store'["pool"] = store["pool"]
  /\ \A h \in Home \ {home} : store'[h] = store[h] \/ (h = call.list /\ store'[h] = FREE)
  /\ home \in Addr \cap Unused \/ home = call.list \/ home = "pool"
  /\ home = "pool" => max = LIST_POOL_MAX /\ dyn = NULL /\ call.list = "local"
  /\ home \in Addr => moved' \/ dyn = home
  /\ moved' \in BOOLEAN /\ (moved => moved')
  /\ home \in Addr /\ ~moved' => call.list \notin Addr \ {home}
  /\ max - call.cnt >= IF home = "pool" THEN 2 ELSE 3
  /\ parts' = parts /\ held' = held /\ calls' = calls /\ failures' = failures /\ faults' = {}

LEMMA MovedStep ==
  ASSUME IInv, MustWiden, NEW home, NEW max, NEW dyn, MovedTo(home, max, dyn)
  PROVE  IInv' /\ Undisturbed
<1>1. /\ call # NULL /\ call.left > 0 /\ call \in Locals /\ call' # NULL
      /\ call.seplen = 1 /\ calls >= 1 /\ call.v \notin Holding /\ call.cnt \in Nat
      /\ call.list \in Home
  BY FreeAssumption DEF MustWiden, Running, IInv, CallOK, MovedTo, Locals
<1>2. Undisturbed
  <2>1. \A v \in Holding : store'[held[v].list] = store[held[v].list]
    BY <1>1, HeldApart, Constants DEF MovedTo
  <2> QED
    BY <2>1 DEF MovedTo, Undisturbed
<1>3. Holding' = Holding /\ \A v \in Holding : ListOf(v)' = ListOf(v)
  BY <1>2, UndisturbedLists
<1>4. StoreOK'
  <2>1. \A h \in Home : store'[h] = FREE \/ \E m \in 1..MaxCells : store'[h] \in Array(m)
    BY Constants DEF MovedTo, IInv, StoreOK
  <2>2. store'["pool"] \in Array(LIST_POOL_MAX)
    BY DEF MovedTo, IInv, StoreOK
  <2> QED
    BY <2>1, <2>2 DEF MovedTo, StoreOK
<1>5. CountsOK'
  BY DEF MovedTo, IInv, CountsOK
<1>6. CallOK'
  BY <1>1, <1>3, Constants DEF MovedTo, CallOK
<1>7. RoomOK'
  BY <1>1, Constants DEF MovedTo, RoomOK
<1>8. BuiltOK'
  BY <1>1 DEF MovedTo, IInv, BuiltOK
<1>9. HeldOK'
  <2>1. calls' \in Nat /\ Done' = Done /\ Done \in Int
    BY <1>1, BoundAssumption DEF MovedTo, IInv, CountsOK, Done
  <2> QED
    BY <1>2, <2>1, HeldStep DEF IInv
<1>10. ApartOK'
  <2>1. \A v \in Holding : call'.list # held[v].list
    BY <1>1, HeldApart DEF MovedTo
  <2> QED
    BY <1>2, <2>1, ApartStep DEF IInv
<1>11. WholeOK'
  <2> SUFFICES ASSUME failures = 0
               PROVE  WholeOK'
    BY DEF WholeOK, MovedTo
  <2>1. /\ \A v \in Holding : \A i \in 0..(held[v].cnt - 1) : ListOf(v)[i] # NULL
        /\ \A i \in 0..(call.cnt - 1) : store[call.list][i] # NULL
        /\ \A p \in parts :
             \/ \E v \in Holding : \E i \in 0..(held[v].cnt - 1) : ListOf(v)[i] = p
             \/ \E i \in 0..(call.cnt - 1) : store[call.list][i] = p
        /\ moved \/ \A a \in Addr : store[a] # FREE =>
             \/ \E v \in Holding : held[v].list = a
             \/ call.list = a
    BY <1>1 DEF IInv, WholeOK
  <2>2. \A i \in 0..(call'.cnt - 1) : store'[call'.list][i] = store[call.list][i] /\ i \in 0..(call.cnt - 1)
    BY DEF MovedTo
  <2>3. \A p \in parts :
             \/ \E v \in Holding : \E i \in 0..(held[v].cnt - 1) : ListOf(v)[i] = p
             \/ \E i \in 0..(call'.cnt - 1) : store'[call'.list][i] = p
    BY <2>1, <2>2 DEF MovedTo
  <2>4. moved' \/ \A a \in Addr : store'[a] # FREE =>
             \/ \E v \in Holding : held[v].list = a
             \/ call'.list = a
    <3> SUFFICES ASSUME ~moved', NEW a \in Addr, store'[a] # FREE, a # home
                 PROVE  \E v \in Holding : held[v].list = a
      BY DEF MovedTo
    <3>1. store[a] # FREE /\ ~moved
      BY Constants DEF MovedTo
    <3>2. CASE home = "pool"
      BY <2>1, <3>1, <3>2, <1>1, Constants DEF MovedTo, IInv, CallOK
    <3>3. CASE home \in Addr
      BY <2>1, <3>1, <3>3 DEF MovedTo
    <3> QED
      BY <3>2, <3>3 DEF MovedTo, Home
  <2> QED
    BY <1>1, <1>3, <2>1, <2>2, <2>3, <2>4 DEF WholeOK, MovedTo
<1> QED
  BY <1>2, <1>4, <1>5, <1>6, <1>7, <1>8, <1>9, <1>10, <1>11 DEF IInv

\* What the steps that move the list start from.
LEMMA Widening ==
  ASSUME IInv, MustWiden
  PROVE  /\ call # NULL /\ call \in Locals /\ call.pc = "while" /\ call.list \in Home
         /\ call.listmax \in 2..MaxCells /\ call.cnt \in Nat /\ call.left \in Nat
         /\ store[call.list] \in Array(call.listmax)
         /\ call.listmax - call.cnt >= IF call.list = "pool" THEN 1 ELSE 2
         /\ call.cnt <= call.listmax
         /\ moved \in BOOLEAN /\ faults = {}
         /\ store = [h \in Home |-> store[h]] /\ store["pool"] \in Array(LIST_POOL_MAX)
<1>1. call # NULL /\ call.pc = "while"
  BY DEF MustWiden, Running
<1>2. call \in Locals /\ call.listmax \in 2..MaxCells /\ store[call.list] \in Array(call.listmax)
  BY <1>1 DEF IInv, CallOK
<1>3. call.cnt \in Nat /\ call.left \in Nat /\ call.list \in Home
  BY <1>2 DEF Locals
<1>4. call.listmax - call.cnt >= IF call.list = "pool" THEN 1 ELSE 2
  <2>1. call.listmax - call.cnt >= (IF call.list = "pool" THEN 0 ELSE 1) + 1
    BY <1>1 DEF IInv, RoomOK
  <2> QED
    BY <1>2, <1>3, <2>1, Constants
<1> QED
  BY <1>1, <1>2, <1>3, <1>4, Constants DEF IInv, StoreOK, CountsOK

LEMMA ToPoolMoves ==
  ASSUME IInv, ToPool
  PROVE  \E home, max, dyn : MovedTo(home, max, dyn)
<1>1. PICK c : c = call
  OBVIOUS
<1>2. /\ c \in Locals /\ c.list = "local" /\ c.cnt \in Nat /\ c.listmax = LIST_LOCAL_MAX
      /\ c.list_dyn = NULL /\ c.listmax - c.cnt >= 2
      /\ store["local"] \in Array(LIST_LOCAL_MAX)
  BY <1>1, Widening, Constants DEF ToPool, IInv, CallOK
<1>3. call' = [c EXCEPT !.list = "pool", !.listmax = LIST_POOL_MAX, !.pc = "add"]
  BY <1>1 DEF ToPool
<1>4. /\ call'.list = "pool" /\ call'.listmax = LIST_POOL_MAX /\ call'.pc = "add"
      /\ call'.list_dyn = NULL /\ call'.cnt = c.cnt /\ call'.left = c.left
      /\ call'.v = c.v /\ call'.seplen = c.seplen /\ call' \in Locals
  BY <1>2, <1>3, Constants DEF Locals
<1>5. PICK new : new = Copied(store["pool"], store["local"], c.cnt)
  OBVIOUS
<1>6. new \in Array(LIST_POOL_MAX) /\ \A i \in 0..(c.cnt - 1) : new[i] = store["local"][i]
  <2>1. PICK to, from, k : to = store["pool"] /\ from = store["local"] /\ k = c.cnt
    OBVIOUS
  <2>2. /\ k \in Nat /\ k <= LIST_POOL_MAX /\ k <= LIST_LOCAL_MAX
        /\ to \in Array(LIST_POOL_MAX) /\ from \in Array(LIST_LOCAL_MAX)
    BY <1>2, <2>1, Constants DEF IInv, StoreOK
  <2>3. /\ Copied(to, from, k) \in Array(LIST_POOL_MAX)
        /\ \A i \in 0..(k - 1) : Copied(to, from, k)[i] = from[i]
    <3>1. LIST_POOL_MAX \in Nat /\ LIST_LOCAL_MAX \in Nat
      BY Constants
    <3>2. IsCopy(Copied(to, from, k), LIST_POOL_MAX, from, k)
      BY <2>2, <3>1, CopiedOK
    <3> QED
      BY <3>2 DEF IsCopy
  <2> QED
    BY <1>5, <2>1, <2>3
<1>7. store' = [store EXCEPT !["pool"] = new]
  BY <1>1, <1>5 DEF ToPool
<1>8. \A h \in Home : store'[h] = IF h = "pool" THEN new ELSE store[h]
  BY <1>7, Widening DEF ToPool
<1>9. faults' = {}
  <2>1. 0..(c.cnt - 1) \subseteq 0..(LIST_POOL_MAX - 1)
    BY <1>2, Constants
  <2>2. Overrun(0..(c.cnt - 1), store["pool"]) = {}
    BY <2>1, InBounds, Constants DEF IInv, StoreOK
  <2> QED
    BY <1>1, <2>2, Widening DEF ToPool
<1>10. MovedTo("pool", LIST_POOL_MAX, NULL)
  <2>1. store' = [h \in Home |-> store'[h]]
    BY <1>7, Widening DEF ToPool
  <2>2. moved' = moved /\ parts' = parts /\ held' = held /\ calls' = calls /\ failures' = failures
    BY DEF ToPool
  <2>3. moved \in BOOLEAN
    BY DEF IInv, CountsOK
  <2> QED
    BY <1>1, <1>2, <1>4, <1>6, <1>8, <1>9, <2>1, <2>2, <2>3, Constants DEF MovedTo
<1> QED
  BY <1>10

LEMMA ToHeapMoves ==
  ASSUME IInv, ToHeap
  PROVE  \E home, max, dyn : MovedTo(home, max, dyn)
<1>1. PICK c : c = call
  OBVIOUS
<1>2. PICK a \in Unused :
        /\ store' = [store EXCEPT ![a] = Copied(Blank(NewSize), store["pool"], call.cnt)]
        /\ call' = [call EXCEPT !.list = a, !.list_dyn = a, !.listmax = 2 * @, !.pc = "add"]
  BY DEF ToHeap
<1>3. /\ c \in Locals /\ c.list = "pool" /\ c.cnt \in Nat /\ c.listmax = LIST_POOL_MAX
      /\ c.listmax - c.cnt >= 1
      /\ store["pool"] \in Array(LIST_POOL_MAX)
  BY <1>1, Widening, Constants DEF ToHeap, IInv, CallOK
<1>4. PICK size : size = 2 * c.listmax
  OBVIOUS
<1>5. size \in 2..MaxCells /\ size \in Nat /\ size - c.cnt >= 3 /\ c.cnt <= size /\ NewSize = size
  BY <1>1, <1>3, <1>4, Constants DEF ToHeap, NewSize
<1>6. a \in Addr /\ a \in Unused /\ a \in Home /\ a # "pool" /\ a # "local"
  BY Constants DEF Unused
<1>7. /\ call'.list = a /\ call'.listmax = size /\ call'.pc = "add"
      /\ call'.list_dyn = a /\ call'.cnt = c.cnt /\ call'.left = c.left
      /\ call'.v = c.v /\ call'.seplen = c.seplen /\ call' \in Locals
  BY <1>1, <1>2, <1>3, <1>4, <1>5, <1>6 DEF Locals
<1>8. PICK new : new = Copied(Blank(size), store["pool"], c.cnt)
  OBVIOUS
<1>9. new \in Array(size) /\ \A i \in 0..(c.cnt - 1) : new[i] = store["pool"][i]
  <2>1. PICK to, from, k : to = Blank(size) /\ from = store["pool"] /\ k = c.cnt
    OBVIOUS
  <2>2. /\ k \in Nat /\ k <= size /\ k <= LIST_POOL_MAX
        /\ to \in Array(size) /\ from \in Array(LIST_POOL_MAX)
    BY <1>3, <1>5, <2>1, BlankOK, Constants
  <2>3. /\ Copied(to, from, k) \in Array(size)
        /\ \A i \in 0..(k - 1) : Copied(to, from, k)[i] = from[i]
    <3>1. size \in Nat /\ LIST_POOL_MAX \in Nat
      BY <1>5, Constants
    <3>2. IsCopy(Copied(to, from, k), size, from, k)
      BY <2>2, <3>1, CopiedOK
    <3> QED
      BY <3>2 DEF IsCopy
  <2> QED
    BY <1>8, <2>1, <2>3
<1>10. store' = [store EXCEPT ![a] = new]
  BY <1>1, <1>2, <1>5, <1>8
<1>11. \A h \in Home : store'[h] = IF h = a THEN new ELSE store[h]
  BY <1>6, <1>10, Widening DEF ToHeap
<1>12. MovedTo(a, size, a)
  <2>1. store' = [h \in Home |-> store'[h]]
    BY <1>10, Widening DEF ToHeap
  <2>2. /\ moved' = moved /\ parts' = parts /\ held' = held /\ calls' = calls
        /\ failures' = failures /\ faults' = {}
    BY Widening DEF ToHeap
  <2>3. moved \in BOOLEAN
    BY DEF IInv, CountsOK
  <2> QED
    BY <1>1, <1>3, <1>5, <1>6, <1>7, <1>9, <1>11, <2>1, <2>2, <2>3, Constants DEF MovedTo
<1> QED
  BY <1>12

LEMMA WidenMoves ==
  ASSUME IInv, Widen
  PROVE  \E home, max, dyn : MovedTo(home, max, dyn)
<1>1. PICK c : c = call
  OBVIOUS
<1>2. PICK a \in Unused \cup {call.list} :
       /\ store' = [store EXCEPT ![call.list] = FREE,
                                 ![a] = Copied(Blank(NewSize), store[call.list], call.listmax)]
       /\ call' = [call EXCEPT !.list = a, !.listmax = 2 * @, !.pc = "add"]
       /\ moved' = (moved \/ a # call.list)
  BY DEF Widen
<1>3. /\ c \in Locals /\ c.list \in Addr /\ c.list \in Home /\ c.list # "pool" /\ c.list # "local"
      /\ c.cnt \in Nat /\ c.listmax \in 2..MaxCells /\ c.listmax \in Nat /\ c.listmax - c.cnt >= 2
      /\ store[c.list] \in Array(c.listmax) /\ (moved \/ c.list_dyn = c.list)
  BY <1>1, Widening, Constants DEF Widen, IInv, CallOK
<1>4. PICK size : size = 2 * c.listmax
  OBVIOUS
<1>5. /\ size \in 2..MaxCells /\ size \in Nat /\ size - c.cnt >= 3 /\ c.listmax <= size
      /\ NewSize = size /\ c.cnt <= c.listmax
  BY <1>1, <1>3, <1>4, Constants DEF Widen, NewSize
<1>6. a \in Addr /\ a \in Home /\ a # "pool" /\ a # "local"
  BY <1>1, <1>3, Constants DEF Unused
<1>7. /\ call'.list = a /\ call'.listmax = size /\ call'.pc = "add"
      /\ call'.list_dyn = c.list_dyn /\ call'.cnt = c.cnt /\ call'.left = c.left
      /\ call'.v = c.v /\ call'.seplen = c.seplen /\ call' \in Locals
  BY <1>1, <1>2, <1>3, <1>4, <1>5, <1>6 DEF Locals
<1>8. PICK new : new = Copied(Blank(size), store[c.list], c.listmax)
  OBVIOUS
<1>9. new \in Array(size) /\ \A i \in 0..(c.cnt - 1) : new[i] = store[c.list][i]
  <2>1. PICK to, from, k : to = Blank(size) /\ from = store[c.list] /\ k = c.listmax
    OBVIOUS
  <2>2. /\ k \in Nat /\ k <= size /\ c.cnt <= k /\ c.cnt \in Nat
        /\ to \in Array(size) /\ from \in Array(k)
    BY <1>3, <1>5, <2>1, BlankOK
  <2>3. /\ Copied(to, from, k) \in Array(size)
        /\ \A i \in 0..(k - 1) : Copied(to, from, k)[i] = from[i]
    <3>1. size \in Nat /\ k <= k
      BY <1>5, <2>2
    <3>2. IsCopy(Copied(to, from, k), size, from, k)
      BY <2>2, <3>1, CopiedOK
    <3> QED
      BY <3>2 DEF IsCopy
  <2> QED
    BY <1>8, <2>1, <2>2, <2>3
<1>10. store' = [store EXCEPT ![c.list] = FREE, ![a] = new]
  BY <1>1, <1>2, <1>5, <1>8
<1>11. \A h \in Home : store'[h] = IF h = a THEN new ELSE IF h = c.list THEN FREE ELSE store[h]
  BY <1>3, <1>6, <1>10, Widening DEF Widen
<1>12. MovedTo(a, size, c.list_dyn)
  <2>1. store' = [h \in Home |-> store'[h]]
    BY <1>10, Widening DEF Widen
  <2>2. /\ parts' = parts /\ held' = held /\ calls' = calls
        /\ failures' = failures /\ faults' = {}
    BY Widening DEF Widen
  <2>3. /\ moved' \in BOOLEAN /\ (moved => moved')
        /\ moved' \/ c.list_dyn = a
        /\ ~moved' => a = c.list
    BY <1>1, <1>2, <1>3 DEF IInv, CountsOK
  <2>4. a \in Addr \cap Unused \/ a = call.list
    BY <1>2, <1>6
  <2>5. \A h \in Home \ {a} : store'[h] = store[h] \/ (h = call.list /\ store'[h] = FREE)
    BY <1>1, <1>11
  <2>6. /\ store'["pool"] = store["pool"] /\ store'[a] \in Array(size)
        /\ \A i \in 0..(call.cnt - 1) : store'[a][i] = store[call.list][i]
    BY <1>1, <1>3, <1>6, <1>9, <1>11, Constants
  <2> QED
    BY <1>1, <1>3, <1>5, <1>6, <1>7, <2>1, <2>2, <2>3, <2>4, <2>5, <2>6, Constants DEF MovedTo
<1> QED
  BY <1>12

LEMMA Moves ==
  ASSUME IInv, ToPool \/ ToHeap \/ Widen
  PROVE  MustWiden /\ \E home, max, dyn : MovedTo(home, max, dyn)
<1>1. MustWiden
  BY DEF ToPool, ToHeap, Widen
<1> QED
  BY <1>1, ToPoolMoves, ToHeapMoves, WidenMoves

-----------------------------------------------------------------------------
(* An allocation of the list fails.                                        *)

LEMMA GiveUpStep ==
  ASSUME IInv, call # NULL, Fails, Returns(NULL, 0),
         store' = [store EXCEPT !["local"] = FREE], UNCHANGED <<parts, calls, moved, faults>>
  PROVE  IInv' /\ Undisturbed
<1>1. held' = held
  <2>1. call.v \in Var /\ held[call.v] = [list |-> NULL, cnt |-> 0]
    BY DEF IInv, CallOK, Locals, Holding, NoList
  <2>2. held = [v \in Var |-> held[v]]
    BY DEF IInv, HeldOK
  <2> QED
    BY <2>1, <2>2, Zenon DEF Returns
<1>2. \A h \in Home : store'[h] = IF h = "local" THEN FREE ELSE store[h]
  BY Constants DEF IInv, StoreOK
<1>3. call' = NULL /\ failures' = failures + 1 /\ failures < MaxFailures
  BY DEF Returns, Fails
<1>4. Undisturbed
  BY <1>1, <1>2, HeldApart, Constants DEF Undisturbed
<1>5. StoreOK'
  <2>1. store' = [h \in Home |-> store'[h]]
    BY DEF IInv, StoreOK
  <2>2. \A h \in Home : store'[h] = FREE \/ \E m \in 1..MaxCells : store'[h] \in Array(m)
    BY <1>2 DEF IInv, StoreOK
  <2>3. store'["pool"] \in Array(LIST_POOL_MAX)
    BY <1>2, Constants DEF IInv, StoreOK
  <2> QED
    BY <2>1, <2>2, <2>3 DEF StoreOK
<1>6. CountsOK'
  BY <1>3, BoundAssumption DEF IInv, CountsOK
<1>7. CallOK' /\ RoomOK' /\ BuiltOK'
  BY <1>3 DEF CallOK, RoomOK, BuiltOK
<1>8. HeldOK'
  <2>1. calls' \in Nat /\ Done \in Int /\ Done' \in Int /\ Done <= Done'
    BY <1>3, BoundAssumption DEF IInv, CountsOK, Done
  <2> QED
    BY <1>4, <2>1, HeldStep DEF IInv
<1>9. ApartOK'
  BY <1>3, <1>4, ApartStep DEF IInv
<1>10. WholeOK'
  BY <1>3, BoundAssumption DEF IInv, CountsOK, WholeOK
<1> QED
  BY <1>4, <1>5, <1>6, <1>7, <1>8, <1>9, <1>10 DEF IInv

LEMMA NoRoomStep ==
  ASSUME IInv, NoRoom
  PROVE  IInv' /\ Undisturbed
BY GiveUpStep DEF NoRoom, MustWiden, Running

LEMMA NoCopyStep ==
  ASSUME IInv, NoCopy
  PROVE  IInv' /\ Undisturbed
BY GiveUpStep DEF NoCopy, Running

-----------------------------------------------------------------------------
(* A part is added.                                                        *)

LEMMA AddStep ==
  ASSUME IInv, call # NULL, NEW pc \in {"while", "return"}, NEW left \in Nat, Add(pc, left),
         call.listmax - call.cnt >= (IF call.list = "pool" THEN 0 ELSE 1)
                                    + (IF pc = "while" THEN 2 ELSE 1),
         pc = "return" => left = 0
  PROVE  IInv' /\ Undisturbed
<1>1. PICK c, n, max, home : c = call /\ n = call.cnt /\ max = call.listmax /\ home = call.list
  OBVIOUS
<1>2. /\ c \in Locals /\ c.seplen = 1 /\ calls >= 1 /\ c.v \notin Holding /\ n \in Nat
      /\ c.list = home /\ home \in Home /\ max \in 2..MaxCells /\ store[home] \in Array(max)
      /\ n \in 0..(max - 1)
  BY <1>1, Constants DEF IInv, CallOK, Locals
<1>3. PICK x \in FromResult : From(x) /\ store' = [store EXCEPT ![home] = Put(@, n, x)]
  BY <1>1 DEF Add
<1>4. call' = [c EXCEPT !.cnt = @ + 1, !.left = left, !.pc = pc]
  BY <1>1 DEF Add
<1>5. /\ call' \in Locals /\ call'.cnt = n + 1 /\ call'.left = left /\ call'.pc = pc
      /\ call'.v = c.v /\ call'.seplen = c.seplen /\ call'.list = home
      /\ call'.list_dyn = c.list_dyn /\ call'.listmax = max /\ call' # NULL
  <2>1. c.cnt = n /\ c.listmax = max /\ n + 1 \in Nat /\ pc \in {"while", "add", "return"}
    BY <1>1, <1>2
  <2>2. call' = [c EXCEPT !.cnt = n + 1, !.left = left, !.pc = pc]
    BY <1>4, <2>1
  <2>3. call' \in Locals
    BY <1>2, <2>1, <2>2 DEF Locals
  <2>4. call' # NULL
    BY <2>3, FreeAssumption
  <2> QED
    BY <1>2, <2>1, <2>2, <2>3, <2>4 DEF Locals
<1>6. calls \in 1..MaxCalls /\ <<calls, n + 1>> \in Part
  BY <1>2, BoundAssumption DEF IInv, CountsOK, Part
<1>7. /\ x = NULL \/ (x = <<calls, n + 1>> /\ x \in parts')
      /\ x \in Cell /\ parts \subseteq parts' /\ parts' \subseteq parts \cup {x} /\ parts' \subseteq Part
      /\ failures' = failures \/ (failures' = failures + 1 /\ failures < MaxFailures)
      /\ x = NULL => failures' = failures + 1
      /\ x = NULL => parts' = parts
  BY <1>1, <1>3, <1>6, Constants DEF From, Fails, IInv, CountsOK
<1>8. PICK new : new = Put(store[home], n, x)
  OBVIOUS
<1>9. /\ new \in Array(max) /\ new[n] = x
      /\ \A j \in 0..(max - 1) : j # n => new[j] = store[home][j]
  BY <1>2, <1>7, <1>8, PutOK
<1>10. \A h \in Home : store'[h] = IF h = home THEN new ELSE store[h]
  BY <1>2, <1>3, <1>8 DEF IInv, StoreOK
<1>11. held' = held /\ calls' = calls /\ moved' = moved
  BY DEF Add
<1>12. faults' = {}
  <2>1. Overrun({n}, store[home]) = {}
    BY <1>2, InBounds
  <2> QED
    BY <1>1, <2>1 DEF Add, IInv, CountsOK
<1>13. Undisturbed
  <2>1. \A v \in Holding : held[v].list \in Home /\ held[v].list # home
    BY <1>1, HeldApart, Constants
  <2> QED
    BY <1>7, <1>10, <1>11, <2>1 DEF Undisturbed
<1>14. Holding' = Holding /\ \A v \in Holding : ListOf(v)' = ListOf(v)
  BY <1>13, UndisturbedLists
<1>15. StoreOK'
  <2>1. store' = [h \in Home |-> store'[h]]
    BY <1>3 DEF IInv, StoreOK
  <2>2. \A h \in Home : store'[h] = FREE \/ \E m \in 1..MaxCells : store'[h] \in Array(m)
    BY <1>2, <1>9, <1>10, Constants DEF IInv, StoreOK
  <2>3. store'["pool"] \in Array(LIST_POOL_MAX)
    BY <1>1, <1>9, <1>10, Constants DEF IInv, StoreOK, CallOK
  <2> QED
    BY <2>1, <2>2, <2>3 DEF StoreOK
<1>16. CountsOK'
  BY <1>7, <1>11, <1>12, BoundAssumption DEF IInv, CountsOK
<1>17. CallOK'
  <2>1. store'[home] \in Array(max)
    BY <1>2, <1>9, <1>10
  <2>2. /\ home = "local" => max = LIST_LOCAL_MAX /\ c.list_dyn = NULL
        /\ home = "pool" => max = LIST_POOL_MAX /\ c.list_dyn = NULL
        /\ home \in Addr => moved \/ c.list_dyn = home
    BY <1>1 DEF IInv, CallOK
  <2> QED
    BY <1>2, <1>5, <1>11, <1>14, <2>1, <2>2 DEF CallOK
<1>18. RoomOK'
  BY <1>1, <1>2, <1>5 DEF RoomOK
<1>19. BuiltOK'
  <2> SUFFICES ASSUME NEW i \in 0..n
               PROVE  new[i] = NULL \/ (new[i] = <<calls, i + 1>> /\ <<calls, i + 1>> \in parts')
    BY <1>2, <1>5, <1>10, <1>11 DEF BuiltOK
  <2>1. CASE i = n
    BY <1>7, <1>9, <2>1
  <2>2. CASE i \in 0..(n - 1)
    <3>1. new[i] = store[home][i]
      BY <1>2, <1>9, <2>2
    <3> QED
      BY <1>1, <1>7, <2>2, <3>1 DEF IInv, BuiltOK
  <2> QED
    BY <1>2, <2>1, <2>2
<1>20. HeldOK'
  <2>1. calls' \in Nat /\ Done' = Done /\ Done \in Int
    BY <1>5, <1>11, BoundAssumption DEF IInv, CountsOK, Done
  <2> QED
    BY <1>13, <2>1, HeldStep DEF IInv
<1>21. ApartOK'
  <2>1. \A v \in Holding : call'.list # held[v].list
    BY <1>1, <1>5, HeldApart
  <2> QED
    BY <1>13, <2>1, ApartStep DEF IInv
<1>22. WholeOK'
  <2> SUFFICES ASSUME failures' = 0
               PROVE  WholeOK'
    BY DEF WholeOK
  <2>1. failures = 0 /\ x # NULL
    BY <1>7, BoundAssumption DEF IInv, CountsOK
  <2>2. /\ \A v \in Holding : \A i \in 0..(held[v].cnt - 1) : ListOf(v)[i] # NULL
        /\ \A i \in 0..(n - 1) : store[home][i] # NULL
        /\ \A p \in parts :
             \/ \E v \in Holding : \E i \in 0..(held[v].cnt - 1) : ListOf(v)[i] = p
             \/ \E i \in 0..(n - 1) : store[home][i] = p
        /\ moved \/ \A a \in Addr : store[a] # FREE =>
             \/ \E v \in Holding : held[v].list = a
             \/ home = a
    BY <1>1, <2>1 DEF IInv, WholeOK
  <2>3. /\ \A i \in 0..(n - 1) : new[i] = store[home][i] /\ i \in 0..n
        /\ new[n] = x /\ n \in 0..n
        /\ \A i \in 0..n : i = n \/ i \in 0..(n - 1)
    BY <1>2, <1>9
  <2>4. \A i \in 0..n : new[i] # NULL
    BY <2>1, <2>2, <2>3
  <2>5. \A p \in parts' :
             \/ \E v \in Holding : \E i \in 0..(held[v].cnt - 1) : ListOf(v)[i] = p
             \/ \E i \in 0..n : new[i] = p
    BY <1>7, <2>2, <2>3
  <2>6. moved \/ \A a \in Addr : store'[a] # FREE =>
             \/ \E v \in Holding : held[v].list = a
             \/ home = a
    BY <1>10, <2>2, Constants
  <2>7. store'[home] = new /\ (n + 1) - 1 = n
    BY <1>2, <1>10
  <2> QED
    BY <1>5, <1>11, <1>14, <2>2, <2>4, <2>5, <2>6, <2>7 DEF WholeOK
<1> QED
  BY <1>13, <1>15, <1>16, <1>17, <1>18, <1>19, <1>20, <1>21, <1>22 DEF IInv

LEMMA AddPartStep ==
  ASSUME IInv, AddPart
  PROVE  IInv' /\ Undisturbed
<1>1. call # NULL /\ call \in Locals /\ call.seplen = 1 /\ call.left > 0
  BY DEF AddPart, Running, IInv, CallOK
<1>2. call.cnt \in Nat /\ call.listmax \in Nat /\ call.left \in Nat
  BY <1>1 DEF Locals
<1>3. Past(call) \in Nat
  BY <1>1, <1>2 DEF Past
<1>4. call.listmax - call.cnt >= (IF call.list = "pool" THEN 0 ELSE 1) + 2
  BY <1>1, <1>2 DEF AddPart, Running, Cramped, IInv, RoomOK
<1> QED
  BY <1>1, <1>3, <1>4, AddStep DEF AddPart

LEMMA LastPartStep ==
  ASSUME IInv, LastPart
  PROVE  IInv' /\ Undisturbed
<1>1. call # NULL /\ call.pc = "while"
  BY DEF LastPart, Running
<1>2. call.listmax - call.cnt >= (IF call.list = "pool" THEN 0 ELSE 1) + 1
  BY <1>1 DEF IInv, RoomOK
<1> QED
  BY <1>1, <1>2, AddStep DEF LastPart

-----------------------------------------------------------------------------
(* The list is returned.                                                   *)

\* What the caller of Return gets: at a, an array with the parts and a NULL.
Delivered(a, n, array) ==
  /\ a \in Addr /\ n \in 1..MaxCells /\ array \in Array(n)
  /\ call.cnt \in 0..(n - 1) /\ array[call.cnt] = NULL
  /\ \A i \in 0..(call.cnt - 1) : array[i] = store[call.list][i]
  /\ a = call.list \/ a \in Unused
  /\ moved \/ call.list \notin Addr \/ a = call.list
  /\ store' = [store EXCEPT !["local"] = FREE, ![a] = array]
  /\ held' = [held EXCEPT ![call.v] = [list |-> a, cnt |-> call.cnt]]
  /\ call' = NULL
  /\ faults' = {} /\ UNCHANGED <<parts, calls, failures, moved>>

LEMMA ReturnDelivers ==
  ASSUME IInv, Return
  PROVE  \E a, n, array : Delivered(a, n, array)
<1>1. PICK k, max, home : k = call.cnt /\ max = call.listmax /\ home = call.list
  OBVIOUS
<1>2. call # NULL /\ call.pc = "return"
  BY DEF Return, Running
<1>3. /\ k \in Nat /\ max \in 2..MaxCells /\ store[home] \in Array(max) /\ home \in Home
      /\ call.list_dyn \in Addr \cup {NULL}
  BY <1>1, <1>2 DEF IInv, CallOK, Locals
<1>4. max - k >= (IF home = "pool" THEN 0 ELSE 1)
  BY <1>1, <1>2 DEF IInv, RoomOK
<1>5. PICK a \in ReturnAt :
        /\ store' = [store EXCEPT !["local"] = FREE,
                                  ![a] = Put(IF a = home THEN store[a]
                                             ELSE Copied(Blank(k + 1), store[home], k), k, NULL)]
        /\ faults' = faults \cup Overrun({k}, IF a = home THEN store[a]
                                              ELSE Copied(Blank(k + 1), store[home], k))
        /\ Returns(a, k)
  BY <1>1 DEF Return
<1>6. /\ a \in Addr
      /\ \/ a = home /\ home = call.list_dyn
         \/ a \in Unused /\ a # home /\ home # call.list_dyn
  <2>1. store[home] # FREE
    BY <1>3, ArrayNotFree
  <2>2. CASE home = call.list_dyn
    <3>1. home # NULL
      BY <1>3, HomeAssumption DEF Home
    <3>2. home \in Addr
      BY <1>3, <2>2, <3>1
    <3>3. a \in ReturnAt /\ ReturnAt = {home}
      BY <1>1, <2>2, Zenon DEF ReturnAt
    <3> QED
      BY <2>2, <3>2, <3>3
  <2>3. CASE home # call.list_dyn
    BY <1>1, <1>5, <2>1, <2>3 DEF ReturnAt, Unused
  <2> QED
    BY <2>2, <2>3
<1>7. moved \/ home \notin Addr \/ a = home
  BY <1>1, <1>2, <1>6 DEF IInv, CallOK
<1>8. faults = {}
  BY DEF IInv, CountsOK
<1>9. CASE a = home
  <2>1. home # "pool" /\ k \in 0..(max - 1) /\ max \in 1..MaxCells /\ max \in Nat
    BY <1>3, <1>4, <1>6, <1>9, Constants
  <2>2. PICK array : array = Put(store[home], k, NULL)
    OBVIOUS
  <2>3. /\ array \in Array(max) /\ array[k] = NULL
        /\ \A j \in 0..(max - 1) : j # k => array[j] = store[home][j]
    BY <1>3, <2>1, <2>2, PutOK, Constants
  <2>4. \A i \in 0..(k - 1) : array[i] = store[home][i]
    BY <2>1, <2>3
  <2>5. Overrun({k}, store[home]) = {}
    BY <1>3, <2>1, InBounds
  <2>6. Delivered(a, max, array)
    BY <1>1, <1>5, <1>6, <1>7, <1>8, <1>9, <2>1, <2>2, <2>3, <2>4, <2>5 DEF Delivered, Return, Returns
  <2> QED
    BY <2>6
<1>10. CASE a # home
  <2>1. PICK to, from, copy : to = Blank(k + 1) /\ from = store[home] /\ copy = Copied(to, from, k)
    OBVIOUS
  <2>2. /\ k + 1 \in 1..MaxCells /\ k + 1 \in Nat /\ k <= k + 1 /\ k <= max /\ max \in Nat
        /\ k \in 0..((k + 1) - 1)
        /\ to \in Array(k + 1) /\ from \in Array(max)
    <3>1. k + 1 <= MaxCells
      <4>1. CASE home = "pool"
        BY <1>1, <1>2, <1>3, <1>4, <4>1, Constants DEF IInv, CallOK
      <4>2. CASE home # "pool"
        BY <1>3, <1>4, <4>2, Constants
      <4> QED
        BY <4>1, <4>2
    <3> QED
      BY <1>3, <1>4, <2>1, <3>1, BlankOK, Constants
  <2>3. copy \in Array(k + 1) /\ \A i \in 0..(k - 1) : copy[i] = from[i]
    <3>1. PICK m : m = k + 1
      OBVIOUS
    <3>2. m \in Nat /\ to \in Array(m) /\ k <= m
      BY <2>2, <3>1
    <3>3. /\ Copied(to, from, k) \in Array(m)
          /\ \A i \in 0..(k - 1) : Copied(to, from, k)[i] = from[i]
      <4>1. IsCopy(Copied(to, from, k), m, from, k)
        BY <1>3, <2>2, <3>2, CopiedOK
      <4> QED
        BY <4>1 DEF IsCopy
    <3> QED
      BY <2>1, <3>1, <3>3
  <2>4. PICK array : array = Put(copy, k, NULL)
    OBVIOUS
  <2>5. /\ array \in Array(k + 1) /\ array[k] = NULL
        /\ \A j \in 0..((k + 1) - 1) : j # k => array[j] = copy[j]
    <3>1. PICK m : m = k + 1
      OBVIOUS
    <3>2. m \in Nat /\ copy \in Array(m) /\ k \in 0..(m - 1) /\ NULL \in Cell
      BY <2>2, <2>3, <3>1, Constants
    <3>3. /\ array \in Array(m) /\ array[k] = NULL
          /\ \A j \in 0..(m - 1) : j # k => array[j] = copy[j]
      BY <2>4, <3>2, PutOK
    <3> QED
      BY <3>1, <3>3
  <2>6. \A i \in 0..(k - 1) : array[i] = store[home][i]
    BY <1>3, <2>1, <2>3, <2>5
  <2>7. Overrun({k}, copy) = {}
    BY <2>2, <2>3, InBounds
  <2>8. Delivered(a, k + 1, array)
    BY <1>1, <1>5, <1>6, <1>7, <1>8, <1>10, <2>1, <2>2, <2>4, <2>5, <2>6, <2>7
    DEF Delivered, Return, Returns
  <2> QED
    BY <2>8
<1> QED
  BY <1>9, <1>10

LEMMA ReturnStep ==
  ASSUME IInv, Return
  PROVE  IInv'
<1>1. PICK a, n, array : Delivered(a, n, array)
  BY ReturnDelivers
<1>2. PICK v, k, home : v = call.v /\ k = call.cnt /\ home = call.list
  OBVIOUS
<1>3. /\ call # NULL /\ v \in Var /\ v \notin Holding /\ k \in Nat /\ home \in Home
      /\ calls \in 1..MaxCalls
  BY <1>2 DEF Return, Running, IInv, CallOK, CountsOK, Locals
<1>4. /\ a \in Addr /\ n \in 1..MaxCells /\ array \in Array(n) /\ array # FREE
      /\ k \in 0..(n - 1) /\ array[k] = NULL
      /\ \A i \in 0..(k - 1) : array[i] = store[home][i]
      /\ a = home \/ a \in Unused
      /\ moved \/ home \notin Addr \/ a = home
      /\ call' = NULL /\ parts' = parts /\ calls' = calls /\ failures' = failures
      /\ moved' = moved /\ faults' = {}
  BY <1>1, <1>2, ArrayNotFree DEF Delivered
<1>5. \A h \in Home : store'[h] = IF h = a THEN array ELSE IF h = "local" THEN FREE ELSE store[h]
  BY <1>1, Constants DEF Delivered, IInv, StoreOK
<1>6. /\ held' \in [Var -> [list : Addr \cup {NULL}, cnt : Nat]]
      /\ \A w \in Var : held'[w] = IF w = v THEN [list |-> a, cnt |-> k] ELSE held[w]
  BY <1>1, <1>2, <1>3, <1>4 DEF Delivered, IInv, HeldOK
<1>7. /\ held'[v].list = a /\ held'[v].cnt = k
      /\ held'[v] # NoList
  BY <1>3, <1>4, <1>6, Constants DEF NoList
<1>8. Holding' = Holding \cup {v}
  BY <1>3, <1>6, <1>7 DEF Holding, NoList
<1>9. \A w \in Holding : /\ held'[w] = held[w] /\ w # v /\ w \in Var
                         /\ held[w].list \in Home /\ held[w].list # a /\ held[w].list # "local"
  BY <1>2, <1>3, <1>4, <1>6, HeldApart, Constants DEF Holding
<1>10. \A w \in Holding : ListOf(w)' = ListOf(w) /\ store'[held'[w].list] = store[held[w].list]
  BY <1>5, <1>9 DEF ListOf
<1>11. ListOf(v)' = array /\ store'[held'[v].list] = array /\ DOMAIN array = 0..(n - 1)
  BY <1>4, <1>5, <1>7, Constants DEF ListOf, Array
<1>12. \A i \in 0..(k - 1) : array[i] = NULL \/ (array[i] \in parts /\ array[i] = <<calls, i + 1>>)
  <2>1. \A i \in 0..(k - 1) : \/ store[home][i] = NULL
                              \/ store[home][i] = <<calls, i + 1>> /\ <<calls, i + 1>> \in parts
    BY <1>2, <1>3 DEF IInv, BuiltOK
  <2>2. \A i \in 0..(k - 1) : array[i] = store[home][i]
    BY <1>4
  <2> QED
    BY <2>1, <2>2
<1>13. StoreOK'
  <2>1. store' = [h \in Home |-> store'[h]]
    BY <1>1 DEF Delivered, IInv, StoreOK
  <2>2. \A h \in Home : store'[h] = FREE \/ \E m \in 1..MaxCells : store'[h] \in Array(m)
    BY <1>4, <1>5 DEF IInv, StoreOK
  <2>3. store'["pool"] \in Array(LIST_POOL_MAX)
    BY <1>4, <1>5, Constants DEF IInv, StoreOK
  <2> QED
    BY <2>1, <2>2, <2>3 DEF StoreOK
<1>14. CountsOK' /\ CallOK' /\ RoomOK' /\ BuiltOK'
  BY <1>4 DEF IInv, CountsOK, CallOK, RoomOK, BuiltOK
<1>15. Done' = calls /\ Done = calls - 1 /\ calls \in Int
  BY <1>3, <1>4 DEF Done
<1>16. HeldOK'
  <2>1. ASSUME NEW w \in Holding
        PROVE  /\ held'[w].list \in Addr /\ store'[held'[w].list] # FREE
               /\ held'[w].cnt \in DOMAIN ListOf(w)' /\ ListOf(w)'[held'[w].cnt] = NULL
               /\ \A i \in 0..(held'[w].cnt - 1) :
                    ListOf(w)'[i] = NULL \/ (ListOf(w)'[i] \in parts' /\ ListOf(w)'[i][1] <= Done')
    <3>1. \A i \in 0..(held[w].cnt - 1) :
            ListOf(w)[i] = NULL \/ (ListOf(w)[i] \in parts /\ ListOf(w)[i][1] <= Done)
      BY DEF IInv, HeldOK
    <3>2. \A q \in parts : q[1] \in Int
      BY BoundAssumption DEF IInv, CountsOK, Part
    <3>3. \A i \in 0..(held[w].cnt - 1) :
            ListOf(w)[i] = NULL \/ (ListOf(w)[i] \in parts /\ ListOf(w)[i][1] <= Done')
      BY <1>15, <3>1, <3>2
    <3>4. /\ held[w].list \in Addr /\ store[held[w].list] # FREE
          /\ held[w].cnt \in DOMAIN ListOf(w) /\ ListOf(w)[held[w].cnt] = NULL
      BY DEF IInv, HeldOK
    <3> QED
      BY <1>4, <1>9, <1>10, <3>3, <3>4
  <2>2. /\ held'[v].list \in Addr /\ store'[held'[v].list] # FREE
        /\ held'[v].cnt \in DOMAIN ListOf(v)' /\ ListOf(v)'[held'[v].cnt] = NULL
        /\ \A i \in 0..(held'[v].cnt - 1) :
             ListOf(v)'[i] = NULL \/ (ListOf(v)'[i] \in parts' /\ ListOf(v)'[i][1] <= Done')
    BY <1>4, <1>7, <1>11, <1>12, <1>15
  <2> QED
    BY <1>6, <1>8, <2>1, <2>2 DEF HeldOK
<1>17. \A w \in Holding : \A i \in 0..(k - 1), j \in 0..(held[w].cnt - 1) :
         array[i] = ListOf(w)[j] => array[i] = NULL
  <2> SUFFICES ASSUME NEW w \in Holding, NEW i \in 0..(k - 1), NEW j \in 0..(held[w].cnt - 1),
                      array[i] = ListOf(w)[j], array[i] # NULL
               PROVE  FALSE
    OBVIOUS
  <2>1. array[i][1] = calls
    BY <1>12
  <2>2. ListOf(w)[j][1] <= Done
    BY DEF IInv, HeldOK
  <2> QED
    BY <1>15, <2>1, <2>2
<1>18. ApartOK'
  <2> SUFFICES ASSUME NEW w \in Holding \cup {v}, NEW u \in Holding \cup {v}, w # u
               PROVE  /\ held'[w].list # held'[u].list
                      /\ \A i \in 0..(held'[w].cnt - 1), j \in 0..(held'[u].cnt - 1) :
                           ListOf(w)'[i] = ListOf(u)'[j] => ListOf(w)'[i] = NULL
    BY <1>4, <1>8 DEF ApartOK
  <2>1. CASE w \in Holding /\ u \in Holding
    BY <1>9, <1>10, <2>1 DEF IInv, ApartOK
  <2>2. CASE w = v
    <3>1. u \in Holding
      BY <2>2
    <3> QED
      BY <1>7, <1>9, <1>10, <1>11, <1>17, <2>2, <3>1
  <2>3. CASE u = v
    <3>1. w \in Holding
      BY <2>3
    <3> QED
      BY <1>7, <1>9, <1>10, <1>11, <1>17, <2>3, <3>1
  <2> QED
    BY <2>1, <2>2, <2>3
<1>19. WholeOK'
  <2> SUFFICES ASSUME failures = 0
               PROVE  WholeOK'
    BY <1>4 DEF WholeOK
  <2>1. /\ \A w \in Holding : \A i \in 0..(held[w].cnt - 1) : ListOf(w)[i] # NULL
        /\ \A i \in 0..(k - 1) : store[home][i] # NULL
        /\ \A p \in parts :
             \/ \E w \in Holding : \E i \in 0..(held[w].cnt - 1) : ListOf(w)[i] = p
             \/ \E i \in 0..(k - 1) : store[home][i] = p
        /\ moved \/ \A x \in Addr : store[x] # FREE =>
             \/ \E w \in Holding : held[w].list = x
             \/ home = x
    BY <1>2, <1>3 DEF IInv, WholeOK
  <2>2. \A w \in Holding' : \A i \in 0..(held'[w].cnt - 1) : ListOf(w)'[i] # NULL
    BY <1>4, <1>7, <1>8, <1>9, <1>10, <1>11, <2>1
  <2>3. \A p \in parts : \E w \in Holding' : \E i \in 0..(held'[w].cnt - 1) : ListOf(w)'[i] = p
    <3> SUFFICES ASSUME NEW p \in parts
                 PROVE  \E w \in Holding' : \E i \in 0..(held'[w].cnt - 1) : ListOf(w)'[i] = p
      OBVIOUS
    <3>1. CASE \E w \in Holding : \E i \in 0..(held[w].cnt - 1) : ListOf(w)[i] = p
      BY <1>8, <1>9, <1>10, <3>1
    <3>2. CASE \E i \in 0..(k - 1) : store[home][i] = p
      <4>1. \E i \in 0..(held'[v].cnt - 1) : ListOf(v)'[i] = p
        BY <1>4, <1>7, <1>11, <3>2
      <4> QED
        BY <1>8, <4>1
    <3> QED
      BY <2>1, <3>1, <3>2
  <2>4. moved \/ \A x \in Addr : store'[x] # FREE => \E w \in Holding' : held'[w].list = x
    <3> SUFFICES ASSUME ~moved, NEW x \in Addr, store'[x] # FREE, x # a
                 PROVE  \E w \in Holding' : held'[w].list = x
      BY <1>7, <1>8
    <3>1. store[x] # FREE /\ x # home
      BY <1>4, <1>5, Constants
    <3>2. \E w \in Holding : held[w].list = x
      BY <2>1, <3>1
    <3> QED
      BY <1>8, <1>9, <3>2
  <2> QED
    BY <1>4, <2>2, <2>3, <2>4 DEF WholeOK
<1> QED
  BY <1>13, <1>14, <1>16, <1>18, <1>19 DEF IInv

-----------------------------------------------------------------------------
(* A list is freed.                                                        *)

LEMMA FreeStep ==
  ASSUME IInv, NEW v \in Var, stx_list_free(v)
  PROVE  IInv'
<1>1. PICK home, k, a, freed : /\ home = held[v].list /\ k = held[v].cnt /\ a = store[held[v].list]
                               /\ freed = {a[i] : i \in UpToNull(a)}
  OBVIOUS
<1>2. call = NULL /\ home # NULL /\ v \in Holding
  BY <1>1 DEF stx_list_free, Holding, NoList
<1>3. /\ home \in Addr /\ home \in Home /\ a # FREE /\ k \in DOMAIN a /\ a[k] = NULL /\ k \in Nat
      /\ \A i \in 0..(k - 1) : a[i] = NULL \/ (a[i] \in parts /\ a[i][1] <= Done)
  BY <1>1, <1>2, Constants DEF IInv, HeldOK, ListOf
<1>4. PICK n \in 1..MaxCells : a \in Array(n)
  BY <1>1, <1>3 DEF IInv, StoreOK
<1>5. DOMAIN a = 0..(n - 1) /\ n \in Nat
  BY <1>4, Constants DEF Array
<1>6. \A i \in UpToNull(a) : i \in 0..(k - 1) /\ a[i] # NULL
  <2> SUFFICES ASSUME NEW i \in UpToNull(a)
               PROVE  i \in 0..(k - 1) /\ a[i] # NULL
    OBVIOUS
  <2>1. i \in 0..(n - 1) /\ \A j \in 0..i : a[j] # NULL
    BY <1>5 DEF UpToNull
  <2>2. ~ k \in 0..i
    BY <1>3, <2>1
  <2> QED
    BY <1>3, <1>5, <2>1, <2>2
<1>7. freed \subseteq parts /\ \A p \in freed : \E i \in 0..(k - 1) : a[i] = p /\ p # NULL
  BY <1>1, <1>3, <1>6
<1>8. failures = 0 => \A i \in 0..(k - 1) : a[i] \in freed
  <2> SUFFICES ASSUME failures = 0, NEW i \in 0..(k - 1)
               PROVE  a[i] \in freed
    OBVIOUS
  <2>1. \A j \in 0..(k - 1) : a[j] # NULL
    BY <1>1, <1>2 DEF IInv, WholeOK, ListOf
  <2>2. i \in UpToNull(a)
    BY <1>3, <1>5, <2>1 DEF UpToNull
  <2> QED
    BY <1>1, <2>2
<1>9. parts' = parts \ freed /\ faults' = {}
  <2>1. NULL \in {a[i] : i \in DOMAIN a}
    BY <1>3
  <2>2. faults = {}
    BY DEF IInv, CountsOK
  <2> QED
    BY <1>1, <1>7, <2>1, <2>2 DEF stx_list_free
<1>10. /\ call' = NULL /\ calls' = calls /\ failures' = failures /\ moved' = moved
       /\ store' = [store EXCEPT ![home] = FREE]
       /\ held' = [held EXCEPT ![v] = NoList]
  BY <1>1, <1>2 DEF stx_list_free
<1>11. \A h \in Home : store'[h] = IF h = home THEN FREE ELSE store[h]
  BY <1>10 DEF IInv, StoreOK
<1>12. /\ held' \in [Var -> [list : Addr \cup {NULL}, cnt : Nat]]
       /\ \A w \in Var : held'[w] = IF w = v THEN NoList ELSE held[w]
  BY <1>10 DEF IInv, HeldOK, NoList
<1>13. Holding' = Holding \ {v}
  BY <1>12 DEF Holding
<1>14. ASSUME NEW w \in Holding'
       PROVE  /\ w \in Holding /\ w # v /\ held'[w] = held[w] /\ ListOf(w)' = ListOf(w)
              /\ store'[held'[w].list] = store[held[w].list]
  <2>1. w \in Holding /\ w # v /\ held'[w] = held[w]
    BY <1>12, <1>13 DEF Holding
  <2>2. held[w].list # home /\ held[w].list \in Home
    BY <1>1, <1>2, <2>1, Constants DEF IInv, ApartOK, HeldOK
  <2> QED
    BY <1>11, <2>1, <2>2 DEF ListOf
<1>15. ASSUME NEW w \in Holding', NEW i \in 0..(held[w].cnt - 1), ListOf(w)[i] # NULL
       PROVE  ListOf(w)[i] \in parts \ freed
  <2>1. w \in Holding /\ w # v
    BY <1>14
  <2>2. ListOf(w)[i] \in parts
    BY <1>15, <2>1 DEF IInv, HeldOK
  <2>3. \A j \in 0..(k - 1) : a[j] # ListOf(w)[i]
    BY <1>1, <1>2, <1>15, <2>1 DEF IInv, ApartOK, ListOf
  <2> QED
    BY <1>7, <2>2, <2>3
<1>16. StoreOK'
  <2>1. store' = [h \in Home |-> store'[h]]
    BY <1>10 DEF IInv, StoreOK
  <2> QED
    BY <1>3, <1>11, <2>1, Constants DEF IInv, StoreOK
<1>17. CountsOK' /\ CallOK' /\ RoomOK' /\ BuiltOK'
  BY <1>9, <1>10 DEF IInv, CountsOK, CallOK, RoomOK, BuiltOK
<1>18. HeldOK'
  <2> SUFFICES ASSUME NEW w \in Holding'
               PROVE  /\ held'[w].list \in Addr /\ store'[held'[w].list] # FREE
                      /\ held'[w].cnt \in DOMAIN ListOf(w)' /\ ListOf(w)'[held'[w].cnt] = NULL
                      /\ \A i \in 0..(held'[w].cnt - 1) :
                           \/ ListOf(w)'[i] = NULL
                           \/ ListOf(w)'[i] \in parts' /\ ListOf(w)'[i][1] <= Done'
    BY <1>12 DEF HeldOK
  <2>1. Done' = Done
    BY <1>2, <1>10 DEF Done
  <2>2. /\ held[w].list \in Addr /\ store[held[w].list] # FREE
        /\ held[w].cnt \in DOMAIN ListOf(w) /\ ListOf(w)[held[w].cnt] = NULL
        /\ \A i \in 0..(held[w].cnt - 1) :
             ListOf(w)[i] = NULL \/ ListOf(w)[i][1] <= Done
    BY <1>14 DEF IInv, HeldOK
  <2> QED
    BY <1>9, <1>14, <1>15, <2>1, <2>2
<1>19. ApartOK'
  BY <1>10, <1>14 DEF IInv, ApartOK
<1>20. WholeOK'
  <2> SUFFICES ASSUME failures = 0
               PROVE  WholeOK'
    BY <1>10 DEF WholeOK
  <2>1. /\ \A w \in Holding : \A i \in 0..(held[w].cnt - 1) : ListOf(w)[i] # NULL
        /\ \A p \in parts :
             \E w \in Holding : \E i \in 0..(held[w].cnt - 1) : ListOf(w)[i] = p
        /\ moved \/ \A x \in Addr : store[x] # FREE =>
             \E w \in Holding : held[w].list = x
    BY <1>2 DEF IInv, WholeOK
  <2>2. \A w \in Holding' : \A i \in 0..(held'[w].cnt - 1) : ListOf(w)'[i] # NULL
    BY <1>14, <2>1
  <2>3. \A p \in parts' : \E w \in Holding' : \E i \in 0..(held'[w].cnt - 1) : ListOf(w)'[i] = p
    <3> SUFFICES ASSUME NEW p \in parts, p \notin freed
                 PROVE  \E w \in Holding' : \E i \in 0..(held'[w].cnt - 1) : ListOf(w)'[i] = p
      BY <1>9
    <3>1. PICK w \in Holding : \E i \in 0..(held[w].cnt - 1) : ListOf(w)[i] = p
      BY <2>1
    <3>2. w # v
      BY <1>1, <1>8, <3>1 DEF ListOf
    <3>3. w \in Holding'
      BY <1>13, <3>2
    <3> QED
      BY <1>14, <3>1, <3>3
  <2>4. moved' \/ \A x \in Addr : store'[x] # FREE => \E w \in Holding' : held'[w].list = x
    <3> SUFFICES ASSUME ~moved, NEW x \in Addr, store'[x] # FREE
                 PROVE  \E w \in Holding' : held'[w].list = x
      BY <1>10
    <3>1. x # home /\ store[x] # FREE
      BY <1>11, Constants
    <3>2. PICK w \in Holding : held[w].list = x
      BY <2>1, <3>1
    <3>3. w \in Holding'
      BY <1>1, <1>13, <3>1, <3>2
    <3> QED
      BY <1>14, <3>2, <3>3
  <2> QED
    BY <1>10, <2>2, <2>3, <2>4 DEF WholeOK
<1> QED
  BY <1>16, <1>17, <1>18, <1>19, <1>20 DEF IInv

-----------------------------------------------------------------------------
(* The invariant, and what it gives.                                       *)

LEMMA Initially == Init => IInv
<1> SUFFICES ASSUME Init
             PROVE  IInv
  OBVIOUS
<1>1. Holding = {} /\ call = NULL
  BY DEF Init, Holding
<1>2. /\ store = [h \in Home |-> store[h]]
      /\ \A h \in Home \ {"pool"} : store[h] = FREE
      /\ store["pool"] \in Array(LIST_POOL_MAX)
  BY Constants DEF Init, Array
<1>3. StoreOK
  BY <1>2, Constants DEF StoreOK
<1>4. CountsOK
  <2>1. moved \in BOOLEAN
    BY Zenon DEF Init
  <2> QED
    BY <2>1, BoundAssumption DEF Init, CountsOK
<1>5. HeldOK
  BY <1>1 DEF Init, HeldOK, NoList
<1>6. WholeOK
  BY <1>1, <1>2, Constants DEF Init, WholeOK
<1> QED
  BY <1>1, <1>3, <1>4, <1>5, <1>6 DEF IInv, CallOK, RoomOK, BuiltOK, ApartOK

LEMMA Stuttering == IInv /\ UNCHANGED vars => IInv'
<1> SUFFICES ASSUME IInv, UNCHANGED vars
             PROVE  IInv'
  OBVIOUS
<1>1. Holding' = Holding /\ Done' = Done /\ \A v \in Holding : ListOf(v)' = ListOf(v)
  BY DEF vars, Holding, Done, ListOf
<1>2. StoreOK' /\ CountsOK' /\ CallOK' /\ RoomOK' /\ BuiltOK'
  BY <1>1 DEF IInv, vars, StoreOK, CountsOK, CallOK, RoomOK, BuiltOK
<1>3. HeldOK'
  BY <1>1 DEF IInv, vars, HeldOK
<1>4. ApartOK'
  BY <1>1 DEF IInv, vars, ApartOK
<1>5. WholeOK'
  BY <1>1 DEF IInv, vars, WholeOK
<1> QED
  BY <1>2, <1>3, <1>4, <1>5 DEF IInv

LEMMA Stepping == IInv /\ Next => IInv'
<1> SUFFICES ASSUME IInv, Next
             PROVE  IInv'
  OBVIOUS
<1>1. CASE \E v \in Var, n \in Seps, seplen \in {0, 1} : Call(v, n, seplen)
  BY <1>1, CallStep
<1>2. CASE \E v \in Var : stx_list_free(v)
  BY <1>2, FreeStep
<1>3. CASE Step
  BY <1>3, Moves, MovedStep, NoRoomStep, AddPartStep, LastPartStep,
     ReturnStep, NoCopyStep DEF Step
<1> QED
  BY <1>1, <1>2, <1>3 DEF Next

\* Wherever the lists are, their arrays and parts are whole, theirs alone and none
\* is lost, for every source, array size and sequence of failures.
THEOREM Invariant == Spec => []IInv
BY Initially, Stuttering, Stepping, PTL DEF Spec

\* stx_split_len's locals and arrays have the types of the C declarations, and
\* listmax is the size of the array that list points to.
THEOREM TypesHold == Spec => []TypeOK
<1>1. IInv => TypeOK
  BY Constants DEF IInv, StoreOK, CountsOK, CallOK, HeldOK, Holding, NoList, TypeOK
<1> QED
  BY <1>1, Invariant, PTL

\* No array, on the stack, in list_pool or from malloc, is written or read outside
\* its bounds, the last part and the NULL included, and stx_list_free frees no part
\* twice.
THEOREM NoFaultEver == Spec => []NoFault
<1>1. IInv => NoFault
  BY DEF IInv, CountsOK, NoFault
<1> QED
  BY <1>1, Invariant, PTL

\* As long as no allocation fails every part is in a list, held or being built, and
\* as long as realloc moved none so is every array.
THEOREM NoneLost == Spec => []NothingLost
<1>1. IInv => NothingLost
  <2> SUFFICES ASSUME IInv, failures = 0
               PROVE  NothingLost
    BY DEF NothingLost
  <2>0. \A p : p \in ListedParts <=>
               \/ \E v \in Holding : p \in Listed(ListOf(v), held[v].cnt)
               \/ call # NULL /\ p \in Listed(store[call.list], call.cnt)
    <3>1. \A p : p \in HeldParts <=> \E v \in Holding : p \in Listed(ListOf(v), held[v].cnt)
      BY Zenon DEF HeldParts
    <3> QED
      BY <3>1 DEF ListedParts
  <2>1. parts \subseteq ListedParts
    <3> SUFFICES ASSUME NEW p \in parts
                 PROVE  p \in ListedParts
      OBVIOUS
    <3>1. p # NULL
      BY Constants DEF IInv, CountsOK
    <3>2. \/ \E v \in Holding : \E i \in 0..(held[v].cnt - 1) : ListOf(v)[i] = p
          \/ call # NULL /\ \E i \in 0..(call.cnt - 1) : store[call.list][i] = p
      BY DEF IInv, WholeOK
    <3> QED
      BY <2>0, <3>1, <3>2 DEF Listed
  <2>2. ListedParts \subseteq parts
    <3>1. \A v \in Holding : Listed(ListOf(v), held[v].cnt) \subseteq parts
      BY DEF IInv, HeldOK, Listed
    <3>2. call # NULL => Listed(store[call.list], call.cnt) \subseteq parts
      BY DEF IInv, BuiltOK, Listed
    <3> QED
      BY <2>0, <3>1, <3>2
  <2>3. moved \/ Addr \ Unused = ListArrays
    <3> SUFFICES ASSUME ~moved
                 PROVE  Addr \ Unused = ListArrays
      OBVIOUS
    <3>1. \A a \in Addr \ Unused :
            (\E v \in Holding : held[v].list = a) \/ (call # NULL /\ call.list = a)
      BY DEF IInv, WholeOK, Unused
    <3>2. \A v \in Holding : held[v].list \in Addr \ Unused
      BY DEF IInv, HeldOK, Unused
    <3>3. call # NULL /\ call.list \in Addr => call.list \notin Unused
      <4>1. call # NULL => call.listmax \in 1..MaxCells /\ store[call.list] \in Array(call.listmax)
        BY Constants DEF IInv, CallOK
      <4> QED
        BY <4>1, ArrayNotFree DEF Unused
    <3> QED
      BY <3>1, <3>2, <3>3 DEF ListArrays
  <2> QED
    BY <2>1, <2>2, <2>3 DEF NothingLost
<1> QED
  BY <1>1, Invariant, PTL

\* Whatever fails or moves, a list the program holds is a malloc'ed array of its own
\* with live parts that are in no other list.
THEOREM NoneShared == Spec => []NothingShared
<1>1. IInv => NothingShared
  <2> SUFFICES ASSUME IInv, NEW v \in Holding
               PROVE  /\ held[v].list \in Addr \ Unused
                      /\ Listed(ListOf(v), held[v].cnt) \subseteq parts
                      /\ \A w \in Holding \ {v} :
                           /\ held[v].list # held[w].list
                           /\ Listed(ListOf(v), held[v].cnt) \cap Listed(ListOf(w), held[w].cnt) = {}
                      /\ call # NULL => call.list # held[v].list
    BY DEF NothingShared
  <2>1. held[v].list \in Addr \ Unused
    BY DEF IInv, HeldOK, Unused
  <2>2. Listed(ListOf(v), held[v].cnt) \subseteq parts
    BY DEF IInv, HeldOK, Listed
  <2>3. call # NULL => call.list # held[v].list
    BY DEF IInv, ApartOK
  <2>4. ASSUME NEW w \in Holding \ {v}
        PROVE  /\ held[v].list # held[w].list
               /\ Listed(ListOf(v), held[v].cnt) \cap Listed(ListOf(w), held[w].cnt) = {}
    BY DEF IInv, ApartOK, Listed
  <2> QED
    BY <2>1, <2>2, <2>3, <2>4
<1> QED
  BY <1>1, Invariant, PTL

-----------------------------------------------------------------------------
(* Every step does what SplitPromise lets a step do.                       *)

LEMMA ListsSame ==
  ASSUME Undisturbed
  PROVE  ListsOf' = ListsOf
<1>1. Holding' = Holding /\ \A v \in Holding : ListOf(v)' = ListOf(v)
  BY UndisturbedLists
<1>2. held' = held
  BY DEF Undisturbed
<1> QED
  BY <1>1, <1>2 DEF ListsOf

LEMMA ListsShape ==
  /\ DOMAIN ListsOf = Var
  /\ \A v \in Var : v \notin Holding => ListsOf[v] = <<>>
  /\ HeldOK => \A v \in Holding : ListsOf[v] # <<>>
<1>1. ASSUME HeldOK, NEW v \in Holding
      PROVE  ListsOf[v] # <<>>
  <2>1. held[v].cnt \in Nat /\ v \in Var
    BY <1>1 DEF HeldOK, Holding
  <2>2. DOMAIN ListsOf[v] = 1..(held[v].cnt + 1)
    BY <1>1, <2>1 DEF ListsOf
  <2>3. 1 \in DOMAIN ListsOf[v]
    BY <2>1, <2>2
  <2> QED
    BY <2>3
<1> QED
  BY <1>1 DEF ListsOf

\* The state of a running call, as the promise sees it.
LEMMA InCall ==
  ASSUME IInv, call # NULL
  PROVE  /\ AskedOf # NULL /\ AskedOf.v = call.v /\ call.v \in Var
         /\ AskedOf.n = call.cnt + call.left + (IF call.pc = "return" THEN 0 ELSE 1)
         /\ AskedOf.n \in Nat
         /\ call.cnt \in Nat /\ call.left \in Nat
         /\ GapsOf = {i \in 1..call.cnt : store[call.list][i - 1] = NULL}
<1>1. call \in Locals
  BY DEF IInv, CallOK
<1>2. call.cnt \in Nat /\ call.left \in Nat /\ call.v \in Var
  BY <1>1 DEF Locals
<1>3. AskedOf = [v |-> call.v, n |-> call.cnt + call.left + (IF call.pc = "return" THEN 0 ELSE 1)]
  BY DEF AskedOf
<1> QED
  BY <1>2, <1>3, AskedAssumption DEF GapsOf

LEMMA NotRunning ==
  ASSUME call = NULL
  PROVE  AskedOf = NULL /\ GapsOf = {}
BY DEF AskedOf, GapsOf

LEMMA CallPromised ==
  ASSUME IInv, NEW v \in Var, NEW n \in Seps, NEW seplen \in {0, 1}, Call(v, n, seplen)
  PROVE  Promise!Next
<1>1. /\ call = NULL /\ v \notin Holding /\ calls < MaxCalls /\ calls' = calls + 1
      /\ failures' = failures /\ n \in Nat
  BY SepsAssumption DEF Call
<1>2. ListsOf' = ListsOf /\ ListsOf[v] = <<>>
  BY <1>1, CallStep, ListsSame, ListsShape
<1>3. AskedOf = NULL /\ GapsOf = {}
  BY <1>1, NotRunning
<1>4. CASE UNCHANGED <<call, store>>
  <2>1. AskedOf' = AskedOf /\ GapsOf' = GapsOf
    BY <1>4 DEF AskedOf, GapsOf
  <2>2. Promise!AskInVain(v)
    BY <1>1, <1>2, <1>3, <2>1 DEF Promise!AskInVain, Promise!MayAsk
  <2> QED
    BY <2>2 DEF Promise!Next
<1>5. CASE call' = [v |-> v, pc |-> "while", seplen |-> seplen, left |-> n, cnt |-> 0,
                    list |-> "local", list_dyn |-> NULL, listmax |-> LIST_LOCAL_MAX]
  <2>1. call' # NULL
    <3>1. call' \in Locals
      BY <1>1, <1>5, Constants DEF Locals
    <3> QED
      BY <3>1, FreeAssumption
  <2>2. call'.cnt = 0 /\ call'.left = n /\ call'.v = v /\ call'.pc = "while"
    BY <1>5
  <2>3. AskedOf' = [v |-> v, n |-> n + 1]
    BY <1>1, <2>1, <2>2 DEF AskedOf
  <2>4. GapsOf' = {}
    BY <2>1, <2>2 DEF GapsOf
  <2>5. Promise!Ask(v, n + 1)
    BY <1>1, <1>2, <1>3, <2>3, <2>4 DEF Promise!Ask, Promise!MayAsk
  <2> QED
    BY <2>5 DEF Promise!Next
<1> QED
  BY <1>4, <1>5 DEF Call

LEMMA FreePromised ==
  ASSUME IInv, NEW v \in Var, stx_list_free(v)
  PROVE  Promise!Next
<1>1. call = NULL /\ call' = NULL /\ v \in Holding /\ UNCHANGED <<failures, calls>>
  BY DEF stx_list_free, Holding, NoList
<1>2. AskedOf = NULL /\ AskedOf' = NULL /\ GapsOf = {} /\ GapsOf' = {}
  BY <1>1 DEF AskedOf, GapsOf
<1>3. \A w \in Var : held'[w] = IF w = v THEN NoList ELSE held[w]
  BY DEF stx_list_free, IInv, HeldOK, NoList
<1>4. Holding' = Holding \ {v}
  BY <1>3 DEF Holding
<1>5. \A w \in Holding \ {v} : held'[w] = held[w] /\ ListOf(w)' = ListOf(w)
  <2> SUFFICES ASSUME NEW w \in Holding \ {v}
               PROVE  held'[w] = held[w] /\ store'[held'[w].list] = store[held[w].list]
    BY DEF ListOf
  <2>1. held'[w] = held[w]
    BY <1>3 DEF Holding
  <2>2. held[w].list # held[v].list /\ held[w].list \in Home
    BY <1>1, Constants DEF IInv, ApartOK, HeldOK
  <2> QED
    BY <2>1, <2>2 DEF stx_list_free, IInv, StoreOK
<1>6. ListsOf' = [ListsOf EXCEPT ![v] = <<>>]
  <2>1. \A w \in Var : ListsOf'[w] = IF w = v THEN <<>> ELSE ListsOf[w]
    BY <1>4, <1>5 DEF ListsOf
  <2>2. DOMAIN ListsOf' = Var /\ ListsOf' = [w \in Var |-> ListsOf'[w]]
    BY DEF ListsOf
  <2> QED
    BY <2>1, <2>2, ListsShape
<1>7. Promise!Free(v)
  BY <1>1, <1>2, <1>6, ListsShape DEF Promise!Free, IInv
<1> QED
  BY <1>7 DEF Promise!Next

LEMMA MovedPromised ==
  ASSUME IInv, MustWiden, NEW home, NEW max, NEW dyn, MovedTo(home, max, dyn)
  PROVE  UNCHANGED Promise!vars
<1>1. call # NULL /\ call' # NULL /\ call.pc = "while" /\ IInv' /\ Undisturbed
  BY MovedStep, FreeAssumption DEF MustWiden, Running, MovedTo
<1>2. AskedOf' = AskedOf
  BY <1>1 DEF AskedOf, MovedTo
<1>3. GapsOf' = GapsOf
  <2>1. call'.cnt = call.cnt /\ call'.list = home /\ call.cnt \in Nat
    BY <1>1, InCall DEF MovedTo
  <2>2. \A i \in 1..call.cnt : store'[home][i - 1] = store[call.list][i - 1]
    BY <2>1 DEF MovedTo
  <2> QED
    BY <1>1, <2>1, <2>2 DEF GapsOf
<1> QED
  BY <1>1, <1>2, <1>3, ListsSame DEF Promise!vars, MovedTo

LEMMA GiveUpPromised ==
  ASSUME IInv, NoRoom \/ NoCopy
  PROVE  Promise!Next
<1>1. call # NULL /\ call' = NULL /\ failures' = failures + 1 /\ calls' = calls
  BY DEF NoRoom, NoCopy, MustWiden, Running, Returns, Fails
<1>2. ListsOf' = ListsOf
  BY NoRoomStep, NoCopyStep, ListsSame
<1>3. AskedOf # NULL /\ AskedOf' = NULL /\ GapsOf' = {}
  BY <1>1, InCall DEF AskedOf, GapsOf
<1> QED
  BY <1>1, <1>2, <1>3 DEF Promise!GiveUp, Promise!Done, Promise!Next

LEMMA AddPromised ==
  ASSUME IInv, AddPart \/ LastPart
  PROVE  Promise!Next \/ UNCHANGED Promise!vars
<1>1. PICK n, max, home : n = call.cnt /\ max = call.listmax /\ home = call.list
  OBVIOUS
<1>2. /\ call # NULL /\ n \in Nat /\ call.left \in Nat /\ home \in Home /\ max \in Nat
      /\ store[home] \in Array(max) /\ n < max /\ call.seplen = 1
      /\ call.pc # "return"
  BY <1>1, Constants DEF AddPart, LastPart, Running, IInv, CallOK, RoomOK, Locals
<1>3. ListsOf' = ListsOf
  BY AddPartStep, LastPartStep, ListsSame
<1>4. PICK pc \in {"while", "return"}, left \in Nat :
        /\ Add(pc, left)
        /\ n + call.left + 1 = (n + 1) + left + (IF pc = "return" THEN 0 ELSE 1)
  <2>1. CASE AddPart
    <3>1. call.left > 0
      BY <2>1 DEF AddPart, Running, IInv, CallOK
    <3> QED
      BY <1>2, <2>1, <3>1 DEF AddPart, Past
  <2>2. CASE LastPart
    BY <1>2, <2>2 DEF LastPart
  <2> QED
    BY <2>1, <2>2
<1>5. call' = [call EXCEPT !.cnt = @ + 1, !.left = left, !.pc = pc] /\ calls' = calls
  BY <1>4 DEF Add
<1>6. /\ call' # NULL /\ call'.cnt = n + 1 /\ call'.left = left /\ call'.pc = pc
      /\ call'.v = call.v /\ call'.list = home
  <2>1. call \in Locals
    BY <1>2 DEF IInv, CallOK
  <2>2. call.cnt = n /\ n + 1 \in Nat /\ pc \in {"while", "add", "return"}
    BY <1>1, <1>2, <1>4
  <2>3. call' = [call EXCEPT !.cnt = n + 1, !.left = left, !.pc = pc]
    BY <1>1, <1>5
  <2>4. call' \in Locals
    BY <2>1, <2>2, <2>3 DEF Locals
  <2> QED
    BY <1>1, <2>1, <2>3, <2>4, FreeAssumption DEF Locals
<1>7. AskedOf' = AskedOf
  BY <1>1, <1>2, <1>4, <1>6 DEF AskedOf
<1>8. PICK x \in FromResult : From(x) /\ store' = [store EXCEPT ![home] = Put(@, n, x)]
  BY <1>1, <1>4 DEF Add
<1>9. x \in Cell
  <2>1. <<calls, n + 1>> \in Part
    BY <1>2, BoundAssumption DEF IInv, CountsOK, CallOK, Part
  <2> QED
    BY <1>1, <1>8, <2>1, Constants DEF FromResult
<1>10. /\ store'[home][n] = x
       /\ \A j \in 0..(n - 1) : store'[home][j] = store[home][j]
  <2>1. PICK old, new : old = store[home] /\ new = Put(store[home], n, x)
    OBVIOUS
  <2>2. /\ new[n] = x
        /\ \A j \in 0..(max - 1) : j # n => new[j] = old[j]
    BY <1>2, <1>9, <2>1, PutOK
  <2>3. store'[home] = new
    BY <1>2, <1>8, <2>1 DEF IInv, StoreOK
  <2> QED
    BY <1>2, <2>1, <2>2, <2>3
<1>11. GapsOf' = GapsOf \cup (IF x = NULL THEN {n + 1} ELSE {})
  <2>1. GapsOf = {i \in 1..n : store[home][i - 1] = NULL}
    BY <1>1, <1>2 DEF GapsOf
  <2>2. GapsOf' = {i \in 1..(n + 1) : store'[home][i - 1] = NULL}
    BY <1>6 DEF GapsOf
  <2>3. \A i \in 1..n : store'[home][i - 1] = store[home][i - 1]
    BY <1>2, <1>10
  <2>4. (n + 1) - 1 = n
    BY <1>2
  <2> QED
    BY <1>2, <1>10, <2>1, <2>2, <2>3, <2>4
<1>12. CASE x = NULL
  <2>1. failures' = failures + 1
    <3>1. <<calls, n + 1>> \in Part
      BY <1>2, BoundAssumption DEF IInv, CountsOK, CallOK, Part
    <3>2. x # <<calls, n + 1>>
      BY <1>12, <3>1, CellAssumption
    <3> QED
      BY <1>1, <1>8, <3>2 DEF From, Fails
  <2>2. AskedOf # NULL /\ n + 1 \in 1..AskedOf.n /\ n + 1 \notin GapsOf
    BY <1>1, <1>2, InCall
  <2>3. Promise!LosePart
    BY <1>3, <1>5, <1>7, <1>11, <1>12, <2>1, <2>2 DEF Promise!LosePart
  <2> QED
    BY <2>3 DEF Promise!Next
<1>13. CASE x # NULL
  <2>1. UNCHANGED failures
    BY <1>8, <1>13 DEF From
  <2> QED
    BY <1>3, <1>5, <1>7, <1>11, <1>13, <2>1 DEF Promise!vars
<1> QED
  BY <1>12, <1>13

LEMMA ReturnPromised ==
  ASSUME IInv, Return
  PROVE  Promise!Next
<1>1. PICK a, m, array : Delivered(a, m, array)
  BY ReturnDelivers
<1>2. PICK v, k, home : v = call.v /\ k = call.cnt /\ home = call.list
  OBVIOUS
<1>3. /\ call # NULL /\ v \in Var /\ v \notin Holding /\ k \in Nat /\ home \in Home
      /\ call.left = 0 /\ call.pc = "return"
  BY <1>2 DEF Return, Running, IInv, CallOK, CountsOK, Locals
<1>4. /\ AskedOf # NULL /\ AskedOf.v = v /\ AskedOf.n = k
      /\ GapsOf = {i \in 1..k : store[home][i - 1] = NULL}
  BY <1>2, <1>3, InCall
<1>5. AskedOf' = NULL /\ GapsOf' = {} /\ UNCHANGED <<calls, failures>>
  BY <1>1, NotRunning DEF Delivered, AskedOf, GapsOf
<1>6. /\ array[k] = NULL
      /\ \A i \in 0..(k - 1) : array[i] = store[home][i]
      /\ a \in Addr /\ (a = home \/ a \in Unused)
  BY <1>1, <1>2 DEF Delivered
<1>7. \A h \in Home : store'[h] = IF h = a THEN array ELSE IF h = "local" THEN FREE ELSE store[h]
  BY <1>1, Constants DEF Delivered, IInv, StoreOK
<1>8. \A w \in Var : held'[w] = IF w = v THEN [list |-> a, cnt |-> k] ELSE held[w]
  BY <1>1, <1>2, <1>3 DEF Delivered, IInv, HeldOK
<1>9. v \in Holding' /\ held'[v].list = a /\ held'[v].cnt = k
  BY <1>3, <1>6, <1>8, Constants DEF Holding, NoList
<1>10. \A w \in Var \ {v} : held'[w] = held[w] /\ (w \in Holding' <=> w \in Holding)
  BY <1>8 DEF Holding
<1>11. \A w \in Holding : ListOf(w)' = ListOf(w)
  <2> SUFFICES ASSUME NEW w \in Holding
               PROVE  store'[held'[w].list] = store[held[w].list]
    BY DEF ListOf
  <2>1. w \in Var /\ w # v
    BY <1>3 DEF Holding
  <2>2. held[w].list \in Home /\ held[w].list # a /\ held[w].list # "local"
    BY <1>2, <1>3, <1>6, HeldApart, Constants
  <2> QED
    BY <1>7, <1>10, <2>1, <2>2
<1>12. ListOf(v)' = array
  BY <1>6, <1>7, <1>9, Constants DEF ListOf
<1>13. ListsOf'[v] = Promise!Answer
  <2>1. \A i \in 0..(k - 1) : array[i] = NULL \/ array[i] = <<calls, i + 1>>
    BY <1>2, <1>3, <1>6 DEF IInv, BuiltOK
  <2>2. <<calls, k + 1>> # NULL
    BY <1>3, Constants, BoundAssumption DEF IInv, CountsOK, CallOK, Part
  <2>3. \A i \in 1..k : array[i - 1] = IF i \in GapsOf THEN NULL ELSE <<calls, i>>
    <3> SUFFICES ASSUME NEW i \in 1..k
                 PROVE  array[i - 1] = IF i \in GapsOf THEN NULL ELSE <<calls, i>>
      OBVIOUS
    <3>1. i - 1 \in 0..(k - 1) /\ (i - 1) + 1 = i
      BY <1>3
    <3>2. i \in GapsOf <=> array[i - 1] = NULL
      BY <1>4, <1>6, <3>1
    <3> QED
      BY <2>1, <3>1, <3>2
  <2>4. ListsOf'[v] = [i \in 1..(k + 1) |-> array[i - 1]]
    BY <1>3, <1>9, <1>12 DEF ListsOf
  <2>5. Promise!Answer = [i \in 1..(k + 1) |-> IF i \in GapsOf \cup {k + 1} THEN NULL ELSE <<calls, i>>]
    BY <1>4 DEF Promise!Answer
  <2>6. \A i \in 1..(k + 1) : i \in 1..k \/ (i = k + 1 /\ i - 1 = k)
    BY <1>3
  <2>7. \A i \in 1..(k + 1) :
          array[i - 1] = IF i \in GapsOf \cup {k + 1} THEN NULL ELSE <<calls, i>>
    BY <1>3, <1>6, <2>3, <2>6
  <2> QED
    BY <2>4, <2>5, <2>7
<1>14. ListsOf' = [ListsOf EXCEPT ![v] = Promise!Answer]
  <2>1. \A w \in Var \ {v} : ListsOf'[w] = ListsOf[w]
    BY <1>10, <1>11 DEF ListsOf
  <2>2. ListsOf' = [w \in Var |-> ListsOf'[w]]
    BY DEF ListsOf
  <2> QED
    BY <1>3, <1>13, <2>1, <2>2, ListsShape
<1>15. Promise!Deliver
  BY <1>4, <1>5, <1>14 DEF Promise!Deliver, Promise!Done
<1> QED
  BY <1>15 DEF Promise!Next

\* SplitList implements SplitPromise: the parts are delivered in order with a NULL
\* behind the last, through every array the list lived in; a list stays as it was
\* until it is freed; and what is missing is missing for an allocation that failed.
THEOREM PromiseKept == Spec => KeepsPromise
<1>1. Init => Promise!Init
  BY NotRunning DEF Init, Promise!Init, AskedOf, GapsOf, ListsOf, Holding
<1>2. IInv /\ [Next]_vars => [Promise!Next]_(Promise!vars)
  <2> SUFFICES ASSUME IInv, [Next]_vars
               PROVE  Promise!Next \/ UNCHANGED Promise!vars
    OBVIOUS
  <2>1. CASE UNCHANGED vars
    <3>1. Undisturbed
      BY <2>1 DEF vars, Undisturbed
    <3>2. AskedOf' = AskedOf /\ GapsOf' = GapsOf
      BY <2>1 DEF vars, AskedOf, GapsOf
    <3> QED
      BY <2>1, <3>1, <3>2, ListsSame DEF vars, Promise!vars
  <2>2. CASE \E v \in Var, n \in Seps, seplen \in {0, 1} : Call(v, n, seplen)
    BY <2>2, CallPromised
  <2>3. CASE \E v \in Var : stx_list_free(v)
    BY <2>3, FreePromised
  <2>4. CASE ToPool \/ ToHeap \/ Widen
    BY <2>4, Moves, MovedPromised
  <2>5. CASE NoRoom \/ NoCopy
    BY <2>5, GiveUpPromised
  <2>6. CASE AddPart \/ LastPart
    BY <2>6, AddPromised
  <2>7. CASE Return
    BY <2>7, ReturnPromised
  <2> QED
    BY <2>1, <2>2, <2>3, <2>4, <2>5, <2>6, <2>7 DEF Next, Step
<1> QED
  BY <1>1, <1>2, Invariant, PTL DEF Spec, KeepsPromise, Promise!Spec
=============================================================================
