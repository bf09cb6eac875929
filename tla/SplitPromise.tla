----------------------------- MODULE SplitPromise -----------------------------
(* What stx_split_len promises, with no arrays: the caller asks for the parts of *)
(* a source and gets all of them, in order, with a NULL after the last.  Each    *)
(* allocation that fails on the way makes one part NULL, or costs the whole list. *)
(* A list stays as it is until it is freed.                                      *)
EXTENDS Integers

CONSTANTS Var, Seps, MaxCalls, NULL

VARIABLES
  asked,     \* who waits for how many parts: [v, n], or NULL
  gaps,      \* those of them that could not be made
  failures,  \* allocations that failed so far
  calls,     \* calls made so far
  lists      \* what each variable holds: parts 1..n and the NULL, or <<>>

vars == <<asked, gaps, failures, calls, lists>>

MayAsk(v) == asked = NULL /\ lists[v] = <<>> /\ calls < MaxCalls /\ calls' = calls + 1

Ask(v, n) ==
  /\ MayAsk(v)
  /\ asked' = [v |-> v, n |-> n]
  /\ UNCHANGED <<gaps, failures, lists>>

\* There is nothing to split on: no list, at once.
AskInVain(v) == MayAsk(v) /\ UNCHANGED <<asked, gaps, failures, lists>>

LosePart ==
  /\ asked # NULL
  /\ \E i \in (1..asked.n) \ gaps : gaps' = gaps \cup {i}
  /\ failures' = failures + 1
  /\ UNCHANGED <<asked, calls, lists>>

Done == asked # NULL /\ asked' = NULL /\ gaps' = {} /\ UNCHANGED calls

Answer == [i \in 1..(asked.n + 1) |->
             IF i \in gaps \cup {asked.n + 1} THEN NULL ELSE <<calls, i>>]

Deliver == Done /\ lists' = [lists EXCEPT ![asked.v] = Answer] /\ UNCHANGED failures

GiveUp == Done /\ failures' = failures + 1 /\ UNCHANGED lists

Free(v) ==
  /\ asked = NULL /\ lists[v] # <<>>
  /\ lists' = [lists EXCEPT ![v] = <<>>]
  /\ UNCHANGED <<asked, gaps, failures, calls>>

Init == /\ asked = NULL /\ gaps = {} /\ failures = 0 /\ calls = 0
        /\ lists = [v \in Var |-> <<>>]

Next ==
  \/ \E v \in Var : (\E n \in Seps : Ask(v, n + 1)) \/ AskInVain(v) \/ Free(v)
  \/ LosePart \/ Deliver \/ GiveUp

Spec == Init /\ [][Next]_vars
==============================================================================
