----------------------------- MODULE StricksClaims -----------------------------
(* What the README and the unit tests say of the stricks and the code does not *)
(* do.  Each claim is checked by a run of its own, and refuted by it.          *)
EXTENDS Stricks

Appending == {"append", "append_fmt"}

\* README, stx_append: "Appends `len` bytes from `src` to `*dst`": what was there
\* before is still there, in front.
AppendKeepsText ==
  [][ ret'.op \in Appending /\ ret'.rc > 0 =>
        LET b == Strick(ret'.v)
            c == After(ret'.v)
        IN \A i \in 0..(b.len - 1) : c.data[i] = b.data[i] ]_vars

\* README, API: "Custom allocators can be defined": a block goes back to the
\* allocator it came from.
AllocatorsRespected == "wrong_family" \notin faults
=============================================================================
