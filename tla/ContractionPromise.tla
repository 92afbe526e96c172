------------------------- MODULE ContractionPromise -------------------------
(***************************************************************************)
(* What the writer promises about floating point contraction, whatever the *)
(* order in which it meets the functions: it marks a function only for a   *)
(* reason, and when it says that it is done every function with a reason   *)
(* is marked.  A reason is an instruction that a consumer could fuse, a    *)
(* call into the unknown, or the use of a function that is marked.         *)
(***************************************************************************)
EXTENDS Sequences

VARIABLES prog,     \* the functions: [decl, body], an item of a body has k and g
          marked,   \* the functions for which contraction is off
          settled   \* the writer acts on marked

vars == <<prog, marked, settled>>

Items(i) == {prog[i].body[j] : j \in DOMAIN prog[i].body}

Own(i) ==
  \E x \in Items(i) :
    \/ x.k \in {"muladd", "asm", "indirect"}
    \/ x.k = "call" /\ prog[x.g].decl

Reason(i) ==
  /\ ~prog[i].decl
  /\ Own(i) \/ \E x \in Items(i) : x.g \in marked

Init == marked = {} /\ settled = FALSE

Mark ==
  /\ ~settled
  /\ \E i \in DOMAIN prog : Reason(i) /\ marked' = marked \cup {i}
  /\ UNCHANGED <<prog, settled>>

Settle ==
  /\ ~settled
  /\ \A i \in DOMAIN prog : Reason(i) => i \in marked
  /\ settled' = TRUE
  /\ UNCHANGED <<prog, marked>>

\* The next translation of the same program.
Again ==
  /\ settled
  /\ marked' = {} /\ settled' = FALSE
  /\ UNCHANGED prog

Next == Mark \/ Settle \/ Again

Spec == Init /\ [][Next]_vars
=============================================================================
