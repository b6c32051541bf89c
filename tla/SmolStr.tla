------------------------------- MODULE SmolStr -------------------------------
(***************************************************************************)
(* The small strings of the language (lang/src/smol_str.rs): a text is     *)
(* kept in place, as a slice of one static string of white space, or on    *)
(* the heap.  A text is its sequence of bytes.                             *)
(***************************************************************************)
EXTENDS Integers, Sequences

CONSTANTS INLINE_CAP, N_NEWLINES, N_SPACES,  \* 22, 32 and 128 in the code
          Texts                              \* the texts strings are made of

NL == 10
SP == 32

ASSUME CapAssumption == INLINE_CAP \in Nat /\ N_NEWLINES \in Nat /\ N_SPACES \in Nat
ASSUME TextAssumption == Texts \subseteq Seq(0..255)

VARIABLES text,     \* what the string was made of
          smol,     \* its Repr
          panicked

vars == <<text, smol, panicked>>

(* The bytes from a to b, exclusive, counted from 0. *)
slice(s, a, b) == [i \in 1..(b - a) |-> s[a + i]]

WS == [i \in 1..(N_NEWLINES + N_SPACES) |-> IF i <= N_NEWLINES THEN NL ELSE SP]

Inline(t) == [tag |-> "Inline", len |-> Len(t),
              buf |-> [i \in 1..INLINE_CAP |-> IF i <= Len(t) THEN t[i] ELSE 0]]

Heap(t) == [tag |-> "Heap", data |-> t]

(* take_while on the bytes that may be newlines of WS. *)
newlines(t) ==
  LET possible == IF Len(t) <= N_NEWLINES THEN Len(t) ELSE N_NEWLINES
  IN  CHOOSE n \in 0..possible : /\ \A i \in 1..n : t[i] = NL
                                 /\ n < possible => t[n + 1] # NL

(* Mutant: the limit on the spaces is forgotten. *)
is_substring_unlimited(t) == /\ Len(t) <= N_NEWLINES + N_SPACES
                             /\ \A i \in (newlines(t) + 1)..Len(t) : t[i] = SP

(* Mutant: the limit on the spaces also holds for the whole text. *)
is_substring_short(t) == /\ Len(t) <= N_SPACES
                         /\ \A i \in (newlines(t) + 1)..Len(t) : t[i] = SP

is_substring(t) == /\ Len(t) <= N_NEWLINES + N_SPACES
                   /\ Len(t) - newlines(t) <= N_SPACES
                   /\ \A i \in (newlines(t) + 1)..Len(t) : t[i] = SP

new(t) == IF Len(t) <= INLINE_CAP THEN Inline(t)
          ELSE IF is_substring(t)
          THEN [tag |-> "Substring", newlines |-> newlines(t), spaces |-> Len(t) - newlines(t)]
          ELSE Heap(t)

len(r) == CASE r.tag = "Heap" -> Len(r.data)
            [] r.tag = "Inline" -> r.len
            [] r.tag = "Substring" -> r.newlines + r.spaces

is_empty(r) == CASE r.tag = "Heap" -> r.data = <<>>
                 [] r.tag = "Inline" -> r.len = 0
                 [] r.tag = "Substring" -> FALSE

as_str(r) == CASE r.tag = "Heap" -> r.data
               [] r.tag = "Inline" -> slice(r.buf, 0, r.len)
               [] r.tag = "Substring" -> slice(WS, N_NEWLINES - r.newlines, N_NEWLINES + r.spaces)

Init == text = <<>> /\ smol = Inline(<<>>) /\ panicked = FALSE

New(t) == /\ ~panicked
          /\ text' = t /\ smol' = new(t)
          /\ UNCHANGED panicked

(* The loop copies byte by byte and panics at the first that does not fit. *)
NewInline(t) == /\ ~panicked
                /\ IF Len(t) <= INLINE_CAP
                   THEN text' = t /\ smol' = Inline(t) /\ UNCHANGED panicked
                   ELSE panicked' = TRUE /\ UNCHANGED <<text, smol>>

Panicked == panicked /\ UNCHANGED vars

Next == (\E t \in Texts : New(t) \/ NewInline(t)) \/ Panicked

Spec == Init /\ [][Next]_vars

-----------------------------------------------------------------------------
(* Properties. *)

(* A string reads as the text it was made of, however it is kept, and reading it
   does not meet the assertion of as_str; len and is_empty, which do not build the
   text, agree with it. *)
RoundTrip == /\ smol.tag = "Substring" =>
                  smol.newlines <= N_NEWLINES /\ smol.spaces <= N_SPACES
             /\ as_str(smol) = text
             /\ len(smol) = Len(text) /\ (is_empty(smol) <=> text = <<>>)

(* What the documentation of SmolStr promises: a text goes to the heap only if it is
   too long to be kept in place and not a part of WS. *)
HeapOnlyWhenNeeded ==
  smol.tag = "Heap" => /\ Len(text) > INLINE_CAP
                       /\ \A a, b \in 0..Len(WS) : slice(WS, a, b) # text
=============================================================================
