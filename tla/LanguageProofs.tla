--------------------------- MODULE LanguageProofs ----------------------------
(***************************************************************************)
(* Proofs about the language: small strings, for every text and for every  *)
(* choice of the three limits, and the JIT over the modules of a program,  *)
(* whatever their names, their signatures and the order of the modules.    *)
(***************************************************************************)
EXTENDS SmolStr, JitModule, WellFoundedInduction, TLAPS

-----------------------------------------------------------------------------
(* Small strings. *)

possible(t) == IF Len(t) <= N_NEWLINES THEN Len(t) ELSE N_NEWLINES

(* take_while(..).count(): it is defined, and what it counts are the newlines that
   the text starts with. *)
LEMMA NewlinesLead ==
  ASSUME NEW t \in Seq(0..255)
  PROVE  /\ newlines(t) \in 0..possible(t)
         /\ \A i \in 1..newlines(t) : t[i] = NL
         /\ newlines(t) < possible(t) => t[newlines(t) + 1] # NL
<1> DEFINE T == {n \in Nat : n <= possible(t) /\ (n < possible(t) => t[n + 1] # NL)}
<1>1. possible(t) \in Nat /\ Len(t) \in Nat
  BY CapAssumption DEF possible
<1>2. PICK n \in T : \A k \in T : ~ (<<k, n>> \in OpToRel(<, Nat))
  <2>1. T \subseteq Nat /\ T # {}
    BY <1>1
  <2> QED
    BY <2>1, NatLessThanWellFounded, WFMin
<1>3. \A k \in Nat : k < n => k \notin T
  BY <1>2 DEF OpToRel
<1>4. \A i \in 1..n : t[i] = NL
  <2> SUFFICES ASSUME NEW i \in 1..n PROVE t[i] = NL
    OBVIOUS
  <2>1. i - 1 \in Nat /\ i - 1 < n /\ i - 1 < possible(t) /\ (i - 1) + 1 = i
    BY <1>1
  <2>2. i - 1 \notin T
    BY <2>1, <1>3
  <2>3. t[(i - 1) + 1] = NL
    BY <2>1, <2>2, <1>1
  <2> QED
    BY <2>1, <2>3
<1>5. \E m \in 0..possible(t) : /\ \A i \in 1..m : t[i] = NL
                                /\ m < possible(t) => t[m + 1] # NL
  BY <1>1, <1>4
<1> QED
  BY <1>5, SMTT(30) DEF newlines, possible

(* Reading back what Repr::new keeps. *)
LEMMA ReadsBack ==
  ASSUME NEW t \in Seq(0..255)
  PROVE  /\ as_str(new(t)) = t
         /\ len(new(t)) = Len(t)
         /\ is_empty(new(t)) <=> t = <<>>
         /\ new(t).tag = "Substring" =>
              new(t).newlines <= N_NEWLINES /\ new(t).spaces <= N_SPACES
<1>1. Len(t) \in Nat /\ t = [i \in 1..Len(t) |-> t[i]] /\ (t = <<>> <=> Len(t) = 0)
  OBVIOUS
<1>2. CASE Len(t) <= INLINE_CAP
  <2>1. new(t) = Inline(t)
    BY <1>2 DEF new
  <2> DEFINE b == [i \in 1..INLINE_CAP |-> IF i <= Len(t) THEN t[i] ELSE 0]
  <2>2. slice(b, 0, Len(t)) = [i \in 1..Len(t) |-> t[i]]
    <3>1. Len(t) - 0 = Len(t) /\ \A i \in 1..Len(t) : 0 + i = i /\ i \in 1..INLINE_CAP
      BY <1>1, <1>2, CapAssumption
    <3>2. \A i \in 1..Len(t) : b[0 + i] = t[i]
      BY <3>1, <1>1
    <3> QED
      BY <3>1, <3>2 DEF slice
  <2>3. Inline(t).tag = "Inline" /\ Inline(t).len = Len(t) /\ Inline(t).buf = b
    BY DEF Inline
  <2> HIDE DEF b
  <2> QED
    BY <1>1, <2>1, <2>2, <2>3 DEF as_str, len, is_empty
<1>3. CASE Len(t) > INLINE_CAP /\ is_substring(t)
  <2> DEFINE n == newlines(t)
  <2>1. /\ new(t) = [tag |-> "Substring", newlines |-> n, spaces |-> Len(t) - n]
        /\ n \in Nat /\ n <= N_NEWLINES /\ n <= Len(t) /\ Len(t) - n <= N_SPACES
        /\ \A i \in 1..n : t[i] = NL
        /\ \A i \in (n + 1)..Len(t) : t[i] = SP
    BY <1>1, <1>3, NewlinesLead, CapAssumption DEF new, is_substring, possible
  <2>2. Len(t) # 0
    BY <1>1, <1>3, CapAssumption
  <2> HIDE DEF n
  <2>3. slice(WS, N_NEWLINES - n, N_NEWLINES + (Len(t) - n)) = [i \in 1..Len(t) |-> t[i]]
    <3>1. (N_NEWLINES + (Len(t) - n)) - (N_NEWLINES - n) = Len(t)
      BY <1>1, <2>1, CapAssumption
    <3>2. \A i \in 1..Len(t) : WS[(N_NEWLINES - n) + i] = t[i]
      <4> SUFFICES ASSUME NEW i \in 1..Len(t) PROVE WS[(N_NEWLINES - n) + i] = t[i]
        OBVIOUS
      <4>1. (N_NEWLINES - n) + i \in 1..(N_NEWLINES + N_SPACES)
        BY <1>1, <2>1, CapAssumption
      <4>2. CASE i <= n
        BY <4>1, <4>2, <2>1, <1>1, CapAssumption DEF WS
      <4>3. CASE i > n
        BY <4>1, <4>3, <2>1, <1>1, CapAssumption DEF WS
      <4> QED
        BY <4>2, <4>3, <2>1
    <3> QED
      BY <3>1, <3>2 DEF slice
  <2>4. /\ new(t).tag = "Substring" /\ new(t).newlines = n /\ new(t).spaces = Len(t) - n
        /\ n + (Len(t) - n) = Len(t)
    BY <1>1, <2>1
  <2>5. as_str(new(t)) = t
    BY <1>1, <2>3, <2>4 DEF as_str
  <2>6. len(new(t)) = Len(t) /\ ~is_empty(new(t))
    BY <2>4 DEF len, is_empty
  <2> QED
    BY <1>1, <2>1, <2>2, <2>4, <2>5, <2>6
<1>4. CASE Len(t) > INLINE_CAP /\ ~is_substring(t)
  <2>1. new(t) = Heap(t)
    BY <1>1, <1>4, CapAssumption DEF new
  <2> QED
    BY <1>1, <2>1 DEF as_str, len, is_empty, Heap
<1> QED
  BY <1>1, <1>2, <1>3, <1>4, CapAssumption

(* The inductive invariant: whichever constructor made it, the string is what Repr::new
   makes. *)
Inv == text \in Seq(0..255) /\ smol = new(text)

(* Both constructors keep it. *)
LEMMA InvHolds == Spec => []Inv
<1> USE DEF Inv
<1>1. Init => Inv
  BY CapAssumption DEF Init, new
<1>2. Inv /\ [Next]_vars => Inv'
  <2> SUFFICES ASSUME Inv, [Next]_vars PROVE Inv'
    OBVIOUS
  <2>1. ASSUME NEW t \in Texts, New(t) PROVE Inv'
    BY <2>1, TextAssumption DEF New
  <2>2. ASSUME NEW t \in Texts, NewInline(t) PROVE Inv'
    BY <2>2, TextAssumption DEF NewInline, new
  <2>3. CASE UNCHANGED vars
    BY <2>3 DEF vars
  <2> QED
    BY <2>1, <2>2, <2>3 DEF Next, Panicked
<1> QED
  BY <1>1, <1>2, PTL DEF Spec

(* Every string reads as the text it was made of and measures as long, however as_str
   finds it kept. *)
THEOREM StringsReadBack == Spec => []RoundTrip
<1>1. Inv => RoundTrip
  BY ReadsBack DEF Inv, RoundTrip
<1> QED
  BY <1>1, InvHolds, PTL

(* A slice of WS is a substring to is_substring: its newlines lead, and it has no more
   spaces than WS. *)
LEMMA SlicesAreSubstrings ==
  ASSUME NEW t \in Seq(0..255), NEW a \in 0..Len(WS), NEW b \in 0..Len(WS),
         t = slice(WS, a, b), t # <<>>
  PROVE  is_substring(t)
<1>1. Len(WS) = N_NEWLINES + N_SPACES /\ Len(WS) \in Nat
  BY CapAssumption DEF WS
<1>2. /\ Len(t) \in Nat /\ Len(t) = b - a /\ Len(t) > 0
      /\ \A i \in 1..Len(t) : t[i] = WS[a + i] /\ a + i \in 1..(N_NEWLINES + N_SPACES)
  <2>1. DOMAIN t = 1..Len(t) /\ DOMAIN t = 1..(b - a) /\ Len(t) \in Nat /\ Len(t) > 0
    BY DEF slice
  <2>2. Len(t) = b - a
    BY <1>1, <2>1, SMTT(30)
  <2>3. \A i \in 1..Len(t) : t[i] = WS[a + i] /\ a + i \in 1..(N_NEWLINES + N_SPACES)
    BY <1>1, <2>2 DEF slice
  <2> QED BY <2>1, <2>2, <2>3
<1>3. \A i \in 1..Len(t) : t[i] = IF a + i <= N_NEWLINES THEN NL ELSE SP
  BY <1>2 DEF WS
<1> DEFINE n == newlines(t)
<1>4. /\ n \in 0..possible(t) /\ \A i \in 1..n : t[i] = NL
      /\ n < possible(t) => t[n + 1] # NL
  BY NewlinesLead
<1>5. /\ possible(t) \in Nat /\ possible(t) <= Len(t) /\ possible(t) <= N_NEWLINES
      /\ possible(t) = Len(t) \/ possible(t) = N_NEWLINES
  BY <1>2, CapAssumption DEF possible
<1> HIDE DEF n
<1>n. a \in Nat /\ b \in Nat /\ b <= Len(WS) /\ n \in Nat /\ Len(t) \in Nat
  BY <1>1, <1>2, <1>4, <1>5
<1>6. \A i \in (n + 1)..Len(t) : ~(a + i <= N_NEWLINES)
  <2> SUFFICES ASSUME NEW i \in (n + 1)..Len(t), a + i <= N_NEWLINES PROVE FALSE
    OBVIOUS
  <2>1. i <= possible(t) /\ n < possible(t) /\ n + 1 \in 1..Len(t) /\ a + (n + 1) <= N_NEWLINES
    BY <1>n, <1>4, <1>5, CapAssumption
  <2> QED BY <2>1, <1>3, <1>4
<1>7. \A i \in (n + 1)..Len(t) : t[i] = SP
  BY <1>3, <1>4, <1>5, <1>6, CapAssumption DEF NL, SP
<1>8. Len(t) - n <= N_SPACES
  <2>1. CASE n = Len(t)
    BY <2>1, <1>2, CapAssumption
  <2>2. CASE n < Len(t)
    <3>1. ~(a + (n + 1) <= N_NEWLINES)
      <4>1. n + 1 \in (n + 1)..Len(t)
        BY <2>2, <1>n
      <4> QED BY <4>1, <1>6
    <3> QED BY <3>1, <1>n, <1>1, <1>2, CapAssumption
  <2> QED BY <2>1, <2>2, <1>n, <1>4, <1>5
<1> QED BY <1>1, <1>2, <1>7, <1>8, CapAssumption DEF is_substring, n

(* Repr::new allocates only for a text that neither fits in place nor is a part of the
   static white space, for all limits. *)
THEOREM HeapIsLastResort == Spec => []HeapOnlyWhenNeeded
<1>1. Inv => HeapOnlyWhenNeeded
  <2> SUFFICES ASSUME Inv, smol.tag = "Heap"
               PROVE  /\ Len(text) > INLINE_CAP
                      /\ \A a, b \in 0..Len(WS) : slice(WS, a, b) # text
    BY DEF HeapOnlyWhenNeeded
  <2>1. text \in Seq(0..255) /\ Len(text) \in Nat /\ new(text).tag = "Heap"
    BY DEF Inv
  <2>2. Len(text) > INLINE_CAP /\ ~is_substring(text)
    BY <2>1, CapAssumption DEF new, Inline
  <2>3. text # <<>>
    BY <2>2, CapAssumption
  <2> QED BY <2>1, <2>2, <2>3, SlicesAreSubstrings
<1> QED BY <1>1, InvHolds, PTL

-----------------------------------------------------------------------------
(* The JIT. *)

Fn(p, f) == p[f[1]][f[2]]

AllOf(p) == UNION {{<<i, j>> : j \in DOMAIN p[i]} : i \in DOMAIN p}

BodiesOf(p) == {f \in AllOf(p) : Fn(p, f).body}

CalleesOf(p, f) == {<<f[1], Fn(p, f).calls[i]>> : i \in DOMAIN Fn(p, f).calls}

UsedBy(p, F) == F \cup UNION {CalleesOf(p, f) : f \in F}

CallsOf(p, F) == UNION {{<<f[1], f[2], Fn(p, f).calls[i]>> : i \in DOMAIN Fn(p, f).calls} : f \in F}

(* The functions with a body that the JIT has passed when it is at the k-th of module a. *)
DoneBy(p, a, k) == {f \in BodiesOf(p) : f[1] < a \/ (f[1] = a /\ f[2] < k)}

(* r and d declare the functions U: each by its name, with its signature. *)
Declares(p, U, r, d) ==
  /\ DOMAIN r = U /\ \A f \in U : r[f] = Fn(p, f).name
  /\ DOMAIN d = {Fn(p, f).name : f \in U}
  /\ \A f \in U : /\ d[Fn(p, f).name].sig = Fn(p, f).sig
                  /\ Fn(p, f).body => d[Fn(p, f).name].linkage = "Export"

(* c defines the functions F and no other, so that no two of them share a name. *)
Defines(p, F, c) ==
  DOMAIN c = {Fn(p, f).name : f \in F} /\ \A f \in F : c[Fn(p, f).name] = f

(* The call c goes where it should, to one of the functions F or to the host. *)
Arrives(p, F, to, c) ==
  LET callee == <<c[1], c[3]>>
  IN  /\ Fn(p, callee).body => to[c] = callee
      /\ ~Fn(p, callee).body => \/ to[c] = <<"host">> /\ Fn(p, callee).name \in Symbols
                                \/ /\ to[c] \in F /\ Fn(p, to[c]).name = Fn(p, callee).name
                                   /\ Fn(p, to[c]).sig = Fn(p, callee).sig
      /\ \/ Fn(p, callee).name \in Symbols
         \/ \E g \in F : Fn(p, g).name = Fn(p, callee).name /\ g[1] <= c[1]

(* Two of the functions share a name and not a signature. *)
Conflict(p, U) == \E f, g \in U : Fn(p, f).name = Fn(p, g).name /\ Fn(p, f).sig # Fn(p, g).sig

Done == DoneBy(program, at, place)

(* The inductive invariant: the tables of the JIT are those of the functions it has passed. *)
JitInv ==
  /\ program \in LinkedPrograms /\ linking \in {"jit", "running", "panic"}
  /\ linking # "panic" =>
       /\ at \in 1..(Len(program) + 1) /\ place \in Nat /\ place >= 1
       /\ Declares(program, UsedBy(program, Done), ids, decls)
       /\ Defines(program, Done, defined)
       /\ unlinked = {f \in Done : f[1] = at}
       /\ DOMAIN linked = CallsOf(program, {f \in Done : f[1] < at})
       /\ \A c \in DOMAIN linked : Arrives(program, Done, linked, c)
  /\ linking = "running" => at > Len(program) /\ "main" \in DOMAIN defined
  /\ linking = "panic" => ~Linkable

-----------------------------------------------------------------------------
(* Programs. *)

(* The functions of a program, and the calls of each, by their positions. *)
LEMMA AllIs ==
  ASSUME NEW p \in LinkedPrograms
  PROVE  /\ Len(p) \in Nat
         /\ \A i \in 1..Len(p) : Len(p[i]) \in Nat /\ \A j \in 1..Len(p[i]) : <<i, j>> \in AllOf(p)
         /\ \A f \in AllOf(p) : /\ f[1] \in 1..Len(p) /\ f[2] \in 1..Len(p[f[1]]) /\ f = <<f[1], f[2]>>
                                /\ f[1] \in Nat /\ f[2] \in Nat
                                /\ Fn(p, f).body \in BOOLEAN /\ Fn(p, f).calls \in Seq(1..Len(p[f[1]]))
<1>1. /\ Len(p) \in Nat /\ DOMAIN p = 1..Len(p)
      /\ \A i \in 1..Len(p) :
           /\ Len(p[i]) \in Nat /\ DOMAIN p[i] = 1..Len(p[i])
           /\ \A j \in 1..Len(p[i]) : p[i][j].body \in BOOLEAN /\ p[i][j].calls \in Seq(1..Len(p[i]))
  BY LinkedAssumption
<1>2. \A i \in 1..Len(p) : \A j \in 1..Len(p[i]) : <<i, j>> \in AllOf(p)
  BY <1>1 DEF AllOf
<1>3. ASSUME NEW f \in AllOf(p)
      PROVE  /\ f[1] \in 1..Len(p) /\ f[2] \in 1..Len(p[f[1]]) /\ f = <<f[1], f[2]>>
             /\ f[1] \in Nat /\ f[2] \in Nat
             /\ Fn(p, f).body \in BOOLEAN /\ Fn(p, f).calls \in Seq(1..Len(p[f[1]]))
  <2>1. PICK i \in 1..Len(p) : \E j \in 1..Len(p[i]) : f = <<i, j>>
    BY <1>1 DEF AllOf
  <2>2. PICK j \in 1..Len(p[i]) : f = <<i, j>>
    BY <2>1
  <2>3. f[1] = i /\ f[2] = j
    BY <2>2
  <2> QED BY <1>1, <2>2, <2>3 DEF Fn
<1> QED BY <1>1, <1>2, <1>3

(* A call stays in its module. *)
LEMMA CalleesAre ==
  ASSUME NEW p \in LinkedPrograms, NEW f \in AllOf(p)
  PROVE  /\ CalleesOf(p, f) \subseteq AllOf(p)
         /\ \A g \in CalleesOf(p, f) : g[1] = f[1]
         /\ \A i \in DOMAIN Fn(p, f).calls : <<f[1], Fn(p, f).calls[i]>> \in CalleesOf(p, f)
<1>1. f[1] \in 1..Len(p) /\ Fn(p, f).calls \in Seq(1..Len(p[f[1]]))
  BY AllIs
<1>2. \A i \in DOMAIN Fn(p, f).calls : Fn(p, f).calls[i] \in 1..Len(p[f[1]])
  BY <1>1
<1>3. \A i \in DOMAIN Fn(p, f).calls : <<f[1], Fn(p, f).calls[i]>> \in AllOf(p)
  BY <1>1, <1>2, AllIs
<1> QED BY <1>3 DEF CalleesOf

(* One more body uses itself and what it calls; a call that is made comes from a body. *)
LEMMA UsedIs ==
  ASSUME NEW p \in LinkedPrograms, NEW F, F \subseteq AllOf(p)
  PROVE  /\ UsedBy(p, F) \subseteq AllOf(p) /\ F \subseteq UsedBy(p, F)
         /\ \A f \in AllOf(p) : UsedBy(p, F \cup {f}) = UsedBy(p, F) \cup {f} \cup CalleesOf(p, f)
         /\ \A c \in CallsOf(p, F) : \E f \in F : /\ <<c[1], c[3]>> \in CalleesOf(p, f) /\ c[1] = f[1] /\ c[2] = f[2]
                                                  /\ c \in CallsOf(p, {f})
         /\ \A c \in CallsOf(p, F) : <<c[1], c[3]>> \in UsedBy(p, F)
<1>1. \A f \in F : CalleesOf(p, f) \subseteq AllOf(p)
  BY CalleesAre
<1>2. UsedBy(p, F) \subseteq AllOf(p) /\ F \subseteq UsedBy(p, F)
  BY <1>1 DEF UsedBy
<1>3. \A f \in AllOf(p) : UsedBy(p, F \cup {f}) = UsedBy(p, F) \cup {f} \cup CalleesOf(p, f)
  BY DEF UsedBy
<1>4. ASSUME NEW c \in CallsOf(p, F)
      PROVE  \E f \in F : /\ <<c[1], c[3]>> \in CalleesOf(p, f) /\ c[1] = f[1] /\ c[2] = f[2]
                          /\ c \in CallsOf(p, {f})
  <2>1. PICK f \in F : \E i \in DOMAIN Fn(p, f).calls : c = <<f[1], f[2], Fn(p, f).calls[i]>>
    BY DEF CallsOf
  <2>2. PICK i \in DOMAIN Fn(p, f).calls : c = <<f[1], f[2], Fn(p, f).calls[i]>>
    BY <2>1
  <2>3. c[1] = f[1] /\ c[2] = f[2] /\ c[3] = Fn(p, f).calls[i]
    BY <2>2
  <2>4. <<c[1], c[3]>> \in CalleesOf(p, f)
    BY <2>3 DEF CalleesOf
  <2>5. c \in CallsOf(p, {f})
    BY <2>2 DEF CallsOf
  <2> QED BY <2>3, <2>4, <2>5
<1>5. \A c \in CallsOf(p, F) : <<c[1], c[3]>> \in UsedBy(p, F)
  BY <1>4 DEF UsedBy
<1> QED BY <1>2, <1>3, <1>4, <1>5

(* The properties speak of the same functions. *)
LEMMA SameNames ==
  /\ \A f : Func(f) = Fn(program, f)
  /\ Bodies = BodiesOf(program) /\ Calls = CallsOf(program, Bodies)
<1>1. \A f : Func(f) = Fn(program, f)
  BY DEF Func, Fn
<1>2. Bodies = BodiesOf(program)
  BY <1>1 DEF Bodies, BodiesOf, All, AllOf
<1>3. Calls = CallsOf(program, Bodies)
  BY DEF Calls, CallsOf, Func, Fn
<1> QED BY <1>1, <1>2, <1>3

(* Used, of the run, is UsedBy. *)
LEMMA SameUsed ==
  ASSUME program \in LinkedPrograms
  PROVE  Used = UsedBy(program, BodiesOf(program))
<1> DEFINE B == BodiesOf(program)
<1>1. B \subseteq AllOf(program)
  BY DEF BodiesOf
<1>2. Used = B \cup {<<c[1], c[3]>> : c \in CallsOf(program, B)}
  BY SameNames DEF Used
<1> HIDE DEF B
<1>3. ASSUME NEW g \in UNION {CalleesOf(program, f) : f \in B}
      PROVE  g \in {<<c[1], c[3]>> : c \in CallsOf(program, B)}
  <2>1. PICK f \in B : g \in CalleesOf(program, f)
    BY <1>3
  <2>2. PICK i \in DOMAIN Fn(program, f).calls : g = <<f[1], Fn(program, f).calls[i]>>
    BY <2>1 DEF CalleesOf
  <2> DEFINE c == <<f[1], f[2], Fn(program, f).calls[i]>>
  <2>3. c \in CallsOf(program, B) /\ c[1] = f[1] /\ c[3] = Fn(program, f).calls[i]
    BY <2>2 DEF CallsOf
  <2> QED BY <2>2, <2>3
<1>4. \A c \in CallsOf(program, B) : <<c[1], c[3]>> \in UsedBy(program, B)
  BY <1>1, UsedIs
<1> QED BY <1>2, <1>3, <1>4 DEF UsedBy, B

(* What the JIT passes with one function, and at the end of a module. *)
LEMMA DonePasses ==
  ASSUME NEW p \in LinkedPrograms, NEW a \in 1..Len(p), NEW k \in Nat
  PROVE  /\ DoneBy(p, a, k) \subseteq BodiesOf(p) /\ DoneBy(p, a, k) \subseteq AllOf(p)
         /\ k \in 1..Len(p[a]) =>
              /\ <<a, k>> \in AllOf(p) /\ <<a, k>> \notin DoneBy(p, a, k)
              /\ DoneBy(p, a, k + 1) = IF Fn(p, <<a, k>>).body THEN DoneBy(p, a, k) \cup {<<a, k>>}
                                       ELSE DoneBy(p, a, k)
<1>1. DoneBy(p, a, k) \subseteq BodiesOf(p) /\ DoneBy(p, a, k) \subseteq AllOf(p)
  BY DEF DoneBy, BodiesOf
<1>2. \A f \in AllOf(p) : /\ f[1] \in 1..Len(p) /\ f[2] \in 1..Len(p[f[1]]) /\ f = <<f[1], f[2]>>
                          /\ f[1] \in Nat /\ f[2] \in Nat
  BY AllIs
<1>3. ASSUME k \in 1..Len(p[a])
      PROVE  /\ <<a, k>> \in AllOf(p) /\ <<a, k>> \notin DoneBy(p, a, k)
             /\ DoneBy(p, a, k + 1) = IF Fn(p, <<a, k>>).body THEN DoneBy(p, a, k) \cup {<<a, k>>}
                                      ELSE DoneBy(p, a, k)
  <2> DEFINE g == <<a, k>>
  <2>1. g \in AllOf(p) /\ g[1] = a /\ g[2] = k /\ a \in Nat /\ Len(p) \in Nat
    BY <1>3, AllIs
  <2>2. \A f \in AllOf(p) : f[1] = a /\ f[2] = k => f = g
    BY <1>2
  <2> HIDE DEF g
  <2>3. g \notin DoneBy(p, a, k)
    BY <2>1 DEF DoneBy
  <2>4. \A f \in BodiesOf(p) : f[1] < a \/ (f[1] = a /\ f[2] < k + 1) <=> f[1] < a \/ (f[1] = a /\ f[2] < k) \/ f = g
    <3>1. \A f \in BodiesOf(p) : f \in AllOf(p)
      BY DEF BodiesOf
    <3> QED BY <3>1, <2>1, <2>2, <1>2
  <2>5. g \in BodiesOf(p) <=> Fn(p, g).body
    BY <2>1 DEF BodiesOf
  <2>6. DoneBy(p, a, k + 1) = IF Fn(p, g).body THEN DoneBy(p, a, k) \cup {g} ELSE DoneBy(p, a, k)
    BY <2>4, <2>5 DEF DoneBy
  <2> QED BY <2>1, <2>3, <2>6 DEF g
<1> QED BY <1>1, <1>3

(* Past the last function of a module, the bodies before the next module are done. *)
LEMMA ModulePasses ==
  ASSUME NEW p \in LinkedPrograms, NEW a \in 1..Len(p), NEW k \in Nat, k > Len(p[a])
  PROVE  /\ DoneBy(p, a, k) \subseteq BodiesOf(p) /\ DoneBy(p, a, k) \subseteq AllOf(p)
         /\ DoneBy(p, a + 1, 1) = DoneBy(p, a, k)
         /\ \A f \in BodiesOf(p) : f[1] <= a => f \in DoneBy(p, a, k)
<1>1. DoneBy(p, a, k) \subseteq BodiesOf(p) /\ DoneBy(p, a, k) \subseteq AllOf(p)
  BY DEF DoneBy, BodiesOf
<1>2. \A f \in BodiesOf(p) : f[1] \in Nat /\ f[2] \in 1..Len(p[f[1]])
  BY AllIs DEF BodiesOf
<1>3. a \in Nat /\ Len(p[a]) \in Nat
  BY AllIs
<1>4. \A f \in BodiesOf(p) : f[1] < a + 1 \/ (f[1] = a + 1 /\ f[2] < 1) <=> f[1] < a \/ (f[1] = a /\ f[2] < k)
  BY <1>2, <1>3
<1>5. \A f \in BodiesOf(p) : f[1] <= a => f[1] < a + 1
  BY <1>2, <1>3
<1>6. DoneBy(p, a + 1, 1) = DoneBy(p, a, k)
  BY <1>4 DEF DoneBy
<1>7. \A f \in BodiesOf(p) : f[1] <= a => f \in DoneBy(p, a, k)
  BY <1>4, <1>5 DEF DoneBy
<1> QED BY <1>1, <1>6, <1>7

-----------------------------------------------------------------------------
(* Declarations. *)

(* What holds at the start and is kept by every turn holds after every turn. *)
LEMMA EveryTurn ==
  ASSUME NEW n \in Nat, NEW K, 0 \in K, \A i \in 1..n : i - 1 \in K => i \in K
  PROVE  \A i \in 0..n : i \in K
<1> SUFFICES ASSUME {i \in 0..n : i \notin K} # {} PROVE FALSE
  OBVIOUS
<1> DEFINE B == {i \in 0..n : i \notin K}
<1>1. PICK m \in B : \A k \in B : ~(<<k, m>> \in OpToRel(<, Nat))
  <2>1. B \subseteq Nat /\ B # {}
    OBVIOUS
  <2> HIDE DEF B
  <2> QED BY <2>1, NatLessThanWellFounded, WFMin
<1>2. m \in B /\ \A k \in B : ~(k < m)
  <2>1. B \subseteq Nat
    OBVIOUS
  <2> HIDE DEF B
  <2> SUFFICES ASSUME NEW k \in B PROVE ~(k < m)
    BY <1>1
  <2>2. k \in Nat /\ m \in Nat /\ <<k, m>> \notin OpToRel(<, Nat)
    BY <1>1, <2>1
  <2> QED BY <2>2 DEF OpToRel
<1>3. m \in 1..n /\ m - 1 \in 0..n /\ m - 1 < m
  BY <1>2
<1>4. m - 1 \notin B
  BY <1>2, <1>3
<1> QED BY <1>3, <1>4

(* A function is declared, or there is a reason to panic. *)
Declaring(U, s) == IF s.panic THEN Conflict(program, U) ELSE Declares(program, U, s.ir, s.decls)

(* get_or_declare adds one function to those that are declared, or finds the conflict. *)
LEMMA DeclareKeeps ==
  ASSUME NEW U, NEW f, NEW s, s.panic \in BOOLEAN, Declaring(U, s), Fn(program, f).body \in BOOLEAN
  PROVE  /\ Declaring(U \cup {f}, get_or_declare(s, f))
         /\ get_or_declare(s, f).panic \in BOOLEAN
<1>1. CASE s.panic
  <2>1. get_or_declare(s, f) = s
    BY <1>1 DEF get_or_declare
  <2> QED BY <1>1, <2>1 DEF Declaring, Conflict
<1>2. CASE ~s.panic /\ f \in DOMAIN s.ir
  <2>1. get_or_declare(s, f) = s
    BY <1>2 DEF get_or_declare
  <2>2. U \cup {f} = U
    BY <1>2 DEF Declaring, Declares
  <2> QED BY <2>1, <2>2
<1>3. CASE ~s.panic /\ f \notin DOMAIN s.ir
  <2> DEFINE name == Fn(program, f).name
             sig == Fn(program, f).sig
             after == get_or_declare(s, f)
  <2>1. /\ DOMAIN s.ir = U /\ \A g \in U : s.ir[g] = Fn(program, g).name
        /\ DOMAIN s.decls = {Fn(program, g).name : g \in U}
        /\ \A g \in U : /\ s.decls[Fn(program, g).name].sig = Fn(program, g).sig
                        /\ Fn(program, g).body => s.decls[Fn(program, g).name].linkage = "Export"
    BY <1>3 DEF Declaring, Declares
  <2>2. after = declare_function(s, f)
    BY <1>3 DEF get_or_declare
  <2>3. CASE name \in DOMAIN s.decls /\ s.decls[name].sig # sig
    <3>1. after.panic = TRUE
      BY <2>2, <2>3 DEF declare_function, Func, Fn
    <3>2. PICK g \in U : name = Fn(program, g).name
      BY <2>1, <2>3
    <3>3. Fn(program, g).sig # sig
      BY <2>1, <2>3, <3>2
    <3>4. Conflict(program, U \cup {f})
      BY <3>2, <3>3 DEF Conflict
    <3> QED BY <3>1, <3>4 DEF Declaring
  <2>4. CASE ~(name \in DOMAIN s.decls /\ s.decls[name].sig # sig)
    <3>1. PICK linkage :
            /\ after.panic = FALSE /\ after.ir = Inserted(s.ir, f, name)
            /\ after.decls = Inserted(s.decls, name, [sig |-> sig, linkage |-> linkage])
            /\ Fn(program, f).body => linkage = "Export"
            /\ name \in DOMAIN s.decls /\ s.decls[name].linkage = "Export" => linkage = "Export"
      <4> DEFINE L == IF name \in DOMAIN s.decls /\ s.decls[name].linkage = "Export" THEN "Export"
                      ELSE get_linkage(f)
      <4>1. /\ after.panic = FALSE /\ after.ir = Inserted(s.ir, f, name)
            /\ after.decls = Inserted(s.decls, name, [sig |-> sig, linkage |-> L])
        <5>1. Func(f).name = name /\ Func(f).sig = sig
          BY DEF Func, Fn
        <5>2. CASE name \in DOMAIN s.decls
          BY <5>1, <5>2, <2>2, <2>4 DEF declare_function
        <5>3. CASE name \notin DOMAIN s.decls
          BY <5>1, <5>3, <2>2 DEF declare_function
        <5> QED BY <5>2, <5>3
      <4>2. Fn(program, f).body => L = "Export"
        BY DEF get_linkage, Func, Fn
      <4> QED BY <4>1, <4>2
    <3> DEFINE d == [sig |-> sig, linkage |-> linkage]
    <3>2. d.sig = sig /\ d.linkage = linkage
      OBVIOUS
    <3> DEFINE r == Inserted(s.ir, f, name)
               e == Inserted(s.decls, name, d)
    <3>3. after.ir = r /\ after.decls = e
      BY <3>1
    <3> HIDE DEF name, sig, after, d
    <3>a. /\ DOMAIN r = DOMAIN s.ir \cup {f} /\ r[f] = name
          /\ \A g \in DOMAIN s.ir : g # f => r[g] = s.ir[g]
      BY DEF Inserted, r
    <3>b. /\ DOMAIN e = DOMAIN s.decls \cup {name} /\ e[name] = d
          /\ \A n \in DOMAIN s.decls : n # name => e[n] = s.decls[n]
      BY DEF Inserted, e
    <3> HIDE DEF r, e
    <3>4. DOMAIN after.ir = U \cup {f} /\ after.ir[f] = name /\ \A g \in U : after.ir[g] = Fn(program, g).name
      BY <3>3, <3>a, <2>1, <1>3
    <3>5. DOMAIN after.decls = {Fn(program, g).name : g \in U \cup {f}}
      BY <3>3, <3>b, <2>1 DEF name
    <3>6. /\ after.decls[name].sig = sig /\ after.decls[name].linkage = linkage
          /\ \A n \in DOMAIN s.decls : n # name => after.decls[n] = s.decls[n]
      BY <3>2, <3>3, <3>b
    <3>7. ASSUME NEW g \in U
          PROVE  /\ after.decls[Fn(program, g).name].sig = Fn(program, g).sig
                 /\ Fn(program, g).body => after.decls[Fn(program, g).name].linkage = "Export"
      <4>1. Fn(program, g).name \in DOMAIN s.decls
        BY <2>1
      <4>2. CASE Fn(program, g).name = name
        <5>1. sig = s.decls[name].sig
          BY <4>1, <4>2, <2>4 DEF name, sig
        <5>2. Fn(program, g).body => linkage = "Export"
          BY <4>1, <4>2, <2>1, <3>1 DEF name
        <5> QED BY <4>2, <5>1, <5>2, <2>1, <3>6
      <4>3. CASE Fn(program, g).name # name
        BY <4>1, <4>3, <2>1, <3>6
      <4> QED BY <4>2, <4>3
    <3>8. Declares(program, U \cup {f}, after.ir, after.decls)
      BY <3>1, <3>4, <3>5, <3>6, <3>7 DEF Declares, name, sig
    <3> QED BY <3>1, <3>8 DEF Declaring, after
  <2> QED BY <2>3, <2>4
<1> QED BY <1>1, <1>2, <1>3

(* The states of the loop over the functions fns. *)
Turns(fns, h) ==
  h = [i \in 0..Len(fns) |-> IF i = 0 THEN [ir |-> ids, decls |-> decls, panic |-> FALSE]
                             ELSE get_or_declare(h[i - 1], fns[i])]

(* The loop over the functions that a body uses has a turn for each. *)
LEMMA LoopTurns ==
  ASSUME NEW fns, Len(fns) \in Nat
  PROVE  \E h : Turns(fns, h)
<1> DEFINE n == Len(fns)
           b == [ir |-> ids, decls |-> decls, panic |-> FALSE]
           Good(k, h) == /\ DOMAIN h = 0..k /\ h[0] = b
                         /\ \A i \in 1..k : h[i] = get_or_declare(h[i - 1], fns[i])
           K == {k \in 0..n : \E h : Good(k, h)}
<1> HIDE DEF b
<1>1. 0 \in K
  <2> DEFINE h == [i \in 0..0 |-> b]
  <2>1. DOMAIN h = 0..0 /\ h[0] = b /\ 1..0 = {}
    OBVIOUS
  <2>2. Good(0, h)
    BY <2>1
  <2> HIDE DEF h, Good
  <2> QED BY <2>2
<1>2. ASSUME NEW k \in 1..n, k - 1 \in K PROVE k \in K
  <2>1. PICK h : Good(k - 1, h)
    BY <1>2
  <2> DEFINE g == [i \in 0..k |-> IF i = k THEN get_or_declare(h[k - 1], fns[k]) ELSE h[i]]
  <2>2. DOMAIN g = 0..k /\ g[k] = get_or_declare(h[k - 1], fns[k]) /\ \A i \in 0..(k - 1) : g[i] = h[i]
    OBVIOUS
  <2> HIDE DEF g
  <2>3. \A i \in 1..k : g[i] = get_or_declare(g[i - 1], fns[i])
    <3> SUFFICES ASSUME NEW i \in 1..k PROVE g[i] = get_or_declare(g[i - 1], fns[i])
      OBVIOUS
    <3>1. i - 1 \in 0..(k - 1)
      OBVIOUS
    <3>2. CASE i = k
      BY <3>1, <3>2, <2>2
    <3>3. CASE i # k
      <4>1. i \in 1..(k - 1) /\ i \in 0..(k - 1)
        BY <3>3
      <4> QED BY <4>1, <3>1, <2>1, <2>2
    <3> QED BY <3>2, <3>3
  <2>4. g[0] = b
    BY <2>1, <2>2
  <2>5. Good(k, g)
    BY <2>2, <2>3, <2>4
  <2> HIDE DEF Good
  <2> QED BY <2>5
<1>3. n \in K
  <2> HIDE DEF K, n
  <2>1. n \in Nat /\ \A i \in 1..n : i - 1 \in K => i \in K
    BY <1>2 DEF n
  <2>2. \A i \in 0..n : i \in K
    BY <1>1, <2>1, EveryTurn
  <2> QED BY <2>1, <2>2
<1>4. PICK h : Good(n, h)
  BY <1>3
<1> DEFINE g == [i \in 0..n |-> h[i]]
<1>5. \A i \in 0..n : g[i] = IF i = 0 THEN b ELSE get_or_declare(g[i - 1], fns[i])
  <2> SUFFICES ASSUME NEW i \in 0..n PROVE g[i] = IF i = 0 THEN b ELSE get_or_declare(g[i - 1], fns[i])
    OBVIOUS
  <2>1. CASE i = 0
    BY <2>1, <1>4
  <2>2. CASE i # 0
    <3>1. i \in 1..n /\ i - 1 \in 0..n
      BY <2>2
    <3>2. g[i] = h[i] /\ g[i - 1] = h[i - 1]
      BY <3>1
    <3> QED BY <2>2, <3>1, <3>2, <1>4
  <2> QED BY <2>1, <2>2
<1>6. g = [i \in 0..n |-> g[i]]
  OBVIOUS
<1> HIDE DEF g
<1>7. g = [i \in 0..n |-> IF i = 0 THEN b ELSE get_or_declare(g[i - 1], fns[i])]
  BY <1>5, <1>6
<1> QED BY <1>7 DEF Turns, n, b

(* After a function and its callees: all of them are declared, or two disagree. *)
LEMMA DeclaredIs ==
  ASSUME program \in LinkedPrograms, NEW F, F \subseteq AllOf(program), NEW f \in AllOf(program),
         Declares(program, UsedBy(program, F), ids, decls)
  PROVE  /\ Declaring(UsedBy(program, F \cup {f}), DeclaredWith(f))
         /\ DeclaredWith(f).panic \in BOOLEAN
<1> DEFINE U == UsedBy(program, F)
           calls == Fn(program, f).calls
           fns == <<f>> \o Callees(f)
           n == Len(fns)
           h == CHOOSE v : Turns(fns, v)
           V(i) == U \cup {fns[j] : j \in 1..i}
<1>1. /\ calls \in Seq(1..Len(program[f[1]])) /\ CalleesOf(program, f) \subseteq AllOf(program)
      /\ Len(calls) \in Nat
  BY AllIs, CalleesAre
<1>2. Len(Callees(f)) = Len(calls) /\ \A i \in 1..Len(calls) : Callees(f)[i] = <<f[1], calls[i]>>
  <2>1. Callees(f) = [i \in DOMAIN calls |-> <<f[1], calls[i]>>]
    BY DEF Callees, Func, Fn
  <2>2. DOMAIN calls = 1..Len(calls)
    BY <1>1
  <2> HIDE DEF calls
  <2> QED BY <1>1, <2>1, <2>2
<1>3. /\ n = 1 + Len(calls) /\ n \in Nat /\ fns[1] = f
      /\ \A i \in 1..Len(calls) : fns[1 + i] = <<f[1], calls[i]>>
  <2> DEFINE cs == Callees(f)
  <2>1. cs \in Seq(AllOf(program))
    <3>1. cs = [i \in 1..Len(calls) |-> <<f[1], calls[i]>>]
      BY <1>1 DEF Callees, Func, Fn
    <3>2. \A i \in 1..Len(calls) : <<f[1], calls[i]>> \in AllOf(program)
      BY <1>1 DEF CalleesOf
    <3> HIDE DEF calls
    <3> QED BY <1>1, <3>1, <3>2
  <2> HIDE DEF cs, calls
  <2>2. /\ Len(<<f>> \o cs) = 1 + Len(cs) /\ (<<f>> \o cs)[1] = f
        /\ \A i \in 1..Len(cs) : (<<f>> \o cs)[1 + i] = cs[i]
    BY <2>1
  <2> QED BY <1>1, <1>2, <2>2, SMTT(30) DEF cs
<1>4. Turns(fns, h)
  <2>1. \E v : Turns(fns, v)
    BY <1>3, LoopTurns
  <2> QED BY <2>1, Zenon
<1>5. DeclaredWith(f) = h[n]
  BY DEF DeclaredWith, Turns
<1> HIDE DEF fns, n, h, calls
<1>6. h[0].ir = ids /\ h[0].decls = decls /\ h[0].panic = FALSE
      /\ \A i \in 1..n : h[i] = get_or_declare(h[i - 1], fns[i])
  <2> DEFINE b == [ir |-> ids, decls |-> decls, panic |-> FALSE]
  <2>1. \A v : Turns(fns, v) => v[0] = b /\ \A i \in 1..n : v[i] = get_or_declare(v[i - 1], fns[i])
    <3> HIDE DEF b
    <3> SUFFICES ASSUME NEW v, v = [i \in 0..n |-> IF i = 0 THEN b ELSE get_or_declare(v[i - 1], fns[i])]
                 PROVE  v[0] = b /\ \A i \in 1..n : v[i] = get_or_declare(v[i - 1], fns[i])
      BY DEF Turns, n, b
    <3>1. \A i \in 0..n : v[i] = IF i = 0 THEN b ELSE get_or_declare(v[i - 1], fns[i])
      OBVIOUS
    <3>2. 0 \in 0..n /\ \A i \in 1..n : i \in 0..n /\ i # 0
      BY <1>3
    <3> QED BY <3>1, <3>2
  <2> QED BY <2>1, <1>4
<1>7. \A i \in 1..n : fns[i] \in AllOf(program)
  <2>1. \A i \in 1..n : i = 1 \/ \E k \in 1..Len(calls) : i = 1 + k
    <3> SUFFICES ASSUME NEW i \in 1..n, i # 1 PROVE \E k \in 1..Len(calls) : i = 1 + k
      OBVIOUS
    <3>1. i - 1 \in 1..Len(calls) /\ i = 1 + (i - 1)
      BY <1>1, <1>3
    <3> QED BY <3>1
  <2>2. \A k \in 1..Len(calls) : <<f[1], calls[k]>> \in AllOf(program)
    BY <1>1 DEF CalleesOf, calls
  <2> QED BY <2>1, <2>2, <1>3
<1> DEFINE G == {i \in 0..n : Declaring(V(i), h[i]) /\ h[i].panic \in BOOLEAN}
<1>8. 0 \in G
  <2>1. V(0) = U
    OBVIOUS
  <2>2. Declaring(U, h[0])
    BY <1>6 DEF Declaring
  <2>3. Declaring(V(0), h[0]) /\ h[0].panic \in BOOLEAN
    BY <2>1, <2>2, <1>6
  <2>4. 0 \in 0..n
    BY <1>3
  <2> HIDE DEF V
  <2> QED BY <2>3, <2>4
<1>9. ASSUME NEW i \in 1..n, i - 1 \in G PROVE i \in G
  <2>1. V(i) = V(i - 1) \cup {fns[i]}
    <3>1. 1..i = (1..(i - 1)) \cup {i}
      BY <1>3
    <3> QED BY <3>1
  <2> HIDE DEF V
  <2>2. Declaring(V(i - 1), h[i - 1]) /\ h[i - 1].panic \in BOOLEAN
    BY <1>9
  <2>3. Fn(program, fns[i]).body \in BOOLEAN
    BY <1>7, AllIs
  <2>4. Declaring(V(i), h[i]) /\ h[i].panic \in BOOLEAN
    BY <2>1, <2>2, <2>3, <1>6, DeclareKeeps
  <2> QED BY <2>4, <1>3
<1>10. Declaring(V(n), h[n]) /\ h[n].panic \in BOOLEAN
  <2> HIDE DEF G
  <2>a. n \in Nat /\ \A i \in 1..n : i - 1 \in G => i \in G
    BY <1>3, <1>9
  <2>b. \A i \in 0..n : i \in G
    BY <1>8, <2>a, EveryTurn
  <2>1. n \in G
    BY <2>a, <2>b
  <2> QED BY <2>1 DEF G
<1>11. V(n) = UsedBy(program, F \cup {f})
  <2>1. UsedBy(program, F \cup {f}) = U \cup {f} \cup CalleesOf(program, f)
    BY UsedIs
  <2>2. {fns[j] : j \in 1..n} = {f} \cup CalleesOf(program, f)
    <3>1. CalleesOf(program, f) = {<<f[1], calls[i]>> : i \in 1..Len(calls)}
      BY <1>1 DEF CalleesOf, calls
    <3>2. \A j \in 1..n : j = 1 \/ \E k \in 1..Len(calls) : j = 1 + k
      <4> SUFFICES ASSUME NEW j \in 1..n, j # 1 PROVE \E k \in 1..Len(calls) : j = 1 + k
        OBVIOUS
      <4>1. j - 1 \in 1..Len(calls) /\ j = 1 + (j - 1)
        BY <1>1, <1>3
      <4> QED BY <4>1
    <3>3. 1 \in 1..n /\ \A k \in 1..Len(calls) : 1 + k \in 1..n
      BY <1>1, <1>3
    <3>4. \A j \in 1..n : fns[j] \in {f} \cup CalleesOf(program, f)
      BY <3>1, <3>2, <1>3
    <3>5. \A g \in {f} \cup CalleesOf(program, f) : \E j \in 1..n : g = fns[j]
      BY <3>1, <3>3, <1>3
    <3> QED BY <3>4, <3>5
  <2> QED BY <2>1, <2>2
<1> QED BY <1>5, <1>10, <1>11

-----------------------------------------------------------------------------
(* The steps. *)

(* Whether the program can be linked depends on nothing that a step changes. *)
LEMMA SameProgram ==
  ASSUME program' = program
  PROVE  Linkable' <=> Linkable
<1>1. \A f : Func(f) = Fn(program, f) /\ Func(f)' = Fn(program', f)
  BY Zenon DEF Func, Fn
<1>2. All = AllOf(program) /\ All' = AllOf(program')
  BY Zenon DEF All, AllOf
<1>3. All' = All /\ \A f : Func(f)' = Func(f)
  BY <1>1, <1>2, Zenon
<1>4. Bodies' = Bodies
  BY <1>3, SMTT(30) DEF Bodies
<1>5. Calls' = Calls
  BY <1>3, <1>4, SMTT(30) DEF Calls
<1>6. Used' = Used
  BY <1>5, <1>4, SMTT(30) DEF Used
<1> QED BY <1>3, <1>4, <1>5, <1>6, SMTT(30) DEF Linkable

(* A panic keeps the invariant when the program could not be linked. *)
LEMMA JitHalts ==
  ASSUME JitInv, JitPanic, ~Linkable
  PROVE  JitInv'
<1>1. program' = program /\ linking' = "panic" /\ program \in LinkedPrograms
  BY DEF JitInv, JitPanic
<1>2. ~Linkable'
  BY <1>1, SameProgram
<1> QED BY <1>1, <1>2 DEF JitInv

(* Something that is used twice in two ways. *)
LEMMA ConflictRefused ==
  ASSUME program \in LinkedPrograms, NEW F, F \subseteq BodiesOf(program),
         Conflict(program, UsedBy(program, F))
  PROVE  ~Linkable
<1>1. UsedBy(program, F) \subseteq UsedBy(program, BodiesOf(program))
  BY DEF UsedBy
<1>2. PICK f, g \in UsedBy(program, F) : Fn(program, f).name = Fn(program, g).name
                                         /\ Fn(program, f).sig # Fn(program, g).sig
  BY DEF Conflict
<1>3. f \in Used /\ g \in Used
  BY <1>1, <1>2, SameUsed
<1> QED BY <1>2, <1>3, SameNames DEF Linkable

(* A call that arrives still does when more bodies are there. *)
LEMMA ArrivesStill ==
  ASSUME NEW p, NEW F, NEW G, F \subseteq G, NEW to, NEW more, NEW c, more[c] = to[c], Arrives(p, F, to, c)
  PROVE  Arrives(p, G, more, c)
BY DEF Arrives

(* Compiling a function keeps the invariant. *)
LEMMA FunctionKeeps ==
  ASSUME JitInv, jit_function
  PROVE  JitInv'
<1> DEFINE f == <<at, place>>
           s == DeclaredWith(f)
           F == DoneBy(program, at, place)
<1>1. /\ program \in LinkedPrograms /\ linking = "jit" /\ at <= Len(program) /\ place <= Len(program[at])
      /\ at \in 1..(Len(program) + 1) /\ place \in Nat /\ place >= 1
      /\ Declares(program, UsedBy(program, F), ids, decls)
      /\ Defines(program, F, defined)
      /\ unlinked = {g \in F : g[1] = at}
      /\ DOMAIN linked = CallsOf(program, {g \in F : g[1] < at})
      /\ \A c \in DOMAIN linked : Arrives(program, F, linked, c)
  BY DEF JitInv, jit_function, Done
<1>2. at \in 1..Len(program) /\ place \in 1..Len(program[at]) /\ Len(program) \in Nat
  BY <1>1, AllIs
<1>3. /\ F \subseteq BodiesOf(program) /\ F \subseteq AllOf(program) /\ f \in AllOf(program) /\ f \notin F
      /\ DoneBy(program, at, place + 1) = IF Fn(program, f).body THEN F \cup {f} ELSE F
  BY <1>1, <1>2, DonePasses
<1>4. Fn(program, f).body \in BOOLEAN /\ Func(f) = Fn(program, f) /\ f[1] = at
  BY <1>1, <1>3, AllIs, SameNames
<1>5. Declaring(UsedBy(program, F \cup {f}), s) /\ s.panic \in BOOLEAN
  BY <1>1, <1>3, DeclaredIs
<1> HIDE DEF F, s
<1>6. CASE ~Fn(program, f).body
  <2>1. place' = place + 1 /\ UNCHANGED <<program, at, ids, decls, defined, unlinked, linked, linking>>
    BY <1>4, <1>6 DEF jit_function
  <2>2. Done' = F
    BY <1>3, <1>6, <2>1 DEF Done
  <2>3. place' \in Nat /\ place' >= 1
    BY <1>1, <2>1
  <2> HIDE DEF Done
  <2> QED BY <1>1, <2>1, <2>2, <2>3 DEF JitInv
<1>7. CASE Fn(program, f).body /\ s.panic
  <2>1. JitPanic
    BY <1>4, <1>7 DEF jit_function, s
  <2>2. F \cup {f} \subseteq BodiesOf(program)
    BY <1>3, <1>7 DEF BodiesOf
  <2>3. Conflict(program, UsedBy(program, F \cup {f}))
    BY <1>5, <1>7 DEF Declaring
  <2>4. ~Linkable
    BY <1>1, <2>2, <2>3, ConflictRefused
  <2> QED BY <2>1, <2>4, JitHalts
<1>8. CASE Fn(program, f).body /\ ~s.panic
  <2> DEFINE G == F \cup {f}
             U == UsedBy(program, G)
             name == Fn(program, f).name
  <2>1. Declares(program, U, s.ir, s.decls)
    BY <1>5, <1>8 DEF Declaring
  <2>2. G \subseteq BodiesOf(program) /\ G \subseteq AllOf(program) /\ f \in U
    <3>1. G \subseteq BodiesOf(program) /\ G \subseteq AllOf(program)
      BY <1>3, <1>8 DEF BodiesOf
    <3> QED BY <3>1, <1>1, UsedIs
  <2> HIDE DEF U, G
  <2>3. s.ir[f] = name /\ s.decls[name].linkage = "Export"
    BY <2>1, <2>2, <1>8 DEF Declares
  <2>4. CASE name \in DOMAIN defined
    <3>1. ~Definable(s, f)
      BY <2>3, <2>4 DEF Definable
    <3>2. JitPanic
      BY <3>1, <1>4, <1>8 DEF jit_function, s
    <3>3. PICK g \in F : name = Fn(program, g).name
      BY <2>4, <1>1 DEF Defines
    <3>4. f # g /\ f \in Bodies /\ g \in Bodies
      BY <3>3, <2>2, <1>3, SameNames DEF G
    <3>5. ~Linkable
      BY <3>3, <3>4, SameNames DEF Linkable
    <3> QED BY <3>2, <3>5, JitHalts
  <2>5. CASE name \notin DOMAIN defined
    <3>1. Definable(s, f)
      BY <2>3, <2>5 DEF Definable
    <3>2. /\ ids' = s.ir /\ decls' = s.decls /\ place' = place + 1
          /\ defined' = Inserted(defined, name, f) /\ unlinked' = unlinked \cup {f}
          /\ UNCHANGED <<program, at, linked, linking>>
      BY <3>1, <2>3, <1>4, <1>8 DEF jit_function, s
    <3>3. Done' = G
      BY <1>3, <1>8, <3>2 DEF Done, G
    <3>4. Defines(program, G, defined')
      <4>1. /\ DOMAIN defined' = DOMAIN defined \cup {name} /\ defined'[name] = f
            /\ \A n \in DOMAIN defined : n # name => defined'[n] = defined[n]
        BY <3>2 DEF Inserted
      <4>2. DOMAIN defined = {Fn(program, g).name : g \in F} /\ \A g \in F : defined[Fn(program, g).name] = g
        BY <1>1 DEF Defines
      <4>3. DOMAIN defined' = {Fn(program, g).name : g \in G}
        BY <4>1, <4>2 DEF G
      <4>4. \A g \in F : defined'[Fn(program, g).name] = g
        BY <4>1, <4>2, <2>5
      <4> QED BY <4>1, <4>3, <4>4 DEF Defines, G
    <3>5. unlinked' = {g \in G : g[1] = at} /\ {g \in G : g[1] < at} = {g \in F : g[1] < at}
      <4>1. ~(f[1] < at)
        BY <1>2, <1>4
      <4> QED BY <4>1, <3>2, <1>1, <1>4 DEF G
    <3>6. DOMAIN linked' = CallsOf(program, {g \in G : g[1] < at})
      BY <3>2, <3>5, <1>1
    <3>7. \A c \in DOMAIN linked' : Arrives(program, G, linked', c)
      <4>1. F \subseteq G
        BY DEF G
      <4> QED BY <4>1, <3>2, <1>1, ArrivesStill
    <3>8. place' \in Nat /\ place' >= 1
      BY <1>1, <3>2
    <3>9. Declares(program, UsedBy(program, G), s.ir, s.decls)
      BY <2>1 DEF U
    <3> HIDE DEF Done, s, name
    <3> QED BY <1>1, <3>2, <3>3, <3>4, <3>5, <3>6, <3>7, <3>8, <3>9 DEF JitInv
  <2> QED BY <2>4, <2>5
<1> QED BY <1>4, <1>6, <1>7, <1>8, <1>5

(* The end of a module: what its calls are given. *)
LEMMA FinalizeKeeps ==
  ASSUME JitInv, finalize_definitions
  PROVE  JitInv'
<1> DEFINE F == DoneBy(program, at, place)
           L == {g \in F : g[1] < at}
           Name(c) == Fn(program, <<c[1], c[3]>>).name
<1>1. /\ program \in LinkedPrograms /\ linking = "jit" /\ at <= Len(program) /\ place > Len(program[at])
      /\ at \in 1..(Len(program) + 1) /\ place \in Nat /\ place >= 1
      /\ Declares(program, UsedBy(program, F), ids, decls)
      /\ Defines(program, F, defined)
      /\ unlinked = {g \in F : g[1] = at}
      /\ DOMAIN linked = CallsOf(program, L)
      /\ \A c \in DOMAIN linked : Arrives(program, F, linked, c)
  BY DEF JitInv, finalize_definitions, Done
<1>2. at \in 1..Len(program) /\ Len(program) \in Nat
  BY <1>1, AllIs
<1>3. /\ F \subseteq BodiesOf(program) /\ F \subseteq AllOf(program)
      /\ DoneBy(program, at + 1, 1) = F
      /\ \A f \in BodiesOf(program) : f[1] <= at => f \in F
  <2>1. program \in LinkedPrograms /\ at \in 1..Len(program) /\ place \in Nat /\ place > Len(program[at])
    BY <1>1, <1>2
  <2> QED BY <2>1, ModulePasses
<1>4. \A g \in F : g[1] \in Nat /\ (g[1] < at \/ g[1] = at)
  <2>1. \A g \in F : g[1] \in Nat
    BY <1>1, <1>3, AllIs
  <2> QED BY <2>1 DEF DoneBy
<1> HIDE DEF F
<1>5. Relocs = CallsOf(program, unlinked)
  BY DEF Relocs, CallsOf, Func, Fn
<1>6. ASSUME NEW c \in Relocs
      PROVE  /\ c[1] = at /\ <<c[1], c[3]>> \in UsedBy(program, F) /\ <<c[1], c[3]>> \in AllOf(program)
             /\ NameCalled(c) = Name(c) /\ c \in CallsOf(program, BodiesOf(program))
             /\ <<c[1], c[3]>>[1] = at
  <2>1. unlinked \subseteq AllOf(program) /\ unlinked \subseteq F
    BY <1>1, <1>3
  <2>2. PICK f \in unlinked : <<c[1], c[3]>> \in CalleesOf(program, f) /\ c[1] = f[1] /\ c \in CallsOf(program, {f})
    BY <1>1, <1>5, <1>6, <2>1, UsedIs
  <2>3. c[1] = at
    BY <2>2, <1>1
  <2>4. <<c[1], c[3]>> \in UsedBy(program, F) /\ c \in CallsOf(program, BodiesOf(program))
    BY <2>1, <2>2, <1>3 DEF UsedBy, CallsOf
  <2>5. <<c[1], c[3]>> \in AllOf(program)
    BY <2>4, <1>1, <1>3, UsedIs
  <2>6. NameCalled(c) = Name(c)
    BY <2>4, <1>1 DEF NameCalled, Declares
  <2> QED BY <2>3, <2>4, <2>5, <2>6
<1>7. CASE \E c \in Relocs : NameCalled(c) \notin DOMAIN defined \cup Symbols
  <2>1. JitPanic
    BY <1>7 DEF finalize_definitions
  <2>2. PICK c \in Relocs : NameCalled(c) \notin DOMAIN defined \cup Symbols
    BY <1>7
  <2>3. c \in Calls /\ c[1] = at /\ Name(c) \notin Symbols /\ Name(c) \notin DOMAIN defined
    BY <2>2, <1>6, SameNames
  <2>4. ~\E f \in Bodies : Func(f).name = Func(<<c[1], c[3]>>).name /\ f[1] <= c[1]
    <3> SUFFICES ASSUME NEW f \in BodiesOf(program), Fn(program, f).name = Name(c), f[1] <= at PROVE FALSE
      BY <2>3, SameNames
    <3>1. f \in F
      BY <1>3
    <3>2. Name(c) \in DOMAIN defined
      BY <3>1, <1>1 DEF Defines
    <3> QED BY <3>2, <2>3
  <2>5. Func(<<c[1], c[3]>>).name \notin Symbols
    BY <2>3, SameNames
  <2>6. ~Linkable
    BY <2>3, <2>4, <2>5 DEF Linkable
  <2> QED BY <2>1, <2>6, JitHalts
<1>8. CASE ~\E c \in Relocs : NameCalled(c) \notin DOMAIN defined \cup Symbols
  <2>1. /\ linked' = [c \in DOMAIN linked \cup Relocs |->
                        IF c \in Relocs THEN get_address(NameCalled(c)) ELSE linked[c]]
        /\ unlinked' = {} /\ at' = at + 1 /\ place' = 1
        /\ UNCHANGED <<program, ids, decls, defined, linking>>
    BY <1>8 DEF finalize_definitions
  <2>2. Done' = F
    BY <2>1, <1>3 DEF Done
  <2>3. at' \in 1..(Len(program) + 1)
    BY <2>1, <1>2
  <2>4. {g \in F : g[1] = at + 1} = {} /\ {g \in F : g[1] < at + 1} = L \cup unlinked
    BY <1>1, <1>2, <1>4
  <2>5. DOMAIN linked' = CallsOf(program, {g \in F : g[1] < at + 1})
    <3>1. CallsOf(program, L \cup unlinked) = CallsOf(program, L) \cup CallsOf(program, unlinked)
      BY DEF CallsOf
    <3>2. DOMAIN linked' = DOMAIN linked \cup Relocs
      BY <2>1
    <3> QED BY <3>1, <3>2, <2>4, <1>1, <1>5
  <2>6. ASSUME NEW c \in DOMAIN linked' PROVE Arrives(program, F, linked', c)
    <3>1. CASE c \in Relocs
      <4> DEFINE callee == <<c[1], c[3]>>
                 name == Fn(program, callee).name
      <4>1. linked'[c] = get_address(name) /\ name \in DOMAIN defined \cup Symbols
        BY <2>1, <3>1, <1>6, <1>8
      <4>2. /\ callee \in UsedBy(program, F) /\ callee \in AllOf(program) /\ callee[1] = at /\ c[1] = at
            /\ Fn(program, callee).body \in BOOLEAN
        BY <3>1, <1>1, <1>6, AllIs
      <4> HIDE DEF callee
      <4>3. \A n \in DOMAIN defined : defined[n] \in F /\ Fn(program, defined[n]).name = n
        BY <1>1 DEF Defines
      <4>4. \A g \in F : Fn(program, g).name = name => Fn(program, g).sig = Fn(program, callee).sig
        <5>1. F \subseteq UsedBy(program, F)
          BY DEF UsedBy
        <5> QED BY <5>1, <4>2, <1>1 DEF Declares
      <4>5. CASE Fn(program, callee).body
        <5>1. callee \in F
          BY <4>2, <4>5, <1>2, <1>3 DEF BodiesOf
        <5>2. name \in DOMAIN defined /\ defined[name] = callee
          BY <5>1, <1>1 DEF Defines
        <5>3. linked'[c] = callee
          BY <5>2, <4>1 DEF get_address
        <5>4. callee[1] <= c[1]
          BY <4>2, <1>2
        <5> QED BY <5>1, <5>3, <5>4, <4>5 DEF Arrives, callee
      <4>6. CASE ~Fn(program, callee).body /\ name \in DOMAIN defined
        <5>1. linked'[c] = defined[name] /\ defined[name] \in F /\ Fn(program, defined[name]).name = name
          BY <4>1, <4>3, <4>6 DEF get_address
        <5>2. Fn(program, defined[name]).sig = Fn(program, callee).sig
          BY <5>1, <4>4
        <5>3. defined[name][1] <= c[1]
          BY <5>1, <4>2, <1>2, <1>4
        <5> QED BY <5>1, <5>2, <5>3, <4>6 DEF Arrives, callee
      <4>7. CASE ~Fn(program, callee).body /\ name \notin DOMAIN defined
        <5>1. linked'[c] = <<"host">> /\ name \in Symbols
          BY <4>1, <4>7 DEF get_address
        <5> QED BY <5>1, <4>7 DEF Arrives, callee
      <4> QED BY <4>5, <4>6, <4>7
    <3>2. CASE c \notin Relocs
      <4>1. c \in DOMAIN linked /\ linked'[c] = linked[c]
        BY <2>1, <3>2
      <4> QED BY <4>1, <1>1, ArrivesStill
    <3> QED BY <3>1, <3>2
  <2>7. /\ unlinked' = {} /\ at' = at + 1 /\ place' = 1
        /\ UNCHANGED <<program, ids, decls, defined, linking>>
    BY <2>1
  <2> HIDE DEF Done, L
  <2> QED BY <1>1, <2>2, <2>3, <2>4, <2>5, <2>6, <2>7 DEF JitInv
<1> QED BY <1>7, <1>8

(* At the end the JIT has passed every function with a body. *)
LEMMA AllPassed ==
  ASSUME program \in LinkedPrograms, at \in Nat, at > Len(program)
  PROVE  Done = BodiesOf(program) /\ {f \in Done : f[1] < at} = BodiesOf(program)
<1>1. \A f \in BodiesOf(program) : f[1] < at
  <2>1. \A f \in BodiesOf(program) : f[1] \in 1..Len(program) /\ Len(program) \in Nat
    BY AllIs DEF BodiesOf
  <2> QED BY <2>1
<1> QED BY <1>1 DEF Done, DoneBy

(* So does the end of the compilation, where the program runs. *)
LEMMA ExecKeeps ==
  ASSUME JitInv, exec
  PROVE  JitInv'
<1>1. linking = "jit" /\ at > Len(program) /\ program \in LinkedPrograms /\ at \in Nat
      /\ Defines(program, Done, defined)
  <2>1. at \in 1..(Len(program) + 1) /\ program \in LinkedPrograms
    BY DEF JitInv, exec
  <2> QED BY <2>1, AllIs DEF JitInv, exec
<1>2. CASE "main" \notin DOMAIN defined
  <2>1. JitPanic
    BY <1>2 DEF exec
  <2>2. Done = Bodies
    BY <1>1, AllPassed, SameNames
  <2>3. ~\E f \in Bodies : Func(f).name = "main"
    BY <1>1, <1>2, <2>2, SameNames DEF Defines
  <2>4. ~Linkable
    BY <2>3 DEF Linkable
  <2> QED BY <2>1, <2>4, JitHalts
<1>3. CASE "main" \in DOMAIN defined
  <2>1. linking' = "running" /\ UNCHANGED <<program, at, place, ids, decls, defined, unlinked, linked>>
    BY <1>3 DEF exec
  <2>2. Done' = Done
    BY <2>1 DEF Done
  <2> HIDE DEF Done
  <2> QED BY <1>1, <1>3, <2>1, <2>2 DEF JitInv
<1> QED BY <1>2, <1>3

(* JITCompiler::new establishes the invariant. *)
LEMMA JitInitInv ==
  ASSUME JitInit
  PROVE  JitInv
<1>1. /\ program \in LinkedPrograms /\ at = 1 /\ place = 1 /\ linking = "jit"
      /\ ids = <<>> /\ decls = <<>> /\ defined = <<>> /\ unlinked = {} /\ linked = <<>>
  BY DEF JitInit
<1>2. Done = {}
  <2>1. \A f \in BodiesOf(program) : f[1] \in 1..Len(program) /\ f[2] \in Nat /\ f[2] \in 1..Len(program[f[1]])
    BY <1>1, AllIs DEF BodiesOf
  <2>2. \A f \in BodiesOf(program) : ~(f[1] < 1) /\ ~(f[2] < 1)
    BY <2>1
  <2> QED BY <2>2, <1>1 DEF Done, DoneBy
<1>3. UsedBy(program, {}) = {} /\ CallsOf(program, {}) = {} /\ DOMAIN <<>> = {}
  BY DEF UsedBy, CallsOf
<1>4. Declares(program, {}, ids, decls) /\ Defines(program, {}, defined)
  BY <1>1, <1>3 DEF Declares, Defines
<1>5. at \in 1..(Len(program) + 1) /\ place \in Nat /\ place >= 1
  BY <1>1, AllIs
<1> HIDE DEF Done
<1> QED BY <1>1, <1>2, <1>3, <1>4, <1>5 DEF JitInv

(* Every step of the compilation preserves it. *)
LEMMA JitNextInv ==
  ASSUME JitInv, [JitNext]_jitVars
  PROVE  JitInv'
<1>1. CASE UNCHANGED jitVars
  <2>1. /\ program' = program /\ at' = at /\ place' = place /\ ids' = ids /\ decls' = decls
        /\ defined' = defined /\ unlinked' = unlinked /\ linked' = linked /\ linking' = linking
    BY <1>1 DEF jitVars
  <2>2. Done' = Done
    BY <2>1 DEF Done
  <2>3. Linkable' <=> Linkable
    BY <2>1, SameProgram
  <2> HIDE DEF Done
  <2> QED BY <2>1, <2>2, <2>3 DEF JitInv
<1> QED BY <1>1, FunctionKeeps, FinalizeKeeps, ExecKeeps DEF JitNext, JitStopped

(* It holds throughout. *)
LEMMA JitAlways == JitSpec => []JitInv
<1> QED BY JitInitInv, JitNextInv, PTL DEF JitSpec

(* Every call of a program that runs arrives: whatever the names, the signatures and the
   modules, the code that a call reaches is that of the function the compiler meant. *)
THEOREM EveryCallArrives == JitSpec => []CallsArrive
<1>1. ASSUME JitInv PROVE CallsArrive
  <2> SUFFICES ASSUME linking = "running", NEW c \in Calls
               PROVE  LET callee == <<c[1], c[3]>>
                      IN  /\ c \in DOMAIN linked
                          /\ Func(callee).body => linked[c] = callee
                          /\ ~Func(callee).body => \/ linked[c] = <<"host">> /\ Func(callee).name \in Symbols
                                                   \/ /\ linked[c] \in Bodies /\ Func(linked[c]).name = Func(callee).name
                                                      /\ Func(linked[c]).sig = Func(callee).sig
    BY DEF CallsArrive
  <2>1. /\ program \in LinkedPrograms /\ at > Len(program) /\ at \in 1..(Len(program) + 1)
        /\ DOMAIN linked = CallsOf(program, {f \in Done : f[1] < at})
        /\ \A d \in DOMAIN linked : Arrives(program, Done, linked, d)
    BY <1>1 DEF JitInv
  <2>2. at \in Nat
    BY <2>1, AllIs
  <2>3. Done = Bodies /\ DOMAIN linked = Calls
    BY <2>1, <2>2, AllPassed, SameNames
  <2>4. c \in DOMAIN linked /\ Arrives(program, Bodies, linked, c)
    BY <2>1, <2>3
  <2> QED BY <2>4, SameNames DEF Arrives
<1> QED BY <1>1, JitAlways, PTL

(* The JIT accepts exactly the linkable programs. *)
THEOREM LinkableProgramsRun == JitSpec => []LinksExactly
<1>1. ASSUME JitInv PROVE LinksExactly
  <2> SUFFICES ASSUME linking = "running" PROVE Linkable
    BY <1>1 DEF LinksExactly, JitInv
  <2>1. /\ program \in LinkedPrograms /\ at > Len(program) /\ at \in 1..(Len(program) + 1)
        /\ "main" \in DOMAIN defined
        /\ Declares(program, UsedBy(program, Done), ids, decls) /\ Defines(program, Done, defined)
        /\ DOMAIN linked = CallsOf(program, {f \in Done : f[1] < at})
        /\ \A d \in DOMAIN linked : Arrives(program, Done, linked, d)
    BY <1>1 DEF JitInv
  <2>2. at \in Nat
    BY <2>1, AllIs
  <2>3. Done = Bodies /\ DOMAIN linked = Calls /\ UsedBy(program, Done) = Used
    BY <2>1, <2>2, AllPassed, SameNames, SameUsed
  <2>4. \A f, g \in Bodies : Func(f).name = Func(g).name => f = g
    BY <2>1, <2>3, SameNames DEF Defines
  <2>5. \A f, g \in Used : Func(f).name = Func(g).name => Func(f).sig = Func(g).sig
    BY <2>1, <2>3, SameNames DEF Declares
  <2>6. \E f \in Bodies : Func(f).name = "main"
    BY <2>1, <2>3, SameNames DEF Defines
  <2>7. \A c \in Calls : \/ Func(<<c[1], c[3]>>).name \in Symbols
                         \/ \E f \in Bodies : Func(f).name = Func(<<c[1], c[3]>>).name /\ f[1] <= c[1]
    BY <2>1, <2>3, SameNames DEF Arrives
  <2> QED BY <2>4, <2>5, <2>6, <2>7 DEF Linkable
<1> QED BY <1>1, JitAlways, PTL

=============================================================================
