------------------------ MODULE ModuleCompilerProofs ------------------------
(***************************************************************************)
(* The passes of the compiler accept exactly the programs they are meant   *)
(* for, and leave the IR that the source says, for every program.          *)
(***************************************************************************)
EXTENDS ModuleCompiler, WellFoundedInduction, TLAPS

(* The IR M of a module S, the i-th of the program, once c classes and f functions have
   been declared, g classes and b bodies generated. *)

IsModule(M) == M = [classes |-> M.classes, funcs |-> M.funcs, reserved_names |-> M.reserved_names]

ClassesAre(cs, S, c) ==
  cs = [k \in 1..c |-> [name |-> S.classes[k].name, content |-> cs[k].content, ast |-> S.classes[k]]]

BodyOf(F, done) == IF ~done \/ F.body = "none" THEN "poison" ELSE F.body

FunctionsAre(fs, S, f, b) ==
  fs = [k \in 1..f |-> [name |-> S.functions[k].name, params |-> fs[k].params, ret |-> fs[k].ret,
                        body |-> BodyOf(S.functions[k], k <= b), ast |-> S.functions[k]]]

NamesAre(M, S, c, f) ==
  M.reserved_names = {S.classes[k].name : k \in 1..c} \cup {S.functions[k].name : k \in 1..f}

NamesApart(S, c, f) ==
  /\ \A j, k \in 1..c : S.classes[j].name = S.classes[k].name => j = k
  /\ \A j, k \in 1..f : S.functions[j].name = S.functions[k].name => j = k
  /\ \A j \in 1..c, k \in 1..f : S.classes[j].name # S.functions[k].name

(* The type ty is what name says, and a class is there to be found. *)
MeansIn(M, ty, name, i) ==
  \/ name \in DOMAIN Builtin /\ ty = <<Builtin[name]>>
  \/ Head(ty) = "Class" /\ ty[2] = i /\ ty[3] \in DOMAIN M.classes /\ M.classes[ty[3]].name = name

(* The declaration D of the function F. *)
Sense(M, D, F, i) ==
  /\ DOMAIN D.params = DOMAIN F.params
  /\ \A p \in DOMAIN F.params : MeansIn(M, D.params[p], F.params[p], i)
  /\ D.ret # <<"Void">> => MeansIn(M, D.ret, F.ret[1], i)

KnownSignature(S, F) == ToSet(Signature(F)) \subseteq KnownTypes(S)

PlainClass(C) == /\ C.methods = <<>> /\ C.functions = <<>>
                 /\ \A j \in DOMAIN C.members : C.members[j].ty \in DOMAIN Builtin

Compiled(M, S, i, c, f, g, b) ==
  /\ IsModule(M)
  /\ ClassesAre(M.classes, S, c)
  /\ FunctionsAre(M.funcs, S, f, b)
  /\ NamesAre(M, S, c, f)
  /\ NamesApart(S, c, f)
  /\ \A k \in 1..f : Sense(M, M.funcs[k], S.functions[k], i) /\ KnownSignature(S, S.functions[k])
  /\ \A k \in 1..g : PlainClass(S.classes[k])
  /\ \A k \in 1..b : S.functions[k].body # "panics"

-----------------------------------------------------------------------------
(* Vectors. *)

(* A vector is the function of its indices. *)
LEMMA SeqIs ==
  ASSUME NEW s, IsSeq(s)
  PROVE  /\ Len(s) \in Nat /\ DOMAIN s = 1..Len(s) /\ s = [k \in 1..Len(s) |-> s[k]]
         /\ \A k \in 1..Len(s) : s[k] \in ToSet(s)
BY DEF IsSeq, ToSet

(* push: one element more, the others where they were. *)
LEMMA Pushed ==
  ASSUME NEW n \in Nat, NEW s, s = [k \in 1..n |-> s[k]], NEW e
  PROVE  /\ Append(s, e) = [k \in 1..(n + 1) |-> IF k <= n THEN s[k] ELSE e]
         /\ Len(s) = n
<1> DEFINE S == {s[k] : k \in 1..n} \cup {e}
<1>1. s \in Seq(S) /\ e \in S
  OBVIOUS
<1>2. Len(s) = n
  OBVIOUS
<1> HIDE DEF S
<1>3. /\ Append(s, e) \in Seq(S) /\ Len(Append(s, e)) = n + 1
      /\ \A k \in 1..(n + 1) : Append(s, e)[k] = IF k <= n THEN s[k] ELSE e
  BY <1>1, <1>2
<1>4. Append(s, e) = [k \in 1..(n + 1) |-> Append(s, e)[k]]
  BY <1>3
<1> QED BY <1>2, <1>3, <1>4

(* One index more. *)
LEMMA OneMore ==
  ASSUME NEW n \in Nat
  PROVE  1..(n + 1) = 1..n \cup {n + 1} /\ n + 1 \notin 1..n /\ 1..0 = {}
OBVIOUS

(* A set of indices has a least one, which CHOOSE finds. *)
LEMMA LeastIn ==
  ASSUME NEW K, K \subseteq Nat, K # {}
  PROVE  (CHOOSE i \in K : \A j \in K : i <= j) \in K
<1>1. PICK k \in K : \A j \in K : ~(<<j, k>> \in OpToRel(<, Nat))
  BY NatLessThanWellFounded, WFMin
<1>2. ASSUME NEW j \in K PROVE k <= j
  <2>1. j \in Nat /\ k \in Nat /\ <<j, k>> \notin OpToRel(<, Nat)
    BY <1>1
  <2>2. ~(j < k)
    BY <2>1 DEF OpToRel
  <2>3. j \in Nat /\ k \in Nat
    BY <2>1, Zenon
  <2> QED BY <2>2, <2>3
<1> QED BY <1>2

-----------------------------------------------------------------------------
(* The passes, on one module. *)

(* What a class type means is not changed by new contents of the classes. *)
LEMMA MeaningStays ==
  ASSUME NEW M, NEW N, NEW ty, NEW name, NEW i, MeansIn(M, ty, name, i),
         DOMAIN M.classes \subseteq DOMAIN N.classes,
         \A k \in DOMAIN M.classes : N.classes[k].name = M.classes[k].name
  PROVE  MeansIn(N, ty, name, i)
BY DEF MeansIn

(* declare_classes. *)
LEMMA ClassDeclared ==
  ASSUME NEW M, NEW S, NEW i, NEW c \in Nat, Compiled(M, S, i, c, 0, 0, 0),
         S.classes[c + 1].name \notin M.reserved_names, NEW N,
         N = [M EXCEPT !.reserved_names = @ \cup {S.classes[c + 1].name},
                       !.classes = Append(@, [name |-> S.classes[c + 1].name, content |-> <<>>,
                                              ast |-> S.classes[c + 1]])]
  PROVE  Compiled(N, S, i, c + 1, 0, 0, 0)
<1> DEFINE e == [name |-> S.classes[c + 1].name, content |-> <<>>, ast |-> S.classes[c + 1]]
<1>1. /\ IsModule(M) /\ ClassesAre(M.classes, S, c) /\ FunctionsAre(M.funcs, S, 0, 0)
      /\ NamesAre(M, S, c, 0) /\ NamesApart(S, c, 0)
  BY DEF Compiled
<1>2. N = [classes |-> Append(M.classes, e), funcs |-> M.funcs,
           reserved_names |-> M.reserved_names \cup {S.classes[c + 1].name}]
  BY <1>1 DEF IsModule
<1>3. N.classes = Append(M.classes, e) /\ N.funcs = M.funcs
      /\ N.reserved_names = M.reserved_names \cup {S.classes[c + 1].name}
  BY <1>2
<1>4. N.classes = [k \in 1..(c + 1) |-> IF k <= c THEN M.classes[k] ELSE e]
  <2>1. M.classes = [k \in 1..c |-> M.classes[k]]
    BY <1>1 DEF ClassesAre
  <2> HIDE DEF e
  <2> QED BY <1>3, <2>1, Pushed
<1>6. ClassesAre(N.classes, S, c + 1)
  <2>1. ASSUME NEW k \in 1..(c + 1)
        PROVE  N.classes[k] = [name |-> S.classes[k].name, content |-> N.classes[k].content,
                               ast |-> S.classes[k]]
    <3>1. CASE k \in 1..c
      <4>1. N.classes[k] = M.classes[k]
        BY <1>4, <3>1
      <4>2. M.classes[k] = [name |-> S.classes[k].name, content |-> M.classes[k].content,
                            ast |-> S.classes[k]]
        BY <1>1, <3>1 DEF ClassesAre
      <4> QED BY <4>1, <4>2
    <3>2. CASE k = c + 1
      <4>1. N.classes[k] = e
        BY <1>4, <3>2
      <4>2. e = [name |-> S.classes[k].name, content |-> e.content, ast |-> S.classes[k]]
        BY <3>2
      <4> HIDE DEF e
      <4> QED BY <4>1, <4>2
    <3>3. k \in 1..c \/ k = c + 1
      OBVIOUS
    <3> QED BY <3>1, <3>2, <3>3
  <2> QED BY <1>4, <2>1 DEF ClassesAre
<1>7. NamesAre(N, S, c + 1, 0)
  BY <1>1, <1>3, OneMore DEF NamesAre
<1>8. NamesApart(S, c + 1, 0)
  <2>1. \A j \in 1..c : S.classes[j].name # S.classes[c + 1].name
    BY <1>1 DEF NamesAre
  <2> QED BY <1>1, <2>1, OneMore DEF NamesApart
<1>9. IsModule(N)
  BY <1>2, <1>3 DEF IsModule
<1>10. FunctionsAre(N.funcs, S, 0, 0)
  BY <1>1, <1>3 DEF FunctionsAre
<1> QED BY <1>6, <1>7, <1>8, <1>9, <1>10, OneMore DEF Compiled

(* declare_functions. *)
LEMMA FunctionDeclared ==
  ASSUME NEW M, NEW S, NEW i, NEW c \in Nat, NEW f \in Nat, Compiled(M, S, i, c, f, 0, 0),
         S.functions[f + 1].name \notin M.reserved_names, KnownSignature(S, S.functions[f + 1]),
         NEW D, D = [name |-> S.functions[f + 1].name, params |-> D.params, ret |-> D.ret,
                     body |-> "poison", ast |-> S.functions[f + 1]],
         Sense(M, D, S.functions[f + 1], i),
         NEW N,
         N = [M EXCEPT !.reserved_names = @ \cup {S.functions[f + 1].name}, !.funcs = Append(@, D)]
  PROVE  Compiled(N, S, i, c, f + 1, 0, 0)
<1>1. /\ IsModule(M) /\ ClassesAre(M.classes, S, c) /\ FunctionsAre(M.funcs, S, f, 0)
      /\ NamesAre(M, S, c, f) /\ NamesApart(S, c, f)
      /\ \A k \in 1..f : Sense(M, M.funcs[k], S.functions[k], i) /\ KnownSignature(S, S.functions[k])
  BY DEF Compiled
<1>2. N = [classes |-> M.classes, funcs |-> Append(M.funcs, D),
           reserved_names |-> M.reserved_names \cup {S.functions[f + 1].name}]
  BY <1>1 DEF IsModule
<1>3. N.classes = M.classes /\ N.funcs = Append(M.funcs, D)
      /\ N.reserved_names = M.reserved_names \cup {S.functions[f + 1].name}
  BY <1>2
<1>4. N.funcs = [k \in 1..(f + 1) |-> IF k <= f THEN M.funcs[k] ELSE D]
  <2>1. M.funcs = [k \in 1..f |-> M.funcs[k]]
    BY <1>1 DEF FunctionsAre
  <2> QED BY <1>3, <2>1, Pushed
<1>5. /\ \A k \in 1..f : N.funcs[k] = M.funcs[k]
      /\ N.funcs[f + 1] = D
  BY <1>4
<1>6. FunctionsAre(N.funcs, S, f + 1, 0)
  <2>1. ASSUME NEW k \in 1..(f + 1)
        PROVE  N.funcs[k] = [name |-> S.functions[k].name, params |-> N.funcs[k].params, ret |-> N.funcs[k].ret,
                             body |-> BodyOf(S.functions[k], k <= 0), ast |-> S.functions[k]]
    <3>1. BodyOf(S.functions[k], k <= 0) = "poison"
      BY DEF BodyOf
    <3>2. CASE k \in 1..f
      <4>1. M.funcs[k] = [name |-> S.functions[k].name, params |-> M.funcs[k].params, ret |-> M.funcs[k].ret,
                          body |-> BodyOf(S.functions[k], k <= 0), ast |-> S.functions[k]]
        BY <1>1, <3>2 DEF FunctionsAre
      <4> QED BY <1>5, <3>2, <4>1
    <3>3. CASE k = f + 1
      <4>1. N.funcs[k] = D
        BY <1>5, <3>3
      <4> QED BY <3>1, <3>3, <4>1
    <3>4. k \in 1..f \/ k = f + 1
      OBVIOUS
    <3> QED BY <3>2, <3>3, <3>4
  <2> QED BY <1>4, <2>1 DEF FunctionsAre
<1>7. NamesAre(N, S, c, f + 1)
  BY <1>1, <1>3, OneMore DEF NamesAre
<1>8. NamesApart(S, c, f + 1)
  <2>1. /\ \A j \in 1..c : S.classes[j].name # S.functions[f + 1].name
        /\ \A j \in 1..f : S.functions[j].name # S.functions[f + 1].name
    BY <1>1 DEF NamesAre
  <2> QED BY <1>1, <2>1, OneMore DEF NamesApart
<1>9. IsModule(N)
  BY <1>2, <1>3 DEF IsModule
<1>10. ClassesAre(N.classes, S, c)
  BY <1>1, <1>3 DEF ClassesAre
<1>11. \A k \in 1..(f + 1) : Sense(N, N.funcs[k], S.functions[k], i) /\ KnownSignature(S, S.functions[k])
  <2>1. \A D1, F : Sense(M, D1, F, i) => Sense(N, D1, F, i)
    <3>1. \A ty, name : MeansIn(M, ty, name, i) => MeansIn(N, ty, name, i)
      BY <1>3 DEF MeansIn
    <3> QED BY <3>1 DEF Sense
  <2>2. \A k \in 1..f : Sense(N, N.funcs[k], S.functions[k], i) /\ KnownSignature(S, S.functions[k])
    BY <1>1, <1>5, <2>1
  <2>3. Sense(N, N.funcs[f + 1], S.functions[f + 1], i) /\ KnownSignature(S, S.functions[f + 1])
    BY <1>5, <2>1
  <2>4. \A k \in 1..(f + 1) : k \in 1..f \/ k = f + 1
    OBVIOUS
  <2> QED BY <2>2, <2>3, <2>4
<1> QED BY <1>6, <1>7, <1>8, <1>9, <1>10, <1>11, OneMore DEF Compiled

(* generate_classes, whatever the contents. *)
LEMMA ClassGenerated ==
  ASSUME NEW M, NEW S, NEW i, NEW c \in Nat, NEW f \in Nat, NEW g \in Nat, g < c,
         Compiled(M, S, i, c, f, g, 0), PlainClass(S.classes[g + 1]),
         NEW content, NEW N, N = [M EXCEPT !.classes[g + 1].content = content]
  PROVE  Compiled(N, S, i, c, f, g + 1, 0)
<1>1. /\ IsModule(M) /\ ClassesAre(M.classes, S, c) /\ FunctionsAre(M.funcs, S, f, 0)
      /\ NamesAre(M, S, c, f) /\ NamesApart(S, c, f)
      /\ \A k \in 1..f : Sense(M, M.funcs[k], S.functions[k], i) /\ KnownSignature(S, S.functions[k])
      /\ \A k \in 1..g : PlainClass(S.classes[k])
  BY DEF Compiled
<1> DEFINE cs == [M.classes EXCEPT ![g + 1].content = content]
<1>2. N = [classes |-> cs, funcs |-> M.funcs, reserved_names |-> M.reserved_names]
  BY <1>1 DEF IsModule
<1>3. N.classes = cs /\ N.funcs = M.funcs /\ N.reserved_names = M.reserved_names
  BY <1>2
<1>4. g + 1 \in 1..c /\ DOMAIN M.classes = 1..c
  BY <1>1 DEF ClassesAre
<1>5. /\ cs = [k \in 1..c |-> cs[k]]
      /\ \A k \in 1..c : k # g + 1 => cs[k] = M.classes[k]
      /\ cs[g + 1] = [M.classes[g + 1] EXCEPT !.content = content]
  BY <1>4
<1>6. \A k \in 1..c : cs[k] = [name |-> S.classes[k].name, content |-> cs[k].content, ast |-> S.classes[k]]
  <2>0. \A k \in 1..c : M.classes[k] = [name |-> S.classes[k].name, content |-> M.classes[k].content, ast |-> S.classes[k]]
    BY <1>1 DEF ClassesAre
  <2> HIDE DEF cs
  <2>1. cs[g + 1] = [name |-> S.classes[g + 1].name, content |-> content, ast |-> S.classes[g + 1]]
    <3>1. M.classes[g + 1] = [name |-> S.classes[g + 1].name, content |-> M.classes[g + 1].content,
                              ast |-> S.classes[g + 1]]
      BY <1>4, <2>0
    <3>2. \A C, n, a, t : C = [name |-> n, content |-> t, ast |-> a]
            => [C EXCEPT !.content = content] = [name |-> n, content |-> content, ast |-> a]
      OBVIOUS
    <3> QED BY <1>5, <3>1, <3>2
  <2>2. cs[g + 1] = [name |-> S.classes[g + 1].name, content |-> cs[g + 1].content, ast |-> S.classes[g + 1]]
    BY <2>1
  <2> QED BY <1>5, <2>0, <2>2
<1> HIDE DEF cs
<1>7. ClassesAre(N.classes, S, c)
  <2>1. ClassesAre(cs, S, c)
    BY <1>5, <1>6 DEF ClassesAre
  <2> QED BY <1>3, <2>1
<1>8. /\ DOMAIN M.classes \subseteq DOMAIN N.classes
      /\ \A k \in DOMAIN M.classes : N.classes[k].name = M.classes[k].name
  <2>1. \A k \in 1..c : M.classes[k].name = S.classes[k].name
    BY <1>1 DEF ClassesAre
  <2>2. \A k \in 1..c : N.classes[k].name = S.classes[k].name
    <3>1. \A k \in 1..c : cs[k].name = S.classes[k].name
      <4>1. \A C, n, a, t : C = [name |-> n, content |-> t, ast |-> a] => C.name = n
        OBVIOUS
      <4> SUFFICES ASSUME NEW k \in 1..c PROVE cs[k].name = S.classes[k].name
        OBVIOUS
      <4> DEFINE t == cs[k].content
      <4>2. cs[k] = [name |-> S.classes[k].name, content |-> t, ast |-> S.classes[k]]
        BY <1>6
      <4> HIDE DEF t
      <4> QED BY <4>1, <4>2
    <3> QED BY <1>3, <3>1
  <2>3. DOMAIN N.classes = 1..c
    BY <1>3, <1>5
  <2> QED BY <1>4, <2>1, <2>2, <2>3
<1>9. \A ty, name : MeansIn(M, ty, name, i) => MeansIn(N, ty, name, i)
  BY <1>8, MeaningStays
<1>10. \A k \in 1..f : Sense(N, N.funcs[k], S.functions[k], i)
  BY <1>1, <1>3, <1>9 DEF Sense
<1>11. IsModule(N) /\ FunctionsAre(N.funcs, S, f, 0) /\ NamesAre(N, S, c, f)
  BY <1>1, <1>2, <1>3 DEF IsModule, FunctionsAre, NamesAre
<1> QED BY <1>1, <1>7, <1>10, <1>11, OneMore DEF Compiled

(* generate_functions. *)
LEMMA FunctionGenerated ==
  ASSUME NEW M, NEW S, NEW i, NEW c \in Nat, NEW f \in Nat, NEW b \in Nat, b < f,
         Compiled(M, S, i, c, f, c, b), S.functions[b + 1].body # "panics",
         NEW N, N = [M EXCEPT !.funcs[b + 1].body = IF S.functions[b + 1].body = "none" THEN @
                                                    ELSE S.functions[b + 1].body]
  PROVE  Compiled(N, S, i, c, f, c, b + 1)
<1>1. /\ IsModule(M) /\ ClassesAre(M.classes, S, c) /\ FunctionsAre(M.funcs, S, f, b)
      /\ NamesAre(M, S, c, f) /\ NamesApart(S, c, f)
      /\ \A k \in 1..f : Sense(M, M.funcs[k], S.functions[k], i) /\ KnownSignature(S, S.functions[k])
      /\ \A k \in 1..c : PlainClass(S.classes[k])
      /\ \A k \in 1..b : S.functions[k].body # "panics"
  BY DEF Compiled
<1> DEFINE F == S.functions[b + 1]
           fs == [M.funcs EXCEPT ![b + 1].body = IF F.body = "none" THEN @ ELSE F.body]
<1>2. N = [classes |-> M.classes, funcs |-> fs, reserved_names |-> M.reserved_names]
  BY <1>1 DEF IsModule
<1>3. N.classes = M.classes /\ N.funcs = fs /\ N.reserved_names = M.reserved_names
  <2> HIDE DEF fs
  <2> QED BY <1>2
<1>4. b + 1 \in 1..f /\ DOMAIN M.funcs = 1..f
  BY <1>1 DEF FunctionsAre
<1>12. fs = [k \in 1..f |-> fs[k]]
  BY <1>4, SMTT(30)
<1>5. /\ \A k \in 1..f : k # b + 1 => fs[k] = M.funcs[k]
      /\ fs[b + 1] = [M.funcs[b + 1] EXCEPT !.body = IF F.body = "none" THEN @ ELSE F.body]
  BY <1>4
<1>6. \A k \in 1..f :
        M.funcs[k] = [name |-> S.functions[k].name, params |-> M.funcs[k].params, ret |-> M.funcs[k].ret,
                      body |-> BodyOf(S.functions[k], k <= b), ast |-> S.functions[k]]
  BY <1>1 DEF FunctionsAre
<1> HIDE DEF fs
<1>7. fs[b + 1] = [name |-> F.name, params |-> M.funcs[b + 1].params, ret |-> M.funcs[b + 1].ret,
                   body |-> BodyOf(F, TRUE), ast |-> F]
  <2>1. M.funcs[b + 1] = [name |-> F.name, params |-> M.funcs[b + 1].params, ret |-> M.funcs[b + 1].ret,
                          body |-> "poison", ast |-> F]
    <3>1. BodyOf(F, b + 1 <= b) = "poison"
      BY DEF BodyOf
    <3> QED BY <1>4, <1>6, <3>1
  <2>2. BodyOf(F, TRUE) = IF F.body = "none" THEN "poison" ELSE F.body
    BY DEF BodyOf
  <2>3. \A C, n, p, r, a, v : C = [name |-> n, params |-> p, ret |-> r, body |-> "poison", ast |-> a]
          => [C EXCEPT !.body = IF v = "none" THEN @ ELSE v]
               = [name |-> n, params |-> p, ret |-> r, body |-> IF v = "none" THEN "poison" ELSE v, ast |-> a]
    OBVIOUS
  <2> HIDE DEF F
  <2>4. [M.funcs[b + 1] EXCEPT !.body = IF F.body = "none" THEN @ ELSE F.body]
          = [name |-> F.name, params |-> M.funcs[b + 1].params, ret |-> M.funcs[b + 1].ret,
             body |-> IF F.body = "none" THEN "poison" ELSE F.body, ast |-> F]
    BY <2>1, <2>3
  <2> QED BY <1>5, <2>2, <2>4
<1>8. \A k \in 1..f : fs[k].params = M.funcs[k].params /\ fs[k].ret = M.funcs[k].ret
  BY <1>5, <1>7
<1>9. FunctionsAre(N.funcs, S, f, b + 1)
  <2>1. ASSUME NEW k \in 1..f
        PROVE  fs[k] = [name |-> S.functions[k].name, params |-> fs[k].params, ret |-> fs[k].ret,
                        body |-> BodyOf(S.functions[k], k <= b + 1), ast |-> S.functions[k]]
    <3>1. CASE k = b + 1
      <4>1. (k <= b + 1) = TRUE
        BY <3>1
      <4> QED BY <1>7, <1>8, <3>1, <4>1
    <3>2. CASE k # b + 1
      <4>1. (k <= b + 1) = (k <= b)
        BY <3>2
      <4> QED BY <1>5, <1>6, <3>2, <4>1
    <3> QED BY <3>1, <3>2
  <2>2. FunctionsAre(fs, S, f, b + 1)
    BY <1>12, <2>1 DEF FunctionsAre
  <2> QED BY <1>3, <2>2
<1>10. \A k \in 1..f : Sense(N, N.funcs[k], S.functions[k], i)
  <2>1. \A k \in 1..f : Sense(M, fs[k], S.functions[k], i)
    BY <1>1, <1>8 DEF Sense
  <2>2. \A D1, F1 : Sense(M, D1, F1, i) => Sense(N, D1, F1, i)
    <3>1. \A ty, name : MeansIn(M, ty, name, i) => MeansIn(N, ty, name, i)
      BY <1>3 DEF MeansIn
    <3> QED BY <3>1 DEF Sense
  <2> QED BY <1>3, <2>1, <2>2
<1>11. IsModule(N) /\ ClassesAre(N.classes, S, c) /\ NamesAre(N, S, c, f)
  <2>1. IsModule(N)
    BY <1>2, <1>3 DEF IsModule
  <2>2. ClassesAre(N.classes, S, c) /\ NamesAre(N, S, c, f)
    BY <1>1, <1>3 DEF NamesAre
  <2> QED BY <2>1, <2>2
<1> QED BY <1>1, <1>9, <1>10, <1>11, OneMore DEF Compiled

-----------------------------------------------------------------------------
(* What Compilable asks, index by index. *)

SoundModule(S) ==
  /\ IsSeq(S.classes) /\ IsSeq(S.functions)
  /\ \A c \in ToSet(S.classes) : IsSeq(c.members) /\ IsSeq(c.methods) /\ IsSeq(c.functions)
  /\ \A f \in ToSet(S.functions) : IsSeq(f.params) /\ IsSeq(f.ret)

(* The names of the classes and then the functions are used once. *)
LEMMA Injective ==
  ASSUME NEW a, NEW b, NEW n \in Nat, NEW k \in Nat,
         a = [i \in 1..n |-> a[i]], b = [i \in 1..k |-> b[i]]
  PROVE  IsInjective(a \o b) <=> /\ \A i, j \in 1..n : a[i] = a[j] => i = j
                                 /\ \A i, j \in 1..k : b[i] = b[j] => i = j
                                 /\ \A i \in 1..n, j \in 1..k : a[i] # b[j]
<1> DEFINE V == {a[i] : i \in 1..n} \cup {b[i] : i \in 1..k}
<1>1. a \in Seq(V) /\ b \in Seq(V) /\ Len(a) = n /\ Len(b) = k
  <2>1. \A i \in 1..n : a[i] \in V
    OBVIOUS
  <2>2. \A i \in 1..k : b[i] \in V
    OBVIOUS
  <2> HIDE DEF V
  <2>3. a \in Seq(V) /\ Len(a) = n
    BY <2>1
  <2>4. b \in Seq(V) /\ Len(b) = k
    BY <2>2
  <2> QED BY <2>3, <2>4
<1> HIDE DEF V
<1> DEFINE s == a \o b
<1>2. /\ DOMAIN s = 1..(n + k)
      /\ \A i \in 1..n : s[i] = a[i]
      /\ \A j \in 1..k : s[n + j] = b[j]
  BY <1>1
<1>3. /\ \A i \in 1..n : i \in 1..(n + k)
      /\ \A j \in 1..k : n + j \in 1..(n + k)
      /\ \A x \in 1..(n + k) : x \in 1..n \/ \E j \in 1..k : x = n + j
      /\ \A i \in 1..n, j \in 1..k : i # n + j
      /\ \A i, j \in 1..k : n + i = n + j => i = j
  <2>1. ASSUME NEW x \in 1..(n + k), x \notin 1..n PROVE \E j \in 1..k : x = n + j
    <3>1. x - n \in 1..k /\ x = n + (x - n)
      BY <2>1
    <3> QED BY <3>1
  <2> QED BY <2>1
<1> HIDE DEF s
<1>4. IsInjective(s) <=> \A x, y \in 1..(n + k) : s[x] = s[y] => x = y
  BY <1>2 DEF IsInjective
<1>5. ASSUME \A x, y \in 1..(n + k) : s[x] = s[y] => x = y
      PROVE  /\ \A i, j \in 1..n : a[i] = a[j] => i = j
             /\ \A i, j \in 1..k : b[i] = b[j] => i = j
             /\ \A i \in 1..n, j \in 1..k : a[i] # b[j]
  <2>1. \A i, j \in 1..n : a[i] = a[j] => i = j
    BY <1>2, <1>3, <1>5
  <2>2. ASSUME NEW i \in 1..k, NEW j \in 1..k, b[i] = b[j] PROVE i = j
    <3>1. s[n + i] = s[n + j] /\ n + i \in 1..(n + k) /\ n + j \in 1..(n + k)
      BY <1>2, <1>3, <2>2
    <3>2. n + i = n + j
      BY <1>5, <3>1
    <3> QED BY <1>3, <3>2
  <2>3. ASSUME NEW i \in 1..n, NEW j \in 1..k, a[i] = b[j] PROVE FALSE
    <3>1. s[i] = s[n + j] /\ i \in 1..(n + k) /\ n + j \in 1..(n + k)
      BY <1>2, <1>3, <2>3
    <3>2. i = n + j
      BY <1>5, <3>1
    <3> QED BY <1>3, <3>2
  <2> QED BY <2>1, <2>2, <2>3
<1>6. ASSUME \A i, j \in 1..n : a[i] = a[j] => i = j,
             \A i, j \in 1..k : b[i] = b[j] => i = j,
             \A i \in 1..n, j \in 1..k : a[i] # b[j],
             NEW x \in 1..(n + k), NEW y \in 1..(n + k), s[x] = s[y]
      PROVE  x = y
  <2>1. CASE x \in 1..n /\ y \in 1..n
    BY <1>2, <1>6, <2>1
  <2>2. ASSUME NEW i \in 1..k, NEW j \in 1..k, x = n + i, y = n + j PROVE x = y
    <3>1. b[i] = b[j]
      BY <1>2, <1>6, <2>2
    <3> QED BY <1>6, <2>2, <3>1
  <2>3. ASSUME NEW j \in 1..k, x \in 1..n, y = n + j PROVE FALSE
    BY <1>2, <1>6, <2>3
  <2>4. ASSUME NEW i \in 1..k, y \in 1..n, x = n + i PROVE FALSE
    BY <1>2, <1>6, <2>4
  <2> QED BY <1>3, <2>1, <2>2, <2>3, <2>4
<1> QED BY <1>4, <1>5, <1>6 DEF s

(* Compilable, by the indices of classes and functions. *)
LEMMA CompilableIs ==
  ASSUME NEW S, SoundModule(S)
  PROVE  Compilable(S) <=>
           /\ NamesApart(S, Len(S.classes), Len(S.functions))
           /\ \A k \in 1..Len(S.functions) : KnownSignature(S, S.functions[k]) /\ S.functions[k].body # "panics"
           /\ \A k \in 1..Len(S.classes) : PlainClass(S.classes[k])
<1> DEFINE a == [i \in DOMAIN S.classes |-> S.classes[i].name]
           b == [i \in DOMAIN S.functions |-> S.functions[i].name]
           n == Len(S.classes)
           k == Len(S.functions)
<1>1. /\ n \in Nat /\ DOMAIN S.classes = 1..n
      /\ k \in Nat /\ DOMAIN S.functions = 1..k
  BY SeqIs DEF SoundModule
<1>2. /\ a = [i \in 1..n |-> a[i]] /\ b = [i \in 1..k |-> b[i]]
      /\ \A i \in 1..n : a[i] = S.classes[i].name
      /\ \A i \in 1..k : b[i] = S.functions[i].name
  BY <1>1
<1>3. IsInjective(a \o b) <=> NamesApart(S, n, k)
  <2> HIDE DEF a, b, n, k
  <2>1. IsInjective(a \o b) <=> /\ \A i, j \in 1..n : a[i] = a[j] => i = j
                                /\ \A i, j \in 1..k : b[i] = b[j] => i = j
                                /\ \A i \in 1..n, j \in 1..k : a[i] # b[j]
    <3>1. n \in Nat /\ k \in Nat
      BY <1>1
    <3>2. a = [i \in 1..n |-> a[i]] /\ b = [i \in 1..k |-> b[i]]
      BY <1>2, Zenon
    <3> QED BY <3>1, <3>2, Injective, Zenon
  <2> QED BY <1>2, <2>1 DEF NamesApart
<1>4. (\A f \in ToSet(S.functions) : ToSet(Signature(f)) \subseteq KnownTypes(S) /\ f.body # "panics")
        <=> \A j \in 1..k : KnownSignature(S, S.functions[j]) /\ S.functions[j].body # "panics"
  BY <1>1 DEF ToSet, KnownSignature
<1>5. (\A c \in ToSet(S.classes) : /\ c.methods = <<>> /\ c.functions = <<>>
                                   /\ \A i \in DOMAIN c.members : c.members[i].ty \in DOMAIN Builtin)
        <=> \A j \in 1..n : PlainClass(S.classes[j])
  BY <1>1 DEF ToSet, PlainClass
<1> QED BY <1>3, <1>4, <1>5 DEF Compilable

-----------------------------------------------------------------------------
(* The invariant: pass p has handled that many items of module i. *)

Total(i, p) == IF p \in {1, 3} THEN Len(src[i].classes) ELSE Len(src[i].functions)

Handled(i, p) == IF outcome = "ok" \/ i < m \/ (i = m /\ pass > p) THEN Total(i, p)
                 ELSE IF i = m /\ pass = p THEN next - 1 ELSE 0

Placed == /\ src \in Programs /\ m \in 1..Len(src) /\ pass \in 1..4 /\ next \in Nat \ {0}
          /\ outcome \in {"compiling", "ok", "panic"}
          /\ next <= Total(m, pass) + 1
          /\ modules = [i \in DOMAIN src |-> modules[i]]

Inv == /\ Placed
       /\ \A i \in DOMAIN src :
            Compiled(modules[i], src[i], i, Handled(i, 1), Handled(i, 2), Handled(i, 3), Handled(i, 4))
       /\ outcome = "panic" => ~Compilable(src[m])

(* The program is made of vectors. *)
LEMMA SourceIs ==
  ASSUME SoundPrograms, src \in Programs
  PROVE  /\ Len(src) \in Nat /\ Len(src) > 0 /\ DOMAIN src = 1..Len(src)
         /\ \A i \in DOMAIN src : SoundModule(src[i])
         /\ \A i \in DOMAIN src, p \in 1..4 : Total(i, p) \in Nat
<1>1. IsSeq(src) /\ src # <<>> /\ \A mod \in ToSet(src) : SoundModule(mod)
  BY DEF SoundPrograms, SoundModule
<1>2. Len(src) \in Nat /\ DOMAIN src = 1..Len(src) /\ \A i \in 1..Len(src) : src[i] \in ToSet(src)
  BY <1>1, SeqIs
<1>3. Len(src) > 0
  BY <1>1 DEF IsSeq
<1>4. \A i \in DOMAIN src : SoundModule(src[i])
  BY <1>1, <1>2
<1>5. \A i \in DOMAIN src : Len(src[i].classes) \in Nat /\ Len(src[i].functions) \in Nat
  BY <1>4, SeqIs DEF SoundModule
<1> QED BY <1>2, <1>3, <1>4, <1>5 DEF Total

(* While compiling, what the passes have done with the current module. *)
LEMMA Current ==
  ASSUME SoundPrograms, Inv, outcome = "compiling"
  PROVE  /\ m \in DOMAIN src /\ SoundModule(src[m])
         /\ Len(src[m].classes) \in Nat /\ Len(src[m].functions) \in Nat
         /\ LET T == Len(src[m].classes)
                U == Len(src[m].functions)
                C(c, f, g, b) == Compiled(modules[m], src[m], m, c, f, g, b)
            IN  /\ pass = 1 => C(next - 1, 0, 0, 0)
                /\ pass = 2 => C(T, next - 1, 0, 0)
                /\ pass = 3 => C(T, U, next - 1, 0)
                /\ pass = 4 => C(T, U, T, next - 1)
<1>1. m \in DOMAIN src /\ SoundModule(src[m])
  BY SourceIs DEF Inv, Placed
<1>2. Len(src[m].classes) \in Nat /\ Len(src[m].functions) \in Nat
  BY <1>1, SeqIs DEF SoundModule
<1>3. Compiled(modules[m], src[m], m, Handled(m, 1), Handled(m, 2), Handled(m, 3), Handled(m, 4))
  BY <1>1 DEF Inv
<1>4. m \in Int /\ pass \in 1..4
  BY SourceIs DEF Inv, Placed
<1>5. \A p \in 1..4 : Handled(m, p) = IF pass > p THEN Total(m, p) ELSE IF pass = p THEN next - 1 ELSE 0
  BY <1>4 DEF Handled
<1>6. /\ Total(m, 1) = Len(src[m].classes) /\ Total(m, 3) = Len(src[m].classes)
      /\ Total(m, 2) = Len(src[m].functions) /\ Total(m, 4) = Len(src[m].functions)
  BY DEF Total
<1>7. /\ pass = 1 => Handled(m, 1) = next - 1 /\ Handled(m, 2) = 0 /\ Handled(m, 3) = 0 /\ Handled(m, 4) = 0
      /\ pass = 2 => /\ Handled(m, 1) = Len(src[m].classes) /\ Handled(m, 2) = next - 1
                     /\ Handled(m, 3) = 0 /\ Handled(m, 4) = 0
      /\ pass = 3 => /\ Handled(m, 1) = Len(src[m].classes) /\ Handled(m, 2) = Len(src[m].functions)
                     /\ Handled(m, 3) = next - 1 /\ Handled(m, 4) = 0
      /\ pass = 4 => /\ Handled(m, 1) = Len(src[m].classes) /\ Handled(m, 2) = Len(src[m].functions)
                     /\ Handled(m, 3) = Len(src[m].classes) /\ Handled(m, 4) = next - 1
  BY <1>5, <1>6
<1> HIDE DEF Handled
<1> QED BY <1>1, <1>2, <1>3, <1>7

(* A pass runs over as many items as the source has. *)
LEMMA ItemsAre ==
  ASSUME SoundPrograms, Inv, outcome = "compiling"
  PROVE  Len(Items(pass)) = Total(m, pass)
<1> DEFINE T == Len(src[m].classes)
           U == Len(src[m].functions)
<1>1. T \in Nat /\ U \in Nat /\ pass \in 1..4
  BY Current DEF Inv, Placed
<1>2. CASE pass = 1 \/ pass = 2
  BY <1>2 DEF Items, Total
<1>3. CASE pass = 3
  <2>1. ClassesAre(modules[m].classes, src[m], T)
    BY <1>3, Current DEF Compiled
  <2>2. modules[m].classes = [k \in 1..T |-> modules[m].classes[k]]
    BY <2>1 DEF ClassesAre
  <2> HIDE DEF T
  <2>3. Len(modules[m].classes) = T
    BY <1>1, <2>2, Pushed
  <2> QED BY <1>3, <2>3 DEF Items, Total, T
<1>4. CASE pass = 4
  <2>1. FunctionsAre(modules[m].funcs, src[m], U, next - 1)
    BY <1>4, Current DEF Compiled
  <2>2. modules[m].funcs = [k \in 1..U |-> modules[m].funcs[k]]
    BY <2>1 DEF FunctionsAre
  <2> HIDE DEF U
  <2>3. Len(modules[m].funcs) = U
    BY <1>1, <2>2, Pushed
  <2> QED BY <1>4, <2>3 DEF Items, Total, U
<1> QED BY <1>1, <1>2, <1>3, <1>4

(* An item handled: the module's IR follows, the others stay. *)
LEMMA StepKeeps ==
  ASSUME SoundPrograms, Inv, outcome = "compiling", next <= Total(m, pass), NEW N, Step(N),
         LET T == Len(src[m].classes)
             U == Len(src[m].functions)
             C(c, f, g, b) == Compiled(N, src[m], m, c, f, g, b)
         IN  /\ pass = 1 => C(next, 0, 0, 0)
             /\ pass = 2 => C(T, next, 0, 0)
             /\ pass = 3 => C(T, U, next, 0)
             /\ pass = 4 => C(T, U, T, next)
  PROVE  Inv'
<1>1. /\ src' = src /\ m' = m /\ pass' = pass /\ next' = next + 1 /\ outcome' = outcome
      /\ modules' = [modules EXCEPT ![m] = N]
  BY DEF Step
<1>2. m \in DOMAIN src /\ modules = [i \in DOMAIN src |-> modules[i]] /\ next \in Nat \ {0} /\ pass \in 1..4 /\ m \in Int
  BY SourceIs DEF Inv, Placed
<1>3. /\ modules' = [i \in DOMAIN src |-> modules'[i]]
      /\ modules'[m] = N
      /\ \A i \in DOMAIN src : i # m => modules'[i] = modules[i]
  BY <1>1, <1>2, SMTT(30)
<1>4. \A i, p : Total(i, p)' = Total(i, p)
  BY <1>1 DEF Total
<1>5. Total(m, pass) \in Nat
  BY <1>2, SourceIs DEF Inv, Placed
<1>6. Placed'
  <2>1. Total(m, pass)' = Total(m, pass)
    BY <1>1 DEF Total
  <2> QED BY <1>1, <1>2, <1>3, <1>5, <2>1 DEF Inv, Placed
<1>7. ASSUME NEW i \in DOMAIN src
      PROVE  Compiled(modules'[i], src[i], i, Handled(i, 1)', Handled(i, 2)', Handled(i, 3)', Handled(i, 4)')
  <2>1. CASE i = m
    <3>1. \A p \in 1..4 : Handled(i, p)' = IF pass > p THEN Total(i, p) ELSE IF pass = p THEN next ELSE 0
      BY <1>1, <1>2, <1>4, <2>1 DEF Handled
    <3>2. /\ Total(i, 1) = Len(src[m].classes) /\ Total(i, 3) = Len(src[m].classes)
          /\ Total(i, 2) = Len(src[m].functions) /\ Total(i, 4) = Len(src[m].functions)
      BY <2>1 DEF Total
    <3>3. \/ pass = 1 /\ Handled(i, 1)' = next /\ Handled(i, 2)' = 0 /\ Handled(i, 3)' = 0 /\ Handled(i, 4)' = 0
          \/ /\ pass = 2 /\ Handled(i, 1)' = Len(src[m].classes) /\ Handled(i, 2)' = next
             /\ Handled(i, 3)' = 0 /\ Handled(i, 4)' = 0
          \/ /\ pass = 3 /\ Handled(i, 1)' = Len(src[m].classes) /\ Handled(i, 2)' = Len(src[m].functions)
             /\ Handled(i, 3)' = next /\ Handled(i, 4)' = 0
          \/ /\ pass = 4 /\ Handled(i, 1)' = Len(src[m].classes) /\ Handled(i, 2)' = Len(src[m].functions)
             /\ Handled(i, 3)' = Len(src[m].classes) /\ Handled(i, 4)' = next
      BY <1>2, <3>1, <3>2
    <3> QED BY <1>3, <2>1, <3>3
  <2>2. CASE i # m
    <3>1. \A p \in 1..4 : Handled(i, p)' = Handled(i, p)
      BY <1>1, <1>4, <2>2 DEF Handled
    <3>2. Compiled(modules[i], src[i], i, Handled(i, 1), Handled(i, 2), Handled(i, 3), Handled(i, 4))
      BY DEF Inv
    <3>3. Handled(i, 1)' = Handled(i, 1) /\ Handled(i, 2)' = Handled(i, 2)
          /\ Handled(i, 3)' = Handled(i, 3) /\ Handled(i, 4)' = Handled(i, 4)
      BY <3>1
    <3> QED BY <1>3, <2>2, <3>2, <3>3
  <2> QED BY <2>1, <2>2
<1>8. \A i \in DOMAIN src' :
        Compiled(modules'[i], src'[i], i, Handled(i, 1)', Handled(i, 2)', Handled(i, 3)', Handled(i, 4)')
  BY <1>1, <1>7
<1> QED BY <1>1, <1>6, <1>8 DEF Inv

(* A panic leaves the IR as it is. *)
LEMMA PanicKeeps ==
  ASSUME SoundPrograms, Inv, outcome = "compiling", CompilePanic, ~Compilable(src[m])
  PROVE  Inv'
<1>1. src' = src /\ modules' = modules /\ m' = m /\ pass' = pass /\ next' = next /\ outcome' = "panic"
  BY DEF CompilePanic
<1>2. \A i, p : Handled(i, p)' = Handled(i, p)
  BY <1>1 DEF Handled, Total
<1>3. Placed'
  BY <1>1 DEF Inv, Placed, Total
<1>4. \A i \in DOMAIN src' :
        Compiled(modules'[i], src'[i], i, Handled(i, 1)', Handled(i, 2)', Handled(i, 3)', Handled(i, 4)')
  BY <1>1, <1>2 DEF Inv
<1> QED BY <1>1, <1>3, <1>4 DEF Inv

(* The end of a pass, of a module, of the program: nothing more or less is handled. *)
LEMMA AdvanceKeeps ==
  ASSUME SoundPrograms, Inv, Advance
  PROVE  Inv'
<1>1. outcome = "compiling" /\ next > Len(Items(pass)) /\ next' = 1 /\ src' = src /\ modules' = modules
  BY DEF Advance
<1>2. /\ Len(src) \in Nat /\ DOMAIN src = 1..Len(src) /\ m \in 1..Len(src) /\ pass \in 1..4 /\ next \in Nat \ {0}
      /\ \A i \in DOMAIN src, p \in 1..4 : Total(i, p) \in Nat
  BY SourceIs DEF Inv, Placed
<1>10. Len(src) \in Nat /\ m \in 1..Len(src) /\ pass \in 1..4
  BY <1>2
<1>3. next - 1 = Total(m, pass)
  <2>1. next > Total(m, pass) /\ next <= Total(m, pass) + 1 /\ Total(m, pass) \in Nat
    BY <1>1, <1>2, ItemsAre DEF Inv, Placed
  <2> QED BY <1>2, <2>1
<1>4. \/ pass < 4 /\ pass' = pass + 1 /\ m' = m /\ outcome' = outcome
      \/ pass = 4 /\ m < Len(src) /\ pass' = 1 /\ m' = m + 1 /\ outcome' = outcome
      \/ pass = 4 /\ m = Len(src) /\ outcome' = "ok" /\ pass' = pass /\ m' = m
  <2>1. Len(Passes) = 4
    BY DEF Passes
  <2>2. IF pass < 4 THEN pass' = pass + 1 /\ m' = m /\ outcome' = outcome
        ELSE IF m < Len(src) THEN pass' = 1 /\ m' = m + 1 /\ outcome' = outcome
        ELSE outcome' = "ok" /\ pass' = pass /\ m' = m
    BY <2>1 DEF Advance
  <2>3. (pass < 4 \/ pass = 4) /\ (m < Len(src) \/ m = Len(src)) /\ ~(pass = 4 /\ pass < 4)
        /\ ~(m = Len(src) /\ m < Len(src))
    BY <1>10
  <2> QED BY <2>2, <2>3
<1>5. \A i, p : Total(i, p)' = Total(i, p)
  BY <1>1 DEF Total
<1>6. ASSUME NEW i \in DOMAIN src, NEW p \in 1..4 PROVE Handled(i, p)' = Handled(i, p)
  <2>1. i \in Int /\ i <= Len(src)
    BY <1>2
  <2>2. (i = m /\ pass = p) => next - 1 = Total(i, p)
    BY <1>3
  <2>3. CASE pass < 4 /\ pass' = pass + 1 /\ m' = m /\ outcome' = outcome
    BY <1>1, <1>5, <1>10, <2>1, <2>2, <2>3 DEF Handled
  <2>4. CASE pass = 4 /\ m < Len(src) /\ pass' = 1 /\ m' = m + 1 /\ outcome' = outcome
    BY <1>1, <1>5, <1>10, <2>1, <2>2, <2>4 DEF Handled
  <2>5. CASE pass = 4 /\ m = Len(src) /\ outcome' = "ok" /\ pass' = pass /\ m' = m
    BY <1>1, <1>5, <1>10, <2>1, <2>2, <2>5 DEF Handled
  <2> QED BY <1>4, <2>3, <2>4, <2>5
<1>7. Placed'
  <2>1. m' \in 1..Len(src) /\ pass' \in 1..4
    BY <1>4, <1>10
  <2>2. Total(m', pass') \in Nat
    BY <1>2, <2>1
  <2>3. Total(m, pass)' = Total(m', pass')
    BY <1>1 DEF Total
  <2>4. next' <= Total(m, pass)' + 1
    BY <1>1, <2>2, <2>3
  <2>5. outcome' \in {"compiling", "ok", "panic"}
    BY <1>1, <1>4
  <2> QED BY <1>1, <2>1, <2>4, <2>5 DEF Inv, Placed
<1>8. \A i \in DOMAIN src' :
        Compiled(modules'[i], src'[i], i, Handled(i, 1)', Handled(i, 2)', Handled(i, 3)', Handled(i, 4)')
  <2>1. ASSUME NEW i \in DOMAIN src
        PROVE  Compiled(modules[i], src[i], i, Handled(i, 1)', Handled(i, 2)', Handled(i, 3)', Handled(i, 4)')
    <3>1. Handled(i, 1)' = Handled(i, 1) /\ Handled(i, 2)' = Handled(i, 2)
          /\ Handled(i, 3)' = Handled(i, 3) /\ Handled(i, 4)' = Handled(i, 4)
      BY <1>6
    <3> QED BY <3>1 DEF Inv
  <2> QED BY <1>1, <2>1
<1>9. outcome' # "panic"
  BY <1>1, <1>4
<1> QED BY <1>7, <1>8, <1>9 DEF Inv

-----------------------------------------------------------------------------
(* The actions. *)

(* declare_classes: a name that is taken makes the module one that is not compilable. *)
LEMMA declare_classesKeeps ==
  ASSUME SoundPrograms, Inv, declare_classes
  PROVE  Inv'
<1> DEFINE S == src[m]
           M == modules[m]
           c == next - 1
           N == [M EXCEPT !.reserved_names = @ \cup {S.classes[next].name},
                          !.classes = Append(@, [name |-> S.classes[next].name, content |-> <<>>, ast |-> S.classes[next]])]
<1>1. /\ outcome = "compiling" /\ pass = 1 /\ next <= Len(Items(pass))
      /\ IF S.classes[next].name \in M.reserved_names THEN CompilePanic ELSE Step(N)
  BY DEF declare_classes, At, try_reserve_name
<1>2. next <= Total(m, pass) /\ Total(m, pass) = Len(S.classes)
  BY <1>1, ItemsAre DEF Total
<1>3. /\ SoundModule(S) /\ Len(S.classes) \in Nat /\ Len(S.functions) \in Nat
      /\ Compiled(M, S, m, c, 0, 0, 0)
  BY <1>1, Current
<1>4. c \in Nat /\ c + 1 = next /\ next \in 1..Len(S.classes)
  BY <1>2, <1>3, SMTT(30) DEF Inv, Placed
<1>5. CASE S.classes[next].name \notin M.reserved_names
  <2>1. N = [M EXCEPT !.reserved_names = @ \cup {S.classes[c + 1].name},
                      !.classes = Append(@, [name |-> S.classes[c + 1].name, content |-> <<>>,
                                             ast |-> S.classes[c + 1]])]
    BY <1>4
  <2>2. S.classes[c + 1].name \notin M.reserved_names
    BY <1>4, <1>5
  <2> HIDE DEF N, S, M, c
  <2>3. Compiled(N, S, m, c + 1, 0, 0, 0)
    BY <1>3, <1>4, <2>1, <2>2, ClassDeclared
  <2>4. Compiled(N, S, m, next, 0, 0, 0)
    BY <1>4, <2>3
  <2>5. Step(N)
    BY <1>1, <1>5
  <2> QED BY <1>1, <1>2, <2>4, <2>5, StepKeeps DEF S
<1>6. CASE S.classes[next].name \in M.reserved_names
  <2>1. NamesAre(M, S, c, 0)
    BY <1>3 DEF Compiled
  <2> HIDE DEF S, M, c
  <2>2. PICK k \in 1..c : S.classes[k].name = S.classes[next].name
    BY <1>6, <2>1, OneMore DEF NamesAre
  <2>3. k \in 1..Len(S.classes) /\ k # next
    BY <1>3, <1>4
  <2>4. ~NamesApart(S, Len(S.classes), Len(S.functions))
    BY <1>4, <2>2, <2>3 DEF NamesApart
  <2>5. ~Compilable(S)
    BY <1>3, <2>4, CompilableIs
  <2> QED BY <1>1, <1>6, <2>5, PanicKeeps DEF S
<1> QED BY <1>5, <1>6

(* generate_classes: the borrowed module yields builtin types only. *)
LEMMA generate_classesKeeps ==
  ASSUME SoundPrograms, Inv, generate_classes
  PROVE  Inv'
<1> DEFINE S == src[m]
           M == modules[m]
           T == Len(S.classes)
           U == Len(S.functions)
           g == next - 1
           C == S.classes[next]
<1>1. outcome = "compiling" /\ pass = 3 /\ next <= Len(Items(pass))
  BY DEF generate_classes, At
<1>2. next <= Total(m, pass) /\ Total(m, pass) = T
  BY <1>1, ItemsAre DEF Total
<1>3. SoundModule(S) /\ T \in Nat /\ U \in Nat /\ Compiled(M, S, m, T, U, g, 0)
  BY <1>1, Current
<1>4. g \in Nat /\ g + 1 = next /\ next \in 1..T /\ g < T
  BY <1>2, <1>3, SMTT(30) DEF Inv, Placed
<1>5. M.classes[next].ast = C
  <2>1. ClassesAre(M.classes, S, T)
    BY <1>3 DEF Compiled
  <2> QED BY <1>4, <2>1 DEF ClassesAre
<1>6. \A name : resolves(name) <=> name \in DOMAIN Builtin
  BY <1>1 DEF resolves, Borrowed
<1>7. IsSeq(C.methods) /\ IsSeq(C.functions)
  <2>1. C \in ToSet(S.classes)
    BY <1>3, <1>4, SeqIs DEF SoundModule
  <2> QED BY <1>3, <2>1 DEF SoundModule
<1>8. C.methods \o C.functions = <<>> <=> C.methods = <<>> /\ C.functions = <<>>
  <2> DEFINE V == ToSet(C.methods) \cup ToSet(C.functions)
  <2>1. C.methods \in Seq(V) /\ C.functions \in Seq(V)
    BY <1>7 DEF IsSeq
  <2> HIDE DEF V, C
  <2> QED BY <2>1
<1>9. PlainClass(C) <=> ~(\/ \E i \in DOMAIN C.members : ~resolves(C.members[i].ty)
                          \/ C.methods \o C.functions # <<>>)
  <2> HIDE DEF C
  <2> QED BY <1>6, <1>8 DEF PlainClass
<1>10. IF ~PlainClass(C) THEN CompilePanic
       ELSE \E content : Step([M EXCEPT !.classes[next].content = content])
  <2> DEFINE stores == [i \in DOMAIN C.members |->
                          [name |-> C.members[i].name, index |-> i - 1, ty |-> resolve_ty(C.members[i].ty)]]
  <2>1. IF \/ \E i \in DOMAIN C.members : ~resolves(C.members[i].ty)
           \/ C.methods \o C.functions # <<>> THEN CompilePanic
        ELSE Step([M EXCEPT !.classes[next].content = FoldLeft(insert, <<>>, stores)])
    BY <1>5 DEF generate_classes
  <2> HIDE DEF C, M, stores
  <2> QED BY <1>9, <2>1
<1>11. CASE PlainClass(C)
  <2>1. PICK content : Step([M EXCEPT !.classes[next].content = content])
    BY <1>10, <1>11
  <2> DEFINE N == [M EXCEPT !.classes[next].content = content]
  <2>2. N = [M EXCEPT !.classes[g + 1].content = content] /\ PlainClass(S.classes[g + 1])
    BY <1>4, <1>11
  <2>3. Step(N)
    BY <2>1
  <2> HIDE DEF N, S, M, T, U, g, C
  <2>4. Compiled(N, S, m, T, U, g + 1, 0)
    BY <1>3, <1>4, <2>2, ClassGenerated, SMTT(30)
  <2>5. Compiled(N, S, m, T, U, next, 0)
    BY <1>4, <2>4
  <2> QED BY <1>1, <1>2, <2>3, <2>5, StepKeeps DEF S, T, U
<1>12. CASE ~PlainClass(C)
  <2>1. ~Compilable(S)
    BY <1>3, <1>4, <1>12, CompilableIs
  <2> QED BY <1>1, <1>10, <1>12, <2>1, PanicKeeps
<1> QED BY <1>11, <1>12

(* generate_functions. *)
LEMMA generate_functionsKeeps ==
  ASSUME SoundPrograms, Inv, generate_functions
  PROVE  Inv'
<1> DEFINE S == src[m]
           M == modules[m]
           T == Len(S.classes)
           U == Len(S.functions)
           b == next - 1
           F == S.functions[next]
           N == [M EXCEPT !.funcs[next].body = IF F.body = "none" THEN @ ELSE F.body]
<1>1. outcome = "compiling" /\ pass = 4 /\ next <= Len(Items(pass))
  BY DEF generate_functions, At
<1>2. next <= Total(m, pass) /\ Total(m, pass) = U
  BY <1>1, ItemsAre DEF Total
<1>3. SoundModule(S) /\ T \in Nat /\ U \in Nat /\ Compiled(M, S, m, T, U, T, b)
  BY <1>1, Current
<1>4. b \in Nat /\ b + 1 = next /\ next \in 1..U /\ b < U
  BY <1>2, <1>3, SMTT(30) DEF Inv, Placed
<1>5. M.funcs[next].ast = F
  <2>1. FunctionsAre(M.funcs, S, U, b)
    BY <1>3 DEF Compiled
  <2> QED BY <1>4, <2>1 DEF FunctionsAre
<1>6. IF F.body = "panics" THEN CompilePanic ELSE Step(N)
  BY <1>5 DEF generate_functions
<1>7. CASE F.body # "panics"
  <2>1. /\ N = [M EXCEPT !.funcs[b + 1].body = IF S.functions[b + 1].body = "none" THEN @
                                               ELSE S.functions[b + 1].body]
        /\ S.functions[b + 1].body # "panics"
    BY <1>4, <1>7
  <2>2. Step(N)
    BY <1>6, <1>7
  <2> HIDE DEF N, S, M, T, U, b, F
  <2>3. Compiled(N, S, m, T, U, T, b + 1)
    BY <1>3, <1>4, <2>1, FunctionGenerated
  <2>4. Compiled(N, S, m, T, U, T, next)
    BY <1>4, <2>3
  <2> QED BY <1>1, <1>2, <2>2, <2>4, StepKeeps DEF S, T, U
<1>8. CASE F.body = "panics"
  <2>1. ~Compilable(S)
    BY <1>3, <1>4, <1>8, CompilableIs
  <2> QED BY <1>1, <1>6, <1>8, <2>1, PanicKeeps
<1> QED BY <1>7, <1>8

(* The types of a signature are those of the parameters and of the result. *)
LEMMA SignatureIs ==
  ASSUME NEW F, IsSeq(F.params), IsSeq(F.ret)
  PROVE  ToSet(Signature(F)) = ToSet(F.params) \cup ToSet(F.ret)
<1> DEFINE V == ToSet(F.params) \cup ToSet(F.ret)
           a == F.params
           b == F.ret
           s == Signature(F)
<1>1. a \in Seq(V) /\ b \in Seq(V)
  BY DEF IsSeq
<1>2. s = a \o b
  BY DEF Signature
<1>3. ToSet(a) \cup ToSet(b) = V
  OBVIOUS
<1> HIDE DEF V, a, b, s
<1>4. /\ DOMAIN a = 1..Len(a) /\ DOMAIN b = 1..Len(b) /\ DOMAIN s = 1..(Len(a) + Len(b))
      /\ Len(a) \in Nat /\ Len(b) \in Nat
      /\ \A i \in 1..Len(a) : s[i] = a[i]
      /\ \A j \in 1..Len(b) : s[Len(a) + j] = b[j]
  BY <1>1, <1>2
<1>5. ASSUME NEW t \in ToSet(s) PROVE t \in ToSet(a) \cup ToSet(b)
  <2>1. PICK x \in 1..(Len(a) + Len(b)) : t = s[x]
    BY <1>4 DEF ToSet
  <2>2. CASE x \in 1..Len(a)
    BY <1>4, <2>1, <2>2 DEF ToSet
  <2>3. CASE x \notin 1..Len(a)
    <3>1. x - Len(a) \in 1..Len(b) /\ x = Len(a) + (x - Len(a))
      BY <1>4, <2>3
    <3>2. t = b[x - Len(a)]
      BY <1>4, <2>1, <3>1
    <3> QED BY <1>4, <3>1, <3>2 DEF ToSet
  <2> QED BY <2>2, <2>3
<1>6. ASSUME NEW t \in ToSet(a) PROVE t \in ToSet(s)
  <2>1. PICK i \in 1..Len(a) : t = a[i]
    BY <1>4 DEF ToSet
  <2>2. i \in 1..(Len(a) + Len(b)) /\ t = s[i]
    BY <1>4, <2>1
  <2> QED BY <1>4, <2>2 DEF ToSet
<1>7. ASSUME NEW t \in ToSet(b) PROVE t \in ToSet(s)
  <2>1. PICK j \in 1..Len(b) : t = b[j]
    BY <1>4 DEF ToSet
  <2>2. Len(a) + j \in 1..(Len(a) + Len(b)) /\ t = s[Len(a) + j]
    BY <1>4, <2>1
  <2> QED BY <1>4, <2>2 DEF ToSet
<1>8. ToSet(s) = ToSet(a) \cup ToSet(b)
  BY <1>5, <1>6, <1>7
<1> QED BY <1>8 DEF a, b, s

(* Once the classes are declared, a name resolves exactly if the module knows it, and to
   what it means. *)
LEMMA Resolution ==
  ASSUME SoundPrograms, Inv, outcome = "compiling", pass = 2, NEW name
  PROVE  /\ resolves(name) <=> name \in KnownTypes(src[m])
         /\ resolves(name) => MeansIn(modules[m], resolve_ty(name), name, m)
<1> DEFINE S == src[m]
           M == modules[m]
           T == Len(S.classes)
<1>1. SoundModule(S) /\ T \in Nat /\ ClassesAre(M.classes, S, T)
  BY Current DEF Compiled
<1>2. DOMAIN S.classes = 1..T
  BY <1>1, SeqIs DEF SoundModule
<1>3. DOMAIN M.classes = 1..T
  BY <1>1 DEF ClassesAre
<1>4. \A k \in 1..T : M.classes[k].name = S.classes[k].name
  <2> HIDE DEF S, M, T
  <2>1. ASSUME NEW k \in 1..T PROVE M.classes[k].name = S.classes[k].name
    <3> DEFINE t == M.classes[k].content
    <3>1. M.classes[k] = [name |-> S.classes[k].name, content |-> t, ast |-> S.classes[k]]
      BY <1>1 DEF ClassesAre
    <3> HIDE DEF t
    <3>2. \A C, n, a, t1 : C = [name |-> n, content |-> t1, ast |-> a] => C.name = n
      OBVIOUS
    <3> QED BY <3>1, <3>2
  <2> QED BY <2>1
<1>5. ClassesOf(name) = {k \in 1..T : S.classes[k].name = name}
  BY <1>3, <1>4 DEF ClassesOf
<1>6. resolves(name) <=> name \in DOMAIN Builtin \/ ClassesOf(name) # {}
  BY DEF resolves, Borrowed
<1>7. name \in KnownTypes(S) <=> name \in DOMAIN Builtin \/ \E k \in 1..T : S.classes[k].name = name
  BY <1>2 DEF KnownTypes
<1>8. ASSUME resolves(name) PROVE MeansIn(M, resolve_ty(name), name, m)
  <2>1. CASE name \in DOMAIN Builtin
    <3>1. resolve_ty(name) = <<Builtin[name]>>
      BY <2>1 DEF resolve_ty
    <3> QED BY <2>1, <3>1 DEF MeansIn
  <2>2. CASE name \notin DOMAIN Builtin
    <3> DEFINE k == CHOOSE i \in ClassesOf(name) : \A j \in ClassesOf(name) : i <= j
    <3>1. ClassesOf(name) # {} /\ ClassesOf(name) \subseteq Nat
      BY <1>1, <1>5, <1>6, <1>8, <2>2
    <3>2. k \in ClassesOf(name)
      <4> DEFINE K == ClassesOf(name)
      <4> HIDE DEF K
      <4>1. (CHOOSE i \in K : \A j \in K : i <= j) \in K
        BY <3>1, LeastIn DEF K
      <4> QED BY <4>1 DEF K
    <3>3. resolve_ty(name) = <<"Class", m, k>>
      BY <2>2 DEF resolve_ty
    <3>4. k \in DOMAIN M.classes /\ M.classes[k].name = name
      BY <3>2 DEF ClassesOf
    <3> HIDE DEF k
    <3>5. Head(<<"Class", m, k>>) = "Class" /\ <<"Class", m, k>>[2] = m /\ <<"Class", m, k>>[3] = k
      OBVIOUS
    <3> QED BY <3>3, <3>4, <3>5 DEF MeansIn
  <2> QED BY <2>1, <2>2
<1> QED BY <1>5, <1>6, <1>7, <1>8

(* declare_functions. *)
LEMMA declare_functionsKeeps ==
  ASSUME SoundPrograms, Inv, declare_functions
  PROVE  Inv'
<1> DEFINE S == src[m]
           M == modules[m]
           T == Len(S.classes)
           U == Len(S.functions)
           f == next - 1
           F == S.functions[next]
           D == Declared(F)
           N == [M EXCEPT !.reserved_names = @ \cup {F.name}, !.funcs = Append(@, D)]
<1>1. outcome = "compiling" /\ pass = 2 /\ next <= Len(Items(pass))
  BY DEF declare_functions, At
<1>2. next <= Total(m, pass) /\ Total(m, pass) = U
  BY <1>1, ItemsAre DEF Total
<1>3. SoundModule(S) /\ T \in Nat /\ U \in Nat /\ Compiled(M, S, m, T, f, 0, 0)
  BY <1>1, Current
<1>4. f \in Nat /\ f + 1 = next /\ next \in 1..U
  BY <1>2, <1>3 DEF Inv, Placed
<1>5. IsSeq(F.params) /\ IsSeq(F.ret)
  <2>1. F \in ToSet(S.functions)
    BY <1>3, <1>4, SeqIs DEF SoundModule
  <2> QED BY <1>3, <2>1 DEF SoundModule
<1>6. \A name : /\ resolves(name) <=> name \in KnownTypes(S)
                /\ resolves(name) => MeansIn(M, resolve_ty(name), name, m)
  BY <1>1, Resolution
<1>7. (\E i \in DOMAIN Signature(F) : ~resolves(Signature(F)[i])) <=> ~KnownSignature(S, F)
  <2> HIDE DEF F, S
  <2> QED BY <1>6 DEF KnownSignature, ToSet
<1>8. IF F.name \in M.reserved_names \/ ~KnownSignature(S, F) THEN CompilePanic ELSE Step(N)
  <2>1. IF F.name \in M.reserved_names \/ \E i \in DOMAIN Signature(F) : ~resolves(Signature(F)[i]) THEN CompilePanic
        ELSE Step(N)
    BY DEF declare_functions, try_reserve_name
  <2> HIDE DEF F, M, S, N
  <2> QED BY <1>7, <2>1
<1>9. CASE F.name \notin M.reserved_names /\ KnownSignature(S, F)
  <2>1. \A t \in ToSet(F.params) \cup ToSet(F.ret) : MeansIn(M, resolve_ty(t), t, m)
    <3>1. ToSet(F.params) \cup ToSet(F.ret) \subseteq KnownTypes(S)
      BY <1>5, <1>9, SignatureIs DEF KnownSignature
    <3> HIDE DEF F, M, S
    <3> QED BY <1>6, <3>1
  <2>2. D = [name |-> F.name, params |-> D.params, ret |-> D.ret, body |-> "poison", ast |-> F]
    <3> HIDE DEF F
    <3> QED BY DEF Declared
  <2>3. Sense(M, D, F, m)
    <3> HIDE DEF F, M
    <3>1. /\ D.params = [i \in DOMAIN F.params |-> resolve_ty(F.params[i])]
          /\ D.ret = IF F.ret = <<>> THEN <<"Void">> ELSE resolve_ty(F.ret[1])
      BY DEF Declared
    <3> HIDE DEF D
    <3>2. /\ DOMAIN D.params = DOMAIN F.params
          /\ \A p \in DOMAIN F.params : D.params[p] = resolve_ty(F.params[p])
      BY <3>1
    <3>3. \A p \in DOMAIN F.params : F.params[p] \in ToSet(F.params)
      BY DEF ToSet
    <3>4. ASSUME D.ret # <<"Void">> PROVE MeansIn(M, D.ret, F.ret[1], m)
      <4>1. F.ret # <<>> /\ D.ret = resolve_ty(F.ret[1])
        BY <3>1, <3>4
      <4>2. F.ret[1] \in ToSet(F.ret)
        <5>1. Len(F.ret) # 0
          BY <1>5, <4>1 DEF IsSeq
        <5>2. 1 \in 1..Len(F.ret)
          BY <1>5, <5>1, SeqIs
        <5> QED BY <1>5, <5>2, SeqIs
      <4> QED BY <2>1, <4>1, <4>2
    <3>5. \A p \in DOMAIN F.params : MeansIn(M, D.params[p], F.params[p], m)
      BY <2>1, <3>2, <3>3
    <3> QED BY <3>2, <3>4, <3>5 DEF Sense
  <2>4. Step(N)
    BY <1>8, <1>9
  <2>5. F = S.functions[f + 1]
    BY <1>4
  <2>6. N = [M EXCEPT !.reserved_names = @ \cup {S.functions[f + 1].name}, !.funcs = Append(@, D)]
    BY <1>4
  <2> HIDE DEF F, M, S, N, D, T, U, f
  <2>7. Compiled(N, S, m, T, f + 1, 0, 0)
    <3>1. S.functions[f + 1].name \notin M.reserved_names /\ KnownSignature(S, S.functions[f + 1])
      BY <1>9, <2>5
    <3>2. D = [name |-> S.functions[f + 1].name, params |-> D.params, ret |-> D.ret,
               body |-> "poison", ast |-> S.functions[f + 1]]
      BY <2>2, <2>5
    <3>3. Sense(M, D, S.functions[f + 1], m)
      BY <2>3, <2>5
    <3> QED BY <1>3, <1>4, <2>6, <3>1, <3>2, <3>3, FunctionDeclared
  <2>8. Compiled(N, S, m, T, next, 0, 0)
    BY <1>4, <2>7
  <2> QED BY <1>1, <1>2, <2>4, <2>8, StepKeeps DEF S, T
<1>10. CASE F.name \in M.reserved_names
  <2>1. NamesAre(M, S, T, f)
    BY <1>3 DEF Compiled
  <2> HIDE DEF S, M, T, f
  <2>2. (\E k \in 1..T : S.classes[k].name = F.name) \/ \E k \in 1..f : S.functions[k].name = F.name
    BY <1>10, <2>1 DEF NamesAre
  <2>3. \A k \in 1..f : k \in 1..U /\ k # next
    BY <1>3, <1>4
  <2>4. ~NamesApart(S, T, U)
    BY <1>4, <2>2, <2>3 DEF NamesApart
  <2>5. ~Compilable(S)
    BY <1>3, <2>4, CompilableIs DEF T
  <2> QED BY <1>1, <1>8, <1>10, <2>5, PanicKeeps DEF S, M
<1>11. CASE ~KnownSignature(S, F)
  <2>1. ~Compilable(S)
    BY <1>3, <1>4, <1>11, CompilableIs
  <2> QED BY <1>1, <1>8, <1>11, <2>1, PanicKeeps
<1> QED BY <1>9, <1>10, <1>11

-----------------------------------------------------------------------------
(* Before the first pass, every module is empty. *)
LEMMA InitInv ==
  ASSUME SoundPrograms, CompileInit
  PROVE  Inv
<1>1. /\ src \in Programs /\ m = 1 /\ pass = 1 /\ next = 1 /\ outcome = "compiling"
      /\ modules = [i \in DOMAIN src |-> [classes |-> <<>>, funcs |-> <<>>, reserved_names |-> {}]]
  BY DEF CompileInit
<1>2. /\ Len(src) \in Nat /\ Len(src) > 0 /\ DOMAIN src = 1..Len(src)
      /\ \A i \in DOMAIN src, p \in 1..4 : Total(i, p) \in Nat
  BY <1>1, SourceIs
<1>3. Placed
  <2>1. Total(m, pass) \in Nat
    BY <1>1, <1>2
  <2> QED BY <1>1, <1>2, <2>1 DEF Placed
<1>4. ASSUME NEW i \in DOMAIN src
      PROVE  Compiled(modules[i], src[i], i, Handled(i, 1), Handled(i, 2), Handled(i, 3), Handled(i, 4))
  <2>1. \A p \in 1..4 : Handled(i, p) = 0
    BY <1>1, <1>2 DEF Handled
  <2>2. Handled(i, 1) = 0 /\ Handled(i, 2) = 0 /\ Handled(i, 3) = 0 /\ Handled(i, 4) = 0
    BY <2>1
  <2>3. modules[i] = [classes |-> <<>>, funcs |-> <<>>, reserved_names |-> {}]
    BY <1>1
  <2> DEFINE M == modules[i]
             S == src[i]
  <2>4. IsModule(M) /\ M.classes = <<>> /\ M.funcs = <<>> /\ M.reserved_names = {}
    BY <2>3 DEF IsModule
  <2> HIDE DEF M, S
  <2>5. 1..0 = {}
    OBVIOUS
  <2>6. ClassesAre(M.classes, S, 0)
    BY <2>4, <2>5 DEF ClassesAre
  <2>7. FunctionsAre(M.funcs, S, 0, 0)
    BY <2>4, <2>5 DEF FunctionsAre
  <2>8. NamesAre(M, S, 0, 0) /\ NamesApart(S, 0, 0)
    BY <2>4, <2>5 DEF NamesAre, NamesApart
  <2>9. Compiled(M, S, i, 0, 0, 0, 0)
    BY <2>4, <2>5, <2>6, <2>7, <2>8 DEF Compiled
  <2> QED BY <2>2, <2>9 DEF M, S
<1> QED BY <1>1, <1>3, <1>4 DEF Inv

(* All passes together. *)
LEMMA NextKeeps ==
  ASSUME SoundPrograms, Inv, [CompileNext]_compileVars
  PROVE  Inv'
<1>1. CASE UNCHANGED compileVars
  <2>1. src' = src /\ modules' = modules /\ m' = m /\ pass' = pass /\ next' = next /\ outcome' = outcome
    BY <1>1 DEF compileVars
  <2>2. \A i, p : Handled(i, p)' = Handled(i, p)
    BY <2>1 DEF Handled, Total
  <2>3. Placed'
    BY <2>1 DEF Inv, Placed, Total
  <2>4. \A i \in DOMAIN src' :
          Compiled(modules'[i], src'[i], i, Handled(i, 1)', Handled(i, 2)', Handled(i, 3)', Handled(i, 4)')
    BY <2>1, <2>2 DEF Inv
  <2> QED BY <2>1, <2>3, <2>4 DEF Inv
<1>2. CASE declare_classes
  BY <1>2, declare_classesKeeps
<1>3. CASE declare_functions
  BY <1>3, declare_functionsKeeps
<1>4. CASE generate_classes
  BY <1>4, generate_classesKeeps
<1>5. CASE generate_functions
  BY <1>5, generate_functionsKeeps
<1>6. CASE Advance
  BY <1>6, AdvanceKeeps
<1>7. CASE CompileStopped
  BY <1>1, <1>7 DEF CompileStopped
<1> QED BY <1>1, <1>2, <1>3, <1>4, <1>5, <1>6, <1>7 DEF CompileNext

(* The invariant holds for every program. *)
LEMMA Invariance ==
  ASSUME SoundPrograms
  PROVE  CompileSpec => []Inv
BY InitInv, NextKeeps, PTL DEF CompileSpec

(* The functions of the IR, one by one. *)
LEMMA FunctionIs ==
  ASSUME NEW fs, NEW S, NEW n, NEW b, FunctionsAre(fs, S, n, b), NEW k \in 1..n
  PROVE  fs[k].ast = S.functions[k] /\ fs[k].body = BodyOf(S.functions[k], k <= b)
<1> DEFINE p == fs[k].params
           r == fs[k].ret
           B == BodyOf(S.functions[k], k <= b)
<1>1. fs[k] = [name |-> S.functions[k].name, params |-> p, ret |-> r, body |-> B, ast |-> S.functions[k]]
  BY DEF FunctionsAre
<1> HIDE DEF p, r, B
<1>2. \A g, n1, p1, r1, b1, a1 : g = [name |-> n1, params |-> p1, ret |-> r1, body |-> b1, ast |-> a1]
        => g.ast = a1 /\ g.body = b1
  OBVIOUS
<1>3. fs[k].ast = S.functions[k] /\ fs[k].body = B
  BY <1>1, <1>2
<1> QED BY <1>3 DEF B

(* A type written in a signature is, in the IR, the builtin type or the class of the same
   module that has this name, whatever was compiled since: resolve_ty hands out indices
   into a vector that later passes extend and rewrite. *)
THEOREM SignaturesMeanWhatTheySay ==
  ASSUME SoundPrograms
  PROVE  CompileSpec => []TypesMeanNames
<1>1. Inv => TypesMeanNames
  <2> SUFFICES ASSUME Inv, NEW i \in DOMAIN modules, NEW f \in ToSet(modules[i].funcs)
               PROVE  /\ \A p \in DOMAIN f.params : Means(f.params[p], f.ast.params[p], i)
                      /\ f.ret # <<"Void">> => Means(f.ret, f.ast.ret[1], i)
    BY DEF TypesMeanNames
  <2>1. i \in DOMAIN src
    BY DEF Inv, Placed
  <2>2. Compiled(modules[i], src[i], i, Handled(i, 1), Handled(i, 2), Handled(i, 3), Handled(i, 4))
    BY <2>1 DEF Inv
  <2>3. FunctionsAre(modules[i].funcs, src[i], Handled(i, 2), Handled(i, 4))
    BY <2>2 DEF Compiled
  <2>4. DOMAIN modules[i].funcs = 1..Handled(i, 2)
    BY <2>3 DEF FunctionsAre
  <2>5. PICK k \in 1..Handled(i, 2) : f = modules[i].funcs[k]
    BY <2>4 DEF ToSet
  <2>6. f.ast = src[i].functions[k]
    BY <2>3, <2>5, FunctionIs
  <2>7. Sense(modules[i], f, f.ast, i)
    BY <2>2, <2>5, <2>6 DEF Compiled
  <2>8. \A ty, name : MeansIn(modules[i], ty, name, i) => Means(ty, name, i)
    BY DEF MeansIn, Means
  <2> QED BY <2>7, <2>8 DEF Sense
<1> QED BY <1>1, Invariance, PTL

(* The compiler accepts a program exactly if every module uses each name once, types it
   knows, members of builtin types, no methods and no static functions; and then the IR
   holds every class and function of the source, in order, with its body. *)
THEOREM AcceptsExactlyTheCompilable ==
  ASSUME SoundPrograms
  PROVE  CompileSpec => []CompilesExactly
<1>1. Inv => CompilesExactly
  <2> SUFFICES ASSUME Inv PROVE CompilesExactly
    OBVIOUS
  <2>0. src \in Programs /\ m \in 1..Len(src)
    BY DEF Inv, Placed
  <2>1. DOMAIN src = 1..Len(src) /\ \A i \in DOMAIN src : SoundModule(src[i])
    BY <2>0, SourceIs
  <2>2. outcome = "panic" => \E i \in DOMAIN src : ~Compilable(src[i])
    BY <2>0, <2>1 DEF Inv
  <2>3. ASSUME outcome = "ok", NEW i \in DOMAIN src
        PROVE  /\ Compilable(src[i])
               /\ [k \in DOMAIN modules[i].funcs |-> modules[i].funcs[k].ast] = src[i].functions
               /\ [k \in DOMAIN modules[i].classes |-> modules[i].classes[k].ast] = src[i].classes
               /\ \A f \in ToSet(modules[i].funcs) : f.body = IF f.ast.body = "none" THEN "poison" ELSE f.ast.body
    <3> DEFINE S == src[i]
               M == modules[i]
               T == Len(S.classes)
               U == Len(S.functions)
    <3>1. Handled(i, 1) = T /\ Handled(i, 2) = U /\ Handled(i, 3) = T /\ Handled(i, 4) = U
      BY <2>3 DEF Handled, Total
    <3>2. Compiled(M, S, i, T, U, T, U)
      <4>1. Compiled(M, S, i, Handled(i, 1), Handled(i, 2), Handled(i, 3), Handled(i, 4))
        BY DEF Inv
      <4> QED BY <3>1, <4>1
    <3>3. SoundModule(S) /\ IsSeq(S.classes) /\ IsSeq(S.functions)
      BY <2>1 DEF SoundModule
    <3> HIDE DEF S, M
    <3>4. /\ T \in Nat /\ S.classes = [k \in 1..T |-> S.classes[k]]
          /\ U \in Nat /\ S.functions = [k \in 1..U |-> S.functions[k]]
      BY <3>3, SeqIs, SMTT(30)
    <3>5. Compilable(S)
      BY <3>2, <3>3, CompilableIs DEF Compiled
    <3> HIDE DEF T, U
    <3>6. ClassesAre(M.classes, S, T) /\ FunctionsAre(M.funcs, S, U, U)
      BY <3>2 DEF Compiled
    <3>7. DOMAIN M.classes = 1..T /\ DOMAIN M.funcs = 1..U
      BY <3>6 DEF ClassesAre, FunctionsAre
    <3>8. \A k \in 1..U : M.funcs[k].ast = S.functions[k] /\ M.funcs[k].body = BodyOf(S.functions[k], k <= U)
      BY <3>6, FunctionIs
    <3>9. \A k \in 1..T : M.classes[k].ast = S.classes[k]
      <4>1. ASSUME NEW k \in 1..T PROVE M.classes[k].ast = S.classes[k]
        <5> DEFINE t == M.classes[k].content
        <5>1. M.classes[k] = [name |-> S.classes[k].name, content |-> t, ast |-> S.classes[k]]
          BY <3>6 DEF ClassesAre
        <5> HIDE DEF t
        <5>2. \A C, n, a, t1 : C = [name |-> n, content |-> t1, ast |-> a] => C.ast = a
          OBVIOUS
        <5> QED BY <5>1, <5>2
      <4> QED BY <4>1
    <3>10. [k \in DOMAIN M.funcs |-> M.funcs[k].ast] = S.functions
      <4>1. [k \in 1..U |-> M.funcs[k].ast] = [k \in 1..U |-> S.functions[k]]
        BY <3>8
      <4> QED BY <3>4, <3>7, <4>1
    <3>11. [k \in DOMAIN M.classes |-> M.classes[k].ast] = S.classes
      <4>1. [k \in 1..T |-> M.classes[k].ast] = [k \in 1..T |-> S.classes[k]]
        BY <3>9
      <4> QED BY <3>4, <3>7, <4>1
    <3>12. ASSUME NEW f \in ToSet(M.funcs)
           PROVE  f.body = IF f.ast.body = "none" THEN "poison" ELSE f.ast.body
      <4>1. PICK k \in 1..U : f = M.funcs[k]
        BY <3>7 DEF ToSet
      <4>2. k <= U
        BY <3>4
      <4> QED BY <3>8, <4>1, <4>2 DEF BodyOf
    <3> QED BY <3>5, <3>10, <3>11, <3>12 DEF S, M
  <2> QED BY <2>2, <2>3 DEF CompilesExactly
<1> QED BY <1>1, Invariance, PTL
=============================================================================
