---------------------------- MODULE ExprCompiler ----------------------------
(***************************************************************************)
(* From the syntax tree of a function to its IR: names resolved and types  *)
(* found (lang/src/compiler/module/expr_compiler.rs, compiler/ir/mod.rs).  *)
(* The state s of an ExprCompiler is threaded through:                     *)
(*   locals  the VarStores of the function's locals                        *)
(*   envs    environments, a stack of name -> reference to a VarStore      *)
(*   moved   how often locals has been reallocated                         *)
(*   stale   whether a reference from before that was used since           *)
(*   panic   whether expr panicked                                         *)
(*   dropped the errors found, of which the code keeps nothing             *)
(* String literals, unimplemented in every type and translation, are left  *)
(* out.                                                                    *)
(***************************************************************************)
EXTENDS Integers, Sequences, SequencesExt, FiniteSetsExt

CONSTANTS Host,          \* the other functions of the module: name -> [params, ret]
          InlineLocals   \* the locals a Function holds without a heap block

-----------------------------------------------------------------------------
(* ir/mod.rs: types, as tuples, and expressions. *)

Void == <<"Void">>
Poison == <<"Poison">>
Bool == <<"Bool">>
I64 == <<"I64">>
F64 == <<"F64">>
FnType(name) == <<"Function", name>>

is_int(ty) == ty \in {I64, Poison}
allow_math(ty) == ty \in {I64, F64, Poison}
allow_logic(ty) == ty \in {Bool, Poison}
allow_assignment(ty) == ty # Void

Comparisons == {"EqualEqual", "BangEqual", "Less", "LessEqual", "Greater", "GreaterEqual"}
is_binary_logic(op) == op \in Comparisons \cup {"And", "Or"}

Constant(ty, v) == [k |-> "const", ty |-> ty, v |-> v]
zero == Constant(I64, 0)
poison == [k |-> "poison"]
local(store) == [k |-> "local", index |-> store.index, ty |-> store.ty]
assign(store, value) == [k |-> "assign", store |-> store, value |-> value]

assignable(x) == x.k = "local"

(* get_type; the type of a call was given to it. *)
RECURSIVE typ(_)
typ(x) ==
  CASE x.k = "poison" -> Poison
    [] x.k = "binary" -> IF is_binary_logic(x.op) THEN Bool ELSE typ(x.left)
    [] x.k \in {"const", "local", "call"} -> x.ty
    [] x.k = "block" -> IF x.exprs = <<>> THEN Void ELSE typ(Last(x.exprs))
    [] x.k = "if" -> IF x.phi THEN typ(x.then) ELSE Void
    [] x.k = "while" -> Void
    [] x.k = "assign" -> typ(x.value)

if_(cond, then, els) ==
  [k |-> "if", phi |-> els # <<>> /\ typ(then) = typ(els[1]),
   cond |-> cond, then |-> then, els |-> IF els = <<>> THEN zero ELSE els[1]]

-----------------------------------------------------------------------------
(* Function::add_local.  A push onto a full SmallVec moves all of it. *)

(* InlineLocals, then powers of two. *)
full(n) == n = InlineLocals \/ (n > InlineLocals /\ \E i \in 1..n : n = 2^i)

add_local(s, name, ty) ==
  LET n == Len(s.locals)
  IN  [s EXCEPT !.locals = Append(@, [index |-> n, name |-> name, ty |-> ty]),
                !.moved = IF full(n) THEN @ + 1 ELSE @]

-----------------------------------------------------------------------------
(* expr_compiler.rs *)

(* err has no body: nothing but [dropped] is left of an error. *)
err(s, kind) == [s EXCEPT !.dropped = @ \cup {kind}]

check(s, good, kind) == IF good THEN s ELSE err(s, kind)

begin_scope(s) == [s EXCEPT !.envs = Append(@, <<>>)]
end_scope(s) == [s EXCEPT !.envs = Front(@)]

(* Mutant: the new name hides nothing of an inner scope. *)
add_to_scope_outer(s) ==
  LET store == Last(s.locals)
  IN  [s EXCEPT !.envs[1] = (store.name :> [store |-> store, taken |-> s.moved]) @@ @]

(* The reference is to where the store is now. *)
add_to_scope(s) ==
  LET store == Last(s.locals)
  IN  [s EXCEPT !.envs[Len(s.envs)] = (store.name :> [store |-> store, taken |-> s.moved]) @@ @]

(* The innermost environment with the name, 0 if there is none. *)
find_local(s, name) ==
  LET envs == {i \in DOMAIN s.envs : name \in DOMAIN s.envs[i]}
  IN  IF envs = {} THEN 0 ELSE Max(envs)

(* Parameters are in another SmallVec, which does not grow. *)
Fixed == -1

(* ExprCompiler::new: the last of two parameters with one name is found. *)
new(params) ==
  [locals |-> <<>>, moved |-> 0, stale |-> FALSE, panic |-> FALSE, dropped |-> {},
   envs |-> <<[name \in {params[i].name : i \in DOMAIN params} |->
                 LET i == Max({j \in DOMAIN params : params[j].name = name})
                 IN  [store |-> [index |-> i - 1, name |-> name, ty |-> params[i].ty], taken |-> Fixed]]>>]

Out(s, x) == [s |-> s, x |-> x]

RECURSIVE expr(_, _), exprs(_, _, _)

(* Expressions in order, after those done; a panic ends them. *)
exprs(s, es, done) ==
  IF es = <<>> THEN Out(s, done)
  ELSE LET e == expr(s, Head(es))
       IN  IF e.s.panic THEN Out(e.s, done) ELSE exprs(e.s, Tail(es), Append(done, e.x))

binary(s, e) ==
  LET l == expr(s, e.left)
      r == expr(l.s, e.right)
      lty == typ(l.x)
      whole == [k |-> "binary", left |-> l.x, op |-> e.op, right |-> r.x]
      logic == is_binary_logic(e.op)
  IN  CASE lty # typ(r.x) -> Out(err(r.s, "E500"), whole)
        [] lty = typ(r.x) /\ e.op = "Equal" -> Out(check(r.s, assignable(l.x), "E505"), assign(l.x, r.x))
        [] OTHER -> Out(check(r.s, IF logic THEN allow_logic(lty) ELSE allow_math(lty), "E501"), whole)

identifier(s, e) ==
  LET i == find_local(s, e.name)
  IN  IF i # 0
      THEN LET ref == s.envs[i][e.name]
           IN  Out([s EXCEPT !.stale = @ \/ ref.taken \notin {Fixed, s.moved}], local(ref.store))
      ELSE IF e.name \in DOMAIN Host THEN Out(s, Constant(FnType(e.name), 0))
      ELSE Out(err(s, "E503"), poison)

variable(s, e) ==
  LET v == expr(s, e.value)
      kept == add_to_scope(add_local(check(v.s, allow_assignment(typ(v.x)), "E504"), e.name, typ(v.x)))
  IN  Out(kept, assign(local(Last(kept.locals)), v.x))

call(s, e) ==
  LET callee == expr(s, e.callee)
      args == exprs(callee.s, e.args, <<>>)
  IN  IF Head(typ(callee.x)) # "Function" THEN Out(err(callee.s, "E506"), poison)
      ELSE LET func == Host[typ(callee.x)[2]]
               fits == \A i \in DOMAIN args.x \cap DOMAIN func.params : typ(args.x[i]) = func.params[i]
           IN  Out(check(check(args.s, Len(args.x) = Len(func.params), "E507"), fits, "E508"),
                   [k |-> "call", callee |-> callee.x, args |-> args.x, ty |-> func.ret])

expr(s, e) ==
  CASE e.k = "literal" -> Out(s, Constant(e.ty, e.v))
    [] e.k = "binary" -> binary(s, e)
    [] e.k = "block" -> LET es == exprs(begin_scope(s), e.exprs, <<>>)
                        IN  Out(end_scope(es.s), [k |-> "block", exprs |-> es.x])
    [] e.k = "if" -> LET c == expr(s, e.cond)
                         t == expr(check(c.s, typ(c.x) = Bool, "E502"), e.then)
                         els == exprs(t.s, e.els, <<>>)
                     IN  Out(els.s, if_(c.x, t.x, els.x))
    [] e.k = "while" -> LET c == expr(s, e.cond)
                            b == expr(check(c.s, typ(c.x) = Bool, "E502"), e.body)
                        IN  Out(b.s, [k |-> "while", cond |-> c.x, body |-> b.x])
    [] e.k = "identifier" -> identifier(s, e)
    [] e.k = "variable" -> variable(s, e)
    [] e.k = "call" -> call(s, e)
    [] e.k = "unary" -> Out([s EXCEPT !.panic = TRUE], poison)   \* "i can't compile this"
=============================================================================
