---------------------------- MODULE FnTranslator ----------------------------
(***************************************************************************)
(* One function from its IR to Cranelift IR (lang/src/vm/function/mod.rs,  *)
(* function/exprs.rs, typesys.rs).  Cranelift is external: its             *)
(* FunctionBuilder, with blocks, values and variables, and the verifier of *)
(* define_function.  The state t of a translation:                         *)
(*   blocks  each [params, code, sealed]    cur    the current block       *)
(*   types   the type of each value         vars   the type of each        *)
(*   local_offsets                                 declared variable       *)
(*   panic   the translation panicked       broken the builder was misused *)
(*   twice   a variable was declared twice  bad    the verifier will fail  *)
(***************************************************************************)
EXTENDS ExprCompiler

-----------------------------------------------------------------------------
(* typesys.rs: the Cranelift types of a type.  The index it passes on is always 0. *)

translate_type(ty) == IF ty \in {Void, Poison} THEN <<>>
                      ELSE IF Head(ty) = "Function" THEN <<I64>> ELSE <<ty>>

-----------------------------------------------------------------------------
(* FunctionBuilder, as the translator uses it. *)

Blank == [blocks |-> <<>>, cur |-> 0, types |-> <<>>, vars |-> <<>>, local_offsets |-> <<0>>,
          panic |-> FALSE, broken |-> FALSE, twice |-> FALSE, bad |-> FALSE]

Ends(code) == code # <<>> /\ Last(code).op \in {"jump", "return"}

create_block(t) == [t EXCEPT !.blocks = Append(@, [params |-> <<>>, code |-> <<>>, sealed |-> FALSE])]

switch_to_block(t, b) ==
  [t EXCEPT !.cur = b, !.broken = @ \/ (t.cur # 0 /\ ~Ends(t.blocks[t.cur].code)) \/ t.blocks[b].code # <<>>]

seal_block(t, b) == [t EXCEPT !.blocks[b].sealed = TRUE, !.broken = @ \/ t.blocks[b].sealed]

emit(t, inst) == [t EXCEPT !.blocks[t.cur].code = Append(@, inst),
                           !.broken = @ \/ Ends(t.blocks[t.cur].code)]

(* A branch makes its block a predecessor of another, which must not be sealed yet. *)
branch(t, inst) == [emit(t, inst) EXCEPT !.broken = @ \/ t.blocks[inst.to].sealed]

TypeOf(t, v) == IF v \in DOMAIN t.types THEN t.types[v] ELSE Void
TypesOf(t, vs) == [i \in DOMAIN vs |-> TypeOf(t, vs[i])]

(* An instruction with results of the given types, well typed or not. *)
ins(t, inst, tys, good) ==
  LET vs == [i \in DOMAIN tys |-> Len(t.types) + i]
  IN  [vs |-> vs, t |-> [emit(t, inst @@ [to |-> vs]) EXCEPT !.types = @ \o tys, !.bad = @ \/ ~good]]

append_block_params(t, b, tys) ==
  [t EXCEPT !.types = @ \o tys, !.blocks[b].params = @ \o [i \in DOMAIN tys |-> Len(t.types) + i]]

declare_var(t, v, ty) == [t EXCEPT !.vars = (v :> ty) @@ @, !.twice = @ \/ v \in DOMAIN t.vars]

(* def_var insists on the declared type. *)
def_var(t, v, value) ==
  [emit(t, [op |-> "def", var |-> v, arg |-> value]) EXCEPT !.panic = @ \/ t.vars[v] # TypeOf(t, value)]

use_var(t, v) == ins(t, [op |-> "use", var |-> v], <<t.vars[v]>>, TRUE)

Panic(t) == [t EXCEPT !.panic = TRUE]
Vals(vs, t) == [vs |-> vs, t |-> t]

-----------------------------------------------------------------------------
(* function/mod.rs *)

Offset(t, index) == t.local_offsets[index + 1]

declare_local(t, store) ==
  LET last_len == Offset(t, store.index)
      tys == translate_type(store.ty)
      declared == IF tys = <<>> THEN t ELSE declare_var(t, last_len, tys[1])
  IN  [declared EXCEPT !.local_offsets = Append(@, last_len + Len(tys))]

(* The slice starts at the offset, and the offset is added again. *)
define_local(t, store, params) ==
  LET offset == Offset(t, store.index)
      with == SubSeq(params, offset + 1, Len(params))
  IN  IF translate_type(store.ty) = <<>> THEN t
      ELSE IF offset + 1 > Len(with) THEN Panic(t)
      ELSE def_var(t, offset, with[offset + 1])

declare_variables(t, params, locals) ==
  LET entry == t.blocks[1].params
      param(u, store) == define_local(declare_local(u, store), store, entry)
  IN  FoldLeft(declare_local, FoldLeft(param, t, params), locals)

Flatten(tys) == FoldLeft(LAMBDA a, ty : a \o translate_type(ty), <<>>, tys)

init(params, locals) ==
  LET t == append_block_params(switch_to_block(create_block(Blank), 1), 1,
                               Flatten([i \in DOMAIN params |-> params[i].ty]))
  IN  declare_variables(seal_block(t, 1), params, locals)

-----------------------------------------------------------------------------
(* function/exprs.rs *)

RECURSIVE trans_expr(_, _), trans_all(_, _, _)

(* Expressions in order; the values are those of the last, or of all. *)
trans_all(t, es, all) ==
  LET step(r, e) == LET x == trans_expr(r.t, e) IN Vals(IF all THEN r.vs \o x.vs ELSE x.vs, x.t)
  IN  FoldLeft(step, Vals(<<>>, t), es)

First(r) == IF r.vs = <<>> THEN 0 ELSE r.vs[1]
Indexed(r) == IF r.vs = <<>> THEN Panic(r.t) ELSE r.t   \* [0] of no values

Maths == {"Plus", "Minus", "Star", "Slash"}

trans_binary(t, x) ==
  LET l == trans_expr(t, x.left)
      r == trans_expr(Indexed(l), x.right)
      ty == IF is_int(typ(x.left)) THEN I64 ELSE F64
      u == Indexed(r)
      good == TypeOf(u, First(l)) = ty /\ TypeOf(u, First(r)) = ty
  IN  IF x.op \notin Maths \cup Comparisons THEN Vals(<<>>, Panic(u))   \* intcmp, floatcmp
      ELSE ins(u, [op |-> x.op, args |-> <<First(l), First(r)>>],
               <<IF x.op \in Maths THEN ty ELSE Bool>>, good)

(* br: to els if zero, to then otherwise. *)
br(t, cond, then, els) == branch(branch([t EXCEPT !.bad = @ \/ TypeOf(t, cond) \notin {Bool, I64}],
                                        [op |-> "brz", arg |-> cond, to |-> els]),
                                 [op |-> "jump", args |-> <<>>, to |-> then])

jump(t, b, vs) == branch([t EXCEPT !.bad = @ \/ TypesOf(t, vs) # TypesOf(t, t.blocks[b].params)],
                         [op |-> "jump", args |-> vs, to |-> b])

jump_cont(t, cont, phi, vs) == jump(t, cont, IF phi THEN vs ELSE <<>>)

trans_if(t, x) ==
  LET c == trans_expr(t, x.cond)
      b == Len(c.t.blocks)
      made == create_block(create_block(create_block(c.t)))
      cont == IF x.phi THEN append_block_params(made, b + 3, translate_type(typ(x.then))) ELSE made
      split == br(Indexed([vs |-> c.vs, t |-> cont]), First(c), b + 1, b + 2)
      then == trans_expr(seal_block(switch_to_block(split, b + 1), b + 1), x.then)
      els == trans_expr(seal_block(switch_to_block(jump_cont(then.t, b + 3, x.phi, then.vs), b + 2), b + 2), x.els)
      joined == jump_cont(els.t, b + 3, x.phi, els.vs)
  IN  Vals(joined.blocks[b + 3].params, seal_block(switch_to_block(joined, b + 3), b + 3))

(* Mutant: the head is sealed before the body jumps back to it. *)
trans_while_sealed(t, x) ==
  LET b == Len(t.blocks)
      made == create_block(create_block(create_block(t)))
      c == trans_expr(seal_block(switch_to_block(jump(made, b + 1, <<>>), b + 1), b + 1), x.cond)
      body == trans_expr(seal_block(switch_to_block(br(Indexed(c), First(c), b + 2, b + 3), b + 2), b + 2), x.body)
      after == switch_to_block(jump(body.t, b + 1, <<>>), b + 3)
  IN  ins(seal_block(after, b + 3), [op |-> "const", v |-> 0], <<I64>>, TRUE)

(* Blocks: head, body, continuation. *)
trans_while(t, x) ==
  LET b == Len(t.blocks)
      made == create_block(create_block(create_block(t)))
      c == trans_expr(switch_to_block(jump(made, b + 1, <<>>), b + 1), x.cond)
      body == trans_expr(seal_block(switch_to_block(br(Indexed(c), First(c), b + 2, b + 3), b + 2), b + 2), x.body)
      after == switch_to_block(jump(body.t, b + 1, <<>>), b + 3)
  IN  ins(seal_block(seal_block(after, b + 1), b + 3), [op |-> "const", v |-> 0], <<I64>>, TRUE)

assign_var(t, x) ==
  LET v == trans_expr(t, x.value)
  IN  IF x.store.k # "local" THEN Vals(<<>>, Panic(t))   \* "Unknown assignment target!"
      ELSE IF translate_type(x.store.ty) = <<>> THEN v
      ELSE IF v.vs = <<>> THEN Vals(<<>>, Panic(v.t))
      ELSE Vals(v.vs, def_var(v.t, Offset(t, x.store.index), v.vs[1]))

(* The callee is known from its type; it is not translated. *)
trans_call(t, x) ==
  LET name == typ(x.callee)[2]
      args == trans_all(t, x.args, TRUE)
  IN  ins(args.t, [op |-> "call", name |-> name, args |-> args.vs], translate_type(Host[name].ret),
          TypesOf(args.t, args.vs) = Flatten(Host[name].params))

trans_expr(t, x) ==
  IF t.panic THEN Vals(<<>>, t)
  ELSE CASE x.k = "binary" -> trans_binary(t, x)
         [] x.k = "const" -> ins(t, [op |-> "const", v |-> x.v], translate_type(x.ty), TRUE)
         [] x.k = "block" -> trans_all(t, x.exprs, FALSE)
         [] x.k = "if" -> trans_if(t, x)
         [] x.k = "while" -> trans_while(t, x)
         [] x.k = "local" -> IF translate_type(x.ty) = <<>> THEN Vals(<<>>, t)
                             ELSE use_var(t, Offset(t, x.index))
         [] x.k = "assign" -> assign_var(t, x)
         [] x.k = "call" -> trans_call(t, x)
         [] x.k = "poison" -> Vals(<<>>, Panic(t))   \* "Cannot translate poison values!"

Params(f) == [i \in DOMAIN f.params |-> [index |-> i - 1] @@ f.params[i]]

build(f, compiled) ==
  LET body == trans_expr(init(Params(f), compiled.s.locals), compiled.x)
      good == TypesOf(body.t, body.vs) = translate_type(f.ret)
  IN  IF body.t.panic THEN body.t
      ELSE [emit(body.t, [op |-> "return", args |-> body.vs]) EXCEPT !.bad = @ \/ ~good]
=============================================================================
