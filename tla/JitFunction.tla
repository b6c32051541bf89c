----------------------------- MODULE JitFunction -----------------------------
(***************************************************************************)
(* A function from its syntax tree to its result: compiled (ExprCompiler), *)
(* translated (FnTranslator), verified by Cranelift and run, one block a   *)
(* step; and a reference: what the tree means, by names and scopes.        *)
(* Values are numbers with the type beside them, booleans 0 and 1; an f64  *)
(* is a whole number here.                                                 *)
(***************************************************************************)
EXTENDS FnTranslator

CONSTANTS Functions,   \* the functions: [params, ret, body]
          Inputs,      \* the values of parameters
          W,           \* the bits of an i64
          Fuel         \* bound on the turns of loops in a run

VARIABLES func, phase,
          ir,     \* [s, x]: what compiling left, and the body
          clif,   \* the translation
          run     \* the running code: [at, vals, vars, calls, fuel]

vars == <<func, phase, ir, clif, run>>

-----------------------------------------------------------------------------
(* Arithmetic, as binary of exprs.rs chooses the instructions: signed comparisons, an
   unsigned division. *)

Wrap(x) == ((x + 2^(W - 1)) % 2^W) - 2^(W - 1)
Unsigned(x) == x % 2^W

Truth(b) == IF b THEN 1 ELSE 0

Apply(op, ty, a, b) ==
  LET fit(x) == IF ty = I64 THEN Wrap(x) ELSE x
  IN  CASE op = "Plus" -> fit(a + b) [] op = "Minus" -> fit(a - b) [] op = "Star" -> fit(a * b)
        [] op = "Slash" -> fit(Unsigned(a) \div Unsigned(b))
        [] op = "EqualEqual" -> Truth(a = b) [] op = "BangEqual" -> Truth(a # b)
        [] op = "Less" -> Truth(a < b) [] op = "LessEqual" -> Truth(a <= b)
        [] op = "Greater" -> Truth(a > b) [] op = "GreaterEqual" -> Truth(a >= b)

(* What the functions called return: one more than their argument. *)
Called(name, args) == IF args = <<>> THEN 0 ELSE Wrap(args[1] + 1)

-----------------------------------------------------------------------------
(* The machine code, from the Cranelift IR. *)

Value(r, v) == r.vals[v]

(* One instruction; after a jump the rest of the block is not run. *)
Exec(r, i) ==
  IF r.to # 0 THEN r
  ELSE CASE i.op = "const" -> [r EXCEPT !.vals = (i.to[1] :> i.v) @@ @]
         [] i.op \in Maths \cup Comparisons ->
              [r EXCEPT !.vals = (i.to[1] :> Apply(i.op, clif.types[i.args[1]], r.vals[i.args[1]], r.vals[i.args[2]])) @@ @]
         [] i.op = "use" -> [r EXCEPT !.vals = (i.to[1] :> r.vars[i.var]) @@ @]
         [] i.op = "def" -> [r EXCEPT !.vars = (i.var :> r.vals[i.arg]) @@ @]
         [] i.op = "call" -> LET args == [j \in DOMAIN i.args |-> r.vals[i.args[j]]]
                             IN  [r EXCEPT !.calls = Append(@, <<i.name, args>>),
                                           !.vals = [j \in ToSet(i.to) |-> Called(i.name, args)] @@ @]
         [] i.op = "brz" -> IF r.vals[i.arg] = 0 THEN [r EXCEPT !.to = i.to] ELSE r
         [] i.op = "jump" -> LET ps == clif.blocks[i.to].params
                             IN  [r EXCEPT !.to = i.to, !.fuel = IF i.to <= r.at THEN @ - 1 ELSE @,
                                           !.vals = [p \in ToSet(ps) |-> r.vals[i.args[CHOOSE j \in DOMAIN ps : ps[j] = p]]] @@ @]
         [] i.op = "return" -> [r EXCEPT !.to = -1, !.out = [j \in DOMAIN i.args |-> r.vals[i.args[j]]]]

-----------------------------------------------------------------------------
(* The steps of jit_module and exec for one function. *)

Init == /\ func \in Functions /\ phase = "parsed"
        /\ ir = <<>> /\ clif = <<>> /\ run = <<>>

(* What a stale reference reads is undefined. *)
Compile == /\ phase = "parsed"
           /\ ir' = expr(new(func.params), func.body)
           /\ phase' = IF ir'.s.panic THEN "panic" ELSE IF ir'.s.stale THEN "undefined" ELSE "compiled"
           /\ UNCHANGED <<func, clif, run>>

(* A builder with debug assertions panics at the second declaration of a variable. *)
Translate == /\ phase = "compiled" /\ clif' = build(func, ir)
             /\ phase' \in {IF clif'.panic THEN "panic" ELSE "translated",
                            IF clif'.panic \/ clif'.twice THEN "panic" ELSE "translated"}
             /\ UNCHANGED <<func, ir, run>>

define_function ==
  /\ phase = "translated"
  /\ IF clif.bad THEN phase' = "panic" /\ UNCHANGED run
     ELSE /\ phase' = "running"
          /\ \E args \in [DOMAIN clif.blocks[1].params -> Inputs] :
               run' = [at |-> 1, to |-> 0, out |-> <<>>, calls |-> <<>>, fuel |-> Fuel, input |-> args,
                       vals |-> args, vars |-> [v \in DOMAIN clif.vars |-> 0]]
  /\ UNCHANGED <<func, ir, clif>>

Block == /\ phase = "running" /\ run.fuel > 0
         /\ LET r == FoldLeft(Exec, run, clif.blocks[run.at].code)
            IN  IF r.to = -1 THEN phase' = "returned" /\ run' = r
                ELSE phase' = phase /\ run' = [r EXCEPT !.at = r.to, !.to = 0]
         /\ UNCHANGED <<func, ir, clif>>

Stopped == /\ phase \in {"panic", "undefined", "returned"} \/ (phase = "running" /\ run.fuel = 0)
           /\ UNCHANGED vars

Next == Compile \/ Translate \/ define_function \/ Block \/ Stopped

Spec == Init /\ [][Next]_vars

-----------------------------------------------------------------------------
(* Reference: the meaning of a tree.  m is [envs: scopes of names -> places, store,
   calls, fuel]. *)

Nothing == [ty |-> Void, v |-> 0]
Means(m, val) == [m |-> m, val |-> val]

Place(m, name) == LET i == Max({j \in DOMAIN m.envs : name \in DOMAIN m.envs[j]}) IN m.envs[i][name]
Known(m, name) == \E j \in DOMAIN m.envs : name \in DOMAIN m.envs[j]

RECURSIVE Eval(_, _), EvalAll(_, _, _)

EvalAll(m, es, done) == IF es = <<>> THEN Means(m, done)
                        ELSE LET r == Eval(m, Head(es)) IN EvalAll(r.m, Tail(es), Append(done, r.val))

Eval(m, e) ==
  CASE e.k = "literal" -> Means(m, [ty |-> e.ty, v |-> e.v])
    [] e.k = "identifier" -> IF Known(m, e.name) THEN Means(m, m.store[Place(m, e.name)])
                             ELSE Means(m, [ty |-> FnType(e.name), v |-> 0])
    [] e.k = "binary" /\ e.op = "Equal" ->
         LET r == Eval(m, e.right) IN Means([r.m EXCEPT !.store[Place(m, e.left.name)] = r.val], r.val)
    [] e.k = "binary" /\ e.op # "Equal" ->
         LET l == Eval(m, e.left)
             r == Eval(l.m, e.right)
         IN  Means(r.m, [ty |-> IF e.op \in Maths THEN l.val.ty ELSE Bool, v |-> Apply(e.op, l.val.ty, l.val.v, r.val.v)])
    [] e.k = "block" -> LET r == EvalAll([m EXCEPT !.envs = Append(@, <<>>)], e.exprs, <<>>)
                        IN  Means([r.m EXCEPT !.envs = Front(@)], IF r.val = <<>> THEN Nothing ELSE Last(r.val))
    [] e.k = "if" -> LET c == Eval(m, e.cond)
                     IN  IF c.val.v = 1 THEN Eval(c.m, e.then)
                         ELSE IF e.els = <<>> THEN Means(c.m, Nothing) ELSE Eval(c.m, e.els[1])
    [] e.k = "while" -> LET c == Eval(m, e.cond)
                            b == Eval(c.m, e.body)
                        IN  IF c.val.v = 0 \/ m.fuel = 0 THEN Means(c.m, Nothing)
                            ELSE Eval([b.m EXCEPT !.fuel = @ - 1], e)
    [] e.k = "variable" -> LET r == Eval(m, e.value)
                           IN  Means([r.m EXCEPT !.store = Append(@, r.val),
                                                 !.envs[Len(m.envs)] = (e.name :> Len(r.m.store) + 1) @@ @], r.val)
    [] e.k = "call" -> LET f == Eval(m, e.callee)
                           args == EvalAll(f.m, e.args, <<>>)
                           vs == [i \in DOMAIN args.val |-> args.val[i].v]
                       IN  Means([args.m EXCEPT !.calls = Append(@, <<f.val.ty[2], vs>>)],
                                 [ty |-> Host[f.val.ty[2]].ret, v |-> Called(f.val.ty[2], vs)])

Meaning == Eval([envs |-> <<[name \in {func.params[i].name : i \in DOMAIN func.params} |->
                              Max({j \in DOMAIN func.params : func.params[j].name = name})]>>,
                 store |-> [i \in DOMAIN func.params |-> [ty |-> func.params[i].ty, v |-> run.input[i]]],
                 calls |-> <<>>, fuel |-> Fuel], func.body)

-----------------------------------------------------------------------------
(* Properties. *)

(* The checks of the compiler found nothing (E501 is raised for every comparison of
   numbers), and the body has the type the function returns. *)
Checked == ir.s.dropped \subseteq {"E501"} /\ typ(ir.x) = func.ret

(* Locals are numbered from 0 like parameters: a function with both shares variables. *)
OwnVariables == func.params = <<>> \/ ir.s.locals = <<>>

(* A checked function with parameters or locals, not both, does what it says: the code
   Cranelift is given returns the value of the tree and makes the same calls in the same
   order, through nested scopes, shadowed names, branches and loops. *)
RunsAsWritten ==
  phase = "returned" /\ Checked /\ OwnVariables =>
    /\ run.calls = Meaning.m.calls
    /\ func.ret # Void => run.out = <<Meaning.val.v>>

(* Every block is sealed once, when all the branches to it are made, is filled once
   and ends in a jump or a return: what a FunctionBuilder asserts of its user. *)
BuilderIsObeyed ==
  phase \in {"translated", "running", "returned"} =>
    ~clif.broken /\ \A b \in DOMAIN clif.blocks : clif.blocks[b].sealed /\ Ends(clif.blocks[b].code)

RECURSIVE SameTypes(_)
SameTypes(x) ==
  CASE x.k = "binary" -> /\ typ(x.left) = typ(x.right) \/ Poison \in {typ(x.left), typ(x.right)}
                         /\ SameTypes(x.left) /\ SameTypes(x.right)
    [] x.k = "block" -> \A i \in DOMAIN x.exprs : SameTypes(x.exprs[i])
    [] x.k = "assign" -> SameTypes(x.value)
    [] OTHER -> TRUE

(* error.rs:37 says "L/R side of binary expression must have same type": a function
   that compiles has no expression of two types. *)
MismatchIsAnError == phase = "compiled" => SameTypes(ir.x)
=============================================================================
