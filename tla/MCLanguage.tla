----------------------------- MODULE MCLanguage -----------------------------
(***************************************************************************)
(* TLC instance of the parts of the language: small strings, the parser,   *)
(* the compiler, the JIT for one function and for a program.  In every     *)
(* behaviour one part works on one of its inputs and the others are at     *)
(* rest, so that TLC visits the sum of their states and not the product.   *)
(***************************************************************************)
EXTENDS SmolStr, ModuleCompiler, JitModule, TLC

CONSTANT Parts   \* the parts to be checked

VARIABLES part,
          toks, cur, functions, classes, errors, result,   \* Parser
          func, phase, ir, clif, run                       \* JitFunction

parVars == <<toks, cur, functions, classes, errors, result>>
funVars == <<func, phase, ir, clif, run>>

-----------------------------------------------------------------------------
(* Every text of up to six bytes, where the longest slice of WS has five. *)
MCTexts == BoundedSeq({0, NL, SP}, 6)

-----------------------------------------------------------------------------
(* Bodies of a function: operators between operands, every short mix of brackets, names
   and operators, and control expressions of short pieces; files: every sequence of up
   to three declarations, good and broken. *)

Header == <<"Fun", "Identifier", "LeftParen", "RightParen">>

Infix == {"Equal", "Or", "And", "BangEqual", "EqualEqual", "Less", "LessEqual", "Greater",
          "GreaterEqual", "Plus", "Minus", "Star", "Slash", "Is"}

Sums == {<<"Identifier", a, "Int", b, "Identifier", c, "Int">> : a, b, c \in Infix}
  \cup {<<"Minus", "Identifier", a, "Bang", "Minus", "Int", b, "Identifier">> : a, b \in Infix}

Mixed == BoundedSeq({"Identifier", "LeftParen", "RightParen", "LeftBrace", "RightBrace", "Comma", "Minus"}, 4)

Piece == {<<>>, <<"Identifier">>, <<"LeftParen", "Int", "RightParen">>, <<"LeftBrace", "RightBrace">>,
          <<"Val", "Identifier", "Equal", "Int">>}

Control == {<<"If", "LeftParen", "True", "RightParen">> \o a \o b \o c : a, b, c \in Piece \cup {<<"Else">>}}
  \cup {<<"While">> \o a \o b : a, b \in Piece}
  \cup {<<"LeftBrace">> \o a \o b \o <<c>> : a, b \in Piece, c \in {"RightBrace", "Else", "BigInt"}}
  \cup {<<"Identifier", "LeftParen">> \o a \o <<"Comma">> \o b \o <<"RightParen", "LeftParen", "RightParen">> : a, b \in Piece}

Member == <<"Identifier", "Colon", "Identifier">>

ClassTexts == {<<"Class", "Identifier", "LeftBrace">> \o a \o b \o <<"RightBrace">>
                 : a, b \in {<<>>, <<"Val">> \o Member, Header \o <<"Int">>,
                             <<"Static">> \o Header \o <<"Int">>, <<"Static", "Identifier">>}}

Declarations == {Header \o <<"Int">>, <<"Extern">> \o Header, <<"Extern">>, <<"Error">>, <<"Identifier">>,
                 <<"Fun", "Identifier", "LeftParen">> \o Member \o <<"Comma">> \o Member
                    \o <<"RightParen", "Arrow", "Identifier", "LeftBrace", "RightBrace">>,
                 <<"Fun", "Identifier", "LeftParen", "Comma">>, <<"Class", "Identifier", "LeftBrace">>,
                 <<"Class", "Identifier", "LeftBrace", "Var">> \o Member \o <<"RightBrace">>}

MCSources == {<<>>} \cup {Header \o b : b \in Sums \cup Mixed \cup Control} \cup ClassTexts
  \cup {a \o b \o c : a \in Declarations, b, c \in {<<>>} \cup Declarations}

Par == INSTANCE Parser WITH Sources <- MCSources

ASSUME SourcesAssumption == MCSources \subseteq Seq(Par!TKind)

-----------------------------------------------------------------------------
(* Up to two classes and two functions over a few names, alone or before a second module
   that uses the names of the first. *)

Fn(name, params, ret, body) == [name |-> name, params |-> params, ret |-> ret, body |-> body]
Cls(name, members, methods, statics) ==
  [name |-> name, members |-> members, methods |-> methods, functions |-> statics]
Mem(name, ty) == [name |-> name, ty |-> ty]

Fns == {Fn("f", <<>>, <<>>, "plain"), Fn("f", <<"A", "i64">>, <<"B">>, "plain"), Fn("g", <<"B">>, <<>>, "none"),
        Fn("g", <<"bool">>, <<"A">>, "plain"), Fn("A", <<>>, <<>>, "plain"), Fn("h", <<>>, <<"f64">>, "panics")}

Clss == {Cls("A", <<>>, <<>>, <<>>), Cls("A", <<Mem("x", "i64"), Mem("y", "f64"), Mem("x", "bool")>>, <<>>, <<>>),
         Cls("B", <<Mem("x", "A")>>, <<>>, <<>>), Cls("B", <<Mem("x", "i64")>>, <<>>, <<>>),
         Cls("B", <<>>, <<Fn("k", <<>>, <<>>, "plain")>>, <<>>), Cls("C", <<>>, <<>>, <<Fn("k", <<>>, <<>>, "plain")>>)}

Mods == [classes : SeqOf(Clss, 2), functions : SeqOf(Fns, 2)]

MCPrograms == {<<a>> : a \in Mods}
  \cup {<<a, [classes |-> <<>>, functions |-> fs]>> : a \in Mods, fs \in SeqOf(Fns, 1)}

ASSUME ProgramsAssumption == SoundPrograms

-----------------------------------------------------------------------------
(* Every body of up to three statements over two names, with a parameter of one of them,
   both, or none, right and wrong. *)

I64 == <<"I64">>
Void == <<"Void">>
MCHost == [h |-> [params |-> <<I64>>, ret |-> I64], p |-> [params |-> <<>>, ret |-> Void]]

Num(v) == [k |-> "literal", ty |-> I64, v |-> v]
True == [k |-> "literal", ty |-> <<"Bool">>, v |-> 1]
Id(name) == [k |-> "identifier", name |-> name]
Op(l, op, r) == [k |-> "binary", left |-> l, op |-> op, right |-> r]
Set(name, e) == Op(Id(name), "Equal", e)
Let(name, e) == [k |-> "variable", name |-> name, value |-> e]
Do(es) == [k |-> "block", exprs |-> es]
If(c, t, e) == [k |-> "if", cond |-> c, then |-> t, els |-> e]
While(c, b) == [k |-> "while", cond |-> c, body |-> b]
Call(f, args) == [k |-> "call", callee |-> f, args |-> args]

A == Id("a")
Statements ==
  { Let("a", Num(3)), Let("a", Op(A, "Minus", Num(1))), Let("b", A), Let("b", Id("h")),
    Set("a", Op(A, "Plus", Id("b"))), Op(A, "Slash", Num(2)), Op(Num(1), "Minus", Op(Num(2), "Star", A)),
    Call(Id("h"), <<A>>), Call(Id("b"), <<Set("a", Num(1))>>), Call(Id("p"), <<>>),
    If(Op(A, "Less", Num(2)), Do(<<Let("a", Num(2)), Call(Id("h"), <<A>>)>>), <<A>>),
    If(Op(A, "EqualEqual", Num(3)), Set("a", Num(0)), <<>>),
    While(Op(A, "Less", Num(3)), Do(<<Set("a", Op(A, "Plus", Num(1))), Let("b", Num(1))>>)),
    Do(<<Let("a", Num(1)), Do(<<Let("b", A), Set("a", Op(Id("b"), "Plus", Num(1)))>>), A>>) }

Wrong == {Op(A, "Plus", True), If(A, A, <<>>), Op(True, "EqualEqual", True), [k |-> "unary"], Do(<<>>),
          Id("c"), Call(A, <<>>), Set("a", True), [k |-> "literal", ty |-> <<"F64">>, v |-> 1]}

Param(name) == [name |-> name, ty |-> I64]

MCFunctions ==
  {[params |-> ps, ret |-> ret, body |-> Do(es)]
     : ps \in {<<>>, <<Param("a")>>, <<Param("a"), Param("b")>>}, ret \in {I64, Void},
       es \in SeqOf(Statements, 2) \cup [1..3 -> Statements]}
  \cup {[params |-> <<>>, ret |-> I64, body |-> Do(<<Let("a", Num(2)), e, f>>)] : e, f \in Wrong \cup Statements}

Fun == INSTANCE JitFunction WITH Host <- MCHost, InlineLocals <- 3, Functions <- MCFunctions,
                                 Inputs <- {0, 2}, W <- 3, Fuel <- 5

-----------------------------------------------------------------------------
(* Two modules of up to two functions, with and without body, over three names of which
   the host provides one, calling each other. *)

Callable(n) == {<<>>} \cup {<<c>> : c \in 1..n}

One(n) == [name : {"main", "f", "h"}, sig : {"unit", "int"}, body : {TRUE}, calls : Callable(n)]
  \cup [name : {"main", "f", "h"}, sig : {"unit"}, body : {FALSE}, calls : {<<>>}]

MCModules == {<<f>> : f \in One(1)} \cup {fs \in {<<f, g>> : f \in One(2), g \in One(2)} : fs[1].name # fs[2].name}

MCLinked == {<<a>> : a \in MCModules} \cup {<<a, b>> : a \in MCModules, b \in {<<f>> : f \in One(1)}}
  \cup {<<b, a>> : a \in MCModules, b \in {<<f>> : f \in One(1)}}

-----------------------------------------------------------------------------
(* One part at work. *)

ParAtRest == toks = <<>> /\ cur = 1 /\ functions = <<>> /\ classes = <<>> /\ errors = <<>> /\ result = "panic"
ComAtRest == src = <<>> /\ modules = <<>> /\ m = 1 /\ pass = 1 /\ next = 1 /\ outcome = "ok"
FunAtRest == func = <<>> /\ phase = "parsed" /\ ir = <<>> /\ clif = <<>> /\ run = <<>>
JitAtRest == /\ program = <<>> /\ at = 1 /\ place = 1 /\ ids = <<>> /\ decls = <<>> /\ defined = <<>>
             /\ unlinked = {} /\ linked = <<>> /\ linking = "jit"

MCInit == /\ part \in Parts
          /\ Init
          /\ IF part = "parser" THEN Par!Init ELSE ParAtRest
          /\ IF part = "compiler" THEN CompileInit ELSE ComAtRest
          /\ IF part = "function" THEN Fun!Init ELSE FunAtRest
          /\ IF part = "program" THEN JitInit ELSE JitAtRest

MCNext == /\ UNCHANGED part
          /\ \/ part = "strings" /\ Next /\ UNCHANGED <<parVars, compileVars, funVars, jitVars>>
             \/ part = "parser" /\ Par!Next /\ UNCHANGED <<vars, compileVars, funVars, jitVars>>
             \/ part = "compiler" /\ CompileNext /\ UNCHANGED <<vars, parVars, funVars, jitVars>>
             \/ part = "function" /\ Fun!Next /\ UNCHANGED <<vars, parVars, compileVars, jitVars>>
             \/ part = "program" /\ JitNext /\ UNCHANGED <<vars, parVars, compileVars, funVars>>

MCSpec == MCInit /\ [][MCNext]_<<part, vars, parVars, compileVars, funVars, jitVars>>

-----------------------------------------------------------------------------
(* The properties of the instances, each stated in its module. *)

(* A module that parses says all that was read (lang/src/parser/mod.rs). *)
SaysWhatWasRead == Par!SaysWhatWasRead

(* Trees of operators are the ones the binding powers ask for. *)
GroupsByPower == Par!GroupsByPower

(* Every turn of the parser's loop, recovery included, consumes a token. *)
EveryTurnAdvances == Par!EveryTurnAdvances

(* A text that parses has no Error token, as lexer.rs:39 has it. *)
ErrorTokensAreErrors == Par!ErrorTokensAreErrors

(* The code of a checked function does what its tree means (vm/function). *)
RunsAsWritten == Fun!RunsAsWritten

(* The translator uses Cranelift's FunctionBuilder as it must be used. *)
BuilderIsObeyed == Fun!BuilderIsObeyed

(* A function that compiles has no binary expression of two types, as error.rs:37 has it. *)
MismatchIsAnError == Fun!MismatchIsAnError
=============================================================================
