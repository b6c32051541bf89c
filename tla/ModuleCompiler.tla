--------------------------- MODULE ModuleCompiler ---------------------------
(***************************************************************************)
(* The passes of the compiler over the modules of a program                *)
(* (lang/src/compiler/mod.rs, module/passes/mod.rs, module/resolver.rs):   *)
(* classes and functions are declared, their types resolved, classes and   *)
(* function bodies generated.  Each module is behind a RefCell: borrowing  *)
(* it mutably while a pass reads it panics.  Every error a pass returns is *)
(* unwrapped, so it panics too.  What becomes of a body is left to         *)
(* ExprCompiler: it is "plain" or one that panics.                         *)
(***************************************************************************)
EXTENDS Integers, Sequences, SequencesExt

CONSTANT Programs   \* sequences of modules [classes, functions]

(* What the parser returns: vectors all the way down. *)
IsSeq(s) == s \in Seq(ToSet(s))
SoundPrograms ==
  \A p \in Programs :
    /\ IsSeq(p) /\ p # <<>>
    /\ \A mod \in ToSet(p) :
         /\ IsSeq(mod.classes) /\ IsSeq(mod.functions)
         /\ \A c \in ToSet(mod.classes) : IsSeq(c.members) /\ IsSeq(c.methods) /\ IsSeq(c.functions)
         /\ \A f \in ToSet(mod.functions) : IsSeq(f.params) /\ IsSeq(f.ret)

VARIABLES src,       \* the program, as parsed
          modules,   \* ir::Module of each: [classes, funcs, reserved_names]
          m,         \* the module being compiled
          pass,      \* the pass of stage_1 it is in
          next,      \* the item of that pass
          outcome    \* "compiling", "ok" or "panic"

compileVars == <<src, modules, m, pass, next, outcome>>

Passes == <<"declare_classes", "declare_functions", "generate_classes", "generate_functions">>

(* generate_classes and generate_functions hold module.borrow() in their loop. *)
Borrowed == pass \in {3, 4}

-----------------------------------------------------------------------------
try_reserve_name(name) == name \notin modules[m].reserved_names

Builtin == [bool |-> "Bool", i64 |-> "I64", f64 |-> "F64"]

ClassesOf(name) == {i \in DOMAIN modules[m].classes : modules[m].classes[i].name = name}

(* resolve_ty_name succeeds: a builtin needs no borrow, a class a mutable one. *)
resolves(name) == name \in DOMAIN Builtin \/ (~Borrowed /\ ClassesOf(name) # {})

(* Mutant: every class name means the first class. *)
resolve_ty_first(name) == IF name \in DOMAIN Builtin THEN <<Builtin[name]>> ELSE <<"Class", m, 1>>

resolve_ty(name) == IF name \in DOMAIN Builtin THEN <<Builtin[name]>>
                    ELSE <<"Class", m, CHOOSE i \in ClassesOf(name) : \A j \in ClassesOf(name) : i <= j>>

CompilePanic == outcome' = "panic" /\ UNCHANGED <<src, modules, m, pass, next>>

Step(mod) == modules' = [modules EXCEPT ![m] = mod] /\ next' = next + 1 /\ UNCHANGED <<src, m, pass, outcome>>

(* The types of a signature, in order. *)
Signature(f) == f.params \o f.ret

Declared(f) == [name |-> f.name, params |-> [i \in DOMAIN f.params |-> resolve_ty(f.params[i])],
                ret |-> IF f.ret = <<>> THEN <<"Void">> ELSE resolve_ty(f.ret[1]), body |-> "poison", ast |-> f]

-----------------------------------------------------------------------------
(* The passes, one item a step. *)

(* Mutant: the last function is forgotten. *)
ItemsButLast(p) == CASE p = 1 -> src[m].classes
                     [] p = 2 -> SubSeq(src[m].functions, 1, Len(src[m].functions) - 1)
                     [] p = 3 -> modules[m].classes [] p = 4 -> modules[m].funcs

Items(p) == CASE p = 1 -> src[m].classes [] p = 2 -> src[m].functions
              [] p = 3 -> modules[m].classes [] p = 4 -> modules[m].funcs

At(p) == outcome = "compiling" /\ pass = p /\ next <= Len(Items(p))

declare_classes ==
  /\ At(1)
  /\ LET cls == src[m].classes[next]
     IN  IF ~try_reserve_name(cls.name) THEN CompilePanic
         ELSE Step([modules[m] EXCEPT !.reserved_names = @ \cup {cls.name},
                                      !.classes = Append(@, [name |-> cls.name, content |-> <<>>, ast |-> cls])])

declare_functions ==
  /\ At(2)
  /\ LET f == src[m].functions[next]
     IN  IF ~try_reserve_name(f.name) \/ \E i \in DOMAIN Signature(f) : ~resolves(Signature(f)[i]) THEN CompilePanic
         ELSE Step([modules[m] EXCEPT !.reserved_names = @ \cup {f.name}, !.funcs = Append(@, Declared(f))])

(* IndexMap::insert: a second member of a name replaces the first, in its place. *)
insert(content, member) ==
  LET entry == [name |-> member.name, ty |-> member.ty, index |-> member.index]
      old == {i \in DOMAIN content : content[i].name = member.name}
  IN  IF old = {} THEN Append(content, entry) ELSE [i \in DOMAIN content |-> IF i \in old THEN entry ELSE content[i]]

(* declare_function pushes onto the borrowed module, for any method or static function. *)
generate_classes ==
  /\ At(3)
  /\ LET cls == modules[m].classes[next]
         stores == [i \in DOMAIN cls.ast.members |->
                      [name |-> cls.ast.members[i].name, index |-> i - 1, ty |-> resolve_ty(cls.ast.members[i].ty)]]
     IN  IF \/ \E i \in DOMAIN cls.ast.members : ~resolves(cls.ast.members[i].ty)
            \/ cls.ast.methods \o cls.ast.functions # <<>> THEN CompilePanic
         ELSE Step([modules[m] EXCEPT !.classes[next].content = FoldLeft(insert, <<>>, stores)])

generate_functions ==
  /\ At(4)
  /\ LET body == modules[m].funcs[next].ast.body
     IN  IF body = "panics" THEN CompilePanic
         ELSE Step([modules[m] EXCEPT !.funcs[next].body = IF body = "none" THEN @ ELSE body])

(* The next pass of stage_1, or stage_1 of the next module; finish finds no errors, as
   nothing ever adds any. *)
Advance ==
  /\ outcome = "compiling" /\ next > Len(Items(pass))
  /\ next' = 1 /\ UNCHANGED <<src, modules>>
  /\ IF pass < Len(Passes) THEN pass' = pass + 1 /\ UNCHANGED <<m, outcome>>
     ELSE IF m < Len(src) THEN pass' = 1 /\ m' = m + 1 /\ UNCHANGED outcome
     ELSE outcome' = "ok" /\ UNCHANGED <<pass, m>>

CompileInit == /\ src \in Programs /\ m = 1 /\ pass = 1 /\ next = 1 /\ outcome = "compiling"
               /\ modules = [i \in DOMAIN src |-> [classes |-> <<>>, funcs |-> <<>>, reserved_names |-> {}]]

CompileStopped == outcome # "compiling" /\ UNCHANGED compileVars

CompileNext == declare_classes \/ declare_functions \/ generate_classes \/ generate_functions \/ Advance \/ CompileStopped

CompileSpec == CompileInit /\ [][CompileNext]_compileVars

-----------------------------------------------------------------------------
(* Properties. *)

(* A type written in a signature is, in the IR, the builtin type or the class of the
   same module that has this name, also after more classes and modules were compiled. *)
Means(ty, name, i) == \/ name \in DOMAIN Builtin /\ ty = <<Builtin[name]>>
                      \/ Head(ty) = "Class" /\ ty[2] = i /\ modules[i].classes[ty[3]].name = name

TypesMeanNames ==
  \A i \in DOMAIN modules : \A f \in ToSet(modules[i].funcs) :
    /\ \A p \in DOMAIN f.params : Means(f.params[p], f.ast.params[p], i)
    /\ f.ret # <<"Void">> => Means(f.ret, f.ast.ret[1], i)

KnownTypes(mod) == DOMAIN Builtin \cup {mod.classes[i].name : i \in DOMAIN mod.classes}

(* What the compiler accepts: names used once in a module, types of its own module,
   members of builtin types only, no methods, no static functions. *)
Compilable(mod) ==
  /\ IsInjective([i \in DOMAIN mod.classes |-> mod.classes[i].name] \o [i \in DOMAIN mod.functions |-> mod.functions[i].name])
  /\ \A f \in ToSet(mod.functions) : ToSet(Signature(f)) \subseteq KnownTypes(mod) /\ f.body # "panics"
  /\ \A c \in ToSet(mod.classes) : /\ c.methods = <<>> /\ c.functions = <<>>
                                   /\ \A i \in DOMAIN c.members : c.members[i].ty \in DOMAIN Builtin

(* A program compiles exactly if each of its modules is compilable, and then every
   class and function of the source is in the IR, in order, with its body. *)
CompilesExactly ==
  /\ outcome = "ok" => \A i \in DOMAIN src :
       /\ Compilable(src[i])
       /\ [k \in DOMAIN modules[i].funcs |-> modules[i].funcs[k].ast] = src[i].functions
       /\ [k \in DOMAIN modules[i].classes |-> modules[i].classes[k].ast] = src[i].classes
       /\ \A f \in ToSet(modules[i].funcs) : f.body = IF f.ast.body = "none" THEN "poison" ELSE f.ast.body
  /\ outcome = "panic" => \E i \in DOMAIN src : ~Compilable(src[i])
=============================================================================
