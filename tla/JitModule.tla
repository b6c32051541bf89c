------------------------------ MODULE JitModule ------------------------------
(***************************************************************************)
(* The JIT over the modules of a program (lang/src/vm/mod.rs): functions   *)
(* are declared by name, translated, defined, linked module by module, and *)
(* main is run.  The JITModule of Cranelift is external: a name is         *)
(* declared once, with one signature; a function is defined once; at the   *)
(* end of a module each call in it is given the code of its name, or the   *)
(* symbol of the host.                                                     *)
(***************************************************************************)
EXTENDS Integers, Sequences

CONSTANTS LinkedPrograms,  \* sequences of modules, sequences of functions [name, sig, body, calls]
          Symbols          \* the names the host provides

(* The compiler hands over functions whose calls are places of their module. *)
ASSUME LinkedAssumption ==
  \A p \in LinkedPrograms :
    /\ Len(p) \in Nat /\ DOMAIN p = 1..Len(p)
    /\ \A i \in 1..Len(p) :
         /\ Len(p[i]) \in Nat /\ DOMAIN p[i] = 1..Len(p[i])
         /\ \A j \in 1..Len(p[i]) : p[i][j].body \in BOOLEAN /\ p[i][j].calls \in Seq(1..Len(p[i]))

VARIABLES program,    \* the program; calls are places in the same module
          at, place,  \* the module and the function the JIT is at
          ids,        \* the FuncId of each function that has one: <<module, place>> -> name
          decls,      \* what is declared: name -> [sig, linkage]
          defined,    \* whose code a name has: name -> <<module, place>>
          unlinked,   \* the functions defined since the last finalize_definitions
          linked,     \* where a call goes: <<module, place, callee>> -> a function or "host"
          linking     \* "jit", "running" or "panic"

jitVars == <<program, at, place, ids, decls, defined, unlinked, linked, linking>>

Func(f) == program[f[1]][f[2]]

(* The map with an entry more, or another one for x. *)
Inserted(map, x, v) == [y \in DOMAIN map \cup {x} |-> IF y = x THEN v ELSE map[y]]

-----------------------------------------------------------------------------
(* Declarations; s is [ir, decls, panic].  In Cranelift an id is given to each new
   name, so the name stands for it here. *)

(* Mutant: the two are swapped. *)
get_linkage_swapped(f) == IF Func(f).body THEN "Import" ELSE "Export"

get_linkage(f) == IF Func(f).body THEN "Export" ELSE "Import"

(* A second declaration needs the same signature; an exported name stays exported. *)
declare_function(s, f) ==
  LET name == Func(f).name
      old == IF name \in DOMAIN s.decls THEN s.decls[name] ELSE [sig |-> Func(f).sig, linkage |-> "Import"]
      linkage == IF old.linkage = "Export" THEN "Export" ELSE get_linkage(f)
  IN  IF old.sig # Func(f).sig THEN [ir |-> s.ir, decls |-> s.decls, panic |-> TRUE]
      ELSE [ir |-> Inserted(s.ir, f, name), panic |-> FALSE,
            decls |-> Inserted(s.decls, name, [sig |-> old.sig, linkage |-> linkage])]

(* Mutant: the id is kept with the module, not with the function. *)
get_or_declare_kept(s, f) ==
  IF s.panic \/ f \in DOMAIN s.ir THEN s
  ELSE IF \E g \in DOMAIN s.ir : g[1] = f[1]
  THEN [s EXCEPT !.ir = Inserted(@, f, @[CHOOSE g \in DOMAIN s.ir : g[1] = f[1]])]
  ELSE declare_function(s, f)

(* declare_ir_function and get_or_declare_ir_fn, which differ in who made the signature. *)
get_or_declare(s, f) == IF f \in DOMAIN s.ir \/ s.panic THEN s ELSE declare_function(s, f)

-----------------------------------------------------------------------------
(* jit_module: the function itself, then those it calls, are declared, and it is
   defined. *)

Callees(f) == [i \in DOMAIN Func(f).calls |-> <<f[1], Func(f).calls[i]>>]

(* What is declared once the function and its callees are. *)
DeclaredWith(f) ==
  LET fns == <<f>> \o Callees(f)
      s[i \in 0..Len(fns)] == IF i = 0 THEN [ir |-> ids, decls |-> decls, panic |-> FALSE]
                              ELSE get_or_declare(s[i - 1], fns[i])
  IN  s[Len(fns)]

JitPanic == linking' = "panic" /\ UNCHANGED <<program, at, place, ids, decls, defined, unlinked, linked>>

Definable(s, f) == s.decls[s.ir[f]].linkage = "Export" /\ s.ir[f] \notin DOMAIN defined

jit_function ==
  /\ linking = "jit" /\ at <= Len(program) /\ place <= Len(program[at])
  /\ LET f == <<at, place>>
         s == DeclaredWith(f)
     IN  IF ~Func(f).body THEN place' = place + 1 /\ UNCHANGED <<program, at, ids, decls, defined, unlinked, linked, linking>>
         ELSE IF s.panic \/ ~Definable(s, f) THEN JitPanic
         ELSE /\ ids' = s.ir /\ decls' = s.decls /\ place' = place + 1
              /\ defined' = Inserted(defined, s.ir[f], f) /\ unlinked' = unlinked \cup {f}
              /\ UNCHANGED <<program, at, linked, linking>>

get_address(name) == IF name \in DOMAIN defined THEN defined[name] ELSE <<"host">>

Relocs == UNION {{<<f[1], f[2], Func(f).calls[i]>> : i \in DOMAIN Func(f).calls} : f \in unlinked}

NameCalled(c) == ids[<<c[1], c[3]>>]

finalize_definitions ==
  /\ linking = "jit" /\ at <= Len(program) /\ place > Len(program[at])
  /\ IF \E c \in Relocs : NameCalled(c) \notin DOMAIN defined \cup Symbols THEN JitPanic
     ELSE /\ linked' = [c \in DOMAIN linked \cup Relocs |->
                         IF c \in Relocs THEN get_address(NameCalled(c)) ELSE linked[c]]
          /\ unlinked' = {} /\ at' = at + 1 /\ place' = 1
          /\ UNCHANGED <<program, ids, decls, defined, linking>>

(* get_name("main") and get_finalized_function. *)
exec == /\ linking = "jit" /\ at > Len(program)
        /\ IF "main" \notin DOMAIN defined THEN JitPanic
           ELSE linking' = "running" /\ UNCHANGED <<program, at, place, ids, decls, defined, unlinked, linked>>

JitInit == /\ program \in LinkedPrograms /\ at = 1 /\ place = 1 /\ linking = "jit"
           /\ ids = <<>> /\ decls = <<>> /\ defined = <<>> /\ unlinked = {} /\ linked = <<>>

JitStopped == linking # "jit" /\ UNCHANGED jitVars

JitNext == jit_function \/ finalize_definitions \/ exec \/ JitStopped

JitSpec == JitInit /\ [][JitNext]_jitVars

-----------------------------------------------------------------------------
(* Properties. *)

All == UNION {{<<i, j>> : j \in DOMAIN program[i]} : i \in DOMAIN program}
Bodies == {f \in All : Func(f).body}
Calls == UNION {{<<f[1], f[2], Func(f).calls[i]>> : i \in DOMAIN Func(f).calls} : f \in Bodies}

(* When main runs, every call in the program goes somewhere: a function with a body is
   reached by the calls of its own module as itself, never as its namesake of another
   module or of the host; an extern one is a function of its name and signature, or
   the host's symbol. *)
CallsArrive ==
  linking = "running" =>
    \A c \in Calls :
      LET callee == <<c[1], c[3]>>
      IN  /\ c \in DOMAIN linked
          /\ Func(callee).body => linked[c] = callee
          /\ ~Func(callee).body => \/ linked[c] = <<"host">> /\ Func(callee).name \in Symbols
                                   \/ /\ linked[c] \in Bodies /\ Func(linked[c]).name = Func(callee).name
                                      /\ Func(linked[c]).sig = Func(callee).sig

Used == Bodies \cup {<<c[1], c[3]>> : c \in Calls}

(* What the JIT accepts: one body for a name in the whole program, one signature for
   the functions of a name that are called or have a body, a body for main, and for
   every extern function called a symbol or a body in the same or an earlier module. *)
Linkable ==
  /\ \A f, g \in Bodies : Func(f).name = Func(g).name => f = g
  /\ \A f, g \in Used : Func(f).name = Func(g).name => Func(f).sig = Func(g).sig
  /\ \E f \in Bodies : Func(f).name = "main"
  /\ \A c \in Calls : \/ Func(<<c[1], c[3]>>).name \in Symbols
                      \/ \E f \in Bodies : Func(f).name = Func(<<c[1], c[3]>>).name /\ f[1] <= c[1]

(* A program runs exactly if it is linkable: functions of different modules share one
   space of names, and the order of the modules, that of the files on the disk,
   decides whether an extern function finds its body. *)
LinksExactly == (linking = "running" => Linkable) /\ (linking = "panic" => ~Linkable)
=============================================================================
