----------------------------- MODULE ExecutePath -----------------------------
(***************************************************************************)
(* Running a program from source (lang/src/lib.rs): execute_path over the  *)
(* FAT disk of the kernel (kernel/src/drivers/disk/mod.rs) or the files of *)
(* a host (lang/src/filesystem.rs), and execute_module on one text.  A     *)
(* directory is read in any order.  A file is its path and what becomes of *)
(* its content:                                                            *)
(*   "good"     it parses, compiles and translates                         *)
(*   "syntax"   Parser::parse returns its errors                           *)
(*   "empty"    it has no token, and Parser::new panics                    *)
(*   "names"    a pass of the compiler panics                              *)
(*   "jit"      the translation panics                                     *)
(*   "binary"   it is not UTF-8                                            *)
(***************************************************************************)
EXTENDS Integers, Sequences, FiniteSetsExt, Prefixes

CONSTANTS Names,      \* of files and directories
          Disks,      \* the trees: each a set of files [at, ext, content]
          Paths,      \* the paths of execute_path, as sequences of names
          MaxDepth    \* the calls of walk_dir a stack has room for

(* A path has a last name, and a file is no directory. *)
ASSUME DiskAssumption ==
  /\ "script" \in Names
  /\ Paths \in Seq(Seq(Names)) /\ \A i \in DOMAIN Paths : Paths[i] # <<>>
  /\ \A d \in Disks :
       /\ \A f \in d : /\ f.at \in Seq(Names) /\ f.at # <<>>
                       /\ f.content \in {"good", "syntax", "empty", "names", "jit", "binary"}
       /\ \A f, g \in d : IsPrefix(f.at, g.at) => f = g

VARIABLES origin,     \* "fat", "os" or "text"
          disk,       \* one of Disks
          left,       \* the paths not walked yet
          stack,      \* one frame per call of walk_dir or walk_file: [dir, todo]
          path_buf,   \* the path handed to the closure
          modules,    \* of the files that parsed: [file, path]
          errors,     \* the files that did not
          ready,      \* how many of modules the JIT has taken
          phase

pathVars == <<origin, disk, left, stack, path_buf, modules, errors, ready, phase>>

-----------------------------------------------------------------------------
(* The tree.  A directory is named by its path; it exists when a file is below it. *)

IsDirectory(d) == \E f \in disk : IsStrictPrefix(d, f.at)

Sub(d) == {SubSeq(f.at, 1, Len(d) + 1) : f \in {g \in disk : IsStrictPrefix(d, g.at)}}

IsSource(p) == \E f \in disk : f.at = p /\ f.ext = "yacari"

FileAt(p) == CHOOSE f \in disk : f.at = p

(* Mutant: only '.' is skipped. *)
SkippedOne(d) == (IF Len(d) > 1 THEN {Front(d)} ELSE {}) \cup Sub(d)

(* Mutant: two entries that matter are skipped, as in the root. *)
SkippedSources(d) == IF Cardinality(Sub(d)) <= 2 THEN {} ELSE Sub(d) \ (CHOOSE t \in kSubset(2, Sub(d)) : TRUE)

(* entry.iter().skip(2), which are '.' and '..' in every directory but the root. *)
Skipped(d) == Sub(d)

(* path.file_stem() and file_name() of an entry. *)
Name(p) == Last(p)

-----------------------------------------------------------------------------
(* The closure of execute_path. *)

(* The kernel's stack has no room for another frame. *)
Overflow == phase' = "overflow" /\ UNCHANGED <<left, stack, path_buf, modules, errors, ready>>

Halt == phase' = "panic" /\ UNCHANGED <<left, stack, path_buf, modules, errors, ready>>

(* Parser::new(..).parse(..), on a file that was read. *)
Deliver(f, path) ==
  /\ modules' = IF f.content \in {"good", "names", "jit"}
                THEN Append(modules, [file |-> f, path |-> path]) ELSE modules
  /\ errors' = IF f.content = "syntax" THEN Append(errors, f) ELSE errors

Passed == UNCHANGED <<modules, errors>>

-----------------------------------------------------------------------------
(* kernel/src/drivers/disk/mod.rs *)

walk_directory_fat ==
  LET d == Head(left)
  IN  IF ~IsDirectory(d) THEN Halt
      ELSE /\ stack' = <<[dir |-> d, todo |-> Skipped(d)]>>
           /\ path_buf' = <<>> /\ left' = Tail(left)
           /\ UNCHANGED <<modules, errors, ready, phase>>

Taken(e) == [stack EXCEPT ![Len(stack)].todo = @ \ {e}]

(* One entry of the innermost walk_dir. *)
walk_dir_entry(e) ==
  IF e \notin {f.at : f \in disk}
  THEN IF Len(stack) = MaxDepth THEN Overflow ELSE
       /\ path_buf' = Append(path_buf, Name(e))
       /\ stack' = Append(Taken(e), [dir |-> e, todo |-> Skipped(e)])
       /\ Passed /\ UNCHANGED <<left, ready, phase>>
  ELSE IF FileAt(e).content = "empty" THEN Halt
  ELSE /\ stack' = Taken(e)
       /\ IF FileAt(e).content = "binary" THEN Passed ELSE Deliver(FileAt(e), path_buf)
       /\ UNCHANGED <<left, path_buf, ready, phase>>

(* Mutant: the name of the directory stays. *)
walk_dir_end_keeps == stack' = Front(stack) /\ UNCHANGED <<left, path_buf, modules, errors, ready, phase>>

(* walk_dir returns; its caller, if that is walk_dir, pops the name. *)
walk_dir_end ==
  /\ stack' = Front(stack)
  /\ path_buf' = IF Len(stack) > 1 THEN Front(path_buf) ELSE path_buf
  /\ Passed /\ UNCHANGED <<left, ready, phase>>

-----------------------------------------------------------------------------
(* lang/src/filesystem.rs *)

(* walk_file(p): a directory opens a frame, a file ends in .yacari or is left alone. *)
walk_file(frames, buf, p) ==
  IF IsDirectory(p)
  THEN /\ stack' = Append(frames, [dir |-> p, todo |-> Sub(p)])
       /\ path_buf' = Append(buf, Name(p))
       /\ Passed /\ UNCHANGED <<ready, phase>>
  ELSE IF IsSource(p) /\ FileAt(p).content \in {"binary", "empty"}
  THEN phase' = "panic" /\ UNCHANGED <<stack, path_buf, modules, errors, ready>>
  ELSE /\ stack' = frames /\ path_buf' = Append(buf, Name(p))
       /\ IF IsSource(p) THEN Deliver(FileAt(p), path_buf') ELSE Passed
       /\ UNCHANGED <<ready, phase>>

walk_directory_os == left' = Tail(left) /\ walk_file(<<>>, <<>>, Head(left))

walk_file_entry(e) == walk_file(Taken(e), path_buf, e) /\ UNCHANGED left

(* Nothing is popped from the path. *)
walk_file_end == stack' = Front(stack) /\ UNCHANGED <<left, path_buf, modules, errors, ready, phase>>

-----------------------------------------------------------------------------
(* lang/src/lib.rs *)

PathInit == /\ origin \in {"fat", "os", "text"} /\ disk \in Disks
            /\ left = IF origin = "text" THEN <<>> ELSE Paths
            /\ stack = <<>> /\ path_buf = <<>> /\ modules = <<>> /\ errors = <<>> /\ ready = 0
            /\ phase = IF origin = "text" THEN "parse" ELSE "walk"

WalkPaths ==
  /\ phase = "walk" /\ UNCHANGED <<origin, disk>>
  /\ \/ stack = <<>> /\ left # <<>> /\ origin = "fat" /\ walk_directory_fat
     \/ stack = <<>> /\ left # <<>> /\ origin = "os" /\ walk_directory_os
     \/ stack # <<>> /\ origin = "fat" /\ \E e \in Last(stack).todo : walk_dir_entry(e)
     \/ stack # <<>> /\ origin = "fat" /\ Last(stack).todo = {} /\ walk_dir_end
     \/ stack # <<>> /\ origin = "os" /\ \E e \in Last(stack).todo : walk_file_entry(e)
     \/ stack # <<>> /\ origin = "os" /\ Last(stack).todo = {} /\ walk_file_end

(* Mutant: only a program of which nothing parses is refused. *)
WalkedSome == /\ phase = "walk" /\ stack = <<>> /\ left = <<>>
              /\ phase' = IF errors # <<>> /\ modules = <<>> THEN "err" ELSE "compile"
              /\ UNCHANGED <<origin, disk, left, stack, path_buf, modules, errors, ready>>

Walked == /\ phase = "walk" /\ stack = <<>> /\ left = <<>>
          /\ phase' = IF errors # <<>> THEN "err" ELSE "compile"
          /\ UNCHANGED <<origin, disk, left, stack, path_buf, modules, errors, ready>>

(* execute_module parses its one text, as a module called script. *)
Parse == /\ phase = "parse"
         /\ \E f \in disk : LET c == f.content
                            IN  /\ c # "binary" /\ Deliver(f, <<"script">>)
                                /\ phase' = CASE c = "empty" -> "panic" [] c = "syntax" -> "err"
                                              [] OTHER -> "compile"
         /\ UNCHANGED <<origin, disk, left, stack, path_buf, ready>>

(* The passes, over all modules; their errors are unwrapped. *)
Compile == /\ phase = "compile"
           /\ phase' = IF \E i \in DOMAIN modules : modules[i].file.content = "names"
                       THEN "panic" ELSE "jit"
           /\ UNCHANGED <<origin, disk, left, stack, path_buf, modules, errors, ready>>

jit_module == /\ phase = "jit" /\ ready < Len(modules)
              /\ IF modules[ready + 1].file.content = "jit"
                 THEN phase' = "panic" /\ UNCHANGED ready
                 ELSE ready' = ready + 1 /\ UNCHANGED phase
              /\ UNCHANGED <<origin, disk, left, stack, path_buf, modules, errors>>

(* exec("main"): that a module defines it is not modelled here. *)
exec == /\ phase = "jit" /\ ready = Len(modules)
        /\ phase' = IF modules = <<>> THEN "panic" ELSE "running"
        /\ UNCHANGED <<origin, disk, left, stack, path_buf, modules, errors, ready>>

(* test_app unwraps the result; the tests of the language do the same. *)
Unwrap == /\ phase \in {"err", "running"}
          /\ phase' = IF phase = "err" THEN "panic" ELSE "done"
          /\ UNCHANGED <<origin, disk, left, stack, path_buf, modules, errors, ready>>

Stopped == phase \in {"panic", "done", "overflow"} /\ UNCHANGED pathVars

PathNext == WalkPaths \/ Walked \/ Parse \/ Compile \/ jit_module \/ exec \/ Unwrap \/ Stopped

(* One thread runs all of this without waiting for anything. *)
PathSpec == PathInit /\ [][PathNext]_pathVars /\ WF_pathVars(PathNext)

-----------------------------------------------------------------------------
(* Properties. *)

Wanted(f) == IF origin = "fat" THEN f.content # "binary" ELSE f.ext = "yacari"

Below(d) == {f \in disk : IsPrefix(d, f.at) /\ Wanted(f)}

(* When the walks are over, every source file at or below the paths has been parsed,
   exactly once for each of these paths, and no other file has been: skipping two entries of
   every directory hides no file, and nothing is read twice. *)
EverySourceOnce ==
  phase \notin {"walk", "panic", "overflow"} /\ origin # "text" =>
    \A f \in disk :
      Cardinality({i \in DOMAIN Paths : f \in Below(Paths[i])})
        = Cardinality({i \in DOMAIN modules : modules[i].file = f})
          + Cardinality({i \in DOMAIN errors : errors[i] = f})

(* The path a FAT module is given names the directories between the path that was
   walked and the file; a host module's path starts at the walked directory and ends
   with the file, whatever was visited between. *)
PathsNameModules ==
  \A i \in DOMAIN modules :
    LET m == modules[i]
    IN  /\ origin = "fat" => \E j \in DOMAIN Paths : m.file.at = Append(Paths[j] \o m.path, Last(m.file.at))
        /\ origin = "os" => \E j \in DOMAIN Paths : Name(Paths[j]) = Head(m.path)
                                                    /\ Last(m.path) = Last(m.file.at)

(* A program runs only when every one of its files parsed, compiled and was translated:
   one bad file among many stops all of them before any code runs. *)
RunsWhole == phase \in {"running", "done"} =>
               errors = <<>> /\ ready = Len(modules)
                 /\ \A i \in DOMAIN modules : modules[i].file.content = "good"

(* The walk of a tree that the stack has room for ends, and then the program is run or
   refused. *)
Ends == <>(phase \in {"panic", "done"})
=============================================================================
