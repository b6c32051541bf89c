---------------------------- MODULE ShellCommands ----------------------------
(***************************************************************************)
(* The commands of the shell (kernel/src/shell/mod.rs and command.rs) over *)
(* a directory tree.  A text is the sequence of the pieces between its     *)
(* slashes; in a file a piece stands for its bytes.  The FAT file system   *)
(* (crate fatfs) is external: directories other than the root hold '.' and *)
(* '..', a read ends with the cluster, a full disk fails a write half way. *)
(***************************************************************************)
EXTENDS Integers, Sequences, FiniteSets, Prefixes

CONSTANTS Pieces,     \* what texts are made of
          Lines,      \* the lines users enter, as sequences of tokens
          Tree,       \* the files and directories at the start
          Cluster,    \* the bytes of a cluster
          MaxTree,    \* bound on the number of files and directories
          MaxPath     \* bound on the pieces of the working directory

Missing == <<"?">>   \* what a lookup returns that finds nothing

ASSUME LinesAssumption ==
  \A toks \in Lines : Len(toks) \in Nat /\ \A n \in 2..Len(toks) :
    toks[n].kind \in {"Word", "Path", "Int", "Quote"} => toks[n].text \in Seq(Pieces)

ASSUME TreeAssumption ==
  /\ Cluster \in Nat /\ "?" \in Pieces
  /\ <<>> \in DOMAIN Tree /\ Tree[<<>>].dir /\ Missing \notin DOMAIN Tree
  /\ \A p \in DOMAIN Tree : p \in Seq(Pieces) /\ Tree[p] \in [dir : BOOLEAN, data : Seq(Pieces)]

VARIABLES fs,           \* path -> [dir, data]
          working_dir,  \* None or Some text
          shell,        \* "running", "panicked" or "exited"
          output        \* what the last read_file returned, and of what

shellVars == <<fs, working_dir, shell, output>>

None == [some |-> FALSE]
Some(x) == [some |-> TRUE, value |-> x]

-----------------------------------------------------------------------------
(* command.rs *)

HasText == {"Word", "Path", "Int", "Quote"}

(* The text of the n-th token, if it has one that counts as a path. *)
path_arg(toks, n) ==
  IF n <= Len(toks) /\ toks[n].kind \in HasText THEN Some(toks[n].text) ELSE None

Failed == [cmd |-> "Failed"]
Empty == [cmd |-> "Empty"]

(* Command::from, for the commands with one path; what follows it is not looked at. *)
OnePath == {"Cat", "Cd", "Mkdir", "Exec"}

from(toks) ==
  IF toks = <<>> THEN Empty
  ELSE LET kind == toks[1].kind
           arg == path_arg(toks, 2)
           text == path_arg(toks, 3)
       IN  CASE kind = "Ls" /\ (arg.some \/ Len(toks) = 1) -> [cmd |-> "Ls", directory |-> arg]
             [] kind \in OnePath /\ arg.some -> [cmd |-> kind, path |-> arg.value]
             [] kind = "Put" /\ arg.some /\ text.some ->
                  [cmd |-> "Put", path |-> arg.value, text |-> text.value]
             [] kind = "Exit" -> [cmd |-> "Exit"]
             [] OTHER -> Failed

-----------------------------------------------------------------------------
(* fatfs *)

IsDir(p) == p \in DOMAIN fs /\ fs[p].dir
IsFile(p) == p \in DOMAIN fs /\ ~fs[p].dir

Child(d, name) == IF ~IsDir(d) THEN Missing
                  ELSE IF name \in {".", ".."}
                  THEN IF d = <<>> THEN Missing ELSE IF name = "." THEN d ELSE Front(d)
                  ELSE IF Append(d, name) \in DOMAIN fs THEN Append(d, name) ELSE Missing

Walk(d, text) ==
  LET dir[i \in 0..Len(text)] == IF i = 0 THEN d ELSE Child(dir[i - 1], text[i])
  IN  dir[Len(text)]

open_dir(d, text) == LET p == IF text = <<>> THEN Missing ELSE Walk(d, text)
                     IN  IF IsDir(p) THEN Some(p) ELSE None

open_file(d, text) == LET p == IF text = <<>> THEN Missing ELSE Walk(d, text)
                      IN  IF IsFile(p) THEN Some(p) ELSE None

With(p, entry) == [q \in DOMAIN fs \cup {p} |-> IF q = p THEN entry ELSE fs[q]]

(* Where create_dir or create_file would put a new entry.  That nothing new is
   called '.' or '..' is an assumption; FAT allows '?' in no name. *)
NewPath(d, text) ==
  IF text = <<>> \/ Last(text) \in {".", "..", "?"} THEN None
  ELSE LET parent == Walk(d, Front(text))
       IN  IF IsDir(parent) THEN Some(Append(parent, Last(text))) ELSE None

-----------------------------------------------------------------------------
(* mod.rs *)

(* root_dir(), or its open_dir(working_dir).unwrap(). *)
workdir == IF working_dir.some THEN open_dir(<<>>, working_dir.value) ELSE Some(<<>>)

Quiet == UNCHANGED <<fs, working_dir, shell, output>>

ShellInit == fs = Tree /\ working_dir = None /\ shell = "running" /\ output = None

(* Mutant: the new directory replaces the old one. *)
CdReplaces(w, text) == /\ working_dir' = IF open_dir(w, text).some THEN Some(text) ELSE working_dir
                       /\ UNCHANGED <<fs, shell, output>>

Cd(w, text) ==
  /\ working_dir.some => Len(working_dir.value \o text) <= MaxPath
  /\ working_dir' = IF ~open_dir(w, text).some THEN working_dir
                    ELSE IF working_dir.some THEN Some(working_dir.value \o text) ELSE Some(text)
  /\ UNCHANGED <<fs, shell, output>>

Mkdir(w, text) ==
  LET p == NewPath(w, text)
  IN  /\ \/ UNCHANGED fs   \* it exists, the path is wrong, or the disk is full
         \/ /\ p.some /\ p.value \notin DOMAIN fs /\ Cardinality(DOMAIN fs) < MaxTree
            /\ fs' = With(p.value, [dir |-> TRUE, data |-> <<>>])
      /\ UNCHANGED <<working_dir, shell, output>>

(* n bytes of the text over the start of the old content. *)
Written(old, text, n) == SubSeq(text, 1, n) \o SubSeq(old, n + 1, Len(old))

(* create_file opens a file that exists; write_all writes all of the text unless the
   disk is full. *)
Put(w, text, content) ==
  LET p == NewPath(w, text)
      old == IF IsFile(p.value) THEN fs[p.value].data ELSE <<>>
  IN  /\ \/ UNCHANGED fs
         \/ /\ p.some /\ ~IsDir(p.value)
            /\ IsFile(p.value) \/ Cardinality(DOMAIN fs) < MaxTree
            /\ \E n \in 0..Len(content) :
                 fs' = With(p.value, [dir |-> FALSE, data |-> Written(old, content, n)])
      /\ UNCHANGED <<working_dir, shell, output>>

(* Mutant: the file is read from where seek left it, its end. *)
ReadAtEnd(data) == [i \in 1..Len(data) |-> "stale"]

(* One read into a buffer as long as the file, from its start: what it does not reach
   keeps what the heap held. *)
Read(data) == [i \in 1..Len(data) |-> IF i <= Cluster THEN data[i] ELSE "stale"]

(* The buffer may turn out not to be UTF-8. *)
read_file(w, text) ==
  LET p == open_file(w, text)
  IN  \/ output' = None
      \/ p.some /\ output' = Some([path |-> p.value, content |-> Read(fs[p.value].data)])

Cat(w, text) == read_file(w, text) /\ UNCHANGED <<fs, working_dir, shell>>

(* execute_module on the file: it returns or panics. *)
Exec(w, text) == /\ read_file(w, text)
                 /\ shell' \in {"running", IF output'.some THEN "panicked" ELSE "running"}
                 /\ UNCHANGED <<fs, working_dir>>

Exit == shell' = "exited" /\ UNCHANGED <<fs, working_dir, output>>

ShellPanic == shell' = "panicked" /\ UNCHANGED <<fs, working_dir, output>>

(* Every command but exit opens the working directory first. *)
execute_command(c) ==
  IF c.cmd = "Exit" THEN Exit
  ELSE IF ~workdir.some THEN ShellPanic
  ELSE LET w == workdir.value
       IN  \/ c.cmd = "Ls" /\ Quiet
           \/ c.cmd = "Cat" /\ Cat(w, c.path)
           \/ c.cmd = "Cd" /\ Cd(w, c.path)
           \/ c.cmd = "Mkdir" /\ Mkdir(w, c.path)
           \/ c.cmd = "Put" /\ Put(w, c.path, c.text)
           \/ c.cmd = "Exec" /\ Exec(w, c.path)

enter_pressed(toks) ==
  /\ shell = "running"
  /\ IF from(toks) \in {Empty, Failed} THEN Quiet ELSE execute_command(from(toks))

ShellHltLoop == shell # "running" /\ UNCHANGED shellVars

ShellNext == (\E toks \in Lines : enter_pressed(toks)) \/ ShellHltLoop

ShellSpec == ShellInit /\ [][ShellNext]_shellVars

-----------------------------------------------------------------------------
(* Properties. *)

(* The working directory can be opened at any later time: cd checks it once, each
   command after it unwraps the result. *)
WorkdirOpens == workdir.some

(* What cat prints and exec runs is what the file holds, if that is one cluster. *)
ReadsWholeFile ==
  [][output' # output /\ output'.some /\ Len(output'.value.content) <= Cluster
       => output'.value.content = fs[output'.value.path].data]_shellVars

=============================================================================
