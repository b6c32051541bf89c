------------------------------ MODULE MCConsole ------------------------------
(***************************************************************************)
(* TLC instance of what a user of the kernel meets: the terminal (line     *)
(* editor and text buffer), the commands, the programs they and the boot   *)
(* run, and the frame buffer these draw on.  In every behaviour one of the *)
(* four is at work and the others are at rest.                             *)
(***************************************************************************)
EXTENDS LineEditor, ShellCommands, ExecutePath, Framebuffer, TLC

CONSTANT Parts   \* the parts to be checked

VARIABLE part

-----------------------------------------------------------------------------
(* The terminal: two text rows of five columns, a limit for the cursor within the longest
   line, two letters and a character of two bytes. *)
MCBootText == <<66>>
MCStrings == {<<65, 7, 65>>, <<65, NL>>}
MCCharacters == {<<97>>, <<98>>, <<195, 164>>}

-----------------------------------------------------------------------------
(* The commands: a directory and a file longer than a cluster, two names, paths up and
   down, and lines that are no commands. *)

MCTree == <<>> :> [dir |-> TRUE, data |-> <<>>]
          @@ <<"a">> :> [dir |-> TRUE, data |-> <<>>]
          @@ <<"f">> :> [dir |-> FALSE, data |-> <<"x", "y", "z">>]

Key(kind) == [kind |-> kind]
Word(name) == [kind |-> "Word", text |-> <<name>>]
Path(text) == [kind |-> "Path", text |-> text]

Arguments == {Word("a"), Word("f"), Path(<<"..">>), Path(<<"a", "b">>), Path(<<".", "b">>),
              [kind |-> "Quote", text |-> <<>>]}

MCLines == {<<>>, <<Key("Ls")>>, <<Key("Cat")>>, <<Key("Exit")>>, <<Word("a")>>,
            <<Key("Cd"), Key("Float")>>, <<Key("Put"), Word("f")>>}
  \cup {<<Key(k), arg>> : k \in {"Ls", "Cat", "Cd", "Mkdir", "Exec"}, arg \in Arguments}
  \cup {<<Key("Put"), arg, text>> : arg \in Arguments, text \in {Word("a"), Path(<<"a", "b">>)}}

-----------------------------------------------------------------------------
(* The programs: two paths, one with nested directories, and every content in every
   place. *)

Places == {[at |-> <<"app", "main">>, ext |-> "yacari"],
           [at |-> <<"app", "lib", "a">>, ext |-> "yacari"],
           [at |-> <<"app", "lib", "in", "b">>, ext |-> "yacari"],
           [at |-> <<"app", "zip", "c">>, ext |-> "txt"],
           [at |-> <<"sys", "x", "d">>, ext |-> "yacari"]}

Contents == {"good", "syntax", "empty", "names", "jit", "binary"}

(* One content at one or two places, the rest good; with and without one of the places. *)
MCDisks == {{[at |-> p.at, ext |-> p.ext, content |-> IF p \in bad THEN k ELSE "good"]
               : p \in Places \ gone}
              : k \in Contents, bad \in kSubset(1, Places) \cup kSubset(2, Places),
                gone \in {{}} \cup kSubset(1, Places)}

MCPaths == <<<<"app">>, <<"sys", "x">>>>

-----------------------------------------------------------------------------
(* The frame buffer: coordinates on both sides of the screen's edges and a negative one. *)
MCCoordinates == {-1, 0, 1, 3}

ASSUME ScreenAssumption == SoundScreen

-----------------------------------------------------------------------------
(* One part at work. *)

ProgramsAtRest == /\ origin = "text" /\ disk = {} /\ left = <<>> /\ stack = <<>> /\ path_buf = <<>>
                  /\ modules = <<>> /\ errors = <<>> /\ ready = 0 /\ phase = "done"

MCInit == /\ part \in Parts
          /\ EInit /\ ShellInit /\ DrawInit
          /\ IF part = "programs" THEN PathInit ELSE ProgramsAtRest

RunPrograms == part = "programs" /\ PathNext /\ UNCHANGED <<part, editVars, shellVars, drawVars>>

MCNext == \/ part = "terminal" /\ ENext /\ UNCHANGED <<part, shellVars, pathVars, drawVars>>
          \/ part = "commands" /\ ShellNext /\ UNCHANGED <<part, editVars, pathVars, drawVars>>
          \/ part = "graphics" /\ DrawNext /\ UNCHANGED <<part, editVars, shellVars, pathVars>>
          \/ RunPrograms

MCSpec == /\ MCInit /\ [][MCNext]_<<part, editVars, shellVars, pathVars, drawVars>>
          /\ WF_pathVars(RunPrograms)
=============================================================================
