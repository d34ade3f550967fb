--------------------------- MODULE MCInotifyDtree ---------------------------
(***************************************************************************)
(* InotifyDtree for TLC: the directories that exist from the start ("out"  *)
(* is never given on the command line), and the environments.              *)
(***************************************************************************)
EXTENDS InotifyDtree

TopDirs  == <<"r", "s", "out">>
RootPath == {<<"r">>}

\* one change at a time
Serial == [roots |-> {"r", "s"}, when |-> "serial", maxOps |-> 4,
           renames |-> {"fresh"}, rootOps |-> {"remove", "out"},
           delays |-> FALSE, cmds |-> {"a", "0", "q"}, check |-> FALSE]
\* directories come and go while events are pending
Churn  == [roots |-> {"r"}, when |-> "betweenWalks", maxOps |-> 5,
           renames |-> {}, rootOps |-> {"remove"},
           delays |-> FALSE, cmds |-> {"a", "0"}, check |-> FALSE]
\* anything at any time
Free   == [roots |-> {"r"}, when |-> "free", maxOps |-> 3,
           renames |-> {"fresh", "replace"}, rootOps |-> {"remove", "out"},
           delays |-> TRUE, cmds |-> {"a", "z", "0", "q"}, check |-> TRUE]
\* anything, but no command, and no delay of the process
Prompt == [roots |-> {"r", "s"}, when |-> "free", maxOps |-> 2,
           renames |-> {"fresh", "replace"}, rootOps |-> {"remove", "out", "into"},
           delays |-> FALSE, cmds |-> {}, check |-> FALSE]
\* a directory may be renamed as soon as it has been created
Quick  == [roots |-> {"r"}, when |-> "betweenWalks", maxOps |-> 2,
           renames |-> {"fresh"}, rootOps |-> {},
           delays |-> FALSE, cmds |-> {}, check |-> FALSE]

SafetyEnvs  == {Serial, Churn, Free}
PromptOnly  == {Prompt}
QuickOnly   == {Quick}
=============================================================================
