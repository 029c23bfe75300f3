------------------------------- MODULE MCVfs --------------------------------
(* /d is a directory with a file f, a directory e and a relative link u to   *)
(* e; /d/e/t is an absolute link through u; /k is a link to itself.          *)
EXTENDS Vfs, TLC

MCDirs ==
    "root" :> ("d" :> "D" @@ "k" :> "K")
    @@ "D" :> ("e" :> "E" @@ "f" :> "F" @@ "u" :> "U")
    @@ "E" :> ("t" :> "T")

MCLinks == "K" :> <<"k">> @@ "U" :> <<"..", "d", "e">> @@ "T" :> <<"/", "d", "u", "..", "f">>

Components == {"..", "d", "e", "f", "k", "t", "u"}
MCPaths == {<<c>> : c \in Components} \cup {<<p, c>> : p \in {"..", "d", "f"}, c \in {"..", "d", "f", "u"}}
           \cup {<<".">>, <<"/">>, <<"/", "d", "u", "t">>, <<"/", "d", "e">>}
=============================================================================
