----------------------------- MODULE MCFileManager -----------------------------
(* Instances of FileManager for TLC.                                          *)
EXTENDS FileManagerPaths, TLC

CONSTANTS a, b, r3

Ask(kind, paths, overwrite, size, ids) ==
  [kind : {kind}, paths : paths, overwrite : overwrite, size : size, ids : ids]

\* Extractions write two files and listings show two, all others are of one.
Changes1 ==
  Ask("upload", {{a}}, BOOLEAN, {1, 2}, {{}}) \cup
  Ask("write", {{a}}, {FALSE}, {1}, {{}}) \cup
  Ask("unzip", {{a, b}}, BOOLEAN, {1}, {{}}) \cup
  Ask("zip", {{a}}, BOOLEAN, {1, 2}, {{}}) \cup
  Ask("chown", {{a}}, {FALSE}, {1}, {{"uid"}, {"gid"}})

Others ==
  Ask("write", {{a}}, {FALSE}, {1}, {{}}) \cup
  Ask("zip", {{a}}, {TRUE}, {2}, {{}}) \cup
  Ask("chmod", {{a}}, {FALSE}, {1}, {{}}) \cup
  Ask("read", {{a}}, {FALSE}, {1}, {{}}) \cup
  Ask("download", {{a}}, {FALSE}, {1}, {{}}) \cup
  Ask("list", {{a, b}}, {FALSE}, {1}, {{}})

\* Two requests that change files, and a third of another kind.
Inputs == [r \in Req |-> IF r = r3 THEN Others ELSE Changes1]

Limits == [k \in Kind |-> IF k \in {"zip", "upload", "read"} THEN 1 ELSE MaxSize]

\* Two roots, one of them with a third in it, and one that is a link out of
\* them; links between the roots, out of them, to "/", and to nothing.
SomeRoots == {<<"www">>, <<"www", "new">>, <<"srv">>, <<"srv", "far">>}
Dirs      == {<<>>, <<"etc">>, <<"www">>, <<"www", "doc">>, <<"www", "new">>, <<"srv">>}
PlainOnes == {Append(d, "file") : d \in Dirs}
SomeLinks == <<"www", "link">> :> <<"srv">> @@
             <<"srv", "link">> :> <<"www", "new">> @@
             <<"www", "new", "link">> :> <<"file">> @@
             <<"www", "doc", "link">> :> <<>> @@
             <<"srv", "far">> :> <<"etc">> @@
             <<"etc", "link">> :> <<"www", "doc", "file">> @@
             <<"www", "far">> :> <<"none">>

SomeNames == {"www", "srv", "etc", "doc", "new", "link", "far", "file", "none"}
AllRequests == [absolute : BOOLEAN, names : SeqOf(Name, 3)]

Symmetry == Permutations(Req \ {r3})
=============================================================================
