--------------------------- MODULE FileManagerPaths ---------------------------
(***************************************************************************)
(* The file manager's requests and the paths they name: FileManager says   *)
(* what a request does to the files, PathSandbox which file its path is.   *)
(***************************************************************************)
EXTENDS FileManager, PathSandbox

\* Every path that an answer tells leads back to the file it is about: see
\* ToldPathsLeadBack.
AnswersLeadBack == \A r \in Req : job[r].pc = "done" => ToldPathsLeadBack
=============================================================================
