------------------------------ MODULE PathSandbox ------------------------------
(***************************************************************************)
(* How a request names a file: PathSandbox of                              *)
(* backend/src/security/path-sandbox.ts and the helpers of                 *)
(* file-manager.service.ts around it.                                      *)
(*                                                                         *)
(* An absolute path is the sequence of its names, "/" the empty sequence.  *)
(* A request is a sequence of names too, "." and ".." among them.  Paths   *)
(* are compared as text, so all that node does to them is lexical; only    *)
(* realpath and the operations themselves follow links.  A link may lead   *)
(* anywhere, to what does not exist too, and a root may be "/" or be       *)
(* reached through a link.                                                 *)
(***************************************************************************)
EXTENDS Integers, SequencesExt

CONSTANTS
  PlainName,     \* the names of entries of directories
  AllowedRoots,  \* absolute paths
  Directories,   \* the real paths of directories
  PlainFiles,    \* the real paths of files
  Links,         \* the path of each link |-> the real path it leads to
  Requests,      \* what clients send: [absolute : BOOLEAN, names : sequence]
  FileNames,     \* names an upload may give
  Refused        \* 403, 404 or 400

Name     == PlainName \cup {".", ".."}
Existing == Directories \cup PlainFiles

\* External: the file a path names, links followed, name by name; realpath
\* tells it if it exists, and open creates it if it does not.
Followed(path) == IF path \in DOMAIN Links THEN Links[path] ELSE path

RealPath(path) ==
  LET real[n \in 0..Len(path)] ==
        IF n = 0 THEN <<>> ELSE Followed(Append(real[n - 1], path[n]))
  IN  real[Len(path)]

ASSUME PathSandboxAssumption ==
  /\ AllowedRoots # {} /\ AllowedRoots \subseteq Seq(PlainName)
  /\ \A p \in Existing : RealPath(p) = p
  /\ Links \in [DOMAIN Links -> Seq(PlainName)]
  /\ PlainName \cap {".", ".."} = {}
  /\ Existing \cup DOMAIN Links \subseteq Seq(PlainName)
  /\ FileNames \subseteq PlainName
  /\ \A request \in Requests :
       request.absolute \in BOOLEAN /\ request.names \in Seq(Name)
  /\ Refused \notin Seq(Name)

-----------------------------------------------------------------------------
(* node's path, external *)

Entered(path, name) ==
  CASE name = "."  -> path
    [] name = ".." -> IF path = <<>> THEN path ELSE Front(path)
    [] OTHER       -> Append(path, name)

Normalize(names) ==
  LET path[n \in 0..Len(names)] ==
        IF n = 0 THEN <<>> ELSE Entered(path[n - 1], names[n])
  IN  path[Len(names)]

Resolve(base, request) ==
  Normalize(IF request.absolute THEN request.names ELSE base \o request.names)

Relative(from, to) ==
  LET common == LongestCommonPrefix({from, to})
      up     == [i \in 1..(Len(from) - Len(common)) |-> ".."]
  IN  up \o SubSeq(to, Len(common) + 1, Len(to))

-----------------------------------------------------------------------------
(* PathSandbox *)

\* The root "/" contains itself only: no path starts with "//".
Contained(path, roots) ==
  \E root \in roots : path = root \/ (root # <<>> /\ IsStrictPrefix(root, path))

ResolveCandidate(path) == IF Contained(path, AllowedRoots) THEN path ELSE Refused

ResolveFromRoot(root, request) ==
  IF Contained(root, AllowedRoots) THEN ResolveCandidate(Resolve(root, request))
                                   ELSE Refused

RealAllowedRoots == {RealPath(root) : root \in AllowedRoots}

\* What does not exist rejects in realpath, be it the path or a root.
ResolveExisting(path) ==
  IF /\ ResolveCandidate(path) # Refused
     /\ {RealPath(path)} \cup RealAllowedRoots \subseteq Existing
     /\ Contained(RealPath(path), RealAllowedRoots)
  THEN RealPath(path) ELSE Refused

-----------------------------------------------------------------------------
(* FileManagerService *)

\* Mutant: the path is told from the root that contains it, not from the one
\* the client named.
ToRelativePathOfContaining(root, path) ==
  LET holders == {r \in AllowedRoots : Contained(path, {r})}
  IN  [absolute |-> FALSE,
       names |-> Relative(IF holders = {} THEN root ELSE CHOOSE r \in holders : TRUE, path)]

\* The path an answer gives, which a client may send again.
ToRelativePath(root, path) ==
  [absolute |-> FALSE, names |-> Relative(root, path)]

\* A target that is to be created, checked as text: the relative path of the
\* root itself is empty, which is refused.
SafeTarget(root, target) ==
  IF target = root THEN Refused ELSE ResolveFromRoot(root, ToRelativePath(root, target))

ResolveWritableFile(root, request) ==
  LET target == Resolve(root, request)
      safe   == SafeTarget(root, target)
  IN  IF RealPath(target) \in Existing
      THEN IF ResolveExisting(target) \in PlainFiles
           THEN ResolveExisting(target) ELSE Refused
      ELSE IF safe # Refused /\ ResolveExisting(Front(safe)) \in Directories
           THEN safe ELSE Refused

\* readFile, getDownload, chmod, chown.
ExistingTarget(root, request) == ResolveExisting(Resolve(root, request))

\* The target is not looked up: what is there may be a link.
UploadTarget(root, request, fileName) ==
  LET directory == ExistingTarget(root, request)
  IN  IF directory \in Directories
      THEN SafeTarget(root, Append(directory, fileName)) ELSE Refused

\* listDirectory: what the directory holds, links not followed.
ListedEntries(root, request) ==
  {p \in Existing \cup DOMAIN Links :
     p # <<>> /\ Front(p) = ExistingTarget(root, request)}

\* Every path the answer to a request tells.
ToldPaths(root, request) ==
  ( {ExistingTarget(root, request), ResolveWritableFile(root, request)}
    \cup {UploadTarget(root, request, n) : n \in FileNames}
    \cup ListedEntries(root, request) ) \ {Refused}

-----------------------------------------------------------------------------
(* Properties *)

\* What lies under an allowed root, wherever the roots really are.
Within(path) == \E root \in RealAllowedRoots : IsPrefix(root, path)

\* There is a link at a path, be it reached through others.
AtLink(path) ==
  path # <<>> /\ Append(RealPath(Front(path)), Last(path)) \in DOMAIN Links

\* A path that is told, sent again with the same root, leads to the same file,
\* and is refused only if no root it lies under is the text of a real path
\* other than "/".  Its file lies under a root, unless the path is a link: only
\* the directory of an upload is checked, and writeFile follows a link at its
\* target unless it may not overwrite (flag "wx").
LeadsBack(root, path) ==
  LET again == Resolve(root, ToRelativePath(root, path)) IN
  /\ RealPath(again) = RealPath(path)
  /\ (\E r \in (AllowedRoots \cap RealAllowedRoots) \ {<<>>} : IsPrefix(r, path)) =>
       ResolveCandidate(again) # Refused
  /\ Within(RealPath(path)) \/ AtLink(path)

\* Every path the file manager tells, of an entry of a directory or of the
\* file it has read, written or uploaded, leads back to the file it is about,
\* whichever root the client named, through links between the roots and out
\* of them, roots that are links, roots in one another, and "..".
ToldPathsLeadBack ==
  \A root \in AllowedRoots, request \in Requests :
    \A path \in ToldPaths(root, request) : LeadsBack(root, path)
=============================================================================
