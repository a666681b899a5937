------------------------------- MODULE Paths --------------------------------
(***************************************************************************)
(* Path resolution (ftp_path.c) and the working directory of a session,    *)
(* which every relative path starts from: cmd_CWD, cmd_CDUP, and the other *)
(* commands as far as they resolve a path.                                 *)
(*                                                                         *)
(* A path is the sequence of what stands between its slashes: "/a//.." is  *)
(* <<"", "a", "", "..">>.  It is absolute when the first is empty.  Once   *)
(* normalised it is the sequence of its components, <<>> for "/".  The     *)
(* directories and the links of the file system are state, and another     *)
(* session or program may change them between two commands.                *)
(***************************************************************************)
EXTENDS Integers, Sequences, SequencesExt

CONSTANTS
  Name,         \* the names of directories
  Place,        \* where there may be a directory or a link
  Root,         \* the directories a server may be started on
  PathMax,      \* FTP_PATH_MAX
  MaxDepth,     \* MAX_PATH_COMPONENTS
  MaxParts      \* bound on the parts of an argument

ASSUME PathsAssumption ==
  /\ Name \cap {"", ".", ".."} = {}
  /\ <<>> \in Root /\ Root \subseteq Place
  /\ \A p \in Place \ {<<>>} : Last(p) \in Name /\ Front(p) \in Place
  /\ {PathMax, MaxDepth, MaxParts} \subseteq Nat \ {0}

Argument == SeqOf(Name \cup {"", ".", ".."}, MaxParts) \ {<<>>, <<"">>}

\* FTP_ERR_PATH_TOO_LONG, FTP_ERR_PATH_INVALID, and no path at all.
TooLong == <<"too long">>
Invalid == <<"invalid">>
Missing == <<"missing">>

\* A normalised path as it is given: "/" is <<"", "">>.
AsGiven(path) == IF path = <<>> THEN <<"", "">> ELSE <<"">> \o path

\* strlen, of a path as it is given and of a normalised one.
GivenLen(path) == FoldLeft(LAMBDA n, p : n + Len(p) + 1, -1, path)
PathLen(path) == IF path = <<>> THEN 1 ELSE FoldLeft(LAMBDA n, p : n + Len(p) + 1, 0, path)

VARIABLES
  root,       \* session->root_path
  wd,         \* session->cwd
  dirs,       \* the directories there are
  link,       \* the links there are, each with the directory it leads to
  resolved,   \* what the last command resolved its argument to
  meant       \* history: the directory the system would have found for it

fsVars == <<root, dirs, link>>
pathsVars == <<root, wd, dirs, link, resolved, meant>>

\* The root is the path realpath() returned for it.
PathsInit ==
  /\ root \in Root /\ wd = root
  /\ dirs = {SubSeq(root, 1, n) : n \in 0 .. Len(root)} /\ link = <<>>
  /\ resolved = Missing /\ meant = Missing

-----------------------------------------------------------------------------
\* One part of a path, pushed on the stack of components.
PushPart(stack, p) ==
  CASE stack = TooLong \/ p \in {"", "."} -> stack
    [] p = ".." -> IF stack = <<>> THEN stack ELSE Front(stack)
    [] OTHER -> IF Len(stack) >= MaxDepth THEN TooLong ELSE Append(stack, p)

\* The output has room for PathMax bytes.
ftp_path_normalize(path) ==
  IF GivenLen(path) >= PathMax THEN TooLong
  ELSE LET out == FoldLeft(PushPart, <<>>, path) IN
       IF out # TooLong /\ PathLen(out) >= PathMax THEN TooLong ELSE out

\* The root is "/", or the path begins with the bytes of the root, after which
\* it ends or goes on with a slash.
BeginsWith(name, start) ==
  Len(name) >= Len(start) /\ SubSeq(name, 1, Len(start)) = start

\* Variant: no look at the byte after the root.
WithinRootNoBoundary(path) ==
  \/ root = <<>>
  \/ /\ Len(path) >= Len(root)
     /\ IsPrefix(Front(root), path) /\ BeginsWith(path[Len(root)], Last(root))

ftp_path_is_within_root(path) ==
  \/ root = <<>>
  \/ /\ Len(path) >= Len(root)
     /\ IsPrefix(Front(root), path) /\ BeginsWith(path[Len(root)], Last(root))
     /\ Len(path[Len(root)]) = Len(Last(root))

\* The system: realpath(), which also tells whether a path exists.
Child(dir, name) ==
  LET p == Append(dir, name) IN
  IF p \in dirs THEN p
  ELSE IF p \in DOMAIN link /\ link[p] \in dirs THEN link[p] ELSE Missing

realpath(path) ==
  FoldLeft(LAMBDA dir, name : IF dir = Missing THEN Missing ELSE Child(dir, name),
           <<>>, path)

Confined(path) ==
  IF path = TooLong THEN TooLong
  ELSE IF ftp_path_is_within_root(path) THEN path ELSE Invalid

\* A path that exists becomes its real path; of one that does not, the directory
\* does, if that exists.
ftp_path_resolve(arg) ==
  LET absolute == Head(arg) = ""
      out == IF GivenLen(arg) >= PathMax THEN TooLong
             ELSE IF absolute THEN Confined(ftp_path_normalize(arg))
             ELSE IF PathLen(wd) + GivenLen(arg) + 2 >= PathMax THEN TooLong
             ELSE Confined(ftp_path_normalize(AsGiven(wd) \o arg))
  IN  IF out \in {TooLong, Invalid} THEN out
      ELSE IF realpath(out) # Missing THEN Confined(realpath(out))
      ELSE IF realpath(Front(out)) = Missing THEN out
      ELSE LET joined == AsGiven(realpath(Front(out))) \o <<Last(out)>> IN
           Confined(ftp_path_normalize(joined))

\* What the system makes of an argument, part by part, from directory wd.
Walk(arg) ==
  FoldLeft(LAMBDA dir, p :
             CASE dir = Missing \/ p \in {"", "."} -> dir
               [] p = ".." -> IF dir = <<>> THEN dir ELSE Front(dir)
               [] OTHER -> Child(dir, p),
           IF Head(arg) = "" THEN <<>> ELSE realpath(wd), arg)

Resolve(arg) == resolved' = ftp_path_resolve(arg) /\ meant' = Walk(arg)

-----------------------------------------------------------------------------
\* Any command with a path, apart from CWD.
OtherCommand == \E arg \in Argument : Resolve(arg) /\ UNCHANGED <<wd, fsVars>>

ChangeTo(arg) ==
  /\ Resolve(arg)
  /\ wd' = IF realpath(resolved') # Missing THEN resolved' ELSE wd
  /\ UNCHANGED fsVars

CmdCwd == \E arg \in Argument : ChangeTo(arg)
CmdCdup == ChangeTo(<<"..">>)

\* Other sessions and programs make and remove directories and links; the root
\* stays.
Elsewhere ==
  /\ \E p \in Place \ {SubSeq(root, 1, n) : n \in 0 .. Len(root)} :
       \/ /\ p \notin dirs \cup DOMAIN link /\ Front(p) \in dirs
          /\ \/ dirs' = dirs \cup {p} /\ UNCHANGED link
             \/ \E d \in dirs :
                  link' = [q \in DOMAIN link \cup {p} |-> IF q = p THEN d ELSE link[q]]
                  /\ UNCHANGED dirs
       \/ /\ p \in dirs
          /\ \A q \in dirs \cup DOMAIN link : q # p => ~IsPrefix(p, q)
          /\ dirs' = dirs \ {p} /\ UNCHANGED link
       \/ /\ p \in DOMAIN link
          /\ link' = [q \in DOMAIN link \ {p} |-> link[q]] /\ UNCHANGED dirs
  /\ resolved' = Missing /\ meant' = Missing
  /\ UNCHANGED <<root, wd>>

PathsNext == OtherCommand \/ CmdCwd \/ CmdCdup \/ Elsewhere

PathsSpec == PathsInit /\ [][PathsNext]_pathsVars

-----------------------------------------------------------------------------
IsPath(p) == p \notin {TooLong, Invalid, Missing}

(* However the working directory was changed, whatever links there are and *)
(* whatever happens to the directories meanwhile: the working directory    *)
(* and every path a command goes on to use lie below the root and are      *)
(* normalised.  A resolved path contains no link, neither in its directory *)
(* nor itself, so it lies below the root for the system too; resolving it  *)
(* again, as RNTO does with the path of RNFR to move it across devices,    *)
(* changes nothing; and without links it is the directory the system       *)
(* itself would find for the argument.                                     *)
PathsAreSound ==
  /\ \A p \in {wd, resolved} : IsPath(p) =>
       /\ IsPrefix(root, p) /\ ToSet(p) \subseteq Name
       /\ PathLen(p) < PathMax /\ Len(p) <= MaxDepth
  /\ IsPath(resolved) =>
       /\ realpath(resolved) \in {resolved, Missing}
       /\ resolved # <<>> => realpath(Front(resolved)) \in {Front(resolved), Missing}
       /\ ftp_path_resolve(AsGiven(resolved)) = resolved
       /\ link = <<>> /\ IsPath(meant) => resolved = meant

=============================================================================
