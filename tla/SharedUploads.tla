--------------------------- MODULE SharedUploads ---------------------------
(***************************************************************************)
(* STOR commands of several sessions that upload to the same path          *)
(* (cmd_STOR in ftp_commands.c), as the file system sees them.             *)
(*                                                                         *)
(* An upload from the start writes /dir/.zftpd.tmp.NAME and renames it to  *)
(* NAME; on the consoles it writes NAME itself.  The name of the temporary *)
(* file depends only on the path, and it is opened with O_CREAT | O_TRUNC, *)
(* so uploads of the same path share the name and often the file behind    *)
(* it.  An upload sends Chunks chunks; the i-th chunk of upload u is       *)
(* <<u, i>>.  The receive loop itself is module StorPipe.                  *)
(***************************************************************************)
EXTENDS Naturals, Sequences, FiniteSets

CONSTANTS
  Upload,    \* the STOR commands for the path
  Chunks     \* what each of them sends

ASSUME UploadAssumption == IsFiniteSet(Upload) /\ Chunks \in Nat \ {0}

VARIABLES
  use_atomic,   \* cmd_STOR's: not on the consoles
  inode,        \* what the names "tmp" and "dst" stand for
  data,         \* the content of the files created so far
  upc,          \* where each upload is
  ufd,          \* the file its descriptor refers to
  upos,         \* chunks it has written
  stored,       \* the upload that was last answered with 226, if any
  overlapped,   \* history: two of them were open at the same time
  crashed       \* history: the server died

nameVars == <<inode, data>>
uploadVars == <<use_atomic, nameVars, upc, ufd, upos, stored, overlapped, crashed>>

NoFile == 0
Hole   == <<"hole", 0>>
Old    == << <<"old", 1>> >>
Whole(u) == [i \in 1 .. Chunks |-> <<u, i>>]

UploadsInit ==
  /\ use_atomic \in BOOLEAN
  /\ inode = [n \in {"tmp", "dst"} |-> IF n = "dst" THEN 1 ELSE NoFile]
  /\ data = <<Old>>
  /\ upc = [u \in Upload |-> "ready"]
  /\ ufd = [u \in Upload |-> NoFile]
  /\ upos = [u \in Upload |-> 0]
  /\ stored = "none"
  /\ overlapped = FALSE /\ crashed = FALSE

Busy(u) == upc[u] \in {"connect", "write", "commit", "failed"}

\* Variant: every upload writes the file itself.
WritePathDirect == "dst"

write_path == IF use_atomic THEN "tmp" ELSE "dst"

Unlink(n) == inode' = [inode EXCEPT ![n] = NoFile]

Answer(u, code) ==
  /\ upc' = [upc EXCEPT ![u] = "end"]
  /\ stored' = IF code = "226" THEN u ELSE stored

\* pal_file_open with O_CREAT | O_TRUNC.
Open(u) ==
  /\ upc[u] = "ready"
  /\ IF inode[write_path] = NoFile
     THEN /\ data' = Append(data, <<>>)
          /\ inode' = [inode EXCEPT ![write_path] = Len(data')]
     ELSE /\ data' = [data EXCEPT ![inode[write_path]] = <<>>]
          /\ UNCHANGED inode
  /\ ufd' = [ufd EXCEPT ![u] = inode'[write_path]]
  /\ upc' = [upc EXCEPT ![u] = "connect"]
  /\ stored' = IF use_atomic THEN stored ELSE "none"
  /\ overlapped' = (overlapped \/ \E v \in Upload : Busy(v))
  /\ UNCHANGED <<use_atomic, upos, crashed>>

\* It fails, and the temporary file is removed all the same.
OpenFails(u) ==
  /\ upc[u] = "ready"
  /\ IF use_atomic THEN Unlink("tmp") ELSE UNCHANGED inode
  /\ Answer(u, "550")
  /\ overlapped' = (overlapped \/ \E v \in Upload : Busy(v))
  /\ UNCHANGED <<use_atomic, data, ufd, upos, crashed>>

Connect(u) ==
  /\ upc[u] = "connect"
  /\ upc' = [upc EXCEPT ![u] = "write"]
  /\ UNCHANGED <<use_atomic, nameVars, ufd, upos, stored, overlapped, crashed>>

\* Variant: the file stays.
ConnectFailsKeepsFile(u) ==
  /\ upc[u] = "connect"
  /\ Answer(u, "425")
  /\ UNCHANGED <<use_atomic, nameVars, ufd, upos, overlapped, crashed>>

\* No data connection.
ConnectFails(u) ==
  /\ upc[u] = "connect"
  /\ Unlink(write_path)
  /\ Answer(u, "425")
  /\ UNCHANGED <<use_atomic, data, ufd, upos, overlapped, crashed>>

\* write() at the position of the descriptor: a file that was truncated
\* meanwhile gets a hole.
WriteAt(f, p, c) ==
  [i \in 1 .. IF p > Len(f) THEN p ELSE Len(f) |->
     IF i = p THEN c ELSE IF i <= Len(f) THEN f[i] ELSE Hole]

Write(u) ==
  /\ upc[u] = "write" /\ upos[u] < Chunks
  /\ upos' = [upos EXCEPT ![u] = @ + 1]
  /\ data' = [data EXCEPT ![ufd[u]] = WriteAt(@, upos'[u], <<u, upos'[u]>>)]
  /\ UNCHANGED <<use_atomic, inode, upc, ufd, stored, overlapped, crashed>>

\* The end of the stream, or an error of recv() or write(); then the sync, and
\* both descriptors are closed.
EndReceive(u) ==
  /\ upc[u] = "write"
  /\ \E r \in {"commit", "failed"} :
       /\ r = "commit" => upos[u] = Chunks
       /\ upc' = [upc EXCEPT ![u] = r]
  /\ UNCHANGED <<use_atomic, nameVars, ufd, upos, stored, overlapped, crashed>>

\* rename(), which may also find no file.
Commit(u) ==
  /\ upc[u] = "commit"
  /\ \/ /\ use_atomic /\ inode["tmp"] # NoFile
        /\ inode' = [dst |-> inode["tmp"], tmp |-> NoFile]
        /\ Answer(u, "226")
     \/ use_atomic /\ Unlink("tmp") /\ Answer(u, "451")
     \/ ~use_atomic /\ UNCHANGED inode /\ Answer(u, "226")
  /\ UNCHANGED <<use_atomic, data, ufd, upos, overlapped, crashed>>

\* "On failure, clean up partial file."
CleanUp(u) ==
  /\ upc[u] = "failed"
  /\ Unlink(write_path)
  /\ Answer(u, "426")
  /\ UNCHANGED <<use_atomic, data, ufd, upos, overlapped, crashed>>

\* The server is killed; commands that come later meet what is on disk.
Crash ==
  /\ ~crashed
  /\ crashed' = TRUE
  /\ upc' = [u \in Upload |-> IF Busy(u) THEN "end" ELSE upc[u]]
  /\ UNCHANGED <<use_atomic, nameVars, ufd, upos, stored, overlapped>>

UploadsEnded == (\A u \in Upload : upc[u] = "end") /\ UNCHANGED uploadVars

UploadsNext ==
  \/ \E u \in Upload :
       \/ Open(u) \/ OpenFails(u) \/ Connect(u) \/ ConnectFails(u)
       \/ Write(u) \/ EndReceive(u) \/ Commit(u) \/ CleanUp(u)
  \/ Crash
  \/ UploadsEnded

UploadsSpec == UploadsInit /\ [][UploadsNext]_uploadVars

-----------------------------------------------------------------------------
(* Properties.                                                             *)

\* "either the old file or the new complete file, never a half-written
\* intermediate state": what the path names is the old file or all of one
\* upload.
NeverHalfWritten ==
  use_atomic =>
    inode["dst"] # NoFile /\ data[inode["dst"]] \in {Old} \cup {Whole(u) : u \in Upload}

\* That holds, through failures and a crash of the server that leaves a
\* temporary file for the next upload to find, as long as no two uploads of
\* the path are open at the same time; and what was answered with 226 is there
\* until another upload takes its place.
PublishedIsWhole ==
  ~overlapped =>
    /\ NeverHalfWritten
    /\ stored \in Upload => inode["dst"] # NoFile /\ data[inode["dst"]] = Whole(stored)

\* When no upload is open and the server did not die in one, no temporary
\* file is left behind, whatever failed and however the uploads overlapped; and
\* if they did not overlap the path names no partial file either, also where the
\* upload writes it in place.
UploadsLeaveNoPart ==
  (\A u \in Upload : ~Busy(u)) /\ ~crashed =>
    /\ inode["tmp"] = NoFile
    /\ ~overlapped /\ inode["dst"] # NoFile =>
         data[inode["dst"]] \in {Old} \cup {Whole(u) : u \in Upload}

=============================================================================
