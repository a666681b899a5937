----------------------------- MODULE FtpControl -----------------------------
(***************************************************************************)
(* The control side of an FTP session: how the bytes of the control        *)
(* connection become commands (ControlLine), what the commands do to the   *)
(* session (FtpSession), and what their path arguments resolve to (Paths). *)
(*                                                                         *)
(* Each of them is shown to the next as a choice: FtpSession takes any     *)
(* command there is, and any outcome of resolving its path.  They share no *)
(* state beyond that, so a behaviour is about one of them (part), and the  *)
(* state space is the sum of theirs.                                       *)
(***************************************************************************)
EXTENDS FtpSession, ControlLine, Paths

VARIABLE part

controlVars == <<part, lineVars, sessionVars, pathsVars>>

\* The parts that a behaviour is not about keep one initial state.
ControlInit ==
  /\ part \in {"line", "session", "paths"}
  /\ LineInit /\ (part # "line" => stream = <<>>)
  /\ SessionInit
  /\ PathsInit /\ (part # "paths" => root = <<>>)

OfLine(A) == part = "line" /\ A /\ UNCHANGED <<part, sessionVars, pathsVars>>
OfSession(A) == part = "session" /\ A /\ UNCHANGED <<part, lineVars, pathsVars>>
OfPaths(A) == part = "paths" /\ A /\ UNCHANGED <<part, lineVars, sessionVars>>

ControlNext == OfLine(LineNext) \/ OfSession(SessionNext) \/ OfPaths(PathsNext)

ControlSpec == ControlInit /\ [][ControlNext]_controlVars

\* A file system of two names, one of them the beginning of the other, and
\* servers started on "/" and on "/a".
MCPlace == {<<>>, <<"a">>, <<"ab">>, <<"a", "a">>}
MCRoot == {<<>>, <<"a">>}

=============================================================================
