---------------------------- MODULE MCHttpServer ----------------------------
(***************************************************************************)
(* Requests for a buffer of three bytes: an API request with a header of   *)
(* two bytes and a body of one, and an upload of two bytes, of which the   *)
(* buffer may take none, one or both with the header.                      *)
(***************************************************************************)
EXTENDS HttpServer

R(k, h, c) == [kind |-> k, hlen |-> h, clen |-> c]
MCRequest == {R("api", 2, 1), R("upload", 1, 2)}

=============================================================================
