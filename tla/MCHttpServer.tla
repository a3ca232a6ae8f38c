---------------------------- MODULE MCHttpServer ----------------------------
(***************************************************************************)
(* HttpServer for a client that sends three requests, the first two of any *)
(* kinds.                                                                  *)
(***************************************************************************)
EXTENDS HttpServer

MCScripts == {k \in [1 .. N -> Kinds] : k[3] = "get"}
=============================================================================
