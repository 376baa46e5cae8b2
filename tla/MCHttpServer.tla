---------------------------- MODULE MCHttpServer ----------------------------
(***************************************************************************)
(* HttpServer for TLC.                                                     *)
(***************************************************************************)
EXTENDS HttpServer
=============================================================================
