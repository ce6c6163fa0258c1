-------------------------- MODULE MCConnectionPool --------------------------
(* As many adding requests as connections, and a reader. *)
EXTENDS ConnectionPool
=============================================================================
