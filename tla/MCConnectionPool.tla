-------------------------- MODULE MCConnectionPool --------------------------
(* Three requests of any kind over two connections, with one task at a time. *)
EXTENDS ConnectionPool
=============================================================================
