---------------------------- MODULE MCHttpServer ----------------------------
(* Instances of HttpServer for TLC. *)
EXTENDS HttpServer, TLC

\* Clients and workers are interchangeable; Main is not.
ServerSymmetry == Permutations(Conns) \cup Permutations(Workers)

\* A bound: one client at most ends its connection, and the server all others.
OneLeaves ==
  \A c, d \in Conns : {peer[c], peer[d]} \subseteq {"eof", "reset"} => c = d
=============================================================================
