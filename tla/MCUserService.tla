--------------------------- MODULE MCUserService ---------------------------
(* An instance of UserService for TLC. *)
EXTENDS UserService

Form(path, name, password) ==
  [method |-> "POST", path |-> Text(path, 0),
   body |-> <<Pair("username", Text(name, 1)), Pair("password", Text(password, 0))>>]

\* Two clients that want the same name, with different passwords.
AnnTwice ==
  <<Form("/register", "ann", "x"), Form("/register", "ann", "y"), Form("/login", "ann", "x")>>

NoFiles == <<>>
=============================================================================
