------------------------------- MODULE MCDirs --------------------------------
(* Instances of Dirs for TLC. *)
EXTENDS Dirs

CONSTANT WithB

(* /a, the file /a/b and, if WithB, the empty directory /b *)
MCTree0 ==
  <<[name |-> "a", parent |-> Root, type |-> "dir"], [name |-> "b", parent |-> 1, type |-> "file"]>>
  \o IF WithB THEN <<[name |-> "b", parent |-> Root, type |-> "dir"]>> ELSE <<>>

MCPaths == {<<"a">>, <<"b", "a">>}
MCFunc == ("a" :> "b") @@ ("b" :> "a")
==============================================================================
