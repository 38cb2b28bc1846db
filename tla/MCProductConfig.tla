---------------------------- MODULE MCProductConfig ----------------------------
(* A small instance of ProductConfig for TLC: a key, one below it that a record  *)
(* of the first may also have as a field, and one beside them.  One of the files *)
(* that the user saves has a key of a build, which from_file() takes as any.     *)
EXTENDS ProductConfig

SmallKeys == {<<"a">>, <<"a", "r">>, <<"b">>}
SmallBuildKeys == {<<"build", "x">>}
SmallProtected == {<<"b">>}
SmallEdits == {[p \in {<<"a">>, <<"build", "x">>} |-> "datetime"], [p \in {<<"a", "r">>, <<"b">>} |-> "one"]}
================================================================================
