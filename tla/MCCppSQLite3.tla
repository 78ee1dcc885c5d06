---------------------------- MODULE MCCppSQLite3 ----------------------------
(* Model-checking instances of CppSQLite3.  Handles and query objects are  *)
(* interchangeable in every formula the safety runs check.                 *)
EXTENDS CppSQLite3, TLC

HandleSymmetry ==
    Permutations(Conns) \union Permutations(Stmts)
      \union Permutations(Qs) \union Permutations(Ss) \union Permutations(Dbs)
=============================================================================
