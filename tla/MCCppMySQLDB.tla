---------------------------- MODULE MCCppMySQLDB ---------------------------
(* Connection strings for CppMySQLDB: complete ones with each value of     *)
(* auto-reconnect, and one of each kind that is refused.                   *)
EXTENDS CppMySQLDB

Item(key, val) == [key |-> key, val |-> val]
Root == Item("user", "root")

SomeConnStrings ==
    {<<Root, Item("db", "first")>>,
     <<Root, Item("db", "second"), Item("port", "-1"), Item("auto-reconnect", "true")>>,
     <<Item("auto-reconnect", "true"), Root, Item("auto-reconnect", "false")>>,
     <<Item("db", "first")>>,
     <<Root, Item("port", "65536")>>,
     <<Root, Item("compress", "yes")>>,
     <<Root, Item("auto-reconnect", "no")>>,
     <<Root, Malformed>>}
=============================================================================
