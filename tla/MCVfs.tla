------------------------------- MODULE MCVfs -------------------------------
(* Small instances of Vfs for TLC.                                          *)
EXTENDS Vfs

Node(type, id) == [type |-> type, id |-> id]
MCNodes == {Node("session", 1), Node("session", 2), Node("meta", 1), Node("index", 0), Node("bin", 0),
            Node("program", 1), Node("live", 0), Node("tx", 0), Node("long", 0), Node("invalid", 0)}
=============================================================================
