------------------------------ MODULE MCStores ------------------------------
(* The MemoryStore and SqliteStores in memory and on disk, each exercised   *)
(* one area of tables at a time.                                            *)
EXTENDS Stores

MCBackends ==
    {[engine |-> "memory", home |-> "ram", sync |-> "normal", retain |-> TRUE]} \cup
    [engine : {"sqlite"}, home : {"disk"}, sync : {"full", "normal"}, retain : {FALSE}] \cup
    [engine : {"sqlite"}, home : {"ram"}, sync : {"normal"}, retain : {FALSE}]
=============================================================================
