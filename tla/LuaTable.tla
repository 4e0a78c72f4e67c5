------------------------------ MODULE LuaTable ------------------------------
(***************************************************************************)
(* What a table promises a Lua program: a map from keys to values in which *)
(* an absent key reads as Nil, changed by assignments and, where it is     *)
(* weak, by the collection of objects the program no longer holds.         *)
(***************************************************************************)
CONSTANTS
    Keys,      \* normalised keys
    Objects,   \* tables, functions, userdata and threads
    Plain,     \* numbers, strings and booleans
    Nil

Values == Plain \cup Objects

VARIABLES
    contents,  \* the map
    held       \* objects the program can reach without this table

vars == <<contents, held>>

Init ==
    /\ contents = [k \in Keys |-> Nil]
    /\ held = Objects

\* t[k] = v, with a key and a value the program has.
Assign(k, v) ==
    /\ ({k, v} \cap Objects) \subseteq held
    /\ contents' = [contents EXCEPT ![k] = v]
    /\ UNCHANGED held

\* The program finds objects in the table, as values or as keys.
Obtain(S) ==
    /\ \A o \in S : \/ o \in Keys /\ contents[o] # Nil
                    \/ \E k \in Keys : contents[k] = o
    /\ held' = held \cup S
    /\ UNCHANGED contents

Drop(o) ==
    /\ held' = held \ {o}
    /\ UNCHANGED contents

\* A collected object takes all its entries with it, as key and as value.
Collect(o) ==
    /\ o \notin held
    /\ contents' = [k \in Keys |->
                        IF k = o \/ contents[k] = o THEN Nil ELSE contents[k]]
    /\ UNCHANGED held

Next ==
    \/ \E k \in Keys, v \in Values \cup {Nil} : Assign(k, v)
    \/ \E S \in SUBSET Objects : Obtain(S)
    \/ \E o \in Objects : Drop(o) \/ Collect(o)

Spec == Init /\ [][Next]_vars
=============================================================================
