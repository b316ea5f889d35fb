---------------------------- MODULE TableRegistry ----------------------------
(***************************************************************************)
(* The tables of the REPL (src/main.cpp): g_tableStorage owns them, and    *)
(* g_tables, which queries and commands read, points to them.              *)
(*                                                                         *)
(* heap holds the tables that exist.  The address of a destroyed table may *)
(* be that of a later one.                                                 *)
(***************************************************************************)
EXTENDS Integers, Sequences, FiniteSets

CONSTANTS
    Addresses,
    BuiltinTables   \* the tables of addBuiltinTables, in order

ASSUME BuiltinAssumption ==
    /\ Len(BuiltinTables) \in Nat /\ DOMAIN BuiltinTables = 1..Len(BuiltinTables)
    /\ \A i, j \in DOMAIN BuiltinTables :
          BuiltinTables[i].name = BuiltinTables[j].name => i = j

VARIABLES
    heap,       \* address -> table
    storage,    \* g_tableStorage: [kind, at], kind being the pointer that is not null
    pointers    \* g_tables

registry == <<heap, storage, pointers>>

RegistryInit ==
    \E at \in [DOMAIN BuiltinTables -> Addresses] :
        /\ \A i, j \in DOMAIN at : at[i] = at[j] => i = j
        /\ storage = [i \in DOMAIN BuiltinTables |-> [kind |-> "mem", at |-> at[i]]]
        /\ pointers = at
        /\ heap = [a \in {at[i] : i \in DOMAIN at} |->
                      BuiltinTables[CHOOSE i \in DOMAIN at : at[i] = a]]

Entry(at) == [kind |-> "csv", at |-> at]
Free == Addresses \ DOMAIN heap

(* The loop of registerCSVTable: the first entry of that name. *)
Owned(i) == heap[storage[i].at]
IsFirst(i, name) ==
    /\ i \in DOMAIN storage /\ Owned(i).name = name
    /\ \A j \in 1..i-1 : Owned(j).name # name

(* (fault: the owner is replaced, and the pointer is not) *)
ReplaceOwner(i, at, table) ==
    /\ storage' = [storage EXCEPT ![i] = Entry(at)]
    /\ UNCHANGED pointers
    /\ heap' = [a \in (DOMAIN heap \ {storage[i].at}) \cup {at} |->
                   IF a = at THEN table ELSE heap[a]]

Replace(i, at, table) ==
    /\ storage' = [storage EXCEPT ![i] = Entry(at)]
    /\ pointers' = [pointers EXCEPT ![i] = at]
    /\ heap' = [a \in (DOMAIN heap \ {storage[i].at}) \cup {at} |->
                   IF a = at THEN table ELSE heap[a]]

Add(at, table) ==
    /\ storage' = Append(storage, Entry(at))
    /\ pointers' = Append(pointers, at)
    /\ heap' = [a \in DOMAIN heap \cup {at} |-> IF a = at THEN table ELSE heap[a]]

(* (fault: the loop that looks for the name is missing) *)
AlwaysAdd(table) == \E at \in Free : Add(at, table)

Register(table) ==
    \E at \in Free :
        \/ \E i \in DOMAIN storage : IsFirst(i, table.name) /\ Replace(i, at, table)
        \/ /\ \A i \in DOMAIN storage : Owned(i).name # table.name
           /\ Add(at, table)

-----------------------------------------------------------------------------
(* The three ways a table is looked up by name, each giving the set of     *)
(* what it finds: at most one.                                             *)

Pointed(i) == heap[pointers[i]]

(* cmdSchema: the first pointer *)
FindPointer(name) ==
    {pointers[i] : i \in {i \in DOMAIN pointers :
        Pointed(i).name = name /\ \A j \in 1..i-1 : Pointed(j).name # name}}

(* SQLCatalog: a later table replaces an earlier one *)
Catalogued(name) ==
    {pointers[i] : i \in {i \in DOMAIN pointers :
        Pointed(i).name = name /\ \A j \in i+1..Len(pointers) : Pointed(j).name # name}}

(* findCSVTable: the first owner of a loaded table *)
FindCSVTable(name) ==
    LET is(i) == storage[i].kind = "csv" /\ Owned(i).name = name
    IN  {storage[i].at : i \in {i \in DOMAIN storage : is(i) /\ \A j \in 1..i-1 : ~is(j)}}
=============================================================================
