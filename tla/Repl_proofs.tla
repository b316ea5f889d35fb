----------------------------- MODULE Repl_proofs -----------------------------
(***************************************************************************)
(* The shell's tables, for any files, names, loads and addresses.  Two     *)
(* inductive invariants, of parts of the state that meet in FinishLoad     *)
(* only: that of the registry, which a load replaces an entry of or adds   *)
(* one to, and that of the loader, which relates the cells filled so far   *)
(* to the dictionary as it has grown.                                      *)
(***************************************************************************)
EXTENDS Repl, SequenceTheorems, TLAPS

(* The registry *)

OneName ==
    \A i, j \in DOMAIN storage : Owned(i).name = Owned(j).name => i = j

RegistryInv ==
    /\ storage \in Seq([kind : {"mem", "csv"}, at : Addresses])
    /\ pointers \in Seq(Addresses)
    /\ RegistrySound
    /\ OneName

LEMMA RegistryInvInit == RegistryInit => RegistryInv
<1> SUFFICES ASSUME RegistryInit PROVE RegistryInv
  OBVIOUS
<1> DEFINE D == DOMAIN BuiltinTables
           Of(at) == [i \in D |-> [kind |-> "mem", at |-> at[i]]]
           HeapOf(at) == [a \in {at[i] : i \in D} |-> BuiltinTables[CHOOSE i \in D : at[i] = a]]
<1>1. PICK at \in [D -> Addresses] :
         /\ \A i, j \in D : at[i] = at[j] => i = j
         /\ storage = Of(at) /\ pointers = at /\ heap = HeapOf(at)
  BY DEF RegistryInit
<1>2. D = 1..Len(BuiltinTables) /\ Len(BuiltinTables) \in Nat
  BY BuiltinAssumption
<1>3. pointers \in Seq(Addresses) /\ DOMAIN pointers = D
  BY <1>1, <1>2
<1>4. storage \in [D -> [kind : {"mem", "csv"}, at : Addresses]]
  BY <1>1
<1>5. storage \in Seq([kind : {"mem", "csv"}, at : Addresses]) /\ DOMAIN storage = D
  <2> DEFINE Entries == [kind : {"mem", "csv"}, at : Addresses]
  <2>1. storage \in [D -> Entries]
    BY <1>4
  <2> HIDE DEF Entries
  <2>2. storage \in Seq(Entries) /\ DOMAIN storage = D
    BY <1>2, <2>1
  <2> QED BY <2>2 DEF Entries
<1>6. \A i \in D : storage[i].at = at[i]
  BY <1>1
<1>7. \A i \in D : heap[at[i]] = BuiltinTables[i]
  <2>1. ASSUME NEW i \in D PROVE (CHOOSE j \in D : at[j] = at[i]) = i
    BY <1>1
  <2> QED BY <1>1, <2>1
<1>8. DOMAIN heap = {at[i] : i \in D}
  BY <1>1
<1>9. RegistrySound
  BY <1>1, <1>3, <1>5, <1>6, <1>8 DEF RegistrySound
<1>10. OneName
  BY <1>1, <1>5, <1>6, <1>7, BuiltinAssumption DEF OneName, Owned
<1> QED BY <1>3, <1>5, <1>9, <1>10 DEF RegistryInv

(* Registering a table under a name that has one replaces owner and        *)
(* pointer in the same place; a new name gets a place at the end of both.  *)
LEMMA RegisterKeepsInv ==
    ASSUME RegistryInv, NEW table, Register(table)
    PROVE  RegistryInv'
<1> DEFINE Entries == [kind : {"mem", "csv"}, at : Addresses]
<1>0. /\ storage \in Seq(Entries) /\ pointers \in Seq(Addresses)
      /\ DOMAIN pointers = DOMAIN storage
      /\ \A i \in DOMAIN storage : pointers[i] = storage[i].at
      /\ DOMAIN heap = {storage[i].at : i \in DOMAIN storage}
      /\ \A i, j \in DOMAIN storage : storage[i].at = storage[j].at => i = j
  BY DEF RegistryInv, RegistrySound
<1>00. \A i, j \in DOMAIN storage : heap[storage[i].at].name = heap[storage[j].at].name => i = j
  BY DEF RegistryInv, OneName, Owned
<1>1. PICK new \in Free :
         \/ \E i \in DOMAIN storage : IsFirst(i, table.name) /\ Replace(i, new, table)
         \/ /\ \A i \in DOMAIN storage : Owned(i).name # table.name
            /\ Add(new, table)
  BY DEF Register
<1>2. new \in Addresses /\ new \notin DOMAIN heap
  BY DEF Free
<1>3. \A i \in DOMAIN storage : storage[i].at # new
  BY <1>0, <1>2
<1>4. Entry(new) \in Entries /\ Entry(new).at = new
  BY <1>2 DEF Entry
<1>5. ASSUME NEW i \in DOMAIN storage, IsFirst(i, table.name), Replace(i, new, table)
      PROVE  RegistryInv'
  <2> DEFINE entry == Entry(new)
  <2> HIDE DEF Entries, entry
  <2>1. storage' = [storage EXCEPT ![i] = entry] /\ pointers' = [pointers EXCEPT ![i] = new]
    BY <1>5 DEF Replace, entry
  <2>2. /\ storage' \in Seq(Entries) /\ DOMAIN storage' = DOMAIN storage
        /\ pointers' \in Seq(Addresses) /\ DOMAIN pointers' = DOMAIN storage
    BY <1>0, <1>2, <1>4, <2>1 DEF entry
  <2>3. \A j \in DOMAIN storage : storage'[j].at = IF j = i THEN new ELSE storage[j].at
    BY <1>0, <1>4, <2>1 DEF entry
  <2>4. \A j \in DOMAIN storage : pointers'[j] = storage'[j].at
    BY <1>0, <2>1, <2>3
  <2>5. \A j, m \in DOMAIN storage : storage'[j].at = storage'[m].at => j = m
    BY <1>0, <1>3, <2>3
  <2>6. heap' = [a \in (DOMAIN heap \ {storage[i].at}) \cup {new} |->
                     IF a = new THEN table ELSE heap[a]]
    BY <1>5 DEF Replace
  <2>7. DOMAIN heap' = {storage'[j].at : j \in DOMAIN storage}
    <3>1. DOMAIN heap' = (DOMAIN heap \ {storage[i].at}) \cup {new}
      BY <2>6
    <3>2. ASSUME NEW a \in DOMAIN heap' PROVE \E j \in DOMAIN storage : storage'[j].at = a
      BY <1>0, <2>3, <3>1
    <3>3. ASSUME NEW j \in DOMAIN storage PROVE storage'[j].at \in DOMAIN heap'
      BY <1>0, <2>3, <3>1
    <3> QED BY <3>2, <3>3
  <2>8. RegistrySound'
    BY <2>2, <2>4, <2>5, <2>7 DEF RegistrySound
  <2>9. \A j \in DOMAIN storage :
           heap'[storage'[j].at] = IF j = i THEN table ELSE heap[storage[j].at]
    BY <1>0, <1>3, <2>3, <2>6
  <2>10. heap[storage[i].at].name = table.name
    BY <1>5 DEF IsFirst, Owned
  <2>11. \A j, m \in DOMAIN storage :
            heap'[storage'[j].at].name = heap'[storage'[m].at].name => j = m
    <3> DEFINE nm(j) == heap'[storage'[j].at].name
    <3>1. \A j \in DOMAIN storage : nm(j) = heap[storage[j].at].name
      BY <2>9, <2>10
    <3> QED BY <1>00, <3>1
  <2>12. OneName'
    BY <2>2, <2>11 DEF OneName, Owned
  <2> QED BY <2>2, <2>8, <2>12 DEF RegistryInv, Entries
<1>6. ASSUME \A i \in DOMAIN storage : Owned(i).name # table.name, Add(new, table)
      PROVE  RegistryInv'
  <2> DEFINE entry == Entry(new)
             last  == Len(storage) + 1
  <2> HIDE DEF Entries, entry, last
  <2>1. storage' = Append(storage, entry) /\ pointers' = Append(pointers, new)
    BY <1>6 DEF Add, entry
  <2>2. Len(pointers) = Len(storage) /\ DOMAIN storage = 1..Len(storage) /\ last \notin DOMAIN storage
    BY <1>0 DEF last
  <2>3. /\ storage' \in Seq(Entries) /\ DOMAIN storage' = DOMAIN storage \cup {last}
        /\ pointers' \in Seq(Addresses) /\ DOMAIN pointers' = DOMAIN storage \cup {last}
    BY <1>0, <1>2, <1>4, <2>1, <2>2 DEF entry, last
  <2>4. /\ \A j \in DOMAIN storage : storage'[j] = storage[j] /\ pointers'[j] = pointers[j]
        /\ storage'[last] = entry /\ pointers'[last] = new
    BY <1>0, <1>4, <2>1, <2>2 DEF entry, last
  <2>5. \A j \in DOMAIN storage' : pointers'[j] = storage'[j].at
    BY <1>0, <1>4, <2>3, <2>4 DEF entry
  <2>6. \A j, m \in DOMAIN storage' : storage'[j].at = storage'[m].at => j = m
    BY <1>0, <1>3, <1>4, <2>3, <2>4 DEF entry
  <2>7. heap' = [a \in DOMAIN heap \cup {new} |-> IF a = new THEN table ELSE heap[a]]
    BY <1>6 DEF Add
  <2>8. DOMAIN heap' = {storage'[j].at : j \in DOMAIN storage'}
    <3>1. DOMAIN heap' = DOMAIN heap \cup {new}
      BY <2>7
    <3>2. ASSUME NEW a \in DOMAIN heap' PROVE \E j \in DOMAIN storage' : storage'[j].at = a
      BY <1>0, <1>4, <2>3, <2>4, <3>1 DEF entry
    <3>3. ASSUME NEW j \in DOMAIN storage' PROVE storage'[j].at \in DOMAIN heap'
      BY <1>0, <1>4, <2>3, <2>4, <3>1 DEF entry
    <3> QED BY <3>2, <3>3
  <2>9. RegistrySound'
    BY <2>3, <2>5, <2>6, <2>8 DEF RegistrySound
  <2>10. /\ \A j \in DOMAIN storage : heap'[storage'[j].at] = heap[storage[j].at]
         /\ heap'[storage'[last].at] = table
    BY <1>0, <1>3, <1>4, <2>4, <2>7 DEF entry
  <2>11. OneName'
    BY <1>6, <1>00, <2>3, <2>10 DEF OneName, Owned
  <2> QED BY <2>3, <2>9, <2>11 DEF RegistryInv, Entries
<1> QED BY <1>1, <1>5, <1>6

LEMMA RegistryInvStep == RegistryInv /\ [Next]_vars => RegistryInv'
<1> SUFFICES ASSUME RegistryInv, [Next]_vars PROVE RegistryInv'
  OBVIOUS
<1>1. CASE FinishLoad
  BY <1>1, RegisterKeepsInv DEF FinishLoad
<1>2. CASE UNCHANGED registry
  BY <1>2 DEF registry, RegistryInv, RegistrySound, OneName, Owned
<1>3. FinishLoad \/ UNCHANGED registry
  BY DEF Next, vars, StartLoad, LoadStep, FailLoad, BeginRepl, Schema, RunQuery, QueryTooWide, Unknown,
         ListTables, Quit, Display
<1> QED BY <1>1, <1>2, <1>3

(* The invariant of the registry holds of the shell.                       *)
LEMMA RegistryInvariant == Spec => []RegistryInv
<1>1. Init => RegistryInv
  BY RegistryInvInit DEF Init
<1> QED BY <1>1, RegistryInvStep, PTL DEF Spec

(* RegistrySound: the two vectors of main.cpp stay parallel, no pointer    *)
(* dangles and no table is owned twice, whatever is loaded and wherever    *)
(* the allocator puts it.                                                  *)
THEOREM RegistryStaysSound == Spec => []RegistrySound
<1>1. RegistryInv => RegistrySound
  BY DEF RegistryInv
<1> QED BY <1>1, RegistryInvariant, PTL

(* With unique names, the first and the last entry of a name are one.      *)
Here(n) == {i \in DOMAIN storage : Owned(i).name = n}

LEMMA SearchesFind ==
    ASSUME RegistryInv, NEW n
    PROVE  /\ FindPointer(n) = {storage[i].at : i \in Here(n)}
           /\ Catalogued(n) = {storage[i].at : i \in Here(n)}
           /\ FindCSVTable(n) = {storage[i].at : i \in {i \in Here(n) : storage[i].kind = "csv"}}
           /\ \A i, j \in Here(n) : i = j
           /\ \A i \in Here(n) : storage[i].kind \in {"mem", "csv"}
<1>1. /\ DOMAIN pointers = DOMAIN storage /\ DOMAIN storage = 1..Len(pointers)
      /\ Len(pointers) \in Nat
      /\ \A i \in DOMAIN storage : pointers[i] = storage[i].at
      /\ \A i, j \in DOMAIN storage : Owned(i).name = Owned(j).name => i = j
      /\ \A i \in DOMAIN storage : storage[i].kind \in {"mem", "csv"}
  <2> DEFINE Entries == [kind : {"mem", "csv"}, at : Addresses]
  <2>1. storage \in Seq(Entries) /\ pointers \in Seq(Addresses) /\ RegistrySound /\ OneName
    BY DEF RegistryInv
  <2>2. \A entry \in Entries : entry.kind \in {"mem", "csv"}
    OBVIOUS
  <2> HIDE DEF Entries
  <2>3. \A i \in DOMAIN storage : storage[i] \in Entries
    BY <2>1
  <2> QED BY <2>1, <2>2, <2>3 DEF RegistrySound, OneName
<1>2. \A i \in DOMAIN storage : Pointed(i) = Owned(i)
  BY <1>1 DEF Pointed, Owned
<1>3. FindPointer(n) = {storage[i].at : i \in Here(n)}
  <2>1. {i \in DOMAIN pointers : Pointed(i).name = n /\ \A j \in 1..i-1 : Pointed(j).name # n}
        = Here(n)
    BY <1>1, <1>2 DEF Here
  <2>2. FindPointer(n) = {pointers[i] : i \in Here(n)}
    BY <2>1 DEF FindPointer
  <2> QED BY <1>1, <2>2 DEF Here
<1>4. Catalogued(n) = {storage[i].at : i \in Here(n)}
  <2>1. {i \in DOMAIN pointers : Pointed(i).name = n
            /\ \A j \in i+1..Len(pointers) : Pointed(j).name # n} = Here(n)
    BY <1>1, <1>2 DEF Here
  <2>2. Catalogued(n) = {pointers[i] : i \in Here(n)}
    BY <2>1 DEF Catalogued
  <2> QED BY <1>1, <2>2 DEF Here
<1>5. FindCSVTable(n) = {storage[i].at : i \in {i \in Here(n) : storage[i].kind = "csv"}}
  <2>1. {i \in DOMAIN storage : (storage[i].kind = "csv" /\ Owned(i).name = n)
            /\ \A j \in 1..i-1 : ~(storage[j].kind = "csv" /\ Owned(j).name = n)}
        = {i \in Here(n) : storage[i].kind = "csv"}
    BY <1>1 DEF Here
  <2> QED BY <2>1 DEF FindCSVTable
<1>6. /\ \A i, j \in Here(n) : i = j
      /\ \A i \in Here(n) : storage[i].kind \in {"mem", "csv"}
  BY <1>1 DEF Here
<1> QED BY <1>3, <1>4, <1>5, <1>6

(* FoundAlike: the three searches for a name agree, because no two tables  *)
(* have one name.                                                          *)
THEOREM SearchesAgree == Spec => []FoundAlike
<1>1. RegistryInv => FoundAlike
  <2> SUFFICES ASSUME RegistryInv, NEW n \in Names
               PROVE  /\ FindPointer(n) = Catalogued(n)
                      /\ FindCSVTable(n) \subseteq FindPointer(n)
                      /\ FindPointer(n) \ FindCSVTable(n) \subseteq
                             {storage[i].at : i \in {i \in DOMAIN storage : storage[i].kind = "mem"}}
    BY DEF FoundAlike
  <2> DEFINE found == {storage[i].at : i \in Here(n)}
             csv   == {i \in Here(n) : storage[i].kind = "csv"}
  <2>1. FindPointer(n) = found /\ Catalogued(n) = found
    BY SearchesFind
  <2>2. FindCSVTable(n) = {storage[i].at : i \in csv}
    BY SearchesFind
  <2>3. \A i \in Here(n) : i \in DOMAIN storage /\ storage[i].kind \in {"mem", "csv"}
    BY SearchesFind DEF Here
  <2>4. ASSUME NEW at \in FindPointer(n) \ FindCSVTable(n)
        PROVE  at \in {storage[i].at : i \in {i \in DOMAIN storage : storage[i].kind = "mem"}}
    <3>1. PICK i \in Here(n) : at = storage[i].at
      BY <2>1
    <3> QED BY <2>2, <2>3, <3>1
  <2> QED BY <2>1, <2>2, <2>4
<1> QED BY <1>1, RegistryInvariant, PTL

-----------------------------------------------------------------------------
(* The loader *)

Unread == {"no", "open", "failed"}

Sound(dict) ==
    /\ dict.idToStr \in Seq(Cells)
    /\ \A s \in DOMAIN dict.strToId :
          /\ dict.strToId[s] \in DOMAIN dict.idToStr
          /\ dict.idToStr[dict.strToId[s]] = s

DictSound == Sound(strings)

LoaderTypes ==
    /\ reading \in Unread \cup {"rows", "fill", "done"}
    /\ Idle \/ name \in Names
    /\ headers \in Seq(Cells) /\ sawNonInt \subseteq 1..NumCols
    /\ rawRows \in Seq([1..NumCols -> Cells])
    /\ line \in Nat

LoaderPlace ==
    /\ reading \in Unread => rawRows = <<>> /\ sawNonInt = {} /\ line = 0
    /\ reading \notin Unread => headers # <<>> /\ HasHeader
    /\ reading = "rows" => line > 0
    /\ reading \in Unread \cup {"rows"} => row = 1 /\ col = 1
    /\ reading = "fill" => row \in 1..Len(rawRows) /\ col \in 1..NumCols
    /\ reading \in {"fill", "done"} => columns \in [1..NumCols -> [1..Len(rawRows) -> Int]]

LoaderInv ==
    /\ LoaderTypes
    /\ LoaderPlace
    /\ DictSound
    /\ TextsDecode

LEMMA NoStringsSound == Sound(NoStrings)
<1>1. NoStrings.idToStr = <<>> /\ NoStrings.strToId = [s \in {} |-> 0]
  BY DEF NoStrings
<1>2. DOMAIN NoStrings.strToId = {}
  BY <1>1
<1> QED BY <1>1, <1>2, EmptySeq DEF Sound

LEMMA LoaderInvInit ==
    ASSUME LoaderInit
    PROVE  LoaderInv
<1> USE DEF LoaderInit
<1>2. LoaderTypes
  <2>1. headers \in Seq(Cells) /\ rawRows \in Seq([1..NumCols -> Cells])
    BY EmptySeq
  <2> QED BY <2>1 DEF LoaderTypes, Unread, Idle
<1>3. LoaderPlace
  BY DEF LoaderPlace, Unread
<1>4. DictSound
  BY NoStringsSound DEF DictSound
<1>5. TextsDecode
  BY DEF TextsDecode
<1> QED BY <1>2, <1>3, <1>4, <1>5 DEF LoaderInv

LEMMA ResetKeepsInv ==
    ASSUME LoaderReset
    PROVE  LoaderInv'
<1> USE DEF LoaderReset
<1>2. LoaderTypes'
  <2>1. headers' \in Seq(Cells) /\ rawRows' \in Seq([1..NumCols' -> Cells])
    BY EmptySeq
  <2> QED BY <2>1 DEF LoaderTypes, Unread, Idle
<1>3. LoaderPlace'
  BY DEF LoaderPlace, Unread
<1>4. DictSound'
  BY NoStringsSound DEF DictSound
<1>5. TextsDecode'
  BY DEF TextsDecode
<1> QED BY <1>2, <1>3, <1>4, <1>5 DEF LoaderInv

LEMMA OpenKeepsInv ==
    ASSUME LoaderInv, NEW p, NEW n \in Names, Open(p, n)
    PROVE  LoaderInv'
<1> USE DEF Open, LoaderInv
<1>1. LoaderTypes'
  BY DEF LoaderTypes, Unread, Idle, NumCols
<1>2. LoaderPlace'
  BY DEF LoaderPlace, Unread, HasHeader, NumCols
<1>3. DictSound'
  BY DEF DictSound, Sound
<1>4. TextsDecode'
  BY DEF TextsDecode, LoaderPlace, Unread
<1> QED BY <1>1, <1>2, <1>3, <1>4

LEMMA FailKeepsInv ==
    ASSUME LoaderInv, Fails
    PROVE  LoaderInv'
<1> USE DEF Fails, LoaderInv
<1>1. LoaderTypes'
  BY DEF LoaderTypes, Unread, Idle, NumCols
<1>2. LoaderPlace'
  BY DEF LoaderPlace, Unread, HasHeader, NumCols
<1>3. DictSound'
  BY DEF DictSound, Sound
<1>4. TextsDecode'
  BY DEF TextsDecode, LoaderPlace, Unread
<1> QED BY <1>1, <1>2, <1>3, <1>4

LEMMA HeaderKeepsInv ==
    ASSUME LoaderInv, ReadHeader
    PROVE  LoaderInv'
<1> USE DEF ReadHeader, LoaderInv
<1>1. headers' \in Seq(Cells) /\ headers' # <<>>
  BY LoaderAssumption DEF HasHeader
<1>2. rawRows' = <<>> /\ sawNonInt' = {}
  BY DEF LoaderPlace, Unread
<1>3. LoaderTypes'
  BY <1>1, <1>2 DEF LoaderTypes, Unread, Idle
<1>4. LoaderPlace'
  BY <1>1, <1>2 DEF LoaderPlace, Unread, HasHeader
<1>5. DictSound'
  BY DEF DictSound, Sound
<1>6. TextsDecode'
  BY <1>2 DEF TextsDecode
<1> QED BY <1>3, <1>4, <1>5, <1>6

LEMMA SkipKeepsInv ==
    ASSUME LoaderInv, SkipLine
    PROVE  LoaderInv'
<1> USE DEF SkipLine, MoreLines, LoaderInv
<1>1. LoaderTypes'
  BY DEF LoaderTypes, Unread, Idle, NumCols
<1>2. LoaderPlace'
  BY DEF LoaderPlace, LoaderTypes, Unread, HasHeader, NumCols
<1>3. DictSound'
  BY DEF DictSound, Sound
<1>4. TextsDecode'
  BY DEF TextsDecode, Filled
<1> QED BY <1>1, <1>2, <1>3, <1>4

(* Every row is cut or padded to the width of the header. *)
LEMMA RowType ==
    ASSUME NEW fields \in Seq(Cells), headers \in Seq(Cells)
    PROVE  Row(fields) \in [1..NumCols -> Cells]
BY LoaderAssumption DEF Row, NumCols

LEMMA RowKeepsInv ==
    ASSUME LoaderInv, ReadRow
    PROVE  LoaderInv'
<1> USE DEF ReadRow, MoreLines, LoaderInv
<1> DEFINE fields == Row(Split(Disk[path][line + 1]))
<1>1. line + 1 \in 2..Len(Disk[path]) /\ path \in DOMAIN Disk
  BY LoaderAssumption DEF LoaderTypes, LoaderPlace, Unread, HasHeader
<1>2. fields \in [1..NumCols -> Cells]
  BY <1>1, RowType, LoaderAssumption DEF LoaderTypes
<1>3. rawRows' = Append(rawRows, fields)
  OBVIOUS
<1>4. sawNonInt' \subseteq 1..NumCols
  BY DEF LoaderTypes
<1> HIDE DEF fields
<1>5. LoaderTypes'
  BY <1>2, <1>3, <1>4 DEF LoaderTypes, Unread, Idle, NumCols
<1>6. LoaderPlace'
  BY DEF LoaderPlace, LoaderTypes, Unread, HasHeader, NumCols
<1>7. DictSound'
  BY DEF DictSound, Sound
<1>8. TextsDecode'
  BY DEF TextsDecode, Filled
<1> QED BY <1>5, <1>6, <1>7, <1>8

LEMMA TypesKeepInv ==
    ASSUME LoaderInv, AssignTypes
    PROVE  LoaderInv'
<1> USE DEF AssignTypes, LoaderInv
<1>1. LoaderTypes'
  BY DEF LoaderTypes, Unread, Idle, NumCols
<1>2. columns' \in [1..NumCols -> [1..Len(rawRows) -> Int]]
  OBVIOUS
<1>3. rawRows # <<>> => 1 \in 1..Len(rawRows)
  BY DEF LoaderTypes
<1>4. 1 \in 1..NumCols
  BY DEF LoaderTypes, LoaderPlace, Unread, NumCols
<1>5. LoaderPlace'
  BY <1>2, <1>3, <1>4 DEF LoaderPlace, Unread, HasHeader, NumCols
<1>6. DictSound'
  BY DEF DictSound, Sound
<1>7. TextsDecode'
  <2>1. ASSUME NEW r \in DOMAIN rawRows', NEW c \in sawNonInt', Filled(r, c)' PROVE FALSE
    <3>1. row' = 1 /\ col' = 1
      BY DEF LoaderPlace, Unread
    <3>2. r \in 1..Len(rawRows) /\ c \in Nat \ {0}
      BY <2>1 DEF LoaderTypes
    <3>3. CASE rawRows = <<>>
      BY <3>2, <3>3
    <3>4. CASE rawRows # <<>>
      BY <2>1, <3>1, <3>2, <3>4 DEF Filled
    <3> QED BY <3>3, <3>4
  <2> QED BY <2>1 DEF TextsDecode
<1> QED BY <1>1, <1>5, <1>6, <1>7

(* A dictionary stays sound when a text is interned, and every id it gave  *)
(* out before still stands for the same text.                              *)
LEMMA InternKeeps ==
    ASSUME NEW dict, Sound(dict), NEW s \in Cells
    PROVE  /\ Sound(Intern(dict, s))
           /\ s \in DOMAIN Intern(dict, s).strToId
           /\ \A id \in DOMAIN dict.idToStr :
                 /\ id \in DOMAIN Intern(dict, s).idToStr
                 /\ Intern(dict, s).idToStr[id] = dict.idToStr[id]
<1>1. CASE Known(dict, s)
  BY <1>1 DEF Intern, Known
<1>2. CASE ~Known(dict, s)
  <2> DEFINE toId  == Intern(dict, s).strToId
             toStr == Intern(dict, s).idToStr
             n     == Len(dict.idToStr) + 1
  <2>1. /\ toId = [t \in DOMAIN dict.strToId \cup {s} |->
                      IF t = s THEN n ELSE dict.strToId[t]]
        /\ toStr = Append(dict.idToStr, s)
    BY <1>2 DEF Intern
  <2>2. dict.idToStr \in Seq(Cells)
    BY DEF Sound
  <2>3. toStr \in Seq(Cells) /\ n \in DOMAIN toStr /\ toStr[n] = s
    BY <2>1, <2>2
  <2>4. \A id \in DOMAIN dict.idToStr : id \in DOMAIN toStr /\ toStr[id] = dict.idToStr[id]
    BY <2>1, <2>2
  <2>5. ASSUME NEW t \in DOMAIN toId
        PROVE  toId[t] \in DOMAIN toStr /\ toStr[toId[t]] = t
    <3>1. CASE t = s
      BY <2>1, <2>3, <3>1
    <3>2. CASE t # s
      <4>1. t \in DOMAIN dict.strToId /\ toId[t] = dict.strToId[t]
        BY <2>1, <3>2
      <4>2. dict.strToId[t] \in DOMAIN dict.idToStr /\ dict.idToStr[dict.strToId[t]] = t
        BY <4>1 DEF Sound
      <4> QED BY <2>4, <4>1, <4>2
    <3> QED BY <3>1, <3>2
  <2>6. s \in DOMAIN toId
    BY <2>1
  <2>7. Sound(Intern(dict, s))
    BY <2>3, <2>5 DEF Sound
  <2> QED BY <2>4, <2>6, <2>7
<1> QED BY <1>1, <1>2

LEMMA FillKeepsInv ==
    ASSUME LoaderInv, FillCell
    PROVE  LoaderInv'
<1> DEFINE interned == IsStringCol(col) /\ Cell # <<>>
           value    == IF IsStringCol(col)
                       THEN IF interned THEN strings'.strToId[Cell] ELSE 0
                       ELSE IF IsInt(Cell) THEN IntOf(Cell) ELSE 0
<1>1. /\ reading = "fill"
      /\ strings' = IF interned THEN Intern(strings, Cell) ELSE strings
      /\ columns' = [columns EXCEPT ![col][row] = value]
      /\ IF col < NumCols THEN row' = row /\ col' = col + 1
                          ELSE row' = row + 1 /\ col' = 1
      /\ reading' = IF row' > Len(rawRows) THEN "done" ELSE "fill"
      /\ UNCHANGED <<path, name, line, headers, rawRows, sawNonInt>>
  BY DEF FillCell
<1>2. /\ row \in 1..Len(rawRows) /\ col \in 1..NumCols
      /\ NumCols \in Nat /\ Len(rawRows) \in Nat /\ NumCols' = NumCols
      /\ rawRows \in Seq([1..NumCols -> Cells])
      /\ columns \in [1..NumCols -> [1..Len(rawRows) -> Int]]
      /\ sawNonInt \subseteq 1..NumCols
  BY <1>1 DEF LoaderInv, LoaderTypes, LoaderPlace, NumCols
<1>3. Cell \in Cells
  BY <1>2 DEF Cell
<1>4. /\ Sound(strings')
      /\ interned => Cell \in DOMAIN strings'.strToId
      /\ \A id \in DOMAIN strings.idToStr :
            id \in DOMAIN strings'.idToStr /\ strings'.idToStr[id] = strings.idToStr[id]
  <2>1. Sound(strings)
    BY DEF LoaderInv, DictSound
  <2>2. CASE interned
    BY <1>1, <1>3, <2>1, <2>2, InternKeeps
  <2>3. CASE ~interned
    BY <1>1, <2>1, <2>3
  <2> QED BY <2>2, <2>3
<1>5. interned => /\ value \in DOMAIN strings'.idToStr
                  /\ strings'.idToStr[value] = Cell
  BY <1>4 DEF Sound
<1>6. value \in Int
  <2>1. DOMAIN strings'.idToStr \subseteq Int
    BY <1>4 DEF Sound
  <2>2. IsInt(Cell) => IntOf(Cell) \in Int
    BY <1>3, LoaderAssumption
  <2> QED BY <1>5, <2>1, <2>2
<1> HIDE DEF value
<1>7. /\ columns' \in [1..NumCols -> [1..Len(rawRows) -> Int]]
      /\ columns'[col][row] = value
      /\ \A c \in 1..NumCols, r \in 1..Len(rawRows) :
            r # row \/ c # col => columns'[c][r] = columns[c][r]
  BY <1>1, <1>2, <1>6
<1>8. LoaderTypes'
  BY <1>1, <1>2 DEF LoaderInv, LoaderTypes, Unread, Idle
<1>9. LoaderPlace'
  <2>1. reading' \in {"fill", "done"} /\ headers' # <<>> /\ HasHeader'
    BY <1>1 DEF LoaderInv, LoaderPlace, Unread, HasHeader
  <2>2. reading' = "fill" => row' \in 1..Len(rawRows) /\ col' \in 1..NumCols
    BY <1>1, <1>2
  <2> QED BY <1>1, <1>2, <1>7, <2>1, <2>2 DEF LoaderPlace, Unread
<1>10. ASSUME NEW r \in DOMAIN rawRows', NEW c \in sawNonInt', Filled(r, c)'
       PROVE  IF rawRows'[r][c] = <<>> THEN columns'[c][r] = 0
              ELSE /\ columns'[c][r] \in DOMAIN strings'.idToStr
                   /\ Lookup(strings, columns[c][r])' = rawRows'[r][c]
  <2>1. r \in 1..Len(rawRows) /\ c \in 1..NumCols /\ c \in sawNonInt /\ r \in DOMAIN rawRows
    BY <1>1, <1>2
  <2>2. CASE r = row /\ c = col
    <3>1. rawRows'[r][c] = Cell /\ columns'[c][r] = value /\ IsStringCol(col)
      BY <1>1, <1>7, <2>1, <2>2 DEF Cell, IsStringCol
    <3>2. Cell = <<>> => value = 0
      BY <3>1 DEF value
    <3> QED BY <1>5, <3>1, <3>2 DEF Lookup
  <2>3. CASE r # row \/ c # col
    <3>1. Filled(r, c)
      BY <1>1, <1>2, <1>10, <2>1, <2>3 DEF Filled
    <3>2. IF rawRows[r][c] = <<>> THEN columns[c][r] = 0
          ELSE /\ columns[c][r] \in DOMAIN strings.idToStr
               /\ Lookup(strings, columns[c][r]) = rawRows[r][c]
      BY <2>1, <3>1 DEF LoaderInv, TextsDecode
    <3>3. columns'[c][r] = columns[c][r] /\ rawRows' = rawRows
      BY <1>1, <1>7, <2>1, <2>3
    <3> QED BY <1>4, <3>2, <3>3 DEF Lookup
  <2> QED BY <2>2, <2>3
<1>11. TextsDecode'
  BY <1>10 DEF TextsDecode
<1> QED BY <1>4, <1>8, <1>9, <1>11 DEF LoaderInv, DictSound

LEMMA LoaderInvStep ==
    ASSUME LoaderInv, [Next]_vars
    PROVE  LoaderInv'
<1>1. ASSUME NEW p, NEW n \in Names, StartLoad(p, n) PROVE LoaderInv'
  BY <1>1, OpenKeepsInv DEF StartLoad
<1>2. CASE LoadStep
  BY <1>2, FailKeepsInv, HeaderKeepsInv, SkipKeepsInv, RowKeepsInv, TypesKeepInv, FillKeepsInv
     DEF LoadStep, LoaderNext
<1>3. CASE FinishLoad
  BY <1>3, ResetKeepsInv DEF FinishLoad
<1>4. CASE FailLoad
  BY <1>4, ResetKeepsInv DEF FailLoad
<1>5. CASE UNCHANGED loaderVars
  <2>1. /\ reading' = reading /\ path' = path /\ name' = name /\ line' = line
        /\ headers' = headers /\ rawRows' = rawRows /\ sawNonInt' = sawNonInt
        /\ row' = row /\ col' = col /\ columns' = columns /\ strings' = strings
    BY <1>5 DEF loaderVars
  <2>2. LoaderTypes'
    BY <2>1 DEF LoaderInv, LoaderTypes, Idle, NumCols
  <2>3. LoaderPlace'
    BY <2>1 DEF LoaderInv, LoaderPlace, NumCols, HasHeader
  <2>4. DictSound'
    BY <2>1 DEF LoaderInv, DictSound
  <2>5. ASSUME NEW r, NEW c PROVE Filled(r, c)' = Filled(r, c)
    BY <2>1 DEF Filled, Unread
  <2>6. TextsDecode'
    BY <2>1, <2>5 DEF LoaderInv, TextsDecode, Lookup
  <2> QED BY <2>2, <2>3, <2>4, <2>6 DEF LoaderInv
<1>6. CASE BeginRepl \/ ListTables \/ Quit
  <2>1. UNCHANGED loaderVars
    BY <1>6 DEF BeginRepl, ListTables, Quit, Display
  <2> QED BY <1>5, <2>1
<1>7. ASSUME NEW n \in Names, Schema(n) \/ RunQuery(n) \/ QueryTooWide(n) \/ Unknown(n)
      PROVE  LoaderInv'
  <2>1. UNCHANGED loaderVars
    BY <1>7 DEF Schema, RunQuery, QueryTooWide, Unknown, Display
  <2> QED BY <1>5, <2>1
<1>8. CASE UNCHANGED vars
  BY <1>5, <1>8 DEF vars
<1> QED BY <1>1, <1>2, <1>3, <1>4, <1>6, <1>7, <1>8 DEF Next

LEMMA LoaderInvariant == Spec => []LoaderInv
<1>1. Init => LoaderInv
  BY LoaderInvInit DEF Init
<1> QED BY <1>1, LoaderInvStep, PTL DEF Spec

(* In every load of every file, the id in a text cell stands for the text  *)
(* of that cell, whatever is interned after it.                            *)
THEOREM TextsKeepTheirIds == Spec => []TextsDecode
<1>1. LoaderInv => TextsDecode
  BY DEF LoaderInv
<1> QED BY <1>1, LoaderInvariant, PTL

(* The shell's variables keep their types: a load is under way only with   *)
(* its arguments, rows are as wide as the header, and the cell that is     *)
(* filled next exists.                                                     *)
THEOREM TypeCorrect == ASSUME MaxLoads \in Nat PROVE Spec => []TypeOK
<1> DEFINE Rest == mode \in {"startup", "repl", "exited"} /\ loads \in 0..MaxLoads
<1>1. Init => Rest
  BY DEF Init
<1>2. ASSUME Rest, [Next]_vars PROVE Rest'
  <2>1. ASSUME NEW p, NEW n, StartLoad(p, n) PROVE Rest'
    BY <1>2, <2>1 DEF StartLoad
  <2>2. CASE LoadStep \/ FinishLoad \/ FailLoad \/ BeginRepl \/ ListTables \/ Quit
    BY <1>2, <2>2 DEF LoadStep, FinishLoad, FailLoad, BeginRepl, ListTables, Quit, Display, replVars
  <2>3. ASSUME NEW n, Schema(n) \/ RunQuery(n) \/ QueryTooWide(n) \/ Unknown(n) PROVE Rest'
    BY <1>2, <2>3 DEF Schema, RunQuery, QueryTooWide, Unknown, Display
  <2>4. CASE UNCHANGED vars
    BY <1>2, <2>4 DEF vars, replVars
  <2> QED BY <1>2, <2>1, <2>2, <2>3, <2>4 DEF Next
<1>3. LoaderInv /\ Rest => TypeOK
  BY DEF LoaderInv, LoaderTypes, LoaderPlace, TypeOK, Unread
<1> HIDE DEF Rest
<1> QED BY <1>1, <1>2, <1>3, LoaderInvariant, PTL DEF Spec
=============================================================================
