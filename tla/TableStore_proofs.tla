-------------------------- MODULE TableStore_proofs --------------------------
(***************************************************************************)
(* The shell implements TableStore, for any files, names and loads: what   *)
(* a command shows under a name is what the file last loaded under it      *)
(* says.  What is added to the invariants of Repl_proofs is what a load    *)
(* has read so far, what the loaded tables keep of it when the loader is   *)
(* reset, and that the screen is empty while a load runs.                  *)
(***************************************************************************)
EXTENDS Repl_proofs, FiniteSetTheorems

(* The loader *)

(* The rows read so far are the first rows of the sheet.                   *)
ReadsFile ==
    reading \notin Unread =>
        /\ headers = Sheets[path].header
        /\ line \in 1..Len(Disk[path])
        /\ reading # "rows" => line = Len(Disk[path])
        /\ Len(rawRows) = RowsUpTo(path, line)
        /\ \A r \in DOMAIN rawRows : \A c \in 1..NumCols :
              rawRows[r][c] = Sheets[path].rows[r][c]

(* A column is text if one of the rows checked so far is.                  *)
ChecksRows ==
    sawNonInt = {c \in 1..NumCols : \E r \in DOMAIN rawRows :
                    r <= TypeCheckRows /\ NonNumeric(rawRows[r][c])}

NumbersParsed ==
    \A r \in DOMAIN rawRows : \A c \in 1..NumCols :
        c \notin sawNonInt /\ Filled(r, c) =>
            columns[c][r] = IF IsInt(rawRows[r][c]) THEN IntOf(rawRows[r][c]) ELSE 0

(* Every id has been given to one text, which is not blank.                *)
Injective(dict) ==
    \A id \in DOMAIN dict.idToStr :
        /\ dict.idToStr[id] # <<>>
        /\ dict.idToStr[id] \in DOMAIN dict.strToId
        /\ dict.strToId[dict.idToStr[id]] = id

ContentInv == ReadsFile /\ ChecksRows /\ NumbersParsed /\ Injective(strings)

LEMMA LoaderSteps ==
    ASSUME [Next]_vars
    PROVE  \/ UNCHANGED loaderVars
           \/ \E p, n : n \in Names /\ Open(p, n)
           \/ Fails \/ ReadHeader \/ SkipLine \/ ReadRow \/ AssignTypes \/ FillCell
           \/ LoaderReset
BY DEF Next, vars, StartLoad, LoadStep, LoaderNext, FinishLoad, FailLoad, BeginRepl,
       Schema, RunQuery, QueryTooWide, Unknown, ListTables, Quit, Display

(* One more line is one more row, if it is not skipped.                    *)
LEMMA OneMoreRow ==
    ASSUME NEW p, NEW n \in Nat \ {0}
    PROVE  /\ RowsUpTo(p, n) \in Nat
           /\ RowsUpTo(p, 1) = 0
           /\ RowsUpTo(p, n + 1) = IF Skipped(Disk[p][n + 1]) THEN RowsUpTo(p, n)
                                   ELSE RowsUpTo(p, n) + 1
<1> DEFINE Is(m) == ~Skipped(Disk[p][m])
           Kept(k) == {m \in 2..k : Is(m)}
<1>1. \A k : RowsUpTo(p, k) = Cardinality(Kept(k))
  BY DEF RowsUpTo
<1>2. IsFiniteSet(Kept(n))
  <2>1. IsFiniteSet(2..n)
    BY FS_Interval
  <2> QED BY <2>1, FS_Subset
<1>3. Kept(1) = {}
  OBVIOUS
<1>4. CASE Is(n + 1)
  <2>1. Kept(n + 1) = Kept(n) \cup {n + 1} /\ n + 1 \notin Kept(n)
    BY <1>4
  <2> HIDE DEF Kept
  <2>2. Cardinality(Kept(n + 1)) = Cardinality(Kept(n)) + 1
    BY <1>2, <2>1, FS_AddElement
  <2> QED BY <1>1, <1>2, <1>3, <1>4, <2>2, FS_CardinalityType, FS_EmptySet
<1>5. CASE ~Is(n + 1)
  <2>1. Kept(n + 1) = Kept(n)
    BY <1>5
  <2> HIDE DEF Kept
  <2> QED BY <1>1, <1>2, <1>3, <1>5, <2>1, FS_CardinalityType, FS_EmptySet
<1> QED BY <1>4, <1>5

LEMMA ReadsFileStep ==
    ASSUME FilesAsRead, LoaderInv, ReadsFile, [Next]_vars
    PROVE  ReadsFile'
<1>1. CASE UNCHANGED loaderVars
  BY <1>1 DEF loaderVars, ReadsFile, NumCols, Unread
<1>2. CASE reading' \in Unread
  BY <1>2 DEF ReadsFile, Unread
<1>3. CASE ReadHeader
  <2> USE DEF ReadHeader, LoaderInv
  <2>1. path \in DOMAIN Disk /\ Len(Disk[path]) > 0 /\ Len(Disk[path]) \in Nat
    BY <1>3, LoaderAssumption DEF HasHeader
  <2>2. headers' = Sheets[path].header
    BY <1>3, <2>1 DEF FilesAsRead, Reads, HeaderOf
  <2>3. rawRows' = <<>> /\ line' = 1 /\ reading' = "rows" /\ path' = path
    BY <1>3 DEF LoaderPlace, Unread
  <2>4. RowsUpTo(path, 1) = 0
    BY OneMoreRow
  <2> QED BY <2>1, <2>2, <2>3, <2>4 DEF ReadsFile
<1> DEFINE R == /\ headers = Sheets[path].header
                /\ line \in 1..Len(Disk[path])
                /\ reading # "rows" => line = Len(Disk[path])
                /\ Len(rawRows) = RowsUpTo(path, line)
                /\ \A r \in DOMAIN rawRows : \A c \in 1..NumCols :
                      rawRows[r][c] = Sheets[path].rows[r][c]
<1>4. CASE SkipLine
  <2>1. R /\ line < Len(Disk[path]) /\ reading = "rows" /\ Skipped(Disk[path][line + 1])
    BY <1>4 DEF SkipLine, MoreLines, ReadsFile, Unread
  <2>2. Len(Disk[path]) \in Nat
    BY <2>1, LoaderAssumption DEF LoaderInv, LoaderPlace, Unread, HasHeader
  <2>3. RowsUpTo(path, line + 1) = RowsUpTo(path, line)
    BY <2>1, <2>2, OneMoreRow
  <2> QED BY <1>4, <2>1, <2>2, <2>3 DEF SkipLine, ReadsFile, NumCols
<1>5. CASE ReadRow
  <2> DEFINE fields == Row(Split(Disk[path][line + 1]))
             sheet  == Sheets[path]
             last   == Len(rawRows) + 1
  <2>1. /\ R /\ line < Len(Disk[path]) /\ reading = "rows" /\ ~Skipped(Disk[path][line + 1])
        /\ rawRows' = Append(rawRows, fields) /\ line' = line + 1
        /\ UNCHANGED <<reading, path, headers>>
    BY <1>5 DEF ReadRow, MoreLines, ReadsFile, Unread
  <2>2. Len(Disk[path]) \in Nat /\ path \in DOMAIN Disk /\ Len(Disk[path]) > 0
    BY <2>1, LoaderAssumption DEF LoaderInv, LoaderPlace, Unread, HasHeader
  <2>3. line + 1 \in 2..Len(Disk[path]) /\ line \in Nat \ {0}
    BY <2>1, <2>2
  <2>4. RowsUpTo(path, line + 1) = last
    BY <2>1, <2>3, OneMoreRow
  <2>5. \A c \in DOMAIN sheet.header : sheet.rows[last][c] = FieldOf(path, line + 1, c)
    <3>1. Reads(sheet, path)
      BY <2>2 DEF FilesAsRead
    <3> HIDE DEF sheet
    <3> QED BY <2>1, <2>3, <2>4, <3>1 DEF Reads
  <2>6. DOMAIN sheet.header = 1..NumCols
    BY <2>1 DEF NumCols, LoaderInv, LoaderTypes
  <2>7. \A c \in 1..NumCols : fields[c] = sheet.rows[last][c]
    <3>1. \A c \in 1..NumCols : fields[c] = FieldOf(path, line + 1, c)
      BY DEF Row, FieldOf
    <3> QED BY <2>5, <2>6, <3>1
  <2>8. rawRows \in Seq([1..NumCols -> Cells])
    BY DEF LoaderInv, LoaderTypes
  <2> HIDE DEF fields
  <2>9. \A r \in DOMAIN rawRows' :
           rawRows'[r] = IF r = last THEN fields ELSE rawRows[r]
    BY <2>1, <2>8
  <2>10. \A r \in DOMAIN rawRows' : r = last \/ r \in DOMAIN rawRows
    BY <2>1, <2>8
  <2>11. \A r \in DOMAIN rawRows' : \A c \in 1..NumCols : rawRows'[r][c] = sheet.rows[r][c]
    BY <2>1, <2>7, <2>9, <2>10
  <2>12. Len(rawRows') = last
    BY <2>1, <2>8
  <2>13. NumCols' = NumCols
    BY <2>1 DEF NumCols
  <2> QED BY <2>1, <2>3, <2>4, <2>11, <2>12, <2>13 DEF ReadsFile
<1>6. CASE AssignTypes
  <2>1. R
    BY <1>6 DEF AssignTypes, ReadsFile, Unread
  <2> QED BY <1>6, <2>1 DEF AssignTypes, ReadsFile, NumCols
<1>7. CASE FillCell
  <2>1. R /\ line = Len(Disk[path])
    BY <1>7 DEF FillCell, ReadsFile, Unread
  <2> QED BY <1>7, <2>1 DEF FillCell, ReadsFile, NumCols
<1>8. CASE Fails \/ LoaderReset \/ \E p, n : n \in Names /\ Open(p, n)
  BY <1>2, <1>8 DEF Fails, LoaderReset, Open, Unread
<1> QED BY <1>1, <1>3, <1>4, <1>5, <1>6, <1>7, <1>8, LoaderSteps

LEMMA ChecksRowsStep ==
    ASSUME LoaderInv, ChecksRows, [Next]_vars
    PROVE  ChecksRows'
<1>1. CASE UNCHANGED <<headers, rawRows, sawNonInt>>
  BY <1>1 DEF ChecksRows, NumCols
<1>2. CASE ReadHeader \/ LoaderReset
  <2>1. rawRows' = <<>> /\ sawNonInt' = {}
    BY <1>2 DEF ReadHeader, LoaderReset, LoaderInv, LoaderPlace, Unread
  <2> QED BY <2>1 DEF ChecksRows
<1>3. CASE ReadRow
  <2> DEFINE fields == Row(Split(Disk[path][line + 1]))
             last   == Len(rawRows) + 1
             Of(rows, k) == \E r \in DOMAIN rows : r <= TypeCheckRows /\ NonNumeric(rows[r][k])
  <2>1. /\ rawRows' = Append(rawRows, fields)
        /\ sawNonInt' = IF Len(rawRows) < TypeCheckRows
                        THEN sawNonInt \cup {c \in 1..NumCols : NonNumeric(fields[c])}
                        ELSE sawNonInt
        /\ NumCols' = NumCols
    BY <1>3 DEF ReadRow, NumCols
  <2>2. rawRows \in Seq([1..NumCols -> Cells]) /\ TypeCheckRows \in Nat
    BY LoaderAssumption DEF LoaderInv, LoaderTypes
  <2> HIDE DEF fields
  <2>3. /\ Len(rawRows) \in Nat /\ DOMAIN rawRows = 1..Len(rawRows)
        /\ DOMAIN rawRows' = 1..last /\ rawRows'[last] = fields
        /\ \A r \in DOMAIN rawRows : rawRows'[r] = rawRows[r]
    BY <2>1, <2>2
  <2>4. ASSUME NEW c \in 1..NumCols
        PROVE  c \in sawNonInt' <=> Of(rawRows', c)
    <3>1. c \in sawNonInt <=> Of(rawRows, c)
      BY DEF ChecksRows
    <3>2. Of(rawRows', c) <=> Of(rawRows, c) \/ (last <= TypeCheckRows /\ NonNumeric(fields[c]))
      BY <2>2, <2>3
    <3>3. last <= TypeCheckRows <=> Len(rawRows) < TypeCheckRows
      BY <2>2, <2>3
    <3> QED BY <2>1, <3>1, <3>2, <3>3
  <2>5. sawNonInt' \subseteq 1..NumCols
    BY <2>1 DEF LoaderInv, LoaderTypes
  <2> QED BY <2>1, <2>4, <2>5 DEF ChecksRows, NonNumeric
<1>4. CASE SkipLine \/ AssignTypes \/ FillCell \/ Fails \/ UNCHANGED loaderVars
           \/ \E p, n : n \in Names /\ Open(p, n)
  BY <1>1, <1>4 DEF SkipLine, AssignTypes, FillCell, Fails, Open, loaderVars
<1> QED BY <1>2, <1>3, <1>4, LoaderSteps

LEMMA NumbersParsedStep ==
    ASSUME LoaderInv, NumbersParsed, [Next]_vars
    PROVE  NumbersParsed'
<1>1. CASE FillCell
  <2> DEFINE value == IF IsInt(Cell) THEN IntOf(Cell) ELSE 0
  <2>1. /\ reading = "fill" /\ UNCHANGED <<headers, rawRows, sawNonInt>> /\ NumCols' = NumCols
        /\ IF col < NumCols THEN row' = row /\ col' = col + 1
                            ELSE row' = row + 1 /\ col' = 1
        /\ reading' = IF row' > Len(rawRows) THEN "done" ELSE "fill"
        /\ \E v : /\ columns' = [columns EXCEPT ![col][row] = v]
                  /\ ~IsStringCol(col) => v = value
    BY <1>1 DEF FillCell, NumCols
  <2>2. /\ row \in 1..Len(rawRows) /\ col \in 1..NumCols
        /\ NumCols \in Nat /\ Len(rawRows) \in Nat
        /\ columns \in [1..NumCols -> [1..Len(rawRows) -> Int]]
        /\ DOMAIN rawRows = 1..Len(rawRows)
    BY <2>1 DEF LoaderInv, LoaderTypes, LoaderPlace, NumCols
  <2> HIDE DEF value
  <2>3. /\ ~IsStringCol(col) => columns'[col][row] = value
        /\ \A c \in 1..NumCols, r \in 1..Len(rawRows) :
              r # row \/ c # col => columns'[c][r] = columns[c][r]
    BY <2>1, <2>2
  <2>4. ASSUME NEW r \in DOMAIN rawRows, NEW c \in 1..NumCols, c \notin sawNonInt, Filled(r, c)'
        PROVE  columns'[c][r] = IF IsInt(rawRows[r][c]) THEN IntOf(rawRows[r][c]) ELSE 0
    <3>1. CASE r = row /\ c = col
      BY <2>3, <2>4, <3>1 DEF value, Cell, IsStringCol
    <3>2. CASE r # row \/ c # col
      <4>1. Filled(r, c)
        BY <2>1, <2>2, <2>4, <3>2 DEF Filled
      <4> QED BY <2>2, <2>3, <2>4, <3>2, <4>1 DEF NumbersParsed
    <3> QED BY <3>1, <3>2
  <2> QED BY <2>1, <2>4 DEF NumbersParsed
<1>2. CASE AssignTypes
  <2>1. row' = 1 /\ col' = 1 /\ rawRows' = rawRows /\ NumCols' = NumCols
    BY <1>2 DEF AssignTypes, LoaderInv, LoaderPlace, NumCols
  <2>2. rawRows \in Seq([1..NumCols -> Cells]) /\ NumCols \in Nat
    BY DEF LoaderInv, LoaderTypes, NumCols
  <2>3. ASSUME NEW r \in DOMAIN rawRows, NEW c \in 1..NumCols PROVE ~Filled(r, c)'
    <3>1. rawRows # <<>> /\ r \in Nat /\ r >= 1 /\ c >= 1
      BY <2>2
    <3>2. reading' = "fill"
      BY <1>2, <3>1 DEF AssignTypes
    <3> QED BY <2>1, <3>1, <3>2 DEF Filled
  <2> QED BY <2>1, <2>3 DEF NumbersParsed
<1>3. CASE reading' \notin {"fill", "done"}
  BY <1>3 DEF NumbersParsed, Filled
<1>4. CASE UNCHANGED loaderVars
  BY <1>4 DEF loaderVars, NumbersParsed, Filled, NumCols
<1>5. CASE ReadHeader \/ SkipLine \/ ReadRow \/ Fails \/ LoaderReset
           \/ \E p, n : n \in Names /\ Open(p, n)
  BY <1>3, <1>5 DEF ReadHeader, SkipLine, ReadRow, MoreLines, Fails, LoaderReset, Open
<1> QED BY <1>1, <1>2, <1>4, <1>5, LoaderSteps

LEMMA InternInjective ==
    ASSUME NEW dict, Sound(dict), Injective(dict), NEW s \in Cells, s # <<>>
    PROVE  Injective(Intern(dict, s))
<1>1. CASE Known(dict, s)
  BY <1>1 DEF Intern
<1>2. CASE ~Known(dict, s)
  <2> DEFINE new   == Intern(dict, s)
             n     == Len(dict.idToStr) + 1
  <2>1. /\ new.strToId = [t \in DOMAIN dict.strToId \cup {s} |->
                             IF t = s THEN n ELSE dict.strToId[t]]
        /\ new.idToStr = Append(dict.idToStr, s)
    BY <1>2 DEF Intern
  <2>2. dict.idToStr \in Seq(Cells)
    BY DEF Sound
  <2>3. \A id \in DOMAIN new.idToStr :
           \/ id = n /\ new.idToStr[id] = s
           \/ id \in DOMAIN dict.idToStr /\ new.idToStr[id] = dict.idToStr[id]
    BY <2>1, <2>2
  <2> HIDE DEF new, n
  <2>4. s \notin DOMAIN dict.strToId
    BY <1>2 DEF Known
  <2>5. ASSUME NEW id \in DOMAIN new.idToStr
        PROVE  /\ new.idToStr[id] # <<>>
               /\ new.idToStr[id] \in DOMAIN new.strToId
               /\ new.strToId[new.idToStr[id]] = id
    <3>1. CASE id = n /\ new.idToStr[id] = s
      BY <2>1, <3>1
    <3>2. CASE id \in DOMAIN dict.idToStr /\ new.idToStr[id] = dict.idToStr[id]
      <4> DEFINE t == dict.idToStr[id]
      <4>1. t # <<>> /\ t \in DOMAIN dict.strToId /\ dict.strToId[t] = id
        BY <3>2 DEF Injective
      <4> HIDE DEF t
      <4>2. new.idToStr[id] = t
        BY <3>2 DEF t
      <4> QED BY <2>1, <2>4, <4>1, <4>2
    <3> QED BY <2>3, <3>1, <3>2
  <2>6. Injective(new)
    BY <2>5 DEF Injective
  <2> QED BY <2>6 DEF new
<1> QED BY <1>1, <1>2

LEMMA NoStringsInjective == Injective(NoStrings)
<1>1. NoStrings.idToStr = <<>>
  BY DEF NoStrings
<1> QED BY <1>1 DEF Injective

LEMMA InjectiveStep ==
    ASSUME LoaderInv, Injective(strings), [Next]_vars
    PROVE  Injective(strings)'
<1>1. CASE FillCell
  <2> DEFINE interned == IsStringCol(col) /\ Cell # <<>>
  <2>1. strings' = IF interned THEN Intern(strings, Cell) ELSE strings
    BY <1>1 DEF FillCell
  <2>2. Cell \in Cells
    <3>1. /\ row \in 1..Len(rawRows) /\ col \in 1..NumCols
          /\ rawRows \in Seq([1..NumCols -> Cells])
      BY <1>1 DEF FillCell, LoaderInv, LoaderTypes, LoaderPlace
    <3>2. rawRows[row] \in [1..NumCols -> Cells]
      BY <3>1
    <3> QED BY <3>1, <3>2 DEF Cell
  <2>3. CASE interned
    <3>1. Injective(Intern(strings, Cell))
      BY <2>2, <2>3, InternInjective DEF LoaderInv, DictSound
    <3> QED BY <2>1, <2>3, <3>1 DEF Injective
  <2>4. CASE ~interned
    BY <2>1, <2>4 DEF Injective
  <2> QED BY <2>3, <2>4
<1>2. CASE LoaderReset
  BY <1>2, NoStringsInjective DEF LoaderReset, Injective
<1>3. CASE UNCHANGED strings
  BY <1>3 DEF Injective
<1> QED BY <1>1, <1>2, <1>3, LoaderSteps
    DEF loaderVars, Open, Fails, ReadHeader, SkipLine, ReadRow, AssignTypes

LEMMA ContentInvInit ==
    ASSUME Init
    PROVE  ContentInv
<1>1. /\ reading = "no" /\ rawRows = <<>> /\ sawNonInt = {} /\ strings = NoStrings
  BY DEF Init, LoaderInit
<1>2. DOMAIN rawRows = {}
  BY <1>1
<1> QED BY <1>1, <1>2, NoStringsInjective
    DEF ContentInv, ReadsFile, Unread, ChecksRows, NumbersParsed, Injective

-----------------------------------------------------------------------------
(* The registry *)

(* A registered table is at one place, and the others stay as they are.    *)
PlacedAt(table, place) ==
    /\ place \in DOMAIN storage => Owned(place).name = table.name
    /\ DOMAIN storage' = DOMAIN storage \cup {place}
    /\ Owned(place)' = table /\ storage'[place].kind = "csv"
    /\ \A j \in DOMAIN storage : j # place =>
          storage'[j] = storage[j] /\ Owned(j)' = Owned(j) /\ Owned(j).name # table.name

LEMMA RegisterPlaces ==
    ASSUME RegistryInv, NEW table, Register(table)
    PROVE  \E place : PlacedAt(table, place)
<1> DEFINE Entries == [kind : {"mem", "csv"}, at : Addresses]
<1>1. /\ storage \in Seq(Entries)
      /\ DOMAIN heap = {storage[i].at : i \in DOMAIN storage}
      /\ \A i, j \in DOMAIN storage : storage[i].at = storage[j].at => i = j
      /\ \A i, j \in DOMAIN storage : Owned(i).name = Owned(j).name => i = j
  BY DEF RegistryInv, RegistrySound, OneName
<1>2. PICK new \in Free :
         \/ \E i \in DOMAIN storage : IsFirst(i, table.name) /\ Replace(i, new, table)
         \/ /\ \A i \in DOMAIN storage : Owned(i).name # table.name
            /\ Add(new, table)
  BY DEF Register
<1>3. \A i \in DOMAIN storage : storage[i].at # new
  BY <1>1 DEF Free
<1> DEFINE entry == Entry(new)
<1>4. entry.at = new /\ entry.kind = "csv" /\ entry \in Entries
  BY DEF Entry, Free
<1> HIDE DEF Entries, entry
<1>5. ASSUME NEW i \in DOMAIN storage, IsFirst(i, table.name), Replace(i, new, table)
      PROVE  PlacedAt(table, i)
  <2>1. /\ storage' = [storage EXCEPT ![i] = entry]
        /\ heap' = [a \in (DOMAIN heap \ {storage[i].at}) \cup {new} |->
                       IF a = new THEN table ELSE heap[a]]
    BY <1>5 DEF Replace, entry
  <2>2. /\ DOMAIN storage' = DOMAIN storage /\ storage'[i] = entry
        /\ \A j \in DOMAIN storage : j # i => storage'[j] = storage[j]
    BY <1>1, <2>1
  <2>3. Owned(i)' = table
    BY <1>4, <2>1, <2>2 DEF Owned
  <2>4. \A j \in DOMAIN storage : j # i => Owned(j)' = Owned(j)
    BY <1>1, <1>3, <2>1, <2>2 DEF Owned
  <2>5. Owned(i).name = table.name
    BY <1>5 DEF IsFirst
  <2>6. \A j \in DOMAIN storage : j # i => Owned(j).name # table.name
    BY <1>1, <2>5
  <2> QED BY <1>4, <2>2, <2>3, <2>4, <2>5, <2>6 DEF PlacedAt
<1>6. ASSUME \A i \in DOMAIN storage : Owned(i).name # table.name, Add(new, table)
      PROVE  \E place : PlacedAt(table, place)
  <2>0. PICK last : last = Len(storage) + 1
    OBVIOUS
  <2>1. /\ storage' = Append(storage, entry)
        /\ heap' = [a \in DOMAIN heap \cup {new} |-> IF a = new THEN table ELSE heap[a]]
    BY <1>6 DEF Add, entry
  <2>2. /\ DOMAIN storage' = DOMAIN storage \cup {last} /\ storage'[last] = entry
        /\ last \notin DOMAIN storage
        /\ \A j \in DOMAIN storage : storage'[j] = storage[j]
    BY <1>1, <1>4, <2>0, <2>1
  <2>3. Owned(last)' = table
    BY <1>4, <2>1, <2>2 DEF Owned
  <2>4. \A j \in DOMAIN storage : Owned(j)' = Owned(j)
    BY <1>1, <1>3, <2>1, <2>2 DEF Owned
  <2>5. PlacedAt(table, last)
    BY <1>4, <1>6, <2>2, <2>3, <2>4 DEF PlacedAt
  <2> QED BY <2>5
<1> QED BY <1>2, <1>5, <1>6

(* What is stored under the name of an entry is what its table shows.      *)
StoredSound ==
    /\ DOMAIN Stored = {Owned(i).name : i \in DOMAIN storage}
    /\ \A i \in DOMAIN storage : Stored[Owned(i).name] = AsShown(Owned(i))

LEMMA StoredIs == RegistryInv => StoredSound
<1> SUFFICES ASSUME RegistryInv PROVE StoredSound
  OBVIOUS
<1>1. DOMAIN pointers = DOMAIN storage /\ \A i \in DOMAIN storage : Pointed(i) = Owned(i)
  BY DEF RegistryInv, RegistrySound, Pointed, Owned
<1>2. DOMAIN Stored = {Owned(i).name : i \in DOMAIN storage}
  BY <1>1 DEF Stored
<1>3. ASSUME NEW i \in DOMAIN storage
      PROVE  Stored[Owned(i).name] = AsShown(Owned(i))
  <2> DEFINE n == Owned(i).name
  <2>1. FindPointer(n) = {storage[j].at : j \in Here(n)} /\ \A j, m \in Here(n) : j = m
    BY SearchesFind
  <2>2. i \in Here(n)
    BY DEF Here
  <2>3. FindPointer(n) = {storage[i].at}
    BY <2>1, <2>2
  <2>4. At(n) = storage[i].at
    BY <2>3 DEF At
  <2>5. n \in {Pointed(j).name : j \in DOMAIN pointers}
    BY <1>1
  <2> HIDE DEF n
  <2>6. Stored[n] = AsShown(heap[At(n)])
    BY <2>5 DEF Stored
  <2>7. Stored[n] = AsShown(Owned(i))
    BY <2>4, <2>6 DEF Owned
  <2> QED BY <2>7 DEF n
<1> QED BY <1>2, <1>3 DEF StoredSound

LEMMA RegisterStores ==
    ASSUME RegistryInv, NEW table, Register(table)
    PROVE  Stored' = [n \in DOMAIN Stored \cup {table.name} |->
                         IF n = table.name THEN AsShown(table) ELSE Stored[n]]
<1>1. PICK place : PlacedAt(table, place)
  BY RegisterPlaces
<1>2. RegistryInv'
  BY RegisterKeepsInv
<1>3. StoredSound /\ StoredSound'
  BY <1>2, StoredIs, PTL
<1> DEFINE new == [n \in DOMAIN Stored \cup {table.name} |->
                      IF n = table.name THEN AsShown(table) ELSE Stored[n]]
<1>4. /\ DOMAIN Stored' = {Owned(i)'.name : i \in DOMAIN storage'}
      /\ \A i \in DOMAIN storage' : Stored'[Owned(i)'.name] = AsShown(Owned(i)')
  BY <1>3 DEF StoredSound, AsShown, Lookup
<1>5. DOMAIN Stored' = DOMAIN Stored \cup {table.name}
  BY <1>1, <1>3, <1>4 DEF PlacedAt, StoredSound
<1>6. ASSUME NEW n \in DOMAIN Stored'
      PROVE  Stored'[n] = IF n = table.name THEN AsShown(table) ELSE Stored[n]
  <2>1. PICK i \in DOMAIN storage' : n = Owned(i)'.name
    BY <1>4
  <2>2. Stored'[n] = AsShown(Owned(i)')
    BY <1>4, <2>1
  <2>3. CASE i = place
    BY <1>1, <2>1, <2>2, <2>3 DEF PlacedAt
  <2>4. CASE i # place
    <3>1. i \in DOMAIN storage /\ Owned(i)' = Owned(i) /\ Owned(i).name # table.name
      BY <1>1, <2>4 DEF PlacedAt
    <3>2. Stored[n] = AsShown(Owned(i))
      BY <1>3, <2>1, <3>1 DEF StoredSound
    <3> QED BY <2>1, <2>2, <3>1, <3>2
  <2> QED BY <2>3, <2>4
<1>7. Stored' = [n \in DOMAIN Stored' |-> Stored'[n]]
  BY DEF Stored
<1> QED BY <1>5, <1>6, <1>7

(* What a table keeps of its load: no id is 0 or that of a blank text, no  *)
(* two ids are of one text, and cells of text columns are ids or 0.        *)
TableSound(t) ==
    /\ t.numRows \in Nat
    /\ \A c \in t.isStringCol : \A r \in 1..t.numRows :
          t.columns[c][r] \in DOMAIN t.strings.idToStr \cup {0}
    /\ t.isStringCol # {} =>
          /\ 0 \notin DOMAIN t.strings.idToStr
          /\ \A id \in DOMAIN t.strings.idToStr : t.strings.idToStr[id] \in Cells \ {<<>>}
          /\ \A id, other \in DOMAIN t.strings.idToStr :
                t.strings.idToStr[id] = t.strings.idToStr[other] => id = other

HeapInv ==
    \A i \in DOMAIN storage :
        /\ TableSound(Owned(i))
        /\ storage[i].kind # "csv" => Owned(i).isStringCol = {}

LEMMA FirstTables ==
    ASSUME Init
    PROVE  /\ DOMAIN storage = DOMAIN BuiltinTables
           /\ \A i \in DOMAIN storage : storage[i].kind = "mem" /\ Owned(i) = BuiltinTables[i]
<1> DEFINE D == DOMAIN BuiltinTables
           HeapOf(at) == [a \in {at[i] : i \in D} |-> BuiltinTables[CHOOSE i \in D : at[i] = a]]
<1>1. PICK at \in [D -> Addresses] :
         /\ \A i, j \in D : at[i] = at[j] => i = j
         /\ storage = [i \in D |-> [kind |-> "mem", at |-> at[i]]] /\ heap = HeapOf(at)
  BY DEF Init, RegistryInit
<1>2. ASSUME NEW i \in D
      PROVE  storage[i].kind = "mem" /\ storage[i].at = at[i] /\ heap[at[i]] = BuiltinTables[i]
  <2>1. (CHOOSE j \in D : at[j] = at[i]) = i
    BY <1>1
  <2> QED BY <1>1, <2>1
<1> QED BY <1>1, <1>2 DEF Owned

LEMMA HeapInvInit == Init => HeapInv
<1> SUFFICES ASSUME Init, NEW i \in DOMAIN storage
             PROVE  TableSound(Owned(i)) /\ Owned(i).isStringCol = {}
  BY DEF HeapInv
<1>1. Owned(i).isStringCol = {} /\ Owned(i).numRows \in Nat
  BY FirstTables, NumericBuiltins
<1> QED BY <1>1 DEF TableSound

(* A load that is done leaves the rows of the file, and ids that tell its  *)
(* texts apart.                                                            *)
LEMMA LoadedSound ==
    ASSUME LoaderInv, ContentInv, reading = "done"
    PROVE  TableSound(Loaded)
<1>1. /\ Loaded.numRows = Len(rawRows) /\ Loaded.isStringCol = sawNonInt
      /\ Loaded.columns = columns /\ Loaded.strings = strings
  BY DEF Loaded
<1>2. /\ rawRows \in Seq([1..NumCols -> Cells]) /\ sawNonInt \subseteq 1..NumCols
      /\ strings.idToStr \in Seq(Cells)
  BY DEF LoaderInv, LoaderTypes, DictSound, Sound
<1>3. \A id \in DOMAIN strings.idToStr :
         /\ strings.idToStr[id] \in Cells \ {<<>>}
         /\ strings.strToId[strings.idToStr[id]] = id
  BY <1>2 DEF ContentInv, Injective
<1>4. \A c \in sawNonInt : \A r \in 1..Len(rawRows) :
         columns[c][r] \in DOMAIN strings.idToStr \cup {0}
  <2> TAKE c \in sawNonInt
  <2> TAKE r \in 1..Len(rawRows)
  <2>1. r \in DOMAIN rawRows /\ Filled(r, c)
    BY <1>2 DEF Filled
  <2> QED BY <2>1 DEF LoaderInv, TextsDecode
<1>5. 0 \notin DOMAIN strings.idToStr /\ Len(rawRows) \in Nat
  BY <1>2
<1>6. \A id, other \in DOMAIN strings.idToStr :
         strings.idToStr[id] = strings.idToStr[other] => id = other
  BY <1>3
<1> QED BY <1>1, <1>3, <1>4, <1>5, <1>6 DEF TableSound

LEMMA HeapInvStep ==
    ASSUME RegistryInv, LoaderInv, ContentInv, HeapInv, [Next]_vars
    PROVE  HeapInv'
<1>1. CASE FinishLoad
  <2>1. TableSound(Loaded) /\ Register(Loaded)
    BY <1>1, LoadedSound DEF FinishLoad
  <2> DEFINE table == Loaded
  <2> HIDE DEF table
  <2>2. PICK place : PlacedAt(table, place)
    BY <2>1, RegisterPlaces DEF table
  <2>3. TableSound(table)
    BY <2>1 DEF table
  <2>4. ASSUME NEW i \in DOMAIN storage'
        PROVE  TableSound(Owned(i)') /\ (storage'[i].kind # "csv" => Owned(i)'.isStringCol = {})
    <3>1. CASE i = place
      BY <2>2, <2>3, <3>1 DEF PlacedAt
    <3>2. CASE i # place
      BY <2>2, <3>2 DEF PlacedAt, HeapInv
    <3> QED BY <3>1, <3>2
  <2> QED BY <2>4 DEF HeapInv, TableSound
<1>2. CASE UNCHANGED registry
  <2>1. \A i \in DOMAIN storage : Owned(i)' = Owned(i)
    BY <1>2 DEF registry, Owned
  <2>2. \A i \in DOMAIN storage' :
           TableSound(Owned(i)') /\ (storage'[i].kind # "csv" => Owned(i)'.isStringCol = {})
    BY <1>2, <2>1 DEF registry, HeapInv
  <2> QED BY <2>2 DEF HeapInv, TableSound
<1>3. FinishLoad \/ UNCHANGED registry
  BY DEF Next, vars, StartLoad, LoadStep, FailLoad, BeginRepl, Schema, RunQuery, QueryTooWide, Unknown,
         ListTables, Quit, Display
<1> QED BY <1>1, <1>2, <1>3

(* What a load returns shows what the sheet says.                          *)
LEMMA LoadedShown ==
    ASSUME FilesAsRead, LoaderInv, ContentInv, reading = "done"
    PROVE  path \in DOMAIN Sheets /\ AsShown(Loaded) = Store!Contents(Sheets[path])
<1> DEFINE sheet == Sheets[path]
<1>1. /\ path \in DOMAIN Sheets /\ Reads(sheet, path)
  BY LoaderAssumption DEF LoaderInv, LoaderPlace, Unread, HasHeader, FilesAsRead
<1>2. /\ rawRows \in Seq([1..NumCols -> Cells]) /\ headers \in Seq(Cells)
      /\ NumCols \in Nat /\ DOMAIN headers = 1..NumCols /\ DOMAIN rawRows = 1..Len(rawRows)
      /\ columns \in [1..NumCols -> [1..Len(rawRows) -> Int]]
      /\ strings.idToStr \in Seq(Cells)
  BY DEF LoaderInv, LoaderTypes, LoaderPlace, NumCols, DictSound, Sound
<1>3. /\ sheet.header = headers /\ DOMAIN sheet.rows = 1..Len(rawRows)
      /\ \A r \in DOMAIN rawRows : \A c \in 1..NumCols : rawRows[r][c] = sheet.rows[r][c]
  BY <1>1 DEF ContentInv, ReadsFile, Unread, Reads
<1> HIDE DEF sheet
<1>4. \A r \in 1..Len(rawRows) : \A c \in 1..NumCols : rawRows[r][c] \in Cells
  BY <1>2
<1>5. \A cell \in Cells : NonNumeric(cell) <=> Store!IsText(cell)
  BY DEF FilesAsRead, NonNumeric, Store!IsText
<1>6. ASSUME NEW c \in 1..NumCols
      PROVE  Store!IsTextColumn(sheet.rows, c) <=> c \in sawNonInt
  BY <1>2, <1>3, <1>4, <1>5 DEF ContentInv, ChecksRows, Store!IsTextColumn
<1> DEFINE Shown(r, c) == IF c \in sawNonInt
                          THEN [text |-> Lookup(strings, columns[c][r]), num |-> 0]
                          ELSE [text |-> <<>>, num |-> columns[c][r]]
           Said(r, c)  == LET cell == sheet.rows[r][c]
                          IN  IF Store!IsTextColumn(sheet.rows, c)
                              THEN Store!Text(IF cell = <<>> THEN Null ELSE cell)
                              ELSE Store!Number(IF cell \in DOMAIN Numbers THEN Numbers[cell] ELSE 0)
<1>7. ASSUME NEW r \in 1..Len(rawRows), NEW c \in 1..NumCols
      PROVE  Shown(r, c) = Said(r, c)
  <2> DEFINE cell == rawRows[r][c]
  <2>1. cell = sheet.rows[r][c] /\ cell \in Cells /\ Filled(r, c)
    BY <1>2, <1>3, <1>4 DEF Filled
  <2>2. CASE c \in sawNonInt
    <3>1. IF cell = <<>> THEN columns[c][r] = 0
          ELSE /\ columns[c][r] \in DOMAIN strings.idToStr
               /\ Lookup(strings, columns[c][r]) = cell
      BY <1>2, <2>1, <2>2 DEF LoaderInv, TextsDecode
    <3>2. 0 \notin DOMAIN strings.idToStr
      BY <1>2
    <3>3. Lookup(strings, columns[c][r]) = IF cell = <<>> THEN Null ELSE cell
      BY <3>1, <3>2 DEF Lookup
    <3> QED BY <1>6, <2>1, <2>2, <3>3 DEF Store!Text
  <2>3. CASE c \notin sawNonInt
    <3>1. columns[c][r] = IF IsInt(cell) THEN IntOf(cell) ELSE 0
      BY <1>2, <2>1, <2>3 DEF ContentInv, NumbersParsed
    <3>2. columns[c][r] = IF cell \in DOMAIN Numbers THEN Numbers[cell] ELSE 0
      BY <2>1, <3>1 DEF FilesAsRead
    <3> QED BY <1>6, <2>1, <2>3, <3>2 DEF Store!Number
  <2> QED BY <2>2, <2>3
<1>8. AsShown(Loaded) =
         [columns |-> headers, rows |-> [r \in 1..Len(rawRows) |-> [c \in 1..NumCols |-> Shown(r, c)]]]
  BY <1>2 DEF AsShown, Loaded
<1>9. Store!Contents(sheet) =
         [columns |-> headers, rows |-> [r \in 1..Len(rawRows) |-> [c \in 1..NumCols |-> Said(r, c)]]]
  BY <1>2, <1>3 DEF Store!Contents
<1> HIDE DEF Shown, Said
<1>10. [r \in 1..Len(rawRows) |-> [c \in 1..NumCols |-> Shown(r, c)]]
       = [r \in 1..Len(rawRows) |-> [c \in 1..NumCols |-> Said(r, c)]]
  BY <1>7
<1> QED BY <1>1, <1>8, <1>9, <1>10 DEF sheet

-----------------------------------------------------------------------------
(* The commands *)

(* While a load runs, the screen is as StartLoad left it.                  *)
ScreenInv == ~Idle => screen = Nothing

LEMMA ScreenInvStep ==
    ASSUME ScreenInv, [Next]_vars
    PROVE  ScreenInv'
<1>1. ASSUME NEW p, NEW n, StartLoad(p, n) PROVE ScreenInv'
  BY <1>1 DEF StartLoad, ScreenInv
<1>2. CASE LoadStep
  BY <1>2 DEF LoadStep, LoaderNext, Fails, ReadHeader, SkipLine, ReadRow, MoreLines, AssignTypes,
              FillCell, replVars, ScreenInv, Idle
<1>3. CASE FinishLoad \/ FailLoad
  BY <1>3 DEF FinishLoad, FailLoad, LoaderReset, ScreenInv, Idle
<1>4. CASE \/ BeginRepl \/ ListTables \/ Quit
          \/ \E n \in Names : Schema(n) \/ RunQuery(n) \/ QueryTooWide(n) \/ Unknown(n)
  BY <1>4 DEF BeginRepl, ListTables, Quit, Schema, RunQuery, QueryTooWide, Unknown, Display, Prompt, Idle,
              loaderVars, ScreenInv
<1>5. CASE UNCHANGED vars
  BY <1>5 DEF vars, loaderVars, replVars, ScreenInv, Idle
<1> QED BY <1>1, <1>2, <1>3, <1>4, <1>5 DEF Next

LEMMA RegistryStill ==
    ASSUME UNCHANGED registry
    PROVE  Stored' = Stored
BY DEF registry, Stored, Pointed, At, FindPointer, AsShown, Lookup

(* A name that is found is that of one entry, and its table is shown.      *)
LEMMA FoundIsShown ==
    ASSUME RegistryInv, NEW n, NEW at, at \in FindPointer(n) \/ at \in Catalogued(n)
    PROVE  \E i \in DOMAIN storage :
              /\ heap[at] = Owned(i)
              /\ n \in DOMAIN Stored /\ Stored[n] = AsShown(Owned(i))
              /\ FindCSVTable(n) = IF storage[i].kind = "csv" THEN {at} ELSE {}
<1>1. /\ FindPointer(n) = {storage[i].at : i \in Here(n)}
      /\ Catalogued(n) = {storage[i].at : i \in Here(n)}
      /\ FindCSVTable(n) = {storage[i].at : i \in {i \in Here(n) : storage[i].kind = "csv"}}
      /\ \A i, j \in Here(n) : i = j
  BY SearchesFind
<1>2. PICK i \in Here(n) : at = storage[i].at
  BY <1>1
<1>3. i \in DOMAIN storage /\ Owned(i).name = n /\ heap[at] = Owned(i)
  BY <1>2 DEF Here, Owned
<1>4. n \in DOMAIN Stored /\ Stored[n] = AsShown(Owned(i))
  BY <1>3, StoredIs DEF StoredSound
<1>5. FindCSVTable(n) = IF storage[i].kind = "csv" THEN {at} ELSE {}
  BY <1>1, <1>2
<1> QED BY <1>3, <1>4, <1>5

(* A cell as it is shown.                                                  *)
ShownCell(t, r, c) ==
    IF c \in t.isStringCol
    THEN [text |-> Lookup(t.strings, t.columns[c][r]), num |-> 0]
    ELSE [text |-> <<>>, num |-> t.columns[c][r]]

LEMMA ShownIs ==
    ASSUME NEW t, t.numRows \in Nat
    PROVE  /\ AsShown(t).columns = t.columnNames
           /\ AsShown(t).rows = [r \in 1..t.numRows |-> [c \in DOMAIN t.columns |-> ShownCell(t, r, c)]]
           /\ Len(AsShown(t).rows) = t.numRows
BY DEF AsShown, ShownCell

LEMMA SchemaRefines ==
    ASSUME RegistryInv, HeapInv, NEW n, Schema(n)
    PROVE  n \in DOMAIN Stored /\ Store!Schema(n)
<1>1. PICK at \in FindPointer(n) :
         Display([kind |-> "schema", columns |-> heap[at].columnNames,
                  numRows |-> heap[at].numRows,
                  rows |-> ShownRows(heap[at], FindCSVTable(n),
                               {r \in 1..heap[at].numRows : r <= SchemaRows})])
  BY DEF Schema
<1>2. PICK i \in DOMAIN storage :
         /\ heap[at] = Owned(i)
         /\ n \in DOMAIN Stored /\ Stored[n] = AsShown(Owned(i))
         /\ FindCSVTable(n) = IF storage[i].kind = "csv" THEN {at} ELSE {}
  BY <1>1, FoundIsShown
<1> DEFINE t      == heap[at]
           owners == FindCSVTable(n)
           rows   == {r \in 1..t.numRows : r <= SchemaRows}
<1>3. t.numRows \in Nat /\ (storage[i].kind # "csv" => t.isStringCol = {})
  BY <1>2 DEF HeapInv, TableSound
<1>4. \A c, v : ShownBy(owners, c, v) =
                   IF c \in t.isStringCol THEN [text |-> Lookup(t.strings, v), num |-> 0]
                   ELSE [text |-> <<>>, num |-> v]
  <2>1. CASE storage[i].kind = "csv"
    <3>1. owners = {at}
      BY <1>2, <2>1
    <3>2. (CHOOSE a \in owners : TRUE) = at
      BY <3>1
    <3> QED BY <3>1, <3>2 DEF ShownBy
  <2>2. CASE storage[i].kind # "csv"
    <3>1. owners = {} /\ t.isStringCol = {}
      BY <1>2, <1>3, <2>2
    <3> QED BY <3>1 DEF ShownBy
  <2> QED BY <2>1, <2>2
<1>5. UNCHANGED registry
  BY <1>1 DEF Display
<1>6. Stored' = Stored
  BY <1>5, RegistryStill
<1> DEFINE shown == AsShown(t)
<1>7. /\ shown.columns = t.columnNames /\ Len(shown.rows) = t.numRows
      /\ shown.rows = [r \in 1..t.numRows |-> [c \in DOMAIN t.columns |-> ShownCell(t, r, c)]]
  BY <1>3, ShownIs
<1>8. Stored[n] = shown
  BY <1>2
<1>9. screen' = [kind |-> "schema", columns |-> t.columnNames, numRows |-> t.numRows,
                 rows |-> ShownRows(t, owners, rows)]
  BY <1>1 DEF Display
<1>10. ShownRows(t, owners, rows) =
          [r \in rows |-> [c \in DOMAIN t.columns |-> ShownCell(t, r, c)]]
  <2> HIDE DEF t, owners, rows
  <2> QED BY <1>4 DEF ShownRows, ShownCell
<1>11. rows = {r \in DOMAIN shown.rows : r <= SchemaRows}
  BY <1>7
<1>12. ShownRows(t, owners, rows) =
          [r \in {r \in DOMAIN shown.rows : r <= SchemaRows} |-> shown.rows[r]]
  <2>1. \A r \in rows : shown.rows[r] = [c \in DOMAIN t.columns |-> ShownCell(t, r, c)]
    <3>1. \A r \in rows : r \in 1..t.numRows
      OBVIOUS
    <3> HIDE DEF shown, t, rows
    <3> QED BY <1>7, <3>1
  <2> HIDE DEF shown, t, rows
  <2> QED BY <1>10, <1>11, <2>1
<1> HIDE DEF shown, t, owners, rows
<1> QED BY <1>2, <1>6, <1>7, <1>8, <1>9, <1>12 DEF Store!Schema

(* The ids of a column tell apart what its texts do.                       *)
LEMMA IdsRepresent ==
    ASSUME FilesAsRead, NEW t, TableSound(t)
    PROVE  Store!Represents(
               [r \in 1..t.numRows |-> [c \in DOMAIN t.columns |-> t.columns[c][r]]],
               [r \in 1..t.numRows |-> [c \in DOMAIN t.columns |-> ShownCell(t, r, c)]])
<1> DEFINE values == [r \in 1..t.numRows |-> [c \in DOMAIN t.columns |-> t.columns[c][r]]]
           rows   == [r \in 1..t.numRows |-> [c \in DOMAIN t.columns |-> ShownCell(t, r, c)]]
           ids    == DOMAIN t.strings.idToStr
           decoded(v) == Lookup(t.strings, v)
<1>1. Null \notin Cells /\ Null # <<>>
  BY LoaderAssumption DEF FilesAsRead
<1>2. ASSUME t.isStringCol # {}
      PROVE  /\ \A v \in ids \cup {0} : decoded(v) # <<>>
             /\ \A v, w \in ids \cup {0} : decoded(v) = decoded(w) => v = w
  <2>1. /\ 0 \notin ids
        /\ \A id \in ids : t.strings.idToStr[id] \in Cells \ {<<>>}
        /\ \A id, other \in ids : t.strings.idToStr[id] = t.strings.idToStr[other] => id = other
    BY <1>2 DEF TableSound
  <2>2. \A id \in ids : decoded(id) = t.strings.idToStr[id]
    BY DEF Lookup
  <2>3. decoded(0) = Null
    BY <2>1 DEF Lookup
  <2> HIDE DEF decoded, ids
  <2>4. \A v \in ids \cup {0} : decoded(v) # <<>>
    BY <1>1, <2>1, <2>2, <2>3
  <2>5. \A v, w \in ids \cup {0} : decoded(v) = decoded(w) => v = w
    BY <1>1, <2>1, <2>2, <2>3
  <2> QED BY <2>4, <2>5
<1>3. ASSUME NEW r \in 1..t.numRows, NEW c \in DOMAIN t.columns
      PROVE  \/ rows[r][c] = Store!Number(values[r][c])
             \/ /\ rows[r][c].text # <<>>
                /\ \A q \in DOMAIN rows :
                      (values[q][c] = values[r][c]) <=> (rows[q][c] = rows[r][c])
  <2>1. \A q \in 1..t.numRows : values[q][c] = t.columns[c][q] /\ rows[q][c] = ShownCell(t, q, c)
    OBVIOUS
  <2>2. CASE c \notin t.isStringCol
    BY <2>1, <2>2 DEF ShownCell, Store!Number
  <2>3. CASE c \in t.isStringCol
    <3>1. \A q \in 1..t.numRows : values[q][c] \in ids \cup {0}
      BY <2>1, <2>3 DEF TableSound
    <3>2. \A q \in 1..t.numRows : rows[q][c] = [text |-> decoded(values[q][c]), num |-> 0]
      BY <2>1, <2>3 DEF ShownCell
    <3>3. DOMAIN rows = 1..t.numRows
      OBVIOUS
    <3>4. \A q \in 1..t.numRows : rows[q][c].text = decoded(values[q][c])
      <4> TAKE q \in 1..t.numRows
      <4>1. rows[q][c] = [text |-> decoded(values[q][c]), num |-> 0]
        BY <3>2
      <4> DEFINE cell == rows[q][c]
                 said == decoded(values[q][c])
      <4>2. cell = [text |-> said, num |-> 0]
        BY <4>1
      <4> HIDE DEF cell, said
      <4>3. cell.text = said
        BY <4>2
      <4> QED BY <4>3 DEF cell, said
    <3> HIDE DEF rows, values, ids, decoded
    <3>5. rows[r][c].text # <<>>
      BY <1>2, <2>3, <3>1, <3>4
    <3>6. ASSUME NEW q \in 1..t.numRows
          PROVE  (values[q][c] = values[r][c]) <=> (rows[q][c] = rows[r][c])
      <4>1. rows[q][c] = rows[r][c] => decoded(values[q][c]) = decoded(values[r][c])
        BY <3>4
      <4>2. decoded(values[q][c]) = decoded(values[r][c]) => values[q][c] = values[r][c]
        BY <1>2, <2>3, <3>1
      <4>3. values[q][c] = values[r][c] => rows[q][c] = rows[r][c]
        BY <3>2
      <4> QED BY <4>1, <4>2, <4>3
    <3> QED BY <3>3, <3>5, <3>6
  <2> QED BY <2>2, <2>3
<1>4. /\ DOMAIN values = DOMAIN rows /\ DOMAIN rows = 1..t.numRows
      /\ \A r \in DOMAIN rows : DOMAIN values[r] = DOMAIN rows[r]
      /\ \A r \in DOMAIN rows : DOMAIN rows[r] = DOMAIN t.columns
  OBVIOUS
<1> HIDE DEF values, rows
<1>5. Store!Represents(values, rows)
  BY <1>3, <1>4 DEF Store!Represents
<1> QED BY <1>5 DEF values, rows

LEMMA QueryRefines ==
    ASSUME FilesAsRead, RegistryInv, HeapInv, NEW n, RunQuery(n)
    PROVE  n \in DOMAIN Stored /\ Store!Query(n)
<1>1. PICK at \in Catalogued(n) :
         Display([kind |-> "rows",
                  rows |-> [r \in 1..heap[at].numRows |->
                               [c \in DOMAIN heap[at].columns |-> heap[at].columns[c][r]]]])
  BY DEF RunQuery
<1>2. PICK i \in DOMAIN storage :
         /\ heap[at] = Owned(i)
         /\ n \in DOMAIN Stored /\ Stored[n] = AsShown(Owned(i))
  BY <1>1, FoundIsShown
<1> DEFINE t == heap[at]
<1>3. TableSound(t)
  BY <1>2 DEF HeapInv
<1>4. Stored' = Stored
  BY <1>1, RegistryStill DEF Display
<1> DEFINE values == [r \in 1..t.numRows |-> [c \in DOMAIN t.columns |-> t.columns[c][r]]]
           rows   == [r \in 1..t.numRows |-> [c \in DOMAIN t.columns |-> ShownCell(t, r, c)]]
<1>5. Stored[n].rows = rows
  BY <1>2, <1>3, ShownIs DEF TableSound
<1>6. screen' = [kind |-> "rows", rows |-> values]
  BY <1>1 DEF Display
<1>7. Store!Represents(values, rows)
  BY <1>3, IdsRepresent
<1> HIDE DEF values, rows
<1> QED BY <1>2, <1>4, <1>5, <1>6, <1>7 DEF Store!Query

(* One entry of the list for each name that is stored.                     *)
LEMMA TablesRefine ==
    ASSUME RegistryInv, HeapInv, ListTables
    PROVE  Store!Tables
<1> DEFINE shown(i) == [name |-> Pointed(i).name, columns |-> Pointed(i).columnNames,
                        numRows |-> Pointed(i).numRows]
           list  == [i \in DOMAIN pointers |-> shown(i)]
           named == [i \in DOMAIN pointers |-> Pointed(i).name]
<1>1. screen' = [kind |-> "tables", list |-> list] /\ UNCHANGED registry
  BY DEF ListTables, Display
<1>2. Stored' = Stored
  BY <1>1, RegistryStill
<1>3. /\ DOMAIN pointers = DOMAIN storage /\ DOMAIN pointers = 1..Len(pointers)
      /\ Len(pointers) \in Nat
      /\ \A i \in DOMAIN storage : Pointed(i) = Owned(i)
      /\ \A i, j \in DOMAIN storage : Owned(i).name = Owned(j).name => i = j
  BY DEF RegistryInv, RegistrySound, OneName, Pointed, Owned
<1>4. DOMAIN Stored = {named[i] : i \in 1..Len(pointers)}
  BY <1>3, StoredIs DEF StoredSound
<1>5. Cardinality(DOMAIN Stored) = Len(pointers)
  <2>1. named \in Bijection(1..Len(pointers), DOMAIN Stored)
    <3>1. named \in [1..Len(pointers) -> DOMAIN Stored]
      BY <1>3, <1>4
    <3>2. \A i, j \in 1..Len(pointers) : named[i] = named[j] => i = j
      BY <1>3
    <3>3. \A n \in DOMAIN Stored : \E i \in 1..Len(pointers) : named[i] = n
      BY <1>4
    <3> HIDE DEF named
    <3> QED BY <3>1, <3>2, <3>3 DEF Bijection, Injection, IsInjective, Surjection
  <2>2. IsFiniteSet(1..Len(pointers)) /\ Cardinality(1..Len(pointers)) = Len(pointers)
    BY <1>3, FS_Interval
  <2>3. ExistsBijection(1..Len(pointers), DOMAIN Stored)
    BY <2>1 DEF ExistsBijection
  <2> QED BY <2>2, <2>3, FS_Bijection
<1>6. Len(list) = Len(pointers)
  BY <1>3
<1>7. ASSUME NEW n \in DOMAIN Stored
      PROVE  \E i \in DOMAIN list :
                list[i] = [name |-> n, columns |-> Stored[n].columns, numRows |-> Len(Stored[n].rows)]
  <2>1. PICK i \in DOMAIN storage : Owned(i).name = n
    BY StoredIs DEF StoredSound
  <2>2. Stored[n] = AsShown(Owned(i)) /\ Owned(i).numRows \in Nat
    BY <2>1, StoredIs DEF StoredSound, HeapInv, TableSound
  <2>3. Stored[n].columns = Owned(i).columnNames /\ Len(Stored[n].rows) = Owned(i).numRows
    BY <2>2, ShownIs
  <2>4. i \in DOMAIN list /\ list[i] = [name |-> n, columns |-> Owned(i).columnNames,
                                        numRows |-> Owned(i).numRows]
    BY <1>3, <2>1
  <2> HIDE DEF list
  <2> QED BY <2>3, <2>4
<1> HIDE DEF list
<1>8. screen'.kind = "tables" /\ screen'.list = list
  BY <1>1
<1>9. Store!Cardinality(DOMAIN Stored) = Cardinality(DOMAIN Stored)
  <2> DEFINE D == DOMAIN Stored
  <2> HIDE DEF D
  <2>1. Store!Cardinality(D) = Cardinality(D)
    BY DEF Cardinality, Store!Cardinality
  <2> QED BY <2>1 DEF D
<1> QED BY <1>2, <1>5, <1>6, <1>7, <1>8, <1>9 DEF Store!Tables

LEMMA LoadRefines ==
    ASSUME FilesAsRead, RegistryInv, LoaderInv, ContentInv, ScreenInv, FinishLoad
    PROVE  \E p \in DOMAIN Sheets, n \in Names : Store!Load(p, n)
<1>1. reading = "done" /\ Register(Loaded) /\ UNCHANGED replVars
  BY DEF FinishLoad
<1>2. path \in DOMAIN Sheets /\ AsShown(Loaded) = Store!Contents(Sheets[path])
  BY <1>1, LoadedShown
<1> DEFINE table == Loaded
           shown == AsShown(table)
<1>3. table.name = name /\ name \in Names
  BY <1>1 DEF Loaded, LoaderInv, LoaderTypes, Idle
<1> HIDE DEF table
<1>4. Stored' = [m \in DOMAIN Stored \cup {table.name} |->
                    IF m = table.name THEN shown ELSE Stored[m]]
  BY <1>1, RegisterStores DEF table
<1>5. shown = Store!Contents(Sheets[path])
  BY <1>2 DEF table
<1>6. screen' = Store!Nothing
  BY <1>1 DEF ScreenInv, Idle, replVars, Nothing, Store!Nothing
<1> HIDE DEF shown
<1>7. Store!Load(path, name)
  BY <1>3, <1>4, <1>5, <1>6 DEF Store!Load
<1> QED BY <1>2, <1>3, <1>7

LEMMA InitRefines == Init => Store!Init
<1> SUFFICES ASSUME Init PROVE Store!Init
  OBVIOUS
<1>1. RegistryInv
  BY RegistryInvInit DEF Init
<1>2. StoredSound
  BY <1>1, StoredIs
<1>3. /\ DOMAIN storage = DOMAIN BuiltinTables
      /\ \A i \in DOMAIN storage : Owned(i) = BuiltinTables[i]
  BY FirstTables
<1>4. DOMAIN Stored = DOMAIN StoredFirst
  BY <1>2, <1>3 DEF StoredSound, StoredFirst
<1>5. ASSUME NEW n \in DOMAIN Stored
      PROVE  Stored[n] = StoredFirst[n]
  <2>1. PICK i \in DOMAIN BuiltinTables : BuiltinTables[i].name = n /\ Stored[n] = AsShown(BuiltinTables[i])
    BY <1>2, <1>3 DEF StoredSound
  <2>2. (CHOOSE j \in DOMAIN BuiltinTables : BuiltinTables[j].name = n) = i
    BY <2>1, BuiltinAssumption
  <2>3. StoredFirst[n] = AsShown(BuiltinNamed(n))
    BY <1>4 DEF StoredFirst
  <2> QED BY <2>1, <2>2, <2>3 DEF BuiltinNamed
<1>6. Stored = StoredFirst
  <2>1. Stored = [n \in DOMAIN Stored |-> Stored[n]]
    BY DEF Stored
  <2>2. StoredFirst = [n \in DOMAIN StoredFirst |-> StoredFirst[n]]
    BY DEF StoredFirst
  <2> QED BY <1>4, <1>5, <2>1, <2>2
<1>7. screen = Store!Nothing
  BY DEF Init, Nothing, Store!Nothing
<1> QED BY <1>6, <1>7 DEF Store!Init

StoreInv == RegistryInv /\ LoaderInv /\ ContentInv /\ HeapInv /\ ScreenInv

LEMMA StepRefines ==
    ASSUME FilesAsRead, StoreInv, [Next]_vars
    PROVE  [Store!Next]_(Store!vars)
<1> USE DEF StoreInv
<1>1. ASSUME NEW p, NEW n, StartLoad(p, n) PROVE Store!Begin
  <2>1. Stored' = Stored
    BY <1>1, RegistryStill DEF StartLoad
  <2> QED BY <1>1, <2>1 DEF StartLoad, Store!Begin, Nothing, Store!Nothing
<1>2. CASE LoadStep \/ Quit
  <2>1. Stored' = Stored
    BY <1>2, RegistryStill DEF LoadStep, Quit
  <2> QED BY <1>2, <2>1 DEF LoadStep, Quit, replVars, Store!vars
<1>3. CASE FinishLoad
  BY <1>3, LoadRefines DEF Store!Next
<1>4. CASE FailLoad
  <2>1. Stored' = Stored
    BY <1>4, RegistryStill DEF FailLoad
  <2>2. Store!Fail
    BY <1>4, <2>1 DEF FailLoad, Store!Fail, Error, Store!Error
  <2> QED BY <2>2 DEF Store!Next
<1>5. CASE BeginRepl
  <2>1. Stored' = Stored
    BY <1>5, RegistryStill DEF BeginRepl
  <2>2. Store!Begin
    BY <1>5, <2>1 DEF BeginRepl, Store!Begin, Nothing, Store!Nothing
  <2> QED BY <2>2 DEF Store!Next
<1>6. ASSUME NEW n \in Names, Schema(n) PROVE Store!Next
  BY <1>6, SchemaRefines DEF Store!Next
<1>7. ASSUME NEW n \in Names, RunQuery(n) PROVE Store!Next
  BY <1>7, QueryRefines DEF Store!Next
<1>8. ASSUME NEW n \in Names, QueryTooWide(n) \/ Unknown(n) PROVE Store!Next
  <2>1. Display(Error)
    BY <1>8 DEF QueryTooWide, Unknown
  <2>2. Stored' = Stored
    BY <2>1, RegistryStill DEF Display
  <2>3. Store!Fail
    BY <2>1, <2>2 DEF Display, Store!Fail, Error, Store!Error
  <2> QED BY <2>3 DEF Store!Next
<1>9. CASE ListTables
  BY <1>9, TablesRefine DEF Store!Next
<1>10. CASE UNCHANGED vars
  <2>1. Stored' = Stored
    BY <1>10, RegistryStill DEF vars
  <2> QED BY <1>10, <2>1 DEF vars, replVars, Store!vars
<1>11. (\E p, n : StartLoad(p, n)) => Store!Next
  BY <1>1 DEF Store!Next
<1> QED BY <1>2, <1>3, <1>4, <1>5, <1>6, <1>7, <1>8, <1>9, <1>10, <1>11 DEF Next

LEMMA StoreInvariant == FilesAsRead /\ Spec => []StoreInv
<1> DEFINE New == ContentInv /\ HeapInv /\ ScreenInv
<1>1. Init => New
  <2>1. Init => ScreenInv
    BY DEF Init, LoaderInit, ScreenInv, Idle
  <2> QED BY <2>1, ContentInvInit, HeapInvInit
<1>2. ASSUME FilesAsRead, RegistryInv, LoaderInv, New, [Next]_vars PROVE New'
  <2>1. ContentInv'
    BY <1>2, ReadsFileStep, ChecksRowsStep, NumbersParsedStep, InjectiveStep DEF ContentInv
  <2> QED BY <1>2, <2>1, HeapInvStep, ScreenInvStep
<1> HIDE DEF New
<1>3. FilesAsRead /\ RegistryInv /\ LoaderInv /\ New /\ [Next]_vars => New'
  BY <1>2
<1>4. RegistryInv /\ LoaderInv /\ New => StoreInv
  BY DEF New, StoreInv
<1>5. SUFFICES ASSUME FilesAsRead PROVE Spec => []StoreInv
  OBVIOUS
<1>6. RegistryInv /\ LoaderInv /\ New /\ [Next]_vars => New'
  BY <1>3, <1>5
<1> QED BY <1>1, <1>4, <1>6, RegistryInvariant, LoaderInvariant, PTL DEF Spec

(* If sheets and numbers are what the characters of the files say, the     *)
(* shell implements TableStore: after any loads, replacements and failures *)
(* every command shows what the file last loaded under a name says, and    *)
(* a query gets numbers that tell apart what the texts of a column do.     *)
THEOREM ShellIsTableStore == ASSUME FilesAsRead PROVE Spec => Implements
<1>1. StoreInv /\ [Next]_vars => [Store!Next]_(Store!vars)
  BY StepRefines
<1>2. Spec => []StoreInv
  BY StoreInvariant
<1> QED BY <1>1, <1>2, InitRefines, PTL DEF Spec, Implements, Store!Spec
=============================================================================
