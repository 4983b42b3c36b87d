------------------------- MODULE PackageInfoProofs -------------------------
(***************************************************************************)
(* What sysd_add_package_info() does with a version_detail.yaml of any     *)
(* length, for batches of any size, whatever fails.                        *)
(*                                                                         *)
(* The argument: record_count is the number of records that are complete,  *)
(* and the rows of the open transaction are the records since the last     *)
(* batch boundary, the last of them possibly still being filled.  So a     *)
(* transaction is open just where the code takes it to be, and what is     *)
(* committed or lost together is a batch.                                  *)
(***************************************************************************)
EXTENDS PackageInfo, TLAPS

-----------------------------------------------------------------------------
(* Types.                                                                  *)

(* Every record has at least one key.                                      *)
LEMMA RecordType ==
  ASSUME TypeOK, NEW r \in 1..Len(records)
  PROVE  /\ records[r].keys \in Seq(Keys)
         /\ Len(records[r].keys) \in Nat \ {0}
         /\ records[r].invalid \in BOOLEAN
<1>1. records[r] \in [keys : Shapes, invalid : BOOLEAN]
  <2> DEFINE S == [keys : Shapes, invalid : BOOLEAN]
  <2>1. records \in Seq(S)
    BY DEF TypeOK
  <2> HIDE DEF S
  <2>2. records[r] \in S
    BY <2>1
  <2> QED
    BY <2>2 DEF S
<1>2. records[r].keys \in Seq(Keys) /\ records[r].keys # <<>>
  BY <1>1, PackageAssumption
<1> QED
  BY <1>1, <1>2

(* Whatever is read is a key, or a value a column can hold.                *)
LEMMA ScalarType ==
  ASSUME TypeOK, More
  PROVE  /\ at.rec > 0 => CurKey \in Keys
         /\ at.isKey => at.rec > 0
         /\ Value \in {Absent} \union
                [rec : Nat, key : Keys \union {"INVALID"}]
<1>1. at.rec \in 0..Len(records) /\ at.key \in Nat \ {0}
  BY DEF TypeOK, More, AtEnd
<1>2. ASSUME at.rec > 0
      PROVE  CurKey \in Keys
  <2>1. at.rec \in 1..Len(records) /\ at.key \in 1..Len(records[at.rec].keys)
    BY <1>1, <1>2, RecordType DEF TypeOK
  <2> QED
    BY <2>1, RecordType DEF CurKey
<1>3. at.isKey => at.rec > 0
  BY <1>1 DEF TypeOK, Title
<1>4. CASE at.rec = 0
  BY <1>2, <1>3, <1>4 DEF Value
<1>5. CASE at.rec > 0
  BY <1>1, <1>2, <1>3, <1>5 DEF Value
<1> QED
  BY <1>1, <1>2, <1>3, <1>4, <1>5

(* Reading on stays within the file.                                       *)
LEMMA ReadType ==
  ASSUME TypeOK, More, Read
  PROVE  /\ at' \in [rec : 0..Len(records) + 1, key : Nat \ {0},
                     isKey : BOOLEAN]
         /\ at'.rec > 0
         /\ at'.rec \in 1..Len(records) =>
                at'.key <= Len(records[at'.rec].keys)
<1>1. /\ at \in [rec : 0..Len(records) + 1, key : Nat \ {0}, isKey : BOOLEAN]
      /\ Len(records) \in Nat
      /\ at.rec \in 0..Len(records)
  BY DEF TypeOK, More, AtEnd
<1>2. CASE at.isKey
  <2>1. at'.rec = at.rec /\ at'.key = at.key /\ at'.isKey = FALSE
        /\ at' \in [rec : 0..Len(records) + 1, key : Nat \ {0},
                    isKey : BOOLEAN]
    BY <1>1, <1>2 DEF Read
  <2> QED
    BY <1>1, <1>2, <2>1, ScalarType DEF TypeOK
<1>3. CASE ~at.isKey /\ at.rec > 0 /\ at.key < Len(records[at.rec].keys)
  <2>1. at' = [rec |-> at.rec, key |-> at.key + 1, isKey |-> TRUE]
    BY <1>3 DEF Read
  <2>2. at.key + 1 \in Nat \ {0} /\ at.key + 1 <= Len(records[at.rec].keys)
    BY <1>1, <1>3, RecordType
  <2> QED
    BY <1>1, <1>3, <2>1, <2>2
<1>4. CASE ~at.isKey /\ ~(at.rec > 0 /\ at.key < Len(records[at.rec].keys))
  <2>1. at' = [rec |-> at.rec + 1, key |-> 1, isKey |-> TRUE]
    BY <1>4 DEF Read
  <2>2. at.rec + 1 \in 1..Len(records) + 1
    BY <1>1
  <2> QED
    BY <1>1, <2>1, <2>2, RecordType
<1> QED
  BY <1>1, <1>2, <1>3, <1>4

(* Setting a column of the last row makes rows again.                      *)
LEMMA WithColumnType ==
  ASSUME TypeOK, More, row = "last", NEW c
  PROVE  /\ Len(rows) \in Nat \ {0}
         /\ WithColumn(c) \in Seq(Rows)
         /\ Len(WithColumn(c)) = Len(rows)
         /\ \A k \in 1..Len(rows) :
                WithColumn(c)[k] = IF k = Len(rows)
                                   THEN [rows[k] EXCEPT ![c] = Value]
                                   ELSE rows[k]
<1>1. rows \in Seq(Rows) /\ rows # <<>>
  BY DEF TypeOK
<1>2. Len(rows) \in Nat \ {0} /\ rows[Len(rows)] \in Rows
  BY <1>1
<1>3. [rows[Len(rows)] EXCEPT ![c] = Value] \in Rows
  BY <1>2, ScalarType DEF Rows
<1>4. WithColumn(c) =
        [rows EXCEPT ![Len(rows)] = [rows[Len(rows)] EXCEPT ![c] = Value]]
  BY DEF WithColumn
<1> QED
  BY <1>1, <1>2, <1>3, <1>4

(* What a commit leaves behind, whatever its outcome.                      *)
LEMMA CommitType ==
  ASSUME TypeOK, NEW rs \in Seq(Rows), Commit(rs)
  PROVE  /\ open' = FALSE /\ rows' = <<>> /\ row' = "gone"
         /\ table' \in Seq(Rows)
         /\ fails' \in 0..MaxFails
<1>1. table \o rs \in Seq(Rows)
  BY DEF TypeOK
<1>2. fails < MaxFails => fails + 1 \in 0..MaxFails
  BY PackageAssumption DEF TypeOK
<1> QED
  BY <1>1, <1>2 DEF Commit, TypeOK

(* Every step keeps the types, and that a transaction is open just when    *)
(* there is a row in it to be filled.                                      *)
LEMMA TypeStep ==
  ASSUME TypeOK, [Next]_vars
  PROVE  TypeOK'
<1>1. /\ records \in Seq([keys : Shapes, invalid : BOOLEAN])
      /\ Len(records) <= MaxRecords
      /\ count \in Nat
      /\ rows \in Seq(Rows)
  BY DEF TypeOK
<1>2. ASSUME More, Read, records' = records
      PROVE  /\ at' \in [rec : 0..Len(records') + 1, key : Nat \ {0},
                         isKey : BOOLEAN]
             /\ at'.rec = 0 => at' = Title
             /\ at'.rec \in 1..Len(records') =>
                    at'.key <= Len(records'[at'.rec].keys)
  BY <1>2, ReadType
<1>3. CASE KeyRead
  <2>1. state' \in Keys \union {"VALUE"}
    BY <1>3, ScalarType DEF KeyRead
  <2> QED
    BY <1>2, <1>3, <2>1 DEF KeyRead, TypeOK
<1>4. CASE StrayValue \/ InvalidIgnored
  BY <1>2, <1>4 DEF StrayValue, InvalidIgnored, IsValueIn, TypeOK
<1>5. CASE BeginFault \/ SetFault
  BY <1>5 DEF BeginFault, SetFault, TypeOK, vars
<1>6. CASE NewRow
  <2>1. [EmptyRow EXCEPT !["name"] = Value] \in Rows
    BY <1>6, ScalarType DEF NewRow, IsValueIn, EmptyRow, Rows, Absent
  <2>2. rows' \in Seq(Rows) /\ rows' # <<>>
    BY <1>1, <1>6, <2>1 DEF NewRow
  <2> QED
    BY <1>2, <1>6, <2>2 DEF NewRow, IsValueIn, TypeOK
<1>7. CASE InsertFails
  <2>1. fails + 1 \in 0..MaxFails /\ <<>> \in Seq(Rows)
    BY <1>7, PackageAssumption DEF InsertFails, TypeOK
  <2> QED
    BY <1>7, <2>1 DEF InsertFails, TypeOK
<1>8. CASE SetColumn
  <2>1. rows' \in Seq(Rows) /\ rows' # <<>>
    <3>1. More /\ row = "last"
      BY <1>8 DEF SetColumn, IsValueIn
    <3>2. rows # <<>>
      BY <3>1 DEF TypeOK
    <3>3. ASSUME NEW c
          PROVE  WithColumn(c) \in Seq(Rows) /\ WithColumn(c) # <<>>
      BY <3>1, WithColumnType
    <3> QED
      BY <1>1, <1>8, <3>2, <3>3 DEF SetColumn
  <2>2. open /\ row = "last"
    BY <1>8 DEF SetColumn, TypeOK
  <2> QED
    BY <1>2, <1>8, <2>1, <2>2 DEF SetColumn, IsValueIn, TypeOK
<1>9. CASE TypeValue
  <2>1. More /\ row = "last" /\ open
    BY <1>9 DEF TypeValue, IsValueIn, TypeOK
  <2>2. /\ WithColumn("src_type") \in Seq(Rows)
        /\ WithColumn("src_type") # <<>>
    BY <2>1, WithColumnType
  <2>3. count + 1 \in Nat /\ <<>> \in Seq(Rows)
    BY <1>1
  <2>4. CASE Boundary(count + 1)
    <3>1. Commit(WithColumn("src_type"))
      BY <1>9, <2>4 DEF TypeValue
    <3>2. /\ open' = FALSE /\ rows' = <<>> /\ row' = "gone"
          /\ table' \in Seq(Rows)
          /\ fails' \in 0..MaxFails
      BY <2>2, <3>1, CommitType
    <3> QED
      BY <1>2, <1>9, <2>1, <2>3, <3>2 DEF TypeValue, TypeOK
  <2>5. CASE ~Boundary(count + 1)
    BY <1>2, <1>9, <2>1, <2>2, <2>3, <2>5 DEF TypeValue, TypeOK
  <2> QED
    BY <2>4, <2>5
<1>10. CASE Finish
  <2>1. CASE open
    <3>1. /\ open' = FALSE /\ rows' = <<>> /\ row' = "gone"
          /\ table' \in Seq(Rows)
          /\ fails' \in 0..MaxFails
      BY <1>1, <1>10, <2>1, CommitType DEF Finish
    <3>2. <<>> \in Seq(Rows)
      OBVIOUS
    <3> QED
      BY <1>10, <3>1, <3>2 DEF Finish, TypeOK
  <2>2. CASE ~open
    BY <1>10, <2>2 DEF Finish, TypeOK
  <2> QED
    BY <2>1, <2>2
<1>11. CASE UNCHANGED vars
  BY <1>11 DEF TypeOK, vars
<1> QED
  BY <1>3, <1>4, <1>5, <1>6, <1>7, <1>8, <1>9, <1>10, <1>11 DEF Next

(* What Init says of the file is what the types say.                       *)
LEMMA InitType == Init => TypeOK
<1> SUFFICES ASSUME Init PROVE TypeOK
  OBVIOUS
<1>1. /\ records \in Seq([keys : Shapes, invalid : BOOLEAN])
      /\ Len(records) \in 0..MaxRecords
  <2> DEFINE S == [keys : Shapes, invalid : BOOLEAN]
  <2>1. PICK m \in 0..MaxRecords : records \in [1..m -> S]
    BY DEF Init, BoundedSeq, SeqOf
  <2> HIDE DEF S
  <2>2. records \in Seq(S) /\ Len(records) = m
    BY <2>1
  <2> QED
    BY <2>1, <2>2 DEF S
<1>2. /\ at \in [rec : 0..Len(records) + 1, key : Nat \ {0}, isKey : BOOLEAN]
      /\ at = Title /\ at.rec = 0
  BY <1>1 DEF Init, Title
<1>3. open = (rows # <<>>) /\ (row = "last") = open
  BY DEF Init
<1>4. rows \in Seq(Rows) /\ table \in Seq(Rows)
  BY DEF Init
<1>5. /\ state \in Keys \union {"VALUE"} /\ count \in Nat
      /\ row \in {"null", "last", "gone"} /\ pc \in {"parse", "done", "fault"}
      /\ fails \in 0..MaxFails
  BY PackageAssumption DEF Init
<1> QED
  BY <1>1, <1>2, <1>3, <1>4, <1>5 DEF TypeOK

(* sysd_add_package_info keeps its variables in their types for every file *)
(* and every batch size: a row is being filled just when the transaction   *)
(* it belongs to is open.                                                  *)
THEOREM TypeCorrect == Spec => []TypeOK
<1>1. TypeOK /\ [Next]_vars => TypeOK'
  BY TypeStep
<1> QED
  BY <1>1, InitType, PTL DEF Spec

(* sysd_add_package_info returns with no transaction open, whatever is in  *)
(* the file and whatever fails.                                            *)
THEOREM NeverLeftOpen == Spec => []NothingLeftOpen
<1>1. Init => NothingLeftOpen
  BY DEF Init, NothingLeftOpen
<1>2. NothingLeftOpen /\ [Next]_vars => NothingLeftOpen'
  BY DEF NothingLeftOpen, Next, KeyRead, StrayValue, BeginFault, NewRow,
         InsertFails, SetColumn, SetFault, InvalidIgnored, TypeValue, Finish,
         IsValueIn, More, Commit, vars
<1> QED
  BY <1>1, <1>2, PTL DEF Spec

-----------------------------------------------------------------------------
(* The rows that records describe.                                         *)

(* A record that is well formed begins with its name, and ends with its    *)
(* type.                                                                   *)
LEMMA WellFormedKeys ==
  ASSUME TypeOK, AllWellFormed, NEW r \in 1..Len(records)
  PROVE  /\ records[r].keys \in Seq(Keys)
         /\ Len(records[r].keys) \in Nat /\ Len(records[r].keys) >= 2
         /\ \A j \in 1..Len(records[r].keys) :
                /\ records[r].keys[j] = "PKG" <=> j = 1
                /\ records[r].keys[j] = "TYPE" <=> j = Len(records[r].keys)
  BY RecordType DEF AllWellFormed, WellFormed

(* The name alone.                                                         *)
LEMMA RowBegins ==
  ASSUME NEW record, NEW r, record.keys[1] = "PKG"
  PROVE  RowUpTo(record, r, 1) =
             [EmptyRow EXCEPT !["name"] = ValueOf(r, "PKG")]
<1>1. \A j \in 1..1 : record.keys[j] = "PKG"
  OBVIOUS
<1>2. /\ Given(record, r, 1, "PKG") = ValueOf(r, "PKG")
      /\ Given(record, r, 1, "SRC_URL") = Absent
      /\ Given(record, r, 1, "TYPE") = Absent
  BY <1>1 DEF Given
<1>3. VersionUpTo(record, r, 1) = Absent
  BY <1>1 DEF VersionUpTo, Givers, GivesVersion
<1> QED
  BY <1>2, <1>3 DEF RowUpTo, EmptyRow, Columns

(* One more key.                                                           *)
LEMMA GivenNext ==
  ASSUME NEW record, NEW r, NEW m \in Nat, NEW k
  PROVE  Given(record, r, m + 1, k) =
             IF record.keys[m + 1] = k THEN ValueOf(r, k)
                                       ELSE Given(record, r, m, k)
  BY DEF Given

LEMMA VersionNext ==
  ASSUME NEW record, NEW r, NEW m \in Nat
  PROVE  VersionUpTo(record, r, m + 1) =
             IF GivesVersion(record, m + 1)
             THEN ValueOf(r, record.keys[m + 1])
             ELSE VersionUpTo(record, r, m)
<1>1. CASE GivesVersion(record, m + 1)
  <2> DEFINE G == Givers(record, m + 1)
  <2>1. G \subseteq Nat /\ m + 1 \in G /\ \A i \in G : m + 1 >= i
    BY <1>1 DEF Givers
  <2>2. \A j \in G : (\A i \in G : j >= i) => j = m + 1
    BY <2>1
  <2>3. Max(G) = m + 1
    BY <2>1, <2>2 DEF Max
  <2> QED
    BY <1>1, <2>1, <2>3 DEF VersionUpTo
<1>2. CASE ~GivesVersion(record, m + 1)
  <2>1. Givers(record, m + 1) = Givers(record, m)
    BY <1>2 DEF Givers
  <2> QED
    BY <1>2, <2>1 DEF VersionUpTo
<1> QED
  BY <1>1, <1>2

(* What reading the value of the (m + 1)-st key makes of the row.          *)
LEMMA RowNext ==
  ASSUME NEW record, NEW r, NEW m \in Nat,
         record.keys[m + 1] \in Keys \ {"PKG"}
  PROVE  RowUpTo(record, r, m + 1) =
             LET k == record.keys[m + 1]
                 row0 == RowUpTo(record, r, m)
             IN  IF k = "SRC_URL"
                 THEN [row0 EXCEPT !["src_url"] = ValueOf(r, k)]
                 ELSE IF k = "TYPE"
                 THEN [row0 EXCEPT !["src_type"] = ValueOf(r, k)]
                 ELSE IF k = "SRCREV" /\ record.invalid THEN row0
                 ELSE [row0 EXCEPT !["version"] = ValueOf(r, k)]
<1> DEFINE k == record.keys[m + 1]
           row0 == RowUpTo(record, r, m)
           row1 == RowUpTo(record, r, m + 1)
           row2 == IF k = "SRC_URL"
                   THEN [row0 EXCEPT !["src_url"] = ValueOf(r, k)]
                   ELSE IF k = "TYPE"
                   THEN [row0 EXCEPT !["src_type"] = ValueOf(r, k)]
                   ELSE IF k = "SRCREV" /\ record.invalid THEN row0
                   ELSE [row0 EXCEPT !["version"] = ValueOf(r, k)]
<1>1. ASSUME NEW n
      PROVE  /\ RowUpTo(record, r, n) =
                    [c \in Columns |-> RowUpTo(record, r, n)[c]]
             /\ RowUpTo(record, r, n)["name"] = Given(record, r, n, "PKG")
             /\ RowUpTo(record, r, n)["version"] = VersionUpTo(record, r, n)
             /\ RowUpTo(record, r, n)["src_url"] =
                    Given(record, r, n, "SRC_URL")
             /\ RowUpTo(record, r, n)["src_type"] =
                    Given(record, r, n, "TYPE")
  BY DEF RowUpTo, Columns
<1>2. row2 = [c \in Columns |-> row2[c]]
  BY <1>1
<1>3. /\ row1["name"] = row2["name"]
      /\ row1["src_url"] = row2["src_url"]
      /\ row1["src_type"] = row2["src_type"]
  BY <1>1, GivenNext DEF Columns, Keys
<1>4. row1["version"] = row2["version"]
  BY <1>1, VersionNext DEF Columns, Keys, GivesVersion
<1>5. \A c \in Columns : row1[c] = row2[c]
  BY <1>3, <1>4 DEF Columns
<1>6. row1 = row2
  <2> HIDE DEF row1, row2
  <2> QED
    BY <1>1, <1>2, <1>5 DEF row1
<1> QED
  BY <1>6

(* Rows of different records differ, in their names if in nothing else.    *)
LEMMA RowsDiffer ==
  ASSUME TypeOK, AllWellFormed,
         NEW r \in 1..Len(records), NEW s \in 1..Len(records),
         RowOf(r) = RowOf(s)
  PROVE  r = s
<1>1. ASSUME NEW q \in 1..Len(records)
      PROVE  RowOf(q)["name"] = ValueOf(q, "PKG")
  <2>1. records[q].keys[1] = "PKG" /\ 1 \in 1..Len(records[q].keys)
    BY WellFormedKeys
  <2>2. Given(records[q], q, Len(records[q].keys), "PKG") = ValueOf(q, "PKG")
    BY <2>1 DEF Given
  <2> QED
    BY <2>2 DEF RowOf, RowUpTo, Columns
<1>2. ValueOf(r, "PKG").rec = r /\ ValueOf(s, "PKG").rec = s
  BY DEF ValueOf
<1> QED
  BY <1>1, <1>2

-----------------------------------------------------------------------------
(* Well-formed files.                                                      *)

(* The row of the current record exists already: its name was read.        *)
Filling == at.rec \in 1..Len(records) /\ at.key > 1

(* The records of the batches that are through, stored or lost.            *)
Base == count - Len(rows) + (IF Filling THEN 1 ELSE 0)

(* Where the parser is.                                                    *)
ParseInv ==
    /\ at.rec \in 1..Len(records) /\ ~at.isKey => state = CurKey
    /\ at.rec = 0 => state = "VALUE"
    /\ count = IF at.rec = 0 THEN 0 ELSE at.rec - 1
    /\ open <=> Filling \/ ~Boundary(count)

(* What the open transaction holds.                                        *)
RowsInv ==
    /\ Base \in Nat /\ Boundary(Base)
    /\ \A k \in 1..Len(rows) :
           rows[k] = IF Filling /\ k = Len(rows)
                     THEN RowUpTo(records[at.rec], at.rec, at.key - 1)
                     ELSE RowOf(Base + k)

(* The table after n records: it has nothing else, all of them if nothing  *)
(* failed, and no part of a batch.                                         *)
TableUpTo(n) ==
    /\ \A k \in 1..Len(table) : \E r \in 1..n : table[k] = RowOf(r)
    /\ fails = 0 => /\ Len(table) = n
                    /\ \A k \in 1..n : table[k] = RowOf(k)
    /\ \A r, s \in 1..n : Batch(r) = Batch(s) => (Stored(r) <=> Stored(s))

TableInv == \E b \in Nat : b = Base /\ TableUpTo(b)

WellFormedInv ==
    AllWellFormed =>
        /\ pc # "fault"
        /\ pc = "parse" => ParseInv /\ RowsInv /\ TableInv
        /\ TableIsFile
        /\ BatchesWhole

(* The value of a key is read in the state of that key; the name is the    *)
(* first one of its record, the type the last.                             *)
LEMMA ValuePlace ==
  ASSUME TypeOK, AllWellFormed, ParseInv, NEW s \in Keys, IsValueIn(s)
  PROVE  /\ at.rec \in 1..Len(records) /\ ~at.isKey
         /\ at.key \in 1..Len(records[at.rec].keys)
         /\ Len(records[at.rec].keys) \in Nat
         /\ Len(records[at.rec].keys) >= 2
         /\ records[at.rec].keys[at.key] = s
         /\ s = "PKG" <=> at.key = 1
         /\ s = "TYPE" <=> at.key = Len(records[at.rec].keys)
         /\ Filling <=> s # "PKG"
         /\ count = at.rec - 1
<1>1. /\ More /\ ~at.isKey /\ state = s
      /\ at.rec \in 0..Len(records) /\ at.key \in Nat \ {0}
  BY DEF IsValueIn, More, AtEnd, TypeOK
<1>2. at.rec \in 1..Len(records)
  BY <1>1 DEF ParseInv, Keys
<1>3. CurKey = s /\ count = at.rec - 1
  BY <1>1, <1>2 DEF ParseInv
<1>4. at.key \in 1..Len(records[at.rec].keys)
  BY <1>1, <1>2, RecordType DEF TypeOK
<1> QED
  BY <1>1, <1>2, <1>3, <1>4, WellFormedKeys DEF CurKey, Filling

(* Behind a value the parser is at the next key or in the next record.     *)
LEMMA ValueRead ==
  ASSUME TypeOK, AllWellFormed, ParseInv, NEW s \in Keys, IsValueIn(s),
         Read, records' = records
  PROVE  /\ s # "TYPE" => /\ at'.rec = at.rec /\ at'.key = at.key + 1
                          /\ at'.isKey /\ Filling'
         /\ s = "TYPE" => /\ at'.rec = at.rec + 1 /\ at'.key = 1
                          /\ at'.isKey /\ ~Filling'
<1>1. /\ at.rec \in 1..Len(records) /\ ~at.isKey
      /\ at.key \in 1..Len(records[at.rec].keys)
      /\ Len(records[at.rec].keys) \in Nat
      /\ s = "TYPE" <=> at.key = Len(records[at.rec].keys)
  BY ValuePlace
<1>2. CASE s # "TYPE"
  <2>1. at' = [rec |-> at.rec, key |-> at.key + 1, isKey |-> TRUE]
    BY <1>1, <1>2 DEF Read
  <2> QED
    BY <1>1, <1>2, <2>1 DEF Filling
<1>3. CASE s = "TYPE"
  <2>1. at' = [rec |-> at.rec + 1, key |-> 1, isKey |-> TRUE]
    BY <1>1, <1>3 DEF Read
  <2> QED
    BY <1>1, <1>3, <2>1 DEF Filling
<1> QED
  BY <1>2, <1>3

(* Reading a key, or the title, is no step of any record.                  *)
LEMMA KeyPlace ==
  ASSUME TypeOK, ParseInv, KeyRead \/ StrayValue
  PROVE  /\ pc' = "parse" /\ ParseInv'
         /\ Filling' = Filling
         /\ Filling => at'.rec = at.rec /\ at'.key = at.key
<1>1. /\ at \in [rec : 0..Len(records) + 1, key : Nat \ {0}, isKey : BOOLEAN]
      /\ at.rec \in 0..Len(records) /\ More /\ records' = records
      /\ Len(records) \in Nat
  BY DEF KeyRead, StrayValue, IsValueIn, More, AtEnd, TypeOK
<1>2. CASE KeyRead
  <2>1. at.rec > 0 /\ at.isKey
    BY <1>1, <1>2, ScalarType DEF KeyRead
  <2>2. at'.rec = at.rec /\ at'.key = at.key /\ at'.isKey = FALSE
    BY <1>1, <1>2, <2>1 DEF KeyRead, Read
  <2>3. state' = CurKey'
    BY <1>2, <2>2 DEF KeyRead, CurKey
  <2>4. Filling' = Filling
    BY <1>1, <2>2 DEF Filling
  <2> QED
    BY <1>1, <1>2, <2>1, <2>2, <2>3, <2>4
       DEF KeyRead, More, ParseInv, Boundary
<1>3. CASE StrayValue
  <2>1. at.rec = 0 /\ ~at.isKey
    <3>1. ~at.isKey /\ state = "VALUE"
      BY <1>3 DEF StrayValue, IsValueIn
    <3>2. at.rec > 0 => CurKey \in Keys
      BY <1>1, ScalarType
    <3> QED
      BY <1>1, <3>1, <3>2 DEF ParseInv, Keys
  <2>2. at' = [rec |-> 1, key |-> 1, isKey |-> TRUE]
    BY <1>3, <2>1 DEF StrayValue, Read
  <2>3. ~Filling /\ Filling' = Filling
    BY <2>1, <2>2 DEF Filling
  <2>4. UNCHANGED <<pc, state, count, open>> /\ pc = "parse"
    BY <1>1, <1>3 DEF StrayValue, More
  <2>5. (open <=> Filling \/ ~Boundary(count))'
    BY <2>3, <2>4 DEF ParseInv, Boundary
  <2>6. count' = 0
    BY <2>1, <2>4 DEF ParseInv
  <2>7. at'.rec = 1 /\ at'.isKey
    BY <2>2
  <2> QED
    BY <2>3, <2>4, <2>5, <2>6, <2>7 DEF ParseInv
<1> QED
  BY <1>2, <1>3

(* A record begins: its row is the last of the open transaction.           *)
LEMMA NewRowStep ==
  ASSUME TypeOK, AllWellFormed, ParseInv, RowsInv, NewRow
  PROVE  ParseInv' /\ RowsInv' /\ Base' = Base
<1>1. /\ IsValueIn("PKG") /\ "PKG" \in Keys /\ "PKG" # "TYPE" /\ Read
      /\ records' = records
  BY DEF NewRow, Keys
<1>2. /\ at.rec \in 1..Len(records) /\ at.key = 1 /\ ~Filling
      /\ records[at.rec].keys[1] = "PKG"
      /\ count = at.rec - 1
  BY <1>1, ValuePlace
<1>3. at'.rec = at.rec /\ at'.key = 2 /\ at'.isKey /\ Filling'
  BY <1>1, <1>2, ValueRead
<1>4. ParseInv'
  <2>1. open' /\ count' = count /\ at.rec # 0
    BY <1>2 DEF NewRow
  <2> QED
    BY <1>2, <1>3, <2>1 DEF ParseInv
<1>5. /\ rows \in Seq(Rows) /\ Len(rows) \in Nat /\ count \in Nat
      /\ count' = count
      /\ rows' = Append(rows, [EmptyRow EXCEPT !["name"] = Value])
  BY DEF TypeOK, NewRow
<1>6. Len(rows') = Len(rows) + 1
  BY <1>5
<1>7. Base' = Base
  <2>1. count \in Nat /\ Len(rows) \in Nat /\ count' = count
    BY <1>5
  <2>2. Base = count - Len(rows)
    BY <1>2, <2>1 DEF Base
  <2>3. Base' = count' - Len(rows') + 1
    BY <1>3 DEF Base
  <2> QED
    BY <1>6, <2>1, <2>2, <2>3
<1>8. rows'[Len(rows')] = RowUpTo(records[at.rec], at.rec, 1)
  <2>1. Value = ValueOf(at.rec, "PKG")
    BY <1>2 DEF Value, CurKey, ValueOf
  <2> QED
    BY <1>2, <1>5, <1>6, <2>1, RowBegins
<1>9. \A k \in 1..Len(rows) : rows'[k] = RowOf(Base + k)
  BY <1>2, <1>5 DEF RowsInv
<1>10. RowsInv'
  <2>1. \A k : RowOf(k)' = RowOf(k)
    BY <1>1 DEF RowOf
  <2>2. Base' \in Nat /\ Boundary(Base')
    BY <1>7 DEF RowsInv
  <2>3. ASSUME NEW k \in 1..Len(rows')
        PROVE  rows'[k] = IF k = Len(rows')
                          THEN RowUpTo(records[at.rec], at.rec, 1)
                          ELSE RowOf(Base + k)
    BY <1>5, <1>6, <1>8, <1>9, <2>3
  <2> QED
    BY <1>1, <1>3, <1>7, <2>1, <2>2, <2>3 DEF RowsInv, Boundary, RowOf
<1> QED
  BY <1>4, <1>7, <1>10

(* What the value of a key other than the name makes of the last row.      *)
LEMMA ColumnSet ==
  ASSUME TypeOK, AllWellFormed, ParseInv, RowsInv, row = "last",
         NEW s \in Keys \ {"PKG"}, IsValueIn(s)
  PROVE  LET new == IF s = "SRC_URL" THEN WithColumn("src_url")
                    ELSE IF s = "TYPE" THEN WithColumn("src_type")
                    ELSE IF s = "SRCREV" /\ Value.key = "INVALID" THEN rows
                    ELSE WithColumn("version")
         IN  /\ Len(rows) \in Nat \ {0} /\ Len(new) = Len(rows)
             /\ new \in Seq(Rows)
             /\ \A k \in 1..Len(rows) :
                    new[k] = IF k = Len(rows)
                             THEN RowUpTo(records[at.rec], at.rec, at.key)
                             ELSE RowOf(Base + k)
<1> DEFINE record == records[at.rec]
           m == at.key - 1
           last == Len(rows)
<1>1. /\ at.rec \in 1..Len(records) /\ at.key \in 1..Len(record.keys)
      /\ record.keys[at.key] = s /\ Filling /\ at.key # 1
      /\ Len(record.keys) \in Nat
      /\ More
  BY ValuePlace DEF IsValueIn
<1>2. m \in Nat /\ m + 1 = at.key
  BY <1>1
<1>3. /\ last \in Nat \ {0}
      /\ rows \in Seq(Rows)
      /\ rows[last] = RowUpTo(record, at.rec, m)
      /\ \A k \in 1..last : k # last => rows[k] = RowOf(Base + k)
  BY <1>1, WithColumnType DEF TypeOK, RowsInv
<1>4. ASSUME NEW c
      PROVE  /\ WithColumn(c) \in Seq(Rows)
             /\ Len(WithColumn(c)) = last
             /\ \A k \in 1..last :
                    WithColumn(c)[k] = IF k = last
                                       THEN [rows[k] EXCEPT ![c] = Value]
                                       ELSE rows[k]
  BY <1>1, WithColumnType
<1>5. /\ Value.key = IF s = "SRCREV" /\ record.invalid THEN "INVALID" ELSE s
      /\ ~(s = "SRCREV" /\ record.invalid) => Value = ValueOf(at.rec, s)
  BY <1>1 DEF Value, CurKey, ValueOf
<1>6. s = "SRCREV" /\ Value.key = "INVALID" <=> s = "SRCREV" /\ record.invalid
  BY <1>5
<1>7. RowUpTo(record, at.rec, at.key) =
        IF s = "SRC_URL" THEN [rows[last] EXCEPT !["src_url"] = Value]
        ELSE IF s = "TYPE" THEN [rows[last] EXCEPT !["src_type"] = Value]
        ELSE IF s = "SRCREV" /\ record.invalid THEN rows[last]
        ELSE [rows[last] EXCEPT !["version"] = Value]
  <2> HIDE DEF record, m, last
  <2>1. record.keys[m + 1] = s /\ s \in Keys \ {"PKG"}
    BY <1>1, <1>2
  <2>2. RowUpTo(record, at.rec, m + 1) =
          IF s = "SRC_URL"
          THEN [rows[last] EXCEPT !["src_url"] = ValueOf(at.rec, s)]
          ELSE IF s = "TYPE"
          THEN [rows[last] EXCEPT !["src_type"] = ValueOf(at.rec, s)]
          ELSE IF s = "SRCREV" /\ record.invalid THEN rows[last]
          ELSE [rows[last] EXCEPT !["version"] = ValueOf(at.rec, s)]
    BY <1>2, <1>3, <2>1, RowNext
  <2> QED
    BY <1>2, <1>5, <2>2
<1> HIDE DEF record, m, last
<1>8. CASE s = "SRC_URL" \/ s = "TYPE"
  BY <1>3, <1>4, <1>7, <1>8 DEF record, last
<1>9. CASE s # "SRC_URL" /\ s # "TYPE" /\ ~(s = "SRCREV" /\ record.invalid)
  BY <1>3, <1>4, <1>6, <1>7, <1>9 DEF record, last
<1>10. CASE s = "SRCREV" /\ record.invalid
  BY <1>3, <1>6, <1>7, <1>10 DEF record, last
<1> QED
  BY <1>8, <1>9, <1>10

LEMMA SetColumnStep ==
  ASSUME TypeOK, AllWellFormed, ParseInv, RowsInv, SetColumn
  PROVE  ParseInv' /\ RowsInv' /\ Base' = Base
<1>1. PICK s \in {"PV", "SRCREV", "SRC_URL"} : IsValueIn(s)
  BY DEF SetColumn
<1>2. /\ s \in Keys \ {"PKG"} /\ s # "TYPE" /\ Read
      /\ records' = records /\ count' = count /\ open' = open
      /\ row = "last" /\ open
  BY <1>1 DEF SetColumn, Keys, TypeOK
<1>3. /\ at.rec \in 1..Len(records) /\ Filling
      /\ at.key \in Nat /\ count = at.rec - 1
  BY <1>1, <1>2, ValuePlace
<1>4. /\ at'.rec = at.rec /\ at'.key = at.key + 1 /\ at'.isKey /\ Filling'
  BY <1>1, <1>2, ValueRead
<1>5. ParseInv'
  <2>1. at'.rec # 0 /\ open' /\ count' = at'.rec - 1
    BY <1>2, <1>3, <1>4
  <2> QED
    BY <1>4, <2>1 DEF ParseInv
<1>6. /\ Len(rows') = Len(rows) /\ Len(rows) \in Nat \ {0}
      /\ \A k \in 1..Len(rows) :
             rows'[k] = IF k = Len(rows)
                        THEN RowUpTo(records[at.rec], at.rec, at.key)
                        ELSE RowOf(Base + k)
  <2> DEFINE new == IF s = "SRC_URL" THEN WithColumn("src_url")
                    ELSE IF s = "TYPE" THEN WithColumn("src_type")
                    ELSE IF s = "SRCREV" /\ Value.key = "INVALID" THEN rows
                    ELSE WithColumn("version")
  <2>1. rows' = new
    BY <1>1, <1>2 DEF SetColumn, IsValueIn
  <2>2. /\ Len(rows) \in Nat \ {0} /\ Len(new) = Len(rows)
        /\ \A k \in 1..Len(rows) :
               new[k] = IF k = Len(rows)
                        THEN RowUpTo(records[at.rec], at.rec, at.key)
                        ELSE RowOf(Base + k)
    BY <1>1, <1>2, ColumnSet
  <2> HIDE DEF new
  <2> QED
    BY <2>1, <2>2
<1>7. Base' = Base
  BY <1>2, <1>3, <1>4, <1>6 DEF Base
<1>8. RowsInv'
  <2>1. \A k : RowOf(k)' = RowOf(k)
    BY <1>2 DEF RowOf
  <2>2. Base' \in Nat /\ Boundary(Base')
    BY <1>7 DEF RowsInv
  <2>3. at'.key - 1 = at.key
    BY <1>3, <1>4
  <2> QED
    BY <1>2, <1>4, <1>6, <1>7, <2>1, <2>2, <2>3 DEF RowsInv, Boundary
<1> QED
  BY <1>5, <1>7, <1>8

(* A record is complete: with it the rows of the transaction are whole     *)
(* records, up to the one that is counted now.                             *)
LEMMA TypeValueRows ==
  ASSUME TypeOK, AllWellFormed, ParseInv, RowsInv, TypeValue
  PROVE  LET rs == WithColumn("src_type")
         IN  /\ rs \in Seq(Rows) /\ Len(rs) \in Nat
             /\ Base + Len(rs) = count + 1
             /\ count + 1 = at.rec
             /\ \A k \in 1..Len(rs) : rs[k] = RowOf(Base + k)
<1> DEFINE rs == WithColumn("src_type")
<1>1. IsValueIn("TYPE") /\ "TYPE" \in Keys \ {"PKG"} /\ row = "last"
  BY DEF TypeValue, Keys
<1>2. /\ at.rec \in 1..Len(records) /\ Filling
      /\ at.key = Len(records[at.rec].keys) /\ count = at.rec - 1
      /\ count \in Nat
  BY <1>1, ValuePlace DEF TypeOK
<1>3. /\ Len(rows) \in Nat \ {0} /\ Len(rs) = Len(rows)
      /\ rs \in Seq(Rows)
      /\ \A k \in 1..Len(rows) :
             rs[k] = IF k = Len(rows)
                     THEN RowUpTo(records[at.rec], at.rec, at.key)
                     ELSE RowOf(Base + k)
  BY <1>1, ColumnSet
<1> HIDE DEF rs
<1>4. Base = count - Len(rows) + 1 /\ count + 1 = at.rec
  BY <1>2 DEF Base
<1>5. Base + Len(rows) = count + 1
  BY <1>2, <1>3, <1>4
<1>6. RowUpTo(records[at.rec], at.rec, at.key) = RowOf(Base + Len(rows))
  BY <1>2, <1>4, <1>5 DEF RowOf
<1> QED
  BY <1>3, <1>4, <1>5, <1>6 DEF rs

LEMMA TypeValueStep ==
  ASSUME TypeOK, AllWellFormed, ParseInv, RowsInv, TypeValue
  PROVE  /\ ParseInv' /\ RowsInv'
         /\ Boundary(count + 1) => Base' = count + 1
         /\ ~Boundary(count + 1) => Base' = Base
<1> DEFINE rs == WithColumn("src_type")
<1>1. /\ IsValueIn("TYPE") /\ "TYPE" \in Keys /\ Read /\ records' = records
      /\ count' = count + 1 /\ count \in Nat /\ row = "last" /\ open
  BY DEF TypeValue, Keys, TypeOK
<1>2. /\ at'.rec = at.rec + 1 /\ at'.key = 1 /\ at'.isKey /\ ~Filling'
      /\ at.rec \in 1..Len(records) /\ count = at.rec - 1 /\ Filling
  BY <1>1, ValuePlace, ValueRead
<1>3. open' <=> ~Boundary(count')
  BY <1>1 DEF TypeValue, Commit
<1>4. ParseInv'
  <2>1. at'.rec # 0 /\ count' = at'.rec - 1
    BY <1>1, <1>2
  <2> QED
    BY <1>2, <1>3, <2>1 DEF ParseInv, Boundary
<1>5. Base' = count' - Len(rows')
  <2>1. Len(rows') \in Nat
    <3>1. CASE Boundary(count + 1)
      BY <1>1, <3>1 DEF TypeValue, Commit
    <3>2. CASE ~Boundary(count + 1)
      BY <1>1, <3>2, TypeValueRows DEF TypeValue
    <3> QED
      BY <3>1, <3>2
  <2> QED
    BY <1>1, <1>2, <2>1 DEF Base
<1>6. CASE Boundary(count + 1)
  <2>1. rows' = <<>> /\ Len(rows') = 0
    BY <1>1, <1>6 DEF TypeValue, Commit
  <2>2. Base' = count + 1
    BY <1>1, <1>5, <2>1
  <2> QED
    BY <1>1, <1>4, <1>6, <2>1, <2>2 DEF RowsInv, Boundary
<1>7. CASE ~Boundary(count + 1)
  <2>1. rows' = rs
    BY <1>7 DEF TypeValue
  <2>2. /\ Len(rs) \in Nat /\ Base + Len(rs) = count + 1
        /\ \A k \in 1..Len(rs) : rs[k] = RowOf(Base + k)
    BY TypeValueRows
  <2>3. Base \in Nat /\ Boundary(Base)
    BY DEF RowsInv
  <2> HIDE DEF rs
  <2>4. Base' = Base
    BY <1>1, <1>5, <2>1, <2>2, <2>3
  <2>5. \A k : RowOf(k)' = RowOf(k)
    BY <1>1 DEF RowOf
  <2> QED
    BY <1>2, <1>4, <1>7, <2>1, <2>2, <2>3, <2>4, <2>5 DEF RowsInv, Boundary
<1> QED
  BY <1>6, <1>7

-----------------------------------------------------------------------------
(* The table.                                                              *)

(* Records on the two sides of a batch boundary belong to different        *)
(* batches.                                                                *)
LEMMA BatchesDiffer ==
  ASSUME NEW b \in Nat, Boundary(b), NEW r \in 1..b, NEW s \in Nat, b < s
  PROVE  Batch(r) # Batch(s)
  BY PackageAssumption DEF Boundary, Batch

(* What it is for a record to be in the table.                             *)
LEMMA StoredMeans ==
  ASSUME table \in Seq(Rows), NEW r
  PROVE  Stored(r) <=> \E k \in 1..Len(table) : table[k] = RowOf(r)
  BY DEF Stored, Range

LEMMA StoredMeansAfter ==
  ASSUME table' \in Seq(Rows), NEW r
  PROVE  Stored(r)' <=> \E k \in 1..Len(table') : table'[k] = RowOf(r)'
  BY DEF Stored, Range

(* The table has no record of a batch that was not committed.              *)
LEMMA NotStored ==
  ASSUME TypeOK, AllWellFormed, NEW b \in Nat, b <= Len(records),
         TableUpTo(b), NEW r \in b + 1..Len(records)
  PROVE  ~Stored(r)
<1>1. SUFFICES ASSUME Stored(r) PROVE FALSE
  OBVIOUS
<1>2. PICK k \in 1..Len(table) : table[k] = RowOf(r)
  BY <1>1, StoredMeans DEF TypeOK
<1>3. PICK q \in 1..b : table[k] = RowOf(q)
  BY DEF TableUpTo
<1>4. q \in 1..Len(records) /\ r \in 1..Len(records) /\ q # r
  BY DEF TypeOK
<1> QED
  BY <1>2, <1>3, <1>4, RowsDiffer

(* A commit of whole records, up to wherever, loses all of them or none.   *)
LEMMA CommitTable ==
  ASSUME TypeOK, AllWellFormed, NEW b \in Nat, Boundary(b), TableUpTo(b),
         NEW rs \in Seq(Rows), b + Len(rs) <= Len(records),
         \A k \in 1..Len(rs) : rs[k] = RowOf(b + k),
         Commit(rs), records' = records
  PROVE  TableUpTo(b + Len(rs))'
<1> DEFINE n == b + Len(rs)
<1>1. n \in Nat /\ b <= n /\ Len(rs) \in Nat /\ Len(records) \in Nat
      /\ n <= Len(records)
  BY DEF TypeOK
<1>2. \A r : RowOf(r)' = RowOf(r)
  BY DEF RowOf
<1>3. /\ table \in Seq(Rows) /\ table' \in Seq(Rows)
      /\ Len(table) \in Nat /\ fails \in Nat
  <2>1. table' \in Seq(Rows)
    BY CommitType
  <2> QED
    BY <2>1 DEF TypeOK
<1>4. CASE table' = table \o rs /\ fails' = fails
  <2>1. /\ Len(table') = Len(table) + Len(rs)
        /\ \A k \in 1..Len(table') :
               table'[k] = IF k <= Len(table) THEN table[k]
                           ELSE rs[k - Len(table)]
    BY <1>3, <1>4
  <2>2. \A k \in 1..Len(table') : \E r \in 1..n : table'[k] = RowOf(r)
    <3> TAKE k \in 1..Len(table')
    <3>1. CASE k <= Len(table)
      <4>1. PICK r \in 1..b : table[k] = RowOf(r)
        BY <1>3, <2>1, <3>1 DEF TableUpTo
      <4> QED
        BY <1>1, <2>1, <3>1, <4>1
    <3>2. CASE k > Len(table)
      <4>1. k - Len(table) \in 1..Len(rs)
        BY <1>1, <1>3, <2>1, <3>2
      <4>2. table'[k] = rs[k - Len(table)]
        BY <1>3, <2>1, <3>2
      <4>3. rs[k - Len(table)] = RowOf(b + (k - Len(table)))
        BY <4>1
      <4> QED
        BY <1>1, <4>1, <4>2, <4>3
    <3> QED
      BY <1>1, <1>3, <2>1, <3>1, <3>2
  <2>3. fails' = 0 => /\ Len(table') = n
                      /\ \A k \in 1..n : table'[k] = RowOf(k)
    <3> SUFFICES ASSUME fails = 0
                 PROVE  /\ Len(table') = n
                        /\ \A k \in 1..n : table'[k] = RowOf(k)
      BY <1>4
    <3>1. Len(table) = b /\ \A k \in 1..b : table[k] = RowOf(k)
      BY DEF TableUpTo
    <3>2. ASSUME NEW k \in 1..n
          PROVE  table'[k] = RowOf(k)
      <4>1. CASE k <= b
        BY <1>1, <2>1, <3>1, <4>1
      <4>2. CASE k > b
        <5>1. k - b \in 1..Len(rs) /\ b + (k - b) = k
          BY <1>1, <4>2
        <5> QED
          BY <1>1, <2>1, <3>1, <4>2, <5>1
      <4> QED
        BY <1>1, <4>1, <4>2
    <3> QED
      BY <2>1, <3>1, <3>2
  <2>4. ASSUME NEW r \in 1..b
        PROVE  Stored(r)' <=> Stored(r)
    <3>1. \A k \in 1..Len(rs) : rs[k] # RowOf(r)
      BY <1>1, RowsDiffer
    <3>2. (\E k \in 1..Len(table') : table'[k] = RowOf(r))
            <=> \E k \in 1..Len(table) : table[k] = RowOf(r)
      <4>1. ASSUME NEW k \in 1..Len(table'), table'[k] = RowOf(r)
            PROVE  k \in 1..Len(table) /\ table[k] = RowOf(r)
        <5>1. CASE k <= Len(table)
          BY <1>3, <2>1, <4>1, <5>1
        <5>2. CASE k > Len(table)
          <6>1. k - Len(table) \in 1..Len(rs)
            BY <1>1, <1>3, <2>1, <5>2
          <6>2. table'[k] = rs[k - Len(table)]
            BY <1>3, <2>1, <5>2
          <6> QED
            BY <3>1, <4>1, <6>1, <6>2
        <5> QED
          BY <1>1, <1>3, <2>1, <5>1, <5>2
      <4>2. ASSUME NEW k \in 1..Len(table), table[k] = RowOf(r)
            PROVE  k \in 1..Len(table') /\ table'[k] = RowOf(r)
        BY <1>1, <1>3, <2>1, <4>2
      <4> QED
        BY <4>1, <4>2
    <3> QED
      BY <1>2, <1>3, <3>2, StoredMeans, StoredMeansAfter
  <2>5. ASSUME NEW r \in b + 1..n
        PROVE  Stored(r)'
    <3>1. r - b \in 1..Len(rs) /\ rs[r - b] = RowOf(r)
      BY <1>1
    <3>2. /\ Len(table) + (r - b) \in 1..Len(table')
          /\ table'[Len(table) + (r - b)] = RowOf(r)
      <4> DEFINE i == r - b
      <4>1. i \in 1..Len(rs) /\ rs[i] = RowOf(r)
        BY <3>1
      <4> HIDE DEF i
      <4>2. /\ Len(table) + i \in 1..Len(table')
            /\ Len(table) + i > Len(table)
            /\ (Len(table) + i) - Len(table) = i
        BY <1>1, <1>3, <2>1, <4>1
      <4>3. table'[Len(table) + i] = rs[i]
        BY <2>1, <4>2
      <4> QED
        BY <4>1, <4>2, <4>3 DEF i
    <3> QED
      BY <1>2, <1>3, <3>2, StoredMeansAfter
  <2>6. ASSUME NEW r \in 1..n, NEW s \in 1..n, Batch(r) = Batch(s)
        PROVE  Stored(r)' <=> Stored(s)'
    BY <1>1, <2>4, <2>5, <2>6, BatchesDiffer DEF TableUpTo
  <2> QED
    BY <1>2, <2>2, <2>3, <2>6 DEF TableUpTo, Batch
<1>5. CASE table' = table /\ fails' = fails + 1
  <2>1. \A r : Stored(r)' <=> Stored(r)
    BY <1>2, <1>5 DEF Stored
  <2>2. \A r \in b + 1..n : ~Stored(r)
    BY <1>1, NotStored
  <2>3. ASSUME NEW r \in 1..n, NEW s \in 1..n, Batch(r) = Batch(s)
        PROVE  Stored(r)' <=> Stored(s)'
    <3>1. CASE r \in 1..b /\ s \in 1..b
      BY <2>1, <2>3, <3>1 DEF TableUpTo
    <3>2. CASE r \in b + 1..n /\ s \in b + 1..n
      BY <2>1, <2>2, <3>2
    <3>3. r \in 1..b => s \notin b + 1..n
      BY <1>1, <2>3, BatchesDiffer
    <3>4. s \in 1..b => r \notin b + 1..n
      BY <1>1, <2>3, BatchesDiffer
    <3> QED
      BY <1>1, <3>1, <3>2, <3>3, <3>4
  <2>4. \A k \in 1..Len(table') : \E r \in 1..n : table'[k] = RowOf(r)
    <3> TAKE k \in 1..Len(table')
    <3>1. PICK r \in 1..b : table[k] = RowOf(r)
      BY <1>5 DEF TableUpTo
    <3> QED
      BY <1>1, <1>5, <3>1
  <2>5. fails' # 0
    BY <1>3, <1>5
  <2> QED
    BY <1>2, <2>3, <2>4, <2>5 DEF TableUpTo, Batch
<1> QED
  BY <1>4, <1>5 DEF Commit

LEMMA TableKept ==
  ASSUME TableInv, Base' = Base, UNCHANGED <<records, table, fails>>
  PROVE  TableInv'
<1>1. PICK b \in Nat : b = Base /\ TableUpTo(b)
  BY DEF TableInv
<1>2. \A r : RowOf(r)' = RowOf(r) /\ (Stored(r)' <=> Stored(r))
  BY DEF RowOf, Stored
<1>3. TableUpTo(b)'
  BY <1>1, <1>2 DEF TableUpTo, Batch
<1> QED
  BY <1>1, <1>3 DEF TableInv

(* With n records through, what happens to the others cannot divide any    *)
(* batch.                                                                  *)
LEMMA BatchesAreWhole ==
  ASSUME TypeOK, AllWellFormed, NEW n \in 0..Len(records), TableUpTo(n),
         Boundary(n) \/ n = Len(records),
         NEW r \in 1..Len(records), NEW s \in 1..Len(records),
         Batch(r) = Batch(s)
  PROVE  Stored(r) <=> Stored(s)
<1>1. n \in Nat /\ Len(records) \in Nat
  BY DEF TypeOK
<1>2. CASE r <= n /\ s <= n
  BY <1>1, <1>2 DEF TableUpTo
<1>3. CASE r > n /\ s > n
  BY <1>1, <1>3, NotStored
<1>4. ~(r <= n /\ s > n) /\ ~(s <= n /\ r > n)
  BY <1>1, BatchesDiffer
<1> QED
  BY <1>1, <1>2, <1>3, <1>4

(* No step of a well-formed file is a fault, and none breaks what the      *)
(* parser, the transaction and the table say of each other.                *)
LEMMA WellFormedStep ==
  ASSUME TypeOK, TypeOK', WellFormedInv, [Next]_vars
  PROVE  WellFormedInv'
<1>1. CASE UNCHANGED vars
  <2>1. UNCHANGED <<AllWellFormed, ParseInv, RowsInv, TableInv, TableIsFile,
                    BatchesWhole, pc>>
    BY <1>1 DEF vars, AllWellFormed, ParseInv, RowsInv, TableInv, TableIsFile,
                BatchesWhole, CurKey, Filling, Base, Boundary, RowOf,
                TableUpTo, Stored, Batch
  <2> QED
    BY <2>1 DEF WellFormedInv
<1>2. ASSUME Next PROVE WellFormedInv'
  <2>1. records' = records /\ pc = "parse"
    BY <1>2 DEF Next, KeyRead, StrayValue, BeginFault, NewRow, InsertFails,
                SetColumn, SetFault, InvalidIgnored, TypeValue, Finish,
                IsValueIn, More
  <2>2. SUFFICES ASSUME AllWellFormed
                 PROVE  /\ pc' # "fault"
                        /\ pc' = "parse" => ParseInv' /\ RowsInv' /\ TableInv'
                        /\ TableIsFile'
                        /\ BatchesWhole'
    BY <2>1 DEF WellFormedInv, AllWellFormed
  <2>3. ParseInv /\ RowsInv /\ TableInv
    BY <2>1, <2>2 DEF WellFormedInv
  <2>4. PICK b \in Nat : b = Base /\ Boundary(b) /\ TableUpTo(b)
    BY <2>3 DEF TableInv, RowsInv
  <2>5. /\ Len(records) \in Nat /\ count \in Nat
        /\ rows \in Seq(Rows) /\ Len(rows) \in Nat
    BY DEF TypeOK
  <2>6. ASSUME pc' = "parse"
        PROVE  TableIsFile' /\ BatchesWhole'
    BY <2>6 DEF TableIsFile, BatchesWhole
  <2>7. CASE KeyRead \/ StrayValue
    <3>1. /\ pc' = "parse" /\ ParseInv' /\ Filling' = Filling
          /\ Filling => at'.rec = at.rec /\ at'.key = at.key
      BY <2>3, <2>7, KeyPlace
    <3>2. UNCHANGED <<records, count, rows, table, fails>>
      BY <2>7 DEF KeyRead, StrayValue
    <3>3. Base' = Base
      BY <3>1, <3>2 DEF Base
    <3>4. \A k : RowOf(k)' = RowOf(k)
      BY <3>2 DEF RowOf
    <3>5. RowsInv'
      BY <2>3, <3>1, <3>2, <3>3, <3>4 DEF RowsInv, Boundary
    <3> QED
      BY <2>3, <2>6, <3>1, <3>2, <3>3, <3>5, TableKept
  <2>8. CASE BeginFault \/ SetFault \/ InvalidIgnored
    <3>1. ASSUME BeginFault PROVE FALSE
      BY <2>2, <2>3, <3>1, ValuePlace DEF BeginFault, ParseInv, Keys
    <3>2. ASSUME SetFault \/ InvalidIgnored PROVE FALSE
      <4>1. PICK s \in Keys \ {"PKG"} : IsValueIn(s)
        BY <3>2 DEF SetFault, InvalidIgnored, Keys
      <4>2. Filling
        BY <2>2, <2>3, <4>1, ValuePlace
      <4>3. open /\ row # "last"
        BY <2>3, <3>2, <4>2 DEF SetFault, InvalidIgnored, ParseInv
      <4> QED
        BY <4>3 DEF TypeOK
    <3> QED
      BY <2>8, <3>1, <3>2
  <2>9. CASE NewRow \/ SetColumn
    <3>1. ParseInv' /\ RowsInv' /\ Base' = Base
      BY <2>2, <2>3, <2>9, NewRowStep, SetColumnStep
    <3>2. UNCHANGED <<records, table, fails, pc>>
      BY <2>9 DEF NewRow, SetColumn
    <3> QED
      BY <2>1, <2>3, <2>6, <3>1, <3>2, TableKept
  <2>10. CASE InsertFails
    <3>1. IsValueIn("PKG") /\ "PKG" \in Keys
      BY <2>10 DEF InsertFails, Keys
    <3>2. at.rec \in 1..Len(records) /\ count = at.rec - 1 /\ ~Filling
      BY <2>2, <2>3, <3>1, ValuePlace
    <3>3. b \in 0..Len(records)
      BY <2>4, <2>5, <3>2 DEF Base
    <3>4. pc' = "done" /\ table' = table /\ fails' = fails + 1
      BY <2>10 DEF InsertFails
    <3>5. fails' # 0
      BY <3>4 DEF TypeOK
    <3>6. BatchesWhole'
      <4>1. \A r : Stored(r)' <=> Stored(r)
        BY <2>1, <3>4 DEF Stored, RowOf
      <4>2. \A r, s \in 1..Len(records) :
                Batch(r) = Batch(s) => (Stored(r)' <=> Stored(s)')
        BY <2>2, <2>4, <3>3, <4>1, BatchesAreWhole
      <4> QED
        BY <2>1, <4>2 DEF BatchesWhole, Batch
    <3> QED
      BY <3>4, <3>5, <3>6 DEF TableIsFile
  <2>11. CASE TypeValue
    <3>1. /\ ParseInv' /\ RowsInv'
          /\ Boundary(count + 1) => Base' = count + 1
          /\ ~Boundary(count + 1) => Base' = Base
      BY <2>2, <2>3, <2>11, TypeValueStep
    <3>2. pc' = "parse"
      BY <2>1, <2>11 DEF TypeValue
    <3>3. CASE ~Boundary(count + 1)
      <4>1. table' = table /\ fails' = fails
        BY <2>11, <3>3 DEF TypeValue
      <4> QED
        BY <2>1, <2>3, <2>6, <3>1, <3>2, <3>3, <4>1, TableKept
    <3>4. CASE Boundary(count + 1)
      <4>1. /\ WithColumn("src_type") \in Seq(Rows)
            /\ b + Len(WithColumn("src_type")) = count + 1
            /\ count + 1 = at.rec
            /\ \A k \in 1..Len(WithColumn("src_type")) :
                   WithColumn("src_type")[k] = RowOf(b + k)
        BY <2>2, <2>3, <2>4, <2>11, TypeValueRows
      <4>2. PICK rs \in Seq(Rows) : rs = WithColumn("src_type")
        BY <4>1
      <4>3. Commit(rs)
        BY <2>11, <3>4, <4>2 DEF TypeValue
      <4>4. at.rec <= Len(records)
        BY <2>11 DEF TypeValue, IsValueIn, More, AtEnd, TypeOK
      <4>5. PICK n \in Nat : n = count + 1
        BY <2>5
      <4>6. /\ b + Len(rs) = n /\ n <= Len(records)
            /\ \A k \in 1..Len(rs) : rs[k] = RowOf(b + k)
        BY <4>1, <4>2, <4>4, <4>5
      <4>7. TableUpTo(b + Len(rs))'
        BY <2>1, <2>2, <2>4, <4>3, <4>6, CommitTable
      <4>8. TableUpTo(n)'
        BY <4>6, <4>7
      <4>9. TableInv'
        BY <3>1, <3>4, <4>5, <4>8 DEF TableInv
      <4> QED
        BY <2>6, <3>1, <3>2, <4>9
    <3> QED
      BY <3>3, <3>4
  <2>12. CASE Finish
    <3>1. pc' = "done" /\ at.rec = Len(records) + 1
      BY <2>5, <2>12 DEF Finish, AtEnd, TypeOK
    <3>2. ~Filling /\ count = Len(records)
      BY <2>3, <2>5, <3>1 DEF Filling, ParseInv
    <3>3. /\ b + Len(rows) = Len(records)
          /\ \A k \in 1..Len(rows) : rows[k] = RowOf(b + k)
      BY <2>3, <2>4, <2>5, <3>2 DEF Base, RowsInv
    <3>4. PICK n \in Nat : n = Len(records)
      BY <2>5
    <3>5. TableUpTo(n)'
      <4>1. CASE open
        <5>1. PICK rs \in Seq(Rows) : rs = rows
          BY <2>5
        <5>2. Commit(rs)
          BY <2>12, <4>1, <5>1 DEF Finish
        <5>3. /\ b + Len(rs) = n /\ n <= Len(records)
              /\ \A k \in 1..Len(rs) : rs[k] = RowOf(b + k)
          BY <3>3, <3>4, <5>1
        <5>4. TableUpTo(b + Len(rs))'
          BY <2>1, <2>2, <2>4, <5>2, <5>3, CommitTable
        <5> QED
          BY <5>3, <5>4
      <4>2. CASE ~open
        <5>1. rows = <<>> /\ UNCHANGED <<table, fails>>
          BY <2>12, <4>2 DEF Finish, TypeOK
        <5>2. b = n
          BY <2>5, <3>3, <3>4, <5>1
        <5>3. \A r : RowOf(r)' = RowOf(r) /\ (Stored(r)' <=> Stored(r))
          BY <2>1, <5>1 DEF RowOf, Stored
        <5>4. TableUpTo(b)'
          BY <2>4, <5>1, <5>3 DEF TableUpTo, Batch
        <5> QED
          BY <5>2, <5>4
      <4> QED
        BY <4>1, <4>2
    <3>6. Len(records)' = n
      BY <2>1, <3>4
    <3>7. BatchesWhole'
      BY <3>5, <3>6 DEF BatchesWhole, TableUpTo, Batch
    <3>8. TableIsFile'
      <4>1. table' \in Seq(Rows)
        BY DEF TypeOK
      <4>2. ASSUME fails' = 0
            PROVE  table' = [r \in 1..n |-> RowOf(r)']
        <5>1. /\ Len(table') = n
              /\ \A k \in 1..n : table'[k] = RowOf(k)'
          BY <3>5, <4>2 DEF TableUpTo
        <5> QED
          BY <4>1, <5>1
      <4> QED
        BY <3>6, <4>2 DEF TableIsFile
    <3> QED
      BY <3>1, <3>7, <3>8
  <2> QED
    BY <1>2, <2>7, <2>8, <2>9, <2>10, <2>11, <2>12 DEF Next
<1> QED
  BY <1>1, <1>2

LEMMA WellFormedInit ==
  ASSUME Init
  PROVE  WellFormedInv
<1>1. /\ at.rec = 0 /\ count = 0 /\ rows = <<>> /\ table = <<>> /\ ~open
      /\ state = "VALUE" /\ pc = "parse" /\ fails = 0
  BY DEF Init, Title
<1>2. Boundary(0)
  BY PackageAssumption DEF Boundary
<1>3. ~Filling /\ Base = 0
  BY <1>1 DEF Filling, Base
<1>4. ParseInv /\ RowsInv
  BY <1>1, <1>2, <1>3 DEF ParseInv, RowsInv
<1>5. TableUpTo(0)
  BY <1>1 DEF TableUpTo
<1>6. TableInv
  BY <1>3, <1>5 DEF TableInv
<1> QED
  BY <1>1, <1>4, <1>6 DEF WellFormedInv, TableIsFile, BatchesWhole

(* Every step of a well-formed version_detail.yaml keeps count, the open   *)
(* transaction and the table in accord with the place in the file.         *)
THEOREM WellFormedInvariance == Spec => []WellFormedInv
<1>1. TypeOK /\ TypeOK' /\ WellFormedInv /\ [Next]_vars => WellFormedInv'
  BY WellFormedStep
<1>2. Init => WellFormedInv
  BY WellFormedInit
<1> QED
  BY <1>1, <1>2, TypeCorrect, PTL DEF Spec

(* For a well-formed file no transaction is begun while another is open,   *)
(* and no column is set in a row that is not there, wherever the records   *)
(* fall with respect to the batches and whatever fails.                    *)
THEOREM NoFault == Spec => []FaultOnlyIfMalformed
<1>1. WellFormedInv => FaultOnlyIfMalformed
  BY DEF WellFormedInv, FaultOnlyIfMalformed
<1> QED
  BY <1>1, WellFormedInvariance, PTL

(* If nothing fails, Package_Info ends up with one row for each record of  *)
(* the file, in its order and with the record's own values.                *)
THEOREM TableComplete == Spec => []TableIsFile
<1>1. WellFormedInv => TableIsFile
  BY DEF WellFormedInv, TableIsFile
<1> QED
  BY <1>1, WellFormedInvariance, PTL

(* What fails takes whole batches with it: of no batch some records are in *)
(* Package_Info and others not.                                            *)
THEOREM BatchesStayWhole == Spec => []BatchesWhole
<1>1. WellFormedInv => BatchesWhole
  BY DEF WellFormedInv, BatchesWhole
<1> QED
  BY <1>1, WellFormedInvariance, PTL
=============================================================================
