---------------------------- MODULE PackageInfo ----------------------------
(***************************************************************************)
(* sysd_add_package_info(): the scalars of /var/lib/version_detail.yaml    *)
(* drive a small state machine that builds Package_Info rows, and commits  *)
(* them in transactions of PKG_INFO_ENTRIES_PER_COMMIT entries.            *)
(*                                                                         *)
(* A file that is missing, or that ends in a YAML error, is read as the    *)
(* file up to there: the code leaves its loop in the same way.             *)
(***************************************************************************)
EXTENDS Integers, Sequences, SequencesExt

CONSTANTS
    Shapes,             \* The key sequences a record of the file may have.
    MaxRecords,         \* Bound on the records of a file.
    EntriesPerCommit,   \* PKG_INFO_ENTRIES_PER_COMMIT.
    MaxFails            \* Bound on failed commits and failed inserts.

Keys == {"PKG", "PV", "SRCREV", "SRC_URL", "TYPE"}
Columns == {"name", "version", "src_url", "src_type"}

ASSUME PackageAssumption ==
    /\ Shapes \subseteq Seq(Keys) \ {<<>>}
    /\ EntriesPerCommit \in Nat \ {0}
    /\ MaxRecords \in Nat
    /\ MaxFails \in Nat

VARIABLES
    records,        \* The records of the file.
    at,             \* The scalar that is read next: see Value.
    state,          \* current_state.
    count,          \* record_count.
    open,           \* Is there a transaction (txn # NULL)?
    rows,           \* The rows inserted in it.
    row,            \* row: "null", "last" of rows, or "gone" with its txn.
    table,          \* The Package_Info table.
    fails,          \* Commits and inserts that failed.
    pc              \* "parse", "done" or "fault".

vars == <<records, at, state, count, open, rows, row, table, fails, pc>>

(* A scalar is a key of a record or the value that follows it.  The value  *)
(* of key k in the r-th record is known by both; a SRCREV may also be the  *)
(* word INVALID.  What precedes the first record is one scalar that is no  *)
(* key (the title).                                                        *)
Absent == [rec |-> 0, key |-> "none"]
Title == [rec |-> 0, key |-> 1, isKey |-> FALSE]

CurKey == records[at.rec].keys[at.key]
Value == IF at.rec = 0 THEN Absent
         ELSE [rec |-> at.rec,
               key |-> IF CurKey = "SRCREV" /\ records[at.rec].invalid
                       THEN "INVALID" ELSE CurKey]

EmptyRow == [c \in Columns |-> Absent]

Init ==
    /\ records \in BoundedSeq([keys : Shapes, invalid : BOOLEAN], MaxRecords)
    /\ \A r \in 1..Len(records) :
           records[r].invalid => "SRCREV" \in Range(records[r].keys)
    /\ at = Title
    /\ state = "VALUE"
    /\ count = 0
    /\ open = FALSE
    /\ rows = <<>>
    /\ row = "null"
    /\ table = <<>>
    /\ fails = 0
    /\ pc = "parse"

AtEnd == at.rec > Len(records)
More == pc = "parse" /\ ~AtEnd

(* On to the next scalar: the value, the next key, the next record.        *)
Read ==
    at' = IF at.isKey
          THEN [at EXCEPT !.isKey = FALSE]
          ELSE IF at.rec > 0 /\ at.key < Len(records[at.rec].keys)
          THEN [rec |-> at.rec, key |-> at.key + 1, isKey |-> TRUE]
          ELSE [rec |-> at.rec + 1, key |-> 1, isKey |-> TRUE]

(* package_info_mapping_check_key finds a key: it is the new state.        *)
KeyRead ==
    /\ More
    /\ at.isKey
    /\ Read
    /\ state' = CurKey
    /\ UNCHANGED <<records, count, open, rows, row, table, fails, pc>>

IsValueIn(s) == More /\ ~at.isKey /\ state = s

(* A value before the first key.                                           *)
StrayValue ==
    /\ IsValueIn("VALUE")
    /\ Read
    /\ UNCHANGED <<records, state, count, open, rows, row, table, fails, pc>>

Boundary(n) == n % EntriesPerCommit = 0

(* ovsdb_idl_txn_create: a second transaction on the IDL is an assertion   *)
(* failure; so is an insert with no transaction.                           *)
BeginFault ==
    /\ IsValueIn("PKG")
    /\ IF Boundary(count) THEN open ELSE ~open
    /\ pc' = "fault"
    /\ UNCHANGED <<records, at, state, count, open, rows, row, table, fails>>

(* PKG: a new row, in a new transaction at a boundary.                     *)
NewRow ==
    /\ IsValueIn("PKG")
    /\ IF Boundary(count) THEN ~open ELSE open
    /\ Read
    /\ open' = TRUE
    /\ rows' = Append(rows, [EmptyRow EXCEPT !["name"] = Value])
    /\ row' = "last"
    /\ UNCHANGED <<records, state, count, table, fails, pc>>

(* Mutant of InsertFails: the batch is committed instead of dropped.       *)
InsertFailsCommits ==
    /\ IsValueIn("PKG")
    /\ IF Boundary(count) THEN ~open ELSE open
    /\ fails < MaxFails
    /\ fails' = fails + 1
    /\ table' = table \o rows
    /\ open' = FALSE
    /\ rows' = <<>>
    /\ row' = "null"
    /\ pc' = "done"
    /\ UNCHANGED <<records, at, state, count>>

(* The insert returns NULL: clean up and give up.                          *)
InsertFails ==
    /\ IsValueIn("PKG")
    /\ IF Boundary(count) THEN ~open ELSE open
    /\ fails < MaxFails
    /\ fails' = fails + 1
    /\ open' = FALSE
    /\ rows' = <<>>
    /\ row' = "null"
    /\ pc' = "done"
    /\ UNCHANGED <<records, at, state, count, table>>

WithColumn(c) == [rows EXCEPT ![Len(rows)][c] = Value]

(* Mutant of SetColumn: the word INVALID is stored as a version.           *)
SetColumnInvalid ==
    /\ \E s \in {"PV", "SRCREV", "SRC_URL"} : IsValueIn(s)
    /\ row = "last"
    /\ Read
    /\ rows' = WithColumn(IF state = "SRC_URL" THEN "src_url" ELSE "version")
    /\ UNCHANGED <<records, state, count, open, row, table, fails, pc>>

(* PV, SRCREV and SRC_URL set a column of the row; an INVALID SRCREV does  *)
(* not.                                                                    *)
SetColumn ==
    /\ \E s \in {"PV", "SRCREV", "SRC_URL"} : IsValueIn(s)
    /\ row = "last"
    /\ Read
    /\ rows' = IF state = "SRC_URL" THEN WithColumn("src_url")
               ELSE IF state = "SRCREV" /\ Value.key = "INVALID" THEN rows
               ELSE WithColumn("version")
    /\ UNCHANGED <<records, state, count, open, row, table, fails, pc>>

(* A column is set in no row, or in a row whose transaction is gone.       *)
SetFault ==
    /\ \E s \in Keys \ {"PKG"} : IsValueIn(s)
    /\ ~(state = "SRCREV" /\ Value.key = "INVALID")
    /\ row # "last"
    /\ pc' = "fault"
    /\ UNCHANGED <<records, at, state, count, open, rows, row, table, fails>>

(* ... except that an INVALID SRCREV touches no row at all.                *)
InvalidIgnored ==
    /\ IsValueIn("SRCREV")
    /\ Value.key = "INVALID"
    /\ row # "last"
    /\ Read
    /\ UNCHANGED <<records, state, count, open, rows, row, table, fails, pc>>

(* Mutant of Commit: txn is not reset to NULL.                             *)
CommitKeepsTxn(rs) ==
    /\ table' = table \o rs
    /\ rows' = <<>>
    /\ row' = "gone"
    /\ UNCHANGED <<open, fails>>

(* Commit rs, successfully or not (a failure is only logged), and destroy  *)
(* the transaction.                                                        *)
Commit(rs) ==
    /\ \/ table' = table \o rs /\ UNCHANGED fails
       \/ fails < MaxFails /\ fails' = fails + 1 /\ UNCHANGED table
    /\ open' = FALSE
    /\ rows' = <<>>
    /\ row' = "gone"

(* Mutant of TypeValue: the boundary is tested before the count.           *)
TypeValueEarly ==
    /\ IsValueIn("TYPE")
    /\ row = "last"
    /\ Read
    /\ count' = count + 1
    /\ IF Boundary(count) THEN Commit(WithColumn("src_type"))
       ELSE /\ rows' = WithColumn("src_type")
            /\ UNCHANGED <<open, row, table, fails>>
    /\ UNCHANGED <<records, state, pc>>

(* TYPE ends a record, and at a boundary the transaction.                  *)
TypeValue ==
    /\ IsValueIn("TYPE")
    /\ row = "last"
    /\ Read
    /\ count' = count + 1
    /\ IF Boundary(count + 1)
       THEN Commit(WithColumn("src_type"))
       ELSE /\ rows' = WithColumn("src_type")
            /\ UNCHANGED <<open, row, table, fails>>
    /\ UNCHANGED <<records, state, pc>>

(* Mutant of Finish: the last transaction is not committed.                *)
FinishUncommitted ==
    /\ pc = "parse"
    /\ AtEnd
    /\ pc' = "done"
    /\ UNCHANGED <<records, at, state, count, open, rows, row, table, fails>>

(* Mutant of Finish: committed only if its last record is complete, else   *)
(* left open.                                                              *)
FinishCompleteOnly ==
    /\ pc = "parse"
    /\ AtEnd
    /\ IF open /\ rows[Len(rows)]["src_type"] # Absent
       THEN Commit(rows) ELSE UNCHANGED <<open, rows, row, table, fails>>
    /\ pc' = "done"
    /\ UNCHANGED <<records, at, state, count>>

(* The end of the file: commit what is still open.                         *)
Finish ==
    /\ pc = "parse"
    /\ AtEnd
    /\ IF open THEN Commit(rows)
               ELSE UNCHANGED <<open, rows, row, table, fails>>
    /\ pc' = "done"
    /\ UNCHANGED <<records, at, state, count>>

Next ==
    \/ KeyRead
    \/ StrayValue
    \/ BeginFault
    \/ NewRow
    \/ InsertFails
    \/ SetColumn
    \/ SetFault
    \/ InvalidIgnored
    \/ TypeValue
    \/ Finish

Spec == Init /\ [][Next]_vars

-----------------------------------------------------------------------------
(* What the file says, independently of how it is read.                    *)

(* A record starts with PKG, ends with TYPE, and has each of them once.    *)
WellFormed(record) ==
    /\ Len(record.keys) >= 2
    /\ \A j \in 1..Len(record.keys) :
           /\ record.keys[j] = "PKG" <=> j = 1
           /\ record.keys[j] = "TYPE" <=> j = Len(record.keys)

AllWellFormed == \A r \in 1..Len(records) : WellFormed(records[r])

(* Does the j-th key of a record give its version?                         *)
GivesVersion(record, j) ==
    record.keys[j] = "PV" \/ (record.keys[j] = "SRCREV" /\ ~record.invalid)

(* What the first m keys of a record, the r-th one, tell: the value of key *)
(* k, and the version, which the last one of those that give it wins.      *)
ValueOf(r, k) == [rec |-> r, key |-> k]

Given(record, r, m, k) ==
    IF \E j \in 1..m : record.keys[j] = k THEN ValueOf(r, k) ELSE Absent

Givers(record, m) == {j \in 1..m : GivesVersion(record, j)}

VersionUpTo(record, r, m) ==
    IF Givers(record, m) = {}
    THEN Absent
    ELSE ValueOf(r, record.keys[Max(Givers(record, m))])

(* The row that they describe.                                             *)
RowUpTo(record, r, m) ==
    [c \in Columns |->
        CASE c = "name"     -> Given(record, r, m, "PKG")
          [] c = "version"  -> VersionUpTo(record, r, m)
          [] c = "src_url"  -> Given(record, r, m, "SRC_URL")
          [] c = "src_type" -> Given(record, r, m, "TYPE")]

RowOf(r) == RowUpTo(records[r], r, Len(records[r].keys))

Batch(r) == (r - 1) \div EntriesPerCommit
Stored(r) == RowOf(r) \in Range(table)

Rows == [Columns -> {Absent} \union
                    [rec : Nat, key : Keys \union {"INVALID"}]]

(* The variables have their types; a transaction is open just when rows    *)
(* are pending in it, the last of which is the one being filled.           *)
TypeOK ==
    /\ records \in Seq([keys : Shapes, invalid : BOOLEAN])
    /\ Len(records) <= MaxRecords
    /\ at \in [rec : 0..Len(records) + 1, key : Nat \ {0}, isKey : BOOLEAN]
    /\ at.rec = 0 => at = Title
    /\ at.rec \in 1..Len(records) => at.key <= Len(records[at.rec].keys)
    /\ state \in Keys \union {"VALUE"}
    /\ count \in Nat
    /\ open = (rows # <<>>)
    /\ (row = "last") = open
    /\ rows \in Seq(Rows)
    /\ table \in Seq(Rows)
    /\ row \in {"null", "last", "gone"}
    /\ fails \in 0..MaxFails
    /\ pc \in {"parse", "done", "fault"}

(* No transaction is begun twice and no dead row is written as long as the *)
(* records of version_detail.yaml are well formed, wherever they fall with *)
(* respect to the batches.                                                 *)
FaultOnlyIfMalformed == pc = "fault" => ~AllWellFormed

(* The table ends up with exactly the records of the file, in order: every *)
(* value is stored with its own package, across batch boundaries.          *)
TableIsFile ==
    pc = "done" /\ fails = 0 /\ AllWellFormed
        => table = [r \in 1..Len(records) |-> RowOf(r)]

(* A failed insert or commit loses whole batches: the records of a batch   *)
(* are in the table together or not at all.                                *)
BatchesWhole ==
    pc = "done" /\ AllWellFormed =>
        \A r, s \in 1..Len(records) :
            Batch(r) = Batch(s) => (Stored(r) <=> Stored(s))

(* The function returns with no transaction open, whatever the file and    *)
(* whatever failed: an open one would make the daemon's next               *)
(* ovsdb_idl_txn_create abort.                                             *)
NothingLeftOpen == pc = "done" => ~open
=============================================================================
