------------------------------ MODULE Records ------------------------------
(***************************************************************************)
(* The record types of db_record.hpp, shared by the database, the scanner  *)
(* and the widget.                                                         *)
(*                                                                         *)
(* A file name is a full path.  Paths are numbered in the order of         *)
(* std::string::operator<, so that p < q is "p sorts before q"; no other   *)
(* arithmetic is done on them.                                             *)
(***************************************************************************)
EXTENDS Integers

CONSTANT Paths

ASSUME PathsAssumption == Paths \subseteq Nat \ {0}

\* NULL_RECORD_ID and ROOT_RECORD_ID are the same number.
ROOT_RECORD_ID == 0

RecordID == Nat \ {0}

FileInfo == [parentID : Nat, lastWriteTime : Nat, isDir : BOOLEAN, fileName : Paths]

\* FileRecord = std::pair<RecordID, FileInfo>, built by make_Record.
FileRecord == RecordID \X FileInfo

============================================================================
