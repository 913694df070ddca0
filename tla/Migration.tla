----------------------------- MODULE Migration -----------------------------
(***************************************************************************)
(* open_db of _meta.py: several processes open one SQLite file, each       *)
(* creates the _meta table, reads the schema version, runs the migration   *)
(* script if the version is old, and records the new version.              *)
(*                                                                         *)
(* Nothing spans these steps: executescript commits each CREATE of the     *)
(* script by itself, the version is written in a transaction after the     *)
(* script, and a process may die, or a statement raise, between any two.   *)
(* The CREATE statements have no IF NOT EXISTS: they raise when the table  *)
(* is there.                                                               *)
(***************************************************************************)
EXTENDS Naturals, Sequences

CONSTANTS
  Openers,   \* processes that call open_db
  Script,    \* the statements of 0001_initial.sql, in order
  Expected,  \* SCHEMA_VERSION_EXPECTED
  Newer      \* a version that a later library wrote

ASSUME ScriptAssumption ==
  /\ Script \in Seq(STRING) /\ Script # <<>>
  /\ \A i, j \in DOMAIN Script : Script[i] = Script[j] => i = j
ASSUME VersionAssumption ==
  /\ Expected \in Nat /\ Expected > 0
  /\ Newer \in Nat /\ Newer > Expected

VARIABLES
  version,  \* _meta.schema_version; 0 without a row
  tables,   \* what the script has created so far
  opener    \* [pc, next]: where each process is, and its next statement

vars == <<version, tables, opener>>

CreatedBefore(i) == {Script[j] : j \in {k \in DOMAIN Script : k < i}}
Complete == CreatedBefore(Len(Script) + 1)

(* A new file, one this library finished, or one a later library left. *)
Init ==
  /\ \/ version = 0 /\ tables = {}
     \/ version \in {Expected, Newer} /\ tables = Complete
  /\ opener = [o \in Openers |-> [pc |-> "closed", next |-> 1]]

Goto(o, pc, next) == opener' = [opener EXCEPT ![o] = [pc |-> pc, next |-> next]]

(* connect, the PRAGMAs, CREATE TABLE IF NOT EXISTS _meta; after an error  *)
(* or a refusal the caller may try again.                                  *)
Connect(o) ==
  /\ opener[o].pc \in {"closed", "failed", "refused"}
  /\ Goto(o, "version", 1)
  /\ UNCHANGED <<version, tables>>

MigrateCurrent(o) ==
  /\ opener[o].pc = "version"
  /\ Goto(o, IF version > Expected THEN "refused" ELSE "migrating", 1)
  /\ UNCHANGED <<version, tables>>

(* _get_schema_version, and the two comparisons that follow *)
ReadVersion(o) ==
  /\ opener[o].pc = "version"
  /\ \/ version > Expected /\ Goto(o, "refused", 1)
     \/ version < Expected /\ Goto(o, "migrating", 1)
     \/ version = Expected /\ Goto(o, "open", 1)
  /\ UNCHANGED <<version, tables>>

RunIfNotExists(o) ==
  LET i == opener[o].next IN
  /\ opener[o].pc = "migrating" /\ i \in DOMAIN Script
  /\ Goto(o, "migrating", i + 1)
  /\ tables' = tables \cup {Script[i]}
  /\ UNCHANGED version

(* The next CREATE; each is a transaction of its own. *)
RunStatement(o) ==
  LET i == opener[o].next IN
  /\ opener[o].pc = "migrating" /\ i \in DOMAIN Script
  /\ \/ /\ Script[i] \in tables
        /\ Goto(o, "failed", 1)
        /\ UNCHANGED tables
     \/ /\ Script[i] \notin tables
        /\ Goto(o, "migrating", i + 1)
        /\ tables' = tables \cup {Script[i]}
  /\ UNCHANGED version

SetVersionFirst(o) ==
  /\ opener[o].pc = "migrating"
  /\ version' = Expected
  /\ Goto(o, "open", 1)
  /\ UNCHANGED tables

(* _set_schema_version and commit, after the script *)
SetVersion(o) ==
  /\ opener[o].pc = "migrating" /\ opener[o].next > Len(Script)
  /\ version' = Expected
  /\ Goto(o, "open", 1)
  /\ UNCHANGED tables

(* The process dies, or a statement raises (lock timeout, disk full). *)
Die(o) ==
  /\ opener[o].pc \in {"version", "migrating", "open"}
  /\ Goto(o, "closed", 1)
  /\ UNCHANGED <<version, tables>>

OpenStep(o) == Connect(o) \/ ReadVersion(o) \/ RunStatement(o) \/ SetVersion(o)
Next == \E o \in Openers : OpenStep(o) \/ Die(o)

Spec == Init /\ [][Next]_vars

(* Whoever failed opens the file again until it opens.                     *)
FairSpec == Spec /\ \A o \in Openers : WF_vars(OpenStep(o))

-----------------------------------------------------------------------------
(* The files and processes are in the states the comments above give them. *)
TypeOK ==
  /\ version \in {0, Expected, Newer}
  /\ tables \in SUBSET Complete
  /\ opener \in [Openers -> [pc : {"closed", "failed", "refused", "version", "migrating", "open"},
                             next : 1 .. Len(Script) + 1]]

(* A connection that open_db returned is to a file with the whole schema   *)
(* at exactly the version this library expects, although the version and   *)
(* the tables are written by different transactions of racing processes.   *)
OpenSeesWholeSchema ==
  \A o \in Openers : opener[o].pc = "open" => version = Expected /\ tables = Complete

(* The CREATEs act as a lock: of the processes that found the old version, *)
(* only the one whose first CREATE succeeded goes on with the script.      *)
OneMigrator ==
  \A o, p \in Openers :
    /\ opener[o].pc = "migrating" /\ opener[o].next > 1
    /\ opener[p].pc = "migrating" /\ opener[p].next > 1
    => o = p

(* "Runs forward migrations to bring the DB up to SCHEMA_VERSION_EXPECTED" *)
(* (open_db): a schema that is half made is being made by someone.  If it  *)
(* is not, every later open_db fails at the first CREATE.                  *)
HalfSchemaIsInTheMaking ==
  version < Expected /\ tables # {}
    => \E o \in Openers : opener[o].pc = "migrating" /\ opener[o].next > 1

(* Processes that race to open a file all get it open if they try again    *)
(* after an error, unless deaths go on for ever, the file is newer than    *)
(* the library, or a death left a half-made schema behind.                 *)
AllOpenInTheEnd ==
  /\ version <= Expected
  /\ <>[][\E o \in Openers : OpenStep(o)]_vars
  /\ []HalfSchemaIsInTheMaking
  => <>[](\A o \in Openers : opener[o].pc = "open")
=============================================================================
