-------------------------- MODULE MigrationProofs --------------------------
(***************************************************************************)
(* Proofs about Migration, for any number of processes and any script.     *)
(***************************************************************************)
EXTENDS Migration, TLAPS

(* A process that is past its first CREATE has made exactly the tables up  *)
(* to its next one, and the version is still the old one.                  *)
Progress ==
  \A o \in Openers :
    opener[o].pc = "migrating" /\ opener[o].next > 1
      => version < Expected /\ tables = CreatedBefore(opener[o].next)

VersionMeansComplete == version # 0 => tables = Complete

(* What exists is always a first part of the script, also after a crash.   *)
PrefixMade == \E k \in 1 .. Len(Script) + 1 : tables = CreatedBefore(k)

MigrationInv ==
  /\ TypeOK /\ PrefixMade /\ Progress
  /\ OneMigrator /\ VersionMeansComplete /\ OpenSeesWholeSchema

(* What the script has created grows by the statement it runs.             *)
LEMMA CreatedGrows ==
  ASSUME NEW i \in DOMAIN Script
  PROVE  /\ i \in 1 .. Len(Script) /\ i + 1 \in 1 .. Len(Script) + 1
         /\ CreatedBefore(i + 1) = CreatedBefore(i) \cup {Script[i]}
         /\ Script[i] \in Complete
         /\ i > 1 => Script[1] \in CreatedBefore(i)
<1>1. DOMAIN Script = 1 .. Len(Script) /\ Len(Script) \in Nat /\ 1 \in DOMAIN Script
  BY ScriptAssumption
<1>2. CreatedBefore(i + 1) = CreatedBefore(i) \cup {Script[i]}
  BY <1>1 DEF CreatedBefore
<1>3. Script[i] \in Complete
  BY <1>1 DEF CreatedBefore, Complete
<1>4. i > 1 => Script[1] \in CreatedBefore(i)
  BY <1>1 DEF CreatedBefore
<1> QED
  BY <1>1, <1>2, <1>3, <1>4

(* At the end of the script the schema is complete, and its first table is *)
(* there as soon as anything is.                                           *)
LEMMA CreatedBounds ==
  /\ Len(Script) \in Nat /\ Len(Script) >= 1
  /\ CreatedBefore(1) = {}
  /\ \A i \in 2 .. Len(Script) + 1 : Script[1] \in CreatedBefore(i)
<1>1. DOMAIN Script = 1 .. Len(Script) /\ Len(Script) \in Nat /\ Len(Script) >= 1
  BY ScriptAssumption
<1> QED
  BY <1>1 DEF CreatedBefore

(* The invariant holds when no process has the file open.                  *)
LEMMA InitInv == Init => MigrationInv
<1> SUFFICES ASSUME Init PROVE MigrationInv
  OBVIOUS
<1>1. TypeOK
  BY CreatedBounds, VersionAssumption DEF Init, TypeOK
<1>2. Progress /\ OneMigrator /\ VersionMeansComplete /\ OpenSeesWholeSchema
  BY VersionAssumption DEF Init, Progress, OneMigrator, VersionMeansComplete, OpenSeesWholeSchema
<1>3. PrefixMade
  <2>1. 1 \in 1 .. Len(Script) + 1 /\ Len(Script) + 1 \in 1 .. Len(Script) + 1
    BY CreatedBounds
  <2>2. tables = CreatedBefore(1) \/ tables = CreatedBefore(Len(Script) + 1)
    BY CreatedBounds DEF Init, Complete
  <2> QED
    BY <2>1, <2>2 DEF PrefixMade
<1> QED
  BY <1>1, <1>2, <1>3 DEF MigrationInv

(* A step that leaves the file alone and does not move a process deeper    *)
(* into the script keeps the invariant.                                    *)
LEMMA Moved ==
  ASSUME MigrationInv, NEW o \in Openers,
         NEW pc \in {"closed", "failed", "refused", "version", "migrating", "open"},
         pc = "open" => version = Expected /\ tables = Complete,
         Goto(o, pc, 1), UNCHANGED <<version, tables>>
  PROVE  MigrationInv'
<1>1. TypeOK'
  BY CreatedBounds DEF MigrationInv, TypeOK, Goto
<1>2. Progress' /\ OneMigrator'
  BY DEF MigrationInv, TypeOK, Goto, Progress, OneMigrator
<1>3. VersionMeansComplete' /\ OpenSeesWholeSchema'
  BY DEF MigrationInv, TypeOK, Goto, VersionMeansComplete, OpenSeesWholeSchema
<1>4. PrefixMade'
  BY DEF MigrationInv, PrefixMade, CreatedBefore
<1> QED
  BY <1>1, <1>2, <1>3, <1>4 DEF MigrationInv

(* A CREATE that succeeds is the next of its script, and nobody else is    *)
(* past the first.                                                         *)
LEMMA StatementKeepsInv ==
  ASSUME MigrationInv, NEW o \in Openers, RunStatement(o)
  PROVE  MigrationInv'
<1> DEFINE i == opener[o].next
<1> USE DEF MigrationInv
<1>1. opener[o].pc = "migrating" /\ i \in DOMAIN Script /\ UNCHANGED version
  BY DEF RunStatement
<1>2. CASE Goto(o, "failed", 1) /\ UNCHANGED tables
  BY <1>1, <1>2, Moved
<1>3. CASE /\ Script[i] \notin tables
           /\ Goto(o, "migrating", i + 1)
           /\ tables' = tables \cup {Script[i]}
  <2>1. /\ i \in 1 .. Len(Script) /\ i + 1 \in 1 .. Len(Script) + 1
        /\ CreatedBefore(i + 1) = CreatedBefore(i) \cup {Script[i]}
        /\ Script[i] \in Complete
    BY <1>1, CreatedGrows
  <2>2. Len(Script) \in Nat /\ CreatedBefore(1) = {}
    BY CreatedBounds
  <2>3. \A p \in Openers : opener[p].pc = "migrating" /\ opener[p].next > 1 => p = o
    <3> SUFFICES ASSUME NEW p \in Openers, opener[p].pc = "migrating", opener[p].next > 1, p # o
                 PROVE  FALSE
      OBVIOUS
    <3>1. opener[p].next \in 2 .. Len(Script) + 1
      BY <2>2 DEF TypeOK
    <3>2. tables = CreatedBefore(opener[p].next) /\ Script[1] \in tables
      BY <3>1, CreatedBounds DEF Progress
    <3>3. i = 1
      BY <1>1, <2>1, <2>2 DEF OneMigrator
    <3> QED
      BY <3>2, <3>3, <1>3
  <2>4. version < Expected /\ version = 0 /\ tables = CreatedBefore(i)
    <3>1. CASE i > 1
      BY <3>1, <1>1, VersionAssumption DEF Progress, TypeOK
    <3>2. CASE i = 1
      <4>1. Script[1] \in Complete
        BY <2>1, <3>2
      <4>2. version = 0
        BY <4>1, <3>2, <1>3 DEF VersionMeansComplete
      <4>3. PICK k \in 1 .. Len(Script) + 1 : tables = CreatedBefore(k)
        BY DEF PrefixMade
      <4>4. tables = {}
        BY <4>3, <3>2, <1>3, <2>2, CreatedBounds
      <4> QED
        BY <4>2, <4>4, <3>2, <2>2, VersionAssumption
    <3> QED
      BY <3>1, <3>2, <2>1
  <2>5. version < Expected /\ tables' = CreatedBefore(i + 1) /\ version' = version
    BY <2>1, <2>4, <1>1, <1>3
  <2>6. opener' = [opener EXCEPT ![o] = [pc |-> "migrating", next |-> i + 1]]
    BY <1>3 DEF Goto
  <2>7. TypeOK'
    BY <2>1, <2>6, <1>1, <1>3 DEF TypeOK, Complete, CreatedBefore
  <2>8. Progress' /\ OneMigrator'
    BY <2>3, <2>5, <2>6 DEF Progress, OneMigrator, TypeOK, CreatedBefore
  <2>9. VersionMeansComplete' /\ OpenSeesWholeSchema'
    BY <2>4, <2>5, <2>6 DEF VersionMeansComplete, OpenSeesWholeSchema, TypeOK
  <2>10. PrefixMade'
    BY <2>1, <2>5 DEF PrefixMade, CreatedBefore
  <2> QED
    BY <2>7, <2>8, <2>9, <2>10
<1> QED
  BY <1>1, <1>2, <1>3 DEF RunStatement

(* The version is recorded by a process that made the whole schema.        *)
LEMMA VersionKeepsInv ==
  ASSUME MigrationInv, NEW o \in Openers, SetVersion(o)
  PROVE  MigrationInv'
<1> USE DEF MigrationInv
<1>1. opener[o].pc = "migrating" /\ opener[o].next = Len(Script) + 1 /\ opener[o].next > 1
  BY CreatedBounds DEF SetVersion, TypeOK
<1>2. tables = Complete /\ version' = Expected /\ tables' = tables
  BY <1>1 DEF Progress, Complete, SetVersion
<1>3. opener' = [opener EXCEPT ![o] = [pc |-> "open", next |-> 1]]
  BY DEF SetVersion, Goto
<1>4. \A p \in Openers : opener[p].pc = "migrating" /\ opener[p].next > 1 => p = o
  BY <1>1 DEF OneMigrator
<1>5. TypeOK'
  BY <1>2, <1>3, CreatedBounds DEF TypeOK, Complete, CreatedBefore
<1>6. Progress' /\ OneMigrator'
  BY <1>3, <1>4 DEF Progress, OneMigrator, TypeOK
<1>7. VersionMeansComplete' /\ OpenSeesWholeSchema'
  BY <1>1, <1>2, <1>3
     DEF VersionMeansComplete, OpenSeesWholeSchema, Progress, TypeOK, Complete, CreatedBefore
<1>8. PrefixMade'
  BY <1>2 DEF PrefixMade, CreatedBefore
<1> QED
  BY <1>5, <1>6, <1>7, <1>8

(* Every action keeps the invariant.                                       *)
LEMMA NextKeepsInv == MigrationInv /\ [Next]_vars => MigrationInv'
<1> SUFFICES ASSUME MigrationInv, [Next]_vars PROVE MigrationInv'
  OBVIOUS
<1>1. ASSUME NEW o \in Openers, Connect(o) PROVE MigrationInv'
  BY <1>1, Moved DEF Connect
<1>2. ASSUME NEW o \in Openers, ReadVersion(o) PROVE MigrationInv'
  <2>1. version = Expected => tables = Complete
    BY VersionAssumption DEF MigrationInv, VersionMeansComplete
  <2> QED
    BY <1>2, <2>1, Moved DEF ReadVersion
<1>3. ASSUME NEW o \in Openers, RunStatement(o) PROVE MigrationInv'
  BY <1>3, StatementKeepsInv
<1>4. ASSUME NEW o \in Openers, SetVersion(o) PROVE MigrationInv'
  BY <1>4, VersionKeepsInv
<1>5. ASSUME NEW o \in Openers, Die(o) PROVE MigrationInv'
  BY <1>5, Moved DEF Die
<1>6. CASE UNCHANGED vars
  BY <1>6 DEF vars, MigrationInv, TypeOK, PrefixMade, Progress, OneMigrator,
              VersionMeansComplete, OpenSeesWholeSchema, Complete, CreatedBefore
<1> QED
  BY <1>1, <1>2, <1>3, <1>4, <1>5, <1>6 DEF Next, OpenStep

(* Whatever dies or races, a connection that open_db returned is to a file *)
(* with the whole schema at the expected version.                          *)
THEOREM OpenIsWhole == Spec => []OpenSeesWholeSchema
<1>1. MigrationInv => OpenSeesWholeSchema
  BY DEF MigrationInv
<1> QED
  BY InitInv, NextKeepsInv, <1>1, PTL DEF Spec

(* At most one process is past the first CREATE.                           *)
THEOREM MigratesAlone == Spec => []OneMigrator
<1>1. MigrationInv => OneMigrator
  BY DEF MigrationInv
<1> QED
  BY InitInv, NextKeepsInv, <1>1, PTL DEF Spec
=============================================================================
