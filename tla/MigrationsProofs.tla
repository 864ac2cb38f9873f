------------------------- MODULE MigrationsProofs -------------------------
(***************************************************************************)
(* Proofs about Migrations, for every number of files and of processes:    *)
(* the record never runs ahead of the schema nor behind it, so a process   *)
(* that gets through the loop stands on all its files, and the one file    *)
(* that may commit next is the one after the last.                         *)
(***************************************************************************)
EXTENDS Migrations, SequenceTheorems, TLAPS

(***************************************************************************)
(* What a transaction relies on: without a stamp the record is the schema, *)
(* with one the schema is complete; and a process has behind it only files *)
(* of the record.                                                          *)
(***************************************************************************)
RecordIsTheSchema ==
  IF byHand THEN Files \subseteq InEffect ELSE recorded = 1..Len(schema)

Behind(p) ==
  /\ starter[p].applied \subseteq recorded
  /\ starter[p].pc \in {"loop", "record"} =>
       starter[p].at <= Has[p] /\ 1..(starter[p].at - 1) \subseteq recorded
  /\ starter[p].pc = "serving" => 1..Has[p] \subseteq recorded

Inv ==
  /\ MigrationTypeOK
  /\ FilesTakeEffectInOrder
  /\ RecordIsTheSchema
  /\ \A p \in Starters : Behind(p)

\* In every state the two properties follow: the record is in effect.
LEMMA InvServes == Inv => ServesOnItsSchema
<1> SUFFICES ASSUME Inv, NEW p \in Starters, starter[p].pc = "serving",
                    NEW f \in 1..Has[p]
             PROVE  f \in InEffect /\ f \in recorded
  BY DEF ServesOnItsSchema
<1>1. f \in recorded
  BY DEF Inv, Behind
<1>2. f \in Files
  BY <1>1 DEF Inv, MigrationTypeOK
<1>3. CASE byHand
  BY <1>1, <1>2, <1>3 DEF Inv, RecordIsTheSchema
<1>4. CASE ~byHand
  <2>1. f \in 1..Len(schema) /\ schema[f] = f
    BY <1>1, <1>4 DEF Inv, RecordIsTheSchema, FilesTakeEffectInOrder
  <2> QED
    BY <2>1, <1>1 DEF InEffect
<1> QED
  BY <1>3, <1>4 DEF Inv, MigrationTypeOK

LEMMA InitInv == MigrationInit => Inv
<1> SUFFICES ASSUME MigrationInit PROVE Inv
  OBVIOUS
<1> USE MigrationAssumption DEF MigrationInit, Files
<1>1. MigrationTypeOK
  <2>1. Down \in Starter
    <3>1. 1 \in 1..NFiles
      OBVIOUS
    <3> QED
      BY <3>1 DEF Down, Starter
  <2>2. schema \in Seq(Files)
    <3>1. CASE byHand
      <4>1. [i \in 1..NFiles |-> i] \in [1..NFiles -> 1..NFiles] /\ NFiles \in Nat
        OBVIOUS
      <4>2. [i \in 1..NFiles |-> i] \in Seq(1..NFiles)
        BY <4>1, SeqDef
      <4> QED
        BY <3>1, <4>2
    <3>2. CASE ~byHand
      BY <3>2
    <3> QED
      BY <3>1, <3>2
  <2> QED
    BY <2>1, <2>2 DEF MigrationTypeOK
<1>2. FilesTakeEffectInOrder
  BY DEF FilesTakeEffectInOrder
<1>3. RecordIsTheSchema
  <2>1. CASE byHand
    <3>1. Len(schema) = NFiles /\ \A i \in 1..NFiles : schema[i] = i
      BY <2>1
    <3> QED
      BY <2>1, <3>1 DEF RecordIsTheSchema, InEffect
  <2>2. CASE ~byHand
    BY <2>2 DEF RecordIsTheSchema
  <2> QED
    BY <2>1, <2>2
<1>4. \A p \in Starters : Behind(p)
  BY DEF Behind, Down
<1> QED
  BY <1>1, <1>2, <1>3, <1>4 DEF Inv

-----------------------------------------------------------------------------
\* A step of one process that leaves the database alone keeps the invariant if
\* the process itself is left in good order.
LEMMA OwnStep ==
  ASSUME Inv, NEW p \in Starters, NEW s \in Starter,
         starter' = [starter EXCEPT ![p] = s], UNCHANGED <<schema, recorded, byHand>>,
         s.applied \subseteq recorded,
         s.pc \in {"loop", "record"} =>
           s.at <= Has[p] /\ 1..(s.at - 1) \subseteq recorded,
         s.pc = "serving" => 1..Has[p] \subseteq recorded
  PROVE  Inv'
<1>1. MigrationTypeOK' /\ FilesTakeEffectInOrder' /\ RecordIsTheSchema'
  BY DEF Inv, MigrationTypeOK, FilesTakeEffectInOrder, RecordIsTheSchema, InEffect
<1>2. ASSUME NEW q \in Starters PROVE Behind(q)'
  <2>1. CASE q = p
    BY <2>1 DEF Inv, MigrationTypeOK, Behind
  <2>2. CASE q # p
    <3>1. starter'[q] = starter[q]
      BY <2>2 DEF Inv, MigrationTypeOK
    <3> QED
      BY <3>1 DEF Inv, Behind
  <2> QED
    BY <2>1, <2>2
<1> QED
  BY <1>1, <1>2 DEF Inv

\* The loop goes on, or ends, with the file it stands at in the record.
LEMMA OnwardGood ==
  ASSUME NEW p \in Starters, starter[p] \in Starter, NEW record \in SUBSET Files,
         starter[p].at \in record, starter[p].applied \subseteq record,
         starter[p].at <= Has[p], 1..(starter[p].at - 1) \subseteq record
  PROVE  /\ Onward(p) \in Starter
         /\ Onward(p).applied \subseteq record
         /\ Onward(p).pc = "loop" =>
              Onward(p).at <= Has[p] /\ 1..(Onward(p).at - 1) \subseteq record
         /\ Onward(p).pc = "serving" => 1..Has[p] \subseteq record
         /\ Onward(p).pc \in {"loop", "serving"}
<1> USE MigrationAssumption
<1>1. Has[p] \in 1..NFiles /\ NFiles \in Nat /\ starter[p].at \in 1..NFiles
      /\ starter[p].applied \in SUBSET Files
  BY DEF Starter, Files
<1>2. CASE starter[p].at = Has[p]
  <2>1. Onward(p) = Serving
    BY <1>2 DEF Onward
  <2>2. 1..Has[p] \subseteq record
    BY <1>1, <1>2
  <2> QED
    BY <1>1, <2>1, <2>2 DEF Serving, Starter, Files
<1>3. CASE starter[p].at # Has[p]
  <2>1. Onward(p) = [pc |-> "loop", applied |-> starter[p].applied, at |-> starter[p].at + 1]
    BY <1>3 DEF Onward
  <2>2. starter[p].at + 1 <= Has[p] /\ 1..(starter[p].at + 1 - 1) \subseteq record
        /\ starter[p].at + 1 \in 1..NFiles
    BY <1>1, <1>3
  <2> QED
    BY <1>1, <2>1, <2>2 DEF Starter, Files
<1> QED
  BY <1>2, <1>3

\* The record and the schema grow by the file that comes next.
LEMMA CommitKeepsInv ==
  ASSUME Inv, NEW p \in Starters, RecordAndCommit(p)
  PROVE  Inv'
<1> USE MigrationAssumption
<1> DEFINE at == starter[p].at
           more == recorded \cup {at}
<1>1. /\ schema \in Seq(Files) /\ recorded \subseteq Files /\ byHand \in BOOLEAN
      /\ starter \in [Starters -> Starter] /\ starter[p] \in Starter /\ at \in Files
  BY DEF Inv, MigrationTypeOK, Starter
<1>2. /\ schema' = Append(schema, at) /\ recorded' = more /\ byHand' = byHand
      /\ starter' = [starter EXCEPT ![p] = Onward(p)] /\ at \notin recorded
      /\ starter[p].pc = "record"
  BY DEF RecordAndCommit, AfterFile
<1>3. starter[p].applied \subseteq more /\ at <= Has[p] /\ 1..(at - 1) \subseteq recorded
      /\ more \in SUBSET Files
  BY <1>1, <1>2 DEF Inv, Behind
<1>4. /\ Onward(p) \in Starter /\ Onward(p).applied \subseteq more
      /\ Onward(p).pc = "loop" =>
           Onward(p).at <= Has[p] /\ 1..(Onward(p).at - 1) \subseteq more
      /\ Onward(p).pc = "serving" => 1..Has[p] \subseteq more
      /\ Onward(p).pc \in {"loop", "serving"}
  BY <1>1, <1>3, OnwardGood
<1>5. MigrationTypeOK'
  <2>1. schema' \in Seq(Files)
    BY <1>1, <1>2
  <2>2. starter' \in [Starters -> Starter]
    BY <1>1, <1>2, <1>4
  <2> QED
    BY <1>1, <1>2, <1>3, <2>1, <2>2 DEF MigrationTypeOK
<1>6. FilesTakeEffectInOrder' /\ RecordIsTheSchema'
  <2>1. CASE byHand
    <3>1. \A i \in 1..Len(schema) : i \in 1..Len(schema') /\ schema'[i] = schema[i]
      BY <1>1, <1>2
    <3>2. Files \subseteq InEffect'
      BY <2>1, <3>1 DEF Inv, RecordIsTheSchema, InEffect
    <3> QED
      BY <2>1, <1>2, <3>2 DEF FilesTakeEffectInOrder, RecordIsTheSchema
  <2>2. CASE ~byHand
    <3>1. recorded = 1..Len(schema) /\ schema = [i \in 1..Len(schema) |-> i]
      BY <2>2 DEF Inv, RecordIsTheSchema, FilesTakeEffectInOrder
    <3>2. Len(schema) \in Nat /\ at \in Nat
      BY <1>1 DEF Files
    <3>3. at = Len(schema) + 1
      BY <1>2, <1>3, <3>1, <3>2, <1>1 DEF Files
    <3>4. Len(schema') = Len(schema) + 1
      BY <1>1, <1>2
    <3>5. \A i \in 1..Len(schema') : schema'[i] = i
      <4> SUFFICES ASSUME NEW i \in 1..Len(schema') PROVE schema'[i] = i
        OBVIOUS
      <4>1. CASE i = Len(schema) + 1
        BY <1>1, <1>2, <3>3, <4>1
      <4>2. CASE i # Len(schema) + 1
        <5>1. i \in 1..Len(schema)
          BY <3>2, <3>4, <4>2
        <5>2. schema'[i] = schema[i]
          BY <1>1, <1>2, <5>1
        <5> QED
          BY <3>1, <5>1, <5>2
      <4> QED
        BY <4>1, <4>2
    <3>6. schema' = [i \in 1..Len(schema') |-> i]
      BY <1>5, <3>5 DEF MigrationTypeOK
    <3>7. recorded' = 1..Len(schema')
      BY <1>2, <3>1, <3>2, <3>3, <3>4
    <3> QED
      BY <2>2, <1>2, <3>6, <3>7 DEF FilesTakeEffectInOrder, RecordIsTheSchema
  <2> QED
    BY <1>1, <2>1, <2>2
<1>7. ASSUME NEW q \in Starters PROVE Behind(q)'
  <2>1. CASE q = p
    BY <1>1, <1>2, <1>4, <2>1 DEF Behind
  <2>2. CASE q # p
    <3>1. starter'[q] = starter[q]
      BY <1>1, <1>2, <2>2
    <3> QED
      BY <1>2, <3>1 DEF Inv, Behind
  <2> QED
    BY <2>1, <2>2
<1> QED
  BY <1>5, <1>6, <1>7 DEF Inv

-----------------------------------------------------------------------------
LEMMA InductiveInv == Inv /\ [MigrationNext]_migrationVars => Inv'
<1> SUFFICES ASSUME Inv, [MigrationNext]_migrationVars PROVE Inv'
  OBVIOUS
<1> USE MigrationAssumption
<1>0. /\ schema \in Seq(Files) /\ recorded \subseteq Files /\ byHand \in BOOLEAN
      /\ starter \in [Starters -> Starter]
  BY DEF Inv, MigrationTypeOK
<1>1. CASE UNCHANGED migrationVars
  BY <1>1 DEF Inv, MigrationTypeOK, FilesTakeEffectInOrder, RecordIsTheSchema, InEffect,
              Behind, migrationVars
<1>2. ASSUME NEW p \in Starters, Start(p) PROVE Inv'
  <2>1. PICK s : s = [starter[p] EXCEPT !.pc = "list"]
    OBVIOUS
  <2>2. starter[p] \in Starter /\ starter[p].applied \subseteq recorded
    BY <1>0 DEF Inv, Behind
  <2>3. s \in Starter /\ s.applied \subseteq recorded /\ s.pc = "list"
    BY <2>1, <2>2 DEF Starter
  <2>4. starter' = [starter EXCEPT ![p] = s] /\ UNCHANGED <<schema, recorded, byHand>>
    BY <1>2, <2>1 DEF Start
  <2> QED
    BY <2>3, <2>4, OwnStep
<1>3. ASSUME NEW p \in Starters, ListApplied(p) PROVE Inv'
  <2>1. PICK s : s = [pc |-> "loop", applied |-> recorded, at |-> 1]
    OBVIOUS
  <2>2. s \in Starter /\ s.applied \subseteq recorded /\ s.pc = "loop" /\ s.at = 1
    BY <1>0, <2>1 DEF Starter, Files
  <2>3. s.at <= Has[p] /\ 1..(s.at - 1) \subseteq recorded
    BY <2>2
  <2>4. starter' = [starter EXCEPT ![p] = s] /\ UNCHANGED <<schema, recorded, byHand>>
    BY <1>3, <2>1 DEF ListApplied
  <2> QED
    BY <2>2, <2>3, <2>4, OwnStep
<1>4. ASSUME NEW p \in Starters, SkipApplied(p) PROVE Inv'
  <2>1. /\ starter[p] \in Starter /\ starter[p].applied \subseteq recorded
        /\ starter[p].at \in recorded
        /\ starter[p].at <= Has[p] /\ 1..(starter[p].at - 1) \subseteq recorded
    BY <1>0, <1>4 DEF Inv, Behind, SkipApplied
  <2>2. PICK s : s = Onward(p)
    OBVIOUS
  <2>3. /\ s \in Starter /\ s.applied \subseteq recorded
        /\ s.pc = "loop" => s.at <= Has[p] /\ 1..(s.at - 1) \subseteq recorded
        /\ s.pc = "serving" => 1..Has[p] \subseteq recorded
        /\ s.pc \in {"loop", "serving"}
    BY <1>0, <2>1, <2>2, OnwardGood
  <2>4. starter' = [starter EXCEPT ![p] = s] /\ UNCHANGED <<schema, recorded, byHand>>
    BY <1>4, <2>2 DEF SkipApplied, AfterFile
  <2> QED
    BY <2>3, <2>4, OwnStep
<1>5. ASSUME NEW p \in Starters, ExecFile(p) PROVE Inv'
  <2>1. PICK s : s = [starter[p] EXCEPT !.pc = "record"]
    OBVIOUS
  <2>2. /\ starter[p] \in Starter /\ starter[p].applied \subseteq recorded
        /\ starter[p].at <= Has[p] /\ 1..(starter[p].at - 1) \subseteq recorded
    BY <1>0, <1>5 DEF Inv, Behind, ExecFile
  <2>3. s \in Starter /\ s.applied = starter[p].applied /\ s.pc = "record"
        /\ s.at = starter[p].at
    BY <2>1, <2>2 DEF Starter
  <2>4. starter' = [starter EXCEPT ![p] = s] /\ UNCHANGED <<schema, recorded, byHand>>
    BY <1>5, <2>1 DEF ExecFile
  <2> QED
    BY <2>2, <2>3, <2>4, OwnStep
<1>6. ASSUME NEW p \in Starters, MigrationFails(p) \/ StopServing(p) PROVE Inv'
  <2>1. Down \in Starter /\ Down.applied = {} /\ Down.pc = "down"
    BY DEF Down, Starter, Files
  <2>2. starter' = [starter EXCEPT ![p] = Down] /\ UNCHANGED <<schema, recorded, byHand>>
    BY <1>6 DEF MigrationFails, StopServing
  <2> QED
    BY <2>1, <2>2, OwnStep
<1>7. ASSUME NEW f \in Files, StampFile(f) PROVE Inv'
  <2>1. byHand /\ byHand' = byHand /\ schema' = schema /\ starter' = starter
        /\ recorded' = recorded \cup {f}
    BY <1>7 DEF StampFile
  <2>2. MigrationTypeOK' /\ FilesTakeEffectInOrder' /\ RecordIsTheSchema'
    BY <1>0, <2>1 DEF Inv, MigrationTypeOK, FilesTakeEffectInOrder, RecordIsTheSchema, InEffect
  <2>3. \A p \in Starters : Behind(p)'
    BY <2>1 DEF Inv, Behind
  <2> QED
    BY <2>2, <2>3 DEF Inv
<1> QED
  BY <1>1, <1>2, <1>3, <1>4, <1>5, <1>6, <1>7, CommitKeepsInv DEF MigrationNext

-----------------------------------------------------------------------------
\* The types of the variables, for every number of files and processes.
THEOREM MigrationTypes == MigrationSpec => []MigrationTypeOK
<1>1. Inv => MigrationTypeOK
  BY DEF Inv
<1> QED
  BY InitInv, InductiveInv, <1>1, PTL DEF MigrationSpec

\* RunMigrations, runInTx: processes that start at once apply each file of a
\* fresh database once, and in the order of the names.
THEOREM FilesOnceInOrder == MigrationSpec => []FilesTakeEffectInOrder
<1>1. Inv => FilesTakeEffectInOrder
  BY DEF Inv
<1> QED
  BY InitInv, InductiveInv, <1>1, PTL DEF MigrationSpec

\* main: no process serves before every file it has is in effect and recorded,
\* on a database of its own or on one that was stamped.
THEOREM ServesMigrated == MigrationSpec => []ServesOnItsSchema
  BY InitInv, InductiveInv, InvServes, PTL DEF MigrationSpec
=============================================================================
