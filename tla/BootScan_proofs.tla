--------------------------- MODULE BootScan_proofs ---------------------------
(***************************************************************************)
(* What a boot scan guarantees for any preload directories, tables and     *)
(* batch size, whatever fails, stops or dies: the types for any number of  *)
(* scanners, the rest while one process scans.                             *)
(***************************************************************************)
EXTENDS BootScan, FiniteSetTheorems, TLAPS

(* What a scan is doing, or has just been doing, as values. *)
LEMMA IdleTyped == IdleScan \in Scan
<1>1. [t \in Tables |-> <<>>] \in [Tables -> Seq(Entry)]
  OBVIOUS
<1>2. 1 \in Tables /\ 1 \in 1 .. NumDirs + 1
  BY BootScanAssumption DEF Tables
<1> QED
  BY <1>1, <1>2 DEF IdleScan, Scan, Phases

(* A finite set is listed without repetition. *)
LEMMA Listed ==
    ASSUME NEW S, IsFiniteSet(S)
    PROVE  /\ SetToSeq(S) \in Seq(S) /\ Len(SetToSeq(S)) \in Nat
           /\ \A i, j \in 1 .. Len(SetToSeq(S)) : SetToSeq(S)[i] = SetToSeq(S)[j] => i = j
           /\ \A x \in S : \E i \in 1 .. Len(SetToSeq(S)) : SetToSeq(S)[i] = x
           /\ \A i \in 1 .. Len(SetToSeq(S)) : SetToSeq(S)[i] \in S
<1> DEFINE n == Cardinality(S)  q == SetToSeq(S)
<1>1. n \in Nat /\ ExistsBijection(1 .. n, S)
  BY FS_CardinalityType
<1>2. PICK f \in [1 .. n -> S] : IsInjective(f)
  BY <1>1 DEF ExistsBijection, Bijection, Injection
<1>3. q \in [1 .. n -> S] /\ IsInjective(q)
  BY <1>2 DEF SetToSeq
<1>4. IsFiniteSet(1 .. n) /\ Cardinality(1 .. n) = n
  <2>1. \A b \in Int : IsFiniteSet(1 .. b) /\ Cardinality(1 .. b) = IF 1 > b THEN 0 ELSE b - 1 + 1
    BY FS_Interval
  <2>2. IsFiniteSet(1 .. n) /\ Cardinality(1 .. n) = IF 1 > n THEN 0 ELSE n - 1 + 1
    BY <1>1, <2>1
  <2> DEFINE d == Cardinality(1 .. n)
  <2> HIDE DEF d
  <2>3. d = IF 1 > n THEN 0 ELSE n - 1 + 1
    BY <2>2 DEF d
  <2> HIDE DEF n
  <2>4. d = n
    BY <1>1, <2>3
  <2> QED
    BY <2>2, <2>4 DEF d
<1> HIDE DEF n, q
<1>5. q \in Injection(1 .. n, S)
  BY <1>3 DEF Injection
<1>6. q \in Surjection(1 .. n, S)
  <2>1. Cardinality(1 .. n) = Cardinality(S)
    BY <1>4 DEF n
  <2> QED
    BY <1>5, <2>1, FS_Injection
<1>7. q \in Seq(S) /\ Len(q) = n
  BY <1>1, <1>3
<1>8. \A i, j \in 1 .. n : q[i] = q[j] => i = j
  BY <1>3 DEF IsInjective
<1>9. \A x \in S : \E i \in 1 .. n : q[i] = x
  BY <1>6 DEF Surjection
<1> QED
  BY <1>1, <1>3, <1>7, <1>8, <1>9 DEF q

-----------------------------------------------------------------------------
(* What a transaction of the scan writes *)

Fresh(batch) == {e.file : e \in {x \in batch : x.id = 0}}
Updated(batch) == {e.id : e \in batch} \ {0}

LEMMA Written ==
    ASSUME NEW batch \in SUBSET Entry, Write(batch)
    PROVE  \E list \in Seq(Fresh(batch)) :
                /\ Len(list) \in Nat
                /\ \A i, j \in 1 .. Len(list) : list[i] = list[j] => i = j
                /\ \A f \in Fresh(batch) : \E i \in 1 .. Len(list) : list[i] = f
                /\ \A i \in 1 .. Len(list) : list[i] \in Fresh(batch)
                /\ nextId' = nextId + Len(list)
                /\ rows' = {IF r.id \in Updated(batch) THEN [r EXCEPT !.flag = 1] ELSE r : r \in rows}
                           \cup {[id |-> nextId + i - 1, file |-> list[i], flag |-> 1] : i \in 1 .. Len(list)}
<1> DEFINE S == Fresh(batch)  list == SetToSeq(S)
<1>1. IsFiniteSet(S)
  <2>1. S \subseteq Preset
    BY DEF Fresh, Entry
  <2> QED
    BY <2>1, FS_Subset, BootScanAssumption
<1>2. /\ nextId' = nextId + Len(list)
      /\ rows' = {IF r.id \in Updated(batch) THEN [r EXCEPT !.flag = 1] ELSE r : r \in rows}
                 \cup {[id |-> nextId + i - 1, file |-> list[i], flag |-> 1] : i \in 1 .. Len(list)}
  BY Zenon DEF Write, Fresh, Updated
<1> HIDE DEF S
<1>3. /\ list \in Seq(S) /\ Len(list) \in Nat
      /\ \A i, j \in 1 .. Len(list) : list[i] = list[j] => i = j
      /\ \A f \in S : \E i \in 1 .. Len(list) : list[i] = f
      /\ \A i \in 1 .. Len(list) : list[i] \in S
  BY <1>1, Listed
<1> HIDE DEF list
<1>4. \E q \in Seq(S) :
        /\ Len(q) \in Nat
        /\ \A i, j \in 1 .. Len(q) : q[i] = q[j] => i = j
        /\ \A f \in S : \E i \in 1 .. Len(q) : q[i] = f
        /\ \A i \in 1 .. Len(q) : q[i] \in S
        /\ nextId' = nextId + Len(q)
        /\ rows' = {IF r.id \in Updated(batch) THEN [r EXCEPT !.flag = 1] ELSE r : r \in rows}
                   \cup {[id |-> nextId + i - 1, file |-> q[i], flag |-> 1] : i \in 1 .. Len(q)}
  BY <1>2, <1>3, Zenon
<1> QED
  BY <1>4, Zenon DEF S

(* The ids are in use once, and below the next one. *)
Ids ==
    /\ \A r, q \in rows : r.id = q.id => r = q
    /\ \A r \in rows : r.id >= 1 /\ r.id < nextId
    /\ nextId >= 1

OneRow == \A r, q \in rows : r.file = q.file => r = q

LEMMA WrittenTyped ==
    ASSUME rows \subseteq Row, nextId \in Nat, nextId >= 1, NEW batch \in SUBSET Entry, Write(batch)
    PROVE  rows' \subseteq Row /\ nextId' \in Nat /\ nextId' >= 1
<1>1. PICK list \in Seq(Fresh(batch)) :
        /\ Len(list) \in Nat
        /\ \A i \in 1 .. Len(list) : list[i] \in Fresh(batch)
        /\ nextId' = nextId + Len(list)
        /\ rows' = {IF r.id \in Updated(batch) THEN [r EXCEPT !.flag = 1] ELSE r : r \in rows}
                   \cup {[id |-> nextId + i - 1, file |-> list[i], flag |-> 1] : i \in 1 .. Len(list)}
  BY Written, Zenon
<1>2. Fresh(batch) \subseteq Files
  BY DEF Fresh, Entry, Files
<1>3. ASSUME NEW r \in rows PROVE (IF r.id \in Updated(batch) THEN [r EXCEPT !.flag = 1] ELSE r) \in Row
  BY DEF Row
<1>4. ASSUME NEW i \in 1 .. Len(list) PROVE [id |-> nextId + i - 1, file |-> list[i], flag |-> 1] \in Row
  BY <1>1, <1>2 DEF Row
<1> QED
  BY <1>1, <1>3, <1>4

(* The entries of a batch are of files of their own, and know the rows of these. *)
Accurate(batch) ==
    /\ \A e, f \in batch : e.file = f.file => e = f
    /\ \A e \in batch : IF e.id = 0 THEN RowsOf(e.file) = {} ELSE \E r \in RowsOf(e.file) : r.id = e.id

LEMMA WrittenRows ==
    ASSUME rows \subseteq Row, nextId \in Nat, Ids, OneRow,
           NEW batch \in SUBSET Entry, Accurate(batch), Write(batch)
    PROVE  /\ rows' \subseteq Row /\ nextId' \in Nat /\ Ids' /\ OneRow'
           /\ \A e \in batch : \E q \in rows' : q.file = e.file /\ q.flag = 1
           /\ \A r \in rows : \E q \in rows' : q.id = r.id /\ q.file = r.file /\ (r.flag = 1 => q.flag = 1)
           /\ \A q \in rows' :
                \/ \E r \in rows : r.id = q.id /\ r.file = q.file /\ r.flag = q.flag
                \/ \E e \in batch : e.file = q.file /\ q.flag = 1
<1>1. PICK list \in Seq(Fresh(batch)) :
        /\ Len(list) \in Nat
        /\ \A i, j \in 1 .. Len(list) : list[i] = list[j] => i = j
        /\ \A f \in Fresh(batch) : \E i \in 1 .. Len(list) : list[i] = f
        /\ \A i \in 1 .. Len(list) : list[i] \in Fresh(batch)
        /\ nextId' = nextId + Len(list)
        /\ rows' = {IF r.id \in Updated(batch) THEN [r EXCEPT !.flag = 1] ELSE r : r \in rows}
                   \cup {[id |-> nextId + i - 1, file |-> list[i], flag |-> 1] : i \in 1 .. Len(list)}
  BY Written, Zenon
<1> DEFINE Old(r) == IF r.id \in Updated(batch) THEN [r EXCEPT !.flag = 1] ELSE r
           New(i) == [id |-> nextId + i - 1, file |-> list[i], flag |-> 1]
<1>2. \A r \in rows : /\ Old(r).id = r.id /\ Old(r).file = r.file
                      /\ Old(r).flag = (IF r.id \in Updated(batch) THEN 1 ELSE r.flag)
  BY DEF Row
<1>3. \A i \in 1 .. Len(list) :
        /\ New(i).id = nextId + i - 1 /\ New(i).id >= nextId /\ New(i).id < nextId' /\ New(i).id \in Nat
        /\ New(i).file = list[i] /\ New(i).flag = 1
  BY <1>1
<1>4. \A i \in 1 .. Len(list) : New(i).file \in Fresh(batch)
  BY <1>1, <1>3
<1>5. \A f \in Fresh(batch) : \E i \in 1 .. Len(list) : New(i).file = f
  BY <1>1, <1>3
<1>6. /\ \A q \in rows' : (\E r \in rows : q = Old(r)) \/ (\E i \in 1 .. Len(list) : q = New(i))
      /\ \A r \in rows : Old(r) \in rows'
      /\ \A i \in 1 .. Len(list) : New(i) \in rows'
  BY <1>1
<1> HIDE DEF Old, New
<1>7. rows' \subseteq Row /\ nextId' \in Nat /\ nextId' >= 1
  BY WrittenTyped DEF Ids
<1>8. \A f \in Fresh(batch) : \A r \in rows : r.file # f
  BY DEF Fresh, Accurate, RowsOf
<1>9. \A r \in rows : r.id \in Nat /\ r.id >= 1 /\ r.id < nextId
  BY DEF Ids, Row
<1>10. \A r, q \in rows' : r.id = q.id => r = q
  <2>1. \A r, q \in rows : Old(r).id = Old(q).id => Old(r) = Old(q)
    BY <1>2 DEF Ids
  <2>2. \A r \in rows : \A i \in 1 .. Len(list) : Old(r).id # New(i).id
    BY <1>2, <1>3, <1>9
  <2>3. \A i, j \in 1 .. Len(list) : New(i).id = New(j).id => i = j
    BY <1>3
  <2> QED
    BY <1>6, <2>1, <2>2, <2>3
<1>11. \A r \in rows' : r.id >= 1 /\ r.id < nextId'
  <2>1. \A r \in rows : Old(r).id >= 1 /\ Old(r).id < nextId'
    <3>1. nextId' = nextId + Len(list) /\ Len(list) \in Nat
      BY <1>1
    <3>2. \A r \in rows : r.id >= 1 /\ r.id < nextId'
      BY <1>9, <3>1
    <3> QED
      BY <1>2, <3>2
  <2>2. \A i \in 1 .. Len(list) : New(i).id >= 1 /\ New(i).id < nextId'
    BY <1>3 DEF Ids
  <2> QED
    BY <1>6, <2>1, <2>2
<1>12. OneRow'
  <2>1. \A r, q \in rows : Old(r).file = Old(q).file => Old(r) = Old(q)
    BY <1>2 DEF OneRow
  <2>2. \A r \in rows : \A i \in 1 .. Len(list) : Old(r).file # New(i).file
    <3>1. \A r \in rows : \A f \in Fresh(batch) : Old(r).file # f
      BY <1>2, <1>8
    <3> QED
      BY <1>4, <3>1, Zenon
  <2>3. \A i, j \in 1 .. Len(list) : New(i).file = New(j).file => i = j
    <3>1. \A i, j \in 1 .. Len(list) : list[i] = list[j] => i = j
      BY <1>1
    <3>2. \A i \in 1 .. Len(list) : New(i).file = list[i]
      BY <1>3
    <3> QED
      BY <3>1, <3>2, Zenon
  <2> QED
    BY <1>6, <2>1, <2>2, <2>3 DEF OneRow
<1>13. ASSUME NEW e \in batch PROVE \E q \in rows' : q.file = e.file /\ q.flag = 1
  <2>1. CASE e.id = 0
    <3>1. e.file \in Fresh(batch)
      BY <2>1 DEF Fresh
    <3> QED
      BY <1>3, <1>5, <1>6, <3>1
  <2>2. CASE e.id # 0
    <3>1. PICK r \in rows : r.file = e.file /\ r.id = e.id
      BY <2>2 DEF Accurate, RowsOf
    <3>2. r.id \in Updated(batch)
      BY <2>2, <3>1 DEF Updated
    <3> QED
      BY <1>2, <1>6, <3>1, <3>2
  <2> QED
    BY <2>1, <2>2
<1>14. \A r \in rows : \E q \in rows' : q.id = r.id /\ q.file = r.file /\ (r.flag = 1 => q.flag = 1)
  BY <1>2, <1>6
<1>15. ASSUME NEW q \in rows'
       PROVE  \/ \E r \in rows : r.id = q.id /\ r.file = q.file /\ r.flag = q.flag
              \/ \E e \in batch : e.file = q.file /\ q.flag = 1
  <2>1. CASE \E i \in 1 .. Len(list) : q = New(i)
    BY <1>1, <1>3, <2>1 DEF Fresh
  <2>2. ASSUME NEW r \in rows, q = Old(r), r.id \in Updated(batch)
        PROVE  \E e \in batch : e.file = q.file /\ q.flag = 1
    <3>1. PICK e \in batch : e.id = r.id /\ e.id # 0
      BY <2>2 DEF Updated
    <3>2. PICK p \in rows : p.file = e.file /\ p.id = e.id
      BY <3>1 DEF Accurate, RowsOf
    <3>3. p = r
      BY <3>1, <3>2 DEF Ids
    <3> QED
      BY <1>2, <2>2, <3>2, <3>3
  <2> QED
    BY <1>2, <1>6, <2>1, <2>2
<1> QED
  BY <1>7, <1>10, <1>11, <1>12, <1>13, <1>14, <1>15 DEF Ids

-----------------------------------------------------------------------------
(* Types, for any number of scanners *)

LEMMA Became ==
    ASSUME scan \in [Scanners -> Scan], NEW s \in Scanners, NEW new, Becomes(s, new)
    PROVE  /\ scan'[s] = new /\ \A q \in Scanners \ {s} : scan'[q] = scan[q]
BY DEF Becomes

(* A walk is in one of the directories. *)
Walks == {"walk", "flush", "commit"}
Sane == {w \in Scan : w.phase \in Walks => w.dir <= NumDirs}

TypeInv == TypeOK /\ nextId >= 1 /\ scan \in [Scanners -> Sane]

LEMMA Batches ==
    ASSUME scan \in [Scanners -> Scan], NEW s \in Scanners, NEW t \in Tables
    PROVE  scan[s].buffer[t] \in Seq(Entry) /\ ToSet(scan[s].buffer[t]) \subseteq Entry
BY DEF Scan, ToSet

(* The least id of the rows of a file is the id of one of them. *)
LEMMA OwnId ==
    ASSUME rows \subseteq Row, NEW f, RowsOf(f) # {}
    PROVE  NewEntry(f).id \in {r.id : r \in RowsOf(f)}
<1> DEFINE ids == {r.id : r \in RowsOf(f)}
<1>1. ids \subseteq Nat /\ ids # {}
  BY DEF RowsOf, Row
<1>2. \E i \in ids : \A j \in ids : <<j, i>> \notin OpToRel(<, Nat)
  BY <1>1, NatLessThanWellFounded, WFMin
<1>3. \E i \in ids : \A j \in ids : i <= j
  <2> HIDE DEF ids
  <2>1. PICK i \in ids : \A j \in ids : <<j, i>> \notin OpToRel(<, Nat)
    BY <1>2
  <2>2. \A j \in ids : ~(j < i)
    BY <1>1, <2>1 DEF OpToRel
  <2>3. \A j \in ids : i \in Nat /\ j \in Nat
    BY <1>1
  <2>4. \A j \in ids : i <= j
    BY <2>2, <2>3
  <2> QED
    BY <2>4
<1>4. \E i \in ids : \A r \in RowsOf(f) : i <= r.id
  BY <1>3
<1> QED
  BY <1>4 DEF NewEntry

LEMMA EntryTyped ==
    ASSUME rows \subseteq Row, NEW f \in Preset
    PROVE  NewEntry(f) \in Entry /\ NewEntry(f).file = f
<1>1. CASE RowsOf(f) = {}
  BY <1>1 DEF NewEntry, Entry
<1>2. CASE RowsOf(f) # {}
  <2>1. NewEntry(f).id \in Nat
    BY <1>2, OwnId DEF RowsOf, Row
  <2> QED
    BY <1>2, <2>1 DEF NewEntry, Entry
<1> QED
  BY <1>1, <1>2

(* The scan of a process goes on as a sane one. *)
Typed(s) ==
    /\ rows' \subseteq Row /\ nextId' \in Nat /\ nextId' >= 1 /\ UNCHANGED <<disk, scans>> /\ first' \in BOOLEAN
    /\ \E new \in Sane : Becomes(s, new)

LEMMA TypedKept ==
    ASSUME TypeInv, NEW s \in Scanners, Typed(s)
    PROVE  TypeInv'
<1>1. scan' \in [Scanners -> Sane]
  BY DEF TypeInv, Typed, Becomes
<1>2. scan' \in [Scanners -> Scan]
  BY <1>1 DEF Sane
<1> QED
  BY <1>1, <1>2 DEF TypeInv, TypeOK, Typed

LEMMA MoveTyped ==
    ASSUME TypeInv, NEW s \in Scanners, NEW phase \in Phases, phase \in Walks => scan[s].dir <= NumDirs
    PROVE  /\ scan[s] \in Sane
           /\ Goto(s, phase) \in Sane /\ NextTableOr(s, phase) \in Sane
<1>1. scan[s] \in Sane /\ 1 \in Tables
  BY BootScanAssumption DEF Tables, TypeInv
<1>2. Goto(s, phase) \in Sane
  BY <1>1 DEF Goto, Scan, Sane
<1>3. NextTableOr(s, phase) \in Sane
  <2>1. CASE scan[s].table < NumTables
    <3>1. scan[s].table + 1 \in Tables
      BY <1>1, <2>1, BootScanAssumption DEF Scan, Sane, Tables
    <3> QED
      BY <1>1, <2>1, <3>1 DEF NextTableOr, Scan, Sane
  <2> QED
    BY <1>2, <2>1 DEF NextTableOr
<1> QED
  BY <1>1, <1>2, <1>3

LEMMA FailTyped ==
    ASSUME TypeInv, NEW s \in Scanners, Fail(s), UNCHANGED <<rows, nextId, disk, first, scans>>
    PROVE  Typed(s)
<1>1. Goto(s, "end") \in Sane
  BY MoveTyped DEF Phases, Walks
<1>2. [Goto(s, "end") EXCEPT !.ok = FALSE] \in Sane
  BY <1>1 DEF Scan, Sane
<1> QED
  BY <1>2 DEF Fail, Typed, TypeInv, TypeOK

(* The memory of s after a transaction of which the rows of lost were not written. *)
AfterBatch(s, lost) ==
    LET next == IF scan[s].phase = "flush" THEN Goto(s, "walk") ELSE NextTableOr(s, "open")
    IN  [next EXCEPT !.buffer = [@ EXCEPT ![scan[s].table] = <<>>],
                     !.skipped = @ \cup lost,
                     !.dir = IF next.phase = "open" THEN @ + 1 ELSE @]

LEMMA BatchSteps ==
    ASSUME TypeInv, NEW s \in Scanners, WriteBatch(s)
    PROVE  /\ ToSet(Batch(s)) \subseteq Entry
           /\ \E written \in SUBSET ToSet(Batch(s)) :
                /\ Write(written)
                /\ Becomes(s, AfterBatch(s, {e.file : e \in ToSet(Batch(s)) \ written}))
<1>1. scan[s].table \in Tables
  BY DEF TypeInv, TypeOK, Scan
<1>2. \E written \in IF Failures THEN SUBSET ToSet(Batch(s)) ELSE {ToSet(Batch(s))} :
        Write(written) /\ Becomes(s, AfterBatch(s, {e.file : e \in ToSet(Batch(s)) \ written}))
  BY Zenon DEF WriteBatch, AfterBatch
<1> QED
  BY <1>1, <1>2, Batches DEF Batch, TypeInv, TypeOK

LEMMA AfterTyped ==
    ASSUME TypeInv, NEW s \in Scanners, scan[s].phase \in {"flush", "commit"}, NEW lost \in SUBSET Preset
    PROVE  AfterBatch(s, lost) \in Sane
<1> DEFINE next == IF scan[s].phase = "flush" THEN Goto(s, "walk") ELSE NextTableOr(s, "open")
<1>1. scan[s] \in Sane /\ scan[s].dir \in 1 .. NumDirs
  BY BootScanAssumption DEF TypeInv, Sane, Scan, Walks
<1>2. next \in Sane /\ next.dir = scan[s].dir
  <2>1. next \in Sane
    BY <1>1, MoveTyped DEF Phases, Walks
  <2>2. next.dir = scan[s].dir
    BY <1>1 DEF Goto, NextTableOr, Sane, Scan
  <2> QED
    BY <2>1, <2>2
<1>3. AfterBatch(s, lost) =
        [next EXCEPT !.buffer = [@ EXCEPT ![scan[s].table] = <<>>],
                     !.skipped = @ \cup lost,
                     !.dir = IF next.phase = "open" THEN @ + 1 ELSE @]
  BY DEF AfterBatch
<1> HIDE DEF next
<1> DEFINE buffer == [next.buffer EXCEPT ![scan[s].table] = <<>>]
           skipped == next.skipped \cup lost
           dir == IF next.phase = "open" THEN next.dir + 1 ELSE next.dir
<1>4. buffer \in [Tables -> Seq(Entry)] /\ skipped \in SUBSET Preset /\ dir \in 1 .. NumDirs + 1
      /\ (next.phase \in Walks => dir <= NumDirs)
  BY <1>1, <1>2, BootScanAssumption DEF Sane, Scan, Walks
<1>5. AfterBatch(s, lost) = [next EXCEPT !.buffer = buffer, !.skipped = skipped, !.dir = dir]
  BY <1>3
<1> HIDE DEF buffer, skipped, dir
<1> QED
  BY <1>2, <1>4, <1>5 DEF Sane, Scan

LEMMA WriteTyped ==
    ASSUME TypeInv, NEW s \in Scanners, WriteBatch(s), scan[s].phase \in {"flush", "commit"},
           UNCHANGED <<disk, first, scans>>
    PROVE  Typed(s)
<1>1. PICK written \in SUBSET ToSet(Batch(s)) :
        Write(written) /\ Becomes(s, AfterBatch(s, {e.file : e \in ToSet(Batch(s)) \ written}))
  BY BatchSteps, Zenon
<1>2. ToSet(Batch(s)) \subseteq Entry
  BY BatchSteps
<1>3. rows' \subseteq Row /\ nextId' \in Nat /\ nextId' >= 1
  BY <1>1, <1>2, WrittenTyped DEF TypeInv, TypeOK
<1> DEFINE lost == {e.file : e \in ToSet(Batch(s)) \ written}
<1>4. lost \in SUBSET Preset
  BY <1>2 DEF Entry
<1> HIDE DEF lost
<1>5. AfterBatch(s, lost) \in Sane
  BY <1>4, AfterTyped
<1>6. Becomes(s, AfterBatch(s, lost))
  BY <1>1 DEF lost
<1> QED
  BY <1>3, <1>5, <1>6 DEF Typed, TypeInv, TypeOK

(* A step that moves the scan of s and no data. *)
LEMMA MovedTyped ==
    ASSUME TypeInv, NEW s \in Scanners, NEW new \in Sane, Becomes(s, new),
           UNCHANGED <<rows, nextId, disk, scans>>, first' \in BOOLEAN
    PROVE  Typed(s)
BY DEF Typed, TypeInv, TypeOK

LEMMA FlagsTyped ==
    ASSUME TypeInv, NEW s \in Scanners, ResetFlags(s)
    PROVE  Typed(s)
<1>1. NextTableOr(s, "open") \in Sane
  BY MoveTyped DEF Phases, Walks
<1>2. \A r \in rows : (IF TableOf[r.file] = scan[s].table THEN [r EXCEPT !.flag = 0] ELSE r) \in Row
  BY DEF TypeInv, TypeOK, Row
<1>3. rows' \subseteq Row
  BY <1>2 DEF ResetFlags
<1>4. Becomes(s, NextTableOr(s, "open")) /\ UNCHANGED <<nextId, disk, first, scans>>
  BY DEF ResetFlags
<1> QED
  BY <1>1, <1>3, <1>4 DEF Typed, TypeInv, TypeOK

LEMMA WalkTyped ==
    ASSUME TypeInv, NEW s \in Scanners,
           \/ OpenDir(s) \/ PassOverDir(s) \/ AllDirsWalked(s) \/ EnterNested(s) \/ EnterNestedFails(s)
           \/ ReaddirFails(s) \/ LeaveNested(s) \/ SeeStop(s) \/ DirWalked(s)
    PROVE  Typed(s)
<1> DEFINE w == scan[s]
<1>1. w \in Sane /\ 1 \in Tables
  BY BootScanAssumption DEF Tables, TypeInv
<1>2. first \in BOOLEAN
  BY DEF TypeInv, TypeOK
<1> SUFFICES Typed(s)
  OBVIOUS
<1>3. CASE OpenDir(s)
  <2>1. InDir(w.dir) \in SUBSET Preset
    BY DEF InDir, TypeInv, TypeOK
  <2>2. [w EXCEPT !.phase = "walk", !.todo = InDir(w.dir)] \in Sane
    <3> DEFINE todo == InDir(w.dir)
    <3>1. w.dir <= NumDirs /\ todo \in SUBSET Preset
      BY <1>3, <2>1 DEF OpenDir
    <3> HIDE DEF todo
    <3>2. [w EXCEPT !.phase = "walk", !.todo = todo] \in Sane
      BY <1>1, <3>1 DEF Sane, Scan, Phases, Walks
    <3> QED
      BY <3>2 DEF todo
  <2>3. Becomes(s, [w EXCEPT !.phase = "walk", !.todo = InDir(w.dir)]) /\ UNCHANGED <<rows, nextId, disk, first, scans>>
    BY <1>3, Zenon DEF OpenDir
  <2> QED
    BY <1>2, <2>2, <2>3, MovedTyped
<1>4. CASE AllDirsWalked(s)
  BY <1>2, <1>4, MoveTyped, MovedTyped DEF AllDirsWalked, Phases, Walks
<1>5. CASE EnterNested(s)
  <2>1. w.todo \cap Nested \in SUBSET Preset /\ w.todo \ Nested \in SUBSET Preset
    BY <1>1 DEF Sane, Scan
  <2>2. [w EXCEPT !.inNested = TRUE, !.nested = w.todo \cap Nested, !.todo = w.todo \ Nested] \in Sane
    BY <1>1, <2>1 DEF Sane, Scan
  <2>3. Becomes(s, [w EXCEPT !.inNested = TRUE, !.nested = w.todo \cap Nested, !.todo = w.todo \ Nested])
        /\ UNCHANGED <<rows, nextId, disk, first, scans>>
    BY <1>5 DEF EnterNested
  <2> QED
    BY <1>2, <2>2, <2>3, MovedTyped
<1>6. CASE EnterNestedFails(s)
  <2>1. w.skipped \cup (w.todo \cap Nested) \in SUBSET Preset /\ w.todo \ Nested \in SUBSET Preset
    BY <1>1 DEF Sane, Scan
  <2>2. [w EXCEPT !.skipped = w.skipped \cup (w.todo \cap Nested), !.todo = w.todo \ Nested] \in Sane
    BY <1>1, <2>1 DEF Sane, Scan
  <2>3. Becomes(s, [w EXCEPT !.skipped = w.skipped \cup (w.todo \cap Nested), !.todo = w.todo \ Nested])
        /\ UNCHANGED <<rows, nextId, disk, first, scans>>
    BY <1>6 DEF EnterNestedFails
  <2> QED
    BY <1>2, <2>2, <2>3, MovedTyped
<1>7. CASE LeaveNested(s)
  <2>1. [w EXCEPT !.inNested = FALSE] \in Sane
    BY <1>1 DEF Sane, Scan
  <2> QED
    BY <1>2, <1>7, <2>1, MovedTyped DEF LeaveNested
<1>8. CASE SeeStop(s)
  <2> DEFINE out == [w EXCEPT !.inNested = FALSE, !.nested = {}, !.sawStop = TRUE]
             over == [Goto(s, "end") EXCEPT !.ok = FALSE, !.sawStop = TRUE]
  <2>1. out \in Sane
    BY <1>1 DEF Sane, Scan
  <2>2. over \in Sane
    <3>1. Goto(s, "end") \in Sane
      BY MoveTyped DEF Phases, Walks
    <3> QED
      BY <3>1 DEF Sane, Scan
  <2>3. Becomes(s, IF w.inNested THEN out ELSE over) /\ UNCHANGED <<rows, nextId, disk, first, scans>>
    BY <1>8, Zenon DEF SeeStop
  <2> HIDE DEF out, over
  <2> QED
    BY <1>2, <2>1, <2>2, <2>3, MovedTyped
<1>9. CASE DirWalked(s)
  <2>1. w.dir <= NumDirs
    BY <1>1, <1>9 DEF DirWalked, Sane, Walks
  <2> QED
    BY <1>2, <1>9, <2>1, MoveTyped, MovedTyped DEF DirWalked, Phases
<1>10. CASE PassOverDir(s)
  <2> DEFINE lost == w.skipped \cup InDir(w.dir)
             next == w.dir + 1
             v == [w EXCEPT !.dir = next, !.skipped = lost]
  <2>1. lost \in SUBSET Preset
    BY <1>1 DEF InDir, TypeInv, TypeOK, Sane, Scan
  <2>2. next \in 1 .. NumDirs + 1
    BY <1>1, <1>10, BootScanAssumption DEF PassOverDir, Sane, Scan
  <2>3. w.phase \notin Walks
    BY <1>10 DEF PassOverDir, Walks
  <2>4. Becomes(s, v) /\ UNCHANGED <<rows, nextId, disk, first, scans>>
    BY <1>10 DEF PassOverDir
  <2> HIDE DEF lost, next, w
  <2>5. v \in Sane
    BY <1>1, <2>1, <2>2, <2>3 DEF Sane, Scan
  <2> HIDE DEF v
  <2> QED
    BY <1>2, <2>4, <2>5, MovedTyped
<1>11. CASE ReaddirFails(s)
  <2> DEFINE out == [w EXCEPT !.inNested = FALSE, !.nested = {}, !.skipped = w.skipped \cup w.nested]
             moved == Goto(s, "commit")
             over == [moved EXCEPT !.todo = {}, !.skipped = moved.skipped \cup w.todo]
  <2>1. out \in Sane
    <3>1. w.skipped \cup w.nested \in SUBSET Preset
      BY <1>1 DEF Sane, Scan
    <3> QED
      BY <1>1, <3>1 DEF Sane, Scan
  <2>2. over \in Sane
    <3>1. w.dir <= NumDirs
      BY <1>1, <1>11 DEF ReaddirFails, Sane, Walks
    <3>2. moved \in Sane /\ w.todo \in SUBSET Preset
      BY <1>1, <3>1, MoveTyped DEF Phases, Sane, Scan
    <3> HIDE DEF moved, w
    <3>3. moved.skipped \cup w.todo \in SUBSET Preset
      BY <3>2 DEF Sane, Scan
    <3> QED
      BY <3>2, <3>3 DEF Sane, Scan
  <2>3. Becomes(s, IF w.inNested THEN out ELSE over) /\ UNCHANGED <<rows, nextId, disk, first, scans>>
    BY <1>11, Zenon DEF ReaddirFails
  <2> HIDE DEF out, over
  <2> QED
    BY <1>2, <2>1, <2>2, <2>3, MovedTyped
<1> QED
  BY <1>3, <1>4, <1>5, <1>6, <1>7, <1>8, <1>9, <1>10, <1>11

LEMMA TakenTyped ==
    ASSUME TypeInv, NEW s \in Scanners, NEW f
    PROVE  Taken(s, f) \in Sane /\ Taken(s, f).dir = scan[s].dir /\ Taken(s, f).phase = scan[s].phase
           /\ Taken(s, f).buffer = scan[s].buffer /\ Taken(s, f).skipped = scan[s].skipped
<1>1. scan[s] \in Sane
  BY DEF TypeInv
<1>2. scan[s].nested \ {f} \in SUBSET Preset /\ scan[s].todo \ {f} \in SUBSET Preset
  BY <1>1 DEF Sane, Scan
<1> QED
  BY <1>1, <1>2 DEF Taken, Sane, Scan

(* What ReadFile makes of the scan of s when readdir returns f. *)
Buffered(s, f) == Append(scan[s].buffer[TableOf[f]], NewEntry(f))
AfterRead(s, f) ==
    LET full == Len(Buffered(s, f)) >= MAX_BATCH_SIZE
    IN  [Taken(s, f) EXCEPT !.buffer = [@ EXCEPT ![TableOf[f]] = Buffered(s, f)],
                            !.phase = IF full THEN "flush" ELSE "walk",
                            !.table = IF full THEN TableOf[f] ELSE 1]

LEMMA Reads ==
    ASSUME TypeInv, NEW s \in Scanners, ReadFile(s)
    PROVE  \E f \in Pending(s) : f \in Preset /\ Becomes(s, AfterRead(s, f))
<1>1. \E f \in Pending(s) : Becomes(s, AfterRead(s, f))
  BY Zenon DEF ReadFile, AfterRead, Buffered
<1>2. Pending(s) \subseteq Preset
  BY DEF TypeInv, Sane, Scan, Pending
<1> QED
  BY <1>1, <1>2, Zenon

LEMMA BufferedTyped ==
    ASSUME TypeInv, NEW s \in Scanners, NEW f \in Preset
    PROVE  Buffered(s, f) \in Seq(Entry) /\ TableOf[f] \in Tables
<1>1. TableOf[f] \in Tables /\ scan \in [Scanners -> Scan] /\ rows \subseteq Row
  BY BootScanAssumption DEF Files, TypeInv, TypeOK
<1>2. scan[s].buffer[TableOf[f]] \in Seq(Entry)
  BY <1>1, Batches
<1>3. NewEntry(f) \in Entry
  BY <1>1, EntryTyped
<1> QED
  BY <1>1, <1>2, <1>3 DEF Buffered

(* The record of a reading. *)
LEMMA ReadShape ==
    ASSUME TypeInv, NEW s \in Scanners, NEW f \in Preset, scan[s].phase = "walk"
    PROVE  AfterRead(s, f) \in Sane
<1> DEFINE taken == Taken(s, f)
           full == Len(Buffered(s, f)) >= MAX_BATCH_SIZE
           buffer == [taken.buffer EXCEPT ![TableOf[f]] = Buffered(s, f)]
           phase == IF full THEN "flush" ELSE "walk"
           table == IF full THEN TableOf[f] ELSE 1
<1>1. taken \in Sane /\ taken.dir <= NumDirs
  BY TakenTyped DEF TypeInv, Sane, Walks
<1>2. buffer \in [Tables -> Seq(Entry)]
  <2> DEFINE more == Buffered(s, f)
  <2>1. more \in Seq(Entry) /\ TableOf[f] \in Tables
    BY BufferedTyped
  <2>2. taken.buffer \in [Tables -> Seq(Entry)]
    BY <1>1 DEF Sane, Scan
  <2> HIDE DEF more, taken
  <2>3. [taken.buffer EXCEPT ![TableOf[f]] = more] \in [Tables -> Seq(Entry)]
    BY <2>1, <2>2
  <2> QED
    BY <2>3 DEF more
<1>3. phase \in Phases /\ table \in Tables
  BY BufferedTyped, BootScanAssumption DEF Phases, Tables
<1>4. AfterRead(s, f) = [taken EXCEPT !.buffer = buffer, !.phase = phase, !.table = table]
  BY DEF AfterRead
<1> HIDE DEF taken, buffer, phase, table
<1> QED
  BY <1>1, <1>2, <1>3, <1>4 DEF Sane, Scan

LEMMA ReadTyped ==
    ASSUME TypeInv, NEW s \in Scanners, ReadFile(s) \/ ReadFileFails(s)
    PROVE  Typed(s)
<1>1. first \in BOOLEAN
  BY DEF TypeInv, TypeOK
<1> SUFFICES Typed(s)
  OBVIOUS
<1>2. CASE ReadFile(s)
  <2>1. PICK f \in Pending(s) : f \in Preset /\ Becomes(s, AfterRead(s, f))
    BY <1>2, Reads, Zenon
  <2>2. AfterRead(s, f) \in Sane
    BY <1>2, <2>1, ReadShape DEF ReadFile
  <2>3. UNCHANGED <<rows, nextId, disk, first, scans>>
    BY <1>2 DEF ReadFile
  <2> QED
    BY <1>1, <2>1, <2>2, <2>3, MovedTyped
<1>3. CASE ReadFileFails(s)
  <2>1. PICK f \in Pending(s) : Becomes(s, [Taken(s, f) EXCEPT !.skipped = @ \cup {f}])
    BY <1>3 DEF ReadFileFails
  <2>2. f \in Preset
    BY DEF TypeInv, Sane, Scan, Pending
  <2> DEFINE taken == Taken(s, f)
  <2>3. taken \in Sane
    BY TakenTyped
  <2>4. Becomes(s, [taken EXCEPT !.skipped = taken.skipped \cup {f}])
    BY <2>1
  <2> HIDE DEF taken
  <2>5. [taken EXCEPT !.skipped = taken.skipped \cup {f}] \in Sane
    BY <2>2, <2>3 DEF Sane, Scan
  <2>6. UNCHANGED <<rows, nextId, disk, first, scans>>
    BY <1>3 DEF ReadFileFails
  <2> QED
    BY <1>1, <2>4, <2>5, <2>6, MovedTyped
<1> QED
  BY <1>2, <1>3

LEMMA EndTyped ==
    ASSUME TypeInv, NEW s \in Scanners,
           UpdateDefaultTone(s) \/ DeleteNotExist(s) \/ EndScan(s) \/ SetStopFlag(s) \/ Crash(s)
    PROVE  Typed(s)
<1>1. first \in BOOLEAN /\ scan[s] \in Sane /\ scan[s] \in Scan /\ rows \subseteq Row
  BY DEF TypeInv, TypeOK
<1> SUFFICES Typed(s)
  OBVIOUS
<1>2. CASE UpdateDefaultTone(s)
  <2>1. Goto(s, "delete") \in Sane
    BY MoveTyped DEF Phases, Walks
  <2>2. CASE Fail(s)
    BY <1>2, <2>2, FailTyped DEF UpdateDefaultTone
  <2>3. CASE Becomes(s, Goto(s, "delete"))
    BY <1>1, <1>2, <2>1, <2>3, MovedTyped DEF UpdateDefaultTone
  <2> QED
    BY <1>2, <2>2, <2>3 DEF UpdateDefaultTone
<1>3. CASE DeleteNotExist(s)
  <2>1. NextTableOr(s, "end") \in Sane
    BY MoveTyped DEF Phases, Walks
  <2>2. rows' \subseteq Row
    BY <1>1, <1>3 DEF DeleteNotExist
  <2>3. Becomes(s, NextTableOr(s, "end")) /\ UNCHANGED <<nextId, disk, first, scans>>
    BY <1>3 DEF DeleteNotExist
  <2> QED
    BY <2>1, <2>2, <2>3 DEF Typed, TypeInv, TypeOK
<1>4. CASE EndScan(s)
  <2> DEFINE new == [IdleScan EXCEPT !.sawStop = scan[s].sawStop, !.skipped = scan[s].skipped]
  <2>1. new \in Sane
    <3>1. scan[s].sawStop \in BOOLEAN /\ scan[s].skipped \in SUBSET Preset
      BY <1>1 DEF Scan
    <3>2. IdleScan \in Scan /\ IdleScan.phase = "idle"
      BY IdleTyped DEF IdleScan
    <3> HIDE DEF IdleScan
    <3> QED
      BY <3>1, <3>2 DEF Scan, Sane, Walks
  <2>2. Becomes(s, new) /\ UNCHANGED <<rows, nextId, disk, scans>> /\ first' = (first \/ scan[s].ok)
    BY <1>4, Zenon DEF EndScan
  <2>3. first' \in BOOLEAN
    BY <2>2
  <2> HIDE DEF new
  <2> QED
    BY <2>1, <2>2, <2>3, MovedTyped
<1>5. CASE SetStopFlag(s)
  <2>1. [scan[s] EXCEPT !.stop = TRUE] \in Sane
    BY <1>1 DEF Sane, Scan
  <2> QED
    BY <1>1, <1>5, <2>1, MovedTyped DEF SetStopFlag
<1>6. CASE Crash(s)
  <2>1. IdleScan \in Sane
    BY IdleTyped DEF Sane, IdleScan, Walks
  <2> QED
    BY <1>1, <1>6, <2>1, MovedTyped DEF Crash
<1> QED
  BY <1>2, <1>3, <1>4, <1>5, <1>6

LEMMA StepTyped ==
    ASSUME TypeInv, NEW s \in Scanners, ScanStep(s) \/ SetStopFlag(s) \/ Crash(s)
    PROVE  Typed(s)
<1> SUFFICES Typed(s)
  OBVIOUS
<1>1. CASE ResetFlags(s)
  BY <1>1, FlagsTyped
<1>2. CASE \/ ResetFlagsFails(s) \/ OpenDirFails(s) \/ CommitTableFails(s) \/ DeleteNotExistFails(s)
  BY <1>2, FailTyped DEF ResetFlagsFails, OpenDirFails, CommitTableFails, DeleteNotExistFails
<1>3. CASE \/ OpenDir(s) \/ PassOverDir(s) \/ AllDirsWalked(s) \/ EnterNested(s) \/ EnterNestedFails(s)
           \/ ReaddirFails(s) \/ LeaveNested(s) \/ SeeStop(s) \/ DirWalked(s)
  BY <1>3, WalkTyped
<1>4. CASE ReadFile(s) \/ ReadFileFails(s)
  BY <1>4, ReadTyped
<1>5. CASE Flush(s) \/ CommitTable(s)
  BY <1>5, WriteTyped DEF Flush, CommitTable
<1>6. CASE FlushFails(s)
  <2>1. first \in BOOLEAN /\ scan[s].dir <= NumDirs
    BY <1>6 DEF FlushFails, TypeInv, TypeOK, Sane, Walks
  <2>2. Goto(s, "walk") \in Sane
    BY <2>1, MoveTyped DEF Phases
  <2> QED
    BY <1>6, <2>1, <2>2, MovedTyped DEF FlushFails
<1>7. CASE \/ UpdateDefaultTone(s) \/ DeleteNotExist(s) \/ EndScan(s) \/ SetStopFlag(s) \/ Crash(s)
  BY <1>7, EndTyped
<1> QED
  BY <1>1, <1>2, <1>3, <1>4, <1>5, <1>6, <1>7 DEF ScanStep

LEMMA InitTyped == Init => TypeInv
<1> SUFFICES ASSUME Init PROVE TypeInv
  OBVIOUS
<1>1. PICK known \in SUBSET Preset :
        /\ rows = {[id |-> i, file |-> SetToSeq(Customised \cup known)[i], flag |-> 1] :
                     i \in 1 .. Len(SetToSeq(Customised \cup known))}
        /\ nextId = Len(SetToSeq(Customised \cup known)) + 1
  BY Zenon DEF Init
<1> DEFINE all == SetToSeq(Customised \cup known)
<1>2. Len(all) \in Nat /\ \A i \in 1 .. Len(all) : all[i] \in Customised \cup known
  <2> DEFINE S == Customised \cup known
  <2>1. IsFiniteSet(S)
    BY BootScanAssumption, FS_Subset, FS_Union
  <2> HIDE DEF S
  <2>2. Len(SetToSeq(S)) \in Nat /\ \A i \in 1 .. Len(SetToSeq(S)) : SetToSeq(S)[i] \in S
    BY <2>1, Listed
  <2> QED
    BY <2>2 DEF S
<1>3. rows = {[id |-> i, file |-> all[i], flag |-> 1] : i \in 1 .. Len(all)} /\ nextId = Len(all) + 1
  BY <1>1
<1> HIDE DEF all
<1>4. rows \subseteq Row /\ nextId \in Nat /\ nextId >= 1
  BY <1>2, <1>3 DEF Row, Files
<1>5. scan \in [Scanners -> Sane] /\ scan \in [Scanners -> Scan]
  BY IdleTyped DEF Init, Sane, IdleScan, Walks
<1>6. disk \subseteq Preset /\ first \in BOOLEAN /\ scans \in 0 .. MaxScans
  <2>1. disk \in SUBSET Preset /\ first = FALSE /\ scans = 0
    BY Zenon DEF Init
  <2>2. disk \subseteq Preset /\ first \in BOOLEAN
    BY <2>1, Zenon
  <2>3. scans \in 0 .. MaxScans
    BY <2>1, BootScanAssumption
  <2> QED
    BY <2>2, <2>3
<1> QED
  BY <1>4, <1>5, <1>6 DEF TypeInv, TypeOK

LEMMA NextTyped == TypeInv /\ [Next]_vars => TypeInv'
<1> SUFFICES ASSUME TypeInv, [Next]_vars PROVE TypeInv'
  OBVIOUS
<1>1. CASE UNCHANGED vars
  BY <1>1 DEF vars, TypeInv, TypeOK, Sane, Scan, Row, Entry
<1>2. ASSUME NEW s \in Scanners, StartScan(s) PROVE TypeInv'
  <2>1. [IdleScan EXCEPT !.phase = "flags"] \in Sane
    <3>1. IdleScan \in Scan
      BY IdleTyped
    <3> HIDE DEF IdleScan
    <3> QED
      BY <3>1 DEF Scan, Sane, Walks, Phases
  <2>2. scan' \in [Scanners -> Sane]
    BY <1>2, <2>1 DEF StartScan, Becomes, TypeInv
  <2>3. scan' \in [Scanners -> Scan]
    BY <2>2 DEF Sane
  <2>4. scans' \in 0 .. MaxScans
    BY <1>2, BootScanAssumption DEF StartScan, TypeInv, TypeOK
  <2> QED
    BY <1>2, <2>2, <2>3, <2>4 DEF StartScan, TypeInv, TypeOK
<1>3. ASSUME NEW s \in Scanners, ScanStep(s) \/ SetStopFlag(s) \/ Crash(s) PROVE TypeInv'
  BY <1>3, StepTyped, TypedKept
<1>4. CASE Reboot
  <2>1. scan' \in [Scanners -> Sane] /\ scan' \in [Scanners -> Scan]
    BY <1>4, IdleTyped DEF Reboot, Sane, IdleScan, Walks
  <2> QED
    BY <1>4, <2>1 DEF Reboot, TypeInv, TypeOK
<1> QED
  BY <1>1, <1>2, <1>3, <1>4 DEF Next

(* The rows, the directories and what each scanner remembers have the types of the code's    *)
(* tables, enumerations and buffers, for any number of scanners, whatever fails or dies.     *)
THEOREM TypeCorrect == Spec => []TypeOK
<1>1. TypeInv => TypeOK
  BY DEF TypeInv
<1> QED
  BY <1>1, InitTyped, NextTyped, PTL DEF Spec

-----------------------------------------------------------------------------
(* One scan, from the flags to the deletion *)

(* A file is done when it has a flagged row. *)
Done(f) == \E r \in rows : r.file = f /\ r.flag = 1

InBuffer(w, t, f) == \E e \in ToSet(w.buffer[t]) : e.file = f
After(w) == w.phase \in {"open", "walk", "flush", "commit", "default", "delete"} \/ (w.phase = "end" /\ w.ok)

(* The buffers hold the files that the walk of the open directory is through with, each file *)
(* once and in the buffer of its table; between two directories they are empty.              *)
Orderly(w) ==
    /\ w.phase \notin Walks \cup {"end"} => \A t \in Tables : ToSet(w.buffer[t]) = {}
    /\ w.phase \notin {"walk", "flush", "end"} => w.nested = {}
    /\ w.phase = "flags" => w.dir = 1
    /\ w.phase = "commit" =>
         w.todo = {} /\ \A t \in Tables : t < w.table => ToSet(w.buffer[t]) = {}
    /\ w.phase \in Walks =>
         /\ \A t \in Tables : \A e \in ToSet(w.buffer[t]) :
              /\ e.file \in disk /\ DirOf[e.file] = w.dir /\ TableOf[e.file] = t
              /\ e.file \notin w.todo /\ e.file \notin w.nested
         /\ \A t \in Tables : \A e, f \in ToSet(w.buffer[t]) : e.file = f.file => e = f
         /\ \A f \in w.todo \cup w.nested : f \in disk /\ DirOf[f] = w.dir
         /\ w.todo \cap w.nested = {}
         /\ ~w.inNested => w.nested = {}

(* BuffersCurrent, of one scan. *)
Current(w) ==
    \A t \in Tables : \A e \in ToSet(w.buffer[t]) :
        IF e.id = 0 THEN RowsOf(e.file) = {} ELSE \E r \in RowsOf(e.file) : r.id = e.id

(* The flags are reset table by table; from then on a flagged row is of a file that is there; *)
(* the deletion leaves, table by table, flagged preset rows only.                             *)
Flagged(w) ==
    /\ w.phase = "flags" => \A r \in rows : TableOf[r.file] < w.table => r.flag = 0
    /\ After(w) => \A r \in rows : r.flag = 1 => r.file \in disk
    /\ w.phase = "delete" =>
         \A r \in rows : (r.file \in Preset /\ TableOf[r.file] < w.table) => r.flag = 1
    /\ w.phase = "end" /\ w.ok => \A r \in rows : r.file \in Preset => r.flag = 1

(* A file that is there and not excused is done, or buffered, or still to be read. *)
Covered(w) ==
    \A f \in disk : f \notin w.skipped /\ ~w.sawStop =>
        /\ w.phase \in Walks \cup {"open"} /\ DirOf[f] < w.dir => Done(f)
        /\ w.phase \in Walks /\ DirOf[f] = w.dir =>
             f \in w.todo \/ f \in w.nested \/ InBuffer(w, TableOf[f], f) \/ Done(f)
        /\ w.phase \in {"default", "delete"} => Done(f)
        /\ w.phase = "end" /\ w.ok => Done(f)

Good(w) == Orderly(w) /\ Current(w) /\ Flagged(w) /\ Covered(w)

Inv == TypeInv /\ Ids /\ OneRow /\ \A s \in Scanners : Good(scan[s])

(* A scan that goes on with the rows as they are. *)
LEMMA Kept ==
    ASSUME Inv, NEW s, Scanners = {s}, NEW new, Becomes(s, new), Good(new),
           UNCHANGED <<rows, nextId, disk>>
    PROVE  Ids' /\ OneRow' /\ Good(scan[s])'
<1>1. scan'[s] = new
  BY Became DEF Inv, TypeInv, TypeOK
<1>2. Orderly(new) => Orderly(scan[s])'
  BY <1>1 DEF Orderly, InBuffer
<1>3. Current(new) => Current(scan[s])'
  BY <1>1 DEF Current, RowsOf
<1>4. Flagged(new) => Flagged(scan[s])'
  BY <1>1 DEF Flagged, After
<1>5. Covered(new) => Covered(scan[s])'
  BY <1>1 DEF Covered, Done, InBuffer
<1> QED
  BY <1>2, <1>3, <1>4, <1>5 DEF Inv, Good, Ids, OneRow

LEMMA IdleGood == Good(IdleScan)
<1>1. ToSet(<<>>) = {}
  BY DEF ToSet
<1>2. \A t \in Tables : ToSet(IdleScan.buffer[t]) = {}
  BY <1>1 DEF IdleScan
<1>3. IdleScan.phase = "idle" /\ IdleScan.nested = {} /\ IdleScan.dir = 1
  BY DEF IdleScan
<1> HIDE DEF IdleScan
<1> QED
  BY <1>2, <1>3 DEF Good, Orderly, Current, Flagged, Covered, After, Walks

(* The scan that begins, or ends, or fails. *)
LEMMA StartGood ==
    ASSUME TypeInv, NEW v \in Scan, v.phase \in {"idle", "flags"}, v.table = 1, v.dir = 1, v.nested = {},
           \A t \in Tables : ToSet(v.buffer[t]) = {}
    PROVE  Good(v)
<1>1. \A r \in rows : ~(TableOf[r.file] < 1)
  BY BootScanAssumption DEF TypeInv, TypeOK, Row, Tables
<1> QED
  BY <1>1 DEF Good, Orderly, Current, Flagged, Covered, After, Walks

LEMMA FailGood ==
    ASSUME NEW w, Good(w), NEW v, v.phase = "end", ~v.ok, v.buffer = w.buffer
    PROVE  Good(v)
BY DEF Good, Orderly, Current, Flagged, Covered, After, Walks

(* The moves of the walk, on the record of the scan. *)
LEMMA OpenGood ==
    ASSUME NEW w \in Sane, Good(w), NEW v \in Sane, w.phase = "open", v.phase = "walk",
           v.todo = InDir(w.dir), v.dir = w.dir, v.buffer = w.buffer, v.nested = w.nested,
           v.skipped = w.skipped, v.sawStop = w.sawStop
    PROVE  Good(v)
<1>1. Orderly(v)
  BY DEF Good, Orderly, Walks, InDir
<1>2. Current(v)
  BY DEF Good, Current
<1>3. Flagged(v)
  BY DEF Good, Flagged, After
<1>4. Covered(v)
  BY DEF Good, Covered, Walks, InDir
<1> QED
  BY <1>1, <1>2, <1>3, <1>4 DEF Good

LEMMA PassOverGood ==
    ASSUME TypeInv, NEW w \in Sane, Good(w), NEW v \in Sane, w.phase = "open", v.phase = "open",
           v.dir = w.dir + 1, v.buffer = w.buffer, v.nested = w.nested,
           v.skipped = w.skipped \cup InDir(w.dir), v.sawStop = w.sawStop
    PROVE  Good(v)
<1>1. Orderly(v)
  BY DEF Good, Orderly, Walks
<1>2. Current(v)
  BY DEF Good, Current
<1>3. Flagged(v)
  BY DEF Good, Flagged, After
<1>4. Covered(v)
  <2>1. \A f \in disk : f \notin v.skipped /\ DirOf[f] < v.dir => DirOf[f] < w.dir
    <3>1. \A f \in disk : DirOf[f] \in 1 .. NumDirs
      BY BootScanAssumption DEF TypeInv, TypeOK
    <3>2. \A f \in disk : f \notin v.skipped => DirOf[f] # w.dir
      BY DEF InDir
    <3> QED
      BY <3>1, <3>2, BootScanAssumption DEF Sane, Scan
  <2> QED
    BY <2>1 DEF Good, Covered, Walks
<1> QED
  BY <1>1, <1>2, <1>3, <1>4 DEF Good

LEMMA WalkedGood ==
    ASSUME TypeInv, NEW w \in Sane, Good(w), NEW v \in Sane, w.phase = "open", v.phase = "default",
           w.dir > NumDirs, v.buffer = w.buffer, v.nested = w.nested,
           v.skipped = w.skipped, v.sawStop = w.sawStop
    PROVE  Good(v)
<1>1. Orderly(v)
  BY DEF Good, Orderly, Walks
<1>2. Current(v)
  BY DEF Good, Current
<1>3. Flagged(v)
  BY DEF Good, Flagged, After
<1>4. Covered(v)
  <2>1. \A f \in disk : DirOf[f] \in 1 .. NumDirs
    BY BootScanAssumption DEF TypeInv, TypeOK
  <2>2. \A f \in disk : DirOf[f] < w.dir
    BY <2>1, BootScanAssumption DEF Sane, Scan
  <2> QED
    BY <2>2 DEF Good, Covered, Walks
<1> QED
  BY <1>1, <1>2, <1>3, <1>4 DEF Good

(* Entries left the walk for a buffer-free place: into the subdirectory, out of it, or lost. *)
LEMMA SplitGood ==
    ASSUME NEW w \in Sane, Good(w), NEW v \in Sane, w.phase = "walk", v.phase = "walk", v.dir = w.dir,
           v.buffer = w.buffer, v.todo \cup v.nested \subseteq w.todo \cup w.nested,
           v.todo \cap v.nested = {}, ~v.inNested => v.nested = {},
           w.sawStop => v.sawStop, w.skipped \subseteq v.skipped,
           v.sawStop \/ (w.todo \cup w.nested) \ (v.todo \cup v.nested) \subseteq v.skipped
    PROVE  Good(v)
<1>1. Orderly(v)
  BY DEF Good, Orderly, Walks
<1>2. Current(v)
  BY DEF Good, Current
<1>3. Flagged(v)
  BY DEF Good, Flagged, After
<1>4. Covered(v)
  BY DEF Good, Covered, Walks, InBuffer
<1> QED
  BY <1>1, <1>2, <1>3, <1>4 DEF Good

LEMMA CommitGood ==
    ASSUME NEW w \in Sane, Good(w), NEW v \in Sane, w.phase = "walk", v.phase = "commit", v.table = 1,
           w.todo = {}, ~w.inNested, v.todo = w.todo, v.nested = w.nested, v.inNested = w.inNested,
           v.dir = w.dir, v.buffer = w.buffer, v.skipped = w.skipped, v.sawStop = w.sawStop
    PROVE  Good(v)
<1>1. Orderly(v)
  <2>1. \A t \in Tables : ~(t < 1)
    BY BootScanAssumption DEF Tables
  <2> QED
    BY <2>1 DEF Good, Orderly, Walks
<1>2. Current(v)
  BY DEF Good, Current
<1>3. Flagged(v)
  BY DEF Good, Flagged, After
<1>4. Covered(v)
  BY DEF Good, Covered, Walks, InBuffer
<1> QED
  BY <1>1, <1>2, <1>3, <1>4 DEF Good

(* The store is gone: the walk goes on with its buffers. *)
LEMMA KeptGood ==
    ASSUME NEW w \in Sane, Good(w), NEW v \in Sane,
           w.phase = "flush", v.phase = "walk", v.todo = w.todo, v.nested = w.nested, v.inNested = w.inNested,
           v.dir = w.dir, v.buffer = w.buffer, v.skipped = w.skipped, v.sawStop = w.sawStop
    PROVE  Good(v)
<1>1. Orderly(v)
  BY DEF Good, Orderly, Walks
<1>2. Current(v)
  BY DEF Good, Current
<1>3. Flagged(v)
  BY DEF Good, Flagged, After
<1>4. Covered(v)
  BY DEF Good, Covered, Walks, InBuffer
<1> QED
  BY <1>1, <1>2, <1>3, <1>4 DEF Good

LEMMA DefaultGood ==
    ASSUME TypeInv, NEW w \in Sane, Good(w), NEW v \in Sane, w.phase = "default", v.phase = "delete", v.table = 1,
           v.nested = w.nested, v.dir = w.dir, v.buffer = w.buffer, v.skipped = w.skipped, v.sawStop = w.sawStop
    PROVE  Good(v)
<1>1. Orderly(v)
  BY DEF Good, Orderly, Walks
<1>2. Current(v)
  BY DEF Good, Current
<1>3. Flagged(v)
  <2>1. \A r \in rows : ~(TableOf[r.file] < 1)
    BY BootScanAssumption DEF TypeInv, TypeOK, Row, Tables
  <2> QED
    BY <2>1 DEF Good, Flagged, After
<1>4. Covered(v)
  BY DEF Good, Covered, Walks
<1> QED
  BY <1>1, <1>2, <1>3, <1>4 DEF Good

(* readdir returned f, which has a place in the buffer of its table now. *)
LEMMA ReadGood ==
    ASSUME TypeInv, Ids, NEW w \in Sane, Good(w), NEW v \in Sane, w.phase = "walk",
           v.phase \in {"walk", "flush"}, v.dir = w.dir, v.inNested = w.inNested,
           NEW f \in w.todo \cup w.nested,
           v.todo \cup v.nested = (w.todo \cup w.nested) \ {f},
           v.todo \subseteq w.todo, v.nested \subseteq w.nested,
           v.skipped = w.skipped, v.sawStop = w.sawStop,
           \A t \in Tables : ToSet(v.buffer[t]) =
             IF t = TableOf[f] THEN ToSet(w.buffer[t]) \cup {NewEntry(f)} ELSE ToSet(w.buffer[t])
    PROVE  Good(v)
<1>1. f \in disk /\ f \in Preset /\ DirOf[f] = w.dir /\ TableOf[f] \in Tables
  BY BootScanAssumption DEF Good, Orderly, Walks, TypeInv, TypeOK, Files
<1>2. NewEntry(f).file = f
  BY DEF NewEntry
<1>3. IF NewEntry(f).id = 0 THEN RowsOf(f) = {} ELSE \E r \in RowsOf(f) : r.id = NewEntry(f).id
  <2>1. CASE RowsOf(f) = {}
    BY <2>1 DEF NewEntry
  <2>2. CASE RowsOf(f) # {}
    <3> DEFINE ids == {r.id : r \in RowsOf(f)}
    <3>1. NewEntry(f) \in Entry
      BY <1>1, EntryTyped DEF TypeInv, TypeOK
    <3>2. NewEntry(f).id \in ids
      BY <1>1, <2>2, OwnId DEF TypeInv, TypeOK
    <3>3. \A r \in RowsOf(f) : r.id # 0
      BY DEF Ids, RowsOf, TypeInv, TypeOK, Row
    <3> QED
      BY <3>2, <3>3
  <2> QED
    BY <2>1, <2>2
<1> DEFINE new == NewEntry(f)
<1>4. \A t \in Tables : \A e \in ToSet(v.buffer[t]) : e \in ToSet(w.buffer[t]) \/ (t = TableOf[f] /\ e = new)
  OBVIOUS
<1>5. \A t \in Tables : \A e \in ToSet(w.buffer[t]) : e \in ToSet(v.buffer[t])
  OBVIOUS
<1>6. new \in ToSet(v.buffer[TableOf[f]])
  BY <1>1
<1>7. new.file = f /\ (IF new.id = 0 THEN RowsOf(f) = {} ELSE \E r \in RowsOf(f) : r.id = new.id)
  BY <1>2, <1>3
<1> HIDE DEF new
<1>8. Orderly(v)
  <2>1. \A t \in Tables : \A e \in ToSet(w.buffer[t]) : e.file # f
    BY DEF Good, Orderly, Walks
  <2>2. \A t \in Tables : \A e \in ToSet(v.buffer[t]) :
          /\ e.file \in disk /\ DirOf[e.file] = v.dir /\ TableOf[e.file] = t
          /\ e.file \notin v.todo /\ e.file \notin v.nested
    BY <1>1, <1>4, <1>7 DEF Good, Orderly, Walks
  <2>3. \A t \in Tables : \A e, g \in ToSet(v.buffer[t]) : e.file = g.file => e = g
    BY <1>4, <1>7, <2>1 DEF Good, Orderly, Walks
  <2> QED
    BY <2>2, <2>3 DEF Good, Orderly, Walks
<1>9. Current(v)
  BY <1>4, <1>7 DEF Good, Current
<1>10. Flagged(v)
  BY DEF Good, Flagged, After
<1>11. Covered(v)
  <2>1. \A g \in disk : TableOf[g] \in Tables
    BY BootScanAssumption DEF TypeInv, TypeOK, Files
  <2>2. \A g \in disk : InBuffer(w, TableOf[g], g) => InBuffer(v, TableOf[g], g)
    BY <1>5, <2>1 DEF InBuffer
  <2>3. InBuffer(v, TableOf[f], f)
    BY <1>6, <1>7 DEF InBuffer
  <2> QED
    BY <2>2, <2>3 DEF Good, Covered, Walks
<1> QED
  BY <1>8, <1>9, <1>10, <1>11 DEF Good

(* The file that readdir returned is off the lists. *)
LEMMA TakenPlaces ==
    ASSUME TypeInv, NEW s \in Scanners, Good(scan[s]), scan[s].phase = "walk", NEW f \in Pending(s)
    PROVE  LET w == scan[s]
               v == Taken(s, f)
           IN  /\ v.sawStop = w.sawStop /\ v.inNested = w.inNested /\ f \in w.todo \cup w.nested
               /\ v.todo \cup v.nested = (w.todo \cup w.nested) \ {f}
               /\ v.todo \subseteq w.todo /\ v.nested \subseteq w.nested
<1> DEFINE w == scan[s]  v == Taken(s, f)
<1>1. w \in Scan /\ w.todo \cap w.nested = {} /\ f \in w.todo \cup w.nested
      /\ (w.inNested => f \in w.nested) /\ (~w.inNested => f \in w.todo)
  BY DEF TypeInv, TypeOK, Good, Orderly, Walks, Pending
<1>2. /\ v.sawStop = w.sawStop /\ v.inNested = w.inNested
      /\ v.todo = (IF w.inNested THEN w.todo ELSE w.todo \ {f})
      /\ v.nested = (IF w.inNested THEN w.nested \ {f} ELSE w.nested)
  BY <1>1 DEF Taken, Scan
<1> HIDE DEF w, v
<1>3. /\ v.todo \cup v.nested = (w.todo \cup w.nested) \ {f}
      /\ v.todo \subseteq w.todo /\ v.nested \subseteq w.nested
  BY <1>1, <1>2
<1> QED
  BY <1>1, <1>2, <1>3 DEF w, v

(* The steps of the scan that leave the rows alone. *)
LEMMA FailStep ==
    ASSUME Inv, NEW s, Scanners = {s}, Fail(s), UNCHANGED <<rows, nextId, disk>>
    PROVE  Ids' /\ OneRow' /\ Good(scan[s])'
<1> DEFINE v == [Goto(s, "end") EXCEPT !.ok = FALSE]
<1>1. scan[s] \in Scan /\ Good(scan[s])
  BY DEF Inv, TypeInv, TypeOK
<1>2. v.phase = "end" /\ ~v.ok /\ v.buffer = scan[s].buffer
  BY <1>1 DEF Goto, Scan
<1>3. Becomes(s, v)
  BY DEF Fail
<1> HIDE DEF v
<1>4. Good(v)
  BY <1>1, <1>2, FailGood
<1> QED
  BY <1>3, <1>4, Kept

LEMMA OpenStep ==
    ASSUME Inv, NEW s, Scanners = {s}, OpenDir(s)
    PROVE  Ids' /\ OneRow' /\ Good(scan[s])'
<1> DEFINE w == scan[s]
           v == [w EXCEPT !.phase = "walk", !.todo = InDir(w.dir)]
<1>1. w \in Sane /\ Good(w) /\ w.phase = "open" /\ w.dir <= NumDirs
  BY DEF Inv, TypeInv, OpenDir
<1>2. Becomes(s, v) /\ UNCHANGED <<rows, nextId, disk>>
  BY Zenon DEF OpenDir
<1>3. InDir(w.dir) \in SUBSET Preset
  BY DEF InDir, Inv, TypeInv, TypeOK
<1> HIDE DEF w
<1>4. v \in Sane
  <2> DEFINE todo == InDir(w.dir)
  <2>1. todo \in SUBSET Preset
    BY <1>3
  <2> HIDE DEF todo
  <2>2. [w EXCEPT !.phase = "walk", !.todo = todo] \in Sane
    BY <1>1, <2>1 DEF Sane, Scan, Phases, Walks
  <2> QED
    BY <2>2 DEF todo
<1>5. /\ v.phase = "walk" /\ v.todo = InDir(w.dir) /\ v.dir = w.dir /\ v.buffer = w.buffer
      /\ v.nested = w.nested /\ v.skipped = w.skipped /\ v.sawStop = w.sawStop
  BY <1>1 DEF Sane, Scan
<1> HIDE DEF v
<1>6. Good(v)
  BY <1>1, <1>4, <1>5, OpenGood
<1> QED
  BY <1>2, <1>6, Kept

LEMMA PassOverStep ==
    ASSUME Inv, NEW s, Scanners = {s}, PassOverDir(s)
    PROVE  Ids' /\ OneRow' /\ Good(scan[s])'
<1> DEFINE w == scan[s]
           lost == w.skipped \cup InDir(w.dir)
           next == w.dir + 1
           v == [w EXCEPT !.dir = next, !.skipped = lost]
<1>1. w \in Sane /\ Good(w) /\ TypeInv /\ w.phase = "open" /\ w.dir <= NumDirs
  BY DEF Inv, TypeInv, PassOverDir
<1>2. Becomes(s, v) /\ UNCHANGED <<rows, nextId, disk>>
  BY DEF PassOverDir
<1>3. lost \in SUBSET Preset
  BY <1>1 DEF InDir, TypeInv, TypeOK, Sane, Scan
<1>4. next \in 1 .. NumDirs + 1
  BY <1>1, BootScanAssumption DEF Sane, Scan
<1>5. lost = w.skipped \cup InDir(w.dir) /\ next = w.dir + 1
  OBVIOUS
<1> HIDE DEF w, lost, next
<1>6. /\ v \in Sane /\ v.phase = "open" /\ v.dir = next /\ v.buffer = w.buffer
      /\ v.nested = w.nested /\ v.skipped = lost /\ v.sawStop = w.sawStop
  BY <1>1, <1>3, <1>4 DEF Sane, Scan, Walks
<1> HIDE DEF v
<1>7. Good(v)
  BY <1>1, <1>5, <1>6, PassOverGood
<1> QED
  BY <1>2, <1>7, Kept

LEMMA GotoShape ==
    ASSUME TypeInv, NEW s \in Scanners, NEW phase \in Phases
    PROVE  LET w == scan[s]
               v == Goto(s, phase)
           IN  /\ v.phase = phase /\ v.table = 1 /\ v.dir = w.dir /\ v.todo = w.todo
               /\ v.inNested = w.inNested /\ v.nested = w.nested /\ v.buffer = w.buffer
               /\ v.ok = w.ok /\ v.skipped = w.skipped /\ v.sawStop = w.sawStop
<1>1. scan[s] \in Scan
  BY DEF TypeInv, TypeOK
<1> QED
  BY <1>1 DEF Goto, Scan

LEMMA GotoStep ==
    ASSUME Inv, NEW s, Scanners = {s},
           AllDirsWalked(s) \/ DirWalked(s) \/ FlushFails(s) \/ UpdateDefaultTone(s)
    PROVE  Ids' /\ OneRow' /\ Good(scan[s])'
<1> DEFINE w == scan[s]
<1>1. w \in Sane /\ Good(w) /\ TypeInv /\ UNCHANGED <<rows, nextId, disk>>
  BY DEF Inv, TypeInv, AllDirsWalked, DirWalked, FlushFails, UpdateDefaultTone
<1>2. ASSUME NEW phase \in Phases, phase \in Walks => w.dir <= NumDirs
      PROVE  /\ Goto(s, phase) \in Sane
             /\ Goto(s, phase).phase = phase /\ Goto(s, phase).table = 1 /\ Goto(s, phase).dir = w.dir
             /\ Goto(s, phase).todo = w.todo /\ Goto(s, phase).inNested = w.inNested
             /\ Goto(s, phase).nested = w.nested /\ Goto(s, phase).buffer = w.buffer
             /\ Goto(s, phase).ok = w.ok /\ Goto(s, phase).skipped = w.skipped
             /\ Goto(s, phase).sawStop = w.sawStop
  BY <1>1, <1>2, MoveTyped, GotoShape
<1> SUFFICES Ids' /\ OneRow' /\ Good(scan[s])'
  OBVIOUS
<1>3. CASE AllDirsWalked(s)
  <2> DEFINE v == Goto(s, "default")
  <2>1. w.phase = "open" /\ w.dir > NumDirs /\ Becomes(s, v)
    BY <1>3 DEF AllDirsWalked
  <2>2. /\ v \in Sane /\ v.phase = "default" /\ v.nested = w.nested /\ v.buffer = w.buffer
        /\ v.skipped = w.skipped /\ v.sawStop = w.sawStop
    BY <1>2 DEF Phases, Walks
  <2> HIDE DEF v, w
  <2>3. Good(v)
    BY <1>1, <2>1, <2>2, WalkedGood
  <2> QED
    BY <1>1, <2>1, <2>3, Kept
<1>4. CASE DirWalked(s)
  <2> DEFINE v == Goto(s, "commit")
  <2>1. w.phase = "walk" /\ ~w.inNested /\ w.todo = {} /\ Becomes(s, v)
    BY <1>4 DEF DirWalked
  <2>2. /\ v \in Sane /\ v.phase = "commit" /\ v.table = 1 /\ v.dir = w.dir /\ v.todo = w.todo
        /\ v.inNested = w.inNested /\ v.nested = w.nested /\ v.buffer = w.buffer
        /\ v.skipped = w.skipped /\ v.sawStop = w.sawStop
    BY <1>1, <1>2, <2>1 DEF Phases, Sane, Walks
  <2> HIDE DEF v, w
  <2>3. Good(v)
    BY <1>1, <2>1, <2>2, CommitGood
  <2> QED
    BY <1>1, <2>1, <2>3, Kept
<1>5. CASE FlushFails(s)
  <2> DEFINE v == Goto(s, "walk")
  <2>1. w.phase = "flush" /\ Becomes(s, v)
    BY <1>5 DEF FlushFails
  <2>2. /\ v \in Sane /\ v.phase = "walk" /\ v.dir = w.dir /\ v.todo = w.todo /\ v.ok = w.ok
        /\ v.inNested = w.inNested /\ v.nested = w.nested /\ v.buffer = w.buffer
        /\ v.skipped = w.skipped /\ v.sawStop = w.sawStop
    BY <1>1, <1>2, <2>1 DEF Phases, Sane, Walks
  <2> HIDE DEF v, w
  <2>3. Good(v)
    BY <1>1, <2>1, <2>2, KeptGood
  <2> QED
    BY <1>1, <2>1, <2>3, Kept
<1>6. CASE UpdateDefaultTone(s)
  <2>1. CASE Fail(s)
    BY <1>1, <2>1, FailStep
  <2>2. CASE Becomes(s, Goto(s, "delete"))
    <3> DEFINE v == Goto(s, "delete")
    <3>1. w.phase = "default" /\ Becomes(s, v)
      BY <1>6, <2>2 DEF UpdateDefaultTone
    <3>2. /\ v \in Sane /\ v.phase = "delete" /\ v.table = 1 /\ v.dir = w.dir
          /\ v.nested = w.nested /\ v.buffer = w.buffer
          /\ v.skipped = w.skipped /\ v.sawStop = w.sawStop
      BY <1>2 DEF Phases, Walks
    <3> HIDE DEF v, w
    <3>3. Good(v)
      BY <1>1, <3>1, <3>2, DefaultGood
    <3> QED
      BY <1>1, <3>1, <3>3, Kept
  <2> QED
    BY <1>6, <2>1, <2>2 DEF UpdateDefaultTone
<1> QED
  BY <1>3, <1>4, <1>5, <1>6

LEMMA SubdirStep ==
    ASSUME Inv, NEW s, Scanners = {s},
           \/ EnterNested(s) \/ EnterNestedFails(s) \/ LeaveNested(s) \/ SeeStop(s) \/ ReadFileFails(s)
           \/ ReaddirFails(s)
    PROVE  Ids' /\ OneRow' /\ Good(scan[s])'
<1> DEFINE w == scan[s]
<1>1. w \in Sane /\ Good(w) /\ TypeInv /\ UNCHANGED <<rows, nextId, disk>> /\ w.phase = "walk"
  BY DEF Inv, TypeInv, EnterNested, EnterNestedFails, LeaveNested, SeeStop, ReadFileFails, ReaddirFails
<1>2. ~w.inNested => w.nested = {}
  BY <1>1 DEF Good, Orderly, Walks
<1>3. w.todo \cap w.nested = {}
  BY <1>1 DEF Good, Orderly, Walks
<1> SUFFICES Ids' /\ OneRow' /\ Good(scan[s])'
  OBVIOUS
<1>4. CASE EnterNested(s)
  <2> DEFINE v == [w EXCEPT !.inNested = TRUE, !.nested = w.todo \cap Nested, !.todo = w.todo \ Nested]
  <2>1. Becomes(s, v) /\ ~w.inNested
    BY <1>4 DEF EnterNested
  <2> HIDE DEF w
  <2>2. /\ v \in Sane /\ v.phase = "walk" /\ v.dir = w.dir /\ v.buffer = w.buffer /\ v.inNested
        /\ v.nested = w.todo \cap Nested /\ v.todo = w.todo \ Nested
        /\ v.skipped = w.skipped /\ v.sawStop = w.sawStop
    BY <1>1 DEF Sane, Scan
  <2> HIDE DEF v
  <2>3. v.todo \cup v.nested = w.todo \cup w.nested /\ v.todo \cap v.nested = {}
    BY <1>2, <2>1, <2>2
  <2>4. Good(v)
    BY <1>1, <2>2, <2>3, SplitGood
  <2> QED
    BY <1>1, <2>1, <2>4, Kept
<1>5. CASE EnterNestedFails(s)
  <2> DEFINE v == [w EXCEPT !.skipped = w.skipped \cup (w.todo \cap Nested), !.todo = w.todo \ Nested]
  <2>1. Becomes(s, v) /\ ~w.inNested
    BY <1>5 DEF EnterNestedFails
  <2> HIDE DEF w
  <2>2. /\ v \in Sane /\ v.phase = "walk" /\ v.dir = w.dir /\ v.buffer = w.buffer
        /\ v.inNested = w.inNested /\ v.nested = w.nested /\ v.todo = w.todo \ Nested
        /\ v.skipped = w.skipped \cup (w.todo \cap Nested) /\ v.sawStop = w.sawStop
    BY <1>1 DEF Sane, Scan
  <2> HIDE DEF v
  <2>3. /\ v.todo \cup v.nested \subseteq w.todo \cup w.nested /\ v.todo \cap v.nested = {}
        /\ (w.todo \cup w.nested) \ (v.todo \cup v.nested) \subseteq v.skipped
        /\ w.skipped \subseteq v.skipped /\ (~v.inNested => v.nested = {})
    BY <1>2, <2>1, <2>2
  <2>4. Good(v)
    BY <1>1, <2>2, <2>3, SplitGood
  <2> QED
    BY <1>1, <2>1, <2>4, Kept
<1>6. CASE LeaveNested(s)
  <2> DEFINE v == [w EXCEPT !.inNested = FALSE]
  <2>1. Becomes(s, v) /\ w.nested = {}
    BY <1>6 DEF LeaveNested
  <2> HIDE DEF w
  <2>2. /\ v \in Sane /\ v.phase = "walk" /\ v.dir = w.dir /\ v.buffer = w.buffer /\ ~v.inNested
        /\ v.nested = w.nested /\ v.todo = w.todo /\ v.skipped = w.skipped /\ v.sawStop = w.sawStop
    BY <1>1 DEF Sane, Scan
  <2> HIDE DEF v
  <2>3. Good(v)
    BY <1>1, <1>3, <2>1, <2>2, SplitGood
  <2> QED
    BY <1>1, <2>1, <2>3, Kept
<1>7. CASE SeeStop(s)
  <2>1. CASE w.inNested
    <3> DEFINE v == [w EXCEPT !.inNested = FALSE, !.nested = {}, !.sawStop = TRUE]
    <3>1. Becomes(s, v)
      BY <1>7, <2>1 DEF SeeStop
    <3> HIDE DEF w
    <3>2. /\ v \in Sane /\ v.phase = "walk" /\ v.dir = w.dir /\ v.buffer = w.buffer /\ ~v.inNested
          /\ v.nested = {} /\ v.todo = w.todo /\ v.skipped = w.skipped /\ v.sawStop
      BY <1>1 DEF Sane, Scan
    <3> HIDE DEF v
    <3>3. Good(v)
      BY <1>1, <3>2, SplitGood
    <3> QED
      BY <1>1, <3>1, <3>3, Kept
  <2>2. CASE ~w.inNested
    <3> DEFINE v == [Goto(s, "end") EXCEPT !.ok = FALSE, !.sawStop = TRUE]
    <3>1. Becomes(s, v)
      BY <1>7, <2>2 DEF SeeStop
    <3>2. v.phase = "end" /\ ~v.ok /\ v.buffer = w.buffer
      BY <1>1 DEF Goto, Sane, Scan
    <3> HIDE DEF v, w
    <3>3. Good(v)
      BY <1>1, <3>2, FailGood
    <3> QED
      BY <1>1, <3>1, <3>3, Kept
  <2> QED
    BY <2>1, <2>2
<1>8. CASE ReaddirFails(s)
  <2>1. CASE w.inNested
    <3> DEFINE v == [w EXCEPT !.inNested = FALSE, !.nested = {}, !.skipped = w.skipped \cup w.nested]
    <3>1. Becomes(s, v)
      BY <1>8, <2>1 DEF ReaddirFails
    <3>2. w.skipped \cup w.nested \in SUBSET Preset
      BY <1>1 DEF Sane, Scan
    <3> HIDE DEF w
    <3>3. /\ v \in Sane /\ v.phase = "walk" /\ v.dir = w.dir /\ v.buffer = w.buffer /\ ~v.inNested
          /\ v.nested = {} /\ v.todo = w.todo /\ v.skipped = w.skipped \cup w.nested /\ v.sawStop = w.sawStop
      BY <1>1, <3>2 DEF Sane, Scan
    <3> HIDE DEF v
    <3>4. /\ v.todo \cup v.nested \subseteq w.todo \cup w.nested /\ v.todo \cap v.nested = {}
          /\ (w.todo \cup w.nested) \ (v.todo \cup v.nested) \subseteq v.skipped
          /\ w.skipped \subseteq v.skipped
      BY <3>3
    <3>5. Good(v)
      BY <1>1, <3>3, <3>4, SplitGood
    <3> QED
      BY <1>1, <3>1, <3>5, Kept
  <2>2. CASE ~w.inNested
    <3> DEFINE moved == Goto(s, "commit")
               lost == w.skipped \cup w.todo
               cut == [w EXCEPT !.todo = {}, !.skipped = lost]
               v == [moved EXCEPT !.todo = {}, !.skipped = moved.skipped \cup w.todo]
    <3>1. Becomes(s, v)
      BY <1>8, <2>2 DEF ReaddirFails
    <3>2. lost \in SUBSET Preset /\ w.dir <= NumDirs
      BY <1>1 DEF Sane, Scan, Walks
    <3>3. /\ moved \in Sane /\ moved.phase = "commit" /\ moved.table = 1 /\ moved.dir = w.dir
          /\ moved.inNested = w.inNested /\ moved.nested = w.nested /\ moved.buffer = w.buffer
          /\ moved.skipped = w.skipped /\ moved.sawStop = w.sawStop
      BY <1>1, <3>2, MoveTyped, GotoShape DEF Phases
    <3>4. lost = w.skipped \cup w.todo
      OBVIOUS
    <3> HIDE DEF w, moved, lost
    <3>5. /\ cut \in Sane /\ cut.phase = "walk" /\ cut.dir = w.dir /\ cut.buffer = w.buffer
          /\ cut.inNested = w.inNested /\ cut.nested = w.nested /\ cut.todo = {}
          /\ cut.skipped = lost /\ cut.sawStop = w.sawStop
      BY <1>1, <3>2 DEF Sane, Scan
    <3>6. /\ v \in Sane /\ v.phase = "commit" /\ v.table = 1 /\ v.dir = w.dir /\ v.buffer = w.buffer
          /\ v.inNested = w.inNested /\ v.nested = w.nested /\ v.todo = {}
          /\ v.skipped = lost /\ v.sawStop = w.sawStop
      BY <3>2, <3>3, <3>4 DEF Sane, Scan
    <3> HIDE DEF cut, v
    <3>7. /\ cut.todo \cup cut.nested \subseteq w.todo \cup w.nested /\ cut.todo \cap cut.nested = {}
          /\ (w.todo \cup w.nested) \ (cut.todo \cup cut.nested) \subseteq cut.skipped
          /\ w.skipped \subseteq cut.skipped /\ (~cut.inNested => cut.nested = {})
      BY <1>2, <2>2, <3>4, <3>5
    <3>8. Good(cut)
      BY <1>1, <3>5, <3>7, SplitGood
    <3>9. Good(v)
      BY <2>2, <3>5, <3>6, <3>8, CommitGood
    <3> QED
      BY <1>1, <3>1, <3>9, Kept
  <2> QED
    BY <2>1, <2>2
<1>9. CASE ReadFileFails(s)
  <2>1. PICK f \in Pending(s) : Becomes(s, [Taken(s, f) EXCEPT !.skipped = @ \cup {f}])
    BY <1>9 DEF ReadFileFails
  <2> DEFINE taken == Taken(s, f)
             v == [taken EXCEPT !.skipped = taken.skipped \cup {f}]
  <2>2. /\ taken \in Sane /\ taken.phase = w.phase /\ taken.dir = w.dir /\ taken.buffer = w.buffer
        /\ taken.skipped = w.skipped
        /\ taken.sawStop = w.sawStop /\ taken.inNested = w.inNested
        /\ taken.todo \cup taken.nested = (w.todo \cup w.nested) \ {f}
        /\ taken.todo \subseteq w.todo /\ taken.nested \subseteq w.nested
    BY <1>1, <2>1, TakenTyped, TakenPlaces
  <2>3. Becomes(s, v) /\ f \in Preset
    BY <1>1, <2>1 DEF Pending, Sane, Scan
  <2> HIDE DEF w, taken
  <2>4. /\ v \in Sane /\ v.phase = "walk" /\ v.dir = w.dir /\ v.buffer = w.buffer
        /\ v.inNested = w.inNested /\ v.nested = taken.nested /\ v.todo = taken.todo
        /\ v.skipped = w.skipped \cup {f} /\ v.sawStop = w.sawStop
    BY <1>1, <2>2, <2>3 DEF Sane, Scan
  <2> HIDE DEF v
  <2>5. /\ v.todo \cup v.nested \subseteq w.todo \cup w.nested /\ v.todo \cap v.nested = {}
        /\ (w.todo \cup w.nested) \ (v.todo \cup v.nested) \subseteq v.skipped
        /\ w.skipped \subseteq v.skipped /\ (~v.inNested => v.nested = {})
    BY <1>2, <1>3, <2>2, <2>4
  <2>6. Good(v)
    BY <1>1, <2>4, <2>5, SplitGood
  <2> QED
    BY <1>1, <2>3, <2>6, Kept
<1> QED
  BY <1>4, <1>5, <1>6, <1>7, <1>8, <1>9

LEMMA Appended ==
    ASSUME NEW S, NEW q \in Seq(S), NEW e \in S
    PROVE  ToSet(Append(q, e)) = ToSet(q) \cup {e}
<1>1. /\ Append(q, e) \in Seq(S) /\ Len(Append(q, e)) = Len(q) + 1 /\ Len(q) \in Nat
      /\ \A i \in 1 .. Len(q) : Append(q, e)[i] = q[i]
      /\ Append(q, e)[Len(q) + 1] = e
  OBVIOUS
<1>2. DOMAIN q = 1 .. Len(q) /\ DOMAIN Append(q, e) = 1 .. Len(q) + 1
  BY <1>1
<1> QED
  BY <1>1, <1>2 DEF ToSet

LEMMA ReadStep ==
    ASSUME Inv, NEW s, Scanners = {s}, ReadFile(s)
    PROVE  Ids' /\ OneRow' /\ Good(scan[s])'
<1> DEFINE w == scan[s]
<1>1. w \in Sane /\ Good(w) /\ TypeInv /\ Ids /\ UNCHANGED <<rows, nextId, disk>> /\ w.phase = "walk"
  BY DEF Inv, TypeInv, ReadFile
<1>2. PICK f \in Pending(s) : f \in Preset /\ Becomes(s, AfterRead(s, f))
  BY <1>1, Reads, Zenon
<1> DEFINE v == AfterRead(s, f)
           taken == Taken(s, f)
           more == Buffered(s, f)
<1>3. /\ taken \in Sane /\ taken.phase = w.phase /\ taken.dir = w.dir /\ taken.buffer = w.buffer
      /\ taken.skipped = w.skipped
      /\ taken.sawStop = w.sawStop /\ taken.inNested = w.inNested /\ f \in w.todo \cup w.nested
      /\ taken.todo \cup taken.nested = (w.todo \cup w.nested) \ {f}
      /\ taken.todo \subseteq w.todo /\ taken.nested \subseteq w.nested
  BY <1>1, <1>2, TakenTyped, TakenPlaces
<1>4. v \in Sane
  BY <1>1, <1>2, ReadShape
<1>5. more \in Seq(Entry) /\ TableOf[f] \in Tables
  BY <1>1, <1>2, BufferedTyped
<1>6. ToSet(more) = ToSet(w.buffer[TableOf[f]]) \cup {NewEntry(f)}
  <2>1. w.buffer[TableOf[f]] \in Seq(Entry)
    BY <1>1, <1>5, Batches DEF TypeInv, TypeOK
  <2>2. NewEntry(f) \in Entry
    BY <1>1, <1>2, EntryTyped DEF TypeInv, TypeOK
  <2> DEFINE q == w.buffer[TableOf[f]]  e == NewEntry(f)
  <2>3. more = Append(q, e)
    BY DEF Buffered
  <2> HIDE DEF q, e, more
  <2>4. q \in Seq(Entry) /\ e \in Entry
    BY <2>1, <2>2 DEF q, e
  <2>5. ToSet(Append(q, e)) = ToSet(q) \cup {e}
    BY <2>4, Appended
  <2> QED
    BY <2>3, <2>5 DEF q, e
<1> HIDE DEF w, taken, more
<1>7. v = [taken EXCEPT !.buffer = [taken.buffer EXCEPT ![TableOf[f]] = more],
                        !.phase = IF Len(more) >= MAX_BATCH_SIZE THEN "flush" ELSE "walk",
                        !.table = IF Len(more) >= MAX_BATCH_SIZE THEN TableOf[f] ELSE 1]
  BY DEF AfterRead, taken, more
<1> HIDE DEF v
<1>8. /\ v.phase \in {"walk", "flush"} /\ v.dir = w.dir /\ v.inNested = w.inNested
      /\ v.todo = taken.todo /\ v.nested = taken.nested /\ v.skipped = w.skipped /\ v.sawStop = w.sawStop
      /\ v.buffer = [w.buffer EXCEPT ![TableOf[f]] = more]
  BY <1>3, <1>7 DEF Sane, Scan
<1>9. \A t \in Tables : ToSet(v.buffer[t]) =
        IF t = TableOf[f] THEN ToSet(w.buffer[t]) \cup {NewEntry(f)} ELSE ToSet(w.buffer[t])
  <2>1. w.buffer \in [Tables -> Seq(Entry)]
    BY <1>1 DEF Sane, Scan
  <2>2. \A t \in Tables : v.buffer[t] = IF t = TableOf[f] THEN more ELSE w.buffer[t]
    BY <1>8, <2>1
  <2> QED
    BY <1>6, <2>2
<1>10. /\ f \in w.todo \cup w.nested /\ v.todo \cup v.nested = (w.todo \cup w.nested) \ {f}
       /\ v.todo \subseteq w.todo /\ v.nested \subseteq w.nested
  BY <1>3, <1>8
<1>11. Good(v)
  BY <1>1, <1>4, <1>8, <1>9, <1>10, ReadGood, Zenon
<1> QED
  BY <1>1, <1>2, <1>11, Kept DEF v

(* Before, after and between scans, and while somebody asks it to stop. *)
LEMMA OtherStep ==
    ASSUME Inv, NEW s, Scanners = {s}, StartScan(s) \/ SetStopFlag(s) \/ Crash(s) \/ EndScan(s)
    PROVE  Ids' /\ OneRow' /\ Good(scan[s])'
<1>1. scan[s] \in Sane /\ Good(scan[s]) /\ TypeInv /\ UNCHANGED <<rows, nextId, disk>>
  BY DEF Inv, TypeInv, StartScan, SetStopFlag, Crash, EndScan
<1>2. IdleScan \in Scan /\ IdleScan.phase = "idle" /\ IdleScan.table = 1 /\ IdleScan.dir = 1 /\ IdleScan.nested = {}
      /\ \A t \in Tables : ToSet(IdleScan.buffer[t]) = {}
  <2>1. ToSet(<<>>) = {}
    BY DEF ToSet
  <2> QED
    BY <2>1, IdleTyped DEF IdleScan
<1> HIDE DEF IdleScan
<1> SUFFICES Ids' /\ OneRow' /\ Good(scan[s])'
  OBVIOUS
<1>3. CASE StartScan(s)
  <2> DEFINE v == [IdleScan EXCEPT !.phase = "flags"]
  <2>1. Becomes(s, v)
    BY <1>3 DEF StartScan
  <2>2. v \in Scan /\ v.phase = "flags" /\ v.table = 1 /\ v.dir = 1 /\ v.nested = {} /\ v.buffer = IdleScan.buffer
    BY <1>2 DEF Scan, Phases
  <2> HIDE DEF v
  <2>3. Good(v)
    BY <1>1, <1>2, <2>2, StartGood
  <2> QED
    BY <1>1, <2>1, <2>3, Kept
<1>4. CASE SetStopFlag(s)
  <2> DEFINE w == scan[s]  v == [w EXCEPT !.stop = TRUE]
  <2>1. Becomes(s, v) /\ w \in Sane /\ Good(w)
    BY <1>1, <1>4 DEF SetStopFlag
  <2> HIDE DEF w
  <2>2. /\ v \in Sane /\ v.phase = w.phase /\ v.table = w.table /\ v.ok = w.ok /\ v.todo = w.todo
        /\ v.nested = w.nested /\ v.inNested = w.inNested /\ v.dir = w.dir /\ v.buffer = w.buffer
        /\ v.skipped = w.skipped /\ v.sawStop = w.sawStop
    BY <2>1 DEF Sane, Scan
  <2> HIDE DEF v
  <2>3. Good(v)
    <3>1. Orderly(v)
      BY <2>1, <2>2 DEF Good, Orderly, Walks
    <3>2. Current(v)
      BY <2>1, <2>2 DEF Good, Current
    <3>3. Flagged(v)
      BY <2>1, <2>2 DEF Good, Flagged, After
    <3>4. Covered(v)
      BY <2>1, <2>2 DEF Good, Covered, Walks, InBuffer
    <3> QED
      BY <3>1, <3>2, <3>3, <3>4 DEF Good
  <2> QED
    BY <1>1, <2>1, <2>3, Kept
<1>5. CASE Crash(s)
  BY <1>1, <1>5, IdleGood, Kept DEF Crash
<1>6. CASE EndScan(s)
  <2> DEFINE v == [IdleScan EXCEPT !.sawStop = scan[s].sawStop, !.skipped = scan[s].skipped]
  <2>1. Becomes(s, v)
    BY <1>6, Zenon DEF EndScan
  <2>2. v \in Scan /\ v.phase = "idle" /\ v.table = 1 /\ v.dir = 1 /\ v.nested = {} /\ v.buffer = IdleScan.buffer
    <3>1. scan[s].sawStop \in BOOLEAN /\ scan[s].skipped \in SUBSET Preset
      BY <1>1 DEF Sane, Scan
    <3> QED
      BY <1>2, <3>1 DEF Scan
  <2> HIDE DEF v
  <2>3. Good(v)
    BY <1>1, <1>2, <2>2, StartGood
  <2> QED
    BY <1>1, <2>1, <2>3, Kept
<1> QED
  BY <1>3, <1>4, <1>5, <1>6

(* The flags are reset. *)
LEMMA FlagsStep ==
    ASSUME Inv, NEW s, Scanners = {s}, ResetFlags(s)
    PROVE  Ids' /\ OneRow' /\ Good(scan[s])'
<1> DEFINE w == scan[s]  v == NextTableOr(s, "open")
           New(r) == IF TableOf[r.file] = w.table THEN [r EXCEPT !.flag = 0] ELSE r
<1>1. w \in Sane /\ Good(w) /\ TypeInv /\ Ids /\ OneRow /\ w.phase = "flags" /\ UNCHANGED <<nextId, disk>>
  BY DEF Inv, TypeInv, ResetFlags
<1>2. Becomes(s, v) /\ rows' = {New(r) : r \in rows}
  BY Zenon DEF ResetFlags
<1>3. scan'[s] = v
  BY <1>2, Became DEF Inv, TypeInv, TypeOK
<1>4. \A r \in rows : /\ New(r).id = r.id /\ New(r).file = r.file
                      /\ New(r).flag = (IF TableOf[r.file] = w.table THEN 0 ELSE r.flag)
                      /\ TableOf[r.file] \in Tables /\ r.flag \in {0, 1}
  BY <1>1, BootScanAssumption DEF TypeInv, TypeOK, Row
<1>5. \A q \in rows' : \E r \in rows : q = New(r)
  BY <1>2
<1> HIDE DEF New
<1>6. Ids' /\ OneRow'
  BY <1>1, <1>4, <1>5 DEF Ids, OneRow
<1> HIDE DEF w
<1>7. /\ v.buffer = w.buffer /\ v.nested = w.nested /\ v.dir = w.dir
      /\ IF w.table < NumTables THEN v.phase = "flags" /\ v.table = w.table + 1
                                ELSE v.phase = "open" /\ v.table = 1
  BY <1>1 DEF NextTableOr, Goto, Sane, Scan, w
<1> HIDE DEF v
<1>8. \A t \in Tables : ToSet(v.buffer[t]) = {}
  BY <1>1, <1>7 DEF Good, Orderly, Walks
<1>9. w.nested = {} /\ w.table \in Tables /\ w.dir \in 1 .. NumDirs + 1
  BY <1>1 DEF Good, Orderly, Sane, Scan
<1>10. v.phase = "flags" => \A q \in rows' : TableOf[q.file] < v.table => q.flag = 0
  <2>1. ASSUME NEW r \in rows, v.phase = "flags", TableOf[r.file] < v.table PROVE New(r).flag = 0
    <3>1. TableOf[r.file] < w.table \/ TableOf[r.file] = w.table
      BY <1>4, <1>7, <1>9, <2>1, BootScanAssumption DEF Tables
    <3>2. TableOf[r.file] < w.table => r.flag = 0
      BY <1>1 DEF Good, Flagged
    <3> QED
      BY <1>4, <3>1, <3>2
  <2> QED
    BY <1>4, <1>5, <2>1
<1>11. v.phase = "open" => \A q \in rows' : q.flag = 0
  <2>1. ASSUME NEW r \in rows, v.phase = "open" PROVE New(r).flag = 0
    <3>1. TableOf[r.file] < w.table \/ TableOf[r.file] = w.table
      BY <1>4, <1>7, <1>9, <2>1, BootScanAssumption DEF Tables
    <3>2. TableOf[r.file] < w.table => r.flag = 0
      BY <1>1 DEF Good, Flagged
    <3> QED
      BY <1>4, <3>1, <3>2
  <2> QED
    BY <1>4, <1>5, <2>1
<1>12. v.dir = 1 /\ \A f \in disk : ~(DirOf[f] < v.dir)
  <2>1. v.dir = 1
    BY <1>1, <1>7 DEF Good, Orderly
  <2>2. \A f \in disk : DirOf[f] \in 1 .. NumDirs
    BY <1>1, BootScanAssumption DEF TypeInv, TypeOK
  <2> QED
    BY <2>1, <2>2, BootScanAssumption
<1>13. v.phase \in {"flags", "open"}
  BY <1>7
<1>14. Orderly(scan[s])'
  BY <1>3, <1>7, <1>8, <1>9, <1>12, <1>13 DEF Orderly, Walks
<1>15. Current(scan[s])'
  BY <1>3, <1>8 DEF Current
<1>16. Flagged(scan[s])'
  BY <1>3, <1>10, <1>11, <1>13 DEF Flagged, After
<1>17. Covered(scan[s])'
  <2>1. \A f \in disk' : ~(DirOf[f] < v.dir)
    BY <1>1, <1>12
  <2>2. v.phase \notin Walks /\ v.phase \notin {"default", "delete", "end"}
    BY <1>13 DEF Walks
  <2> QED
    BY <1>3, <2>1, <2>2 DEF Covered
<1> QED
  BY <1>6, <1>14, <1>15, <1>16, <1>17 DEF Good

(* A batch is written, in part perhaps: the scan goes on with the buffer of the table empty. *)
LEMMA BatchShape ==
    ASSUME TypeInv, NEW s \in Scanners, scan[s].phase \in {"flush", "commit"}, NEW lost \in SUBSET Preset
    PROVE  LET w == scan[s]
               v == AfterBatch(s, lost)
           IN  /\ v.todo = w.todo /\ v.nested = w.nested /\ v.inNested = w.inNested /\ v.ok = w.ok
               /\ v.sawStop = w.sawStop /\ v.skipped = w.skipped \cup lost
               /\ \A t \in Tables : v.buffer[t] = IF t = w.table THEN <<>> ELSE w.buffer[t]
               /\ \/ w.phase = "flush" /\ v.phase = "walk" /\ v.dir = w.dir
                  \/ w.phase = "commit" /\ v.phase = "commit" /\ v.dir = w.dir /\ v.table = w.table + 1
                  \/ w.phase = "commit" /\ v.phase = "open" /\ v.dir = w.dir + 1 /\ w.table = NumTables
<1> DEFINE w == scan[s]  v == AfterBatch(s, lost)
           next == IF w.phase = "flush" THEN Goto(s, "walk") ELSE NextTableOr(s, "open")
<1>1. w \in Scan /\ w.phase \in {"flush", "commit"} /\ w.table \in Tables
  BY DEF TypeInv, TypeOK, Scan
<1>2. /\ next \in Scan
      /\ next.todo = w.todo /\ next.nested = w.nested /\ next.inNested = w.inNested /\ next.ok = w.ok
      /\ next.sawStop = w.sawStop /\ next.skipped = w.skipped /\ next.dir = w.dir /\ next.buffer = w.buffer
      /\ \/ w.phase = "flush" /\ next.phase = "walk"
         \/ w.phase = "commit" /\ next.phase = "commit" /\ next.table = w.table + 1
         \/ w.phase = "commit" /\ next.phase = "open" /\ w.table = NumTables
  <2>1. CASE w.phase = "flush"
    <3>1. next = [w EXCEPT !.phase = "walk", !.table = 1]
      BY <2>1 DEF Goto
    <3>2. 1 \in Tables
      BY BootScanAssumption DEF Tables
    <3> HIDE DEF next, w
    <3> QED
      BY <1>1, <2>1, <3>1, <3>2 DEF Scan, Phases
  <2>2. CASE w.phase = "commit" /\ w.table < NumTables
    <3>1. next = [w EXCEPT !.table = w.table + 1]
      BY <2>2 DEF NextTableOr
    <3>2. w.table + 1 \in Tables
      BY <1>1, <2>2, BootScanAssumption DEF Tables
    <3> HIDE DEF next, w
    <3> QED
      BY <1>1, <2>2, <3>1, <3>2 DEF Scan
  <2>3. CASE w.phase = "commit" /\ ~(w.table < NumTables)
    <3>1. next = [w EXCEPT !.phase = "open", !.table = 1]
      BY <2>3 DEF NextTableOr, Goto
    <3>2. w.table = NumTables /\ 1 \in Tables
      BY <1>1, <2>3, BootScanAssumption DEF Tables
    <3> HIDE DEF next, w
    <3> QED
      BY <1>1, <2>3, <3>1, <3>2 DEF Scan, Phases
  <2> QED
    BY <1>1, <2>1, <2>2, <2>3
<1>3. v = [next EXCEPT !.buffer = [next.buffer EXCEPT ![w.table] = <<>>],
                       !.skipped = next.skipped \cup lost,
                       !.dir = IF next.phase = "open" THEN next.dir + 1 ELSE next.dir]
  BY DEF AfterBatch
<1> HIDE DEF next, v, w
<1>4. /\ v.todo = next.todo /\ v.nested = next.nested /\ v.inNested = next.inNested /\ v.ok = next.ok
      /\ v.sawStop = next.sawStop /\ v.skipped = next.skipped \cup lost
      /\ v.phase = next.phase /\ v.table = next.table
      /\ v.dir = (IF next.phase = "open" THEN next.dir + 1 ELSE next.dir)
      /\ v.buffer = [next.buffer EXCEPT ![w.table] = <<>>]
  BY <1>2, <1>3 DEF Scan
<1>5. \A t \in Tables : v.buffer[t] = IF t = w.table THEN <<>> ELSE w.buffer[t]
  <2>1. w.buffer \in [Tables -> Seq(Entry)]
    BY <1>1 DEF Scan
  <2> QED
    BY <1>1, <1>2, <1>4, <2>1
<1>6. \/ w.phase = "flush" /\ v.phase = "walk" /\ v.dir = w.dir
      \/ w.phase = "commit" /\ v.phase = "commit" /\ v.dir = w.dir /\ v.table = w.table + 1
      \/ w.phase = "commit" /\ v.phase = "open" /\ v.dir = w.dir + 1 /\ w.table = NumTables
  BY <1>2, <1>4
<1>7. /\ v.todo = w.todo /\ v.nested = w.nested /\ v.inNested = w.inNested /\ v.ok = w.ok
      /\ v.sawStop = w.sawStop /\ v.skipped = w.skipped \cup lost
  BY <1>2, <1>4
<1> QED
  BY <1>5, <1>6, <1>7 DEF v, w

LEMMA WriteStep ==
    ASSUME Inv, NEW s, Scanners = {s}, Flush(s) \/ CommitTable(s)
    PROVE  Ids' /\ OneRow' /\ Good(scan[s])'
<1> DEFINE w == scan[s]  batch == ToSet(Batch(s))
<1>1. /\ w \in Sane /\ w \in Scan /\ Good(w) /\ TypeInv /\ Ids /\ OneRow /\ rows \subseteq Row /\ nextId \in Nat
      /\ w.phase \in {"flush", "commit"} /\ w.table \in Tables /\ WriteBatch(s) /\ disk' = disk
  BY DEF Inv, TypeInv, TypeOK, Flush, CommitTable, Sane, Scan
<1>2. PICK written \in SUBSET batch :
        Write(written) /\ Becomes(s, AfterBatch(s, {e.file : e \in batch \ written}))
  BY <1>1, BatchSteps, Zenon
<1>3. batch \subseteq Entry /\ batch = ToSet(w.buffer[w.table])
  BY <1>1, BatchSteps DEF Batch
<1> DEFINE lost == {e.file : e \in batch \ written}
           v == AfterBatch(s, lost)
<1>4. lost \in SUBSET Preset
  BY <1>3 DEF Entry
<1>5. scan'[s] = v
  BY <1>1, <1>2, Became DEF TypeInv, TypeOK
<1>6. \A e \in batch : e \in written \/ e.file \in lost
  OBVIOUS
<1> HIDE DEF batch, lost
<1>7. /\ v.todo = w.todo /\ v.nested = w.nested /\ v.inNested = w.inNested /\ v.ok = w.ok
      /\ v.sawStop = w.sawStop /\ v.skipped = w.skipped \cup lost
      /\ \A t \in Tables : v.buffer[t] = IF t = w.table THEN <<>> ELSE w.buffer[t]
      /\ \/ w.phase = "flush" /\ v.phase = "walk" /\ v.dir = w.dir
         \/ w.phase = "commit" /\ v.phase = "commit" /\ v.dir = w.dir /\ v.table = w.table + 1
         \/ w.phase = "commit" /\ v.phase = "open" /\ v.dir = w.dir + 1 /\ w.table = NumTables
  BY <1>1, <1>4, BatchShape
<1> HIDE DEF v, w
<1>8. \A e \in batch : e.file \in disk /\ DirOf[e.file] = w.dir /\ TableOf[e.file] = w.table
  BY <1>1, <1>3 DEF Good, Orderly, Walks
<1>9. Accurate(written)
  <2>1. \A e, f \in batch : e.file = f.file => e = f
    BY <1>1, <1>3 DEF Good, Orderly, Walks
  <2>2. \A e \in batch : IF e.id = 0 THEN RowsOf(e.file) = {} ELSE \E r \in RowsOf(e.file) : r.id = e.id
    BY <1>1, <1>3 DEF Good, Current
  <2> QED
    BY <1>2, <2>1, <2>2 DEF Accurate
<1>10. written \in SUBSET Entry
  BY <1>2, <1>3
<1>11. /\ rows' \subseteq Row /\ nextId' \in Nat /\ Ids' /\ OneRow'
       /\ \A e \in written : \E q \in rows' : q.file = e.file /\ q.flag = 1
       /\ \A r \in rows : \E q \in rows' : q.id = r.id /\ q.file = r.file /\ (r.flag = 1 => q.flag = 1)
       /\ \A q \in rows' :
            \/ \E r \in rows : r.id = q.id /\ r.file = q.file /\ r.flag = q.flag
            \/ \E e \in written : e.file = q.file /\ q.flag = 1
  BY <1>1, <1>2, <1>9, <1>10, WrittenRows
<1>12. \A t \in Tables : \A e \in ToSet(v.buffer[t]) : e \in ToSet(w.buffer[t]) /\ t # w.table
  <2>1. ToSet(<<>>) = {}
    BY DEF ToSet
  <2> QED
    BY <1>7, <2>1
<1>13. \A t \in Tables : t # w.table => v.buffer[t] = w.buffer[t]
  BY <1>7
<1>14. Orderly(scan[s])'
  <2>1. CASE v.phase = "walk"
    <3>1. \A t \in Tables : \A e \in ToSet(v.buffer[t]) :
            /\ e.file \in disk' /\ DirOf[e.file] = v.dir /\ TableOf[e.file] = t
            /\ e.file \notin v.todo /\ e.file \notin v.nested
      BY <1>1, <1>7, <1>12, <2>1 DEF Good, Orderly, Walks
    <3>2. \A t \in Tables : \A e, f \in ToSet(v.buffer[t]) : e.file = f.file => e = f
      BY <1>1, <1>12 DEF Good, Orderly, Walks
    <3>3. /\ \A f \in v.todo \cup v.nested : f \in disk' /\ DirOf[f] = v.dir
          /\ v.todo \cap v.nested = {}
          /\ ~v.inNested => v.nested = {}
      BY <1>1, <1>7, <2>1 DEF Good, Orderly, Walks
    <3> QED
      BY <1>5, <2>1, <3>1, <3>2, <3>3 DEF Orderly, Walks
  <2>2. CASE v.phase = "commit"
    <3>1. \A t \in Tables : \A e \in ToSet(v.buffer[t]) :
            /\ e.file \in disk' /\ DirOf[e.file] = v.dir /\ TableOf[e.file] = t
            /\ e.file \notin v.todo /\ e.file \notin v.nested
      <4>1. \A t \in Tables : \A e \in ToSet(w.buffer[t]) :
              /\ e.file \in disk /\ DirOf[e.file] = w.dir /\ TableOf[e.file] = t
              /\ e.file \notin w.todo /\ e.file \notin w.nested
        BY <1>1 DEF Good, Orderly, Walks
      <4>2. v.dir = w.dir /\ v.todo = w.todo /\ v.nested = w.nested
        BY <1>7, <2>2
      <4> QED
        BY <1>1, <1>12, <4>1, <4>2
    <3>2. \A t \in Tables : \A e, f \in ToSet(v.buffer[t]) : e.file = f.file => e = f
      BY <1>1, <1>12 DEF Good, Orderly, Walks
    <3>3. v.todo = {} /\ v.nested = {}
      BY <1>1, <1>7, <2>2 DEF Good, Orderly
    <3>4. \A t \in Tables : t < v.table => ToSet(v.buffer[t]) = {}
      <4>1. ASSUME NEW t \in Tables, t < v.table, t # w.table PROVE ToSet(w.buffer[t]) = {}
        <5>1. t < w.table
          BY <1>1, <1>7, <2>2, <4>1, BootScanAssumption DEF Tables
        <5> QED
          BY <1>1, <1>7, <2>2, <5>1 DEF Good, Orderly
      <4> QED
        BY <1>12, <4>1
    <3> QED
      BY <1>5, <2>2, <3>1, <3>2, <3>3, <3>4 DEF Orderly, Walks
  <2>3. CASE v.phase = "open"
    <3>1. v.nested = {}
      BY <1>1, <1>7, <2>3 DEF Good, Orderly
    <3>2. \A t \in Tables : ToSet(v.buffer[t]) = {}
      <4>1. ASSUME NEW t \in Tables, t # w.table PROVE ToSet(w.buffer[t]) = {}
        <5>1. t < w.table
          BY <1>1, <1>7, <2>3, <4>1, BootScanAssumption DEF Tables
        <5> QED
          BY <1>1, <1>7, <2>3, <5>1 DEF Good, Orderly
      <4> QED
        BY <1>12, <4>1
    <3> QED
      BY <1>5, <2>3, <3>1, <3>2 DEF Orderly, Walks
  <2> QED
    BY <1>7, <2>1, <2>2, <2>3
<1>15. Current(scan[s])'
  <2> SUFFICES ASSUME NEW t \in Tables, NEW e \in ToSet(v.buffer[t])
               PROVE  IF e.id = 0 THEN \A q \in rows' : q.file # e.file
                                  ELSE \E q \in rows' : q.file = e.file /\ q.id = e.id
    BY <1>5 DEF Current, RowsOf
  <2>1. e \in ToSet(w.buffer[t]) /\ t # w.table
    BY <1>12
  <2>2. TableOf[e.file] = t
    BY <1>1, <2>1 DEF Good, Orderly, Walks
  <2>3. CASE e.id = 0
    <3>1. \A r \in rows : r.file # e.file
      BY <1>1, <2>1, <2>3 DEF Good, Current, RowsOf
    <3>2. \A x \in written : x.file # e.file
      BY <1>2, <1>8, <2>1, <2>2
    <3> QED
      BY <1>11, <2>3, <3>1, <3>2
  <2>4. CASE e.id # 0
    <3>1. \E r \in rows : r.file = e.file /\ r.id = e.id
      BY <1>1, <2>1, <2>4 DEF Good, Current, RowsOf
    <3> QED
      BY <1>11, <2>4, <3>1
  <2> QED
    BY <2>3, <2>4
<1>16. Flagged(scan[s])'
  <2>1. \A r \in rows : r.flag = 1 => r.file \in disk
    BY <1>1 DEF Good, Flagged, After
  <2>2. \A q \in rows' : q.flag = 1 => q.file \in disk'
    BY <1>1, <1>2, <1>8, <1>11, <2>1
  <2>3. v.phase \in {"walk", "commit", "open"}
    BY <1>7
  <2> QED
    BY <1>5, <2>2, <2>3 DEF Flagged
<1>17. Covered(scan[s])'
  <2> SUFFICES ASSUME NEW f \in disk, f \notin v.skipped, ~v.sawStop
               PROVE  /\ DirOf[f] < v.dir => Done(f)'
                      /\ v.phase \in Walks /\ DirOf[f] = v.dir =>
                           f \in v.todo \/ f \in v.nested \/ InBuffer(v, TableOf[f], f) \/ Done(f)'
    <3>1. v.phase \in {"walk", "commit", "open"}
      BY <1>7
    <3> QED
      BY <1>1, <1>5, <3>1 DEF Covered, InBuffer
  <2>1. f \notin w.skipped /\ f \notin lost /\ ~w.sawStop
    BY <1>7
  <2>2. Done(f) => Done(f)'
    BY <1>11 DEF Done
  <2>3. TableOf[f] \in Tables /\ DirOf[f] \in 1 .. NumDirs
    BY <1>1, BootScanAssumption DEF TypeInv, TypeOK, Files
  <2>4. DirOf[f] < w.dir => Done(f)
    BY <1>1, <2>1 DEF Good, Covered, Walks
  <2>5. DirOf[f] = w.dir => f \in w.todo \/ f \in w.nested \/ InBuffer(w, TableOf[f], f) \/ Done(f)
    BY <1>1, <2>1 DEF Good, Covered, Walks
  <2>6. InBuffer(w, TableOf[f], f) => InBuffer(v, TableOf[f], f) \/ Done(f)'
    <3>1. CASE TableOf[f] = w.table
      <4>1. \A e \in batch : e.file = f => e \in written
        BY <1>6, <2>1
      <4> QED
        BY <1>3, <1>11, <3>1, <4>1 DEF InBuffer, Done
    <3>2. CASE TableOf[f] # w.table
      BY <1>13, <2>3, <3>2 DEF InBuffer
    <3> QED
      BY <3>1, <3>2
  <2>7. CASE v.dir = w.dir
    BY <1>7, <2>2, <2>4, <2>5, <2>6, <2>7
  <2>8. CASE w.phase = "commit" /\ v.phase = "open" /\ v.dir = w.dir + 1 /\ w.table = NumTables
    <3>1. ~InBuffer(v, TableOf[f], f)
      BY <1>14, <1>5, <2>3, <2>8 DEF Orderly, InBuffer, Walks
    <3>2. w.todo = {} /\ w.nested = {}
      BY <1>1, <2>8 DEF Good, Orderly
    <3>3. DirOf[f] < v.dir => DirOf[f] < w.dir \/ DirOf[f] = w.dir
      BY <1>1, <2>3, <2>8, BootScanAssumption DEF Sane, Scan
    <3> QED
      BY <2>2, <2>4, <2>5, <2>6, <2>8, <3>1, <3>2, <3>3 DEF Walks
  <2> QED
    BY <1>7, <2>7, <2>8
<1> QED
  BY <1>11, <1>14, <1>15, <1>16, <1>17 DEF Good

(* The rows of a table that are still unflagged are deleted: no file that is covered has one. *)
LEMMA Deleted ==
    ASSUME Inv, NEW s, Scanners = {s}, DeleteNotExist(s), NEW r \in rows, r \notin rows'
    PROVE  r.file \in Preset /\ (r.file \notin disk \/ Excused(r.file))
<1>1. Good(scan[s]) /\ OneRow /\ scan[s].phase = "delete"
  BY DEF Inv, DeleteNotExist
<1>2. r.file \in Preset /\ r.flag = 0
  BY DEF DeleteNotExist, NotExist
<1>3. ASSUME r.file \in disk, ~Excused(r.file) PROVE FALSE
  <2>1. Done(r.file)
    BY <1>1, <1>3 DEF Good, Covered, Excused
  <2>2. PICK q \in rows : q.file = r.file /\ q.flag = 1
    BY <2>1 DEF Done
  <2>3. q = r
    BY <1>1, <2>2 DEF OneRow
  <2> QED
    BY <1>2, <2>2, <2>3
<1> QED
  BY <1>2, <1>3

LEMMA DeleteStep ==
    ASSUME Inv, NEW s, Scanners = {s}, DeleteNotExist(s)
    PROVE  Ids' /\ OneRow' /\ Good(scan[s])'
<1> DEFINE w == scan[s]  v == NextTableOr(s, "end")
<1>1. /\ w \in Scan /\ Good(w) /\ TypeInv /\ Ids /\ OneRow /\ w.phase = "delete" /\ w.table \in Tables
      /\ UNCHANGED <<nextId, disk>> /\ rows \subseteq Row
  BY DEF Inv, TypeInv, TypeOK, DeleteNotExist, Scan
<1>2. Becomes(s, v) /\ rows' = rows \ NotExist(w.table)
  BY Zenon DEF DeleteNotExist
<1>3. scan'[s] = v
  BY <1>1, <1>2, Became DEF TypeInv, TypeOK
<1>4. /\ \A r \in rows' : r \in rows
      /\ \A r \in rows' : (TableOf[r.file] = w.table /\ r.file \in Preset) => r.flag # 0
      /\ \A r \in rows : r.flag # 0 => r \in rows'
  BY <1>2 DEF NotExist
<1>5. \A r \in rows : r.flag \in {0, 1} /\ TableOf[r.file] \in Tables
  BY <1>1, BootScanAssumption DEF Row
<1>6. Ids' /\ OneRow'
  BY <1>1, <1>4 DEF Ids, OneRow
<1> HIDE DEF w
<1>7. /\ v.buffer = w.buffer /\ v.nested = w.nested /\ v.skipped = w.skipped /\ v.sawStop = w.sawStop
      /\ IF w.table < NumTables THEN v.phase = "delete" /\ v.table = w.table + 1
                                ELSE v.phase = "end"
  BY <1>1 DEF NextTableOr, Goto, Scan, w
<1> HIDE DEF v
<1>8. v.phase \in {"delete", "end"}
  BY <1>7
<1>9. \A t \in Tables : ToSet(v.buffer[t]) = {}
  BY <1>1, <1>7 DEF Good, Orderly, Walks
<1>10. w.nested = {}
  BY <1>1 DEF Good, Orderly
<1>11. \A r \in rows' : r.file \in Preset /\ (TableOf[r.file] < w.table \/ TableOf[r.file] = w.table) => r.flag = 1
  BY <1>1, <1>4, <1>5 DEF Good, Flagged
<1>12. \A r \in rows' : r.flag = 1 => r.file \in disk'
  BY <1>1, <1>4 DEF Good, Flagged, After
<1>13. v.phase = "delete" => \A r \in rows' : (r.file \in Preset /\ TableOf[r.file] < v.table) => r.flag = 1
  <2>1. v.phase = "delete" => \A r \in rows' : TableOf[r.file] < v.table =>
                                TableOf[r.file] < w.table \/ TableOf[r.file] = w.table
    BY <1>1, <1>4, <1>5, <1>7, BootScanAssumption DEF Tables
  <2> QED
    BY <1>11, <2>1
<1>14. v.phase = "end" => \A r \in rows' : r.file \in Preset => r.flag = 1
  <2>1. v.phase = "end" => \A r \in rows' : TableOf[r.file] < w.table \/ TableOf[r.file] = w.table
    BY <1>1, <1>4, <1>5, <1>7, BootScanAssumption DEF Tables
  <2> QED
    BY <1>11, <2>1
<1>15. \A f \in disk : f \notin v.skipped /\ ~v.sawStop => Done(f)'
  <2>1. \A f \in disk : f \notin v.skipped /\ ~v.sawStop => Done(f)
    BY <1>1, <1>7 DEF Good, Covered
  <2>2. \A f : Done(f) => Done(f)'
    BY <1>4 DEF Done
  <2> QED
    BY <2>1, <2>2
<1>16. Orderly(scan[s])'
  BY <1>3, <1>7, <1>8, <1>9, <1>10 DEF Orderly, Walks
<1>17. Current(scan[s])'
  BY <1>3, <1>9 DEF Current
<1>18. Flagged(scan[s])'
  BY <1>3, <1>8, <1>12, <1>13, <1>14 DEF Flagged
<1>19. Covered(scan[s])'
  BY <1>1, <1>3, <1>8, <1>15 DEF Covered, Walks
<1> QED
  BY <1>6, <1>16, <1>17, <1>18, <1>19 DEF Good

LEMMA InitInv == ASSUME NEW s, Scanners = {s} PROVE Init => Inv
<1> SUFFICES ASSUME Init PROVE Inv
  OBVIOUS
<1>1. TypeInv
  BY InitTyped
<1>2. Good(scan[s])
  <2>1. scan[s] = IdleScan
    BY Zenon DEF Init
  <2> QED
    BY <2>1, IdleGood
<1>3. PICK known \in SUBSET Preset :
        /\ rows = {[id |-> i, file |-> SetToSeq(Customised \cup known)[i], flag |-> 1] :
                     i \in 1 .. Len(SetToSeq(Customised \cup known))}
        /\ nextId = Len(SetToSeq(Customised \cup known)) + 1
  BY Zenon DEF Init
<1> DEFINE all == SetToSeq(Customised \cup known)
<1>4. Len(all) \in Nat /\ \A i, j \in 1 .. Len(all) : all[i] = all[j] => i = j
  <2> DEFINE S == Customised \cup known
  <2>1. IsFiniteSet(S)
    BY BootScanAssumption, FS_Subset, FS_Union
  <2> HIDE DEF S
  <2>2. Len(SetToSeq(S)) \in Nat
        /\ \A i, j \in 1 .. Len(SetToSeq(S)) : SetToSeq(S)[i] = SetToSeq(S)[j] => i = j
    BY <2>1, Listed
  <2> QED
    BY <2>2 DEF S
<1>5. rows = {[id |-> i, file |-> all[i], flag |-> 1] : i \in 1 .. Len(all)} /\ nextId = Len(all) + 1
  BY <1>3
<1> HIDE DEF all
<1>6. Ids /\ OneRow
  <2>1. \A r \in rows : \E i \in 1 .. Len(all) : r = [id |-> i, file |-> all[i], flag |-> 1]
    BY <1>5
  <2>2. \A r, q \in rows : (r.id = q.id \/ r.file = q.file) => r = q
    <3> SUFFICES ASSUME NEW r \in rows, NEW q \in rows, r.id = q.id \/ r.file = q.file PROVE r = q
      OBVIOUS
    <3>1. PICK i \in 1 .. Len(all) : r = [id |-> i, file |-> all[i], flag |-> 1]
      BY <2>1
    <3>2. PICK j \in 1 .. Len(all) : q = [id |-> j, file |-> all[j], flag |-> 1]
      BY <2>1
    <3>3. i = j
      BY <1>4, <3>1, <3>2
    <3> QED
      BY <3>1, <3>2, <3>3
  <2>3. \A r \in rows : r.id >= 1 /\ r.id < nextId
    BY <1>4, <1>5, <2>1
  <2> QED
    BY <1>1, <2>2, <2>3 DEF Ids, OneRow, TypeInv
<1> QED
  BY <1>1, <1>2, <1>6 DEF Inv

LEMMA NextInv == ASSUME NEW s, Scanners = {s} PROVE Inv /\ [Next]_vars => Inv'
<1> SUFFICES ASSUME Inv, [Next]_vars PROVE Inv'
  OBVIOUS
<1>1. TypeInv'
  BY NextTyped DEF Inv
<1>2. CASE UNCHANGED vars
  <2>1. rows' = rows /\ nextId' = nextId /\ disk' = disk /\ scan' = scan
    BY <1>2 DEF vars
  <2>2. Ids' /\ OneRow'
    BY <2>1 DEF Inv, Ids, OneRow
  <2>3. Good(scan[s])'
    BY <2>1 DEF Inv, Good, Orderly, Current, RowsOf, Flagged, After, Covered, Done, InBuffer
  <2> QED
    BY <1>1, <2>2, <2>3 DEF Inv
<1>3. ASSUME StartScan(s) \/ SetStopFlag(s) \/ ScanStep(s) \/ Crash(s)
      PROVE  Ids' /\ OneRow' /\ Good(scan[s])'
  <2> SUFFICES Ids' /\ OneRow' /\ Good(scan[s])'
    OBVIOUS
  <2>1. CASE StartScan(s) \/ SetStopFlag(s) \/ Crash(s) \/ EndScan(s)
    BY <2>1, OtherStep
  <2>2. CASE ResetFlags(s)
    BY <2>2, FlagsStep
  <2>3. CASE ResetFlagsFails(s) \/ OpenDirFails(s) \/ CommitTableFails(s) \/ DeleteNotExistFails(s)
    BY <2>3, FailStep DEF ResetFlagsFails, OpenDirFails, CommitTableFails, DeleteNotExistFails
  <2>4. CASE OpenDir(s) \/ PassOverDir(s)
    BY <2>4, OpenStep, PassOverStep
  <2>5. CASE AllDirsWalked(s) \/ DirWalked(s) \/ FlushFails(s) \/ UpdateDefaultTone(s)
    BY <2>5, GotoStep
  <2>6. CASE \/ EnterNested(s) \/ EnterNestedFails(s) \/ LeaveNested(s) \/ SeeStop(s) \/ ReadFileFails(s)
             \/ ReaddirFails(s)
    BY <2>6, SubdirStep
  <2>7. CASE ReadFile(s)
    BY <2>7, ReadStep
  <2>8. CASE Flush(s) \/ CommitTable(s)
    BY <2>8, WriteStep
  <2>9. CASE DeleteNotExist(s)
    BY <2>9, DeleteStep
  <2> QED
    BY <1>3, <2>1, <2>2, <2>3, <2>4, <2>5, <2>6, <2>7, <2>8, <2>9 DEF ScanStep
<1>4. CASE Reboot
  <2>1. scan'[s] = IdleScan /\ rows' = rows /\ nextId' = nextId
    BY <1>4, Zenon DEF Reboot
  <2>2. Ids' /\ OneRow'
    BY <2>1 DEF Inv, Ids, OneRow
  <2>3. Good(scan[s])'
    <3>1. ToSet(<<>>) = {}
      BY DEF ToSet
    <3>2. \A t \in Tables : ToSet(IdleScan.buffer[t]) = {}
      BY <3>1 DEF IdleScan
    <3>3. IdleScan.phase = "idle" /\ IdleScan.nested = {}
      BY DEF IdleScan
    <3> HIDE DEF IdleScan
    <3> QED
      BY <2>1, <3>2, <3>3 DEF Good, Orderly, Current, Flagged, Covered, After, Walks
  <2> QED
    BY <1>1, <2>2, <2>3 DEF Inv
<1> QED
  BY <1>1, <1>2, <1>3, <1>4 DEF Next, Inv

-----------------------------------------------------------------------------
(* What one scanner guarantees *)

(* No file has two rows, though no constraint of the schema forbids it: whatever is flushed  *)
(* early, lost, crashed or rescanned, what is inserted had no row when it was read and has   *)
(* none when it is written.                                                                  *)
THEOREM OneScannerOneRow == ASSUME NEW s, Scanners = {s} PROVE Spec => []OneRowPerFile
<1>1. Inv => OneRowPerFile
  <2> SUFFICES ASSUME Inv, NEW f \in Files PROVE Cardinality(RowsOf(f)) <= 1
    BY DEF OneRowPerFile
  <2>1. \A r, q \in RowsOf(f) : r = q
    BY DEF Inv, OneRow, RowsOf
  <2>2. CASE RowsOf(f) = {}
    BY <2>2, FS_EmptySet
  <2>3. CASE RowsOf(f) # {}
    <3>1. PICK r : RowsOf(f) = {r}
      BY <2>1, <2>3
    <3>2. Cardinality({r}) = 1
      BY FS_Singleton
    <3> QED
      BY <3>1, <3>2
  <2> QED
    BY <2>2, <2>3
<1> QED
  BY <1>1, InitInv, NextInv, PTL DEF Spec

(* What the walk read of a row holds when the buffer is written, whatever was flushed before. *)
THEOREM OneScannerBuffers == ASSUME NEW s, Scanners = {s} PROVE Spec => []BuffersCurrent
<1>1. Inv => BuffersCurrent
  BY DEF Inv, Good, Current, BuffersCurrent
<1> QED
  BY <1>1, InitInv, NextInv, PTL DEF Spec

(* When a scan ends without an error, the preset rows are those of the files that are there, *)
(* all flagged, but for the files the scan failed to write or was stopped before.            *)
THEOREM OneScannerExact == ASSUME NEW s, Scanners = {s} PROVE Spec => []FinishedScanIsExact
<1>1. Inv => FinishedScanIsExact
  <2> SUFFICES ASSUME Inv, scan[s].phase = "end", scan[s].ok, NEW f \in Preset, ~Excused(f)
               PROVE  /\ (RowsOf(f) # {}) <=> (f \in disk)
                      /\ \A r \in RowsOf(f) : r.flag = 1
    BY DEF FinishedScanIsExact
  <2>1. Good(scan[s]) /\ ~scan[s].sawStop /\ f \notin scan[s].skipped
    BY DEF Inv, Excused
  <2>2. \A r \in RowsOf(f) : r.flag = 1 /\ f \in disk
    BY <2>1 DEF Good, Flagged, After, RowsOf
  <2>3. f \in disk => RowsOf(f) # {}
    BY <2>1 DEF Good, Covered, Done, RowsOf
  <2> QED
    BY <2>2, <2>3
<1> QED
  BY <1>1, InitInv, NextInv, PTL DEF Spec

(* The steps that take a row away take the row of a preset file that is gone, or excused. *)
LEMMA StepDeletes ==
    ASSUME NEW s, Scanners = {s}, Inv, [Next]_vars, NEW r \in rows, \A q \in rows' : q.id # r.id
    PROVE  r.file \in Preset /\ (r.file \notin disk \/ Excused(r.file))
<1>1. r \notin rows'
  OBVIOUS
<1>2. CASE DeleteNotExist(s)
  BY <1>1, <1>2, Deleted
<1>3. ASSUME ResetFlags(s) PROVE FALSE
  <2> DEFINE new == IF TableOf[r.file] = scan[s].table THEN [r EXCEPT !.flag = 0] ELSE r
  <2>1. new \in rows'
    BY <1>3 DEF ResetFlags
  <2>2. new.id = r.id
    BY DEF Inv, TypeInv, TypeOK, Row
  <2> QED
    BY <2>1, <2>2
<1>4. ASSUME Flush(s) \/ CommitTable(s) PROVE FALSE
  <2>1. TypeInv /\ WriteBatch(s)
    BY <1>4 DEF Inv, Flush, CommitTable
  <2>2. PICK written \in SUBSET ToSet(Batch(s)) : Write(written)
    BY <2>1, BatchSteps, Zenon
  <2>3. {IF p.id \in Updated(written) THEN [p EXCEPT !.flag = 1] ELSE p : p \in rows} \subseteq rows'
    <3>1. PICK more : rows' = {IF p.id \in {e.id : e \in written} \ {0} THEN [p EXCEPT !.flag = 1] ELSE p : p \in rows} \cup more
      BY <2>2, Zenon DEF Write
    <3> QED
      BY <3>1 DEF Updated
  <2> DEFINE new == IF r.id \in Updated(written) THEN [r EXCEPT !.flag = 1] ELSE r
  <2>4. new \in rows'
    BY <2>3
  <2>5. new.id = r.id
    BY DEF Inv, TypeInv, TypeOK, Row
  <2> QED
    BY <2>4, <2>5
<1>5. CASE rows' = rows
  BY <1>1, <1>5
<1>6. UNCHANGED vars \/ Reboot => rows' = rows
  BY DEF vars, Reboot
<1>7. StartScan(s) \/ SetStopFlag(s) \/ ScanStep(s) \/ Crash(s) =>
        DeleteNotExist(s) \/ ResetFlags(s) \/ Flush(s) \/ CommitTable(s) \/ rows' = rows
  BY DEF StartScan, SetStopFlag, ScanStep, Crash, ResetFlagsFails, OpenDir, OpenDirFails, PassOverDir, AllDirsWalked,
         ReadFile, ReadFileFails, ReaddirFails, EnterNested, EnterNestedFails, LeaveNested, SeeStop, DirWalked, FlushFails,
         CommitTableFails, UpdateDefaultTone, DeleteNotExistFails, EndScan
<1> QED
  BY <1>2, <1>3, <1>4, <1>5, <1>6, <1>7 DEF Next

(* A row is only deleted when it is a preset row whose file is gone, or of a file the scan   *)
(* failed to write or was stopped before: every other row outlives flushes, crashes, rescans *)
(* and reboots with its id.                                                                  *)
THEOREM OneScannerDeletes == ASSUME NEW s, Scanners = {s} PROVE Spec => OnlyMissingDeleted
<1>1. Inv /\ [Next]_vars =>
        [\A r \in rows :
          (\A q \in rows' : q.id # r.id) => r.file \in Preset /\ (r.file \notin disk \/ Excused(r.file))]_vars
  BY StepDeletes
<1> QED
  BY <1>1, InitInv, NextInv, PTL DEF Spec, OnlyMissingDeleted

(* When scanner.first is set nobody scans, and the rows match the directories. *)
Marked(s) == first => scan[s].phase = "idle" /\ FirstMeansScanned

(* scanner.first is never set before the rows match the preload directories, but for what    *)
(* the very scan that set it failed to write, and they match them for as long as it is set:  *)
(* the scanners of which this is said are those that look at it before they start.           *)
THEOREM OneScannerMarks ==
    ASSUME NEW s, Scanners = {s}, Backup = {} PROVE Spec => []FirstMeansScanned
<1>1. Init => Marked(s)
  BY Zenon DEF Init, Marked
<1>2. Inv /\ Inv' /\ Marked(s) /\ [Next]_vars => Marked(s)'
  <2> SUFFICES ASSUME Inv, Inv', Marked(s), [Next]_vars, first' PROVE (scan[s].phase = "idle" /\ FirstMeansScanned)'
    BY DEF Marked
  <2>1. CASE UNCHANGED vars
    BY <2>1 DEF vars, Marked, FirstMeansScanned, Excused, RowsOf
  <2>2. CASE EndScan(s)
    <3>1. scan[s].phase = "end" /\ first' = (first \/ scan[s].ok) /\ rows' = rows /\ disk' = disk
      BY <2>2 DEF EndScan
    <3>2. ~first
      BY <3>1 DEF Marked
    <3>3. scan[s].ok
      BY <3>1, <3>2
    <3> DEFINE v == [IdleScan EXCEPT !.sawStop = scan[s].sawStop, !.skipped = scan[s].skipped]
    <3>4. scan'[s] = v
      BY <2>2, Became DEF EndScan, Inv, TypeInv, TypeOK
    <3>5. v.phase = "idle" /\ v.sawStop = scan[s].sawStop /\ v.skipped = scan[s].skipped
      BY DEF IdleScan
    <3> HIDE DEF v
    <3>6. \A f \in Preset : Excused(f) => Excused(f)'
      BY <3>4, <3>5 DEF Excused
    <3>7. \A f \in Preset : Excused(f) \/ ((RowsOf(f) # {}) <=> (f \in disk))
      <4> SUFFICES ASSUME NEW f \in Preset, ~Excused(f) PROVE (RowsOf(f) # {}) <=> (f \in disk)
        OBVIOUS
      <4>1. Good(scan[s]) /\ ~scan[s].sawStop /\ f \notin scan[s].skipped
        BY DEF Inv, Excused
      <4>2. \A r \in RowsOf(f) : r.flag = 1 /\ f \in disk
        BY <3>1, <3>3, <4>1 DEF Good, Flagged, After, RowsOf
      <4>3. f \in disk => RowsOf(f) # {}
        BY <3>1, <3>3, <4>1 DEF Good, Covered, Done, RowsOf
      <4> QED
        BY <4>2, <4>3
    <3>8. \A f : RowsOf(f)' = RowsOf(f)
      BY <3>1 DEF RowsOf
    <3> QED
      BY <3>1, <3>4, <3>5, <3>6, <3>7, <3>8 DEF FirstMeansScanned
  <2>3. ASSUME ~EndScan(s), ~UNCHANGED vars PROVE FALSE
    <3>1. ~Reboot
      BY DEF Reboot
    <3>2. StartScan(s) \/ SetStopFlag(s) \/ ScanStep(s) \/ Crash(s)
      BY <2>3, <3>1 DEF Next
    <3>3. first' = first
      BY <2>3, <3>2
      DEF StartScan, SetStopFlag, ScanStep, Crash, ResetFlags, ResetFlagsFails, OpenDir, OpenDirFails, PassOverDir, AllDirsWalked,
          ReadFile, ReadFileFails, ReaddirFails, EnterNested, EnterNestedFails, LeaveNested, SeeStop, DirWalked, Flush, FlushFails,
          CommitTable, CommitTableFails, UpdateDefaultTone, DeleteNotExist, DeleteNotExistFails
    <3>4. scan[s].phase = "idle" /\ first
      BY <3>3 DEF Marked
    <3> QED
      BY <2>3, <3>2, <3>4
      DEF StartScan, SetStopFlag, ScanStep, Crash, ResetFlags, ResetFlagsFails, OpenDir, OpenDirFails, PassOverDir, AllDirsWalked,
          ReadFile, ReadFileFails, ReaddirFails, EnterNested, EnterNestedFails, LeaveNested, SeeStop, DirWalked, Flush, FlushFails,
          CommitTable, CommitTableFails, UpdateDefaultTone, DeleteNotExist, DeleteNotExistFails
  <2> QED
    BY <2>1, <2>2, <2>3
<1>3. Marked(s) => FirstMeansScanned
  BY DEF Marked, FirstMeansScanned
<1> QED
  BY <1>1, <1>2, <1>3, InitInv, NextInv, PTL DEF Spec
=============================================================================
