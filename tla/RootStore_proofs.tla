-------------------------- MODULE RootStore_proofs --------------------------
(***************************************************************************)
(* Proofs about RootStore: its type invariant, that the files trail memory   *)
(* by no more than the records writeRec has still to write, that names have  *)
(* one owner, that verifyrec and verifydir accept the registry after every   *)
(* operation, that verifyrec ends on whatever a stop leaves, and that all    *)
(* this is the tree of entries that BackupTree promises.                     *)
(***************************************************************************)
EXTENDS RootStoreTree, SequenceTheorems, WellFoundedInduction, TLAPS

(***************************************************************************)
(* Lemmas about the operators that rewrite a registry: each one returns a   *)
(* registry, and names the only records it may have changed.               *)
(***************************************************************************)
Registry == [Ids -> RecordItem]

(* The records that differ between two registries are among some ids. *)
SameBut(R, S, ids) == \A r \in Ids \ ids : S[r] = R[r]

(* A record without content is a record.  (record.h, RecordItem().) *)
LEMMA BlankType == Blank \in RecordItem /\ NoRecords \in Registry
BY DEF Blank, RecordItem, NoRecords, Registry

(* The registry of an empty root is one.  (Root::init.) *)
LEMMA InitRecordsType == InitRecords \in Registry
BY BlankType DEF InitRecords, Blank, RecordItem, Registry

(* allocRec changes the record it hands out and record 0. *)
LEMMA AllocRecLemma ==
  ASSUME NEW R \in Registry, NEW rid \in Ids, NEW new \in RecordItem
  PROVE  /\ AllocRec(R, rid, new) \in Registry
         /\ SameBut(R, AllocRec(R, rid, new),
                    {rid} \cup (IF R[0].next # 0 THEN {0} ELSE {}))
<1>1. 0 \in Ids
  BY MaxRecAssumption DEF Ids
<1>2. [R[0] EXCEPT !.next = R[rid].next] \in RecordItem
  BY <1>1 DEF Registry, RecordItem
<1>3. AllocRec(R, rid, new) \in Registry
  BY <1>2 DEF AllocRec, Registry
<1>4. SameBut(R, AllocRec(R, rid, new),
              {rid} \cup (IF R[0].next # 0 THEN {0} ELSE {}))
  BY DEF AllocRec, SameBut
<1> QED BY <1>3, <1>4

(* Linking changes the new record and the one before it. *)
LEMMA LinkRecordLemma ==
  ASSUME NEW R \in Registry, NEW pid \in Ids, NEW pre \in Ids, NEW rid \in Ids
  PROVE  /\ LinkRecord(R, pid, pre, rid) \in Registry
         /\ SameBut(R, LinkRecord(R, pid, pre, rid), {rid, pre})
<1> DEFINE head == R[pid].sub
           new == IF pre = pid
                  THEN [R[rid] EXCEPT !.next = IF head = 0 THEN pid ELSE head,
                                      !.islast = (head = 0)]
                  ELSE [R[rid] EXCEPT !.next = R[pre].next, !.islast = R[pre].islast]
           before == IF pre = pid
                     THEN [R[pre] EXCEPT !.sub = rid]
                     ELSE [R[pre] EXCEPT !.next = rid, !.islast = FALSE]
<1>1. rid \in Nat /\ pid \in Nat
  BY MaxRecAssumption DEF Ids
<1>2. new \in RecordItem
  BY <1>1, ZenonT(60) DEF Registry, RecordItem
<1>3. before \in RecordItem
  BY <1>1, ZenonT(60) DEF Registry, RecordItem
<1>4. LinkRecord(R, pid, pre, rid) = [R EXCEPT ![rid] = new, ![pre] = before]
  BY DEF LinkRecord
<1> QED
  <2> HIDE DEF new, before
  <2> QED BY <1>2, <1>3, <1>4 DEF Registry, SameBut

(* Unlinking changes only the record before. *)
LEMMA UnlinkRecordLemma ==
  ASSUME NEW R \in Registry, NEW pid \in Ids, NEW pre \in Ids, NEW rid \in Ids
  PROVE  /\ UnlinkRecord(R, pid, pre, rid) \in Registry
         /\ SameBut(R, UnlinkRecord(R, pid, pre, rid), {pre})
<1>1. CASE pre = pid
  <2>1. NextSibling(R, rid) \in Nat
    BY DEF NextSibling, Registry, RecordItem
  <2>2. [R[pid] EXCEPT !.sub = NextSibling(R, rid)] \in RecordItem
    BY <2>1 DEF Registry, RecordItem
  <2> QED BY <1>1, <2>2 DEF UnlinkRecord, Registry, SameBut
<1>2. CASE pre # pid
  <2>1. [R[pre] EXCEPT !.next = R[rid].next, !.islast = R[rid].islast] \in RecordItem
    BY DEF Registry, RecordItem
  <2> QED BY <1>2, <2>1 DEF UnlinkRecord, Registry, SameBut
<1> QED BY <1>1, <1>2

(* recycleRec changes the recycled record and the one before it in the list. *)
LEMMA RecycleRecLemma ==
  ASSUME NEW R \in Registry, NEW rpre \in Ids, NEW rid \in Ids
  PROVE  /\ RecycleRec(R, rpre, rid) \in Registry
         /\ SameBut(R, RecycleRec(R, rpre, rid), {rid, rpre})
<1> DEFINE gone == [R[rid] EXCEPT !.name = 0, !.isdir = TRUE, !.isactive = FALSE,
                                  !.next = R[rpre].next]
           before == [R[rpre] EXCEPT !.next = rid]
<1>1. rid \in Nat /\ R[rid] \in RecordItem /\ R[rpre] \in RecordItem
  BY MaxRecAssumption DEF Registry, Ids
<1>2. gone \in RecordItem
  <2>1. R[rpre].next \in Nat
    BY <1>1 DEF RecordItem
  <2> QED BY <1>1, <2>1 DEF RecordItem
<1>3. before \in RecordItem
  BY <1>1 DEF RecordItem
<1>4. RecycleRec(R, rpre, rid) = [R EXCEPT ![rid] = gone, ![rpre] = before]
  BY DEF RecycleRec
<1> QED
  <2> HIDE DEF gone, before
  <2> QED BY <1>2, <1>3, <1>4 DEF Registry, SameBut

-----------------------------------------------------------------------------
(***************************************************************************)
(* What one operation does to the state, whichever entry it is about.      *)
(***************************************************************************)
(* The registry after an insertion, and the ids it changed. *)
LEMMA InsertLemma ==
  ASSUME TypeOK, NEW pid \in Ids, NEW n \in Names, NEW new \in RecordItem,
         Insert(pid, n, new)
  PROVE  /\ TypeOK'
         /\ SameBut(recs, recs', dirty')
         /\ dirty' \subseteq Slots'
         /\ nrec' # nrec => nrec' = nrec + 1 /\ nrec \in dirty'
         /\ drname = rname => drname' = rname'
<1> DEFINE rid == NewId(recs, nrec)
           named == [new EXCEPT !.name = NameBase]
<1>1. rid \in Slots \cup {nrec} /\ rid < MaxRec
  BY DEF Insert
<1>2. PICK pre \in Slots :
        /\ recs' = LinkRecord(AllocRec(recs, rid, named), pid, pre, rid)
        /\ dirty' = ChangedByInsert(rid, pre)
  BY DEF Insert
<1>3. /\ nrec' = IF rid = nrec THEN nrec + 1 ELSE nrec
      /\ rname' = Append(rname, n) /\ drname' = Append(drname, n)
      /\ UNCHANGED <<drecs, dnrec, mode>>
  BY DEF Insert
<1>4. nrec \in 0 .. MaxRec /\ MaxRec \in Nat /\ recs \in Registry
  BY MaxRecAssumption DEF TypeOK, Registry
<1>5. rid \in Ids /\ pre \in Ids
  BY <1>1, <1>2, <1>4 DEF Slots, Ids
<1>6. named \in RecordItem
  <2>1. NameBase \in Nat
    BY LenProperties DEF TypeOK, NameBase
  <2> QED BY <2>1 DEF RecordItem
<1> HIDE DEF rid, named
<1>7. DEFINE R == AllocRec(recs, rid, named)
<1>8. /\ R \in Registry
      /\ SameBut(recs, R, {rid} \cup (IF recs[0].next # 0 THEN {0} ELSE {}))
  BY <1>4, <1>5, <1>6, AllocRecLemma
<1>9. recs' \in Registry /\ SameBut(R, recs', {rid, pre})
  <2> HIDE DEF R
  <2> QED BY <1>2, <1>5, <1>8, LinkRecordLemma DEF R
<1>10. rid = recs[0].next \/ recs[0].next = 0
  BY DEF rid, NewId
<1>11. SameBut(recs, recs', dirty')
  <2> HIDE DEF R
  <2> QED BY <1>2, <1>8, <1>9, <1>10 DEF SameBut, ChangedByInsert
<1>12. dirty' \subseteq Slots' /\ dirty' \subseteq Ids
  BY <1>1, <1>2, <1>3, <1>4, <1>5 DEF ChangedByInsert, Slots, Ids
<1>13. nrec' # nrec => nrec' = nrec + 1 /\ nrec \in dirty'
  BY <1>2, <1>3 DEF ChangedByInsert
<1>14. nrec' \in 0 .. MaxRec
  BY <1>1, <1>3, <1>4
<1>15. rname' \in Seq(Names \cup {0}) /\ drname' \in Seq(Names \cup {0})
  BY <1>3, AppendProperties DEF TypeOK
<1>16. TypeOK'
  BY <1>3, <1>9, <1>12, <1>14, <1>15 DEF TypeOK, Registry
<1> QED BY <1>3, <1>11, <1>12, <1>13, <1>16

(* The same of a removal: it changes three records and no size. *)
LEMMA RemoveLemma ==
  ASSUME TypeOK, NEW rid \in Slots, Remove(rid)
  PROVE  /\ TypeOK'
         /\ SameBut(recs, recs', dirty')
         /\ dirty' \subseteq Slots
         /\ nrec' = nrec
         /\ drname = rname => drname' = rname'
<1>1. PICK pid \in Dirs(recs), pre \in Slots, rpre \in Slots :
        /\ recs' = RecycleRec(UnlinkRecord(recs, pid, pre, rid), rpre, rid)
        /\ dirty' = ChangedByRemove(rid, pre, rpre)
  BY DEF Remove
<1>2. nrec \in 0 .. MaxRec /\ MaxRec \in Nat /\ recs \in Registry
  BY MaxRecAssumption DEF TypeOK, Registry
<1>3. rid \in Ids /\ pid \in Ids /\ pre \in Ids /\ rpre \in Ids
  BY <1>1, <1>2 DEF Slots, Ids, Dirs, Active
<1> DEFINE R == UnlinkRecord(recs, pid, pre, rid)
<1>4. R \in Registry /\ SameBut(recs, R, {pre})
  BY <1>2, <1>3, UnlinkRecordLemma
<1> HIDE DEF R
<1>5. recs' \in Registry /\ SameBut(R, recs', {rid, rpre})
  BY <1>1, <1>3, <1>4, RecycleRecLemma DEF R
<1>6. SameBut(recs, recs', dirty')
  BY <1>1, <1>4, <1>5 DEF SameBut, ChangedByRemove
<1>7. dirty' \subseteq Slots /\ dirty' \subseteq Ids
  BY <1>1, <1>3 DEF ChangedByRemove
<1>8. /\ rname' = [rname EXCEPT ![recs[rid].name + 1] = 0]
      /\ drname' = [drname EXCEPT ![recs[rid].name + 1] = 0]
      /\ UNCHANGED <<nrec, drecs, dnrec, mode>>
  BY DEF Remove
<1>9. recs[rid].name \in Nat
  BY <1>2, <1>3 DEF Registry, RecordItem
<1>10. ASSUME NEW s \in Seq(Names \cup {0})
       PROVE  [s EXCEPT ![recs[rid].name + 1] = 0] \in Seq(Names \cup {0})
  <2>1. CASE recs[rid].name + 1 \in 1 .. Len(s)
    BY <2>1, ExceptSeq
  <2>2. CASE recs[rid].name + 1 \notin 1 .. Len(s)
    <3>1. [s EXCEPT ![recs[rid].name + 1] = 0] = s
      BY <2>2
    <3> QED BY <3>1
  <2> QED BY <2>1, <2>2
<1>11. rname' \in Seq(Names \cup {0}) /\ drname' \in Seq(Names \cup {0})
  BY <1>8, <1>10 DEF TypeOK
<1>12. TypeOK'
  BY <1>5, <1>7, <1>8, <1>11 DEF TypeOK, Registry
<1> QED BY <1>6, <1>7, <1>8, <1>12

(* A change of a file's record changes that record only. *)
LEMMA ModFileLemma ==
  ASSUME TypeOK, NEW rid \in Slots, NEW attr \in Attrs, ModFile(rid, attr)
  PROVE  /\ TypeOK'
         /\ SameBut(recs, recs', dirty')
         /\ dirty' = {rid}
         /\ UNCHANGED <<nrec, rname, disk, mode>>
<1>1. rid \in Ids /\ recs \in Registry
  BY MaxRecAssumption DEF TypeOK, Slots, Ids, Registry
<1>2. attr.time \in Nat /\ attr.size \in Nat
  BY AttrsAssumption
<1>3. PICK new \in RecordItem : recs' = [recs EXCEPT ![rid] = new]
  <2>1. /\ [recs[rid] EXCEPT !.ispending = FALSE, !.time = attr.time, !.sub = attr.size]
              \in RecordItem
        /\ [recs[rid] EXCEPT !.ispending = TRUE] \in RecordItem
    BY <1>1, <1>2 DEF Registry, RecordItem
  <2> QED BY <2>1 DEF ModFile
<1>4. dirty' = {rid} /\ UNCHANGED <<nrec, rname, disk, mode>>
  BY DEF ModFile
<1>5. recs' \in Registry /\ SameBut(recs, recs', {rid})
  BY <1>1, <1>3 DEF Registry, SameBut
<1>6. TypeOK'
  BY <1>1, <1>4, <1>5 DEF TypeOK, Registry, disk
<1> QED BY <1>4, <1>5, <1>6

-----------------------------------------------------------------------------
(***************************************************************************)
(* The inductive invariant.  DiskTrailsMemory alone is not inductive: the   *)
(* file "record" has reached its full size when dirty is empty only because *)
(* a slot the file lacks is in dirty, and the names of a root are those on  *)
(* disk when it opens because init() wrote them first.                      *)
(***************************************************************************)
SizeTrails ==
  mode = "up" =>
    /\ dirty \subseteq Slots
    /\ dnrec <= nrec
    /\ dnrec < nrec => dnrec = nrec - 1 /\ nrec - 1 \in dirty

QuietUnlessUp ==
  /\ mode # "up" => dirty = {}
  /\ mode = "init" => drname = rname

DiskInv == TypeOK /\ QuietUnlessUp /\ SizeTrails /\ DiskTrailsMemory

(* Nothing is on disk or in memory when the program first starts. *)
LEMMA DiskInvInit == Init => DiskInv
<1> SUFFICES ASSUME Init PROVE DiskInv
  OBVIOUS
<1>1. TypeOK
  <2>1. NoRecords \in [Ids -> RecordItem]
    BY BlankType DEF Registry
  <2>2. <<>> \in Seq(Names \cup {0})
    BY EmptySeq
  <2> QED BY <2>1, <2>2, MaxRecAssumption DEF Init, TypeOK, Modes
<1> QED BY <1>1 DEF Init, DiskInv, QuietUnlessUp, SizeTrails, DiskTrailsMemory

(* An operation leaves behind, in dirty, every record it changed. *)
LEMMA OperationDiskInv == DiskInv /\ Operation => DiskInv'
<1> SUFFICES ASSUME DiskInv, Operation PROVE DiskInv'
  OBVIOUS
<1> USE DEF DiskInv
<1>1. mode' = mode /\ mode = "up" /\ dirty = {} /\ drecs' = drecs /\ dnrec' = dnrec
  BY ZenonT(60) DEF Operation, AddDir, AddFile, AddIgnoredFile, AddLockedFile, ModFile, Insert,
         Remove, Idle, disk
<1>2. dnrec = nrec /\ drname = rname /\ \A r \in Ids : drecs[r] = recs[r]
  <2>1. nrec \in Nat /\ dnrec \in Nat
    BY MaxRecAssumption DEF TypeOK
  <2> QED BY <1>1, <2>1 DEF DiskTrailsMemory
<1> DEFINE Kept == /\ TypeOK'
                   /\ SameBut(recs, recs', dirty')
                   /\ dirty' \subseteq Slots'
                   /\ nrec' # nrec => nrec' = nrec + 1 /\ nrec \in dirty'
                   /\ dirty' # {}
                   /\ drname' = rname'
<1>3. ASSUME NEW pid \in Parents, NEW n \in Names, NEW new \in RecordItem,
             Insert(pid, n, new)
      PROVE  Kept
  <2>1. pid \in Ids
    BY DEF Parents, Dirs, Active
  <2>2. dirty' # {}
    BY <1>3 DEF Insert, ChangedByInsert
  <2> QED BY <1>2, <1>3, <2>1, <2>2, InsertLemma
<1>4. ASSUME NEW rid \in Slots, Remove(rid)
      PROVE  Kept
  <2>1. dirty' # {}
    BY <1>4 DEF Remove, ChangedByRemove
  <2>2. nrec' = nrec /\ dirty' \subseteq Slots'
    BY <1>4, RemoveLemma DEF Slots
  <2> QED BY <1>2, <1>4, <2>1, <2>2, RemoveLemma
<1>5. ASSUME NEW rid \in Slots, NEW attr \in Attrs, ModFile(rid, attr)
      PROVE  Kept
  <2>1. dirty' = {rid} /\ nrec' = nrec /\ rname' = rname /\ drname' = drname
    BY <1>5, ModFileLemma DEF disk
  <2> QED BY <1>2, <1>5, <2>1, ModFileLemma DEF Slots
<1>6. Kept
  <2> HIDE DEF Kept
  <2>1. ASSUME NEW pid \in Parents, NEW n \in Names, NEW ignored \in BOOLEAN,
               AddDir(pid, n, ignored)
        PROVE  Kept
    <3>1. [Blank EXCEPT !.isactive = TRUE, !.isdir = TRUE, !.isignore = ignored]
            \in RecordItem
      BY BlankType DEF RecordItem
    <3> QED BY <2>1, <3>1, <1>3 DEF AddDir
  <2>2. ASSUME NEW pid \in Parents, NEW n \in Names, NEW attr \in Attrs,
               AddFile(pid, n, attr)
        PROVE  Kept
    <3>1. attr.time \in Nat /\ attr.size \in Nat
      BY AttrsAssumption
    <3>2. [Blank EXCEPT !.isactive = TRUE, !.time = attr.time, !.sub = attr.size]
            \in RecordItem
      BY <3>1, BlankType DEF RecordItem
    <3> QED BY <2>2, <3>2, <1>3 DEF AddFile
  <2>3. ASSUME NEW pid \in Parents, NEW n \in Names,
               AddIgnoredFile(pid, n) \/ AddLockedFile(pid, n)
        PROVE  Kept
    <3>1. /\ [Blank EXCEPT !.isactive = TRUE, !.isignore = TRUE] \in RecordItem
          /\ [Blank EXCEPT !.isactive = TRUE, !.ispending = TRUE] \in RecordItem
      BY BlankType DEF RecordItem
    <3> QED BY <2>3, <3>1, <1>3 DEF AddIgnoredFile, AddLockedFile
  <2> QED BY <1>4, <1>5, <2>1, <2>2, <2>3 DEF Operation
<1>7. SizeTrails'
  <2>1. nrec \in Nat /\ nrec' \in Nat /\ dnrec \in Nat
    BY <1>6, MaxRecAssumption DEF TypeOK
  <2>2. dirty' \subseteq Slots'
    BY <1>6
  <2>3. CASE nrec' = nrec
    BY <1>1, <1>2, <2>1, <2>2, <2>3 DEF SizeTrails
  <2>4. CASE nrec' # nrec
    BY <1>1, <1>2, <1>6, <2>1, <2>2, <2>4 DEF SizeTrails
  <2> QED BY <2>3, <2>4
<1>8. DiskTrailsMemory'
  BY <1>1, <1>2, <1>6 DEF DiskTrailsMemory, SameBut
<1>9. QuietUnlessUp'
  BY <1>1 DEF QuietUnlessUp
<1> QED BY <1>6, <1>7, <1>8, <1>9

(* Each record writeRec writes leaves dirty, the last one with the size. *)
LEMMA WriteRecDiskInv == DiskInv /\ WriteRec => DiskInv'
<1> SUFFICES ASSUME DiskInv, WriteRec PROVE DiskInv'
  OBVIOUS
<1> USE DEF DiskInv
<1>1. PICK c \in dirty :
        /\ drecs' = [drecs EXCEPT ![c] = recs[c]]
        /\ dnrec' = IF c >= dnrec THEN c + 1 ELSE dnrec
        /\ dirty' = dirty \ {c}
  BY DEF WriteRec
<1>2. mode = "up" /\ UNCHANGED <<recs, nrec, rname, drname, mode>>
  BY DEF WriteRec, memory
<1>3. nrec \in 0 .. MaxRec /\ dnrec \in Nat /\ MaxRec \in Nat
  BY MaxRecAssumption DEF TypeOK
<1>4. c \in Ids /\ c \in Slots /\ c \in Nat /\ c < nrec
  BY <1>1, <1>2, <1>3 DEF SizeTrails, Slots, TypeOK
<1>5. TypeOK'
  <2>1. drecs' \in [Ids -> RecordItem]
    BY <1>1, <1>4 DEF TypeOK
  <2>2. dnrec' \in 0 .. MaxRec
    BY <1>1, <1>3, <1>4 DEF TypeOK
  <2> QED BY <1>1, <1>2, <2>1, <2>2 DEF TypeOK
<1>6. SizeTrails'
  <2>1. dirty' \subseteq Slots'
    BY <1>1, <1>2 DEF SizeTrails, Slots
  <2>2. CASE c = nrec - 1
    BY <1>1, <1>2, <1>3, <1>4, <2>1, <2>2 DEF SizeTrails
  <2>3. CASE c # nrec - 1
    BY <1>1, <1>2, <1>3, <1>4, <2>1, <2>3 DEF SizeTrails
  <2> QED BY <2>2, <2>3
<1>7. DiskTrailsMemory'
  <2>1. \A r \in Ids \ dirty' : drecs'[r] = recs'[r]
    BY <1>1, <1>2, <1>4 DEF DiskTrailsMemory, TypeOK
  <2>2. dirty' = {} => dnrec' = nrec'
    BY <1>1, <1>2, <1>3, <1>4, <1>6 DEF SizeTrails, TypeOK
  <2> QED BY <1>2, <2>1, <2>2 DEF DiskTrailsMemory
<1>8. QuietUnlessUp'
  BY <1>2 DEF QuietUnlessUp
<1> QED BY <1>5, <1>6, <1>7, <1>8

(* Opening a root makes memory equal to the files, or the files to memory. *)
LEMMA LoadDiskInv == DiskInv /\ Load => DiskInv'
<1> SUFFICES ASSUME DiskInv, Load PROVE DiskInv'
  OBVIOUS
<1> USE DEF DiskInv
<1>1. MaxRec \in Nat /\ MaxRec >= 2 /\ nrec \in Nat /\ dnrec \in Nat
  BY MaxRecAssumption DEF TypeOK
<1>2. CASE LoadFresh
  <2>1. <<0>> \in Seq(Names \cup {0})
    OBVIOUS
  <2>2. TypeOK'
    BY <1>1, <1>2, <2>1, InitRecordsType DEF LoadFresh, TypeOK, Modes, Registry
  <2> QED BY <1>2, <2>2 DEF LoadFresh, QuietUnlessUp, SizeTrails, DiskTrailsMemory
<1>3. CASE WriteInit
  <2>1. dirty = {} /\ drname = rname
    BY <1>3 DEF WriteInit, QuietUnlessUp
  <2>2. TypeOK'
    BY <1>3 DEF WriteInit, TypeOK, Modes
  <2> QED BY <1>1, <1>3, <2>1, <2>2
          DEF WriteInit, QuietUnlessUp, SizeTrails, DiskTrailsMemory
<1>4. CASE LoadSaved
  <2>1. dirty = {}
    BY <1>4 DEF LoadSaved, SavedFiles, QuietUnlessUp
  <2>2. TypeOK'
    BY <1>4 DEF LoadSaved, TypeOK, Modes, disk
  <2> QED BY <1>1, <1>4, <2>1, <2>2
          DEF LoadSaved, QuietUnlessUp, SizeTrails, DiskTrailsMemory, disk
<1>5. CASE LoadRejected \/ LoadWild
  <2>1. dirty = {}
    BY <1>5 DEF LoadRejected, LoadWild, SavedFiles, QuietUnlessUp
  <2>2. TypeOK'
    BY <1>5 DEF LoadRejected, LoadWild, TypeOK, Modes, memory, disk
  <2> QED BY <1>5, <2>1, <2>2
          DEF LoadRejected, LoadWild, QuietUnlessUp, SizeTrails, DiskTrailsMemory
<1> QED BY <1>2, <1>3, <1>4, <1>5 DEF Load

(* Every step keeps the invariant. *)
LEMMA DiskInvStep == DiskInv /\ [Next]_vars => DiskInv'
<1> SUFFICES ASSUME DiskInv, [Next]_vars PROVE DiskInv'
  OBVIOUS
<1>1. CASE Stop
  <2>1. NoRecords \in [Ids -> RecordItem] /\ <<>> \in Seq(Names \cup {0})
    BY BlankType, EmptySeq DEF Registry
  <2>2. TypeOK'
    BY <1>1, <2>1, MaxRecAssumption DEF DiskInv, Stop, TypeOK, Modes, disk
  <2> QED BY <1>1, <2>2
          DEF DiskInv, Stop, QuietUnlessUp, SizeTrails, DiskTrailsMemory
<1>2. CASE UNCHANGED vars
  BY <1>2 DEF DiskInv, TypeOK, QuietUnlessUp, SizeTrails, DiskTrailsMemory, Slots, vars
<1> QED BY <1>1, <1>2, LoadDiskInv, OperationDiskInv, WriteRecDiskInv DEF Next

(* The invariant holds in every behaviour. *)
LEMMA DiskInvAlways == Spec => []DiskInv
BY DiskInvInit, DiskInvStep, PTL DEF Spec

(* The registry and its files have their types, whatever the sizes of the   *)
(* vector and of the set of names, and wherever the process stops.          *)
THEOREM TypeCorrect == Spec => []TypeOK
<1>1. DiskInv => TypeOK
  BY DEF DiskInv
<1> QED BY <1>1, DiskInvAlways, PTL

(* The destructor's assertion: a loaded root's files differ from memory in  *)
(* the records still to be written and in nothing else.                    *)
THEOREM FilesTrailMemory == Spec => []DiskTrailsMemory
<1>1. DiskInv => DiskTrailsMemory
  BY DEF DiskInv
<1> QED BY <1>1, DiskInvAlways, PTL

-----------------------------------------------------------------------------
(***************************************************************************)
(* Names.  NamesNotShared is about a loaded root; what makes it hold is     *)
(* true at any moment, of memory and of the files an operation has only     *)
(* partly written: an offset that two records claim, either one in either   *)
(* place, has been erased.  verifyrec is not needed for it.                 *)
(***************************************************************************)
Claims(r, a) ==
  \/ recs[r].isactive /\ recs[r].name = a
  \/ drecs[r].isactive /\ drecs[r].name = a

Owned ==
  /\ \A r \in Ids, a \in Nat : Claims(r, a) => a < Len(drname)
  /\ \A r, s \in Ids, a \in Nat :
       r # s /\ Claims(r, a) /\ Claims(s, a) => drname[a + 1] = 0

(* A root is begun anew only if no record was ever written.                 *)
Begun ==
  /\ dnrec = 0 => drecs = NoRecords
  /\ dnrec # 0 => dnrec >= 2 /\ drname # <<>>
  /\ mode = "init" => nrec = 2 /\ drname # <<>>
  /\ mode = "up" => dnrec >= 2

NameInv == DiskInv /\ Owned /\ Begun

(* The same owners of the same names. *)
SameNames(R, S, ids) ==
  \A r \in Ids \ ids : S[r].name = R[r].name /\ S[r].isactive = R[r].isactive

(* The new record has its name, and no other record's changes. *)
LEMMA LinkedNames ==
  ASSUME NEW R \in Registry, NEW pid \in Ids, NEW pre \in Ids, NEW rid \in Ids,
         NEW new \in RecordItem
  PROVE  LET S == LinkRecord(AllocRec(R, rid, new), pid, pre, rid) IN
         SameNames(R, S, {rid}) /\ S[rid].name = new.name
<1> DEFINE A == AllocRec(R, rid, new)
<1>1. A \in Registry
  BY AllocRecLemma
<1>2. A[rid] = new /\ SameNames(R, A, {rid})
  BY DEF AllocRec, SameNames, Registry, RecordItem
<1> HIDE DEF A
<1>3. SameNames(A, LinkRecord(A, pid, pre, rid), {})
  BY <1>1 DEF LinkRecord, SameNames, Registry, RecordItem
<1> QED
  BY <1>2, <1>3 DEF SameNames, A

(* A removed record gives its name up, and no other record's changes. *)
LEMMA RecycledNames ==
  ASSUME NEW R \in Registry, NEW pid \in Ids, NEW pre \in Ids, NEW rid \in Ids,
         NEW rpre \in Ids, rpre # rid
  PROVE  LET S == RecycleRec(UnlinkRecord(R, pid, pre, rid), rpre, rid) IN
         SameNames(R, S, {rid}) /\ ~S[rid].isactive
<1> DEFINE U == UnlinkRecord(R, pid, pre, rid)
<1>1. U \in Registry
  BY UnlinkRecordLemma
<1>2. SameNames(R, U, {})
  BY DEF UnlinkRecord, SameNames, Registry, RecordItem
<1> HIDE DEF U
<1>3. SameNames(U, RecycleRec(U, rpre, rid), {rid}) /\ ~RecycleRec(U, rpre, rid)[rid].isactive
  BY <1>1 DEF RecycleRec, SameNames, Registry, RecordItem
<1> QED
  BY <1>2, <1>3 DEF SameNames, U

LEMMA InsertOwned ==
  ASSUME NameInv, NEW pid \in Ids, NEW n \in Names, NEW new \in RecordItem,
         Insert(pid, n, new)
  PROVE  Owned'
<1> DEFINE rid == NewId(recs, nrec)
           base == Len(drname)
           named == [new EXCEPT !.name = NameBase]
<1>1. TypeOK /\ drname = rname /\ drecs' = drecs /\ drname' = Append(drname, n)
  BY DEF NameInv, DiskInv, DiskTrailsMemory, Insert, Idle
<1>2. drname \in Seq(Names \cup {0}) /\ base \in Nat /\ NameBase = base
  BY <1>1 DEF TypeOK, NameBase
<1>3. PICK pre \in Slots :
        recs' = LinkRecord(AllocRec(recs, rid, named), pid, pre, rid)
  BY DEF Insert
<1>4. rid \in Ids /\ pre \in Ids /\ recs \in Registry
  BY <1>1, <1>3, MaxRecAssumption, SMTT(60) DEF Insert, TypeOK, Registry, Slots, Ids
<1>5. named \in RecordItem /\ named.name = base
  BY <1>2 DEF RecordItem
<1> HIDE DEF rid, named
<1>6. SameNames(recs, recs', {rid}) /\ recs'[rid].name = base
  BY <1>3, <1>4, <1>5, LinkedNames
<1> HIDE DEF base
<1>7. /\ Len(drname') = base + 1
      /\ \A a \in Nat : a < base => drname'[a + 1] = drname[a + 1]
  BY <1>1, <1>2, AppendProperties DEF base
<1>8. ASSUME NEW r \in Ids, NEW a \in Nat, Claims(r, a)'
      PROVE  Claims(r, a) \/ (r = rid /\ a = base)
  <2>1. CASE drecs[r].isactive /\ drecs[r].name = a
    BY <2>1 DEF Claims
  <2>2. CASE r # rid /\ recs'[r].isactive /\ recs'[r].name = a
    <3>1. recs[r].isactive /\ recs[r].name = a
      BY <1>6, <2>2 DEF SameNames
    <3> QED BY <3>1 DEF Claims
  <2>3. CASE r = rid /\ recs'[r].isactive /\ recs'[r].name = a
    BY <1>6, <2>3
  <2> QED BY <1>1, <1>8, <2>1, <2>2, <2>3 DEF Claims
<1>9. \A r \in Ids, a \in Nat : Claims(r, a) => a < base
  BY DEF NameInv, Owned, base
<1>10. \A r \in Ids, a \in Nat : Claims(r, a)' => a < Len(drname')
  BY <1>2, <1>7, <1>8, <1>9
<1>11. ASSUME NEW r \in Ids, NEW s \in Ids, NEW a \in Nat,
              r # s, Claims(r, a)', Claims(s, a)'
       PROVE  drname'[a + 1] = 0
  <2>1. CASE Claims(r, a) /\ Claims(s, a)
    <3>1. drname[a + 1] = 0
      BY <1>11, <2>1 DEF NameInv, Owned
    <3> QED BY <1>7, <1>9, <2>1, <3>1
  <2>2. CASE ~Claims(r, a) \/ ~Claims(s, a)
    <3>1. a = base
      BY <1>8, <1>11, <2>2
    <3>2. ~Claims(r, a) /\ ~Claims(s, a)
      BY <1>2, <1>9, <3>1
    <3> QED BY <1>8, <1>11, <3>2
  <2> QED BY <2>1, <2>2
<1> QED
  BY <1>10, <1>11 DEF Owned

LEMMA RemoveOwned ==
  ASSUME NameInv, NEW rid \in Slots, Remove(rid)
  PROVE  Owned'
<1> DEFINE off == recs[rid].name
<1>1. TypeOK /\ drecs' = drecs /\ drname' = [drname EXCEPT ![off + 1] = 0]
  BY DEF NameInv, DiskInv, Remove
<1>2. PICK pid \in Dirs(recs), pre \in Slots, rpre \in Slots :
        /\ IsRecyclePre(recs, rid, rpre)
        /\ recs' = RecycleRec(UnlinkRecord(recs, pid, pre, rid), rpre, rid)
  BY DEF Remove
<1>3. /\ rid \in Ids /\ pid \in Ids /\ pre \in Ids /\ rpre \in Ids /\ recs \in Registry
      /\ rpre # rid
  BY <1>1, <1>2, MaxRecAssumption
     DEF TypeOK, Registry, Slots, Ids, Dirs, Active, IsRecyclePre
<1>4. SameNames(recs, recs', {rid}) /\ ~recs'[rid].isactive
  BY <1>2, <1>3, RecycledNames
<1>5. ASSUME NEW r \in Ids, NEW a \in Nat, Claims(r, a)'
      PROVE  Claims(r, a)
  BY <1>1, <1>4, <1>5 DEF Claims, SameNames
<1>6. /\ drname \in Seq(Names \cup {0}) /\ Len(drname') = Len(drname)
      /\ \A a \in Nat : a < Len(drname) /\ drname[a + 1] = 0 => drname'[a + 1] = 0
  BY <1>1 DEF TypeOK
<1>7. \A r \in Ids, a \in Nat : Claims(r, a)' => a < Len(drname')
  BY <1>5, <1>6 DEF NameInv, Owned
<1>8. ASSUME NEW r \in Ids, NEW s \in Ids, NEW a \in Nat,
             r # s, Claims(r, a)', Claims(s, a)'
      PROVE  drname'[a + 1] = 0
  BY <1>5, <1>6, <1>8 DEF NameInv, Owned
<1> QED
  BY <1>7, <1>8 DEF Owned

LEMMA ModFileOwned ==
  ASSUME NameInv, NEW rid \in Slots, NEW attr \in Attrs, ModFile(rid, attr)
  PROVE  Owned'
<1>1. TypeOK /\ drecs' = drecs /\ drname' = drname
  BY DEF NameInv, DiskInv, ModFile, disk
<1>2. SameNames(recs, recs', {})
  <2>1. rid \in Ids
    BY <1>1, MaxRecAssumption DEF TypeOK, Slots, Ids
  <2>2. recs[rid] \in RecordItem
    BY <1>1, <2>1 DEF TypeOK
  <2>3. PICK new : /\ recs' = [recs EXCEPT ![rid] = new]
                   /\ new.name = recs[rid].name /\ new.isactive = recs[rid].isactive
    <3> DEFINE locked == [recs[rid] EXCEPT !.ispending = TRUE]
               saved == [recs[rid] EXCEPT !.ispending = FALSE,
                                          !.time = attr.time, !.sub = attr.size]
    <3>1. /\ locked.name = recs[rid].name /\ locked.isactive = recs[rid].isactive
          /\ saved.name = recs[rid].name /\ saved.isactive = recs[rid].isactive
      BY <2>2 DEF RecordItem
    <3>2. recs' = [recs EXCEPT ![rid] = saved] \/ recs' = [recs EXCEPT ![rid] = locked]
      BY DEF ModFile
    <3> HIDE DEF locked, saved
    <3> QED BY <3>1, <3>2
  <2> QED BY <1>1, <2>1, <2>3 DEF SameNames, TypeOK
<1>3. \A r \in Ids, a \in Nat : Claims(r, a)' => Claims(r, a)
  BY <1>1, <1>2 DEF Claims, SameNames
<1> QED
  BY <1>1, <1>3 DEF NameInv, Owned

(* Where no name is given out or erased, no claim is new. *)
LEMMA FewerClaims ==
  ASSUME Owned, drname' = drname,
         \A r \in Ids, a \in Nat : Claims(r, a)' => Claims(r, a)
  PROVE  Owned'
BY DEF Owned

LEMMA OperationNameInv == NameInv /\ Operation => Owned' /\ Begun'
<1> SUFFICES ASSUME NameInv, Operation PROVE Owned' /\ Begun'
  OBVIOUS
<1>1. Owned'
  <2>1. ASSUME NEW pid \in Parents, NEW n \in Names, NEW ignored \in BOOLEAN,
               AddDir(pid, n, ignored)
        PROVE  Owned'
    <3>1. [Blank EXCEPT !.isactive = TRUE, !.isdir = TRUE, !.isignore = ignored]
            \in RecordItem
      BY BlankType DEF RecordItem
    <3> QED BY <2>1, <3>1, InsertOwned DEF AddDir, Parents, Dirs, Active
  <2>2. ASSUME NEW pid \in Parents, NEW n \in Names, NEW attr \in Attrs,
               AddFile(pid, n, attr)
        PROVE  Owned'
    <3>1. attr.time \in Nat /\ attr.size \in Nat
      BY AttrsAssumption
    <3>2. [Blank EXCEPT !.isactive = TRUE, !.time = attr.time, !.sub = attr.size]
            \in RecordItem
      BY <3>1, BlankType DEF RecordItem
    <3> QED BY <2>2, <3>2, InsertOwned DEF AddFile, Parents, Dirs, Active
  <2>3. ASSUME NEW pid \in Parents, NEW n \in Names,
               AddIgnoredFile(pid, n) \/ AddLockedFile(pid, n)
        PROVE  Owned'
    <3>1. /\ [Blank EXCEPT !.isactive = TRUE, !.isignore = TRUE] \in RecordItem
          /\ [Blank EXCEPT !.isactive = TRUE, !.ispending = TRUE] \in RecordItem
      BY BlankType DEF RecordItem
    <3> QED BY <2>3, <3>1, InsertOwned
            DEF AddIgnoredFile, AddLockedFile, Parents, Dirs, Active
  <2> QED BY <2>1, <2>2, <2>3, RemoveOwned, ModFileOwned DEF Operation
<1>2. /\ mode = "up" /\ mode' = mode /\ drecs' = drecs /\ dnrec' = dnrec
      /\ drname # <<>> => drname' # <<>>
  <2>1. /\ mode = "up" /\ mode' = mode /\ drecs' = drecs /\ dnrec' = dnrec
        /\ \/ drname' = drname
           \/ \E n \in Names : drname' = Append(drname, n)
           \/ \E k \in Nat : drname' = [drname EXCEPT ![k] = 0]
    <3>1. ASSUME NEW rid \in Slots, Remove(rid)
          PROVE  \E k \in Nat : drname' = [drname EXCEPT ![k] = 0]
      <4>1. recs[rid].name + 1 \in Nat
        <5>1. rid \in Ids
          BY MaxRecAssumption DEF NameInv, DiskInv, TypeOK, Slots, Ids
        <5> QED BY <5>1 DEF NameInv, DiskInv, TypeOK, RecordItem
      <4> QED BY <3>1, <4>1 DEF Remove
    <3> QED BY <3>1, ZenonT(60) DEF Operation, AddDir, AddFile, AddIgnoredFile, AddLockedFile,
                        ModFile, Insert, Remove, Idle, disk
  <2>2. drname \in Seq(Names \cup {0})
    BY DEF NameInv, DiskInv, TypeOK
  <2> QED BY <2>1, <2>2
<1>3. Begun'
  BY <1>2 DEF NameInv, Begun
<1> QED BY <1>1, <1>3

LEMMA OtherNameInv == NameInv /\ (Load \/ WriteRec \/ Stop) => Owned' /\ Begun'
<1> SUFFICES ASSUME NameInv, Load \/ WriteRec \/ Stop PROVE Owned' /\ Begun'
  OBVIOUS
<1>0. Owned /\ Begun /\ TypeOK
  BY DEF NameInv, DiskInv
<1>1. CASE LoadFresh
  <2>1. drecs = NoRecords /\ dnrec = 0 /\ nrec' = 2 /\ mode' = "init"
    <3>1. dnrec \in Nat /\ ~(dnrec >= 2 /\ drname # <<>>)
      BY <1>0, <1>1, MaxRecAssumption DEF LoadFresh, TypeOK
    <3>2. dnrec = 0
      BY <1>0, <3>1 DEF Begun
    <3> QED BY <1>0, <1>1, <3>2 DEF LoadFresh, Begun
  <2>2. /\ drecs' = NoRecords /\ recs' = InitRecords /\ drname' = <<0>> /\ dnrec' = 0
    BY <1>1, <2>1 DEF LoadFresh
  <2>3. ASSUME NEW r \in Ids, NEW a \in Nat, Claims(r, a)' PROVE r = ROOT /\ a = 0
    BY <2>2, <2>3 DEF Claims, NoRecords, InitRecords, Blank
  <2>4. Owned'
    BY <2>2, <2>3 DEF Owned
  <2> QED BY <2>1, <2>2, <2>4 DEF Begun
<1>2. CASE WriteInit
  <2>1. /\ drecs' = recs /\ recs' = recs /\ drname' = drname
        /\ dnrec' = 2 /\ mode' = "up" /\ drname # <<>>
    BY <1>0, <1>2 DEF WriteInit, Begun
  <2>2. \A r \in Ids, a \in Nat : Claims(r, a)' => Claims(r, a)
    BY <2>1 DEF Claims
  <2> QED BY <1>0, <2>1, <2>2, FewerClaims DEF Begun
<1>3. CASE LoadSaved
  <2>1. /\ drecs' = drecs /\ recs' = drecs /\ drname' = drname /\ dnrec' = dnrec
        /\ mode' = "up" /\ dnrec >= 2
    BY <1>3 DEF LoadSaved, SavedFiles, disk
  <2>2. \A r \in Ids, a \in Nat : Claims(r, a)' => Claims(r, a)
    BY <2>1 DEF Claims
  <2> QED BY <1>0, <2>1, <2>2, FewerClaims DEF Begun
<1>4. CASE LoadRejected \/ LoadWild
  <2>1. /\ drecs' = drecs /\ recs' = recs /\ drname' = drname /\ dnrec' = dnrec
        /\ mode' \in {"failed", "undefined"}
    BY <1>4 DEF LoadRejected, LoadWild, memory, disk
  <2>2. \A r \in Ids, a \in Nat : Claims(r, a)' => Claims(r, a)
    BY <2>1 DEF Claims
  <2> QED BY <1>0, <2>1, <2>2, FewerClaims DEF Begun
<1>5. CASE WriteRec
  <2>1. PICK c \in dirty : /\ drecs' = [drecs EXCEPT ![c] = recs[c]]
                           /\ dnrec' = IF c >= dnrec THEN c + 1 ELSE dnrec
    BY <1>5 DEF WriteRec
  <2>2. recs' = recs /\ drname' = drname /\ mode' = mode /\ mode = "up"
    BY <1>5 DEF WriteRec, memory
  <2>3. \A r \in Ids, a \in Nat : Claims(r, a)' => Claims(r, a)
    BY <1>0, <2>1, <2>2 DEF Claims, TypeOK
  <2>4. dnrec' >= 2
    BY <1>0, <2>1, <2>2, MaxRecAssumption DEF Begun, TypeOK, Ids
  <2>5. drname # <<>>
    BY <1>0, <2>2 DEF Begun
  <2> QED BY <1>0, <2>2, <2>3, <2>4, <2>5, FewerClaims DEF Begun
<1>6. CASE Stop
  <2>1. /\ drecs' = drecs /\ recs' = NoRecords /\ drname' = drname /\ dnrec' = dnrec
        /\ mode' = "down"
    BY <1>6 DEF Stop, disk
  <2>2. \A r \in Ids, a \in Nat : Claims(r, a)' => Claims(r, a)
    BY <2>1 DEF Claims, NoRecords, Blank
  <2> QED BY <1>0, <2>1, <2>2, FewerClaims DEF Begun
<1> QED BY <1>1, <1>2, <1>3, <1>4, <1>5, <1>6 DEF Load

LEMMA NameInvAlways == Spec => []NameInv
<1>1. Init => NameInv
  <2> SUFFICES ASSUME Init PROVE NameInv
    OBVIOUS
  <2>1. \A r \in Ids, a \in Nat : ~Claims(r, a)
    BY DEF Init, Claims, NoRecords, Blank
  <2> QED BY <2>1, DiskInvInit DEF Init, NameInv, Owned, Begun
<1>2. NameInv /\ [Next]_vars => NameInv'
  <2>1. CASE UNCHANGED vars
    BY <2>1, DiskInvStep DEF NameInv, Owned, Begun, Claims, vars
  <2> QED BY <2>1, DiskInvStep, OperationNameInv, OtherNameInv DEF NameInv, Next
<1> QED BY <1>1, <1>2, PTL DEF Spec

(* eraseName and allocRName never leave two records with one name, whatever  *)
(* was stopped in between: in a loaded root whose entries all have names,    *)
(* each name has one owner.                                                *)
THEOREM NamesHaveOneOwner == Spec => []NamesNotShared
<1>1. NameInv => NamesNotShared
  <2> SUFFICES ASSUME NameInv, mode = "up", OnlyRootNameless,
                      NEW r \in Active(recs), NEW s \in Active(recs),
                      r # s, recs[r].name = recs[s].name
               PROVE  FALSE
    BY DEF NamesNotShared
  <2>1. /\ r \in Ids /\ s \in Ids /\ recs[r].name \in Nat
        /\ Claims(r, recs[r].name) /\ Claims(s, recs[r].name)
    BY DEF Active, Claims, NameInv, DiskInv, TypeOK, RecordItem
  <2>2. rname = drname /\ drname[recs[r].name + 1] = 0
    BY <2>1 DEF NameInv, DiskInv, DiskTrailsMemory, Owned
  <2>3. NameOf(r) = 0 /\ NameOf(s) = 0
    BY <2>2 DEF NameOf, NameAt
  <2> QED BY <2>3 DEF OnlyRootNameless
<1> QED BY <1>1, NameInvAlways, PTL

-----------------------------------------------------------------------------
(***************************************************************************)
(* The rest of this module is about the links: that verifyrec and verifydir *)
(* pass whenever they are asked, and that verifyrec never goes on for ever. *)
(* Walks are functions defined from their value before; these lemmas say    *)
(* what LET f[n \in 0 .. m] chooses.                                       *)
(***************************************************************************)
(* Induction over the steps of a walk is done with sets.                       *)
LEMMA Least ==
  ASSUME NEW T \in SUBSET Nat, T # {}
  PROVE  \E x \in T : \A y \in T : x <= y
<1> DEFINE R == {ss \in Nat \X Nat : ss[1] < ss[2]}
<1>1. IsWellFoundedOn(R, Nat)
  BY NatLessThanWellFounded DEF OpToRel
<1>2. PICK x \in T : \A y \in T : ~ (<<y, x>> \in R)
  BY <1>1, WFMin
<1>3. \A y \in T : ~(y < x)
  <2> TAKE y \in T
  <2>1. ~(<<y, x>> \in R) /\ <<y, x>> \in Nat \X Nat
    BY <1>2
  <2> QED BY <2>1
<1> HIDE DEF R
<1>4. x \in Nat /\ \A y \in T : y \in Nat
  OBVIOUS
<1> QED BY <1>3, <1>4

LEMMA Induct ==
  ASSUME NEW n \in Nat, NEW T, 0 \in T, \A k \in 1 .. n : k - 1 \in T => k \in T
  PROVE  \A k \in 0 .. n : k \in T
<1> DEFINE missed == {k \in 0 .. n : k \notin T}
<1> SUFFICES ASSUME missed # {} PROVE FALSE
  OBVIOUS
<1>1. missed \in SUBSET Nat
  OBVIOUS
<1>2. PICK m \in missed : \A j \in missed : m <= j
  <2> HIDE DEF missed
  <2> QED BY <1>1, Least
<1>3. m \in 1 .. n /\ m - 1 \in 0 .. n
  OBVIOUS
<1>4. m - 1 \notin missed
  BY <1>2, <1>3
<1> QED BY <1>3, <1>4

(* A function defined from its value before: what LET f[n \in 0 .. m] chooses.   *)
Recursive(f, n, a, step) ==
  f = [k \in 0 .. n |-> IF k = 0 THEN a ELSE step[k][f[k - 1]]]

Determined(n, V, a, step) ==
  /\ \E f : Recursive(f, n, a, step)
  /\ \A f : Recursive(f, n, a, step) =>
       /\ f \in [0 .. n -> V] /\ f[0] = a
       /\ \A k \in 1 .. n : f[k] = step[k][f[k - 1]]

LEMMA RecursionExists ==
  ASSUME NEW n \in Nat, NEW V, NEW a \in V, NEW step, \A k \in 1 .. n : \A v \in V : step[k][v] \in V
  PROVE  Determined(n, V, a, step)
<1> DEFINE Found(m) == \E g \in [0 .. m -> V] :
                         g[0] = a /\ \A k \in 1 .. m : g[k] = step[k][g[k - 1]]
           T == {m \in Nat : Found(m)}
<1>1. Found(0)
  <2> DEFINE g == [k \in 0 .. 0 |-> a]
  <2>1. g \in [0 .. 0 -> V] /\ g[0] = a /\ \A k \in 1 .. 0 : FALSE
    OBVIOUS
  <2> HIDE DEF g
  <2> QED BY <2>1
<1>2. \A m \in 1 .. n : Found(m - 1) => Found(m)
  <2> TAKE m \in 1 .. n
  <2> HAVE Found(m - 1)
  <2>1. PICK g \in [0 .. m - 1 -> V] :
          g[0] = a /\ \A k \in 1 .. m - 1 : g[k] = step[k][g[k - 1]]
    OBVIOUS
  <2> DEFINE h == [k \in 0 .. m |-> IF k = m THEN step[m][g[m - 1]] ELSE g[k]]
  <2>2. step[m][g[m - 1]] \in V
    BY <2>1
  <2>3. \A k \in 0 .. m : k # m => k \in 0 .. m - 1
    OBVIOUS
  <2>4. h \in [0 .. m -> V]
    BY <2>1, <2>2, <2>3
  <2>5. h[0] = a /\ h[m] = step[m][g[m - 1]] /\ \A k \in 0 .. m - 1 : h[k] = g[k]
    BY <2>1
  <2> HIDE DEF h
  <2>6. \A k \in 1 .. m : h[k] = step[k][h[k - 1]]
    <3> TAKE k \in 1 .. m
    <3>1. CASE k = m
      BY <2>5, <3>1
    <3>2. CASE k # m
      <4>1. k \in 1 .. m - 1 /\ k \in 0 .. m - 1 /\ k - 1 \in 0 .. m - 1
        BY <3>2
      <4> QED BY <2>1, <2>5, <4>1
    <3> QED BY <3>1, <3>2
  <2> QED BY <2>4, <2>5, <2>6
<1>3. Found(n)
  <2> HIDE DEF Found
  <2>1. 0 \in T /\ \A k \in 1 .. n : k - 1 \in T => k \in T
    BY <1>1, <1>2
  <2> HIDE DEF T
  <2>2. n \in T
    BY <2>1, Induct
  <2> QED BY <2>2 DEF T
<1>4. PICK g \in [0 .. n -> V] : g[0] = a /\ \A k \in 1 .. n : g[k] = step[k][g[k - 1]]
  BY <1>3
<1>5. Recursive(g, n, a, step)
  <2>1. \A k \in 0 .. n : g[k] = IF k = 0 THEN a ELSE step[k][g[k - 1]]
    <3> TAKE k \in 0 .. n
    <3>1. k # 0 => k \in 1 .. n
      OBVIOUS
    <3> QED BY <1>4, <3>1
  <2> QED BY <1>4, <2>1 DEF Recursive
<1>6. ASSUME NEW f, Recursive(f, n, a, step)
      PROVE  /\ f \in [0 .. n -> V] /\ f[0] = a
             /\ \A k \in 1 .. n : f[k] = step[k][f[k - 1]]
  <2>1. \A k \in 0 .. n : f[k] = IF k = 0 THEN a ELSE step[k][f[k - 1]]
    BY <1>6 DEF Recursive
  <2>2. f[0] = a /\ \A k \in 1 .. n : f[k] = step[k][f[k - 1]]
    <3>1. 0 \in 0 .. n /\ \A k \in 1 .. n : k \in 0 .. n /\ k # 0
      OBVIOUS
    <3> QED BY <2>1, <3>1
  <2> DEFINE U == {k \in 0 .. n : f[k] \in V}
  <2>3. 0 \in U /\ \A k \in 1 .. n : k - 1 \in U => k \in U
    BY <2>2
  <2> HIDE DEF U
  <2>4. \A k \in 0 .. n : k \in U
    BY <2>3, Induct
  <2>5. \A k \in 0 .. n : f[k] \in V
    BY <2>4 DEF U
  <2>6. f \in [0 .. n -> V]
    BY <1>6, <2>5 DEF Recursive
  <2> QED BY <2>2, <2>6
<1> QED BY <1>5, <1>6 DEF Determined

(* The same step again and again.                                           *)
Iterates(f, n, V, a, next) ==
  f \in [0 .. n -> V] /\ f[0] = a /\ \A k \in 1 .. n : f[k] = next[f[k - 1]]

Iteration(g, n, a, next) == g = [k \in 0 .. n |-> IF k = 0 THEN a ELSE next[g[k - 1]]]

Iterate(n, a, next) == CHOOSE g : Iteration(g, n, a, next)

LEMMA Iterated ==
  ASSUME NEW n \in Nat, NEW V, NEW a \in V, NEW next, \A v \in V : next[v] \in V
  PROVE  Iterates(Iterate(n, a, next), n, V, a, next)
<1> DEFINE step == [k \in 1 .. n |-> next]
<1>1. \A k \in 1 .. n : step[k] = next
  OBVIOUS
<1> HIDE DEF step
<1>2. \A g : Recursive(g, n, a, step) <=> Iteration(g, n, a, next)
  <2> TAKE g
  <2>1. \A k \in 0 .. n : (IF k = 0 THEN a ELSE step[k][g[k - 1]])
                        = (IF k = 0 THEN a ELSE next[g[k - 1]])
    <3>1. \A k \in 0 .. n : k # 0 => k \in 1 .. n
      OBVIOUS
    <3> QED BY <1>1, <3>1
  <2>2. [k \in 0 .. n |-> IF k = 0 THEN a ELSE step[k][g[k - 1]]]
      = [k \in 0 .. n |-> IF k = 0 THEN a ELSE next[g[k - 1]]]
    BY <2>1
  <2> QED BY <2>2 DEF Recursive, Iteration
<1>3. \A k \in 1 .. n : \A v \in V : step[k][v] \in V
  BY <1>1
<1>4. Determined(n, V, a, step)
  BY <1>3, RecursionExists
<1>5. \A g : Recursive(g, n, a, step) => Iterates(g, n, V, a, next)
  BY <1>1, <1>4 DEF Determined, Iterates
<1>6. \E g : Iteration(g, n, a, next)
  BY <1>2, <1>4 DEF Determined
<1>7. Iteration(Iterate(n, a, next), n, a, next)
  BY <1>6 DEF Iterate
<1> QED BY <1>2, <1>5, <1>7

-----------------------------------------------------------------------------
(***************************************************************************)
(* The first walk of verifyrec.  C are the records of the recycle list and   *)
(* pos their places in it: record 0 has the first place, and each record but *)
(* the last leads to the one in the next place.                             *)
(***************************************************************************)
Spare(R, size, r) == r < size /\ ~R[r].isactive

LeadsOn(R, C, M, pos, r) ==
  IF R[r].next = 0 THEN pos[r] = M ELSE R[r].next \in C /\ pos[R[r].next] = pos[r] + 1

(* Nothing is asked of a record at which the walk stops.                     *)
ListNumbered(R, size, C, M, pos) ==
  /\ C \subseteq Ids /\ 0 \in C /\ M \in 0 .. MaxRec /\ size > 0
  /\ pos \in [C -> 1 .. M] /\ pos[0] = 1
  /\ \A r, s \in C : pos[r] = pos[s] => r = s
  /\ \A r \in C : r = 0 \/ Spare(R, size, r) => LeadsOn(R, C, M, pos, r)

RecycleStates == [id : Nat, nrecy : Nat, is : {"walking", "ok", "bad", "ub"}]

RecycleStart(R) == [id |-> R[0].next, nrecy |-> 1, is |-> "walking"]

RecycleStep(R, size, w) ==
  CASE w.is # "walking" -> w
    [] w.is = "walking" /\ w.id = 0 -> [w EXCEPT !.is = "ok"]
    [] w.is = "walking" /\ w.id >= size -> [w EXCEPT !.is = "ub"]
    [] w.is = "walking" /\ w.id \in 1 .. size - 1 ->
         IF R[w.id].isactive THEN [w EXCEPT !.is = "bad"]
         ELSE [w EXCEPT !.id = R[w.id].next, !.nrecy = @ + 1]

IsRecycleWalk(R, size, g) ==
  g = [k \in 0 .. MaxRec |-> IF k = 0 THEN RecycleStart(R) ELSE RecycleStep(R, size, g[k - 1])]

RecycleSteps(R, size, g) ==
  /\ g \in [0 .. MaxRec -> RecycleStates] /\ g[0] = RecycleStart(R)
  /\ \A k \in 1 .. MaxRec : g[k] = RecycleStep(R, size, g[k - 1])

LEMMA RecycleStepType ==
  ASSUME NEW R \in Registry, NEW size \in 0 .. MaxRec, NEW w \in RecycleStates
  PROVE  RecycleStep(R, size, w) \in RecycleStates
<1>1. w.id \in Nat /\ w.nrecy \in Nat /\ size \in Nat /\ MaxRec \in Nat
  BY MaxRecAssumption DEF RecycleStates
<1>2. CASE w.is # "walking"
  BY <1>2 DEF RecycleStep
<1>3. CASE w.is = "walking" /\ w.id = 0
  BY <1>3 DEF RecycleStep, RecycleStates
<1>4. CASE w.is = "walking" /\ w.id # 0 /\ w.id >= size
  <2>1. RecycleStep(R, size, w) = [w EXCEPT !.is = "ub"]
    BY <1>1, <1>4 DEF RecycleStep
  <2> QED BY <2>1 DEF RecycleStates
<1>5. CASE w.is = "walking" /\ w.id # 0 /\ ~(w.id >= size)
  <2>1. w.id \in 1 .. size - 1 /\ w.id \in Ids
    BY <1>1, <1>5 DEF Ids
  <2>2. R[w.id].next \in Nat
    BY <2>1 DEF Registry, RecordItem
  <2>3. RecycleStep(R, size, w) = IF R[w.id].isactive THEN [w EXCEPT !.is = "bad"]
                                  ELSE [w EXCEPT !.id = R[w.id].next, !.nrecy = @ + 1]
    BY <1>5, <2>1 DEF RecycleStep
  <2>4. w.nrecy + 1 \in Nat
    BY <1>1
  <2> QED BY <2>2, <2>3, <2>4 DEF RecycleStates
<1> QED BY <1>2, <1>3, <1>4, <1>5

LEMMA RecycleWalked ==
  ASSUME NEW R \in Registry, NEW size \in 0 .. MaxRec
  PROVE  \E g : RecycleSteps(R, size, g) /\ RecycleWalk(R, size) = g[MaxRec]
<1> DEFINE one == [w \in RecycleStates |-> RecycleStep(R, size, w)]
<1>1. MaxRec \in Nat /\ 0 \in Ids
  BY MaxRecAssumption DEF Ids
<1>2. RecycleStart(R) \in RecycleStates
  <2>1. R[0].next \in Nat
    BY <1>1 DEF Registry, RecordItem
  <2> QED BY <2>1 DEF RecycleStart, RecycleStates
<1>3. \A w \in RecycleStates : one[w] \in RecycleStates /\ one[w] = RecycleStep(R, size, w)
  BY RecycleStepType
<1> HIDE DEF one
<1>4. PICK f : Iterates(f, MaxRec, RecycleStates, RecycleStart(R), one)
  <2>1. \A w \in RecycleStates : one[w] \in RecycleStates
    BY <1>3
  <2> QED BY <1>1, <1>2, <2>1, Iterated
<1>5. IsRecycleWalk(R, size, f)
  <2>1. /\ f \in [0 .. MaxRec -> RecycleStates] /\ f[0] = RecycleStart(R)
        /\ \A k \in 1 .. MaxRec : f[k] = one[f[k - 1]]
    BY <1>4 DEF Iterates
  <2>2. \A k \in 0 .. MaxRec :
          f[k] = IF k = 0 THEN RecycleStart(R) ELSE RecycleStep(R, size, f[k - 1])
    <3> TAKE k \in 0 .. MaxRec
    <3>1. k # 0 => k \in 1 .. MaxRec /\ k - 1 \in 0 .. MaxRec
      BY <1>1
    <3> QED BY <1>3, <2>1, <3>1
  <2> QED BY <2>1, <2>2 DEF IsRecycleWalk
<1> DEFINE g == CHOOSE walk : IsRecycleWalk(R, size, walk)
<1>6. IsRecycleWalk(R, size, g)
  BY <1>5
<1>7. RecycleWalk(R, size) = g[MaxRec]
  BY DEF RecycleWalk, IsRecycleWalk, RecycleStart, RecycleStep
<1> HIDE DEF g
<1>8. /\ g[0] = RecycleStart(R)
      /\ \A k \in 1 .. MaxRec : g[k] = RecycleStep(R, size, g[k - 1])
  <2>1. \A k \in 0 .. MaxRec :
          g[k] = IF k = 0 THEN RecycleStart(R) ELSE RecycleStep(R, size, g[k - 1])
    BY <1>6 DEF IsRecycleWalk
  <2>2. 0 \in 0 .. MaxRec /\ \A k \in 1 .. MaxRec : k \in 0 .. MaxRec /\ k # 0
    BY <1>1
  <2> QED BY <2>1, <2>2
<1> DEFINE T == {k \in 0 .. MaxRec : g[k] \in RecycleStates}
<1>9. 0 \in T /\ \A k \in 1 .. MaxRec : k - 1 \in T => k \in T
  BY <1>1, <1>2, <1>8, RecycleStepType
<1>10. \A k \in 0 .. MaxRec : k \in T
  <2> HIDE DEF T
  <2> QED BY <1>1, <1>9, Induct
<1>11. g \in [0 .. MaxRec -> RecycleStates]
  BY <1>6, <1>10 DEF IsRecycleWalk
<1> QED BY <1>7, <1>8, <1>11 DEF RecycleSteps

(* Where the walk is after k steps: behind the records of the first places,  *)
(* or at an end that tells whether every record of the list is spare.        *)
AllSpare(R, size, C) == \A r \in C : r = 0 \/ Spare(R, size, r)

OnTheList(R, size, C, M, pos, w, k) ==
  /\ w \in RecycleStates
  /\ w.is = "walking" =>
       /\ w.nrecy = k + 1 /\ w.nrecy <= M
       /\ IF w.id = 0 THEN w.nrecy = M ELSE w.id \in C /\ pos[w.id] = w.nrecy + 1
       /\ \A r \in C : pos[r] <= w.nrecy => r = 0 \/ Spare(R, size, r)
  /\ w.is = "ok" => w.nrecy = M /\ AllSpare(R, size, C)
  /\ w.is \in {"bad", "ub"} => ~AllSpare(R, size, C)
  /\ w.is = "ub" => \E r \in C : r >= size

LEMMA RecycleWalkStep ==
  ASSUME NEW R \in Registry, NEW size \in 0 .. MaxRec, NEW C, NEW M, NEW pos,
         ListNumbered(R, size, C, M, pos), NEW k \in Nat, NEW w,
         OnTheList(R, size, C, M, pos, w, k)
  PROVE  OnTheList(R, size, C, M, pos, RecycleStep(R, size, w), k + 1)
<1> DEFINE v == RecycleStep(R, size, w)
<1>1. /\ MaxRec \in Nat /\ size \in Nat /\ size > 0 /\ M \in Nat /\ C \subseteq Ids /\ 0 \in C
      /\ \A r \in C : pos[r] \in 1 .. M /\ r \in Nat
      /\ \A r, s \in C : pos[r] = pos[s] => r = s
      /\ \A r \in C : r = 0 \/ Spare(R, size, r) => LeadsOn(R, C, M, pos, r)
  BY MaxRecAssumption DEF ListNumbered, Ids
<1>2. w \in RecycleStates /\ w.id \in Nat /\ w.nrecy \in Nat /\ v \in RecycleStates
  BY RecycleStepType DEF OnTheList, RecycleStates
<1>3. CASE w.is # "walking"
  <2>1. v = w
    BY <1>3 DEF RecycleStep
  <2> QED BY <1>3, <2>1 DEF OnTheList
<1>4. CASE w.is = "walking" /\ w.id = 0
  <2>1. v = [w EXCEPT !.is = "ok"]
    <3>1. ~(w.id >= size) /\ w.id \notin 1 .. size - 1
      BY <1>1, <1>4
    <3> QED BY <1>4, <3>1 DEF RecycleStep
  <2>2. w.nrecy = M /\ \A r \in C : pos[r] <= w.nrecy => r = 0 \/ Spare(R, size, r)
    BY <1>4 DEF OnTheList
  <2>3. AllSpare(R, size, C)
    BY <1>1, <2>2 DEF AllSpare
  <2>4. v.is = "ok" /\ v.nrecy = M
    BY <1>2, <2>1, <2>2 DEF RecycleStates
  <2> QED BY <1>2, <2>3, <2>4 DEF OnTheList
<1>5. CASE w.is = "walking" /\ w.id # 0 /\ ~Spare(R, size, w.id)
  <2>1. w.id \in C
    BY <1>5 DEF OnTheList
  <2>2. ~AllSpare(R, size, C)
    BY <1>5, <2>1 DEF AllSpare
  <2>3. v = [w EXCEPT !.is = "ub"] \/ v = [w EXCEPT !.is = "bad"]
    <3>1. CASE w.id >= size
      BY <1>1, <1>2, <1>5, <3>1 DEF RecycleStep
    <3>2. CASE ~(w.id >= size)
      <4>1. w.id \in 1 .. size - 1 /\ R[w.id].isactive
        BY <1>1, <1>2, <1>5, <3>2 DEF Spare
      <4> QED BY <1>1, <1>5, <3>2, <4>1 DEF RecycleStep
    <3> QED BY <3>1, <3>2
  <2>4. v.is \in {"bad", "ub"}
    BY <1>2, <2>3 DEF RecycleStates
  <2>5. v.is = "ub" => w.id >= size
    <3> SUFFICES ASSUME ~(w.id >= size) PROVE v.is # "ub"
      OBVIOUS
    <3>1. w.id \in 1 .. size - 1 /\ R[w.id].isactive
      BY <1>1, <1>2, <1>5 DEF Spare
    <3>2. v = [w EXCEPT !.is = "bad"]
      BY <1>1, <1>5, <3>1 DEF RecycleStep
    <3> QED BY <1>2, <3>2 DEF RecycleStates
  <2> QED BY <1>2, <2>1, <2>2, <2>4, <2>5 DEF OnTheList
<1>6. CASE w.is = "walking" /\ w.id # 0 /\ Spare(R, size, w.id)
  <2>1. /\ w.nrecy = k + 1 /\ w.nrecy <= M /\ w.id \in C /\ pos[w.id] = w.nrecy + 1
        /\ \A r \in C : pos[r] <= w.nrecy => r = 0 \/ Spare(R, size, r)
    BY <1>6 DEF OnTheList
  <2>2. w.id \in 1 .. size - 1 /\ ~R[w.id].isactive
    BY <1>1, <1>2, <1>6 DEF Spare
  <2>3. v = [w EXCEPT !.id = R[w.id].next, !.nrecy = @ + 1]
    BY <1>1, <1>6, <2>2 DEF RecycleStep
  <2>4. v.is = "walking" /\ v.id = R[w.id].next /\ v.nrecy = w.nrecy + 1
    BY <1>2, <1>6, <2>3 DEF RecycleStates
  <2>5. LeadsOn(R, C, M, pos, w.id)
    BY <1>1, <1>6, <2>1
  <2>6. /\ v.nrecy = k + 1 + 1 /\ v.nrecy <= M
        /\ IF v.id = 0 THEN v.nrecy = M ELSE v.id \in C /\ pos[v.id] = v.nrecy + 1
    <3>1. pos[w.id] \in 1 .. M
      BY <1>1, <2>1
    <3> QED BY <2>1, <2>4, <2>5, <3>1 DEF LeadsOn
  <2>7. \A r \in C : pos[r] <= v.nrecy => r = 0 \/ Spare(R, size, r)
    <3> TAKE r \in C
    <3> HAVE pos[r] <= v.nrecy
    <3>1. pos[r] <= w.nrecy \/ pos[r] = pos[w.id]
      BY <1>1, <1>2, <2>1, <2>4
    <3> QED BY <1>1, <1>6, <2>1, <3>1
  <2> QED BY <1>2, <2>4, <2>6, <2>7 DEF OnTheList
<1> QED BY <1>3, <1>4, <1>5, <1>6

(* The first walk ends, and passes exactly when every record is spare.       *)
LEMMA RecycleWalkEnds ==
  ASSUME NEW R \in Registry, NEW size \in 0 .. MaxRec, NEW C, NEW M, NEW pos,
         ListNumbered(R, size, C, M, pos)
  PROVE  /\ RecycleWalk(R, size).is \in {"ok", "bad", "ub"}
         /\ RecycleWalk(R, size).is = "ok" <=> AllSpare(R, size, C)
         /\ RecycleWalk(R, size).is = "ok" => RecycleWalk(R, size).nrecy = M
         /\ RecycleWalk(R, size).is = "ub" => \E r \in C : r >= size
<1>1. PICK g : RecycleSteps(R, size, g) /\ RecycleWalk(R, size) = g[MaxRec]
  BY RecycleWalked
<1>2. /\ MaxRec \in Nat /\ 0 \in Ids /\ M \in 0 .. MaxRec /\ 0 \in C /\ pos[0] = 1
      /\ pos[0] \in 1 .. M
      /\ \A r, s \in C : pos[r] = pos[s] => r = s
      /\ \A r \in C : pos[r] \in 1 .. M
      /\ LeadsOn(R, C, M, pos, 0)
  BY MaxRecAssumption DEF Ids, ListNumbered
<1> DEFINE T == {k \in 0 .. MaxRec : OnTheList(R, size, C, M, pos, g[k], k)}
<1>3. 0 \in T
  <2>1. g[0] = RecycleStart(R) /\ g[0] \in RecycleStates
    BY <1>1, <1>2 DEF RecycleSteps
  <2>2. g[0].id = R[0].next /\ g[0].nrecy = 1 /\ g[0].is = "walking"
    BY <2>1 DEF RecycleStart
  <2>3. \A r \in C : pos[r] <= 1 => r = 0
    <3> TAKE r \in C
    <3> HAVE pos[r] <= 1
    <3>1. pos[r] = 1
      BY <1>2
    <3> QED BY <1>2, <3>1
  <2>4. OnTheList(R, size, C, M, pos, g[0], 0)
    BY <1>2, <2>1, <2>2, <2>3 DEF OnTheList, LeadsOn
  <2> QED BY <1>2, <2>4
<1>4. \A k \in 1 .. MaxRec : k - 1 \in T => k \in T
  <2> TAKE k \in 1 .. MaxRec
  <2> HAVE k - 1 \in T
  <2>1. k - 1 \in Nat /\ k - 1 + 1 = k /\ OnTheList(R, size, C, M, pos, g[k - 1], k - 1)
    BY <1>2
  <2>2. OnTheList(R, size, C, M, pos, RecycleStep(R, size, g[k - 1]), k - 1 + 1)
    BY <2>1, RecycleWalkStep
  <2>3. g[k] = RecycleStep(R, size, g[k - 1])
    BY <1>1 DEF RecycleSteps
  <2> QED BY <1>2, <2>1, <2>2, <2>3
<1>5. MaxRec \in T
  <2> HIDE DEF T
  <2> QED BY <1>2, <1>3, <1>4, Induct
<1> DEFINE w == g[MaxRec]
<1>6. OnTheList(R, size, C, M, pos, w, MaxRec)
  BY <1>5
<1> HIDE DEF w, T
<1>7. w \in RecycleStates /\ w.nrecy \in Nat /\ w.is \in {"walking", "ok", "bad", "ub"}
  BY <1>6 DEF OnTheList, RecycleStates
<1>8. w.is # "walking"
  BY <1>2, <1>6, <1>7 DEF OnTheList
<1>9. RecycleWalk(R, size) = w
  BY <1>1 DEF w
<1> QED BY <1>6, <1>7, <1>8, <1>9 DEF OnTheList

-----------------------------------------------------------------------------
(***************************************************************************)
(* The second walk.  T are the records of the tree, pos their places in the  *)
(* order in which the walk reads them, and par the directory of each; end is *)
(* the last place below a record.  0 stands above the root.                  *)
(***************************************************************************)
TreeNumbered(T, N, pos, end, par) ==
  /\ T \subseteq Ids \ {0} /\ ROOT \in T /\ N \in 0 .. MaxRec
  /\ pos \in [T \cup {0} -> 0 .. N] /\ end \in [T \cup {0} -> 0 .. N]
  /\ par \in [T -> T \cup {0}]
  /\ pos[0] = 0 /\ end[0] = N /\ pos[ROOT] = 1 /\ par[ROOT] = 0
  /\ \A q, r \in T \cup {0} : pos[q] = pos[r] => q = r
  /\ \A r \in T : pos[par[r]] < pos[r] /\ pos[r] <= end[r] /\ end[r] <= end[par[r]]
  /\ \A q \in T \cup {0}, r \in T :
       pos[q] <= pos[r] /\ pos[r] <= end[q] =>
         end[r] <= end[q] /\ (q # r => pos[q] <= pos[par[r]])

(* The links of a record lead to the records in the places they should.      *)
FirstLink(R, T, pos, end, par, r) ==
  LET sub == R[r].sub
  IN IF R[r].isdir /\ sub # 0
     THEN sub \in T /\ pos[sub] = pos[r] + 1 /\ par[sub] = r
     ELSE end[r] = pos[r]

NextLink(R, T, pos, end, par, r) ==
  LET next == NextSibling(R, r)
  IN IF next = 0 THEN end[r] = end[par[r]]
     ELSE next \in T /\ pos[next] = end[r] + 1 /\ par[next] = par[r]

LoopsBack(R, par, r) == R[r].islast /\ par[r] # 0 => R[r].next = par[r]

NodeLinked(R, T, pos, end, par, r) ==
  /\ FirstLink(R, T, pos, end, par, r)
  /\ NextLink(R, T, pos, end, par, r)
  /\ LoopsBack(R, par, r)

(* Again nothing is asked of a record at which the walk stops.               *)
Readable(R, size, names, r) == r < size /\ R[r].isactive /\ R[r].name < Len(names)

AllReadable(R, size, names, T) == \A r \in T : Readable(R, size, names, r)

TreeLinked(R, size, names, T, pos, end, par) ==
  size > 0 /\ \A r \in T : Readable(R, size, names, r) => NodeLinked(R, T, pos, end, par, r)

(* The directories entered, from the inmost to the root.                     *)
TraceUp(T, par, trace) ==
  \A i \in 1 .. Len(trace) :
    /\ trace[i] \in T
    /\ par[trace[i]] = IF i < Len(trace) THEN trace[i + 1] ELSE 0

Above(trace) == IF trace = <<>> THEN 0 ELSE trace[1]

LEMMA TracePush ==
  ASSUME NEW T, T \subseteq Ids, NEW par, NEW trace \in Seq(Ids), TraceUp(T, par, trace),
         NEW id \in T, par[id] = Above(trace)
  PROVE  /\ <<id>> \o trace \in Seq(Ids) /\ TraceUp(T, par, <<id>> \o trace)
         /\ Above(<<id>> \o trace) = id /\ Len(<<id>> \o trace) = Len(trace) + 1
<1>1. PICK longer : longer = <<id>> \o trace
  OBVIOUS
<1>2. id \in Ids /\ <<id>> \in Seq(Ids) /\ Len(trace) \in Nat
  OBVIOUS
<1>3. /\ longer \in Seq(Ids) /\ Len(longer) = Len(trace) + 1 /\ longer[1] = id
      /\ \A i \in 1 .. Len(trace) : longer[i + 1] = trace[i]
  BY <1>1, <1>2
<1>4. longer # <<>>
  BY <1>2, <1>3
<1>5. ASSUME NEW i \in 1 .. Len(longer)
      PROVE  /\ longer[i] \in T
             /\ par[longer[i]] = IF i < Len(longer) THEN longer[i + 1] ELSE 0
  <2>1. CASE i = 1
    <3>1. CASE trace = <<>>
      <4>1. Len(trace) = 0
        BY <3>1
      <4> QED BY <1>3, <2>1, <3>1, <4>1 DEF Above
    <3>2. CASE trace # <<>>
      <4>1. Len(trace) >= 1 /\ 1 \in 1 .. Len(trace)
        BY <1>2, <3>2
      <4>2. longer[1 + 1] = trace[1]
        BY <1>3, <4>1
      <4> QED BY <1>2, <1>3, <2>1, <3>2, <4>1, <4>2 DEF Above
    <3> QED BY <3>1, <3>2
  <2>2. CASE i # 1
    <3>1. PICK j : j = i - 1
      OBVIOUS
    <3>2. j \in 1 .. Len(trace) /\ i = j + 1
      BY <1>2, <1>3, <2>2, <3>1
    <3>3. longer[i] = trace[j] /\ trace[j] \in T
          /\ par[trace[j]] = IF j < Len(trace) THEN trace[j + 1] ELSE 0
      BY <1>3, <3>2 DEF TraceUp
    <3>4. j < Len(trace) => j + 1 \in 1 .. Len(trace) /\ longer[i + 1] = trace[j + 1]
      BY <1>2, <1>3, <3>2
    <3>5. i < Len(longer) <=> j < Len(trace)
      BY <1>2, <1>3, <3>2
    <3> QED BY <3>3, <3>4, <3>5
  <2> QED BY <2>1, <2>2
<1> QED
  BY <1>1, <1>3, <1>4, <1>5 DEF TraceUp, Above

LEMMA TracePop ==
  ASSUME NEW T, NEW par, NEW trace \in Seq(Ids), TraceUp(T, par, trace), trace # <<>>
  PROVE  /\ trace[1] \in T /\ Tail(trace) \in Seq(Ids) /\ TraceUp(T, par, Tail(trace))
         /\ Above(Tail(trace)) = par[trace[1]] /\ Len(Tail(trace)) = Len(trace) - 1
<1>1. PICK rest : rest = Tail(trace)
  OBVIOUS
<1>2. PICK n \in Nat : n = Len(trace) /\ n >= 1
  OBVIOUS
<1>3. /\ rest \in Seq(Ids) /\ Len(rest) = n - 1
      /\ \A i \in 1 .. n - 1 : rest[i] = trace[i + 1]
  BY <1>1, <1>2
<1>4. 1 \in 1 .. n /\ trace[1] \in T /\ par[trace[1]] = IF 1 < n THEN trace[1 + 1] ELSE 0
  BY <1>2 DEF TraceUp
<1>5. Above(rest) = par[trace[1]]
  <2>1. CASE n = 1
    <3>1. rest = <<>>
      BY <1>3, <2>1
    <3> QED BY <1>4, <2>1, <3>1 DEF Above
  <2>2. CASE n # 1
    <3>1. 1 < n /\ 1 \in 1 .. n - 1
      BY <1>2, <2>2
    <3>2. rest # <<>> /\ rest[1] = trace[1 + 1]
      BY <1>2, <1>3, <3>1
    <3> QED BY <1>4, <3>1, <3>2 DEF Above
  <2> QED BY <2>1, <2>2
<1>6. ASSUME NEW i \in 1 .. n - 1
      PROVE  rest[i] \in T /\ par[rest[i]] = IF i < n - 1 THEN rest[i + 1] ELSE 0
  <2>1. i + 1 \in 1 .. n /\ (i + 1 < n <=> i < n - 1)
    BY <1>2
  <2>2. trace[i + 1] \in T /\ par[trace[i + 1]] = IF i + 1 < n THEN trace[i + 1 + 1] ELSE 0
    BY <1>2, <2>1 DEF TraceUp
  <2>3. i < n - 1 => i + 1 \in 1 .. n - 1 /\ rest[i + 1] = trace[i + 1 + 1]
    BY <1>2, <1>3
  <2> QED BY <1>3, <2>1, <2>2, <2>3
<1>7. TraceUp(T, par, rest)
  BY <1>3, <1>6 DEF TraceUp
<1> QED BY <1>1, <1>2, <1>3, <1>4, <1>5, <1>7
TreeStates == [id : Nat, trace : Seq(Ids), n : Nat, is : {"walking", "ok", "bad", "ub"}]

TreeStart == [id |-> ROOT, trace |-> <<>>, n |-> 0, is |-> "walking"]

TreeStep(R, size, names, w) ==
  CASE w.is # "walking" -> w
    [] w.is = "walking" /\ w.id = 0 /\ w.trace = <<>> -> [w EXCEPT !.is = "ok"]
    [] w.is = "walking" /\ w.id = 0 /\ w.trace # <<>> ->
         [w EXCEPT !.id = NextSibling(R, w.trace[1]), !.trace = Tail(@)]
    [] w.is = "walking" /\ w.id >= size -> [w EXCEPT !.is = "ub"]
    [] w.is = "walking" /\ w.id \in 1 .. size - 1 -> VisitRecord(R, names, w)

Rounds == 2 * MaxRec + 2

IsTreeWalk(R, size, names, g) ==
  g = [k \in 0 .. 2 * MaxRec + 2 |->
         IF k = 0 THEN TreeStart ELSE TreeStep(R, size, names, g[k - 1])]

TreeSteps(R, size, names, g) ==
  /\ g \in [0 .. Rounds -> TreeStates] /\ g[0] = TreeStart
  /\ \A k \in 1 .. Rounds : g[k] = TreeStep(R, size, names, g[k - 1])

LEMMA NextSiblingType ==
  ASSUME NEW R \in Registry, NEW r \in Ids
  PROVE  NextSibling(R, r) \in Nat /\ R[r].next \in Nat /\ R[r].sub \in Nat /\ R[r].name \in Nat
         /\ R[r].isdir \in BOOLEAN /\ R[r].isactive \in BOOLEAN /\ R[r].islast \in BOOLEAN
BY DEF NextSibling, Registry, RecordItem

(* What one round does, in each of its cases.                                *)
Walker(id, trace, n, is) == [id |-> id, trace |-> trace, n |-> n, is |-> is]

Refused(R, names, w) ==
  \/ ~R[w.id].isactive \/ R[w.id].name >= Len(names)
  \/ R[w.id].islast /\ w.trace # <<>> /\ R[w.id].next # w.trace[1]

Entered(R, w) == R[w.id].isdir /\ R[w.id].sub # 0

TreeRound(R, size, names, w, v) ==
  /\ w.id = 0 /\ w.trace = <<>> => v = Walker(w.id, w.trace, w.n, "ok")
  /\ w.id = 0 /\ w.trace # <<>> =>
       v = Walker(NextSibling(R, w.trace[1]), Tail(w.trace), w.n, "walking")
  /\ w.id >= size => v = Walker(w.id, w.trace, w.n, "ub")
  /\ w.id # 0 /\ w.id < size =>
       /\ Refused(R, names, w) => v = Walker(w.id, w.trace, w.n, "bad")
       /\ ~Refused(R, names, w) /\ Entered(R, w) =>
            v = Walker(R[w.id].sub, <<w.id>> \o w.trace, w.n + 1, "walking")
       /\ ~Refused(R, names, w) /\ ~Entered(R, w) =>
            v = Walker(NextSibling(R, w.id), w.trace, w.n + 1, "walking")

LEMMA TreeStepRounds ==
  ASSUME NEW R \in Registry, NEW size \in 0 .. MaxRec, NEW names, NEW w \in TreeStates,
         size > 0, w.is = "walking"
  PROVE  TreeRound(R, size, names, w, TreeStep(R, size, names, w))
<1>1. w.id \in Nat /\ size \in Nat /\ MaxRec \in Nat
  BY MaxRecAssumption DEF TreeStates
<1>2. w = Walker(w.id, w.trace, w.n, "walking")
  BY DEF TreeStates, Walker
<1>3. PICK i, t, n : i = w.id /\ t = w.trace /\ n = w.n /\ w = Walker(i, t, n, "walking")
  BY <1>2
<1>4. PICK v : v = TreeStep(R, size, names, w)
  OBVIOUS
<1>5. CASE w.id = 0
  <2>1. ~(w.id >= size) /\ w.id \notin 1 .. size - 1 /\ ~(w.id # 0)
    BY <1>1, <1>5
  <2>2. CASE w.trace = <<>>
    <3>1. v = [w EXCEPT !.is = "ok"]
      BY <1>4, <1>5, <2>1, <2>2 DEF TreeStep
    <3>2. v = Walker(w.id, w.trace, w.n, "ok")
      BY <1>3, <3>1 DEF Walker
    <3> QED BY <1>4, <2>1, <2>2, <3>2 DEF TreeRound
  <2>3. CASE w.trace # <<>>
    <3>1. v = [w EXCEPT !.id = NextSibling(R, w.trace[1]), !.trace = Tail(@)]
      BY <1>4, <1>5, <2>1, <2>3 DEF TreeStep
    <3>2. v = Walker(NextSibling(R, w.trace[1]), Tail(w.trace), w.n, "walking")
      <4>1. PICK a, b : a = NextSibling(R, w.trace[1]) /\ b = Tail(w.trace)
        OBVIOUS
      <4>2. v = [w EXCEPT !.id = a, !.trace = b]
        BY <3>1, <4>1
      <4> QED BY <1>3, <4>1, <4>2 DEF Walker
    <3> QED BY <1>4, <2>1, <2>3, <3>2 DEF TreeRound
  <2> QED BY <2>2, <2>3
<1>6. CASE w.id # 0 /\ w.id >= size
  <2>1. w.id \notin 1 .. size - 1 /\ ~(w.id < size)
    BY <1>1, <1>6
  <2>2. v = [w EXCEPT !.is = "ub"]
    BY <1>4, <1>6, <2>1 DEF TreeStep
  <2>3. v = Walker(w.id, w.trace, w.n, "ub")
    BY <1>3, <2>2 DEF Walker
  <2> QED BY <1>4, <1>6, <2>1, <2>3 DEF TreeRound
<1>7. CASE w.id # 0 /\ ~(w.id >= size)
  <2>1. w.id \in 1 .. size - 1
    BY <1>1, <1>7
  <2>2. v = VisitRecord(R, names, w)
    BY <1>4, <1>7, <2>1 DEF TreeStep
  <2>3. Refused(R, names, w) => v = Walker(w.id, w.trace, w.n, "bad")
    <3> HAVE Refused(R, names, w)
    <3>1. v = [w EXCEPT !.is = "bad"]
      BY <2>2 DEF VisitRecord, Refused
    <3> QED BY <1>3, <3>1 DEF Walker
  <2>4. ~Refused(R, names, w) =>
          v = [w EXCEPT !.n = @ + 1,
                        !.id = IF Entered(R, w) THEN R[w.id].sub ELSE NextSibling(R, w.id),
                        !.trace = IF Entered(R, w) THEN <<w.id>> \o @ ELSE @]
    BY <2>2 DEF VisitRecord, Refused, Entered
  <2>5. ~Refused(R, names, w) /\ Entered(R, w) =>
          v = Walker(R[w.id].sub, <<w.id>> \o w.trace, w.n + 1, "walking")
    <3> HAVE ~Refused(R, names, w) /\ Entered(R, w)
    <3>1. PICK a, b, c : a = R[w.id].sub /\ b = <<w.id>> \o w.trace /\ c = w.n + 1
      OBVIOUS
    <3>2. v = [w EXCEPT !.n = c, !.id = a, !.trace = b]
      BY <2>4, <3>1
    <3> QED BY <1>3, <3>1, <3>2 DEF Walker
  <2>6. ~Refused(R, names, w) /\ ~Entered(R, w) =>
          v = Walker(NextSibling(R, w.id), w.trace, w.n + 1, "walking")
    <3> HAVE ~Refused(R, names, w) /\ ~Entered(R, w)
    <3>1. PICK a, c : a = NextSibling(R, w.id) /\ c = w.n + 1
      OBVIOUS
    <3>2. v = [w EXCEPT !.n = c, !.id = a, !.trace = w.trace]
      BY <2>4, <3>1
    <3> QED BY <1>3, <3>1, <3>2 DEF Walker
  <2> QED BY <1>4, <1>7, <2>3, <2>5, <2>6 DEF TreeRound
<1> QED BY <1>5, <1>6, <1>7

LEMMA WalkerType ==
  ASSUME NEW id \in Nat, NEW t \in Seq(Ids), NEW n \in Nat,
         NEW is \in {"walking", "ok", "bad", "ub"}
  PROVE  Walker(id, t, n, is) \in TreeStates
BY DEF Walker, TreeStates

LEMMA TreeStepType ==
  ASSUME NEW R \in Registry, NEW size \in 0 .. MaxRec, size > 0, NEW names,
         NEW w \in TreeStates
  PROVE  TreeStep(R, size, names, w) \in TreeStates
<1>1. /\ w.id \in Nat /\ w.n \in Nat /\ w.trace \in Seq(Ids) /\ w.n + 1 \in Nat
      /\ size \in Nat /\ MaxRec \in Nat
  BY MaxRecAssumption DEF TreeStates
<1>2. CASE w.is # "walking"
  BY <1>2 DEF TreeStep
<1>3. CASE w.is = "walking"
  <2>1. PICK v : v = TreeStep(R, size, names, w)
    OBVIOUS
  <2>2. TreeRound(R, size, names, w, v)
    BY <1>3, <2>1, TreeStepRounds
  <2> SUFFICES v \in TreeStates
    BY <2>1
  <2>3. CASE w.id = 0 /\ w.trace = <<>>
    <3>1. v = Walker(w.id, w.trace, w.n, "ok")
      BY <2>2, <2>3 DEF TreeRound
    <3> QED BY <1>1, <3>1, WalkerType
  <2>4. CASE w.id = 0 /\ w.trace # <<>>
    <3>1. w.trace[1] \in Ids /\ Tail(w.trace) \in Seq(Ids)
      BY <1>1, <2>4
    <3>2. v = Walker(NextSibling(R, w.trace[1]), Tail(w.trace), w.n, "walking")
      BY <2>2, <2>4 DEF TreeRound
    <3>3. NextSibling(R, w.trace[1]) \in Nat
      BY <3>1, NextSiblingType
    <3> QED BY <1>1, <3>1, <3>2, <3>3, WalkerType
  <2>5. CASE w.id >= size
    <3>1. v = Walker(w.id, w.trace, w.n, "ub")
      BY <2>2, <2>5 DEF TreeRound
    <3> QED BY <1>1, <3>1, WalkerType
  <2>6. CASE w.id # 0 /\ w.id < size
    <3>1. w.id \in Ids
      BY <1>1, <2>6 DEF Ids
    <3>2. NextSibling(R, w.id) \in Nat /\ R[w.id].sub \in Nat
      BY <3>1, NextSiblingType
    <3>3. <<w.id>> \o w.trace \in Seq(Ids)
      BY <1>1, <3>1
    <3>4. CASE Refused(R, names, w)
      <4>1. v = Walker(w.id, w.trace, w.n, "bad")
        BY <2>2, <2>6, <3>4 DEF TreeRound
      <4> QED BY <1>1, <4>1, WalkerType
    <3>5. CASE ~Refused(R, names, w) /\ Entered(R, w)
      <4>1. v = Walker(R[w.id].sub, <<w.id>> \o w.trace, w.n + 1, "walking")
        BY <2>2, <2>6, <3>5 DEF TreeRound
      <4> QED BY <1>1, <3>2, <3>3, <4>1, WalkerType
    <3>6. CASE ~Refused(R, names, w) /\ ~Entered(R, w)
      <4>1. v = Walker(NextSibling(R, w.id), w.trace, w.n + 1, "walking")
        BY <2>2, <2>6, <3>6 DEF TreeRound
      <4> QED BY <1>1, <3>2, <4>1, WalkerType
    <3> QED BY <3>4, <3>5, <3>6
  <2> QED BY <1>1, <2>3, <2>4, <2>5, <2>6
<1> QED BY <1>2, <1>3

LEMMA TreeWalked ==
  ASSUME NEW R \in Registry, NEW size \in 0 .. MaxRec, size > 0, NEW names
  PROVE  \E g : TreeSteps(R, size, names, g) /\ TreeWalk(R, size, names) = g[Rounds]
<1> DEFINE one == [w \in TreeStates |-> TreeStep(R, size, names, w)]
<1>1. MaxRec \in Nat /\ Rounds \in Nat /\ ROOT \in Ids /\ Rounds = 2 * MaxRec + 2
  BY MaxRecAssumption DEF Ids, ROOT, Rounds
<1>2. TreeStart \in TreeStates
  BY <1>1 DEF TreeStart, TreeStates, ROOT
<1>3. \A w \in TreeStates : one[w] \in TreeStates /\ one[w] = TreeStep(R, size, names, w)
  BY TreeStepType
<1> HIDE DEF one
<1>4. PICK f : Iterates(f, Rounds, TreeStates, TreeStart, one)
  <2>1. \A w \in TreeStates : one[w] \in TreeStates
    BY <1>3
  <2> QED BY <1>1, <1>2, <2>1, Iterated
<1>5. IsTreeWalk(R, size, names, f)
  <2>1. /\ f \in [0 .. Rounds -> TreeStates] /\ f[0] = TreeStart
        /\ \A k \in 1 .. Rounds : f[k] = one[f[k - 1]]
    BY <1>4 DEF Iterates
  <2>2. \A k \in 0 .. Rounds :
          f[k] = IF k = 0 THEN TreeStart ELSE TreeStep(R, size, names, f[k - 1])
    <3> TAKE k \in 0 .. Rounds
    <3>1. k # 0 => k \in 1 .. Rounds /\ k - 1 \in 0 .. Rounds
      BY <1>1
    <3> QED BY <1>3, <2>1, <3>1
  <2> QED BY <1>1, <2>1, <2>2 DEF IsTreeWalk
<1> DEFINE g == CHOOSE walk : IsTreeWalk(R, size, names, walk)
<1>6. IsTreeWalk(R, size, names, g)
  BY <1>5
<1>7. TreeWalk(R, size, names) = g[2 * MaxRec + 2]
  BY DEF TreeWalk, IsTreeWalk, TreeStart, TreeStep
<1> HIDE DEF g
<1>8. /\ g[0] = TreeStart
      /\ \A k \in 1 .. Rounds : g[k] = TreeStep(R, size, names, g[k - 1])
  <2>1. \A k \in 0 .. Rounds :
          g[k] = IF k = 0 THEN TreeStart ELSE TreeStep(R, size, names, g[k - 1])
    BY <1>1, <1>6 DEF IsTreeWalk
  <2>2. 0 \in 0 .. Rounds /\ \A k \in 1 .. Rounds : k \in 0 .. Rounds /\ k # 0
    BY <1>1
  <2> QED BY <2>1, <2>2
<1> DEFINE T == {k \in 0 .. Rounds : g[k] \in TreeStates}
<1>9. 0 \in T /\ \A k \in 1 .. Rounds : k - 1 \in T => k \in T
  BY <1>1, <1>2, <1>8, TreeStepType
<1>10. \A k \in 0 .. Rounds : k \in T
  <2> HIDE DEF T
  <2> QED BY <1>1, <1>9, Induct
<1>11. g \in [0 .. Rounds -> TreeStates]
  BY <1>1, <1>6, <1>10 DEF IsTreeWalk
<1> QED BY <1>1, <1>7, <1>8, <1>11 DEF TreeSteps

(* Where the walk is: everything up to place n is behind it.                 *)
Ahead(R, size, names, T, pos, end, par, w, k) ==
  /\ TraceUp(T, par, w.trace) /\ k + Len(w.trace) <= w.n + w.n
  /\ IF w.id = 0 THEN w.n = end[Above(w.trace)]
     ELSE w.id \in T /\ pos[w.id] = w.n + 1 /\ par[w.id] = Above(w.trace)
  /\ \A r \in T : pos[r] <= w.n => Readable(R, size, names, r)

OnTheTree(R, size, names, T, N, pos, end, par, w, k) ==
  /\ w \in TreeStates
  /\ w.is = "walking" => Ahead(R, size, names, T, pos, end, par, w, k)
  /\ w.is = "ok" => w.n = N /\ AllReadable(R, size, names, T)
  /\ w.is \in {"bad", "ub"} => ~AllReadable(R, size, names, T)
  /\ w.is = "ub" => \E r \in T : r >= size

LEMMA AboveType ==
  ASSUME NEW T, NEW par, NEW trace \in Seq(Ids), TraceUp(T, par, trace)
  PROVE  Above(trace) \in T \cup {0} /\ (trace # <<>> => trace[1] \in T)
<1>1. CASE trace = <<>>
  BY <1>1 DEF Above
<1>2. CASE trace # <<>>
  <2>1. 1 \in 1 .. Len(trace)
    BY <1>2
  <2> QED BY <1>2, <2>1 DEF Above, TraceUp
<1> QED BY <1>1, <1>2

(* A round more, and a place more or a directory less.                       *)
LEMMA RoundCount ==
  ASSUME NEW k \in Nat, NEW l \in Nat, NEW n \in Nat, k + l <= n + n,
         NEW l1 \in Nat, NEW n1 \in Nat,
         \/ n1 = n + 1 /\ l1 \in {l, l + 1}
         \/ n1 = n /\ l1 = l - 1
  PROVE  k + 1 + l1 <= n1 + n1
OBVIOUS

LEMMA TooManyRounds ==
  ASSUME NEW m \in Nat, NEW l \in Nat, NEW n \in Nat, n <= m
  PROVE  ~(2 * m + 2 + l <= n + n)
OBVIOUS

LEMMA TreeWalkStep ==
  ASSUME NEW R \in Registry, NEW size \in 0 .. MaxRec, NEW names, Len(names) \in Nat,
         NEW T, NEW N, NEW pos, NEW end, NEW par, TreeNumbered(T, N, pos, end, par),
         TreeLinked(R, size, names, T, pos, end, par), NEW k \in Nat, NEW w,
         OnTheTree(R, size, names, T, N, pos, end, par, w, k)
  PROVE  OnTheTree(R, size, names, T, N, pos, end, par, TreeStep(R, size, names, w), k + 1)
<1>1. PICK v : v = TreeStep(R, size, names, w)
  OBVIOUS
<1>2. /\ MaxRec \in Nat /\ size \in Nat /\ size > 0 /\ N \in Nat
      /\ T \subseteq Ids /\ 0 \notin T
      /\ \A r \in T : pos[r] \in 0 .. N /\ end[r] \in 0 .. N /\ par[r] \in T \cup {0}
      /\ pos[0] = 0 /\ end[0] = N /\ end[0] \in 0 .. N
      /\ \A q, r \in T \cup {0} : pos[q] = pos[r] => q = r
      /\ \A r \in T : pos[r] <= end[r] /\ end[r] <= end[par[r]]
      /\ \A r \in T : Readable(R, size, names, r) => NodeLinked(R, T, pos, end, par, r)
      /\ \A r \in T : r \in Nat \ {0}
  BY MaxRecAssumption DEF TreeNumbered, TreeLinked, Ids
<1>3. /\ w \in TreeStates /\ w.id \in Nat /\ w.n \in Nat /\ w.trace \in Seq(Ids)
      /\ Len(w.trace) \in Nat
  BY DEF OnTheTree, TreeStates
<1>4. v \in TreeStates
  BY <1>1, <1>2, <1>3, TreeStepType
<1> SUFFICES OnTheTree(R, size, names, T, N, pos, end, par, v, k + 1)
  BY <1>1
<1>5. CASE w.is # "walking"
  <2>1. v = w
    BY <1>1, <1>5 DEF TreeStep
  <2> QED BY <1>5, <2>1 DEF OnTheTree
<1>6. CASE w.is = "walking"
  <2>1. TreeRound(R, size, names, w, v)
    BY <1>1, <1>2, <1>3, <1>6, TreeStepRounds
  <2>2. /\ TraceUp(T, par, w.trace) /\ k + Len(w.trace) <= w.n + w.n
        /\ w.id = 0 => w.n = end[Above(w.trace)]
        /\ w.id # 0 => w.id \in T /\ pos[w.id] = w.n + 1 /\ par[w.id] = Above(w.trace)
        /\ \A r \in T : pos[r] <= w.n => Readable(R, size, names, r)
    BY <1>6 DEF OnTheTree, Ahead
  <2>3. CASE w.id = 0 /\ w.trace = <<>>
    <3>1. v = Walker(w.id, w.trace, w.n, "ok")
      BY <2>1, <2>3 DEF TreeRound
    <3>2. v.is = "ok" /\ v.n = w.n
      BY <3>1 DEF Walker
    <3>3. w.n = N
      BY <1>2, <2>2, <2>3 DEF Above
    <3>4. AllReadable(R, size, names, T)
      BY <1>2, <2>2, <3>3 DEF AllReadable
    <3> QED BY <1>4, <3>2, <3>3, <3>4 DEF OnTheTree
  <2>4. CASE w.id = 0 /\ w.trace # <<>>
    <3>1. v = Walker(NextSibling(R, w.trace[1]), Tail(w.trace), w.n, "walking")
      BY <2>1, <2>4 DEF TreeRound
    <3>2. PICK d \in T : d = w.trace[1] /\ Above(w.trace) = d
      BY <1>3, <2>2, <2>4, AboveType DEF Above
    <3>3. /\ v.is = "walking" /\ v.id = NextSibling(R, d) /\ v.trace = Tail(w.trace)
          /\ v.n = w.n
      BY <3>1, <3>2 DEF Walker
    <3>4. /\ TraceUp(T, par, v.trace) /\ Above(v.trace) = par[d]
          /\ Len(v.trace) = Len(w.trace) - 1
      <4>1. /\ w.trace \in Seq(Ids) /\ TraceUp(T, par, w.trace) /\ w.trace # <<>>
        BY <1>3, <2>2, <2>4
      <4>2. /\ TraceUp(T, par, Tail(w.trace)) /\ Above(Tail(w.trace)) = par[w.trace[1]]
            /\ Len(Tail(w.trace)) = Len(w.trace) - 1
        BY <4>1, TracePop
      <4> QED BY <3>2, <3>3, <4>2
    <3>5. w.n = end[d] /\ pos[d] <= w.n
      BY <1>2, <2>2, <2>4, <3>2
    <3>6. NextLink(R, T, pos, end, par, d)
      BY <1>2, <2>2, <3>2, <3>5 DEF NodeLinked
    <3>7. IF v.id = 0 THEN v.n = end[Above(v.trace)]
          ELSE v.id \in T /\ pos[v.id] = v.n + 1 /\ par[v.id] = Above(v.trace)
      BY <3>3, <3>4, <3>5, <3>6 DEF NextLink
    <3>8. k + 1 + Len(v.trace) <= v.n + v.n
      <4>1. v.n \in Nat /\ Len(v.trace) \in Nat
        BY <1>4 DEF TreeStates
      <4>2. k + Len(w.trace) <= w.n + w.n /\ v.n = w.n /\ Len(v.trace) = Len(w.trace) - 1
        BY <2>2, <3>3, <3>4
      <4> QED BY <1>3, <4>1, <4>2, RoundCount
    <3>9. Ahead(R, size, names, T, pos, end, par, v, k + 1)
      BY <2>2, <3>3, <3>4, <3>7, <3>8 DEF Ahead
    <3> QED BY <1>4, <3>3, <3>9 DEF OnTheTree
  <2>5. CASE w.id # 0 /\ ~Readable(R, size, names, w.id)
    <3>1. ~AllReadable(R, size, names, T)
      BY <2>2, <2>5 DEF AllReadable
    <3>2. v.is = "bad" \/ (v.is = "ub" /\ w.id >= size)
      <4>1. CASE w.id >= size
        <5>1. v = Walker(w.id, w.trace, w.n, "ub")
          BY <2>1, <4>1 DEF TreeRound
        <5> QED BY <4>1, <5>1 DEF Walker
      <4>2. CASE ~(w.id >= size)
        <5>1. w.id < size
          BY <1>2, <1>3, <4>2
        <5>2. w.id \in Ids /\ R[w.id].name \in Nat
          BY <1>2, <2>2, <2>5, NextSiblingType
        <5>3. Refused(R, names, w)
          BY <2>5, <5>1, <5>2 DEF Refused, Readable
        <5>4. v = Walker(w.id, w.trace, w.n, "bad")
          BY <2>1, <2>5, <5>1, <5>3 DEF TreeRound
        <5> QED BY <5>4 DEF Walker
      <4> QED BY <4>1, <4>2
    <3> QED BY <1>4, <2>2, <2>5, <3>1, <3>2 DEF OnTheTree
  <2>6. CASE w.id # 0 /\ Readable(R, size, names, w.id)
    <3>1. /\ w.id \in T /\ pos[w.id] = w.n + 1 /\ par[w.id] = Above(w.trace)
          /\ NodeLinked(R, T, pos, end, par, w.id) /\ w.id < size
      BY <1>2, <2>2, <2>6 DEF Readable
    <3>2. ~Refused(R, names, w)
      <4>1. w.trace # <<>> => par[w.id] = w.trace[1] /\ w.trace[1] # 0
        BY <1>2, <1>3, <2>2, <3>1, AboveType DEF Above
      <4>2. R[w.id].isactive /\ ~(R[w.id].name >= Len(names))
        <5>1. w.id \in Ids
          BY <1>2, <3>1
        <5>2. R[w.id].name \in Nat
          BY <5>1, NextSiblingType
        <5> QED BY <2>6, <5>2 DEF Readable
      <4> QED BY <3>1, <4>1, <4>2 DEF Refused, NodeLinked, LoopsBack
    <3>3. \A r \in T : pos[r] <= w.n + 1 => Readable(R, size, names, r)
      <4> TAKE r \in T
      <4> HAVE pos[r] <= w.n + 1
      <4>1. pos[r] <= w.n \/ pos[r] = pos[w.id]
        BY <1>2, <1>3, <3>1, SMTT(60)
      <4>2. pos[r] = pos[w.id] => r = w.id
        BY <1>2, <3>1
      <4> QED BY <2>2, <2>6, <4>1, <4>2
    <3>4. CASE Entered(R, w)
      <4>1. v = Walker(R[w.id].sub, <<w.id>> \o w.trace, w.n + 1, "walking")
        BY <2>1, <2>6, <3>1, <3>2, <3>4 DEF TreeRound
      <4>2. /\ v.is = "walking" /\ v.id = R[w.id].sub /\ v.trace = <<w.id>> \o w.trace
            /\ v.n = w.n + 1
        BY <4>1 DEF Walker
      <4>3. /\ TraceUp(T, par, v.trace) /\ Above(v.trace) = w.id
            /\ Len(v.trace) = Len(w.trace) + 1
        <5>1. /\ T \subseteq Ids /\ w.trace \in Seq(Ids) /\ TraceUp(T, par, w.trace)
              /\ w.id \in T /\ par[w.id] = Above(w.trace)
          BY <1>2, <1>3, <2>2, <3>1
        <5>2. PICK id, trace : id = w.id /\ trace = w.trace
          OBVIOUS
        <5>3. id \in T /\ trace \in Seq(Ids) /\ TraceUp(T, par, trace) /\ par[id] = Above(trace)
          BY <5>1, <5>2
        <5>4. /\ TraceUp(T, par, <<id>> \o trace) /\ Above(<<id>> \o trace) = id
              /\ Len(<<id>> \o trace) = Len(trace) + 1
          BY <5>1, <5>3, TracePush, SMTT(60)
        <5> QED BY <4>2, <5>2, <5>4
      <4>4. v.id # 0 /\ v.id \in T /\ pos[v.id] = pos[w.id] + 1 /\ par[v.id] = w.id
        BY <3>1, <3>4, <4>2 DEF NodeLinked, FirstLink, Entered
      <4>5. k + 1 + Len(v.trace) <= v.n + v.n
        <5>1. v.n \in Nat /\ Len(v.trace) \in Nat
          BY <1>4 DEF TreeStates
        <5>2. /\ k + Len(w.trace) <= w.n + w.n /\ v.n = w.n + 1
              /\ Len(v.trace) \in {Len(w.trace), Len(w.trace) + 1}
          BY <2>2, <4>2, <4>3
        <5> QED BY <1>3, <5>1, <5>2, RoundCount
      <4>6. pos[v.id] = v.n + 1
        BY <1>3, <3>1, <4>2, <4>4
      <4>7. Ahead(R, size, names, T, pos, end, par, v, k + 1)
        BY <3>3, <4>2, <4>3, <4>4, <4>5, <4>6 DEF Ahead
      <4> QED BY <1>4, <4>2, <4>7 DEF OnTheTree
    <3>5. CASE ~Entered(R, w)
      <4>1. v = Walker(NextSibling(R, w.id), w.trace, w.n + 1, "walking")
        BY <2>1, <2>6, <3>1, <3>2, <3>5 DEF TreeRound
      <4>2. /\ v.is = "walking" /\ v.id = NextSibling(R, w.id) /\ v.trace = w.trace
            /\ v.n = w.n + 1
        BY <4>1 DEF Walker
      <4>3. end[w.id] = pos[w.id] /\ NextLink(R, T, pos, end, par, w.id)
        BY <3>1, <3>5 DEF NodeLinked, FirstLink, Entered
      <4>4. IF v.id = 0 THEN v.n = end[Above(v.trace)]
            ELSE v.id \in T /\ pos[v.id] = v.n + 1 /\ par[v.id] = Above(v.trace)
        BY <3>1, <4>2, <4>3 DEF NextLink
      <4>5. k + 1 + Len(v.trace) <= v.n + v.n
        <5>1. v.n \in Nat /\ Len(v.trace) \in Nat
          BY <1>4 DEF TreeStates
        <5>2. /\ k + Len(w.trace) <= w.n + w.n /\ v.n = w.n + 1
              /\ Len(v.trace) \in {Len(w.trace), Len(w.trace) + 1}
          BY <2>2, <4>2
        <5> QED BY <1>3, <5>1, <5>2, RoundCount
      <4>6. Ahead(R, size, names, T, pos, end, par, v, k + 1)
        BY <2>2, <3>3, <4>2, <4>4, <4>5 DEF Ahead
      <4> QED BY <1>4, <4>2, <4>6 DEF OnTheTree
    <3> QED BY <3>4, <3>5
  <2> QED BY <2>3, <2>4, <2>5, <2>6
<1> QED BY <1>5, <1>6

(* The second walk ends, and passes exactly when every record of the tree    *)
(* can be read; it has then read as many records as there are places.        *)
LEMMA TreeWalkEnds ==
  ASSUME NEW R \in Registry, NEW size \in 0 .. MaxRec, NEW names, Len(names) \in Nat,
         NEW T, NEW N, NEW pos, NEW end, NEW par, TreeNumbered(T, N, pos, end, par),
         TreeLinked(R, size, names, T, pos, end, par)
  PROVE  /\ TreeWalk(R, size, names).is \in {"ok", "bad", "ub"}
         /\ TreeWalk(R, size, names).is = "ok" <=> AllReadable(R, size, names, T)
         /\ TreeWalk(R, size, names).is = "ok" => TreeWalk(R, size, names).n = N
         /\ TreeWalk(R, size, names).is = "ub" => \E r \in T : r >= size
<1>1. PICK g : TreeSteps(R, size, names, g) /\ TreeWalk(R, size, names) = g[Rounds]
  BY TreeWalked DEF TreeLinked
<1>2. MaxRec \in Nat /\ Rounds \in Nat /\ Rounds = 2 * MaxRec + 2
  BY MaxRecAssumption DEF Rounds
<1> DEFINE S == {k \in 0 .. Rounds : OnTheTree(R, size, names, T, N, pos, end, par, g[k], k)}
<1>3. 0 \in S
  <2>1. g[0] = TreeStart /\ g[0] \in TreeStates
    BY <1>1, <1>2 DEF TreeSteps
  <2>2. g[0].id = ROOT /\ g[0].trace = <<>> /\ g[0].n = 0 /\ g[0].is = "walking"
    BY <2>1 DEF TreeStart
  <2>3. TraceUp(T, par, g[0].trace) /\ Above(g[0].trace) = 0 /\ Len(g[0].trace) = 0
    BY <2>2 DEF TraceUp, Above
  <2>4. \A r \in T : ~(pos[r] <= 0)
    <3> TAKE r \in T
    <3>1. pos[r] \in 0 .. N /\ N \in Nat /\ pos[r] # pos[0] /\ pos[0] = 0
      BY <1>2 DEF TreeNumbered
    <3> QED BY <3>1
  <2>5. ROOT # 0 /\ ROOT \in T /\ pos[ROOT] = 0 + 1 /\ par[ROOT] = 0
    BY DEF ROOT, TreeNumbered
  <2>6. Ahead(R, size, names, T, pos, end, par, g[0], 0)
    BY <2>2, <2>3, <2>4, <2>5 DEF Ahead
  <2>7. OnTheTree(R, size, names, T, N, pos, end, par, g[0], 0)
    BY <2>1, <2>2, <2>6 DEF OnTheTree
  <2> QED BY <1>2, <2>7
<1>4. \A k \in 1 .. Rounds : k - 1 \in S => k \in S
  <2> TAKE k \in 1 .. Rounds
  <2> HAVE k - 1 \in S
  <2>1. /\ k - 1 \in Nat /\ k - 1 + 1 = k
        /\ OnTheTree(R, size, names, T, N, pos, end, par, g[k - 1], k - 1)
    BY <1>2
  <2>2. OnTheTree(R, size, names, T, N, pos, end, par,
                  TreeStep(R, size, names, g[k - 1]), k - 1 + 1)
    BY <2>1, TreeWalkStep
  <2>3. g[k] = TreeStep(R, size, names, g[k - 1])
    BY <1>1 DEF TreeSteps
  <2> QED BY <1>2, <2>1, <2>2, <2>3
<1>5. Rounds \in S
  <2> HIDE DEF S
  <2>1. PICK m \in Nat : m = Rounds
    BY <1>2
  <2>2. 0 \in S /\ \A k \in 1 .. m : k - 1 \in S => k \in S
    BY <1>3, <1>4, <2>1
  <2>3. \A k \in 0 .. m : k \in S
    BY <2>2, Induct
  <2> QED BY <2>1, <2>3
<1>6. PICK w : w = g[Rounds] /\ OnTheTree(R, size, names, T, N, pos, end, par, w, Rounds)
  BY <1>5
<1>7. /\ w \in TreeStates /\ w.n \in Nat /\ w.id \in Nat /\ w.trace \in Seq(Ids)
      /\ Len(w.trace) \in Nat /\ w.is \in {"walking", "ok", "bad", "ub"}
  BY <1>6 DEF OnTheTree, TreeStates
<1>8. w.is # "walking"
  <2> SUFFICES ASSUME w.is = "walking" PROVE FALSE
    OBVIOUS
  <2>1. Ahead(R, size, names, T, pos, end, par, w, Rounds)
    BY <1>6 DEF OnTheTree
  <2>2. Above(w.trace) \in T \cup {0}
    BY <1>7, <2>1, AboveType DEF Ahead
  <2>3. N \in 0 .. MaxRec /\ \A r \in T \cup {0} : end[r] \in 0 .. N /\ pos[r] \in 0 .. N
    BY DEF TreeNumbered
  <2>4. w.n <= N
    <3>1. CASE w.id = 0
      BY <1>2, <2>1, <2>2, <2>3, <3>1 DEF Ahead
    <3>2. CASE w.id # 0
      <4>1. pos[w.id] \in 0 .. N /\ pos[w.id] = w.n + 1
        BY <2>1, <2>3, <3>2 DEF Ahead
      <4> QED BY <1>2, <1>7, <2>3, <4>1
    <3> QED BY <3>1, <3>2
  <2>5. Rounds + Len(w.trace) <= w.n + w.n
    BY <2>1 DEF Ahead
  <2>6. w.n <= MaxRec
    BY <1>2, <1>7, <2>3, <2>4
  <2> QED BY <1>2, <1>7, <2>5, <2>6, TooManyRounds
<1> QED BY <1>1, <1>6, <1>7, <1>8 DEF OnTheTree

(* The verdict of verifyrec on any registry whose walks can be numbered: it  *)
(* is always one, and "ok" when every record is where its number says.       *)
LEMMA Verdict ==
  ASSUME NEW R \in Registry, NEW size \in 0 .. MaxRec, NEW names, Len(names) \in Nat,
         NEW C, NEW M, NEW place, ListNumbered(R, size, C, M, place),
         NEW T, NEW N, NEW pos, NEW end, NEW par, TreeNumbered(T, N, pos, end, par),
         TreeLinked(R, size, names, T, pos, end, par)
  PROVE  /\ VerifyRec(R, size, names) \in {"ok", "bad", "ub"}
         /\ VerifyRec(R, size, names) = "ok" <=>
              AllSpare(R, size, C) /\ AllReadable(R, size, names, T) /\ N + M = size
         /\ VerifyRec(R, size, names) = "ub" => \E r \in C \cup T : r >= size
<1>1. PICK l : /\ l = RecycleWalk(R, size)
               /\ l.is \in {"ok", "bad", "ub"}
               /\ l.is = "ok" <=> AllSpare(R, size, C)
               /\ l.is = "ok" => l.nrecy = M
               /\ l.is = "ub" => \E r \in C : r >= size
  BY RecycleWalkEnds
<1>2. PICK t : /\ t = TreeWalk(R, size, names)
               /\ t.is \in {"ok", "bad", "ub"}
               /\ t.is = "ok" <=> AllReadable(R, size, names, T)
               /\ t.is = "ok" => t.n = N
               /\ t.is = "ub" => \E r \in T : r >= size
  BY TreeWalkEnds
<1>3. PICK v : v = VerifyRec(R, size, names)
  OBVIOUS
<1>4. /\ l.is # "ok" => v = l.is
      /\ l.is = "ok" /\ t.is # "ok" => v = t.is
      /\ l.is = "ok" /\ t.is = "ok" => v = IF t.n + l.nrecy = size THEN "ok" ELSE "bad"
  BY <1>1, <1>2, <1>3 DEF VerifyRec
<1> QED BY <1>1, <1>2, <1>3, <1>4

-----------------------------------------------------------------------------
(***************************************************************************)
(* A registry as the operations leave it: its tree and its recycle list can  *)
(* be numbered and share the slots of the vector out among them.             *)
(***************************************************************************)
Spares(R, size) == {r \in 0 .. size - 1 : ~R[r].isactive}

TreeWhole(R, T, N, pos, end, par) ==
  TreeNumbered(T, N, pos, end, par) /\ \A r \in T : NodeLinked(R, T, pos, end, par, r)

ListWhole(R, C, M, place) ==
  /\ C \subseteq Ids /\ 0 \in C /\ M \in 0 .. MaxRec
  /\ place \in [C -> 1 .. M] /\ place[0] = 1
  /\ \A r, s \in C : place[r] = place[s] => r = s
  /\ \A r \in C : LeadsOn(R, C, M, place, r)

Shared(R, size) ==
  /\ R \in Registry /\ size \in 2 .. MaxRec
  /\ Active(R) \subseteq 1 .. size - 1

Numbered(R, size, N, pos, end, par, M, place) ==
  /\ TreeWhole(R, Active(R), N, pos, end, par)
  /\ ListWhole(R, Spares(R, size), M, place)
  /\ N + M = size

Whole(R, size) ==
  /\ Shared(R, size)
  /\ \E N, pos, end, par, M, place : Numbered(R, size, N, pos, end, par, M, place)

LEMMA WholeVerifies ==
  ASSUME NEW R, NEW size, Whole(R, size), NEW names, Len(names) \in Nat,
         \A r \in Active(R) : R[r].name < Len(names)
  PROVE  VerifyRec(R, size, names) = "ok"
<1>1. PICK N, pos, end, par, M, place : Numbered(R, size, N, pos, end, par, M, place)
  BY DEF Whole
<1>2. /\ R \in Registry /\ size \in 0 .. MaxRec /\ size > 0 /\ size \in Nat /\ MaxRec \in Nat
      /\ Active(R) \subseteq 1 .. size - 1
  BY MaxRecAssumption DEF Whole, Shared
<1> DEFINE C == Spares(R, size)
           T == Active(R)
<1>3. ListNumbered(R, size, C, M, place)
  BY <1>1, <1>2 DEF Numbered, ListWhole, ListNumbered
<1>4. TreeNumbered(T, N, pos, end, par) /\ TreeLinked(R, size, names, T, pos, end, par)
  BY <1>1, <1>2 DEF Numbered, TreeWhole, TreeLinked
<1>5. AllSpare(R, size, C)
  <2> SUFFICES ASSUME NEW r \in C PROVE Spare(R, size, r)
    BY DEF AllSpare
  <2>1. r \in 0 .. size - 1 /\ ~R[r].isactive
    BY DEF Spares
  <2> QED BY <1>2, <2>1 DEF Spare
<1>6. AllReadable(R, size, names, T)
  <2> SUFFICES ASSUME NEW r \in T PROVE Readable(R, size, names, r)
    BY DEF AllReadable
  <2>1. r \in 1 .. size - 1 /\ R[r].isactive
    BY <1>2 DEF Active
  <2> QED BY <1>2, <2>1 DEF Readable
<1>7. N + M = size
  BY <1>1 DEF Numbered
<1> HIDE DEF C, T
<1> QED BY <1>2, <1>3, <1>4, <1>5, <1>6, <1>7, Verdict

(* An empty root is whole.  (Root::init.)                                    *)
LEMMA InitWhole == Whole(InitRecords, 2)
<1> DEFINE T == {ROOT}
           C == {0}
           pos == [r \in {ROOT, 0} |-> r]
           end == [r \in {ROOT, 0} |-> 1]
           par == [r \in {ROOT} |-> 0]
           place == [r \in {0} |-> 1]
<1>1. MaxRec \in Nat /\ MaxRec >= 2 /\ 0 \in Ids /\ 1 \in Ids
  BY MaxRecAssumption DEF Ids
<1>2. InitRecords \in Registry
  BY InitRecordsType
<1>3. /\ InitRecords[ROOT] = [Blank EXCEPT !.isdir = TRUE, !.isactive = TRUE]
      /\ \A r \in Ids \ {ROOT} : InitRecords[r] = Blank
  BY <1>1 DEF InitRecords, ROOT
<1>4. /\ Active(InitRecords) = T /\ InitRecords[ROOT].isdir /\ InitRecords[ROOT].isactive
      /\ InitRecords[ROOT].sub = 0 /\ InitRecords[ROOT].next = 0 /\ ~InitRecords[ROOT].islast
      /\ ~InitRecords[0].isactive /\ InitRecords[0].next = 0
  <2>1. /\ InitRecords[ROOT].isdir /\ InitRecords[ROOT].isactive
        /\ InitRecords[ROOT].sub = 0 /\ InitRecords[ROOT].next = 0
        /\ ~InitRecords[ROOT].islast
    BY <1>3 DEF Blank
  <2>2. \A r \in Ids \ {ROOT} : ~InitRecords[r].isactive /\ InitRecords[r].next = 0
    BY <1>3 DEF Blank
  <2>3. ROOT \in Ids /\ ROOT # 0
    BY <1>1 DEF ROOT
  <2> QED BY <1>1, <2>1, <2>2, <2>3 DEF Active
<1>5. Spares(InitRecords, 2) = C
  <2>1. 0 .. 2 - 1 = {0, 1}
    OBVIOUS
  <2> QED BY <1>4, <2>1 DEF Spares, ROOT
<1>6. Shared(InitRecords, 2)
  BY <1>1, <1>2, <1>4 DEF Shared, ROOT
<1>7. TreeNumbered(T, 1, pos, end, par)
  BY <1>1 DEF TreeNumbered, ROOT
<1>8. NodeLinked(InitRecords, T, pos, end, par, ROOT)
  BY <1>4 DEF NodeLinked, FirstLink, NextLink, LoopsBack, NextSibling, ROOT
<1>9. ListWhole(InitRecords, C, 1, place)
  BY <1>1, <1>4 DEF ListWhole, LeadsOn
<1>10. Numbered(InitRecords, 2, 1, pos, end, par, 1, place)
  BY <1>4, <1>5, <1>7, <1>8, <1>9 DEF Numbered, TreeWhole
<1> QED BY <1>6, <1>10 DEF Whole

-----------------------------------------------------------------------------
(***************************************************************************)
(* A record goes in.  It takes the place behind p, the last one below the    *)
(* record it follows, or that of its directory when it becomes the first;    *)
(* later places move up, and z, the directory, and what lies around it grow. *)
(***************************************************************************)
Later(p, x) == IF x > p THEN x + 1 ELSE x
Wider(p, z, a, b) == IF b > p \/ (a <= z /\ z <= b) THEN b + 1 ELSE b

LEMMA WiderPairs ==
  ASSUME NEW p \in Nat, NEW z \in Nat, z <= p,
         NEW a \in Nat, NEW b \in Nat, a <= z /\ z <= b => p <= b,
         NEW c \in Nat, NEW d \in Nat, c <= z /\ z <= d => p <= d,
         a <= c /\ c <= b => d <= b,
         Later(p, a) <= Later(p, c), Later(p, c) <= Wider(p, z, a, b)
  PROVE  a <= c /\ c <= b /\ Wider(p, z, c, d) <= Wider(p, z, a, b)
<1>1. a <= c
  BY DEF Later
<1>2. c <= b
  BY DEF Later, Wider
<1> QED BY <1>1, <1>2 DEF Wider

LEMMA LaterKeeps ==
  ASSUME NEW p \in Nat, NEW x \in Nat, NEW y \in Nat
  PROVE  /\ Later(p, x) \in Nat /\ Later(p, x) # p + 1
         /\ x <= y <=> Later(p, x) <= Later(p, y)
         /\ x < y <=> Later(p, x) < Later(p, y)
         /\ x = y <=> Later(p, x) = Later(p, y)
BY DEF Later

(* The new places.                                                         *)
PlacesIn(T, rid, p, pos) ==
  [r \in T \cup {rid} \cup {0} |-> IF r = rid THEN p + 1 ELSE Later(p, pos[r])]
EndsIn(T, rid, p, z, pos, end) ==
  [r \in T \cup {rid} \cup {0} |-> IF r = rid THEN p + 1 ELSE Wider(p, z, pos[r], end[r])]
ParentsIn(T, rid, pid, par) ==
  [r \in T \cup {rid} |-> IF r = rid THEN pid ELSE par[r]]

(* Where a record may go in: below pid, behind pre.                          *)
PlaceFor(T, pos, end, par, pid, pre, p) ==
  /\ pid \in T
  /\ \/ pre = pid /\ p = pos[pid]
     \/ pre # pid /\ pre \in T /\ par[pre] = pid /\ p = end[pre]

LEMMA PlaceFacts ==
  ASSUME NEW T, NEW N, NEW pos, NEW end, NEW par, TreeNumbered(T, N, pos, end, par),
         NEW pid, NEW pre, NEW p, PlaceFor(T, pos, end, par, pid, pre, p)
  PROVE  /\ p \in 0 .. N /\ pos[pid] \in 1 .. N /\ pos[pid] <= p /\ p <= end[pid]
         /\ pre \in T /\ (pre # pid => pos[pid] < pos[pre])
         /\ \A q \in T \cup {0} : pos[q] <= pos[pid] /\ pos[pid] <= end[q] => p <= end[q]
<1>1. /\ N \in Nat /\ \A q \in T \cup {0} : pos[q] \in 0 .. N /\ end[q] \in 0 .. N
      /\ \A q \in T \cup {0} : pos[q] <= pos[pid] /\ pos[pid] <= end[q] => end[pid] <= end[q]
      /\ \A r \in T : pos[par[r]] < pos[r] /\ pos[r] <= end[r] /\ end[r] <= end[par[r]]
      /\ par[pid] \in T \cup {0} /\ pid \in T
  BY MaxRecAssumption DEF TreeNumbered, PlaceFor
<1>2. /\ p \in 0 .. N /\ pos[pid] \in 1 .. N /\ pos[pid] <= p /\ p <= end[pid]
      /\ pre \in T /\ (pre # pid => pos[pid] < pos[pre])
  <2>1. CASE pre = pid /\ p = pos[pid]
    BY <1>1, <2>1
  <2>2. CASE pre # pid /\ pre \in T /\ par[pre] = pid /\ p = end[pre]
    BY <1>1, <2>2
  <2> QED BY <2>1, <2>2 DEF PlaceFor
<1> QED BY <1>1, <1>2

LEMMA InsertNumbers ==
  ASSUME NEW T, NEW N, NEW pos, NEW end, NEW par, TreeNumbered(T, N, pos, end, par),
         NEW pid, NEW pre, NEW p, PlaceFor(T, pos, end, par, pid, pre, p),
         NEW rid \in Ids \ {0}, rid \notin T, N + 1 <= MaxRec
  PROVE  TreeNumbered(T \cup {rid}, N + 1, PlacesIn(T, rid, p, pos),
                      EndsIn(T, rid, p, pos[pid], pos, end), ParentsIn(T, rid, pid, par))
<1>1. PICK T1, pos1, end1, par1 :
        /\ T1 = T \cup {rid} /\ pos1 = PlacesIn(T, rid, p, pos)
        /\ end1 = EndsIn(T, rid, p, pos[pid], pos, end) /\ par1 = ParentsIn(T, rid, pid, par)
  OBVIOUS
<1>2. PICK z : z = pos[pid]
  OBVIOUS
<1>3. /\ N \in Nat /\ MaxRec \in Nat /\ T \subseteq Ids \ {0} /\ ROOT \in T
      /\ \A q \in T \cup {0} : pos[q] \in Nat /\ pos[q] <= N /\ end[q] \in Nat /\ end[q] <= N
      /\ \A r \in T : par[r] \in T \cup {0}
      /\ pos[0] = 0 /\ end[0] = N /\ pos[ROOT] = 1 /\ par[ROOT] = 0
      /\ \A q, r \in T \cup {0} : pos[q] = pos[r] => q = r
      /\ \A r \in T : pos[par[r]] < pos[r] /\ pos[r] <= end[r] /\ end[r] <= end[par[r]]
      /\ \A q \in T \cup {0}, r \in T :
           pos[q] <= pos[r] /\ pos[r] <= end[q] =>
             end[r] <= end[q] /\ (q # r => pos[q] <= pos[par[r]])
  BY MaxRecAssumption DEF TreeNumbered
<1>4. /\ p \in Nat /\ p <= N /\ z \in Nat /\ z <= p /\ z >= 1 /\ p <= end[pid] /\ pid \in T
      /\ pre \in T /\ (pre # pid => z < pos[pre])
      /\ \A q \in T \cup {0} : pos[q] <= z /\ z <= end[q] => p <= end[q]
  BY <1>2, <1>3, PlaceFacts DEF PlaceFor
<1>5. /\ \A q \in T \cup {0} : pos1[q] = Later(p, pos[q]) /\ end1[q] = Wider(p, z, pos[q], end[q])
      /\ \A r \in T : par1[r] = par[r]
      /\ pos1[rid] = p + 1 /\ end1[rid] = p + 1 /\ par1[rid] = pid
  <2>1. \A q \in T \cup {0} : q # rid
    BY <1>3
  <2> QED BY <1>1, <1>2, <2>1 DEF PlacesIn, EndsIn, ParentsIn
<1>6. \A q \in T \cup {0} : /\ pos1[q] \in 0 .. N + 1 /\ end1[q] \in 0 .. N + 1
                            /\ pos1[q] # p + 1
  <2> TAKE q \in T \cup {0}
  <2>1. pos[q] \in Nat /\ pos[q] <= N /\ end[q] \in Nat /\ end[q] <= N
    BY <1>3
  <2>2. pos1[q] = Later(p, pos[q]) /\ end1[q] = Wider(p, z, pos[q], end[q])
    BY <1>5
  <2> QED BY <1>3, <1>4, <2>1, <2>2 DEF Later, Wider
<1>7. /\ pos1 \in [T1 \cup {0} -> 0 .. N + 1] /\ end1 \in [T1 \cup {0} -> 0 .. N + 1]
      /\ par1 \in [T1 -> T1 \cup {0}]
  <2>1. p + 1 \in 0 .. N + 1
    BY <1>3, <1>4
  <2>2. \A q \in T1 \cup {0} : pos1[q] \in 0 .. N + 1 /\ end1[q] \in 0 .. N + 1
    BY <1>1, <1>5, <1>6, <2>1
  <2>3. \A q \in T1 : par1[q] \in T1 \cup {0}
    BY <1>1, <1>3, <1>4, <1>5
  <2> QED BY <1>1, <2>2, <2>3 DEF PlacesIn, EndsIn, ParentsIn
<1>8. pos1[0] = 0 /\ end1[0] = N + 1 /\ pos1[ROOT] = 1 /\ par1[ROOT] = 0
  <2>1. pos1[0] = Later(p, 0) /\ end1[0] = Wider(p, z, 0, N) /\ pos1[ROOT] = Later(p, 1)
    BY <1>3, <1>5
  <2> QED BY <1>3, <1>4, <1>5, <2>1 DEF Later, Wider
<1>9. ASSUME NEW q \in T1 \cup {0}, NEW r \in T1 \cup {0}, pos1[q] = pos1[r]
      PROVE  q = r
  <2>1. CASE q \in T \cup {0} /\ r \in T \cup {0}
    <3>1. pos[q] \in Nat /\ pos[r] \in Nat /\ Later(p, pos[q]) = Later(p, pos[r])
      BY <1>3, <1>5, <1>9, <2>1
    <3>2. pos[q] = pos[r]
      BY <1>4, <3>1 DEF Later
    <3> QED BY <1>3, <2>1, <3>2
  <2> QED BY <1>1, <1>5, <1>6, <1>9, <2>1
<1>10. ASSUME NEW q \in T \cup {0}, NEW r \in T, pos1[q] <= pos1[r], pos1[r] <= end1[q]
       PROVE  /\ end1[r] <= end1[q]
              /\ pos[q] <= pos[r] /\ pos[r] <= end[q]
  <2>1. /\ pos[q] \in Nat /\ end[q] \in Nat /\ pos[r] \in Nat /\ end[r] \in Nat
        /\ pos[q] <= z /\ z <= end[q] => p <= end[q]
        /\ pos[r] <= z /\ z <= end[r] => p <= end[r]
        /\ pos[q] <= pos[r] /\ pos[r] <= end[q] => end[r] <= end[q]
    BY <1>3, <1>4
  <2>2. /\ Later(p, pos[q]) <= Later(p, pos[r])
        /\ Later(p, pos[r]) <= Wider(p, z, pos[q], end[q])
    BY <1>5, <1>10
  <2>3. Wider(p, z, pos[r], end[r]) <= Wider(p, z, pos[q], end[q])
        /\ pos[q] <= pos[r] /\ pos[r] <= end[q]
    BY <1>4, <2>1, <2>2, WiderPairs
  <2> QED BY <1>5, <2>3
<1>11. ASSUME NEW r \in T
       PROVE  pos1[par1[r]] < pos1[r] /\ pos1[r] <= end1[r] /\ end1[r] <= end1[par1[r]]
  <2>1. PICK q \in T \cup {0} : q = par[r] /\ q = par1[r]
    BY <1>3, <1>5
  <2>2. /\ pos[q] \in Nat /\ end[q] \in Nat /\ pos[r] \in Nat /\ end[r] \in Nat
        /\ pos[q] < pos[r] /\ pos[r] <= end[r] /\ end[r] <= end[q]
        /\ (pos[q] <= z /\ z <= end[q] => p <= end[q])
        /\ (pos[r] <= z /\ z <= end[r] => p <= end[r])
    BY <1>3, <1>4, <2>1
  <2>3. /\ Later(p, pos[q]) < Later(p, pos[r])
        /\ Later(p, pos[r]) <= Wider(p, z, pos[r], end[r])
        /\ Wider(p, z, pos[r], end[r]) <= Wider(p, z, pos[q], end[q])
    BY <1>4, <2>2 DEF Later, Wider
  <2> QED BY <1>5, <2>1, <2>3
<1>12. /\ pos1[pid] < p + 1 /\ p + 1 <= end1[pid]
  <2>1. pos1[pid] = Later(p, z) /\ end1[pid] = Wider(p, z, z, end[pid]) /\ end[pid] \in Nat
    BY <1>2, <1>3, <1>4, <1>5
  <2> QED BY <1>4, <2>1 DEF Later, Wider
<1>13. ASSUME NEW q \in T \cup {0}, pos1[q] <= p + 1, p + 1 <= end1[q]
       PROVE  pos1[q] <= pos1[pid]
  <2>1. /\ pos[q] \in Nat /\ end[q] \in Nat
        /\ Later(p, pos[q]) <= p + 1 /\ p + 1 <= Wider(p, z, pos[q], end[q])
    BY <1>3, <1>5, <1>13
  <2>2. pos[q] <= p /\ (p < end[q] \/ (pos[q] <= z /\ z <= end[q]))
    BY <1>4, <2>1 DEF Later, Wider
  <2>3. pos[q] <= z
    <3> SUFFICES ASSUME z < pos[q], p < end[q] PROVE FALSE
      BY <1>4, <2>1, <2>2
    <3>1. pre # pid /\ par[pre] = pid /\ p = end[pre] /\ z < pos[pre]
      BY <1>2, <1>4, <2>1, <2>2 DEF PlaceFor
    <3>2. /\ pos[pre] \in Nat /\ end[pre] \in Nat /\ pos[pre] <= end[pre]
          /\ (pos[q] <= pos[pre] /\ pos[pre] <= end[q] =>
                end[pre] <= end[q] /\ (q # pre => pos[q] <= pos[par[pre]]))
          /\ (q \in T => (pos[pre] <= pos[q] /\ pos[q] <= end[pre] => end[q] <= end[pre]))
      BY <1>3, <1>4
    <3>3. q # 0 /\ q # pre /\ q \in T
      BY <1>3, <1>4, <2>1, <3>1
    <3>4. CASE pos[pre] <= pos[q]
      BY <1>4, <2>1, <2>2, <3>1, <3>2, <3>3, <3>4
    <3>5. CASE ~(pos[pre] <= pos[q])
      BY <1>2, <1>4, <2>1, <3>1, <3>2, <3>3, <3>5
    <3> QED BY <3>4, <3>5
  <2>4. Later(p, pos[q]) <= Later(p, z)
    BY <1>4, <2>1, <2>3, LaterKeeps
  <2>5. pos1[pid] = Later(p, z)
    BY <1>2, <1>4, <1>5
  <2> QED BY <1>5, <2>4, <2>5
<1>14. \A r \in T1 :
         pos1[par1[r]] < pos1[r] /\ pos1[r] <= end1[r] /\ end1[r] <= end1[par1[r]]
  <2> TAKE r \in T1
  <2>1. CASE r = rid
    BY <1>4, <1>5, <1>12, <2>1
  <2> QED BY <1>1, <1>11, <2>1
<1>15. ASSUME NEW q \in T1 \cup {0}, NEW r \in T1, pos1[q] <= pos1[r], pos1[r] <= end1[q]
       PROVE  end1[r] <= end1[q] /\ (q # r => pos1[q] <= pos1[par1[r]])
  <2>1. CASE q \in T \cup {0} /\ r \in T
    <3>1. end1[r] <= end1[q] /\ pos[q] <= pos[r] /\ pos[r] <= end[q]
      BY <1>10, <1>15, <2>1
    <3>2. q # r => pos1[q] <= pos1[par1[r]]
      <4> HAVE q # r
      <4>1. pos[q] <= pos[par[r]] /\ par[r] \in T \cup {0} /\ par1[r] = par[r]
        BY <1>3, <1>5, <2>1, <3>1
      <4>2. pos[q] \in Nat /\ pos[par[r]] \in Nat
        BY <1>3, <2>1, <4>1
      <4>3. Later(p, pos[q]) <= Later(p, pos[par[r]])
        BY <1>4, <4>1, <4>2, LaterKeeps
      <4> QED BY <1>5, <2>1, <4>1, <4>3
    <3> QED BY <3>1, <3>2
  <2>2. CASE q \in T \cup {0} /\ r = rid
    BY <1>5, <1>13, <1>15, <2>2
  <2>3. CASE q = rid /\ r \in T
    <3>1. pos1[r] \in 0 .. N + 1 /\ pos1[r] # p + 1
      BY <1>6, <2>3
    <3> QED BY <1>3, <1>4, <1>5, <1>15, <2>3, <3>1
  <2>4. CASE q = rid /\ r = rid
    BY <1>4, <1>5, <2>4
  <2> QED BY <1>1, <2>1, <2>2, <2>3, <2>4
<1>16. T1 \subseteq Ids \ {0} /\ ROOT \in T1 /\ N + 1 \in 0 .. MaxRec
  BY <1>1, <1>3
<1>17. TreeNumbered(T1, N + 1, pos1, end1, par1)
  BY <1>7, <1>8, <1>9, <1>14, <1>15, <1>16 DEF TreeNumbered
<1> QED BY <1>1, <1>17

(* The links after rid went in below pid, behind pre: one link leads to rid,  *)
(* and rid leads on to where that link led.                                  *)
LinkedIn(R, S, T, pid, pre, rid) ==
  /\ R[pid].isdir
  /\ \A r \in T \ {pre} : S[r] = R[r]
  /\ ~S[rid].isdir \/ S[rid].sub = 0
  /\ pre = pid =>
       /\ S[pid].isdir /\ S[pid].sub = rid
       /\ S[pid].next = R[pid].next /\ S[pid].islast = R[pid].islast
       /\ S[rid].next = IF R[pid].sub = 0 THEN pid ELSE R[pid].sub
       /\ S[rid].islast <=> R[pid].sub = 0
  /\ pre # pid =>
       /\ S[pre].isdir = R[pre].isdir /\ S[pre].sub = R[pre].sub
       /\ S[pre].next = rid /\ ~S[pre].islast
       /\ S[rid].next = R[pre].next /\ S[rid].islast = R[pre].islast

LEMMA InsertLinks ==
  ASSUME NEW R, NEW S, NEW T, NEW N, NEW pos, NEW end, NEW par,
         TreeWhole(R, T, N, pos, end, par),
         NEW pid, NEW pre, NEW p, PlaceFor(T, pos, end, par, pid, pre, p),
         NEW rid \in Ids \ {0}, rid \notin T, LinkedIn(R, S, T, pid, pre, rid),
         NEW T1, T1 = T \cup {rid}, NEW pos1, pos1 = PlacesIn(T, rid, p, pos),
         NEW end1, end1 = EndsIn(T, rid, p, pos[pid], pos, end),
         NEW par1, par1 = ParentsIn(T, rid, pid, par)
  PROVE  \A r \in T1 : NodeLinked(S, T1, pos1, end1, par1, r)
<1>1. PICK z : z = pos[pid]
  OBVIOUS
<1>2. /\ N \in Nat /\ T \subseteq Ids \ {0}
      /\ \A q \in T \cup {0} : pos[q] \in Nat /\ end[q] \in Nat
      /\ \A r \in T : par[r] \in T \cup {0}
      /\ pos[0] = 0 /\ end[0] = N /\ \A q \in T : pos[q] <= N
      /\ \A q, r \in T \cup {0} : pos[q] = pos[r] => q = r
      /\ \A r \in T : pos[par[r]] < pos[r] /\ pos[r] <= end[r] /\ end[r] <= end[par[r]]
      /\ \A q \in T \cup {0}, r \in T :
           pos[q] <= pos[r] /\ pos[r] <= end[q] =>
             end[r] <= end[q] /\ (q # r => pos[q] <= pos[par[r]])
      /\ \A r \in T : /\ FirstLink(R, T, pos, end, par, r) /\ NextLink(R, T, pos, end, par, r)
                      /\ LoopsBack(R, par, r)
  BY MaxRecAssumption DEF TreeWhole, TreeNumbered, NodeLinked
<1>3. TreeNumbered(T, N, pos, end, par)
  BY DEF TreeWhole
<1>4. /\ p \in Nat /\ z \in Nat /\ z <= p /\ z >= 1 /\ p <= end[pid] /\ pid \in T
      /\ pre \in T /\ (pre # pid => z < pos[pre])
      /\ \A q \in T \cup {0} : pos[q] <= z /\ z <= end[q] => p <= end[q]
      /\ pre = pid => p = z
      /\ pre # pid => par[pre] = pid /\ p = end[pre]
      /\ pid # 0
  BY <1>1, <1>2, <1>3, PlaceFacts DEF PlaceFor
<1>5. /\ \A q \in T \cup {0} : pos1[q] = Later(p, pos[q]) /\ end1[q] = Wider(p, z, pos[q], end[q])
      /\ \A r \in T : par1[r] = par[r]
      /\ pos1[rid] = p + 1 /\ end1[rid] = p + 1 /\ par1[rid] = pid
  <2>1. \A q \in T \cup {0} : q # rid
    OBVIOUS
  <2> QED BY <1>1, <2>1 DEF PlacesIn, EndsIn, ParentsIn
<1>6. ASSUME NEW r \in T, S[r].isdir = R[r].isdir, S[r].sub = R[r].sub, pre # pid \/ r # pid
      PROVE  FirstLink(S, T1, pos1, end1, par1, r)
  <2>1. pos[r] \in Nat /\ end[r] \in Nat /\ pos[r] <= end[r]
    BY <1>2
  <2>2. CASE R[r].isdir /\ R[r].sub # 0
    <3>1. PICK s \in T : s = R[r].sub /\ pos[s] = pos[r] + 1 /\ par[s] = r
      BY <1>2, <2>2 DEF FirstLink
    <3>2. pos[s] \in Nat /\ pos[s] <= end[s] /\ end[s] <= end[r] /\ end[s] \in Nat
      BY <1>2, <3>1
    <3>3. pos[r] # p
      <4> SUFFICES ASSUME pos[r] = p PROVE FALSE
        OBVIOUS
      <4>1. CASE pre = pid
        BY <1>1, <1>2, <1>4, <1>6, <4>1
      <4>2. CASE pre # pid
        <5>1. /\ p = end[pre] /\ pos[pre] \in Nat /\ pos[pre] <= end[pre]
              /\ (pos[pre] <= pos[r] /\ pos[r] <= end[pre] => end[r] <= end[pre])
          BY <1>2, <1>4, <4>2
        <5> QED BY <1>4, <2>1, <3>1, <3>2, <5>1
      <4> QED BY <4>1, <4>2
    <3>4. Later(p, pos[s]) = Later(p, pos[r]) + 1
      BY <1>4, <2>1, <3>1, <3>3 DEF Later
    <3>5. s \in T1 /\ pos1[s] = pos1[r] + 1 /\ par1[s] = r
      BY <1>5, <3>1, <3>4
    <3> QED BY <1>6, <2>2, <3>1, <3>5 DEF FirstLink
  <2>3. CASE ~(R[r].isdir /\ R[r].sub # 0)
    <3>1. end[r] = pos[r]
      BY <1>2, <2>3 DEF FirstLink
    <3>2. pos[r] # z
      <4> SUFFICES ASSUME pos[r] = z PROVE FALSE
        OBVIOUS
      <4>1. r = pid
        BY <1>1, <1>2, <1>4
      <4>2. par[pre] = pid /\ z < pos[pre]
        BY <1>4, <1>6, <4>1
      <4>3. pos[pre] \in Nat /\ end[pre] \in Nat /\ pos[pre] <= end[pre] /\ end[pre] <= end[pid]
        BY <1>2, <1>4, <4>2
      <4> QED BY <1>4, <2>1, <3>1, <4>1, <4>2, <4>3
    <3>3. Wider(p, z, pos[r], end[r]) = Later(p, pos[r])
      BY <1>4, <2>1, <3>1, <3>2 DEF Wider, Later
    <3>4. end1[r] = pos1[r]
      BY <1>5, <3>3
    <3> QED BY <1>6, <2>3, <3>4 DEF FirstLink
  <2> QED BY <2>2, <2>3
<1>7. ASSUME NEW r \in T, NextSibling(S, r) = NextSibling(R, r), pre = pid \/ r # pre
      PROVE  NextLink(S, T1, pos1, end1, par1, r)
  <2>1. PICK q \in T \cup {0} : q = par[r] /\ q = par1[r]
    BY <1>2, <1>5
  <2>2. /\ pos[r] \in Nat /\ end[r] \in Nat /\ pos[r] <= end[r]
        /\ pos[q] \in Nat /\ end[q] \in Nat /\ pos[q] < pos[r] /\ end[r] <= end[q]
        /\ pos[r] <= z /\ z <= end[r] => p <= end[r]
        /\ pos[q] <= z /\ z <= end[q] => p <= end[q]
    BY <1>2, <1>4, <2>1
  (* A record that ends where the new one goes in, and does not hold its    *)
  (* directory, lies below pre; so does its own directory.                  *)
  <2>3. ASSUME end[r] = p, ~(pos[r] <= z /\ z <= end[r])
        PROVE  /\ pre # pid /\ z < pos[q] /\ end[q] <= p
    <3>1. z < pos[r]
      BY <1>4, <2>2, <2>3
    <3>2. pre # pid
      BY <1>4, <2>2, <2>3, <3>1
    <3>3. /\ pos[pre] \in Nat /\ end[pre] = p /\ par[pre] = pid /\ z < pos[pre] /\ r # pre
          /\ pos[pre] <= end[pre]
          /\ (pos[pre] <= pos[r] /\ pos[r] <= end[pre] => pos[pre] <= pos[q])
          /\ (pos[r] <= pos[pre] /\ pos[pre] <= end[r] => pos[r] <= pos[par[pre]])
      BY <1>2, <1>4, <1>7, <2>1, <3>2
    <3>4. pos[pre] <= pos[q]
      BY <1>1, <1>4, <2>2, <2>3, <3>1, <3>3
    <3>5. q # 0
      BY <1>2, <1>4, <3>3, <3>4
    <3>6. pos[pre] <= pos[q] /\ pos[q] <= end[pre] => end[q] <= end[pre]
      BY <1>2, <1>4, <2>1, <3>5
    <3>7. end[q] <= p
      BY <1>4, <2>2, <2>3, <3>3, <3>4, <3>6
    <3> QED BY <1>4, <2>2, <3>2, <3>3, <3>4, <3>7
  <2>4. CASE NextSibling(R, r) = 0
    <3>1. end[r] = end[q]
      BY <1>2, <2>1, <2>4 DEF NextLink
    <3>2. Wider(p, z, pos[r], end[r]) = Wider(p, z, pos[q], end[q])
      BY <1>4, <2>2, <2>3, <3>1 DEF Wider
    <3>3. end1[r] = end1[par1[r]]
      BY <1>5, <2>1, <3>2
    <3> QED BY <1>7, <2>4, <3>3 DEF NextLink
  <2>5. CASE NextSibling(R, r) # 0
    <3>1. PICK s \in T : s = NextSibling(R, r) /\ pos[s] = end[r] + 1 /\ par[s] = q
      <4>1. NextLink(R, T, pos, end, par, r)
        BY <1>2
      <4> QED BY <2>1, <2>5, <4>1 DEF NextLink
    <3>2. pos[s] \in Nat /\ end[s] \in Nat /\ pos[s] <= end[s] /\ end[s] <= end[q]
      BY <1>2, <3>1
    <3>3. Later(p, pos[s]) = Wider(p, z, pos[r], end[r]) + 1
      BY <1>4, <2>2, <2>3, <3>1, <3>2 DEF Later, Wider
    <3>4. s \in T1 /\ pos1[s] = end1[r] + 1 /\ par1[s] = par1[r]
      BY <1>5, <2>1, <3>1, <3>3
    <3> QED BY <1>7, <2>5, <3>1, <3>4 DEF NextLink
  <2> QED BY <2>4, <2>5
<1>8. ASSUME NEW r \in T, r # pre
      PROVE  NodeLinked(S, T1, pos1, end1, par1, r)
  <2>1. S[r] = R[r] /\ NextSibling(S, r) = NextSibling(R, r) /\ (pre # pid \/ r # pid)
    BY <1>8 DEF LinkedIn, NextSibling
  <2>2. FirstLink(S, T1, pos1, end1, par1, r) /\ NextLink(S, T1, pos1, end1, par1, r)
    BY <1>6, <1>7, <1>8, <2>1
  <2>3. LoopsBack(S, par1, r)
    BY <1>2, <1>5, <2>1 DEF LoopsBack
  <2> QED BY <2>2, <2>3 DEF NodeLinked
<1>9. CASE pre = pid
  <2>1. /\ S[pid].isdir /\ S[pid].sub = rid /\ R[pid].isdir
        /\ S[pid].next = R[pid].next /\ S[pid].islast = R[pid].islast
        /\ S[rid].next = IF R[pid].sub = 0 THEN pid ELSE R[pid].sub
        /\ S[rid].islast <=> R[pid].sub = 0
        /\ ~S[rid].isdir \/ S[rid].sub = 0
    BY <1>9 DEF LinkedIn
  <2>2. pos1[pid] = Later(p, z) /\ end1[pid] = Wider(p, z, z, end[pid]) /\ end[pid] \in Nat
    BY <1>1, <1>2, <1>4, <1>5
  <2>3. pos1[rid] = pos1[pid] + 1
    BY <1>4, <1>5, <1>9, <2>2 DEF Later
  <2>4. NodeLinked(S, T1, pos1, end1, par1, pid)
    <3>1. FirstLink(S, T1, pos1, end1, par1, pid)
      BY <1>5, <2>1, <2>3 DEF FirstLink
    <3>2. NextLink(S, T1, pos1, end1, par1, pid)
      <4>1. NextSibling(S, pid) = NextSibling(R, pid)
        BY <2>1 DEF NextSibling
      <4> QED BY <1>4, <1>7, <1>9, <4>1
    <3>3. LoopsBack(S, par1, pid)
      <4>1. LoopsBack(R, par, pid) /\ par1[pid] = par[pid]
        BY <1>2, <1>4, <1>5
      <4> QED BY <2>1, <4>1 DEF LoopsBack
    <3> QED BY <3>1, <3>2, <3>3 DEF NodeLinked
  <2>5. NodeLinked(S, T1, pos1, end1, par1, rid)
    <3>1. FirstLink(S, T1, pos1, end1, par1, rid)
      BY <1>5, <2>1 DEF FirstLink
    <3>2. NextLink(S, T1, pos1, end1, par1, rid)
      <4>1. CASE R[pid].sub = 0
        <5>1. end[pid] = z
          BY <1>1, <1>2, <1>4, <4>1 DEF FirstLink
        <5>2. end1[pid] = p + 1
          BY <1>4, <1>9, <2>2, <5>1 DEF Wider
        <5>3. NextSibling(S, rid) = 0
          BY <2>1, <4>1 DEF NextSibling
        <5> QED BY <1>5, <5>2, <5>3 DEF NextLink
      <4>2. CASE R[pid].sub # 0
        <5>1. PICK s \in T : s = R[pid].sub /\ pos[s] = z + 1 /\ par[s] = pid
          BY <1>1, <1>2, <1>4, <2>1, <4>2 DEF FirstLink
        <5>2. pos1[s] = Later(p, z + 1)
          BY <1>5, <5>1
        <5>3. pos1[s] = p + 1 + 1
          BY <1>4, <1>9, <5>2 DEF Later
        <5>4. NextSibling(S, rid) = s /\ s # 0 /\ s \in T1 /\ par1[s] = pid
          BY <1>2, <1>5, <2>1, <4>2, <5>1 DEF NextSibling
        <5> QED BY <1>5, <5>3, <5>4 DEF NextLink
      <4> QED BY <4>1, <4>2
    <3>3. LoopsBack(S, par1, rid)
      BY <1>5, <2>1 DEF LoopsBack
    <3> QED BY <3>1, <3>2, <3>3 DEF NodeLinked
  <2> QED BY <1>8, <1>9, <2>4, <2>5
<1>10. CASE pre # pid
  <2>1. /\ S[pre].isdir = R[pre].isdir /\ S[pre].sub = R[pre].sub
        /\ S[pre].next = rid /\ ~S[pre].islast
        /\ S[rid].next = R[pre].next /\ S[rid].islast = R[pre].islast
        /\ ~S[rid].isdir \/ S[rid].sub = 0
    BY <1>10 DEF LinkedIn
  <2>2. par[pre] = pid /\ p = end[pre] /\ z < pos[pre] /\ pos[pre] \in Nat /\ end[pre] \in Nat
    BY <1>2, <1>4, <1>10
  <2>3. NodeLinked(S, T1, pos1, end1, par1, pre)
    <3>1. FirstLink(S, T1, pos1, end1, par1, pre)
      BY <1>4, <1>6, <1>10, <2>1
    <3>2. end1[pre] = p
      <4>1. end1[pre] = Wider(p, z, pos[pre], end[pre])
        BY <1>4, <1>5
      <4> QED BY <1>4, <2>2, <4>1 DEF Wider
    <3>3. NextSibling(S, pre) = rid /\ rid # 0 /\ rid \in T1
      BY <2>1 DEF NextSibling
    <3>4. NextLink(S, T1, pos1, end1, par1, pre)
      BY <1>4, <1>5, <2>2, <3>2, <3>3 DEF NextLink
    <3>5. LoopsBack(S, par1, pre)
      BY <2>1 DEF LoopsBack
    <3> QED BY <3>1, <3>4, <3>5 DEF NodeLinked
  <2>4. NodeLinked(S, T1, pos1, end1, par1, rid)
    <3>1. FirstLink(S, T1, pos1, end1, par1, rid)
      BY <1>5, <2>1 DEF FirstLink
    <3>2. NextSibling(S, rid) = NextSibling(R, pre)
      BY <2>1 DEF NextSibling
    <3>3. NextLink(R, T, pos, end, par, pre)
      BY <1>2, <1>4
    <3>4. PICK next : next = NextSibling(R, pre) /\ next = NextSibling(S, rid)
      BY <3>2
    <3>5. NextLink(S, T1, pos1, end1, par1, rid)
      <4>0. end1[rid] = p + 1 /\ par1[rid] = pid
        BY <1>5
      <4>1. CASE next = 0
        <5>1. p = end[pid]
          BY <2>2, <3>3, <3>4, <4>1 DEF NextLink
        <5>2. end1[pid] = Wider(p, z, z, end[pid])
          BY <1>1, <1>4, <1>5
        <5>3. end1[pid] = p + 1
          BY <1>4, <5>1, <5>2 DEF Wider
        <5> QED BY <3>4, <4>0, <4>1, <5>3 DEF NextLink
      <4>2. CASE next # 0
        <5>1. next \in T /\ pos[next] = p + 1 /\ par[next] = pid
          BY <2>2, <3>3, <3>4, <4>2 DEF NextLink
        <5>2. pos1[next] = Later(p, p + 1) /\ par1[next] = pid /\ next \in T1
          BY <1>5, <5>1
        <5>3. pos1[next] = p + 1 + 1
          BY <1>4, <5>2 DEF Later
        <5> QED BY <3>4, <4>0, <4>2, <5>2, <5>3 DEF NextLink
      <4> QED BY <4>1, <4>2
    <3>6. LoopsBack(S, par1, rid)
      <4>1. LoopsBack(R, par, pre) /\ par1[rid] = pid
        BY <1>2, <1>4, <1>5
      <4> QED BY <1>4, <2>1, <2>2, <4>1 DEF LoopsBack
    <3> QED BY <3>1, <3>5, <3>6 DEF NodeLinked
  <2> QED BY <1>8, <2>3, <2>4
<1> QED BY <1>9, <1>10

(* The walks read nothing of a record but its links and whether it is in use. *)
SameLinks(R, S) ==
  \A r \in Ids :
    /\ S[r].isactive = R[r].isactive /\ S[r].isdir = R[r].isdir
    /\ S[r].next = R[r].next /\ S[r].islast = R[r].islast
    /\ R[r].isdir => S[r].sub = R[r].sub

(* The records of R are in the same directories of S.                        *)
SamePlaces(R, S, size) ==
  /\ Active(S) = Active(R)
  /\ \E N, pos, end, par, M, place :
       /\ Numbered(R, size, N, pos, end, par, M, place)
       /\ Numbered(S, size, N, pos, end, par, M, place)

LEMMA SameLinksWhole ==
  ASSUME NEW R, NEW S \in Registry, NEW size, Whole(R, size), SameLinks(R, S)
  PROVE  Whole(S, size) /\ SamePlaces(R, S, size)
<1>1. PICK N, pos, end, par, M, place : Numbered(R, size, N, pos, end, par, M, place)
  BY DEF Whole
<1>2. R \in Registry /\ size \in 2 .. MaxRec /\ Active(R) \subseteq 1 .. size - 1 /\ MaxRec \in Nat
  BY MaxRecAssumption DEF Whole, Shared
<1>3. Active(S) = Active(R)
  BY DEF Active, SameLinks
<1>4. Spares(S, size) = Spares(R, size) /\ Spares(R, size) \subseteq Ids
  <2>1. \A r \in 0 .. size - 1 : r \in Ids
    BY <1>2 DEF Ids
  <2> QED BY <2>1 DEF Spares, SameLinks
<1> DEFINE T == Active(R)
           C == Spares(R, size)
<1>5. ASSUME NEW r \in T PROVE NodeLinked(S, T, pos, end, par, r)
  <2>1. NodeLinked(R, T, pos, end, par, r) /\ r \in Ids
    BY <1>1 DEF Numbered, TreeWhole, Active
  <2>2. /\ S[r].isdir = R[r].isdir /\ (R[r].isdir => S[r].sub = R[r].sub)
        /\ S[r].next = R[r].next /\ S[r].islast = R[r].islast
    BY <2>1 DEF SameLinks
  <2>3. NextSibling(S, r) = NextSibling(R, r)
    BY <2>2 DEF NextSibling
  <2> HIDE DEF T
  <2>4. FirstLink(S, T, pos, end, par, r)
    BY <2>1, <2>2 DEF NodeLinked, FirstLink
  <2>5. NextLink(S, T, pos, end, par, r)
    BY <2>1, <2>3 DEF NodeLinked, NextLink
  <2>6. LoopsBack(S, par, r)
    BY <2>1, <2>2 DEF NodeLinked, LoopsBack
  <2> QED BY <2>4, <2>5, <2>6 DEF NodeLinked
<1>6. TreeWhole(S, T, N, pos, end, par)
  BY <1>1, <1>5 DEF Numbered, TreeWhole
<1>7. ListWhole(S, C, M, place)
  <2>1. \A r \in C : S[r].next = R[r].next
    BY <1>4 DEF SameLinks
  <2> HIDE DEF C
  <2>2. ListWhole(R, C, M, place)
    BY <1>1 DEF Numbered, C
  <2> QED BY <2>1, <2>2 DEF ListWhole, LeadsOn
<1>8. Numbered(S, size, N, pos, end, par, M, place)
  BY <1>1, <1>3, <1>4, <1>6, <1>7 DEF Numbered
<1> QED BY <1>1, <1>2, <1>3, <1>8 DEF Whole, Shared, SamePlaces

-----------------------------------------------------------------------------
(***************************************************************************)
(* An insertion: allocRec takes rid off the recycle list, or adds it behind   *)
(* the others, and then it is linked.                                       *)
(***************************************************************************)
AllocatedIn(R, S, rid) ==
  /\ S[rid].isactive /\ \A r \in Ids \ {rid} : S[r].isactive = R[r].isactive
  /\ \A r \in Ids \ {rid, 0} : ~R[r].isactive => S[r] = R[r]
  /\ S[0].next = IF R[0].next = 0 THEN 0 ELSE R[rid].next

LEMMA InsertChanges ==
  ASSUME NEW R \in Registry, NEW rid \in Ids \ {0}, ~R[rid].isactive, ~R[0].isactive,
         NEW pid \in Dirs(R), NEW pre \in Active(R), NEW new \in RecordItem,
         new.isactive, new.isdir => new.sub = 0,
         NEW S, S = LinkRecord(AllocRec(R, rid, new), pid, pre, rid)
  PROVE  /\ S \in Registry /\ AllocatedIn(R, S, rid)
         /\ LinkedIn(R, S, Active(R), pid, pre, rid)
         /\ \A r \in Ids \ {0, rid, pre} : S[r] = R[r]
         /\ \A r \in Ids \ {rid} : S[r].name = R[r].name
         /\ S[rid].name = new.name
<1>1. /\ pid \in Ids /\ pre \in Ids /\ 0 \in Ids /\ rid \in Ids /\ rid # 0
      /\ R[pid].isactive /\ R[pre].isactive /\ R[pid].isdir
      /\ rid # pid /\ rid # pre /\ pid # 0 /\ pre # 0
  BY MaxRecAssumption DEF Dirs, Active, Ids
<1>2. PICK A : A = AllocRec(R, rid, new)
  OBVIOUS
<1>3. A \in Registry
  BY <1>2, AllocRecLemma
<1>4. /\ A[rid] = new /\ \A r \in Ids \ {rid, 0} : A[r] = R[r]
      /\ A[0] = IF R[0].next # 0 THEN [R[0] EXCEPT !.next = R[rid].next] ELSE R[0]
  BY <1>1, <1>2 DEF AllocRec
<1>5. S = LinkRecord(A, pid, pre, rid) /\ S \in Registry
  BY <1>1, <1>2, <1>3, LinkRecordLemma
<1>6. \A r \in Ids \ {rid, pre} : S[r] = A[r]
  <2>1. SameBut(A, LinkRecord(A, pid, pre, rid), {rid, pre})
    BY <1>1, <1>3, LinkRecordLemma
  <2> QED BY <1>5, <2>1 DEF SameBut
<1>7. A[pid] = R[pid] /\ A[pre] = R[pre]
  BY <1>1, <1>4
<1>8. /\ S[rid] = IF pre = pid
                  THEN [new EXCEPT !.next = IF R[pid].sub = 0 THEN pid ELSE R[pid].sub,
                                   !.islast = (R[pid].sub = 0)]
                  ELSE [new EXCEPT !.next = R[pre].next, !.islast = R[pre].islast]
      /\ S[pre] = IF pre = pid THEN [R[pre] EXCEPT !.sub = rid]
                  ELSE [R[pre] EXCEPT !.next = rid, !.islast = FALSE]
  BY <1>1, <1>3, <1>4, <1>5, <1>7 DEF LinkRecord, Registry
<1>9. R[pre] \in RecordItem /\ R[pid] \in RecordItem /\ R[0] \in RecordItem
  BY <1>1 DEF Registry
<1>10. /\ S[rid].isactive /\ S[rid].name = new.name
       /\ S[rid].isdir = new.isdir /\ S[rid].sub = new.sub
       /\ S[pre].isactive = R[pre].isactive /\ S[pre].isdir = R[pre].isdir
       /\ S[pre].name = R[pre].name
  BY <1>8, <1>9 DEF RecordItem
<1>11. /\ S[0] = A[0] /\ S[0].isactive = R[0].isactive /\ S[0].name = R[0].name
       /\ S[0].next = IF R[0].next = 0 THEN 0 ELSE R[rid].next
  <2>1. S[0] = A[0]
    BY <1>1, <1>6
  <2> QED BY <1>4, <1>9, <2>1 DEF RecordItem
<1>12. \A r \in Ids \ {0, rid, pre} : S[r] = R[r]
  BY <1>4, <1>6
<1>13. AllocatedIn(R, S, rid)
  BY <1>1, <1>10, <1>11, <1>12, ZenonT(60) DEF AllocatedIn
<1>14. \A r \in Ids \ {rid} : S[r].name = R[r].name
  BY <1>10, <1>11, <1>12
<1>15. LinkedIn(R, S, Active(R), pid, pre, rid)
  <2>1. \A r \in Active(R) \ {pre} : S[r] = R[r]
    BY <1>1, <1>12 DEF Active
  <2>2. ~S[rid].isdir \/ S[rid].sub = 0
    BY <1>10
  <2>3. CASE pre = pid
    <3>1. /\ S[pid] = [R[pid] EXCEPT !.sub = rid]
          /\ S[rid] = [new EXCEPT !.next = IF R[pid].sub = 0 THEN pid ELSE R[pid].sub,
                                  !.islast = (R[pid].sub = 0)]
      BY <1>8, <2>3
    <3>2. /\ S[pid].isdir /\ S[pid].sub = rid
          /\ S[pid].next = R[pid].next /\ S[pid].islast = R[pid].islast
          /\ S[rid].next = IF R[pid].sub = 0 THEN pid ELSE R[pid].sub
          /\ S[rid].islast = (R[pid].sub = 0)
      BY <1>1, <1>9, <3>1 DEF RecordItem
    <3> QED BY <1>1, <2>1, <2>2, <2>3, <3>2 DEF LinkedIn
  <2>4. CASE pre # pid
    <3>1. /\ S[pre] = [R[pre] EXCEPT !.next = rid, !.islast = FALSE]
          /\ S[rid] = [new EXCEPT !.next = R[pre].next, !.islast = R[pre].islast]
      BY <1>8, <2>4
    <3>2. /\ S[pre].isdir = R[pre].isdir /\ S[pre].sub = R[pre].sub
          /\ S[pre].next = rid /\ ~S[pre].islast
          /\ S[rid].next = R[pre].next /\ S[rid].islast = R[pre].islast
      BY <1>9, <3>1 DEF RecordItem
    <3> QED BY <1>1, <2>1, <2>2, <2>4, <3>2 DEF LinkedIn
  <2> QED BY <2>3, <2>4
<1> QED BY <1>5, <1>10, <1>12, <1>13, <1>14, <1>15

LEMMA NewIdFacts ==
  ASSUME NEW R, NEW size, Shared(R, size), NEW M, NEW place,
         ListWhole(R, Spares(R, size), M, place),
         NEW rid, rid = NewId(R, size), rid < MaxRec
  PROVE  /\ rid \in Ids \ {0} /\ ~R[rid].isactive /\ ~R[0].isactive
         /\ \/ R[0].next = 0 /\ rid = size
            \/ R[0].next = rid /\ rid \in Spares(R, size) /\ place[rid] = 2
<1>1. /\ R \in Registry /\ size \in 2 .. MaxRec /\ Active(R) \subseteq 1 .. size - 1
      /\ MaxRec \in Nat /\ 0 \in Ids /\ 0 \in Spares(R, size)
  BY MaxRecAssumption DEF Shared, ListWhole, Ids
<1>2. LeadsOn(R, Spares(R, size), M, place, 0) /\ place[0] = 1
  BY <1>1 DEF ListWhole
<1>3. ~R[0].isactive
  BY <1>1 DEF Spares
<1>4. CASE R[0].next = 0
  <2>1. rid = size /\ rid \in Ids \ {0}
    BY <1>1, <1>4 DEF NewId, Ids
  <2>2. rid \notin Active(R)
    BY <1>1, <2>1
  <2> QED BY <1>3, <1>4, <2>1, <2>2 DEF Active
<1>5. CASE R[0].next # 0
  <2>1. rid = R[0].next /\ rid \in Spares(R, size) /\ place[rid] = 2
    BY <1>2, <1>5 DEF LeadsOn, NewId
  <2>2. rid \in 0 .. size - 1 /\ ~R[rid].isactive
    BY <2>1 DEF Spares
  <2> QED BY <1>1, <1>3, <1>5, <2>1, <2>2 DEF Ids
<1> QED BY <1>4, <1>5

LEMMA AllocateList ==
  ASSUME NEW R, NEW size, Shared(R, size), NEW M, NEW place,
         ListWhole(R, Spares(R, size), M, place),
         NEW rid, rid = NewId(R, size), rid < MaxRec, NEW S, AllocatedIn(R, S, rid),
         NEW size1, size1 = IF rid = size THEN size + 1 ELSE size
  PROVE  \E M1, place1 : /\ ListWhole(S, Spares(S, size1), M1, place1)
                         /\ M1 = IF rid = size THEN M ELSE M - 1
<1>1. /\ R \in Registry /\ size \in 2 .. MaxRec /\ MaxRec \in Nat /\ 0 \in Ids
  BY MaxRecAssumption DEF Shared, Ids
<1>2. /\ rid \in Ids \ {0} /\ ~R[rid].isactive /\ ~R[0].isactive
      /\ \/ R[0].next = 0 /\ rid = size
         \/ R[0].next = rid /\ rid \in Spares(R, size) /\ place[rid] = 2
  BY NewIdFacts
<1>3. PICK C : C = Spares(R, size)
  OBVIOUS
<1>4. /\ C \subseteq Ids /\ 0 \in C /\ M \in 0 .. MaxRec
      /\ place \in [C -> 1 .. M] /\ place[0] = 1
      /\ \A r, s \in C : place[r] = place[s] => r = s
      /\ \A r \in C : LeadsOn(R, C, M, place, r)
  BY <1>3 DEF ListWhole
<1>5. Spares(S, size1) = C \ {rid}
  <2>1. \A r \in 0 .. size - 1 : r \in Ids
    BY <1>1 DEF Ids
  <2>2. \A r \in 0 .. size1 - 1 : r \in 0 .. size - 1 \/ r = rid
    BY <1>1
  <2>3. \A r \in 0 .. size - 1 : r \in 0 .. size1 - 1
    BY <1>1
  <2> QED BY <1>3, <2>1, <2>2, <2>3 DEF Spares, AllocatedIn
<1>6. \A r \in C \ {rid, 0} : S[r] = R[r]
  BY <1>3, <1>4 DEF AllocatedIn, Spares
<1>7. S[0].next = IF R[0].next = 0 THEN 0 ELSE R[rid].next
  BY DEF AllocatedIn
<1>8. CASE R[0].next = 0 /\ rid = size
  <2>1. rid \notin C
    BY <1>1, <1>3, <1>8 DEF Spares
  <2>2. \A r \in C : S[r].next = R[r].next
    BY <1>6, <1>7, <1>8, <2>1
  <2>3. ListWhole(S, C, M, place)
    BY <1>4, <2>2 DEF ListWhole, LeadsOn
  <2> QED BY <1>5, <1>8, <2>1, <2>3
<1>9. CASE R[0].next = rid /\ rid \in C /\ place[rid] = 2
  <2>1. rid # size /\ M \in Nat /\ \A r \in C : place[r] \in Nat /\ place[r] \in 1 .. M
    BY <1>1, <1>3, <1>4, <1>9 DEF Spares
  <2> DEFINE C1 == C \ {rid}
             place1 == [r \in C1 |-> IF r = 0 THEN 1 ELSE place[r] - 1]
  <2>2. 0 \in C1 /\ C1 \subseteq C
    BY <1>2, <1>4
  <2>3. \A r \in C1 : r # 0 => place[r] >= 3
    <3> TAKE r \in C1
    <3>1. r # 0 => place[r] # 1 /\ place[r] # 2
      BY <1>4, <1>9
    <3> QED BY <2>1, <3>1
  <2>4. M >= 2 /\ M - 1 \in 0 .. MaxRec
    BY <1>1, <1>4, <1>9, <2>1
  <2>5. \A r \in C1 : place1[r] = IF r = 0 THEN 1 ELSE place[r] - 1
    OBVIOUS
  <2>6. place1 \in [C1 -> 1 .. M - 1]
    <3>1. \A r \in C1 : (IF r = 0 THEN 1 ELSE place[r] - 1) \in 1 .. M - 1
      <4> TAKE r \in C1
      <4>1. r # 0 => place[r] \in Nat /\ place[r] >= 3 /\ place[r] <= M
        BY <2>1, <2>2, <2>3
      <4> QED BY <2>1, <2>4, <4>1
    <3> QED BY <3>1
  <2> HIDE DEF place1
  <2>7. \A r, s \in C1 : place1[r] = place1[s] => r = s
    BY <1>4, <2>1, <2>2, <2>3, <2>5
  <2>8. ASSUME NEW r \in C1 PROVE LeadsOn(S, C1, M - 1, place1, r)
    <3>1. CASE r = 0
      <4>1. LeadsOn(R, C, M, place, rid)
        BY <1>4, <1>9
      <4>2. S[0].next = R[rid].next
        BY <1>2, <1>7, <1>9
      <4>3. CASE R[rid].next = 0
        <5>1. M = 2
          BY <1>9, <4>1, <4>3 DEF LeadsOn
        <5> QED BY <2>2, <2>5, <3>1, <4>2, <4>3, <5>1 DEF LeadsOn
      <4>4. CASE R[rid].next # 0
        <5>1. PICK t : t = R[rid].next
          OBVIOUS
        <5>2. t \in C /\ place[t] = 3 /\ t # 0
          BY <1>9, <4>1, <4>4, <5>1 DEF LeadsOn
        <5>3. t \in C1 /\ place1[t] = 2
          BY <1>9, <2>5, <5>2
        <5>4. place1[0] = 1
          BY <2>2, <2>5
        <5> QED BY <3>1, <4>2, <5>1, <5>2, <5>3, <5>4 DEF LeadsOn
      <4> QED BY <4>3, <4>4
    <3>2. CASE r # 0
      <4>1. LeadsOn(R, C, M, place, r) /\ S[r] = R[r] /\ place1[r] = place[r] - 1 /\ place[r] \in Nat
        BY <1>4, <1>6, <2>1, <2>2, <2>5, <3>2
      <4>2. CASE R[r].next = 0
        BY <4>1, <4>2 DEF LeadsOn
      <4>3. CASE R[r].next # 0
        <5>1. PICK t : t = R[r].next
          OBVIOUS
        <5>2. t \in C /\ place[t] = place[r] + 1 /\ t # 0
          BY <4>1, <4>3, <5>1 DEF LeadsOn
        <5>3. place[r] >= 3
          BY <2>3, <3>2
        <5>4. t # rid
          BY <1>9, <4>1, <5>2, <5>3
        <5>5. t \in C1 /\ place1[t] = place[t] - 1
          BY <2>5, <5>2, <5>4
        <5>6. place1[t] = place1[r] + 1
          BY <4>1, <5>2, <5>5
        <5> QED BY <4>1, <4>3, <5>1, <5>5, <5>6 DEF LeadsOn
      <4> QED BY <4>2, <4>3
    <3> QED BY <3>1, <3>2
  <2>9. place1[0] = 1
    BY <2>2, <2>5
  <2>10. ListWhole(S, C1, M - 1, place1)
    BY <1>4, <2>2, <2>4, <2>6, <2>7, <2>8, <2>9 DEF ListWhole
  <2> QED BY <1>5, <2>1, <2>10
<1> QED BY <1>2, <1>3, <1>8, <1>9

LEMMA InsertWhole ==
  ASSUME NEW R, NEW size, Shared(R, size), NEW N, NEW pos, NEW end, NEW par, NEW M, NEW place,
         Numbered(R, size, N, pos, end, par, M, place),
         NEW pid \in Dirs(R), NEW pre, pre = pid \/ (pre \in Active(R) /\ par[pre] = pid),
         NEW rid, rid = NewId(R, size), rid < MaxRec,
         NEW S \in Registry, AllocatedIn(R, S, rid), LinkedIn(R, S, Active(R), pid, pre, rid),
         NEW size1, size1 = IF rid = size THEN size + 1 ELSE size
  PROVE  /\ Shared(S, size1) /\ Active(S) = Active(R) \cup {rid}
         /\ \E pos1, end1, par1, M1, place1 :
              /\ Numbered(S, size1, N + 1, pos1, end1, par1, M1, place1)
              /\ par1 = ParentsIn(Active(R), rid, pid, par)
              /\ M1 = IF rid = size THEN M ELSE M - 1
<1>1. PICK T : T = Active(R)
  OBVIOUS
<1>2. /\ TreeWhole(R, T, N, pos, end, par) /\ ListWhole(R, Spares(R, size), M, place)
      /\ N + M = size
  BY <1>1 DEF Numbered
<1>3. /\ rid \in Ids \ {0} /\ ~R[rid].isactive
      /\ (R[0].next = 0 /\ rid = size) \/ rid \in Spares(R, size)
  BY <1>2, NewIdFacts
<1>4. /\ R \in Registry /\ size \in 2 .. MaxRec /\ T \subseteq 1 .. size - 1 /\ MaxRec \in Nat
      /\ N \in Nat /\ M \in Nat /\ M >= 1
  <2>1. N \in 0 .. MaxRec /\ M \in 0 .. MaxRec /\ 1 \in 1 .. M
    BY <1>2 DEF TreeWhole, TreeNumbered, ListWhole
  <2> QED BY <1>1, <2>1, MaxRecAssumption DEF Shared
<1>5. size1 \in 2 .. MaxRec /\ rid \in 1 .. size1 - 1 /\ N + 1 <= MaxRec
  <2>1. rid \in Spares(R, size) => rid <= size - 1
    BY <1>4 DEF Spares
  <2>2. rid \in Nat /\ rid >= 1
    BY <1>3, <1>4 DEF Ids
  <2> QED BY <1>2, <1>3, <1>4, <2>1, <2>2
<1>6. Active(S) = T \cup {rid}
  BY <1>1, <1>3 DEF Active, AllocatedIn
<1>7. Shared(S, size1)
  <2>1. T \subseteq 1 .. size1 - 1
    BY <1>4, <1>5
  <2> QED BY <1>5, <1>6, <2>1 DEF Shared
<1>8. PICK p : PlaceFor(T, pos, end, par, pid, pre, p)
  <2>1. pid \in T
    BY <1>1 DEF Dirs
  <2> QED BY <1>1, <2>1 DEF PlaceFor
<1>9. rid \notin T /\ TreeNumbered(T, N, pos, end, par) /\ LinkedIn(R, S, T, pid, pre, rid)
  BY <1>1, <1>2, <1>3 DEF Active, TreeWhole
<1>10. PICK T1, pos1, end1, par1 :
         /\ T1 = T \cup {rid} /\ pos1 = PlacesIn(T, rid, p, pos)
         /\ end1 = EndsIn(T, rid, p, pos[pid], pos, end) /\ par1 = ParentsIn(T, rid, pid, par)
  OBVIOUS
<1>11. TreeNumbered(T1, N + 1, pos1, end1, par1)
  BY <1>3, <1>5, <1>8, <1>9, <1>10, InsertNumbers
<1>12. \A r \in T1 : NodeLinked(S, T1, pos1, end1, par1, r)
  BY <1>2, <1>3, <1>8, <1>9, <1>10, InsertLinks
<1>13. PICK M1, place1 : /\ ListWhole(S, Spares(S, size1), M1, place1)
                         /\ M1 = IF rid = size THEN M ELSE M - 1
  BY <1>2, AllocateList
<1>14. N + 1 + M1 = size1
  BY <1>2, <1>4, <1>13
<1>15. Numbered(S, size1, N + 1, pos1, end1, par1, M1, place1)
  BY <1>6, <1>10, <1>11, <1>12, <1>13, <1>14 DEF Numbered, TreeWhole
<1> QED BY <1>1, <1>6, <1>7, <1>10, <1>13, <1>15

-----------------------------------------------------------------------------
(***************************************************************************)
(* The file when writeRec has written some of the records of an operation,   *)
(* those with the lowest ids, and the process stops.                        *)
(***************************************************************************)
Mix(R, S, W) == [r \in Ids |-> IF r \in W THEN S[r] ELSE R[r]]

LowestOf(W, ids) == W \subseteq ids /\ \A c \in W, d \in ids \ W : c < d

(* load() refuses it whatever the file of names holds, and reads no record     *)
(* outside it unless the stop cut off an append.                            *)
Refuses(D, size, verdict) == verdict = "bad" \/ (verdict = "ub" /\ AppendCut(D, size))

Rejected(D, size) ==
  \A names \in Seq(Names \cup {0}) : Refuses(D, size, VerifyRec(D, size, names))

LEMMA RejectedBy ==
  ASSUME NEW D \in Registry, NEW size \in 2 .. MaxRec,
         NEW C, NEW M, NEW place, ListNumbered(D, size, C, M, place),
         NEW T, NEW N, NEW pos, NEW end, NEW par, TreeNumbered(T, N, pos, end, par),
         \A r \in T : r < size /\ D[r].isactive => NodeLinked(D, T, pos, end, par, r),
         \/ \E r \in C : r # 0 /\ ~Spare(D, size, r)
         \/ \E r \in T : ~(r < size /\ D[r].isactive)
         \/ N + M # size,
         (\A r \in C \cup T : r < size) \/ AppendCut(D, size)
  PROVE  Rejected(D, size)
<1> SUFFICES ASSUME NEW names \in Seq(Names \cup {0})
             PROVE  Refuses(D, size, VerifyRec(D, size, names))
  BY DEF Rejected
<1>1. Len(names) \in Nat /\ size \in 0 .. MaxRec /\ size > 0
  BY MaxRecAssumption
<1>2. TreeLinked(D, size, names, T, pos, end, par)
  BY <1>1 DEF TreeLinked, Readable
<1>3. ~(AllSpare(D, size, C) /\ AllReadable(D, size, names, T) /\ N + M = size)
  BY DEF AllSpare, AllReadable, Readable
<1>4. /\ VerifyRec(D, size, names) \in {"ok", "bad", "ub"}
      /\ VerifyRec(D, size, names) = "ok" <=>
           AllSpare(D, size, C) /\ AllReadable(D, size, names, T) /\ N + M = size
      /\ VerifyRec(D, size, names) = "ub" => \E r \in C \cup T : r >= size
  BY <1>1, <1>2, Verdict
<1>5. ASSUME NEW r \in C \cup T PROVE ~(r < size /\ r >= size)
  <2>1. r \in Nat /\ size \in Nat
    BY MaxRecAssumption DEF ListNumbered, TreeNumbered, Ids
  <2> QED BY <2>1
<1>6. VerifyRec(D, size, names) = "ub" => AppendCut(D, size)
  BY <1>4, <1>5
<1> QED BY <1>3, <1>4, <1>6 DEF Refuses

LEMMA RejectedVerdict ==
  ASSUME NEW D, NEW size, NEW names \in Seq(Names \cup {0}), Rejected(D, size)
  PROVE  /\ VerifyRec(D, size, names) # "ok"
         /\ ~AppendCut(D, size) => VerifyRec(D, size, names) = "bad"
BY DEF Rejected, Refuses

LEMMA NodeLinkedAlike ==
  ASSUME NEW R, NEW D, NEW T, NEW pos, NEW end, NEW par, NEW r, D[r] = R[r],
         NodeLinked(R, T, pos, end, par, r)
  PROVE  NodeLinked(D, T, pos, end, par, r)
<1>1. NextSibling(D, r) = NextSibling(R, r)
  BY DEF NextSibling
<1>2. FirstLink(D, T, pos, end, par, r)
  BY DEF NodeLinked, FirstLink
<1>3. NextLink(D, T, pos, end, par, r)
  BY <1>1 DEF NodeLinked, NextLink
<1>4. LoopsBack(D, par, r)
  BY DEF NodeLinked, LoopsBack
<1> QED BY <1>2, <1>3, <1>4 DEF NodeLinked

LEMMA MixType ==
  ASSUME NEW R \in Registry, NEW S \in Registry, NEW W
  PROVE  /\ Mix(R, S, W) \in Registry
         /\ \A r \in Ids : Mix(R, S, W)[r] = IF r \in W THEN S[r] ELSE R[r]
BY DEF Mix, Registry

LEMMA InsertTorn ==
  ASSUME NEW R, NEW size, Shared(R, size), NEW N, NEW pos, NEW end, NEW par, NEW M, NEW place,
         Numbered(R, size, N, pos, end, par, M, place),
         NEW pid \in Dirs(R), NEW pre \in Active(R), pre = pid \/ par[pre] = pid,
         NEW rid, rid = NewId(R, size), rid < MaxRec,
         NEW S \in Registry, AllocatedIn(R, S, rid), LinkedIn(R, S, Active(R), pid, pre, rid),
         \A r \in Ids \ {0, rid, pre} : S[r] = R[r],
         NEW ids, ids = {rid, pre} \cup (IF rid = R[0].next THEN {0} ELSE {}),
         NEW W, LowestOf(W, ids), W # {}, W # ids
  PROVE  Rejected(Mix(R, S, W), size) /\ size \notin W
<1>1. PICK T, C, size1 : /\ T = Active(R) /\ C = Spares(R, size)
                         /\ size1 = IF rid = size THEN size + 1 ELSE size
  OBVIOUS
<1>2. /\ TreeNumbered(T, N, pos, end, par) /\ N + M = size
      /\ \A r \in T : NodeLinked(R, T, pos, end, par, r)
      /\ ListWhole(R, C, M, place)
  BY <1>1 DEF Numbered, TreeWhole
<1>3. /\ rid \in Ids \ {0} /\ ~R[rid].isactive /\ ~R[0].isactive
      /\ (R[0].next = 0 /\ rid = size) \/ (R[0].next = rid /\ rid \in C)
  BY <1>1, <1>2, NewIdFacts
<1>4. /\ R \in Registry /\ size \in 2 .. MaxRec /\ T \subseteq 1 .. size - 1 /\ MaxRec \in Nat
      /\ N \in Nat /\ M \in Nat
  BY <1>1, <1>2, MaxRecAssumption DEF Shared, TreeNumbered, ListWhole
<1>5. PICK pos1, end1, par1, M1, place1 :
        /\ Numbered(S, size1, N + 1, pos1, end1, par1, M1, place1)
        /\ M1 = IF rid = size THEN M ELSE M - 1
        /\ Active(S) = T \cup {rid}
  BY <1>1, InsertWhole
<1>6. PICK T1, C1 : T1 = T \cup {rid} /\ C1 = Spares(S, size1)
  OBVIOUS
<1>7. /\ TreeNumbered(T1, N + 1, pos1, end1, par1)
      /\ \A r \in T1 : NodeLinked(S, T1, pos1, end1, par1, r)
      /\ ListWhole(S, C1, M1, place1)
  BY <1>5, <1>6 DEF Numbered, TreeWhole
<1>8. PICK D : D = Mix(R, S, W)
  OBVIOUS
<1>9. /\ D \in Registry /\ \A r \in Ids : D[r] = IF r \in W THEN S[r] ELSE R[r]
      /\ \A r \in T : r \in Ids /\ R[r].isactive /\ r # rid /\ r # 0
  BY <1>1, <1>3, <1>4, <1>8, MixType DEF Active
<1>10. \A r \in T \ {pre} : S[r] = R[r]
  BY <1>1, <1>9
<1>11. W \subseteq ids /\ \A c \in W, d \in ids \ W : c < d
  BY DEF LowestOf
<1>12. CASE R[0].next = 0 /\ rid = size
  <2>1. ids = {rid, pre} /\ pre < rid /\ pre \in T /\ pre \in Nat /\ rid \in Nat
    BY <1>1, <1>3, <1>4, <1>12
  <2>2. W = {pre}
    BY <1>11, <2>1
  <2>3. \A r \in T : D[r] = S[r]
    BY <1>9, <1>10, <2>2
  <2>4. \A r \in T1 : r < size /\ D[r].isactive => NodeLinked(D, T1, pos1, end1, par1, r)
    <3> SUFFICES ASSUME NEW r \in T1, r < size
                 PROVE  NodeLinked(D, T1, pos1, end1, par1, r)
      OBVIOUS
    <3>1. r \in T
      BY <1>4, <1>6, <1>12
    <3> QED BY <1>7, <2>3, <3>1, NodeLinkedAlike
  <2>5. ListNumbered(D, size, C, M, place)
    <3>1. \A r \in C : r \in Ids /\ D[r] = R[r]
      BY <1>1, <1>2, <1>9, <2>1, <2>2 DEF Spares, ListWhole
    <3> QED BY <1>2, <1>4, <3>1 DEF ListWhole, ListNumbered, LeadsOn
  <2>6. rid \in T1 /\ ~(rid < size)
    BY <1>4, <1>6, <1>12
  <2>7. AppendCut(D, size)
    <3>1. D[pre] = S[pre] /\ pre \in Ids /\ pre \in T
      BY <1>9, <2>1, <2>3
    <3>2. pre = pid \/ pre # pid
      OBVIOUS
    <3>3. PointsAt(D, pre, size)
      BY <1>1, <1>12, <3>1, <3>2 DEF LinkedIn, PointsAt
    <3>4. D[pre].isactive
      BY <1>1, <1>3, <1>5, <1>12, <3>1 DEF Active
    <3> QED BY <3>1, <3>3, <3>4 DEF AppendCut, Active
  <2>8. Rejected(D, size)
    BY <1>4, <1>7, <1>9, <2>4, <2>5, <2>6, <2>7, RejectedBy
  <2> QED BY <1>4, <1>8, <1>12, <2>1, <2>2, <2>8
<1>13. CASE R[0].next = rid /\ rid \in C
  <2>1. ids = {0, rid, pre} /\ size1 = size /\ rid # size /\ pre \in T /\ pre \in Nat /\ rid \in Nat
    BY <1>1, <1>3, <1>4, <1>13 DEF Spares, Ids
  <2>2. 0 \in W /\ ~(pre \in W /\ rid \in W)
    <3>1. PICK c \in W : TRUE
      OBVIOUS
    <3>2. c \in Nat
      BY <1>11, <2>1, <3>1
    <3>3. 0 \in W
      BY <1>11, <2>1, <3>1, <3>2
    <3>4. ASSUME pre \in W, rid \in W PROVE FALSE
      <4>1. ids \subseteq W
        BY <2>1, <3>3, <3>4
      <4>2. W \subseteq ids
        BY <1>11
      <4> QED BY <4>1, <4>2
    <3> QED BY <3>3, <3>4
  <2>3. size \notin W
    BY <1>1, <1>4, <1>11, <2>1
  <2>4. ListNumbered(D, size, C1, M1, place1)
    <3>1. ASSUME NEW r \in C1 PROVE D[r] = S[r]
      <4>1. r \in Ids /\ ~S[r].isactive
        BY <1>6, <1>7, <3>1 DEF Spares, ListWhole
      <4>2. r # rid /\ r # pre
        BY <1>1, <1>9, <2>1, <4>1 DEF AllocatedIn
      <4> QED BY <1>9, <2>2, <4>1, <4>2
    <3> QED BY <1>4, <1>7, <3>1 DEF ListWhole, ListNumbered, LeadsOn
  <2>5. /\ \A r \in C1 \cup T : r < size
        /\ \A r \in C1 \cup T1 : r < size
    <3>1. \A r \in T1 : r \in 0 .. size - 1
      BY <1>1, <1>4, <1>6, <1>13 DEF Spares
    <3>2. \A r \in C1 : r \in 0 .. size - 1
      BY <1>6, <2>1 DEF Spares
    <3>3. \A r \in C1 \cup T1 : r < size
      BY <1>4, <3>1, <3>2
    <3> QED BY <1>6, <3>3
  <2>6. CASE pre \notin W
    <3>1. \A r \in T : D[r] = R[r]
      BY <1>9, <1>11, <2>1, <2>6
    <3>2. \A r \in T : r < size /\ D[r].isactive => NodeLinked(D, T, pos, end, par, r)
      BY <1>2, <3>1, NodeLinkedAlike
    <3>3. N + M1 # size
      BY <1>2, <1>4, <1>5, <2>1
    <3>4. Rejected(D, size)
      <4>1. TreeNumbered(T, N, pos, end, par) /\ D \in Registry /\ size \in 2 .. MaxRec
        BY <1>2, <1>4, <1>9
      <4> QED BY <2>4, <2>5, <3>2, <3>3, <4>1, RejectedBy
    <3> QED BY <1>8, <2>3, <3>4
  <2>7. CASE pre \in W /\ rid \notin W
    <3>1. \A r \in T : D[r] = S[r]
      BY <1>9, <1>10, <2>7
    <3>2. D[rid] = R[rid] /\ ~D[rid].isactive
      BY <1>3, <1>9, <2>7
    <3>3. \A r \in T1 : r < size /\ D[r].isactive => NodeLinked(D, T1, pos1, end1, par1, r)
      <4> SUFFICES ASSUME NEW r \in T1, D[r].isactive
                   PROVE  NodeLinked(D, T1, pos1, end1, par1, r)
        OBVIOUS
      <4>1. r \in T
        BY <1>6, <3>2
      <4> QED BY <1>7, <3>1, <4>1, NodeLinkedAlike
    <3>4. rid \in T1
      BY <1>6
    <3>5. Rejected(D, size)
      BY <1>4, <1>7, <1>9, <2>4, <2>5, <3>2, <3>3, <3>4, RejectedBy
    <3> QED BY <1>8, <2>3, <3>5
  <2> QED BY <2>2, <2>6, <2>7
<1> QED BY <1>3, <1>12, <1>13

-----------------------------------------------------------------------------
(***************************************************************************)
(* A removal: rid, which has no entries, leaves its place in the tree and     *)
(* goes into the recycle list behind rpre.                                  *)
(***************************************************************************)
Closer(p, x) == IF x >= p THEN x - 1 ELSE x

PlacesOut(T, rid, p, pos) == [r \in (T \ {rid}) \cup {0} |-> Closer(p, pos[r])]

ParentsOut(T, rid, par) == [r \in T \ {rid} |-> par[r]]

(* Where a record is taken out: below pid, behind pre.                       *)
TakenFrom(T, pos, end, par, pid, pre, rid) ==
  /\ pid \in T /\ pre \in T /\ rid \in T \ {ROOT, pre, pid}
  /\ par[rid] = pid /\ end[rid] = pos[rid]
  /\ \/ pre = pid /\ pos[rid] = pos[pid] + 1
     \/ pre # pid /\ par[pre] = pid /\ pos[rid] = end[pre] + 1

LEMMA CloserFacts ==
  ASSUME NEW p \in Nat, p >= 1, NEW x \in Nat, NEW y \in Nat
  PROVE  /\ Closer(p, x) \in Nat /\ Closer(p, x) <= x
         /\ x <= y => Closer(p, x) <= Closer(p, y)
         /\ y # p /\ Closer(p, y) <= Closer(p, x) => y <= x
         /\ y # p /\ y = x + 1 => Closer(p, y) = Closer(p, x) + 1
BY DEF Closer

LEMMA RemoveNumbers ==
  ASSUME NEW T, NEW N, NEW pos, NEW end, NEW par, TreeNumbered(T, N, pos, end, par),
         NEW pid, NEW pre, NEW rid, TakenFrom(T, pos, end, par, pid, pre, rid),
         NEW p, p = pos[rid]
  PROVE  TreeNumbered(T \ {rid}, N - 1, PlacesOut(T, rid, p, pos), PlacesOut(T, rid, p, end),
                      ParentsOut(T, rid, par))
<1>1. PICK T1, pos1, end1, par1 :
        /\ T1 = T \ {rid} /\ pos1 = PlacesOut(T, rid, p, pos)
        /\ end1 = PlacesOut(T, rid, p, end) /\ par1 = ParentsOut(T, rid, par)
  OBVIOUS
<1>2. /\ N \in 0 .. MaxRec /\ MaxRec \in Nat /\ T \subseteq Ids \ {0} /\ ROOT \in T
      /\ \A q \in T \cup {0} : pos[q] \in Nat /\ pos[q] <= N /\ end[q] \in Nat /\ end[q] <= N
      /\ \A r \in T : par[r] \in T \cup {0}
      /\ pos[0] = 0 /\ end[0] = N /\ pos[ROOT] = 1 /\ par[ROOT] = 0
      /\ \A q, r \in T \cup {0} : pos[q] = pos[r] => q = r
      /\ \A r \in T : pos[par[r]] < pos[r] /\ pos[r] <= end[r] /\ end[r] <= end[par[r]]
      /\ \A q \in T \cup {0}, r \in T :
           pos[q] <= pos[r] /\ pos[r] <= end[q] =>
             end[r] <= end[q] /\ (q # r => pos[q] <= pos[par[r]])
  BY MaxRecAssumption DEF TreeNumbered
<1>3. rid \in T /\ rid # ROOT /\ rid # 0 /\ end[rid] = p
  BY <1>2 DEF TakenFrom
<1>4. p \in Nat /\ p >= 1 /\ p <= N /\ p > 1
  <2>1. p \in Nat /\ p <= N /\ p # 0 /\ p # 1
    BY <1>2, <1>3
  <2> QED BY <2>1
<1>5. /\ \A q \in T1 \cup {0} : /\ pos1[q] = Closer(p, pos[q]) /\ end1[q] = Closer(p, end[q])
                                /\ pos[q] # p /\ q \in T \cup {0}
      /\ \A r \in T1 : par1[r] = par[r] /\ r \in T
  BY <1>1, <1>2, <1>3 DEF PlacesOut, ParentsOut
<1>6. \A r \in T1 : par[r] \in T1 \cup {0}
  <2> SUFFICES ASSUME NEW r \in T1, par[r] = rid PROVE FALSE
    BY <1>1, <1>2
  <2> QED BY <1>2, <1>3, <1>5
<1>7. pos1 \in [T1 \cup {0} -> 0 .. N - 1] /\ end1 \in [T1 \cup {0} -> 0 .. N - 1]
  <2>1. ASSUME NEW x \in Nat, x <= N PROVE Closer(p, x) \in 0 .. N - 1
    BY <1>2, <1>4, <2>1 DEF Closer
  <2>2. \A q \in T1 \cup {0} : Closer(p, pos[q]) \in 0 .. N - 1 /\ Closer(p, end[q]) \in 0 .. N - 1
    BY <1>2, <1>5, <2>1
  <2> QED BY <1>1, <2>2 DEF PlacesOut
<1>8. par1 \in [T1 -> T1 \cup {0}]
  BY <1>1, <1>6 DEF ParentsOut
<1>9. pos1[0] = 0 /\ end1[0] = N - 1 /\ pos1[ROOT] = 1 /\ par1[ROOT] = 0
  <2>1. ROOT \in T1
    BY <1>1, <1>2, <1>3
  <2> QED BY <1>2, <1>4, <1>5, <2>1 DEF Closer
<1>10. \A q, r \in T1 \cup {0} : pos1[q] = pos1[r] => q = r
  <2> TAKE q, r \in T1 \cup {0}
  <2>1. pos1[q] = Closer(p, pos[q]) /\ pos1[r] = Closer(p, pos[r]) /\ pos[q] # p /\ pos[r] # p
    BY <1>5
  <2>2. pos[q] \in Nat /\ pos[r] \in Nat /\ (pos[q] = pos[r] => q = r)
    BY <1>2, <1>5
  <2> QED BY <1>4, <2>1, <2>2 DEF Closer
<1>11. \A r \in T1 : pos1[par1[r]] < pos1[r] /\ pos1[r] <= end1[r] /\ end1[r] <= end1[par1[r]]
  <2> TAKE r \in T1
  <2>1. PICK q \in T1 \cup {0} : q = par[r] /\ q = par1[r]
    BY <1>5, <1>6
  <2>2. /\ pos[q] \in Nat /\ end[q] \in Nat /\ pos[r] \in Nat /\ end[r] \in Nat
        /\ pos[q] < pos[r] /\ pos[r] <= end[r] /\ end[r] <= end[q]
        /\ pos[q] # p /\ pos[r] # p
    BY <1>2, <1>5, <2>1
  <2>3. /\ Closer(p, pos[q]) < Closer(p, pos[r]) /\ Closer(p, pos[r]) <= Closer(p, end[r])
        /\ Closer(p, end[r]) <= Closer(p, end[q])
    BY <1>4, <2>2 DEF Closer
  <2> QED BY <1>5, <2>1, <2>3
<1>12. \A q \in T1 \cup {0}, r \in T1 :
         pos1[q] <= pos1[r] /\ pos1[r] <= end1[q] =>
           end1[r] <= end1[q] /\ (q # r => pos1[q] <= pos1[par1[r]])
  <2> TAKE q \in T1 \cup {0}, r \in T1
  <2> HAVE pos1[q] <= pos1[r] /\ pos1[r] <= end1[q]
  <2>1. PICK u \in T1 \cup {0} : u = par[r] /\ u = par1[r]
    BY <1>5, <1>6
  <2>2. /\ pos[q] \in Nat /\ end[q] \in Nat /\ pos[r] \in Nat /\ end[r] \in Nat /\ pos[u] \in Nat
        /\ pos[r] # p /\ q \in T \cup {0} /\ r \in T
    BY <1>2, <1>5
  <2>3. Closer(p, pos[q]) <= Closer(p, pos[r]) /\ Closer(p, pos[r]) <= Closer(p, end[q])
    BY <1>5
  <2>4. pos[q] <= pos[r] /\ pos[r] <= end[q]
    <3>1. pos[q] # p
      BY <1>5
    <3> QED BY <1>4, <2>2, <2>3, <3>1 DEF Closer
  <2>5. end[r] <= end[q] /\ (q # r => pos[q] <= pos[u])
    BY <1>2, <2>1, <2>2, <2>4
  <2>6. Closer(p, end[r]) <= Closer(p, end[q]) /\ (q # r => Closer(p, pos[q]) <= Closer(p, pos[u]))
    BY <1>4, <2>2, <2>5 DEF Closer
  <2> QED BY <1>5, <2>1, <2>6
<1>13. T1 \subseteq Ids \ {0} /\ ROOT \in T1 /\ N - 1 \in 0 .. MaxRec
  BY <1>1, <1>2, <1>3, <1>4
<1>14. TreeNumbered(T1, N - 1, pos1, end1, par1)
  BY <1>7, <1>8, <1>9, <1>10, <1>11, <1>12, <1>13 DEF TreeNumbered
<1> QED BY <1>1, <1>14

(* The one link that led to rid leads to where rid led.                      *)
LinkedOut(R, S, T, pid, pre, rid) ==
  /\ \A r \in T \ {pre, rid} : S[r] = R[r]
  /\ pre = pid =>
       /\ S[pid].isdir /\ S[pid].sub = NextSibling(R, rid)
       /\ S[pid].next = R[pid].next /\ S[pid].islast = R[pid].islast
  /\ pre # pid =>
       /\ S[pre].isdir = R[pre].isdir /\ S[pre].sub = R[pre].sub
       /\ S[pre].next = R[rid].next /\ S[pre].islast = R[rid].islast

LEMMA RemoveLinks ==
  ASSUME NEW R, NEW S, NEW T, NEW N, NEW pos, NEW end, NEW par,
         TreeWhole(R, T, N, pos, end, par),
         NEW pid, NEW pre, NEW rid, TakenFrom(T, pos, end, par, pid, pre, rid),
         NEW p, p = pos[rid], LinkedOut(R, S, T, pid, pre, rid),
         NEW T1, T1 = T \ {rid}, NEW pos1, pos1 = PlacesOut(T, rid, p, pos),
         NEW end1, end1 = PlacesOut(T, rid, p, end), NEW par1, par1 = ParentsOut(T, rid, par)
  PROVE  \A r \in T1 : NodeLinked(S, T1, pos1, end1, par1, r)
<1>1. /\ N \in Nat /\ T \subseteq Ids \ {0}
      /\ \A q \in T \cup {0} : pos[q] \in Nat /\ end[q] \in Nat
      /\ \A r \in T : par[r] \in T \cup {0}
      /\ pos[0] = 0
      /\ \A q, r \in T \cup {0} : pos[q] = pos[r] => q = r
      /\ \A r \in T : pos[par[r]] < pos[r] /\ pos[r] <= end[r] /\ end[r] <= end[par[r]]
      /\ \A q \in T \cup {0}, r \in T :
           pos[q] <= pos[r] /\ pos[r] <= end[q] =>
             end[r] <= end[q] /\ (q # r => pos[q] <= pos[par[r]])
      /\ \A r \in T : /\ FirstLink(R, T, pos, end, par, r) /\ NextLink(R, T, pos, end, par, r)
                      /\ LoopsBack(R, par, r)
  BY MaxRecAssumption DEF TreeWhole, TreeNumbered, NodeLinked
<1>2. /\ pid \in T1 /\ pre \in T1 /\ rid \in T /\ rid # 0
      /\ par[rid] = pid /\ end[rid] = p
      /\ pre = pid => p = pos[pid] + 1
      /\ pre # pid => par[pre] = pid /\ p = end[pre] + 1
  BY <1>1 DEF TakenFrom
<1>3. p \in Nat /\ p >= 1
  <2>1. p \in Nat /\ p # 0
    BY <1>1, <1>2
  <2> QED BY <2>1
<1>4. /\ \A q \in T1 \cup {0} : /\ pos1[q] = Closer(p, pos[q]) /\ end1[q] = Closer(p, end[q])
                                /\ pos[q] # p /\ q \in T \cup {0}
      /\ \A r \in T1 : par1[r] = par[r] /\ r \in T
  BY <1>1, <1>2 DEF PlacesOut, ParentsOut
<1>5. \A r \in T1 : par[r] \in T1 \cup {0}
  <2> SUFFICES ASSUME NEW r \in T1, par[r] = rid PROVE FALSE
    BY <1>1, <1>2
  <2> QED BY <1>1, <1>2, <1>4
<1>6. pre # pid => pos[pid] < pos[pre] /\ pos[pre] <= end[pre] /\ end[pre] \in Nat /\ pos[pre] \in Nat
  BY <1>1, <1>2, <1>4
<1>7. ASSUME NEW r \in T1, S[r].isdir = R[r].isdir, S[r].sub = R[r].sub, pre # pid \/ r # pid
      PROVE  FirstLink(S, T1, pos1, end1, par1, r)
  <2>1. /\ pos[r] \in Nat /\ end[r] \in Nat /\ r \in T
        /\ pos1[r] = Closer(p, pos[r]) /\ end1[r] = Closer(p, end[r])
        /\ FirstLink(R, T, pos, end, par, r)
    BY <1>1, <1>4
  <2>2. CASE R[r].isdir /\ R[r].sub # 0
    <3>1. PICK s \in T : s = R[r].sub /\ pos[s] = pos[r] + 1 /\ par[s] = r
      BY <2>1, <2>2 DEF FirstLink
    <3>2. s # rid
      <4> SUFFICES ASSUME s = rid PROVE FALSE
        OBVIOUS
      <4>1. r = pid /\ p = pos[pid] + 1
        BY <1>2, <3>1
      <4>2. pre # pid
        BY <1>7, <4>1
      <4>3. p = end[pre] + 1 /\ pos[pid] \in Nat
        BY <1>1, <1>2, <4>2
      <4> QED BY <1>6, <4>1, <4>2, <4>3
    <3>3. s \in T1 /\ par1[s] = r /\ pos1[s] = Closer(p, pos[s]) /\ pos[s] # p /\ pos[s] \in Nat
      BY <1>1, <1>4, <3>1, <3>2
    <3>4. pos1[s] = pos1[r] + 1
      BY <1>3, <2>1, <3>1, <3>3, CloserFacts
    <3> QED BY <1>7, <2>2, <3>1, <3>3, <3>4 DEF FirstLink
  <2>3. CASE ~(R[r].isdir /\ R[r].sub # 0)
    <3>1. end[r] = pos[r]
      BY <2>1, <2>3 DEF FirstLink
    <3> QED BY <1>7, <2>1, <2>3, <3>1 DEF FirstLink
  <2> QED BY <2>2, <2>3
<1>8. ASSUME NEW r \in T1, NextSibling(S, r) = NextSibling(R, r), pre = pid \/ r # pre
      PROVE  NextLink(S, T1, pos1, end1, par1, r)
  <2>1. PICK q \in T1 \cup {0} : q = par[r] /\ q = par1[r]
    BY <1>4, <1>5
  <2>2. /\ pos[r] \in Nat /\ end[r] \in Nat /\ r \in T /\ NextLink(R, T, pos, end, par, r)
        /\ end1[r] = Closer(p, end[r]) /\ end1[q] = Closer(p, end[q])
    BY <1>1, <1>4
  <2>3. PICK next : next = NextSibling(R, r) /\ next = NextSibling(S, r)
    BY <1>8
  <2>4. CASE next = 0
    <3>1. end[r] = end[q]
      BY <2>1, <2>2, <2>3, <2>4 DEF NextLink
    <3> QED BY <2>1, <2>2, <2>3, <2>4, <3>1 DEF NextLink
  <2>5. CASE next # 0
    <3>1. next \in T /\ pos[next] = end[r] + 1 /\ par[next] = q
      BY <2>1, <2>2, <2>3, <2>5 DEF NextLink
    <3>2. next # rid
      <4> SUFFICES ASSUME next = rid PROVE FALSE
        OBVIOUS
      <4>1. q = pid /\ p = end[r] + 1 /\ pos[pid] < pos[r] /\ pos[r] <= end[r] /\ pos[pid] \in Nat
        BY <1>1, <1>2, <2>1, <3>1
      <4>2. CASE pre = pid
        BY <1>2, <2>2, <4>1, <4>2
      <4>3. CASE pre # pid
        <5>1. par[pre] = pid /\ end[r] = end[pre] /\ r # pre /\ pre \in T
          BY <1>2, <1>4, <1>6, <1>8, <2>2, <4>1, <4>3
        <5>2. /\ pos[pre] <= pos[r] /\ pos[r] <= end[pre] => pos[pre] <= pos[pid]
              /\ pos[r] <= pos[pre] /\ pos[pre] <= end[r] => pos[r] <= pos[pid]
          <6>1. par[r] = pid /\ par[pre] = pid /\ pre \in T \cup {0} /\ r \in T \cup {0}
            BY <2>1, <2>2, <4>1, <5>1
          <6>2. /\ pos[pre] <= pos[r] /\ pos[r] <= end[pre] => pos[pre] <= pos[par[r]]
                /\ pos[r] <= pos[pre] /\ pos[pre] <= end[r] => pos[r] <= pos[par[pre]]
            BY <1>1, <2>2, <5>1, <6>1
          <6> QED BY <6>1, <6>2
        <5> QED BY <1>6, <2>2, <4>1, <4>3, <5>1, <5>2
      <4> QED BY <4>2, <4>3
    <3>3. next \in T1 /\ par1[next] = q /\ pos1[next] = Closer(p, pos[next])
          /\ pos[next] # p /\ pos[next] \in Nat
      BY <1>1, <1>4, <3>1, <3>2
    <3>4. pos1[next] = end1[r] + 1
      BY <1>3, <2>2, <3>1, <3>3, CloserFacts
    <3> QED BY <2>1, <2>3, <2>5, <3>3, <3>4 DEF NextLink
  <2> QED BY <2>4, <2>5
<1>9. ASSUME NEW r \in T1, r # pre
      PROVE  NodeLinked(S, T1, pos1, end1, par1, r)
  <2>1. S[r] = R[r] /\ NextSibling(S, r) = NextSibling(R, r) /\ (pre # pid \/ r # pid)
    BY <1>9 DEF LinkedOut, NextSibling
  <2>2. FirstLink(S, T1, pos1, end1, par1, r) /\ NextLink(S, T1, pos1, end1, par1, r)
    BY <1>7, <1>8, <1>9, <2>1
  <2>3. LoopsBack(S, par1, r)
    BY <1>1, <1>4, <2>1 DEF LoopsBack
  <2> QED BY <2>2, <2>3 DEF NodeLinked
(* Where rid led.                                                           *)
<1>10. PICK next : next = NextSibling(R, rid)
  OBVIOUS
<1>11. /\ next = 0 => end[pid] = p
       /\ next # 0 => next \in T1 /\ pos1[next] = p /\ par1[next] = pid
  <2>1. NextLink(R, T, pos, end, par, rid)
    BY <1>1, <1>2
  <2>2. next = 0 => end[pid] = p
    BY <1>2, <1>10, <2>1 DEF NextLink
  <2>3. ASSUME next # 0 PROVE next \in T1 /\ pos1[next] = p /\ par1[next] = pid
    <3>1. next \in T /\ pos[next] = p + 1 /\ par[next] = pid
      BY <1>2, <1>10, <2>1, <2>3 DEF NextLink
    <3>2. next \in T1
      BY <1>3, <3>1
    <3>3. pos1[next] = Closer(p, p + 1) /\ par1[next] = pid
      BY <1>4, <3>1, <3>2
    <3> QED BY <1>3, <3>2, <3>3 DEF Closer
  <2> QED BY <2>2, <2>3
<1>12. end[pid] = p => end1[pid] = p - 1
  BY <1>2, <1>3, <1>4 DEF Closer
<1>13. CASE pre = pid
  <2>1. /\ S[pid].isdir /\ S[pid].sub = next
        /\ S[pid].next = R[pid].next /\ S[pid].islast = R[pid].islast
    BY <1>10, <1>13 DEF LinkedOut
  <2>2. pos1[pid] = p - 1
    <3>1. pos1[pid] = Closer(p, pos[pid]) /\ p = pos[pid] + 1 /\ pos[pid] \in Nat
      BY <1>1, <1>2, <1>4, <1>13
    <3> QED BY <3>1 DEF Closer
  <2>3. FirstLink(S, T1, pos1, end1, par1, pid)
    <3>1. CASE next = 0
      <4>1. end1[pid] = pos1[pid]
        BY <1>11, <1>12, <2>2, <3>1
      <4> QED BY <2>1, <3>1, <4>1 DEF FirstLink
    <3>2. CASE next # 0
      <4>1. next \in T1 /\ pos1[next] = pos1[pid] + 1 /\ par1[next] = pid
        BY <1>3, <1>11, <2>2, <3>2
      <4> QED BY <2>1, <3>2, <4>1 DEF FirstLink
    <3> QED BY <3>1, <3>2
  <2>4. NextLink(S, T1, pos1, end1, par1, pid)
    <3>1. NextSibling(S, pid) = NextSibling(R, pid)
      BY <2>1 DEF NextSibling
    <3> QED BY <1>2, <1>8, <1>13, <3>1
  <2>5. LoopsBack(S, par1, pid)
    <3>1. LoopsBack(R, par, pid) /\ par1[pid] = par[pid]
      BY <1>1, <1>2, <1>4
    <3> QED BY <2>1, <3>1 DEF LoopsBack
  <2>6. NodeLinked(S, T1, pos1, end1, par1, pid)
    BY <2>3, <2>4, <2>5 DEF NodeLinked
  <2> QED BY <1>9, <1>13, <2>6
<1>14. CASE pre # pid
  <2>1. /\ S[pre].isdir = R[pre].isdir /\ S[pre].sub = R[pre].sub
        /\ S[pre].next = R[rid].next /\ S[pre].islast = R[rid].islast
    BY <1>14 DEF LinkedOut
  <2>2. end1[pre] = p - 1 /\ par1[pre] = pid
    <3>1. /\ end1[pre] = Closer(p, end[pre]) /\ p = end[pre] + 1 /\ end[pre] \in Nat
          /\ par1[pre] = pid
      BY <1>1, <1>2, <1>4, <1>14
    <3> QED BY <3>1 DEF Closer
  <2>3. FirstLink(S, T1, pos1, end1, par1, pre)
    BY <1>2, <1>7, <1>14, <2>1
  <2>4. NextSibling(S, pre) = next
    BY <1>10, <2>1 DEF NextSibling
  <2>5. NextLink(S, T1, pos1, end1, par1, pre)
    <3>1. CASE next = 0
      <4>1. end1[pre] = end1[par1[pre]]
        BY <1>11, <1>12, <2>2, <3>1
      <4> QED BY <2>4, <3>1, <4>1 DEF NextLink
    <3>2. CASE next # 0
      <4>1. next \in T1 /\ pos1[next] = end1[pre] + 1 /\ par1[next] = par1[pre]
        BY <1>3, <1>11, <2>2, <3>2
      <4> QED BY <2>4, <3>2, <4>1 DEF NextLink
    <3> QED BY <3>1, <3>2
  <2>6. LoopsBack(S, par1, pre)
    <3>1. LoopsBack(R, par, rid) /\ par[rid] = pid /\ pid # 0
      BY <1>1, <1>2, <1>4
    <3> QED BY <2>1, <2>2, <3>1 DEF LoopsBack
  <2>7. NodeLinked(S, T1, pos1, end1, par1, pre)
    BY <2>3, <2>5, <2>6 DEF NodeLinked
  <2> QED BY <1>9, <2>7
<1> QED BY <1>13, <1>14

(* recycleRec puts rid behind rpre.                                          *)
RecycledIn(R, S, rid, rpre) ==
  /\ ~S[rid].isactive /\ \A r \in Ids \ {rid} : S[r].isactive = R[r].isactive
  /\ \A r \in Ids \ {rid, rpre} : ~R[r].isactive => S[r] = R[r]
  /\ S[rpre].next = rid /\ S[rid].next = R[rpre].next

LEMMA RemoveChanges ==
  ASSUME NEW R \in Registry, ~R[0].isactive, NEW pid \in Dirs(R), NEW pre \in Active(R),
         NEW rid \in Active(R), rid # pre, NEW rpre \in Ids, ~R[rpre].isactive,
         NEW S, S = RecycleRec(UnlinkRecord(R, pid, pre, rid), rpre, rid)
  PROVE  /\ S \in Registry /\ RecycledIn(R, S, rid, rpre)
         /\ LinkedOut(R, S, Active(R), pid, pre, rid)
         /\ \A r \in Ids \ {rpre, rid, pre} : S[r] = R[r]
         /\ \A r \in Ids \ {rid} : S[r].name = R[r].name
<1>1. /\ pid \in Ids /\ pre \in Ids /\ rid \in Ids /\ rpre \in Ids
      /\ R[pid].isactive /\ R[pre].isactive /\ R[pid].isdir /\ R[rid].isactive
      /\ rid # rpre /\ pre # rpre /\ pid # rpre
  BY DEF Dirs, Active
<1>2. PICK U : U = UnlinkRecord(R, pid, pre, rid)
  OBVIOUS
<1>3. U \in Registry /\ SameBut(R, U, {pre})
  BY <1>1, <1>2, UnlinkRecordLemma
<1>4. U[rid] = R[rid] /\ U[rpre] = R[rpre]
  BY <1>1, <1>3 DEF SameBut
<1>5. S = RecycleRec(U, rpre, rid)
  BY <1>2
<1>6. S \in Registry /\ SameBut(U, S, {rid, rpre})
  <2>1. RecycleRec(U, rpre, rid) \in Registry /\ SameBut(U, RecycleRec(U, rpre, rid), {rid, rpre})
    BY <1>1, <1>3, RecycleRecLemma
  <2> QED BY <1>5, <2>1
<1>7. /\ S[rid] = [R[rid] EXCEPT !.name = 0, !.isdir = TRUE, !.isactive = FALSE,
                                 !.next = R[rpre].next]
      /\ S[rpre] = [R[rpre] EXCEPT !.next = rid]
  BY <1>1, <1>3, <1>4, <1>5, ZenonT(60) DEF RecycleRec, Registry
<1>8. R[pre] \in RecordItem /\ R[pid] \in RecordItem /\ R[rid] \in RecordItem /\ R[rpre] \in RecordItem
  BY <1>1 DEF Registry
<1>9. /\ ~S[rid].isactive /\ S[rid].next = R[rpre].next
      /\ S[rpre].next = rid /\ S[rpre].isactive = R[rpre].isactive
      /\ S[rpre].name = R[rpre].name
  BY <1>7, <1>8 DEF RecordItem
<1>10. S[pre] = U[pre] /\ U[pre] = IF pre = pid THEN [R[pid] EXCEPT !.sub = NextSibling(R, rid)]
                                   ELSE [R[pre] EXCEPT !.next = R[rid].next,
                                                       !.islast = R[rid].islast]
  <2>1. S[pre] = U[pre]
    BY <1>1, <1>6 DEF SameBut
  <2> QED BY <1>1, <1>2, <2>1 DEF UnlinkRecord, Registry
<1>11. S[pre].isactive = R[pre].isactive /\ S[pre].name = R[pre].name
  BY <1>8, <1>10 DEF RecordItem
<1>12. \A r \in Ids \ {rpre, rid, pre} : S[r] = R[r]
  BY <1>3, <1>6 DEF SameBut
<1>13. RecycledIn(R, S, rid, rpre)
  BY <1>1, <1>9, <1>11, <1>12 DEF RecycledIn
<1>14. \A r \in Ids \ {rid} : S[r].name = R[r].name
  BY <1>9, <1>11, <1>12
<1>15. LinkedOut(R, S, Active(R), pid, pre, rid)
  <2>1. \A r \in Active(R) \ {pre, rid} : S[r] = R[r]
    BY <1>1, <1>12 DEF Active
  <2>2. CASE pre = pid
    <3>1. S[pid] = [R[pid] EXCEPT !.sub = NextSibling(R, rid)]
      BY <1>10, <2>2
    <3>2. /\ S[pid].isdir /\ S[pid].sub = NextSibling(R, rid)
          /\ S[pid].next = R[pid].next /\ S[pid].islast = R[pid].islast
      BY <1>1, <1>8, <3>1 DEF RecordItem
    <3> QED BY <2>1, <2>2, <3>2 DEF LinkedOut
  <2>3. CASE pre # pid
    <3>1. S[pre] = [R[pre] EXCEPT !.next = R[rid].next, !.islast = R[rid].islast]
      BY <1>10, <2>3
    <3>2. /\ S[pre].isdir = R[pre].isdir /\ S[pre].sub = R[pre].sub
          /\ S[pre].next = R[rid].next /\ S[pre].islast = R[rid].islast
      BY <1>8, <3>1 DEF RecordItem
    <3> QED BY <2>1, <2>3, <3>2 DEF LinkedOut
  <2> QED BY <2>2, <2>3
<1> QED BY <1>6, <1>12, <1>13, <1>14, <1>15

LEMMA RecycleList ==
  ASSUME NEW R, NEW S, NEW C, NEW M, NEW place, ListWhole(R, C, M, place),
         NEW rid \in Ids \ C, NEW rpre \in C, M + 1 <= MaxRec, rid # 0,
         \A r \in C \ {rpre} : S[r] = R[r],
         S[rpre].next = rid, S[rid].next = R[rpre].next
  PROVE  \E place1 : ListWhole(S, C \cup {rid}, M + 1, place1)
<1>1. /\ C \subseteq Ids /\ 0 \in C /\ M \in 0 .. MaxRec /\ M \in Nat /\ MaxRec \in Nat
      /\ place \in [C -> 1 .. M] /\ place[0] = 1
      /\ \A r, s \in C : place[r] = place[s] => r = s
      /\ \A r \in C : LeadsOn(R, C, M, place, r)
  BY MaxRecAssumption DEF ListWhole
<1>2. \A r \in C : place[r] \in Nat /\ place[r] >= 1 /\ place[r] <= M
  BY <1>1
<1>3. PICK q \in Nat : q = place[rpre] /\ q >= 1 /\ q <= M
  BY <1>2
<1> DEFINE C1 == C \cup {rid}
           place1 == [r \in C1 |-> IF r = rid THEN q + 1 ELSE Later(q, place[r])]
<1>4. /\ place1[rid] = q + 1 /\ \A r \in C : place1[r] = Later(q, place[r])
      /\ place1[rpre] = q
  <2>1. Later(q, q) = q
    BY <1>3 DEF Later
  <2> QED BY <1>3, <2>1
<1>5. \A r \in C1 : (IF r = rid THEN q + 1 ELSE Later(q, place[r])) \in 1 .. M + 1
  <2> TAKE r \in C1
  <2>1. CASE r = rid
    BY <1>1, <1>3, <2>1
  <2>2. CASE r # rid
    BY <1>1, <1>2, <1>3, <2>2 DEF Later
  <2> QED BY <2>1, <2>2
<1>6. place1 \in [C1 -> 1 .. M + 1]
  BY <1>5
<1> HIDE DEF place1
<1>7. place1[0] = 1
  BY <1>1, <1>3, <1>4 DEF Later
<1>8. \A r, s \in C1 : place1[r] = place1[s] => r = s
  <2>1. ASSUME NEW r \in C, NEW s \in C, place1[r] = place1[s] PROVE r = s
    BY <1>1, <1>2, <1>3, <1>4, <2>1 DEF Later
  <2>2. \A r \in C : place1[r] # q + 1
    BY <1>2, <1>3, <1>4 DEF Later
  <2> QED BY <1>4, <2>1, <2>2
<1>9. LeadsOn(S, C1, M + 1, place1, rid)
  <2>1. LeadsOn(R, C, M, place, rpre)
    BY <1>1
  <2>2. CASE R[rpre].next = 0
    BY <1>3, <1>4, <2>1, <2>2 DEF LeadsOn
  <2>3. CASE R[rpre].next # 0
    <3>1. PICK t : t = R[rpre].next
      OBVIOUS
    <3>2. t \in C /\ place[t] = q + 1
      BY <1>3, <2>1, <2>3, <3>1 DEF LeadsOn
    <3>3. place1[t] = Later(q, q + 1)
      BY <1>4, <3>2
    <3>4. place1[t] = place1[rid] + 1
      BY <1>3, <1>4, <3>3 DEF Later
    <3> QED BY <2>3, <3>1, <3>2, <3>4 DEF LeadsOn
  <2> QED BY <2>2, <2>3
<1>10. LeadsOn(S, C1, M + 1, place1, rpre)
  BY <1>4 DEF LeadsOn
<1>11. ASSUME NEW r \in C, r # rpre PROVE LeadsOn(S, C1, M + 1, place1, r)
  <2>1. /\ S[r] = R[r] /\ LeadsOn(R, C, M, place, r) /\ place[r] \in Nat /\ place[r] # q
        /\ place1[r] = Later(q, place[r])
    BY <1>1, <1>2, <1>3, <1>4, <1>11
  <2>2. CASE R[r].next = 0
    <3>1. place[r] = M
      BY <2>1, <2>2 DEF LeadsOn
    <3>2. place1[r] = M + 1
      BY <1>1, <1>3, <2>1, <3>1 DEF Later
    <3> QED BY <2>1, <2>2, <3>2 DEF LeadsOn
  <2>3. CASE R[r].next # 0
    <3>1. PICK t : t = R[r].next
      OBVIOUS
    <3>2. t \in C /\ place[t] = place[r] + 1
      BY <2>1, <2>3, <3>1 DEF LeadsOn
    <3>3. place1[t] = Later(q, place[t])
      BY <1>4, <3>2
    <3>4. place1[t] = place1[r] + 1
      BY <1>3, <2>1, <3>2, <3>3 DEF Later
    <3> QED BY <2>1, <2>3, <3>1, <3>2, <3>4 DEF LeadsOn
  <2> QED BY <2>2, <2>3
<1>12. M + 1 \in 0 .. MaxRec /\ C1 \subseteq Ids /\ 0 \in C1
  BY <1>1
<1>13. ListWhole(S, C1, M + 1, place1)
  BY <1>6, <1>7, <1>8, <1>9, <1>10, <1>11, <1>12 DEF ListWhole
<1> QED BY <1>13

LEMMA RemoveWhole ==
  ASSUME NEW R, NEW size, Shared(R, size), NEW N, NEW pos, NEW end, NEW par, NEW M, NEW place,
         Numbered(R, size, N, pos, end, par, M, place),
         NEW pid, NEW pre, NEW rid, TakenFrom(Active(R), pos, end, par, pid, pre, rid),
         NEW rpre \in Spares(R, size),
         NEW S \in Registry, RecycledIn(R, S, rid, rpre),
         LinkedOut(R, S, Active(R), pid, pre, rid)
  PROVE  /\ Shared(S, size) /\ Active(S) = Active(R) \ {rid}
         /\ Spares(S, size) = Spares(R, size) \cup {rid}
         /\ \E pos1, end1, par1, place1 :
              /\ Numbered(S, size, N - 1, pos1, end1, par1, M + 1, place1)
              /\ par1 = ParentsOut(Active(R), rid, par)
<1>1. PICK T, C : T = Active(R) /\ C = Spares(R, size)
  OBVIOUS
<1>2. /\ TreeWhole(R, T, N, pos, end, par) /\ ListWhole(R, C, M, place) /\ N + M = size
      /\ TreeNumbered(T, N, pos, end, par)
  BY <1>1 DEF Numbered, TreeWhole
<1>3. /\ R \in Registry /\ size \in 2 .. MaxRec /\ T \subseteq 1 .. size - 1 /\ MaxRec \in Nat
      /\ N \in Nat /\ M \in Nat
  BY <1>1, <1>2, MaxRecAssumption DEF Shared, TreeNumbered, ListWhole
<1>4. /\ rid \in T /\ rid \in 1 .. size - 1 /\ rid \in Ids /\ rid # 0
      /\ R[rid].isactive /\ rid \notin C
  BY <1>1, <1>3 DEF TakenFrom, Active, Spares
<1>5. Active(S) = T \ {rid}
  BY <1>1, <1>4 DEF Active, RecycledIn
<1>6. Spares(S, size) = C \cup {rid}
  <2>1. \A r \in 0 .. size - 1 : r \in Ids
    BY <1>3 DEF Ids
  <2> QED BY <1>1, <1>3, <1>4, <2>1 DEF Spares, RecycledIn
<1>7. Shared(S, size)
  BY <1>3, <1>5 DEF Shared
<1>8. PICK p, T1, pos1, end1, par1 :
        /\ p = pos[rid] /\ T1 = T \ {rid}
        /\ pos1 = PlacesOut(T, rid, p, pos) /\ end1 = PlacesOut(T, rid, p, end)
        /\ par1 = ParentsOut(T, rid, par)
  OBVIOUS
<1>9. TakenFrom(T, pos, end, par, pid, pre, rid) /\ LinkedOut(R, S, T, pid, pre, rid)
  BY <1>1
<1>10. TreeNumbered(T1, N - 1, pos1, end1, par1)
  BY <1>2, <1>8, <1>9, RemoveNumbers
<1>11. \A r \in T1 : NodeLinked(S, T1, pos1, end1, par1, r)
  BY <1>2, <1>8, <1>9, RemoveLinks
<1>12. N >= 1
  <2>1. pos[ROOT] \in 0 .. N /\ pos[ROOT] = 1
    BY <1>2 DEF TreeNumbered
  <2> QED BY <1>3, <2>1
<1>13. PICK place1 : ListWhole(S, C \cup {rid}, M + 1, place1)
  <2>1. \A r \in C \ {rpre} : S[r] = R[r]
    <3>1. \A r \in C : r \in Ids /\ ~R[r].isactive
      BY <1>1, <1>2 DEF ListWhole, Spares
    <3> QED BY <1>4, <3>1 DEF RecycledIn
  <2>2. S[rpre].next = rid /\ S[rid].next = R[rpre].next /\ rpre \in C /\ rid \in Ids \ C
    BY <1>1, <1>4 DEF RecycledIn
  <2>3. M + 1 <= MaxRec
    BY <1>2, <1>3, <1>12
  <2> QED BY <1>2, <1>4, <2>1, <2>2, <2>3, RecycleList
<1>14. N - 1 + (M + 1) = size
  BY <1>2, <1>3
<1>15. Numbered(S, size, N - 1, pos1, end1, par1, M + 1, place1)
  BY <1>5, <1>6, <1>8, <1>10, <1>11, <1>13, <1>14 DEF Numbered, TreeWhole
<1> QED BY <1>1, <1>5, <1>6, <1>7, <1>8, <1>15

LEMMA RemoveTorn ==
  ASSUME NEW R, NEW size, Shared(R, size), NEW N, NEW pos, NEW end, NEW par, NEW M, NEW place,
         Numbered(R, size, N, pos, end, par, M, place),
         NEW pid, NEW pre, NEW rid, TakenFrom(Active(R), pos, end, par, pid, pre, rid),
         NEW rpre \in Spares(R, size), rpre < rid,
         NEW S \in Registry, RecycledIn(R, S, rid, rpre),
         LinkedOut(R, S, Active(R), pid, pre, rid),
         \A r \in Ids \ {rpre, rid, pre} : S[r] = R[r],
         NEW W, LowestOf(W, {rid, pre, rpre}), W # {}, W # {rid, pre, rpre}
  PROVE  Rejected(Mix(R, S, W), size) /\ size \notin W
<1>1. PICK T, C : T = Active(R) /\ C = Spares(R, size)
  OBVIOUS
<1>2. /\ TreeNumbered(T, N, pos, end, par) /\ N + M = size
      /\ \A r \in T : NodeLinked(R, T, pos, end, par, r)
      /\ ListWhole(R, C, M, place)
  BY <1>1 DEF Numbered, TreeWhole
<1>3. /\ R \in Registry /\ size \in 2 .. MaxRec /\ T \subseteq 1 .. size - 1 /\ MaxRec \in Nat
      /\ N \in Nat /\ M \in Nat /\ C \subseteq 0 .. size - 1 /\ C \subseteq Ids
  BY <1>1, <1>2, MaxRecAssumption DEF Shared, TreeNumbered, ListWhole, Spares
<1>4. /\ rid \in T /\ rid # 0 /\ pre \in T /\ rid # pre
      /\ \A r \in T : r \in Ids /\ R[r].isactive /\ r # rpre
      /\ \A r \in C : ~R[r].isactive /\ r # rid /\ r # pre
      /\ rpre \in C
  BY <1>1, <1>3 DEF TakenFrom, Active, Spares
<1>5. PICK pos1, end1, par1, place1 :
        /\ Numbered(S, size, N - 1, pos1, end1, par1, M + 1, place1)
        /\ Active(S) = T \ {rid} /\ Spares(S, size) = C \cup {rid}
  BY <1>1, RemoveWhole
<1>6. PICK T1, C1 : T1 = T \ {rid} /\ C1 = C \cup {rid}
  OBVIOUS
<1>7. /\ TreeNumbered(T1, N - 1, pos1, end1, par1)
      /\ \A r \in T1 : NodeLinked(S, T1, pos1, end1, par1, r)
      /\ ListWhole(S, C1, M + 1, place1)
  BY <1>5, <1>6 DEF Numbered, TreeWhole
<1>8. PICK D : D = Mix(R, S, W)
  OBVIOUS
<1>9. D \in Registry /\ \A r \in Ids : D[r] = IF r \in W THEN S[r] ELSE R[r]
  BY <1>3, <1>8, MixType
<1>10. /\ \A r \in T1 \ {pre} : S[r] = R[r]
       /\ \A r \in C \ {rpre} : S[r] = R[r]
  BY <1>3, <1>4, <1>6
<1>11. /\ W \subseteq {rid, pre, rpre} /\ size \notin W
       /\ rpre \notin W => W = {pre}
       /\ rpre \in W => rid \notin W \/ pre \notin W
  <2>1. W \subseteq {rid, pre, rpre} /\ \A c \in W, d \in {rid, pre, rpre} \ W : c < d
    BY DEF LowestOf
  <2>2. size \notin W
    BY <1>3, <1>4, <2>1
  <2>3. rpre \notin W => rid \notin W
    <3>1. rpre \in Nat /\ rid \in Nat
      BY <1>3, <1>4
    <3>2. rpre \notin W /\ rid \in W => rid < rpre
      BY <2>1
    <3> QED BY <3>1, <3>2
  <2> QED BY <2>1, <2>2, <2>3
<1>12. /\ \A r \in C1 : r \in Ids
       /\ \A r \in C \cup T : r < size
       /\ \A r \in C \cup T1 : r < size
       /\ \A r \in C1 \cup T : r < size
       /\ \A r \in C1 \cup T1 : r < size
       /\ D \in Registry /\ size \in 2 .. MaxRec
       /\ TreeNumbered(T, N, pos, end, par) /\ TreeNumbered(T1, N - 1, pos1, end1, par1)
  BY <1>2, <1>3, <1>4, <1>6, <1>7, <1>9
(* The tree as it was, of which rid may be gone.                            *)
<1>13. ASSUME pre \notin W
       PROVE  \A r \in T : r < size /\ D[r].isactive => NodeLinked(D, T, pos, end, par, r)
  <2> SUFFICES ASSUME NEW r \in T, D[r].isactive
               PROVE  NodeLinked(D, T, pos, end, par, r)
    OBVIOUS
  <2>1. ~S[rid].isactive
    BY DEF RecycledIn
  <2>2. D[r] = R[r]
    BY <1>4, <1>9, <1>11, <1>13, <2>1
  <2> QED BY <1>2, <2>2, NodeLinkedAlike
(* The tree as it will be.                                                  *)
<1>14. ASSUME pre \in W
       PROVE  \A r \in T1 : r < size /\ D[r].isactive => NodeLinked(D, T1, pos1, end1, par1, r)
  <2> SUFFICES ASSUME NEW r \in T1
               PROVE  NodeLinked(D, T1, pos1, end1, par1, r)
    OBVIOUS
  <2>1. D[r] = S[r]
    BY <1>4, <1>6, <1>9, <1>10, <1>14
  <2> QED BY <1>7, <2>1, NodeLinkedAlike
(* The recycle list as it will be, in which rid may still be in use.         *)
<1>15. ASSUME rpre \in W
       PROVE  ListNumbered(D, size, C1, M + 1, place1)
  <2>1. \A r \in C : D[r] = S[r]
    BY <1>3, <1>4, <1>9, <1>10, <1>15
  <2>2. D[rid].isactive \/ D[rid] = S[rid]
    BY <1>4, <1>9
  <2>3. \A r \in C1 : r = 0 \/ Spare(D, size, r) => D[r] = S[r]
    BY <1>4, <1>6, <2>1, <2>2 DEF Spare
  <2> QED BY <1>3, <1>7, <2>3 DEF ListWhole, ListNumbered, LeadsOn
<1>16. CASE rpre \notin W
  <2>1. W = {pre}
    BY <1>11, <1>16
  <2>2. ListNumbered(D, size, C, M, place)
    <3>1. \A r \in C : D[r] = R[r]
      BY <1>3, <1>4, <1>9, <2>1
    <3> QED BY <1>2, <1>3, <3>1 DEF ListWhole, ListNumbered, LeadsOn
  <2>3. \A r \in T1 : r < size /\ D[r].isactive => NodeLinked(D, T1, pos1, end1, par1, r)
    BY <1>14, <2>1
  <2>4. N - 1 + M # size
    BY <1>2, <1>3
  <2>5. Rejected(D, size)
    BY <1>12, <2>2, <2>3, <2>4, RejectedBy
  <2> QED BY <1>8, <1>11, <2>5
<1>17. CASE rpre \in W /\ rid \notin W
  <2>1. ListNumbered(D, size, C1, M + 1, place1)
    BY <1>15, <1>17
  <2>2. rid \in C1 /\ rid # 0 /\ ~Spare(D, size, rid)
    BY <1>4, <1>6, <1>9, <1>17 DEF Spare
  <2>3. CASE pre \in W
    <3>1. \A r \in T1 : r < size /\ D[r].isactive => NodeLinked(D, T1, pos1, end1, par1, r)
      BY <1>14, <2>3
    <3>2. Rejected(D, size)
      BY <1>12, <2>1, <2>2, <3>1, RejectedBy
    <3> QED BY <1>8, <1>11, <3>2
  <2>4. CASE pre \notin W
    <3>1. \A r \in T : r < size /\ D[r].isactive => NodeLinked(D, T, pos, end, par, r)
      BY <1>13, <2>4
    <3>2. Rejected(D, size)
      BY <1>12, <2>1, <2>2, <3>1, RejectedBy
    <3> QED BY <1>8, <1>11, <3>2
  <2> QED BY <2>3, <2>4
<1>18. CASE rpre \in W /\ rid \in W /\ pre \notin W
  <2>1. ListNumbered(D, size, C1, M + 1, place1)
    BY <1>15, <1>18
  <2>2. \A r \in T : r < size /\ D[r].isactive => NodeLinked(D, T, pos, end, par, r)
    BY <1>13, <1>18
  <2>3. rid \in T /\ ~(rid < size /\ D[rid].isactive)
    BY <1>4, <1>9, <1>18 DEF RecycledIn
  <2>4. Rejected(D, size)
    BY <1>12, <2>1, <2>2, <2>3, RejectedBy
  <2> QED BY <1>8, <1>11, <2>4
<1> QED BY <1>11, <1>16, <1>17, <1>18

-----------------------------------------------------------------------------
(***************************************************************************)
(* The entries of a directory in a registry that can be numbered, as         *)
(* findRecord, verifydir, delDir and delFile walk them.                     *)
(***************************************************************************)
EntryOf(T, par, pid, r) == r \in T /\ par[r] = pid /\ r # ROOT

Entries(R, T, par, pid, f) ==
  /\ f[0] = R[pid].sub
  /\ \A k \in 0 .. MaxRec : f[k] = 0 \/ EntryOf(T, par, pid, f[k])
  /\ \A k \in 1 .. MaxRec : f[k] = IF f[k - 1] = 0 THEN 0 ELSE NextSibling(R, f[k - 1])
  /\ \E k \in 0 .. MaxRec : f[k] = 0

LEMMA ChainEntries ==
  ASSUME NEW R, NEW T, NEW N, NEW pos, NEW end, NEW par,
         TreeWhole(R, T, N, pos, end, par), N < MaxRec, NEW pid \in T, R[pid].isdir
  PROVE  Entries(R, T, par, pid, Chain(R, pid))
<1> DEFINE K == {r \in T : par[r] = pid}
           V == K \cup {0}
           next == [r \in Ids |-> IF r = 0 THEN 0 ELSE NextSibling(R, r)]
           x == R[pid].sub
           f == Iterate(MaxRec, x, next)
<1>1. /\ MaxRec \in Nat /\ N \in Nat /\ T \subseteq Ids \ {0} /\ 0 \in Ids
      /\ pid # 0 /\ par[ROOT] = 0
      /\ \A q \in T : pos[q] \in Nat /\ pos[q] <= N /\ end[q] \in Nat /\ pos[q] <= end[q]
      /\ \A r \in T : FirstLink(R, T, pos, end, par, r) /\ NextLink(R, T, pos, end, par, r)
  BY MaxRecAssumption DEF TreeWhole, TreeNumbered, NodeLinked, Ids
<1>2. x \in V /\ (x # 0 => pos[x] >= 1)
  <2>1. FirstLink(R, T, pos, end, par, pid)
    BY <1>1
  <2>2. R[pid].sub # 0 => /\ R[pid].sub \in T /\ par[R[pid].sub] = pid
                          /\ pos[R[pid].sub] = pos[pid] + 1
    BY <2>1 DEF FirstLink
  <2>3. R[pid].sub # 0 => pos[R[pid].sub] >= 1
    BY <1>1, <2>2
  <2> QED BY <2>2, <2>3
<1>3. \A v \in V : next[v] = IF v = 0 THEN 0 ELSE NextSibling(R, v)
  BY <1>1
<1>4. \A v \in K : /\ NextSibling(R, v) \in V
                   /\ NextSibling(R, v) # 0 => pos[NextSibling(R, v)] >= pos[v] + 1
  <2> TAKE v \in K
  <2>1. NextLink(R, T, pos, end, par, v) /\ v \in T /\ par[v] = pid
    BY <1>1
  <2>2. NextSibling(R, v) # 0 =>
          /\ NextSibling(R, v) \in T /\ pos[NextSibling(R, v)] = end[v] + 1
          /\ par[NextSibling(R, v)] = pid
    BY <2>1 DEF NextLink
  <2>3. pos[v] \in Nat /\ end[v] \in Nat /\ pos[v] <= end[v]
    BY <1>1, <2>1
  <2>4. NextSibling(R, v) # 0 => pos[NextSibling(R, v)] >= pos[v] + 1
    BY <2>2, <2>3
  <2> QED BY <2>2, <2>4
<1>5. \A v \in V : next[v] \in V
  <2> HIDE DEF next, K
  <2> QED BY <1>3, <1>4
<1>6. Iterates(f, MaxRec, V, x, next)
  <2> HIDE DEF V, K, next, x
  <2> QED BY <1>1, <1>2, <1>5, Iterated
<1>7. Chain(R, pid) = f
  BY DEF Chain, From, Iterate, Iteration
<1> HIDE DEF f, next, x
<1>8. /\ f \in [0 .. MaxRec -> V] /\ f[0] = x
      /\ \A k \in 1 .. MaxRec : f[k] = next[f[k - 1]]
  BY <1>6 DEF Iterates
<1>9. \A k \in 1 .. MaxRec : f[k] = IF f[k - 1] = 0 THEN 0 ELSE NextSibling(R, f[k - 1])
  <2> TAKE k \in 1 .. MaxRec
  <2>1. f[k - 1] \in V
    BY <1>1, <1>8
  <2> QED BY <1>3, <1>8, <2>1
<1>10. \A k \in 0 .. MaxRec : f[k] = 0 \/ EntryOf(T, par, pid, f[k])
  BY <1>1, <1>8 DEF EntryOf
<1>11. f[MaxRec] = 0
  <2> DEFINE U == {k \in 0 .. MaxRec : f[k] = 0 \/ pos[f[k]] >= k + 1}
  <2>1. 0 \in U
    BY <1>1, <1>2, <1>8
  <2>2. \A k \in 1 .. MaxRec : k - 1 \in U => k \in U
    <3> TAKE k \in 1 .. MaxRec
    <3> HAVE k - 1 \in U
    <3>1. CASE f[k - 1] = 0
      BY <1>9, <3>1
    <3>2. CASE f[k - 1] # 0
      <4>1. k - 1 \in 0 .. MaxRec /\ k \in Nat
        BY <1>1
      <4>2. PICK v \in K : v = f[k - 1] /\ pos[v] >= k - 1 + 1 /\ f[k] = NextSibling(R, v)
        BY <1>8, <1>9, <3>2, <4>1
      <4>3. pos[v] \in Nat /\ (f[k] # 0 => pos[f[k]] >= pos[v] + 1 /\ pos[f[k]] \in Nat)
        BY <1>1, <1>4, <4>2
      <4> QED BY <4>1, <4>2, <4>3
    <3> QED BY <3>1, <3>2
  <2> HIDE DEF U
  <2>3. MaxRec \in U
    BY <1>1, <2>1, <2>2, Induct
  <2>4. f[MaxRec] # 0 => pos[f[MaxRec]] >= MaxRec + 1 /\ pos[f[MaxRec]] <= N /\ pos[f[MaxRec]] \in Nat
    BY <1>1, <1>8, <2>3 DEF U
  <2> QED BY <1>1, <2>4
<1>12. f[0] = R[pid].sub
  BY <1>8 DEF x
<1> QED BY <1>1, <1>7, <1>9, <1>10, <1>11, <1>12 DEF Entries

(* findRecord stops between the names before n and those after it.           *)
Between(R, T, par, names, pid, n, pre) ==
  \/ pre = pid /\ (R[pid].sub = 0 \/ n < names[R[pid].sub])
  \/ /\ EntryOf(T, par, pid, pre) /\ pre # pid /\ names[pre] < n
     /\ NextSibling(R, pre) = 0 \/ n < names[NextSibling(R, pre)]

LEMMA FindRecordBetween ==
  ASSUME NEW R, NEW T \in SUBSET Ids, NEW par, NEW pid, par[pid] # pid,
         Entries(R, T, par, pid, Chain(R, pid)),
         NEW names \in [Ids -> Nat], NEW n \in Nat, NEW pre,
         FindRecord(R, names, pid, n).type # "FR_MATCH", FindRecord(R, names, pid, n).id = pre
  PROVE  Between(R, T, par, names, pid, n, pre)
<1> DEFINE nth == Chain(R, pid)
           Halts(i) == /\ nth[i] = 0 \/ n <= names[nth[i]]
                      /\ \A j \in 0 .. i - 1 : nth[j] # 0 /\ n > names[nth[j]]
           stop == CHOOSE i \in 0 .. MaxRec : Halts(i)
           f == FindRecord(R, names, pid, n)
           stops == {i \in 0 .. MaxRec : nth[i] = 0 \/ n <= names[nth[i]]}
<1>1. MaxRec \in Nat
  BY MaxRecAssumption
<1>2. /\ nth[0] = R[pid].sub
      /\ \A k \in 0 .. MaxRec : nth[k] = 0 \/ EntryOf(T, par, pid, nth[k])
      /\ \A k \in 1 .. MaxRec : nth[k] = IF nth[k - 1] = 0 THEN 0 ELSE NextSibling(R, nth[k - 1])
      /\ \E k \in 0 .. MaxRec : nth[k] = 0
  BY DEF Entries
<1>3. f = IF nth[stop] # 0 /\ names[nth[stop]] = n
          THEN [id |-> nth[stop], type |-> "FR_MATCH"]
          ELSE IF stop = 0 THEN [id |-> pid, type |-> "FR_PARENT"]
                           ELSE [id |-> nth[stop - 1], type |-> "FR_PRE"]
  BY DEF FindRecord
<1>4. f.type # "FR_MATCH" /\ f.id = pre
  OBVIOUS
<1>5. \A k \in 0 .. MaxRec : nth[k] # 0 => names[nth[k]] \in Nat
  BY <1>2 DEF EntryOf
<1> HIDE DEF nth, f
<1>6. \E i \in 0 .. MaxRec : Halts(i)
  <2>1. stops # {} /\ stops \in SUBSET Nat
    BY <1>1, <1>2
  <2>2. PICK i \in stops : \A j \in stops : i <= j
    <3> HIDE DEF stops
    <3> QED BY <2>1, Least
  <2>3. \A j \in 0 .. i - 1 : j \in 0 .. MaxRec /\ j \notin stops
    BY <1>1, <2>2
  <2>4. \A j \in 0 .. i - 1 : nth[j] # 0 /\ n > names[nth[j]]
    <3> TAKE j \in 0 .. i - 1
    <3>1. nth[j] # 0 /\ ~(n <= names[nth[j]])
      BY <2>3
    <3>2. names[nth[j]] \in Nat
      BY <1>5, <2>3, <3>1
    <3> QED BY <3>1, <3>2
  <2> QED BY <2>2, <2>4
<1>7. stop \in 0 .. MaxRec /\ Halts(stop)
  <2> HIDE DEF Halts
  <2> QED BY <1>6
<1> HIDE DEF stop
<1>8. nth[stop] = 0 \/ n < names[nth[stop]]
  <2>1. ~(nth[stop] # 0 /\ names[nth[stop]] = n)
    BY <1>3, <1>4
  <2>2. nth[stop] # 0 => names[nth[stop]] \in Nat
    BY <1>5, <1>7
  <2> QED BY <1>7, <2>1, <2>2
<1>9. CASE stop = 0
  <2>1. pre = pid
    BY <1>3, <1>4, <1>9
  <2> QED BY <1>2, <1>8, <1>9, <2>1 DEF Between
<1>10. CASE stop # 0
  <2>1. pre = nth[stop - 1]
    BY <1>3, <1>4, <1>10
  <2>2. stop - 1 \in 0 .. stop - 1 /\ stop - 1 \in 0 .. MaxRec /\ stop \in 1 .. MaxRec
    BY <1>1, <1>7, <1>10
  <2>3. pre # 0 /\ n > names[pre]
    BY <1>7, <2>1, <2>2
  <2>4. EntryOf(T, par, pid, pre) /\ nth[stop] = NextSibling(R, pre)
    BY <1>2, <2>1, <2>2, <2>3
  <2>5. names[pre] \in Nat /\ pre # pid
    BY <2>4 DEF EntryOf
  <2> QED BY <1>8, <2>3, <2>4, <2>5 DEF Between
<1> QED BY <1>9, <1>10

(* The search of delDir and delFile ends at the one link that leads to rid.   *)
LEMMA LinkFound ==
  ASSUME NEW R, NEW T, NEW N, NEW pos, NEW end, NEW par,
         TreeWhole(R, T, N, pos, end, par), N < MaxRec, NEW pid \in T, R[pid].isdir,
         NEW rid \in T \ {ROOT}, R[rid].isdir => R[rid].sub = 0,
         NEW pre, IsLinkTo(R, rid, pid, pre)
  PROVE  TakenFrom(T, pos, end, par, pid, pre, rid)
<1>1. /\ N \in Nat /\ T \subseteq Ids \ {0}
      /\ \A q \in T \cup {0} : pos[q] \in Nat /\ end[q] \in Nat
      /\ \A r \in T : pos[par[r]] < pos[r] /\ pos[r] <= end[r] /\ par[r] \in T \cup {0}
      /\ \A r \in T : FirstLink(R, T, pos, end, par, r) /\ NextLink(R, T, pos, end, par, r)
  BY MaxRecAssumption DEF TreeWhole, TreeNumbered, NodeLinked
<1>2. end[rid] = pos[rid] /\ rid # 0
  <2>1. FirstLink(R, T, pos, end, par, rid)
    BY <1>1
  <2> QED BY <1>1, <2>1 DEF FirstLink
<1>3. CASE pre = pid /\ R[pid].sub = rid
  <2>1. FirstLink(R, T, pos, end, par, pid)
    BY <1>1
  <2>2. pos[rid] = pos[pid] + 1 /\ par[rid] = pid
    BY <1>2, <1>3, <2>1 DEF FirstLink
  <2>3. rid # pid
    BY <1>1, <2>2
  <2> QED BY <1>2, <1>3, <2>2, <2>3 DEF TakenFrom
<1>4. CASE pre # pid /\ pre \in Children(R, pid) /\ NextSibling(R, pre) = rid
  <2>1. Entries(R, T, par, pid, Chain(R, pid))
    BY ChainEntries
  <2>2. EntryOf(T, par, pid, pre)
    <3>1. PICK k \in 0 .. MaxRec : Chain(R, pid)[k] = pre /\ pre # 0
      BY <1>4 DEF Children
    <3> QED BY <2>1, <3>1 DEF Entries
  <2>3. NextLink(R, T, pos, end, par, pre) /\ pre \in T /\ par[pre] = pid
    BY <1>1, <2>2 DEF EntryOf
  <2>4. pos[rid] = end[pre] + 1 /\ par[rid] = pid
    BY <1>2, <1>4, <2>3 DEF NextLink
  <2>5. rid # pid /\ rid # pre
    <3>1. pos[pid] < pos[rid] /\ pos[pid] \in Nat /\ pos[pre] \in Nat /\ end[pre] \in Nat
          /\ pos[pre] <= end[pre] /\ pos[rid] \in Nat
      BY <1>1, <2>3, <2>4
    <3> QED BY <2>4, <3>1
  <2> QED BY <1>2, <1>4, <2>3, <2>4, <2>5 DEF TakenFrom
<1> QED BY <1>3, <1>4 DEF IsLinkTo

-----------------------------------------------------------------------------
(***************************************************************************)
(* The order of names.  It is claimed only where every entry has a name:     *)
(* what is nameless stays so until it is removed.                           *)
(***************************************************************************)
Ordered(R, names) ==
  \A r \in Active(R) \ {ROOT} :
    NextSibling(R, r) # 0 => NameAt(names, R[r].name) < NameAt(names, R[NextSibling(R, r)].name)

NamesIn(R, names) == \A r \in Active(R) : R[r].name < Len(names)

Regular(R, size, names) ==
  /\ Whole(R, size) /\ NextSibling(R, ROOT) = 0
  /\ NamesIn(R, names) /\ (Named(R, names) => Ordered(R, names))

LEMMA NextIn ==
  ASSUME NEW R, NEW T, NEW N, NEW pos, NEW end, NEW par,
         TreeWhole(R, T, N, pos, end, par), NEW r \in T \ {ROOT}, NextSibling(R, r) # 0
  PROVE  /\ NextSibling(R, r) \in T \ {ROOT, r}
         /\ par[NextSibling(R, r)] = par[r] /\ pos[NextSibling(R, r)] = end[r] + 1
<1>1. NextLink(R, T, pos, end, par, r)
  BY DEF TreeWhole, NodeLinked
<1>2. PICK s : s = NextSibling(R, r)
  OBVIOUS
<1>3. s \in T /\ pos[s] = end[r] + 1 /\ par[s] = par[r]
  BY <1>1, <1>2 DEF NextLink
<1>4. /\ pos[r] \in Nat /\ end[r] \in Nat /\ pos[r] <= end[r] /\ pos[r] # 0 /\ pos[ROOT] = 1
  <2>1. N \in Nat /\ 0 \notin T /\ pos[0] = 0 /\ r # 0 /\ pos[r] \in 0 .. N /\ end[r] \in 0 .. N
    BY MaxRecAssumption DEF TreeWhole, TreeNumbered
  <2>2. pos[r] # pos[0] /\ pos[r] <= end[r] /\ pos[ROOT] = 1
    BY <2>1 DEF TreeWhole, TreeNumbered
  <2> QED BY <2>1, <2>2
<1>5. s # r /\ s # ROOT
  BY <1>3, <1>4
<1> QED BY <1>2, <1>3, <1>5

LEMMA NameAtFacts ==
  ASSUME NEW names \in Seq(Names \cup {0}), NEW o \in Nat
  PROVE  /\ NameAt(names, o) \in Nat
         /\ \A n \in Names :
              /\ o < Len(names) => NameAt(Append(names, n), o) = NameAt(names, o)
              /\ NameAt(Append(names, n), Len(names)) = n
              /\ Len(Append(names, n)) = Len(names) + 1
         /\ \A a \in Nat :
              /\ NameAt([names EXCEPT ![a + 1] = 0], o) = IF o = a THEN 0 ELSE NameAt(names, o)
              /\ Len([names EXCEPT ![a + 1] = 0]) = Len(names)
<1>1. Len(names) \in Nat /\ DOMAIN names = 1 .. Len(names)
  BY LenProperties
<1>2. NameAt(names, o) \in Nat
  <2>1. o < Len(names) => o + 1 \in 1 .. Len(names)
    BY <1>1
  <2>2. o < Len(names) => names[o + 1] \in Names \cup {0}
    BY <2>1, ElementOfSeq
  <2>3. o < Len(names) => names[o + 1] \in Nat
    <3>1. \A x \in Names \cup {0} : x \in Nat
      BY NamesAssumption
    <3> QED BY <2>2, <3>1
  <2>4. 0 \in Nat
    OBVIOUS
  <2> QED BY <2>3, <2>4 DEF NameAt
<1>3. ASSUME NEW n \in Names
      PROVE  /\ o < Len(names) => NameAt(Append(names, n), o) = NameAt(names, o)
             /\ NameAt(Append(names, n), Len(names)) = n
             /\ Len(Append(names, n)) = Len(names) + 1
  <2>1. /\ Len(Append(names, n)) = Len(names) + 1
        /\ \A i \in 1 .. Len(names) : Append(names, n)[i] = names[i]
        /\ Append(names, n)[Len(names) + 1] = n
    BY AppendProperties
  <2>2. o < Len(names) => o + 1 \in 1 .. Len(names)
    BY <1>1
  <2> QED BY <1>1, <2>1, <2>2 DEF NameAt
<1>4. ASSUME NEW a \in Nat
      PROVE  /\ NameAt([names EXCEPT ![a + 1] = 0], o) = IF o = a THEN 0 ELSE NameAt(names, o)
             /\ Len([names EXCEPT ![a + 1] = 0]) = Len(names)
  <2>1. CASE a + 1 \in 1 .. Len(names)
    <3>1. /\ Len([names EXCEPT ![a + 1] = 0]) = Len(names)
          /\ \A i \in 1 .. Len(names) : [names EXCEPT ![a + 1] = 0][i] = IF i = a + 1 THEN 0 ELSE names[i]
      BY <1>1, <2>1, ExceptSeq
    <3>2. o < Len(names) => o + 1 \in 1 .. Len(names)
      BY <1>1
    <3>3. o = a => o < Len(names)
      BY <1>1, <2>1
    <3> QED BY <1>1, <3>1, <3>2, <3>3 DEF NameAt
  <2>2. CASE a + 1 \notin 1 .. Len(names)
    <3>1. [names EXCEPT ![a + 1] = 0] = names
      BY <1>1, <2>2
    <3>2. ~(a < Len(names))
      BY <1>1, <2>2
    <3> QED BY <3>1, <3>2 DEF NameAt
  <2> QED BY <2>1, <2>2
<1> QED BY <1>2, <1>3, <1>4

NameTable(R, names) == [r \in Ids |-> NameAt(names, R[r].name)]

LEMMA InsertOrdered ==
  ASSUME NEW R \in Registry, NEW S, NEW T, T = Active(R),
         NEW N, NEW pos, NEW end, NEW par, TreeWhole(R, T, N, pos, end, par),
         NEW names \in Seq(Names \cup {0}), NamesIn(R, names),
         Named(R, names) => Ordered(R, names),
         NEW pid \in T, NEW n \in Names, NEW pre,
         Between(R, T, par, NameTable(R, names), pid, n, pre),
         NEW rid, Active(S) = T \cup {rid}, rid \notin T, rid # ROOT, LinkedIn(R, S, T, pid, pre, rid),
         \A r \in T : S[r].name = R[r].name, S[rid].name = Len(names)
  PROVE  /\ NamesIn(S, Append(names, n))
         /\ Named(S, Append(names, n)) => Ordered(S, Append(names, n))
<1>1. PICK names1 : names1 = Append(names, n)
  OBVIOUS
<1>2. T \subseteq Ids \ {0} /\ \A r \in T : R[r].name \in Nat /\ R[r].name < Len(names)
  BY DEF TreeWhole, TreeNumbered, NamesIn, Registry, RecordItem
<1>3. Len(names) \in Nat /\ Len(names1) = Len(names) + 1 /\ NameAt(names1, S[rid].name) = n
  BY <1>1, LenProperties, AppendProperties, NameAtFacts
<1>4. \A r \in T : NameAt(names1, S[r].name) = NameAt(names, R[r].name)
  <2> TAKE r \in T
  <2>1. PICK o \in Nat : o = R[r].name /\ o < Len(names) /\ S[r].name = o
    BY <1>2
  <2>2. NameAt(Append(names, n), o) = NameAt(names, o)
    BY <2>1, NameAtFacts, ZenonT(60)
  <2> QED BY <1>1, <2>1, <2>2
<1>5. NamesIn(S, names1)
  BY <1>2, <1>3 DEF NamesIn
<1>6. ASSUME Named(S, names1) PROVE Ordered(S, names1)
  <2>1. Named(R, names)
    BY <1>4, <1>6 DEF Named
  <2>2. ASSUME NEW r \in T \ {ROOT}, NextSibling(S, r) = NextSibling(R, r), NextSibling(R, r) # 0
        PROVE  NameAt(names1, S[r].name) < NameAt(names1, S[NextSibling(S, r)].name)
    <3>1. NameAt(names, R[r].name) < NameAt(names, R[NextSibling(R, r)].name)
      BY <2>1, <2>2 DEF Ordered
    <3>2. NextSibling(R, r) \in T
      BY <2>2, NextIn
    <3> QED BY <1>4, <2>2, <3>1, <3>2
  <2>3. \A r \in T : NameTable(R, names)[r] = NameAt(names, R[r].name)
    BY <1>2 DEF NameTable
  <2>4. \A r \in T \ {pre} : NextSibling(S, r) = NextSibling(R, r)
    BY DEF LinkedIn, NextSibling
  <2>5. CASE pre = pid
    <3>1. NextSibling(S, pid) = NextSibling(R, pid)
      BY <2>5 DEF LinkedIn, NextSibling
    <3>2. \A r \in T : NextSibling(S, r) = NextSibling(R, r)
      BY <2>4, <2>5, <3>1
    <3>3. /\ S[rid].next = IF R[pid].sub = 0 THEN pid ELSE R[pid].sub
          /\ S[rid].islast <=> R[pid].sub = 0
          /\ R[pid].isdir
      BY <2>5 DEF LinkedIn
    <3>4. ASSUME NextSibling(S, rid) # 0
          PROVE  NameAt(names1, S[rid].name) < NameAt(names1, S[NextSibling(S, rid)].name)
      <4>1. R[pid].sub # 0 /\ NextSibling(S, rid) = R[pid].sub
        BY <3>3, <3>4 DEF NextSibling
      <4>2. R[pid].sub \in T
        <5>1. FirstLink(R, T, pos, end, par, pid)
          BY DEF TreeWhole, NodeLinked
        <5> QED BY <3>3, <4>1, <5>1 DEF FirstLink
      <4>3. ~(EntryOf(T, par, pid, pre) /\ pre # pid)
        BY <2>5
      <4>4. n < NameTable(R, names)[R[pid].sub]
        BY <4>1, <4>3 DEF Between
      <4> QED BY <1>3, <1>4, <2>3, <4>1, <4>2, <4>4
    <3> QED BY <2>2, <3>2, <3>4 DEF Ordered
  <2>6. CASE pre # pid
    <3>1. /\ pre \in T /\ pre # ROOT
          /\ NameTable(R, names)[pre] < n
          /\ NextSibling(R, pre) = 0 \/
             n < NameTable(R, names)[NextSibling(R, pre)]
      BY <2>6 DEF Between, EntryOf
    <3>2. NextSibling(S, pre) = rid /\ NextSibling(S, rid) = NextSibling(R, pre)
      BY <2>6 DEF LinkedIn, NextSibling
    <3>3. NameAt(names1, S[pre].name) < NameAt(names1, S[rid].name)
      BY <1>3, <1>4, <2>3, <3>1
    <3>4. ASSUME NextSibling(S, rid) # 0
          PROVE  NameAt(names1, S[rid].name) < NameAt(names1, S[NextSibling(S, rid)].name)
      <4>1. NextSibling(R, pre) \in T
        BY <3>1, <3>2, <3>4, NextIn
      <4> QED BY <1>3, <1>4, <2>3, <3>1, <3>2, <3>4, <4>1
    <3> QED BY <2>2, <2>4, <3>2, <3>3, <3>4 DEF Ordered
  <2> QED BY <2>5, <2>6
<1> QED BY <1>1, <1>5, <1>6

LEMMA RemoveOrdered ==
  ASSUME NEW R \in Registry, NEW S, NEW T, T = Active(R), NEW names \in Seq(Names \cup {0}),
         NamesIn(R, names), Named(R, names) => Ordered(R, names),
         NEW pid, NEW pre \in T, NEW rid \in T \ {pre}, NameAt(names, R[rid].name) # 0,
         rid # ROOT, rid # 0,
         pre # pid => pre # ROOT /\ NextSibling(R, pre) = rid,
         LinkedOut(R, S, T, pid, pre, rid),
         NEW N, NEW pos, NEW end, NEW par, TreeWhole(S, T \ {rid}, N, pos, end, par),
         Active(S) = T \ {rid}, \A r \in T \ {rid} : S[r].name = R[r].name,
         NEW names1, names1 = [names EXCEPT ![R[rid].name + 1] = 0]
  PROVE  NamesIn(S, names1) /\ (Named(S, names1) => Ordered(S, names1))
<1>1. /\ \A r \in T : r \in Ids /\ R[r].name \in Nat /\ R[r].name < Len(names)
      /\ rid \in T
  BY DEF Active, NamesIn, Registry, RecordItem
<1>2. /\ Len(names1) = Len(names)
      /\ \A r \in T : /\ NameAt(names1, R[r].name) =
                           IF R[r].name = R[rid].name THEN 0 ELSE NameAt(names, R[r].name)
                      /\ NameAt(names, R[r].name) \in Nat
  <2>1. PICK a \in Nat : a = R[rid].name
    BY <1>1
  <2>2. names1 = [names EXCEPT ![a + 1] = 0]
    BY <2>1
  <2>3. Len(names1) = Len(names)
    BY <2>2, NameAtFacts
  <2>4. ASSUME NEW r \in T
        PROVE  /\ NameAt(names1, R[r].name) = IF R[r].name = a THEN 0 ELSE NameAt(names, R[r].name)
               /\ NameAt(names, R[r].name) \in Nat
    <3>1. PICK o \in Nat : o = R[r].name
      BY <1>1
    <3>2. NameAt(names1, o) = IF o = a THEN 0 ELSE NameAt(names, o)
      <4>1. NameAt([names EXCEPT ![a + 1] = 0], o) = IF o = a THEN 0 ELSE NameAt(names, o)
        BY NameAtFacts, ZenonT(60)
      <4> QED BY <2>2, <4>1
    <3>3. NameAt(names, o) \in Nat
      BY NameAtFacts
    <3> QED BY <3>1, <3>2, <3>3
  <2> QED BY <2>1, <2>3, <2>4
<1>3. NamesIn(S, names1)
  BY <1>1, <1>2 DEF NamesIn
<1>4. ASSUME Named(S, names1) PROVE Ordered(S, names1)
  <2>1. \A r \in T \ {rid, ROOT} : /\ NameAt(names1, S[r].name) = NameAt(names, R[r].name)
                                   /\ NameAt(names, R[r].name) # 0
    BY <1>2, <1>4 DEF Named
  <2>2. Ordered(R, names)
    <3>1. Named(R, names)
      BY <2>1 DEF Named
    <3> QED BY <3>1
  <2>3. \A r \in T \ {rid, ROOT} : NextSibling(S, r) # 0 => NextSibling(S, r) \in T \ {rid, ROOT}
    <3> TAKE r \in T \ {rid, ROOT}
    <3>1. r \in (T \ {rid}) \ {ROOT}
      OBVIOUS
    <3> QED BY <3>1, NextIn
  <2>4. ASSUME NEW r \in T \ {rid, ROOT}, NextSibling(S, r) = NextSibling(R, r),
               NextSibling(S, r) # 0
        PROVE  NameAt(names1, S[r].name) < NameAt(names1, S[NextSibling(S, r)].name)
    <3>1. NameAt(names, R[r].name) < NameAt(names, R[NextSibling(R, r)].name)
      BY <2>2, <2>4 DEF Ordered
    <3> QED BY <2>1, <2>3, <2>4, <3>1
  <2>5. \A r \in T \ {pre, rid} : NextSibling(S, r) = NextSibling(R, r)
    BY DEF LinkedOut, NextSibling
  <2>6. CASE pre = pid
    <3>1. NextSibling(S, pid) = NextSibling(R, pid)
      BY <2>6 DEF LinkedOut, NextSibling
    <3>2. \A r \in T \ {rid} : NextSibling(S, r) = NextSibling(R, r)
      BY <2>5, <2>6, <3>1
    <3> QED BY <2>4, <3>2 DEF Ordered
  <2>7. CASE pre # pid
    <3>1. pre # ROOT /\ NextSibling(R, pre) = rid /\ rid # 0
      BY <2>7
    <3>2. NextSibling(S, pre) = NextSibling(R, rid)
      BY <2>7 DEF LinkedOut, NextSibling
    <3>3. ASSUME NextSibling(S, pre) # 0
          PROVE  NameAt(names1, S[pre].name) < NameAt(names1, S[NextSibling(S, pre)].name)
      <4>1. PICK t \in T \ {rid, ROOT} : t = NextSibling(S, pre)
        BY <2>3, <3>1, <3>3
      <4>2. NameAt(names, R[pre].name) < NameAt(names, R[rid].name)
        BY <2>2, <3>1 DEF Ordered
      <4>3. NameAt(names, R[rid].name) < NameAt(names, R[t].name)
        BY <2>2, <3>2, <3>3, <4>1 DEF Ordered
      <4>4. NameAt(names, R[pre].name) < NameAt(names, R[t].name)
        BY <1>1, <1>2, <4>2, <4>3
      <4> QED BY <2>1, <3>1, <4>1, <4>4
    <3> QED BY <2>4, <2>5, <3>3 DEF Ordered
  <2> QED BY <2>6, <2>7
<1> QED BY <1>3, <1>4

-----------------------------------------------------------------------------
(***************************************************************************)
(* What an operation makes of a regular registry: again a regular one, and   *)
(* on disk, wherever the process stops, the registry before it, the one      *)
(* after it, or one that load() refuses.                                    *)
(***************************************************************************)
Fine(D, size, names) == Regular(D, size, names) \/ Rejected(D, size)

WrittenSize(W, size) == IF size \in W THEN size + 1 ELSE size

Recoverable(R, S, size, ids, names) ==
  \A W : LowestOf(W, ids) =>
    /\ Fine(Mix(R, S, W), WrittenSize(W, size), names)
    /\ W # {} /\ W # ids => Rejected(Mix(R, S, W), WrittenSize(W, size))

LEMMA MixEnds ==
  ASSUME NEW R \in Registry, NEW S \in Registry
  PROVE  /\ Mix(R, S, {}) = R
         /\ \A ids : (\A r \in Ids \ ids : S[r] = R[r]) => Mix(R, S, ids) = S
<1>1. Mix(R, S, {}) = R
  BY DEF Mix, Registry
<1>2. ASSUME NEW ids, \A r \in Ids \ ids : S[r] = R[r] PROVE Mix(R, S, ids) = S
  <2>1. \A r \in Ids : (IF r \in ids THEN S[r] ELSE R[r]) = S[r]
    BY <1>2
  <2>2. S = [r \in Ids |-> S[r]]
    BY DEF Registry
  <2> QED BY <2>1, <2>2 DEF Mix
<1> QED BY <1>1, <1>2

LEMMA AppendRegular ==
  ASSUME NEW R, NEW size, NEW names \in Seq(Names \cup {0}), Regular(R, size, names), NEW n \in Names
  PROVE  Regular(R, size, Append(names, n))
<1>1. PICK names1 : names1 = Append(names, n)
  OBVIOUS
<1>2. PICK N, pos, end, par, M, place : Numbered(R, size, N, pos, end, par, M, place)
  BY DEF Regular, Whole
<1>3. TreeWhole(R, Active(R), N, pos, end, par) /\ R \in Registry
  BY <1>2 DEF Numbered, Regular, Whole, Shared
<1>4. \A r \in Active(R) : R[r].name \in Nat /\ R[r].name < Len(names)
  BY <1>3 DEF Regular, NamesIn, Active, Registry, RecordItem
<1>5. Len(names1) = Len(names) + 1 /\ Len(names) \in Nat
  BY <1>1, LenProperties, AppendProperties
<1>6. \A r \in Active(R) : NameAt(names1, R[r].name) = NameAt(names, R[r].name)
  BY <1>1, <1>4, NameAtFacts
<1>7. NamesIn(R, names1)
  BY <1>4, <1>5 DEF NamesIn
<1>8. ASSUME Named(R, names1) PROVE Ordered(R, names1)
  <2>1. Ordered(R, names)
    BY <1>6, <1>8 DEF Named, Regular
  <2>2. \A r \in Active(R) \ {ROOT} : NextSibling(R, r) # 0 => NextSibling(R, r) \in Active(R)
    BY <1>3, NextIn
  <2> QED BY <1>6, <2>1, <2>2 DEF Ordered
<1> QED BY <1>1, <1>7, <1>8 DEF Regular

(* What a change of links leaves of a record.                                *)
SameEntry(a, b) ==
  /\ b.name = a.name /\ b.isactive = a.isactive /\ b.isdir = a.isdir
  /\ b.isignore = a.isignore /\ b.ispending = a.ispending /\ b.time = a.time
  /\ ~a.isdir => b.sub = a.sub

SameEntries(R, S, T) == \A r \in T : SameEntry(R[r], S[r])

(* The records of R are in the same directories of S, which has one record   *)
(* more, rid in the directory pid.                                           *)
OneMore(R, size, S, size1, pid, rid) ==
  /\ Active(S) = Active(R) \cup {rid} /\ rid \notin Active(R) /\ rid # ROOT
  /\ pid \in Active(R)
  /\ \E N, pos, end, par, M, place, N1, pos1, end1, par1, M1, place1 :
       /\ Numbered(R, size, N, pos, end, par, M, place)
       /\ Numbered(S, size1, N1, pos1, end1, par1, M1, place1)
       /\ (\A r \in Active(R) : par1[r] = par[r]) /\ par1[rid] = pid

LEMMA InsertEntries ==
  ASSUME NEW R \in Registry, NEW rid \in Ids \ {0}, ~R[rid].isactive, ~R[0].isactive,
         NEW pid \in Dirs(R), NEW pre \in Active(R), NEW new \in RecordItem, new.isactive,
         NEW S, S = LinkRecord(AllocRec(R, rid, new), pid, pre, rid)
  PROVE  SameEntries(R, S, Active(R)) /\ SameEntry(new, S[rid])
<1>1. /\ pid \in Ids /\ pre \in Ids /\ 0 \in Ids /\ rid \in Ids /\ rid # 0
      /\ R[pid].isactive /\ R[pre].isactive /\ R[pid].isdir
      /\ rid # pid /\ rid # pre /\ pid # 0 /\ pre # 0
  BY MaxRecAssumption DEF Dirs, Active, Ids
<1>2. PICK A : A = AllocRec(R, rid, new)
  OBVIOUS
<1>3. A \in Registry
  BY <1>2, AllocRecLemma
<1>4. A[rid] = new /\ \A r \in Ids \ {rid, 0} : A[r] = R[r]
  BY <1>1, <1>2 DEF AllocRec
<1>5. S = LinkRecord(A, pid, pre, rid)
  BY <1>2
<1>6. \A r \in Ids \ {rid, pre} : S[r] = A[r]
  <2>1. SameBut(A, LinkRecord(A, pid, pre, rid), {rid, pre})
    BY <1>1, <1>3, LinkRecordLemma
  <2> QED BY <1>5, <2>1 DEF SameBut
<1>7. A[pid] \in RecordItem /\ A[pre] \in RecordItem /\ A[pid] = R[pid] /\ A[pre] = R[pre]
  BY <1>1, <1>3, <1>4 DEF Registry
<1>8. SameEntry(new, S[rid])
  <2>1. \/ S[rid] = [new EXCEPT !.next = IF A[pid].sub = 0 THEN pid ELSE A[pid].sub,
                               !.islast = (A[pid].sub = 0)]
        \/ S[rid] = [new EXCEPT !.next = A[pre].next, !.islast = A[pre].islast]
    BY <1>1, <1>3, <1>4, <1>5 DEF LinkRecord, Registry
  <2> QED BY <2>1 DEF SameEntry, RecordItem
<1>9. SameEntry(R[pre], S[pre])
  <2>1. \/ pre = pid /\ S[pre] = [A[pre] EXCEPT !.sub = rid]
        \/ S[pre] = [A[pre] EXCEPT !.next = rid, !.islast = FALSE]
    BY <1>1, <1>3, <1>5 DEF LinkRecord, Registry
  <2>2. PICK a \in RecordItem : a = A[pre] /\ a = R[pre]
    BY <1>7
  <2>3. CASE pre = pid /\ S[pre] = [a EXCEPT !.sub = rid]
    <3>1. a.isdir
      BY <1>1, <2>2, <2>3
    <3> QED BY <2>2, <2>3, <3>1 DEF SameEntry, RecordItem
  <2>4. CASE S[pre] = [a EXCEPT !.next = rid, !.islast = FALSE]
    BY <2>2, <2>4 DEF SameEntry, RecordItem
  <2> QED BY <2>1, <2>2, <2>3, <2>4
<1>10. ASSUME NEW r \in Active(R) PROVE SameEntry(R[r], S[r])
  <2>1. r \in Ids /\ r # rid /\ r # 0
    BY DEF Active
  <2>2. r # pre => S[r] = R[r]
    BY <1>4, <1>6, <2>1
  <2> QED BY <1>9, <2>2 DEF SameEntry
<1> QED BY <1>8, <1>10 DEF SameEntries

LEMMA RemoveEntries ==
  ASSUME NEW R \in Registry, ~R[0].isactive, NEW pid \in Dirs(R), NEW pre \in Active(R),
         NEW rid \in Active(R), rid # pre, NEW rpre \in Ids, ~R[rpre].isactive,
         NEW S, S = RecycleRec(UnlinkRecord(R, pid, pre, rid), rpre, rid)
  PROVE  SameEntries(S, R, Active(R) \ {rid})
<1>1. /\ pid \in Ids /\ pre \in Ids /\ rid \in Ids /\ rpre \in Ids
      /\ R[pid].isactive /\ R[pre].isactive /\ R[pid].isdir /\ R[rid].isactive
      /\ rid # rpre /\ pre # rpre /\ pid # rpre
  BY DEF Dirs, Active
<1>2. PICK U : U = UnlinkRecord(R, pid, pre, rid)
  OBVIOUS
<1>3. U \in Registry /\ SameBut(R, U, {pre})
  BY <1>1, <1>2, UnlinkRecordLemma
<1>4. \A r \in Ids \ {rid, rpre} : S[r] = U[r]
  BY <1>1, <1>2, <1>3 DEF RecycleRec, Registry
<1>5. SameEntry(U[pre], R[pre])
  <2>1. \/ pre = pid /\ U[pre] = [R[pre] EXCEPT !.sub = NextSibling(R, rid)]
        \/ U[pre] = [R[pre] EXCEPT !.next = R[rid].next, !.islast = R[rid].islast]
    BY <1>1, <1>2 DEF UnlinkRecord, Registry
  <2>2. R[pre] \in RecordItem
    BY <1>1 DEF Registry
  <2> QED BY <1>1, <2>1, <2>2 DEF SameEntry, RecordItem
<1>6. ASSUME NEW r \in Active(R) \ {rid} PROVE SameEntry(S[r], R[r])
  <2>1. r \in Ids /\ r # rpre /\ r # rid
    BY DEF Active
  <2>2. S[r] = U[r] /\ (r # pre => U[r] = R[r])
    BY <1>3, <1>4, <2>1 DEF SameBut
  <2> QED BY <1>5, <2>2 DEF SameEntry
<1> QED BY <1>6 DEF SameEntries

(* findRecord's answer, without a match.                                     *)
FoundPre(R, names, pid, n, pre) ==
  LET found == FindRecord(R, NameTable(R, names), pid, n)
  IN found.type # "FR_MATCH" /\ found.id = pre

Written(R, rid, pre) == {rid, pre} \cup (IF rid = R[0].next THEN {0} ELSE {})

LEMMA InsertFine ==
  ASSUME NEW R, NEW size, NEW names \in Seq(Names \cup {0}), Regular(R, size, names),
         NEW pid \in Dirs(R), NEW n \in Names, NEW pre, FoundPre(R, names, pid, n, pre),
         NEW rid, rid = NewId(R, size), rid < MaxRec,
         NEW new \in RecordItem, new.isactive, new.isdir => new.sub = 0, new.name = Len(names),
         NEW S, S = LinkRecord(AllocRec(R, rid, new), pid, pre, rid),
         NEW size1, size1 = IF rid = size THEN size + 1 ELSE size,
         NEW ids, ids = Written(R, rid, pre)
  PROVE  /\ Regular(S, size1, Append(names, n))
         /\ Recoverable(R, S, size, ids, Append(names, n))
         /\ OneMore(R, size, S, size1, pid, rid)
         /\ SameEntries(R, S, Active(R)) /\ SameEntry(new, S[rid])
<1>1. PICK N, pos, end, par, M, place : Numbered(R, size, N, pos, end, par, M, place)
  BY DEF Regular, Whole
<1>2. PICK T, nm : T = Active(R) /\ nm = NameTable(R, names)
  OBVIOUS
<1>0. ids = {rid, pre} \cup (IF rid = R[0].next THEN {0} ELSE {})
  BY DEF Written
<1>3. /\ Shared(R, size) /\ R \in Registry /\ size \in 2 .. MaxRec /\ T \subseteq 1 .. size - 1
      /\ T \in SUBSET Ids /\ pid \in T /\ R[pid].isdir /\ NamesIn(R, names)
      /\ (Named(R, names) => Ordered(R, names))
  BY <1>2 DEF Regular, Whole, Shared, Dirs, Active
<1>4. /\ TreeWhole(R, T, N, pos, end, par) /\ ListWhole(R, Spares(R, size), M, place)
      /\ N + M = size /\ MaxRec \in Nat
  BY <1>1, <1>2, MaxRecAssumption DEF Numbered
<1>5. N < MaxRec /\ par[pid] # pid /\ par[ROOT] = 0 /\ 0 \notin T /\ N \in Nat
  <2>1. N \in 0 .. MaxRec /\ M \in 0 .. MaxRec /\ 1 \in 1 .. M
    BY <1>4 DEF TreeWhole, TreeNumbered, ListWhole
  <2>2. pos[par[pid]] < pos[pid] /\ pos[pid] \in 0 .. N /\ par[ROOT] = 0 /\ 0 \notin T
    BY <1>3, <1>4 DEF TreeWhole, TreeNumbered
  <2> QED BY <1>3, <1>4, <2>1, <2>2
<1>6. /\ rid \in Ids \ {0} /\ ~R[rid].isactive /\ ~R[0].isactive
      /\ (R[0].next = 0 /\ rid = size) \/ (R[0].next = rid /\ rid \in Spares(R, size))
  BY <1>3, <1>4, NewIdFacts
<1>7. nm \in [Ids -> Nat]
  <2>1. ASSUME NEW r \in Ids PROVE NameAt(names, R[r].name) \in Nat
    <3>1. R[r].name \in Nat
      BY <1>3 DEF Registry, RecordItem
    <3> QED BY <3>1, NameAtFacts
  <2> QED BY <1>2, <2>1 DEF NameTable
<1>8. Between(R, T, par, nm, pid, n, pre)
  <2>1. Entries(R, T, par, pid, Chain(R, pid))
    BY <1>3, <1>4, <1>5, ChainEntries
  <2>2. n \in Nat
    BY NamesAssumption
  <2>3. FindRecord(R, nm, pid, n).type # "FR_MATCH" /\ FindRecord(R, nm, pid, n).id = pre
    BY <1>2 DEF FoundPre
  <2> QED BY <1>3, <1>5, <1>7, <2>1, <2>2, <2>3, FindRecordBetween
<1>9. pre \in Active(R) /\ (pre = pid \/ par[pre] = pid)
  BY <1>2, <1>3, <1>8 DEF Between, EntryOf
<1>10. /\ S \in Registry /\ AllocatedIn(R, S, rid)
       /\ LinkedIn(R, S, T, pid, pre, rid)
       /\ \A r \in Ids \ {0, rid, pre} : S[r] = R[r]
       /\ \A r \in Ids \ {rid} : S[r].name = R[r].name
       /\ S[rid].name = Len(names)
  BY <1>2, <1>3, <1>6, <1>9, InsertChanges, SMTT(60)
<1>11. /\ Shared(S, size1) /\ Active(S) = T \cup {rid}
       /\ \E pos1, end1, par1, M1, place1 :
            /\ Numbered(S, size1, N + 1, pos1, end1, par1, M1, place1)
            /\ par1 = ParentsIn(Active(R), rid, pid, par)
  BY <1>1, <1>2, <1>3, <1>9, <1>10, InsertWhole
<1>12. rid \notin T /\ rid # ROOT /\ \A r \in T : S[r].name = R[r].name
  <2>1. rid \notin T
    BY <1>2, <1>6 DEF Active
  <2>2. ROOT \in T
    BY <1>4 DEF TreeWhole, TreeNumbered
  <2> QED BY <1>3, <1>10, <2>1, <2>2
<1>13. NamesIn(S, Append(names, n)) /\ (Named(S, Append(names, n)) => Ordered(S, Append(names, n)))
  BY <1>2, <1>3, <1>4, <1>8, <1>10, <1>11, <1>12, InsertOrdered, SMTT(60)
<1>16. NextSibling(S, ROOT) = 0
  <2>1. NextSibling(R, ROOT) = 0 /\ ROOT \in T
    BY <1>4 DEF Regular, TreeWhole, TreeNumbered
  <2>2. pre # pid => pre # ROOT
    BY <1>8 DEF Between, EntryOf
  <2>3. S[ROOT] = R[ROOT] \/ (S[ROOT].next = R[ROOT].next /\ S[ROOT].islast = R[ROOT].islast)
    BY <1>10, <2>1, <2>2 DEF LinkedIn
  <2> QED BY <2>1, <2>3 DEF NextSibling
<1>14. Regular(S, size1, Append(names, n))
  BY <1>11, <1>13, <1>16 DEF Regular, Whole
<1>15. ASSUME NEW W, LowestOf(W, ids)
       PROVE  /\ Fine(Mix(R, S, W), WrittenSize(W, size), Append(names, n))
              /\ W # {} /\ W # ids => Rejected(Mix(R, S, W), WrittenSize(W, size))
  <2>1. CASE W = {}
    <3>1. Mix(R, S, W) = R /\ WrittenSize(W, size) = size
      BY <1>3, <1>10, <2>1, MixEnds DEF WrittenSize
    <3> QED BY <2>1, <3>1, AppendRegular DEF Fine
  <2>2. CASE W = ids
    <3>1. \A r \in Ids \ ids : S[r] = R[r]
      <4>1. R[0].next = rid \/ S[0] = R[0]
        <5>1. CASE R[0].next = 0
          <6>1. 0 \in Ids /\ 0 \notin {rid, pre} /\ rid \in Ids /\ pre \in Ids /\ pid \in Ids
            BY <1>2, <1>3, <1>4, <1>5, <1>6, <1>9 DEF Ids
          <6>2. PICK A : A = AllocRec(R, rid, new)
            OBVIOUS
          <6>3. A \in Registry /\ A[0] = R[0]
            BY <1>3, <5>1, <6>1, <6>2, AllocRecLemma DEF SameBut
          <6>4. SameBut(A, LinkRecord(A, pid, pre, rid), {rid, pre})
            BY <6>1, <6>3, LinkRecordLemma
          <6> QED BY <6>1, <6>2, <6>3, <6>4 DEF SameBut
        <5> QED BY <1>6, <5>1
      <4> QED BY <1>0, <1>10, <4>1
    <3>2. Mix(R, S, W) = S
      BY <1>3, <1>10, <2>2, <3>1, MixEnds
    <3>3. WrittenSize(W, size) = size1
      <4>1. pre # size /\ size # 0
        BY <1>2, <1>3, <1>9
      <4>2. size \in ids <=> rid = size
        BY <1>0, <4>1
      <4> QED BY <2>2, <4>2 DEF WrittenSize
    <3> QED BY <1>14, <2>2, <3>2, <3>3 DEF Fine
  <2>3. CASE W # {} /\ W # ids
    <3>1. Rejected(Mix(R, S, W), size) /\ size \notin W
      BY <1>0, <1>1, <1>2, <1>3, <1>9, <1>10, <1>15, <2>3, InsertTorn, SMTT(60)
    <3> QED BY <3>1 DEF Fine, WrittenSize
  <2> QED BY <2>1, <2>2, <2>3
<1>17. OneMore(R, size, S, size1, pid, rid)
  <2>1. PICK pos1, end1, par1, M1, place1 :
          /\ Numbered(S, size1, N + 1, pos1, end1, par1, M1, place1)
          /\ par1 = ParentsIn(T, rid, pid, par)
    BY <1>2, <1>11
  <2>2. (\A r \in T : par1[r] = par[r]) /\ par1[rid] = pid
    BY <1>12, <2>1 DEF ParentsIn
  <2> QED BY <1>1, <1>2, <1>3, <1>11, <1>12, <2>1, <2>2 DEF OneMore
<1>18. SameEntries(R, S, Active(R)) /\ SameEntry(new, S[rid])
  BY <1>3, <1>6, <1>9, InsertEntries
<1> QED BY <1>14, <1>15, <1>17, <1>18 DEF Recoverable

LEMMA RemoveFine ==
  ASSUME NEW R, NEW size, NEW names \in Seq(Names \cup {0}), Regular(R, size, names),
         NEW rid \in Active(R) \ {ROOT}, NameAt(names, R[rid].name) # 0,
         R[rid].isdir => R[rid].sub = 0,
         NEW pid \in Dirs(R), NEW pre, NEW rpre \in 0 .. size - 1,
         IsLinkTo(R, rid, pid, pre), IsRecyclePre(R, rid, rpre),
         NEW S, S = RecycleRec(UnlinkRecord(R, pid, pre, rid), rpre, rid),
         NEW names1, names1 = [names EXCEPT ![R[rid].name + 1] = 0]
  PROVE  /\ Regular(S, size, names1)
         /\ Recoverable(R, S, size, {rid, pre, rpre}, names1)
         /\ OneMore(S, size, R, size, pid, rid) /\ Regular(R, size, names1)
         /\ SameEntries(S, R, Active(S)) /\ rid # pre
<1>1. PICK N, pos, end, par, M, place : Numbered(R, size, N, pos, end, par, M, place)
  BY DEF Regular, Whole
<1>2. PICK T : T = Active(R)
  OBVIOUS
<1>3. /\ Shared(R, size) /\ R \in Registry /\ size \in 2 .. MaxRec /\ T \subseteq 1 .. size - 1
      /\ T \in SUBSET Ids /\ pid \in T /\ R[pid].isdir /\ NamesIn(R, names)
      /\ (Named(R, names) => Ordered(R, names))
      /\ rid \in T /\ rid # ROOT
  BY <1>2 DEF Regular, Whole, Shared, Dirs, Active
<1>4. /\ TreeWhole(R, T, N, pos, end, par) /\ ListWhole(R, Spares(R, size), M, place)
      /\ N + M = size /\ MaxRec \in Nat
  BY <1>1, <1>2, MaxRecAssumption DEF Numbered
<1>5. N < MaxRec /\ par[ROOT] = 0 /\ 0 \notin T /\ N \in Nat /\ 0 \in Spares(R, size)
  <2>1. N \in 0 .. MaxRec /\ M \in 0 .. MaxRec /\ 1 \in 1 .. M /\ 0 \in Spares(R, size)
    BY <1>4 DEF TreeWhole, TreeNumbered, ListWhole
  <2>2. par[ROOT] = 0 /\ 0 \notin T
    BY <1>4 DEF TreeWhole, TreeNumbered
  <2> QED BY <1>3, <1>4, <2>1, <2>2
<1>6. TakenFrom(T, pos, end, par, pid, pre, rid)
  BY <1>3, <1>4, <1>5, LinkFound
<1>7. /\ pre \in T /\ rid # pre /\ rid # 0 /\ pre \in Active(R)
      /\ pre # pid => pre # ROOT /\ NextSibling(R, pre) = rid
  <2>1. pre \in T /\ rid # pre /\ (pre # pid => par[pre] = pid)
    BY <1>6 DEF TakenFrom
  <2> QED BY <1>2, <1>3, <1>5, <2>1 DEF IsLinkTo
<1>8. rpre \in Spares(R, size) /\ rpre \in Ids /\ ~R[rpre].isactive /\ ~R[0].isactive /\ rpre < rid
  <2>1. ~R[0].isactive
    BY <1>5 DEF Spares
  <2>2. ~R[rpre].isactive /\ rpre < rid
    BY <2>1 DEF IsRecyclePre
  <2> QED BY <1>3, <1>4, <2>1, <2>2 DEF Spares, Ids
<1>9. /\ S \in Registry /\ RecycledIn(R, S, rid, rpre)
      /\ LinkedOut(R, S, T, pid, pre, rid)
      /\ \A r \in Ids \ {rpre, rid, pre} : S[r] = R[r]
      /\ \A r \in Ids \ {rid} : S[r].name = R[r].name
  BY <1>2, <1>3, <1>7, <1>8, RemoveChanges
<1>10. /\ Shared(S, size) /\ Active(S) = T \ {rid}
       /\ \E pos1, end1, par1, place1 :
            /\ Numbered(S, size, N - 1, pos1, end1, par1, M + 1, place1)
            /\ par1 = ParentsOut(Active(R), rid, par)
  BY <1>1, <1>2, <1>3, <1>6, <1>8, <1>9, RemoveWhole
<1>11. NamesIn(S, names1) /\ (Named(S, names1) => Ordered(S, names1))
  <2>1. PICK pos1, end1, par1 : TreeWhole(S, T \ {rid}, N - 1, pos1, end1, par1)
    BY <1>10 DEF Numbered
  <2>2. \A r \in T \ {rid} : S[r].name = R[r].name
    BY <1>3, <1>9
  <2>3. /\ rid \in T \ {pre} /\ NameAt(names, R[rid].name) # 0 /\ rid # ROOT /\ rid # 0
        /\ pre \in T /\ (pre # pid => pre # ROOT /\ NextSibling(R, pre) = rid)
    BY <1>3, <1>7
  <2>4. R \in Registry /\ NamesIn(R, names) /\ (Named(R, names) => Ordered(R, names))
    BY <1>3
  <2>5. LinkedOut(R, S, T, pid, pre, rid) /\ Active(S) = T \ {rid}
    BY <1>9, <1>10
  <2> QED BY <1>2, <2>1, <2>2, <2>3, <2>4, <2>5, RemoveOrdered, ZenonT(60)
<1>15. NextSibling(R, ROOT) = 0 /\ NextSibling(S, ROOT) = 0
  <2>1. NextSibling(R, ROOT) = 0 /\ ROOT \in T
    BY <1>4 DEF Regular, TreeWhole, TreeNumbered
  <2>2. S[ROOT] = R[ROOT] \/ (S[ROOT].next = R[ROOT].next /\ S[ROOT].islast = R[ROOT].islast)
    BY <1>3, <1>7, <1>9, <2>1 DEF LinkedOut
  <2> QED BY <2>1, <2>2 DEF NextSibling
<1>12. Regular(S, size, names1)
  BY <1>10, <1>11, <1>15 DEF Regular, Whole
<1>13. Regular(R, size, names1)
  <2>1. R[rid].name \in Nat
    BY <1>3 DEF Registry, RecordItem
  <2>2. PICK a \in Nat : a = R[rid].name
    BY <2>1
  <2>3. names1 = [names EXCEPT ![a + 1] = 0]
    BY <2>2
  <2>4. /\ NameAt([names EXCEPT ![a + 1] = 0], a) = IF a = a THEN 0 ELSE NameAt(names, a)
        /\ Len([names EXCEPT ![a + 1] = 0]) = Len(names)
    BY NameAtFacts
  <2>5. NamesIn(R, names1)
    BY <1>3, <2>3, <2>4 DEF NamesIn
  <2>6. ~Named(R, names1)
    BY <2>2, <2>3, <2>4 DEF Named
  <2> QED BY <2>5, <2>6 DEF Regular
<1>14. ASSUME NEW W, LowestOf(W, {rid, pre, rpre})
       PROVE  /\ Fine(Mix(R, S, W), WrittenSize(W, size), names1)
              /\ W # {} /\ W # {rid, pre, rpre} => Rejected(Mix(R, S, W), WrittenSize(W, size))
  <2>1. CASE W = {}
    <3>1. Mix(R, S, W) = R /\ WrittenSize(W, size) = size
      BY <1>3, <1>9, <2>1, MixEnds DEF WrittenSize
    <3> QED BY <1>13, <2>1, <3>1 DEF Fine
  <2>2. CASE W = {rid, pre, rpre}
    <3>1. \A r \in Ids \ {rid, pre, rpre} : S[r] = R[r]
      BY <1>9
    <3>2. Mix(R, S, W) = S
      BY <1>3, <1>9, <2>2, <3>1, MixEnds
    <3>3. WrittenSize(W, size) = size
      BY <1>3, <1>7, <2>2 DEF WrittenSize
    <3> QED BY <1>12, <2>2, <3>2, <3>3 DEF Fine
  <2>3. CASE W # {} /\ W # {rid, pre, rpre}
    <3>1. Rejected(Mix(R, S, W), size) /\ size \notin W
      <4>1. /\ TakenFrom(Active(R), pos, end, par, pid, pre, rid)
            /\ LinkedOut(R, S, Active(R), pid, pre, rid)
        BY <1>2, <1>6, <1>9
      <4>2. Shared(R, size) /\ rpre \in Spares(R, size) /\ rpre < rid
        BY <1>3, <1>8
      <4>3. /\ S \in Registry /\ RecycledIn(R, S, rid, rpre)
            /\ \A r \in Ids \ {rpre, rid, pre} : S[r] = R[r]
        BY <1>9
      <4> QED BY <1>1, <1>14, <2>3, <4>1, <4>2, <4>3, RemoveTorn
    <3> QED BY <3>1 DEF Fine, WrittenSize
  <2> QED BY <2>1, <2>2, <2>3
<1>16. OneMore(S, size, R, size, pid, rid)
  <2>1. PICK pos1, end1, par1, place1 :
          /\ Numbered(S, size, N - 1, pos1, end1, par1, M + 1, place1)
          /\ par1 = ParentsOut(T, rid, par)
    BY <1>2, <1>10
  <2>2. (\A r \in T \ {rid} : par[r] = par1[r]) /\ par[rid] = pid
    BY <1>6, <2>1 DEF ParentsOut, TakenFrom
  <2>3. Active(R) = Active(S) \cup {rid} /\ rid \notin Active(S) /\ Active(S) = T \ {rid}
    BY <1>2, <1>3, <1>10
  <2>4. \A r \in Active(S) : par[r] = par1[r]
    BY <2>2, <2>3
  <2>5. pid \in Active(S)
    BY <1>3, <1>6, <2>3 DEF TakenFrom
  <2> QED BY <1>1, <1>3, <2>1, <2>2, <2>3, <2>4, <2>5 DEF OneMore
<1>17. SameEntries(S, R, Active(S))
  <2>1. SameEntries(S, R, Active(R) \ {rid})
    BY <1>2, <1>3, <1>7, <1>8, RemoveEntries
  <2> QED BY <1>2, <1>10, <2>1
<1> QED BY <1>7, <1>12, <1>13, <1>14, <1>16, <1>17 DEF Recoverable

LEMMA ModFine ==
  ASSUME NEW R, NEW S \in Registry, NEW size, NEW names, Regular(R, size, names), SameLinks(R, S),
         \A r \in Ids : S[r].name = R[r].name,
         NEW rid \in Ids, rid < size, \A r \in Ids \ {rid} : S[r] = R[r]
  PROVE  /\ Regular(S, size, names) /\ Recoverable(R, S, size, {rid}, names)
         /\ SamePlaces(R, S, size)
<1>1. Active(S) = Active(R) /\ Active(R) \subseteq Ids /\ R \in Registry /\ size \in Nat
  BY MaxRecAssumption DEF Active, SameLinks, Regular, Whole, Shared
<1>2. \A r \in Ids : NextSibling(S, r) = NextSibling(R, r)
  BY DEF SameLinks, NextSibling
<1>3. \A r \in Active(R) \ {ROOT} : NextSibling(R, r) # 0 => NextSibling(R, r) \in Ids
  <2>1. PICK N, pos, end, par, M, place : Numbered(R, size, N, pos, end, par, M, place)
    BY DEF Regular, Whole
  <2>2. TreeWhole(R, Active(R), N, pos, end, par)
    BY <2>1 DEF Numbered
  <2> QED BY <1>1, <2>2, NextIn
<1>4. Regular(S, size, names)
  <2>1. Whole(S, size)
    BY SameLinksWhole DEF Regular
  <2>2. NamesIn(S, names) /\ (Named(S, names) => Named(R, names))
    BY <1>1 DEF Regular, NamesIn, Named
  <2>3. Ordered(R, names) => Ordered(S, names)
    BY <1>1, <1>2, <1>3 DEF Ordered
  <2>4. NextSibling(S, ROOT) = 0
    BY <1>2, MaxRecAssumption DEF Regular, ROOT, Ids
  <2> QED BY <2>1, <2>2, <2>3, <2>4 DEF Regular
<1>5. ASSUME NEW W, LowestOf(W, {rid})
      PROVE  /\ Fine(Mix(R, S, W), WrittenSize(W, size), names)
             /\ W # {} /\ W # {rid} => Rejected(Mix(R, S, W), WrittenSize(W, size))
  <2>0. size # rid /\ W \subseteq {rid}
    BY <1>1, <1>5, MaxRecAssumption DEF LowestOf, Ids
  <2>1. WrittenSize(W, size) = size /\ (W = {} \/ W = {rid})
    BY <2>0 DEF WrittenSize
  <2>2. Mix(R, S, {}) = R /\ Mix(R, S, {rid}) = S
    BY <1>1, MixEnds
  <2> QED BY <1>4, <2>1, <2>2 DEF Fine
<1>6. SamePlaces(R, S, size)
  BY SameLinksWhole DEF Regular
<1> QED BY <1>4, <1>5, <1>6 DEF Recoverable

-----------------------------------------------------------------------------
(***************************************************************************)
(* The inductive invariant of the two properties of verifyrec.  Memory holds *)
(* a regular registry while the root is loaded.  The file holds one too, or  *)
(* one that load() refuses, and so it will after each of the writes that    *)
(* writeRec still has to do.                                               *)
(***************************************************************************)
InMemory == mode = "up" => Regular(recs, nrec, rname)

OnDisk == dnrec >= 2 => Fine(drecs, dnrec, drname)

ToBeWritten == mode = "up" => Recoverable(drecs, recs, dnrec, dirty, drname)

Starting == mode = "init" => /\ dnrec = 0 /\ recs = InitRecords /\ nrec = 2
                             /\ rname = <<0>> /\ drname = <<0>>

StoreInv == NameInv /\ InMemory /\ OnDisk /\ ToBeWritten /\ Starting

LEMMA StoreTypes ==
  ASSUME NameInv
  PROVE  /\ recs \in Registry /\ drecs \in Registry
         /\ rname \in Seq(Names \cup {0}) /\ drname \in Seq(Names \cup {0})
         /\ nrec \in 0 .. MaxRec /\ dnrec \in 0 .. MaxRec /\ MaxRec \in Nat
         /\ dirty \subseteq Ids
BY MaxRecAssumption DEF NameInv, DiskInv, TypeOK, Registry

(* Between operations the file holds what memory holds.                      *)
LEMMA IdleFacts ==
  ASSUME StoreInv, Idle
  PROVE  drecs = recs /\ dnrec = nrec /\ drname = rname /\ Regular(recs, nrec, rname)
<1>1. recs \in Registry /\ drecs \in Registry
  BY StoreTypes DEF StoreInv
<1>2. \A r \in Ids : drecs[r] = recs[r]
  BY DEF StoreInv, NameInv, DiskInv, DiskTrailsMemory, Idle
<1>3. drecs = recs
  BY <1>1, <1>2 DEF Registry
<1> QED BY <1>3 DEF StoreInv, NameInv, DiskInv, DiskTrailsMemory, Idle, InMemory

LEMMA NewRecordTypes ==
  /\ \A ignored \in BOOLEAN :
       LET new == [Blank EXCEPT !.isactive = TRUE, !.isdir = TRUE, !.isignore = ignored]
       IN new \in RecordItem /\ new.isactive /\ (new.isdir => new.sub = 0)
  /\ \A attr \in Attrs :
       LET new == [Blank EXCEPT !.isactive = TRUE, !.time = attr.time, !.sub = attr.size]
       IN new \in RecordItem /\ new.isactive /\ (new.isdir => new.sub = 0)
  /\ LET new == [Blank EXCEPT !.isactive = TRUE, !.isignore = TRUE]
     IN new \in RecordItem /\ new.isactive /\ (new.isdir => new.sub = 0)
  /\ LET new == [Blank EXCEPT !.isactive = TRUE, !.ispending = TRUE]
     IN new \in RecordItem /\ new.isactive /\ (new.isdir => new.sub = 0)
BY AttrsAssumption DEF Blank, RecordItem

LEMMA InsertStore ==
  ASSUME StoreInv, NEW pid \in Dirs(recs), NEW n \in Names, NEW new \in RecordItem,
         new.isactive, new.isdir => new.sub = 0, Insert(pid, n, new)
  PROVE  /\ Regular(recs', nrec', rname') /\ Recoverable(drecs, recs', dnrec, dirty', drname')
         /\ SameEntries(recs, recs', Active(recs))
         /\ \E rid : /\ OneMore(recs, nrec, recs', nrec', pid, rid)
                     /\ SameEntry([new EXCEPT !.name = Len(rname)], recs'[rid])
<1>1. Idle /\ NewId(recs, nrec) < MaxRec
  BY DEF Insert
<1>2. drecs = recs /\ dnrec = nrec /\ drname = rname /\ Regular(recs, nrec, rname)
  BY <1>1, IdleFacts
<1>3. recs \in Registry /\ rname \in Seq(Names \cup {0}) /\ nrec \in 0 .. MaxRec
  BY StoreTypes DEF StoreInv
<1>4. PICK rid, named : rid = NewId(recs, nrec) /\ named = [new EXCEPT !.name = NameBase]
  OBVIOUS
<1>5. PICK pre \in Slots :
        /\ IsPre(pid, n, pre)
        /\ recs' = LinkRecord(AllocRec(recs, rid, named), pid, pre, rid)
        /\ dirty' = ChangedByInsert(rid, pre)
  BY <1>4 DEF Insert
<1>6. /\ nrec' = IF rid = nrec THEN nrec + 1 ELSE nrec
      /\ rname' = Append(rname, n) /\ drname' = Append(drname, n)
  BY <1>4 DEF Insert
<1>7. /\ named \in RecordItem /\ named.isactive /\ (named.isdir => named.sub = 0)
      /\ named.name = Len(rname)
  <2>1. NameBase \in Nat /\ NameBase = Len(rname)
    BY <1>3, LenProperties DEF NameBase
  <2> QED BY <1>4, <2>1 DEF RecordItem
<1>8. FoundPre(recs, rname, pid, n, pre)
  BY <1>5 DEF IsPre, FoundPre, NamesNow, NameOf, NameTable
<1>9. dirty' = Written(recs, rid, pre)
  BY <1>5 DEF ChangedByInsert, Written
<1>10. PICK S, size1, ids : S = recs' /\ size1 = nrec' /\ ids = dirty'
  OBVIOUS
<1>11. /\ Regular(S, size1, Append(rname, n))
       /\ Recoverable(recs, S, nrec, ids, Append(rname, n))
       /\ OneMore(recs, nrec, S, size1, pid, rid)
       /\ SameEntries(recs, S, Active(recs)) /\ SameEntry(named, S[rid])
  <2>1. /\ S = LinkRecord(AllocRec(recs, rid, named), pid, pre, rid)
        /\ size1 = IF rid = nrec THEN nrec + 1 ELSE nrec
        /\ ids = Written(recs, rid, pre)
    BY <1>5, <1>6, <1>9, <1>10
  <2>2. rid = NewId(recs, nrec) /\ rid < MaxRec
    BY <1>1, <1>4
  <2>3. Regular(recs, nrec, rname) /\ rname \in Seq(Names \cup {0})
    BY <1>2, <1>3
  <2> QED BY <1>7, <1>8, <2>1, <2>2, <2>3, InsertFine
<1> QED BY <1>2, <1>4, <1>6, <1>10, <1>11 DEF NameBase

LEMMA RemoveStore ==
  ASSUME StoreInv, NEW rid \in Slots, Remove(rid)
  PROVE  /\ Regular(recs', nrec', rname') /\ Recoverable(drecs, recs', dnrec, dirty', drname')
         /\ SameEntries(recs', recs, Active(recs')) /\ Regular(recs, nrec, rname')
         /\ \E pid \in Dirs(recs) : OneMore(recs', nrec, recs, nrec, pid, rid)
<1>1. /\ Idle /\ recs[rid].isactive /\ rid # ROOT /\ NameOf(rid) # 0
      /\ recs[rid].isdir => recs[rid].sub = 0
  BY DEF Remove
<1>2. drecs = recs /\ dnrec = nrec /\ drname = rname /\ Regular(recs, nrec, rname)
  BY <1>1, IdleFacts
<1>3. recs \in Registry /\ rname \in Seq(Names \cup {0}) /\ nrec \in 0 .. MaxRec /\ MaxRec \in Nat
  BY StoreTypes DEF StoreInv
<1>4. PICK pid \in Dirs(recs), pre \in Slots, rpre \in Slots :
        /\ IsLinkTo(recs, rid, pid, pre) /\ IsRecyclePre(recs, rid, rpre)
        /\ recs' = RecycleRec(UnlinkRecord(recs, pid, pre, rid), rpre, rid)
        /\ dirty' = ChangedByRemove(rid, pre, rpre)
  BY DEF Remove
<1>5. /\ nrec' = nrec /\ rname' = [rname EXCEPT ![recs[rid].name + 1] = 0]
      /\ drname' = [drname EXCEPT ![recs[rid].name + 1] = 0]
  BY DEF Remove
<1>6. rid \in Active(recs) \ {ROOT} /\ rpre \in 0 .. nrec - 1 /\ NameAt(rname, recs[rid].name) # 0
  BY <1>1, <1>3, <1>4 DEF Slots, Active, Ids, NameOf
<1>7. dirty' = {rid, pre, rpre}
  BY <1>4 DEF ChangedByRemove
<1>8. PICK S, names1 : S = recs' /\ names1 = rname'
  OBVIOUS
<1>9. /\ Regular(S, nrec, names1) /\ Recoverable(recs, S, nrec, {rid, pre, rpre}, names1)
      /\ OneMore(S, nrec, recs, nrec, pid, rid) /\ Regular(recs, nrec, names1)
      /\ SameEntries(S, recs, Active(S))
  BY <1>1, <1>2, <1>3, <1>4, <1>5, <1>6, <1>8, RemoveFine, ZenonT(60)
<1> QED BY <1>2, <1>5, <1>7, <1>8, <1>9

LEMMA ModStore ==
  ASSUME StoreInv, NEW rid \in Slots, NEW attr \in Attrs, ModFile(rid, attr)
  PROVE  /\ Regular(recs', nrec', rname') /\ Recoverable(drecs, recs', dnrec, dirty', drname')
         /\ SamePlaces(recs, recs', nrec)
<1>1. Idle /\ ~recs[rid].isdir
  BY DEF ModFile
<1>2. drecs = recs /\ dnrec = nrec /\ drname = rname /\ Regular(recs, nrec, rname)
  BY <1>1, IdleFacts
<1>3. /\ recs \in Registry /\ nrec \in 0 .. MaxRec /\ MaxRec \in Nat
      /\ rid \in Ids /\ rid < nrec /\ recs[rid] \in RecordItem
  BY StoreTypes DEF StoreInv, Slots, Ids, Registry
<1>4. /\ recs' \in Registry /\ \A r \in Ids \ {rid} : recs'[r] = recs[r]
      /\ dirty' = {rid} /\ UNCHANGED <<nrec, rname, disk>>
  BY ModFileLemma DEF StoreInv, NameInv, DiskInv, TypeOK, SameBut, Registry
<1>5. /\ recs'[rid].isactive = recs[rid].isactive /\ recs'[rid].isdir = recs[rid].isdir
      /\ recs'[rid].next = recs[rid].next /\ recs'[rid].islast = recs[rid].islast
      /\ recs'[rid].name = recs[rid].name
  <2>1. \/ recs'[rid] = [recs[rid] EXCEPT !.ispending = FALSE, !.time = attr.time, !.sub = attr.size]
        \/ recs'[rid] = [recs[rid] EXCEPT !.ispending = TRUE]
    BY <1>3 DEF ModFile, Registry
  <2> QED BY <1>3, <2>1 DEF RecordItem
<1>6. PICK S : S = recs'
  OBVIOUS
<1>7. SameLinks(recs, S) /\ \A r \in Ids : S[r].name = recs[r].name
  BY <1>1, <1>4, <1>5, <1>6 DEF SameLinks
<1>8. /\ Regular(S, nrec, rname) /\ Recoverable(recs, S, nrec, {rid}, rname)
      /\ SamePlaces(recs, S, nrec)
  BY <1>2, <1>3, <1>4, <1>6, <1>7, ModFine
<1> QED BY <1>2, <1>4, <1>6, <1>8 DEF disk

(* writeRec: what is left to write leads to the same files as before.        *)
LEMMA WriteOne ==
  ASSUME NEW R \in Registry, NEW S \in Registry, NEW size \in Nat, NEW last \in Nat, NEW names,
         NEW ids \in SUBSET Ids, ids \subseteq 0 .. last - 1, size <= last,
         size < last => size = last - 1,
         Recoverable(R, S, size, ids, names),
         NEW c \in ids, \A d \in ids : c <= d,
         NEW D, D = [R EXCEPT ![c] = S[c]],
         NEW size1, size1 = IF c >= size THEN c + 1 ELSE size
  PROVE  Recoverable(D, S, size1, ids \ {c}, names)
<1>1. c \in Nat /\ c < last /\ c \in Ids /\ \A d \in ids : d \in Nat /\ d < last
  OBVIOUS
<1>2. ASSUME NEW W, LowestOf(W, ids \ {c})
      PROVE  /\ Fine(Mix(D, S, W), WrittenSize(W, size1), names)
             /\ W # {} /\ W # ids \ {c} => Rejected(Mix(D, S, W), WrittenSize(W, size1))
  <2>1. PICK V : V = W \cup {c}
    OBVIOUS
  <2>2. W \subseteq ids \ {c} /\ \A a \in W, d \in (ids \ {c}) \ W : a < d
    BY <1>2 DEF LowestOf
  <2>3. LowestOf(V, ids)
    <3>1. V \subseteq ids
      BY <2>1, <2>2
    <3>2. ASSUME NEW a \in V, NEW d \in ids \ V PROVE a < d
      <4>1. CASE a \in W
        BY <2>1, <2>2, <4>1
      <4>2. CASE a = c
        <5>1. c <= d /\ d # c /\ d \in Nat
          BY <1>1, <2>1
        <5> QED BY <1>1, <4>2, <5>1
      <4> QED BY <2>1, <4>1, <4>2
    <3> QED BY <3>1, <3>2 DEF LowestOf
  <2>4. Mix(D, S, W) = Mix(R, S, V)
    <3>1. \A r \in Ids : (IF r \in W THEN S[r] ELSE D[r]) = (IF r \in V THEN S[r] ELSE R[r])
      BY <1>1, <2>1 DEF Registry
    <3> QED BY <3>1 DEF Mix
  <2>5. WrittenSize(W, size1) = WrittenSize(V, size)
    <3>1. CASE c >= size
      <4>1. c = size /\ size1 = size + 1 /\ size1 = last
        BY <1>1, <3>1
      <4>2. size1 \notin W
        BY <1>1, <2>2, <4>1
      <4> QED BY <2>1, <4>1, <4>2 DEF WrittenSize
    <3>2. CASE ~(c >= size)
      <4>1. size1 = size /\ c # size
        BY <1>1, <3>2
      <4> QED BY <2>1, <4>1 DEF WrittenSize
    <3> QED BY <3>1, <3>2
  <2>6. /\ Fine(Mix(R, S, V), WrittenSize(V, size), names)
        /\ V # {} /\ V # ids => Rejected(Mix(R, S, V), WrittenSize(V, size))
    BY <2>3 DEF Recoverable
  <2>7. V # {} /\ (W # ids \ {c} => V # ids)
    BY <2>1, <2>2
  <2> QED BY <2>4, <2>5, <2>6, <2>7
<1> QED BY <1>2 DEF Recoverable

(* The file as it is now: nothing more written.                              *)
LEMMA NothingWritten ==
  ASSUME NEW R \in Registry, NEW S \in Registry, NEW size, NEW ids, NEW names,
         Recoverable(R, S, size, ids, names)
  PROVE  Fine(R, size, names)
<1>1. LowestOf({}, ids)
  BY DEF LowestOf
<1>2. Fine(Mix(R, S, {}), WrittenSize({}, size), names)
  BY <1>1 DEF Recoverable
<1>3. Mix(R, S, {}) = R /\ WrittenSize({}, size) = size
  BY MixEnds DEF WrittenSize
<1> QED BY <1>2, <1>3

(* The file of a root with nothing to write.                                 *)
LEMMA NothingToWrite ==
  ASSUME NEW R \in Registry, NEW size, NEW names, Regular(R, size, names)
  PROVE  Recoverable(R, R, size, {}, names)
<1> SUFFICES ASSUME NEW W, LowestOf(W, {})
             PROVE  W = {} /\ Fine(Mix(R, R, W), WrittenSize(W, size), names)
  BY DEF Recoverable
<1>1. W = {}
  BY DEF LowestOf
<1>2. Mix(R, R, W) = R /\ WrittenSize(W, size) = size
  BY <1>1, MixEnds DEF WrittenSize
<1> QED BY <1>1, <1>2 DEF Fine

LEMMA InitRegular == Regular(InitRecords, 2, <<0>>)
<1>1. Whole(InitRecords, 2)
  BY InitWhole
<1>2. MaxRec \in Nat /\ MaxRec >= 2 /\ ROOT = 1
  BY MaxRecAssumption DEF ROOT
<1>3. /\ InitRecords[ROOT] = [Blank EXCEPT !.isdir = TRUE, !.isactive = TRUE]
      /\ \A r \in Ids \ {ROOT} : InitRecords[r] = Blank
  BY <1>2 DEF InitRecords, Ids
<1>4. Active(InitRecords) = {ROOT} /\ InitRecords[ROOT].name = 0
  <2>1. InitRecords[ROOT].isactive /\ InitRecords[ROOT].name = 0
    BY <1>3 DEF Blank
  <2>2. \A r \in Ids \ {ROOT} : ~InitRecords[r].isactive
    BY <1>3 DEF Blank
  <2> QED BY <1>2, <2>1, <2>2 DEF Active, Ids
<1>5. NamesIn(InitRecords, <<0>>)
  BY <1>4 DEF NamesIn
<1>6. Ordered(InitRecords, <<0>>) /\ NextSibling(InitRecords, ROOT) = 0
  BY <1>3, <1>4 DEF Ordered, NextSibling, Blank
<1> QED BY <1>1, <1>5, <1>6 DEF Regular

LEMMA OperationRegular ==
  ASSUME StoreInv, Operation
  PROVE  Regular(recs', nrec', rname') /\ Recoverable(drecs, recs', dnrec, dirty', drname')
<1>1. ASSUME NEW pid \in Parents, NEW n \in Names, NEW ignored \in BOOLEAN, AddDir(pid, n, ignored)
      PROVE  Regular(recs', nrec', rname') /\ Recoverable(drecs, recs', dnrec, dirty', drname')
  <2>1. PICK new : new = [Blank EXCEPT !.isactive = TRUE, !.isdir = TRUE, !.isignore = ignored]
    OBVIOUS
  <2>2. new \in RecordItem /\ new.isactive /\ (new.isdir => new.sub = 0)
    BY <2>1, NewRecordTypes, Zenon
  <2>3. Insert(pid, n, new)
    BY <1>1, <2>1 DEF AddDir
  <2>4. pid \in Dirs(recs)
    BY DEF Parents
  <2> QED BY <2>2, <2>3, <2>4, InsertStore
<1>2. ASSUME NEW pid \in Parents, NEW n \in Names, NEW attr \in Attrs, AddFile(pid, n, attr)
      PROVE  Regular(recs', nrec', rname') /\ Recoverable(drecs, recs', dnrec, dirty', drname')
  <2>1. PICK new : new = [Blank EXCEPT !.isactive = TRUE, !.time = attr.time, !.sub = attr.size]
    OBVIOUS
  <2>2. new \in RecordItem /\ new.isactive /\ (new.isdir => new.sub = 0)
    BY <2>1, NewRecordTypes, Zenon
  <2>3. Insert(pid, n, new)
    BY <1>2, <2>1 DEF AddFile
  <2>4. pid \in Dirs(recs)
    BY DEF Parents
  <2> QED BY <2>2, <2>3, <2>4, InsertStore
<1>3. ASSUME NEW pid \in Parents, NEW n \in Names, AddIgnoredFile(pid, n)
      PROVE  Regular(recs', nrec', rname') /\ Recoverable(drecs, recs', dnrec, dirty', drname')
  <2>1. PICK new : new = [Blank EXCEPT !.isactive = TRUE, !.isignore = TRUE]
    OBVIOUS
  <2>2. new \in RecordItem /\ new.isactive /\ (new.isdir => new.sub = 0)
    BY <2>1, NewRecordTypes, Zenon
  <2>3. Insert(pid, n, new)
    BY <1>3, <2>1 DEF AddIgnoredFile
  <2>4. pid \in Dirs(recs)
    BY DEF Parents
  <2> QED BY <2>2, <2>3, <2>4, InsertStore
<1>4. ASSUME NEW pid \in Parents, NEW n \in Names, AddLockedFile(pid, n)
      PROVE  Regular(recs', nrec', rname') /\ Recoverable(drecs, recs', dnrec, dirty', drname')
  <2>1. PICK new : new = [Blank EXCEPT !.isactive = TRUE, !.ispending = TRUE]
    OBVIOUS
  <2>2. new \in RecordItem /\ new.isactive /\ (new.isdir => new.sub = 0)
    BY <2>1, NewRecordTypes, Zenon
  <2>3. Insert(pid, n, new)
    BY <1>4, <2>1 DEF AddLockedFile
  <2>4. pid \in Dirs(recs)
    BY DEF Parents
  <2> QED BY <2>2, <2>3, <2>4, InsertStore
<1> QED BY <1>1, <1>2, <1>3, <1>4, ModStore, RemoveStore DEF Operation

LEMMA StoreInvInit == Init => StoreInv
<1> SUFFICES ASSUME Init PROVE StoreInv
  OBVIOUS
<1>1. NameInv
  <2>1. \A r \in Ids, a \in Nat : ~Claims(r, a)
    BY DEF Init, Claims, NoRecords, Blank
  <2> QED BY <2>1, DiskInvInit DEF Init, NameInv, Owned, Begun
<1> QED BY <1>1 DEF Init, StoreInv, InMemory, OnDisk, ToBeWritten, Starting

LEMMA StoreInvStep == StoreInv /\ [Next]_vars => StoreInv'
<1> SUFFICES ASSUME StoreInv, [Next]_vars PROVE StoreInv'
  OBVIOUS
<1>0. NameInv /\ InMemory /\ OnDisk /\ ToBeWritten /\ Starting
  BY DEF StoreInv
<1>1. NameInv'
  <2>1. DiskInv'
    BY <1>0, DiskInvStep DEF NameInv
  <2>2. CASE UNCHANGED vars
    BY <1>0, <2>1, <2>2 DEF NameInv, Owned, Begun, Claims, vars
  <2> QED BY <1>0, <2>1, <2>2, OperationNameInv, OtherNameInv DEF NameInv, Next
<1>2. /\ recs \in Registry /\ drecs \in Registry
      /\ nrec \in 0 .. MaxRec /\ dnrec \in 0 .. MaxRec /\ MaxRec \in Nat
      /\ dirty \subseteq Ids
  BY <1>0, StoreTypes
<1>3. recs' \in Registry /\ drecs' \in Registry
  BY <1>1 DEF NameInv, DiskInv, TypeOK, Registry
<1> SUFFICES InMemory' /\ OnDisk' /\ ToBeWritten' /\ Starting'
  BY <1>1 DEF StoreInv
<1>4. CASE Operation
  <2>1. Regular(recs', nrec', rname') /\ Recoverable(drecs, recs', dnrec, dirty', drname')
    BY <1>4, OperationRegular, Zenon
  <2>2. mode' = "up" /\ drecs' = drecs /\ dnrec' = dnrec
    BY <1>4, ZenonT(60) DEF Operation, AddDir, AddFile, AddIgnoredFile, AddLockedFile, ModFile, Insert,
         Remove, Idle, disk
  <2>3. Recoverable(drecs', recs', dnrec', dirty', drname')
    BY <2>1, <2>2
  <2>4. Fine(drecs', dnrec', drname')
    <3>1. PICK D, S, z, ids, nm : D = drecs' /\ S = recs' /\ z = dnrec' /\ ids = dirty' /\ nm = drname'
      OBVIOUS
    <3> QED BY <1>3, <2>3, <3>1, NothingWritten
  <2> QED BY <2>1, <2>2, <2>3, <2>4 DEF InMemory, OnDisk, ToBeWritten, Starting
<1>5. CASE WriteRec
  <2>1. PICK c \in dirty : /\ \A d \in dirty : c <= d
                           /\ drecs' = [drecs EXCEPT ![c] = recs[c]]
                           /\ dnrec' = IF c >= dnrec THEN c + 1 ELSE dnrec
                           /\ dirty' = dirty \ {c}
    BY <1>5 DEF WriteRec
  <2>2. mode' = "up" /\ mode = "up" /\ UNCHANGED <<recs, nrec, rname, drname>>
    BY <1>5 DEF WriteRec, memory
  <2>3. dirty \subseteq 0 .. nrec - 1 /\ dnrec <= nrec /\ (dnrec < nrec => dnrec = nrec - 1)
    BY <1>0, <2>2 DEF NameInv, DiskInv, SizeTrails, Slots
  <2>4. Recoverable(drecs, recs, dnrec, dirty, drname)
    BY <1>0, <2>2 DEF ToBeWritten
  <2>5. PICK D, z : D = drecs' /\ z = dnrec'
    OBVIOUS
  <2>6. Recoverable(D, recs, z, dirty \ {c}, drname)
    <3>1. dnrec \in Nat /\ nrec \in Nat /\ dirty \in SUBSET Ids
      BY <1>2
    <3>2. \A d \in dirty : c <= d
      BY <2>1
    <3>3. D = [drecs EXCEPT ![c] = recs[c]] /\ z = IF c >= dnrec THEN c + 1 ELSE dnrec
      BY <2>1, <2>5
    <3> QED BY <1>2, <2>3, <2>4, <3>1, <3>2, <3>3, WriteOne
  <2>7. Fine(D, z, drname)
    BY <1>2, <1>3, <2>5, <2>6, NothingWritten
  <2>8. OnDisk' /\ ToBeWritten'
    BY <2>1, <2>2, <2>5, <2>6, <2>7 DEF OnDisk, ToBeWritten
  <2> QED BY <1>0, <2>2, <2>8 DEF InMemory, Starting
<1>6. CASE LoadFresh
  <2>1. dnrec = 0
    <3>1. ~(dnrec >= 2 /\ drname # <<>>)
      BY <1>2, <1>6 DEF LoadFresh
    <3> QED BY <1>0, <3>1 DEF NameInv, Begun
  <2>2. /\ recs' = InitRecords /\ nrec' = 2 /\ rname' = <<0>> /\ drname' = <<0>>
        /\ mode' = "init" /\ dnrec' = 0
    BY <1>6, <2>1 DEF LoadFresh
  <2> QED BY <2>2 DEF InMemory, OnDisk, ToBeWritten, Starting
<1>7. CASE WriteInit
  <2>1. /\ recs = InitRecords /\ nrec = 2 /\ rname = <<0>> /\ drname = <<0>> /\ dirty = {}
    BY <1>0, <1>7 DEF WriteInit, Starting, NameInv, DiskInv, QuietUnlessUp
  <2>2. /\ recs' = InitRecords /\ nrec' = 2 /\ rname' = <<0>> /\ drname' = <<0>> /\ dirty' = {}
        /\ drecs' = InitRecords /\ dnrec' = 2 /\ mode' = "up"
    BY <1>7, <2>1 DEF WriteInit
  <2>3. Regular(InitRecords, 2, <<0>>) /\ InitRecords \in Registry
    BY InitRegular, InitRecordsType
  <2>4. Recoverable(InitRecords, InitRecords, 2, {}, <<0>>)
    BY <2>3, NothingToWrite
  <2>5. Fine(InitRecords, 2, <<0>>)
    BY <2>3 DEF Fine
  <2> QED BY <2>2, <2>3, <2>4, <2>5 DEF InMemory, OnDisk, ToBeWritten, Starting
<1>8. CASE LoadSaved
  <2>1. /\ mode = "down" /\ dnrec >= 2 /\ VerifyRec(drecs, dnrec, drname) = "ok"
        /\ recs' = drecs /\ nrec' = dnrec /\ rname' = drname /\ mode' = "up"
        /\ drecs' = drecs /\ dnrec' = dnrec /\ drname' = drname /\ dirty' = dirty
    BY <1>8 DEF LoadSaved, SavedFiles, disk
  <2>2. dirty = {} /\ drname \in Seq(Names \cup {0})
    BY <1>0, <2>1, StoreTypes DEF NameInv, DiskInv, QuietUnlessUp
  <2>3. ~Rejected(drecs, dnrec)
    BY <2>1, <2>2, RejectedVerdict
  <2>4. Regular(drecs, dnrec, drname)
    BY <1>0, <2>1, <2>3 DEF OnDisk, Fine
  <2>5. Recoverable(drecs, drecs, dnrec, {}, drname)
    BY <1>2, <2>4, NothingToWrite
  <2> QED BY <1>0, <2>1, <2>2, <2>4, <2>5 DEF InMemory, OnDisk, ToBeWritten, Starting
<1>9. CASE LoadRejected \/ LoadWild
  <2>1. mode' \in {"failed", "undefined"} /\ UNCHANGED disk
    BY <1>9 DEF LoadRejected, LoadWild
  <2> QED BY <1>0, <2>1 DEF InMemory, OnDisk, ToBeWritten, Starting, disk
<1>10. CASE Stop
  <2>1. mode' = "down" /\ UNCHANGED disk
    BY <1>10 DEF Stop
  <2> QED BY <1>0, <2>1 DEF InMemory, OnDisk, ToBeWritten, Starting, disk
<1>11. CASE UNCHANGED vars
  BY <1>0, <1>11 DEF InMemory, OnDisk, ToBeWritten, Starting, vars
<1> QED BY <1>4, <1>5, <1>6, <1>7, <1>8, <1>9, <1>10, <1>11 DEF Next, Load

LEMMA StoreInvAlways == Spec => []StoreInv
BY StoreInvInit, StoreInvStep, PTL DEF Spec


-----------------------------------------------------------------------------
(* verifydir passes on every directory of a regular registry.                  *)
LEMMA RegularDirs ==
  ASSUME recs \in Registry, Regular(recs, nrec, rname), OnlyRootNameless, NEW pid \in Dirs(recs)
  PROVE  VerifyDir(pid)
<1>1. PICK N, pos, end, par, M, place : Numbered(recs, nrec, N, pos, end, par, M, place)
  BY DEF Regular, Whole
<1>2. PICK T : T = Active(recs)
  OBVIOUS
<1>3. /\ TreeWhole(recs, T, N, pos, end, par) /\ ListWhole(recs, Spares(recs, nrec), M, place)
      /\ N + M = nrec /\ nrec \in 2 .. MaxRec /\ MaxRec \in Nat
      /\ T \subseteq Ids /\ pid \in T /\ recs[pid].isdir
  BY <1>1, <1>2, MaxRecAssumption DEF Numbered, Regular, Whole, Shared, Dirs, Active
<1>4. N < MaxRec /\ pid # 0
  <2>1. N \in 0 .. MaxRec /\ M \in 0 .. MaxRec /\ 1 \in 1 .. M
    BY <1>3 DEF TreeWhole, TreeNumbered, ListWhole
  <2>2. 0 \notin T
    BY <1>3 DEF TreeWhole, TreeNumbered
  <2> QED BY <1>3, <2>1, <2>2
<1>5. PICK chain : chain = Chain(recs, pid) /\ Entries(recs, T, par, pid, chain)
  BY <1>3, <1>4, ChainEntries
<1>6. \A r \in T \ {ROOT} : NameOf(r) # 0
  BY <1>2 DEF OnlyRootNameless
<1>7. \A r \in T \ {ROOT} :
        NextSibling(recs, r) # 0 => NameOf(r) < NameOf(NextSibling(recs, r))
  <2>1. Named(recs, rname)
    BY <1>2, <1>6 DEF Named, NameOf
  <2> QED BY <1>2, <2>1 DEF Regular, Ordered, NameOf
<1>8. ASSUME NEW n \in 0 .. MaxRec, chain[n] # 0
      PROVE  /\ NameOf(chain[n]) # 0
             /\ recs[chain[n]].islast => recs[chain[n]].next = pid
             /\ n > 0 => NameOf(chain[n - 1]) < NameOf(chain[n])
  <2>1. EntryOf(T, par, pid, chain[n])
    BY <1>5, <1>8 DEF Entries
  <2>2. PICK r \in T \ {ROOT} : r = chain[n] /\ par[r] = pid
    BY <2>1 DEF EntryOf
  <2>3. recs[r].islast => recs[r].next = pid
    <3>1. LoopsBack(recs, par, r)
      BY <1>3 DEF TreeWhole, NodeLinked
    <3> QED BY <1>4, <2>2, <3>1 DEF LoopsBack
  <2>4. ASSUME n > 0 PROVE NameOf(chain[n - 1]) < NameOf(chain[n])
    <3>1. n \in 1 .. MaxRec /\ n - 1 \in 0 .. MaxRec
      BY <1>3, <2>4
    <3>2. chain[n] = IF chain[n - 1] = 0 THEN 0 ELSE NextSibling(recs, chain[n - 1])
      BY <1>5, <3>1 DEF Entries
    <3>3. chain[n - 1] # 0 /\ chain[n] = NextSibling(recs, chain[n - 1])
      BY <1>8, <3>2
    <3>4. EntryOf(T, par, pid, chain[n - 1])
      BY <1>5, <3>1, <3>3 DEF Entries
    <3>5. chain[n - 1] \in T \ {ROOT}
      BY <3>4 DEF EntryOf
    <3> QED BY <1>7, <1>8, <3>3, <3>5
  <2> QED BY <1>6, <2>2, <2>3, <2>4
<1> QED BY <1>3, <1>5, <1>8 DEF VerifyDir

(* What verifyrec and verifydir test holds of every loaded root whose        *)
(* entries all have names, for every number of records and after every       *)
(* operation, not only where verifyrec is asked: the two lists of records    *)
(* are whole and share out the vector, siblings ascend, and the last one     *)
(* leads back to its directory.  (Root::verifyrec, Root::verifydir.)         *)
THEOREM RegistryWellFormedAlways == Spec => []RegistryWellFormed
<1>1. StoreInv => RegistryWellFormed
  <2> SUFFICES ASSUME StoreInv, mode = "up", OnlyRootNameless
               PROVE  /\ VerifyRec(recs, nrec, rname) = "ok"
                      /\ \A pid \in Dirs(recs) : VerifyDir(pid)
    BY DEF RegistryWellFormed
  <2>1. recs \in Registry /\ Regular(recs, nrec, rname) /\ rname \in Seq(Names \cup {0})
    BY StoreTypes DEF StoreInv, InMemory
  <2>2. VerifyRec(recs, nrec, rname) = "ok"
    <3>1. Len(rname) \in Nat
      BY <2>1, LenProperties
    <3> QED BY <2>1, <3>1, WholeVerifies DEF Regular, NamesIn
  <2> QED BY <2>1, <2>2, RegularDirs
<1> QED BY <1>1, StoreInvAlways, PTL

(* verifyrec follows links without a bound and tests none of them, yet no   *)
(* loop that it can enter is ever on disk: on the files that a stop leaves    *)
(* between any two writes of an operation it says yes or no, for every number *)
(* of records, and reads no record outside the vector.  The exception is a    *)
(* stop that cut off an append, where a record on disk is linked to the slot *)
(* behind the vector; of those files nothing is claimed.  (Root::load,       *)
(* Root::verifyrec.)                                                        *)
THEOREM VerifyAlwaysEnds == Spec => []VerifyEnds
<1>1. StoreInv => VerifyEnds
  <2> SUFFICES ASSUME StoreInv, SavedFiles, ~AppendCut(drecs, dnrec)
               PROVE  VerifyRec(drecs, dnrec, drname) \in {"ok", "bad"}
    BY DEF VerifyEnds
  <2>1. drname \in Seq(Names \cup {0}) /\ Fine(drecs, dnrec, drname)
    BY StoreTypes DEF StoreInv, OnDisk, SavedFiles
  <2>2. CASE Regular(drecs, dnrec, drname)
    <3>1. Len(drname) \in Nat
      BY <2>1, LenProperties
    <3>2. VerifyRec(drecs, dnrec, drname) = "ok"
      BY <2>2, <3>1, WholeVerifies DEF Regular, NamesIn
    <3> QED BY <3>2
  <2>3. CASE Rejected(drecs, dnrec)
    BY <2>1, <2>3, RejectedVerdict
  <2> QED BY <2>1, <2>2, <2>3 DEF Fine
<1> QED BY <1>1, StoreInvAlways, PTL


-----------------------------------------------------------------------------
(***************************************************************************)
(* The tree that RootStoreTree reads off a registry.  The entries of a       *)
(* directory are those that findRecord walks, siblings have different names, *)
(* and so the recursion that defines paths has one solution, in which no two *)
(* records have the same path.                                              *)
(***************************************************************************)
LEMMA EntriesReached ==
  ASSUME NEW R, NEW T, NEW N, NEW pos, NEW end, NEW par,
         TreeWhole(R, T, N, pos, end, par), N < MaxRec, NEW pid \in T, R[pid].isdir
  PROVE  \A r \in T : EntryOf(T, par, pid, r) <=> r \in Children(R, pid)
<1>1. PICK f : f = Chain(R, pid) /\ Entries(R, T, par, pid, f)
  BY ChainEntries
<1>2. /\ MaxRec \in Nat /\ N \in Nat /\ 0 \notin T
      /\ \A q \in T : pos[q] \in Nat /\ end[q] \in Nat /\ pos[q] <= end[q]
      /\ \A r \in T : pos[par[r]] < pos[r] /\ end[r] <= end[par[r]]
      /\ \A q, r \in T : pos[q] <= pos[r] /\ pos[r] <= end[q] /\ q # r => pos[q] <= pos[par[r]]
      /\ \A r \in T : FirstLink(R, T, pos, end, par, r) /\ NextLink(R, T, pos, end, par, r)
  BY MaxRecAssumption DEF TreeWhole, TreeNumbered, NodeLinked
<1>3. ASSUME NEW r \in T, r \in Children(R, pid) PROVE EntryOf(T, par, pid, r)
  <2>1. PICK k \in 0 .. MaxRec : f[k] = r
    BY <1>1, <1>3 DEF Children
  <2> QED BY <1>1, <1>2, <2>1 DEF Entries
<1>4. ASSUME NEW r \in T, EntryOf(T, par, pid, r) PROVE r \in Children(R, pid)
  <2> DEFINE Passed(k) == f[k] # 0 /\ pos[f[k]] <= pos[r]
             U == {k \in 0 .. MaxRec : ~Passed(k)}
  <2>1. par[r] = pid /\ r # ROOT
    BY <1>4 DEF EntryOf
  <2>2. Passed(0)
    <3>1. FirstLink(R, T, pos, end, par, pid)
      BY <1>2
    <3>2. pos[pid] < pos[r] /\ pos[r] <= end[r] /\ end[r] <= end[pid]
      BY <1>2, <2>1
    <3>3. end[pid] # pos[pid]
      BY <1>2, <3>2
    <3>4. R[pid].sub \in T /\ pos[R[pid].sub] = pos[pid] + 1
      BY <3>1, <3>3 DEF FirstLink
    <3>5. f[0] = R[pid].sub
      BY <1>1 DEF Entries
    <3> QED BY <1>2, <3>2, <3>4, <3>5
  <2>3. U # {} /\ U \in SUBSET Nat
    BY <1>1, <1>2 DEF Entries
  <2>4. PICK u \in U : \A v \in U : u <= v
    <3> HIDE DEF U
    <3> QED BY <2>3, Least
  <2>5. u \in 1 .. MaxRec /\ u - 1 \in 0 .. MaxRec /\ u - 1 \notin U
    BY <1>2, <2>2, <2>4
  <2>6. PICK q : q = f[u - 1] /\ q # 0 /\ pos[q] <= pos[r]
    BY <2>5
  <2>7. EntryOf(T, par, pid, q)
    BY <1>1, <2>5, <2>6 DEF Entries
  <2>8. q \in T /\ par[q] = pid /\ NextLink(R, T, pos, end, par, q)
    BY <1>2, <2>7 DEF EntryOf
  <2>9. f[u] = NextSibling(R, q)
    BY <1>1, <2>5, <2>6 DEF Entries
  <2>10. pos[r] <= end[q]
    <3>1. CASE NextSibling(R, q) = 0
      BY <1>2, <2>1, <2>8, <3>1 DEF NextLink
    <3>2. CASE NextSibling(R, q) # 0
      <4>1. PICK s : s = NextSibling(R, q)
        OBVIOUS
      <4>2. s \in T /\ pos[s] = end[q] + 1
        BY <2>8, <3>2, <4>1 DEF NextLink
      <4>3. ~(pos[s] <= pos[r])
        BY <2>4, <2>9, <3>2, <4>1
      <4> QED BY <1>2, <2>8, <4>2, <4>3
    <3> QED BY <3>1, <3>2
  <2>11. q = r
    <3>1. pos[pid] < pos[q]
      BY <1>2, <2>8
    <3>2. q # r => pos[q] <= pos[pid]
      BY <1>2, <2>1, <2>6, <2>8, <2>10
    <3> QED BY <1>2, <2>8, <3>1, <3>2
  <2>12. r = Chain(R, pid)[u - 1] /\ r # 0
    BY <1>1, <2>6, <2>11
  <2> QED BY <2>5, <2>12 DEF Children
<1> QED BY <1>3, <1>4


(* Siblings of a directory in ascending order have different names.          *)
Ascending(R, T, nm) ==
  \A r \in T \ {ROOT} : NextSibling(R, r) # 0 => nm[r] < nm[NextSibling(R, r)]

Apart(T, par, nm) ==
  \A r, s \in T \ {ROOT} : par[r] = par[s] /\ nm[r] = nm[s] => r = s

(* Every record but the root is in a directory of the tree.                  *)
LEMMA HasDirectory ==
  ASSUME NEW R, NEW T, NEW N, NEW pos, NEW end, NEW par,
         TreeWhole(R, T, N, pos, end, par), NextSibling(R, ROOT) = 0, NEW r \in T \ {ROOT}
  PROVE  par[r] \in T /\ R[par[r]].isdir /\ EntryOf(T, par, par[r], r)
<1>1. /\ N \in Nat /\ 0 \notin T /\ ROOT \in T /\ r \in T /\ r # ROOT
      /\ pos[0] = 0 /\ pos[ROOT] = 1 /\ end[0] = N /\ par[ROOT] = 0
      /\ \A q \in T \cup {0} : pos[q] \in Nat /\ end[q] \in Nat /\ pos[q] <= N
      /\ \A q \in T : par[q] \in T \cup {0} /\ pos[par[q]] < pos[q] /\ pos[q] <= end[q]
      /\ \A q \in T : end[q] <= end[par[q]]
      /\ \A q, t \in T \cup {0} : pos[q] = pos[t] => q = t
      /\ \A q, t \in T : pos[q] <= pos[t] /\ pos[t] <= end[q] /\ q # t => pos[q] <= pos[par[t]]
  BY MaxRecAssumption DEF TreeWhole, TreeNumbered
<1>2. \A q \in T : FirstLink(R, T, pos, end, par, q) /\ NextLink(R, T, pos, end, par, q)
  BY DEF TreeWhole, NodeLinked
<1>3. end[ROOT] = N
  <2>1. NextLink(R, T, pos, end, par, ROOT)
    BY <1>1, <1>2
  <2> QED BY <1>1, <2>1 DEF NextLink
<1>4. par[r] # 0
  <2>1. pos[r] # pos[ROOT] /\ pos[r] # pos[0] /\ pos[r] \in Nat
    BY <1>1
  <2>2. pos[ROOT] <= pos[r] /\ pos[r] <= end[ROOT]
    BY <1>1, <1>3, <2>1
  <2>3. pos[ROOT] <= pos[par[r]]
    BY <1>1, <2>2
  <2> QED BY <1>1, <2>3
<1>5. PICK pid \in T : pid = par[r]
  BY <1>1, <1>4
<1>6. R[pid].isdir
  <2>1. FirstLink(R, T, pos, end, par, pid)
    BY <1>2
  <2>2. pos[pid] < pos[r] /\ pos[r] <= end[r] /\ end[r] <= end[pid]
    BY <1>1, <1>5
  <2>3. end[pid] # pos[pid]
    <3>1. pos[pid] \in Nat /\ pos[r] \in Nat /\ end[r] \in Nat /\ end[pid] \in Nat
      BY <1>1
    <3> QED BY <2>2, <3>1
  <2> QED BY <2>1, <2>3 DEF FirstLink
<1> QED BY <1>5, <1>6 DEF EntryOf

LEMMA SiblingsApart ==
  ASSUME NEW R, NEW T, NEW N, NEW pos, NEW end, NEW par,
         TreeWhole(R, T, N, pos, end, par), NextSibling(R, ROOT) = 0, N < MaxRec,
         NEW nm, \A r \in T : nm[r] \in Nat, Ascending(R, T, nm)
  PROVE  Apart(T, par, nm)
<1> SUFFICES ASSUME NEW r \in T \ {ROOT}, NEW s \in T \ {ROOT}, par[r] = par[s], nm[r] = nm[s]
             PROVE  r = s
  BY DEF Apart
<1>0. MaxRec \in Nat
  BY MaxRecAssumption
<1>1. PICK pid : pid = par[r]
  OBVIOUS
<1>2. pid \in T /\ R[pid].isdir /\ EntryOf(T, par, pid, r)
  BY <1>1, HasDirectory
<1>3. EntryOf(T, par, pid, s)
  BY <1>1, HasDirectory
<1>4. PICK f : f = Chain(R, pid) /\ Entries(R, T, par, pid, f)
  BY <1>2, ChainEntries
<1>5. PICK i \in 0 .. MaxRec, j \in 0 .. MaxRec : f[i] = r /\ f[j] = s /\ r # 0 /\ s # 0
  <2>1. r \in Children(R, pid) /\ s \in Children(R, pid)
    BY <1>2, <1>3, EntriesReached
  <2> QED BY <1>4, <2>1 DEF Children
<1> DEFINE Climbs(k) == \A m \in 0 .. k - 1 : f[k] # 0 => f[m] # 0 /\ nm[f[m]] < nm[f[k]]
           U == {k \in 0 .. MaxRec : Climbs(k)}
<1>6. 0 \in U
  BY <1>0
<1>7. \A k \in 1 .. MaxRec : k - 1 \in U => k \in U
  <2> TAKE k \in 1 .. MaxRec
  <2> HAVE k - 1 \in U
  <2> SUFFICES ASSUME NEW m \in 0 .. k - 1, f[k] # 0
               PROVE  f[m] # 0 /\ nm[f[m]] < nm[f[k]]
    BY <1>0
  <2>1. k - 1 \in 0 .. MaxRec
    BY <1>0
  <2>2. f[k - 1] # 0 /\ f[k] = NextSibling(R, f[k - 1])
    BY <1>4 DEF Entries
  <2>3. EntryOf(T, par, pid, f[k - 1]) /\ EntryOf(T, par, pid, f[k])
    BY <1>4, <2>1, <2>2 DEF Entries
  <2>4. nm[f[k - 1]] < nm[f[k]] /\ nm[f[k - 1]] \in Nat /\ nm[f[k]] \in Nat
    BY <2>2, <2>3 DEF EntryOf, Ascending
  <2>5. CASE m = k - 1
    BY <2>2, <2>4, <2>5
  <2>6. CASE m # k - 1
    <3>1. m \in 0 .. (k - 1) - 1 /\ m \in 0 .. MaxRec
      BY <1>0, <2>6
    <3>2. f[m] # 0 /\ nm[f[m]] < nm[f[k - 1]]
      BY <2>2, <3>1
    <3>3. EntryOf(T, par, pid, f[m])
      BY <1>4, <3>1, <3>2 DEF Entries
    <3>4. nm[f[m]] \in Nat
      BY <3>3 DEF EntryOf
    <3> QED BY <2>4, <3>2, <3>4
  <2> QED BY <2>5, <2>6
<1>8. \A k \in 0 .. MaxRec : Climbs(k)
  <2> HIDE DEF Climbs
  <2>1. \A k \in 0 .. MaxRec : k \in U
    <3> HIDE DEF U
    <3> QED BY <1>0, <1>6, <1>7, Induct
  <2> QED BY <2>1
<1>9. nm[r] \in Nat
  OBVIOUS
<1>10. ~(i < j)
  <2>1. i < j => i \in 0 .. j - 1
    BY <1>0
  <2> QED BY <1>5, <1>8, <1>9, <2>1
<1>11. ~(j < i)
  <2>1. j < i => j \in 0 .. i - 1
    BY <1>0
  <2> QED BY <1>5, <1>8, <1>9, <2>1
<1> QED BY <1>0, <1>5, <1>10, <1>11

(***************************************************************************)
(* Paths by the directory of each record.                                    *)
(***************************************************************************)
Descends(T, par, pos) ==
  /\ ROOT \in T /\ \A r \in T : pos[r] \in Nat
  /\ \A r \in T \ {ROOT} : par[r] \in T /\ pos[par[r]] < pos[r]

Paths(T, par, nm, f) ==
  /\ f \in [T -> Seq(Nat)] /\ f[ROOT] = <<>>
  /\ \A r \in T \ {ROOT} : f[r] = Append(f[par[r]], nm[r])

(* The least record of those for which something does not hold.              *)
LEMMA Highest ==
  ASSUME NEW T, NEW pos, \A r \in T : pos[r] \in Nat, NEW B, B \subseteq T, B # {}
  PROVE  \E r \in B : \A s \in T : pos[s] < pos[r] => s \notin B
<1> DEFINE U == {pos[r] : r \in B}
<1>1. U \in SUBSET Nat /\ U # {}
  OBVIOUS
<1>2. PICK x \in U : \A y \in U : x <= y
  <2> HIDE DEF U
  <2> QED BY <1>1, Least
<1>3. PICK r \in B : pos[r] = x
  BY <1>2
<1>4. ASSUME NEW s \in T, pos[s] < pos[r], s \in B PROVE FALSE
  <2>1. pos[s] \in U /\ pos[s] \in Nat /\ x \in Nat
    BY <1>1, <1>2, <1>4
  <2> QED BY <1>2, <1>3, <1>4, <2>1
<1> QED BY <1>3, <1>4

LEMMA PathsExist ==
  ASSUME NEW T, NEW par, NEW pos, Descends(T, par, pos), NEW N \in Nat, \A r \in T : pos[r] <= N,
         NEW nm, \A r \in T : nm[r] \in Nat
  PROVE  \E f : Paths(T, par, nm, f)
<1> DEFINE Found(k) == \E f \in [T -> Seq(Nat)] :
             /\ f[ROOT] = <<>>
             /\ \A r \in T \ {ROOT} : pos[r] <= k => f[r] = Append(f[par[r]], nm[r])
           U == {k \in 0 .. N : Found(k)}
<1>1. /\ ROOT \in T /\ \A r \in T : pos[r] \in Nat
      /\ \A r \in T \ {ROOT} : par[r] \in T /\ pos[par[r]] < pos[r]
  BY DEF Descends
<1>2. Found(0)
  <2> DEFINE f == [r \in T |-> <<>>]
  <2>1. <<>> \in Seq(Nat)
    BY EmptySeq
  <2>2. f \in [T -> Seq(Nat)] /\ f[ROOT] = <<>>
    BY <1>1, <2>1
  <2>3. \A r \in T \ {ROOT} : ~(pos[r] <= 0)
    <3> TAKE r \in T \ {ROOT}
    <3>1. pos[r] \in Nat /\ pos[par[r]] \in Nat /\ pos[par[r]] < pos[r]
      BY <1>1
    <3> QED BY <3>1
  <2> HIDE DEF f
  <2> QED BY <2>2, <2>3
<1>3. ASSUME NEW k \in 1 .. N, Found(k - 1) PROVE Found(k)
  <2>1. PICK f \in [T -> Seq(Nat)] :
          /\ f[ROOT] = <<>>
          /\ \A r \in T \ {ROOT} : pos[r] <= k - 1 => f[r] = Append(f[par[r]], nm[r])
    BY <1>3
  <2> DEFINE g == [r \in T |-> IF pos[r] = k /\ r # ROOT THEN Append(f[par[r]], nm[r]) ELSE f[r]]
  <2>2. g \in [T -> Seq(Nat)]
    <3>1. ASSUME NEW r \in T \ {ROOT} PROVE Append(f[par[r]], nm[r]) \in Seq(Nat)
      <4>1. f[par[r]] \in Seq(Nat) /\ nm[r] \in Nat
        BY <1>1
      <4> QED BY <4>1, AppendProperties
    <3> QED BY <3>1
  <2>3. /\ g[ROOT] = <<>>
        /\ \A r \in T : r = ROOT \/ pos[r] # k => g[r] = f[r]
        /\ \A r \in T \ {ROOT} : pos[r] = k => g[r] = Append(f[par[r]], nm[r])
    BY <1>1, <2>1
  <2> HIDE DEF g
  <2>4. ASSUME NEW r \in T \ {ROOT}, pos[r] <= k PROVE g[r] = Append(g[par[r]], nm[r])
    <3>1. par[r] \in T /\ pos[par[r]] \in Nat /\ pos[r] \in Nat /\ pos[par[r]] < pos[r] /\ k \in Nat
      BY <1>1
    <3>2. g[par[r]] = f[par[r]]
      BY <2>3, <2>4, <3>1
    <3>3. CASE pos[r] = k
      BY <2>3, <3>2, <3>3
    <3>4. CASE pos[r] # k
      <4>1. pos[r] <= k - 1
        BY <2>4, <3>1, <3>4
      <4> QED BY <2>1, <2>3, <3>2, <3>4, <4>1
    <3> QED BY <3>3, <3>4
  <2> QED BY <2>2, <2>3, <2>4
<1>4. Found(N)
  <2> HIDE DEF Found
  <2>1. 0 \in U /\ \A k \in 1 .. N : k - 1 \in U => k \in U
    BY <1>2, <1>3
  <2>2. N \in U
    <3> HIDE DEF U
    <3> QED BY <2>1, Induct
  <2> QED BY <2>2
<1>5. PICK f \in [T -> Seq(Nat)] :
        f[ROOT] = <<>> /\ \A r \in T \ {ROOT} : pos[r] <= N => f[r] = Append(f[par[r]], nm[r])
  BY <1>4
<1> QED BY <1>5 DEF Paths

(* A record has the path that its directories and names give it.             *)
Spelled(T, par, nm, f) == \A r \in T \ {ROOT} : f[r] = Append(f[par[r]], nm[r])

LEMMA PathsAgree ==
  ASSUME NEW T, NEW par, NEW pos, Descends(T, par, pos), NEW nm,
         NEW f, NEW g, f[ROOT] = g[ROOT], Spelled(T, par, nm, f), Spelled(T, par, nm, g)
  PROVE  \A r \in T : g[r] = f[r]
<1> DEFINE B == {r \in T : g[r] # f[r]}
<1> SUFFICES ASSUME B # {} PROVE FALSE
  OBVIOUS
<1>1. \A r \in T : pos[r] \in Nat
  BY DEF Descends
<1>2. PICK r \in B : \A s \in T : pos[s] < pos[r] => s \notin B
  <2>1. B \subseteq T
    OBVIOUS
  <2> HIDE DEF B
  <2> QED BY <1>1, <2>1, Highest
<1>3. r \in T \ {ROOT}
  OBVIOUS
<1>4. par[r] \in T /\ pos[par[r]] < pos[r]
  BY <1>3 DEF Descends
<1>5. g[par[r]] = f[par[r]]
  BY <1>2, <1>4
<1>6. g[r] = Append(g[par[r]], nm[r]) /\ f[r] = Append(f[par[r]], nm[r])
  BY <1>3 DEF Spelled
<1> QED BY <1>5, <1>6

LEMMA PathsDiffer ==
  ASSUME NEW T, NEW par, NEW pos, Descends(T, par, pos), NEW nm, \A r \in T : nm[r] \in Nat,
         Apart(T, par, nm), NEW f, Paths(T, par, nm, f)
  PROVE  \A r, s \in T : f[r] = f[s] => r = s
<1> DEFINE B == {r \in T : \E s \in T : f[r] = f[s] /\ r # s}
<1> SUFFICES ASSUME B # {} PROVE FALSE
  OBVIOUS
<1>1. \A r \in T : pos[r] \in Nat
  BY DEF Descends
<1>2. PICK r \in B : \A s \in T : pos[s] < pos[r] => s \notin B
  <2>1. B \subseteq T
    OBVIOUS
  <2> HIDE DEF B
  <2> QED BY <1>1, <2>1, Highest
<1>3. PICK s \in T : f[r] = f[s] /\ r # s /\ r \in T
  OBVIOUS
<1>4. \A q \in T \ {ROOT} : /\ f[q] = Append(f[par[q]], nm[q]) /\ f[q] # <<>>
                            /\ par[q] \in T /\ f[par[q]] \in Seq(Nat) /\ nm[q] \in Nat
  <2> TAKE q \in T \ {ROOT}
  <2>1. f[q] = Append(f[par[q]], nm[q]) /\ par[q] \in T /\ f[par[q]] \in Seq(Nat) /\ nm[q] \in Nat
    BY DEF Paths, Descends
  <2> QED BY <2>1, AppendProperties, SMTT(60)
<1>5. f[ROOT] = <<>>
  BY DEF Paths
<1>6. r \in T \ {ROOT} /\ s \in T \ {ROOT}
  BY <1>3, <1>4, <1>5
<1>7. f[par[r]] = f[par[s]] /\ nm[r] = nm[s]
  <2>1. PICK a \in Seq(Nat), b \in Seq(Nat), x \in Nat, y \in Nat :
          a = f[par[r]] /\ b = f[par[s]] /\ x = nm[r] /\ y = nm[s]
    BY <1>4, <1>6
  <2>2. Append(a, x) = Append(b, y)
    BY <1>3, <1>4, <1>6, <2>1
  <2>3. a = b /\ x = y
    BY <2>2, AppendInjective
  <2> QED BY <2>1, <2>3
<1>8. par[r] = par[s]
  <2>1. par[r] \in T /\ par[s] \in T /\ pos[par[r]] < pos[r]
    BY <1>6 DEF Descends
  <2>2. par[r] \notin B
    BY <1>2, <2>1
  <2> QED BY <1>7, <2>1, <2>2
<1> QED BY <1>3, <1>6, <1>7, <1>8 DEF Apart

(***************************************************************************)
(* PathsOf is the solution of that recursion.                                *)
(***************************************************************************)
ChildLists(R) == [p \in Dirs(R) |-> Children(R, p)]

DirOf(R, children, r) == CHOOSE p \in Dirs(R) : r \in children[p]

IsPathsOf(R, names, children, g) ==
  g = [r \in Active(R) |->
         IF r = ROOT THEN <<>>
         ELSE Append(g[DirOf(R, children, r)], NameAt(names, R[r].name))]

LEMMA TreeRead ==
  ASSUME NEW R \in Registry, NEW names \in Seq(Names \cup {0}), NEW T, T = Active(R),
         NEW N, NEW pos, NEW end, NEW par, TreeWhole(R, T, N, pos, end, par), N < MaxRec,
         NextSibling(R, ROOT) = 0, NEW nm, nm = NameTable(R, names)
  PROVE  /\ Descends(T, par, pos) /\ \A r \in T : pos[r] <= N /\ nm[r] \in Nat
         /\ Paths(T, par, nm, PathsOf(R, names))
<1>1. /\ ROOT \in T /\ N \in Nat /\ \A r \in T : pos[r] \in Nat /\ pos[r] <= N
      /\ \A r \in T : pos[par[r]] < pos[r] /\ r \in Ids
  BY MaxRecAssumption DEF TreeWhole, TreeNumbered
<1>2. \A r \in T \ {ROOT} : par[r] \in T /\ R[par[r]].isdir /\ EntryOf(T, par, par[r], r)
  BY HasDirectory
<1>3. Descends(T, par, pos)
  BY <1>1, <1>2 DEF Descends
<1>4. \A r \in T : nm[r] = NameAt(names, R[r].name) /\ nm[r] \in Nat
  <2> TAKE r \in T
  <2>1. R[r].name \in Nat
    BY <1>1 DEF Registry, RecordItem
  <2> QED BY <1>1, <2>1, NameAtFacts DEF NameTable
<1>5. PICK f : Paths(T, par, nm, f)
  BY <1>1, <1>3, <1>4, PathsExist
<1>6. PICK children : children = ChildLists(R)
  OBVIOUS
<1>7. ASSUME NEW r \in T \ {ROOT} PROVE DirOf(R, children, r) = par[r]
  <2>1. \A p \in Dirs(R) : r \in children[p] <=> par[r] = p
    <3> TAKE p \in Dirs(R)
    <3>1. p \in T /\ R[p].isdir /\ children[p] = Children(R, p)
      BY <1>6 DEF ChildLists, Dirs
    <3>2. EntryOf(T, par, p, r) <=> r \in Children(R, p)
      BY <3>1, EntriesReached
    <3> QED BY <3>1, <3>2 DEF EntryOf
  <2>2. par[r] \in Dirs(R)
    BY <1>2 DEF Dirs
  <2> QED BY <2>1, <2>2 DEF DirOf
<1>8. \A g : IsPathsOf(R, names, children, g) <=>
        g = [r \in T |-> IF r = ROOT THEN <<>> ELSE Append(g[par[r]], nm[r])]
  <2> TAKE g
  <2>1. \A r \in T : (IF r = ROOT THEN <<>>
                      ELSE Append(g[DirOf(R, children, r)], NameAt(names, R[r].name)))
                     = (IF r = ROOT THEN <<>> ELSE Append(g[par[r]], nm[r]))
    BY <1>4, <1>7
  <2> QED BY <2>1 DEF IsPathsOf
<1>9. IsPathsOf(R, names, children, f)
  <2>1. f = [r \in T |-> IF r = ROOT THEN <<>> ELSE Append(f[par[r]], nm[r])]
    BY <1>5 DEF Paths
  <2> QED BY <1>8, <2>1
<1>10. PICK g : g = PathsOf(R, names)
  OBVIOUS
<1>11. IsPathsOf(R, names, children, g)
  <2>1. PathsOf(R, names) = CHOOSE h : IsPathsOf(R, names, ChildLists(R), h)
    BY DEF PathsOf, IsPathsOf, ChildLists, DirOf
  <2> QED BY <1>6, <1>9, <1>10, <2>1
<1>12. /\ g = [r \in T |-> IF r = ROOT THEN <<>> ELSE Append(g[par[r]], nm[r])]
       /\ g[ROOT] = <<>> /\ \A r \in T \ {ROOT} : g[r] = Append(g[par[r]], nm[r])
  <2>1. g = [r \in T |-> IF r = ROOT THEN <<>> ELSE Append(g[par[r]], nm[r])]
    BY <1>8, <1>11
  <2> QED BY <1>1, <2>1
<1>13. f[ROOT] = g[ROOT] /\ \A r \in T \ {ROOT} : f[r] = Append(f[par[r]], nm[r])
  BY <1>5, <1>12 DEF Paths
<1>14. \A r \in T : g[r] = f[r]
  <2>1. Spelled(T, par, nm, g) /\ Spelled(T, par, nm, f) /\ f[ROOT] = g[ROOT]
    BY <1>12, <1>13 DEF Spelled
  <2> QED BY <1>3, <2>1, PathsAgree
<1>15. g = f
  BY <1>5, <1>12, <1>14 DEF Paths
<1> QED BY <1>1, <1>3, <1>4, <1>5, <1>10, <1>15

(* Two entries of a registry in which every entry has a name have different  *)
(* paths.                                                                    *)
LEMMA PathsApart ==
  ASSUME NEW R \in Registry, NEW names \in Seq(Names \cup {0}), NEW T, T = Active(R),
         NEW N, NEW pos, NEW end, NEW par, TreeWhole(R, T, N, pos, end, par), N < MaxRec,
         NextSibling(R, ROOT) = 0, Ordered(R, names)
  PROVE  \A r, s \in T : PathsOf(R, names)[r] = PathsOf(R, names)[s] => r = s
<1>1. PICK nm, f : nm = NameTable(R, names) /\ f = PathsOf(R, names)
  OBVIOUS
<1>2. Descends(T, par, pos) /\ (\A r \in T : nm[r] \in Nat) /\ Paths(T, par, nm, f)
  BY <1>1, TreeRead
<1>3. Ascending(R, T, nm)
  <2> SUFFICES ASSUME NEW r \in T \ {ROOT}, NextSibling(R, r) # 0
               PROVE  nm[r] < nm[NextSibling(R, r)]
    BY DEF Ascending
  <2>1. PICK s : s = NextSibling(R, r)
    OBVIOUS
  <2>2. s \in T /\ r \in Ids /\ s \in Ids
    BY <2>1, NextIn DEF Active
  <2> QED BY <1>1, <2>1, <2>2 DEF Ordered, NameTable
<1>4. Apart(T, par, nm)
  BY <1>2, <1>3, SiblingsApart
<1> QED BY <1>1, <1>2, <1>4, PathsDiffer

(* Nothing is below the path of a record without entries.                    *)
LEMMA ShorterPath ==
  ASSUME NEW a \in Seq(Nat), NEW x \in Nat, NEW k \in 0 .. Len(a)
  PROVE  /\ Len(Append(a, x)) = Len(a) + 1
         /\ SubSeq(Append(a, x), 1, k) = SubSeq(a, 1, k) /\ SubSeq(a, 1, Len(a)) = a
<1>1. /\ Append(a, x) \in Seq(Nat) /\ Len(Append(a, x)) = Len(a) + 1 /\ Len(a) \in Nat
      /\ \A i \in 1 .. Len(a) : Append(a, x)[i] = a[i]
  BY AppendProperties, LenProperties
<1>2. a \in [1 .. Len(a) -> Nat]
  BY LenProperties
<1>3. SubSeq(a, 1, Len(a)) = a
  <2>1. SubSeq(a, 1, Len(a)) = [i \in 1 .. Len(a) |-> a[1 + i - 1]]
    BY <1>1 DEF SubSeq
  <2> QED BY <1>1, <1>2, <2>1
<1>4. SubSeq(Append(a, x), 1, k) = SubSeq(a, 1, k)
  <2> QED BY <1>1 DEF SubSeq
<1> QED BY <1>1, <1>3, <1>4

LEMMA Room ==
  ASSUME NEW R, NEW size, NEW names, Regular(R, size, names),
         NEW N, NEW pos, NEW end, NEW par, NEW M, NEW place,
         Numbered(R, size, N, pos, end, par, M, place)
  PROVE  /\ TreeWhole(R, Active(R), N, pos, end, par) /\ N < MaxRec
         /\ R \in Registry /\ NextSibling(R, ROOT) = 0 /\ ROOT \in Active(R)
<1>1. /\ TreeWhole(R, Active(R), N, pos, end, par) /\ ListWhole(R, Spares(R, size), M, place)
      /\ N + M = size /\ MaxRec \in Nat /\ size \in 2 .. MaxRec /\ R \in Registry
  BY MaxRecAssumption DEF Numbered, Regular, Whole, Shared
<1>2. N \in 0 .. MaxRec /\ M \in 0 .. MaxRec /\ 1 \in 1 .. M /\ ROOT \in Active(R)
  BY <1>1 DEF TreeWhole, TreeNumbered, ListWhole
<1> QED BY <1>1, <1>2 DEF Regular

(* Entries with the same records and names in the same directories have the  *)
(* same paths.                                                               *)
LEMMA PathsKept ==
  ASSUME NEW R \in Registry, NEW names \in Seq(Names \cup {0}), NEW T, T = Active(R),
         NEW N, NEW pos, NEW end, NEW par, TreeWhole(R, T, N, pos, end, par), N < MaxRec,
         NextSibling(R, ROOT) = 0,
         NEW S \in Registry, NEW names1 \in Seq(Names \cup {0}), NEW T1, T1 = Active(S),
         NEW N1, NEW pos1, NEW end1, NEW par1, TreeWhole(S, T1, N1, pos1, end1, par1),
         N1 < MaxRec, NextSibling(S, ROOT) = 0,
         T \subseteq T1, \A r \in T : par1[r] = par[r],
         \A r \in T : NameAt(names1, S[r].name) = NameAt(names, R[r].name)
  PROVE  \A r \in T : PathsOf(S, names1)[r] = PathsOf(R, names)[r]
<1>1. PICK f, g, nm, nm1 : /\ f = PathsOf(R, names) /\ nm = NameTable(R, names)
                           /\ g = PathsOf(S, names1) /\ nm1 = NameTable(S, names1)
  OBVIOUS
<1>2. Descends(T, par, pos) /\ Paths(T, par, nm, f)
  BY <1>1, TreeRead
<1>3. Paths(T1, par1, nm1, g)
  BY <1>1, TreeRead
<1>4. \A r \in T : r \in Ids /\ nm1[r] = nm[r]
  BY <1>1 DEF NameTable, Active
<1>5. Spelled(T, par, nm, f) /\ f[ROOT] = g[ROOT]
  BY <1>2, <1>3 DEF Paths, Spelled
<1>6. Spelled(T, par, nm, g)
  <2> SUFFICES ASSUME NEW r \in T \ {ROOT} PROVE g[r] = Append(g[par[r]], nm[r])
    BY DEF Spelled
  <2>1. g[r] = Append(g[par1[r]], nm1[r])
    BY <1>3 DEF Paths
  <2>2. par1[r] = par[r] /\ nm1[r] = nm[r]
    BY <1>4
  <2> QED BY <2>1, <2>2
<1>7. \A r \in T : g[r] = f[r]
  BY <1>2, <1>5, <1>6, PathsAgree
<1> QED BY <1>1, <1>7

SameNaming(R, names, S, names1) ==
  \A r \in Active(R) : NameAt(names1, S[r].name) = NameAt(names, R[r].name)

(* A registry in which every record is where it was.                         *)
LEMMA TreeKept ==
  ASSUME NEW R, NEW size, NEW names \in Seq(Names \cup {0}), Regular(R, size, names),
         NEW S, NEW names1 \in Seq(Names \cup {0}), Regular(S, size, names1),
         SamePlaces(R, S, size), SameNaming(R, names, S, names1)
  PROVE  Active(S) = Active(R) /\ \A r \in Active(R) : PathsOf(S, names1)[r] = PathsOf(R, names)[r]
<1>1. PICK N, pos, end, par, M, place :
        /\ Numbered(R, size, N, pos, end, par, M, place)
        /\ Numbered(S, size, N, pos, end, par, M, place)
  BY DEF SamePlaces
<1>2. PICK T : T = Active(R)
  OBVIOUS
<1>3. T = Active(S)
  BY <1>2 DEF SamePlaces
<1>4. /\ TreeWhole(R, T, N, pos, end, par) /\ N < MaxRec /\ R \in Registry
      /\ NextSibling(R, ROOT) = 0
  BY <1>1, <1>2, Room
<1>5. TreeWhole(S, T, N, pos, end, par) /\ S \in Registry /\ NextSibling(S, ROOT) = 0
  BY <1>1, <1>3, Room
<1>6. PICK T1, par1 : T1 = T /\ par1 = par
  OBVIOUS
<1>7. \A r \in T : PathsOf(S, names1)[r] = PathsOf(R, names)[r]
  <2>1. /\ T \subseteq T1 /\ (\A r \in T : par1[r] = par[r])
        /\ \A r \in T : NameAt(names1, S[r].name) = NameAt(names, R[r].name)
    BY <1>2, <1>6 DEF SameNaming
  <2>2. T1 = Active(S) /\ TreeWhole(S, T1, N, pos, end, par1)
    BY <1>3, <1>5, <1>6
  <2> QED BY <1>2, <1>4, <1>5, <2>1, <2>2, PathsKept
<1> QED BY <1>2, <1>3, <1>7

(* S has one entry more than R.                                              *)
LEMMA TreeGrown ==
  ASSUME NEW R, NEW size, NEW names \in Seq(Names \cup {0}), Regular(R, size, names),
         NEW S, NEW size1, NEW names1 \in Seq(Names \cup {0}), Regular(S, size1, names1),
         NEW pid, NEW rid, OneMore(R, size, S, size1, pid, rid),
         SameEntries(R, S, Active(R)), SameNaming(R, names, S, names1),
         NEW f, f = PathsOf(R, names), NEW g, g = PathsOf(S, names1)
  PROVE  /\ \A r \in Active(R) : g[r] = f[r]
         /\ g[rid] = Append(g[pid], NameAt(names1, S[rid].name))
         /\ TreeOf(S, names1) = TreeOf(R, names) \cup {EntryFor(S, g, rid)}
         /\ Ordered(S, names1) => \A r \in Active(R) : f[r] # g[rid]
<1>1. PICK N, pos, end, par, M, place, N1, pos1, end1, par1, M1, place1 :
        /\ Numbered(R, size, N, pos, end, par, M, place)
        /\ Numbered(S, size1, N1, pos1, end1, par1, M1, place1)
        /\ (\A r \in Active(R) : par1[r] = par[r]) /\ par1[rid] = pid
  BY DEF OneMore
<1>2. PICK T, T1 : T = Active(R) /\ T1 = Active(S)
  OBVIOUS
<1>3. T1 = T \cup {rid} /\ rid \notin T /\ rid # ROOT
  BY <1>2 DEF OneMore
<1>4. /\ TreeWhole(R, T, N, pos, end, par) /\ N < MaxRec /\ R \in Registry
      /\ NextSibling(R, ROOT) = 0
  BY <1>1, <1>2, Room
<1>5. /\ TreeWhole(S, T1, N1, pos1, end1, par1) /\ N1 < MaxRec /\ S \in Registry
      /\ NextSibling(S, ROOT) = 0
  BY <1>1, <1>2, Room
<1>6. \A r \in T : g[r] = f[r]
  <2>1. /\ T \subseteq T1 /\ (\A r \in T : par1[r] = par[r])
        /\ \A r \in T : NameAt(names1, S[r].name) = NameAt(names, R[r].name)
    BY <1>1, <1>2, <1>3 DEF SameNaming
  <2> QED BY <1>2, <1>4, <1>5, <2>1, PathsKept
<1>7. g[rid] = Append(g[pid], NameAt(names1, S[rid].name))
  <2>1. PICK nm : nm = NameTable(S, names1)
    OBVIOUS
  <2>2. Paths(T1, par1, nm, g)
    BY <1>2, <1>5, <2>1, TreeRead
  <2>3. rid \in T1 \ {ROOT} /\ rid \in Ids
    BY <1>2, <1>3 DEF Active
  <2>4. g[rid] = Append(g[par1[rid]], nm[rid])
    BY <2>2, <2>3 DEF Paths
  <2> QED BY <1>1, <2>1, <2>3, <2>4 DEF NameTable
<1>8. TreeOf(S, names1) = TreeOf(R, names) \cup {EntryFor(S, g, rid)}
  <2>1. \A r \in T : EntryFor(S, g, r) = EntryFor(R, f, r)
    <3> TAKE r \in T
    <3>1. SameEntry(R[r], S[r]) /\ g[r] = f[r]
      BY <1>2, <1>6 DEF SameEntries
    <3> QED BY <3>1 DEF EntryFor, SameEntry
  <2>2. TreeOf(R, names) = {EntryFor(R, f, r) : r \in T \ {ROOT}}
    BY <1>2 DEF TreeOf
  <2>3. TreeOf(S, names1) = {EntryFor(S, g, r) : r \in T1 \ {ROOT}}
    BY <1>2 DEF TreeOf
  <2> QED BY <1>3, <2>1, <2>2, <2>3
<1>9. ASSUME Ordered(S, names1), NEW r \in T, f[r] = g[rid] PROVE FALSE
  <2>1. g[r] = g[rid] /\ r \in T1 /\ rid \in T1 /\ r # rid
    BY <1>3, <1>6, <1>9
  <2>2. \A q, s \in T1 : PathsOf(S, names1)[q] = PathsOf(S, names1)[s] => q = s
    BY <1>2, <1>5, <1>9, PathsApart
  <2> QED BY <2>1, <2>2
<1> QED BY <1>2, <1>6, <1>7, <1>8, <1>9

(* An entry without entries has nothing below its path.                      *)
LEMMA NothingBelow ==
  ASSUME NEW R, NEW size, NEW names \in Seq(Names \cup {0}), Regular(R, size, names),
         Ordered(R, names), NEW f, f = PathsOf(R, names),
         NEW rid \in Active(R), R[rid].isdir => R[rid].sub = 0
  PROVE  \A r \in Active(R) :
           ~(Len(f[r]) > Len(f[rid]) /\ SubSeq(f[r], 1, Len(f[rid])) = f[rid])
<1>1. PICK N, pos, end, par, M, place : Numbered(R, size, N, pos, end, par, M, place)
  BY DEF Regular, Whole
<1>2. PICK T : T = Active(R)
  OBVIOUS
<1>3. /\ TreeWhole(R, T, N, pos, end, par) /\ N < MaxRec /\ R \in Registry
      /\ NextSibling(R, ROOT) = 0 /\ rid \in T
  BY <1>1, <1>2, Room
<1>4. PICK nm : nm = NameTable(R, names)
  OBVIOUS
<1>5. Descends(T, par, pos) /\ Paths(T, par, nm, f) /\ \A r \in T : nm[r] \in Nat
  BY <1>2, <1>3, <1>4, TreeRead
<1>6. \A r, s \in T : f[r] = f[s] => r = s
  BY <1>2, <1>3, PathsApart
<1>7. \A r \in T \ {ROOT} : par[r] # rid
  <2> SUFFICES ASSUME NEW r \in T \ {ROOT}, par[r] = rid PROVE FALSE
    OBVIOUS
  <2>1. FirstLink(R, T, pos, end, par, rid)
    BY <1>3 DEF TreeWhole, NodeLinked
  <2>2. end[rid] = pos[rid]
    BY <2>1 DEF FirstLink
  <2>3. /\ pos[rid] \in Nat /\ pos[r] \in Nat /\ end[r] \in Nat
        /\ pos[rid] < pos[r] /\ pos[r] <= end[r] /\ end[r] <= end[rid]
    BY <1>3 DEF TreeWhole, TreeNumbered
  <2> QED BY <2>2, <2>3
<1> DEFINE p == f[rid]
           B == {r \in T : Len(f[r]) > Len(p) /\ SubSeq(f[r], 1, Len(p)) = p}
<1> SUFFICES ASSUME B # {} PROVE FALSE
  BY <1>2
<1>8. \A r \in T : pos[r] \in Nat
  BY <1>5 DEF Descends
<1>9. PICK r \in B : \A s \in T : pos[s] < pos[r] => s \notin B
  <2>1. B \subseteq T
    OBVIOUS
  <2> HIDE DEF B
  <2> QED BY <1>8, <2>1, Highest
<1>10. p \in Seq(Nat) /\ Len(p) \in Nat
  BY <1>3, <1>5, LenProperties DEF Paths
<1>11. r \in T \ {ROOT}
  <2>1. f[ROOT] = <<>>
    BY <1>5 DEF Paths
  <2>2. Len(f[r]) > Len(p) /\ r \in T
    OBVIOUS
  <2>3. Len(<<>>) = 0
    OBVIOUS
  <2> HIDE DEF p, B
  <2> QED BY <1>10, <2>1, <2>2, <2>3
<1>12. PICK a \in Seq(Nat), x \in Nat : a = f[par[r]] /\ x = nm[r] /\ f[r] = Append(a, x)
  <2>1. par[r] \in T /\ f[r] = Append(f[par[r]], nm[r]) /\ nm[r] \in Nat
    BY <1>5, <1>11 DEF Paths, Descends
  <2> QED BY <1>5, <2>1 DEF Paths
<1>13. par[r] \in T /\ pos[par[r]] < pos[r]
  BY <1>5, <1>11 DEF Descends
<1>14. Len(a) \in Nat /\ Len(f[r]) = Len(a) + 1 /\ Len(p) <= Len(a)
  <2>1. Len(a) \in Nat
    BY LenProperties
  <2>2. Len(Append(a, x)) = Len(a) + 1
    BY AppendProperties
  <2>3. Len(f[r]) > Len(p)
    OBVIOUS
  <2> HIDE DEF p, B
  <2> QED BY <1>10, <1>12, <2>1, <2>2, <2>3
<1>15. SubSeq(a, 1, Len(p)) = p /\ SubSeq(a, 1, Len(a)) = a
  <2>1. SubSeq(f[r], 1, Len(p)) = p
    OBVIOUS
  <2>2. Len(p) \in 0 .. Len(a)
    BY <1>10, <1>14
  <2> HIDE DEF p, B
  <2> QED BY <1>12, <2>1, <2>2, ShorterPath
<1>16. ~(Len(a) > Len(p))
  <2>1. par[r] \notin B
    BY <1>9, <1>13
  <2> QED BY <1>12, <1>13, <1>15, <2>1
<1>17. a = p
  <2> HIDE DEF p, B
  <2>1. Len(p) = Len(a)
    BY <1>10, <1>14, <1>16
  <2> QED BY <1>15, <2>1
<1>18. par[r] = rid
  BY <1>3, <1>6, <1>12, <1>13, <1>17
<1> QED BY <1>7, <1>11, <1>18

-----------------------------------------------------------------------------
(***************************************************************************)
(* RootStore implements BackupTree.  What the functions of RootStoreTree     *)
(* give for the registries of the invariant.                                 *)
(***************************************************************************)
LEMMA RegularReads ==
  ASSUME NEW R, NEW size, NEW names \in Seq(Names \cup {0}), Regular(R, size, names)
  PROVE  /\ Sound(R, size, names) <=> Named(R, names)
         /\ VerifyRec(R, size, names) = "ok" /\ ~(size < 2)
         /\ Named(R, names) => /\ TreeNow("up", R, size, names) = TreeOf(R, names)
                               /\ DurableNow(R, size, names) = Promised!Whole(TreeOf(R, names))
                               /\ StatusNow("up", R, size, names) = "open"
         /\ ~Named(R, names) => /\ TreeNow("up", R, size, names) = {}
                                /\ DurableNow(R, size, names) = Promised!Maimed
                                /\ StatusNow("up", R, size, names) = "maimed"
<1>1. VerifyRec(R, size, names) = "ok"
  <2>1. Len(names) \in Nat
    BY LenProperties
  <2> QED BY <2>1, WholeVerifies DEF Regular, NamesIn
<1>2. size \in Nat /\ ~(size < 2)
  BY MaxRecAssumption DEF Regular, Whole, Shared
<1>3. Sound(R, size, names) <=> Named(R, names)
  BY <1>1 DEF Sound
<1>4. CASE Named(R, names)
  <2>1. DurableNow(R, size, names) = [is |-> "whole", tree |-> TreeOf(R, names)]
    BY <1>1, <1>2, <1>4 DEF DurableNow
  <2> QED BY <1>1, <1>2, <1>3, <1>4, <2>1 DEF TreeNow, StatusNow, Promised!Whole
<1>5. CASE ~Named(R, names)
  <2>1. DurableNow(R, size, names) = [is |-> "maimed", tree |-> {}]
    BY <1>1, <1>2, <1>5 DEF DurableNow
  <2> QED BY <1>1, <1>2, <1>3, <1>5, <2>1 DEF TreeNow, StatusNow, Promised!Maimed
<1> QED BY <1>4, <1>5

LEMMA RejectedReads ==
  ASSUME NEW R, NEW size, ~(size < 2), NEW names \in Seq(Names \cup {0}), Rejected(R, size)
  PROVE  DurableNow(R, size, names) = Promised!Refused
<1>1. VerifyRec(R, size, names) # "ok"
  BY RejectedVerdict
<1> QED BY <1>1 DEF DurableNow, Promised!Refused

LEMMA EmptyReads ==
  ASSUME NEW R, NEW size, size < 2, NEW names
  PROVE  DurableNow(R, size, names) = Promised!Whole({})
BY DEF DurableNow, Promised!Whole

(* A file's time and size are those of some addFile.                         *)
AttrsOf(rec) == [time |-> rec.time, size |-> rec.sub]

AnyAttrs == Attrs \cup {[time |-> 0, size |-> 0]}

AttrsIn(R) == \A r \in Ids : R[r].isactive /\ ~R[r].isdir => AttrsOf(R[r]) \in AnyAttrs

(* While more than one record is to be written, the files do not hold the    *)
(* tree.                                                                     *)
WrittenLast == status = "open" /\ durable = Promised!Whole(tree) => \A c, d \in dirty : c = d

TreeInv ==
  /\ StoreInv
  /\ tree = TreeNow(mode, recs, nrec, rname)
  /\ durable = DurableNow(drecs, dnrec, drname)
  /\ status = StatusNow(mode, recs, nrec, rname)
  /\ AttrsIn(recs) /\ AttrsIn(drecs)
  /\ WrittenLast

(* What TreeNext adds to a step of RootStore.                                *)
Observed ==
  /\ tree' = TreeNow(mode', recs', nrec', rname')
  /\ durable' = DurableNow(drecs', dnrec', drname')
  /\ status' = StatusNow(mode', recs', nrec', rname')

LEMMA RootPath ==
  ASSUME NEW R, NEW size, NEW names \in Seq(Names \cup {0}), Regular(R, size, names)
  PROVE  PathsOf(R, names)[ROOT] = <<>> /\ ROOT \in Active(R)
<1>1. PICK N, pos, end, par, M, place : Numbered(R, size, N, pos, end, par, M, place)
  BY DEF Regular, Whole
<1>2. PICK T, nm : T = Active(R) /\ nm = NameTable(R, names)
  OBVIOUS
<1>3. /\ TreeWhole(R, T, N, pos, end, par) /\ N < MaxRec /\ R \in Registry
      /\ NextSibling(R, ROOT) = 0 /\ ROOT \in T
  BY <1>1, <1>2, Room
<1>4. Paths(T, par, nm, PathsOf(R, names))
  BY <1>2, <1>3, TreeRead
<1> QED BY <1>2, <1>3, <1>4 DEF Paths

(* Other names in the file, but those of its records the same.               *)
LEMMA TreeRenamed ==
  ASSUME NEW R, NEW size, NEW names \in Seq(Names \cup {0}), Regular(R, size, names),
         NEW names1 \in Seq(Names \cup {0}), Regular(R, size, names1),
         SameNaming(R, names, R, names1)
  PROVE  TreeOf(R, names1) = TreeOf(R, names) /\ (Named(R, names1) <=> Named(R, names))
<1>1. SamePlaces(R, R, size)
  BY DEF Regular, Whole, SamePlaces
<1>2. PICK f, g : f = PathsOf(R, names) /\ g = PathsOf(R, names1)
  OBVIOUS
<1>3. \A r \in Active(R) : g[r] = f[r]
  BY <1>1, <1>2, TreeKept
<1>4. \A r \in Active(R) : EntryFor(R, g, r) = EntryFor(R, f, r)
  BY <1>3 DEF EntryFor
<1>5. TreeOf(R, names1) = TreeOf(R, names)
  <2>1. TreeOf(R, names) = {EntryFor(R, f, r) : r \in Active(R) \ {ROOT}}
    BY <1>2 DEF TreeOf
  <2>2. TreeOf(R, names1) = {EntryFor(R, g, r) : r \in Active(R) \ {ROOT}}
    BY <1>2 DEF TreeOf
  <2> QED BY <1>4, <2>1, <2>2
<1>6. Named(R, names1) <=> Named(R, names)
  BY DEF Named, SameNaming
<1> QED BY <1>5, <1>6

LEMMA AddStep ==
  ASSUME status = "open", durable = Promised!Whole(tree),
         NEW folder \in Promised!Folders, NEW n \in Names, NEW path, path = Append(folder, n),
         \A e \in tree : e.path # path,
         NEW isdir \in BOOLEAN, NEW isignore \in BOOLEAN, NEW ispending \in BOOLEAN,
         NEW attr \in AnyAttrs,
         tree' = tree \cup {[path |-> path, isdir |-> isdir, isignore |-> isignore,
                             ispending |-> ispending, time |-> attr.time, size |-> attr.size]},
         durable' = Promised!Whole(tree), status' = status
  PROVE  Promised!Add
<1>1. Promised!At(Append(folder, n)) = {}
  BY DEF Promised!At
<1>2. attr \in Attrs \cup {[time |-> 0, size |-> 0]}
  BY DEF AnyAttrs
<1> QED BY <1>1, <1>2, SMTT(60) DEF Promised!Add, Promised!Settled

LEMMA AppendType ==
  ASSUME NEW names \in Seq(Names \cup {0}), NEW n \in Names
  PROVE  Append(names, n) \in Seq(Names \cup {0})
BY AppendProperties

(* The directory of a new entry is one that entries may go to.               *)
LEMMA FolderOf ==
  ASSUME NEW R, NEW size, NEW names \in Seq(Names \cup {0}), Regular(R, size, names),
         NEW f, f = PathsOf(R, names), tree = TreeOf(R, names),
         NEW pid \in Dirs(R), ~R[pid].isignore
  PROVE  f[pid] \in Promised!Folders
<1>1. CASE pid = ROOT
  <2>1. f[pid] = <<>>
    BY <1>1, RootPath
  <2> QED BY <2>1 DEF Promised!Folders
<1>2. CASE pid # ROOT
  <2>1. pid \in Active(R) \ {ROOT} /\ R[pid].isdir
    BY <1>2 DEF Dirs
  <2>2. PICK e \in tree : e = EntryFor(R, f, pid)
    BY <2>1 DEF TreeOf
  <2>3. e.path = f[pid] /\ e.isdir /\ ~e.isignore
    BY <2>1, <2>2 DEF EntryFor
  <2> QED BY <2>3 DEF Promised!Folders
<1> QED BY <1>1, <1>2

(* An insertion adds an entry.                                               *)
LEMMA NamingKept ==
  ASSUME NEW R \in Registry, NEW names \in Seq(Names \cup {0}), NamesIn(R, names), NEW n \in Names,
         NEW S, SameEntries(R, S, Active(R))
  PROVE  /\ SameNaming(R, names, S, Append(names, n))
         /\ SameNaming(R, names, R, Append(names, n))
<1>1. ASSUME NEW r \in Active(R)
      PROVE  /\ S[r].name = R[r].name
             /\ NameAt(Append(names, n), R[r].name) = NameAt(names, R[r].name)
  <2>1. PICK o \in Nat : o = R[r].name /\ o < Len(names)
    BY DEF Active, Registry, RecordItem, NamesIn
  <2>2. NameAt(Append(names, n), o) = NameAt(names, o)
    BY <2>1, NameAtFacts
  <2> QED BY <2>1, <2>2 DEF SameEntries, SameEntry
<1> QED BY <1>1 DEF SameNaming

LEMMA InsertTree ==
  ASSUME TreeInv, NEW pid \in Parents, NEW n \in Names, NEW new \in RecordItem,
         new.isactive, new.isdir => new.sub = 0, AttrsOf(new) \in AnyAttrs,
         Insert(pid, n, new), Observed
  PROVE  [Promised!Next]_(Promised!vars) /\ AttrsIn(recs') /\ WrittenLast'
<1>1. mode = "up" /\ Idle /\ StoreInv /\ pid \in Dirs(recs) /\ ~recs[pid].isignore
  BY DEF Insert, Idle, TreeInv, Parents
<1>2. drecs = recs /\ dnrec = nrec /\ drname = rname /\ Regular(recs, nrec, rname)
  BY <1>1, IdleFacts
<1>3. recs \in Registry /\ rname \in Seq(Names \cup {0})
  BY <1>1, StoreTypes DEF StoreInv
<1>4. /\ Regular(recs', nrec', rname') /\ SameEntries(recs, recs', Active(recs))
      /\ \E rid : /\ OneMore(recs, nrec, recs', nrec', pid, rid)
                  /\ SameEntry([new EXCEPT !.name = Len(rname)], recs'[rid])
  BY <1>1, InsertStore
<1>5. PICK S, size1, names1 : S = recs' /\ size1 = nrec' /\ names1 = Append(rname, n)
  OBVIOUS
<1>6. rname' = names1 /\ drname' = names1 /\ drecs' = recs /\ dnrec' = nrec /\ mode' = "up"
  BY <1>1, <1>2, <1>5 DEF Insert
<1>7. PICK rid : /\ OneMore(recs, nrec, S, size1, pid, rid)
                 /\ SameEntry([new EXCEPT !.name = Len(rname)], S[rid])
  BY <1>4, <1>5
<1>8. /\ Regular(S, size1, names1) /\ SameEntries(recs, S, Active(recs))
      /\ names1 \in Seq(Names \cup {0}) /\ Regular(recs, nrec, names1)
  BY <1>2, <1>3, <1>4, <1>5, <1>6, AppendType, AppendRegular
<1>9. SameNaming(recs, rname, S, names1) /\ SameNaming(recs, rname, recs, names1)
  BY <1>2, <1>3, <1>5, <1>8, NamingKept DEF Regular
<1>10. TreeOf(recs, names1) = TreeOf(recs, rname) /\ (Named(recs, names1) <=> Named(recs, rname))
  BY <1>2, <1>3, <1>8, <1>9, TreeRenamed
<1>11. /\ S[rid].name = Len(rname) /\ S[rid].isdir = new.isdir /\ S[rid].isignore = new.isignore
       /\ S[rid].ispending = new.ispending /\ S[rid].time = new.time
       /\ ~new.isdir => S[rid].sub = new.sub
  BY <1>7 DEF SameEntry, RecordItem
<1>12. NameAt(names1, S[rid].name) = n /\ n # 0
  <2>1. NameAt(Append(rname, n), Len(rname)) = n
    <3>1. Len(rname) \in Nat
      BY <1>3, LenProperties
    <3> QED BY <1>3, <3>1, NameAtFacts
  <2> QED BY <1>5, <1>11, <2>1, NamesAssumption
<1>13. Active(S) = Active(recs) \cup {rid} /\ rid \notin Active(recs) /\ rid # ROOT
  BY <1>7 DEF OneMore
<1>14. Named(S, names1) <=> Named(recs, rname)
  BY <1>9, <1>12, <1>13 DEF Named, SameNaming
<1>15. AttrsIn(S)
  <2> SUFFICES ASSUME NEW r \in Active(S), ~S[r].isdir PROVE AttrsOf(S[r]) \in AnyAttrs
    BY DEF AttrsIn, Active
  <2>1. CASE r = rid
    <3>1. AttrsOf(S[r]) = AttrsOf(new)
      BY <1>11, <2>1 DEF AttrsOf
    <3> QED BY <3>1
  <2>2. CASE r # rid
    <3>1. r \in Active(recs) /\ SameEntry(recs[r], S[r])
      BY <1>8, <1>13, <2>2 DEF SameEntries
    <3>2. ~recs[r].isdir /\ recs[r].isactive /\ r \in Ids /\ AttrsOf(S[r]) = AttrsOf(recs[r])
      BY <3>1 DEF SameEntry, AttrsOf, Active
    <3> QED BY <3>2 DEF TreeInv, AttrsIn
  <2> QED BY <2>1, <2>2
<1>16. /\ tree = TreeNow("up", recs, nrec, rname) /\ durable = DurableNow(recs, nrec, rname)
       /\ status = StatusNow("up", recs, nrec, rname)
       /\ tree' = TreeNow("up", S, size1, names1) /\ durable' = DurableNow(recs, nrec, names1)
       /\ status' = StatusNow("up", S, size1, names1)
  BY <1>1, <1>2, <1>5, <1>6 DEF TreeInv, Observed
<1>17. CASE ~Named(recs, rname)
  <2>1. tree = {} /\ status = "maimed"
    BY <1>2, <1>3, <1>16, <1>17, RegularReads
  <2>2. tree' = {} /\ status' = "maimed"
    BY <1>8, <1>14, <1>16, <1>17, RegularReads
  <2>3. durable' = Promised!Maimed
    BY <1>8, <1>10, <1>16, <1>17, RegularReads
  <2>4. Promised!GoOnMaimed
    BY <2>1, <2>2, <2>3 DEF Promised!GoOnMaimed
  <2> QED BY <1>5, <1>15, <2>2, <2>4 DEF Promised!Next, WrittenLast
<1>18. CASE Named(recs, rname)
  <2>1. tree = TreeOf(recs, rname) /\ status = "open" /\ durable = Promised!Whole(tree)
    BY <1>2, <1>3, <1>16, <1>18, RegularReads
  <2>2. tree' = TreeOf(S, names1) /\ status' = "open"
    BY <1>8, <1>14, <1>16, <1>18, RegularReads
  <2>3. durable' = Promised!Whole(tree)
    BY <1>8, <1>10, <1>16, <1>18, <2>1, RegularReads
  <2>4. PICK f, g : f = PathsOf(recs, rname) /\ g = PathsOf(S, names1)
    OBVIOUS
  <2>5. pid \in Active(recs)
    BY <1>1 DEF Dirs
  <2>6. /\ \A r \in Active(recs) : g[r] = f[r]
        /\ g[rid] = Append(g[pid], NameAt(names1, S[rid].name))
        /\ TreeOf(S, names1) = TreeOf(recs, rname) \cup {EntryFor(S, g, rid)}
        /\ Ordered(S, names1) => \A r \in Active(recs) : f[r] # g[rid]
    BY <1>2, <1>3, <1>7, <1>8, <1>9, <2>4, <2>5, TreeGrown, SMTT(60)
  <2>7. Ordered(S, names1)
    BY <1>8, <1>14, <1>18 DEF Regular
  <2>8. PICK folder \in Promised!Folders : folder = f[pid]
    BY <1>1, <1>2, <1>3, <2>1, <2>4, FolderOf
  <2>9. PICK path : path = Append(folder, n) /\ path = g[rid]
    BY <1>12, <2>5, <2>6, <2>8
  <2>10. \A e \in tree : e.path # path
    <3> TAKE e \in tree
    <3>1. PICK r \in Active(recs) : e = EntryFor(recs, f, r)
      BY <2>1, <2>4 DEF TreeOf
    <3>2. e.path = f[r]
      BY <3>1 DEF EntryFor
    <3> QED BY <2>6, <2>7, <2>9, <3>2
  <2>11. PICK isdir \in BOOLEAN, isignore \in BOOLEAN, ispending \in BOOLEAN, attr \in AnyAttrs :
           /\ isdir = new.isdir /\ isignore = new.isignore /\ ispending = new.ispending
           /\ attr = AttrsOf(new)
    BY DEF RecordItem
  <2>12. PICK e : e = [path |-> path, isdir |-> isdir, isignore |-> isignore,
                       ispending |-> ispending, time |-> attr.time, size |-> attr.size]
    OBVIOUS
  <2>13. EntryFor(S, g, rid) = e
    <3>1. attr.time = new.time /\ attr.size = new.sub
      BY <2>11 DEF AttrsOf
    <3>2. S[rid].isdir = isdir /\ S[rid].isignore = isignore /\ S[rid].ispending = ispending
      BY <1>11, <2>11
    <3>3. (IF S[rid].isdir THEN 0 ELSE S[rid].sub) = attr.size
      BY <1>11, <3>1
    <3> QED BY <1>11, <2>9, <2>12, <3>1, <3>2, <3>3 DEF EntryFor
  <2>14. tree' = tree \cup {e} /\ e \notin tree
    <3>1. e.path = path
      BY <2>12
    <3> QED BY <2>1, <2>2, <2>6, <2>10, <2>13, <3>1
  <2>15. Promised!Add
    <3>1. tree' = tree \cup
            {[path |-> path, isdir |-> isdir, isignore |-> isignore,
              ispending |-> ispending, time |-> attr.time, size |-> attr.size]}
      BY <2>12, <2>14
    <3>2. /\ status = "open" /\ durable = Promised!Whole(tree) /\ path = Append(folder, n)
          /\ durable' = Promised!Whole(tree) /\ status' = status
      BY <2>1, <2>2, <2>3, <2>9
    <3> QED BY <2>10, <3>1, <3>2, AddStep, ZenonT(60)
  <2>16. durable' # Promised!Whole(tree')
    BY <2>3, <2>14 DEF Promised!Whole
  <2>17. WrittenLast'
    BY <2>16 DEF WrittenLast, Promised!Whole
  <2> QED BY <1>5, <1>15, <2>15, <2>17 DEF Promised!Next
<1> QED BY <1>17, <1>18

LEMMA PathsDistinct ==
  ASSUME NEW R, NEW size, NEW names \in Seq(Names \cup {0}), Regular(R, size, names),
         Ordered(R, names)
  PROVE  \A r, s \in Active(R) : PathsOf(R, names)[r] = PathsOf(R, names)[s] => r = s
<1>1. PICK N, pos, end, par, M, place : Numbered(R, size, N, pos, end, par, M, place)
  BY DEF Regular, Whole
<1>2. PICK T : T = Active(R)
  OBVIOUS
<1>3. /\ TreeWhole(R, T, N, pos, end, par) /\ N < MaxRec /\ R \in Registry
      /\ NextSibling(R, ROOT) = 0
  BY <1>1, <1>2, Room
<1>4. \A r, s \in T : PathsOf(R, names)[r] = PathsOf(R, names)[s] => r = s
  BY <1>2, <1>3, PathsApart
<1> QED BY <1>2, <1>4

(* addFile of an entry already there changes that entry.                     *)
LEMMA ModifyStep ==
  ASSUME status = "open", durable = Promised!Whole(tree), NEW e \in tree, ~e.isdir, ~e.isignore,
         NEW ispending \in BOOLEAN, NEW attr \in AnyAttrs,
         ispending => attr = [time |-> e.time, size |-> e.size],
         NEW new, new = [e EXCEPT !.ispending = ispending, !.time = attr.time, !.size = attr.size],
         tree' = (tree \ {e}) \cup {new}, durable' = Promised!Whole(tree), status' = status
  PROVE  Promised!Modify
<1>1. attr \in Attrs \cup {[time |-> 0, size |-> 0]}
  BY DEF AnyAttrs
<1> QED BY <1>1 DEF Promised!Modify, Promised!Settled

(* What ModFile makes of its record.                                         *)
LEMMA ModRecord ==
  ASSUME TreeInv, NEW rid \in Slots, NEW attr \in Attrs, ModFile(rid, attr)
  PROVE  /\ recs[rid].isactive /\ ~recs[rid].isdir /\ ~recs[rid].isignore /\ rid \in Ids
         /\ \A r \in Ids \ {rid} : recs'[r] = recs[r]
         /\ \A r \in Ids : recs'[r].name = recs[r].name
         /\ /\ recs'[rid].isactive /\ ~recs'[rid].isdir /\ ~recs'[rid].isignore
         /\ \E pending \in BOOLEAN, a \in AnyAttrs :
              /\ pending => a = AttrsOf(recs[rid])
              /\ recs'[rid].ispending = pending
              /\ recs'[rid].time = a.time /\ recs'[rid].sub = a.size
<1>1. recs \in Registry /\ nrec \in 0 .. MaxRec /\ MaxRec \in Nat
  BY StoreTypes DEF TreeInv, StoreInv
<1>2. rid \in Ids /\ recs[rid] \in RecordItem
  BY <1>1 DEF Slots, Ids, Registry
<1>3. recs[rid].isactive /\ ~recs[rid].isdir /\ ~recs[rid].isignore
  BY DEF ModFile
<1>4. \A r \in Ids \ {rid} : recs'[r] = recs[r]
  BY <1>1, <1>2 DEF ModFile, Registry
<1>5. \/ recs'[rid] = [recs[rid] EXCEPT !.ispending = FALSE, !.time = attr.time, !.sub = attr.size]
      \/ recs'[rid] = [recs[rid] EXCEPT !.ispending = TRUE]
  BY <1>1, <1>2 DEF ModFile, Registry
<1>6. PICK s : s = recs'[rid]
  OBVIOUS
<1>7. s.name = recs[rid].name /\ s.isactive /\ ~s.isdir /\ ~s.isignore
  BY <1>2, <1>3, <1>5, <1>6 DEF RecordItem
<1>8. \E pending \in BOOLEAN, a \in AnyAttrs :
        /\ pending => a = AttrsOf(recs[rid])
        /\ s.ispending = pending /\ s.time = a.time /\ s.sub = a.size
  <2>1. CASE s = [recs[rid] EXCEPT !.ispending = FALSE, !.time = attr.time, !.sub = attr.size]
    <3>1. s.ispending = FALSE /\ s.time = attr.time /\ s.sub = attr.size
      BY <1>2, <2>1 DEF RecordItem
    <3>2. attr \in AnyAttrs
      BY DEF AnyAttrs
    <3> QED BY <3>1, <3>2
  <2>2. CASE s = [recs[rid] EXCEPT !.ispending = TRUE]
    <3>1. s.ispending = TRUE /\ s.time = recs[rid].time /\ s.sub = recs[rid].sub
      BY <1>2, <2>2 DEF RecordItem
    <3>2. PICK a \in AnyAttrs : a = AttrsOf(recs[rid])
      BY <1>2, <1>3 DEF TreeInv, AttrsIn
    <3>3. a.time = recs[rid].time /\ a.size = recs[rid].sub
      BY <3>2 DEF AttrsOf
    <3> QED BY <3>1, <3>2, <3>3
  <2> QED BY <1>5, <1>6, <2>1, <2>2
<1> QED BY <1>2, <1>3, <1>4, <1>6, <1>7, <1>8

LEMMA ModTree ==
  ASSUME TreeInv, NEW rid \in Slots, NEW attr \in Attrs, ModFile(rid, attr), Observed
  PROVE  [Promised!Next]_(Promised!vars) /\ AttrsIn(recs') /\ WrittenLast'
<1>1. mode = "up" /\ Idle /\ StoreInv /\ mode' = "up" /\ dirty' = {rid}
      /\ UNCHANGED <<nrec, rname, disk>>
  BY DEF ModFile, Idle, TreeInv
<1>2. drecs = recs /\ dnrec = nrec /\ drname = rname /\ Regular(recs, nrec, rname)
  BY <1>1, IdleFacts
<1>3. recs \in Registry /\ rname \in Seq(Names \cup {0})
  BY <1>1, StoreTypes DEF StoreInv
<1>4. /\ recs[rid].isactive /\ ~recs[rid].isdir /\ ~recs[rid].isignore /\ rid \in Ids
      /\ \A r \in Ids \ {rid} : recs'[r] = recs[r]
      /\ \A r \in Ids : recs'[r].name = recs[r].name
      /\ /\ recs'[rid].isactive /\ ~recs'[rid].isdir /\ ~recs'[rid].isignore
      /\ \E pending \in BOOLEAN, a \in AnyAttrs :
           /\ pending => a = AttrsOf(recs[rid])
           /\ recs'[rid].ispending = pending
           /\ recs'[rid].time = a.time /\ recs'[rid].sub = a.size
  BY ModRecord
<1>5. PICK S : S = recs'
  OBVIOUS
<1>6. PICK pending \in BOOLEAN, a \in AnyAttrs :
        /\ pending => a = AttrsOf(recs[rid])
        /\ S[rid].ispending = pending /\ S[rid].time = a.time /\ S[rid].sub = a.size
  BY <1>4, <1>5
<1>7. Regular(S, nrec, rname) /\ SamePlaces(recs, S, nrec)
  BY <1>1, <1>5, ModStore
<1>8. /\ \A r \in Ids \ {rid} : S[r] = recs[r]
      /\ \A r \in Ids : S[r].name = recs[r].name
      /\ S[rid].isactive /\ ~S[rid].isdir /\ ~S[rid].isignore
  BY <1>4, <1>5
<1>9. Active(S) = Active(recs) /\ rid \in Active(recs)
  BY <1>4, <1>8 DEF Active
<1>10. SameNaming(recs, rname, S, rname) /\ (Named(S, rname) <=> Named(recs, rname))
  BY <1>8, <1>9 DEF SameNaming, Named, Active
<1>11. AttrsIn(S)
  <2> SUFFICES ASSUME NEW r \in Ids, S[r].isactive, ~S[r].isdir PROVE AttrsOf(S[r]) \in AnyAttrs
    BY DEF AttrsIn
  <2>1. CASE r = rid
    <3>1. AttrsOf(S[r]) = a
      <4>1. a \in [time : Nat, size : Nat]
        BY AttrsAssumption DEF AnyAttrs
      <4> QED BY <1>6, <2>1, <4>1 DEF AttrsOf
    <3> QED BY <3>1
  <2>2. CASE r # rid
    BY <1>8, <2>2 DEF TreeInv, AttrsIn
  <2> QED BY <2>1, <2>2
<1>12. WrittenLast'
  BY <1>1 DEF WrittenLast
<1>13. /\ tree = TreeNow("up", recs, nrec, rname) /\ durable = DurableNow(recs, nrec, rname)
       /\ status = StatusNow("up", recs, nrec, rname)
       /\ tree' = TreeNow("up", S, nrec, rname) /\ durable' = DurableNow(recs, nrec, rname)
       /\ status' = StatusNow("up", S, nrec, rname)
  BY <1>1, <1>2, <1>5 DEF TreeInv, Observed, disk
<1>14. CASE ~Named(recs, rname)
  <2>1. /\ tree = {} /\ status = "maimed" /\ tree' = {} /\ status' = "maimed"
        /\ durable' = Promised!Maimed
    BY <1>2, <1>3, <1>7, <1>10, <1>13, <1>14, RegularReads
  <2>2. Promised!GoOnMaimed
    BY <2>1 DEF Promised!GoOnMaimed
  <2> QED BY <1>5, <1>11, <1>12, <2>2 DEF Promised!Next
<1>15. CASE Named(recs, rname)
  <2>1. tree = TreeOf(recs, rname) /\ status = "open" /\ durable = Promised!Whole(tree)
    BY <1>2, <1>3, <1>13, <1>15, RegularReads
  <2>2. tree' = TreeOf(S, rname) /\ status' = "open" /\ durable' = durable
    BY <1>3, <1>7, <1>10, <1>13, <1>15, RegularReads
  <2>3. PICK f, g : f = PathsOf(recs, rname) /\ g = PathsOf(S, rname)
    OBVIOUS
  <2>4. \A r \in Active(recs) : g[r] = f[r]
    BY <1>2, <1>3, <1>7, <1>10, <2>3, TreeKept
  <2>5. \A r \in Active(recs) \ {rid} : EntryFor(S, g, r) = EntryFor(recs, f, r)
    BY <1>8, <2>4 DEF EntryFor, Active
  <2>6. /\ TreeOf(recs, rname) = {EntryFor(recs, f, r) : r \in Active(recs) \ {ROOT}}
        /\ TreeOf(S, rname) = {EntryFor(S, g, r) : r \in Active(recs) \ {ROOT}}
    BY <1>9, <2>3 DEF TreeOf
  <2>7. CASE rid = ROOT
    <3>1. TreeOf(S, rname) = TreeOf(recs, rname)
      BY <2>5, <2>6, <2>7
    <3>2. UNCHANGED <<tree, durable, status>>
      BY <2>1, <2>2, <3>1
    <3> QED BY <1>5, <1>11, <1>12, <3>2 DEF Promised!vars
  <2>8. CASE rid # ROOT
    <3>1. PICK e \in tree : e = EntryFor(recs, f, rid)
      BY <1>9, <2>1, <2>6, <2>8
    <3>2. /\ e.path = f[rid] /\ ~e.isdir /\ ~e.isignore
          /\ e.time = recs[rid].time /\ e.size = recs[rid].sub
      BY <1>4, <3>1 DEF EntryFor
    <3>3. PICK new : new = [e EXCEPT !.ispending = pending, !.time = a.time, !.size = a.size]
      OBVIOUS
    <3>4. EntryFor(S, g, rid) = new
      <4>1. recs[rid].isdir = FALSE /\ recs[rid].isignore = FALSE
        BY <1>3, <1>4 DEF Registry, RecordItem
      <4>2. S \in Registry
        BY <1>7 DEF Regular, Whole, Shared
      <4>3. S[rid].isdir = FALSE /\ S[rid].isignore = FALSE
        BY <1>4, <1>8, <4>2 DEF Registry, RecordItem
      <4>4. EntryFor(S, g, rid) =
              [path |-> f[rid], isdir |-> FALSE, isignore |-> FALSE,
               ispending |-> pending, time |-> a.time, size |-> a.size]
        BY <1>6, <1>9, <2>4, <4>3 DEF EntryFor
      <4>5. e = [path |-> f[rid], isdir |-> FALSE, isignore |-> FALSE,
                 ispending |-> recs[rid].ispending, time |-> recs[rid].time,
                 size |-> recs[rid].sub]
        BY <3>1, <4>1 DEF EntryFor
      <4>6. new = [path |-> f[rid], isdir |-> FALSE, isignore |-> FALSE,
                   ispending |-> pending, time |-> a.time, size |-> a.size]
        BY <3>3, <4>5
      <4> QED BY <4>4, <4>6
    <3>5. \A r \in Active(recs) \ {rid} : EntryFor(recs, f, r) # e
      <4> TAKE r \in Active(recs) \ {rid}
      <4>1. Ordered(recs, rname)
        BY <1>2, <1>15 DEF Regular
      <4>2. f[r] # f[rid]
        BY <1>2, <1>3, <1>9, <2>3, <4>1, PathsDistinct
      <4>3. EntryFor(recs, f, r).path = f[r]
        BY DEF EntryFor
      <4> QED BY <3>2, <4>2, <4>3
    <3>6. tree' = (tree \ {e}) \cup {new}
      <4>1. tree \ {e} = {EntryFor(recs, f, r) : r \in Active(recs) \ {ROOT, rid}}
        BY <2>1, <2>6, <3>1, <3>5
      <4>2. tree' = {EntryFor(recs, f, r) : r \in Active(recs) \ {ROOT, rid}} \cup {new}
        BY <1>9, <2>2, <2>5, <2>6, <2>8, <3>4
      <4> QED BY <4>1, <4>2
    <3>7. pending => a = [time |-> e.time, size |-> e.size]
      BY <1>6, <3>2 DEF AttrsOf
    <3>8. Promised!Modify
      BY <2>1, <2>2, <3>2, <3>3, <3>6, <3>7, ModifyStep
    <3> QED BY <1>5, <1>11, <1>12, <3>8 DEF Promised!Next
  <2> QED BY <2>7, <2>8
<1> QED BY <1>14, <1>15

(* A removal: the entry goes, and the files hold a nameless one.              *)
LEMMA RemoveStep ==
  ASSUME status = "open", durable = Promised!Whole(tree), NEW e \in tree,
         \A d \in tree : ~(Len(d.path) > Len(e.path) /\ SubSeq(d.path, 1, Len(e.path)) = e.path),
         tree' = tree \ {e}, durable' = Promised!Maimed, status' = status
  PROVE  Promised!Remove
<1>1. Promised!Below(e.path) = {}
  BY DEF Promised!Below
<1> QED BY <1>1 DEF Promised!Remove, Promised!Settled

LEMMA RemoveNaming ==
  ASSUME StoreInv, NEW rid \in Ids, recs[rid].isactive, NameOf(rid) # 0,
         drname = rname, NEW S, Active(S) = Active(recs) \ {rid}, SameEntries(S, recs, Active(S)),
         NEW names1, names1 = [rname EXCEPT ![recs[rid].name + 1] = 0]
  PROVE  /\ SameNaming(S, names1, recs, rname) /\ NameAt(names1, recs[rid].name) = 0
         /\ \A r \in Active(S) : r \in Ids /\ S[r].name = recs[r].name
<1>1. recs \in Registry /\ rname \in Seq(Names \cup {0})
  BY StoreTypes DEF StoreInv
<1>2. PICK a \in Nat : a = recs[rid].name
  BY <1>1 DEF Registry, RecordItem
<1>3. names1 = [rname EXCEPT ![a + 1] = 0]
  BY <1>2
<1>4. NameAt(names1, a) = 0
  <2>1. NameAt([rname EXCEPT ![a + 1] = 0], a) = IF a = a THEN 0 ELSE NameAt(rname, a)
    BY <1>1, NameAtFacts
  <2> QED BY <1>3, <2>1
<1>5. ASSUME NEW r \in Active(S)
      PROVE  /\ r \in Ids /\ S[r].name = recs[r].name
             /\ NameAt(names1, S[r].name) = NameAt(rname, recs[r].name)
  <2>1. r \in Ids /\ recs[r].isactive /\ r # rid
    BY <1>5 DEF Active
  <2>2. S[r].name = recs[r].name
    BY <1>5 DEF SameEntries, SameEntry
  <2>3. PICK o \in Nat : o = recs[r].name
    BY <1>1, <2>1 DEF Registry, RecordItem
  <2>4. o # a
    <3> SUFFICES ASSUME o = a PROVE FALSE
      OBVIOUS
    <3>1. Claims(r, a) /\ Claims(rid, a)
      BY <1>2, <2>1, <2>3 DEF Claims
    <3>2. drname[a + 1] = 0 /\ a < Len(drname)
      BY <2>1, <3>1 DEF StoreInv, NameInv, Owned
    <3> QED BY <1>2, <3>2 DEF NameOf, NameAt
  <2>5. NameAt([rname EXCEPT ![a + 1] = 0], o) = IF o = a THEN 0 ELSE NameAt(rname, o)
    BY <1>1, NameAtFacts, ZenonT(60)
  <2> QED BY <1>3, <2>1, <2>2, <2>3, <2>4, <2>5
<1> QED BY <1>2, <1>4, <1>5 DEF SameNaming

LEMMA RemoveTree ==
  ASSUME TreeInv, NEW rid \in Slots, Remove(rid), Observed
  PROVE  [Promised!Next]_(Promised!vars) /\ AttrsIn(recs') /\ WrittenLast'
<1>1. /\ mode = "up" /\ Idle /\ StoreInv /\ mode' = "up" /\ UNCHANGED <<nrec, drecs, dnrec>>
      /\ recs[rid].isactive /\ rid # ROOT /\ NameOf(rid) # 0
      /\ recs[rid].isdir => recs[rid].sub = 0
      /\ rname' = [rname EXCEPT ![recs[rid].name + 1] = 0]
      /\ drname' = [drname EXCEPT ![recs[rid].name + 1] = 0]
  BY DEF Remove, Idle, TreeInv
<1>2. drecs = recs /\ dnrec = nrec /\ drname = rname /\ Regular(recs, nrec, rname)
  BY <1>1, IdleFacts
<1>3. /\ recs \in Registry /\ rname \in Seq(Names \cup {0}) /\ rname' \in Seq(Names \cup {0})
      /\ nrec \in 0 .. MaxRec /\ MaxRec \in Nat
  <2>1. StoreInv'
    BY <1>1, StoreInvStep DEF Next, Operation
  <2> QED BY <1>1, <2>1, StoreTypes DEF StoreInv, NameInv, DiskInv, TypeOK
<1>4. /\ Regular(recs', nrec', rname') /\ SameEntries(recs', recs, Active(recs'))
      /\ Regular(recs, nrec, rname')
      /\ \E pid \in Dirs(recs) : OneMore(recs', nrec, recs, nrec, pid, rid)
  BY <1>1, RemoveStore
<1>5. PICK S, names1 : S = recs' /\ names1 = rname'
  OBVIOUS
<1>6. /\ Regular(S, nrec, names1) /\ SameEntries(S, recs, Active(S)) /\ Regular(recs, nrec, names1)
      /\ names1 = [rname EXCEPT ![recs[rid].name + 1] = 0] /\ names1 \in Seq(Names \cup {0})
  BY <1>1, <1>3, <1>4, <1>5
<1>7. PICK pid : OneMore(S, nrec, recs, nrec, pid, rid)
  BY <1>4, <1>5
<1>8. Active(recs) = Active(S) \cup {rid} /\ rid \notin Active(S) /\ rid \in Ids
  <2>1. Active(recs) = Active(S) \cup {rid} /\ rid \notin Active(S)
    BY <1>7 DEF OneMore
  <2> QED BY <1>3, <2>1 DEF Slots, Ids
<1>9. /\ SameNaming(S, names1, recs, rname) /\ NameAt(names1, recs[rid].name) = 0
      /\ \A r \in Active(S) : r \in Ids /\ S[r].name = recs[r].name
  <2>1. Active(S) = Active(recs) \ {rid}
    BY <1>8
  <2> QED BY <1>1, <1>2, <1>6, <1>8, <2>1, RemoveNaming
<1>10. ~Named(recs, names1) /\ (Named(S, names1) <=> Named(recs, rname))
  <2>1. ~Named(recs, names1)
    BY <1>1, <1>8, <1>9 DEF Named
  <2>2. Named(S, names1) <=> Named(recs, rname)
    BY <1>1, <1>8, <1>9 DEF Named, SameNaming, NameOf
  <2> QED BY <2>1, <2>2
<1>11. AttrsIn(S)
  <2> SUFFICES ASSUME NEW r \in Active(S), ~S[r].isdir PROVE AttrsOf(S[r]) \in AnyAttrs
    BY DEF AttrsIn, Active
  <2>1. SameEntry(S[r], recs[r]) /\ r \in Active(recs)
    BY <1>6, <1>8 DEF SameEntries
  <2>2. ~recs[r].isdir /\ recs[r].isactive /\ r \in Ids /\ AttrsOf(S[r]) = AttrsOf(recs[r])
    BY <2>1 DEF SameEntry, AttrsOf, Active
  <2> QED BY <2>2 DEF TreeInv, AttrsIn
<1>12. /\ tree = TreeNow("up", recs, nrec, rname) /\ durable = DurableNow(recs, nrec, rname)
       /\ status = StatusNow("up", recs, nrec, rname)
       /\ tree' = TreeNow("up", S, nrec, names1) /\ durable' = DurableNow(recs, nrec, names1)
       /\ status' = StatusNow("up", S, nrec, names1)
  BY <1>1, <1>2, <1>5 DEF TreeInv, Observed
<1>13. durable' = Promised!Maimed
  BY <1>6, <1>10, <1>12, RegularReads
<1>14. WrittenLast'
  BY <1>13 DEF WrittenLast, Promised!Maimed, Promised!Whole
<1>15. CASE ~Named(recs, rname)
  <2>1. tree = {} /\ status = "maimed"
    BY <1>2, <1>3, <1>12, <1>15, RegularReads
  <2>2. tree' = {} /\ status' = "maimed"
    BY <1>6, <1>10, <1>12, <1>15, RegularReads
  <2>3. Promised!GoOnMaimed
    BY <1>13, <2>1, <2>2 DEF Promised!GoOnMaimed
  <2> QED BY <1>5, <1>11, <1>14, <2>3 DEF Promised!Next
<1>16. CASE Named(recs, rname)
  <2>1. tree = TreeOf(recs, rname) /\ status = "open" /\ durable = Promised!Whole(tree)
    BY <1>2, <1>3, <1>12, <1>16, RegularReads
  <2>2. tree' = TreeOf(S, names1) /\ status' = "open"
    BY <1>6, <1>10, <1>12, <1>16, RegularReads
  <2>3. PICK f, g : f = PathsOf(recs, rname) /\ g = PathsOf(S, names1)
    OBVIOUS
  <2>4. Ordered(recs, rname)
    BY <1>2, <1>16 DEF Regular
  <2>5. /\ \A r \in Active(S) : f[r] = g[r]
        /\ TreeOf(recs, rname) = TreeOf(S, names1) \cup {EntryFor(recs, f, rid)}
        /\ \A r \in Active(S) : g[r] # f[rid]
    <3>1. Regular(recs, nrec, rname) /\ rname \in Seq(Names \cup {0})
      BY <1>2, <1>3
    <3>2. /\ Regular(S, nrec, names1) /\ names1 \in Seq(Names \cup {0})
          /\ SameEntries(S, recs, Active(S)) /\ SameNaming(S, names1, recs, rname)
      BY <1>6, <1>9
    <3>3. /\ \A r \in Active(S) : f[r] = g[r]
          /\ TreeOf(recs, rname) = TreeOf(S, names1) \cup {EntryFor(recs, f, rid)}
          /\ Ordered(recs, rname) => \A r \in Active(S) : g[r] # f[rid]
      BY <1>7, <2>3, <3>1, <3>2, TreeGrown
    <3> QED BY <2>4, <3>3
  <2>6. PICK e \in tree : e = EntryFor(recs, f, rid)
    BY <2>1, <2>5
  <2>7. e.path = f[rid]
    BY <2>6 DEF EntryFor
  <2>8. e \notin TreeOf(S, names1)
    <3> SUFFICES ASSUME e \in TreeOf(S, names1) PROVE FALSE
      OBVIOUS
    <3>1. PICK r \in Active(S) : e = EntryFor(S, g, r)
      BY <2>3 DEF TreeOf
    <3>2. e.path = g[r]
      BY <3>1 DEF EntryFor
    <3> QED BY <2>5, <2>7, <3>2
  <2>9. tree' = tree \ {e}
    BY <2>1, <2>2, <2>5, <2>6, <2>8
  <2>10. \A d \in tree :
           ~(Len(d.path) > Len(e.path) /\ SubSeq(d.path, 1, Len(e.path)) = e.path)
    <3> TAKE d \in tree
    <3>1. PICK r \in Active(recs) : d = EntryFor(recs, f, r)
      BY <2>1, <2>3 DEF TreeOf
    <3>2. d.path = f[r]
      BY <3>1 DEF EntryFor
    <3>3. ~(Len(f[r]) > Len(f[rid]) /\ SubSeq(f[r], 1, Len(f[rid])) = f[rid])
      BY <1>1, <1>2, <1>3, <1>8, <2>3, <2>4, NothingBelow, ZenonT(60)
    <3> QED BY <2>7, <3>2, <3>3
  <2>11. Promised!Remove
    BY <1>13, <2>1, <2>2, <2>9, <2>10, RemoveStep
  <2> QED BY <1>5, <1>11, <1>14, <2>11 DEF Promised!Next
<1> QED BY <1>15, <1>16

(* writeRec tears the files, or settles them with the last record.           *)
LEMMA WriteTree ==
  ASSUME TreeInv, WriteRec, Observed
  PROVE  [Promised!Next]_(Promised!vars) /\ AttrsIn(recs') /\ AttrsIn(drecs') /\ WrittenLast'
<1>1. PICK c \in dirty : /\ \A d \in dirty : c <= d
                         /\ drecs' = [drecs EXCEPT ![c] = recs[c]]
                         /\ dnrec' = IF c >= dnrec THEN c + 1 ELSE dnrec
                         /\ dirty' = dirty \ {c}
  BY DEF WriteRec
<1>2. /\ mode = "up" /\ mode' = "up" /\ UNCHANGED <<recs, nrec, rname, drname>>
      /\ StoreInv /\ StoreInv'
  BY StoreInvStep DEF WriteRec, memory, Next, TreeInv
<1>3. /\ recs \in Registry /\ drecs \in Registry /\ rname \in Seq(Names \cup {0})
      /\ drname \in Seq(Names \cup {0}) /\ nrec \in 0 .. MaxRec /\ dnrec \in 0 .. MaxRec
      /\ MaxRec \in Nat /\ dirty \subseteq Ids /\ dnrec >= 2
  BY <1>2, StoreTypes DEF StoreInv, NameInv, Begun
<1>4. /\ Regular(recs, nrec, rname) /\ drname = rname
      /\ Recoverable(drecs, recs, dnrec, dirty, drname)
      /\ dirty \subseteq 0 .. nrec - 1 /\ dnrec <= nrec /\ (dnrec < nrec => dnrec = nrec - 1)
  BY <1>2 DEF StoreInv, InMemory, ToBeWritten, NameInv, DiskInv, SizeTrails, Slots,
              DiskTrailsMemory
<1>5. PICK D, z : D = drecs' /\ z = dnrec'
  OBVIOUS
<1>6. c \in Ids /\ c \in Nat /\ c < nrec /\ ~(z < 2)
  <2>1. c \in 0 .. nrec - 1 /\ c \in Ids
    BY <1>3, <1>4
  <2>2. c \in Nat /\ c < nrec
    BY <1>3, <2>1
  <2> QED BY <1>1, <1>3, <1>5, <2>1, <2>2
<1>7. AttrsIn(recs') /\ AttrsIn(drecs')
  BY <1>1, <1>2, <1>3, <1>6 DEF TreeInv, AttrsIn, Registry
<1>8. /\ tree = TreeNow("up", recs, nrec, rname) /\ status = StatusNow("up", recs, nrec, rname)
      /\ tree' = tree /\ status' = status /\ durable' = DurableNow(D, z, drname)
  BY <1>2, <1>5 DEF TreeInv, Observed
<1>9. CASE dirty = {c}
  <2>1. dirty' = {}
    BY <1>1, <1>9
  <2>2. Idle'
    BY <1>2, <2>1 DEF Idle
  <2>3. D = recs /\ z = nrec
    <3>1. /\ \A r \in Ids \ dirty' : drecs'[r] = recs'[r]
          /\ dirty' = {} => dnrec' = nrec'
      BY <1>2 DEF StoreInv, NameInv, DiskInv, DiskTrailsMemory
    <3>2. \A r \in Ids : D[r] = recs[r]
      BY <1>2, <1>5, <2>1, <3>1
    <3>3. D \in [Ids -> RecordItem] /\ recs \in [Ids -> RecordItem]
      BY <1>2, <1>3, <1>5, StoreTypes DEF StoreInv, NameInv, DiskInv, TypeOK, Registry
    <3>4. D = recs
      BY <3>2, <3>3
    <3> QED BY <1>2, <1>5, <2>1, <3>1, <3>4
  <2>4. WrittenLast'
    BY <2>1 DEF WrittenLast
  <2>5. CASE Named(recs, rname)
    <3>1. durable' = Promised!Whole(tree) /\ status = "open"
      BY <1>3, <1>4, <1>8, <2>3, <2>5, RegularReads
    <3>2. CASE durable = Promised!Whole(tree)
      <4>1. UNCHANGED <<tree, durable, status>>
        BY <1>8, <3>1, <3>2
      <4> QED BY <1>7, <2>4, <4>1 DEF Promised!vars
    <3>3. CASE durable # Promised!Whole(tree)
      <4>1. Promised!Settle
        BY <1>8, <3>1, <3>3 DEF Promised!Settle
      <4> QED BY <1>7, <2>4, <4>1 DEF Promised!Next
    <3> QED BY <3>2, <3>3
  <2>6. CASE ~Named(recs, rname)
    <3>1. durable' = Promised!Maimed /\ status = "maimed"
      BY <1>3, <1>4, <1>8, <2>3, <2>6, RegularReads
    <3>2. Promised!GoOnMaimed
      BY <1>8, <3>1 DEF Promised!GoOnMaimed
    <3> QED BY <1>7, <2>4, <3>2 DEF Promised!Next
  <2> QED BY <2>5, <2>6
<1>10. CASE dirty # {c}
  <2>1. PICK W : W = {c}
    OBVIOUS
  <2>2. LowestOf(W, dirty)
    <3>1. \A d \in dirty : d \in Nat
      BY <1>3 DEF Ids
    <3> QED BY <1>1, <1>6, <2>1, <3>1 DEF LowestOf
  <2>3. Mix(drecs, recs, W) = D /\ WrittenSize(W, dnrec) = z
    <3>1. \A r \in Ids : (IF r \in W THEN recs[r] ELSE drecs[r]) = D[r]
      BY <1>1, <1>3, <1>5, <1>6, <2>1 DEF Registry
    <3>2. D \in Registry
      BY <1>2, <1>5, StoreTypes DEF StoreInv, NameInv, DiskInv, TypeOK, Registry
    <3>3. Mix(drecs, recs, W) = D
      BY <3>1, <3>2 DEF Mix, Registry
    <3>4. c >= dnrec => c = dnrec
      BY <1>3, <1>4, <1>6
    <3> QED BY <1>1, <1>3, <1>5, <1>6, <2>1, <3>3, <3>4 DEF WrittenSize
  <2>4. Rejected(D, z)
    <3>1. W # {} /\ W # dirty
      BY <1>10, <2>1
    <3> QED BY <1>4, <2>2, <2>3, <3>1 DEF Recoverable
  <2>5. durable' = Promised!Refused
    BY <1>3, <1>6, <1>8, <2>4, RejectedReads
  <2>6. WrittenLast'
    BY <2>5 DEF WrittenLast, Promised!Refused, Promised!Whole
  <2>7. CASE status = "open"
    <3>1. durable # Promised!Whole(tree)
      BY <1>10, <2>7 DEF TreeInv, WrittenLast
    <3>2. Promised!Tear
      BY <1>8, <2>5, <2>7, <3>1 DEF Promised!Tear
    <3> QED BY <1>7, <2>6, <3>2 DEF Promised!Next
  <2>8. CASE status = "maimed"
    <3>1. Promised!GoOnMaimed
      BY <1>8, <2>5, <2>8 DEF Promised!GoOnMaimed
    <3> QED BY <1>7, <2>6, <3>1 DEF Promised!Next
  <2> QED BY <1>3, <1>4, <1>8, <2>7, <2>8, RegularReads
<1> QED BY <1>9, <1>10

LEMMA InitReads ==
  /\ Regular(InitRecords, 2, <<0>>) /\ Named(InitRecords, <<0>>) /\ <<0>> \in Seq(Names \cup {0})
  /\ TreeOf(InitRecords, <<0>>) = {} /\ AttrsIn(InitRecords) /\ AttrsIn(NoRecords)
<1>1. MaxRec \in Nat /\ MaxRec >= 2 /\ ROOT = 1
  BY MaxRecAssumption DEF ROOT
<1>2. \A r \in Ids : InitRecords[r] = IF r = ROOT THEN [Blank EXCEPT !.isdir = TRUE, !.isactive = TRUE]
                                      ELSE Blank
  BY DEF InitRecords
<1>3. \A r \in Ids \ {ROOT} : ~InitRecords[r].isactive
  BY <1>2 DEF Blank
<1>4. Active(InitRecords) \ {ROOT} = {}
  BY <1>3 DEF Active
<1>5. Named(InitRecords, <<0>>)
  BY <1>4 DEF Named
<1>6. TreeOf(InitRecords, <<0>>) = {}
  BY <1>4 DEF TreeOf
<1>7. AttrsIn(InitRecords)
  <2>1. ROOT \in Ids => InitRecords[ROOT].isdir
    BY <1>2 DEF Blank
  <2> QED BY <1>3, <2>1 DEF AttrsIn
<1>8. AttrsIn(NoRecords)
  BY DEF AttrsIn, NoRecords, Blank
<1> QED BY <1>5, <1>6, <1>7, <1>8, InitRegular

LEMMA LoadTree ==
  ASSUME TreeInv, Load, Observed
  PROVE  [Promised!Next]_(Promised!vars) /\ AttrsIn(recs') /\ AttrsIn(drecs') /\ WrittenLast'
<1>0. /\ StoreInv /\ AttrsIn(recs) /\ AttrsIn(drecs)
      /\ tree = TreeNow(mode, recs, nrec, rname) /\ durable = DurableNow(drecs, dnrec, drname)
      /\ status = StatusNow(mode, recs, nrec, rname)
  BY DEF TreeInv
<1>1. dirty = {} /\ dirty' = {}
  BY <1>0 DEF Load, LoadFresh, WriteInit, LoadSaved, LoadRejected, LoadWild, SavedFiles,
              StoreInv, NameInv, DiskInv, QuietUnlessUp
<1>2. WrittenLast'
  BY <1>1 DEF WrittenLast
<1>3. /\ drecs \in Registry /\ drname \in Seq(Names \cup {0}) /\ dnrec \in 0 .. MaxRec
      /\ MaxRec \in Nat
  BY <1>0, StoreTypes DEF StoreInv
<1>4. CASE LoadFresh
  <2>1. dnrec = 0
    <3>1. ~(dnrec >= 2 /\ drname # <<>>)
      BY <1>3, <1>4 DEF LoadFresh
    <3> QED BY <1>0, <3>1 DEF StoreInv, NameInv, Begun
  <2>2. mode = "down" /\ mode' = "init" /\ dnrec' = dnrec /\ drecs' = drecs /\ recs' = InitRecords
    BY <1>4 DEF LoadFresh
  <2>3. tree = {} /\ status = "closed" /\ tree' = {} /\ status' = "closed"
    BY <1>0, <2>2 DEF Observed, TreeNow, StatusNow
  <2>4. durable = Promised!Whole({}) /\ durable' = Promised!Whole({})
    <3>1. 0 < 2
      OBVIOUS
    <3> QED BY <1>0, <2>1, <2>2, <3>1, EmptyReads DEF Observed
  <2>5. UNCHANGED <<tree, durable, status>>
    BY <2>3, <2>4
  <2> QED BY <1>0, <1>2, <2>2, <2>5, InitReads DEF Promised!vars
<1>5. CASE WriteInit
  <2>1. recs = InitRecords /\ nrec = 2 /\ rname = <<0>> /\ drname = <<0>> /\ dnrec = 0
    BY <1>0, <1>5 DEF WriteInit, StoreInv, Starting
  <2>2. /\ recs' = InitRecords /\ nrec' = 2 /\ rname' = <<0>> /\ drname' = <<0>>
        /\ drecs' = InitRecords /\ dnrec' = 2 /\ mode = "init" /\ mode' = "up"
    BY <1>5, <2>1 DEF WriteInit
  <2>3. durable = Promised!Whole({})
    <3>1. 0 < 2
      OBVIOUS
    <3> QED BY <1>0, <2>1, <3>1, EmptyReads
  <2>4. durable' = Promised!Whole({}) /\ tree' = {} /\ status' = "open"
    BY <2>2, InitReads, RegularReads DEF Observed
  <2>5. status = "closed"
    BY <1>0, <2>2 DEF StatusNow
  <2>6. Promised!Open
    BY <2>3, <2>4, <2>5 DEF Promised!Open, Promised!Whole
  <2> QED BY <1>2, <2>2, <2>6, InitReads DEF Promised!Next
<1>6. CASE LoadSaved
  <2>1. /\ mode = "down" /\ dnrec >= 2 /\ VerifyRec(drecs, dnrec, drname) = "ok"
        /\ recs' = drecs /\ nrec' = dnrec /\ rname' = drname /\ mode' = "up"
        /\ drecs' = drecs /\ dnrec' = dnrec /\ drname' = drname
    BY <1>6 DEF LoadSaved, SavedFiles, disk
  <2>2. ~Rejected(drecs, dnrec)
    BY <1>3, <2>1, RejectedVerdict
  <2>3. Regular(drecs, dnrec, drname)
    BY <1>0, <2>1, <2>2 DEF StoreInv, OnDisk, Fine
  <2>4. /\ status = "closed" /\ durable' = durable
        /\ tree' = TreeNow("up", drecs, dnrec, drname)
        /\ status' = StatusNow("up", drecs, dnrec, drname)
    BY <1>0, <2>1 DEF Observed, StatusNow
  <2>5. CASE Named(drecs, drname)
    <3>1. /\ durable = Promised!Whole(TreeOf(drecs, drname)) /\ tree' = TreeOf(drecs, drname)
          /\ status' = "open"
      BY <1>0, <1>3, <2>3, <2>4, <2>5, RegularReads
    <3>2. Promised!Open
      BY <2>4, <3>1 DEF Promised!Open, Promised!Whole
    <3> QED BY <1>0, <1>2, <2>1, <3>2 DEF Promised!Next
  <2>6. CASE ~Named(drecs, drname)
    <3>1. durable = Promised!Maimed /\ tree' = {} /\ status' = "maimed"
      BY <1>0, <1>3, <2>3, <2>4, <2>6, RegularReads
    <3>2. Promised!Open
      BY <2>4, <3>1 DEF Promised!Open, Promised!Maimed
    <3> QED BY <1>0, <1>2, <2>1, <3>2 DEF Promised!Next
  <2>7. [Promised!Next]_(Promised!vars)
    BY <2>5, <2>6
  <2> QED BY <1>0, <1>2, <2>1, <2>7
<1>7. CASE LoadRejected \/ LoadWild
  <2>1. /\ mode = "down" /\ mode' \in {"failed", "undefined"} /\ dnrec >= 2
        /\ VerifyRec(drecs, dnrec, drname) # "ok"
        /\ drecs' = drecs /\ dnrec' = dnrec /\ drname' = drname /\ recs' = recs
    BY <1>7 DEF LoadRejected, LoadWild, SavedFiles, disk, memory
  <2>2. durable = Promised!Refused /\ durable' = durable
    <3>1. ~(dnrec < 2)
      BY <1>3, <2>1
    <3> QED BY <1>0, <2>1, <3>1 DEF DurableNow, Promised!Refused, Observed
  <2>3. status = "closed" /\ tree' = {} /\ status' = "refused"
    BY <1>0, <2>1 DEF Observed, StatusNow, TreeNow
  <2>4. Promised!Open
    BY <2>2, <2>3 DEF Promised!Open, Promised!Refused
  <2> QED BY <1>0, <1>2, <2>1, <2>4 DEF Promised!Next
<1> QED BY <1>4, <1>5, <1>6, <1>7 DEF Load

LEMMA StopTree ==
  ASSUME TreeInv, Stop, Observed
  PROVE  [Promised!Next]_(Promised!vars) /\ AttrsIn(recs') /\ AttrsIn(drecs') /\ WrittenLast'
<1>1. /\ mode # "down" /\ mode' = "down" /\ recs' = NoRecords /\ dirty' = {}
      /\ drecs' = drecs /\ dnrec' = dnrec /\ drname' = drname /\ mode \in Modes
  BY DEF Stop, disk, TreeInv, StoreInv, NameInv, DiskInv, TypeOK
<1>2. tree' = {} /\ status' = "closed" /\ durable' = durable
  BY <1>1 DEF Observed, TreeInv, TreeNow, StatusNow
<1>3. AttrsIn(recs') /\ AttrsIn(drecs') /\ WrittenLast'
  BY <1>1, InitReads DEF TreeInv, WrittenLast
<1>4. CASE mode = "init"
  <2>1. tree = {} /\ status = "closed"
    BY <1>4 DEF TreeInv, TreeNow, StatusNow
  <2> QED BY <1>2, <1>3, <2>1 DEF Promised!vars
<1>5. CASE mode # "init"
  <2>1. status # "closed"
    BY <1>1, <1>5 DEF TreeInv, StatusNow, Modes
  <2>2. Promised!Close
    BY <1>2, <2>1 DEF Promised!Close
  <2> QED BY <1>3, <2>2 DEF Promised!Next
<1> QED BY <1>4, <1>5

(* addDir, addFile and their kin are insertions.                             *)
LEMMA NewAttrs ==
  /\ \A ignored \in BOOLEAN :
       AttrsOf([Blank EXCEPT !.isactive = TRUE, !.isdir = TRUE, !.isignore = ignored]) \in AnyAttrs
  /\ \A attr \in Attrs :
       AttrsOf([Blank EXCEPT !.isactive = TRUE, !.time = attr.time, !.sub = attr.size]) \in AnyAttrs
  /\ AttrsOf([Blank EXCEPT !.isactive = TRUE, !.isignore = TRUE]) \in AnyAttrs
  /\ AttrsOf([Blank EXCEPT !.isactive = TRUE, !.ispending = TRUE]) \in AnyAttrs
<1>1. ASSUME NEW ignored \in BOOLEAN
      PROVE  AttrsOf([Blank EXCEPT !.isactive = TRUE, !.isdir = TRUE, !.isignore = ignored]) \in AnyAttrs
  BY DEF AttrsOf, AnyAttrs, Blank
<1>2. ASSUME NEW attr \in Attrs
      PROVE  AttrsOf([Blank EXCEPT !.isactive = TRUE, !.time = attr.time, !.sub = attr.size]) \in AnyAttrs
  <2>1. attr = [time |-> attr.time, size |-> attr.size]
    BY AttrsAssumption
  <2> QED BY <2>1 DEF AttrsOf, AnyAttrs, Blank
<1>3. AttrsOf([Blank EXCEPT !.isactive = TRUE, !.isignore = TRUE]) \in AnyAttrs
  BY DEF AttrsOf, AnyAttrs, Blank
<1>4. AttrsOf([Blank EXCEPT !.isactive = TRUE, !.ispending = TRUE]) \in AnyAttrs
  BY DEF AttrsOf, AnyAttrs, Blank
<1> QED BY <1>1, <1>2, <1>3, <1>4

LEMMA OperationTree ==
  ASSUME TreeInv, Operation, Observed
  PROVE  [Promised!Next]_(Promised!vars) /\ AttrsIn(recs') /\ AttrsIn(drecs') /\ WrittenLast'
<1>1. AttrsIn(drecs')
  <2>1. ASSUME NEW pid, NEW n, NEW new, Insert(pid, n, new) PROVE drecs' = drecs
    BY <2>1 DEF Insert
  <2>2. ASSUME NEW pid, NEW n,
               \/ \E ignored \in BOOLEAN : AddDir(pid, n, ignored)
               \/ \E attr \in Attrs : AddFile(pid, n, attr)
               \/ AddIgnoredFile(pid, n)
               \/ AddLockedFile(pid, n)
        PROVE  drecs' = drecs
    BY <2>1, <2>2, Zenon DEF AddDir, AddFile, AddIgnoredFile, AddLockedFile
  <2>3. ASSUME NEW rid, NEW attr, ModFile(rid, attr) PROVE drecs' = drecs
    BY <2>3 DEF ModFile, disk
  <2>4. ASSUME NEW rid, Remove(rid) PROVE drecs' = drecs
    BY <2>4 DEF Remove
  <2>5. drecs' = drecs
    BY <2>2, <2>3, <2>4 DEF Operation
  <2> QED BY <2>5 DEF TreeInv
<1>2. ASSUME NEW pid \in Parents, NEW n \in Names, NEW ignored \in BOOLEAN, AddDir(pid, n, ignored)
      PROVE  [Promised!Next]_(Promised!vars) /\ AttrsIn(recs') /\ WrittenLast'
  <2>1. PICK new : new = [Blank EXCEPT !.isactive = TRUE, !.isdir = TRUE, !.isignore = ignored]
    OBVIOUS
  <2>2. new \in RecordItem /\ new.isactive /\ (new.isdir => new.sub = 0)
    BY <2>1, NewRecordTypes, Zenon
  <2>3. AttrsOf(new) \in AnyAttrs
    BY <2>1, NewAttrs, Zenon
  <2>4. Insert(pid, n, new)
    BY <1>2, <2>1 DEF AddDir
  <2> QED BY <2>2, <2>3, <2>4, InsertTree
<1>3. ASSUME NEW pid \in Parents, NEW n \in Names, NEW attr \in Attrs, AddFile(pid, n, attr)
      PROVE  [Promised!Next]_(Promised!vars) /\ AttrsIn(recs') /\ WrittenLast'
  <2>1. PICK new : new = [Blank EXCEPT !.isactive = TRUE, !.time = attr.time, !.sub = attr.size]
    OBVIOUS
  <2>2. new \in RecordItem /\ new.isactive /\ (new.isdir => new.sub = 0)
    BY <2>1, NewRecordTypes, Zenon
  <2>3. AttrsOf(new) \in AnyAttrs
    BY <2>1, NewAttrs, Zenon
  <2>4. Insert(pid, n, new)
    BY <1>3, <2>1 DEF AddFile
  <2> QED BY <2>2, <2>3, <2>4, InsertTree
<1>4. ASSUME NEW pid \in Parents, NEW n \in Names, AddIgnoredFile(pid, n)
      PROVE  [Promised!Next]_(Promised!vars) /\ AttrsIn(recs') /\ WrittenLast'
  <2>1. PICK new : new = [Blank EXCEPT !.isactive = TRUE, !.isignore = TRUE]
    OBVIOUS
  <2>2. new \in RecordItem /\ new.isactive /\ (new.isdir => new.sub = 0)
    BY <2>1, NewRecordTypes, Zenon
  <2>3. AttrsOf(new) \in AnyAttrs
    BY <2>1, NewAttrs, Zenon
  <2>4. Insert(pid, n, new)
    BY <1>4, <2>1 DEF AddIgnoredFile
  <2> QED BY <2>2, <2>3, <2>4, InsertTree
<1>5. ASSUME NEW pid \in Parents, NEW n \in Names, AddLockedFile(pid, n)
      PROVE  [Promised!Next]_(Promised!vars) /\ AttrsIn(recs') /\ WrittenLast'
  <2>1. PICK new : new = [Blank EXCEPT !.isactive = TRUE, !.ispending = TRUE]
    OBVIOUS
  <2>2. new \in RecordItem /\ new.isactive /\ (new.isdir => new.sub = 0)
    BY <2>1, NewRecordTypes, Zenon
  <2>3. AttrsOf(new) \in AnyAttrs
    BY <2>1, NewAttrs, Zenon
  <2>4. Insert(pid, n, new)
    BY <1>5, <2>1 DEF AddLockedFile
  <2> QED BY <2>2, <2>3, <2>4, InsertTree
<1> QED BY <1>1, <1>2, <1>3, <1>4, <1>5, ModTree, RemoveTree DEF Operation

LEMMA TreeInvInit == TreeInit => TreeInv /\ Promised!Init
<1> SUFFICES ASSUME TreeInit PROVE TreeInv /\ Promised!Init
  OBVIOUS
<1>1. StoreInv /\ mode = "down" /\ recs = NoRecords /\ drecs = NoRecords /\ dnrec = 0 /\ dirty = {}
  BY StoreInvInit DEF TreeInit, Init
<1>2. tree = {} /\ status = "closed" /\ durable = DurableNow(drecs, dnrec, drname)
  BY DEF TreeInit
<1>3. TreeNow(mode, recs, nrec, rname) = {} /\ StatusNow(mode, recs, nrec, rname) = "closed"
  BY <1>1 DEF TreeNow, StatusNow
<1>4. durable = Promised!Whole({})
  <2>1. 0 < 2
    OBVIOUS
  <2> QED BY <1>1, <1>2, <2>1, EmptyReads
<1> QED BY <1>1, <1>2, <1>3, <1>4, InitReads DEF TreeInv, WrittenLast, Promised!Init

LEMMA TreeInvStep ==
  TreeInv /\ [TreeNext]_<<vars, tree, durable, status>> => TreeInv' /\ [Promised!Next]_(Promised!vars)
<1> SUFFICES ASSUME TreeInv, [TreeNext]_<<vars, tree, durable, status>>
             PROVE  TreeInv' /\ [Promised!Next]_(Promised!vars)
  OBVIOUS
<1>1. CASE TreeNext
  <2>1. Next /\ Observed
    BY <1>1 DEF TreeNext, Observed
  <2>2. StoreInv'
    BY <2>1, StoreInvStep DEF TreeInv
  <2>3. [Promised!Next]_(Promised!vars) /\ AttrsIn(recs') /\ AttrsIn(drecs') /\ WrittenLast'
    BY <2>1, OperationTree, WriteTree, LoadTree, StopTree DEF Next
  <2> QED BY <2>1, <2>2, <2>3 DEF TreeInv, Observed
<1>2. CASE UNCHANGED <<vars, tree, durable, status>>
  <2>1. StoreInv'
    BY <1>2, StoreInvStep DEF TreeInv
  <2>2. /\ UNCHANGED <<mode, recs, nrec, rname, dirty, drecs, dnrec, drname>>
        /\ UNCHANGED <<tree, durable, status>>
    BY <1>2 DEF vars, memory, disk
  <2>3. WrittenLast'
    BY <2>2 DEF TreeInv, WrittenLast
  <2> QED BY <2>1, <2>2, <2>3 DEF TreeInv, Promised!vars
<1> QED BY <1>1, <1>2

(***************************************************************************)
(* The registry of class Root keeps the promise of BackupTree: read off     *)
(* memory and off the files as load() would, every step of addDir, addFile,  *)
(* modFile, delDir, delFile, of writeRec between two records, of load and of *)
(* a stop is a step of the tree of entries or none.  So an operation changes *)
(* one entry and no other, however it relinks the siblings and recycles the  *)
(* records, and a stop in the middle of it can lose that entry's change,     *)
(* leave that entry nameless or make load() refuse the files, and nothing   *)
(* else, for every size of the registry, set of names and set of attributes. *)
(***************************************************************************)
THEOREM TreeImplemented == TreeSpec => ImplementsTree
<1>1. TreeInit => TreeInv /\ Promised!Init
  BY TreeInvInit
<1>2. TreeInv /\ [TreeNext]_<<vars, tree, durable, status>> =>
        TreeInv' /\ [Promised!Next]_(Promised!vars)
  BY TreeInvStep
<1> QED BY <1>1, <1>2, PTL DEF TreeSpec, ImplementsTree, Promised!Spec
=============================================================================
