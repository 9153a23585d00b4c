---------------------------- MODULE RootRecords ----------------------------
(***************************************************************************)
(* The local registry of one backup root: the vector _records of 16-byte   *)
(* RecordItems (record.h) and the operators of Root.cpp that read and       *)
(* rewrite its links.  A directory record points at its first child with    *)
(* sub; a child points at its next sibling with next, and the next of the   *)
(* last child points back at the directory.  Record 0 heads the list of     *)
(* recycled records, record 1 is the root directory.                        *)
(*                                                                         *)
(* The registry is a function on Ids together with the vector's size: a     *)
(* slot at or beyond the size is Blank.  A name is its rank in the order    *)
(* of pathCmpDp, 0 being the empty name.                                   *)
(***************************************************************************)
EXTENDS Naturals

CONSTANTS
  MaxRec,   \* number of record ids: 2^24 in the code, AuVerify(nid < (1 << 24))
  Names     \* the names entries may carry

ASSUME MaxRecAssumption == MaxRec \in Nat /\ MaxRec >= 2
ASSUME NamesAssumption == Names \subseteq Nat \ {0}

Ids == 0 .. MaxRec - 1
ROOT == 1

(***************************************************************************)
(* A record.  name is an offset into _rname, 0 being the offset of the     *)
(* empty name.  sub and size24 occupy the same three bytes: sub of a file   *)
(* record is the file's size.  Nothing in the format keeps next and sub     *)
(* within the vector.                                                      *)
(***************************************************************************)
RecordItem ==
  [name : Nat, time : Nat, next : Nat, sub : Nat, isdir : BOOLEAN,
   isactive : BOOLEAN, isignore : BOOLEAN, ispending : BOOLEAN, islast : BOOLEAN]

Blank ==
  [name |-> 0, time |-> 0, next |-> 0, sub |-> 0, isdir |-> FALSE,
   isactive |-> FALSE, isignore |-> FALSE, ispending |-> FALSE, islast |-> FALSE]

InitRecords ==
  [r \in Ids |-> IF r = ROOT THEN [Blank EXCEPT !.isdir = TRUE, !.isactive = TRUE]
                             ELSE Blank]

Active(recs) == {r \in Ids : recs[r].isactive}
Dirs(recs) == {r \in Active(recs) : recs[r].isdir}

NextSibling(recs, r) == IF recs[r].islast THEN 0 ELSE recs[r].next

-----------------------------------------------------------------------------
(***************************************************************************)
(* Walks.  The loops of the code follow next from sibling to sibling, from  *)
(* the first child of a directory on or from a record they stopped at.      *)
(* From(recs, rid)[n] is where n such steps lead.                          *)
(***************************************************************************)
From(recs, rid) ==
  LET next == [r \in Ids |-> IF r = 0 THEN 0 ELSE NextSibling(recs, r)]
      nth[n \in 0 .. MaxRec] == IF n = 0 THEN rid ELSE next[nth[n - 1]]
  IN nth

Chain(recs, pid) == From(recs, recs[pid].sub)

Children(recs, pid) == {Chain(recs, pid)[n] : n \in 0 .. MaxRec} \ {0}

(***************************************************************************)
(* findRecord: walk the children of pid until one is named n (FR_MATCH) or *)
(* sorts after n; without a match the answer is the record the walk came   *)
(* from, a sibling (FR_PRE) or the directory itself (FR_PARENT).  names is   *)
(* the name of each record.                                                *)
(***************************************************************************)
FindRecord(recs, names, pid, n) ==
  LET chain == Chain(recs, pid)
      stop == CHOOSE i \in 0 .. MaxRec :
                /\ chain[i] = 0 \/ n <= names[chain[i]]
                /\ \A j \in 0 .. i - 1 : chain[j] # 0 /\ n > names[chain[j]]
  IN IF chain[stop] # 0 /\ names[chain[stop]] = n
     THEN [id |-> chain[stop], type |-> "FR_MATCH"]
     ELSE IF stop = 0 THEN [id |-> pid, type |-> "FR_PARENT"]
                      ELSE [id |-> chain[stop - 1], type |-> "FR_PRE"]

-----------------------------------------------------------------------------
(***************************************************************************)
(* allocRec: the head of the recycle list if there is one, otherwise the   *)
(* slot at the end of the vector.                                          *)
(***************************************************************************)
NewId(recs, size) == IF recs[0].next # 0 THEN recs[0].next ELSE size

AllocRec(recs, rid, new) ==
  [r \in Ids |->
     IF r = rid THEN new
     ELSE IF r = 0 /\ recs[0].next # 0
          THEN [recs[0] EXCEPT !.next = recs[rid].next]
          ELSE recs[r]]

(* Faulty: the record rid goes behind stays marked as the last one. *)
LinkRecordKeepsLast(recs, pid, pre, rid) ==
  IF pre = pid
  THEN [recs EXCEPT ![rid].next = IF recs[pid].sub = 0 THEN pid ELSE recs[pid].sub,
                    ![rid].islast = (recs[pid].sub = 0), ![pid].sub = rid]
  ELSE [recs EXCEPT ![rid].next = recs[pre].next, ![rid].islast = recs[pre].islast,
                    ![pre].next = rid]

(* Insert rid under pid behind pre, which is pid itself for the first place. *)
LinkRecord(recs, pid, pre, rid) ==
  LET head == recs[pid].sub
      new == IF pre = pid
             THEN [recs[rid] EXCEPT !.next = IF head = 0 THEN pid ELSE head,
                                    !.islast = (head = 0)]
             ELSE [recs[rid] EXCEPT !.next = recs[pre].next, !.islast = recs[pre].islast]
      before == IF pre = pid
                THEN [recs[pre] EXCEPT !.sub = rid]
                ELSE [recs[pre] EXCEPT !.next = rid, !.islast = FALSE]
  IN [recs EXCEPT ![rid] = new, ![pre] = before]

(* Where the search of delDir and delFile for the link to rid ends: at the   *)
(* directory, or at a sibling.                                             *)
IsLinkTo(recs, rid, pid, pre) ==
  \/ pre = pid /\ recs[pid].sub = rid
  \/ pre # pid /\ pre \in Children(recs, pid) /\ NextSibling(recs, pre) = rid

(* Faulty: removing the last sibling does not make its predecessor the last. *)
UnlinkRecordForgetsLast(recs, pid, pre, rid) ==
  IF pre = pid THEN [recs EXCEPT ![pid].sub = NextSibling(recs, rid)]
               ELSE [recs EXCEPT ![pre].next = recs[rid].next]

(* Take rid out of the list of pid; pre is the record whose link leads to it. *)
UnlinkRecord(recs, pid, pre, rid) ==
  IF pre = pid
  THEN [recs EXCEPT ![pid] = [@ EXCEPT !.sub = NextSibling(recs, rid)]]
  ELSE [recs EXCEPT ![pre] = [@ EXCEPT !.next = recs[rid].next,
                                       !.islast = recs[rid].islast]]

(* Where rid goes in the recycle list, which is in ascending order. *)
IsRecyclePre(recs, rid, rpre) ==
  /\ rpre = 0 \/ ~recs[rpre].isactive
  /\ rpre < rid
  /\ recs[rpre].next = 0 \/ recs[rpre].next > rid

(***************************************************************************)
(* recycleRec: rid goes into the recycle list behind rpre, and keeps what  *)
(* recycleRec does not write: its sub, its time and its other flags.       *)
(***************************************************************************)
RecycleRec(recs, rpre, rid) ==
  LET gone == [recs[rid] EXCEPT !.name = 0, !.isdir = TRUE, !.isactive = FALSE,
                                !.next = recs[rpre].next]
      before == [recs[rpre] EXCEPT !.next = rid]
  IN [recs EXCEPT ![rid] = gone, ![rpre] = before]
=============================================================================
