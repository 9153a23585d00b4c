----------------------------- MODULE RootStore -----------------------------
(***************************************************************************)
(* The registry of one backup root and its two files, "record" and          *)
(* "rname" (class Root, libaresq/Root.cpp).                                *)
(*                                                                         *)
(* Every change of the registry is made in memory first.  Names go to disk *)
(* at once (allocRName, eraseName); the records an operation changed, its   *)
(* cids, are written by writeRec afterwards, one by one in ascending order. *)
(* The process may stop between any two of these writes, and load() reads  *)
(* whatever the files then hold.                                           *)
(*                                                                         *)
(* The actions are the registry halves of addDir, addFile, delDir and       *)
(* delFile.  What decides that they are called, the walk over the local     *)
(* tree and the answers of the remote, is left open here.                  *)
(***************************************************************************)
EXTENDS RootRecords, Sequences, FiniteSets

CONSTANTS
  Attrs,      \* what addFile records of a file: its time and its size modulo 2^24
  MaxRName    \* bound of the exploration: rname holds at most this many names

ASSUME AttrsAssumption == Attrs \subseteq [time : Nat, size : Nat]
ASSUME MaxRNameAssumption == MaxRName \in Nat \ {0}

VARIABLES
  recs, nrec,      \* _records: its slots and its size
  rname,           \* _rname: the name at each offset, the empty name where erased
  drecs, dnrec,    \* the file "record"; dnrec = 0 also when it does not exist
  drname,          \* the file "rname"
  dirty,           \* the ids of cids that writeRec has not written yet
  mode             \* what the process is doing, see Modes

memory == <<recs, nrec, rname>>
disk == <<drecs, dnrec, drname>>
vars == <<recs, nrec, rname, drecs, dnrec, drname, dirty, mode>>

(***************************************************************************)
(*   down       no Root object exists                                      *)
(*   init       init() has written rname and not yet record                *)
(*   up         load() returned 0                                          *)
(*   failed     load() returned -1: Aresq::init gives up                   *)
(*   undefined  verifyrec() read a record beyond the end of the vector     *)
(***************************************************************************)
Modes == {"down", "init", "up", "failed", "undefined"}

NoRecords == [r \in Ids |-> Blank]

TypeOK ==
  /\ recs \in [Ids -> RecordItem] /\ nrec \in 0 .. MaxRec
  /\ drecs \in [Ids -> RecordItem] /\ dnrec \in 0 .. MaxRec
  /\ rname \in Seq(Names \cup {0})
  /\ drname \in Seq(Names \cup {0})
  /\ dirty \subseteq Ids
  /\ mode \in Modes

NameAt(names, offset) == IF offset < Len(names) THEN names[offset + 1] ELSE 0
NameOf(r) == NameAt(rname, recs[r].name)      \* getName
NamesNow == [r \in Ids |-> NameOf(r)]

-----------------------------------------------------------------------------
(***************************************************************************)
(* verifyrec: count the recycle list, then walk the tree from the root      *)
(* with a stack of the directories entered.  Neither walk checks an id      *)
(* against the size of the vector: a link that leaves it is "ub".          *)
(***************************************************************************)
RecycleWalk(R, size) ==
  LET walk[k \in 0 .. MaxRec] ==
        IF k = 0 THEN [id |-> R[0].next, nrecy |-> 1, is |-> "walking"]
        ELSE LET w == walk[k - 1] IN
             CASE w.is # "walking" -> w
               [] w.is = "walking" /\ w.id = 0 -> [w EXCEPT !.is = "ok"]
               [] w.is = "walking" /\ w.id >= size -> [w EXCEPT !.is = "ub"]
               [] w.is = "walking" /\ w.id \in 1 .. size - 1 ->
                    IF R[w.id].isactive THEN [w EXCEPT !.is = "bad"]
                    ELSE [w EXCEPT !.id = R[w.id].next, !.nrecy = @ + 1]
  IN walk[MaxRec]

VisitRecord(R, names, w) ==
  LET r == R[w.id]
      loopback == r.islast /\ w.trace # <<>> /\ r.next # w.trace[1]
  IN CASE ~r.isactive \/ r.name >= Len(names) \/ loopback -> [w EXCEPT !.is = "bad"]
       [] OTHER ->
            [w EXCEPT !.n = @ + 1,
                      !.id = IF r.isdir /\ r.sub # 0 THEN r.sub
                             ELSE NextSibling(R, w.id),
                      !.trace = IF r.isdir /\ r.sub # 0 THEN <<w.id>> \o @ ELSE @]

TreeWalk(R, size, names) ==
  LET walk[k \in 0 .. 2 * MaxRec + 2] ==
        IF k = 0 THEN [id |-> ROOT, trace |-> <<>>, n |-> 0, is |-> "walking"]
        ELSE LET w == walk[k - 1] IN
             CASE w.is # "walking" -> w
               [] w.is = "walking" /\ w.id = 0 /\ w.trace = <<>> -> [w EXCEPT !.is = "ok"]
               [] w.is = "walking" /\ w.id = 0 /\ w.trace # <<>> ->
                    [w EXCEPT !.id = NextSibling(R, w.trace[1]), !.trace = Tail(@)]
               [] w.is = "walking" /\ w.id >= size -> [w EXCEPT !.is = "ub"]
               [] w.is = "walking" /\ w.id \in 1 .. size - 1 -> VisitRecord(R, names, w)
  IN walk[2 * MaxRec + 2]

VerifyRec(R, size, names) ==
  LET recycled == RecycleWalk(R, size)
      tree == TreeWalk(R, size, names)
  IN CASE recycled.is # "ok" -> recycled.is
       [] recycled.is = "ok" /\ tree.is # "ok" -> tree.is
       [] OTHER -> IF tree.n + recycled.nrecy = size THEN "ok" ELSE "bad"

(* verifydir: children named, in ascending order, the last one looping back. *)
VerifyDir(pid) ==
  LET chain == Chain(recs, pid)
      Child(n) == chain[n] # 0
  IN /\ recs[pid].isdir
     /\ \A n \in 0 .. MaxRec : Child(n) =>
          /\ NameOf(chain[n]) # 0
          /\ recs[chain[n]].islast => recs[chain[n]].next = pid
          /\ n > 0 => NameOf(chain[n - 1]) < NameOf(chain[n])

-----------------------------------------------------------------------------
Init ==
  /\ recs = NoRecords /\ nrec = 0 /\ rname = <<>>
  /\ drecs = NoRecords /\ dnrec = 0 /\ drname = <<>>
  /\ dirty = {}
  /\ mode = "down"

(* load() finds no usable files: init() starts an empty root, rname first. *)
LoadFresh ==
  /\ mode = "down"
  /\ dnrec < 2 \/ drname = <<>>
  /\ recs' = InitRecords /\ nrec' = 2 /\ rname' = <<0>>
  /\ drname' = <<0>>
  /\ mode' = "init"
  /\ UNCHANGED <<drecs, dnrec, dirty>>

WriteInit ==
  /\ mode = "init"
  /\ drecs' = recs /\ dnrec' = nrec
  /\ mode' = "up"
  /\ UNCHANGED <<recs, nrec, rname, drname, dirty>>

SavedFiles == mode = "down" /\ dnrec >= 2 /\ drname # <<>>

LoadSaved ==
  /\ SavedFiles
  /\ VerifyRec(drecs, dnrec, drname) = "ok"
  /\ recs' = drecs /\ nrec' = dnrec /\ rname' = drname
  /\ mode' = "up"
  /\ UNCHANGED <<disk, dirty>>

(* ERROR_CLEAR, also a possible end of a walk that left the vector. *)
LoadRejected ==
  /\ SavedFiles
  /\ VerifyRec(drecs, dnrec, drname) # "ok"
  /\ mode' = "failed"
  /\ UNCHANGED <<memory, disk, dirty>>

LoadWild ==
  /\ SavedFiles
  /\ VerifyRec(drecs, dnrec, drname) = "ub"
  /\ mode' = "undefined"
  /\ UNCHANGED <<memory, disk, dirty>>

-----------------------------------------------------------------------------
Idle == mode = "up" /\ dirty = {}

(* The ids of the vector.  The code follows links without testing them      *)
(* against its size; RegistryWellFormed says that none leaves it.           *)
Slots == 0 .. nrec - 1

(* Where a new entry named n goes below pid: findRecord without a match.    *)
IsPre(pid, n, pre) ==
  LET found == FindRecord(recs, NamesNow, pid, n)
  IN found.type # "FR_MATCH" /\ found.id = pre

(* An entry's parents are found or made by addDir(..., isignore = false).   *)
Parents == {p \in Dirs(recs) : ~recs[p].isignore}

NameBaseByCount == Cardinality(Active(recs))      \* faulty: assumes that no name was erased

(* allocRName appends; names are never moved, and an erased one stays.      *)
NameBase == Len(rname)

(* Faulty: the head of the recycle list is not among the changed ids. *)
ChangedByInsertNoHead(rid, pre) == {rid, pre}

ChangedByInsert(rid, pre) ==
  {rid, pre} \cup (IF rid = recs[0].next THEN {0} ELSE {})

(***************************************************************************)
(* The registry half of addDir and of addFile for a new entry: allocRec,    *)
(* allocRName (which writes rname), the links; cids are the record itself, *)
(* the record it is linked behind and, when an id was reused, record 0.     *)
(***************************************************************************)
Insert(pid, n, new) ==
  LET rid == NewId(recs, nrec) IN
  /\ Idle
  /\ rid \in Slots \cup {nrec}
  /\ rid < MaxRec /\ Len(rname) <= MaxRName
  /\ \E pre \in Slots :
       /\ IsPre(pid, n, pre)
       /\ recs' = LinkRecord(
                    AllocRec(recs, rid, [new EXCEPT !.name = NameBase]),
                    pid, pre, rid)
       /\ dirty' = ChangedByInsert(rid, pre)
  /\ nrec' = IF rid = nrec THEN nrec + 1 ELSE nrec
  /\ rname' = Append(rname, n)
  /\ drname' = Append(drname, n)
  /\ UNCHANGED <<drecs, dnrec, mode>>

(* A directory's time is never compared with anything; it stays 0 here.     *)
AddDir(pid, n, ignored) ==
  Insert(pid, n, [Blank EXCEPT !.isactive = TRUE, !.isdir = TRUE, !.isignore = ignored])

(* An ignored file keeps time and size 0, and so does a new one whose        *)
(* upload failed because the file is locked (ispending).                   *)
AddFile(pid, n, attr) ==
  Insert(pid, n, [Blank EXCEPT !.isactive = TRUE, !.time = attr.time, !.sub = attr.size])

AddIgnoredFile(pid, n) ==
  Insert(pid, n, [Blank EXCEPT !.isactive = TRUE, !.isignore = TRUE])

AddLockedFile(pid, n) ==
  Insert(pid, n, [Blank EXCEPT !.isactive = TRUE, !.ispending = TRUE])

(* Faulty: a file that could not be read gets its new time and size. *)
ModFileLockedAttr(rid, attr) ==
  /\ Idle
  /\ recs[rid].isactive /\ ~recs[rid].isdir /\ ~recs[rid].isignore
  /\ \E locked \in BOOLEAN :
       recs' = [recs EXCEPT ![rid] = [@ EXCEPT !.ispending = locked,
                                      !.time = attr.time, !.sub = attr.size]]
  /\ dirty' = {rid}
  /\ UNCHANGED <<nrec, rname, disk, mode>>

(* addFile of an entry already there whose time or size differs.            *)
ModFile(rid, attr) ==
  /\ Idle
  /\ recs[rid].isactive /\ ~recs[rid].isdir /\ ~recs[rid].isignore
  /\ recs[rid].time # attr.time \/ recs[rid].sub # attr.size
  /\ \/ recs' = [recs EXCEPT ![rid] = [@ EXCEPT !.ispending = FALSE,
                                                !.time = attr.time, !.sub = attr.size]]
     \/ recs' = [recs EXCEPT ![rid] = [@ EXCEPT !.ispending = TRUE]]
  /\ dirty' = {rid}
  /\ UNCHANGED <<nrec, rname, disk, mode>>

(***************************************************************************)
(* The registry half of delFile, and of delDir once its directory is empty: *)
(* unlink, eraseName (which writes rname), recycleRec.  The guard on the    *)
(* name is the AuVerify that the name is not empty.                        *)
(***************************************************************************)
ChangedByRemove(rid, pre, rpre) == {rid, pre, rpre}

Remove(rid) ==
  /\ Idle
  /\ recs[rid].isactive /\ rid # ROOT
  /\ NameOf(rid) # 0
  /\ recs[rid].isdir => recs[rid].sub = 0
  /\ \E pid \in Dirs(recs), pre \in Slots, rpre \in Slots :
       /\ IsLinkTo(recs, rid, pid, pre)
       /\ IsRecyclePre(recs, rid, rpre)
       /\ recs' = RecycleRec(UnlinkRecord(recs, pid, pre, rid), rpre, rid)
       /\ dirty' = ChangedByRemove(rid, pre, rpre)
  /\ rname' = [rname EXCEPT ![recs[rid].name + 1] = 0]
  /\ drname' = [drname EXCEPT ![recs[rid].name + 1] = 0]
  /\ UNCHANGED <<nrec, drecs, dnrec, mode>>

-----------------------------------------------------------------------------
(* Faulty: appends the record instead of writing it in its place. *)
WriteRecAppends ==
  /\ mode = "up"
  /\ \E c \in dirty :
       /\ drecs' = [drecs EXCEPT ![dnrec] = recs[c]]
       /\ dnrec' = dnrec + 1
       /\ dirty' = dirty \ {c}
  /\ UNCHANGED <<memory, drname, mode>>

(* writeRec: the next record, in ascending order of the ids. *)
WriteRec ==
  /\ mode = "up"
  /\ \E c \in dirty :
       /\ \A d \in dirty : c <= d
       /\ drecs' = [drecs EXCEPT ![c] = recs[c]]
       /\ dnrec' = IF c >= dnrec THEN c + 1 ELSE dnrec
       /\ dirty' = dirty \ {c}
  /\ UNCHANGED <<memory, drname, mode>>

(* The process ends, between operations or in the middle of one, and drops  *)
(* its memory.                                                             *)
Stop ==
  /\ mode # "down"
  /\ recs' = NoRecords /\ nrec' = 0 /\ rname' = <<>>
  /\ dirty' = {}
  /\ mode' = "down"
  /\ UNCHANGED disk

Operation ==
  \/ \E pid \in Parents, n \in Names :
       \/ \E ignored \in BOOLEAN : AddDir(pid, n, ignored)
       \/ \E attr \in Attrs : AddFile(pid, n, attr)
       \/ AddIgnoredFile(pid, n)
       \/ AddLockedFile(pid, n)
  \/ \E rid \in Slots, attr \in Attrs : ModFile(rid, attr)
  \/ \E rid \in Slots : Remove(rid)

Load == LoadFresh \/ WriteInit \/ LoadSaved \/ LoadRejected \/ LoadWild

Next == Load \/ Operation \/ WriteRec \/ Stop

Spec == Init /\ [][Next]_vars

-----------------------------------------------------------------------------
(***************************************************************************)
(* Properties.                                                             *)
(***************************************************************************)

(* While the root is loaded the files differ from memory at most in the     *)
(* records writeRec still has to write; between operations they are equal,  *)
(* which is what ~Root asserts in a debug build.  It fails as soon as an    *)
(* operation changes a record and forgets its id.                          *)
DiskTrailsMemory ==
  mode = "up" =>
    /\ \A r \in Ids \ dirty : drecs[r] = recs[r]
    /\ dirty = {} => dnrec = nrec
    /\ drname = rname

(* No active record but the root directory is nameless.                     *)
OnlyRootNameless == \A r \in Active(recs) \ {ROOT} : NameOf(r) # 0

(* What verifyrec and verifydir test holds after every operation, not only  *)
(* at the places that assert it: every record is in the tree or in the      *)
(* recycle list and in one of them once, siblings are in ascending order,  *)
(* and the last one leads back to its directory.                           *)
RegistryWellFormed ==
  mode = "up" /\ OnlyRootNameless =>
    /\ VerifyRec(recs, nrec, rname) = "ok"
    /\ \A pid \in Dirs(recs) : VerifyDir(pid)

(* A record id and the offset of a name have one owner.                     *)
NamesNotShared ==
  mode = "up" /\ OnlyRootNameless =>
    \A r, s \in Active(recs) : r # s => recs[r].name # recs[s].name

(* On disk a record leads to the slot right behind the vector: the process    *)
(* ended between writing that record and appending the one it is linked to.   *)
PointsAt(R, r, id) ==
  \/ R[r].isdir /\ R[r].sub = id
  \/ ~R[r].islast /\ R[r].next = id
AppendCut(R, size) == \E r \in Active(R) : PointsAt(R, r, size)

(* verifyrec has no bound of its own and tests no link.  Whatever a stop left  *)
(* in the files, its walks end and read no record outside the vector; but a   *)
(* stop that cut off an append leaves a link out of it, and nothing else does. *)
VerifyEnds ==
  SavedFiles /\ ~AppendCut(drecs, dnrec) =>
    VerifyRec(drecs, dnrec, drname) \in {"ok", "bad"}

(* The assertion load() makes when verifyrec fails: saved files verify.     *)
SavedFilesVerify == SavedFiles => VerifyRec(drecs, dnrec, drname) # "bad"

(* The comment in verifydir: "only loopback record has no name".            *)
OnlyLoopbackNameless == mode = "up" => OnlyRootNameless
=============================================================================
