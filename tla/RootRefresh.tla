---------------------------- MODULE RootRefresh ----------------------------
(***************************************************************************)
(* One backup root at work: Aresq::run drives Root::refreshStep, which walks *)
(* the local tree with a stack of directories (restate) and proposes one    *)
(* action at a time, and Root::perform, which carries it out on the remote   *)
(* first and in the registry afterwards.  Meanwhile the user edits files,    *)
(* remote calls fail and the process may end between any two steps.         *)
(*                                                                         *)
(* A record commit is one step here; RootStore opens it up.  The name of a   *)
(* record is kept in the record itself instead of at an offset of rname.    *)
(***************************************************************************)
EXTENDS RootRecords, RemoteTree, FiniteSets

CONSTANTS
  Depth,        \* the longest path
  FailLimit,    \* recordFail gives up after so many failures of a path: 2
  AttrOf,       \* the time and size of each version of a file
  Restores,     \* may the user put an earlier version of a file back
  MaxEdits,     \* how often the user changes something
  Setups        \* the settings and surroundings a behaviour may have

ASSUME DepthAssumption == Depth \in Nat \ {0}
ASSUME BoundsAssumption == MaxEdits \in Nat /\ FailLimit \in Nat /\ Restores \in BOOLEAN

Versions == 1 .. MaxEdits
Paths == UNION {[1 .. d -> Names] : d \in 1 .. Depth}
ASSUME SetupsAssumption ==
  Setups \subseteq [keephist : BOOLEAN,            \* the setting general.history
                   ignorable : SUBSET Paths,      \* what the ignore file may come to match
                   silentdeldir : BOOLEAN,        \* may delDir return OK without having looked
                   faults : Nat]                  \* how often something fails
ASSUME AttrAssumption == AttrOf \in [Versions -> [time : Nat, size : Nat]]

VARIABLES
  setup,                    \* of Setups, for the whole behaviour
  local, ignored, edits,    \* the user's files, the ignored paths, edits made
  cur, hist,                \* the remote tree and what putHist has moved away
  recs, nrec,               \* the registry, as the files hold it
  pc,                       \* where the process is
  restate,                  \* the stack of directories being refreshed
  act,                      \* the action refreshStep returned
  fails,                    \* failstate: failures per path
  faults,                   \* faults injected so far
  overlooked,               \* delDir has returned OK without having looked
  quiet,                    \* no edit and no fault since startRefresh
  done                      \* the last run ended with refreshStep returning 0

user == <<local, ignored, edits>>
remote == <<cur, hist>>
registry == <<recs, nrec>>
walk == <<restate, fails>>
vars == <<setup, local, ignored, edits, cur, hist, recs, nrec, pc, restate, act, fails,
          faults, overlooked, quiet, done>>

KeepHist == setup.keephist
Ignorable == setup.ignorable
SilentDelDir == setup.silentdeldir
MaxFaults == setup.faults

NameOf(r) == recs[r].name
NamesNow == [r \in Ids |-> NameOf(r)]

-----------------------------------------------------------------------------
(***************************************************************************)
(* The local tree and its listing.                                         *)
(***************************************************************************)
IsLocalDir(p) == p = <<>> \/ (p \in Paths /\ local[p] = Dir)
Parent(p) == SubSeq(p, 1, Len(p) - 1)
IsFile(node) == node \notin {None, Dir}

Sorted(S) == CHOOSE s \in [1 .. Cardinality(S) -> S] :
               \A i, j \in 1 .. Cardinality(S) : i < j => s[i] < s[j]

(* ListDir, and the pass of INIT that marks what is ignored. *)
Listing(p) ==
  LET names == IF Len(p) < Depth THEN {n \in Names : local[Append(p, n)] # None} ELSE {}
      order == Sorted(names)
  IN [i \in 1 .. Cardinality(names) |->
        LET q == Append(p, order[i]) IN
        [name |-> order[i], isdir |-> local[q] = Dir, isignore |-> q \in ignored,
         attr |-> IF IsFile(local[q]) THEN AttrOf[local[q]] ELSE [time |-> 0, size |-> 0]]]

(***************************************************************************)
(* The registry: the record a path leads to, and the siblings from a record *)
(* on.                                                                     *)
(***************************************************************************)
RecordAt(p) ==
  LET Match(pid, n) == LET found == FindRecord(recs, NamesNow, pid, n)
                       IN IF found.type = "FR_MATCH" THEN found.id ELSE 0
      below[k \in DOMAIN p] ==
        [pid \in Ids |-> IF pid # 0 /\ recs[pid].isdir THEN Match(pid, p[k]) ELSE 0]
      at[k \in 0 .. Len(p)] == IF k = 0 THEN ROOT ELSE below[k][at[k - 1]]
  IN at[Len(p)]

(* The first record of S from rid on, 0 if there is none. *)
FirstFrom(rid, S) ==
  LET nth == From(recs, rid)
      hits == {k \in 0 .. MaxRec : nth[k] \in S \ {0}}
  IN IF hits = {} THEN 0 ELSE nth[CHOOSE k \in hits : \A j \in hits : k <= j]

LastFrom(rid) == FirstFrom(rid, {r \in Ids : NextSibling(recs, r) = 0})

(* The path of the directory at level i of restate. *)
PathAt(i) == [k \in 1 .. i - 1 |-> restate[k + 1].name]

-----------------------------------------------------------------------------
(***************************************************************************)
(* The stack.  A fresh RefreshIter is in stage INIT.                       *)
(***************************************************************************)
NewIter(rid) == [rid |-> rid, name |-> 0, stage |-> "INIT", prog |-> 0, files |-> <<>>]

NoAction == [type |-> "NONE", path |-> <<>>, isignore |-> FALSE, keephist |-> FALSE,
             attr |-> [time |-> 0, size |-> 0], pending |-> FALSE, histfailed |-> FALSE]

NoFails == [f \in {"file", "dir"} \X Paths |-> 0]

Top == restate[Len(restate)]
WithTop(it) == [restate EXCEPT ![Len(restate)] = it]
Popped == SubSeq(restate, 1, Len(restate) - 1)
TopPath == PathAt(Len(restate))

(* Back to the directory above, which starts again. *)
PoppedToInit == [Popped EXCEPT ![Len(restate) - 1] = [@ EXCEPT !.stage = "INIT", !.files = <<>>]]

(* recordFail, then either give up or go on with restate = after. *)
RecordFail(kind, path, after, goto) ==
  LET key == <<kind, path>> IN
  /\ fails' = [fails EXCEPT ![key] = @ + 1]
  /\ IF fails[key] >= FailLimit
     THEN pc' = "TooManyFails" /\ UNCHANGED restate
     ELSE pc' = goto /\ restate' = after

Init ==
  /\ setup \in Setups
  /\ local = [p \in Paths |-> None] /\ ignored = {} /\ edits = 0
  /\ cur = [p \in Paths |-> None] /\ hist = {}
  /\ recs = InitRecords /\ nrec = 2
  /\ pc = "idle" /\ restate = <<>> /\ act = NoAction /\ fails = NoFails
  /\ faults = 0 /\ overlooked = FALSE /\ quiet = FALSE /\ done = FALSE

-----------------------------------------------------------------------------
(***************************************************************************)
(* The user.                                                               *)
(***************************************************************************)
Edit ==
  /\ edits < MaxEdits
  /\ edits' = edits + 1
  /\ quiet' = FALSE
  /\ UNCHANGED <<remote, registry, walk, pc, act, faults, done>>

SaveFile(p) ==
  /\ Edit
  /\ IsLocalDir(Parent(p)) /\ local[p] # Dir
  /\ \E v \in {edits + 1} \cup (IF Restores THEN 1 .. edits ELSE {}) :
       v # local[p] /\ local' = [local EXCEPT ![p] = v]
  /\ UNCHANGED ignored

MakeDir(p) ==
  /\ Edit
  /\ IsLocalDir(Parent(p)) /\ local[p] = None
  /\ local' = [local EXCEPT ![p] = Dir]
  /\ UNCHANGED ignored

Delete(p) ==
  /\ Edit
  /\ local[p] # None
  /\ local' = Drop(local, p)
  /\ UNCHANGED ignored

(* The ignore file changes and has been read again (AresqIgnore). *)
ToggleIgnore(p) ==
  /\ Edit
  /\ ignored' = IF p \in ignored THEN ignored \ {p} ELSE ignored \cup {p}
  /\ UNCHANGED local

User ==
  \/ \E p \in Paths : SaveFile(p) \/ MakeDir(p) \/ Delete(p)
  \/ \E p \in Ignorable : ToggleIgnore(p)

-----------------------------------------------------------------------------
(***************************************************************************)
(* refreshStep.                                                            *)
(***************************************************************************)
Ended == {"idle", "TooManyFails", "RootFallback"}

(* startRefresh, of a new process; the end of a run is the end of the process. *)
Start ==
  /\ pc \in Ended
  /\ pc' = "step"
  /\ restate' = <<NewIter(ROOT)>> /\ act' = NoAction /\ fails' = NoFails
  /\ quiet' = TRUE /\ done' = FALSE
  /\ UNCHANGED <<user, remote, registry, faults>>

Working == UNCHANGED <<user, faults, quiet, done>>

(* Faulty: looks for the missing file again. *)
FallbackRetries ==
  /\ pc = "missing"
  /\ pc' = "attr"
  /\ Working /\ UNCHANGED <<remote, registry, walk, act>>

(* state = NOTFOUND: the file to back up is not there, list its directory's  *)
(* parent again.  For a file of the root there is no such entry to go to.    *)
Fallback ==
  /\ pc = "missing"
  /\ IF Len(restate) >= 2
     THEN RecordFail("file", act.path, PoppedToInit, "step")
     ELSE pc' = "RootFallback" /\ UNCHANGED walk
  /\ Working /\ UNCHANGED <<remote, registry, act>>

(* The checks of the stack at the beginning of a step. *)
IterOk(i) ==
  LET it == restate[i] IN
  /\ recs[it.rid].isactive /\ recs[it.rid].isdir
  /\ it.stage = "INIT" \/ it.name = NameOf(it.rid)
  /\ recs[LastFrom(it.rid)].next = restate[i - 1].rid

CheckStack ==
  /\ pc = "step"
  /\ LET bad == {i \in 2 .. Len(restate) : ~IterOk(i)} IN
     IF bad = {}
     THEN pc' = "stage" /\ UNCHANGED walk
     ELSE LET i == CHOOSE i \in bad : \A j \in bad : i <= j
          IN RecordFail("dir", PathAt(i),
               [SubSeq(restate, 1, i) EXCEPT ![i] = [@ EXCEPT !.stage = "REDOUPPER"]], "stage")
  /\ act' = NoAction
  /\ Working /\ UNCHANGED <<remote, registry>>

InStage(stage) == pc = "stage" /\ Top.stage = stage
StackOnly == Working /\ UNCHANGED <<remote, registry, act>>

(* INIT: list the directory, or send the walk back if it is gone. *)
InitPath ==
  IF Len(restate) = 1 THEN <<>> ELSE Append(PathAt(Len(restate) - 1), NameOf(Top.rid))

InitList ==
  /\ InStage("INIT")
  /\ IsLocalDir(InitPath)
  /\ restate' = WithTop([rid |-> Top.rid, name |-> NameOf(Top.rid), stage |-> "REMOVE",
                         prog |-> 0, files |-> Listing(InitPath)])
  /\ StackOnly /\ UNCHANGED <<pc, fails>>

InitGone ==
  /\ InStage("INIT")
  /\ ~IsLocalDir(InitPath)
  /\ RecordFail("dir", InitPath,
       WithTop([Top EXCEPT !.name = NameOf(Top.rid), !.files = <<>>, !.stage = "REDOUPPER"]),
       "stage")
  /\ StackOnly

(* REMOVE: the next record that the listing does not bear out. *)
ItemsNamed(n) == {k \in DOMAIN Top.files : Top.files[k].name = n}
GoneByName(r) == ItemsNamed(NameOf(r)) = {}      \* faulty: a file may become a directory
Gone(r) == \A k \in ItemsNamed(NameOf(r)) : Top.files[k].isdir # recs[r].isdir
(* Faulty: overlooks what is ignored no longer. *)
ReclassifiedOneWay(r) ==
  ~Gone(r) /\ ~recs[r].isignore /\ \A k \in ItemsNamed(NameOf(r)) : Top.files[k].isignore

Reclassified(r) ==
  ~Gone(r) /\ \A k \in ItemsNamed(NameOf(r)) : Top.files[k].isignore # recs[r].isignore

NextToRemove ==
  LET children == Children(recs, Top.rid)
      stale == {r \in children : Gone(r) \/ Reclassified(r)}
  IN IF Top.prog = 0 THEN FirstFrom(recs[Top.rid].sub, stale)
     ELSE IF Top.prog \in children THEN FirstFrom(Top.prog, stale) ELSE 0

ProposeDel ==
  /\ InStage("REMOVE")
  /\ \E r \in {NextToRemove} \ {0} :
       LET isignore == Reclassified(r) /\ ~recs[r].isignore IN
        /\ act' = [NoAction EXCEPT
                     !.type = IF recs[r].isdir THEN "DELDIR" ELSE "DELFILE",
                     !.path = Append(TopPath, NameOf(r)),
                     !.isignore = isignore,
                     !.keephist = KeepHist /\ ~isignore /\ ~recs[r].isignore]
        /\ pc' = IF act'.keephist THEN "hist" ELSE "unlink"
        /\ restate' = WithTop([Top EXCEPT
                        !.stage = IF recs[r].islast THEN "NEW" ELSE @,
                        !.prog = NextSibling(recs, r)])
  /\ Working /\ UNCHANGED <<remote, registry, fails>>

RemoveDone ==
  /\ InStage("REMOVE")
  /\ NextToRemove = 0
  /\ restate' = WithTop([Top EXCEPT !.stage = "NEW", !.prog = 0])
  /\ StackOnly /\ UNCHANGED <<pc, fails>>

(* NEW: the next entry of the listing that has no record, or whose record     *)
(* differs from it.  A time counts as different beyond ten seconds.         *)
Child(n) == FirstFrom(recs[Top.rid].sub, {r \in Active(recs) : NameOf(r) = n})

FarApart(a, b) == a > b + 10 \/ b > a + 10
Differs(attr, r) == recs[r].sub # attr.size \/ FarApart(recs[r].time, attr.time)
ModifiedIgnored(r, item) == ~recs[r].isdir /\ Differs(item.attr, r)      \* faulty
Modified(r, item) == ~recs[r].isdir /\ ~recs[r].isignore /\ Differs(item.attr, r)

NewItems ==
  {i \in DOMAIN Top.files : i > Top.prog /\
     LET r == Child(Top.files[i].name) IN r = 0 \/ Modified(r, Top.files[i])}

NextNew == {i \in NewItems : \A j \in NewItems : i <= j}

Propose(i, action, goto) ==
  /\ act' = action
  /\ pc' = goto
  /\ restate' = WithTop([Top EXCEPT !.prog = i])
  /\ Working /\ UNCHANGED <<remote, registry, fails>>

ProposeAdd ==
  /\ InStage("NEW")
  /\ \E i \in NextNew :
       LET item == Top.files[i] IN
       /\ Child(item.name) = 0
       /\ Propose(i, [NoAction EXCEPT !.type = IF item.isdir THEN "ADDDIR" ELSE "ADDFILE",
                                     !.path = Append(TopPath, item.name),
                                     !.isignore = item.isignore],
                  IF item.isignore THEN "record" ELSE IF item.isdir THEN "mkdir" ELSE "attr")

Modification(name, keephist) ==
  [NoAction EXCEPT !.type = "MODFILE", !.path = Append(TopPath, name), !.keephist = keephist]

(* Faulty: overwrites the old version. *)
ProposeModNoHist ==
  /\ InStage("NEW")
  /\ \E i \in NextNew :
       /\ Child(Top.files[i].name) # 0
       /\ Propose(i, Modification(Top.files[i].name, FALSE), "attr")

ProposeMod ==
  /\ InStage("NEW")
  /\ \E i \in NextNew :
       /\ Child(Top.files[i].name) # 0
       /\ Propose(i, Modification(Top.files[i].name, KeepHist), "attr")

NewDone ==
  /\ InStage("NEW") /\ NewItems = {}
  /\ restate' = WithTop([Top EXCEPT !.stage = "RECUR", !.prog = 0])
  /\ StackOnly /\ UNCHANGED <<pc, fails>>

(* RECUR: into the next directory that is not ignored. *)
NextToEnter ==
  FirstFrom(IF Top.prog = 0 THEN recs[Top.rid].sub ELSE Top.prog,
            {r \in Dirs(recs) : ~recs[r].isignore})

Recur ==
  /\ InStage("RECUR")
  /\ \E r \in {NextToEnter} :
       LET next == NextSibling(recs, r)
           stage == IF next = 0 THEN "RETURN" ELSE "RECUR"
       IN restate' = IF r = 0 THEN WithTop([Top EXCEPT !.stage = "RETURN"])
                     ELSE Append(WithTop([Top EXCEPT !.stage = stage, !.prog = next]),
                                 NewIter(r))
  /\ StackOnly /\ UNCHANGED <<pc, fails>>

RedoUpper ==
  /\ InStage("REDOUPPER")
  /\ restate' = IF Len(restate) = 1 THEN WithTop([Top EXCEPT !.stage = "RETURN"])
                                   ELSE PoppedToInit
  /\ StackOnly /\ UNCHANGED <<pc, fails>>

Return ==
  /\ InStage("RETURN") /\ Len(restate) > 1
  /\ restate' = Popped
  /\ StackOnly /\ UNCHANGED <<pc, fails>>

Finish ==
  /\ InStage("RETURN") /\ Len(restate) = 1
  /\ pc' = "idle" /\ done' = TRUE
  /\ restate' = <<>> /\ fails' = NoFails
  /\ UNCHANGED <<user, remote, registry, act, faults, quiet>>

-----------------------------------------------------------------------------
(***************************************************************************)
(* perform.  Any other error than NOTFOUND makes refreshStep return it, and *)
(* Aresq::run with it: the run is over.                                    *)
(***************************************************************************)
EndRun ==
  /\ pc' = "idle"
  /\ restate' = <<>> /\ act' = NoAction /\ fails' = NoFails

Fault ==
  /\ faults < MaxFaults
  /\ faults' = faults + 1
  /\ quiet' = FALSE
  /\ UNCHANGED <<user, registry, done>>

Goto(label) == pc' = label /\ Working /\ UNCHANGED walk

(* addFile: the attributes that will be recorded are read first.  When they  *)
(* are those of the record nothing is left to do.                          *)
ReadAttr ==
  /\ pc = "attr"
  /\ \E r \in {RecordAt(act.path)} :
       LET node == local[act.path]
           attr == IF IsFile(node) THEN AttrOf[node] ELSE [time |-> 0, size |-> 0]
           same == r # 0 /\ recs[r].time = attr.time /\ recs[r].sub = attr.size
       IN /\ act' = IF node = None THEN act ELSE [act EXCEPT !.attr = attr]
          /\ Goto(IF node = None THEN "missing" ELSE IF same THEN "step"
                  ELSE IF act.keephist THEN "hist" ELSE "upload")
  /\ UNCHANGED <<remote, registry>>

Deleting == act.type \in {"DELDIR", "DELFILE"}

(* putHist.  A path the remote does not have is no error. *)
PutHist ==
  /\ pc = "hist"
  /\ cur' = Drop(cur, act.path)
  /\ hist' = hist \cup FilesAt(cur, act.path)
  /\ Goto(IF Deleting THEN "unlink" ELSE "upload")
  /\ UNCHANGED <<registry, act>>

(* addFile does not look at the result of putHist; delFile and delDir do.  The *)
(* files may be in the history by then; that they are lost takes a second     *)
(* failure within putHist, see PutHistLosesNothing of RemoteSmb.             *)
PutHistFails ==
  /\ pc = "hist"
  /\ Fault
  /\ IF Deleting THEN EndRun
     ELSE pc' = "upload" /\ act' = [act EXCEPT !.histfailed = TRUE] /\ UNCHANGED walk
  /\ cur' \in PutHistStops(cur, act.path)
  /\ hist' = IF cur' = cur THEN hist ELSE hist \cup FilesAt(cur, act.path)

(* remote->addFile reads the file as it is now.  A directory with contents in  *)
(* its place is an error.                                                  *)
Upload ==
  /\ pc = "upload"
  /\ IsFile(local[act.path])
  /\ IF CanReplace(cur, act.path)
     THEN /\ cur' = AddFileTo(cur, act.path, local[act.path])
          /\ pc' = "record"
          /\ UNCHANGED <<walk, act>>
     ELSE EndRun /\ UNCHANGED cur
  /\ Working /\ UNCHANGED <<hist, registry>>

(* The file cannot be opened: it is recorded as pending.  A file that is     *)
(* gone by now looks the same to smbPutFile.                               *)
UploadGone ==
  /\ pc = "upload"
  /\ ~IsFile(local[act.path])
  /\ act' = [act EXCEPT !.pending = TRUE]
  /\ Goto("record")
  /\ UNCHANGED <<remote, registry>>

UploadLocked ==
  /\ pc = "upload"
  /\ Fault
  /\ act' = [act EXCEPT !.pending = TRUE]
  /\ pc' = "record"
  /\ UNCHANGED <<remote, walk>>

(* A request fails, before what stands in the way is deleted, after it, or     *)
(* when the new file is there already.                                      *)
UploadFails ==
  /\ pc = "upload"
  /\ Fault
  /\ cur' \in IF IsFile(local[act.path]) /\ CanReplace(cur, act.path)
              THEN AddFileStops(cur, act.path, local[act.path]) ELSE {cur}
  /\ EndRun /\ UNCHANGED hist

MkDir ==
  /\ pc = "mkdir"
  /\ cur' = AddDirTo(cur, act.path)
  /\ Goto("record")
  /\ UNCHANGED <<hist, registry, act>>

(***************************************************************************)
(* The registry half of addDir and addFile.                                *)
(***************************************************************************)
(* Faulty: a locked file is recorded like one that was uploaded. *)
RecordedLocked(old) ==
  [old EXCEPT !.ispending = act.pending, !.time = act.attr.time, !.sub = act.attr.size]

(* Faulty: records the attributes the file has by now. *)
RecordedFresh(old) ==
  IF act.pending \/ ~IsFile(local[act.path]) THEN [old EXCEPT !.ispending = TRUE]
  ELSE [old EXCEPT !.ispending = FALSE, !.time = AttrOf[local[act.path]].time,
                   !.sub = AttrOf[local[act.path]].size]

Recorded(old) ==
  IF act.pending THEN [old EXCEPT !.ispending = TRUE]
  ELSE [old EXCEPT !.ispending = FALSE, !.time = act.attr.time, !.sub = act.attr.size]

RecordNew(pid, pre) ==
  LET blank == [Blank EXCEPT !.isactive = TRUE, !.name = act.path[Len(act.path)],
                             !.isignore = act.isignore]
      new == IF act.type = "ADDDIR" THEN [blank EXCEPT !.isdir = TRUE] ELSE Recorded(blank)
  IN \E rid \in {NewId(recs, nrec)} \cap Ids :
       /\ recs' = LinkRecord(AllocRec(recs, rid, new), pid, pre, rid)
       /\ nrec' = IF rid = nrec THEN nrec + 1 ELSE nrec

Record ==
  /\ pc = "record"
  /\ \E pid \in {RecordAt(Parent(act.path))} :
     \E found \in {FindRecord(recs, NamesNow, pid, act.path[Len(act.path)])} :
       IF found.type = "FR_MATCH"
       THEN recs' = [recs EXCEPT ![found.id] = Recorded(@)] /\ UNCHANGED nrec
       ELSE RecordNew(pid, found.id)
  /\ Goto("step")
  /\ UNCHANGED <<remote, act>>

(***************************************************************************)
(* delFile and delDir.  The recursion of delDir removes the first leaf below *)
(* the directory again and again, and the directory itself as the last one. *)
(***************************************************************************)
Leaf ==
  LET first == [r \in Ids |-> IF recs[r].isdir /\ recs[r].sub # 0 THEN recs[r].sub ELSE r]
      down[k \in 0 .. Depth] == IF k = 0 THEN RecordAt(act.path) ELSE first[down[k - 1]]
      depth == Cardinality({down[k] : k \in 0 .. Depth}) - 1
  IN [id |-> down[Depth], path |-> act.path \o [k \in 1 .. depth |-> NameOf(down[k])]]

(* Faulty: deletes files only. *)
LocalOnlyDirs(rid) == recs[rid].isignore \/ recs[rid].isdir

(* noremote: once its history is kept, nothing is left of a directory. *)
LocalOnly(rid) == recs[rid].isignore \/ (act.type = "DELDIR" /\ act.keephist)

SkipRemote ==
  /\ pc = "unlink"
  /\ LocalOnly(Leaf.id)
  /\ Goto("forget")
  /\ UNCHANGED <<remote, registry, act>>

(* The server may refuse to delete a directory that is not empty, and does not  *)
(* have to when delFile is what asks.                                       *)
CanDelete(leaf) ==
  IF recs[leaf.id].isdir THEN CanDelDir(cur, leaf.path) ELSE CanDelFile(cur, leaf.path)

DeleteRemote ==
  /\ pc = "unlink"
  /\ \E leaf \in {Leaf} :
       /\ ~LocalOnly(leaf.id) /\ (recs[leaf.id].isdir => CanDelete(leaf))
       /\ cur' = IF recs[leaf.id].isdir THEN DelDirFrom(cur, leaf.path)
                                        ELSE DelFileFrom(cur, leaf.path)
  /\ Goto("forget")
  /\ UNCHANGED <<hist, registry, act>>

DeleteRefused ==
  /\ pc = "unlink"
  /\ \E leaf \in {Leaf} : ~LocalOnly(leaf.id) /\ ~CanDelete(leaf)
  /\ EndRun /\ Working /\ UNCHANGED <<remote, registry>>

MkDirFails ==
  /\ pc = "mkdir"
  /\ Fault
  /\ cur' \in AddDirStops(cur, act.path)
  /\ EndRun /\ UNCHANGED hist

DeleteFails ==
  /\ pc = "unlink"
  /\ Fault
  /\ \E leaf \in {Leaf} :
       /\ ~LocalOnly(leaf.id)
       /\ cur' \in IF ~CanDelete(leaf) THEN {cur}
                   ELSE IF recs[leaf.id].isdir THEN DelDirStops(cur, leaf.path)
                   ELSE DelFileStops(cur, leaf.path)
  /\ EndRun /\ UNCHANGED hist

(* The directory cannot be opened: delDir takes it for missing. *)
DelDirMissed ==
  /\ pc = "unlink" /\ SilentDelDir
  /\ Fault
  /\ \E leaf \in {Leaf} : ~LocalOnly(leaf.id) /\ recs[leaf.id].isdir
  /\ pc' = "forget" /\ overlooked' = TRUE /\ UNCHANGED <<remote, walk, act>>

Forget ==
  /\ pc = "forget"
  /\ \E leaf \in {Leaf} :
     \E pid \in {RecordAt(Parent(leaf.path))} :
     \E pre, rpre \in Ids :
       /\ IsLinkTo(recs, leaf.id, pid, pre)
       /\ IsRecyclePre(recs, leaf.id, rpre)
       /\ recs' = RecycleRec(UnlinkRecord(recs, pid, pre, leaf.id), rpre, leaf.id)
       /\ Goto(IF leaf.path = act.path THEN "step" ELSE "unlink")
  /\ UNCHANGED <<remote, nrec, act>>

(* The process dies with what it had in memory. *)
Crash ==
  /\ pc \notin Ended
  /\ Fault
  /\ EndRun
  /\ UNCHANGED remote

-----------------------------------------------------------------------------
RefreshStep ==
  \/ Fallback \/ CheckStack
  \/ InitList \/ InitGone
  \/ ProposeDel \/ RemoveDone
  \/ ProposeAdd \/ ProposeMod \/ NewDone
  \/ Recur \/ RedoUpper \/ Return \/ Finish

Perform ==
  \/ ReadAttr \/ PutHist \/ Upload \/ UploadGone \/ MkDir \/ Record
  \/ SkipRemote \/ DeleteRemote \/ DeleteRefused \/ Forget

Fails ==
  \/ UNCHANGED overlooked /\ (PutHistFails \/ UploadLocked \/ UploadFails
                         \/ MkDirFails \/ DeleteFails \/ Crash)
  \/ DelDirMissed

Program == UNCHANGED <<setup, overlooked>> /\ (Start \/ RefreshStep \/ Perform)

Next == Program \/ (UNCHANGED setup /\ (Fails \/ (UNCHANGED overlooked /\ User)))

Spec == Init /\ [][Next]_vars

(* aresqc is started again and again, by hand or by a schedule, and the        *)
(* process gets to run; nothing is assumed of the user or of the failures.  *)
FairSpec == Spec /\ WF_vars(Program)

-----------------------------------------------------------------------------
(***************************************************************************)
(* Properties.                                                             *)
(***************************************************************************)
Nodes == {None, Dir} \cup Versions
Attr == [time : Nat, size : Nat]
Stages == {"INIT", "REMOVE", "NEW", "RECUR", "REDOUPPER", "RETURN"}

TypeOK ==
  /\ setup \in Setups
  /\ local \in [Paths -> Nodes] /\ ignored \subseteq Ignorable /\ edits \in 0 .. MaxEdits
  /\ cur \in [Paths -> Nodes]
  /\ hist \subseteq [path : Paths, version : Versions]
  /\ recs \in [Ids -> RecordItem] /\ nrec \in 2 .. MaxRec
  /\ pc \in Ended \cup {"step", "stage", "missing", "attr", "hist", "upload", "mkdir", "record",
                        "unlink", "forget"}
  /\ \A i \in DOMAIN restate :
       /\ restate[i].rid \in Ids \ {0} /\ restate[i].stage \in Stages
       /\ restate[i].prog \in Nat
       /\ \A k \in DOMAIN restate[i].files : restate[i].files[k].attr \in Attr
  /\ fails \in [{"file", "dir"} \X Paths -> 0 .. FailLimit + 1]
  /\ faults \in 0 .. MaxFaults
  /\ overlooked \in BOOLEAN /\ quiet \in BOOLEAN /\ done \in BOOLEAN

(* What is in the way of a backup of p: p or a directory above it is ignored. *)
Ignored(p) == p \in ignored \/ Above(p) \cap ignored # {}

(* An AuVerify of refreshStep, that a stack entry is still a directory of its *)
(* parent, that NEW finds no record of the other kind, that RETURN comes back *)
(* to a directory that waits for it: none of the recoveries the code has for  *)
(* these cases is ever needed, however the user edits while it runs.        *)
WalkStaysValid ==
  /\ pc = "step" => \A i \in 2 .. Len(restate) : IterOk(i)
  /\ InStage("NEW") =>
       \A i \in NewItems : LET r == Child(Top.files[i].name)
                           IN r # 0 => recs[r].isdir = Top.files[i].isdir
  /\ InStage("RETURN") /\ Len(restate) > 1 =>
       restate[Len(restate) - 1].stage \in {"RECUR", "RETURN"}

(* What refreshStep proposed is still to be found in the registry when        *)
(* perform looks it up by its path: the parent of a new entry as a directory, *)
(* the entry to delete or to modify as one of its kind.                     *)
ActionsMeetTheirRecords ==
  /\ pc \in {"attr", "hist", "upload", "mkdir", "record"} /\ ~Deleting =>
       /\ RecordAt(Parent(act.path)) # 0
       /\ LET r == RecordAt(act.path) IN
            IF act.type = "MODFILE" THEN r # 0 /\ ~recs[r].isdir /\ ~recs[r].isignore
                                    ELSE r = 0
  /\ pc \in {"hist", "unlink", "forget"} /\ Deleting =>
       RecordAt(act.path) # 0 /\ recs[RecordAt(act.path)].isdir = (act.type = "DELDIR")

(* The files on the remote are those of the user, the last ten seconds of     *)
(* change aside.  The user is taken to never bring back an old version with  *)
(* its old time.                                                           *)
Matches(p) ==
  /\ IsFile(cur[p])
  /\ ~FarApart(AttrOf[cur[p]].time, AttrOf[local[p]].time)
  /\ AttrOf[cur[p]].size = AttrOf[local[p]].size

BackedUp == \A p \in Paths : IsFile(local[p]) /\ ~Ignored(p) => Matches(p)

(* A run that nothing disturbed, from startRefresh until refreshStep returns  *)
(* 0, leaves every file that is not ignored on the remote, whatever earlier   *)
(* runs, that failed or died anywhere, left behind: as long as no path is     *)
(* ignored for a while (PendingTellsUnsynced).                              *)
QuietRunBacksUp == Ignorable = {} /\ pc = "idle" /\ done /\ quiet => BackedUp

(* Without a failure or a crash the remote then also holds the directories,   *)
(* and nothing else: what the user deleted or began to ignore is gone.       *)
SameTree ==
  \A p \in Paths : (cur[p] = Dir) = (local[p] = Dir /\ ~Ignored(p))
                 /\ cur[p] # None => local[p] # None /\ ~Ignored(p)

QuietRunMirrors == faults = 0 /\ pc = "idle" /\ done /\ quiet => BackedUp /\ SameTree

(* With general.history on, a version on the remote that the registry knows   *)
(* of leaves its place only for the history, unless its path is being ignored *)
(* or the move to the history has just failed.                              *)
RecordedFile(p) == LET r == RecordAt(p) IN r # 0 /\ ~recs[r].isdir /\ ~recs[r].isignore

VersionsKept ==
  [][KeepHist =>
       \A p \in Paths :
         IsFile(cur[p]) /\ RecordedFile(p) /\ cur'[p] # cur[p] =>
           \/ [path |-> p, version |-> cur[p]] \in hist'
           \/ act.isignore \/ act.histfailed]_vars

(* Runs are repeated until one is not disturbed, so every file is backed up   *)
(* in the end and stays so.                                                *)
EventuallyBackedUp == <>[]BackedUp

(* A file is uploaded over a directory with contents, which moveFile could    *)
(* not put out of its way, only after the remote's delDir reported success    *)
(* for a directory that it could not open (RemoteSmb.cpp:435-436): then the   *)
(* record goes and the directory stays.  Otherwise what perform deletes it    *)
(* deletes bottom up and on the remote first, and a crash leaves nothing      *)
(* below a directory that is no longer recorded.                            *)
UploadsFindRoom == pc = "upload" => CanReplace(cur, act.path) \/ overlooked

(* The comment of the flag: "ispending: FILE: local change not synced".  A     *)
(* finished run leaves no file unsynced unless its record says so.          *)
PendingTellsUnsynced ==
  pc = "idle" /\ done /\ quiet =>
    \A p \in Paths : IsFile(local[p]) /\ ~Ignored(p) /\ ~Matches(p) =>
      recs[RecordAt(p)].ispending

(* The assertion of the fallback in refreshStep: restate.size() >= 2.         *)
FallbackHasParent == pc # "RootFallback"
=============================================================================
