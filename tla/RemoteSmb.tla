------------------------------ MODULE RemoteSmb ------------------------------
(***************************************************************************)
(* Class RemoteSmb (RemoteSmb.cpp): the operations that Root asks of a       *)
(* remote, made of SMB requests that may each fail.                        *)
(*                                                                         *)
(* The share is a function from the paths that exist to Dir or the version    *)
(* of a file.  A path is a sequence of names and a name a sequence of        *)
(* letters, for delDir joins names without a separator.  An operator that     *)
(* stands for a function returns the set of its outcomes: the share after it,  *)
(* the failures that may still come, and what it returned.  A request that     *)
(* fails may have had its effect or not: the error may be the server's or      *)
(* the loss of its answer.                                                 *)
(*                                                                         *)
(* What the server answers to a request is external; what libsmb2 makes of     *)
(* the answers is not (libsmb2.c, errors.c).                                *)
(***************************************************************************)
EXTENDS Naturals, Sequences, SequencesExt, FiniteSets, Functions

CONSTANTS
  None, Dir,      \* what stands for no file, and for a directory
  Versions,       \* contents of files
  Targets,        \* the paths below the base directory that Root names
  Base, Tmp, Hist, \* names: of the backup on the share, of .aresq/tmp and .aresq/hist
  Shares,         \* the shares that are found at first
  OpendirFails,   \* whether smb2_opendir may fail on a directory
  Considerate,    \* Root deletes, and replaces, only directories that are empty
  MaxFaults,      \* bound: requests that fail
  MaxOps          \* bound: operations

VARIABLES share, faults, clock, last
sharevars == <<share, faults, clock, last>>

(* An outcome of a function that starts from outcome o. *)
Gives(o, tree, status) == [tree |-> tree, faults |-> o.faults, status |-> status]
Returns(o, status) == {[o EXCEPT !.status = status]}

(* The other outcomes of a request: an error, before or after its effect.      *)
Lossy(o, done) ==
  done \cup IF o.faults = 0 THEN {}
            ELSE {[tree |-> t, faults |-> o.faults - 1, status |-> "EIO"] :
                    t \in {o.tree} \cup {d.tree : d \in done}}

-----------------------------------------------------------------------------
(* The server (external) *)

Exists(tree, p) == p = <<>> \/ p \in DOMAIN tree
IsDirectory(tree, p) == p = <<>> \/ (p \in DOMAIN tree /\ tree[p] = Dir)
Under(tree, p) == {q \in DOMAIN tree : Len(q) > Len(p) /\ SubSeq(q, 1, Len(p)) = p}
Without(tree, gone) == Restrict(tree, DOMAIN tree \ gone)
With(tree, p, item) == (p :> item) @@ tree

MissingStatus(tree, p) == IF IsDirectory(tree, Front(p)) THEN "NAME_NOT_FOUND" ELSE "PATH_NOT_FOUND"

Moved(tree, from, to) ==
  LET gone == {from} \cup Under(tree, from)
      moved(q) == to \o SubSeq(q, Len(from) + 1, Len(q))
  IN [p \in {moved(q) : q \in gone} |-> tree[CHOOSE q \in gone : moved(q) = p]] @@ Without(tree, gone)

-----------------------------------------------------------------------------
(* libsmb2: a request is a chain of server commands, and its result the first   *)
(* of their statuses that is an error, as an errno.                          *)
ErrnoOf(status) ==
  CASE status = "SUCCESS" -> "OK"
    [] status \in {"NAME_NOT_FOUND", "PATH_NOT_FOUND"} -> "ENOENT"
    [] status = "NAME_COLLISION" -> "EEXIST"
    [] status = "NOT_A_DIRECTORY" -> "ENOTDIR"
    [] status = "DIRECTORY_NOT_EMPTY" -> "EPERM"
    [] OTHER -> "EIO"

Mkdir(o, p) ==
  Lossy(o, IF p \in DOMAIN o.tree THEN {Gives(o, o.tree, ErrnoOf("NAME_COLLISION"))}
           ELSE IF IsDirectory(o.tree, Front(p)) THEN {Gives(o, With(o.tree, p, Dir), ErrnoOf("SUCCESS"))}
           ELSE {Gives(o, o.tree, ErrnoOf("PATH_NOT_FOUND"))})

(* smb2_unlink and smb2_rmdir open with DELETE_ON_CLOSE, and neither asks for a  *)
(* file or a directory.  Some servers refuse a directory that is not empty,      *)
(* some leave it at the close without an error.                              *)
Unlink(o, p) ==
  Lossy(o, IF p \notin DOMAIN o.tree THEN {Gives(o, o.tree, ErrnoOf(MissingStatus(o.tree, p)))}
           ELSE IF Under(o.tree, p) = {} THEN {Gives(o, Without(o.tree, {p}), ErrnoOf("SUCCESS"))}
           ELSE {Gives(o, o.tree, ErrnoOf(s)) : s \in {"SUCCESS", "DIRECTORY_NOT_EMPTY"}})

Rename(o, from, to) ==
  Lossy(o, IF from \notin DOMAIN o.tree THEN {Gives(o, o.tree, ErrnoOf(MissingStatus(o.tree, from)))}
           ELSE IF to \in DOMAIN o.tree THEN {Gives(o, o.tree, ErrnoOf("NAME_COLLISION"))}
           ELSE IF IsDirectory(o.tree, Front(to))
                THEN {Gives(o, Moved(o.tree, from, to), ErrnoOf("SUCCESS"))}
           ELSE {Gives(o, o.tree, ErrnoOf("PATH_NOT_FOUND"))})

(* getType: the status is the type, or an error. *)
GetType(o, p) ==
  Lossy(o, Returns(o, IF p \notin DOMAIN o.tree THEN "NONE"
                      ELSE IF o.tree[p] = Dir THEN "DIR" ELSE "FILE"))

(* smb2_opendir and the whole listing: every failure is a null pointer. *)
Opendir(o, p) ==
  Returns(o, IF p \in DOMAIN o.tree /\ o.tree[p] = Dir THEN "OK" ELSE "NULL")
    \cup IF OpendirFails /\ o.faults > 0 THEN {[o EXCEPT !.faults = @ - 1, !.status = "NULL"]} ELSE {}

Entries(o, p) == {Last(q) : q \in {q \in Under(o.tree, p) : Len(q) = Len(p) + 1}}

-----------------------------------------------------------------------------
(* RemoteSmb *)

Checked(outcomes) ==
  {IF o.status = "OK" THEN o ELSE [o EXCEPT !.status = "EPARAM"] : o \in outcomes}

RECURSIVE AddDir(_, _)
AddDir(o, p) ==
  UNION {
    CASE m.status = "EEXIST" ->
           UNION {CASE g.status = "DIR" -> Returns(g, "OK")
                    [] g.status = "EIO" -> Returns(g, "EPARAM")
                    [] OTHER -> UNION {IF u.status = "OK" THEN Checked(Mkdir(u, p)) ELSE Checked({u})
                                       : u \in Unlink(g, p)}
                  : g \in GetType(m, p)}
      [] m.status = "ENOENT" ->
           IF Len(p) = 1 THEN Returns(m, "EPARAM")
           ELSE UNION {IF a.status = "OK" THEN Checked(Mkdir(a, p)) ELSE Checked({a})
                       : a \in AddDir(m, Front(p))}
      [] OTHER -> Checked({m})
    : m \in Mkdir(o, p)}

DelFile(o, p) ==
  {IF u.status \in {"OK", "ENOENT"} THEN [u EXCEPT !.status = "OK"] ELSE [u EXCEPT !.status = "EPARAM"]
   : u \in Unlink(o, p)}

(* rmdir, and the check that no directory is left. *)
RemoveDir(o, p) ==
  UNION {IF u.status \notin {"OK", "ENOENT"} THEN Returns(u, "EPARAM")
         ELSE {[g EXCEPT !.status = IF @ \in {"NONE", "FILE"} THEN "OK" ELSE "EPARAM"] : g \in GetType(u, p)}
         : u \in Unlink(o, p)}

(* The path of an entry of a directory, as delDir puts it together. *)
EntryPath(p, name) == Append(Front(p), Last(p) \o name)

RECURSIVE DelContents(_, _, _), DelDirTry(_, _, _)
DelContents(o, p, items) ==
  IF items = <<>> THEN Returns(o, "OK")
  ELSE LET target == EntryPath(p, Head(items).name)
       IN UNION {IF r.status = "OK" THEN DelContents(r, p, Tail(items)) ELSE {r}
                 : r \in IF Head(items).isdir THEN DelDirTry(o, target, 0) ELSE DelFile(o, target)}

DelDirTry(o, p, retry) ==
  IF retry = 3 THEN Returns(o, "EINTERNAL")
  ELSE UNION {
         IF d.status = "NULL" THEN Returns(d, "OK")
         ELSE IF Entries(d, p) = {} THEN RemoveDir(d, p)
         ELSE UNION {IF r.status = "OK" THEN DelDirTry(r, p, retry + 1) ELSE {r}
                     : r \in DelContents(d, p, SetToSeq({[name |-> n, isdir |-> d.tree[Append(p, n)] = Dir]
                                                         : n \in Entries(d, p)}))}
         : d \in Opendir(o, p)}

DelDir(o, p) == DelDirTry(o, p, 0)

(* moveFile with force: what stands at the destination is deleted, whatever     *)
(* comes of it, and its directory made, before the second attempt.            *)
ClearAt(o, p) ==
  UNION {CASE g.status = "DIR" -> DelDir(g, p)
           [] g.status = "FILE" -> DelFile(g, p)
           [] OTHER -> {g}
         : g \in GetType(o, p)}

(* Faulty: does not look whether the first attempt has moved the file. *)
MoveFileAgain(o, from, to) ==
  UNION {
    IF r.status = "OK" THEN {r}
    ELSE UNION {
      UNION {IF a.status # "OK" THEN {a} ELSE Checked(Rename(a, from, to)) : a \in AddDir(c, Front(to))}
      : c \in ClearAt(r, to)}
    : r \in Rename(o, from, to)}

MoveFile(o, from, to) ==
  UNION {
    IF r.status = "OK" THEN {r}
    ELSE UNION {
      IF g.status = "NONE" THEN Returns(g, "NOTFOUND")
      ELSE UNION {
        UNION {IF a.status # "OK" THEN {a} ELSE Checked(Rename(a, from, to))
               : a \in AddDir(c, Front(to))}
        : c \in ClearAt(g, to)}
      : g \in GetType(r, from)}
    : r \in Rename(o, from, to)}

(* smbPutFile to a new name in the directory for temporary files: the file is   *)
(* there, whole, when it succeeds, and may be there, in part, when it fails.    *)
TmpPath == <<Tmp, <<clock>>>>

PutFile(o, p, version) ==
  UNION {IF a.status # "OK" THEN Returns(a, "EPARAM")
         ELSE Lossy(a, {Gives(a, With(a.tree, p, version), "OK")})
         : a \in IF IsDirectory(o.tree, Front(p)) THEN Returns(o, "OK") ELSE AddDir(o, Front(p))}

(* Faulty: does not look at what came of the move. *)
AddFileUnmoved(o, p, version) ==
  UNION {IF u.status # "OK" THEN {u} ELSE {[m EXCEPT !.status = "OK"] : m \in MoveFile(u, TmpPath, p)}
         : u \in PutFile(o, TmpPath, version)}

AddFile(o, p, version) ==
  UNION {IF u.status # "OK" THEN {u} ELSE Checked(MoveFile(u, TmpPath, p))
         : u \in PutFile(o, TmpPath, version)}

(* Faulty: leaves out the time. *)
HistPathTimeless(p) == <<Hist>> \o p

HistPath(p) == <<Hist>> \o Front(p) \o <<Last(p) \o <<clock>>>>

PutHist(o, p) ==
  {IF m.status = "NOTFOUND" THEN [m EXCEPT !.status = "OK"] ELSE m
   : m \in {IF m.status \in {"OK", "NOTFOUND"} THEN m ELSE [m EXCEPT !.status = "EPARAM"]
            : m \in MoveFile(o, p, HistPath(p))}}

-----------------------------------------------------------------------------
ShareInit ==
  /\ share \in Shares /\ faults = MaxFaults /\ clock = 0
  /\ last = [op |-> "none"]

Now == [tree |-> share, faults |-> faults, status |-> "OK"]
Full(p) == <<Base>> \o p

Operation(op, p, outcomes) ==
  /\ clock < MaxOps
  /\ clock' = clock + 1
  /\ \E o \in outcomes :
       /\ share' = o.tree /\ faults' = o.faults
       /\ last' = [op |-> op, path |-> p, status |-> o.status]

EmptyAt(p) == Under(share, Full(p)) = {}

OpAddDir(p) == Operation("addDir", p, AddDir(Now, Full(p)))
OpAddFile(p, v) == (Considerate => EmptyAt(p)) /\ Operation("addFile", p, AddFile(Now, Full(p), v))
OpDelDir(p) == (Considerate => EmptyAt(p)) /\ Operation("delDir", p, DelDir(Now, Full(p)))
OpDelFile(p) == Operation("delFile", p, DelFile(Now, Full(p)))
OpPutHist(p) == Operation("putHist", p, PutHist(Now, Full(p)))

ShareNext ==
  \E p \in Targets :
    \/ OpAddDir(p)
    \/ \E v \in Versions : OpAddFile(p, v)
    \/ OpDelDir(p)
    \/ OpDelFile(p)
    \/ OpPutHist(p)

ShareSpec == ShareInit /\ [][ShareNext]_sharevars

-----------------------------------------------------------------------------
(* The calls keep to what Root relies on: the tree below the base directory     *)
(* changes as RemotePromise says, whichever requests under a call fail.        *)
TreeOf(files) ==
  [p \in Targets |-> IF Full(p) \in DOMAIN files THEN files[Full(p)] ELSE None]

Promise == INSTANCE RemotePromise WITH
  Paths <- Targets, Trees <- {TreeOf(s) : s \in Shares}, SilentDelDir <- OpendirFails,
  tree <- TreeOf(share),
  last <- IF last.op = "none" THEN last
          ELSE [op |-> last.op, path |-> last.path, ok |-> last.status = "OK"]

KeepsPromise == Promise!Spec

FilesBelow(p) == {q \in {p} \cup Under(share, p) : q \in DOMAIN share /\ share[q] # Dir}

(* putHist, told OK or not, leaves every file where it was or puts it into the    *)
(* history, under the name of this call: as long as no more than one of its    *)
(* requests fails.                                                         *)
VersionsSafe(p) ==
  \A q \in FilesBelow(p) :
    \E home \in {q, HistPath(p) \o SubSeq(q, Len(p) + 1, Len(q))} :
      home \in DOMAIN share' /\ share'[home] = share[q]

PutHistLosesNothing ==
  [][last'.op = "putHist" /\ faults - faults' <= 1 => VersionsSafe(Full(last'.path))]_sharevars

(* The force of moveFile is to "delete destination if already exists", not the  *)
(* source, whatever fails.                                                  *)
PutHistNeverLoses == [][last'.op = "putHist" => VersionsSafe(Full(last'.path))]_sharevars

(* What is in the history stays there, whatever is moved to it later.         *)
HistoryStays ==
  [][\A q \in FilesBelow(<<Hist>>) : q \in DOMAIN share' /\ share'[q] = share[q]]_sharevars

(* "del contents" of delDir: the rest of the share is not its business.        *)
DelDirKeepsOthers ==
  [][last'.op = "delDir" =>
       \A q \in DOMAIN share \ ({Full(last'.path)} \cup Under(share, Full(last'.path))) :
         q \in DOMAIN share' /\ share'[q] = share[q]]_sharevars
=============================================================================
