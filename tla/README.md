# AResq, modelled and checked

AResq (`src/`) is an incremental backup program. It walks a local directory,
compares it with a registry of what was backed up before, copies what is new or
changed to an SMB share, moves old versions to a history directory there, and
deletes what is gone. These TLA+ modules model it from the walk down to the
queues of the SMB connection; TLC checks small instances, and TLAPS proves
theorems for every size.

## 1. The system

| Component | Where | State it keeps | Operations | Status |
|---|---|---|---|---|
| Registry of a root | `Root.cpp`, `Root.h`, `record.h` | `_records`, `_rname`, files `record` and `rname` | `load`, `init`, `verifyrec`, `verifydir`, `findRecord`, `allocRec`, `allocRName`, `eraseName`, `recycleRec`, `writeRec`, and the registry halves of `addDir`, `addFile`, `delDir`, `delFile` | modelled |
| Refresh and perform | `Root.cpp`, `Root.h` | `restate` (a stack of directories), `failstate`, the proposed `Action` | `startRefresh`, `refreshStep`, `recordFail`, `perform`, `addDir`, `addFile`, `delDir`, `delFile` | modelled |
| Remote | `Remote.h`, `RemoteSmb.cpp` | the share: tree, temporary upload directory, history | `addFile`, `delFile`, `addDir`, `delDir`, `putHist`, over mkdir, rename, unlink, rmdir, stat, opendir and put | modelled |
| Ignore rules | `AresqIgnore.cpp` | compiled rules, time of the last look at the file | `load`, `update`, `isignore` | modelled |
| Glob matcher | `match.cpp` | none | `gitignore_glob_match` | modelled |
| UTF conversion | `utfconv.cpp` | none | conversions between UTF-8 and UTF-16 | modelled |
| libsmb2 | `libsmb2/` (vendored) | the context: queues, credits, message ids, the state of a read, of a connect | connect, disconnect, blocking calls, `smb2_service`, `smb2_destroy_context` | partly: all that AResq's calls go through except the bytes of commands and the cryptography |
| Configuration and run | `Aresq.cpp` | options, roots, remotes, stored password | `init`, `run` | partly: the loop over one root |
| File system adapter | `fsadapter.cpp` | none | `ListDir`, `getFileAttr`, path comparisons | partly: listing, attributes, orders, the way of a name |
| Log, buffers, guards | headers, `pe_log.cpp` | log handles | logging, growing buffers | not modelled: no protocol |
| `aresqc` | `aresqc.cpp` | none | calls `init`, then `run` | not modelled: one call |
| libconfig | vendored | | | not modelled: third party, one file is read with it at the start |

**How they interact.** `Aresq::run` takes each root in turn: `startRefresh`,
then `refreshStep` and `perform` alternately, until `refreshStep` returns 0 or
either of them an error. `refreshStep` reads the local file system, the ignore rules
and the registry and returns *one* action. `perform` calls the remote first and
changes the registry only when the remote has succeeded; a registry change ends
with the records being written to the file `record`, while names are written to
`rname` as they are allocated or erased. Everything in `restate` and `failstate` is lost
when the process ends; the two files and the remote are all that the next run has.
An operation of the remote is a series of SMB requests. Each is a blocking call
of libsmb2: it queues PDUs, then polls and serves the socket until the callback
of its last PDU has run or the wait fails. An upload is a chain of such writes, each queued by
the callback of the one before it. Handles are connected when they are first used
and cleared when the remote goes.

**What is hard.** AResq has one thread, but there are four parties: the program; the user,
who edits the files while they are listed, read and uploaded, and the ignore file
while it is read; the server, which answers in any order, with interim replies
and with as many credits as it likes; and the network, which fails or stays silent at any
point. A request that failed may have had its effect. The process can end
between any two writes, and no write is a transaction. A blocking call that
gives up leaves its PDUs, callbacks and their memory behind. Section 6 lists what
can go wrong because of it; `PROJECT.json` has the same list with source lines.

**What makes each part correct.**

- *Registry*: the records form one tree plus one list of free ids, each id in
  exactly one of them; siblings are sorted; the last one loops back to its
  directory; the files equal memory between operations; what a stop leaves in
  the files is loadable, or at least does not change an entry nobody touched.
- *Walk*: its stack follows the registry while `perform` changes it; a run ends;
  each proposed action still makes sense when it is carried out.
- *Backup*: after an undisturbed run every file that is not ignored is on the
  remote, whatever the runs before it left; nothing is lost that the history is
  meant to keep; in the end everything is backed up.
- *Remote*: a call that reports success has done what it says, a call that
  failed can be repeated, and what is reported as uploaded is the file as it was read.
- *Connection*: each reply finds its request, and only its request; the two sides agree
  on credits, nobody waits for credits that will not come; the memory of a
  callback lives until the callback has run, once; all addresses of a server are
  tried, and every socket is closed.
- *Ignore rules*: no edit of the ignore file is overlooked for good; the last rule
  that applies decides, and it applies to what its pattern means.
- *Path orders, UTF*: orders are total and agree with one another, buffers hold
  what is written to them, a name survives the way to the registry and back.

## 2. The modules

```
RootRecords            record layout, links, findRecord, allocRec, recycleRec
   |         \
RootStore     RootRefresh ------ RemoteTree        effect of the calls of Remote.h
   |                                 |
RootStoreTree                    RemotePromise     what Remote.h promises
   : BackupTree                      : implemented by
   (abstract)                    RemoteSmb         requests that may fail
                                 SmbPut            one upload, chunk by chunk
                                 SmbTransport      queues, credits, replies, callbacks
                                 SmbConnect        addresses, session, clean-up

IgnoreList \                     PathOrder         orders of names
GlobMatch  - MCIgnore
UtfConv    /
```

`MC` modules instantiate them for TLC. `MCSmbAdapter` puts the three parts of
`RemoteSmb` into one instance, its operations, an upload and the connection, and `MCIgnore` what a path
meets before it is backed up; in a behaviour of either, one part works. (`SmbPut`, whose constants are plain
numbers, is also run as it is.) A module `_proofs` holds the theorems about it
(`RootRecords_proofs` the lemmas about the registry that `RootRefresh_proofs` cites,
`FsAdapter_proofs` the theorems about `PathOrder` and `UtfConv`, `Ignore_proofs` those
about `GlobMatch` and `IgnoreList`).

**RootRecords** holds the pure operators on a vector of records. An id is a
number, 0 is the head of the recycle list and 1 (`ROOT`) the root directory. A
record keeps the fields of `record.h`, with `sub` standing for both the first child
of a directory and the size of a file, which share their bytes in the code. Names are
numbers in sorted order, 0 the empty name. `NewId`/`AllocRec` are `allocRec`,
`LinkRecord` and `UnlinkRecord` the pointer updates of the add and delete
functions, `RecycleRec` is `recycleRec`, which keeps its list sorted.

**RootStore** is the registry in memory and on disk. `recs`, `nrec` and `rname` are
`_records` and `_rname`; `drecs`, `dnrec` and `drname` are the files; `dirty` is
the part of `cids` that `writeRec` has not written yet; `mode` says whether the
process is down, has written half of `init`, is up, or has failed to load.

| Action | Code |
|---|---|
| `LoadFresh`, `WriteInit` | `load` without usable files, `init` writing `rname`, then `record` |
| `LoadSaved`, `LoadRejected`, `LoadWild` | `load` and `verifyrec`: accepted, refused, or walking out of the vector (undefined behaviour: either result, or anything else) |
| `AddDir`, `AddFile`, `AddIgnoredFile`, `AddLockedFile` | registry halves of `addDir` and of `addFile` for a new entry |
| `ModFile` | `addFile` for an entry that is there |
| `Remove` | registry half of `delFile`, and of `delDir` for an emptied directory |
| `WriteRec` | one record written by `writeRec` |
| `Stop` | the process ends, at any point |

The `dirty` set is what makes a stop interesting: an operation changes memory
and `rname` in one step, and the records reach the disk in as many steps as there are.

**BackupTree** is the promise in abstract terms: a set of entries with paths,
changed one entry at a time, and what the files would give back at the next
start: this tree (`Whole`), a tree with a nameless entry (`Maimed`), or nothing
that loads (`Refused`). **RootStoreTree** maps `RootStore` to it and states
`ImplementsTree`.

**RootRefresh** is a root at work. `local`, `ignored` are the user's files and
what the ignore rules match; `cur`, `hist` the remote; `recs`, `nrec` the registry;
`restate`, `fails`, `act` are the code's; `pc` the point the process is at. The
actions of `refreshStep` are the missing-file `Fallback`, the
check of the stack (`CheckStack`), and one or more for each stage: `InitList`,
`InitGone`; `ProposeDel`, `RemoveDone`; `ProposeAdd`, `ProposeMod`, `NewDone`;
`Recur`; `RedoUpper`; `Return`, `Finish`. `perform` is cut where the remote or the
user can come in between: `ReadAttr`, `PutHist`, `Upload`, `UploadGone`, `MkDir`,
`Record`, and for deletions `SkipRemote`, `DeleteRemote`, `DeleteRefused`,
`Forget`, which take the leaves of a directory first, like the recursion of
`delDir`. `PutHistFails`, `UploadLocked`, `UploadFails`, `RemoteFails` and `Crash` are what
goes wrong. The user saves, makes, deletes and toggles an ignore rule at any time.
`setup` says what a behaviour may be like: with or without history, which paths may become
ignored, how many failures, and whether `delDir` may report that a directory is
gone when it is not (it does, in `RemoteSmb`, when `opendir` fails). `overlooked` is no state of the code:
it remembers that this has happened.

**RemoteTree** is the effect of the calls of `Remote.h` on the tree of backed-up
files, a function from paths to nothing, a directory or a version of a file; `RootRefresh` uses
it directly. **RemotePromise** makes a state machine of the same operators: one
call a step, told OK or not, with everything that a call told not OK may have
done. **RemoteSmb** is the class as it is written: an operator per function, which
returns the set of its outcomes, each the share, the failures left, and what was returned;
a request may fail before or after its effect. `KeepsPromise` is the refinement.
So what the walk is checked against is what the remote is shown to do.

| RemoteSmb | Code |
|---|---|
| `Mkdir`, `Unlink`, `Rename`, `GetType`, `Opendir` | the libsmb2 requests, the server's answers (external) turned into errno by `nterror_to_errno` |
| `AddDir`, `DelFile`, `RemoveDir`, `DelDir` | `addDir` with its parents, `delFile`, `delDir` with its loop over the contents |
| `ClearAt`, `MoveFile` | `moveFile`: rename, on failure delete the destination and rename again |
| `PutFile`, `AddFile` | `addFile`: upload to the temporary name, then `moveFile` |
| `PutHist` | `putHist`: make the history directory, then `moveFile` |

**SmbPut** opens `PutFile`: `smbPutFile` with its callback `onSmbPutChunk`. The local
file changes while it is read, an older file may stand under the remote name, a
write may be shortened (`Pwrite`). `FirstChunk`, `OnSmbPutChunk`, `WriteFails`,
`ServiceFails`, `Truncate` and `Close` are the steps of the loop and its ends.

**SmbTransport** is the connection below: chains of PDUs in the out queue, PDUs in
the wait queue, the PDU whose reply is being read, credits, message ids, and for
each blocking call the memory its callback uses.

| SmbTransport | Code |
|---|---|
| `Call`, `Enqueue` | a blocking call: `smb2_allocate_pdu`, `smb2_add_compound_pdu`, `smb2_queue_pdu` |
| `WritePart`, `WriteRest` | `smb2_write_to_socket`, one `writev` at a time |
| `ReadHeader`, `ReadPauses`, `ReadBody`, `ReadFails` | `smb2_read_data`, between whose phases the socket may run dry |
| `PollFails`, `SocketFails` | `wait_for_reply` and `smb2_service_fd` failing: the call gives up |
| `TimeOut`, `Destroy` | `smb2_timeout_pdus`, `smb2_destroy_context` |
| `ServerPends`, `ServerAnswers` | the server (external) |

**SmbConnect** is the life of one handle: `Resolve` with `InterleaveAddrinfo`, `Start`
and `TryNext` over the addresses, `NegotiateReply`, the legs of `SessionReply`,
`TreeReply`; `Disconnect`, `TreeDisconnectReply`, `LogoffReply`; `GiveUp` and
`Tick` for a wait that fails or takes too long; `Destroy`. `Touch`, `Use`, `Tell`
follow the memory of the callbacks, whose data is passed from one to the next.

**IgnoreList** is `AresqIgnore.cpp` with a user who edits, takes away and brings back the
file at any time. **GlobMatch** is the loop of `match.cpp`, one round a step;
**MCGlobMatch** states the meaning of a pattern without any loop, as its comments
give it. **PathOrder** has the
comparisons of `fsadapter.cpp` and the listing and lookup that rely on them; no
state. **UtfConv** is the way of a name: `utf16to8` in `ListDir`, `utf8to16` when
the file is looked up, each a loop that measures and a loop that converts.

Definitions marked "faulty" in a comment are not part of any specification: they
are plausible bugs which the properties must be able to notice, and each
property is broken by at least one of them.

## 3. What the runs check

| Run | Configuration and bounds | Result |
|---|---|---|
| `store` | `MCRootStoreTree.cfg`: 5 record ids, 2 names, 4 names ever allocated | holds; 1.3 million states |
| `torn_write` | `MCRootStoreTree_TornWrite.cfg`, the same | violated, section 5 |
| `refresh` | `MCRootRefresh_Faults.cfg`: 2 names, depth 2, 6 ids, 4 edits; with history and 2 failures, without and 2 (where `delDir` may be wrong), with a path that becomes ignored and 1; neighbouring versions too alike | holds; 3.6 million states |
| `refresh_live` | `MCRootRefresh_Live.cfg`: fair runs, 5 ids, 3 edits, 2 failures | holds; 0.14 million states |
| `pending` | `MCRootRefresh_Pending.cfg`: 3 edits | violated, section 5 |
| `remote` | `MCSmbAdapter.cfg`: 3 calls on 4 paths, 2 failing requests, from every well-formed backup; uploads of up to three chunks of 4, 5 or 8 units, two changes of the file; up to 5 addresses, 3 legs of a session setup | holds; 0.4 million states |
| `remote_glued` | `MCRemoteSmb_Glued.cfg`: 1 call, no failure | violated, section 5 |
| `put_short` | `SmbPut_ShortWrite.cfg`: a file that does not change, 1 or 2 credits for chunks that cost up to 2 | violated, section 5 |
| `put_regrown` | `SmbPut_Regrown.cfg`: two changes of the file, enough credits | violated, section 5 |
| `put_buffer` | `SmbPut_Buffer.cfg`: servers that take 4, 5 or 8 units, a grain of 2 | violated, section 5 |
| `smb_calls` | `MCSmbTransport_Calls.cfg`: 3 calls, compounds of 2 PDUs, writes of 2 credits, 4 credits, in four surroundings | holds; 2.8 million states |
| `ignore` | `MCIgnore.cfg`: 9 seconds of which 2 are a minute, 3 contents; patterns of up to 5 characters; names of up to 4 units, byte strings of up to 4 | holds; 0.7 million states |

**The registry.** `store` shows what the registry is in memory after *every*
operation, and not only where the code asserts it:

- `DiskTrailsMemory`: an id that an operation changes is never missing from
  `cids`. Such a slip would show only after the next start.
- `RegistryWellFormed`: `verifyrec` and `verifydir` accept the registry at any time,
  so each id is in the tree or free.
- `NamesNotShared`: two records never own one name.
- `VerifyEnds`: whatever a stop left in the files, the walks of `verifyrec` end on it inside the
  vector, and it says yes or no. The exception is stated in the property: a stop that cuts off an append, between
  the record that is linked to the new one and the new one, leaves a link to the slot behind the
  vector. `verifyrec` tests no link against the size of the vector (`Root.cpp:165`) and reads on there; of these
  files nothing is claimed, and the model lets `LoadWild` do anything.
- `ImplementsTree`: a stop never alters an entry that the interrupted operation
  was not about, in a tree that loads: what was lost is exactly that operation,
  or one name, or the whole registry is refused. `Refused` also stands for walks that leave the vector.

A root in which a stop has left a nameless record (section 5) is outside the promise of
`RegistryWellFormed` and `NamesNotShared`.

**The walk.**

- `WalkStaysValid`: the recoveries in `refreshStep` for a stack that no longer
  fits are never needed, whatever the user does during the run.
- `ActionsMeetTheirRecords`: an action still meets the entry it was proposed
  for.
- `QuietRunBacksUp`: a run that nothing disturbs leaves every file on the
  remote, even after runs that failed or died at the worst moment.
- `QuietRunMirrors`: without failures, directories and deletions match too, among versions of which some
  are too close in time to be told apart. Their sizes are equal, so that the comparison of sizes modulo 2^24
  is not exercised.
- `VersionsKept`: a recorded version leaves its place only for the history.
- `UploadsFindRoom`: an upload meets a non-empty directory only after `delDir` has said OK for a directory
  that it had not looked into, although deletions stop halfway, and directories and files change places.
  `RemoteSmb::delDir` does say so when `opendir` fails (`RemoteSmb.cpp:435`), and with a second failure an
  upload then finds a directory with contents; the run has this setup, and without the exception
  TLC finds the property violated in it.
- `EventuallyBackedUp`: repeated runs get there.

**The remote.**

- `KeepsPromise`: whatever requests fail below a call, it does what
  `RemotePromise` says. Told OK, the work is done; told otherwise, only what the
  abstract call may leave behind has changed.
- `PutHistLosesNothing`: with one failing request `putHist` never loses a version;
  with two it can (section 5).
- `HistoryStays`: nothing in the history is overwritten by what is moved there later.
- `UploadFaithful`: what is reported as uploaded is the file as it was
  read, also when it grew, shrank or replaced a longer one.
- `Interleaved`, `AddressesTried`: interleaving families loses no address,
  and `connect` reports a network error only when all have been tried.
- `ConnectedMeansSession`: whatever sign an error has on its way, `connect` is successful
  only with a session and a tree.
- `CallbackDataValid`, `NoSocketLost`: who frees what, wherever a connect ends.
- `CallsReturn`: `connect` and `disconnect` return, however the network behaves.

That an upload returns (`PutEnds`), that its chunks fit their buffer (`ChunkFitsBuffer`) and that only the
last one is padded (`OnlyLastPadded`) does not hold; section 5 has the runs.

**The connection.**

- `RepliesMatch`, `IdsDisjoint`: every reply finds its own PDU, after calls given up and
  interim replies; no message id serves twice, though a large write takes several.
- `CreditsAgree`, `NoCreditStall`: client and server count the same credits, and a
  chain is never left without credits the client forgot to ask for, of a server that gives
  what it is asked for and while no call is given up. The chains of calls that were given up
  each ask as if no other would spend the credits there are: with four credits to start with
  and chains of two, two of them in the queue leave a third waiting for credits that
  nobody asked for. The code is far from this, at 1024 credits and one call at a time.
- `WaitsForSomething`, `CallsEnd`: the PDU that ends a wait is still there; the wait ends.
- `CallbackMemoryValid`: the data of a call that gave up is used and freed by the late
  callback, once. Closes and writes keep their data elsewhere (`smb2_close` frees it itself, `smbPutFile` has it on
  its stack): of them the property speaks only where nothing makes their caller give up. One setup has
  writes that are given up beside calls that leave their data behind.

**Rules and names.**

- `NoEditLost`: when the rules in force are not those of the file, its time shows that it must be
  read again. A file looked at while it is away is excluded: it leaves
  no rules, and when it comes back unchanged it is not read again.
- `LaterRulesWin`: the last rule that applies decides.
- `MatchesAsMeant`, `Ends`: one place to go back to for each kind of star is enough to find
  a match whenever there is one; classes and escapes stay within the pattern. `MatchesAsMeant` leaves out the
  paths which a pattern could only take if a `**` ended inside a name (`NeedsPartOfName`): there the loop
  and the comments differ (section 5).
- `BufferSuffices`: the loop that measures and the loop that writes agree, also
  on bytes that are not UTF-8.
- `NamesSurvive`: the file that is looked up is the one that was listed.

**Why the bounds are enough.** Linking and unlinking distinguish first, middle,
last and only child, in the root or below; with five ids there are three entries
besides records 0 and 1, which gives each case, and the reuse of an id for an
entry of the other kind. Names are used up at four, more than the three entries
alive at once, so ids are reused after erased names. Two names and two levels give the
walk a directory with two entries, one of them a directory with two entries, a
directory that turns into a file and back, and a file next to it. Four edits are
enough to create a subtree, back it up, change it during a run and change it back.
One failure interrupts a run; the second hits the run that repairs the first. A
quiet run follows any of them.

`moveFile` has two requests that matter, so two failures reach each pair of them; three calls are
one that leaves something behind, one that meets it, and one that repeats. An upload needs a
full chunk, a padded one and one in between. On the connection three calls
are one that is given up, one whose replies arrive among those of the first, and one
that starts when both are gone; a compound of two has a first and a last PDU,
a write of two credits skips an id. Two families in five places give every pattern the
relinking distinguishes (one family runs out before, with and after the other).
Patterns of five characters hold two stars of each kind with something between; a
class needs up to five. A name of four units has a pair, something before and something after it.
Bytes are drawn from each range the decoder distinguishes.

All counters are bounded by guards on `MaxEdits`, `setup.faults`, `MaxRec`, `MaxRName`,
`MaxFaults`, `MaxOps`, `MaxChanges`, `MaxCalls`, `MaxLegs` and `LastTime`.
`FailLimit` is 2 in the code; the runs use 1 so that the limit is reached within so few
edits. Chunks, credits and minutes are scaled down: 4 MiB to 4 units, 1 KiB to 2, 60 seconds to 2.

**Fairness.** Each specification with a liveness property assumes weak fairness of the
program and of nothing it does not need:

- `RootRefresh!FairSpec`: `aresqc` is started again whenever it has ended, and a process
  that was started gets to run. Nothing is assumed of the user or of failures; they are only
  finite in number. A run can end in an error with no fault at all
  (`TooManyFails`); the property needs no more than that another one is started.
- `SmbTransport!LiveSpec`: a caller that waits polls and serves the socket
  (`wait_for_reply` is such a loop), and the server answers what it has read.
  `CallsEnd` is only about behaviours without failures, timeouts and signed
  replies; with signatures it does not hold (section 5).
- `SmbPut!PutLiveSpec`: the loop goes on, and a write is answered. `PutEnds` fails all the same.
- `SmbConnect!FairSpec`: the process runs, the clock goes on, and a server to which the
  connection stands answers. Nothing is assumed of the network before that.
- `GlobMatch`: the loop goes on.

`CHECK_DEADLOCK` is off where a behaviour may end: a finished upload, match or
conversion, a connection without calls left, a clock at its bound, calls used up.

**Limits of `EventuallyBackedUp`.** It is checked with history on and without
ignore rules, since two behaviours of the code refute it outside. Without
history, an entry on the remote that the registry does not know of makes `delDir`
refuse the directory in every later run (`MCRootRefresh_Stuck.cfg`). And a path that
is ignored for a moment can be left behind for good (finding `pending`).

## 4. What is proved

All theorems hold for every value of the constants; the only assumptions are those
stated with the constants, and the ones named below.

**RootStore_proofs**

- `TypeCorrect`: `Spec => []TypeOK`. No operation writes an id that is not one.
- `FilesTrailMemory`: `Spec => []DiskTrailsMemory`. Between operations the files
  hold exactly what memory holds, and during one they differ only in the records still to be written.
- `NamesHaveOneOwner`: `Spec => []NamesNotShared`.
- `RegistryWellFormedAlways`: `Spec => []RegistryWellFormed`. `verifyrec` and `verifydir` would pass
  after any operation, for any number of records.
- `VerifyAlwaysEnds`: `Spec => []VerifyEnds`. The walks of `verifyrec` have no bound of their own; but for a
  cut-off append (`AppendCut`) they end on every file inside the vector.
- `TreeImplemented`: `TreeSpec => ImplementsTree`. Every step of the registry and its files is a step of the tree
  of entries of `BackupTree`, or none: an operation changes one entry and no other, and a stop can
  only lose that entry's change, leave that entry nameless, or make `load` refuse the files.

`DiskTrailsMemory` is not inductive. That it holds again after the last record is
written depends on the size of the file, and that it holds after the second write of `init` on
the first one. `DiskInv` adds the two facts: `SizeTrails` (while the root is up, every id
in `dirty` is a slot of the vector, and the file is shorter than the vector by at
most its last slot, which is then in `dirty`), and `QuietUnlessUp` (nothing is
waiting to be written unless the root is up, and `init` has put the names of memory on disk).
`NamesNotShared` speaks of memory, but what `load` reads is what an earlier process wrote,
perhaps in part: `Owned` says that an offset which two records claim, in memory or
on disk, has been erased in `rname`, and `Begun` that an offset in use was handed out.
The lemmas follow the code: one for each pure operator
(`AllocRecLemma`, `LinkRecordLemma`, `UnlinkRecordLemma`, `RecycleRecLemma`: the
result is a registry and differs only at the ids named), one per operation
(`InsertLemma`, `RemoveLemma`, `ModFileLemma`: what it changes is in `dirty`), and
one per group of actions for the invariant.

The two theorems about `verifyrec` are about links, and about walks along them. A registry is `Whole` if its active
records can be numbered in the order in which `verifyrec` reads them (`TreeNumbered`: each has a place, the
last place below it, and a directory, and the intervals of two records are nested or apart), its free ids in the order of the
recycle list (`ListWhole`), and both together fill the vector; the links lead where the numbers say. On
such a registry either walk ends and counts all there is (`WholeVerifies`). The walks are recursive
functions of the number of steps; `RecursionExists` and `Iterated` show that they exist, `RecycleWalkEnds` and
`TreeWalkEnds` follow them place by place. `InsertNumbers` and `RemoveNumbers` say
how the places move when a record comes or goes, `InsertLinks` and `RemoveLinks` that the links the code rewrites are
the ones that make them move so; `AllocateList` and `RecycleList` do the same for the recycle list, and
`FindRecordBetween` gives the order of siblings. `Regular` adds to `Whole` that names are in their table and, if
none is missing, in order.

After a stop the file holds the records with the lowest changed ids as they are now and the others as they were
(`Mix`). `Verdict` is what makes this case tractable: it asks nothing of the links of a
record where a walk stops. `InsertTorn` and `RemoveTorn` find for each such mixture one of
the two numberings, the old one or the new, that the walks can follow until they meet a record that is
active in the recycle list, free in the tree, or beyond the end, or until the counts fail to add up. So every stop leaves the old registry,
the new one or one that is refused (`Rejected`), whatever `rname` holds. The invariant `StoreInv` is `NameInv`
with: memory holds a regular registry (`InMemory`), the file a regular or a refused one (`OnDisk`), and
so it will after each of the writes still to come (`ToBeWritten`), which `WriteOne` carries over one write.

The last theorem reads such registries as trees. `PathsOf` is a recursive function of the directory of
a record, and on a regular registry the numbering gives that directory: `EntriesReached` shows that the children
the code finds along its links are the records whose directory it is, `TreeRead` that the paths
exist and are spelled by the names on the way, `PathsApart` that no two are equal, by the first place at which two
siblings could agree. `PathsKept` is what the refinement rests on. Two registries that agree on names and directories
of some records give them the same paths, so an insertion adds the path of the
new record to those that were there (`TreeGrown`), `modFile` keeps them all (`TreeKept`), and a
removal takes away one that has no path below it (`NothingBelow`). `InsertEntries` and `RemoveEntries` say that
what an operation writes into other records are links only, which the entries do not show.
`TreeInv` adds to `StoreInv` that a file's time and size are those of some `addFile` or 0
(`AttrsIn`), and that the files hold the tree only when at most one record is left to write (`WrittenLast`):
otherwise an intermediate write could be taken for one that changes nothing. There is one lemma for
each group of actions (`InsertTree`, `ModTree`, `RemoveTree`, `WriteTree`, `LoadTree`, `StopTree`).

**RootRefresh_proofs**, for any names, any depth, any number of records, edits and failures:

- `TypeCorrect`: `Spec => []TypeOK`.
- `WalkIsValid`: `Spec => []WalkStaysValid`.
- `ActionsMeet`: `Spec => []ActionsMeetTheirRecords`.
- `VersionsStay`: `Spec => VersionsKept`.
- `RoomIsMade`: `Spec => []UploadsFindRoom`, in every setup. The exception, a `delDir` that has overlooked a
  directory (`overlooked`), is part of the property.
- `RunsBackUp`: `Spec => []QuietRunBacksUp`, under `ToldApart`: nobody puts an old version back with
  its old time, no file is of the first ten seconds of 1970, and of any three versions made in a row the
  registry can tell the last from the first. The code asks for each of them: it knows a version by its time and
  size only, takes times up to ten seconds apart for the same, and records the time 0 for a file
  that it could not open or that had just been a directory. Two edits within ten seconds of the reading of the attributes,
  the second back to the size they had, leave the version in between on the remote and no sign of it. The
  run `refresh` takes versions just that far apart (`MCClose`).

The second and the third say that what the code looks up by a path or a name agrees with an id it
remembers from before, while records come, go and are used again in between. The invariant
`Inv == Types /\ Shape` therefore gives every active record *its path* (`Now(P)`, with some
function `P`) and states everything by paths:

- `Forest(recs, P)`: the paths are distinct; each record is the child of the record of the path
  above it; the children of a directory are linked in ascending order and end with the loop back.
  `Recycled(recs, nrec)`: every other id below `nrec` is on the list of free ids, sorted.
- `Stack`: each level of `restate` is a directory of the registry that is not ignored, one name
  below the level above it, which is at `RECUR` or `RETURN`.
- `TopIs`: what the place of the top level in its listing and among its children has
  established. Before it in the children every record has been found in the listing and is of
  its kind (`Borne`); only the one at the place may be about to be deleted (`Doomed`).
- `ActIs`: the path of the action is one name below the top level, and, by its type, whether a
  record has this path and of which kind.

In `RootRecords_proofs`, that a search by name returns *the* record of a path (`RecordAtFinds`) rests on the children being
in order, and that the walk of `delDir` takes the leaves of a directory first and ends
(`LeafFound`) on a directory with active records below it having one that has none. The registry
changes are `AllocForest` and `RecycleForest`, with `InsertForest` and `RemoveForest` for the links;
each is used in one step of `Next` only (`RecordShaped`, `ForgetShaped`), and for every other action
one lemma (`...Shaped`) shows what it does to the stack. Searches
and recursive functions over children are defined by `CHOOSE`; the first lemmas show them to exist
(`RecursionExists`) and what they return (`FirstFromFinds`, `LastFromReturns`).

The last three are about the remote. `KeptBefore` adds to `Inv` what an action has seen to before it comes to
the remote copy: a deletion without history is of something ignored, now or before; what
was moved to the history is no longer there, all that was below it included; a file to be modified
has been moved away by the time of the upload, or the move has failed. That only the leaf
that is deleted, the place of the upload and the directories above it change is `ChangesAt`.
`RemoteKnown` says of everything on the remote that the directories above it are there
(`Closed`) and on record, not ignored (`Known`), which needs that a directory is empty on the remote
before its record is forgotten (`LeafEmpty`).

`RunsBackUp` needs two more invariants, one for all times and one for a run that nothing disturbs.
`Core` holds whatever happens, as long as no path may be ignored: the record of a file is
`Stale` (of an earlier version, and the registry will tell it from the local file now and from
every later one) or in `Sync` (the remote has the version it is of, or one after it). So it is for every record
(`Remembers`), for what is being deleted or modified, before that is done on the remote
(`RemovesStale`, `DeletesStale`, `ModifiesStale`), and for the attributes read
for the next record (`ReadsKnown`), since the listing they are compared with is of a time
no earlier than the record (`ListsKnown`). `Undisturbed` follows one run: listing and attributes are those
of now (`Shows`, `ReadsNow`), what is deleted is gone (`Spares`), what stage `NEW` has passed is
recorded as it is (`FinishesNew`), and of each directory that the walk is in or has left all is, but for where it
stands now (`LevelsDone`). When the walk returns from the root every file is on record as
it is (`WholeCovered`), and a record that the registry does not tell from the local file is then not
stale but in sync (`SettledMatches`).

**SmbConnect_proofs**: `TypeCorrect`, `CallbackDataStaysValid`, `ConnectedHasSession`,
`EveryAddressTried`, `EverySocketClosed`, for any number of addresses and legs. The
invariant is `TypeInv /\ CallInv /\ SocketInv`: `CallInv` ties the two memories to the point
the call is at, `SocketInv` the state of each socket to the three cursors `fd`, `trying` and
`next` (all before `trying` are dead, all from `next` on untried).
`FamiliesInterleaved` is `Spec => []Interleaved`, for lists of any length: `OrderInv` says
that no address is lost, that those of one family stay in their order, and that no two
neighbours before `base` are of one family while all from `base` to `link` are; `From` tells where
each address was before one is moved forward.

**SmbTransport_proofs**, for any number of calls and PDUs, any charges and limits:

- `IdsNeverShared`: `Spec => []IdsDisjoint`.
- `RepliesFindRequests`: `Spec => []RepliesMatch`.
- `WaitsAreAnswered`: `Spec => []WaitsForSomething`.
- `MemoryOutlives`: `Spec => []CallbackMemoryValid`, for any mixture of calls. What it leaves open, closes and writes
  that are given up, is where the code does fail (section 5).

For the queues every step is one of three (`StepKinds`): it takes something out, appends the
chain of a new call, or turns the first chain into PDUs. `IdsInv` lets the ids ascend from the PDUs
waited for along the queue to the next id, by intervals as wide as the charge
(`PdusLemma`, `Products`); `CallInv` gives a call one chain in the queue or else
one last PDU. On these rest `AnswerInv` (each answer, on its way or owed, has a PDU of its own: what is
written takes ids no answer can have) and `TouchInv` (the memory of a
call is live or left to the callback as long as its last PDU is in the queues).
`ReadInv` ties the PDU being read to the phase of the reader.

- `TypeCorrect`: `Spec => []TypeOK`.
- `CreditsNeverDrift`: `Spec => []CreditsAgree`. What was granted in the replies on
  their way is a sum over a sequence; the proof needs how it changes when a frame is
  added or taken out anywhere.
- `CreditsSuffice`: `Spec => []NoCreditStall`, where the limits leave room for the longest
  chain (`RoomForChains`): a server's cap of at least a chain, `MAX_CREDITS` at least two chains and
  at least a chain and the largest charge, and enough credits at the start for one chain. In the code
  these are 1024 against compounds of up to three PDUs and writes of 64 credits. While no
  call is given up there is at most one chain (`OneChain`); `StallInv` says that the client can
  pay for the one that is queued, which asks for what it leaves the client short of, and that the
  server's window, with what the request it holds asks for, pays for the next.

**Ignore_proofs**, of `IgnoreList`, for any files, edits and clock: `NoEditIsLost`, provided
that edits are at least two
seconds apart (`EditGap >= 2`); the code takes times a second apart for
the same. The invariant adds that times do not run ahead of the clock, and that between look and
reading the time seen is the file's or older than any later edit by the gap (`Remembered`).
`LastRuleDecides` is `LaterRulesWin`; its invariant is only that the rules are a sequence of lines.

Of `GlobMatch`: `LoopIsRight` is `MatchSpec => []MatchesAsMeant`, for texts and patterns of any length
over any characters that satisfy `Proper`: every character has a code; the path is not empty and
does not end in a slash, as `isignore` gets it; `**` begins the pattern or follows a slash or a star, as the comments of
`match.cpp` have it; and the ranges of a class do not share a bound, as in `a-b-c`, of which no
comment says what it means. Paths that a pattern takes only with a `**` that ends inside a name are outside
of the property; that the loop does take those is part of the proof. Outside of `Proper` the claim fails: `a**/` does not match
`a`, because the loop stops at the end of the text with a `/` left. The run `ignore` evaluates
`Proper` on all its inputs. `Means` and `Class` are recursive functions, which are shown to exist
by their last argument (`RecursionDown`) and then to agree about classes and escapes
(`ClassMeans`, `Shifted`). The meaning then is a table over the
positions of the two texts (`TableExists`), fixed for the run of the loop, and its invariant says what
the places to come back to are good for: there is a match at all exactly if there is one from
here, from the last `*` or from the last `**` (`NothingLost`); what the last `**` could still find, what follows
it finds as well (`StarsReach`, `StarsReachStar`: hence no older `**` and no `*` before it are
needed); what the last `*` could still find is found from here as many characters later
(`StarShifts`: hence no older `*`); and the loop does not meet `**/` at the end of the text (`NotAtEnd`).

**SmbPut_proofs**: `TypeCorrect` and `UploadIsFaithful`, for files of any size,
where the limits leave room for a grain (`RoomForGrain`). The invariant
says that the file was read exactly as far as it was counted, and what each chunk holds at each
step (`Uploading`).

**FsAdapter_proofs**, of `PathOrder`: `DpIsOrder` and `StIsOrder` (the comparisons are orders, for names
of any length), `ListingAscends` (what `ListDir` keeps ascends strictly, as the registry needs it),
`PartComparesAlike` (a comparison with a length is one of the part), `FindRecordFinds`
(stopping at the first greater name overlooks nothing). Where an
induction over the length would be natural the proofs take the least place of a
difference instead.

Of `UtfConv`, for names and bytes of any length and kind: `TypeCorrect` (units and bytes fit their width; it says
nothing of where a loop reads, and `decode_utf16` does read behind a name, section 5) and `BuffersSuffice`. Either loop goes through the same characters; the total a
measuring loop will reach is defined by choice and shown to exist (`TotalExists`);
the invariant of a loop is that what was counted and what is still to count make
the total, and `CharacterFits` that no character takes more than it was counted for.
`NamesSurviveAlways` is `Spec => []NamesSurvive`. A `Trail` is the set of pairs of places in the
UTF-16 of the name and in its UTF-8 at which a character begins in both; the encoding loop makes it longer by one
pair, and the two loops on the way back follow it, since decoding reads what encoding wrote
(`ReadsBack`) and encodes the units it came from (`UnitsOf`). `NameKept` says for each loop how far
along the trail it is, and, on the way back, that what is written so far are the first units of the name.

**Only model-checked**: `KeepsPromise` and the other properties of `RemoteSmb` (its functions are
recursive over the tree), `QuietRunMirrors` of `RootRefresh`, and all liveness. Out of the
prover's reach are liveness and ENABLED, induction over data, `RECURSIVE` operators and what the
libraries build on them (folds, `SelectSeq`; the rules of a file are selected by a recursive
function for this reason).

## 5. Where the code differs from what it says

Six are runs of the project that end with a counterexample:

- `torn_write`: `writeRec` writes the records of an operation in ascending order,
  in place. A stop between two of them can leave files that `verifyrec` refuses;
  `load` holds this for impossible (`AuAssert(false)`, `Root.cpp:113`). A release
  build then refuses the root at every start, until its files are removed.
- `pending`: "ispending: FILE: local change not synced" (`record.h:111`). A
  file becomes ignored, its remote copy is deleted, the process ends before
  the record is changed, and the rule is taken back: the record now claims a
  backup that is not there, and no later run notices.
- `remote_glued`: "del contents" (`RemoteSmb.cpp:428`). `delDir` puts directory
  and entry together without a separator (`:453`): in a directory `1` with an entry
  `2` it deletes the sibling `12`, and leaves the contents.
- `put_short`: the status of a write is the "Number of bytes written" (`libsmb2.h:659`), and
  `smb2_pwrite_async` shortens a write to the credits there are. `onSmbPutChunk` takes any number but that
  of the chunk for a failure and leaves `info.status` at 0 (`RemoteSmb.cpp:238`): `smbPutFile` polls for ever.
- `put_regrown`: "writesize != realsize only occurs when last chunk has just been put"
  (`RemoteSmb.cpp:246`). After a short read `fread` may return more when the file has grown since; whether it
  does is up to the C library. The `AuVerify` stops the process on Windows, and elsewhere unless `NDEBUG` is
  defined; with it the padding stays inside the file.
- `put_buffer`: `smb2_get_max_write_size` gives "the maximum data size that the server supports"
  (`libsmb2.h:650`), as the server has sent it (`libsmb2.c:868`), and the buffer has that size. `roundChunk` rounds up to 1024
  (`RemoteSmb.cpp:220`) regardless: if the size is no multiple of it, a chunk is longer than both, and `memset`
  (`:291`) clears what is behind the buffer. The usual servers have multiples.

More counterexamples are kept as configurations (`tlc -config X.cfg M`, with
`-continue` where two properties are listed). Each states what a text in the repository says:

| Configuration | Property | What happens |
|---|---|---|
| `MCRootStoreTree_Nameless` | `OnlyLoopbackNameless` | "only loopback record has no name" (`Root.cpp:219`). `eraseName` writes `rname` before `writeRec` recycles the record; a stop in between leaves an active record with no name, which `verifyrec` accepts and which `delFile` and `delDir` do not remove, since their `AuVerify` of its name fails. |
| `MCRootRefresh_RootFallback` | `FallbackHasParent` | `AuAssert(restate.size() >= 2)` (`Root.cpp:249`). A file directly in the root directory that disappears between listing and backup leads there with a single entry. Deeper files are handled. |
| `MCRootRefresh_Stuck` | `EventuallyBackedUp` | Without history, see section 3. |
| `MCRemoteSmb_LostRename` | `PutHistNeverLoses` | Force is to "delete destination if already exists" (`Remote.h:23`). A rename that took effect and whose answer is lost makes `moveFile` delete the destination, which is the moved file (`RemoteSmb.cpp:517`), if the check of the source fails too. |
| `MCSmbTransport_Failing` | `DestroyAborts` | "Any pending async commands will be aborted with -ECONNRESET" (`libsmb2.h:105`). Of a queued compound only the first callback runs, and of a PDU being read none (`init.c:338`). |
| `MCSmbTransport_Failing` | `NotUsedAfterFailure` | A context whose service failed can no longer be used (`libsmb2.h:179`); `RemoteSmb` has no mark for it (`RemoteSmb.cpp:99`). |
| `MCSmbTransport_Timeout` | `TimedOutCallsEnd` | After the timeout "a command will be aborted with SMB2_STATUS_IO_TIMEOUT" (`libsmb2.h:203`). Of a compound in the out queue the callback that ends the wait is dropped (`pdu.c:556`). AResq sets no timeout. |
| `MCSmbTransport_Signed` | `OffsetRecorded` | "Record at which iov we ended in this loop so we know where to start in the next" (`socket.c:604`). But `iov_offset` is a local (`socket.c:304`): when the socket runs dry inside a compound reply the signature is computed from the wrong vector. |
| `MCSmbTransport_Abandoned` | `NoMemoryMisused` | `smbPutFile` gives up while a write is under way whose callback data is its local `SmbPutInfo` (`RemoteSmb.cpp:304`); `libsmb2.h:654` promises a callback. |
| `MCGlobMatch_Directories` | `MatchesDirectories` | "** followed by a / match zero or more directories" (`match.cpp:69`). The loop lets it end inside a name (`match.cpp:146`): `**/a` takes `ba`. `MatchesAsMeant`, in the run `ignore`, leaves these paths out. |
| `MCIgnoreList_Verdict` | `KeepingStops` | "<0: keep and stop testing, 0: not ignore but continue testing" (`AresqIgnore.cpp:104`); a negated rule returns 0 and no rule -1 (`:117`). The one caller tests only for > 0. |
| `MCUtfConv_Ends` | `NamesComeBack` | "Unmatched low surrogate or EOS, invalid" (`utfconv.cpp:116`); the end is looked for one unit too far, so a whole pair at the end of a name is taken for half of one, and the file with that name is never found. |
| `MCUtfConv_Ends` | `StaysInName` | Half a pair at the end of a name makes the loop read on behind the 0 (`utfconv.cpp:115`), into what an earlier name has left there. |

What else the model brought up, with no property of its own: a file which is
deleted and, after a crash, restored with its old time is not backed up again
(`Restores` admits this; the runs leave it off); an empty directory that is deleted
on the remote, still recorded because of a crash, and made again by the user is
not made again on the remote until something is put into it, which is why
`QuietRunBacksUp` is about files and directories are `QuietRunMirrors`' with no
failures; `connect` gives up once the clock has moved on by a second although the timeout is 0,
which `libsmb2.h:208` calls "No timeout" (`sync.c:89`); calls of `isignore` closer than a
minute put off the next look at the ignore file for ever (`AresqIgnore.cpp:110`).

## 6. Hazards and the properties that watch them

| Hazard | Properties |
|---|---|
| A stop between two record writes, between `rname` and `record`, inside `init` | `SavedFilesVerify` (violated), `ImplementsTree`, `VerifyEnds` (both proved) |
| An id missing from `cids` | `DiskTrailsMemory` (proved) |
| Any sequence of insertions and removals; reused ids, shared bytes of `sub`; lost ids | `RegistryWellFormed`, `NamesNotShared` (both proved) |
| Listing or attributes stale when used | `WalkStaysValid`, `ActionsMeetTheirRecords`, `QuietRunBacksUp` (all proved), `QuietRunMirrors` |
| Remote changed, registry not yet | `QuietRunBacksUp` (proved), `EventuallyBackedUp`, `PendingTellsUnsynced` |
| History moved or not, upload locked or broken off | `VersionsKept`, `QuietRunBacksUp` (both proved) |
| Deletion of a directory stopped halfway | `UploadsFindRoom` (proved), `QuietRunMirrors` |
| Going back to a missing file for ever | `EventuallyBackedUp` |
| A request that failed after its effect, or between two requests of an operation | `KeepsPromise`, `PutHistLosesNothing`, `HistoryStays` |
| The contents of a directory on the remote that the registry does not know of | `DelDirKeepsOthers`, `EventuallyBackedUp` |
| A local file that changes while it is uploaded; short writes; chunk sizes | `UploadFaithful` (proved); `ChunkFitsBuffer`, `OnlyLastPadded`, `PutEnds` (violated) |
| Replies late, interim or out of order; ids of large writes | `RepliesMatch`, `WaitsForSomething`, `IdsDisjoint` (all proved) |
| Waiting for credits | `CreditsAgree`, `NoCreditStall` (both proved), `CallsEnd` |
| A call that gave up; the end of the context with calls pending | `CallbackMemoryValid` (proved) |
| Addresses relinked under two cursors, failing in any order | `Interleaved`, `AddressesTried`, `ConnectedMeansSession` (all proved) |
| A connect or disconnect that gives up anywhere | `CallbackDataValid`, `NoSocketLost` (both proved), `CallsReturn` |
| Edits of the ignore file between look and reading | `NoEditLost` (proved) |
| Order of rules, several stars, odd classes | `LaterRulesWin`, `MatchesAsMeant` (both proved), `Ends` |
| Two loops that must count alike | `BufferSuffices` (proved) |
| A name on its way through two conversions | `NamesSurvive` (proved) |
| Three places that sort names | theorems of `FsAdapter_proofs` |
| An error in one root ends the run for the others (`Aresq.cpp:96`) | none: it follows from one line |

## 7. Abstractions

Registry and walk:

- Names are ranks in sorted order. That registry, listing and lookup sort alike
  is what `FsAdapter_proofs` proves of the real comparisons.
- Writing one record of 16 bytes is atomic, and so is writing one name.
- In `RootRefresh` a registry change, with its file writes, is one step, and a
  record carries its name; `RootStore` opens this step up, on its own.
  What a stop inside `writeRec` means for the walk is that there is none: the
  files do not load, or an entry has lost its name.
- A directory is listed in one step. The time of a directory is never compared
  with anything and is 0. A directory where a file was listed is read with time
  and size 0.
- Versions of a file carry a time and a size. In `refresh` the times are 8
  seconds apart, so that a neighbour is within the 10 seconds the code
  tolerates and the one after is not. Sizes modulo 2^24 are the same in all versions.
- The ignore rules are a set of paths that changes at any time; what is below an
  ignored directory is not visited.
- An `AuAssert` is a property here, never a guard. An `AuVerify` on the way of an
  action is a guard: on Windows it stops the program in every build, elsewhere unless
  `NDEBUG` is defined (`audbg.h`). With `NDEBUG` on other systems a nameless record
  (section 5) would get further than the model lets it.

Remote:

- For `RootRefresh` the remote is the tree of `RemotePromise`. A failed upload leaves the destination as
  it was or removed (`moveFile` deletes it before it renames again); a failing
  `mkdir`, `unlink` or `rmdir` leaves it alone. Two behaviours of `RemoteSmb` are
  not in it: a version lost when two requests of one `putHist` fail, and
  siblings deleted by glued names (section 5). `Considerate` keeps the run `remote`
  to calls as `Root` makes them, with nothing in the way that has contents
  (`UploadsFindRoom`).
- The server answers a request as its names allow; its errors are those
  that `nterror_to_errno` tells apart for the code.
- The destructor-less `SmbFile` and `SmbDir` leave handles to the context, which frees them.
  `this->path == ""` (`RemoteSmb.cpp:67`) is a comparison without effect, so a path stays set.
- When a first chunk is longer than its buffer, clearing it writes behind the buffer, and `SmbPut` follows
  the upload no further (`overrun`).

Connection:

- The server is external. It answers each frame once, one reply per PDU, together
  or in frames of their own, and grants credits up to a cap.
- `MAX_CREDITS` is 1024 in the code; near it, a write may wait for
  credits which the client stopped asking for, so the run takes a cap at least the price of a chain.
- Memory never runs out. The server refuses with no status whose errno is 0
  (`END_OF_FILE`), which `connect` would take for success.
- `SmbConnect` follows one handle with one command under way; `SmbTransport` has no connecting.
- AResq calls neither `smb2_set_timeout` nor `smb2_timeout_pdus`; timeouts are a setup of their own.

Algorithms:

- Lengths in the UTF variants with a length count characters, not bytes, and these
  variants are left out: for a whole name they do what the ones without do,
  and for part of one they matter only to a directory time nobody reads.
- A call of the matcher depends on its two texts only, and a conversion on the name, so `MCIgnore` runs either
  the list or one of them, on inputs far beyond those of the list.

**Not modelled**, and why:

- Marshalling of the commands (`smb2-cmd-*.c`, `smb2-data-*.c`), NTLMSSP, Kerberos,
  hashes, ciphers, signing and sealing arithmetic: formats and
  arithmetic with published test vectors, no protocol state beyond what `SmbConnect` has.
- DCE/RPC, share enumeration, and other commands AResq never sends.
- libconfig: a generated scanner and parser, used once at the start.
- The password scrambling of `Aresq.cpp`, its `init`, and the loop over several roots.
- Logging, buffers and guards (memory helpers), `aresqc` (one call), and the empty
  Linux branch of the file system adapter.

Of the repository's 38 thousand lines of implementation about 33 thousand are the two
vendored libraries, and two thirds of those the formats, ciphers and generated parsers just
named. The share of lines that the models stand for is therefore low, an eighth, although it holds
most of AResq's own code and most of `socket.c`, `libsmb2.c` as far as AResq calls it, and the
queues of `pdu.c`.

## 8. Plan

1. `AresqRun`: several roots over several remotes, the `init` sequence, with
   errors that end the run.
2. `Passwd`: scrambling and its inverse, for every key and password.
3. `smb2_opendir` and `smb2_readdir` over several replies.

The next proof is that of `QuietRunMirrors`, from `Undisturbed` and what it says of directories where
nothing has ever failed.
