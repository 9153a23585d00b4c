------------------------------- MODULE SmbPut -------------------------------
(***************************************************************************)
(* RemoteSmb::smbPutFile and its callback onSmbPutChunk: the upload of one   *)
(* local file to one remote name, a chunk at a time.                        *)
(*                                                                         *)
(* Sizes are in units.  The content of the local file is the sequence of its  *)
(* units, each known by its number; the file may grow or shrink while it is   *)
(* read, as other programs use it.  The remote name may hold an older file.   *)
(* What a write is answered with is left to libsmb2 and the server: pwrite     *)
(* shortens a write to the largest the server takes and to the credits there  *)
(* are, and the connection may fail.                                       *)
(***************************************************************************)
EXTENDS Integers, Sequences, FiniteSets

CONSTANTS
  Sizes,          \* sizes of the local file, at first and later
  OldSizes,       \* sizes of the file that stands under the remote name
  Grain,          \* chunks are rounded up to this, 1024 bytes in the code
  WriteSizes,     \* largest writes that a server may announce, each one server's
  ChunkLimit,     \* smbPutFile's own, 4 MiB
  CreditSize,     \* a credit pays for this much, 64 KiB
  Credits,        \* credits there may be when a write starts
  MaxChanges      \* bound: how often the local file changes

ASSUME LimitsAssumption ==
  /\ Sizes \subseteq Nat /\ OldSizes \subseteq Nat /\ Credits \subseteq Nat
  /\ Grain \in Nat \ {0} /\ WriteSizes \subseteq Nat \ {0} /\ ChunkLimit \in Nat \ {0}
  /\ CreditSize \in Nat \ {0} /\ MaxChanges \in Nat

Old == 0         \* a unit of the older remote file
Padding == -1    \* what a chunk is filled up with

VARIABLES
  max_write_size,           \* of WriteSizes, what the server has announced
  size,                     \* of the local file now
  pos, eof,                 \* of the stream lfp
  remote,                   \* the units of the remote file
  total, written, real,     \* totalsize, writesize, realsize of SmbPutInfo
  chunk,                    \* the units of info.buf that are being written
  credits,                  \* for the write that is under way
  put,
  changes

putvars == <<max_write_size, size, pos, eof, remote, total, written, real, chunk, credits, put, changes>>

(* The steps of smbPutFile; after them, what it returned, or how it broke. *)
Returned == {"OK", "FILELOCKED", "EPARAM", "DISCONNECTED"}
Broken == {"verify", "divide", "overrun"}
Steps == {"open", "create", "start", "poll", "close", "truncate"}

PutTypeOK ==
  /\ max_write_size \in WriteSizes /\ size \in Sizes /\ pos \in Nat /\ eof \in BOOLEAN
  /\ remote \in Seq(Nat \cup {Padding}) /\ chunk \in Seq(Nat \cup {Padding})
  /\ total \in Nat /\ written \in Nat /\ real \in Nat /\ credits \in Nat
  /\ put \in Steps \cup Returned \cup Broken /\ changes \in 0 .. MaxChanges

PutInit ==
  /\ max_write_size \in WriteSizes /\ size \in Sizes /\ pos = 0 /\ eof = FALSE
  /\ \E n \in OldSizes : remote = [i \in 1 .. n |-> Old]
  /\ total = 0 /\ written = 0 /\ real = 0 /\ chunk = <<>> /\ credits \in Credits
  /\ put = "open" /\ changes = 0

Least(S) == CHOOSE n \in S : \A m \in S : n <= m

-----------------------------------------------------------------------------
(* SmbHandle::getchunksize *)
MaxChunk == Least({ChunkLimit, max_write_size})

(* The largest power of two that is at most n. *)
HighBit(n) == CHOOSE b \in {2 ^ k : k \in 0 .. n} : b <= n /\ n < 2 * b

(* Rounds n up to the grain, or to the largest power of two in a small limit. *)
RoundChunk(n, limit) ==
  LET step == IF limit >= Grain THEN Grain ELSE IF limit < 2 THEN 1 ELSE HighBit(limit)
  IN step * ((n + step - 1) \div step)

(* What fread may put into info.buf.  A stream that was at its end stays there   *)
(* or reads on in a file that has grown: the C library decides.               *)
ReadSizes ==
  {IF size > pos THEN Least({MaxChunk, size - pos}) ELSE 0} \cup IF eof THEN {0} ELSE {}

(* Faulty: takes the position after the read for the one before it. *)
ChunkOfAfter(n) ==
  [i \in 1 .. RoundChunk(n, MaxChunk) |-> IF i <= n THEN pos + n + i ELSE Padding]

(* The chunk that is written for what was read. *)
ChunkOf(n) ==
  [i \in 1 .. RoundChunk(n, MaxChunk) |-> IF i <= n THEN pos + i ELSE Padding]

(* smb2_pwrite_async: what is left of a write of n units. *)
Pwrite(n) == Least({n, max_write_size, credits * CreditSize})

(* Units at an offset of the remote file; a gap before them reads as padding. *)
Overwritten(file, offset, units) ==
  [i \in 1 .. (IF Len(file) > offset + Len(units) THEN Len(file) ELSE offset + Len(units)) |->
    IF i > offset /\ i <= offset + Len(units) THEN units[i - offset]
    ELSE IF i <= Len(file) THEN file[i] ELSE Padding]

-----------------------------------------------------------------------------
OpenLocal ==
  /\ put = "open"
  /\ \/ put' = "FILELOCKED" /\ UNCHANGED total
     \/ put' = "create" /\ total' = size
  /\ UNCHANGED <<max_write_size, size, pos, eof, remote, written, real, chunk, credits, changes>>

(* smb2_open, and addDir for the directory when it fails; O_TRUNC is not asked. *)
OpenRemote ==
  /\ put = "create"
  /\ put' \in {"start", "EPARAM"}
  /\ UNCHANGED <<max_write_size, size, pos, eof, remote, total, written, real, chunk, credits, changes>>

(* Reads a chunk at the end of what was read, and starts to write it. *)
NextChunk(n, done) ==
  /\ pos' = pos + n /\ eof' = (eof \/ n < MaxChunk)
  /\ IF n = 0 THEN /\ put' = "close" /\ UNCHANGED <<real, credits>>
     ELSE /\ put' = "poll" /\ real' = real + n
          /\ credits' \in Credits
  /\ chunk' = ChunkOf(n)
  /\ written' = done

(* What a first chunk is padded with is set to 0, in a buffer of MaxChunk bytes; *)
(* behind that buffer is other memory.                                       *)
FirstChunk ==
  /\ put = "start"
  /\ \E n \in ReadSizes :
       \/ Len(ChunkOf(n)) <= MaxChunk /\ NextChunk(n, 0)
       \/ /\ Len(ChunkOf(n)) > MaxChunk /\ put' = "overrun" /\ chunk' = ChunkOf(n)
          /\ UNCHANGED <<pos, eof, written, real, credits>>
  /\ UNCHANGED <<max_write_size, size, remote, total, changes>>

(* onSmbPutChunk, for a write of which count units were written.  A count other *)
(* than the chunk's leaves info.status at 0.                                  *)
OnSmbPutChunk ==
  /\ put = "poll"
  /\ \E n \in ReadSizes :
     LET count == Pwrite(Len(chunk))
     IN /\ chunk # <<>>
        /\ remote' = Overwritten(remote, written, SubSeq(chunk, 1, count))
        /\ \/ /\ count = 0 \/ count # Len(chunk)
              /\ chunk' = <<>>
              /\ UNCHANGED <<pos, eof, written, real, credits, put>>
           \/ /\ count # 0 /\ count = Len(chunk) /\ total = 0
              /\ put' = "divide"
              /\ UNCHANGED <<pos, eof, written, real, chunk, credits>>
           \/ /\ count # 0 /\ count = Len(chunk) /\ total # 0
              /\ IF written + count = real \/ n = 0
                 THEN NextChunk(n, written + count)
                 ELSE put' = "verify" /\ UNCHANGED <<pos, eof, written, real, chunk, credits>>
  /\ UNCHANGED <<max_write_size, size, total, changes>>

(* The write is refused: info.status < 0. *)
WriteFails ==
  /\ put = "poll" /\ chunk # <<>>
  /\ put' = "DISCONNECTED"
  /\ UNCHANGED <<max_write_size, size, pos, eof, remote, total, written, real, chunk, credits, changes>>

(* poll or smb2_service fails. *)
ServiceFails ==
  /\ put = "poll"
  /\ put' = "DISCONNECTED"
  /\ UNCHANGED <<max_write_size, size, pos, eof, remote, total, written, real, chunk, credits, changes>>

(* rfp is closed, whatever the answer; then the remote file is cut to realsize. *)
Close ==
  /\ put = "close"
  /\ put' = "truncate"
  /\ UNCHANGED <<max_write_size, size, pos, eof, remote, total, written, real, chunk, credits, changes>>

(* Faulty: cuts the file only when its last chunk was padded. *)
TruncatePadded ==
  /\ put = "truncate"
  /\ \/ put' = "DISCONNECTED" /\ UNCHANGED remote
     \/ put' = "OK" /\ remote' = IF written > real THEN SubSeq(remote, 1, real) ELSE remote
  /\ UNCHANGED <<max_write_size, size, pos, eof, total, written, real, chunk, credits, changes>>

Truncate ==
  /\ put = "truncate"
  /\ \/ put' = "DISCONNECTED" /\ UNCHANGED remote
     \/ put' = "OK" /\ remote' = SubSeq(remote, 1, real)
  /\ UNCHANGED <<max_write_size, size, pos, eof, total, written, real, chunk, credits, changes>>

(* Another program writes the local file. *)
LocalChanges ==
  /\ put \in Steps /\ changes < MaxChanges
  /\ size' \in Sizes \ {size}
  /\ changes' = changes + 1
  /\ UNCHANGED <<max_write_size, pos, eof, remote, total, written, real, chunk, credits, put>>

Put == OpenLocal \/ OpenRemote \/ FirstChunk \/ OnSmbPutChunk \/ WriteFails \/ ServiceFails
         \/ Close \/ Truncate
PutNext == Put \/ LocalChanges

PutSpec == PutInit /\ [][PutNext]_putvars

(* smbPutFile does what it can do, and what it waits for is answered; nothing     *)
(* need fail.                                                              *)
PutLiveSpec ==
  PutSpec /\ WF_putvars(OpenLocal \/ OpenRemote \/ FirstChunk \/ OnSmbPutChunk \/ Close \/ Truncate)

-----------------------------------------------------------------------------
(* While a file is uploaded, what is already written of it is right; once it    *)
(* was reported as uploaded it is the local file as it was read, unit for unit, *)
(* with nothing of the padding or of an older, longer file left.              *)
UploadFaithful ==
  /\ put \in {"poll", "close", "truncate"} =>
       \A i \in 1 .. Len(remote) : i <= written /\ i <= real => remote[i] = i
  /\ put = "OK" => remote = [i \in 1 .. real |-> i]

(* smb2_get_max_write_size tells "the maximum data size that the server          *)
(* supports" (libsmb2.h), and smbPutFile has a buffer of that size at most: no   *)
(* chunk that is written is larger.                                          *)
ChunkFitsBuffer == Len(chunk) <= MaxChunk

(* The AuVerify of onSmbPutChunk: "writesize != realsize only occurs when last  *)
(* chunk has just been put", so nothing is read behind a chunk that was padded.  *)
OnlyLastPadded == put # "verify"

(* libsmb2.h says what a successful write returns: the "Number of bytes written", *)
(* which may be fewer than were asked for; smbPutFile returns all the same.     *)
PutEnds == <>(put \in Returned)
=============================================================================
