---------------------------- MODULE SmbPut_proofs ----------------------------
(***************************************************************************)
(* Proofs about SmbPut, for files of any size that change at any time, any     *)
(* older file on the remote and any limits of the server that leave room for   *)
(* a whole grain, multiples of the grain or not.                              *)
(*                                                                         *)
(* UploadFaithful says what the remote file holds.  That a write keeps it true  *)
(* depends on where the writes go and what is in the chunk under way: the     *)
(* stream and realsize stay together, and the chunk continues the file at the  *)
(* place it is written to (Uploading).                                       *)
(***************************************************************************)
EXTENDS SmbPut, TLAPS

Unit == Nat \cup {Padding}

LEMMA LeastOfTwo ==
  ASSUME NEW a \in Nat, NEW b \in Nat
  PROVE  Least({a, b}) \in {a, b} /\ Least({a, b}) <= a /\ Least({a, b}) <= b
<1> DEFINE m == IF a <= b THEN a ELSE b
<1>1. m \in {a, b} /\ \A x \in {a, b} : m <= x
  OBVIOUS
<1> QED
  BY <1>1 DEF Least

LEMMA LeastOfThree ==
  ASSUME NEW a \in Nat, NEW b \in Nat, NEW c \in Nat
  PROVE  Least({a, b, c}) \in Nat /\ Least({a, b, c}) <= a
<1> DEFINE k == IF a <= b THEN a ELSE b
           m == IF k <= c THEN k ELSE c
<1>1. m \in {a, b, c} /\ \A x \in {a, b, c} : m <= x
  OBVIOUS
<1> QED
  BY <1>1 DEF Least

(* Rounding up to the grain loses nothing.                                  *)
LEMMA RoundsUp ==
  ASSUME NEW n \in Nat, NEW limit \in Nat, limit >= Grain
  PROVE  RoundChunk(n, limit) \in Nat /\ RoundChunk(n, limit) >= n
<1> DEFINE q == (n + Grain - 1) \div Grain
<1>1. Grain \in Nat /\ Grain > 0 /\ n + Grain - 1 \in Nat
  BY LimitsAssumption
<1>2. q \in Nat /\ Grain * q \in Nat /\ Grain * q + Grain > n + Grain - 1
  BY <1>1, SMT
<1> HIDE DEF q
<1>3. Grain * q >= n
  BY <1>1, <1>2
<1> QED
  BY <1>2, <1>3 DEF RoundChunk, q

(* What is before a write stays, and what is written is there.               *)
LEMMA OverwrittenLemma ==
  ASSUME NEW file \in Seq(Unit), NEW offset \in Nat, NEW units \in Seq(Unit),
         offset <= Len(file)
  PROVE  LET new == Overwritten(file, offset, units) IN
         /\ new \in Seq(Unit)
         /\ Len(new) >= offset + Len(units)
         /\ \A i \in 1 .. offset : new[i] = file[i]
         /\ \A i \in 1 .. Len(units) : new[offset + i] = units[i]
<1> DEFINE n == IF Len(file) > offset + Len(units) THEN Len(file) ELSE offset + Len(units)
           unit(i) == IF i > offset /\ i <= offset + Len(units) THEN units[i - offset]
                      ELSE IF i <= Len(file) THEN file[i] ELSE Padding
           new == [i \in 1 .. n |-> unit(i)]
<1>1. n \in Nat /\ n >= offset + Len(units) /\ n >= Len(file)
  OBVIOUS
<1>2. \A i \in 1 .. n : unit(i) \in Unit
  <2> TAKE i \in 1 .. n
  <2>1. i > offset /\ i <= offset + Len(units) => i - offset \in 1 .. Len(units)
    OBVIOUS
  <2>2. i <= Len(file) => file[i] \in Unit
    OBVIOUS
  <2> QED
    BY <2>1, <2>2 DEF Unit
<1>3. new \in Seq(Unit) /\ Len(new) = n /\ \A i \in 1 .. n : new[i] = unit(i)
  BY <1>1, <1>2
<1>4. \A i \in 1 .. offset : i \in 1 .. n /\ unit(i) = file[i]
  BY <1>1
<1>5. \A i \in 1 .. Len(units) : offset + i \in 1 .. n /\ unit(offset + i) = units[i]
  BY <1>1
<1>6. Overwritten(file, offset, units) = new
  BY DEF Overwritten
<1> HIDE DEF n, unit, new
<1> QED
  BY <1>1, <1>3, <1>4, <1>5, <1>6

(* The server and smbPutFile allow chunks of at least a grain.                *)
RoomForGrain == (\A limit \in WriteSizes : limit >= Grain) /\ ChunkLimit >= Grain

LEMMA MaxChunkLemma ==
  ASSUME RoomForGrain, PutTypeOK PROVE MaxChunk \in Nat /\ MaxChunk >= Grain
<1>1. max_write_size \in Nat /\ max_write_size >= Grain /\ ChunkLimit \in Nat /\ ChunkLimit >= Grain
  BY LimitsAssumption DEF RoomForGrain, PutTypeOK
<1> QED
  BY <1>1, LimitsAssumption, LeastOfTwo DEF MaxChunk

LEMMA ReadSizeLemma ==
  ASSUME RoomForGrain, PutTypeOK PROVE ReadSizes \subseteq Nat
<1>1. size \in Nat /\ pos \in Nat
  BY LimitsAssumption DEF PutTypeOK
<1>2. size > pos => size - pos \in Nat
  BY <1>1
<1> QED
  BY <1>1, <1>2, MaxChunkLemma, LeastOfTwo DEF ReadSizes

LEMMA ChunkOfLemma ==
  ASSUME RoomForGrain, PutTypeOK, NEW n \in Nat
  PROVE  /\ ChunkOf(n) \in Seq(Unit) /\ Len(ChunkOf(n)) >= n
         /\ \A i \in 1 .. n : ChunkOf(n)[i] = pos + i
<1> DEFINE len == RoundChunk(n, MaxChunk)
<1>1. len \in Nat /\ len >= n
  BY MaxChunkLemma, RoundsUp
<1> HIDE DEF len
<1>2. ChunkOf(n) = [i \in 1 .. len |-> IF i <= n THEN pos + i ELSE Padding]
  BY DEF ChunkOf, len
<1>3. \A i \in 1 .. len : (IF i <= n THEN pos + i ELSE Padding) \in Unit
  BY DEF Unit, PutTypeOK
<1> QED
  BY <1>1, <1>2, <1>3

-----------------------------------------------------------------------------
Holds(k) == Len(remote) >= k /\ \A i \in 1 .. k : remote[i] = i

Uploading ==
  /\ put \in {"open", "create", "start"} => real = 0
  /\ put = "poll" =>
       /\ written <= real /\ Holds(written)
       /\ chunk # <<>> =>
            /\ Len(chunk) >= real - written
            /\ \A i \in 1 .. real - written : chunk[i] = written + i
  /\ put \in {"close", "truncate"} => written >= real /\ Holds(real)
  /\ put = "OK" => remote = [i \in 1 .. real |-> i]

Inv == PutTypeOK /\ pos = real /\ Uploading

LEMMA InitInv == PutInit => Inv
<1> SUFFICES ASSUME PutInit PROVE Inv
  OBVIOUS
<1>1. PICK n \in OldSizes : remote = [i \in 1 .. n |-> Old]
  BY DEF PutInit
<1>2. n \in Nat
  BY LimitsAssumption
<1>3. remote \in Seq(Nat \cup {Padding})
  BY <1>1, <1>2 DEF Old
<1>4. PutTypeOK
  <2>1. 0 \in 0 .. MaxChanges /\ credits \in Nat
    BY LimitsAssumption DEF PutInit
  <2>2. put \in Steps /\ eof \in BOOLEAN
    BY DEF PutInit, Steps
  <2>3. <<>> \in Seq(Nat \cup {Padding})
    OBVIOUS
  <2>4. chunk \in Seq(Nat \cup {Padding})
    BY <2>3 DEF PutInit
  <2>5. /\ max_write_size \in WriteSizes /\ size \in Sizes /\ pos \in Nat /\ total \in Nat /\ written \in Nat /\ real \in Nat
        /\ changes \in 0 .. MaxChanges
    BY <2>1 DEF PutInit
  <2> QED
    BY <1>3, <2>1, <2>2, <2>4, <2>5 DEF PutTypeOK
<1>5. Uploading
  BY DEF PutInit, Uploading
<1> QED
  BY <1>4, <1>5 DEF Inv, PutInit

(* A step to the next chunk, when all that was read has been written, or there   *)
(* is nothing left to read; the remote file already holds done units.          *)
LEMMA NextChunkInv ==
  ASSUME RoomForGrain, Inv, NEW n \in Nat, NEW done \in Nat, NextChunk(n, done),
         remote' \in Seq(Unit), Len(remote') >= real, \A i \in 1 .. real : remote'[i] = i,
         done >= real, n = 0 \/ done = real,
         UNCHANGED <<max_write_size, total, changes>>, size' \in Sizes
  PROVE  Inv'
<1>2. real \in Nat /\ pos = real /\ pos \in Nat
  BY DEF Inv, PutTypeOK
<1>3. /\ ChunkOf(n) \in Seq(Unit) /\ Len(ChunkOf(n)) >= n
      /\ \A i \in 1 .. n : ChunkOf(n)[i] = pos + i
  BY <1>2, ChunkOfLemma DEF Inv
<1>4. /\ pos' = pos + n /\ chunk' = ChunkOf(n) /\ written' = done
      /\ n = 0 => put' = "close" /\ real' = real /\ credits' = credits
      /\ n # 0 => put' = "poll" /\ real' = real + n /\ credits' \in Credits
      /\ eof' \in BOOLEAN
  BY DEF NextChunk, Inv, PutTypeOK
<1>5. PutTypeOK'
  <2>1. pos' \in Nat /\ real' \in Nat /\ written' \in Nat
    BY <1>2, <1>4
  <2>2. credits' \in Nat /\ put' \in Steps
    BY <1>4, LimitsAssumption DEF Steps, Inv, PutTypeOK
  <2>3. max_write_size' \in WriteSizes /\ total' \in Nat /\ changes' \in 0 .. MaxChanges
    BY DEF Inv, PutTypeOK
  <2> QED
    BY <1>3, <1>4, <2>1, <2>2, <2>3 DEF PutTypeOK, Unit
<1>6. pos' = real'
  BY <1>2, <1>4
<1>7. Uploading'
  <2>1. CASE n = 0
    BY <1>2, <1>4, <2>1 DEF Uploading, Holds
  <2>2. CASE n # 0
    <3>1. done = real
      BY <2>2
    <3>2. put' = "poll" /\ written' = real /\ real' - written' = n
      BY <1>2, <1>4, <2>2, <3>1
    <3>3. Holds(written)'
      BY <3>2 DEF Holds
    <3>4. Len(chunk') >= n /\ \A i \in 1 .. n : chunk'[i] = written' + i
      BY <1>2, <1>3, <1>4, <3>2
    <3>5. written' <= real'
      BY <1>2, <1>4, <2>2, <3>1
    <3> QED
      BY <3>2, <3>3, <3>4, <3>5 DEF Uploading
  <2> QED
    BY <2>1, <2>2
<1> QED
  BY <1>5, <1>6, <1>7 DEF Inv

(* A write, whole or short, of the chunk under way.                          *)
LEMMA OnSmbPutChunkInv ==
  ASSUME RoomForGrain, Inv, OnSmbPutChunk
  PROVE  Inv'
<1> DEFINE count == Pwrite(Len(chunk))
           units == SubSeq(chunk, 1, count)
<1>1. /\ remote \in Seq(Unit) /\ chunk \in Seq(Unit) /\ Len(chunk) \in Nat
      /\ written \in Nat /\ real \in Nat /\ pos = real
      /\ put = "poll" /\ written <= real /\ Holds(written) /\ chunk # <<>>
      /\ Len(chunk) >= real - written
      /\ \A i \in 1 .. real - written : chunk[i] = written + i
  BY DEF Inv, PutTypeOK, Uploading, OnSmbPutChunk, Unit
<1>2. count \in Nat /\ count <= Len(chunk)
  <2>1. max_write_size \in Nat /\ credits * CreditSize \in Nat
    BY LimitsAssumption DEF Inv, PutTypeOK
  <2> QED
    BY <1>1, <2>1, LeastOfThree DEF Pwrite
<1>3. /\ remote' = Overwritten(remote, written, units)
      /\ UNCHANGED <<max_write_size, size, total, changes>>
  BY DEF OnSmbPutChunk
<1>a. PICK n \in ReadSizes :
        \/ chunk' = <<>> /\ UNCHANGED <<pos, eof, written, real, credits, put>>
        \/ put' = "divide" /\ UNCHANGED <<pos, eof, written, real, chunk, credits>>
        \/ put' = "verify" /\ UNCHANGED <<pos, eof, written, real, chunk, credits>>
        \/ /\ count = Len(chunk) /\ (written + count = real \/ n = 0)
           /\ NextChunk(n, written + count)
  BY DEF OnSmbPutChunk
<1>b. n \in Nat
  BY <1>a, ReadSizeLemma DEF Inv
<1> HIDE DEF count
<1>4. units \in Seq(Unit) /\ Len(units) = count /\ \A i \in 1 .. count : units[i] = chunk[i]
  BY <1>1, <1>2
<1> HIDE DEF units
<1>5. /\ remote' \in Seq(Unit) /\ Len(remote') >= written + count
      /\ \A i \in 1 .. written : remote'[i] = i
      /\ \A i \in 1 .. count : remote'[written + i] = chunk[i]
  <2>1. written <= Len(remote) /\ \A i \in 1 .. written : remote[i] = i
    BY <1>1 DEF Holds
  <2>2. /\ Overwritten(remote, written, units) \in Seq(Unit)
        /\ Len(Overwritten(remote, written, units)) >= written + Len(units)
        /\ \A i \in 1 .. written : Overwritten(remote, written, units)[i] = remote[i]
        /\ \A i \in 1 .. Len(units) :
             Overwritten(remote, written, units)[written + i] = units[i]
    BY <1>1, <1>4, <2>1, OverwrittenLemma
  <2> QED
    BY <1>3, <1>4, <2>1, <2>2
<1>6. CASE chunk' = <<>> /\ UNCHANGED <<pos, eof, written, real, credits, put>>
  <2>1. Holds(written)'
    BY <1>1, <1>2, <1>5, <1>6 DEF Holds
  <2>2. Uploading'
    BY <1>1, <1>6, <2>1 DEF Uploading
  <2>3. PutTypeOK'
    BY <1>3, <1>5, <1>6 DEF Inv, PutTypeOK, Unit
  <2> QED
    BY <1>6, <2>2, <2>3 DEF Inv
<1>7. CASE put' \in {"divide", "verify"} /\ UNCHANGED <<pos, eof, written, real, chunk, credits>>
  BY <1>3, <1>5, <1>7 DEF Inv, PutTypeOK, Uploading, Unit, Broken
<1>8. CASE /\ count = Len(chunk) /\ (written + count = real \/ n = 0)
           /\ NextChunk(n, written + count)
  <2>1. written + count \in Nat /\ written + count >= real /\ Len(remote') >= real
    BY <1>1, <1>2, <1>5, <1>8
  <2>2. \A i \in 1 .. real : remote'[i] = i
    <3> TAKE i \in 1 .. real
    <3>1. CASE i <= written
      BY <1>5, <3>1
    <3>2. CASE i > written
      <4>1. i - written \in 1 .. real - written /\ i - written \in 1 .. count
        BY <1>1, <1>2, <1>8, <3>2
      <4>2. remote'[written + (i - written)] = written + (i - written)
        BY <1>1, <1>5, <4>1
      <4> QED
        BY <1>1, <4>2
    <3> QED
      BY <1>1, <3>1, <3>2
  <2>3. size' \in Sizes
    BY <1>3 DEF Inv, PutTypeOK
  <2> QED
    BY <1>3, <1>5, <1>8, <1>b, <2>1, <2>2, <2>3, NextChunkInv
<1> QED
  BY <1>a, <1>6, <1>7, <1>8

LEMMA NextInv ==
  ASSUME RoomForGrain, Inv, [PutNext]_putvars
  PROVE  Inv'
<1>1. CASE OpenLocal
  BY <1>1, LimitsAssumption DEF OpenLocal, Inv, PutTypeOK, Uploading, Holds, Steps, Returned
<1>2. CASE OpenRemote
  BY <1>2 DEF OpenRemote, Inv, PutTypeOK, Uploading, Holds, Steps, Returned
<1>3. CASE FirstChunk
  <2>1. real = 0 /\ remote' = remote /\ remote \in Seq(Unit)
    BY <1>3 DEF FirstChunk, Inv, PutTypeOK, Uploading, Unit
  <2>2. size' \in Sizes /\ UNCHANGED <<max_write_size, total, changes>>
    BY <1>3 DEF FirstChunk, Inv, PutTypeOK
  <2>3. PICK n \in ReadSizes :
          \/ NextChunk(n, 0)
          \/ put' = "overrun" /\ chunk' = ChunkOf(n) /\ UNCHANGED <<pos, eof, written, real, credits>>
    BY <1>3 DEF FirstChunk
  <2>4. n \in Nat
    BY <2>3, ReadSizeLemma DEF Inv
  <2>5. CASE NextChunk(n, 0)
    BY <2>1, <2>2, <2>4, <2>5, NextChunkInv
  <2>6. CASE put' = "overrun" /\ chunk' = ChunkOf(n) /\ UNCHANGED <<pos, eof, written, real, credits>>
    <3>1. chunk' \in Seq(Unit)
      BY <2>4, <2>6, ChunkOfLemma DEF Inv
    <3>2. PutTypeOK'
      BY <2>1, <2>2, <2>6, <3>1 DEF Inv, PutTypeOK, Unit, Broken
    <3> QED
      BY <2>6, <3>2 DEF Inv, Uploading
  <2> QED
    BY <2>3, <2>5, <2>6
<1>4. CASE OnSmbPutChunk
  BY <1>4, OnSmbPutChunkInv
<1>5. CASE WriteFails \/ ServiceFails
  BY <1>5 DEF WriteFails, ServiceFails, Inv, PutTypeOK, Uploading, Returned
<1>6. CASE Close
  BY <1>6 DEF Close, Inv, PutTypeOK, Uploading, Holds, Steps
<1>7. CASE Truncate
  <2>1. /\ remote \in Seq(Unit) /\ real \in Nat /\ Holds(real)
        /\ UNCHANGED <<max_write_size, size, pos, eof, total, written, real, chunk, credits, changes>>
    BY <1>7 DEF Truncate, Inv, PutTypeOK, Uploading, Unit
  <2>2. /\ SubSeq(remote, 1, real) \in Seq(Unit)
        /\ SubSeq(remote, 1, real) = [i \in 1 .. real |-> i]
    BY <2>1 DEF Holds
  <2>3. CASE put' = "DISCONNECTED" /\ UNCHANGED remote
    BY <2>1, <2>3 DEF Inv, PutTypeOK, Uploading, Returned
  <2>4. CASE put' = "OK" /\ remote' = SubSeq(remote, 1, real)
    BY <2>1, <2>2, <2>4 DEF Inv, PutTypeOK, Uploading, Returned, Unit
  <2> QED
    BY <1>7, <2>3, <2>4 DEF Truncate
<1>8. CASE LocalChanges
  BY <1>8, LimitsAssumption DEF LocalChanges, Inv, PutTypeOK, Uploading, Holds, Steps
<1>9. CASE UNCHANGED putvars
  BY <1>9 DEF putvars, Inv, PutTypeOK, Uploading, Holds
<1> QED
  BY <1>1, <1>2, <1>3, <1>4, <1>5, <1>6, <1>7, <1>8, <1>9 DEF PutNext, Put

LEMMA InvHolds ==
  ASSUME RoomForGrain PROVE PutSpec => []Inv
  BY InitInv, NextInv, PTL DEF PutSpec

(* The sizes stay numbers, and the remote file and the chunk sequences of units,  *)
(* whatever is read and written.                                             *)
THEOREM TypeCorrect ==
  ASSUME RoomForGrain PROVE PutSpec => []PutTypeOK
<1>1. Inv => PutTypeOK
  BY DEF Inv
<1> QED
  BY <1>1, InvHolds, PTL

(* A file that smbPutFile reports as uploaded is on the remote unit for unit as   *)
(* it was read, however often it changed meanwhile, in chunks of any size,       *)
(* with no padding and nothing of an older file left.                          *)
THEOREM UploadIsFaithful ==
  ASSUME RoomForGrain PROVE PutSpec => []UploadFaithful
<1>1. Inv => UploadFaithful
  BY DEF Inv, PutTypeOK, Uploading, Holds, UploadFaithful
<1> QED
  BY <1>1, InvHolds, PTL
=============================================================================
