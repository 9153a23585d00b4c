------------------------------- MODULE UtfConv -------------------------------
(***************************************************************************)
(* The conversions of utfconv.cpp, as a name meets them on Windows: ListDir *)
(* turns the UTF-16 of the system into the UTF-8 of the registry, and       *)
(* buildPath turns that back when the file is looked up.  Either way the    *)
(* program measures first, makes a buffer, and then converts: two loops,    *)
(* one character a step.                                                   *)
(*                                                                         *)
(* Positions in memory count from 1.  A shift is a product or a quotient    *)
(* and a mask a remainder or a range.                                      *)
(***************************************************************************)
EXTENDS Integers, Sequences

CONSTANTS
  Names16,   \* UTF-16 names as the system stores them: none has a 0
  Stale,     \* what the buffer of a listing may still hold behind a name
  Names8     \* bytes as aresq.conf may give them: none has a 0

BMP_END == 65535

Unit == 0 .. BMP_END
Byte == 0 .. 255

ASSUME NamesAssumption ==
  /\ \A name \in Names16 : name \in Seq(Unit \ {0})
  /\ \A stale \in Stale : stale \in Seq(Unit)
  /\ \A name \in Names8 : name \in Seq(Byte \ {0})

INVALID_CODEPOINT == 65533
UNICODE_MAX == 1114111
SURROGATE_CODEPOINT_OFFSET == 65536

VARIABLES
  loop,      \* which loop runs: "measure8", "encode8", "measure16", "encode16"
  u16,       \* the buffer of the listing: a name, 0 and what is behind it
  u8,        \* the name in UTF-8 and its 0
  back,      \* the name in UTF-16 again
  at,        \* where the loop reads
  need       \* what the first loop of a conversion has counted

convvars == <<loop, u16, u8, back, at, need>>

ConvTypeOK ==
  /\ loop \in {"measure8", "encode8", "measure16", "encode16", "done"}
  /\ u16 \in Seq(Unit) /\ u8 \in Seq(Byte) /\ back \in Seq(Unit \ {0})
  /\ at \in Nat \ {0} /\ need \in Nat

-----------------------------------------------------------------------------
(* UTF-16: a decoder returns a code point and where it leaves off.           *)

IsSurrogate(u) == u \in 55296 .. 57343
IsHigh(u) == u \in 55296 .. 56319
IsLow(u) == u \in 56320 .. 57343

(* A high surrogate is taken with the unit behind it if the unit behind that  *)
(* one is not 0.                                                           *)
decode_utf16(m, k) ==
  IF m[k] = 0 THEN [code |-> 0, next |-> k]
  ELSE IF ~IsSurrogate(m[k]) THEN [code |-> m[k], next |-> k + 1]
  ELSE IF ~IsHigh(m[k]) \/ m[k + 2] = 0
    THEN [code |-> INVALID_CODEPOINT, next |-> k + 1]
  ELSE [code |-> IF IsLow(m[k + 1])
                   THEN (m[k] % 1024) * 1024 + (m[k + 1] % 1024)
                          + SURROGATE_CODEPOINT_OFFSET
                   ELSE INVALID_CODEPOINT,
        next |-> k + 2]

encode_utf16(c) ==
  IF c = 0 THEN <<>>
  ELSE IF c <= BMP_END THEN <<c>>
  ELSE LET d == c - SURROGATE_CODEPOINT_OFFSET
       IN <<55296 + ((d \div 1024) % 1024), 56320 + (d % 1024)>>

-----------------------------------------------------------------------------
(* UTF-8 *)

(* Faulty: the bounds are taken for the first code points beyond. *)
CharLenBelow(c) ==
  IF c <= 128 THEN 1 ELSE IF c <= 2048 THEN 2 ELSE IF c <= 65536 THEN 3 ELSE 4

utf8_char_len(c) ==
  IF c <= 127 THEN 1 ELSE IF c <= 2047 THEN 2 ELSE IF c <= 65535 THEN 3 ELSE 4

(* The value of each leading byte, and how many values its free bits take.   *)
LeadValue == <<0, 192, 224, 240>>
LeadRange == <<128, 32, 16, 8>>

(* What 0 to 3 continuation bytes count.                                     *)
Shift == <<1, 64, 4096, 262144>>

encode_utf8(c) ==
  LET size == utf8_char_len(c) IN
  [k \in 1 .. size |->
     LET bits == c \div Shift[size - k + 1] IN
     IF k = 1 THEN LeadValue[size] + (bits % LeadRange[size]) ELSE 128 + (bits % 64)]

(* How many bytes a leading byte announces; 0 if it is none.                 *)
Announced(b) ==
  LET fits == {s \in 1 .. 4 : b \in LeadValue[s] .. LeadValue[s] + LeadRange[s] - 1}
  IN IF fits = {} THEN 0 ELSE CHOOSE s \in fits : TRUE

(* Where the character at k ends: behind the bytes announced, or at a 0.     *)
IsWhole(m, k) == \A p \in k + 1 .. k + Announced(m[k]) - 1 : m[p] # 0
NextChar(m, k) ==
  IF IsWhole(m, k) THEN k + (IF Announced(m[k]) = 0 THEN 1 ELSE Announced(m[k]))
  ELSE CHOOSE p \in k + 1 .. k + 3 : m[p] = 0 /\ \A q \in k + 1 .. p - 1 : m[q] # 0

(* Faulty: a character is one unit. *)
CharLenOne(m, k) == 1

(* By the leading byte alone: four bytes are taken for a pair.               *)
utf8to16_char_len(m, k) == IF Announced(m[k]) = 4 /\ IsWhole(m, k) THEN 2 ELSE 1

decode_utf8(m, k) ==
  IF Announced(m[k]) = 0 \/ ~IsWhole(m, k) THEN INVALID_CODEPOINT
  ELSE LET And(bits, p) == bits * 64 + (m[p] % 64)
           s == Announced(m[k])
           one == m[k] % LeadRange[s]
           two == And(one, k + 1)
           three == And(two, k + 2)
           code == IF s = 1 THEN one ELSE IF s = 2 THEN two
                   ELSE IF s = 3 THEN three ELSE And(three, k + 3)
       IN IF (code < BMP_END /\ IsSurrogate(code)) \/ code > UNICODE_MAX
            THEN INVALID_CODEPOINT ELSE code

-----------------------------------------------------------------------------
(* A listing with a name of the system in it, or a directory of aresq.conf.  *)
InitListed ==
  /\ loop = "measure8"
  /\ \E name \in Names16, stale \in Stale : u16 = name \o <<0>> \o stale \o <<0, 0>>
  /\ u8 = <<>>

InitConfigured ==
  /\ loop = "measure16" /\ u16 = <<>>
  /\ \E name \in Names8 : u8 = Append(name, 0)

ConvInit == (InitListed \/ InitConfigured) /\ back = <<>> /\ at = 1 /\ need = 0

(* The loop that runs has read the 0.                                       *)
Go(next, count) == loop' = next /\ at' = 1 /\ need' = count

Measure8 ==
  /\ loop = "measure8" /\ u16[at] # 0
  /\ LET d == decode_utf16(u16, at)
     IN need' = need + utf8_char_len(d.code) /\ at' = d.next
  /\ UNCHANGED <<loop, u16, u8, back>>

Measured8 ==
  /\ loop = "measure8" /\ u16[at] = 0
  /\ Go("encode8", need) /\ UNCHANGED <<u16, u8, back>>

Encode8 ==
  /\ loop = "encode8" /\ u16[at] # 0
  /\ LET d == decode_utf16(u16, at)
     IN u8' = u8 \o encode_utf8(d.code) /\ at' = d.next
  /\ UNCHANGED <<loop, u16, back, need>>

Encoded8 ==
  /\ loop = "encode8" /\ u16[at] = 0
  /\ u8' = Append(u8, 0)
  /\ Go("measure16", 0) /\ UNCHANGED <<u16, back>>

Measure16 ==
  /\ loop = "measure16" /\ u8[at] # 0
  /\ need' = need + utf8to16_char_len(u8, at) /\ at' = NextChar(u8, at)
  /\ UNCHANGED <<loop, u16, u8, back>>

Measured16 ==
  /\ loop = "measure16" /\ u8[at] = 0
  /\ Go("encode16", need) /\ UNCHANGED <<u16, u8, back>>

Encode16 ==
  /\ loop = "encode16" /\ u8[at] # 0
  /\ back' = back \o encode_utf16(decode_utf8(u8, at)) /\ at' = NextChar(u8, at)
  /\ UNCHANGED <<loop, u16, u8, need>>

Encoded16 ==
  /\ loop = "encode16" /\ u8[at] = 0
  /\ loop' = "done" /\ UNCHANGED <<u16, u8, back, at, need>>

ConvNext ==
  \/ Measure8 \/ Measured8 \/ Encode8 \/ Encoded8
  \/ Measure16 \/ Measured16 \/ Encode16 \/ Encoded16

ConvSpec == ConvInit /\ [][ConvNext]_convvars

-----------------------------------------------------------------------------
(* The two loops of a conversion agree on what they read: what the second     *)
(* writes fits into the buffer the first one measured, for bytes that are no   *)
(* UTF-8 too.  The AuVerify of the encoders stop the program otherwise.       *)
BufferSuffices ==
  /\ loop = "encode8" => Len(u8) <= need
  /\ loop \in {"encode16", "done"} => Len(back) <= need

EndOfName == CHOOSE k \in DOMAIN u16 : u16[k] = 0 /\ \A l \in 1 .. k - 1 : u16[l] # 0
Name == SubSeq(u16, 1, EndOfName - 1)

(* Every high surrogate has its low one behind it, and the other way round.   *)
WellFormed(name) ==
  \A k \in DOMAIN name :
    /\ IsHigh(name[k]) => k < Len(name) /\ IsLow(name[k + 1])
    /\ IsLow(name[k]) => k > 1 /\ IsHigh(name[k - 1])

Listed == u16 # <<>>
Survives == back = Name /\ need = Len(back)

(* The file that was listed is the file that is looked up: a well-formed name  *)
(* comes back unit for unit, whatever is left behind it in the buffer, and     *)
(* measures what it has (the AuVerify of ListDir).  Except one that ends in a   *)
(* pair.                                                                    *)
NamesSurvive ==
  loop = "done" /\ Listed /\ WellFormed(Name) /\ (Name # <<>> => ~IsLow(Name[Len(Name)]))
    => Survives

(* "Unmatched low surrogate or EOS, invalid" (utfconv.cpp:116): only those, so   *)
(* that any well-formed name comes back.                                     *)
NamesComeBack == loop = "done" /\ Listed /\ WellFormed(Name) => Survives

(* The same comment: the end of the string ends the name.                    *)
StaysInName == loop \in {"measure8", "encode8"} => at <= EndOfName
=============================================================================
