-------------------------- MODULE SmbTransport_proofs --------------------------
(***************************************************************************)
(* Theorems about SmbTransport, for any number of calls and PDUs, any limits  *)
(* of credits and any setups.                                               *)
(***************************************************************************)
EXTENDS SmbTransport, Integers, SequenceTheorems, WellFoundedInduction, TLAPS

-----------------------------------------------------------------------------
(* Sequences and products *)

(* Two sequences one behind the other.                                      *)
Joins(s, t, u) ==
  /\ DOMAIN s = 1 .. Len(s) /\ DOMAIN u = 1 .. Len(s) + Len(t)
  /\ Len(u) = Len(s) + Len(t)
  /\ \A i \in 1 .. Len(s) : u[i] = s[i]
  /\ \A i \in 1 .. Len(s) + Len(t) : i > Len(s) => u[i] = t[i - Len(s)]

LEMMA Joined ==
  ASSUME NEW S, NEW s \in Seq(S), NEW t \in Seq(S)
  PROVE  Joins(s, t, s \o t)
<1> DEFINE u == s \o t
<1>1. Len(s) \in Nat /\ Len(t) \in Nat /\ DOMAIN s = 1 .. Len(s)
  OBVIOUS
<1>2. /\ u \in Seq(S) /\ Len(u) = Len(s) + Len(t)
      /\ \A i \in 1 .. Len(s) + Len(t) : u[i] = IF i <= Len(s) THEN s[i] ELSE t[i - Len(s)]
  BY ConcatProperties, Zenon
<1> HIDE DEF u
<1>3. DOMAIN u = 1 .. Len(u)
  BY <1>2
<1>4. \A i \in 1 .. Len(s) : i \in 1 .. Len(s) + Len(t) /\ i <= Len(s)
  BY <1>1
<1>5. \A i \in 1 .. Len(s) + Len(t) : i > Len(s) => ~(i <= Len(s))
  BY <1>1
<1>6. Joins(s, t, u)
  BY <1>1, <1>2, <1>3, <1>4, <1>5, Zenon DEF Joins
<1> QED BY <1>6 DEF u

(* What is left of a sequence without one of its elements.                   *)
LEMMA RemoveLemma ==
  ASSUME NEW S, NEW s \in Seq(S), NEW i \in DOMAIN s
  PROVE  /\ RemoveAt(s, i) \in Seq(S)
         /\ DOMAIN RemoveAt(s, i) = 1 .. Len(s) - 1
         /\ \A k \in 1 .. Len(s) - 1 : RemoveAt(s, i)[k] = IF k < i THEN s[k] ELSE s[k + 1]
<1> DEFINE front == SubSeq(s, 1, i - 1)
           back == SubSeq(s, i + 1, Len(s))
<1>0. Len(s) \in Nat /\ i \in 1 .. Len(s)
  OBVIOUS
<1>1. /\ front \in Seq(S) /\ Len(front) = i - 1
      /\ \A k \in 1 .. i - 1 : front[k] = s[k]
  BY <1>0, SubSeqProperties
<1>2. /\ back \in Seq(S) /\ Len(back) = Len(s) - i
      /\ \A k \in 1 .. Len(s) - i : back[k] = s[i + k]
  <2>1. CASE i = Len(s)
    BY <1>0, <2>1, SubSeqProperties
  <2>2. CASE i < Len(s)
    BY <1>0, <2>2, SubSeqProperties
  <2> QED BY <1>0, <2>1, <2>2
<1>3. RemoveAt(s, i) = front \o back
  BY DEF RemoveAt
<1> HIDE DEF front, back
<1>4. (front \o back) \in Seq(S) /\ Len(front \o back) = Len(s) - 1
  BY <1>0, <1>1, <1>2, ConcatProperties
<1>5. \A k \in 1 .. Len(s) - 1 : (front \o back)[k] = IF k < i THEN s[k] ELSE s[k + 1]
  <2> TAKE k \in 1 .. Len(s) - 1
  <2>1. CASE k < i
    BY <1>0, <1>1, <1>2, <2>1, ConcatProperties
  <2>2. CASE k >= i
    <3>1. k - (i - 1) \in 1 .. Len(s) - i /\ i + (k - (i - 1)) = k + 1
      BY <1>0, <2>2
    <3>2. (front \o back)[k] = back[k - (i - 1)]
      BY <1>0, <1>1, <1>2, <2>2, ConcatProperties, SMTT(60)
    <3>3. \A m \in 1 .. Len(s) - i : back[m] = s[i + m]
      BY <1>2
    <3>4. back[k - (i - 1)] = s[k + 1]
      BY <3>1, <3>3
    <3> QED BY <1>0, <2>2, <3>2, <3>4
  <2>3. k < i \/ k >= i
    BY <1>0
  <2> QED BY <2>1, <2>2, <2>3
<1> QED BY <1>3, <1>4, <1>5

(* The message ids that a PDU takes.                                        *)
Width(charge) == IF charge > 1 THEN charge ELSE 1

(* PDUs of one width follow each other without overlap.                      *)
LEMMA Products ==
  ASSUME NEW a \in Nat, NEW b \in Nat, NEW w \in Nat, a < b
  PROVE  a * w \in Nat /\ b * w \in Nat /\ a * w + w <= b * w
<1>1. PICK d \in Nat : b = a + 1 + d
  <2>1. b - a - 1 \in Nat /\ b = a + 1 + (b - a - 1)
    OBVIOUS
  <2> QED BY <2>1
<1>2. b * w = a * w + w + d * w
  BY <1>1
<1>3. a * w \in Nat /\ d * w \in Nat /\ b * w \in Nat
  OBVIOUS
<1> QED BY <1>2, <1>3

-----------------------------------------------------------------------------
(* Types.  That window is not negative takes CreditsAgree: see TypeCorrect.     *)
Call1 == [kind : Kinds, memory : Memory]
TypeInv ==
  /\ setup \in Setups
  /\ credits \in Nat /\ messageId \in Nat
  /\ outqueue \in Seq(Chain) /\ waitqueue \subseteq Pdu /\ pdu \in Pdu \cup {NoPdu}
  /\ phase \in Phases /\ context \in Contexts
  /\ calls \in Seq(Call1)
  /\ Len(calls) <= MaxCalls /\ waiting \in 0 .. Len(calls)
  /\ inbox \subseteq Request /\ window \in Int /\ replies \in Seq(Reply)

LEMMA WidthType ==
  ASSUME NEW n \in Nat, NEW charge \in Nat
  PROVE  Width(charge) \in Nat \ {0} /\ IdsTaken(n, charge) = n * Width(charge)
         /\ IdsTaken(n, charge) \in Nat
BY DEF Width, IdsTaken

(* Appending the chain of a new call.  (smb2_queue_pdu.)                     *)
LEMMA EnqueueType ==
  ASSUME TypeInv, setup' = setup, Len(calls) < MaxCalls,
         NEW kind \in Kinds, NEW made \in Seq(Call1), Len(made) = Len(calls),
         Enqueue(kind, made)
  PROVE  /\ \E chain \in Chain :
              /\ chain.call = Len(calls) + 1 /\ chain.mid = messageId
              /\ outqueue' = Append(outqueue, chain)
              /\ messageId' = messageId + chain.n * Width(chain.charge)
         /\ outqueue' \in Seq(Chain) /\ messageId' \in Nat
         /\ calls' = Append(made, [kind |-> kind, memory |-> "live"])
         /\ calls' \in Seq(Call1)' /\ Len(calls') = Len(calls) + 1
         /\ waiting' = Len(calls) + 1
<1>0. Len(calls) \in Nat /\ MaxCalls \in Nat /\ ChainLength \in Nat \ {0} /\ MaxCharge \in Nat \ {0}
  BY LimitsAssumption DEF TypeInv
<1>1. LengthOf(kind) \in 1 .. ChainLength
  BY <1>0 DEF LengthOf
<1>2. Ask \in Nat
  BY LimitsAssumption DEF Ask, TypeInv
<1>3. ChargeOf(kind) \subseteq Charges
  BY <1>0 DEF ChargeOf, Charges, AtMost, TypeInv
<1>4. PICK charge \in ChargeOf(kind) :
        /\ outqueue' = Append(outqueue,
             [call |-> Len(made) + 1, mid |-> messageId, n |-> LengthOf(kind), charge |-> charge,
              ask |-> Ask, begun |-> FALSE])
        /\ messageId' = messageId + IdsTaken(LengthOf(kind), charge)
        /\ calls' = Append(made, [kind |-> kind, memory |-> "live"])
        /\ waiting' = Len(made) + 1
  BY DEF Enqueue
<1> DEFINE chain == [call |-> Len(made) + 1, mid |-> messageId, n |-> LengthOf(kind),
                     charge |-> charge, ask |-> Ask, begun |-> FALSE]
<1>5. chain \in Chain
  BY <1>0, <1>1, <1>2, <1>3 DEF Chain, CallIds, TypeInv
<1>6. IdsTaken(chain.n, chain.charge) = chain.n * Width(chain.charge)
      /\ IdsTaken(chain.n, chain.charge) \in Nat
  BY <1>0, <1>1, <1>3, WidthType, SMTT(60) DEF Charges
<1>7. [kind |-> kind, memory |-> "live"] \in Call1 /\ Call1' = Call1
  BY DEF Call1, Memory, Kinds
<1>8. calls' \in Seq(Call1)' /\ Len(calls') = Len(calls) + 1
  BY <1>0, <1>4, <1>7, AppendProperties
<1>9. outqueue' \in Seq(Chain) /\ messageId' \in Nat
  BY <1>4, <1>5, <1>6, AppendProperties DEF TypeInv
<1> QED BY <1>4, <1>5, <1>6, <1>8, <1>9

LEMMA FiredType ==
  ASSUME TypeInv, NEW ended
  PROVE  /\ Fired(calls, ended) \in Seq(Call1)
         /\ Len(Fired(calls, ended)) = Len(calls)
         /\ DOMAIN Fired(calls, ended) = DOMAIN calls
         /\ \A c \in DOMAIN calls :
              Fired(calls, ended)[c] =
                IF c \in ended THEN [calls[c] EXCEPT !.memory = Touch(@)] ELSE calls[c]
<1>1. Len(calls) \in Nat /\ DOMAIN calls = 1 .. Len(calls) /\ \A c \in DOMAIN calls : calls[c] \in Call1
  BY DEF TypeInv
<1>2. \A c \in DOMAIN calls : [calls[c] EXCEPT !.memory = Touch(@)] \in Call1
  BY <1>1 DEF Touch, Call1, Memory
<1> DEFINE f == Fired(calls, ended)
<1>3. f \in [1 .. Len(calls) -> Call1]
  BY <1>1, <1>2 DEF Fired
<1>4. f \in Seq(Call1) /\ Len(f) = Len(calls)
  BY <1>1, <1>3
<1> QED BY <1>1, <1>3, <1>4 DEF Fired

(* The PDUs of a chain take consecutive ranges of message ids, and the last   *)
(* of them is marked.                                                      *)
LEMMA PdusLemma ==
  ASSUME NEW chain \in Chain
  PROVE  LET w == Width(chain.charge) IN
         /\ PdusOf(chain) \subseteq Pdu
         /\ chain.mid \in Nat /\ chain.n * w \in Nat /\ w \in Nat \ {0} /\ w <= chain.n * w
         /\ \A p \in PdusOf(chain) :
              /\ p.call = chain.call /\ Width(p.charge) = w /\ p.mid \in Nat
              /\ chain.mid <= p.mid /\ p.mid + w <= chain.mid + chain.n * w
         /\ \A p, q \in PdusOf(chain) : p # q => p.mid + w <= q.mid \/ q.mid + w <= p.mid
         /\ \A p, q \in PdusOf(chain) : p.last /\ q.last => p = q
         /\ \E p \in PdusOf(chain) : p.last
         /\ \A k \in 1 .. chain.n : \E p \in PdusOf(chain) : p.mid = MidOf(chain, k)
<1> DEFINE w == Width(chain.charge)
           at(k) == [call |-> chain.call, mid |-> MidOf(chain, k), charge |-> chain.charge,
                     last |-> k = chain.n]
<1>0. /\ chain.mid \in Nat /\ chain.n \in Nat \ {0} /\ chain.charge \in Nat
      /\ chain.charge \in Charges /\ chain.call \in CallIds
  BY LimitsAssumption DEF Chain, Charges
<1>1. w \in Nat \ {0} /\ chain.n * w \in Nat /\ w <= chain.n * w
  <2>1. w \in Nat \ {0}
    BY <1>0, WidthType
  <2> HIDE DEF w
  <2>2. CASE chain.n = 1
    BY <2>1, <2>2
  <2>3. CASE 1 < chain.n
    <3>1. 1 * w + w <= chain.n * w /\ chain.n * w \in Nat
      BY <1>0, <2>1, <2>3, Products
    <3> QED BY <2>1, <3>1
  <2> QED BY <1>0, <2>1, <2>2, <2>3
<1>2. \A k \in 1 .. chain.n :
        /\ MidOf(chain, k) = chain.mid + (k - 1) * w /\ (k - 1) * w \in Nat
        /\ MidOf(chain, k) \in Nat
        /\ (k - 1) * w + w <= chain.n * w
  <2> TAKE k \in 1 .. chain.n
  <2>1. k - 1 \in Nat /\ k - 1 < chain.n
    BY <1>0
  <2>2. MidOf(chain, k) = chain.mid + (k - 1) * w
    BY <1>0, <2>1, WidthType DEF MidOf
  <2> HIDE DEF w
  <2>3. (k - 1) * w \in Nat /\ (k - 1) * w + w <= chain.n * w
    BY <1>0, <1>1, <2>1, Products
  <2> QED BY <1>0, <2>2, <2>3
<1>3. \A k, l \in 1 .. chain.n : k < l => MidOf(chain, k) + w <= MidOf(chain, l)
  <2> TAKE k, l \in 1 .. chain.n
  <2> HAVE k < l
  <2>1. k - 1 \in Nat /\ l - 1 \in Nat /\ k - 1 < l - 1
    BY <1>0
  <2> HIDE DEF w
  <2>2. (k - 1) * w + w <= (l - 1) * w /\ (k - 1) * w \in Nat /\ (l - 1) * w \in Nat
    BY <1>1, <2>1, Products
  <2> QED BY <1>0, <1>1, <1>2, <2>2
<1>4. PdusOf(chain) = {at(k) : k \in 1 .. chain.n}
  BY DEF PdusOf
<1>5. \A k \in 1 .. chain.n : at(k) \in Pdu
  BY <1>0, <1>2 DEF Pdu
<1>6. \A p \in PdusOf(chain) :
        /\ p.call = chain.call /\ Width(p.charge) = w /\ p.mid \in Nat
        /\ chain.mid <= p.mid /\ p.mid + w <= chain.mid + chain.n * w
  <2> TAKE p \in PdusOf(chain)
  <2>1. PICK k \in 1 .. chain.n : p = at(k)
    BY <1>4
  <2>2. p.mid = MidOf(chain, k) /\ p.call = chain.call /\ p.charge = chain.charge
    BY <2>1
  <2> HIDE DEF w
  <2> DEFINE all == chain.n * w
  <2>3. PICK d \in Nat : p.mid = chain.mid + d /\ d + w <= all
    BY <1>2, <2>1, <2>2
  <2>4. all \in Nat
    BY <1>1
  <2> HIDE DEF all
  <2>5. chain.mid <= p.mid /\ p.mid + w <= chain.mid + all /\ p.mid \in Nat
    BY <1>0, <1>1, <2>3, <2>4
  <2> QED BY <2>2, <2>5 DEF w, all
<1>7. \A p, q \in PdusOf(chain) : p # q => p.mid + w <= q.mid \/ q.mid + w <= p.mid
  <2> TAKE p, q \in PdusOf(chain)
  <2> HAVE p # q
  <2>1. PICK k \in 1 .. chain.n, l \in 1 .. chain.n : p = at(k) /\ q = at(l)
    BY <1>4
  <2>2. k < l \/ l < k
    BY <1>0, <2>1
  <2>3. p.mid = MidOf(chain, k) /\ q.mid = MidOf(chain, l)
    BY <2>1
  <2> HIDE DEF w
  <2> QED BY <1>3, <2>2, <2>3
<1>8. \A p, q \in PdusOf(chain) : p.last /\ q.last => p = q
  <2> TAKE p, q \in PdusOf(chain)
  <2> HAVE p.last /\ q.last
  <2>1. PICK k \in 1 .. chain.n, l \in 1 .. chain.n : p = at(k) /\ q = at(l)
    BY <1>4
  <2>2. k = chain.n /\ l = chain.n
    BY <2>1
  <2> QED BY <2>1, <2>2
<1>9. at(chain.n) \in PdusOf(chain) /\ at(chain.n).last
  <2>1. at(chain.n).last = (chain.n = chain.n)
    OBVIOUS
  <2>2. chain.n \in 1 .. chain.n
    BY <1>0
  <2> HIDE DEF at
  <2> QED BY <1>4, <2>1, <2>2
<1>10. \A k \in 1 .. chain.n : at(k) \in PdusOf(chain) /\ at(k).mid = MidOf(chain, k)
  BY <1>4
<1>11. \E p \in PdusOf(chain) : p.last
  BY <1>9
<1>12. \A k \in 1 .. chain.n : \E p \in PdusOf(chain) : p.mid = MidOf(chain, k)
  BY <1>10
<1> HIDE DEF at
<1>13. PdusOf(chain) \subseteq Pdu
  BY <1>4, <1>5
<1> QED BY <1>0, <1>1, <1>6, <1>7, <1>8, <1>11, <1>12, <1>13

(* What the client spends is what it has.                                    *)
LEMMA ChargeType ==
  ASSUME NEW chain \in Chain
  PROVE  ChainCharge(chain) \in Nat
BY LimitsAssumption DEF Chain, Charges, ChainCharge

LEMMA HeadType ==
  ASSUME TypeInv, outqueue # <<>>
  PROVE  /\ Head(outqueue) \in Chain /\ Head(outqueue) = outqueue[1] /\ 1 \in DOMAIN outqueue
         /\ Tail(outqueue) \in Seq(Chain) /\ DOMAIN Tail(outqueue) = 1 .. Len(outqueue) - 1
         /\ \A k \in DOMAIN Tail(outqueue) : Tail(outqueue)[k] = outqueue[k + 1]
         /\ Len(outqueue) \in Nat /\ DOMAIN outqueue = 1 .. Len(outqueue)
BY HeadTailProperties DEF TypeInv

LEMMA AbandonedType ==
  ASSUME TypeInv, NEW made \in Seq(Call1), Len(made) = Len(calls)
  PROVE  /\ Abandoned(made, waiting) \in Seq(Call1)
         /\ Len(Abandoned(made, waiting)) = Len(calls)
         /\ DOMAIN Abandoned(made, waiting) = DOMAIN made
<1>0. /\ Len(calls) \in Nat /\ waiting \in 0 .. Len(calls)
      /\ DOMAIN made = 1 .. Len(calls) /\ \A c \in 1 .. Len(calls) : made[c] \in Call1
      /\ made \in [1 .. Len(calls) -> Call1]
  BY DEF TypeInv
<1>1. CASE waiting = 0
  BY <1>0, <1>1 DEF Abandoned
<1>2. CASE waiting # 0
  <2>1. waiting \in 1 .. Len(calls)
    BY <1>0, <1>2
  <2> DEFINE m == IF made[waiting].kind \in {"close", "write"} THEN "dead" ELSE "cancelled"
             e == [made[waiting] EXCEPT !.memory = m]
             f == [made EXCEPT ![waiting] = e]
  <2>2. e \in Call1
    BY <1>0, <2>1 DEF Call1, Memory
  <2>3. Abandoned(made, waiting) = f
    BY <1>2 DEF Abandoned
  <2> HIDE DEF e
  <2>4. f \in [1 .. Len(calls) -> Call1]
    BY <1>0, <2>1, <2>2
  <2>5. f \in Seq(Call1) /\ Len(f) = Len(calls) /\ DOMAIN f = 1 .. Len(calls)
    BY <1>0, <2>4
  <2> QED BY <1>0, <2>3, <2>5
<1> QED BY <1>1, <1>2

LEMMA DroppedType ==
  ASSUME TypeInv, NEW made \in Seq(Call1), NEW chains
  PROVE  /\ Dropped(made, chains) \in Seq(Call1)
         /\ Len(Dropped(made, chains)) = Len(made)
         /\ \A c \in DOMAIN made :
              Dropped(made, chains)[c].memory \in {made[c].memory, "forgotten"}
<1>0. /\ Len(made) \in Nat /\ DOMAIN made = 1 .. Len(made)
      /\ \A c \in DOMAIN made : made[c] \in Call1
  OBVIOUS
<1>1. \A c \in DOMAIN made : [made[c] EXCEPT !.memory = "forgotten"] \in Call1
  BY <1>0 DEF Call1, Memory
<1>2. Dropped(made, chains) \in [1 .. Len(made) -> Call1]
  BY <1>0, <1>1 DEF Dropped
<1>3. Dropped(made, chains) \in Seq(Call1) /\ Len(Dropped(made, chains)) = Len(made)
  BY <1>0, <1>2
<1>4. \A c \in DOMAIN made : Dropped(made, chains)[c].memory \in {made[c].memory, "forgotten"}
  BY <1>0 DEF Dropped, Call1
<1> QED BY <1>3, <1>4

(* What a reply carries.                                                    *)
LEMMA GrantsType ==
  ASSUME TypeInv, NEW ask \in Nat, NEW g \in Grants(ask)
  PROVE  g \in Nat
<1> DEFINE room == IF window < ServerCap THEN ServerCap - window ELSE 0
<1>1. room \in Nat /\ ask \in Nat
  BY LimitsAssumption DEF TypeInv
<1>2. AtMost(ask, room) \in Nat /\ AtMost(1, room) \in Nat
  BY <1>1 DEF AtMost
<1>3. g \in {AtMost(ask, room)} \/ g \in AtMost(1, room) .. AtMost(ask, room)
  BY DEF Grants
<1> QED BY <1>2, <1>3

LEMMA AnswerType ==
  ASSUME TypeInv, NEW request \in Request, NEW g \in Nat, NEW together \in BOOLEAN
  PROVE  LET answer == [k \in 1 .. request.n |->
               [mid |-> MidOf(request, k), pending |-> FALSE,
                grant |-> IF k = 1 THEN g ELSE 0, chained |-> together /\ k < request.n]]
         IN /\ answer \in Seq(Reply) /\ Len(answer) = request.n
            /\ request.n \in Nat
<1> DEFINE a(k) == [mid |-> MidOf(request, k), pending |-> FALSE,
                    grant |-> IF k = 1 THEN g ELSE 0, chained |-> together /\ k < request.n]
<1>0. request.n \in Nat \ {0} /\ request.mid \in Nat /\ request.charge \in Nat
  BY LimitsAssumption DEF Request, Charges
<1>1. \A k \in 1 .. request.n : MidOf(request, k) \in Nat
  <2> TAKE k \in 1 .. request.n
  <2>1. k - 1 \in Nat
    BY <1>0
  <2>2. IdsTaken(k - 1, request.charge) \in Nat
    BY <1>0, <2>1, WidthType
  <2> QED BY <1>0, <2>2 DEF MidOf
<1>2. \A k \in 1 .. request.n : a(k) \in Reply
  BY <1>1 DEF Reply
<1> HIDE DEF a
<1>3. [k \in 1 .. request.n |-> a(k)] \in [1 .. request.n -> Reply]
  BY <1>2
<1>4. /\ [k \in 1 .. request.n |-> a(k)] \in Seq(Reply)
      /\ Len([k \in 1 .. request.n |-> a(k)]) = request.n
  BY <1>0, <1>3
<1> QED BY <1>0, <1>4 DEF a

(* Every action of the caller, the reader and the writer keeps the types.     *)
LEMMA ServiceType ==
  ASSUME TypeInv, Service
  PROVE  TypeInv'
<1> USE DEF TypeInv, reader, caller, server
<1>0. setup' = setup /\ Call1' = Call1
  BY DEF Service, Call1, Kinds
<1>1. CASE WritePart
  <2>1. outqueue' = [outqueue EXCEPT ![1] = [outqueue[1] EXCEPT !.begun = TRUE]] /\ outqueue # <<>>
    BY <1>1 DEF WritePart
  <2>2. outqueue[1] \in Chain /\ Len(outqueue) \in Nat /\ 1 \in 1 .. Len(outqueue)
    BY <2>1, HeadType
  <2>3. [outqueue[1] EXCEPT !.begun = TRUE] \in Chain
    BY <2>2 DEF Chain
  <2>4. outqueue' \in Seq(Chain)
    BY <2>1, <2>2, <2>3, ExceptSeq
  <2> QED BY <1>0, <1>1, <2>4 DEF WritePart
<1>2. CASE WriteRest
  <2> DEFINE chain == Head(outqueue)
  <2>1. chain \in Chain /\ outqueue' \in Seq(Chain)
    BY <1>2, HeadType DEF WriteRest
  <2>2. PdusOf(chain) \subseteq Pdu
    BY <2>1, PdusLemma
  <2>3. ChainCharge(chain) \in Nat /\ ChainCharge(chain) <= credits
    BY <1>2, <2>1, ChargeType DEF WriteRest
  <2>4. [mid |-> chain.mid, n |-> chain.n, charge |-> chain.charge, ask |-> chain.ask,
         interim |-> FALSE] \in Request
    BY <2>1 DEF Chain, Request
  <2> HIDE DEF chain
  <2>5. credits' \in Nat /\ window' \in Int
    BY <1>2, <2>3, SMTT(60) DEF WriteRest, chain
  <2>7. inbox' \subseteq Request
    <3>1. inbox' \subseteq inbox \cup
            {[mid |-> chain.mid, n |-> chain.n, charge |-> chain.charge, ask |-> chain.ask,
              interim |-> FALSE]}
      BY <1>2 DEF WriteRest, chain
    <3> QED BY <2>4, <3>1
  <2>6. waitqueue' \subseteq Pdu
    BY <1>2, <2>2 DEF WriteRest, chain
  <2> QED BY <1>0, <1>2, <2>1, <2>5, <2>6, <2>7 DEF WriteRest
<1>3. CASE ReadHeader
  <2>1. Head(replies) \in Reply /\ replies' \in Seq(Reply)
    BY <1>3, HeadTailProperties DEF ReadHeader
  <2>2. credits' \in Nat
    BY <1>3, <2>1, SMTT(60) DEF ReadHeader, Reply
  <2>3. waitqueue' \subseteq Pdu /\ pdu' \in Pdu \cup {NoPdu} /\ phase' \in Phases
    BY <1>3 DEF ReadHeader, Phases, NoPdu
  <2>4. /\ context' \in Contexts /\ calls' \in Seq(Call1) /\ Len(calls') <= MaxCalls
        /\ waiting' \in 0 .. Len(calls')
    BY <1>3, AbandonedType DEF ReadHeader, ServiceFails, GiveUp, Contexts
  <2> QED BY <1>0, <1>3, <2>1, <2>2, <2>3, <2>4 DEF ReadHeader
<1>4. CASE ReadPauses
  BY <1>0, <1>4 DEF ReadPauses
<1>5. CASE ReadBody
  <2> DEFINE made == Fired(calls, IF pdu.last THEN {pdu.call} ELSE {})
  <2>1. made \in Seq(Call1) /\ Len(made) = Len(calls)
    BY FiredType
  <2>2. pdu' \in Pdu \cup {NoPdu} /\ phase' \in Phases
    BY <1>5 DEF ReadBody, NoPdu, Phases
  <2> HIDE DEF made
  <2>3. \/ /\ calls' = made
           /\ waiting' \in {0, waiting}
           /\ UNCHANGED <<messageId, outqueue>>
        \/ /\ pdu.call = waiting /\ calls[pdu.call].kind = "write" /\ Len(calls) < MaxCalls
           /\ Enqueue("write", made)
    BY <1>5 DEF ReadBody, made
  <2>4. CASE /\ calls' = made
             /\ waiting' \in {0, waiting}
             /\ UNCHANGED <<messageId, outqueue>>
    <3>1. waiting' \in 0 .. Len(calls')
      BY <2>1, <2>4
    <3> QED BY <1>0, <1>5, <2>1, <2>2, <2>4, <3>1 DEF ReadBody
  <2>5. CASE /\ pdu.call = waiting /\ calls[pdu.call].kind = "write" /\ Len(calls) < MaxCalls
             /\ Enqueue("write", made)
    <3>1. waiting \in 1 .. Len(calls) /\ Len(calls) \in Nat
      BY <1>5 DEF ReadBody
    <3>2. "write" \in Kinds
      <4>1. calls[waiting] \in Call1
        BY <3>1
      <4> QED BY <2>5, <4>1 DEF Call1
    <3>3. /\ outqueue' \in Seq(Chain) /\ messageId' \in Nat /\ calls' \in Seq(Call1)
          /\ Len(calls') = Len(calls) + 1 /\ waiting' = Len(calls) + 1
      BY <1>0, <2>1, <2>5, <3>2, EnqueueType
    <3>4. MaxCalls \in Nat
      BY LimitsAssumption
    <3> QED BY <1>0, <1>5, <2>2, <2>5, <3>1, <3>3, <3>4 DEF ReadBody
  <2> QED BY <2>3, <2>4, <2>5
<1>6. CASE ReadFails
  <2>1. /\ context' \in Contexts /\ calls' \in Seq(Call1) /\ Len(calls') <= MaxCalls
        /\ waiting' \in 0 .. Len(calls')
    BY <1>6, AbandonedType DEF ReadFails, ServiceFails, GiveUp, Contexts
  <2> QED BY <1>0, <1>6, <2>1 DEF ReadFails, Phases
<1> QED BY <1>1, <1>2, <1>3, <1>4, <1>5, <1>6 DEF Service

LEMMA ServeType ==
  ASSUME TypeInv, Serve
  PROVE  TypeInv'
<1> USE DEF TypeInv, reader, caller, server
<1>0. setup' = setup /\ Call1' = Call1
  BY DEF Serve, Call1, Kinds
<1>1. PICK request \in inbox : ServerPends(request) \/ ServerAnswers(request)
  BY DEF Serve
<1>2. request \in Request /\ request.ask \in Nat /\ request.mid \in Nat
  BY DEF Request
<1>3. CASE ServerPends(request)
  <2>1. PICK g \in Grants(request.ask) :
          /\ window' = window + g
          /\ replies' = Append(replies,
               [mid |-> request.mid, pending |-> TRUE, grant |-> g, chained |-> FALSE])
    BY <1>3 DEF ServerPends
  <2>2. g \in Nat
    BY <1>2, GrantsType
  <2>3. [mid |-> request.mid, pending |-> TRUE, grant |-> g, chained |-> FALSE] \in Reply
    BY <1>2, <2>2 DEF Reply
  <2>4. replies' \in Seq(Reply) /\ window' \in Int
    BY <2>1, <2>2, <2>3, AppendProperties
  <2>5. [request EXCEPT !.interim = TRUE, !.ask = 0] \in Request
    BY <1>2 DEF Request
  <2>6. inbox' \subseteq Request
    BY <1>3, <2>5 DEF ServerPends
  <2> QED BY <1>0, <1>3, <2>4, <2>6 DEF ServerPends
<1>4. CASE ServerAnswers(request)
  <2>1. PICK g \in Grants(request.ask), together \in BOOLEAN :
          /\ window' = window + g
          /\ replies' = replies \o [k \in 1 .. request.n |->
               [mid |-> MidOf(request, k), pending |-> FALSE,
                grant |-> IF k = 1 THEN g ELSE 0, chained |-> together /\ k < request.n]]
    BY <1>4 DEF ServerAnswers
  <2>2. g \in Nat
    BY <1>2, GrantsType
  <2> DEFINE answer == [k \in 1 .. request.n |->
               [mid |-> MidOf(request, k), pending |-> FALSE,
                grant |-> IF k = 1 THEN g ELSE 0, chained |-> together /\ k < request.n]]
  <2>3. answer \in Seq(Reply)
    BY <1>2, <2>2, AnswerType
  <2>4. replies' = replies \o answer
    BY <2>1
  <2> HIDE DEF answer
  <2>5. replies' \in Seq(Reply)
    BY <2>3, <2>4, ConcatProperties
  <2>6. window' \in Int
    BY <2>1, <2>2
  <2> QED BY <1>0, <1>4, <2>5, <2>6 DEF ServerAnswers
<1> QED BY <1>1, <1>3, <1>4

LEMMA CallType ==
  ASSUME TypeInv, setup' = setup, NEW kind \in Kinds, Call(kind)
  PROVE  TypeInv'
<1>1. /\ outqueue' \in Seq(Chain) /\ messageId' \in Nat /\ calls' \in Seq(Call1)'
      /\ Len(calls') = Len(calls) + 1 /\ waiting' = Len(calls) + 1
  BY EnqueueType DEF TypeInv, Call
<1>2. MaxCalls \in Nat /\ Len(calls) \in Nat
  BY LimitsAssumption DEF TypeInv
<1>3. Len(calls) < MaxCalls
  BY DEF Call
<1>4. Len(calls') <= MaxCalls /\ waiting' \in 0 .. Len(calls')
  BY <1>1, <1>2, <1>3
<1> QED BY <1>1, <1>4 DEF TypeInv, Call, Contexts, reader, server

LEMMA FailType ==
  ASSUME TypeInv, setup' = setup, Fail
  PROVE  TypeInv'
<1> USE DEF TypeInv, reader, caller, server
<1>0. Call1' = Call1
  BY DEF Call1, Kinds
<1>1. ASSUME GiveUp(context) \/ ServiceFails
      PROVE  /\ context' \in Contexts /\ calls' \in Seq(Call1) /\ Len(calls') <= MaxCalls
             /\ waiting' \in 0 .. Len(calls')
  BY <1>1, AbandonedType DEF ServiceFails, GiveUp, Contexts
<1>2. CASE PollFails
  BY <1>0, <1>1, <1>2 DEF PollFails
<1>3. CASE SocketFails
  BY <1>0, <1>1, <1>3 DEF SocketFails
<1>4. ASSUME NEW c \in DOMAIN calls, TimeOut(c)
      PROVE  TypeInv'
  <2> DEFINE queued == {chain \in {outqueue[i] : i \in DOMAIN outqueue} : chain.call = c}
             sent == {p \in waitqueue : p.call = c}
             made == Fired(calls, CallbacksOf(queued) \cup LastOf(sent))
  <2>1. made \in Seq(Call1) /\ Len(made) = Len(calls)
    BY FiredType
  <2>2. calls' = Dropped(made, queued)
    BY <1>4 DEF TimeOut
  <2> HIDE DEF made
  <2>3. calls' \in Seq(Call1) /\ Len(calls') = Len(calls)
    BY <2>1, <2>2, DroppedType
  <2> HIDE DEF queued
  <2>4. outqueue' \in Seq(Chain)
    BY <1>4, RemoveLemma DEF TimeOut
  <2>5. waitqueue' \subseteq Pdu /\ waiting' \in 0 .. Len(calls')
    BY <1>4, <2>3 DEF TimeOut
  <2> QED BY <1>0, <1>4, <2>3, <2>4, <2>5 DEF TimeOut
<1> QED BY <1>2, <1>3, <1>4 DEF Fail

LEMMA DestroyType ==
  ASSUME TypeInv, setup' = setup, Destroy
  PROVE  TypeInv'
<1> USE DEF TypeInv, reader, server
<1>0. Call1' = Call1
  BY DEF Call1, Kinds
<1> DEFINE queued == {outqueue[i] : i \in DOMAIN outqueue}
           made == Fired(calls, CallbacksOf(queued) \cup LastOf(waitqueue))
<1>1. made \in Seq(Call1) /\ Len(made) = Len(calls)
  BY FiredType
<1>2. calls' = Dropped(made, queued)
  BY DEF Destroy
<1> HIDE DEF made
<1>3. calls' \in Seq(Call1) /\ Len(calls') = Len(calls)
  BY <1>1, <1>2, DroppedType
<1>4. <<>> \in Seq(Chain)
  OBVIOUS
<1> QED BY <1>0, <1>3, <1>4 DEF Destroy, Contexts, NoPdu

LEMMA SetupStays == [Next]_vars => setup' = setup
BY DEF Next, Service, Serve, vars

LEMMA TypeStep ==
  ASSUME TypeInv, [Next]_vars
  PROVE  TypeInv'
<1>1. CASE UNCHANGED vars
  BY <1>1 DEF vars, reader, caller, server, TypeInv, Call1, Kinds
<1>2. CASE Next
  BY <1>2, CallType, FailType, DestroyType, ServiceType, ServeType DEF Next
<1> QED BY <1>1, <1>2

LEMMA TypeInit == Init => TypeInv
<1> SUFFICES ASSUME Init PROVE TypeInv
  OBVIOUS
<1>1. setup.start \in Nat
  BY SetupsAssumption DEF Init
<1>2. MaxCalls \in Nat /\ Len(calls) = 0 /\ calls \in Seq(Call1)
  BY LimitsAssumption DEF Init
<1>3. outqueue \in Seq(Chain) /\ replies \in Seq(Reply)
  BY DEF Init
<1> QED BY <1>1, <1>2, <1>3 DEF Init, TypeInv, Phases, Contexts

-----------------------------------------------------------------------------
(* What a step does to the queues: it takes something out of them, adds the    *)
(* chain of a new call, or turns the first chain into PDUs that are waited     *)
(* for.                                                                    *)
Shrinks ==
  /\ PendingPdus' \subseteq PendingPdus
  /\ messageId' = messageId /\ DOMAIN calls' = DOMAIN calls
  /\ \E up \in [DOMAIN outqueue' -> DOMAIN outqueue] :
       /\ \A k, l \in DOMAIN outqueue' : k < l => up[k] < up[l]
       /\ \A k \in DOMAIN outqueue' :
            /\ outqueue'[k].call = outqueue[up[k]].call /\ outqueue'[k].mid = outqueue[up[k]].mid
            /\ outqueue'[k].n = outqueue[up[k]].n /\ outqueue'[k].charge = outqueue[up[k]].charge

Grows ==
  /\ PendingPdus' \subseteq PendingPdus
  /\ DOMAIN calls' = 1 .. Len(calls) + 1
  /\ \E chain \in Chain :
       /\ chain.call = Len(calls) + 1 /\ chain.mid = messageId
       /\ outqueue' = Append(outqueue, chain)
       /\ messageId' = messageId + chain.n * Width(chain.charge)

LEMMA SameQueue ==
  ASSUME TypeInv, UNCHANGED <<outqueue, messageId>>, Len(calls') = Len(calls),
         calls' \in Seq(Call1)', PendingPdus' \subseteq PendingPdus
  PROVE  Shrinks
<1> DEFINE up == [k \in DOMAIN outqueue |-> k]
<1>1. up \in [DOMAIN outqueue' -> DOMAIN outqueue]
  OBVIOUS
<1>2. \A k, l \in DOMAIN outqueue' : k < l => up[k] < up[l]
  OBVIOUS
<1>3. \A k \in DOMAIN outqueue' : outqueue'[k] = outqueue[up[k]]
  OBVIOUS
<1>4. DOMAIN calls' = DOMAIN calls
  BY DEF TypeInv
<1> HIDE DEF up
<1> QED BY <1>1, <1>2, <1>3, <1>4 DEF Shrinks

LEMMA GivesUp ==
  ASSUME TypeInv, TypeInv', UNCHANGED <<outqueue, messageId>>, GiveUp(context) \/ ServiceFails,
         PendingPdus' \subseteq PendingPdus
  PROVE  Shrinks
<1>1. Len(calls') = Len(calls)
  BY AbandonedType DEF ServiceFails, GiveUp, TypeInv
<1> QED BY <1>1, SameQueue DEF TypeInv

LEMMA CallGrows ==
  ASSUME TypeInv, setup' = setup, NEW kind \in Kinds, Call(kind)
  PROVE  /\ Grows /\ waiting' = Len(calls) + 1 /\ PendingPdus' = PendingPdus
         /\ calls' = Append(calls, [kind |-> kind, memory |-> "live"])
<1>1. PendingPdus' = PendingPdus /\ Len(calls) < MaxCalls /\ Enqueue(kind, calls)
  BY DEF Call, PendingPdus
<1>2. /\ \E chain \in Chain :
           /\ chain.call = Len(calls) + 1 /\ chain.mid = messageId
           /\ outqueue' = Append(outqueue, chain)
           /\ messageId' = messageId + chain.n * Width(chain.charge)
      /\ calls' \in Seq(Call1)' /\ Len(calls') = Len(calls) + 1 /\ waiting' = Len(calls) + 1
      /\ calls' = Append(calls, [kind |-> kind, memory |-> "live"])
  BY <1>1, EnqueueType DEF TypeInv
<1>3. DOMAIN calls' = 1 .. Len(calls) + 1
  BY <1>2
<1> QED BY <1>1, <1>2, <1>3 DEF Grows

(* The callback of a write may start the next one.  (onSmbPutChunk.)          *)
LEMMA ReadBodyCases ==
  ASSUME TypeInv, setup' = setup, ReadBody
  PROVE  LET made == Fired(calls, IF pdu.last THEN {pdu.call} ELSE {}) IN
         /\ PendingPdus' \subseteq PendingPdus
         /\ \/ /\ calls' = made /\ UNCHANGED <<messageId, outqueue>>
               /\ waiting' = IF pdu.last /\ pdu.call = waiting THEN 0 ELSE waiting
            \/ /\ Grows /\ waiting' = Len(calls) + 1
               /\ calls' = Append(made, [kind |-> "write", memory |-> "live"])
<1> DEFINE made == Fired(calls, IF pdu.last THEN {pdu.call} ELSE {})
<1>1. made \in Seq(Call1) /\ Len(made) = Len(calls)
  BY FiredType
<1>2. PendingPdus' \subseteq PendingPdus
  BY DEF ReadBody, PendingPdus
<1> HIDE DEF made
<1>3. \/ /\ calls' = made /\ UNCHANGED <<messageId, outqueue>>
         /\ waiting' = IF pdu.last /\ pdu.call = waiting THEN 0 ELSE waiting
      \/ /\ pdu.call = waiting /\ calls[pdu.call].kind = "write" /\ Len(calls) < MaxCalls
         /\ Enqueue("write", made)
  BY DEF ReadBody, made
<1>4. ASSUME pdu.call = waiting, calls[pdu.call].kind = "write", Len(calls) < MaxCalls,
             Enqueue("write", made)
      PROVE  /\ Grows /\ waiting' = Len(calls) + 1
             /\ calls' = Append(made, [kind |-> "write", memory |-> "live"])
  <2>1. calls[waiting] \in Call1
    BY DEF ReadBody, TypeInv
  <2>2. "write" \in Kinds
    BY <1>4, <2>1 DEF Call1
  <2>3. /\ \E chain \in Chain :
             /\ chain.call = Len(calls) + 1 /\ chain.mid = messageId
             /\ outqueue' = Append(outqueue, chain)
             /\ messageId' = messageId + chain.n * Width(chain.charge)
        /\ calls' \in Seq(Call1)' /\ Len(calls') = Len(calls) + 1 /\ waiting' = Len(calls) + 1
        /\ calls' = Append(made, [kind |-> "write", memory |-> "live"])
    BY <1>1, <1>4, <2>2, EnqueueType
  <2>4. DOMAIN calls' = 1 .. Len(calls) + 1
    BY <2>3
  <2> QED BY <1>2, <2>3, <2>4 DEF Grows
<1> QED BY <1>2, <1>3, <1>4 DEF made

LEMMA StepKinds ==
  ASSUME TypeInv, [Next]_vars
  PROVE  Shrinks \/ Grows \/ WriteRest
<1> USE DEF reader, caller, server
<1>0. TypeInv' /\ calls' \in Seq(Call1)' /\ Len(calls) \in Nat /\ DOMAIN calls = 1 .. Len(calls)
  BY TypeStep DEF TypeInv
<1>1. CASE UNCHANGED vars
  <2>1. PendingPdus' = PendingPdus
    BY <1>1 DEF vars, PendingPdus
  <2> QED BY <1>0, <1>1, <2>1, SameQueue DEF vars
<1>2. ASSUME setup' = setup, NEW kind \in Kinds, Call(kind)
      PROVE  Grows
  BY <1>2, CallGrows
<1>3. CASE PollFails \/ SocketFails
  <2>1. PendingPdus' = PendingPdus
    BY <1>3 DEF PollFails, SocketFails, PendingPdus
  <2> QED BY <1>0, <1>3, <2>1, GivesUp DEF PollFails, SocketFails
<1>4. ASSUME NEW c \in DOMAIN calls, TimeOut(c)
      PROVE  Shrinks
  <2> DEFINE queued == {chain \in {outqueue[i] : i \in DOMAIN outqueue} : chain.call = c}
             sent == {p \in waitqueue : p.call = c}
             made == Fired(calls, CallbacksOf(queued) \cup LastOf(sent))
  <2>1. made \in Seq(Call1) /\ Len(made) = Len(calls)
    BY FiredType
  <2>2. calls' = Dropped(made, queued)
    BY <1>4 DEF TimeOut
  <2> HIDE DEF made
  <2>3. Len(calls') = Len(calls) /\ DOMAIN calls' = DOMAIN calls
    BY <1>0, <2>1, <2>2, DroppedType
  <2> HIDE DEF queued
  <2>4. PendingPdus' \subseteq PendingPdus /\ messageId' = messageId
    BY <1>4 DEF TimeOut, PendingPdus
  <2>5. CASE UNCHANGED outqueue
    BY <1>0, <2>3, <2>4, <2>5, SameQueue
  <2>6. ASSUME NEW i \in DOMAIN outqueue, outqueue' = RemoveAt(outqueue, i)
        PROVE  Shrinks
    <3> DEFINE up == [k \in DOMAIN outqueue' |-> IF k < i THEN k ELSE k + 1]
    <3>1. Len(outqueue) \in Nat /\ DOMAIN outqueue = 1 .. Len(outqueue)
      BY DEF TypeInv
    <3>2. /\ DOMAIN outqueue' = 1 .. Len(outqueue) - 1
          /\ \A k \in DOMAIN outqueue' :
               outqueue'[k] = IF k < i THEN outqueue[k] ELSE outqueue[k + 1]
      BY <2>6, RemoveLemma DEF TypeInv
    <3>3. up \in [DOMAIN outqueue' -> DOMAIN outqueue]
      BY <3>1, <3>2
    <3>4. \A k, l \in DOMAIN outqueue' : k < l => up[k] < up[l]
      BY <3>1, <3>2
    <3>5. \A k \in DOMAIN outqueue' : outqueue'[k] = outqueue[up[k]]
      BY <3>2
    <3> HIDE DEF up
    <3> QED BY <2>3, <2>4, <3>3, <3>4, <3>5 DEF Shrinks
  <2> QED BY <1>4, <2>5, <2>6 DEF TimeOut
<1>5. CASE Destroy
  <2> DEFINE queued == {outqueue[i] : i \in DOMAIN outqueue}
             made == Fired(calls, CallbacksOf(queued) \cup LastOf(waitqueue))
  <2>1. made \in Seq(Call1) /\ Len(made) = Len(calls)
    BY FiredType
  <2>2. calls' = Dropped(made, queued)
    BY <1>5 DEF Destroy
  <2> HIDE DEF made
  <2>3. DOMAIN calls' = DOMAIN calls
    BY <1>0, <2>1, <2>2, DroppedType
  <2>4. PendingPdus' \subseteq PendingPdus /\ messageId' = messageId
    BY <1>5 DEF Destroy, PendingPdus
  <2>5. DOMAIN outqueue' = {}
    BY <1>5 DEF Destroy
  <2> DEFINE up == [k \in {} |-> 1]
  <2>6. up \in [DOMAIN outqueue' -> DOMAIN outqueue]
    BY <2>5
  <2> QED BY <2>3, <2>4, <2>5, <2>6 DEF Shrinks
<1>6. CASE WritePart
  <2>1. outqueue' = [outqueue EXCEPT ![1] = [outqueue[1] EXCEPT !.begun = TRUE]] /\ outqueue # <<>>
    BY <1>6 DEF WritePart
  <2>2. PendingPdus' = PendingPdus /\ messageId' = messageId /\ calls' = calls
    BY <1>6 DEF WritePart, PendingPdus
  <2> DEFINE up == [k \in DOMAIN outqueue |-> k]
  <2>3. DOMAIN outqueue' = DOMAIN outqueue /\ up \in [DOMAIN outqueue' -> DOMAIN outqueue]
    BY <2>1
  <2>4. \A k \in DOMAIN outqueue : outqueue[k] \in Chain
    BY DEF TypeInv
  <2>5. \A k \in DOMAIN outqueue :
          /\ outqueue'[k].call = outqueue[k].call /\ outqueue'[k].mid = outqueue[k].mid
          /\ outqueue'[k].n = outqueue[k].n /\ outqueue'[k].charge = outqueue[k].charge
    BY <2>1, <2>4 DEF Chain
  <2>6. \A k, l \in DOMAIN outqueue' : k < l => up[k] < up[l]
    BY <2>3
  <2>7. \A k \in DOMAIN outqueue : up[k] = k
    OBVIOUS
  <2> HIDE DEF up
  <2> QED BY <2>2, <2>3, <2>5, <2>6, <2>7 DEF Shrinks
<1>7. CASE ReadHeader
  <2>1. PendingPdus' \subseteq PendingPdus
    BY <1>7 DEF ReadHeader, PendingPdus
  <2>2. UNCHANGED caller \/ ServiceFails
    BY <1>7 DEF ReadHeader
  <2> QED BY <1>0, <1>7, <2>1, <2>2, GivesUp, SameQueue DEF ReadHeader
<1>8. CASE ReadPauses
  <2>1. PendingPdus' = PendingPdus
    BY <1>8 DEF ReadPauses, PendingPdus
  <2> QED BY <1>0, <1>8, <2>1, SameQueue DEF ReadPauses
<1>9. CASE ReadBody
  <2> DEFINE made == Fired(calls, IF pdu.last THEN {pdu.call} ELSE {})
  <2>1. made \in Seq(Call1) /\ Len(made) = Len(calls)
    BY FiredType
  <2>2. /\ PendingPdus' \subseteq PendingPdus
        /\ Grows \/ (calls' = made /\ UNCHANGED <<messageId, outqueue>>)
    BY <1>9, SetupStays, ReadBodyCases
  <2> HIDE DEF made
  <2> QED BY <1>0, <2>1, <2>2, SameQueue
<1>10. CASE ReadFails
  <2>1. PendingPdus' = PendingPdus
    BY <1>10 DEF ReadFails, PendingPdus
  <2> QED BY <1>0, <1>10, <2>1, GivesUp DEF ReadFails
<1>11. CASE Serve
  <2>1. UNCHANGED <<outqueue, messageId, calls>> /\ PendingPdus' = PendingPdus
    BY <1>11 DEF Serve, ServerPends, ServerAnswers, PendingPdus
  <2> QED BY <1>0, <2>1, SameQueue
<1> QED
  BY <1>1, <1>2, <1>3, <1>4, <1>5, <1>6, <1>7, <1>8, <1>9, <1>10, <1>11
  DEF Next, Fail, Service

-----------------------------------------------------------------------------
(* Message ids ascend from the PDUs that are waited for along the out queue to  *)
(* the next id.                                                            *)
End(chain) == chain.mid + chain.n * Width(chain.charge)

IdsInv ==
  /\ \A i \in DOMAIN outqueue : End(outqueue[i]) <= messageId
  /\ \A i, j \in DOMAIN outqueue : i < j => End(outqueue[i]) <= outqueue[j].mid
  /\ \A p \in PendingPdus :
       /\ p.mid + Width(p.charge) <= messageId
       /\ \A i \in DOMAIN outqueue : p.mid + Width(p.charge) <= outqueue[i].mid
  /\ \A p, q \in PendingPdus :
       p # q => p.mid + Width(p.charge) <= q.mid \/ q.mid + Width(q.charge) <= p.mid

(* A call has one chain in the queue or else one last PDU, which is waited for *)
(* or being read.                                                          *)
CallInv ==
  /\ \A i \in DOMAIN outqueue : outqueue[i].call \in DOMAIN calls
  /\ \A p \in PendingPdus : p.call \in DOMAIN calls
  /\ \A i, j \in DOMAIN outqueue : outqueue[i].call = outqueue[j].call => i = j
  /\ \A i \in DOMAIN outqueue, p \in PendingPdus : outqueue[i].call # p.call
  /\ \A p, q \in PendingPdus : p.last /\ q.last /\ p.call = q.call => p = q

LEMMA PendingType ==
  ASSUME TypeInv
  PROVE  /\ \A p \in PendingPdus :
              p \in Pdu /\ p.mid \in Nat /\ Width(p.charge) \in Nat \ {0} /\ p.call \in CallIds
         /\ \A i \in DOMAIN outqueue :
              /\ outqueue[i] \in Chain /\ outqueue[i].mid \in Nat
              /\ Width(outqueue[i].charge) \in Nat \ {0}
              /\ outqueue[i].n * Width(outqueue[i].charge) \in Nat
              /\ End(outqueue[i]) \in Nat
<1>1. \A p \in PendingPdus : p \in Pdu
  BY DEF PendingPdus, TypeInv
<1>2. \A p \in Pdu : p.mid \in Nat /\ p.charge \in Nat /\ p.call \in CallIds
  BY LimitsAssumption DEF Pdu, Charges
<1>3. \A i \in DOMAIN outqueue : outqueue[i] \in Chain
  BY DEF TypeInv
<1>4. \A chain \in Chain :
        /\ chain.mid \in Nat /\ Width(chain.charge) \in Nat \ {0}
        /\ chain.n * Width(chain.charge) \in Nat
  BY PdusLemma
<1>5. \A chain \in Chain : End(chain) \in Nat
  BY <1>4 DEF End
<1> QED BY <1>1, <1>2, <1>3, <1>4, <1>5, WidthType

LEMMA ShrinksKeeps ==
  ASSUME TypeInv, TypeInv', IdsInv, CallInv, Shrinks
  PROVE  IdsInv' /\ CallInv'
<1>1. PICK up \in [DOMAIN outqueue' -> DOMAIN outqueue] :
        /\ \A k, l \in DOMAIN outqueue' : k < l => up[k] < up[l]
        /\ \A k \in DOMAIN outqueue' :
             /\ outqueue'[k].call = outqueue[up[k]].call /\ outqueue'[k].mid = outqueue[up[k]].mid
             /\ outqueue'[k].n = outqueue[up[k]].n /\ outqueue'[k].charge = outqueue[up[k]].charge
  BY DEF Shrinks
<1>2. \A k \in DOMAIN outqueue' : End(outqueue'[k]) = End(outqueue[up[k]])
  BY <1>1 DEF End
<1>3. PendingPdus' \subseteq PendingPdus /\ messageId' = messageId /\ DOMAIN calls' = DOMAIN calls
  BY DEF Shrinks
<1>4. \A k \in DOMAIN outqueue' : End(outqueue'[k]) <= messageId'
  BY <1>1, <1>2, <1>3 DEF IdsInv
<1>5. \A i, j \in DOMAIN outqueue' : i < j => End(outqueue'[i]) <= outqueue'[j].mid
  BY <1>1, <1>2 DEF IdsInv
<1>6. \A p \in PendingPdus' :
        /\ p.mid + Width(p.charge) <= messageId'
        /\ \A i \in DOMAIN outqueue' : p.mid + Width(p.charge) <= outqueue'[i].mid
  BY <1>1, <1>3 DEF IdsInv
<1>7. \A p, q \in PendingPdus' :
        p # q => p.mid + Width(p.charge) <= q.mid \/ q.mid + Width(q.charge) <= p.mid
  BY <1>3 DEF IdsInv
<1>8. IdsInv'
  BY <1>4, <1>5, <1>6, <1>7 DEF IdsInv
<1>9. \A i, j \in DOMAIN outqueue' : outqueue'[i].call = outqueue'[j].call => i = j
  <2> TAKE i, j \in DOMAIN outqueue'
  <2> HAVE outqueue'[i].call = outqueue'[j].call
  <2>1. up[i] = up[j]
    BY <1>1 DEF CallInv
  <2>2. DOMAIN outqueue' \subseteq Int /\ \A k \in DOMAIN outqueue' : up[k] \in Int
    BY <1>1, SMTT(60) DEF TypeInv
  <2>3. ~(i < j) /\ ~(j < i)
    BY <1>1, <2>1, <2>2
  <2> QED BY <2>2, <2>3
<1>10. CallInv'
  BY <1>1, <1>3, <1>9 DEF CallInv
<1> QED BY <1>8, <1>10

LEMMA GrowsKeeps ==
  ASSUME TypeInv, IdsInv, CallInv, Grows
  PROVE  IdsInv' /\ CallInv'
<1>1. PICK chain \in Chain :
        /\ chain.call = Len(calls) + 1 /\ chain.mid = messageId
        /\ outqueue' = Append(outqueue, chain)
        /\ messageId' = messageId + chain.n * Width(chain.charge)
  BY DEF Grows
<1> DEFINE n == Len(outqueue)
<1>2. /\ n \in Nat /\ DOMAIN outqueue = 1 .. n /\ DOMAIN outqueue' = 1 .. n + 1
      /\ outqueue'[n + 1] = chain /\ \A i \in 1 .. n : outqueue'[i] = outqueue[i]
  BY <1>1, AppendProperties DEF TypeInv
<1>3. /\ End(chain) = messageId' /\ messageId \in Nat
      /\ chain.n * Width(chain.charge) \in Nat
  BY <1>1, PdusLemma DEF End, TypeInv
<1>4. messageId <= messageId' /\ messageId' \in Nat
  <2> DEFINE d == chain.n * Width(chain.charge)
  <2>1. messageId' = messageId + d /\ d \in Nat
    BY <1>1, <1>3
  <2> HIDE DEF d
  <2> QED BY <1>3, <2>1
<1>5. Len(calls) \in Nat /\ DOMAIN calls = 1 .. Len(calls)
  BY DEF TypeInv
<1>6. PendingPdus' \subseteq PendingPdus /\ DOMAIN calls' = 1 .. Len(calls) + 1
  BY DEF Grows
<1>7. /\ \A i \in 1 .. n : End(outqueue[i]) \in Nat
      /\ \A p \in PendingPdus : p.mid \in Nat /\ Width(p.charge) \in Nat
  BY <1>2, PendingType
<1> HIDE DEF n
<1>8. \A i \in DOMAIN outqueue' : End(outqueue'[i]) <= messageId'
  <2> TAKE i \in DOMAIN outqueue'
  <2>1. CASE i = n + 1
    BY <1>2, <1>3, <1>4, <2>1
  <2>2. CASE i \in 1 .. n
    BY <1>2, <1>3, <1>4, <1>7, <2>2 DEF IdsInv
  <2> QED BY <1>2, <2>1, <2>2
<1>9. \A i, j \in DOMAIN outqueue' : i < j => End(outqueue'[i]) <= outqueue'[j].mid
  <2> TAKE i, j \in DOMAIN outqueue'
  <2> HAVE i < j
  <2>1. i \in 1 .. n
    BY <1>2
  <2>2. CASE j = n + 1
    BY <1>1, <1>2, <2>1, <2>2 DEF IdsInv
  <2>3. CASE j \in 1 .. n
    BY <1>2, <2>1, <2>3 DEF IdsInv
  <2> QED BY <1>2, <2>2, <2>3
<1>10. \A p \in PendingPdus' :
        /\ p.mid + Width(p.charge) <= messageId'
        /\ \A i \in DOMAIN outqueue' : p.mid + Width(p.charge) <= outqueue'[i].mid
  <2> TAKE p \in PendingPdus'
  <2>1. p.mid + Width(p.charge) <= messageId /\ p.mid + Width(p.charge) \in Nat
    BY <1>6, <1>7 DEF IdsInv
  <2>2. p.mid + Width(p.charge) <= messageId'
    BY <1>3, <1>4, <2>1
  <2>3. ASSUME NEW i \in DOMAIN outqueue'
        PROVE  p.mid + Width(p.charge) <= outqueue'[i].mid
    <3>1. CASE i = n + 1
      BY <1>1, <1>2, <2>1, <3>1
    <3>2. CASE i \in 1 .. n
      BY <1>2, <1>6, <3>2 DEF IdsInv
    <3> QED BY <1>2, <3>1, <3>2
  <2> QED BY <2>2, <2>3
<1>11. IdsInv'
  BY <1>6, <1>8, <1>9, <1>10 DEF IdsInv
<1>12. \A i \in DOMAIN outqueue' :
         /\ outqueue'[i].call \in DOMAIN calls'
         /\ i # n + 1 => outqueue'[i].call \in DOMAIN calls
         /\ i = n + 1 => outqueue'[i].call \notin DOMAIN calls
  BY <1>1, <1>2, <1>5, <1>6 DEF CallInv
<1>13. \A p \in PendingPdus' : p.call \in DOMAIN calls /\ p.call \in DOMAIN calls'
  BY <1>5, <1>6 DEF CallInv
<1>14. \A i, j \in DOMAIN outqueue' : outqueue'[i].call = outqueue'[j].call => i = j
  <2> TAKE i, j \in DOMAIN outqueue'
  <2> HAVE outqueue'[i].call = outqueue'[j].call
  <2>1. CASE i = n + 1 \/ j = n + 1
    BY <1>12, <2>1
  <2>2. CASE i # n + 1 /\ j # n + 1
    BY <1>2, <2>2 DEF CallInv
  <2> QED BY <2>1, <2>2
<1>15. \A i \in DOMAIN outqueue', p \in PendingPdus' : outqueue'[i].call # p.call
  <2> TAKE i \in DOMAIN outqueue', p \in PendingPdus'
  <2>1. CASE i = n + 1
    BY <1>12, <1>13, <2>1
  <2>2. CASE i # n + 1
    BY <1>2, <1>6, <2>2 DEF CallInv
  <2> QED BY <2>1, <2>2
<1>16. CallInv'
  BY <1>6, <1>12, <1>13, <1>14, <1>15 DEF CallInv
<1> QED BY <1>11, <1>16

(* The PDUs of the chain that was written take its place before the others.    *)
LEMMA WriteKeeps ==
  ASSUME TypeInv, IdsInv, CallInv, WriteRest
  PROVE  IdsInv' /\ CallInv'
<1> DEFINE chain == Head(outqueue)
<1>1. outqueue # <<>> /\ outqueue' = Tail(outqueue) /\ waitqueue' = waitqueue \cup PdusOf(chain)
      /\ pdu' = pdu /\ messageId' = messageId /\ calls' = calls
  BY DEF WriteRest, caller
<1>2. /\ chain \in Chain /\ chain = outqueue[1] /\ 1 \in DOMAIN outqueue
      /\ DOMAIN outqueue' = 1 .. Len(outqueue) - 1 /\ DOMAIN outqueue = 1 .. Len(outqueue)
      /\ Len(outqueue) \in Nat /\ \A k \in DOMAIN outqueue' : outqueue'[k] = outqueue[k + 1]
  BY <1>1, HeadType
<1> HIDE DEF chain
<1>3. PendingPdus' = PendingPdus \cup PdusOf(chain)
  BY <1>1 DEF PendingPdus
<1>4. \A k \in DOMAIN outqueue' :
        /\ k \in DOMAIN outqueue /\ k + 1 \in DOMAIN outqueue /\ 1 < k + 1
        /\ outqueue[k + 1].mid \in Nat
  BY <1>2, PendingType
<1> DEFINE w == Width(chain.charge)
           new == PdusOf(chain)
<1>5. /\ chain.mid \in Nat /\ End(chain) \in Nat /\ w \in Nat
      /\ \A p \in new :
           /\ p.call = chain.call /\ Width(p.charge) = w /\ p.mid \in Nat
           /\ chain.mid <= p.mid /\ p.mid + w <= End(chain)
      /\ \A p, q \in new : p # q => p.mid + w <= q.mid \/ q.mid + w <= p.mid
      /\ \A p, q \in new : p.last /\ q.last => p = q
  BY <1>2, PdusLemma, PendingType DEF End
<1>6. \A p \in PendingPdus : p.mid \in Nat /\ Width(p.charge) \in Nat
  BY PendingType
<1> HIDE DEF w, new
<1>7. /\ End(chain) <= messageId /\ messageId \in Nat
      /\ \A k \in DOMAIN outqueue' : End(chain) <= outqueue[k + 1].mid
      /\ \A p \in PendingPdus : p.mid + Width(p.charge) <= chain.mid
  BY <1>2, <1>4 DEF IdsInv, TypeInv
<1>8. \A k \in DOMAIN outqueue' : End(outqueue'[k]) <= messageId'
  BY <1>1, <1>2, <1>4 DEF IdsInv
<1>9. \A k, l \in DOMAIN outqueue' : k < l => End(outqueue'[k]) <= outqueue'[l].mid
  <2> TAKE k, l \in DOMAIN outqueue'
  <2> HAVE k < l
  <2>1. k + 1 < l + 1
    BY <1>2
  <2> QED BY <1>2, <1>4, <2>1 DEF IdsInv
<1>10. \A p \in new :
        /\ p.mid + Width(p.charge) <= messageId'
        /\ \A k \in DOMAIN outqueue' : p.mid + Width(p.charge) <= outqueue'[k].mid
  BY <1>1, <1>2, <1>4, <1>5, <1>7
<1>11. \A p \in PendingPdus :
        /\ p.mid + Width(p.charge) <= messageId'
        /\ \A k \in DOMAIN outqueue' : p.mid + Width(p.charge) <= outqueue'[k].mid
  BY <1>1, <1>2, <1>4 DEF IdsInv
<1>12. \A p \in PendingPdus, q \in new : p.mid + Width(p.charge) <= q.mid
  BY <1>5, <1>6, <1>7
<1>13. \A p, q \in PendingPdus' :
        p # q => p.mid + Width(p.charge) <= q.mid \/ q.mid + Width(q.charge) <= p.mid
  BY <1>3, <1>5, <1>12 DEF IdsInv, new
<1>14. IdsInv'
  BY <1>3, <1>8, <1>9, <1>10, <1>11, <1>13 DEF IdsInv, new
<1>15. chain.call \in DOMAIN calls /\ \A p \in PendingPdus : p.call # chain.call
  BY <1>2 DEF CallInv
<1>16. \A k \in DOMAIN outqueue' : outqueue'[k].call # chain.call
  <2> TAKE k \in DOMAIN outqueue'
  <2>1. k + 1 # 1
    BY <1>2
  <2> QED BY <1>2, <1>4, <2>1 DEF CallInv
<1>17. \A k, l \in DOMAIN outqueue' : outqueue'[k].call = outqueue'[l].call => k = l
  <2> TAKE k, l \in DOMAIN outqueue'
  <2> HAVE outqueue'[k].call = outqueue'[l].call
  <2>1. k + 1 = l + 1
    BY <1>2, <1>4 DEF CallInv
  <2> QED BY <1>2, <2>1
<1>18. \A k \in DOMAIN outqueue' :
         /\ outqueue'[k].call \in DOMAIN calls
         /\ \A p \in PendingPdus : outqueue'[k].call # p.call
  BY <1>2, <1>4 DEF CallInv
<1>19. /\ \A p \in new : p.call = chain.call
       /\ \A p, q \in new : p.last /\ q.last => p = q
  BY <1>5
<1>20. CallInv'
  BY <1>1, <1>3, <1>15, <1>16, <1>17, <1>18, <1>19 DEF CallInv, new
<1> QED BY <1>14, <1>20

(* No message id is taken twice: neither while a PDU waits, nor in the queue.   *)
LEMMA QueueStep ==
  ASSUME TypeInv, IdsInv, CallInv, [Next]_vars
  PROVE  IdsInv' /\ CallInv'
BY StepKinds, TypeStep, ShrinksKeeps, GrowsKeeps, WriteKeeps

-----------------------------------------------------------------------------
(* Between two replies no PDU is being read; one that is was taken off the      *)
(* wait queue.                                                             *)
ReadInv ==
  /\ phase \in {"frame", "member"} => pdu = NoPdu
  /\ phase = "body" /\ context # "destroyed" => pdu # NoPdu
  /\ context = "destroyed" => waiting = 0
  /\ pdu \notin waitqueue

LEMMA NoPduType == NoPdu \notin Pdu
BY DEF NoPdu, Pdu, CallIds

LEMMA ReadStep ==
  ASSUME TypeInv, CallInv, ReadInv, [Next]_vars
  PROVE  ReadInv'
<1> USE DEF reader, caller, server
<1>1. CASE UNCHANGED vars
  BY <1>1 DEF vars, ReadInv
<1>2. ASSUME NEW kind \in Kinds, Call(kind)
      PROVE  ReadInv'
  BY <1>2 DEF Call, ReadInv
<1>3. CASE PollFails \/ SocketFails
  BY <1>3 DEF PollFails, SocketFails, ServiceFails, GiveUp, ReadInv
<1>4. ASSUME NEW c \in DOMAIN calls, TimeOut(c)
      PROVE  ReadInv'
  BY <1>4 DEF TimeOut, ReadInv
<1>5. CASE Destroy
  BY <1>5 DEF Destroy, ReadInv
<1>6. CASE WritePart \/ ReadPauses
  BY <1>6 DEF WritePart, ReadPauses, ReadInv
<1>7. CASE WriteRest
  <2> DEFINE chain == Head(outqueue)
  <2>1. chain \in Chain /\ chain = outqueue[1] /\ 1 \in DOMAIN outqueue
    BY <1>7, HeadType DEF WriteRest
  <2>2. PdusOf(chain) \subseteq Pdu /\ \A p \in PdusOf(chain) : p.call = chain.call
    BY <2>1, PdusLemma
  <2>3. pdu \notin PdusOf(chain)
    <3>1. CASE pdu = NoPdu
      BY <2>2, <3>1, NoPduType
    <3>2. CASE pdu # NoPdu
      <4>1. pdu \in PendingPdus
        BY <3>2 DEF PendingPdus
      <4> QED BY <2>1, <2>2, <4>1 DEF CallInv
    <3> QED BY <3>1, <3>2
  <2> QED BY <1>7, <2>3 DEF WriteRest, ReadInv
<1>8. CASE ReadHeader
  BY <1>8, NoPduType DEF ReadHeader, ServiceFails, GiveUp, ReadInv, TypeInv
<1>9. CASE ReadBody
  <2>1. pdu' = NoPdu /\ waitqueue' = waitqueue /\ context' = context
        /\ phase' \in {"frame", "member"} /\ waiting # 0
    BY <1>9 DEF ReadBody
  <2> QED BY <2>1, NoPduType DEF ReadInv, TypeInv
<1>10. CASE ReadFails
  BY <1>10 DEF ReadFails, ServiceFails, GiveUp, ReadInv
<1>11. CASE Serve
  BY <1>11 DEF Serve, ServerPends, ServerAnswers, ReadInv
<1> QED
  BY <1>1, <1>2, <1>3, <1>4, <1>5, <1>6, <1>7, <1>8, <1>9, <1>10, <1>11
  DEF Next, Fail, Service

(* The PDU that ends a wait is passed on from the queue to the reader.         *)
Awaited ==
  \/ \E i \in DOMAIN outqueue : outqueue[i].call = waiting
  \/ \E p \in PendingPdus : p.call = waiting /\ p.last
WaitInv == waiting # 0 /\ ~Timeouts => Awaited

LEMMA WaitStep ==
  ASSUME TypeInv, CallInv, ReadInv, WaitInv, [Next]_vars
  PROVE  WaitInv'
<1> USE DEF reader, caller, server
<1>0. Timeouts' = Timeouts /\ Len(calls) \in Nat
  BY SetupStays DEF Timeouts, TypeInv
<1> SUFFICES ASSUME waiting' # 0, ~Timeouts
             PROVE  Awaited'
  BY <1>0 DEF WaitInv, Awaited
<1>1. CASE UNCHANGED vars
  BY <1>1 DEF vars, WaitInv, Awaited, PendingPdus
<1>2. CASE Grows /\ waiting' = Len(calls) + 1
  <2>1. PICK chain \in Chain : chain.call = Len(calls) + 1 /\ outqueue' = Append(outqueue, chain)
    BY <1>2 DEF Grows
  <2>2. /\ Len(outqueue) + 1 \in DOMAIN outqueue'
        /\ outqueue'[Len(outqueue) + 1] = chain
    BY <2>1, AppendProperties DEF TypeInv
  <2> QED BY <1>2, <2>1, <2>2 DEF Awaited
<1>3. CASE PollFails \/ SocketFails \/ ReadFails
  BY <1>3 DEF PollFails, SocketFails, ReadFails, ServiceFails, GiveUp
<1>4. CASE \E c \in DOMAIN calls : TimeOut(c)
  BY <1>4 DEF TimeOut
<1>5. CASE Destroy
  BY <1>5 DEF Destroy
<1>6. CASE WritePart
  <2>1. \A i \in DOMAIN outqueue : outqueue[i] \in Chain
    BY DEF TypeInv
  <2>2. /\ DOMAIN outqueue' = DOMAIN outqueue
        /\ \A i \in DOMAIN outqueue : outqueue'[i].call = outqueue[i].call
    BY <1>6, <2>1 DEF WritePart, Chain
  <2>3. waiting' = waiting /\ PendingPdus' = PendingPdus
    BY <1>6 DEF WritePart, PendingPdus
  <2> QED BY <2>2, <2>3 DEF WaitInv, Awaited
<1>7. CASE WriteRest
  <2> DEFINE chain == Head(outqueue)
  <2>1. /\ chain \in Chain /\ chain = outqueue[1] /\ DOMAIN outqueue = 1 .. Len(outqueue)
        /\ outqueue' = Tail(outqueue) /\ DOMAIN outqueue' = 1 .. Len(outqueue) - 1
        /\ \A k \in DOMAIN outqueue' : outqueue'[k] = outqueue[k + 1]
        /\ Len(outqueue) \in Nat
    BY <1>7, HeadType DEF WriteRest
  <2>2. /\ \A p \in PdusOf(chain) : p.call = chain.call
        /\ \E p \in PdusOf(chain) : p.last
    BY <2>1, PdusLemma
  <2>3. PendingPdus' = PendingPdus \cup PdusOf(chain) /\ waiting' = waiting
    BY <1>7 DEF WriteRest, PendingPdus
  <2> HIDE DEF chain
  <2>4. CASE \E p \in PendingPdus : p.call = waiting /\ p.last
    BY <2>3, <2>4 DEF Awaited
  <2>5. ASSUME NEW i \in DOMAIN outqueue, outqueue[i].call = waiting
        PROVE  Awaited'
    <3>1. CASE i = 1
      BY <2>1, <2>2, <2>3, <2>5, <3>1 DEF Awaited
    <3>2. CASE i # 1
      <4>1. i - 1 \in DOMAIN outqueue' /\ (i - 1) + 1 = i
        BY <2>1, <3>2
      <4>2. outqueue'[i - 1] = outqueue[i]
        BY <2>1, <4>1
      <4> QED BY <2>3, <2>5, <4>1, <4>2 DEF Awaited
    <3> QED BY <3>1, <3>2
  <2> QED BY <2>3, <2>4, <2>5 DEF WaitInv, Awaited
<1>8. CASE ReadHeader
  <2>1. pdu = NoPdu
    BY <1>8 DEF ReadHeader, ReadInv
  <2>2. outqueue' = outqueue /\ waiting' = waiting
    BY <1>8 DEF ReadHeader, ServiceFails, GiveUp
  <2>3. PendingPdus' = PendingPdus
    BY <1>8, <2>1, NoPduType DEF ReadHeader, ServiceFails, GiveUp, PendingPdus, TypeInv
  <2> QED BY <2>2, <2>3 DEF WaitInv, Awaited
<1>9. CASE ReadPauses
  BY <1>9 DEF ReadPauses, WaitInv, Awaited, PendingPdus
<1>10. ASSUME ReadBody, ~(Grows /\ waiting' = Len(calls) + 1)
       PROVE  Awaited'
  <2>1. /\ waiting' = waiting /\ ~(pdu.last /\ pdu.call = waiting)
        /\ UNCHANGED outqueue
    BY <1>10, SetupStays, ReadBodyCases
  <2>2. \A p \in PendingPdus : p = pdu \/ p \in PendingPdus'
    BY <1>10 DEF ReadBody, PendingPdus
  <2> QED BY <2>1, <2>2 DEF WaitInv, Awaited
<1>11. CASE Serve
  BY <1>11 DEF Serve, ServerPends, ServerAnswers, WaitInv, Awaited, PendingPdus
<1>12. ASSUME NEW kind \in Kinds, Call(kind)
       PROVE  Awaited'
  BY <1>2, <1>12, SetupStays, CallGrows
<1> QED
  BY <1>1, <1>2, <1>3, <1>4, <1>5, <1>6, <1>7, <1>8, <1>9, <1>10, <1>11, <1>12
  DEF Next, Fail, Service

(* The ids of PDUs lie in the interval that they take.                        *)
LEMMA IdsRange ==
  ASSUME NEW mid \in Nat, NEW n \in Nat, NEW charge \in Nat
  PROVE  \A id \in Ids(mid, n, charge) : id \in Nat /\ mid <= id /\ id < mid + n * Width(charge)
<1>1. n * charge \in Nat /\ n * 1 = n /\ n * 0 = 0
  OBVIOUS
<1>2. CASE charge > 1
  <2>1. n <= n * charge
    <3>1. n * charge = n + n * (charge - 1) /\ charge - 1 \in Nat
      BY <1>2
    <3>2. n * (charge - 1) \in Nat
      BY <3>1
    <3> DEFINE d == n * (charge - 1)
    <3>3. n * charge = n + d /\ d \in Nat
      BY <3>1, <3>2
    <3> HIDE DEF d
    <3> QED BY <3>3
  <2> QED BY <1>1, <1>2, <2>1 DEF Ids, Width
<1>3. CASE charge = 1
  BY <1>1, <1>3 DEF Ids, Width
<1>4. CASE charge = 0
  BY <1>1, <1>4 DEF Ids, Width
<1> QED BY <1>2, <1>3, <1>4

LEMMA IdsApart ==
  ASSUME TypeInv, IdsInv, CallInv
  PROVE  IdsDisjoint
<1>1. \A i \in DOMAIN outqueue : \A id \in Ids(outqueue[i].mid, outqueue[i].n, outqueue[i].charge) :
        id \in Nat /\ outqueue[i].mid <= id /\ id < End(outqueue[i])
  <2> TAKE i \in DOMAIN outqueue
  <2>1. outqueue[i].mid \in Nat /\ outqueue[i].n \in Nat /\ outqueue[i].charge \in Nat
    <3>1. outqueue[i] \in Chain
      BY DEF TypeInv
    <3> QED BY <3>1, LimitsAssumption DEF Chain, Charges
  <2> QED BY <2>1, IdsRange DEF End
<1>2. \A p \in PendingPdus : \A id \in Ids(p.mid, 1, p.charge) :
        id \in Nat /\ p.mid <= id /\ id < p.mid + Width(p.charge)
  <2> TAKE p \in PendingPdus
  <2>1. p.mid \in Nat /\ p.charge \in Nat
    BY PendingType, LimitsAssumption DEF Pdu, Charges
  <2>2. 1 * Width(p.charge) = Width(p.charge)
    <3>1. \A w \in Nat : 1 * w = w
      OBVIOUS
    <3>2. Width(p.charge) \in Nat
      BY <2>1, WidthType
    <3> QED BY <3>1, <3>2
  <2> QED BY <2>1, <2>2, IdsRange
<1>3. /\ messageId \in Nat /\ DOMAIN outqueue \subseteq Nat
      /\ \A i \in DOMAIN outqueue : outqueue[i].mid \in Nat /\ End(outqueue[i]) \in Nat
      /\ \A p \in PendingPdus : p.mid \in Nat /\ p.mid + Width(p.charge) \in Nat
  BY PendingType DEF TypeInv
<1>4. ASSUME NEW i \in DOMAIN outqueue,
             NEW id \in Ids(outqueue[i].mid, outqueue[i].n, outqueue[i].charge)
      PROVE  /\ id < messageId
             /\ \A j \in DOMAIN outqueue \ {i} :
                  id \notin Ids(outqueue[j].mid, outqueue[j].n, outqueue[j].charge)
             /\ \A p \in PendingPdus : id \notin Ids(p.mid, 1, p.charge)
  <2>1. id \in Nat /\ outqueue[i].mid <= id /\ id < End(outqueue[i])
    BY <1>1
  <2>2. id < messageId
    BY <1>3, <2>1 DEF IdsInv
  <2>3. ASSUME NEW j \in DOMAIN outqueue \ {i},
               id \in Ids(outqueue[j].mid, outqueue[j].n, outqueue[j].charge)
        PROVE  FALSE
    <3>1. outqueue[j].mid <= id /\ id < End(outqueue[j])
      BY <1>1, <2>3
    <3>2. i < j \/ j < i
      BY <1>3
    <3>3. End(outqueue[i]) <= outqueue[j].mid \/ End(outqueue[j]) <= outqueue[i].mid
      BY <3>2 DEF IdsInv
    <3> QED BY <1>3, <2>1, <3>1, <3>3
  <2>4. ASSUME NEW p \in PendingPdus, id \in Ids(p.mid, 1, p.charge)
        PROVE  FALSE
    <3>1. p.mid + Width(p.charge) <= outqueue[i].mid
      BY DEF IdsInv
    <3>2. id < p.mid + Width(p.charge)
      BY <1>2, <2>4
    <3> QED BY <1>3, <2>1, <3>1, <3>2
  <2> QED BY <2>2, <2>3, <2>4
<1>5. ASSUME NEW p \in PendingPdus, NEW id \in Ids(p.mid, 1, p.charge)
      PROVE  /\ id < messageId
             /\ \A q \in PendingPdus \ {p} : id \notin Ids(q.mid, 1, q.charge)
  <2>1. id \in Nat /\ p.mid <= id /\ id < p.mid + Width(p.charge)
    BY <1>2
  <2>2. id < messageId
    BY <1>3, <2>1 DEF IdsInv
  <2>3. ASSUME NEW q \in PendingPdus \ {p}, id \in Ids(q.mid, 1, q.charge)
        PROVE  FALSE
    <3>1. q.mid <= id /\ id < q.mid + Width(q.charge)
      BY <1>2, <2>3
    <3>2. p.mid + Width(p.charge) <= q.mid \/ q.mid + Width(q.charge) <= p.mid
      BY DEF IdsInv
    <3> QED BY <1>3, <2>1, <3>1, <3>2
  <2> QED BY <2>2, <2>3
<1> QED BY <1>4, <1>5 DEF IdsDisjoint

-----------------------------------------------------------------------------
(* Every answer still to come, on its way or owed by the server, is to a PDU   *)
(* of its own, which waits for it.                                          *)
AnswerInv ==
  ~Timeouts /\ context # "destroyed" =>
    /\ \A i \in DOMAIN replies :
         ~replies[i].pending => \E p \in waitqueue : p.mid = replies[i].mid
    /\ \A i, j \in DOMAIN replies :
         ~replies[i].pending /\ ~replies[j].pending /\ replies[i].mid = replies[j].mid => i = j
    /\ \A r \in inbox : \A k \in 1 .. r.n : \E p \in waitqueue : p.mid = MidOf(r, k)
    /\ \A r \in inbox : \A k \in 1 .. r.n : \A i \in DOMAIN replies :
         ~replies[i].pending => replies[i].mid # MidOf(r, k)
    /\ \A r, s \in inbox : \A k \in 1 .. r.n, l \in 1 .. s.n : MidOf(r, k) = MidOf(s, l) => r = s

LEMMA MidsAscend ==
  ASSUME NEW r, r.mid \in Nat, r.charge \in Nat, NEW k \in Nat \ {0}
  PROVE  /\ MidOf(r, k) \in Nat /\ r.mid <= MidOf(r, k)
         /\ \A l \in Nat : k < l => MidOf(r, k) < MidOf(r, l)
<1> DEFINE w == Width(r.charge)
           before == (k - 1) * w
<1>1. /\ k - 1 \in Nat /\ w \in Nat \ {0} /\ MidOf(r, k) = r.mid + before
      /\ before \in Nat
  <2>1. k - 1 \in Nat
    OBVIOUS
  <2>2. /\ w \in Nat \ {0} /\ IdsTaken(k - 1, r.charge) = before
        /\ IdsTaken(k - 1, r.charge) \in Nat
    BY <2>1, WidthType
  <2>3. MidOf(r, k) = r.mid + before
    BY <2>2 DEF MidOf
  <2> QED BY <2>1, <2>2, <2>3
<1>2. ASSUME NEW l \in Nat, k < l
      PROVE  MidOf(r, k) < MidOf(r, l)
  <2> DEFINE more == (l - 1) * w
  <2>1. l - 1 \in Nat /\ k - 1 < l - 1
    BY <1>2
  <2>2. MidOf(r, l) = r.mid + more
    BY <2>1, WidthType DEF MidOf
  <2> HIDE DEF w
  <2>3. more \in Nat /\ before + w <= more
    BY <1>1, <2>1, Products
  <2> HIDE DEF more, before
  <2> QED BY <1>1, <2>2, <2>3
<1> HIDE DEF before
<1> QED BY <1>1, <1>2

LEMMA RequestMids ==
  ASSUME TypeInv
  PROVE  \A r \in inbox : \A k \in 1 .. r.n :
           /\ r.n \in Nat /\ MidOf(r, k) \in Nat
           /\ \A l \in 1 .. r.n : MidOf(r, k) = MidOf(r, l) => k = l
<1> TAKE r \in inbox
<1> TAKE k \in 1 .. r.n
<1>1. r.mid \in Nat /\ r.charge \in Nat /\ r.n \in Nat
  BY LimitsAssumption, SMTT(60) DEF TypeInv, Request, Charges
<1>2. MidOf(r, k) \in Nat
  BY <1>1, MidsAscend
<1>3. ASSUME NEW l \in 1 .. r.n, MidOf(r, k) = MidOf(r, l)
      PROVE  k = l
  <2>1. MidOf(r, l) \in Nat
    BY <1>1, MidsAscend
  <2>2. ~(k < l)
    BY <1>1, <1>2, <1>3, MidsAscend
  <2>3. ~(l < k)
    BY <1>1, <1>2, <1>3, <2>1, MidsAscend
  <2> QED BY <1>1, <2>2, <2>3
<1> QED BY <1>1, <1>2, <1>3

(* A frame that is written adds a request for ids that no reply carries.       *)
LEMMA WriteAnswers ==
  ASSUME TypeInv, IdsInv, AnswerInv, WriteRest, Timeouts' = Timeouts
  PROVE  AnswerInv'
<1> SUFFICES ASSUME ~Timeouts, context # "destroyed"
             PROVE  AnswerInv'
  BY DEF WriteRest, AnswerInv
<1> DEFINE chain == Head(outqueue)
           new == [mid |-> chain.mid, n |-> chain.n, charge |-> chain.charge, ask |-> chain.ask,
                   interim |-> FALSE]
<1>1. /\ waitqueue' = waitqueue \cup PdusOf(chain) /\ replies' = replies
      /\ inbox' \subseteq inbox \cup {new}
      /\ chain \in Chain /\ chain = outqueue[1] /\ 1 \in DOMAIN outqueue
  BY HeadType DEF WriteRest
<1>2. new.n = chain.n /\ \A k : MidOf(new, k) = MidOf(chain, k)
  BY DEF MidOf
<1> HIDE DEF chain, new
<1>3. /\ chain.mid \in Nat /\ chain.charge \in Nat /\ chain.n \in Nat
      /\ \A k \in 1 .. chain.n : \E p \in PdusOf(chain) : p.mid = MidOf(chain, k)
  BY <1>1, PdusLemma, LimitsAssumption DEF Chain, Charges
<1>4. \A k \in 1 .. new.n : MidOf(new, k) \in Nat /\ chain.mid <= MidOf(new, k)
  BY <1>2, <1>3, MidsAscend
<1>5. \A p \in waitqueue : p.mid \in Nat /\ p.mid < chain.mid
  <2> TAKE p \in waitqueue
  <2>1. p \in PendingPdus
    BY DEF PendingPdus
  <2>2. p.mid \in Nat /\ Width(p.charge) \in Nat \ {0} /\ p.mid + Width(p.charge) <= chain.mid
    BY <1>1, <2>1, PendingType DEF IdsInv
  <2> QED BY <1>3, <2>2
<1>6. \A p \in waitqueue : \A k \in 1 .. new.n : p.mid # MidOf(new, k)
  BY <1>3, <1>4, <1>5
<1>7. /\ \A i \in DOMAIN replies' :
           ~replies'[i].pending => \E p \in waitqueue' : p.mid = replies'[i].mid
      /\ \A i, j \in DOMAIN replies' :
           ~replies'[i].pending /\ ~replies'[j].pending /\ replies'[i].mid = replies'[j].mid => i = j
  BY <1>1 DEF AnswerInv
<1>8. \A r \in inbox' : \A k \in 1 .. r.n : \E p \in waitqueue' : p.mid = MidOf(r, k)
  BY <1>1, <1>2, <1>3 DEF AnswerInv
<1>9. \A r \in inbox' : \A k \in 1 .. r.n : \A i \in DOMAIN replies' :
        ~replies'[i].pending => replies'[i].mid # MidOf(r, k)
  BY <1>1, <1>6 DEF AnswerInv
<1>10. \A r, s \in inbox' : \A k \in 1 .. r.n, l \in 1 .. s.n : MidOf(r, k) = MidOf(s, l) => r = s
  <2>1. \A r \in inbox : \A k \in 1 .. r.n, l \in 1 .. new.n : MidOf(r, k) # MidOf(new, l)
    BY <1>6 DEF AnswerInv
  <2> QED BY <1>1, <2>1 DEF AnswerInv
<1> QED BY <1>7, <1>8, <1>9, <1>10 DEF AnswerInv

(* The header that is read takes its PDU off the queue, and always finds it.    *)
LEMMA HeaderAnswers ==
  ASSUME TypeInv, ReadInv, AnswerInv, ReadHeader, Timeouts' = Timeouts, ~Timeouts
  PROVE  AnswerInv' /\ phase' # "jammed"
<1> DEFINE reply == replies[1]
<1>0. context # "destroyed" /\ UNCHANGED inbox
  BY DEF ReadHeader, ReadInv
<1>1. /\ replies # <<>> /\ Len(replies) \in Nat /\ DOMAIN replies = 1 .. Len(replies)
      /\ 1 \in DOMAIN replies /\ Head(replies) = reply
      /\ replies' = Tail(replies) /\ DOMAIN replies' = 1 .. Len(replies) - 1
      /\ \A i \in DOMAIN replies' : replies'[i] = replies[i + 1]
  BY HeadTailProperties DEF ReadHeader, TypeInv
<1>2. \A i \in DOMAIN replies' : i + 1 \in DOMAIN replies /\ i + 1 # 1
  BY <1>1
<1>3. \A i, j \in DOMAIN replies' : i + 1 = j + 1 => i = j
  BY <1>1
<1>4. ~reply.pending => \E p \in waitqueue : p.mid = reply.mid
  BY <1>0, <1>1 DEF AnswerInv
<1>5. \/ reply.pending /\ waitqueue' = waitqueue /\ phase' = "frame"
      \/ /\ ~reply.pending /\ phase' = "body"
         /\ \E p \in waitqueue : p.mid = reply.mid /\ waitqueue' = waitqueue \ {p}
  BY <1>1, <1>4 DEF ReadHeader
<1> HIDE DEF reply
<1>6. \A q \in waitqueue : (reply.pending \/ q.mid # reply.mid) => q \in waitqueue'
  BY <1>5
<1>7. \A i \in DOMAIN replies' :
        ~replies'[i].pending => \E p \in waitqueue' : p.mid = replies'[i].mid
  <2> TAKE i \in DOMAIN replies'
  <2> HAVE ~replies'[i].pending
  <2>1. replies'[i] = replies[i + 1] /\ i + 1 \in DOMAIN replies /\ i + 1 # 1
    BY <1>1, <1>2
  <2>2. PICK q \in waitqueue : q.mid = replies[i + 1].mid
    BY <1>0, <2>1 DEF AnswerInv
  <2>3. reply.pending \/ q.mid # reply.mid
    BY <1>0, <1>1, <2>1, <2>2 DEF AnswerInv, reply
  <2> QED BY <1>6, <2>1, <2>2, <2>3
<1>8. \A i, j \in DOMAIN replies' :
        ~replies'[i].pending /\ ~replies'[j].pending /\ replies'[i].mid = replies'[j].mid => i = j
  BY <1>0, <1>1, <1>2, <1>3 DEF AnswerInv
<1>9. \A r \in inbox : \A k \in 1 .. r.n : \E p \in waitqueue' : p.mid = MidOf(r, k)
  <2> TAKE r \in inbox
  <2> TAKE k \in 1 .. r.n
  <2>1. PICK q \in waitqueue : q.mid = MidOf(r, k)
    BY <1>0 DEF AnswerInv
  <2>2. reply.pending \/ q.mid # reply.mid
    BY <1>0, <1>1, <2>1 DEF AnswerInv, reply
  <2> QED BY <1>6, <2>1, <2>2
<1>10. \A r \in inbox : \A k \in 1 .. r.n : \A i \in DOMAIN replies' :
         ~replies'[i].pending => replies'[i].mid # MidOf(r, k)
  BY <1>0, <1>1, <1>2 DEF AnswerInv
<1>11. AnswerInv'
  BY <1>0, <1>7, <1>8, <1>9, <1>10 DEF AnswerInv
<1> QED BY <1>5, <1>11

(* An interim reply leaves the request to be answered.                         *)
LEMMA InterimAnswers ==
  ASSUME TypeInv, AnswerInv, Timeouts' = Timeouts, NEW request \in inbox, ServerPends(request)
  PROVE  AnswerInv'
<1> SUFFICES ASSUME ~Timeouts, context # "destroyed"
             PROVE  AnswerInv'
  BY DEF ServerPends, AnswerInv
<1> DEFINE left == [request EXCEPT !.interim = TRUE, !.ask = 0]
<1>1. PICK note \in Reply : note.pending /\ replies' = Append(replies, note)
  <2>1. PICK g \in Grants(request.ask) :
          replies' = Append(replies,
            [mid |-> request.mid, pending |-> TRUE, grant |-> g, chained |-> FALSE])
    BY DEF ServerPends
  <2>2. g \in Nat /\ request.mid \in Nat
    BY GrantsType DEF TypeInv, Request
  <2> DEFINE r == [mid |-> request.mid, pending |-> TRUE, grant |-> g, chained |-> FALSE]
  <2>3. r \in Reply /\ r.pending
    BY <2>2 DEF Reply
  <2> QED BY <2>1, <2>3
<1>2. /\ DOMAIN replies' = DOMAIN replies \cup {Len(replies) + 1}
      /\ replies'[Len(replies) + 1].pending
      /\ \A i \in DOMAIN replies : replies'[i] = replies[i]
  BY <1>1, AppendProperties DEF TypeInv
<1>3. request \in Request
  BY DEF TypeInv
<1>4. /\ left.n = request.n /\ left.mid = request.mid /\ left.charge = request.charge
  BY <1>3 DEF Request
<1>5. \A k : MidOf(left, k) = MidOf(request, k)
  BY <1>4 DEF MidOf
<1>6. waitqueue' = waitqueue /\ inbox' = (inbox \ {request}) \cup {left}
  BY DEF ServerPends
<1> HIDE DEF left
<1>7. /\ \A i \in DOMAIN replies' :
           ~replies'[i].pending => \E p \in waitqueue' : p.mid = replies'[i].mid
      /\ \A i, j \in DOMAIN replies' :
           ~replies'[i].pending /\ ~replies'[j].pending /\ replies'[i].mid = replies'[j].mid => i = j
  BY <1>2, <1>6 DEF AnswerInv
<1>8. \A r \in inbox' : \A k \in 1 .. r.n :
        /\ \E p \in waitqueue' : p.mid = MidOf(r, k)
        /\ \A i \in DOMAIN replies' : ~replies'[i].pending => replies'[i].mid # MidOf(r, k)
  <2>1. \A r \in inbox : \A k \in 1 .. r.n :
          /\ \E p \in waitqueue' : p.mid = MidOf(r, k)
          /\ \A i \in DOMAIN replies' : ~replies'[i].pending => replies'[i].mid # MidOf(r, k)
    BY <1>2, <1>6 DEF AnswerInv
  <2> QED BY <1>4, <1>5, <1>6, <2>1
<1>9. \A r, s \in inbox' : \A k \in 1 .. r.n, l \in 1 .. s.n : MidOf(r, k) = MidOf(s, l) => r = s
  <2>1. \A s \in inbox \ {request} : \A k \in 1 .. left.n, l \in 1 .. s.n :
          MidOf(left, k) # MidOf(s, l)
    BY <1>4, <1>5 DEF AnswerInv
  <2> QED BY <1>6, <2>1 DEF AnswerInv
<1> QED BY <1>7, <1>8, <1>9 DEF AnswerInv

(* An answer takes over the ids of its request.                              *)
LEMMA RepliesAnswer ==
  ASSUME TypeInv, AnswerInv, Timeouts' = Timeouts, NEW request \in inbox, ServerAnswers(request)
  PROVE  AnswerInv'
<1> SUFFICES ASSUME ~Timeouts, context # "destroyed"
             PROVE  AnswerInv'
  BY DEF ServerAnswers, AnswerInv
<1> DEFINE old == Len(replies)
<1>1. PICK g \in Grants(request.ask), together \in BOOLEAN :
        replies' = replies \o [k \in 1 .. request.n |->
            [mid |-> MidOf(request, k), pending |-> FALSE,
             grant |-> IF k = 1 THEN g ELSE 0, chained |-> together /\ k < request.n]]
  BY DEF ServerAnswers
<1> DEFINE answer == [k \in 1 .. request.n |->
            [mid |-> MidOf(request, k), pending |-> FALSE,
             grant |-> IF k = 1 THEN g ELSE 0, chained |-> together /\ k < request.n]]
<1>2. request \in Request /\ request.n \in Nat
  BY LimitsAssumption DEF TypeInv, Request
<1>3. g \in Nat
  BY <1>2, GrantsType DEF Request
<1>4. answer \in Seq(Reply) /\ Len(answer) = request.n
  BY <1>2, <1>3, AnswerType
<1>5. \A k \in 1 .. request.n : answer[k].mid = MidOf(request, k) /\ ~answer[k].pending
  OBVIOUS
<1>6. replies' = replies \o answer
  BY <1>1
<1> HIDE DEF answer
<1>7. /\ old \in Nat /\ DOMAIN replies = 1 .. old /\ DOMAIN replies' = 1 .. old + request.n
      /\ \A i \in 1 .. old : replies'[i] = replies[i]
      /\ \A i \in 1 .. old + request.n : i > old => replies'[i] = answer[i - old]
  BY <1>2, <1>4, <1>6, ConcatProperties, SMTT(60) DEF TypeInv
<1> HIDE DEF old
<1>8. \A i \in DOMAIN replies' \ DOMAIN replies :
        i - old \in 1 .. request.n /\ replies'[i].mid = MidOf(request, i - old)
  <2> TAKE i \in DOMAIN replies' \ DOMAIN replies
  <2>1. i - old \in 1 .. request.n /\ i > old /\ i \in 1 .. old + request.n
    BY <1>2, <1>7
  <2> QED BY <1>5, <1>7, <2>1
<1>9. waitqueue' = waitqueue /\ inbox' = inbox \ {request}
  BY DEF ServerAnswers
<1>10. \A i \in DOMAIN replies : replies'[i] = replies[i]
  BY <1>7
<1>11. \A i \in DOMAIN replies' :
         ~replies'[i].pending => \E p \in waitqueue' : p.mid = replies'[i].mid
  BY <1>8, <1>9, <1>10 DEF AnswerInv
<1>12. \A i, j \in DOMAIN replies' :
        ~replies'[i].pending /\ ~replies'[j].pending /\ replies'[i].mid = replies'[j].mid => i = j
  <2> TAKE i, j \in DOMAIN replies'
  <2> HAVE ~replies'[i].pending /\ ~replies'[j].pending /\ replies'[i].mid = replies'[j].mid
  <2>1. CASE i \in DOMAIN replies /\ j \in DOMAIN replies
    BY <1>10, <2>1 DEF AnswerInv
  <2>2. CASE i \in DOMAIN replies <=> j \notin DOMAIN replies
    BY <1>8, <1>10, <2>2 DEF AnswerInv
  <2>3. CASE i \notin DOMAIN replies /\ j \notin DOMAIN replies
    <3>1. i - old = j - old
      BY <1>8, <2>3, RequestMids
    <3> QED BY <1>7, <3>1
  <2> QED BY <2>1, <2>2, <2>3
<1>13. \A r \in inbox' : \A k \in 1 .. r.n :
         /\ \E p \in waitqueue' : p.mid = MidOf(r, k)
         /\ \A i \in DOMAIN replies' : ~replies'[i].pending => replies'[i].mid # MidOf(r, k)
  BY <1>8, <1>9, <1>10 DEF AnswerInv
<1>14. \A r, s \in inbox' : \A k \in 1 .. r.n, l \in 1 .. s.n : MidOf(r, k) = MidOf(s, l) => r = s
  BY <1>9 DEF AnswerInv
<1> QED BY <1>11, <1>12, <1>13, <1>14 DEF AnswerInv

LEMMA AnswerStep ==
  ASSUME TypeInv, IdsInv, ReadInv, AnswerInv, [Next]_vars
  PROVE  AnswerInv'
<1> USE DEF reader, caller, server
<1>0. Timeouts' = Timeouts
  BY SetupStays DEF Timeouts
<1> SUFFICES ASSUME ~Timeouts, context' # "destroyed"
             PROVE  AnswerInv'
  BY <1>0 DEF AnswerInv
<1>1. ASSUME UNCHANGED <<waitqueue, inbox, replies>>, context # "destroyed"
      PROVE  AnswerInv'
  BY <1>0, <1>1 DEF AnswerInv
<1>2. CASE UNCHANGED vars
  BY <1>1, <1>2 DEF vars
<1>3. ASSUME NEW kind \in Kinds, Call(kind)
      PROVE  AnswerInv'
  BY <1>1, <1>3 DEF Call
<1>4. CASE PollFails \/ SocketFails \/ ReadFails
  BY <1>1, <1>4 DEF PollFails, SocketFails, ReadFails, ServiceFails, GiveUp
<1>5. CASE \E c \in DOMAIN calls : TimeOut(c)
  BY <1>5 DEF TimeOut
<1>6. CASE Destroy
  BY <1>6 DEF Destroy
<1>7. CASE WritePart \/ ReadPauses \/ ReadBody
  BY <1>1, <1>7 DEF WritePart, ReadPauses, ReadBody
<1>8. CASE WriteRest
  BY <1>0, <1>8, WriteAnswers
<1>9. CASE ReadHeader
  BY <1>0, <1>9, HeaderAnswers
<1>10. CASE Serve
  BY <1>0, <1>10, InterimAnswers, RepliesAnswer DEF Serve
<1> QED
  BY <1>2, <1>3, <1>4, <1>5, <1>6, <1>7, <1>8, <1>9, <1>10
  DEF Next, Fail, Service

-----------------------------------------------------------------------------
(* The memory of a call whose callback is still to run waits for it: its caller *)
(* does, or left it behind.  That fails only for a call that can be given up and *)
(* whose memory is then its caller's own.                                    *)
Kept(kind) == LeavesData(kind) \/ ~CanGiveUp

Ends == {outqueue[i].call : i \in DOMAIN outqueue} \cup LastOf(PendingPdus)

Sound(made, ends) ==
  \A c \in DOMAIN made :
    Kept(made[c].kind) =>
      /\ made[c].memory # "misused"
      /\ c \in ends => made[c].memory \in {"live", "cancelled"}

TouchInv == Sound(calls, Ends)

LEMMA FiredSound ==
  ASSUME TypeInv, NEW ended, NEW ends, ended \subseteq ends, Sound(calls, ends)
  PROVE  Sound(Fired(calls, ended), ends \ ended)
<1> DEFINE made == Fired(calls, ended)
<1>1. /\ DOMAIN made = DOMAIN calls
      /\ \A c \in DOMAIN calls :
           made[c] = IF c \in ended THEN [calls[c] EXCEPT !.memory = Touch(@)] ELSE calls[c]
  BY FiredType
<1>2. \A c \in DOMAIN calls : calls[c] \in Call1
  BY DEF TypeInv
<1>3. \A c \in DOMAIN calls :
        /\ [calls[c] EXCEPT !.memory = Touch(@)].memory = Touch(calls[c].memory)
        /\ [calls[c] EXCEPT !.memory = Touch(@)].kind = calls[c].kind
  BY <1>2 DEF Call1
<1> HIDE DEF made
<1>4. \A m \in {"live", "cancelled"} : Touch(m) # "misused"
  BY DEF Touch
<1>5. \A c \in ended \cap DOMAIN made : Kept(made[c].kind) => made[c].memory # "misused"
  BY <1>1, <1>3, <1>4 DEF Sound
<1>6. \A c \in DOMAIN made : made[c].kind = calls[c].kind
  BY <1>1, <1>3
<1> QED BY <1>1, <1>5, <1>6 DEF Sound, made

LEMMA DroppedSound ==
  ASSUME TypeInv, NEW made \in Seq(Call1), NEW chains, NEW ends, Sound(made, ends),
         \A chain \in chains : chain.call \notin ends
  PROVE  Sound(Dropped(made, chains), ends)
<1>1. \A c \in DOMAIN made : made[c] \in Call1
  OBVIOUS
<1>2. \A c \in DOMAIN made :
        /\ [made[c] EXCEPT !.memory = "forgotten"].memory = "forgotten"
        /\ [made[c] EXCEPT !.memory = "forgotten"].kind = made[c].kind
  BY <1>1 DEF Call1
<1>3. /\ DOMAIN Dropped(made, chains) = DOMAIN made
      /\ \A c \in DOMAIN made :
           \/ Dropped(made, chains)[c] = made[c]
           \/ /\ Dropped(made, chains)[c].memory = "forgotten"
              /\ Dropped(made, chains)[c].kind = made[c].kind
              /\ \E chain \in chains : chain.call = c
  BY <1>2 DEF Dropped
<1> QED BY <1>3 DEF Sound

LEMMA AbandonedSound ==
  ASSUME TypeInv, CanGiveUp, NEW ends, Sound(calls, ends)
  PROVE  Sound(Abandoned(calls, waiting), ends)
<1>1. CASE waiting = 0
  BY <1>1 DEF Abandoned
<1>2. CASE waiting # 0
  <2> DEFINE memory == IF calls[waiting].kind \in {"close", "write"} THEN "dead" ELSE "cancelled"
             left == [calls[waiting] EXCEPT !.memory = memory]
  <2>1. waiting \in DOMAIN calls /\ calls[waiting] \in Call1
    BY <1>2 DEF TypeInv
  <2>2. left.memory = memory /\ left.kind = calls[waiting].kind
    BY <2>1 DEF Call1
  <2>3. Abandoned(calls, waiting) = [calls EXCEPT ![waiting] = left]
    BY <1>2, <2>1 DEF Abandoned
  <2>4. Kept(left.kind) => left.memory = "cancelled"
    BY <2>2 DEF Kept, LeavesData
  <2> HIDE DEF left
  <2> QED BY <2>1, <2>3, <2>4 DEF Sound
<1> QED BY <1>1, <1>2

LEMMA AppendSound ==
  ASSUME NEW made \in Seq(Call1), NEW kind, NEW ends, Sound(made, ends)
  PROVE  Sound(Append(made, [kind |-> kind, memory |-> "live"]), ends \cup {Len(made) + 1})
<1> DEFINE new == [kind |-> kind, memory |-> "live"]
           more == Append(made, new)
<1>1. /\ DOMAIN more = DOMAIN made \cup {Len(made) + 1} /\ more[Len(made) + 1] = new
      /\ \A c \in DOMAIN made : more[c] = made[c] /\ c # Len(made) + 1
  OBVIOUS
<1> HIDE DEF more
<1>2. new.memory = "live"
  OBVIOUS
<1> HIDE DEF new
<1>3. Sound(more, ends \cup {Len(made) + 1})
  BY <1>1, <1>2 DEF Sound
<1> QED BY <1>3 DEF more, new

(* A call that gives up takes nothing with it that a callback will use.        *)
LEMMA GiveUpSound ==
  ASSUME TypeInv, CanGiveUp, Sound(calls, Ends),
         UNCHANGED outqueue, PendingPdus' \subseteq PendingPdus,
         ServiceFails \/ GiveUp(context)
  PROVE  Sound(calls', Ends')
<1>1. Ends' \subseteq Ends
  BY DEF Ends, LastOf
<1>2. calls' = Abandoned(calls, waiting)
  BY DEF ServiceFails, GiveUp
<1>3. Sound(Abandoned(calls, waiting), Ends)
  BY AbandonedSound
<1> QED BY <1>1, <1>2, <1>3 DEF Sound

LEMMA BodySound ==
  ASSUME TypeInv, CallInv, ReadInv, Sound(calls, Ends), ReadBody, setup' = setup
  PROVE  Sound(calls', Ends')
<1> DEFINE ended == IF pdu.last THEN {pdu.call} ELSE {}
           made == Fired(calls, ended)
<1>1. pdu \in PendingPdus /\ PendingPdus' = waitqueue /\ pdu \notin waitqueue
      /\ waitqueue \subseteq PendingPdus
  BY DEF ReadBody, ReadInv, PendingPdus
<1>2. ended \subseteq Ends
  BY <1>1 DEF Ends, LastOf
<1>3. LastOf(waitqueue) \subseteq Ends \ ended
  BY <1>1 DEF Ends, LastOf, CallInv
<1>4. {outqueue[i].call : i \in DOMAIN outqueue} \subseteq Ends \ ended
  BY <1>1 DEF Ends, CallInv
<1>5. made \in Seq(Call1) /\ Len(made) = Len(calls)
  BY FiredType
<1>6. Sound(made, Ends \ ended)
  BY <1>2, FiredSound
<1>7. \/ calls' = made /\ UNCHANGED outqueue
      \/ Grows /\ calls' = Append(made, [kind |-> "write", memory |-> "live"])
  BY ReadBodyCases
<1> HIDE DEF made, ended
<1>8. CASE calls' = made /\ UNCHANGED outqueue
  <2>1. Ends' \subseteq Ends \ ended
    BY <1>1, <1>3, <1>4, <1>8 DEF Ends
  <2> QED BY <1>6, <1>8, <2>1 DEF Sound
<1>9. CASE Grows /\ calls' = Append(made, [kind |-> "write", memory |-> "live"])
  <2>1. PICK chain \in Chain : chain.call = Len(calls) + 1 /\ outqueue' = Append(outqueue, chain)
    BY <1>9 DEF Grows
  <2>2. \A i \in DOMAIN outqueue' :
          outqueue'[i].call = Len(calls) + 1
            \/ outqueue'[i].call \in {outqueue[j].call : j \in DOMAIN outqueue}
    BY <2>1, AppendProperties DEF TypeInv
  <2>3. Ends' \subseteq (Ends \ ended) \cup {Len(calls) + 1}
    BY <1>1, <1>3, <1>4, <2>2 DEF Ends
  <2>4. Sound(calls', (Ends \ ended) \cup {Len(calls) + 1})
    BY <1>5, <1>6, <1>9, AppendSound
  <2> QED BY <2>3, <2>4 DEF Sound
<1> QED BY <1>7, <1>8, <1>9

(* What a timeout takes out of the queues has no other callback.               *)
LEMMA TimeOutSound ==
  ASSUME TypeInv, CallInv, ReadInv, Sound(calls, Ends), NEW c \in DOMAIN calls, TimeOut(c)
  PROVE  Sound(calls', Ends')
<1> DEFINE queued == {chain \in {outqueue[i] : i \in DOMAIN outqueue} : chain.call = c}
           sent == {p \in waitqueue : p.call = c}
           ended == CallbacksOf(queued) \cup LastOf(sent)
           made == Fired(calls, ended)
<1>1. calls' = Dropped(made, queued) /\ waitqueue' = waitqueue \ sent /\ pdu' = pdu
  BY DEF TimeOut
<1>2. ended \subseteq {c} /\ ended \subseteq Ends
  BY DEF CallbacksOf, LastOf, Ends, PendingPdus
<1>3. PendingPdus' \subseteq PendingPdus /\ waitqueue \subseteq PendingPdus
  BY <1>1 DEF PendingPdus
<1>4. /\ \A k \in DOMAIN outqueue' : \E i \in DOMAIN outqueue : outqueue'[k] = outqueue[i]
      /\ \A k \in DOMAIN outqueue' : outqueue'[k].call # c
  <2>1. CASE queued = {} /\ UNCHANGED outqueue
    BY <2>1
  <2>2. ASSUME NEW i \in DOMAIN outqueue, outqueue[i].call = c, outqueue' = RemoveAt(outqueue, i)
        PROVE  \A k \in DOMAIN outqueue' :
                 \E j \in DOMAIN outqueue : outqueue'[k] = outqueue[j] /\ j # i
    <3> TAKE k \in DOMAIN outqueue'
    <3>1. /\ Len(outqueue) \in Nat /\ DOMAIN outqueue = 1 .. Len(outqueue)
          /\ k \in 1 .. Len(outqueue) - 1
          /\ outqueue'[k] = IF k < i THEN outqueue[k] ELSE outqueue[k + 1]
      <4>1. outqueue \in Seq(Chain)
        BY DEF TypeInv
      <4>2. Len(outqueue) \in Nat /\ DOMAIN outqueue = 1 .. Len(outqueue)
        BY <4>1
      <4>3. /\ DOMAIN outqueue' = 1 .. Len(outqueue) - 1
            /\ \A l \in 1 .. Len(outqueue) - 1 :
                 outqueue'[l] = IF l < i THEN outqueue[l] ELSE outqueue[l + 1]
        <5> HIDE DEF queued, sent, ended, made
        <5> QED BY <2>2, <4>1, RemoveLemma
      <4> QED BY <4>2, <4>3
    <3>2. CASE k < i
      BY <3>1, <3>2
    <3>3. CASE ~(k < i)
      <4>1. k + 1 \in DOMAIN outqueue /\ k + 1 # i
        BY <3>1, <3>3
      <4> QED BY <3>1, <3>3, <4>1
    <3> QED BY <3>2, <3>3
  <2>3. CASE \E i \in DOMAIN outqueue : outqueue[i].call = c /\ outqueue' = RemoveAt(outqueue, i)
    BY <2>2, <2>3 DEF CallInv
  <2> QED BY <2>1, <2>3 DEF TimeOut
<1>5. Ends' \subseteq Ends
  BY <1>3, <1>4 DEF Ends, LastOf
<1>6. ended = {} \/ c \notin Ends'
  <2>1. ASSUME NEW p \in PendingPdus', p.last, p.call = c, c \in ended
        PROVE  FALSE
    <3>1. p = pdu /\ p \in PendingPdus /\ p \notin waitqueue
      BY <1>1, <2>1, <1>3 DEF PendingPdus, ReadInv
    <3>2. queued = {}
      BY <2>1, <3>1 DEF CallInv
    <3>3. c \in LastOf(sent)
      BY <2>1, <3>2 DEF CallbacksOf
    <3>4. PICK q \in waitqueue : q.last /\ q.call = c
      BY <3>3 DEF LastOf
    <3> QED BY <1>3, <2>1, <3>1, <3>4 DEF CallInv
  <2> QED BY <1>2, <1>4, <2>1 DEF Ends, LastOf
<1>7. queued = {} \/ c \notin Ends'
  <2>1. ASSUME NEW p \in PendingPdus', p.call = c, queued # {}
        PROVE  FALSE
    BY <1>3, <2>1 DEF CallInv
  <2> QED BY <1>4, <2>1 DEF Ends, LastOf
<1>8. Sound(made, Ends \ ended) /\ made \in Seq(Call1)
  BY <1>2, FiredSound, FiredType
<1>9. \A chain \in queued : chain.call = c
  OBVIOUS
<1> HIDE DEF made, ended, queued
<1>10. Sound(made, Ends')
  BY <1>2, <1>5, <1>6, <1>8 DEF Sound
<1>11. Sound(Dropped(made, queued), Ends')
  BY <1>7, <1>8, <1>9, <1>10, DroppedSound
<1> QED BY <1>1, <1>11

LEMMA DestroySound ==
  ASSUME TypeInv, Sound(calls, Ends), Destroy
  PROVE  Sound(calls', Ends')
<1> DEFINE queued == {outqueue[i] : i \in DOMAIN outqueue}
           ended == CallbacksOf(queued) \cup LastOf(waitqueue)
           made == Fired(calls, ended)
<1>1. calls' = Dropped(made, queued) /\ waitqueue' = {} /\ pdu' = NoPdu /\ outqueue' = <<>>
  BY DEF Destroy
<1>2. Ends' = {}
  BY <1>1 DEF Ends, PendingPdus, LastOf
<1>3. ended \subseteq Ends
  BY DEF CallbacksOf, LastOf, Ends, PendingPdus
<1>4. Sound(made, Ends \ ended) /\ made \in Seq(Call1)
  BY <1>3, FiredSound, FiredType
<1> HIDE DEF made, ended, queued
<1>5. Sound(made, {})
  BY <1>4 DEF Sound
<1>6. Sound(Dropped(made, queued), {})
  BY <1>4, <1>5, DroppedSound
<1> QED BY <1>1, <1>2, <1>6

LEMMA WriteSound ==
  ASSUME TypeInv, Sound(calls, Ends), WriteRest
  PROVE  Sound(calls', Ends')
<1> DEFINE chain == Head(outqueue)
<1>1. /\ outqueue # <<>> /\ outqueue' = Tail(outqueue) /\ UNCHANGED calls
      /\ PendingPdus' = PendingPdus \cup PdusOf(chain)
  BY DEF WriteRest, PendingPdus, caller
<1>2. /\ chain \in Chain /\ chain = outqueue[1] /\ 1 \in DOMAIN outqueue
      /\ \A k \in DOMAIN outqueue' : outqueue'[k] = outqueue[k + 1] /\ k + 1 \in DOMAIN outqueue
  <2>1. /\ DOMAIN outqueue' = 1 .. Len(outqueue) - 1 /\ Len(outqueue) \in Nat
        /\ DOMAIN outqueue = 1 .. Len(outqueue)
    BY <1>1, HeadType
  <2> QED BY <1>1, <2>1, HeadType
<1>3. \A p \in PdusOf(chain) : p.call = chain.call
  BY <1>2, PdusLemma
<1> HIDE DEF chain
<1>4. Ends' \subseteq Ends
  BY <1>1, <1>2, <1>3 DEF Ends, LastOf
<1> QED BY <1>1, <1>4 DEF Sound

LEMMA TouchStep ==
  ASSUME TypeInv, IdsInv, CallInv, ReadInv, AnswerInv, TouchInv, [Next]_vars
  PROVE  TouchInv'
<1> USE DEF reader, caller, server
<1>0. /\ setup' = setup /\ Timeouts' = Timeouts /\ CanGiveUp' = CanGiveUp
      /\ PendingPdus' = waitqueue' \cup IF pdu' = NoPdu THEN {} ELSE {pdu'}
  BY SetupStays DEF CanGiveUp, Kinds, Faults, Timeouts, Signed, PendingPdus
<1> SUFFICES Sound(calls', Ends')
  BY <1>0 DEF TouchInv, Sound, Kept
<1>s. Sound(calls, Ends)
  BY DEF TouchInv
<1>1. ASSUME UNCHANGED <<outqueue, calls>>, PendingPdus' \subseteq PendingPdus
      PROVE  Sound(calls', Ends')
  <2>1. Ends' \subseteq Ends
    BY <1>1 DEF Ends, LastOf
  <2> QED BY <1>s, <1>1, <2>1 DEF Sound
<1>2. CASE UNCHANGED vars
  BY <1>1, <1>2 DEF vars, PendingPdus
<1>3. ASSUME NEW kind \in Kinds, Call(kind)
      PROVE  Sound(calls', Ends')
  <2>1. /\ Grows /\ PendingPdus' = PendingPdus
        /\ calls' = Append(calls, [kind |-> kind, memory |-> "live"])
    BY <1>0, <1>3, CallGrows
  <2>2. PICK chain \in Chain : chain.call = Len(calls) + 1 /\ outqueue' = Append(outqueue, chain)
    BY <2>1 DEF Grows
  <2>3. \A i \in DOMAIN outqueue' :
          outqueue'[i].call = Len(calls) + 1
            \/ outqueue'[i].call \in {outqueue[j].call : j \in DOMAIN outqueue}
    BY <2>2, AppendProperties DEF TypeInv
  <2>4. Ends' \subseteq Ends \cup {Len(calls) + 1}
    BY <2>1, <2>3 DEF Ends, LastOf
  <2>5. Sound(calls', Ends \cup {Len(calls) + 1})
    BY <1>s, <2>1, AppendSound DEF TypeInv
  <2> QED BY <2>4, <2>5 DEF Sound
<1>4. CASE PollFails \/ SocketFails \/ ReadFails
  <2>1. Faults \/ Signed
    BY <1>4 DEF PollFails, SocketFails, ReadFails, Verified
  <2>2. UNCHANGED outqueue /\ PendingPdus' = PendingPdus /\ (ServiceFails \/ GiveUp(context))
    BY <1>4 DEF PollFails, SocketFails, ReadFails, PendingPdus
  <2> QED BY <1>s, <2>1, <2>2, GiveUpSound DEF CanGiveUp
<1>5. CASE ReadHeader
  <2>1. UNCHANGED outqueue /\ PendingPdus' \subseteq PendingPdus
    BY <1>5 DEF ReadHeader, PendingPdus
  <2>2. UNCHANGED calls \/ (phase' = "jammed" /\ ServiceFails)
    BY <1>5 DEF ReadHeader
  <2>3. CASE UNCHANGED calls
    BY <1>1, <2>1, <2>3
  <2>4. CASE phase' = "jammed" /\ ServiceFails
    <3>1. Timeouts
      BY <1>0, <1>5, <2>4, HeaderAnswers
    <3> QED BY <1>s, <2>1, <2>4, <3>1, GiveUpSound DEF CanGiveUp
  <2> QED BY <2>2, <2>3, <2>4
<1>6. CASE WritePart
  <2>1. \A i \in DOMAIN outqueue : outqueue[i] \in Chain
    BY DEF TypeInv
  <2>2. /\ DOMAIN outqueue' = DOMAIN outqueue
        /\ \A i \in DOMAIN outqueue : outqueue'[i].call = outqueue[i].call
    BY <1>6, <2>1 DEF WritePart, Chain
  <2>3. UNCHANGED calls /\ PendingPdus' = PendingPdus
    BY <1>6 DEF WritePart, PendingPdus
  <2>4. Ends' = Ends
    BY <2>2, <2>3 DEF Ends
  <2> QED BY <1>s, <2>3, <2>4
<1>7. CASE ReadPauses
  BY <1>1, <1>7 DEF ReadPauses, PendingPdus
<1>8. CASE Serve
  BY <1>1, <1>8 DEF Serve, ServerPends, ServerAnswers, PendingPdus
<1> QED
  BY <1>s, <1>0, <1>2, <1>3, <1>4, <1>5, <1>6, <1>7, <1>8,
     BodySound, TimeOutSound, DestroySound, WriteSound
  DEF Next, Fail, Service

-----------------------------------------------------------------------------
(* The invariant, and what follows from it *)
Inv == TypeInv /\ IdsInv /\ CallInv /\ ReadInv /\ WaitInv /\ AnswerInv /\ TouchInv

LEMMA InvInit ==
  ASSUME Init
  PROVE  Inv
<1>1. PendingPdus = {} /\ DOMAIN outqueue = {} /\ DOMAIN calls = {} /\ DOMAIN replies = {}
  BY DEF Init, PendingPdus
<1>2. TypeInv
  BY TypeInit
<1>3. IdsInv /\ CallInv /\ WaitInv
  BY <1>1 DEF Init, IdsInv, CallInv, WaitInv
<1>4. ReadInv /\ AnswerInv /\ TouchInv
  BY <1>1 DEF Init, ReadInv, AnswerInv, TouchInv, Sound
<1> QED BY <1>2, <1>3, <1>4 DEF Inv

LEMMA InvHolds == Spec => []Inv
<1>1. Init => Inv
  BY InvInit
<1>2. Inv /\ [Next]_vars => Inv'
  BY TypeStep, QueueStep, ReadStep, WaitStep, AnswerStep, TouchStep DEF Inv
<1> QED BY <1>1, <1>2, PTL DEF Spec

(* Message ids are never shared, so find_pdu never takes one request for       *)
(* another: not after calls that were given up, and whatever a PDU is charged.  *)
THEOREM IdsNeverShared == Spec => []IdsDisjoint
<1>1. Inv => IdsDisjoint
  BY IdsApart DEF Inv
<1> QED BY <1>1, InvHolds, PTL

(* Without timeouts, smb2_read_data never meets a reply without its PDU: a     *)
(* call that is given up leaves its PDUs to be answered.                     *)
THEOREM RepliesFindRequests == Spec => []RepliesMatch
<1>1. Inv => RepliesMatch
  BY DEF Inv, AnswerInv, RepliesMatch
<1> QED BY <1>1, InvHolds, PTL

(* Without timeouts, wait_for_reply never polls for a callback that is not     *)
(* queued, sent or being read any more.                                     *)
THEOREM WaitsAreAnswered == Spec => []WaitsForSomething
<1>1. Inv => WaitsForSomething
  BY DEF Inv, WaitInv, Awaited, WaitsForSomething, EndsWith
<1> QED BY <1>1, InvHolds, PTL

(* No callback of a call that leaves its memory to it touches memory that is gone *)
(* or runs twice, in any mixture with closes and writes, whatever fails, times    *)
(* out or is given up; of a close or a write it is shown only where nothing does.  *)
THEOREM MemoryOutlives == Spec => []CallbackMemoryValid
<1>1. Inv => CallbackMemoryValid
  BY DEF Inv, TouchInv, Kept, Sound, CallbackMemoryValid
<1> QED BY <1>1, InvHolds, PTL
-----------------------------------------------------------------------------
(* Sums.  Induction over the length of a sequence is done by its least           *)
(* counterexample.                                                          *)

(* A set of natural numbers that is not empty has a least element.          *)
LEMMA Least ==
  ASSUME NEW T \in SUBSET Nat, T # {}
  PROVE  \E x \in T : \A y \in T : x <= y
<1> DEFINE R == {ss \in Nat \X Nat : ss[1] < ss[2]}
<1>1. IsWellFoundedOn(R, Nat)
  BY NatLessThanWellFounded DEF OpToRel
<1>2. PICK x \in T : \A y \in T : ~ (<<y, x>> \in R)
  BY <1>1, WFMin
<1>3. \A y \in T : ~(y < x)
  <2> TAKE y \in T
  <2>1. ~(<<y, x>> \in R) /\ <<y, x>> \in Nat \X Nat
    BY <1>2
  <2> QED BY <2>1
<1> HIDE DEF R
<1>4. x \in Nat /\ \A y \in T : y \in Nat
  OBVIOUS
<1> QED BY <1>3, <1>4

(* s holds the sums of the first elements of a. *)
Sums(a, n, s) ==
  /\ s \in [0 .. n -> Nat] /\ s[0] = 0
  /\ \A k \in 1 .. n : s[k] = s[k - 1] + a[k]

LEMMA SumsExist ==
  ASSUME NEW n \in Nat, NEW a \in [1 .. n -> Nat]
  PROVE  \E s : Sums(a, n, s)
<1> DEFINE Found(m) == \E s : Sums(a, m, s)
           missed == {m \in 0 .. n : ~Found(m)}
<1>1. Found(0)
  <2> DEFINE s == [k \in {0} |-> 0]
  <2>1. s \in [0 .. 0 -> Nat] /\ s[0] = 0 /\ \A k \in 1 .. 0 : FALSE
    OBVIOUS
  <2> HIDE DEF s
  <2>2. Sums(a, 0, s)
    BY <2>1 DEF Sums
  <2> QED BY <2>2
<1>2. ASSUME NEW m \in 1 .. n, Found(m - 1)
      PROVE  Found(m)
  <2>1. PICK t : Sums(a, m - 1, t)
    BY <1>2
  <2> DEFINE s == [k \in 0 .. m |-> IF k = m THEN t[m - 1] + a[m] ELSE t[k]]
  <2>2. /\ m \in Nat /\ m - 1 \in 0 .. m - 1 /\ a[m] \in Nat
        /\ t \in [0 .. m - 1 -> Nat] /\ t[0] = 0
        /\ \A k \in 1 .. m - 1 : t[k] = t[k - 1] + a[k]
    BY <2>1 DEF Sums
  <2>3. \A k \in 0 .. m : k # m => k \in 0 .. m - 1
    OBVIOUS
  <2>4. s \in [0 .. m -> Nat]
    BY <2>2, <2>3
  <2>5. s[0] = 0 /\ s[m] = t[m - 1] + a[m] /\ \A k \in 0 .. m - 1 : s[k] = t[k]
    BY <2>2
  <2> HIDE DEF s
  <2>6. \A k \in 1 .. m : s[k] = s[k - 1] + a[k]
    <3> TAKE k \in 1 .. m
    <3>1. CASE k = m
      BY <2>2, <2>5, <3>1
    <3>2. CASE k # m
      <4>1. k \in 1 .. m - 1 /\ k \in 0 .. m - 1 /\ k - 1 \in 0 .. m - 1
        BY <3>2
      <4> QED BY <2>2, <2>5, <4>1
    <3> QED BY <3>1, <3>2
  <2>7. Sums(a, m, s)
    BY <2>4, <2>5, <2>6 DEF Sums
  <2> QED BY <2>7
<1> HIDE DEF Found
<1>3. missed = {}
  <2> SUFFICES ASSUME missed # {} PROVE FALSE
    OBVIOUS
  <2>0. missed \in SUBSET Nat
    OBVIOUS
  <2>1. PICK m \in missed : \A j \in missed : m <= j
    <3> HIDE DEF missed
    <3> QED BY <2>0, Least
  <2>2. m \in 1 .. n
    BY <1>1
  <2>3. m - 1 \in 0 .. n /\ m - 1 \notin missed
    BY <2>1, <2>2
  <2>4. Found(m)
    BY <1>2, <2>2, <2>3
  <2> QED BY <2>4
<1>4. Found(n)
  BY <1>3
<1> QED BY <1>4 DEF Found

(* Two functions that grow by the same steps keep their distance.             *)
LEMMA SameSteps ==
  ASSUME NEW n \in Nat, NEW f \in [0 .. n -> Int], NEW g \in [0 .. n -> Int],
         \A k \in 1 .. n : f[k] - f[k - 1] = g[k] - g[k - 1]
  PROVE  \A k \in 0 .. n : f[k] - g[k] = f[0] - g[0]
<1> DEFINE missed == {k \in 0 .. n : f[k] - g[k] # f[0] - g[0]}
<1> SUFFICES ASSUME missed # {} PROVE FALSE
  OBVIOUS
<1>0. missed \in SUBSET Nat
  OBVIOUS
<1>1. PICK m \in missed : \A j \in missed : m <= j
  <2> HIDE DEF missed
  <2> QED BY <1>0, Least
<1>2. m \in 1 .. n /\ m \in 0 .. n /\ m - 1 \in 0 .. n
  OBVIOUS
<1>3. f[m] - g[m] # f[0] - g[0]
  OBVIOUS
<1>4. f[m - 1] - g[m - 1] = f[0] - g[0]
  BY <1>1, <1>2
<1>5. f[m] \in Int /\ f[m - 1] \in Int /\ g[m] \in Int /\ g[m - 1] \in Int
  BY <1>2
<1>6. f[m] - f[m - 1] = g[m] - g[m - 1]
  BY <1>2
<1>7. f[0] \in Int /\ g[0] \in Int
  OBVIOUS
<1>8. \A a, b, c, d \in Int : a - b = c - d => a - c = b - d
  OBVIOUS
<1>9. f[m] - g[m] = f[m - 1] - g[m - 1]
  <2> DEFINE a == f[m]
             b == f[m - 1]
             c == g[m]
             d == g[m - 1]
  <2>1. a \in Int /\ b \in Int /\ c \in Int /\ d \in Int
    BY <1>5
  <2>2. a - b = c - d
    BY <1>6
  <2> HIDE DEF a, b, c, d
  <2>3. a - c = b - d
    BY <1>8, <2>1, <2>2
  <2> QED BY <2>3 DEF a, b, c, d
<1> QED BY <1>3, <1>4, <1>9

(* Granted adds up the grants.                                              *)
LEMMA GrantedSums ==
  ASSUME NEW sent \in Seq(Reply)
  PROVE  \E s : /\ s \in [0 .. Len(sent) -> Nat] /\ s[0] = 0
                /\ \A k \in 1 .. Len(sent) : s[k] = s[k - 1] + sent[k].grant
                /\ Granted(sent) = s[Len(sent)]
<1> DEFINE n == Len(sent)
           a == [k \in 1 .. n |-> sent[k].grant]
           Rule(f) == f = [k \in 0 .. n |-> IF k = 0 THEN 0 ELSE f[k - 1] + sent[k].grant]
<1>1. n \in Nat /\ \A k \in 1 .. n : sent[k] \in Reply /\ sent[k].grant \in Nat
  <2>1. n \in Nat /\ \A k \in 1 .. n : sent[k] \in Reply
    OBVIOUS
  <2>2. \A r \in Reply : r.grant \in Nat
    BY DEF Reply
  <2> QED BY <2>1, <2>2
<1>2. a \in [1 .. n -> Nat]
  BY <1>1
<1>3. PICK s : Sums(a, n, s)
  BY <1>1, <1>2, SumsExist
<1>4. /\ s \in [0 .. n -> Nat] /\ s[0] = 0
      /\ \A k \in 1 .. n : s[k] = s[k - 1] + sent[k].grant
  BY <1>3 DEF Sums
<1> HIDE DEF a
<1>5. Rule(s)
  <2>1. \A k \in 0 .. n : s[k] = IF k = 0 THEN 0 ELSE s[k - 1] + sent[k].grant
    <3> TAKE k \in 0 .. n
    <3>1. k # 0 => k \in 1 .. n
      BY <1>1
    <3> QED BY <1>4, <3>1
  <2> QED BY <1>4, <2>1
<1> DEFINE sum == CHOOSE f : Rule(f)
<1>6. Rule(sum)
  <2> HIDE DEF Rule
  <2> QED BY <1>5
<1>7. Granted(sent) = sum[n]
  BY DEF Granted
<1> HIDE DEF sum
<1>8. \A k \in 0 .. n : sum[k] = IF k = 0 THEN 0 ELSE sum[k - 1] + sent[k].grant
  BY <1>6
<1> DEFINE off == {k \in 0 .. n : sum[k] # s[k]}
<1>9. off = {}
  <2> SUFFICES ASSUME off # {} PROVE FALSE
    OBVIOUS
  <2>0. off \in SUBSET Nat
    BY <1>1
  <2>1. PICK m \in off : \A j \in off : m <= j
    <3> HIDE DEF off
    <3> QED BY <2>0, Least
  <2>2. m # 0 /\ m \in 1 .. n /\ m - 1 \in 0 .. n
    BY <1>1, <1>4, <1>8
  <2>3. sum[m - 1] = s[m - 1]
    BY <1>1, <2>1, <2>2
  <2> QED BY <1>4, <1>8, <2>2, <2>3
<1>10. Granted(sent) = s[n]
  BY <1>1, <1>7, <1>9
<1> QED BY <1>4, <1>10
LEMMA GrantedParts ==
  ASSUME NEW sent \in Seq(Reply), NEW more \in Seq(Reply)
  PROVE  Granted(sent \o more) = Granted(sent) + Granted(more)
<1> DEFINE n == Len(sent)
           m == Len(more)
           both == sent \o more
<1>1. /\ n \in Nat /\ m \in Nat /\ both \in Seq(Reply) /\ Len(both) = n + m
      /\ \A k \in 1 .. n : both[k] = sent[k]
      /\ \A k \in 1 .. m : both[n + k] = more[k]
  <2>1. \A k \in 1 .. m : n + k \in 1 .. n + m /\ ~(n + k <= n) /\ (n + k) - n = k
    OBVIOUS
  <2> QED BY <2>1, ConcatProperties
<1>2. PICK s : /\ s \in [0 .. n -> Nat] /\ s[0] = 0
               /\ \A k \in 1 .. n : s[k] = s[k - 1] + sent[k].grant
               /\ Granted(sent) = s[n]
  BY GrantedSums
<1>3. PICK t : /\ t \in [0 .. m -> Nat] /\ t[0] = 0
               /\ \A k \in 1 .. m : t[k] = t[k - 1] + more[k].grant
               /\ Granted(more) = t[m]
  BY GrantedSums
<1> HIDE DEF both, n, m
<1>4. PICK u : /\ u \in [0 .. n + m -> Nat] /\ u[0] = 0
               /\ \A k \in 1 .. n + m : u[k] = u[k - 1] + both[k].grant
               /\ Granted(both) = u[n + m]
  BY <1>1, GrantedSums
<1>g. /\ \A k \in 1 .. n : both[k].grant \in Nat /\ both[k].grant = sent[k].grant
      /\ \A k \in 1 .. m : both[n + k].grant \in Nat /\ both[n + k].grant = more[k].grant
  <2>1. \A k \in 1 .. n + m : both[k] \in Reply
    BY <1>1
  <2>2. \A k \in 1 .. n + m : both[k].grant \in Nat
    BY <2>1 DEF Reply
  <2>3. (\A k \in 1 .. n : k \in 1 .. n + m) /\ \A k \in 1 .. m : n + k \in 1 .. n + m
    BY <1>1
  <2> QED BY <1>1, <2>2, <2>3
<1>5. u[n] = s[n]
  <2> DEFINE v == [k \in 0 .. n |-> u[k]]
  <2>1. \A k \in 0 .. n : k \in 0 .. n + m /\ v[k] = u[k] /\ u[k] \in Int
    BY <1>1, <1>4
  <2>2. v \in [0 .. n -> Int] /\ s \in [0 .. n -> Int]
    BY <1>2, <2>1
  <2> HIDE DEF v
  <2>3. \A k \in 1 .. n : v[k] - v[k - 1] = s[k] - s[k - 1]
    <3> TAKE k \in 1 .. n
    <3>1. k \in 1 .. n + m /\ k \in 0 .. n /\ k - 1 \in 0 .. n
      BY <1>1
    <3>2. u[k] = u[k - 1] + both[k].grant /\ s[k] = s[k - 1] + sent[k].grant
      BY <1>2, <1>4, <3>1
    <3>3. v[k] = u[k] /\ v[k - 1] = u[k - 1] /\ u[k - 1] \in Int /\ s[k - 1] \in Int
      BY <1>2, <2>1, <3>1
    <3>4. both[k].grant \in Nat /\ both[k].grant = sent[k].grant
      BY <1>g
    <3> QED BY <3>2, <3>3, <3>4
  <2>4. 0 \in 0 .. n /\ n \in 0 .. n
    BY <1>1
  <2>5. v[n] - s[n] = v[0] - s[0]
    BY <1>1, <2>2, <2>3, <2>4, SameSteps
  <2>6. s[n] \in Nat /\ v[n] \in Int /\ v[0] = 0
    BY <1>2, <1>4, <2>1, <2>4
  <2> QED BY <1>2, <2>1, <2>4, <2>5, <2>6
<1>6. u[n + m] = u[n] + t[m]
  <2> DEFINE v == [k \in 0 .. m |-> u[n + k]]
  <2>1. \A k \in 0 .. m : n + k \in 0 .. n + m /\ v[k] = u[n + k] /\ u[n + k] \in Int
    BY <1>1, <1>4
  <2>2. v \in [0 .. m -> Int] /\ t \in [0 .. m -> Int]
    BY <1>3, <2>1
  <2> HIDE DEF v
  <2>3. \A k \in 1 .. m : v[k] - v[k - 1] = t[k] - t[k - 1]
    <3> TAKE k \in 1 .. m
    <3>1. n + k \in 1 .. n + m /\ k \in 0 .. m /\ k - 1 \in 0 .. m /\ n + (k - 1) = (n + k) - 1
      BY <1>1
    <3>2. u[n + k] = u[(n + k) - 1] + both[n + k].grant
      BY <1>4, <3>1
    <3>3. t[k] = t[k - 1] + more[k].grant
      BY <1>3
    <3>4. v[k] = u[n + k] /\ v[k - 1] = u[(n + k) - 1] /\ u[(n + k) - 1] \in Int /\ t[k - 1] \in Int
      BY <1>3, <2>1, <3>1, SMTT(60)
    <3>5. both[n + k].grant \in Nat /\ both[n + k].grant = more[k].grant
      BY <1>g
    <3> QED BY <3>2, <3>3, <3>4, <3>5
  <2>4. 0 \in 0 .. m /\ m \in 0 .. m /\ n + 0 = n
    BY <1>1
  <2>5. v[m] - t[m] = v[0] - t[0]
    BY <1>1, <2>2, <2>3, <2>4, SameSteps
  <2>6. t[m] \in Nat /\ v[m] = u[n + m] /\ v[0] = u[n] /\ u[n] \in Int /\ u[n + m] \in Int
    BY <1>3, <2>1, <2>4
  <2> QED BY <1>3, <2>5, <2>6
<1>7. Granted(both) = Granted(sent) + Granted(more)
  BY <1>2, <1>3, <1>4, <1>5, <1>6
<1> QED BY <1>7 DEF both

LEMMA GrantedType == ASSUME NEW sent \in Seq(Reply) PROVE Granted(sent) \in Nat
<1>1. Len(sent) \in 0 .. Len(sent)
  OBVIOUS
<1> QED BY <1>1, GrantedSums

(* Only the first of the replies to one request grants credits. *)
LEMMA GrantedAnswer ==
  ASSUME NEW answer \in Seq(Reply), answer # <<>>,
         \A k \in 2 .. Len(answer) : answer[k].grant = 0
  PROVE  Granted(answer) = answer[1].grant
<1> DEFINE n == Len(answer) - 1
<1>1. n \in Nat /\ Len(answer) = n + 1 /\ 1 \in 1 .. n + 1 /\ answer[1].grant \in Nat
  <2>1. Len(answer) \in Nat \ {0} /\ answer[1] \in Reply
    OBVIOUS
  <2> QED BY <2>1 DEF Reply
<1>2. PICK s : /\ s \in [0 .. Len(answer) -> Nat] /\ s[0] = 0
               /\ \A k \in 1 .. Len(answer) : s[k] = s[k - 1] + answer[k].grant
               /\ Granted(answer) = s[Len(answer)]
  BY GrantedSums
<1> HIDE DEF n
<1>3. s[1] = answer[1].grant
  <2>1. s[1] = s[1 - 1] + answer[1].grant
    BY <1>1, <1>2
  <2> QED BY <1>1, <1>2, <2>1
<1> DEFINE v == [k \in 0 .. n |-> s[k + 1]]
           z == [k \in 0 .. n |-> 0]
<1>4. \A k \in 0 .. n : k + 1 \in 0 .. n + 1 /\ s[k + 1] \in Int
  BY <1>1, <1>2
<1>5. v \in [0 .. n -> Int] /\ z \in [0 .. n -> Int] /\ \A k \in 0 .. n : v[k] = s[k + 1] /\ z[k] = 0
  BY <1>4
<1> HIDE DEF v, z
<1>6. \A k \in 1 .. n : v[k] - v[k - 1] = z[k] - z[k - 1]
  <2> TAKE k \in 1 .. n
  <2>1. k + 1 \in 2 .. n + 1 /\ k + 1 \in 1 .. n + 1 /\ (k + 1) - 1 = k /\ k \in 0 .. n /\ k - 1 \in 0 .. n
        /\ (k - 1) + 1 = k
    BY <1>1
  <2>2. s[k + 1] = s[k] + answer[k + 1].grant /\ answer[k + 1].grant = 0
    BY <1>1, <1>2, <2>1
  <2>3. v[k] = s[k + 1] /\ v[k - 1] = s[k] /\ s[k] \in Int /\ z[k] = 0 /\ z[k - 1] = 0
    BY <1>4, <1>5, <2>1
  <2> QED BY <2>2, <2>3
<1>7. v[n] - z[n] = v[0] - z[0]
  <2>1. n \in 0 .. n
    BY <1>1
  <2> QED BY <1>1, <1>5, <1>6, <2>1, SameSteps, ZenonT(60)
<1>8. v[n] = s[n + 1] /\ v[0] = s[1] /\ z[n] = 0 /\ z[0] = 0 /\ s[n + 1] \in Int /\ s[1] \in Int
  <2>1. n \in 0 .. n /\ 0 \in 0 .. n /\ 0 + 1 = 1
    BY <1>1
  <2> QED BY <1>4, <1>5, <2>1
<1> QED BY <1>1, <1>2, <1>3, <1>7, <1>8
-----------------------------------------------------------------------------
(* Credits.  What is spent and what is granted changes both sides alike; the     *)
(* window stays a number because a frame is only written when it can be paid.   *)
LEMMA GrantedAppends ==
  ASSUME NEW sent \in Seq(Reply), NEW r \in Reply
  PROVE  Granted(Append(sent, r)) = Granted(sent) + r.grant
<1>1. /\ <<r>> \in Seq(Reply) /\ <<r>> # <<>> /\ <<r>>[1] = r
      /\ \A k \in 2 .. Len(<<r>>) : FALSE
  OBVIOUS
<1>2. Granted(<<r>>) = r.grant
  BY <1>1, GrantedAnswer
<1>3. Append(sent, r) = sent \o <<r>>
  OBVIOUS
<1> QED BY <1>1, <1>2, <1>3, GrantedParts

LEMMA GrantedTail ==
  ASSUME NEW sent \in Seq(Reply), sent # <<>>
  PROVE  Granted(sent) = Head(sent).grant + Granted(Tail(sent)) /\ Head(sent) \in Reply
<1> DEFINE r == Head(sent)
           rest == Tail(sent)
<1>1. r \in Reply /\ rest \in Seq(Reply) /\ sent = <<r>> \o rest
  OBVIOUS
<1> HIDE DEF r, rest
<1>2. /\ <<r>> \in Seq(Reply) /\ <<r>> # <<>> /\ <<r>>[1] = r
      /\ \A k \in 2 .. Len(<<r>>) : FALSE
  BY <1>1
<1>3. Granted(<<r>>) = r.grant
  BY <1>2, GrantedAnswer
<1>4. Granted(sent) = r.grant + Granted(rest) /\ r \in Reply
  BY <1>1, <1>2, <1>3, GrantedParts
<1> QED BY <1>4 DEF r, rest

CreditsInv == window \in Nat /\ CreditsAgree

(* What a step of the server grants is on its way. *)
LEMMA ServeCredits ==
  ASSUME TypeInv, NEW request \in inbox, ServerPends(request) \/ ServerAnswers(request)
  PROVE  /\ torn' = torn /\ credits' = credits
         /\ \E g \in Grants(request.ask) :
              /\ g \in Nat /\ window' = window + g
              /\ Granted(replies') = Granted(replies) + g
<1>0. request \in Request /\ request.ask \in Nat /\ request.mid \in Nat /\ replies \in Seq(Reply)
      /\ request.n \in Nat \ {0}
  BY LimitsAssumption DEF TypeInv, Request
<1>1. CASE ServerPends(request)
  <2>1. PICK g \in Grants(request.ask) :
          /\ window' = window + g
          /\ replies' = Append(replies,
               [mid |-> request.mid, pending |-> TRUE, grant |-> g, chained |-> FALSE])
    BY <1>1 DEF ServerPends
  <2>2. g \in Nat
    BY <1>0, GrantsType
  <2> DEFINE r == [mid |-> request.mid, pending |-> TRUE, grant |-> g, chained |-> FALSE]
  <2>3. r \in Reply /\ r.grant = g
    BY <1>0, <2>2 DEF Reply
  <2>4. replies' = Append(replies, r)
    BY <2>1
  <2> HIDE DEF r
  <2>5. Granted(replies') = Granted(replies) + g
    BY <1>0, <2>3, <2>4, GrantedAppends
  <2> QED BY <1>1, <2>1, <2>2, <2>5 DEF ServerPends
<1>2. CASE ServerAnswers(request)
  <2>1. PICK g \in Grants(request.ask), together \in BOOLEAN :
          /\ window' = window + g
          /\ replies' = replies \o [k \in 1 .. request.n |->
               [mid |-> MidOf(request, k), pending |-> FALSE,
                grant |-> IF k = 1 THEN g ELSE 0, chained |-> together /\ k < request.n]]
    BY <1>2 DEF ServerAnswers
  <2>2. g \in Nat
    BY <1>0, GrantsType
  <2> DEFINE answer == [k \in 1 .. request.n |->
               [mid |-> MidOf(request, k), pending |-> FALSE,
                grant |-> IF k = 1 THEN g ELSE 0, chained |-> together /\ k < request.n]]
  <2>3. answer \in Seq(Reply) /\ Len(answer) = request.n
    BY <1>0, <2>2, AnswerType
  <2>4. answer[1].grant = g /\ \A k \in 2 .. request.n : answer[k].grant = 0
    BY <1>0
  <2>5. replies' = replies \o answer
    BY <2>1
  <2> HIDE DEF answer
  <2>6. answer # <<>>
    BY <1>0, <2>3
  <2>7. Granted(answer) = g
    BY <2>3, <2>4, <2>6, GrantedAnswer
  <2>8. Granted(replies') = Granted(replies) + g
    BY <1>0, <2>3, <2>5, <2>7, GrantedParts
  <2> QED BY <1>2, <2>1, <2>2, <2>8 DEF ServerAnswers
<1> QED BY <1>1, <1>2

LEMMA CreditsStep ==
  ASSUME TypeInv, CreditsInv, [Next]_vars
  PROVE  CreditsInv'
<1> USE DEF reader, caller, server
<1>0. credits \in Nat /\ window \in Nat /\ replies \in Seq(Reply) /\ Granted(replies) \in Nat
  BY GrantedType DEF TypeInv, CreditsInv
<1>1. ASSUME UNCHANGED <<credits, window, replies>>, torn => torn'
      PROVE  CreditsInv'
  BY <1>1 DEF CreditsInv, CreditsAgree
<1>2. CASE UNCHANGED vars
  BY <1>1, <1>2 DEF vars
<1>3. ASSUME NEW kind \in Kinds, Call(kind)
      PROVE  CreditsInv'
  BY <1>1, <1>3 DEF Call
<1>4. CASE PollFails \/ SocketFails \/ ReadFails
  BY <1>1, <1>4 DEF PollFails, SocketFails, ReadFails
<1>5. ASSUME NEW c \in DOMAIN calls, TimeOut(c)
      PROVE  CreditsInv'
  BY <1>1, <1>5 DEF TimeOut
<1>6. CASE Destroy
  BY <1>1, <1>6 DEF Destroy
<1>7. CASE WritePart \/ ReadPauses \/ ReadBody
  BY <1>1, <1>7 DEF WritePart, ReadPauses, ReadBody
<1>8. CASE WriteRest
  <2> DEFINE c == ChainCharge(Head(outqueue))
  <2>1. /\ c <= credits /\ credits' = credits - c
        /\ window' = IF torn THEN window ELSE window - c
        /\ UNCHANGED <<torn, replies>>
    BY <1>8 DEF WriteRest
  <2>2. c \in Nat
    BY <1>8, HeadType, ChargeType DEF WriteRest
  <2> HIDE DEF c
  <2>3. CASE torn
    BY <1>0, <2>1, <2>3 DEF CreditsInv, CreditsAgree
  <2>4. CASE ~torn
    <3>1. credits + Granted(replies) = window /\ window' = window - c
      BY <2>1, <2>4 DEF CreditsInv, CreditsAgree
    <3>2. window' \in Nat /\ credits' + Granted(replies) = window'
      BY <1>0, <2>1, <2>2, <3>1
    <3> QED BY <2>1, <3>2 DEF CreditsInv, CreditsAgree
  <2> QED BY <2>3, <2>4
<1>9. CASE ReadHeader
  <2>1. /\ replies # <<>> /\ replies' = Tail(replies) /\ credits' = credits + Head(replies).grant
        /\ UNCHANGED <<torn, window>>
    BY <1>9 DEF ReadHeader
  <2>2. /\ Granted(replies) = Head(replies).grant + Granted(replies')
        /\ Head(replies).grant \in Nat /\ Granted(replies') \in Nat
    <3>1. Tail(replies) \in Seq(Reply) /\ Head(replies) \in Reply
      BY <1>0, <2>1
    <3> QED BY <1>0, <2>1, <3>1, GrantedTail, GrantedType DEF Reply
  <2>3. ~torn => credits' + Granted(replies') = window
    BY <1>0, <2>1, <2>2, SMTT(60) DEF CreditsInv, CreditsAgree
  <2> QED BY <1>0, <2>1, <2>3 DEF CreditsInv, CreditsAgree
<1>10. CASE Serve
  <2>1. PICK request \in inbox : ServerPends(request) \/ ServerAnswers(request)
    BY <1>10 DEF Serve
  <2>2. /\ torn' = torn /\ credits' = credits
        /\ \E g \in Grants(request.ask) :
             /\ g \in Nat /\ window' = window + g
             /\ Granted(replies') = Granted(replies) + g
    BY <2>1, ServeCredits
  <2>3. window' \in Nat /\ (~torn' => credits' + Granted(replies') = window')
    BY <1>0, <2>2 DEF CreditsInv, CreditsAgree
  <2> QED BY <2>3 DEF CreditsInv, CreditsAgree
<1> QED
  BY <1>2, <1>3, <1>4, <1>5, <1>6, <1>7, <1>8, <1>9, <1>10
  DEF Next, Fail, Service

LEMMA CreditsInit == Init => CreditsInv
<1> SUFFICES ASSUME Init PROVE CreditsInv
  OBVIOUS
<1>1. credits \in Nat /\ window = credits /\ replies = <<>>
  BY SetupsAssumption DEF Init
<1>2. <<>> \in Seq(Reply) /\ Len(<<>>) = 0
  OBVIOUS
<1>3. Granted(<<>>) = 0
  BY <1>2, GrantedSums
<1> QED BY <1>1, <1>3 DEF CreditsInv, CreditsAgree

LEMMA CreditsHold == Spec => []CreditsInv
<1>1. Inv /\ CreditsInv /\ [Next]_vars => CreditsInv'
  BY CreditsStep DEF Inv
<1> QED BY <1>1, CreditsInit, InvHolds, PTL DEF Spec

(* Client and server never disagree on the credits there are, whatever the       *)
(* server grants, interim replies included, and whatever is given up: spending    *)
(* and counting (smb2_write_to_socket, smb2_read_data) lose none until a timeout    *)
(* leaves a frame half written.                                               *)
THEOREM CreditsNeverDrift == Spec => []CreditsAgree
<1>1. CreditsInv => CreditsAgree
  BY DEF CreditsInv
<1> QED BY <1>1, CreditsHold, PTL
-----------------------------------------------------------------------------
(* Types, with the flags of the reader and the size of the window.             *)
FlagsInv ==
  /\ chained \in BOOLEAN /\ inFrame \in BOOLEAN /\ iovOffset \in BOOLEAN /\ torn \in BOOLEAN

LEMMA FlagsStep ==
  ASSUME TypeInv, FlagsInv, [Next]_vars
  PROVE  FlagsInv'
<1> USE DEF reader, caller, server
<1>1. CASE UNCHANGED vars
  BY <1>1 DEF vars, FlagsInv
<1>2. ASSUME NEW kind \in Kinds, Call(kind)
      PROVE  FlagsInv'
  BY <1>2 DEF Call, FlagsInv
<1>3. CASE PollFails \/ SocketFails \/ ReadFails
  BY <1>3 DEF PollFails, SocketFails, ReadFails, ServiceFails, GiveUp, FlagsInv
<1>4. ASSUME NEW c \in DOMAIN calls, TimeOut(c)
      PROVE  FlagsInv'
  BY <1>4 DEF TimeOut, FlagsInv
<1>5. CASE Destroy
  BY <1>5 DEF Destroy, FlagsInv
<1>6. CASE WritePart \/ WriteRest \/ ReadPauses
  BY <1>6 DEF WritePart, WriteRest, ReadPauses, FlagsInv
<1>7. CASE ReadHeader
  <2>1. Head(replies) \in Reply
    BY <1>7, HeadTailProperties DEF ReadHeader, TypeInv
  <2>2. Head(replies).chained \in BOOLEAN
    BY <2>1 DEF Reply
  <2>3. chained' = Head(replies).chained /\ UNCHANGED <<inFrame, iovOffset, torn>>
    BY <1>7 DEF ReadHeader
  <2> QED BY <2>2, <2>3 DEF FlagsInv
<1>8. CASE ReadBody
  <2>1. inFrame' = chained /\ iovOffset' = chained /\ UNCHANGED <<chained, torn>>
    BY <1>8 DEF ReadBody
  <2> QED BY <2>1 DEF FlagsInv
<1>9. CASE Serve
  BY <1>9 DEF Serve, ServerPends, ServerAnswers, FlagsInv
<1> QED
  BY <1>1, <1>2, <1>3, <1>4, <1>5, <1>6, <1>7, <1>8, <1>9
  DEF Next, Fail, Service

(* The queues, the reader and the server keep to their types.  Most of all the    *)
(* server never believes in fewer credits than the client spends: its window      *)
(* does not become negative (smb2_write_to_socket).                            *)
THEOREM TypeCorrect == Spec => []TypeOK
<1>1. Init => FlagsInv
  BY DEF Init, FlagsInv
<1>2. Inv /\ FlagsInv /\ [Next]_vars => FlagsInv'
  BY FlagsStep DEF Inv
<1>3. Inv /\ FlagsInv /\ CreditsInv => TypeOK
  BY DEF Inv, TypeInv, Call1, FlagsInv, CreditsInv, TypeOK
<1> QED BY <1>1, <1>2, <1>3, InvHolds, CreditsHold, PTL DEF Spec
-----------------------------------------------------------------------------
(* Credits for the next call.  Where no call is given up there is one chain at   *)
(* a time: it is queued, or owed an answer, or its answers are on their way, and   *)
(* all is settled when its callback runs.                                     *)
Calm == ~(Faults \/ Timeouts \/ Signed)
LastPdus == {p \in waitqueue : p.last}
Settled == inbox = {} /\ replies = <<>> /\ LastPdus = {}

OneChain ==
  Calm =>
    /\ ~torn
    /\ outqueue # <<>> => Len(outqueue) = 1 /\ Settled /\ pdu = NoPdu
    /\ waiting = 0 => outqueue = <<>> /\ Settled /\ pdu = NoPdu
    /\ pdu # NoPdu /\ pdu.last => Settled
    /\ \A r, s \in inbox : r = s
    /\ inbox # {} => pdu = NoPdu /\ \A i \in DOMAIN replies : replies[i].pending
    /\ \A p, q \in LastPdus : p = q
    /\ \A r \in inbox, p \in LastPdus : p.mid = MidOf(r, r.n)
    /\ \A i \in DOMAIN replies, p \in LastPdus :
         ~replies[i].pending /\ p.mid = replies[i].mid => i = Len(replies)

LEMMA CalmStays == [Next]_vars => Calm' = Calm /\ Generous' = Generous
BY SetupStays DEF Calm, Faults, Timeouts, Signed, Generous

(* The one chain of a call that is made when nothing is queued.                *)
LEMMA QueuesOne ==
  ASSUME TypeInv, outqueue = <<>>, Len(calls) < MaxCalls, NEW kind \in Kinds, NEW made,
         Enqueue(kind, made)
  PROVE  /\ Len(outqueue') = 1 /\ outqueue' # <<>>
         /\ Head(outqueue').n = LengthOf(kind) /\ Head(outqueue').charge \in ChargeOf(kind)
         /\ Head(outqueue').ask = Ask
         /\ waiting' = Len(made) + 1
<1>1. PICK charge \in ChargeOf(kind) :
        /\ outqueue' = Append(outqueue,
             [call |-> Len(made) + 1, mid |-> messageId, n |-> LengthOf(kind), charge |-> charge,
              ask |-> Ask, begun |-> FALSE])
        /\ waiting' = Len(made) + 1
  BY DEF Enqueue
<1> DEFINE chain == [call |-> Len(made) + 1, mid |-> messageId, n |-> LengthOf(kind),
                     charge |-> charge, ask |-> Ask, begun |-> FALSE]
<1>2. outqueue' = Append(<<>>, chain)
  BY <1>1
<1>3. chain.n = LengthOf(kind) /\ chain.charge = charge /\ chain.ask = Ask
  OBVIOUS
<1> HIDE DEF chain
<1>4. outqueue' = <<chain>>
  BY <1>2
<1>5. Len(outqueue') = 1 /\ outqueue' # <<>> /\ Head(outqueue') = chain
  BY <1>4
<1> QED BY <1>1, <1>3, <1>5

(* The last PDU of a chain has the last of its ids.                            *)
LEMMA LastMid ==
  ASSUME NEW chain, NEW p \in PdusOf(chain), p.last
  PROVE  p.mid = MidOf(chain, chain.n)
<1>1. PICK k \in 1 .. chain.n :
        p = [call |-> chain.call, mid |-> MidOf(chain, k), charge |-> chain.charge,
             last |-> k = chain.n]
  BY DEF PdusOf
<1> QED BY <1>1

LEMMA WriteOneChain ==
  ASSUME TypeInv, OneChain, Calm, Calm' = Calm, WriteRest
  PROVE  /\ OneChain' /\ outqueue' = <<>>
         /\ \A r \in inbox' : r.ask = Head(outqueue).ask
<1> USE DEF caller, server
<1> DEFINE chain == Head(outqueue)
           new == [mid |-> chain.mid, n |-> chain.n, charge |-> chain.charge, ask |-> chain.ask,
                   interim |-> FALSE]
<1>1. /\ waiting # 0 /\ outqueue # <<>> /\ Len(outqueue) = 1 /\ Settled /\ pdu = NoPdu /\ ~torn
  BY DEF OneChain, WriteRest
<1>2. chain \in Chain /\ Tail(outqueue) = <<>>
  BY <1>1, HeadType
<1>3. /\ outqueue' = <<>> /\ waitqueue' = waitqueue \cup PdusOf(chain) /\ inbox' = {new}
      /\ replies' = <<>> /\ UNCHANGED <<pdu, waiting, torn>>
  BY <1>1, <1>2 DEF WriteRest, Settled
<1>4. new.n = chain.n /\ new.ask = chain.ask /\ \A k : MidOf(new, k) = MidOf(chain, k)
  BY DEF MidOf
<1> HIDE DEF chain, new
<1>5. LastPdus' \subseteq {p \in PdusOf(chain) : p.last}
  BY <1>1, <1>3 DEF LastPdus, Settled
<1>6. \A p, q \in LastPdus' : p = q
  BY <1>2, <1>5, PdusLemma
<1>7. \A p \in LastPdus' : p.mid = MidOf(chain, chain.n)
  BY <1>5, LastMid
<1>8. DOMAIN replies' = {}
  BY <1>3
<1>9. \A r \in inbox' : r.ask = chain.ask
  BY <1>3, <1>4
<1>10. OneChain'
  BY <1>1, <1>3, <1>4, <1>6, <1>7, <1>8 DEF OneChain
<1> QED BY <1>3, <1>9, <1>10 DEF chain

LEMMA HeaderOneChain ==
  ASSUME TypeInv, ReadInv, AnswerInv, OneChain, Calm, Calm' = Calm, Timeouts' = Timeouts, ReadHeader
  PROVE  OneChain'
<1> USE DEF caller, server
<1> DEFINE reply == replies[1]
<1>1. /\ replies # <<>> /\ Len(replies) \in Nat /\ DOMAIN replies = 1 .. Len(replies)
      /\ Head(replies) = reply /\ 1 \in DOMAIN replies
      /\ replies' = Tail(replies) /\ Len(replies') = Len(replies) - 1
      /\ DOMAIN replies' = 1 .. Len(replies) - 1
      /\ \A i \in DOMAIN replies' : replies'[i] = replies[i + 1]
  BY HeadTailProperties DEF ReadHeader, TypeInv
<1>2. phase' # "jammed"
  BY HeaderAnswers DEF Calm
<1>3. /\ waiting # 0 /\ pdu = NoPdu /\ outqueue = <<>> /\ UNCHANGED <<outqueue, inbox, torn>>
      /\ ~torn /\ UNCHANGED waiting
  BY <1>1, <1>2 DEF ReadHeader, ReadInv, OneChain, Settled
<1>4. \A i \in DOMAIN replies' : i + 1 \in DOMAIN replies /\ (i + 1 = Len(replies) => i = Len(replies'))
  BY <1>1
<1>5. CASE reply.pending
  <2>1. UNCHANGED <<waitqueue, pdu>>
    BY <1>1, <1>5 DEF ReadHeader
  <2>2. LastPdus' = LastPdus
    BY <2>1 DEF LastPdus
  <2>3. \A i \in DOMAIN replies', p \in LastPdus' :
          ~replies'[i].pending /\ p.mid = replies'[i].mid => i = Len(replies')
    BY <1>1, <1>4, <2>2 DEF OneChain
  <2>4. inbox' # {} => \A i \in DOMAIN replies' : replies'[i].pending
    BY <1>1, <1>3, <1>4 DEF OneChain
  <2> QED BY <1>3, <2>1, <2>2, <2>3, <2>4 DEF OneChain
<1>6. CASE ~reply.pending
  <2>1. PICK p \in waitqueue : p.mid = reply.mid /\ waitqueue' = waitqueue \ {p} /\ pdu' = p
    BY <1>1, <1>2, <1>6 DEF ReadHeader
  <2>2. inbox = {}
    BY <1>1, <1>6 DEF OneChain
  <2>3. LastPdus' \subseteq LastPdus
    BY <2>1 DEF LastPdus
  <2>4. CASE p.last
    <3>1. p \in LastPdus
      BY <2>4 DEF LastPdus
    <3>2. 1 = Len(replies)
      BY <1>1, <1>6, <2>1, <3>1 DEF OneChain
    <3>3. replies' = <<>>
      <4>1. replies' \in Seq(Reply) /\ Len(replies') = 0
        BY <1>1, <3>2, HeadTailProperties DEF TypeInv
      <4> QED BY <4>1, EmptySeq
    <3>4. LastPdus' = {}
      BY <2>1, <2>3, <3>1 DEF OneChain, LastPdus
    <3>5. Settled' /\ DOMAIN replies' = {}
      BY <1>3, <2>2, <3>3, <3>4 DEF Settled
    <3> QED BY <1>3, <2>2, <3>4, <3>5 DEF OneChain
  <2>5. CASE ~p.last
    <3>1. ~(pdu' # NoPdu /\ pdu'.last)
      BY <2>1, <2>5
    <3>2. \A i \in DOMAIN replies', q \in LastPdus' :
            ~replies'[i].pending /\ q.mid = replies'[i].mid => i = Len(replies')
      BY <1>1, <1>4, <2>3 DEF OneChain
    <3> QED BY <1>3, <2>2, <2>3, <3>1, <3>2 DEF OneChain
  <2> QED BY <2>4, <2>5
<1> QED BY <1>5, <1>6

LEMMA BodyOneChain ==
  ASSUME TypeInv, ReadInv, OneChain, Calm, Calm' = Calm, ReadBody
  PROVE  OneChain'
<1> USE DEF caller, server
<1>1. /\ pdu # NoPdu /\ waiting # 0 /\ outqueue = <<>> /\ ~torn /\ inbox = {}
      /\ pdu' = NoPdu /\ UNCHANGED <<waitqueue, torn, inbox, replies>>
  BY DEF ReadBody, ReadInv, OneChain
<1>2. LastPdus' = LastPdus /\ Settled' = Settled
  BY <1>1 DEF LastPdus, Settled
<1>3. \/ outqueue' = <<>> /\ (waiting' = 0 => pdu.last)
      \/ pdu.last /\ Len(outqueue') = 1 /\ outqueue' # <<>> /\ waiting' # 0
  <2> DEFINE made == Fired(calls, IF pdu.last THEN {pdu.call} ELSE {})
             ends == pdu.last /\ pdu.call = waiting
  <2>1. \/ waiting' = (IF ends THEN 0 ELSE waiting) /\ outqueue' = outqueue
        \/ ends /\ calls[pdu.call].kind = "write" /\ Len(calls) < MaxCalls /\ Enqueue("write", made)
    BY DEF ReadBody
  <2>2. CASE waiting' = (IF ends THEN 0 ELSE waiting) /\ outqueue' = outqueue
    BY <1>1, <2>2
  <2>3. CASE ends /\ calls[pdu.call].kind = "write" /\ Len(calls) < MaxCalls /\ Enqueue("write", made)
    <3>1. pdu.call \in DOMAIN calls
      BY <1>1, <2>3 DEF TypeInv
    <3>2. "write" \in Kinds
      <4>1. calls[pdu.call] \in Call1
        BY <3>1 DEF TypeInv
      <4> QED BY <2>3, <4>1 DEF Call1
    <3>3. Len(made) = Len(calls) /\ Len(calls) \in Nat
      BY FiredType DEF TypeInv
    <3> HIDE DEF made
    <3> QED BY <1>1, <2>3, <3>2, <3>3, QueuesOne
  <2> QED BY <2>1, <2>2, <2>3
<1>4. pdu.last => Settled
  BY <1>1 DEF OneChain
<1> QED BY <1>1, <1>2, <1>3, <1>4 DEF OneChain
LEMMA ServeOneChain ==
  ASSUME TypeInv, OneChain, Calm, Calm' = Calm,
         NEW request \in inbox, ServerPends(request) \/ ServerAnswers(request)
  PROVE  OneChain' /\ outqueue' = <<>>
<1> USE DEF caller, server
<1>1. /\ waiting # 0 /\ pdu = NoPdu /\ outqueue = <<>> /\ ~torn
      /\ \A i \in DOMAIN replies : replies[i].pending
      /\ inbox = {request}
      /\ \A p \in LastPdus : p.mid = MidOf(request, request.n)
  BY DEF OneChain, Settled
<1>2. UNCHANGED <<waiting, pdu, outqueue, torn, waitqueue>> /\ LastPdus' = LastPdus
  BY DEF ServerPends, ServerAnswers, LastPdus
<1>3. request \in Request /\ request.n \in Nat
  BY LimitsAssumption DEF TypeInv, Request
<1>4. \A p, q \in LastPdus : p = q
  BY DEF OneChain
<1>5. CASE ServerPends(request)
  <2> DEFINE left == [request EXCEPT !.interim = TRUE, !.ask = 0]
  <2>1. inbox' = {left}
    BY <1>1, <1>5 DEF ServerPends
  <2>2. left.n = request.n /\ left.mid = request.mid /\ left.charge = request.charge
    BY <1>3 DEF Request
  <2>3. MidOf(left, left.n) = MidOf(request, request.n)
    BY <2>2 DEF MidOf
  <2> HIDE DEF left
  <2>4. PICK note \in Reply : note.pending /\ replies' = Append(replies, note)
    <3>1. PICK g \in Grants(request.ask) :
            replies' = Append(replies,
              [mid |-> request.mid, pending |-> TRUE, grant |-> g, chained |-> FALSE])
      BY <1>5 DEF ServerPends
    <3>2. g \in Nat /\ request.mid \in Nat
      BY <1>3, GrantsType DEF Request
    <3> DEFINE r == [mid |-> request.mid, pending |-> TRUE, grant |-> g, chained |-> FALSE]
    <3>3. r \in Reply /\ r.pending
      BY <3>2 DEF Reply
    <3> QED BY <3>1, <3>3
  <2>5. \A i \in DOMAIN replies' : replies'[i].pending
    BY <1>1, <2>4, AppendProperties DEF TypeInv
  <2> QED BY <1>1, <1>2, <1>4, <2>1, <2>3, <2>5 DEF OneChain
<1>6. CASE ServerAnswers(request)
  <2>1. inbox' = {}
    BY <1>1, <1>6 DEF ServerAnswers
  <2>2. PICK g \in Grants(request.ask), together \in BOOLEAN :
          replies' = replies \o [k \in 1 .. request.n |->
              [mid |-> MidOf(request, k), pending |-> FALSE,
               grant |-> IF k = 1 THEN g ELSE 0, chained |-> together /\ k < request.n]]
    BY <1>6 DEF ServerAnswers
  <2> DEFINE answer == [k \in 1 .. request.n |->
              [mid |-> MidOf(request, k), pending |-> FALSE,
               grant |-> IF k = 1 THEN g ELSE 0, chained |-> together /\ k < request.n]]
             old == Len(replies)
  <2>3. answer \in Seq(Reply) /\ Len(answer) = request.n
    BY <1>3, <2>2, GrantsType, AnswerType DEF Request
  <2>4. \A k \in 1 .. request.n : answer[k].mid = MidOf(request, k)
    OBVIOUS
  <2>5. replies' = replies \o answer
    BY <2>2
  <2> HIDE DEF answer
  <2>6. /\ old \in Nat /\ DOMAIN replies = 1 .. old /\ DOMAIN replies' = 1 .. old + request.n
        /\ Len(replies') = old + request.n
        /\ \A i \in 1 .. old : replies'[i] = replies[i]
        /\ \A i \in 1 .. old + request.n : i > old => replies'[i] = answer[i - old]
    <3>1. replies \in Seq(Reply) /\ old \in Nat /\ request.n \in Nat
      BY <1>3 DEF TypeInv, Request
    <3>2. /\ DOMAIN replies = 1 .. old /\ DOMAIN replies' = 1 .. old + Len(answer)
          /\ Len(replies') = old + Len(answer)
          /\ \A i \in 1 .. old : replies'[i] = replies[i]
          /\ \A i \in 1 .. old + Len(answer) : i > old => replies'[i] = answer[i - old]
      <4>1. replies \in Seq(Reply) /\ answer \in Seq(Reply)
        BY <2>3, <3>1
      <4>2. Joins(replies, answer, replies \o answer)
        BY <4>1, Joined, Zenon
      <4>3. Joins(replies, answer, replies')
        BY <2>5, <4>2, Zenon
      <4> QED BY <4>3, Zenon DEF Joins
    <3> HIDE DEF old
    <3> QED BY <2>3, <3>1, <3>2
  <2> HIDE DEF old
  <2>7. ASSUME NEW i \in DOMAIN replies', NEW p \in LastPdus,
               ~replies'[i].pending, p.mid = replies'[i].mid
        PROVE  i = Len(replies')
    <3>1. i > old /\ i \in 1 .. old + request.n
      BY <1>1, <2>6, <2>7
    <3>2. i - old \in 1 .. request.n
      BY <1>3, <2>6, <3>1
    <3>3. replies'[i].mid = MidOf(request, i - old)
      BY <2>4, <2>6, <3>1, <3>2
    <3>4. MidOf(request, request.n) = MidOf(request, i - old)
      BY <1>1, <2>7, <3>3
    <3>5. request.n \in 1 .. request.n
      BY <1>3, <3>2
    <3>6. request.n = i - old
      BY <3>2, <3>4, <3>5, RequestMids
    <3> QED BY <1>3, <2>6, <3>1, <3>6
  <2> QED BY <1>1, <1>2, <1>4, <2>1, <2>7 DEF OneChain
<1> QED BY <1>1, <1>2, <1>5, <1>6

LEMMA OneChainStep ==
  ASSUME TypeInv, ReadInv, AnswerInv, OneChain, [Next]_vars
  PROVE  OneChain'
<1> USE DEF reader, caller, server
<1>0. Calm' = Calm /\ Timeouts' = Timeouts
  BY CalmStays, SetupStays DEF Timeouts
<1> SUFFICES ASSUME Calm PROVE OneChain'
  BY <1>0 DEF OneChain
<1>1. ASSUME UNCHANGED <<torn, outqueue, waiting, pdu, waitqueue, inbox, replies>>
      PROVE  OneChain'
  BY <1>0, <1>1 DEF OneChain, Settled, LastPdus
<1>2. CASE UNCHANGED vars
  BY <1>1, <1>2 DEF vars
<1>3. ASSUME NEW kind \in Kinds, Call(kind)
      PROVE  OneChain'
  <2>1. /\ outqueue = <<>> /\ Settled /\ pdu = NoPdu /\ ~torn /\ Len(calls) < MaxCalls
        /\ Enqueue(kind, calls) /\ UNCHANGED <<torn, pdu, waitqueue, inbox, replies>>
    BY <1>3 DEF Call, OneChain
  <2>2. Len(outqueue') = 1 /\ waiting' # 0
    <3>1. Len(calls) \in Nat
      BY DEF TypeInv
    <3> QED BY <2>1, <3>1, QueuesOne
  <2>3. Settled' /\ LastPdus' = LastPdus
    BY <2>1 DEF Settled, LastPdus
  <2> QED BY <1>0, <2>1, <2>2, <2>3 DEF OneChain, Settled
<1>4. CASE Fail \/ ReadFails
  BY <1>4 DEF Fail, ReadFails, PollFails, SocketFails, TimeOut, Verified, Calm
<1>5. CASE Destroy
  <2>1. /\ outqueue = <<>> /\ Settled /\ pdu = NoPdu /\ ~torn
        /\ outqueue' = <<>> /\ waitqueue' = {} /\ pdu' = NoPdu
        /\ UNCHANGED <<torn, waiting, inbox, replies>>
    BY <1>5 DEF Destroy, OneChain
  <2>2. LastPdus' = {} /\ Settled'
    BY <2>1 DEF LastPdus, Settled
  <2> QED BY <1>0, <2>1, <2>2 DEF OneChain, Settled
<1>6. CASE WritePart
  <2>1. /\ outqueue # <<>> /\ outqueue' = [outqueue EXCEPT ![1].begun = TRUE] /\ waiting # 0
        /\ UNCHANGED <<torn, waiting, pdu, waitqueue, inbox, replies>>
    BY <1>6 DEF WritePart
  <2>2. Len(outqueue') = Len(outqueue)
    BY <2>1 DEF TypeInv
  <2>3. Settled' = Settled /\ LastPdus' = LastPdus
    BY <2>1 DEF Settled, LastPdus
  <2> QED BY <1>0, <2>1, <2>2, <2>3 DEF OneChain
<1>7. CASE WriteRest
  BY <1>0, <1>7, WriteOneChain
<1>8. CASE ReadHeader
  BY <1>0, <1>8, HeaderOneChain
<1>9. CASE ReadPauses
  BY <1>1, <1>9 DEF ReadPauses
<1>10. CASE ReadBody
  BY <1>0, <1>10, BodyOneChain
<1>11. CASE Serve
  BY <1>0, <1>11, ServeOneChain DEF Serve
<1> QED
  BY <1>2, <1>3, <1>4, <1>5, <1>6, <1>7, <1>8, <1>9, <1>10, <1>11
  DEF Next, Service
(* The credits that a context needs to keep a chain of each kind affordable: the    *)
(* largest compound leaves enough to be granted for the next one.             *)
RoomForChains ==
  /\ ChainLength <= ServerCap
  /\ 2 * ChainLength <= MaxCredits /\ MaxCharge + ChainLength <= MaxCredits
  /\ \A s \in Setups :
       s.generous /\ ~(s.faults \/ s.timeouts \/ s.signed) => ChainLength <= s.start

(* The chain that is queued asks for what it leaves the client short of, and can    *)
(* be paid for; what the server holds or was asked for pays for a compound.      *)
Paid(cost) == cost \in Nat /\ cost <= credits /\ (cost <= ChainLength \/ cost <= MaxCharge)
StallInv ==
  Calm /\ Generous =>
    /\ outqueue # <<>> => Head(outqueue).ask = Ask /\ Paid(ChainCharge(Head(outqueue)))
    /\ outqueue = <<>> /\ inbox = {} => ChainLength <= window
    /\ \A r \in inbox : ChainLength <= window + r.ask

(* Nothing is on its way: the client holds what the server believes.             *)
LEMMA SettledCredits ==
  ASSUME CreditsInv, ~torn, Settled, credits \in Nat
  PROVE  credits = window
<1>1. replies = <<>> /\ <<>> \in Seq(Reply) /\ Len(<<>>) = 0
  BY DEF Settled
<1>2. Granted(<<>>) = 0
  BY <1>1, GrantedSums
<1> QED BY <1>1, <1>2 DEF CreditsInv, CreditsAgree

LEMMA QueuesPaid ==
  ASSUME TypeInv, CreditsInv, ~torn, Settled, outqueue = <<>>, Len(calls) < MaxCalls,
         ChainLength <= window, credits' = credits,
         NEW kind \in Kinds, NEW made, Enqueue(kind, made)
  PROVE  /\ outqueue' # <<>> /\ Head(outqueue').ask = Ask
         /\ Paid(ChainCharge(Head(outqueue')))
<1> DEFINE chain == Head(outqueue')
<1>1. /\ outqueue' # <<>> /\ chain.n = LengthOf(kind) /\ chain.charge \in ChargeOf(kind)
      /\ chain.ask = Ask
  BY QueuesOne
<1>2. credits = window /\ credits \in Nat
  BY SettledCredits DEF TypeInv
<1> HIDE DEF chain
<1> DEFINE cost == ChainCharge(chain)
<1>4. ASSUME kind = "write" PROVE Paid(cost)
  <2>1. PICK c \in 1 .. MaxCharge : chain.charge = AtMost(c, credits) /\ chain.n = 1
    BY <1>1, <1>4 DEF ChargeOf, LengthOf
  <2>2. chain.charge \in Nat /\ chain.charge <= credits /\ chain.charge <= MaxCharge
    BY <1>2, <2>1, LimitsAssumption DEF AtMost
  <2>3. cost = chain.charge
    BY <2>1, <2>2 DEF ChainCharge
  <2> HIDE DEF cost
  <2> QED BY <2>2, <2>3 DEF Paid
<1>5. ASSUME kind # "write" PROVE Paid(cost)
  <2>1. chain.charge = 1 /\ chain.n \in Nat /\ chain.n <= ChainLength
    BY <1>1, <1>5, LimitsAssumption DEF ChargeOf, LengthOf
  <2>2. cost = chain.n
    BY <2>1 DEF ChainCharge
  <2> HIDE DEF cost
  <2> QED BY <1>2, <2>1, <2>2, LimitsAssumption DEF Paid
<1> QED BY <1>1, <1>4, <1>5 DEF chain

(* A generous server brings its window up to what it was asked for, or to its cap.   *)
LEMMA ServesEnough ==
  ASSUME Generous, RoomForChains, window \in Nat, NEW ask \in Nat, NEW g \in Grants(ask),
         ChainLength <= window + ask
  PROVE  ChainLength <= window + g
<1> DEFINE room == IF window < ServerCap THEN ServerCap - window ELSE 0
<1>1. g = AtMost(ask, room)
  BY DEF Grants
<1>2. room \in Nat /\ ServerCap <= window + room
  BY LimitsAssumption
<1> HIDE DEF room
<1>3. g = ask \/ g = room
  BY <1>1 DEF AtMost
<1> QED BY <1>2, <1>3, LimitsAssumption DEF RoomForChains

LEMMA WriteLeavesEnough ==
  ASSUME TypeInv, CreditsInv, RoomForChains, OneChain, StallInv, Calm, Generous, WriteRest
  PROVE  ChainLength <= window' + Head(outqueue).ask
<1> USE DEF caller, server
<1> DEFINE cost == ChainCharge(Head(outqueue))
           ask == Head(outqueue).ask
<1>1. outqueue # <<>> /\ Settled /\ ~torn /\ window' = window - cost
  BY DEF OneChain, WriteRest
<1>2. ask = Ask /\ Paid(cost)
  BY <1>1 DEF StallInv
<1>3. credits = window /\ credits \in Nat
  BY <1>1, SettledCredits DEF TypeInv
<1> HIDE DEF cost, ask
<1>4. /\ cost \in Nat /\ cost <= credits
      /\ cost + ChainLength <= MaxCredits
  BY <1>2, LimitsAssumption DEF Paid, RoomForChains
<1>5. CASE credits <= MaxCredits
  BY <1>1, <1>2, <1>3, <1>4, <1>5, LimitsAssumption DEF Ask, ask
<1>6. CASE ~(credits <= MaxCredits)
  BY <1>1, <1>2, <1>3, <1>4, <1>6, LimitsAssumption DEF Ask, RoomForChains, ask
<1> QED BY <1>5, <1>6

LEMMA StallStep ==
  ASSUME TypeInv, ReadInv, AnswerInv, CreditsInv, RoomForChains, OneChain, StallInv, [Next]_vars
  PROVE  StallInv'
<1> USE DEF reader, caller, server
<1>0. Calm' = Calm /\ Generous' = Generous /\ Timeouts' = Timeouts
  BY CalmStays, SetupStays DEF Timeouts
<1> SUFFICES ASSUME Calm, Generous PROVE StallInv'
  BY <1>0 DEF StallInv
<1>1. ASSUME UNCHANGED <<credits, outqueue, inbox, window>>
      PROVE  StallInv'
  BY <1>0, <1>1 DEF StallInv, Ask, Paid, ChainCharge
<1>2. CASE UNCHANGED vars
  BY <1>1, <1>2 DEF vars
<1>3. ASSUME NEW kind \in Kinds, Call(kind)
      PROVE  StallInv'
  <2>1. /\ outqueue = <<>> /\ Settled /\ ~torn /\ Len(calls) < MaxCalls
        /\ Enqueue(kind, calls) /\ UNCHANGED <<credits, inbox, window>>
    BY <1>3 DEF Call, OneChain
  <2>2. ChainLength <= window /\ inbox' = {}
    BY <2>1 DEF StallInv, Settled
  <2>3. /\ outqueue' # <<>> /\ Head(outqueue').ask = Ask
        /\ Paid(ChainCharge(Head(outqueue')))
    BY <2>1, <2>2, QueuesPaid
  <2> QED BY <2>1, <2>2, <2>3 DEF StallInv, Ask, Paid, ChainCharge
<1>4. CASE Fail \/ ReadFails
  BY <1>4 DEF Fail, ReadFails, PollFails, SocketFails, TimeOut, Verified, Calm
<1>5. CASE Destroy
  <2>1. outqueue = <<>> /\ outqueue' = <<>> /\ UNCHANGED <<inbox, window>>
    BY <1>5 DEF Destroy, OneChain
  <2> QED BY <2>1 DEF StallInv
<1>6. CASE WritePart
  <2>1. /\ outqueue # <<>> /\ outqueue' = [outqueue EXCEPT ![1].begun = TRUE]
        /\ UNCHANGED <<credits, inbox, window>>
    BY <1>6 DEF WritePart
  <2>2. Head(outqueue) \in Chain /\ 1 \in DOMAIN outqueue /\ Head(outqueue) = outqueue[1]
    BY <2>1, HeadType
  <2>3. /\ outqueue' # <<>> /\ Head(outqueue').ask = Head(outqueue).ask
        /\ Head(outqueue').n = Head(outqueue).n /\ Head(outqueue').charge = Head(outqueue).charge
    <3>1. /\ outqueue' \in Seq(Chain) /\ Len(outqueue') = Len(outqueue)
          /\ outqueue'[1] = [outqueue[1] EXCEPT !.begun = TRUE]
      <4>1. [outqueue[1] EXCEPT !.begun = TRUE] \in Chain
        BY <2>2 DEF Chain
      <4> QED BY <2>1, <2>2, <4>1 DEF TypeInv
    <3>2. outqueue' # <<>> /\ Head(outqueue') = outqueue'[1]
      BY <2>1, <3>1, HeadType
    <3> QED BY <2>2, <3>1, <3>2 DEF Chain
  <2>4. ChainCharge(Head(outqueue')) = ChainCharge(Head(outqueue))
    BY <2>3 DEF ChainCharge
  <2>5. /\ Head(outqueue).ask = Ask /\ Paid(ChainCharge(Head(outqueue)))
        /\ \A r \in inbox : ChainLength <= window + r.ask
    BY <2>1 DEF StallInv
  <2>6. Ask' = Ask /\ \A c : Paid(c)' <=> Paid(c)
    BY <2>1 DEF Ask, Paid
  <2> QED BY <2>1, <2>3, <2>4, <2>5 DEF StallInv, Ask, Paid, ChainCharge
<1>7. CASE WriteRest
  <2>1. /\ outqueue' = <<>>
        /\ \A r \in inbox' : r.ask = Head(outqueue).ask
    BY <1>0, <1>7, WriteOneChain
  <2>2. inbox' # {}
    BY <1>7 DEF WriteRest, OneChain
  <2>3. ChainLength <= window' + Head(outqueue).ask
    BY <1>7, WriteLeavesEnough
  <2> QED BY <2>1, <2>2, <2>3 DEF StallInv
<1>8. CASE ReadHeader
  <2>1. outqueue = <<>> /\ UNCHANGED <<outqueue, inbox, window>>
    BY <1>8 DEF ReadHeader, OneChain, Settled
  <2> QED BY <2>1 DEF StallInv
<1>9. CASE ReadPauses
  BY <1>1, <1>9 DEF ReadPauses
<1>10. CASE ReadBody
  <2> DEFINE made == Fired(calls, IF pdu.last THEN {pdu.call} ELSE {})
             ends == pdu.last /\ pdu.call = waiting
  <2>1. /\ pdu # NoPdu /\ waiting # 0 /\ outqueue = <<>> /\ ~torn
        /\ UNCHANGED <<credits, inbox, window>>
    BY <1>10 DEF ReadBody, ReadInv, OneChain
  <2>2. \/ outqueue' = outqueue
        \/ ends /\ calls[pdu.call].kind = "write" /\ Len(calls) < MaxCalls /\ Enqueue("write", made)
    BY <1>10 DEF ReadBody
  <2>3. CASE outqueue' = outqueue
    BY <1>1, <2>1, <2>3
  <2>4. CASE ends /\ calls[pdu.call].kind = "write" /\ Len(calls) < MaxCalls /\ Enqueue("write", made)
    <3>1. Settled
      BY <2>1, <2>4 DEF OneChain
    <3>2. "write" \in Kinds
      <4>1. pdu.call \in DOMAIN calls
        BY <2>1, <2>4 DEF TypeInv
      <4>2. calls[pdu.call] \in Call1
        BY <4>1 DEF TypeInv
      <4> QED BY <2>4, <4>2 DEF Call1
    <3>3. ChainLength <= window /\ inbox' = {}
      BY <2>1, <3>1 DEF StallInv, Settled
    <3> HIDE DEF made
    <3>4. /\ outqueue' # <<>> /\ Head(outqueue').ask = Ask
          /\ Paid(ChainCharge(Head(outqueue')))
      BY <2>1, <2>4, <3>1, <3>2, <3>3, QueuesPaid
    <3> QED BY <2>1, <3>3, <3>4 DEF StallInv, Ask, Paid, ChainCharge
  <2> QED BY <2>2, <2>3, <2>4
<1>11. CASE Serve
  <2>1. PICK request \in inbox : ServerPends(request) \/ ServerAnswers(request)
    BY <1>11 DEF Serve
  <2>2. outqueue' = <<>> /\ inbox = {request}
    BY <1>0, <2>1, ServeOneChain DEF OneChain
  <2>3. request.ask \in Nat /\ request \in Request
    BY DEF TypeInv, Request
  <2>4. PICK g \in Grants(request.ask) : g \in Nat /\ window' = window + g
    BY <2>1, ServeCredits
  <2>5. ChainLength <= window'
    BY <2>3, <2>4, ServesEnough DEF StallInv, CreditsInv
  <2>6. \A r \in inbox' : r.ask = 0
    BY <2>1, <2>2, <2>3 DEF ServerPends, ServerAnswers, Request
  <2>7. window' \in Nat
    BY <2>4 DEF CreditsInv
  <2> QED BY <2>2, <2>5, <2>6, <2>7, LimitsAssumption DEF StallInv
<1> QED
  BY <1>2, <1>3, <1>4, <1>5, <1>6, <1>7, <1>8, <1>9, <1>10, <1>11
  DEF Next, Service

(* No call waits for ever for credits that nobody will grant: while calls are       *)
(* answered, the chain at the head of the queue can be paid for, from the first    *)
(* call on and after any number of them (allocate_pdu asks for the credits that     *)
(* are missing, smb2_which_events waits for them), given that the limits leave     *)
(* room for one chain more than what the largest one spends.                   *)
THEOREM CreditsSuffice ==
  ASSUME RoomForChains
  PROVE  Spec => []NoCreditStall
<1> DEFINE Stall == Inv /\ CreditsInv /\ OneChain /\ StallInv
<1>1. Init => OneChain /\ StallInv
  <2> SUFFICES ASSUME Init PROVE OneChain /\ StallInv
    OBVIOUS
  <2>1. /\ outqueue = <<>> /\ pdu = NoPdu /\ inbox = {} /\ replies = <<>> /\ ~torn
        /\ LastPdus = {} /\ window = setup.start /\ setup \in Setups
    BY DEF Init, LastPdus
  <2>2. Calm /\ Generous => ChainLength <= window
    BY <2>1 DEF Calm, Generous, Faults, Timeouts, Signed, RoomForChains
  <2>3. DOMAIN replies = {}
    BY <2>1
  <2> QED BY <2>1, <2>2, <2>3 DEF OneChain, StallInv, Settled
<1>2. Inv /\ CreditsInv /\ OneChain /\ StallInv /\ [Next]_vars => OneChain' /\ StallInv'
  BY OneChainStep, StallStep DEF Inv
<1>3. StallInv => NoCreditStall
  BY DEF StallInv, NoCreditStall, Calm, Paid
<1> QED BY <1>1, <1>2, <1>3, InvHolds, CreditsHold, PTL DEF Spec
=============================================================================
