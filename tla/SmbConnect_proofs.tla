--------------------------- MODULE SmbConnect_proofs ---------------------------
(***************************************************************************)
(* Proofs about SmbConnect, for any addresses and any number of legs: its     *)
(* type invariant, that callbacks only use memory that is theirs, that a      *)
(* handle counts as connected only over a session, that every address is      *)
(* tried before connect() fails, and that no socket is left open.            *)
(***************************************************************************)
EXTENDS SmbConnect, SequenceTheorems, TLAPS

(***************************************************************************)
(* The list of addresses.                                                  *)
(***************************************************************************)

(* A function on 1 .. n is a sequence.                                      *)
LEMMA FunctionIsSeq ==
  ASSUME NEW S, NEW n \in Nat, NEW s \in [1 .. n -> S]
  PROVE  s \in Seq(S) /\ Len(s) = n
<1>1. s \in Seq(S)
  BY SeqDef
<1>2. DOMAIN s = 1 .. Len(s) /\ Len(s) \in Nat
  BY <1>1, LenProperties
<1> QED BY <1>1, <1>2

(* Where the element at j comes from when the one at l is put right behind b.   *)
From(b, l, j) == IF j <= b THEN j ELSE IF j = b + 1 THEN l ELSE IF j <= l THEN j - 1 ELSE j

Moved(s, b, l) == InsertAt(RemoveAt(s, l), b + 1, s[l])

(* Moving an element of a sequence forward keeps its length, and pushes those   *)
(* that it passes back by one.                                               *)
LEMMA MoveForward ==
  ASSUME NEW S, NEW s \in Seq(S), NEW b \in Nat \ {0}, NEW l \in 1 .. Len(s), b + 1 < l
  PROVE  /\ Moved(s, b, l) \in [1 .. Len(s) -> S]
         /\ \A j \in 1 .. Len(s) : Moved(s, b, l)[j] = s[From(b, l, j)]
<1> DEFINE before == SubSeq(s, 1, l - 1)
           after == SubSeq(s, l + 1, Len(s))
           rest == RemoveAt(s, l)
           front == SubSeq(rest, 1, b)
           back == SubSeq(rest, b + 1, Len(rest))
<1>0. Len(s) \in Nat /\ l \in Nat /\ s[l] \in S /\ \A i \in 1 .. Len(s) : s[i] \in S
  BY LenProperties, ElementOfSeq
<1>1. before \in Seq(S) /\ Len(before) = l - 1
  BY <1>0, SubSeqProperties
<1>2. after \in Seq(S) /\ Len(after) = Len(s) - l
  BY <1>0, SubSeqProperties
<1>1a. \A i \in 1 .. l - 1 : before[i] = s[i]
  BY <1>0, SubSeqProperties
<1>2a. \A i \in 1 .. Len(s) - l : after[i] = s[l + i]
  <2>1. \A i \in 1 .. Len(s) - (l + 1) + 1 : after[i] = s[l + 1 + i - 1]
    BY <1>0, SubSeqProperties
  <2> QED BY <1>0, <2>1
<1>3. /\ rest \in Seq(S) /\ Len(rest) = Len(s) - 1
      /\ \A i \in 1 .. Len(s) - 1 : rest[i] = IF i < l THEN s[i] ELSE s[i + 1]
  <2>1. rest = before \o after
    BY DEF RemoveAt
  <2> HIDE DEF before, after, rest
  <2>2. /\ (before \o after) \in Seq(S) /\ Len(before \o after) = Len(before) + Len(after)
        /\ \A i \in 1 .. Len(before) + Len(after) :
             (before \o after)[i] = IF i <= Len(before) THEN before[i] ELSE after[i - Len(before)]
    BY <1>1, <1>2, ConcatProperties
  <2>3. ASSUME NEW i \in 1 .. Len(s) - 1
        PROVE  (before \o after)[i] = IF i < l THEN s[i] ELSE s[i + 1]
    <3>1. CASE i < l
      BY <1>0, <1>1, <1>1a, <1>2, <2>2, <3>1
    <3>2. CASE ~(i < l)
      <4>1. (before \o after)[i] = after[i - (l - 1)]
        BY <1>0, <1>1, <1>2, <2>2, <3>2
      <4>2. i - (l - 1) \in 1 .. Len(s) - l /\ l + (i - (l - 1)) = i + 1
        BY <1>0, <3>2
      <4>3. after[i - (l - 1)] = s[l + (i - (l - 1))]
        BY <1>2a, <4>2
      <4> QED BY <3>2, <4>1, <4>2, <4>3
    <3> QED BY <3>1, <3>2
  <2> QED BY <2>1, <2>2, <2>3, <1>0, <1>1, <1>2
<1>4. \A i \in 1 .. Len(rest) : rest[i] \in S
  BY <1>3, ElementOfSeq
<1>5. front \in Seq(S) /\ Len(front) = b
  BY <1>0, <1>3, <1>4, SubSeqProperties
<1>6. back \in Seq(S) /\ Len(back) = Len(s) - 1 - b
  BY <1>0, <1>3, <1>4, SubSeqProperties
<1>5a. \A i \in 1 .. b : front[i] = rest[i]
  BY <1>0, <1>3, <1>4, SubSeqProperties
<1>6a. \A i \in 1 .. Len(s) - 1 - b : back[i] = rest[b + i]
  <2>1. \A i \in 1 .. Len(rest) - (b + 1) + 1 : back[i] = rest[b + 1 + i - 1]
    BY <1>0, <1>3, <1>4, SubSeqProperties
  <2> QED BY <1>0, <1>3, <2>1
<1>7. (b + 1) - 1 = b
  OBVIOUS
<1>8. InsertAt(rest, b + 1, s[l]) = (front \o <<s[l]>>) \o back
  <2> HIDE DEF rest
  <2> QED BY <1>7, Zenon DEF InsertAt
<1> HIDE DEF front, back
<1>9. <<s[l]>> \in Seq(S) /\ Len(<<s[l]>>) = 1 /\ <<s[l]>>[1] = s[l]
  BY <1>0
<1>10. /\ (front \o <<s[l]>>) \in Seq(S)
       /\ Len(front \o <<s[l]>>) = Len(front) + Len(<<s[l]>>)
       /\ \A i \in 1 .. Len(front) + Len(<<s[l]>>) : (front \o <<s[l]>>)[i] =
            IF i <= Len(front) THEN front[i] ELSE <<s[l]>>[i - Len(front)]
  <2> DEFINE e == <<s[l]>>
  <2> HIDE DEF e
  <2>1. /\ (front \o e) \in Seq(S) /\ Len(front \o e) = Len(front) + Len(e)
        /\ \A i \in 1 .. Len(front) + Len(e) : (front \o e)[i] =
             IF i <= Len(front) THEN front[i] ELSE e[i - Len(front)]
    BY <1>5, <1>9, ConcatProperties DEF e
  <2> QED BY <2>1 DEF e
<1> DEFINE most == front \o <<s[l]>>
<1>11. most \in Seq(S) /\ Len(most) = b + 1
  BY <1>5, <1>9, <1>10
<1>11a. (\A i \in 1 .. b : most[i] = front[i]) /\ most[b + 1] = s[l]
  <2>1. ASSUME NEW i \in 1 .. b PROVE most[i] = front[i]
    BY <1>5, <1>9, <1>10
  <2>2. b + 1 \in 1 .. Len(front) + Len(<<s[l]>>) /\ ~(b + 1 <= Len(front)) /\ (b + 1) - Len(front) = 1
    BY <1>5, <1>9
  <2>3. most[b + 1] = <<s[l]>>[(b + 1) - Len(front)]
    BY <1>10, <2>2
  <2> QED BY <1>9, <2>1, <2>2, <2>3
<1> HIDE DEF most
<1>12. /\ (most \o back) \in Seq(S) /\ Len(most \o back) = Len(most) + Len(back)
       /\ \A i \in 1 .. Len(most) + Len(back) : (most \o back)[i] =
            IF i <= Len(most) THEN most[i] ELSE back[i - Len(most)]
  BY <1>6, <1>11, ConcatProperties
<1>13. Len(most \o back) = Len(s)
  BY <1>0, <1>6, <1>11, <1>12
<1>14. (most \o back) \in [1 .. Len(s) -> S]
  BY <1>12, <1>13, LenProperties
<1>15. ASSUME NEW j \in 1 .. Len(s) PROVE (most \o back)[j] = s[From(b, l, j)]
  <2>0. Len(most) + Len(back) = Len(s) /\ l \in Nat /\ l <= Len(s)
    BY <1>0, <1>6, <1>11
  <2>1. CASE j <= b
    <3>1. j \in 1 .. b /\ j \in 1 .. Len(s) - 1 /\ j < l /\ From(b, l, j) = j
      BY <1>0, <2>0, <2>1 DEF From
    <3>2. (most \o back)[j] = most[j]
      BY <1>11, <1>12, <2>0, <2>1
    <3> QED BY <1>3, <1>5a, <1>11a, <3>1, <3>2
  <2>2. CASE j = b + 1
    BY <1>11, <1>11a, <1>12, <2>0, <2>2 DEF From
  <2>3. CASE b + 1 < j
    <3>1. (most \o back)[j] = back[j - (b + 1)]
      BY <1>11, <1>12, <2>0, <2>3
    <3>2. j - (b + 1) \in 1 .. Len(s) - 1 - b /\ b + (j - (b + 1)) = j - 1
      BY <1>0, <2>3
    <3>3. back[j - (b + 1)] = rest[j - 1]
      BY <1>6a, <3>2
    <3>4. j - 1 \in 1 .. Len(s) - 1 /\ (j - 1) + 1 = j /\ (j - 1 < l <=> j <= l)
      BY <1>0, <2>0, <2>3
    <3> HIDE DEF rest
    <3>5. rest[j - 1] = IF j <= l THEN s[j - 1] ELSE s[j]
      BY <1>3, <3>4
    <3>6. ~(j <= b) /\ j # b + 1
      BY <2>3
    <3>7. s[From(b, l, j)] = IF j <= l THEN s[j - 1] ELSE s[j]
      BY <3>6 DEF From
    <3> QED BY <3>1, <3>3, <3>5, <3>7
  <2>4. j <= b \/ j = b + 1 \/ b + 1 < j
    BY <1>0
  <2> HIDE DEF rest
  <2> QED BY <2>1, <2>2, <2>3, <2>4
<1>16. InsertAt(rest, b + 1, s[l]) = most \o back
  BY <1>8 DEF most
<1> HIDE DEF rest
<1>17. Moved(s, b, l) = most \o back
  BY <1>16 DEF rest, Moved
<1> QED BY <1>14, <1>15, <1>17

(***************************************************************************)
(* Types.  base stays before link, so that an address moves forward.        *)
(***************************************************************************)
TypeInv == TypeOK /\ base < link

(* The list is as long as what getaddrinfo found, and not empty.              *)
LEMMA ListSize ==
  ASSUME TypeOK
  PROVE  /\ N \in Nat \ {0} /\ DOMAIN families = 1 .. N /\ Len(families) = N
         /\ order \in Seq(DOMAIN families)
<1>1. families \in Seq({"inet", "inet6", "other"}) /\ families # <<>>
  BY FoundAssumption DEF TypeOK
<1>2. Len(families) \in Nat \ {0} /\ DOMAIN families = 1 .. Len(families)
  BY <1>1
<1>3. order \in Seq(DOMAIN families) /\ Len(order) = Len(families)
  BY <1>2, FunctionIsSeq DEF TypeOK
<1> QED BY <1>2, <1>3 DEF N

(* The initial states have the types.                                       *)
LEMMA TypeInit == Init => TypeInv
<1> SUFFICES ASSUME Init PROVE TypeInv
  OBVIOUS
<1>1. families \in Seq({"inet", "inet6", "other"}) /\ families # <<>>
  BY FoundAssumption DEF Init
<1>2. Len(families) \in Nat \ {0} /\ DOMAIN families = 1 .. Len(families)
  BY <1>1
<1>3. order \in [1 .. Len(families) -> 1 .. Len(families)]
  BY <1>2 DEF Init
<1>4. Len(order) = Len(families)
  BY <1>2, <1>3, FunctionIsSeq
<1>5. N \in Nat \ {0} /\ DOMAIN families = 1 .. N /\ Positions = 1 .. N
  BY <1>2, <1>4 DEF N, Positions
<1>6. order \in [DOMAIN families -> DOMAIN families]
  BY <1>2, <1>3
<1>7. base \in 1 .. N + 1 /\ link \in 1 .. N + 1 /\ base < link
  BY <1>5 DEF Init
<1>8. sockets \in [Positions -> SocketStates]
  BY <1>5 DEF Init, SocketStates
<1>9. trying \in 0 .. N /\ next \in 0 .. N /\ fd \in 0 .. N /\ legs \in 0 .. MaxLegs
  BY <1>5, LegsAssumption DEF Init
<1> QED BY <1>6, <1>7, <1>8, <1>9 DEF Init, TypeInv, TypeOK, Commands, Handle, CbMemory

(* Reordering the list keeps its length.  (interleave_addrinfo.)             *)
LEMMA InterleaveType ==
  ASSUME TypeInv, InterleaveAddrinfo
  PROVE  TypeInv' /\ N' = N /\ Positions' = Positions
<1>1. /\ N \in Nat \ {0} /\ DOMAIN families = 1 .. N
      /\ order \in Seq(DOMAIN families) /\ Len(order) = N
  BY ListSize DEF TypeInv, N
<1>2. base \in Nat \ {0} /\ link \in 1 .. N /\ base < link
  BY <1>1 DEF TypeInv, TypeOK, InterleaveAddrinfo
<1>3. /\ order' \in [DOMAIN families -> DOMAIN families]
      /\ base' \in 1 .. N + 1 /\ base' < link'
  <2>0. order \in [DOMAIN families -> DOMAIN families] /\ link' = link + 1
    BY DEF InterleaveAddrinfo, TypeInv, TypeOK
  <2>1. CASE Family(link) = Family(base)
    <3>1. order' = order /\ base' = base
      BY <2>1 DEF InterleaveAddrinfo
    <3> QED BY <1>1, <1>2, <2>0, <3>1
  <2>2. CASE Family(link) # Family(base) /\ link = base + 1
    <3>1. order' = order /\ base' = link
      BY <2>2 DEF InterleaveAddrinfo
    <3> QED BY <1>1, <1>2, <2>0, <3>1
  <2>3. CASE Family(link) # Family(base) /\ link # base + 1
    <3>1. base + 1 < link
      BY <1>1, <1>2, <2>3
    <3>2. MovedUp \in [1 .. N -> DOMAIN families]
      BY <1>1, <1>2, <3>1, MoveForward DEF MovedUp, Moved
    <3>3. order' = MovedUp /\ base' = base + 2
      BY <2>3 DEF InterleaveAddrinfo
    <3>4. order' \in [DOMAIN families -> DOMAIN families]
      BY <1>1, <3>2, <3>3
    <3>5. base' \in 1 .. N + 1 /\ base' < link'
      BY <1>1, <1>2, <2>0, <3>1, <3>3
    <3> QED BY <3>4, <3>5
  <2> QED BY <2>1, <2>2, <2>3
<1>4. families' = families /\ link' = link + 1
  BY DEF InterleaveAddrinfo
<1>5. N' = N
  BY <1>1, <1>3, FunctionIsSeq DEF N
<1>6. Positions' = Positions
  BY <1>5 DEF Positions
<1>7. link' \in 1 .. N + 1
  BY <1>1, <1>2, <1>4
<1> QED BY <1>3, <1>4, <1>5, <1>6, <1>7 DEF TypeInv, TypeOK, InterleaveAddrinfo, tcp, talk, memory

(* A step that leaves the list alone. *)
ListStays == UNCHANGED list /\ N' = N /\ Positions' = Positions /\ N \in Nat \ {0}

(* Every other step leaves the list alone.                                  *)
LEMMA ListStaysPut ==
  ASSUME TypeInv, UNCHANGED list
  PROVE  ListStays
BY ListSize DEF TypeInv, ListStays, list, N, Positions

(* The addresses tried without success are addresses.  (smb2_connect_async_   *)
(* next_addr.)                                                             *)
LEMMA BeginsType ==
  ASSUME TypeInv, NEW s \in [Positions -> SocketStates], NEW k \in Positions
  PROVE  /\ \A l \in Positions : BeginsAt(s, k, l) =>
              sockets' \in [Positions -> SocketStates] /\ NextOf(l) \in 0 .. N
         /\ NoneBegins(s, k) => sockets' \in [Positions -> SocketStates]
<1>1. \A m, l : Dead(s, m, l) \in [Positions -> SocketStates]
  BY DEF Dead, SocketStates
<1>2. ASSUME NEW l \in Positions, BeginsAt(s, k, l)
      PROVE  sockets' \in [Positions -> SocketStates]
  <2> DEFINE d == Dead(s, k, l - 1)
  <2>1. d \in [Positions -> SocketStates]
    BY <1>1
  <2>2. sockets' = [d EXCEPT ![l] = "connecting"]
    BY <1>2 DEF BeginsAt
  <2> HIDE DEF d
  <2> QED BY <2>1, <2>2 DEF SocketStates
<1>3. ASSUME NEW l \in Positions PROVE NextOf(l) \in 0 .. N
  BY ListSize DEF TypeInv, NextOf, Positions
<1>4. NoneBegins(s, k) => sockets' \in [Positions -> SocketStates]
  BY <1>1 DEF NoneBegins
<1> QED BY <1>2, <1>3, <1>4

(* Every step keeps the types.                                              *)
LEMMA TypeStep == TypeInv /\ [Next]_vars => TypeInv'
<1> SUFFICES ASSUME TypeInv, [Next]_vars
             PROVE  TypeInv'
  OBVIOUS
<1> USE DEF TypeInv, TypeOK, SocketStates, Commands, Handle, CbMemory
<1>1. CASE Resolve
  BY <1>1, ListStaysPut DEF Resolve, ListStays, list, tcp, talk
<1>2. CASE InterleaveAddrinfo
  BY <1>2, InterleaveType
<1>3. CASE Start
  <2>0. ListStays
    BY <1>3, ListStaysPut DEF Start
  <2>1. ListStays /\ 1 \in Positions /\ Positions = 1 .. N
    BY <2>0 DEF ListStays, Positions
  <2>2. /\ sockets' \in [Positions -> SocketStates]
        /\ trying' \in 0 .. N /\ next' \in 0 .. N
    <3>1. CASE \E l \in Positions :
                 BeginsAt(sockets, 1, l) /\ trying' = l /\ next' = NextOf(l)
      BY <2>1, <3>1, BeginsType DEF ListStays
    <3>2. CASE NoneBegins(sockets, 1) /\ UNCHANGED <<trying, next>>
      BY <2>1, <3>2, BeginsType
    <3> QED BY <1>3, <3>1, <3>2 DEF Start
  <2>3. sockets' \in [Positions' -> SocketStates]
    BY <2>1, <2>2 DEF ListStays
  <2>4. pc' \in Handle /\ data' \in {"live", "freed"} \cup {data} /\ cbData' \in CbMemory
        /\ connectCb' \in BOOLEAN
    BY <1>3 DEF Start
  <2> QED BY <1>3, <2>1, <2>2, <2>3, <2>4 DEF Start, ListStays, list, talk
<1>4. CASE Network
  <2>1. ListStays
    BY <1>4, ListStaysPut DEF Network
  <2>2. sockets' \in [Positions' -> SocketStates]
    BY <1>4, <2>1 DEF Network, ListStays
  <2> QED BY <1>4, <2>1, <2>2 DEF Network, ListStays, list, talk, memory
<1>5. CASE Return
  BY <1>5, ListStaysPut DEF Return, ListStays, list, tcp, talk
<1>6. CASE GiveUp
  BY <1>6, ListStaysPut DEF GiveUp, ListStays, list, tcp, talk, Abandoned, AfterFailure
<1>7. CASE WaitFails
  BY <1>7, ListStaysPut DEF WaitFails, ListStays, list, tcp, talk, Abandoned, AfterFailure
<1>8. CASE Tick
  BY <1>8, ListStaysPut DEF Tick, ListStays, list, tcp, talk, memory
<1>9. CASE Connected
  <2>1. ListStays
    BY <1>9, ListStaysPut DEF Connected
  <2>2. sockets' \in [Positions' -> SocketStates]
    BY <1>9, <2>1 DEF Connected, ListStays
  <2>3. /\ fd' \in 0 .. N' /\ trying' \in 0 .. N' /\ next' \in 0 .. N'
        /\ connectCb' \in BOOLEAN /\ pdu' \in Commands /\ place' \in {"out", "wait", "read"}
        /\ UNCHANGED <<list, legs, tree, memory, late, pc>>
    <3>1. fd' \in 0 .. N'
      BY <1>9, <2>1 DEF Connected, ListStays
    <3>2. trying' \in 0 .. N' /\ next' \in 0 .. N'
      BY <1>9, <2>1 DEF Connected, ListStays
    <3>3. /\ connectCb' \in BOOLEAN /\ pdu' \in Commands /\ place' \in {"out", "wait", "read"}
      BY <1>9 DEF Connected, Queue
    <3>4. UNCHANGED <<list, legs, tree, memory, late, pc>>
      BY <1>9 DEF Connected
    <3> QED BY <3>1, <3>2, <3>3, <3>4
  <2> QED BY <2>1, <2>2, <2>3 DEF ListStays, list, memory
<1>10. CASE TryNext
  <2> DEFINE s == [sockets EXCEPT ![trying] = "dead"]
  <2>0. ListStays /\ N \in Nat \ {0}
    BY <1>10, ListStaysPut, ListSize DEF TryNext
  <2>1. ListStays /\ next \in Positions
    BY <1>10, <2>0 DEF TryNext, Positions
  <2>4. s \in [Positions -> SocketStates]
    OBVIOUS
  <2>2. /\ sockets' \in [Positions -> SocketStates]
        /\ trying' \in 0 .. N /\ next' \in 0 .. N
    <3>1. PICK l \in Positions : BeginsAt(s, next, l) /\ trying' = l /\ next' = NextOf(l)
      BY <1>10 DEF TryNext
    <3>2. l \in 0 .. N
      BY <2>0 DEF Positions
    <3> HIDE DEF s
    <3> QED BY <2>1, <2>4, <3>1, <3>2, BeginsType
  <2>3. sockets' \in [Positions' -> SocketStates]
    BY <2>1, <2>2 DEF ListStays
  <2> HIDE DEF s
  <2> QED BY <1>10, <2>1, <2>2, <2>3 DEF TryNext, ListStays, list, talk, memory
<1>11. CASE NoAddressLeft
  <2> DEFINE s == [sockets EXCEPT ![trying] = "dead"]
  <2>0. ListStays /\ N \in Nat \ {0}
    BY <1>11, ListStaysPut, ListSize DEF NoAddressLeft
  <2>1. ListStays /\ next \in Positions
    BY <1>11, <2>0 DEF NoAddressLeft, Positions
  <2>4. s \in [Positions -> SocketStates]
    OBVIOUS
  <2>2. sockets' \in [Positions -> SocketStates] /\ trying' \in 0 .. N
    <3>1. NoneBegins(s, next) /\ trying' = 0
      BY <1>11 DEF NoAddressLeft
    <3> HIDE DEF s
    <3> QED BY <2>0, <2>1, <2>4, <3>1, BeginsType
  <2>3. sockets' \in [Positions' -> SocketStates]
    BY <2>1, <2>2 DEF ListStays
  <2> HIDE DEF s
  <2> QED BY <1>11, <2>1, <2>2, <2>3
        DEF NoAddressLeft, ListStays, list, talk, Tell, Use, Touch, Abandoned, AfterFailure
<1>12. CASE LastAddressFails
  BY <1>12, ListStaysPut, ZenonT(60)
  DEF LastAddressFails, ListStays, list, Queue, Tell, Use, Touch, Abandoned, AfterFailure
<1>13. CASE Write
  BY <1>13, ListStaysPut DEF Write, ListStays, list, tcp, memory
<1>14. CASE Read
  BY <1>14, ListStaysPut DEF Read, ListStays, list, tcp, memory
<1>15. CASE NegotiateReply
  BY <1>15, ListStaysPut DEF NegotiateReply, Goes, Queue, ListStays, list, tcp, memory
<1>16. CASE SessionGoesOn
  BY <1>16, ListStaysPut, LegsAssumption DEF SessionGoesOn, Queue, ListStays, list, tcp, memory
<1>17. CASE SessionReply
  BY <1>17, ListStaysPut DEF SessionReply, Goes, Queue, ListStays, list, tcp, memory
<1>18. CASE SessionForged
  BY <1>18, ListStaysPut DEF SessionForged, ListStays, list, tcp, Tell, Use, Touch
<1>19. CASE Refused
  <2>1. ListStays
    BY <1>19, ListStaysPut DEF Refused
  <2>2. sockets' \in [Positions' -> SocketStates]
    BY <1>19, <2>1 DEF Refused, ListStays, CloseFd, ClosedAll
  <2>3. /\ fd' \in 0 .. N' /\ tree' \in BOOLEAN /\ pdu' \in Commands
        /\ told' \in {"neg", "zero"} /\ data' \in {"freed", "misused"} /\ cbData' \in CbMemory
        /\ UNCHANGED <<list, trying, next, connectCb, place, legs, late, pc>>
    <3>1. fd' \in 0 .. N'
      BY <1>19, <2>1 DEF Refused, CloseFd, ListStays
    <3>4. tree' \in BOOLEAN /\ pdu' \in Commands
      BY <1>19 DEF Refused, CloseFd
    <3>2. told' \in {"neg", "zero"} /\ data' \in {"freed", "misused"} /\ cbData' \in CbMemory
      BY <1>19 DEF Refused, Tell, Use, Touch
    <3>3. UNCHANGED <<list, trying, next, connectCb, place, legs, late, pc>>
      BY <1>19 DEF Refused
    <3> QED BY <3>1, <3>2, <3>3, <3>4
  <2> QED BY <2>1, <2>2, <2>3 DEF ListStays, list
<1>20. CASE TreeReply
  BY <1>20, ListStaysPut DEF TreeReply, ListStays, list, tcp, Tell, Use, Touch
<1>21. CASE TreeDisconnectReply
  <2>1. ListStays
    BY <1>21, ListStaysPut DEF TreeDisconnectReply, Goes
  <2>2. pdu' \in Commands /\ place' \in {"out", "wait", "read"} /\ tree' \in BOOLEAN
    BY <1>21 DEF TreeDisconnectReply, Goes, Queue, Commands
  <2>3. UNCHANGED <<list, tcp, legs, memory, late, pc>>
    BY <1>21 DEF TreeDisconnectReply, Goes
  <2> QED BY <2>1, <2>2, <2>3 DEF ListStays, list, tcp, memory
<1>22. CASE LogoffReply
  <2>1. ListStays
    BY <1>22, ListStaysPut DEF LogoffReply
  <2>2. sockets' \in [Positions' -> SocketStates]
    BY <1>22, <2>1 DEF LogoffReply, ListStays, CloseFd, ClosedAll
  <2>3. /\ fd' \in 0 .. N' /\ tree' \in BOOLEAN /\ pdu' \in Commands
        /\ told' \in {"neg", "zero"} /\ data' \in {"freed", "misused"} /\ cbData' \in CbMemory
        /\ UNCHANGED <<list, trying, next, connectCb, place, legs, late, pc>>
    <3>1. fd' \in 0 .. N'
      BY <1>22, <2>1 DEF LogoffReply, CloseFd, ListStays
    <3>4. tree' \in BOOLEAN /\ pdu' \in Commands
      BY <1>22 DEF LogoffReply, CloseFd
    <3>2. told' \in {"neg", "zero"} /\ data' \in {"freed", "misused"} /\ cbData' \in CbMemory
      BY <1>22 DEF LogoffReply, Tell, Use, Touch
    <3>3. UNCHANGED <<list, trying, next, connectCb, place, legs, late, pc>>
      BY <1>22 DEF LogoffReply
    <3> QED BY <3>1, <3>2, <3>3, <3>4
  <2> QED BY <2>1, <2>2, <2>3 DEF ListStays, list
<1>23. CASE Disconnect
  BY <1>23, ListStaysPut DEF Disconnect, Queue, ListStays, list, tcp
<1>24. CASE Destroy
  <2>1. ListStays
    BY <1>24, ListStaysPut DEF Destroy
  <2>2. sockets' \in [Positions' -> SocketStates]
    BY <1>24, <2>1 DEF Destroy, ListStays, CloseFd, ClosedAll
  <2>3. /\ fd' \in 0 .. N' /\ trying' \in 0 .. N' /\ next' \in 0 .. N'
        /\ tree' \in BOOLEAN /\ pdu' \in Commands /\ pc' \in Handle
        /\ data' \in {"freed", "misused"} \cup {data} /\ cbData' \in CbMemory
        /\ UNCHANGED <<list, connectCb, place, legs, told, late>>
    <3>1. fd' \in 0 .. N' /\ trying' \in 0 .. N' /\ next' \in 0 .. N'
      BY <1>24, <2>1 DEF Destroy, ListStays
    <3>2. tree' \in BOOLEAN /\ pdu' \in Commands /\ pc' \in Handle
      BY <1>24 DEF Destroy
    <3>3. data' \in {"freed", "misused"} \cup {data} /\ cbData' \in CbMemory
      BY <1>24 DEF Destroy, Use, Touch
    <3>4. UNCHANGED <<list, connectCb, place, legs, told, late>>
      BY <1>24 DEF Destroy
    <3> QED BY <3>1, <3>2, <3>3, <3>4
  <2> QED BY <2>1, <2>2, <2>3 DEF ListStays, list
<1>25. CASE UNCHANGED vars
  BY <1>25, ListStaysPut DEF vars, ListStays, list, tcp, talk, memory
<1> QED BY <1>1, <1>2, <1>3, <1>4, <1>5, <1>6, <1>7, <1>8, <1>9, <1>10, <1>11, <1>12, <1>13,
           <1>14, <1>15, <1>16, <1>17, <1>18, <1>19, <1>20, <1>21, <1>22, <1>23, <1>24, <1>25
        DEF Next, Call, Service, Server

(***************************************************************************)
(* Callbacks.  A call that waits has live data and was told nothing yet; a    *)
(* PDU is under way only while it may still call back; what was told as        *)
(* success was told over a tree.                                            *)
(***************************************************************************)
CallInv ==
  /\ data # "misused" /\ cbData # "misused"
  /\ cbData = "waiting" =>
       data = "live" /\ told = "nothing" /\ pc \in {"sort", "connect", "disconnect"}
  /\ cbData = "waiting" /\ fd = 0 => pdu = "none"
  /\ pdu # "none" => data = "live" /\ cbData \in {"waiting", "cancelled"}
  /\ pc \in {"idle", "sort"} =>
       fd = 0 /\ pdu = "none" /\ told = "nothing" /\ cbData \in {"none", "waiting"}
  /\ pc = "connect" => pdu \notin {"treedis", "logoff"}
  /\ pc = "connect" /\ cbData = "finished" => told = "neg" \/ (fd # 0 /\ tree)
  /\ pc = "up" => fd # 0 /\ tree

(* Every step keeps what is said of callbacks.                              *)
LEMMA CallStep == TypeInv /\ CallInv /\ [Next]_vars => CallInv'
<1> SUFFICES ASSUME TypeInv, CallInv, [Next]_vars
             PROVE  CallInv'
  OBVIOUS
<1> USE DEF CallInv
<1>0. data \in {"none", "live", "freed", "misused"} /\ fd \in 0 .. N /\ tree \in BOOLEAN
  BY DEF TypeInv, TypeOK
<1>1. CASE Resolve
  BY <1>1 DEF Resolve, list, tcp, talk, memory
<1>2. CASE InterleaveAddrinfo
  BY <1>2 DEF InterleaveAddrinfo, list, tcp, talk, memory
<1>3. CASE Start
  <2>1. /\ pc = "sort" /\ UNCHANGED <<fd, talk, told>>
        /\ \/ pc' = "connect" /\ UNCHANGED <<data, cbData>>
           \/ pc' = "failed" /\ data' = "freed" /\ cbData' = "freed"
    BY <1>3 DEF Start
  <2> QED BY <2>1 DEF talk
<1>4. CASE Network
  BY <1>4 DEF Network, list, tcp, talk, memory
<1>5. CASE Return
  BY <1>5 DEF Return, list, tcp, talk, memory
<1>6. CASE GiveUp
  BY <1>6 DEF GiveUp, Waits, Abandoned, AfterFailure, list, tcp, talk, memory
<1>7. CASE WaitFails
  BY <1>7 DEF WaitFails, Waits, Abandoned, AfterFailure, list, tcp, talk, memory
<1>8. CASE Tick
  BY <1>8 DEF Tick, list, tcp, talk, memory
<1>9. CASE Connected
  BY <1>9 DEF Connected, Connecting, Waits, Queue, list, tcp, talk, memory
<1>10. CASE TryNext
  BY <1>10 DEF TryNext, list, tcp, talk, memory
<1>11. CASE NoAddressLeft
  BY <1>11 DEF NoAddressLeft, Connecting, Waits, Tell, Use, Touch, Abandoned, AfterFailure, list,
        tcp, talk, memory
<1>12. CASE LastAddressFails
  BY <1>12 DEF LastAddressFails, Connecting, Waits, Queue, Tell, Use, Touch, Abandoned,
        AfterFailure, list, tcp, talk, memory
<1>13. CASE Write
  BY <1>13 DEF Write, list, tcp, talk, memory
<1>14. CASE Read
  BY <1>14 DEF Read, list, tcp, talk, memory
<1>15. CASE NegotiateReply
  BY <1>15 DEF NegotiateReply, Goes, Reply, Speaks, Waits, Queue, list, tcp, talk, memory
<1>16. CASE SessionGoesOn
  BY <1>16 DEF SessionGoesOn, Reply, Speaks, Waits, Queue, list, tcp, talk, memory
<1>17. CASE SessionReply
  BY <1>17 DEF SessionReply, Goes, Reply, Speaks, Waits, Queue, list, tcp, talk, memory
<1>18. CASE SessionForged
  BY <1>18 DEF SessionForged, Reply, Speaks, Waits, Tell, Use, Touch, list, tcp, talk, memory
<1>19. CASE Refused
  BY <1>19 DEF Refused, Reply, Speaks, Waits, CloseFd, Tell, Use, Touch, list, tcp, talk, memory
<1>20. CASE TreeReply
  BY <1>20 DEF TreeReply, Reply, Speaks, Waits, Tell, Use, Touch, list, tcp, talk, memory
<1>21. CASE TreeDisconnectReply
  BY <1>21 DEF TreeDisconnectReply, Goes, Reply, Speaks, Waits, Queue, list, tcp, talk, memory
<1>22. CASE LogoffReply
  BY <1>22 DEF LogoffReply, Reply, Speaks, Waits, CloseFd, Tell, Use, Touch, list, tcp, talk, memory
<1>23. CASE Disconnect
  BY <1>23 DEF Disconnect, Queue, list, tcp, talk, memory
<1>24. CASE Destroy
  BY <1>24 DEF Destroy, Notified, Use, Touch, list, tcp, talk, memory
<1>25. CASE UNCHANGED vars
  BY <1>25 DEF vars, list, tcp, talk, memory
<1> QED BY <1>1, <1>2, <1>3, <1>4, <1>5, <1>6, <1>7, <1>8, <1>9, <1>10, <1>11, <1>12, <1>13,
           <1>14, <1>15, <1>16, <1>17, <1>18, <1>19, <1>20, <1>21, <1>22, <1>23, <1>24, <1>25
        DEF Next, Call, Service, Server

(***************************************************************************)
(* Sockets.  An attempt is under way at trying and nowhere else, the open     *)
(* connection is fd and nothing else, and no address before trying was left    *)
(* out.                                                                    *)
(***************************************************************************)
UnderWay == {"connecting", "ready", "broken"}

OneSocket ==
  /\ \A k \in Positions : sockets[k] \in UnderWay => k = trying
  /\ \A k \in Positions : sockets[k] = "open" => k = fd
  /\ fd # 0 => sockets[fd] = "open" /\ trying = 0
  /\ trying # 0 => sockets[trying] \in UnderWay /\ next = NextOf(trying)
  /\ pc \in {"idle", "sort"} => trying = 0
  /\ pc = "destroyed" => fd = 0 /\ trying = 0

InTurn ==
  /\ trying # 0 => \A k \in Positions : sockets[k] = "untried" => k > trying
  /\ told \in {"neg", "pos"} =>
       \/ \E k \in Positions : sockets[k] \in {"open", "closed"}
       \/ \A k \in Positions : sockets[k] # "untried"

SocketInv == OneSocket /\ InTurn

(* What trying an address, or finding none, does to each socket.            *)
LEMMA BeginsEffect ==
  ASSUME TypeInv, NEW s \in [Positions -> SocketStates], NEW k \in Positions
  PROVE  /\ \A l \in Positions : BeginsAt(s, k, l) =>
              /\ k <= l
              /\ \A p \in Positions : sockets'[p] = IF p = l THEN "connecting"
                                                   ELSE IF k <= p /\ p < l THEN "dead" ELSE s[p]
         /\ NoneBegins(s, k) =>
              \A p \in Positions : sockets'[p] = IF k <= p THEN "dead" ELSE s[p]
<1>0. N \in Nat
  BY ListSize DEF TypeInv
<1>1. ASSUME NEW l \in Positions, BeginsAt(s, k, l)
      PROVE  /\ k <= l
             /\ \A p \in Positions : sockets'[p] = IF p = l THEN "connecting"
                                                  ELSE IF k <= p /\ p < l THEN "dead" ELSE s[p]
  BY <1>0, <1>1 DEF BeginsAt, Dead, Positions
<1>2. ASSUME NoneBegins(s, k)
      PROVE  \A p \in Positions : sockets'[p] = IF k <= p THEN "dead" ELSE s[p]
  BY <1>0, <1>2 DEF NoneBegins, Dead, Positions
<1> QED BY <1>1, <1>2

(* A step that leaves sockets and what was told alone.                       *)
LEMMA SocketsStay ==
  ASSUME TypeInv, SocketInv, N' = N, Positions' = Positions,
         UNCHANGED <<sockets, trying, next, fd, told>>,
         pc' \in {"idle", "sort"} => pc \in {"idle", "sort"}, pc' = "destroyed" => pc = "destroyed"
  PROVE  SocketInv'
BY DEF SocketInv, OneSocket, InTurn, NextOf

(* Every step keeps what is said of sockets.                                *)
LEMMA SocketStep == TypeInv /\ CallInv /\ SocketInv /\ [Next]_vars => SocketInv'
<1> SUFFICES ASSUME TypeInv, CallInv, SocketInv, [Next]_vars
             PROVE  SocketInv'
  OBVIOUS
<1> USE DEF SocketInv
<1>0. /\ sockets \in [Positions -> SocketStates] /\ N \in Nat \ {0}
      /\ trying \in 0 .. N /\ next \in 0 .. N /\ fd \in 0 .. N
  BY ListSize DEF TypeInv, TypeOK
<1>1. CASE Resolve
  BY <1>0, <1>1, ListStaysPut, SocketsStay DEF Resolve, ListStays, tcp, memory
<1>2. CASE InterleaveAddrinfo
  <2>1. N' = N /\ Positions' = Positions
    BY <1>0, <1>2, InterleaveType
  <2> QED BY <1>0, <1>2, <2>1, SocketsStay DEF InterleaveAddrinfo, tcp, memory
<1>3. CASE Start
  <2>0. ListStays /\ 1 \in Positions /\ pc = "sort" /\ fd = 0 /\ trying = 0 /\ told = "nothing"
    BY <1>0, <1>3, ListStaysPut, ListSize DEF Start, Positions, OneSocket, CallInv
  <2>1. CASE \E l \in Positions :
               BeginsAt(sockets, 1, l) /\ trying' = l /\ next' = NextOf(l) /\ pc' = "connect"
    <3>1. PICK l \in Positions :
            BeginsAt(sockets, 1, l) /\ trying' = l /\ next' = NextOf(l) /\ pc' = "connect"
      BY <2>1
    <3>2. \A p \in Positions : sockets'[p] = IF p = l THEN "connecting"
                                           ELSE IF 1 <= p /\ p < l THEN "dead" ELSE sockets[p]
      BY <1>0, <2>0, <3>1, BeginsEffect, Zenon
    <3>3. UNCHANGED <<fd, told>>
      BY <1>0, <1>3 DEF Start
    <3>4. l # 0 /\ l \in Nat /\ N' = N /\ Positions' = Positions /\ Positions = 1 .. N
      BY <2>0 DEF Positions, ListStays
    <3>5. OneSocket'
      BY <2>0, <3>1, <3>2, <3>3, <3>4 DEF OneSocket, UnderWay, NextOf
    <3>6. InTurn'
      BY <2>0, <3>1, <3>2, <3>3, <3>4 DEF InTurn
    <3> QED BY <3>5, <3>6
  <2>2. CASE NoneBegins(sockets, 1) /\ trying' = trying /\ pc' = "failed"
    <3>1. \A p \in Positions : sockets'[p] = "dead"
      <4>1. \A p \in Positions : sockets'[p] = IF 1 <= p THEN "dead" ELSE sockets[p]
        BY <1>0, <2>0, <2>2, BeginsEffect, Zenon
      <4> QED BY <1>0, <4>1 DEF Positions
    <3>2. UNCHANGED <<fd, told>> /\ Positions' = Positions
      BY <1>0, <1>3, <2>0 DEF Start, ListStays
    <3> QED BY <2>0, <2>2, <3>1, <3>2 DEF OneSocket, InTurn, UnderWay
  <2> QED BY <1>0, <1>3, <2>1, <2>2 DEF Start
<1>4. CASE Network
  <2>0. ListStays /\ trying \in Positions
    BY <1>0, <1>4, ListStaysPut, ListSize DEF Network, Positions
  <2>1. PICK s \in {"ready", "broken"} : sockets' = [sockets EXCEPT ![trying] = s]
    BY <1>0, <1>4 DEF Network
  <2>2. \A k \in Positions : sockets'[k] = IF k = trying THEN s ELSE sockets[k]
    BY <1>0, <2>0, <2>1
  <2>3. /\ sockets[trying] = "connecting" /\ UNCHANGED <<trying, next, fd, told, pc>>
        /\ N' = N /\ Positions' = Positions
    BY <1>0, <1>4, <2>0 DEF Network, memory, ListStays
  <2>4. OneSocket'
    BY <2>0, <2>1, <2>2, <2>3 DEF OneSocket, UnderWay, NextOf
  <2>5. InTurn'
    BY <2>0, <2>1, <2>2, <2>3 DEF InTurn
  <2> QED BY <2>4, <2>5
<1>5. CASE Return
  BY <1>0, <1>5, ListStaysPut, SocketsStay DEF Return, ListStays, tcp, memory
<1>6. CASE GiveUp
  BY <1>0, <1>6, ListStaysPut, SocketsStay DEF GiveUp, AfterFailure, ListStays, tcp, memory
<1>7. CASE WaitFails
  BY <1>0, <1>7, ListStaysPut, SocketsStay DEF WaitFails, AfterFailure, ListStays, tcp, memory
<1>8. CASE Tick
  BY <1>0, <1>8, ListStaysPut, SocketsStay DEF Tick, ListStays, tcp, memory
<1>9. CASE Connected
  <2>0. /\ ListStays /\ trying \in Positions /\ trying # 0 /\ fd = 0 /\ told = "nothing"
        /\ pc \in {"sort", "connect", "disconnect"} /\ pc' = pc
    BY <1>0, <1>9, ListStaysPut, ListSize DEF Connected, Connecting, Waits, Positions, CallInv
  <2>1. \A k \in Positions : sockets'[k] = IF k = trying THEN "open" ELSE sockets[k]
    BY <1>0, <1>9, <2>0 DEF Connected
  <2>2. /\ fd' = trying /\ trying' = 0 /\ told' = told /\ Positions' = Positions
        /\ 0 \notin Positions
    BY <1>0, <1>9, <2>0 DEF Connected, memory, ListStays, Positions
  <2>3. OneSocket'
    BY <1>0, <2>0, <2>1, <2>2 DEF OneSocket, UnderWay
  <2>4. InTurn'
    BY <2>0, <2>2 DEF InTurn
  <2> QED BY <2>3, <2>4
<1>10. CASE TryNext
  <2> DEFINE s == [sockets EXCEPT ![trying] = "dead"]
  <2>0. /\ ListStays /\ fd = 0 /\ told = "nothing" /\ pc \in {"connect", "disconnect"}
        /\ trying \in Positions /\ next \in Positions /\ next = trying + 1 /\ Positions = 1 .. N
    BY <1>0, <1>10, ListStaysPut, ListSize
    DEF TryNext, Connecting, Waits, Positions, CallInv, OneSocket, NextOf
  <2>1. s \in [Positions -> SocketStates]
    BY <1>0 DEF SocketStates
  <2>2. \A k \in Positions : s[k] = IF k = trying THEN "dead" ELSE sockets[k]
    BY <1>0
  <2>3. PICK l \in Positions : BeginsAt(s, next, l) /\ trying' = l /\ next' = NextOf(l)
    BY <1>0, <1>10 DEF TryNext
  <2>4. UNCHANGED <<fd, told, pc>> /\ N' = N /\ Positions' = Positions
    BY <1>0, <1>10, <2>0 DEF TryNext, memory, ListStays
  <2> HIDE DEF s
  <2>5. /\ next <= l
        /\ \A p \in Positions : sockets'[p] = IF p = l THEN "connecting"
                                             ELSE IF next <= p /\ p < l THEN "dead" ELSE s[p]
    <3>1. next \in Positions
      BY <2>0
    <3> HIDE DEF SocketInv
    <3> QED BY <2>1, <2>3, <3>1, BeginsEffect, Zenon
  <2>6. OneSocket'
    BY <2>0, <2>2, <2>3, <2>4, <2>5 DEF OneSocket, UnderWay, NextOf
  <2>7. InTurn'
    BY <2>0, <2>2, <2>3, <2>4, <2>5 DEF InTurn
  <2> QED BY <2>6, <2>7
<1>11. CASE NoAddressLeft
  <2> DEFINE s == [sockets EXCEPT ![trying] = "dead"]
  <2>0. /\ ListStays /\ fd = 0 /\ told = "nothing" /\ pc \in {"connect", "disconnect"}
        /\ trying \in Positions /\ next \in Positions /\ next = trying + 1 /\ Positions = 1 .. N
    BY <1>0, <1>11, ListStaysPut, ListSize
    DEF NoAddressLeft, Connecting, Waits, Positions, CallInv, OneSocket, NextOf
  <2>1. s \in [Positions -> SocketStates]
    BY <1>0 DEF SocketStates
  <2>2. \A k \in Positions : s[k] = IF k = trying THEN "dead" ELSE sockets[k]
    BY <1>0
  <2>3. NoneBegins(s, next) /\ trying' = 0 /\ pc' \in {"failed", "down"}
    BY <1>0, <1>11 DEF NoAddressLeft, AfterFailure
  <2>4. UNCHANGED fd /\ Positions' = Positions
    BY <1>0, <1>11, <2>0 DEF NoAddressLeft, ListStays
  <2> HIDE DEF s
  <2>5. \A p \in Positions : sockets'[p] = IF next <= p THEN "dead" ELSE s[p]
    <3>1. next \in Positions
      BY <2>0
    <3> HIDE DEF SocketInv
    <3> QED BY <2>1, <2>3, <3>1, BeginsEffect, Zenon
  <2>6. OneSocket'
    BY <2>0, <2>2, <2>3, <2>4, <2>5 DEF OneSocket, UnderWay
  <2>7. InTurn'
    BY <2>0, <2>2, <2>3, <2>4, <2>5 DEF InTurn
  <2> QED BY <2>6, <2>7
<1>12. CASE LastAddressFails
  <2>0. /\ ListStays /\ trying \in Positions /\ next = 0 /\ Positions = 1 .. N
        /\ UNCHANGED <<sockets, trying, next, fd>> /\ pc' \in {"failed", "down"}
    BY <1>0, <1>12, ListStaysPut, ListSize DEF LastAddressFails, Connecting, Positions, AfterFailure
  <2>1. trying = N
    BY <2>0 DEF OneSocket, NextOf, ListStays
  <2>2. \A k \in Positions : sockets[k] # "untried"
    BY <2>0, <2>1 DEF InTurn
  <2>3. N' = N /\ Positions' = Positions
    BY <2>0 DEF ListStays
  <2> QED BY <2>0, <2>2, <2>3 DEF OneSocket, InTurn, NextOf
<1>13. CASE Write
  BY <1>0, <1>13, ListStaysPut, SocketsStay DEF Write, ListStays, tcp, memory
<1>14. CASE Read
  BY <1>0, <1>14, ListStaysPut, SocketsStay DEF Read, ListStays, tcp, memory
<1>15. CASE NegotiateReply
  BY <1>0, <1>15, ListStaysPut, SocketsStay DEF NegotiateReply, Goes, ListStays, tcp, memory
<1>16. CASE SessionGoesOn
  BY <1>0, <1>16, ListStaysPut, SocketsStay DEF SessionGoesOn, ListStays, tcp, memory
<1>17. CASE SessionReply
  BY <1>0, <1>17, ListStaysPut, SocketsStay DEF SessionReply, Goes, ListStays, tcp, memory
<1>18. CASE SessionForged
  <2>0. /\ ListStays /\ fd \in Positions /\ UNCHANGED <<sockets, trying, next, fd, pc>>
        /\ N' = N /\ Positions' = Positions /\ sockets[fd] = "open"
    BY <1>0, <1>18, ListStaysPut, ListSize
    DEF SessionForged, Reply, Speaks, tcp, Positions, ListStays, OneSocket
  <2> QED BY <2>0 DEF OneSocket, InTurn, NextOf
<1>19. CASE Refused
  <2>0. /\ ListStays /\ fd \in Positions /\ fd' = 0 /\ UNCHANGED <<trying, pc>>
        /\ Positions' = Positions /\ sockets[fd] = "open" /\ trying = 0
    BY <1>0, <1>19, ListStaysPut, ListSize
    DEF Refused, Reply, Speaks, CloseFd, Positions, ListStays, OneSocket
  <2>1. \A k \in Positions : sockets'[k] = IF k = fd THEN "closed" ELSE sockets[k]
    BY <1>0, <1>19, <2>0 DEF Refused, CloseFd
  <2> QED BY <2>0, <2>1 DEF OneSocket, InTurn, UnderWay
<1>20. CASE TreeReply
  <2>0. /\ ListStays /\ fd \in Positions /\ UNCHANGED <<sockets, trying, next, fd, pc>>
        /\ N' = N /\ Positions' = Positions /\ sockets[fd] = "open"
    BY <1>0, <1>20, ListStaysPut, ListSize
    DEF TreeReply, Reply, Speaks, tcp, Positions, ListStays, OneSocket
  <2> QED BY <2>0 DEF OneSocket, InTurn, NextOf
<1>21. CASE TreeDisconnectReply
  BY <1>0, <1>21, ListStaysPut, SocketsStay DEF TreeDisconnectReply, Goes, ListStays, tcp, memory
<1>22. CASE LogoffReply
  <2>0. /\ ListStays /\ fd \in Positions /\ fd' = 0 /\ UNCHANGED <<trying, pc>>
        /\ Positions' = Positions /\ sockets[fd] = "open" /\ trying = 0
    BY <1>0, <1>22, ListStaysPut, ListSize
    DEF LogoffReply, Reply, Speaks, CloseFd, Positions, ListStays, OneSocket
  <2>1. \A k \in Positions : sockets'[k] = IF k = fd THEN "closed" ELSE sockets[k]
    BY <1>0, <1>22, <2>0 DEF LogoffReply, CloseFd
  <2> QED BY <2>0, <2>1 DEF OneSocket, InTurn, UnderWay
<1>23. CASE Disconnect
  <2>0. ListStays /\ UNCHANGED <<sockets, trying, next,
        fd>> /\ told' = "nothing" /\ pc' = "disconnect"
    BY <1>0, <1>23, ListStaysPut DEF Disconnect, tcp
  <2>1. N' = N /\ Positions' = Positions
    BY <2>0 DEF ListStays
  <2> QED BY <2>0, <2>1 DEF OneSocket, InTurn, NextOf
<1>24. CASE Destroy
  <2>0. /\ ListStays /\ Positions' = Positions /\ 0 \notin Positions
        /\ fd' = 0 /\ trying' = 0 /\ told' = told /\ pc' = "destroyed"
    BY <1>0, <1>24, ListStaysPut DEF Destroy, ListStays, Positions
  <2>1. \A k \in Positions : sockets'[k] = IF fd = k THEN "closed"
                                         ELSE IF fd = 0 /\ trying = k THEN "dead" ELSE sockets[k]
    BY <1>0, <1>24 DEF Destroy, ClosedAll
  <2>2. OneSocket'
    BY <2>0, <2>1 DEF OneSocket, UnderWay
  <2>3. InTurn'
    BY <2>0, <2>1 DEF OneSocket, InTurn, UnderWay
  <2> QED BY <2>2, <2>3
<1>25. CASE UNCHANGED vars
  BY <1>0, <1>25, ListStaysPut, SocketsStay DEF vars, ListStays, tcp, memory
<1> QED BY <1>1, <1>2, <1>3, <1>4, <1>5, <1>6, <1>7, <1>8, <1>9, <1>10, <1>11, <1>12, <1>13,
           <1>14, <1>15, <1>16, <1>17, <1>18, <1>19, <1>20, <1>21, <1>22, <1>23, <1>24, <1>25
        DEF Next, Call, Service, Server

(***************************************************************************)
(* The theorems.                                                           *)
(***************************************************************************)
Inv == TypeInv /\ CallInv /\ SocketInv

(* The three parts hold together in every state.                            *)
LEMMA InvHolds == Spec => []Inv
<1>1. Init => Inv
  <2> SUFFICES ASSUME Init PROVE Inv
    OBVIOUS
  <2>1. TypeInv
    BY TypeInit
  <2>2. CallInv
    BY DEF Init, CallInv
  <2>3. DOMAIN families = Positions
    BY <2>1, ListSize DEF TypeInv, Positions
  <2>4. SocketInv
    BY <2>3 DEF Init, SocketInv, OneSocket, InTurn, UnderWay
  <2> QED BY <2>1, <2>2, <2>4 DEF Inv
<1>2. Inv /\ [Next]_vars => Inv'
  BY TypeStep, CallStep, SocketStep DEF Inv
<1> QED BY <1>1, <1>2, PTL DEF Spec

(* Every variable keeps its type: in particular the list keeps its length     *)
(* while it is reordered, and the cursors stay inside it.                    *)
THEOREM TypeCorrect == Spec => []TypeOK
<1>1. Inv => TypeOK
  BY DEF Inv, TypeInv
<1> QED BY <1>1, InvHolds, PTL

(* Whenever a call gives up and whenever the context is destroyed, no         *)
(* callback uses memory that is gone, and none is told twice.                *)
THEOREM CallbackDataStaysValid == Spec => []CallbackDataValid
<1>1. Inv => CallbackDataValid
  BY DEF Inv, CallInv, CallbackDataValid
<1> QED BY <1>1, InvHolds, PTL

(* connect() reports success only over an open connection with a tree, and    *)
(* the handle counts as connected no longer than that.                      *)
THEOREM ConnectedHasSession == Spec => []ConnectedMeansSession
<1>1. Inv => ConnectedMeansSession
  BY DEF Inv, CallInv, SocketInv, OneSocket, ConnectedMeansSession
<1> QED BY <1>1, InvHolds, PTL

(* connect() does not tell of a network error while an address is untried,    *)
(* however many there are.                                                 *)
THEOREM EveryAddressTried == Spec => []AddressesTried
<1>1. Inv => AddressesTried
  BY DEF Inv, SocketInv, InTurn, AddressesTried
<1> QED BY <1>1, InvHolds, PTL

(* Whatever was going on when the handle was cleared, every socket is closed. *)
THEOREM EverySocketClosed == Spec => []NoSocketLost
<1>1. Inv => NoSocketLost
  <2> SUFFICES ASSUME Inv, pc = "destroyed", NEW k \in Positions
               PROVE  sockets[k] \in {"untried", "dead", "closed"}
    BY DEF NoSocketLost
  <2>0. k # 0
    BY DEF Positions
  <2>1. sockets[k] \in SocketStates
    BY DEF Inv, TypeInv, TypeOK
  <2>2. sockets[k] \notin UnderWay /\ sockets[k] # "open"
    BY <2>0 DEF Inv, SocketInv, OneSocket
  <2> QED BY <2>1, <2>2 DEF SocketStates, UnderWay
<1> QED BY <1>1, InvHolds, PTL
(***************************************************************************)
(* The order of the list.  Up to base no two neighbours are of one family;     *)
(* from base to link all are of one; and an address that moves forward only    *)
(* passes those of another family.                                         *)
(***************************************************************************)
Everyone == \A m \in DOMAIN families : \E k \in Positions : order[k] = m
InTheirOrder == \A k, l \in Positions : k < l /\ Family(k) = Family(l) => order[k] < order[l]
Alternating ==
  /\ \A k \in 1 .. base - 1 : Family(k) # Family(k + 1)
  /\ \A k \in base .. link - 1 : Family(k) = Family(base)

OrderInv == Everyone /\ InTheirOrder /\ Alternating

LEMMA OrderInit == ASSUME Init PROVE OrderInv
<1>1. N \in Nat \ {0} /\ DOMAIN families = 1 .. N /\ Positions = 1 .. N
  BY TypeInit, ListSize DEF TypeInv, Positions
<1>2. base = 1 /\ link = 2 /\ \A k \in Positions : order[k] = k
  BY <1>1 DEF Init
<1>3. Everyone /\ InTheirOrder
  BY <1>1, <1>2 DEF Everyone, InTheirOrder
<1>4. Alternating
  BY <1>2 DEF Alternating
<1> QED BY <1>3, <1>4 DEF OrderInv

(* The addresses after a step of interleave_addrinfo that moves one.           *)
LEMMA MovedOrder ==
  ASSUME TypeInv, OrderInv, link \in Positions, Family(link) # Family(base), link # base + 1,
         order' = MovedUp, base' = base + 2, link' = link + 1, families' = families,
         N' = N
  PROVE  OrderInv'
<1> DEFINE from(j) == From(base, link, j)
<1>1. /\ N \in Nat \ {0} /\ DOMAIN families = 1 .. N /\ Positions = 1 .. N /\ Positions' = 1 .. N
      /\ order \in Seq(1 .. N) /\ Len(order) = N /\ order \in [1 .. N -> 1 .. N]
  BY ListSize DEF TypeInv, TypeOK, Positions, N
<1>2. base \in Nat \ {0} /\ link \in 1 .. N /\ base + 1 < link
  BY <1>1 DEF TypeInv, TypeOK
<1>3. \A j \in 1 .. N : order'[j] = order[from(j)]
  <2>1. \A j \in 1 .. Len(order) :
          Moved(order, base, link)[j] = order[From(base, link, j)]
    <3>1. link \in 1 .. Len(order)
      BY <1>1, <1>2
    <3>2. order \in Seq(1 .. N) /\ base \in Nat \ {0} /\ base + 1 < link
      BY <1>1, <1>2
    <3> HIDE DEF from
    <3> QED BY <3>1, <3>2, MoveForward
  <2>2. order' = Moved(order, base, link)
    BY DEF MovedUp, Moved
  <2> QED BY <1>1, <2>1, <2>2
<1>4. \A j \in 1 .. N : from(j) \in 1 .. N /\ order[from(j)] \in 1 .. N
  <2>1. ASSUME NEW j \in 1 .. N PROVE from(j) \in 1 .. N
    BY <1>1, <1>2 DEF From
  <2> HIDE DEF from
  <2> QED BY <1>1, <2>1
<1>5. /\ \A j \in 1 .. base : from(j) = j
      /\ from(base + 1) = link /\ base + 1 \in 1 .. N
      /\ \A j \in base + 2 .. link : from(j) = j - 1
      /\ \A j \in 1 .. N : j > link => from(j) = j
  BY <1>1, <1>2, SMTT(60) DEF From
<1> HIDE DEF from
<1>6. ASSUME NEW j \in 1 .. N PROVE Family(j)' = Family(from(j))
  BY <1>3 DEF Family
<1>7. \A k \in base .. link - 1 : Family(k) = Family(base)
  BY DEF OrderInv, Alternating
<1>8. Everyone'
  <2> SUFFICES ASSUME NEW m \in 1 .. N PROVE \E k \in 1 .. N : order'[k] = m
    BY <1>1 DEF Everyone
  <2>1. PICK k \in 1 .. N : order[k] = m
    BY <1>1 DEF OrderInv, Everyone
  <2>2. \E j \in 1 .. N : from(j) = k
    <3>1. CASE k <= base
      BY <1>5, <3>1
    <3>2. CASE k = link
      BY <1>5, <3>2
    <3>3. CASE k > base /\ k < link
      <4>1. k + 1 \in base + 2 .. link /\ k + 1 \in 1 .. N /\ (k + 1) - 1 = k
        BY <1>1, <1>2, <3>3
      <4> QED BY <1>5, <4>1
    <3>4. CASE k > link
      BY <1>5, <3>4
    <3> QED BY <1>2, <3>1, <3>2, <3>3, <3>4
  <2> QED BY <1>3, <2>1, <2>2
<1>9. InTheirOrder'
  <2> SUFFICES ASSUME NEW k \in 1 .. N, NEW l \in 1 .. N, k < l, Family(k)' = Family(l)'
               PROVE  order'[k] < order'[l]
    BY <1>1 DEF InTheirOrder
  <2>1. Family(from(k)) = Family(from(l))
    BY <1>6
  <2>2. from(k) < from(l)
    <3>1. CASE k # base + 1 /\ l # base + 1
      BY <1>2, <3>1 DEF from, From
    <3>2. CASE l = base + 1
      BY <1>2, <1>5, <3>2
    <3>3. CASE k = base + 1 /\ l > link
      BY <1>2, <1>5, <3>3
    <3>4. CASE k = base + 1 /\ l <= link
      <4>1. from(k) = link /\ from(l) = l - 1 /\ l - 1 \in base .. link - 1
        BY <1>2, <1>5, <3>4
      <4>2. Family(link) = Family(base)
        BY <1>7, <2>1, <4>1
      <4> QED BY <4>2
    <3> QED BY <1>2, <3>1, <3>2, <3>3, <3>4
  <2>3. order[from(k)] < order[from(l)]
    BY <1>1, <1>4, <2>1, <2>2 DEF OrderInv, InTheirOrder
  <2> QED BY <1>3, <2>3
<1>10. Alternating'
  <2>1. ASSUME NEW k \in 1 .. base + 1 PROVE Family(k)' # Family(k + 1)'
    <3>0. k \in 1 .. N /\ k + 1 \in 1 .. N
      BY <1>1, <1>2, SMTT(60)
    <3>1. CASE k < base
      <4>1. from(k) = k /\ from(k + 1) = k + 1 /\ k \in 1 .. base - 1
        BY <1>2, <1>5, <3>1
      <4> QED BY <1>6, <3>0, <4>1 DEF OrderInv, Alternating
    <3>2. CASE k = base
      BY <1>5, <1>6, <3>0, <3>2
    <3>3. CASE k = base + 1
      <4>1. from(k) = link /\ from(k + 1) = k /\ k \in base .. link - 1
        BY <1>2, <1>5, <3>3
      <4> QED BY <1>6, <1>7, <3>0, <4>1
    <3> QED BY <1>2, <3>1, <3>2, <3>3
  <2>2. ASSUME NEW k \in base + 2 .. link PROVE Family(k)' = Family(base)
    <3>1. k \in 1 .. N /\ k - 1 \in base .. link - 1
      BY <1>1, <1>2
    <3>2. from(k) = k - 1
      BY <1>5
    <3> QED BY <1>6, <1>7, <3>1, <3>2
  <2>3. base + 2 \in base + 2 .. link
    BY <1>2
  <2>4. base' - 1 = base + 1 /\ link' - 1 = link
    BY <1>2
  <2>5. \A k \in base' .. link' - 1 : Family(k)' = Family(base)
    BY <2>2, <2>4
  <2>6. families'[order'[base']] = Family(base)
    BY <2>2, <2>3 DEF Family
  <2>7. \A k \in 1 .. base' - 1 : Family(k)' # Family(k + 1)'
    BY <2>1, <2>4
  <2> QED BY <2>5, <2>6, <2>7 DEF Alternating, Family
<1> QED BY <1>8, <1>9, <1>10 DEF OrderInv

LEMMA InterleaveOrder == ASSUME TypeInv, OrderInv, InterleaveAddrinfo PROVE OrderInv'
<1>1. /\ N \in Nat \ {0} /\ Positions = 1 .. N /\ N' = N /\ Positions' = Positions
      /\ families' = families /\ link' = link + 1
      /\ base \in Nat \ {0} /\ link \in 1 .. N /\ base < link
  BY ListSize, InterleaveType, SMTT(60) DEF TypeInv, TypeOK, Positions, InterleaveAddrinfo
<1>2. CASE Family(link) = Family(base)
  <2>1. UNCHANGED <<order, base>>
    BY <1>2 DEF InterleaveAddrinfo
  <2>2. \A k \in base .. link : Family(k) = Family(base)
    <3> TAKE k \in base .. link
    <3>1. k = link \/ k \in base .. link - 1
      BY <1>1
    <3> QED BY <1>2, <3>1 DEF OrderInv, Alternating
  <2> QED BY <1>1, <2>1, <2>2 DEF OrderInv, Everyone, InTheirOrder, Alternating, Family
<1>3. CASE Family(link) # Family(base) /\ link = base + 1
  <2>1. order' = order /\ base' = link
    BY <1>3 DEF InterleaveAddrinfo
  <2>2. \A k \in 1 .. base : Family(k) # Family(k + 1)
    <3> TAKE k \in 1 .. base
    <3>1. k = base \/ k \in 1 .. base - 1
      BY <1>1
    <3> QED BY <1>3, <3>1 DEF OrderInv, Alternating
  <2>3. Alternating'
    <3>1. base' - 1 = base /\ \A k \in base' .. link' - 1 : k = base'
      BY <1>1, <1>3, <2>1
    <3> QED BY <1>1, <2>1, <2>2, <3>1 DEF Alternating, Family
  <2> QED BY <1>1, <2>1, <2>3 DEF OrderInv, Everyone, InTheirOrder, Family
<1>4. CASE Family(link) # Family(base) /\ link # base + 1
  <2>1. order' = MovedUp /\ base' = base + 2
    BY <1>4 DEF InterleaveAddrinfo
  <2> QED BY <1>1, <1>4, <2>1, MovedOrder
<1> QED BY <1>2, <1>3, <1>4

LEMMA OrderStep == TypeInv /\ OrderInv /\ [Next]_vars => OrderInv'
<1> SUFFICES ASSUME TypeInv, OrderInv, [Next]_vars PROVE OrderInv'
  OBVIOUS
<1>1. CASE InterleaveAddrinfo
  BY <1>1, InterleaveOrder
<1>2. CASE UNCHANGED list
  <2>1. UNCHANGED <<families, order, base, link>> /\ Positions' = Positions
    BY <1>2, ListStaysPut DEF list, ListStays
  <2> QED BY <2>1 DEF OrderInv, Everyone, InTheirOrder, Alternating, Family
<1>3. ~InterleaveAddrinfo => UNCHANGED list
  <2>1. Resolve \/ Start \/ Disconnect \/ Destroy => UNCHANGED list
    BY DEF Resolve, Start, Disconnect, Destroy
  <2>2. Service => UNCHANGED list
    BY DEF Service, Return, GiveUp, Connected, TryNext, NoAddressLeft, LastAddressFails, Write
  <2>3. Server => UNCHANGED list
    BY DEF Server, Read, NegotiateReply, SessionGoesOn, SessionReply, SessionForged, Refused,
           TreeReply, TreeDisconnectReply, LogoffReply, Goes
  <2>4. WaitFails \/ Network \/ Tick => UNCHANGED list
    BY DEF WaitFails, Network, Tick
  <2> QED BY <2>1, <2>2, <2>3, <2>4 DEF Next, Call, vars
<1> QED BY <1>1, <1>2, <1>3

(* interleave_addrinfo loses no address, however many there are and of however  *)
(* many families: it keeps those of a family in the order of getaddrinfo, and    *)
(* lets the families alternate until only one is left.                         *)
THEOREM FamiliesInterleaved == Spec => []Interleaved
<1>1. Spec => [](TypeInv /\ OrderInv)
  <2>1. Init => TypeInv /\ OrderInv
    BY TypeInit, OrderInit
  <2>2. TypeInv /\ OrderInv /\ [Next]_vars => (TypeInv /\ OrderInv)'
    BY TypeStep, OrderStep
  <2> QED BY <2>1, <2>2, PTL DEF Spec
<1>2. TypeInv /\ OrderInv => Interleaved
  <2> SUFFICES ASSUME TypeInv, OrderInv, link > N PROVE
                 /\ ToSet(order) = DOMAIN families
                 /\ \A k, l \in Positions : k < l /\ Family(k) = Family(l) => order[k] < order[l]
                 /\ \A k \in 1 .. N - 1 : Family(k) = Family(k + 1) =>
                      \A l \in k .. N : Family(l) = Family(k)
    BY DEF Interleaved
  <2>1. /\ N \in Nat \ {0} /\ DOMAIN families = 1 .. N /\ Positions = 1 .. N
        /\ order \in [1 .. N -> 1 .. N] /\ base \in Nat \ {0} /\ base <= N /\ link = N + 1
    <3>1. N \in Nat \ {0} /\ DOMAIN families = 1 .. N
      BY ListSize DEF TypeInv
    <3> QED BY <3>1 DEF TypeInv, TypeOK, Positions
  <2>2. ToSet(order) = DOMAIN families
    BY <2>1 DEF ToSet, OrderInv, Everyone
  <2>3. ASSUME NEW k \in 1 .. N - 1, Family(k) = Family(k + 1), NEW l \in k .. N
        PROVE  Family(l) = Family(k)
    <3>1. k \notin 1 .. base - 1
      BY <2>3 DEF OrderInv, Alternating
    <3>2. k \in base .. link - 1 /\ l \in base .. link - 1
      BY <2>1, <3>1
    <3> QED BY <3>2 DEF OrderInv, Alternating
  <2> QED BY <2>2, <2>3 DEF OrderInv, InTheirOrder
<1> QED BY <1>1, <1>2, PTL
=============================================================================
