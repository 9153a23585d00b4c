---------------------------- MODULE SmbTransport ----------------------------
(***************************************************************************)
(* The SMB2 connection below class RemoteSmb: the two queues of PDUs and    *)
(* the credits of an smb2_context (libsmb2/pdu.c, socket.c, init.c) and the *)
(* blocking calls on top of them (sync.c).                                 *)
(*                                                                         *)
(* A call queues a chain of PDUs that take consecutive message ids.  The    *)
(* chain is written in one frame, possibly in several pieces, and only when *)
(* its credits suffice; its PDUs then wait for their replies.  A reply is    *)
(* read in two phases, between which the socket may run dry: the header,     *)
(* which finds the PDU by message id, and the rest, after which the PDU's    *)
(* callback runs.  The callback of the last PDU of a chain ends the call.    *)
(*                                                                         *)
(* AResq is one thread: at most one call is waited for.  A wait that fails   *)
(* leaves its PDUs in the queues, and AResq goes on to use the context.      *)
(* The server is external: it answers each frame once, in any order, at      *)
(* times after an interim reply, and grants credits up to ServerCap.        *)
(***************************************************************************)
EXTENDS Naturals, Sequences, SequencesExt

CONSTANTS
  ChainLength,  \* PDUs of a compound call
  MaxCharge,    \* credits that the largest write asks for
  MaxCredits,   \* MAX_CREDITS, what the client tries to hold
  ServerCap,    \* credits the server lets a client hold
  MaxCalls,     \* bound of the exploration
  Setups        \* what a behaviour may be like

AllKinds == {"single", "compound", "close", "write"}

ASSUME LimitsAssumption ==
  /\ ChainLength \in Nat \ {0} /\ MaxCharge \in Nat \ {0} /\ MaxCalls \in Nat
  /\ MaxCredits \in Nat /\ ServerCap \in Nat
ASSUME SetupsAssumption ==
  Setups \subseteq [kinds : SUBSET AllKinds, \* the calls made
                   start : Nat,             \* credits the client holds at first
                   generous : BOOLEAN,      \* the server grants what is asked for, up to its cap
                   signed : BOOLEAN,        \* replies are signed and verified
                   timeouts : BOOLEAN,      \* smb2_set_timeout was used; AResq does not
                   faults : BOOLEAN]        \* polling and the socket may fail

VARIABLES
  setup,               \* of Setups, for the whole behaviour
  credits, messageId,  \* of the context
  outqueue,            \* chains not yet written in full
  waitqueue,           \* PDUs written and not answered
  pdu,                 \* the PDU whose reply is being read, if any
  phase,               \* how far smb2_read_data is, see Phases
  chained,             \* the header read last has a next_command
  inFrame, iovOffset,  \* another PDU precedes in the frame; the local iov_offset knows
  context,             \* what became of the context, see Contexts
  calls,               \* every call made: its kind and the memory its callback uses
  waiting,             \* the call that is waited for, 0 if none
  torn,                \* a frame was left half written, and the server reads no more frames
  inbox, window,       \* server: frames to answer, credits it believes the client holds
  replies              \* replies on their way, in order

reader == <<phase, chained, inFrame, iovOffset>>
caller == <<calls, waiting>>
server == <<torn, inbox, window, replies>>
vars == <<setup, credits, messageId, outqueue, waitqueue, pdu, reader, context, caller, server>>

Kinds == setup.kinds
Generous == setup.generous
Signed == setup.signed
Timeouts == setup.timeouts
Faults == setup.faults

(***************************************************************************)
(* frame: a frame begins; member: the next PDU of the same frame; body: a    *)
(* header was read; jammed: an error left the vectors of a read that is     *)
(* complete, and no later read starts a frame again.                       *)
(***************************************************************************)
Phases == {"frame", "member", "body", "jammed"}
Contexts == {"up", "failed", "reused", "destroyed"}

(* The memory of a call: its caller waits; it was answered; it is left to the *)
(* callback to free, and was; it went with its caller, and a callback used it *)
(* after that; it was forgotten with a callback that will never run.         *)
Memory == {"live", "done", "cancelled", "freed", "dead", "misused", "forgotten"}

CallIds == 1 .. MaxCalls
Charges == 0 .. MaxCharge
Chain == [call : CallIds, mid : Nat, n : 1 .. ChainLength, charge : Charges, ask : Nat, begun : BOOLEAN]
Pdu == [call : CallIds, mid : Nat, charge : Charges, last : BOOLEAN]
Request == [mid : Nat, n : 1 .. ChainLength, charge : Charges, ask : Nat, interim : BOOLEAN]
Reply == [mid : Nat, pending : BOOLEAN, grant : Nat, chained : BOOLEAN]
NoPdu == [call |-> 0]

TypeOK ==
  /\ setup \in Setups
  /\ credits \in Nat /\ messageId \in Nat
  /\ outqueue \in Seq(Chain) /\ waitqueue \subseteq Pdu /\ pdu \in Pdu \cup {NoPdu}
  /\ phase \in Phases /\ chained \in BOOLEAN /\ inFrame \in BOOLEAN /\ iovOffset \in BOOLEAN
  /\ context \in Contexts
  /\ calls \in Seq([kind : Kinds, memory : Memory])
  /\ Len(calls) <= MaxCalls /\ waiting \in 0 .. Len(calls)
  /\ torn \in BOOLEAN /\ inbox \subseteq Request /\ window \in Nat /\ replies \in Seq(Reply)

Init ==
  /\ setup \in Setups
  /\ credits = setup.start /\ window = credits /\ messageId = 0
  /\ outqueue = <<>> /\ waitqueue = {} /\ pdu = NoPdu
  /\ phase = "frame" /\ chained = FALSE /\ inFrame = FALSE /\ iovOffset = FALSE
  /\ context = "up" /\ calls = <<>> /\ waiting = 0
  /\ torn = FALSE /\ inbox = {} /\ replies = <<>>

AtMost(a, b) == IF a <= b THEN a ELSE b

-----------------------------------------------------------------------------
(* Queueing a call *)

(* The PDUs of a chain are charged one credit each; a write for every 64 KiB, *)
(* of which pwrite asks for no more than there are credits for.              *)
LengthOf(kind) == IF kind = "compound" THEN ChainLength ELSE 1
ChargeOf(kind) == IF kind = "write" THEN {AtMost(c, credits) : c \in 1 .. MaxCharge} ELSE {1}

(* Beyond MaxCredits the 16 bits of the field wrap to more than a server grants. *)
(* Faulty: asks for what it spends and no more. *)
AskOne == 1

Ask == IF credits <= MaxCredits THEN MaxCredits - credits ELSE ServerCap

(* A PDU takes max(charge, 1) message ids. *)
(* Faulty: one id a PDU, whatever it is charged. *)
IdsTakenOne(n, charge) == n

IdsTaken(n, charge) == n * (IF charge > 1 THEN charge ELSE 1)
MidOf(chain, k) == chain.mid + IdsTaken(k - 1, chain.charge)

Enqueue(kind, made) ==
  \E charge \in ChargeOf(kind) :
    /\ outqueue' = Append(outqueue,
         [call |-> Len(made) + 1, mid |-> messageId, n |-> LengthOf(kind), charge |-> charge,
          ask |-> Ask, begun |-> FALSE])
    /\ messageId' = messageId + IdsTaken(LengthOf(kind), charge)
    /\ calls' = Append(made, [kind |-> kind, memory |-> "live"])
    /\ waiting' = Len(made) + 1

(* Nothing keeps AResq from a call on a context that failed: RemoteSmb goes on *)
(* to its next request, and the destructors close files and disconnect.      *)
Call(kind) ==
  /\ waiting = 0 /\ context # "destroyed" /\ Len(calls) < MaxCalls
  /\ Enqueue(kind, calls)
  /\ context' = IF context = "failed" THEN "reused" ELSE context
  /\ UNCHANGED <<credits, waitqueue, pdu, reader, server>>

-----------------------------------------------------------------------------
(* Writing: smb2_write_to_socket, one writev at a time *)

ChainCharge(chain) == chain.n * chain.charge

(* Faulty: the callback is put on the PDU before the last. *)
PdusOfEarly(chain) ==
  {[call |-> chain.call, mid |-> MidOf(chain, k), charge |-> chain.charge,
    last |-> k = chain.n - 1] : k \in 1 .. chain.n}

PdusOf(chain) ==
  {[call |-> chain.call, mid |-> MidOf(chain, k), charge |-> chain.charge,
    last |-> k = chain.n] : k \in 1 .. chain.n}

WritePart ==
  /\ waiting # 0 /\ outqueue # <<>>
  /\ ChainCharge(Head(outqueue)) <= credits
  /\ ~Head(outqueue).begun
  /\ outqueue' = [outqueue EXCEPT ![1].begun = TRUE]
  /\ UNCHANGED <<credits, messageId, waitqueue, pdu, reader, context, caller, server>>

(* The frame is out: its chain is taken apart, and paid for. *)
(* Faulty: the last credit is never spent. *)
WriteKeepsOne ==
  /\ waiting # 0 /\ outqueue # <<>>
  /\ ChainCharge(Head(outqueue)) < credits
  /\ LET chain == Head(outqueue)
     IN /\ outqueue' = Tail(outqueue)
        /\ waitqueue' = waitqueue \cup PdusOf(chain)
        /\ credits' = credits - ChainCharge(chain)
        /\ window' = IF torn THEN window ELSE window - ChainCharge(chain)
        /\ inbox' = inbox \cup IF torn THEN {} ELSE
             {[mid |-> chain.mid, n |-> chain.n, charge |-> chain.charge, ask |-> chain.ask,
               interim |-> FALSE]}
  /\ UNCHANGED <<messageId, pdu, reader, context, caller, torn, replies>>

WriteRest ==
  /\ waiting # 0 /\ outqueue # <<>>
  /\ ChainCharge(Head(outqueue)) <= credits
  /\ LET chain == Head(outqueue)
     IN /\ outqueue' = Tail(outqueue)
        /\ waitqueue' = waitqueue \cup PdusOf(chain)
        /\ credits' = credits - ChainCharge(chain)
        /\ window' = IF torn THEN window ELSE window - ChainCharge(chain)
        /\ inbox' = inbox \cup IF torn THEN {} ELSE
             {[mid |-> chain.mid, n |-> chain.n, charge |-> chain.charge, ask |-> chain.ask,
               interim |-> FALSE]}
  /\ UNCHANGED <<messageId, pdu, reader, context, caller, torn, replies>>

-----------------------------------------------------------------------------
(* The server *)

Grants(ask) ==
  LET room == IF window < ServerCap THEN ServerCap - window ELSE 0
  IN IF Generous THEN {AtMost(ask, room)} ELSE AtMost(1, room) .. AtMost(ask, room)

ServerPends(request) ==
  /\ ~request.interim
  /\ \E g \in Grants(request.ask) :
       /\ window' = window + g
       /\ replies' = Append(replies,
            [mid |-> request.mid, pending |-> TRUE, grant |-> g, chained |-> FALSE])
  /\ inbox' = (inbox \ {request}) \cup {[request EXCEPT !.interim = TRUE, !.ask = 0]}
  /\ UNCHANGED <<credits, messageId, outqueue, waitqueue, pdu, reader, context, caller,
                 torn>>

(* One frame answers a chain, or one frame each of its PDUs. *)
ServerAnswers(request) ==
  /\ \E g \in Grants(request.ask), together \in BOOLEAN :
       /\ window' = window + g
       /\ replies' = replies \o [k \in 1 .. request.n |->
            [mid |-> MidOf(request, k), pending |-> FALSE,
             grant |-> IF k = 1 THEN g ELSE 0, chained |-> together /\ k < request.n]]
  /\ inbox' = inbox \ {request}
  /\ UNCHANGED <<credits, messageId, outqueue, waitqueue, pdu, reader, context, caller,
                 torn>>

-----------------------------------------------------------------------------
(* Callbacks *)

Touch(memory) ==
  CASE memory = "live" -> "done"
    [] memory = "cancelled" -> "freed"
    [] OTHER -> "misused"

Fired(made, ended) ==
  [c \in DOMAIN made |-> IF c \in ended THEN [made[c] EXCEPT !.memory = Touch(@)] ELSE made[c]]

(* Faulty: every caller takes its memory with it. *)
AbandonedFreed(made, c) == IF c = 0 THEN made ELSE [made EXCEPT ![c].memory = "dead"]

(* wait_for_reply gave up: the blocking calls leave their cb_data to the      *)
(* callback, except smb2_close, which frees it; the SmbPutInfo of a write is    *)
(* a local of smbPutFile.                                                  *)
Abandoned(made, c) ==
  IF c = 0 THEN made
  ELSE [made EXCEPT ![c].memory = IF made[c].kind \in {"close", "write"} THEN "dead" ELSE "cancelled"]

GiveUp(ctx) ==
  /\ context' = ctx
  /\ calls' = Abandoned(calls, waiting)
  /\ waiting' = 0

(* The service of the context returned an error. *)
ServiceFails == GiveUp(IF context = "up" THEN "failed" ELSE context)

-----------------------------------------------------------------------------
(* Reading: smb2_read_data *)

(* Faulty: the credits of an interim reply are not counted. *)
ReadHeaderSkipsInterim ==
  /\ waiting # 0 /\ replies # <<>> /\ phase \in {"frame", "member"}
  /\ replies' = Tail(replies)
  /\ LET reply == Head(replies)
     IN /\ credits' = IF reply.pending THEN credits ELSE credits + reply.grant
        /\ chained' = reply.chained
        /\ \/ /\ reply.pending
              /\ phase' = "frame"
              /\ UNCHANGED <<waitqueue, pdu, context, caller>>
           \/ /\ ~reply.pending
              /\ \E p \in waitqueue :
                   /\ p.mid = reply.mid
                   /\ waitqueue' = waitqueue \ {p}
                   /\ pdu' = p
              /\ phase' = "body"
              /\ UNCHANGED <<context, caller>>
  /\ UNCHANGED <<messageId, outqueue, inFrame, iovOffset, torn, inbox, window>>

ReadHeader ==
  /\ waiting # 0 /\ replies # <<>> /\ phase \in {"frame", "member"}
  /\ replies' = Tail(replies)
  /\ LET reply == Head(replies)
     IN /\ credits' = credits + reply.grant
        /\ chained' = reply.chained
        /\ \/ /\ reply.pending
              /\ phase' = "frame"
              /\ UNCHANGED <<waitqueue, pdu, context, caller>>
           \/ /\ ~reply.pending
              /\ \E p \in waitqueue :
                   /\ p.mid = reply.mid
                   /\ waitqueue' = waitqueue \ {p}
                   /\ pdu' = p
              /\ phase' = "body"
              /\ UNCHANGED <<context, caller>>
           \/ /\ ~reply.pending /\ ~ \E p \in waitqueue : p.mid = reply.mid
              /\ phase' = "jammed"
              /\ ServiceFails
              /\ UNCHANGED <<waitqueue, pdu>>
  /\ UNCHANGED <<messageId, outqueue, inFrame, iovOffset, torn, inbox, window>>

(* The socket is empty in the middle of a frame; the call returns, and the    *)
(* next one starts with a fresh iov_offset.                                *)
ReadPauses ==
  /\ waiting # 0 /\ phase \in {"member", "body"} /\ iovOffset
  /\ iovOffset' = FALSE
  /\ UNCHANGED <<credits, messageId, outqueue, waitqueue, pdu, phase, chained, inFrame, context,
                 caller, server>>

(* The signature is computed from the vector that iov_offset names. *)
Verified == Signed => inFrame = iovOffset

ReadBody ==
  /\ waiting # 0 /\ phase = "body" /\ Verified
  /\ pdu' = NoPdu
  /\ phase' = (IF chained THEN "member" ELSE "frame")
  /\ inFrame' = chained /\ iovOffset' = chained
  /\ LET made == Fired(calls, IF pdu.last THEN {pdu.call} ELSE {})
         ends == pdu.last /\ pdu.call = waiting
     IN \/ /\ calls' = made
           /\ waiting' = IF ends THEN 0 ELSE waiting
           /\ UNCHANGED <<messageId, outqueue>>
        \/ /\ ends /\ calls[pdu.call].kind = "write" /\ Len(calls) < MaxCalls
           /\ Enqueue("write", made)
  /\ UNCHANGED <<credits, waitqueue, chained, context, server>>

ReadFails ==
  /\ waiting # 0 /\ phase = "body" /\ ~Verified
  /\ phase' = "jammed"
  /\ ServiceFails
  /\ UNCHANGED <<credits, messageId, outqueue, waitqueue, pdu, chained, inFrame, iovOffset, server>>

-----------------------------------------------------------------------------
(* Failures, timeouts, the end *)

(* Faulty: the PDUs of the call are taken off the wait queue. *)
PollFailsForgets ==
  /\ Faults /\ waiting # 0
  /\ GiveUp(context)
  /\ waitqueue' = {p \in waitqueue : p.call # waiting}
  /\ UNCHANGED <<credits, messageId, outqueue, pdu, reader, server>>

PollFails ==
  /\ Faults /\ waiting # 0
  /\ GiveUp(context)
  /\ UNCHANGED <<credits, messageId, outqueue, waitqueue, pdu, reader, server>>

(* POLLERR, POLLHUP, a read or write error, the server closing. *)
SocketFails ==
  /\ Faults /\ waiting # 0
  /\ ServiceFails
  /\ UNCHANGED <<credits, messageId, outqueue, waitqueue, pdu, reader, server>>

(* Only the first callback of a queued chain runs; its other PDUs are freed    *)
(* with it.                                                                *)
Dropped(made, chains) ==
  [c \in DOMAIN made |->
    IF \E chain \in chains : chain.call = c /\ chain.n > 1 /\ made[c].memory # "live"
    THEN [made[c] EXCEPT !.memory = "forgotten"] ELSE made[c]]

CallbacksOf(chains) == {chain.call : chain \in {chain \in chains : chain.n = 1}}
LastOf(pdus) == {p.call : p \in {p \in pdus : p.last}}

(* smb2_timeout_pdus; every PDU of a call has the same deadline, and a call has *)
(* one chain. *)
TimeOut(c) ==
  /\ Timeouts /\ waiting # 0
  /\ LET queued == {chain \in {outqueue[i] : i \in DOMAIN outqueue} : chain.call = c}
         sent == {p \in waitqueue : p.call = c}
         ended == CallbacksOf(queued) \cup LastOf(sent)
     IN /\ queued \cup sent # {}
        /\ \/ queued = {} /\ UNCHANGED outqueue
           \/ \E i \in DOMAIN outqueue :
                outqueue[i].call = c /\ outqueue' = RemoveAt(outqueue, i)
        /\ waitqueue' = waitqueue \ sent
        /\ calls' = Dropped(Fired(calls, ended), queued)
        /\ waiting' = IF waiting \in ended THEN 0 ELSE waiting
        /\ torn' = (torn \/ \E chain \in queued : chain.begun)
  /\ UNCHANGED <<credits, messageId, pdu, reader, context, inbox, window, replies>>

(* smb2_destroy_context: the PDU that is being read is freed without its       *)
(* callback.                                                               *)
Destroy ==
  /\ waiting = 0 /\ context # "destroyed"
  /\ context' = "destroyed"
  /\ LET queued == {outqueue[i] : i \in DOMAIN outqueue}
     IN calls' = Dropped(Fired(calls, CallbacksOf(queued) \cup LastOf(waitqueue)), queued)
  /\ outqueue' = <<>> /\ waitqueue' = {} /\ pdu' = NoPdu
  /\ UNCHANGED <<credits, messageId, reader, waiting, server>>

-----------------------------------------------------------------------------
Service ==
  /\ WritePart \/ WriteRest \/ ReadHeader \/ ReadPauses \/ ReadBody \/ ReadFails
  /\ UNCHANGED setup
Serve ==
  /\ \E request \in inbox : ServerPends(request) \/ ServerAnswers(request)
  /\ UNCHANGED setup
Fail == PollFails \/ SocketFails \/ \E c \in DOMAIN calls : TimeOut(c)

Next ==
  \/ UNCHANGED setup /\ ((\E kind \in Kinds : Call(kind)) \/ Fail \/ Destroy)
  \/ Service
  \/ Serve

Spec == Init /\ [][Next]_vars

(* A caller polls and serves the socket until its call ends, and the server    *)
(* answers.                                                                *)
LiveSpec == Spec /\ WF_vars(Service) /\ WF_vars(Serve)

-----------------------------------------------------------------------------
(* Properties *)

(* The ids that n PDUs use, which the protocol sets at one for each credit. *)
Ids(mid, n, charge) == {id \in mid .. mid + n * (charge + 1) : id < mid + n \/ id < mid + n * charge}
PendingPdus == waitqueue \cup IF pdu = NoPdu THEN {} ELSE {pdu}

(* Every PDU that was or will be written has message ids of its own: an       *)
(* answer is never taken for the answer to another request (encode_header,    *)
(* find_pdu).                                                              *)
IdsDisjoint ==
  /\ \A i \in DOMAIN outqueue : \A id \in Ids(outqueue[i].mid, outqueue[i].n, outqueue[i].charge) :
       /\ id < messageId
       /\ \A j \in DOMAIN outqueue \ {i} :
            id \notin Ids(outqueue[j].mid, outqueue[j].n, outqueue[j].charge)
       /\ \A p \in PendingPdus : id \notin Ids(p.mid, 1, p.charge)
  /\ \A p \in PendingPdus : \A id \in Ids(p.mid, 1, p.charge) :
       /\ id < messageId
       /\ \A q \in PendingPdus \ {p} : id \notin Ids(q.mid, 1, q.charge)

(* Every reply on its way finds its PDU, whatever calls were given up before:  *)
(* the connection never ends with "no matching PDU found" (smb2_read_data),    *)
(* as it does when smb2_timeout_pdus has freed the PDU of a late reply.      *)
RepliesMatch ==
  context # "destroyed" /\ ~Timeouts =>
    \A i \in DOMAIN replies : replies[i].pending \/ \E p \in waitqueue : p.mid = replies[i].mid

(* The credits that come with the replies on their way. *)
Granted(sent) ==
  LET sum[n \in 0 .. Len(sent)] == IF n = 0 THEN 0 ELSE sum[n - 1] + sent[n].grant
  IN sum[Len(sent)]

(* Client and server agree on the credits: what the client holds and what is   *)
(* on its way is what the server believes it holds, until a timeout leaves a    *)
(* frame half written.                                                     *)
CreditsAgree == ~torn => credits + Granted(replies) = window

(* A call that is waited for still has the PDU that will end the wait: there   *)
(* are no timeouts unless smb2_set_timeout asks for them.                    *)
EndsWith(c) ==
  \/ \E i \in DOMAIN outqueue : outqueue[i].call = c
  \/ \E p \in PendingPdus : p.call = c /\ p.last

WaitsForSomething == waiting # 0 /\ ~Timeouts => EndsWith(waiting)

(* No callback uses memory that went with its caller, and none runs twice      *)
(* (the SMB2_STATUS_CANCELLED protocol of sync.c), but for the two calls that    *)
(* do not follow the protocol: smb2_close, which frees its data itself, and the  *)
(* writes of smbPutFile, whose data is on its stack (RemoteSmb.cpp:304).  And    *)
(* for those too where nothing makes their caller stop waiting.               *)
CanGiveUp == Faults \/ Timeouts \/ Signed
LeavesData(kind) == kind \notin {"close", "write"}

CallbackMemoryValid ==
  \A c \in DOMAIN calls :
    LeavesData(calls[c].kind) \/ ~CanGiveUp => calls[c].memory # "misused"

(* The head of the out queue lacks credits only while replies that may bring   *)
(* some are outstanding: the client never waits for credits it did not ask for *)
(* (allocate_pdu, which_events), of a server that gives what it is asked for   *)
(* and while no call is given up.  The chains of calls that were given up all   *)
(* ask as if each were the only one to spend the credits there are.           *)
NoCreditStall ==
  Generous /\ ~(Faults \/ Timeouts \/ Signed) =>
    (waiting # 0 /\ outqueue # <<>> /\ inbox = {} /\ replies = <<>> =>
       ChainCharge(Head(outqueue)) <= credits)

(* Every call that is waited for ends, where no reply is signed and nothing    *)
(* fails or times out.                                                     *)
CallsEnd ==
  ~(Signed \/ Timeouts \/ Faults) /\ Generous => \A c \in CallIds : waiting = c ~> waiting # c

(* The same of every call: a callback uses no memory that is gone.              *)
NoMemoryMisused == \A c \in DOMAIN calls : calls[c].memory # "misused"

(* libsmb2.h: after smb2_service has failed the context can no longer be used   *)
(* and must be freed.                                                      *)
NotUsedAfterFailure == context # "reused"

(* libsmb2.h: a command that is not answered in time is aborted; its caller     *)
(* does not go on waiting without it.                                       *)
TimedOutCallsEnd == waiting # 0 => EndsWith(waiting)

(* libsmb2.h: smb2_destroy_context aborts every pending command, which ends it  *)
(* with its callback.                                                      *)
DestroyAborts ==
  context = "destroyed" =>
    \A c \in DOMAIN calls : calls[c].memory \notin {"cancelled", "forgotten"}

(* socket.c: iov_offset records where in the vectors of a frame a PDU starts.   *)
OffsetRecorded == phase = "body" => inFrame = iovOffset
=============================================================================
