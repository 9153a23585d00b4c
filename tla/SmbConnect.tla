------------------------------ MODULE SmbConnect ------------------------------
(***************************************************************************)
(* The life of an SmbHandle (RemoteSmb.cpp): it connects to a share, is used,  *)
(* and is cleared (libsmb2: socket.c, libsmb2.c, sync.c, init.c).             *)
(*                                                                         *)
(* To connect, the addresses of the server are put into an order in which the *)
(* families alternate, and tried one after the other until a TCP connection   *)
(* stands; then negotiate, session setup, in several legs, and tree connect.  *)
(* To disconnect, tree disconnect and logoff.  Each is a chain of callbacks    *)
(* below one blocking call (wait_for_reply), which may give up before the      *)
(* chain has come to its end; the memory of both has to survive until the     *)
(* context is destroyed.                                                   *)
(*                                                                         *)
(* The network and the server are external.  Memory never runs out, and the   *)
(* server refuses with no status whose errno is 0 (END_OF_FILE).              *)
(***************************************************************************)
EXTENDS Naturals, Sequences, SequencesExt

CONSTANTS
  Found,      \* the families of the addresses getaddrinfo may find, in its order
  MaxLegs     \* bound on the legs of a session setup

ASSUME FoundAssumption == Found \subseteq Seq({"inet", "inet6", "other"}) \ {<<>>}
ASSUME LegsAssumption == MaxLegs \in Nat

VARIABLES
  families, order,     \* of the addresses, and how interleave_addrinfo has put them
  base, link,          \* its positions in the list: base, and what *next points to
  sockets,             \* of each address in order
  trying, next, fd,    \* connecting_fds[0], next_addrinfo and fd; 0 is none
  connectCb,           \* connect_cb is set
  pdu, place, legs,    \* the one PDU under way and where it is; legs done
  tree,                \* the server has connected the tree
  data, cbData,        \* connect_data or disconnect_data, and sync_cb_data
  told,                \* the sign of the status that the callback was told
  late,                \* the clock has moved on by a second since the call began
  pc                   \* of the handle

list == <<families, order, base, link>>
tcp == <<sockets, trying, next, fd, connectCb>>
talk == <<pdu, place, legs, tree>>
memory == <<data, cbData, told>>
vars == <<list, tcp, talk, memory, late, pc>>

N == Len(order)
Positions == 1 .. N

(***************************************************************************)
(* dead: the attempt failed and its socket is closed; closed: it was          *)
(* connected.                                                              *)
(***************************************************************************)
SocketStates == {"untried", "connecting", "ready", "broken", "open", "dead", "closed"}
Commands == {"none", "negotiate", "session", "tree", "treedis", "logoff"}
Handle == {"idle", "sort", "connect", "failed", "up", "disconnect", "down", "destroyed"}

(* cb_data: its caller waits; its callback ran; it is left to the callback, or  *)
(* the callback had run and nobody is left to free it; freed; used after that.  *)
CbMemory == {"none", "waiting", "finished", "cancelled", "lost", "freed", "misused"}

TypeOK ==
  /\ families \in Found /\ order \in [DOMAIN families -> DOMAIN families]
  /\ base \in 1 .. N + 1 /\ link \in 1 .. N + 1
  /\ sockets \in [Positions -> SocketStates]
  /\ trying \in 0 .. N /\ next \in 0 .. N /\ fd \in 0 .. N /\ connectCb \in BOOLEAN
  /\ pdu \in Commands /\ place \in {"out", "wait", "read"} /\ legs \in 0 .. MaxLegs
  /\ tree \in BOOLEAN
  /\ data \in {"none", "live", "freed", "misused"} /\ cbData \in CbMemory
  /\ told \in {"nothing", "neg", "zero", "pos"}
  /\ late \in BOOLEAN /\ pc \in Handle

Init ==
  /\ families \in Found /\ order = [k \in DOMAIN families |-> k]
  /\ base = 1 /\ link = 2
  /\ sockets = [k \in DOMAIN families |-> "untried"]
  /\ trying = 0 /\ next = 0 /\ fd = 0 /\ connectCb = FALSE
  /\ pdu = "none" /\ place = "out" /\ legs = 0 /\ tree = FALSE
  /\ data = "none" /\ cbData = "none" /\ told = "nothing"
  /\ late = FALSE /\ pc = "idle"

-----------------------------------------------------------------------------
(* Addresses *)

Resolve ==
  /\ pc = "idle"
  /\ \/ pc' = "sort" /\ data' = "live" /\ cbData' = "waiting"
     \/ pc' = "failed" /\ data' = "freed" /\ cbData' = "freed"
  /\ UNCHANGED <<list, tcp, talk, told, late>>

Family(k) == families[order[k]]

(* The address at link goes right behind base. *)
MovedUp == InsertAt(RemoveAt(order, link), base + 1, order[link])

(* Faulty: the base stays where it is. *)
InterleaveAddrinfoStays ==
  /\ pc = "sort" /\ link <= N
  /\ IF Family(link) = Family(base) THEN UNCHANGED <<order, base>>
     ELSE IF link = base + 1 THEN base' = link /\ UNCHANGED order
     ELSE order' = MovedUp /\ UNCHANGED base
  /\ link' = link + 1
  /\ UNCHANGED <<families, tcp, talk, memory, late, pc>>

InterleaveAddrinfo ==
  /\ pc = "sort" /\ link <= N
  /\ IF Family(link) = Family(base) THEN UNCHANGED <<order, base>>
     ELSE IF link = base + 1 THEN base' = link /\ UNCHANGED order
     ELSE order' = MovedUp /\ base' = base + 2
  /\ link' = link + 1
  /\ UNCHANGED <<families, tcp, talk, memory, late, pc>>

(* Faulty: points behind the last address. *)
NextOfBeyond(k) == k + 1

NextOf(k) == IF k < N THEN k + 1 ELSE 0

Dead(s, k, l) == [p \in Positions |-> IF p \in k .. l THEN "dead" ELSE s[p]]

(* smb2_connect_async_next_addr: l is the first address from k on for which a    *)
(* non-blocking connect begins, if any; of an unknown family there is none.    *)
BeginsAt(s, k, l) ==
  /\ l \in k .. N /\ Family(l) # "other"
  /\ sockets' = [Dead(s, k, l - 1) EXCEPT ![l] = "connecting"]

(* Faulty: the loop ends with the first failure. *)
NoneBeginsFirst(s, k) == sockets' = Dead(s, k, k)

NoneBegins(s, k) == sockets' = Dead(s, k, N)

Start ==
  /\ pc = "sort" /\ link > N
  /\ \/ \E l \in Positions :
          /\ BeginsAt(sockets, 1, l)
          /\ trying' = l /\ next' = NextOf(l)
          /\ connectCb' = TRUE /\ pc' = "connect"
          /\ UNCHANGED <<data, cbData>>
     \/ /\ NoneBegins(sockets, 1)
        /\ pc' = "failed" /\ data' = "freed" /\ cbData' = "freed"
        /\ UNCHANGED <<trying, next, connectCb>>
  /\ UNCHANGED <<list, fd, talk, told, late>>

(* The network (external). *)
Network ==
  /\ trying # 0 /\ sockets[trying] = "connecting"
  /\ \E s \in {"ready", "broken"} : sockets' = [sockets EXCEPT ![trying] = s]
  /\ UNCHANGED <<list, trying, next, fd, connectCb, talk, memory, late, pc>>

-----------------------------------------------------------------------------
(* Callbacks, and the blocking call *)

Waits == pc \in {"connect", "disconnect"} /\ cbData = "waiting"

(* The callback of sync.c. *)
Touch(m) ==
  CASE m = "waiting" -> "finished"
    [] m = "cancelled" -> "freed"
    [] OTHER -> "misused"

Use(d) == IF d = "live" THEN "freed" ELSE "misused"

(* c_data->cb, after which c_data is freed. *)
Tell(sign) ==
  /\ told' = sign
  /\ data' = Use(data)

(* Faulty: frees cb_data. *)
AbandonedFreed(m) == "freed"

(* A wait that fails leaves cb_data to the callback, which may have run. *)
Abandoned(m) == IF m = "finished" THEN "lost" ELSE "cancelled"

AfterFailure == IF pc = "connect" THEN "failed" ELSE "down"

Return ==
  /\ pc \in {"connect", "disconnect"} /\ cbData = "finished"
  /\ cbData' = "freed"
  /\ pc' = IF pc = "disconnect" THEN "down" ELSE IF told = "neg" THEN "failed" ELSE "up"
  /\ UNCHANGED <<list, tcp, talk, data, told, late>>

(* Faulty: waits for the network. *)
GiveUpNever == FALSE /\ UNCHANGED vars

(* Nothing is connected and more than timeout, which is 0, seconds have passed. *)
GiveUp ==
  /\ Waits /\ fd = 0 /\ late
  /\ cbData' = Abandoned(cbData)
  /\ pc' = AfterFailure
  /\ UNCHANGED <<list, tcp, talk, data, told, late>>

(* poll fails, or the socket: POLLERR, POLLHUP, reading or writing. *)
WaitFails ==
  /\ Waits
  /\ cbData' = Abandoned(cbData)
  /\ pc' = AfterFailure
  /\ UNCHANGED <<list, tcp, talk, data, told, late>>

Tick == Waits /\ ~late /\ late' = TRUE /\ UNCHANGED <<list, tcp, talk, memory, pc>>

-----------------------------------------------------------------------------
(* smb2_service while no connection stands *)

Connecting(s) == Waits /\ fd = 0 /\ ~late /\ trying # 0 /\ sockets[trying] = s

Queue(command) == pdu' = command /\ place' = "out"

Connected ==
  /\ Connecting("ready")
  /\ fd' = trying /\ trying' = 0 /\ next' = 0
  /\ sockets' = [sockets EXCEPT ![trying] = "open"]
  /\ connectCb' = FALSE /\ Queue("negotiate")
  /\ UNCHANGED <<list, legs, tree, memory, late, pc>>

TryNext ==
  /\ Connecting("broken") /\ next # 0
  /\ \E l \in Positions :
       /\ BeginsAt([sockets EXCEPT ![trying] = "dead"], next, l)
       /\ trying' = l /\ next' = NextOf(l)
  /\ UNCHANGED <<list, fd, connectCb, talk, memory, late, pc>>

(* Faulty: smb2_service does not fail. *)
NoAddressLeftGoesOn ==
  /\ Connecting("broken") /\ next # 0
  /\ NoneBegins([sockets EXCEPT ![trying] = "dead"], next)
  /\ trying' = 0 /\ connectCb' = FALSE
  /\ Tell("pos") /\ cbData' = Touch(cbData)
  /\ UNCHANGED <<list, next, fd, talk, late, pc>>

(* connect_cb is told, and then smb2_service fails.  An error that connecting   *)
(* to the last address returns is negative, and its sign is turned.           *)
NoAddressLeft ==
  /\ Connecting("broken") /\ next # 0
  /\ NoneBegins([sockets EXCEPT ![trying] = "dead"], next)
  /\ trying' = 0 /\ connectCb' = FALSE
  /\ Tell("pos") /\ cbData' = Abandoned(Touch(cbData)) /\ pc' = AfterFailure
  /\ UNCHANGED <<list, next, fd, talk, late>>

LastAddressFails ==
  /\ Connecting("broken") /\ next = 0
  /\ connectCb' = FALSE /\ pc' = AfterFailure
  /\ \/ Tell("neg") /\ cbData' = Abandoned(Touch(cbData)) /\ UNCHANGED <<pdu, place>>
     \/ \* POLLERR without an error: taken for success
        Queue("negotiate") /\ cbData' = Abandoned(cbData) /\ UNCHANGED <<data, told>>
  /\ UNCHANGED <<list, sockets, trying, next, fd, legs, tree, late>>

-----------------------------------------------------------------------------
(* The conversation *)

Speaks == Waits /\ fd # 0

Write ==
  /\ Speaks /\ pdu # "none" /\ place = "out"
  /\ place' = "wait"
  /\ UNCHANGED <<list, tcp, pdu, legs, tree, memory, late, pc>>

(* The header of the reply. *)
Read ==
  /\ Speaks /\ pdu # "none" /\ place = "wait"
  /\ place' = "read"
  /\ UNCHANGED <<list, tcp, pdu, legs, tree, memory, late, pc>>

Reply(command) == Speaks /\ pdu = command /\ place = "read"

CloseFd == sockets' = [sockets EXCEPT ![fd] = "closed"] /\ fd' = 0 /\ tree' = FALSE

Goes(command, reply, tree1) ==
  /\ Reply(command)
  /\ Queue(reply) /\ tree' = tree1
  /\ UNCHANGED <<list, tcp, legs, memory, late, pc>>

NegotiateReply == Goes("negotiate", "session", tree)

SessionGoesOn ==
  /\ Reply("session") /\ legs < MaxLegs
  /\ legs' = legs + 1 /\ Queue("session")
  /\ UNCHANGED <<list, tcp, tree, memory, late, pc>>

SessionReply == Goes("session", "tree", tree)

(* An error of the server, or of the client in making the next request. *)
Refused ==
  /\ \E command \in {"negotiate", "session", "tree"} : Reply(command)
  /\ CloseFd /\ pdu' = "none"
  /\ Tell("neg") /\ cbData' = Touch(cbData)
  /\ UNCHANGED <<list, trying, next, connectCb, place, legs, late, pc>>

(* A wrong signature leaves the connection open. *)
SessionForged ==
  /\ Reply("session") /\ pdu' = "none"
  /\ Tell("neg") /\ cbData' = Touch(cbData)
  /\ UNCHANGED <<list, tcp, place, legs, tree, late, pc>>

TreeReply ==
  /\ Reply("tree") /\ pdu' = "none" /\ tree' = TRUE
  /\ Tell("zero") /\ cbData' = Touch(cbData)
  /\ UNCHANGED <<list, tcp, place, legs, late, pc>>

(* Whatever the server says. *)
TreeDisconnectReply == Goes("treedis", "logoff", FALSE)

LogoffReply ==
  /\ Reply("logoff") /\ pdu' = "none"
  /\ Tell("zero") /\ cbData' = Touch(cbData)
  /\ CloseFd
  /\ UNCHANGED <<list, trying, next, connectCb, place, legs, late, pc>>

-----------------------------------------------------------------------------
(* clear *)

Disconnect ==
  /\ pc = "up" /\ fd # 0
  /\ Queue("treedis") /\ data' = "live" /\ cbData' = "waiting" /\ told' = "nothing"
  /\ late' = FALSE /\ pc' = "disconnect"
  /\ UNCHANGED <<list, tcp, legs, tree>>

(* smb2_destroy_context.  A PDU in a queue gets its callback; one that is read   *)
(* does not, nor does a connect_cb that is still set.  The callback of a tree    *)
(* disconnect queues a logoff: its callback runs if the out queue is still being *)
(* emptied, and never if the wait queue is.                                  *)
Notified == pdu # "none" /\ (place = "out" \/ (place = "wait" /\ pdu # "treedis"))

(* Faulty: sockets that are still connecting are left alone. *)
ClosedFd ==
  [k \in Positions |-> IF fd = k THEN "closed" ELSE sockets[k]]

ClosedAll ==
  [k \in Positions |->
    IF fd = k THEN "closed" ELSE IF fd = 0 /\ trying = k THEN "dead" ELSE sockets[k]]

Destroy ==
  /\ pc \in {"failed", "down"}
  /\ sockets' = ClosedAll /\ fd' = 0 /\ trying' = 0 /\ next' = 0
  /\ IF Notified THEN data' = Use(data) /\ cbData' = Touch(cbData) ELSE UNCHANGED <<data, cbData>>
  /\ pdu' = "none" /\ tree' = FALSE /\ pc' = "destroyed"
  /\ UNCHANGED <<list, connectCb, place, legs, told, late>>

-----------------------------------------------------------------------------
Call == Resolve \/ InterleaveAddrinfo \/ Start \/ Disconnect \/ Destroy

Service ==
  \/ Return \/ GiveUp
  \/ Connected \/ TryNext \/ NoAddressLeft \/ LastAddressFails
  \/ Write

Server ==
  \/ Read
  \/ NegotiateReply \/ SessionGoesOn \/ SessionReply \/ SessionForged \/ Refused \/ TreeReply
  \/ TreeDisconnectReply \/ LogoffReply

Next == Call \/ Service \/ Server \/ WaitFails \/ Network \/ Tick

Spec == Init /\ [][Next]_vars

(* The process runs, the clock goes on, and a server to which the connection     *)
(* stands answers.  Nothing is assumed of the network before that.            *)
FairSpec == Spec /\ WF_vars(Call) /\ WF_vars(Service) /\ WF_vars(Server) /\ WF_vars(Tick)

-----------------------------------------------------------------------------
(* Properties *)

(* When the list is in order every address is still there, those of one family  *)
(* in the order of getaddrinfo, and two of one family follow each other only    *)
(* when no other is left (interleave_addrinfo).                              *)
Interleaved ==
  pc = "sort" /\ link > N =>
    /\ ToSet(order) = DOMAIN families
    /\ \A k, l \in Positions : k < l /\ Family(k) = Family(l) => order[k] < order[l]
    /\ \A k \in 1 .. N - 1 : Family(k) = Family(k + 1) =>
         \A l \in k .. N : Family(l) = Family(k)

(* No callback uses memory that was freed, and none is told twice: a wait that   *)
(* fails leaves cb_data to a callback that may come with the destruction of the *)
(* context (sync.c, init.c, free_c_data).                                    *)
CallbackDataValid == data # "misused" /\ cbData # "misused"

(* The handle counts as connected only while a tree is connected over an open    *)
(* connection, whatever sign an error had on its way through the callbacks.    *)
ConnectedMeansSession == pc = "up" => fd # 0 /\ sockets[fd] = "open" /\ tree

(* Before connect() tells of a network error every address has been tried.      *)
AddressesTried ==
  (told = "neg" \/ told = "pos") /\ (\A k \in Positions : sockets[k] \notin {"open", "closed"}) =>
    \A k \in Positions : sockets[k] # "untried"

(* Nothing is left open by a handle that is cleared. *)
NoSocketLost ==
  pc = "destroyed" =>
    \A k \in Positions : sockets[k] \in {"untried", "dead", "closed"}

(* However the network behaves, connect() and disconnect() end.              *)
CallsReturn == pc \in {"connect", "disconnect"} ~> pc \notin {"connect", "disconnect"}

=============================================================================
