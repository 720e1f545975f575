----------------------------- MODULE SendSession -----------------------------
(***************************************************************************)
(* Sending a fax: a client thread (TCPSThreadProc) asks the center for a   *)
(* job, waits up to five seconds for the answer, connects to the file      *)
(* server the answer names, and from then on hands every block of the      *)
(* document to the file server and its answer back to the client.          *)
(*                                                                         *)
(* There is one of each of these for all clients: the answer of the center *)
(* (g_bySendCode, g_strUUID with the server's address), the event          *)
(* g_hSendRequest and the connection to the file server, g_sSend.  A step  *)
(* of a client thread is therefore one access to them.                     *)
(*                                                                         *)
(* A request is a number, counted over all clients; the UUID the center    *)
(* gives to request r is r, and so is the socket ConnectFileSrv opens for  *)
(* it (a descriptor number is not used again within a behaviour).          *)
(*                                                                         *)
(* Nothing keeps the clients from asking and sending at the same time, nor *)
(* the answers from coming after their wait.  Two sets remember which      *)
(* requests got into another one's way; the code has no such memory.       *)
(***************************************************************************)
EXTENDS Naturals, Sequences, FiniteSets

CONSTANTS
    Clients,
    MaxReq,         \* bound: requests
    MaxBlocks       \* bound: blocks of a document

ASSUME NumberAssumption == MaxReq \in Nat /\ MaxBlocks \in Nat

VARIABLES
    pc,             \* where each client thread is
    nType,          \* its FAX_SESSION.nType: 1 between REQUESTSEND and STOPSEND
    asked,          \* the client's last request
    told,           \* what it was answered: [code, uuid]
    sock,           \* the socket GetRSAPacket was called with
    op,             \* what its reply is awaited for
    g_hSendRequest, \* the auto-reset event
    g_bySendCode,   \* 0: no
    g_strUUID,
    g_sSend,        \* 0: none
    pending,        \* requests the center has not answered
    rx,             \* the request whose answer the receiver thread is at
    nreq,           \* requests so far
    conn,           \* the sockets to the file server
    owed,           \* what the file server still has to answer on each
    inq,            \* its answers that have not been read
    jobOf,          \* the job it was asked for on each
    stored,         \* the blocks it stored for each job
    sent,           \* how many blocks of its document a client has sent
    done,           \* requests whose client was told the transfer is complete
    crossed,        \* history: requests that met another one on its way
    shared          \* history: requests that shared g_sSend with another one

answer == <<g_hSendRequest, g_bySendCode, g_strUUID>>
center == <<pending, rx>>
session == <<nType, asked, told, sock, op>>
server == <<conn, owed, inq, jobOf, stored>>
progress == <<nreq, sent, done>>
vars == <<pc, session, answer, g_sSend, center, server, progress, crossed,
          shared>>

Reqs == 1 .. MaxReq
Requesting == {"ask", "wait", "got", "socket", "connect", "request", "select",
               "reply", "settle"}
PCs == {"idle", "await", "recv"} \cup Requesting
Kinds == {"req", "send", "stop"}
NoAnswer == [code |-> 0, uuid |-> 0]

TypeOK ==
    /\ pc \in [Clients -> PCs]
    /\ nType \in [Clients -> 0 .. 1]
    /\ asked \in [Clients -> 0 .. MaxReq]
    /\ told \in [Clients -> [code : 0 .. 1, uuid : 0 .. MaxReq]]
    /\ sock \in [Clients -> 0 .. MaxReq]
    /\ op \in [Clients -> Kinds]
    /\ g_hSendRequest \in BOOLEAN
    /\ g_bySendCode \in 0 .. 1
    /\ g_strUUID \in 0 .. MaxReq
    /\ g_sSend \in 0 .. MaxReq
    /\ pending \subseteq Reqs
    /\ rx \in 0 .. MaxReq
    /\ nreq \in 0 .. MaxReq
    /\ conn \in [Reqs -> {"none", "new", "open", "ended", "closed"}]
    /\ owed \in [Reqs -> Seq(Kinds)]
    /\ inq \in [Reqs -> Seq(Kinds)]
    /\ jobOf \in [Reqs -> 0 .. MaxReq]
    /\ stored \in [Reqs -> Seq(Reqs \X (1 .. MaxBlocks))]
    /\ sent \in [Reqs -> 0 .. MaxBlocks]
    /\ done \subseteq Reqs
    /\ crossed \subseteq Reqs /\ shared \subseteq Reqs

Init ==
    /\ pc = [c \in Clients |-> "idle"]
    /\ nType = [c \in Clients |-> 0]
    /\ asked = [c \in Clients |-> 0]
    /\ told = [c \in Clients |-> NoAnswer]
    /\ sock = [c \in Clients |-> 0]
    /\ op = [c \in Clients |-> "req"]
    /\ g_hSendRequest = FALSE /\ g_bySendCode = 0 /\ g_strUUID = 0
    /\ g_sSend = 0
    /\ pending = {} /\ rx = 0 /\ nreq = 0
    /\ conn = [r \in Reqs |-> "none"]
    /\ owed = [r \in Reqs |-> <<>>] /\ inq = [r \in Reqs |-> <<>>]
    /\ jobOf = [r \in Reqs |-> 0]
    /\ stored = [r \in Reqs |-> <<>>]
    /\ sent = [r \in Reqs |-> 0] /\ done = {}
    /\ crossed = {} /\ shared = {}

Goto(c, label) == pc' = [pc EXCEPT ![c] = label]
Conn(s) == IF s = 0 THEN "none" ELSE conn[s]
-----------------------------------------------------------------------------
(* The client goes away, or a command returns an error: TCPSThreadProc     *)
(* ends.  The next client's starts with nType = 0 in its place.            *)

Leave(c) ==
    /\ Goto(c, "idle")
    /\ nType' = [nType EXCEPT ![c] = 0]
    /\ asked' = [asked EXCEPT ![c] = 0]
    /\ told' = [told EXCEPT ![c] = NoAnswer]
    /\ sock' = [sock EXCEPT ![c] = 0]
    /\ op' = [op EXCEPT ![c] = "req"]

Disconnect(c) ==
    /\ pc[c] = "idle"
    /\ Leave(c)
    /\ UNCHANGED <<answer, g_sSend, center, server, progress>>

-----------------------------------------------------------------------------
(* GW_FAX_REQUESTSEND.                                                     *)

RequestSend(c) ==
    /\ pc[c] = "idle" /\ told[c].code = 0
    /\ \/ /\ nType[c] = 0 /\ nreq < MaxReq
          /\ nreq' = nreq + 1
          /\ asked' = [asked EXCEPT ![c] = nreq + 1]
          /\ told' = [told EXCEPT ![c] = NoAnswer]
          /\ nType' = [nType EXCEPT ![c] = 1]
          /\ g_hSendRequest' = FALSE
          /\ Goto(c, "ask")
          /\ UNCHANGED <<sock, op>>
       \/ nType[c] # 0 /\ Leave(c) /\ UNCHANGED <<nreq, g_hSendRequest>>
    /\ UNCHANGED <<g_bySendCode, g_strUUID, g_sSend, center, server, sent, done>>

\* onSendRequest: without a login, or over a connection that breaks, the
\* request does not reach the center.  Its result is not looked at.
onSendRequest(c) ==
    /\ pc[c] = "ask"
    /\ Goto(c, "wait")
    /\ pending' \in {pending, pending \cup {asked[c]}}
    /\ UNCHANGED <<session, answer, g_sSend, rx, server, progress>>

\* Mutant of Signalled: the result of the wait is not looked at.
NotAwaited == TRUE

Signalled == g_hSendRequest

WaitAnswer(c) ==
    /\ pc[c] = "wait" /\ Signalled
    /\ g_hSendRequest' = FALSE
    /\ Goto(c, "got")
    /\ UNCHANGED <<session, g_bySendCode, g_strUUID, g_sSend, center, server,
                   progress>>

\* Mutant of Expired: the wait is INFINITE.
NeverExpires(c) == FALSE

\* The answer may still come.
Expired(c) == ~g_hSendRequest

WaitTimeout(c) ==
    /\ pc[c] = "wait" /\ Expired(c)
    /\ Leave(c)
    /\ UNCHANGED <<answer, g_sSend, center, server, progress>>

Decide(c) ==
    /\ pc[c] = "got"
    /\ Goto(c, IF g_bySendCode # 0 THEN "socket" ELSE "reply")
    /\ UNCHANGED <<session, answer, g_sSend, center, server, progress>>

\* Mutant of Refuse: the center's yes stands.
RefuseKeepsYes(c) ==
    /\ UNCHANGED g_bySendCode
    /\ Goto(c, "reply")

\* ConnectFileSrv returns -1.
Refuse(c) ==
    /\ g_bySendCode' = 0
    /\ Goto(c, "reply")

\* closesocket(g_sSend); g_sSend = 0
DropServer ==
    /\ conn' = IF g_sSend = 0 THEN conn ELSE [conn EXCEPT ![g_sSend] = "closed"]
    /\ g_sSend' = 0

\* The name does not resolve, socket() fails, or there is a new socket.
OpenSocket(c) ==
    /\ pc[c] = "socket"
    /\ \/ Refuse(c) /\ g_sSend' \in {g_sSend, 0} /\ UNCHANGED conn
       \/ /\ g_sSend' = asked[c]
          /\ conn' = [conn EXCEPT ![asked[c]] = "new"]
          /\ Goto(c, "connect")
          /\ UNCHANGED g_bySendCode
    /\ UNCHANGED <<session, g_hSendRequest, g_strUUID, center, owed, inq, jobOf,
                   stored, progress>>

ConnectServer(c) ==
    /\ pc[c] = "connect"
    /\ \/ /\ Conn(g_sSend) = "new"
          /\ conn' = [conn EXCEPT ![g_sSend] = "open"]
          /\ Goto(c, "request")
          /\ UNCHANGED <<g_sSend, g_bySendCode>>
       \/ Refuse(c) /\ DropServer
    /\ UNCHANGED <<session, g_hSendRequest, g_strUUID, center, owed, inq, jobOf,
                   stored, progress>>

\* SendRSAPacket on the socket s, as the server receives it.
Sent(s, kind) ==
    /\ Conn(s) \in {"open", "ended"}
    /\ owed' = IF conn[s] = "open" THEN [owed EXCEPT ![s] = Append(@, kind)]
                                   ELSE owed

RequestFile(c) ==
    /\ pc[c] = "request"
    /\ \/ /\ Sent(g_sSend, "req")
          /\ jobOf' = [jobOf EXCEPT ![g_sSend] = g_strUUID]
          /\ Goto(c, "select")
          /\ UNCHANGED <<g_sSend, g_bySendCode, conn>>
       \/ /\ Conn(g_sSend) # "open"
          /\ Refuse(c) /\ DropServer
          /\ UNCHANGED <<owed, jobOf>>
    /\ UNCHANGED <<session, g_hSendRequest, g_strUUID, center, inq, stored,
                   progress>>

(* select() with 3 s: a reply (of any content), an end of the connection,  *)
(* or the time is over, which counts as a success; the reply may still     *)
(* come.                                                                   *)
SelectReply(c) ==
    /\ pc[c] = "select"
    /\ \/ /\ Conn(g_sSend) \in {"open", "ended"} /\ inq[g_sSend] # <<>>
          /\ inq' = [inq EXCEPT ![g_sSend] = <<>>]
          /\ Goto(c, "reply")
          /\ UNCHANGED <<g_sSend, g_bySendCode, conn>>
       \/ /\ Conn(g_sSend) # "ended"
          /\ g_sSend # 0 => inq[g_sSend] = <<>>
          /\ Goto(c, "reply")
          /\ UNCHANGED <<g_sSend, g_bySendCode, conn, inq>>
       \/ /\ Conn(g_sSend) # "open"
          /\ Conn(g_sSend) = "ended" => inq[g_sSend] = <<>>
          /\ Refuse(c) /\ DropServer
          /\ UNCHANGED inq
    /\ UNCHANGED <<session, g_hSendRequest, g_strUUID, center, owed, jobOf,
                   stored, progress>>

\* SendPacket: the answer is what the globals hold by now.
Answer(c) ==
    /\ pc[c] = "reply"
    /\ \/ /\ told' = [told EXCEPT ![c] =
                         [code |-> g_bySendCode, uuid |-> g_strUUID]]
          /\ Goto(c, "settle")
          /\ UNCHANGED <<nType, asked, sock, op>>
       \/ Leave(c)
    /\ UNCHANGED <<answer, g_sSend, center, server, progress>>

\* Mutant of Settled: a refusal puts nType in a state of the receiving side.
ReceivingState(c) == IF g_bySendCode = 0 THEN 2 ELSE nType[c]

Settled(c) == IF g_bySendCode = 0 THEN 0 ELSE nType[c]

Settle(c) ==
    /\ pc[c] = "settle"
    /\ nType' = [nType EXCEPT ![c] = Settled(c)]
    /\ Goto(c, "idle")
    /\ UNCHANGED <<asked, told, sock, op, answer, g_sSend, center, server,
                   progress>>

Request(c) ==
    \/ onSendRequest(c) \/ WaitAnswer(c) \/ WaitTimeout(c) \/ Decide(c)
    \/ OpenSocket(c) \/ ConnectServer(c) \/ RequestFile(c) \/ SelectReply(c)
    \/ Answer(c) \/ Settle(c)

-----------------------------------------------------------------------------
(* GW_FAX_SEND and GW_FAX_STOPSEND.                                        *)

\* The server stores a block when it arrives, for the job asked of it.
Store(s, b) ==
    stored' = IF conn[s] = "open" /\ jobOf[s] # 0
              THEN [stored EXCEPT ![jobOf[s]] = Append(@, b)] ELSE stored

\* What the client sends next: its document and the number of the block.
Block(c) == <<asked[c], sent[asked[c]] + 1>>

SendFaxData(c) ==
    /\ pc[c] = "idle" /\ told[c].code = 1 /\ sent[asked[c]] < MaxBlocks
    /\ \/ /\ nType[c] = 1
          /\ Sent(g_sSend, "send")
          /\ Store(g_sSend, Block(c))
          /\ sent' = [sent EXCEPT ![asked[c]] = @ + 1]
          /\ op' = [op EXCEPT ![c] = "send"]
          /\ Goto(c, "await")
          /\ UNCHANGED <<nType, asked, told, sock>>
       \/ /\ nType[c] # 1 \/ Conn(g_sSend) # "open"
          /\ Leave(c)
          /\ UNCHANGED <<owed, stored, sent>>
    /\ UNCHANGED <<answer, g_sSend, center, conn, inq, jobOf, nreq, done>>

SendFaxEnd(c) ==
    /\ pc[c] = "idle" /\ told[c].code = 1
    /\ \/ /\ nType[c] = 1
          /\ Sent(g_sSend, "stop")
          /\ op' = [op EXCEPT ![c] = "stop"]
          /\ Goto(c, "await")
          /\ UNCHANGED <<nType, asked, told, sock>>
       \/ /\ nType[c] # 1 \/ Conn(g_sSend) # "open"
          /\ Leave(c)
          /\ UNCHANGED owed
    /\ UNCHANGED <<answer, g_sSend, center, conn, inq, jobOf, stored, progress>>

\* GetRSAPacket(g_sSend, ...)
GetRSAPacket(c) ==
    /\ pc[c] = "await"
    /\ sock' = [sock EXCEPT ![c] = g_sSend]
    /\ Goto(c, "recv")
    /\ UNCHANGED <<nType, asked, told, op, answer, g_sSend, center, server,
                   progress>>

\* A frame of the server; what else the buffer holds is dropped.  It is not
\* compared with what the client asked for.
ReceiveReply(c) ==
    /\ pc[c] = "recv" /\ Conn(sock[c]) \in {"open", "ended"}
    /\ inq[sock[c]] # <<>>
    /\ \E rest \in {<<>>, Tail(inq[sock[c]])} :
          inq' = [inq EXCEPT ![sock[c]] = rest]
    /\ IF Head(inq[sock[c]]) = "req"
       THEN /\ conn' = [conn EXCEPT ![sock[c]] = "closed"]
            /\ Leave(c)
            /\ UNCHANGED done
       ELSE /\ Goto(c, "idle")
            /\ sock' = [sock EXCEPT ![c] = 0]
            /\ op' = [op EXCEPT ![c] = "req"]
            /\ IF op[c] = "stop"
               THEN /\ nType' = [nType EXCEPT ![c] = 0]
                    /\ told' = [told EXCEPT ![c] = NoAnswer]
                    /\ done' = IF Head(inq[sock[c]]) = "stop"
                               THEN done \cup {asked[c]} ELSE done
               ELSE UNCHANGED <<nType, told, done>>
            /\ UNCHANGED <<asked, conn>>
    /\ UNCHANGED <<answer, g_sSend, center, owed, jobOf, stored, nreq, sent>>

\* recv() returns 0 or an error.
ReceiveFails(c) ==
    /\ pc[c] = "recv"
    /\ Conn(sock[c]) = "ended" => inq[sock[c]] = <<>>
    /\ Conn(sock[c]) # "open"
    /\ conn' = IF sock[c] = 0 THEN conn ELSE [conn EXCEPT ![sock[c]] = "closed"]
    /\ Leave(c)
    /\ UNCHANGED <<answer, g_sSend, center, owed, inq, jobOf, stored, progress>>

Client(c) ==
    \/ Disconnect(c) \/ RequestSend(c) \/ Request(c)
    \/ SendFaxData(c) \/ SendFaxEnd(c) \/ GetRSAPacket(c)
    \/ ReceiveReply(c) \/ ReceiveFails(c)

-----------------------------------------------------------------------------
(* The receiver thread: onSendRequestReply writes the code, then the UUID  *)
(* with the address, and sets the event.                                   *)

\* Mutant of FirstHalf: the event is set before the UUID is written.
CodeAndEvent(code) ==
    g_bySendCode' = code /\ g_hSendRequest' = TRUE /\ UNCHANGED g_strUUID

FirstHalf(code) ==
    g_bySendCode' = code /\ UNCHANGED <<g_hSendRequest, g_strUUID>>

ReplyCode(r) ==
    /\ rx = 0 /\ r \in pending
    /\ rx' = r /\ pending' = pending \ {r}
    /\ \E code \in 0 .. 1 : FirstHalf(code)
    /\ UNCHANGED <<pc, session, g_sSend, server, progress>>

ReplyRest ==
    /\ rx # 0
    /\ rx' = 0
    /\ g_strUUID' = rx
    /\ g_hSendRequest' = TRUE
    /\ UNCHANGED <<pc, session, g_bySendCode, g_sSend, pending, server, progress>>

Receiver == ReplyRest \/ \E r \in Reqs : ReplyCode(r)

-----------------------------------------------------------------------------
(* The file server answers in order, or never, or goes away.               *)

ServerAnswers(s) ==
    /\ conn[s] = "open" /\ owed[s] # <<>>
    /\ inq' = [inq EXCEPT ![s] = Append(@, Head(owed[s]))]
    /\ owed' = [owed EXCEPT ![s] = Tail(@)]
    /\ UNCHANGED <<pc, session, answer, g_sSend, center, conn, jobOf, stored,
                   progress>>

ServerForgets(s) ==
    /\ conn[s] = "open" /\ owed[s] # <<>>
    /\ owed' = [owed EXCEPT ![s] = <<>>]
    /\ UNCHANGED <<pc, session, answer, g_sSend, center, conn, inq, jobOf, stored,
                   progress>>

ServerCloses(s) ==
    /\ conn[s] = "open"
    /\ conn' = [conn EXCEPT ![s] = "ended"]
    /\ owed' = [owed EXCEPT ![s] = <<>>]
    /\ UNCHANGED <<pc, session, answer, g_sSend, center, inq, jobOf, stored,
                   progress>>

Server(s) == ServerAnswers(s) \/ ServerForgets(s) \/ ServerCloses(s)

Step ==
    \/ \E c \in Clients : Client(c)
    \/ Receiver
    \/ \E s \in Reqs : Server(s)

-----------------------------------------------------------------------------
(* What gets into a request's way.  There is one answer and one connection *)
(* for all clients: a request is crossed if, from REQUESTSEND to its       *)
(* answer, another client is in one as well or the center still has an     *)
(* answer to another one (a late one, perhaps); it is shared if, until its *)
(* document or its session has ended, another client is in that, too.      *)

Asks(c) == pc[c] \in Requesting
Engaged(c) == Asks(c) \/ pc[c] \in {"await", "recv"}
                      \/ (pc[c] = "idle" /\ told[c].code = 1)

Clear(c) ==
    /\ \A d \in Clients \ {c} : ~Asks(d)
    /\ pending \cup {rx} \subseteq {0, asked[c]}

Crossing == {asked[c] : c \in {d \in Clients : Asks(d) /\ ~Clear(d)}}

Sharing == {asked[c] : c \in {d \in Clients :
                Engaged(d) /\ \E e \in Clients \ {d} : Engaged(e)}}

Remember == crossed' = crossed \cup Crossing' /\ shared' = shared \cup Sharing'

Next == Step /\ Remember

Spec == Init /\ [][Next]_vars

(* The client threads run and their waits end.  Neither the center nor the *)
(* file server needs to answer.                                            *)
Fairness == \A c \in Clients : WF_vars(Request(c) /\ Remember)

FairSpec == Spec /\ Fairness
-----------------------------------------------------------------------------
(* Properties.                                                             *)

(* The job a client is told is the one the center gave to its own request. *)
(* (FileSession.cpp:1387-1422, TcpSession.cpp:568-584)                     *)
OwnJob == \A c \in Clients : told[c].uuid # 0 => told[c].uuid = asked[c]

(* That holds of every request that met no other: whatever happened to     *)
(* those before it, whose answers may have come late, to the wrong client  *)
(* or not at all, the globals and the event are good again for the next.   *)
(* (FileSession.cpp:1387-1422, TcpSession.cpp:568-584)                     *)
OwnJobUncrossed ==
    \A c \in Clients :
        told[c].uuid # 0 /\ asked[c] \notin crossed => told[c].uuid = asked[c]

(* A client that was told yes may send, and one that was told no may ask   *)
(* again: nType agrees with the answer although it is set from the globals *)
(* once more after the answer has been sent, unless another request came   *)
(* across.  (FileSession.cpp:1420-1446)                                    *)
StateMatchesAnswer ==
    \A c \in Clients :
        pc[c] = "idle" /\ asked[c] \notin crossed
            => (told[c].code = 1 <=> nType[c] = 1)

(* A document the client was told is complete has been stored completely,  *)
(* in order, under the client's own job, and no job gets another one's     *)
(* blocks, unless its request got into another one's way: a file server    *)
(* that is slow to answer, goes away or forgets does not confuse them.     *)
(* (FileSession.cpp:1181, 1200-1230, 1470, 1486)                           *)
Delivered ==
    /\ \A r \in done \ (crossed \cup shared) :
          /\ sent[r] <= Len(stored[r])
          /\ \A k \in 1 .. sent[r] : stored[r][k] = <<r, k>>
    /\ \A r \in Reqs : \A k \in 1 .. Len(stored[r]) :
          stored[r][k][1] # r => stored[r][k][1] \in crossed \cup shared

(* Every request ends: it is answered or the session is closed, however    *)
(* long the center and the file server are silent and whatever the other   *)
(* clients do to the event.  (FileSession.cpp:1391-1401, 1144-1187)        *)
RequestEnds ==
    \A c \in Clients : Asks(c) ~> pc[c] = "idle"
=============================================================================
