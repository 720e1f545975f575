-------------------------- MODULE SendSessionProofs --------------------------
(***************************************************************************)
(* Proofs about SendSession, for any number of clients, requests and       *)
(* blocks, however late answers come and whatever the clients do at the    *)
(* same time: its types; that a client whose request met no other is told  *)
(* its own job and is in the state it was told; and that its document,     *)
(* unless g_sSend was shared, is stored when it is told so.                *)
(***************************************************************************)
EXTENDS SendSession, SequenceTheorems, TLAPS

\* A client that is in the middle of a request or a transfer has asked.
AskedInv ==
    \A c \in Clients :
        /\ pc[c] \in Requesting \cup {"await", "recv"} => asked[c] # 0
        /\ told[c].code = 1 => asked[c] # 0

\* The parts of TypeOK: the client threads, the answer of the center, the
\* connections to the file server, the documents, the history.
ClientType ==
    /\ pc \in [Clients -> PCs] /\ nType \in [Clients -> 0 .. 1]
    /\ asked \in [Clients -> 0 .. MaxReq]
    /\ told \in [Clients -> [code : 0 .. 1, uuid : 0 .. MaxReq]]
    /\ sock \in [Clients -> 0 .. MaxReq] /\ op \in [Clients -> Kinds]
    /\ AskedInv

AnswerType ==
    /\ g_hSendRequest \in BOOLEAN /\ g_bySendCode \in 0 .. 1
    /\ g_strUUID \in 0 .. MaxReq /\ g_sSend \in 0 .. MaxReq
    /\ pending \subseteq Reqs /\ rx \in 0 .. MaxReq /\ nreq \in 0 .. MaxReq

ServerType ==
    /\ conn \in [Reqs -> {"none", "new", "open", "ended", "closed"}]
    /\ owed \in [Reqs -> Seq(Kinds)] /\ inq \in [Reqs -> Seq(Kinds)]
    /\ jobOf \in [Reqs -> 0 .. MaxReq]

DocumentType ==
    /\ stored \in [Reqs -> Seq(Reqs \X (1 .. MaxBlocks))]
    /\ sent \in [Reqs -> 0 .. MaxBlocks] /\ done \subseteq Reqs

HistoryType == crossed \subseteq Reqs /\ shared \subseteq Reqs

TypeInv == ClientType /\ AnswerType /\ ServerType /\ DocumentType /\ HistoryType

-----------------------------------------------------------------------------
(* Types.                                                                  *)

LEMMA TypeParts == TypeInv => TypeOK
  BY DEF TypeInv, TypeOK, ClientType, AnswerType, ServerType, DocumentType, HistoryType

LEMMA InitTypeInv == Init => TypeInv
<1> SUFFICES ASSUME Init PROVE TypeInv
  OBVIOUS
<1> USE NumberAssumption DEF Init, Reqs
<1>1. ClientType
  BY DEF ClientType, AskedInv, PCs, Requesting, Kinds, NoAnswer
<1>2. AnswerType
  <2>1. g_hSendRequest \in BOOLEAN
    BY ONLY Init DEF Init
  <2> QED BY <2>1 DEF AnswerType
<1>3. ServerType
  BY DEF ServerType
<1>4. DocumentType
  BY DEF DocumentType
<1>5. HistoryType
  BY DEF HistoryType
<1> QED BY <1>1, <1>2, <1>3, <1>4, <1>5 DEF TypeInv

\* The steps of a thread inside a command.
Transfer(c) ==
    \/ SendFaxData(c) \/ SendFaxEnd(c) \/ GetRSAPacket(c)
    \/ ReceiveReply(c) \/ ReceiveFails(c)

\* Most steps of a client thread only move it on.
LEMMA Moves ==
    ASSUME TypeInv, NEW c \in Clients, NEW label \in PCs, Goto(c, label),
           label \in Requesting \cup {"await", "recv"}
              => pc[c] \in Requesting \cup {"await", "recv"},
           UNCHANGED session
    PROVE  ClientType'
<1>1. pc' \in [Clients -> PCs]
  BY DEF TypeInv, ClientType, Goto
<1>2. \A d \in Clients : pc'[d] = IF d = c THEN label ELSE pc[d]
  BY DEF TypeInv, ClientType, Goto
<1>3. AskedInv'
  BY <1>2 DEF TypeInv, ClientType, AskedInv, session
<1> QED BY <1>1, <1>3 DEF TypeInv, ClientType, session

\* A session that ends makes room for the next one.
LEMMA LeaveClient ==
    ASSUME TypeInv, NEW c \in Clients, Leave(c)
    PROVE  /\ ClientType'
           /\ pc'[c] = "idle" /\ nType'[c] = 0 /\ asked'[c] = 0 /\ told'[c] = NoAnswer
<1>0. NoAnswer \in [code : 0 .. 1, uuid : 0 .. MaxReq] /\ NoAnswer.code = 0
  BY NumberAssumption DEF NoAnswer
<1>1. /\ pc' \in [Clients -> PCs] /\ nType' \in [Clients -> 0 .. 1]
      /\ asked' \in [Clients -> 0 .. MaxReq]
      /\ sock' \in [Clients -> 0 .. MaxReq] /\ op' \in [Clients -> Kinds]
  BY NumberAssumption DEF Leave, Goto, TypeInv, ClientType, PCs, Kinds
<1>2. told' \in [Clients -> [code : 0 .. 1, uuid : 0 .. MaxReq]]
  BY <1>0 DEF Leave, TypeInv, ClientType
<1>3. pc'[c] = "idle" /\ nType'[c] = 0 /\ asked'[c] = 0 /\ told'[c] = NoAnswer
  BY DEF Leave, Goto, TypeInv, ClientType
<1>4. \A d \in Clients : d # c => /\ pc'[d] = pc[d] /\ told'[d] = told[d]
                                  /\ asked'[d] = asked[d]
  BY DEF Leave, Goto, TypeInv, ClientType
<1>5. AskedInv'
  BY <1>0, <1>3, <1>4 DEF TypeInv, ClientType, AskedInv, Requesting
<1> QED BY <1>1, <1>2, <1>3, <1>5 DEF ClientType

LEMMA RequestClient ==
    ASSUME TypeInv, NEW c \in Clients, Request(c) PROVE ClientType'
<1> USE DEF Requesting, PCs
<1>1. CASE onSendRequest(c)
  BY <1>1, Moves DEF onSendRequest
<1>2. CASE WaitAnswer(c)
  BY <1>2, Moves DEF WaitAnswer
<1>3. CASE WaitTimeout(c)
  BY <1>3, LeaveClient DEF WaitTimeout
<1>4. CASE Decide(c)
  BY <1>4, Moves DEF Decide
<1>5. CASE OpenSocket(c)
  BY <1>5, Moves DEF OpenSocket, Refuse
<1>6. CASE ConnectServer(c)
  BY <1>6, Moves DEF ConnectServer, Refuse
<1>7. CASE RequestFile(c)
  BY <1>7, Moves DEF RequestFile, Refuse
<1>8. CASE SelectReply(c)
  BY <1>8, Moves DEF SelectReply, Refuse
<1>9. CASE Answer(c)
  <2>1. CASE Leave(c)
    BY <2>1, LeaveClient
  <2>2. CASE /\ told' = [told EXCEPT ![c] =
                            [code |-> g_bySendCode, uuid |-> g_strUUID]]
             /\ Goto(c, "settle")
             /\ UNCHANGED <<nType, asked, sock, op>>
    <3>1. told' \in [Clients -> [code : 0 .. 1, uuid : 0 .. MaxReq]]
      BY <2>2 DEF TypeInv, ClientType, AnswerType
    <3>2. pc' \in [Clients -> PCs] /\ asked' = asked /\ asked[c] # 0
      BY <1>9, <2>2 DEF Answer, Goto, TypeInv, ClientType, AskedInv
    <3>3. \A d \in Clients : d # c => pc'[d] = pc[d] /\ told'[d] = told[d]
      BY <2>2 DEF Goto, TypeInv, ClientType
    <3>4. AskedInv'
      BY <3>2, <3>3 DEF TypeInv, ClientType, AskedInv
    <3> QED BY <2>2, <3>1, <3>2, <3>4 DEF TypeInv, ClientType
  <2> QED BY <1>9, <2>1, <2>2 DEF Answer
<1>10. CASE Settle(c)
  <2>1. nType' \in [Clients -> 0 .. 1]
    BY <1>10 DEF Settle, Settled, TypeInv, ClientType
  <2>2. pc' \in [Clients -> PCs]
        /\ \A d \in Clients : pc'[d] = IF d = c THEN "idle" ELSE pc[d]
    BY <1>10 DEF Settle, Goto, TypeInv, ClientType
  <2>3. AskedInv'
    BY <1>10, <2>2 DEF Settle, TypeInv, ClientType, AskedInv
  <2> QED BY <1>10, <2>1, <2>2, <2>3 DEF Settle, TypeInv, ClientType
<1> QED
  BY <1>1, <1>2, <1>3, <1>4, <1>5, <1>6, <1>7, <1>8, <1>9, <1>10 DEF Request

LEMMA TransferClient ==
    ASSUME TypeInv, NEW c \in Clients, Transfer(c) PROVE ClientType'
<1> USE DEF Requesting, PCs
<1>1. CASE Leave(c)
  BY <1>1, LeaveClient
<1>2. CASE (SendFaxData(c) \/ SendFaxEnd(c)) /\ ~Leave(c)
  <2>1. Goto(c, "await")
    BY <1>2 DEF SendFaxData, SendFaxEnd
  <2>2. PICK kind \in Kinds : op' = [op EXCEPT ![c] = kind]
    BY <1>2 DEF SendFaxData, SendFaxEnd, Kinds
  <2>3. told[c].code = 1 /\ UNCHANGED <<nType, asked, told, sock>>
    BY <1>2 DEF SendFaxData, SendFaxEnd
  <2>4. pc' \in [Clients -> PCs] /\ op' \in [Clients -> Kinds]
        /\ \A d \in Clients : d # c => pc'[d] = pc[d]
    BY <2>1, <2>2 DEF Goto, TypeInv, ClientType
  <2>5. AskedInv'
    BY <2>3, <2>4 DEF TypeInv, ClientType, AskedInv
  <2> QED BY <2>3, <2>4, <2>5 DEF TypeInv, ClientType
<1>3. CASE GetRSAPacket(c)
  <2>1. pc' \in [Clients -> PCs] /\ sock' \in [Clients -> 0 .. MaxReq]
        /\ \A d \in Clients : pc'[d] = IF d = c THEN "recv" ELSE pc[d]
    BY <1>3 DEF GetRSAPacket, Goto, TypeInv, ClientType, AnswerType
  <2>2. pc[c] = "await" /\ UNCHANGED <<nType, asked, told, op>>
    BY <1>3 DEF GetRSAPacket
  <2>3. AskedInv'
    BY <2>1, <2>2 DEF TypeInv, ClientType, AskedInv
  <2> QED BY <2>1, <2>2, <2>3 DEF TypeInv, ClientType
<1>4. CASE ReceiveReply(c) /\ ~Leave(c)
  <2>1. Goto(c, "idle")
    BY <1>4 DEF ReceiveReply
  <2>2. /\ nType' \in {nType, [nType EXCEPT ![c] = 0]}
        /\ told' \in {told, [told EXCEPT ![c] = NoAnswer]}
        /\ sock' = [sock EXCEPT ![c] = 0] /\ op' = [op EXCEPT ![c] = "req"]
        /\ UNCHANGED asked
    BY <1>4 DEF ReceiveReply
  <2>3. NoAnswer \in [code : 0 .. 1, uuid : 0 .. MaxReq] /\ NoAnswer.code = 0
    BY NumberAssumption DEF NoAnswer
  <2>4. /\ pc' \in [Clients -> PCs] /\ nType' \in [Clients -> 0 .. 1]
        /\ sock' \in [Clients -> 0 .. MaxReq] /\ op' \in [Clients -> Kinds]
    BY <2>1, <2>2, NumberAssumption DEF Goto, TypeInv, ClientType, Kinds
  <2>5. told' \in [Clients -> [code : 0 .. 1, uuid : 0 .. MaxReq]]
    BY <2>2, <2>3 DEF TypeInv, ClientType
  <2>6. \A d \in Clients :
            /\ pc'[d] = IF d = c THEN "idle" ELSE pc[d]
            /\ told'[d] = told[d] \/ told'[d].code = 0
    BY <2>1, <2>2, <2>3 DEF Goto, TypeInv, ClientType
  <2>7. AskedInv'
    BY <2>2, <2>6 DEF TypeInv, ClientType, AskedInv
  <2> QED BY <2>2, <2>4, <2>5, <2>7 DEF TypeInv, ClientType
<1>5. CASE ReceiveFails(c)
  BY <1>1, <1>5 DEF ReceiveFails
<1> QED BY <1>1, <1>2, <1>3, <1>4, <1>5 DEF Transfer

LEMMA ClientStep ==
    ASSUME TypeInv, NEW c \in Clients, Client(c) PROVE ClientType'
<1> USE DEF Requesting, PCs
<1>1. CASE Leave(c)
  BY <1>1, LeaveClient
<1>2. CASE Disconnect(c)
  BY <1>1, <1>2 DEF Disconnect
<1>3. CASE RequestSend(c) /\ ~Leave(c)
  <2>1. nreq + 1 \in 1 .. MaxReq
    BY <1>3, NumberAssumption DEF RequestSend, TypeInv, AnswerType
  <2>2. /\ Goto(c, "ask") /\ nType' = [nType EXCEPT ![c] = 1]
        /\ asked' = [asked EXCEPT ![c] = nreq + 1]
        /\ told' = [told EXCEPT ![c] = NoAnswer] /\ UNCHANGED <<sock, op>>
    BY <1>3 DEF RequestSend
  <2>3. NoAnswer \in [code : 0 .. 1, uuid : 0 .. MaxReq] /\ NoAnswer.code = 0
    BY NumberAssumption DEF NoAnswer
  <2>4. /\ pc' \in [Clients -> PCs] /\ nType' \in [Clients -> 0 .. 1]
        /\ asked' \in [Clients -> 0 .. MaxReq]
        /\ UNCHANGED <<sock, op>>
    BY <2>1, <2>2 DEF Goto, TypeInv, ClientType
  <2>5. told' \in [Clients -> [code : 0 .. 1, uuid : 0 .. MaxReq]]
    BY <2>2, <2>3 DEF TypeInv, ClientType
  <2>6. /\ asked'[c] # 0
        /\ \A d \in Clients : d # c => /\ pc'[d] = pc[d] /\ told'[d] = told[d]
                                       /\ asked'[d] = asked[d]
    BY <2>1, <2>2 DEF Goto, TypeInv, ClientType
  <2>7. AskedInv'
    BY <2>6 DEF TypeInv, ClientType, AskedInv
  <2> QED BY <2>4, <2>5, <2>7 DEF TypeInv, ClientType
<1> QED
  BY <1>1, <1>2, <1>3, RequestClient, TransferClient DEF Client, Transfer

\* The steps of the other threads do not touch the client's variables.
LEMMA OthersClient ==
    ASSUME TypeInv, Receiver \/ (\E s \in Reqs : Server(s)) PROVE ClientType'
<1>1. UNCHANGED <<pc, session>>
  BY DEF Receiver, ReplyRest, ReplyCode, Server, ServerAnswers, ServerForgets,
         ServerCloses
<1> QED BY <1>1 DEF TypeInv, ClientType, AskedInv, session

-----------------------------------------------------------------------------
LEMMA AnswerStep ==
    ASSUME TypeInv, NEW c \in Clients, Client(c) PROVE AnswerType'
<1> USE DEF TypeInv, AnswerType, Reqs
<1>1. CASE Disconnect(c)
  BY <1>1 DEF Disconnect, answer, center, progress
<1>2. CASE RequestSend(c)
  <2>1. nreq' \in 0 .. MaxReq
    BY <1>2, NumberAssumption DEF RequestSend
  <2>2. g_hSendRequest' \in BOOLEAN
    BY ONLY <1>2, TypeInv DEF RequestSend, TypeInv, AnswerType
  <2>3. UNCHANGED <<g_bySendCode, g_strUUID, g_sSend, center>>
    BY <1>2 DEF RequestSend
  <2> QED BY <2>1, <2>2, <2>3 DEF center
<1>3. CASE onSendRequest(c)
  <2>1. asked[c] \in Reqs
    BY <1>3 DEF onSendRequest, ClientType, AskedInv, Requesting
  <2>2. pending' \subseteq Reqs
    BY <1>3, <2>1 DEF onSendRequest
  <2>3. UNCHANGED <<answer, g_sSend, rx, nreq>>
    BY <1>3 DEF onSendRequest, progress
  <2> QED BY <2>2, <2>3 DEF answer
<1>4. CASE WaitAnswer(c)
  <2>1. g_hSendRequest' \in BOOLEAN
    BY ONLY <1>4 DEF WaitAnswer
  <2>2. UNCHANGED <<g_bySendCode, g_strUUID, g_sSend, center, nreq>>
    BY <1>4 DEF WaitAnswer, progress
  <2> QED BY <2>1, <2>2 DEF center
<1>5. CASE WaitTimeout(c) \/ Decide(c) \/ Answer(c) \/ Settle(c)
  BY <1>5 DEF WaitTimeout, Decide, Answer, Settle, answer, center, progress
<1>6. CASE OpenSocket(c)
  <2>1. asked[c] \in Reqs
    BY <1>6 DEF OpenSocket, ClientType, AskedInv, Requesting
  <2>2. g_sSend' \in {g_sSend, 0, asked[c]} /\ g_bySendCode' \in {g_bySendCode, 0}
    BY <1>6 DEF OpenSocket, Refuse
  <2>3. UNCHANGED <<g_hSendRequest, g_strUUID, center, nreq>>
    BY <1>6 DEF OpenSocket, progress
  <2> QED BY <2>1, <2>2, <2>3, NumberAssumption DEF center
<1>7. CASE ConnectServer(c) \/ RequestFile(c) \/ SelectReply(c)
  <2>1. g_sSend' \in {g_sSend, 0} /\ g_bySendCode' \in {g_bySendCode, 0}
    BY <1>7 DEF ConnectServer, RequestFile, SelectReply, Refuse, DropServer
  <2>2. UNCHANGED <<g_hSendRequest, g_strUUID, center, nreq>>
    BY <1>7 DEF ConnectServer, RequestFile, SelectReply, progress
  <2> QED BY <2>1, <2>2, NumberAssumption DEF center
<1>8. CASE Transfer(c)
  <2>1. UNCHANGED <<answer, g_sSend, center, nreq>>
    BY <1>8 DEF Transfer, SendFaxData, SendFaxEnd, GetRSAPacket, ReceiveReply,
                ReceiveFails, progress
  <2> QED BY <2>1 DEF answer, center
<1> QED
  BY <1>1, <1>2, <1>3, <1>4, <1>5, <1>6, <1>7, <1>8 DEF Client, Request, Transfer

LEMMA OthersAnswer ==
    ASSUME TypeInv, Receiver \/ (\E s \in Reqs : Server(s)) PROVE AnswerType'
<1> USE DEF TypeInv, AnswerType, Reqs
<1>1. CASE ReplyRest
  <2>1. g_hSendRequest' \in BOOLEAN
    BY ONLY <1>1 DEF ReplyRest
  <2>2. rx' = 0 /\ g_strUUID' = rx
        /\ UNCHANGED <<g_bySendCode, g_sSend, pending, nreq>>
    BY <1>1 DEF ReplyRest, progress
  <2> QED BY <2>1, <2>2, NumberAssumption
<1>2. ASSUME NEW r \in Reqs, ReplyCode(r) PROVE AnswerType'
  <2>1. UNCHANGED <<g_hSendRequest, g_strUUID, g_sSend, nreq>>
    BY <1>2 DEF ReplyCode, FirstHalf, progress
  <2>2. g_bySendCode' \in 0 .. 1 /\ rx' = r /\ pending' = pending \ {r}
    BY <1>2 DEF ReplyCode, FirstHalf
  <2> QED BY <2>1, <2>2
<1>3. CASE \E s \in Reqs : Server(s)
  <2>1. UNCHANGED <<answer, g_sSend, center, nreq>>
    BY <1>3 DEF Server, ServerAnswers, ServerForgets, ServerCloses, progress
  <2> QED BY <2>1 DEF answer, center
<1> QED
  BY <1>1, <1>2, <1>3 DEF Receiver

-----------------------------------------------------------------------------
\* A packet that is sent is one more of its kind that the server owes.
LEMMA SentType ==
    ASSUME TypeInv, NEW s \in 0 .. MaxReq, NEW kind \in Kinds, Sent(s, kind)
    PROVE  owed' \in [Reqs -> Seq(Kinds)] /\ s \in Reqs
<1>1. s \in Reqs
  BY DEF Sent, Conn, Reqs
<1>2. owed[s] \in Seq(Kinds)
  BY <1>1 DEF TypeInv, ServerType
<1>3. Append(owed[s], kind) \in Seq(Kinds)
  BY <1>2
<1>4. owed' \in {owed, [owed EXCEPT ![s] = Append(owed[s], kind)]}
  BY DEF Sent
<1> QED BY <1>1, <1>3, <1>4 DEF TypeInv, ServerType

LEMMA ServerStep ==
    ASSUME TypeInv, NEW c \in Clients, Client(c) PROVE ServerType'
<1> DEFINE Conns == {"none", "new", "open", "ended", "closed"}
<1> USE DEF TypeInv, ServerType
<1>0. g_sSend \in 0 .. MaxReq /\ g_strUUID \in 0 .. MaxReq
  BY DEF AnswerType
<1>1. CASE \/ Disconnect(c) \/ RequestSend(c) \/ onSendRequest(c)
           \/ WaitAnswer(c) \/ WaitTimeout(c) \/ Decide(c) \/ Answer(c)
           \/ Settle(c) \/ GetRSAPacket(c)
  <2>1. UNCHANGED server
    BY <1>1 DEF Disconnect, RequestSend, onSendRequest, WaitAnswer,
                WaitTimeout, Decide, Answer, Settle, GetRSAPacket
  <2> QED BY <2>1 DEF server
<1>2. CASE OpenSocket(c) \/ ConnectServer(c)
  <2>1. /\ UNCHANGED <<owed, inq, jobOf>>
        /\ \/ conn' = conn
           \/ \E s \in {asked[c], g_sSend}, to \in Conns :
                 conn' = [conn EXCEPT ![s] = to]
    BY <1>2 DEF OpenSocket, ConnectServer, Refuse, DropServer
  <2> QED BY <2>1
<1>3. CASE RequestFile(c)
  <2>1. CASE Sent(g_sSend, "req") /\ jobOf' = [jobOf EXCEPT ![g_sSend] = g_strUUID]
             /\ UNCHANGED conn
    <3>1. owed' \in [Reqs -> Seq(Kinds)] /\ g_sSend \in Reqs
      BY <1>0, <2>1, SentType DEF Kinds
    <3>2. jobOf' \in [Reqs -> 0 .. MaxReq]
      BY <1>0, <2>1, <3>1
    <3> QED BY <1>3, <2>1, <3>1, <3>2 DEF RequestFile
  <2>2. CASE DropServer /\ UNCHANGED <<owed, jobOf>>
    <3>1. conn' \in [Reqs -> Conns]
      BY <2>2 DEF DropServer
    <3> QED BY <1>3, <2>2, <3>1 DEF RequestFile
  <2> QED BY <1>3, <2>1, <2>2 DEF RequestFile
<1>4. CASE SelectReply(c)
  <2>1. conn' \in [Reqs -> Conns]
    BY <1>4 DEF SelectReply, DropServer
  <2>2. inq' \in {inq, [inq EXCEPT ![g_sSend] = <<>>]}
    BY <1>4 DEF SelectReply
  <2>3. UNCHANGED <<owed, jobOf>>
    BY <1>4 DEF SelectReply
  <2>4. inq' \in [Reqs -> Seq(Kinds)]
    <3>1. <<>> \in Seq(Kinds) /\ inq \in [Reqs -> Seq(Kinds)]
      OBVIOUS
    <3> QED BY ONLY <2>2, <3>1
  <2> QED BY <2>1, <2>3, <2>4
<1>5. CASE SendFaxData(c) \/ SendFaxEnd(c)
  <2>1. UNCHANGED <<conn, inq, jobOf>>
    BY <1>5 DEF SendFaxData, SendFaxEnd
  <2>2. PICK kind \in Kinds : Sent(g_sSend, kind) \/ UNCHANGED owed
    BY <1>5 DEF SendFaxData, SendFaxEnd, Kinds
  <2>3. owed' \in [Reqs -> Seq(Kinds)]
    BY <1>0, <2>2, SentType
  <2> QED BY <2>1, <2>3
<1>6. CASE ReceiveReply(c)
  <2>1. sock[c] \in Reqs /\ inq[sock[c]] \in Seq(Kinds) /\ inq[sock[c]] # <<>>
    BY <1>6 DEF ReceiveReply, ClientType, Conn, Reqs
  <2>2. Tail(inq[sock[c]]) \in Seq(Kinds)
    BY <2>1
  <2>3. PICK rest \in {<<>>, Tail(inq[sock[c]])} :
             inq' = [inq EXCEPT ![sock[c]] = rest]
    BY <1>6 DEF ReceiveReply
  <2>4. inq' \in [Reqs -> Seq(Kinds)]
    <3>1. <<>> \in Seq(Kinds) /\ inq \in [Reqs -> Seq(Kinds)]
      OBVIOUS
    <3>2. rest \in Seq(Kinds)
      BY ONLY <2>2, <2>3, <3>1
    <3> QED BY ONLY <2>3, <3>1, <3>2
  <2>5. conn' \in [Reqs -> Conns] /\ UNCHANGED <<owed, jobOf>>
    BY <1>6 DEF ReceiveReply
  <2> QED BY <2>4, <2>5
<1>7. CASE ReceiveFails(c)
  BY <1>7 DEF ReceiveFails
<1> QED
  BY <1>1, <1>2, <1>3, <1>4, <1>5, <1>6, <1>7 DEF Client, Request

LEMMA OthersServer ==
    ASSUME TypeInv, Receiver \/ (\E s \in Reqs : Server(s)) PROVE ServerType'
<1> USE DEF TypeInv, ServerType
<1>1. CASE Receiver
  BY <1>1 DEF Receiver, ReplyRest, ReplyCode, server
<1>2. ASSUME NEW s \in Reqs, Server(s) PROVE ServerType'
  <2>1. CASE ServerAnswers(s)
    <3>1. owed[s] \in Seq(Kinds) /\ owed[s] # <<>> /\ inq[s] \in Seq(Kinds)
      BY <2>1 DEF ServerAnswers
    <3>2. Head(owed[s]) \in Kinds /\ Tail(owed[s]) \in Seq(Kinds)
      BY <3>1
    <3>3. Append(inq[s], Head(owed[s])) \in Seq(Kinds)
      BY <3>1, <3>2
    <3> QED BY <2>1, <3>2, <3>3 DEF ServerAnswers
  <2>2. CASE ServerForgets(s)
    <3>1. <<>> \in Seq(Kinds) /\ owed \in [Reqs -> Seq(Kinds)]
      OBVIOUS
    <3>2. owed' = [owed EXCEPT ![s] = <<>>]
      BY <2>2 DEF ServerForgets
    <3>3. owed' \in [Reqs -> Seq(Kinds)]
      BY ONLY <3>1, <3>2
    <3> QED BY <2>2, <3>3 DEF ServerForgets
  <2>3. CASE ServerCloses(s)
    BY <2>3 DEF ServerCloses
  <2> QED BY <1>2, <2>1, <2>2, <2>3 DEF Server
<1> QED BY <1>1, <1>2

-----------------------------------------------------------------------------
LEMMA DocumentStep ==
    ASSUME TypeInv, NEW c \in Clients, Client(c) PROVE DocumentType'
<1> USE DEF TypeInv, DocumentType
<1>1. CASE SendFaxData(c)
  <2>1. asked[c] \in Reqs /\ sent[asked[c]] < MaxBlocks
    BY <1>1 DEF SendFaxData, ClientType, AskedInv, Reqs
  <2>2. sent[asked[c]] + 1 \in 1 .. MaxBlocks
    BY <2>1, NumberAssumption
  <2>3. sent' \in [Reqs -> 0 .. MaxBlocks]
    <3>1. sent' \in {sent, [sent EXCEPT ![asked[c]] = sent[asked[c]] + 1]}
      BY <1>1 DEF SendFaxData
    <3> QED BY <2>1, <2>2, <3>1
  <2>4. CASE Sent(g_sSend, "send") /\ Store(g_sSend, Block(c))
    <3>1. Block(c) \in Reqs \X (1 .. MaxBlocks)
      BY <2>1, <2>2 DEF Block
    <3>2. g_sSend \in Reqs
      BY <2>4 DEF Sent, Conn, AnswerType, Reqs
    <3>3. jobOf[g_sSend] \in 0 .. MaxReq
      BY <3>2 DEF ServerType
    <3> HIDE DEF Block
    <3>4. CASE jobOf[g_sSend] # 0
      <4>1. jobOf[g_sSend] \in Reqs
        BY <3>3, <3>4 DEF Reqs
      <4>2. Append(stored[jobOf[g_sSend]], Block(c)) \in Seq(Reqs \X (1 .. MaxBlocks))
        BY <3>1, <4>1
      <4>3. stored' \in {stored, [stored EXCEPT ![jobOf[g_sSend]] =
                                     Append(stored[jobOf[g_sSend]], Block(c))]}
        BY <2>4 DEF Store
      <4> QED BY <1>1, <2>3, <4>1, <4>2, <4>3 DEF SendFaxData
    <3>5. CASE jobOf[g_sSend] = 0
      BY <1>1, <2>3, <2>4, <3>5 DEF SendFaxData, Store
    <3> QED BY <3>4, <3>5
  <2>5. CASE UNCHANGED stored
    BY <1>1, <2>3, <2>5 DEF SendFaxData
  <2> QED BY <1>1, <2>4, <2>5 DEF SendFaxData
<1>2. CASE ReceiveReply(c)
  <2>1. asked[c] \in Reqs
    BY <1>2 DEF ReceiveReply, ClientType, AskedInv, Reqs
  <2>2. done' \in {done, done \cup {asked[c]}} /\ UNCHANGED <<stored, sent>>
    BY <1>2 DEF ReceiveReply
  <2> QED BY <2>1, <2>2
<1>3. CASE ~SendFaxData(c) /\ ~ReceiveReply(c)
  <2>1. UNCHANGED <<stored, sent, done>>
    BY <1>3 DEF Client, Disconnect, RequestSend, Request, onSendRequest,
           WaitAnswer, WaitTimeout, Decide, OpenSocket, ConnectServer, RequestFile,
           SelectReply, Answer, Settle, SendFaxEnd, GetRSAPacket, ReceiveFails,
           server, progress
  <2> QED BY <2>1
<1> QED BY <1>1, <1>2, <1>3

LEMMA OthersDocument ==
    ASSUME TypeInv, Receiver \/ (\E s \in Reqs : Server(s)) PROVE DocumentType'
<1>1. UNCHANGED <<stored, sent, done>>
  BY DEF Receiver, ReplyRest, ReplyCode, Server, ServerAnswers, ServerForgets,
         ServerCloses, server, progress
<1> QED BY <1>1 DEF TypeInv, DocumentType

LEMMA HistoryStep == ASSUME TypeInv, ClientType', Remember PROVE HistoryType'
<1>1. \A c \in Clients : Engaged(c)' => asked'[c] \in Reqs
  BY DEF ClientType, AskedInv, Engaged, Asks, Reqs
<1>2. Crossing' \subseteq Reqs /\ Sharing' \subseteq Reqs
  BY <1>1 DEF Crossing, Sharing, Engaged
<1> QED BY <1>2 DEF Remember, TypeInv, HistoryType

LEMMA StepType == TypeInv /\ [Next]_vars => TypeInv'
<1> SUFFICES ASSUME TypeInv, [Next]_vars PROVE TypeInv'
  OBVIOUS
<1>1. CASE UNCHANGED vars
  BY <1>1 DEF vars, session, answer, center, server, progress, TypeInv, ClientType,
              AskedInv, AnswerType, ServerType, DocumentType, HistoryType
<1>2. ASSUME NEW c \in Clients, Client(c), Remember PROVE TypeInv'
  BY <1>2, ClientStep, AnswerStep, ServerStep, DocumentStep, HistoryStep DEF TypeInv
<1>3. CASE (Receiver \/ (\E s \in Reqs : Server(s))) /\ Remember
  BY <1>3, OthersClient, OthersAnswer, OthersServer, OthersDocument, HistoryStep
     DEF TypeInv
<1> QED
  BY <1>1, <1>2, <1>3 DEF Next, Step

(* Every variable keeps its type, whatever answers are late and however    *)
(* many clients ask; nType, of the four values the code gives it, is only  *)
(* 0 or 1 on the sending side.  (FileSession.cpp:1317-1491)                *)
THEOREM SessionTypes == Spec => []TypeOK
<1>1. Spec => []TypeInv
  BY InitTypeInv, StepType, PTL DEF Spec
<1> QED
  BY <1>1, TypeParts, PTL

-----------------------------------------------------------------------------
(* What the rest of the proofs takes for granted: numbers of requests made *)
(* so far, and what the history says of the present.                       *)

Bounds ==
    /\ \A c \in Clients : asked[c] <= nreq /\ sock[c] <= nreq
    /\ g_sSend <= nreq /\ g_strUUID <= nreq /\ rx <= nreq
    /\ \A r \in pending : r <= nreq
    /\ \A r \in Reqs : jobOf[r] <= nreq

\* A client that is in the middle of an uncrossed request has the center to
\* itself, and one whose transfer is not shared is the only one.
HistoryInv ==
    /\ \A c \in Clients : Asks(c) /\ asked[c] \notin crossed => Clear(c)
    /\ \A c, d \in Clients :
          Engaged(c) /\ Engaged(d) /\ asked[c] \notin shared => d = c

BaseInv == TypeInv /\ Bounds /\ HistoryInv

\* What a client's step leaves alone: the other clients; and the answer, unless
\* the client is in a request before or after it.
LEMMA ClientAlone ==
    ASSUME TypeInv, NEW d \in Clients, Client(d)
    PROVE  /\ \A c \in Clients \ {d} :
                  /\ pc'[c] = pc[c] /\ nType'[c] = nType[c] /\ asked'[c] = asked[c]
                  /\ told'[c] = told[c] /\ sock'[c] = sock[c] /\ op'[c] = op[c]
           /\ ~Asks(d) /\ ~Asks(d)' => UNCHANGED <<answer, center>>
<1> USE DEF TypeInv, ClientType, Goto, session, Asks
<1>1. CASE Request(d)
  <2>1. pc[d] \in Requesting
    BY <1>1 DEF Requesting, Request, onSendRequest, WaitAnswer, WaitTimeout, Decide,
           OpenSocket, ConnectServer, RequestFile, SelectReply, Answer, Settle
  <2>2. CASE Leave(d)
    BY <2>1, <2>2 DEF Leave
  <2>3. CASE ~Leave(d)
    <3>1. UNCHANGED <<asked, sock, op>>
      BY <1>1, <2>3 DEF Request, onSendRequest, WaitAnswer, WaitTimeout, Decide,
             OpenSocket, ConnectServer, RequestFile, SelectReply, Answer, Settle
    <3>2. \A c \in Clients \ {d} : pc'[c] = pc[c]
      BY <1>1, <2>3 DEF Request, onSendRequest, WaitAnswer, WaitTimeout, Decide, Refuse,
             OpenSocket, ConnectServer, RequestFile, SelectReply, Answer, Settle
    <3>3. \A c \in Clients \ {d} : nType'[c] = nType[c] /\ told'[c] = told[c]
      BY <1>1, <2>3 DEF Request, onSendRequest, WaitAnswer, WaitTimeout, Decide,
             OpenSocket, ConnectServer, RequestFile, SelectReply, Answer, Settle
    <3> QED BY <2>1, <3>1, <3>2, <3>3
  <2> QED BY <2>2, <2>3
<1>2. CASE RequestSend(d)
  <2>1. pc'[d] # "ask" => UNCHANGED <<answer, center>>
    BY <1>2 DEF RequestSend, answer
  <2>2. \A c \in Clients \ {d} :
           /\ pc'[c] = pc[c] /\ nType'[c] = nType[c] /\ asked'[c] = asked[c]
           /\ told'[c] = told[c] /\ sock'[c] = sock[c] /\ op'[c] = op[c]
    BY <1>2 DEF RequestSend, Leave
  <2> QED BY <2>1, <2>2 DEF Requesting
<1>3. CASE Disconnect(d) \/ GetRSAPacket(d) \/ ReceiveFails(d)
  BY <1>3 DEF Disconnect, GetRSAPacket, ReceiveFails, Leave
<1>4. CASE SendFaxData(d) \/ SendFaxEnd(d)
  <2>1. UNCHANGED <<answer, center>>
    BY <1>4 DEF SendFaxData, SendFaxEnd
  <2> QED BY <1>4, <2>1 DEF SendFaxData, SendFaxEnd, Leave
<1>5. CASE ReceiveReply(d)
  <2>1. UNCHANGED <<answer, center>>
    BY <1>5 DEF ReceiveReply
  <2> QED BY <1>5, <2>1 DEF ReceiveReply, Leave
<1> QED BY <1>1, <1>2, <1>3, <1>4, <1>5 DEF Client

\* The other threads leave the clients alone.
LEMMA OthersAlone ==
    ASSUME Receiver \/ (\E s \in Reqs : Server(s))
    PROVE  UNCHANGED <<pc, session, stored, sent, done, nreq, g_sSend, jobOf>>
  BY DEF Receiver, ReplyRest, ReplyCode, Server, ServerAnswers, ServerForgets,
         ServerCloses, server, progress

\* Where the numbers come from that a client's step writes.
LEMMA NumbersMove ==
    ASSUME TypeInv, NEW c \in Clients, Client(c)
    PROVE  /\ nreq' \in {nreq, nreq + 1}
           /\ asked'[c] \in {asked[c], 0, nreq'} /\ sock'[c] \in {sock[c], 0, g_sSend}
           /\ g_sSend' \in {g_sSend, 0, asked[c]}
           /\ UNCHANGED <<g_strUUID, rx>>
           /\ pending' \subseteq pending \cup {asked[c]}
           /\ \A r \in Reqs : jobOf'[r] \in {jobOf[r], g_strUUID}
<1> USE DEF answer, center, server, progress, session
<1>1. CASE Leave(c)
  <2>1. asked'[c] = 0 /\ sock'[c] = 0
    BY <1>1 DEF Leave, TypeInv, ClientType
  <2>2. UNCHANGED <<nreq, g_sSend, g_strUUID, rx, pending, jobOf>>
    <3>1. CASE Request(c)
      <4>1. pc'[c] = "idle"
        BY <1>1, LeaveClient
      <4>2. WaitTimeout(c) \/ Answer(c) \/ Settle(c)
        BY <3>1, <4>1 DEF Request, onSendRequest, WaitAnswer, Decide, OpenSocket,
               ConnectServer, RequestFile, SelectReply, Refuse, Goto, TypeInv, ClientType
      <4> QED BY <4>2 DEF WaitTimeout, Answer, Settle
    <3>2. CASE Transfer(c)
      BY <3>2 DEF Transfer, SendFaxData, SendFaxEnd, GetRSAPacket, ReceiveReply,
                  ReceiveFails
    <3>3. CASE Disconnect(c)
      BY <3>3 DEF Disconnect
    <3>4. CASE RequestSend(c)
      <4>1. pc'[c] = "idle"
        BY <1>1, LeaveClient
      <4> QED BY <3>4, <4>1 DEF RequestSend, Goto, TypeInv, ClientType
    <3> QED BY <3>1, <3>2, <3>3, <3>4 DEF Client, Transfer
  <2> QED BY <2>1, <2>2
<1>2. CASE ~Leave(c) /\ RequestSend(c)
  <2>1. asked'[c] = nreq + 1 /\ nreq' = nreq + 1
    BY <1>2 DEF RequestSend, TypeInv, ClientType
  <2> QED BY <1>2, <2>1 DEF RequestSend
<1>3. CASE ~Leave(c) /\ Request(c)
  <2>1. UNCHANGED <<nreq, asked, sock, g_strUUID, rx>>
    BY <1>3 DEF Request, onSendRequest, WaitAnswer, WaitTimeout, Decide, OpenSocket,
           ConnectServer, RequestFile, SelectReply, Answer, Settle
  <2>2. g_sSend' \in {g_sSend, 0, asked[c]}
    BY <1>3 DEF Request, onSendRequest, WaitAnswer, WaitTimeout, Decide, OpenSocket,
           ConnectServer, RequestFile, SelectReply, Answer, Settle, DropServer
  <2>3. pending' \subseteq pending \cup {asked[c]}
    BY <1>3 DEF Request, onSendRequest, WaitAnswer, WaitTimeout, Decide, OpenSocket,
           ConnectServer, RequestFile, SelectReply, Answer, Settle
  <2>4. jobOf' \in {jobOf, [jobOf EXCEPT ![g_sSend] = g_strUUID]}
    BY <1>3 DEF Request, onSendRequest, WaitAnswer, WaitTimeout, Decide, OpenSocket,
           ConnectServer, RequestFile, SelectReply, Answer, Settle
  <2>5. \A r \in Reqs : jobOf'[r] \in {jobOf[r], g_strUUID}
    BY <2>4 DEF TypeInv, ServerType
  <2> QED BY <2>1, <2>2, <2>3, <2>5
<1>4. CASE ~Leave(c) /\ Transfer(c)
  <2>1. UNCHANGED <<nreq, asked, g_strUUID, rx, g_sSend, pending, jobOf>>
    BY <1>4 DEF Transfer, SendFaxData, SendFaxEnd, GetRSAPacket, ReceiveReply,
           ReceiveFails
  <2>2. sock'[c] \in {sock[c], 0, g_sSend}
    BY <1>4 DEF Transfer, SendFaxData, SendFaxEnd, GetRSAPacket, ReceiveReply,
           ReceiveFails, TypeInv, ClientType
  <2> QED BY <2>1, <2>2
<1> QED BY <1>1, <1>2, <1>3, <1>4 DEF Client, Transfer, Disconnect

LEMMA BoundsStep == ASSUME TypeInv, TypeInv', Bounds, Step PROVE Bounds'
<1> USE DEF Bounds
<1>0. /\ nreq \in Nat /\ nreq' \in Nat /\ g_sSend \in Nat /\ g_strUUID \in Nat /\ rx \in Nat
      /\ pending \subseteq Nat
      /\ \A c \in Clients : asked[c] \in Nat /\ sock[c] \in Nat
      /\ \A r \in Reqs : jobOf[r] \in Nat
  BY NumberAssumption DEF TypeInv, AnswerType, ClientType, ServerType, Reqs
<1>1. ASSUME NEW c \in Clients, Client(c) PROVE Bounds'
  <2>1. /\ nreq' >= nreq /\ nreq' >= 0
        /\ asked'[c] \in {asked[c], 0, nreq'} /\ sock'[c] \in {sock[c], 0, g_sSend}
        /\ g_sSend' \in {g_sSend, 0, asked[c]}
        /\ UNCHANGED <<g_strUUID, rx>>
        /\ pending' \subseteq pending \cup {asked[c]}
        /\ \A r \in Reqs : jobOf'[r] \in {jobOf[r], g_strUUID}
    BY <1>0, <1>1, NumbersMove
  <2>2. \A d \in Clients \ {c} : asked'[d] = asked[d] /\ sock'[d] = sock[d]
    BY <1>1, ClientAlone
  <2>3. ASSUME NEW d \in Clients PROVE asked'[d] <= nreq' /\ sock'[d] <= nreq'
    <3>1. CASE d = c
      BY <1>0, <2>1, <3>1
    <3>2. CASE d # c
      BY <1>0, <2>1, <2>2, <3>2
    <3> QED BY <3>1, <3>2
  <2>4. g_sSend' <= nreq' /\ g_strUUID' <= nreq' /\ rx' <= nreq'
    BY <1>0, <2>1
  <2>5. ASSUME NEW r \in pending' PROVE r <= nreq'
    BY <1>0, <2>1
  <2>6. ASSUME NEW r \in Reqs PROVE jobOf'[r] <= nreq'
    BY <1>0, <2>1
  <2> QED BY <2>3, <2>4, <2>5, <2>6
<1>2. CASE Receiver \/ (\E s \in Reqs : Server(s))
  <2>1. UNCHANGED <<session, nreq, g_sSend, jobOf>>
    BY <1>2, OthersAlone
  <2>2. g_strUUID' \in {g_strUUID, rx} /\ rx' \in {rx, 0} \cup pending
        /\ pending' \subseteq pending
    BY <1>2 DEF Receiver, ReplyRest, ReplyCode, FirstHalf, Server, ServerAnswers,
           ServerForgets, ServerCloses, answer, center
  <2> QED BY <1>0, <2>1, <2>2 DEF session
<1> QED BY <1>1, <1>2 DEF Step

LEMMA HistoryKept == ASSUME Remember PROVE HistoryInv'
<1>1. ASSUME NEW c \in Clients, Asks(c)', asked'[c] \notin crossed' PROVE Clear(c)'
  BY <1>1 DEF Remember, Crossing
<1>2. ASSUME NEW c \in Clients, NEW d \in Clients, Engaged(c)', Engaged(d)',
             asked'[c] \notin shared'
      PROVE  d = c
  BY <1>2 DEF Remember, Sharing
<1> QED BY <1>1, <1>2 DEF HistoryInv

LEMMA InitBase == Init => BaseInv
<1> SUFFICES ASSUME Init PROVE BaseInv
  OBVIOUS
<1>1. Bounds
  BY DEF Init, Bounds
<1>2. HistoryInv
  BY DEF Init, HistoryInv, Asks, Engaged, Requesting, NoAnswer
<1> QED BY <1>1, <1>2, InitTypeInv DEF BaseInv

LEMMA BaseStep == BaseInv /\ [Next]_vars => BaseInv'
<1> SUFFICES ASSUME BaseInv, [Next]_vars PROVE BaseInv'
  OBVIOUS
<1>1. TypeInv /\ TypeInv' /\ Bounds /\ HistoryInv
  BY StepType DEF BaseInv
<1>2. CASE Next
  BY <1>1, <1>2, BoundsStep, HistoryKept DEF Next, BaseInv
<1>3. CASE UNCHANGED vars
  <2>1. UNCHANGED <<pc, asked, sock, told, nreq, g_sSend, g_strUUID, rx, pending, jobOf,
                    crossed, shared>>
    BY <1>3 DEF vars, session, answer, center, server, progress
  <2>2. Bounds'
    BY <1>1, <2>1 DEF Bounds
  <2>3. HistoryInv'
    BY <1>1, <2>1 DEF HistoryInv, Asks, Engaged, Clear
  <2> QED BY <1>1, <2>2, <2>3 DEF BaseInv
<1> QED BY <1>2, <1>3

-----------------------------------------------------------------------------
(* A request that met no other.                                            *)

\* The states in which the wait is over and the globals are the client's.
Answered == Requesting \ {"ask", "wait", "settle"}

\* An answer is on its way, or the event is set, only while the client waits
\* for it, and the answer is to its present request.
AnswerInv(c) ==
    /\ pending # {} => pc[c] = "wait" /\ rx = 0 /\ ~g_hSendRequest
    /\ rx # 0 => pc[c] = "wait" /\ ~g_hSendRequest
    /\ g_hSendRequest => pc[c] = "wait" /\ g_strUUID = asked[c]
    /\ pc[c] \in Answered => g_strUUID = asked[c]

Told(c) == told[c].uuid # 0 => told[c].uuid = asked[c]

\* nType is 1 during a request; what the client is told is the code that the
\* globals still hold when its state is settled.
StateInv(c) ==
    /\ Asks(c) => nType[c] = 1
    /\ pc[c] = "settle" => told[c].code = g_bySendCode
    /\ pc[c] \in {"await", "recv"} => told[c].code = 1 /\ nType[c] = 1
    /\ pc[c] = "idle" => (told[c].code = 1 <=> nType[c] = 1)

Serial(c) == StateInv(c) /\ Told(c) /\ (Asks(c) => AnswerInv(c))

SerialInv == \A c \in Clients : asked[c] \notin crossed => Serial(c)

LEMMA InitSerial == Init => SerialInv
  BY DEF Init, SerialInv, Serial, AnswerInv, StateInv, Told, NoAnswer, Requesting, Asks

\* A step within a request, once the answer is there, that leaves it as it is.
LEMMA OnInRequest ==
    ASSUME TypeInv, NEW c \in Clients, Serial(c),
           pc[c] \in Answered, NEW label \in Answered, Goto(c, label),
           UNCHANGED <<session, center, g_hSendRequest, g_strUUID>>
    PROVE  Serial(c)'
<1>1. pc'[c] = label
  BY DEF TypeInv, ClientType, Goto
<1>2. AnswerInv(c)'
  BY <1>1 DEF Serial, Asks, AnswerInv, Answered, Requesting, session, center
<1>3. StateInv(c)' /\ Told(c)'
  BY <1>1 DEF Serial, Asks, StateInv, Told, Answered, Requesting, session
<1> QED BY <1>2, <1>3 DEF Serial

\* The next session has nothing of the last one.
LEMMA SerialLeave ==
    ASSUME TypeInv, NEW c \in Clients, Leave(c) PROVE Serial(c)'
<1>1. pc'[c] = "idle" /\ nType'[c] = 0 /\ told'[c] = NoAnswer
  BY LeaveClient
<1> QED BY <1>1 DEF Serial, StateInv, Told, Asks, Requesting, NoAnswer

LEMMA SerialRequest ==
    ASSUME TypeInv, NEW c \in Clients, Serial(c), Clear(c), Request(c)
    PROVE  Serial(c)'
<1> USE DEF Requesting, Answered, Asks
<1>0. \A label : Goto(c, label) => pc'[c] = label
  BY DEF TypeInv, ClientType, Goto
<1>a. AnswerInv(c) /\ StateInv(c) /\ Told(c)
  BY DEF Serial, Request, onSendRequest, WaitAnswer, WaitTimeout, Decide, OpenSocket,
         ConnectServer, RequestFile, SelectReply, Answer, Settle
<1>1. CASE onSendRequest(c)
  <2>1. pc[c] = "ask" /\ pc'[c] = "wait" /\ pending = {} /\ rx = 0 /\ ~g_hSendRequest
        /\ UNCHANGED <<session, answer, rx>>
    BY <1>0, <1>a, <1>1 DEF onSendRequest, AnswerInv
  <2> QED BY <1>a, <2>1 DEF Serial, AnswerInv, StateInv, Told, session, answer
<1>2. CASE WaitAnswer(c)
  <2>1. pc[c] = "wait" /\ pc'[c] = "got" /\ g_hSendRequest /\ ~g_hSendRequest'
        /\ UNCHANGED <<session, g_bySendCode, g_strUUID, center>>
    BY <1>0, <1>2 DEF WaitAnswer, Signalled
  <2> QED BY <1>a, <2>1 DEF Serial, AnswerInv, StateInv, Told, session, center
<1>3. CASE Leave(c)
  BY <1>3, SerialLeave
<1>4. CASE Decide(c)
  BY <1>4, OnInRequest DEF Decide, answer
<1>5. CASE OpenSocket(c)
  BY <1>5, OnInRequest DEF OpenSocket, Refuse
<1>6. CASE ConnectServer(c)
  BY <1>6, OnInRequest DEF ConnectServer, Refuse
<1>7. CASE RequestFile(c)
  BY <1>7, OnInRequest DEF RequestFile, Refuse
<1>8. CASE SelectReply(c)
  BY <1>8, OnInRequest DEF SelectReply, Refuse
<1>9. CASE Answer(c) /\ ~Leave(c)
  <2>1. pc[c] = "reply" /\ g_strUUID = asked[c]
        /\ pending = {} /\ rx = 0 /\ ~g_hSendRequest
    BY <1>a, <1>9 DEF Answer, AnswerInv
  <2>2. /\ pc'[c] = "settle" /\ UNCHANGED <<nType, asked, answer, center>>
        /\ told' = [told EXCEPT ![c] = [code |-> g_bySendCode, uuid |-> g_strUUID]]
    BY <1>0, <1>9 DEF Answer
  <2>3. told'[c].code = g_bySendCode /\ told'[c].uuid = asked[c]
    BY <2>1, <2>2 DEF TypeInv, ClientType
  <2> QED BY <1>a, <2>1, <2>2, <2>3 DEF Serial, AnswerInv, StateInv, Told, answer, center
<1>10. CASE Settle(c)
  <2>1. pc[c] = "settle" /\ pc'[c] = "idle" /\ UNCHANGED <<asked, told, answer, center>>
    BY <1>0, <1>10 DEF Settle
  <2>2. nType[c] = 1 /\ told[c].code = g_bySendCode /\ g_bySendCode \in 0 .. 1
    BY <1>a, <2>1 DEF StateInv, TypeInv, AnswerType
  <2>3. nType'[c] = IF g_bySendCode = 0 THEN 0 ELSE nType[c]
    BY <1>10 DEF Settle, Settled, TypeInv, ClientType
  <2> QED BY <1>a, <2>1, <2>2, <2>3 DEF Serial, StateInv, Told
<1> QED
  BY <1>1, <1>2, <1>3, <1>4, <1>5, <1>6, <1>7, <1>8, <1>9, <1>10
     DEF Request, WaitTimeout

\* A new request begins with the event reset; if it meets no other, nothing is on
\* its way.
LEMMA SerialBegins ==
    ASSUME TypeInv, Bounds, NEW c \in Clients, RequestSend(c), ~Leave(c), Clear(c)'
    PROVE  Serial(c)'
<1>1. /\ pc'[c] = "ask" /\ nType'[c] = 1 /\ asked'[c] = nreq + 1 /\ told'[c] = NoAnswer
      /\ ~g_hSendRequest' /\ UNCHANGED <<pending, rx>>
  BY DEF RequestSend, Goto, TypeInv, ClientType, center
<1>2. pending \subseteq Nat \ {0} /\ rx \in Nat /\ nreq \in Nat
  BY NumberAssumption DEF TypeInv, AnswerType, Reqs
<1>3. pending' = {} /\ rx' = 0
  BY <1>1, <1>2 DEF Clear, Bounds
<1> QED BY <1>1, <1>3
        DEF Serial, StateInv, Told, AnswerInv, Asks, Requesting, Answered, NoAnswer

\* A step in a transfer, or of a client that leaves.
LEMMA SerialTransfer ==
    ASSUME TypeInv, NEW c \in Clients, Serial(c), Transfer(c) \/ Disconnect(c)
    PROVE  Serial(c)'
<1> USE DEF Requesting, Asks, Serial
<1>0. \A label : Goto(c, label) => pc'[c] = label
  BY DEF TypeInv, ClientType, Goto
<1>1. CASE Leave(c)
  BY <1>1, SerialLeave
<1>2. CASE (SendFaxData(c) \/ SendFaxEnd(c)) /\ ~Leave(c)
  <2>1. /\ pc[c] = "idle" /\ pc'[c] = "await" /\ told[c].code = 1
        /\ UNCHANGED <<nType, asked, told>>
    BY <1>0, <1>2 DEF SendFaxData, SendFaxEnd
  <2> QED BY <2>1 DEF StateInv, Told
<1>3. CASE GetRSAPacket(c)
  <2>1. pc[c] = "await" /\ pc'[c] = "recv" /\ UNCHANGED <<nType, asked, told>>
    BY <1>0, <1>3 DEF GetRSAPacket
  <2> QED BY <2>1 DEF StateInv, Told
<1>4. CASE ReceiveReply(c) /\ ~Leave(c)
  <2>1. pc[c] = "recv" /\ pc'[c] = "idle" /\ UNCHANGED asked
    BY <1>0, <1>4 DEF ReceiveReply
  <2>2. \/ nType'[c] = nType[c] /\ told'[c] = told[c]
        \/ nType'[c] = 0 /\ told'[c] = NoAnswer
    BY <1>4 DEF ReceiveReply, TypeInv, ClientType
  <2> QED BY <2>1, <2>2 DEF StateInv, Told, NoAnswer
<1> QED
  BY <1>1, <1>2, <1>3, <1>4 DEF Transfer, Disconnect, ReceiveFails

LEMMA SerialOthers ==
    ASSUME TypeInv, NEW c \in Clients, Serial(c), Asks(c) => Clear(c),
           Receiver \/ (\E s \in Reqs : Server(s))
    PROVE  Serial(c)'
<1> USE DEF Requesting, Asks
<1>0. UNCHANGED <<pc, session>>
  BY OthersAlone
<1>1. CASE ~Asks(c)
  BY <1>0, <1>1 DEF Serial, StateInv, Told, session
<1>2. CASE Asks(c) /\ ReplyRest
  <2>1. rx # 0 /\ rx' = 0 /\ g_strUUID' = rx /\ g_hSendRequest'
        /\ UNCHANGED <<g_bySendCode, pending>>
    BY <1>2 DEF ReplyRest
  <2>2. pc[c] = "wait" /\ rx = asked[c] /\ pending = {}
    BY <1>2, <2>1 DEF Serial, AnswerInv, Clear
  <2> QED BY <1>0, <2>1, <2>2 DEF Serial, AnswerInv, StateInv, Told, session, Answered
<1>3. ASSUME Asks(c), NEW r \in Reqs, ReplyCode(r) PROVE Serial(c)'
  <2>1. rx' = r /\ pending' = pending \ {r} /\ r \in pending
        /\ UNCHANGED <<g_hSendRequest, g_strUUID>>
    BY <1>3 DEF ReplyCode, FirstHalf
  <2>2. pc[c] = "wait" /\ ~g_hSendRequest
    BY <1>3, <2>1 DEF Serial, AnswerInv
  <2>3. pending' = {}
    <3>1. pending \subseteq {0, asked[c]} /\ r # 0 /\ 0 \notin pending
      BY <1>3 DEF Clear, TypeInv, AnswerType, Reqs
    <3> QED BY <2>1, <3>1
  <2> QED BY <1>0, <1>3, <2>1, <2>2, <2>3
          DEF Serial, AnswerInv, StateInv, Told, session, Answered
<1>4. CASE Asks(c) /\ \E s \in Reqs : Server(s)
  <2>1. UNCHANGED <<answer, center>>
    BY <1>4 DEF Server, ServerAnswers, ServerForgets, ServerCloses
  <2> QED BY <1>0, <1>4, <2>1
          DEF Serial, AnswerInv, StateInv, Told, session, answer, center, Answered
<1> QED BY <1>1, <1>2, <1>3, <1>4 DEF Receiver

LEMMA SerialStep ==
    ASSUME BaseInv, BaseInv', SerialInv, [Next]_vars PROVE SerialInv'
<1> SUFFICES ASSUME NEW c \in Clients, asked'[c] \notin crossed' PROVE Serial(c)'
  BY DEF SerialInv
<1> USE DEF BaseInv
<1>1. CASE UNCHANGED vars
  <2>1. UNCHANGED <<pc, nType, told, asked, g_bySendCode, g_strUUID, g_hSendRequest,
                    pending, rx, crossed>>
    BY <1>1 DEF vars, session, answer, center
  <2> QED BY <2>1 DEF SerialInv, Serial, AnswerInv, StateInv, Told, Asks
<1>2. ASSUME Remember, asked'[c] = asked[c]
      PROVE  Serial(c) /\ (Asks(c) => Clear(c))
  BY <1>2 DEF Remember, SerialInv, HistoryInv
<1>3. CASE Client(c) /\ Remember
  <2>1. CASE Leave(c)
    BY <2>1, SerialLeave
  <2>2. CASE RequestSend(c) /\ ~Leave(c)
    <3>1. Asks(c)'
      BY <2>2 DEF RequestSend, Goto, TypeInv, ClientType, Asks, Requesting
    <3>2. Clear(c)'
      BY <3>1 DEF HistoryInv
    <3> QED BY <2>2, <3>2, SerialBegins
  <2>3. CASE ~RequestSend(c) /\ ~Leave(c)
    <3>1. asked' = asked
      BY <1>3, <2>3 DEF Client, Disconnect, Request, onSendRequest, WaitAnswer,
             WaitTimeout, Decide, OpenSocket, ConnectServer, RequestFile, SelectReply,
             Answer, Settle, SendFaxData, SendFaxEnd, GetRSAPacket, ReceiveReply,
             ReceiveFails, session
    <3>2. Serial(c) /\ (Asks(c) => Clear(c))
      BY <1>2, <1>3, <3>1
    <3>3. CASE Request(c)
      <4>1. Asks(c)
        BY <3>3 DEF Asks, Requesting, Request, onSendRequest, WaitAnswer, WaitTimeout,
               Decide, OpenSocket, ConnectServer, RequestFile, SelectReply, Answer, Settle
      <4> QED BY <3>2, <3>3, <4>1, SerialRequest
    <3> QED BY <1>3, <2>3, <3>2, <3>3, SerialTransfer DEF Client, Transfer
  <2> QED BY <2>1, <2>2, <2>3
<1>4. ASSUME NEW d \in Clients, d # c, Client(d), Remember PROVE Serial(c)'
  <2>1. /\ pc'[c] = pc[c] /\ nType'[c] = nType[c] /\ asked'[c] = asked[c]
        /\ told'[c] = told[c]
        /\ ~Asks(d) /\ ~Asks(d)' => UNCHANGED <<answer, center>>
    BY <1>4, ClientAlone
  <2>2. Serial(c) /\ (Asks(c) => Clear(c))
    BY <1>2, <1>4, <2>1
  <2>3. CASE Asks(c)
    <3>1. Clear(c) /\ Clear(c)'
      BY <2>1, <2>2, <2>3 DEF HistoryInv, Asks
    <3>2. UNCHANGED <<answer, center>>
      BY <1>4, <2>1, <3>1 DEF Clear, Asks
    <3> QED BY <2>1, <2>2, <3>2
            DEF Serial, AnswerInv, StateInv, Told, Asks, answer, center
  <2>4. CASE ~Asks(c)
    BY <2>1, <2>2, <2>4 DEF Serial, StateInv, Told, Asks, Requesting
  <2> QED BY <2>3, <2>4
<1>5. CASE (Receiver \/ (\E s \in Reqs : Server(s))) /\ Remember
  <2>1. asked'[c] = asked[c]
    BY <1>5, OthersAlone DEF session
  <2> QED BY <1>2, <1>5, <2>1, SerialOthers
<1> QED BY <1>1, <1>3, <1>4, <1>5 DEF Next, Step

LEMMA SerialAlways == Spec => [](BaseInv /\ SerialInv)
<1>1. Spec => []BaseInv
  BY InitBase, BaseStep, PTL DEF Spec
<1>2. BaseInv /\ BaseInv' /\ SerialInv /\ [Next]_vars => SerialInv'
  BY SerialStep
<1> QED BY <1>1, <1>2, InitSerial, PTL DEF Spec

(* Every client is told the job of its own request unless, while it asked, *)
(* another client asked as well or an answer to another request was still  *)
(* to come; for any number of clients and requests, and whatever the       *)
(* others did before and after.  (FileSession.cpp:1387-1422)               *)
THEOREM OwnJobAlways == Spec => []OwnJobUncrossed
<1>1. SerialInv => OwnJobUncrossed
  BY DEF SerialInv, Serial, Told, OwnJobUncrossed
<1> QED
  BY <1>1, SerialAlways, PTL

(* Under the same condition on its own request alone, nType agrees with    *)
(* what the client was told, although it is set from the globals once more *)
(* after the answer has been sent.  (FileSession.cpp:1420-1446)            *)
THEOREM StateMatchesAlways == Spec => []StateMatchesAnswer
<1>1. SerialInv => StateMatchesAnswer
  BY DEF SerialInv, Serial, StateInv, StateMatchesAnswer
<1> QED
  BY <1>1, SerialAlways, PTL

-----------------------------------------------------------------------------
(* A transfer that shared g_sSend with no other.                           *)

Marked == crossed \cup shared

\* The document of request r is stored as far as it was sent; more may follow
\* it; it is blank.
Stored(r) ==
    /\ Len(stored[r]) = sent[r]
    /\ \A k \in 1 .. sent[r] : stored[r][k] = <<r, k>>
Begins(r) ==
    /\ sent[r] <= Len(stored[r])
    /\ \A k \in 1 .. sent[r] : stored[r][k] = <<r, k>>
Blank(r) == stored[r] = <<>> /\ sent[r] = 0 /\ r \notin done

Unused(r) == conn[r] = "none" /\ owed[r] = <<>> /\ inq[r] = <<>> /\ Blank(r)

\* No answer to a STOPSEND is on its way on r, nor there already.
Stopless(q) == q \in Seq({"req", "send"})
NoStop(r) == Stopless(inq[r]) /\ Stopless(owed[r])

\* g_sSend is the connection of the client's present request and is alive.
Linked(c) == g_sSend = asked[c] /\ conn[asked[c]] \in {"open", "ended"}
OwnFile(c) == Linked(c) /\ jobOf[asked[c]] = asked[c] /\ asked[c] \notin done

\* The client was told yes, or is about to be.
Ready(c) ==
    \/ pc[c] \in {"reply", "settle"} /\ g_bySendCode = 1
    \/ pc[c] = "idle" /\ told[c].code = 1

\* Late answers to other packets may be there; one to the STOPSEND is not before
\* it was sent, and then all blocks are stored, unless the server has ended the
\* connection without answering.
LinkInv(c) ==
    LET a == asked[c] IN
    /\ pc[c] \in {"ask", "wait", "got", "socket"} => Unused(a)
    /\ pc[c] = "connect" => g_sSend = a /\ conn[a] = "new" /\ NoStop(a) /\ Blank(a)
    /\ pc[c] = "request" => Linked(c) /\ NoStop(a) /\ Blank(a)
    /\ pc[c] = "select" => OwnFile(c) /\ NoStop(a) /\ Blank(a)
    /\ Ready(c) => OwnFile(c) /\ NoStop(a) /\ (conn[a] = "open" => Stored(a))
    /\ pc[c] \in {"await", "recv"} =>
          /\ OwnFile(c) /\ op[c] \in {"send", "stop"}
          /\ op[c] = "send" => NoStop(a)
          /\ conn[a] = "open" \/ ~Stopless(inq[a]) => Stored(a)
          /\ pc[c] = "recv" => sock[c] = a

Fresh == \A r \in Reqs : r > nreq => Unused(r)

\* A block of another request in r's file is of a marked one.
ForeignMarked(r) ==
    \A k \in 1 .. Len(stored[r]) : stored[r][k][1] # r => stored[r][k][1] \in Marked

Documents ==
    /\ \A r \in done : r \notin Marked => Begins(r)
    /\ \A r \in Reqs : ForeignMarked(r)

Links == \A c \in Clients : asked[c] \notin Marked => LinkInv(c)

TransferInv == Fresh /\ Documents /\ Links

\* A connection and a document that a step does not change.
Same(r) ==
    /\ conn'[r] = conn[r] /\ owed'[r] = owed[r] /\ inq'[r] = inq[r]
    /\ stored'[r] = stored[r] /\ sent'[r] = sent[r] /\ (r \in done' <=> r \in done)

LEMMA SameUnused == ASSUME NEW r, Same(r), Unused(r) PROVE Unused(r)'
  BY DEF Same, Unused, Blank

\* A step of a client changes no connection and no document of a request that has
\* not been made.
LEMMA ClientSame ==
    ASSUME TypeInv, Bounds, NEW c \in Clients, Client(c), NEW r \in Reqs, r > nreq
    PROVE  Same(r)
<1>0. /\ r \in Nat /\ r # 0 /\ nreq \in Nat /\ asked[c] \in Nat /\ sock[c] \in Nat
      /\ g_sSend \in Nat
  BY NumberAssumption DEF TypeInv, ClientType, AnswerType, Reqs
<1>1. r # asked[c] /\ r # sock[c] /\ r # g_sSend
  BY <1>0 DEF Bounds
<1>2. ASSUME g_sSend \in Reqs PROVE r # jobOf[g_sSend]
  <2>1. jobOf[g_sSend] <= nreq /\ jobOf[g_sSend] \in Nat
    BY <1>2 DEF Bounds, TypeInv, ServerType
  <2> QED BY <1>0, <2>1
<1>3. CASE Request(c)
  <2>1. UNCHANGED <<stored, sent, done>>
    BY <1>3 DEF Request, onSendRequest, WaitAnswer, WaitTimeout, Decide, OpenSocket,
           ConnectServer, RequestFile, SelectReply, Answer, Settle, server, progress
  <2>2. conn'[r] = conn[r]
    BY <1>1, <1>3 DEF Request, onSendRequest, WaitAnswer, WaitTimeout, Decide, OpenSocket,
           ConnectServer, RequestFile, SelectReply, Answer, Settle, DropServer, server,
           TypeInv, ServerType
  <2>3. owed'[r] = owed[r]
    BY <1>1, <1>3 DEF Request, onSendRequest, WaitAnswer, WaitTimeout, Decide, OpenSocket,
           ConnectServer, RequestFile, SelectReply, Answer, Settle, Sent, server,
           TypeInv, ServerType
  <2>4. inq'[r] = inq[r]
    BY <1>1, <1>3 DEF Request, onSendRequest, WaitAnswer, WaitTimeout, Decide, OpenSocket,
           ConnectServer, RequestFile, SelectReply, Answer, Settle, server,
           TypeInv, ServerType
  <2> QED BY <2>1, <2>2, <2>3, <2>4 DEF Same
<1>4. CASE SendFaxData(c)
  <2>1. UNCHANGED <<conn, inq, done>>
    BY <1>4 DEF SendFaxData
  <2>2. owed'[r] = owed[r]
    BY <1>1, <1>4 DEF SendFaxData, Sent, TypeInv, ServerType
  <2>3. stored'[r] = stored[r]
    <3>1. CASE UNCHANGED stored
      BY <3>1
    <3>2. CASE Sent(g_sSend, "send") /\ Store(g_sSend, Block(c))
      <4>1. g_sSend \in Reqs
        BY <1>0, <3>2 DEF Sent, Conn, TypeInv, AnswerType, Reqs
      <4>2. stored' \in {stored, [stored EXCEPT ![jobOf[g_sSend]] =
                                     Append(stored[jobOf[g_sSend]], Block(c))]}
        BY <3>2 DEF Store
      <4> QED BY <1>2, <4>1, <4>2 DEF TypeInv, DocumentType
    <3> QED BY <1>4, <3>1, <3>2 DEF SendFaxData
  <2>4. sent'[r] = sent[r]
    BY <1>1, <1>4 DEF SendFaxData, TypeInv, DocumentType
  <2> QED BY <2>1, <2>2, <2>3, <2>4 DEF Same
<1>5. CASE SendFaxEnd(c)
  <2>1. UNCHANGED <<conn, inq, stored, sent, done>>
    BY <1>5 DEF SendFaxEnd, progress
  <2>2. owed'[r] = owed[r]
    BY <1>1, <1>5 DEF SendFaxEnd, Sent, TypeInv, ServerType
  <2> QED BY <2>1, <2>2 DEF Same
<1>6. CASE ReceiveReply(c)
  <2>1. UNCHANGED <<owed, stored, sent>> /\ (r \in done' <=> r \in done)
    BY <1>1, <1>6 DEF ReceiveReply
  <2>2. conn'[r] = conn[r] /\ inq'[r] = inq[r]
    BY <1>1, <1>6 DEF ReceiveReply, TypeInv, ServerType
  <2> QED BY <2>1, <2>2 DEF Same
<1>7. CASE ReceiveFails(c)
  <2>1. UNCHANGED <<owed, inq, stored, sent, done>>
    BY <1>7 DEF ReceiveFails, progress
  <2>2. conn'[r] = conn[r]
    BY <1>1, <1>7 DEF ReceiveFails, TypeInv, ServerType
  <2> QED BY <2>1, <2>2 DEF Same
<1>8. CASE GetRSAPacket(c) \/ Disconnect(c) \/ RequestSend(c)
  BY <1>8 DEF GetRSAPacket, Disconnect, RequestSend, server, progress, Same
<1> QED BY <1>3, <1>4, <1>5, <1>6, <1>7, <1>8 DEF Client

\* What the server does on its side of one connection.
LEMMA ServerMoves ==
    ASSUME TypeInv, NEW s \in Reqs, Server(s)
    PROVE  /\ conn[s] = "open" /\ conn'[s] \in {"open", "ended"}
           /\ UNCHANGED <<answer, center>>
           /\ \A r \in Reqs \ {s} : Same(r)
           /\ Stopless(owed[s]) => Stopless(owed[s])'
           /\ NoStop(s) => NoStop(s)'
<1>1. UNCHANGED <<answer, center, stored, sent, done>> /\ conn[s] = "open"
  BY DEF Server, ServerAnswers, ServerForgets, ServerCloses, progress
<1>2. ASSUME NEW r \in Reqs \ {s} PROVE Same(r)
  BY <1>1 DEF Server, ServerAnswers, ServerForgets, ServerCloses, TypeInv, ServerType, Same
<1>3. conn'[s] \in {"open", "ended"}
  BY <1>1 DEF Server, ServerAnswers, ServerForgets, ServerCloses, TypeInv, ServerType
<1>4. <<>> \in Seq({"req", "send"})
  OBVIOUS
<1>5. CASE ServerAnswers(s)
  <2>1. /\ owed[s] # <<>> /\ owed'[s] = Tail(owed[s])
        /\ inq'[s] = Append(inq[s], Head(owed[s]))
    BY <1>5 DEF ServerAnswers, TypeInv, ServerType
  <2>2. ASSUME Stopless(owed[s])
        PROVE  Stopless(owed[s])' /\ Head(owed[s]) \in {"req", "send"}
    BY <2>1, <2>2 DEF Stopless
  <2>3. ASSUME NoStop(s) PROVE Stopless(inq[s])'
    BY <2>1, <2>2, <2>3 DEF NoStop, Stopless
  <2> QED BY <1>1, <1>2, <1>3, <2>2, <2>3 DEF NoStop
<1>6. CASE ServerForgets(s) \/ ServerCloses(s)
  <2>1. inq'[s] = inq[s] /\ owed'[s] = <<>>
    BY <1>6 DEF ServerForgets, ServerCloses, TypeInv, ServerType
  <2> QED BY <1>1, <1>2, <1>3, <1>4, <2>1 DEF NoStop, Stopless
<1> QED BY <1>5, <1>6 DEF Server

LEMMA FreshStep == ASSUME BaseInv, BaseInv', Fresh, Step PROVE Fresh'
<1> SUFFICES ASSUME NEW r \in Reqs, r > nreq' PROVE Unused(r)'
  BY DEF Fresh
<1>0. nreq \in Nat /\ nreq' \in Nat /\ r \in Nat
  BY NumberAssumption DEF BaseInv, TypeInv, AnswerType, Reqs
<1>1. ASSUME NEW c \in Clients, Client(c) PROVE Unused(r)'
  <2>1. nreq' \in {nreq, nreq + 1}
    BY <1>1, NumbersMove DEF BaseInv
  <2>2. r > nreq
    BY <1>0, <2>1
  <2>3. Unused(r)
    BY <2>2 DEF Fresh
  <2> QED BY <1>1, <2>2, <2>3, ClientSame, SameUnused DEF BaseInv
<1>2. CASE Receiver \/ (\E s \in Reqs : Server(s))
  <2>1. nreq' = nreq
    BY <1>2, OthersAlone
  <2>2. Unused(r)
    BY <2>1 DEF Fresh
  <2>3. CASE Receiver
    BY <2>2, <2>3 DEF Receiver, ReplyRest, ReplyCode, server, progress, Unused, Blank
  <2>4. ASSUME NEW s \in Reqs, Server(s) PROVE Unused(r)'
    <3>1. conn[s] = "open" /\ \A q \in Reqs \ {s} : Same(q)
      BY <2>4, ServerMoves DEF BaseInv
    <3>2. r # s
      BY <2>2, <3>1 DEF Unused
    <3> QED BY <2>2, <3>1, <3>2, SameUnused
  <2> QED BY <1>2, <2>3, <2>4
<1> QED BY <1>1, <1>2 DEF Step

-----------------------------------------------------------------------------
(* A client's own steps.                                                   *)

All(c) == TypeInv /\ Bounds /\ Fresh /\ Serial(c) /\ LinkInv(c)

LEMMA Goes == ASSUME TypeInv, NEW c \in Clients, NEW label, Goto(c, label)
              PROVE  pc'[c] = label
  BY DEF TypeInv, ClientType, Goto

\* Nothing is claimed of the connection of a client that sends nothing.
LEMMA NotEngaged == ASSUME NEW c \in Clients, ~Engaged(c)' PROVE LinkInv(c)'
  BY DEF LinkInv, Ready, Engaged, Asks, Requesting

LEMMA LinkLeave == ASSUME TypeInv, NEW c \in Clients, Leave(c) PROVE LinkInv(c)'
<1>1. pc'[c] = "idle" /\ told'[c] = NoAnswer
  BY LeaveClient
<1> QED BY <1>1, NotEngaged DEF Engaged, Asks, Requesting, NoAnswer

\* A request that is refused.
LEMMA LinkRefused ==
    ASSUME TypeInv, NEW c \in Clients, Refuse(c) PROVE LinkInv(c)'
<1>1. pc'[c] = "reply" /\ g_bySendCode' = 0
  BY Goes DEF Refuse
<1> QED BY <1>1 DEF LinkInv, Ready

\* What a step that leaves the connections and the documents alone preserves.
LEMMA FileKept ==
    ASSUME NEW c \in Clients, UNCHANGED <<server, g_sSend, sent, done>>,
           asked'[c] = asked[c]
    PROVE  /\ Unused(asked[c]) => Unused(asked[c])'
           /\ Blank(asked[c]) => Blank(asked[c])'
           /\ Linked(c) => Linked(c)'
           /\ OwnFile(c) => OwnFile(c)'
           /\ NoStop(asked[c]) => NoStop(asked[c])'
           /\ Stored(asked[c]) => Stored(asked[c])'
           /\ Stopless(inq[asked[c]]) <=> Stopless(inq[asked[c]])'
           /\ conn'[asked'[c]] = conn[asked[c]]
  BY DEF Unused, Blank, Linked, OwnFile, NoStop, Stopless, Stored, server

LEMMA NothingStopless == Stopless(<<>>)
  BY DEF Stopless

LEMMA InRequest ==
    ASSUME NEW c \in Clients, All(c),
           \/ onSendRequest(c) \/ WaitAnswer(c) \/ WaitTimeout(c) \/ Decide(c)
           \/ Answer(c) \/ Settle(c)
    PROVE  LinkInv(c)'
<1> USE DEF All
<1>0. \A label : Goto(c, label) => pc'[c] = label
  BY Goes
<1>1. CASE Leave(c)
  BY <1>1, LinkLeave
<1>2. CASE ~Leave(c)
  <2>1. UNCHANGED <<server, g_sSend, sent, done, asked, g_bySendCode>>
    BY <1>2 DEF onSendRequest, WaitAnswer, WaitTimeout, Decide, Answer, Settle, session,
           answer, progress
  <2>a. UNCHANGED <<server, g_sSend, sent, done>> /\ asked'[c] = asked[c]
    BY <2>1
  <2>2. pc'[c] \in {"wait", "got", "socket", "reply", "settle", "idle"}
    BY <1>0, <1>2 DEF onSendRequest, WaitAnswer, WaitTimeout, Decide, Answer, Settle
  <2>3. pc'[c] \in {"wait", "got", "socket"} => Unused(asked[c])'
    <3>1. pc'[c] \in {"wait", "got", "socket"} => pc[c] \in {"ask", "wait", "got"}
      BY <1>0, <1>2 DEF onSendRequest, WaitAnswer, WaitTimeout, Decide, Answer, Settle
    <3>2. pc[c] \in {"ask", "wait", "got"} => Unused(asked[c])
      BY DEF LinkInv
    <3>3. Unused(asked[c]) => Unused(asked[c])'
      BY ONLY <2>a, FileKept
    <3> QED BY <3>1, <3>2, <3>3
  <2>4. Ready(c)' => Ready(c)
    <3>1. CASE Decide(c)
      BY <1>0, <2>1, <3>1 DEF Decide, Ready
    <3>2. CASE Answer(c)
      BY <1>0, <1>2, <2>1, <3>2 DEF Answer, Ready
    <3>3. CASE Settle(c)
      <4>1. pc[c] = "settle" /\ pc'[c] = "idle" /\ told'[c] = told[c]
        BY <1>0, <3>3 DEF Settle
      <4>2. told[c].code = g_bySendCode
        BY <4>1 DEF Serial, StateInv
      <4> QED BY <4>1, <4>2 DEF Ready
    <3>4. CASE onSendRequest(c) \/ WaitAnswer(c)
      BY <1>0, <3>4 DEF onSendRequest, WaitAnswer, Ready
    <3> QED BY <1>2, <3>1, <3>2, <3>3, <3>4 DEF WaitTimeout
  <2>5. Ready(c)' => OwnFile(c)' /\ NoStop(asked[c])'
                     /\ (conn[asked[c]] = "open" => Stored(asked[c]))'
    <3>1. Ready(c) => /\ OwnFile(c) /\ NoStop(asked[c])
                      /\ conn[asked[c]] = "open" => Stored(asked[c])
      BY DEF LinkInv
    <3>2. /\ OwnFile(c) => OwnFile(c)'
          /\ NoStop(asked[c]) => NoStop(asked[c])'
          /\ Stored(asked[c]) => Stored(asked[c])'
          /\ conn'[asked'[c]] = conn[asked[c]]
      BY ONLY <2>a, FileKept
    <3> QED BY ONLY <2>4, <3>1, <3>2
  <2> QED BY <2>2, <2>3, <2>5 DEF LinkInv
<1> QED BY <1>1, <1>2

LEMMA AtServer ==
    ASSUME NEW c \in Clients, All(c), OpenSocket(c) \/ ConnectServer(c)
    PROVE  LinkInv(c)'
<1> USE DEF All
<1>0. \A label : Goto(c, label) => pc'[c] = label
  BY Goes
<1>1. asked[c] \in Reqs
  BY DEF OpenSocket, ConnectServer, TypeInv, ClientType, AskedInv, Requesting, Reqs
<1>2. UNCHANGED <<asked, owed, inq, stored, sent, done>>
  BY DEF OpenSocket, ConnectServer, session, progress
<1>3. CASE Refuse(c)
  BY <1>3, LinkRefused
<1>4. CASE OpenSocket(c) /\ ~Refuse(c)
  <2>1. /\ g_sSend' = asked[c] /\ conn' = [conn EXCEPT ![asked[c]] = "new"]
        /\ pc[c] = "socket" /\ pc'[c] = "connect"
    BY <1>0, <1>4 DEF OpenSocket
  <2>2. conn'[asked[c]] = "new"
    BY <1>1, <2>1 DEF TypeInv, ServerType
  <2>3. Unused(asked[c])
    BY <2>1 DEF LinkInv
  <2>4. NoStop(asked[c])'
    BY <1>2, <2>3, NothingStopless DEF Unused, NoStop, Stopless
  <2> QED BY <1>2, <2>1, <2>2, <2>3, <2>4 DEF LinkInv, Ready, Unused, Blank
<1>5. CASE ConnectServer(c) /\ ~Refuse(c)
  <2>1. /\ conn' = [conn EXCEPT ![g_sSend] = "open"] /\ g_sSend' = g_sSend
        /\ pc[c] = "connect" /\ pc'[c] = "request"
    BY <1>0, <1>5 DEF ConnectServer
  <2>2. g_sSend = asked[c] /\ NoStop(asked[c]) /\ Blank(asked[c])
    BY <2>1 DEF LinkInv
  <2>3. conn'[asked[c]] = "open"
    BY <1>1, <2>1, <2>2 DEF TypeInv, ServerType
  <2> QED BY <1>2, <2>1, <2>2, <2>3 DEF LinkInv, Ready, Linked, NoStop, Stopless, Blank
<1> QED BY <1>3, <1>4, <1>5

\* What is owed after a packet has been sent.
LEMMA SentOwed ==
    ASSUME TypeInv, NEW a \in Reqs, NEW kind \in {"req", "send"}, Sent(a, kind),
           NoStop(a), UNCHANGED inq
    PROVE  NoStop(a)'
<1>1. owed[a] \in Seq({"req", "send"})
  BY DEF NoStop, Stopless
<1>2. Append(owed[a], kind) \in Seq({"req", "send"})
  BY <1>1
<1>3. owed'[a] \in {owed[a], Append(owed[a], kind)}
  BY DEF Sent, TypeInv, ServerType
<1> QED BY <1>1, <1>2, <1>3 DEF NoStop, Stopless

LEMMA InRequestFile ==
    ASSUME NEW c \in Clients, All(c), RequestFile(c) PROVE LinkInv(c)'
<1> USE DEF All
<1>0. \A label : Goto(c, label) => pc'[c] = label
  BY Goes
<1>1. asked[c] \in Reqs
  BY DEF RequestFile, TypeInv, ClientType, AskedInv, Requesting, Reqs
<1>2. UNCHANGED <<asked, inq, stored, sent, done>>
  BY DEF RequestFile, session, progress
<1>3. Linked(c) /\ g_sSend = asked[c] /\ NoStop(asked[c]) /\ Blank(asked[c])
  BY DEF RequestFile, LinkInv, Linked
<1>4. CASE Refuse(c)
  BY <1>4, LinkRefused
<1>5. CASE ~Refuse(c)
  <2>1. /\ Sent(g_sSend, "req") /\ jobOf' = [jobOf EXCEPT ![g_sSend] = g_strUUID]
        /\ pc'[c] = "select" /\ UNCHANGED <<g_sSend, conn>>
    BY <1>0, <1>5 DEF RequestFile
  <2>2. g_strUUID = asked[c]
    BY DEF RequestFile, Serial, Asks, AnswerInv, Answered, Requesting
  <2>3. jobOf'[asked[c]] = asked[c]
    BY <1>1, <1>3, <2>1, <2>2 DEF TypeInv, ServerType
  <2>4. OwnFile(c)' /\ Blank(asked[c])'
    BY <1>2, <1>3, <2>1, <2>3 DEF OwnFile, Linked, Blank
  <2>5. NoStop(asked[c])'
    <3>1. inq' = inq /\ asked' = asked
      BY <1>2
    <3>2. Sent(asked[c], "req")
      BY <1>3, <2>1
    <3>3. TypeInv /\ NoStop(asked[c])
      BY <1>3
    <3>4. \A a \in Reqs : a = asked[c] => NoStop(a)'
      BY <1>1, <3>1, <3>2, <3>3, SentOwed
    <3> QED BY <1>1, <3>1, <3>4 DEF NoStop, Stopless
  <2> QED BY <2>1, <2>4, <2>5 DEF LinkInv, Ready
<1> QED BY <1>4, <1>5

LEMMA InSelect ==
    ASSUME NEW c \in Clients, All(c), SelectReply(c) PROVE LinkInv(c)'
<1> USE DEF All
<1>0. \A label : Goto(c, label) => pc'[c] = label
  BY Goes
<1>1. asked[c] \in Reqs
  BY DEF SelectReply, TypeInv, ClientType, AskedInv, Requesting, Reqs
<1>2. UNCHANGED <<asked, owed, jobOf, stored, sent, done>>
  BY DEF SelectReply, session, progress
<1>3. OwnFile(c) /\ g_sSend = asked[c] /\ NoStop(asked[c]) /\ Blank(asked[c])
  BY DEF SelectReply, LinkInv, OwnFile, Linked
<1>4. CASE Refuse(c)
  BY <1>4, LinkRefused
<1>5. CASE ~Refuse(c)
  <2>1. /\ pc'[c] = "reply" /\ UNCHANGED <<g_sSend, conn>>
        /\ inq' \in {inq, [inq EXCEPT ![g_sSend] = <<>>]}
    BY <1>0, <1>5 DEF SelectReply
  <2>2. inq'[asked[c]] \in {inq[asked[c]], <<>>}
    BY <1>1, <1>3, <2>1 DEF TypeInv, ServerType
  <2>3. NoStop(asked[c])'
    BY <1>2, <1>3, <2>2, NothingStopless DEF NoStop, Stopless
  <2>4. stored'[asked'[c]] = <<>> /\ sent'[asked'[c]] = 0
    BY <1>2, <1>3 DEF Blank
  <2>5. Stored(asked[c])'
    BY <2>4 DEF Stored
  <2>6. OwnFile(c)'
    BY <1>2, <1>3, <2>1 DEF OwnFile, Linked
  <2> QED BY <2>1, <2>3, <2>5, <2>6 DEF LinkInv
<1> QED BY <1>4, <1>5

\* A client that sends is ready.
LEMMA Sends ==
    ASSUME NEW c \in Clients, All(c), pc[c] = "idle", told[c].code = 1
    PROVE  /\ asked[c] \in Reqs /\ g_sSend = asked[c] /\ OwnFile(c) /\ NoStop(asked[c])
           /\ conn[asked[c]] = "open" => Stored(asked[c])
<1>1. asked[c] \in Reqs
  BY DEF All, TypeInv, ClientType, AskedInv, Reqs
<1>2. OwnFile(c) /\ NoStop(asked[c]) /\ (conn[asked[c]] = "open" => Stored(asked[c]))
  BY DEF All, LinkInv, Ready
<1> QED BY <1>1, <1>2 DEF OwnFile, Linked

LEMMA InSendEnd ==
    ASSUME NEW c \in Clients, All(c), SendFaxEnd(c) PROVE LinkInv(c)'
<1> USE DEF All
<1>1. CASE Leave(c)
  BY <1>1, LinkLeave
<1>2. CASE ~Leave(c)
  <2>1. /\ pc[c] = "idle" /\ told[c].code = 1
        /\ UNCHANGED <<asked, g_sSend, conn, inq, jobOf, stored, sent, done>>
    BY <1>2 DEF SendFaxEnd, progress
  <2>2. Goto(c, "await") /\ op' = [op EXCEPT ![c] = "stop"]
    BY <1>2 DEF SendFaxEnd
  <2>3. pc'[c] = "await" /\ op'[c] = "stop"
    BY <2>2, Goes DEF TypeInv, ClientType
  <2>4. /\ asked[c] \in Reqs /\ OwnFile(c) /\ NoStop(asked[c])
        /\ conn[asked[c]] = "open" => Stored(asked[c])
    BY <2>1, Sends
  <2>5. OwnFile(c)' /\ Stopless(inq[asked[c]])'
    BY <2>1, <2>4 DEF OwnFile, Linked, NoStop, Stopless
  <2>6. (conn[asked[c]] = "open" => Stored(asked[c]))'
    BY <2>1, <2>4 DEF Stored
  <2> QED BY <2>3, <2>5, <2>6 DEF LinkInv, Ready
<1> QED BY <1>1, <1>2

\* The next block of a document goes to its end.
LEMMA NextBlock ==
    ASSUME TypeInv, NEW c \in Clients, NEW a \in Reqs, asked[c] = a, Stored(a),
           sent'[a] = sent[a] + 1, stored'[a] = Append(stored[a], Block(c))
    PROVE  Stored(a)'
<1>1. stored[a] \in Seq(Reqs \X (1 .. MaxBlocks)) /\ sent[a] \in Nat
      /\ Len(stored[a]) = sent[a]
  BY NumberAssumption DEF TypeInv, DocumentType, Stored
<1> DEFINE q == stored[a]
           b == <<a, sent[a] + 1>>
           p == stored'[a]
<1>2. p = Append(q, b)
  BY DEF Block
<1>3. \A k \in 1 .. sent[a] : q[k] = <<a, k>>
  BY DEF Stored
<1> HIDE DEF b
<1>4. Len(p) = sent[a] + 1 /\ p[sent[a] + 1] = b /\ \A k \in 1 .. sent[a] : p[k] = q[k]
  <2> HIDE DEF q, p
  <2> QED BY <1>1, <1>2 DEF q
<1>5. ASSUME NEW k \in 1 .. sent[a] + 1 PROVE p[k] = <<a, k>>
  <2> HIDE DEF q, p
  <2>1. k = sent[a] + 1 \/ k \in 1 .. sent[a]
    BY <1>1
  <2> QED BY <1>3, <1>4, <2>1 DEF b
<1> QED BY <1>4, <1>5 DEF Stored

LEMMA InSendData ==
    ASSUME NEW c \in Clients, All(c), SendFaxData(c) PROVE LinkInv(c)'
<1> USE DEF All
<1>1. CASE Leave(c)
  BY <1>1, LinkLeave
<1>2. CASE ~Leave(c)
  <2>1. /\ pc[c] = "idle" /\ told[c].code = 1
        /\ UNCHANGED <<asked, g_sSend, conn, inq, jobOf, done>>
    BY <1>2 DEF SendFaxData
  <2>2. /\ Goto(c, "await") /\ op' = [op EXCEPT ![c] = "send"]
        /\ Sent(g_sSend, "send") /\ Store(g_sSend, Block(c))
        /\ sent' = [sent EXCEPT ![asked[c]] = sent[asked[c]] + 1]
    BY <1>2 DEF SendFaxData
  <2>3. pc'[c] = "await" /\ op'[c] = "send"
    BY <2>2, Goes DEF TypeInv, ClientType
  <2>4. /\ asked[c] \in Reqs /\ OwnFile(c) /\ NoStop(asked[c]) /\ g_sSend = asked[c]
        /\ conn[asked[c]] = "open" => Stored(asked[c])
    BY <2>1, Sends
  <2>5. OwnFile(c)'
    BY <2>1, <2>4 DEF OwnFile, Linked
  <2>6. NoStop(asked[c])'
    <3>1. Sent(asked[c], "send")
      BY <2>2, <2>4
    <3>2. \A a \in Reqs : a = asked[c] => NoStop(a)'
      BY <2>1, <2>4, <3>1, SentOwed
    <3> QED BY <2>1, <2>4, <3>2 DEF NoStop, Stopless
  <2>7. ASSUME conn'[asked'[c]] = "open" PROVE Stored(asked[c])'
    <3>1. conn[asked[c]] = "open" /\ jobOf[asked[c]] = asked[c] /\ asked[c] # 0
      BY <2>1, <2>4, <2>7 DEF OwnFile, Reqs
    <3>2. stored' = [stored EXCEPT ![asked[c]] = Append(stored[asked[c]], Block(c))]
      BY <2>2, <2>4, <3>1 DEF Store
    <3>3. /\ stored'[asked[c]] = Append(stored[asked[c]], Block(c))
          /\ sent'[asked[c]] = sent[asked[c]] + 1
      BY <2>2, <2>4, <3>2 DEF TypeInv, DocumentType
    <3>4. \A a \in Reqs : a = asked[c] => Stored(a)'
      BY <2>4, <3>1, <3>3, NextBlock
    <3> QED BY <2>1, <2>4, <3>4 DEF Stored
  <2>8. Stopless(inq[asked[c]])'
    BY <2>6 DEF NoStop, Stopless
  <2> QED BY <2>3, <2>5, <2>6, <2>7, <2>8 DEF LinkInv, Ready
<1> QED BY <1>1, <1>2

LEMMA InReceive ==
    ASSUME NEW c \in Clients, All(c),
           GetRSAPacket(c) \/ ReceiveReply(c) \/ ReceiveFails(c)
    PROVE  LinkInv(c)'
<1> USE DEF All
<1>1. CASE Leave(c)
  BY <1>1, LinkLeave
<1>2. asked[c] \in Reqs
  BY DEF GetRSAPacket, ReceiveReply, ReceiveFails, TypeInv, ClientType, AskedInv, Reqs
<1>3. /\ OwnFile(c) /\ op[c] \in {"send", "stop"}
      /\ op[c] = "send" => NoStop(asked[c])
      /\ conn[asked[c]] = "open" \/ ~Stopless(inq[asked[c]]) => Stored(asked[c])
      /\ pc[c] = "recv" => sock[c] = asked[c]
  BY DEF GetRSAPacket, ReceiveReply, ReceiveFails, LinkInv
<1>4. CASE GetRSAPacket(c)
  <2>1. UNCHANGED <<server, g_sSend, sent, done>> /\ asked'[c] = asked[c]
        /\ op'[c] = op[c]
    BY <1>4 DEF GetRSAPacket, progress
  <2>2. pc'[c] = "recv" /\ sock'[c] = g_sSend
    BY <1>4, Goes DEF GetRSAPacket, TypeInv, ClientType
  <2>3. sock'[c] = asked'[c]
    BY <1>3, <2>1, <2>2 DEF OwnFile, Linked
  <2>4. /\ OwnFile(c)'
        /\ NoStop(asked[c]) => NoStop(asked[c])'
        /\ Stored(asked[c]) => Stored(asked[c])'
        /\ Stopless(inq[asked[c]]) <=> Stopless(inq[asked[c]])'
        /\ conn'[asked'[c]] = conn[asked[c]]
    BY <1>3, <2>1, FileKept
  <2>5. /\ (op[c] = "send" => NoStop(asked[c]))'
        /\ (conn[asked[c]] = "open" \/ ~Stopless(inq[asked[c]]) => Stored(asked[c]))'
    BY <1>3, <2>1, <2>4
  <2> QED BY <1>3, <2>1, <2>2, <2>3, <2>4, <2>5 DEF LinkInv, Ready
<1>5. CASE ReceiveReply(c) /\ ~Leave(c)
  <2>1. /\ pc[c] = "recv" /\ sock[c] = asked[c] /\ inq[asked[c]] # <<>>
        /\ UNCHANGED <<asked, g_sSend, owed, jobOf, stored, sent, conn>>
        /\ Goto(c, "idle")
    BY <1>3, <1>5 DEF ReceiveReply
  <2>2. pc'[c] = "idle"
    BY <2>1, Goes
  <2>3. CASE op[c] = "stop"
    <3>1. told'[c] = NoAnswer
      BY <1>5, <2>3 DEF ReceiveReply, TypeInv, ClientType
    <3> QED BY <2>2, <3>1, NotEngaged DEF Engaged, Asks, Requesting, NoAnswer
  <2>4. CASE op[c] = "send"
    <3>1. UNCHANGED done
      BY <1>5, <2>4 DEF ReceiveReply
    <3>2. inq'[asked[c]] \in {<<>>, Tail(inq[asked[c]])}
      BY <1>2, <1>5, <2>1 DEF ReceiveReply, TypeInv, ServerType
    <3>3. Stopless(inq[asked[c]]) /\ Stopless(owed[asked[c]])
      BY <1>3, <2>4 DEF NoStop
    <3>4. Tail(inq[asked[c]]) \in Seq({"req", "send"})
      BY <2>1, <3>3 DEF Stopless
    <3>5. inq'[asked[c]] \in Seq({"req", "send"})
      BY ONLY <3>2, <3>4, NothingStopless DEF Stopless
    <3>6. NoStop(asked[c])'
      BY <2>1, <3>3, <3>5 DEF NoStop, Stopless
    <3>7. OwnFile(c)'
      BY <1>3, <2>1, <3>1 DEF OwnFile, Linked
    <3>8. (conn[asked[c]] = "open" => Stored(asked[c]))'
      BY <1>3, <2>1 DEF Stored
    <3> QED BY <2>2, <3>6, <3>7, <3>8 DEF LinkInv
  <2> QED BY <1>3, <2>3, <2>4
<1> QED BY <1>1, <1>4, <1>5 DEF ReceiveFails

\* Whatever became of the request before.
LEMMA AtStart ==
    ASSUME NEW c \in Clients, TypeInv, Fresh, Disconnect(c) \/ RequestSend(c)
    PROVE  LinkInv(c)'
<1>1. CASE Leave(c)
  BY <1>1, LinkLeave
<1>2. CASE RequestSend(c) /\ ~Leave(c)
  <2>1. nreq < MaxReq /\ UNCHANGED <<server, sent, done>>
        /\ Goto(c, "ask") /\ asked' = [asked EXCEPT ![c] = nreq + 1]
    BY <1>2 DEF RequestSend
  <2>2. pc'[c] = "ask" /\ asked'[c] = nreq + 1
    BY <2>1, Goes DEF TypeInv, ClientType
  <2>3. nreq + 1 \in Reqs /\ nreq + 1 > nreq
    BY <2>1, NumberAssumption DEF Reqs, TypeInv, AnswerType
  <2>4. Unused(nreq + 1)
    BY <2>3 DEF Fresh
  <2>5. Unused(asked[c])'
    BY <2>1, <2>2, <2>4 DEF Unused, Blank, server
  <2> QED BY <2>2, <2>5 DEF LinkInv, Ready
<1> QED BY <1>1, <1>2 DEF Disconnect

LEMMA OwnTransfer == ASSUME NEW c \in Clients, All(c), Client(c) PROVE LinkInv(c)'
<1>1. Disconnect(c) \/ RequestSend(c) => LinkInv(c)'
  BY AtStart DEF All
<1> QED
  BY <1>1, InRequest, AtServer, InRequestFile, InSelect, InSendData, InSendEnd, InReceive
     DEF Client, Request

-----------------------------------------------------------------------------
(* The steps of the others, and the documents.                             *)

\* A client that is not sending disturbs no other, as long as it does not begin.
LEMMA Bystander ==
    ASSUME NEW c \in Clients, LinkInv(c), TypeInv, NEW d \in Clients, d # c, Client(d),
           ~Engaged(d), ~Engaged(d)'
    PROVE  LinkInv(c)'
<1>1. Disconnect(d) \/ RequestSend(d)
  BY DEF Client, Engaged, Asks, Requesting, Request, onSendRequest, WaitAnswer,
         WaitTimeout, Decide, OpenSocket, ConnectServer, RequestFile, SelectReply, Answer,
         Settle, SendFaxData, SendFaxEnd, GetRSAPacket, ReceiveReply, ReceiveFails
<1>2. UNCHANGED <<server, g_sSend, sent, done>>
  BY <1>1 DEF Disconnect, RequestSend, progress
<1>3. /\ pc'[c] = pc[c] /\ asked'[c] = asked[c] /\ told'[c] = told[c]
      /\ sock'[c] = sock[c] /\ op'[c] = op[c]
  BY ClientAlone
<1>4. UNCHANGED g_bySendCode
  BY <1>1 DEF Disconnect, RequestSend, answer
<1>5. Ready(c)' <=> Ready(c)
  BY <1>3, <1>4 DEF Ready
<1> QED BY <1>2, <1>3, <1>5
        DEF LinkInv, server, Unused, Blank, NoStop, Stopless, Linked, OwnFile, Stored

LEMMA FromReceiver ==
    ASSUME NEW c \in Clients, All(c), Asks(c) => Clear(c), Receiver PROVE LinkInv(c)'
<1> USE DEF All
<1>1. UNCHANGED <<pc, session, server, g_sSend, sent, done>>
  BY DEF Receiver, ReplyRest, ReplyCode, progress
<1>2. Asks(c) => pc[c] = "wait" \/ UNCHANGED g_bySendCode
  BY DEF Receiver, ReplyRest, ReplyCode, Serial, AnswerInv
<1>3. Ready(c)' => Ready(c)
  BY <1>1, <1>2 DEF Ready, Asks, Requesting, session
<1> QED BY <1>1, <1>3
        DEF LinkInv, server, session, Unused, Blank, NoStop, Stopless, Linked, OwnFile,
            Stored

LEMMA FromServer ==
    ASSUME NEW c \in Clients, All(c), NEW s \in Reqs, Server(s) PROVE LinkInv(c)'
<1> USE DEF All
<1>1. UNCHANGED <<pc, session, jobOf, stored, sent, done, g_sSend>>
  BY OthersAlone
<1>2. /\ conn[s] = "open" /\ conn'[s] \in {"open", "ended"}
      /\ UNCHANGED <<answer, center>>
      /\ \A r \in Reqs \ {s} : Same(r)
      /\ Stopless(owed[s]) => Stopless(owed[s])'
      /\ NoStop(s) => NoStop(s)'
  BY ServerMoves
<1>3. Ready(c)' => Ready(c)
  BY <1>1, <1>2 DEF Ready, session, answer
<1>4. pc'[c] = pc[c] /\ asked'[c] = asked[c] /\ op'[c] = op[c] /\ sock'[c] = sock[c]
  BY <1>1 DEF session
<1>5. CASE ~Engaged(c)
  <2>1. ~Engaged(c)'
    BY <1>1, <1>5 DEF Engaged, Asks, session
  <2> QED BY <2>1, NotEngaged
<1>6. CASE Engaged(c) /\ asked[c] # s
  <2>1. asked[c] \in Reqs
    BY <1>6 DEF TypeInv, ClientType, AskedInv, Engaged, Asks, Reqs
  <2>2. Same(asked[c])
    BY <1>2, <1>6, <2>1
  <2> QED BY <1>1, <1>3, <1>4, <2>2
          DEF LinkInv, Same, Unused, Blank, NoStop, Stopless, Linked, OwnFile, Stored
<1>7. CASE asked[c] = s
  <2>1. pc[c] \notin {"ask", "wait", "got", "socket", "connect"}
    BY <1>2, <1>7 DEF LinkInv, Unused
  <2>2. /\ Blank(s) => Blank(s)'
        /\ Stored(s) => Stored(s)'
    BY <1>1 DEF Blank, Stored
  <2>3. /\ Linked(c) => Linked(c)'
        /\ OwnFile(c) => OwnFile(c)'
    BY <1>1, <1>2, <1>4, <1>7 DEF Linked, OwnFile
  <2>4. pc'[c] = "request" => Linked(c)' /\ NoStop(s)' /\ Blank(s)'
    BY <1>2, <1>4, <1>7, <2>2, <2>3 DEF LinkInv
  <2>5. pc'[c] = "select" => OwnFile(c)' /\ NoStop(s)' /\ Blank(s)'
    BY <1>2, <1>4, <1>7, <2>2, <2>3 DEF LinkInv
  <2>6. Ready(c)' => OwnFile(c)' /\ NoStop(s)' /\ Stored(s)'
    BY <1>2, <1>3, <1>7, <2>2, <2>3 DEF LinkInv
  <2>7. pc'[c] \in {"await", "recv"} =>
          /\ OwnFile(c)' /\ op'[c] \in {"send", "stop"}
          /\ op'[c] = "send" => NoStop(s)'
          /\ Stored(s)'
          /\ pc'[c] = "recv" => sock'[c] = s
    BY <1>2, <1>4, <1>7, <2>2, <2>3 DEF LinkInv
  <2>8. asked'[c] = s
    BY <1>4, <1>7
  <2> HIDE DEF All
  <2> QED BY ONLY <1>4, <2>1, <2>4, <2>5, <2>6, <2>7, <2>8
          DEF LinkInv, NoStop, Blank, Stored
<1> QED BY <1>5, <1>6, <1>7

\* A document that a step at most lengthens.
LEMMA BeginsKept ==
    ASSUME TypeInv, NEW r \in Reqs, Begins(r), sent'[r] = sent[r],
           \/ stored'[r] = stored[r]
           \/ \E b \in Reqs \X (1 .. MaxBlocks) : stored'[r] = Append(stored[r], b)
    PROVE  Begins(r)'
<1>1. stored[r] \in Seq(Reqs \X (1 .. MaxBlocks)) /\ sent[r] \in Nat
  BY NumberAssumption DEF TypeInv, DocumentType
<1>2. CASE stored'[r] = stored[r]
  BY <1>2 DEF Begins
<1>3. ASSUME NEW b \in Reqs \X (1 .. MaxBlocks), stored'[r] = Append(stored[r], b)
      PROVE  Begins(r)'
  <2>1. /\ Len(Append(stored[r], b)) = Len(stored[r]) + 1
        /\ \A k \in 1 .. Len(stored[r]) : Append(stored[r], b)[k] = stored[r][k]
    BY <1>1
  <2>2. \A k \in 1 .. sent[r] : k \in 1 .. Len(stored[r])
    BY <1>1 DEF Begins
  <2> QED BY <1>1, <1>3, <2>1, <2>2 DEF Begins
<1> QED BY <1>2, <1>3

LEMMA ForeignKept ==
    ASSUME TypeInv, NEW r \in Reqs, ForeignMarked(r), Marked \subseteq Marked',
           \/ stored'[r] = stored[r]
           \/ \E b \in Reqs \X (1 .. MaxBlocks) :
                 stored'[r] = Append(stored[r], b) /\ (b[1] = r \/ b[1] \in Marked)
    PROVE  ForeignMarked(r)'
<1>1. stored[r] \in Seq(Reqs \X (1 .. MaxBlocks))
  BY DEF TypeInv, DocumentType
<1>2. CASE stored'[r] = stored[r]
  BY <1>2 DEF ForeignMarked
<1>3. ASSUME NEW b \in Reqs \X (1 .. MaxBlocks), stored'[r] = Append(stored[r], b),
             b[1] = r \/ b[1] \in Marked
      PROVE  ForeignMarked(r)'
  <2>1. /\ Len(Append(stored[r], b)) = Len(stored[r]) + 1
        /\ Append(stored[r], b)[Len(stored[r]) + 1] = b
        /\ \A k \in 1 .. Len(stored[r]) : Append(stored[r], b)[k] = stored[r][k]
    BY <1>1
  <2>2. ASSUME NEW k \in 1 .. Len(stored[r]) + 1
        PROVE  stored'[r][k] = b \/ (k \in 1 .. Len(stored[r])
                                       /\ stored'[r][k] = stored[r][k])
    <3>1. k = Len(stored[r]) + 1 \/ k \in 1 .. Len(stored[r])
      BY <1>1
    <3> QED BY <1>3, <2>1, <3>1
  <2>3. Len(stored'[r]) = Len(stored[r]) + 1
    BY <1>3, <2>1
  <2> QED BY <1>3, <2>2, <2>3 DEF ForeignMarked
<1> QED BY <1>2, <1>3

LEMMA DocumentsClient ==
    ASSUME TypeInv, NEW d \in Clients, Client(d), Links, Documents, Marked \subseteq Marked'
    PROVE  Documents'
<1>1. CASE UNCHANGED <<stored, sent, done>>
  <2>1. \A r \in Reqs : ForeignMarked(r)'
    BY <1>1, ForeignKept DEF Documents
  <2>2. \A r \in done' : r \notin Marked' => Begins(r)'
    BY <1>1 DEF Documents, Begins
  <2> QED BY <2>1, <2>2 DEF Documents
<1>2. CASE SendFaxData(d) /\ ~UNCHANGED <<stored, sent>>
  <2>1. /\ pc[d] = "idle" /\ told[d].code = 1 /\ sent[asked[d]] < MaxBlocks
        /\ Sent(g_sSend, "send") /\ Store(g_sSend, Block(d))
        /\ sent' = [sent EXCEPT ![asked[d]] = sent[asked[d]] + 1]
        /\ done' = done /\ UNCHANGED <<conn, jobOf>>
    BY <1>2 DEF SendFaxData
  <2>2. asked[d] \in Reqs
    BY <2>1 DEF TypeInv, ClientType, AskedInv, Reqs
  <2>3. Block(d) \in Reqs \X (1 .. MaxBlocks) /\ Block(d)[1] = asked[d]
    BY <2>1, <2>2, NumberAssumption DEF Block, TypeInv, DocumentType
  <2>4. ASSUME asked[d] \notin Marked
        PROVE  /\ g_sSend = asked[d] /\ jobOf[g_sSend] = asked[d]
               /\ asked[d] \notin done
    BY <2>1, <2>4 DEF Links, LinkInv, Ready, OwnFile, Linked
  <2>5. g_sSend \in Reqs
    BY <2>1 DEF Sent, Conn, TypeInv, AnswerType, Reqs
  <2>6. stored' \in {stored, [stored EXCEPT ![jobOf[g_sSend]] =
                                 Append(stored[jobOf[g_sSend]], Block(d))]}
    BY <2>1 DEF Store
  <2>7. ASSUME NEW r \in Reqs
        PROVE  \/ stored'[r] = stored[r]
               \/ /\ stored'[r] = Append(stored[r], Block(d))
                  /\ Block(d)[1] = r \/ Block(d)[1] \in Marked
    <3>1. CASE stored' = stored \/ r # jobOf[g_sSend]
      BY <2>6, <3>1 DEF TypeInv, DocumentType
    <3>2. CASE stored' # stored /\ r = jobOf[g_sSend]
      <4>1. stored'[r] = Append(stored[r], Block(d))
        BY <2>6, <3>2 DEF TypeInv, DocumentType
      <4> QED BY <2>3, <2>4, <3>2, <4>1
    <3> QED BY <3>1, <3>2
  <2>8. \A r \in Reqs : ForeignMarked(r)'
    <3>1. SUFFICES ASSUME NEW r \in Reqs PROVE ForeignMarked(r)'
      OBVIOUS
    <3>2. ForeignMarked(r)
      BY DEF Documents
    <3>3. \/ stored'[r] = stored[r]
          \/ \E b \in Reqs \X (1 .. MaxBlocks) :
                stored'[r] = Append(stored[r], b) /\ (b[1] = r \/ b[1] \in Marked)
      BY <2>3, <2>7
    <3> QED BY <3>2, <3>3, ForeignKept
  <2>9. ASSUME NEW r \in done', r \notin Marked' PROVE Begins(r)'
    <3>1. r \in done /\ r \in Reqs /\ r \notin Marked
      BY <2>1, <2>9 DEF TypeInv, DocumentType
    <3>2. r # asked[d]
      BY <2>4, <3>1
    <3>3. sent'[r] = sent[r]
      BY <2>1, <3>1, <3>2 DEF TypeInv, DocumentType
    <3>4. Begins(r)
      BY <3>1 DEF Documents
    <3>5. \/ stored'[r] = stored[r]
          \/ \E b \in Reqs \X (1 .. MaxBlocks) : stored'[r] = Append(stored[r], b)
      BY <2>3, <2>7, <3>1
    <3> QED BY <3>1, <3>3, <3>4, <3>5, BeginsKept
  <2> QED BY <2>8, <2>9 DEF Documents
<1>3. CASE ReceiveReply(d) /\ ~UNCHANGED done
  <2>1. /\ pc[d] = "recv" /\ op[d] = "stop" /\ inq[sock[d]] # <<>>
        /\ Head(inq[sock[d]]) = "stop" /\ done' = done \cup {asked[d]}
        /\ UNCHANGED <<stored, sent>> /\ Conn(sock[d]) \in {"open", "ended"}
    BY <1>3 DEF ReceiveReply
  <2>2. sock[d] \in Reqs
    BY <2>1 DEF Conn, TypeInv, ClientType, Reqs
  <2>3. ~Stopless(inq[sock[d]])
    <3>1. ASSUME Stopless(inq[sock[d]]) PROVE Head(inq[sock[d]]) \in {"req", "send"}
      BY <2>1, <3>1 DEF Stopless
    <3> QED BY <2>1, <3>1
  <2>4. ASSUME asked[d] \notin Marked PROVE Begins(asked[d])
    <3>1. sock[d] = asked[d] /\ Stored(asked[d])
      BY <2>1, <2>3, <2>4 DEF Links, LinkInv
    <3>2. sent[asked[d]] \in Nat
      BY <2>2, <3>1, NumberAssumption DEF TypeInv, DocumentType
    <3> QED BY <3>1, <3>2 DEF Stored, Begins
  <2>5. \A r \in Reqs : ForeignMarked(r)'
    BY <2>1, ForeignKept DEF Documents
  <2>6. \A r \in done' : r \notin Marked' => Begins(r)
    BY <2>1, <2>4 DEF Documents
  <2> QED BY <2>1, <2>5, <2>6 DEF Documents, Begins
<1>4. CASE ~SendFaxData(d) /\ ~ReceiveReply(d)
  <2>1. UNCHANGED <<stored, sent, done>>
    BY <1>4 DEF Client, Disconnect, RequestSend, Request, onSendRequest, WaitAnswer,
           WaitTimeout, Decide, OpenSocket, ConnectServer, RequestFile, SelectReply, Answer,
           Settle, SendFaxEnd, GetRSAPacket, ReceiveFails, server, progress
  <2> QED BY <1>1, <2>1
<1>5. (SendFaxData(d) => done' = done) /\ (ReceiveReply(d) => UNCHANGED <<stored, sent>>)
  BY DEF SendFaxData, ReceiveReply
<1> QED BY <1>1, <1>2, <1>3, <1>4, <1>5

LEMMA MarkedGrows == ASSUME Remember PROVE Marked \subseteq Marked'
  BY DEF Remember, Marked

LEMMA DocumentsStep ==
    ASSUME TypeInv, Links, Documents, Step, Remember PROVE Documents'
<1>1. ASSUME NEW d \in Clients, Client(d) PROVE Documents'
  BY <1>1, MarkedGrows, DocumentsClient
<1>2. CASE Receiver \/ (\E s \in Reqs : Server(s))
  <2>1. UNCHANGED <<stored, sent, done>>
    BY <1>2, OthersAlone
  <2>2. \A r \in Reqs : ForeignMarked(r)'
    BY <2>1, MarkedGrows, ForeignKept DEF Documents
  <2>3. \A r \in done' : r \notin Marked' => Begins(r)'
    BY <2>1, MarkedGrows DEF Documents, Begins
  <2> QED BY <2>2, <2>3 DEF Documents
<1> QED BY <1>1, <1>2 DEF Step

LEMMA LinksStep ==
    ASSUME BaseInv, BaseInv', SerialInv, Fresh, Links, Step, Remember PROVE Links'
<1> SUFFICES ASSUME NEW c \in Clients, asked'[c] \notin Marked' PROVE LinkInv(c)'
  BY DEF Links
<1> USE DEF BaseInv
<1>1. ASSUME asked'[c] = asked[c]
      PROVE  All(c) /\ (Asks(c) => Clear(c))
  <2>1. asked[c] \notin Marked
    BY <1>1, MarkedGrows
  <2>2. Serial(c) /\ (Asks(c) => Clear(c))
    BY <2>1 DEF SerialInv, Marked, HistoryInv
  <2>3. LinkInv(c)
    BY <2>1 DEF Links
  <2> QED BY <2>2, <2>3 DEF All
<1>2. CASE Client(c)
  <2>1. CASE Leave(c)
    BY <2>1, LinkLeave
  <2>2. CASE RequestSend(c)
    BY <2>2, AtStart
  <2>3. CASE ~RequestSend(c) /\ ~Leave(c)
    <3>1. asked' = asked
      BY <1>2, <2>3 DEF Client, Disconnect, Request, onSendRequest, WaitAnswer,
             WaitTimeout, Decide, OpenSocket, ConnectServer, RequestFile, SelectReply,
             Answer, Settle, SendFaxData, SendFaxEnd, GetRSAPacket, ReceiveReply,
             ReceiveFails, session
    <3> QED BY <1>1, <1>2, <3>1, OwnTransfer
  <2> QED BY <2>1, <2>2, <2>3
<1>3. ASSUME NEW d \in Clients, d # c, Client(d) PROVE LinkInv(c)'
  <2>1. pc'[c] = pc[c] /\ asked'[c] = asked[c] /\ told'[c] = told[c]
    BY <1>3, ClientAlone
  <2>2. LinkInv(c)
    BY <1>1, <2>1 DEF All
  <2>3. CASE ~Engaged(c)'
    BY <2>3, NotEngaged
  <2>4. CASE Engaged(c)'
    <3>1. Engaged(c) /\ asked[c] \notin shared
      BY <2>1, <2>4, MarkedGrows DEF Engaged, Asks, Marked
    <3>2. ~Engaged(d)
      BY <1>3, <3>1 DEF HistoryInv
    <3>3. ~Engaged(d)'
      BY <1>3, <2>4 DEF HistoryInv, Marked
    <3> QED BY <1>3, <2>2, <3>2, <3>3, Bystander
  <2> QED BY <2>3, <2>4
<1>4. CASE Receiver
  <2>1. asked'[c] = asked[c]
    BY <1>4, OthersAlone DEF session
  <2> QED BY <1>1, <1>4, <2>1, FromReceiver
<1>5. ASSUME NEW s \in Reqs, Server(s) PROVE LinkInv(c)'
  <2>1. asked'[c] = asked[c]
    BY <1>5, OthersAlone DEF session
  <2> QED BY <1>1, <1>5, <2>1, FromServer
<1> QED BY <1>2, <1>3, <1>4, <1>5 DEF Step

LEMMA InitTransfer == Init => TransferInv
<1> SUFFICES ASSUME Init PROVE TransferInv
  OBVIOUS
<1>1. \A r \in Reqs : Unused(r) /\ stored[r] = <<>>
  BY DEF Init, Unused, Blank
<1>2. Fresh
  BY <1>1 DEF Fresh
<1>3. Documents
  BY <1>1 DEF Documents, ForeignMarked, Init
<1>4. \A c \in Clients : LinkInv(c)
  BY DEF Init, LinkInv, Ready, NoAnswer
<1> QED BY <1>2, <1>3, <1>4 DEF TransferInv, Links

LEMMA TransferStep ==
    ASSUME BaseInv, BaseInv', SerialInv, TransferInv, [Next]_vars PROVE TransferInv'
<1>1. CASE Next
  BY <1>1, FreshStep, DocumentsStep, LinksStep DEF Next, TransferInv, BaseInv
<1>2. CASE UNCHANGED vars
  <2>1. UNCHANGED <<pc, asked, told, sock, op, g_bySendCode, g_sSend, nreq, conn, owed, inq,
                    jobOf, stored, sent, done, crossed, shared>>
    BY <1>2 DEF vars, session, answer, server, progress
  <2>2. Fresh'
    BY <2>1 DEF TransferInv, Fresh, Unused, Blank
  <2>3. Documents'
    BY <2>1 DEF TransferInv, Documents, Begins, ForeignMarked, Marked
  <2>4. ASSUME NEW c \in Clients, LinkInv(c) PROVE LinkInv(c)'
    <3>1. Ready(c)' <=> Ready(c)
      BY <2>1 DEF Ready
    <3> QED BY <2>1, <2>4, <3>1
            DEF LinkInv, Linked, OwnFile, Unused, Blank, NoStop, Stopless, Stored
  <2>5. Links'
    BY <2>1, <2>4 DEF TransferInv, Links, Marked
  <2> QED BY <2>2, <2>3, <2>5 DEF TransferInv
<1> QED BY <1>1, <1>2

(* A document the client was told is complete is stored completely, in     *)
(* order, under its own job, and no job holds another one's blocks, unless *)
(* the request met another one while it asked or shared g_sSend with one;  *)
(* for any number of clients, requests and blocks, with a center and a     *)
(* file server that may be slow, silent or gone at any time.               *)
(* (FileSession.cpp:1181, 1200-1230, 1470, 1486)                           *)
THEOREM DeliveredAlways == Spec => []Delivered
<1>1. BaseInv /\ BaseInv' /\ SerialInv /\ TransferInv /\ [Next]_vars => TransferInv'
  BY TransferStep
<1>2. TransferInv => Delivered
  BY DEF TransferInv, Documents, Begins, ForeignMarked, Delivered, Marked
<1> QED
  BY <1>1, <1>2, InitTransfer, SerialAlways, PTL DEF Spec
=============================================================================
