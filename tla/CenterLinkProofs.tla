-------------------------- MODULE CenterLinkProofs --------------------------
(* Theorems about CenterLink, for every set of descriptors and every value *)
(* of the bounds.                                                          *)
EXTENDS CenterLink, TLAPS

(* The labels of the threads, as sets of strings. *)
LEMMA GotoType ==
    ASSUME TypeOK, NEW t \in {"main", "rx"}, NEW l,
           l \in IF t = "main" THEN MainPC ELSE RxPC,
           Goto(t, l)
    PROVE  /\ pc' \in [Threads -> MainPC \cup RxPC \cup TxPC]
           /\ pc'["main"] \in MainPC /\ pc'["rx"] \in RxPC
           /\ pc'["tx"] \in TxPC
BY DEF TypeOK, Goto, Threads

LEMMA GotoTxType ==
    ASSUME TypeOK, NEW l \in TxPC, Goto("tx", l)
    PROVE  /\ pc' \in [Threads -> MainPC \cup RxPC \cup TxPC]
           /\ pc'["main"] \in MainPC /\ pc'["rx"] \in RxPC
           /\ pc'["tx"] \in TxPC
BY DEF TypeOK, Goto, Threads

(* What Close() may return to. *)
LEMMA CloseReturnType ==
    ASSUME TypeOK, NEW t \in {"main", "rx"}
    PROVE  CloseReturn(t) \in IF t = "main" THEN MainPC ELSE RxPC
BY DEF TypeOK, CloseReturn, MainPC, RxPC

(* A reply of the center is a frame. *)
LEMMA ReplyType ==
    ASSUME TypeOK, NEW s \in FDs, NEW m \in Msgs, Reply(s, m)
    PROVE  inq' \in [FDs -> Seq(Frames)]
<1>1. Whole(m) \in Frames
  BY DEF Whole, Frames
<1>2. inq[s] \in Seq(Frames)
  BY DEF TypeOK
<1>3. Append(inq[s], Whole(m)) \in Seq(Frames)
  BY <1>1, <1>2
<1> QED
  BY <1>3 DEF TypeOK, Reply

(* What is known of m_tcpSock when it is a descriptor. *)
LEMMA SockIsFD ==
    ASSUME TypeOK, State(m_tcpSock) # "free"
    PROVE  m_tcpSock \in FDs
BY DEF TypeOK, State

(* send() leaves every variable it changes in its type. *)
LEMMA SendType ==
    ASSUME TypeOK, NEW cmd,
           SendRefused \/ SendKilled \/ SendTaken(cmd)
    PROVE  /\ m_bIsLogin' \in BOOLEAN /\ alive' \in BOOLEAN
           /\ conn' \in [FDs -> ConnStates]
           /\ inq' \in [FDs -> Seq(Frames)]
<1>1. CASE SendRefused \/ SendKilled
  BY <1>1 DEF TypeOK, SendRefused, SendKilled, network
<1>2. CASE SendTaken(cmd)
  <2>1. m_tcpSock \in FDs
    BY <1>2, SockIsFD DEF SendTaken
  <2>2. m_bIsLogin' \in BOOLEAN /\ alive' \in BOOLEAN
    BY <1>2 DEF SendTaken, TypeOK
  <2>3. CASE CenterHandles(m_tcpSock, cmd)
    <3>1. "loginok" \in Msgs /\ "loginrej" \in Msgs /\ "alive" \in Msgs
      BY DEF Msgs
    <3>2. inq' \in [FDs -> Seq(Frames)]
      BY <2>1, <2>3, <3>1, ReplyType DEF CenterHandles, network, TypeOK
    <3>3. conn' \in [FDs -> ConnStates]
      BY <2>1, <2>3 DEF CenterHandles, network, TypeOK, ConnStates, Live
    <3> QED
      BY <2>2, <3>2, <3>3
  <2>4. CASE UNCHANGED network
    BY <2>2, <2>4 DEF network, TypeOK
  <2>5. CASE conn' = [conn EXCEPT ![m_tcpSock] = "rst"] /\ UNCHANGED inq
    BY <2>1, <2>2, <2>5 DEF TypeOK, ConnStates, Over
  <2> QED
    BY <1>2, <2>3, <2>4, <2>5 DEF SendTaken
<1> QED
  BY <1>1, <1>2

(* A descriptor that is closed leaves the network and rfd in their types.  *)
LEMMA ReleaseType ==
    ASSUME TypeOK, NEW s \in FDs, Release(s)
    PROVE  /\ conn' \in [FDs -> ConnStates]
           /\ inq' \in [FDs -> Seq(Frames)]
           /\ rfd' \in FDs \cup {NoSock, Orphan, Ended}
BY DEF TypeOK, Release, ConnStates
-----------------------------------------------------------------------------
LEMMA InitTypeOK == Init => TypeOK
<1> SUFFICES ASSUME Init PROVE TypeOK
  OBVIOUS
<1>1. /\ m_tcpSock \in FDs \cup {NoSock} /\ m_bIsLogin \in BOOLEAN
      /\ g_hRecvEvent \in BOOLEAN /\ alive \in BOOLEAN /\ settled \in BOOLEAN
  BY DEF Init
<1>2. m_nWaitAlive \in 0 .. MaxWaitAlive /\ waitRead \in 0 .. MaxWaitAlive - 1
  BY NumberAssumption DEF Init
<1>3. nbad \in 0 .. MaxBad /\ more \in 0 .. 1
  BY NumberAssumption DEF Init
<1>4. /\ pc \in [Threads -> MainPC \cup RxPC \cup TxPC]
      /\ pc["main"] \in MainPC /\ pc["rx"] \in RxPC /\ pc["tx"] \in TxPC
  BY DEF Init, Threads, MainPC, RxPC, TxPC
<1>5. chunk \in Frames
  BY DEF Init, Nothing, Whole, Frames, Msgs
<1>6. conn \in [FDs -> ConnStates]
  BY DEF Init, ConnStates
<1>7. inq \in [FDs -> Seq(Frames)]
  BY DEF Init
<1>8. /\ afterClose \in {"dns", "sock", "login"}
      /\ rfd \in FDs \cup {NoSock, Orphan, Ended}
      /\ ntype \in {"sync", "mid", "stuck"}
  BY DEF Init
<1> QED
  BY <1>1, <1>2, <1>3, <1>4, <1>5, <1>6, <1>7, <1>8 DEF TypeOK

(* The three steps of Close(), whichever thread takes them. *)
LEMMA CloseTestType ==
    ASSUME TypeOK, NEW t \in {"main", "rx"}, CloseTest(t)
    PROVE  TypeOK'
<1> USE DEF session
<1>1. CASE m_tcpSock # NoSock
  <2>1. conn' \in [FDs -> ConnStates]
    BY <1>1 DEF CloseTest, Shutdown, TypeOK, ConnStates, Over
  <2>2. /\ pc' \in [Threads -> MainPC \cup RxPC \cup TxPC]
        /\ pc'["main"] \in MainPC /\ pc'["rx"] \in RxPC
        /\ pc'["tx"] \in TxPC
    BY <1>1, GotoType DEF CloseTest, MainPC, RxPC
  <2> QED
    BY <1>1, <2>1, <2>2 DEF CloseTest, TypeOK
<1>2. CASE m_tcpSock = NoSock
  <2>1. /\ pc' \in [Threads -> MainPC \cup RxPC \cup TxPC]
        /\ pc'["main"] \in MainPC /\ pc'["rx"] \in RxPC
        /\ pc'["tx"] \in TxPC
    BY <1>2, GotoType, CloseReturnType DEF CloseTest
  <2> QED
    BY <1>2, <2>1 DEF CloseTest, TypeOK
<1> QED
  BY <1>1, <1>2

LEMMA CloseSocketType ==
    ASSUME TypeOK, NEW t \in {"main", "rx"}, CloseSocket(t)
    PROVE  TypeOK'
<1> USE DEF session
<1>1. /\ pc' \in [Threads -> MainPC \cup RxPC \cup TxPC]
      /\ pc'["main"] \in MainPC /\ pc'["rx"] \in RxPC
      /\ pc'["tx"] \in TxPC
  BY GotoType DEF CloseSocket, MainPC, RxPC
<1>2. /\ conn' \in [FDs -> ConnStates]
      /\ inq' \in [FDs -> Seq(Frames)]
      /\ rfd' \in FDs \cup {NoSock, Orphan, Ended}
  <2>1. CASE m_tcpSock # NoSock
    <3>1. m_tcpSock \in FDs /\ Release(m_tcpSock)
      BY <2>1 DEF CloseSocket, TypeOK
    <3> QED
      BY <3>1, ReleaseType
  <2>2. CASE m_tcpSock = NoSock
    BY <2>2 DEF CloseSocket, TypeOK
  <2> QED
    BY <2>1, <2>2
<1> QED
  BY <1>1, <1>2 DEF CloseSocket, TypeOK

LEMMA CloseClearType ==
    ASSUME TypeOK, NEW t \in {"main", "rx"}, CloseClear(t)
    PROVE  TypeOK'
<1>1. /\ pc' \in [Threads -> MainPC \cup RxPC \cup TxPC]
      /\ pc'["main"] \in MainPC /\ pc'["rx"] \in RxPC
      /\ pc'["tx"] \in TxPC
  BY GotoType, CloseReturnType DEF CloseClear
<1> QED
  BY <1>1 DEF CloseClear, ForgetSock, network, TypeOK

(* Each step of main keeps the types. *)
LEMMA MainTypeOK == TypeOK /\ Main => TypeOK'
<1> SUFFICES ASSUME TypeOK, Main PROVE TypeOK'
  OBVIOUS
<1> USE DEF session, threads, receiver, network
<1>1. CASE onKeepAlive
  <2>1. CASE BeatAgain
    <3>1. waitRead' \in 0 .. MaxWaitAlive - 1
      BY <1>1, <2>1, NumberAssumption DEF onKeepAlive, BeatAgain, TypeOK
    <3>2. Goto("main", "inc") /\ UNCHANGED afterClose
      BY <1>1, <2>1 DEF onKeepAlive
    <3> QED
      BY <1>1, <3>1, <3>2, GotoType DEF onKeepAlive, TypeOK, MainPC
  <2>2. CASE ~BeatAgain
    BY <1>1, <2>2, GotoType DEF onKeepAlive, TypeOK, MainPC
  <2> QED
    BY <2>1, <2>2
<1>2. CASE WaitAliveInc
  <2>1. /\ m_nWaitAlive' \in 0 .. MaxWaitAlive
        /\ waitRead' \in 0 .. MaxWaitAlive - 1
    BY <1>2, NumberAssumption DEF WaitAliveInc, TypeOK
  <2> QED
    BY <1>2, <2>1, GotoType DEF WaitAliveInc, TypeOK, MainPC
<1>3. CASE SendKeepAlive
  <2>1. SendRefused \/ SendKilled \/ SendTaken("alive")
    BY <1>3 DEF SendKeepAlive, sendDirect
  <2> QED
    BY <1>3, <2>1, SendType, GotoType DEF SendKeepAlive, sendDirect, TypeOK,
       MainPC
<1>4. CASE CloseTest("main")
  BY <1>4, CloseTestType
<1>5. CASE CloseSocket("main")
  BY <1>5, CloseSocketType
<1>6. CASE CloseClear("main")
  BY <1>6, CloseClearType
<1>7. CASE ConnectResolve
  BY <1>7, GotoType DEF ConnectResolve, TypeOK, MainPC
<1>8. CASE ConnectSocket
  <2>1. /\ m_tcpSock' \in FDs \cup {NoSock}
        /\ conn' \in [FDs -> ConnStates]
        /\ Goto("main", "connect") \/ Goto("main", "login")
    BY <1>8 DEF ConnectSocket, TypeOK, ConnStates
  <2>2. /\ pc' \in [Threads -> MainPC \cup RxPC \cup TxPC]
        /\ pc'["main"] \in MainPC /\ pc'["rx"] \in RxPC
        /\ pc'["tx"] \in TxPC
    BY <2>1, GotoType DEF MainPC
  <2> QED
    BY <1>8, <2>1, <2>2 DEF ConnectSocket, TypeOK
<1>9. CASE ConnectConnect
  <2>1. CASE /\ State(m_tcpSock) = "new"
             /\ conn' = [conn EXCEPT ![m_tcpSock] = "est"]
             /\ Goto("main", "signal")
             /\ UNCHANGED afterClose
    <3>1. conn' \in [FDs -> ConnStates]
      BY <2>1, SockIsFD DEF TypeOK, ConnStates, Live
    <3> QED
      BY <1>9, <2>1, <3>1, GotoType DEF ConnectConnect, TypeOK, MainPC
  <2>2. CASE /\ Goto("main", "test") /\ afterClose' = "login"
             /\ UNCHANGED conn
    BY <1>9, <2>2, GotoType DEF ConnectConnect, TypeOK, MainPC
  <2> QED
    BY <1>9, <2>1, <2>2 DEF ConnectConnect
<1>10. CASE ConnectSignal
  BY <1>10, GotoType DEF ConnectSignal, SetRecvEvent, TypeOK, MainPC
<1>11. CASE onLogin
  <2>1. SendRefused \/ SendKilled \/ SendTaken("login")
    BY <1>11 DEF onLogin, sendDirect
  <2>2. /\ pc' \in [Threads -> MainPC \cup RxPC \cup TxPC]
        /\ pc'["main"] \in MainPC /\ pc'["rx"] \in RxPC
        /\ pc'["tx"] \in TxPC
    <3>1. CASE pc["rx"] = "off"
      BY <1>11, <3>1 DEF onLogin, TypeOK, Threads, MainPC, RxPC
    <3>2. CASE pc["rx"] # "off"
      BY <1>11, <3>2, GotoType DEF onLogin, sendDirect, MainPC
    <3> QED
      BY <3>1, <3>2
  <2> QED
    BY <1>11, <2>1, <2>2, SendType DEF onLogin, sendDirect, TypeOK
<1> QED
  BY <1>1, <1>2, <1>3, <1>4, <1>5, <1>6, <1>7, <1>8, <1>9, <1>10, <1>11
     DEF Main

(* Each step of the receiver thread keeps the types. *)
LEMMA RxTypeOK == TypeOK /\ (Rx \/ RecvForeign) => TypeOK'
<1> SUFFICES ASSUME TypeOK, Rx \/ RecvForeign PROVE TypeOK'
  OBVIOUS
<1> USE DEF session, network
<1>1. CASE ReadData
  BY <1>1, GotoType DEF ReadData, TypeOK, RxPC
<1>2. CASE RecvEnter
  BY <1>2, GotoType DEF RecvEnter, TypeOK, RxPC
<1>3. CASE RecvData
  <2>1. /\ rfd \in FDs /\ inq[rfd] \in Seq(Frames) /\ inq[rfd] # <<>>
    BY <1>3 DEF RecvData, TypeOK
  <2>2. /\ Head(inq[rfd]) \in Frames /\ Tail(inq[rfd]) \in Seq(Frames)
    BY <2>1
  <2>3. CutHead(inq[rfd]) \in Seq(Frames)
    <3>1. [Head(inq[rfd]) EXCEPT !.cut = TRUE] \in Frames
      BY <2>2 DEF Frames
    <3> QED
      BY <2>2, <3>1 DEF CutHead
  <2>4. chunk' \in Frames /\ inq' \in [FDs -> Seq(Frames)]
    BY <1>3, <2>1, <2>2, <2>3 DEF RecvData, TypeOK
  <2> QED
    BY <1>3, <2>4, GotoType DEF RecvData, TypeOK, RxPC
<1>4. CASE RecvEnd
  BY <1>4, GotoType DEF RecvEnd, TypeOK, RxPC
<1>5. CASE ReadFailed
  BY <1>5, GotoType DEF ReadFailed, receiver, TypeOK, RxPC
<1>6. CASE WaitRecvEvent
  BY <1>6, GotoType DEF WaitRecvEvent, TypeOK, RxPC
<1>7. CASE Parse
  <2>1. chunk' \in Frames
    BY <1>7 DEF Parse, Nothing, Whole, Frames, Msgs
  <2>2. /\ m_bIsLogin' \in BOOLEAN /\ m_nWaitAlive' \in 0 .. MaxWaitAlive
        /\ ntype' \in {"sync", "mid", "stuck"} /\ more' \in 0 .. 1
        /\ nbad' \in 0 .. MaxBad
        /\ Goto("rx", "read") \/ Goto("rx", "test")
    <3>1. CASE onReceive
      <4>1. m_bIsLogin' \in {TRUE, FALSE, m_bIsLogin}
        BY <3>1, Zenon DEF onReceive, InvalidLength
      <4>2. m_nWaitAlive' \in {0, m_nWaitAlive}
        BY <3>1, Zenon DEF onReceive, InvalidLength
      <4>3. /\ ntype' \in {"sync", "stuck"}
            /\ more' \in (0 .. 1) \cup {more}
            /\ nbad' = nbad
            /\ Goto("rx", "read") \/ Goto("rx", "test")
        BY <3>1, Zenon DEF onReceive, InvalidLength
      <4>4. m_bIsLogin' \in BOOLEAN
        BY <4>1, Zenon DEF TypeOK
      <4>5. m_nWaitAlive' \in 0 .. MaxWaitAlive
        BY <4>2, NumberAssumption DEF TypeOK
      <4>6. /\ ntype' \in {"sync", "mid", "stuck"} /\ more' \in 0 .. 1
            /\ nbad' \in 0 .. MaxBad
        BY <4>3 DEF TypeOK
      <4> QED
        BY <4>3, <4>4, <4>5, <4>6
    <3>2. CASE Misaligned
      BY <1>7, <3>2, NumberAssumption
         DEF Parse, Misaligned, InvalidLength, TypeOK
    <3>3. CASE InvalidLength /\ UNCHANGED nbad
      BY <3>3 DEF InvalidLength, TypeOK
    <3> QED
      BY <1>7, <3>1, <3>2, <3>3 DEF Parse
  <2> QED
    BY <1>7, <2>1, <2>2, GotoType DEF Parse, TypeOK, RxPC
<1>8. CASE CloseTest("rx") \/ CloseSocket("rx") \/ CloseClear("rx")
  BY <1>8, CloseTestType, CloseSocketType, CloseClearType
<1>9. CASE RecvForeign
  BY <1>9, GotoType DEF RecvForeign, TypeOK, RxPC
<1> QED
  BY <1>1, <1>2, <1>3, <1>4, <1>5, <1>6, <1>7, <1>8, <1>9 DEF Rx

(* Each step of a sending thread or of the environment keeps the types. *)
LEMMA OtherTypeOK == TypeOK /\ (TxCheck \/ TxSend \/ Environment) => TypeOK'
<1> SUFFICES ASSUME TypeOK, TxCheck \/ TxSend \/ Environment PROVE TypeOK'
  OBVIOUS
<1> USE DEF session, threads, receiver, network
<1>1. CASE TxCheck
  BY <1>1, GotoTxType DEF TxCheck, TypeOK, TxPC
<1>2. CASE TxSend
  <2>1. SendRefused \/ SendKilled \/ SendTaken("other")
    BY <1>2 DEF TxSend, sendDirect
  <2> QED
    BY <1>2, <2>1, SendType, GotoTxType DEF TxSend, sendDirect, TypeOK, TxPC
<1>3. ASSUME NEW s \in FDs,
             CenterCloses(s) \/ ConnectionReset(s) \/ CenterFallsSilent(s)
      PROVE  TypeOK'
  BY <1>3 DEF CenterCloses, ConnectionReset, CenterFallsSilent, TypeOK,
              ConnStates, Live, Over
<1>4. ASSUME NEW s \in FDs, CenterSendsInvalid(s)
      PROVE  TypeOK'
  <2>1. inq' \in [FDs -> Seq(Frames)]
    BY <1>4, ReplyType DEF CenterSendsInvalid, Msgs
  <2>2. nbad' \in 0 .. MaxBad
    BY <1>4, NumberAssumption DEF CenterSendsInvalid, TypeOK
  <2> QED
    BY <1>4, <2>1, <2>2 DEF CenterSendsInvalid, TypeOK
<1>5. ASSUME NEW s \in FDs, OtherOpens(s)
      PROVE  TypeOK'
  BY <1>5 DEF OtherOpens, TypeOK, ConnStates
<1>6. ASSUME NEW s \in FDs, OtherCloses(s)
      PROVE  TypeOK'
  BY <1>6, ReleaseType DEF OtherCloses, TypeOK
<1>7. CASE Settle
  BY <1>7 DEF Settle, TypeOK
<1> QED
  BY <1>1, <1>2, <1>3, <1>4, <1>5, <1>6, <1>7 DEF Environment

(* The variables keep their types: in particular m_nWaitAlive never passes *)
(* its limit although main increments it without a lock, while the         *)
(* receiver thread resets it.  (TcpSession.cpp:889-903, 714)               *)
THEOREM TypeCorrect == Spec => []TypeOK
<1>1. TypeOK /\ [Next]_vars => TypeOK'
  <2> SUFFICES ASSUME TypeOK, [Next]_vars PROVE TypeOK'
    OBVIOUS
  <2>1. CASE Next
    BY <2>1, MainTypeOK, RxTypeOK, OtherTypeOK DEF Next
  <2>2. CASE UNCHANGED vars
    BY <2>2 DEF vars, session, threads, receiver, network, TypeOK
  <2> QED
    BY <2>1, <2>2
<1> QED
  BY InitTypeOK, <1>1, PTL DEF Spec

-----------------------------------------------------------------------------
(* The argument for NoLostWakeup.  Fresh: if m_tcpSock is a connection that *)
(* is up, rx has been told, or main is about to tell it.                    *)
Fresh == \/ g_hRecvEvent
         \/ State(m_tcpSock) \notin Live
         \/ pc["main"] = "signal"

(* rx may be left behind, reading another socket than m_tcpSock, or be on   *)
(* its way to the event; in both cases it is about to learn of the          *)
(* connection.                                                              *)
WakeInv ==
    /\ pc["rx"] \in {"recv", "blocked"} /\ rfd # m_tcpSock => Fresh
    /\ pc["rx"] \in {"fail", "wait"} => Fresh

(* A step that brings no connection up behind m_tcpSock. *)
NotRevived == State(m_tcpSock)' \in Live =>
                 m_tcpSock' = m_tcpSock /\ State(m_tcpSock) \in Live

(* send() brings no connection up. *)
LEMMA SendNotRevived ==
    ASSUME TypeOK, NEW cmd, SendRefused \/ SendKilled \/ SendTaken(cmd),
           UNCHANGED m_tcpSock
    PROVE  NotRevived
<1>1. CASE SendRefused \/ SendKilled
  BY <1>1 DEF SendRefused, SendKilled, network, NotRevived, State
<1>2. CASE SendTaken(cmd)
  <2>1. m_tcpSock \in FDs
    BY <1>2, SockIsFD DEF SendTaken
  <2>2. m_tcpSock # NoSock
    BY <2>1, SpecialAssumption
  <2>3. CASE State(m_tcpSock) \in {"est", "in", "mute"}
    BY <2>3 DEF NotRevived, Live
  <2>4. CASE State(m_tcpSock) \notin {"est", "in", "mute"}
    BY <1>2, <2>1, <2>2, <2>4
       DEF SendTaken, network, NotRevived, State, Live, TypeOK
  <2> QED
    BY <2>3, <2>4
<1> QED
  BY <1>1, <1>2

(* The steps of Close() bring no connection up. *)
LEMMA CloseNotRevived ==
    ASSUME TypeOK, NEW t \in {"main", "rx"},
           CloseTest(t) \/ CloseSocket(t) \/ CloseClear(t)
    PROVE  NotRevived
<1> USE SpecialAssumption DEF NotRevived, State
<1>1. CASE CloseTest(t)
  BY <1>1 DEF CloseTest, Shutdown, session, TypeOK, Live
<1>2. CASE CloseSocket(t)
  BY <1>2 DEF CloseSocket, Release, session, TypeOK, Live
<1>3. CASE CloseClear(t)
  BY <1>3 DEF CloseClear, ForgetSock, Live
<1> QED
  BY <1>1, <1>2, <1>3

(* Only connect() brings a connection up. *)
LEMMA OnlyConnectRevives ==
    ASSUME TypeOK, Next, ~ConnectConnect
    PROVE  NotRevived
<1> USE DEF session, threads, receiver, network
<1>1. CASE Main
  <2>1. CASE SendKeepAlive \/ onLogin
    <3>1. PICK cmd : SendRefused \/ SendKilled \/ SendTaken(cmd)
      BY <2>1 DEF SendKeepAlive, onLogin, sendDirect
    <3>2. UNCHANGED m_tcpSock
      BY <2>1 DEF SendKeepAlive, onLogin, sendDirect
    <3> QED
      BY <3>1, <3>2, SendNotRevived
  <2>2. CASE CloseTest("main") \/ CloseSocket("main") \/ CloseClear("main")
    BY <2>2, CloseNotRevived
  <2>3. CASE ConnectSocket
    BY <2>3 DEF ConnectSocket, NotRevived, State, Live, TypeOK
  <2>4. CASE onKeepAlive \/ WaitAliveInc \/ ConnectResolve \/ ConnectSignal
    BY <2>4 DEF onKeepAlive, WaitAliveInc, ConnectResolve, ConnectSignal,
                NotRevived, State
  <2> QED
    BY <1>1, <2>1, <2>2, <2>3, <2>4 DEF Main
<1>2. CASE Rx \/ RecvForeign
  <2>1. CASE CloseTest("rx") \/ CloseSocket("rx") \/ CloseClear("rx")
    BY <2>1, CloseNotRevived
  <2>2. CASE ReadData \/ RecvEnter \/ RecvData \/ RecvEnd \/ ReadFailed
             \/ WaitRecvEvent \/ Parse \/ RecvForeign
    BY <2>2 DEF ReadData, RecvEnter, RecvData, RecvEnd, ReadFailed,
                WaitRecvEvent, Parse, RecvForeign, NotRevived, State
  <2> QED
    BY <1>2, <2>1, <2>2 DEF Rx
<1>3. CASE TxCheck
  BY <1>3 DEF TxCheck, NotRevived, State
<1>4. CASE TxSend
  <2>1. UNCHANGED m_tcpSock /\ (SendRefused \/ SendKilled \/ SendTaken("other"))
    BY <1>4 DEF TxSend, sendDirect
  <2> QED
    BY <2>1, SendNotRevived
<1>5. ASSUME NEW s \in FDs,
             \/ CenterCloses(s) \/ ConnectionReset(s) \/ CenterFallsSilent(s)
             \/ CenterSendsInvalid(s) \/ OtherOpens(s) \/ OtherCloses(s)
      PROVE  NotRevived
  BY <1>5 DEF CenterCloses, ConnectionReset, CenterFallsSilent,
              CenterSendsInvalid, OtherOpens, OtherCloses, Release,
              NotRevived, State, Live, TypeOK
<1>6. CASE Settle
  BY <1>6 DEF Settle, NotRevived, State
<1> QED
  BY <1>1, <1>2, <1>3, <1>4, <1>5, <1>6 DEF Next, Environment

(* The event stays set until rx takes it, and main stays where it is about *)
(* to set it.                                                              *)
LEMMA EventKept ==
    ASSUME TypeOK, Next, ~WaitRecvEvent, g_hRecvEvent
    PROVE  g_hRecvEvent'
BY DEF Next, Main, Rx, Environment, session, threads, receiver, network,
       onKeepAlive, WaitAliveInc, SendKeepAlive, CloseTest, CloseSocket,
       CloseClear, ConnectResolve, ConnectSocket, ConnectConnect,
       ConnectSignal, SetRecvEvent, onLogin, sendDirect, ReadData, RecvEnter,
       RecvData, RecvEnd, ReadFailed, Parse, RecvForeign, TxCheck, TxSend,
       CenterCloses, ConnectionReset, CenterFallsSilent, CenterSendsInvalid,
       OtherOpens, OtherCloses, Settle

LEMMA SignalKept ==
    ASSUME TypeOK, Next, ~ConnectSignal, pc["main"] = "signal"
    PROVE  pc'["main"] = "signal"
BY DEF Next, Main, Rx, Environment, session, threads, receiver, network,
       Goto, Threads, TypeOK,
       onKeepAlive, WaitAliveInc, SendKeepAlive, CloseTest, CloseSocket,
       CloseClear, ConnectResolve, ConnectSocket, ConnectConnect,
       onLogin, sendDirect, ReadData, RecvEnter, RecvData, RecvEnd,
       ReadFailed, WaitRecvEvent, Parse, onReceive, Misaligned, InvalidLength,
       RecvForeign, TxCheck, TxSend, CenterCloses, ConnectionReset,
       CenterFallsSilent, CenterSendsInvalid, OtherOpens, OtherCloses, Settle

(* Once rx is about to be told, it stays so until it takes the event. *)
LEMMA FreshKept ==
    ASSUME TypeOK, Next, ~WaitRecvEvent, Fresh
    PROVE  Fresh'
<1>1. CASE ConnectConnect
  <2>1. pc["main"] = "connect" /\ UNCHANGED g_hRecvEvent
    BY <1>1 DEF ConnectConnect, session
  <2>2. CASE Goto("main", "signal")
    BY <2>2 DEF Goto, TypeOK, Threads, Fresh
  <2>3. CASE UNCHANGED conn
    BY <1>1, <2>1, <2>3 DEF ConnectConnect, session, Fresh, State
  <2> QED
    BY <1>1, <2>2, <2>3 DEF ConnectConnect
<1>2. CASE ConnectSignal
  BY <1>2 DEF ConnectSignal, SetRecvEvent, Fresh
<1>3. CASE ~ConnectConnect /\ ~ConnectSignal
  <2>1. g_hRecvEvent => g_hRecvEvent'
    BY EventKept
  <2>2. State(m_tcpSock) \notin Live => State(m_tcpSock)' \notin Live
    BY <1>3, OnlyConnectRevives DEF NotRevived
  <2>3. pc["main"] = "signal" => pc'["main"] = "signal"
    BY <1>3, SignalKept
  <2> QED
    BY <2>1, <2>2, <2>3 DEF Fresh
<1> QED
  BY <1>1, <1>2, <1>3

(* The other threads start rx, or leave it where it is; a descriptor that  *)
(* vanishes under rx is that of a connection which is over.                *)
LEMMA OthersMoveRx ==
    ASSUME TypeOK, Main \/ TxCheck \/ TxSend \/ Environment
    PROVE  /\ pc'["rx"] = pc["rx"] \/ pc'["rx"] = "read"
           /\ \/ rfd' = rfd
              \/ rfd # m_tcpSock
              \/ State(m_tcpSock)' \notin Live
<1>1. CASE CloseSocket("main")
  BY <1>1, SpecialAssumption
     DEF CloseSocket, Release, session, Goto, Threads, TypeOK, State, Live
<1>2. ASSUME NEW s \in FDs, OtherCloses(s)
      PROVE  /\ pc'["rx"] = pc["rx"]
             /\ rfd' = rfd \/ rfd # m_tcpSock \/ State(m_tcpSock)' \notin Live
  BY <1>2, SpecialAssumption
     DEF OtherCloses, Release, session, threads, TypeOK, State, Live
<1>3. CASE \/ onKeepAlive \/ WaitAliveInc \/ SendKeepAlive
           \/ CloseTest("main") \/ CloseClear("main") \/ ConnectResolve
           \/ ConnectSocket \/ ConnectConnect \/ ConnectSignal \/ onLogin
           \/ TxCheck \/ TxSend \/ Settle
  BY <1>3 DEF onKeepAlive, WaitAliveInc, SendKeepAlive, CloseTest, CloseClear,
              ConnectResolve, ConnectSocket, ConnectConnect, ConnectSignal,
              onLogin, sendDirect, TxCheck, TxSend, Settle, Goto, Threads,
              TypeOK, session, threads, receiver, network
<1>4. ASSUME NEW s \in FDs,
             \/ CenterCloses(s) \/ ConnectionReset(s) \/ CenterFallsSilent(s)
             \/ CenterSendsInvalid(s) \/ OtherOpens(s)
      PROVE  UNCHANGED <<pc, rfd>>
  BY <1>4 DEF CenterCloses, ConnectionReset, CenterFallsSilent,
              CenterSendsInvalid, OtherOpens, threads, receiver
<1> QED
  BY <1>1, <1>2, <1>3, <1>4 DEF Main, Environment

(* The invariant is inductive. *)
LEMMA WakeInvStep == TypeOK /\ WakeInv /\ [Next]_vars => WakeInv'
<1> SUFFICES ASSUME TypeOK, WakeInv, [Next]_vars PROVE WakeInv'
  OBVIOUS
<1>1. CASE UNCHANGED vars
  BY <1>1 DEF vars, session, threads, receiver, network, WakeInv, Fresh, State
<1>2. ASSUME Next, WaitRecvEvent PROVE WakeInv'
  BY <1>2 DEF WaitRecvEvent, Goto, Threads, TypeOK, WakeInv
<1>3. ASSUME Next, ~WaitRecvEvent, Rx \/ RecvForeign PROVE WakeInv'
  <2>1. Fresh => Fresh'
    BY <1>3, FreshKept
  <2>2. CASE ReadData
    <3>1. CASE m_tcpSock = NoSock
      BY <2>2, <3>1 DEF ReadData, Fresh, WakeInv, State, Live, Goto, Threads,
                        TypeOK
    <3>2. CASE m_tcpSock # NoSock
      BY <2>2, <3>2 DEF ReadData, WakeInv, Goto, Threads, TypeOK
    <3> QED
      BY <3>1, <3>2
  <2>3. CASE RecvEnter
    <3>1. CASE conn[rfd] \in {"free", "new"} /\ rfd = m_tcpSock
      BY <2>3, <3>1 DEF RecvEnter, Fresh, WakeInv, State, Live, network,
                        session, Goto, Threads, TypeOK
    <3>2. CASE conn[rfd] \notin {"free", "new"} \/ rfd # m_tcpSock
      BY <2>1, <2>3, <3>2 DEF RecvEnter, WakeInv, session, Goto, Threads,
                              TypeOK
    <3> QED
      BY <3>1, <3>2
  <2>4. CASE RecvEnd
    <3>1. CASE rfd # m_tcpSock
      BY <2>1, <2>4, <3>1 DEF RecvEnd, WakeInv, Goto, Threads, TypeOK
    <3>2. CASE rfd = m_tcpSock
      <4>1. rfd \in FDs /\ conn[rfd] \in Over
        BY <2>4, <3>2, SpecialAssumption DEF RecvEnd, TypeOK
      <4>2. State(m_tcpSock)' \notin Live
        BY <2>4, <3>2, <4>1 DEF RecvEnd, State, Over, Live, session, network
      <4> QED
        BY <2>4, <4>2 DEF RecvEnd, WakeInv, Fresh, Goto, Threads, TypeOK
    <3> QED
      BY <3>1, <3>2
  <2>5. CASE ReadFailed
    BY <2>1, <2>5 DEF ReadFailed, WakeInv, Goto, Threads, TypeOK
  <2>6. CASE \/ RecvData \/ Parse \/ RecvForeign
             \/ CloseTest("rx") \/ CloseSocket("rx") \/ CloseClear("rx")
    <3>1. pc'["rx"] \in {"parse", "read", "test", "close", "clear"}
      BY <2>6 DEF RecvData, Parse, onReceive, Misaligned, InvalidLength,
                  RecvForeign, CloseTest, CloseSocket, CloseClear, CloseReturn,
                  Goto, Threads, TypeOK
    <3> QED
      BY <3>1 DEF WakeInv
  <2> QED
    BY <1>3, <2>2, <2>3, <2>4, <2>5, <2>6 DEF Rx
<1>4. ASSUME Next, ~WaitRecvEvent, ~(Rx \/ RecvForeign) PROVE WakeInv'
  <2>1. Main \/ TxCheck \/ TxSend \/ Environment
    BY <1>4 DEF Next
  <2>2. Fresh => Fresh'
    BY <1>4, FreshKept
  <2>3. /\ pc'["rx"] = pc["rx"] \/ pc'["rx"] = "read"
        /\ rfd' = rfd \/ rfd # m_tcpSock \/ State(m_tcpSock)' \notin Live
    BY <2>1, OthersMoveRx
  <2>4. m_tcpSock' = m_tcpSock \/ State(m_tcpSock)' \notin Live
    <3>1. CASE ConnectConnect
      BY <3>1 DEF ConnectConnect, session
    <3>2. CASE ~ConnectConnect
      BY <1>4, <3>2, OnlyConnectRevives DEF NotRevived
    <3> QED
      BY <3>1, <3>2
  <2>5. State(m_tcpSock)' \notin Live => Fresh'
    BY DEF Fresh
  <2> QED
    BY <2>2, <2>3, <2>4, <2>5 DEF WakeInv
<1> QED
  BY <1>1, <1>2, <1>3, <1>4

(* No wake-up is lost, whatever main, rx, the senders and the network do.  *)
(* (TcpSession.cpp:223-232, faxgw.cpp:315)                                 *)
THEOREM NoWakeupLost == Spec => []NoLostWakeup
<1>1. Init => WakeInv
  BY DEF Init, WakeInv, Threads
<1>2. WakeInv => NoLostWakeup
  BY DEF WakeInv, Fresh, NoLostWakeup
<1> QED
  BY <1>1, <1>2, WakeInvStep, TypeCorrect, PTL DEF Spec
-----------------------------------------------------------------------------
(* The argument for NoLeak and NeverClosesOthers.  While no frame was      *)
(* invalid there is none in the sockets either, and rx stays out of        *)
(* Close(); ...                                                            *)
Clean(q) == \A k \in 1 .. Len(q) : q[k].m # "badlen"

CleanInv ==
    nbad = 0 =>
        /\ pc["rx"] \notin {"test", "close", "clear"}
        /\ ntype # "stuck" /\ chunk.m # "badlen"
        /\ \A s \in FDs : Clean(inq[s])

(* ... so that main alone owns the descriptor: m_tcpSock is a socket of    *)
(* the session, and the only one, except where Close() has just closed it. *)
Held == {"new"} \cup Live \cup Over

OwnInv ==
    nbad = 0 =>
        /\ \A s \in FDs : conn[s] \in Held => s = m_tcpSock
        /\ pc["main"] # "clear" /\ m_tcpSock # NoSock => conn[m_tcpSock] \in Held
        /\ pc["main"] = "clear" => \A s \in FDs : conn[s] \notin Held
        /\ pc["main"] = "sock" => m_tcpSock = NoSock

(* Valid frames stay valid when one arrives, ... *)
LEMMA CleanAppend ==
    ASSUME NEW q \in Seq(Frames), NEW x \in Frames, Clean(q), x.m # "badlen"
    PROVE  Clean(Append(q, x))
BY DEF Clean

(* ... when one is read, or only its first bytes. *)
LEMMA CleanRead ==
    ASSUME NEW q \in Seq(Frames), q # <<>>, Clean(q)
    PROVE  Head(q).m # "badlen" /\ Clean(Tail(q)) /\ Clean(CutHead(q))
<1>1. Len(q) \in Nat /\ Len(q) > 0 /\ Head(q) = q[1] /\ Tail(q) \in Seq(Frames)
      /\ Len(Tail(q)) = Len(q) - 1
      /\ \A k \in 1 .. Len(q) - 1 : Tail(q)[k] = q[k + 1]
  OBVIOUS
<1>2. Head(q).m # "badlen" /\ Clean(Tail(q))
  BY <1>1 DEF Clean
<1>3. q[1] \in Frames
  BY <1>1
<1>4. [Head(q) EXCEPT !.cut = TRUE] \in Frames
      /\ [Head(q) EXCEPT !.cut = TRUE].m = Head(q).m
  BY <1>1, <1>3 DEF Frames
<1>5. Clean(CutHead(q))
  <2> DEFINE h == [Head(q) EXCEPT !.cut = TRUE]
             t == Tail(q)
  <2>1. h \in Frames /\ h.m # "badlen" /\ t \in Seq(Frames) /\ Clean(t)
    BY <1>1, <1>2, <1>4
  <2> HIDE DEF h, t
  <2>2. Clean(<<h>> \o t)
    BY <2>1 DEF Clean
  <2> QED
    BY <2>2 DEF CutHead, h, t
<1> QED
  BY <1>2, <1>5

(* send() brings no invalid frame into a socket, and changes what no       *)
(* descriptor is but the session's own.                                    *)
LEMMA SendOwn ==
    ASSUME TypeOK, NEW cmd, SendRefused \/ SendKilled \/ SendTaken(cmd)
    PROVE  /\ (\A s \in FDs : Clean(inq[s])) => \A s \in FDs : Clean(inq'[s])
           /\ \A s \in FDs : conn'[s] \in Held <=> conn[s] \in Held
<1>1. CASE SendRefused \/ SendKilled
  BY <1>1 DEF SendRefused, SendKilled, network
<1>2. CASE SendTaken(cmd)
  <2>1. m_tcpSock \in FDs /\ m_tcpSock # NoSock
    BY <1>2, SockIsFD, SpecialAssumption DEF SendTaken
  <2>2. ASSUME NEW m \in {"loginok", "loginrej", "alive"}, Reply(m_tcpSock, m),
               \A s \in FDs : Clean(inq[s])
        PROVE  \A s \in FDs : Clean(inq'[s])
    <3>1. Whole(m) \in Frames /\ Whole(m).m # "badlen"
      BY <2>2 DEF Whole, Frames, Msgs
    <3>2. inq[m_tcpSock] \in Seq(Frames)
      BY <2>1 DEF TypeOK
    <3>3. Clean(Append(inq[m_tcpSock], Whole(m)))
      BY <2>1, <2>2, <3>1, <3>2, CleanAppend
    <3> QED
      BY <2>1, <2>2, <3>3 DEF Reply, TypeOK
  <2>3. (\A s \in FDs : Clean(inq[s])) => \A s \in FDs : Clean(inq'[s])
    BY <1>2, <2>2 DEF SendTaken, CenterHandles, network
  <2>4. \A s \in FDs : conn'[s] \in Held <=> conn[s] \in Held
    BY <1>2, <2>1
       DEF SendTaken, CenterHandles, network, State, Held, Live, Over, TypeOK
  <2> QED
    BY <2>3, <2>4
<1> QED
  BY <1>1, <1>2

(* CleanInv is inductive. *)
LEMMA CleanStep == TypeOK /\ CleanInv /\ [Next]_vars => CleanInv'
<1> SUFFICES ASSUME TypeOK, CleanInv, [Next]_vars, nbad' = 0 PROVE CleanInv'
  BY DEF CleanInv
<1> USE DEF session, threads, receiver, network
<1>1. CASE UNCHANGED vars
  BY <1>1 DEF vars, CleanInv
<1>2. CASE Main
  <2>1. CASE SendKeepAlive \/ onLogin
    <3>1. PICK cmd : SendRefused \/ SendKilled \/ SendTaken(cmd)
      BY <2>1 DEF SendKeepAlive, onLogin, sendDirect
    <3>2. UNCHANGED receiver /\ pc'["rx"] \in {pc["rx"], "read"}
      BY <2>1 DEF SendKeepAlive, onLogin, sendDirect, Goto, Threads, TypeOK
    <3> QED
      BY <3>1, <3>2, SendOwn DEF CleanInv
  <2>2. CASE CloseSocket("main")
    <3>1. Clean(<<>>)
      BY DEF Clean
    <3>2. UNCHANGED <<chunk, ntype, more, nbad>> /\ pc'["rx"] = pc["rx"]
      BY <2>2 DEF CloseSocket, Goto, Threads, TypeOK
    <3>3. \A s \in FDs : inq'[s] \in {inq[s], <<>>}
      BY <2>2 DEF CloseSocket, Release, TypeOK
    <3> QED
      BY <3>1, <3>2, <3>3 DEF CleanInv
  <2>3. CASE \/ onKeepAlive \/ WaitAliveInc \/ CloseTest("main") \/ CloseClear("main")
             \/ ConnectResolve \/ ConnectSocket \/ ConnectConnect \/ ConnectSignal
    BY <2>3 DEF onKeepAlive, WaitAliveInc, CloseTest, CloseClear, ConnectResolve,
                ConnectSocket, ConnectConnect, ConnectSignal, Goto, Threads,
                TypeOK, CleanInv
  <2> QED
    BY <1>2, <2>1, <2>2, <2>3 DEF Main
<1>3. CASE Rx \/ RecvForeign
  <2>1. CASE ReadData \/ RecvEnter \/ RecvEnd \/ ReadFailed \/ WaitRecvEvent \/ RecvForeign
    BY <2>1 DEF ReadData, RecvEnter, RecvEnd, ReadFailed, WaitRecvEvent,
                RecvForeign, Goto, Threads, TypeOK, CleanInv
  <2>2. CASE RecvData
    <3>1. rfd \in FDs /\ inq[rfd] \in Seq(Frames) /\ inq[rfd] # <<>>
      BY <2>2 DEF RecvData, TypeOK
    <3>2. nbad = 0 /\ Clean(inq[rfd])
      BY <2>2, <3>1 DEF RecvData, CleanInv
    <3>3. /\ Head(inq[rfd]).m # "badlen" /\ Clean(Tail(inq[rfd]))
          /\ Clean(CutHead(inq[rfd]))
      BY <3>1, <3>2, CleanRead
    <3>4. \A s \in FDs : Clean(inq'[s])
      BY <2>2, <3>1, <3>2, <3>3 DEF RecvData, TypeOK, CleanInv
    <3>5. chunk'.m # "badlen" /\ ntype' # "stuck"
          /\ pc'["rx"] \notin {"test", "close", "clear"}
      BY <2>2, <3>2, <3>3 DEF RecvData, Goto, Threads, TypeOK, CleanInv
    <3> QED
      BY <3>4, <3>5 DEF CleanInv
  <2>3. CASE Parse
    <3>1. nbad \in Nat
      BY DEF TypeOK
    <3>2. nbad = 0
      BY <2>3, <3>1 DEF Parse, onReceive, Misaligned
    <3>3. ntype # "stuck" /\ chunk.m # "badlen" /\ \A s \in FDs : Clean(inq[s])
      BY <3>2 DEF CleanInv
    <3>4. ntype' # "stuck" /\ Goto("rx", "read")
      BY <2>3, <3>1, <3>2, <3>3 DEF Parse, onReceive, Misaligned
    <3>5. chunk'.m # "badlen"
      BY <2>3 DEF Parse, Nothing, Whole
    <3> QED
      BY <2>3, <3>3, <3>4, <3>5 DEF Parse, Goto, Threads, TypeOK, CleanInv
  <2>4. CASE CloseTest("rx") \/ CloseSocket("rx") \/ CloseClear("rx")
    BY <2>4 DEF CloseTest, CloseSocket, CloseClear, CleanInv
  <2> QED
    BY <1>3, <2>1, <2>2, <2>3, <2>4 DEF Rx
<1>4. CASE TxCheck
  BY <1>4 DEF TxCheck, Goto, Threads, TypeOK, CleanInv
<1>5. CASE TxSend
  <2>1. SendRefused \/ SendKilled \/ SendTaken("other")
    BY <1>5 DEF TxSend, sendDirect
  <2>2. UNCHANGED receiver /\ pc'["rx"] = pc["rx"]
    BY <1>5 DEF TxSend, sendDirect, Goto, Threads, TypeOK
  <2> QED
    BY <2>1, <2>2, SendOwn DEF CleanInv
<1>6. ASSUME NEW s \in FDs,
             \/ CenterCloses(s) \/ ConnectionReset(s) \/ CenterFallsSilent(s)
             \/ CenterSendsInvalid(s) \/ OtherOpens(s) \/ OtherCloses(s)
      PROVE  CleanInv'
  <2>1. nbad \in Nat /\ Clean(<<>>)
    BY DEF TypeOK, Clean
  <2>2. ~CenterSendsInvalid(s)
    BY <2>1 DEF CenterSendsInvalid
  <2> QED
    BY <1>6, <2>1, <2>2
       DEF CenterCloses, ConnectionReset, CenterFallsSilent, OtherOpens,
           OtherCloses, Release, TypeOK, CleanInv
<1>7. CASE Settle
  BY <1>7 DEF Settle, CleanInv
<1> QED
  BY <1>1, <1>2, <1>3, <1>4, <1>5, <1>6, <1>7 DEF Next, Environment

(* OwnInv is inductive relative to CleanInv. *)
LEMMA OwnStep == TypeOK /\ CleanInv /\ OwnInv /\ [Next]_vars => OwnInv'
<1> SUFFICES ASSUME TypeOK, CleanInv, OwnInv, [Next]_vars, nbad' = 0 PROVE OwnInv'
  BY DEF OwnInv
<1> USE SpecialAssumption DEF session, threads, receiver, network
<1>1. CASE UNCHANGED vars
  BY <1>1 DEF vars, OwnInv
<1>2. nbad = 0
  <2>1. nbad \in Nat
    BY DEF TypeOK
  <2>2. nbad' = nbad \/ nbad' = nbad + 1
    BY <1>1 DEF Next, Main, Rx, Environment, onKeepAlive, WaitAliveInc,
       SendKeepAlive, CloseTest, CloseSocket, CloseClear, ConnectResolve,
       ConnectSocket, ConnectConnect, ConnectSignal, onLogin, ReadData,
       RecvEnter, RecvData, RecvEnd, ReadFailed, WaitRecvEvent, Parse,
       onReceive, Misaligned, RecvForeign, TxCheck, TxSend, CenterCloses,
       ConnectionReset, CenterFallsSilent, CenterSendsInvalid, OtherOpens,
       OtherCloses, Settle, vars
  <2> QED
    BY <2>1, <2>2
<1>3. CASE Main
  <2>1. CASE SendKeepAlive \/ onLogin
    <3>1. PICK cmd : SendRefused \/ SendKilled \/ SendTaken(cmd)
      BY <2>1 DEF SendKeepAlive, onLogin, sendDirect
    <3>2. UNCHANGED m_tcpSock /\ pc'["main"] = "sleep"
      BY <2>1 DEF SendKeepAlive, onLogin, sendDirect, Goto, Threads, TypeOK
    <3>3. pc["main"] # "clear"
      BY <2>1 DEF SendKeepAlive, onLogin
    <3> QED
      BY <1>2, <3>1, <3>2, <3>3, SendOwn DEF OwnInv, TypeOK
  <2>2. CASE CloseTest("main")
    <3>1. CASE m_tcpSock = NoSock
      BY <1>2, <2>2, <3>1
         DEF CloseTest, CloseReturn, Goto, Threads, TypeOK, OwnInv
    <3>2. CASE m_tcpSock # NoSock
      BY <1>2, <2>2, <3>2
         DEF CloseTest, Shutdown, Goto, Threads, TypeOK, Held, Live, Over, OwnInv
    <3> QED
      BY <3>1, <3>2
  <2>3. CASE CloseSocket("main")
    <3>1. m_tcpSock # NoSock =>
              conn' = [conn EXCEPT ![m_tcpSock] = "free"] /\ m_tcpSock \in FDs
      BY <2>3 DEF CloseSocket, Release, TypeOK
    <3>2. m_tcpSock = NoSock => conn' = conn
      BY <2>3 DEF CloseSocket
    <3>3. \A s \in FDs : conn'[s] \notin Held
      BY <1>2, <3>1, <3>2 DEF OwnInv, Held, Live, Over, TypeOK
    <3> QED
      BY <2>3, <3>3 DEF CloseSocket, Goto, Threads, TypeOK, OwnInv
  <2>4. CASE CloseClear("main")
    BY <1>2, <2>4
       DEF CloseClear, CloseReturn, ForgetSock, Goto, Threads, TypeOK, OwnInv
  <2>5. CASE ConnectResolve
    BY <1>2, <2>5
       DEF ConnectResolve, ReleasePrevious, Goto, Threads, TypeOK, OwnInv
  <2>6. CASE ConnectSocket
    <3>1. \A s \in FDs : conn[s] \notin Held
      BY <1>2, <2>6 DEF ConnectSocket, OwnInv
    <3> QED
      BY <1>2, <2>6, <3>1 DEF ConnectSocket, Held, Goto, Threads, TypeOK, OwnInv
  <2>7. CASE ConnectConnect
    BY <1>2, <2>7 DEF ConnectConnect, State, Held, Live, Over, Goto, Threads,
                      TypeOK, OwnInv
  <2>8. CASE onKeepAlive \/ WaitAliveInc \/ ConnectSignal
    BY <1>2, <2>8 DEF onKeepAlive, WaitAliveInc, ConnectSignal, Goto, Threads,
                      TypeOK, OwnInv
  <2> QED
    BY <1>3, <2>1, <2>2, <2>3, <2>4, <2>5, <2>6, <2>7, <2>8 DEF Main
<1>4. CASE Rx \/ RecvForeign
  <2>1. UNCHANGED <<m_tcpSock, conn>>
    BY <1>2, <1>4
       DEF Rx, ReadData, RecvEnter, RecvData, RecvEnd, ReadFailed, WaitRecvEvent,
           Parse, RecvForeign, CloseTest, CloseSocket, CloseClear, CleanInv
  <2>2. pc'["main"] = pc["main"]
    BY <1>4
       DEF Rx, ReadData, RecvEnter, RecvData, RecvEnd, ReadFailed, WaitRecvEvent,
           Parse, onReceive, Misaligned, InvalidLength, RecvForeign, CloseTest,
           CloseSocket, CloseClear, Goto, Threads, TypeOK
  <2> QED
    BY <1>2, <2>1, <2>2 DEF OwnInv
<1>5. CASE TxCheck
  BY <1>2, <1>5 DEF TxCheck, Goto, Threads, TypeOK, OwnInv
<1>6. CASE TxSend
  <2>1. SendRefused \/ SendKilled \/ SendTaken("other")
    BY <1>6 DEF TxSend, sendDirect
  <2>2. UNCHANGED m_tcpSock /\ pc'["main"] = pc["main"]
    BY <1>6 DEF TxSend, sendDirect, Goto, Threads, TypeOK
  <2> QED
    BY <1>2, <2>1, <2>2, SendOwn DEF OwnInv, TypeOK
<1>7. ASSUME NEW s \in FDs,
             \/ CenterCloses(s) \/ ConnectionReset(s) \/ CenterFallsSilent(s)
             \/ CenterSendsInvalid(s) \/ OtherOpens(s) \/ OtherCloses(s)
      PROVE  OwnInv'
  <2>1. UNCHANGED <<m_tcpSock, pc>>
    BY <1>7 DEF CenterCloses, ConnectionReset, CenterFallsSilent,
                CenterSendsInvalid, OtherOpens, OtherCloses
  <2>2. \A r \in FDs : conn'[r] \in Held <=> conn[r] \in Held
    BY <1>7 DEF CenterCloses, ConnectionReset, CenterFallsSilent,
                CenterSendsInvalid, OtherOpens, OtherCloses, Release, Held, Live,
                Over, TypeOK
  <2> QED
    BY <1>2, <2>1, <2>2 DEF OwnInv, TypeOK
<1>8. CASE Settle
  BY <1>2, <1>8 DEF Settle, OwnInv
<1> QED
  BY <1>1, <1>3, <1>4, <1>5, <1>6, <1>7, <1>8 DEF Next, Environment

(* The initial states satisfy both. *)
LEMMA InitOwnInv == Init => CleanInv /\ OwnInv
BY SpecialAssumption
   DEF Init, CleanInv, OwnInv, Clean, Nothing, Whole, Threads, Held, Live, Over

(* While frames are valid, no socket of the session is forgotten: whatever *)
(* connects fail and threads take over descriptor numbers, every open one  *)
(* is m_tcpSock.  (TcpSession.cpp:208-211)                                 *)
THEOREM NothingLeaks == Spec => []NoLeak
<1>1. OwnInv => NoLeak
  BY DEF OwnInv, NoLeak, Held
<1>2. TypeOK /\ CleanInv /\ OwnInv /\ [Next]_vars => CleanInv' /\ OwnInv'
  BY CleanStep, OwnStep
<1> QED
  BY <1>1, <1>2, InitOwnInv, TypeCorrect, PTL DEF Spec

(* ... and Close() never closes another thread's socket, however quickly a *)
(* number that was closed is taken over.  (TcpSession.cpp:116-124)         *)
THEOREM OthersUntouched == Spec => []NeverClosesOthers
<1>1. TypeOK /\ CleanInv /\ OwnInv => NeverClosesOthers
  BY DEF CleanInv, OwnInv, NeverClosesOthers, State, Held, Live, Over
<1>2. TypeOK /\ CleanInv /\ OwnInv /\ [Next]_vars => CleanInv' /\ OwnInv'
  BY CleanStep, OwnStep
<1> QED
  BY <1>1, <1>2, InitOwnInv, TypeCorrect, PTL DEF Spec
=============================================================================
