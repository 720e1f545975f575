----------------------------- MODULE CenterLink -----------------------------
(***************************************************************************)
(* The TCP connection of the fax gateway to the fax center: the global     *)
(* g_tcpSession (TcpSession.cpp), driven by three kinds of thread.         *)
(*                                                                         *)
(*   "main"  main() in faxgw.cpp: the first connect and login, then one    *)
(*           onKeepAlive every five seconds, which also reconnects;        *)
(*   "rx"    MsgReceiver in faxgw.cpp: reads the connection, frames and    *)
(*           dispatches the center's packets;                              *)
(*   "tx"    any client or download thread, which sends a packet when it   *)
(*           has seen m_bIsLogin TRUE (onSendRequest, onLCRReport, ...).   *)
(*                                                                         *)
(* Nothing serialises these threads, so a step is one access to the shared *)
(* state (or one system call).  A descriptor is a number that the kernel   *)
(* hands out again once it is closed: FDs holds the numbers, conn says     *)
(* what each of them is at present.                                        *)
(***************************************************************************)
EXTENDS Naturals, Sequences

CONSTANTS
    FDs,            \* descriptor numbers
    NoSock,         \* m_tcpSock = -1
    Orphan,         \* recv() sleeps on a socket whose descriptor was closed
    Ended,          \* the same, and that connection is over: recv() returns
    MaxWaitAlive,   \* 6 in onKeepAlive
    Port,           \* m_nPort, from the settings
    MaxInFlight,    \* bound: replies of the center waiting in one socket
    MaxBad,         \* bound: frames with an invalid length
    ForeignFDs,     \* do other threads open and close descriptors?
    Settles         \* may the network become, and stay, good?

ASSUME SpecialAssumption ==
    /\ NoSock \notin FDs /\ Orphan \notin FDs /\ Ended \notin FDs
    /\ NoSock # Orphan /\ NoSock # Ended /\ Orphan # Ended
ASSUME NumberAssumption ==
    /\ MaxWaitAlive \in Nat \ {0}
    /\ Port \in Nat /\ MaxInFlight \in Nat /\ MaxBad \in Nat
ASSUME SwitchAssumption == ForeignFDs \in BOOLEAN /\ Settles \in BOOLEAN

VARIABLES
    m_tcpSock,      \* TcpSession::m_tcpSock
    m_bIsLogin,     \* TcpSession::m_bIsLogin
    m_nWaitAlive,   \* TcpSession::m_nWaitAlive
    g_hRecvEvent,   \* the auto-reset event MsgReceiver waits on
    pc,             \* where each thread is
    afterClose,     \* where main continues once Close() returns
    waitRead,       \* the value main's m_nWaitAlive++ has read
    rfd,            \* the descriptor rx passed to recv(), while it is in it
    chunk,          \* the frame rx has taken out of the socket
    ntype,          \* the parser of MsgReceiver
    more,           \* bytes left in rx's buffer behind an invalid frame
    conn,           \* what each descriptor is
    inq,            \* what the center sent and rx has not read
    nbad,           \* number of invalid frames so far (bounded by MaxBad)
    alive,          \* the process runs
    settled         \* the network has become good for ever

session == <<m_tcpSock, m_bIsLogin, m_nWaitAlive, g_hRecvEvent>>
threads == <<pc, afterClose, waitRead>>
receiver == <<rfd, chunk, ntype, more, nbad>>
network == <<conn, inq>>
vars == <<session, threads, receiver, network, alive, settled>>

Threads == {"main", "rx", "tx"}

MainPC == {"sleep", "inc", "beat", "test", "close", "clear",
           "dns", "sock", "connect", "signal", "login"}
RxPC == {"off", "read", "recv", "blocked", "parse", "fail", "wait",
         "test", "close", "clear"}
TxPC == {"idle", "send"}

Msgs == {"loginok", "loginrej", "alive", "badlen"}
\* cut: the first bytes of the frame have already been read
Frames == [m : Msgs, cut : BOOLEAN]
Whole(m) == [m |-> m, cut |-> FALSE]
Nothing == Whole("alive")     \* what chunk holds when rx has none

\* est: connected; in: and the center accepted a login on it; mute: the
\* center has fallen silent; eof, rst: the center closed or reset it; shut:
\* shutdown() was called; foreign: the number is another thread's socket.
Live == {"est", "in", "mute"}
Over == {"eof", "rst", "shut"}
ConnStates == {"free", "new", "foreign"} \cup Live \cup Over

\* What the descriptor number s is; -1 is no descriptor.
State(s) == IF s = NoSock THEN "free" ELSE conn[s]

Goto(t, label) == pc' = [pc EXCEPT ![t] = label]

TypeOK ==
    /\ m_tcpSock \in FDs \cup {NoSock}
    /\ m_bIsLogin \in BOOLEAN
    /\ m_nWaitAlive \in 0 .. MaxWaitAlive
    /\ g_hRecvEvent \in BOOLEAN
    /\ pc \in [Threads -> MainPC \cup RxPC \cup TxPC]
    /\ pc["main"] \in MainPC /\ pc["rx"] \in RxPC /\ pc["tx"] \in TxPC
    /\ afterClose \in {"dns", "sock", "login"}
    /\ waitRead \in 0 .. MaxWaitAlive - 1
    /\ rfd \in FDs \cup {NoSock, Orphan, Ended}
    /\ chunk \in Frames
    /\ ntype \in {"sync", "mid", "stuck"}
    /\ more \in 0 .. 1
    /\ conn \in [FDs -> ConnStates]
    /\ inq \in [FDs -> Seq(Frames)]
    /\ nbad \in 0 .. MaxBad
    /\ alive \in BOOLEAN /\ settled \in BOOLEAN

(* initSession leaves an unconnected socket in m_tcpSock; main is about to *)
(* call connect for the first time, MsgReceiver is started after login.    *)
Init ==
    /\ m_tcpSock \in FDs
    /\ m_bIsLogin = FALSE /\ m_nWaitAlive = 0 /\ g_hRecvEvent = FALSE
    /\ pc = [t \in Threads |->
                IF t = "main" THEN "dns" ELSE IF t = "rx" THEN "off" ELSE "idle"]
    /\ afterClose = "login" /\ waitRead = 0
    /\ rfd = NoSock /\ chunk = Nothing /\ ntype = "sync" /\ more = 0
    /\ conn = [s \in FDs |-> IF s = m_tcpSock THEN "new" ELSE "free"]
    /\ inq = [s \in FDs |-> <<>>]
    /\ nbad = 0 /\ alive = TRUE /\ settled = FALSE

-----------------------------------------------------------------------------
(* Close(): test and shutdown, closesocket, m_tcpSock = -1, each of them   *)
(* with the value m_tcpSock has then.  main and rx both call it.           *)

CloseReturn(t) == IF t = "main" THEN afterClose
                  ELSE IF more > 0 THEN "test" ELSE "read"

\* Mutant of Shutdown: Close() only closes the descriptor.
NoShutdown(s) == UNCHANGED conn

\* shutdown(s, SHUT_RDWR), which does nothing to what is not connected.
Shutdown(s) ==
    conn' = IF conn[s] \in Live \cup Over THEN [conn EXCEPT ![s] = "shut"]
                                          ELSE conn

CloseTest(t) ==
    /\ pc[t] = "test"
    /\ IF m_tcpSock # NoSock
       THEN /\ Goto(t, "close")
            /\ Shutdown(m_tcpSock)
            /\ UNCHANGED more
       ELSE /\ Goto(t, CloseReturn(t))
            /\ more' = IF t = "rx" THEN 0 ELSE more
            /\ UNCHANGED conn
    /\ UNCHANGED <<session, afterClose, waitRead, rfd, chunk, ntype, nbad,
                   inq, alive, settled>>

(* A descriptor number becomes free, whoever owned it.  A recv() asleep on *)
(* it keeps sleeping on the socket, which now has no number, unless the    *)
(* connection is over.                                                     *)
Release(s) ==
    /\ conn' = [conn EXCEPT ![s] = "free"]
    /\ inq' = [inq EXCEPT ![s] = <<>>]
    /\ rfd' = IF pc["rx"] = "blocked" /\ rfd = s
              THEN IF conn[s] \in Over THEN Ended ELSE Orphan
              ELSE rfd

CloseSocket(t) ==
    /\ pc[t] = "close"
    /\ Goto(t, "clear")
    /\ IF m_tcpSock # NoSock THEN Release(m_tcpSock)
                             ELSE UNCHANGED <<conn, inq, rfd>>
    /\ UNCHANGED <<session, afterClose, waitRead, chunk, ntype, more, nbad,
                   alive, settled>>

\* Mutant of ForgetSock: Close() leaves the number in m_tcpSock.
KeepSock == UNCHANGED m_tcpSock

ForgetSock == m_tcpSock' = NoSock

CloseClear(t) ==
    /\ pc[t] = "clear"
    /\ ForgetSock
    /\ Goto(t, CloseReturn(t))
    /\ more' = IF t = "rx" THEN 0 ELSE more
    /\ UNCHANGED <<m_bIsLogin, m_nWaitAlive, g_hRecvEvent, afterClose,
                   waitRead, rfd, chunk, ntype, nbad, network, alive, settled>>

-----------------------------------------------------------------------------
(* send() on m_tcpSock, in sendDirect.  The flags are 0 and SIGPIPE keeps  *)
(* its default action, so EPIPE ends the process before send() returns.    *)

SendRefused ==
    /\ State(m_tcpSock) \in {"free", "rst"}
    /\ m_bIsLogin' = FALSE
    /\ UNCHANGED <<network, alive>>

SendKilled ==
    /\ State(m_tcpSock) \in {"new", "rst", "shut"}
    /\ alive' = FALSE
    /\ UNCHANGED <<m_bIsLogin, network>>

(* The center answers a login and, once it has accepted one, a keepalive;  *)
(* MaxInFlight bounds what it has in flight.  What it answers to any other *)
(* packet is not for this module.                                          *)
Reply(s, m) ==
    inq' = IF Len(inq[s]) < MaxInFlight
           THEN [inq EXCEPT ![s] = Append(@, Whole(m))] ELSE inq

CenterHandles(s, cmd) ==
    \/ /\ cmd = "login"
       /\ Reply(s, "loginok")
       /\ conn' = IF inq' # inq THEN [conn EXCEPT ![s] = "in"] ELSE conn
    \/ /\ cmd = "login" /\ ~settled
       /\ Reply(s, "loginrej")
       /\ UNCHANGED conn
    \/ /\ cmd = "alive" /\ conn[s] = "in"
       /\ Reply(s, "alive")
       /\ UNCHANGED conn
    \/ /\ cmd = "other" \/ (cmd = "alive" /\ conn[s] # "in")
       /\ UNCHANGED network

SendTaken(cmd) ==
    /\ \/ /\ State(m_tcpSock) \in {"est", "in"}
          /\ CenterHandles(m_tcpSock, cmd)
       \/ /\ State(m_tcpSock) \in {"mute", "foreign"}
          /\ UNCHANGED network
       \/ /\ State(m_tcpSock) = "eof"    \* a reset comes back
          /\ conn' = [conn EXCEPT ![m_tcpSock] = "rst"]
          /\ UNCHANGED inq
    /\ UNCHANGED <<m_bIsLogin, alive>>

sendDirect(t, cmd, next) ==
    /\ Goto(t, next)
    /\ SendRefused \/ SendKilled \/ SendTaken(cmd)
    /\ UNCHANGED <<m_tcpSock, m_nWaitAlive, g_hRecvEvent, afterClose,
                   waitRead, settled>>

-----------------------------------------------------------------------------
(* main: onKeepAlive, connect, onLogin.                                    *)

\* rx has nothing to do before the center sends or main connects.
RxIdle ==
    \/ pc["rx"] = "wait" /\ ~g_hRecvEvent
    \/ /\ pc["rx"] = "blocked"
       /\ \/ rfd = Orphan
          \/ rfd \in FDs /\ inq[rfd] = <<>> /\ conn[rfd] \notin Over

\* Mutant of BeatAgain: one keepalive too many.
BeatOnceMore == m_bIsLogin /\ m_nWaitAlive <= MaxWaitAlive

BeatAgain == m_bIsLogin /\ m_nWaitAlive < MaxWaitAlive

(* Sleep(5*1000) returns.  Once the network is good, five seconds are long *)
(* enough for every reply to arrive and to be handled.                     *)
onKeepAlive ==
    /\ pc["main"] = "sleep"
    /\ settled => RxIdle
    /\ IF BeatAgain
       THEN /\ waitRead' = m_nWaitAlive
            /\ Goto("main", "inc")
            /\ UNCHANGED afterClose
       ELSE /\ Port # 0
            /\ afterClose' = "dns"
            /\ Goto("main", "test")
            /\ UNCHANGED waitRead
    /\ UNCHANGED <<session, receiver, network, alive, settled>>

WaitAliveInc ==
    /\ pc["main"] = "inc"
    /\ m_nWaitAlive' = waitRead + 1
    /\ waitRead' = 0
    /\ Goto("main", "beat")
    /\ UNCHANGED <<m_tcpSock, m_bIsLogin, g_hRecvEvent, afterClose, receiver,
                   network, alive, settled>>

SendKeepAlive ==
    /\ pc["main"] = "beat"
    /\ sendDirect("main", "alive", "sleep")
    /\ UNCHANGED receiver

\* Mutant of ReleasePrevious: connect() keeps the previous socket open.
KeepPrevious == FALSE

ReleasePrevious == m_tcpSock # NoSock

\* The name is resolved or connect() gives up before it touches the socket.
ConnectResolve ==
    /\ pc["main"] = "dns"
    /\ \/ ~settled /\ Goto("main", "login") /\ UNCHANGED afterClose
       \/ ReleasePrevious /\ afterClose' = "sock" /\ Goto("main", "test")
       \/ ~ReleasePrevious /\ Goto("main", "sock") /\ UNCHANGED afterClose
    /\ UNCHANGED <<session, waitRead, receiver, network, alive, settled>>

ConnectSocket ==
    /\ pc["main"] = "sock"
    /\ \/ \E s \in FDs :
             /\ conn[s] = "free"
             /\ m_tcpSock' = s
             /\ conn' = [conn EXCEPT ![s] = "new"]
             /\ Goto("main", "connect")
       \/ /\ ~settled \/ \A s \in FDs : conn[s] # "free"
          /\ m_tcpSock' = NoSock
          /\ Goto("main", "login")
          /\ UNCHANGED conn
    /\ UNCHANGED <<m_bIsLogin, m_nWaitAlive, g_hRecvEvent, afterClose,
                   waitRead, receiver, inq, alive, settled>>

ConnectConnect ==
    /\ pc["main"] = "connect"
    /\ \/ /\ State(m_tcpSock) = "new"
          /\ conn' = [conn EXCEPT ![m_tcpSock] = "est"]
          /\ Goto("main", "signal")
          /\ UNCHANGED afterClose
       \/ /\ State(m_tcpSock) = "new" => ~settled
          /\ Goto("main", "test")
          /\ afterClose' = "login"
          /\ UNCHANGED conn
    /\ UNCHANGED <<session, waitRead, receiver, inq, alive, settled>>

\* Mutant of SetRecvEvent: the event is pulsed, not set.
PulseRecvEvent == g_hRecvEvent' = (pc["rx"] = "wait")

SetRecvEvent == g_hRecvEvent' = TRUE

ConnectSignal ==
    /\ pc["main"] = "signal"
    /\ SetRecvEvent
    /\ Goto("main", "login")
    /\ UNCHANGED <<m_tcpSock, m_bIsLogin, m_nWaitAlive, afterClose, waitRead,
                   receiver, network, alive, settled>>

\* The first onLogin is followed by _beginthread(MsgReceiver).
onLogin ==
    /\ pc["main"] = "login"
    /\ IF pc["rx"] = "off"
       THEN /\ pc' = [pc EXCEPT !["main"] = "sleep", !["rx"] = "read"]
            /\ SendRefused \/ SendKilled \/ SendTaken("login")
            /\ UNCHANGED <<m_tcpSock, m_nWaitAlive, g_hRecvEvent, afterClose,
                           waitRead, settled>>
       ELSE sendDirect("main", "login", "sleep")
    /\ UNCHANGED receiver

Main ==
    \/ onKeepAlive \/ WaitAliveInc \/ SendKeepAlive
    \/ CloseTest("main") \/ CloseSocket("main") \/ CloseClear("main")
    \/ ConnectResolve \/ ConnectSocket \/ ConnectConnect \/ ConnectSignal
    \/ onLogin

-----------------------------------------------------------------------------
(* rx: MsgReceiver and the part of onReceive that concerns the session.    *)

ReadData ==
    /\ pc["rx"] = "read"
    /\ IF m_tcpSock = NoSock
       THEN m_bIsLogin' = FALSE /\ Goto("rx", "wait") /\ UNCHANGED rfd
       ELSE rfd' = m_tcpSock /\ Goto("rx", "recv") /\ UNCHANGED m_bIsLogin
    /\ UNCHANGED <<m_tcpSock, m_nWaitAlive, g_hRecvEvent, afterClose, waitRead,
                   chunk, ntype, more, nbad, network, alive, settled>>

\* recv() fails at once on a closed or unconnected descriptor.
RecvEnter ==
    /\ pc["rx"] = "recv"
    /\ IF conn[rfd] \in {"free", "new"}
       THEN Goto("rx", "fail") /\ rfd' = NoSock
       ELSE Goto("rx", "blocked") /\ UNCHANGED rfd
    /\ UNCHANGED <<session, afterClose, waitRead, chunk, ntype, more, nbad,
                   network, alive, settled>>

CutHead(q) == <<[Head(q) EXCEPT !.cut = TRUE]>> \o Tail(q)

\* The buffer holds the next frame, or only its first bytes.
RecvData ==
    /\ pc["rx"] = "blocked" /\ rfd \in FDs
    /\ inq[rfd] # <<>>
    /\ \/ /\ chunk' = Head(inq[rfd])
          /\ inq' = [inq EXCEPT ![rfd] = Tail(@)]
          /\ Goto("rx", "parse")
          /\ UNCHANGED ntype
       \/ /\ ntype = "sync" /\ ~Head(inq[rfd]).cut
          /\ inq' = [inq EXCEPT ![rfd] = CutHead(@)]
          /\ ntype' = "mid"
          /\ Goto("rx", "read")
          /\ UNCHANGED chunk
    /\ rfd' = NoSock
    /\ UNCHANGED <<session, afterClose, waitRead, more, nbad, conn, alive,
                   settled>>

\* recv() returns 0 or -1.
RecvEnd ==
    /\ pc["rx"] = "blocked"
    /\ rfd = Ended \/ (rfd \in FDs /\ inq[rfd] = <<>> /\ conn[rfd] \in Over)
    /\ rfd' = NoSock
    /\ Goto("rx", "fail")
    /\ UNCHANGED <<session, afterClose, waitRead, chunk, ntype, more, nbad,
                   network, alive, settled>>

ReadFailed ==
    /\ pc["rx"] = "fail"
    /\ m_bIsLogin' = FALSE
    /\ Goto("rx", "wait")
    /\ UNCHANGED <<m_tcpSock, m_nWaitAlive, g_hRecvEvent, afterClose, waitRead,
                   receiver, network, alive, settled>>

WaitRecvEvent ==
    /\ pc["rx"] = "wait"
    /\ g_hRecvEvent
    /\ g_hRecvEvent' = FALSE
    /\ ntype' = "sync"
    /\ Goto("rx", "read")
    /\ UNCHANGED <<m_tcpSock, m_bIsLogin, m_nWaitAlive, afterClose, waitRead,
                   rfd, chunk, more, nbad, network, alive, settled>>

\* A frame whose length is not in 3 .. 2047: Close(), once more for every
\* byte behind it (ntype stays 2 and nPointer stays past the length).
InvalidLength ==
    /\ ntype' = "stuck"
    /\ more' \in 0 .. 1
    /\ Goto("rx", "test")
    /\ UNCHANGED <<m_bIsLogin, m_nWaitAlive>>

onReceive ==
    \/ /\ chunk.m = "loginok"
       /\ m_bIsLogin' = TRUE /\ m_nWaitAlive' = 0
       /\ ntype' = "sync" /\ Goto("rx", "read") /\ UNCHANGED <<more, nbad>>
    \/ /\ chunk.m = "loginrej"
       /\ m_bIsLogin' = FALSE /\ UNCHANGED m_nWaitAlive
       /\ ntype' = "sync" /\ Goto("rx", "read") /\ UNCHANGED <<more, nbad>>
    \/ /\ chunk.m = "alive"
       /\ m_nWaitAlive' = 0 /\ UNCHANGED m_bIsLogin
       /\ ntype' = "sync" /\ Goto("rx", "read") /\ UNCHANGED <<more, nbad>>
    \/ /\ chunk.m = "badlen"
       /\ InvalidLength /\ UNCHANGED nbad

(* The parser meets bytes it is not aligned with: it skips them, takes     *)
(* them for the rest of the frame it had begun on another connection, or   *)
(* for a header with an invalid length.                                    *)
Misaligned ==
    \/ /\ ntype' \in {"sync", ntype}
       /\ Goto("rx", "read")
       /\ UNCHANGED <<m_bIsLogin, m_nWaitAlive, more, nbad>>
    \/ /\ nbad < MaxBad /\ nbad' = nbad + 1
       /\ InvalidLength

Parse ==
    /\ pc["rx"] = "parse"
    /\ \/ ntype # "stuck" /\ chunk.cut = (ntype = "mid") /\ onReceive
       \/ ntype # "stuck" /\ chunk.cut # (ntype = "mid") /\ Misaligned
       \/ ntype = "stuck" /\ InvalidLength /\ UNCHANGED nbad
    /\ chunk' = Nothing
    /\ UNCHANGED <<m_tcpSock, g_hRecvEvent, afterClose, waitRead, rfd, network,
                   alive, settled>>

\* recv() was given a number that another thread's socket has by now.
RecvForeign ==
    /\ pc["rx"] = "blocked" /\ rfd \in FDs
    /\ conn[rfd] = "foreign"
    /\ ntype' \in {"sync", ntype}
    /\ rfd' = NoSock
    /\ Goto("rx", "read")
    /\ UNCHANGED <<session, afterClose, waitRead, chunk, more, nbad, network,
                   alive, settled>>

Rx ==
    \/ ReadData \/ RecvEnter \/ RecvData \/ RecvEnd \/ ReadFailed
    \/ WaitRecvEvent \/ Parse
    \/ CloseTest("rx") \/ CloseSocket("rx") \/ CloseClear("rx")

-----------------------------------------------------------------------------
(* tx: a thread that sends when it finds the session logged in.            *)

TxCheck ==
    /\ pc["tx"] = "idle"
    /\ m_bIsLogin
    /\ Goto("tx", "send")
    /\ UNCHANGED <<session, afterClose, waitRead, receiver, network, alive,
                   settled>>

TxSend ==
    /\ pc["tx"] = "send"
    /\ sendDirect("tx", "other", "idle")
    /\ UNCHANGED receiver

-----------------------------------------------------------------------------
(* The center, the network and the descriptors of the other threads.       *)

CenterCloses(s) ==
    /\ ~settled
    /\ conn[s] \in {"est", "in"}
    /\ conn' = [conn EXCEPT ![s] = "eof"]
    /\ UNCHANGED <<session, threads, receiver, inq, alive, settled>>

ConnectionReset(s) ==
    /\ ~settled
    /\ conn[s] \in Live \cup {"eof"}
    /\ conn' = [conn EXCEPT ![s] = "rst"]
    /\ UNCHANGED <<session, threads, receiver, inq, alive, settled>>

CenterFallsSilent(s) ==
    /\ ~settled
    /\ conn[s] \in {"est", "in"}
    /\ conn' = [conn EXCEPT ![s] = "mute"]
    /\ UNCHANGED <<session, threads, receiver, inq, alive, settled>>

CenterSendsInvalid(s) ==
    /\ ~settled
    /\ conn[s] \in {"est", "in"}
    /\ nbad < MaxBad /\ Len(inq[s]) < MaxInFlight
    /\ nbad' = nbad + 1
    /\ Reply(s, "badlen")
    /\ UNCHANGED <<session, threads, rfd, chunk, ntype, more, conn, alive,
                   settled>>

\* The other threads do not use up the process's descriptors.
OtherOpens(s) ==
    /\ ForeignFDs
    /\ conn[s] = "free" /\ \E r \in FDs \ {s} : conn[r] = "free"
    /\ conn' = [conn EXCEPT ![s] = "foreign"]
    /\ UNCHANGED <<session, threads, receiver, inq, alive, settled>>

OtherCloses(s) ==
    /\ conn[s] = "foreign"
    /\ Release(s)
    /\ UNCHANGED <<session, threads, chunk, ntype, more, nbad, alive, settled>>

\* From now on names resolve, connects succeed, the center accepts logins
\* and answers, and breaks no connection.
Settle ==
    /\ Settles /\ ~settled
    /\ settled' = TRUE
    /\ UNCHANGED <<session, threads, receiver, network, alive>>

Environment ==
    \/ \E s \in FDs : \/ CenterCloses(s) \/ ConnectionReset(s)
                      \/ CenterFallsSilent(s) \/ CenterSendsInvalid(s)
                      \/ OtherOpens(s) \/ OtherCloses(s)
    \/ Settle

Next == alive /\ (Main \/ Rx \/ RecvForeign \/ TxCheck \/ TxSend \/ Environment)

Spec == Init /\ [][Next]_vars

(* The kernel runs both threads of the gateway; nothing is assumed of the  *)
(* center, of the network or of the other threads.                         *)
FairSpec == Spec /\ WF_vars(alive /\ Main) /\ WF_vars(alive /\ Rx)
-----------------------------------------------------------------------------
(* Properties.                                                             *)

(* No lost wake-up: MsgReceiver never sleeps on g_hRecvEvent, unsignalled, *)
(* while m_tcpSock is a connection that is up; between ::connect and       *)
(* SetEvent main is about to signal it.  (TcpSession.cpp:223-232,          *)
(* faxgw.cpp:315)                                                          *)
NoLostWakeup ==
    pc["rx"] = "wait" /\ ~g_hRecvEvent
        => State(m_tcpSock) \notin Live \/ pc["main"] = "signal"

(* As long as no frame was invalid, so that main alone calls Close:        *)
(* no connection of the session outlives its place in m_tcpSock, where     *)
(* neither Close nor connect can reach it any more, ...                    *)
(* (TcpSession.cpp:208-211)                                                *)
NoLeak ==
    nbad = 0 =>
        \A s \in FDs :
            conn[s] \in {"new"} \cup Live \cup Over => s = m_tcpSock

(* ... and Close never closes a descriptor that is another thread's        *)
(* socket by then.  (TcpSession.cpp:116-124)                               *)
NeverClosesOthers ==
    nbad = 0 =>
        \A t \in {"main", "rx"} :
            pc[t] = "close" => State(m_tcpSock) # "foreign"

(* Once the network is good, the gateway becomes logged in on its present  *)
(* connection and stays so, unless a SIGPIPE has ended it: no reader asleep *)
(* for ever, no endless reconnecting, no spurious drop.                    *)
(* (TcpSession.cpp:114-126, 889-923)                                       *)
LoggedIn == m_bIsLogin /\ State(m_tcpSock) = "in"
StableLogin == settled ~> [](LoggedIn \/ ~alive)
=============================================================================
