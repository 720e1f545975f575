----------------------------- MODULE ClientPool ------------------------------
(***************************************************************************)
(* The listen loop (MainThreadProc), a thread for each client it accepts   *)
(* (TCPSThreadProc), and what they do with descriptors: a client's socket  *)
(* is known to its thread by number only (tcpSock), the connection to the  *)
(* file server to all of them as the global g_sSend, and a number that is  *)
(* closed is given to whoever opens something next.                        *)
(*                                                                         *)
(* The commands are modelled by what they do to descriptors, to nType and  *)
(* to the thread.  GW_LOGIN, GW_KEEPALIVE, GW_QUERY_STATUS and             *)
(* GW_FAX_REQUESTRECV leave all three as they are if they can answer, and  *)
(* end the thread if not; what is sent and received, and by which fax, is  *)
(* in SendSession and FaxQueue.                                            *)
(***************************************************************************)
EXTENDS Naturals, FiniteSets

CONSTANTS
    MaxFd,          \* the number of descriptors a process may have
    MaxSess         \* bound: clients accepted

ASSUME BoundAssumption == MaxFd \in Nat \ {0} /\ MaxSess \in Nat

Fds == 1 .. MaxFd
Sessions == 1 .. MaxSess
NoFd == 0           \* g_sSend when it is 0 or -1
Listener == 1       \* sMain

VARIABLES
    own,            \* who has opened a descriptor: <<what, session>>
    listening,
    thread,         \* "none", "running", "over", or "failed" to start
    pc,             \* where a thread is: "command", "wait", "connect", "reply"
    tcpSock, nType, \* each thread's
    sock,           \* the socket GetRSAPacket was called with
    g_sSend,
    semaphore,      \* releases of m_hSemaphore
    stopRecv, mixed, foreign    \* history: see OwnOnly

session == <<pc, nType, sock>>
history == <<stopRecv, mixed, foreign>>
vars == <<own, listening, thread, tcpSock, session, g_sSend, semaphore, history>>

Free == <<"free", 0>>
Client(s) == <<"client", s>>
FileServer(s) == <<"server", s>>
Other == <<"other", 0>>         \* downloads, files, the fax center

TypeOK ==
    /\ own \in [Fds -> {Free, Other, <<"listener", 0>>}
                        \cup {Client(s) : s \in Sessions}
                        \cup {FileServer(s) : s \in Sessions}]
    /\ listening \in BOOLEAN
    /\ thread \in [Sessions -> {"none", "running", "over", "failed"}]
    /\ pc \in [Sessions -> {"command", "wait", "connect", "reply"}]
    /\ tcpSock \in [Sessions -> Fds \cup {NoFd}]
    /\ sock \in [Sessions -> Fds \cup {NoFd}]
    /\ nType \in [Sessions -> {0, 1}]
    /\ g_sSend \in Fds \cup {NoFd}
    /\ semaphore \in 0 .. MaxSess
    /\ stopRecv \in BOOLEAN /\ mixed \in BOOLEAN /\ foreign \in BOOLEAN

Init ==
    /\ own = [fd \in Fds |-> IF fd = Listener THEN <<"listener", 0>> ELSE Free]
    /\ listening = TRUE
    /\ thread = [s \in Sessions |-> "none"]
    /\ pc = [s \in Sessions |-> "command"] /\ nType = [s \in Sessions |-> 0]
    /\ tcpSock = [s \in Sessions |-> NoFd] /\ sock = [s \in Sessions |-> NoFd]
    /\ g_sSend = NoFd /\ semaphore = 0
    /\ stopRecv = FALSE /\ mixed = FALSE /\ foreign = FALSE

\* The kernel gives the lowest number that is free.
FreeFds == {fd \in Fds : own[fd] = Free}
Open(fd, what) ==
    /\ fd \in FreeFds /\ \A free \in FreeFds : fd <= free
    /\ own' = [own EXCEPT ![fd] = what]

Running(s) == thread[s] = "running"

-----------------------------------------------------------------------------
(* MainThreadProc.  The wait for the semaphore is commented out.           *)

Accept ==
    \E s \in Sessions, fd \in Fds :
        /\ listening
        /\ thread[s] = "none" /\ \A r \in 1 .. s - 1 : thread[r] # "none"
        /\ Open(fd, Client(s))
        /\ tcpSock' = [tcpSock EXCEPT ![s] = fd]
        /\ \E t \in {"running", "failed"} : thread' = [thread EXCEPT ![s] = t]
        /\ UNCHANGED <<listening, session, g_sSend, semaphore, history>>

\* No descriptor is left, or whatever the error: the loop ends for good.
AcceptFails ==
    /\ listening /\ listening' = FALSE
    /\ own' = [own EXCEPT ![Listener] = Free]
    /\ UNCHANGED <<thread, tcpSock, session, g_sSend, semaphore, history>>

OthersOpen ==
    /\ \E fd \in Fds : Open(fd, Other)
    /\ UNCHANGED <<listening, thread, tcpSock, session, g_sSend, semaphore, history>>

OthersClose ==
    /\ \E fd \in Fds : own[fd] = Other /\ own' = [own EXCEPT ![fd] = Free]
    /\ UNCHANGED <<listening, thread, tcpSock, session, g_sSend, semaphore, history>>

-----------------------------------------------------------------------------
(* A thread closes numbers; what was open there may not be its own.        *)

Closed(fds) == [fd \in Fds |-> IF fd \in fds THEN Free ELSE own[fd]]

Close(s, fds) ==
    /\ own' = Closed(fds)
    /\ foreign' = (foreign \/ \E fd \in fds \cap Fds :
                                own[fd] \notin {Free, Client(s), FileServer(s)})

\* Mutant of ClosedAtEnd: the ways out of the commands leave it open.
ClosedByRecvOnly(s) == IF nType[s] = 1 THEN {} ELSE {tcpSock[s]}

\* Mutant of ClosedAtEnd: the thread closes the connection to the server too.
ServerToo(s) == {tcpSock[s], g_sSend}

ClosedAtEnd(s) == {tcpSock[s]}

\* Mutant of Released: a thread that ends after a command has released twice.
ReleasedTwice(s) == IF nType[s] = 1 THEN 2 ELSE 1

Released(s) == 1

Goto(s, label) == pc' = [pc EXCEPT ![s] = label]

(* Each way out of TCPSThreadProc closes tcpSock and releases the          *)
(* semaphore; also is what the command has closed before.                  *)
End(s, also) ==
    /\ Close(s, ClosedAtEnd(s) \cup also)
    /\ thread' = [thread EXCEPT ![s] = "over"]
    /\ semaphore' = semaphore + Released(s)
    /\ Goto(s, "command") /\ nType' = [nType EXCEPT ![s] = 0]
    /\ tcpSock' = [tcpSock EXCEPT ![s] = NoFd] /\ sock' = [sock EXCEPT ![s] = NoFd]
    /\ UNCHANGED <<listening, g_sSend, stopRecv, mixed>>

\* recv() ends, a command is refused (GW_LOGIN, GW_FAX_RECV: nType is never 4),
\* the center does not answer, or an answer cannot be sent.
Leave(s) == Running(s) /\ pc[s] \in {"command", "wait"} /\ End(s, {})

\* A command comes: on the thread's own socket, or on a client's that was
\* accepted under its number.
Command(s) ==
    /\ Running(s) /\ pc[s] = "command"
    /\ tcpSock[s] \in Fds /\ \E c \in Sessions : own[tcpSock[s]] = Client(c)

Senders == {s \in Sessions : Running(s) /\ nType[s] = 1}

\* GW_FAX_REQUESTSEND; the answer of the center is waited for.
RequestSend(s) ==
    /\ Command(s) /\ nType[s] = 0
    /\ nType' = [nType EXCEPT ![s] = 1]
    /\ mixed' = (mixed \/ Senders # {})
    /\ Goto(s, "wait")
    /\ UNCHANGED <<own, listening, thread, tcpSock, sock, g_sSend, semaphore,
                   stopRecv, foreign>>

\* Mutant of Decided: a refusal does not reset nType.
NotReset(s, code) == Goto(s, "command") /\ UNCHANGED <<nType, mixed>>

(* The end of a request: nType follows g_bySendCode, into which by now the *)
(* answer to another request may have been written, an earlier one's too.  *)
Decided(s, code) ==
    /\ Goto(s, "command")
    /\ \E now \in {0, 1} :
          /\ nType' = [nType EXCEPT ![s] = now]
          /\ mixed' = (mixed \/ now # code)

\* The center refuses, the server's name does not resolve, or socket() fails.
Refused(s) ==
    /\ Running(s) /\ pc[s] = "wait"
    /\ g_sSend' \in {g_sSend, NoFd}
    /\ Decided(s, 0)
    /\ UNCHANGED <<own, listening, thread, tcpSock, sock, semaphore, stopRecv, foreign>>

\* ConnectFileSrv: what g_sSend was before is not closed.
OpenServer(s) ==
    /\ Running(s) /\ pc[s] = "wait"
    /\ \E fd \in Fds : Open(fd, FileServer(s)) /\ g_sSend' = fd
    /\ Goto(s, "connect")
    /\ UNCHANGED <<listening, thread, tcpSock, nType, sock, semaphore, history>>

Connected(s) ==
    /\ Running(s) /\ pc[s] = "connect"
    /\ Decided(s, 1)
    /\ UNCHANGED <<own, listening, thread, tcpSock, sock, g_sSend, semaphore,
                   stopRecv, foreign>>

\* connect(), the request or the server's answer fails: g_sSend is closed as it
\* is then, whoever has set it last.
ConnectFails(s) ==
    /\ Running(s) /\ pc[s] = "connect"
    /\ Close(s, {g_sSend}) /\ g_sSend' = NoFd
    /\ Decided(s, 0)
    /\ UNCHANGED <<listening, thread, tcpSock, sock, semaphore, stopRecv>>

\* GW_FAX_SEND and GW_FAX_STOPSEND: GetRSAPacket is called with g_sSend.
Send(s) ==
    /\ Command(s) /\ nType[s] = 1
    /\ sock' = [sock EXCEPT ![s] = g_sSend]
    /\ Goto(s, "reply")
    /\ UNCHANGED <<own, listening, thread, tcpSock, nType, g_sSend, semaphore, history>>

\* It fails: it closes its socket, which g_sSend may name on, and the thread ends.
SendFails(s) ==
    /\ Running(s) /\ pc[s] = "reply"
    /\ End(s, {sock[s]})

\* The server has answered.  After a STOPSEND its connection stays open.
Sent(s) ==
    /\ Running(s) /\ pc[s] = "reply"
    /\ \E still \in {0, 1} : nType' = [nType EXCEPT ![s] = still]
    /\ sock' = [sock EXCEPT ![s] = NoFd]
    /\ Goto(s, "command")
    /\ UNCHANGED <<own, listening, thread, tcpSock, g_sSend, semaphore, history>>

\* GW_FAX_STOPRECV closes the socket, and the thread goes on reading it.
StopRecv(s) ==
    /\ Command(s)
    /\ Close(s, {tcpSock[s]})
    /\ stopRecv' = TRUE
    /\ UNCHANGED <<listening, thread, tcpSock, session, g_sSend, semaphore, mixed>>

-----------------------------------------------------------------------------
Session(s) ==
    \/ Leave(s) \/ RequestSend(s) \/ Refused(s) \/ OpenServer(s)
    \/ Connected(s) \/ ConnectFails(s)
    \/ Send(s) \/ SendFails(s) \/ Sent(s) \/ StopRecv(s)

Next ==
    \/ Accept \/ AcceptFails \/ OthersOpen \/ OthersClose
    \/ \E s \in Sessions : Session(s)

Spec == Init /\ [][Next]_vars

-----------------------------------------------------------------------------
\* A thread closes what it has opened itself and nothing else, unless a client
\* has sent GW_FAX_STOPRECV or requests have been mixed: two clients between
\* GW_FAX_REQUESTSEND and GW_FAX_STOPSEND at once, or one that has got the answer
\* to another request.  (FileSession.cpp:870, 1110, 1131)
OwnOnly == foreign => stopRecv \/ mixed

\* A client's socket does not outlive its thread, whichever way that ends (it
\* is lost if there was no thread to begin with).
ClientsClosed ==
    \A fd \in Fds, s \in Sessions :
        own[fd] = Client(s) => thread[s] \in {"running", "failed"}

\* Under the same condition a running thread has its client's socket, and one
\* that may send has its connection to the server: the numbers are not yet
\* another's.
NumbersHold ==
    ~stopRecv /\ ~mixed =>
        \A s \in Sessions : Running(s) =>
            /\ own[tcpSock[s]] = Client(s)
            /\ nType[s] = 1 /\ pc[s] # "wait" =>
                  g_sSend \in Fds /\ own[g_sSend] = FileServer(s)
=============================================================================
