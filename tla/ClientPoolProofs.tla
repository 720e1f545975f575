-------------------------- MODULE ClientPoolProofs ---------------------------
(***************************************************************************)
(* Proofs about ClientPool, for any number of descriptors and of clients.  *)
(* A thread's socket is the only descriptor of its client, and that the    *)
(* numbers hold is inductive together with who holds what: the connection  *)
(* of a client that sends is g_sSend as long as it is the only one.        *)
(***************************************************************************)
EXTENDS ClientPool, TLAPS, FiniteSetTheorems

Over == {s \in Sessions : thread[s] = "over"}

\* Each thread that has ended has released the semaphore.
Counted == semaphore = Cardinality(Over)

\* A client's descriptor is its thread's.
Holders ==
    \A fd \in Fds, s \in Sessions :
        own[fd] = Client(s) => thread[s] \in {"running", "failed"} /\ tcpSock[s] = fd

\* A thread has its client's socket and, from the connection to the end of its
\* transfer, the file server's.
Holds(s) ==
    /\ Running(s) => tcpSock[s] \in Fds /\ own[tcpSock[s]] = Client(s)
    /\ nType[s] = 1 => Running(s)
    /\ nType[s] = 1 /\ pc[s] # "wait" => g_sSend \in Fds /\ own[g_sSend] = FileServer(s)
    /\ pc[s] # "command" => nType[s] = 1
    /\ pc[s] = "reply" => sock[s] = g_sSend

\* One client sends at a time.
Alone == \A c, d \in Sessions : nType[c] = 1 /\ nType[d] = 1 => c = d

Quiet == ~stopRecv /\ ~mixed

Sound == Quiet => ~foreign /\ Alone /\ \A s \in Sessions : Holds(s)

\* No thread knows the number of the socket the loop listens on.
Apart ==
    listening =>
        /\ own[Listener] = <<"listener", 0>>
        /\ g_sSend # Listener
        /\ \A s \in Sessions : tcpSock[s] # Listener /\ sock[s] # Listener

IInv == TypeOK /\ Counted /\ Apart /\ Holders /\ Sound

-----------------------------------------------------------------------------
LEMMA FiniteSessions ==
    ASSUME NEW S \in SUBSET Sessions
    PROVE  IsFiniteSet(S) /\ Cardinality(S) \in 0 .. MaxSess
<1>1. IsFiniteSet(Sessions) /\ Cardinality(Sessions) = MaxSess
  BY FS_Interval, BoundAssumption DEF Sessions
<1>2. IsFiniteSet(S) /\ Cardinality(S) <= Cardinality(Sessions)
  BY <1>1, FS_Subset
<1> QED BY <1>1, <1>2, FS_CardinalityType, BoundAssumption

LEMMA InitIInv == Init => IInv
<1> SUFFICES ASSUME Init PROVE IInv
  OBVIOUS
<1>1. TypeOK
  <2>1. own \in [Fds -> {Free, Other, <<"listener", 0>>}]
    BY DEF Init
  <2>2. semaphore \in 0 .. MaxSess
    BY BoundAssumption DEF Init
  <2> QED BY <2>1, <2>2 DEF Init, TypeOK
<1>2. Over = {}
  BY DEF Init, Over
<1>3. Counted
  BY <1>2, FS_EmptySet DEF Init, Counted
<1>4. Holders /\ Sound
  BY DEF Init, Holders, Sound, Alone, Holds, Running, Client, Free
<1>5. Apart
  BY BoundAssumption DEF Init, Apart, Listener, Fds, NoFd
<1> QED BY <1>1, <1>3, <1>4, <1>5 DEF IInv

-----------------------------------------------------------------------------
(* The semaphore.                                                          *)

LEMMA CountKept ==
    ASSUME IInv, semaphore' = semaphore,
           \A s \in Sessions : thread'[s] = "over" <=> thread[s] = "over"
    PROVE  Counted' /\ semaphore' \in 0 .. MaxSess
<1>1. Over' = Over
  BY DEF Over
<1> QED BY <1>1 DEF IInv, Counted, TypeOK

LEMMA CountEnd ==
    ASSUME IInv, NEW s \in Sessions, NEW also, Running(s), End(s, also)
    PROVE  Counted' /\ semaphore' \in 0 .. MaxSess
<1>1. s \notin Over /\ Over' = Over \cup {s} /\ semaphore' = semaphore + 1
  BY DEF IInv, TypeOK, Over, Running, End, Released
<1>2. IsFiniteSet(Over) /\ Cardinality(Over') \in 0 .. MaxSess
  BY FiniteSessions DEF Over
<1>3. Cardinality(Over') = Cardinality(Over) + 1
  BY <1>1, <1>2, FS_AddElement
<1>4. semaphore = Cardinality(Over)
  BY DEF IInv, Counted
<1> QED BY <1>1, <1>2, <1>3, <1>4 DEF Counted

-----------------------------------------------------------------------------
(* Descriptors.                                                            *)

LEMMA AcceptIInv == ASSUME IInv, Accept PROVE IInv'
<1>1. PICK s \in Sessions, fd \in Fds :
        /\ thread[s] = "none" /\ Open(fd, Client(s))
        /\ tcpSock' = [tcpSock EXCEPT ![s] = fd]
        /\ \E t \in {"running", "failed"} : thread' = [thread EXCEPT ![s] = t]
        /\ UNCHANGED <<listening, pc, nType, sock, g_sSend, semaphore,
                       stopRecv, mixed, foreign>>
  BY DEF Accept, session, history
<1>2. own[fd] = Free /\ own' = [own EXCEPT ![fd] = Client(s)]
  BY <1>1 DEF Open, FreeFds
<1>3. TypeOK /\ Counted /\ Apart /\ Holders /\ Sound
  BY DEF IInv
<1>4. Counted' /\ semaphore' \in 0 .. MaxSess
  BY <1>1, <1>3, CountKept DEF TypeOK
<1>5. TypeOK'
  BY <1>1, <1>2, <1>3, <1>4 DEF TypeOK, Client
<1>6. Holders'
  BY <1>1, <1>2, <1>3 DEF Holders, TypeOK, Client
<1>7. Sound'
  BY <1>1, <1>2, <1>3 DEF Sound, Quiet, Alone, Holds, Running, TypeOK, Client, FileServer, Free
<1>8. Apart'
  BY <1>1, <1>2, <1>3 DEF Apart, TypeOK, Free
<1> QED BY <1>4, <1>5, <1>6, <1>7, <1>8 DEF IInv

LEMMA AcceptFailsIInv == ASSUME IInv, AcceptFails PROVE IInv'
<1>1. TypeOK /\ Counted /\ Apart /\ Holders /\ Sound
  BY DEF IInv
<1>2. /\ listening /\ listening' = FALSE /\ own' = [own EXCEPT ![Listener] = Free]
      /\ UNCHANGED <<thread, tcpSock, pc, nType, sock, g_sSend, semaphore,
                     stopRecv, mixed, foreign>>
  BY DEF AcceptFails, session, history
<1>3. Counted' /\ semaphore' \in 0 .. MaxSess
  BY <1>1, <1>2, CountKept DEF TypeOK
<1>4. TypeOK'
  BY <1>1, <1>2, <1>3 DEF TypeOK, Free
<1>5. Holders'
  BY <1>1, <1>2 DEF Holders, TypeOK, Client, Free
<1>6. Sound'
  BY <1>1, <1>2 DEF Sound, Quiet, Alone, Holds, Running, Apart, TypeOK, Client, FileServer
<1>7. Apart'
  BY <1>2 DEF Apart
<1> QED BY <1>3, <1>4, <1>5, <1>6, <1>7 DEF IInv

LEMMA OthersOpenIInv == ASSUME IInv, OthersOpen PROVE IInv'
<1>1. PICK fd \in Fds : own[fd] = Free /\ own' = [own EXCEPT ![fd] = Other]
  BY DEF OthersOpen, Open, FreeFds
<1>2. UNCHANGED <<listening, thread, tcpSock, pc, nType, sock, g_sSend, semaphore,
                  stopRecv, mixed, foreign>>
  BY DEF OthersOpen, session, history
<1>3. TypeOK /\ Counted /\ Apart /\ Holders /\ Sound
  BY DEF IInv
<1>4. Counted' /\ semaphore' \in 0 .. MaxSess
  BY <1>2, <1>3, CountKept DEF TypeOK
<1>5. TypeOK'
  BY <1>1, <1>2, <1>3, <1>4 DEF TypeOK
<1>6. Holders' /\ Sound'
  BY <1>1, <1>2, <1>3 DEF Holders, Sound, Quiet, Alone, Holds, Running, TypeOK,
                          Client, FileServer, Free, Other
<1>7. Apart'
  BY <1>1, <1>2, <1>3 DEF Apart, TypeOK, Free
<1> QED BY <1>4, <1>5, <1>6, <1>7 DEF IInv

LEMMA OthersCloseIInv == ASSUME IInv, OthersClose PROVE IInv'
<1>1. PICK fd \in Fds : own[fd] = Other /\ own' = [own EXCEPT ![fd] = Free]
  BY DEF OthersClose
<1>2. UNCHANGED <<listening, thread, tcpSock, pc, nType, sock, g_sSend, semaphore,
                  stopRecv, mixed, foreign>>
  BY DEF OthersClose, session, history
<1>3. TypeOK /\ Counted /\ Apart /\ Holders /\ Sound
  BY DEF IInv
<1>4. Counted' /\ semaphore' \in 0 .. MaxSess
  BY <1>2, <1>3, CountKept DEF TypeOK
<1>5. TypeOK'
  BY <1>1, <1>2, <1>3, <1>4 DEF TypeOK
<1>6. Holders' /\ Sound'
  BY <1>1, <1>2, <1>3 DEF Holders, Sound, Quiet, Alone, Holds, Running, TypeOK,
                          Client, FileServer, Free, Other
<1>7. Apart'
  BY <1>1, <1>2, <1>3 DEF Apart, TypeOK, Other
<1> QED BY <1>4, <1>5, <1>6, <1>7 DEF IInv

\* A thread closes numbers: what it may close if no request is mixed is its own.
LEMMA Closes ==
    ASSUME IInv, NEW s \in Sessions, NEW fds, Close(s, fds),
           Quiet => fds \subseteq Fds /\ \A fd \in fds : own[fd] \in {Client(s), FileServer(s)}
    PROVE  /\ own' = Closed(fds) /\ foreign' \in BOOLEAN
           /\ Quiet => ~foreign'
           /\ own' \in [Fds -> {Free, Other, <<"listener", 0>>}
                                \cup {Client(c) : c \in Sessions}
                                \cup {FileServer(c) : c \in Sessions}]
           /\ \A fd \in Fds, c \in Sessions : own'[fd] = Client(c) => own[fd] = Client(c)
           /\ Quiet => \A fd \in Fds, c \in Sessions \ {s} :
                          own[fd] \in {Client(c), FileServer(c)} => own'[fd] = own[fd]
<1>1. TypeOK /\ Sound
  BY DEF IInv
<1>2. /\ own' = Closed(fds)
      /\ foreign' = (foreign \/ \E fd \in fds \cap Fds :
                                   own[fd] \notin {Free, Client(s), FileServer(s)})
  BY DEF Close
<1>3. Quiet => ~foreign'
  BY <1>1, <1>2 DEF Sound
<1>4. foreign' \in BOOLEAN
  BY <1>1, <1>2 DEF TypeOK
<1>5. \A fd \in Fds, c \in Sessions : own'[fd] = Client(c) => own[fd] = Client(c)
  BY <1>2 DEF Closed, Client, Free
<1>6. own' \in [Fds -> {Free, Other, <<"listener", 0>>}
                        \cup {Client(c) : c \in Sessions}
                        \cup {FileServer(c) : c \in Sessions}]
  BY <1>1, <1>2 DEF TypeOK, Closed
<1>7. Quiet => \A fd \in Fds, c \in Sessions \ {s} :
                  own[fd] \in {Client(c), FileServer(c)} => own'[fd] = own[fd]
  BY <1>2 DEF Closed, Client, FileServer
<1> QED BY <1>2, <1>3, <1>4, <1>5, <1>6, <1>7

LEMMA ClosedApart ==
    ASSUME IInv, listening, NEW fds, Listener \notin fds, own' = Closed(fds)
    PROVE  own'[Listener] = <<"listener", 0>>
<1>1. Listener \in Fds
  BY BoundAssumption DEF Fds, Listener
<1> QED BY <1>1 DEF IInv, Apart, Closed

\* What a thread closes when it ends: its client's socket, and with a failed
\* transfer the connection it was on.
LEMMA EndIInv ==
    ASSUME IInv, NEW s \in Sessions, NEW also, Running(s), End(s, also),
           also = {} \/ (pc[s] = "reply" /\ also = {sock[s]})
    PROVE  IInv'
<1> DEFINE fds == {tcpSock[s]} \cup also
<1>1. TypeOK /\ Counted /\ Apart /\ Holders /\ Sound
  BY DEF IInv
<1>2. /\ Close(s, fds)
      /\ thread' = [thread EXCEPT ![s] = "over"]
      /\ pc' = [pc EXCEPT ![s] = "command"] /\ nType' = [nType EXCEPT ![s] = 0]
      /\ tcpSock' = [tcpSock EXCEPT ![s] = NoFd] /\ sock' = [sock EXCEPT ![s] = NoFd]
      /\ UNCHANGED <<listening, stopRecv, mixed, g_sSend>>
  BY DEF End, ClosedAtEnd, Goto
<1>3. tcpSock[s] \in fds
      /\ \A fd \in fds : fd = tcpSock[s] \/ (pc[s] = "reply" /\ fd = sock[s])
  OBVIOUS
<1>4. Counted' /\ semaphore' \in 0 .. MaxSess
  BY CountEnd
<1> HIDE DEF fds
<1>5. ASSUME Quiet
      PROVE  fds \subseteq Fds /\ \A fd \in fds : own[fd] \in {Client(s), FileServer(s)}
  BY <1>1, <1>3, <1>5 DEF Sound, Holds
<1>6. /\ own' = Closed(fds) /\ foreign' \in BOOLEAN
      /\ Quiet => ~foreign'
      /\ own' \in [Fds -> {Free, Other, <<"listener", 0>>}
                           \cup {Client(c) : c \in Sessions}
                           \cup {FileServer(c) : c \in Sessions}]
      /\ \A fd \in Fds, c \in Sessions : own'[fd] = Client(c) => own[fd] = Client(c)
      /\ Quiet => \A fd \in Fds, c \in Sessions \ {s} :
                     own[fd] \in {Client(c), FileServer(c)} => own'[fd] = own[fd]
  BY <1>2, <1>5, Closes
<1>7. TypeOK'
  BY <1>1, <1>2, <1>4, <1>6 DEF TypeOK, NoFd
<1>8. Holders'
  <2> SUFFICES ASSUME NEW fd \in Fds, NEW c \in Sessions, own'[fd] = Client(c)
               PROVE  thread'[c] \in {"running", "failed"} /\ tcpSock'[c] = fd
    BY DEF Holders
  <2>1. own[fd] = Client(c) /\ fd \notin fds
    BY <1>6 DEF Closed, Client, Free
  <2>2. thread[c] \in {"running", "failed"} /\ tcpSock[c] = fd
    BY <1>1, <2>1 DEF Holders
  <2>3. c # s
    BY <1>3, <2>1, <2>2
  <2> QED BY <1>1, <1>2, <2>2, <2>3 DEF TypeOK
<1>9. Apart'
  <2> SUFFICES ASSUME listening PROVE Apart'
    BY <1>2 DEF Apart
  <2>1. Listener # NoFd /\ Listener \notin fds
    BY <1>1, <1>3 DEF Listener, NoFd, Apart
  <2>2. own'[Listener] = <<"listener", 0>>
    BY <1>6, <2>1, ClosedApart
  <2> QED BY <1>1, <1>2, <2>1, <2>2 DEF Apart, TypeOK
<1>10. Sound'
  <2> SUFFICES ASSUME Quiet PROVE ~foreign' /\ Alone' /\ \A c \in Sessions : Holds(c)'
    BY <1>2 DEF Sound, Quiet
  <2>1. Alone /\ \A c \in Sessions : Holds(c)
    BY <1>1 DEF Sound
  <2>2. Alone'
    BY <1>1, <1>2, <2>1 DEF Alone, TypeOK
  <2>3. ASSUME NEW c \in Sessions PROVE Holds(c)'
    <3>1. CASE c = s
      BY <1>1, <1>2, <3>1 DEF Holds, Running, TypeOK
    <3>2. CASE c # s
      <4>1. /\ thread'[c] = thread[c] /\ tcpSock'[c] = tcpSock[c] /\ nType'[c] = nType[c]
            /\ pc'[c] = pc[c] /\ sock'[c] = sock[c] /\ g_sSend' = g_sSend
        BY <1>1, <1>2, <3>2 DEF TypeOK
      <4>2. \A fd \in Fds : own[fd] \in {Client(c), FileServer(c)} => own'[fd] = own[fd]
        BY <1>6, <3>2
      <4> QED BY <2>1, <4>1, <4>2 DEF Holds, Running
    <3> QED BY <3>1, <3>2
  <2> QED BY <1>6, <2>2, <2>3
<1> QED BY <1>4, <1>7, <1>8, <1>9, <1>10 DEF IInv

\* A request begins; if none is mixed no other is under way.
LEMMA RequestSendIInv ==
    ASSUME IInv, NEW s \in Sessions, RequestSend(s) PROVE IInv'
<1>1. /\ Running(s) /\ mixed' = (mixed \/ Senders # {})
      /\ nType' = [nType EXCEPT ![s] = 1] /\ pc' = [pc EXCEPT ![s] = "wait"]
      /\ UNCHANGED <<own, listening, thread, tcpSock, sock, g_sSend, semaphore,
                     stopRecv, foreign>>
  BY DEF RequestSend, Command, Goto
<1>2. TypeOK /\ Counted /\ Apart /\ Holders /\ Sound
  BY DEF IInv
<1>3. Counted' /\ semaphore' \in 0 .. MaxSess
  BY <1>1, <1>2, CountKept DEF TypeOK
<1>4. TypeOK' /\ Holders' /\ Apart'
  BY <1>1, <1>2, <1>3 DEF TypeOK, Holders, Apart
<1>5. Sound'
  <2> SUFFICES ASSUME Quiet' PROVE ~foreign' /\ Alone' /\ \A c \in Sessions : Holds(c)'
    BY DEF Sound
  <2>1. Quiet /\ Senders = {}
    BY <1>1, <1>2 DEF Quiet, TypeOK
  <2>2. ~foreign /\ \A c \in Sessions : Holds(c) /\ nType[c] # 1
    BY <1>2, <2>1 DEF Sound, Holds, Senders
  <2> QED BY <1>1, <1>2, <2>2 DEF Alone, Holds, Running, TypeOK
<1> QED BY <1>3, <1>4, <1>5 DEF IInv

\* A step of the one client that is in a request or a transfer.
LEMMA SenderIInv ==
    ASSUME IInv, TypeOK', NEW s \in Sessions, pc[s] # "command", Running(s),
           UNCHANGED <<listening, thread, tcpSock, semaphore, stopRecv>>,
           NEW label, pc' = [pc EXCEPT ![s] = label],
           NEW now, nType' = [nType EXCEPT ![s] = now],
           sock' \in {sock, [sock EXCEPT ![s] = NoFd]},
           mixed => mixed',
           \A fd \in Fds, c \in Sessions : own'[fd] = Client(c) => own[fd] = Client(c),
           listening => own'[Listener] = own[Listener] /\ g_sSend' # Listener,
           Quiet' => ~foreign' /\ Holds(s)',
           Quiet' => \A fd \in Fds, c \in Sessions \ {s} :
                        own[fd] = Client(c) => own'[fd] = Client(c)
    PROVE  IInv'
<1>1. TypeOK /\ Counted /\ Apart /\ Holders /\ Sound
  BY DEF IInv
<1>2. Counted'
  BY <1>1, CountKept
<1>3. Holders'
  BY <1>1 DEF Holders
<1>4. Apart'
  BY <1>1 DEF Apart, TypeOK, Listener, NoFd
<1>5. Sound'
  <2> SUFFICES ASSUME Quiet' PROVE ~foreign' /\ Alone' /\ \A c \in Sessions : Holds(c)'
    BY DEF Sound
  <2>1. Quiet
    BY <1>1 DEF Quiet, TypeOK
  <2>2. Alone /\ \A c \in Sessions : Holds(c)
    BY <1>1, <2>1 DEF Sound
  <2>3. \A c \in Sessions \ {s} : nType[c] # 1 /\ nType'[c] = nType[c] /\ pc'[c] = pc[c]
    BY <1>1, <2>2 DEF Alone, Holds, TypeOK
  <2>4. Alone'
    BY <2>3 DEF Alone
  <2>5. ASSUME NEW c \in Sessions \ {s} PROVE Holds(c)'
    BY <2>2, <2>3 DEF Holds, Running
  <2> QED BY <2>4, <2>5
<1> QED BY <1>2, <1>3, <1>4, <1>5 DEF IInv

LEMMA RefusedIInv ==
    ASSUME IInv, NEW s \in Sessions, Refused(s) PROVE IInv'
<1>0. PICK now \in {0, 1} :
        /\ Running(s) /\ pc[s] = "wait" /\ pc' = [pc EXCEPT ![s] = "command"]
        /\ nType' = [nType EXCEPT ![s] = now] /\ mixed' = (mixed \/ now # 0)
        /\ g_sSend' \in {g_sSend, NoFd}
        /\ UNCHANGED <<own, listening, thread, tcpSock, sock, semaphore, stopRecv, foreign>>
  BY DEF Refused, Decided, Goto
<1>1. TypeOK /\ Apart /\ Sound
  BY DEF IInv
<1>2. NoFd # Listener /\ NoFd \notin Fds
  BY DEF NoFd, Listener, Fds
<1>3. Quiet' => Quiet
  BY <1>1, <1>0 DEF Quiet, TypeOK
<1>4. Quiet => Holds(s) /\ nType[s] = 1 /\ ~foreign
  BY <1>1, <1>0 DEF Sound, Holds
<1>5. TypeOK'
  BY <1>0, <1>1 DEF TypeOK
<1>6. Quiet' => ~foreign' /\ Holds(s)'
  <2>1. Quiet' => nType'[s] = 0 /\ pc'[s] = "command" /\ foreign' = foreign
    BY <1>0, <1>1 DEF Quiet, TypeOK
  <2>2. Quiet' => tcpSock[s] \in Fds /\ own[tcpSock[s]] = Client(s)
    BY <1>0, <1>3, <1>4 DEF Holds
  <2> QED BY <1>0, <1>3, <1>4, <2>1, <2>2 DEF Holds
<1>7. listening => own'[Listener] = own[Listener] /\ g_sSend' # Listener
  BY <1>0, <1>1, <1>2 DEF Apart
<1>8. pc[s] # "command" /\ (mixed => mixed')
  BY <1>0
<1> QED BY <1>0, <1>5, <1>6, <1>7, <1>8, SenderIInv

LEMMA OpenServerIInv ==
    ASSUME IInv, NEW s \in Sessions, OpenServer(s) PROVE IInv'
<1>0. PICK fd \in Fds :
        /\ Running(s) /\ pc[s] = "wait" /\ pc' = [pc EXCEPT ![s] = "connect"]
        /\ own[fd] = Free /\ own' = [own EXCEPT ![fd] = FileServer(s)]
        /\ g_sSend' = fd
        /\ UNCHANGED <<listening, thread, tcpSock, nType, sock, semaphore,
                       stopRecv, mixed, foreign>>
  BY DEF OpenServer, Open, FreeFds, Goto, history
<1>1. TypeOK /\ Apart /\ Sound
  BY DEF IInv
<1>2. NoFd # Listener /\ NoFd \notin Fds
  BY DEF NoFd, Listener, Fds
<1>3. Quiet' => Quiet
  BY <1>1, <1>0 DEF Quiet, TypeOK
<1>4. Quiet => Holds(s) /\ nType[s] = 1 /\ ~foreign
  BY <1>1, <1>0 DEF Sound, Holds
<1>5. TypeOK'
  BY <1>0, <1>1 DEF TypeOK
<1>6. Quiet' => ~foreign' /\ Holds(s)'
  BY <1>0, <1>1, <1>3, <1>4 DEF Holds, Running, TypeOK, Client, FileServer, Free
<1>7. listening => own'[Listener] = own[Listener] /\ g_sSend' # Listener
  BY <1>0, <1>1 DEF Apart, TypeOK, Free
<1>8. pc[s] # "command" /\ (mixed => mixed') /\ nType' = [nType EXCEPT ![s] = nType[s]]
  BY <1>0, <1>1 DEF TypeOK
<1>9. \A f \in Fds, c \in Sessions : own'[f] = Client(c) <=> own[f] = Client(c)
  BY <1>0, <1>1 DEF TypeOK, Client, FileServer, Free
<1>10. /\ \A f \in Fds, c \in Sessions : own'[f] = Client(c) => own[f] = Client(c)
       /\ Quiet' => \A f \in Fds, c \in Sessions \ {s} :
                       own[f] = Client(c) => own'[f] = Client(c)
       /\ sock' \in {sock, [sock EXCEPT ![s] = NoFd]}
       /\ UNCHANGED <<listening, thread, tcpSock, semaphore, stopRecv>>
       /\ Running(s) /\ pc' = [pc EXCEPT ![s] = "connect"]
  BY <1>0, <1>9
<1> QED BY ONLY IInv, s \in Sessions, <1>5, <1>6, <1>7, <1>8, <1>10, SenderIInv

LEMMA ConnectedIInv ==
    ASSUME IInv, NEW s \in Sessions, Connected(s) PROVE IInv'
<1>0. PICK now \in {0, 1} :
        /\ Running(s) /\ pc[s] = "connect" /\ pc' = [pc EXCEPT ![s] = "command"]
        /\ nType' = [nType EXCEPT ![s] = now] /\ mixed' = (mixed \/ now # 1)
        /\ UNCHANGED <<own, listening, thread, tcpSock, sock, g_sSend, semaphore,
                       stopRecv, foreign>>
  BY DEF Connected, Decided, Goto
<1>1. TypeOK /\ Apart /\ Sound
  BY DEF IInv
<1>2. NoFd # Listener /\ NoFd \notin Fds
  BY DEF NoFd, Listener, Fds
<1>3. Quiet' => Quiet
  BY <1>1, <1>0 DEF Quiet, TypeOK
<1>4. Quiet => Holds(s) /\ nType[s] = 1 /\ ~foreign
  BY <1>1, <1>0 DEF Sound, Holds
<1>5. TypeOK'
  BY <1>0, <1>1 DEF TypeOK
<1>6. Quiet' => ~foreign' /\ Holds(s)'
  BY <1>0, <1>1, <1>3, <1>4 DEF Holds, Running, TypeOK
<1>7. listening => own'[Listener] = own[Listener] /\ g_sSend' # Listener
  BY <1>0, <1>1 DEF Apart
<1>8. pc[s] # "command" /\ (mixed => mixed')
  BY <1>0
<1> QED BY <1>0, <1>5, <1>6, <1>7, <1>8, SenderIInv

\* A failed connection closes its own number, if no request is mixed.
LEMMA ConnectFailsIInv ==
    ASSUME IInv, NEW s \in Sessions, ConnectFails(s) PROVE IInv'
<1>0. PICK now \in {0, 1} :
        /\ Running(s) /\ pc[s] = "connect" /\ pc' = [pc EXCEPT ![s] = "command"]
        /\ nType' = [nType EXCEPT ![s] = now] /\ mixed' = (mixed \/ now # 0)
        /\ Close(s, {g_sSend}) /\ g_sSend' = NoFd
        /\ UNCHANGED <<listening, thread, tcpSock, sock, semaphore, stopRecv>>
  BY DEF ConnectFails, Decided, Goto
<1>1. TypeOK /\ Apart /\ Sound
  BY DEF IInv
<1>2. NoFd # Listener /\ NoFd \notin Fds
  BY DEF NoFd, Listener, Fds
<1>3. Quiet' => Quiet
  BY <1>1, <1>0 DEF Quiet, TypeOK
<1>4. Quiet => Holds(s) /\ nType[s] = 1 /\ ~foreign
  BY <1>1, <1>0 DEF Sound, Holds
<1>5. Quiet => /\ {g_sSend} \subseteq Fds
               /\ \A fd \in {g_sSend} : own[fd] \in {Client(s), FileServer(s)}
  BY <1>0, <1>4 DEF Holds
<1>6. /\ own' = Closed({g_sSend}) /\ foreign' \in BOOLEAN
      /\ Quiet => ~foreign'
      /\ own' \in [Fds -> {Free, Other, <<"listener", 0>>}
                           \cup {Client(c) : c \in Sessions}
                           \cup {FileServer(c) : c \in Sessions}]
      /\ \A fd \in Fds, c \in Sessions : own'[fd] = Client(c) => own[fd] = Client(c)
      /\ Quiet => \A fd \in Fds, c \in Sessions \ {s} :
                     own[fd] \in {Client(c), FileServer(c)} => own'[fd] = own[fd]
  BY <1>0, <1>5, Closes
<1>7. TypeOK'
  BY <1>0, <1>1, <1>6 DEF TypeOK
<1>8. Quiet' => ~foreign' /\ Holds(s)'
  <2> SUFFICES ASSUME Quiet' PROVE ~foreign' /\ Holds(s)'
    OBVIOUS
  <2>1. tcpSock[s] \in Fds /\ own[tcpSock[s]] = Client(s) /\ own[g_sSend] = FileServer(s)
    BY <1>0, <1>3, <1>4 DEF Holds
  <2>2. own'[tcpSock[s]] = Client(s)
    BY <1>6, <2>1 DEF Closed, Client, FileServer
  <2>3. nType'[s] = 0 /\ pc'[s] = "command"
    BY <1>0, <1>1 DEF Quiet, TypeOK
  <2> QED BY <1>0, <1>3, <1>6, <2>1, <2>2, <2>3 DEF Holds
<1>9. listening => own'[Listener] = own[Listener] /\ g_sSend' # Listener
  BY <1>0, <1>1, <1>2, <1>6, ClosedApart DEF Apart
<1>10. /\ pc[s] # "command" /\ (mixed => mixed') /\ sock' \in {sock}
       /\ Quiet' => \A fd \in Fds, c \in Sessions \ {s} :
                       own[fd] = Client(c) => own'[fd] = Client(c)
  BY <1>0, <1>3, <1>6
<1> QED BY <1>0, <1>6, <1>7, <1>8, <1>9, <1>10, SenderIInv

LEMMA SentIInv ==
    ASSUME IInv, NEW s \in Sessions, Sent(s) PROVE IInv'
<1>0. PICK now \in {0, 1} :
        /\ Running(s) /\ pc[s] = "reply" /\ pc' = [pc EXCEPT ![s] = "command"]
        /\ nType' = [nType EXCEPT ![s] = now] /\ sock' = [sock EXCEPT ![s] = NoFd]
        /\ UNCHANGED <<own, listening, thread, tcpSock, g_sSend, semaphore,
                       stopRecv, mixed, foreign>>
  BY DEF Sent, Goto, history
<1>1. TypeOK /\ Apart /\ Sound
  BY DEF IInv
<1>2. NoFd # Listener /\ NoFd \notin Fds
  BY DEF NoFd, Listener, Fds
<1>3. Quiet' => Quiet
  BY <1>1, <1>0 DEF Quiet, TypeOK
<1>4. Quiet => Holds(s) /\ nType[s] = 1 /\ ~foreign
  BY <1>1, <1>0 DEF Sound, Holds
<1>5. TypeOK'
  BY <1>0, <1>1 DEF TypeOK
<1>6. Quiet' => ~foreign' /\ Holds(s)'
  BY <1>0, <1>1, <1>3, <1>4 DEF Holds, Running, TypeOK
<1>7. listening => own'[Listener] = own[Listener] /\ g_sSend' # Listener
  BY <1>0, <1>1 DEF Apart
<1>8. pc[s] # "command" /\ (mixed => mixed')
  BY <1>0
<1> QED BY <1>0, <1>5, <1>6, <1>7, <1>8, SenderIInv

LEMMA SendIInv ==
    ASSUME IInv, NEW s \in Sessions, Send(s) PROVE IInv'
<1>1. /\ nType[s] = 1 /\ pc[s] = "command"
      /\ sock' = [sock EXCEPT ![s] = g_sSend] /\ pc' = [pc EXCEPT ![s] = "reply"]
      /\ UNCHANGED <<own, listening, thread, tcpSock, nType, g_sSend, semaphore,
                     stopRecv, mixed, foreign>>
  BY DEF Send, Command, Goto, history
<1>2. TypeOK /\ Counted /\ Apart /\ Holders /\ Sound
  BY DEF IInv
<1>3. Counted' /\ semaphore' \in 0 .. MaxSess
  BY <1>1, <1>2, CountKept DEF TypeOK
<1>4. TypeOK' /\ Holders'
  BY <1>1, <1>2, <1>3 DEF TypeOK, Holders
<1>5. Apart'
  BY <1>1, <1>2 DEF Apart, TypeOK
<1>6. Sound'
  BY <1>1, <1>2 DEF Sound, Quiet, Alone, Holds, Running, TypeOK
<1> QED BY <1>3, <1>4, <1>5, <1>6 DEF IInv

LEMMA StopRecvIInv ==
    ASSUME IInv, NEW s \in Sessions, StopRecv(s) PROVE IInv'
<1>1. /\ own' = Closed({tcpSock[s]}) /\ foreign' \in BOOLEAN /\ stopRecv' = TRUE
      /\ UNCHANGED <<listening, thread, tcpSock, pc, nType, sock, g_sSend, semaphore, mixed>>
  BY DEF StopRecv, Close, IInv, TypeOK, session
<1>2. TypeOK /\ Counted /\ Apart /\ Holders
  BY DEF IInv
<1>3. Counted' /\ semaphore' \in 0 .. MaxSess
  BY <1>1, <1>2, CountKept DEF TypeOK
<1>4. TypeOK'
  BY <1>1, <1>2, <1>3 DEF TypeOK, Closed
<1>5. Holders'
  BY <1>1, <1>2 DEF Holders, Closed, Client, Free
<1>6. Apart'
  <2>1. Listener \in Fds
    BY BoundAssumption DEF Fds, Listener
  <2> QED BY <1>1, <1>2, <2>1 DEF Apart, Closed
<1>7. Sound'
  BY <1>1 DEF Sound, Quiet
<1> QED BY <1>3, <1>4, <1>5, <1>6, <1>7 DEF IInv

LEMMA StepIInv == ASSUME IInv, [Next]_vars PROVE IInv'
<1>1. CASE Accept \/ AcceptFails
  BY <1>1, AcceptIInv, AcceptFailsIInv
<1>2. CASE OthersOpen \/ OthersClose
  BY <1>2, OthersOpenIInv, OthersCloseIInv
<1>3. ASSUME NEW s \in Sessions, Session(s) PROVE IInv'
  <2>1. CASE Leave(s)
    BY <2>1, EndIInv DEF Leave
  <2>2. CASE SendFails(s)
    BY <2>2, EndIInv DEF SendFails
  <2>3. CASE RequestSend(s) \/ Refused(s) \/ OpenServer(s) \/ Connected(s)
             \/ ConnectFails(s)
    BY <2>3, RequestSendIInv, RefusedIInv, OpenServerIInv, ConnectedIInv, ConnectFailsIInv
  <2>4. CASE Send(s) \/ Sent(s) \/ StopRecv(s)
    BY <2>4, SendIInv, SentIInv, StopRecvIInv
  <2> QED BY <1>3, <2>1, <2>2, <2>3, <2>4 DEF Session
<1>4. CASE UNCHANGED vars
  BY <1>4 DEF vars, session, history, IInv, TypeOK, Counted, Over, Apart, Holders, Sound,
              Quiet, Alone, Holds, Running
<1> QED BY <1>1, <1>2, <1>3, <1>4 DEF Next

THEOREM Inductive == Spec => []IInv
BY InitIInv, StepIInv, PTL DEF Spec

-----------------------------------------------------------------------------
(* Each variable has its type, and the semaphore, which the loop no longer *)
(* waits for, is never released more often than there were clients.        *)
THEOREM PoolTypes == Spec => []TypeOK
BY Inductive, PTL DEF IInv

(* A client's socket is closed when its thread is over, even if a          *)
(* GW_FAX_STOPRECV has closed it before.                                   *)
THEOREM NoClientLeft == Spec => []ClientsClosed
<1>1. IInv => ClientsClosed
  BY DEF IInv, Holders, ClientsClosed
<1> QED BY <1>1, Inductive, PTL

(* As long as there is no GW_FAX_STOPRECV and no two requests are mixed,   *)
(* the threads hold the descriptors they think they hold, however often    *)
(* the numbers are given again.  (FileSession.cpp:870, 1110, 1131)         *)
THEOREM HoldOneAtATime == Spec => []NumbersHold
<1>1. IInv => NumbersHold
  BY DEF IInv, Sound, Quiet, Holds, NumbersHold
<1> QED BY <1>1, Inductive, PTL

(* ... and close no others, in a failed request or transfer neither.       *)
THEOREM CloseTheirOwn == Spec => []OwnOnly
<1>1. IInv => OwnOnly
  BY DEF IInv, Sound, Quiet, TypeOK, OwnOnly
<1> QED BY <1>1, Inductive, PTL
=============================================================================
