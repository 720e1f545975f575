# A TLA+ model of the fax gateway faxgw2

The gateway (`src/faxgw2`, C++, a Windows program ported to Linux) stands
between a fax center and a number of clients in an office.  It keeps one TCP
connection to the center, accepts TCP connections of clients, fetches received
faxes from file servers and hands outgoing ones to them.  The repository has no
tests and no description of the protocol other than the code's comments; the
modules here are translated from the code.

## 1. The system

### Threads

| thread | code | what it does |
|---|---|---|
| main | `faxgw.cpp:29-74` | connects, logs in, then every 5 s `onKeepAlive`, which also reconnects |
| receiver | `MsgReceiver`, `faxgw.cpp:225-321` | reads the center's connection, frames it, dispatches to `TcpSession::onReceive` |
| listen | `FileSession::MainThreadProc`, `FileSession.cpp:488-560` | `SearchFile` once, then `accept` for ever |
| client | `TCPSThreadProc`, one per client, `FileSession.cpp:2044-2188` | reads one client's commands, dispatches to `ReceivePacketEx` (1249-1755) |
| download | `ReceiveFax`, one per fax, `TcpSession.cpp:1418-1521` | fetches one fax from a file server |

They share, with one lock in the whole program (`g_csRecvList`):

* the center's session: `m_tcpSock`, `m_bIsLogin`, `m_nWaitAlive`, `g_hRecvEvent`
  (main, receiver, and every thread that sends);
* the queue of received faxes: `g_lsRecvFax` (locked), `g_nReceive` (its length,
  not always locked), and the files `TID.ini`, `TID.ted`, `TID.tif` of the data
  directory (listen, receiver, download, client);
* the answer to a request to send: `g_hSendRequest`, `g_bySendCode`, `g_strUUID`
  and the connection to the file server, `g_sSend` (receiver, every client);
* the key register of the cipher (`KnL` in `d3des.cpp`; every thread);
* the numbers of descriptors: a socket is passed around and kept as a number
  (every thread).

### Components

**CenterLink** - the connection to the center (`TcpSession.cpp`, `faxgw.cpp`).
State: the session variables above, the receiver's parser.  Operations:
`connect`, `Close`, `ReadData`, `sendDirect`, `onLogin`, `onLoginReply`,
`onKeepAlive`, the alive reply.  Hard: none of it is locked; two threads call
`Close`; the receiver must be woken out of `recv()` by `shutdown()` and out of
its event by `SetEvent`; a descriptor number is reused by other threads as soon
as it is closed; a reply can outlive its connection.  Correct: a connection that
is up is being read; none is forgotten; no other thread's socket is closed; once
the network is good the gateway is logged in and stays so; the login state told
to clients is that of the present connection.

**FaxQueue** - faxes waiting for a client (`FileSession.cpp`,
`TcpSession.cpp`).  State: the list, its counter, the lock, the files.
Operations: the scan at the start, a download's append, a cancellation by the
center, `GW_FAX_REQUESTRECV`.  Hard: the counter is kept beside the list by
three kinds of thread, once without the lock; the scan runs while downloads may
already start; the lock is held across a send to a client; the process can die
between any two file operations.  Correct: the count is the length; no fax is
handed over twice, or stranded, or handed over without its files; every fax is
taken if the clients ask; every request is answered.

**SendSession** - sending a fax (`FileSession.cpp`, `TcpSession.cpp`).  State:
each client's `nType`, the global answer and its event, `g_sSend`.  Operations:
`GW_FAX_REQUESTSEND` with `onSendRequest`, `ConnectFileSrv` and
`onSendRequestReply`; `GW_FAX_SEND`; `GW_FAX_STOPSEND`; `GetRSAPacket`.  Hard:
one event and one answer for all clients, a 5 s and a 3 s timeout with late
answers, one file-server connection.  Correct: a client gets the job it asked
for; what it is told is complete is stored; its state and what it was told
agree; a request ends.

**FaxDownload** - receiving a fax (`TcpSession.cpp:517-564, 1071-1521`).
State: the record of the fax, its file handle, the socket to the file server,
the three files.  Hard: the record is used after it was queued (and may be
deleted by a client); the same TID announced twice runs twice; a block or a copy
that cannot be written; a crash between any two calls on files.  Correct: a
queued fax is the whole document with its own description; a record has one
owner and is freed once; a download ends.

**ClientSession** - the other commands of a client (login, keepalive, status,
`GW_FAX_RECV`, `GW_FAX_STOPRECV`).  `bIsLogin` of a client is set and never
looked at; `GW_FAX_RECV` is refused in every state that can be reached.  Hard: a
command that closes the socket of a loop that goes on.

**ClientPool** - the listen loop and the threads it starts.  State: the
descriptors, the threads with their `tcpSock` and `nType`, `g_sSend`, the
semaphore.  Hard: the wait on the semaphore is commented out and its releases
are not; `accept` failing once ends the service; numbers of closed descriptors
are reused at once.  Correct: a thread closes its own sockets and nothing else,
whichever way it ends.

**FrameReader** - the four parsers of the framed byte streams (center, client,
two for file servers).  State: the automaton (`ntype`, `m_byLastChar`, header,
packet).  Hard: frames split and joined arbitrarily, the start mark inside a
frame, rests of buffers dropped by two of them, a parser that is not reset when
a connection is replaced, an answer that comes after its wait.  Correct:
whatever the cuts, the frames that were sent are the frames dispatched, and a
reader that has lost its place finds it with its next start.

**PacketCodec** - fields of a packet (`packet.cpp`, `tcppacket.cpp`).  Correct:
what was written is read; reading stops at the end.

**WinEvent** - events, mutexes, semaphores, threads of Windows on pthreads
(`linux_compat.cpp`).  Hard: a mutex, a condition variable and a flag make an
event, with spurious wake-ups and a time-out that races the broadcast.  Correct:
an auto-reset event releases one waiter, no wake-up is lost, a timeout is one
only if the event was not set.

**IniStore** - profile files (`linux_compat.cpp`, `rwini.cpp`).  Hard: each
write rewrites the whole file.  Correct: what was written is read, whatever a
crash left of the file.

**DES** - the cipher (`d3des.cpp`).  State: the key register, one static array.
Hard: `deskey` fills it for one direction and `des` reads it, in several threads
and without a lock.  Correct: a packet that is encrypted is the one the peer
decrypts.

**Checksums and compression**, **Log** - pure or vendored, the last one output
only.  **Unused servers** - the old `ReceivePacket` of the client
protocol (`FileSession.cpp:1757-2041`), `TCPCThreadProc`, `UDPThreadProc`,
pausing: called from nowhere.

### Interactions

CenterLink carries the requests of SendSession (`onSendRequest` needs
`m_bIsLogin`) and the packets that start a download or cancel a fax; FaxDownload
fills FaxQueue, ClientSession empties it; all of them rest on WinEvent,
FrameReader, PacketCodec and DES, and all sockets are numbers of ClientPool's
table.  Each module below models its component whole and
abstracts its neighbour to what it can do: CenterLink has a thread `tx` that
sends when it has seen a login; SendSession's request may or may not reach the
center; FaxQueue's center announces and cancels at any time.

## 2. The modules

| module | what |
|---|---|
| `CenterLink` | the connection to the center, three threads, descriptors |
| `MCCenterLink` | its instance for TLC |
| `CenterLinkProofs` | type correctness; no lost wake-up, no forgotten socket, no foreign socket closed, proved |
| `FaxInbox` | the faxes that wait, in order, and what a restart finds: the abstract specification |
| `FaxQueue` | the queue, the scan, downloads as the queue sees them, clients, restart |
| `MCFaxQueue` | its instance, with the symmetry |
| `FaxQueueProofs` | type correctness; count, hand-over, files, the absence of stranded faxes and the refinement of `FaxInbox`, proved |
| `SendSession` | requests to send, the file server, transfer of a document |
| `MCSendSession`, `SendSessionProofs` | its instance; types, and what holds of requests that meet no other, proved |
| `FaxDownload` | announcements, downloads with their files, records, cancellation, crash and restart |
| `IniFile` | the profile files, as operators on the lines of a file; used by `FaxDownload` |
| `MCFaxDownload`, `FaxDownloadProofs` | its instance; types, the owners of the records, documents, descriptions and the refinement of `FaxInbox`, proved |
| `ClientPool` | the listen loop, the clients' threads, descriptor numbers, the semaphore |
| `ClientPoolProofs` | its four invariants, proved |
| `WinEvent` | what an event of the Windows API promises: the abstract specification |
| `LinuxEvent` | the event of `linux_compat.cpp`, which implements it |
| `MCLinuxEvent`, `LinuxEventProofs` | its instance; the refinement, proved |
| `FrameStream` | frames handed over in order: the abstract specification |
| `FrameReader` | the automaton of the four readers, which implements it |
| `MCFrameReader`, `FrameReaderProofs` | its instance; the refinement, proved |
| `Cipher` | the key register and the threads that encrypt and decrypt |
| `MCCipher`, `CipherProofs` | its instance; what a thread finds in the register and what comes out, proved |

`FaxDownload` composes the download with the queue's list and with `IniFile`;
`FaxQueue` abstracts it to the stages the queue can see; both implement
`FaxInbox`, which is what they agree on.  `LinuxEvent` and
`FrameReader` implement what `CenterLink` and `SendSession` take as atomic: an
event, a frame.  `ClientPool` has the descriptors of which `SendSession` knows
only that each connection has one.

### CenterLink

A step is one access to shared state or one system call, since nothing is
locked.  `pc` says where each thread is: main sleeps (`sleep`), increments
`m_nWaitAlive` in two steps (`inc`), sends a keepalive (`beat`), or goes through
`Close` (`test`, `close`, `clear`: `TcpSession.cpp:114-126`), then `connect`
(`dns`, `sock`, `connect`, `signal`) and `onLogin` (`login`); `afterClose` is
where main continues after `Close`.  The receiver reads (`read`: `m_tcpSock` is
tested and read again; `recv`: about to enter `recv`; `blocked`: in it), parses
(`parse`), or, after a failed `recv`, clears the login (`fail`) and waits for
the event (`wait`); on a frame of an invalid length it runs `Close` too.

`FDs` are descriptor numbers and `conn` says what each is at present; a
connection is `est`, then `in` once the center accepted a login on it, may fall
silent (`mute`), be closed or reset by the center (`eof`, `rst`), or be shut
down here (`shut`).  A `recv` asleep on a socket whose number is closed goes on
sleeping on the socket (`Orphan`), or returns if the connection is over
(`Ended`).  With `ForeignFDs` other threads take free numbers.  `send` with
flags 0 on a connection that is gone raises SIGPIPE, whose default action the
program keeps: `alive` becomes FALSE.  A frame is a member of `Msgs`; `cut`
says that its first bytes have been read, so that the parser (`ntype`) can be in
the middle of a frame when its connection goes.

Bounds: `MaxInFlight` replies waiting in a socket (1: main sends one packet at a
time and the properties do not depend on their number), `MaxBad` invalid frames
(1: one makes the receiver close the connection), `MaxWaitAlive` 2 instead of 6
(a first keepalive, a second one, a reconnect), two descriptors (a connection
and another thread's, or the old and the new one).

### FaxInbox

What both models of received faxes promise to the rest of the gateway.  `queue`
is the faxes in the order in which they were delivered or found; `Take` removes
the one at the front, `Cancel` any one together with its document; nothing else
removes one.  A job (a download) stores its fax's document and delivers the fax,
or gives up.  `Restart` keeps the documents (`stored`) and starts a search:
`pending` are those it has still to find, and it does not end before there are
none; `unread` are those it may come across.  `FaxQueue` maps its list, the
stages of a fax and the scan to this; `FaxDownload`, in which a process that
starts has found everything at once, the faxes of its listed records and those
of the threads at work.  The promise is about names, order and loss: that a
document is whole is `WholeDocument`, that no fax is found or delivered twice is
`HandedOverOnce`.

### FaxQueue

A critical section that only touches the list is one step; a client's holds the
lock across its send and is four (`Lock`, `SendFax` or `SendFails`, `Unlock`),
after `RequestRecv`, which reads the counter without the lock.  The listen
thread is `ScanFile` (one `.tif` each), `ScanEnd` or `ScanNone` (no `.tif` at
all: `CleanFile` deletes the other files), and `AssignCount`.  A download is a
job, numbered by its announcement; any TID may be announced at any time, during
the scan too and however often.  `stage` follows a job from
`onRecvRequestReply` to the append, with `CopyFile` in two steps since a crash
or a client may see the copy half done; `CopyFails` is a copy that fails, after
which the fax is queued as if it had not, and `onRecvRequestReply` itself may
fail to write the description.  `Restart` is a crash: the files stay.  `Mod`
stands for 65536, the counter's range.

Three history variables name what can spoil something, and no action reads
them: `twice`, the faxes that came in although they were known (announced again,
or found by a scan after they had come in); `damaged`, those of which a call on
a file failed, or whose files `CleanFile` or a crash hit in the middle; `raced`,
whether a thread other than the listen thread changed the list during the scan.
A fax that is announced when nothing of it is left begins anew.

Left out: `nType` of a client that is in the middle of sending, for which
`GW_FAX_REQUESTRECV` gets no answer.

Bounds: `MaxJob` announcements in the life of one process and `MaxCrash`
crashes.  Two announcements let a fax come in twice, or beside another one; one
crash leaves the next process every state of the files.  `FaxQueueRestart` begins
with an empty directory, so that what the scan finds is what a process has left.

### SendSession

A step of a client is one access to the globals.  `RequestSend` takes the
command and resets the event; `onSendRequest` sends it to the center, or does
not (no login); `WaitAnswer` or `WaitTimeout`; `Decide` reads the code;
`OpenSocket`, `ConnectServer`, `RequestFile`, `SelectReply` are
`ConnectFileSrv`, which turns the answer into a no when it fails; `Answer` tells
the client what the globals hold by then; `Settle` reads the code once more for
`nType`.  `SendFaxData` and `SendFaxEnd` pass a block or the end on,
`GetRSAPacket` and `ReceiveReply` or `ReceiveFails` wait for the file server.
The receiver thread writes the answer in two steps (`ReplyCode`, `ReplyRest`).
A request's number is its UUID and the name of its socket; numbers of
descriptors are not reused here (they are in `ClientPool`), and SIGPIPE is left
to CenterLink.

Nothing keeps the clients apart, and an answer may come after the wait for it.
Two history sets, written by `Remember` in every step and read by no action,
say which requests that concerned: `crossed`, those that were between
`RequestSend` and their end while another client was in a request too, or while
the center still had an answer to another one to give (one that was given up,
perhaps); `shared`, those that were between `RequestSend` and the end of their
document while another client was.  An answer of the file server that
comes after the 3 s is in the model, and ends the session (`ReceiveReply` of a
`req`, `FileSession.cpp:748`).

Bounds: `MaxReq` requests in total, `MaxBlocks` blocks of a document.  Two requests
let two clients meet, or one follow the other with a late answer or a dead file
server in between.  One block suffices for the end of a document, and another
request's block, to come in the wrong place; the order of several blocks is
covered by the theorem.

### FaxDownload and IniFile

A step is one call on a file, one packet of the file server, or one critical
section.  A record (`FAX_RECVLIST`) is a number and its thread has the same one;
`pc` is `ini`/`trunc` (the receiver thread writes the description, one
`WritePrivateProfileString` an entry: `EmptyIni` opens the file for writing,
which empties it, `WriteIni` closes it; `EmptyIniFails` and `WriteIniFails` are the
calls in it that fail, whose result nobody looks at), `connect`, `create`, `loop`
(`ReceivePacket`), `copy`, `copying`, `append`, `report`, `stop`.  The files are
names (`ini`, `ted`, `tif`), inodes and open files with offsets, because two
threads may write one file: an `O_TRUNC` of the one empties what the other goes
on writing at its offset, and leaves a hole.  `dialect` is which of the two sets
of commands the server speaks: `TCP_FAX_SEND` closes the file after a failure
and says so, `TCP_FAX_RECV` does neither.  `Crash` at any point starts again with
`SearchFile` and `CleanFile` on whatever is on the disk, where some of the reads of
a description may fail.  `cause` and `lost` are history variables: which of the
events that may spoil a fax have happened to it, and of which faxes a failing
call on `TID.ini` has lost an entry.  What such a write leaves is the beginning of
the file, in whole entries: a part of a line counts as none, as no entry is
found in it.

In `IniFile` a line is a sequence of tokens.  The comparison at
`linux_compat.cpp:738` is made after the closing bracket has been cut off, so it
never finds the section, and each write appends the section and the entry once
more; a read takes the first entry, so the first value that was written wins.
The rest of the code, which is never reached for that reason, is modelled as
well: were only that comparison corrected, the search for the key would leave
the entries it passes cut at their keys (line 760), and the description would be
lost, which is the mutant of `DescriptionKept`.

Bounds: one fax, two records of it (all interference is between records of one
fax, or between the records and the one list), two blocks (a first one and one
after it), one failing call, one crash, two entries of a description.

### ClientPool

`own` says who has opened a descriptor number; `Open` takes the lowest free one.
A thread knows its client's socket by number (`tcpSock`), and all of them know
the file server's connection as `g_sSend`.  `Close` closes a number, whoever has
it by then.  A command is modelled by what it does to descriptors, `nType` and
the thread.  A request is several steps (`RequestSend`, `Refused` or
`OpenServer`, `Connected` or `ConnectFails`), between which other threads may
set, close and reset `g_sSend`; so is a block (`Send`, `Sent` or `SendFails`).
`Decided` sets `nType` from the code as it is by then, which may be the answer to
another request.  `OthersOpen` and `OthersClose` are files and downloads.
`stopRecv`, `mixed` and `foreign` are history.  Bounds: five descriptors (the
listener, two clients and their servers, so that a leak fills the table), two
clients.

### WinEvent and LinuxEvent

`WinEvent` has a call of a thread take effect in one step.  `LinuxEvent` has the
steps another thread can see: `Lock`, the access to the flag (`RaiseFlag`,
`ClearFlag`, `Proceed`, `Sleep`, `Take`), `Broadcast`, `Unlock`, and a waiting
thread's `WakeUp`, `SpuriousWakeup`, `TimeOut` and `Late` (the time is over and
the mutex is had again; the flag is not looked at any more, line 515).  Under
the refinement an event becomes set with the broadcast, or at once if it was set
already, and a time-out takes effect when the time is over.  Every thread may
make every call.  Three threads: one that signals and two that can be released
by it.

### FrameStream and FrameReader

The four readers are one automaton over bytes, `ntype` 0, 1, 2.  `Recv` returns
any part of what has come, `ReadByte` consumes one byte of it: `Start`, `Skip`,
`FillHeader`, `FillPacket`, or the end of a frame (`Complete`, or `Rejected` by
`CheckPacket` if the reader has lost its place).  The readers of the file
server's connection return after a frame and forget the rest of the buffer
(`Return`); those of the center's and of the clients' go on with it.  The file
server answers, a frame for a frame (`MaySend`), but the gateway may ask for the
next one before that: `TimedOut` is the 3 s after which `ConnectFileSrv` counts a
missing answer as a success, and two answers may then be in one buffer.
`Swallow` is `ConnectFileSrv`'s own `recv`, which takes what has come of the
answer.  `Lose` ends a connection: with `Reset`, if the reader has seen it end
(or it is another thread's reader that begins), or, for `MsgReceiver`, with
`NotSeen`: main has closed and connected while it was between two reads, and the
parser stays as it is.

`spoiled` is history, and says what has made the reader lose its place: a
connection replaced unseen in the middle of a frame (`faxgw.cpp:313-320`), an
answer of which `ConnectFileSrv` read a part (`FileSession.cpp:1150`), a frame
that is longer than `byPacket` (256 bytes for the center, although 2047 pass the
test at `faxgw.cpp:277`), after which the program's behaviour is undefined and
the model stops.  The next `Reset`, or an unseen replacement between two frames,
makes it sound again.  The peers' frames are intact and not shorter than a
reader takes; `CenterLink` has the invalid ones.

Bounds: bytes 1 and 2 are the start mark, and the bodies are all sequences of
them of length one and two and two of length three, so that a body and a length
field look like the start of a frame in every way; the center's `byPacket` holds
two bytes, so that some frames overrun it; three frames and the end of one
connection.

### Cipher

A step writes or reads one word of the register `KnL`: `usekey` while it is
loaded, `desfunc` (a round) while a block is processed.  The two halves of a
block, the rounds and the order of their keys are kept, the round function is
the constant `F`, and the permutations at both ends are left out.  `met` is
history: the directions of the operations that overlapped a thread's own.  Two
rounds and blocks, three threads.

## 3. The runs

| run | question | result |
|---|---|---|
| `CenterLinkSafe` | with invalid frames, both threads in `Close` and foreign descriptors: is every wake-up seen; and, while frames are valid, is no connection forgotten and no foreign socket closed? | holds |
| `CenterLinkLive` | after the network has misbehaved and then settled, does the gateway log in and stay so? | holds, if no other thread opens descriptors |
| `FaxQueueSafe` | two faxes, two clients that keep asking: is every fax taken, every client answered, the count right? | holds, unless the list changed during the scan |
| `FaxQueueRestart` | repeated announcements, failing calls, a crash at any point, a wrapping counter, a center that talks during the scan: is a fax stranded, or `FaxInbox` broken; what makes a fax come twice, lack a file or be miscounted? | never; only the named causes |
| `SendSessionSafe` | two clients that ask and send when they like, answers in time, late or never: own job, state and answer agree, complete means stored, the request ends? | the first three for every request that met no other; every request ends |
| `SendSessionTwo` | two clients at the same time: own job? | violated |
| `FaxDownloadSafe` | repeated announcements, calls that fail on each of the files, refused blocks, a cancellation, a crash: what spoils a document or a description, is a record freed twice or used when freed, is `FaxInbox` broken? | only the named causes; never |
| `FaxDownloadEnds` | does every download end? | holds |
| `ClientPoolSafe` | numbers that are reused, a table that is full, requests that interleave: does a thread close what is not its own, or leave its client open? | only after `GW_FAX_STOPRECV` or with mixed requests; never |
| `LinuxEventSafe` | is the event of `linux_compat.cpp` one, and does every call return? | holds |
| `FrameReaderSafe` | are frames handed over whole, once and in order however they are cut and however late an answer is, and is none kept back? | holds, until one of the three named causes, and again after the reader's next start |
| `CipherSafe` | what makes a packet come out wrong? | an overlapping operation of the other direction, nothing else |

The largest are `FaxDownloadSafe` (2.8 million states), `ClientPoolSafe` (2.4 million),
`FaxQueueRestart` (1.9 million), `SendSessionSafe` (1.4 million) and `FrameReaderSafe`
(1.1 million).

Two faxes and two clients are the least that make two actors meet at the front
of the list while a third changes it.  `Symmetry` is used only in
`FaxQueueRestart` and `CipherSafe`, which check no liveness.  `FaxQueueSafe` has
one announcement and no crash, since each makes the liveness of a fax begin
anew; `FaxDownloadEnds` has no crash, since a crash ends every download.

### What the violation shows

`SendSessionTwo` (`FileSession.cpp:1391`): one event and one answer for two
clients.  The center's answer to the one wakes the other, which tells its client
the first one's job.

### Properties with a condition

Several properties name the circumstances they hold under.  Except where a
constant or a fairness condition is named, these are events of the model itself, recorded
in history variables, so that the runs and the theorems include them: the
property says that they, and nothing else, do the damage.

* `HandedOverOnce`: a fax announced while it is known, or found by a scan after it
  has come in, is queued again (`TcpSession.cpp:562`, `FileSession.cpp:334`).
* `FilesThere`: besides such faxes (`twice`), those of which `CopyFile` or a write
  of the description failed (`TcpSession.cpp:1164`, 558), whose files `CleanFile`
  deleted during their download (`FileSession.cpp:295`), or that a crash hit in
  the copy or between the two deletions of a cancellation.
* `CountIsLength`, `EventuallyTaken`, `AnsweredAtLast`: the result of the scan
  overwrites what was counted meanwhile (`FileSession.cpp:509`; `raced`).
  `AnsweredAtLast` is about clients that keep asking: a single request gets no
  answer if the counter said one and the list is empty once the lock is held
  (1660).
* `OwnJobUncrossed`, `StateMatchesAnswer`: a request that met another one may be
  told the other's job, or have its state set from the other's code
  (`FileSession.cpp:1391`, 1399, 1442).  `Delivered`: or, if they shared `g_sSend`,
  send its blocks to the other's connection (1097).  A slow file server is no
  exception: its late answer ends the session (748, 1181), so that nothing is
  reported complete that is not.
* `Implements` (of `FrameStream`): the three causes of `spoiled`.
* `WholeDocument`: a second announcement of a TID on its way lets two threads
  write one file (`TcpSession.cpp:562`); a block that was refused and is sent
  again goes to a file that was emptied (1134); the result of `CopyFile` is not
  looked at (1164), and a crash in it leaves a part of the document, which the
  next start queues.  `DescriptionKept`: a crash between the two deletions of a
  cancellation leaves the document without its description; a call on `TID.ini`
  that fails, at the announcement or at a restart, loses entries
  (`linux_compat.cpp:672`, 705, 816-829); and with a second announcement a crash
  can hit the file while it is written again.
* `RecordsOwned` excepts the report to the center (`TcpSession.cpp:1174`), which
  reads a record that a client may have taken and freed since it was queued.
* `OwnOnly`, `NumbersHold`: after `GW_FAX_STOPRECV` (`FileSession.cpp:1649`) the
  thread reads from and closes a number that may be another's; with mixed
  requests (two clients between `GW_FAX_REQUESTSEND` and `GW_FAX_STOPSEND` at once,
  or one that got the answer to another request) one's `g_sSend` replaces the
  other's, and a failing request or transfer closes it (1110, 1131, 869).  The
  connection to the file server is not closed after a complete transfer, and
  when no number is left `accept` fails and the service ends
  (`FileSession.cpp:543`).
* `Explained`: a packet is spoiled when an encryption overlaps a decryption
  (`TcpSession.cpp:400`, `faxgw.cpp:179`), in which case it is refused by its
  receiver.  Several operations of one direction do not disturb each other.
* `NoLeak`, `NeverClosesOthers`: with an invalid frame the receiver's `Close` can
  overwrite the socket that main has just connected (`faxgw.cpp:301`,
  `TcpSession.cpp:210`).
* `StableLogin` is checked with `ForeignFDs = FALSE`: otherwise the receiver can enter `recv()` with a number
  that belongs to a client by now (`TcpSession.cpp:265`), out of which
  `shutdown()` cannot wake it.  A name that does not resolve at the start leaves
  an unconnected socket, on which `onLogin` sends: SIGPIPE ends the process
  (204).  A login reply read before main closed its connection sets
  `m_bIsLogin` while there is none (494), until the next reconnect.

## 4. Fairness

* `CenterLink!FairSpec`: weak fairness of main's and of the receiver's steps,
  as of any thread of the operating system.  Nothing is assumed of the center or
  of other threads.  `Settle` is not fair either: `StableLogin` speaks of
  behaviours in which the network has settled.  A settled network answers
  within the 5 s of main's sleep: main's timer (`onKeepAlive`) waits for
  `RxIdle`.
* `FaxQueue!FairSpec`: the listen thread runs; clients come back and ask again
  (`Connect`, `RequestRecv`: this is the behaviour of the clients' program and
  the code only promises something to clients that ask); a thread that waits for
  a lock which is released again and again gets it (`SF Lock`); a send to a
  client succeeds sometimes (`SF SendFax`).  Downloads and the center are not
  fair.
* `SendSession!FairSpec`: a client's request is carried on by its thread, every wait
  in which has a timeout.  Neither the center nor the file server is fair, nor
  are the client's own commands.
* `FrameReader!FairSpec`: a reader's loop goes on (`ReadByte`), and `recv` returns when
  something has come.  The peers need not send anything.

* `FaxDownload!FairSpec`: the receiver's and the downloads' threads run.  The file
  server does something, if only closing the connection, and does not resend a
  refused block for ever (`SF ServerStops`): the gateway itself has no time-out
  and waits for it as long as it takes (`TcpSession.cpp:1285`).
* `LinuxEvent!FairSpec`: a thread in a call runs; one that waits for the mutex
  gets it some time; a time-out is a point in time, after which the next wait
  ends at once however often the thread is woken before it.  No thread has to
  call `SetEvent`, hence a wait without time-out is only promised to go on if
  the event stays set.

## 5. Proofs

tlapm checks these for all values of the constants that meet the modules'
assumptions (numbers are naturals, the special values are distinct and are not
descriptors, faxes or clients).

`CenterLinkProofs`:

* `TypeCorrect`: `Spec => []TypeOK`, one lemma per thread.  `TypeOK` is
  inductive; the point that is not immediate is `m_nWaitAlive`, whose increment
  is split in two: `waitRead` stays below the limit because it is read under
  the test.
* `NoWakeupLost`: `Spec => []NoLostWakeup`, which `CenterLinkSafe` checks on its
  instance.  `NoLostWakeup` speaks of the receiver waiting and is not inductive:
  the receiver is on its way to the event for several steps (reading, in
  `recv` on an older socket, failing) in which main may connect.  `Fresh` says
  that the receiver has been told of the connection or is about to be;
  `WakeInv` says that a receiver on its way to the event, or in `recv` on
  anything but the present socket, is in a `Fresh` state.  Only `connect` brings
  a connection up (`OnlyConnectRevives`), the event stays set until the receiver
  takes it (`EventKept`), main keeps the signal until it gives it
  (`SignalKept`), hence `Fresh` is kept (`FreshKept`) by all but the receiver's
  wait.
* `NothingLeaks` and `OthersUntouched`: `NoLeak` and `NeverClosesOthers`, for any
  number of descriptors.  `CleanInv`: as long as no frame was invalid, there is
  none on its way and the receiver is not in `Close`.  `OwnInv`: main then owns
  the descriptor: `m_tcpSock`, unless -1 or just closed, is a socket of the
  session, and there is no other.

`FaxQueueProofs`:

* `TypeCorrect`: `Spec => []TypeOK`.  `TypeInv` adds that the scan has read
  finitely many files (so that their number is one) and that a client that sends
  sends a fax.
* `NothingStranded`: `Spec => []NoFaxStranded`, with no restriction.
  `StrandInv`: a document in the directory is queued, handed over, being queued,
  or still to be read by the scan.
* `InboxKept`: `Spec => ImplementsInbox`, with no restriction.  `FrontInv`: a client
  that is sending has the lock and its fax is the head of the list (so that the
  removal after the send, by name, is a `Tail`: `RemoveHead`), and the faxes the
  scan has still to find are not being downloaded (so that there are never more of
  them).  Every action is then a step of a job, of the search, `Take`, `Cancel`,
  `Restart` or a stutter.
* `CountExact`, `EachFaxOnce`: `CountIsLength` and `HandedOverOnce`.  `QueueInv` consists
  of `StartInv` (during the scan there are no clients, and unless the list was
  changed by others it is what has been read), `LockInv` (a client that sends holds
  the lock, and its fax is therefore still in the list), the count itself, and
  `OnceInv`: a fax that is not in `twice` is in one place only, on its way in one
  download, or in the list, or handed over.
* `FilesComplete`: `FilesThere`.  `FileInv`, of the faxes that are in neither
  `twice` nor `damaged`: one on its way in has the files its stage says, what has a
  document has its description, and only the copy under way is incomplete.  It
  is kept by a crash, which adds to `damaged` the copies under way.

They rest on lemmas about `RemoveFirst` and `Append` (members, length,
injectivity) and about counting modulo the counter's width (`UpMod`, `DownMod`),
proved in the same module.

`LinuxEventProofs`:

* `NobodyMissesIt`: `NoneAsleep`, with `CallInv` (what each place in a call says of
  the call and of the flag).  The one step that could leave a sleeper behind is
  `Sleep`, which tests the flag with the mutex held.
* `EventsAreEvents`: `Spec => Implements`.  Each step is a step of `WinEvent` or
  none; the mapped flag is the one of the code except between `RaiseFlag` and
  `Broadcast`, where the mutex keeps the others out.

`FrameReaderProofs`:

* `Inv` says that, while nothing has spoiled it, the automaton is where the stream
  is: as a function of `off`, `ntype` is 0 up to the mark, then the header's bytes
  and the body's are the frame's (`Aligned`), and `unread` counts the bytes on their
  way (`Counted`).  `Owed`: as long as no answer is late, the file server has at
  most one frame on its way, so that the byte that completes it is the last
  there is and nothing is forgotten; when one is late, it comes first, and the
  connection is closed by it.  `LengthRead`: what `pheader->nLength` gives is the
  length of the body.
* `FramesComeThrough`: `Spec => Implements`; `Complete` and a whole `Swallow` are
  `HandOver`, `Lose` is `Lose` or the end of the bad time, the three causes are
  `Break`.

`CipherProofs`:

* `RegisterUndisturbed`: `Undisturbed`, from `MetInv`: of two threads that are at
  work each has met the other's direction.  Two of the same direction write
  the same words.
* `DamageExplained`: `Explained`.  `Halves` is the recursion of `desfunc`; that it has
  the value of each round (`HalvesRounds`) and that decryption goes through the
  halves of encryption backwards (`Backwards`: the number of rounds is even, so
  that a round is undone by the one of the same key with the halves exchanged)
  are inductions on the round.  `Induction` states induction for a set of naturals
  and proves it by counting: if `n` were not in the set, `i + 1` would map the
  members below `n` one to one into themselves, hence onto 0.  `BlockInv` then says
  which of the halves a thread's block is at, and that the blocks before it are
  the output's.

`ClientPoolProofs`:

* `PoolTypes`, `NoClientLeft`, `HoldOneAtATime`, `CloseTheirOwn`: the four invariants of
  `ClientPoolSafe`, from one inductive `IInv`: the listener's number is in no
  thread's hands (`Apart`), a client's number is in the hands of the thread it is
  named for (`Holders`), the semaphore counts the threads that have ended
  (`Counted`, which bounds it), and, while neither of the two named causes has
  occurred, at most one client sends and the threads' numbers are their own
  (`Sound`).

`SendSessionProofs`:

* `SessionTypes`: `TypeOK`, from `TypeInv`, its four parts and `AskedInv` (a client in
  a request or a transfer has asked, so that `asked` names a request).
* `OwnJobAlways`, `StateMatchesAlways`: `OwnJobUncrossed` and `StateMatchesAnswer`, for
  any number of clients that ask when they like.  `HistoryInv` is what the history
  says of the present: a client in a request that is not crossed has the center to
  itself.  `AnswerInv`, of such a client: an answer is on its way, or the event set,
  only while the client waits, and it is the one to its present request.  It
  need not be carried from one request to the next: a request begins uncrossed only if
  nothing of an earlier one is under way, and resets the event itself.
  `StateInv` relates `nType`, `told` and `g_bySendCode` between the answer and
  `Settle`.
* `DeliveredAlways`: `Delivered`, for any number of clients, requests and blocks.
  `LinkInv`, of a request that is neither crossed nor shared, follows the connection through
  `ConnectFileSrv` and the transfer: it is the one of the present request, asked
  for its job; answers to earlier packets may be there, but none to a STOPSEND
  before it was sent (`NoStop`); while it is open, the document is stored as far as
  it was sent.  A client that is not `Engaged` touches none of it (`Bystander`).
  `Documents`: what is done is stored, and a foreign block in a job's file is that
  of a request that got into another one's way.  `Fresh`: requests not yet made
  have nothing.

`FaxDownloadProofs`:

* `OwnedRecords`: `RecordsOwned`, from `Owned`: a thread that is `Busy` has a live
  record that is not in the list, the list has no record twice, and the record
  `onLCRCancelReply` is at is in the list.  It needs that the faxes are finitely
  many, as `SearchFile` counts them.
* `TypeCorrect`: `TypeOK`, which bounds the files' inodes, their contents and the
  open files' offsets by the document's length.  `Typed` adds why: an inode is made
  once a description, a `CREATE` or a copy, so that counting the records' steps
  shows that the next number is free (`FreshInode`), and the file server counts
  along with the blocks it has sent, so that an offset stays below `next`.
* `DocumentsWhole`: `WholeDocument`.  `Once`: of a fax that has been announced once at
  most one record is active, and what is listed of it is a restart's or that
  record's.  `Owns`: the inode behind a record's `hRecvFile`, and the copy's, then
  belong to it alone.  `Got`, `Copied` and `Whole` follow the blocks from the server
  to the `.ted`, to the `.tif` and to the list, unless a named cause has occurred.
* `DescriptionsKept`: `DescriptionKept`.  `Settings`: the lines of the file are the
  section and the entries written so far, once each and in the order of `Keys`
  (`OneWriter`: only one thread of a fax writes it), of which a read finds the
  value that was written (`ReadFinds`), so that a restart's record has its own
  description again.  Besides the entries' being in order it needs that no name
  of an entry is an opening bracket (`KeyAssumption`).
* `InboxKept`: `Spec => ImplementsInbox`, also when one TID is announced repeatedly.
  `Owned` gives that a listed record's `file` does not change and that the record a
  cancellation is at is still in the list when its second step comes; `Typed` and
  `TifTyped`, that a block of the copy never makes the file look deleted
  (`CopyStores`); `CrashFinds`, that the search queues each document once.

All inductive invariants were checked with TLC on the instances of the runs
before they were proved.

Only model-checked: everything temporal with fairness (`StableLogin`,
`EventuallyTaken`, `AnsweredAtLast`, `RequestEnds`, `DownloadEnds`, `NoFrameWaits`,
`Returns`), since the prover has neither ENABLED nor liveness rules that would serve.
No theorem assumes anything of the schedule or of the peers beyond the modules'
specifications and the constants' assumptions; where something may be spoiled,
the property says by what, in terms of a history variable.

## 6. Not modelled

* `bIsLogin` of clients, `g_hConnectEvent`, `g_bySystem` and `m_sessionCount` decide
  nothing.  Logging and formatting are left out.
* PacketCodec: the fields are values in every module.  At its limits, a field
  that does not fit into a packet is left out without notice, and reading past
  the end gives 0 or an empty string; the packets that are modelled are
  complete.
* CRC-32 is taken to detect every damage.  What `CheckPacket` refuses is
  dropped without a trace; in CenterLink all valid frames pass it.
* Frames of length zero (whose reader swallows the byte that follows) are sent by
  no peer.  A partial answer of the file server, which `ConnectFileSrv` takes for
  a whole one, is in FrameReader (`Swallow`) and not in SendSession: `recv` there
  returns an answer or nothing.  FrameReader has one client's transfer at a time.
* The client commands `GW_LCR_*`, and the length checks of the others.  A
  `GW_FAX_REQUESTRECV` of a client in the middle of sending gets no answer.
* A client that does not read keeps the queue's lock: `FaxQueue` assumes that a
  send returns some time (`FileSession.cpp:1704`), as there is no time-out that
  would make it.  Nor does `SendSession` promise that `GW_FAX_SEND` ends: a silent
  file server keeps the client's thread (800).
* The semaphore is never waited for, so that it is only a count of releases.
  `WaitForMultipleObjects` is not used.
* The unused code: MD5, LZW, the old `ReceivePacket`, `TCPCThreadProc`,
  `UDPThreadProc`, pausing.

## 7. Plan

1. Liveness.  Each temporal property has a safety part that can be proved: from
   every state in which a thread waits, some step that ends the wait is enabled.
   The variants of `RequestEnds` and `DownloadEnds` (what decreases with each step
   of the thread) are candidates for action properties and theorems.
2. Abstract specifications for `SendSession` (a document is stored under the job
   of the client that sent it) and `CenterLink` (logged in, or on the way there).
3. PacketCodec: the limits of the field functions, as operators on lengths.
