------------------------------ MODULE FaxQueue ------------------------------
(***************************************************************************)
(* The faxes the gateway has received and not yet handed to a client:      *)
(* g_lsRecvFax, its length g_nReceive and the lock g_csRecvList, with the  *)
(* files in the data directory that survive a restart.  Five kinds of      *)
(* thread meet here:                                                       *)
(*   the listen thread    (MainThreadProc) runs SearchFile once, assigns   *)
(*                        its result to g_nReceive, then accepts clients;  *)
(*   a download thread    (ReceiveFax) writes TID.ted, copies it to        *)
(*                        TID.tif and appends the fax;                     *)
(*   the receiver thread  (MsgReceiver) starts downloads and removes a     *)
(*                        fax the center cancels;                          *)
(*   a client thread      (TCPSThreadProc) takes the first fax and sends   *)
(*                        its description to the client, under the lock.   *)
(* A fax is named by its TID.  Critical sections that do nothing but touch *)
(* the list are one step; the client's holds the lock across a send.       *)
(*                                                                         *)
(* Nothing in the program keeps the center from announcing a TID twice, or *)
(* from talking while the listen thread still scans; and calls on files    *)
(* fail unnoticed.  All that happens here.  What it may spoil is recorded  *)
(* in three history variables, twice, damaged and raced, which no action   *)
(* reads; the properties say that nothing else spoils anything.            *)
(***************************************************************************)
EXTENDS Naturals, Sequences, FiniteSets, SequencesExt

CONSTANTS
    Faxes,          \* TIDs
    OnDisk,         \* those whose .tif and .ini an earlier run has left
    Clients,
    NoOne,          \* nobody holds the lock; no fax
    Mod,            \* g_nReceive is a uint16: 65536
    MaxJob,         \* bound: announcements in the life of one process
    MaxCrash        \* bound: crashes of the process

ASSUME SetAssumption ==
    OnDisk \subseteq Faxes /\ NoOne \notin Clients \cup Faxes
ASSUME NumberAssumption ==
    Mod \in Nat \ {0} /\ MaxJob \in Nat /\ MaxCrash \in Nat

Jobs == 1 .. MaxJob

VARIABLES
    list,           \* g_lsRecvFax
    g_nReceive,
    lock,           \* the client thread that holds g_csRecvList
    main,           \* the listen thread: "scan", "assign", "listen"
    scanned,        \* the .tif files SearchFile has read so far
    base,           \* those that were there when it opened the directory
    fax, stage,     \* each download: its fax, and how far it is
    tif, ini, ted,  \* the files there are; of ini, those that are whole
    partial,        \* the .tif files CopyFile has not finished
    client,         \* where each client thread is
    iter,           \* the fax a client thread has found at the front
    waiting,        \* the clients whose last request is not answered
    out,            \* the faxes handed over since the process started
    crashes,
    twice,          \* history: the faxes that came in a second time ...
    damaged,        \* ... those whose files something has damaged ...
    raced           \* ... and whether the list changed during the scan

queue == <<list, g_nReceive, lock>>
startup == <<main, scanned, base>>
jobs == <<fax, stage>>
files == <<tif, ini, ted, partial>>
clients == <<client, iter, waiting, out>>
causes == <<twice, damaged, raced>>
vars == <<queue, startup, jobs, files, clients, crashes, causes>>

Stages == {"none", "begun", "loading", "copying", "landed", "over"}

TypeOK ==
    /\ list \in Seq(Faxes)
    /\ g_nReceive \in 0 .. Mod - 1
    /\ lock \in Clients \cup {NoOne}
    /\ main \in {"scan", "assign", "listen"}
    /\ scanned \subseteq Faxes /\ base \subseteq Faxes
    /\ fax \in [Jobs -> Faxes \cup {NoOne}] /\ stage \in [Jobs -> Stages]
    /\ tif \subseteq Faxes /\ ini \subseteq Faxes /\ ted \subseteq Faxes
    /\ partial \subseteq Faxes
    /\ client \in [Clients ->
            {"gone", "idle", "empty", "lock", "send", "unlock"}]
    /\ iter \in [Clients -> Faxes \cup {NoOne}]
    /\ waiting \subseteq Clients
    /\ out \in Seq(Faxes)
    /\ crashes \in 0 .. MaxCrash
    /\ twice \subseteq Faxes /\ damaged \subseteq Faxes /\ raced \in BOOLEAN

Init ==
    /\ list = <<>> /\ g_nReceive = 0 /\ lock = NoOne
    /\ main = "scan" /\ scanned = {} /\ base = OnDisk
    /\ fax = [j \in Jobs |-> NoOne] /\ stage = [j \in Jobs |-> "none"]
    /\ tif = OnDisk /\ ini = OnDisk /\ ted = {} /\ partial = {}
    /\ client = [c \in Clients |-> "gone"]
    /\ iter = [c \in Clients |-> NoOne]
    /\ waiting = {} /\ out = <<>> /\ crashes = 0
    /\ twice = {} /\ damaged = {} /\ raced = FALSE

Queued == Range(list)
HandedOver == Range(out)
Incoming == Range(fax) \ {NoOne}

\* Mutant of Up: the counter does not wrap.
UpWide(n) == n + 1

\* uint16 arithmetic
Up(n) == (n + 1) % Mod
Down(n) == (n + Mod - 1) % Mod

-----------------------------------------------------------------------------
(* The listen thread.                                                      *)

(* FindFirstFile and FindNextFile read the directory as it is then: a file *)
(* that appears meanwhile may be seen or not.                              *)
ScanFile ==
    /\ main = "scan" /\ lock = NoOne
    /\ \E f \in tif \ scanned :
          /\ scanned' = scanned \cup {f}
          /\ list' = Append(list, f)
          /\ twice' = twice \cup ({f} \cap (Queued \cup Incoming))
    /\ UNCHANGED <<g_nReceive, lock, main, base, jobs, files, clients, crashes,
                   damaged, raced>>

ScanEnd ==
    /\ main = "scan"
    /\ scanned # {} /\ base \subseteq scanned
    /\ main' = "assign"
    /\ UNCHANGED <<queue, scanned, base, jobs, files, clients, crashes, causes>>

\* No .tif is found: CleanFile deletes every .ted and every .ini, also those
\* of a download that has begun meanwhile.
ScanNone ==
    /\ main = "scan"
    /\ scanned = {} /\ base = {}
    /\ ted' = {} /\ ini' = {}
    /\ damaged' = damaged \cup Incoming \cup tif
    /\ main' = "assign"
    /\ UNCHANGED <<queue, scanned, base, jobs, tif, partial, clients, crashes,
                   twice, raced>>

\* g_nReceive = SearchFile(), without the lock.
AssignCount ==
    /\ main = "assign"
    /\ g_nReceive' = Cardinality(scanned) % Mod
    /\ main' = "listen" /\ scanned' = {} /\ base' = {}
    /\ UNCHANGED <<list, lock, jobs, files, clients, crashes, causes>>

Listen == ScanFile \/ ScanEnd \/ ScanNone \/ AssignCount

-----------------------------------------------------------------------------
(* Downloads and the center.                                               *)

\* The next thread to be started.
Unused(j) == stage[j] = "none" /\ \A i \in Jobs : stage[i] = "none" => j <= i

\* The fax is, or was, in the list, has a document, or is on its way.
Known(f) == f \in Queued \cup HandedOver \cup tif \cup Incoming

(* onRecvRequestReply: the description goes to TID.ini, and nobody looks   *)
(* whether it could be written; ReceiveFax starts.  A fax that is not      *)
(* known makes a new start, whatever happened to an earlier one.           *)
onRecvRequestReply(j, f) ==
    /\ Unused(j)
    /\ fax' = [fax EXCEPT ![j] = f]
    /\ stage' = [stage EXCEPT ![j] = "begun"]
    /\ twice' = IF Known(f) THEN twice \cup {f} ELSE twice \ {f}
    /\ \/ /\ ini' = ini \cup {f}
          /\ damaged' = IF Known(f) THEN damaged ELSE damaged \ {f}
       \/ ini' \in {ini, ini \ {f}} /\ damaged' = damaged \cup {f}
    /\ UNCHANGED <<queue, startup, tif, ted, partial, clients, crashes, raced>>

Goes(j, s) == stage' = [stage EXCEPT ![j] = s]

\* The first block creates TID.ted, as ReceiveFax had done before its loop.
OpenFile(j) ==
    /\ stage[j] = "begun" /\ Goes(j, "loading")
    /\ ted' = ted \cup {fax[j]}
    /\ UNCHANGED <<queue, startup, fax, tif, ini, partial, clients, crashes, causes>>

Ends(j) == Goes(j, "over") /\ fax' = [fax EXCEPT ![j] = NoOne]

\* The file server goes away, a block cannot be written, or STOPSEND comes
\* without a block: nothing is queued.
DownloadEnds(j) ==
    /\ stage[j] \in {"begun", "loading"} /\ Ends(j)
    /\ UNCHANGED <<queue, startup, files, clients, crashes, causes>>

(* TCP_FAX_STOPSEND: CopyFile, whose result is ignored, and DeleteFile.    *)
CopyBegins(j) ==
    /\ stage[j] = "loading" /\ fax[j] \in ted
    /\ Goes(j, "copying")
    /\ tif' = tif \cup {fax[j]} /\ partial' = partial \cup {fax[j]}
    /\ UNCHANGED <<queue, startup, fax, ini, ted, clients, crashes, causes>>

CopyEnds(j) ==
    /\ stage[j] = "copying" /\ Goes(j, "landed")
    /\ partial' = partial \ {fax[j]} /\ ted' = ted \ {fax[j]}
    /\ UNCHANGED <<queue, startup, fax, tif, ini, clients, crashes, causes>>

\* TID.ted is not there, one of the two files cannot be opened, or a write
\* fails: there is no .tif, or a part of it, or an older one.
CopyFails(j) ==
    /\ stage[j] \in {"loading", "copying"} /\ Goes(j, "landed")
    /\ ted' = ted \ {fax[j]}
    /\ damaged' = damaged \cup {fax[j]}
    /\ UNCHANGED <<queue, startup, fax, tif, ini, partial, clients, crashes,
                   twice, raced>>

\* Mutant of Landed: the fax is queued before its file is copied.
Underway(j) == stage[j] \in {"copying", "landed"}

Landed(j) == stage[j] = "landed"

\* A thread other than the listen thread changes the list and the count.
Races == raced' = (raced \/ main # "listen")

\* ... then the append under the lock.
StopSend(j) ==
    /\ Landed(j) /\ lock = NoOne /\ Ends(j)
    /\ list' = Append(list, fax[j])
    /\ g_nReceive' = Up(g_nReceive)
    /\ Races
    /\ UNCHANGED <<lock, startup, files, clients, crashes, twice, damaged>>

Download(j) ==
    \/ OpenFile(j) \/ DownloadEnds(j) \/ CopyBegins(j) \/ CopyEnds(j)
    \/ CopyFails(j) \/ StopSend(j)

\* Mutant of Removed: a fax that left is still counted.
NotCounted == UNCHANGED g_nReceive

\* The number of faxes left after one was removed.
Removed == g_nReceive' = Down(g_nReceive)

(* onLCRCancelReply with code 0: the first entry with that TID and its     *)
(* files go.  A TID that is not queued is passed to SendLCROper, which     *)
(* sends nothing (g_sMsg is never set).                                    *)
onLCRCancelReply(f) ==
    /\ lock = NoOne
    /\ f \in Queued
    /\ list' = RemoveFirst(list, f)
    /\ Removed /\ Races
    /\ tif' = tif \ {f} /\ ini' = ini \ {f} /\ partial' = partial \ {f}
    /\ base' = base \ {f}
    /\ UNCHANGED <<lock, main, scanned, jobs, ted, clients, crashes, twice, damaged>>

-----------------------------------------------------------------------------
(* Clients: GW_FAX_REQUESTRECV in ReceivePacketEx.                         *)

Connect(c) ==
    /\ main = "listen" /\ client[c] = "gone"
    /\ client' = [client EXCEPT ![c] = "idle"]
    /\ waiting' = waiting \ {c}
    /\ UNCHANGED <<queue, startup, jobs, files, iter, out, crashes, causes>>

Disconnect(c) ==
    /\ client[c] = "idle"
    /\ client' = [client EXCEPT ![c] = "gone"]
    /\ UNCHANGED <<queue, startup, jobs, files, iter, waiting, out, crashes, causes>>

\* Mutant of Pending: off by one.
MoreThanOne == g_nReceive > 1

Pending == g_nReceive > 0

\* The count is read without the lock.
RequestRecv(c) ==
    /\ client[c] = "idle"
    /\ client' = [client EXCEPT ![c] = IF Pending THEN "lock" ELSE "empty"]
    /\ waiting' = waiting \cup {c}
    /\ UNCHANGED <<queue, startup, jobs, files, iter, out, crashes, causes>>

\* Type 0 is sent; when that fails the session ends.
AnswerEmpty(c) ==
    /\ client[c] = "empty"
    /\ client' \in {[client EXCEPT ![c] = s] : s \in {"idle", "gone"}}
    /\ waiting' = waiting \ {c}
    /\ UNCHANGED <<queue, startup, jobs, files, iter, out, crashes, causes>>

\* Mutant of LockFree: the client does not take the lock.
NoLock == TRUE

LockFree == lock = NoOne

\* Nothing is sent when the list turns out to be empty.
Lock(c) ==
    /\ client[c] = "lock" /\ LockFree
    /\ lock' = c
    /\ IF list = <<>>
       THEN /\ client' = [client EXCEPT ![c] = "unlock"]
            /\ UNCHANGED iter
       ELSE /\ client' = [client EXCEPT ![c] = "send"]
            /\ iter' = [iter EXCEPT ![c] = Head(list)]
    /\ UNCHANGED <<list, g_nReceive, startup, jobs, files, waiting, out, crashes,
                   causes>>

\* The description is sent; only then does the fax leave the queue.
SendFax(c) ==
    /\ client[c] = "send"
    /\ client' = [client EXCEPT ![c] = "unlock"]
    /\ waiting' = waiting \ {c}
    /\ out' = Append(out, iter[c])
    /\ list' = RemoveFirst(list, iter[c])
    /\ iter' = [iter EXCEPT ![c] = NoOne]
    /\ Removed
    /\ UNCHANGED <<lock, startup, jobs, files, crashes, causes>>

\* Mutant of KeepFax: the fax is removed although it was not sent.
DropFax(c) == list' = RemoveFirst(list, iter[c]) /\ Removed

KeepFax(c) == UNCHANGED <<list, g_nReceive>>

SendFails(c) ==
    /\ client[c] = "send"
    /\ client' = [client EXCEPT ![c] = "unlock"]
    /\ waiting' = waiting \ {c}
    /\ KeepFax(c)
    /\ iter' = [iter EXCEPT ![c] = NoOne]
    /\ UNCHANGED <<lock, startup, jobs, files, out, crashes, causes>>

Unlock(c) ==
    /\ client[c] = "unlock"
    /\ lock' = NoOne
    /\ client' = [client EXCEPT ![c] = "idle"]
    /\ UNCHANGED <<list, g_nReceive, startup, jobs, files, iter, waiting, out,
                   crashes, causes>>

ClientStep(c) ==
    \/ Connect(c) \/ Disconnect(c) \/ RequestRecv(c) \/ AnswerEmpty(c)
    \/ Lock(c) \/ SendFax(c) \/ SendFails(c) \/ Unlock(c)

-----------------------------------------------------------------------------
(* The process dies and is started again: the files stay, a download that  *)
(* was under way is lost, perhaps in the middle of its copy; and it may be *)
(* in a cancellation, between the two deletions, that the process dies.    *)
Restart ==
    /\ crashes < MaxCrash
    /\ crashes' = crashes + 1
    /\ \E half \in {{}} \cup {{f} : f \in {g \in Queued : lock = NoOne}} :
          /\ ini' = ini \ half
          /\ damaged' = damaged \cup twice \cup half
                        \cup {fax[j] : j \in {i \in Jobs : stage[i] = "copying"}}
    /\ list' = <<>> /\ g_nReceive' = 0 /\ lock' = NoOne
    /\ main' = "scan" /\ scanned' = {} /\ base' = tif
    /\ fax' = [j \in Jobs |-> NoOne] /\ stage' = [j \in Jobs |-> "none"]
    /\ client' = [c \in Clients |-> "gone"]
    /\ iter' = [c \in Clients |-> NoOne]
    /\ waiting' = {} /\ out' = <<>> /\ twice' = {} /\ raced' = FALSE
    /\ UNCHANGED <<tif, ted, partial>>

Center ==
    \/ \E f \in Faxes : onLCRCancelReply(f) \/ \E j \in Jobs : onRecvRequestReply(j, f)
    \/ \E j \in Jobs : Download(j)

Next == Listen \/ Center \/ (\E c \in Clients : ClientStep(c)) \/ Restart

Spec == Init /\ [][Next]_vars

(* The listen thread runs; clients come back, keep asking for faxes, and   *)
(* the send to a client does not fail for ever.                            *)
FairSpec ==
    /\ Spec
    /\ WF_vars(Listen)
    /\ \A c \in Clients :
          /\ WF_vars(Connect(c)) /\ SF_vars(RequestRecv(c))
          /\ WF_vars(AnswerEmpty(c)) /\ SF_vars(Lock(c))
          /\ WF_vars(SendFax(c) \/ SendFails(c)) /\ SF_vars(SendFax(c))
          /\ WF_vars(Unlock(c))

-----------------------------------------------------------------------------
(* Properties.                                                             *)

(* Once clients can ask, the count they are told is the number of faxes    *)
(* queued (modulo the width of the counter) outside the critical sections, *)
(* although it is a variable of its own, updated by three kinds of thread; *)
(* unless the list changed while the listen thread had yet to assign it.   *)
(* (FileSession.cpp:509, 1306, 1708; TcpSession.cpp:636, 1170)             *)
CountIsLength == main = "listen" /\ ~raced => g_nReceive = Len(list) % Mod

\* Nothing is in s twice, but for members of T.
OnceBut(s, T) == \A i, j \in DOMAIN s : s[i] = s[j] => i = j \/ s[i] \in T

(* A fax is in the queue once, and is not handed to a client again while   *)
(* the process runs: two clients never get the same fax.  Only the center, *)
(* which announces one that is known, and the scan, which finds one that   *)
(* has just come in, make it two.                                          *)
(* (FileSession.cpp:334-337, 1662-1714; TcpSession.cpp:517-564)            *)
HandedOverOnce == OnceBut(list \o out, twice)

(* No fax is stranded: what lies in the data directory is queued, or on    *)
(* its way into the queue, or was handed over; a failed send and a restart *)
(* lose nothing.  (FileSession.cpp:276-375, 1704)                          *)
NoFaxStranded ==
    main = "listen" =>
        \A f \in tif :
            \/ f \in Queued \cup HandedOver
            \/ \E j \in Jobs : fax[j] = f /\ stage[j] \in {"copying", "landed"}

(* A queued fax has its document, complete, and its description, for the   *)
(* client and for the next process, unless it came in twice, a call on its *)
(* files failed, CleanFile came upon them, or a crash hit its copy or its  *)
(* cancellation.                                                           *)
(* (FileSession.cpp:206-274, TcpSession.cpp:1164-1171, 629-633)            *)
FilesThere == Queued \ (twice \cup damaged) \subseteq (tif \cap ini) \ partial

(* A client whose request found the count positive and the list empty gets *)
(* no answer, but none is left without one for ever: if it asks again, the *)
(* count is right by then (but see CountIsLength).                         *)
(* (FileSession.cpp:1652-1729)                                             *)
AnsweredAtLast ==
    \A c \in Clients : c \in waiting ~> c \notin waiting \/ raced

(* With clients that keep asking, a queued fax leaves the queue: the count *)
(* never hides it (if it is right: CountIsLength) and the lock is never    *)
(* kept.  (FileSession.cpp:1660-1714)                                      *)
EventuallyTaken == \A f \in Faxes : f \in Queued ~> f \notin Queued \/ raced

(* The faxes wait in the order they came; a client gets the one at the     *)
(* front, even though it is sent before it is removed; a cancellation      *)
(* removes one fax with its document; and the scan after a restart does    *)
(* not end before it has found every document there was: FaxInbox.         *)
(* (FileSession.cpp:276-375, 1660-1714; TcpSession.cpp:609-641, 1164-1171) *)
Inbox == INSTANCE FaxInbox WITH
    None <- NoOne, queue <- list, stored <- tif, job <- fax,
    unread <- IF main = "scan" THEN Faxes \ scanned ELSE {},
    pending <- IF main = "scan" THEN base \ scanned ELSE {}
ImplementsInbox == Inbox!Spec
=============================================================================
