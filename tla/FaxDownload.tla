----------------------------- MODULE FaxDownload -----------------------------
(***************************************************************************)
(* Receiving a fax.  The receiver thread takes the center's announcement   *)
(* (onRecvRequestReply): it allocates a FAX_RECVLIST, writes the fax's     *)
(* description to TID.ini, one WritePrivateProfileString per entry, and    *)
(* starts a thread (ReceiveFax), which connects to the file server, asks   *)
(* for the document and writes the blocks it gets to TID.ted.  When the    *)
(* server says it is complete, the thread copies TID.ted to TID.tif and    *)
(* puts the record into g_lsRecvFax, from where a client (or a             *)
(* cancellation) takes and deletes it.  The process may die at any point;  *)
(* the next one queues the .tif files it finds, with what their .ini says. *)
(*                                                                         *)
(* A TID may be announced again while or after its download: then several  *)
(* threads write the same files.  So the files are modelled as names, open *)
(* files and offsets.  A record is a number, and the thread that works on  *)
(* it has the same number.  A document is the blocks 1 .. Blocks; 0 is a   *)
(* hole, or a block of which only a part was written.                      *)
(***************************************************************************)
EXTENDS Naturals, Sequences, SequencesExt, FiniteSetsExt, IniFile

CONSTANTS
    Faxes,          \* TIDs
    Keys,           \* the entries of a description, in WriteSetting's order
    Blocks,         \* of a document
    MaxRec,         \* bound: announcements and faxes found, in one process
    MaxFail,        \* bound: calls on files that fail
    MaxCrash        \* bound: crashes

ASSUME NumberAssumption ==
    Blocks \in Nat \ {0} /\ MaxRec \in Nat /\ MaxFail \in Nat /\ MaxCrash \in Nat
ASSUME KeyAssumption ==
    Keys \in Seq(STRING \ {"["}) /\ "TID" \in Range(Keys) /\ Missing \notin Faxes
ASSUME FaxAssumption == IsFiniteSet(Faxes)

Recs == 1 .. MaxRec
Inodes == 1 .. 2 * MaxRec + Cardinality(Faxes)

VARIABLES
    list,           \* g_lsRecvFax
    life,           \* each FAX_RECVLIST: "none", "live", "freed", "twice"
    file,           \* the fax whose files it names
    desc,           \* its strTID, strCSID ...: Keys -> value
    pc,             \* its thread
    key,            \* the entries of TID.ini that are written
    hRecvFile,      \* "null", "open", or "bad" (INVALID_HANDLE_VALUE)
    open,           \* the open file behind it: [ino, pos]
    copy,           \* CopyFile: [ino, pos]
    rx,             \* the record onLCRCancelReply is removing, or 0
    dialect,        \* "send": TCP_FAX_SEND, STOPSEND; "recv": TCP_FAX_RECV ...
    next,           \* the block its server is at
    server,         \* its connection to the server
    ini, ted, tif,  \* the files by their names: lines, inode, blocks
    inode,          \* what the .ted files contain
    saved,          \* what WritePrivateProfileString is about to write
    fails, crashes,
    cause,          \* what may have damaged a fax's files (history)
    lost            \* the faxes some of whose description a call on TID.ini
                    \* that failed has lost (history)

records == <<list, life, file, desc>>
thread == <<pc, key, hRecvFile, open, copy>>
net == <<dialect, next, server>>
files == <<ini, ted, tif, inode, saved>>
counts == <<fails, crashes, cause, lost>>
vars == <<records, thread, rx, net, files, counts>>

NoFile == 0
NoIni == <<>>
NoTif == <<Blocks + 1>>

\* A description has its TID; the other entries are some text of the fax.
Value(f, k) == IF k = "TID" THEN f ELSE <<f, k>>
Description(f) == [k \in Range(Keys) |-> Value(f, k)]
strTID(r) == desc[r]["TID"]
Document == [b \in 1 .. Blocks |-> b]

Working == {"ini", "trunc", "connect", "create", "loop", "copy", "copying",
            "append", "report", "stop"}

\* "turn": the server sends next; "refused": and the last block was not taken;
\* "data", "stop": what it has sent; "silent": it waits for an answer.
ServerStates == {"none", "turn", "refused", "data", "stop", "silent", "closed"}

Causes == {"announced twice", "sent again", "copy failed",
           "crash in copy", "crash in cancel"}

OpenFiles == [ino : Inodes \cup {NoFile}, pos : 0 .. Blocks]

TypeOK ==
    /\ list \in Seq(Recs)
    /\ life \in [Recs -> {"none", "live", "freed"}]
    /\ file \in [Recs -> Faxes \cup {Missing}]
    /\ pc \in [Recs -> Working \cup {"none", "over"}]
    /\ key \in [Recs -> 0 .. Len(Keys)]
    /\ hRecvFile \in [Recs -> {"null", "open", "bad"}]
    /\ open \in [Recs -> OpenFiles] /\ copy \in [Recs -> OpenFiles]
    /\ rx \in Recs \cup {0}
    /\ dialect \in [Recs -> {"send", "recv"}]
    /\ next \in [Recs -> 1 .. Blocks + 1]
    /\ server \in [Recs -> ServerStates]
    /\ ted \in [Faxes -> Inodes \cup {NoFile}]
    /\ inode \in [Inodes -> Seq(0 .. Blocks)]
    /\ tif \in [Faxes -> Seq(0 .. Blocks + 1)]
    /\ cause \in [Faxes -> SUBSET Causes]

Closed == [ino |-> NoFile, pos |-> 0]

Init ==
    /\ list = <<>> /\ rx = 0 /\ saved = NoIni
    /\ life = [r \in Recs |-> "none"] /\ file = [r \in Recs |-> Missing]
    /\ desc = [r \in Recs |-> [k \in Range(Keys) |-> Missing]]
    /\ pc = [r \in Recs |-> "none"] /\ key = [r \in Recs |-> 0]
    /\ hRecvFile = [r \in Recs |-> "null"]
    /\ open = [r \in Recs |-> Closed] /\ copy = [r \in Recs |-> Closed]
    /\ dialect = [r \in Recs |-> "send"] /\ next = [r \in Recs |-> 1]
    /\ server = [r \in Recs |-> "none"]
    /\ ini = [f \in Faxes |-> NoIni] /\ tif = [f \in Faxes |-> NoTif]
    /\ ted = [f \in Faxes |-> NoFile] /\ inode = [i \in Inodes |-> <<>>]
    /\ fails = 0 /\ crashes = 0 /\ cause = [f \in Faxes |-> {}] /\ lost = {}

At(r, label) == pc[r] = label
Goto(r, label) == pc' = [pc EXCEPT ![r] = label]

\* delete pRecvFaxInfo
Freed(r) == [life EXCEPT ![r] = IF @ = "live" THEN "freed" ELSE "twice"]

Blame(f, c) == cause' = [cause EXCEPT ![f] = @ \cup {c}]

\* What is open, or has a name; of any other inode the content is gone.
Used(t, o, c) == Range(t) \cup {o[r].ino : r \in Recs} \cup {c[r].ino : r \in Recs}
Sweep ==
    inode' = [i \in Inodes |-> IF i \in Used(ted', open', copy') THEN inode[i] ELSE <<>>]

\* One more call on a file fails.
Fail == fails < MaxFail /\ fails' = fails + 1

-----------------------------------------------------------------------------
(* The receiver thread: onRecvRequestReply.                                *)

\* The receiver handles one packet after the other.
RxIdle == rx = 0 /\ \A r \in Recs : pc[r] \notin {"ini", "trunc"}

\* Its document is here, or it is in the list, or a thread is at it.
Known(f) ==
    \/ tif[f] # NoTif
    \/ \E r \in Recs : file[r] = f /\ (r \in Range(list) \/ pc[r] \in Working)

NextRec == Min({r \in Recs : life[r] = "none"})

Announce(f) ==
    /\ RxIdle /\ \E r \in Recs : life[r] = "none"
    /\ life' = [life EXCEPT ![NextRec] = "live"]
    /\ file' = [file EXCEPT ![NextRec] = f]
    /\ desc' = [desc EXCEPT ![NextRec] = Description(f)]
    /\ Goto(NextRec, "ini")
    /\ IF Known(f) THEN Blame(f, "announced twice") ELSE UNCHANGED cause
    /\ UNCHANGED <<list, key, hRecvFile, open, copy, rx, net, files, fails, crashes, lost>>

(* WriteSetting.  WritePrivateProfileString reads the file and opens it    *)
(* again, which empties it; what it writes is small enough to go out in    *)
(* one piece when the file is closed.  Nobody looks at its result.         *)
NextEntry(r, lines) ==
    LET k == Keys[key[r] + 1]
    IN WritePrivateProfileString(lines, "SYSTEM", k, desc[r][k])

IniBecomes(r, lines) == ini' = [ini EXCEPT ![file[r]] = lines]

EmptyIni(r) ==
    /\ At(r, "ini") /\ key[r] < Len(Keys)
    /\ saved' = NextEntry(r, ini[file[r]])
    /\ IniBecomes(r, NoIni)
    /\ Goto(r, "trunc")
    /\ UNCHANGED <<records, key, hRecvFile, open, copy, rx, net, ted, tif, inode, counts>>

EntryDone(r) == key' = [key EXCEPT ![r] = @ + 1] /\ Goto(r, "ini")

WriteIni(r) ==
    /\ At(r, "trunc")
    /\ IniBecomes(r, saved) /\ saved' = NoIni
    /\ EntryDone(r)
    /\ UNCHANGED <<records, hRecvFile, open, copy, rx, net, ted, tif, inode, counts>>

SettingFails(r) ==
    /\ Fail /\ lost' = lost \cup {file[r]}
    /\ UNCHANGED <<records, hRecvFile, open, copy, rx, net, ted, tif, inode, crashes, cause>>

\* A file that cannot be opened for reading counts as empty, and is emptied;
\* one that cannot be opened for writing stays as it is, without the entry.
EmptyIniFails(r) ==
    /\ At(r, "ini") /\ key[r] < Len(Keys) /\ SettingFails(r)
    /\ \/ /\ saved' = NextEntry(r, NoIni) /\ IniBecomes(r, NoIni)
          /\ Goto(r, "trunc") /\ UNCHANGED key
       \/ EntryDone(r) /\ UNCHANGED <<ini, saved>>

\* The lines do not get to the disk, or not all do.  (A part of a line counts
\* as none, as no entry is found in it, and so does a header without its entry.)
WriteIniFails(r) ==
    /\ At(r, "trunc") /\ SettingFails(r)
    /\ \E n \in 0 .. Len(saved) - 1 :
          n % 2 = 0 /\ IniBecomes(r, SubSeq(saved, 1, n))
    /\ saved' = NoIni /\ EntryDone(r)

\* _beginthread
StartReceiveFax(r) ==
    /\ At(r, "ini") /\ key[r] = Len(Keys)
    /\ Goto(r, "connect") /\ key' = [key EXCEPT ![r] = 0]
    /\ UNCHANGED <<records, hRecvFile, open, copy, rx, net, files, counts>>

-----------------------------------------------------------------------------
(* ReceiveFax, up to its loop.                                             *)

\* It is connected and has asked for the document (whether or not that
\* could be sent) ...
Connect(r) ==
    /\ At(r, "connect") /\ Goto(r, "create")
    /\ server' = [server EXCEPT ![r] = "turn"]
    /\ dialect' \in {[dialect EXCEPT ![r] = d] : d \in {"send", "recv"}}
    /\ UNCHANGED <<records, key, hRecvFile, open, copy, rx, next, files, counts>>

GiveUp(r) == Goto(r, "over") /\ life' = Freed(r)

\* ... or there is no host, no socket or no server.
ConnectFails(r) ==
    /\ At(r, "connect") /\ GiveUp(r)
    /\ UNCHANGED <<list, file, desc, key, hRecvFile, open, copy, rx, net, files, counts>>

\* open(name, O_WRONLY | O_CREAT | O_TRUNC), of TID.ted; i is its inode.
TedInode(f) == IF ted[f] # NoFile THEN ted[f] ELSE Min(Inodes \ Used(ted, open, copy))
CreateTed(f, i) ==
    /\ ted' = [ted EXCEPT ![f] = i]
    /\ inode' = [inode EXCEPT ![i] = <<>>]

\* The handle this returns is closed at the end, and is never written to.
CreateFirst(r) ==
    /\ At(r, "create") /\ Goto(r, "loop")
    /\ CreateTed(file[r], TedInode(file[r]))
    /\ UNCHANGED <<records, key, hRecvFile, open, copy, rx, net, ini, tif, saved, counts>>

CreateFirstFails(r) ==
    /\ At(r, "create") /\ Fail /\ GiveUp(r)
    /\ server' = [server EXCEPT ![r] = "closed"]
    /\ UNCHANGED <<list, file, desc, key, hRecvFile, open, copy, rx, dialect, next,
                   files, crashes, cause, lost>>

-----------------------------------------------------------------------------
(* The file server sends a block or the end and waits for the answer.      *)

ServerSays(r, s) ==
    /\ server' = [server EXCEPT ![r] = s]
    /\ UNCHANGED <<records, thread, rx, dialect, files, fails, crashes, lost>>

ServerSends(r) ==
    /\ server[r] = "turn" /\ next[r] <= Blocks
    /\ ServerSays(r, "data") /\ UNCHANGED <<next, cause>>

ServerStops(r) ==
    /\ server[r] = "refused" \/ (server[r] = "turn" /\ next[r] > Blocks)
    /\ ServerSays(r, "stop") /\ UNCHANGED <<next, cause>>

\* It sends a block again that was refused.
ServerRetries(r) ==
    /\ server[r] = "refused" /\ ServerSays(r, "data")
    /\ Blame(file[r], "sent again") /\ UNCHANGED next

\* The connection ends; what was under way is lost.
ServerCloses(r) ==
    /\ server[r] \notin {"none", "closed"}
    /\ ServerSays(r, "closed") /\ UNCHANGED <<next, cause>>

-----------------------------------------------------------------------------
(* ReceivePacket.                                                          *)

Receives(r, c) == At(r, "loop") /\ server[r] = c

\* The first block, or the first after one that was refused: CreateFile.
OpenFile(r) ==
    /\ Receives(r, "data") /\ hRecvFile[r] = "null"
    /\ LET i == TedInode(file[r])
       IN CreateTed(file[r], i) /\ open' = [open EXCEPT ![r] = [ino |-> i, pos |-> 0]]
    /\ hRecvFile' = [hRecvFile EXCEPT ![r] = "open"]
    /\ UNCHANGED <<records, pc, key, copy, rx, net, ini, tif, saved, counts>>

OpenFileFails(r) ==
    /\ Receives(r, "data") /\ hRecvFile[r] = "null" /\ Fail
    /\ hRecvFile' = [hRecvFile EXCEPT ![r] = "bad"]
    /\ UNCHANGED <<records, pc, key, open, copy, rx, net, files, crashes, cause, lost>>

\* write() at an offset, past the end too.
Written(blocks, pos, b) ==
    [i \in 1 .. Max({Len(blocks), pos + 1}) |->
        IF i = pos + 1 THEN b ELSE IF i <= Len(blocks) THEN blocks[i] ELSE 0]

WriteTo(r, b) ==
    LET o == open[r]
    IN /\ inode' = [inode EXCEPT ![o.ino] = Written(@, o.pos, b)]
       /\ open' = [open EXCEPT ![r].pos = @ + 1]

WriteBlock(r) ==
    /\ Receives(r, "data") /\ hRecvFile[r] = "open"
    /\ WriteTo(r, next[r])
    /\ next' = [next EXCEPT ![r] = @ + 1]
    /\ server' = [server EXCEPT ![r] = "turn"]
    /\ UNCHANGED <<records, pc, key, hRecvFile, copy, rx, dialect, ini, ted, tif, saved,
                   counts>>

\* TCP_FAX_SEND closes the file and says that it failed ...
AfterRefusal(r) == IF hRecvFile[r] = "open" THEN "null" ELSE hRecvFile[r]

\* ... TCP_FAX_RECV does neither.
Refuse(r) ==
    IF dialect[r] = "send"
    THEN /\ hRecvFile' = [hRecvFile EXCEPT ![r] = AfterRefusal(r)]
         /\ server' = [server EXCEPT ![r] = "refused"]
    ELSE UNCHANGED hRecvFile /\ server' = [server EXCEPT ![r] = "silent"]

\* write() fails, or writes a part of the block.
WriteBlockFails(r) ==
    /\ Receives(r, "data") /\ hRecvFile[r] = "open" /\ Fail
    /\ WriteTo(r, 0) \/ UNCHANGED <<inode, open>>
    /\ Refuse(r)
    /\ UNCHANGED <<records, pc, key, copy, rx, dialect, next, ini, ted, tif, saved,
                   crashes, cause, lost>>

NoFileOpen(r) ==
    /\ Receives(r, "data") /\ hRecvFile[r] = "bad"
    /\ Refuse(r)
    /\ UNCHANGED <<records, pc, key, open, copy, rx, dialect, next, files, counts>>

\* TCP_FAX_STOPSEND and STOPRECV: only the first closes the file.
ReceiveStop(r) ==
    /\ Receives(r, "stop")
    /\ IF hRecvFile[r] = "open"
       THEN /\ Goto(r, "copy")
            /\ hRecvFile' = [hRecvFile EXCEPT
                                ![r] = IF dialect[r] = "send" THEN "null" ELSE "open"]
       ELSE Goto(r, "stop") /\ UNCHANGED hRecvFile
    /\ UNCHANGED <<records, key, open, copy, rx, net, files, counts>>

\* CopyFile, whose result nobody looks at, and DeleteFile of TID.ted.
CopyOpen(r) ==
    /\ At(r, "copy") /\ ted[file[r]] # NoFile /\ Goto(r, "copying")
    /\ copy' = [copy EXCEPT ![r] = [ino |-> ted[file[r]], pos |-> 0]]
    /\ tif' = [tif EXCEPT ![file[r]] = <<>>]
    /\ UNCHANGED <<records, key, hRecvFile, open, rx, net, ini, ted, inode, saved, counts>>

\* What is written to a .tif that a cancellation has deleted is lost.
CopyBlock(r) ==
    /\ At(r, "copying") /\ copy[r].pos < Len(inode[copy[r].ino])
    /\ tif' = [tif EXCEPT ![file[r]] =
                 IF @ = NoTif THEN NoTif
                 ELSE Written(@, copy[r].pos, inode[copy[r].ino][copy[r].pos + 1])]
    /\ copy' = [copy EXCEPT ![r].pos = @ + 1]
    /\ UNCHANGED <<records, pc, key, hRecvFile, open, rx, net, ini, ted, inode, saved, counts>>

\* Mutant of DeleteTed: the record is queued as soon as the copy has begun.
DeleteEarly(r) == copy[r].pos >= 1

DeleteTed(r) == copy[r].pos >= Len(inode[copy[r].ino])

CopyDone(r) ==
    /\ At(r, "copying") /\ DeleteTed(r)
    /\ Goto(r, "append")
    /\ ted' = [ted EXCEPT ![file[r]] = NoFile]
    /\ copy' = [copy EXCEPT ![r] = Closed]
    /\ UNCHANGED <<records, key, hRecvFile, open, rx, net, ini, tif, saved, counts>>
    /\ Sweep

\* Another thread's DeleteFile came first; or a call fails.
CopyFails(r) ==
    /\ \/ At(r, "copy") /\ ted[file[r]] = NoFile /\ UNCHANGED fails
       \/ pc[r] \in {"copy", "copying"} /\ Fail
    /\ Goto(r, "append") /\ Blame(file[r], "copy failed")
    /\ ted' = [ted EXCEPT ![file[r]] = NoFile]
    /\ copy' = [copy EXCEPT ![r] = Closed]
    /\ UNCHANGED <<records, key, hRecvFile, open, rx, net, ini, tif, saved, crashes, lost>>
    /\ Sweep

\* g_csRecvList is free.
Unlocked == rx = 0

Queue(r) ==
    /\ At(r, "append") /\ Unlocked
    /\ list' = Append(list, r)
    /\ Goto(r, IF dialect[r] = "send" THEN "report" ELSE "stop")
    /\ UNCHANGED <<life, file, desc, key, hRecvFile, open, copy, rx, net, files, counts>>

\* onLCRReport reads the record's strTID.
Report(r) ==
    /\ At(r, "report") /\ Goto(r, "stop")
    /\ UNCHANGED <<records, key, hRecvFile, open, copy, rx, net, files, counts>>

\* closesocket, and nobody uses the record's handle again (whether or not the
\* file is still open).
End(r) ==
    /\ Goto(r, "over")
    /\ hRecvFile' = [hRecvFile EXCEPT ![r] = "null"]
    /\ server' = [server EXCEPT ![r] = "none"]
    /\ next' = [next EXCEPT ![r] = 1] /\ dialect' = [dialect EXCEPT ![r] = "send"]
    /\ open' = [open EXCEPT ![r] = Closed]
    /\ UNCHANGED <<records, key, copy, rx, ini, ted, tif, saved, counts>>
    /\ Sweep

\* The server is told that all is well, whatever became of the document.
AnswerStop(r) == At(r, "stop") /\ End(r)

\* Mutant of GetPacketFails: recv()'s -1 is not told from a packet.
GetPacketAgain(r) == At(r, "loop") /\ server[r] = "closed" /\ UNCHANGED vars

\* The record stays allocated.
GetPacketFails(r) == At(r, "loop") /\ server[r] = "closed" /\ End(r)

-----------------------------------------------------------------------------
(* The end of a record: a client has got it (GW_FAX_REQUESTRECV), or the   *)
(* center cancels the fax (onLCRCancelReply).                              *)

Take ==
    /\ Unlocked /\ list # <<>>
    /\ life' = Freed(Head(list)) /\ list' = Tail(list)
    /\ UNCHANGED <<file, desc, thread, rx, net, files, counts>>

Listed(f) == {i \in 1 .. Len(list) : strTID(list[i]) = f}

CancelIni(f) ==
    /\ RxIdle /\ Listed(f) # {}
    /\ rx' = list[Min(Listed(f))]
    /\ ini' = [ini EXCEPT ![f] = NoIni]
    /\ UNCHANGED <<records, thread, net, ted, tif, inode, saved, counts>>

\* Mutant of Erased: the record is deleted and stays in the list.
NotErased(r) == list

\* g_lsRecvFax.erase(iter)
Erased(r) == RemoveAt(list, Min({i \in 1 .. Len(list) : list[i] = r}))

CancelTif ==
    /\ rx # 0 /\ rx' = 0
    /\ tif' = [tif EXCEPT ![file[rx]] = NoTif]
    /\ life' = Freed(rx) /\ list' = Erased(rx)
    /\ UNCHANGED <<file, desc, thread, net, ini, ted, inode, saved, counts>>

-----------------------------------------------------------------------------
(* The process dies, and the next one looks for files: SearchFile, and     *)
(* CleanFile if there is no .tif.                                          *)

\* Each entry is read by a call of its own; those of "unread" cannot open the
\* file, and return the default.
GetSetting(f, unread) ==
    [k \in Range(Keys) |->
        IF <<f, k>> \in unread THEN Missing
        ELSE GetPrivateProfileString(ini[f], "SYSTEM", k)]

Orders(S) == {s \in [1 .. Cardinality(S) -> S] : Range(s) = S}

\* The faxes found, in the order of the directory, become the records 1 ...
SearchFile(found, unread) ==
    LET n == Len(found)
        New(old, new(_)) == [r \in Recs |-> IF r <= n THEN new(found[r]) ELSE old]
    IN /\ list' = [i \in 1 .. n |-> i]
       /\ life' = New("none", LAMBDA f : "live")
       /\ file' = New(Missing, LAMBDA f : f)
       /\ desc' = New([k \in Range(Keys) |-> Missing], LAMBDA f : GetSetting(f, unread))

CleanFile(found) ==
    IF found = <<>>
    THEN /\ ted' = [f \in Faxes |-> NoFile]
         /\ ini' = [f \in Faxes |-> NoIni]
    ELSE UNCHANGED <<ted, ini>>

\* What the dying process leaves half done.
Damage(f) ==
    {c \in {"crash in copy"} : \E r \in Recs : file[r] = f /\ pc[r] \in {"copy", "copying"}}
    \cup {c \in {"crash in cancel"} : rx # 0 /\ file[rx] = f}

Crash ==
    /\ crashes < MaxCrash /\ crashes' = crashes + 1
    /\ cause' = [f \in Faxes |-> cause[f] \cup Damage(f)]
    /\ LET stored == {f \in Faxes : tif[f] # NoTif}
       IN \E found \in Orders(stored), unread \in SUBSET (stored \X Range(Keys)) :
             /\ Len(found) <= MaxRec /\ fails + Cardinality(unread) <= MaxFail
             /\ SearchFile(found, unread) /\ CleanFile(found)
             /\ fails' = fails + Cardinality(unread)
             /\ lost' = lost \cup {entry[1] : entry \in unread}
    /\ pc' = [r \in Recs |-> "none"] /\ key' = [r \in Recs |-> 0]
    /\ hRecvFile' = [r \in Recs |-> "null"]
    /\ open' = [r \in Recs |-> Closed] /\ copy' = [r \in Recs |-> Closed]
    /\ dialect' = [r \in Recs |-> "send"] /\ next' = [r \in Recs |-> 1]
    /\ server' = [r \in Recs |-> "none"]
    /\ rx' = 0 /\ saved' = NoIni
    /\ UNCHANGED tif
    /\ Sweep

-----------------------------------------------------------------------------
ReceiveFax(r) ==
    \/ Connect(r) \/ ConnectFails(r) \/ CreateFirst(r) \/ CreateFirstFails(r)
    \/ OpenFile(r) \/ OpenFileFails(r) \/ WriteBlock(r) \/ WriteBlockFails(r)
    \/ NoFileOpen(r) \/ ReceiveStop(r)
    \/ CopyOpen(r) \/ CopyBlock(r) \/ CopyDone(r) \/ CopyFails(r)
    \/ Queue(r) \/ Report(r) \/ AnswerStop(r) \/ GetPacketFails(r)

WriteSetting(r) ==
    \/ EmptyIni(r) \/ EmptyIniFails(r) \/ WriteIni(r) \/ WriteIniFails(r)
    \/ StartReceiveFax(r)

Receiver == CancelTif \/ \E r \in Recs : WriteSetting(r)

FileServer(r) ==
    \/ ServerSends(r) \/ ServerStops(r) \/ ServerRetries(r) \/ ServerCloses(r)

Others == Take \/ Crash \/ \E f \in Faxes : Announce(f) \/ CancelIni(f)

Next == Others \/ Receiver \/ \E r \in Recs : ReceiveFax(r) \/ FileServer(r)

Spec == Init /\ [][Next]_vars

(* The threads run.  The file server does something, if only closing the   *)
(* connection, and does not send a refused block for ever: there is no     *)
(* time-out in the gateway, which waits for it as long as it takes.        *)
FairSpec ==
    /\ Spec /\ WF_vars(Receiver)
    /\ \A r \in Recs : /\ WF_vars(ReceiveFax(r)) /\ WF_vars(FileServer(r))
                       /\ SF_vars(ServerStops(r))

-----------------------------------------------------------------------------
\* A fax in the list has its whole document, unless its TID was announced
\* again, a refused block was sent again, or the copy failed or was cut short.
WholeDocument ==
    \A i \in 1 .. Len(list) :
        LET f == file[list[i]]
        IN cause[f] = {} => tif[f] = Document

\* A fax in the list has its own description, be it this process that wrote
\* it or an earlier one.  (What loses it: a call on TID.ini that fails, a crash
\* between the two deletions of a cancellation, or one that hits a second
\* announcement; a crash by itself does not, and neither does a call on TID.ted
\* or TID.tif that fails.)
DescriptionKept ==
    \A i \in 1 .. Len(list) :
        LET f == file[list[i]]
        IN cause[f] \cap {"announced twice", "crash in cancel"} = {} /\ f \notin lost
              => desc[list[i]] = Description(f)

\* Each record has one owner: no record is listed twice or deleted twice, what
\* is listed is alive, and what is deleted no thread uses, but for the report,
\* which may come after a client has taken the fax.
RecordsOwned ==
    /\ IsInjective(list)
    /\ \A r \in Range(list) : life[r] = "live"
    /\ \A r \in Recs : life[r] # "twice"
    /\ \A r \in Recs : life[r] = "freed" => pc[r] \in {"none", "report", "stop", "over"}

\* Each download ends: with the fax in the list, or without it.
DownloadEnds == \A r \in Recs : pc[r] \in Working ~> pc[r] \notin Working

\* The faxes wait in the order in which they were downloaded, or found; a
\* client gets the one at the front; a cancellation deletes the document of
\* the fax it removes, though in two steps; a restart queues each document
\* once, and none is missed: FaxInbox.
Inbox == INSTANCE FaxInbox WITH
    Jobs <- Recs, None <- Missing,
    queue <- [i \in 1 .. Len(list) |-> file[list[i]]],
    job <- [r \in Recs |-> IF pc[r] \in Working \ {"report", "stop"}
                           THEN file[r] ELSE Missing],
    stored <- {f \in Faxes : tif[f] # NoTif}, unread <- {}, pending <- {}
ImplementsInbox == Inbox!Spec
=============================================================================
