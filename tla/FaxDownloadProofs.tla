------------------------- MODULE FaxDownloadProofs --------------------------
(***************************************************************************)
(* Received faxes, for any number of faxes, blocks, announcements, failing *)
(* calls and crashes.  Who has a record: its thread until it is in the     *)
(* list, then the list until it is taken or cancelled (Owned).  Whose the  *)
(* files are: one record works for a fax that is announced once (Once),    *)
(* and no two faxes share an inode (Owns).  What is in them: TID.ted is    *)
(* the document up to where the thread is, TID.tif the part of it that is  *)
(* copied (Whole); TID.ini has the entries that are written so far, where  *)
(* they are found again (Settings), so that the descriptions are kept      *)
(* (Safe).  And that all this implements FaxInbox (InboxStep).             *)
(***************************************************************************)
EXTENDS FaxDownload, SequenceTheorems, FiniteSetTheorems, WellFoundedInduction, TLAPS

\* The thread has the record for itself.
Busy == {"ini", "trunc", "connect", "create", "loop", "copy", "copying", "append"}

Owned ==
    /\ list \in Seq(Recs)
    /\ \A i, j \in 1 .. Len(list) : list[i] = list[j] => i = j
    /\ \A i \in 1 .. Len(list) : life[list[i]] = "live" /\ pc[list[i]] \notin Busy
    /\ life \in [Recs -> {"none", "live", "freed"}]
    /\ pc \in [Recs -> Working \cup {"none", "over"}]
    /\ \A r \in Recs : /\ pc[r] \in Busy => life[r] = "live"
                       /\ life[r] = "none" => pc[r] = "none"
    /\ rx # 0 => \E i \in 1 .. Len(list) : rx = list[i]

-----------------------------------------------------------------------------
(* Numbers and sequences.                                                  *)

\* A set of numbers that is not empty has a least member.
LEMMA HasMin == ASSUME NEW I \in SUBSET Nat, I # {} PROVE Min(I) \in I
<1> DEFINE less == {p \in Nat \X Nat : p[1] < p[2]}
<1>1. IsWellFoundedOn(less, Nat)
  BY NatLessThanWellFounded, Zenon DEF OpToRel
<1>2. PICK x \in I : \A y \in I : <<y, x>> \notin less
  <2> HIDE DEF less
  <2> QED BY <1>1, WFMin
<1>3. \A y \in I : x \in Nat /\ y \in Nat /\ (y < x => <<y, x>> \in less)
  OBVIOUS
<1> HIDE DEF less
<1>4. ASSUME NEW y \in I PROVE x <= y
  <2>1. ~(y < x) /\ x \in Nat /\ y \in Nat
    BY <1>2, <1>3
  <2> QED BY ONLY <2>1
<1> QED BY <1>4 DEF Min

\* A sequence without the member at one position.
LEMMA Removed ==
    ASSUME NEW S, NEW s \in Seq(S), NEW k \in 1 .. Len(s)
    PROVE  LET t == RemoveAt(s, k) IN
           /\ t \in Seq(S) /\ Len(t) = Len(s) - 1
           /\ \A i \in 1 .. Len(s) - 1 : t[i] = s[IF i < k THEN i ELSE i + 1]
<1> DEFINE a == SubSeq(s, 1, k - 1)
           b == SubSeq(s, k + 1, Len(s))
<1>1. Len(s) \in Nat /\ \A i \in 1 .. Len(s) : s[i] \in S
  BY LenProperties, ElementOfSeq
<1>2. a \in Seq(S) /\ Len(a) = k - 1 /\ \A i \in 1 .. k - 1 : a[i] = s[i]
  <2>1. /\ a \in Seq(S) /\ Len(a) = IF 1 <= k - 1 THEN (k - 1) - 1 + 1 ELSE 0
        /\ \A i \in 1 .. (k - 1) - 1 + 1 : a[i] = s[1 + i - 1]
    BY <1>1, SubSeqProperties
  <2> QED BY <1>1, <2>1
<1>3. /\ b \in Seq(S) /\ Len(b) = Len(s) - k
      /\ \A i \in 1 .. Len(s) - k : b[i] = s[k + i]
  <2>1. /\ b \in Seq(S)
        /\ Len(b) = IF k + 1 <= Len(s) THEN Len(s) - (k + 1) + 1 ELSE 0
        /\ \A i \in 1 .. Len(s) - (k + 1) + 1 : b[i] = s[k + 1 + i - 1]
    BY <1>1, SubSeqProperties
  <2> QED BY <1>1, <2>1
<1>4. RemoveAt(s, k) = a \o b
  BY DEF RemoveAt
<1> HIDE DEF a, b
<1>5. /\ a \o b \in Seq(S) /\ Len(a \o b) = Len(a) + Len(b)
      /\ \A i \in 1 .. Len(a) + Len(b) :
             (a \o b)[i] = IF i <= Len(a) THEN a[i] ELSE b[i - Len(a)]
  BY <1>2, <1>3, ConcatProperties
<1> QED BY <1>1, <1>2, <1>3, <1>4, <1>5

-----------------------------------------------------------------------------
LEMMA InitOwned == Init => Owned
<1> SUFFICES ASSUME Init PROVE Owned
  OBVIOUS
<1>1. list = <<>> /\ list \in Seq(Recs) /\ Len(list) = 0
  BY DEF Init
<1> QED BY <1>1 DEF Init, Owned, Busy

\* Most steps only move a thread on.
LEMMA MovesOn ==
    ASSUME Owned, NEW r \in Recs, pc[r] \in Working,
           NEW label \in Working \cup {"over"}, Goto(r, label),
           label \in Busy => pc[r] \in Busy, UNCHANGED <<list, life, rx>>
    PROVE  Owned'
<1>1. pc' \in [Recs -> Working \cup {"none", "over"}]
      /\ \A s \in Recs : pc'[s] = IF s = r THEN label ELSE pc[s]
  BY DEF Owned, Goto
<1>2. \A s \in Recs : pc'[s] \in Busy => pc[s] \in Busy
  BY <1>1
<1>3. \A s \in Recs : /\ pc'[s] \in Busy => life[s] = "live"
                      /\ life[s] = "none" => pc'[s] = "none"
  BY <1>1, <1>2 DEF Owned, Working
<1>4. \A i \in 1 .. Len(list) : list[i] \in Recs
  BY DEF Owned
<1>5. \A i \in 1 .. Len(list) : life[list[i]] = "live" /\ pc'[list[i]] \notin Busy
  BY <1>2, <1>4 DEF Owned
<1> QED BY <1>1, <1>3, <1>5 DEF Owned

\* A thread that gives up deletes its record: it is not listed.
LEMMA GivesUp ==
    ASSUME Owned, NEW r \in Recs, pc[r] \in Busy, GiveUp(r), UNCHANGED <<list, rx>>
    PROVE  Owned'
<1>1. life[r] = "live"
  BY DEF Owned
<1>2. /\ life' = [life EXCEPT ![r] = "freed"]
      /\ pc' = [pc EXCEPT ![r] = "over"]
  BY <1>1 DEF GiveUp, Freed, Goto, Owned
<1>3. \A i \in 1 .. Len(list) : list[i] \in Recs /\ list[i] # r
  BY DEF Owned
<1>4. /\ life' \in [Recs -> {"none", "live", "freed"}]
      /\ pc' \in [Recs -> Working \cup {"none", "over"}]
      /\ \A s \in Recs \ {r} : life'[s] = life[s] /\ pc'[s] = pc[s]
      /\ life'[r] = "freed" /\ pc'[r] = "over"
  BY <1>2 DEF Owned
<1>5. \A i \in 1 .. Len(list) : life'[list[i]] = "live" /\ pc'[list[i]] \notin Busy
  BY <1>3, <1>4 DEF Owned
<1>6. \A s \in Recs : /\ pc'[s] \in Busy => life'[s] = "live"
                      /\ life'[s] = "none" => pc'[s] = "none"
  BY <1>4 DEF Owned, Busy
<1> QED BY <1>4, <1>5, <1>6 DEF Owned

\* The list loses the record at position k, which is deleted.
LEMMA Leaves ==
    ASSUME Owned, NEW k \in 1 .. Len(list), life' = Freed(list[k]), rx' = 0,
           list' \in Seq(Recs), Len(list') = Len(list) - 1,
           \A i \in 1 .. Len(list) - 1 : list'[i] = list[IF i < k THEN i ELSE i + 1],
           UNCHANGED pc
    PROVE  Owned'
<1>1. /\ Len(list) \in Nat /\ list[k] \in Recs /\ life[list[k]] = "live"
      /\ pc[list[k]] \notin Busy
  BY DEF Owned
<1>2. life' = [life EXCEPT ![list[k]] = "freed"]
  BY <1>1 DEF Freed, Owned
<1>3. /\ life' \in [Recs -> {"none", "live", "freed"}] /\ life'[list[k]] = "freed"
      /\ \A s \in Recs \ {list[k]} : life'[s] = life[s]
  BY <1>1, <1>2 DEF Owned
<1> DEFINE at(i) == IF i < k THEN i ELSE i + 1
<1>4. \A i \in 1 .. Len(list) - 1 : at(i) \in 1 .. Len(list) /\ at(i) # k
                                    /\ list'[i] = list[at(i)]
  BY <1>1
<1>5. \A i, j \in 1 .. Len(list) - 1 : at(i) = at(j) => i = j
  BY <1>1
<1> HIDE DEF at
<1>6. ASSUME NEW i \in 1 .. Len(list'), NEW j \in 1 .. Len(list'), list'[i] = list'[j]
      PROVE  i = j
  <2>1. at(i) = at(j)
    BY <1>4, <1>6 DEF Owned
  <2> QED BY <1>5, <2>1
<1>7. ASSUME NEW i \in 1 .. Len(list')
      PROVE  life'[list'[i]] = "live" /\ pc[list'[i]] \notin Busy
  <2>1. list'[i] = list[at(i)] /\ at(i) \in 1 .. Len(list) /\ list[at(i)] # list[k]
    BY <1>4 DEF Owned
  <2>2. life[list[at(i)]] = "live" /\ pc[list[at(i)]] \notin Busy /\ list[at(i)] \in Recs
    BY <2>1 DEF Owned
  <2> QED BY <1>3, <2>1, <2>2
<1>8. \A s \in Recs : /\ pc[s] \in Busy => life'[s] = "live"
                      /\ life'[s] = "none" => pc[s] = "none"
  BY <1>1, <1>3 DEF Owned
<1> QED BY <1>3, <1>6, <1>7, <1>8 DEF Owned

\* The record that new takes is not in use.
LEMMA FreeRecord ==
    ASSUME \E r \in Recs : life[r] = "none"
    PROVE  NextRec \in Recs /\ life[NextRec] = "none"
<1> DEFINE I == {r \in Recs : life[r] = "none"}
<1>1. I \in SUBSET Nat
  BY DEF Recs
<1>2. I # {}
  OBVIOUS
<1> HIDE DEF I
<1>3. Min(I) \in I
  BY <1>1, <1>2, HasMin
<1> QED BY <1>3 DEF I, NextRec

LEMMA AnnounceOwned == ASSUME Owned, NEW f \in Faxes, Announce(f) PROVE Owned'
<1> DEFINE r == NextRec
<1>1. r \in Recs /\ life[r] = "none"
  BY FreeRecord DEF Announce
<1>2. /\ life' = [life EXCEPT ![r] = "live"] /\ pc' = [pc EXCEPT ![r] = "ini"]
      /\ UNCHANGED <<list, rx>>
  BY DEF Announce, Goto
<1> HIDE DEF r
<1>3. /\ life' \in [Recs -> {"none", "live", "freed"}]
      /\ pc' \in [Recs -> Working \cup {"none", "over"}]
      /\ \A s \in Recs \ {r} : life'[s] = life[s] /\ pc'[s] = pc[s]
      /\ life'[r] = "live" /\ pc'[r] = "ini"
  BY <1>1, <1>2 DEF Owned, Working
<1>4. \A i \in 1 .. Len(list) : list[i] \in Recs \ {r}
  BY <1>1 DEF Owned
<1>5. \A i \in 1 .. Len(list) : life'[list[i]] = "live" /\ pc'[list[i]] \notin Busy
  BY <1>3, <1>4 DEF Owned
<1>6. \A s \in Recs : /\ pc'[s] \in Busy => life'[s] = "live"
                      /\ life'[s] = "none" => pc'[s] = "none"
  BY <1>3 DEF Owned
<1> QED BY <1>2, <1>3, <1>5, <1>6 DEF Owned

LEMMA QueueOwned == ASSUME Owned, NEW r \in Recs, Queue(r) PROVE Owned'
<1>1. list' = Append(list, r) /\ life' = life /\ rx' = 0 /\ rx = 0 /\ pc[r] = "append"
  BY DEF Queue, At, Unlocked
<1>2. PICK label \in {"report", "stop"} : pc' = [pc EXCEPT ![r] = label]
  BY DEF Queue, Goto
<1>3. life[r] = "live" /\ \A i \in 1 .. Len(list) : list[i] \in Recs \ {r}
  BY <1>1 DEF Owned, Busy
<1>4. /\ pc' \in [Recs -> Working \cup {"none", "over"}] /\ pc'[r] = label
      /\ \A s \in Recs \ {r} : pc'[s] = pc[s]
  BY <1>2 DEF Owned, Working
<1>5. /\ list' \in Seq(Recs) /\ Len(list') = Len(list) + 1 /\ Len(list) \in Nat
      /\ \A i \in 1 .. Len(list) : list'[i] = list[i]
      /\ list'[Len(list) + 1] = r
  BY <1>1, AppendProperties, LenProperties DEF Owned
<1>6. ASSUME NEW i \in 1 .. Len(list'), NEW j \in 1 .. Len(list'), list'[i] = list'[j]
      PROVE  i = j
  BY <1>3, <1>5, <1>6 DEF Owned
<1>7. ASSUME NEW i \in 1 .. Len(list')
      PROVE  life'[list'[i]] = "live" /\ pc'[list'[i]] \notin Busy
  <2>1. CASE i \in 1 .. Len(list)
    <3>1. life[list[i]] = "live" /\ pc[list[i]] \notin Busy
      BY <2>1 DEF Owned
    <3> QED BY <1>1, <1>3, <1>4, <1>5, <2>1, <3>1
  <2>2. CASE i = Len(list) + 1
    BY <1>1, <1>3, <1>4, <1>5, <2>2 DEF Busy
  <2> QED BY <1>5, <2>1, <2>2
<1>8. \A s \in Recs : /\ pc'[s] \in Busy => life'[s] = "live"
                      /\ life'[s] = "none" => pc'[s] = "none"
  BY <1>1, <1>3, <1>4 DEF Owned, Busy
<1> QED BY <1>1, <1>4, <1>5, <1>6, <1>7, <1>8 DEF Owned

LEMMA TakeOwned == ASSUME Owned, Take PROVE Owned'
<1>1. /\ life' = Freed(Head(list)) /\ list' = Tail(list) /\ rx' = 0
      /\ list # <<>> /\ UNCHANGED pc
  BY DEF Take, Unlocked, thread
<1>2. list \in Seq(Recs)
  BY DEF Owned
<1>3. /\ Tail(list) \in Seq(Recs) /\ Len(Tail(list)) = Len(list) - 1
      /\ \A i \in 1 .. Len(list) - 1 : Tail(list)[i] = list[i + 1]
      /\ Head(list) = list[1] /\ 1 \in 1 .. Len(list)
  BY <1>1, <1>2
<1>4. \A i \in 1 .. Len(list) - 1 : list'[i] = list[IF i < 1 THEN i ELSE i + 1]
  BY <1>1, <1>3
<1> QED BY <1>1, <1>3, <1>4, Leaves

LEMMA CancelOwned ==
    ASSUME Owned, (\E f \in Faxes : CancelIni(f)) \/ CancelTif PROVE Owned'
<1>0. Len(list) \in Nat /\ list \in Seq(Recs)
  BY DEF Owned
<1>1. ASSUME NEW f \in Faxes, CancelIni(f) PROVE Owned'
  <2>1. Listed(f) \in SUBSET Nat /\ Listed(f) # {}
    BY <1>1 DEF CancelIni, Listed
  <2>2. Min(Listed(f)) \in 1 .. Len(list)
    <3>1. Min(Listed(f)) \in Listed(f)
      BY <2>1, HasMin
    <3> QED BY <3>1 DEF Listed
  <2>3. rx' = list[Min(Listed(f))] /\ UNCHANGED <<list, life, pc>>
    BY <1>1 DEF CancelIni, records, thread
  <2>4. \E i \in 1 .. Len(list) : rx' = list[i]
    BY <2>2, <2>3
  <2> QED BY <2>3, <2>4 DEF Owned
<1>2. CASE CancelTif
  <2> DEFINE I == {i \in 1 .. Len(list) : list[i] = rx}
  <2>1. I \in SUBSET Nat /\ I # {}
    BY <1>2 DEF CancelTif, Owned
  <2>2. Min(I) \in I
    <3> HIDE DEF I
    <3> QED BY <2>1, HasMin
  <2>3. Min(I) \in 1 .. Len(list) /\ list[Min(I)] = rx
    BY <2>2
  <2>4. list' = RemoveAt(list, Min(I))
    BY <1>2 DEF CancelTif, Erased
  <2>5. rx' = 0 /\ life' = Freed(list[Min(I)]) /\ UNCHANGED pc
    BY <1>2, <2>3 DEF CancelTif, thread
  <2> HIDE DEF I
  <2>6. /\ list' \in Seq(Recs) /\ Len(list') = Len(list) - 1
        /\ \A i \in 1 .. Len(list) - 1 :
              list'[i] = list[IF i < Min(I) THEN i ELSE i + 1]
    BY <1>0, <2>3, <2>4, Removed
  <2> QED BY <2>3, <2>5, <2>6, Leaves
<1> QED BY <1>1, <1>2

LEMMA CrashOwned == ASSUME Owned, Crash PROVE Owned'
<1> DEFINE S == {f \in Faxes : tif[f] # NoTif}
<1>1. PICK found \in Orders(S), unread \in SUBSET (S \X Range(Keys)) :
         Len(found) <= MaxRec /\ SearchFile(found, unread) /\ CleanFile(found)
  BY DEF Crash
<1>2. Cardinality(S) \in Nat
  BY FaxAssumption, FS_Subset, FS_CardinalityType
<1>3. Len(found) \in Nat
  <2>1. found \in [1 .. Cardinality(S) -> S]
    BY DEF Orders
  <2> HIDE DEF S
  <2> QED BY <1>2, <2>1
<1> DEFINE n == Len(found)
<1> HIDE DEF S
<1>4. /\ list' = [i \in 1 .. n |-> i]
      /\ life' = [r \in Recs |-> IF r <= n THEN "live" ELSE "none"]
      /\ pc' = [r \in Recs |-> "none"] /\ rx' = 0
  BY <1>1 DEF SearchFile, Crash
<1>5. n \in Nat /\ n <= MaxRec
  BY <1>1, <1>3
<1> HIDE DEF n
<1>6. list' \in Seq(Recs) /\ Len(list') = n
  <2>1. \A i \in 1 .. n : i \in Recs
    BY <1>5, NumberAssumption DEF Recs
  <2> QED BY <1>4, <1>5, <2>1
<1>7. \A i \in 1 .. n : list'[i] = i /\ i \in Recs /\ i <= n
  BY <1>4, <1>5, NumberAssumption DEF Recs
<1>8. \A i \in 1 .. n : life'[list'[i]] = "live" /\ pc'[list'[i]] \notin Busy
  BY <1>4, <1>7 DEF Busy
<1> QED BY <1>4, <1>6, <1>7, <1>8 DEF Owned, Busy

-----------------------------------------------------------------------------
LEMMA ThreadOwned == ASSUME Owned, NEW r \in Recs, ReceiveFax(r) PROVE Owned'
<1> USE DEF Working, Busy, At
<1>1. CASE Connect(r) \/ CreateFirst(r)
  BY <1>1, MovesOn DEF Connect, CreateFirst, records
<1>2. CASE ConnectFails(r)
  BY <1>2, GivesUp DEF ConnectFails
<1>3. CASE CreateFirstFails(r)
  BY <1>3, GivesUp DEF CreateFirstFails
<1>4. CASE \/ OpenFile(r) \/ OpenFileFails(r) \/ WriteBlock(r) \/ WriteBlockFails(r)
           \/ NoFileOpen(r) \/ CopyBlock(r)
  <2>1. UNCHANGED <<list, life, pc, rx>>
    BY <1>4 DEF OpenFile, OpenFileFails, WriteBlock, WriteBlockFails, NoFileOpen,
                CopyBlock, records
  <2> QED BY <2>1 DEF Owned
<1>5. CASE ReceiveStop(r)
  <2>1. PICK label \in {"copy", "stop"} : Goto(r, label)
    BY <1>5 DEF ReceiveStop
  <2> QED BY <1>5, <2>1, MovesOn DEF ReceiveStop, Receives, records
<1>6. CASE CopyOpen(r) \/ CopyDone(r) \/ CopyFails(r)
  BY <1>6, MovesOn DEF CopyOpen, CopyDone, CopyFails, records
<1>7. CASE Queue(r)
  BY <1>7, QueueOwned
<1>8. CASE Report(r)
  BY <1>8, MovesOn DEF Report, records
<1>9. CASE AnswerStop(r) \/ GetPacketFails(r)
  BY <1>9, MovesOn DEF AnswerStop, GetPacketFails, End, records
<1> QED
  BY <1>1, <1>2, <1>3, <1>4, <1>5, <1>6, <1>7, <1>8, <1>9 DEF ReceiveFax

\* What writing a description leaves alone, whether or not its calls succeed.
LEMMA SettingFrame ==
    ASSUME NEW r \in Recs, WriteSetting(r)
    PROVE  /\ UNCHANGED <<list, life, file, desc, hRecvFile, open, copy, rx, dialect, next,
                          server, ted, tif, inode, cause>>
           /\ pc[r] \in {"ini", "trunc"}
           /\ \E label \in {"ini", "trunc", "connect"} : Goto(r, label)
           /\ \/ key' = key
              \/ key' = [key EXCEPT ![r] = @ + 1]
              \/ key' = [key EXCEPT ![r] = 0]
<1> USE DEF At, records, net, counts
<1>1. CASE EmptyIni(r)
  BY <1>1 DEF EmptyIni
<1>2. CASE WriteIni(r)
  BY <1>2 DEF WriteIni, EntryDone
<1>3. CASE EmptyIniFails(r)
  BY <1>3 DEF EmptyIniFails, SettingFails, EntryDone
<1>4. CASE WriteIniFails(r)
  BY <1>4 DEF WriteIniFails, SettingFails, EntryDone
<1>5. CASE StartReceiveFax(r)
  BY <1>5 DEF StartReceiveFax, files
<1> QED BY <1>1, <1>2, <1>3, <1>4, <1>5 DEF WriteSetting

LEMMA StepOwned == Owned /\ [Next]_vars => Owned'
<1> SUFFICES ASSUME Owned, [Next]_vars PROVE Owned'
  OBVIOUS
<1>1. CASE UNCHANGED vars
  BY <1>1 DEF vars, records, thread, Owned
<1>2. CASE Others
  BY <1>2, TakeOwned, CrashOwned, AnnounceOwned, CancelOwned DEF Others
<1>3. CASE Receiver
  <2>1. ASSUME NEW r \in Recs, WriteSetting(r)
        PROVE  Owned'
    <3>1. PICK label \in {"ini", "trunc", "connect"} : Goto(r, label)
      BY <2>1, SettingFrame
    <3>2. pc[r] \in {"ini", "trunc"} /\ UNCHANGED <<list, life, rx>>
      BY <2>1, SettingFrame
    <3> QED BY <3>1, <3>2, MovesOn DEF Working, Busy
  <2> QED BY <1>3, <2>1, CancelOwned DEF Receiver
<1>4. ASSUME NEW r \in Recs, ReceiveFax(r) \/ FileServer(r) PROVE Owned'
  <2>1. CASE FileServer(r)
    <3>1. UNCHANGED <<records, thread, rx>>
      BY <2>1 DEF FileServer, ServerSends, ServerStops, ServerRetries, ServerCloses,
                  ServerSays
    <3> QED BY <3>1 DEF records, thread, Owned
  <2> QED BY <1>4, <2>1, ThreadOwned
<1> QED BY <1>1, <1>2, <1>3, <1>4 DEF Next

(* A record is never in the list twice, deleted twice, or used by its      *)
(* thread (but for the report's read) when it is deleted, whatever is      *)
(* announced, cancelled, taken or restarted in between.                    *)
(* (TcpSession.cpp:517-551, 609-641, 1167-1174, FileSession.cpp:1662-1712) *)
THEOREM OwnedRecords == Spec => []RecordsOwned
<1>1. Spec => []Owned
  BY InitOwned, StepOwned, PTL DEF Spec
<1>2. Owned => RecordsOwned
  <2> SUFFICES ASSUME Owned PROVE RecordsOwned
    OBVIOUS
  <2>1. DOMAIN list = 1 .. Len(list)
    BY DEF Owned
  <2>2. IsInjective(list)
    BY <2>1 DEF Owned, IsInjective
  <2>3. \A r \in Range(list) : life[r] = "live"
    BY <2>1 DEF Owned, Range
  <2>4. \A r \in Recs : life[r] # "twice"
    BY DEF Owned
  <2>5. \A r \in Recs : life[r] = "freed" => pc[r] \in {"none", "report", "stop", "over"}
    BY DEF Owned, Busy, Working
  <2> QED BY <2>2, <2>3, <2>4, <2>5 DEF RecordsOwned
<1> QED BY <1>1, <1>2, PTL

-----------------------------------------------------------------------------
(* Types.  A thread's offsets stay inside the document because its file is *)
(* at most where the server is.                                            *)

\* A thread is at its start ...
AtStart(r) ==
    /\ pc[r] = "none" => key[r] = 0
    /\ pc[r] = "trunc" => key[r] < Len(Keys)
    /\ pc[r] \in {"none", "ini", "trunc", "connect"} =>
          open[r] = Closed /\ next[r] = 1 /\ server[r] = "none"
    /\ pc[r] \in {"none", "ini", "trunc", "connect", "create"} => hRecvFile[r] = "null"

\* ... or it has talked to the server.
AtWork(r) ==
    /\ pc[r] = "copying" => copy[r].ino \in Inodes
    /\ server[r] \in {"data", "refused"} => next[r] <= Blocks
    /\ hRecvFile[r] = "open" /\ server[r] \in {"turn", "data", "refused"}
          => open[r].pos < next[r]

RecordTypes ==
    /\ file \in [Recs -> Faxes \cup {Missing}]
    /\ \A r \in Recs : life[r] # "none" => file[r] \in Faxes

ThreadTypes ==
    /\ key \in [Recs -> 0 .. Len(Keys)]
    /\ hRecvFile \in [Recs -> {"null", "open", "bad"}]
    /\ open \in [Recs -> OpenFiles] /\ copy \in [Recs -> OpenFiles]
    /\ dialect \in [Recs -> {"send", "recv"}]
    /\ next \in [Recs -> 1 .. Blocks + 1]
    /\ server \in [Recs -> ServerStates]

FileTypes ==
    /\ ted \in [Faxes -> Inodes \cup {NoFile}]
    /\ inode \in [Inodes -> Seq(0 .. Blocks)]
    /\ \A i \in Inodes : Len(inode[i]) <= Blocks
    /\ cause \in [Faxes -> SUBSET Causes]

Typed ==
    /\ Owned /\ RecordTypes /\ ThreadTypes /\ FileTypes
    /\ \A r \in Recs : AtStart(r) /\ AtWork(r)

Fields(r) == <<pc[r], key[r], hRecvFile[r], open[r], copy[r], dialect[r], next[r], server[r]>>

\* What a thread, or its server, does; the receiver works for the record it writes.
Step(r) == WriteSetting(r) \/ ReceiveFax(r) \/ FileServer(r)

LEMMA NumberTypes ==
    /\ Blocks \in Nat /\ Blocks >= 1 /\ MaxRec \in Nat
    /\ Cardinality(Faxes) \in Nat /\ Len(Keys) \in Nat
    /\ Inodes \subseteq Nat \ {0} /\ Missing \notin Faxes
<1>1. Cardinality(Faxes) \in Nat
  BY FaxAssumption, FS_CardinalityType
<1>2. Len(Keys) \in Nat
  BY KeyAssumption
<1> QED BY <1>1, <1>2, NumberAssumption, KeyAssumption DEF Inodes

\* There are enough inodes for what is open or has a name.
LEMMA FreshInode ==
    ASSUME Typed, NEW f \in Faxes, ted[f] = NoFile
    PROVE  Min(Inodes \ Used(ted, open, copy)) \in Inodes \ Used(ted, open, copy)
<1> DEFINE F == Faxes \ {f}
           A == {ted[g] : g \in F}
           B == {open[r].ino : r \in Recs}
           C == {copy[r].ino : r \in Recs}
           a == [g \in F |-> ted[g]]
           b == [r \in Recs |-> open[r].ino]
           c == [r \in Recs |-> copy[r].ino]
<1>1. IsFiniteSet(F) /\ Cardinality(F) = Cardinality(Faxes) - 1
  BY FaxAssumption, FS_RemoveElement
<1>2. IsFiniteSet(Recs) /\ Cardinality(Recs) = MaxRec
  <2>1. 1 \in Int /\ MaxRec \in Int
    BY NumberTypes
  <2>2. IsFiniteSet(1 .. MaxRec)
        /\ Cardinality(1 .. MaxRec) = IF 1 > MaxRec THEN 0 ELSE MaxRec - 1 + 1
    BY ONLY <2>1, FS_Interval
  <2> QED BY <2>2, NumberTypes DEF Recs
<1>3. a \in Surjection(F, A) /\ b \in Surjection(Recs, B) /\ c \in Surjection(Recs, C)
  BY DEF Surjection
<1> HIDE DEF F, A, B, C, a, b, c
<1>4. /\ IsFiniteSet(A) /\ Cardinality(A) <= Cardinality(Faxes) - 1
      /\ IsFiniteSet(B) /\ Cardinality(B) <= MaxRec
      /\ IsFiniteSet(C) /\ Cardinality(C) <= MaxRec
  BY <1>1, <1>2, <1>3, FS_Surjection
<1>5. /\ Cardinality(A) \in Nat /\ Cardinality(B) \in Nat /\ Cardinality(C) \in Nat
  BY <1>4, FS_CardinalityType
<1>6. /\ IsFiniteSet(A \cup B)
      /\ Cardinality(A \cup B) \in Nat
      /\ Cardinality(A \cup B) <= Cardinality(A) + Cardinality(B)
  <2>1. /\ IsFiniteSet(A \cup B)
        /\ Cardinality(A \cup B) = Cardinality(A) + Cardinality(B) - Cardinality(A \cap B)
    BY <1>4, FS_Union
  <2>2. Cardinality(A \cap B) \in Nat /\ Cardinality(A \cup B) \in Nat
    BY <1>4, <2>1, FS_Intersection, FS_CardinalityType
  <2> QED BY <1>5, <2>1, <2>2
<1>7. /\ IsFiniteSet(A \cup B \cup C)
      /\ Cardinality(A \cup B \cup C) \in Nat
      /\ Cardinality(A \cup B \cup C) <= Cardinality(A \cup B) + Cardinality(C)
  <2>1. /\ IsFiniteSet((A \cup B) \cup C)
        /\ Cardinality((A \cup B) \cup C) =
             Cardinality(A \cup B) + Cardinality(C) - Cardinality((A \cup B) \cap C)
    BY <1>4, <1>6, FS_Union
  <2>2. Cardinality((A \cup B) \cap C) \in Nat /\ Cardinality((A \cup B) \cup C) \in Nat
    BY <1>6, <2>1, FS_Intersection, FS_CardinalityType
  <2> QED BY <1>5, <1>6, <2>1, <2>2
<1>8. Cardinality(Inodes) = 2 * MaxRec + Cardinality(Faxes)
  <2> DEFINE n == 2 * MaxRec + Cardinality(Faxes)
  <2>1. n \in Nat /\ n + 1 \in Nat
    BY NumberTypes
  <2>2. Inodes = 1 .. n
    BY DEF Inodes
  <2> HIDE DEF n
  <2>3. Cardinality(1 .. n) = IF 1 > n THEN 0 ELSE n - 1 + 1
    BY <2>1, FS_Interval
  <2>4. Cardinality(Inodes) = n
    BY <2>1, <2>2, <2>3
  <2> QED BY <2>4 DEF n
<1>9. Inodes \ (A \cup B \cup C) # {}
  <2> SUFFICES ASSUME Inodes \subseteq A \cup B \cup C PROVE FALSE
    OBVIOUS
  <2>1. Cardinality(Inodes) <= Cardinality(A \cup B \cup C)
    BY <1>7, FS_Subset
  <2> QED BY <1>4, <1>5, <1>6, <1>7, <1>8, <2>1, NumberTypes
<1>10. Used(ted, open, copy) \subseteq A \cup B \cup C \cup {NoFile}
  <2>1. DOMAIN ted = Faxes
    BY DEF Typed, FileTypes
  <2> QED BY <2>1 DEF Used, Range, A, B, C, F
<1> DEFINE I == Inodes \ Used(ted, open, copy)
<1>11. I # {} /\ I \in SUBSET Nat
  BY <1>9, <1>10, NumberTypes DEF NoFile
<1> HIDE DEF I
<1>12. Min(I) \in I
  BY <1>11, HasMin
<1> QED BY <1>12 DEF I

LEMMA TedIsInode ==
    ASSUME Typed, NEW f \in Faxes
    PROVE  /\ TedInode(f) \in Inodes
           /\ ted[f] # NoFile => TedInode(f) = ted[f]
           /\ ted[f] = NoFile => TedInode(f) \notin Used(ted, open, copy)
<1>1. CASE ted[f] = NoFile
  BY <1>1, FreshInode DEF TedInode
<1>2. CASE ted[f] # NoFile
  BY <1>2 DEF TedInode, Typed, FileTypes
<1> QED BY <1>1, <1>2

\* A thread's step leaves the others where they are.
LEMMA Alone ==
    ASSUME ThreadTypes, pc \in [Recs -> Working \cup {"none", "over"}],
           NEW r \in Recs, Step(r), NEW s \in Recs, s # r
    PROVE  Fields(s)' = Fields(s)
<1> USE DEF Fields, ThreadTypes, Goto
<1>1. CASE WriteSetting(r)
  BY <1>1, SettingFrame
<1>2. CASE Connect(r) \/ ConnectFails(r) \/ CreateFirst(r) \/ CreateFirstFails(r)
  BY <1>2 DEF Connect, ConnectFails, CreateFirst, CreateFirstFails, GiveUp, net
<1>3. CASE OpenFile(r) \/ OpenFileFails(r)
  BY <1>3 DEF OpenFile, OpenFileFails, net
<1>4. CASE WriteBlock(r)
  BY <1>4 DEF WriteBlock, WriteTo
<1>5. CASE WriteBlockFails(r) \/ NoFileOpen(r)
  BY <1>5 DEF WriteBlockFails, NoFileOpen, WriteTo, Refuse
<1>6. CASE ReceiveStop(r)
  BY <1>6 DEF ReceiveStop, net
<1>7. CASE CopyOpen(r) \/ CopyBlock(r) \/ CopyDone(r) \/ CopyFails(r)
  BY <1>7 DEF CopyOpen, CopyBlock, CopyDone, CopyFails, net
<1>8. CASE Queue(r) \/ Report(r)
  BY <1>8 DEF Queue, Report, net
<1>9. CASE AnswerStop(r) \/ GetPacketFails(r)
  BY <1>9 DEF AnswerStop, GetPacketFails, End
<1>10. CASE FileServer(r)
  BY <1>10 DEF FileServer, ServerSends, ServerStops, ServerRetries, ServerCloses,
               ServerSays, thread
<1> QED BY <1>1, <1>2, <1>3, <1>4, <1>5, <1>6, <1>7, <1>8, <1>9, <1>10
        DEF Step, ReceiveFax

LEMMA MaxOfTwo ==
    ASSUME NEW m \in Nat, NEW n \in Nat
    PROVE  Max({m, n}) = IF m >= n THEN m ELSE n
<1> DEFINE x == IF m >= n THEN m ELSE n
<1>1. x \in {m, n} /\ \A y \in {m, n} : x >= y
  OBVIOUS
<1>2. ASSUME NEW z \in {m, n}, \A y \in {m, n} : z >= y PROVE z = x
  BY <1>2
<1> HIDE DEF x
<1>3. Max({m, n}) \in {m, n} /\ \A y \in {m, n} : Max({m, n}) >= y
  BY <1>1 DEF Max
<1>4. Max({m, n}) = x
  BY <1>2, <1>3
<1> QED BY <1>4 DEF x

\* What write() makes of a file's blocks.
LEMMA WrittenShort ==
    ASSUME NEW S, NEW s \in Seq(S), NEW pos \in Nat, NEW b, pos >= Len(s)
    PROVE  Written(s, pos, b) =
             [i \in 1 .. pos + 1 |->
                IF i = pos + 1 THEN b ELSE IF i <= Len(s) THEN s[i] ELSE 0]
<1>1. Len(s) \in Nat /\ pos + 1 \in Nat /\ ~(Len(s) >= pos + 1)
  OBVIOUS
<1>2. Max({Len(s), pos + 1}) = pos + 1
  BY <1>1, MaxOfTwo
<1> QED BY <1>2 DEF Written

LEMMA WrittenInside ==
    ASSUME NEW S, NEW s \in Seq(S), NEW pos \in Nat, NEW b, pos < Len(s)
    PROVE  Written(s, pos, b) =
             [i \in 1 .. Len(s) |->
                IF i = pos + 1 THEN b ELSE IF i <= Len(s) THEN s[i] ELSE 0]
<1>1. Len(s) \in Nat /\ pos + 1 \in Nat /\ Len(s) >= pos + 1
  OBVIOUS
<1>2. Max({Len(s), pos + 1}) = Len(s)
  BY <1>1, MaxOfTwo
<1> QED BY <1>2 DEF Written

LEMMA WrittenType ==
    ASSUME NEW n \in Nat, NEW S, 0 \in S, NEW s \in Seq(S), Len(s) <= n,
           NEW pos \in Nat, pos < n, NEW b \in S
    PROVE  Written(s, pos, b) \in Seq(S) /\ Len(Written(s, pos, b)) <= n
<1> DEFINE at(i) == IF i = pos + 1 THEN b ELSE IF i <= Len(s) THEN s[i] ELSE 0
<1>1. Len(s) \in Nat /\ \A i \in Nat \ {0} : at(i) \in S
  OBVIOUS
<1>2. CASE pos < Len(s)
  <2>1. Written(s, pos, b) = [i \in 1 .. Len(s) |-> at(i)]
    BY <1>2, WrittenInside
  <2> HIDE DEF at
  <2> QED BY <1>1, <2>1
<1>3. CASE pos >= Len(s)
  <2>1. Written(s, pos, b) = [i \in 1 .. pos + 1 |-> at(i)]
    BY <1>3, WrittenShort
  <2> HIDE DEF at
  <2> QED BY <1>1, <2>1
<1> QED BY <1>1, <1>2, <1>3

LEMMA InitTyped == Init => Typed
<1> SUFFICES ASSUME Init PROVE Typed
  OBVIOUS
<1>1. Owned
  BY InitOwned
<1>2. RecordTypes
  BY DEF Init, RecordTypes
<1>3. Closed \in OpenFiles
  BY NumberTypes DEF Closed, OpenFiles
<1>4. ThreadTypes
  BY <1>3, NumberTypes DEF Init, ThreadTypes, ServerStates
<1>5. FileTypes
  BY NumberTypes DEF Init, FileTypes
<1>6. \A r \in Recs : AtStart(r) /\ AtWork(r)
  BY DEF Init, AtStart, AtWork
<1> QED BY <1>1, <1>2, <1>4, <1>5, <1>6 DEF Typed

\* What the steps of a thread and of its server keep, of the thread and the files.
StepTyped(r) == ThreadTypes' /\ FileTypes' /\ AtStart(r)' /\ AtWork(r)'

LEMMA CreateTyped ==
    ASSUME Typed, NEW f \in Faxes, CreateTed(f, TedInode(f)), UNCHANGED cause
    PROVE  FileTypes'
<1>1. TedInode(f) \in Inodes
  BY TedIsInode
<1>2. /\ ted' = [ted EXCEPT ![f] = TedInode(f)]
      /\ inode' = [inode EXCEPT ![TedInode(f)] = <<>>]
  BY DEF CreateTed
<1>3. <<>> \in Seq(0 .. Blocks) /\ Len(<<>>) = 0 /\ 0 <= Blocks
  BY NumberTypes
<1> QED BY <1>1, <1>2, <1>3 DEF Typed, FileTypes

LEMMA SweepTyped ==
    ASSUME FileTypes, Sweep, ted' \in [Faxes -> Inodes \cup {NoFile}],
           cause' \in [Faxes -> SUBSET Causes]
    PROVE  FileTypes'
<1>1. <<>> \in Seq(0 .. Blocks) /\ Len(<<>>) = 0 /\ 0 <= Blocks
  BY NumberTypes
<1>2. inode' = [i \in Inodes |-> IF i \in Used(ted', open', copy') THEN inode[i] ELSE <<>>]
  BY DEF Sweep
<1>3. \A i \in Inodes : inode'[i] = inode[i] \/ inode'[i] = <<>>
  BY <1>2
<1>4. inode' \in [Inodes -> Seq(0 .. Blocks)] /\ \A i \in Inodes : Len(inode'[i]) <= Blocks
  BY <1>1, <1>2, <1>3 DEF FileTypes
<1> QED BY <1>4 DEF FileTypes

LEMMA ReceiverTyped ==
    ASSUME Typed, NEW r \in Recs, WriteSetting(r)
    PROVE  StepTyped(r)
<1>1. /\ UNCHANGED <<hRecvFile, open, copy, dialect, next, server, ted, inode, cause>>
      /\ pc[r] \in {"ini", "trunc"}
  BY SettingFrame
<1>2. \/ Goto(r, "trunc") /\ key' = key /\ key[r] < Len(Keys)
      \/ Goto(r, "ini") /\ key' = [key EXCEPT ![r] = @ + 1] /\ key[r] < Len(Keys)
      \/ Goto(r, "connect") /\ key' = [key EXCEPT ![r] = 0]
  <2>1. pc[r] = "trunc" => key[r] < Len(Keys)
    BY DEF Typed, AtStart
  <2>2. CASE EmptyIni(r)
    BY <2>2 DEF EmptyIni
  <2>3. CASE EmptyIniFails(r)
    BY <2>3 DEF EmptyIniFails, EntryDone
  <2>4. CASE WriteIni(r)
    BY <2>1, <2>4 DEF WriteIni, EntryDone, At
  <2>5. CASE WriteIniFails(r)
    BY <2>1, <2>5 DEF WriteIniFails, EntryDone, At
  <2>6. CASE StartReceiveFax(r)
    BY <2>6 DEF StartReceiveFax
  <2> QED BY <2>2, <2>3, <2>4, <2>5, <2>6 DEF WriteSetting
<1>3. FileTypes'
  BY <1>1 DEF Typed, FileTypes
<1>4. ThreadTypes'
  <2>1. key' \in [Recs -> 0 .. Len(Keys)]
    BY <1>2, NumberTypes DEF Typed, ThreadTypes
  <2> QED BY <1>1, <2>1 DEF Typed, ThreadTypes
<1>5. AtStart(r)' /\ AtWork(r)'
  BY <1>1, <1>2 DEF Typed, Owned, Goto, AtStart, AtWork, ThreadTypes
<1> QED BY <1>3, <1>4, <1>5 DEF StepTyped

LEMMA StartTyped ==
    ASSUME Typed, NEW r \in Recs,
           Connect(r) \/ ConnectFails(r) \/ CreateFirst(r) \/ CreateFirstFails(r)
    PROVE  StepTyped(r)
<1> USE NumberTypes DEF Typed, ThreadTypes, AtStart, AtWork, StepTyped, At, Goto, Owned, net
<1>1. CASE Connect(r)
  <2>1. FileTypes'
    BY <1>1 DEF Connect, FileTypes, files, counts
  <2>2. PICK d \in {"send", "recv"} : dialect' = [dialect EXCEPT ![r] = d]
    BY <1>1 DEF Connect
  <2>3. ThreadTypes'
    BY <1>1, <2>2 DEF Connect, ServerStates
  <2>4. AtStart(r)' /\ AtWork(r)'
    BY <1>1 DEF Connect
  <2> QED BY <2>1, <2>3, <2>4
<1>2. CASE ConnectFails(r)
  BY <1>2 DEF ConnectFails, GiveUp, FileTypes, files, counts
<1>3. CASE CreateFirst(r)
  <2>1. file[r] \in Faxes
    BY <1>3 DEF CreateFirst, RecordTypes, Busy
  <2>2. FileTypes'
    BY <1>3, <2>1, CreateTyped DEF CreateFirst, counts
  <2> QED BY <1>3, <2>2 DEF CreateFirst
<1>4. CASE CreateFirstFails(r)
  <2>1. FileTypes'
    BY <1>4 DEF CreateFirstFails, FileTypes, files
  <2> QED BY <1>4, <2>1 DEF CreateFirstFails, GiveUp, ServerStates
<1> QED BY <1>1, <1>2, <1>3, <1>4

LEMMA ServerTyped == ASSUME Typed, NEW r \in Recs, FileServer(r) PROVE StepTyped(r)
<1> USE NumberTypes DEF Typed, StepTyped, Owned, ServerSays, thread, files
<1>0. \A s \in ServerStates : server' = [server EXCEPT ![r] = s] /\ UNCHANGED <<thread, dialect>>
         /\ next' = next => ThreadTypes'
  BY DEF ThreadTypes
<1>1. CASE ServerRetries(r)
  <2>1. cause' \in [Faxes -> SUBSET Causes]
    BY <1>1 DEF ServerRetries, Blame, FileTypes, Causes
  <2>2. FileTypes' /\ ThreadTypes'
    BY <1>0, <1>1, <2>1 DEF ServerRetries, FileTypes, ServerStates
  <2>3. AtStart(r)' /\ AtWork(r)'
    BY <1>1 DEF ServerRetries, AtStart, AtWork, ThreadTypes
  <2> QED BY <2>2, <2>3
<1>2. CASE ServerSends(r) \/ ServerStops(r) \/ ServerCloses(r)
  <2>1. FileTypes' /\ ThreadTypes'
    BY <1>0, <1>2 DEF ServerSends, ServerStops, ServerCloses, FileTypes, ServerStates
  <2>2. AtStart(r)' /\ AtWork(r)'
    BY <1>2 DEF ServerSends, ServerStops, ServerCloses, AtStart, AtWork, ThreadTypes
  <2> QED BY <2>1, <2>2
<1> QED BY <1>1, <1>2 DEF FileServer

LEMMA OpenTyped ==
    ASSUME Typed, NEW r \in Recs, OpenFile(r) \/ OpenFileFails(r) PROVE StepTyped(r)
<1> USE NumberTypes DEF Typed, StepTyped, Owned, Receives, At, net
<1>0. file[r] \in Faxes
  BY DEF OpenFile, OpenFileFails, RecordTypes, Busy
<1>1. CASE OpenFile(r)
  <2>1. FileTypes'
    BY <1>0, <1>1, CreateTyped DEF OpenFile, counts
  <2>2. open' = [open EXCEPT ![r] = [ino |-> TedInode(file[r]), pos |-> 0]]
    BY <1>1 DEF OpenFile
  <2>3. [ino |-> TedInode(file[r]), pos |-> 0] \in OpenFiles
    BY <1>0, TedIsInode DEF OpenFiles
  <2> QED BY <1>1, <2>1, <2>2, <2>3 DEF OpenFile, ThreadTypes, AtStart, AtWork
<1>2. CASE OpenFileFails(r)
  BY <1>2 DEF OpenFileFails, files, FileTypes, ThreadTypes, AtStart, AtWork
<1> QED BY <1>1, <1>2

\* A write inside the document: the thread's offset is below Blocks.
LEMMA WriteTyped ==
    ASSUME Typed, NEW r \in Recs, open[r].pos < Blocks, NEW b \in 0 .. Blocks,
           WriteTo(r, b), UNCHANGED <<ted, cause>>
    PROVE  /\ FileTypes' /\ open' \in [Recs -> OpenFiles]
           /\ open' = [open EXCEPT ![r] = [ino |-> open[r].ino, pos |-> open[r].pos + 1]]
<1>1. open[r] \in OpenFiles /\ open[r].ino \in Inodes \cup {NoFile} /\ open[r].pos \in 0 .. Blocks
  BY DEF Typed, ThreadTypes, OpenFiles
<1> DEFINE o == open[r]
           t == Written(inode[o.ino], o.pos, b)
<1>2. /\ inode' = [inode EXCEPT ![o.ino] = t]
      /\ open' = [open EXCEPT ![r] = [open[r] EXCEPT !.pos = @ + 1]]
  BY DEF WriteTo
<1>3. [open[r] EXCEPT !.pos = @ + 1] = [ino |-> o.ino, pos |-> o.pos + 1]
  BY <1>1 DEF OpenFiles
<1>4. [ino |-> o.ino, pos |-> o.pos + 1] \in OpenFiles
  BY <1>1, NumberTypes DEF OpenFiles
<1>5. open' \in [Recs -> OpenFiles]
  BY <1>2, <1>3, <1>4 DEF Typed, ThreadTypes
<1>6. o.ino \in Inodes => t \in Seq(0 .. Blocks) /\ Len(t) <= Blocks
  <2> SUFFICES ASSUME o.ino \in Inodes PROVE t \in Seq(0 .. Blocks) /\ Len(t) <= Blocks
    OBVIOUS
  <2>1. inode[o.ino] \in Seq(0 .. Blocks) /\ Len(inode[o.ino]) <= Blocks
    BY DEF Typed, FileTypes
  <2> DEFINE S == 0 .. Blocks
             s == inode[o.ino]
  <2>2. /\ Blocks \in Nat /\ 0 \in S /\ s \in Seq(S) /\ Len(s) <= Blocks
        /\ o.pos \in Nat /\ o.pos < Blocks /\ b \in S
    BY <1>1, <2>1, NumberTypes
  <2> HIDE DEF S, s, o
  <2>3. Written(s, o.pos, b) \in Seq(S) /\ Len(Written(s, o.pos, b)) <= Blocks
    BY ONLY <2>2, WrittenType
  <2> QED BY <2>3 DEF S, s
<1> HIDE DEF o, t
<1>7. inode' \in [Inodes -> Seq(0 .. Blocks)] /\ \A i \in Inodes : Len(inode'[i]) <= Blocks
  <2>1. \A i \in Inodes : inode'[i] = IF i = o.ino THEN t ELSE inode[i]
    BY <1>2 DEF Typed, FileTypes
  <2>2. DOMAIN inode' = Inodes /\ inode' = [i \in Inodes |-> inode'[i]]
    BY <1>2 DEF Typed, FileTypes
  <2> QED BY <1>6, <2>1, <2>2 DEF Typed, FileTypes
<1> QED BY <1>2, <1>3, <1>5, <1>7 DEF Typed, FileTypes, o

LEMMA BlockTyped ==
    ASSUME Typed, NEW r \in Recs, WriteBlock(r) \/ WriteBlockFails(r) \/ NoFileOpen(r)
    PROVE  StepTyped(r)
<1> USE NumberTypes DEF At, Receives
<1>1. open[r].pos \in 0 .. Blocks /\ next[r] \in 1 .. Blocks /\ pc[r] = "loop"
  BY DEF Typed, ThreadTypes, OpenFiles, AtWork, WriteBlock, WriteBlockFails, NoFileOpen
<1>2. hRecvFile[r] = "open" => open[r].pos < Blocks /\ open[r].pos < next[r]
  BY <1>1 DEF Typed, AtWork, WriteBlock, WriteBlockFails, NoFileOpen
<1>3. CASE WriteBlock(r)
  <2>1. /\ FileTypes' /\ open' \in [Recs -> OpenFiles]
        /\ open' = [open EXCEPT ![r] = [ino |-> open[r].ino, pos |-> open[r].pos + 1]]
    <3>1. next[r] \in 0 .. Blocks
      BY <1>1
    <3> QED BY <1>2, <1>3, <3>1, WriteTyped DEF WriteBlock, counts
  <2>2. open'[r].pos = open[r].pos + 1 /\ next'[r] = next[r] + 1 /\ server'[r] = "turn"
        /\ UNCHANGED <<pc, key, hRecvFile, copy>>
    BY <1>3, <2>1 DEF WriteBlock, Typed, ThreadTypes
  <2>3. AtStart(r)' /\ AtWork(r)'
    BY <1>1, <1>2, <1>3, <2>2 DEF Typed, AtStart, AtWork, WriteBlock
  <2>4. ThreadTypes'
    BY <1>1, <1>3, <2>1 DEF Typed, ThreadTypes, WriteBlock, ServerStates
  <2> QED BY <2>1, <2>3, <2>4 DEF StepTyped
<1>4. CASE WriteBlockFails(r) \/ NoFileOpen(r)
  <2>1. FileTypes' /\ open' \in [Recs -> OpenFiles]
    <3>1. CASE WriteTo(r, 0) /\ WriteBlockFails(r)
      BY <1>2, <3>1, WriteTyped DEF WriteBlockFails
    <3>2. CASE UNCHANGED <<inode, open>> /\ WriteBlockFails(r)
      BY <3>2 DEF Typed, FileTypes, ThreadTypes, WriteBlockFails
    <3>3. CASE NoFileOpen(r)
      BY <3>3 DEF Typed, FileTypes, ThreadTypes, NoFileOpen, files, counts
    <3> QED BY <1>4, <3>1, <3>2, <3>3 DEF WriteBlockFails
  <2>2. /\ hRecvFile' \in [Recs -> {"null", "open", "bad"}]
        /\ server' \in [Recs -> ServerStates]
        /\ server'[r] \in {"refused", "silent"}
        /\ server'[r] = "refused" => hRecvFile'[r] # "open"
    BY <1>4 DEF WriteBlockFails, NoFileOpen, Refuse, AfterRefusal, Typed, ThreadTypes, ServerStates
  <2>3. UNCHANGED <<pc, key, copy, dialect, next>>
    BY <1>4 DEF WriteBlockFails, NoFileOpen
  <2>4. ThreadTypes'
    BY <2>1, <2>2, <2>3 DEF Typed, ThreadTypes
  <2>5. AtStart(r)' /\ AtWork(r)'
    BY <1>1, <2>2, <2>3 DEF Typed, AtStart, AtWork
  <2> QED BY <2>1, <2>4, <2>5 DEF StepTyped
<1> QED BY <1>3, <1>4

LEMMA CopyTyped ==
    ASSUME Typed, NEW r \in Recs,
           ReceiveStop(r) \/ CopyOpen(r) \/ CopyBlock(r) \/ CopyDone(r) \/ CopyFails(r)
    PROVE  StepTyped(r)
<1> USE NumberTypes DEF At, net, Goto
<1>1. file[r] \in Faxes
  BY DEF Typed, RecordTypes, Owned, Busy, Receives, ReceiveStop, CopyOpen, CopyBlock, CopyDone,
         CopyFails
<1>2. Closed \in OpenFiles
  BY DEF Closed, OpenFiles
<1>3. CASE ReceiveStop(r)
  <2>1. FileTypes'
    BY <1>3 DEF Typed, FileTypes, ReceiveStop, files, counts
  <2>2. /\ hRecvFile' \in [Recs -> {"null", "open", "bad"}]
        /\ UNCHANGED <<key, open, copy, dialect, next, server>>
        /\ pc[r] = "loop" /\ pc'[r] \in {"copy", "stop"} /\ server[r] = "stop"
    BY <1>3 DEF ReceiveStop, Receives, Typed, ThreadTypes, Owned
  <2> QED BY <2>1, <2>2 DEF StepTyped, Typed, ThreadTypes, AtStart, AtWork
<1>4. CASE CopyOpen(r)
  <2>1. FileTypes'
    BY <1>4 DEF Typed, FileTypes, CopyOpen, counts
  <2>2. /\ ted[file[r]] \in Inodes
        /\ copy' = [copy EXCEPT ![r] = [ino |-> ted[file[r]], pos |-> 0]]
        /\ UNCHANGED <<key, hRecvFile, open, dialect, next, server>>
        /\ pc[r] = "copy" /\ pc'[r] = "copying"
    BY <1>1, <1>4 DEF CopyOpen, Typed, FileTypes, Owned
  <2>3. [ino |-> ted[file[r]], pos |-> 0] \in OpenFiles
    BY <2>2 DEF OpenFiles
  <2> QED BY <2>1, <2>2, <2>3 DEF StepTyped, Typed, ThreadTypes, AtStart, AtWork
<1>5. CASE CopyBlock(r)
  <2>1. FileTypes'
    BY <1>5 DEF Typed, FileTypes, CopyBlock, counts
  <2>2. copy[r] \in OpenFiles /\ copy[r].ino \in Inodes /\ pc[r] = "copying"
    BY <1>5 DEF CopyBlock, Typed, ThreadTypes, AtWork
  <2>3. copy[r].pos < Blocks /\ copy[r].pos \in Nat
    <3>1. /\ Len(inode[copy[r].ino]) <= Blocks /\ Len(inode[copy[r].ino]) \in Nat
          /\ copy[r].pos \in Nat /\ copy[r].pos < Len(inode[copy[r].ino])
      BY <1>5, <2>2 DEF CopyBlock, Typed, FileTypes, OpenFiles
    <3> QED BY <3>1
  <2>4. /\ copy' = [copy EXCEPT ![r] = [copy[r] EXCEPT !.pos = @ + 1]]
        /\ UNCHANGED <<pc, key, hRecvFile, open, dialect, next, server>>
    BY <1>5 DEF CopyBlock
  <2>5. [copy[r] EXCEPT !.pos = @ + 1] \in OpenFiles /\ [copy[r] EXCEPT !.pos = @ + 1].ino \in Inodes
    BY <2>2, <2>3 DEF OpenFiles
  <2> QED BY <2>1, <2>2, <2>4, <2>5 DEF StepTyped, Typed, ThreadTypes, AtStart, AtWork
<1>6. CASE CopyDone(r) \/ CopyFails(r)
  <2>1. ted' \in [Faxes -> Inodes \cup {NoFile}] /\ cause' \in [Faxes -> SUBSET Causes]
    <3>1. CASE CopyDone(r)
      BY <3>1 DEF CopyDone, Typed, FileTypes, counts
    <3>2. CASE CopyFails(r)
      BY <3>2 DEF CopyFails, Blame, Causes, Typed, FileTypes
    <3> QED BY <1>6, <3>1, <3>2
  <2>2. FileTypes'
    BY <1>6, <2>1, SweepTyped DEF CopyDone, CopyFails, Typed
  <2>3. /\ copy' = [copy EXCEPT ![r] = Closed]
        /\ UNCHANGED <<key, hRecvFile, open, dialect, next, server>>
        /\ pc[r] \in {"copy", "copying"} /\ pc'[r] = "append"
    BY <1>6 DEF CopyDone, CopyFails, Typed, Owned
  <2> QED BY <1>2, <2>2, <2>3 DEF StepTyped, Typed, ThreadTypes, AtStart, AtWork
<1> QED BY <1>3, <1>4, <1>5, <1>6

LEMMA EndTyped ==
    ASSUME Typed, NEW r \in Recs,
           Queue(r) \/ Report(r) \/ AnswerStop(r) \/ GetPacketFails(r)
    PROVE  StepTyped(r)
<1> USE NumberTypes DEF At, Goto
<1>1. CASE Queue(r) \/ Report(r)
  <2>1. FileTypes'
    BY <1>1 DEF Typed, FileTypes, Queue, Report, files, counts
  <2>2. /\ UNCHANGED <<key, hRecvFile, open, copy, dialect, next, server>>
        /\ pc[r] \in {"append", "report"} /\ pc'[r] \in {"report", "stop"}
    BY <1>1 DEF Queue, Report, Typed, Owned, net
  <2> QED BY <2>1, <2>2 DEF StepTyped, Typed, ThreadTypes, AtStart, AtWork
<1>2. CASE AnswerStop(r) \/ GetPacketFails(r)
  <2>1. End(r) /\ pc[r] \in {"stop", "loop"}
    BY <1>2 DEF AnswerStop, GetPacketFails
  <2>2. FileTypes'
    BY <2>1, SweepTyped DEF End, Typed, FileTypes, counts
  <2>3. Closed \in OpenFiles /\ "none" \in ServerStates
    BY DEF Closed, OpenFiles, ServerStates
  <2>4. ThreadTypes'
    BY <2>1, <2>3 DEF End, Typed, ThreadTypes
  <2>5. pc'[r] = "over" /\ server'[r] = "none"
    BY <2>1 DEF End, Typed, Owned, ThreadTypes
  <2> QED BY <2>2, <2>4, <2>5 DEF StepTyped, AtStart, AtWork
<1> QED BY <1>1, <1>2

LEMMA ThreadTyped == ASSUME Typed, NEW r \in Recs, Step(r) PROVE StepTyped(r)
BY ReceiverTyped, StartTyped, ServerTyped, OpenTyped, BlockTyped, CopyTyped, EndTyped
   DEF Step, ReceiveFax

\* Every step of Next is one of a thread, of the receiver, or a crash.
LEMMA NextSteps ==
    ASSUME Next
    PROVE  \/ \E r \in Recs : Step(r)
           \/ Take \/ CancelTif \/ Crash
           \/ \E f \in Faxes : Announce(f) \/ CancelIni(f)
BY DEF Next, Others, Receiver, Step

LEMMA AnnounceTyped ==
    ASSUME Typed, NEW f \in Faxes, Announce(f)
    PROVE  /\ RecordTypes' /\ ThreadTypes' /\ FileTypes'
           /\ \A r \in Recs : AtStart(r)' /\ AtWork(r)'
<1>1. NextRec \in Recs /\ life[NextRec] = "none" /\ pc[NextRec] = "none"
  BY FreeRecord DEF Announce, Typed, Owned
<1>2. RecordTypes'
  BY <1>1 DEF Announce, Typed, RecordTypes, Owned
<1>3. ThreadTypes'
  BY DEF Announce, Typed, ThreadTypes, net
<1>4. FileTypes'
  BY DEF Announce, Typed, FileTypes, Blame, Causes, files
<1>5. /\ pc' = [pc EXCEPT ![NextRec] = "ini"]
      /\ UNCHANGED <<key, hRecvFile, open, copy, next, server>>
  BY DEF Announce, Goto, net
<1>6. \A r \in Recs : pc'[r] = pc[r] \/ (pc[r] = "none" /\ pc'[r] = "ini")
  BY <1>1, <1>5 DEF Typed, Owned
<1>7. \A r \in Recs : AtStart(r)' /\ AtWork(r)'
  BY <1>5, <1>6 DEF Typed, AtStart, AtWork
<1> QED BY <1>2, <1>3, <1>4, <1>7

LEMMA CrashTyped ==
    ASSUME Typed, Crash
    PROVE  /\ RecordTypes' /\ ThreadTypes' /\ FileTypes'
           /\ \A r \in Recs : AtStart(r)' /\ AtWork(r)'
<1> DEFINE S == {f \in Faxes : tif[f] # NoTif}
<1>1. PICK found \in Orders(S), unread \in SUBSET (S \X Range(Keys)) :
         Len(found) <= MaxRec /\ SearchFile(found, unread) /\ CleanFile(found)
  BY DEF Crash
<1>2. Cardinality(S) \in Nat
  BY FaxAssumption, FS_Subset, FS_CardinalityType
<1>3. found \in [1 .. Cardinality(S) -> S] /\ Len(found) = Cardinality(S)
  <2>1. found \in [1 .. Cardinality(S) -> S]
    BY DEF Orders
  <2> HIDE DEF S
  <2> QED BY <1>2, <2>1
<1>4. RecordTypes'
  <2>1. /\ file' = [r \in Recs |-> IF r <= Len(found) THEN found[r] ELSE Missing]
        /\ life' = [r \in Recs |-> IF r <= Len(found) THEN "live" ELSE "none"]
    BY <1>1 DEF SearchFile
  <2>2. \A r \in Recs : r <= Len(found) => found[r] \in Faxes
    BY <1>3, NumberTypes DEF Recs
  <2> QED BY <2>1, <2>2 DEF RecordTypes
<1>5. Closed \in OpenFiles /\ "none" \in ServerStates
  BY NumberTypes DEF Closed, OpenFiles, ServerStates
<1>6. ThreadTypes'
  BY <1>5, NumberTypes DEF Crash, ThreadTypes
<1>7. FileTypes'
  <2>1. ted' \in [Faxes -> Inodes \cup {NoFile}]
    BY <1>1 DEF CleanFile, Typed, FileTypes
  <2>2. cause' \in [Faxes -> SUBSET Causes]
    <3>1. \A f \in Faxes : Damage(f) \subseteq Causes
      BY DEF Damage, Causes
    <3> QED BY <3>1 DEF Crash, Typed, FileTypes
  <2> QED BY <2>1, <2>2, SweepTyped DEF Crash, Typed
<1>8. \A r \in Recs : AtStart(r)' /\ AtWork(r)'
  BY DEF Crash, AtStart, AtWork
<1> QED BY <1>4, <1>6, <1>7, <1>8

LEMMA TypedStep == Typed /\ [Next]_vars => Typed'
<1> SUFFICES ASSUME Typed, [Next]_vars PROVE Typed'
  OBVIOUS
<1>1. Owned'
  BY StepOwned DEF Typed
<1>2. ASSUME UNCHANGED <<thread, net, file, ted, inode, cause>>,
             \A r \in Recs : life'[r] # "none" => life[r] # "none"
      PROVE  Typed'
  BY <1>1, <1>2 DEF Typed, RecordTypes, ThreadTypes, FileTypes, AtStart, AtWork, thread, net
<1>3. CASE UNCHANGED vars
  BY <1>2, <1>3 DEF vars, records, files, counts
<1>4. ASSUME NEW r \in Recs, Step(r) PROVE Typed'
  <2>1. StepTyped(r)
    BY <1>4, ThreadTyped
  <2>2. \A s \in Recs \ {r} : AtStart(s)' /\ AtWork(s)'
    <3> SUFFICES ASSUME NEW s \in Recs \ {r} PROVE AtStart(s)' /\ AtWork(s)'
      OBVIOUS
    <3>1. Fields(s)' = Fields(s)
      BY <1>4, Alone DEF Typed, Owned
    <3>2. AtStart(s) /\ AtWork(s)
      BY DEF Typed
    <3> QED BY <3>1, <3>2 DEF Fields, AtStart, AtWork
  <2>3. file' = file /\ \A s \in Recs : life'[s] # "none" => life[s] # "none"
    <3>1. CASE ConnectFails(r) \/ CreateFirstFails(r)
      <4>1. life[r] = "live"
        BY <3>1 DEF ConnectFails, CreateFirstFails, At, Typed, Owned, Busy
      <4> QED BY <3>1, <4>1 DEF ConnectFails, CreateFirstFails, GiveUp, Freed, Typed, Owned
    <3>2. CASE ~(ConnectFails(r) \/ CreateFirstFails(r))
      BY <1>4, <3>2, SettingFrame DEF Step, ReceiveFax, Connect, CreateFirst,
            OpenFile, OpenFileFails, WriteBlock, WriteBlockFails, NoFileOpen, ReceiveStop,
            CopyOpen, CopyBlock, CopyDone, CopyFails, Queue, Report, AnswerStop, GetPacketFails,
            End, FileServer, ServerSends, ServerStops, ServerRetries, ServerCloses, ServerSays,
            records
    <3> QED BY <3>1, <3>2
  <2> QED BY <1>1, <2>1, <2>2, <2>3 DEF Typed, StepTyped, RecordTypes
<1>5. CASE Take \/ CancelTif
  <2>1. UNCHANGED <<thread, net, file, ted, inode, cause>>
    BY <1>5 DEF Take, CancelTif, files, counts
  <2>2. \A r \in Recs : life'[r] # "none" => life[r] # "none"
    <3>1. PICK r \in Recs : life[r] = "live" /\ life' = Freed(r)
      <4>1. CASE Take
        <5>1. Head(list) = list[1] /\ 1 \in 1 .. Len(list)
          BY <4>1 DEF Take, Typed, Owned
        <5> QED BY <4>1, <5>1 DEF Take, Typed, Owned
      <4>2. CASE CancelTif
        BY <4>2 DEF CancelTif, Typed, Owned
      <4> QED BY <1>5, <4>1, <4>2
    <3> QED BY <3>1 DEF Freed, Typed, Owned
  <2> QED BY <1>2, <2>1, <2>2
<1>6. ASSUME NEW f \in Faxes, CancelIni(f) PROVE Typed'
  BY <1>2, <1>6 DEF CancelIni, records, counts
<1>7. ASSUME NEW f \in Faxes, Announce(f) PROVE Typed'
  BY <1>1, <1>7, AnnounceTyped DEF Typed
<1>8. CASE Crash
  BY <1>1, <1>8, CrashTyped DEF Typed
<1> QED BY <1>3, <1>4, <1>5, <1>6, <1>7, <1>8, NextSteps

LEMMA AlwaysTyped == Spec => []Typed
BY InitTyped, TypedStep, PTL DEF Spec

-----------------------------------------------------------------------------
(* One record for each fax, unless it was announced again: whatever works  *)
(* on its files, or is listed with it, is the same record.                 *)

Active(r) == r \in Range(list) \/ pc[r] \in Working

\* The thread has not begun to write TID.tif.
Early == {"ini", "trunc", "connect", "create", "loop", "copy"}

Single(f) ==
    \A r, s \in Recs : file[r] = f /\ file[s] = f /\ Active(r) /\ Active(s) => r = s

NotYet(f) == \A r \in Recs : file[r] = f /\ pc[r] \in Early => tif[f] = NoTif

Once == \A f \in Faxes : "announced twice" \notin cause[f] => Single(f) /\ NotYet(f)

LEMMA InitOnce == Init => Once
<1> SUFFICES ASSUME Init PROVE Once
  OBVIOUS
<1>1. \A r \in Recs : file[r] \notin Faxes
  BY NumberTypes DEF Init
<1> QED BY <1>1 DEF Once, Single, NotYet

\* The list only loses a record, when that is taken or cancelled.
LEMMA ListShrinks ==
    ASSUME Owned, Owned', Take \/ CancelTif
    PROVE  /\ Range(list') \subseteq Range(list)
           /\ CancelTif => rx \notin Range(list')
<1>1. list \in Seq(Recs) /\ list' \in Seq(Recs) /\ Len(list) \in Nat
  BY DEF Owned
<1>2. CASE Take
  <2>1. list' = Tail(list) /\ list # <<>> /\ rx = 0
    BY <1>2 DEF Take, Unlocked
  <2>2. Len(list') = Len(list) - 1 /\ \A i \in 1 .. Len(list) - 1 : list'[i] = list[i + 1]
    BY <1>1, <2>1
  <2>3. Range(list') \subseteq Range(list)
    BY <1>1, <2>2 DEF Range
  <2>4. CancelTif => FALSE
    BY <2>1 DEF CancelTif
  <2> QED BY <2>3, <2>4
<1>3. CASE CancelTif
  <2> DEFINE I == {i \in 1 .. Len(list) : list[i] = rx}
             k == Min(I)
  <2>1. I \in SUBSET Nat /\ I # {}
    BY <1>3 DEF CancelTif, Owned
  <2>2. k \in I
    <3> HIDE DEF I
    <3> QED BY <2>1, HasMin
  <2>3. k \in 1 .. Len(list) /\ list[k] = rx /\ list' = RemoveAt(list, k)
    BY <1>3, <2>2 DEF CancelTif, Erased
  <2> HIDE DEF I, k
  <2>4. /\ Len(list') = Len(list) - 1
        /\ \A i \in 1 .. Len(list) - 1 : list'[i] = list[IF i < k THEN i ELSE i + 1]
    BY <1>1, <2>3, Removed
  <2>5. \A i \in 1 .. Len(list') : \E j \in 1 .. Len(list) : j # k /\ list'[i] = list[j]
    <3> SUFFICES ASSUME NEW i \in 1 .. Len(list')
                 PROVE  \E j \in 1 .. Len(list) : j # k /\ list'[i] = list[j]
      OBVIOUS
    <3> DEFINE j == IF i < k THEN i ELSE i + 1
    <3>1. j \in 1 .. Len(list) /\ j # k /\ list'[i] = list[j]
      BY <1>1, <2>3, <2>4
    <3> QED BY <3>1
  <2>6. \A i \in 1 .. Len(list') : list'[i] # rx
    BY <2>3, <2>5 DEF Owned
  <2> QED BY <1>1, <2>5, <2>6 DEF Range
<1> QED BY <1>2, <1>3

\* The faxes that a new process finds, each once.
Stored == {f \in Faxes : tif[f] # NoTif}

\* The next process: the records 1 .. n are the faxes it finds.
Restart(n, found, unread) ==
    /\ n \in Nat /\ n <= MaxRec
    /\ found \in [1 .. n -> Stored] /\ Range(found) = Stored
    /\ \A i, j \in 1 .. n : found[i] = found[j] => i = j
    /\ list' = [i \in 1 .. n |-> i] /\ Range(list') = 1 .. n
    /\ file' = [r \in Recs |-> IF r <= n THEN found[r] ELSE Missing]
    /\ desc' = [r \in Recs |-> IF r <= n THEN GetSetting(found[r], unread)
                               ELSE [k \in Range(Keys) |-> Missing]]
    /\ lost' = lost \cup {entry[1] : entry \in unread}
    /\ ini' = ini \/ (Stored = {} /\ ini' = [f \in Faxes |-> NoIni])

LEMMA CrashFinds ==
    ASSUME Crash PROVE \E n, found, unread : Restart(n, found, unread)
<1> DEFINE S == {f \in Faxes : tif[f] # NoTif}
<1>1. PICK found \in Orders(S), unread \in SUBSET (S \X Range(Keys)) :
         /\ Len(found) <= MaxRec /\ SearchFile(found, unread) /\ CleanFile(found)
         /\ lost' = lost \cup {entry[1] : entry \in unread}
  BY DEF Crash
<1> DEFINE n == Cardinality(S)
<1>2. IsFiniteSet(S) /\ n \in Nat
  BY FaxAssumption, FS_Subset, FS_CardinalityType
<1>3. found \in [1 .. n -> S] /\ Range(found) = S
  BY DEF Orders
<1> HIDE DEF S, n
<1>4. Len(found) = n
  BY <1>2, <1>3
<1>5. \A i, j \in 1 .. n : found[i] = found[j] => i = j
  <2>1. 1 \in Int /\ n \in Int
    BY <1>2
  <2>2. IsFiniteSet(1 .. n) /\ Cardinality(1 .. n) = IF 1 > n THEN 0 ELSE n - 1 + 1
    BY ONLY <2>1, FS_Interval
  <2>3. Cardinality(1 .. n) = Cardinality(S)
    BY <1>2, <2>2 DEF n
  <2>4. found \in Surjection(1 .. n, S)
    BY <1>3 DEF Surjection, Range
  <2>5. found \in Injection(1 .. n, S)
    BY <2>2, <2>3, <2>4, FS_SurjSameCardinalityImpliesInj
  <2> QED BY <2>5 DEF Injection, IsInjective
<1>6. list' = [i \in 1 .. n |-> i]
  BY <1>1, <1>4 DEF SearchFile
<1>7. Range(list') = 1 .. n
  BY <1>6 DEF Range
<1>8. /\ file' = [r \in Recs |-> IF r <= n THEN found[r] ELSE Missing]
      /\ desc' = [r \in Recs |-> IF r <= n THEN GetSetting(found[r], unread)
                                 ELSE [k \in Range(Keys) |-> Missing]]
  BY <1>1, <1>4 DEF SearchFile
<1>9. ini' = ini \/ (S = {} /\ ini' = [f \in Faxes |-> NoIni])
  <2>1. CASE found = <<>>
    <3>1. n = 0
      BY <1>4, <2>1
    <3>2. S = {}
      BY <1>3, <3>1 DEF Range
    <3> QED BY <1>1, <2>1, <3>2 DEF CleanFile
  <2>2. CASE found # <<>>
    BY <1>1, <2>2 DEF CleanFile
  <2> QED BY <2>1, <2>2
<1>10. n <= MaxRec
  BY <1>1, <1>4
<1>11. S = Stored
  BY DEF S, Stored
<1>12. Restart(n, found, unread)
  BY <1>1, <1>2, <1>3, <1>5, <1>6, <1>7, <1>8, <1>9, <1>10, <1>11 DEF Restart
<1> QED BY <1>12

\* What may have damaged a fax stays known.
LEMMA CauseGrows ==
    ASSUME Typed, Next, NEW f \in Faxes PROVE cause[f] \subseteq cause'[f]
<1>1. \A g, c : Blame(g, c) => cause[f] \subseteq cause'[f]
  BY DEF Blame, Typed, FileTypes
<1>2. CASE Crash
  BY <1>2 DEF Crash
<1>3. ASSUME NEW g \in Faxes, Announce(g) \/ CancelIni(g) PROVE cause[f] \subseteq cause'[f]
  BY <1>1, <1>3 DEF Announce, CancelIni, counts
<1>4. CASE Take \/ CancelTif
  BY <1>4 DEF Take, CancelTif, counts
<1>5. ASSUME NEW r \in Recs, Step(r) PROVE cause[f] \subseteq cause'[f]
  <2>1. CASE FileServer(r)
    BY <1>1, <2>1 DEF FileServer, ServerSends, ServerStops, ServerRetries, ServerCloses
  <2>2. CASE CopyFails(r)
    BY <1>1, <2>2 DEF CopyFails
  <2>3. CASE WriteSetting(r)
    BY <2>3, SettingFrame
  <2>4. CASE ReceiveFax(r) /\ ~CopyFails(r)
    BY <2>4 DEF ReceiveFax, Connect, ConnectFails, CreateFirst, CreateFirstFails,
          OpenFile, OpenFileFails, WriteBlock, WriteBlockFails, NoFileOpen, ReceiveStop,
          CopyOpen, CopyBlock, CopyDone, Queue, Report, AnswerStop, GetPacketFails, End, counts
  <2> QED BY <1>5, <2>1, <2>2, <2>3, <2>4 DEF Step
<1> QED BY <1>2, <1>3, <1>4, <1>5, NextSteps

\* Only a working thread takes a step of its own, and only it can be listed by it.
LEMMA StepOfActive ==
    ASSUME Typed, NEW r \in Recs, Step(r)
    PROVE  /\ file' = file
           /\ Range(list') \subseteq Range(list) \cup {s \in {r} : pc[r] \in Working}
           /\ pc'[r] # pc[r] => pc[r] \in Working
           /\ pc'[r] \in Early => pc[r] \in Early
<1> USE DEF Typed, Owned, Goto, At, Early, Working
<1>1. CASE Queue(r)
  <2>1. /\ list' = Append(list, r) /\ file' = file /\ pc[r] = "append"
        /\ pc'[r] \in {"report", "stop"}
    BY <1>1 DEF Queue
  <2>2. /\ Len(list') = Len(list) + 1 /\ list' \in Seq(Recs) /\ Len(list) \in Nat
        /\ \A i \in 1 .. Len(list) : list'[i] = list[i]
        /\ list'[Len(list) + 1] = r
    BY <2>1, AppendProperties, LenProperties
  <2>3. Range(list') \subseteq Range(list) \cup {r}
    <3>1. \A i \in 1 .. Len(list') : i \in 1 .. Len(list) \/ i = Len(list) + 1
      BY <2>2
    <3> QED BY <2>2, <3>1 DEF Range
  <2> QED BY <2>1, <2>3
<1>2. CASE FileServer(r)
  BY <1>2 DEF FileServer, ServerSends, ServerStops, ServerRetries, ServerCloses, ServerSays,
              records, thread
<1>3. CASE WriteSetting(r)
  BY <1>3, SettingFrame
<1>4. CASE \/ Connect(r) \/ ConnectFails(r) \/ CreateFirst(r) \/ CreateFirstFails(r)
           \/ AnswerStop(r) \/ GetPacketFails(r) \/ Report(r)
  BY <1>4 DEF Connect, ConnectFails, CreateFirst, CreateFirstFails, GiveUp, AnswerStop,
              GetPacketFails, End, Report, records
<1>5. CASE \/ OpenFile(r) \/ OpenFileFails(r) \/ WriteBlock(r) \/ WriteBlockFails(r)
           \/ NoFileOpen(r) \/ CopyBlock(r)
  BY <1>5 DEF OpenFile, OpenFileFails, WriteBlock, WriteBlockFails, NoFileOpen, CopyBlock, records
<1>6. CASE ReceiveStop(r) \/ CopyOpen(r) \/ CopyDone(r) \/ CopyFails(r)
  BY <1>6 DEF ReceiveStop, Receives, CopyOpen, CopyDone, CopyFails, records
<1> QED BY <1>1, <1>2, <1>3, <1>4, <1>5, <1>6 DEF Step, ReceiveFax

TifTyped == tif \in [Faxes -> Seq(0 .. Blocks + 1)]

\* TID.tif is written by the copy and deleted by the cancellation.
LEMMA TifSteps ==
    ASSUME Next
    PROVE  \/ UNCHANGED tif
           \/ \E r \in Recs : CopyOpen(r) \/ CopyBlock(r)
           \/ CancelTif
<1> USE DEF files
<1>1. ASSUME NEW r \in Recs, Step(r), ~CopyOpen(r), ~CopyBlock(r) PROVE UNCHANGED tif
  <2>1. CASE FileServer(r)
    BY <2>1 DEF FileServer, ServerSends, ServerStops, ServerRetries, ServerCloses, ServerSays
  <2>2. CASE WriteSetting(r)
    BY <2>2, SettingFrame
  <2>3. CASE ReceiveFax(r)
    BY <1>1, <2>3 DEF ReceiveFax, Connect, ConnectFails, CreateFirst, CreateFirstFails,
          OpenFile, OpenFileFails, WriteBlock, WriteBlockFails, NoFileOpen, ReceiveStop,
          CopyDone, CopyFails, Queue, Report, AnswerStop, GetPacketFails, End
  <2> QED BY <1>1, <2>1, <2>2, <2>3 DEF Step
<1>2. Take \/ Crash \/ (\E f \in Faxes : Announce(f) \/ CancelIni(f)) => UNCHANGED tif
  BY DEF Take, Crash, Announce, CancelIni
<1> QED BY <1>1, <1>2, NextSteps

LEMMA TifTypedStep == ASSUME Typed, TifTyped, [Next]_vars PROVE TifTyped'
<1>0. /\ <<>> \in Seq(0 .. Blocks + 1) /\ NoTif \in Seq(0 .. Blocks + 1)
  BY NumberTypes DEF NoTif
<1>1. CASE UNCHANGED tif
  BY <1>1 DEF TifTyped
<1>2. ASSUME NEW r \in Recs, CopyOpen(r) PROVE TifTyped'
  BY <1>0, <1>2 DEF CopyOpen, TifTyped
<1>3. CASE CancelTif
  BY <1>0, <1>3 DEF CancelTif, TifTyped
<1>4. ASSUME NEW r \in Recs, CopyBlock(r) PROVE TifTyped'
  <2> DEFINE T == 0 .. Blocks + 1
             s == tif[file[r]]
             pos == copy[r].pos
             b == inode[copy[r].ino][pos + 1]
  <2>1. file[r] \in Faxes /\ copy[r].ino \in Inodes /\ copy[r] \in OpenFiles
    BY <1>4 DEF CopyBlock, At, Typed, RecordTypes, ThreadTypes, Owned, Busy, AtWork
  <2>2. inode[copy[r].ino] \in Seq(0 .. Blocks) /\ pos < Len(inode[copy[r].ino]) /\ pos \in Nat
    BY <1>4, <2>1 DEF CopyBlock, Typed, FileTypes, OpenFiles
  <2>3. b \in 0 .. Blocks
    <3>1. pos + 1 \in 1 .. Len(inode[copy[r].ino])
      BY <2>2
    <3> HIDE DEF pos
    <3> QED BY <2>2, <3>1, ElementOfSeq
  <2>4. s \in Seq(T) /\ 0 \in T /\ b \in T
    BY <2>1, <2>3, NumberTypes DEF TifTyped
  <2>5. tif' = [tif EXCEPT ![file[r]] = IF s = NoTif THEN NoTif ELSE Written(s, pos, b)]
    BY <1>4 DEF CopyBlock
  <2> DEFINE n == Len(s) + pos + 1
  <2>6. n \in Nat /\ Len(s) <= n /\ pos < n
    BY <2>2, <2>4
  <2> HIDE DEF T, s, pos, b, n
  <2>7. Written(s, pos, b) \in Seq(T)
    BY <2>2, <2>4, <2>6, WrittenType
  <2>8. (IF s = NoTif THEN NoTif ELSE Written(s, pos, b)) \in Seq(T)
    BY <1>0, <2>7 DEF T
  <2> QED BY <2>5, <2>8 DEF T, TifTyped
<1> QED BY <1>1, <1>2, <1>3, <1>4, TifSteps DEF vars, files

\* The copy of one fax leaves the others' .tif alone.
LEMMA TifOfStep ==
    ASSUME TifTyped, Typed, NEW r \in Recs, Step(r), NEW f \in Faxes, tif'[f] # tif[f]
    PROVE  f = file[r] /\ pc[r] \in {"copy", "copying"} /\ pc'[r] = "copying"
<1>1. CASE CopyOpen(r) \/ CopyBlock(r)
  BY <1>1 DEF CopyOpen, CopyBlock, TifTyped, Goto, At, Typed, Owned
<1>2. CASE ~(CopyOpen(r) \/ CopyBlock(r))
  <2> USE DEF files
  <2>1. CASE FileServer(r)
    BY <2>1 DEF FileServer, ServerSends, ServerStops, ServerRetries, ServerCloses, ServerSays
  <2>2. CASE WriteSetting(r)
    BY <2>2, SettingFrame
  <2>3. CASE ReceiveFax(r)
    BY <1>2, <2>3 DEF ReceiveFax, Connect, ConnectFails, CreateFirst, CreateFirstFails,
          OpenFile, OpenFileFails, WriteBlock, WriteBlockFails, NoFileOpen, ReceiveStop,
          CopyDone, CopyFails, Queue, Report, AnswerStop, GetPacketFails, End
  <2> QED BY <2>1, <2>2, <2>3 DEF Step
<1> QED BY <1>1, <1>2

\* A step that starts nothing new keeps Once.
LEMMA CalmOnce ==
    ASSUME Typed, Once, Next, file' = file,
           \A r \in Recs : Active(r)' => Active(r),
           \A r \in Recs : pc'[r] \in Early => pc[r] \in Early,
           \A r \in Recs, f \in Faxes :
               /\ "announced twice" \notin cause[f]
               /\ file[r] = f /\ pc'[r] \in Early /\ tif[f] = NoTif
               => tif'[f] = NoTif
    PROVE  Once'
<1> SUFFICES ASSUME NEW f \in Faxes, "announced twice" \notin cause'[f]
             PROVE  (Single(f) /\ NotYet(f))'
  BY DEF Once
<1>1. "announced twice" \notin cause[f]
  BY CauseGrows
<1>2. Single(f) /\ NotYet(f)
  BY <1>1 DEF Once
<1>3. Single(f)'
  BY <1>2 DEF Single
<1>4. NotYet(f)'
  BY <1>1, <1>2 DEF NotYet
<1> QED BY <1>3, <1>4

LEMMA AnnounceOnce ==
    ASSUME Typed, Once, NEW f \in Faxes, Announce(f) PROVE Once'
<1> DEFINE n == NextRec
<1>1. n \in Recs /\ life[n] = "none"
  BY FreeRecord DEF Announce
<1>2. /\ file' = [file EXCEPT ![n] = f] /\ pc' = [pc EXCEPT ![n] = "ini"]
      /\ UNCHANGED <<list, tif>>
      /\ IF Known(f) THEN Blame(f, "announced twice") ELSE UNCHANGED cause
  BY DEF Announce, Goto, files
<1>3. n \notin Range(list) /\ pc[n] = "none"
  BY <1>1 DEF Typed, Owned, Range
<1> HIDE DEF n
<1>4. /\ file'[n] = f /\ pc'[n] = "ini"
      /\ \A r \in Recs \ {n} : file'[r] = file[r] /\ pc'[r] = pc[r]
  BY <1>1, <1>2 DEF Typed, RecordTypes, Owned
<1>5. \A r \in Recs \ {n} : Active(r)' = Active(r)
  BY <1>2, <1>4 DEF Active
<1>6. ASSUME NEW g \in Faxes \ {f}, "announced twice" \notin cause'[g]
      PROVE  (Single(g) /\ NotYet(g))'
  <2>1. cause'[g] = cause[g]
    BY <1>2 DEF Blame, Typed, FileTypes
  <2>2. Single(g) /\ NotYet(g)
    BY <1>6, <2>1 DEF Once
  <2>3. Single(g)'
    BY <1>4, <1>5, <2>2 DEF Single
  <2>4. NotYet(g)'
    BY <1>2, <1>4, <2>2 DEF NotYet
  <2> QED BY <2>3, <2>4
<1>7. ASSUME "announced twice" \notin cause'[f]
      PROVE  (Single(f) /\ NotYet(f))'
  <2>1. ~Known(f)
    BY <1>2, <1>7 DEF Blame, Typed, FileTypes
  <2>2. tif[f] = NoTif /\ \A r \in Recs : file[r] = f => ~Active(r)
    BY <2>1 DEF Known, Active
  <2>3. Single(f)'
    BY <1>4, <1>5, <2>2 DEF Single
  <2>4. NotYet(f)'
    BY <1>2, <2>2 DEF NotYet
  <2> QED BY <2>3, <2>4
<1> QED BY <1>6, <1>7 DEF Once

LEMMA OnceStep ==
    ASSUME Typed, Typed', TifTyped, Once, [Next]_vars PROVE Once'
<1>1. CASE UNCHANGED vars
  BY <1>1 DEF vars, records, thread, files, counts, Once, Single, NotYet, Active
<1>2. ASSUME Next, NEW r \in Recs, Step(r) PROVE Once'
  <2>1. /\ file' = file
        /\ Range(list') \subseteq Range(list) \cup {s \in {r} : pc[r] \in Working}
        /\ pc'[r] # pc[r] => pc[r] \in Working
        /\ pc'[r] \in Early => pc[r] \in Early
    BY <1>2, StepOfActive
  <2>2. \A s \in Recs \ {r} : pc'[s] = pc[s]
    BY <1>2, Alone DEF Typed, Owned, Fields
  <2>3. \A s \in Recs : Active(s)' => Active(s)
    BY <2>1, <2>2 DEF Active
  <2>4. \A s \in Recs : pc'[s] \in Early => pc[s] \in Early
    BY <2>1, <2>2
  <2>5. ASSUME NEW s \in Recs, NEW f \in Faxes, "announced twice" \notin cause[f],
               file[s] = f, pc'[s] \in Early, tif[f] = NoTif
        PROVE  tif'[f] = NoTif
    <3> SUFFICES ASSUME tif'[f] # tif[f] PROVE FALSE
      BY <2>5
    <3>1. f = file[r] /\ pc[r] \in {"copy", "copying"} /\ pc'[r] = "copying"
      BY <1>2, TifOfStep
    <3>2. s # r /\ pc[s] \in Early
      BY <2>4, <2>5, <3>1 DEF Early
    <3>3. Active(r) /\ Active(s)
      BY <3>1, <3>2 DEF Active, Working, Early
    <3> QED BY <2>5, <3>1, <3>2, <3>3 DEF Once, Single
  <2> QED BY <1>2, <2>1, <2>3, <2>4, <2>5, CalmOnce
<1>3. ASSUME Next, Take \/ CancelTif PROVE Once'
  <2>1. Range(list') \subseteq Range(list) /\ UNCHANGED <<file, pc>>
    BY <1>3, ListShrinks DEF Take, CancelTif, thread, Typed
  <2>2. \A f \in Faxes : tif[f] = NoTif => tif'[f] = NoTif
    BY <1>3 DEF Take, CancelTif, TifTyped, files
  <2>3. \A s \in Recs : Active(s)' => Active(s)
    BY <2>1 DEF Active
  <2> QED BY <1>3, <2>1, <2>2, <2>3, CalmOnce
<1>4. ASSUME Next, NEW f \in Faxes, CancelIni(f) PROVE Once'
  <2>1. UNCHANGED <<file, pc, list, tif>>
    BY <1>4 DEF CancelIni, records, thread
  <2>2. \A s \in Recs : Active(s)' => Active(s)
    BY <2>1 DEF Active
  <2> QED BY <1>4, <2>1, <2>2, CalmOnce
<1>5. ASSUME NEW f \in Faxes, Announce(f) PROVE Once'
  BY <1>5, AnnounceOnce
<1>6. CASE Crash
  <2>1. PICK n, found, unread : Restart(n, found, unread)
    BY <1>6, CrashFinds
  <2>2. /\ n \in Nat /\ found \in [1 .. n -> Stored]
        /\ \A i, j \in 1 .. n : found[i] = found[j] => i = j
        /\ Range(list') = 1 .. n
        /\ file' = [r \in Recs |-> IF r <= n THEN found[r] ELSE Missing]
    BY <2>1 DEF Restart
  <2>3. \A r \in Recs : pc'[r] = "none"
    BY <1>6 DEF Crash
  <2>4. \A r \in Recs : Active(r)' => r \in 1 .. n /\ file'[r] = found[r]
    BY <2>2, <2>3 DEF Active, Working
  <2>5. \A f \in Faxes : Single(f)'
    BY <2>2, <2>4 DEF Single
  <2>6. \A f \in Faxes : NotYet(f)'
    BY <2>3 DEF NotYet, Early
  <2> QED BY <2>5, <2>6 DEF Once
<1> QED BY <1>1, <1>2, <1>3, <1>4, <1>5, <1>6, NextSteps

LEMMA AlwaysOnce == Spec => [](Typed /\ TifTyped /\ Once)
<1>1. Init => TifTyped
  BY NumberTypes DEF Init, TifTyped, NoTif
<1>2. Typed /\ Typed' /\ TifTyped /\ Once /\ [Next]_vars => TifTyped' /\ Once'
  BY TifTypedStep, OnceStep
<1> QED BY <1>1, <1>2, InitOnce, AlwaysTyped, PTL DEF Spec

(* An offset never passes the end of the document, and the files contain   *)
(* blocks: what a thread writes, it writes where the server is or before.  *)
(* (TcpSession.cpp:1102-1131, linux_compat.cpp:262-274, 439-464)           *)
THEOREM TypeCorrect == Spec => []TypeOK
<1>1. Typed /\ TifTyped => TypeOK
  <2> SUFFICES ASSUME Typed, TifTyped PROVE TypeOK
    OBVIOUS
  <2>1. rx \in Recs \cup {0}
    BY DEF Typed, Owned
  <2> QED BY <2>1
        DEF Typed, TifTyped, Owned, RecordTypes, ThreadTypes, FileTypes, TypeOK
<1> QED BY <1>1, AlwaysOnce, PTL

-----------------------------------------------------------------------------
(* Whose inodes: no two faxes share one, and a thread that has the inode   *)
(* of a TID.ted open works for that fax.                                   *)

Owns ==
    /\ \A f, g \in Faxes : ted[f] = ted[g] /\ ted[f] # NoFile => f = g
    /\ \A r \in Recs, f \in Faxes : open[r].ino = ted[f] /\ ted[f] # NoFile => file[r] = f

LEMMA TedIsOwn ==
    ASSUME Typed, Owns, NEW f \in Faxes, NEW g \in Faxes, ted[g] = TedInode(f)
    PROVE  f = g
<1>1. TedInode(f) # NoFile
  BY TedIsInode, NumberTypes DEF NoFile
<1>2. CASE ted[f] # NoFile
  BY <1>1, <1>2, TedIsInode DEF Owns
<1>3. CASE ted[f] = NoFile
  <2>1. TedInode(f) \notin Used(ted, open, copy)
    BY <1>3, TedIsInode
  <2>2. ted[g] \in Used(ted, open, copy)
    BY DEF Used, Range, Typed, FileTypes
  <2> QED BY <2>1, <2>2
<1> QED BY <1>2, <1>3

LEMMA OpenIsOwn ==
    ASSUME Typed, Owns, NEW f \in Faxes, NEW r \in Recs, open[r].ino = TedInode(f)
    PROVE  file[r] = f
<1>1. TedInode(f) # NoFile
  BY TedIsInode, NumberTypes DEF NoFile
<1>2. CASE ted[f] # NoFile
  BY <1>1, <1>2, TedIsInode DEF Owns
<1>3. CASE ted[f] = NoFile
  <2>1. TedInode(f) \notin Used(ted, open, copy)
    BY <1>3, TedIsInode
  <2>2. open[r].ino \in Used(ted, open, copy)
    BY DEF Used
  <2> QED BY <2>1, <2>2
<1> QED BY <1>2, <1>3

\* What changes the names and the open files.
LEMMA InodeSteps ==
    ASSUME Next
    PROVE  \/ UNCHANGED <<ted, open, file>>
           \/ \E r \in Recs : \/ CreateFirst(r) \/ OpenFile(r)
                              \/ WriteBlock(r) \/ WriteBlockFails(r)
                              \/ CopyDone(r) \/ CopyFails(r)
                              \/ AnswerStop(r) \/ GetPacketFails(r)
           \/ Crash \/ \E f \in Faxes : Announce(f)
<1> USE DEF files, records, thread
<1>1. ASSUME NEW r \in Recs, Step(r)
      PROVE  \/ UNCHANGED <<ted, open, file>>
             \/ CreateFirst(r) \/ OpenFile(r) \/ WriteBlock(r) \/ WriteBlockFails(r)
             \/ CopyDone(r) \/ CopyFails(r) \/ AnswerStop(r) \/ GetPacketFails(r)
  <2>1. CASE FileServer(r)
    BY <2>1 DEF FileServer, ServerSends, ServerStops, ServerRetries, ServerCloses, ServerSays
  <2>2. CASE WriteSetting(r)
    BY <2>2, SettingFrame
  <2>3. CASE ReceiveFax(r)
    BY <2>3 DEF ReceiveFax, Connect, ConnectFails, CreateFirstFails, OpenFileFails, NoFileOpen,
                ReceiveStop, CopyOpen, CopyBlock, Queue, Report
  <2> QED BY <1>1, <2>1, <2>2, <2>3 DEF Step
<1>2. Take \/ CancelTif \/ (\E f \in Faxes : CancelIni(f)) => UNCHANGED <<ted, open, file>>
  BY DEF Take, CancelTif, CancelIni
<1> QED BY <1>1, <1>2, NextSteps

LEMMA OwnsStep == ASSUME Typed, Owns, [Next]_vars PROVE Owns'
<1>1. CASE UNCHANGED <<ted, open, file>>
  BY <1>1 DEF Owns
<1>2. ASSUME NEW r \in Recs, CreateFirst(r) \/ OpenFile(r) PROVE Owns'
  <2> DEFINE f == file[r]
             i == TedInode(f)
  <2>1. f \in Faxes
    BY <1>2 DEF CreateFirst, OpenFile, At, Receives, Typed, RecordTypes, Owned, Busy
  <2>2. /\ ted' = [ted EXCEPT ![f] = i] /\ file' = file
        /\ open' = open \/ open' = [open EXCEPT ![r] = [ino |-> i, pos |-> 0]]
    BY <1>2 DEF CreateFirst, OpenFile, CreateTed, records
  <2>3. \A g \in Faxes : ted[g] = i => g = f
    BY <2>1, TedIsOwn
  <2>4. \A s \in Recs : open[s].ino = i => file[s] = f
    BY <2>1, OpenIsOwn
  <2>5. \A g \in Faxes : ted'[g] = IF g = f THEN i ELSE ted[g]
    BY <2>1, <2>2 DEF Typed, FileTypes
  <2>6. \A s \in Recs : open'[s].ino = open[s].ino \/ (s = r /\ open'[s].ino = i)
    BY <2>2 DEF Typed, ThreadTypes
  <2> HIDE DEF i
  <2>7. \A g, h \in Faxes : ted'[g] = ted'[h] /\ ted'[g] # NoFile => g = h
    BY <2>3, <2>5 DEF Owns
  <2>8. ASSUME NEW s \in Recs, NEW g \in Faxes, open'[s].ino = ted'[g], ted'[g] # NoFile
        PROVE  file'[s] = g
    BY <2>2, <2>3, <2>4, <2>5, <2>6, <2>8 DEF Owns
  <2> QED BY <2>7, <2>8 DEF Owns
<1>3. ASSUME NEW r \in Recs, WriteBlock(r) \/ WriteBlockFails(r) PROVE Owns'
  <2>1. UNCHANGED <<ted, file>>
    BY <1>3 DEF WriteBlock, WriteBlockFails, records
  <2>2. \A s \in Recs : open'[s].ino = open[s].ino
    <3>1. open' = open \/ open' = [open EXCEPT ![r] = [open[r] EXCEPT !.pos = @ + 1]]
      BY <1>3 DEF WriteBlock, WriteBlockFails, WriteTo
    <3>2. open[r] \in OpenFiles
      BY DEF Typed, ThreadTypes
    <3>3. [open[r] EXCEPT !.pos = @ + 1].ino = open[r].ino
      BY <3>2 DEF OpenFiles
    <3> QED BY <3>1, <3>3 DEF Typed, ThreadTypes
  <2> QED BY <2>1, <2>2 DEF Owns
<1>4. ASSUME NEW r \in Recs, CopyDone(r) \/ CopyFails(r) PROVE Owns'
  <2>1. UNCHANGED <<open, file>> /\ ted' = [ted EXCEPT ![file[r]] = NoFile]
    BY <1>4 DEF CopyDone, CopyFails, records
  <2>2. \A f \in Faxes : ted'[f] = ted[f] \/ ted'[f] = NoFile
    BY <2>1 DEF Typed, FileTypes
  <2> QED BY <2>1, <2>2 DEF Owns
<1>5. ASSUME NEW r \in Recs, AnswerStop(r) \/ GetPacketFails(r) PROVE Owns'
  <2>1. UNCHANGED <<ted, file>> /\ open' = [open EXCEPT ![r] = Closed]
    BY <1>5 DEF AnswerStop, GetPacketFails, End, records
  <2>2. \A s \in Recs : open'[s] = open[s] \/ open'[s].ino = NoFile
    BY <2>1 DEF Typed, ThreadTypes, Closed
  <2> QED BY <2>1, <2>2 DEF Owns
<1>6. CASE Crash
  <2>1. \A s \in Recs : open'[s].ino = NoFile
    BY <1>6 DEF Crash, Closed
  <2>2. ted' = ted \/ \A f \in Faxes : ted'[f] = NoFile
    BY <1>6 DEF Crash, CleanFile
  <2> QED BY <2>1, <2>2 DEF Owns
<1>7. ASSUME NEW f \in Faxes, Announce(f) PROVE Owns'
  <2>1. NextRec \in Recs /\ pc[NextRec] = "none"
    BY <1>7, FreeRecord DEF Announce, Typed, Owned
  <2>2. open[NextRec].ino = NoFile
    BY <2>1 DEF Typed, AtStart, Closed
  <2>3. UNCHANGED <<ted, open>> /\ file' = [file EXCEPT ![NextRec] = f]
    BY <1>7 DEF Announce, files
  <2> HIDE DEF NextRec
  <2>4. \A s \in Recs : file'[s] = file[s] \/ open[s].ino = NoFile
    BY <2>1, <2>2, <2>3 DEF Typed, RecordTypes
  <2> QED BY <2>3, <2>4 DEF Owns
<1> QED
  BY <1>1, <1>2, <1>3, <1>4, <1>5, <1>6, <1>7, InodeSteps DEF vars, files, records, thread

LEMMA AlwaysOwns == Spec => []Owns
<1>1. Init => Owns
  BY DEF Init, Owns
<1>2. Typed /\ Owns /\ [Next]_vars => Owns'
  BY OwnsStep
<1> QED BY <1>1, <1>2, AlwaysTyped, PTL DEF Spec

-----------------------------------------------------------------------------
(* The document of a fax on its way, if nothing has damaged it.            *)

\* The first n blocks.
Upto(n) == [b \in 1 .. n |-> b]

\* What the record's thread has got so far.
Got(r) ==
    LET f == file[r]
    IN /\ pc[r] \in {"create", "loop"} /\ hRecvFile[r] = "null"
          /\ server[r] \in {"turn", "data"} => next[r] = 1
       /\ pc[r] = "loop" /\ hRecvFile[r] = "open" =>
             /\ open[r].ino = ted[f] /\ ted[f] \in Inodes /\ server[r] # "refused"
             /\ server[r] \in {"turn", "data", "stop"} =>
                   open[r].pos = next[r] - 1 /\ inode[ted[f]] = Upto(next[r] - 1)
             /\ server[r] = "stop" => next[r] = Blocks + 1
       /\ pc[r] \in {"copy", "copying"} => ted[f] \in Inodes /\ inode[ted[f]] = Document
       /\ pc[r] = "copying" => copy[r].ino = ted[f] /\ tif[f] = Upto(copy[r].pos)
       /\ pc[r] = "append" \/ r \in Range(list) => tif[f] = Document

Copied(f) == \/ tif[f] \in {NoTif, Document}
             \/ \E r \in Recs : file[r] = f /\ pc[r] = "copying"

Undamaged(f) == Copied(f) /\ \A r \in Recs : file[r] = f => Got(r)

Whole == \A f \in Faxes : cause[f] = {} => Undamaged(f)

\* One more block at the end of those before it.
LEMMA NextBlock ==
    ASSUME NEW n \in Nat PROVE Written(Upto(n), n, n + 1) = Upto(n + 1)
<1>1. Upto(n) \in Seq(Nat) /\ Len(Upto(n)) = n
  BY DEF Upto
<1>2. Written(Upto(n), n, n + 1) =
        [i \in 1 .. n + 1 |->
            IF i = n + 1 THEN n + 1 ELSE IF i <= Len(Upto(n)) THEN Upto(n)[i] ELSE 0]
  BY <1>1, WrittenShort
<1> QED BY <1>1, <1>2 DEF Upto

\* A thread's step does nothing to the files of another fax.
LEMMA OtherFax ==
    ASSUME Typed, TifTyped, Owns, NEW r \in Recs, ReceiveFax(r), NEW f \in Faxes, f # file[r]
    PROVE  /\ ted'[f] = ted[f] /\ tif'[f] = tif[f]
           /\ ted[f] \in Inodes => inode'[ted[f]] = inode[ted[f]]
<1>1. tif'[f] = tif[f]
  BY TifOfStep DEF Step
<1>2. CASE CreateFirst(r) \/ OpenFile(r)
  <2>1. file[r] \in Faxes /\ CreateTed(file[r], TedInode(file[r]))
    BY <1>2 DEF CreateFirst, OpenFile, At, Receives, Typed, RecordTypes, Owned, Busy
  <2>2. ted[f] # TedInode(file[r])
    BY <2>1, TedIsOwn
  <2> QED BY <1>1, <2>1, <2>2 DEF CreateTed, Typed, FileTypes
<1>3. CASE WriteBlock(r) \/ WriteBlockFails(r)
  <2>1. ted[f] \in Inodes => ted[f] # open[r].ino
    BY NumberTypes DEF Owns, NoFile
  <2>2. ted' = ted /\ (UNCHANGED inode \/ \E b : WriteTo(r, b))
    BY <1>3 DEF WriteBlock, WriteBlockFails
  <2> QED BY <1>1, <2>1, <2>2 DEF WriteTo, Typed, FileTypes
<1>4. CASE CopyDone(r) \/ CopyFails(r) \/ AnswerStop(r) \/ GetPacketFails(r)
  <2>1. Sweep /\ ted'[f] = ted[f] /\ ted' \in [Faxes -> Inodes \cup {NoFile}]
    BY <1>4 DEF CopyDone, CopyFails, AnswerStop, GetPacketFails, End, Typed, FileTypes
  <2>2. ted[f] \in Used(ted', open', copy')
    BY <2>1 DEF Used, Range
  <2> QED BY <1>1, <2>1, <2>2 DEF Sweep
<1>5. CASE \/ Connect(r) \/ ConnectFails(r) \/ CreateFirstFails(r) \/ OpenFileFails(r)
           \/ NoFileOpen(r) \/ ReceiveStop(r) \/ CopyOpen(r) \/ CopyBlock(r)
           \/ Queue(r) \/ Report(r)
  BY <1>1, <1>5 DEF Connect, ConnectFails, CreateFirstFails, OpenFileFails, NoFileOpen,
        ReceiveStop, CopyOpen, CopyBlock, Queue, Report, files
<1> QED BY <1>2, <1>3, <1>4, <1>5 DEF ReceiveFax

\* What is known of the thread r and its fax before it takes a step.
Sound(r) ==
    /\ Typed /\ TifTyped /\ Owns /\ file[r] \in Faxes
    /\ Copied(file[r]) /\ Got(r)

\* ... and what is to be shown after it.
Stays(r) == file' = file /\ Copied(file[r])' /\ Got(r)'

\* A copy under way stays what it is, or the .tif is there or not.
LEMMA CopiedStays ==
    ASSUME Typed, NEW r \in Recs, Step(r), pc[r] # "copying",
           Copied(file[r]), UNCHANGED <<file, tif>>
    PROVE  Copied(file[r])'
<1>1. CASE tif[file[r]] \in {NoTif, Document}
  BY <1>1 DEF Copied
<1>2. ASSUME NEW s \in Recs, file[s] = file[r], pc[s] = "copying" PROVE Copied(file[r])'
  <2>1. pc'[s] = pc[s]
    BY <1>2, Alone DEF Fields, Typed, Owned
  <2> QED BY <1>2, <2>1 DEF Copied
<1> QED BY <1>1, <1>2 DEF Copied

LEMMA EarlyGot ==
    ASSUME NEW r \in Recs, Sound(r),
           \/ Connect(r) \/ ConnectFails(r) \/ CreateFirst(r) \/ CreateFirstFails(r)
           \/ OpenFileFails(r) \/ NoFileOpen(r)
    PROVE  Stays(r)
<1> USE DEF Sound, At, Receives, Goto, Got, GiveUp
<1>1. UNCHANGED <<file, tif, list>> /\ pc[r] \in Busy /\ pc[r] \in Working /\ pc[r] # "copying"
  BY DEF Connect, ConnectFails, CreateFirst, CreateFirstFails, OpenFileFails, NoFileOpen, records,
         files, Busy, Working
<1>2. Copied(file[r])'
  BY <1>1, CopiedStays DEF Step, ReceiveFax
<1>3. r \notin Range(list')
  BY <1>1 DEF Typed, Owned, Range
<1>4. CASE Connect(r)
  BY <1>1, <1>2, <1>3, <1>4 DEF Connect, Stays, Typed, Owned, AtStart
<1>5. CASE ConnectFails(r) \/ CreateFirstFails(r)
  BY <1>1, <1>2, <1>3, <1>5 DEF ConnectFails, CreateFirstFails, Stays, Typed, Owned
<1>6. CASE CreateFirst(r)
  <2>1. hRecvFile[r] = "null" /\ pc'[r] = "loop" /\ UNCHANGED <<hRecvFile, server, next>>
    BY <1>6 DEF CreateFirst, Typed, AtStart, Owned, net
  <2>2. server[r] \in {"turn", "data"} => next[r] = 1
    BY <1>6, <2>1 DEF CreateFirst
  <2> QED BY <1>1, <1>2, <1>3, <2>1, <2>2 DEF Stays
<1>7. CASE OpenFileFails(r) \/ NoFileOpen(r)
  <2>1. hRecvFile'[r] = "bad" /\ pc'[r] = "loop"
    BY <1>7 DEF OpenFileFails, NoFileOpen, Refuse, AfterRefusal, Typed, ThreadTypes, Owned
  <2> QED BY <1>1, <1>2, <1>3, <2>1 DEF Stays
<1> QED BY <1>4, <1>5, <1>6, <1>7

LEMMA OpenGot == ASSUME NEW r \in Recs, Sound(r), OpenFile(r) PROVE Stays(r)
<1> DEFINE f == file[r]
           i == TedInode(f)
<1>1. /\ UNCHANGED <<file, tif, list, pc, next, server>>
      /\ pc[r] = "loop" /\ server[r] = "data" /\ hRecvFile[r] = "null"
  BY DEF OpenFile, Receives, At, records, net
<1>2. Copied(file[r])'
  BY <1>1, CopiedStays DEF Step, ReceiveFax, Sound
<1>3. r \notin Range(list')
  BY <1>1 DEF Sound, Typed, Owned, Range, Busy
<1>4. next[r] = 1
  BY <1>1 DEF Sound, Got
<1>5. /\ i \in Inodes /\ ted'[f] = i /\ inode'[i] = <<>> /\ hRecvFile'[r] = "open"
      /\ open'[r] = [ino |-> i, pos |-> 0]
  <2>1. i \in Inodes
    BY TedIsInode DEF Sound
  <2> QED BY <2>1 DEF OpenFile, CreateTed, Sound, Typed, FileTypes, ThreadTypes
<1>6. Upto(0) = <<>>
  BY DEF Upto
<1> HIDE DEF i
<1>7. open'[r].ino = i /\ open'[r].pos = 0 /\ next[r] - 1 = 0
  BY <1>4, <1>5
<1> QED BY <1>1, <1>2, <1>3, <1>5, <1>6, <1>7 DEF Stays, Got

LEMMA WriteGot ==
    ASSUME NEW r \in Recs, Sound(r), WriteBlock(r) \/ WriteBlockFails(r) PROVE Stays(r)
<1> DEFINE f == file[r]
           i == ted[f]
<1>1. /\ UNCHANGED <<file, tif, list, pc, ted>>
      /\ pc[r] = "loop" /\ server[r] = "data" /\ hRecvFile[r] = "open"
  BY DEF WriteBlock, WriteBlockFails, Receives, At, records
<1>2. Copied(file[r])'
  BY <1>1, CopiedStays DEF Step, ReceiveFax, Sound
<1>3. r \notin Range(list')
  BY <1>1 DEF Sound, Typed, Owned, Range, Busy
<1>4. /\ open[r].ino = i /\ i \in Inodes
      /\ open[r].pos = next[r] - 1 /\ inode[i] = Upto(next[r] - 1)
  BY <1>1 DEF Sound, Got
<1>5. open[r] \in OpenFiles /\ next[r] \in Nat /\ next[r] >= 1
  BY NumberTypes DEF Sound, Typed, ThreadTypes
<1>6. CASE WriteBlock(r)
  <2> DEFINE n == next[r]
  <2>1. /\ inode' = [inode EXCEPT ![i] = Written(Upto(n - 1), n - 1, n)]
        /\ open' = [open EXCEPT ![r] = [open[r] EXCEPT !.pos = @ + 1]]
    BY <1>4, <1>6 DEF WriteBlock, WriteTo
  <2>2. Written(Upto(n - 1), n - 1, n) = Upto(n)
    <3>1. n - 1 \in Nat /\ (n - 1) + 1 = n
      BY <1>5
    <3> HIDE DEF n
    <3>2. Written(Upto(n - 1), n - 1, (n - 1) + 1) = Upto((n - 1) + 1)
      BY <3>1, NextBlock
    <3> QED BY <3>1, <3>2
  <2>3. inode'[i] = Upto(n)
    BY <1>4, <2>1, <2>2 DEF Sound, Typed, FileTypes
  <2>4. open'[r].ino = i /\ open'[r].pos = n
    <3>1. open'[r] = [open[r] EXCEPT !.pos = @ + 1]
      BY <2>1 DEF Sound, Typed, ThreadTypes
    <3> QED BY <1>4, <1>5, <3>1 DEF OpenFiles
  <2>5. next'[r] = n + 1 /\ server'[r] = "turn" /\ hRecvFile' = hRecvFile
    BY <1>6 DEF WriteBlock, Sound, Typed, ThreadTypes
  <2>6. next'[r] - 1 = n
    BY <1>5, <2>5
  <2> HIDE DEF i
  <2> QED BY <1>1, <1>2, <1>3, <1>4, <2>3, <2>4, <2>5, <2>6 DEF Stays, Got, i
<1>7. CASE WriteBlockFails(r)
  <2>1. open'[r].ino = i
    <3>1. CASE open' = open
      BY <1>4, <3>1
    <3>2. CASE WriteTo(r, 0)
      <4>1. open'[r] = [open[r] EXCEPT !.pos = @ + 1]
        BY <3>2 DEF WriteTo, Sound, Typed, ThreadTypes
      <4> QED BY <1>4, <1>5, <4>1 DEF OpenFiles
    <3> QED BY <1>7, <3>1, <3>2 DEF WriteBlockFails
  <2>2. \/ hRecvFile'[r] = "null" /\ server'[r] = "refused"
        \/ hRecvFile'[r] = "open" /\ server'[r] = "silent"
    BY <1>1, <1>7 DEF WriteBlockFails, Refuse, AfterRefusal, Sound, Typed, ThreadTypes
  <2> HIDE DEF i
  <2> QED BY <1>1, <1>2, <1>3, <1>4, <2>1, <2>2 DEF Stays, Got, i
<1> QED BY <1>6, <1>7

LEMMA StopGot == ASSUME NEW r \in Recs, Sound(r), ReceiveStop(r) PROVE Stays(r)
<1>1. /\ UNCHANGED <<file, tif, list, ted, inode>>
      /\ pc[r] = "loop" /\ server[r] = "stop"
  BY DEF ReceiveStop, Receives, At, records, files
<1>2. Copied(file[r])'
  BY <1>1, CopiedStays DEF Step, ReceiveFax, Sound
<1>3. r \notin Range(list')
  BY <1>1 DEF Sound, Typed, Owned, Range, Busy
<1>4. CASE hRecvFile[r] = "open"
  <2>1. ted[file[r]] \in Inodes /\ inode[ted[file[r]]] = Upto(next[r] - 1) /\ next[r] = Blocks + 1
    BY <1>1, <1>4 DEF Sound, Got
  <2>2. Upto(next[r] - 1) = Document
    BY <2>1, NumberTypes DEF Upto, Document
  <2>3. pc'[r] = "copy"
    BY <1>4 DEF ReceiveStop, Goto, Sound, Typed, Owned
  <2> QED BY <1>1, <1>2, <1>3, <2>1, <2>2, <2>3 DEF Stays, Got
<1>5. CASE hRecvFile[r] # "open"
  <2>1. pc'[r] = "stop"
    BY <1>5 DEF ReceiveStop, Goto, Sound, Typed, Owned
  <2> QED BY <1>1, <1>2, <1>3, <2>1 DEF Stays, Got
<1> QED BY <1>4, <1>5

\* A part of the document is not the absence of a file.
LEMMA UptoIsThere == ASSUME NEW n \in 0 .. Blocks PROVE Upto(n) # NoTif
<1>1. Len(NoTif) = 1 /\ NoTif[1] = Blocks + 1
  BY DEF NoTif
<1>2. n \in Nat /\ Blocks \in Nat /\ Blocks + 1 # 1
  BY NumberTypes
<1>3. Len(Upto(n)) = n
  BY <1>2 DEF Upto
<1>4. n = 1 => Upto(n)[1] = 1
  BY <1>2 DEF Upto
<1> QED BY <1>1, <1>2, <1>3, <1>4

LEMMA CopyGot ==
    ASSUME NEW r \in Recs, Sound(r), CopyOpen(r) \/ CopyBlock(r) \/ CopyDone(r)
    PROVE  Stays(r)
<1> DEFINE f == file[r]
           i == ted[f]
<1>1. UNCHANGED <<file, list>> /\ pc[r] \in {"copy", "copying"}
  BY DEF CopyOpen, CopyBlock, CopyDone, At, records
<1>2. r \notin Range(list')
  BY <1>1 DEF Sound, Typed, Owned, Range, Busy
<1>3. i \in Inodes /\ inode[i] = Document
  BY <1>1 DEF Sound, Got
<1>4. CASE CopyOpen(r)
  <2>1. /\ copy'[r] = [ino |-> i, pos |-> 0] /\ tif'[f] = <<>> /\ pc'[r] = "copying"
        /\ UNCHANGED <<ted, inode>>
    BY <1>4 DEF CopyOpen, Goto, Sound, Typed, Owned, ThreadTypes, TifTyped
  <2>2. Upto(0) = <<>>
    BY DEF Upto
  <2>3. Copied(f)'
    BY <1>1, <2>1 DEF Copied
  <2>4. copy'[r].ino = i /\ tif'[f] = Upto(copy'[r].pos)
    BY <2>1, <2>2
  <2> HIDE DEF i
  <2> QED BY <1>1, <1>2, <1>3, <2>1, <2>3, <2>4 DEF Stays, Got, i
<1>5. CASE CopyBlock(r)
  <2> DEFINE n == copy[r].pos
  <2>1. copy[r] \in OpenFiles /\ n \in Nat /\ copy[r].ino = i /\ tif[f] = Upto(n)
    BY <1>5 DEF CopyBlock, At, Sound, Got, Typed, ThreadTypes, OpenFiles
  <2>2. n < Len(Document) /\ Len(Document) = Blocks /\ Document[n + 1] = n + 1
    <3>1. Len(Document) = Blocks
      BY NumberTypes DEF Document
    <3>2. n < Len(Document)
      BY <1>3, <1>5, <2>1 DEF CopyBlock
    <3> HIDE DEF n
    <3> QED BY <2>1, <3>1, <3>2, NumberTypes DEF Document
  <2>3. Written(Upto(n), n, n + 1) = Upto(n + 1)
    <3> HIDE DEF n
    <3> QED BY <2>1, NextBlock
  <2>4. tif'[f] = Upto(n + 1)
    <3>1. tif' = [tif EXCEPT ![f] = IF @ = NoTif THEN NoTif
                                    ELSE Written(@, n, inode[copy[r].ino][n + 1])]
      BY <1>5 DEF CopyBlock
    <3>2. Upto(n) # NoTif
      BY <2>1, <2>2, UptoIsThere, NumberTypes
    <3>3. tif' = [tif EXCEPT ![f] = Written(Upto(n), n, n + 1)]
      BY <1>3, <2>1, <2>2, <3>1, <3>2
    <3> QED BY <2>3, <3>3 DEF Sound, TifTyped
  <2>5. copy'[r].ino = i /\ copy'[r].pos = n + 1
    <3>1. copy'[r] = [copy[r] EXCEPT !.pos = @ + 1]
      BY <1>5 DEF CopyBlock, Sound, Typed, ThreadTypes
    <3> QED BY <2>1, <3>1 DEF OpenFiles
  <2>6. pc'[r] = "copying" /\ UNCHANGED <<ted, inode>>
    BY <1>5 DEF CopyBlock, At
  <2>7. Copied(f)'
    BY <1>1, <2>6 DEF Copied
  <2> HIDE DEF i
  <2> QED BY <1>1, <1>2, <1>3, <2>4, <2>5, <2>6, <2>7 DEF Stays, Got, i
<1>6. CASE CopyDone(r)
  <2> DEFINE n == copy[r].pos
  <2>1. copy[r] \in OpenFiles /\ n \in 0 .. Blocks /\ copy[r].ino = i /\ tif[f] = Upto(n)
    BY <1>6 DEF CopyDone, At, Sound, Got, Typed, ThreadTypes, OpenFiles
  <2>2. n >= Len(Document) /\ Len(Document) = Blocks
    BY <1>3, <1>6, <2>1, NumberTypes DEF CopyDone, DeleteTed, Document
  <2>3. n = Blocks
    BY <2>1, <2>2, NumberTypes
  <2>4. tif'[f] = Document /\ pc'[r] = "append"
    BY <1>6, <2>1, <2>3 DEF CopyDone, Goto, Document, Upto, Sound, Typed, Owned
  <2>5. Copied(f)'
    BY <1>1, <2>4 DEF Copied
  <2> QED BY <1>1, <2>4, <2>5 DEF Stays, Got
<1> QED BY <1>4, <1>5, <1>6

LEMMA EndGot ==
    ASSUME NEW r \in Recs, Sound(r), Queue(r) \/ Report(r) \/ AnswerStop(r) \/ GetPacketFails(r)
    PROVE  Stays(r)
<1>1. UNCHANGED <<file, tif>> /\ pc[r] \in {"append", "report", "stop", "loop"}
      /\ pc'[r] \in {"report", "stop", "over"}
  BY DEF Queue, Report, AnswerStop, GetPacketFails, End, At, Goto, records, files, Sound, Typed, Owned
<1>2. Copied(file[r])'
  BY <1>1, CopiedStays DEF Step, ReceiveFax, Sound
<1>3. tif[file[r]] = Document \/ (pc[r] # "append" /\ r \notin Range(list))
  BY DEF Sound, Got
<1>4. r \in Range(list') => tif[file[r]] = Document
  <2>1. CASE Queue(r)
    BY <1>3, <2>1 DEF Queue, At
  <2>2. CASE ~Queue(r)
    BY <1>3, <2>2 DEF Report, AnswerStop, GetPacketFails, End, records
  <2> QED BY <2>1, <2>2
<1> QED BY <1>1, <1>2, <1>4 DEF Stays, Got

LEMMA OwnFax ==
    ASSUME NEW r \in Recs, Sound(r), ReceiveFax(r), cause'[file[r]] = {}
    PROVE  Stays(r)
<1>1. ~CopyFails(r)
  BY DEF CopyFails, Blame, Sound, Typed, FileTypes
<1> QED BY <1>1, EarlyGot, OpenGot, WriteGot, StopGot, CopyGot, EndGot DEF ReceiveFax

\* Nothing that Got says of a record has changed.
LEMMA SameGot ==
    ASSUME NEW s \in Recs, Got(s), Fields(s)' = Fields(s), file'[s] = file[s],
           s \in Range(list') => s \in Range(list),
           ted'[file[s]] = ted[file[s]], tif'[file[s]] = tif[file[s]],
           ted[file[s]] \in Inodes => inode'[ted[file[s]]] = inode[ted[file[s]]]
    PROVE  Got(s)'
BY DEF Got, Fields

\* Got says nothing of a record that is not listed and whose thread is over.
LEMMA IdleGot == ASSUME NEW s \in Recs, ~Active(s)' PROVE Got(s)'
BY DEF Got, Active, Working

LEMMA ReceiveWhole ==
    ASSUME Typed, Typed', TifTyped, Owns, Once, Whole, NEW r \in Recs, ReceiveFax(r), Next
    PROVE  Whole'
<1> SUFFICES ASSUME NEW f \in Faxes, cause'[f] = {} PROVE Undamaged(f)'
  BY DEF Whole
<1>1. cause[f] = {} /\ Undamaged(f) /\ Single(f)
  BY CauseGrows DEF Whole, Once
<1>2. /\ file' = file
      /\ Range(list') \subseteq Range(list) \cup {s \in {r} : pc[r] \in Working}
  BY StepOfActive DEF Step
<1>3. pc[r] \in Working
  BY DEF ReceiveFax, Connect, ConnectFails, CreateFirst, CreateFirstFails, OpenFile, OpenFileFails,
         WriteBlock, WriteBlockFails, NoFileOpen, ReceiveStop, CopyOpen, CopyBlock, CopyDone,
         CopyFails, Queue, Report, AnswerStop, GetPacketFails, At, Receives, Working
<1>4. \A s \in Recs \ {r} : Fields(s)' = Fields(s)
  BY Alone DEF Step, Typed, Owned
<1>5. CASE f # file[r]
  <2>1. /\ ted'[f] = ted[f] /\ tif'[f] = tif[f]
        /\ ted[f] \in Inodes => inode'[ted[f]] = inode[ted[f]]
    BY <1>5, OtherFax
  <2>2. ASSUME NEW s \in Recs, file[s] = f PROVE Got(s)'
    <3>1. s # r /\ Got(s)
      BY <1>1, <1>5, <2>2 DEF Undamaged
    <3> QED BY <1>2, <1>4, <2>1, <2>2, <3>1, SameGot
  <2>3. Copied(f)'
    <3>1. CASE tif[f] \in {NoTif, Document}
      BY <2>1, <3>1 DEF Copied
    <3>2. ASSUME NEW s \in Recs, file[s] = f, pc[s] = "copying" PROVE Copied(f)'
      BY <1>2, <1>4, <1>5, <3>2 DEF Copied, Fields
    <3> QED BY <1>1, <3>1, <3>2 DEF Undamaged, Copied
  <2> QED BY <1>2, <2>2, <2>3 DEF Undamaged
<1>6. CASE f = file[r]
  <2>1. Stays(r)
    BY <1>1, <1>6, OwnFax DEF Undamaged, Sound
  <2>2. ASSUME NEW s \in Recs \ {r}, file[s] = f PROVE Got(s)'
    <3>1. Active(r) /\ ~Active(s)
      BY <1>1, <1>3, <1>6, <2>2 DEF Active, Single
    <3>2. ~Active(s)'
      BY <1>2, <1>4, <3>1 DEF Active, Fields
    <3> QED BY <3>2, IdleGot
  <2> QED BY <1>2, <1>6, <2>1, <2>2 DEF Undamaged, Stays
<1> QED BY <1>5, <1>6

LEMMA ServerWhole ==
    ASSUME Typed, Typed', Whole, NEW r \in Recs, FileServer(r), Next
    PROVE  Whole'
<1> SUFFICES ASSUME NEW f \in Faxes, cause'[f] = {} PROVE Undamaged(f)'
  BY DEF Whole
<1>1. cause[f] = {} /\ Undamaged(f)
  BY CauseGrows DEF Whole
<1>2. UNCHANGED <<records, thread, rx, files, dialect, next>>
  BY DEF FileServer, ServerSends, ServerStops, ServerRetries, ServerCloses, ServerSays
<1>3. Copied(f)'
  BY <1>1, <1>2 DEF Undamaged, Copied, records, thread, files
<1>4. ASSUME NEW s \in Recs \ {r}, file[s] = f PROVE Got(s)'
  <2>1. Fields(s)' = Fields(s)
    BY Alone DEF Step, Typed, Owned
  <2> QED BY <1>1, <1>2, <1>4, <2>1, SameGot DEF records, files, Undamaged
<1>5. ASSUME file[r] = f PROVE Got(r)'
  <2>1. Got(r)
    BY <1>1, <1>5 DEF Undamaged
  <2>2. ~ServerRetries(r)
    BY <1>5 DEF ServerRetries, Blame, Typed, FileTypes
  <2>3. \/ server[r] = "turn" /\ server'[r] = "data"
        \/ server[r] = "refused" /\ server'[r] = "stop"
        \/ server[r] = "turn" /\ next[r] > Blocks /\ server'[r] = "stop"
        \/ server'[r] = "closed"
    BY <2>2 DEF FileServer, ServerSends, ServerStops, ServerCloses, ServerSays, Typed, ThreadTypes
  <2>4. next[r] > Blocks => next[r] = Blocks + 1
    BY NumberTypes DEF Typed, ThreadTypes
  <2> QED BY <1>2, <2>1, <2>3, <2>4 DEF Got, records, thread, files
<1> QED BY <1>2, <1>3, <1>4, <1>5 DEF Undamaged, records

\* Records are taken and cancelled; the .tif of the cancelled one is deleted.
LEMMA ListWhole ==
    ASSUME Typed, Typed', TifTyped, Once, Whole, Take \/ CancelTif, Next PROVE Whole'
<1> SUFFICES ASSUME NEW f \in Faxes, cause'[f] = {} PROVE Undamaged(f)'
  BY DEF Whole
<1>1. cause[f] = {} /\ Undamaged(f) /\ Single(f)
  BY CauseGrows DEF Whole, Once
<1>2. /\ UNCHANGED <<thread, net, file, ted, inode>>
      /\ Range(list') \subseteq Range(list) /\ (CancelTif => rx \notin Range(list'))
  BY ListShrinks DEF Take, CancelTif, files, Typed
<1>3. CASE tif'[f] = tif[f]
  <2>1. Copied(f)'
    BY <1>1, <1>2, <1>3 DEF Copied, Undamaged, thread
  <2>2. \A s \in Recs : file[s] = f => Got(s)'
    BY <1>1, <1>2, <1>3, SameGot DEF Fields, thread, net, Undamaged
  <2> QED BY <1>2, <2>1, <2>2 DEF Undamaged
<1>4. CASE tif'[f] # tif[f]
  <2>1. CancelTif /\ tif' = [tif EXCEPT ![file[rx]] = NoTif] /\ rx # 0
    BY <1>4 DEF Take, CancelTif, files
  <2>2. f = file[rx] /\ tif'[f] = NoTif
    BY <1>4, <2>1 DEF TifTyped
  <2>3. rx \in Recs /\ rx \in Range(list) /\ pc[rx] \notin Busy
    BY <2>1 DEF Typed, Owned, Range
  <2>4. \A s \in Recs \ {rx} : file[s] = f => ~Active(s)
    BY <1>1, <2>2, <2>3 DEF Single, Active
  <2>5. ASSUME NEW s \in Recs, file[s] = f PROVE Got(s)'
    <3>1. CASE s = rx
      BY <1>2, <2>1, <2>3, <3>1 DEF Got, Busy, thread
    <3>2. CASE s # rx
      <4>1. ~Active(s)'
        BY <1>2, <2>4, <2>5, <3>2 DEF Active, thread
      <4> QED BY <4>1, IdleGot
    <3> QED BY <3>1, <3>2
  <2>6. Copied(f)'
    BY <2>2 DEF Copied
  <2> QED BY <1>2, <2>5, <2>6 DEF Undamaged
<1> QED BY <1>3, <1>4

LEMMA AnnounceWhole ==
    ASSUME Typed, Typed', Whole, NEW g \in Faxes, Announce(g), Next PROVE Whole'
<1> SUFFICES ASSUME NEW f \in Faxes, cause'[f] = {} PROVE Undamaged(f)'
  BY DEF Whole
<1>1. cause[f] = {} /\ Undamaged(f)
  BY CauseGrows DEF Whole
<1> DEFINE n == NextRec
<1>2. n \in Recs /\ life[n] = "none" /\ pc[n] = "none"
  BY FreeRecord DEF Announce, Typed, Owned
<1>3. /\ file' = [file EXCEPT ![n] = g] /\ pc' = [pc EXCEPT ![n] = "ini"]
      /\ UNCHANGED <<list, key, hRecvFile, open, copy, net, files>>
  BY DEF Announce, Goto
<1>4. n \notin Range(list)
  BY <1>2 DEF Typed, Owned, Range
<1> HIDE DEF n
<1>5. /\ pc'[n] = "ini"
      /\ \A s \in Recs \ {n} : Fields(s)' = Fields(s) /\ file'[s] = file[s]
  BY <1>2, <1>3 DEF Fields, net, Typed, RecordTypes, Owned
<1>6. Copied(f)'
  <2>1. CASE tif[f] \in {NoTif, Document}
    BY <1>3, <2>1 DEF Copied, files
  <2>2. ASSUME NEW s \in Recs, file[s] = f, pc[s] = "copying" PROVE Copied(f)'
    BY <1>2, <1>5, <2>2 DEF Copied, Fields
  <2> QED BY <1>1, <2>1, <2>2 DEF Undamaged, Copied
<1>7. ASSUME NEW s \in Recs, file'[s] = f PROVE Got(s)'
  <2>1. CASE s = n
    BY <1>3, <1>4, <1>5, <2>1 DEF Got
  <2>2. CASE s # n
    <3>1. file[s] = f /\ Got(s) /\ Fields(s)' = Fields(s)
      BY <1>1, <1>5, <1>7, <2>2 DEF Undamaged
    <3> QED BY <1>3, <1>7, <3>1, SameGot DEF files
  <2> QED BY <2>1, <2>2
<1> QED BY <1>6, <1>7 DEF Undamaged

LEMMA CrashWhole == ASSUME Typed, Typed', Whole, Crash, Next PROVE Whole'
<1> SUFFICES ASSUME NEW f \in Faxes, cause'[f] = {} PROVE Undamaged(f)'
  BY DEF Whole
<1>1. cause[f] = {} /\ Undamaged(f)
  BY CauseGrows DEF Whole
<1>2. \A r \in Recs : file[r] = f => pc[r] # "copying"
  BY DEF Crash, Damage
<1>3. tif'[f] = tif[f] /\ tif[f] \in {NoTif, Document}
  BY <1>1, <1>2 DEF Undamaged, Copied, Crash
<1>4. \A s \in Recs : pc'[s] = "none"
  BY DEF Crash
<1>5. PICK n, found, unread : Restart(n, found, unread)
  BY CrashFinds
<1>6. /\ n \in Nat /\ found \in [1 .. n -> Stored] /\ Range(list') = 1 .. n
      /\ file' = [r \in Recs |-> IF r <= n THEN found[r] ELSE Missing]
  BY <1>5 DEF Restart
<1>7. \A s \in Recs : s \in Range(list') /\ file'[s] = f => tif[f] # NoTif
  BY <1>6 DEF Stored
<1>8. \A s \in Recs : file'[s] = f => Got(s)'
  BY <1>3, <1>4, <1>7 DEF Got
<1> QED BY <1>3, <1>8 DEF Undamaged, Copied

LEMMA WholeStep ==
    ASSUME Typed, Typed', TifTyped, Owns, Once, Whole, [Next]_vars PROVE Whole'
<1>1. CASE UNCHANGED vars
  BY <1>1 DEF vars, records, thread, net, files, counts, Whole, Undamaged, Copied, Got
<1>2. ASSUME Next, NEW r \in Recs, WriteSetting(r) PROVE Whole'
  <2> SUFFICES ASSUME NEW f \in Faxes, cause'[f] = {} PROVE Undamaged(f)'
    BY DEF Whole
  <2>1. cause[f] = {} /\ Undamaged(f)
    BY <1>2, CauseGrows DEF Whole
  <2>2. /\ UNCHANGED <<list, file, hRecvFile, open, copy, net, ted, tif, inode>>
        /\ pc[r] \in {"ini", "trunc"} /\ pc'[r] \in {"ini", "trunc", "connect"}
    BY <1>2, SettingFrame DEF Goto, Typed, Owned, net
  <2>3. \A s \in Recs \ {r} : Fields(s)' = Fields(s)
    BY <1>2, Alone DEF Step, Typed, Owned
  <2>4. Copied(f)'
    BY <2>1, <2>2, <2>3 DEF Copied, Undamaged, Fields
  <2>5. ASSUME NEW s \in Recs, file[s] = f PROVE Got(s)'
    <3>1. CASE s = r
      BY <2>1, <2>2, <2>5, <3>1 DEF Got, Undamaged
    <3>2. CASE s # r
      BY <2>1, <2>2, <2>3, <2>5, <3>2, SameGot DEF Undamaged
    <3> QED BY <3>1, <3>2
  <2> QED BY <2>2, <2>4, <2>5 DEF Undamaged
<1>3. ASSUME Next, NEW r \in Recs, ReceiveFax(r) PROVE Whole'
  BY <1>3, ReceiveWhole
<1>4. ASSUME Next, NEW r \in Recs, FileServer(r) PROVE Whole'
  BY <1>4, ServerWhole
<1>5. ASSUME Next, Take \/ CancelTif PROVE Whole'
  BY <1>5, ListWhole
<1>6. ASSUME NEW f \in Faxes, CancelIni(f) PROVE Whole'
  <2>1. UNCHANGED <<records, thread, net, ted, tif, inode, cause>>
    BY <1>6 DEF CancelIni, counts
  <2> QED BY <2>1 DEF records, thread, net, Whole, Undamaged, Copied, Got
<1>7. ASSUME Next, NEW f \in Faxes, Announce(f) PROVE Whole'
  BY <1>7, AnnounceWhole
<1>8. ASSUME Next, Crash PROVE Whole'
  BY <1>8, CrashWhole
<1> QED BY <1>1, <1>2, <1>3, <1>4, <1>5, <1>6, <1>7, <1>8, NextSteps DEF Step

(* A fax in the list is whole, whatever crashed, was cancelled or failed   *)
(* to be written, unless one of the four causes has hit it: a refused      *)
(* block is noticed, and a copy that nothing disturbs is complete.         *)
(* (TcpSession.cpp:1091-1171, linux_compat.cpp:439-468)                    *)
THEOREM DocumentsWhole == Spec => []WholeDocument
<1>1. Init => Whole
  <2> SUFFICES ASSUME Init PROVE Whole
    OBVIOUS
  <2>1. \A r \in Recs : file[r] \notin Faxes
    BY NumberTypes DEF Init
  <2>2. \A f \in Faxes : Copied(f)
    BY DEF Init, Copied
  <2> QED BY <2>1, <2>2 DEF Whole, Undamaged
<1>2. Typed /\ Typed' /\ TifTyped /\ Owns /\ Once /\ Whole /\ [Next]_vars => Whole'
  BY WholeStep
<1>3. Typed /\ Whole => WholeDocument
  <2> SUFFICES ASSUME Typed, Whole, NEW i \in 1 .. Len(list), cause[file[list[i]]] = {}
               PROVE  tif[file[list[i]]] = Document
    BY DEF WholeDocument
  <2>1. list[i] \in Recs /\ list[i] \in Range(list)
    BY DEF Typed, Owned, Range
  <2>2. file[list[i]] \in Faxes
    BY <2>1 DEF Typed, Owned, RecordTypes
  <2> QED BY <2>1, <2>2 DEF Whole, Undamaged, Got
<1> QED BY <1>1, <1>2, <1>3, AlwaysTyped, AlwaysOnce, AlwaysOwns, PTL DEF Spec

-----------------------------------------------------------------------------
(* TID.ini.  The gateway never finds the section it wrote before, so each  *)
(* entry is appended with a section header of its own; and it finds an     *)
(* entry again because a header is the line before it.                     *)

App == Bracketed("SYSTEM")
EntryOf(f, k) == Entry(k, Value(f, k))
Lines(f) == {App} \cup {EntryOf(f, k) : k \in Range(Keys)}

Has(s, f, k) == \E i \in 1 .. Len(s) : s[i] = EntryOf(f, k)

\* The lines that WriteSetting makes for the fax f, however often it is called.
Profile(s, f) ==
    /\ s \in Seq(Lines(f))
    /\ \A i \in 1 .. Len(s) : s[i] # App => i > 1 /\ s[i - 1] = App

LEMMA KeyNames == \A k \in Range(Keys) : k \in STRING /\ k # "["
<1> SUFFICES ASSUME NEW k \in Range(Keys) PROVE k \in STRING /\ k # "["
  OBVIOUS
<1>1. PICK i \in DOMAIN Keys : k = Keys[i]
  BY DEF Range
<1>2. Keys \in Seq(STRING \ {"["})
  BY KeyAssumption
<1>3. Keys[i] \in STRING \ {"["}
  BY <1>1, <1>2, ElementOfSeq
<1> QED BY <1>1, <1>3

LEMMA LineFacts ==
    ASSUME NEW f, NEW k \in Range(Keys)
    PROVE  /\ IsHeader(App) /\ ~Torn(App) /\ ~Recognised(App, "SYSTEM")
           /\ ~IsHeader(EntryOf(f, k)) /\ ~Torn(EntryOf(f, k))
           /\ ~Recognised(EntryOf(f, k), "SYSTEM") /\ EntryOf(f, k) # App
           /\ EntryOf(f, k)[1] = k /\ EntryOf(f, k)[3] = Value(f, k)
           /\ HasKey(EntryOf(f, k), k)
<1>1. k # "["
  BY KeyNames
<1>2. App = <<"[", "SYSTEM", "]">>
  BY DEF App, Bracketed
<1>3. Len(App) = 3 /\ App[1] = "[" /\ App[3] = "]"
  BY <1>2
<1> DEFINE v == Value(f, k)
           e == <<k, "=", v>>
<1>4. EntryOf(f, k) = e
  BY DEF EntryOf, Entry
<1> HIDE DEF v
<1>5. Len(e) = 3 /\ e[1] = k /\ e[2] = "=" /\ e[3] = v
  OBVIOUS
<1>6. SubSeq(App, 1, 2) # App
  <2>1. App \in Seq({"[", "SYSTEM", "]"})
    BY <1>2
  <2>2. Len(SubSeq(App, 1, 2)) = 2
    BY <1>3, <2>1
  <2> QED BY <1>3, <2>2
<1> HIDE DEF e
<1>7. IsHeader(App) /\ ~Torn(App) /\ ~Recognised(App, "SYSTEM")
  <2>1. ~Recognised(App, "SYSTEM")
    BY <1>6 DEF Recognised, App
  <2>2. ~Torn(App)
    <3>1. 3 \in 1 .. Len(App) /\ App[3] \in {"=", "]"}
      BY <1>3
    <3> QED BY <3>1 DEF Torn
  <2> QED BY <1>3, <2>1, <2>2 DEF IsHeader
<1>8. ~IsHeader(e) /\ ~Torn(e) /\ ~Recognised(e, "SYSTEM") /\ e # App
  <2>1. ~Torn(e)
    <3>1. 2 \in 1 .. Len(e) /\ e[2] \in {"=", "]"}
      BY <1>5
    <3> QED BY <3>1 DEF Torn
  <2> QED BY <1>1, <1>3, <1>5, <2>1 DEF IsHeader, Recognised
<1>9. HasKey(e, k)
  BY <1>5 DEF HasKey
<1> QED BY <1>4, <1>5, <1>7, <1>8, <1>9 DEF v

\* An entry is appended, after a header of its own.
LEMMA WriteAppends ==
    ASSUME NEW f, NEW s, Profile(s, f), NEW k \in Range(Keys)
    PROVE  WritePrivateProfileString(s, "SYSTEM", k, Value(f, k))
             = s \o <<App, EntryOf(f, k)>>
<1> DEFINE t == s \o <<App, EntryOf(f, k)>>
<1>1. s \in Seq(Lines(f)) /\ Len(s) \in Nat /\ \A i \in 1 .. Len(s) : s[i] \in Lines(f)
  BY ElementOfSeq DEF Profile
<1>2. \A line \in Lines(f) : ~Recognised(line, "SYSTEM") /\ ~Torn(line)
  BY LineFacts DEF Lines
<1>3. {i \in 1 .. Len(s) : Recognised(s[i], "SYSTEM")} = {}
  BY <1>1, <1>2
<1>4. NewLines(s, "SYSTEM", k, Value(f, k)) = t
  BY <1>3 DEF NewLines, App, EntryOf
<1>5. App \in Lines(f) /\ EntryOf(f, k) \in Lines(f)
  BY DEF Lines
<1>6. <<App, EntryOf(f, k)>> \in Seq(Lines(f))
  BY <1>5
<1>7. t \in Seq(Lines(f))
  BY <1>1, <1>6, ConcatProperties
<1> HIDE DEF t
<1>8. \A i \in 1 .. Len(t) : t[i] \in Lines(f)
  BY <1>7, ElementOfSeq
<1>9. Len(t) \in Nat /\ t = [i \in 1 .. Len(t) |-> t[i]]
  BY <1>7
<1>10. \A i \in 1 .. Len(t) : i > 1 => ~Torn(t[i - 1])
  BY <1>2, <1>8, <1>9
<1>11. RunOn(t) = [i \in 1 .. Len(t) |-> t[i]]
  BY <1>10 DEF RunOn
<1> QED BY <1>4, <1>9, <1>11 DEF WritePrivateProfileString, t

\* ... and so the file has it, and what it had before.
LEMMA AppendedProfile ==
    ASSUME NEW f, NEW s, Profile(s, f), NEW k \in Range(Keys)
    PROVE  LET t == s \o <<App, EntryOf(f, k)>>
           IN /\ Profile(t, f) /\ Has(t, f, k)
              /\ \A j \in Range(Keys) : Has(s, f, j) => Has(t, f, j)
<1> DEFINE a == <<App, EntryOf(f, k)>>
           t == s \o a
<1>1. s \in Seq(Lines(f)) /\ Len(s) \in Nat
  BY DEF Profile
<1>2. /\ a \in Seq(Lines(f)) /\ Len(a) = 2 /\ a[1] = App /\ a[2] = EntryOf(f, k)
  BY DEF Lines
<1> HIDE DEF a
<1>3. /\ t \in Seq(Lines(f)) /\ Len(t) = Len(s) + 2
      /\ \A i \in 1 .. Len(s) : t[i] = s[i]
      /\ t[Len(s) + 1] = App /\ t[Len(s) + 2] = EntryOf(f, k)
  <2>1. /\ t \in Seq(Lines(f)) /\ Len(t) = Len(s) + Len(a)
        /\ \A i \in 1 .. Len(s) + Len(a) : t[i] = IF i <= Len(s) THEN s[i] ELSE a[i - Len(s)]
    BY <1>1, <1>2, ConcatProperties
  <2> HIDE DEF t
  <2>2. t[Len(s) + 1] = a[Len(s) + 1 - Len(s)] /\ t[Len(s) + 2] = a[Len(s) + 2 - Len(s)]
    BY <1>1, <1>2, <2>1
  <2>3. Len(s) + 1 - Len(s) = 1 /\ Len(s) + 2 - Len(s) = 2
    BY <1>1
  <2> QED BY <1>1, <1>2, <2>1, <2>2, <2>3
<1> HIDE DEF t
<1>4. ASSUME NEW i \in 1 .. Len(t), t[i] # App PROVE i > 1 /\ t[i - 1] = App
  <2>1. CASE i \in 1 .. Len(s)
    <3>1. i > 1 /\ s[i - 1] = App
      BY <1>3, <1>4, <2>1 DEF Profile
    <3>2. i - 1 \in 1 .. Len(s)
      BY <1>1, <2>1, <3>1
    <3> QED BY <1>3, <3>1, <3>2
  <2>2. CASE i = Len(s) + 2
    <3>1. i - 1 = Len(s) + 1 /\ i > 1
      BY <1>1, <2>2
    <3> QED BY <1>3, <3>1
  <2>3. i \in 1 .. Len(s) \/ i = Len(s) + 1 \/ i = Len(s) + 2
    BY <1>1, <1>3
  <2> QED BY <1>3, <1>4, <2>1, <2>2, <2>3
<1>5. Has(t, f, k)
  <2>1. Len(s) + 2 \in 1 .. Len(t)
    BY <1>1, <1>3
  <2> QED BY <1>3, <2>1 DEF Has
<1>6. \A j \in Range(Keys) : Has(s, f, j) => Has(t, f, j)
  <2>1. \A i \in 1 .. Len(s) : i \in 1 .. Len(t)
    BY <1>1, <1>3
  <2> QED BY <1>3, <2>1 DEF Has
<1> QED BY <1>3, <1>4, <1>5, <1>6 DEF Profile, t, a

LEMMA EmptyProfile == ASSUME NEW f PROVE Profile(NoIni, f)
BY DEF Profile, NoIni

\* An entry that is there is found, and no other is taken for it.
LEMMA ReadFinds ==
    ASSUME NEW f, NEW s, Profile(s, f), NEW k \in Range(Keys)
    PROVE  /\ Has(s, f, k) => GetPrivateProfileString(s, "SYSTEM", k) = Value(f, k)
           /\ GetPrivateProfileString(s, "SYSTEM", k) \in {Value(f, k), Missing}
<1> DEFINE H == Hits(s, "SYSTEM", k)
<1>1. s \in Seq(Lines(f)) /\ Len(s) \in Nat /\ \A i \in 1 .. Len(s) : s[i] \in Lines(f)
  BY ElementOfSeq DEF Profile
<1>2. ASSUME NEW i \in H PROVE s[i][3] = Value(f, k)
  <2>1. i \in 1 .. Len(s) /\ ~IsHeader(s[i]) /\ HasKey(s[i], k)
    BY <1>2 DEF Hits
  <2>2. PICK j \in Range(Keys) : s[i] = EntryOf(f, j)
    BY <1>1, <2>1, LineFacts DEF Lines
  <2>3. j = k
    BY <2>1, <2>2, LineFacts DEF HasKey
  <2> QED BY <2>2, <2>3, LineFacts
<1>3. ASSUME Has(s, f, k) PROVE H # {}
  <2>1. PICK i \in 1 .. Len(s) : s[i] = EntryOf(f, k)
    BY <1>3 DEF Has
  <2>2. i > 1 /\ s[i - 1] = App
    BY <2>1, LineFacts DEF Profile
  <2>3. i - 1 \in 1 .. i - 1 /\ (i - 1) + 1 .. i - 1 = {}
    BY <1>1, <2>2
  <2>4. InSection(s, "SYSTEM", i)
    BY <2>2, <2>3 DEF InSection, App
  <2>5. i \in H
    BY <2>1, <2>4, LineFacts DEF Hits
  <2> QED BY <2>5
<1>4. H \in SUBSET Nat
  BY DEF Hits
<1>5. GetPrivateProfileString(s, "SYSTEM", k) = IF H = {} THEN Missing ELSE s[Min(H)][3]
  BY DEF GetPrivateProfileString
<1> HIDE DEF H
<1>6. H # {} => Min(H) \in H
  BY <1>4, HasMin
<1> QED BY <1>2, <1>3, <1>5, <1>6

-----------------------------------------------------------------------------
(* The settings files: their lines are a profile of their fax, whatever    *)
(* happens; one thread at most writes one, and it writes the entries in    *)
(* the order of Keys.                                                      *)

Writing == {"ini", "trunc"}

Profiles ==
    /\ ini = [f \in Faxes |-> ini[f]]
    /\ \A f \in Faxes : Profile(ini[f], f)

OneWriter ==
    \A r \in Recs : pc[r] \in Writing =>
        rx = 0 /\ \A s \in Recs : pc[s] \in Writing => s = r

\* The entries up to the key-th are in the file, or about to be, unless a call
\* on the file has failed.
Entries(r) ==
    LET f == file[r]
    IN /\ pc[r] \in Writing => desc[r] = Description(f)
       /\ pc[r] = "ini" /\ f \notin lost => \A j \in 1 .. key[r] : Has(ini[f], f, Keys[j])
       /\ pc[r] = "trunc" => Profile(saved, f)
       /\ pc[r] = "trunc" /\ f \notin lost =>
             \A j \in 1 .. key[r] + 1 : Has(saved, f, Keys[j])

Names(r) == strTID(r) \in {file[r], Missing}

Settings ==
    /\ desc = [r \in Recs |-> desc[r]]
    /\ Profiles /\ OneWriter
    /\ \A r \in Recs : file[r] \in Faxes => Entries(r) /\ Names(r)

LEMMA DescriptionTID == ASSUME NEW f PROVE Description(f)["TID"] = f
BY KeyAssumption DEF Description, Value

LEMMA KeyInRange == \A i \in 1 .. Len(Keys) : Keys[i] \in Range(Keys)
BY KeyAssumption DEF Range

LEMMA InitSettings == Init => Settings
<1> SUFFICES ASSUME Init PROVE Settings
  OBVIOUS
<1>1. \A r \in Recs : file[r] \notin Faxes /\ pc[r] = "none"
  BY NumberTypes DEF Init
<1>2. Profiles
  BY EmptyProfile DEF Init, Profiles
<1>3. desc = [r \in Recs |-> desc[r]]
  BY DEF Init
<1> QED BY <1>1, <1>2, <1>3 DEF Settings, OneWriter, Writing

\* ReceiveFax begins when the description is written, and never goes back.
LEMMA ReceiveNotWriting ==
    ASSUME Typed, NEW r \in Recs, ReceiveFax(r)
    PROVE  /\ pc[r] \in Working \ Writing /\ pc'[r] \notin Writing
           /\ pc'[r] \in Busy => pc[r] \in Busy
           /\ UNCHANGED <<file, desc, ini, saved, rx, lost>>
           /\ Range(list') \subseteq Range(list) \cup {s \in {r} : pc[r] = "append"}
<1> USE DEF Writing, Busy, Working, Typed, Owned, At, Goto, records, files, counts
<1>1. CASE Queue(r)
  <2>1. /\ pc[r] = "append" /\ pc'[r] \in {"report", "stop"}
        /\ UNCHANGED <<file, desc, ini, saved, rx, lost>>
    BY <1>1 DEF Queue
  <2>2. Range(list') \subseteq Range(list) \cup {r}
    BY <1>1, StepOfActive DEF Step, ReceiveFax
  <2> QED BY <2>1, <2>2
<1>2. CASE \/ Connect(r) \/ ConnectFails(r) \/ CreateFirst(r) \/ CreateFirstFails(r)
           \/ AnswerStop(r) \/ GetPacketFails(r) \/ Report(r)
  BY <1>2 DEF Connect, ConnectFails, CreateFirst, CreateFirstFails, GiveUp, AnswerStop,
              GetPacketFails, End, Report
<1>3. CASE \/ OpenFile(r) \/ OpenFileFails(r) \/ WriteBlock(r) \/ WriteBlockFails(r)
           \/ NoFileOpen(r) \/ CopyBlock(r)
  BY <1>3 DEF OpenFile, OpenFileFails, WriteBlock, WriteBlockFails, NoFileOpen, CopyBlock, Receives
<1>4. CASE ReceiveStop(r) \/ CopyOpen(r) \/ CopyDone(r) \/ CopyFails(r)
  BY <1>4 DEF ReceiveStop, Receives, CopyOpen, CopyDone, CopyFails
<1> QED BY <1>1, <1>2, <1>3, <1>4 DEF ReceiveFax

\* A step that writes no settings and starts no description.
LEMMA SameSettings ==
    ASSUME Settings, UNCHANGED <<file, desc, ini, saved, lost>>, rx' = rx \/ rx' = 0,
           \A s \in Recs : pc'[s] \in Writing => pc'[s] = pc[s] /\ key'[s] = key[s]
    PROVE  Settings'
<1>1. Profiles'
  BY DEF Settings, Profiles
<1>2. OneWriter'
  BY DEF Settings, OneWriter
<1>3. ASSUME NEW s \in Recs, file[s] \in Faxes PROVE Entries(s)' /\ Names(s)'
  <2>1. Entries(s) /\ Names(s)
    BY <1>3 DEF Settings
  <2>2. Names(s)'
    BY <2>1 DEF Names, strTID
  <2>3. CASE pc'[s] \in Writing
    <3>1. pc'[s] = pc[s] /\ key'[s] = key[s]
      BY <2>3
    <3> QED BY <2>1, <2>2, <3>1 DEF Entries
  <2>4. CASE pc'[s] \notin Writing
    BY <2>2, <2>4 DEF Entries, Writing
  <2> QED BY <2>3, <2>4
<1> QED BY <1>1, <1>2, <1>3 DEF Settings

LEMMA EmptySettings == ASSUME Typed, Settings, NEW r \in Recs, EmptyIni(r) PROVE Settings'
<1> DEFINE f == file[r]
           k == Keys[key[r] + 1]
<1>1. /\ pc[r] = "ini" /\ f \in Faxes /\ UNCHANGED <<file, desc, key, rx, lost>>
      /\ pc'[r] = "trunc" /\ \A s \in Recs \ {r} : pc'[s] = pc[s]
  BY DEF EmptyIni, At, Goto, Typed, RecordTypes, Owned, Busy, records, counts
<1>2. Entries(r) /\ Profile(ini[f], f) /\ desc[r] = Description(f)
  BY <1>1 DEF Settings, Profiles, Entries, Writing
<1>3. key[r] \in Nat /\ key[r] + 1 \in 1 .. Len(Keys) /\ k \in Range(Keys)
  BY NumberTypes, KeyInRange DEF EmptyIni, Typed, ThreadTypes
<1>4. desc[r][k] = Value(f, k)
  BY <1>2, <1>3 DEF Description
<1> DEFINE t == ini[f] \o <<App, EntryOf(f, k)>>
<1>5. saved' = t
  <2>1. saved' = WritePrivateProfileString(ini[f], "SYSTEM", k, Value(f, k))
    BY <1>4 DEF EmptyIni, NextEntry
  <2> HIDE DEF k
  <2> QED BY <1>2, <1>3, <2>1, WriteAppends
<1>6. /\ Profile(t, f) /\ Has(t, f, k)
      /\ \A j \in Range(Keys) : Has(ini[f], f, j) => Has(t, f, j)
  BY <1>2, <1>3, AppendedProfile
<1> HIDE DEF t
<1>7. f \notin lost => \A j \in 1 .. key[r] + 1 : Has(t, f, Keys[j])
  <2> SUFFICES ASSUME f \notin lost PROVE \A j \in 1 .. key[r] + 1 : Has(t, f, Keys[j])
    OBVIOUS
  <2>1. \A j \in 1 .. key[r] : Has(ini[f], f, Keys[j]) /\ Keys[j] \in Range(Keys)
    BY <1>1, <1>2, <1>3, NumberTypes, KeyInRange DEF Entries
  <2>2. \A j \in 1 .. key[r] + 1 : j \in 1 .. key[r] \/ j = key[r] + 1
    BY <1>3
  <2> QED BY <1>6, <2>1, <2>2
<1>8. Entries(r)'
  BY <1>1, <1>2, <1>5, <1>6, <1>7 DEF Entries
<1>9. \A s \in Recs \ {r} : pc[s] \notin Writing
  BY <1>1 DEF Settings, OneWriter, Writing
<1>10. \A s \in Recs \ {r} : Entries(s)'
  BY <1>1, <1>9 DEF Entries, Writing
<1>11. \A s \in Recs : file[s] \in Faxes => Names(s)'
  BY <1>1 DEF Settings, Names, strTID
<1>12. Profiles'
  <2>1. ini' = [ini EXCEPT ![f] = NoIni]
    BY DEF EmptyIni, IniBecomes
  <2> QED BY <2>1, EmptyProfile DEF Settings, Profiles
<1>13. OneWriter'
  BY <1>1, <1>9 DEF OneWriter, Settings, Writing
<1> QED BY <1>1, <1>8, <1>10, <1>11, <1>12, <1>13 DEF Settings

LEMMA WriteSettings == ASSUME Typed, Settings, NEW r \in Recs, WriteIni(r) PROVE Settings'
<1> DEFINE f == file[r]
<1>1. /\ pc[r] = "trunc" /\ f \in Faxes /\ UNCHANGED <<file, desc, rx, lost>>
      /\ pc'[r] = "ini" /\ \A s \in Recs \ {r} : pc'[s] = pc[s]
      /\ key'[r] = key[r] + 1 /\ ini' = [ini EXCEPT ![f] = saved]
  BY DEF WriteIni, IniBecomes, EntryDone, At, Goto, Typed, RecordTypes, ThreadTypes, Owned,
         Busy, records, counts
<1>2. Entries(r) /\ Profile(saved, f)
  BY <1>1 DEF Settings, Entries
<1>3. ini'[f] = saved /\ Profiles'
  BY <1>1, <1>2 DEF Settings, Profiles
<1>4. Entries(r)'
  BY <1>1, <1>2, <1>3 DEF Entries, Writing
<1>5. \A s \in Recs \ {r} : pc[s] \notin Writing
  BY <1>1 DEF Settings, OneWriter, Writing
<1>6. \A s \in Recs \ {r} : Entries(s)'
  BY <1>1, <1>5 DEF Entries, Writing
<1>7. \A s \in Recs : file[s] \in Faxes => Names(s)'
  BY <1>1 DEF Settings, Names, strTID
<1>8. OneWriter'
  BY <1>1, <1>5 DEF OneWriter, Settings, Writing
<1> QED BY <1>1, <1>3, <1>4, <1>6, <1>7, <1>8 DEF Settings

\* What a failing call leaves of a file is still a profile.
LEMMA PrefixProfile ==
    ASSUME NEW f, NEW s, Profile(s, f), NEW n \in 0 .. Len(s)
    PROVE  Profile(SubSeq(s, 1, n), f)
<1>1. s \in Seq(Lines(f)) /\ Len(s) \in Nat
  BY DEF Profile
<1>2. /\ SubSeq(s, 1, n) \in Seq(Lines(f)) /\ Len(SubSeq(s, 1, n)) = n
      /\ \A i \in 1 .. n : SubSeq(s, 1, n)[i] = s[i]
  BY <1>1
<1>3. ASSUME NEW i \in 1 .. n, s[i] # App PROVE i > 1 /\ i - 1 \in 1 .. n /\ s[i - 1] = App
  <2>1. i > 1 /\ s[i - 1] = App
    BY <1>1, <1>3 DEF Profile
  <2> QED BY <1>1, <2>1
<1> QED BY <1>2, <1>3 DEF Profile

\* A failing call for the record r: nothing is claimed of its fax any more.
LEMMA LostSettings ==
    ASSUME Typed, Settings, NEW r \in Recs, pc[r] \in Writing, pc'[r] \in Writing,
           \A s \in Recs \ {r} : pc'[s] = pc[s],
           UNCHANGED <<file, desc, rx>>, lost' = lost \cup {file[r]},
           pc'[r] = "trunc" => Profile(saved, file[r])',
           NEW lines, Profile(lines, file[r]),
           ini' = [ini EXCEPT ![file[r]] = lines]
    PROVE  Settings'
<1>1. file[r] \in Faxes
  BY DEF Typed, RecordTypes, Owned, Writing, Busy
<1>2. Entries(r)'
  BY <1>1 DEF Settings, Entries
<1>3. \A s \in Recs \ {r} : pc[s] \notin Writing
  BY DEF Settings, OneWriter
<1>4. \A s \in Recs \ {r} : Entries(s)'
  BY <1>3 DEF Entries, Writing
<1>5. \A s \in Recs : file[s] \in Faxes => Names(s)'
  BY DEF Settings, Names, strTID
<1>6. Profiles'
  BY DEF Settings, Profiles
<1>7. OneWriter'
  BY <1>3 DEF OneWriter, Settings
<1> QED BY <1>2, <1>4, <1>5, <1>6, <1>7 DEF Settings

LEMMA EmptyFailsSettings ==
    ASSUME Typed, Settings, NEW r \in Recs, EmptyIniFails(r) PROVE Settings'
<1> DEFINE f == file[r]
           k == Keys[key[r] + 1]
<1>1. /\ pc[r] = "ini" /\ f \in Faxes /\ key[r] < Len(Keys)
      /\ UNCHANGED <<file, desc, rx>> /\ lost' = lost \cup {f}
  BY DEF EmptyIniFails, SettingFails, At, Typed, RecordTypes, Owned, Busy, records
<1>2. Profile(ini[f], f) /\ desc[r] = Description(f) /\ ini = [ini EXCEPT ![f] = ini[f]]
  BY <1>1 DEF Settings, Profiles, Entries, Writing
<1>3. k \in Range(Keys)
  BY <1>1, NumberTypes, KeyInRange DEF Typed, ThreadTypes
<1>4. Profile(NextEntry(r, NoIni), f)
  <2>1. desc[r][k] = Value(f, k)
    BY <1>2, <1>3 DEF Description
  <2>2. NextEntry(r, NoIni) = WritePrivateProfileString(NoIni, "SYSTEM", k, Value(f, k))
    BY <2>1 DEF NextEntry
  <2> HIDE DEF k
  <2> QED BY <1>3, <2>2, EmptyProfile, WriteAppends, AppendedProfile
<1>5. CASE saved' = NextEntry(r, NoIni) /\ IniBecomes(r, NoIni) /\ Goto(r, "trunc")
  <2>1. /\ pc'[r] = "trunc" /\ \A s \in Recs \ {r} : pc'[s] = pc[s]
    BY <1>5 DEF Goto, Typed, Owned
  <2>2. Profile(saved, f)'
    BY <1>1, <1>4, <1>5
  <2>3. ini' = [ini EXCEPT ![f] = NoIni] /\ Profile(NoIni, f)
    BY <1>5, EmptyProfile DEF IniBecomes
  <2> QED BY <1>1, <2>1, <2>2, <2>3, LostSettings DEF Writing
<1>6. CASE EntryDone(r) /\ UNCHANGED <<ini, saved>>
  <2>1. /\ pc'[r] = "ini" /\ \A s \in Recs \ {r} : pc'[s] = pc[s]
    BY <1>6 DEF EntryDone, Goto, Typed, Owned
  <2>2. ini' = [ini EXCEPT ![f] = ini[f]]
    BY <1>2, <1>6
  <2> QED BY <1>1, <1>2, <2>1, <2>2, LostSettings DEF Writing
<1> QED BY <1>5, <1>6 DEF EmptyIniFails

LEMMA WriteFailsSettings ==
    ASSUME Typed, Settings, NEW r \in Recs, WriteIniFails(r) PROVE Settings'
<1> DEFINE f == file[r]
<1>1. /\ pc[r] = "trunc" /\ f \in Faxes /\ pc'[r] = "ini"
      /\ \A s \in Recs \ {r} : pc'[s] = pc[s]
      /\ UNCHANGED <<file, desc, rx>> /\ lost' = lost \cup {f}
  BY DEF WriteIniFails, SettingFails, EntryDone, Goto, At, Typed, RecordTypes, Owned, Busy,
         records
<1>2. Profile(saved, f)
  BY <1>1 DEF Settings, Entries
<1>3. PICK n \in 0 .. Len(saved) - 1 : ini' = [ini EXCEPT ![f] = SubSeq(saved, 1, n)]
  BY DEF WriteIniFails, IniBecomes
<1>4. n \in 0 .. Len(saved)
  BY <1>2 DEF Profile
<1>5. Profile(SubSeq(saved, 1, n), f)
  BY <1>2, <1>4, PrefixProfile
<1> QED BY <1>1, <1>3, <1>5, LostSettings DEF Writing

LEMMA AnnounceSettings ==
    ASSUME Typed, Settings, NEW g \in Faxes, Announce(g) PROVE Settings'
<1> DEFINE n == NextRec
<1>1. n \in Recs /\ life[n] = "none" /\ pc[n] = "none" /\ key[n] = 0
  BY FreeRecord DEF Announce, Typed, Owned, AtStart
<1>2. /\ file' = [file EXCEPT ![n] = g] /\ pc' = [pc EXCEPT ![n] = "ini"]
      /\ desc' = [desc EXCEPT ![n] = Description(g)] /\ UNCHANGED <<ini, saved, rx, key, lost>>
      /\ rx = 0 /\ \A s \in Recs : pc[s] \notin Writing
  BY DEF Announce, Goto, files, RxIdle, Writing
<1> HIDE DEF n
<1>3. /\ file'[n] = g /\ desc'[n] = Description(g) /\ pc'[n] = "ini"
      /\ \A s \in Recs \ {n} : file'[s] = file[s] /\ desc'[s] = desc[s] /\ pc'[s] = pc[s]
  BY <1>1, <1>2 DEF Typed, RecordTypes, Owned, Settings
<1>4. Profiles' /\ OneWriter'
  BY <1>2, <1>3 DEF Settings, Profiles, OneWriter
<1>5. ASSUME NEW s \in Recs, s = n PROVE Entries(s)' /\ Names(s)'
  <2>1. file'[s] = g /\ desc'[s] = Description(g) /\ pc'[s] = "ini" /\ key'[s] = 0
    BY <1>1, <1>2, <1>3, <1>5
  <2>2. \A j \in 1 .. key'[s] : FALSE
    BY <2>1
  <2>3. Entries(s)'
    BY <2>1, <2>2 DEF Entries
  <2>4. desc'[s]["TID"] = g
    BY <2>1, DescriptionTID
  <2>5. Names(s)'
    BY <2>1, <2>4 DEF Names, strTID
  <2> QED BY <2>3, <2>5
<1>6. ASSUME NEW s \in Recs \ {n}, file'[s] \in Faxes PROVE Entries(s)' /\ Names(s)'
  <2>1. pc'[s] \notin Writing
    BY <1>2, <1>3
  <2>2. Names(s)
    BY <1>3, <1>6 DEF Settings
  <2>3. Entries(s)'
    BY <2>1 DEF Entries, Writing
  <2>4. Names(s)'
    BY <1>3, <2>2 DEF Names, strTID
  <2> QED BY <2>3, <2>4
<1>7. desc' = [r \in Recs |-> desc'[r]]
  BY <1>2 DEF Settings
<1>8. ASSUME NEW s \in Recs, file'[s] \in Faxes PROVE Entries(s)' /\ Names(s)'
  <2>1. CASE s = n
    BY <1>5, <2>1
  <2>2. CASE s # n
    BY <1>6, <1>8, <2>2
  <2> QED BY <2>1, <2>2
<1> QED BY <1>4, <1>7, <1>8 DEF Settings

LEMMA CrashSettings == ASSUME Settings, Crash PROVE Settings'
<1>1. PICK n, found, unread : Restart(n, found, unread)
  BY CrashFinds
<1>2. /\ n \in Nat /\ found \in [1 .. n -> Stored]
      /\ file' = [r \in Recs |-> IF r <= n THEN found[r] ELSE Missing]
      /\ desc' = [r \in Recs |-> IF r <= n THEN GetSetting(found[r], unread)
                                 ELSE [k \in Range(Keys) |-> Missing]]
      /\ lost' = lost \cup {entry[1] : entry \in unread}
      /\ ini' = ini \/ (Stored = {} /\ ini' = [g \in Faxes |-> NoIni])
  BY <1>1 DEF Restart
<1>3. \A r \in Recs : pc'[r] = "none"
  BY DEF Crash
<1>4. Profiles'
  BY <1>2, EmptyProfile DEF Settings, Profiles
<1>5. OneWriter' /\ \A r \in Recs : Entries(r)'
  BY <1>3 DEF OneWriter, Entries, Writing
<1>6. ASSUME NEW r \in Recs, file'[r] \in Faxes PROVE Names(r)'
  <2>1. r <= n
    BY <1>2, <1>6, NumberTypes
  <2>2. found[r] \in Faxes /\ file'[r] = found[r] /\ desc'[r] = GetSetting(found[r], unread)
    <3>1. r \in 1 .. n
      <4>1. n \in Nat /\ r \in 1 .. MaxRec /\ MaxRec \in Nat
        BY <1>2, NumberAssumption DEF Recs
      <4> QED BY ONLY <2>1, <4>1
    <3> QED BY <1>2, <2>1, <3>1 DEF Stored
  <2>3. desc'[r]["TID"] \in {Missing, GetPrivateProfileString(ini[found[r]], "SYSTEM", "TID")}
    BY <2>2, KeyAssumption DEF GetSetting
  <2>4. Value(found[r], "TID") = found[r]
    BY DEF Value
  <2>5. Profile(ini[found[r]], found[r])
    BY <2>2 DEF Settings, Profiles
  <2> QED BY <2>2, <2>3, <2>4, <2>5, ReadFinds, KeyAssumption DEF Names, strTID
<1>7. desc' = [r \in Recs |-> desc'[r]]
  BY <1>2
<1> QED BY <1>4, <1>5, <1>6, <1>7 DEF Settings

LEMMA SettingsStep == ASSUME Typed, Settings, [Next]_vars PROVE Settings'
<1>1. CASE UNCHANGED vars
  BY <1>1, SameSettings DEF vars, records, thread, files, counts
<1>2. ASSUME NEW r \in Recs, Step(r) PROVE Settings'
  <2>1. \A s \in Recs \ {r} : pc'[s] = pc[s] /\ key'[s] = key[s]
    BY <1>2, Alone DEF Typed, Owned, Fields
  <2>2. CASE EmptyIni(r) \/ EmptyIniFails(r) \/ WriteIni(r) \/ WriteIniFails(r)
    BY <2>2, EmptySettings, EmptyFailsSettings, WriteSettings, WriteFailsSettings
  <2>3. CASE StartReceiveFax(r)
    <3>1. UNCHANGED <<file, desc, ini, saved, rx, lost>> /\ pc'[r] = "connect"
      BY <2>3 DEF StartReceiveFax, records, files, counts, Goto, Typed, Owned
    <3> QED BY <2>1, <3>1, SameSettings DEF Writing
  <2>4. CASE ReceiveFax(r)
    BY <2>1, <2>4, ReceiveNotWriting, SameSettings
  <2>5. CASE FileServer(r)
    <3>1. UNCHANGED <<records, thread, rx, files, lost>>
      BY <2>5 DEF FileServer, ServerSends, ServerStops, ServerRetries, ServerCloses, ServerSays
    <3> QED BY <3>1, SameSettings DEF records, thread, files
  <2> QED BY <1>2, <2>2, <2>3, <2>4, <2>5 DEF Step, WriteSetting
<1>3. CASE Take \/ CancelTif
  <2>1. UNCHANGED <<file, desc, ini, saved, thread, lost>> /\ (rx' = rx \/ rx' = 0)
    BY <1>3 DEF Take, CancelTif, files, counts
  <2> QED BY <2>1, SameSettings DEF thread
<1>4. ASSUME NEW f \in Faxes, CancelIni(f) PROVE Settings'
  <2>1. /\ UNCHANGED <<file, desc, saved, thread>> /\ ini' = [ini EXCEPT ![f] = NoIni]
        /\ \A s \in Recs : pc[s] \notin Writing
    BY <1>4 DEF CancelIni, records, RxIdle, Writing
  <2>2. Profiles'
    BY <2>1, EmptyProfile DEF Settings, Profiles
  <2>3. OneWriter' /\ \A s \in Recs : Entries(s)'
    BY <2>1 DEF OneWriter, Entries, thread, Writing
  <2>4. \A s \in Recs : file[s] \in Faxes => Names(s)'
    BY <2>1 DEF Settings, Names, strTID
  <2> QED BY <2>1, <2>2, <2>3, <2>4 DEF Settings
<1>5. ASSUME NEW f \in Faxes, Announce(f) PROVE Settings'
  BY <1>5, AnnounceSettings
<1>6. CASE Crash
  BY <1>6, CrashSettings
<1> QED BY <1>1, <1>2, <1>3, <1>4, <1>5, <1>6, NextSteps

LEMMA AlwaysSettings == Spec => []Settings
<1>1. Typed /\ Settings /\ [Next]_vars => Settings'
  BY SettingsStep
<1> QED BY <1>1, InitSettings, AlwaysTyped, PTL DEF Spec

-----------------------------------------------------------------------------
(* The descriptions: a fax that was neither announced again nor hit by a   *)
(* crash in its cancellation, nor by a call on TID.ini that failed, has a  *)
(* complete settings file as long as anything may read it, and its records *)
(* say what it says.                                                       *)

Kept(f) == cause[f] \cap {"announced twice", "crash in cancel"} = {} /\ f \notin lost

\* onLCRCancelReply has deleted TID.ini and not yet the rest.
Going(f) == rx # 0 /\ file[rx] = f

\* The record has passed WriteSetting.
Past(r) == r \in Range(list) \/ pc[r] \in Busy \ Writing

Complete(f) == \A k \in Range(Keys) : Has(ini[f], f, k)

Described(f) == \A r \in Recs : file[r] = f => desc[r] = Description(f)

Covered(f) ==
    ~Going(f) /\ (tif[f] # NoTif \/ \E r \in Recs : file[r] = f /\ Past(r))
        => Complete(f)

Safe == \A f \in Faxes : Kept(f) => Described(f) /\ Covered(f)

LEMMA ListedRecords ==
    ASSUME Owned
    PROVE  /\ \A s \in Range(list) : s \in Recs /\ life[s] = "live" /\ pc[s] \notin Busy
           /\ rx # 0 => rx \in Range(list)
<1>1. DOMAIN list = 1 .. Len(list)
  BY DEF Owned
<1>2. rx # 0 => rx \in Range(list)
  BY <1>1 DEF Owned, Range
<1>3. \A s \in Range(list) : s \in Recs /\ life[s] = "live" /\ pc[s] \notin Busy
  BY <1>1 DEF Owned, Range
<1> QED BY <1>2, <1>3

\* A step that leaves the fax's settings file alone, and begins nothing with it.
LEMMA CalmSafe ==
    ASSUME NEW f \in Faxes, Described(f), Covered(f), ini'[f] = ini[f],
           Going(f) => Going(f)',
           tif'[f] # NoTif => tif[f] # NoTif \/ \E r \in Recs : file[r] = f /\ Past(r),
           \A r \in Recs : file'[r] = f => /\ file[r] = f /\ desc'[r] = desc[r]
                                           /\ Past(r)' => Past(r)
    PROVE  Described(f)' /\ Covered(f)'
<1>1. Described(f)'
  BY DEF Described
<1>2. Complete(f) => Complete(f)'
  BY DEF Complete
<1>3. (\E r \in Recs : file[r] = f /\ Past(r))' => \E r \in Recs : file[r] = f /\ Past(r)
  OBVIOUS
<1>4. Covered(f)'
  BY <1>2, <1>3 DEF Covered
<1> QED BY <1>1, <1>4

\* While a fax's settings are written, nothing can have read them.
LEMMA WritingSafe ==
    ASSUME Typed, Once, Settings, NEW r \in Recs, NEW f \in Faxes,
           "announced twice" \notin cause[f],
           WriteSetting(r), ~StartReceiveFax(r), Described(f), Covered(f)
    PROVE  Described(f)' /\ Covered(f)'
<1>1. /\ UNCHANGED <<records, rx, tif>> /\ pc[r] \in Writing /\ pc'[r] \in Writing
      /\ \A s \in Recs \ {r} : pc'[s] = pc[s]
  <2>1. UNCHANGED <<records, rx, tif>> /\ pc[r] \in Writing
    BY SettingFrame DEF records, Writing
  <2>2. Goto(r, "ini") \/ Goto(r, "trunc")
    BY DEF WriteSetting, EmptyIni, EmptyIniFails, WriteIni, WriteIniFails, EntryDone
  <2> QED BY <2>1, <2>2 DEF Goto, Typed, Owned, Writing
<1>2. \A s \in Recs : Past(s)' => Past(s)
  BY <1>1 DEF Past, records
<1>3. CASE file[r] = f
  <2>1. Single(f) /\ NotYet(f)
    BY DEF Once
  <2>2. tif[f] = NoTif
    BY <1>1, <1>3, <2>1 DEF NotYet, Early, Writing
  <2>3. Active(r) /\ r \notin Range(list)
    <3>1. pc[r] \in Working /\ pc[r] \in Busy
      BY <1>1 DEF Working, Writing, Busy
    <3> QED BY <3>1, ListedRecords DEF Active, Typed
  <2>4. ASSUME NEW s \in Recs, file[s] = f, Past(s)' PROVE FALSE
    <3>1. Past(s) /\ Active(s)
      BY <1>2, <2>4 DEF Past, Active, Busy, Working
    <3>2. s = r
      BY <1>3, <2>1, <2>3, <2>4, <3>1 DEF Single
    <3> QED BY <1>1, <2>3, <3>1, <3>2 DEF Past
  <2>5. Covered(f)'
    BY <1>1, <2>2, <2>4 DEF Covered, records
  <2> QED BY <1>1, <2>5 DEF Described, records
<1>4. CASE file[r] # f
  <2>1. ini'[f] = ini[f]
    <3>1. ini' = ini \/ \E lines : ini' = [ini EXCEPT ![file[r]] = lines]
      BY DEF WriteSetting, EmptyIni, EmptyIniFails, WriteIni, WriteIniFails, IniBecomes
    <3> QED BY <1>4, <3>1 DEF Settings, Profiles
  <2>2. Going(f) => Going(f)'
    BY <1>1 DEF Going, records
  <2> QED BY <1>1, <1>2, <2>1, <2>2, CalmSafe DEF records
<1> QED BY <1>3, <1>4

LEMMA StepSafe ==
    ASSUME Typed, Once, Settings, TifTyped, NEW r \in Recs, Step(r),
           NEW f \in Faxes, "announced twice" \notin cause[f], f \notin lost,
           Described(f), Covered(f)
    PROVE  Described(f)' /\ Covered(f)'
<1>1. CASE WriteSetting(r) /\ ~StartReceiveFax(r)
  BY <1>1, WritingSafe
<1>2. CASE StartReceiveFax(r)
  <2>1. /\ UNCHANGED <<list, file, desc, ini, tif, rx>> /\ pc[r] = "ini" /\ key[r] = Len(Keys)
        /\ \A s \in Recs \ {r} : pc'[s] = pc[s]
    BY <1>2 DEF StartReceiveFax, records, files, At, Goto, Typed, Owned
  <2>2. \A s \in Recs \ {r} : Past(s)' => Past(s)
    BY <2>1 DEF Past
  <2>3. Going(f) => Going(f)'
    BY <2>1 DEF Going
  <2>4. CASE file[r] # f
    BY <2>1, <2>2, <2>3, <2>4, CalmSafe
  <2>5. CASE file[r] = f
    <3>1. \A j \in 1 .. Len(Keys) : Has(ini[f], f, Keys[j])
      BY <2>1, <2>5 DEF Settings, Entries
    <3>2. DOMAIN Keys = 1 .. Len(Keys)
      BY KeyAssumption, LenProperties
    <3>3. Complete(f)
      BY <3>1, <3>2 DEF Complete, Range
    <3> QED BY <2>1, <3>3 DEF Described, Covered, Complete
  <2> QED BY <2>4, <2>5
<1>3. CASE ReceiveFax(r)
  <2>1. /\ pc'[r] \in Busy => pc[r] \in Busy
        /\ pc[r] \notin Writing /\ pc'[r] \notin Writing
        /\ UNCHANGED <<file, desc, ini, rx>>
        /\ Range(list') \subseteq Range(list) \cup {s \in {r} : pc[r] = "append"}
    BY <1>3, ReceiveNotWriting
  <2>2. \A s \in Recs \ {r} : pc'[s] = pc[s]
    <3>1. ThreadTypes /\ pc \in [Recs -> Working \cup {"none", "over"}]
      BY DEF Typed, Owned
    <3>2. \A s \in Recs \ {r} : Fields(s)' = Fields(s)
      BY <3>1, Alone
    <3> QED BY <3>2 DEF Fields
  <2>3. \A s \in Recs : Past(s)' => Past(s)
    BY <2>1, <2>2 DEF Past, Busy, Writing
  <2>4. tif'[f] # tif[f] => file[r] = f /\ Past(r)
    <3>1. tif'[f] # tif[f] => f = file[r] /\ pc[r] \in {"copy", "copying"}
      BY TifOfStep
    <3> QED BY <3>1 DEF Past, Busy, Writing
  <2>5. Going(f) => Going(f)'
    BY <2>1 DEF Going
  <2> QED BY <2>1, <2>3, <2>4, <2>5, CalmSafe
<1>4. CASE FileServer(r)
  <2>1. UNCHANGED <<records, thread, rx, files>>
    BY <1>4 DEF FileServer, ServerSends, ServerStops, ServerRetries, ServerCloses, ServerSays
  <2> QED BY <2>1 DEF records, thread, files, Described, Covered, Complete, Past, Going
<1> QED BY <1>1, <1>2, <1>3, <1>4 DEF Step

LEMMA ListSafe ==
    ASSUME Typed, Typed', TifTyped, Once, Take \/ CancelTif, NEW f \in Faxes,
           "announced twice" \notin cause[f], Described(f), Covered(f)
    PROVE  Described(f)' /\ Covered(f)'
<1>1. Range(list') \subseteq Range(list) /\ (CancelTif => rx \notin Range(list'))
  BY ListShrinks DEF Typed
<1>2. UNCHANGED <<file, desc, ini, pc>>
  BY DEF Take, CancelTif, thread, files
<1>3. \A s \in Recs : Past(s)' => Past(s)
  BY <1>1, <1>2 DEF Past
<1>4. CASE Take
  <2>1. rx' = rx /\ tif' = tif
    BY <1>4 DEF Take, files
  <2> QED BY <1>2, <1>3, <2>1, CalmSafe DEF Going
<1>5. CASE CancelTif /\ file[rx] # f
  <2>1. tif'[f] = tif[f] /\ ~Going(f)
    BY <1>5 DEF CancelTif, Going, TifTyped
  <2> QED BY <1>2, <1>3, <2>1, CalmSafe
<1>6. CASE CancelTif /\ file[rx] = f
  <2>1. rx \in Recs /\ rx \in Range(list) /\ pc[rx] \notin Busy
    <3>1. rx # 0 /\ Owned
      BY <1>6 DEF CancelTif, Typed
    <3> QED BY <3>1, ListedRecords
  <2>2. tif'[f] = NoTif
    BY <1>6 DEF CancelTif, TifTyped
  <2>3. ASSUME NEW s \in Recs, file[s] = f, Past(s)' PROVE FALSE
    <3>1. Past(s) /\ Active(s) /\ Active(rx)
      BY <1>3, <2>1, <2>3 DEF Past, Active, Busy, Working
    <3>2. s = rx
      BY <1>6, <2>1, <2>3, <3>1 DEF Single, Once
    <3> QED BY <1>1, <1>2, <1>6, <2>1, <2>3, <3>2 DEF Past
  <2>4. Described(f)'
    BY <1>2 DEF Described
  <2> QED BY <1>2, <2>2, <2>3, <2>4 DEF Covered
<1> QED BY <1>4, <1>5, <1>6

LEMMA CancelSafe ==
    ASSUME Typed, Settings, NEW g \in Faxes, CancelIni(g),
           NEW f \in Faxes, Described(f), Covered(f)
    PROVE  Described(f)' /\ Covered(f)'
<1>1. /\ UNCHANGED <<list, file, desc, pc, tif>> /\ rx = 0
      /\ ini' = [ini EXCEPT ![g] = NoIni]
  BY DEF CancelIni, records, thread, RxIdle
<1>2. CASE f # g
  <2>1. ini'[f] = ini[f] /\ ~Going(f) /\ \A s \in Recs : Past(s)' => Past(s)
    BY <1>1, <1>2 DEF Past, Going, Settings, Profiles
  <2> QED BY <1>1, <2>1, CalmSafe
<1>3. CASE f = g
  <2> DEFINE I == Listed(g)
             k == Min(I)
  <2>1. I \in SUBSET Nat /\ I # {}
    BY DEF CancelIni, Listed, Typed, Owned
  <2>2. k \in I
    <3> HIDE DEF I
    <3> QED BY <2>1, HasMin
  <2>3. k \in 1 .. Len(list) /\ strTID(list[k]) = g /\ rx' = list[k]
    BY <2>2 DEF CancelIni, Listed
  <2> HIDE DEF I, k
  <2>4. rx' \in Recs /\ life[rx'] = "live"
    BY <2>3 DEF Typed, Owned
  <2>5. file[rx'] \in Faxes
    BY <2>4 DEF Typed, RecordTypes
  <2>6. strTID(rx') = g /\ g # Missing /\ Names(rx')
    BY <2>3, <2>4, <2>5, KeyAssumption DEF Settings
  <2>7. file[rx'] = g
    BY <2>6 DEF Names
  <2>8. Going(f)'
    BY <1>1, <1>3, <2>4, <2>7, NumberTypes DEF Going, Recs
  <2> QED BY <1>1, <2>8 DEF Described, Covered
<1> QED BY <1>2, <1>3

LEMMA AnnounceSafe ==
    ASSUME Typed, Settings, NEW g \in Faxes, Announce(g),
           NEW f \in Faxes, "announced twice" \notin cause'[f], Described(f), Covered(f)
    PROVE  Described(f)' /\ Covered(f)'
<1> DEFINE n == NextRec
<1>1. n \in Recs /\ life[n] = "none" /\ pc[n] = "none"
  BY FreeRecord DEF Announce, Typed, Owned
<1>2. /\ file' = [file EXCEPT ![n] = g] /\ pc' = [pc EXCEPT ![n] = "ini"]
      /\ desc' = [desc EXCEPT ![n] = Description(g)]
      /\ UNCHANGED <<list, ini, tif, rx>> /\ rx = 0
      /\ IF Known(g) THEN Blame(g, "announced twice") ELSE UNCHANGED cause
  BY DEF Announce, Goto, files, RxIdle
<1> HIDE DEF n
<1>3. /\ file'[n] = g /\ pc'[n] = "ini"
      /\ \A s \in Recs \ {n} : file'[s] = file[s] /\ pc'[s] = pc[s]
  BY <1>1, <1>2 DEF Typed, RecordTypes, Owned
<1>4. desc'[n] = Description(g) /\ \A s \in Recs \ {n} : desc'[s] = desc[s]
  BY <1>1, <1>2 DEF Settings
<1>5. ASSUME NEW s \in Recs, s = n PROVE ~Past(s)'
  <2>1. n \notin Range(list)
    BY <1>1, ListedRecords DEF Typed
  <2> QED BY <1>2, <1>3, <1>5, <2>1 DEF Past, Writing
<1>6. \A s \in Recs \ {n} : Past(s)' => Past(s)
  BY <1>2, <1>3 DEF Past
<1>7. CASE f # g
  <2>1. \A s \in Recs : file'[s] = f => s # n
    BY <1>3, <1>7
  <2> QED BY <1>2, <1>3, <1>4, <1>6, <2>1, CalmSafe DEF Going
<1>8. CASE f = g
  <2>1. ~Known(f)
    BY <1>2, <1>8 DEF Blame, Typed, FileTypes
  <2>2. ASSUME NEW s \in Recs, file'[s] = f, Past(s)' PROVE FALSE
    <3>1. s # n
      BY <1>5, <2>2
    <3>2. file[s] = f
      BY <1>3, <2>2, <3>1
    <3>3. Past(s)
      BY <1>6, <2>2, <3>1
    <3> QED BY <2>1, <3>2, <3>3 DEF Known, Past, Busy, Working
  <2>3. tif'[f] = NoTif
    BY <1>2, <2>1 DEF Known
  <2>4. Described(f)'
    BY <1>3, <1>4, <1>8 DEF Described
  <2> QED BY <2>2, <2>3, <2>4 DEF Covered
<1> QED BY <1>7, <1>8

\* The next process reads back what this one wrote.
LEMMA CrashSafe ==
    ASSUME Typed, Settings, Crash, NEW f \in Faxes, "crash in cancel" \notin cause'[f],
           f \notin lost', Described(f), Covered(f)
    PROVE  Described(f)' /\ Covered(f)'
<1>1. PICK n, found, unread : Restart(n, found, unread)
  BY CrashFinds
<1>2. /\ n \in Nat /\ found \in [1 .. n -> Stored]
      /\ file' = [r \in Recs |-> IF r <= n THEN found[r] ELSE Missing]
      /\ desc' = [r \in Recs |-> IF r <= n THEN GetSetting(found[r], unread)
                                 ELSE [k \in Range(Keys) |-> Missing]]
      /\ lost' = lost \cup {entry[1] : entry \in unread}
      /\ ini' = ini \/ (Stored = {} /\ ini' = [g \in Faxes |-> NoIni])
  BY <1>1 DEF Restart
<1>3. ~Going(f) /\ tif' = tif
  BY DEF Crash, Damage, Going
<1>4. tif[f] # NoTif => Complete(f) /\ ini' = ini
  BY <1>2, <1>3 DEF Covered, Stored
<1>5. ASSUME NEW r \in Recs, file'[r] = f
      PROVE  tif[f] # NoTif /\ desc'[r] = GetSetting(f, unread)
  <2>1. r <= n
    BY <1>2, <1>5, NumberTypes
  <2>2. found[r] = f
    BY <1>2, <1>5, <2>1
  <2>3. r \in 1 .. n
    <3>1. n \in Nat /\ MaxRec \in Nat /\ r \in 1 .. MaxRec
      BY <1>2, NumberAssumption DEF Recs
    <3> QED BY ONLY <2>1, <3>1
  <2> QED BY <1>2, <2>1, <2>2, <2>3 DEF Stored
<1>6. tif[f] # NoTif => GetSetting(f, unread) = Description(f)
  <2>0. \A k \in Range(Keys) : <<f, k>> \notin unread
    <3> SUFFICES ASSUME NEW k \in Range(Keys), <<f, k>> \in unread PROVE FALSE
      OBVIOUS
    <3>1. <<f, k>>[1] = f
      OBVIOUS
    <3> QED BY <1>2, <3>1
  <2> SUFFICES ASSUME tif[f] # NoTif, NEW k \in Range(Keys)
               PROVE  GetPrivateProfileString(ini[f], "SYSTEM", k) = Value(f, k)
    BY <2>0 DEF GetSetting, Description
  <2>1. Profile(ini[f], f) /\ Has(ini[f], f, k)
    BY <1>4 DEF Settings, Profiles, Complete
  <2> QED BY <2>1, ReadFinds
<1>7. Described(f)'
  BY <1>5, <1>6 DEF Described
<1>8. (tif[f] # NoTif)' \/ (\E r \in Recs : file[r] = f /\ Past(r))' => tif[f] # NoTif
  BY <1>3, <1>5
<1>9. Covered(f)'
  BY <1>4, <1>8 DEF Covered, Complete
<1> QED BY <1>7, <1>9

LEMMA LostGrows == Next => lost \subseteq lost'
<1> SUFFICES ASSUME Next PROVE lost \subseteq lost'
  OBVIOUS
<1> USE DEF counts
<1>1. CASE Crash
  BY <1>1 DEF Crash
<1>2. CASE Take \/ CancelTif \/ \E f \in Faxes : Announce(f) \/ CancelIni(f)
  BY <1>2 DEF Take, CancelTif, Announce, CancelIni
<1>3. ASSUME NEW r \in Recs, Step(r) PROVE lost \subseteq lost'
  <2>1. CASE WriteSetting(r)
    BY <2>1 DEF WriteSetting, EmptyIni, EmptyIniFails, WriteIni, WriteIniFails, SettingFails,
                StartReceiveFax
  <2>2. CASE FileServer(r)
    BY <2>2 DEF FileServer, ServerSends, ServerStops, ServerRetries, ServerCloses, ServerSays
  <2>3. CASE ReceiveFax(r)
    BY <2>3 DEF ReceiveFax, Connect, ConnectFails, CreateFirst, CreateFirstFails,
          OpenFile, OpenFileFails, WriteBlock, WriteBlockFails, NoFileOpen, ReceiveStop,
          CopyOpen, CopyBlock, CopyDone, CopyFails, Queue, Report, AnswerStop, GetPacketFails, End
  <2> QED BY <1>3, <2>1, <2>2, <2>3 DEF Step
<1> QED BY <1>1, <1>2, <1>3, NextSteps

LEMMA SafeStep ==
    ASSUME Typed, Typed', Once, Settings, TifTyped, Safe, [Next]_vars PROVE Safe'
<1> SUFFICES ASSUME NEW f \in Faxes, Kept(f)' PROVE Described(f)' /\ Covered(f)'
  BY DEF Safe
<1>1. CASE UNCHANGED vars
  <2>1. UNCHANGED <<list, file, desc, pc, rx, ini, tif, cause, lost>>
    BY <1>1 DEF vars, records, thread, files, counts
  <2>2. Described(f) /\ Covered(f)
    BY <2>1 DEF Safe, Kept
  <2> QED BY <2>1, <2>2 DEF Described, Covered, Complete, Past, Going
<1>2. CASE Next
  <2>1. /\ Described(f) /\ Covered(f)
        /\ "announced twice" \notin cause[f] /\ "announced twice" \notin cause'[f]
        /\ "crash in cancel" \notin cause'[f] /\ f \notin lost /\ f \notin lost'
    BY <1>2, CauseGrows, LostGrows DEF Safe, Kept
  <2>2. CASE \E r \in Recs : Step(r)
    BY <2>1, <2>2, StepSafe
  <2>3. CASE Take \/ CancelTif
    BY <2>1, <2>3, ListSafe
  <2>4. CASE Crash
    BY <2>1, <2>4, CrashSafe
  <2>5. CASE \E g \in Faxes : Announce(g)
    BY <2>1, <2>5, AnnounceSafe
  <2>6. CASE \E g \in Faxes : CancelIni(g)
    BY <2>1, <2>6, CancelSafe
  <2> QED BY <1>2, <2>2, <2>3, <2>4, <2>5, <2>6, NextSteps
<1> QED BY <1>1, <1>2

(* A fax in the list carries the description that was announced, also      *)
(* after a restart has read it back from TID.ini, unless it was announced  *)
(* again, a call on TID.ini has failed, or a crash came between the two    *)
(* deletions of its cancellation.  (TcpSession.cpp:517-551, 609-641,       *)
(* rwini.cpp:112-138, linux_compat.cpp:640-831, FileSession.cpp:276-375)   *)
THEOREM DescriptionsKept == Spec => []DescriptionKept
<1>1. Init => Safe
  <2> SUFFICES ASSUME Init, NEW f \in Faxes PROVE Described(f) /\ Covered(f)
    BY DEF Safe
  <2>1. \A r \in Recs : file[r] # f
    BY NumberTypes DEF Init
  <2>2. tif[f] = NoTif
    BY DEF Init
  <2> QED BY <2>1, <2>2 DEF Described, Covered
<1>2. Typed /\ Typed' /\ TifTyped /\ Once /\ Settings /\ Safe /\ [Next]_vars => Safe'
  BY SafeStep
<1>3. Typed /\ Safe => DescriptionKept
  <2> SUFFICES ASSUME Typed, Safe, NEW i \in 1 .. Len(list), Kept(file[list[i]])
               PROVE  desc[list[i]] = Description(file[list[i]])
    BY DEF DescriptionKept, Kept
  <2>1. list[i] \in Recs /\ life[list[i]] = "live"
    BY DEF Typed, Owned
  <2>2. file[list[i]] \in Faxes
    BY <2>1 DEF Typed, RecordTypes
  <2> QED BY <2>1, <2>2 DEF Safe, Described
<1> QED BY <1>1, <1>2, <1>3, AlwaysTyped, AlwaysOnce, AlwaysSettings, PTL DEF Spec

-----------------------------------------------------------------------------
(* That FaxDownload implements FaxInbox, the jobs being its records.       *)

Waiting == [i \in 1 .. Len(list) |-> file[list[i]]]
Job == [r \in Recs |-> IF pc[r] \in Working \ {"report", "stop"} THEN file[r] ELSE Missing]
InboxStep == [Inbox!Next]_<<Waiting, Job, Stored, {}, {}>>

LEMMA Jobs == \A r \in Recs : Job[r] = IF pc[r] \in Busy THEN file[r] ELSE Missing
BY DEF Job, Working, Busy

LEMMA InitInbox == Init => Inbox!Init
<1> SUFFICES ASSUME Init PROVE Inbox!Init
  OBVIOUS
<1>1. Waiting = <<>> /\ Len(list) = 0
  BY DEF Init, Waiting
<1>2. Job = [r \in Recs |-> Missing] /\ Stored = {}
  BY DEF Init, Job, Stored, Working
<1> QED BY <1>1, <1>2 DEF Inbox!Init, Inbox!Idle, Waiting, Job, Stored

\* A thread that goes on, or gives up its record.
LEMMA MovesInbox ==
    ASSUME Typed, NEW r \in Recs, UNCHANGED <<list, file, Stored>>,
           \A s \in Recs \ {r} : pc'[s] = pc[s], pc'[r] \in Busy => pc[r] \in Busy
    PROVE  InboxStep
<1>1. UNCHANGED Waiting
  BY DEF Waiting
<1>2. \A s \in Recs : Job'[s] = IF pc'[s] \in Busy THEN file[s] ELSE Missing
  BY DEF Job, Working, Busy
<1>3. CASE pc[r] \in Busy /\ pc'[r] \notin Busy
  <2>1. Job[r] # Missing
    BY <1>3, Jobs, NumberTypes DEF Typed, Owned, RecordTypes
  <2>2. Job' = [Job EXCEPT ![r] = Missing]
    BY <1>2, <1>3, Jobs DEF Job
  <2>3. Inbox!GiveUp(r)
    BY <1>1, <2>1, <2>2 DEF Inbox!GiveUp, Inbox!Ends, Waiting, Job, Stored
  <2> QED BY <2>3 DEF Inbox!Next, InboxStep
<1>4. CASE ~(pc[r] \in Busy /\ pc'[r] \notin Busy)
  <2>1. \A s \in Recs : Job'[s] = Job[s]
    BY <1>2, <1>4, Jobs
  <2>2. Job' = Job
    BY <2>1 DEF Job
  <2> QED BY <1>1, <2>2 DEF InboxStep
<1> QED BY <1>3, <1>4

\* A block of the copy does not make the file disappear.
LEMMA CopyStores ==
    ASSUME Typed, TifTyped, NEW r \in Recs, CopyBlock(r) PROVE UNCHANGED Stored
<1> DEFINE f == file[r]
           s == tif[f]
           pos == copy[r].pos
           b == inode[copy[r].ino][pos + 1]
<1>1. f \in Faxes /\ copy[r].ino \in Inodes /\ copy[r] \in OpenFiles
  BY DEF CopyBlock, At, Typed, RecordTypes, ThreadTypes, Owned, Busy, AtWork
<1>2. inode[copy[r].ino] \in Seq(0 .. Blocks) /\ pos < Len(inode[copy[r].ino]) /\ pos \in Nat
  BY <1>1 DEF CopyBlock, Typed, FileTypes, OpenFiles
<1>3. b \in 0 .. Blocks
  <2>1. pos + 1 \in 1 .. Len(inode[copy[r].ino])
    BY <1>2
  <2> HIDE DEF pos
  <2> QED BY <1>2, <2>1, ElementOfSeq
<1>4. tif' = [tif EXCEPT ![f] = IF s = NoTif THEN NoTif ELSE Written(s, pos, b)]
  BY DEF CopyBlock
<1>5. s \in Seq(0 .. Blocks + 1)
  BY <1>1 DEF TifTyped
<1> HIDE DEF f, s, pos, b
<1>6. Written(s, pos, b) # NoTif
  <2>1. NoTif = <<Blocks + 1>> /\ b # Blocks + 1
    BY <1>3, NumberTypes DEF NoTif
  <2>2. CASE pos < Len(s)
    <3>1. Written(s, pos, b) =
            [i \in 1 .. Len(s) |-> IF i = pos + 1 THEN b ELSE IF i <= Len(s) THEN s[i] ELSE 0]
      BY <1>2, <1>5, <2>2, WrittenInside
    <3>2. Written(s, pos, b)[pos + 1] = b /\ pos + 1 \in 1 .. Len(s)
      BY <1>2, <1>5, <2>2, <3>1
    <3>3. Len(Written(s, pos, b)) = Len(s)
      BY <1>5, <3>1
    <3>4. Len(s) \in Nat /\ Len(NoTif) = 1 /\ NoTif[1] = Blocks + 1
      BY <1>5, <2>1
    <3>5. ASSUME Written(s, pos, b) = NoTif PROVE FALSE
      <4>1. Len(s) = 1
        BY <3>3, <3>4, <3>5
      <4>2. pos + 1 = 1
        BY <1>2, <3>2, <4>1
      <4> QED BY <2>1, <3>2, <3>4, <3>5, <4>2
    <3> QED BY <3>5
  <2>3. CASE pos >= Len(s)
    <3>1. Written(s, pos, b) =
            [i \in 1 .. pos + 1 |-> IF i = pos + 1 THEN b ELSE IF i <= Len(s) THEN s[i] ELSE 0]
      BY <1>2, <1>5, <2>3, WrittenShort
    <3>2. Written(s, pos, b)[pos + 1] = b /\ Len(Written(s, pos, b)) = pos + 1
      BY <1>2, <3>1
    <3>3. Len(NoTif) = 1 /\ NoTif[1] = Blocks + 1
      BY <2>1
    <3>4. ASSUME Written(s, pos, b) = NoTif PROVE FALSE
      <4>1. pos + 1 = 1
        BY <1>2, <3>2, <3>3, <3>4
      <4> QED BY <2>1, <3>2, <3>3, <3>4, <4>1
    <3> QED BY <3>4
  <2> QED BY <1>2, <1>5, <2>2, <2>3
<1>7. \A g \in Faxes : tif'[g] # NoTif <=> tif[g] # NoTif
  BY <1>4, <1>6 DEF TifTyped, s
<1> QED BY <1>7 DEF Stored

\* The copy creates TID.tif: the job's document is there.
LEMMA OpenInbox == ASSUME Typed, TifTyped, NEW r \in Recs, CopyOpen(r) PROVE InboxStep
<1>1. /\ UNCHANGED <<list, file>> /\ pc[r] = "copy" /\ pc' = [pc EXCEPT ![r] = "copying"]
      /\ tif' = [tif EXCEPT ![file[r]] = <<>>]
  BY DEF CopyOpen, At, Goto, records
<1>2. file[r] \in Faxes
  BY <1>1 DEF Typed, Owned, RecordTypes, Busy
<1>3. UNCHANGED Waiting
  BY <1>1 DEF Waiting
<1>4. UNCHANGED Job
  BY <1>1 DEF Job, Working, Typed, Owned
<1>5. Job[r] = file[r] /\ file[r] # Missing
  BY <1>1, <1>2, NumberTypes DEF Job, Working
<1>6. <<>> # NoTif
  BY DEF NoTif
<1>7. Stored' = Stored \cup {file[r]}
  BY <1>1, <1>2, <1>6 DEF Stored, TifTyped
<1>8. Inbox!Store(r)
  BY <1>3, <1>4, <1>5, <1>7 DEF Inbox!Store, Waiting, Job, Stored
<1> QED BY <1>8 DEF Inbox!Next, InboxStep

LEMMA QueueInbox == ASSUME Typed, NEW r \in Recs, Queue(r) PROVE InboxStep
<1>1. /\ list' = Append(list, r) /\ UNCHANGED <<file, tif>> /\ pc[r] = "append"
      /\ pc'[r] \in {"report", "stop"} /\ \A s \in Recs \ {r} : pc'[s] = pc[s]
  BY DEF Queue, At, Goto, Typed, Owned, files
<1>2. list \in Seq(Recs)
  BY DEF Typed, Owned
<1>3. /\ Len(list') = Len(list) + 1 /\ Len(list) \in Nat
      /\ \A i \in 1 .. Len(list) : list'[i] = list[i]
      /\ list'[Len(list) + 1] = r
  BY <1>1, <1>2, AppendProperties, LenProperties
<1>4. Job[r] = file[r] /\ file[r] # Missing
  BY <1>1, NumberTypes DEF Job, Working, Typed, Owned, RecordTypes, Busy
<1>5. Waiting' = Append(Waiting, Job[r])
  <2>1. Waiting' = [i \in 1 .. Len(list) + 1 |-> file[list'[i]]]
    BY <1>1, <1>3 DEF Waiting
  <2>2. Waiting \in Seq(Faxes \cup {Missing}) /\ Len(Waiting) = Len(list)
        /\ \A i \in 1 .. Len(list) : Waiting[i] = file[list[i]]
    BY <1>2, <1>3 DEF Waiting, Typed, RecordTypes
  <2>3. Job[r] \in Faxes \cup {Missing}
    BY <1>4 DEF Typed, RecordTypes
  <2>4. Waiting' \in Seq(Faxes \cup {Missing}) /\ Len(Waiting') = Len(list) + 1
    <3>1. \A i \in 1 .. Len(list) + 1 : list'[i] \in Recs
      BY <1>2, <1>3
    <3> QED BY <1>3, <2>1, <3>1 DEF Typed, RecordTypes
  <2>5. \A i \in 1 .. Len(list) + 1 : Waiting'[i] = Append(Waiting, Job[r])[i]
    BY <1>3, <1>4, <2>1, <2>2, <2>3, AppendProperties
  <2> HIDE DEF Waiting, Job
  <2>6. Append(Waiting, Job[r]) \in Seq(Faxes \cup {Missing})
        /\ Len(Append(Waiting, Job[r])) = Len(list) + 1
    BY <2>2, <2>3, AppendProperties
  <2> QED BY <2>4, <2>5, <2>6, SeqEqual
<1>6. \A s \in Recs : Job'[s] = IF s = r THEN Missing ELSE Job[s]
  BY <1>1 DEF Job
<1>7. Job' = [Job EXCEPT ![r] = Missing]
  BY <1>6 DEF Job
<1>8. UNCHANGED Stored
  BY <1>1 DEF Stored
<1>9. Inbox!Deliver(r)
  BY <1>4, <1>5, <1>7, <1>8 DEF Inbox!Deliver, Inbox!Ends, Waiting, Job, Stored
<1> QED BY <1>9 DEF Inbox!Next, InboxStep

\* Each step of a thread, or of its server, or of the receiver for its record.
LEMMA ThreadInbox == ASSUME Typed, TifTyped, NEW r \in Recs, Step(r) PROVE InboxStep
<1> USE DEF Working, Busy, At, Goto
<1>0. pc \in [Recs -> Working \cup {"none", "over"}]
  BY DEF Typed, Owned
<1>1. UNCHANGED tif => UNCHANGED Stored
  BY DEF Stored
<1>2. CASE FileServer(r)
  <2>1. UNCHANGED <<list, file, tif, pc>>
    BY <1>2 DEF FileServer, ServerSends, ServerStops, ServerRetries, ServerCloses, ServerSays,
                records, thread, files
  <2> QED BY <1>1, <2>1, MovesInbox
<1>3. CASE WriteSetting(r)
  <2>1. /\ UNCHANGED <<list, file, tif>> /\ pc[r] \in Busy
        /\ \A s \in Recs \ {r} : pc'[s] = pc[s]
    BY <1>0, <1>3, SettingFrame
  <2> QED BY <1>1, <2>1, MovesInbox
<1>4. CASE \/ Connect(r) \/ ConnectFails(r) \/ CreateFirst(r) \/ CreateFirstFails(r)
           \/ OpenFile(r) \/ OpenFileFails(r) \/ WriteBlock(r) \/ WriteBlockFails(r)
           \/ NoFileOpen(r)
  <2>1. /\ UNCHANGED <<list, file, tif>> /\ \A s \in Recs \ {r} : pc'[s] = pc[s]
        /\ (pc'[r] \in Busy => pc[r] \in Busy)
    BY <1>0, <1>4 DEF Connect, ConnectFails, CreateFirst, CreateFirstFails, GiveUp, OpenFile,
          OpenFileFails, WriteBlock, WriteBlockFails, NoFileOpen, records, files
  <2> QED BY <1>1, <2>1, MovesInbox
<1>5. CASE \/ ReceiveStop(r) \/ CopyDone(r) \/ CopyFails(r) \/ Report(r) \/ AnswerStop(r)
           \/ GetPacketFails(r)
  <2>1. /\ UNCHANGED <<list, file, tif>> /\ \A s \in Recs \ {r} : pc'[s] = pc[s]
        /\ (pc'[r] \in Busy => pc[r] \in Busy)
    BY <1>0, <1>5 DEF ReceiveStop, Receives, CopyDone, CopyFails, Report, AnswerStop,
          GetPacketFails, End, records, files
  <2> QED BY <1>1, <2>1, MovesInbox
<1>6. CASE CopyBlock(r)
  <2>1. UNCHANGED <<list, file, pc>>
    BY <1>6 DEF CopyBlock, records
  <2> QED BY <1>6, <2>1, CopyStores, MovesInbox
<1> QED
  BY <1>2, <1>3, <1>4, <1>5, <1>6, OpenInbox, QueueInbox DEF Step, ReceiveFax

LEMMA AnnounceInbox == ASSUME Typed, NEW f \in Faxes, Announce(f) PROVE InboxStep
<1> DEFINE r == NextRec
<1>1. r \in Recs /\ life[r] = "none" /\ pc[r] = "none"
  BY FreeRecord DEF Announce, Typed, Owned
<1>2. /\ UNCHANGED <<list, tif>> /\ file' = [file EXCEPT ![r] = f]
      /\ pc' = [pc EXCEPT ![r] = "ini"]
  BY DEF Announce, Goto, files
<1> HIDE DEF r
<1>3. \A i \in 1 .. Len(list) : list[i] \in Recs \ {r}
  BY <1>1 DEF Typed, Owned
<1>4. UNCHANGED Waiting
  BY <1>2, <1>3 DEF Waiting, Typed, RecordTypes
<1>5. UNCHANGED Stored
  BY <1>2 DEF Stored
<1>6. Job[r] = Missing
  BY <1>1 DEF Job, Working
<1>7. \A s \in Recs : Job'[s] = IF s = r THEN f ELSE Job[s]
  BY <1>1, <1>2 DEF Job, Working, Typed, Owned, RecordTypes
<1>8. Job' = [Job EXCEPT ![r] = f]
  BY <1>7 DEF Job
<1>9. Inbox!Begin(r, f)
  BY <1>4, <1>5, <1>6, <1>8 DEF Inbox!Begin, Waiting, Job, Stored
<1> QED BY <1>1, <1>9 DEF Inbox!Next, InboxStep

\* The waiting faxes are those of the listed records, also when one leaves.
LEMMA WaitingShrinks ==
    ASSUME Typed, NEW k \in 1 .. Len(list), list' = RemoveAt(list, k), UNCHANGED file
    PROVE  /\ Waiting' = RemoveAt(Waiting, k)
           /\ k \in 1 .. Len(Waiting) /\ Waiting[k] = file[list[k]]
<1> DEFINE T == Faxes \cup {Missing}
<1>1. list \in Seq(Recs) /\ Len(list) \in Nat /\ file \in [Recs -> T]
  BY DEF Typed, Owned, RecordTypes
<1>2. /\ Waiting \in Seq(T) /\ Len(Waiting) = Len(list)
      /\ \A i \in 1 .. Len(list) : Waiting[i] = file[list[i]]
  BY <1>1 DEF Waiting
<1>3. /\ list' \in Seq(Recs) /\ Len(list') = Len(list) - 1
      /\ \A i \in 1 .. Len(list) - 1 : list'[i] = list[IF i < k THEN i ELSE i + 1]
  BY <1>1, Removed
<1>4. /\ Waiting' \in Seq(T) /\ Len(Waiting') = Len(list) - 1
      /\ \A i \in 1 .. Len(list) - 1 : Waiting'[i] = file[list'[i]]
  BY <1>1, <1>3 DEF Waiting
<1> HIDE DEF T, Waiting
<1>5. /\ RemoveAt(Waiting, k) \in Seq(T) /\ Len(RemoveAt(Waiting, k)) = Len(list) - 1
      /\ \A i \in 1 .. Len(list) - 1 :
            RemoveAt(Waiting, k)[i] = Waiting[IF i < k THEN i ELSE i + 1]
  BY <1>2, Removed
<1>6. \A i \in 1 .. Len(list) - 1 : (IF i < k THEN i ELSE i + 1) \in 1 .. Len(list)
  BY <1>1
<1>7. ASSUME NEW i \in 1 .. Len(list) - 1 PROVE Waiting'[i] = RemoveAt(Waiting, k)[i]
  <2> DEFINE j == IF i < k THEN i ELSE i + 1
  <2>1. j \in 1 .. Len(list)
    BY <1>6
  <2>2. list'[i] = list[j] /\ RemoveAt(Waiting, k)[i] = Waiting[j]
    BY <1>3, <1>5
  <2> HIDE DEF j
  <2> QED BY <1>2, <1>4, <2>1, <2>2
<1> QED BY <1>2, <1>4, <1>5, <1>7, SeqEqual

LEMMA LeaveInbox == ASSUME Typed, TifTyped, Take \/ CancelTif PROVE InboxStep
<1>0. list \in Seq(Recs) /\ Len(list) \in Nat
  BY DEF Typed, Owned
<1>1. UNCHANGED <<file, pc>>
  BY DEF Take, CancelTif, thread
<1>2. UNCHANGED Job
  BY <1>1 DEF Job
<1>3. CASE Take
  <2>1. list # <<>> /\ list' = Tail(list) /\ UNCHANGED tif
    BY <1>3 DEF Take, files
  <2>2. 1 \in 1 .. Len(list) /\ Len(Tail(list)) = Len(list) - 1
    BY <1>0, <2>1
  <2>3. \A S : \A s \in Seq(S) : s # <<>> => Tail(s) = RemoveAt(s, 1)
    <3> SUFFICES ASSUME NEW S, NEW s \in Seq(S), s # <<>> PROVE Tail(s) = RemoveAt(s, 1)
      OBVIOUS
    <3>1. Len(s) \in Nat /\ 1 \in 1 .. Len(s)
      OBVIOUS
    <3>2. \A i \in 1 .. Len(s) - 1 : ~(i < 1)
      BY <3>1
    <3>3. /\ RemoveAt(s, 1) \in Seq(S) /\ Len(RemoveAt(s, 1)) = Len(s) - 1
          /\ \A i \in 1 .. Len(s) - 1 : RemoveAt(s, 1)[i] = s[i + 1]
      BY <3>1, <3>2, Removed
    <3>4. /\ Tail(s) \in Seq(S) /\ Len(Tail(s)) = Len(s) - 1
          /\ \A i \in 1 .. Len(s) - 1 : Tail(s)[i] = s[i + 1]
      BY <3>1
    <3> QED BY <3>3, <3>4, SeqEqual
  <2>4. list' = RemoveAt(list, 1)
    BY <1>0, <2>1, <2>3
  <2>5. Waiting' = RemoveAt(Waiting, 1) /\ 1 \in 1 .. Len(Waiting)
    BY <1>1, <2>2, <2>4, WaitingShrinks
  <2>6. Waiting \in Seq(Faxes \cup {Missing})
    BY <1>0 DEF Waiting, Typed, RecordTypes
  <2>7. Waiting # <<>>
    <3> HIDE DEF Waiting
    <3> QED BY <2>5
  <2>8. Waiting' = Tail(Waiting)
    BY <2>3, <2>5, <2>6, <2>7
  <2>9. UNCHANGED Stored
    BY <2>1 DEF Stored
  <2>10. Inbox!Take
    BY <1>2, <2>7, <2>8, <2>9 DEF Inbox!Take, Waiting, Job, Stored
  <2> QED BY <2>10 DEF Inbox!Next, InboxStep
<1>4. CASE CancelTif
  <2>1. PICK k \in 1 .. Len(list) : list[k] = rx /\ list' = RemoveAt(list, k)
    <3> DEFINE I == {i \in 1 .. Len(list) : list[i] = rx}
    <3>1. I \in SUBSET Nat /\ I # {}
      BY <1>4 DEF CancelTif, Typed, Owned
    <3>2. Min(I) \in I
      <4> HIDE DEF I
      <4> QED BY <3>1, HasMin
    <3> QED BY <1>4, <3>2 DEF CancelTif, Erased
  <2>2. Waiting' = RemoveAt(Waiting, k) /\ k \in 1 .. Len(Waiting) /\ Waiting[k] = file[rx]
    BY <1>1, <2>1, WaitingShrinks
  <2>3. tif' = [tif EXCEPT ![file[rx]] = NoTif]
    BY <1>4 DEF CancelTif
  <2>4. Stored' = Stored \ {file[rx]}
    BY <2>3 DEF Stored, TifTyped
  <2>5. Inbox!Cancel(k)
    BY <1>2, <2>2, <2>4 DEF Inbox!Cancel, Inbox!RemoveAt, RemoveAt, Waiting, Job, Stored
  <2> QED BY <2>2, <2>5 DEF Inbox!Next, InboxStep, Waiting
<1> QED BY <1>3, <1>4

LEMMA CrashInbox == ASSUME Typed, Crash PROVE InboxStep
<1>1. PICK n, found, unread : Restart(n, found, unread)
  BY CrashFinds
<1>2. /\ n \in Nat /\ n <= MaxRec
      /\ found \in [1 .. n -> Stored] /\ Range(found) = Stored
      /\ \A i, j \in 1 .. n : found[i] = found[j] => i = j
      /\ list' = [i \in 1 .. n |-> i]
      /\ file' = [r \in Recs |-> IF r <= n THEN found[r] ELSE Missing]
  BY <1>1 DEF Restart
<1>3. Len(list') = n /\ \A i \in 1 .. n : i \in Recs /\ list'[i] = i /\ i <= n
  BY <1>2, NumberAssumption DEF Recs
<1>4. Waiting' = [i \in 1 .. n |-> file'[list'[i]]]
  BY <1>3 DEF Waiting
<1>5. \A i \in 1 .. n : file'[list'[i]] = found[i]
  BY <1>2, <1>3
<1>6. Waiting' = found
  BY <1>2, <1>4, <1>5
<1>7. Job' = [r \in Recs |-> Missing] /\ UNCHANGED Stored
  BY DEF Crash, Job, Working, Stored
<1>8. IsInjective(found)
  BY <1>2 DEF IsInjective
<1>9. Inbox!Restart
  BY <1>2, <1>6, <1>7, <1>8 DEF Inbox!Restart, Inbox!Idle, Inbox!IsInjective, Inbox!Range,
        IsInjective, Range, Waiting, Job, Stored
<1> QED BY <1>9 DEF Inbox!Next, InboxStep

(* The gateway's faxes wait in the order in which they came or were found, *)
(* leave from the front or with their documents, and are all queued again  *)
(* after a crash, although a cancellation takes two steps, a TID may be    *)
(* announced again at any time, and any call on a file may fail.           *)
(* (TcpSession.cpp:517-551, 609-641, 1136-1174; FileSession.cpp:276-375,   *)
(* 1662-1714)                                                              *)
THEOREM InboxKept == Spec => ImplementsInbox
<1>1. Typed /\ TifTyped /\ [Next]_vars => InboxStep
  <2> SUFFICES ASSUME Typed, TifTyped, [Next]_vars PROVE InboxStep
    OBVIOUS
  <2>1. CASE UNCHANGED vars
    BY <2>1 DEF vars, records, thread, files, InboxStep, Waiting, Job, Stored
  <2>2. ASSUME NEW f \in Faxes, CancelIni(f) PROVE InboxStep
    BY <2>2 DEF CancelIni, records, thread, InboxStep, Waiting, Job, Stored
  <2> QED
    BY <2>1, <2>2, ThreadInbox, AnnounceInbox, LeaveInbox, CrashInbox, NextSteps
<1> QED
  BY <1>1, InitInbox, AlwaysOnce, PTL
     DEF Spec, ImplementsInbox, Inbox!Spec, Inbox!vars, InboxStep, Waiting, Job, Stored
=============================================================================
