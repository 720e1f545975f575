--------------------------- MODULE FaxQueueProofs ---------------------------
(***************************************************************************)
(* Theorems about FaxQueue, for any number of faxes, announcements and     *)
(* clients and any width of the counter, without any condition: its types, *)
(* that the count is right, each fax handed over once and whole but for    *)
(* the named causes, that no fax is stranded, and that FaxQueue implements *)
(* FaxInbox.                                                               *)
(***************************************************************************)
EXTENDS FaxQueue, SequenceTheorems, FiniteSetTheorems, TLAPS

-----------------------------------------------------------------------------
(* Numbers.                                                                *)

(* Arithmetic: n % Mod is in the counter's range, ... *)
LEMMA ModRange == \A n \in Nat : n % Mod \in 0 .. Mod - 1
BY NumberAssumption

(* ... it is the remainder of the division by Mod, ... *)
LEMMA DivMod == \A n \in Nat : /\ n \div Mod \in Nat
                               /\ n = Mod * (n \div Mod) + (n % Mod)
BY NumberAssumption

(* ... and the only one. *)
LEMMA ModUnique ==
    ASSUME NEW q \in Nat, NEW r \in 0 .. Mod - 1, NEW n \in Nat,
           n = Mod * q + r
    PROVE  n % Mod = r
<1> DEFINE p == n \div Mod
           s == n % Mod
<1>1. p \in Nat /\ s \in 0 .. Mod - 1 /\ n = Mod * p + s
  BY DivMod, ModRange
<1> HIDE DEF p, s
<1>2. \A k \in Nat \ {0} : Mod * k >= Mod
  BY NumberAssumption
<1>3. Mod * (p - q) = r - s /\ Mod * (q - p) = s - r
  BY <1>1, NumberAssumption
<1>4. p = q
  <2>1. CASE p > q
    <3>1. p - q \in Nat \ {0}
      BY <1>1, <2>1
    <3>2. Mod * (p - q) >= Mod
      BY <1>2, <3>1
    <3> QED
      BY <1>1, <1>3, <3>2, NumberAssumption
  <2>2. CASE q > p
    <3>1. q - p \in Nat \ {0}
      BY <1>1, <2>2
    <3>2. Mod * (q - p) >= Mod
      BY <1>2, <3>1
    <3> QED
      BY <1>1, <1>3, <3>2, NumberAssumption
  <2> QED
    BY <1>1, <2>1, <2>2
<1>5. s = r
  BY <1>1, <1>3, <1>4, NumberAssumption
<1> QED
  BY <1>5 DEF s

(* Counting up and then wrapping is wrapping and then counting up; ... *)
LEMMA UpMod == \A n \in Nat : Up(n % Mod) = (n + 1) % Mod
<1> SUFFICES ASSUME NEW n \in Nat PROVE Up(n % Mod) = (n + 1) % Mod
  OBVIOUS
<1> DEFINE q == n \div Mod
           r == n % Mod
<1>1. q \in Nat /\ r \in 0 .. Mod - 1 /\ n = Mod * q + r
  BY DivMod, ModRange
<1> HIDE DEF q, r
<1>2. CASE r = Mod - 1
  <2>1. n + 1 = Mod * (q + 1) + 0
    BY <1>1, <1>2, NumberAssumption
  <2>2. (n + 1) % Mod = 0
    BY <1>1, <2>1, ModUnique, NumberAssumption
  <2>3. r + 1 = Mod * 1 + 0
    BY <1>2, NumberAssumption
  <2>4. (r + 1) % Mod = 0
    BY <1>1, <2>3, ModUnique, NumberAssumption
  <2> QED
    BY <2>2, <2>4 DEF Up, r
<1>3. CASE r # Mod - 1
  <2>1. n + 1 = Mod * q + (r + 1) /\ r + 1 \in 0 .. Mod - 1
    BY <1>1, <1>3, NumberAssumption
  <2>2. (n + 1) % Mod = r + 1
    BY <1>1, <2>1, ModUnique, NumberAssumption
  <2>3. r + 1 = Mod * 0 + (r + 1)
    BY <1>1, NumberAssumption
  <2>4. (r + 1) % Mod = r + 1
    BY <1>1, <2>1, <2>3, ModUnique, NumberAssumption
  <2> QED
    BY <2>2, <2>4 DEF Up, r
<1> QED
  BY <1>2, <1>3

(* ... counting down takes a step back, ... *)
LEMMA DownUp == \A r \in 0 .. Mod - 1 : Down(Up(r)) = r
<1> SUFFICES ASSUME NEW r \in 0 .. Mod - 1 PROVE Down(Up(r)) = r
  OBVIOUS
<1>1. CASE r = Mod - 1
  <2>1. Up(r) = 0
    <3>1. r + 1 = Mod * 1 + 0
      BY <1>1, NumberAssumption
    <3> QED
      BY <3>1, ModUnique, NumberAssumption DEF Up
  <2>2. 0 + Mod - 1 = Mod * 0 + (Mod - 1)
    BY NumberAssumption
  <2> QED
    BY <1>1, <2>1, <2>2, ModUnique, NumberAssumption DEF Down
<1>2. CASE r # Mod - 1
  <2>1. Up(r) = r + 1
    <3>1. r + 1 = Mod * 0 + (r + 1) /\ r + 1 \in 0 .. Mod - 1
      BY <1>2, NumberAssumption
    <3> QED
      BY <3>1, ModUnique, NumberAssumption DEF Up
  <2>2. r + 1 + Mod - 1 = Mod * 1 + r /\ r + 1 + Mod - 1 \in Nat
    BY NumberAssumption
  <2>3. (r + 1 + Mod - 1) % Mod = r
    BY <2>2, ModUnique
  <2> QED
    BY <2>1, <2>3 DEF Down
<1> QED
  BY <1>1, <1>2

(* ... also from a number that has wrapped. *)
LEMMA DownMod == \A n \in Nat : Down((n + 1) % Mod) = n % Mod
BY UpMod, DownUp, ModRange

-----------------------------------------------------------------------------
(* Sequences: what RemoveFirst does.                                       *)

(* A set of naturals that is not empty has a least member. *)
LEMMA LeastNatural ==
    ASSUME NEW I \in SUBSET Nat, I # {}
    PROVE  \E x \in I : \A y \in I : x <= y
<1> DEFINE R == {ss \in Nat \X Nat : ss[1] < ss[2]}
<1>1. IsWellFoundedOn(R, Nat)
  BY NatLessThanWellFounded, Zenon DEF OpToRel
<1>2. PICK x \in I : \A y \in I : ~ (<<y, x>> \in R)
  <2> HIDE DEF R
  <2> QED
    BY <1>1, WFMin
<1>3. ASSUME NEW y \in I PROVE x <= y
  <2>1. x \in Nat /\ y \in Nat
    OBVIOUS
  <2>2. y < x => <<y, x>> \in R
    BY <2>1
  <2>3. ~ (<<y, x>> \in R)
    BY <1>2
  <2> HIDE DEF R
  <2> QED
    BY <2>1, <2>2, <2>3
<1> QED
  BY <1>3

(* RemoveFirst(s, e) removes one position, at which s has e. *)
LEMMA RemoveFirstIndex ==
    ASSUME NEW S, NEW s \in Seq(S), NEW e \in Range(s)
    PROVE  \E k \in 1 .. Len(s) : /\ s[k] = e
                                  /\ RemoveFirst(s, e) = RemoveAt(s, k)
<1> DEFINE I == {i \in 1 .. Len(s) : s[i] = e}
<1>1. I # {}
  BY LenProperties DEF Range
<1>2. RemoveFirst(s, e) = RemoveAt(s, SelectInSeq(s, LAMBDA v : v = e))
  BY <1>1 DEF RemoveFirst
<1>3. SelectInSeq(s, LAMBDA v : v = e) = Min(I)
  BY <1>1 DEF SelectInSeq
<1>4. Len(s) \in Nat
  BY LenProperties
<1>5. Min(I) \in I
  <2>1. \E x \in I : \A y \in I : x =< y
    BY <1>1, LeastNatural, I \in SUBSET Nat
  <2> QED
    BY <2>1 DEF Min
<1> QED
  BY <1>2, <1>3, <1>5

(* What is left when one position is removed. *)
LEMMA RemoveAtProperties ==
    ASSUME NEW S, NEW s \in Seq(S), NEW k \in 1 .. Len(s)
    PROVE  /\ RemoveAt(s, k) \in Seq(S)
           /\ Len(RemoveAt(s, k)) = Len(s) - 1
           /\ \A i \in 1 .. Len(s) - 1 :
                  RemoveAt(s, k)[i] = s[IF i < k THEN i ELSE i + 1]
<1> DEFINE a == SubSeq(s, 1, k - 1)
           b == SubSeq(s, k + 1, Len(s))
<1>1. Len(s) \in Nat /\ \A i \in 1 .. Len(s) : s[i] \in S
  BY LenProperties, ElementOfSeq
<1>2. /\ a \in Seq(S) /\ Len(a) = k - 1
      /\ \A i \in 1 .. k - 1 : a[i] = s[i]
  <2>1. \A i \in 1 .. k - 1 : s[i] \in S
    BY <1>1
  <2>2. /\ a \in Seq(S)
        /\ Len(a) = IF 1 <= k - 1 THEN (k - 1) - 1 + 1 ELSE 0
        /\ \A i \in 1 .. (k - 1) - 1 + 1 : a[i] = s[1 + i - 1]
    BY <1>1, <2>1, SubSeqProperties
  <2> QED
    BY <1>1, <2>2
<1>3. /\ b \in Seq(S) /\ Len(b) = Len(s) - k
      /\ \A i \in 1 .. Len(s) - k : b[i] = s[k + i]
  <2>1. \A i \in k + 1 .. Len(s) : s[i] \in S
    BY <1>1
  <2>2. /\ b \in Seq(S)
        /\ Len(b) = IF k + 1 <= Len(s) THEN Len(s) - (k + 1) + 1 ELSE 0
        /\ \A i \in 1 .. Len(s) - (k + 1) + 1 : b[i] = s[k + 1 + i - 1]
    BY <1>1, <2>1, SubSeqProperties
  <2> QED
    BY <1>1, <2>2
<1>4. RemoveAt(s, k) = a \o b
  BY DEF RemoveAt
<1> HIDE DEF a, b
<1>5. /\ a \o b \in Seq(S) /\ Len(a \o b) = Len(a) + Len(b)
      /\ \A i \in 1 .. Len(a) + Len(b) :
             (a \o b)[i] = IF i <= Len(a) THEN a[i] ELSE b[i - Len(a)]
  BY <1>2, <1>3, ConcatProperties
<1> QED
  BY <1>1, <1>2, <1>3, <1>4, <1>5

(* RemoveFirst(s, e) is one shorter and has the same members but for e; *)
(* ...                                                                  *)
LEMMA RemoveFirstProperties ==
    ASSUME NEW S, NEW s \in Seq(S), NEW e \in Range(s)
    PROVE  LET t == RemoveFirst(s, e) IN
           /\ t \in Seq(S)
           /\ Len(t) = Len(s) - 1
           /\ Range(t) \subseteq Range(s)
           /\ Range(s) \subseteq Range(t) \cup {e}
<1> DEFINE t == RemoveFirst(s, e)
<1>1. PICK k \in 1 .. Len(s) : s[k] = e /\ t = RemoveAt(s, k)
  BY RemoveFirstIndex
<1>2. /\ t \in Seq(S) /\ Len(t) = Len(s) - 1
      /\ \A i \in 1 .. Len(s) - 1 : t[i] = s[IF i < k THEN i ELSE i + 1]
  BY <1>1, RemoveAtProperties
<1> HIDE DEF t
<1>3. /\ Len(s) \in Nat
      /\ DOMAIN s = 1 .. Len(s) /\ DOMAIN t = 1 .. Len(s) - 1
  BY <1>2, LenProperties
<1>4. Range(t) \subseteq Range(s)
  BY <1>2, <1>3 DEF Range
<1>5. Range(s) \subseteq Range(t) \cup {e}
  <2> SUFFICES ASSUME NEW i \in 1 .. Len(s), i # k
               PROVE  \E j \in 1 .. Len(s) - 1 : t[j] = s[i]
    BY <1>1, <1>3 DEF Range
  <2>1. CASE i < k
    <3>1. i \in 1 .. Len(s) - 1
      BY <1>3, <2>1
    <3>2. t[i] = s[i]
      BY <1>2, <2>1, <3>1
    <3> QED
      BY <3>1, <3>2
  <2>2. CASE i > k
    <3>1. i - 1 \in 1 .. Len(s) - 1 /\ ~ (i - 1 < k) /\ (i - 1) + 1 = i
      BY <1>3, <2>2
    <3>2. t[i - 1] = s[i]
      BY <1>2, <3>1
    <3> QED
      BY <3>1, <3>2
  <2> QED
    BY <1>3, <2>1, <2>2
<1> QED
  BY <1>2, <1>4, <1>5 DEF t

(* ... and what it had once, but for e, it has once; e no more. *)
LEMMA RemoveFirstOnce ==
    ASSUME NEW S, NEW s \in Seq(S), NEW e \in Range(s), NEW T, OnceBut(s, T)
    PROVE  /\ OnceBut(RemoveFirst(s, e), T)
           /\ e \in Range(RemoveFirst(s, e)) => e \in T
<1> DEFINE t == RemoveFirst(s, e)
<1>1. PICK k \in 1 .. Len(s) : s[k] = e /\ t = RemoveAt(s, k)
  BY RemoveFirstIndex
<1>2. /\ t \in Seq(S) /\ Len(t) = Len(s) - 1
      /\ \A i \in 1 .. Len(s) - 1 : t[i] = s[IF i < k THEN i ELSE i + 1]
  BY <1>1, RemoveAtProperties
<1> HIDE DEF t
<1>3. /\ Len(s) \in Nat
      /\ DOMAIN s = 1 .. Len(s) /\ DOMAIN t = 1 .. Len(s) - 1
  BY <1>2, LenProperties
<1> DEFINE at(i) == IF i < k THEN i ELSE i + 1
<1>4. \A i \in 1 .. Len(s) - 1 :
          at(i) \in 1 .. Len(s) /\ at(i) # k /\ t[i] = s[at(i)]
  BY <1>2, <1>3
<1>5. \A i, j \in 1 .. Len(s) - 1 : at(i) = at(j) => i = j
  BY <1>3
<1> HIDE DEF at
<1>6. \A i, j \in 1 .. Len(s) : s[i] = s[j] => i = j \/ s[i] \in T
  BY <1>3 DEF OnceBut
<1>7. OnceBut(t, T)
  <2> SUFFICES ASSUME NEW i \in 1 .. Len(s) - 1, NEW j \in 1 .. Len(s) - 1,
                      t[i] = t[j], t[i] \notin T
               PROVE  i = j
    BY <1>3 DEF OnceBut
  <2>1. at(i) = at(j)
    BY <1>4, <1>6
  <2> QED
    BY <1>5, <2>1
<1>8. e \in Range(t) => e \in T
  <2> SUFFICES ASSUME NEW i \in 1 .. Len(s) - 1, t[i] = e
               PROVE  e \in T
    BY <1>3 DEF Range
  <2> QED
    BY <1>1, <1>4, <1>6
<1> QED
  BY <1>7, <1>8 DEF t

(* The members of a sequence one longer. *)
LEMMA AppendRange ==
    ASSUME NEW S, NEW s \in Seq(S), NEW e \in S
    PROVE  /\ Append(s, e) \in Seq(S)
           /\ Len(Append(s, e)) = Len(s) + 1
           /\ Range(Append(s, e)) = Range(s) \cup {e}
<1> DEFINE t == Append(s, e)
<1>1. /\ t \in Seq(S) /\ Len(t) = Len(s) + 1
      /\ \A i \in 1 .. Len(s) : t[i] = s[i]
      /\ t[Len(s) + 1] = e
  BY AppendProperties
<1> HIDE DEF t
<1>2. /\ Len(s) \in Nat
      /\ DOMAIN s = 1 .. Len(s) /\ DOMAIN t = 1 .. Len(s) + 1
  BY <1>1, LenProperties
<1>3. Range(t) = Range(s) \cup {e}
  BY <1>1, <1>2 DEF Range
<1> QED
  BY <1>1, <1>3 DEF t

(* What it has once. *)
LEMMA AppendOnce ==
    ASSUME NEW S, NEW s \in Seq(S), NEW e \in S, NEW T, NEW U,
           OnceBut(s, T), T \subseteq U, e \in Range(s) => e \in U
    PROVE  OnceBut(Append(s, e), U)
<1> DEFINE t == Append(s, e)
<1>1. /\ t \in Seq(S) /\ Len(t) = Len(s) + 1
      /\ \A i \in 1 .. Len(s) : t[i] = s[i]
      /\ t[Len(s) + 1] = e
  BY AppendProperties
<1> HIDE DEF t
<1>2. /\ Len(s) \in Nat
      /\ DOMAIN s = 1 .. Len(s) /\ DOMAIN t = 1 .. Len(s) + 1
  BY <1>1, LenProperties
<1>3. OnceBut(t, U)
  BY <1>1, <1>2 DEF OnceBut, Range
<1> QED
  BY <1>3 DEF t

(* The empty sequence. *)
LEMMA EmptySequence ==
    /\ <<>> \in Seq(Faxes) /\ Len(<<>>) = 0 /\ Range(<<>>) = {}
    /\ IsInjective(<<>>)
BY EmptySeq DEF Range, IsInjective

LEMMA EmptyOnce == ASSUME NEW T PROVE OnceBut(<<>>, T)
BY EmptySeq DEF OnceBut

-----------------------------------------------------------------------------
(* Types.                                                                  *)

(* TypeOK is not inductive: Cardinality(scanned) is a number only if the   *)
(* scan has read finitely many files, what a client sends must be a fax,   *)
(* and a download that is under way has one.                               *)
TypeInv ==
    /\ TypeOK
    /\ IsFiniteSet(scanned)
    /\ \A c \in Clients : client[c] = "send" => iter[c] \in Faxes
    /\ \A j \in Jobs : fax[j] = NoOne <=> stage[j] \in {"none", "over"}

(* The initial states have their types. *)
LEMMA InitTypeInv == Init => TypeInv
<1>1. 0 \in 0 .. Mod - 1 /\ 0 \in 0 .. MaxCrash
  BY NumberAssumption
<1>2. Init => TypeOK
  BY <1>1, SetAssumption, EmptySequence DEF Init, TypeOK, Stages
<1> QED
  BY <1>2, FS_EmptySet DEF Init, TypeInv

(* The counter's range. *)
LEMMA CountType == \A n \in Nat : Up(n) \in 0 .. Mod - 1 /\ Down(n) \in 0 .. Mod - 1
BY ModRange, NumberAssumption DEF Up, Down

(* Types, for the listen thread, ... *)
LEMMA ListenTypeOK == TypeInv /\ Listen => TypeOK'
<1> SUFFICES ASSUME TypeInv, TypeOK, Listen PROVE TypeOK'
  BY DEF TypeInv
<1> USE DEF queue, startup, jobs, files, clients, causes
<1>1. CASE ScanFile
  <2>1. PICK f \in tif \ scanned : /\ scanned' = scanned \cup {f}
                                   /\ list' = Append(list, f)
                                   /\ twice' = twice \cup ({f} \cap (Queued \cup Incoming))
    BY <1>1 DEF ScanFile
  <2>2. f \in Faxes
    BY DEF TypeOK
  <2>3. list' \in Seq(Faxes) /\ scanned' \subseteq Faxes /\ twice' \subseteq Faxes
    BY <2>1, <2>2, AppendRange DEF TypeOK
  <2> QED
    BY <1>1, <2>3 DEF ScanFile, TypeOK
<1>2. CASE ScanEnd
  BY <1>2 DEF ScanEnd, TypeOK
<1>3. CASE ScanNone
  <2>1. Incoming \subseteq Faxes
    BY DEF Incoming, Range, TypeOK
  <2> QED
    BY <1>3, <2>1 DEF ScanNone, TypeOK
<1>4. CASE AssignCount
  <2>1. g_nReceive' \in 0 .. Mod - 1
    BY <1>4, FS_CardinalityType, ModRange DEF AssignCount, TypeInv
  <2> QED
    BY <1>4, <2>1 DEF AssignCount, TypeOK
<1> QED
  BY <1>1, <1>2, <1>3, <1>4 DEF Listen

(* ... for the center, ... *)
LEMMA CenterTypeOK ==
    ASSUME TypeInv, NEW f \in Faxes,
           onLCRCancelReply(f) \/ \E j \in Jobs : onRecvRequestReply(j, f)
    PROVE  TypeOK'
<1> USE DEF queue, startup, jobs, files, clients, Stages
<1>1. TypeOK
  BY DEF TypeInv
<1>2. ASSUME NEW j \in Jobs, onRecvRequestReply(j, f) PROVE TypeOK'
  <2>1. ini' \subseteq Faxes /\ twice' \subseteq Faxes /\ damaged' \subseteq Faxes
    BY <1>1, <1>2 DEF onRecvRequestReply, TypeOK
  <2> QED
    BY <1>1, <1>2, <2>1 DEF onRecvRequestReply, TypeOK
<1>3. CASE onLCRCancelReply(f)
  <2>1. list' \in Seq(Faxes) /\ g_nReceive' \in 0 .. Mod - 1
    BY <1>1, <1>3, RemoveFirstProperties, CountType
       DEF onLCRCancelReply, Removed, Queued, TypeOK
  <2> QED
    BY <1>1, <1>3, <2>1 DEF onLCRCancelReply, Races, TypeOK
<1> QED
  BY <1>2, <1>3

(* ... for a download, ... *)
LEMMA DownloadTypeOK ==
    ASSUME TypeInv, NEW j \in Jobs, Download(j) PROVE TypeOK'
<1> USE DEF queue, startup, jobs, files, clients, causes, Stages, Goes, Ends
<1>1. TypeOK
  BY DEF TypeInv
<1>2. stage[j] \notin {"none", "over"} /\ fax[j] \in Faxes
  BY <1>1 DEF Download, OpenFile, DownloadEnds, CopyBegins, CopyEnds, CopyFails,
              StopSend, Landed, TypeInv, TypeOK
<1>3. CASE OpenFile(j) \/ DownloadEnds(j)
  BY <1>1, <1>2, <1>3 DEF OpenFile, DownloadEnds, TypeOK
<1>4. CASE CopyBegins(j) \/ CopyEnds(j) \/ CopyFails(j)
  BY <1>1, <1>2, <1>4 DEF CopyBegins, CopyEnds, CopyFails, TypeOK
<1>5. CASE StopSend(j)
  <2>1. list' \in Seq(Faxes) /\ g_nReceive' \in 0 .. Mod - 1
    BY <1>1, <1>2, <1>5, AppendRange, CountType DEF StopSend, TypeOK
  <2> QED
    BY <1>1, <1>2, <1>5, <2>1 DEF StopSend, Races, TypeOK
<1> QED
  BY <1>3, <1>4, <1>5 DEF Download

(* ... for a client, ... *)
LEMMA ClientTypeOK ==
    ASSUME TypeInv, NEW c \in Clients, ClientStep(c) PROVE TypeOK'
<1> USE DEF queue, startup, jobs, files, clients, causes
<1>1. TypeOK
  BY DEF TypeInv
<1>2. CASE Connect(c) \/ Disconnect(c) \/ RequestRecv(c) \/ AnswerEmpty(c) \/ Unlock(c)
  BY <1>1, <1>2 DEF Connect, Disconnect, RequestRecv, AnswerEmpty, Unlock, TypeOK
<1>3. CASE Lock(c)
  <2>1. list # <<>> => Head(list) \in Faxes
    BY <1>1 DEF TypeOK
  <2> QED
    BY <1>1, <1>3, <2>1 DEF Lock, TypeOK
<1>4. CASE SendFax(c)
  <2>1. iter[c] \in Faxes
    BY <1>4 DEF SendFax, TypeInv
  <2>2. list' \in Seq(Faxes)
    <3>1. CASE iter[c] \in Range(list)
      BY <1>1, <1>4, <3>1, RemoveFirstProperties DEF SendFax, TypeOK
    <3>2. CASE iter[c] \notin Range(list)
      BY <1>1, <1>4, <3>2, LenProperties DEF SendFax, RemoveFirst, Range, TypeOK
    <3> QED
      BY <3>1, <3>2
  <2>3. out' \in Seq(Faxes)
    BY <1>1, <1>4, <2>1, AppendRange DEF SendFax, TypeOK
  <2>4. g_nReceive' \in 0 .. Mod - 1
    BY <1>1, <1>4, CountType DEF SendFax, Removed, TypeOK
  <2> QED
    BY <1>1, <1>4, <2>2, <2>3, <2>4 DEF SendFax, TypeOK
<1>5. CASE SendFails(c)
  BY <1>1, <1>5 DEF SendFails, KeepFax, TypeOK
<1> QED
  BY <1>2, <1>3, <1>4, <1>5 DEF ClientStep

(* ... and for a restart. *)
LEMMA RestartTypeOK == TypeInv /\ Restart => TypeOK'
<1> SUFFICES ASSUME TypeInv, TypeOK, Restart PROVE TypeOK'
  BY DEF TypeInv
<1>1. \A i \in Jobs : stage[i] = "copying" => fax[i] \in Faxes
  BY DEF TypeInv, TypeOK
<1>2. PICK half \in {{}} \cup {{f} : f \in {g \in Queued : lock = NoOne}} :
          /\ ini' = ini \ half
          /\ damaged' = damaged \cup twice \cup half
                        \cup {fax[j] : j \in {i \in Jobs : stage[i] = "copying"}}
  BY DEF Restart
<1>3. Queued \subseteq Faxes
  BY RangeOfSeq DEF Queued, TypeOK
<1>4. ini' \subseteq Faxes /\ damaged' \subseteq Faxes
  BY <1>1, <1>2, <1>3 DEF TypeOK
<1>5. 0 \in 0 .. Mod - 1 /\ crashes' \in 0 .. MaxCrash
  BY NumberAssumption DEF Restart, TypeOK
<1>6. list' \in Seq(Faxes) /\ out' \in Seq(Faxes)
  BY EmptySequence DEF Restart
<1> QED
  BY <1>4, <1>5, <1>6 DEF Restart, TypeOK, Stages

(* TypeInv is inductive. *)
LEMMA TypeStep == TypeInv /\ [Next]_vars => TypeInv'
<1> SUFFICES ASSUME TypeInv, [Next]_vars PROVE TypeInv'
  OBVIOUS
<1> USE DEF queue, startup, jobs, files, clients, causes
<1>1. TypeOK
  BY DEF TypeInv
<1>2. CASE UNCHANGED vars
  BY <1>2 DEF vars, TypeInv, TypeOK
<1>3. CASE Listen
  <2>1. IsFiniteSet(scanned')
    <3>1. IsFiniteSet(scanned)
      BY DEF TypeInv
    <3>2. CASE ScanFile
      BY <3>1, <3>2, FS_AddElement DEF ScanFile
    <3>3. CASE ScanEnd \/ ScanNone
      BY <3>1, <3>3 DEF ScanEnd, ScanNone
    <3>4. CASE AssignCount
      BY <3>4, FS_EmptySet DEF AssignCount
    <3> QED
      BY <1>3, <3>2, <3>3, <3>4 DEF Listen
  <2>2. UNCHANGED <<client, iter, jobs>>
    BY <1>3 DEF Listen, ScanFile, ScanEnd, ScanNone, AssignCount
  <2> QED
    BY <1>3, <2>1, <2>2, ListenTypeOK DEF TypeInv
<1>4. ASSUME NEW f \in Faxes,
             onLCRCancelReply(f) \/ \E j \in Jobs : onRecvRequestReply(j, f)
      PROVE  TypeInv'
  <2>1. UNCHANGED <<scanned, client, iter>>
    BY <1>4 DEF onRecvRequestReply, onLCRCancelReply
  <2>2. \A i \in Jobs : fax'[i] = NoOne <=> stage'[i] \in {"none", "over"}
    BY <1>1, <1>4, SetAssumption
       DEF onRecvRequestReply, onLCRCancelReply, TypeInv, TypeOK
  <2> QED
    BY <1>4, <2>1, <2>2, CenterTypeOK DEF TypeInv
<1>5. ASSUME NEW j \in Jobs, Download(j) PROVE TypeInv'
  <2>1. UNCHANGED <<scanned, client, iter>>
    BY <1>5 DEF Download, OpenFile, DownloadEnds, CopyBegins, CopyEnds, CopyFails,
                StopSend
  <2>2. \A i \in Jobs : fax'[i] = NoOne <=> stage'[i] \in {"none", "over"}
    BY <1>1, <1>5
       DEF Download, OpenFile, DownloadEnds, CopyBegins, CopyEnds, CopyFails,
           StopSend, Landed, Goes, Ends, TypeInv, TypeOK
  <2> QED
    BY <1>5, <2>1, <2>2, DownloadTypeOK DEF TypeInv
<1>6. ASSUME NEW c \in Clients, ClientStep(c) PROVE TypeInv'
  <2>1. UNCHANGED <<scanned, jobs>>
    BY <1>6 DEF ClientStep, Connect, Disconnect, RequestRecv, AnswerEmpty, Lock,
                SendFax, SendFails, Unlock
  <2>2. \A d \in Clients : client'[d] = "send" => iter'[d] \in Faxes
    <3>1. CASE Lock(c)
      <4>1. list # <<>> => Head(list) \in Faxes
        BY <1>1 DEF TypeOK
      <4> QED
        BY <1>1, <3>1, <4>1 DEF Lock, TypeOK, TypeInv
    <3>2. CASE ~Lock(c)
      BY <1>1, <1>6, <3>2
         DEF ClientStep, Connect, Disconnect, RequestRecv, AnswerEmpty,
             SendFax, SendFails, Unlock, TypeOK, TypeInv
    <3> QED
      BY <3>1, <3>2
  <2> QED
    BY <1>6, <2>1, <2>2, ClientTypeOK DEF TypeInv
<1>7. CASE Restart
  BY <1>1, <1>7, RestartTypeOK, FS_EmptySet DEF Restart, TypeInv
<1> QED
  BY <1>2, <1>3, <1>4, <1>5, <1>6, <1>7 DEF Next, Center

(* The variables keep their types, through crashes and restarts, and with  *)
(* a center that talks during the scan: in particular the counter stays in *)
(* its range, and what a client sends is a fax, never the end of the list. *)
(* (FileSession.cpp:1660-1714)                                             *)
THEOREM TypeCorrect == Spec => []TypeOK
<1>1. TypeInv => TypeOK
  BY DEF TypeInv
<1> QED
  BY InitTypeInv, TypeStep, <1>1, PTL DEF Spec

-----------------------------------------------------------------------------
(* The argument for the queue.  Until the gateway listens there are no     *)
(* clients, and, unless somebody else has changed it, the list is what the *)
(* scan has read; ...                                                      *)
StartInv ==
    main # "listen" =>
        /\ \A c \in Clients : client[c] = "gone"
        /\ lock = NoOne /\ out = <<>>
        /\ ~raced => Len(list) = Cardinality(scanned)

(* ... a client that is sending holds the lock, so that its fax stays in   *)
(* the list; ...                                                           *)
LockInv ==
    \A c \in Clients :
        /\ client[c] \in {"send", "unlock"} => lock = c
        /\ client[c] = "send" => iter[c] \in Range(list)

(* ... the counter is right; and a fax that did not come in twice is in    *)
(* one place: on its way in one download, or in the list, or handed over.  *)
OnceInv ==
    /\ OnceBut(list, twice) /\ OnceBut(out, twice)
    /\ Range(list) \cap Range(out) \subseteq twice
    /\ \A j \in Jobs : fax[j] \in Faxes \ twice => fax[j] \notin Range(list) \cup Range(out)
    /\ \A i, j \in Jobs : fax[i] = fax[j] /\ fax[i] \in Faxes \ twice => i = j

QueueInv == StartInv /\ LockInv /\ CountIsLength /\ OnceInv

(* The initial states satisfy the invariant. *)
LEMMA InitQueueInv == Init => QueueInv
BY EmptySequence, EmptyOnce, FS_EmptySet, SetAssumption
   DEF Init, QueueInv, StartInv, LockInv, CountIsLength, OnceInv

(* What is removed from a list that is as long as the counter says. *)
LEMMA RemovedCount ==
    ASSUME NEW n \in Nat, n > 0, g_nReceive = n % Mod, Removed
    PROVE  g_nReceive' = (n - 1) % Mod
<1>1. n - 1 \in Nat /\ (n - 1) + 1 = n
  OBVIOUS
<1>2. Down(((n - 1) + 1) % Mod) = (n - 1) % Mod
  BY <1>1, DownMod
<1> QED
  BY <1>1, <1>2 DEF Removed

(* Each step of the listen thread keeps the invariant; ... *)
LEMMA ListenQueueInv == TypeInv /\ QueueInv /\ Listen => QueueInv'
<1> SUFFICES ASSUME TypeInv, QueueInv, Listen PROVE QueueInv'
  OBVIOUS
<1> USE DEF queue, startup, jobs, files, clients, causes
<1>1. TypeOK /\ StartInv /\ LockInv /\ OnceInv
  BY DEF TypeInv, QueueInv
<1>2. main # "listen"
  BY DEF Listen, ScanFile, ScanEnd, ScanNone, AssignCount
<1>3. LockInv'
  BY <1>1, <1>2 DEF Listen, ScanFile, ScanEnd, ScanNone, AssignCount, StartInv,
                    LockInv
<1>4. CASE ScanFile
  <2>1. PICK f \in tif \ scanned : /\ scanned' = scanned \cup {f}
                                   /\ list' = Append(list, f)
                                   /\ twice' = twice \cup ({f} \cap (Queued \cup Incoming))
    BY <1>4 DEF ScanFile
  <2>2. f \in Faxes /\ out = <<>> /\ Range(out) = {} /\ list \in Seq(Faxes)
    BY <1>1, <1>2, <2>1, EmptySequence DEF TypeOK, StartInv
  <2>3. Len(list') = Len(list) + 1 /\ Range(list') = Range(list) \cup {f}
    BY <2>1, <2>2, AppendRange
  <2>4. twice \subseteq twice' /\ (f \in Range(list) => f \in twice')
    BY <2>1 DEF Queued
  <2>5. OnceBut(list', twice')
    <3>1. OnceBut(list, twice)
      BY <1>1 DEF OnceInv
    <3>2. OnceBut(Append(list, f), twice')
      BY <2>2, <2>4, <3>1, AppendOnce
    <3> QED
      BY <2>1, <3>2
  <2>6. Cardinality(scanned') = Cardinality(scanned) + 1
    BY <2>1, FS_AddElement DEF TypeInv
  <2>7. StartInv'
    BY <1>1, <1>2, <1>4, <2>3, <2>6 DEF ScanFile, StartInv
  <2>8. OnceBut(out', twice')
    BY <1>4, <2>2, EmptyOnce DEF ScanFile
  <2>9. \A j \in Jobs : fax[j] \in Faxes \ twice' =>
            /\ fax[j] \in Faxes \ twice
            /\ fax[j] # f
    <3> SUFFICES ASSUME NEW j \in Jobs, fax[j] \in Faxes \ twice', fax[j] = f
                 PROVE  FALSE
      BY <2>4
    <3>1. f \in Incoming
      BY <1>1, <2>2, SetAssumption DEF Incoming, Range, TypeOK
    <3> QED
      BY <2>1, <3>1
  <2>10. UNCHANGED <<fax, out>>
    BY <1>4 DEF ScanFile
  <2>11. OnceInv'
    BY <1>1, <2>2, <2>3, <2>5, <2>8, <2>9, <2>10 DEF OnceInv
  <2>12. CountIsLength'
    BY <1>2, <1>4 DEF ScanFile, CountIsLength
  <2> QED
    BY <1>3, <2>7, <2>11, <2>12 DEF QueueInv
<1>5. CASE ScanEnd \/ ScanNone
  BY <1>1, <1>2, <1>3, <1>5
     DEF ScanEnd, ScanNone, StartInv, OnceInv, CountIsLength, QueueInv
<1>6. CASE AssignCount
  <2>1. CountIsLength'
    BY <1>1, <1>2, <1>6 DEF AssignCount, StartInv, CountIsLength
  <2> QED
    BY <1>1, <1>3, <1>6, <2>1 DEF AssignCount, StartInv, OnceInv, QueueInv
<1> QED
  BY <1>4, <1>5, <1>6 DEF Listen

(* ... so does an announcement, ... *)
LEMMA AnnounceQueueInv ==
    ASSUME TypeInv, QueueInv, NEW f \in Faxes, NEW j \in Jobs, onRecvRequestReply(j, f)
    PROVE  QueueInv'
<1> USE DEF queue, startup, jobs, clients
<1>1. TypeOK /\ StartInv /\ LockInv /\ OnceInv /\ CountIsLength
  BY DEF TypeInv, QueueInv
<1>2. /\ UNCHANGED <<queue, startup, clients, raced>>
      /\ fax' = [fax EXCEPT ![j] = f]
      /\ twice' = IF Known(f) THEN twice \cup {f} ELSE twice \ {f}
  BY DEF onRecvRequestReply
<1>3. StartInv' /\ LockInv' /\ CountIsLength'
  BY <1>1, <1>2 DEF StartInv, LockInv, CountIsLength
<1>4. /\ twice \ {f} \subseteq twice'
      /\ f \notin twice' =>
            /\ f \notin Range(list) \cup Range(out)
            /\ \A i \in Jobs : fax[i] # f
      /\ \A g \in Faxes \ {f} : g \in twice <=> g \in twice'
      /\ f \in twice => f \in twice' \/ f \notin Range(list) \cup Range(out)
  BY <1>1, <1>2, SetAssumption DEF Known, Queued, HandedOver, Incoming, Range, TypeOK
<1>5. OnceBut(list, twice') /\ OnceBut(out, twice')
  BY <1>1, <1>4, LenProperties DEF OnceInv, OnceBut, Range, TypeOK
<1>6. Range(list) \cap Range(out) \subseteq twice'
  BY <1>1, <1>4 DEF OnceInv
<1>7. \A i \in Jobs : fax'[i] \in Faxes \ twice' => fax'[i] \notin Range(list) \cup Range(out)
  BY <1>1, <1>2, <1>4 DEF OnceInv, TypeOK
<1>8. \A h, i \in Jobs : fax'[h] = fax'[i] /\ fax'[h] \in Faxes \ twice' => h = i
  BY <1>1, <1>2, <1>4 DEF OnceInv, TypeOK
<1>9. OnceInv'
  BY <1>2, <1>5, <1>6, <1>7, <1>8 DEF OnceInv
<1> QED
  BY <1>3, <1>9 DEF QueueInv

(* ... a cancellation, ... *)
LEMMA CancelQueueInv ==
    ASSUME TypeInv, QueueInv, NEW f \in Faxes, onLCRCancelReply(f)
    PROVE  QueueInv'
<1> USE DEF queue, startup, jobs, clients
<1>1. TypeOK /\ StartInv /\ LockInv /\ OnceInv /\ CountIsLength
  BY DEF TypeInv, QueueInv
<1>2. /\ lock = NoOne /\ lock' = lock /\ f \in Range(list)
      /\ list' = RemoveFirst(list, f) /\ Removed /\ Races
      /\ UNCHANGED <<main, scanned, fax, clients, twice>>
  BY DEF onLCRCancelReply, Queued
<1>3. Len(list') = Len(list) - 1 /\ Range(list') \subseteq Range(list)
  BY <1>1, <1>2, RemoveFirstProperties DEF TypeOK
<1>4. OnceBut(list', twice)
  BY <1>1, <1>2, RemoveFirstOnce DEF TypeOK, OnceInv
<1>5. StartInv'
  BY <1>1, <1>2 DEF StartInv, Races
<1>6. LockInv'
  BY <1>1, <1>2, SetAssumption DEF LockInv
<1>7. Len(list) \in Nat /\ Len(list) > 0
  BY <1>1, <1>2, LenProperties DEF TypeOK, Range
<1>8. CountIsLength'
  <2> SUFFICES ASSUME main = "listen", ~raced PROVE g_nReceive' = Len(list') % Mod
    BY <1>1, <1>2 DEF CountIsLength, Races, TypeOK
  <2> QED
    BY <1>1, <1>2, <1>3, <1>7, RemovedCount DEF CountIsLength
<1>9. OnceInv'
  BY <1>1, <1>2, <1>3, <1>4 DEF OnceInv
<1> QED
  BY <1>5, <1>6, <1>8, <1>9 DEF QueueInv

(* ... each step of a download, ... *)
LEMMA DownloadQueueInv ==
    ASSUME TypeInv, QueueInv, NEW j \in Jobs, Download(j)
    PROVE  QueueInv'
<1> USE DEF queue, startup, jobs, files, clients, causes, Goes, Ends
<1>1. TypeOK /\ StartInv /\ LockInv /\ OnceInv /\ CountIsLength
  BY DEF TypeInv, QueueInv
<1>2. stage[j] \notin {"none", "over"} /\ fax[j] \in Faxes
  BY <1>1 DEF Download, OpenFile, DownloadEnds, CopyBegins, CopyEnds, CopyFails,
              StopSend, Landed, TypeInv, TypeOK
<1>3. CASE ~StopSend(j)
  <2>1. /\ UNCHANGED <<queue, startup, clients, twice, raced>>
        /\ \A i \in Jobs : fax'[i] \in Faxes => fax'[i] = fax[i]
    BY <1>1, <1>3, SetAssumption
       DEF Download, OpenFile, DownloadEnds, CopyBegins, CopyEnds, CopyFails, TypeOK
  <2>2. OnceInv'
    BY <1>1, <2>1 DEF OnceInv
  <2> QED
    BY <1>1, <2>1, <2>2 DEF StartInv, LockInv, CountIsLength, QueueInv
<1>4. CASE StopSend(j)
  <2>1. /\ list' = Append(list, fax[j]) /\ g_nReceive' = Up(g_nReceive) /\ Races
        /\ fax' = [fax EXCEPT ![j] = NoOne]
        /\ UNCHANGED <<lock, startup, clients, twice>>
    BY <1>4 DEF StopSend
  <2>2. /\ Len(list') = Len(list) + 1 /\ Range(list') = Range(list) \cup {fax[j]}
        /\ list \in Seq(Faxes) /\ Len(list) \in Nat
    BY <1>1, <1>2, <2>1, AppendRange, LenProperties DEF TypeOK
  <2>3. fax[j] \notin twice => fax[j] \notin Range(list) \cup Range(out)
    BY <1>1, <1>2 DEF OnceInv
  <2>4. OnceBut(list', twice)
    BY <1>1, <1>2, <2>1, <2>2, <2>3, AppendOnce DEF OnceInv
  <2>5. StartInv'
    BY <1>1, <2>1 DEF StartInv, Races
  <2>6. LockInv'
    BY <1>1, <2>1, <2>2 DEF LockInv
  <2>7. CountIsLength'
    <3> SUFFICES ASSUME main = "listen", ~raced PROVE g_nReceive' = Len(list') % Mod
      BY <1>1, <2>1 DEF CountIsLength, Races, TypeOK
    <3> QED
      BY <1>1, <2>1, <2>2, UpMod DEF CountIsLength
  <2>8. \A i \in Jobs : fax'[i] \in Faxes \ twice =>
            fax'[i] = fax[i] /\ fax[i] # fax[j]
    BY <1>1, <1>2, <2>1, SetAssumption DEF OnceInv, TypeOK
  <2>9. OnceInv'
    BY <1>1, <2>1, <2>2, <2>3, <2>4, <2>8 DEF OnceInv
  <2> QED
    BY <2>5, <2>6, <2>7, <2>9 DEF QueueInv
<1> QED
  BY <1>3, <1>4

(* ... of a client, ... *)
LEMMA ClientQueueInv ==
    ASSUME TypeInv, QueueInv, NEW c \in Clients, ClientStep(c) PROVE QueueInv'
<1> USE DEF queue, startup, jobs, files, clients, causes
<1>1. TypeOK /\ StartInv /\ LockInv /\ OnceInv /\ CountIsLength
  BY DEF TypeInv, QueueInv
<1>2. main = "listen"
  BY <1>1 DEF ClientStep, Connect, Disconnect, RequestRecv, AnswerEmpty, Lock,
              SendFax, SendFails, Unlock, StartInv
<1>3. main' = "listen" /\ StartInv' /\ UNCHANGED <<jobs, causes>>
  BY <1>2 DEF ClientStep, Connect, Disconnect, RequestRecv, AnswerEmpty, Lock,
              SendFax, SendFails, Unlock, StartInv
<1>4. CASE Connect(c) \/ Disconnect(c) \/ RequestRecv(c) \/ AnswerEmpty(c)
  <2>1. /\ UNCHANGED <<queue, iter, out>>
        /\ \A d \in Clients : client'[d] \in {"send", "unlock"} => client'[d] = client[d]
    BY <1>1, <1>4 DEF Connect, Disconnect, RequestRecv, AnswerEmpty, TypeOK
  <2> QED
    BY <1>1, <1>2, <1>3, <2>1 DEF LockInv, OnceInv, CountIsLength, QueueInv
<1>5. CASE Lock(c)
  <2>1. UNCHANGED <<list, g_nReceive, out>> /\ lock = NoOne /\ lock' = c
    BY <1>5 DEF Lock, LockFree
  <2>2. list # <<>> => Head(list) \in Range(list)
    BY <1>1, LenProperties DEF TypeOK, Range
  <2>3. \A d \in Clients : client[d] \notin {"send", "unlock"}
    BY <1>1, <2>1, SetAssumption DEF LockInv
  <2>4. LockInv'
    BY <1>1, <1>5, <2>1, <2>2, <2>3 DEF Lock, LockInv, TypeOK
  <2> QED
    BY <1>1, <1>2, <1>3, <2>1, <2>4 DEF OnceInv, CountIsLength, QueueInv
<1>6. CASE SendFax(c)
  <2>1. /\ lock = c /\ lock' = lock /\ iter[c] \in Range(list)
        /\ list' = RemoveFirst(list, iter[c]) /\ Removed
        /\ out' = Append(out, iter[c]) /\ iter[c] \in Faxes
        /\ client[c] = "send" /\ client' = [client EXCEPT ![c] = "unlock"]
    BY <1>1, <1>6 DEF SendFax, LockInv, TypeInv
  <2>2. Len(list') = Len(list) - 1 /\ Range(list') \subseteq Range(list)
    BY <1>1, <2>1, RemoveFirstProperties DEF TypeOK
  <2>3. OnceBut(list', twice) /\ (iter[c] \in Range(list') => iter[c] \in twice)
    BY <1>1, <2>1, RemoveFirstOnce DEF TypeOK, OnceInv
  <2>4. Range(out') = Range(out) \cup {iter[c]}
    BY <1>1, <2>1, AppendRange DEF TypeOK
  <2>5. iter[c] \in Range(out) => iter[c] \in twice
    BY <1>1, <2>1 DEF OnceInv
  <2>6. OnceBut(out', twice)
    BY <1>1, <2>1, <2>5, AppendOnce DEF TypeOK, OnceInv
  <2>7. LockInv'
    BY <1>1, <2>1 DEF LockInv, TypeOK
  <2>8. Len(list) \in Nat /\ Len(list) > 0
    BY <1>1, <2>1, LenProperties DEF TypeOK, Range
  <2>9. CountIsLength'
    BY <1>1, <1>2, <1>3, <2>1, <2>2, <2>8, RemovedCount DEF CountIsLength
  <2>10. OnceInv'
    BY <1>1, <1>3, <2>1, <2>2, <2>3, <2>4, <2>6 DEF OnceInv
  <2> QED
    BY <1>3, <2>7, <2>9, <2>10 DEF QueueInv
<1>7. CASE SendFails(c)
  <2>1. UNCHANGED <<list, g_nReceive, lock, out>> /\ client[c] = "send"
        /\ client' = [client EXCEPT ![c] = "unlock"] /\ iter' = [iter EXCEPT ![c] = NoOne]
    BY <1>7 DEF SendFails, KeepFax
  <2>2. LockInv'
    BY <1>1, <2>1 DEF LockInv, TypeOK
  <2> QED
    BY <1>1, <1>2, <1>3, <2>1, <2>2 DEF OnceInv, CountIsLength, QueueInv
<1>8. CASE Unlock(c)
  <2>1. UNCHANGED <<list, g_nReceive, out, iter>> /\ client[c] = "unlock"
        /\ client' = [client EXCEPT ![c] = "idle"]
    BY <1>8 DEF Unlock
  <2>2. LockInv'
    BY <1>1, <2>1 DEF LockInv, TypeOK
  <2> QED
    BY <1>1, <1>2, <1>3, <2>1, <2>2 DEF OnceInv, CountIsLength, QueueInv
<1> QED
  BY <1>4, <1>5, <1>6, <1>7, <1>8 DEF ClientStep

(* ... and a restart. *)
LEMMA RestartQueueInv == TypeInv /\ Restart => QueueInv'
<1> SUFFICES ASSUME TypeInv, Restart PROVE QueueInv'
  OBVIOUS
<1>1. /\ list' = <<>> /\ out' = <<>> /\ twice' = {} /\ raced' = FALSE
      /\ main' = "scan" /\ scanned' = {} /\ lock' = NoOne
      /\ fax' = [j \in Jobs |-> NoOne] /\ client' = [c \in Clients |-> "gone"]
  BY DEF Restart
<1>2. StartInv' /\ LockInv' /\ CountIsLength'
  BY <1>1, EmptySequence, FS_EmptySet DEF StartInv, LockInv, CountIsLength
<1>3. OnceInv'
  BY <1>1, EmptySequence, EmptyOnce, SetAssumption DEF OnceInv
<1> QED
  BY <1>2, <1>3 DEF QueueInv

(* QueueInv is inductive relative to TypeInv. *)
LEMMA QueueStep == TypeInv /\ QueueInv /\ [Next]_vars => QueueInv'
<1> SUFFICES ASSUME TypeInv, QueueInv, [Next]_vars PROVE QueueInv'
  OBVIOUS
<1>1. CASE UNCHANGED vars
  BY <1>1 DEF vars, queue, startup, jobs, files, clients, causes, QueueInv, StartInv,
              LockInv, CountIsLength, OnceInv
<1> QED
  BY <1>1, ListenQueueInv, AnnounceQueueInv, CancelQueueInv, DownloadQueueInv,
     ClientQueueInv, RestartQueueInv DEF Next, Center

(* The count that clients are told is the number of faxes queued: no       *)
(* append, cancellation, hand-over or failed send by any number of threads *)
(* loses or doubles a fax in it, through any number of restarts and of     *)
(* wraps of the counter.  The one thing that makes it wrong is a download  *)
(* or a cancellation that changes the list before the listen thread has    *)
(* assigned the result of its scan.                                        *)
(* (FileSession.cpp:509, 1708; TcpSession.cpp:636, 1170)                   *)
THEOREM CountExact == Spec => []CountIsLength
<1>1. QueueInv => CountIsLength
  BY DEF QueueInv
<1> QED
  BY InitTypeInv, TypeStep, InitQueueInv, QueueStep, <1>1, PTL DEF Spec

(* Two sequences, one after the other.                                     *)
LEMMA ConcatOnce ==
    ASSUME NEW S, NEW s \in Seq(S), NEW t \in Seq(S), NEW T,
           OnceBut(s, T), OnceBut(t, T), Range(s) \cap Range(t) \subseteq T
    PROVE  OnceBut(s \o t, T)
<1> DEFINE u == s \o t
<1>1. /\ u \in Seq(S) /\ Len(u) = Len(s) + Len(t)
      /\ \A i \in 1 .. Len(s) + Len(t) :
             u[i] = IF i <= Len(s) THEN s[i] ELSE t[i - Len(s)]
  BY ConcatProperties
<1> HIDE DEF u
<1>2. /\ Len(s) \in Nat /\ Len(t) \in Nat
      /\ DOMAIN s = 1 .. Len(s) /\ DOMAIN t = 1 .. Len(t)
      /\ DOMAIN u = 1 .. Len(s) + Len(t)
  BY <1>1, LenProperties
<1> SUFFICES ASSUME NEW i \in 1 .. Len(s) + Len(t), NEW j \in 1 .. Len(s) + Len(t),
                    u[i] = u[j]
             PROVE  i = j \/ u[i] \in T
  BY <1>2 DEF OnceBut, u
<1>3. \A k \in 1 .. Len(s) + Len(t) :
          \/ k \in DOMAIN s /\ u[k] = s[k]
          \/ k - Len(s) \in DOMAIN t /\ u[k] = t[k - Len(s)]
  BY <1>1, <1>2
<1>4. \A a \in DOMAIN s, b \in DOMAIN t : s[a] = t[b] => s[a] \in T
  BY DEF Range
<1>5. \A a, b \in DOMAIN s : s[a] = s[b] => a = b \/ s[a] \in T
  BY DEF OnceBut
<1>6. \A a, b \in DOMAIN t : t[a] = t[b] => a = b \/ t[a] \in T
  BY DEF OnceBut
<1>7. CASE i \in DOMAIN s /\ u[i] = s[i] /\ j \in DOMAIN s /\ u[j] = s[j]
  BY <1>5, <1>7
<1>8. CASE i - Len(s) \in DOMAIN t /\ u[i] = t[i - Len(s)]
           /\ j - Len(s) \in DOMAIN t /\ u[j] = t[j - Len(s)]
  <2>1. i - Len(s) = j - Len(s) \/ u[i] \in T
    BY <1>6, <1>8
  <2> QED
    BY <1>2, <2>1
<1>9. CASE i \in DOMAIN s /\ u[i] = s[i]
           /\ j - Len(s) \in DOMAIN t /\ u[j] = t[j - Len(s)]
  BY <1>4, <1>9
<1>10. CASE j \in DOMAIN s /\ u[j] = s[j]
            /\ i - Len(s) \in DOMAIN t /\ u[i] = t[i - Len(s)]
  BY <1>4, <1>10
<1> QED
  BY <1>3, <1>7, <1>8, <1>9, <1>10

(* No fax is in the queue twice, and none is handed to a second client, or *)
(* to the same one again, while the process runs, unless it came in twice: *)
(* announced although it was known, or found by the scan while it was on   *)
(* its way.  (FileSession.cpp:334-337, 1662-1714; TcpSession.cpp:517-564)  *)
THEOREM EachFaxOnce == Spec => []HandedOverOnce
<1>1. TypeInv /\ QueueInv => HandedOverOnce
  BY ConcatOnce DEF TypeInv, TypeOK, QueueInv, OnceInv, HandedOverOnce
<1> QED
  BY InitTypeInv, TypeStep, InitQueueInv, QueueStep, <1>1, PTL DEF Spec

-----------------------------------------------------------------------------
(* The argument for the files of the faxes that nothing has spoiled: one   *)
(* on its way in has the files its stage says, what has a document has its *)
(* description, and only the copy under way is incomplete.                 *)
Sound == Faxes \ (twice \cup damaged)

FileInv ==
    /\ partial \subseteq tif
    /\ \A j \in Jobs : fax[j] \in Sound =>
          /\ fax[j] \in ini
          /\ stage[j] = "loading" => fax[j] \in ted
          /\ stage[j] \in {"copying", "landed"} => fax[j] \in tif
    /\ tif \cap Sound \subseteq ini
    /\ Range(list) \cap Sound \subseteq tif
    /\ \A f \in partial \cap Sound : \E j \in Jobs : fax[j] = f /\ stage[j] = "copying"

(* The files the initial states have. *)
LEMMA InitFileInv == Init => FileInv
BY EmptySequence, SetAssumption DEF Init, FileInv, Sound

(* Each step of the listen thread keeps the files; ... *)
LEMMA ListenFileInv ==
    ASSUME TypeInv, FileInv, Listen PROVE FileInv'
<1> USE DEF queue, startup, jobs, files, clients, causes
<1>1. TypeOK
  BY DEF TypeInv
<1>2. CASE ScanFile
  <2>1. PICK f \in tif \ scanned : /\ list' = Append(list, f)
                                   /\ twice' = twice \cup ({f} \cap (Queued \cup Incoming))
    BY <1>2 DEF ScanFile
  <2>2. Range(list') = Range(list) \cup {f}
    BY <1>1, <2>1, AppendRange DEF TypeOK
  <2>3. Sound' \subseteq Sound
    BY <1>2, <2>1 DEF ScanFile, Sound
  <2> QED
    BY <1>2, <2>1, <2>2, <2>3 DEF ScanFile, FileInv
<1>3. CASE ScanEnd \/ AssignCount
  BY <1>3 DEF ScanEnd, AssignCount, FileInv, Sound
<1>4. CASE ScanNone
  <2>1. /\ Sound' = Sound \ (Incoming \cup tif)
        /\ UNCHANGED <<list, jobs, tif, partial>>
    BY <1>4 DEF ScanNone, Sound
  <2>2. \A j \in Jobs : fax[j] \notin Sound'
    BY <1>1, <2>1, SetAssumption DEF Incoming, Range, TypeOK, Sound
  <2> QED
    BY <2>1, <2>2 DEF FileInv
<1> QED
  BY <1>2, <1>3, <1>4 DEF Listen

(* ... so does an announcement, ... *)
LEMMA AnnounceFileInv ==
    ASSUME TypeInv, QueueInv, FileInv, NEW f \in Faxes, NEW j \in Jobs,
           onRecvRequestReply(j, f)
    PROVE  FileInv'
<1> USE DEF queue, startup, jobs, clients
<1>1. TypeOK
  BY DEF TypeInv
<1>2. /\ UNCHANGED <<list, tif, ted, partial>>
      /\ fax' = [fax EXCEPT ![j] = f] /\ stage' = [stage EXCEPT ![j] = "begun"]
      /\ stage[j] = "none" /\ fax[j] = NoOne
  BY DEF onRecvRequestReply, Unused, TypeInv
<1>3. Sound' \ {f} = Sound \ {f} /\ ini' \ {f} = ini \ {f}
  BY DEF onRecvRequestReply, Sound
<1>4. f \in Sound' =>
         \/ f \in Sound /\ f \in ini'
         \/ ~Known(f) /\ f \in ini'
  BY DEF onRecvRequestReply, Sound
<1>5. ~Known(f) => /\ f \notin tif /\ f \notin Range(list)
                   /\ \A i \in Jobs : fax[i] # f
  BY <1>1, SetAssumption DEF Known, Queued, Incoming, Range, TypeOK
<1>6. \A i \in Jobs : fax'[i] \in Sound' =>
          /\ fax'[i] \in ini'
          /\ stage'[i] = "loading" => fax'[i] \in ted
          /\ stage'[i] \in {"copying", "landed"} => fax'[i] \in tif
  <2> SUFFICES ASSUME NEW i \in Jobs, fax'[i] \in Sound'
               PROVE  /\ fax'[i] \in ini'
                      /\ stage'[i] = "loading" => fax'[i] \in ted
                      /\ stage'[i] \in {"copying", "landed"} => fax'[i] \in tif
    OBVIOUS
  <2>1. CASE i = j
    BY <1>1, <1>2, <1>4, <2>1 DEF TypeOK
  <2>2. CASE i # j
    <3>1. fax'[i] = fax[i] /\ stage'[i] = stage[i]
      BY <1>1, <1>2, <2>2 DEF TypeOK
    <3>2. CASE fax[i] = f
      BY <1>4, <1>5, <3>1, <3>2 DEF FileInv
    <3>3. CASE fax[i] # f
      BY <1>3, <3>1, <3>3 DEF FileInv
    <3> QED
      BY <3>2, <3>3
  <2> QED
    BY <2>1, <2>2
<1>7. tif \cap Sound' \subseteq ini'
  BY <1>3, <1>4, <1>5 DEF FileInv
<1>8. Range(list) \cap Sound' \subseteq tif
  BY <1>3, <1>4, <1>5 DEF FileInv
<1>9. ASSUME NEW g \in partial \cap Sound'
      PROVE  \E i \in Jobs : fax'[i] = g /\ stage'[i] = "copying"
  <2>1. g \in Sound /\ g \in partial
    BY <1>3, <1>4, <1>5, <1>9 DEF FileInv
  <2>2. PICK i \in Jobs : fax[i] = g /\ stage[i] = "copying"
    BY <2>1 DEF FileInv
  <2>3. fax'[i] = g /\ stage'[i] = "copying"
    BY <1>1, <1>2, <2>2 DEF TypeOK
  <2> QED
    BY <2>3
<1> QED
  BY <1>2, <1>6, <1>7, <1>8, <1>9 DEF FileInv

(* ... a cancellation, ... *)
LEMMA CancelFileInv ==
    ASSUME TypeInv, QueueInv, FileInv, NEW f \in Faxes, onLCRCancelReply(f)
    PROVE  FileInv'
<1> USE DEF queue, startup, jobs, clients
<1>1. TypeOK /\ OnceInv
  BY DEF TypeInv, QueueInv
<1>2. /\ f \in Range(list) /\ list' = RemoveFirst(list, f)
      /\ tif' = tif \ {f} /\ ini' = ini \ {f} /\ partial' = partial \ {f}
      /\ UNCHANGED <<jobs, ted, Sound>>
  BY DEF onLCRCancelReply, Queued, Sound
<1>3. Range(list') \subseteq Range(list)
  BY <1>1, <1>2, RemoveFirstProperties DEF TypeOK
<1>4. f \in Sound => /\ f \notin Range(list')
                     /\ \A i \in Jobs : fax[i] # f
  BY <1>1, <1>2, RemoveFirstOnce DEF OnceInv, Sound, TypeOK
<1> QED
  BY <1>2, <1>3, <1>4 DEF FileInv

(* ... each step of a download, which is the only one that has its fax, if *)
(* the fax did not come in twice, ...                                      *)
LEMMA DownloadFileInv ==
    ASSUME TypeInv, QueueInv, FileInv, NEW j \in Jobs, Download(j)
    PROVE  FileInv'
<1> USE DEF queue, startup, jobs, files, clients, causes, Goes, Ends
<1>1. TypeOK /\ OnceInv
  BY DEF TypeInv, QueueInv
<1>2. stage[j] \notin {"none", "over"} /\ fax[j] \in Faxes
  BY <1>1 DEF Download, OpenFile, DownloadEnds, CopyBegins, CopyEnds, CopyFails,
              StopSend, Landed, TypeInv, TypeOK
<1>3. \A i \in Jobs : fax[i] \in Sound /\ fax[i] = fax[j] => i = j
  BY <1>1 DEF OnceInv, Sound
<1>4. \A i \in Jobs \ {j} : fax'[i] = fax[i] /\ stage'[i] = stage[i]
  BY <1>1 DEF Download, OpenFile, DownloadEnds, CopyBegins, CopyEnds, CopyFails,
              StopSend, TypeOK
<1>5. NoOne \notin Sound
  BY SetAssumption DEF Sound
<1>6. CASE OpenFile(j)
  <2>1. UNCHANGED <<list, fax, tif, ini, partial, Sound>> /\ ted' = ted \cup {fax[j]}
        /\ stage[j] = "begun" /\ stage'[j] = "loading"
    BY <1>1, <1>6 DEF OpenFile, Sound, TypeOK
  <2> QED
    BY <1>3, <1>4, <2>1 DEF FileInv
<1>7. CASE DownloadEnds(j)
  <2>1. UNCHANGED <<list, tif, ini, ted, partial, Sound>>
        /\ stage[j] # "copying" /\ fax'[j] = NoOne
    BY <1>1, <1>7 DEF DownloadEnds, Sound, TypeOK
  <2> QED
    BY <1>4, <1>5, <2>1 DEF FileInv
<1>8. CASE CopyBegins(j)
  <2>1. UNCHANGED <<list, fax, ini, ted, Sound>> /\ stage'[j] = "copying"
        /\ tif' = tif \cup {fax[j]} /\ partial' = partial \cup {fax[j]}
    BY <1>1, <1>8 DEF CopyBegins, Sound, TypeOK
  <2> QED
    BY <1>4, <2>1 DEF FileInv
<1>9. CASE CopyEnds(j)
  <2>1. UNCHANGED <<list, fax, tif, ini, Sound>> /\ stage'[j] = "landed"
        /\ stage[j] = "copying"
        /\ ted' = ted \ {fax[j]} /\ partial' = partial \ {fax[j]}
    BY <1>1, <1>9 DEF CopyEnds, Sound, TypeOK
  <2> QED
    BY <1>3, <1>4, <2>1 DEF FileInv
<1>10. CASE CopyFails(j)
  <2>1. UNCHANGED <<list, fax, tif, ini, partial>> /\ ted' = ted \ {fax[j]}
        /\ Sound' = Sound \ {fax[j]}
    BY <1>10 DEF CopyFails, Sound
  <2> QED
    BY <1>4, <2>1 DEF FileInv
<1>11. CASE StopSend(j)
  <2>1. UNCHANGED <<tif, ini, ted, partial, Sound>> /\ stage[j] = "landed"
        /\ list' = Append(list, fax[j]) /\ fax'[j] = NoOne
    BY <1>1, <1>11 DEF StopSend, Landed, Sound, TypeOK
  <2>2. Range(list') = Range(list) \cup {fax[j]}
    BY <1>1, <1>2, <2>1, AppendRange DEF TypeOK
  <2> QED
    BY <1>4, <1>5, <2>1, <2>2 DEF FileInv
<1> QED
  BY <1>6, <1>7, <1>8, <1>9, <1>10, <1>11 DEF Download

(* What a client does to the queue: it only takes from it. *)
LEMMA ClientTakes ==
    ASSUME TypeInv, LockInv, NEW c \in Clients, ClientStep(c)
    PROVE  Range(list') \subseteq Range(list)
<1>1. CASE SendFax(c)
  <2>1. iter[c] \in Range(list)
    BY <1>1 DEF SendFax, LockInv
  <2> QED
    BY <1>1, <2>1, RemoveFirstProperties DEF SendFax, TypeInv, TypeOK
<1>2. CASE ~SendFax(c)
  BY <1>2 DEF ClientStep, Connect, Disconnect, RequestRecv, AnswerEmpty,
              Lock, SendFails, KeepFax, Unlock, queue
<1> QED
  BY <1>1, <1>2

(* ... a restart ... *)
LEMMA RestartFileInv == ASSUME TypeInv, FileInv, Restart PROVE FileInv'
<1>1. PICK half \in {{}} \cup {{f} : f \in {g \in Queued : lock = NoOne}} :
          /\ ini' = ini \ half
          /\ damaged' = damaged \cup twice \cup half
                        \cup {fax[j] : j \in {i \in Jobs : stage[i] = "copying"}}
  BY DEF Restart
<1>2. /\ list' = <<>> /\ fax' = [j \in Jobs |-> NoOne] /\ twice' = {}
      /\ UNCHANGED <<tif, ted, partial>>
  BY DEF Restart
<1>3. Sound' = Sound \ (half \cup {fax[j] : j \in {i \in Jobs : stage[i] = "copying"}})
  BY <1>1, <1>2 DEF Sound
<1>4. \A j \in Jobs : fax'[j] \notin Sound'
  BY <1>2, SetAssumption DEF Sound
<1>5. tif' \cap Sound' \subseteq ini'
  BY <1>1, <1>2, <1>3 DEF FileInv
<1>6. partial' \cap Sound' = {}
  BY <1>2, <1>3 DEF FileInv
<1> QED
  BY <1>2, <1>4, <1>5, <1>6, EmptySequence DEF FileInv

(* ... and so every step. *)
LEMMA FileStep == TypeInv /\ QueueInv /\ FileInv /\ [Next]_vars => FileInv'
<1> SUFFICES ASSUME TypeInv, QueueInv, FileInv, [Next]_vars PROVE FileInv'
  OBVIOUS
<1>1. CASE UNCHANGED vars
  BY <1>1 DEF vars, queue, jobs, files, causes, FileInv, Sound
<1>2. ASSUME NEW c \in Clients, ClientStep(c) PROVE FileInv'
  <2>1. UNCHANGED <<jobs, files, causes>>
    BY <1>2 DEF ClientStep, Connect, Disconnect, RequestRecv, AnswerEmpty, Lock,
                SendFax, SendFails, Unlock
  <2>2. Range(list') \subseteq Range(list)
    BY <1>2, ClientTakes DEF QueueInv
  <2> QED
    BY <2>1, <2>2 DEF FileInv, Sound, jobs, files, causes
<1> QED
  BY <1>1, <1>2, ListenFileInv, AnnounceFileInv, CancelFileInv, DownloadFileInv,
     RestartFileInv DEF Next, Center

(* A queued fax has its whole document and its description, whatever       *)
(* downloads, cancellations, clients and crashes do, unless one of the     *)
(* named causes has spoiled it.                                            *)
(* (TcpSession.cpp:1164-1171, 629-633; FileSession.cpp:206-274)            *)
THEOREM FilesComplete == Spec => []FilesThere
<1>1. TypeInv /\ QueueInv /\ FileInv => FilesThere
  <2> SUFFICES ASSUME TypeInv, QueueInv, FileInv,
                      NEW f \in Range(list), f \notin twice \cup damaged
               PROVE  f \in tif /\ f \in ini /\ f \notin partial
    BY DEF FilesThere, Queued
  <2>1. f \in Sound
    BY RangeOfSeq DEF Sound, TypeInv, TypeOK
  <2>2. \A j \in Jobs : fax[j] # f
    BY <2>1 DEF QueueInv, OnceInv, Sound
  <2> QED
    BY <2>1, <2>2 DEF FileInv
<1> QED
  BY InitTypeInv, TypeStep, InitQueueInv, QueueStep, InitFileInv, FileStep, <1>1, PTL
     DEF Spec

-----------------------------------------------------------------------------
(* The argument for NoFaxStranded: a document in the directory is          *)
(* accounted for, or the scan has still to read it.                        *)
Landing(f) == \E j \in Jobs : fax[j] = f /\ stage[j] \in {"copying", "landed"}

StrandInv ==
    \A f \in tif :
        \/ f \in Queued \cup HandedOver
        \/ Landing(f)
        \/ main = "scan" /\ f \in base \ scanned

(* Removing e takes nothing else out of a sequence.                        *)
LEMMA RemoveFirstKeeps ==
    ASSUME NEW S, NEW s \in Seq(S), NEW e
    PROVE  Range(s) \subseteq Range(RemoveFirst(s, e)) \cup {e}
<1>1. CASE e \in Range(s)
  BY <1>1, RemoveFirstProperties
<1>2. CASE e \notin Range(s)
  <2>1. ~ \E i \in 1 .. Len(s) : s[i] = e
    BY <1>2, LenProperties DEF Range
  <2>2. RemoveFirst(s, e) = s
    BY <2>1 DEF RemoveFirst
  <2> QED
    BY <2>2
<1> QED
  BY <1>1, <1>2

(* Every step keeps the account. *)
LEMMA StrandStep == TypeInv /\ StrandInv /\ [Next]_vars => StrandInv'
<1> SUFFICES ASSUME TypeInv, StrandInv, [Next]_vars PROVE StrandInv'
  OBVIOUS
<1> USE DEF queue, startup, jobs, files, clients, StrandInv, Queued, HandedOver
<1>1. TypeOK /\ list \in Seq(Faxes) /\ out \in Seq(Faxes)
  BY DEF TypeInv, TypeOK
<1>2. CASE UNCHANGED vars
  BY <1>2 DEF vars, Landing
<1>3. CASE Listen
  <2>1. CASE ScanFile
    <3>1. PICK f \in tif \ scanned :
              scanned' = scanned \cup {f} /\ list' = Append(list, f)
      BY <2>1 DEF ScanFile
    <3>2. Range(list') = Range(list) \cup {f}
      BY <1>1, <3>1, AppendRange DEF TypeOK
    <3> QED
      BY <2>1, <3>1, <3>2 DEF ScanFile, Landing
  <2>2. CASE ScanEnd \/ ScanNone \/ AssignCount
    BY <2>2 DEF ScanEnd, ScanNone, AssignCount, Landing
  <2> QED
    BY <1>3, <2>1, <2>2 DEF Listen
<1>4. ASSUME NEW f \in Faxes, NEW j \in Jobs, onRecvRequestReply(j, f)
      PROVE  StrandInv'
  <2>1. UNCHANGED <<queue, startup, tif, out>> /\ stage[j] = "none"
        /\ \A i \in Jobs \ {j} : fax'[i] = fax[i] /\ stage'[i] = stage[i]
    BY <1>1, <1>4 DEF onRecvRequestReply, Unused, TypeOK
  <2> QED
    BY <2>1 DEF Landing
<1>5. ASSUME NEW f \in Faxes, onLCRCancelReply(f) PROVE StrandInv'
  <2>1. Range(list) \subseteq Range(list') \cup {f}
    BY <1>1, <1>5, RemoveFirstKeeps DEF onLCRCancelReply
  <2> QED
    BY <1>5, <2>1 DEF onLCRCancelReply, Landing
<1>6. ASSUME NEW j \in Jobs, Download(j) PROVE StrandInv'
  <2> USE DEF Goes, Ends
  <2>1. \A i \in Jobs \ {j} : fax'[i] = fax[i] /\ stage'[i] = stage[i]
    BY <1>1, <1>6 DEF Download, OpenFile, DownloadEnds, CopyBegins, CopyEnds,
                      CopyFails, StopSend, TypeOK
  <2>2. CASE OpenFile(j) \/ DownloadEnds(j)
    <3>1. UNCHANGED <<queue, startup, tif, out>> /\ stage[j] \in {"begun", "loading"}
      BY <2>2 DEF OpenFile, DownloadEnds
    <3> QED
      BY <2>1, <3>1 DEF Landing
  <2>3. CASE CopyBegins(j) \/ CopyEnds(j) \/ CopyFails(j)
    <3>1. /\ UNCHANGED <<queue, startup, fax, out>> /\ tif' \subseteq tif \cup {fax[j]}
          /\ stage'[j] \in {"copying", "landed"}
      BY <1>1, <2>3 DEF CopyBegins, CopyEnds, CopyFails, TypeOK
    <3> QED
      BY <2>1, <3>1 DEF Landing
  <2>4. CASE StopSend(j)
    <3>1. fax[j] \in Faxes
      BY <1>1, <2>4 DEF StopSend, Landed, TypeInv, TypeOK
    <3>2. Range(list') = Range(list) \cup {fax[j]}
      BY <1>1, <2>4, <3>1, AppendRange DEF StopSend
    <3>3. UNCHANGED <<startup, tif, out>>
      BY <2>4 DEF StopSend
    <3> QED
      BY <2>1, <3>2, <3>3 DEF Landing
  <2> QED
    BY <1>6, <2>2, <2>3, <2>4 DEF Download
<1>7. ASSUME NEW c \in Clients, ClientStep(c) PROVE StrandInv'
  <2>1. UNCHANGED <<startup, jobs, files>>
    BY <1>7 DEF ClientStep, Connect, Disconnect, RequestRecv, AnswerEmpty, Lock,
                SendFax, SendFails, Unlock
  <2>2. Range(list) \cup Range(out) \subseteq Range(list') \cup Range(out')
    <3>1. CASE SendFax(c)
      <4>1. Range(list) \subseteq Range(list') \cup {iter[c]}
        BY <1>1, <3>1, RemoveFirstKeeps DEF SendFax
      <4>2. Range(out') = Range(out) \cup {iter[c]}
        BY <1>1, <3>1, AppendRange DEF SendFax, TypeInv
      <4> QED
        BY <4>1, <4>2
    <3>2. CASE ~SendFax(c)
      BY <1>7, <3>2 DEF ClientStep, Connect, Disconnect, RequestRecv, AnswerEmpty,
                        Lock, SendFails, KeepFax, Unlock
    <3> QED
      BY <3>1, <3>2
  <2> QED
    BY <2>1, <2>2 DEF Landing
<1>8. CASE Restart
  BY <1>8 DEF Restart
<1> QED
  BY <1>2, <1>3, <1>4, <1>5, <1>6, <1>7, <1>8 DEF Next, Center

(* No document in the data directory is ever out of reach of the clients,  *)
(* whatever crashes, failed sends and cancellations there are, and even if *)
(* the center talks during the scan.                                       *)
(* (FileSession.cpp:276-375, 1704; TcpSession.cpp:1164-1171)               *)
THEOREM NothingStranded == Spec => []NoFaxStranded
<1>1. Init => StrandInv
  BY DEF Init, StrandInv
<1>2. StrandInv => NoFaxStranded
  BY DEF StrandInv, NoFaxStranded, Landing
<1> QED
  BY InitTypeInv, TypeStep, StrandStep, <1>1, <1>2, PTL DEF Spec

-----------------------------------------------------------------------------
(* That FaxQueue implements FaxInbox.  The client that is sending has the   *)
(* lock, so that its fax stays at the front.                                *)
FrontInv ==
    \A c \in Clients :
        /\ client[c] \in {"send", "unlock"} => lock = c
        /\ client[c] = "send" => list # <<>> /\ iter[c] = Head(list)

(* FrontInv is inductive relative to the types. *)
LEMMA FrontStep == TypeInv /\ FrontInv /\ [Next]_vars => FrontInv'
<1> SUFFICES ASSUME TypeInv, FrontInv, [Next]_vars PROVE FrontInv'
  OBVIOUS
<1> USE DEF queue, startup, jobs, files, clients
<1>1. TypeOK /\ list \in Seq(Faxes)
  BY DEF TypeInv, TypeOK
<1>2. CASE UNCHANGED vars
  BY <1>2 DEF vars, FrontInv
<1>3. CASE Listen \/ Center
  <2>1. UNCHANGED <<client, iter, lock>> /\ (list' # list => lock = NoOne)
    BY <1>3 DEF Listen, ScanFile, ScanEnd, ScanNone, AssignCount, Center,
                onRecvRequestReply, onLCRCancelReply, Download, OpenFile, DownloadEnds,
                CopyBegins, CopyEnds, CopyFails, StopSend
  <2> QED BY <2>1, SetAssumption DEF FrontInv
<1>4. ASSUME NEW c \in Clients, ClientStep(c) PROVE FrontInv'
  <2>1. CASE Connect(c) \/ Disconnect(c) \/ RequestRecv(c) \/ AnswerEmpty(c)
    <3>1. /\ UNCHANGED <<list, lock, iter>>
          /\ \A d \in Clients : client'[d] \in {"send", "unlock"} => client'[d] = client[d]
      BY <1>1, <2>1 DEF Connect, Disconnect, RequestRecv, AnswerEmpty, TypeOK
    <3> QED BY <3>1 DEF FrontInv
  <2>2. CASE Lock(c)
    <3>1. \A d \in Clients : client[d] \notin {"send", "unlock"}
      BY <2>2, SetAssumption DEF Lock, LockFree, FrontInv
    <3> QED BY <1>1, <2>2, <3>1 DEF Lock, TypeOK, FrontInv
  <2>3. CASE SendFax(c) \/ SendFails(c) \/ Unlock(c)
    <3>1. lock = c /\ \A d \in Clients \ {c} : client[d] \notin {"send", "unlock"}
      BY <2>3 DEF SendFax, SendFails, Unlock, FrontInv
    <3>2. /\ client'[c] \in {"unlock", "idle"} /\ (client'[c] = "unlock" => lock' = c)
          /\ \A d \in Clients \ {c} : client'[d] = client[d]
      BY <1>1, <2>3, <3>1 DEF SendFax, SendFails, Unlock, TypeOK
    <3> QED BY <3>1, <3>2 DEF FrontInv
  <2> QED BY <1>4, <2>1, <2>2, <2>3 DEF ClientStep
<1>5. CASE Restart
  BY <1>1, <1>5 DEF Restart, TypeOK, FrontInv
<1> QED
  BY <1>2, <1>3, <1>4, <1>5 DEF Next

(* What FaxInbox sees of the scan. *)
Unread == IF main = "scan" THEN Faxes \ scanned ELSE {}
ToFind == IF main = "scan" THEN base \ scanned ELSE {}

LEMMA InitInbox == Init => Inbox!Init
BY SetAssumption DEF Init, Inbox!Init, Inbox!Idle

(* Each step of the scan is a step of the search, ... *)
LEMMA ListenInbox == TypeInv /\ Listen => [Inbox!Next]_<<list, fax, tif, Unread, ToFind>>
<1> SUFFICES ASSUME TypeOK, Listen PROVE [Inbox!Next]_<<list, fax, tif, Unread, ToFind>>
  BY DEF TypeInv
<1> USE DEF queue, startup, jobs, files, clients
<1>1. CASE ScanFile
  <2>1. PICK f \in tif \ scanned : scanned' = scanned \cup {f} /\ list' = Append(list, f)
    BY <1>1 DEF ScanFile
  <2>2. f \in Faxes
    BY DEF TypeOK
  <2>3. Inbox!Find(f)
    BY <1>1, <2>1, <2>2 DEF ScanFile, Inbox!Find
  <2> QED BY <2>2, <2>3 DEF Inbox!Next
<1>2. CASE ScanEnd \/ ScanNone
  <2>1. Inbox!SearchEnds
    BY <1>2 DEF ScanEnd, ScanNone, Inbox!SearchEnds
  <2> QED BY <2>1 DEF Inbox!Next
<1>3. CASE AssignCount
  BY <1>3 DEF AssignCount, Unread, ToFind
<1> QED BY <1>1, <1>2, <1>3 DEF Listen

(* ... an announcement begins a job, a cancellation is one, ... *)
LEMMA CenterInbox ==
    ASSUME TypeInv, NEW f \in Faxes,
           onLCRCancelReply(f) \/ \E j \in Jobs : onRecvRequestReply(j, f)
    PROVE  [Inbox!Next]_<<list, fax, tif, Unread, ToFind>>
<1> USE DEF queue, startup, jobs, clients
<1>1. ASSUME NEW j \in Jobs, onRecvRequestReply(j, f)
      PROVE  Inbox!Next
  <2>1. Inbox!Begin(j, f)
    BY <1>1 DEF onRecvRequestReply, Unused, Inbox!Begin, TypeInv
  <2> QED BY <2>1 DEF Inbox!Next
<1>2. CASE onLCRCancelReply(f)
  <2>1. PICK k \in 1 .. Len(list) : list[k] = f /\ list' = RemoveAt(list, k)
    BY <1>2, RemoveFirstIndex DEF onLCRCancelReply, Queued, TypeInv, TypeOK
  <2>2. UNCHANGED fax /\ UNCHANGED Unread /\ tif' = tif \ {f} /\ ToFind' = ToFind \ {f}
    BY <1>2 DEF onLCRCancelReply, Unread, ToFind
  <2>3. Inbox!Cancel(k)
    BY <2>1, <2>2 DEF Inbox!Cancel, Inbox!RemoveAt, RemoveAt, Unread, ToFind
  <2> QED BY <2>1, <2>3 DEF Inbox!Next
<1> QED
  BY <1>1, <1>2

(* ... each step of a download is nothing or one of its job, ... *)
LEMMA DownloadInbox ==
    ASSUME TypeInv, NEW j \in Jobs, Download(j)
    PROVE  [Inbox!Next]_<<list, fax, tif, Unread, ToFind>>
<1> USE DEF queue, startup, jobs, files, clients, Goes, Ends
<1>1. stage[j] \notin {"none", "over"} /\ fax[j] # NoOne
  BY DEF Download, OpenFile, DownloadEnds, CopyBegins, CopyEnds, CopyFails,
         StopSend, Landed, TypeInv
<1>2. CASE OpenFile(j) \/ CopyEnds(j) \/ CopyFails(j)
  BY <1>2 DEF OpenFile, CopyEnds, CopyFails, Unread, ToFind
<1>3. CASE DownloadEnds(j)
  <2>1. Inbox!GiveUp(j)
    BY <1>1, <1>3 DEF DownloadEnds, Inbox!GiveUp, Inbox!Ends
  <2> QED BY <2>1 DEF Inbox!Next
<1>4. CASE CopyBegins(j)
  <2>1. Inbox!Store(j)
    BY <1>1, <1>4 DEF CopyBegins, Inbox!Store
  <2> QED BY <2>1 DEF Inbox!Next
<1>5. CASE StopSend(j)
  <2>1. Inbox!Deliver(j)
    BY <1>1, <1>5 DEF StopSend, Inbox!Deliver, Inbox!Ends
  <2> QED BY <2>1 DEF Inbox!Next
<1> QED
  BY <1>2, <1>3, <1>4, <1>5 DEF Download

(* Removing the first member is taking the tail.                           *)
LEMMA RemoveHead ==
    ASSUME NEW S, NEW s \in Seq(S), s # <<>>
    PROVE  RemoveFirst(s, Head(s)) = Tail(s)
<1> DEFINE I == {i \in 1 .. Len(s) : s[i] = Head(s)}
<1>1. Len(s) \in Nat /\ 1 \in 1 .. Len(s) /\ s[1] = Head(s)
  BY LenProperties
<1>2. 1 \in I /\ \A i \in I : 1 <= i
  BY <1>1
<1>3. Min(I) = 1
  BY <1>2 DEF Min
<1>4. RemoveFirst(s, Head(s)) = RemoveAt(s, Min(I))
  BY <1>2 DEF RemoveFirst, SelectInSeq
<1>5. RemoveAt(s, 1) \in Seq(S) /\ Len(RemoveAt(s, 1)) = Len(s) - 1
      /\ \A i \in 1 .. Len(s) - 1 : RemoveAt(s, 1)[i] = s[i + 1]
  <2>1. \A i \in 1 .. Len(s) - 1 : ~(i < 1)
    BY <1>1
  <2> QED BY <1>1, <2>1, RemoveAtProperties
<1>6. Tail(s) \in Seq(S) /\ Len(Tail(s)) = Len(s) - 1
      /\ \A i \in 1 .. Len(s) - 1 : Tail(s)[i] = s[i + 1]
  BY <1>1
<1> QED BY <1>3, <1>4, <1>5, <1>6, SeqEqual

(* ... each step of a client nothing, or taking the fax at the front, ...  *)
LEMMA ClientInbox ==
    ASSUME TypeInv, FrontInv, NEW c \in Clients, ClientStep(c)
    PROVE  [Inbox!Next]_<<list, fax, tif, Unread, ToFind>>
<1> USE DEF queue, startup, jobs, files, clients
<1>1. UNCHANGED <<fax, tif, startup>>
  BY DEF ClientStep, Connect, Disconnect, RequestRecv, AnswerEmpty, Lock,
         SendFax, SendFails, Unlock
<1>2. UNCHANGED Unread /\ UNCHANGED ToFind
  BY <1>1 DEF Unread, ToFind
<1>3. CASE SendFax(c)
  <2>1. list # <<>> /\ list' = Tail(list)
    BY <1>3, RemoveHead DEF SendFax, FrontInv, TypeInv, TypeOK
  <2>2. Inbox!Take
    BY <1>1, <1>2, <2>1 DEF Inbox!Take, Unread, ToFind
  <2> QED BY <2>2 DEF Inbox!Next
<1>4. CASE ~SendFax(c)
  <2>1. UNCHANGED list
    BY <1>4 DEF ClientStep, Connect, Disconnect, RequestRecv, AnswerEmpty, Lock,
                SendFails, KeepFax, Unlock
  <2> QED BY <1>1, <1>2, <2>1
<1> QED BY <1>3, <1>4

(* ... and a restart is one. *)
LEMMA RestartInbox == TypeInv /\ Restart => Inbox!Next
<1> SUFFICES ASSUME TypeOK, Restart PROVE Inbox!Restart
  BY DEF TypeInv, Inbox!Next
<1>1. list' = <<>> /\ main' = "scan" /\ scanned' = {} /\ base' = tif /\ tif' = tif
      /\ fax' = [j \in Jobs |-> NoOne] /\ tif \subseteq Faxes
  BY DEF Restart, TypeOK
<1>2. Unread' = Faxes /\ ToFind' = tif
  BY <1>1 DEF Unread, ToFind
<1>3. IsInjective(<<>>) /\ Range(<<>>) = {}
  BY EmptySequence
<1> QED BY <1>1, <1>2, <1>3 DEF Inbox!Restart, Inbox!Idle, Inbox!IsInjective,
           Inbox!Range, IsInjective, Range, Unread, ToFind

(* The queue is first in, first out for the clients, a cancellation takes  *)
(* its document along, and a restart finds every document again, with any  *)
(* number of threads, announcements and crashes and with a center that     *)
(* talks during the scan.  (FileSession.cpp:276-375, 1660-1714;            *)
(* TcpSession.cpp:609-641, 1164-1171)                                      *)
THEOREM InboxKept == Spec => ImplementsInbox
<1>1. Init => FrontInv
  BY SetAssumption DEF Init, FrontInv
<1>2. TypeInv /\ FrontInv /\ [Next]_vars => [Inbox!Next]_<<list, fax, tif, Unread, ToFind>>
  <2>1. UNCHANGED vars => UNCHANGED <<list, fax, tif, Unread, ToFind>>
    BY DEF vars, queue, startup, jobs, files, Unread, ToFind
  <2> QED
    BY <2>1, ListenInbox, CenterInbox, DownloadInbox, ClientInbox, RestartInbox
       DEF Next, Center
<1> QED
  BY InitTypeInv, TypeStep, <1>1, FrontStep, InitInbox, <1>2, PTL
     DEF Spec, ImplementsInbox, Inbox!Spec, Inbox!vars, Unread, ToFind
=============================================================================
