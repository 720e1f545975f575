----------------------------- MODULE FrameReader -----------------------------
(***************************************************************************)
(* The four readers of frames, which are one automaton: MsgReceiver (the   *)
(* fax center), TCPSThreadProc (a client), GetPacket (the file server,     *)
(* receiving) and GetRSAPacket (the file server, sending).  A frame is     *)
(* 3E E3, a version and a length, and that many bytes.  The automaton sees *)
(* one byte after the other: ntype 0 looks for 3E E3, 1 fills the header,  *)
(* 2 fills the packet.  Nothing is quoted: 3E E3 may be in the length and  *)
(* in the body.                                                            *)
(*                                                                         *)
(* The first two go on with the rest of what recv() gave them after a      *)
(* frame; the two for the file server return after each frame and forget   *)
(* the rest.  The center and a client may send when they like; the file    *)
(* server answers, a frame for a frame, but the gateway may ask for the    *)
(* next one while it still owes the answer to TCP_FAX_REQUESTSEND.         *)
(*                                                                         *)
(* The peers' frames are intact and not shorter than the reader takes.     *)
(* Three things make a reader lose its place, and `spoiled' names them.    *)
(* A transfer is one client's (SendSession has more than one).             *)
(***************************************************************************)
EXTENDS Naturals, Sequences

CONSTANTS
    Byte,
    H1, H2,         \* 3E and E3
    Bodies,         \* what a frame may contain
    Field,          \* the version and length bytes for each length of a body
    FieldSize,      \* how many they are
    Length,         \* the length each such field stands for
    Shortest,       \* for each reader, the shortest length it takes
    BufferSize,     \* for each reader, the size of byPacket
    MaxSent,        \* bound: frames sent
    MaxLost         \* bound: connections that end

Servers == {"download", "transfer"}         \* GetPacket, GetRSAPacket
Readers == {"center", "client"} \cup Servers

ASSUME ByteAssumption == H1 \in Byte /\ H2 \in Byte /\ H1 # H2
ASSUME BodyAssumption ==
    \A body \in Bodies : body \in Seq(Byte) /\ Len(body) > 0 /\ Len(body) \in DOMAIN Field
ASSUME FieldAssumption ==
    /\ FieldSize \in Nat \ {0} /\ DOMAIN Field \subseteq Nat
    /\ \A n \in DOMAIN Field :
         Field[n] \in Seq(Byte) /\ Len(Field[n]) = FieldSize /\ Length[Field[n]] = n
ASSUME ReaderAssumption ==
    Shortest \in [Readers -> Nat] /\ BufferSize \in [Readers -> Nat]
ASSUME BoundAssumption == MaxSent \in Nat /\ MaxLost \in Nat

VARIABLES
    kind,           \* which of the readers it is
    phase,          \* "connect": TCP_FAX_REQUESTSEND is asked; "read": the
                    \* reader runs; "idle": it has returned; "closed"
    asked,          \* the frames the file server has still to answer
    late,           \* the answer to TCP_FAX_REQUESTSEND was not waited for
    pending,        \* the frames on the way
    off,            \* how many bytes of the first one have been read
    unread,         \* how many bytes there are altogether
    room,           \* how many are left of what recv() returned
    ntype, m_byLastChar, header, byPacket,
    got,            \* the frames handled (history)
    spoiled,        \* what made the reader lose its place (history)
    sent, lost      \* the frames sent and the connections ended

stream == <<pending, off, unread>>
parser == <<ntype, m_byLastChar, header, byPacket>>
session == <<kind, phase, asked, late>>
counts == <<sent, lost>>
vars == <<session, stream, room, parser, got, spoiled, counts>>

HeaderSize == 2 + FieldSize     \* sizeof(PAG_HEADER) or sizeof(GW_HEADER)
Frame(body) == <<H1, H2>> \o Field[Len(body)] \o body

\* A connection's beginning: ConnectFileSrv and ReceiveFax ask first.
FirstPhase == IF kind = "transfer" THEN "connect" ELSE "read"
FirstAsked == IF kind \in Servers THEN 1 ELSE 0

Init ==
    /\ kind \in Readers /\ phase = FirstPhase /\ asked = FirstAsked /\ late = FALSE
    /\ pending = <<>> /\ off = 0 /\ unread = 0 /\ room = 0
    /\ ntype = 0 /\ m_byLastChar \in Byte /\ header = <<>> /\ byPacket = <<>>
    /\ got = <<>> /\ spoiled = "none" /\ sent = 0 /\ lost = 0

MaySend == kind \in Servers => asked > 0

Send(body) ==
    /\ sent < MaxSent /\ MaySend /\ Len(body) >= Shortest[kind]
    /\ pending' = Append(pending, body)
    /\ unread' = unread + Len(Frame(body))
    /\ asked' = IF kind \in Servers THEN asked - 1 ELSE asked
    /\ sent' = sent + 1
    /\ UNCHANGED <<kind, phase, late, off, room, parser, got, spoiled, lost>>

\* recv() returns some of what has come.
Recv ==
    /\ phase = "read" /\ room = 0
    /\ room' \in 1 .. unread
    /\ UNCHANGED <<session, stream, parser, got, spoiled, counts>>

-----------------------------------------------------------------------------
(* Moving along the stream.                                                *)

Next1 == Frame(Head(pending))[off + 1]
Rest == Len(Frame(Head(pending))) - off

\* The first n bytes are gone: of the first frame, or of the second one, too.
Advance(n) ==
    LET left == Tail(pending)
    IN /\ unread' = unread - n
       /\ \/ n < Rest /\ off' = off + n /\ UNCHANGED pending
          \/ /\ n >= Rest /\ (left # <<>> => n - Rest < Len(Frame(Head(left))))
             /\ off' = n - Rest /\ pending' = left
          \/ /\ n >= Rest /\ left # <<>> /\ n - Rest = Len(Frame(Head(left)))
             /\ off' = 0 /\ pending' = Tail(left)

(* ConnectFileSrv takes what has come of the answer with a recv() of its   *)
(* own.  When that is not all, the next reader begins inside the answer.   *)
Swallow ==
    /\ phase = "connect" /\ phase' = "idle"
    /\ \E n \in 1 .. unread :
         /\ Advance(n)
         /\ IF n = unread
            THEN got' = Append(got, Head(pending)) /\ UNCHANGED spoiled
            ELSE spoiled' = "answer cut" /\ UNCHANGED got
    /\ UNCHANGED <<kind, asked, late, room, parser, counts>>

\* Three seconds without an answer are a success, and the answer is still owed.
TimedOut ==
    /\ phase = "connect" /\ phase' = "idle" /\ late' = TRUE
    /\ UNCHANGED <<kind, asked, stream, room, parser, got, spoiled, counts>>

\* The gateway sends the file server the next frame and reads.
Ask ==
    /\ phase = "idle" /\ phase' = "read" /\ asked' = asked + 1
    /\ UNCHANGED <<kind, late, stream, room, parser, got, spoiled, counts>>

-----------------------------------------------------------------------------
(* One byte.                                                               *)

\* The reader goes on with the byte after this one.
Step == Advance(1) /\ room' = room - 1

\* Mutant of IsStart: a frame begins wherever 3E E3 comes.
IsStartAnywhere(b) == b = H2 /\ m_byLastChar = H1

IsStart(b) == b = H2 /\ m_byLastChar = H1 /\ ntype = 0

Start(b) ==
    /\ IsStart(b)
    /\ ntype' = 1 /\ header' = <<H1, H2>> /\ m_byLastChar' = b
    /\ Step /\ UNCHANGED <<phase, byPacket, got, spoiled>>

Skip(b) ==
    /\ ~IsStart(b) /\ ntype = 0
    /\ m_byLastChar' = b
    /\ Step /\ UNCHANGED <<phase, ntype, header, byPacket, got, spoiled>>

FillHeader(b) ==
    /\ ~IsStart(b) /\ ntype = 1
    /\ header' = Append(header, b) /\ m_byLastChar' = b
    /\ IF Len(header) + 1 = HeaderSize
       THEN ntype' = 2 /\ byPacket' = <<>>
       ELSE UNCHANGED <<ntype, byPacket>>
    /\ Step /\ UNCHANGED <<phase, got, spoiled>>

nLength == Length[SubSeq(header, 3, HeaderSize)]        \* pheader->nLength

\* Mutant of Enough: the test comes before nPointer is advanced.
EnoughBefore == Len(byPacket) >= nLength

Enough == Len(byPacket) + 1 >= nLength

InPacket(b) == ~IsStart(b) /\ ntype = 2 /\ Len(byPacket) < BufferSize[kind]

FillPacket(b) ==
    /\ InPacket(b) /\ ~Enough
    /\ byPacket' = Append(byPacket, b) /\ m_byLastChar' = b
    /\ Step /\ UNCHANGED <<phase, ntype, header, got, spoiled>>

\* byPacket is full and there is more of the frame: what the program does from
\* here is undefined, and the model stops.
Overrun(b) ==
    /\ ~IsStart(b) /\ ntype = 2 /\ Len(byPacket) >= BufferSize[kind]
    /\ spoiled' = "too long"
    /\ UNCHANGED <<phase, stream, room, parser, got>>

\* MsgReceiver closes the connection for a length that is too small, and goes
\* on as before with the rest of its buffer.
TooShort(b) ==
    /\ InPacket(b) /\ Enough /\ nLength < Shortest[kind]
    /\ byPacket' = Append(byPacket, b) /\ m_byLastChar' = b /\ phase' = "closed"
    /\ Step /\ UNCHANGED <<ntype, header, got, spoiled>>

(* The file server's readers return: the rest of the buffer is forgotten,  *)
(* and what m_byLastChar is at the next call is an old byte or, in         *)
(* GetRSAPacket's callers, not initialized.  The answer to                 *)
(* TCP_FAX_REQUESTSEND is none that ReceiveFileSrvPacket takes: the        *)
(* connection is closed.                                                   *)
Return ==
    /\ m_byLastChar' \in Byte /\ room' = 0
    /\ IF late THEN phase' = "closed" /\ Advance(1)
               ELSE phase' = "idle" /\ Advance(room)

EndOfFrame(b) ==
    /\ InPacket(b) /\ Enough /\ nLength >= Shortest[kind]
    /\ ntype' = 0 /\ header' = <<>> /\ byPacket' = <<>>
    /\ UNCHANGED spoiled

Complete(b) ==
    /\ EndOfFrame(b)
    /\ got' = Append(got, Append(byPacket, b))
    /\ IF kind \in Servers THEN Return
                           ELSE m_byLastChar' = b /\ Step /\ UNCHANGED phase

\* CheckPacket finds that this is no frame.
Rejected(b) ==
    /\ spoiled # "none" /\ EndOfFrame(b)
    /\ m_byLastChar' = b /\ Step /\ UNCHANGED <<phase, got>>

ReadByte ==
    /\ room > 0 /\ pending # <<>> /\ spoiled # "too long"
    /\ LET b == Next1
       IN \/ Start(b) \/ Skip(b) \/ FillHeader(b) \/ FillPacket(b) \/ Overrun(b)
          \/ TooShort(b) \/ Complete(b) \/ Rejected(b)
    /\ UNCHANGED <<kind, asked, late, counts>>

-----------------------------------------------------------------------------
\* MsgReceiver has seen its recv() fail; or another thread or transfer begins.
Reset ==
    /\ ntype' = 0 /\ header' = <<>> /\ byPacket' = <<>>
    /\ m_byLastChar' \in Byte /\ spoiled' = "none"

(* main has closed the fax center's connection and made the next one while *)
(* MsgReceiver was between two calls of recv(): the parser stays as it is, *)
(* and the new connection's bytes continue a frame that was begun.  While  *)
(* the reader works on its buffer is no other case: it finishes that.      *)
NotSeen ==
    /\ kind = "center" /\ phase # "closed"
    /\ spoiled' = IF ntype = 0 THEN "none" ELSE "replaced in a frame"
    /\ UNCHANGED parser

\* The connection ends, in the middle of a frame perhaps, and the next begins.
Lose ==
    /\ lost < MaxLost /\ lost' = lost + 1 /\ room = 0 /\ spoiled # "too long"
    /\ pending' = <<>> /\ off' = 0 /\ unread' = 0
    /\ phase' = FirstPhase /\ asked' = FirstAsked /\ late' = FALSE
    /\ Reset \/ NotSeen
    /\ UNCHANGED <<kind, sent, room, got>>

Next ==
    \/ Recv \/ ReadByte \/ Swallow \/ TimedOut \/ Ask \/ Lose
    \/ \E body \in Bodies : Send(body)

Spec == Init /\ [][Next]_vars

\* recv() returns what has come, and the loop goes on.
FairSpec == Spec /\ WF_vars(Recv) /\ WF_vars(ReadByte)

-----------------------------------------------------------------------------
\* However the stream is cut and whatever the bodies contain, the frames are
\* handled whole, once and in their order.  Only a connection replaced inside
\* a frame, an answer that ConnectFileSrv read in part, and a frame longer than
\* byPacket break this, until the reader starts again; a connection replaced
\* between two frames, and an answer that comes late, do not.
Stream == INSTANCE FrameStream WITH begun <- off > 0, intact <- spoiled = "none"
Implements == Stream!Spec

\* A reader that runs keeps no frame back that has come: it does not wait for
\* more than the frame's own bytes.
NoFrameWaits ==
    []<>((pending = <<>> /\ ntype = 0) \/ phase # "read" \/ spoiled # "none")
=============================================================================
