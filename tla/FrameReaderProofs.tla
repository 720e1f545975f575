-------------------------- MODULE FrameReaderProofs --------------------------
(***************************************************************************)
(* Proofs about FrameReader, for all bytes, bodies, headers and cuts: the  *)
(* reader and the stream are always at the same place of the same frame,   *)
(* which is the refinement of FrameStream, until one of the three things   *)
(* that `spoiled' names has happened.                                      *)
(***************************************************************************)
EXTENDS FrameReader, TLAPS, SequenceTheorems

-----------------------------------------------------------------------------
(* What a frame is made of.                                                *)

LEMMA FrameIs ==
    ASSUME NEW body \in Bodies
    PROVE  /\ body \in Seq(Byte) /\ Len(body) \in Nat \ {0}
           /\ Len(body) \in DOMAIN Field
           /\ Frame(body) \in Seq(Byte)
           /\ Len(Frame(body)) = HeaderSize + Len(body)
           /\ Frame(body)[1] = H1 /\ Frame(body)[2] = H2
           /\ \A i \in 1 .. FieldSize : Frame(body)[i + 2] = Field[Len(body)][i]
           /\ \A i \in 1 .. Len(body) : Frame(body)[i + HeaderSize] = body[i]
<1> DEFINE f == Field[Len(body)]
           h == <<H1, H2>> \o f
<1>1. body \in Seq(Byte) /\ Len(body) \in Nat \ {0} /\ Len(body) \in DOMAIN Field
  BY BodyAssumption
<1>2. f \in Seq(Byte) /\ Len(f) = FieldSize /\ FieldSize \in Nat \ {0}
  BY <1>1, FieldAssumption
<1>3. <<H1, H2>> \in Seq(Byte) /\ Len(<<H1, H2>>) = 2
  BY ByteAssumption
<1>4. /\ h \in Seq(Byte) /\ Len(h) = HeaderSize
      /\ h[1] = H1 /\ h[2] = H2
      /\ \A i \in 1 .. FieldSize : h[i + 2] = f[i]
  <2> HIDE DEF f
  <2> QED BY <1>2, <1>3, ConcatProperties DEF HeaderSize
<1>5. /\ h \o body \in Seq(Byte) /\ Len(h \o body) = HeaderSize + Len(body)
      /\ \A i \in 1 .. HeaderSize : (h \o body)[i] = h[i]
      /\ \A i \in 1 .. Len(body) : (h \o body)[i + HeaderSize] = body[i]
  <2> HIDE DEF h
  <2>1. HeaderSize \in Nat
    BY <1>2 DEF HeaderSize
  <2>2. /\ h \o body \in Seq(Byte) /\ Len(h \o body) = Len(h) + Len(body)
        /\ \A i \in 1 .. Len(h) + Len(body) :
             (h \o body)[i] = IF i <= Len(h) THEN h[i] ELSE body[i - Len(h)]
    BY <1>1, <1>4, ConcatProperties
  <2>3. \A i \in 1 .. HeaderSize : (h \o body)[i] = h[i]
    BY <1>1, <1>4, <2>1, <2>2
  <2>4. ASSUME NEW i \in 1 .. Len(body)
        PROVE  (h \o body)[i + HeaderSize] = body[i]
    <3>1. i + HeaderSize \in 1 .. Len(h) + Len(body) /\ ~(i + HeaderSize <= Len(h))
          /\ (i + HeaderSize) - Len(h) = i
      BY <1>1, <1>4, <2>1
    <3> QED BY <2>2, <3>1
  <2> QED BY <1>4, <2>2, <2>3, <2>4
<1>6. Frame(body) = h \o body
  BY DEF Frame
<1> QED
  <2> HIDE DEF h, f
  <2> 1 \in 1 .. HeaderSize /\ 2 \in 1 .. HeaderSize
      /\ \A i \in 1 .. FieldSize : i + 2 \in 1 .. HeaderSize
    BY <1>2 DEF HeaderSize
  <2> QED BY <1>1, <1>2, <1>4, <1>5, <1>6 DEF f

\* The length that is read from a header is the body's.
LEMMA LengthRead ==
    ASSUME NEW body \in Bodies, header \in Seq(Byte), Len(header) = HeaderSize,
           \A i \in 1 .. HeaderSize : header[i] = Frame(body)[i]
    PROVE  nLength = Len(body)
<1>1. FieldSize \in Nat \ {0} /\ HeaderSize = FieldSize + 2
  BY FieldAssumption DEF HeaderSize
<1>2. Field[Len(body)] \in Seq(Byte) /\ Len(Field[Len(body)]) = FieldSize
      /\ Len(body) \in DOMAIN Field
  BY FrameIs, FieldAssumption
<1> DEFINE s == SubSeq(header, 3, HeaderSize)
<1>3. s \in Seq(Byte) /\ Len(s) = FieldSize
      /\ \A i \in 1 .. FieldSize : s[i] = header[i + 2]
  BY <1>1
<1>4. \A i \in 1 .. FieldSize : s[i] = Field[Len(body)][i]
  <2> TAKE i \in 1 .. FieldSize
  <2>1. i + 2 \in 1 .. HeaderSize
    BY <1>1
  <2> QED BY <1>3, <2>1, FrameIs
<1>5. s = Field[Len(body)]
  <2> HIDE DEF s
  <2> QED BY <1>2, <1>3, <1>4, SeqEqual
<1>6. Length[s] = Len(body)
  BY <1>2, <1>5, FieldAssumption
<1> QED BY <1>6 DEF nLength

-----------------------------------------------------------------------------
(* The reader is where the stream is.                                      *)

Sendable == {body \in Bodies : Len(body) >= Shortest[kind]}

Aligned ==
    /\ pending = <<>> => off = 0
    /\ off = 0 => ntype = 0
    /\ pending # <<>> =>
         LET body == Head(pending)
         IN /\ off < Len(Frame(body))
            /\ off = 1 => ntype = 0 /\ m_byLastChar = H1
            /\ off > 1 /\ off < HeaderSize =>
                  /\ ntype = 1 /\ header \in Seq(Byte) /\ Len(header) = off
                  /\ \A i \in 1 .. off : header[i] = Frame(body)[i]
            /\ off >= HeaderSize =>
                  /\ ntype = 2 /\ header \in Seq(Byte) /\ Len(header) = HeaderSize
                  /\ \A i \in 1 .. HeaderSize : header[i] = Frame(body)[i]
                  /\ byPacket \in Seq(Byte) /\ Len(byPacket) = off - HeaderSize
                  /\ \A i \in 1 .. off - HeaderSize : byPacket[i] = body[i]

\* What has come, and what recv() has returned of it.
Counted == unread \in Nat /\ room \in Nat /\ room <= unread

\* While no answer is late, the file server owes what the reader waits for.
Owed ==
    /\ asked \in Nat
    /\ room > 0 => phase = "read"
    /\ phase = "connect" => kind = "transfer" /\ off = 0 /\ ~late
    /\ kind \in Servers /\ ~late /\ phase # "closed" =>
         /\ asked + Len(pending) = IF phase = "idle" THEN 0 ELSE 1
         /\ pending = <<>> => unread = 0
         /\ pending # <<>> => unread = Rest

Placed ==
    /\ pending \in Seq(Sendable) /\ off \in Nat
    /\ Aligned /\ Counted /\ Owed

Inv == kind \in Readers /\ (spoiled = "none" => Placed)

LEMMA HeaderIs == HeaderSize \in Nat /\ HeaderSize > 2
  BY FieldAssumption DEF HeaderSize

LEMMA InitInv == Init => Inv
<1> SUFFICES ASSUME Init PROVE Inv
  OBVIOUS
<1>1. kind \in Readers /\ pending \in Seq(Sendable) /\ off \in Nat
  BY DEF Init
<1>2. Aligned /\ Counted
  BY DEF Init, Aligned, Counted
<1>3. Owed
  BY DEF Init, Owed, FirstPhase, FirstAsked, Servers
<1> QED BY <1>1, <1>2, <1>3 DEF Inv, Placed

LEMMA SendPlaced ==
    ASSUME kind \in Readers, Placed, NEW body \in Bodies, Send(body)
    PROVE  Placed'
<1> USE DEF Placed, Send, parser
<1>1. Len(Frame(body)) \in Nat \ {0} /\ body \in Sendable /\ Sendable' = Sendable
  BY FrameIs, HeaderIs DEF Sendable
<1>2. Len(pending') = Len(pending) + 1 /\ pending' \in Seq(Sendable) /\ pending' # <<>>
  BY <1>1
<1>3. Counted'
  BY <1>1 DEF Counted
<1>4. asked' \in Nat /\ (kind \in Servers => asked > 0 /\ asked' = asked - 1)
  BY DEF Owed, MaySend
<1>5. CASE pending = <<>>
  <2>1. pending' = <<body>> /\ Head(pending') = body /\ Tail(pending') = <<>>
    BY <1>5
  <2>2. off = 0 /\ off' = 0 /\ ntype' = 0
    BY <1>5 DEF Aligned
  <2>3. Aligned'
    BY <1>1, <2>1, <2>2, HeaderIs DEF Aligned
  <2>4. unread' = unread + Len(Frame(body)) /\ Rest' = Len(Frame(body))
    BY <1>1, <2>1, <2>2 DEF Rest
  <2>5. Owed'
    <3>1. ASSUME kind \in Servers, ~late, phase # "closed"
          PROVE  /\ asked' + Len(pending') = IF phase' = "idle" THEN 0 ELSE 1
                 /\ unread' = Rest'
      <4>1. asked + Len(pending) = (IF phase = "idle" THEN 0 ELSE 1) /\ unread = 0
        BY <1>5, <3>1 DEF Owed
      <4> QED BY <1>1, <1>2, <1>4, <2>4, <3>1, <4>1 DEF Owed
    <3>2. /\ room' > 0 => phase' = "read"
          /\ phase' = "connect" => kind' = "transfer" /\ off' = 0 /\ ~late'
      BY DEF Owed
    <3> QED BY <1>2, <1>4, <3>1, <3>2 DEF Owed
  <2> QED BY <1>1, <1>2, <1>3, <2>2, <2>3, <2>5
<1>6. CASE pending # <<>>
  <2>1. ~(kind \in Servers /\ ~late /\ phase # "closed")
    <3> SUFFICES ASSUME kind \in Servers, ~late, phase # "closed" PROVE FALSE
      OBVIOUS
    <3>1. asked + Len(pending) <= 1 /\ asked > 0 /\ asked \in Nat
      BY <1>4 DEF Owed
    <3>2. Len(pending) \in Nat /\ Len(pending) > 0
      BY <1>6
    <3> QED BY ONLY <3>1, <3>2
  <2>2. pending' # <<>> /\ Head(pending') = Head(pending)
    <3>1. pending' = Append(pending, body) /\ pending \in Seq(Sendable)
      OBVIOUS
    <3>2. Len(pending) > 0 /\ Len(Append(pending, body)) = Len(pending) + 1
          /\ Append(pending, body)[1] = pending[1]
      BY <1>6, <3>1
    <3> QED BY ONLY <1>6, <3>1, <3>2
  <2>3. Aligned'
    BY <1>6, <2>2 DEF Aligned
  <2>4. Owed'
    BY <1>4, <2>1 DEF Owed
  <2> QED BY <1>1, <1>2, <1>3, <2>3, <2>4
<1> QED BY <1>5, <1>6

LEMMA RecvPlaced == ASSUME Placed, Recv PROVE Placed'
<1> USE DEF Placed, Recv, stream, parser, session, counts
<1>1. Aligned' /\ Sendable' = Sendable
  BY DEF Aligned, Sendable
<1>2. Counted'
  BY DEF Counted
<1>3. Owed'
  <2>1. Rest' = Rest
    BY DEF Rest
  <2> QED BY <2>1 DEF Owed
<1> QED BY <1>1, <1>2, <1>3

LEMMA AskPlaced == ASSUME Placed, Ask \/ TimedOut PROVE Placed'
<1> USE DEF Placed, Ask, TimedOut, stream, parser, counts
<1>1. Aligned' /\ Sendable' = Sendable
  BY DEF Aligned, Sendable
<1>2. Counted'
  BY DEF Counted
<1>3. Owed'
  <2>1. Rest' = Rest
    BY DEF Rest
  <2>2. CASE Ask
    BY <2>1, <2>2 DEF Owed, Counted
  <2>3. CASE TimedOut
    BY <2>1, <2>3 DEF Owed, Counted
  <2> QED BY <2>2, <2>3
<1> QED BY <1>1, <1>2, <1>3

\* ConnectFileSrv's own recv() takes the one frame there is.
LEMMA OneAnswer ==
    ASSUME Placed, phase = "connect", unread > 0
    PROVE  /\ pending # <<>> /\ Tail(pending) = <<>> /\ Head(pending) \in Sendable
           /\ unread = Rest /\ off = 0 /\ ntype = 0
<1> USE DEF Placed
<1>1. kind \in Servers /\ ~late /\ off = 0
  BY DEF Owed, Servers
<1>2. pending # <<>> /\ unread = Rest
  BY <1>1 DEF Owed
<1>3. asked \in Nat /\ asked + Len(pending) = 1
  BY <1>1 DEF Owed
<1>4. Len(pending) = 1
  <2>1. pending \in Seq(Sendable)
    OBVIOUS
  <2>2. Len(pending) \in Nat /\ Len(pending) > 0
    BY ONLY <1>2, <2>1
  <2> QED BY ONLY <1>3, <2>2
<1>5. Tail(pending) = <<>> /\ Head(pending) \in Sendable
  <2>1. pending \in Seq(Sendable)
    OBVIOUS
  <2>2. Tail(pending) \in Seq(Sendable) /\ Len(Tail(pending)) = 0
        /\ Head(pending) \in Sendable
    BY ONLY <1>2, <1>4, <2>1
  <2> QED BY ONLY <2>2, EmptySeq
<1> QED BY <1>1, <1>2, <1>5 DEF Aligned

LEMMA SwallowPlaced ==
    ASSUME Placed, Swallow, spoiled' = "none"
    PROVE  /\ Placed' /\ pending # <<>> /\ pending' = Tail(pending) /\ off' = 0
           /\ got' = Append(got, Head(pending))
<1> USE DEF Placed, parser, counts
<1>1. PICK n \in 1 .. unread :
         /\ Advance(n)
         /\ IF n = unread
            THEN got' = Append(got, Head(pending)) /\ UNCHANGED spoiled
            ELSE spoiled' = "answer cut" /\ UNCHANGED got
  BY DEF Swallow
<1>2. n = unread /\ unread \in Nat \ {0}
  BY <1>1 DEF Counted
<1>3. /\ pending # <<>> /\ Tail(pending) = <<>>
      /\ unread = Rest /\ off = 0 /\ ntype = 0
  BY <1>2, OneAnswer DEF Swallow
<1>4. pending' = <<>> /\ off' = 0 /\ unread' = 0
  BY <1>1, <1>2, <1>3 DEF Advance
<1>5. /\ phase' = "idle" /\ room' = room /\ ntype' = 0 /\ asked' = asked
      /\ kind' = kind /\ late' = late
  BY <1>3 DEF Swallow
<1>6. room = 0
  BY DEF Swallow, Owed, Counted
<1>7. asked = 0 /\ asked \in Nat
  <2>1. kind \in Servers /\ ~late
    BY DEF Swallow, Owed, Servers
  <2>2. asked \in Nat /\ asked + Len(pending) = 1
    BY <2>1 DEF Swallow, Owed
  <2>3. Len(pending) \in Nat /\ Len(pending) > 0
    BY <1>3
  <2> QED BY ONLY <2>2, <2>3
<1>8. Aligned' /\ Counted'
  BY <1>4, <1>5, <1>6 DEF Aligned, Counted
<1>9. Owed'
  BY <1>4, <1>5, <1>6, <1>7 DEF Owed
<1> QED BY <1>1, <1>2, <1>3, <1>4, <1>8, <1>9

LEMMA LosePlaced ==
    ASSUME kind \in Readers, Lose, spoiled' = "none", spoiled = "none" => Placed
    PROVE  Placed'
<1>1. /\ pending' = <<>> /\ off' = 0 /\ unread' = 0 /\ room' = 0 /\ kind' = kind
      /\ phase' = FirstPhase /\ asked' = FirstAsked /\ late' = FALSE
  BY DEF Lose
<1>2. ntype' = 0
  <2>1. CASE Reset
    BY <2>1 DEF Reset
  <2>2. CASE NotSeen
    BY <2>2 DEF NotSeen, parser
  <2> QED BY <2>1, <2>2 DEF Lose
<1>3. Aligned' /\ Counted'
  BY ONLY <1>1, <1>2 DEF Aligned, Counted
<1>4. Owed'
  BY ONLY <1>1, kind \in Readers DEF Owed, FirstPhase, FirstAsked, Servers, Readers
<1>5. pending' \in Seq(Sendable') /\ off' \in Nat
  BY ONLY <1>1
<1> QED BY <1>3, <1>4, <1>5 DEF Placed

-----------------------------------------------------------------------------
(* One byte.                                                               *)

Consume ==
    /\ room > 0 /\ pending # <<>> /\ spoiled = "none"
    /\ UNCHANGED <<kind, asked, late, counts>>

\* The frame that is being read, and where.
Place ==
    /\ pending # <<>> /\ Head(pending) \in Sendable /\ Head(pending) \in Bodies
    /\ Tail(pending) \in Seq(Sendable) /\ Len(pending) = Len(Tail(pending)) + 1
    /\ Len(Tail(pending)) \in Nat
    /\ Next1 = Frame(Head(pending))[off + 1] /\ Next1 \in Byte
    /\ off \in Nat /\ off < Len(Frame(Head(pending)))
    /\ Rest = Len(Frame(Head(pending))) - off
    /\ Len(Frame(Head(pending))) = HeaderSize + Len(Head(pending))
    /\ HeaderSize \in Nat /\ HeaderSize > 2
    /\ Len(Head(pending)) \in Nat \ {0}
    /\ room \in Nat \ {0} /\ unread \in Nat \ {0} /\ room <= unread
    /\ phase = "read"

LEMMA Here == ASSUME Placed, Consume PROVE Place
<1>1. /\ pending # <<>> /\ Head(pending) \in Sendable /\ Tail(pending) \in Seq(Sendable)
      /\ Len(pending) = Len(Tail(pending)) + 1 /\ Len(Tail(pending)) \in Nat
  BY DEF Placed, Consume
<1>2. HeaderSize \in Nat /\ HeaderSize > 2 /\ Head(pending) \in Bodies
  BY <1>1, HeaderIs DEF Sendable
<1>3. off \in Nat /\ off < Len(Frame(Head(pending)))
  BY <1>1 DEF Placed, Aligned
<1>4. Frame(Head(pending)) \in Seq(Byte)
      /\ Len(Frame(Head(pending))) = HeaderSize + Len(Head(pending))
      /\ Len(Head(pending)) \in Nat \ {0}
  BY <1>2, FrameIs
<1>5. off + 1 \in 1 .. Len(Frame(Head(pending)))
  BY <1>2, <1>3, <1>4
<1>6. Next1 \in Byte
  BY <1>4, <1>5, ElementOfSeq DEF Next1
<1>7. room \in Nat \ {0} /\ unread \in Nat \ {0} /\ room <= unread /\ phase = "read"
  BY DEF Placed, Counted, Owed, Consume
<1> QED BY <1>1, <1>2, <1>3, <1>4, <1>6, <1>7 DEF Place, Next1, Rest

LEMMA Moves ==
    ASSUME Placed, Consume, Advance(1)
    PROVE  /\ off + 1 = Len(Frame(Head(pending)))
                => pending' = Tail(pending) /\ off' = 0
           /\ off + 1 # Len(Frame(Head(pending)))
                => pending' = pending /\ off' = off + 1
           /\ unread' = unread - 1
<1>0. Place
  BY Here
<1> USE <1>0 DEF Place
<1>1. Rest \in Nat \ {0} /\ (Rest = 1 <=> off + 1 = Len(Frame(Head(pending))))
  BY FieldAssumption DEF HeaderSize
<1>2. ASSUME Rest = 1, Tail(pending) # <<>>
      PROVE  Len(Frame(Head(Tail(pending)))) \in Nat \ {0}
  <2> DEFINE body == Head(Tail(pending))
  <2>1. body \in Bodies
    BY <1>2 DEF Sendable
  <2> HIDE DEF body
  <2>2. Len(Frame(body)) = HeaderSize + Len(body) /\ Len(body) \in Nat
    BY ONLY <2>1, FrameIs
  <2>3. Len(Frame(body)) \in Nat \ {0}
    BY ONLY <2>2, HeaderIs
  <2> QED BY <2>3 DEF body
<1>3. CASE Rest = 1
  <2>1. 1 - Rest = 0 /\ ~(1 < Rest)
    BY <1>3
  <2> QED BY <1>1, <1>2, <1>3, <2>1 DEF Advance
<1>4. CASE Rest # 1
  <2>1. 1 < Rest /\ ~(1 >= Rest)
    BY <1>1, <1>4
  <2> QED BY <1>1, <1>4, <2>1 DEF Advance
<1> QED BY <1>3, <1>4

\* A byte that is read is counted, and what the server owes stays the same.
LEMMA Counts ==
    ASSUME Placed, Consume, Step, UNCHANGED phase,
           kind \in Servers /\ ~late => pending' = pending
    PROVE  Counted' /\ Owed'
<1>0. Place
  BY Here
<1> USE <1>0 DEF Place
<1>1. unread' = unread - 1 /\ room' = room - 1
  BY Moves DEF Step
<1>2. Counted'
  BY <1>1 DEF Counted
<1>3. kind' = kind /\ late' = late /\ asked' = asked /\ asked \in Nat /\ phase' = "read"
  BY DEF Consume, Placed, Owed
<1>4. ASSUME kind \in Servers, ~late
      PROVE  /\ asked' + Len(pending') = 1
             /\ pending' # <<>> /\ unread' = Rest'
  <2>1. pending' = pending /\ unread = Rest /\ asked + Len(pending) = 1
    BY <1>4 DEF Placed, Owed
  <2>2. off' = off + 1
    <3>1. CASE off + 1 = Len(Frame(Head(pending)))
      <4>1. Len(Tail(pending)) = Len(pending)
        BY <2>1, <3>1, Moves DEF Step
      <4> QED BY <4>1
    <3> QED BY <3>1, Moves DEF Step
  <2>3. Rest' = Rest - 1
    BY <2>1, <2>2 DEF Rest
  <2> QED BY <1>1, <1>3, <2>1, <2>3
<1>5. Owed'
  BY <1>3, <1>4 DEF Owed
<1> QED BY <1>2, <1>5

LEMMA FirstByte ==
    ASSUME Placed, Consume, ntype = 0
    PROVE  off \in {0, 1} /\ (off = 0 => Next1 = H1) /\ (off = 1 => IsStart(Next1))
<1>0. Place
  BY Here
<1> USE <1>0 DEF Place
<1>1. off \in {0, 1}
  BY DEF Placed, Aligned
<1>2. Frame(Head(pending))[1] = H1 /\ Frame(Head(pending))[2] = H2
  BY FrameIs
<1>3. off = 1 => m_byLastChar = H1
  BY DEF Placed, Aligned
<1>4. (off = 0 => Next1 = H1) /\ (off = 1 => Next1 = H2)
  BY <1>2
<1> QED BY <1>1, <1>3, <1>4 DEF IsStart

\* The reader's part of a step that stays in the frame.
LEMMA Inside ==
    ASSUME Placed, Consume, Step, UNCHANGED phase, Aligned',
           pending' = pending, off' = off + 1
    PROVE  Placed'
<1>1. Counted' /\ Owed'
  BY Counts
<1>2. Sendable' = Sendable
  BY DEF Consume, Sendable
<1> QED BY <1>1, <1>2 DEF Placed

LEMMA StartPlaced == ASSUME Placed, Consume, Start(Next1) PROVE Placed'
<1>0. Place
  BY Here
<1> USE <1>0 DEF Place
<1>1. ntype = 0 /\ Next1 = H2
  BY DEF Start, IsStart
<1>2. off = 1
  BY <1>1, FirstByte, ByteAssumption
<1>3. off' = off + 1 /\ pending' = pending
  <2>1. off + 1 # HeaderSize + Len(Head(pending))
    BY <1>2
  <2>2. off + 1 # Len(Frame(Head(pending)))
    BY <2>1
  <2> QED BY ONLY Placed, Consume, Start(Next1), <2>2, Moves DEF Start, Step
<1>4. /\ ntype' = 1 /\ header' \in Seq(Byte) /\ Len(header') = 2
      /\ header'[1] = H1 /\ header'[2] = H2
  BY ByteAssumption DEF Start
<1>5. \A i \in 1 .. 2 : header'[i] = Frame(Head(pending))[i]
  BY <1>4, FrameIs
<1>6. Aligned'
  BY <1>2, <1>3, <1>4, <1>5 DEF Aligned
<1> QED BY <1>3, <1>6, Inside DEF Start

LEMMA SkipPlaced == ASSUME Placed, Consume, Skip(Next1) PROVE Placed'
<1>0. Place
  BY Here
<1> USE <1>0 DEF Place
<1>1. off = 0 /\ Next1 = H1
  BY FirstByte DEF Skip
<1>2. off' = off + 1 /\ pending' = pending
  <2>1. off + 1 # HeaderSize + Len(Head(pending))
    BY <1>1
  <2>2. off + 1 # Len(Frame(Head(pending)))
    BY <2>1
  <2> QED BY ONLY Placed, Consume, Skip(Next1), <2>2, Moves DEF Skip, Step
<1>3. Aligned'
  BY <1>1, <1>2 DEF Aligned, Skip
<1> QED BY <1>2, <1>3, Inside DEF Skip

LEMMA FillHeaderPlaced == ASSUME Placed, Consume, FillHeader(Next1) PROVE Placed'
<1>0. Place
  BY Here
<1> USE <1>0 DEF Place
<1>1. ntype = 1
  BY DEF FillHeader
<1>2. /\ off > 1 /\ off < HeaderSize
      /\ header \in Seq(Byte) /\ Len(header) = off
      /\ \A i \in 1 .. off : header[i] = Frame(Head(pending))[i]
  BY <1>1 DEF Placed, Aligned
<1>3. off' = off + 1 /\ pending' = pending
  BY <1>2, Moves DEF FillHeader, Step
<1>4. header' \in Seq(Byte) /\ Len(header') = off'
      /\ \A i \in 1 .. off' : header'[i] = Frame(Head(pending))[i]
  <2>1. header' = Append(header, Next1)
    BY DEF FillHeader
  <2> QED BY <1>2, <1>3, <2>1
<1>5. Aligned'
  <2>1. CASE off' < HeaderSize
    <3>1. ntype' = 1
      BY <1>1, <1>2, <1>3, <2>1 DEF FillHeader
    <3> QED BY <1>2, <1>3, <1>4, <2>1, <3>1 DEF Aligned
  <2>2. CASE off' = HeaderSize
    <3>1. ntype' = 2 /\ byPacket' = <<>>
      BY <1>2, <1>3, <2>2 DEF FillHeader
    <3>2. byPacket' \in Seq(Byte) /\ Len(byPacket') = 0
      BY <3>1
    <3>3. off' < Len(Frame(Head(pending))) /\ off' > 1
      BY <2>2
    <3> QED BY <1>3, <1>4, <2>2, <3>1, <3>2, <3>3 DEF Aligned
  <2> QED BY <1>2, <1>3, <2>1, <2>2
<1> QED BY <1>3, <1>5, Inside DEF FillHeader

\* In the body, what the reader takes for the length is the length.
AtBody ==
    /\ off >= HeaderSize /\ nLength = Len(Head(pending))
    /\ header \in Seq(Byte) /\ Len(header) = HeaderSize
    /\ \A i \in 1 .. HeaderSize : header[i] = Frame(Head(pending))[i]
    /\ Len(byPacket) = off - HeaderSize
    /\ LET next == Append(byPacket, Next1)
       IN /\ next \in Seq(Byte) /\ Len(next) = off + 1 - HeaderSize
          /\ \A i \in 1 .. off + 1 - HeaderSize : next[i] = Head(pending)[i]

LEMMA InBody == ASSUME Placed, Consume, ntype = 2 PROVE AtBody
<1>0. Place
  BY Here
<1> USE <1>0 DEF Place
<1>1. off >= HeaderSize
  BY DEF Placed, Aligned
<1>2. /\ header \in Seq(Byte) /\ Len(header) = HeaderSize
      /\ \A i \in 1 .. HeaderSize : header[i] = Frame(Head(pending))[i]
      /\ byPacket \in Seq(Byte) /\ Len(byPacket) = off - HeaderSize
      /\ \A i \in 1 .. off - HeaderSize : byPacket[i] = Head(pending)[i]
  BY <1>1 DEF Placed, Aligned
<1>3. nLength = Len(Head(pending))
  BY <1>2, LengthRead
<1>4. Next1 = Head(pending)[off + 1 - HeaderSize]
  <2>1. off + 1 - HeaderSize \in 1 .. Len(Head(pending))
        /\ (off + 1 - HeaderSize) + HeaderSize = off + 1
    BY <1>1
  <2>2. Frame(Head(pending))[(off + 1 - HeaderSize) + HeaderSize]
          = Head(pending)[off + 1 - HeaderSize]
    BY <2>1, FrameIs
  <2> QED BY <2>1, <2>2
<1> DEFINE next == Append(byPacket, Next1)
<1>5. /\ next \in Seq(Byte) /\ Len(next) = Len(byPacket) + 1
      /\ next[Len(byPacket) + 1] = Next1
      /\ \A i \in 1 .. Len(byPacket) : next[i] = byPacket[i]
  <2>1. byPacket \in Seq(Byte) /\ Next1 \in Byte
    BY <1>2
  <2> QED BY ONLY <2>1
<1> HIDE DEF next
<1>6. ASSUME NEW i \in 1 .. off + 1 - HeaderSize
      PROVE  next[i] = Head(pending)[i]
  <2>1. CASE i = Len(byPacket) + 1
    <3>1. i = off + 1 - HeaderSize
      BY <1>1, <1>2, <2>1
    <3> QED BY <1>4, <1>5, <2>1, <3>1
  <2>2. CASE i # Len(byPacket) + 1
    <3>1. i \in 1 .. Len(byPacket) /\ i \in 1 .. off - HeaderSize
      BY <1>1, <1>2, <2>2
    <3> QED BY <1>2, <1>5, <3>1
  <2> QED BY <2>1, <2>2
<1>7. Len(next) = off + 1 - HeaderSize
  BY <1>1, <1>2, <1>5
<1> QED BY <1>1, <1>2, <1>3, <1>5, <1>6, <1>7 DEF AtBody, next

LEMMA FillPacketPlaced == ASSUME Placed, Consume, FillPacket(Next1) PROVE Placed'
<1>0. Place /\ AtBody
  BY Here, InBody DEF FillPacket, InPacket
<1> USE <1>0 DEF Place
<1>9. /\ off >= HeaderSize /\ nLength = Len(Head(pending))
      /\ Len(byPacket) = off - HeaderSize
      /\ off \in Nat /\ off < Len(Frame(Head(pending)))
      /\ Len(Frame(Head(pending))) = HeaderSize + Len(Head(pending))
      /\ HeaderSize \in Nat /\ Len(Head(pending)) \in Nat
  BY ONLY <1>0 DEF AtBody, Place
<1>8. ~(Len(byPacket) + 1 >= nLength)
  BY ONLY FillPacket(Next1) DEF FillPacket, Enough
<1>1. off + 1 # Len(Frame(Head(pending))) /\ off + 1 < Len(Frame(Head(pending)))
  BY ONLY <1>9, <1>8
<1>2. off' = off + 1 /\ pending' = pending
  BY <1>1, Moves DEF FillPacket, Step
<1>3. ntype' = 2 /\ header' = header /\ byPacket' = Append(byPacket, Next1)
  BY DEF FillPacket, InPacket
<1>4. Aligned'
  <2>1. off' > 1 /\ off' >= HeaderSize /\ off' < Len(Frame(Head(pending)))
    BY <1>1, <1>2 DEF AtBody
  <2>2. /\ header' \in Seq(Byte) /\ Len(header') = HeaderSize
        /\ \A i \in 1 .. HeaderSize : header'[i] = Frame(Head(pending))[i]
    BY <1>3 DEF AtBody
  <2>3. /\ byPacket' \in Seq(Byte) /\ Len(byPacket') = off' - HeaderSize
        /\ \A i \in 1 .. off' - HeaderSize : byPacket'[i] = Head(pending)[i]
    <3> DEFINE next == Append(byPacket, Next1)
    <3>1. /\ next \in Seq(Byte) /\ Len(next) = off + 1 - HeaderSize
          /\ \A i \in 1 .. off + 1 - HeaderSize : next[i] = Head(pending)[i]
      BY ONLY <1>0 DEF AtBody
    <3>2. byPacket' = next /\ off' = off + 1
      BY <1>2, <1>3
    <3>3. off' - HeaderSize = off + 1 - HeaderSize
      BY <3>2
    <3>4. byPacket' \in Seq(Byte) /\ Len(byPacket') = off' - HeaderSize
      BY ONLY <3>1, <3>2, <3>3
    <3>5. ASSUME NEW i \in 1 .. off' - HeaderSize
          PROVE  byPacket'[i] = Head(pending)[i]
      <4>1. i \in 1 .. off + 1 - HeaderSize
        BY ONLY <3>3, <3>5
      <4>2. next[i] = Head(pending)[i]
        BY ONLY <3>1, <4>1
      <4> HIDE DEF next
      <4> QED BY ONLY <3>2, <4>2
    <3> QED BY ONLY <3>4, <3>5
  <2> QED BY <1>2, <1>3, <2>1, <2>2, <2>3 DEF Aligned
<1> QED BY <1>2, <1>4, Inside DEF FillPacket

\* The reader hands over the body exactly when its last byte has come.
LEMMA Whole ==
    ASSUME Placed, Consume, Complete(Next1)
    PROVE  /\ off + 1 = Len(Frame(Head(pending)))
           /\ Append(byPacket, Next1) = Head(pending)
           /\ pending' = Tail(pending) /\ off' = 0
           /\ got' = Append(got, Head(pending))
           /\ unread' = unread - 1
           /\ kind \in Servers /\ ~late =>
                unread = 1 /\ asked = 0 /\ Tail(pending) = <<>>
<1>0. Place /\ AtBody
  BY Here, InBody DEF Complete, EndOfFrame, InPacket
<1> USE <1>0 DEF Place
<1>1. Len(byPacket) + 1 >= nLength
  BY DEF Complete, EndOfFrame, Enough
<1>9. /\ off >= HeaderSize /\ nLength = Len(Head(pending))
      /\ Len(byPacket) = off - HeaderSize
      /\ off \in Nat /\ off < Len(Frame(Head(pending)))
      /\ Len(Frame(Head(pending))) = HeaderSize + Len(Head(pending))
      /\ HeaderSize \in Nat /\ Len(Head(pending)) \in Nat
  BY ONLY <1>0 DEF AtBody, Place
<1>2. off + 1 = Len(Frame(Head(pending)))
  BY ONLY <1>1, <1>9
<1>3. Append(byPacket, Next1) = Head(pending)
  <2> DEFINE next == Append(byPacket, Next1)
  <2>1. next \in Seq(Byte) /\ Head(pending) \in Seq(Byte)
    BY FrameIs DEF AtBody
  <2>2. Len(next) = Len(Head(pending))
    BY <1>2 DEF AtBody
  <2>3. \A i \in 1 .. Len(next) : next[i] = Head(pending)[i]
    BY <1>2, <2>2 DEF AtBody
  <2> HIDE DEF next
  <2>4. next = Head(pending)
    BY <2>1, <2>2, <2>3, SeqEqual
  <2> QED BY <2>4 DEF next
<1>4. Rest = 1
  BY <1>2
<1>5. ASSUME kind \in Servers, ~late
      PROVE  room = 1 /\ unread = 1 /\ asked = 0 /\ Tail(pending) = <<>>
  <2>1. unread = Rest /\ asked \in Nat /\ asked + Len(pending) = 1
    BY <1>5 DEF Placed, Owed
  <2>2. asked = 0 /\ Len(Tail(pending)) = 0 /\ Tail(pending) \in Seq(Sendable)
    BY <2>1
  <2>3. Tail(pending) = <<>>
    BY ONLY <2>2, EmptySeq
  <2> QED BY <1>4, <2>1, <2>2, <2>3
<1>6. Advance(1)
  <2>1. CASE kind \in Servers
    BY <1>5, <2>1 DEF Complete, Return
  <2>2. CASE kind \notin Servers
    BY <2>2 DEF Complete, Step
  <2> QED BY <2>1, <2>2
<1>7. pending' = Tail(pending) /\ off' = 0 /\ unread' = unread - 1
  BY <1>2, <1>6, Moves
<1> QED BY <1>2, <1>3, <1>5, <1>7 DEF Complete

LEMMA CompletePlaced == ASSUME Placed, Consume, Complete(Next1) PROVE Placed'
<1>0. Place
  BY Here
<1> USE <1>0 DEF Place
<1>1. /\ pending' = Tail(pending) /\ off' = 0 /\ unread' = unread - 1
      /\ kind' = kind /\ late' = late /\ asked' = asked /\ Sendable' = Sendable
  BY Whole DEF Consume, Sendable
<1>2. Aligned'
  <2>1. ntype' = 0
    BY DEF Complete, EndOfFrame
  <2>2. pending' # <<>> => Head(pending') \in Bodies
    BY <1>1 DEF Sendable
  <2>3. pending' # <<>> => Len(Frame(Head(pending'))) \in Nat \ {0}
    BY <2>2, FrameIs
  <2> QED BY <1>1, <2>1, <2>3 DEF Aligned
<1>3. Counted' /\ Owed'
  <2>1. CASE kind \notin Servers
    BY <2>1, Counts DEF Complete
  <2>2. CASE kind \in Servers
    <3>1. room' = 0 /\ phase' = IF late THEN "closed" ELSE "idle"
      BY <2>2 DEF Complete, Return
    <3>2. Counted'
      BY <1>1, <3>1 DEF Counted
    <3>3. asked \in Nat
      BY DEF Placed, Owed
    <3>4. CASE late
      <4>1. phase' = "closed" /\ asked' \in Nat /\ ~(room' > 0)
        BY ONLY <1>1, <3>1, <3>3, <3>4
      <4>2. late'
        BY ONLY <1>1, <3>4
      <4> QED BY ONLY <3>2, <4>1, <4>2 DEF Owed
    <3>5. CASE ~late
      <4>1. pending' = <<>> /\ asked' = 0 /\ unread' = 0
        BY <1>1, <2>2, <3>5, Whole
      <4>2. phase' = "idle" /\ asked' \in Nat /\ ~(room' > 0)
        BY ONLY <3>1, <3>5, <4>1
      <4>3. asked' + Len(pending') = 0
        BY ONLY <4>1
      <4> QED BY ONLY <3>2, <4>1, <4>2, <4>3 DEF Owed
    <3> QED BY <3>2, <3>4, <3>5
  <2> QED BY <2>1, <2>2
<1> QED BY <1>1, <1>2, <1>3 DEF Placed

-----------------------------------------------------------------------------
(* A byte of a frame that is not its last, and one that is too many.       *)

Within == Start(Next1) \/ Skip(Next1) \/ FillHeader(Next1) \/ FillPacket(Next1)

LEMMA WithinStays ==
    ASSUME Placed, Consume, Within
    PROVE  pending' = pending /\ off' = off + 1 /\ got' = got /\ spoiled' = "none"
<1>0. Place
  BY Here
<1>1. off + 1 # Len(Frame(Head(pending)))
  <2>1. CASE ntype = 0
    BY <1>0, <2>1, FirstByte DEF Place
  <2>2. CASE ntype = 1
    BY <1>0, <2>2 DEF Placed, Aligned, Place
  <2>3. CASE FillPacket(Next1)
    <3>1. AtBody
      BY <2>3, InBody DEF FillPacket, InPacket
    <3>2. ~(Len(byPacket) + 1 >= nLength)
      BY <2>3 DEF FillPacket, Enough
    <3> QED BY ONLY <1>0, <3>1, <3>2 DEF AtBody, Place
  <2> QED BY <2>1, <2>2, <2>3 DEF Within, Start, IsStart, Skip, FillHeader
<1>2. Advance(1) /\ got' = got /\ spoiled' = spoiled
  BY DEF Within, Start, Skip, FillHeader, FillPacket, Step
<1> QED BY <1>1, <1>2, Moves DEF Consume

LEMMA NeverTooShort == ASSUME kind \in Readers, Placed, Consume PROVE ~TooShort(Next1)
<1> SUFFICES ASSUME TooShort(Next1) PROVE FALSE
  OBVIOUS
<1>1. Place /\ AtBody
  BY Here, InBody DEF TooShort, InPacket
<1>2. nLength >= Shortest[kind]
  BY <1>1 DEF AtBody, Place, Sendable
<1>3. nLength < Shortest[kind]
  BY DEF TooShort
<1>4. Shortest[kind] \in Nat
  BY ReaderAssumption
<1>5. nLength \in Nat
  BY <1>1 DEF AtBody, Place
<1> QED BY ONLY <1>2, <1>3, <1>4, <1>5

\* What a byte does while the reader has its place.
LEMMA OneByte ==
    ASSUME kind \in Readers, Placed, spoiled = "none", ReadByte
    PROVE  Consume /\ (Within \/ Overrun(Next1) \/ Complete(Next1))
<1>1. Consume
  BY DEF ReadByte, Consume
<1> QED BY <1>1, NeverTooShort DEF ReadByte, Within, Rejected

LEMMA BytePlaced ==
    ASSUME kind \in Readers, Placed, spoiled = "none", ReadByte, spoiled' = "none"
    PROVE  Placed'
<1>1. Consume /\ (Within \/ Complete(Next1))
  BY OneByte DEF Overrun
<1> QED BY <1>1, StartPlaced, SkipPlaced, FillHeaderPlaced, FillPacketPlaced,
           CompletePlaced DEF Within

-----------------------------------------------------------------------------
\* Whoever has lost his place finds it only with the next connection.
LEMMA StaysSpoiled ==
    ASSUME [Next]_vars, spoiled # "none", ~Lose
    PROVE  spoiled' # "none"
<1>1. CASE UNCHANGED vars
  BY <1>1 DEF vars
<1>2. CASE ReadByte
  BY <1>2 DEF ReadByte, Start, Skip, FillHeader, FillPacket, Overrun, TooShort,
              Complete, Rejected, EndOfFrame
<1>3. CASE Swallow
  BY <1>3 DEF Swallow
<1>4. CASE Recv \/ TimedOut \/ Ask
  BY <1>4 DEF Recv, TimedOut, Ask
<1>5. ASSUME NEW body \in Bodies, Send(body) PROVE spoiled' # "none"
  BY <1>5 DEF Send
<1> QED BY <1>1, <1>2, <1>3, <1>4, <1>5 DEF Next

LEMMA KindStays == ASSUME [Next]_vars PROVE kind' = kind
  BY DEF Next, vars, session, Recv, ReadByte, Swallow, TimedOut, Ask, Lose, Send

LEMMA StepInv == Inv /\ [Next]_vars => Inv'
<1> SUFFICES ASSUME Inv, [Next]_vars PROVE Inv'
  OBVIOUS
<1>1. kind \in Readers /\ kind' \in Readers
  BY KindStays DEF Inv
<1> SUFFICES ASSUME spoiled' = "none" PROVE Placed'
  BY <1>1 DEF Inv
<1>2. CASE Lose
  BY <1>1, <1>2, LosePlaced DEF Inv
<1>3. CASE ~Lose
  <2>1. Placed /\ spoiled = "none"
    BY <1>3, StaysSpoiled DEF Inv
  <2>2. CASE UNCHANGED vars
    <3>1. Rest' = Rest /\ Sendable' = Sendable
      BY <2>2 DEF vars, session, stream, Rest, Sendable
    <3> QED BY <2>1, <2>2, <3>1
            DEF vars, session, stream, parser, Placed, Aligned, Counted, Owed
  <2>3. CASE Next
    BY <1>1, <1>3, <2>1, <2>3, BytePlaced, RecvPlaced, AskPlaced, SwallowPlaced,
       SendPlaced DEF Next
  <2> QED BY <2>2, <2>3
<1> QED BY <1>2, <1>3

LEMMA InvHolds == Spec => []Inv
  BY InitInv, StepInv, PTL DEF Spec

-----------------------------------------------------------------------------
(* The reader keeps the promise of FrameStream.                            *)

LEMMA InitRefines == Init => Stream!Init
  BY DEF Init, Stream!Init

LEMMA SpoiledRefines ==
    ASSUME [Next]_vars, spoiled # "none"
    PROVE  Stream!Next
<1>1. CASE Lose /\ spoiled' = "none"
  <2>1. pending' = <<>> /\ off' = 0 /\ got' = got
    BY <1>1 DEF Lose
  <2>2. ~(off' > 0)
    BY ONLY <2>1
  <2> QED BY ONLY <1>1, <2>1, <2>2, spoiled # "none" DEF Stream!Next
<1>2. CASE ~(Lose /\ spoiled' = "none")
  <2>1. spoiled' # "none"
    BY <1>2, StaysSpoiled
  <2> QED BY <2>1 DEF Stream!Next, Stream!Garble
<1> QED BY <1>1, <1>2

LEMMA SwallowRefines ==
    ASSUME Placed, spoiled = "none", Swallow
    PROVE  Stream!HandOver \/ Stream!Break
<1>1. CASE spoiled' = "none"
  BY <1>1, SwallowPlaced DEF Stream!HandOver
<1>2. CASE spoiled' # "none"
  <2>1. PICK n \in 1 .. unread : Advance(n) /\ n # unread /\ got' = got
    BY <1>2 DEF Swallow
  <2>2. unread \in Nat /\ n \in Nat /\ n > 0 /\ n < unread
    BY <2>1 DEF Placed, Counted
  <2>3. unread = Rest /\ off = 0
    <3>1. phase = "connect"
      BY DEF Swallow
    <3>2. unread > 0
      BY ONLY <2>2
    <3> QED BY ONLY <3>1, <3>2, Placed, OneAnswer
  <2>4. pending' = pending /\ off' = n
    BY <2>1, <2>2, <2>3 DEF Advance
  <2> QED BY <1>2, <2>1, <2>2, <2>4 DEF Stream!Break
<1> QED BY <1>1, <1>2

LEMMA ByteRefines ==
    ASSUME kind \in Readers, Placed, spoiled = "none", ReadByte
    PROVE  Stream!Read \/ Stream!HandOver \/ Stream!Break
<1>1. Consume /\ Place /\ (Within \/ Overrun(Next1) \/ Complete(Next1))
  BY OneByte, Here
<1>2. CASE Within
  <2>1. pending' = pending /\ off' = off + 1 /\ got' = got /\ spoiled' = "none"
    BY <1>1, <1>2, WithinStays
  <2>2. pending # <<>> /\ off' > 0
    BY <1>1, <2>1 DEF Place
  <2> QED BY <2>1, <2>2 DEF Stream!Read
<1>3. CASE Overrun(Next1)
  <2>1. off > 0
    <3>1. off \in Nat /\ (off = 0 => ntype = 0)
      BY DEF Placed, Aligned
    <3>2. ntype = 2
      BY <1>3 DEF Overrun
    <3> QED BY ONLY <3>1, <3>2
  <2> QED BY <1>3, <2>1 DEF Overrun, stream, Stream!Break
<1>4. CASE Complete(Next1)
  <2>1. pending' = Tail(pending) /\ off' = 0 /\ got' = Append(got, Head(pending))
    BY <1>1, <1>4, Whole
  <2>2. pending # <<>> /\ spoiled' = "none"
    BY <1>1, <1>4 DEF Place, Complete, EndOfFrame
  <2> QED BY <2>1, <2>2 DEF Stream!HandOver
<1> QED BY <1>1, <1>2, <1>3, <1>4

LEMMA LoseRefines ==
    ASSUME Placed, spoiled = "none", Lose
    PROVE  Stream!Lose
<1>1. ~(off > 0) => spoiled' = "none"
  <2>1. off \in Nat /\ (off = 0 => ntype = 0)
    BY DEF Placed, Aligned
  <2>2. ~(off > 0) => ntype = 0
    BY ONLY <2>1
  <2> QED BY <2>2 DEF Lose, Reset, NotSeen
<1> QED BY <1>1 DEF Lose, Stream!Lose

LEMMA StepRefines == Inv /\ [Next]_vars => [Stream!Next]_(Stream!vars)
<1> SUFFICES ASSUME Inv, [Next]_vars PROVE [Stream!Next]_(Stream!vars)
  OBVIOUS
<1>1. CASE spoiled # "none"
  BY <1>1, SpoiledRefines
<1>2. CASE spoiled = "none"
  <2>0. kind \in Readers /\ Placed
    BY <1>2 DEF Inv
  <2>1. CASE UNCHANGED vars \/ Recv \/ Ask \/ TimedOut
    BY <2>1 DEF vars, Recv, Ask, TimedOut, stream, Stream!vars
  <2>2. ASSUME NEW body \in Bodies, Send(body) PROVE Stream!Next
    BY <1>2, <2>2 DEF Send, Stream!Next, Stream!Send
  <2>3. CASE Swallow
    BY <1>2, <2>0, <2>3, SwallowRefines DEF Stream!Next
  <2>4. CASE ReadByte
    BY <1>2, <2>0, <2>4, ByteRefines DEF Stream!Next
  <2>5. CASE Lose
    BY <1>2, <2>0, <2>5, LoseRefines DEF Stream!Next
  <2> QED BY <2>1, <2>2, <2>3, <2>4, <2>5 DEF Next
<1> QED BY <1>1, <1>2

(* The frames a peer sends are handled whole, in order and once, whatever  *)
(* they contain and wherever recv() cuts them, and although answers come   *)
(* late: until a connection is replaced inside a frame, an answer is taken *)
(* in part, or a frame is longer than byPacket, and again from the next    *)
(* start of the reader.                                                    *)
(* (faxgw.cpp:225-321, FileSession.cpp:791-874, 1139-1199, 2044-2188,      *)
(* TcpSession.cpp:1277-1353)                                               *)
THEOREM FramesComeThrough == Spec => Implements
  BY InitRefines, StepRefines, InvHolds, PTL
     DEF Spec, Implements, Stream!Spec
=============================================================================
