---------------------------- MODULE MessageStream ----------------------------
(***************************************************************************)
(* From the bytes of the TCP stream to the messages the app acts on:       *)
(* MyDecoder hands over whatever bytes one read found, onMessageResponse-  *)
(* Client glues such chunks together in firstData, and analysisData takes  *)
(* what it is given for a message if header, length and checksum agree.    *)
(* firstData outlives a connection.                                        *)
(*                                                                         *)
(* Bytes are numbers; a byte in flight is a cell, which also remembers the *)
(* connection and the frame it was sent in.  The code sees only the byte.  *)
(***************************************************************************)
EXTENDS Naturals, SequencesExt

CONSTANTS Messages,     \* what the robot sends, byte by byte
          MaxSent,      \* bound: messages sent in one connection
          MaxStreams    \* bound: connections made

VARIABLES sent,       \* per connection, the messages sent in it
          wire,       \* the cells of this connection not read yet
          firstData,  \* the field: cells kept from earlier chunks
          accepted,   \* the messages analysisData acted on, oldest first
          spoilt      \* history: frames lost with a connection or badly cut

streamVars == <<sent, wire, firstData, accepted, spoilt>>

Conn == Len(sent)

CellsOf(m, c, k) ==
  [i \in DOMAIN m |-> [byte |-> m[i], conn |-> c, frame |-> k, at |-> i]]

Cells(c, k) == CellsOf(sent[c][k], c, k)

Bytes(s) == [i \in DOMAIN s |-> s[i].byte]

Frames == UNION {{c} \X DOMAIN sent[c] : c \in 1..Conn}

StreamInit ==
  sent = << <<>> >> /\ wire = <<>> /\ firstData = <<>> /\ accepted = <<>> /\ spoilt = {}

-----------------------------------------------------------------------------
(* The text the code sees is two hexadecimal digits a byte, so that its    *)
(* prefixes, suffixes and lengths are those of the bytes.                  *)

startsWithB1(b) == b # <<>> /\ b[1] = 177                                \* B1
endsWith0D0A(b) == Len(b) > 1 /\ b[Len(b) - 1] = 13 /\ b[Len(b)] = 10

\* ByteDataChange.HexStringToBytes: the sum's low eight bits.
Checksum(b) == FoldLeft(+, 0, b) % 256

\* The bytes of a message of each kind, trailer included.
MessageLength == <<7, 22, 17, 19>>

HasKindAndLength(b) ==
  Len(b) > 1 /\ b[1] = 177 /\ b[2] \in 1..4 /\ Len(b) = MessageLength[b[2]]

\* The conditions under which analysisData acts on its argument.
analysisAccepts(b) ==
  HasKindAndLength(b) /\ Checksum(SubSeq(b, 1, Len(b) - 3)) = b[Len(b) - 2]

\* The robot sends what analysisData and the framing expect.
ASSUME MessageAssumption ==
  /\ MaxSent \in Nat /\ MaxStreams \in Nat \ {0}
  /\ \A m \in Messages : m \in Seq(0..255) /\ analysisAccepts(m) /\ endsWith0D0A(m)

\* No run of bytes that starts in one of the messages and goes on into those sent
\* after it is taken for a message, but the message itself.  A run that is has
\* at most 22 bytes, so that it ends in the fourth message.
Unambiguous ==
  \A a, b, c, d \in Messages :
    LET run == a \o b \o c \o d
    IN \A i \in 1..Len(a), j \in 1..Len(run) :
         analysisAccepts(SubSeq(run, i, j)) => i = 1 /\ j = Len(a)

\* No message holds a header and a kind but those it begins with.
HeadersOnlyAtStart ==
  \A m \in Messages : \A i \in 1..(Len(m) - 1) : m[i] = 177 /\ m[i + 1] \in 1..4 => i = 1

analysisData(s) ==
  accepted' = IF analysisAccepts(Bytes(s)) THEN Append(accepted, s) ELSE accepted

\* Seeded fault: a chunk that starts a message is added to firstData as well.
onMessageResponseClient_Appends(backData) ==
  \/ /\ startsWithB1(Bytes(backData)) /\ endsWith0D0A(Bytes(backData))
     /\ firstData' = <<>>
     /\ analysisData(backData)
  \/ /\ startsWithB1(Bytes(backData)) /\ ~endsWith0D0A(Bytes(backData))
     /\ firstData' = firstData \o backData
     /\ UNCHANGED accepted
  \/ /\ ~startsWithB1(Bytes(backData)) /\ endsWith0D0A(Bytes(backData)) /\ firstData # <<>>
     /\ firstData' = <<>>
     /\ analysisData(firstData \o backData)
  \/ /\ ~startsWithB1(Bytes(backData)) /\ endsWith0D0A(Bytes(backData)) /\ firstData = <<>>
     /\ UNCHANGED <<firstData, accepted>>
  \/ /\ ~startsWithB1(Bytes(backData)) /\ ~endsWith0D0A(Bytes(backData))
     /\ firstData' = firstData \o backData
     /\ UNCHANGED accepted

\* Seeded fault: what a message was completed with stays in firstData.
onMessageResponseClient_Keeps(backData) ==
  \/ /\ startsWithB1(Bytes(backData)) /\ endsWith0D0A(Bytes(backData))
     /\ UNCHANGED firstData
     /\ analysisData(backData)
  \/ /\ startsWithB1(Bytes(backData)) /\ ~endsWith0D0A(Bytes(backData))
     /\ firstData' = backData
     /\ UNCHANGED accepted
  \/ /\ ~startsWithB1(Bytes(backData)) /\ endsWith0D0A(Bytes(backData))
     /\ UNCHANGED firstData
     /\ analysisData(firstData \o backData)
  \/ /\ ~startsWithB1(Bytes(backData)) /\ ~endsWith0D0A(Bytes(backData))
     /\ firstData' = firstData \o backData
     /\ UNCHANGED accepted

onMessageResponseClient(backData) ==
  \/ /\ startsWithB1(Bytes(backData)) /\ endsWith0D0A(Bytes(backData))
     /\ firstData' = <<>>
     /\ analysisData(backData)
  \/ /\ startsWithB1(Bytes(backData)) /\ ~endsWith0D0A(Bytes(backData))
     /\ firstData' = backData
     /\ UNCHANGED accepted
  \/ /\ ~startsWithB1(Bytes(backData)) /\ endsWith0D0A(Bytes(backData)) /\ firstData # <<>>
     /\ firstData' = <<>>
     /\ analysisData(firstData \o backData)
  \/ /\ ~startsWithB1(Bytes(backData)) /\ endsWith0D0A(Bytes(backData)) /\ firstData = <<>>
     /\ UNCHANGED <<firstData, accepted>>
  \/ /\ ~startsWithB1(Bytes(backData)) /\ ~endsWith0D0A(Bytes(backData))
     /\ firstData' = firstData \o backData
     /\ UNCHANGED accepted

-----------------------------------------------------------------------------
Touched(s) == {<<s[i].conn, s[i].frame>> : i \in DOMAIN s}

\* A chunk that the framing can take its part of a frame from: it holds bytes
\* of one frame only, does not go on with a data byte B1, does not stop at data
\* bytes 0D 0A, and has the frame's trailer in one piece.
CutCleanly(s) ==
  LET last == Len(sent[s[1].conn][s[1].frame])
  IN /\ \A i \in DOMAIN s : s[i].frame = s[1].frame
     /\ s[1].at > 1 => ~startsWithB1(Bytes(s))
     /\ s[Len(s)].at < last => ~endsWith0D0A(Bytes(s))
     /\ s[Len(s)].at = last => Len(s) > 1

\* The robot writes a message into the stream.
RobotSends ==
  /\ Len(sent[Conn]) < MaxSent
  /\ \E m \in Messages :
        /\ sent' = [sent EXCEPT ![Conn] = Append(@, m)]
        /\ wire' = wire \o CellsOf(m, Conn, Len(sent[Conn]) + 1)
  /\ UNCHANGED <<firstData, accepted, spoilt>>

\* One read finds the next n bytes.
channelRead ==
  /\ \E n \in 1..Len(wire) :
       LET backData == SubSeq(wire, 1, n)
       IN /\ wire' = SubSeq(wire, n + 1, Len(wire))
          /\ onMessageResponseClient(backData)
          /\ spoilt' = IF CutCleanly(backData) THEN spoilt ELSE spoilt \cup Touched(backData)
  /\ UNCHANGED sent

\* The connection is lost with what was not read, and NettyTcpClient makes
\* another; nothing resets firstData.
Reconnect ==
  /\ Conn < MaxStreams
  /\ sent' = Append(sent, <<>>) /\ wire' = <<>>
  /\ spoilt' = spoilt \cup Touched(wire)
  /\ UNCHANGED <<firstData, accepted>>

StreamNext == RobotSends \/ channelRead \/ Reconnect

StreamSpec == StreamInit /\ [][StreamNext]_streamVars

-----------------------------------------------------------------------------
(* Properties *)

\* What a variable holds is made of cells of frames that were sent, and what was
\* accepted has a kind and that kind's length.
StreamTypeOK ==
  /\ Conn \in 1..MaxStreams /\ \A c \in 1..Conn : sent[c] \in Seq(Messages) /\ Len(sent[c]) <= MaxSent
  /\ \A s \in {wire, firstData} : \A i \in DOMAIN s : <<s[i].conn, s[i].frame>> \in Frames
  /\ \A m \in Range(accepted) : HasKindAndLength(Bytes(m))
  /\ spoilt \subseteq Frames

\* No phantom message: whatever the chunks and the lost connections, what the
\* app acts on is a frame as the robot sent it, from one connection.
OnlySentFrames ==
  \A m \in Range(accepted) : \E f \in Frames : m = Cells(f[1], f[2])

\* firstData never mixes connections: what an earlier one left behind is gone
\* with the first chunk of the next.
NoMixedConnections ==
  \A i, j \in DOMAIN firstData : firstData[i].conn = firstData[j].conn

\* Whatever came before it, a frame that was read to its end and cut cleanly
\* has been acted on.
CleanFramesArrive ==
  \A f \in Frames \ (spoilt \cup Touched(wire)) : Cells(f[1], f[2]) \in Range(accepted)

\* Cell x was sent before cell y.
Before(x, y) ==
  \/ x.conn < y.conn
  \/ x.conn = y.conn /\ x.frame < y.frame
  \/ x.conn = y.conn /\ x.frame = y.frame /\ x.at < y.at

\* Messages are acted on in the order in which they were sent, and no byte that
\* was acted on is used again, however chunks are glued and firstData is carried
\* over from read to read and from connection to connection.
ActsInOrder ==
  \A m, n \in DOMAIN accepted : m < n =>
    \A i \in DOMAIN accepted[m], j \in DOMAIN accepted[n] : Before(accepted[m][i], accepted[n][j])

\* "黏包处理" (sticky packets are handled): every frame read is acted on however
\* the stream is cut.
EveryFrameArrives ==
  \A f \in Frames \ Touched(wire) : Cells(f[1], f[2]) \in Range(accepted)
=============================================================================
