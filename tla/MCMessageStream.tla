--------------------------- MODULE MCMessageStream ---------------------------
(***************************************************************************)
(* Messages for MessageStream: a handshake, telemetry whose data holds the *)
(* header and the trailer of a message, and an answer to common settings.  *)
(***************************************************************************)
EXTENDS MessageStream

Handshake == <<177, 1, 1, 64, 243, 13, 10>>

\* Work current and travelled distance hold B1 02, speed holds 0D 0A.  What lies
\* between them has the form of a message with a right checksum but the wrong
\* length; with the handshake behind it the read that starts at that B1 is 22
\* bytes, the length of telemetry, and its checksum is wrong.
Telemetry == <<177, 2, 6, 100, 64, 32, 0, 177, 2, 142, 0, 0, 65, 13, 10, 0, 50, 0, 64,
               (177+2+6+100+64+32+0+177+2+142+0+0+65+13+10+0+50+0+64) % 256, 13, 10>>

Settings == <<177, 3, 4, 30, 0, 64, 160, 0, 0, 64, 160, 0, 0, 64, 214, 13, 10>>

RobotMessages == {Handshake, Telemetry, Settings}

\* These messages are such that nothing but a message as it was sent is acted on,
\* by the theorem NoPhantoms, in streams of any length.  (NoneHidden is false as
\* soon as analysisAccepts leaves out the length or the checksum.)  Telemetry holds
\* a header inside, so that they are not of the simpler kind of NoPhantomsByHeader.
ASSUME HeadersInside == ~HeadersOnlyAtStart
ASSUME NoneHidden == Unambiguous
=============================================================================
