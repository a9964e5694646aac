--------------------------- MODULE MCWebSocketLibrary ---------------------------
(***************************************************************************)
(* The models of the WebSocket library side by side: a behaviour is one of *)
(* one part, chosen at the start, and the other part stays as it was. The  *)
(* instance of each part:                                                  *)
(*   client     servers that upgrade, that say so in another order, that   *)
(*              leave a header out, refuse, or answer with another key;    *)
(*              frames with every piece of a header;                       *)
(*   frames     lengths on both sides of each boundary: of the three forms *)
(*              of a length, of the copy, of what the reader accepts, and  *)
(*              of a byte of the length.                                   *)
(***************************************************************************)
EXTENDS WebSocketClient, WebSocketFrames

VARIABLE part
libraryVars == <<part, clientVars, frameVars>>

L(name, ok) == [name |-> name, ok |-> ok]
Upgrading == <<L("status", TRUE), L("connection", TRUE), L("upgrade", TRUE), L("accept", TRUE), L("blank", TRUE)>>
WithoutConnection == <<L("status", TRUE), L("upgrade", TRUE), L("accept", TRUE), L("protocol", TRUE), L("blank", TRUE)>>
WithoutUpgrade == <<L("status", TRUE), L("connection", TRUE), L("accept", TRUE), L("blank", TRUE)>>
WrongKey == <<L("status", TRUE), L("connection", TRUE), L("upgrade", TRUE), L("accept", FALSE), L("blank", TRUE)>>
WithoutKey == <<L("connection", TRUE), L("status", TRUE), L("upgrade", TRUE), L("blank", TRUE)>>
Refusing == <<L("status", FALSE), L("connection", TRUE), L("upgrade", TRUE), L("accept", TRUE), L("blank", TRUE)>>
SomeAnswers == {Upgrading, WithoutConnection, WithoutUpgrade, WrongKey, WithoutKey, Refusing}

F(op, fin, size, masked) == [op |-> op, fin |-> fin, size |-> size, masked |-> masked]
SomeFrames == {F("binary", TRUE, "short", FALSE), F("text", TRUE, "eight", TRUE), F("binary", FALSE, "two", FALSE),
               F("continuation", TRUE, "short", FALSE), F("ping", TRUE, "none", FALSE),
               F("binary", TRUE, "huge", FALSE), F("close", TRUE, "short", FALSE), F("unknown", TRUE, "none", TRUE)}

SomeLengths == {0, 1, 125, 126, 255, 256, 1399, 1400, 15360, 15361, 65534, 65535, 65536, 16777216, 2147483000}

LibraryInit == part \in {"client", "frames"} /\ ClientInit /\ FramesInit
LibraryNext ==
  /\ UNCHANGED part
  /\ \/ part = "client" /\ ClientNext /\ UNCHANGED frameVars
     \/ part = "frames" /\ FramesNext /\ UNCHANGED clientVars

(* The fairness of the client asks nothing of a behaviour of the frames:   *)
(* without a connection its actions are not enabled.                       *)
LibrarySpec ==
  /\ LibraryInit /\ [][LibraryNext]_libraryVars
  /\ LoopIsCalled
=============================================================================
