----------------------------- MODULE OtaSystem -----------------------------
(***************************************************************************)
(* The Android client and the gateway, joined by TCP connections.          *)
(*                                                                         *)
(* Client steps are those of UpdateGateway.  The gateway takes frames in   *)
(* the order they were sent, runs handle_upgrade_packet on each (Upgrade)  *)
(* and sends the reply back on the connection the frame came from, as      *)
(* server_recv does.  A reset of the gateway loses what is in transit and  *)
(* every connection.                                                       *)
(***************************************************************************)
EXTENDS Upgrade

CONSTANTS Files, IVSeq, Calm, MaxChooses, MaxStops,
    PowerFails,     \* the gateway may lose power
    Patient         \* the user keeps to UserWaits and TapsFresh

ASSUME FileAssumption ==
    Files \subseteq [content : Seq(Data), short : BOOLEAN, format : BOOLEAN]
ASSUME FrameAssumption == IVSeq \in Seq(IVs) /\ MAX_PLAINTEXT_LEN \in LENS

VARIABLES file, bFileFormat, bUpdate, FrameSequence, bDataSend, bCommandSend,
    bCommandGetverison, bDataAckError, bFileReadOver, randomIv, opened, fis, baos, mFileCRC,
    progress, dialog, mHandler, ui, link, reader, conn, toDevice, toHost, chooses, stops,
    execs           \* history: the gateway has accepted an EXEC since the last tap

\* CRC-32 of the padded chunks, as the device reports it; that of nothing is 0.
CrcOfChunks(s) ==
    IF s = <<>> THEN CrcZero
    ELSE Crc([i \in 1 .. 2 * Len(s) |-> Page(s[(i + 1) \div 2], 1 - (i % 2), MAX_PLAINTEXT_LEN)],
             MAX_PLAINTEXT_LEN * Len(s))

Host == INSTANCE UpdateGateway

hostOnly ==
    <<file, bFileFormat, bUpdate, FrameSequence, bDataSend, bCommandSend,
      bCommandGetverison, bDataAckError, bFileReadOver, randomIv, opened, fis, baos, mFileCRC,
      progress, dialog, mHandler, ui, reader, conn, chooses, stops>>

sysVars == <<vars, hostOnly, link, toDevice, toHost, execs>>

SysInit ==
    /\ Init
    /\ Host!Init
    /\ execs = FALSE

\* A user who starts the application again does what the alert asks ("wait for
\* 3 seconds for ethernet reboot") before choosing a file for another update,
\* which also outlasts what is still on its way to the gateway.
UserWaits ==
    chooses' # chooses /\ ~bFileFormat => ~switching /\ toDevice = <<>>

\* A tap finds the application as it was started and nothing under way.
Fresh ==
    /\ ~bDataSend /\ ~bCommandSend /\ ~bCommandGetverison /\ ~bDataAckError /\ ~bFileReadOver
    /\ fis = 0 /\ baos = <<>> /\ ui = "idle"
    /\ mHandler = <<>> /\ toDevice = <<>> /\ toHost = <<>>

TapsFresh == randomIv' # randomIv => Fresh

HostStep ==
    /\ Host!User \/ Host!handleMessage \/ Host!Reader
    /\ Patient => UserWaits /\ TapsFresh
    /\ execs' = (execs /\ randomIv' = randomIv)
    /\ UNCHANGED vars

\* One call of handle_upgrade_packet, on a given frame.
HandlePacket(f, fault) ==
    \/ InvalidPacket(f)
    \/ f.type = "AUTHENTICATED_FRAME" /\ Authenticate(f)
    \/ f.type # "AUTHENTICATED_FRAME" /\ NotAuthenticated(f)
    \/ /\ f.type = "DATA_FRAME"
       /\ DataRefused(f) \/ DataOutOfOrder(f) \/ DataStore(f, fault)
    \/ f.type = "COMMAND_FRAME" /\ Command(f)

\* server_recv on a frame: the handler, then the reply.
server_recv(fault) ==
    /\ toDevice # <<>>
    /\ LET e == Head(toDevice)
       IN /\ HandlePacket(e.frame, fault)
          /\ toDevice' = Tail(toDevice)
          /\ toHost' = IF e.conn = conn /\ link = "up" THEN Append(toHost, ack') ELSE toHost
          /\ execs' = (execs \/ (switching' /\ e.frame.type = "COMMAND_FRAME"
                                            /\ e.frame.cmd = "EXEC"))
    /\ UNCHANGED <<hostOnly, link>>

\* TCPClient.sendBytes writes the length of the frame before the frame.  When
\* TCP carries both in one segment, server_recv does not see the header it looks
\* for, and the frame goes to the UART without a reply.
FrameToUart ==
    /\ ~Calm
    /\ toDevice # <<>>
    /\ toDevice' = Tail(toDevice)
    /\ UNCHANGED <<vars, hostOnly, link, toHost, execs>>

\* A restart of the gateway drops its connections.  On a calm network the
\* three seconds before a switch are enough for the reply to EXEC to arrive.
DeviceRestart ==
    /\ \/ /\ Calm => toHost = <<>>
          /\ \E done \in BOOLEAN : code_switching(done)
       \/ PowerFails /\ PowerLoss
    /\ toDevice' = <<>>
    /\ toHost' = <<>>
    /\ link' = IF link = "up" THEN "reset" ELSE link
    /\ UNCHANGED <<hostOnly, execs>>

SysNext ==
    \/ HostStep
    \/ \E fault \in PageFaults : server_recv(fault)
    \/ FrameToUart
    \/ DeviceRestart

SysSpec == SysInit /\ [][SysNext]_sysVars

\* Both threads of the client keep running, TCP delivers, the main loop of the
\* gateway takes what arrives and polls the switching timer.
Fairness ==
    /\ WF_sysVars(Host!handleMessage /\ UNCHANGED <<vars, execs>>)
    /\ WF_sysVars(Host!Reader /\ UNCHANGED <<vars, execs>>)
    /\ WF_sysVars(\E fault \in PageFaults : server_recv(fault))
    /\ WF_sysVars(DeviceRestart)

FairSpec == SysSpec /\ Fairness
-----------------------------------------------------------------------------
\* The standby bank holds every chunk of the file of the last transfer, in order.
WholeFile ==
    \A i \in 1 .. Len(opened.content), h \in {0, 1} :
        Standby[2 * (i - 1) + h] = Page(opened.content[i], h, MAX_PLAINTEXT_LEN)

\* From the moment the gateway accepts EXEC until it resets, the bank it is
\* about to boot holds the whole of one file, the one the transfer opened, even
\* if the user has picked another since: the client asks for the switch only
\* after the CRCs agree, and nothing is written behind its back in the three
\* seconds that follow.
BootsWholeFile == switching => WholeFile

\* The client reports "Update OK" only if the gateway has accepted an EXEC since
\* the tap the report answers.
UpdateOKIsTrue == dialog = "Update OK" => execs

\* A tap on Update leads to "Update OK", or to "Timeout" if the gateway
\* reported an error.
UpdateEnds ==
    bUpdate ~> \/ dialog = "Update OK"
               \/ dialog = "Timeout" /\ bDataAckError
=============================================================================
