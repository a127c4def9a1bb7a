--------------------------- MODULE UpdateGateway ---------------------------
(***************************************************************************)
(* The Android client: UpdateGateway.java (the activity and its message    *)
(* handler, on the UI thread) and TCPClient.java (the socket and the       *)
(* reader thread, which runs messageReceived).                             *)
(*                                                                         *)
(* The two threads share the activity's flags.  A case of handleMessage    *)
(* that sends a frame is two steps here, because the code sets the flag    *)
(* that tells the reader what to expect only after the send has returned:  *)
(* the first step is everything up to the send, the second the flag.       *)
(* A run of messageReceived is one step.                                   *)
(*                                                                         *)
(* A file is a record: content, the sequence of its chunks; short, its     *)
(* last chunk has less than 1024 bytes; format, it carries the mark        *)
(* PreCheckVersion looks for.  Frames and replies are those of Upgrade;    *)
(* CrcOfChunks(s) is the reply a device gives to GET_CRC when it holds     *)
(* exactly the chunks of s.  CRC values whose upper half is 0xffff, which  *)
(* the reader takes for a status, are left out.                            *)
(***************************************************************************)
EXTENDS Naturals, Sequences

CONSTANTS
    Files,              \* files the user may choose
    IVSeq,              \* the random IVs of successive authentication frames
    CrcOfChunks(_),     \* CRC-32 of a sequence of chunks, as GET_CRC reports it
    Calm,               \* TRUE: no reply overtakes the handler that waits for it,
                        \* and a read times out only when nothing is under way
    MaxChooses,         \* bound on the number of times the user chooses a file
    MaxStops            \* bound on the number of times the activity stops or restarts

VARIABLES
    file,               \* the file mPath names
    bFileFormat, bUpdate, FrameSequence, bDataSend, bCommandSend,
    bCommandGetverison, bDataAckError, bFileReadOver,
    randomIv,           \* number of authentication frames made so far
    opened,             \* the file fis was opened on, which mPath may no longer name
    fis,                \* chunks read from it since then
    baos,               \* the chunks sent, for the CRC
    mFileCRC,
    progress,           \* the progress dialog, which blocks the buttons, is up
    dialog,             \* the last alert: "none", "Update OK" or "Timeout"
    mHandler,           \* messages posted to the handler
    ui,                 \* what the UI thread does after the send: see FinishSend
    link,               \* the socket: "up", "closed", or "reset" by the peer
    reader,             \* TCPClient.run is in its loop
    conn,               \* number of the connection
    toDevice, toHost,   \* what travels on the connections
    chooses, stops      \* counters of the bounds

flags == <<bFileFormat, bUpdate, FrameSequence, bDataSend, bCommandSend,
           bCommandGetverison, bDataAckError, bFileReadOver>>
work == <<randomIv, opened, fis, baos, mFileCRC>>
screen == <<file, progress, dialog>>
net == <<link, reader, conn, toDevice, toHost>>
bounds == <<chooses, stops>>
hostVars == <<flags, work, screen, mHandler, ui, net, bounds>>

Messages == {"SENDDATAFRAME", "SENDGETVERSION", "CONTINUEDATA",
             "TRANSFER2NEWFIRMWARE", "UPDATEOVER", "DISPLAYVERSION", "CONNECTIONLOST"}

Init ==
    /\ file \in Files
    /\ bFileFormat = FALSE
    /\ bUpdate = FALSE
    /\ FrameSequence = 0
    /\ bDataSend = FALSE
    /\ bCommandSend = FALSE
    /\ bCommandGetverison = FALSE
    /\ bDataAckError = FALSE
    /\ bFileReadOver = FALSE
    /\ randomIv = 0
    /\ opened = file
    /\ fis = 0
    /\ baos = <<>>
    /\ mFileCRC = CrcOfChunks(<<>>)
    /\ progress = FALSE
    /\ dialog = "none"
    /\ mHandler = <<>>
    /\ ui = "idle"
    /\ link = "up"
    /\ reader = TRUE
    /\ conn = 1
    /\ toDevice = <<>>
    /\ toHost = <<>>
    /\ chooses = 0
    /\ stops = 0
-----------------------------------------------------------------------------
(***************************************************************************)
(* Frames.                                                                 *)
(***************************************************************************)

AuthenticationFrame(n) ==
    [type |-> "AUTHENTICATED_FRAME", tail |-> TRUE, iv |-> IVSeq[n], tag |-> TRUE]

\* The last chunk is padded with 0xff: every frame carries 1024 bytes.
generate_data_frame(chunk, num) ==
    [type |-> "DATA_FRAME", tail |-> TRUE, crc |-> TRUE, seq |-> num, len |-> 1024,
     iv |-> IVSeq[randomIv], data |-> chunk]

generate_command_frame(c) == [type |-> "COMMAND_FRAME", tail |-> TRUE, cmd |-> c]

\* TCPClient.sendBytes; on a connection the peer has reset the bytes are lost.
sendBytes(f) ==
    toDevice' = IF link = "up" THEN Append(toDevice, [conn |-> conn, frame |-> f])
                ELSE toDevice

\* sendBytes throws once stopClient has closed the socket.
Throws == link = "closed"

Post(m) == mHandler' = Append(mHandler, m)
-----------------------------------------------------------------------------
(***************************************************************************)
(* The user.  The progress dialog keeps taps from the path and the         *)
(* buttons, and so does an alert until the back key dismisses it: a tap    *)
(* finds no alert any more.                                                *)
(***************************************************************************)

\* onActivityResult and PreCheckVersion: bFileFormat is set by a file with the
\* right mark and never cleared.  The path can change in the middle of a transfer:
\* progress opens at the first CONTINUEDATA and is dismissed before EXEC.
ChooseFile(f) ==
    /\ ui = "idle" /\ ~progress
    /\ chooses < MaxChooses
    /\ chooses' = chooses + 1
    /\ file' = f
    /\ bFileFormat' = (bFileFormat \/ f.format)
    /\ dialog' = "none"
    /\ UNCHANGED <<bUpdate, FrameSequence, bDataSend, bCommandSend, bCommandGetverison,
                   bDataAckError, bFileReadOver, work, progress, mHandler, ui, net, stops>>

\* The listeners of the two buttons, with sendAuthenticationFrame.
Press(update) ==
    /\ ui = "idle" /\ ~progress
    /\ update => bFileFormat
    /\ randomIv < Len(IVSeq)
    /\ bUpdate' = update
    /\ randomIv' = randomIv + 1
    /\ sendBytes(AuthenticationFrame(randomIv + 1))
    /\ dialog' = "none"
    /\ UNCHANGED <<bFileFormat, FrameSequence, bDataSend, bCommandSend, bCommandGetverison,
                   bDataAckError, bFileReadOver, opened, fis, baos, mFileCRC, file, progress,
                   mHandler, ui, link, reader, conn, toHost, bounds>>

\* onStop outside the file dialog: stopClient closes the socket and clears mRun.
\* What was sent may still reach the device; its replies are lost.
Stop ==
    /\ ui = "idle"
    /\ stops < MaxStops
    /\ stops' = stops + 1
    /\ link \in {"up", "reset"}
    /\ link' = "closed"
    /\ toHost' = <<>>
    /\ UNCHANGED <<flags, work, screen, mHandler, ui, reader, conn, toDevice, chooses>>

\* onResume: startClient connects again.  Nothing starts run again: the old run
\* goes on only if it has not looked at mRun in between (see RunEnds).
Resume ==
    /\ ui = "idle"
    /\ link = "closed"
    /\ link' = "up"
    /\ conn' = conn + 1
    /\ UNCHANGED <<flags, work, screen, mHandler, ui, reader, toDevice, toHost, bounds>>

\* The Ok button of an alert ends the process; the user starts it again and
\* comes back to the activity with its fields as they are in a new object.
Relaunch ==
    /\ ui = "idle"
    /\ dialog # "none"
    /\ stops < MaxStops
    /\ stops' = stops + 1
    /\ bFileFormat' = FALSE
    /\ bUpdate' = FALSE
    /\ FrameSequence' = 0
    /\ bDataSend' = FALSE
    /\ bCommandSend' = FALSE
    /\ bCommandGetverison' = FALSE
    /\ bDataAckError' = FALSE
    /\ bFileReadOver' = FALSE
    /\ fis' = 0
    /\ baos' = <<>>
    /\ mFileCRC' = CrcOfChunks(<<>>)
    /\ progress' = FALSE
    /\ dialog' = "none"
    /\ mHandler' = <<>>
    /\ link' = "up"
    /\ reader' = TRUE
    /\ conn' = conn + 1
    /\ toHost' = <<>>
    /\ UNCHANGED <<randomIv, file, opened, ui, toDevice, chooses>>
-----------------------------------------------------------------------------
(***************************************************************************)
(* handleMessage.                                                          *)
(***************************************************************************)

Handle(m) ==
    /\ ui = "idle"
    /\ mHandler # <<>>
    /\ Head(mHandler) = m
    /\ mHandler' = Tail(mHandler)

\* Read the next chunk of f; when there is one and no error was seen, send it.  A
\* chunk shorter than 1024 bytes is the only sign of the end of the file.
ReadAndSend(f, read, sent) ==
    LET left == read < Len(f.content)
    IN /\ fis' = IF left THEN read + 1 ELSE read
       /\ IF left /\ ~bDataAckError /\ ~bFileReadOver
          THEN /\ sendBytes(generate_data_frame(f.content[read + 1], FrameSequence))
               /\ FrameSequence' = FrameSequence + 1
               /\ bFileReadOver' = (read + 1 = Len(f.content) /\ f.short)
               /\ baos' = Append(sent, f.content[read + 1])
          ELSE /\ baos' = sent
               /\ UNCHANGED <<toDevice, FrameSequence, bFileReadOver>>

SendDataFrame ==
    /\ Handle("SENDDATAFRAME")
    /\ opened' = file
    /\ ReadAndSend(file, 0, <<>>)
    /\ ui' = "data"
    /\ UNCHANGED <<bFileFormat, bUpdate, bDataSend, bCommandSend, bCommandGetverison,
                   bDataAckError, randomIv, mFileCRC, screen, link, reader, conn, toHost,
                   bounds>>

\* Mutant: each chunk is read from the file the path names by then.
ContinueReopened ==
    /\ Handle("CONTINUEDATA")
    /\ ~bFileReadOver
    /\ ReadAndSend(file, fis, baos)
    /\ progress' = TRUE
    /\ UNCHANGED <<bFileFormat, bUpdate, bDataSend, bCommandSend, bCommandGetverison,
                   bDataAckError, randomIv, opened, mFileCRC, file, dialog, ui, link,
                   reader, conn, toHost, bounds>>

ContinueData ==
    /\ Handle("CONTINUEDATA")
    /\ ~bFileReadOver
    /\ ReadAndSend(opened, fis, baos)
    /\ progress' = TRUE
    /\ UNCHANGED <<bFileFormat, bUpdate, bDataSend, bCommandSend, bCommandGetverison,
                   bDataAckError, randomIv, opened, mFileCRC, file, dialog, ui, link,
                   reader, conn, toHost, bounds>>

FileSent ==
    /\ Handle("CONTINUEDATA")
    /\ bFileReadOver
    /\ mFileCRC' = CrcOfChunks(baos)
    /\ progress' = TRUE
    /\ IF bDataAckError
       THEN UNCHANGED <<bDataSend, ui, toDevice>>
       ELSE /\ bDataSend' = FALSE
            /\ sendBytes(generate_command_frame("GET_CRC"))
            /\ ui' = IF Throws THEN "idle" ELSE "command"
    /\ UNCHANGED <<bFileFormat, bUpdate, FrameSequence, bCommandSend, bCommandGetverison,
                   bDataAckError, bFileReadOver, randomIv, opened, fis, baos, file,
                   dialog, link, reader, conn, toHost, bounds>>

SendGetVersion ==
    /\ Handle("SENDGETVERSION")
    /\ sendBytes(generate_command_frame("GET_VERSION"))
    /\ ui' = IF Throws THEN "idle" ELSE "version"
    /\ UNCHANGED <<flags, work, screen, link, reader, conn, toHost, bounds>>

\* Mutant: success is announced without waiting for the reply to EXEC.
TransferAnnounced ==
    /\ ui = "idle"
    /\ mHandler # <<>>
    /\ Head(mHandler) = "TRANSFER2NEWFIRMWARE"
    /\ mHandler' = Append(Tail(mHandler), "UPDATEOVER")
    /\ progress' = FALSE
    /\ sendBytes(generate_command_frame("EXEC"))
    /\ ui' = IF Throws THEN "idle" ELSE "command"
    /\ UNCHANGED <<flags, work, file, dialog, link, reader, conn, toHost, bounds>>

Transfer2NewFirmware ==
    /\ Handle("TRANSFER2NEWFIRMWARE")
    /\ progress' = FALSE
    /\ sendBytes(generate_command_frame("EXEC"))
    /\ ui' = IF Throws THEN "idle" ELSE "command"
    /\ UNCHANGED <<flags, work, file, dialog, link, reader, conn, toHost, bounds>>

\* UPDATEOVER, CONNECTIONLOST and DISPLAYVERSION only show something.
Show ==
    /\ \/ Handle("UPDATEOVER") /\ dialog' = "Update OK"
       \/ Handle("CONNECTIONLOST") /\ dialog' = "Timeout"
       \/ Handle("DISPLAYVERSION") /\ dialog' = dialog
    /\ UNCHANGED <<flags, work, file, progress, ui, net, bounds>>

\* Mutant: sending a command is not recorded.
FinishSendForgets ==
    /\ ui # "idle"
    /\ ui' = "idle"
    /\ bDataSend' = (bDataSend \/ ui = "data")
    /\ bCommandGetverison' = (bCommandGetverison \/ ui = "version")
    /\ UNCHANGED <<bFileFormat, bUpdate, FrameSequence, bCommandSend, bDataAckError,
                   bFileReadOver, work, screen, mHandler, net, bounds>>

\* The assignment that follows the send.
FinishSend ==
    /\ ui # "idle"
    /\ ui' = "idle"
    /\ bDataSend' = (bDataSend \/ ui = "data")
    /\ bCommandSend' = (bCommandSend \/ ui = "command")
    /\ bCommandGetverison' = (bCommandGetverison \/ ui = "version")
    /\ UNCHANGED <<bFileFormat, bUpdate, FrameSequence, bDataAckError, bFileReadOver, work,
                   screen, mHandler, net, bounds>>

handleMessage ==
    \/ SendDataFrame \/ ContinueData \/ FileSent \/ SendGetVersion
    \/ Transfer2NewFirmware \/ Show \/ FinishSend
-----------------------------------------------------------------------------
(***************************************************************************)
(* The reader thread.                                                      *)
(***************************************************************************)

\* The messages messageReceived posts for reply a, in order.
Posts(a) ==
    IF a.kind = "status"
    THEN IF a.code # 0 THEN <<>>
         ELSE IF bCommandSend THEN <<"UPDATEOVER">>
         ELSE IF bUpdate THEN <<"SENDDATAFRAME">> ELSE <<"SENDGETVERSION">>
    ELSE (IF bDataSend THEN <<"CONTINUEDATA">> ELSE <<>>)
         \o (IF bCommandSend /\ a = mFileCRC THEN <<"TRANSFER2NEWFIRMWARE">> ELSE <<>>)
         \o (IF bCommandGetverison THEN <<"DISPLAYVERSION">> ELSE <<>>)

\* One read of the socket may return several replies; messageReceived looks
\* only at the first.
messageReceived(n) ==
    LET a == Head(toHost)
    IN /\ reader
       /\ n \in 1 .. Len(toHost)
       /\ Calm => ui = "idle" /\ n = 1
       /\ toHost' = SubSeq(toHost, n + 1, Len(toHost))
       /\ mHandler' = mHandler \o Posts(a)
       /\ bDataAckError' = (bDataAckError \/ (a.kind = "status" /\ a.code # 0 /\ bDataSend))
       /\ bCommandGetverison' = (bCommandGetverison /\ a.kind = "status")
       /\ UNCHANGED <<bFileFormat, bUpdate, FrameSequence, bDataSend, bCommandSend,
                      bFileReadOver, work, screen, ui, link, reader, conn, toDevice, bounds>>

\* The loop of run sees that stopClient has cleared mRun.
RunEnds ==
    /\ reader
    /\ link = "closed"
    /\ reader' = FALSE
    /\ UNCHANGED <<flags, work, screen, mHandler, ui, link, conn, toDevice, toHost, bounds>>

\* SocketTimeoutException: ten seconds without a byte from the device.
ReadTimeout ==
    /\ reader
    /\ link # "closed"
    /\ toHost = <<>>
    /\ Calm => ui = "idle" /\ mHandler = <<>> /\ toDevice = <<>>
    /\ bDataSend
    /\ "CONNECTIONLOST" \notin {mHandler[i] : i \in DOMAIN mHandler}
    /\ dialog # "Timeout"
    /\ Post("CONNECTIONLOST")
    /\ UNCHANGED <<flags, work, screen, ui, net, bounds>>

User ==
    \/ \E f \in Files : ChooseFile(f)
    \/ \E update \in BOOLEAN : Press(update)
    \/ Stop \/ Resume \/ Relaunch

Reader ==
    \/ \E n \in 1 .. Len(toHost) : messageReceived(n)
    \/ RunEnds
    \/ ReadTimeout
=============================================================================
