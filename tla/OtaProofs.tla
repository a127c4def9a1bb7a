----------------------------- MODULE OtaProofs -----------------------------
(***************************************************************************)
(* Proofs about the client and the gateway together, for every set of      *)
(* files, every size of the bank and every flash fault, with interrupted   *)
(* connections, relaunches and resets, and a path that changes whenever    *)
(* the progress dialog is down.                                            *)
(*                                                                         *)
(* The argument.  If the user taps only in an application that is as it    *)
(* was started, and when nothing of an earlier tap is under way, then one  *)
(* thing at a time is under way: a frame, a reply, or a message of the     *)
(* handler.  The client sends EXEC only after a reply to GET_CRC that is   *)
(* the CRC of all the chunks of the file it opened, and a CRC says what    *)
(* the standby bank holds.  From that reply to the reset no data frame is  *)
(* under way.                                                              *)
(***************************************************************************)
EXTENDS OtaSystem, StreamProofs, SequenceTheorems

\* What the handler has been asked to do, but for the report of a timeout.
Posted == {mHandler[i] : i \in DOMAIN mHandler} \ {"CONNECTIONLOST"}

Kind(f) == IF f.type = "COMMAND_FRAME" THEN f.cmd ELSE f.type
Carried == Kind(Head(toDevice).frame)
Answer == Head(toHost)
Refusal(a) == a.kind = "status" /\ a.code # 0

\* The first n chunks of f.
Upto(f, n) == [i \in 1 .. n |-> f.content[i]]

Size == Len(opened.content)

\* The inductive invariant, in parts.
HostTypes ==
    /\ file \in Files /\ opened \in Files
    /\ chooses \in Nat /\ fis \in Nat /\ randomIv \in Nat

OneAtATime ==
    /\ mHandler \in Seq(Host!Messages)
    /\ \A i, j \in DOMAIN mHandler :
            mHandler[i] # "CONNECTIONLOST" /\ mHandler[j] # "CONNECTIONLOST" => i = j
    /\ toDevice = <<>> \/ toDevice = <<Head(toDevice)>>
    /\ toHost = <<>> \/ toHost = <<Head(toHost)>>
    /\ toDevice # <<>> => toHost = <<>> /\ Posted = {}
    /\ toHost # <<>> => Posted = {}

\* What the gateway is about to do is for the whole file, of a client that has
\* sent its command, or that was started again and has chosen no file yet.
Accounted == WholeFile /\ (bCommandSend \/ ~bFileFormat)

GatewaySide ==
    /\ switching => Accounted
    /\ toDevice # <<>> =>
            /\ Head(toDevice).frame.type \in
                    {"AUTHENTICATED_FRAME", "DATA_FRAME", "COMMAND_FRAME"}
            /\ Carried = "DATA_FRAME" => ~switching
            /\ Carried = "EXEC" => Accounted

Unsent ==
    ~bDataSend /\ ~bCommandSend /\ ~bDataAckError /\ ~bFileReadOver /\ fis = 0 /\ baos = <<>>

\* The stages of the client.
Viewing ==
    /\ Unsent /\ ~bUpdate /\ ui \in {"idle", "version"}
    /\ Posted \subseteq {"SENDGETVERSION", "DISPLAYVERSION"}

Starting ==
    /\ Unsent /\ bUpdate /\ ~bCommandGetverison /\ ui = "idle" /\ ~switching
    /\ Posted \subseteq {"SENDDATAFRAME"}
    /\ toDevice # <<>> => Carried = "AUTHENTICATED_FRAME"
    /\ toHost # <<>> => Answer.kind = "status"

Sending ==
    /\ ~bCommandGetverison /\ ~bCommandSend /\ ~bDataAckError /\ ~switching
    /\ ui \in {"idle", "data"} /\ (bDataSend => ui = "idle")
    /\ baos = Upto(opened, fis) /\ (bFileReadOver => fis = Size /\ fis > 0)
    /\ Posted \subseteq {"CONTINUEDATA"} /\ (Posted # {} => bDataSend)
    /\ toDevice # <<>> => Carried = "DATA_FRAME"
    /\ toHost # <<>> => Answer.kind = "data" \/ Refusal(Answer)

Checking ==
    /\ ~bCommandGetverison /\ ~bDataSend /\ ~switching
    /\ ui \in {"idle", "command"}
    /\ mFileCRC = CrcOfChunks(Upto(opened, Size)) /\ Size > 0
    /\ Posted \subseteq {"TRANSFER2NEWFIRMWARE"} /\ (Posted # {} => bCommandSend /\ WholeFile)
    /\ toDevice # <<>> => Carried = "GET_CRC"
    /\ toHost # <<>> => \/ Refusal(Answer)
                        \/ /\ Answer.kind \in {"crc", "crc_zero"}
                           /\ Answer = mFileCRC => WholeFile

Switching ==
    /\ bCommandSend /\ ~bDataSend /\ ~bCommandGetverison
    /\ ui \in {"idle", "command"}
    /\ Posted \subseteq {"UPDATEOVER"}
    /\ toDevice # <<>> => Carried = "EXEC"
    /\ toHost # <<>> => Answer.kind = "status"

Stuck == Posted = {} /\ toDevice = <<>> /\ toHost = <<>>

OInv ==
    /\ HostTypes
    /\ OneAtATime
    /\ GatewaySide
    /\ Viewing \/ Starting \/ Sending \/ Checking \/ Switching \/ Stuck
-----------------------------------------------------------------------------
(***************************************************************************)
(* The messages of the handler and the CRC.                                *)
(***************************************************************************)

\* The handler takes the first message.
LEMMA Handled ==
    ASSUME OneAtATime, NEW m, Host!Handle(m)
    PROVE  /\ mHandler' \in Seq(Host!Messages)
           /\ \A i, j \in DOMAIN mHandler' :
                 mHandler'[i] # "CONNECTIONLOST" /\ mHandler'[j] # "CONNECTIONLOST" => i = j
           /\ ui = "idle"
           /\ m # "CONNECTIONLOST" => Posted = {m} /\ Posted' = {}
           /\ m = "CONNECTIONLOST" => Posted' = Posted
<1> DEFINE s == mHandler
           t == mHandler'
<1>1. /\ s \in Seq(Host!Messages) /\ s # <<>> /\ s[1] = m /\ t = Tail(s) /\ ui = "idle"
  BY DEF OneAtATime, Host!Handle
<1>2. /\ Len(s) \in Nat \ {0} /\ DOMAIN s = 1 .. Len(s)
      /\ t \in Seq(Host!Messages) /\ DOMAIN t = 1 .. Len(s) - 1
      /\ \A i \in 1 .. Len(s) - 1 : t[i] = s[i + 1]
  BY <1>1
<1>3. \A i, j \in 1 .. Len(s) : s[i] # "CONNECTIONLOST" /\ s[j] # "CONNECTIONLOST" => i = j
  BY <1>2 DEF OneAtATime
<1> HIDE DEF s, t
<1>4. \A i, j \in 1 .. Len(s) - 1 :
        t[i] # "CONNECTIONLOST" /\ t[j] # "CONNECTIONLOST" => i = j
  BY <1>2, <1>3
<1>5. /\ Posted = {s[i] : i \in 1 .. Len(s)} \ {"CONNECTIONLOST"}
      /\ Posted' = {t[i] : i \in 1 .. Len(s) - 1} \ {"CONNECTIONLOST"}
  BY <1>2 DEF Posted, s, t
<1>6. ASSUME m # "CONNECTIONLOST" PROVE Posted = {m} /\ Posted' = {}
  <2>1. \A i \in 1 .. Len(s) : i # 1 => s[i] = "CONNECTIONLOST"
    BY <1>1, <1>2, <1>3, <1>6
  <2>2. \A i \in 1 .. Len(s) - 1 : t[i] = "CONNECTIONLOST"
    BY <1>2, <2>1
  <2>3. 1 \in 1 .. Len(s)
    BY <1>2
  <2> QED BY <1>1, <1>5, <1>6, <2>1, <2>2, <2>3
<1>7. ASSUME m = "CONNECTIONLOST" PROVE Posted' = Posted
  <2>1. ASSUME NEW x, x # "CONNECTIONLOST"
        PROVE  (\E i \in 1 .. Len(s) : x = s[i]) <=> \E i \in 1 .. Len(s) - 1 : x = t[i]
    <3>1. ASSUME NEW i \in 1 .. Len(s), x = s[i]
          PROVE  \E j \in 1 .. Len(s) - 1 : x = t[j]
      <4>1. i # 1
        BY <1>1, <1>7, <2>1, <3>1
      <4>2. i - 1 \in 1 .. Len(s) - 1 /\ (i - 1) + 1 = i
        BY <1>2, <4>1
      <4> QED BY <1>2, <3>1, <4>2
    <3>2. ASSUME NEW i \in 1 .. Len(s) - 1, x = t[i]
          PROVE  \E j \in 1 .. Len(s) : x = s[j]
      <4>1. i + 1 \in 1 .. Len(s)
        BY <1>2
      <4> QED BY <1>2, <3>2, <4>1
    <3> QED BY <3>1, <3>2
  <2> QED BY <1>5, <2>1
<1> QED BY <1>1, <1>2, <1>4, <1>6, <1>7 DEF s, t

\* A message is posted: a report of a timeout, or the only other one.
LEMMA PostedOne ==
    ASSUME OneAtATime, NEW m \in Host!Messages, mHandler' = Append(mHandler, m),
           m = "CONNECTIONLOST" \/ Posted = {}
    PROVE  /\ mHandler' \in Seq(Host!Messages)
           /\ \A i, j \in DOMAIN mHandler' :
                 mHandler'[i] # "CONNECTIONLOST" /\ mHandler'[j] # "CONNECTIONLOST" => i = j
           /\ Posted' = Posted \cup ({m} \ {"CONNECTIONLOST"})
<1> DEFINE s == mHandler
           t == mHandler'
           n == Len(s)
<1>1. s \in Seq(Host!Messages) /\ t = Append(s, m)
  BY DEF OneAtATime
<1>2. /\ n \in Nat /\ DOMAIN s = 1 .. n /\ t \in Seq(Host!Messages)
      /\ DOMAIN t = 1 .. n + 1 /\ t[n + 1] = m
      /\ \A i \in 1 .. n : t[i] = s[i]
  BY <1>1
<1>3. \A i, j \in 1 .. n : s[i] # "CONNECTIONLOST" /\ s[j] # "CONNECTIONLOST" => i = j
  BY <1>2 DEF OneAtATime
<1> HIDE DEF s, t, n
<1>4. /\ Posted = {s[i] : i \in 1 .. n} \ {"CONNECTIONLOST"}
      /\ Posted' = {t[i] : i \in 1 .. n + 1} \ {"CONNECTIONLOST"}
  BY <1>2 DEF Posted, s, t
<1>5. \A i \in 1 .. n + 1 : i \in 1 .. n \/ i = n + 1
  BY <1>2
<1>6. Posted = {} => \A i \in 1 .. n : s[i] = "CONNECTIONLOST"
  BY <1>4
<1>7. \A i, j \in 1 .. n + 1 :
        t[i] # "CONNECTIONLOST" /\ t[j] # "CONNECTIONLOST" => i = j
  BY <1>2, <1>3, <1>5, <1>6
<1>8. Posted' = Posted \cup ({m} \ {"CONNECTIONLOST"})
  <2>1. \A i \in 1 .. n : i \in 1 .. n + 1
    BY <1>2
  <2>2. n + 1 \in 1 .. n + 1
    BY <1>2
  <2> QED BY <1>2, <1>4, <1>5, <2>1, <2>2
<1> QED BY <1>2, <1>7, <1>8 DEF t

\* Equal CRCs are CRCs of equal contents (see Upgrade).
LEMMA CrcEqual ==
    ASSUME NEW a, NEW x, NEW b, NEW y, Crc(a, x) = Crc(b, y)
    PROVE  a = b
<1>1. Crc(a, x).img = a /\ Crc(b, y).img = b
  BY DEF Crc
<1> QED BY <1>1

\* A CRC tells the pages it was computed from: if it is that of n whole chunks,
\* the pages hold them.
LEMMA CrcSays ==
    ASSUME NEW f, NEW n \in Nat \ {0}, NEW fl, NEW m,
           calc_crc(fl, m) = CrcOfChunks(Upto(f, n))
    PROVE  \A i \in 1 .. n, h \in {0, 1} :
                fl[2 * (i - 1) + h] = Page(f.content[i], h, MAX_PLAINTEXT_LEN)
<1> DEFINE k == (m + IFLASH0_PAGE_SIZE - 1) \div IFLASH0_PAGE_SIZE
           a == [i \in 1 .. k |-> fl[i - 1]]
           b == [i \in 1 .. 2 * n |->
                    Page(Upto(f, n)[(i + 1) \div 2], 1 - (i % 2), MAX_PLAINTEXT_LEN)]
<1>1. Upto(f, n) # <<>> /\ Len(Upto(f, n)) = n
  BY DEF Upto
<1>2. calc_crc(fl, m) = Crc(a, m)
  BY DEF calc_crc
<1>3. CrcOfChunks(Upto(f, n)) = Crc(b, MAX_PLAINTEXT_LEN * n)
  BY <1>1 DEF CrcOfChunks
<1>4. a = b
  <2> HIDE DEF a, b
  <2> QED BY <1>2, <1>3, CrcEqual
<1>5. DOMAIN a = 1 .. k /\ DOMAIN b = 1 .. 2 * n
  <2> HIDE DEF k
  <2> QED OBVIOUS
<1> HIDE DEF k
<1> SUFFICES ASSUME NEW i \in 1 .. n, NEW h \in {0, 1}
             PROVE  fl[2 * (i - 1) + h] = Page(f.content[i], h, MAX_PLAINTEXT_LEN)
  OBVIOUS
<1> DEFINE p == 2 * (i - 1) + h + 1
<1>6. /\ p \in 1 .. 2 * n /\ p - 1 = 2 * (i - 1) + h /\ (p + 1) \div 2 = i
      /\ 1 - (p % 2) = h
  <2>1. CASE h = 0
    <3>1. p = 2 * i - 1
      BY <2>1
    <3> HIDE DEF p
    <3>2. p % 2 = 1 /\ (p + 1) \div 2 = i
      BY <3>1
    <3> QED BY <2>1, <3>1, <3>2
  <2>2. CASE h = 1
    <3>1. p = 2 * i
      BY <2>2
    <3> HIDE DEF p
    <3>2. p % 2 = 0 /\ (p + 1) \div 2 = i
      BY <3>1
    <3> QED BY <2>2, <3>1, <3>2
  <2> QED BY <2>1, <2>2
<1> HIDE DEF p
<1>7. p \in 1 .. k
  BY <1>4, <1>5, <1>6
<1>8. a[p] = fl[p - 1]
  BY <1>7
<1>9. b[p] = Page(Upto(f, n)[(p + 1) \div 2], 1 - (p % 2), MAX_PLAINTEXT_LEN)
  BY <1>6
<1>10. Upto(f, n)[i] = f.content[i]
  BY DEF Upto
<1> HIDE DEF a, b
<1> QED BY <1>4, <1>6, <1>8, <1>9, <1>10
-----------------------------------------------------------------------------
(***************************************************************************)
(* The user.                                                               *)
(***************************************************************************)

\* What the invariant looks at.
Seen ==
    <<file, opened, bFileFormat, bUpdate, bDataSend, bCommandSend, bCommandGetverison,
      bDataAckError, bFileReadOver, randomIv, fis, baos, mFileCRC, mHandler, ui, toDevice,
      toHost, chooses, flash, gpnvm2, switching>>

\* A step of the rest of the state.
LEMMA Unseen ==
    ASSUME OInv, UNCHANGED Seen
    PROVE  OInv'
<1>1. HostTypes' /\ OneAtATime'
  BY DEF OInv, Seen, HostTypes, OneAtATime, Posted
<1>2. GatewaySide'
  BY DEF OInv, Seen, GatewaySide, Accounted, WholeFile, Standby, Carried
<1>3. (Viewing \/ Starting \/ Sending)' \/ Checking \/ Switching \/ Stuck
  BY DEF OInv, Seen, Viewing, Starting, Sending, Unsent, Posted, Carried, Answer, Size
<1>4. (Checking => Checking') /\ (Switching => Switching') /\ (Stuck => Stuck')
  BY DEF Seen, Checking, Switching, Stuck, Posted, Carried, Answer, WholeFile, Standby, Size
<1> QED BY <1>1, <1>2, <1>3, <1>4 DEF OInv

LEMMA InitFresh == ASSUME SysInit PROVE OInv
<1>1. Posted = {} /\ mHandler = <<>> /\ toDevice = <<>> /\ toHost = <<>> /\ switching = FALSE
  BY DEF SysInit, Init, Host!Init, Posted
<1>2. HostTypes /\ Viewing
  BY <1>1 DEF SysInit, Init, Host!Init, HostTypes, Viewing, Unsent
<1> QED BY <1>1, <1>2 DEF OInv, OneAtATime, GatewaySide

\* The user chooses a file: the stream that is open stays as it is.  When no file
\* was chosen before in this run of the application, nothing is under way.
LEMMA FileChosen ==
    ASSUME OInv, NEW f \in Files, Host!ChooseFile(f), UserWaits, UNCHANGED vars
    PROVE  OInv'
<1>1. /\ file' = f /\ chooses' = chooses + 1 /\ bFileFormat' = (bFileFormat \/ f.format)
      /\ UNCHANGED <<opened, bUpdate, bDataSend, bCommandSend, bCommandGetverison,
                     bDataAckError, bFileReadOver, randomIv, fis, baos, mFileCRC, mHandler, ui,
                     toDevice, toHost, flash, gpnvm2, switching>>
  BY DEF Host!ChooseFile, Host!work, Host!net, vars, ram
<1>2. HostTypes' /\ OneAtATime'
  <2>1. chooses' \in Nat
    BY <1>1 DEF OInv, HostTypes
  <2>2. HostTypes'
    BY <1>1, <2>1 DEF OInv, HostTypes
  <2>3. OneAtATime'
    BY <1>1 DEF OInv, OneAtATime, Posted
  <2> QED BY <2>2, <2>3
<1>3. GatewaySide'
  <2>1. CASE bFileFormat
    <3>1. bFileFormat' = TRUE /\ bFileFormat = TRUE
      BY <1>1, <2>1
    <3>2. Accounted => Accounted'
      BY <1>1, <2>1 DEF Accounted, WholeFile, Standby
    <3> QED BY <1>1, <3>2 DEF OInv, GatewaySide, Carried
  <2>2. CASE ~bFileFormat
    <3>1. ~switching /\ toDevice = <<>>
      BY <1>1, <2>2 DEF UserWaits, OInv, HostTypes
    <3> QED BY <1>1, <3>1 DEF GatewaySide
  <2> QED BY <2>1, <2>2
<1>4. (Viewing => Viewing') /\ (Starting => Starting') /\ (Sending => Sending')
  BY <1>1 DEF Viewing, Starting, Sending, Unsent, Posted, Carried, Answer, Size, Size
<1>5. (Checking => Checking') /\ (Switching => Switching') /\ (Stuck => Stuck')
  BY <1>1 DEF Checking, Switching, Stuck, Posted, Carried, Answer, WholeFile, Standby, Size
<1> QED BY <1>2, <1>3, <1>4, <1>5 DEF OInv

\* One frame is sent when nothing is under way.
LEMMA SentOne ==
    ASSUME NEW f, toDevice = <<>>, Host!sendBytes(f)
    PROVE  /\ toDevice' = <<>> \/ toDevice' = <<Head(toDevice')>>
           /\ toDevice' # <<>> => Head(toDevice').frame = f
BY DEF Host!sendBytes

\* A tap finds the application as it was started.
LEMMA Pressed ==
    ASSUME OInv, NEW update \in BOOLEAN, Host!Press(update), TapsFresh,
           UNCHANGED vars
    PROVE  OInv'
<1> USE DEF Host!Press, Host!screen, Host!bounds
<1> DEFINE f == Host!AuthenticationFrame(randomIv + 1)
<1>1. Fresh /\ randomIv' \in Nat
  BY DEF OInv, HostTypes, TapsFresh
<1>2. /\ toDevice' = <<>> \/ toDevice' = <<Head(toDevice')>>
      /\ toDevice' # <<>> => Head(toDevice').frame = f
  BY <1>1, SentOne DEF Fresh
<1>3. f.type = "AUTHENTICATED_FRAME" /\ Kind(f) = "AUTHENTICATED_FRAME"
  BY DEF Host!AuthenticationFrame, Kind
<1> HIDE DEF f
<1>4. toDevice' # <<>> => /\ Head(toDevice').frame.type = "AUTHENTICATED_FRAME"
                          /\ Carried' = "AUTHENTICATED_FRAME"
  BY <1>2, <1>3 DEF Carried
<1>5. Posted = {} /\ Posted' = {} /\ toHost' = <<>> /\ ui' = "idle"
  BY <1>1 DEF Posted, Fresh
<1>6. Unsent /\ Unsent' /\ ~bCommandSend /\ ~bCommandGetverison'
  BY <1>1 DEF Fresh, Unsent
<1>7. HostTypes' /\ OneAtATime'
  BY <1>1, <1>2, <1>5 DEF OInv, HostTypes, OneAtATime, vars, ram
<1>8. GatewaySide' /\ (bFileFormat => ~switching')
  BY <1>4, <1>6 DEF OInv, GatewaySide, Accounted, WholeFile, Standby, vars, ram
<1>9. update => Starting'
  BY <1>4, <1>5, <1>6, <1>8 DEF OInv, HostTypes, Starting
<1>10. ~update => Viewing'
  BY <1>5, <1>6 DEF Viewing
<1> QED BY <1>7, <1>8, <1>9, <1>10 DEF OInv

\* Closing the connection loses the reply under way.
LEMMA Stopped ==
    ASSUME OInv, Host!Stop, UNCHANGED vars
    PROVE  OInv'
<1> USE DEF Host!Stop, Host!flags, Host!work, Host!screen
<1>1. HostTypes' /\ OneAtATime'
  BY DEF OInv, HostTypes, OneAtATime, Posted, vars, ram
<1>2. GatewaySide'
  BY DEF OInv, GatewaySide, Accounted, WholeFile, Standby, Carried, vars, ram
<1>3. (Viewing => Viewing') /\ (Starting => Starting') /\ (Sending => Sending')
  BY DEF Viewing, Starting, Sending, Unsent, Posted, Carried, vars, ram, Size
<1>4. (Checking => Checking') /\ (Switching => Switching') /\ (Stuck => Stuck')
  BY DEF Checking, Switching, Stuck, Posted, Carried, WholeFile, Standby, Size,
         vars, ram
<1> QED BY <1>1, <1>2, <1>3, <1>4 DEF OInv

\* A new application has asked for nothing; a frame may still be under way.
LEMMA Relaunched ==
    ASSUME OInv, Host!Relaunch, UNCHANGED vars
    PROVE  OInv'
<1> USE DEF Host!Relaunch
<1>1. Posted' = {} /\ mHandler' = <<>> /\ toHost' = <<>>
  BY DEF Posted
<1>2. HostTypes' /\ OneAtATime' /\ Viewing'
  BY <1>1 DEF OInv, HostTypes, OneAtATime, Viewing, Unsent, vars, ram
<1>3. GatewaySide'
  BY DEF OInv, GatewaySide, Accounted, WholeFile, Standby, Carried, vars, ram
<1> QED BY <1>2, <1>3 DEF OInv

\* A step of the user.
LEMMA UserStep ==
    ASSUME OInv, Host!User, UserWaits, TapsFresh, UNCHANGED vars
    PROVE  OInv'
<1>1. ASSUME NEW f \in Files, Host!ChooseFile(f) PROVE OInv'
  BY <1>1, FileChosen
<1>2. ASSUME NEW update \in BOOLEAN, Host!Press(update) PROVE OInv'
  BY <1>2, Pressed
<1>3. CASE Host!Resume
  BY <1>3, Unseen DEF Host!Resume, Host!flags, Host!work, Host!screen, Host!bounds, Seen, vars, ram
<1> QED BY <1>1, <1>2, <1>3, Stopped, Relaunched DEF Host!User
-----------------------------------------------------------------------------
(***************************************************************************)
(* The handler.                                                            *)
(***************************************************************************)

\* When the handler takes a message that asks for something, nothing is under
\* way, and the message tells the stage.
LEMMA Took ==
    ASSUME OInv, NEW m, m # "CONNECTIONLOST", Host!Handle(m)
    PROVE  /\ toDevice = <<>> /\ toHost = <<>> /\ ui = "idle" /\ Posted' = {}
           /\ m \in {"SENDGETVERSION", "DISPLAYVERSION"} => Viewing
           /\ m = "SENDDATAFRAME" => Starting
           /\ m = "CONTINUEDATA" => Sending /\ bDataSend
           /\ m = "TRANSFER2NEWFIRMWARE" => Checking /\ bCommandSend /\ WholeFile
           /\ m = "UPDATEOVER" => Switching
<1>1. ui = "idle" /\ Posted = {m} /\ Posted' = {}
  BY Handled DEF OInv
<1>2. toDevice = <<>> /\ toHost = <<>>
  BY <1>1 DEF OInv, OneAtATime
<1>3. Viewing => m \in {"SENDGETVERSION", "DISPLAYVERSION"}
  BY <1>1 DEF Viewing
<1>4. Starting => m = "SENDDATAFRAME"
  BY <1>1 DEF Starting
<1>5. Sending => m = "CONTINUEDATA" /\ bDataSend
  BY <1>1 DEF Sending
<1>6. Checking => m = "TRANSFER2NEWFIRMWARE" /\ bCommandSend /\ WholeFile
  BY <1>1 DEF Checking
<1>7. Switching => m = "UPDATEOVER"
  BY <1>1 DEF Switching
<1>8. ~Stuck
  BY <1>1 DEF Stuck
<1> QED BY <1>1, <1>2, <1>3, <1>4, <1>5, <1>6, <1>7, <1>8 DEF OInv

\* Then at most the frame it sends is under way.
LEMMA Asked ==
    ASSUME OInv, NEW m, m # "CONNECTIONLOST", Host!Handle(m), toHost' = toHost,
           toDevice' = <<>> \/ toDevice' = <<Head(toDevice')>>
    PROVE  OneAtATime' /\ toHost' = <<>> /\ Posted' = {}
<1>1. /\ mHandler' \in Seq(Host!Messages) /\ Posted' = {}
      /\ \A i, j \in DOMAIN mHandler' :
            mHandler'[i] # "CONNECTIONLOST" /\ mHandler'[j] # "CONNECTIONLOST" => i = j
  BY Handled DEF OInv
<1>2. toHost' = <<>>
  BY Took
<1> QED BY <1>1, <1>2 DEF OneAtATime

\* The frames the client sends.
LEMMA FrameKinds ==
    /\ \A c, n : Kind(Host!generate_data_frame(c, n)) = "DATA_FRAME"
                /\ Host!generate_data_frame(c, n).type = "DATA_FRAME"
    /\ \A c : Kind(Host!generate_command_frame(c)) = c
             /\ Host!generate_command_frame(c).type = "COMMAND_FRAME"
BY DEF Kind, Host!generate_data_frame, Host!generate_command_frame

\* The chunks read so far, one more.
LEMMA UptoNext ==
    ASSUME NEW f, NEW n \in Nat
    PROVE  Upto(f, 0) = <<>> /\ Append(Upto(f, n), f.content[n + 1]) = Upto(f, n + 1)
<1> DEFINE c == f.content[n + 1]
           D == {f.content[i] : i \in 1 .. n + 1}
<1>1. Upto(f, 0) = <<>>
  BY DEF Upto
<1>2. /\ Upto(f, n) \in Seq(D) /\ Len(Upto(f, n)) = n /\ c \in D
      /\ Upto(f, n + 1) \in Seq(D) /\ Len(Upto(f, n + 1)) = n + 1
  <2>1. n + 1 \in 1 .. n + 1 /\ \A i \in 1 .. n : i \in 1 .. n + 1
    OBVIOUS
  <2>2. c \in D /\ \A i \in 1 .. n + 1 : f.content[i] \in D
    BY <2>1
  <2> HIDE DEF D, c
  <2> QED BY <2>1, <2>2 DEF Upto
<1> HIDE DEF D
<1>3. /\ Append(Upto(f, n), c) \in Seq(D) /\ Len(Append(Upto(f, n), c)) = n + 1
      /\ Append(Upto(f, n), c)[n + 1] = c
      /\ \A i \in 1 .. n : Append(Upto(f, n), c)[i] = Upto(f, n)[i]
  BY <1>2
<1>4. ASSUME NEW i \in 1 .. n + 1
      PROVE  Append(Upto(f, n), c)[i] = Upto(f, n + 1)[i]
  <2>1. CASE i = n + 1
    BY <1>3, <2>1 DEF Upto
  <2>2. CASE i # n + 1
    <3>1. i \in 1 .. n
      BY <2>2
    <3> QED BY <1>3, <3>1 DEF Upto
  <2> QED BY <2>1, <2>2
<1>5. Append(Upto(f, n), c) = Upto(f, n + 1)
  <2> DEFINE s == Append(Upto(f, n), c)
             t == Upto(f, n + 1)
  <2>1. s \in Seq(D) /\ t \in Seq(D) /\ Len(s) = Len(t)
        /\ \A i \in 1 .. Len(s) : s[i] = t[i]
    BY <1>2, <1>3, <1>4
  <2> HIDE DEF s, t
  <2>2. s = t
    BY <2>1, SeqEqual
  <2> QED BY <2>2 DEF s, t
<1> QED BY <1>1, <1>5

\* The next chunk of f is read, and sent if there is one.
LEMMA ChunkSent ==
    ASSUME OInv, NEW f \in Files, NEW n \in Nat, NEW t, t = Upto(f, n),
           Host!ReadAndSend(f, n, t), ~bDataAckError, ~bFileReadOver, toDevice = <<>>
    PROVE  /\ fis' \in Nat /\ baos' = Upto(f, fis')
           /\ bFileReadOver' => fis' = Len(f.content) /\ fis' > 0
           /\ toDevice' = <<>> \/ toDevice' = <<Head(toDevice')>>
           /\ toDevice' # <<>> => /\ Head(toDevice').frame.type = "DATA_FRAME"
                                  /\ Carried' = "DATA_FRAME"
<1>1. Len(f.content) \in Nat
  BY FileAssumption
<1>2. CASE n < Len(f.content)
  <2> DEFINE c == f.content[n + 1]
             d == Host!generate_data_frame(c, FrameSequence)
  <2>1. /\ fis' = n + 1 /\ baos' = Append(t, c) /\ Host!sendBytes(d)
        /\ bFileReadOver' => n + 1 = Len(f.content)
    BY <1>2 DEF Host!ReadAndSend
  <2>2. Kind(d) = "DATA_FRAME" /\ d.type = "DATA_FRAME"
    BY FrameKinds
  <2> HIDE DEF d
  <2>3. /\ toDevice' = <<>> \/ toDevice' = <<Head(toDevice')>>
        /\ toDevice' # <<>> => Head(toDevice').frame = d
    BY <2>1, SentOne
  <2>4. baos' = Upto(f, n + 1)
    BY <2>1, UptoNext
  <2> QED BY <2>1, <2>2, <2>3, <2>4 DEF Carried
<1>3. CASE ~(n < Len(f.content))
  BY <1>3 DEF Host!ReadAndSend
<1> QED BY <1>2, <1>3

\* The first chunk, of a client that has been let in.
LEMMA FirstChunk ==
    ASSUME OInv, Host!SendDataFrame, UNCHANGED vars
    PROVE  OInv'
<1>1. /\ Host!Handle("SENDDATAFRAME") /\ Host!ReadAndSend(file, 0, <<>>) /\ ui' = "data"
      /\ opened' = file
      /\ UNCHANGED <<file, bFileFormat, bUpdate, bDataSend, bCommandSend, bCommandGetverison,
                     bDataAckError, randomIv, toHost, chooses, flash, gpnvm2, switching>>
  BY DEF Host!SendDataFrame, Host!screen, Host!bounds, vars, ram
<1>2. toDevice = <<>> /\ Starting
  BY <1>1, Took
<1>3. /\ fis' \in Nat /\ baos' = Upto(opened', fis')
      /\ bFileReadOver' => fis' = Size' /\ fis' > 0
      /\ toDevice' = <<>> \/ toDevice' = <<Head(toDevice')>>
      /\ toDevice' # <<>> => /\ Head(toDevice').frame.type = "DATA_FRAME"
                             /\ Carried' = "DATA_FRAME"
  <2>1. ~bDataAckError /\ ~bFileReadOver
    BY <1>2 DEF Starting, Unsent
  <2>2. Upto(file, 0) = <<>> /\ file \in Files
    BY UptoNext DEF OInv, HostTypes
  <2> QED BY <1>1, <1>2, <2>1, <2>2, ChunkSent DEF Size
<1>4. OneAtATime' /\ Posted' = {} /\ toHost' = <<>>
  BY <1>1, <1>3, Asked
<1>5. HostTypes'
  BY <1>1, <1>3 DEF OInv, HostTypes
<1>6. Sending'
  BY <1>1, <1>2, <1>3, <1>4 DEF Starting, Sending, Unsent
<1>7. GatewaySide'
  BY <1>1, <1>2, <1>3 DEF GatewaySide, Starting
<1> QED BY <1>4, <1>5, <1>6, <1>7 DEF OInv

\* The next chunk, after the acknowledgment of the one before it.
LEMMA NextChunk ==
    ASSUME OInv, Host!ContinueData, UNCHANGED vars
    PROVE  OInv'
<1>1. /\ Host!Handle("CONTINUEDATA") /\ Host!ReadAndSend(opened, fis, baos) /\ ~bFileReadOver
      /\ UNCHANGED <<file, opened, bFileFormat, bUpdate, bDataSend, bCommandSend,
                     bCommandGetverison, bDataAckError, randomIv, ui, toHost, chooses, flash,
                     gpnvm2, switching>>
  BY DEF Host!ContinueData, Host!bounds, vars, ram
<1>2. toDevice = <<>> /\ Sending /\ ui = "idle"
  BY <1>1, Took
<1>3. /\ fis' \in Nat /\ baos' = Upto(opened', fis')
      /\ bFileReadOver' => fis' = Size' /\ fis' > 0
      /\ toDevice' = <<>> \/ toDevice' = <<Head(toDevice')>>
      /\ toDevice' # <<>> => /\ Head(toDevice').frame.type = "DATA_FRAME"
                             /\ Carried' = "DATA_FRAME"
  <2>1. fis \in Nat /\ opened \in Files
    BY DEF OInv, HostTypes
  <2>2. ~bDataAckError /\ baos = Upto(opened, fis)
    BY <1>2 DEF Sending
  <2> QED BY <1>1, <1>2, <2>1, <2>2, ChunkSent DEF Size
<1>4. OneAtATime' /\ Posted' = {} /\ toHost' = <<>>
  BY <1>1, <1>3, Asked
<1>5. HostTypes'
  BY <1>1, <1>3 DEF OInv, HostTypes
<1>6. Sending'
  BY <1>1, <1>2, <1>3, <1>4 DEF Sending
<1>7. GatewaySide'
  BY <1>1, <1>2, <1>3 DEF GatewaySide, Sending
<1> QED BY <1>4, <1>5, <1>6, <1>7 DEF OInv

\* After the last chunk the client computes its CRC and asks for the gateway's.
LEMMA AllSent ==
    ASSUME OInv, Host!FileSent, UNCHANGED vars
    PROVE  OInv'
<1> DEFINE f == Host!generate_command_frame("GET_CRC")
<1>1. /\ Host!Handle("CONTINUEDATA") /\ bFileReadOver
      /\ UNCHANGED <<file, opened, bFileFormat, bUpdate, bCommandSend, bCommandGetverison,
                     bDataAckError, bFileReadOver, randomIv, fis, baos, toHost, chooses, flash,
                     gpnvm2, switching>>
      /\ mFileCRC' = CrcOfChunks(baos)
      /\ ~bDataAckError => ~bDataSend' /\ Host!sendBytes(f) /\ ui' \in {"idle", "command"}
  BY DEF Host!FileSent, Host!bounds, vars, ram
<1>2. toDevice = <<>> /\ Sending
  BY <1>1, Took
<1>3. Kind(f) = "GET_CRC" /\ f.type = "COMMAND_FRAME"
  BY FrameKinds
<1> HIDE DEF f
<1>4. /\ ~bDataSend' /\ ui' \in {"idle", "command"} /\ Host!sendBytes(f)
      /\ baos = Upto(opened, Size) /\ Size > 0 /\ ~bCommandGetverison
      /\ ~switching
  BY <1>1, <1>2 DEF Sending
<1>5. /\ toDevice' = <<>> \/ toDevice' = <<Head(toDevice')>>
      /\ toDevice' # <<>> => Head(toDevice').frame = f
  BY <1>2, <1>4, SentOne
<1>6. OneAtATime' /\ Posted' = {} /\ toHost' = <<>>
  BY <1>1, <1>5, Asked
<1>7. toDevice' # <<>> => Carried' = "GET_CRC" /\ Head(toDevice').frame.type = "COMMAND_FRAME"
  BY <1>3, <1>5 DEF Carried
<1>8. HostTypes'
  BY <1>1 DEF OInv, HostTypes
<1>9. Checking'
  BY <1>1, <1>4, <1>6, <1>7 DEF Checking, Size
<1>10. GatewaySide'
  BY <1>1, <1>4, <1>7 DEF GatewaySide
<1> QED BY <1>6, <1>8, <1>9, <1>10 DEF OInv

\* The command of the other button.
LEMMA VersionAsked ==
    ASSUME OInv, Host!SendGetVersion, UNCHANGED vars
    PROVE  OInv'
<1> DEFINE f == Host!generate_command_frame("GET_VERSION")
<1>1. /\ Host!Handle("SENDGETVERSION") /\ Host!sendBytes(f) /\ ui' \in {"idle", "version"}
      /\ UNCHANGED <<file, opened, bFileFormat, bUpdate, bDataSend, bCommandSend,
                     bCommandGetverison, bDataAckError, bFileReadOver, randomIv, fis, baos,
                     toHost, chooses, flash, gpnvm2, switching>>
  BY DEF Host!SendGetVersion, Host!flags, Host!work, Host!screen, Host!bounds, vars, ram
<1>2. Kind(f) = "GET_VERSION" /\ f.type = "COMMAND_FRAME"
  BY FrameKinds
<1> HIDE DEF f
<1>3. toDevice = <<>> /\ Viewing
  BY <1>1, Took
<1>4. /\ toDevice' = <<>> \/ toDevice' = <<Head(toDevice')>>
      /\ toDevice' # <<>> => Head(toDevice').frame = f
  BY <1>1, <1>3, SentOne
<1>5. OneAtATime' /\ Posted' = {} /\ toHost' = <<>>
  BY <1>1, <1>4, Asked
<1>6. toDevice' # <<>> => /\ Carried' = "GET_VERSION"
                          /\ Head(toDevice').frame.type = "COMMAND_FRAME"
  BY <1>2, <1>4 DEF Carried
<1>7. HostTypes'
  BY <1>1 DEF OInv, HostTypes
<1>8. Viewing'
  BY <1>1, <1>3, <1>5 DEF Viewing, Unsent
<1>9. GatewaySide'
  BY <1>1, <1>6 DEF OInv, GatewaySide, Accounted, WholeFile, Standby
<1> QED BY <1>5, <1>7, <1>8, <1>9 DEF OInv

\* The CRCs agree: the standby bank holds the whole file when EXEC is sent.
LEMMA SwitchAsked ==
    ASSUME OInv, Host!Transfer2NewFirmware, UNCHANGED vars
    PROVE  OInv'
<1> DEFINE f == Host!generate_command_frame("EXEC")
<1>1. /\ Host!Handle("TRANSFER2NEWFIRMWARE") /\ Host!sendBytes(f) /\ ui' \in {"idle", "command"}
      /\ UNCHANGED <<file, opened, bFileFormat, bUpdate, bDataSend, bCommandSend,
                     bCommandGetverison, bDataAckError, bFileReadOver, randomIv, fis, baos,
                     toHost, chooses, flash, gpnvm2, switching>>
  BY DEF Host!Transfer2NewFirmware, Host!flags, Host!work, Host!bounds, vars, ram
<1>2. Kind(f) = "EXEC" /\ f.type = "COMMAND_FRAME"
  BY FrameKinds
<1> HIDE DEF f
<1>3. toDevice = <<>> /\ Checking /\ bCommandSend /\ WholeFile
  BY <1>1, Took
<1>4. /\ toDevice' = <<>> \/ toDevice' = <<Head(toDevice')>>
      /\ toDevice' # <<>> => Head(toDevice').frame = f
  BY <1>1, <1>3, SentOne
<1>5. OneAtATime' /\ Posted' = {} /\ toHost' = <<>>
  BY <1>1, <1>4, Asked
<1>6. toDevice' # <<>> => Carried' = "EXEC" /\ Head(toDevice').frame.type = "COMMAND_FRAME"
  BY <1>2, <1>4 DEF Carried
<1>7. HostTypes'
  BY <1>1 DEF OInv, HostTypes
<1>8. Switching'
  BY <1>1, <1>3, <1>5, <1>6 DEF Switching, Checking
<1>9. Accounted'
  BY <1>1, <1>3 DEF Accounted, WholeFile, Standby
<1>10. GatewaySide'
  BY <1>1, <1>6, <1>9 DEF GatewaySide
<1> QED BY <1>5, <1>7, <1>8, <1>10 DEF OInv

\* A message that only shows something.
LEMMA Shown ==
    ASSUME OInv, Host!Show, UNCHANGED vars
    PROVE  OInv'
<1>1. UNCHANGED <<file, opened, bFileFormat, bUpdate, bDataSend, bCommandSend, bCommandGetverison,
                  bDataAckError, bFileReadOver, randomIv, fis, baos, mFileCRC, ui, toDevice,
                  toHost, chooses, flash, gpnvm2, switching>>
  BY DEF Host!Show, Host!flags, Host!work, Host!net, Host!bounds, vars, ram
<1>2. PICK m \in {"UPDATEOVER", "CONNECTIONLOST", "DISPLAYVERSION"} : Host!Handle(m)
  BY DEF Host!Show
<1>3. /\ mHandler' \in Seq(Host!Messages)
      /\ \A i, j \in DOMAIN mHandler' :
            mHandler'[i] # "CONNECTIONLOST" /\ mHandler'[j] # "CONNECTIONLOST" => i = j
      /\ Posted' = {} \/ Posted' = Posted
  BY <1>2, Handled DEF OInv
<1>4. OneAtATime'
  BY <1>1, <1>3 DEF OInv, OneAtATime
<1>5. HostTypes' /\ GatewaySide'
  BY <1>1 DEF OInv, HostTypes, GatewaySide, Accounted, WholeFile, Standby, Carried
<1>6. /\ Viewing => Viewing'
      /\ Starting => Starting'
      /\ Sending => Sending'
  BY <1>1, <1>3 DEF Viewing, Starting, Sending, Unsent, Carried, Answer, Size
<1>7. /\ Checking => Checking'
      /\ Switching => Switching'
      /\ Stuck => Stuck'
  BY <1>1, <1>3 DEF Checking, Switching, Stuck, Carried, Answer, WholeFile, Standby, Size
<1> QED BY <1>4, <1>5, <1>6, <1>7 DEF OInv

\* The flag that tells the reader what to expect.
LEMMA Finished ==
    ASSUME OInv, Host!FinishSend, UNCHANGED vars
    PROVE  OInv'
<1>1. /\ ui # "idle" /\ ui' = "idle"
      /\ bDataSend' = (bDataSend \/ ui = "data")
      /\ bCommandSend' = (bCommandSend \/ ui = "command")
      /\ bCommandGetverison' = (bCommandGetverison \/ ui = "version")
      /\ UNCHANGED <<file, opened, bFileFormat, bUpdate, bDataAckError, bFileReadOver, randomIv,
                     fis, baos, mFileCRC, mHandler, toDevice, toHost, chooses, flash, gpnvm2,
                     switching>>
  BY DEF Host!FinishSend, Host!work, Host!screen, Host!net, Host!bounds, vars, ram
<1>2. HostTypes' /\ OneAtATime' /\ Posted' = Posted
  BY <1>1 DEF OInv, HostTypes, OneAtATime, Posted
<1>3. Accounted => Accounted'
  BY <1>1 DEF Accounted, WholeFile, Standby
<1>4. GatewaySide'
  BY <1>1, <1>3 DEF OInv, GatewaySide, Carried
<1>5. /\ Viewing => Viewing'
      /\ ~Starting
      /\ Sending => Sending'
  BY <1>1, <1>2 DEF Viewing, Starting, Sending, Unsent, Carried, Answer, Size
<1>6. /\ Checking => Checking'
      /\ Switching => Switching'
      /\ Stuck => Stuck'
  BY <1>1, <1>2 DEF Checking, Switching, Stuck, Carried, Answer, WholeFile, Standby, Size
<1> QED BY <1>2, <1>4, <1>5, <1>6 DEF OInv

\* A step of the handler.
LEMMA HandlerStep ==
    ASSUME OInv, Host!handleMessage, UNCHANGED vars
    PROVE  OInv'
BY FirstChunk, NextChunk, AllSent, VersionAsked, SwitchAsked, Shown, Finished
   DEF Host!handleMessage
-----------------------------------------------------------------------------
(***************************************************************************)
(* The reader.                                                             *)
(***************************************************************************)

\* A reply makes the reader post one message or none.
LEMMA PostsOne ==
    ASSUME NEW a
    PROVE  /\ a.kind = "status" => Host!Posts(a) =
                IF a.code # 0 THEN <<>>
                ELSE IF bCommandSend THEN <<"UPDATEOVER">>
                ELSE IF bUpdate THEN <<"SENDDATAFRAME">> ELSE <<"SENDGETVERSION">>
           /\ a.kind # "status" /\ ~bDataSend /\ ~bCommandSend =>
                Host!Posts(a) \in {<<>>, <<"DISPLAYVERSION">>}
           /\ a.kind # "status" /\ ~bCommandSend /\ ~bCommandGetverison =>
                Host!Posts(a) = IF bDataSend THEN <<"CONTINUEDATA">> ELSE <<>>
           /\ a.kind # "status" /\ ~bDataSend /\ ~bCommandGetverison =>
                Host!Posts(a) = IF bCommandSend /\ a = mFileCRC THEN <<"TRANSFER2NEWFIRMWARE">>
                                ELSE <<>>
<1>1. ASSUME NEW m PROVE <<>> \o <<>> = <<>> /\ <<>> \o <<m>> = <<m>> /\ <<m>> \o <<>> = <<m>>
  BY <<m>> \in Seq({m}), <<>> \in Seq({m}), ConcatEmptySeq
<1> QED BY <1>1 DEF Host!Posts

\* What is left after the reader took the only reply.
LEMMA Replied ==
    ASSUME OInv, NEW n \in 1 .. Len(toHost), Host!messageReceived(n), UNCHANGED vars
    PROVE  /\ toHost # <<>> /\ toHost' = <<>> /\ toDevice = <<>> /\ toDevice' = <<>>
           /\ OneAtATime'
           /\ Host!Posts(Answer) = <<>> => Posted' = {}
           /\ \A m \in Host!Messages \ {"CONNECTIONLOST"} :
                    Host!Posts(Answer) = <<m>> => Posted' = {m}
           /\ \/ Host!Posts(Answer) = <<>>
              \/ \E m \in Host!Messages \ {"CONNECTIONLOST"} : Host!Posts(Answer) = <<m>>
<1>1. toHost # <<>> /\ Len(toHost) = 1 /\ n = 1
  <2>1. toHost = <<>> \/ toHost = <<Head(toHost)>>
    BY DEF OInv, OneAtATime
  <2>2. Len(toHost) = 0 \/ Len(toHost) = 1
    BY <2>1
  <2> QED BY <2>2
<1>2. toHost' = <<>>
  <2>1. toHost' = SubSeq(toHost, 2, 1)
    BY <1>1 DEF Host!messageReceived
  <2> QED BY <2>1, SubSeqEmpty
<1>3. Posted = {} /\ toDevice = <<>> /\ toDevice' = <<>>
  BY <1>1 DEF OInv, OneAtATime, Host!messageReceived
<1> DEFINE P == Host!Posts(Answer)
<1>4. mHandler' = mHandler \o P /\ mHandler \in Seq(Host!Messages)
  BY DEF Host!messageReceived, Answer, OInv, OneAtATime
<1>5. P = <<>> \/ \E m \in Host!Messages \ {"CONNECTIONLOST"} : P = <<m>>
  <2>1. \/ Answer.kind = "status" \/ Answer.kind # "status"
    OBVIOUS
  <2>2. ~bDataSend \/ ~bCommandSend
    BY <1>1 DEF OInv, Viewing, Unsent, Starting, Sending, Checking, Switching, Stuck
  <2>3. (bDataSend \/ bCommandSend) => ~bCommandGetverison
    BY <1>1 DEF OInv, Viewing, Unsent, Starting, Sending, Checking, Switching, Stuck
  <2> QED BY <2>1, <2>2, <2>3, PostsOne DEF Host!Messages
<1> HIDE DEF P
<1>6. ASSUME P = <<>> PROVE OneAtATime' /\ Posted' = {}
  <2>1. mHandler' = mHandler
    BY <1>4, <1>6, ConcatEmptySeq
  <2>2. Posted' = {}
    BY <1>3, <2>1 DEF Posted
  <2> QED BY <1>2, <1>3, <2>1, <2>2 DEF OInv, OneAtATime
<1>7. ASSUME NEW m \in Host!Messages \ {"CONNECTIONLOST"}, P = <<m>>
      PROVE  OneAtATime' /\ Posted' = {m}
  <2>1. mHandler' = Append(mHandler, m)
    BY <1>4, <1>7, AppendIsConcat
  <2>2. /\ mHandler' \in Seq(Host!Messages)
        /\ \A i, j \in DOMAIN mHandler' :
              mHandler'[i] # "CONNECTIONLOST" /\ mHandler'[j] # "CONNECTIONLOST" => i = j
        /\ Posted' = {m}
    BY <1>3, <2>1, PostedOne DEF OInv
  <2> QED BY <1>2, <1>3, <2>2 DEF OneAtATime
<1> QED BY <1>1, <1>2, <1>3, <1>5, <1>6, <1>7 DEF P

LEMMA ReplyRead ==
    ASSUME OInv, NEW n \in 1 .. Len(toHost), Host!messageReceived(n), UNCHANGED vars
    PROVE  OInv'
<1> DEFINE a == Answer
           P == Host!Posts(a)
<1>1. /\ bDataAckError' = (bDataAckError \/ (a.kind = "status" /\ a.code # 0 /\ bDataSend))
      /\ bCommandGetverison' = (bCommandGetverison /\ a.kind = "status")
      /\ UNCHANGED <<file, opened, bFileFormat, bUpdate, bDataSend, bCommandSend, bFileReadOver,
                     randomIv, fis, baos, mFileCRC, ui, toDevice, chooses, flash, gpnvm2,
                     switching>>
  BY DEF Host!messageReceived, Host!work, Host!screen, Host!bounds, Answer, vars, ram
<1>2. /\ toHost # <<>> /\ toHost' = <<>> /\ toDevice = <<>> /\ toDevice' = <<>> /\ OneAtATime'
      /\ P = <<>> => Posted' = {}
      /\ \A m \in Host!Messages \ {"CONNECTIONLOST"} : P = <<m>> => Posted' = {m}
  BY Replied
<1>3. HostTypes'
  BY <1>1 DEF OInv, HostTypes
<1>4. GatewaySide'
  BY <1>1, <1>2 DEF OInv, GatewaySide, Accounted, WholeFile, Standby
<1> HIDE DEF a, P
<1>5. ASSUME Viewing PROVE Viewing'
  <2>1. ~bDataSend /\ ~bCommandSend /\ ~bUpdate
    BY <1>5 DEF Viewing, Unsent
  <2>2. P = <<>> \/ P = <<"SENDGETVERSION">> \/ P = <<"DISPLAYVERSION">>
    BY <2>1, PostsOne DEF P
  <2>3. Posted' \subseteq {"SENDGETVERSION", "DISPLAYVERSION"}
    BY <1>2, <2>2 DEF Host!Messages
  <2> QED BY <1>1, <1>5, <2>3 DEF Viewing, Unsent
<1>6. ASSUME Starting PROVE Starting'
  <2>1. ~bDataSend /\ ~bCommandSend /\ bUpdate /\ a.kind = "status"
    BY <1>2, <1>6 DEF Starting, Unsent, a
  <2>2. P = <<>> \/ P = <<"SENDDATAFRAME">>
    BY <2>1, PostsOne DEF P
  <2>3. Posted' \subseteq {"SENDDATAFRAME"}
    BY <1>2, <2>2 DEF Host!Messages
  <2> QED BY <1>1, <1>2, <1>6, <2>3 DEF Starting, Unsent
<1>7. ASSUME Sending PROVE Sending' \/ Stuck'
  <2>1. ~bCommandSend /\ ~bCommandGetverison /\ (a.kind = "data" \/ Refusal(a))
    BY <1>2, <1>7 DEF Sending, a
  <2>2. CASE a.kind = "data"
    <3>1. P = <<>> \/ (P = <<"CONTINUEDATA">> /\ bDataSend)
      BY <2>1, <2>2, PostsOne DEF P
    <3>2. Posted' \subseteq {"CONTINUEDATA"} /\ (Posted' # {} => bDataSend)
      BY <1>2, <3>1 DEF Host!Messages
    <3> QED BY <1>1, <1>2, <1>7, <2>2, <3>2 DEF Sending, Size
  <2>3. CASE Refusal(a)
    <3>1. a.kind = "status" /\ a.code # 0
      BY <2>3 DEF Refusal
    <3>2. P = <<>>
      BY <3>1, PostsOne DEF P
    <3> QED BY <1>2, <3>2 DEF Stuck
  <2> QED BY <2>1, <2>2, <2>3
<1>8. ASSUME Checking PROVE Checking'
  <2>1. ~bDataSend /\ ~bCommandGetverison
    BY <1>8 DEF Checking
  <2>2. P = <<>> \/ (P = <<"TRANSFER2NEWFIRMWARE">> /\ bCommandSend /\ WholeFile)
    <3>1. CASE Refusal(a)
      BY <3>1, PostsOne DEF P, Refusal
    <3>2. CASE a.kind \in {"crc", "crc_zero"} /\ (a = mFileCRC => WholeFile)
      BY <2>1, <3>2, PostsOne DEF P
    <3> QED BY <1>2, <1>8, <3>1, <3>2 DEF Checking, a
  <2>3. Posted' \subseteq {"TRANSFER2NEWFIRMWARE"} /\ (Posted' # {} => bCommandSend /\ WholeFile)
    BY <1>2, <2>2 DEF Host!Messages
  <2>4. WholeFile' = WholeFile
    BY <1>1 DEF WholeFile, Standby
  <2> QED BY <1>1, <1>2, <1>8, <2>3, <2>4 DEF Checking, Size
<1>9. ASSUME Switching PROVE Switching'
  <2>1. a.kind = "status" /\ bCommandSend
    BY <1>2, <1>9 DEF Switching, a
  <2>2. P = <<>> \/ P = <<"UPDATEOVER">>
    BY <2>1, PostsOne DEF P
  <2>3. Posted' \subseteq {"UPDATEOVER"}
    BY <1>2, <2>2 DEF Host!Messages
  <2> QED BY <1>1, <1>2, <1>9, <2>3 DEF Switching
<1>10. ~Stuck
  BY <1>2 DEF Stuck
<1> QED BY <1>2, <1>3, <1>4, <1>5, <1>6, <1>7, <1>8, <1>9, <1>10 DEF OInv

\* The report of a timeout changes nothing else.
LEMMA TimedOut ==
    ASSUME OInv, Host!ReadTimeout, UNCHANGED vars
    PROVE  OInv'
<1>1. /\ mHandler' = Append(mHandler, "CONNECTIONLOST")
      /\ UNCHANGED <<file, opened, bFileFormat, bUpdate, bDataSend, bCommandSend,
                     bCommandGetverison, bDataAckError, bFileReadOver, randomIv, fis, baos,
                     mFileCRC, ui, toDevice, toHost, chooses, flash, gpnvm2, switching>>
  BY DEF Host!ReadTimeout, Host!Post, Host!flags, Host!work, Host!screen, Host!net,
         Host!bounds, vars, ram
<1>2. /\ mHandler' \in Seq(Host!Messages)
      /\ \A i, j \in DOMAIN mHandler' :
            mHandler'[i] # "CONNECTIONLOST" /\ mHandler'[j] # "CONNECTIONLOST" => i = j
      /\ Posted' = Posted
  BY <1>1, PostedOne DEF OInv, Host!Messages
<1>3. OneAtATime'
  BY <1>1, <1>2 DEF OInv, OneAtATime
<1>4. HostTypes' /\ GatewaySide'
  BY <1>1 DEF OInv, HostTypes, GatewaySide, Accounted, WholeFile, Standby, Carried
<1>5. (Viewing => Viewing') /\ (Starting => Starting') /\ (Sending => Sending')
  BY <1>1, <1>2 DEF Viewing, Starting, Sending, Unsent, Carried, Answer, Size, Size
<1>6. (Checking => Checking') /\ (Switching => Switching') /\ (Stuck => Stuck')
  BY <1>1, <1>2 DEF Checking, Switching, Stuck, Carried, Answer, WholeFile, Standby, Size
<1> QED BY <1>3, <1>4, <1>5, <1>6 DEF OInv

\* A step of the reader.
LEMMA ReaderStep ==
    ASSUME OInv, Host!Reader, UNCHANGED vars
    PROVE  OInv'
<1>1. CASE Host!RunEnds
  BY <1>1, Unseen DEF Host!RunEnds, Host!flags, Host!work, Host!screen, Host!bounds, Seen,
                      vars, ram
<1> QED BY <1>1, ReplyRead, TimedOut DEF Host!Reader
-----------------------------------------------------------------------------
(***************************************************************************)
(* The gateway.                                                            *)
(***************************************************************************)

\* What one call of handle_upgrade_packet does and answers.
LEMMA PacketHandled ==
    ASSUME NEW f, NEW fault, HandlePacket(f, fault),
           f.type \in {"AUTHENTICATED_FRAME", "DATA_FRAME", "COMMAND_FRAME"}
    PROVE  /\ gpnvm2' = gpnvm2
           /\ f.type # "DATA_FRAME" => flash' = flash
           /\ switching' = switching \/ Kind(f) = "EXEC"
           /\ Kind(f) \in {"AUTHENTICATED_FRAME", "EXEC"} => ack'.kind = "status"
           /\ Kind(f) = "EXEC" /\ ack'.code = 0 => switching'
           /\ Kind(f) = "DATA_FRAME" => ack'.kind = "data" \/ Refusal(ack')
           /\ Kind(f) = "GET_CRC" => \/ Refusal(ack') \/ ack' = CrcZero
                                     \/ ack' = calc_crc(Standby, file_len)
<1> USE DEF Kind, Refusal, vars, ram
<1>1. \A c : Status(c).kind = "status" /\ Status(c).code = c
  BY DEF Status
<1>2. CASE InvalidPacket(f)
  <2>1. ack' = Status(is_pkt_valid(f)) /\ UNCHANGED <<switching, flash, gpnvm2>>
    BY <1>2 DEF InvalidPacket
  <2>2. is_pkt_valid(f) # 0
    BY <1>2 DEF InvalidPacket, PKT_VALID
  <2> QED BY <1>1, <2>1, <2>2
<1>3. CASE f.type = "AUTHENTICATED_FRAME" /\ Authenticate(f)
  BY <1>1, <1>3 DEF Authenticate, upgrade_start, upgrade_end
<1>4. CASE f.type # "AUTHENTICATED_FRAME" /\ NotAuthenticated(f)
  <2>1. ack' = Status(1) /\ UNCHANGED <<switching, flash, gpnvm2>>
    BY <1>4 DEF NotAuthenticated, AUTHENTICATED_FAIL
  <2> QED BY <1>1, <1>4, <2>1
<1>5. CASE f.type = "DATA_FRAME" /\ (DataRefused(f) \/ DataOutOfOrder(f))
  BY <1>1, <1>5 DEF DataRefused, DataOutOfOrder, upgrade_end, DATA_FRAME_SEQ_ERR,
                    DATA_FRAME_LEN_ERR
<1>6. CASE f.type = "DATA_FRAME" /\ DataStore(f, fault)
  <2>1. UNCHANGED <<switching, gpnvm2>>
    BY <1>6 DEF DataStore
  <2>2. ack' = DataAck(f.seq, f.len) \/ ack' = Status(DATA_FRAME_FLASH_WR_ERR)
    BY <1>6 DEF DataStore
  <2> QED BY <1>1, <1>6, <2>1, <2>2 DEF DataAck, DATA_FRAME_FLASH_WR_ERR
<1>7. CASE f.type = "COMMAND_FRAME" /\ Command(f)
  <2>1. UNCHANGED <<flash, gpnvm2>>
    BY <1>7 DEF Command
  <2>2. CASE GetVersion(f)
    BY <1>7, <2>1, <2>2 DEF GetVersion
  <2>3. CASE GetCRC(f)
    BY <1>7, <2>1, <2>3 DEF GetCRC, Standby
  <2>4. CASE Exec(f)
    BY <1>1, <1>7, <2>1, <2>4 DEF Exec
  <2>5. CASE UnsupportedCommand(f)
    BY <1>7, <2>1, <2>5 DEF UnsupportedCommand
  <2> QED BY <1>7, <2>2, <2>3, <2>4, <2>5 DEF Command
<1> QED BY <1>2, <1>3, <1>4, <1>5, <1>6, <1>7 DEF HandlePacket

\* The gateway takes the only frame and answers.
LEMMA FrameTaken ==
    ASSUME OInv, NEW fault, server_recv(fault)
    PROVE  OInv'
<1> DEFINE f == Head(toDevice).frame
<1>1. /\ toDevice # <<>> /\ (toHost' = toHost \/ toHost' = Append(toHost, ack'))
      /\ HandlePacket(f, fault) /\ toDevice' = Tail(toDevice)
      /\ UNCHANGED <<file, opened, bFileFormat, bUpdate, bDataSend, bCommandSend,
                     bCommandGetverison, bDataAckError, bFileReadOver, randomIv, fis, baos,
                     mFileCRC, mHandler, ui, chooses>>
  BY DEF server_recv, hostOnly
<1>2. /\ toDevice' = <<>> /\ Posted = {} /\ Posted' = {}
      /\ toHost = <<>> /\ (toHost' = <<>> \/ toHost' = <<ack'>>)
  <2>1. toDevice = <<Head(toDevice)>> /\ toHost = <<>> /\ Posted = {}
    BY <1>1 DEF OInv, OneAtATime
  <2>2. toDevice' = <<>>
    <3>1. \A e : Tail(<<e>>) = <<>>
      OBVIOUS
    <3> QED BY <1>1, <2>1, <3>1
  <2>3. toHost' = <<>> \/ toHost' = <<ack'>>
    BY <1>1, <2>1
  <2> QED BY <1>1, <2>1, <2>2, <2>3 DEF Posted
<1>3. OneAtATime' /\ HostTypes' /\ (toHost' # <<>> => Answer' = ack')
  <2>1. OneAtATime'
    BY <1>1, <1>2 DEF OInv, OneAtATime
  <2>2. HostTypes'
    BY <1>1 DEF OInv, HostTypes
  <2>3. toHost' # <<>> => Answer' = ack'
    BY <1>2 DEF Answer
  <2> QED BY <2>1, <2>2, <2>3
<1>4. /\ f.type \in {"AUTHENTICATED_FRAME", "DATA_FRAME", "COMMAND_FRAME"}
      /\ Kind(f) = "DATA_FRAME" => ~switching
      /\ Kind(f) = "EXEC" => Accounted
  BY <1>1 DEF OInv, GatewaySide, Carried
<1> HIDE DEF f
<1>5. /\ gpnvm2' = gpnvm2
      /\ f.type # "DATA_FRAME" => flash' = flash
      /\ switching' = switching \/ Kind(f) = "EXEC"
      /\ Kind(f) \in {"AUTHENTICATED_FRAME", "EXEC"} => ack'.kind = "status"
      /\ Kind(f) = "DATA_FRAME" => ack'.kind = "data" \/ Refusal(ack')
      /\ Kind(f) = "GET_CRC" => \/ Refusal(ack') \/ ack' = CrcZero
                                \/ ack' = calc_crc(Standby, file_len)
  BY <1>1, <1>4, PacketHandled
<1>6. f.type = "DATA_FRAME" => Kind(f) = "DATA_FRAME"
  BY DEF Kind
<1>7. ASSUME f.type # "DATA_FRAME" PROVE WholeFile' = WholeFile
  BY <1>1, <1>5, <1>7 DEF WholeFile, Standby
<1>8. GatewaySide'
  <2>1. switching' => f.type # "DATA_FRAME" /\ Accounted
    <3>1. CASE Kind(f) = "EXEC"
      BY <1>4, <1>6, <3>1
    <3>2. CASE Kind(f) # "EXEC"
      BY <1>4, <1>5, <1>6, <3>2 DEF OInv, GatewaySide
    <3> QED BY <3>1, <3>2
  <2>2. ASSUME switching' PROVE Accounted'
    <3>1. WholeFile /\ (bCommandSend \/ ~bFileFormat)
      BY <2>1, <2>2 DEF Accounted
    <3>2. WholeFile'
      BY <1>7, <2>1, <2>2, <3>1
    <3> QED BY <1>1, <3>1, <3>2 DEF Accounted
  <2> QED BY <1>2, <2>2 DEF GatewaySide
<1>9. Viewing => Viewing'
  BY <1>1, <1>2 DEF Viewing, Unsent
<1>10. ASSUME Starting PROVE Starting'
  <2>1. Kind(f) = "AUTHENTICATED_FRAME"
    BY <1>1, <1>10 DEF Starting, Carried, f
  <2>2. switching' = switching /\ ack'.kind = "status"
    BY <1>5, <2>1
  <2> QED BY <1>1, <1>2, <1>3, <1>10, <2>2 DEF Starting, Unsent
<1>11. ASSUME Sending PROVE Sending'
  <2>1. Kind(f) = "DATA_FRAME"
    BY <1>1, <1>11 DEF Sending, Carried, f
  <2>2. switching' = switching /\ (ack'.kind = "data" \/ Refusal(ack'))
    BY <1>5, <2>1
  <2>3. toHost' # <<>> => Answer'.kind = "data" \/ Refusal(Answer')
    BY <1>3, <2>2
  <2> QED BY <1>1, <1>2, <1>11, <2>2, <2>3 DEF Sending, Size
<1>12. ASSUME Checking PROVE Checking'
  <2>1. Kind(f) = "GET_CRC"
    BY <1>1, <1>12 DEF Checking, Carried, f
  <2>2. switching' = switching /\ f.type # "DATA_FRAME" /\ flash' = flash
    BY <1>5, <1>6, <2>1
  <2>3. \/ Refusal(ack')
        \/ ack'.kind \in {"crc", "crc_zero"} /\ (ack' = mFileCRC => WholeFile)
    <3>1. CASE Refusal(ack')
      BY <3>1
    <3>2. CASE ack' = CrcZero
      <4>1. mFileCRC.kind = "crc"
        <5>1. Upto(opened, Size) # <<>> /\ mFileCRC = CrcOfChunks(Upto(opened, Size))
          <6>1. Size \in Nat /\ Size > 0
            BY <1>12, FileAssumption DEF OInv, HostTypes, Checking, Size
          <6>2. Len(Upto(opened, Size)) = Size
            BY <6>1 DEF Upto
          <6> QED BY <1>12, <6>1, <6>2 DEF Checking
        <5> QED BY <5>1 DEF CrcOfChunks, Crc
      <4>2. ack'.kind = "crc_zero"
        BY <3>2 DEF CrcZero
      <4> QED BY <4>1, <4>2
    <3>3. CASE ack' = calc_crc(Standby, file_len)
      <4>1. ack'.kind = "crc"
        BY <3>3 DEF calc_crc, Crc
      <4>2. ASSUME ack' = mFileCRC PROVE WholeFile
        <5>1. Size \in Nat \ {0}
          BY <1>12, FileAssumption DEF OInv, HostTypes, Checking, Size
        <5>2. calc_crc(Standby, file_len) = CrcOfChunks(Upto(opened, Size))
          BY <1>12, <3>3, <4>2 DEF Checking
        <5>3. \A i \in 1 .. Size, h \in {0, 1} :
                Standby[2 * (i - 1) + h] = Page(opened.content[i], h, MAX_PLAINTEXT_LEN)
          <6> HIDE DEF Size
          <6> QED BY <5>1, <5>2, CrcSays
        <5> QED BY <5>3 DEF WholeFile, Size
      <4> QED BY <4>1, <4>2
    <3> QED BY <1>5, <2>1, <3>1, <3>2, <3>3
  <2>4. WholeFile' = WholeFile
    BY <1>7, <2>2
  <2>5. toHost' # <<>> => \/ Refusal(Answer')
                          \/ /\ Answer'.kind \in {"crc", "crc_zero"}
                             /\ Answer' = mFileCRC' => WholeFile'
    BY <1>1, <1>3, <2>3, <2>4
  <2> QED BY <1>1, <1>2, <1>12, <2>2, <2>5 DEF Checking, Size
<1>13. ASSUME Switching PROVE Switching'
  <2>1. Kind(f) = "EXEC"
    BY <1>1, <1>13 DEF Switching, Carried, f
  <2>2. ack'.kind = "status"
    BY <1>5, <2>1
  <2> QED BY <1>1, <1>2, <1>3, <1>13, <2>2 DEF Switching
<1>14. ~Stuck
  BY <1>1 DEF Stuck
<1> QED BY <1>3, <1>8, <1>9, <1>10, <1>11, <1>12, <1>13, <1>14 DEF OInv

\* A frame is lost.
LEMMA FrameLost ==
    ASSUME OInv, FrameToUart
    PROVE  OInv'
<1>1. /\ toDevice # <<>> /\ toDevice' = Tail(toDevice)
      /\ UNCHANGED <<file, opened, bFileFormat, bUpdate, bDataSend, bCommandSend,
                     bCommandGetverison, bDataAckError, bFileReadOver, randomIv, fis, baos,
                     mFileCRC, mHandler, ui, toHost, chooses, flash, gpnvm2, switching>>
  BY DEF FrameToUart, hostOnly, vars, ram
<1>2. toDevice' = <<>>
  <2>1. toDevice = <<Head(toDevice)>>
    BY <1>1 DEF OInv, OneAtATime
  <2>2. \A e : Tail(<<e>>) = <<>>
    OBVIOUS
  <2>3. toDevice' = Tail(toDevice)
    BY <1>1
  <2> QED BY <2>1, <2>2, <2>3
<1>3. HostTypes' /\ OneAtATime' /\ GatewaySide'
  BY <1>1, <1>2 DEF OInv, HostTypes, OneAtATime, GatewaySide, Posted, Accounted, WholeFile,
                    Standby
<1>4. (Viewing => Viewing') /\ (Starting => Starting') /\ (Sending => Sending')
  BY <1>1, <1>2 DEF Viewing, Starting, Sending, Unsent, Posted, Answer, Size
<1>5. (Checking => Checking') /\ (Switching => Switching') /\ (Stuck => Stuck')
  BY <1>1, <1>2 DEF Checking, Switching, Stuck, Posted, Answer, WholeFile, Standby, Size
<1> QED BY <1>3, <1>4, <1>5 DEF OInv

\* The gateway restarts: what was under way is lost, and it is not switching.
LEMMA GatewayRestarts ==
    ASSUME OInv, DeviceRestart
    PROVE  OInv'
<1>1. /\ toDevice' = <<>> /\ toHost' = <<>> /\ ~switching'
      /\ ~switching => UNCHANGED <<flash, gpnvm2>>
      /\ UNCHANGED <<file, opened, bFileFormat, bUpdate, bDataSend, bCommandSend,
                     bCommandGetverison, bDataAckError, bFileReadOver, randomIv, fis, baos,
                     mFileCRC, mHandler, ui, chooses>>
  BY DEF DeviceRestart, code_switching, PowerLoss, Boot, hostOnly
<1>2. HostTypes' /\ OneAtATime' /\ GatewaySide'
  BY <1>1 DEF OInv, HostTypes, OneAtATime, GatewaySide, Posted
<1>3. (Viewing => Viewing') /\ (Starting => Starting') /\ (Sending => Sending')
  BY <1>1 DEF Viewing, Starting, Sending, Unsent, Posted, Size
<1>4. (Switching => Switching') /\ (Stuck => Stuck')
  BY <1>1 DEF Switching, Stuck, Posted
<1>5. ASSUME Checking PROVE Checking'
  <2>1. WholeFile' = WholeFile
    BY <1>1, <1>5 DEF Checking, WholeFile, Standby
  <2> QED BY <1>1, <1>5, <2>1 DEF Checking, Posted, Size
<1> QED BY <1>2, <1>3, <1>4, <1>5 DEF OInv

\* With a user who taps only in an application that is as it was started, and who
\* waits for the reset before choosing a file in one started again, the client is
\* in one of its stages, and one thing at a time is under way.
THEOREM FreshUpdates ==
    ASSUME Patient PROVE SysSpec => []OInv
<1>1. SysInit => OInv
  BY InitFresh
<1>2. OInv /\ [SysNext]_sysVars => OInv'
  <2> SUFFICES ASSUME OInv, [SysNext]_sysVars PROVE OInv'
    OBVIOUS
  <2>1. CASE UNCHANGED sysVars
    BY <2>1, Unseen DEF sysVars, hostOnly, vars, ram, Seen
  <2>2. CASE HostStep
    <3>1. UserWaits /\ TapsFresh /\ UNCHANGED vars
      BY <2>2 DEF HostStep
    <3> QED BY <2>2, <3>1, UserStep, HandlerStep, ReaderStep DEF HostStep
  <2>3. ASSUME NEW fault \in PageFaults, server_recv(fault)
        PROVE  OInv'
    BY <2>3, FrameTaken
  <2>4. CASE FrameToUart
    BY <2>4, FrameLost
  <2>5. CASE DeviceRestart
    BY <2>5, GatewayRestarts
  <2> QED BY <2>1, <2>2, <2>3, <2>4, <2>5 DEF SysNext
<1> QED BY <1>1, <1>2, PTL DEF SysSpec

\* For the same user the bank the gateway is about to boot holds the whole of the
\* file that was opened when the data began (SENDDATAFRAME): whatever the flash
\* does, whatever file is picked in between, whatever is lost with a connection, a
\* relaunch or a reset, and however late the handler runs.  The step that counts
\* is handle_upgrade_packet taking EXEC.
THEOREM FreshUpdateBootsWholeFile ==
    ASSUME Patient PROVE SysSpec => []BootsWholeFile
<1>1. OInv => BootsWholeFile
  BY DEF OInv, GatewaySide, Accounted, BootsWholeFile
<1> QED BY <1>1, FreshUpdates, PTL

\* What the client reports, or will report, as done: only what the gateway has
\* accepted.
OkTold ==
    /\ dialog = "Update OK" => execs
    /\ "UPDATEOVER" \in Posted => execs
    /\ toHost # <<>> /\ bCommandSend /\ Answer.kind = "status" /\ Answer.code = 0 => execs

\* The client reports nothing that the gateway has not accepted.
LEMMA ClientTells ==
    ASSUME OInv, OkTold, TapsFresh, HostStep
    PROVE  OkTold'
<1> USE DEF Host!flags, Host!work, Host!screen, Host!net, Host!bounds
<1>1. UNCHANGED vars /\ execs' = (execs /\ randomIv' = randomIv)
  BY DEF HostStep
<1>0. execs /\ randomIv' = randomIv => execs'
  BY <1>1
<1>2. CASE Host!User
  <2>1. ASSUME NEW update \in BOOLEAN, Host!Press(update) PROVE OkTold'
    <3>1. dialog' = "none" /\ mHandler' = mHandler /\ toHost' = toHost /\ randomIv' # randomIv
      BY <2>1 DEF Host!Press, OInv, HostTypes
    <3>2. mHandler = <<>> /\ toHost = <<>>
      BY <3>1 DEF TapsFresh, Fresh
    <3>3. Posted' = {}
      BY <3>1, <3>2 DEF Posted
    <3> QED BY <3>1, <3>2, <3>3 DEF OkTold
  <2>2. ASSUME Host!User, randomIv' = randomIv, dialog' = dialog \/ dialog' = "none",
               mHandler' = mHandler \/ mHandler' = <<>>,
               toHost' = <<>> \/ (toHost' = toHost /\ bCommandSend' = bCommandSend)
        PROVE  OkTold'
    <3>1. Posted' = Posted \/ Posted' = {}
      BY <2>2 DEF Posted
    <3>2. execs => execs'
      BY <1>0, <2>2
    <3>3. /\ dialog' = "Update OK" => execs'
          /\ "UPDATEOVER" \in Posted' => execs'
      BY <2>2, <3>1, <3>2 DEF OkTold
    <3>4. toHost' # <<>> => UNCHANGED <<toHost, Answer, bCommandSend>>
      BY <2>2 DEF Answer
    <3>5. toHost' # <<>> /\ bCommandSend' /\ Answer'.kind = "status" /\ Answer'.code = 0
          => execs'
      BY <3>2, <3>4 DEF OkTold
    <3> QED BY <3>3, <3>5 DEF OkTold
  <2>3. ASSUME NEW f \in Files, Host!ChooseFile(f) PROVE OkTold'
    BY <1>2, <2>2, <2>3 DEF Host!ChooseFile
  <2>4. CASE Host!Stop \/ Host!Resume \/ Host!Relaunch
    BY <1>2, <2>2, <2>4 DEF Host!Stop, Host!Resume, Host!Relaunch
  <2> QED BY <1>2, <2>1, <2>3, <2>4 DEF Host!User
<1>3. ASSUME NEW m, Host!Handle(m), UNCHANGED <<bCommandSend, toHost, randomIv>>,
             dialog' = dialog \/ m = "UPDATEOVER" \/ dialog' = "Timeout"
      PROVE  OkTold'
  <2>1. Posted' = Posted \/ Posted' = {}
    BY <1>3, Handled DEF OInv
  <2>2. m = "UPDATEOVER" => "UPDATEOVER" \in Posted
    BY <1>3, Handled DEF OInv
  <2> QED BY <1>0, <1>3, <2>1, <2>2 DEF OkTold, Answer
<1>4. CASE Host!SendDataFrame \/ Host!ContinueData \/ Host!FileSent
  BY <1>3, <1>4 DEF Host!SendDataFrame, Host!ContinueData, Host!FileSent
<1>5. CASE Host!SendGetVersion \/ Host!Transfer2NewFirmware
  BY <1>3, <1>5 DEF Host!SendGetVersion, Host!Transfer2NewFirmware
<1>6. CASE Host!Show
  BY <1>3, <1>6 DEF Host!Show
<1>7. CASE Host!FinishSend
  <2>1. /\ UNCHANGED <<dialog, mHandler, toHost, randomIv>>
        /\ bCommandSend' => bCommandSend \/ ui = "command"
    BY <1>7 DEF Host!FinishSend
  <2>2. Posted' = Posted /\ Answer' = Answer
    BY <2>1 DEF Posted, Answer
  <2>3. ui = "command" /\ toHost # <<>> =>
            bCommandSend \/ Answer.kind # "status" \/ Answer.code # 0
    BY DEF OInv, Viewing, Starting, Sending, Checking, Switching, Stuck, Refusal
  <2> QED BY <1>0, <2>1, <2>2, <2>3 DEF OkTold
<1>8. ASSUME NEW n \in 1 .. Len(toHost), Host!messageReceived(n) PROVE OkTold'
  <2>1. /\ toHost # <<>> /\ toHost' = <<>>
        /\ Host!Posts(Answer) = <<>> => Posted' = {}
        /\ \A m \in Host!Messages \ {"CONNECTIONLOST"} :
                Host!Posts(Answer) = <<m>> => Posted' = {m}
        /\ \/ Host!Posts(Answer) = <<>>
           \/ \E m \in Host!Messages \ {"CONNECTIONLOST"} : Host!Posts(Answer) = <<m>>
    BY <1>1, <1>8, Replied
  <2>2. dialog' = dialog
    BY <1>8 DEF Host!messageReceived
  <2>3. ASSUME "UPDATEOVER" \in Posted' PROVE execs
    <3>1. Host!Posts(Answer) = <<"UPDATEOVER">>
      BY <2>1, <2>3
    <3>2. /\ ~bDataSend \/ ~bCommandSend
          /\ (bDataSend \/ bCommandSend) => ~bCommandGetverison
      BY <2>1 DEF OInv, Viewing, Unsent, Starting, Sending, Checking, Switching, Stuck
    <3>3. Answer.kind = "status" /\ Answer.code = 0 /\ bCommandSend
      BY <3>1, <3>2, PostsOne
    <3> QED BY <2>1, <3>3 DEF OkTold
  <2>4. randomIv' = randomIv
    BY <1>8 DEF Host!messageReceived
  <2> QED BY <1>0, <2>1, <2>2, <2>3, <2>4 DEF OkTold
<1>9. CASE Host!RunEnds
  BY <1>0, <1>9 DEF Host!RunEnds, OkTold, Posted, Answer
<1>10. CASE Host!ReadTimeout
  <2>1. /\ UNCHANGED <<dialog, toHost, bCommandSend, randomIv>>
        /\ mHandler' = Append(mHandler, "CONNECTIONLOST")
    BY <1>10 DEF Host!ReadTimeout, Host!Post
  <2>2. Posted' = Posted
    BY <2>1, PostedOne DEF OInv, Host!Messages
  <2> QED BY <1>0, <2>1, <2>2 DEF OkTold, Answer
<1> QED BY <1>2, <1>4, <1>5, <1>6, <1>7, <1>8, <1>9, <1>10
        DEF HostStep, Host!handleMessage, Host!Reader

\* A client that has sent its command takes a good status for the answer to
\* EXEC, and it is: GET_CRC is refused or answered with a CRC.
LEMMA GatewayTells ==
    ASSUME OInv, OkTold, NEW fault, server_recv(fault)
    PROVE  OkTold'
<1> DEFINE f == Head(toDevice).frame
<1>1. /\ toDevice # <<>> /\ (toHost' = toHost \/ toHost' = Append(toHost, ack'))
      /\ HandlePacket(f, fault)
      /\ execs' = (execs \/ (switching' /\ f.type = "COMMAND_FRAME" /\ f.cmd = "EXEC"))
      /\ UNCHANGED <<dialog, bCommandSend, mHandler>>
  BY DEF server_recv, hostOnly
<1>2. toHost = <<>> /\ Posted' = Posted
  BY <1>1 DEF OInv, OneAtATime, Posted
<1>3. f.type \in {"AUTHENTICATED_FRAME", "DATA_FRAME", "COMMAND_FRAME"}
  BY <1>1 DEF OInv, GatewaySide
<1>4. bCommandSend => Kind(f) \in {"GET_CRC", "EXEC"}
  BY <1>1 DEF OInv, Viewing, Unsent, Starting, Sending, Checking, Switching, Stuck, Carried
<1> HIDE DEF f
<1>5. toHost' = <<>> \/ toHost' = <<ack'>>
  BY <1>1, <1>2
<1>6. toHost' # <<>> => Answer' = ack'
  BY <1>5 DEF Answer
<1>7. ASSUME bCommandSend, ack'.kind = "status", ack'.code = 0
      PROVE  execs'
  <2>1. CASE Kind(f) = "EXEC"
    <3>1. f.type = "COMMAND_FRAME" /\ f.cmd = "EXEC"
      BY <1>3, <2>1 DEF Kind
    <3>2. switching'
      BY <1>1, <1>3, <1>7, <2>1, PacketHandled
    <3> QED BY <1>1, <3>1, <3>2
  <2>2. CASE Kind(f) = "GET_CRC"
    <3>1. Refusal(ack') \/ ack' = CrcZero \/ ack' = calc_crc(Standby, file_len)
      BY <1>1, <1>3, <2>2, PacketHandled
    <3> QED BY <1>7, <3>1 DEF Refusal, CrcZero, calc_crc, Crc
  <2> QED BY <1>4, <1>7, <2>1, <2>2
<1> QED BY <1>1, <1>2, <1>6, <1>7 DEF OkTold

\* The same user is told "Update OK" only if the gateway has accepted an EXEC since
\* the tap:
\* messageReceived takes a good status for that only after the command was
\* sent, and by then no other good status is under way.
THEOREM FreshUpdateOKIsTrue ==
    ASSUME Patient PROVE SysSpec => []UpdateOKIsTrue
<1>1. SysInit => OkTold
  BY DEF SysInit, Host!Init, OkTold, Posted
<1>2. OInv /\ OkTold /\ [SysNext]_sysVars => OkTold'
  <2> SUFFICES ASSUME OInv, OkTold, [SysNext]_sysVars PROVE OkTold'
    OBVIOUS
  <2>1. CASE UNCHANGED sysVars
    BY <2>1 DEF sysVars, hostOnly, OkTold, Posted, Answer
  <2>2. CASE HostStep
    BY <2>2, ClientTells DEF HostStep
  <2>3. ASSUME NEW fault \in PageFaults, server_recv(fault) PROVE OkTold'
    BY <2>3, GatewayTells
  <2>4. CASE FrameToUart \/ DeviceRestart
    <3>1. /\ UNCHANGED <<dialog, mHandler, bCommandSend, execs>>
          /\ toHost' = toHost \/ toHost' = <<>>
      BY <2>4 DEF FrameToUart, DeviceRestart, hostOnly
    <3>2. Posted' = Posted /\ (toHost' # <<>> => UNCHANGED <<toHost, Answer>>)
      BY <3>1 DEF Posted, Answer
    <3> QED BY <3>1, <3>2 DEF OkTold
  <2> QED BY <2>1, <2>2, <2>3, <2>4 DEF SysNext
<1>3. OkTold => UpdateOKIsTrue
  BY DEF OkTold, UpdateOKIsTrue
<1> QED BY <1>1, <1>2, <1>3, FreshUpdates, PTL DEF SysSpec
-----------------------------------------------------------------------------
(***************************************************************************)
(* What the gateway does in the system it also does alone: every frame of  *)
(* the client is one that Upgrade sends to the handler.  Upgrade has the   *)
(* frame numbers up to the first that does not fit; the client does not    *)
(* stop there, but the handler treats all those that do not fit alike.     *)
(***************************************************************************)

\* The frames of the client.
ClientData ==
    [type : {"DATA_FRAME"}, tail : {TRUE}, crc : {TRUE}, seq : Nat, len : LENS, iv : IVs,
     data : Data]
ClientFrames == AuthFrames \cup ClientData \cup CommandFrames

\* Nothing is under way before the first authentication frame.
Idle == toDevice = <<>> /\ toHost = <<>> /\ mHandler = <<>> /\ ui = "idle" /\ ~bDataSend

FInv ==
    /\ file \in Files /\ opened \in Files /\ fis \in Nat /\ FrameSequence \in Nat /\ conn \in Nat
    /\ randomIv \in 0 .. Len(IVSeq)
    /\ toDevice \in Seq([conn : Nat, frame : ClientFrames])
    /\ randomIv = 0 => Idle

LEMMA AuthSent ==
    ASSUME FInv, randomIv < Len(IVSeq)
    PROVE  Host!AuthenticationFrame(randomIv + 1) \in ClientFrames
<1>1. IVSeq \in Seq(IVs) /\ randomIv + 1 \in 1 .. Len(IVSeq)
  BY FrameAssumption DEF FInv
<1>2. IVSeq[randomIv + 1] \in IVs
  BY <1>1
<1> QED BY <1>2 DEF Host!AuthenticationFrame, ClientFrames, AuthFrames

LEMMA DataSent ==
    ASSUME FInv, randomIv # 0, NEW c \in Data
    PROVE  Host!generate_data_frame(c, FrameSequence) \in ClientFrames
<1>1. IVSeq \in Seq(IVs) /\ randomIv \in 1 .. Len(IVSeq)
  BY FrameAssumption DEF FInv
<1>2. IVSeq[randomIv] \in IVs
  BY <1>1
<1>3. 1024 \in LENS /\ FrameSequence \in Nat
  BY FrameAssumption DEF FInv, MAX_PLAINTEXT_LEN
<1>4. Host!generate_data_frame(c, FrameSequence) \in ClientData
  BY <1>2, <1>3 DEF Host!generate_data_frame, ClientData
<1> QED BY <1>4 DEF ClientFrames

LEMMA CommandSent ==
    \A c \in {"GET_VERSION", "GET_CRC", "EXEC"} :
        Host!generate_command_frame(c) \in ClientFrames
BY DEF Host!generate_command_frame, ClientFrames, CommandFrames

\* A frame on the way stays one of the client's.
LEMMA QueueSends ==
    ASSUME FInv, NEW f \in ClientFrames, Host!sendBytes(f)
    PROVE  toDevice' \in Seq([conn : Nat, frame : ClientFrames])
<1>1. [conn |-> conn, frame |-> f] \in [conn : Nat, frame : ClientFrames]
  BY DEF FInv
<1> HIDE DEF ClientFrames
<1>2. toDevice \in Seq([conn : Nat, frame : ClientFrames])
  BY DEF FInv
<1>3. Append(toDevice, [conn |-> conn, frame |-> f]) \in Seq([conn : Nat, frame : ClientFrames])
  BY <1>1, <1>2, AppendProperties
<1> QED BY <1>2, <1>3 DEF Host!sendBytes

LEMMA FirstFrames == ASSUME SysInit PROVE FInv
<1>1. <<>> \in Seq([conn : Nat, frame : ClientFrames])
  OBVIOUS
<1>2. Len(IVSeq) \in Nat
  BY FrameAssumption
<1> QED BY <1>1, <1>2 DEF SysInit, Host!Init, FInv, Idle

\* The user and the two threads of the client.
LEMMA ClientKeeps ==
    ASSUME FInv, HostStep
    PROVE  FInv'
<1> USE DEF Host!flags, Host!work, Host!screen, Host!net, Host!bounds
<1>1. ASSUME NEW f \in Files, Host!ChooseFile(f) PROVE FInv'
  BY <1>1 DEF Host!ChooseFile, FInv, Idle
<1>2. ASSUME NEW update \in BOOLEAN, Host!Press(update) PROVE FInv'
  <2>1. Host!AuthenticationFrame(randomIv + 1) \in ClientFrames
    BY <1>2, AuthSent DEF Host!Press
  <2>2. toDevice' \in Seq([conn : Nat, frame : ClientFrames])
    BY <1>2, <2>1, QueueSends DEF Host!Press
  <2>3. randomIv' \in 0 .. Len(IVSeq) /\ randomIv' # 0
    BY <1>2, FrameAssumption DEF Host!Press, FInv
  <2> QED BY <1>2, <2>2, <2>3 DEF Host!Press, FInv
<1>3. CASE Host!Stop \/ Host!Resume \/ Host!Relaunch
  BY <1>3 DEF Host!Stop, Host!Resume, Host!Relaunch, FInv, Idle
<1>4. ASSUME NEW m, Host!Handle(m) PROVE randomIv # 0 /\ ui = "idle"
  BY <1>4 DEF Host!Handle, FInv, Idle
<1>5. ASSUME NEW f \in Files, NEW n \in Nat, NEW t, Host!ReadAndSend(f, n, t), randomIv # 0
      PROVE  /\ toDevice' \in Seq([conn : Nat, frame : ClientFrames])
             /\ fis' \in Nat /\ FrameSequence' \in Nat
  <2>1. CASE n < Len(f.content) /\ ~bDataAckError /\ ~bFileReadOver
    <3>0. f.content[n + 1] \in Data
      <4>1. f.content \in Seq(Data) /\ n + 1 \in 1 .. Len(f.content)
        BY <2>1, FileAssumption
      <4> QED BY <4>1
    <3>1. Host!generate_data_frame(f.content[n + 1], FrameSequence) \in ClientFrames
      BY <1>5, <3>0, DataSent
    <3>2. Host!sendBytes(Host!generate_data_frame(f.content[n + 1], FrameSequence))
      BY <1>5, <2>1 DEF Host!ReadAndSend
    <3>3. toDevice' \in Seq([conn : Nat, frame : ClientFrames])
      BY <3>1, <3>2, QueueSends
    <3>4. fis' = n + 1 /\ FrameSequence' = FrameSequence + 1
      BY <1>5, <2>1 DEF Host!ReadAndSend
    <3> QED BY <3>3, <3>4 DEF FInv
  <2>2. CASE ~(n < Len(f.content) /\ ~bDataAckError /\ ~bFileReadOver)
    <3>1. UNCHANGED <<toDevice, FrameSequence>> /\ fis' \in {n, n + 1}
      BY <1>5, <2>2 DEF Host!ReadAndSend
    <3> QED BY <3>1 DEF FInv
  <2> QED BY <2>1, <2>2
<1>6. CASE Host!SendDataFrame
  <2>1. randomIv # 0 /\ Host!ReadAndSend(file, 0, <<>>) /\ file \in Files /\ opened' = file
    BY <1>4, <1>6 DEF Host!SendDataFrame, FInv
  <2>2. /\ toDevice' \in Seq([conn : Nat, frame : ClientFrames])
        /\ fis' \in Nat /\ FrameSequence' \in Nat
    BY <1>5, <2>1
  <2> QED BY <1>6, <2>1, <2>2 DEF Host!SendDataFrame, FInv
<1>7. CASE Host!ContinueData
  <2>1. randomIv # 0 /\ Host!ReadAndSend(opened, fis, baos) /\ fis \in Nat /\ opened \in Files
    BY <1>4, <1>7 DEF Host!ContinueData, FInv
  <2>2. /\ toDevice' \in Seq([conn : Nat, frame : ClientFrames])
        /\ fis' \in Nat /\ FrameSequence' \in Nat
    BY <1>5, <2>1
  <2> QED BY <1>7, <2>1, <2>2 DEF Host!ContinueData, FInv
<1>8. CASE Host!FileSent
  <2>1. randomIv # 0
    BY <1>4, <1>8 DEF Host!FileSent
  <2>2. toDevice' \in Seq([conn : Nat, frame : ClientFrames])
    <3>1. toDevice' = toDevice \/ Host!sendBytes(Host!generate_command_frame("GET_CRC"))
      BY <1>8 DEF Host!FileSent
    <3> QED BY <3>1, CommandSent, QueueSends DEF FInv
  <2> QED BY <1>8, <2>1, <2>2 DEF Host!FileSent, FInv
<1>9. CASE Host!SendGetVersion
  <2>1. randomIv # 0 /\ Host!sendBytes(Host!generate_command_frame("GET_VERSION"))
    BY <1>4, <1>9 DEF Host!SendGetVersion
  <2>2. toDevice' \in Seq([conn : Nat, frame : ClientFrames])
    BY <2>1, CommandSent, QueueSends
  <2> QED BY <1>9, <2>1, <2>2 DEF Host!SendGetVersion, FInv
<1>10. CASE Host!Transfer2NewFirmware
  <2>1. randomIv # 0 /\ Host!sendBytes(Host!generate_command_frame("EXEC"))
    BY <1>4, <1>10 DEF Host!Transfer2NewFirmware
  <2>2. toDevice' \in Seq([conn : Nat, frame : ClientFrames])
    BY <2>1, CommandSent, QueueSends
  <2> QED BY <1>10, <2>1, <2>2 DEF Host!Transfer2NewFirmware, FInv
<1>11. CASE Host!Show
  <2>1. randomIv # 0
    BY <1>4, <1>11 DEF Host!Show
  <2> QED BY <1>11, <2>1 DEF Host!Show, FInv
<1>12. CASE Host!FinishSend
  BY <1>12 DEF Host!FinishSend, FInv, Idle
<1>13. ASSUME NEW n \in 1 .. Len(toHost), Host!messageReceived(n) PROVE FInv'
  <2>1. randomIv # 0
    BY <1>13 DEF FInv, Idle
  <2> QED BY <1>13, <2>1 DEF Host!messageReceived, FInv
<1>14. CASE Host!RunEnds \/ Host!ReadTimeout
  BY <1>14 DEF Host!RunEnds, Host!ReadTimeout, FInv, Idle
<1> QED BY <1>1, <1>2, <1>3, <1>6, <1>7, <1>8, <1>9, <1>10, <1>11, <1>12, <1>13, <1>14
        DEF HostStep, Host!User, Host!handleMessage, Host!Reader

\* The gateway takes frames and answers them, and restarts.
LEMMA GatewayKeeps ==
    ASSUME FInv, (\E fault \in PageFaults : server_recv(fault)) \/ FrameToUart \/ DeviceRestart
    PROVE  FInv'
<1>1. /\ UNCHANGED <<file, opened, fis, FrameSequence, conn, randomIv, mHandler, ui, bDataSend>>
      /\ toDevice' = <<>> \/ (toDevice # <<>> /\ toDevice' = Tail(toDevice))
      /\ toHost' # <<>> => toHost' = toHost \/ toDevice # <<>>
  BY DEF server_recv, FrameToUart, DeviceRestart, hostOnly
<1>2. toDevice' \in Seq([conn : Nat, frame : ClientFrames])
  <2> DEFINE F == [conn : Nat, frame : ClientFrames]
  <2>1. toDevice \in Seq(F)
    BY DEF FInv
  <2> HIDE DEF F
  <2>2. <<>> \in Seq(F) /\ (toDevice # <<>> => Tail(toDevice) \in Seq(F))
    BY <2>1
  <2> QED BY <1>1, <2>2 DEF F
<1>3. randomIv = 0 => Idle'
  BY <1>1 DEF FInv, Idle
<1> QED BY <1>1, <1>2, <1>3 DEF FInv

\* The client's frames are well formed.
LEMMA WellFormed ==
    ASSUME NEW f \in ClientFrames
    PROVE  /\ is_pkt_valid(f) = PKT_VALID
           /\ f.type = "AUTHENTICATED_FRAME" => f \in AuthFrames
           /\ f.type = "DATA_FRAME" => f \in ClientData
           /\ f.type = "COMMAND_FRAME" => f \in CommandFrames
<1>1. f \in AuthFrames => f.type = "AUTHENTICATED_FRAME" /\ f.tail
  BY DEF AuthFrames
<1>2. f \in ClientData => f.type = "DATA_FRAME" /\ f.tail /\ f.crc
  BY DEF ClientData
<1>3. f \in CommandFrames => f.type = "COMMAND_FRAME" /\ f.tail
  BY DEF CommandFrames
<1>4. f \in AuthFrames \/ f \in ClientData \/ f \in CommandFrames
  BY DEF ClientFrames
<1>5. is_pkt_valid(f) = PKT_VALID
  BY <1>1, <1>2, <1>3, <1>4 DEF is_pkt_valid, PKT_VALID
<1> QED BY <1>1, <1>2, <1>3, <1>4, <1>5

\* A data frame of the client is one of Upgrade's, or its number does not fit.
LEMMA ClientNumber ==
    ASSUME NEW f \in ClientData
    PROVE  /\ f.seq <= MAX_SEQ_NUM => f \in DataFrames
           /\ \E g \in DataFrames : g.seq > MAX_SEQ_NUM
<1>1. f.seq <= MAX_SEQ_NUM => f.seq \in 0 .. MAX_SEQ_NUM + 1
  BY SeqAssumption DEF ClientData
<1>2. f.seq <= MAX_SEQ_NUM => f \in DataFrames
  BY <1>1 DEF ClientData, DataFrames
<1> DEFINE g == [type |-> "DATA_FRAME", tail |-> TRUE, crc |-> TRUE, seq |-> MAX_SEQ_NUM + 1,
                 len |-> f.len, iv |-> f.iv, data |-> f.data]
<1>3. g \in DataFrames /\ g.seq > MAX_SEQ_NUM
  BY SeqAssumption DEF ClientData, DataFrames
<1> QED BY <1>2, <1>3

\* A call of the handler on a frame of the client is one that Upgrade has.
LEMMA CallIsUpgrade ==
    ASSUME NEW f \in ClientFrames, NEW fault \in PageFaults, HandlePacket(f, fault)
    PROVE  handle_upgrade_packet
<1>1. /\ is_pkt_valid(f) = PKT_VALID
      /\ f.type = "AUTHENTICATED_FRAME" => f \in AuthFrames
      /\ f.type = "DATA_FRAME" => f \in ClientData
      /\ f.type = "COMMAND_FRAME" => f \in CommandFrames
  BY WellFormed
<1>2. ~InvalidPacket(f)
  BY <1>1 DEF InvalidPacket
<1>3. CASE f.type = "AUTHENTICATED_FRAME" /\ Authenticate(f)
  BY <1>1, <1>3 DEF handle_upgrade_packet
<1>4. CASE f.type # "AUTHENTICATED_FRAME" /\ NotAuthenticated(f)
  <2>1. f \in ClientData \/ f \in CommandFrames
    BY <1>1, <1>4 DEF ClientFrames, AuthFrames
  <2>2. ASSUME f \in ClientData PROVE \E g \in DataFrames : NotAuthenticated(g)
    <3>1. PICK g \in DataFrames : g.seq > MAX_SEQ_NUM
      BY <2>2, ClientNumber
    <3>2. is_pkt_valid(g) = PKT_VALID
      BY DEF DataFrames, is_pkt_valid, PKT_VALID
    <3> QED BY <1>4, <3>2 DEF NotAuthenticated
  <2> QED BY <1>4, <2>1, <2>2 DEF handle_upgrade_packet
<1>5. CASE f.type = "DATA_FRAME" /\ DataRefused(f)
  <2>1. f \in ClientData
    BY <1>1, <1>5
  <2>2. CASE f.seq <= MAX_SEQ_NUM
    <3>1. f \in DataFrames
      BY <2>1, <2>2, ClientNumber
    <3> QED BY <1>5, <3>1 DEF handle_upgrade_packet
  <2>3. CASE ~(f.seq <= MAX_SEQ_NUM)
    <3>1. PICK g \in DataFrames : g.seq > MAX_SEQ_NUM
      BY <2>1, ClientNumber
    <3>2. is_pkt_valid(g) = PKT_VALID
      BY DEF DataFrames, is_pkt_valid, PKT_VALID
    <3>3. DataRefused(g)
      BY <1>5, <2>3, <3>1, <3>2 DEF DataRefused
    <3> QED BY <3>3 DEF handle_upgrade_packet
  <2> QED BY <2>2, <2>3
<1>6. CASE f.type = "DATA_FRAME" /\ (DataOutOfOrder(f) \/ DataStore(f, fault))
  <2>1. f.seq <= MAX_SEQ_NUM
    BY <1>6 DEF DataOutOfOrder, DataStore, Acceptable
  <2>2. f \in DataFrames
    BY <1>1, <1>6, <2>1, ClientNumber
  <2> QED BY <1>6, <2>2 DEF handle_upgrade_packet
<1>7. CASE f.type = "COMMAND_FRAME" /\ Command(f)
  BY <1>1, <1>7 DEF handle_upgrade_packet
<1> QED BY <1>2, <1>3, <1>4, <1>5, <1>6, <1>7 DEF HandlePacket

\* The gateway in the system is the update service: each step of the system is
\* a step of Upgrade or leaves its state alone.  So all that is proved of
\* Upgrade holds of the gateway the application talks to.
THEOREM ServiceInSystem == SysSpec => Spec
<1>1. SysInit => Init /\ FInv
  BY FirstFrames DEF SysInit
<1>2. FInv /\ [SysNext]_sysVars => FInv'
  <2> SUFFICES ASSUME FInv, [SysNext]_sysVars PROVE FInv'
    OBVIOUS
  <2>1. CASE UNCHANGED sysVars
    BY <2>1 DEF sysVars, hostOnly, FInv, Idle
  <2>2. CASE SysNext
    BY <2>2, ClientKeeps, GatewayKeeps DEF SysNext
  <2> QED BY <2>1, <2>2
<1>3. FInv /\ [SysNext]_sysVars => [Next]_vars
  <2> SUFFICES ASSUME FInv, [SysNext]_sysVars PROVE [Next]_vars
    OBVIOUS
  <2>1. CASE HostStep \/ FrameToUart \/ UNCHANGED sysVars
    BY <2>1 DEF HostStep, FrameToUart, sysVars
  <2>2. ASSUME NEW fault \in PageFaults, server_recv(fault) PROVE Next
    <3>1. toDevice # <<>> /\ toDevice \in Seq([conn : Nat, frame : ClientFrames])
      BY <2>2 DEF server_recv, FInv
    <3>2. Head(toDevice).frame \in ClientFrames
      <4> DEFINE F == [conn : Nat, frame : ClientFrames]
      <4>1. toDevice # <<>> /\ toDevice \in Seq(F)
        BY <3>1
      <4> HIDE DEF F
      <4>2. Head(toDevice) \in F
        BY <4>1
      <4> QED BY <4>2 DEF F
    <3>3. HandlePacket(Head(toDevice).frame, fault)
      BY <2>2 DEF server_recv
    <3> QED BY <3>2, <3>3, CallIsUpgrade DEF Next
  <2>3. CASE DeviceRestart
    BY <2>3 DEF DeviceRestart, Next, Restart
  <2> QED BY <2>1, <2>2, <2>3 DEF SysNext
<1> QED BY <1>1, <1>2, <1>3, PTL DEF SysSpec, Spec

\* With the Android client on the other side of the connections, too, a chunk
\* is acknowledged exactly when it is on the flash behind the chunks before it.
THEOREM SystemStream ==
    ASSUME ReadsSucceed PROVE SysSpec => ImplementsStream
BY ServiceInSystem, StreamImplemented, PTL
=============================================================================
