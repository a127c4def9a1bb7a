---------------------------- MODULE StreamProofs ----------------------------
(***************************************************************************)
(* Proof that the update service implements the chunk stream of            *)
(* ImageStream, and that the CRC it answers with is the one of the file it *)
(* was sent, for every bank size, set of payloads, set of frame lengths    *)
(* and set of flash faults the assumptions of Upgrade allow.               *)
(*                                                                         *)
(* The argument.  A frame is written behind the pages of the frames before *)
(* it, which therefore stay; the read-back compares the pages it was       *)
(* written to; and the second page of a short frame is blank, because it   *)
(* was erased with its group.  So the pages of the standby bank below the  *)
(* next frame always hold the acknowledged chunks, and an acknowledgment   *)
(* appends one chunk.                                                      *)
(***************************************************************************)
EXTENDS UpgradeProofs

\* Frame s of the session is on the flash as it was accepted.
Holds(fl, s) ==
    \E d \in Plaintexts, n \in 1 .. MAX_PLAINTEXT_LEN :
        <<fl[2 * s], fl[2 * s + 1]>> = Cells(d, n)

\* The inductive invariant: that of UpgradeProofs, and what the flash and
\* file_len say of the frames accepted.
SInv ==
    /\ IInv
    /\ is_authenticated = 0 => pre_pkt_seq = -1
    /\ \A s \in 0 .. pre_pkt_seq : Holds(Standby, s)
    /\ pre_pkt_seq >= 0 /\ CutAsFile => file_len = FileLen
    /\ CrcOfFile

-----------------------------------------------------------------------------
\* The bytes of frame s, read off the flash.
Bytes(fl, s) ==
    fl[2 * s].bytes + (IF fl[2 * s + 1] = Erased THEN 0 ELSE fl[2 * s + 1].bytes)

\* The two pages of a frame of n bytes hold n bytes.
LEMMA CellBytes ==
    ASSUME NEW fl, NEW s, NEW d \in Plaintexts, NEW n \in 1 .. MAX_PLAINTEXT_LEN,
           <<fl[2 * s], fl[2 * s + 1]>> = Cells(d, n)
    PROVE  Bytes(fl, s) = n
<1> DEFINE a == fl[2 * s]
           b == fl[2 * s + 1]
<1>1. a = Page(d, 0, n) /\ b = IF n > IFLASH0_PAGE_SIZE THEN Page(d, 1, n) ELSE Erased
  BY DEF Cells
<1>2. a.bytes = IF n >= IFLASH0_PAGE_SIZE THEN IFLASH0_PAGE_SIZE ELSE n
  BY <1>1 DEF Page, IFLASH0_PAGE_SIZE
<1>3. CASE n > IFLASH0_PAGE_SIZE
  <2>1. b \in PageData /\ b # Erased
    BY <1>1, <1>3, PageType, ContentAssumption DEF IFLASH0_PAGE_SIZE
  <2>2. b.bytes = n - IFLASH0_PAGE_SIZE
    BY <1>1, <1>3 DEF Page, IFLASH0_PAGE_SIZE, MAX_PLAINTEXT_LEN
  <2> QED BY <1>2, <1>3, <2>1, <2>2 DEF Bytes, IFLASH0_PAGE_SIZE
<1>4. CASE ~(n > IFLASH0_PAGE_SIZE)
  BY <1>1, <1>2, <1>4 DEF Bytes, IFLASH0_PAGE_SIZE
<1> QED BY <1>3, <1>4

\* A frame that is on the flash as it was accepted has 1 to 1024 bytes.
LEMMA HeldBytes ==
    ASSUME NEW fl, NEW s, Holds(fl, s)
    PROVE  Bytes(fl, s) \in 1 .. MAX_PLAINTEXT_LEN
BY CellBytes DEF Holds

\* What a session accepts and writes: the frames before it stay, and after a
\* good read-back the frame is on the flash.
LEMMA FrameStored ==
    ASSUME IInv, NEW f \in DataFrames, NEW fault \in PageFaults, Acceptable(f)
    PROVE  LET bank == Mapped(gpnvm2)
               w == WriteIn(flash[bank], f.seq, data_decrypt(f), f.len, fault)
           IN /\ \A s \in 0 .. pre_pkt_seq :
                    /\ w.fl[2 * s] = flash[bank][2 * s]
                    /\ w.fl[2 * s + 1] = flash[bank][2 * s + 1]
              /\ w.ok /\ check_integrity(w.fl, f.seq, data_decrypt(f), f.len)
                 => <<w.fl[2 * f.seq], w.fl[2 * f.seq + 1]>> = Cells(data_decrypt(f), f.len)
<1> DEFINE bank == Mapped(gpnvm2)
           pt == data_decrypt(f)
           w == WriteIn(flash[bank], f.seq, pt, f.len, fault)
<1>1. /\ f.seq \in 0 .. MAX_SEQ_NUM /\ f.seq = pre_pkt_seq + 1
      /\ f.len \in 1 .. MAX_PLAINTEXT_LEN
      /\ \A q \in Pages : q < 2 * f.seq => w.fl[q] = flash[bank][q]
      /\ w.ok /\ f.len <= IFLASH0_PAGE_SIZE => w.fl[2 * f.seq + 1] = Erased
  BY AcceptedFrame DEF Acceptable
<1> HIDE DEF w, bank, pt
<1>2. ASSUME NEW s \in 0 .. pre_pkt_seq
      PROVE  w.fl[2 * s] = flash[bank][2 * s] /\ w.fl[2 * s + 1] = flash[bank][2 * s + 1]
  <2>1. pre_pkt_seq \in Int
    BY SeqAssumption DEF IInv, TypeOK
  <2>2. /\ 2 * s \in Pages /\ 2 * s < 2 * f.seq
        /\ 2 * s + 1 \in Pages /\ 2 * s + 1 < 2 * f.seq
    <3> HIDE DEF IInv
    <3> QED BY <1>1, <2>1, SeqAssumption DEF Pages
  <2> QED BY <1>1, <2>2
<1>3. ASSUME w.ok, check_integrity(w.fl, f.seq, pt, f.len)
      PROVE  <<w.fl[2 * f.seq], w.fl[2 * f.seq + 1]>> = Cells(pt, f.len)
  <2>1. ul_page(f.seq, 0) = 2 * f.seq /\ ul_page(f.seq, 1) = 2 * f.seq + 1
    BY <1>1, PageNumber, SeqAssumption
  <2>2. w.fl[2 * f.seq] = Page(pt, 0, f.len)
    BY <1>1, <1>3, <2>1 DEF check_integrity, IFLASH0_PAGE_SIZE
  <2>3. f.len > IFLASH0_PAGE_SIZE => w.fl[2 * f.seq + 1] = Page(pt, 1, f.len)
    BY <1>3, <2>1 DEF check_integrity, IFLASH0_PAGE_SIZE
  <2>4. f.len <= IFLASH0_PAGE_SIZE \/ f.len > IFLASH0_PAGE_SIZE
    BY <1>1 DEF IFLASH0_PAGE_SIZE
  <2> QED BY <1>1, <1>3, <2>2, <2>3, <2>4 DEF Cells, IFLASH0_PAGE_SIZE
<1> QED BY <1>2, <1>3 DEF w, bank, pt

\* The CRC of as many bytes as the file has is the CRC of the file.
LEMMA CrcStored ==
    ASSUME SInv, pre_pkt_seq >= 0, CutAsFile
    PROVE  calc_crc(Standby, file_len) = FileCrc /\ file_len > 0
<1> DEFINE k == (file_len + IFLASH0_PAGE_SIZE - 1) \div IFLASH0_PAGE_SIZE
<1>1. /\ file_len = FileLen /\ file_len <= (pre_pkt_seq + 1) * MAX_PLAINTEXT_LEN
      /\ file_len \in Nat /\ pre_pkt_seq \in Nat
  BY SeqAssumption DEF SInv, IInv, TypeOK, IFLASH1_SIZE, MAX_PLAINTEXT_LEN
<1>2. ChunkLen(pre_pkt_seq + 1) = Bytes(Standby, pre_pkt_seq)
  <2>1. StoredChunks[pre_pkt_seq + 1] = <<Standby[2 * pre_pkt_seq], Standby[2 * pre_pkt_seq + 1]>>
    BY <1>1 DEF StoredChunks
  <2> QED BY <2>1 DEF ChunkLen, Bytes
<1>3. file_len > 0
  <2>1. Bytes(Standby, pre_pkt_seq) \in 1 .. MAX_PLAINTEXT_LEN
    BY <1>1, HeldBytes DEF SInv
  <2> QED BY <1>1, <1>2, <2>1 DEF FileLen, MAX_PLAINTEXT_LEN
<1>4. ASSUME NEW i \in 1 .. k
      PROVE  StoredChunks[(i + 1) \div 2][2 - (i % 2)] = Standby[i - 1]
  <2> DEFINE s == (i + 1) \div 2
  <2>1. s \in 1 .. pre_pkt_seq + 1 /\ i \in Nat
    BY <1>1 DEF IFLASH0_PAGE_SIZE, MAX_PLAINTEXT_LEN
  <2>2. StoredChunks[s] = <<Standby[2 * (s - 1)], Standby[2 * (s - 1) + 1]>>
    BY <2>1 DEF StoredChunks
  <2>3. CASE i % 2 = 1
    <3>1. 2 * (s - 1) = i - 1
      BY <2>1, <2>3
    <3> QED BY <2>2, <2>3, <3>1
  <2>4. CASE i % 2 = 0
    <3>1. 2 * (s - 1) + 1 = i - 1
      BY <2>1, <2>4
    <3> QED BY <2>2, <2>4, <3>1
  <2> QED BY <2>1, <2>3, <2>4
<1>5. [i \in 1 .. k |-> StoredChunks[(i + 1) \div 2][2 - (i % 2)]]
      = [i \in 1 .. k |-> Standby[i - 1]]
  BY <1>4
<1> QED BY <1>1, <1>3, <1>5 DEF calc_crc, FileCrc
-----------------------------------------------------------------------------
\* The file on the flash depends on the standby bank and the frame count only.
LEMMA SameFile ==
    ASSUME UNCHANGED <<pre_pkt_seq, flash, gpnvm2>>
    PROVE  /\ Standby' = Standby /\ StoredChunks' = StoredChunks
           /\ CutAsFile' = CutAsFile /\ FileLen' = FileLen /\ FileCrc' = FileCrc
<1>1. Standby' = Standby
  BY DEF Standby
<1>2. StoredChunks' = StoredChunks
  BY <1>1 DEF StoredChunks
<1>3. ASSUME NEW s PROVE ChunkLen(s)' = ChunkLen(s)
  BY <1>2 DEF ChunkLen
<1>4. CutAsFile' = CutAsFile
  BY <1>3 DEF CutAsFile
<1>5. FileLen' = FileLen
  BY <1>2 DEF FileLen, ChunkLen
<1>6. FileCrc' = FileCrc
  BY <1>2, <1>5 DEF FileCrc
<1> QED BY <1>1, <1>2, <1>4, <1>5, <1>6

\* A step that keeps the standby bank, the session and file_len keeps SInv if it
\* keeps CrcOfFile.
LEMMA SameSession ==
    ASSUME SInv, IInv', CrcOfFile',
           UNCHANGED <<is_authenticated, pre_pkt_seq, file_len, flash, gpnvm2>>
    PROVE  SInv'
BY SameFile DEF SInv

\* A step after which there is no frame establishes SInv.
LEMMA NoSession ==
    ASSUME IInv', pre_pkt_seq' = -1
    PROVE  SInv'
BY DEF SInv, CrcOfFile

\* What DataStore does, in terms of the pages of the standby bank.
LEMMA DataStored ==
    ASSUME IInv, NEW f \in DataFrames, NEW fault \in PageFaults, DataStore(f, fault)
    PROVE  /\ \/ /\ is_authenticated = 1 /\ is_authenticated' = 1
                 /\ f.seq = pre_pkt_seq + 1 /\ f.len \in 1 .. MAX_PLAINTEXT_LEN
                 /\ pre_pkt_seq' = f.seq
                 /\ file_len' = file_len + f.len
                 /\ ack' = DataAck(f.seq, f.len)
                 /\ <<Standby'[2 * f.seq], Standby'[2 * f.seq + 1]>>
                        = Cells(data_decrypt(f), f.len)
              \/ upgrade_end /\ ack' = Status(DATA_FRAME_FLASH_WR_ERR)
           /\ \A s \in 0 .. pre_pkt_seq : /\ Standby'[2 * s] = Standby[2 * s]
                                          /\ Standby'[2 * s + 1] = Standby[2 * s + 1]
           /\ UNCHANGED <<crypto_iv, switching, gpnvm2>>
           /\ flash'[gpnvm2] = flash[gpnvm2]
<1> DEFINE bank == Mapped(gpnvm2)
           pt == data_decrypt(f)
           w == WriteIn(flash[bank], f.seq, pt, f.len, fault)
           driver == data_write(flash, gpnvm2, f.seq, pt, f.len, fault)
<1>0. /\ Acceptable(f) /\ flash' = driver.fl
      /\ UNCHANGED <<crypto_iv, switching, gpnvm2>>
      /\ \/ /\ driver.ok /\ check_integrity(flash'[Mapped(gpnvm2)], f.seq, pt, f.len)
            /\ pre_pkt_seq' = f.seq /\ file_len' = file_len + f.len
            /\ is_authenticated' = is_authenticated /\ ack' = DataAck(f.seq, f.len)
         \/ upgrade_end /\ ack' = Status(DATA_FRAME_FLASH_WR_ERR)
  BY DEF DataStore
<1>1. /\ Acceptable(f)
      /\ flash' = [flash EXCEPT ![bank] = w.fl] /\ driver.ok = w.ok
      /\ UNCHANGED <<crypto_iv, switching, gpnvm2>>
  BY <1>0, AcceptedFrame
<1>2. /\ bank = Mapped(gpnvm2) /\ bank \in Banks /\ bank # gpnvm2
      /\ DOMAIN flash = Banks
  BY DriverBank DEF IInv, TypeOK
<1>3. /\ \A s \in 0 .. pre_pkt_seq :
            /\ w.fl[2 * s] = flash[bank][2 * s]
            /\ w.fl[2 * s + 1] = flash[bank][2 * s + 1]
      /\ w.ok /\ check_integrity(w.fl, f.seq, pt, f.len)
            => <<w.fl[2 * f.seq], w.fl[2 * f.seq + 1]>> = Cells(pt, f.len)
  BY <1>1, FrameStored
<1>4. \/ /\ w.ok /\ check_integrity(flash'[Mapped(gpnvm2)], f.seq, pt, f.len)
         /\ pre_pkt_seq' = f.seq /\ file_len' = file_len + f.len
         /\ is_authenticated' = is_authenticated /\ ack' = DataAck(f.seq, f.len)
      \/ upgrade_end /\ ack' = Status(DATA_FRAME_FLASH_WR_ERR)
  BY <1>0, <1>1
<1> HIDE DEF bank, pt, w, driver
<1>5. flash'[bank] = w.fl /\ flash'[gpnvm2] = flash[gpnvm2]
  BY <1>1, <1>2
<1>6. Standby = flash[bank] /\ Standby' = w.fl
  BY <1>1, <1>2, <1>5 DEF Standby
<1> QED BY <1>1, <1>2, <1>3, <1>4, <1>5, <1>6 DEF Acceptable, pt

\* Every step of the update service preserves SInv.
LEMMA StreamStep ==
    ASSUME SInv, [Next]_vars
    PROVE  SInv'
<1>0. IInv /\ IInv'
  BY Step DEF SInv
<1>1. CASE UNCHANGED vars
  <2>1. CrcOfFile'
    BY <1>1, SameFile DEF SInv, CrcOfFile, vars, ram
  <2> QED BY <1>0, <1>1, <2>1, SameSession DEF vars, ram
<1>2. ASSUME ack'.kind \notin {"crc", "crc_zero"},
             UNCHANGED <<is_authenticated, pre_pkt_seq, file_len, flash, gpnvm2>>
      PROVE  SInv'
  BY <1>0, <1>2, SameSession DEF CrcOfFile
<1>3. ASSUME NEW f, InvalidPacket(f) \/ NotAuthenticated(f) \/ DataRefused(f) PROVE SInv'
  BY <1>2, <1>3 DEF InvalidPacket, NotAuthenticated, DataRefused, ram, Status
<1>4. ASSUME NEW f, Authenticate(f) \/ DataOutOfOrder(f) PROVE SInv'
  BY <1>0, <1>4, NoSession DEF Authenticate, DataOutOfOrder, upgrade_start, upgrade_end
<1>5. ASSUME NEW f \in DataFrames, NEW fault \in PageFaults, DataStore(f, fault) PROVE SInv'
  <2>1. CASE upgrade_end
    BY <1>0, <2>1, NoSession DEF upgrade_end
  <2>2. CASE ~upgrade_end
    <3> DEFINE d == data_decrypt(f)
    <3>1. /\ is_authenticated' = 1
          /\ f.seq = pre_pkt_seq + 1 /\ f.len \in 1 .. MAX_PLAINTEXT_LEN
          /\ pre_pkt_seq' = f.seq /\ file_len' = file_len + f.len
          /\ ack' = DataAck(f.seq, f.len)
          /\ <<Standby'[2 * f.seq], Standby'[2 * f.seq + 1]>> = Cells(d, f.len)
          /\ \A s \in 0 .. pre_pkt_seq : /\ Standby'[2 * s] = Standby[2 * s]
                                         /\ Standby'[2 * s + 1] = Standby[2 * s + 1]
      BY <1>0, <1>5, <2>2, DataStored
    <3>2. d \in Plaintexts /\ pre_pkt_seq \in -1 .. MAX_SEQ_NUM /\ file_len \in Nat
          /\ file_len <= (pre_pkt_seq + 1) * MAX_PLAINTEXT_LEN
      BY <1>0, SeqAssumption DEF data_decrypt, DataFrames, Plaintexts, IInv, TypeOK,
                                 IFLASH1_SIZE, MAX_PLAINTEXT_LEN
    <3> HIDE DEF d
    <3>3. ASSUME NEW s \in 0 .. pre_pkt_seq' PROVE Holds(Standby', s)
      <4>1. CASE s = f.seq
        BY <3>1, <3>2, <4>1 DEF Holds
      <4>2. CASE s # f.seq
        <5>1. s \in 0 .. pre_pkt_seq
          BY <3>1, <3>2, <4>2
        <5> QED BY <5>1, <3>1 DEF SInv, Holds
      <4> QED BY <4>1, <4>2
    <3>4. ASSUME NEW s \in 1 .. pre_pkt_seq' + 1
          PROVE  /\ ChunkLen(s)' = Bytes(Standby', s - 1)
                 /\ s <= pre_pkt_seq + 1 => ChunkLen(s)' = ChunkLen(s)
      <4>1. StoredChunks'[s] = <<Standby'[2 * (s - 1)], Standby'[2 * (s - 1) + 1]>>
        BY DEF StoredChunks
      <4>2. ASSUME s <= pre_pkt_seq + 1
            PROVE  StoredChunks'[s] = StoredChunks[s]
        <5>1. s - 1 \in 0 .. pre_pkt_seq /\ s \in 1 .. pre_pkt_seq + 1
          BY <3>1, <3>2, <4>2
        <5>2. StoredChunks[s] = <<Standby[2 * (s - 1)], Standby[2 * (s - 1) + 1]>>
          BY <5>1 DEF StoredChunks
        <5> QED BY <3>1, <4>1, <5>1, <5>2
      <4> QED BY <4>1, <4>2 DEF ChunkLen, Bytes
    <3>5. ASSUME CutAsFile' PROVE file_len' = FileLen'
      <4>1. FileLen' = f.seq * MAX_PLAINTEXT_LEN + f.len
        BY <3>1, <3>2, <3>4, CellBytes DEF FileLen
      <4>2. file_len = f.seq * MAX_PLAINTEXT_LEN
        <5>1. CASE pre_pkt_seq = -1
          BY <3>1, <3>2, <5>1 DEF MAX_PLAINTEXT_LEN
        <5>2. CASE pre_pkt_seq >= 0
          <6>1. \A s \in 1 .. pre_pkt_seq + 1 : ChunkLen(s) = MAX_PLAINTEXT_LEN
            BY <3>1, <3>2, <3>4, <3>5 DEF CutAsFile
          <6>2. CutAsFile /\ FileLen = (pre_pkt_seq + 1) * MAX_PLAINTEXT_LEN
            BY <3>2, <5>2, <6>1 DEF CutAsFile, FileLen, MAX_PLAINTEXT_LEN
          <6> QED BY <3>1, <5>2, <6>2 DEF SInv
        <5> QED BY <3>2, <5>1, <5>2
      <4> QED BY <3>1, <3>2, <4>1, <4>2 DEF MAX_PLAINTEXT_LEN
    <3>6. CrcOfFile'
      BY <3>1 DEF CrcOfFile, DataAck
    <3> QED BY <1>0, <3>1, <3>3, <3>5, <3>6 DEF SInv
  <2> QED BY <2>1, <2>2
<1>6. ASSUME NEW f, Command(f) PROVE SInv'
  <2>1. UNCHANGED <<is_authenticated, pre_pkt_seq, file_len, flash, gpnvm2>>
    BY <1>6 DEF Command, GetVersion, GetCRC, Exec, UnsupportedCommand, ram
  <2>2. CASE GetCRC(f)
    <3>1. ASSUME pre_pkt_seq >= 0, CutAsFile, FileLen < IFLASH1_SIZE PROVE ack' = FileCrc
      <4>1. calc_crc(Standby, file_len) = FileCrc /\ file_len > 0 /\ file_len = FileLen
        BY <3>1, CrcStored DEF SInv
      <4> QED BY <2>2, <3>1, <4>1 DEF GetCRC, Standby
    <3>2. CrcOfFile'
      BY <2>1, <3>1, SameFile DEF CrcOfFile
    <3> QED BY <1>0, <2>1, <3>2, SameSession
  <2>3. CASE ~GetCRC(f)
    BY <1>2, <1>6, <2>1, <2>3 DEF Command, GetVersion, Exec, UnsupportedCommand,
                                  Status, Version
  <2> QED BY <2>2, <2>3
<1>7. ASSUME Boot PROVE SInv'
  BY <1>0, <1>7, NoSession DEF Boot
<1> QED BY <1>1, <1>3, <1>4, <1>5, <1>6, <1>7
        DEF Next, handle_upgrade_packet, Restart, code_switching, PowerLoss, PowerLossInWrite

\* The pages of the standby bank hold the frames of the session, in every state.
THEOREM StreamInvariant ==
    ASSUME ReadsSucceed PROVE Spec => []SInv
<1>1. Init => SInv
  <2>1. Init => IInv /\ pre_pkt_seq = -1
    BY Initially DEF Init
  <2> QED BY <2>1 DEF SInv, CrcOfFile
<1> QED BY <1>1, StreamStep, PTL DEF Spec

\* GET_CRC answers with the CRC of the file sent so far.
THEOREM CrcIsOfFile ==
    ASSUME ReadsSucceed PROVE Spec => []CrcOfFile
<1>1. SInv => CrcOfFile
  BY DEF SInv
<1> QED BY StreamInvariant, <1>1, PTL
-----------------------------------------------------------------------------
(***************************************************************************)
(* The refinement, state by state and step by step.                        *)
(***************************************************************************)

\* Before the first frame and after the last the stream is empty.
LEMMA NoChunks ==
    /\ pre_pkt_seq = -1 => StoredChunks = <<>>
    /\ pre_pkt_seq' = -1 => StoredChunks' = <<>>
<1>1. 1 .. -1 + 1 = {}
  OBVIOUS
<1> QED BY <1>1 DEF StoredChunks

\* Nothing is stored at first.
LEMMA StreamInit == ReadsSucceed /\ Init => Stream!Init
<1> SUFFICES ASSUME ReadsSucceed, Init PROVE Stream!Init
  OBVIOUS
<1>1. StoredChunks = <<>>
  BY NoChunks DEF Init
<1>2. flash[gpnvm2] \in [Pages -> PageContent]
  BY Initially DEF Init, IInv, TypeOK, Banks
<1>3. is_authenticated # 1 /\ ack.kind # "data"
  BY DEF Init, NoAck
<1> QED BY <1>1, <1>2, <1>3 DEF Stream!Init

\* A step after which no session is open, or the first frame is awaited, while the
\* same image runs: the stream is closed or opened.
LEMMA ClosesOrOpens ==
    ASSUME pre_pkt_seq' = -1, ack'.kind # "data", flash'[gpnvm2'] = flash[gpnvm2],
           is_authenticated' = 0 \/ (is_authenticated' = 1 /\ crypto_iv' \in IVs)
    PROVE  Stream!Next
<1>1. StoredChunks' = <<>>
  BY NoChunks
<1>2. CASE is_authenticated' = 0
  BY <1>1, <1>2 DEF Stream!Next, Stream!Close
<1>3. CASE is_authenticated' = 1 /\ crypto_iv' \in IVs
  BY <1>1, <1>3 DEF Stream!Next, Stream!Open
<1> QED BY <1>2, <1>3

\* A step that only replies: the stream refuses.
LEMMA Refuses ==
    ASSUME UNCHANGED <<is_authenticated, pre_pkt_seq, crypto_iv, flash, gpnvm2>>,
           ack'.kind # "data"
    PROVE  Stream!Next
<1>1. StoredChunks' = StoredChunks
  BY SameFile
<1> QED BY <1>1 DEF Stream!Next, Stream!Refuse

\* An accepted frame appends its chunk.
LEMMA Appends ==
    ASSUME SInv, NEW f \in DataFrames, NEW fault \in PageFaults, DataStore(f, fault)
    PROVE  Stream!Next
<1>1. CASE upgrade_end /\ ack' = Status(DATA_FRAME_FLASH_WR_ERR)
  <2>1. flash'[gpnvm2'] = flash[gpnvm2]
    BY DataStored DEF SInv
  <2> QED BY <1>1, <2>1, ClosesOrOpens DEF upgrade_end, Status
<1>2. CASE ~(upgrade_end /\ ack' = Status(DATA_FRAME_FLASH_WR_ERR))
  <2> DEFINE d == data_decrypt(f)
             n == pre_pkt_seq + 1
  <2>1. /\ is_authenticated = 1 /\ is_authenticated' = 1
        /\ f.seq = n /\ f.len \in 1 .. MAX_PLAINTEXT_LEN
        /\ pre_pkt_seq' = n
        /\ ack' = DataAck(n, f.len)
        /\ <<Standby'[2 * n], Standby'[2 * n + 1]>> = Cells(d, f.len)
        /\ \A s \in 0 .. pre_pkt_seq : /\ Standby'[2 * s] = Standby[2 * s]
                                       /\ Standby'[2 * s + 1] = Standby[2 * s + 1]
        /\ UNCHANGED <<crypto_iv, gpnvm2>>
        /\ flash'[gpnvm2] = flash[gpnvm2]
    BY <1>2, DataStored DEF SInv
  <2>2. d \in Plaintexts /\ f.len \in LENS /\ n \in Nat /\ pre_pkt_seq \in Int
    BY SeqAssumption DEF data_decrypt, DataFrames, Plaintexts, SInv, IInv, TypeOK
  <2> HIDE DEF d
  <2>3. StoredChunks' = Append(StoredChunks, Cells(d, f.len))
    <3>1. /\ StoredChunks = [s \in 1 .. n |-> <<Standby[2 * (s - 1)], Standby[2 * (s - 1) + 1]>>]
          /\ StoredChunks' = [s \in 1 .. n + 1 |->
                                <<Standby'[2 * (s - 1)], Standby'[2 * (s - 1) + 1]>>]
      BY <2>1 DEF StoredChunks
    <3>2. \A s \in 1 .. n : s - 1 \in 0 .. pre_pkt_seq
      BY <2>2
    <3>3. ASSUME NEW s \in 1 .. n
          PROVE  StoredChunks'[s] = StoredChunks[s]
      <4>1. /\ Standby'[2 * (s - 1)] = Standby[2 * (s - 1)]
            /\ Standby'[2 * (s - 1) + 1] = Standby[2 * (s - 1) + 1]
        BY <2>1, <3>2
      <4>2. s \in 1 .. n + 1
        BY <2>2
      <4> QED BY <3>1, <4>1, <4>2
    <3>4. StoredChunks'[n + 1] = Cells(d, f.len)
      <4>1. n + 1 \in 1 .. n + 1 /\ (n + 1) - 1 = n
        BY <2>2
      <4> QED BY <2>1, <3>1, <4>1
    <3> DEFINE old == StoredChunks
               new == StoredChunks'
    <3>5. /\ old = [s \in 1 .. n |-> old[s]]
          /\ new = [s \in 1 .. n + 1 |-> new[s]]
      BY <3>1
    <3> HIDE DEF old, new
    <3> QED BY <2>2, <3>3, <3>4, <3>5 DEF old, new
  <2>4. Len(StoredChunks) = n
    BY <2>2 DEF StoredChunks
  <2>5. Stream!AppendChunk(d, f.len)
    BY <2>1, <2>3, <2>4 DEF Stream!AppendChunk, DataAck
  <2> QED BY <2>1, <2>2, <2>5 DEF Stream!Next
<1> QED BY <1>1, <1>2

\* A switch that succeeds boots an image that starts with the stored chunks.
LEMMA Switches ==
    ASSUME SInv, code_switching(TRUE)
    PROVE  Stream!Next
<1>1. /\ gpnvm2' = 1 - gpnvm2 /\ flash' = flash /\ gpnvm2 \in {0, 1}
      /\ is_authenticated' = 0 /\ pre_pkt_seq' = -1 /\ ack' = NoAck
  BY DEF code_switching, Boot, SInv, IInv, TypeOK
<1>2. flash'[gpnvm2'] = Standby
  BY <1>1 DEF Standby, Mapped
<1>3. Standby \in [Pages -> PageContent]
  BY <1>1, DriverBank DEF Standby, SInv, IInv, TypeOK
<1>4. Len(StoredChunks) = pre_pkt_seq + 1
  BY SeqAssumption DEF StoredChunks, SInv, IInv, TypeOK
<1>5. ChunkPrefix(Standby, Len(StoredChunks)) = StoredChunks
  BY <1>4 DEF ChunkPrefix, StoredChunks
<1>6. StoredChunks' = <<>>
  BY <1>1, NoChunks
<1> QED BY <1>1, <1>2, <1>3, <1>5, <1>6 DEF Stream!Next, Stream!Switch, NoAck

\* Every step of the update service is a step of the stream, or stutters.
LEMMA StreamNext ==
    ASSUME SInv, [Next]_vars
    PROVE  [Stream!Next]_(Stream!vars)
<1>1. CASE UNCHANGED vars
  BY <1>1, SameFile DEF vars, ram, Stream!vars
<1>2. ASSUME NEW f, InvalidPacket(f) PROVE Stream!Next
  BY <1>2, Refuses DEF InvalidPacket, ram, Status
<1>3. ASSUME NEW f \in AuthFrames, Authenticate(f) PROVE Stream!Next
  BY <1>3, ClosesOrOpens DEF Authenticate, AuthFrames, upgrade_start, upgrade_end, Status
<1>4. ASSUME NEW f, NotAuthenticated(f) \/ DataRefused(f) PROVE Stream!Next
  BY <1>4, Refuses DEF NotAuthenticated, DataRefused, ram, Status
<1>5. ASSUME NEW f, DataOutOfOrder(f) PROVE Stream!Next
  BY <1>5, ClosesOrOpens DEF DataOutOfOrder, upgrade_end, Status
<1>6. ASSUME NEW f, Command(f) PROVE Stream!Next
  <2>1. ack'.kind # "data"
    BY <1>6 DEF Command, GetVersion, GetCRC, Exec, UnsupportedCommand, Status, Version,
                CrcZero, calc_crc, Crc
  <2>2. UNCHANGED <<is_authenticated, pre_pkt_seq, crypto_iv, flash, gpnvm2>>
    BY <1>6 DEF Command, GetVersion, GetCRC, Exec, UnsupportedCommand, ram
  <2> QED BY <2>1, <2>2, Refuses
<1>7. ASSUME NEW done \in BOOLEAN, code_switching(done) PROVE Stream!Next
  <2>1. CASE done
    <3>1. code_switching(TRUE)
      BY <1>7, <2>1
    <3> QED BY <3>1, Switches
  <2>2. CASE ~done
    BY <1>7, <2>2, ClosesOrOpens DEF code_switching, Boot, NoAck
  <2> QED BY <2>1, <2>2
<1>8. CASE PowerLoss
  BY <1>8, ClosesOrOpens DEF PowerLoss, Boot, NoAck
<1>9. ASSUME NEW f \in DataFrames, NEW fault \in PageFaults, PowerLossInWrite(f, fault)
      PROVE  Stream!Next
  <2> DEFINE w == data_write(flash, gpnvm2, f.seq, data_decrypt(f), f.len, fault)
             r == WriteIn(flash[Mapped(gpnvm2)], f.seq, data_decrypt(f), f.len, fault)
  <2>0. Acceptable(f) /\ gpnvm2' = gpnvm2 /\ flash' = w.fl
    BY <1>9 DEF PowerLossInWrite
  <2>2. flash' = [flash EXCEPT ![Mapped(gpnvm2)] = r.fl]
    BY <2>0, AcceptedFrame DEF SInv
  <2> HIDE DEF w, r
  <2>1. flash'[gpnvm2'] = flash[gpnvm2]
    BY <2>0, <2>2, DriverBank DEF SInv, IInv, TypeOK, Banks
  <2> QED BY <1>9, <2>1, ClosesOrOpens DEF PowerLossInWrite, Boot, NoAck
<1> QED BY <1>1, <1>2, <1>3, <1>4, <1>5, <1>6, <1>7, <1>8, <1>9, Appends
        DEF Next, handle_upgrade_packet, Restart

\* The update service implements the chunk stream: the behaviour of the handler,
\* the flash driver, the switch and every loss of power is one of ImageStream.
THEOREM StreamImplemented ==
    ASSUME ReadsSucceed PROVE Spec => ImplementsStream
BY StreamInit, StreamNext, StreamInvariant, PTL
   DEF Spec, ImplementsStream, Stream!Spec
=============================================================================
