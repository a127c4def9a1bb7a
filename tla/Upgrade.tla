------------------------------ MODULE Upgrade ------------------------------
(***************************************************************************)
(* The firmware update service of the gateway: network/upgrade/upgrade.c   *)
(* and the flash driver beneath it (flash_efc.c).                          *)
(*                                                                         *)
(* server.c hands every frame that starts with "[UPGRADE" to               *)
(* handle_upgrade_packet, which runs to completion in the main loop; one   *)
(* step of this module is one call of it, one firing of the switching      *)
(* timer, or a loss of power (possibly in the middle of a flash write).    *)
(*                                                                         *)
(* Abstractions.  A flash page holds a record naming which half of which   *)
(* plaintext was programmed and how many of its 512 bytes are payload (the *)
(* rest is 0xff from the memset of data_decrypt), or is Erased, Torn (an   *)
(* interrupted or failed operation) or Mixed (programmed without being     *)
(* erased first: the bitwise AND of two contents).  AES-GCM is a tag that  *)
(* is right or wrong and a decryption that returns the plaintext under the *)
(* sender's IV and garbage (with CRYPT_OK) under any other.  A CRC is the  *)
(* byte range it is computed over.  The switching timer is armed or not;   *)
(* SwitchTimer models its arithmetic.                                      *)
(***************************************************************************)
EXTENDS Integers, Sequences, FiniteSets

CONSTANTS
    MAX_SEQ_NUM,    \* highest frame number (1023 in upgrade.h)
    PAGES_TO_ERASE, \* pages one erase command covers (8 in upgrade.h)
    Data,           \* plaintexts a client may send in a frame
    IVs,            \* initialisation vectors
    BuiltinIV,      \* the initial value of crypto_iv
    LENS,           \* values of the 16-bit length field
    FAULTS,         \* what may go wrong with a page: see write_page
    Garbled,        \* what decrypting under a wrong IV yields
    Factory,        \* the data both banks hold at first
    Erased, Torn, Mixed,
    NoIV

MAX_PLAINTEXT_LEN == 1024
IFLASH0_PAGE_SIZE == 512

\* The bank holds exactly the MAX_SEQ_NUM + 1 frames that can be numbered:
\* 0x100000 = 1024 * 1024 bytes on the SAM4SD32C.  The erase command covers
\* 4, 8, 16 or 32 pages (IFLASH_ERASE_PAGES_4 .. _32 in flash_efc.h).
ASSUME SeqAssumption == MAX_SEQ_NUM \in Nat
ASSUME EraseAssumption == PAGES_TO_ERASE \in {4, 8, 16, 32}
ASSUME LenAssumption == LENS \subseteq 0 .. 65535
ASSUME IVAssumption == BuiltinIV \in IVs /\ NoIV \notin IVs
PageFaultKinds == {"none", "erase", "program", "silent"}
Misreads == {"misread erase", "misread program"}
ASSUME FaultAssumption == FAULTS \subseteq PageFaultKinds \cup Misreads

\* GPNVM2 can always be read before a page is erased or programmed.
ReadsSucceed == FAULTS \cap Misreads = {}

IFLASH1_SIZE == (MAX_SEQ_NUM + 1) * MAX_PLAINTEXT_LEN
Pages == 0 .. 2 * MAX_SEQ_NUM + 1
Banks == {0, 1}

Plaintexts == Data \cup {Garbled}
PageData == [data : Plaintexts \cup {Factory}, half : {0, 1},
             bytes : 1 .. IFLASH0_PAGE_SIZE]
PageContent == PageData \cup {Erased, Torn, Mixed}

ASSUME ContentAssumption ==
    /\ Erased \notin PageData /\ Torn \notin PageData /\ Mixed \notin PageData
    /\ Erased # Torn /\ Erased # Mixed /\ Torn # Mixed

(***************************************************************************)
(* Frames, as the fields the handler looks at.  tail: the ']' is where it  *)
(* should be.  crc: the frame's CRC matches.  tag: the GCM tag matches.    *)
(* Of a malformed frame it looks at nothing else.                          *)
(***************************************************************************)
AuthFrames == [type : {"AUTHENTICATED_FRAME"}, tail : {TRUE}, iv : IVs, tag : BOOLEAN]
DataFrames == [type : {"DATA_FRAME"}, tail : {TRUE}, crc : {TRUE},
               seq : 0 .. MAX_SEQ_NUM + 1, len : LENS, iv : IVs, data : Data]
CommandFrames == [type : {"COMMAND_FRAME"}, tail : {TRUE},
                  cmd : {"GET_VERSION", "GET_CRC", "EXEC", "unsupported"}]
MalformedFrames ==
    [type : {"AUTHENTICATED_FRAME", "DATA_FRAME", "COMMAND_FRAME"}, tail : {FALSE}]
    \cup [type : {"DATA_FRAME"}, tail : {TRUE}, crc : {FALSE}]
    \cup [type : {"ACK_FRAME", "unknown"}]

\* The low half of a reply 0xffff000x (upgrade.h).
AUTHENTICATED_PASS == 0
AUTHENTICATED_FAIL == 1
AUTHENTICATED_INVALID == 2
DATA_FRAME_INVALID == 2
DATA_FRAME_SEQ_ERR == 4
DATA_FRAME_LEN_ERR == 5
DATA_FRAME_CRC_ERR == 6
DATA_FRAME_FLASH_WR_ERR == 8
COMMAND_FRAME_PASS == 0
COMMAND_FRAME_INVALID == 2
COMMAND_FRAME_CMD_ERR == 3
PKT_VALID == 0
PKT_INVALID == 2

\* The 32-bit word of an ACK frame.
NoAck == [kind |-> "none"]
Status(c) == [kind |-> "status", code |-> c]
DataAck(s, n) == [kind |-> "data", seq |-> s, len |-> n]
Version == [kind |-> "version"]
Crc(img, n) == [kind |-> "crc", img |-> img, len |-> n]
CrcZero == [kind |-> "crc_zero"]
Acks ==
    {NoAck, Version, CrcZero}
    \cup [kind : {"status"}, code : 0 .. 8]
    \cup [kind : {"data"}, seq : 0 .. MAX_SEQ_NUM, len : 1 .. MAX_PLAINTEXT_LEN]
    \cup [kind : {"crc"}, img : Seq(PageContent), len : 1 .. IFLASH1_SIZE]

VARIABLES
    is_authenticated,   \* a session is open (0 or 1)
    pre_pkt_seq,        \* number of the last frame accepted, -1 if none
    file_len,           \* bytes accepted in this session
    crypto_iv,          \* IV the next frame is decrypted with
    flash,              \* flash[b][p]: content of page p of physical bank b
    gpnvm2,             \* non-volatile bit: the bank mapped at IFLASH0, which runs
    switching,          \* switching_timer_poll is set: code_switching will run
    ack                 \* the reply to the last frame

ram == <<is_authenticated, pre_pkt_seq, file_len, crypto_iv, switching>>
vars == <<ram, flash, gpnvm2, ack>>

TypeOK ==
    /\ is_authenticated \in {0, 1}
    /\ pre_pkt_seq \in -1 .. MAX_SEQ_NUM
    /\ file_len \in 0 .. IFLASH1_SIZE
    /\ crypto_iv \in IVs
    /\ flash \in [Banks -> [Pages -> PageContent]]
    /\ gpnvm2 \in {0, 1}
    /\ switching \in BOOLEAN
    /\ ack \in Acks

Init ==
    /\ is_authenticated = 0
    /\ pre_pkt_seq = -1
    /\ file_len = 0
    /\ crypto_iv = BuiltinIV
    /\ flash = [b \in Banks |-> [p \in Pages |->
                    [data |-> Factory, half |-> p % 2, bytes |-> IFLASH0_PAGE_SIZE]]]
    /\ gpnvm2 \in {0, 1}
    /\ switching = FALSE
    /\ ack = NoAck
-----------------------------------------------------------------------------
(***************************************************************************)
(* Flash.                                                                  *)
(***************************************************************************)

\* flash_is_gpnvm_set(2): the controller may report an error instead.
flash_is_gpnvm_set(bit, fails) ==
    IF fails THEN "FLASH_RC_ERROR" ELSE IF bit = 1 THEN "FLASH_RC_YES" ELSE "FLASH_RC_NO"

\* Mutant: the driver does not look at GPNVM2.
TranslateIgnoresBit(read) == 1

\* Mutant: an error is taken for a bit that is set.
ErrorIsSet(read) == IF read = "FLASH_RC_NO" THEN 1 ELSE 0

\* translate_address for an address at or above IFLASH1_ADDR: the controller
\* (bank) the driver addresses.  Anything but FLASH_RC_YES counts as clear.
TranslateAddress(read) == IF read = "FLASH_RC_YES" THEN 0 ELSE 1

\* The bank the CPU reads at IFLASH1_ADDR: the one it does not run from.
Mapped(bit) == 1 - bit

\* Mutant: the erase command covers half a group.
ErasesHalf(fl, bank, p, result) ==
    [fl EXCEPT ![bank] =
        [q \in Pages |-> IF q \in p .. p + PAGES_TO_ERASE \div 2 - 1 THEN result ELSE @[q]]]

\* EFC_FCMD_EPA on PAGES_TO_ERASE pages of a bank, done or interrupted.
flash_erase_page(fl, bank, p, result) ==
    [fl EXCEPT ![bank] =
        [q \in Pages |-> IF q \in p .. p + PAGES_TO_ERASE - 1 THEN result ELSE @[q]]]

\* EFC_FCMD_WP: programming can only clear bits.
flash_write(fl, bank, p, c) ==
    [fl EXCEPT ![bank][p] = IF @ = Erased THEN c ELSE Mixed]

\* Page h of the buffer data_decrypt fills with len bytes of plaintext pt.
Page(pt, h, len) ==
    [data |-> pt, half |-> h,
     bytes |-> IF len >= (h + 1) * IFLASH0_PAGE_SIZE
               THEN IFLASH0_PAGE_SIZE ELSE len - h * IFLASH0_PAGE_SIZE]

\* One turn of the loop of data_write; the loop ends at the first error.
\* "erase" and "program": the command reports an error, the pages are torn.
\* "silent": the command reports success but the page does not hold the data,
\* as after a failed read of GPNVM2 in compute_address, which loads the data
\* into the other bank's latches.  "misread ...": GPNVM2 cannot be read in the
\* translate_address of that command, which then goes where it points.
write_page(s, bit, p, c, fault) ==
    LET group == p % PAGES_TO_ERASE = 0
        bankOf(op) == TranslateAddress(flash_is_gpnvm_set(bit, fault = op))
        erased(result) == flash_erase_page(s.fl, bankOf("misread erase"), p, result)
        e == IF group THEN erased(Erased) ELSE s.fl
        bank == bankOf("misread program")
    IN CASE ~s.ok -> s
         [] s.ok /\ group /\ fault = "erase" -> [fl |-> erased(Torn), ok |-> FALSE]
         [] s.ok /\ fault = "program" -> [fl |-> [e EXCEPT ![bank][p] = Torn], ok |-> FALSE]
         [] s.ok /\ fault = "silent" -> [fl |-> [e EXCEPT ![bank][p] = Torn], ok |-> TRUE]
         [] OTHER -> [fl |-> flash_write(e, bank, p, c), ok |-> TRUE]

ul_page(seq, h) == (seq * MAX_PLAINTEXT_LEN + h * IFLASH0_PAGE_SIZE) \div IFLASH0_PAGE_SIZE

\* A frame is at most 1024 bytes, so the loop runs once or twice.
data_write(fl, bit, seq, pt, len, fault) ==
    LET s == write_page([fl |-> fl, ok |-> TRUE], bit, ul_page(seq, 0),
                        Page(pt, 0, len), fault[0])
    IN IF len <= IFLASH0_PAGE_SIZE THEN s
       ELSE write_page(s, bit, ul_page(seq, 1), Page(pt, 1, len), fault[1])

\* Mutant: the flash is not read back.
NoReadBack(fl, seq, pt, len) == TRUE

\* Compares the len bytes that were written, read through the CPU's mapping.
check_integrity(fl, seq, pt, len) ==
    \A h \in {0, 1} :
        len > h * IFLASH0_PAGE_SIZE => fl[ul_page(seq, h)] = Page(pt, h, len)

\* gcm_memory in decrypt mode; the tag of a data frame is not compared.
data_decrypt(f) == IF f.iv = crypto_iv THEN f.data ELSE Garbled

\* calc_crc over the first n bytes at IFLASH1_ADDR.
calc_crc(fl, n) ==
    Crc([i \in 1 .. (n + IFLASH0_PAGE_SIZE - 1) \div IFLASH0_PAGE_SIZE |-> fl[i - 1]], n)
-----------------------------------------------------------------------------
(***************************************************************************)
(* handle_upgrade_packet.                                                  *)
(***************************************************************************)

upgrade_start ==
    /\ is_authenticated' = 1
    /\ pre_pkt_seq' = -1
    /\ file_len' = 0

upgrade_end ==
    /\ is_authenticated' = 0
    /\ pre_pkt_seq' = -1
    /\ file_len' = 0

\* The status is_pkt_valid stores in *ack, PKT_VALID if it accepts the frame.
is_pkt_valid(f) ==
    CASE f.type = "AUTHENTICATED_FRAME" ->
            IF f.tail THEN PKT_VALID ELSE AUTHENTICATED_INVALID
      [] f.type = "DATA_FRAME" ->
            IF ~f.tail THEN DATA_FRAME_INVALID
            ELSE IF ~f.crc THEN DATA_FRAME_CRC_ERR ELSE PKT_VALID
      [] f.type = "COMMAND_FRAME" ->
            IF f.tail THEN PKT_VALID ELSE COMMAND_FRAME_INVALID
      [] OTHER -> PKT_INVALID

InvalidPacket(f) ==
    /\ is_pkt_valid(f) # PKT_VALID
    /\ ack' = Status(is_pkt_valid(f))
    /\ UNCHANGED <<ram, flash, gpnvm2>>

\* The IV is copied before the tag is compared; the code does the same
\* whether or not a session is open.
Authenticate(f) ==
    /\ is_pkt_valid(f) = PKT_VALID
    /\ crypto_iv' = f.iv
    /\ IF f.tag THEN upgrade_start ELSE upgrade_end
    /\ ack' = Status(IF f.tag THEN AUTHENTICATED_PASS ELSE AUTHENTICATED_FAIL)
    /\ UNCHANGED <<flash, gpnvm2, switching>>

NotAuthenticated(f) ==
    /\ is_pkt_valid(f) = PKT_VALID
    /\ is_authenticated = 0
    /\ ack' = Status(AUTHENTICATED_FAIL)
    /\ UNCHANGED <<ram, flash, gpnvm2>>

\* A number beyond the bank, or an illegal length: refused, session kept.
DataRefused(f) ==
    /\ is_pkt_valid(f) = PKT_VALID
    /\ is_authenticated = 1
    /\ \/ /\ f.seq > MAX_SEQ_NUM
          /\ ack' = Status(DATA_FRAME_SEQ_ERR)
       \/ /\ f.seq <= MAX_SEQ_NUM
          /\ f.seq = pre_pkt_seq + 1
          /\ f.len > MAX_PLAINTEXT_LEN \/ f.len = 0
          /\ ack' = Status(DATA_FRAME_LEN_ERR)
    /\ UNCHANGED <<ram, flash, gpnvm2>>

DataOutOfOrder(f) ==
    /\ is_pkt_valid(f) = PKT_VALID
    /\ is_authenticated = 1
    /\ f.seq <= MAX_SEQ_NUM
    /\ f.seq # pre_pkt_seq + 1
    /\ ack' = Status(DATA_FRAME_SEQ_ERR)
    /\ upgrade_end
    /\ UNCHANGED <<crypto_iv, switching, flash, gpnvm2>>

\* Mutant: an empty frame is written.
AcceptsEmpty(f) ==
    /\ is_pkt_valid(f) = PKT_VALID
    /\ is_authenticated = 1
    /\ f.seq <= MAX_SEQ_NUM
    /\ f.seq = pre_pkt_seq + 1
    /\ f.len \in 0 .. MAX_PLAINTEXT_LEN

\* The guards under which the handler goes on to write the frame.
Acceptable(f) ==
    /\ is_pkt_valid(f) = PKT_VALID
    /\ is_authenticated = 1
    /\ f.seq <= MAX_SEQ_NUM
    /\ f.seq = pre_pkt_seq + 1
    /\ f.len \in 1 .. MAX_PLAINTEXT_LEN

DataStore(f, fault) ==
    LET pt == data_decrypt(f)
        w == data_write(flash, gpnvm2, f.seq, pt, f.len, fault)
    IN /\ Acceptable(f)
       /\ flash' = w.fl
       /\ IF w.ok /\ check_integrity(flash'[Mapped(gpnvm2)], f.seq, pt, f.len)
          THEN /\ pre_pkt_seq' = f.seq
               /\ file_len' = file_len + f.len
               /\ is_authenticated' = is_authenticated
               /\ ack' = DataAck(f.seq, f.len)
          ELSE /\ upgrade_end
               /\ ack' = Status(DATA_FRAME_FLASH_WR_ERR)
       /\ UNCHANGED <<crypto_iv, switching, gpnvm2>>

GetVersion(f) ==
    /\ f.cmd = "GET_VERSION"
    /\ ack' = Version
    /\ UNCHANGED ram

\* Mutant: the last frame is taken to be full.
CrcOfWholeFrames(f) ==
    /\ f.cmd = "GET_CRC"
    /\ ack' = IF file_len > 0 /\ file_len < IFLASH1_SIZE
              THEN calc_crc(flash[Mapped(gpnvm2)], (pre_pkt_seq + 1) * MAX_PLAINTEXT_LEN)
              ELSE CrcZero
    /\ UNCHANGED ram

GetCRC(f) ==
    /\ f.cmd = "GET_CRC"
    /\ ack' = IF file_len > 0 /\ file_len < IFLASH1_SIZE
              THEN calc_crc(flash[Mapped(gpnvm2)], file_len)
              ELSE CrcZero
    /\ UNCHANGED ram

Exec(f) ==
    /\ f.cmd = "EXEC"
    /\ ack' = Status(COMMAND_FRAME_PASS)
    /\ switching' = TRUE
    /\ UNCHANGED <<is_authenticated, pre_pkt_seq, file_len, crypto_iv>>

UnsupportedCommand(f) ==
    /\ f.cmd = "unsupported"
    /\ ack' = Status(COMMAND_FRAME_CMD_ERR)
    /\ UNCHANGED ram

Command(f) ==
    /\ is_pkt_valid(f) = PKT_VALID
    /\ is_authenticated = 1
    /\ GetVersion(f) \/ GetCRC(f) \/ Exec(f) \/ UnsupportedCommand(f)
    /\ UNCHANGED <<flash, gpnvm2>>
-----------------------------------------------------------------------------
(***************************************************************************)
(* Restarts.                                                               *)
(***************************************************************************)

\* The start-up code gives the static variables their initial values.
Boot ==
    /\ is_authenticated' = 0
    /\ pre_pkt_seq' = -1
    /\ file_len' = 0
    /\ crypto_iv' = BuiltinIV
    /\ switching' = FALSE
    /\ ack' = NoAck

\* code_switching: toggle GPNVM2, which may fail, and reset in either case.
code_switching(done) ==
    /\ switching
    /\ gpnvm2' = IF done THEN 1 - gpnvm2 ELSE gpnvm2
    /\ Boot
    /\ UNCHANGED flash

PowerLoss ==
    /\ Boot
    /\ UNCHANGED <<flash, gpnvm2>>

\* Power fails while data_write is at the operation that fault makes fail.
PowerLossInWrite(f, fault) ==
    LET w == data_write(flash, gpnvm2, f.seq, data_decrypt(f), f.len, fault)
    IN /\ Acceptable(f)
       /\ ~w.ok
       /\ flash' = w.fl
       /\ Boot
       /\ UNCHANGED gpnvm2

\* What happens to the two pages of a frame.  The loop ends at an error, and
\* only an even page can start an erase group.
PageFaults == {fault \in [{0, 1} -> FAULTS] :
    /\ fault[0] \in {"erase", "program"} => fault[1] = "none"
    /\ fault[1] \notin {"erase", "misread erase"}}

handle_upgrade_packet ==
    \/ \E f \in MalformedFrames : InvalidPacket(f)
    \/ \E f \in AuthFrames : Authenticate(f)
    \/ \E f \in DataFrames \cup CommandFrames : NotAuthenticated(f)
    \/ \E f \in DataFrames : DataRefused(f) \/ DataOutOfOrder(f)
    \/ \E f \in DataFrames, fault \in PageFaults : DataStore(f, fault)
    \/ \E f \in CommandFrames : Command(f)

Restart ==
    \/ \E done \in BOOLEAN : code_switching(done)
    \/ PowerLoss
    \/ \E f \in DataFrames, fault \in PageFaults : PowerLossInWrite(f, fault)

Next == handle_upgrade_packet \/ Restart

Spec == Init /\ [][Next]_vars
-----------------------------------------------------------------------------
(***************************************************************************)
(* Properties.                                                             *)
(***************************************************************************)

Standby == flash[Mapped(gpnvm2)]

\* No page is ever programmed that was not erased since it was last
\* programmed: the erase of a group of pages at its first frame in data_write, the
\* strict frame order and the restart from frame 0 after every failure cover
\* every page, whatever fails or loses power in between.
NoMixed == \A b \in Banks, p \in Pages : flash[b][p] # Mixed

\* No step of the update service changes a page of the bank the CPU runs
\* from; translate_address must agree with the mapping GPNVM2 selects, after
\* any number of switches.
RunningBankIntact == [][flash'[gpnvm2] = flash[gpnvm2]]_vars

\* While GPNVM2 is clear that holds even if the bit cannot be read: the driver
\* takes the error for a clear bit, which is what it is.
FirstBankIntact == [][gpnvm2 = 0 => flash'[0] = flash[0]]_vars

\* The chunks the flash holds for the open session, read back from its pages.
StoredChunks ==
    [s \in 1 .. pre_pkt_seq + 1 |-> <<Standby[2 * (s - 1)], Standby[2 * (s - 1) + 1]>>]

Cells(d, n) ==
    <<Page(d, 0, n), IF n > IFLASH0_PAGE_SIZE THEN Page(d, 1, n) ELSE Erased>>

ChunkPrefix(image, n) ==
    [s \in 1 .. n |-> <<image[2 * (s - 1)], image[2 * (s - 1) + 1]>>]

Stream == INSTANCE ImageStream WITH
    Payloads <- Plaintexts,
    Lengths <- LENS \cap 1 .. MAX_PLAINTEXT_LEN,
    Images <- [Pages -> PageContent],
    Prefix <- ChunkPrefix,
    open <- is_authenticated = 1,
    iv <- IF is_authenticated = 1 THEN crypto_iv ELSE NoIV,
    log <- StoredChunks,
    running <- flash[gpnvm2],
    reply <- IF ack.kind = "data" THEN <<ack.seq, ack.len>> ELSE <<>>

\* The handler, the flash driver and the restarts together implement the
\* chunk stream: a frame is acknowledged with its number and length exactly
\* when it is on the flash behind all the frames acknowledged before it in
\* the session, the IV of a session never changes, and what a switch boots
\* starts with the acknowledged frames.
ImplementsStream == Stream!Spec

\* The bytes of stored chunk s.
ChunkLen(s) ==
    LET c == StoredChunks[s]
    IN c[1].bytes + (IF c[2] = Erased THEN 0 ELSE c[2].bytes)

\* The stored chunks are those of a file cut in frames of 1024 bytes, the
\* last one possibly shorter.
CutAsFile ==
    \A s \in 1 .. pre_pkt_seq : ChunkLen(s) = MAX_PLAINTEXT_LEN

FileLen == pre_pkt_seq * MAX_PLAINTEXT_LEN + ChunkLen(pre_pkt_seq + 1)

\* The CRC of the file the client sent.
FileCrc ==
    Crc([i \in 1 .. (FileLen + IFLASH0_PAGE_SIZE - 1) \div IFLASH0_PAGE_SIZE
            |-> StoredChunks[(i + 1) \div 2][2 - (i % 2)]],
        FileLen)

\* GET_CRC answers with the CRC of the file sent so far, byte for byte, when
\* the file is cut as the protocol asks and does not fill the whole bank.
CrcOfFile ==
    /\ ack.kind \in {"crc", "crc_zero"}
    /\ pre_pkt_seq >= 0
    /\ CutAsFile
    /\ FileLen < IFLASH1_SIZE
    => ack = FileCrc
=============================================================================
