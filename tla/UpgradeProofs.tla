--------------------------- MODULE UpgradeProofs ---------------------------
(***************************************************************************)
(* Proofs about Upgrade, for every bank size, set of payloads, set of      *)
(* frame lengths and set of flash faults the assumptions of Upgrade allow. *)
(* Those that say where data is written assume that GPNVM2 can be read     *)
(* before every erase and program command: ReadsSucceed.                   *)
(***************************************************************************)
EXTENDS Upgrade, TLAPS

Bank == [Pages -> PageContent]

GroupFrames == PAGES_TO_ERASE \div 2

\* Page p need not be erased before frame n is written: it was erased with the
\* group of n, which begins at a frame that is a multiple of GroupFrames.
ErasedAhead(fl, n) ==
    n % GroupFrames # 0 =>
        \A p \in Pages : /\ p >= 2 * n
                          /\ p < 2 * n + PAGES_TO_ERASE - 2 * (n % GroupFrames)
                         => fl[p] = Erased

\* The inductive invariant.  NoMixed is not inductive: it needs to know that
\* the rest of the current erase group is blank, and TypeOK needs to know that
\* a session of n frames has at most 1024 n bytes.  ReadsSucceed is a fact
\* about the constants that is carried along.
IInv ==
    /\ ReadsSucceed
    /\ TypeOK
    /\ NoMixed
    /\ is_authenticated = 1 => ErasedAhead(Standby, pre_pkt_seq + 1)
    /\ file_len <= (pre_pkt_seq + 1) * MAX_PLAINTEXT_LEN
-----------------------------------------------------------------------------
\* Frame seq occupies pages 2 * seq and 2 * seq + 1.
LEMMA PageNumber ==
    ASSUME NEW seq \in Nat, NEW h \in {0, 1}
    PROVE  ul_page(seq, h) = 2 * seq + h
BY DEF ul_page, MAX_PLAINTEXT_LEN, IFLASH0_PAGE_SIZE

\* The erase command is issued at the first frame of a group and no other page.
LEMMA GroupStart ==
    ASSUME NEW seq \in Nat
    PROVE  /\ (2 * seq) % PAGES_TO_ERASE = 0 <=> seq % GroupFrames = 0
           /\ (2 * seq + 1) % PAGES_TO_ERASE # 0
           /\ seq % GroupFrames = GroupFrames - 1 <=> (seq + 1) % GroupFrames = 0
           /\ seq % GroupFrames # GroupFrames - 1
                => (seq + 1) % GroupFrames = (seq % GroupFrames) + 1
           /\ seq % GroupFrames \in 0 .. GroupFrames - 1
           /\ PAGES_TO_ERASE \in Nat /\ PAGES_TO_ERASE >= 4
           /\ GroupFrames \in Nat /\ 2 * GroupFrames = PAGES_TO_ERASE
<1>1. CASE PAGES_TO_ERASE = 4
  <2>1. GroupFrames = 2 BY <1>1 DEF GroupFrames
  <2> QED BY <1>1, <2>1
<1>2. CASE PAGES_TO_ERASE = 8
  <2>1. GroupFrames = 4 BY <1>2 DEF GroupFrames
  <2> QED BY <1>2, <2>1
<1>3. CASE PAGES_TO_ERASE = 16
  <2>1. GroupFrames = 8 BY <1>3 DEF GroupFrames
  <2> QED BY <1>3, <2>1
<1>4. CASE PAGES_TO_ERASE = 32
  <2>1. GroupFrames = 16 BY <1>4 DEF GroupFrames
  <2> QED BY <1>4, <2>1
<1> QED BY <1>1, <1>2, <1>3, <1>4, EraseAssumption

\* The driver addresses the bank the CPU sees at IFLASH1_ADDR if it can read
\* GPNVM2, and the CPU runs from the other one.
LEMMA DriverBank ==
    ASSUME NEW b \in {0, 1}
    PROVE  /\ TranslateAddress(flash_is_gpnvm_set(b, FALSE)) = Mapped(b)
           /\ Mapped(b) \in Banks
           /\ Mapped(b) # b
           /\ Mapped(1 - b) = b
BY DEF TranslateAddress, flash_is_gpnvm_set, Mapped, Banks

\* The operations of the driver and of data_write, as seen by one bank.
EraseIn(fl, p, result) ==
    [q \in Pages |-> IF q \in p .. p + PAGES_TO_ERASE - 1 THEN result ELSE fl[q]]

ProgramIn(fl, p, c) == [fl EXCEPT ![p] = IF @ = Erased THEN c ELSE Mixed]

PageIn(s, p, c, fault) ==
    LET group == p % PAGES_TO_ERASE = 0
        e == IF group THEN EraseIn(s.fl, p, Erased) ELSE s.fl
    IN CASE ~s.ok -> s
         [] s.ok /\ group /\ fault = "erase" -> [fl |-> EraseIn(s.fl, p, Torn), ok |-> FALSE]
         [] s.ok /\ fault = "program" -> [fl |-> [e EXCEPT ![p] = Torn], ok |-> FALSE]
         [] s.ok /\ fault = "silent" -> [fl |-> [e EXCEPT ![p] = Torn], ok |-> TRUE]
         [] OTHER -> [fl |-> ProgramIn(e, p, c), ok |-> TRUE]

WriteIn(fl, seq, pt, len, fault) ==
    LET s == PageIn([fl |-> fl, ok |-> TRUE], ul_page(seq, 0), Page(pt, 0, len), fault[0])
    IN IF len <= IFLASH0_PAGE_SIZE THEN s
       ELSE PageIn(s, ul_page(seq, 1), Page(pt, 1, len), fault[1])

\* The state of data_write for the whole flash, from that for the mapped bank.
OnBank(fl, bit, t) == [fl |-> [fl EXCEPT ![Mapped(bit)] = t.fl], ok |-> t.ok]

\* A turn of the loop whose reads of GPNVM2 succeed changes the mapped bank only.
LEMMA OneBankPage ==
    ASSUME NEW fl \in [Banks -> Bank], NEW bit \in {0, 1}, NEW t, t.ok \in BOOLEAN,
           NEW p, NEW c, NEW fault, fault \notin Misreads
    PROVE  write_page(OnBank(fl, bit, t), bit, p, c, fault)
             = OnBank(fl, bit, PageIn(t, p, c, fault))
<1> DEFINE m == Mapped(bit)
           b == t.fl
           ok == t.ok
           x == [fl EXCEPT ![m] = b]
           s == OnBank(fl, bit, t)
           group == p % PAGES_TO_ERASE = 0
           bankOf(op) == TranslateAddress(flash_is_gpnvm_set(bit, fault = op))
           e == IF group THEN flash_erase_page(x, m, p, Erased) ELSE x
           g == IF group THEN EraseIn(b, p, Erased) ELSE b
<1>1. m \in Banks /\ bankOf("misread erase") = m /\ bankOf("misread program") = m
  BY DriverBank DEF Misreads
<1>2. \A y : [x EXCEPT ![m] = y] = [fl EXCEPT ![m] = y]
  BY <1>1
<1>3. x[m] = b
  BY <1>1
<1>4. \A result : flash_erase_page(x, m, p, result) = [fl EXCEPT ![m] = EraseIn(b, p, result)]
  BY <1>2, <1>3 DEF flash_erase_page, EraseIn
<1>5. e = [fl EXCEPT ![m] = g]
  BY <1>4
<1>6. e[m] = g /\ \A y : [e EXCEPT ![m] = y] = [fl EXCEPT ![m] = y]
  BY <1>1, <1>5
<1>7. [e EXCEPT ![m][p] = Torn] = [fl EXCEPT ![m] = [g EXCEPT ![p] = Torn]]
  BY <1>6
<1>8. flash_write(e, m, p, c) = [fl EXCEPT ![m] = ProgramIn(g, p, c)]
  <2> HIDE DEF e, g, m
  <2>1. flash_write(e, m, p, c) =
            [e EXCEPT ![m] = [e[m] EXCEPT ![p] = IF e[m][p] = Erased THEN c ELSE Mixed]]
    BY DEF flash_write
  <2> QED BY <2>1, <1>6 DEF ProgramIn
<1>9. write_page(s, bit, p, c, fault) =
        CASE ~ok -> s
          [] ok /\ group /\ fault = "erase" ->
                [fl |-> flash_erase_page(x, m, p, Torn), ok |-> FALSE]
          [] ok /\ fault = "program" -> [fl |-> [e EXCEPT ![m][p] = Torn], ok |-> FALSE]
          [] ok /\ fault = "silent" -> [fl |-> [e EXCEPT ![m][p] = Torn], ok |-> TRUE]
          [] OTHER -> [fl |-> flash_write(e, m, p, c), ok |-> TRUE]
  BY <1>1 DEF write_page, OnBank
<1>10. PageIn(t, p, c, fault) =
        CASE ~ok -> t
          [] ok /\ group /\ fault = "erase" -> [fl |-> EraseIn(b, p, Torn), ok |-> FALSE]
          [] ok /\ fault = "program" -> [fl |-> [g EXCEPT ![p] = Torn], ok |-> FALSE]
          [] ok /\ fault = "silent" -> [fl |-> [g EXCEPT ![p] = Torn], ok |-> TRUE]
          [] OTHER -> [fl |-> ProgramIn(g, p, c), ok |-> TRUE]
  BY DEF PageIn
<1> DEFINE r == PageIn(t, p, c, fault)
           w == write_page(s, bit, p, c, fault)
           Same == w = [fl |-> [fl EXCEPT ![m] = r.fl], ok |-> r.ok]
<1> HIDE DEF e, g, group, m, r, w
<1>11. ASSUME ~ok PROVE Same
  <2>1. w = s /\ r = t
    BY <1>9, <1>10, <1>11 DEF w, r
  <2> QED BY <2>1 DEF OnBank, m
<1>12. ASSUME ok, group, fault = "erase" PROVE Same
  <2>1. w = [fl |-> flash_erase_page(x, m, p, Torn), ok |-> FALSE]
    BY <1>9, <1>12 DEF w
  <2>2. r = [fl |-> EraseIn(b, p, Torn), ok |-> FALSE]
    BY <1>10, <1>12 DEF r
  <2> QED BY <2>1, <2>2, <1>4
<1>13. ASSUME ok, fault = "program" PROVE Same
  <2>1. w = [fl |-> [e EXCEPT ![m][p] = Torn], ok |-> FALSE]
    BY <1>9, <1>13 DEF w
  <2>2. r = [fl |-> [g EXCEPT ![p] = Torn], ok |-> FALSE]
    BY <1>10, <1>13 DEF r
  <2> QED BY <2>1, <2>2, <1>7
<1>14. ASSUME ok, fault = "silent" PROVE Same
  <2>1. w = [fl |-> [e EXCEPT ![m][p] = Torn], ok |-> TRUE]
    BY <1>9, <1>14 DEF w
  <2>2. r = [fl |-> [g EXCEPT ![p] = Torn], ok |-> TRUE]
    BY <1>10, <1>14 DEF r
  <2> QED BY <2>1, <2>2, <1>7
<1>15. ASSUME ok, ~(group /\ fault = "erase"), fault \notin {"program", "silent"} PROVE Same
  <2>1. w = [fl |-> flash_write(e, m, p, c), ok |-> TRUE]
    BY <1>9, <1>15 DEF w
  <2>2. r = [fl |-> ProgramIn(g, p, c), ok |-> TRUE]
    BY <1>10, <1>15 DEF r
  <2> QED BY <2>1, <2>2, <1>8
<1>16. Same
  BY <1>11, <1>12, <1>13, <1>14, <1>15
<1> QED BY <1>16 DEF m, r, w, OnBank

\* So does the whole of data_write.
LEMMA OneBankWrite ==
    ASSUME ReadsSucceed, NEW fl \in [Banks -> Bank], NEW bit \in {0, 1},
           NEW seq, NEW pt, NEW len, NEW fault \in PageFaults
    PROVE  data_write(fl, bit, seq, pt, len, fault)
             = OnBank(fl, bit, WriteIn(fl[Mapped(bit)], seq, pt, len, fault))
<1> DEFINE c0 == Page(pt, 0, len)
           c1 == Page(pt, 1, len)
           p0 == ul_page(seq, 0)
           p1 == ul_page(seq, 1)
           t0 == [fl |-> fl[Mapped(bit)], ok |-> TRUE]
           t1 == PageIn(t0, p0, c0, fault[0])
           t2 == PageIn(t1, p1, c1, fault[1])
<1>1. fault[0] \notin Misreads /\ fault[1] \notin Misreads
  BY DEF PageFaults, ReadsSucceed
<1>2. [fl |-> fl, ok |-> TRUE] = OnBank(fl, bit, t0)
  BY DriverBank DEF OnBank
<1>3. t0.ok \in BOOLEAN /\ t1.ok \in BOOLEAN
  BY DEF PageIn
<1>4. /\ write_page(OnBank(fl, bit, t0), bit, p0, c0, fault[0]) = OnBank(fl, bit, t1)
      /\ write_page(OnBank(fl, bit, t1), bit, p1, c1, fault[1]) = OnBank(fl, bit, t2)
  <2> HIDE DEF c0, c1, p0, p1, t0
  <2>1. write_page(OnBank(fl, bit, t0), bit, p0, c0, fault[0]) = OnBank(fl, bit, t1)
    BY <1>1, <1>3, OneBankPage
  <2> HIDE DEF t1
  <2>2. write_page(OnBank(fl, bit, t1), bit, p1, c1, fault[1]) = OnBank(fl, bit, t2)
    BY <1>1, <1>3, OneBankPage
  <2> QED BY <2>1, <2>2
<1> QED BY <1>2, <1>4 DEF data_write, WriteIn

\* What data_decrypt leaves in a page of the buffer is page data.
LEMMA PageType ==
    ASSUME NEW pt \in Plaintexts, NEW len \in 1 .. MAX_PLAINTEXT_LEN,
           NEW h \in {0, 1}, len > h * IFLASH0_PAGE_SIZE
    PROVE  Page(pt, h, len) \in PageData
BY DEF Page, PageData, MAX_PLAINTEXT_LEN, IFLASH0_PAGE_SIZE

\* What one turn of the loop of data_write at page p makes of state s: no page
\* is mixed, the pages before p are as they were, and after success the pages
\* behind p that the turn erased, or that were blank, are blank.
GoodTurn(s, p, r) ==
    /\ r \in [fl : Bank, ok : BOOLEAN]
    /\ \A q \in Pages : r.fl[q] # Mixed
    /\ \A q \in Pages : q < p => r.fl[q] = s.fl[q]
    /\ r.ok => s.ok
    /\ r.ok => \A q \in Pages :
            /\ q > p
            /\ IF p % PAGES_TO_ERASE = 0 THEN q < p + PAGES_TO_ERASE ELSE s.fl[q] = Erased
            => r.fl[q] = Erased

\* A turn on a page that is blank, or that the turn erases, is a good one.
LEMMA WritePage ==
    ASSUME NEW s \in [fl : Bank, ok : BOOLEAN], NEW p \in Pages,
           NEW c \in PageData, NEW fault,
           \A q \in Pages : s.fl[q] # Mixed,
           s.ok => p % PAGES_TO_ERASE = 0 \/ s.fl[p] = Erased
    PROVE  GoodTurn(s, p, PageIn(s, p, c, fault))
<1> DEFINE group == p % PAGES_TO_ERASE = 0
           e == IF group THEN EraseIn(s.fl, p, Erased) ELSE s.fl
           t == EraseIn(s.fl, p, Torn)
           r == PageIn(s, p, c, fault)
<1>1. /\ e \in Bank
      /\ \A q \in Pages : e[q] # Mixed /\ (q < p => e[q] = s.fl[q])
      /\ s.ok => e[p] = Erased
      /\ \A q \in Pages : q > p /\ (IF group THEN q < p + PAGES_TO_ERASE ELSE s.fl[q] = Erased)
                          => e[q] = Erased
  <2> s.fl \in Bank /\ p \in Int /\ Pages \subseteq Int
    BY SeqAssumption DEF Pages
  <2>1. CASE group
    <3>1. e = [q \in Pages |-> IF q \in p .. p + PAGES_TO_ERASE - 1 THEN Erased ELSE s.fl[q]]
      BY <2>1 DEF EraseIn
    <3> HIDE DEF e
    <3> QED BY <3>1, <2>1, ContentAssumption, EraseAssumption DEF Bank, PageContent
  <2>2. CASE ~group
    BY <2>2
  <2> QED BY <2>1, <2>2
<1>2. t \in Bank /\ \A q \in Pages : t[q] # Mixed /\ (q < p => t[q] = s.fl[q])
  BY ContentAssumption, SeqAssumption, EraseAssumption DEF Pages, EraseIn, Bank, PageContent
<1>3. CASE ~s.ok
  BY <1>3 DEF PageIn, GoodTurn
<1>4. CASE s.ok /\ group /\ fault = "erase"
  <2>1. r = [fl |-> t, ok |-> FALSE]
    BY <1>4 DEF PageIn
  <2> QED BY <2>1, <1>2 DEF GoodTurn
<1>5. CASE s.ok /\ ~(group /\ fault = "erase") /\ fault \in {"program", "silent"}
  <2>1. r = [fl |-> [e EXCEPT ![p] = Torn], ok |-> fault = "silent"]
    BY <1>5 DEF PageIn
  <2>2. [e EXCEPT ![p] = Torn] \in Bank
    BY <1>1 DEF Bank, PageContent
  <2> QED BY <2>1, <2>2, <1>1, <1>5, ContentAssumption DEF Bank, Pages, GoodTurn
<1>6. CASE s.ok /\ ~(group /\ fault = "erase") /\ fault \notin {"program", "silent"}
  <2>1. r = [fl |-> ProgramIn(e, p, c), ok |-> TRUE]
    BY <1>6 DEF PageIn
  <2>2. ProgramIn(e, p, c) = [e EXCEPT ![p] = c]
    BY <1>1, <1>6 DEF ProgramIn, Bank
  <2>3. [e EXCEPT ![p] = c] \in Bank /\ c # Mixed
    BY <1>1, ContentAssumption DEF Bank, PageContent
  <2>4. r.fl = [e EXCEPT ![p] = c] /\ r.ok = TRUE /\ r \in [fl : Bank, ok : BOOLEAN]
    BY <2>1, <2>2, <2>3
  <2>5. \A q \in Pages : r.fl[q] # Mixed /\ (q # p => r.fl[q] = e[q])
    BY <2>3, <2>4, <1>1, SeqAssumption DEF Bank, Pages
  <2>6. \A q \in Pages : q < p => r.fl[q] = s.fl[q]
    <3> p \in Int /\ Pages \subseteq Int
      BY SeqAssumption DEF Pages
    <3> HIDE DEF r, e
    <3> QED BY <2>5, <1>1
  <2>7. /\ s.ok
        /\ \A q \in Pages :
              /\ q > p
              /\ IF group THEN q < p + PAGES_TO_ERASE ELSE s.fl[q] = Erased
              => r.fl[q] = Erased
    <3> p \in Int /\ Pages \subseteq Int
      BY SeqAssumption DEF Pages
    <3> HIDE DEF r, e, group
    <3> QED BY <2>5, <1>1, <1>6
  <2> HIDE DEF r, e
  <2> QED BY <2>4, <2>5, <2>6, <2>7 DEF r, GoodTurn
<1> QED BY <1>3, <1>4, <1>5, <1>6

\* Writing the next frame of a session: no page is mixed, the frames before it
\* stay as they are, and when the write succeeds the rest of the frame's erase
\* group is blank, and so is its second page if the frame is a short one.
LEMMA DataWrite ==
    ASSUME NEW fl \in Bank, NEW seq \in 0 .. MAX_SEQ_NUM, NEW pt \in Plaintexts,
           NEW len \in 1 .. MAX_PLAINTEXT_LEN, NEW fault \in PageFaults,
           \A q \in Pages : fl[q] # Mixed,
           ErasedAhead(fl, seq)
    PROVE  LET w == WriteIn(fl, seq, pt, len, fault)
           IN /\ w \in [fl : Bank, ok : BOOLEAN]
              /\ \A q \in Pages : w.fl[q] # Mixed
              /\ \A q \in Pages : q < 2 * seq => w.fl[q] = fl[q]
              /\ w.ok => ErasedAhead(w.fl, seq + 1)
              /\ w.ok /\ len <= IFLASH0_PAGE_SIZE => w.fl[2 * seq + 1] = Erased
<1> DEFINE s0 == [fl |-> fl, ok |-> TRUE]
           p0 == 2 * seq
           p1 == 2 * seq + 1
           s1 == PageIn(s0, p0, Page(pt, 0, len), fault[0])
           s2 == PageIn(s1, p1, Page(pt, 1, len), fault[1])
           w == WriteIn(fl, seq, pt, len, fault)
<1>1. /\ ul_page(seq, 0) = p0 /\ ul_page(seq, 1) = p1
      /\ p0 \in Pages /\ p1 \in Pages
      /\ fault[0] \in FAULTS /\ fault[1] \in FAULTS
      /\ s0 \in [fl : Bank, ok : BOOLEAN]
      /\ Page(pt, 0, len) \in PageData
  <2>1. ul_page(seq, 0) = p0 /\ ul_page(seq, 1) = p1
    BY PageNumber, SeqAssumption
  <2>2. p0 \in Pages /\ p1 \in Pages
    BY SeqAssumption DEF Pages
  <2>3. fault[0] \in FAULTS /\ fault[1] \in FAULTS
    BY DEF PageFaults
  <2>4. Page(pt, 0, len) \in PageData
    BY PageType DEF MAX_PLAINTEXT_LEN, IFLASH0_PAGE_SIZE
  <2> QED BY <2>1, <2>2, <2>3, <2>4
<1>2. /\ p0 % PAGES_TO_ERASE = 0 <=> seq % GroupFrames = 0
      /\ p1 % PAGES_TO_ERASE # 0
      /\ seq % GroupFrames = GroupFrames - 1 <=> (seq + 1) % GroupFrames = 0
      /\ seq % GroupFrames # GroupFrames - 1
           => (seq + 1) % GroupFrames = (seq % GroupFrames) + 1
      /\ seq % GroupFrames \in 0 .. GroupFrames - 1
      /\ PAGES_TO_ERASE \in Nat /\ PAGES_TO_ERASE >= 4
      /\ GroupFrames \in Nat /\ 2 * GroupFrames = PAGES_TO_ERASE
  BY SeqAssumption, GroupStart
<1>3. p0 % PAGES_TO_ERASE = 0 \/ fl[p0] = Erased
  BY <1>1, <1>2 DEF ErasedAhead
<1>4. GoodTurn(s0, p0, s1)
  <2> HIDE DEF p0
  <2> QED BY <1>1, <1>3, WritePage
<1>5. s1.ok => s1.fl[p1] = Erased /\ ErasedAhead(s1.fl, seq + 1)
  <2> HIDE DEF s1
  <2> SUFFICES ASSUME s1.ok PROVE s1.fl[p1] = Erased /\ ErasedAhead(s1.fl, seq + 1)
    OBVIOUS
  <2>1. ASSUME NEW q \in Pages, q > p0, q < p0 + PAGES_TO_ERASE - 2 * (seq % GroupFrames)
        PROVE  s1.fl[q] = Erased
    BY <2>1, <1>1, <1>2, <1>4, SeqAssumption DEF GoodTurn, ErasedAhead, Pages
  <2>2. s1.fl[p1] = Erased
    <3>1. p1 > p0 /\ p1 < p0 + PAGES_TO_ERASE - 2 * (seq % GroupFrames)
      <4> DEFINE r == seq % GroupFrames
      <4> HIDE DEF r
      <4>1. r \in 0 .. GroupFrames - 1
        BY <1>2 DEF r
      <4> QED BY <4>1, <1>2 DEF r
    <3> QED BY <3>1, <2>1, <1>1
  <2> QED BY <2>1, <2>2, <1>1, <1>2, SeqAssumption DEF ErasedAhead, Pages
<1>6. CASE len <= IFLASH0_PAGE_SIZE
  <2>1. w = s1
    BY <1>1, <1>6 DEF WriteIn
  <2> HIDE DEF s1
  <2> QED BY <2>1, <1>4, <1>5 DEF GoodTurn
<1>7. CASE len > IFLASH0_PAGE_SIZE
  <2>1. w = s2
    BY <1>1, <1>7 DEF WriteIn, MAX_PLAINTEXT_LEN, IFLASH0_PAGE_SIZE
  <2>2. Page(pt, 1, len) \in PageData
    BY <1>7, PageType DEF IFLASH0_PAGE_SIZE
  <2>3. GoodTurn(s1, p1, s2)
    <3> HIDE DEF p1, s1
    <3> QED BY <1>1, <1>4, <1>5, <2>2, WritePage DEF GoodTurn
  <2>4. s2.ok => ErasedAhead(s2.fl, seq + 1)
    <3> HIDE DEF s1, s2
    <3> SUFFICES ASSUME s2.ok, (seq + 1) % GroupFrames # 0, NEW q \in Pages,
                        q >= 2 * (seq + 1),
                        q < 2 * (seq + 1) + PAGES_TO_ERASE - 2 * ((seq + 1) % GroupFrames)
                 PROVE  s2.fl[q] = Erased
      BY DEF ErasedAhead
    <3>1. s1.fl[q] = Erased
      BY <2>3, <1>5 DEF GoodTurn, ErasedAhead
    <3>2. q > p1
      BY SeqAssumption DEF Pages
    <3> QED BY <3>1, <3>2, <2>3, <1>2 DEF GoodTurn
  <2>5. \A q \in Pages : q < p0 => s2.fl[q] = fl[q]
    <3>1. p0 < p1 /\ p0 \in Int /\ Pages \subseteq Int
      BY SeqAssumption DEF Pages
    <3> HIDE DEF p0, p1, s1, s2
    <3>2. \A q \in Pages : q < p0 => q < p1 /\ s1.fl[q] = fl[q]
      BY <3>1, <1>4, <1>1 DEF GoodTurn
    <3> QED BY <3>2, <2>3 DEF GoodTurn
  <2>6. s2 \in [fl : Bank, ok : BOOLEAN] /\ \A q \in Pages : s2.fl[q] # Mixed
    BY <2>3 DEF GoodTurn
  <2>7. ~(len <= IFLASH0_PAGE_SIZE)
    BY <1>7 DEF IFLASH0_PAGE_SIZE
  <2> HIDE DEF s1, s2
  <2> QED BY <2>1, <2>4, <2>5, <2>6, <2>7
<1> QED BY <1>6, <1>7 DEF MAX_PLAINTEXT_LEN, IFLASH0_PAGE_SIZE

\* The reply to GET_CRC covers pages of the bank only.
LEMMA CrcType ==
    ASSUME NEW fl \in Bank, NEW n \in 1 .. IFLASH1_SIZE
    PROVE  calc_crc(fl, n) \in Acks
<1> DEFINE k == (n + IFLASH0_PAGE_SIZE - 1) \div IFLASH0_PAGE_SIZE
<1>1. k \in Nat /\ k - 1 \in Pages
  BY SeqAssumption DEF IFLASH1_SIZE, IFLASH0_PAGE_SIZE, MAX_PLAINTEXT_LEN, Pages
<1> HIDE DEF k
<1>2. \A i \in 1 .. k : fl[i - 1] \in PageContent
  BY <1>1, SeqAssumption DEF Pages, Bank
<1>3. [i \in 1 .. k |-> fl[i - 1]] \in Seq(PageContent)
  BY <1>1, <1>2
<1> QED BY <1>3 DEF calc_crc, Crc, Acks, k

\* The frame a session accepts, written with or without success: only the
\* standby bank changes.
LEMMA AcceptedFrame ==
    ASSUME IInv, NEW f \in DataFrames, NEW fault \in PageFaults, Acceptable(f)
    PROVE  LET m == Mapped(gpnvm2)
               w == data_write(flash, gpnvm2, f.seq, data_decrypt(f), f.len, fault)
               r == WriteIn(flash[m], f.seq, data_decrypt(f), f.len, fault)
           IN /\ f.seq \in 0 .. MAX_SEQ_NUM
              /\ f.len \in 1 .. MAX_PLAINTEXT_LEN
              /\ w.fl = [flash EXCEPT ![m] = r.fl] /\ w.ok = r.ok
              /\ r \in [fl : Bank, ok : BOOLEAN]
              /\ \A q \in Pages : r.fl[q] # Mixed
              /\ \A q \in Pages : q < 2 * f.seq => r.fl[q] = flash[m][q]
              /\ r.ok => ErasedAhead(r.fl, f.seq + 1)
              /\ r.ok /\ f.len <= IFLASH0_PAGE_SIZE => r.fl[2 * f.seq + 1] = Erased
<1> DEFINE m == Mapped(gpnvm2)
           w == data_write(flash, gpnvm2, f.seq, data_decrypt(f), f.len, fault)
           r == WriteIn(flash[m], f.seq, data_decrypt(f), f.len, fault)
<1>1. /\ f.seq \in 0 .. MAX_SEQ_NUM /\ f.seq = pre_pkt_seq + 1
      /\ f.len \in 1 .. MAX_PLAINTEXT_LEN
  BY SeqAssumption DEF Acceptable, DataFrames, IInv, TypeOK
<1>2. data_decrypt(f) \in Plaintexts
  BY DEF data_decrypt, DataFrames, Plaintexts
<1>3. /\ flash[m] \in Bank
      /\ \A q \in Pages : flash[m][q] # Mixed
      /\ ErasedAhead(flash[m], f.seq)
  BY <1>1, DriverBank DEF IInv, TypeOK, NoMixed, Standby, Acceptable, Bank
<1>4. w = [fl |-> [flash EXCEPT ![m] = r.fl], ok |-> r.ok]
  BY OneBankWrite DEF IInv, TypeOK, Bank, OnBank
<1>5. w.fl = [flash EXCEPT ![m] = r.fl] /\ w.ok = r.ok
  BY <1>4
<1> HIDE DEF w, m
<1> QED BY <1>1, <1>2, <1>3, <1>5, DataWrite DEF w, m

\* A new session, or none, satisfies the parts of IInv about the session.
LEMMA NoFrames ==
    ASSUME NEW fl PROVE ErasedAhead(fl, -1 + 1)
<1>1. (2 * 0) % PAGES_TO_ERASE = 0
  BY EraseAssumption
<1>2. 0 % GroupFrames = 0
  BY <1>1, GroupStart
<1> QED BY <1>2 DEF ErasedAhead

\* A restart re-establishes IInv whatever became of the standby bank, as long
\* as no page is mixed.
LEMMA Restarted ==
    ASSUME ReadsSucceed, Boot, NoMixed', gpnvm2' \in {0, 1}, flash' \in [Banks -> Bank]
    PROVE  IInv'
<1>1. /\ is_authenticated' = 0 /\ pre_pkt_seq' = -1 /\ file_len' = 0
      /\ crypto_iv' \in IVs /\ switching' = FALSE /\ ack' \in Acks
  BY IVAssumption DEF Boot, Acks
<1>2. -1 \in -1 .. MAX_SEQ_NUM /\ 0 \in 0 .. IFLASH1_SIZE
  BY SeqAssumption DEF IFLASH1_SIZE, MAX_PLAINTEXT_LEN
<1>3. TypeOK'
  BY <1>1, <1>2 DEF TypeOK, Bank
<1>4. (file_len <= (pre_pkt_seq + 1) * MAX_PLAINTEXT_LEN)'
  BY <1>1 DEF MAX_PLAINTEXT_LEN
<1> QED BY <1>1, <1>3, <1>4 DEF IInv

\* Every step of the update service preserves IInv.
LEMMA Step ==
    ASSUME IInv, [Next]_vars
    PROVE  IInv'
<1> USE DEF IInv, TypeOK
<1>0. CASE UNCHANGED vars
  BY <1>0 DEF vars, ram, NoMixed, Standby
<1>1. ASSUME NEW f, InvalidPacket(f) PROVE IInv'
  BY <1>1 DEF InvalidPacket, ram, NoMixed, Standby, is_pkt_valid, Status, Acks,
              PKT_VALID, PKT_INVALID, AUTHENTICATED_INVALID, DATA_FRAME_INVALID,
              DATA_FRAME_CRC_ERR, COMMAND_FRAME_INVALID
<1>2. ASSUME NEW f \in AuthFrames, Authenticate(f) PROVE IInv'
  <2>1. TypeOK'
    BY <1>2, SeqAssumption DEF Authenticate, AuthFrames, upgrade_start, upgrade_end, Status, Acks,
              AUTHENTICATED_PASS, AUTHENTICATED_FAIL, IFLASH1_SIZE, MAX_PLAINTEXT_LEN
  <2>2. NoMixed' /\ file_len' <= (pre_pkt_seq' + 1) * MAX_PLAINTEXT_LEN /\ pre_pkt_seq' = -1
    BY <1>2 DEF Authenticate, upgrade_start, upgrade_end, NoMixed, MAX_PLAINTEXT_LEN
  <2> QED BY <2>1, <2>2, NoFrames
<1>3. ASSUME NEW f, NotAuthenticated(f) PROVE IInv'
  BY <1>3 DEF NotAuthenticated, ram, NoMixed, Standby, Status, Acks, AUTHENTICATED_FAIL
<1>4. ASSUME NEW f \in DataFrames, DataRefused(f) PROVE IInv'
  BY <1>4 DEF DataRefused, ram, NoMixed, Standby, Status, Acks,
              DATA_FRAME_SEQ_ERR, DATA_FRAME_LEN_ERR
<1>5. ASSUME NEW f \in DataFrames, DataOutOfOrder(f) PROVE IInv'
  <2>1. TypeOK'
    BY <1>5, SeqAssumption DEF DataOutOfOrder, upgrade_end, Status, Acks, DATA_FRAME_SEQ_ERR,
              IFLASH1_SIZE, MAX_PLAINTEXT_LEN
  <2> QED BY <1>5, <2>1 DEF DataOutOfOrder, upgrade_end, NoMixed, MAX_PLAINTEXT_LEN
<1>6. ASSUME NEW f \in DataFrames, NEW fault \in PageFaults, DataStore(f, fault) PROVE IInv'
  <2> DEFINE w == WriteIn(flash[Mapped(gpnvm2)], f.seq, data_decrypt(f), f.len, fault)
  <2>0. Acceptable(f)
    BY <1>6 DEF DataStore
  <2>1. Acceptable(f) /\ flash' = [flash EXCEPT ![Mapped(gpnvm2)] = w.fl]
    BY <1>6, <2>0, AcceptedFrame DEF DataStore
  <2>2. /\ f.seq \in 0 .. MAX_SEQ_NUM
        /\ f.len \in 1 .. MAX_PLAINTEXT_LEN
        /\ w \in [fl : Bank, ok : BOOLEAN]
        /\ \A q \in Pages : w.fl[q] # Mixed
        /\ w.ok => ErasedAhead(w.fl, f.seq + 1)
    BY <2>1, AcceptedFrame
  <2>3. UNCHANGED <<crypto_iv, switching, gpnvm2>>
    BY <1>6 DEF DataStore
  <2>4. \/ /\ w.ok /\ pre_pkt_seq' = f.seq /\ file_len' = file_len + f.len
           /\ is_authenticated' = is_authenticated /\ ack' = DataAck(f.seq, f.len)
        \/ upgrade_end /\ ack' = Status(DATA_FRAME_FLASH_WR_ERR)
    BY <1>6, <2>0, AcceptedFrame DEF DataStore
  <2> HIDE DEF w
  <2>5. NoMixed' /\ flash' \in [Banks -> [Pages -> PageContent]] /\ flash'[Mapped(gpnvm2)] = w.fl
    BY <2>1, <2>2, DriverBank DEF NoMixed, Bank
  <2>6. CASE /\ w.ok /\ pre_pkt_seq' = f.seq /\ file_len' = file_len + f.len
             /\ is_authenticated' = is_authenticated /\ ack' = DataAck(f.seq, f.len)
    <3>1. file_len' <= (pre_pkt_seq' + 1) * MAX_PLAINTEXT_LEN /\ pre_pkt_seq' \in 0 .. MAX_SEQ_NUM
      <4>1. file_len \in Nat /\ pre_pkt_seq \in -1 .. MAX_SEQ_NUM /\ f.seq = pre_pkt_seq + 1
        BY <2>1 DEF TypeOK, Acceptable
      <4>2. file_len <= (pre_pkt_seq + 1) * 1024
        BY DEF MAX_PLAINTEXT_LEN
      <4>3. file_len' = file_len + f.len /\ pre_pkt_seq' = f.seq /\ f.len \in 1 .. 1024
        BY <2>2, <2>6 DEF MAX_PLAINTEXT_LEN
      <4>4. pre_pkt_seq' \in 0 .. MAX_SEQ_NUM
        BY <2>2, <4>3
      <4> HIDE DEF IInv, TypeOK
      <4>5. file_len' <= (pre_pkt_seq' + 1) * 1024
        BY <4>1, <4>2, <4>3, SeqAssumption
      <4> QED BY <4>4, <4>5 DEF MAX_PLAINTEXT_LEN
    <3>2. file_len' \in 0 .. IFLASH1_SIZE
      <4>1. file_len \in Nat /\ file_len' = file_len + f.len /\ f.len \in Nat
        <5>1. file_len \in Nat
          BY SeqAssumption DEF TypeOK, IFLASH1_SIZE, MAX_PLAINTEXT_LEN
        <5> HIDE DEF IInv, TypeOK
        <5>2. f.len \in 1 .. MAX_PLAINTEXT_LEN
          BY <2>2
        <5>3. file_len' = file_len + f.len
          BY <2>6
        <5>4. \A n \in 1 .. MAX_PLAINTEXT_LEN : n \in Nat
          BY DEF MAX_PLAINTEXT_LEN
        <5> QED BY <5>1, <5>2, <5>3, <5>4, Zenon
      <4> HIDE DEF IInv, TypeOK
      <4>2. file_len' <= (pre_pkt_seq' + 1) * 1024 /\ pre_pkt_seq' \in 0 .. MAX_SEQ_NUM
        BY <3>1 DEF MAX_PLAINTEXT_LEN
      <4>3. file_len' \in Nat /\ file_len' <= (MAX_SEQ_NUM + 1) * 1024
        BY <4>1, <4>2, SeqAssumption
      <4>4. (MAX_SEQ_NUM + 1) * 1024 \in Nat
        BY SeqAssumption
      <4> QED BY <4>3, <4>4 DEF MAX_PLAINTEXT_LEN, IFLASH1_SIZE
    <3>3. ack' \in Acks
      BY <2>2, <2>6 DEF DataAck, Acks
    <3>4. ErasedAhead(Standby', pre_pkt_seq' + 1)
      BY <2>2, <2>3, <2>5, <2>6 DEF Standby
    <3> QED BY <3>1, <3>2, <3>3, <3>4, <2>3, <2>5, <2>6
  <2>7. CASE upgrade_end /\ ack' = Status(DATA_FRAME_FLASH_WR_ERR)
    BY <2>3, <2>5, <2>7, SeqAssumption
       DEF upgrade_end, Status, Acks, DATA_FRAME_FLASH_WR_ERR, IFLASH1_SIZE, MAX_PLAINTEXT_LEN
  <2> QED BY <2>4, <2>6, <2>7
<1>7. ASSUME NEW f \in CommandFrames, Command(f) PROVE IInv'
  <2>1. GetCRC(f) => ack' \in Acks
    <3>1. flash[Mapped(gpnvm2)] \in Bank
      BY DriverBank DEF Bank
    <3>2. file_len > 0 /\ file_len < IFLASH1_SIZE => file_len \in 1 .. IFLASH1_SIZE
      OBVIOUS
    <3> QED BY <3>1, <3>2, CrcType DEF GetCRC, Acks
  <2>2. ack' \in Acks
    BY <1>7, <2>1 DEF Command, GetVersion, Exec, UnsupportedCommand, Status, Acks,
              COMMAND_FRAME_PASS, COMMAND_FRAME_CMD_ERR
  <2>3. /\ UNCHANGED <<is_authenticated, pre_pkt_seq, file_len, crypto_iv, flash, gpnvm2>>
        /\ switching' \in BOOLEAN
    BY <1>7 DEF Command, GetVersion, GetCRC, Exec, UnsupportedCommand, ram
  <2> QED BY <2>2, <2>3 DEF NoMixed, Standby
<1>8. ASSUME NEW done \in BOOLEAN, code_switching(done) PROVE IInv'
  <2>1. gpnvm2' \in {0, 1} /\ flash' = flash /\ Boot
    BY <1>8 DEF code_switching
  <2> QED BY <2>1, Restarted DEF NoMixed, Bank
<1>9. CASE PowerLoss
  BY <1>9, Restarted DEF PowerLoss, NoMixed, Bank
<1>10. ASSUME NEW f \in DataFrames, NEW fault \in PageFaults, PowerLossInWrite(f, fault)
       PROVE  IInv'
  <2> DEFINE w == WriteIn(flash[Mapped(gpnvm2)], f.seq, data_decrypt(f), f.len, fault)
  <2>0. Acceptable(f)
    BY <1>10 DEF PowerLossInWrite
  <2>1. Acceptable(f) /\ flash' = [flash EXCEPT ![Mapped(gpnvm2)] = w.fl]
    BY <1>10, <2>0, AcceptedFrame DEF PowerLossInWrite
  <2>2. w.fl \in Bank /\ \A q \in Pages : w.fl[q] # Mixed
    BY <2>1, AcceptedFrame
  <2> HIDE DEF w
  <2>3. NoMixed' /\ flash' \in [Banks -> [Pages -> PageContent]]
    BY <2>1, <2>2, DriverBank DEF NoMixed, Bank
  <2> QED BY <1>10, <2>3, Restarted DEF PowerLossInWrite, Bank
<1> QED BY <1>0, <1>1, <1>2, <1>3, <1>4, <1>5, <1>6, <1>7, <1>8, <1>9, <1>10
        DEF Next, handle_upgrade_packet, Restart

\* Both banks start with whole pages of the factory image.
LEMMA Initially == ReadsSucceed /\ Init => IInv
<1> SUFFICES ASSUME ReadsSucceed, Init PROVE IInv
  OBVIOUS
<1>1. \A p \in Pages :
        [data |-> Factory, half |-> p % 2, bytes |-> IFLASH0_PAGE_SIZE] \in PageData
  BY SeqAssumption DEF Pages, PageData, IFLASH0_PAGE_SIZE
<1>2. flash \in [Banks -> [Pages -> PageContent]] /\ NoMixed
  BY <1>1, ContentAssumption DEF Init, NoMixed, PageContent
<1>3. -1 \in -1 .. MAX_SEQ_NUM /\ 0 \in 0 .. IFLASH1_SIZE
  BY SeqAssumption DEF IFLASH1_SIZE, MAX_PLAINTEXT_LEN
<1>4. TypeOK
  BY <1>2, <1>3, IVAssumption DEF Init, TypeOK, Acks
<1>5. file_len <= (pre_pkt_seq + 1) * MAX_PLAINTEXT_LEN
  BY DEF Init, MAX_PLAINTEXT_LEN
<1> QED BY <1>2, <1>4, <1>5 DEF Init, IInv

\* The inductive invariant holds in every state of every behaviour.
THEOREM Invariant == ASSUME ReadsSucceed PROVE Spec => []IInv
BY Initially, Step, PTL DEF Spec

\* The variables of upgrade.c stay in their ranges: in particular file_len
\* never exceeds the bank, and every reply is one of the protocol's.
THEOREM TypeCorrect == ASSUME ReadsSucceed PROVE Spec => []TypeOK
<1>1. IInv => TypeOK
  BY DEF IInv
<1> QED BY Invariant, <1>1, PTL

\* No page is programmed twice without an erase, for any bank size, any frame
\* lengths, any flash faults and any losses of power, if GPNVM2 can be read.
THEOREM NeverMixed == ASSUME ReadsSucceed PROVE Spec => []NoMixed
<1>1. IInv => NoMixed
  BY DEF IInv
<1> QED BY Invariant, <1>1, PTL

\* If GPNVM2 can be read before every erase and program command, the bank the
\* firmware runs from is never erased or programmed.
THEOREM RunningBankSafe == ASSUME ReadsSucceed PROVE Spec => RunningBankIntact
<1>1. ASSUME IInv, [Next]_vars PROVE [flash'[gpnvm2] = flash[gpnvm2]]_vars
  <2>1. ASSUME NEW fl PROVE [flash EXCEPT ![Mapped(gpnvm2)] = fl][gpnvm2] = flash[gpnvm2]
    BY <1>1, DriverBank DEF IInv, TypeOK, Banks
  <2>2. ASSUME NEW f \in DataFrames, NEW fault \in PageFaults, DataStore(f, fault)
        PROVE  flash'[gpnvm2] = flash[gpnvm2]
    <3>1. Acceptable(f)
      BY <2>2 DEF DataStore
    <3> DEFINE r == WriteIn(flash[Mapped(gpnvm2)], f.seq, data_decrypt(f), f.len, fault)
    <3>2. flash' = [flash EXCEPT ![Mapped(gpnvm2)] = r.fl]
      BY <1>1, <2>2, <3>1, AcceptedFrame DEF DataStore
    <3> HIDE DEF r
    <3> QED BY <2>1, <3>2
  <2>3. ASSUME NEW f \in DataFrames, NEW fault \in PageFaults, PowerLossInWrite(f, fault)
        PROVE  flash'[gpnvm2] = flash[gpnvm2]
    <3>1. Acceptable(f)
      BY <2>3 DEF PowerLossInWrite
    <3> DEFINE r == WriteIn(flash[Mapped(gpnvm2)], f.seq, data_decrypt(f), f.len, fault)
    <3>2. flash' = [flash EXCEPT ![Mapped(gpnvm2)] = r.fl]
      BY <1>1, <2>3, <3>1, AcceptedFrame DEF PowerLossInWrite
    <3> HIDE DEF r
    <3> QED BY <2>1, <3>2
  <2> QED BY <1>1, <2>2, <2>3
          DEF Next, handle_upgrade_packet, Restart, InvalidPacket, Authenticate,
              NotAuthenticated, DataRefused, DataOutOfOrder, Command, code_switching,
              PowerLoss
<1> QED BY Invariant, <1>1, PTL DEF Spec, RunningBankIntact
-----------------------------------------------------------------------------
\* With a clear bit the driver addresses the second bank, whether it can read
\* the bit or not.
LEMMA ClearBit ==
    ASSUME NEW fails PROVE TranslateAddress(flash_is_gpnvm_set(0, fails)) = 1
BY DEF TranslateAddress, flash_is_gpnvm_set

\* A turn of the loop of data_write then leaves the first bank alone, even if it
\* fails.
LEMMA FirstBankPage ==
    ASSUME NEW s, DOMAIN s.fl = Banks, NEW p, NEW c, NEW fault
    PROVE  LET r == write_page(s, 0, p, c, fault)
           IN r.fl[0] = s.fl[0] /\ DOMAIN r.fl = Banks
<1> DEFINE group == p % PAGES_TO_ERASE = 0
           e == IF group THEN flash_erase_page(s.fl, 1, p, Erased) ELSE s.fl
<1>1. write_page(s, 0, p, c, fault) =
        CASE ~s.ok -> s
          [] s.ok /\ group /\ fault = "erase" ->
                [fl |-> flash_erase_page(s.fl, 1, p, Torn), ok |-> FALSE]
          [] s.ok /\ fault = "program" -> [fl |-> [e EXCEPT ![1][p] = Torn], ok |-> FALSE]
          [] s.ok /\ fault = "silent" -> [fl |-> [e EXCEPT ![1][p] = Torn], ok |-> TRUE]
          [] OTHER -> [fl |-> flash_write(e, 1, p, c), ok |-> TRUE]
  BY ClearBit DEF write_page
<1>2. \A result : LET x == flash_erase_page(s.fl, 1, p, result)
                 IN x[0] = s.fl[0] /\ DOMAIN x = Banks
  BY DEF flash_erase_page, Banks
<1>3. e[0] = s.fl[0] /\ DOMAIN e = Banks
  BY <1>2
<1> HIDE DEF e, group
<1>4. /\ [e EXCEPT ![1][p] = Torn][0] = s.fl[0] /\ DOMAIN [e EXCEPT ![1][p] = Torn] = Banks
      /\ flash_write(e, 1, p, c)[0] = s.fl[0] /\ DOMAIN flash_write(e, 1, p, c) = Banks
  BY <1>3 DEF flash_write, Banks
<1> DEFINE r == write_page(s, 0, p, c, fault)
           Kept == r.fl[0] = s.fl[0] /\ DOMAIN r.fl = Banks
<1> HIDE DEF r
<1>5. ~s.ok => Kept
  BY <1>1 DEF r
<1>6. s.ok /\ group /\ fault = "erase" => Kept
  BY <1>1, <1>2 DEF r
<1>7. ASSUME s.ok, fault \in {"program", "silent"} PROVE Kept
  <2>1. r = [fl |-> [e EXCEPT ![1][p] = Torn], ok |-> fault = "silent"]
    BY <1>1, <1>7 DEF r
  <2> QED BY <2>1, <1>4
<1>8. s.ok /\ ~(group /\ fault = "erase") /\ fault \notin {"program", "silent"} => Kept
  BY <1>1, <1>4 DEF r
<1> QED BY <1>5, <1>6, <1>7, <1>8 DEF r

\* While GPNVM2 is clear the bank the firmware runs from is never erased or
\* programmed, also when the controller cannot report the bit.
THEOREM FirstBankSafe == Spec => FirstBankIntact
<1> DEFINE J == DOMAIN flash = Banks
<1>1. Init => J
  BY DEF Init
<1>2. ASSUME NEW bit, NEW seq, NEW pt, NEW len, NEW fault, J
      PROVE  DOMAIN data_write(flash, bit, seq, pt, len, fault).fl = Banks
  <2>1. ASSUME NEW s, DOMAIN s.fl = Banks, NEW p, NEW c, NEW x
        PROVE  DOMAIN write_page(s, bit, p, c, x).fl = Banks
    BY <2>1 DEF write_page, flash_erase_page, flash_write
  <2> QED BY <1>2, <2>1 DEF data_write
<1>3. ASSUME NEW seq, NEW pt, NEW len, NEW fault, J
      PROVE  data_write(flash, 0, seq, pt, len, fault).fl[0] = flash[0]
  BY <1>3, FirstBankPage DEF data_write
<1>4. J /\ [Next]_vars => J' /\ [gpnvm2 = 0 => flash'[0] = flash[0]]_vars
  <2> SUFFICES ASSUME J, [Next]_vars PROVE J' /\ (gpnvm2 = 0 => flash'[0] = flash[0])
    OBVIOUS
  <2>1. ASSUME NEW f \in DataFrames, NEW fault \in PageFaults,
               DataStore(f, fault) \/ PowerLossInWrite(f, fault)
        PROVE  J' /\ (gpnvm2 = 0 => flash'[0] = flash[0])
    BY <1>2, <1>3, <2>1 DEF DataStore, PowerLossInWrite
  <2>2. CASE UNCHANGED flash
    BY <2>2
  <2> QED BY <2>1, <2>2
          DEF Next, handle_upgrade_packet, Restart, InvalidPacket, Authenticate,
              NotAuthenticated, DataRefused, DataOutOfOrder, Command, code_switching,
              PowerLoss, vars
<1> QED BY <1>1, <1>4, PTL DEF Spec, FirstBankIntact
=============================================================================
