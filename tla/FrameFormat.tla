----------------------------- MODULE FrameFormat -----------------------------
(***************************************************************************)
(* Frames in the words of a TXT buffer and of the RX FIFO, as the library  *)
(* of the user-space driver and the kernel driver write and read them.  A  *)
(* frame is [can_id, flags, len, data]: data gives the payload words, one  *)
(* number per four bytes.                                                  *)
(***************************************************************************)
EXTENDS HwLayer, KernelMasks

dlc2len == <<0, 1, 2, 3, 4, 5, 6, 7, 8, 12, 16, 20, 24, 32, 48, 64>>

can_dlc2len(dlc) == dlc2len[(dlc % 16) + 1]

\* The smallest code whose length holds len bytes.
can_len2dlc(len) ==
  IF len > 64 THEN 15 ELSE CHOOSE d \in 0..15 : dlc2len[d + 1] >= len /\ (d = 0 \/ dlc2len[d] < len)

WordsOf(len) == (len + 3) \div 4

\* A TXT buffer holds the frame format, the identifier and 16 payload words; the words
\* an insertion does not write keep what the frame before left there.
EmptyBuffer == [ffw |-> {}, idw |-> {}, data |-> [k \in 1..16 |-> 0]]

\* The payload words that are written: for(i = 0; i < len; i += 4), none for a remote frame.
Payload(buf, cf) ==
  [k \in 1..16 |-> IF CAN_RTR_FLAG \notin cf.can_id /\ k <= WordsOf(cf.len) THEN cf.data[k]
                   ELSE buf.data[k]]

\* ctucan_hw_insert_frame into an accessible buffer.
hw_insert_frame(buf, cf, isfdf) ==
  [ffw  |-> Word("frame_format_w",
              [dlc |-> can_len2dlc(cf.len),
               rtr |-> IF CAN_RTR_FLAG \in cf.can_id THEN 1 ELSE 0,
               ide |-> IF CAN_EFF_FLAG \in cf.can_id THEN 1 ELSE 0,
               fdf |-> IF isfdf THEN 1 ELSE 0,
               brs |-> IF isfdf /\ "BRS" \in cf.flags THEN 1 ELSE 0]),
   idw  |-> id_to_hwid(cf.can_id),
   data |-> Payload(buf, cf)]

\* FIELD_PREP and FIELD_GET (as a number) with a mask of the kernel driver.
Prep(r, f, bits) == PutAt({}, MaskOf[r][f], bits)

Field(r, f, word) == Number(GetAt(word, MaskOf[r][f]))

\* ctucan_insert_frame of the kernel driver into a writable buffer.
kernel_insert_frame(buf, cf, isfdf) ==
  LET Bit(f, cond) == IF cond THEN MaskOf["frame_format_w"][f] ELSE {}
      eff == CAN_EFF_FLAG \in cf.can_id
  IN  [ffw  |-> Bit("rtr", CAN_RTR_FLAG \in cf.can_id) \cup Bit("ide", eff) \cup Bit("fdf", isfdf)
                \cup Bit("brs", isfdf /\ "BRS" \in cf.flags)
                \cup Prep("frame_format_w", "dlc", BitsOf(can_len2dlc(cf.len))),
       idw  |-> IF eff THEN cf.can_id \cap CAN_EFF_MASK
                ELSE Prep("identifier_w", "identifier_base", cf.can_id \cap CAN_SFF_MASK),
       data |-> Payload(buf, cf)]

-----------------------------------------------------------------------------

\* Payload words that a frame with this format word has on the bus and in the RX FIFO.
BusWords(ffw) ==
  LET dlc == Number(Get(ffw, "frame_format_w", "dlc"))
      fd  == Get(ffw, "frame_format_w", "fdf") # {}
  IN  IF Get(ffw, "frame_format_w", "rtr") # {} /\ ~fd THEN 0
      ELSE WordsOf(IF fd \/ dlc <= 8 THEN can_dlc2len(dlc) ELSE 8)

\* The words of a received frame: format with the count of the words that follow,
\* identifier, two time stamp words, payload.
Received(buf) ==
  LET n == BusWords(buf.ffw)
  IN  <<[bits |-> Put(buf.ffw, "frame_format_w", "rwcnt", BitsOf(3 + n)), first |-> TRUE],
        [bits |-> buf.idw, first |-> FALSE], [first |-> FALSE], [first |-> FALSE]>>
      \o [k \in 1..n |-> [data |-> buf.data[k], first |-> FALSE]]

\* The length that both read functions find.
ReadLength(dlc, fdf, wc) == IF dlc <= 8 THEN dlc ELSE IF fdf THEN 4 * wc ELSE 8

Flags(fdf, brs, esi) == IF fdf THEN {x \in {"BRS", "ESI"} : (x = "BRS" /\ brs) \/ (x = "ESI" /\ esi)} ELSE {}

\* ctucan_hw_read_rx_frame: the frame and the number of words it takes off the FIFO.
hw_read_rx_frame(fifo) ==
  LET ffw  == fifo[1].bits
      n(f) == Number(Get(ffw, "frame_format_w", f))
      wc   == n("rwcnt") - 3
      len  == ReadLength(n("dlc"), n("fdf") = 1, wc)
      rtr  == n("fdf") = 0 /\ n("rtr") = 1
      take == IF len > wc * 4 THEN wc ELSE WordsOf(len)
  IN  [cf    |-> [can_id |-> hwid_to_id(fifo[2].bits, n("ide") = 1)
                             \cup (IF rtr THEN {CAN_RTR_FLAG} ELSE {}),
                  flags  |-> Flags(n("fdf") = 1, n("brs") = 1, n("esi_rsv") = 1),
                  len    |-> len,
                  data   |-> [k \in 1..take |-> fifo[4 + k].data]],
       words |-> 4 + (IF take < wc THEN wc ELSE take)]

\* ctucan_read_rx_frame of the kernel driver, with the masks.
kernel_read_rx_frame(fifo) ==
  LET ffw  == fifo[1].bits
      idw  == fifo[2].bits
      n(f) == Field("frame_format_w", f, ffw)
      wc   == n("rwcnt") - 3
      len  == ReadLength(n("dlc"), n("fdf") = 1, wc)
      rtr  == n("fdf") = 0 /\ n("rtr") = 1
      take == IF len > wc * 4 THEN wc ELSE WordsOf(len)
  IN  [cf    |-> [can_id |-> (IF n("ide") = 1 THEN (idw \cap CAN_EFF_MASK) \cup {CAN_EFF_FLAG}
                              ELSE {b - 18 : b \in idw \ 0..17} \cap CAN_SFF_MASK)
                             \cup (IF rtr THEN {CAN_RTR_FLAG} ELSE {}),
                  flags  |-> Flags(n("fdf") = 1, n("brs") = 1, n("esi_rsv") = 1),
                  len    |-> len,
                  data   |-> [k \in 1..take |-> fifo[4 + k].data]],
       words |-> 4 + (IF take < wc THEN wc ELSE take)]

-----------------------------------------------------------------------------

\* The frame that should arrive when cf is sent: the length is rounded up to one that a
\* frame can have, a classic frame has at most 8 bytes and no flags, a base identifier
\* 11 bits, a remote frame no payload.
Arrives(cf, isfdf) ==
  LET rtr  == CAN_RTR_FLAG \in cf.can_id /\ ~isfdf
      len  == IF isfdf THEN can_dlc2len(can_len2dlc(cf.len)) ELSE IF cf.len > 8 THEN 8 ELSE cf.len
      id   == IF CAN_EFF_FLAG \in cf.can_id THEN cf.can_id \cap (CAN_EFF_MASK \cup {CAN_EFF_FLAG})
              ELSE cf.can_id \cap CAN_SFF_MASK
  IN  [can_id |-> id \cup (IF rtr THEN {CAN_RTR_FLAG} ELSE {}),
       flags  |-> IF isfdf THEN cf.flags \cap {"BRS"} ELSE {},
       len    |-> len,
       words  |-> IF rtr THEN 0 ELSE WordsOf(len)]

\* got is the frame that should arrive when cf is sent; the padding is not looked at.
Matches(got, cf, isfdf) ==
  LET a == Arrives(cf, isfdf)
  IN  /\ got.can_id = a.can_id /\ got.flags = a.flags /\ got.len = a.len
      /\ Len(got.data) = a.words
      /\ \A k \in 1..a.words : k <= WordsOf(cf.len) => got.data[k] = cf.data[k]

=============================================================================
