------------------------ MODULE LibraryClient_proofs ------------------------
(***************************************************************************)
(* Proofs about the calls of the library: after any number of calls, in    *)
(* any order and with any arguments that CallsAssumption allows, the words *)
(* of the registers say what was asked for.                                *)
(*                                                                         *)
(* First what putting a field into a word and getting it back does, then   *)
(* the words that each call writes, then the writes themselves, then the   *)
(* invariant: the registers agree with the requests field by field, the    *)
(* controller is neither in a reset nor in the test mode, and its three    *)
(* mask filters are there.  One lemma per call shows that it keeps this.   *)
(* What the layouts come to are facts of RegisterFacts that TLC evaluates. *)
(***************************************************************************)
EXTENDS RegisterFacts, TLAPS

-----------------------------------------------------------------------------
(* Fields of words                                                          *)

\* The lowest bit of a place.
LEMMA LowestOf ==
  ASSUME NEW lo \in Int, NEW hi \in Int, lo <= hi
  PROVE  Lowest(lo..hi) = lo
<1>1. \A b \in lo..hi : (\A c \in lo..hi : b <= c) => b = lo
  OBVIOUS
<1>2. lo \in lo..hi /\ \A c \in lo..hi : lo <= c
  OBVIOUS
<1> QED
  BY <1>1, <1>2, Zenon DEF Lowest

\* Bits have numbers.
LEMMA BitNumbers ==
  ASSUME NEW n
  PROVE  BitsOf(n) \subseteq 0..30 /\ BitsOf(n) \subseteq Int
<1>1. BitsOf(n) \subseteq 0..30
  BY Zenon DEF BitsOf
<1> QED
  BY <1>1

\* What is put at a place is read from it.
LEMMA GetPut ==
  ASSUME NEW word, NEW S \in SUBSET Int, NEW lo \in Int, NEW hi \in Int, lo <= hi,
         NEW w \in Int, w = hi - lo + 1
  PROVE  GetAt(PutAt(word, lo..hi, S), lo..hi) = Cut(S, w)
<1> DEFINE G == GetAt(PutAt(word, lo..hi, S), lo..hi)
<1>1. G = {b - lo : b \in {c + lo : c \in S} \cap lo..hi}
  BY LowestOf DEF GetAt, PutAt
<1>2. ASSUME NEW x \in G
      PROVE  x \in S \cap 0..(w - 1)
  BY <1>1, <1>2
<1>3. ASSUME NEW x \in S \cap 0..(w - 1)
      PROVE  x \in G
  <2>1. x + lo \in {c + lo : c \in S} \cap lo..hi /\ x = (x + lo) - lo
    BY <1>3
  <2> QED
    BY <1>1, <2>1, Zenon
<1> HIDE DEF G
<1>4. G = S \cap 0..(w - 1)
  BY <1>2, <1>3, Zenon
<1> QED
  BY <1>4, Zenon DEF G, Cut

\* The powers of two, under a name that keeps the provers from calculating.
Pow(b) == 2^b

\* The first powers of two.
LEMMA Powers ==
  /\ Pow(0) = 1 /\ Pow(1) = 2 /\ Pow(2) = 4 /\ Pow(3) = 8 /\ Pow(4) = 16
  /\ Pow(5) = 32 /\ Pow(6) = 64 /\ Pow(7) = 128 /\ Pow(8) = 256
  BY PowerFacts, SMT DEF Pow

\* A number cut to its low bits has the remainder as its value.
LEMMA LowBits ==
  ASSUME NEW v \in Nat, NEW w \in 1..8
  PROVE  Number(Cut(BitsOf(v), w)) = v % 2^w
<1> DEFINE n == v % 256
<1>1. n \in 0..255
  OBVIOUS
<1>2. ASSUME NEW b \in 0..7
      PROVE  (v \div Pow(b)) % 2 = (n \div Pow(b)) % 2
  <2>0. v \div 1 = v /\ n \div 1 = n
    BY <1>1
  <2>1. /\ v % 2 = n % 2 /\ (v \div 2) % 2 = (n \div 2) % 2 /\ (v \div 4) % 2 = (n \div 4) % 2
        /\ (v \div 8) % 2 = (n \div 8) % 2
    OBVIOUS
  <2>2. /\ (v \div 16) % 2 = (n \div 16) % 2 /\ (v \div 32) % 2 = (n \div 32) % 2
        /\ (v \div 64) % 2 = (n \div 64) % 2 /\ (v \div 128) % 2 = (n \div 128) % 2
    OBVIOUS
  <2>3. b = 0 \/ b = 1 \/ b = 2 \/ b = 3 \/ b = 4 \/ b = 5 \/ b = 6 \/ b = 7
    BY <1>2
  <2> HIDE DEF n
  <2> QED
    BY <2>0, <2>1, <2>2, <2>3, Powers, SMT
<1>3. Cut(BitsOf(v), w) = Cut(BitsOf(n), w)
  <2> HIDE DEF n
  <2>1. \A b \in 0..(w - 1) : b \in 0..7
    OBVIOUS
  <2>2. \A m : BitsOf(m) = {b \in 0..30 : (m \div Pow(b)) % 2 = 1}
    BY Zenon DEF BitsOf, Pow
  <2> QED
    BY <1>2, <2>1, <2>2, Zenon DEF Cut
<1>4. n % Pow(w) = v % Pow(w)
  <2>1. w = 1 \/ w = 2 \/ w = 3 \/ w = 4 \/ w = 5 \/ w = 6 \/ w = 7 \/ w = 8
    OBVIOUS
  <2> QED
    BY <2>1, Powers, SMT
<1> HIDE DEF n
<1>5. Number(Cut(BitsOf(n), w)) = n % 2^w
  BY <1>1, NumberFacts, Zenon
<1>6. n % 2^w = v % 2^w
  BY <1>4, Zenon DEF Pow
<1> QED
  BY <1>3, <1>5, <1>6, Zenon

\* Field f shares no bit with the other fields of a word.
Alone(r, vals, f, lo, hi) == \A g \in DOMAIN vals : g # f => Place[r][g] \cap lo..hi = {}

\* A field of a word made of numbers holds its number, cut to its width.
LEMMA FieldOfWord ==
  ASSUME NEW r, NEW vals, NEW f \in DOMAIN vals, vals[f] \in Nat,
         NEW lo \in Int, NEW hi \in Int, NEW w \in 1..8, w = hi - lo + 1,
         FieldAt(r, f, lo, hi), Alone(r, vals, f, lo, hi)
  PROVE  Field(r, f, Word(r, vals)) = FIELD_PREP(w, vals[f])
<1> DEFINE p == lo..hi
           S == BitsOf(vals[f])
<1>1. \A g \in DOMAIN vals : Put({}, r, g, BitsOf(vals[g])) \subseteq Place[r][g]
  BY Zenon DEF Put, PutAt
<1>2. Word(r, vals) \cap p = PutAt({}, p, S) \cap p
  <2>1. Word(r, vals) \cap p = Put({}, r, f, S) \cap p
    BY <1>1 DEF Word, FieldAt, Alone
  <2> QED
    BY <2>1, Zenon DEF Put, FieldAt
<1>3. GetAt(Word(r, vals), p) = GetAt(PutAt({}, p, S), p)
  BY <1>2, Zenon DEF GetAt
<1>4. S \in SUBSET Int
  BY BitNumbers, Zenon
<1>5. GetAt(Word(r, vals), p) = Cut(S, w)
  <2> HIDE DEF S
  <2>1. lo <= hi
    OBVIOUS
  <2> QED
    BY <2>1, <1>3, <1>4, GetPut
<1> QED
  BY <1>5, LowBits, Zenon DEF Field, FIELD_PREP, FieldAt

-----------------------------------------------------------------------------
(* The words that the calls write                                           *)

\* A timing that is redistributed has numbers.
LEMMA RedistributeType ==
  ASSUME NEW bt \in Calls.timing, NEW nominal \in BOOLEAN
  PROVE  Redistribute(bt, nominal) \in
           [prop_seg : Nat, phase_seg1 : Nat, phase_seg2 : Nat, brp : Nat, sjw : Nat]
<1> DEFINE T == [prop_seg : Nat, phase_seg1 : Nat, phase_seg2 : Nat, brp : Nat, sjw : Nat]
<1>1. PICK a, b, c, d, e \in Nat :
        bt = [prop_seg |-> a, phase_seg1 |-> b, phase_seg2 |-> c, brp |-> d, sjw |-> e]
  BY CallsAssumption, Zenon
<1>2. \A m \in Nat : b > m =>
        [bt EXCEPT !.prop_seg = @ + bt.phase_seg1 - m, !.phase_seg1 = m] \in T
  <2> SUFFICES ASSUME NEW m \in Nat, b > m
               PROVE  [prop_seg |-> a + b - m, phase_seg1 |-> m, phase_seg2 |-> c, brp |-> d, sjw |-> e] \in T
    BY <1>1, ZenonT(40)
  <2>1. a + b - m \in Nat
    OBVIOUS
  <2> QED
    BY <2>1, Zenon
<1>3. bt \in T /\ bt.phase_seg1 = b
  BY <1>1, Zenon
<1> HIDE DEF T
<1>4. Redistribute(bt, TRUE) \in T
  BY <1>2, <1>3, ZenonT(40) DEF Redistribute
<1>5. Redistribute(bt, FALSE) \in T
  BY <1>2, <1>3, Zenon DEF Redistribute
<1> QED
  BY <1>4, <1>5, Zenon DEF T

\* BTR holds what Btr says, for every timing.
LEMMA NbtWord ==
  ASSUME NEW bt \in Calls.timing
  PROVE  NbtOf(BtrWord(bt, TRUE)) = Btr(bt, TRUE)
<1> DEFINE t == Redistribute(bt, TRUE)
           vals == [prop |-> t.prop_seg, ph1 |-> t.phase_seg1, ph2 |-> t.phase_seg2,
                    brp |-> t.brp, sjw |-> t.sjw]
<1>1. t \in [prop_seg : Nat, phase_seg1 : Nat, phase_seg2 : Nat, brp : Nat, sjw : Nat]
  BY RedistributeType, Zenon
<1>2. BtrWord(bt, TRUE) = Word("btr", vals)
  BY Zenon DEF BtrWord
<1>3. Btr(bt, TRUE) =
        [prop_seg |-> FIELD_PREP(7, t.prop_seg), phase_seg1 |-> FIELD_PREP(6, t.phase_seg1),
         phase_seg2 |-> FIELD_PREP(6, t.phase_seg2), brp |-> FIELD_PREP(8, t.brp),
         sjw |-> FIELD_PREP(5, t.sjw)]
  BY Zenon DEF Btr, BtrWidth
<1> HIDE DEF t
<1>4. /\ DOMAIN vals = {"prop", "ph1", "ph2", "brp", "sjw"}
      /\ vals.prop = t.prop_seg /\ vals.ph1 = t.phase_seg1 /\ vals.ph2 = t.phase_seg2
      /\ vals.brp = t.brp /\ vals.sjw = t.sjw
      /\ \A f \in DOMAIN vals : vals[f] \in Nat
  BY <1>1
<1> HIDE DEF vals
<1>5. /\ Alone("btr", vals, "prop", 0, 6) /\ Alone("btr", vals, "ph1", 7, 12)
      /\ Alone("btr", vals, "ph2", 13, 18) /\ Alone("btr", vals, "brp", 19, 26)
      /\ Alone("btr", vals, "sjw", 27, 31)
  BY <1>4, BtrLayout DEF FieldAt, Alone
<1>6. Field("btr", "prop", Word("btr", vals)) = FIELD_PREP(7, t.prop_seg)
  BY <1>4, <1>5, FieldOfWord, BtrLayout
<1>7. Field("btr", "ph1", Word("btr", vals)) = FIELD_PREP(6, t.phase_seg1)
  BY <1>4, <1>5, FieldOfWord, BtrLayout
<1>8. Field("btr", "ph2", Word("btr", vals)) = FIELD_PREP(6, t.phase_seg2)
  BY <1>4, <1>5, FieldOfWord, BtrLayout
<1>9. Field("btr", "brp", Word("btr", vals)) = FIELD_PREP(8, t.brp)
  BY <1>4, <1>5, FieldOfWord, BtrLayout
<1>10. Field("btr", "sjw", Word("btr", vals)) = FIELD_PREP(5, t.sjw)
  BY <1>4, <1>5, FieldOfWord, BtrLayout
<1> QED
  BY <1>2, <1>3, <1>6, <1>7, <1>8, <1>9, <1>10, Zenon DEF NbtOf

\* And so does BTR_FD.
LEMMA DbtWord ==
  ASSUME NEW bt \in Calls.timing
  PROVE  DbtOf(BtrWord(bt, FALSE)) = Btr(bt, FALSE)
<1> DEFINE t == Redistribute(bt, FALSE)
           vals == [prop_fd |-> t.prop_seg, ph1_fd |-> t.phase_seg1, ph2_fd |-> t.phase_seg2,
                    brp_fd |-> t.brp, sjw_fd |-> t.sjw]
<1>1. t \in [prop_seg : Nat, phase_seg1 : Nat, phase_seg2 : Nat, brp : Nat, sjw : Nat]
  BY RedistributeType, Zenon
<1>2. BtrWord(bt, FALSE) = Word("btr_fd", vals)
  BY Zenon DEF BtrWord
<1>3. Btr(bt, FALSE) =
        [prop_seg |-> FIELD_PREP(6, t.prop_seg), phase_seg1 |-> FIELD_PREP(5, t.phase_seg1),
         phase_seg2 |-> FIELD_PREP(5, t.phase_seg2), brp |-> FIELD_PREP(8, t.brp),
         sjw |-> FIELD_PREP(5, t.sjw)]
  BY Zenon DEF Btr, BtrWidth
<1> HIDE DEF t
<1>4. /\ DOMAIN vals = {"prop_fd", "ph1_fd", "ph2_fd", "brp_fd", "sjw_fd"}
      /\ vals.prop_fd = t.prop_seg /\ vals.ph1_fd = t.phase_seg1 /\ vals.ph2_fd = t.phase_seg2
      /\ vals.brp_fd = t.brp /\ vals.sjw_fd = t.sjw
      /\ \A f \in DOMAIN vals : vals[f] \in Nat
  BY <1>1
<1> HIDE DEF vals
<1>5. /\ Alone("btr_fd", vals, "prop_fd", 0, 5) /\ Alone("btr_fd", vals, "ph1_fd", 7, 11)
      /\ Alone("btr_fd", vals, "ph2_fd", 13, 17) /\ Alone("btr_fd", vals, "brp_fd", 19, 26)
      /\ Alone("btr_fd", vals, "sjw_fd", 27, 31)
  BY <1>4, BtrFdLayout DEF FieldAt, Alone
<1>6. Field("btr_fd", "prop_fd", Word("btr_fd", vals)) = FIELD_PREP(6, t.prop_seg)
  BY <1>4, <1>5, FieldOfWord, BtrFdLayout
<1>7. Field("btr_fd", "ph1_fd", Word("btr_fd", vals)) = FIELD_PREP(5, t.phase_seg1)
  BY <1>4, <1>5, FieldOfWord, BtrFdLayout
<1>8. Field("btr_fd", "ph2_fd", Word("btr_fd", vals)) = FIELD_PREP(5, t.phase_seg2)
  BY <1>4, <1>5, FieldOfWord, BtrFdLayout
<1>9. Field("btr_fd", "brp_fd", Word("btr_fd", vals)) = FIELD_PREP(8, t.brp)
  BY <1>4, <1>5, FieldOfWord, BtrFdLayout
<1>10. Field("btr_fd", "sjw_fd", Word("btr_fd", vals)) = FIELD_PREP(5, t.sjw)
  BY <1>4, <1>5, FieldOfWord, BtrFdLayout
<1> QED
  BY <1>2, <1>3, <1>6, <1>7, <1>8, <1>9, <1>10, Zenon DEF DbtOf

\* The secondary sample point.
LEMMA SspWord ==
  ASSUME NEW src \in 0..3, NEW offset \in Nat
  PROVE  SspOf(Word("trv_delay_ssp_cfg", [ssp_src |-> src, ssp_offset |-> offset]))
           = <<src, FIELD_PREP(8, offset)>>
<1> DEFINE vals == [ssp_src |-> src, ssp_offset |-> offset]
           R == "trv_delay_ssp_cfg"
<1>1. /\ DOMAIN vals = {"ssp_src", "ssp_offset"}
      /\ vals["ssp_src"] = src /\ vals["ssp_offset"] = offset
      /\ \A f \in DOMAIN vals : vals[f] \in Nat
  OBVIOUS
<1> HIDE DEF vals
<1>2. Alone(R, vals, "ssp_offset", 16, 23) /\ Alone(R, vals, "ssp_src", 24, 25)
  BY <1>1, SspLayout DEF FieldAt, Alone
<1>3. Field(R, "ssp_src", Word(R, vals)) = FIELD_PREP(2, src)
  BY <1>1, <1>2, FieldOfWord, SspLayout
<1>4. Field(R, "ssp_offset", Word(R, vals)) = FIELD_PREP(8, offset)
  BY <1>1, <1>2, FieldOfWord, SspLayout
<1>5. FIELD_PREP(2, src) = src
  BY PowerFacts, SMT DEF FIELD_PREP
<1> QED
  BY <1>3, <1>4, <1>5, Zenon DEF vals, SspOf

\* The priorities of the TXT buffers.
LEMMA PriorityWord ==
  ASSUME NEW p \in Calls.prio
  PROVE  PrioOf(Word("tx_priority", [txt1p |-> p[1], txt2p |-> p[2], txt3p |-> p[3], txt4p |-> p[4]]))
           = [k \in 1..4 |-> FIELD_PREP(3, p[k])]
<1> DEFINE vals == [txt1p |-> p[1], txt2p |-> p[2], txt3p |-> p[3], txt4p |-> p[4]]
           R == "tx_priority"
<1>1. /\ DOMAIN vals = {"txt1p", "txt2p", "txt3p", "txt4p"}
      /\ vals["txt1p"] = p[1] /\ vals["txt2p"] = p[2] /\ vals["txt3p"] = p[3] /\ vals["txt4p"] = p[4]
  BY Zenon
<1>2. p[1] \in Nat /\ p[2] \in Nat /\ p[3] \in Nat /\ p[4] \in Nat
  BY CallsAssumption
<1> HIDE DEF vals
<1>3. /\ Alone(R, vals, "txt1p", 0, 2) /\ Alone(R, vals, "txt2p", 4, 6)
      /\ Alone(R, vals, "txt3p", 8, 10) /\ Alone(R, vals, "txt4p", 12, 14)
  BY <1>1, PriorityLayout DEF FieldAt, Alone
<1>4. /\ Field(R, "txt1p", Word(R, vals)) = FIELD_PREP(3, p[1])
      /\ Field(R, "txt2p", Word(R, vals)) = FIELD_PREP(3, p[2])
      /\ Field(R, "txt3p", Word(R, vals)) = FIELD_PREP(3, p[3])
      /\ Field(R, "txt4p", Word(R, vals)) = FIELD_PREP(3, p[4])
  BY <1>1, <1>2, <1>3, FieldOfWord, PriorityLayout
<1>5. \A k \in 1..4 : Field(R, <<"txt1p", "txt2p", "txt3p", "txt4p">>[k], Word(R, vals)) = FIELD_PREP(3, p[k])
  <2> SUFFICES ASSUME NEW k \in 1..4
               PROVE  Field(R, <<"txt1p", "txt2p", "txt3p", "txt4p">>[k], Word(R, vals)) = FIELD_PREP(3, p[k])
    BY Zenon
  <2>1. k = 1 \/ k = 2 \/ k = 3 \/ k = 4
    OBVIOUS
  <2> QED
    BY <2>1, <1>4
<1> QED
  BY <1>5, Zenon DEF vals, PrioOf

-----------------------------------------------------------------------------
(* Bits of words                                                            *)

\* The place of one bit.
LEMMA OneBit ==
  ASSUME NEW b \in Int
  PROVE  Lowest(b..b) = b /\ b..b = {b}
<1>1. b <= b /\ b..b = {b}
  OBVIOUS
<1>2. Lowest(b..b) = b
  BY <1>1, LowestOf, Zenon
<1> QED
  BY <1>1, <1>2, Zenon

\* A field of one bit.
LEMMA BitField ==
  ASSUME NEW r, NEW f, NEW b \in Int, FieldAt(r, f, b, b), NEW word
  PROVE  /\ b \in word => Field(r, f, word) = 1
         /\ b \notin word => Field(r, f, word) = 0
<1>1. Lowest(b..b) = b
  BY OneBit, Zenon
<1>2. Field(r, f, word) = Number(GetAt(word, b..b))
  BY Zenon DEF Field, FieldAt
<1>3. ASSUME b \in word PROVE Field(r, f, word) = 1
  <2>1. GetAt(word, b..b) = {0}
    BY <1>1, <1>3 DEF GetAt
  <2>2. Number({0}) = 1
    BY NumberFacts, Zenon
  <2> QED
    BY <1>2, <2>1, <2>2, Zenon
<1>4. ASSUME b \notin word PROVE Field(r, f, word) = 0
  <2>1. GetAt(word, b..b) = {}
    BY <1>1, <1>4 DEF GetAt
  <2>2. Number({}) = 0
    BY NumberFacts, Zenon
  <2> QED
    BY <1>2, <2>1, <2>2, Zenon
<1> QED
  BY <1>3, <1>4, Zenon

\* A bit that is set or cleared.
LEMMA PutBit ==
  ASSUME NEW r, NEW f, NEW b \in Int, FieldAt(r, f, b, b), NEW word, NEW on \in BOOLEAN
  PROVE  Put(word, r, f, Enabled(on)) = (word \ {b}) \cup (IF on THEN {b} ELSE {})
<1>1. Lowest(b..b) = b /\ b..b = {b}
  BY OneBit, Zenon
<1>2. Put(word, r, f, Enabled(on)) = (word \ {b}) \cup ({c + b : c \in Enabled(on)} \cap {b})
  BY <1>1, Zenon DEF Put, PutAt, FieldAt
<1>3. CASE on
  <2>1. {c + b : c \in Enabled(on)} = {b}
    BY <1>3 DEF Enabled
  <2> QED
    BY <1>2, <1>3, <2>1, Zenon
<1>4. CASE ~on
  <2>1. {c + b : c \in Enabled(on)} = {}
    BY <1>4, Zenon DEF Enabled
  <2> QED
    BY <1>2, <1>4, <2>1, Zenon
<1> QED
  BY <1>3, <1>4, Zenon

\* The bit of each mode.
ModeBit == [LOOPBACK |-> 21, LISTENONLY |-> 1, FD |-> 4, PRESUME_ACK |-> 2, FD_NON_ISO |-> 23]

\* The fields that ctucan_hw_set_mode_reg changes are single bits.
LEMMA ModeFields ==
  /\ DOMAIN ModeField = {"LOOPBACK", "LISTENONLY", "FD", "PRESUME_ACK", "FD_NON_ISO"}
  /\ \A m \in DOMAIN ModeField :
       FieldAt("mode_settings", ModeField[m], ModeBit[m], ModeBit[m]) /\ ModeBit[m] \in {1, 2, 4, 21, 23}
  BY ModeLayout DEF ModeField, ModeBit

\* What the bits of the MODE and SETTINGS registers say.
LEMMA ModeSays ==
  ASSUME NEW word
  PROVE  /\ EnaOf(word) <=> 22 \in word
         /\ ModesOf(word) = {m \in DOMAIN ModeField : ModeBit[m] \in word}
         /\ RetOf(word)[1] = IF 16 \in word THEN 1 ELSE 0
         /\ RetOf(word) = <<RetOf(word)[1], Number(GetAt(word, 17..20))>>
<1>1. EnaOf(word) <=> 22 \in word
  BY BitField, ModeLayout DEF EnaOf
<1>2. \A m \in DOMAIN ModeField : Field("mode_settings", ModeField[m], word) = 1 <=> ModeBit[m] \in word
  BY BitField, ModeFields
<1>3. Field("mode_settings", "rtrle", word) = IF 16 \in word THEN 1 ELSE 0
  BY BitField, ModeLayout
<1>4. Field("mode_settings", "rtrth", word) = Number(GetAt(word, 17..20))
  BY ModeLayout, Zenon DEF Field, FieldAt
<1>5. ModesOf(word) = {m \in DOMAIN ModeField : ModeBit[m] \in word}
  BY <1>2, Zenon DEF ModesOf
<1> QED
  BY <1>1, <1>3, <1>4, <1>5, Zenon DEF RetOf

\* Two words agree on some bits.
SameOn(bits, w1, w2) == \A b \in bits : b \in w1 <=> b \in w2

\* Two words that agree on the bits of a setting agree on the setting.
LEMMA ModeSame ==
  ASSUME NEW w1, NEW w2
  PROVE  /\ SameOn({22}, w1, w2) => (EnaOf(w1) <=> EnaOf(w2))
         /\ SameOn({1, 2, 4, 21, 23}, w1, w2) => ModesOf(w1) = ModesOf(w2)
         /\ SameOn(16..20, w1, w2) => RetOf(w1) = RetOf(w2)
<1>1. SameOn({22}, w1, w2) => (EnaOf(w1) <=> EnaOf(w2))
  BY ModeSays, Zenon DEF SameOn
<1>2. ASSUME SameOn({1, 2, 4, 21, 23}, w1, w2)
      PROVE  ModesOf(w1) = ModesOf(w2)
  <2>1. \A m \in DOMAIN ModeField : ModeBit[m] \in w1 <=> ModeBit[m] \in w2
    BY <1>2, ModeFields, Zenon DEF SameOn
  <2>2. /\ ModesOf(w1) = {m \in DOMAIN ModeField : ModeBit[m] \in w1}
        /\ ModesOf(w2) = {m \in DOMAIN ModeField : ModeBit[m] \in w2}
    BY ModeSays, Zenon
  <2> QED
    BY <2>1, <2>2, Zenon
<1>3. ASSUME SameOn(16..20, w1, w2)
      PROVE  RetOf(w1) = RetOf(w2)
  <2>1. w1 \cap 17..20 = w2 \cap 17..20 /\ (16 \in w1 <=> 16 \in w2)
    BY <1>3 DEF SameOn
  <2>2. GetAt(w1, 17..20) = GetAt(w2, 17..20)
    BY <2>1, Zenon DEF GetAt
  <2>3. /\ RetOf(w1)[1] = IF 16 \in w1 THEN 1 ELSE 0
        /\ RetOf(w2)[1] = IF 16 \in w2 THEN 1 ELSE 0
    BY ModeSays, Zenon
  <2>4. /\ RetOf(w1) = <<RetOf(w1)[1], Number(GetAt(w1, 17..20))>>
        /\ RetOf(w2) = <<RetOf(w2)[1], Number(GetAt(w2, 17..20))>>
    BY ModeSays, Zenon
  <2>5. RetOf(w1)[1] = RetOf(w2)[1]
    BY <2>1, <2>3
  <2> QED
    BY <2>2, <2>4, <2>5, Zenon
<1> QED
  BY <1>1, <1>2, <1>3, Zenon

\* A word of MODE and SETTINGS that keeps the reset and the test mode off.
Calm(word) == 0 \notin word /\ 8 \notin word

\* Enabling changes nothing else (ctucan_hw_enable).
LEMMA EnableWord ==
  ASSUME NEW word, Calm(word), NEW on \in BOOLEAN, NEW W,
         W = Put(word, "mode_settings", "ena", Enabled(on))
  PROVE  Calm(W) /\ (EnaOf(W) <=> on) /\ ModesOf(W) = ModesOf(word) /\ RetOf(W) = RetOf(word)
<1>1. W = (word \ {22}) \cup (IF on THEN {22} ELSE {})
  BY PutBit, ModeLayout
<1>2. (22 \in W <=> on) /\ \A b : b # 22 => (b \in W <=> b \in word)
  BY <1>1, Zenon
<1>3. Calm(W)
  BY <1>2 DEF Calm
<1>4. EnaOf(W) <=> on
  BY <1>2, ModeSays, Zenon
<1>5. SameOn({1, 2, 4, 21, 23}, W, word) /\ SameOn(16..20, W, word)
  BY <1>2 DEF SameOn
<1>6. ModesOf(W) = ModesOf(word) /\ RetOf(W) = RetOf(word)
  BY <1>5, ModeSame, Zenon
<1> QED
  BY <1>3, <1>4, <1>6, Zenon

\* The word that ctucan_hw_set_ret_limit writes, and what it asks for.
RetPut(word, on, limit) ==
  Put(Put(word, "mode_settings", "rtrle", Enabled(on)), "mode_settings", "rtrth", BitsOf(limit))
RetAsked(on, limit) == <<IF on THEN 1 ELSE 0, limit>>

\* The limit of retransmissions changes nothing else (ctucan_hw_set_ret_limit).
LEMMA RetWord ==
  ASSUME NEW word, Calm(word), NEW on \in BOOLEAN, NEW limit \in 0..15, NEW W,
         W = RetPut(word, on, limit)
  PROVE  /\ Calm(W) /\ (EnaOf(W) <=> EnaOf(word)) /\ ModesOf(W) = ModesOf(word)
         /\ RetOf(W) = RetAsked(on, limit)
<1> DEFINE V == Put(word, "mode_settings", "rtrle", Enabled(on))
<1>1. V = (word \ {16}) \cup (IF on THEN {16} ELSE {})
  BY PutBit, ModeLayout
<1>2. W = PutAt(V, 17..20, BitsOf(limit))
  BY ModeLayout, Zenon DEF RetPut, Put, FieldAt
<1> HIDE DEF V
<1>3. \A b : b \notin 17..20 => (b \in W <=> b \in V)
  BY <1>2, Zenon DEF PutAt
<1>4. (16 \in V <=> on) /\ \A b : b # 16 => (b \in V <=> b \in word)
  BY <1>1, Zenon
<1>5. (16 \in W <=> on) /\ \A b : b \notin 16..20 => (b \in W <=> b \in word)
  BY <1>3, <1>4
<1>6. BitsOf(limit) \in SUBSET Int
  BY BitNumbers, Zenon
<1>7. GetAt(W, 17..20) = Cut(BitsOf(limit), 4)
  <2>1. 4 \in Int /\ 17 \in Int /\ 20 \in Int /\ 17 <= 20 /\ 4 = 20 - 17 + 1
    OBVIOUS
  <2>2. ASSUME NEW lo \in Int, NEW hi \in Int, NEW w \in Int, lo <= hi, w = hi - lo + 1
        PROVE  GetAt(PutAt(V, lo..hi, BitsOf(limit)), lo..hi) = Cut(BitsOf(limit), w)
    BY <1>6, <2>2, GetPut
  <2>3. GetAt(PutAt(V, 17..20, BitsOf(limit)), 17..20) = Cut(BitsOf(limit), 4)
    BY <2>1, <2>2, Zenon
  <2> QED
    BY <1>2, <2>3, Zenon
<1>8. Number(GetAt(W, 17..20)) = limit
  <2>0. limit \in Nat /\ 4 \in 1..8
    OBVIOUS
  <2>1. Number(Cut(BitsOf(limit), 4)) = limit % Pow(4)
    BY <2>0, LowBits, Zenon DEF Pow
  <2>2. limit % Pow(4) = limit
    BY Powers
  <2> QED
    BY <1>7, <2>1, <2>2, Zenon
<1>9. RetOf(W) = RetAsked(on, limit)
  BY <1>5, <1>8, ModeSays, Zenon DEF RetAsked
<1>10. Calm(W)
  BY <1>5 DEF Calm
<1>11. SameOn({22}, W, word) /\ SameOn({1, 2, 4, 21, 23}, W, word)
  BY <1>5 DEF SameOn
<1>12. (EnaOf(W) <=> EnaOf(word)) /\ ModesOf(W) = ModesOf(word)
  BY <1>11, ModeSame, Zenon
<1> QED
  BY <1>9, <1>10, <1>12, Zenon

\* The word that ctucan_hw_set_mode_reg writes, and what it asks for.
ModesPut(word, mask, flags) ==
  LET Of(modes) == UNION {Place["mode_settings"][ModeField[m]] : m \in DOMAIN ModeField \cap modes}
  IN  (word \ Of(mask)) \cup Of(mask \cap flags)
ModesAsked(modes, mask, flags) == (modes \ mask) \cup (mask \cap flags \cap DOMAIN ModeField)

\* The modes change nothing else (ctucan_hw_set_mode_reg).
LEMMA ModesWord ==
  ASSUME NEW word, Calm(word), NEW mask, NEW flags, NEW W, W = ModesPut(word, mask, flags)
  PROVE  /\ Calm(W) /\ (EnaOf(W) <=> EnaOf(word)) /\ RetOf(W) = RetOf(word)
         /\ ModesOf(W) = ModesAsked(ModesOf(word), mask, flags)
<1> DEFINE Of(modes) == UNION {Place["mode_settings"][ModeField[m]] : m \in DOMAIN ModeField \cap modes}
<1>0. W = (word \ Of(mask)) \cup Of(mask \cap flags)
  BY Zenon DEF ModesPut
<1>1. \A m \in DOMAIN ModeField : Place["mode_settings"][ModeField[m]] = {ModeBit[m]}
  <2>1. \A m \in DOMAIN ModeField : ModeBit[m] \in Int
    BY ModeFields
  <2> QED
    BY <2>1, OneBit, ModeFields, Zenon DEF FieldAt
<1>2. ASSUME NEW modes, NEW b
      PROVE  b \in Of(modes) <=> \E m \in DOMAIN ModeField : m \in modes /\ b = ModeBit[m]
  <2>1. b \in Of(modes) <=> \E m \in DOMAIN ModeField \cap modes : b \in Place["mode_settings"][ModeField[m]]
    BY Zenon
  <2> QED
    BY <1>1, <2>1, Zenon
<1> HIDE DEF Of
<1>3. \A b : b \in W <=> (b \in word /\ b \notin Of(mask)) \/ b \in Of(mask \cap flags)
  BY <1>0, Zenon
<1>4. ASSUME NEW b, b \notin {1, 2, 4, 21, 23}
      PROVE  b \in W <=> b \in word
  <2>1. ASSUME NEW modes PROVE b \notin Of(modes)
    <3>1. b \in Of(modes) <=> \E m \in DOMAIN ModeField : m \in modes /\ b = ModeBit[m]
      BY <1>2, Zenon
    <3>2. \A m \in DOMAIN ModeField : ModeBit[m] \in {1, 2, 4, 21, 23}
      BY ModeFields, Zenon
    <3> QED
      BY <1>4, <3>1, <3>2, Zenon
  <2> QED
    BY <1>3, <2>1, Zenon
<1>5. \A m, n \in DOMAIN ModeField : ModeBit[m] = ModeBit[n] => m = n
  BY ModeFields DEF ModeBit
<1>6. ASSUME NEW m \in DOMAIN ModeField
      PROVE  ModeBit[m] \in W <=> IF m \in mask THEN m \in flags ELSE ModeBit[m] \in word
  <2>1. ASSUME NEW modes PROVE ModeBit[m] \in Of(modes) <=> m \in modes
    <3>1. ModeBit[m] \in Of(modes) <=> \E k \in DOMAIN ModeField : k \in modes /\ ModeBit[m] = ModeBit[k]
      BY <1>2, Zenon
    <3> QED
      BY <1>5, <1>6, <3>1, Zenon
  <2> QED
    BY <1>3, <2>1, Zenon
<1>7. /\ ModesOf(W) = {m \in DOMAIN ModeField : ModeBit[m] \in W}
      /\ ModesOf(word) = {m \in DOMAIN ModeField : ModeBit[m] \in word}
  <2>1. \A w : ModesOf(w) = {m \in DOMAIN ModeField : ModeBit[m] \in w}
    BY ModeSays, Zenon
  <2> QED
    BY <2>1, Zenon
<1>8. ModesOf(W) = ModesAsked(ModesOf(word), mask, flags)
  BY <1>6, <1>7, Zenon DEF ModesAsked
<1>9. Calm(W) /\ SameOn({22}, W, word) /\ SameOn(16..20, W, word)
  BY <1>4 DEF Calm, SameOn
<1>10. (EnaOf(W) <=> EnaOf(word)) /\ RetOf(W) = RetOf(word)
  BY <1>9, ModeSame, Zenon
<1> QED
  BY <1>8, <1>9, <1>10, Zenon

\* The time stamp option is kept beside the status bits (ctucan_hw_set_rx_tsop).
LEMMA TsopWord ==
  ASSUME NEW old, NEW v \in {0, 1}, NEW W,
         W = (old \cap 0..15) \cup (Word("rx_status_rx_settings", [rtsop |-> v]) \ 0..15)
  PROVE  TsopOf(W) = v
<1> DEFINE vals == [rtsop |-> v]
           V == Word("rx_status_rx_settings", vals)
<1>1. DOMAIN vals = {"rtsop"} /\ vals["rtsop"] = v /\ v \in Nat
  OBVIOUS
<1>2. W = (old \cap 0..15) \cup (V \ 0..15)
  BY Zenon
<1> HIDE DEF vals
<1>3. Alone("rx_status_rx_settings", vals, "rtsop", 16, 16)
  BY <1>1, RxSettingsLayout, Zenon DEF FieldAt, Alone
<1>4. Field("rx_status_rx_settings", "rtsop", V) = FIELD_PREP(1, v)
  BY <1>1, <1>3, FieldOfWord, RxSettingsLayout
<1> HIDE DEF V
<1>5. FIELD_PREP(1, v) = v
  BY Powers DEF FIELD_PREP, Pow
<1>6. 16 \in V <=> v = 1
  BY <1>4, <1>5, BitField, RxSettingsLayout
<1>7. 16 \in W <=> v = 1
  BY <1>2, <1>6
<1> QED
  BY <1>7, BitField, RxSettingsLayout DEF TsopOf

\* The bits of the filters.
LEMMA FilterPlaces ==
  ASSUME NEW f \in DOMAIN FilterBits
  PROVE  /\ UNION {Place["filter_control_filter_status"][g] : g \in FilterFields[f]} = FilterBits[f]
         /\ \A w : FilterOn(f, w) <=> FilterBits[f] \subseteq w
<1> DEFINE R == "filter_control_filter_status"
<1>1. \A g \in FilterFields[f] : \E b \in FilterBits[f] : FieldAt(R, g, b, b)
  BY FilterLayout, Zenon
<1>2. \A b \in FilterBits[f] : \E g \in FilterFields[f] : FieldAt(R, g, b, b)
  BY FilterLayout, Zenon
<1>3. FilterBits[f] \subseteq Int
  BY DEF FilterBits
<1>4. \A g, b : b \in Int /\ FieldAt(R, g, b, b) => Place[R][g] = {b}
  BY OneBit, Zenon DEF FieldAt
<1>5. UNION {Place[R][g] : g \in FilterFields[f]} = FilterBits[f]
  <2>1. \A g \in FilterFields[f] : \E b \in FilterBits[f] : Place[R][g] = {b}
    BY <1>1, <1>3, <1>4, Zenon
  <2>2. \A b \in FilterBits[f] : \E g \in FilterFields[f] : Place[R][g] = {b}
    BY <1>2, <1>3, <1>4, Zenon
  <2>3. ASSUME NEW b
        PROVE  b \in UNION {Place[R][g] : g \in FilterFields[f]} <=> b \in FilterBits[f]
    <3>1. b \in UNION {Place[R][g] : g \in FilterFields[f]} <=> \E g \in FilterFields[f] : b \in Place[R][g]
      BY Zenon
    <3> QED
      BY <2>1, <2>2, <3>1, Zenon
  <2> QED
    BY <2>3, Zenon
<1>6. ASSUME NEW w
      PROVE  FilterOn(f, w) <=> FilterBits[f] \subseteq w
  <2>1. \A g, b : b \in Int /\ FieldAt(R, g, b, b) => (Field(R, g, w) = 1 <=> b \in w)
    BY BitField
  <2> QED
    BY <1>1, <1>2, <1>3, <2>1, Zenon DEF FilterOn
<1> QED
  BY <1>5, <1>6, Zenon

\* The bits that say that the three mask filters are there.
Supported(word) == {16, 17, 18} \subseteq word

\* The control word of the filters after one is turned on or off: the others and the
\* read-only half are as before.
LEMMA FilterWord ==
  ASSUME NEW regs, Supported(regs.filter_control_filter_status),
         NEW f \in DOMAIN FilterBits, NEW on \in BOOLEAN, NEW W,
         W = (regs.filter_control_filter_status \cap 16..31) \cup (FilterControl(regs, f, on) \cap 0..15)
  PROVE  /\ Supported(W) /\ (FilterOn(f, W) <=> on)
         /\ \A g \in DOMAIN FilterBits \ {f} : FilterOn(g, W) <=> FilterOn(g, regs.filter_control_filter_status)
<1> DEFINE old == regs.filter_control_filter_status
           all == FilterBits[f]
<1>1. FilterControl(regs, f, on) = IF on THEN old \cup all ELSE old \ all
  BY FilterPlaces, Zenon DEF FilterControl
<1>2. all \subseteq 0..15 /\ (\E b : b \in all)
  <2>1. \A g \in DOMAIN FilterBits : FilterBits[g] \subseteq 0..15 /\ (\E b \in 0..15 : b \in FilterBits[g])
    BY DEF FilterBits
  <2> QED
    BY <2>1, Zenon
<1>3. \A g \in DOMAIN FilterBits : FilterBits[g] \subseteq 0..15 /\ (g # f => FilterBits[g] \cap all = {})
  BY DEF FilterBits
<1> HIDE DEF all, old
<1>4. W = (old \cap 16..31) \cup (FilterControl(regs, f, on) \cap 0..15)
  BY Zenon DEF old
<1>5. Supported(W)
  BY <1>4 DEF Supported, old
<1>6. all \subseteq W <=> on
  <2>1. CASE on
    BY <1>1, <1>2, <1>4, <2>1, Zenon
  <2>2. CASE ~on
    <3>1. \A b \in 0..15 : b \notin 16..31
      OBVIOUS
    <3> QED
      BY <1>1, <1>2, <1>4, <2>2, <3>1, Zenon
  <2> QED
    BY <2>1, <2>2, Zenon
<1>7. ASSUME NEW g \in DOMAIN FilterBits, g # f
      PROVE  FilterBits[g] \subseteq W <=> FilterBits[g] \subseteq old
  <2>1. FilterBits[g] \subseteq 0..15 /\ FilterBits[g] \cap all = {}
    BY <1>3, <1>7, Zenon
  <2>2. \A b \in 0..15 : b \notin 16..31
    OBVIOUS
  <2>3. \A b \in FilterBits[g] : b \in FilterControl(regs, f, on) <=> b \in old
    BY <1>1, <2>1, Zenon
  <2> QED
    BY <1>4, <2>1, <2>2, <2>3, Zenon
<1>8. \A g \in DOMAIN FilterBits : \A w : FilterOn(g, w) <=> FilterBits[g] \subseteq w
  <2> SUFFICES ASSUME NEW g \in DOMAIN FilterBits
               PROVE  \A w : FilterOn(g, w) <=> FilterBits[g] \subseteq w
    BY Zenon
  <2> QED
    BY FilterPlaces, Zenon
<1>9. FilterOn(f, W) <=> on
  BY <1>6, <1>8, Zenon DEF all
<1>10. ASSUME NEW g \in DOMAIN FilterBits \ {f}
       PROVE  FilterOn(g, W) <=> FilterOn(g, old)
  BY <1>7, <1>8, <1>10, Zenon
<1> QED
  BY <1>5, <1>9, <1>10, Zenon DEF old

-----------------------------------------------------------------------------
(* Writes of registers                                                      *)

\* The registers of a controller that is neither in a reset nor in the test mode.
OnRegs(regs) == regs = [r \in RegNames |-> regs[r]]
IsRegs(regs) == OnRegs(regs) /\ Calm(regs.mode_settings)

\* new is regs after a write that leaves word in register r.
Wrote(regs, new, r, word) == new = [regs EXCEPT ![r] = word]

\* What a locked controller ignores.
LEMMA LockedWhen ==
  ASSUME NEW regs, Calm(regs.mode_settings), NEW r
  PROVE  r \in Locked(regs) <=>
           \/ r \in {"ewl_erp_fault_state", "ctr_pres"}
           \/ EnaOf(regs.mode_settings) /\ r \in {"btr", "btr_fd", "trv_delay_ssp_cfg"}
<1>1. Place["mode_settings"].ena = {22} /\ Place["mode_settings"].tstm = {8}
  BY OneBit, ModeLayout DEF FieldAt
<1>2. EnaOf(regs.mode_settings) <=> 22 \in regs.mode_settings
  BY ModeSays, Zenon
<1> QED
  BY <1>1, <1>2, Zenon DEF Locked, LockedIn, Calm

\* A register without rules of its own.
Plain == {"btr", "btr_fd", "trv_delay_ssp_cfg", "tx_priority", "filter_a_mask", "filter_a_val",
          "filter_b_mask", "filter_b_val", "filter_c_mask", "filter_c_val", "filter_ran_low",
          "filter_ran_high"}

\* A write of a register that is not locked stays.
LEMMA WritePlain ==
  ASSUME NEW regs, IsRegs(regs), NEW r \in Plain, NEW word,
         EnaOf(regs.mode_settings) => r \notin {"btr", "btr_fd", "trv_delay_ssp_cfg"}
  PROVE  Wrote(regs, write_reg(regs, r, word), r, word)
<1>1. r \notin Locked(regs)
  BY LockedWhen, Zenon DEF IsRegs, Plain
<1> QED
  BY <1>1, Zenon DEF Wrote, write_reg, Plain

\* A write of a locked register changes nothing.
LEMMA WriteLocked ==
  ASSUME NEW regs, IsRegs(regs), NEW r, NEW word,
         \/ r \in {"ewl_erp_fault_state", "ctr_pres"}
         \/ EnaOf(regs.mode_settings) /\ r \in {"btr", "btr_fd", "trv_delay_ssp_cfg"}
  PROVE  write_reg(regs, r, word) = regs
<1>1. r \in Locked(regs)
  BY LockedWhen, Zenon DEF IsRegs
<1> QED
  BY <1>1, Zenon DEF write_reg

\* A write of MODE and SETTINGS that does not reset.
LEMMA WriteMode ==
  ASSUME NEW regs, IsRegs(regs), NEW word, Calm(word)
  PROVE  Wrote(regs, write_reg(regs, "mode_settings", word), "mode_settings", word)
<1>1. "mode_settings" \notin Locked(regs)
  BY LockedWhen DEF IsRegs
<1>2. Place["mode_settings"].rst = {0}
  BY OneBit, ModeLayout DEF FieldAt
<1>3. ~(Place["mode_settings"].rst \subseteq word)
  BY <1>2, Zenon DEF Calm
<1> QED
  BY <1>1, <1>3, Zenon DEF Wrote, write_reg

\* The registers that set and clear bits of the interrupt enable and mask registers.
LEMMA WriteInts ==
  ASSUME NEW regs, IsRegs(regs), NEW word
  PROVE  /\ Wrote(regs, write_reg(regs, "int_ena_set", word), "int_ena_set", regs.int_ena_set \cup word)
         /\ Wrote(regs, write_reg(regs, "int_ena_clr", word), "int_ena_set", regs.int_ena_set \ word)
         /\ Wrote(regs, write_reg(regs, "int_mask_set", word), "int_mask_set", regs.int_mask_set \cup word)
         /\ Wrote(regs, write_reg(regs, "int_mask_clr", word), "int_mask_set", regs.int_mask_set \ word)
<1>1. Locked(regs) \cap {"int_ena_set", "int_ena_clr", "int_mask_set", "int_mask_clr"} = {}
  BY LockedWhen, Zenon DEF IsRegs
<1> QED
  BY <1>1, Zenon DEF Wrote, write_reg

\* The registers with a read-only half.
LEMMA WriteHalf ==
  ASSUME NEW regs, IsRegs(regs), NEW word
  PROVE  /\ Wrote(regs, write_reg(regs, "filter_control_filter_status", word),
                 "filter_control_filter_status",
                 (regs.filter_control_filter_status \cap 16..31) \cup (word \cap 0..15))
         /\ Wrote(regs, write_reg(regs, "rx_status_rx_settings", word), "rx_status_rx_settings",
                 (regs.rx_status_rx_settings \cap 0..15) \cup (word \ 0..15))
<1>1. Locked(regs) \cap {"filter_control_filter_status", "rx_status_rx_settings"} = {}
  BY LockedWhen, Zenon DEF IsRegs
<1> QED
  BY <1>1, Zenon DEF Wrote, write_reg

-----------------------------------------------------------------------------
(* The registers and the requests agree                                     *)

WantFields ==
  {"ena", "modes", "ret", "ints", "berr", "masked", "nbt", "dbt", "ssp", "prio", "tsop", "filter",
   "range", "txt"}

IsWant(want) == want = [k \in WantFields |-> want[k]]

ModeGood(w, ena, modes, ret) ==
  ena \in BOOLEAN /\ ena = EnaOf(w) /\ modes = ModesOf(w) /\ ret = RetOf(w)

\* The enabled interrupts; that of bus errors is not known once berr is set.
IntsGood(set, ints, berr) ==
  /\ berr \in BOOLEAN
  /\ \A i : i \notin Place["int_stat"].bei => (i \in ints <=> i \in set)
  /\ ~berr => ints = set

\* One filter: its bits of the control word fc, its two registers and what was asked for.
FilterGood(f, fc, mask, val, a) ==
  /\ a.on = FilterOn(f, fc)
  /\ mask = id_to_hwid(a.can_id)
  /\ val = id_to_hwid(a.can_mask)

FiltersGood(regs, filter) ==
  /\ Supported(regs.filter_control_filter_status)
  /\ filter = [f \in Filters |-> filter[f]]
  /\ \A f \in Filters : FilterGood(f, regs.filter_control_filter_status, regs[FilterMask[f]],
                                   regs[FilterVal[f]], filter[f])

RangeGood(fc, low, high, range) ==
  range = [on |-> FilterOn("r", fc), low |-> low, high |-> high]

LimitsGood(w) ==
  /\ Field("ewl_erp_fault_state", "ew_limit", w) = 96
  /\ Field("ewl_erp_fault_state", "erp_limit", w) = 128

\* The inductive invariant, of the registers and the requests.
Good(regs, want) ==
  /\ IsRegs(regs)
  /\ IsWant(want)
  /\ ModeGood(regs.mode_settings, want.ena, want.modes, want.ret)
  /\ IntsGood(regs.int_ena_set, want.ints, want.berr)
  /\ want.masked = regs.int_mask_set
  /\ want.nbt = NbtOf(regs.btr)
  /\ want.dbt = DbtOf(regs.btr_fd)
  /\ want.ssp = SspOf(regs.trv_delay_ssp_cfg)
  /\ want.prio = PrioOf(regs.tx_priority)
  /\ want.tsop = TsopOf(regs.rx_status_rx_settings)
  /\ FiltersGood(regs, want.filter)
  /\ RangeGood(regs.filter_control_filter_status, regs.filter_ran_low, regs.filter_ran_high, want.range)
  /\ LimitsGood(regs.ewl_erp_fault_state)

DevFields == {"version", "regs", "txt", "buf", "fifo", "bus_off", "int_stat"}

IsDev(d) == d = [k \in DevFields |-> d[k]] /\ d.bus_off = FALSE
IsClient(p) == p = [k \in {"kind", "calls", "want"} |-> p[k]] /\ p.kind = "client"

ClientInv ==
  /\ IsClient(prog)
  /\ IsDev(dev)
  /\ Good(dev.regs, prog.want)
  /\ prog.want.txt = dev.txt
  /\ dev.txt \in {"TXT_ETY", "TXT_RDY", "TXT_ABT"}

\* Requests that differ at most in the fields ks.
SameWant(want, new, ks) == IsWant(new) /\ \A k \in WantFields : k \notin ks => new[k] = want[k]

\* A write of one register.
LEMMA Kept ==
  ASSUME NEW regs, IsRegs(regs), NEW r \in RegNames, NEW word, NEW new, Wrote(regs, new, r, word)
  PROVE  OnRegs(new) /\ new[r] = word /\ \A q \in RegNames : q # r => new[q] = regs[q]
  BY Zenon DEF IsRegs, OnRegs, Wrote

\* A write that does not reset and does not turn the test mode on.
LEMMA KeptRegs ==
  ASSUME NEW regs, IsRegs(regs), NEW r \in RegNames, NEW word, NEW new, Wrote(regs, new, r, word),
         r = "mode_settings" => Calm(word)
  PROVE  IsRegs(new)
<1>1. OnRegs(new) /\ new[r] = word /\ \A q \in RegNames : q # r => new[q] = regs[q]
  BY Kept
<1>2. "mode_settings" \in RegNames
  BY Zenon DEF RegNames
<1> QED
  BY <1>1, <1>2, Zenon DEF IsRegs

FilterRegs ==
  {"filter_control_filter_status", "filter_a_mask", "filter_a_val", "filter_b_mask", "filter_b_val",
   "filter_c_mask", "filter_c_val"}

\* The filters have registers of their own.
LEMMA FilterNames ==
  /\ Filters = {"a", "b", "c"} /\ DOMAIN FilterBits = {"a", "b", "c", "r"}
  /\ \A f \in Filters : FilterMask[f] \in FilterRegs \ {"filter_control_filter_status"}
  /\ \A f \in Filters : FilterVal[f] \in FilterRegs \ {"filter_control_filter_status"}
  /\ \A f, g \in Filters : FilterMask[f] # FilterVal[g]
  /\ \A f, g \in Filters : f # g => FilterMask[f] # FilterMask[g] /\ FilterVal[f] # FilterVal[g]
  BY DEF Filters, FilterBits, FilterMask, FilterVal, FilterRegs

\* Writes of other registers leave the filters.
LEMMA FiltersKept ==
  ASSUME NEW regs, NEW new, NEW filter, FiltersGood(regs, filter), \A q \in FilterRegs : new[q] = regs[q]
  PROVE  FiltersGood(new, filter)
<1>1. new.filter_control_filter_status = regs.filter_control_filter_status
  BY Zenon DEF FilterRegs
<1>2. \A f \in Filters : new[FilterMask[f]] = regs[FilterMask[f]] /\ new[FilterVal[f]] = regs[FilterVal[f]]
  BY FilterNames, Zenon
<1> QED
  BY <1>1, <1>2, Zenon DEF FiltersGood

\* A write of the mode and settings register.
LEMMA ModeChange ==
  ASSUME NEW regs, NEW want, Good(regs, want), NEW word, Calm(word), NEW new,
         Wrote(regs, new, "mode_settings", word),
         NEW nw, SameWant(want, nw, {"ena", "modes", "ret"}), ModeGood(word, nw.ena, nw.modes, nw.ret)
  PROVE  Good(new, nw)
<1> DEFINE r == "mode_settings"
<1>1. IsRegs(regs) /\ r \in RegNames
  BY Zenon DEF Good, RegNames
<1>2. IsRegs(new)
  BY <1>1, KeptRegs, Zenon
<1>3. new[r] = word /\ \A q \in RegNames : q # r => new[q] = regs[q]
  BY <1>1, Kept
<1>4. FiltersGood(new, want.filter)
  <2>1. \A q \in FilterRegs : new[q] = regs[q]
    BY <1>3, Zenon DEF FilterRegs, RegNames
  <2> QED
    BY <2>1, FiltersKept, ZenonT(60) DEF Good
<1>5. /\ new.btr = regs.btr /\ new.btr_fd = regs.btr_fd /\ new.trv_delay_ssp_cfg = regs.trv_delay_ssp_cfg
      /\ new.ewl_erp_fault_state = regs.ewl_erp_fault_state
      /\ new.tx_priority = regs.tx_priority
      /\ new.rx_status_rx_settings = regs.rx_status_rx_settings
      /\ new.int_ena_set = regs.int_ena_set
      /\ new.int_mask_set = regs.int_mask_set
      /\ new.filter_control_filter_status = regs.filter_control_filter_status
      /\ new.filter_ran_low = regs.filter_ran_low /\ new.filter_ran_high = regs.filter_ran_high
  BY <1>3, Zenon DEF RegNames
<1>6. /\ IsWant(nw) /\ nw.ints = want.ints /\ nw.berr = want.berr /\ nw.masked = want.masked
      /\ nw.nbt = want.nbt /\ nw.dbt = want.dbt /\ nw.ssp = want.ssp
      /\ nw.prio = want.prio /\ nw.tsop = want.tsop /\ nw.filter = want.filter
      /\ nw.range = want.range
  BY Zenon DEF SameWant, WantFields
<1> QED
  BY <1>2, <1>3, <1>4, <1>5, <1>6, Zenon DEF Good

\* A write of a register that says one thing.
Says(r, k, word, x) ==
  \/ r = "btr" /\ k = "nbt" /\ x = NbtOf(word)
  \/ r = "btr_fd" /\ k = "dbt" /\ x = DbtOf(word)
  \/ r = "trv_delay_ssp_cfg" /\ k = "ssp" /\ x = SspOf(word)
  \/ r = "tx_priority" /\ k = "prio" /\ x = PrioOf(word)
  \/ r = "rx_status_rx_settings" /\ k = "tsop" /\ x = TsopOf(word)
  \/ r = "int_mask_set" /\ k = "masked" /\ x = word

\* A call that changes such a register and the request that it holds.
LEMMA OneChange ==
  ASSUME NEW regs, NEW want, Good(regs, want), NEW r, NEW k, NEW word, NEW new, NEW nw,
         Wrote(regs, new, r, word), SameWant(want, nw, {k}), Says(r, k, word, nw[k])
  PROVE  Good(new, nw)
<1>1. IsRegs(regs) /\ r \in RegNames /\ r # "mode_settings"
  BY Zenon DEF Good, RegNames, Says
<1>2. IsRegs(new)
  BY <1>1, KeptRegs, Zenon
<1>3. new[r] = word /\ \A q \in RegNames : q # r => new[q] = regs[q]
  BY <1>1, Kept
<1>4. FiltersGood(new, want.filter)
  <2>1. \A q \in FilterRegs : new[q] = regs[q]
    BY <1>3, Zenon DEF FilterRegs, RegNames, Says
  <2> QED
    BY <2>1, FiltersKept, ZenonT(60) DEF Good
<1>5. /\ new.mode_settings = regs.mode_settings /\ (r # "btr" => new.btr = regs.btr)
      /\ (r # "btr_fd" => new.btr_fd = regs.btr_fd)
      /\ (r # "trv_delay_ssp_cfg" => new.trv_delay_ssp_cfg = regs.trv_delay_ssp_cfg)
      /\ new.ewl_erp_fault_state = regs.ewl_erp_fault_state
      /\ (r # "tx_priority" => new.tx_priority = regs.tx_priority)
      /\ (r # "rx_status_rx_settings" => new.rx_status_rx_settings = regs.rx_status_rx_settings)
      /\ new.int_ena_set = regs.int_ena_set
      /\ (r # "int_mask_set" => new.int_mask_set = regs.int_mask_set)
      /\ new.filter_control_filter_status = regs.filter_control_filter_status
      /\ new.filter_ran_low = regs.filter_ran_low /\ new.filter_ran_high = regs.filter_ran_high
  BY <1>3, Zenon DEF RegNames, Says
<1>6. IsWant(nw) /\ \A j \in WantFields : j # k => nw[j] = want[j]
  BY Zenon DEF SameWant
<1>7. /\ nw.ena = want.ena /\ nw.modes = want.modes
      /\ nw.ret = want.ret /\ nw.ints = want.ints /\ nw.berr = want.berr
      /\ (k # "masked" => nw.masked = want.masked) /\ (k # "nbt" => nw.nbt = want.nbt)
      /\ (k # "dbt" => nw.dbt = want.dbt) /\ (k # "ssp" => nw.ssp = want.ssp)
      /\ (k # "prio" => nw.prio = want.prio) /\ (k # "tsop" => nw.tsop = want.tsop)
      /\ nw.filter = want.filter /\ nw.range = want.range
  BY <1>6, Zenon DEF WantFields, Says
<1> QED
  BY <1>2, <1>3, <1>4, <1>5, <1>6, <1>7, Zenon DEF Good, Says

\* A write of the enabled interrupts.
LEMMA IntsChange ==
  ASSUME NEW regs, NEW want, Good(regs, want), NEW word, NEW new,
         Wrote(regs, new, "int_ena_set", word),
         NEW nw, SameWant(want, nw, {"ints", "berr"}), IntsGood(word, nw.ints, nw.berr)
  PROVE  Good(new, nw)
<1> DEFINE r == "int_ena_set"
<1>1. IsRegs(regs) /\ r \in RegNames /\ r # "mode_settings"
  BY Zenon DEF Good, RegNames
<1>2. IsRegs(new)
  BY <1>1, KeptRegs, Zenon
<1>3. new[r] = word /\ \A q \in RegNames : q # r => new[q] = regs[q]
  BY <1>1, Kept
<1>4. FiltersGood(new, want.filter)
  <2>1. \A q \in FilterRegs : new[q] = regs[q]
    BY <1>3, Zenon DEF FilterRegs, RegNames
  <2> QED
    BY <2>1, FiltersKept, ZenonT(60) DEF Good
<1>5. /\ new.mode_settings = regs.mode_settings
      /\ new.btr = regs.btr /\ new.btr_fd = regs.btr_fd /\ new.trv_delay_ssp_cfg = regs.trv_delay_ssp_cfg
      /\ new.ewl_erp_fault_state = regs.ewl_erp_fault_state
      /\ new.tx_priority = regs.tx_priority
      /\ new.rx_status_rx_settings = regs.rx_status_rx_settings
      /\ new.int_mask_set = regs.int_mask_set
      /\ new.filter_control_filter_status = regs.filter_control_filter_status
      /\ new.filter_ran_low = regs.filter_ran_low /\ new.filter_ran_high = regs.filter_ran_high
  BY <1>3, Zenon DEF RegNames
<1>6. /\ IsWant(nw) /\ nw.ena = want.ena /\ nw.modes = want.modes /\ nw.ret = want.ret
      /\ nw.masked = want.masked /\ nw.nbt = want.nbt /\ nw.dbt = want.dbt /\ nw.ssp = want.ssp
      /\ nw.prio = want.prio /\ nw.tsop = want.tsop /\ nw.filter = want.filter
      /\ nw.range = want.range
  BY Zenon DEF SameWant, WantFields
<1> QED
  BY <1>2, <1>3, <1>4, <1>5, <1>6, Zenon DEF Good

\* Every filter is there.
LEMMA SupportedFilters ==
  ASSUME NEW regs, Supported(regs.filter_control_filter_status), NEW f \in Filters
  PROVE  get_mask_filter_support(regs, f)
<1> DEFINE R == "filter_control_filter_status"
<1>1. \A b, g : b \in Int /\ FieldAt(R, g, b, b) => GetAt(regs[R], Place[R][g]) = {c - b : c \in regs[R] \cap {b}}
  BY OneBit, Zenon DEF GetAt, FieldAt
<1>2. ASSUME NEW b, NEW g, b \in Int, FieldAt(R, g, b, b), b \in regs[R]
      PROVE  GetAt(regs[R], Place[R][g]) # {}
  <2>1. GetAt(regs[R], Place[R][g]) = {c - b : c \in regs[R] \cap {b}}
    BY <1>1, <1>2, Zenon
  <2>2. b - b \in {c - b : c \in regs[R] \cap {b}}
    BY <1>2, Zenon
  <2> QED
    BY <2>1, <2>2, Zenon
<1>3. 16 \in regs[R] /\ 17 \in regs[R] /\ 18 \in regs[R]
  BY Zenon DEF Supported
<1>4. /\ GetAt(regs[R], Place[R]["sfa"]) # {} /\ GetAt(regs[R], Place[R]["sfb"]) # {}
      /\ GetAt(regs[R], Place[R]["sfc"]) # {}
  BY <1>2, <1>3, FilterLayout
<1>5. FilterSupport[f] \in {"sfa", "sfb", "sfc"}
  BY DEF Filters, FilterSupport
<1> QED
  BY <1>4, <1>5, Zenon DEF get_mask_filter_support, Is, Get

\* FilterOn is a truth value.
LEMMA FilterOnBoolean ==
  ASSUME NEW f, NEW w
  PROVE  FilterOn(f, w) \in BOOLEAN
  BY Zenon DEF FilterOn

\* The three writes that set a filter.
LEMMA ThreeWrites ==
  ASSUME NEW regs, IsRegs(regs), NEW f, NEW on, NEW r2 \in Plain, NEW r3 \in Plain, r2 # r3,
         r2 \notin {"btr", "btr_fd", "trv_delay_ssp_cfg"}, r3 \notin {"btr", "btr_fd", "trv_delay_ssp_cfg"},
         NEW w2, NEW w3, NEW new,
         new = write_reg(write_reg(write_reg(regs, "filter_control_filter_status",
                                             FilterControl(regs, f, on)), r2, w2), r3, w3)
  PROVE  /\ IsRegs(new) /\ new[r2] = w2 /\ new[r3] = w3
         /\ new["filter_control_filter_status"] =
              (regs.filter_control_filter_status \cap 16..31) \cup (FilterControl(regs, f, on) \cap 0..15)
         /\ \A q \in RegNames : q \notin {"filter_control_filter_status", r2, r3} => new[q] = regs[q]
<1> DEFINE R  == "filter_control_filter_status"
           W  == (regs.filter_control_filter_status \cap 16..31) \cup (FilterControl(regs, f, on) \cap 0..15)
           n1 == write_reg(regs, R, FilterControl(regs, f, on))
           n2 == write_reg(n1, r2, w2)
<1>1. R \in RegNames /\ r2 \in RegNames /\ r3 \in RegNames
  BY Zenon DEF RegNames, Plain
<1>2. r2 # R /\ r3 # R /\ r2 # "mode_settings" /\ r3 # "mode_settings"
  BY Zenon DEF Plain
<1>3. Wrote(regs, n1, R, W)
  BY WriteHalf, Zenon
<1>4. new = write_reg(n2, r3, w3)
  BY Zenon
<1> HIDE DEF n1, W
<1>5. IsRegs(n1) /\ n1[R] = W /\ \A q \in RegNames : q # R => n1[q] = regs[q]
  BY <1>1, <1>3, Kept, KeptRegs
<1>6. Wrote(n1, n2, r2, w2)
  BY <1>5, WritePlain, Zenon DEF n2
<1> HIDE DEF n2
<1>7. IsRegs(n2) /\ n2[r2] = w2 /\ \A q \in RegNames : q # r2 => n2[q] = n1[q]
  BY <1>1, <1>2, <1>5, <1>6, Kept, KeptRegs
<1>8. Wrote(n2, new, r3, w3)
  BY <1>4, <1>7, WritePlain, Zenon
<1>9. IsRegs(new) /\ new[r3] = w3 /\ \A q \in RegNames : q # r3 => new[q] = n2[q]
  BY <1>1, <1>2, <1>7, <1>8, Kept, KeptRegs
<1> QED
  BY <1>1, <1>2, <1>5, <1>7, <1>9, Zenon DEF W

\* What filters do not touch.
LEMMA FilterChange ==
  ASSUME NEW regs, NEW want, Good(regs, want), NEW new, IsRegs(new),
         \A q \in RegNames : q \notin FilterRegs \cup {"filter_ran_low", "filter_ran_high"} => new[q] = regs[q],
         NEW nw, SameWant(want, nw, {"filter", "range"}), FiltersGood(new, nw.filter),
         RangeGood(new.filter_control_filter_status, new.filter_ran_low, new.filter_ran_high, nw.range)
  PROVE  Good(new, nw)
<1>1. /\ new.mode_settings = regs.mode_settings /\ new.btr = regs.btr
      /\ new.btr_fd = regs.btr_fd /\ new.trv_delay_ssp_cfg = regs.trv_delay_ssp_cfg
      /\ new.ewl_erp_fault_state = regs.ewl_erp_fault_state /\ new.tx_priority = regs.tx_priority
      /\ new.rx_status_rx_settings = regs.rx_status_rx_settings /\ new.int_ena_set = regs.int_ena_set
      /\ new.int_mask_set = regs.int_mask_set
  BY Zenon DEF RegNames, FilterRegs
<1>2. /\ IsWant(nw) /\ nw.ena = want.ena /\ nw.modes = want.modes
      /\ nw.ret = want.ret /\ nw.ints = want.ints /\ nw.berr = want.berr /\ nw.masked = want.masked
      /\ nw.nbt = want.nbt /\ nw.dbt = want.dbt /\ nw.ssp = want.ssp
      /\ nw.prio = want.prio /\ nw.tsop = want.tsop
  BY Zenon DEF SameWant, WantFields
<1> QED
  BY <1>1, <1>2, Zenon DEF Good

\* ctucan_hw_set_mask_filter sets one filter and leaves the others.
LEMMA MaskFilterGood ==
  ASSUME NEW regs, NEW want, Good(regs, want), NEW f \in Filters, NEW a, a.on \in BOOLEAN
  PROVE  Good(set_mask_filter(regs, f, a.on, a), [want EXCEPT !.filter[f] = a])
<1> DEFINE R   == "filter_control_filter_status"
           old == regs.filter_control_filter_status
           new == set_mask_filter(regs, f, a.on, a)
           nw  == [want EXCEPT !.filter[f] = a]
           M   == FilterMask[f]
           V   == FilterVal[f]
<1>1. IsRegs(regs) /\ IsWant(want) /\ FiltersGood(regs, want.filter) /\ Supported(old)
  BY Zenon DEF Good, FiltersGood
<1>2. new = write_reg(write_reg(write_reg(regs, R, FilterControl(regs, f, a.on)), M, id_to_hwid(a.can_id)),
                      V, id_to_hwid(a.can_mask))
  BY <1>1, SupportedFilters, Zenon DEF set_mask_filter
<1>3. /\ M \in Plain /\ V \in Plain /\ M # V
      /\ M \notin {"btr", "btr_fd", "trv_delay_ssp_cfg"} /\ V \notin {"btr", "btr_fd", "trv_delay_ssp_cfg"}
      /\ M \in FilterRegs /\ V \in FilterRegs
  BY DEF Filters, FilterMask, FilterVal, Plain, FilterRegs
<1>4. /\ nw.filter = [want.filter EXCEPT ![f] = a] /\ nw.range = want.range
      /\ SameWant(want, nw, {"filter", "range"})
  BY <1>1, Zenon DEF IsWant, WantFields, SameWant
<1> HIDE DEF new, nw
<1> DEFINE W == (old \cap 16..31) \cup (FilterControl(regs, f, a.on) \cap 0..15)
<1>5. /\ IsRegs(new) /\ new[M] = id_to_hwid(a.can_id) /\ new[V] = id_to_hwid(a.can_mask) /\ new[R] = W
      /\ \A q \in RegNames : q \notin {R, M, V} => new[q] = regs[q]
  BY <1>1, <1>2, <1>3, ThreeWrites
<1>6. f \in DOMAIN FilterBits
  BY FilterNames, Zenon
<1>7. /\ Supported(W) /\ (FilterOn(f, W) <=> a.on)
      /\ \A g \in DOMAIN FilterBits \ {f} : FilterOn(g, W) <=> FilterOn(g, old)
  BY <1>1, <1>6, FilterWord, SMTT(30)
<1> HIDE DEF W, M, V
<1>8. FilterOn(f, W) = a.on /\ \A g \in DOMAIN FilterBits \ {f} : FilterOn(g, W) = FilterOn(g, old)
  BY <1>7, FilterOnBoolean, Zenon
<1>9. FiltersGood(new, nw.filter)
  <2>1. want.filter = [g \in Filters |-> want.filter[g]]
    BY <1>1, Zenon DEF FiltersGood
  <2>2. nw.filter = [g \in Filters |-> nw.filter[g]] /\ nw.filter[f] = a
        /\ \A g \in Filters : g # f => nw.filter[g] = want.filter[g]
    BY <1>4, <2>1, Zenon
  <2>3. FilterGood(f, W, new[FilterMask[f]], new[FilterVal[f]], nw.filter[f])
    BY <1>5, <1>8, <2>2, Zenon DEF FilterGood, M, V
  <2>4. ASSUME NEW g \in Filters, g # f
        PROVE  FilterGood(g, W, new[FilterMask[g]], new[FilterVal[g]], nw.filter[g])
    <3>1. FilterGood(g, old, regs[FilterMask[g]], regs[FilterVal[g]], want.filter[g])
      BY <1>1, Zenon DEF FiltersGood
    <3>2. new[FilterMask[g]] = regs[FilterMask[g]] /\ new[FilterVal[g]] = regs[FilterVal[g]]
      <4>1. /\ FilterMask[g] \in RegNames /\ FilterMask[g] \notin {R, M, V}
            /\ FilterVal[g] \in RegNames /\ FilterVal[g] \notin {R, M, V}
        BY <2>4 DEF Filters, FilterMask, FilterVal, RegNames, M, V
      <4> QED
        BY <1>5, <4>1, Zenon
    <3>3. FilterOn(g, W) = FilterOn(g, old)
      BY <1>8, <2>4, FilterNames, Zenon
    <3> QED
      BY <2>2, <2>4, <3>1, <3>2, <3>3, Zenon DEF FilterGood
  <2> QED
    BY <1>5, <1>7, <2>2, <2>3, <2>4, Zenon DEF FiltersGood
<1>10. RangeGood(new.filter_control_filter_status, new.filter_ran_low, new.filter_ran_high, nw.range)
  <2>1. new.filter_ran_low = regs.filter_ran_low /\ new.filter_ran_high = regs.filter_ran_high
    <3>1. \A q \in {"filter_ran_low", "filter_ran_high"} : q \in RegNames /\ q \notin {R, M, V}
      BY <1>3, Zenon DEF RegNames, FilterRegs
    <3> QED
      BY <1>5, <3>1, Zenon
  <2>2. FilterOn("r", W) = FilterOn("r", old)
    BY <1>8, FilterNames, Zenon
  <2> QED
    BY <1>4, <1>5, <2>1, <2>2, Zenon DEF Good, RangeGood
<1>11. \A q \in RegNames : q \notin FilterRegs \cup {"filter_ran_low", "filter_ran_high"} => new[q] = regs[q]
  BY <1>3, <1>5, Zenon DEF FilterRegs
<1> QED
  BY <1>4, <1>5, <1>9, <1>10, <1>11, FilterChange, Zenon DEF new, nw

\* ctucan_hw_set_range_filter leaves the mask filters.
LEMMA RangeFilterGood ==
  ASSUME NEW regs, NEW want, Good(regs, want), NEW low, NEW high, NEW on \in BOOLEAN
  PROVE  Good(set_range_filter(regs, low, high, on),
              [want EXCEPT !.range = [on |-> on, low |-> id_to_hwid(low), high |-> id_to_hwid(high)]])
<1> DEFINE R   == "filter_control_filter_status"
           old == regs.filter_control_filter_status
           new == set_range_filter(regs, low, high, on)
           x   == [on |-> on, low |-> id_to_hwid(low), high |-> id_to_hwid(high)]
           nw  == [want EXCEPT !.range = x]
           M   == "filter_ran_low"
           V   == "filter_ran_high"
<1>1. IsRegs(regs) /\ IsWant(want) /\ FiltersGood(regs, want.filter) /\ Supported(old)
  BY Zenon DEF Good, FiltersGood
<1>2. new = write_reg(write_reg(write_reg(regs, R, FilterControl(regs, "r", on)), M, id_to_hwid(low)),
                      V, id_to_hwid(high))
  BY Zenon DEF set_range_filter
<1>3. /\ M \in Plain /\ V \in Plain /\ M # V
      /\ M \notin {"btr", "btr_fd", "trv_delay_ssp_cfg"} /\ V \notin {"btr", "btr_fd", "trv_delay_ssp_cfg"}
  BY Zenon DEF Plain
<1>4. nw.filter = want.filter /\ nw.range = x /\ SameWant(want, nw, {"filter", "range"})
  <2> HIDE DEF x
  <2> QED
    BY <1>1, Zenon DEF IsWant, WantFields, SameWant
<1> HIDE DEF new, nw
<1> DEFINE W == (old \cap 16..31) \cup (FilterControl(regs, "r", on) \cap 0..15)
<1>5. /\ IsRegs(new) /\ new[M] = id_to_hwid(low) /\ new[V] = id_to_hwid(high) /\ new[R] = W
      /\ \A q \in RegNames : q \notin {R, M, V} => new[q] = regs[q]
  BY <1>1, <1>2, <1>3, ThreeWrites
<1>6. "r" \in DOMAIN FilterBits
  BY FilterNames, Zenon
<1>7. /\ Supported(W) /\ (FilterOn("r", W) <=> on)
      /\ \A g \in DOMAIN FilterBits \ {"r"} : FilterOn(g, W) <=> FilterOn(g, old)
  BY <1>1, <1>6, FilterWord
<1> HIDE DEF W
<1>8. FilterOn("r", W) = on /\ \A g \in DOMAIN FilterBits \ {"r"} : FilterOn(g, W) = FilterOn(g, old)
  BY <1>7, FilterOnBoolean, Zenon
<1>9. FiltersGood(new, nw.filter)
  <2>1. \A g \in Filters : new[FilterMask[g]] = regs[FilterMask[g]] /\ new[FilterVal[g]] = regs[FilterVal[g]]
    <3>1. \A g \in Filters : /\ FilterMask[g] \in RegNames /\ FilterMask[g] \notin {R, M, V}
                           /\ FilterVal[g] \in RegNames /\ FilterVal[g] \notin {R, M, V}
      BY DEF Filters, FilterMask, FilterVal, RegNames
    <3> QED
      BY <1>5, <3>1, Zenon
  <2>2. \A g \in Filters : FilterOn(g, W) = FilterOn(g, old)
    BY <1>8, FilterNames, Zenon
  <2> QED
    BY <1>1, <1>4, <1>5, <1>7, <2>1, <2>2, ZenonT(60) DEF FiltersGood, FilterGood
<1>10. RangeGood(new.filter_control_filter_status, new.filter_ran_low, new.filter_ran_high, nw.range)
  BY <1>4, <1>5, <1>8, Zenon DEF RangeGood
<1>11. \A q \in RegNames : q \notin FilterRegs \cup {"filter_ran_low", "filter_ran_high"} => new[q] = regs[q]
  BY <1>5, Zenon DEF FilterRegs
<1> QED
  BY <1>4, <1>5, <1>9, <1>10, <1>11, FilterChange, Zenon DEF new, nw

-----------------------------------------------------------------------------
(* The other calls                                                          *)

\* ctucan_hw_enable.
LEMMA EnableGood ==
  ASSUME NEW regs, NEW want, Good(regs, want), NEW on \in BOOLEAN
  PROVE  Good(hw_enable(regs, on), [want EXCEPT !.ena = on])
<1> DEFINE word == Put(regs.mode_settings, "mode_settings", "ena", Enabled(on))
           nw   == [want EXCEPT !.ena = on]
<1>1. IsRegs(regs) /\ IsWant(want) /\ Calm(regs.mode_settings)
  BY Zenon DEF Good, IsRegs
<1>2. /\ Calm(word) /\ (EnaOf(word) <=> on) /\ ModesOf(word) = ModesOf(regs.mode_settings)
      /\ RetOf(word) = RetOf(regs.mode_settings)
  BY <1>1, EnableWord, Zenon
<1>3. nw.ena = on /\ SameWant(want, nw, {"ena", "modes", "ret"}) /\ nw.modes = want.modes /\ nw.ret = want.ret
  BY <1>1, Zenon DEF IsWant, WantFields, SameWant
<1> HIDE DEF word, nw
<1>4. on = EnaOf(word)
  BY <1>2, Zenon DEF EnaOf
<1>5. ModeGood(word, nw.ena, nw.modes, nw.ret)
  BY <1>2, <1>3, <1>4, Zenon DEF Good, ModeGood
<1>6. Wrote(regs, hw_enable(regs, on), "mode_settings", word)
  BY <1>1, <1>2, WriteMode, Zenon DEF hw_enable, word
<1> QED
  BY <1>2, <1>3, <1>5, <1>6, ModeChange, Zenon DEF nw

\* ctucan_hw_set_ret_limit: a limit above 15 is refused.
LEMMA RetLimitGood ==
  ASSUME NEW regs, NEW want, Good(regs, want), NEW on \in BOOLEAN, NEW limit \in Nat
  PROVE  Good(set_ret_limit(regs, on, limit),
              IF limit > 15 THEN want ELSE [want EXCEPT !.ret = <<IF on THEN 1 ELSE 0, limit>>])
<1> DEFINE word == RetPut(regs.mode_settings, on, limit)
           x    == RetAsked(on, limit)
           nw   == [want EXCEPT !.ret = x]
<1>1. IsRegs(regs) /\ IsWant(want) /\ Calm(regs.mode_settings)
  BY Zenon DEF Good, IsRegs
<1>2. CASE limit > 15
  BY <1>2, Zenon DEF set_ret_limit
<1>3. CASE ~(limit > 15)
  <2>1. limit \in 0..15
    BY <1>3
  <2>2. /\ Calm(word) /\ (EnaOf(word) <=> EnaOf(regs.mode_settings))
        /\ ModesOf(word) = ModesOf(regs.mode_settings) /\ RetOf(word) = x
    <3>1. ASSUME NEW W, W = RetPut(regs.mode_settings, on, limit)
          PROVE  /\ Calm(W) /\ (EnaOf(W) <=> EnaOf(regs.mode_settings))
                 /\ ModesOf(W) = ModesOf(regs.mode_settings) /\ RetOf(W) = RetAsked(on, limit)
      <4>1. \A w, n : Calm(w) /\ n \in 0..15 /\ W = RetPut(w, on, n) =>
              /\ Calm(W) /\ (EnaOf(W) <=> EnaOf(w)) /\ ModesOf(W) = ModesOf(w) /\ RetOf(W) = RetAsked(on, n)
        BY RetWord, ZenonT(60)
      <4> QED
        BY <1>1, <2>1, <3>1, <4>1, Zenon
    <3> QED
      BY <3>1, Zenon
  <2>3. set_ret_limit(regs, on, limit) = write_reg(regs, "mode_settings", word)
    BY <1>3, Zenon DEF set_ret_limit, RetPut
  <2> HIDE DEF word, x
  <2>4. /\ nw.ret = x
        /\ SameWant(want, nw, {"ena", "modes", "ret"})
        /\ nw.modes = want.modes
        /\ nw.ena = want.ena
    BY <1>1, Zenon DEF IsWant, WantFields, SameWant
  <2> HIDE DEF nw
  <2>5. EnaOf(word) = EnaOf(regs.mode_settings)
    BY <2>2, Zenon DEF EnaOf
  <2>6. ModeGood(word, nw.ena, nw.modes, nw.ret)
    BY <2>2, <2>4, <2>5, Zenon DEF Good, ModeGood
  <2>7. Wrote(regs, set_ret_limit(regs, on, limit), "mode_settings", word)
    BY <1>1, <2>2, <2>3, WriteMode, Zenon
  <2>8. Good(set_ret_limit(regs, on, limit), nw)
    BY <2>2, <2>4, <2>6, <2>7, ModeChange, Zenon
  <2>9. (IF limit > 15 THEN want ELSE [want EXCEPT !.ret = <<IF on THEN 1 ELSE 0, limit>>]) = nw
    BY <1>3, Zenon DEF nw, x, RetAsked
  <2> QED
    BY <2>8, <2>9, Zenon
<1> QED
  BY <1>2, <1>3, Zenon

\* ctucan_hw_set_mode_reg.
LEMMA ModeRegGood ==
  ASSUME NEW regs, NEW want, Good(regs, want), NEW mask, NEW flags
  PROVE  Good(set_mode_reg(regs, mask, flags),
              [want EXCEPT !.modes = (@ \ mask) \cup (mask \cap flags \cap DOMAIN ModeField)])
<1> DEFINE old  == regs.mode_settings
           word == ModesPut(old, mask, flags)
           x    == ModesAsked(want.modes, mask, flags)
           nw   == [want EXCEPT !.modes = x]
<1>1. IsRegs(regs) /\ IsWant(want) /\ Calm(old) /\ want.modes = ModesOf(old)
  BY Zenon DEF Good, IsRegs, ModeGood
<1>2. /\ Calm(word) /\ (EnaOf(word) <=> EnaOf(old)) /\ RetOf(word) = RetOf(old)
      /\ ModesOf(word) = ModesAsked(ModesOf(old), mask, flags)
  <2>1. Calm(word)
    BY <1>1, ModesWord, Zenon
  <2>2. EnaOf(word) <=> EnaOf(old)
    BY <1>1, ModesWord
  <2>3. RetOf(word) = RetOf(old)
    BY <1>1, ModesWord
  <2>4. ModesOf(word) = ModesAsked(ModesOf(old), mask, flags)
    BY <1>1, ModesWord
  <2> QED
    BY <2>1, <2>2, <2>3, <2>4, Zenon
<1>3. set_mode_reg(regs, mask, flags) = write_reg(regs, "mode_settings", word)
  BY Zenon DEF set_mode_reg, ModesPut
<1>4. ModesOf(word) = x
  BY <1>1, <1>2, Zenon
<1> HIDE DEF word, x
<1>5. nw.modes = x /\ SameWant(want, nw, {"ena", "modes", "ret"}) /\ nw.ret = want.ret /\ nw.ena = want.ena
  BY <1>1, Zenon DEF IsWant, WantFields, SameWant
<1> HIDE DEF nw
<1>6. EnaOf(word) = EnaOf(old)
  BY <1>2, Zenon DEF EnaOf
<1>7. ModeGood(word, nw.ena, nw.modes, nw.ret)
  BY <1>2, <1>4, <1>5, <1>6, Zenon DEF Good, ModeGood
<1>8. Wrote(regs, set_mode_reg(regs, mask, flags), "mode_settings", word)
  BY <1>1, <1>2, <1>3, WriteMode, Zenon
<1>9. Good(set_mode_reg(regs, mask, flags), nw)
  BY <1>2, <1>5, <1>7, <1>8, ModeChange, Zenon
<1> QED
  BY <1>9, Zenon DEF nw, x, ModesAsked

\* ctucan_hw_int_conf for the enable register: two writes.
LEMMA IntEnaWrites ==
  ASSUME NEW regs, IsRegs(regs), NEW mask, NEW val
  PROVE  Wrote(regs, hw_int_ena(regs, mask, val), "int_ena_set",
               (regs.int_ena_set \ mask) \cup (mask \cap val))
<1> DEFINE R   == "int_ena_set"
           n1  == write_reg(regs, R, mask \cap val)
           new == write_reg(n1, "int_ena_clr", mask \ val)
<1>1. Wrote(regs, n1, R, regs.int_ena_set \cup (mask \cap val))
  BY WriteInts, Zenon
<1>2. R \in RegNames
  BY Zenon DEF RegNames
<1> HIDE DEF n1
<1>3. IsRegs(n1) /\ n1[R] = regs.int_ena_set \cup (mask \cap val)
  BY <1>1, <1>2, Kept, KeptRegs
<1>4. Wrote(n1, new, R, n1.int_ena_set \ (mask \ val))
  BY <1>3, WriteInts, Zenon
<1> HIDE DEF new
<1>5. n1.int_ena_set \ (mask \ val) = (regs.int_ena_set \ mask) \cup (mask \cap val)
  BY <1>3, Zenon
<1>6. Wrote(regs, new, R, (regs.int_ena_set \ mask) \cup (mask \cap val))
  BY <1>1, <1>4, <1>5, Zenon DEF Wrote
<1> QED
  BY <1>6, Zenon DEF new, n1, hw_int_ena

\* The interrupts in mask are enabled and disabled as val says.
LEMMA IntGood ==
  ASSUME NEW regs, NEW want, Good(regs, want), NEW mask, NEW val
  PROVE  /\ Good(hw_int_ena(regs, mask, val), [want EXCEPT !.ints = (@ \ mask) \cup (mask \cap val)])
         /\ Good(hw_int_mask(regs, mask, val), [want EXCEPT !.masked = (@ \ mask) \cup (mask \cap val)])
<1>1. IsRegs(regs) /\ IsWant(want)
  BY Zenon DEF Good
<1>2. Good(hw_int_ena(regs, mask, val), [want EXCEPT !.ints = (@ \ mask) \cup (mask \cap val)])
  <2> DEFINE x   == (want.ints \ mask) \cup (mask \cap val)
             y   == (regs.int_ena_set \ mask) \cup (mask \cap val)
             nw  == [want EXCEPT !.ints = x]
             new == hw_int_ena(regs, mask, val)
  <2>1. Wrote(regs, new, "int_ena_set", y)
    BY <1>1, IntEnaWrites, Zenon
  <2>2. IntsGood(y, x, want.berr)
    <3>1. IntsGood(regs.int_ena_set, want.ints, want.berr)
      BY Zenon DEF Good
    <3> QED
      BY <3>1, Zenon DEF IntsGood
  <2> HIDE DEF x, y, new
  <2>3. SameWant(want, nw, {"ints", "berr"}) /\ nw.ints = x /\ nw.berr = want.berr
    BY <1>1, Zenon DEF IsWant, WantFields, SameWant
  <2> HIDE DEF nw
  <2>4. Good(new, nw)
    BY <2>1, <2>2, <2>3, IntsChange, Zenon
  <2> QED
    BY <2>4, Zenon DEF new, nw, x
<1>3. Good(hw_int_mask(regs, mask, val), [want EXCEPT !.masked = (@ \ mask) \cup (mask \cap val)])
  <2> DEFINE R   == "int_mask_set"
             n1  == write_reg(regs, R, mask \cap val)
             new == write_reg(n1, "int_mask_clr", mask \ val)
             x   == (want.masked \ mask) \cup (mask \cap val)
             nw  == [want EXCEPT !.masked = x]
  <2>1. Wrote(regs, n1, R, regs.int_mask_set \cup (mask \cap val))
    BY <1>1, WriteInts, Zenon
  <2>2. R \in RegNames
    BY Zenon DEF RegNames
  <2> HIDE DEF n1
  <2>3. IsRegs(n1) /\ n1[R] = regs.int_mask_set \cup (mask \cap val)
    BY <1>1, <2>1, <2>2, Kept, KeptRegs
  <2>4. Wrote(n1, new, R, n1.int_mask_set \ (mask \ val))
    BY <2>3, WriteInts, Zenon
  <2> HIDE DEF new
  <2>5. n1.int_mask_set \ (mask \ val) = (regs.int_mask_set \ mask) \cup (mask \cap val)
    BY <2>3, Zenon
  <2>6. Wrote(regs, new, R, (regs.int_mask_set \ mask) \cup (mask \cap val))
    BY <2>1, <2>4, <2>5, Zenon DEF Wrote
  <2>7. x = (regs.int_mask_set \ mask) \cup (mask \cap val)
    BY Zenon DEF Good
  <2> HIDE DEF x
  <2>8. SameWant(want, nw, {"masked"}) /\ nw["masked"] = x
    BY <1>1, Zenon DEF IsWant, WantFields, SameWant
  <2> HIDE DEF nw
  <2>9. Says(R, "masked", x, nw["masked"])
    BY <2>8, Zenon DEF Says
  <2>10. Good(new, nw)
    BY <2>6, <2>7, <2>8, <2>9, OneChange, Zenon
  <2> QED
    BY <2>10, Zenon DEF new, n1, nw, x, hw_int_mask
<1> QED
  BY <1>2, <1>3, Zenon

\* ctucan_hw_set_mode: the modes, the limit for ONE_SHOT and the bus error interrupt.
LEMMA SetModeGood ==
  ASSUME NEW regs, NEW want, Good(regs, want), NEW mask, NEW flags
  PROVE  Good(hw_set_mode(regs, mask, flags),
           [want EXCEPT
              !.modes = (@ \ mask) \cup (mask \cap flags \cap DOMAIN ModeField),
              !.ret   = IF "ONE_SHOT" \in mask THEN <<IF "ONE_SHOT" \in flags THEN 1 ELSE 0, 0>> ELSE @,
              !.ints  = (@ \ BusErrorInt(mask)) \cup BusErrorInt(mask \cap flags),
              !.berr  = @ \/ "BERR_REPORTING" \in mask])
<1> DEFINE bei == Place["int_stat"].bei
           one == "ONE_SHOT" \in flags
           ena == IF one THEN bei ELSE {}
           x   == (want.modes \ mask) \cup (mask \cap flags \cap DOMAIN ModeField)
           y   == <<IF one THEN 1 ELSE 0, 0>>
           r1  == set_mode_reg(regs, mask, flags)
           w1  == [want EXCEPT !.modes = x]
           r2  == IF "ONE_SHOT" \in mask THEN set_ret_limit(r1, one, 0) ELSE r1
           w2  == IF "ONE_SHOT" \in mask THEN [w1 EXCEPT !.ret = y] ELSE w1
           z   == (want.ints \ BusErrorInt(mask)) \cup BusErrorInt(mask \cap flags)
           r3  == IF "BERR_REPORTING" \in mask THEN hw_int_ena(r2, ena, bei) ELSE r2
           w3  == IF "BERR_REPORTING" \in mask THEN [w2 EXCEPT !.ints = z, !.berr = TRUE] ELSE w2
           all == [want EXCEPT
                     !.modes = x,
                     !.ret   = IF "ONE_SHOT" \in mask THEN y ELSE @,
                     !.ints  = z,
                     !.berr  = @ \/ "BERR_REPORTING" \in mask]
<1>1. Good(r1, w1)
  BY ModeRegGood, Zenon
<1>2. one \in BOOLEAN /\ 0 \in Nat /\ ~(0 > 15)
  OBVIOUS
<1> HIDE DEF r1, w1, one
<1>3. Good(set_ret_limit(r1, one, 0), [w1 EXCEPT !.ret = y])
  <2>1. Good(set_ret_limit(r1, one, 0), IF 0 > 15 THEN w1 ELSE [w1 EXCEPT !.ret = y])
    BY <1>1, <1>2, RetLimitGood, Zenon
  <2> QED
    BY <1>2, <2>1, Zenon
<1>4. Good(r2, w2)
  BY <1>1, <1>3, Zenon
<1>5. want = [k \in WantFields |-> want[k]] /\ want.berr \in BOOLEAN
  BY Zenon DEF Good, IsWant, IntsGood
<1>6. w2.ints = want.ints
  BY <1>5, Zenon DEF w1, WantFields
<1> HIDE DEF r2, w2
<1>7. ASSUME "BERR_REPORTING" \in mask
      PROVE  Good(hw_int_ena(r2, ena, bei), [w2 EXCEPT !.ints = z, !.berr = TRUE])
  <2> DEFINE nw   == [w2 EXCEPT !.ints = z, !.berr = TRUE]
             word == (r2.int_ena_set \ ena) \cup (ena \cap bei)
             new  == hw_int_ena(r2, ena, bei)
  <2>1. IsRegs(r2) /\ IsWant(w2) /\ IntsGood(r2.int_ena_set, w2.ints, w2.berr)
    BY <1>4, Zenon DEF Good
  <2>2. Wrote(r2, new, "int_ena_set", word)
    BY <2>1, IntEnaWrites, Zenon
  <2>3. \A i : i \notin bei => (i \in z <=> i \in word)
    BY <1>6, <1>7, <2>1, Zenon DEF IntsGood, BusErrorInt
  <2> HIDE DEF word, new, z
  <2>4. SameWant(w2, nw, {"ints", "berr"}) /\ nw.ints = z /\ nw.berr = TRUE
    BY <2>1, Zenon DEF IsWant, WantFields, SameWant
  <2>5. IntsGood(word, nw.ints, nw.berr)
    BY <2>3, <2>4, Zenon DEF IntsGood
  <2> HIDE DEF nw
  <2>6. Good(new, nw)
    BY <1>4, <2>2, <2>4, <2>5, IntsChange, Zenon
  <2> QED
    BY <2>6, Zenon DEF nw, new
<1>8. Good(r3, w3)
  BY <1>4, <1>7, Zenon
<1> HIDE DEF ena, bei
<1>9. r3 = hw_set_mode(regs, mask, flags)
  BY ZenonT(40) DEF hw_set_mode, r2, r1, one, ena, bei
<1>10. w3 = all
  <2>1. "BERR_REPORTING" \notin mask => z = want.ints
    BY Zenon DEF BusErrorInt
  <2> HIDE DEF x, y, z
  <2>2. CASE "BERR_REPORTING" \in mask
    BY <1>5, <2>2, Zenon DEF w2, w1, WantFields
  <2>3. CASE "BERR_REPORTING" \notin mask
    BY <1>5, <2>1, <2>3, Zenon DEF w2, w1, WantFields
  <2> QED
    BY <2>2, <2>3
<1> QED
  BY <1>8, <1>9, <1>10, Zenon DEF one

\* A call that writes one of the registers an enabled controller locks.
LEMMA LockedGood ==
  ASSUME NEW regs, NEW want, Good(regs, want), NEW r \in {"btr", "btr_fd", "trv_delay_ssp_cfg"},
         NEW k \in WantFields, NEW word, NEW x, Says(r, k, word, x)
  PROVE  Good(write_reg(regs, r, word), IF want.ena THEN want ELSE [want EXCEPT ![k] = x])
<1>1. IsRegs(regs) /\ IsWant(want) /\ want.ena \in BOOLEAN /\ want.ena = EnaOf(regs.mode_settings)
  BY Zenon DEF Good, ModeGood
<1>2. CASE want.ena
  <2>1. EnaOf(regs.mode_settings)
    BY <1>1, <1>2, Zenon
  <2>2. write_reg(regs, r, word) = regs
    BY <1>1, <2>1, WriteLocked, Zenon
  <2> QED
    BY <1>2, <2>2, Zenon
<1>3. CASE ~want.ena
  <2> DEFINE nw == [want EXCEPT ![k] = x]
  <2>1. r \in Plain
    BY Zenon DEF Plain
  <2>2. Wrote(regs, write_reg(regs, r, word), r, word)
    BY <1>1, <1>3, <2>1, WritePlain, Zenon
  <2>3. SameWant(want, nw, {k}) /\ nw[k] = x
    BY <1>1, Zenon DEF IsWant, SameWant
  <2> HIDE DEF nw
  <2>4. Good(write_reg(regs, r, word), nw)
    BY <2>2, <2>3, OneChange, Zenon
  <2> QED
    BY <1>3, <2>4, Zenon DEF nw
<1> QED
  BY <1>1, <1>2, <1>3, Zenon

\* ctucan_hw_set_nom_bittiming and ctucan_hw_set_data_bittiming.
LEMMA TimingGood ==
  ASSUME NEW regs, NEW want, Good(regs, want), NEW bt \in Calls.timing
  PROVE  /\ Good(set_nom_bittiming(regs, bt), IF want.ena THEN want ELSE [want EXCEPT !["nbt"] = Btr(bt, TRUE)])
         /\ Good(set_data_bittiming(regs, bt), IF want.ena THEN want ELSE [want EXCEPT !["dbt"] = Btr(bt, FALSE)])
<1>1. "nbt" \in WantFields /\ "dbt" \in WantFields
  BY Zenon DEF WantFields
<1>2. /\ Says("btr", "nbt", BtrWord(bt, TRUE), Btr(bt, TRUE))
      /\ Says("btr_fd", "dbt", BtrWord(bt, FALSE), Btr(bt, FALSE))
  <2>1. NbtOf(BtrWord(bt, TRUE)) = Btr(bt, TRUE)
    BY NbtWord, Zenon
  <2>2. DbtOf(BtrWord(bt, FALSE)) = Btr(bt, FALSE)
    BY DbtWord, Zenon
  <2> QED
    BY <2>1, <2>2, Zenon DEF Says
<1> QED
  BY <1>1, <1>2, LockedGood, Zenon DEF set_nom_bittiming, set_data_bittiming

\* ctucan_hw_configure_ssp.
LEMMA SspGood ==
  ASSUME NEW regs, NEW want, Good(regs, want), NEW a \in Calls.ssp
  PROVE  Good(configure_ssp(regs, a.enable, a.measure, a.offset),
           IF want.ena THEN want
           ELSE [want EXCEPT !.ssp = <<IF ~a.enable THEN 1 ELSE IF a.measure THEN 0 ELSE 2,
                                      FIELD_PREP(8, a.offset)>>])
<1> DEFINE src  == IF ~a.enable THEN 1 ELSE IF a.measure THEN 0 ELSE 2
           R    == "trv_delay_ssp_cfg"
           word == Word(R, [ssp_src |-> src, ssp_offset |-> a.offset])
           x    == <<src, FIELD_PREP(8, a.offset)>>
<1>1. src \in 0..3 /\ a.offset \in Nat
  BY CallsAssumption
<1>2. configure_ssp(regs, a.enable, a.measure, a.offset) = write_reg(regs, R, word)
  <2>1. /\ ssp_src_code.SSP_SRC_NO_SSP = 1 /\ ssp_src_code.SSP_SRC_MEAS_N_OFFSET = 0
        /\ ssp_src_code.SSP_SRC_OFFSET = 2
    BY Zenon DEF ssp_src_code
  <2> QED
    BY <2>1, Zenon DEF configure_ssp
<1> HIDE DEF src
<1>3. Says(R, "ssp", word, x)
  <2>1. SspOf(word) = x
    BY <1>1, SspWord, Zenon
  <2> QED
    BY <2>1, Zenon DEF Says
<1> HIDE DEF word, x
<1>4. "ssp" \in WantFields
  BY Zenon DEF WantFields
<1>5. Good(write_reg(regs, R, word), IF want.ena THEN want ELSE [want EXCEPT !["ssp"] = x])
  BY <1>3, <1>4, LockedGood, Zenon
<1> QED
  BY <1>2, <1>5, Zenon DEF x, src

\* The error limits and the counters, outside the test mode.
LEMMA ErrorLimitsGood ==
  ASSUME NEW regs, NEW want, Good(regs, want), NEW m, NEW n
  PROVE  set_err_limits(regs, m, n) = regs /\ set_err_ctrs(regs, m, n) = regs
<1>1. \A word : write_reg(regs, "ewl_erp_fault_state", word) = regs /\ write_reg(regs, "ctr_pres", word) = regs
  BY WriteLocked, Zenon DEF Good
<1> QED
  BY <1>1, Zenon DEF set_err_limits, set_err_ctrs

\* ctucan_hw_set_txt_priority.
LEMMA PriorityGood ==
  ASSUME NEW regs, NEW want, Good(regs, want), NEW p \in Calls.prio
  PROVE  Good(set_txt_priority(regs, p), [want EXCEPT !.prio = [k \in 1..4 |-> FIELD_PREP(3, p[k])]])
<1> DEFINE R    == "tx_priority"
           word == Word(R, [txt1p |-> p[1], txt2p |-> p[2], txt3p |-> p[3], txt4p |-> p[4]])
           x    == [k \in 1..4 |-> FIELD_PREP(3, p[k])]
           nw   == [want EXCEPT !.prio = x]
<1>1. IsRegs(regs) /\ IsWant(want) /\ R \in Plain /\ R \notin {"btr", "btr_fd", "trv_delay_ssp_cfg"}
  BY Zenon DEF Good, Plain
<1>2. PrioOf(word) = x
  BY PriorityWord, Zenon
<1>3. set_txt_priority(regs, p) = write_reg(regs, R, word)
  BY Zenon DEF set_txt_priority
<1> HIDE DEF word, x
<1>4. Wrote(regs, write_reg(regs, R, word), R, word)
  BY <1>1, WritePlain, Zenon
<1>5. SameWant(want, nw, {"prio"}) /\ nw["prio"] = x
  BY <1>1, Zenon DEF IsWant, WantFields, SameWant
<1> HIDE DEF nw
<1>6. Says(R, "prio", word, nw["prio"])
  BY <1>2, <1>5, Zenon DEF Says
<1>7. Good(write_reg(regs, R, word), nw)
  BY <1>4, <1>5, <1>6, OneChange, Zenon
<1> QED
  BY <1>3, <1>7, Zenon DEF nw, x

\* ctucan_hw_set_rx_tsop.
LEMMA TsopGood ==
  ASSUME NEW regs, NEW want, Good(regs, want), NEW v \in {0, 1}
  PROVE  Good(set_rx_tsop(regs, v), [want EXCEPT !.tsop = v])
<1> DEFINE R    == "rx_status_rx_settings"
           V    == Word(R, [rtsop |-> v])
           word == (regs.rx_status_rx_settings \cap 0..15) \cup (V \ 0..15)
           nw   == [want EXCEPT !.tsop = v]
<1>1. IsRegs(regs) /\ IsWant(want)
  BY Zenon DEF Good
<1>2. TsopOf(word) = v
  BY TsopWord, Zenon
<1>3. set_rx_tsop(regs, v) = write_reg(regs, R, V)
  BY Zenon DEF set_rx_tsop
<1> HIDE DEF V
<1>4. Wrote(regs, write_reg(regs, R, V), R, word)
  BY <1>1, WriteHalf, Zenon
<1> HIDE DEF word
<1>5. SameWant(want, nw, {"tsop"}) /\ nw["tsop"] = v
  BY <1>1, Zenon DEF IsWant, WantFields, SameWant
<1> HIDE DEF nw
<1>6. Says(R, "tsop", word, nw["tsop"])
  BY <1>2, <1>5, Zenon DEF Says
<1>7. Good(write_reg(regs, R, V), nw)
  BY <1>4, <1>5, <1>6, OneChange, Zenon
<1> QED
  BY <1>3, <1>7, Zenon DEF nw

\* A reset brings the registers and the requests to their first values (ctucan_hw_reset).
LEMMA ResetGood ==
  Good(ResetRegs, ResetWant) /\ ResetWant.txt = "TXT_ETY"
<1> DEFINE mode == ResetRegs.mode_settings
           fc   == ResetRegs.filter_control_filter_status
<1>1. IsRegs(ResetRegs)
  <2>1. OnRegs(ResetRegs)
    BY ResetFacts, Zenon DEF OnRegs
  <2>2. Calm(mode)
    BY ResetFacts DEF Calm
  <2> QED
    BY <2>1, <2>2, Zenon DEF IsRegs
<1>2. IsWant(ResetWant) /\ ResetWant.txt = "TXT_ETY"
  BY Zenon DEF IsWant, ResetWant, WantFields
<1>3. ModeGood(mode, ResetWant.ena, ResetWant.modes, ResetWant.ret)
  <2>1. /\ 22 \notin mode
        /\ 16 \notin mode
        /\ 4 \in mode
        /\ 1 \notin mode
        /\ 2 \notin mode
        /\ 21 \notin mode
        /\ 23 \notin mode
    BY ResetFacts
  <2>2. ResetWant.ena = FALSE /\ ResetWant.modes = {"FD"} /\ ResetWant.ret = <<0, 0>>
    BY Zenon DEF ResetWant
  <2>3. EnaOf(mode) = FALSE
    <3>1. ~EnaOf(mode)
      BY <2>1, ModeSays, Zenon
    <3> QED
      BY <3>1, Zenon DEF EnaOf
  <2>4. ModesOf(mode) = {"FD"}
    <3>1. ModesOf(mode) = {m \in DOMAIN ModeField : ModeBit[m] \in mode}
      BY ModeSays, Zenon
    <3>2. \A m \in DOMAIN ModeField : ModeBit[m] \in mode <=> m = "FD"
      BY <2>1 DEF ModeField, ModeBit
    <3>3. "FD" \in DOMAIN ModeField
      BY Zenon DEF ModeField
    <3> QED
      BY <3>1, <3>2, <3>3, Zenon
  <2>5. RetOf(mode) = <<0, 0>>
    <3>1. Field("mode_settings", "rtrle", mode) = 0
      BY <2>1, BitField, ModeLayout
    <3> QED
      BY <3>1, ResetFacts, Zenon DEF RetOf
  <2> QED
    BY <2>2, <2>3, <2>4, <2>5, Zenon DEF ModeGood
<1>4. TsopOf(ResetRegs.rx_status_rx_settings) = 0
  BY ResetFacts, BitField, RxSettingsLayout, SMTT(30) DEF TsopOf
<1>5. /\ ResetWant.ints = {} /\ ResetWant.berr = FALSE /\ ResetWant.masked = {} /\ ResetWant.tsop = 0
      /\ ResetWant.filter = [f \in Filters |-> [on |-> f = "a", can_id |-> {}, can_mask |-> {}]]
      /\ ResetWant.range = [on |-> FALSE, low |-> {}, high |-> {}]
  BY Zenon DEF ResetWant
<1>6. /\ FilterOn("a", fc) = TRUE /\ FilterOn("b", fc) = FALSE /\ FilterOn("c", fc) = FALSE
      /\ FilterOn("r", fc) = FALSE /\ Supported(fc)
  <2>1. /\ FilterBits["a"] \subseteq fc /\ ~(FilterBits["b"] \subseteq fc)
        /\ ~(FilterBits["c"] \subseteq fc) /\ ~(FilterBits["r"] \subseteq fc) /\ Supported(fc)
    <3>1. \A b \in 0..18 : b \in fc <=> b \in 0..3 \/ b \in 16..18
      BY ResetFacts
    <3>2. /\ 4 \in FilterBits["b"] /\ 4 \notin fc /\ 8 \in FilterBits["c"] /\ 8 \notin fc
          /\ 12 \in FilterBits["r"] /\ 12 \notin fc
      BY <3>1 DEF FilterBits
    <3>3. FilterBits["a"] \subseteq fc
      BY <3>1 DEF FilterBits
    <3>4. Supported(fc)
      BY <3>1 DEF Supported
    <3> QED
      BY <3>2, <3>3, <3>4, Zenon
  <2>2. \A f \in DOMAIN FilterBits : FilterOn(f, fc) <=> FilterBits[f] \subseteq fc
    BY FilterPlaces, Zenon
  <2>3. FilterOn("a", fc) /\ ~FilterOn("b", fc) /\ ~FilterOn("c", fc) /\ ~FilterOn("r", fc)
    BY <2>1, <2>2, FilterNames, Zenon
  <2> QED
    BY <2>1, <2>3, FilterOnBoolean, Zenon
<1>7. FiltersGood(ResetRegs, ResetWant.filter)
  <2>1. \A f \in Filters : FilterOn(f, fc) = (f = "a")
    BY <1>6, Zenon DEF Filters
  <2>2. \A f \in Filters : FilterGood(f, fc, ResetRegs[FilterMask[f]], ResetRegs[FilterVal[f]], ResetWant.filter[f])
    <3> SUFFICES ASSUME NEW f \in Filters
                 PROVE  FilterGood(f, fc, ResetRegs[FilterMask[f]], ResetRegs[FilterVal[f]], ResetWant.filter[f])
      BY Zenon
    <3>1. ResetWant.filter[f] = [on |-> f = "a", can_id |-> {}, can_mask |-> {}]
      BY <1>5, Zenon
    <3>2. ResetWant.filter[f].on = (f = "a") /\ ResetWant.filter[f].can_id = {} /\ ResetWant.filter[f].can_mask = {}
      BY <3>1
    <3> QED
      BY <2>1, <3>2, ResetFacts, ZenonT(40) DEF FilterGood
  <2> QED
    BY <1>5, <1>6, <2>2, Zenon DEF FiltersGood
<1>8. RangeGood(fc, ResetRegs.filter_ran_low, ResetRegs.filter_ran_high, ResetWant.range)
  BY <1>5, <1>6, ResetFacts, Zenon DEF RangeGood
<1>9. LimitsGood(ResetRegs.ewl_erp_fault_state)
  BY ResetFacts, SMT DEF LimitsGood
<1> HIDE DEF mode, fc
<1>10. /\ ResetRegs.int_ena_set = {} /\ ResetRegs.int_mask_set = {}
       /\ NbtOf(ResetRegs.btr) = ResetWant.nbt /\ DbtOf(ResetRegs.btr_fd) = ResetWant.dbt
       /\ SspOf(ResetRegs.trv_delay_ssp_cfg) = ResetWant.ssp
       /\ PrioOf(ResetRegs.tx_priority) = ResetWant.prio
  BY ResetFacts, SMTT(30)
<1>11. IntsGood(ResetRegs.int_ena_set, ResetWant.ints, ResetWant.berr)
  BY <1>5, <1>10, Zenon DEF IntsGood
<1> QED
  BY <1>1, <1>2, <1>3, <1>4, <1>5, <1>7, <1>8, <1>9, <1>10, <1>11, Zenon DEF Good, mode, fc

\* ctucan_hw_reset from any state of the registers.
LEMMA ResetCallGood ==
  ASSUME NEW regs, NEW want, Good(regs, want)
  PROVE  hw_reset(regs) = ResetRegs
<1>1. "mode_settings" \notin Locked(regs)
  BY LockedWhen DEF Good, IsRegs
<1> QED
  BY <1>1, SMTT(30) DEF hw_reset, write_reg

-----------------------------------------------------------------------------
(* Commands to the TXT buffers                                              *)

\* A command word names one command and one buffer (ctucan_hw_txt_buf_give_command).
LEMMA CommandWord ==
  ASSUME NEW n \in {0, 1}
  PROVE  /\ txt_set_empty(n) = {8 + n, 0} /\ txt_set_rdy(n) = {8 + n, 1} /\ txt_set_abort(n) = {8 + n, 2}
         /\ MaskOf["tx_command_txtb_info"]["txb1"] = {8} /\ MaskOf["tx_command_txtb_info"]["txce"] = {0}
         /\ MaskOf["tx_command_txtb_info"]["txcr"] = {1} /\ MaskOf["tx_command_txtb_info"]["txca"] = {2}
<1> DEFINE R == "tx_command_txtb_info"
<1>1. /\ MaskOf[R]["txb1"] = {8}
      /\ MaskOf[R]["txce"] = {0}
      /\ MaskOf[R]["txcr"] = {1}
      /\ MaskOf[R]["txca"] = {2}
  BY CommandLayout DEF FieldAt
<1>2. /\ Place[R]["txb1"] = {8}
      /\ Place[R]["txce"] = {0}
      /\ Place[R]["txcr"] = {1}
      /\ Place[R]["txca"] = {2}
  BY CommandLayout DEF FieldAt
<1>3. {b + n : b \in Place[R].txb1} = {8 + n}
  BY <1>2, Zenon
<1> QED
  BY <1>1, <1>2, <1>3, Zenon DEF txt_set_empty, txt_set_rdy, txt_set_abort, give_command

\* What the commands do to buffer 1.
LEMMA CommandDoes ==
  ASSUME dev.bus_off = FALSE, NEW n \in {0, 1}
  PROVE  /\ dev.txt \in {"TXT_ETY", "TXT_ABT"} =>
              /\ Command(txt_set_rdy(n)) = IF n = 0 THEN "TXT_RDY" ELSE dev.txt
              /\ Command(txt_set_empty(n)) = IF n = 0 THEN "TXT_ETY" ELSE dev.txt
         /\ dev.txt = "TXT_RDY" => Command(txt_set_abort(n)) = IF n = 0 THEN "TXT_ABT" ELSE dev.txt
<1> DEFINE R == "tx_command_txtb_info"
<1>1. /\ MaskOf[R]["txb1"] \subseteq txt_set_rdy(n) <=> n = 0
      /\ MaskOf[R]["txb1"] \subseteq txt_set_empty(n) <=> n = 0
      /\ MaskOf[R]["txb1"] \subseteq txt_set_abort(n) <=> n = 0
  BY CommandWord
<1>2. /\ MaskOf[R]["txcr"] \subseteq txt_set_rdy(n)
      /\ ~(MaskOf[R]["txcr"] \subseteq txt_set_empty(n)) /\ MaskOf[R]["txce"] \subseteq txt_set_empty(n)
      /\ ~(MaskOf[R]["txcr"] \subseteq txt_set_abort(n)) /\ ~(MaskOf[R]["txce"] \subseteq txt_set_abort(n))
      /\ MaskOf[R]["txca"] \subseteq txt_set_abort(n)
  BY CommandWord
<1> QED
  BY <1>1, <1>2, Zenon DEF Command

-----------------------------------------------------------------------------
(* Every call keeps the invariant                                           *)

\* A step after which the registers and the requests agree.
LEMMA StepGood ==
  ASSUME ClientInv, NEW regs, NEW txt, NEW want, Good(regs, want), want.txt = txt,
         txt \in {"TXT_ETY", "TXT_RDY", "TXT_ABT"},
         ClientStep([dev EXCEPT !.regs = regs, !.txt = txt], want)
  PROVE  ClientInv'
<1>1. /\ dev' = [dev EXCEPT !.regs = regs, !.txt = txt]
      /\ prog' = [prog EXCEPT !.calls = @ + 1, !.want = want]
  BY Zenon DEF ClientStep
<1>2. IsDev(dev') /\ dev'.regs = regs /\ dev'.txt = txt
  BY <1>1, Zenon DEF ClientInv, IsDev, DevFields
<1>3. IsClient(prog') /\ prog'.want = want
  BY <1>1, Zenon DEF ClientInv, IsClient
<1>4. Good(dev'.regs, prog'.want) /\ prog'.want.txt = dev'.txt /\ dev'.txt \in {"TXT_ETY", "TXT_RDY", "TXT_ABT"}
  BY <1>2, <1>3, Zenon
<1> QED
  BY <1>2, <1>3, <1>4, Zenon DEF ClientInv

\* A call that leaves the buffers.
LEMMA CallGood ==
  ASSUME ClientInv, NEW regs, NEW want, Good(regs, want), want.txt = prog.want.txt, ClientCall(regs, want)
  PROVE  ClientInv'
<1>1. want.txt = dev.txt /\ dev.txt \in {"TXT_ETY", "TXT_RDY", "TXT_ABT"}
  BY Zenon DEF ClientInv
<1>2. [dev EXCEPT !.regs = regs] = [dev EXCEPT !.regs = regs, !.txt = dev.txt]
  BY Zenon DEF ClientInv, IsDev, DevFields
<1> QED
  BY <1>1, <1>2, StepGood, Zenon DEF ClientCall

\* A request that changes other fields leaves the buffer.
LEMMA SameTxt ==
  ASSUME NEW want, IsWant(want), NEW k \in WantFields, k # "txt", NEW x
  PROVE  [want EXCEPT ![k] = x].txt = want.txt
  BY Zenon DEF IsWant, WantFields

\* ctucan_hw_txt_set_rdy, ctucan_hw_txt_set_empty and ctucan_hw_txt_set_abort.
LEMMA CommandGood ==
  ASSUME ClientInv, CommandCall
  PROVE  ClientInv'
<1> DEFINE want == prog.want
<1>1. /\ Good(dev.regs, want) /\ IsWant(want) /\ dev.bus_off = FALSE /\ want.txt = dev.txt
      /\ dev.txt \in {"TXT_ETY", "TXT_RDY", "TXT_ABT"}
  BY Zenon DEF ClientInv, IsDev, Good
<1>2. ASSUME NEW txt, NEW t, t = txt, txt \in {"TXT_ETY", "TXT_RDY", "TXT_ABT"},
             ClientStep([dev EXCEPT !.txt = t], [want EXCEPT !.txt = txt])
      PROVE  ClientInv'
  <2> DEFINE nw == [want EXCEPT !.txt = txt]
  <2>1. nw.txt = txt /\ SameWant(want, nw, {"txt"})
    BY <1>1, Zenon DEF IsWant, WantFields, SameWant
  <2>2. ClientStep([dev EXCEPT !.txt = t], nw)
    BY <1>2, Zenon
  <2> HIDE DEF nw
  <2>3. Good(dev.regs, nw)
    <3>1. /\ IsWant(nw) /\ nw.ena = want.ena /\ nw.modes = want.modes /\ nw.ret = want.ret
          /\ nw.ints = want.ints /\ nw.berr = want.berr /\ nw.masked = want.masked /\ nw.nbt = want.nbt /\ nw.dbt = want.dbt
          /\ nw.ssp = want.ssp /\ nw.prio = want.prio /\ nw.tsop = want.tsop
          /\ nw.filter = want.filter /\ nw.range = want.range
      BY <2>1, Zenon DEF SameWant, WantFields
    <3> QED
      BY <1>1, <3>1, Zenon DEF Good
  <2>4. [dev EXCEPT !.txt = t] = [dev EXCEPT !.regs = dev.regs, !.txt = txt]
    BY <1>2, Zenon DEF ClientInv, IsDev, DevFields
  <2> QED
    BY <1>2, <2>1, <2>2, <2>3, <2>4, StepGood, Zenon
<1>3. PICK n \in {0, 1} :
        \/ /\ dev.txt # "TXT_RDY"
           /\ ClientStep([dev EXCEPT !.txt = Command(txt_set_rdy(n))],
                         [want EXCEPT !.txt = IF n = 0 THEN "TXT_RDY" ELSE @])
        \/ /\ dev.txt # "TXT_RDY"
           /\ ClientStep([dev EXCEPT !.txt = Command(txt_set_empty(n))],
                         [want EXCEPT !.txt = IF n = 0 THEN "TXT_ETY" ELSE @])
        \/ /\ dev.txt = "TXT_RDY"
           /\ ClientStep([dev EXCEPT !.txt = Command(txt_set_abort(n))],
                         [want EXCEPT !.txt = IF n = 0 THEN "TXT_ABT" ELSE @])
  BY Zenon DEF CommandCall
<1>4. /\ dev.txt # "TXT_RDY" =>
           /\ Command(txt_set_rdy(n)) = IF n = 0 THEN "TXT_RDY" ELSE want.txt
           /\ Command(txt_set_empty(n)) = IF n = 0 THEN "TXT_ETY" ELSE want.txt
      /\ dev.txt = "TXT_RDY" => Command(txt_set_abort(n)) = IF n = 0 THEN "TXT_ABT" ELSE want.txt
  BY <1>1, CommandDoes, Zenon
<1>5. \A x \in {"TXT_RDY", "TXT_ETY", "TXT_ABT"} :
        (IF n = 0 THEN x ELSE want.txt) \in {"TXT_ETY", "TXT_RDY", "TXT_ABT"}
  BY <1>1, Zenon
<1>6. CASE dev.txt # "TXT_RDY" /\ ClientStep([dev EXCEPT !.txt = Command(txt_set_rdy(n))],
                         [want EXCEPT !.txt = IF n = 0 THEN "TXT_RDY" ELSE @])
  BY <1>2, <1>4, <1>5, <1>6, Zenon
<1>7. CASE dev.txt # "TXT_RDY" /\ ClientStep([dev EXCEPT !.txt = Command(txt_set_empty(n))],
                         [want EXCEPT !.txt = IF n = 0 THEN "TXT_ETY" ELSE @])
  BY <1>2, <1>4, <1>5, <1>7, Zenon
<1>8. CASE dev.txt = "TXT_RDY" /\ ClientStep([dev EXCEPT !.txt = Command(txt_set_abort(n))],
                         [want EXCEPT !.txt = IF n = 0 THEN "TXT_ABT" ELSE @])
  BY <1>2, <1>4, <1>5, <1>8, Zenon
<1> QED
  BY <1>3, <1>6, <1>7, <1>8, Zenon

\* Every call of the client keeps the invariant.
LEMMA CallsKeep ==
  ASSUME ClientInv, ClientNext
  PROVE  ClientInv'
<1> DEFINE regs == dev.regs
           want == prog.want
<1>1. Good(regs, want) /\ IsWant(want) /\ dev.bus_off = FALSE /\ want.txt = dev.txt
      /\ dev.txt \in {"TXT_ETY", "TXT_RDY", "TXT_ABT"}
  BY Zenon DEF ClientInv, IsDev, Good
<1>2. CASE EnableCall
  <2>1. PICK on \in BOOLEAN : ClientCall(hw_enable(regs, on), [want EXCEPT !.ena = on])
    BY <1>2, Zenon DEF EnableCall
  <2>2. [want EXCEPT !.ena = on].txt = want.txt
    BY <1>1, SameTxt, Zenon DEF WantFields
  <2> QED
    BY <1>1, <2>1, <2>2, EnableGood, CallGood, Zenon
<1>3. CASE ResetCall
  <2>1. hw_reset(regs) = ResetRegs
    BY <1>1, ResetCallGood, Zenon
  <2>2. ClientStep([dev EXCEPT !.regs = ResetRegs, !.txt = "TXT_ETY"], ResetWant)
    BY <1>3, <2>1, Zenon DEF ResetCall
  <2> QED
    BY <2>2, ResetGood, StepGood, Zenon
<1>4. CASE RetLimitCall
  <2>1. PICK a \in Calls.ret :
          ClientCall(set_ret_limit(regs, a.on, a.limit),
                     IF a.limit > 15 THEN want
                     ELSE [want EXCEPT !.ret = <<IF a.on THEN 1 ELSE 0, a.limit>>])
    BY <1>4, Zenon DEF RetLimitCall
  <2> DEFINE x  == <<IF a.on THEN 1 ELSE 0, a.limit>>
             nw == IF a.limit > 15 THEN want ELSE [want EXCEPT !.ret = x]
  <2>2. a.on \in BOOLEAN /\ a.limit \in Nat
    BY CallsAssumption, Zenon
  <2>3. Good(set_ret_limit(regs, a.on, a.limit), nw)
    BY <1>1, <2>2, RetLimitGood, Zenon
  <2>4. nw.txt = want.txt
    <3> HIDE DEF x
    <3>1. [want EXCEPT !.ret = x].txt = want.txt
      BY <1>1, SameTxt, Zenon DEF WantFields
    <3> QED
      BY <3>1, Zenon
  <2>5. ClientCall(set_ret_limit(regs, a.on, a.limit), nw)
    BY <2>1, Zenon
  <2> HIDE DEF nw
  <2> QED
    BY <2>3, <2>4, <2>5, CallGood, Zenon
<1>5. CASE IntCall
  <2>1. PICK a \in Calls.ints :
          \/ ClientCall(hw_int_ena(regs, a.mask, a.val),
                        [want EXCEPT !.ints = (@ \ a.mask) \cup (a.mask \cap a.val)])
          \/ ClientCall(hw_int_mask(regs, a.mask, a.val),
                        [want EXCEPT !.masked = (@ \ a.mask) \cup (a.mask \cap a.val)])
    BY <1>5, Zenon DEF IntCall
  <2> DEFINE x == (want.ints \ a.mask) \cup (a.mask \cap a.val)
             y == (want.masked \ a.mask) \cup (a.mask \cap a.val)
             n1 == [want EXCEPT !.ints = x]
             n2 == [want EXCEPT !.masked = y]
  <2>2. Good(hw_int_ena(regs, a.mask, a.val), n1) /\ Good(hw_int_mask(regs, a.mask, a.val), n2)
    BY <1>1, IntGood, Zenon
  <2>3. ClientCall(hw_int_ena(regs, a.mask, a.val), n1) \/ ClientCall(hw_int_mask(regs, a.mask, a.val), n2)
    BY <2>1, Zenon
  <2> HIDE DEF x, y
  <2>4. n1.txt = want.txt /\ n2.txt = want.txt
    BY <1>1, SameTxt, Zenon DEF WantFields
  <2> HIDE DEF n1, n2
  <2> QED
    BY <2>2, <2>3, <2>4, CallGood, Zenon
<1>6. CASE ModeCall
  <2>1. PICK a \in Calls.mode :
          ClientCall(hw_set_mode(regs, a.mask, a.flags),
            [want EXCEPT
               !.modes = (@ \ a.mask) \cup (a.mask \cap a.flags \cap DOMAIN ModeField),
               !.ret   = IF "ONE_SHOT" \in a.mask THEN <<IF "ONE_SHOT" \in a.flags THEN 1 ELSE 0, 0>> ELSE @,
               !.ints  = (@ \ BusErrorInt(a.mask)) \cup BusErrorInt(a.mask \cap a.flags),
               !.berr  = @ \/ "BERR_REPORTING" \in a.mask])
    BY <1>6, Zenon DEF ModeCall
  <2> DEFINE nw == [want EXCEPT
               !.modes = (@ \ a.mask) \cup (a.mask \cap a.flags \cap DOMAIN ModeField),
               !.ret   = IF "ONE_SHOT" \in a.mask THEN <<IF "ONE_SHOT" \in a.flags THEN 1 ELSE 0, 0>> ELSE @,
               !.ints  = (@ \ BusErrorInt(a.mask)) \cup BusErrorInt(a.mask \cap a.flags),
               !.berr  = @ \/ "BERR_REPORTING" \in a.mask]
  <2>2. Good(hw_set_mode(regs, a.mask, a.flags), nw)
    BY <1>1, SetModeGood, Zenon
  <2>3. nw.txt = want.txt
    <3>1. want = [k \in WantFields |-> want[k]] /\ "txt" \in WantFields
      BY <1>1, Zenon DEF IsWant, WantFields
    <3> QED
      BY <3>1, Zenon
  <2>4. ClientCall(hw_set_mode(regs, a.mask, a.flags), nw)
    BY <2>1, Zenon
  <2> HIDE DEF nw
  <2> QED
    BY <2>2, <2>3, <2>4, CallGood, Zenon
<1>7. CASE TimingCall
  <2>1. PICK bt \in Calls.timing, nominal \in BOOLEAN :
          ClientCall(IF nominal THEN set_nom_bittiming(regs, bt) ELSE set_data_bittiming(regs, bt),
                     IF want.ena THEN want
                     ELSE [want EXCEPT ![IF nominal THEN "nbt" ELSE "dbt"] = Btr(bt, nominal)])
    BY <1>7, Zenon DEF TimingCall
  <2> DEFINE n1 == IF want.ena THEN want ELSE [want EXCEPT !["nbt"] = Btr(bt, TRUE)]
             n2 == IF want.ena THEN want ELSE [want EXCEPT !["dbt"] = Btr(bt, FALSE)]
  <2>2. Good(set_nom_bittiming(regs, bt), n1) /\ Good(set_data_bittiming(regs, bt), n2)
    BY <1>1, TimingGood, Zenon
  <2>3. n1.txt = want.txt /\ n2.txt = want.txt
    <3>1. "nbt" \in WantFields /\ "dbt" \in WantFields
      BY Zenon DEF WantFields
    <3>2. \A x : [want EXCEPT !["nbt"] = x].txt = want.txt /\ [want EXCEPT !["dbt"] = x].txt = want.txt
      BY <1>1, <3>1, SameTxt, Zenon
    <3> QED
      BY <3>2, Zenon
  <2>4. ClientCall(set_nom_bittiming(regs, bt), n1) \/ ClientCall(set_data_bittiming(regs, bt), n2)
    BY <2>1, Zenon
  <2> HIDE DEF n1, n2
  <2> QED
    BY <2>2, <2>3, <2>4, CallGood, Zenon
<1>8. CASE SspCall
  <2>1. PICK a \in Calls.ssp :
          ClientCall(configure_ssp(regs, a.enable, a.measure, a.offset),
            IF want.ena THEN want
            ELSE [want EXCEPT !.ssp = <<IF ~a.enable THEN 1 ELSE IF a.measure THEN 0 ELSE 2,
                                       FIELD_PREP(8, a.offset)>>])
    BY <1>8, Zenon DEF SspCall
  <2> DEFINE x  == <<IF ~a.enable THEN 1 ELSE IF a.measure THEN 0 ELSE 2, FIELD_PREP(8, a.offset)>>
             nw == IF want.ena THEN want ELSE [want EXCEPT !.ssp = x]
  <2>2. Good(configure_ssp(regs, a.enable, a.measure, a.offset), nw)
    BY <1>1, SspGood, Zenon
  <2>3. ClientCall(configure_ssp(regs, a.enable, a.measure, a.offset), nw)
    BY <2>1, Zenon
  <2> HIDE DEF x
  <2>4. nw.txt = want.txt
    <3>1. [want EXCEPT !.ssp = x].txt = want.txt
      BY <1>1, SameTxt, Zenon DEF WantFields
    <3> QED
      BY <3>1, Zenon
  <2> HIDE DEF nw
  <2> QED
    BY <2>2, <2>3, <2>4, CallGood, Zenon
<1>9. CASE ErrorLimitsCall
  <2>1. \A m, n : set_err_limits(regs, m, n) = regs /\ set_err_ctrs(regs, m, n) = regs
    BY <1>1, ErrorLimitsGood, Zenon
  <2>2. ClientCall(set_err_limits(regs, 50, 100), want) \/ ClientCall(set_err_ctrs(regs, 1, 2), want)
    BY <1>9, SMT DEF ErrorLimitsCall
  <2>3. ClientCall(regs, want)
    <3> HIDE DEF regs, want
    <3> QED
      BY <2>1, <2>2, SMT
  <2> QED
    BY <1>1, <2>3, CallGood, Zenon
<1>10. CASE PriorityCall
  <2>1. PICK p \in Calls.prio :
          ClientCall(set_txt_priority(regs, p), [want EXCEPT !.prio = [k \in 1..4 |-> FIELD_PREP(3, p[k])]])
    BY <1>10, Zenon DEF PriorityCall
  <2> DEFINE x  == [k \in 1..4 |-> FIELD_PREP(3, p[k])]
             nw == [want EXCEPT !.prio = x]
  <2>2. Good(set_txt_priority(regs, p), nw)
    BY <1>1, PriorityGood, Zenon
  <2>3. ClientCall(set_txt_priority(regs, p), nw)
    BY <2>1, Zenon
  <2> HIDE DEF x
  <2>4. nw.txt = want.txt
    BY <1>1, SameTxt, Zenon DEF WantFields
  <2> HIDE DEF nw
  <2> QED
    BY <2>2, <2>3, <2>4, CallGood, Zenon
<1>11. CASE TsopCall
  <2>1. PICK v \in {0, 1} : ClientCall(set_rx_tsop(regs, v), [want EXCEPT !.tsop = v])
    BY <1>11, Zenon DEF TsopCall
  <2>2. [want EXCEPT !.tsop = v].txt = want.txt
    BY <1>1, SameTxt, Zenon DEF WantFields
  <2> QED
    BY <1>1, <2>1, <2>2, TsopGood, CallGood, Zenon
<1>12. CASE MaskFilterCall
  <2>1. PICK f \in Filters, a \in Calls.filter :
          ClientCall(set_mask_filter(regs, f, a.on, a), [want EXCEPT !.filter[f] = a])
    BY <1>12, Zenon DEF MaskFilterCall
  <2> DEFINE nw == [want EXCEPT !.filter[f] = a]
  <2>2. a.on \in BOOLEAN
    BY CallsAssumption, Zenon
  <2>3. Good(set_mask_filter(regs, f, a.on, a), nw)
    BY <1>1, <2>2, MaskFilterGood
  <2>4. nw.txt = want.txt
    BY <1>1, Zenon DEF IsWant, WantFields
  <2>5. ClientCall(set_mask_filter(regs, f, a.on, a), nw)
    BY <2>1, Zenon
  <2> HIDE DEF nw
  <2> QED
    BY <2>3, <2>4, <2>5, CallGood, Zenon
<1>13. CASE RangeFilterCall
  <2>1. PICK a \in Calls.range :
          ClientCall(set_range_filter(regs, a.low, a.high, a.on),
            [want EXCEPT !.range = [on |-> a.on, low |-> id_to_hwid(a.low), high |-> id_to_hwid(a.high)]])
    BY <1>13, Zenon DEF RangeFilterCall
  <2> DEFINE x  == [on |-> a.on, low |-> id_to_hwid(a.low), high |-> id_to_hwid(a.high)]
             nw == [want EXCEPT !.range = x]
  <2>2. a.on \in BOOLEAN
    BY CallsAssumption, Zenon
  <2>3. Good(set_range_filter(regs, a.low, a.high, a.on), nw)
    BY <1>1, <2>2, RangeFilterGood, Zenon
  <2>4. ClientCall(set_range_filter(regs, a.low, a.high, a.on), nw)
    BY <2>1, Zenon
  <2> HIDE DEF x
  <2>5. nw.txt = want.txt
    BY <1>1, SameTxt, Zenon DEF WantFields
  <2> HIDE DEF nw
  <2> QED
    BY <2>3, <2>4, <2>5, CallGood, Zenon
<1>14. CASE CommandCall
  BY <1>1, <1>14, CommandGood, Zenon
<1> QED
  BY <1>2, <1>3, <1>4, <1>5, <1>6, <1>7, <1>8, <1>9, <1>10, <1>11, <1>12, <1>13, <1>14, Zenon DEF ClientNext

-----------------------------------------------------------------------------
(* The theorem                                                              *)

\* The invariant says more than OtherSettingsKept.
LEMMA InvSays ==
  ASSUME ClientInv
  PROVE  OtherSettingsKept
<1> DEFINE regs == dev.regs
           want == prog.want
           fc   == regs.filter_control_filter_status
           D    == [f \in Filters |-> [on |-> FilterOn(f, fc), mask |-> regs[FilterMask[f]], val |-> regs[FilterVal[f]]]]
           N    == [on |-> FilterOn("r", fc), low |-> regs.filter_ran_low, high |-> regs.filter_ran_high]
           bei  == Place["int_stat"].bei
           open == IF want.berr THEN bei ELSE {}
<1>1. Good(regs, want) /\ want.txt = dev.txt
  BY Zenon DEF ClientInv
<1>2. Decoded =
        [ena |-> EnaOf(regs.mode_settings), modes |-> ModesOf(regs.mode_settings), ret |-> RetOf(regs.mode_settings),
         ints |-> regs.int_ena_set, masked |-> regs.int_mask_set, nbt |-> NbtOf(regs.btr), dbt |-> DbtOf(regs.btr_fd),
         ssp |-> SspOf(regs.trv_delay_ssp_cfg), prio |-> PrioOf(regs.tx_priority),
         tsop |-> TsopOf(regs.rx_status_rx_settings), filter |-> D, range |-> N, txt |-> dev.txt]
  BY Zenon DEF Decoded
<1>3. \A k \in DOMAIN Decoded \ {"ints", "filter"} : Decoded[k] = want[k]
  <2>1. want.range = N
    BY <1>1, Zenon DEF Good, RangeGood
  <2>2. /\ want.ena = EnaOf(regs.mode_settings)
        /\ want.modes = ModesOf(regs.mode_settings)
        /\ want.ret = RetOf(regs.mode_settings)
    BY <1>1, Zenon DEF Good, ModeGood
  <2>3. /\ want.masked = regs.int_mask_set
        /\ want.nbt = NbtOf(regs.btr) /\ want.dbt = DbtOf(regs.btr_fd)
        /\ want.ssp = SspOf(regs.trv_delay_ssp_cfg) /\ want.prio = PrioOf(regs.tx_priority)
        /\ want.tsop = TsopOf(regs.rx_status_rx_settings)
    BY <1>1, Zenon DEF Good
  <2> HIDE DEF D, N
  <2>4. /\ Decoded.ena = want.ena /\ Decoded.modes = want.modes /\ Decoded.ret = want.ret
        /\ Decoded.masked = want.masked /\ Decoded.nbt = want.nbt /\ Decoded.dbt = want.dbt
        /\ Decoded.ssp = want.ssp /\ Decoded.prio = want.prio /\ Decoded.tsop = want.tsop
        /\ Decoded.range = want.range /\ Decoded.txt = want.txt
    BY <1>1, <1>2, <2>1, <2>2, <2>3, Zenon
  <2>5. DOMAIN Decoded = {"ena", "modes", "ret", "ints", "masked", "nbt", "dbt", "ssp", "prio", "tsop",
                          "filter", "range", "txt"}
    BY <1>2, Zenon
  <2> QED
    BY <2>4, <2>5, Zenon
<1>4. Decoded.ints \ open = want.ints \ open
  <2>1. IntsGood(regs.int_ena_set, want.ints, want.berr) /\ Decoded.ints = regs.int_ena_set
    BY <1>1, <1>2, Zenon DEF Good
  <2> QED
    BY <2>1, Zenon DEF IntsGood
<1>5. \A f \in Filters :
        /\ Decoded.filter[f].on = want.filter[f].on
        /\ {Decoded.filter[f].mask, Decoded.filter[f].val}
             = {id_to_hwid(want.filter[f].can_mask), id_to_hwid(want.filter[f].can_id)}
  <2> SUFFICES ASSUME NEW f \in Filters
               PROVE  /\ Decoded.filter[f].on = want.filter[f].on
                      /\ {Decoded.filter[f].mask, Decoded.filter[f].val}
                           = {id_to_hwid(want.filter[f].can_mask), id_to_hwid(want.filter[f].can_id)}
    BY Zenon
  <2> DEFINE on == FilterOn(f, fc)
             m  == regs[FilterMask[f]]
             v  == regs[FilterVal[f]]
  <2>1. FilterGood(f, fc, m, v, want.filter[f])
    BY <1>1, Zenon DEF Good, FiltersGood
  <2>2. want.filter[f].on = on /\ m = id_to_hwid(want.filter[f].can_id) /\ v = id_to_hwid(want.filter[f].can_mask)
    BY <2>1, Zenon DEF FilterGood
  <2>3. Decoded.filter[f] = [on |-> on, mask |-> m, val |-> v]
    BY <1>2, Zenon
  <2> HIDE DEF on, m, v
  <2>4. Decoded.filter[f].on = on /\ Decoded.filter[f].mask = m /\ Decoded.filter[f].val = v
    BY <2>3
  <2> QED
    BY <2>2, <2>4, Zenon
<1>6. LimitsGood(regs.ewl_erp_fault_state)
  BY <1>1, Zenon DEF Good
<1>7. /\ Field("ewl_erp_fault_state", "ew_limit", dev.regs.ewl_erp_fault_state) = 96
      /\ Field("ewl_erp_fault_state", "erp_limit", dev.regs.ewl_erp_fault_state) = 128
  BY <1>6, SMT DEF LimitsGood
<1> QED
  BY <1>3, <1>4, <1>5, <1>7, Zenon DEF OtherSettingsKept

\* After any number of calls of the library in any order, with any arguments, the fields of
\* the registers are those that were asked for (ctucanfd_hw.c and its inline functions), but
\* for the order of the two registers of a filter and for the bus error interrupt once a
\* mode with BERR_REPORTING was set.
THEOREM ClientOtherSettingsKept == ClientSpec => []OtherSettingsKept
<1>1. ClientInit => ClientInv
  <2> SUFFICES ASSUME ClientInit PROVE ClientInv
    BY Zenon
  <2>1. /\ dev.regs = ResetRegs /\ dev.txt = "TXT_ETY" /\ IsDev(dev)
        /\ prog.want = ResetWant /\ IsClient(prog)
    BY Zenon DEF ClientInit, ResetDev, IsDev, DevFields, IsClient
  <2> QED
    BY <2>1, ResetGood, Zenon DEF ClientInv
<1>2. ClientInv /\ [ClientNext]_vars => ClientInv'
  <2>1. ClientInv /\ UNCHANGED vars => ClientInv'
    BY Zenon DEF ClientInv, vars
  <2> QED
    BY <2>1, CallsKeep, Zenon
<1>3. ClientInv => OtherSettingsKept
  BY InvSays, Zenon
<1> QED
  BY <1>1, <1>2, <1>3, PTL DEF ClientSpec
=============================================================================
