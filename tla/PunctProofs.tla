----------------------------- MODULE PunctProofs -----------------------------
(***************************************************************************)
(* Proofs about iswpunct's table lookup (Punct).  The argument: the table  *)
(* is the concatenation of its five runs, so its first 512 bytes are the   *)
(* index, whose entries are block numbers 16..124, and every byte is in    *)
(* 0..255 (TableSeq, TableIndex, PageBlock, TableByte); then for every     *)
(* code point the two reads of is are in bounds (IsBit), and on ASCII the  *)
(* bits of block 18 are those of ispunct (IsAscii).  The scan's state      *)
(* always holds is(wc) (IInv), which gives the three invariants of the    *)
(* punct_table run.  The SMT backend is fed the table one run at a time:  *)
(* no obligation expands more than one run.                                *)
(***************************************************************************)
EXTENDS Punct, SequenceTheorems, TLAPS

(* The prefixes of the table after one, two and three bitmap runs.         *)
T1 == PageIndex \o Bitmaps1
T2 == T1 \o Bitmaps2
T3 == T2 \o Bitmaps3

(* The shift amounts of is, wc & 7, are the exponents 0..7 of a positive  *)
(* divisor.                                                                 *)
LEMMA Pow2 == \A k \in 0..7 : 2^k \in 1..128
<1> SUFFICES ASSUME NEW k \in 0..7 PROVE 2^k \in 1..128
  OBVIOUS
<1>1. k \in {0, 1, 2, 3, 4, 5, 6, 7}
  OBVIOUS
<1>2. CASE k = 0  BY <1>2
<1>3. CASE k = 1  BY <1>3
<1>4. CASE k = 2  BY <1>4
<1>5. CASE k = 3  BY <1>5
<1>6. CASE k = 4  BY <1>6
<1>7. CASE k = 5  BY <1>7
<1>8. CASE k = 6  BY <1>8
<1>9. CASE k = 7  BY <1>9
<1> QED
  BY <1>1, <1>2, <1>3, <1>4, <1>5, <1>6, <1>7, <1>8, <1>9

(* What the concatenation of two byte strings holds where: the first one  *)
(* at its own indices, the second one shifted past the first.             *)
LEMMA ConcatAt ==
  ASSUME NEW s1 \in Seq(0..255), NEW s2 \in Seq(0..255)
  PROVE  /\ s1 \o s2 \in Seq(0..255)
         /\ Len(s1 \o s2) = Len(s1) + Len(s2)
         /\ \A i \in 1..Len(s1) : (s1 \o s2)[i] = s1[i]
         /\ \A i \in 1..Len(s2) : (s1 \o s2)[Len(s1) + i] = s2[i]
<1>1. /\ s1 \o s2 \in Seq(0..255)
      /\ Len(s1 \o s2) = Len(s1) + Len(s2)
      /\ \A i \in 1 .. Len(s1) + Len(s2) :
            (s1 \o s2)[i] = IF i <= Len(s1) THEN s1[i] ELSE s2[i - Len(s1)]
  BY ConcatProperties
<1>2. Len(s1) \in Nat /\ Len(s2) \in Nat
  BY LenProperties
<1> QED
  BY <1>1, <1>2

(* The five runs of the table are byte strings; the index holds only       *)
(* block numbers of bitmaps.                                               *)
LEMMA RunsSeq ==
  /\ PageIndex \in Seq(16..124)
  /\ Bitmaps1 \in Seq(0..255)
  /\ Bitmaps2 \in Seq(0..255)
  /\ Bitmaps3 \in Seq(0..255)
  /\ Bitmaps4 \in Seq(0..255)
<1>1. PageIndex \in Seq(16..124)
  BY DEF PageIndex
<1>2. Bitmaps1 \in Seq(0..255)
  BY DEF Bitmaps1
<1>3. Bitmaps2 \in Seq(0..255)
  BY DEF Bitmaps2
<1>4. Bitmaps3 \in Seq(0..255)
  BY DEF Bitmaps3
<1>5. Bitmaps4 \in Seq(0..255)
  BY DEF Bitmaps4
<1> QED
  BY <1>1, <1>2, <1>3, <1>4, <1>5

(* Their lengths add up to the 4000 bytes of the declaration.              *)
LEMMA RunsLen ==
  /\ Len(PageIndex) = 512
  /\ Len(Bitmaps1) = 864
  /\ Len(Bitmaps2) = 864
  /\ Len(Bitmaps3) = 864
  /\ Len(Bitmaps4) = 896
<1>1. Len(PageIndex) = 512
  BY DEF PageIndex
<1>2. Len(Bitmaps1) = 864
  BY DEF Bitmaps1
<1>3. Len(Bitmaps2) = 864
  BY DEF Bitmaps2
<1>4. Len(Bitmaps3) = 864
  BY DEF Bitmaps3
<1>5. Len(Bitmaps4) = 896
  BY DEF Bitmaps4
<1> QED
  BY <1>1, <1>2, <1>3, <1>4, <1>5

(* The table is a byte string of TableLen bytes.                          *)
LEMMA TableSeq == Table \in Seq(0..255) /\ Len(Table) = TableLen
<1>1. PageIndex \in Seq(0..255)
  BY RunsSeq, SeqMonotonic
<1>2. T1 \in Seq(0..255) /\ Len(T1) = Len(PageIndex) + Len(Bitmaps1)
  BY <1>1, RunsSeq, ConcatAt DEF T1
<1>3. T2 \in Seq(0..255) /\ Len(T2) = Len(T1) + Len(Bitmaps2)
  BY <1>2, RunsSeq, ConcatAt DEF T2
<1>4. T3 \in Seq(0..255) /\ Len(T3) = Len(T2) + Len(Bitmaps3)
  BY <1>3, RunsSeq, ConcatAt DEF T3
<1>5. Table = T3 \o Bitmaps4
  BY DEF Table, T3, T2, T1
<1>6. Table \in Seq(0..255) /\ Len(Table) = Len(T3) + Len(Bitmaps4)
  BY <1>4, <1>5, RunsSeq, ConcatAt
<1> QED
  BY <1>2, <1>3, <1>4, <1>6, RunsLen DEF TableLen

(* Concatenation keeps a prefix in place: the first 1376 bytes of the      *)
(* table are those of PageIndex \o Bitmaps1.                                 *)
LEMMA TablePrefix == \A i \in 1..1376 : Table[i] = T1[i]
<1>1. PageIndex \in Seq(0..255)
  BY RunsSeq, SeqMonotonic
<1>2. T1 \in Seq(0..255) /\ Len(T1) = Len(PageIndex) + Len(Bitmaps1)
  BY <1>1, RunsSeq, ConcatAt DEF T1
<1>3. T2 \in Seq(0..255) /\ Len(T2) = Len(T1) + Len(Bitmaps2)
  BY <1>2, RunsSeq, ConcatAt DEF T2
<1>4. T3 \in Seq(0..255) /\ Len(T3) = Len(T2) + Len(Bitmaps3)
  BY <1>3, RunsSeq, ConcatAt DEF T3
<1>5. Len(T1) = 1376 /\ Len(T2) = 2240 /\ Len(T3) = 3104
  BY <1>2, <1>3, <1>4, RunsLen
<1>6. Table = T3 \o Bitmaps4
  BY DEF Table, T3, T2, T1
<1>7. \A j \in 1..Len(T3) : Table[j] = T3[j]
  BY <1>4, <1>6, RunsSeq, ConcatAt
<1>8. \A j \in 1..Len(T2) : T3[j] = T2[j]
  BY <1>3, RunsSeq, ConcatAt DEF T3
<1>9. \A j \in 1..Len(T1) : T2[j] = T1[j]
  BY <1>2, RunsSeq, ConcatAt DEF T2
<1> SUFFICES ASSUME NEW i \in 1..1376 PROVE Table[i] = T1[i]
  OBVIOUS
<1>10. i \in 1..Len(T3) /\ i \in 1..Len(T2) /\ i \in 1..Len(T1)
  BY <1>5
<1> QED
  BY <1>7, <1>8, <1>9, <1>10

(* The first-level index of is reads table[0..511], which is PageIndex.    *)
LEMMA TableIndex == \A i \in 1..512 : Table[i] = PageIndex[i]
<1>1. PageIndex \in Seq(0..255)
  BY RunsSeq, SeqMonotonic
<1>2. \A j \in 1..Len(PageIndex) : T1[j] = PageIndex[j]
  BY <1>1, RunsSeq, ConcatAt DEF T1
<1> SUFFICES ASSUME NEW i \in 1..512 PROVE Table[i] = PageIndex[i]
  OBVIOUS
<1>3. i \in 1..Len(PageIndex) /\ i \in 1..1376
  BY RunsLen
<1> QED
  BY <1>2, <1>3, TablePrefix

(* Block 18, the bitmap of page 0, lies in Bitmaps1.                        *)
LEMMA TableBitmaps1 == \A i \in 513..1376 : Table[i] = Bitmaps1[i - 512]
<1>1. PageIndex \in Seq(0..255)
  BY RunsSeq, SeqMonotonic
<1>2. \A j \in 1..Len(Bitmaps1) : T1[Len(PageIndex) + j] = Bitmaps1[j]
  BY <1>1, RunsSeq, ConcatAt DEF T1
<1> SUFFICES ASSUME NEW i \in 513..1376 PROVE Table[i] = Bitmaps1[i - 512]
  OBVIOUS
<1>3. i - 512 \in 1..Len(Bitmaps1) /\ Len(PageIndex) + (i - 512) = i
  BY RunsLen
<1>4. T1[Len(PageIndex) + (i - 512)] = Bitmaps1[i - 512]
  BY <1>2, <1>3
<1>5. i \in 1..1376
  OBVIOUS
<1>6. Table[i] = T1[i]
  BY <1>5, TablePrefix
<1> QED
  BY <1>3, <1>4, <1>6

(* Every byte of the table is a byte: an entry read in range is no Panic. *)
LEMMA TableByte == \A i \in 1..TableLen : Table[i] \in 0..255
BY TableSeq, ElementOfSeq

(* The index entry of every page is a block number of the table.          *)
LEMMA PageBlock == \A i \in 1..512 : Table[i] \in 16..124
<1> SUFFICES ASSUME NEW i \in 1..512 PROVE Table[i] \in 16..124
  OBVIOUS
<1>1. i \in 1..Len(PageIndex)
  BY RunsLen
<1>2. PageIndex[i] \in 16..124
  BY <1>1, RunsSeq, ElementOfSeq
<1> QED
  BY <1>2, TableIndex

(* For every code point of the scan, is returns a bit: both table reads  *)
(* are in bounds, so no Panic.                                             *)
LEMMA IsBit == \A c \in 0..WcBound : is(c) \in {0, 1}
<1> SUFFICES ASSUME NEW c \in 0..WcBound PROVE is(c) \in {0, 1}
  OBVIOUS
<1>1. c \in Int /\ 0 <= c /\ c <= WcBound
  BY SMT
<1>2. CASE ~(c < 131072)
  BY <1>2, SMT DEF is
<1>3. CASE c < 131072
  <2>1. Shr(c, 8) \in 0..511
    BY <1>1, <1>3, SMT DEF Shr
  <2>2. Shr(c % 256, 3) \in 0..31
    BY <1>1, SMT DEF Shr
  <2>3. Table[Shr(c, 8) + 1] \in 16..124
    <3>1. PICK k \in 1..512 : k = Shr(c, 8) + 1
      BY <2>1, SMT
    <3>2. Table[k] \in 16..124
      BY PageBlock
    <3> QED
      BY <3>1, <3>2
  <2>4. PICK blk \in 16..124 : blk = At(Shr(c, 8))
    BY <2>1, <2>3, SMT DEF At, TableLen
  <2>5. PICK q \in 0..31 : q = Shr(c % 256, 3)
    BY <2>2, SMT
  <2>6. blk * 32 + q + 1 \in 1..TableLen
    BY SMT DEF TableLen
  <2>7. PICK b \in 0..255 : b = At(blk * 32 + q)
    <3>1. blk * 32 + q < TableLen
      BY SMT DEF TableLen
    <3>2. Table[blk * 32 + q + 1] \in 0..255
      BY <2>6, TableByte, SMT
    <3> QED
      BY <3>1, <3>2, SMT DEF At
  <2>8. PICK r \in 0..7 : r = c % 8
    <3>1. c % 8 \in 0..7
      BY <1>1, SMT
    <3> QED
      BY <3>1
  <2>9. 2^r \in 1..128
    BY Pow2, Zenon
  <2>10. Shr(b, r) % 2 \in {0, 1}
    BY <2>9, SMT DEF Shr
  <2>11. b # Panic
    BY SMT DEF Panic
  <2> QED
    BY <1>3, <2>4, <2>5, <2>7, <2>8, <2>10, <2>11, SMT DEF is
<1> QED
  BY <1>2, <1>3
-----------------------------------------------------------------------------
(* The inductive invariant: the scan stays in its range and res is what  *)
(* is returned for the current code point.                                 *)
IInv ==
  /\ wc \in 0..WcBound
  /\ res = is(wc)

(* The first call of the scan establishes IInv.                           *)
LEMMA InitIInv == Init => IInv
<1> SUFFICES ASSUME Init PROVE IInv
  OBVIOUS
<1>1. 0 \in 0..WcBound
  BY SMT DEF WcBound
<1> QED
  BY <1>1 DEF Init, IInv

(* Each call of is, on the next code point or back at 0, keeps IInv.       *)
LEMMA NextIInv == IInv /\ [Next]_vars => IInv'
<1> SUFFICES ASSUME IInv, [Next]_vars PROVE IInv'
  OBVIOUS
<1>1. CASE Query
  <2>1. wc' \in 0..WcBound
    <3>1. wc \in Int /\ 0 <= wc /\ wc <= WcBound
      BY SMT DEF IInv
    <3>2. WcBound \in Nat
      BY SMT DEF WcBound
    <3> QED
      BY <1>1, <3>1, <3>2, SMT DEF Query
  <2>2. res' = is(wc')
    BY <1>1 DEF Query
  <2> QED
    BY <2>1, <2>2 DEF IInv
<1>2. CASE UNCHANGED vars
  BY <1>2 DEF IInv, vars
<1> QED
  BY <1>1, <1>2 DEF Next

(* IInv holds in every state of the scan.                                 *)
LEMMA AlwaysIInv == Spec => []IInv
BY InitIInv, NextIInv, PTL DEF Spec

(* Every result of is in the scan is 0, 1 or Panic and the code point is *)
(* in range.                                                               *)
THEOREM TypeCorrect == Spec => []TypeOK
<1>1. IInv => TypeOK
  BY IsBit DEF IInv, TypeOK
<1> QED
  BY <1>1, AlwaysIInv, PTL

(* is never panics: for every code point below 0x20000 both reads of     *)
(* table are in bounds, for every block number the first level holds.     *)
THEOREM NeverPanics == Spec => []NoPanic
<1>1. IInv => NoPanic
  <2> SUFFICES ASSUME IInv PROVE res # Panic
    BY DEF NoPanic
  <2>1. res \in {0, 1}
    BY IsBit DEF IInv
  <2> QED
    BY <2>1 DEF Panic
<1> QED
  BY <1>1, AlwaysIInv, PTL
-----------------------------------------------------------------------------
(* The bitmap bytes of code points 0..127, table[576..591].               *)
AsciiBitmap == <<0, 0, 0, 0, 254, 255, 0, 252, 1, 0, 0, 248, 1, 0, 0, 120>>

(* Page 0 is block 18, and bytes 0..15 of that block, table[576..591],    *)
(* are the bitmap of ASCII.                                                *)
LEMMA AsciiBlock ==
  /\ Table[1] = 18
  /\ \A k \in 0..15 : Table[577 + k] = AsciiBitmap[k + 1]
<1>1. PageIndex[1] = 18
  BY DEF PageIndex
<1>2. \A k \in 0..15 : Bitmaps1[65 + k] = AsciiBitmap[k + 1]
  BY SMT DEF Bitmaps1, AsciiBitmap
<1>3. \A k \in 0..15 : Table[577 + k] = Bitmaps1[65 + k]
  <2> SUFFICES ASSUME NEW k \in 0..15 PROVE Table[577 + k] = Bitmaps1[65 + k]
    OBVIOUS
  <2>1. PICK i \in 513..1376 : i = 577 + k
    BY SMT
  <2>2. Table[i] = Bitmaps1[i - 512]
    BY TableBitmaps1
  <2> QED
    BY <2>1, <2>2, SMT
<1>4. Table[1] = PageIndex[1]
  BY TableIndex, SMT
<1> QED
  BY <1>1, <1>2, <1>3, <1>4, SMT
(* Bit r of byte k of that bitmap is set exactly when 8k + r is ASCII     *)
(* punctuation.                                                            *)
LEMMA AsciiBits ==
  \A k \in 0..15, r \in 0..7 :
    Shr(AsciiBitmap[k + 1], r) % 2 = IF 8 * k + r \in AsciiPunct THEN 1 ELSE 0
<1> SUFFICES ASSUME NEW k \in 0..15, NEW r \in 0..7
             PROVE  Shr(AsciiBitmap[k + 1], r) % 2 = IF 8 * k + r \in AsciiPunct THEN 1 ELSE 0
  OBVIOUS
<1>1. r = 0 \/ r = 1 \/ r = 2 \/ r = 3 \/ r = 4 \/ r = 5 \/ r = 6 \/ r = 7
  BY SMT
<1>2. k = 0 \/ k = 1 \/ k = 2 \/ k = 3 \/ k = 4 \/ k = 5 \/ k = 6 \/ k = 7 \/
      k = 8 \/ k = 9 \/ k = 10 \/ k = 11 \/ k = 12 \/ k = 13 \/ k = 14 \/ k = 15
  BY SMT
<1>3. CASE r = 0
  <2>1. Shr(AsciiBitmap[k + 1], r) = AsciiBitmap[k + 1] \div 1
    BY <1>3, SMT DEF Shr
  <2> QED
    BY <1>2, <2>1, <1>3, SMT DEF AsciiBitmap, AsciiPunct
<1>4. CASE r = 1
  <2>1. Shr(AsciiBitmap[k + 1], r) = AsciiBitmap[k + 1] \div 2
    BY <1>4, SMT DEF Shr
  <2> QED
    BY <1>2, <2>1, <1>4, SMT DEF AsciiBitmap, AsciiPunct
<1>5. CASE r = 2
  <2>1. Shr(AsciiBitmap[k + 1], r) = AsciiBitmap[k + 1] \div 4
    BY <1>5, SMT DEF Shr
  <2> QED
    BY <1>2, <2>1, <1>5, SMT DEF AsciiBitmap, AsciiPunct
<1>6. CASE r = 3
  <2>1. Shr(AsciiBitmap[k + 1], r) = AsciiBitmap[k + 1] \div 8
    BY <1>6, SMT DEF Shr
  <2> QED
    BY <1>2, <2>1, <1>6, SMT DEF AsciiBitmap, AsciiPunct
<1>7. CASE r = 4
  <2>1. Shr(AsciiBitmap[k + 1], r) = AsciiBitmap[k + 1] \div 16
    BY <1>7, SMT DEF Shr
  <2> QED
    BY <1>2, <2>1, <1>7, SMT DEF AsciiBitmap, AsciiPunct
<1>8. CASE r = 5
  <2>1. Shr(AsciiBitmap[k + 1], r) = AsciiBitmap[k + 1] \div 32
    BY <1>8, SMT DEF Shr
  <2> QED
    BY <1>2, <2>1, <1>8, SMT DEF AsciiBitmap, AsciiPunct
<1>9. CASE r = 6
  <2>1. Shr(AsciiBitmap[k + 1], r) = AsciiBitmap[k + 1] \div 64
    BY <1>9, SMT DEF Shr
  <2> QED
    BY <1>2, <2>1, <1>9, SMT DEF AsciiBitmap, AsciiPunct
<1>10. CASE r = 7
  <2>1. Shr(AsciiBitmap[k + 1], r) = AsciiBitmap[k + 1] \div 128
    BY <1>10, SMT DEF Shr
  <2> QED
    BY <1>2, <2>1, <1>10, SMT DEF AsciiBitmap, AsciiPunct
<1> QED
  BY <1>1, <1>3, <1>4, <1>5, <1>6, <1>7, <1>8, <1>9, <1>10

(* On ASCII, is reads bit c & 7 of byte c >> 3 of block 18.               *)
LEMMA IsAscii == \A c \in 0..127 : is(c) = IF c \in AsciiPunct THEN 1 ELSE 0
<1> SUFFICES ASSUME NEW c \in 0..127
             PROVE  is(c) = IF c \in AsciiPunct THEN 1 ELSE 0
  OBVIOUS
<1>1. Shr(c, 8) = 0
  BY SMT DEF Shr
<1>2. At(0) = 18
  BY AsciiBlock, SMT DEF At, TableLen
<1>3. PICK k \in 0..15 : k = Shr(c % 256, 3)
  BY SMT DEF Shr
<1>4. PICK r \in 0..7 : r = c % 8
  BY SMT
<1>5. c = 8 * k + r
  BY <1>3, <1>4, SMT DEF Shr
<1>6. At(18 * 32 + k) = AsciiBitmap[k + 1]
  <2>1. Table[577 + k] = AsciiBitmap[k + 1]
    BY AsciiBlock
  <2> QED
    BY <2>1, SMT DEF At, TableLen
<1>7. AsciiBitmap[k + 1] \in 0..255
  BY SMT DEF AsciiBitmap
<1>8. is(c) = Shr(AsciiBitmap[k + 1], r) % 2
  BY <1>1, <1>2, <1>3, <1>4, <1>6, <1>7, SMT DEF is, Panic
<1>9. Shr(AsciiBitmap[k + 1], r) % 2 = IF 8 * k + r \in AsciiPunct THEN 1 ELSE 0
  BY AsciiBits
<1> QED
  BY <1>5, <1>8, <1>9

(* On ASCII, is agrees with C's ispunct in every state of the scan.       *)
THEOREM AsciiCorrect == Spec => []AsciiAgrees
<1>1. IInv => AsciiAgrees
  <2> SUFFICES ASSUME IInv, wc < 128 PROVE res = IF wc \in AsciiPunct THEN 1 ELSE 0
    BY DEF AsciiAgrees
  <2>1. wc \in 0..127
    BY SMT DEF IInv
  <2> QED
    BY <2>1, IsAscii DEF IInv
<1> QED
  BY <1>1, AlwaysIInv, PTL
====
