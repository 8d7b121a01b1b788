--------------------------- MODULE Upgrade_proofs ---------------------------
(***************************************************************************)
(* Proofs about Upgrade, for images, blocks, packets and files of any      *)
(* size: a complete image that is uploaded undisturbed is stored cell by   *)
(* cell, and only an image restarts the switch.                            *)
(*                                                                         *)
(* The argument: while an image is being stored, all that was sent so far  *)
(* stands in front of writeLen, and behind it everything up to the end of  *)
(* the section or the block that has been begun is erased.  A piece is     *)
(* shorter than a block, so it ends in the block in which it starts or in  *)
(* the next, and the two erasures of sal_fwug_image_write cover the next.  *)
(***************************************************************************)
EXTENDS Upgrade, TLAPS

-----------------------------------------------------------------------------
(* Division                                                                *)

\* Division with remainder.
LEMMA Euclid ==
    ASSUME NEW x \in Nat, NEW b \in Nat, b > 0
    PROVE  /\ x \div b \in Nat /\ x % b \in Nat /\ x % b < b
           /\ x = b * (x \div b) + (x % b)
  BY Z3

\* The quotient and the remainder are the only ones that fit.
LEMMA Quotient ==
    ASSUME NEW x \in Nat, NEW b \in Nat, b > 0, NEW q \in Nat, NEW r \in Nat, r < b,
           x = b * q + r
    PROVE  x \div b = q /\ x % b = r
<1> DEFINE k == x \div b
           s == x % b
<1>1. k \in Nat /\ s \in Nat /\ s < b /\ b * k + s = b * q + r
  BY Euclid
<1> HIDE DEF k, s
<1>2. CASE k < q
  <2>1. b * q >= b * (k + 1)
    BY <1>1, <1>2, Z3
  <2> QED BY <2>1, <1>1, Z3
<1>3. CASE k > q
  <2>1. b * k >= b * (q + 1)
    BY <1>1, <1>3, Z3
  <2> QED BY <2>1, <1>1, Z3
<1>4. CASE k = q
  BY <1>1, <1>4 DEF k, s
<1> QED BY <1>1, <1>2, <1>3, <1>4

-----------------------------------------------------------------------------
(* Blocks of the bank section                                              *)

Index(p) == (p - IromLen) \div BlockSize
Bank == {p \in Nat : p >= IromLen}

\* A position of the bank section is a block and an offset in it.
LEMMA BlockTypes ==
    ASSUME NEW a \in Bank
    PROVE  Index(a) \in Nat /\ BlockOffset(a) \in 0 .. BlockSize - 1
           /\ a - IromLen = BlockSize * Index(a) + BlockOffset(a)
  BY Euclid, UpgradeAssumption DEF Index, BlockOffset, Bank

\* A piece ends in the block in which it starts or in the next one.
LEMMA BlockStep ==
    ASSUME NEW a \in Bank, NEW n \in 0 .. MaxChunk
    PROVE  \/ Index(a + n) = Index(a) /\ BlockOffset(a + n) = BlockOffset(a) + n
           \/ /\ Index(a + n) = Index(a) + 1
              /\ BlockOffset(a + n) = BlockOffset(a) + n - BlockSize
<1> DEFINE q == Index(a)
           r == BlockOffset(a)
           x == (a + n) - IromLen
<1>1. q \in Nat /\ r \in 0 .. BlockSize - 1 /\ a - IromLen = BlockSize * q + r
  BY BlockTypes
<1>2. n \in Nat /\ n < BlockSize /\ BlockSize \in Nat /\ BlockSize > 0 /\ IromLen \in Nat
      /\ a \in Nat /\ a >= IromLen
  BY UpgradeAssumption DEF Bank
<1>3. Index(a + n) = x \div BlockSize /\ BlockOffset(a + n) = x % BlockSize
  BY DEF Index, BlockOffset
<1>4. x \in Nat /\ x = BlockSize * q + (r + n)
  <2> HIDE DEF q, r
  <2> QED BY <1>1, <1>2
<1> HIDE DEF x
<1>5. CASE r + n < BlockSize
  <2>1. x \div BlockSize = q /\ x % BlockSize = r + n
    <3> HIDE DEF q, r
    <3> QED BY <1>1, <1>2, <1>4, <1>5, Quotient
  <2> QED BY <2>1, <1>3
<1>6. CASE r + n >= BlockSize
  <2>1. x = BlockSize * (q + 1) + (r + n - BlockSize)
    <3> HIDE DEF q, r
    <3> QED BY <1>1, <1>2, <1>4, Z3
  <2>2. x \div BlockSize = q + 1 /\ x % BlockSize = r + n - BlockSize
    <3> HIDE DEF q, r
    <3>1. r + n - BlockSize \in Nat /\ r + n - BlockSize < BlockSize /\ q + 1 \in Nat
      BY <1>1, <1>2, <1>6
    <3> QED BY <2>1, <3>1, <1>2, <1>4, Quotient
  <2> QED BY <2>2, <1>3
<1> QED
  <2> HIDE DEF q, r
  <2> QED BY <1>1, <1>2, <1>5, <1>6 DEF q, r

\* Earlier positions lie in no later block, and before the start of a block in an earlier one.
LEMMA BlockOrder ==
    ASSUME NEW a \in Bank, NEW b \in Bank, b < a
    PROVE  Index(b) =< Index(a) /\ (BlockOffset(a) = 0 => Index(b) < Index(a))
<1> DEFINE q == Index(a)
           r == BlockOffset(a)
           k == Index(b)
           s == BlockOffset(b)
<1>1. /\ q \in Nat /\ r \in 0 .. BlockSize - 1 /\ a - IromLen = BlockSize * q + r
      /\ k \in Nat /\ s \in 0 .. BlockSize - 1 /\ b - IromLen = BlockSize * k + s
  BY BlockTypes
<1>2. BlockSize \in Nat /\ BlockSize > 0 /\ IromLen \in Nat /\ a \in Nat /\ b \in Nat
  BY UpgradeAssumption DEF Bank
<1> HIDE DEF q, r, k, s
<1>3. BlockSize * k + s < BlockSize * q + r
  BY <1>1, <1>2
<1>4. ASSUME k > q PROVE FALSE
  <2>1. BlockSize * k >= BlockSize * (q + 1)
    BY <1>1, <1>2, <1>4, Z3
  <2> QED BY <2>1, <1>1, <1>2, <1>3, Z3
<1>5. ASSUME r = 0, k = q PROVE FALSE
  BY <1>1, <1>2, <1>3, <1>5
<1> QED BY <1>1, <1>4, <1>5 DEF q, r, k, s

-----------------------------------------------------------------------------
(* Storing a piece                                                         *)

Limit == IromLen + Blocks * BlockSize
FwType == [header_get : BOOLEAN, reboot_after_upload : BOOLEAN, write_enable : BOOLEAN,
           write_to_bank : BOOLEAN, writeLen : Nat]

InPlace(w) == w.write_to_bank <=> w.writeLen > IromLen

\* Behind writeLen, the IROM section and the block that has been begun are erased.
Prepared(m, w) ==
    \A p \in Area :
        /\ p >= w.writeLen
        /\ \/ p < IromLen
           \/ /\ w.writeLen > IromLen
              /\ BlockOffset(w.writeLen) /= 0
              /\ p \in Block(w.writeLen)
        => m[p] = Erased

Piece(m, w, f, s, n) == Write(Erase(m, BanksErased(w, n)), w.writeLen, f, s, n)

\* A cell of m is in a block by its index.
LEMMA InBlock ==
    ASSUME NEW p \in Area, NEW a \in Bank
    PROVE  p \in Block(a) <=> p >= IromLen /\ Index(p) = Index(a)
  BY DEF Block, Index

\* Positions are numbers from 0.
LEMMA AreaNat == Area \subseteq Nat
  BY UpgradeAssumption DEF Area

\* Every cell of a piece is erased when it is written, and behind it the block
\* that it ends in is prepared; what was written before stays.
LEMMA PieceErased ==
    ASSUME NEW m, NEW w \in FwType, InPlace(w), Prepared(m, w), NEW n \in 0 .. MaxChunk,
           n > 0 \/ ToIrom(w, n), NEW p \in Area
    PROVE  LET a == w.writeLen
               E == BanksErased(w, n)
           IN /\ p < a => p \notin E
              /\ p >= a /\ p < a + n => p \in E \/ m[p] = Erased
              /\ /\ p >= a + n
                 /\ \/ p < IromLen
                    \/ /\ a + n > IromLen
                       /\ BlockOffset(a + n) /= 0
                       /\ p \in Block(a + n)
                 => p \in E \/ m[p] = Erased
<1> DEFINE a == w.writeLen
           E == BanksErased(w, n)
<1>1. /\ a \in Nat /\ n \in Nat /\ p \in Nat /\ IromLen \in Nat /\ IromLen > 0
      /\ n < BlockSize /\ n < IromLen /\ BlockSize \in Nat
  BY AreaNat, UpgradeAssumption DEF FwType
<1>2. CASE ToIrom(w, n)
  BY <1>1, <1>2 DEF ToIrom, BanksErased, Prepared
<1>3. CASE ~ToIrom(w, n) /\ ~w.write_to_bank
  <2>1. a =< IromLen /\ a + n > IromLen
    BY <1>1, <1>3 DEF ToIrom, InPlace, FwType
  <2>2. E = Block(IromLen)
    BY <1>3 DEF BanksErased
  <2>3. IromLen \in Bank /\ Index(IromLen) = 0 /\ BlockOffset(IromLen) = 0
    <3>1. 0 = BlockSize * 0 + 0 /\ IromLen - IromLen = 0
      BY <1>1
    <3>2. 0 \div BlockSize = 0 /\ 0 % BlockSize = 0
      BY <3>1, <1>1, Quotient
    <3> QED BY <3>1, <3>2, <1>1 DEF Index, BlockOffset, Bank
  <2>4. ASSUME NEW q \in Nat, q >= IromLen, q =< a + n PROVE q \in Bank /\ Index(q) = 0
    <3>1. q - IromLen \in 0 .. MaxChunk /\ q = IromLen + (q - IromLen)
      BY <1>1, <2>1, <2>4, UpgradeAssumption
    <3>2. PICK k \in 0 .. MaxChunk : q = IromLen + k
      BY <3>1
    <3>3. k < BlockSize
      BY <3>2, UpgradeAssumption
    <3>4. q \in Bank
      BY <2>4 DEF Bank
    <3>5. Index(q) \in Nat /\ BlockOffset(q) \in Nat /\ k \in Nat
      BY <3>4, <1>1, BlockTypes
    <3>6. \/ Index(q) = Index(IromLen) /\ BlockOffset(q) = BlockOffset(IromLen) + k
          \/ /\ Index(q) = Index(IromLen) + 1
             /\ BlockOffset(q) = BlockOffset(IromLen) + k - BlockSize
      BY <3>2, <2>3, BlockStep
    <3> QED BY <3>3, <3>4, <3>5, <3>6, <2>3, <1>1
  <2>5. a + n \in Nat
    BY <1>1
  <2>6. p < a => p \notin E
    BY <1>1, <2>1, <2>2, <2>3, InBlock
  <2>7. p >= a /\ p < a + n => p \in E \/ m[p] = Erased
    <3>1. CASE p < IromLen
      BY <3>1, <1>1 DEF Prepared
    <3>2. CASE p >= IromLen /\ p < a + n
      BY <3>2, <1>1, <2>2, <2>3, <2>4, InBlock
    <3> QED BY <3>1, <3>2, <1>1
  <2>8. p >= a + n /\ p \in Block(a + n) => p \in E
    <3>1. a + n \in Bank /\ Index(a + n) = 0
      BY <2>1, <2>4, <2>5, <1>1
    <3> QED BY <3>1, <2>2, <2>3, InBlock
  <2> QED BY <1>1, <2>1, <2>6, <2>7, <2>8
<1>4. CASE ~ToIrom(w, n) /\ w.write_to_bank
  <2>1. a > IromLen /\ n > 0 /\ a \in Bank /\ a + n \in Bank
    BY <1>1, <1>4 DEF InPlace, Bank
  <2>2. E = (IF BlockOffset(a) = 0 THEN Block(a) ELSE {})
            \cup (IF BlockOffset(a) > BlockOffset(a + n) THEN Block(a + n) ELSE {})
    BY <1>4 DEF BanksErased
  <2>3. \/ Index(a + n) = Index(a) /\ BlockOffset(a + n) = BlockOffset(a) + n
        \/ /\ Index(a + n) = Index(a) + 1
           /\ BlockOffset(a + n) = BlockOffset(a) + n - BlockSize
    BY <2>1, BlockStep
  <2>4. /\ Index(a) \in Nat /\ BlockOffset(a) \in Nat /\ BlockOffset(a) < BlockSize
        /\ Index(a + n) \in Nat /\ BlockOffset(a + n) \in Nat
    BY <2>1, <1>1, BlockTypes
  <2>5. p \in Block(a) <=> p >= IromLen /\ Index(p) = Index(a)
    BY <2>1, InBlock
  <2>6. p \in Block(a + n) <=> p >= IromLen /\ Index(p) = Index(a + n)
    BY <2>1, InBlock
  <2>7. p < a => p \notin E
    <3> SUFFICES ASSUME p < a, p >= IromLen PROVE p \notin E
      BY <2>2, <2>5, <2>6
    <3>1. p \in Bank
      BY <1>1 DEF Bank
    <3>2. Index(p) \in Nat /\ Index(p) =< Index(a) /\ (BlockOffset(a) = 0 => Index(p) < Index(a))
      BY <3>1, <2>1, BlockOrder, BlockTypes
    <3> HIDE DEF a, E
    <3> QED BY <3>2, <2>2, <2>3, <2>4, <2>5, <2>6, <1>1
  <2>8. p >= a /\ p < a + n => p \in E \/ m[p] = Erased
    <3> SUFFICES ASSUME p >= a, p < a + n PROVE p \in E \/ m[p] = Erased
      OBVIOUS
    <3>1. p \in Bank /\ p >= IromLen
      BY <1>1, <2>1 DEF Bank
    <3>2. /\ Index(p) \in Nat /\ Index(p) =< Index(a + n)
          /\ p > a => Index(a) =< Index(p)
      BY <3>1, <2>1, <1>1, BlockOrder, BlockTypes
    <3>3. p \in Block(a) /\ BlockOffset(a) /= 0 => m[p] = Erased
      BY <2>1 DEF Prepared
    <3>4. Index(p) = Index(a) => p \in E \/ m[p] = Erased
      BY <3>1, <3>3, <2>2, <2>5
    <3>5. Index(p) > Index(a) => p \in E
      <4> HIDE DEF a, E
      <4> QED BY <3>1, <3>2, <2>2, <2>3, <2>4, <2>6, <1>1
    <3>6. Index(p) >= Index(a)
      <4>1. CASE p = a
        BY <4>1, <2>4
      <4>2. CASE p > a
        BY <4>2, <3>2, <2>4
      <4> QED BY <4>1, <4>2, <1>1
    <3> QED BY <3>2, <3>4, <3>5, <3>6, <2>4
  <2>9. p >= a + n /\ BlockOffset(a + n) /= 0 /\ p \in Block(a + n) => p \in E \/ m[p] = Erased
    <3> SUFFICES ASSUME p >= a + n, BlockOffset(a + n) /= 0, p \in Block(a + n)
                 PROVE  p \in E \/ m[p] = Erased
      OBVIOUS
    <3>1. p >= a /\ p >= IromLen /\ Index(p) = Index(a + n)
      BY <1>1, <2>1, <2>6
    <3>2. p \in Block(a) /\ BlockOffset(a) /= 0 => m[p] = Erased
      BY <2>1, <3>1 DEF Prepared
    <3> HIDE DEF a, E
    <3> QED BY <3>1, <3>2, <2>2, <2>3, <2>4, <2>5, <2>6, <1>1
  <2> QED BY <1>1, <2>1, <2>7, <2>8, <2>9
<1> QED BY <1>2, <1>3, <1>4 DEF FwType

-----------------------------------------------------------------------------
(* The invariant                                                           *)

CellType == {Erased, Scrap} \cup {Cell(i, p) : i \in Images, p \in Area}
FwRange == [header_get : BOOLEAN, reboot_after_upload : BOOLEAN, write_enable : BOOLEAN,
            write_to_bank : BOOLEAN, writeLen : 0 .. Limit]

Busy == upload.file /= NoFile

\* What has been sent stands in the flash, and what comes next can be written.
Stored(m, w, f) ==
    /\ \A p \in Area : p < w.writeLen => m[p] = Sent(f, p + 1)
    /\ Prepared(m, w) /\ InPlace(w)

Storing ==
    /\ fw.header_get /\ fw.write_enable /\ fw.reboot_after_upload
    /\ fw.writeLen = upload.offset - 1
    /\ Stored(flash, fw, upload.file)

UInv ==
    /\ TypeOK
    /\ ~Busy => upload = NoUpload
    /\ Busy => /\ at = "loader" /\ stat = "TRANSFERING" /\ upload.offset >= 1
               /\ fw.header_get => fw.writeLen =< upload.offset + MaxChunk - 2
    /\ Busy /\ upload.alone =>
           IF upload.file.image \in Images THEN Storing
           ELSE ~fw.header_get /\ ~fw.reboot_after_upload

\* The area is everything in front of Limit.
LEMMA LimitFacts == Limit \in Nat /\ Area = 0 .. Limit - 1
<1>1. Blocks * BlockSize \in Nat
  BY UpgradeAssumption
<1> QED BY <1>1, UpgradeAssumption DEF Limit, Area

\* What is assumed of the constants, for one file.
LEMMA FileFacts ==
    ASSUME NEW f \in Files
    PROVE  /\ f.cells \in Nat /\ f.image \in Images \cup {NotAnImage} /\ f /= NoFile
           /\ Size(f) = 1 + f.cells + TrailerLen /\ TrailerLen \in Nat /\ TrailerLen > 0
           /\ f.cells + TrailerLen + MaxChunk =< Limit + 1 /\ Limit \in Nat
           /\ Size(f) \in Nat /\ MaxChunk \in Nat /\ MaxChunk > 0 /\ MaxChunk < IromLen
           /\ IromLen \in Nat
  BY UpgradeAssumption DEF Size, Limit

\* What is sent can stand in a cell.
LEMMA SentType ==
    ASSUME NEW f \in Files, NEW s \in Int
    PROVE  Sent(f, s) \in CellType
<1>1. CASE f.image \in Images /\ s >= 1 /\ s =< f.cells
  <2>1. s - 1 \in Area
    BY <1>1, FileFacts, LimitFacts
  <2> QED BY <1>1, <2>1 DEF Sent, CellType
<1>2. CASE ~(f.image \in Images /\ s >= 1 /\ s =< f.cells)
  BY <1>2 DEF Sent, CellType
<1> QED BY <1>1, <1>2

\* Writing and erasing leave cells.
LEMMA WriteType ==
    ASSUME NEW m \in [Area -> CellType], NEW f \in Files,
           NEW to \in Nat, NEW s \in Nat, NEW n \in Int
    PROVE  Write(m, to, f, s, n) \in [Area -> CellType]
<1>1. \A p \in Area : Sent(f, s + p - to) \in CellType
  BY SentType, AreaNat
<1>2. Erased \in CellType /\ Scrap \in CellType
  BY DEF CellType
<1> HIDE DEF CellType
<1> QED BY <1>1, <1>2 DEF Write, Program

LEMMA EraseType ==
    ASSUME NEW m \in [Area -> CellType], NEW E
    PROVE  Erase(m, E) \in [Area -> CellType]
  BY DEF Erase, CellType

\* What a piece does, by the state in which it finds salfwug.c.
LEMMA Outcome ==
    ASSUME NEW w \in FwRange, NEW f, NEW s, NEW n \in Nat, ImageWrite(w, f, s, n)
    PROVE  \/ /\ ~w.header_get /\ HasHeader(f, s)
              /\ flash' = Write(Erase(flash, Irom \cup BanksErased(HeaderSeen, n - 1)), 0, f, s + 1, n - 1)
              /\ fw' = Advanced(HeaderSeen, n - 1)
           \/ /\ ~w.header_get /\ ~HasHeader(f, s) /\ flash' = flash
              /\ fw' = HeaderWrong(w)
           \/ /\ w.header_get /\ w.write_enable
              /\ flash' = Piece(flash, w, f, s, n) /\ fw' = Advanced(w, n)
           \/ /\ w.header_get /\ ~w.write_enable /\ flash' = flash /\ fw' = w
  BY DEF ImageWrite, Piece

\* Only the count and the section change as a piece is stored.
LEMMA AdvancedFields ==
    ASSUME NEW w \in FwType, NEW n \in Nat
    PROVE  /\ Advanced(w, n) \in FwType
           /\ Advanced(w, n).writeLen = w.writeLen + n
           /\ Advanced(w, n).header_get = w.header_get
           /\ Advanced(w, n).write_enable = w.write_enable
           /\ Advanced(w, n).reboot_after_upload = w.reboot_after_upload
           /\ Advanced(w, n).write_to_bank = (w.write_to_bank \/ ~ToIrom(w, n))
<1>1. w.writeLen + n \in Nat /\ w.write_to_bank \in BOOLEAN
  BY DEF FwType
<1>2. (w.write_to_bank \/ ~ToIrom(w, n)) \in BOOLEAN
  BY <1>1 DEF ToIrom
<1> HIDE DEF ToIrom
<1> QED BY <1>1, <1>2 DEF Advanced, FwType

\* The header starts the count anew.
LEMMA FieldsSeen ==
    /\ HeaderSeen \in FwType /\ HeaderSeen.header_get /\ HeaderSeen.write_enable
    /\ HeaderSeen.reboot_after_upload /\ ~HeaderSeen.write_to_bank /\ HeaderSeen.writeLen = 0
  BY DEF HeaderSeen, FwInit, FwType

\* Limit is all that the invariant adds to the type of fw.
LEMMA RangeIsType ==
    /\ FwRange \subseteq FwType
    /\ \A w \in FwType : w.writeLen =< Limit => w \in FwRange
<1>1. Limit \in Nat
  BY UpgradeAssumption DEF Limit
<1> QED BY <1>1 DEF FwRange, FwType

\* A piece of an image goes on with what is stored.
LEMMA StoredGoesOn ==
    ASSUME NEW m, NEW w \in FwType, NEW f, Stored(m, w, f), NEW n \in 0 .. MaxChunk,
           n > 0 \/ ToIrom(w, n)
    PROVE  Stored(Piece(m, w, f, w.writeLen + 1, n), Advanced(w, n), f)
<1> DEFINE a == w.writeLen
           E == BanksErased(w, n)
           g == Piece(m, w, f, a + 1, n)
           v == Advanced(w, n)
<1>0. a \in Nat /\ n \in Nat /\ a + 1 \in Nat /\ IromLen \in Nat /\ w.write_to_bank \in BOOLEAN
  BY UpgradeAssumption DEF FwType
<1>1. /\ v.writeLen = a + n
      /\ v.write_to_bank = (w.write_to_bank \/ ~ToIrom(w, n))
  BY <1>0, AdvancedFields
<1>2. InPlace(w) /\ Prepared(m, w)
  BY DEF Stored
<1>3. InPlace(v)
  <2>1. (w.write_to_bank \/ ~(a + n =< IromLen)) <=> a + n > IromLen
    BY <1>0, <1>2 DEF InPlace
  <2> QED BY <1>1, <2>1 DEF InPlace, ToIrom
<1> HIDE DEF E, v
<1>6. \A p \in Area :
          /\ p < a \/ p >= a + n => g[p] = IF p \in E THEN Erased ELSE m[p]
          /\ p >= a /\ p < a + n /\ (p \in E \/ m[p] = Erased)
             => g[p] = Sent(f, (a + 1) + p - a)
  BY <1>0, AreaNat DEF E, Piece, Write, Erase, Program
<1> HIDE DEF g
<1>4. ASSUME NEW p \in Area, p < a + n PROVE g[p] = Sent(f, p + 1)
  <2>1. CASE p < a
    <3>1. p \notin E
      BY <2>1, <1>2, PieceErased DEF E
    <3>2. g[p] = m[p]
      BY <2>1, <3>1, <1>6
    <3> QED BY <2>1, <3>2 DEF Stored
  <2>2. CASE p >= a
    <3>1. p \in E \/ m[p] = Erased
      BY <2>2, <1>2, <1>4, PieceErased DEF E
    <3>2. g[p] = Sent(f, (a + 1) + p - a)
      BY <2>2, <3>1, <1>4, <1>6
    <3>3. (a + 1) + p - a = p + 1
      BY <1>0, AreaNat
    <3> QED BY <3>2, <3>3
  <2> QED BY <2>1, <2>2, <1>0, AreaNat
<1>5. Prepared(g, v)
  <2> SUFFICES ASSUME NEW p \in Area, p >= a + n,
                      p < IromLen \/ (a + n > IromLen /\ BlockOffset(a + n) /= 0 /\ p \in Block(a + n))
               PROVE  g[p] = Erased
    BY <1>1 DEF Prepared
  <2>1. p \in E \/ m[p] = Erased
    BY <1>2, PieceErased DEF E
  <2>2. g[p] = IF p \in E THEN Erased ELSE m[p]
    BY <1>6
  <2> QED BY <2>1, <2>2
<1> QED BY <1>1, <1>3, <1>4, <1>5 DEF Stored, g, v

\* The piece with the header begins with nothing stored and erases the IROM section.
LEMMA StoredBegins ==
    ASSUME NEW m, NEW f, NEW n \in 1 .. MaxChunk
    PROVE  Stored(Write(Erase(m, Irom \cup BanksErased(HeaderSeen, n - 1)), 0, f, 0 + 1, n - 1),
                  Advanced(HeaderSeen, n - 1), f)
<1>1. n - 1 \in 0 .. MaxChunk /\ IromLen \in Nat /\ n - 1 < IromLen
  BY UpgradeAssumption
<1>2. ToIrom(HeaderSeen, n - 1) /\ BanksErased(HeaderSeen, n - 1) = {}
  BY <1>1, FieldsSeen DEF ToIrom, BanksErased
<1> DEFINE k == Erase(m, Irom)
<1>3. Stored(k, HeaderSeen, f)
  <2>1. Prepared(k, HeaderSeen)
    BY FieldsSeen, AreaNat, <1>1 DEF Prepared, Erase, Irom
  <2>2. InPlace(HeaderSeen)
    BY FieldsSeen, <1>1 DEF InPlace
  <2> QED BY <2>1, <2>2, FieldsSeen, AreaNat DEF Stored
<1>4. Erase(k, {}) = k /\ Irom \cup {} = Irom
  BY DEF Erase
<1>5. Piece(k, HeaderSeen, f, 0 + 1, n - 1) = Write(k, 0, f, 0 + 1, n - 1)
  BY <1>2, <1>4, FieldsSeen DEF Piece
<1>6. Stored(Piece(k, HeaderSeen, f, HeaderSeen.writeLen + 1, n - 1), Advanced(HeaderSeen, n - 1), f)
  BY <1>1, <1>2, <1>3, FieldsSeen, StoredGoesOn
<1> QED BY <1>2, <1>4, <1>5, <1>6, FieldsSeen

-----------------------------------------------------------------------------
(* What one piece does to the invariant                                    *)

\* The type invariant, with the names used here.
LEMMA Typed ==
    ASSUME TypeOK
    PROVE  flash \in [Area -> CellType] /\ fw \in FwRange /\ fw \in FwType
           /\ upload \in [file : Files \cup {NoFile}, offset : Nat, alone : BOOLEAN]
<1>1. flash \in [Area -> CellType] /\ fw \in FwRange
  BY DEF TypeOK, CellType, FwRange, Limit
<1> QED BY <1>1, RangeIsType DEF TypeOK

\* The first piece of a file starts an image or is refused.
LEMMA FirstPiece ==
    ASSUME TypeOK, NEW f \in Files, NEW n \in 1 .. MaxChunk, ImageWrite(HttpInit, f, 0, n)
    PROVE  /\ flash' \in [Area -> CellType] /\ fw' \in FwRange
           /\ fw'.header_get => fw'.writeLen = n - 1
           /\ IF f.image \in Images
              THEN /\ fw'.header_get /\ fw'.write_enable /\ fw'.reboot_after_upload
                   /\ fw'.writeLen = n - 1 /\ Stored(flash', fw', f)
              ELSE ~fw'.header_get /\ ~fw'.reboot_after_upload
<1>1. HttpInit \in FwRange /\ ~HttpInit.header_get
  BY Typed DEF HttpInit, FwRange
<1>2. n \in Nat /\ n - 1 \in Nat /\ n - 1 =< Limit /\ 0 + 1 \in Nat
  BY FileFacts
<1>3. CASE HasHeader(f, 0)
  <2>1. /\ flash' = Write(Erase(flash, Irom \cup BanksErased(HeaderSeen, n - 1)),
                          0, f, 0 + 1, n - 1)
        /\ fw' = Advanced(HeaderSeen, n - 1)
    BY <1>1, <1>3 DEF ImageWrite
  <2>2. /\ fw' \in FwType /\ fw'.writeLen = n - 1 /\ fw'.header_get /\ fw'.write_enable
        /\ fw'.reboot_after_upload
    <3> DEFINE k == n - 1
    <3>1. k \in Nat /\ fw' = Advanced(HeaderSeen, k)
      BY <1>2, <2>1
    <3> HIDE DEF k
    <3>2. /\ fw' \in FwType /\ fw'.writeLen = 0 + k /\ fw'.header_get /\ fw'.write_enable
          /\ fw'.reboot_after_upload
      BY <3>1, FieldsSeen, AdvancedFields
    <3> QED BY <3>2, <1>2 DEF k
  <2>3. fw' \in FwRange
    BY <2>2, <1>2, RangeIsType
  <2>4. flash' \in [Area -> CellType]
    <3> DEFINE k == Erase(flash, Irom \cup BanksErased(HeaderSeen, n - 1))
    <3>1. k \in [Area -> CellType]
      BY Typed, EraseType
    <3> HIDE DEF k
    <3>2. Write(k, 0, f, 0 + 1, n - 1) \in [Area -> CellType]
      BY <3>1, <1>2, WriteType
    <3> QED BY <3>2, <2>1 DEF k
  <2>5. Stored(flash', fw', f)
    BY <2>1, StoredBegins
  <2> QED BY <2>2, <2>3, <2>4, <2>5, <1>3 DEF HasHeader
<1>4. CASE ~HasHeader(f, 0)
  <2>1. flash' = flash /\ fw' = HeaderWrong(HttpInit)
    BY <1>1, <1>4 DEF ImageWrite
  <2>2. fw' \in FwRange /\ ~fw'.header_get /\ ~fw'.reboot_after_upload
    BY <2>1, <1>1 DEF HeaderWrong, FwRange
  <2> QED BY <2>1, <2>2, <1>4, Typed DEF HasHeader
<1> QED BY <1>3, <1>4

\* A later piece goes on with the image, or with nothing.
LEMMA LaterPiece ==
    ASSUME UInv, Busy, NEW n \in 1 .. MaxChunk, upload.offset + n =< Size(upload.file),
           ImageWrite(fw, upload.file, upload.offset, n)
    PROVE  /\ flash' \in [Area -> CellType] /\ fw' \in FwRange
           /\ fw'.header_get => fw'.writeLen =< upload.offset + n + MaxChunk - 2
           /\ upload.alone =>
              IF upload.file.image \in Images
              THEN /\ fw'.header_get /\ fw'.write_enable /\ fw'.reboot_after_upload
                   /\ fw'.writeLen = upload.offset + n - 1
                   /\ Stored(flash', fw', upload.file)
              ELSE ~fw'.header_get /\ ~fw'.reboot_after_upload
<1> DEFINE f == upload.file
           s == upload.offset
<1>1. /\ TypeOK /\ f \in Files /\ s \in Nat /\ s >= 1 /\ n \in Nat
      /\ fw.header_get => fw.writeLen =< s + MaxChunk - 2
      /\ upload.alone => IF f.image \in Images THEN Storing
                         ELSE ~fw.header_get /\ ~fw.reboot_after_upload
  BY Typed DEF UInv, Busy
<1>2. /\ flash \in [Area -> CellType] /\ fw \in FwRange /\ fw \in FwType
      /\ fw.writeLen \in Nat /\ MaxChunk \in Nat
  BY <1>1, Typed, FileFacts DEF FwType
<1>3. ~HasHeader(f, s)
  BY <1>1 DEF HasHeader
<1> HIDE DEF f, s
<1>4. CASE ~fw.header_get
  <2>1. flash' = flash /\ fw' = HeaderWrong(fw)
    BY <1>3, <1>4 DEF ImageWrite, f, s
  <2>2. fw' \in FwRange /\ ~fw'.header_get /\ ~fw'.reboot_after_upload
    BY <2>1, <1>2, <1>4 DEF HeaderWrong, FwRange
  <2> QED BY <2>1, <2>2, <1>1, <1>2, <1>4 DEF Storing, f
<1>5. CASE fw.header_get /\ fw.write_enable
  <2>1. flash' = Piece(flash, fw, f, s, n) /\ fw' = Advanced(fw, n)
    BY <1>5 DEF ImageWrite, Piece, f, s
  <2>2. /\ fw' \in FwType /\ fw'.writeLen = fw.writeLen + n
        /\ fw'.header_get /\ fw'.write_enable
        /\ fw'.reboot_after_upload = fw.reboot_after_upload
    BY <2>1, <1>1, <1>2, <1>5, AdvancedFields
  <2>3. fw'.writeLen =< s + n + MaxChunk - 2
    BY <2>2, <1>1, <1>2, <1>5
  <2>4. fw' \in FwRange
    <3>1. s + n =< Size(f)
      BY DEF f, s
    <3>2. fw'.writeLen =< Limit
      BY <3>1, <2>2, <2>3, <1>1, <1>2, FileFacts
    <3> QED BY <3>2, <2>2, RangeIsType
  <2>5. flash' \in [Area -> CellType]
    <3> DEFINE k == Erase(flash, BanksErased(fw, n))
    <3>1. k \in [Area -> CellType]
      BY <1>2, EraseType
    <3> HIDE DEF k
    <3>2. Write(k, fw.writeLen, f, s, n) \in [Area -> CellType]
      BY <3>1, <1>1, <1>2, WriteType
    <3> QED BY <3>2, <2>1 DEF k, Piece
  <2>6. ASSUME upload.alone, f.image \in Images
        PROVE  /\ fw.reboot_after_upload /\ fw'.writeLen = s + n - 1
               /\ Stored(flash', fw', f)
    <3>1. fw.reboot_after_upload /\ fw.writeLen = s - 1 /\ Stored(flash, fw, f)
      BY <2>6, <1>1 DEF Storing, f, s
    <3>2. n \in 0 .. MaxChunk /\ n > 0 /\ s = fw.writeLen + 1
      BY <3>1, <1>1, <1>2
    <3>3. Stored(Piece(flash, fw, f, fw.writeLen + 1, n), Advanced(fw, n), f)
      BY <3>1, <3>2, <1>2, StoredGoesOn
    <3> QED BY <3>1, <3>2, <3>3, <2>1, <2>2, <1>1, <1>2
  <2>7. ~(upload.alone /\ f.image \notin Images)
    BY <1>1, <1>5
  <2> QED BY <2>2, <2>3, <2>4, <2>5, <2>6, <2>7 DEF f, s
<1>6. CASE fw.header_get /\ ~fw.write_enable
  <2>1. flash' = flash /\ fw' = fw
    BY <1>6 DEF ImageWrite
  <2>2. ~upload.alone
    BY <1>1, <1>6 DEF Storing
  <2>3. fw.writeLen =< s + n + MaxChunk - 2
    BY <1>1, <1>2, <1>6
  <2> QED BY <2>1, <2>2, <2>3, <1>2 DEF s
<1> QED BY <1>4, <1>5, <1>6

-----------------------------------------------------------------------------
(* The steps                                                               *)

\* The registers keep the warm start only on the way to the loader.
WarmInv == mode = "WARM" => at = "reset"

Inv == UInv /\ WarmInv

\* The factory image, at a cold start.
LEMMA InitInv == Init => Inv
<1> SUFFICES ASSUME Init PROVE Inv
  OBVIOUS
<1>1. PICK i \in Images :
          flash = [p \in Area |-> IF p < Length[i] THEN Cell(i, p) ELSE Erased]
  BY DEF Init
<1>2. flash \in [Area -> CellType]
  BY <1>1 DEF CellType
<1>3. fw \in FwRange /\ upload = NoUpload
  BY LimitFacts DEF Init, FwInit, FwRange
<1>4. TypeOK
  BY <1>2, <1>3 DEF Init, TypeOK, CellType, FwRange, Limit, NoUpload
<1> QED BY <1>3, <1>4 DEF Inv, UInv, WarmInv, Busy, NoUpload, Init

\* A restart of the processor ends every upload and forgets the image.
LEMMA RestartInv ==
    ASSUME Inv, Restarted, flash' \in [Area -> CellType], mode' \in {"COLD", "WARM"},
           handed' \in Addresses, address' \in Addresses, saved' \in Addresses
    PROVE  Inv'
<1>1. fw' \in FwRange /\ upload' = NoUpload /\ NoUpload.file = NoFile
  BY LimitFacts DEF Restarted, FwInit, FwRange, NoUpload
<1>2. upload' \in [file : Files \cup {NoFile}, offset : Nat, alone : BOOLEAN]
  BY <1>1 DEF NoUpload
<1>3. TypeOK'
  BY <1>1, <1>2 DEF Restarted, TypeOK, CellType, FwRange, Limit
<1> QED BY <1>1, <1>3 DEF Inv, UInv, WarmInv, Busy, Restarted

\* However the loader is entered, it starts with no upload.
LEMMA EnterLoaderInv ==
    ASSUME Inv, NEW crc_error \in BOOLEAN, EnterLoader(crc_error), at = "reset", mode' = "COLD"
    PROVE  Inv'
<1>1. upload = NoUpload /\ NoUpload.file = NoFile /\ TypeOK
  BY DEF Inv, UInv, NoUpload, Busy
<1>2. fw' \in FwRange /\ upload' = NoUpload
  BY <1>1, LimitFacts DEF EnterLoader, FwInit, FwRange
<1>3. upload' \in [file : Files \cup {NoFile}, offset : Nat, alone : BOOLEAN]
  BY <1>2 DEF NoUpload
<1>4. TypeOK'
  BY <1>1, <1>2, <1>3, UpgradeAssumption DEF EnterLoader, ConfigInit, TypeOK, CellType, FwRange, Limit
<1> QED BY <1>1, <1>2, <1>4 DEF Inv, UInv, WarmInv, Busy, EnterLoader

\* The first piece of an upload.
LEMMA UploadBeginsInv ==
    ASSUME Inv, NEW f \in Files, NEW n \in 1 .. MaxChunk, UploadBegins(f, n)
    PROVE  Inv'
<1>1. TypeOK /\ n \in Nat /\ n >= 1 /\ MaxChunk \in Nat
  BY FileFacts DEF Inv, UInv
<1>2. /\ flash' \in [Area -> CellType] /\ fw' \in FwRange
      /\ fw'.header_get => fw'.writeLen = n - 1
      /\ IF f.image \in Images
         THEN /\ fw'.header_get /\ fw'.write_enable /\ fw'.reboot_after_upload
              /\ fw'.writeLen = n - 1 /\ Stored(flash', fw', f)
         ELSE ~fw'.header_get /\ ~fw'.reboot_after_upload
  BY <1>1, FirstPiece DEF UploadBegins
<1>3. /\ upload' = [file |-> f, offset |-> n, alone |-> TRUE] /\ upload'.file = f
      /\ upload'.offset = n
      /\ upload' \in [file : Files \cup {NoFile}, offset : Nat, alone : BOOLEAN]
  BY <1>1 DEF UploadBegins
<1>4. TypeOK'
  BY <1>1, <1>2, <1>3 DEF UploadBegins, bootVars, TypeOK, CellType, FwRange, Limit
<1>5. fw'.header_get => fw'.writeLen =< upload'.offset + MaxChunk - 2
  BY <1>1, <1>2, <1>3
<1>6. IF f.image \in Images THEN Storing' ELSE ~fw'.header_get /\ ~fw'.reboot_after_upload
  BY <1>2, <1>3 DEF Storing
<1> QED BY <1>1, <1>3, <1>4, <1>5, <1>6, FileFacts
        DEF UploadBegins, bootVars, Inv, UInv, WarmInv, Busy

\* An upload in one packet only marks the one it disturbs.
LEMMA ShortUploadInv ==
    ASSUME Inv, NEW f \in Files, ShortUpload(f)
    PROVE  Inv'
<1> DEFINE n == Size(f)
<1>1. TypeOK /\ n \in 1 .. MaxChunk /\ n \in Nat /\ MaxChunk \in Nat /\ n =< MaxChunk
  BY FileFacts DEF Inv, UInv, ShortUpload
<1>2. ImageWrite(HttpInit, f, 0, n)
  BY DEF ShortUpload
<1> HIDE DEF n
<1>3. /\ flash' \in [Area -> CellType] /\ fw' \in FwRange
      /\ fw'.header_get => fw'.writeLen = n - 1
  BY <1>1, <1>2, FirstPiece
<1>4. /\ upload' \in [file : Files \cup {NoFile}, offset : Nat, alone : BOOLEAN]
      /\ upload'.file = upload.file /\ upload'.offset = upload.offset
      /\ upload = NoUpload => upload' = NoUpload
      /\ upload'.alone = (upload = NoUpload)
  <2>1. upload' = [upload EXCEPT !.alone = (upload = NoUpload)]
        /\ (upload = NoUpload) \in BOOLEAN
        /\ upload \in [file : Files \cup {NoFile}, offset : Nat, alone : BOOLEAN]
    BY <1>1, Typed DEF ShortUpload
  <2>2. upload = NoUpload => upload' = NoUpload
    <3> SUFFICES ASSUME upload = NoUpload PROVE upload' = NoUpload
      OBVIOUS
    <3>1. upload' = [NoUpload EXCEPT !.alone = TRUE]
      BY <2>1
    <3> QED BY <3>1 DEF NoUpload
  <2> HIDE DEF NoUpload
  <2> QED BY <2>1, <2>2
<1>5. TypeOK'
  BY <1>1, <1>3, <1>4 DEF ShortUpload, bootVars, TypeOK, CellType, FwRange, Limit
<1>6. Busy /\ fw'.header_get => fw'.writeLen =< upload'.offset + MaxChunk - 2
  BY <1>1, <1>3, <1>4, Typed DEF Inv, UInv
<1>7. Busy' => Busy /\ upload /= NoUpload
  BY <1>4 DEF Busy, NoUpload
<1> QED BY <1>4, <1>5, <1>6, <1>7 DEF ShortUpload, bootVars, Inv, UInv, WarmInv, Busy

\* A piece in the middle.
LEMMA MoreInv ==
    ASSUME Inv, NEW n \in 1 .. MaxChunk, More(n)
    PROVE  Inv'
<1>1. /\ Busy /\ UInv /\ TypeOK /\ stat = "TRANSFERING" /\ n \in Nat
      /\ upload.offset \in Nat /\ upload.offset >= 1 /\ upload.file \in Files
  BY Typed DEF Inv, UInv, More, Busy
<1>2. upload.offset + n < Size(upload.file) /\ upload.offset + n =< Size(upload.file)
  BY <1>1, FileFacts DEF More
<1>3. /\ flash' \in [Area -> CellType] /\ fw' \in FwRange
      /\ fw'.header_get => fw'.writeLen =< upload.offset + n + MaxChunk - 2
      /\ upload.alone =>
         IF upload.file.image \in Images
         THEN /\ fw'.header_get /\ fw'.write_enable /\ fw'.reboot_after_upload
              /\ fw'.writeLen = upload.offset + n - 1
              /\ Stored(flash', fw', upload.file)
         ELSE ~fw'.header_get /\ ~fw'.reboot_after_upload
  BY <1>1, <1>2, LaterPiece DEF More
<1>4. /\ upload'.file = upload.file /\ upload'.offset = upload.offset + n
      /\ upload'.alone = upload.alone
      /\ upload' \in [file : Files \cup {NoFile}, offset : Nat, alone : BOOLEAN]
  BY <1>1, Typed DEF More
<1>5. TypeOK'
  BY <1>1, <1>2, <1>3, <1>4 DEF More, bootVars, TypeOK, CellType, FwRange, Limit
<1>6. fw'.header_get => fw'.writeLen =< upload'.offset + MaxChunk - 2
  BY <1>3, <1>4
<1>7. upload'.alone =>
          IF upload'.file.image \in Images THEN Storing'
          ELSE ~fw'.header_get /\ ~fw'.reboot_after_upload
  <2>1. upload.alone /\ upload.file.image \in Images => Storing'
    <3> SUFFICES ASSUME upload.alone, upload.file.image \in Images PROVE Storing'
      OBVIOUS
    <3>1. fw'.header_get /\ fw'.write_enable /\ fw'.reboot_after_upload
      BY <1>3
    <3>2. fw'.writeLen = upload'.offset - 1
      BY <1>1, <1>3, <1>4
    <3>3. Stored(flash', fw', upload'.file)
      BY <1>3, <1>4
    <3> QED BY <3>1, <3>2, <3>3 DEF Storing
  <2> QED BY <2>1, <1>3, <1>4
<1> QED BY <1>1, <1>4, <1>5, <1>6, <1>7 DEF More, bootVars, Inv, UInv, WarmInv, Busy

\* The last piece, and what it leaves behind.
LEMMA LastInv ==
    ASSUME Inv, NEW n \in 1 .. MaxChunk, Last(n)
    PROVE  /\ Inv'
           /\ upload.alone => IF upload.file.image \in Images
                              THEN /\ at' = "reset" /\ mode' = "COLD"
                                   /\ fw'.writeLen = Size(upload.file) - 1
                                   /\ Stored(flash', fw', upload.file)
                              ELSE at' /= "reset"
<1>1. /\ Busy /\ UInv /\ TypeOK /\ stat = "TRANSFERING" /\ n \in Nat /\ at = "loader"
      /\ upload.offset \in Nat /\ upload.offset >= 1 /\ upload.file \in Files
  BY Typed DEF Inv, UInv, Last, Busy
<1>2. upload.offset + n = Size(upload.file) /\ upload.offset + n =< Size(upload.file)
  BY <1>1, FileFacts DEF Last
<1>3. /\ flash' \in [Area -> CellType] /\ fw' \in FwRange
      /\ upload.alone =>
         IF upload.file.image \in Images
         THEN /\ fw'.header_get /\ fw'.write_enable /\ fw'.reboot_after_upload
              /\ fw'.writeLen = upload.offset + n - 1
              /\ Stored(flash', fw', upload.file)
         ELSE ~fw'.header_get /\ ~fw'.reboot_after_upload
  BY <1>1, <1>2, LaterPiece DEF Last
<1>4. /\ upload' = NoUpload /\ NoUpload.file = NoFile
      /\ upload' \in [file : Files \cup {NoFile}, offset : Nat, alone : BOOLEAN]
  BY DEF Last, NoUpload
<1>5. TypeOK'
  BY <1>1, <1>3, <1>4 DEF Last, TypeOK, CellType, FwRange, Limit
<1>6. Inv'
  BY <1>1, <1>4, <1>5 DEF Last, Inv, UInv, WarmInv, Busy
<1> QED BY <1>1, <1>2, <1>3, <1>6 DEF Last

\* A write that is broken off leaves cells, whatever they hold.
LEMMA TornWriteType ==
    ASSUME flash \in [Area -> CellType], NEW E, NEW front, NEW to \in Nat, NEW f \in Files,
           NEW s \in Nat, NEW n \in Nat, TornWrite(E, front, to, f, s, n)
    PROVE  flash' \in [Area -> CellType]
<1>1. PICK k \in 0 .. n :
          \/ flash' = Write(flash, to, f, s, k)
          \/ flash' = Write(Erase(flash, E), to, f, s, k)
          \/ flash' = [p \in Area |-> IF p \in E THEN Scrap ELSE Write(flash, to, f, s, k)[p]]
  BY DEF TornWrite
<1>2. Write(flash, to, f, s, k) \in [Area -> CellType]
  BY WriteType
<1>3. Write(Erase(flash, E), to, f, s, k) \in [Area -> CellType]
  <2> DEFINE m == Erase(flash, E)
  <2>1. m \in [Area -> CellType]
    BY EraseType
  <2> HIDE DEF m
  <2>2. Write(m, to, f, s, k) \in [Area -> CellType]
    BY <2>1, WriteType
  <2> QED BY <2>2 DEF m
<1>4. [p \in Area |-> IF p \in E THEN Scrap ELSE Write(flash, to, f, s, k)[p]]
      \in [Area -> CellType]
  <2>1. Scrap \in CellType
    BY DEF CellType
  <2> HIDE DEF CellType
  <2> QED BY <1>2, <2>1
<1> QED BY <1>1, <1>2, <1>3, <1>4

\* A power cut during a piece is a restart with whatever the flash then holds.
LEMMA PowerFailsWritingInv ==
    ASSUME Inv, NEW n \in 1 .. MaxChunk, PowerFailsWriting(n)
    PROVE  Inv'
<1>1. TypeOK /\ flash \in [Area -> CellType] /\ n \in Nat /\ n - 1 \in Nat
  BY Typed DEF Inv, UInv
<1>2. CASE TornFirst(n)
  <2>1. PICK f \in Files : TornWrite(Irom, 0, 0, f, 1, n - 1)
    BY <1>2 DEF TornFirst
  <2>2. flash' \in [Area -> CellType]
    BY <1>1, <2>1, TornWriteType
  <2> QED BY <1>1, <2>2, RestartInv DEF PowerFailsWriting, TypeOK
<1>3. CASE TornLater(n)
  <2>1. fw.writeLen \in Nat /\ upload.offset \in Nat /\ upload.file \in Files
    BY <1>1, <1>3, Typed DEF Inv, UInv, PowerFailsWriting, TornLater, FwRange, FwType, Busy
  <2>2. TornWrite(BanksErased(fw, n), Front(fw, n), fw.writeLen, upload.file, upload.offset, n)
    BY <1>3 DEF TornLater
  <2>3. flash' \in [Area -> CellType]
    BY <1>1, <2>1, <2>2, TornWriteType
  <2> QED BY <1>1, <2>3, RestartInv DEF PowerFailsWriting, TypeOK
<1> QED BY <1>2, <1>3 DEF PowerFailsWriting

\* Every step keeps the invariant.
LEMMA StepInv == Inv /\ [Next]_vars => Inv'
<1> SUFFICES ASSUME Inv, [Next]_vars PROVE Inv'
  OBVIOUS
<1>1. TypeOK /\ flash \in [Area -> CellType]
  BY Typed DEF Inv, UInv
<1>2. CASE \E f \in Files, n \in 1 .. MaxChunk : UploadBegins(f, n)
  BY <1>2, UploadBeginsInv
<1>3. CASE \E f \in Files : ShortUpload(f)
  BY <1>3, ShortUploadInv
<1>4. CASE \E n \in 1 .. MaxChunk : More(n) \/ Last(n)
  BY <1>4, MoreInv, LastInv
<1>5. CASE Drop
  <2>1. upload' = NoUpload /\ NoUpload.file = NoFile
        /\ NoUpload \in [file : Files \cup {NoFile}, offset : Nat, alone : BOOLEAN]
    BY <1>5 DEF Drop, NoUpload
  <2>2. TypeOK'
    BY <1>1, <1>5, <2>1 DEF Drop, bootVars, TypeOK
  <2> QED BY <1>5, <2>1, <2>2 DEF Drop, bootVars, Inv, UInv, WarmInv, Busy
<1>6. CASE PowerFails \/ LoaderReboot
  BY <1>1, <1>6, RestartInv DEF PowerFails, LoaderReboot, TypeOK
<1>7. CASE \E n \in 1 .. MaxChunk : PowerFailsWriting(n)
  BY <1>7, PowerFailsWritingInv
<1>8. CASE WarmStart \/ EscapeKey \/ NothingBoots
  BY <1>8, EnterLoaderInv DEF WarmStart, EscapeKey, NothingBoots
<1>9. CASE Boots
  <2>1. TypeOK'
    BY <1>1, <1>9 DEF Boots, TypeOK
  <2> QED BY <1>9, <2>1 DEF Boots, Inv, UInv, WarmInv, Busy, NoUpload
<1>10. CASE RuntimeReboot
  BY <1>1, <1>10, RestartInv DEF RuntimeReboot, TypeOK, Inv, WarmInv
<1>11. CASE NewAddress
  <2>1. TypeOK'
    BY <1>1, <1>11 DEF NewAddress, TypeOK
  <2> QED BY <1>11, <2>1 DEF NewAddress, Inv, UInv, WarmInv, Busy
<1>12. CASE LoaderModeSet
  BY <1>1, <1>12, RestartInv DEF LoaderModeSet, TypeOK
<1>13. CASE UNCHANGED vars
  <2>1. TypeOK'
    BY <1>1, <1>13 DEF vars, bootVars, TypeOK
  <2>2. Busy => Storing' = Storing
    BY <1>13 DEF vars, bootVars, Storing, Stored, Prepared
  <2> QED BY <1>13, <2>1, <2>2 DEF vars, bootVars, Inv, UInv, WarmInv, Busy
<1> QED
  BY <1>2, <1>3, <1>4, <1>5, <1>6, <1>7, <1>8, <1>9, <1>10, <1>11, <1>12, <1>13
  DEF Next, Receive

\* Only the last packet of an upload finishes it.
LEMMA FinishIsLast ==
    ASSUME [Next]_vars, Finishes
    PROVE  \E n \in 1 .. MaxChunk : Last(n)
  BY DEF Finishes, Next, Receive, vars, bootVars, UploadBegins, ShortUpload, More, Drop,
         PowerFails, PowerFailsWriting, Restarted, WarmStart, EscapeKey, NothingBoots,
         EnterLoader, Boots, LoaderReboot, RuntimeReboot, NewAddress, LoaderModeSet

-----------------------------------------------------------------------------
(* Theorems                                                                *)

\* The invariant holds always.
LEMMA Invariance == Spec => []Inv
<1>1. Init => Inv
  BY InitInv
<1>2. Inv /\ [Next]_vars => Inv'
  BY StepInv
<1> QED BY <1>1, <1>2, PTL DEF Spec

\* sal_fwug_image_write counts no further than the end of the area, and the
\* variables keep their ranges (salfwug.c:183-284).
THEOREM TypeCorrect == Spec => []TypeOK
<1>1. Inv => TypeOK
  BY DEF Inv, UInv
<1> QED BY <1>1, Invariance, PTL

\* A complete image that is uploaded by itself is in the flash, cell by cell,
\* when its upload finishes, however it was cut into packets and whatever the
\* flash held before (salfwug.c:226-280).
THEOREM UploadedImageStored == Spec => UploadedImageIsWhole
<1>1. Inv /\ [Next]_vars =>
      [Finishes /\ upload.alone /\ Complete(upload.file)
       => /\ at' = "reset" /\ mode' = "COLD"
          /\ \A p \in 0 .. Length[upload.file.image] - 1 :
                 flash'[p] = Cell(upload.file.image, p)]_vars
  <2> SUFFICES ASSUME Inv, [Next]_vars, Finishes, upload.alone, Complete(upload.file)
               PROVE  /\ at' = "reset" /\ mode' = "COLD"
                      /\ \A p \in 0 .. Length[upload.file.image] - 1 :
                             flash'[p] = Cell(upload.file.image, p)
    OBVIOUS
  <2> DEFINE f == upload.file
  <2>1. PICK n \in 1 .. MaxChunk : Last(n)
    BY FinishIsLast
  <2>2. f \in Files /\ f.image \in Images /\ f.cells = Length[f.image]
    BY <2>1, Typed DEF Complete, Inv, UInv, Last, Busy
  <2>3. at' = "reset" /\ mode' = "COLD" /\ fw'.writeLen = Size(f) - 1 /\ Stored(flash', fw', f)
    BY <2>1, <2>2, LastInv
  <2> HIDE DEF f
  <2>4. ASSUME NEW p \in 0 .. f.cells - 1 PROVE flash'[p] = Cell(f.image, p)
    <3>1. p \in Area /\ p < fw'.writeLen /\ p \in Nat
      <4>1. /\ f.cells \in Nat /\ TrailerLen \in Nat /\ MaxChunk \in Nat /\ Limit \in Nat
            /\ f.cells + TrailerLen + MaxChunk =< Limit + 1 /\ TrailerLen > 0 /\ MaxChunk > 0
            /\ Size(f) = 1 + f.cells + TrailerLen
        BY <2>2, FileFacts
      <4>2. p \in Nat /\ p < f.cells /\ f.cells =< Limit
        BY <4>1
      <4> QED BY <2>3, <4>1, <4>2, LimitFacts
    <3>2. flash'[p] = Sent(f, p + 1)
      BY <3>1, <2>3 DEF Stored
    <3>3. p + 1 >= 1 /\ p + 1 =< f.cells /\ p + 1 - 1 = p
      BY <3>1, <2>2, FileFacts
    <3> QED BY <3>2, <3>3, <2>2 DEF Sent
  <2> QED BY <2>2, <2>3, <2>4 DEF f
<1> QED BY <1>1, Invariance, PTL DEF Spec, UploadedImageIsWhole

\* A file without an image header never restarts the switch, whatever was
\* uploaded before it (salfwug.c:218-224, 301).
THEOREM ImagesRestart == Spec => OnlyImagesRestart
<1>1. Inv /\ [Next]_vars =>
      [Finishes /\ upload.alone /\ at' = "reset" => upload.file.image \in Images]_vars
  <2> SUFFICES ASSUME Inv, [Next]_vars, Finishes, upload.alone, at' = "reset"
               PROVE  upload.file.image \in Images
    OBVIOUS
  <2>1. PICK n \in 1 .. MaxChunk : Last(n)
    BY FinishIsLast
  <2> QED BY <2>1, LastInv
<1> QED BY <1>1, Invariance, PTL DEF Spec, OnlyImagesRestart

=============================================================================
