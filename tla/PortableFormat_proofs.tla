------------------------- MODULE PortableFormat_proofs -------------------------
(* Whatever bytes it is given and wherever they are cut off, and whichever allocation      *)
(* fails, the reader of PortableFormat stays within maxbytes and frees what it has made.   *)
(* What the portable writer writes it reads back, and fails when that is cut off; and      *)
(* ra_portable_deserialize_size says of any bytes what the reader will do.                 *)
EXTENDS PortableFormat, SequenceTheorems, NaturalsInduction, WellFoundedInduction, TLAPS

Writing == {"header", "descriptions", "offsets", "containers", "written"}
Ahead == {"read_cookie", "read_size", "read_flags", "read_keys"}
Behind == {"read_offsets", "read_container", "read_runs"}

\* What is written is bytes.
WriteInv ==
    /\ b \in Bitmaps /\ buf \in Seq(Byte) /\ startOffset \in Nat
    /\ pc \in {"descriptions", "offsets", "containers"} => k \in 1..Len(b)

\* The pointer and the count of the reader agree, except between the number of runs and the
\* runs, and neither has passed maxbytes.
Places ==
    /\ input \in Seq(Byte) /\ maxbytes \in 0..Len(input) /\ touched \in 0..maxbytes
    /\ at \in Nat /\ readbytes \in Nat /\ n_runs \in Nat
    /\ size \in Nat /\ keyscards \in Nat
PlaceInv ==
    /\ pc \in Writing \cup {"read_cookie"} => readbytes = 0 /\ at = 0 /\ touched = 0
    /\ pc \in {"read_size", "read_flags"} => readbytes = 4 /\ at = 4
    /\ pc \in {"read_keys", "read_offsets", "read_container", "done"} => readbytes = at
    /\ pc = "read_runs" => readbytes = at + 2
    /\ pc # "failed" => readbytes <= maxbytes
    /\ pc \in Behind => keyscards + 4 * size <= maxbytes

\* What is allocated at each place: the containers counted in answer, no more and no fewer.
Arrays == IF size = 0 THEN {} ELSE {Array}
Holding(n) == {Bitmap} \cup Arrays \cup {Container(i) : i \in 1..n}
HeapInv ==
    /\ pc \in Writing \cup Ahead \cup Behind \cup {"done", "failed"}
    /\ wild = FALSE
    /\ pc \in Writing => heap = {}
    /\ pc \in Ahead => heap = {Bitmap}
    /\ pc \in Writing \cup Ahead => answer = <<>>
    /\ pc \in Behind => /\ k \in 1..size + 1 /\ DOMAIN answer = 1..k - 1 /\ heap = Holding(k - 1)
                        /\ answer \in Seq([kind : Kind, card : Nat, data : Seq(Byte)])
    /\ pc = "read_offsets" => k = 1
    /\ pc = "read_runs" => k <= size
    /\ pc = "done" => heap = Holding(size)
    /\ pc = "failed" => heap = {}

IInv == WriteInv /\ Places /\ PlaceInv /\ HeapInv
-------------------------------------------------------------------------------
(* Bytes and numbers *)

\* The bytes of a number are bytes.
LEMMA U16Bytes == ASSUME NEW n \in Nat PROVE U16(n) \in Seq(Byte)
<1>1. n % 256 \in Byte /\ (n \div 256) % 256 \in Byte
  BY DEF Byte, Below
<1> QED
  BY <1>1 DEF U16

LEMMA U32Bytes == ASSUME NEW n \in Nat PROVE U32(n) \in Seq(Byte)
<1>1. n \div 65536 \in Nat
  OBVIOUS
<1>2. U16(n) \in Seq(Byte) /\ U16(n \div 65536) \in Seq(Byte)
  BY <1>1, U16Bytes
<1> QED
  BY <1>2, ConcatProperties DEF U32

\* A number read within a buffer is a number.
LEMMA GetU16Nat ==
    ASSUME NEW s \in Seq(Byte), NEW p \in Nat, p + 2 <= Len(s)
    PROVE  GetU16(s, p) \in Nat
<1>1. Len(s) \in Nat
  BY LenProperties
<1>2. p + 1 \in 1..Len(s) /\ p + 2 \in 1..Len(s)
  BY <1>1
<1>3. s[p + 1] \in Byte /\ s[p + 2] \in Byte
  BY <1>2, ElementOfSeq
<1> QED
  BY <1>3 DEF GetU16, Byte, Below

LEMMA GetU32Nat ==
    ASSUME NEW s \in Seq(Byte), NEW p \in Nat, p + 4 <= Len(s)
    PROVE  GetU32(s, p) \in Nat
<1>1. Len(s) \in Nat
  BY LenProperties
<1>2. p + 2 \in Nat /\ p + 2 <= Len(s) /\ (p + 2) + 2 <= Len(s)
  BY <1>1
<1>3. GetU16(s, p) \in Nat
  BY <1>2, GetU16Nat
<1>4. GetU16(s, p + 2) \in Nat
  BY <1>2, GetU16Nat
<1> QED
  BY <1>3, <1>4 DEF GetU32

\* A bitmap's slots.
LEMMA SlotOf ==
    ASSUME NEW c \in Bitmaps, NEW i \in 1..Len(c)
    PROVE  /\ c[i].key \in Nat /\ c[i].card \in Nat /\ c[i].card - 1 \in Nat
           /\ c[i].kind \in Kind /\ c[i].data \in Seq(Byte) /\ Runs(c[i]) \in Nat
<1>1. c \in Seq(Slot)
  BY BitmapsAssumption
<1>2. c[i] \in Slot
  BY <1>1, ElementOfSeq
<1>3. /\ c[i].key \in Nat /\ c[i].card \in Nat /\ c[i].card - 1 \in Nat
      /\ c[i].kind \in Kind /\ c[i].data \in Seq(Byte)
  BY <1>2 DEF Slot, Below
<1>4. Len(c[i].data) \in Nat
  BY <1>3, LenProperties
<1>5. \A n \in Nat : n \div 4 \in Nat
  OBVIOUS
<1>6. Len(c[i].data) \div 4 \in Nat
  BY <1>4, <1>5
<1> QED
  BY <1>3, <1>6 DEF Runs

LEMMA SlotsNat == ASSUME NEW c \in Bitmaps PROVE Len(c) \in Nat
<1>1. c \in Seq(Slot)
  BY BitmapsAssumption
<1> QED
  BY <1>1, LenProperties

\* The flags fill whole bytes.
LEMMA FlagBytesNat == ASSUME NEW n \in Nat PROVE FlagBytes(n) \in Nat
BY DEF FlagBytes

\* Eight flags are a byte.
LEMMA EightFlags ==
    ASSUME NEW f \in [0..7 -> 0..1]
    PROVE  f[0] + 2 * f[1] + 4 * f[2] + 8 * f[3] + 16 * f[4] + 32 * f[5] + 64 * f[6] + 128 * f[7]
           \in Byte
<1>1. PICK p \in 0..1 : p = f[0]
  OBVIOUS
<1>2. PICK q \in 0..1 : q = f[1]
  OBVIOUS
<1>3. PICK r \in 0..1 : r = f[2]
  OBVIOUS
<1>4. PICK s \in 0..1 : s = f[3]
  OBVIOUS
<1>5. PICK t \in 0..1 : t = f[4]
  OBVIOUS
<1>6. PICK u \in 0..1 : u = f[5]
  OBVIOUS
<1>7. PICK v \in 0..1 : v = f[6]
  OBVIOUS
<1>8. PICK w \in 0..1 : w = f[7]
  OBVIOUS
<1>9. p + 2 * q + 4 * r + 8 * s \in Nat /\ p + 2 * q + 4 * r + 8 * s <= 15
  OBVIOUS
<1>10. 16 * t + 32 * u + 64 * v + 128 * w \in Nat /\ 16 * t + 32 * u + 64 * v + 128 * w <= 240
  OBVIOUS
<1>11. p + 2 * q + 4 * r + 8 * s + 16 * t + 32 * u + 64 * v + 128 * w \in Byte
  BY <1>9, <1>10 DEF Byte, Below
<1> QED
  BY <1>1, <1>2, <1>3, <1>4, <1>5, <1>6, <1>7, <1>8, <1>11, Zenon

LEMMA RunFlagsBytes == ASSUME NEW c \in Bitmaps PROVE RunFlags(c) \in Seq(Byte)
<1>1. FlagBytes(Len(c)) \in Nat
  BY SlotsNat, FlagBytesNat
<1>2. ASSUME NEW j \in 1..FlagBytes(Len(c)) PROVE FlagByte(c, j - 1) \in Byte
  <2>1. \A i : FlagOf(c, i) = 0 \/ FlagOf(c, i) = 1
    BY DEF FlagOf
  <2>2. \A i : FlagOf(c, i) \in 0..1
    BY <2>1
  <2> DEFINE f == [i \in 0..7 |-> FlagOf(c, 8 * (j - 1) + i)]
  <2>3. f \in [0..7 -> 0..1]
    BY <2>2
  <2>4. /\ f[0] = FlagOf(c, 8 * (j - 1)) /\ f[1] = FlagOf(c, 8 * (j - 1) + 1)
        /\ f[2] = FlagOf(c, 8 * (j - 1) + 2) /\ f[3] = FlagOf(c, 8 * (j - 1) + 3)
        /\ f[4] = FlagOf(c, 8 * (j - 1) + 4) /\ f[5] = FlagOf(c, 8 * (j - 1) + 5)
        /\ f[6] = FlagOf(c, 8 * (j - 1) + 6) /\ f[7] = FlagOf(c, 8 * (j - 1) + 7)
    OBVIOUS
  <2> HIDE DEF f
  <2>5. FlagByte(c, j - 1) = f[0] + 2 * f[1] + 4 * f[2] + 8 * f[3] + 16 * f[4] + 32 * f[5]
                             + 64 * f[6] + 128 * f[7]
    BY <2>4, Zenon DEF FlagByte
  <2> QED
    BY <2>3, <2>5, EightFlags
<1>3. RunFlags(c) \in [1..FlagBytes(Len(c)) -> Byte]
  BY <1>2 DEF RunFlags
<1> QED
  BY <1>1, <1>3, IsASeq
-------------------------------------------------------------------------------
LEMMA InitIInv == Init => IInv
<1> SUFFICES ASSUME Init PROVE IInv
  OBVIOUS
<1>1. <<>> \in Seq(Byte) /\ Len(<<>>) = 0
  OBVIOUS
<1>2. WriteInv
  BY <1>1 DEF Init, WriteInv
<1>3. Places
  <2>1. input \in Seq(Byte) /\ Len(input) = 0
    BY <1>1 DEF Init
  <2>2. /\ maxbytes = 0 /\ touched = 0 /\ at = 0 /\ readbytes = 0 /\ n_runs = 0
        /\ size = 0 /\ keyscards = 0
    BY DEF Init
  <2>3. maxbytes \in 0..Len(input) /\ touched \in 0..maxbytes
    BY <2>1, <2>2
  <2>4. /\ at \in Nat /\ readbytes \in Nat /\ n_runs \in Nat /\ size \in Nat /\ keyscards \in Nat
    BY <2>2
  <2> QED
    BY <2>1, <2>3, <2>4 DEF Places
<1>4. PlaceInv
  BY DEF Init, PlaceInv, Writing, Behind
<1>5. HeapInv
  BY DEF Init, HeapInv, Writing, Ahead, Behind
<1> QED
  BY <1>2, <1>3, <1>4, <1>5 DEF IInv
-------------------------------------------------------------------------------
(* What the lemmas on the actions share *)

\* A step of the writer leaves the reader alone.
LEMMA WriterKeeps ==
    ASSUME IInv, pc \in Writing, pc' \in Writing, UNCHANGED Reading
    PROVE  Places' /\ PlaceInv' /\ HeapInv'
<1>1. Places'
  BY DEF IInv, Places, Reading, header
<1>2. PlaceInv'
  BY DEF IInv, PlaceInv, Reading, header, Writing, Behind
<1>3. HeapInv'
  BY DEF IInv, HeapInv, Reading, header, Writing, Ahead, Behind
<1> QED
  BY <1>1, <1>2, <1>3

\* A step of the reader leaves the writer alone.
LEMMA ReaderKeeps ==
    ASSUME IInv, UNCHANGED written, pc' \notin {"descriptions", "offsets", "containers"}
    PROVE  WriteInv'
BY DEF IInv, WriteInv, written

\* Bytes taken from a buffer.
LEMMA BytesSeq ==
    ASSUME NEW s \in Seq(Byte), NEW p \in Nat, NEW n \in Nat
    PROVE  Bytes(s, p, n) \in Seq(Byte)
<1>1. CASE p + n <= Len(s)
  <2>1. \A i \in (p + 1)..(p + n) : i \in 1..Len(s)
    BY <1>1, LenProperties
  <2>2. \A i \in (p + 1)..(p + n) : s[i] \in Byte
    BY <2>1, ElementOfSeq
  <2>3. SubSeq(s, p + 1, p + n) \in Seq(Byte)
    BY <2>2, SubSeqProperties
  <2> QED
    BY <1>1, <2>3 DEF Bytes
<1>2. CASE ~(p + n <= Len(s))
  BY <1>2 DEF Bytes
<1> QED
  BY <1>1, <1>2

\* The description of the container at hand has been read, and is one.
LEMMA Described ==
    ASSUME IInv, pc \in Behind, k <= size
    PROVE  k \in Nat \ {0} /\ keyscards + 4 * k <= maxbytes /\ Card \in Nat /\ KindHere \in Kind
<1>1. /\ k \in 1..size + 1 /\ keyscards \in Nat /\ size \in Nat /\ maxbytes \in Nat
      /\ keyscards + 4 * size <= maxbytes
  BY LenProperties DEF IInv, Places, PlaceInv, HeapInv
<1>2. k \in Nat \ {0} /\ keyscards + 4 * k <= maxbytes
  BY <1>1
<1>3. input \in Seq(Byte) /\ maxbytes <= Len(input) /\ Len(input) \in Nat
  BY LenProperties DEF IInv, Places
<1>4. /\ keyscards + 4 * (k - 1) + 2 \in Nat
      /\ (keyscards + 4 * (k - 1) + 2) + 2 <= Len(input)
  BY <1>1, <1>2, <1>3
<1>5. GetU16(input, keyscards + 4 * (k - 1) + 2) \in Nat
  BY <1>3, <1>4, GetU16Nat
<1>6. Card \in Nat
  BY <1>5 DEF Card, CardAt
<1>7. KindHere \in Kind
  BY DEF KindHere, KindOf, Kind
<1> QED
  BY <1>2, <1>6, <1>7

\* A field has a length.
LEMMA NeededNat == ASSUME IInv, AtField PROVE Needed \in Nat
<1>1. size \in Nat /\ n_runs \in Nat
  BY DEF IInv, Places
<1>2. CASE pc \in {"read_cookie", "read_size"}
  BY <1>2 DEF Needed
<1>3. CASE pc = "read_flags"
  BY <1>1, <1>3, FlagBytesNat DEF Needed
<1>4. CASE pc \in {"read_keys", "read_offsets"}
  BY <1>1, <1>4 DEF Needed
<1>5. CASE pc = "read_runs"
  BY <1>1, <1>5 DEF Needed, RunBytes
<1>6. CASE AtContainers
  <2>1. Card \in Nat /\ KindHere \in Kind
    BY <1>6, Described DEF AtContainers, Behind
  <2>2. Needed = CASE KindHere = "bitset" -> BitsetBytes
                   [] KindHere = "run" -> 2
                   [] KindHere = "array" -> 2 * Card
    BY <1>6 DEF AtContainers, Needed
  <2>3. BitsetBytes \in Nat
    BY FormatAssumption
  <2> QED
    BY <2>1, <2>2, <2>3 DEF Kind
<1> QED
  BY <1>2, <1>3, <1>4, <1>5, <1>6 DEF AtField

\* Reading up to p moves the mark to p at most.
LEMMA TouchWithin ==
    ASSUME Places, NEW p \in Nat, p <= maxbytes, Touch(p), UNCHANGED maxbytes
    PROVE  touched' \in 0..maxbytes'
<1>1. touched \in Nat /\ touched <= maxbytes /\ maxbytes \in Nat
  BY LenProperties DEF Places
<1> QED
  BY <1>1 DEF Touch

\* Whoever frees all that is allocated leaves nothing.
LEMMA GiveAll ==
    ASSUME wild = FALSE, NEW up, up \subseteq heap, heap \subseteq up \cup {Bitmap}, Give(up)
    PROVE  pc' = "failed" /\ heap' = {} /\ wild' = FALSE
BY DEF Give

\* Nothing else is asked of a call that has failed.
LEMMA FailedInv ==
    ASSUME pc' = "failed", heap' = {}, wild' = FALSE
    PROVE  PlaceInv' /\ HeapInv'
BY DEF PlaceInv, HeapInv, Writing, Ahead, Behind

\* Behind the keys, what ra_clear frees is all but the bitmap.
LEMMA ClearedAll ==
    ASSUME IInv, pc \in Behind
    PROVE  Cleared \subseteq heap /\ heap \subseteq Cleared \cup {Bitmap}
BY DEF IInv, HeapInv, Holding, Arrays, Cleared-------------------------------------------------------------------------------
(* The writer *)

LEMMA WriteHeaderStep == ASSUME IInv, WriteHeader PROVE IInv'
<1>1. b \in Bitmaps /\ b' = b /\ Len(b) \in Nat
  BY SlotsNat DEF IInv, WriteInv, WriteHeader
<1>2. buf' \in Seq(Byte)
  <2>1. CASE HasRun(b)
    <3>1. b \in Seq(Slot)
      BY <1>1, BitmapsAssumption
    <3>2. DOMAIN b = 1..Len(b)
      BY <3>1, LenProperties
    <3>3. Len(b) - 1 \in Nat
      BY <1>1, <2>1, <3>2 DEF HasRun
    <3>4. SERIAL_COOKIE + 65536 * (Len(b) - 1) \in Nat
      BY <3>3 DEF SERIAL_COOKIE
    <3>5. U32(SERIAL_COOKIE + 65536 * (Len(b) - 1)) \in Seq(Byte) /\ RunFlags(b) \in Seq(Byte)
      BY <1>1, <3>4, U32Bytes, RunFlagsBytes
    <3> QED
      BY <2>1, <3>5, ConcatProperties DEF WriteHeader
  <2>2. CASE ~HasRun(b)
    <3>1. U32(SERIAL_COOKIE_NO_RUNCONTAINER) \in Seq(Byte) /\ U32(Len(b)) \in Seq(Byte)
      BY <1>1, U32Bytes DEF SERIAL_COOKIE_NO_RUNCONTAINER
    <3> QED
      BY <2>2, <3>1, ConcatProperties DEF WriteHeader
  <2> QED
    BY <2>1, <2>2
<1>3. startOffset' \in Nat
  <2>1. FlagBytes(Len(b)) \in Nat
    BY <1>1, FlagBytesNat
  <2>2. 8 * Len(b) \in Nat /\ (IF WithOffsets THEN 8 ELSE 4) * Len(b) \in Nat
    BY <1>1
  <2>3. FirstOffset \in Nat
    BY <2>1, <2>2 DEF FirstOffset
  <2> QED
    BY <2>3 DEF WriteHeader
<1>4. /\ pc' = "descriptions" => k' \in 1..Len(b)
      /\ pc' \in {"descriptions", "written"}
  BY <1>1 DEF WriteHeader
<1>5. WriteInv'
  BY <1>1, <1>2, <1>3, <1>4 DEF WriteInv
<1>6. Places' /\ PlaceInv' /\ HeapInv'
  BY <1>4, WriterKeeps DEF WriteHeader, Writing
<1> QED
  BY <1>5, <1>6 DEF IInv

\* A loop of the writer stays among the slots of the bitmap.
LEMMA LoopStays ==
    ASSUME NEW next, b \in Bitmaps, b' = b, k \in 1..Len(b), Loop(next)
    PROVE  pc' \in {pc, next} /\ k' \in 1..Len(b')
<1>1. Len(b) \in Nat
  BY SlotsNat
<1> QED
  BY <1>1 DEF Loop

LEMMA WriteDescriptionStep == ASSUME IInv, WriteDescription PROVE IInv'
<1>1. /\ b \in Bitmaps /\ b' = b /\ k \in 1..Len(b) /\ buf \in Seq(Byte)
      /\ startOffset' \in Nat
  BY DEF IInv, WriteInv, WriteDescription
<1>2. U16(b[k].key) \in Seq(Byte) /\ U16(b[k].card - 1) \in Seq(Byte)
  BY <1>1, SlotOf, U16Bytes
<1>3. buf' \in Seq(Byte)
  BY <1>1, <1>2, ConcatProperties DEF WriteDescription
<1>4. pc' \in {"descriptions", "offsets", "containers"} /\ k' \in 1..Len(b')
  BY <1>1, LoopStays DEF WriteDescription
<1>5. WriteInv'
  BY <1>1, <1>3, <1>4 DEF WriteInv
<1>6. Places' /\ PlaceInv' /\ HeapInv'
  BY <1>4, WriterKeeps DEF WriteDescription, Writing
<1> QED
  BY <1>5, <1>6 DEF IInv

LEMMA WriteOffsetStep == ASSUME IInv, WriteOffset PROVE IInv'
<1>1. /\ b \in Bitmaps /\ b' = b /\ k \in 1..Len(b) /\ buf \in Seq(Byte)
      /\ startOffset \in Nat
  BY DEF IInv, WriteInv, WriteOffset
<1>2. buf' \in Seq(Byte)
  BY <1>1, U32Bytes, ConcatProperties DEF WriteOffset
<1>3. container_size_in_bytes(b[k]) \in Nat
  <2>1. b[k].card \in Nat /\ b[k].kind \in Kind /\ Runs(b[k]) \in Nat
    BY <1>1, SlotOf
  <2>2. BitsetBytes \in Nat /\ 2 * b[k].card \in Nat /\ 2 + 4 * Runs(b[k]) \in Nat
    BY <2>1, FormatAssumption
  <2> QED
    BY <2>1, <2>2 DEF container_size_in_bytes, Kind
<1>4. startOffset' \in Nat
  BY <1>1, <1>3 DEF WriteOffset
<1>5. pc' \in {"offsets", "containers"} /\ k' \in 1..Len(b')
  BY <1>1, LoopStays DEF WriteOffset
<1>6. WriteInv'
  BY <1>1, <1>2, <1>4, <1>5 DEF WriteInv
<1>7. Places' /\ PlaceInv' /\ HeapInv'
  BY <1>5, WriterKeeps DEF WriteOffset, Writing
<1> QED
  BY <1>6, <1>7 DEF IInv

LEMMA WriteContainerStep == ASSUME IInv, WriteContainer PROVE IInv'
<1>1. /\ b \in Bitmaps /\ b' = b /\ k \in 1..Len(b) /\ buf \in Seq(Byte)
      /\ startOffset' \in Nat
  BY DEF IInv, WriteInv, WriteContainer
<1>2. b[k].data \in Seq(Byte) /\ U16(Runs(b[k])) \in Seq(Byte)
  BY <1>1, SlotOf, U16Bytes
<1>3. container_write(b[k]) \in Seq(Byte)
  BY <1>2, ConcatProperties DEF container_write
<1>4. buf' \in Seq(Byte)
  BY <1>1, <1>3, ConcatProperties DEF WriteContainer
<1>5. pc' \in {"containers", "written"} /\ k' \in 1..Len(b')
  BY <1>1, LoopStays DEF WriteContainer
<1>6. WriteInv'
  BY <1>1, <1>4, <1>5 DEF WriteInv
<1>7. Places' /\ PlaceInv' /\ HeapInv'
  BY <1>5, WriterKeeps DEF WriteContainer, Writing
<1> QED
  BY <1>6, <1>7 DEF IInv-------------------------------------------------------------------------------
(* The reader: the header *)

LEMMA OpenStep == ASSUME IInv, Open PROVE IInv'
<1>1. WriteInv'
  BY ReaderKeeps DEF Open
<1>2. input' \in Seq(Byte)
  BY BitmapsAssumption DEF Open, IInv, WriteInv
<1>3. pc' = "read_cookie" /\ readbytes' = 0 /\ at' = 0 /\ touched' = 0
  BY DEF Open, IInv, PlaceInv, Writing
<1>4. maxbytes' \in 0..Len(input') /\ Len(input') \in Nat
  BY <1>2, LenProperties DEF Open
<1>5. Places'
  BY <1>2, <1>3, <1>4 DEF Open, header, IInv, Places
<1>6. PlaceInv'
  BY <1>3, <1>4 DEF PlaceInv, Behind
<1>7. HeapInv'
  BY DEF Open, IInv, HeapInv, Writing, Ahead, Behind
<1> QED
  BY <1>1, <1>5, <1>6, <1>7 DEF IInv

LEMMA OpenRefusedStep == ASSUME IInv, OpenRefused PROVE IInv'
<1>1. WriteInv'
  BY ReaderKeeps DEF OpenRefused
<1>2. Places'
  BY DEF OpenRefused, header, IInv, Places
<1>3. pc' = "failed" /\ heap' = {} /\ wild' = FALSE
  BY DEF OpenRefused, IInv, HeapInv, Writing
<1> QED
  BY <1>1, <1>2, <1>3, FailedInv DEF IInv

LEMMA RunOutStep == ASSUME IInv, RunOut PROVE IInv'
<1>1. pc' = "failed" /\ heap' = {} /\ wild' = FALSE
  <2>1. wild = FALSE
    BY DEF IInv, HeapInv
  <2>2. CASE AfterKeys
    BY <2>1, <2>2, ClearedAll, GiveAll DEF RunOut, AfterKeys, Behind
  <2>3. CASE ~AfterKeys
    <3>1. heap = {Bitmap}
      BY <2>3 DEF RunOut, AtField, AtContainers, AfterKeys, Ahead, IInv, HeapInv
    <3> QED
      BY <2>1, <2>3, <3>1, GiveAll DEF RunOut
  <2> QED
    BY <2>2, <2>3
<1>2. WriteInv'
  BY <1>1, ReaderKeeps DEF RunOut
<1>3. touched' \in 0..maxbytes'
  <2>1. CASE AtContainers
    <3>1. k \in Nat /\ keyscards + 4 * k \in Nat /\ keyscards + 4 * k <= maxbytes
      BY <2>1, Described DEF AtContainers, Behind, IInv, Places
    <3> QED
      BY <2>1, <3>1, TouchWithin DEF RunOut, TouchDescription, IInv
  <2>2. CASE ~AtContainers
    BY <2>2 DEF RunOut, IInv, Places
  <2> QED
    BY <2>1, <2>2
<1>4. readbytes' \in Nat
  BY NeededNat DEF RunOut, Count, IInv, Places
<1>5. Places'
  BY <1>3, <1>4 DEF RunOut, header, IInv, Places
<1> QED
  BY <1>1, <1>2, <1>5, FailedInv DEF IInv

LEMMA ReadCookieStep == ASSUME IInv, ReadCookie PROVE IInv'
<1>1. /\ readbytes = 0 /\ maxbytes \in Nat /\ maxbytes <= Len(input) /\ input \in Seq(Byte)
      /\ Len(input) \in Nat /\ heap = {Bitmap} /\ wild = FALSE /\ answer = <<>>
  BY LenProperties DEF ReadCookie, IInv, Places, PlaceInv, HeapInv, Ahead
<1>2. Needed = 4
  BY DEF ReadCookie, Needed
<1>3. readbytes' = 4 /\ at' = 4 /\ 4 <= maxbytes /\ maxbytes' = maxbytes
  BY <1>1, <1>2 DEF ReadCookie, Count, Enough
<1>4. touched' \in 0..maxbytes'
  BY <1>3, TouchWithin DEF ReadCookie, IInv
<1>5. Cookie \in Nat
  BY <1>1, <1>3, GetU32Nat DEF Cookie
<1>6. WriteInv'
  BY ReaderKeeps DEF ReadCookie, Give
<1>7. size' \in Nat
  <2>1. Cookie \div 65536 \in Nat
    BY <1>5
  <2> QED
    BY <2>1 DEF ReadCookie, IInv, Places
<1>8. Places'
  BY <1>3, <1>4, <1>7 DEF ReadCookie, IInv, Places
<1>9. CASE pc' \in {"read_flags", "read_size"} /\ UNCHANGED <<heap, wild>>
  <2>1. PlaceInv'
    BY <1>3, <1>9 DEF PlaceInv, Writing, Behind
  <2>2. HeapInv'
    BY <1>1, <1>9 DEF ReadCookie, HeapInv, Writing, Ahead, Behind
  <2> QED
    BY <1>6, <1>8, <2>1, <2>2 DEF IInv
<1>10. CASE Give({})
  <2>1. pc' = "failed" /\ heap' = {} /\ wild' = FALSE
    BY <1>1, <1>10, GiveAll
  <2> QED
    BY <1>6, <1>8, <2>1, FailedInv DEF IInv
<1> QED
  BY <1>9, <1>10 DEF ReadCookie

LEMMA ReadSizeStep == ASSUME IInv, ReadSize PROVE IInv'
<1>1. /\ readbytes = 4 /\ maxbytes \in Nat /\ maxbytes <= Len(input) /\ input \in Seq(Byte)
      /\ Len(input) \in Nat /\ heap = {Bitmap} /\ wild = FALSE /\ answer = <<>>
  BY LenProperties DEF ReadSize, IInv, Places, PlaceInv, HeapInv, Ahead
<1>2. Needed = 4
  BY DEF ReadSize, Needed
<1>3. readbytes' = 8 /\ at' = 8 /\ 8 <= maxbytes /\ maxbytes' = maxbytes
  BY <1>1, <1>2 DEF ReadSize, Count, Enough
<1>4. touched' \in 0..maxbytes'
  BY <1>3, TouchWithin DEF ReadSize, IInv
<1>5. size' \in Nat
  <2>1. 4 \in Nat /\ 4 + 4 <= Len(input)
    BY <1>1, <1>3
  <2>2. GetU32(input, 4) \in Nat
    BY <1>1, <2>1, GetU32Nat
  <2> QED
    BY <2>2 DEF ReadSize
<1>6. WriteInv'
  BY ReaderKeeps DEF ReadSize, Give
<1>7. Places'
  BY <1>3, <1>4, <1>5 DEF ReadSize, IInv, Places
<1>8. CASE pc' = "read_keys" /\ UNCHANGED <<heap, wild>>
  <2>1. PlaceInv'
    BY <1>3, <1>8 DEF PlaceInv, Writing, Behind
  <2>2. HeapInv'
    BY <1>1, <1>8 DEF ReadSize, HeapInv, Writing, Ahead, Behind
  <2> QED
    BY <1>6, <1>7, <2>1, <2>2 DEF IInv
<1>9. CASE Give({})
  <2>1. pc' = "failed" /\ heap' = {} /\ wild' = FALSE
    BY <1>1, <1>9, GiveAll
  <2> QED
    BY <1>6, <1>7, <2>1, FailedInv DEF IInv
<1> QED
  BY <1>8, <1>9 DEF ReadSize

LEMMA ReadFlagsStep == ASSUME IInv, ReadFlags PROVE IInv'
<1>1. /\ readbytes = 4 /\ at = 4 /\ maxbytes \in Nat /\ FlagBytes(size) \in Nat
      /\ heap = {Bitmap} /\ wild = FALSE /\ answer = <<>>
  BY LenProperties, FlagBytesNat DEF ReadFlags, IInv, Places, PlaceInv, HeapInv, Ahead
<1>2. Needed = FlagBytes(size)
  BY DEF ReadFlags, Needed
<1>3. /\ readbytes' = at' /\ at' \in Nat /\ at' <= maxbytes /\ maxbytes' = maxbytes
      /\ pc' = "read_keys"
  BY <1>1, <1>2 DEF ReadFlags, Count, Enough
<1>4. WriteInv'
  BY <1>3, ReaderKeeps DEF ReadFlags
<1>5. Places'
  BY <1>3 DEF ReadFlags, header, IInv, Places
<1>6. PlaceInv'
  BY <1>3 DEF PlaceInv, Writing, Behind
<1>7. HeapInv'
  BY <1>1, <1>3 DEF ReadFlags, HeapInv, Writing, Ahead, Behind
<1> QED
  BY <1>4, <1>5, <1>6, <1>7 DEF IInv-------------------------------------------------------------------------------
(* The reader: keys, offsets and containers *)

LEMMA ReadKeysStep == ASSUME IInv, ReadKeys PROVE IInv'
<1>1. /\ readbytes = at /\ at \in Nat /\ size \in Nat /\ maxbytes \in Nat
      /\ heap = {Bitmap} /\ wild = FALSE /\ answer = <<>>
  BY LenProperties DEF ReadKeys, IInv, Places, PlaceInv, HeapInv, Ahead
<1>2. Needed = 4 * size
  BY DEF ReadKeys, Needed
<1>3. /\ readbytes' = at' /\ at' = at + 4 * size /\ at' \in Nat /\ at' <= maxbytes
      /\ maxbytes' = maxbytes /\ size' = size /\ keyscards' = at /\ k' = 1
  BY <1>1, <1>2 DEF ReadKeys, Count, Enough
<1>4. touched' \in 0..maxbytes'
  <2>1. CASE UNCHANGED touched
    BY <1>3, <2>1 DEF IInv, Places
  <2>2. CASE Touch(at + 4 * size)
    BY <1>3, <2>2, TouchWithin DEF IInv
  <2> QED
    BY <2>1, <2>2 DEF ReadKeys
<1>5. Places'
  BY <1>1, <1>3, <1>4 DEF ReadKeys, IInv, Places
<1>6. CASE /\ heap' = heap \cup (IF size = 0 THEN {} ELSE {Array})
           /\ pc' = IF OffsetsFollow THEN "read_offsets" ELSE "read_container"
           /\ UNCHANGED wild
  <2>1. pc' \in {"read_offsets", "read_container"}
    BY <1>6
  <2>2. WriteInv'
    BY <2>1, ReaderKeeps DEF ReadKeys
  <2>3. PlaceInv'
    BY <1>1, <1>3, <2>1 DEF PlaceInv, Writing, Behind
  <2>4. heap' = Holding(k - 1)' /\ answer' = <<>>
    BY <1>1, <1>3, <1>6 DEF ReadKeys, Holding, Arrays
  <2>5. k' \in 1..size' + 1 /\ DOMAIN answer' = 1..k' - 1
    BY <1>1, <1>3, <2>4
  <2>6. answer' \in Seq([kind : Kind, card : Nat, data : Seq(Byte)])
    BY <2>4
  <2>7. HeapInv'
    BY <1>1, <1>3, <1>6, <2>1, <2>4, <2>5, <2>6 DEF HeapInv, Writing, Ahead, Behind
  <2> QED
    BY <1>5, <2>2, <2>3, <2>7 DEF IInv
<1>7. CASE Give({})
  <2>1. pc' = "failed" /\ heap' = {} /\ wild' = FALSE
    BY <1>1, <1>7, GiveAll
  <2>2. WriteInv'
    BY <2>1, ReaderKeeps DEF ReadKeys
  <2> QED
    BY <1>5, <2>1, <2>2, FailedInv DEF IInv
<1> QED
  BY <1>6, <1>7 DEF ReadKeys

LEMMA SkipOffsetsStep == ASSUME IInv, SkipOffsets PROVE IInv'
<1>1. readbytes = at /\ at \in Nat /\ size \in Nat /\ maxbytes \in Nat /\ k = 1
  BY LenProperties DEF SkipOffsets, IInv, Places, PlaceInv, HeapInv
<1>2. Needed = 4 * size
  BY DEF SkipOffsets, Needed
<1>3. /\ readbytes' = at' /\ at' \in Nat /\ at' <= maxbytes
      /\ pc' = "read_container" /\ UNCHANGED <<maxbytes, size, keyscards>>
  BY <1>1, <1>2 DEF SkipOffsets, Count, Enough, header
<1>4. WriteInv'
  BY <1>3, ReaderKeeps DEF SkipOffsets
<1>5. Places'
  BY <1>3 DEF SkipOffsets, header, IInv, Places
<1>6. PlaceInv'
  BY <1>3 DEF SkipOffsets, IInv, PlaceInv, Writing, Behind
<1>7. HeapInv'
  BY DEF SkipOffsets, header, IInv, HeapInv, Holding, Arrays, Writing, Ahead, Behind
<1> QED
  BY <1>4, <1>5, <1>6, <1>7 DEF IInv

\* A container that was made is counted, or the call fails and frees the others.
LEMMA BuildStep ==
    ASSUME IInv, pc \in Behind, k <= size, NEW kind \in Kind, NEW p \in Nat, NEW n \in Nat,
           p + n <= maxbytes, readbytes' = p + n,
           Built(kind, p, n) \/ Unbuilt,
           UNCHANGED <<written, input, maxbytes, header, n_runs>>
    PROVE  IInv'
<1>1. /\ k \in Nat \ {0} /\ size \in Nat /\ Card \in Nat /\ wild = FALSE
      /\ DOMAIN answer = 1..k - 1 /\ heap = Holding(k - 1)
      /\ answer \in Seq([kind : Kind, card : Nat, data : Seq(Byte)])
  BY Described DEF IInv, Places, HeapInv
<1>2. p + n \in Nat
  OBVIOUS
<1>3. touched' \in 0..maxbytes'
  <2>1. CASE Touch(p + n)
    BY <1>2, <2>1, TouchWithin DEF IInv
  <2>2. CASE UNCHANGED touched
    BY <2>2 DEF IInv, Places
  <2> QED
    BY <2>1, <2>2 DEF Built, Unbuilt
<1>4. at' \in Nat
  BY <1>2 DEF Built, Unbuilt, IInv, Places
<1>5. Places'
  BY <1>2, <1>3, <1>4 DEF IInv, Places, header
<1>6. CASE Built(kind, p, n)
  <2> DEFINE c == [kind |-> kind, card |-> Card, data |-> Bytes(input, p, n)]
  <2>1. c \in [kind : Kind, card : Nat, data : Seq(Byte)]
    BY <1>1, BytesSeq DEF IInv, Places
  <2>2. pc' = "read_container" /\ k' = k + 1 /\ at' = readbytes' /\ size' = size
        /\ heap' = heap \cup {Container(k)} /\ wild' = wild
    BY <1>6 DEF Built, header
  <2>3. answer' = Append(answer, c)
    BY <1>6 DEF Built
  <2> HIDE DEF c
  <2>4. /\ answer' \in Seq([kind : Kind, card : Nat, data : Seq(Byte)])
        /\ Len(answer') = Len(answer) + 1
    BY <1>1, <2>1, <2>3, AppendProperties
  <2>5. Len(answer) \in Nat /\ DOMAIN answer = 1..Len(answer) /\ DOMAIN answer' = 1..Len(answer')
    BY <1>1, <2>4, LenProperties
  <2>6. Len(answer) = k - 1
    BY <1>1, <2>5
  <2>7. DOMAIN answer' = 1..k' - 1
    BY <1>1, <2>2, <2>4, <2>5, <2>6
  <2>8. k' \in 1..size' + 1
    BY <1>1, <2>2
  <2>9. heap' = Holding(k - 1)'
    <3>1. 1..(k' - 1) = (1..k - 1) \cup {k}
      BY <1>1, <2>2
    <3> QED
      BY <1>1, <2>2, <3>1 DEF Holding, Arrays
  <2>10. WriteInv'
    BY <2>2, ReaderKeeps
  <2>11. PlaceInv'
    BY <1>2, <2>2 DEF IInv, Places, PlaceInv, header, Writing, Behind
  <2>12. HeapInv'
    BY <1>1, <2>2, <2>4, <2>7, <2>8, <2>9 DEF HeapInv, Writing, Ahead, Behind
  <2> QED
    BY <1>5, <2>10, <2>11, <2>12 DEF IInv
<1>7. CASE Unbuilt
  <2>1. pc' = "failed" /\ heap' = {} /\ wild' = FALSE
    BY <1>1, <1>7, ClearedAll, GiveAll DEF Unbuilt
  <2>2. WriteInv'
    BY <2>1, ReaderKeeps
  <2> QED
    BY <1>5, <2>1, <2>2, FailedInv DEF IInv
<1> QED
  BY <1>6, <1>7

LEMMA ReadBitsetOrArrayStep == ASSUME IInv, ReadBitsetOrArray PROVE IInv'
<1>1. pc \in Behind /\ k <= size /\ AtField
  BY DEF ReadBitsetOrArray, AtContainers, AtField, Behind
<1>2. /\ at \in Nat /\ readbytes = at /\ Needed \in Nat /\ KindHere \in Kind
  BY <1>1, NeededNat, Described DEF ReadBitsetOrArray, AtContainers, IInv, Places, PlaceInv
<1>3. at + Needed <= maxbytes /\ readbytes' = at + Needed
  BY <1>2 DEF ReadBitsetOrArray, Enough, Count
<1>4. /\ Built(KindHere, at, Needed) \/ Unbuilt
      /\ UNCHANGED <<written, input, maxbytes, header, n_runs>>
  BY DEF ReadBitsetOrArray
<1> QED
  BY <1>1, <1>2, <1>3, <1>4, BuildStep

LEMMA ReadRunCountStep == ASSUME IInv, ReadRunCount PROVE IInv'
<1>1. pc \in Behind /\ k <= size /\ pc = "read_container"
  BY DEF ReadRunCount, AtContainers, Behind
<1>2. /\ at \in Nat /\ readbytes = at /\ maxbytes \in Nat /\ maxbytes <= Len(input)
      /\ input \in Seq(Byte) /\ Len(input) \in Nat
  BY <1>1, LenProperties DEF IInv, Places, PlaceInv
<1>3. Needed = 2
  BY <1>1 DEF ReadRunCount, Needed
<1>4. /\ readbytes' = at' + 2 /\ at' = at /\ readbytes' \in Nat /\ at + 2 \in Nat /\ at + 2 <= maxbytes
      /\ pc' = "read_runs" /\ UNCHANGED <<input, maxbytes, size, keyscards>>
  BY <1>2, <1>3 DEF ReadRunCount, Enough, Count, header
<1>5. n_runs' \in Nat
  BY <1>2, <1>4, GetU16Nat DEF ReadRunCount
<1>6. touched' \in 0..maxbytes'
  BY <1>4, TouchWithin DEF ReadRunCount, IInv
<1>7. WriteInv'
  BY <1>4, ReaderKeeps DEF ReadRunCount
<1>8. Places'
  BY <1>2, <1>4, <1>5, <1>6 DEF IInv, Places
<1>9. PlaceInv'
  BY <1>1, <1>4 DEF IInv, PlaceInv, Writing, Behind
<1>10. HeapInv'
  BY <1>1 DEF ReadRunCount, header, IInv, HeapInv, Holding, Arrays, Writing, Ahead, Behind
<1> QED
  BY <1>7, <1>8, <1>9, <1>10 DEF IInv

LEMMA ReadRunsStep == ASSUME IInv, ReadRuns PROVE IInv'
<1>1. pc \in Behind /\ k <= size
  BY DEF ReadRuns, Behind, IInv, HeapInv
<1>2. at \in Nat /\ readbytes = at + 2 /\ n_runs \in Nat /\ maxbytes \in Nat
  BY LenProperties DEF ReadRuns, IInv, Places, PlaceInv
<1>3. Needed = 4 * n_runs
  BY DEF ReadRuns, Needed, RunBytes
<1>4. /\ at + 2 \in Nat /\ 4 * n_runs \in Nat
      /\ (at + 2) + 4 * n_runs <= maxbytes /\ readbytes' = (at + 2) + 4 * n_runs
  BY <1>2, <1>3 DEF ReadRuns, Enough, Count
<1>5. /\ Built("run", at + 2, 4 * n_runs) \/ Unbuilt
      /\ UNCHANGED <<written, input, maxbytes, header, n_runs>>
  BY DEF ReadRuns
<1>6. "run" \in Kind
  BY DEF Kind
<1> QED
  BY <1>1, <1>4, <1>5, <1>6, BuildStep

LEMMA FinishStep == ASSUME IInv, Finish PROVE IInv'
<1>1. pc \in Behind /\ pc = "read_container" /\ pc' = "done"
  BY DEF Finish, Behind
<1>2. k \in 1..size + 1 /\ size \in Nat /\ k > size /\ heap = Holding(k - 1)
  BY <1>1 DEF Finish, IInv, Places, HeapInv
<1>3. k - 1 = size
  BY <1>2
<1>4. WriteInv'
  BY <1>1, ReaderKeeps DEF Finish
<1>5. Places'
  BY DEF Finish, header, IInv, Places
<1>6. PlaceInv'
  BY <1>1 DEF Finish, header, IInv, PlaceInv, Writing, Behind
<1>7. HeapInv'
  BY <1>1, <1>2, <1>3 DEF Finish, header, IInv, HeapInv, Holding, Arrays, Writing, Ahead, Behind
<1> QED
  BY <1>4, <1>5, <1>6, <1>7 DEF IInv

\* A step that changes nothing.
LEMMA Stutter == ASSUME IInv, UNCHANGED vars PROVE IInv'
<1>1. WriteInv'
  BY DEF vars, written, IInv, WriteInv
<1>2. Places'
  BY DEF vars, header, IInv, Places
<1>3. PlaceInv'
  BY DEF vars, header, IInv, PlaceInv
<1>4. HeapInv'
  BY DEF vars, header, IInv, HeapInv, Holding, Arrays
<1> QED
  BY <1>1, <1>2, <1>3, <1>4 DEF IInv

LEMMA NextIInv == IInv /\ [Next]_vars => IInv'
<1> SUFFICES ASSUME IInv, [Next]_vars PROVE IInv'
  OBVIOUS
<1>1. CASE WriteHeader \/ WriteDescription \/ WriteOffset \/ WriteContainer
  BY <1>1, WriteHeaderStep, WriteDescriptionStep, WriteOffsetStep, WriteContainerStep
<1>2. CASE Open \/ OpenRefused \/ RunOut
  BY <1>2, OpenStep, OpenRefusedStep, RunOutStep
<1>3. CASE ReadCookie \/ ReadSize \/ ReadFlags \/ ReadKeys \/ SkipOffsets
  BY <1>3, ReadCookieStep, ReadSizeStep, ReadFlagsStep, ReadKeysStep, SkipOffsetsStep
<1>4. CASE ReadBitsetOrArray \/ ReadRunCount \/ ReadRuns \/ Finish
  BY <1>4, ReadBitsetOrArrayStep, ReadRunCountStep, ReadRunsStep, FinishStep
<1>5. CASE Ended \/ UNCHANGED vars
  BY <1>5, Stutter DEF Ended
<1> QED
  BY <1>1, <1>2, <1>3, <1>4, <1>5 DEF Next
-------------------------------------------------------------------------------
(* The theorems *)

\* At every field of the layout the pointer and the count of the reader agree, neither has
\* passed maxbytes, and what is allocated is what answer counts.
THEOREM ReaderInvariant == Spec => []IInv
<1>1. Init => IInv
  BY InitIInv
<1>2. IInv /\ [Next]_vars => IInv'
  BY NextIInv
<1> QED
  BY <1>1, <1>2, PTL DEF Spec

\* ra_portable_deserialize reads no byte beyond maxbytes, whatever the bytes say, and what it
\* reports as *readbytes is how far it read.
THEOREM InBounds == Spec => []ReadsInBounds
<1>1. IInv => ReadsInBounds
  <2> SUFFICES ASSUME IInv PROVE ReadsInBounds
    OBVIOUS
  <2>1. touched <= maxbytes
    BY LenProperties DEF IInv, Places
  <2> QED
    BY <2>1 DEF ReadsInBounds, IInv, PlaceInv
<1> QED
  BY <1>1, ReaderInvariant, PTL

\* Wherever the bytes end and whichever allocation fails, all that was allocated is freed, once;
\* and a call that succeeds has as many containers as the header counts.
THEOREM Clean == Spec => []CleanedUp
<1>1. IInv => CleanedUp
  BY DEF IInv, HeapInv, CleanedUp, Holding, Arrays
<1> QED
  BY <1>1, ReaderInvariant, PTL

-------------------------------------------------------------------------------
(* What the reader has found out, of any bytes *)

\* How many bytes container i, counted from 0, has at place p, and where each begins: what
\* ra_portable_deserialize_size computes for itself.
SizeAt(s, m, i, p) ==
    CASE KindAt(s, Header(s), i) = "bitset" -> BitsetBytes
      [] KindAt(s, Header(s), i) = "run" -> 2 + IF p + 2 > m THEN 0 ELSE 4 * GetU16(s, p)
      [] OTHER -> 2 * CardAt(s, Header(s).keyscards, i)
Starts(s, m) ==
    LET Start[i \in 0..Header(s).size] ==
            IF i = 0 THEN Header(s).containers
            ELSE LET p == Start[i - 1]
                     end == p + SizeAt(s, m, i - 1, p)
                 IN  IF p = 0 \/ end > m THEN 0 ELSE end
    IN  Start
Acceptable(s, m) ==
    /\ m >= 4 /\ HasCookie(s) /\ (Header(s).hasrun \/ m >= 8)
    /\ Header(s).size <= MaxContainers /\ Header(s).containers <= m

\* The fields of the header are known.
Headed ==
    /\ maxbytes >= 4 /\ HasCookie(input) /\ (Header(input).hasrun \/ maxbytes >= 8)
    /\ hasrun = Header(input).hasrun
    /\ size = Header(input).size /\ size <= MaxContainers
\* The reader is where ra_portable_deserialize_size says, or it has failed and that says so.
SizeInv ==
    /\ pc \in Writing \cup {"read_cookie", "read_size"} => hasrun = FALSE
    /\ pc = "read_size" => Cookie = SERIAL_COOKIE_NO_RUNCONTAINER /\ maxbytes >= 4
    /\ pc = "read_flags" => Headed /\ hasrun
    /\ pc = "read_keys" => Headed /\ at = Header(input).keyscards
    /\ pc \in Behind \cup {"done"} => Headed /\ keyscards = Header(input).keyscards
    /\ pc = "read_offsets" => OffsetsFollow /\ at = keyscards + 4 * size
    /\ pc \in {"read_container", "read_runs"} =>
          Acceptable(input, maxbytes) /\ at = Starts(input, maxbytes)[k - 1] /\ at > 0
    /\ pc = "read_runs" => KindHere = "run" /\ n_runs = GetU16(input, at)
    /\ pc = "done" => /\ Acceptable(input, maxbytes) /\ at = Starts(input, maxbytes)[size]
                      /\ at > 0 /\ k = size + 1
    /\ pc = "failed" => refused \/ ra_portable_deserialize_size(input, maxbytes) = 0

\* What it has made of container i, counted from 1, and of those before k.
Skipped(kind) == IF kind = "run" THEN 2 ELSE 0
Taken(i) ==
    LET p == Starts(input, maxbytes)[i - 1]
        kind == KindAt(input, Header(input), i - 1)
    IN  [kind |-> kind, card |-> CardAt(input, Header(input).keyscards, i - 1),
         data |-> Bytes(input, p + Skipped(kind),
                        SizeAt(input, maxbytes, i - 1, p) - Skipped(kind))]
TakenInv ==
    pc \in Behind \cup {"done"} =>
        /\ keys = [i \in 1..size |-> GetU16(input, keyscards + 4 * (i - 1))]
        /\ Len(answer) = k - 1
        /\ \A i \in 1..k - 1 : answer[i] = Taken(i)
-------------------------------------------------------------------------------
(* What the writer has written, of any bitmap *)

HeadLength(c) == IF HasRun(c) THEN 4 + FlagBytes(Len(c)) ELSE 8
HeadBytes(c) ==
    IF HasRun(c) THEN U32(SERIAL_COOKIE + 65536 * (Len(c) - 1)) \o RunFlags(c)
    ELSE U32(SERIAL_COOKIE_NO_RUNCONTAINER) \o U32(Len(c))
Sizes(c) == [i \in DOMAIN c |-> container_size_in_bytes(c[i])]
\* Where the containers after the first i begin.
Place(c, i) == ra_portable_header_size(c) + SumUpTo(Sizes(c), i)

HasHead(c, s) == \A j \in 1..HeadLength(c) : s[j] = HeadBytes(c)[j]
HasDescriptions(c, s, n) ==
    \A i \in 1..n : /\ GetU16(s, HeadLength(c) + 4 * (i - 1)) = c[i].key
                    /\ GetU16(s, HeadLength(c) + 4 * (i - 1) + 2) = c[i].card - 1
HasContainers(c, s, n) ==
    \A i \in 1..n : \A j \in 1..Sizes(c)[i] : s[Place(c, i - 1) + j] = container_write(c[i])[j]
Complete(c, s) ==
    /\ Len(s) = Place(c, Len(c))
    /\ HasHead(c, s) /\ HasDescriptions(c, s, Len(c)) /\ HasContainers(c, s, Len(c))

WrittenInv ==
    /\ pc \in {"descriptions", "offsets", "containers"} => HasHead(b, buf)
    /\ pc = "header" => buf = <<>>
    /\ pc = "descriptions" =>
          Len(buf) = HeadLength(b) + 4 * (k - 1) /\ HasDescriptions(b, buf, k - 1)
    /\ pc = "offsets" => /\ WithOffsets /\ Len(buf) = HeadLength(b) + 4 * Len(b) + 4 * (k - 1)
                         /\ HasDescriptions(b, buf, Len(b))
    /\ pc = "containers" => /\ Len(buf) = Place(b, k - 1)
                            /\ HasDescriptions(b, buf, Len(b)) /\ HasContainers(b, buf, k - 1)
    /\ pc \notin {"header", "descriptions", "offsets", "containers"} => Complete(b, buf)
-------------------------------------------------------------------------------
(* Recursive functions and sums *)

\* A set of natural numbers has a least member.
LEMMA LeastOfNaturals ==
    ASSUME NEW T \in SUBSET Nat, T # {}
    PROVE  \E x \in T : \A y \in T : x <= y
<1> DEFINE less == {p \in Nat \X Nat : p[1] < p[2]}
<1>1. IsWellFoundedOn(less, Nat)
  BY NatLessThanWellFounded DEF OpToRel
<1>2. \A x, y \in Nat : y < x => <<y, x>> \in less
  OBVIOUS
<1> HIDE DEF less
<1>3. PICK x \in T : \A y \in T : ~(<<y, x>> \in less)
  BY <1>1, WFMin
<1>4. ASSUME NEW y \in T PROVE x <= y
  <2>1. ~(y < x)
    BY <1>2, <1>3
  <2> QED
    BY <2>1
<1> QED
  BY <1>4

\* A function can be made step by step.
Steps(n, S, G) == G \in [1..n -> [S -> S]]
Chain(n, S, a, G, f) == f \in [0..n -> S] /\ f[0] = a /\ \A i \in 1..n : f[i] = G[i][f[i - 1]]
LEMMA Iterated ==
    ASSUME NEW n \in Nat, NEW S, NEW a \in S, NEW G, Steps(n, S, G)
    PROVE  \E f : Chain(n, S, a, G, f)
<1> USE DEF Steps, Chain
<1> DEFINE Made(m, f) == Chain(m, S, a, G, f)
           Bad == {m \in Nat : m <= n /\ ~\E f : Made(m, f)}
<1>1. SUFFICES ASSUME Bad # {} PROVE FALSE
  <2>1. ASSUME Bad = {} PROVE \E f : Made(n, f)
    <3>1. ~(n \in Bad)
      BY <2>1
    <3> HIDE DEF Made
    <3> QED
      BY <3>1
  <2> QED
    BY <2>1
<1>2. PICK x \in Bad : \A y \in Bad : x <= y
  BY <1>1, LeastOfNaturals
<1>3. x # 0
  <2>1. Made(0, [i \in 0..0 |-> a])
    <3> DEFINE z == [i \in 0..0 |-> a]
    <3>1. z \in [0..0 -> S] /\ z[0] = a /\ \A i \in 1..0 : FALSE
      OBVIOUS
    <3> HIDE DEF z
    <3>2. Made(0, z)
      BY <3>1
    <3> QED
      BY <3>2 DEF z
  <2> QED
    BY <2>1, <1>2
<1>4. x \in 1..n /\ x - 1 \in Nat /\ x - 1 <= n /\ ~(x - 1 \in Bad)
  <2>1. x \in Nat /\ x <= n
    BY <1>2
  <2>2. x \in 1..n /\ x - 1 \in Nat /\ x - 1 <= n /\ ~(x <= x - 1)
    BY <1>3, <2>1
  <2> HIDE DEF Bad
  <2> QED
    BY <1>2, <2>2
<1>5. PICK g : Made(x - 1, g)
  BY <1>4
<1> DEFINE f == [i \in 0..x |-> IF i = x THEN G[x][g[x - 1]] ELSE g[i]]
<1>6. g[x - 1] \in S /\ G[x] \in [S -> S] /\ G[x][g[x - 1]] \in S
  BY <1>4, <1>5
<1>7. f \in [0..x -> S] /\ f[0] = a
  BY <1>4, <1>5, <1>6
<1>8. \A i \in 1..x : f[i] = G[i][f[i - 1]]
  BY <1>4, <1>5
<1>9. Made(x, f)
  BY <1>7, <1>8
<1> QED
  BY <1>2, <1>9

LEMMA MaxOfInterval ==
    ASSUME NEW m \in Nat, m > 0, NEW T \in SUBSET (1..m), m \in T
    PROVE  Max(T) = m
<1>1. \A y \in T : m >= y
  OBVIOUS
<1>2. Max(T) \in T /\ \A y \in T : Max(T) >= y
  BY <1>1, Zenon DEF Max
<1>3. Max(T) \in 1..m /\ Max(T) >= m
  BY <1>2
<1> QED
  BY <1>3

\* What SumUpTo folds over: the sums of the numbers of s at the places in a set.
Sums(s, n, f) ==
    f = [T \in SUBSET (1..n) |-> IF T = {} THEN 0 ELSE f[T \ {Max(T)}] + s[Max(T)]]

LEMMA SumsExist == ASSUME NEW n \in Nat, NEW s PROVE \E f : Sums(s, n, f)
<1> DEFINE Bad == {m \in Nat : ~\E f : Sums(s, m, f)}
<1>1. SUFFICES ASSUME Bad # {} PROVE FALSE
  OBVIOUS
<1>2. PICK x \in Bad : \A y \in Bad : x <= y
  BY <1>1, LeastOfNaturals
<1>3. x # 0
  <2>1. \A T \in SUBSET (1..0) : T = {}
    OBVIOUS
  <2>2. Sums(s, 0, [T \in SUBSET (1..0) |-> 0])
    BY <2>1 DEF Sums
  <2> QED
    BY <2>2, <1>2
<1>4. x - 1 \in Nat /\ x > 0 /\ ~(x - 1 \in Bad)
  BY <1>2, <1>3
<1>5. PICK g : Sums(s, x - 1, g)
  BY <1>4
<1> DEFINE f == [T \in SUBSET (1..x) |-> IF x \in T THEN g[T \ {x}] + s[x] ELSE g[T]]
<1>6. ASSUME NEW T \in SUBSET (1..x)
      PROVE  f[T] = IF T = {} THEN 0 ELSE f[T \ {Max(T)}] + s[Max(T)]
  <2>1. CASE x \in T
    <3>1. Max(T) = x
      BY <1>4, <2>1, MaxOfInterval
    <3>2. T \ {x} \in SUBSET (1..x) /\ ~(x \in T \ {x})
      OBVIOUS
    <3> QED
      BY <2>1, <3>1, <3>2
  <2>2. CASE ~(x \in T)
    <3>1. T \in SUBSET (1..x - 1)
      BY <1>4, <2>2
    <3>2. T \ {Max(T)} \in SUBSET (1..x) /\ ~(x \in T \ {Max(T)})
      BY <2>2
    <3>3. f[T] = g[T] /\ f[T \ {Max(T)}] = g[T \ {Max(T)}]
      BY <2>2, <3>2
    <3>4. g[T] = IF T = {} THEN 0 ELSE g[T \ {Max(T)}] + s[Max(T)]
      BY <1>5, <3>1 DEF Sums
    <3> QED
      BY <3>3, <3>4
  <2> QED
    BY <2>1, <2>2
<1>7. Sums(s, x, f)
  BY <1>6 DEF Sums
<1> QED
  BY <1>2, <1>7

\* The sum of the places up to m, of two sequences that are alike there.
LEMMA SumsFirst ==
    ASSUME NEW n \in Nat, NEW s, NEW f, Sums(s, n, f), NEW m \in 0..n
    PROVE  /\ f[1..0] = 0
           /\ m > 0 => f[1..m] = f[1..m - 1] + s[m]
<1>1. 1..0 = {} /\ 1..0 \in SUBSET (1..n)
  OBVIOUS
<1>2. f[1..0] = 0
  BY <1>1 DEF Sums
<1>3. ASSUME m > 0 PROVE f[1..m] = f[1..m - 1] + s[m]
  <2>1. m \in 1..m /\ 1..m \in SUBSET (1..n) /\ 1..m # {} /\ m \in Nat
    BY <1>3
  <2>2. Max(1..m) = m
    BY <1>3, <2>1, MaxOfInterval
  <2>3. (1..m) \ {m} = 1..m - 1
    BY <2>1
  <2> QED
    BY <2>1, <2>2, <2>3 DEF Sums
<1> QED
  BY <1>2, <1>3

\* Two such functions agree where their sequences do.
LEMMA SumsAgree ==
    ASSUME NEW n \in Nat, NEW p \in Nat, NEW s, NEW t, NEW f, NEW g,
           Sums(s, n, f), Sums(t, p, g), NEW m \in Nat, m <= n, m <= p,
           \A i \in 1..m : s[i] = t[i] /\ s[i] \in Nat
    PROVE  f[1..m] = g[1..m] /\ f[1..m] \in Nat
<1> DEFINE Bad == {i \in Nat : i <= m /\ ~(f[1..i] = g[1..i] /\ f[1..i] \in Nat)}
<1>1. SUFFICES ASSUME Bad # {} PROVE FALSE
  OBVIOUS
<1>2. PICK x \in Bad : \A y \in Bad : x <= y
  BY <1>1, LeastOfNaturals
<1>3. x \in 0..n /\ x \in 0..p
  BY <1>2
<1>4. f[1..0] = 0 /\ (x > 0 => f[1..x] = f[1..x - 1] + s[x])
  BY <1>3, SumsFirst
<1>5. g[1..0] = 0 /\ (x > 0 => g[1..x] = g[1..x - 1] + t[x])
  BY <1>3, SumsFirst
<1>6. x # 0
  BY <1>2, <1>4, <1>5
<1>7. x > 0 /\ x \in 1..m /\ x - 1 \in Nat /\ x - 1 <= m /\ ~(x - 1 \in Bad)
  BY <1>2, <1>6
<1>8. f[1..x - 1] = g[1..x - 1] /\ f[1..x - 1] \in Nat
  BY <1>7
<1>9. f[1..x] = g[1..x] /\ f[1..x] \in Nat
  BY <1>4, <1>5, <1>7, <1>8
<1> QED
  BY <1>2, <1>9

\* SumUpTo adds one number after the other.
LEMMA SumUpToIsSums ==
    ASSUME NEW s, s \in Seq(Nat), NEW n \in 0..Len(s)
    PROVE  \E f : Sums(s, n, f) /\ SumUpTo(s, n) = f[1..n]
<1> DEFINE t == SubSeq(s, 1, n)
           g == CHOOSE f : f = [T \in SUBSET (DOMAIN t) |->
                                   IF T = {} THEN 0 ELSE f[T \ {Max(T)}] + t[Max(T)]]
<1>1. Len(s) \in Nat /\ n \in Nat
  BY LenProperties
<1>2. DOMAIN t = 1..n /\ \A i \in 1..n : t[i] = s[i]
  BY <1>1, SubSeqProperties
<1>3. SumUpTo(s, n) = g[DOMAIN t]
  BY DEF SumUpTo, FoldLeft, MapThenFoldSet
<1>4. PICK f : Sums(t, n, f)
  BY <1>1, SumsExist
<1>5. Sums(t, n, g)
  BY <1>2, <1>4 DEF Sums
<1> HIDE DEF g
<1>6. PICK h : Sums(s, n, h)
  BY <1>1, SumsExist
<1>7. \A i \in 1..n : s[i] \in Nat
  BY <1>1, ElementOfSeq
<1> HIDE DEF t
<1>8. h[1..n] = g[1..n]
  <2>1. n <= n /\ \A i \in 1..n : s[i] = t[i] /\ s[i] \in Nat
    BY <1>1, <1>2, <1>7
  <2> QED
    BY <1>1, <1>5, <1>6, <2>1, SumsAgree
<1> QED
  BY <1>2, <1>3, <1>6, <1>8

\* What SumUpTo computes: one number more is added.
LEMMA SumUpToStep ==
    ASSUME NEW s, s \in Seq(Nat), NEW n \in 0..Len(s)
    PROVE  /\ SumUpTo(s, n) \in Nat
           /\ n = 0 => SumUpTo(s, n) = 0
           /\ n > 0 => SumUpTo(s, n) = SumUpTo(s, n - 1) + s[n]
<1>1. Len(s) \in Nat /\ n \in Nat /\ \A i \in 1..n : s[i] \in Nat
  BY LenProperties, ElementOfSeq
<1>2. PICK f : Sums(s, n, f) /\ SumUpTo(s, n) = f[1..n]
  BY SumUpToIsSums
<1>3. f[1..0] = 0 /\ (n > 0 => f[1..n] = f[1..n - 1] + s[n])
  BY <1>1, <1>2, SumsFirst
<1>4. SumUpTo(s, n) \in Nat
  BY <1>1, <1>2, SumsAgree
<1>5. ASSUME n > 0 PROVE SumUpTo(s, n - 1) = f[1..n - 1]
  <2>1. n - 1 \in 0..Len(s) /\ n - 1 \in Nat
    BY <1>1, <1>5
  <2>2. PICK g : Sums(s, n - 1, g) /\ SumUpTo(s, n - 1) = g[1..n - 1]
    BY <2>1, SumUpToIsSums
  <2>3. \A i \in 1..n - 1 : s[i] = s[i] /\ s[i] \in Nat
    BY <1>1
  <2> QED
    BY <1>1, <1>2, <2>1, <2>2, <2>3, SumsAgree
<1> QED
  BY <1>2, <1>3, <1>4, <1>5

\* The sums grow.
LEMMA SumUpToGrows ==
    ASSUME NEW s, s \in Seq(Nat), NEW n \in 0..Len(s), NEW m \in 0..n
    PROVE  SumUpTo(s, m) <= SumUpTo(s, n)
<1>1. Len(s) \in Nat /\ n \in Nat /\ m \in Nat
  BY LenProperties
<1> DEFINE Bad == {i \in Nat : m <= i /\ i <= n /\ ~(SumUpTo(s, m) <= SumUpTo(s, i))}
<1>2. SUFFICES ASSUME Bad # {} PROVE FALSE
  BY <1>1
<1>3. PICK x \in Bad : \A y \in Bad : x <= y
  BY <1>2, LeastOfNaturals
<1>4. \A i \in 0..n : SumUpTo(s, i) \in Nat
  BY <1>1, SumUpToStep
<1>5. x # m
  BY <1>1, <1>3, <1>4
<1>6. x - 1 \in Nat /\ m <= x - 1 /\ x - 1 <= n /\ ~(x - 1 \in Bad)
  BY <1>1, <1>3, <1>5
<1>7. SumUpTo(s, x) = SumUpTo(s, x - 1) + s[x] /\ s[x] \in Nat
  BY <1>1, <1>3, <1>6, SumUpToStep, ElementOfSeq
<1>8. SumUpTo(s, m) <= SumUpTo(s, x)
  BY <1>1, <1>4, <1>6, <1>7
<1> QED
  BY <1>3, <1>8
-------------------------------------------------------------------------------
(* Where the containers of any bytes are *)

\* A byte is a number below 256.
LEMMA ByteAt ==
    ASSUME NEW s \in Seq(Byte), NEW p \in 1..Len(s)
    PROVE  s[p] \in Nat /\ s[p] < 256
<1>1. s[p] \in Byte
  BY ElementOfSeq
<1> QED
  BY <1>1 DEF Byte, Below

LEMMA GetU16Less ==
    ASSUME NEW s \in Seq(Byte), NEW p \in Nat, p + 2 <= Len(s)
    PROVE  GetU16(s, p) \in Nat /\ GetU16(s, p) < 65536
<1>1. Len(s) \in Nat
  BY LenProperties
<1>2. p + 1 \in 1..Len(s) /\ p + 2 \in 1..Len(s)
  BY <1>1
<1>3. s[p + 1] \in Nat /\ s[p + 1] < 256 /\ s[p + 2] \in Nat /\ s[p + 2] < 256
  BY <1>2, ByteAt
<1> QED
  BY <1>3 DEF GetU16

\* The fields of a header.
LEMMA HeaderIs ==
    ASSUME NEW s
    PROVE  /\ Header(s).hasrun \in BOOLEAN /\ Header(s).offsets \in BOOLEAN
           /\ Header(s).hasrun <=> GetU32(s, 0) % 65536 = SERIAL_COOKIE
           /\ Header(s).size = IF Header(s).hasrun THEN (GetU32(s, 0) \div 65536) + 1
                               ELSE GetU32(s, 4)
           /\ Header(s).keyscards = IF Header(s).hasrun THEN 4 + FlagBytes(Header(s).size) ELSE 8
           /\ Header(s).offsets <=> (~Header(s).hasrun) \/ Header(s).size >= NO_OFFSET_THRESHOLD
           /\ Header(s).containers
                 = Header(s).keyscards + (IF Header(s).offsets THEN 8 ELSE 4) * Header(s).size
<1> DEFINE h == Header(s)
           cookie == GetU32(s, 0)
           run == cookie % 65536 = SERIAL_COOKIE
           n == IF run THEN (cookie \div 65536) + 1 ELSE GetU32(s, 4)
           first == IF run THEN 4 + FlagBytes(n) ELSE 8
           skip == (~run) \/ n >= NO_OFFSET_THRESHOLD
           each == IF skip THEN 8 ELSE 4
           last == first + each * n
<1>1. h = [hasrun |-> run, size |-> n, keyscards |-> first, offsets |-> skip, containers |-> last]
  BY DEF Header
<1>2. run \in BOOLEAN /\ skip \in BOOLEAN
  OBVIOUS
<1>3. (run <=> cookie % 65536 = SERIAL_COOKIE) /\ (skip <=> (~run) \/ n >= NO_OFFSET_THRESHOLD)
  OBVIOUS
<1> HIDE DEF h, run, n, first, skip, each, last
<1>4. h.hasrun = run /\ h.size = n /\ h.keyscards = first /\ h.offsets = skip /\ h.containers = last
  BY <1>1
<1>5. n = IF h.hasrun THEN (cookie \div 65536) + 1 ELSE GetU32(s, 4)
  <2>1. CASE run
    BY <1>4, <2>1 DEF n
  <2>2. CASE ~run
    BY <1>4, <2>2 DEF n
  <2> QED
    BY <2>1, <2>2
<1>6. first = IF h.hasrun THEN 4 + FlagBytes(n) ELSE 8
  BY <1>4, Zenon DEF first
<1>7. each = IF h.offsets THEN 8 ELSE 4
  <2>1. CASE skip
    BY <1>4, <2>1 DEF each
  <2>2. CASE ~skip
    BY <1>4, <2>2 DEF each
  <2> QED
    BY <2>1, <2>2
<1>8. h.containers = h.keyscards + (IF h.offsets THEN 8 ELSE 4) * h.size
  BY <1>4, <1>7, Zenon DEF last
<1>9. /\ h.hasrun \in BOOLEAN /\ h.offsets \in BOOLEAN
      /\ h.hasrun <=> cookie % 65536 = SERIAL_COOKIE
      /\ h.offsets <=> (~h.hasrun) \/ h.size >= NO_OFFSET_THRESHOLD
  BY <1>2, <1>3, <1>4
<1>10. /\ h.size = IF h.hasrun THEN (cookie \div 65536) + 1 ELSE GetU32(s, 4)
       /\ h.keyscards = IF h.hasrun THEN 4 + FlagBytes(h.size) ELSE 8
  BY <1>4, <1>5, <1>6
<1> QED
  BY <1>8, <1>9, <1>10 DEF h

\* They are numbers when the header is all there.
LEMMA HeaderNat ==
    ASSUME NEW s \in Seq(Byte), 4 <= Len(s), Header(s).hasrun \/ 8 <= Len(s)
    PROVE  /\ Header(s).size \in Nat
           /\ (Header(s).hasrun => Header(s).size > 0 /\ Header(s).size <= 65536)
           /\ Header(s).keyscards \in Nat /\ Header(s).keyscards >= 4
           /\ Header(s).containers \in Nat
           /\ Header(s).keyscards + 4 * Header(s).size <= Header(s).containers
<1> DEFINE h == Header(s)
           cookie == GetU32(s, 0)
<1>1. Len(s) \in Nat /\ (h.hasrun \/ 8 <= Len(s))
  BY LenProperties
<1>2. /\ h.hasrun \in BOOLEAN /\ h.offsets \in BOOLEAN
      /\ h.size = IF h.hasrun THEN (cookie \div 65536) + 1 ELSE GetU32(s, 4)
      /\ h.keyscards = IF h.hasrun THEN 4 + FlagBytes(h.size) ELSE 8
      /\ h.containers = h.keyscards + (IF h.offsets THEN 8 ELSE 4) * h.size
  BY HeaderIs
<1>3. cookie \in Nat /\ cookie \div 65536 \in Nat /\ cookie \div 65536 < 65536
  <2>1. /\ GetU16(s, 0) \in Nat /\ GetU16(s, 0) < 65536
        /\ GetU16(s, 2) \in Nat /\ GetU16(s, 2) < 65536
    BY <1>1, GetU16Less
  <2>2. cookie = GetU16(s, 0) + 65536 * GetU16(s, 2)
    BY DEF GetU32
  <2> QED
    BY <2>1, <2>2
<1> HIDE DEF h, cookie
<1>4. h.size \in Nat /\ (h.hasrun => h.size > 0 /\ h.size <= 65536)
  <2>1. CASE h.hasrun
    BY <1>2, <1>3, <2>1
  <2>2. CASE ~h.hasrun
    <3>1. GetU32(s, 4) \in Nat
      BY <1>1, <2>2, GetU32Nat
    <3> QED
      BY <1>2, <2>2, <3>1
  <2> QED
    BY <2>1, <2>2
<1>5. h.keyscards \in Nat /\ h.keyscards >= 4
  <2>1. h.size \in Nat
    BY <1>4
  <2>2. FlagBytes(h.size) \in Nat
    BY <2>1, FlagBytesNat
  <2> QED
    BY <1>2, <2>2
<1>6. /\ h.containers \in Nat /\ h.keyscards + 4 * h.size <= h.containers
  <2>1. 4 * h.size \in Nat /\ 8 * h.size \in Nat /\ 4 * h.size <= 8 * h.size
    BY <1>4
  <2> QED
    BY <1>2, <1>5, <2>1
<1> QED
  BY <1>4, <1>5, <1>6 DEF h

\* What of bytes that can be a bitmap's is a number.
LEMMA AcceptableHeader ==
    ASSUME NEW s \in Seq(Byte), NEW m \in 0..Len(s), Acceptable(s, m)
    PROVE  /\ m \in Nat /\ m <= Len(s) /\ Len(s) \in Nat
           /\ Header(s).size \in Nat /\ Header(s).keyscards \in Nat
           /\ Header(s).containers \in Nat /\ Header(s).containers >= 4
           /\ Header(s).keyscards + 4 * Header(s).size <= m
<1>1. Len(s) \in Nat /\ m \in Nat /\ m <= Len(s)
  BY LenProperties
<1>2. 4 <= Len(s) /\ (Header(s).hasrun \/ 8 <= Len(s)) /\ Header(s).containers <= m
  BY <1>1 DEF Acceptable
<1>3. /\ Header(s).size \in Nat /\ Header(s).keyscards \in Nat /\ Header(s).containers \in Nat
      /\ Header(s).keyscards >= 4
      /\ Header(s).keyscards + 4 * Header(s).size <= Header(s).containers
  BY <1>2, HeaderNat
<1> HIDE DEF Acceptable
<1> QED
  BY <1>1, <1>2, <1>3

\* A container has a cardinality, a kind and a size, wherever it is taken to be.
LEMMA SizeAtNat ==
    ASSUME NEW s \in Seq(Byte), NEW m \in 0..Len(s), Acceptable(s, m),
           NEW i \in Nat, i < Header(s).size, NEW p \in Nat
    PROVE  /\ CardAt(s, Header(s).keyscards, i) \in Nat \ {0}
           /\ KindAt(s, Header(s), i) \in Kind
           /\ SizeAt(s, m, i, p) \in Nat
<1> DEFINE h == Header(s)
<1>1. /\ m \in Nat /\ m <= Len(s) /\ Len(s) \in Nat
      /\ h.size \in Nat /\ h.keyscards \in Nat /\ h.keyscards + 4 * h.size <= m
  BY AcceptableHeader
<1> HIDE DEF h
<1>2. h.keyscards + 4 * i + 2 \in Nat /\ (h.keyscards + 4 * i + 2) + 2 <= Len(s)
  <2> DEFINE a == h.keyscards
             z == h.size
             l == Len(s)
  <2>1. i < z
    BY DEF h
  <2>2. a \in Nat /\ z \in Nat /\ l \in Nat /\ a + 4 * z <= m /\ m <= l /\ m \in Nat
    BY <1>1
  <2> HIDE DEF a, z, l
  <2>3. a + 4 * i + 2 \in Nat /\ (a + 4 * i + 2) + 2 <= l
    BY <2>1, <2>2
  <2> QED
    BY <2>3 DEF a, l
<1>3. GetU16(s, h.keyscards + 4 * i + 2) \in Nat
  BY <1>2, GetU16Nat
<1>4. CardAt(s, h.keyscards, i) \in Nat \ {0}
  BY <1>3 DEF CardAt
<1>5. KindAt(s, h, i) \in Kind
  BY DEF KindAt, KindOf, Kind
<1>6. p + 2 <= m => GetU16(s, p) \in Nat
  BY <1>1, GetU16Nat
<1>7. p + 2 <= m \/ p + 2 > m
  BY <1>1
<1>8. SizeAt(s, m, i, p) \in Nat
  <2>1. SizeAt(s, m, i, p) =
          CASE KindAt(s, h, i) = "bitset" -> BitsetBytes
            [] KindAt(s, h, i) = "run" -> 2 + IF p + 2 > m THEN 0 ELSE 4 * GetU16(s, p)
            [] OTHER -> 2 * CardAt(s, h.keyscards, i)
    BY Zenon DEF SizeAt, h
  <2>2. CASE KindAt(s, h, i) = "bitset"
    BY <2>1, <2>2, FormatAssumption
  <2>3. CASE KindAt(s, h, i) = "run"
    BY <2>1, <2>3, <1>6, <1>7, <1>1
  <2>4. CASE KindAt(s, h, i) = "array"
    BY <2>1, <2>4, <1>4
  <2> QED
    BY <1>5, <2>2, <2>3, <2>4 DEF Kind
<1> QED
  BY <1>4, <1>5, <1>8 DEF h

\* The function is what it is defined to be.
LEMMA StartsAre ==
    ASSUME NEW s \in Seq(Byte), NEW m \in 0..Len(s), Acceptable(s, m)
    PROVE  /\ Starts(s, m) \in [0..Header(s).size -> Nat]
           /\ Starts(s, m)[0] = Header(s).containers
           /\ \A i \in 1..Header(s).size :
                 LET p == Starts(s, m)[i - 1]
                     end == p + SizeAt(s, m, i - 1, p)
                 IN  Starts(s, m)[i] = IF p = 0 \/ end > m THEN 0 ELSE end
<1> DEFINE n == Header(s).size
           first == Header(s).containers
           Size(i, p) == SizeAt(s, m, i, p)
           G == [i \in 1..n |-> [p \in Nat |-> IF p = 0 \/ p + Size(i - 1, p) > m
                                               THEN 0 ELSE p + Size(i - 1, p)]]
           F == CHOOSE f : f = [i \in 0..n |->
                   IF i = 0 THEN first
                   ELSE IF f[i - 1] = 0 \/ f[i - 1] + Size(i - 1, f[i - 1]) > m
                   THEN 0 ELSE f[i - 1] + Size(i - 1, f[i - 1])]
<1>1. n \in Nat /\ first \in Nat
  BY AcceptableHeader
<1>2. \A i \in Nat, p \in Nat : i < n => Size(i, p) \in Nat
  BY SizeAtNat
<1>3. Starts(s, m) = F
  BY DEF Starts
<1> HIDE DEF n, first, Size
<1>4. G \in [1..n -> [Nat -> Nat]]
  <2>1. ASSUME NEW i \in 1..n, NEW p \in Nat
        PROVE  (IF p = 0 \/ p + Size(i - 1, p) > m THEN 0 ELSE p + Size(i - 1, p)) \in Nat
    <3>1. i - 1 \in Nat /\ i - 1 < n
      BY <1>1
    <3>2. Size(i - 1, p) \in Nat
      BY <1>2, <3>1
    <3> QED
      BY <3>2
  <2> QED
    BY <2>1
<1> HIDE DEF G, F
<1>5. PICK f \in [0..n -> Nat] : f[0] = first /\ \A i \in 1..n : f[i] = G[i][f[i - 1]]
  <2>1. Steps(n, Nat, G)
    BY <1>4 DEF Steps
  <2>2. \E f : Chain(n, Nat, first, G, f)
    BY <1>1, <2>1, Iterated
  <2> QED
    BY <2>2 DEF Chain
<1>6. ASSUME NEW i \in 1..n
      PROVE  /\ i \in 0..n /\ i # 0 /\ f[i - 1] \in Nat
             /\ f[i] = IF f[i - 1] = 0 \/ f[i - 1] + Size(i - 1, f[i - 1]) > m
                       THEN 0 ELSE f[i - 1] + Size(i - 1, f[i - 1])
  <2>1. f[i - 1] \in Nat /\ i \in 0..n /\ i # 0
    BY <1>1, <1>5
  <2> QED
    BY <1>5, <2>1 DEF G
<1>7. f = [i \in 0..n |->
             IF i = 0 THEN first
             ELSE IF f[i - 1] = 0 \/ f[i - 1] + Size(i - 1, f[i - 1]) > m
             THEN 0 ELSE f[i - 1] + Size(i - 1, f[i - 1])]
  <2>1. \A i \in 0..n : i = 0 \/ i \in 1..n
    BY <1>1
  <2> QED
    BY <1>5, <1>6, <2>1
<1>8. F = [i \in 0..n |->
             IF i = 0 THEN first
             ELSE IF F[i - 1] = 0 \/ F[i - 1] + Size(i - 1, F[i - 1]) > m
             THEN 0 ELSE F[i - 1] + Size(i - 1, F[i - 1])]
  BY <1>7 DEF F
<1>9. /\ F[0] = first
      /\ \A i \in 1..n : F[i] = IF F[i - 1] = 0 \/ F[i - 1] + Size(i - 1, F[i - 1]) > m
                                THEN 0 ELSE F[i - 1] + Size(i - 1, F[i - 1])
  BY <1>1, <1>8
<1>10. \A i \in 0..n : F[i] \in Nat
  <2> DEFINE Bad == {i \in Nat : i <= n /\ F[i] \notin Nat}
  <2>1. SUFFICES ASSUME Bad # {} PROVE FALSE
    BY <1>1
  <2>2. PICK x \in Bad : \A y \in Bad : x <= y
    BY <2>1, LeastOfNaturals
  <2>3. x # 0
    BY <1>1, <1>9, <2>2
  <2>4. x \in 1..n /\ x - 1 \in Nat /\ x - 1 < n /\ ~(x - 1 \in Bad)
    BY <1>1, <2>2, <2>3
  <2>5. F[x - 1] \in Nat
    BY <1>1, <2>4
  <2>6. Size(x - 1, F[x - 1]) \in Nat
    BY <1>2, <2>4, <2>5
  <2>7. F[x] \in Nat
    BY <1>9, <2>4, <2>5, <2>6
  <2> QED
    BY <2>2, <2>7
<1>11. F \in [0..n -> Nat]
  BY <1>8, <1>10
<1> QED
  BY <1>3, <1>9, <1>11 DEF n, first, Size

\* Once a container has gone beyond the end, no other one begins.
LEMMA ZeroStays ==
    ASSUME NEW s \in Seq(Byte), NEW m \in 0..Len(s), Acceptable(s, m),
           NEW i \in 0..Header(s).size, Starts(s, m)[i] = 0
    PROVE  Starts(s, m)[Header(s).size] = 0
<1> DEFINE n == Header(s).size
           F == Starts(s, m)
<1>1. n \in Nat
  BY AcceptableHeader
<1>2. ASSUME NEW j \in 1..n, F[j - 1] = 0 PROVE F[j] = 0
  BY <1>2, StartsAre
<1> HIDE DEF n, F
<1> DEFINE Bad == {j \in Nat : i <= j /\ j <= n /\ F[j] # 0}
<1>3. SUFFICES ASSUME Bad # {} PROVE FALSE
  BY <1>1 DEF n, F
<1>4. PICK x \in Bad : \A y \in Bad : x <= y
  BY <1>3, LeastOfNaturals
<1>5. i \in Nat /\ F[i] = 0
  BY DEF F
<1>6. x \in Nat /\ i <= x /\ x <= n /\ x # i
  BY <1>4, <1>5
<1>7. x \in 1..n /\ x - 1 \in Nat /\ i <= x - 1 /\ x - 1 <= n /\ ~(x - 1 \in Bad)
  BY <1>1, <1>4, <1>5, <1>6
<1>8. F[x - 1] = 0
  BY <1>7
<1> QED
  BY <1>2, <1>4, <1>7, <1>8

\* The size of bytes that are no bitmap's is 0, and of a bitmap's where the last container ends.
LEMMA SizeIs ==
    ASSUME NEW s \in Seq(Byte), NEW m \in 0..Len(s)
    PROVE  /\ Acceptable(s, m)
                => ra_portable_deserialize_size(s, m) = Starts(s, m)[Header(s).size]
           /\ m < 4 => ra_portable_deserialize_size(s, m) = 0
           /\ ~HasCookie(s) => ra_portable_deserialize_size(s, m) = 0
           /\ ~Header(s).hasrun /\ m < 8 => ra_portable_deserialize_size(s, m) = 0
           /\ Header(s).size > MaxContainers \/ Header(s).containers > m
                => ra_portable_deserialize_size(s, m) = 0
<1>1. ra_portable_deserialize_size(s, m) =
        IF m < 4 THEN 0
        ELSE IF ~HasCookie(s) \/ ((~Header(s).hasrun) /\ m < 8) THEN 0
        ELSE IF Header(s).size > MaxContainers \/ Header(s).containers > m THEN 0
        ELSE Starts(s, m)[Header(s).size]
  BY DEF ra_portable_deserialize_size, Starts, SizeAt
<1>2. m \in Nat
  BY LenProperties
<1>3. ASSUME Acceptable(s, m)
      PROVE  ra_portable_deserialize_size(s, m) = Starts(s, m)[Header(s).size]
  <2>1. Header(s).size \in Nat /\ Header(s).containers \in Nat
    BY <1>3, AcceptableHeader
  <2>2. /\ ~(m < 4) /\ HasCookie(s) /\ (Header(s).hasrun \/ ~(m < 8))
        /\ ~(Header(s).size > MaxContainers) /\ ~(Header(s).containers > m)
    BY <1>2, <1>3, <2>1 DEF Acceptable, MaxContainers
  <2> QED
    BY <1>1, <2>2
<1> QED
  BY <1>1, <1>3
-------------------------------------------------------------------------------
(* The reader and ra_portable_deserialize_size agree *)

\* The next container begins where this one ends, or there is no bitmap.
LEMMA NextStart ==
    ASSUME NEW s \in Seq(Byte), NEW m \in 0..Len(s), Acceptable(s, m),
           NEW i \in 1..Header(s).size, NEW p, p = Starts(s, m)[i - 1], p > 0
    PROVE  /\ p \in Nat /\ SizeAt(s, m, i - 1, p) \in Nat
           /\ p + SizeAt(s, m, i - 1, p) <= m
                => Starts(s, m)[i] = p + SizeAt(s, m, i - 1, p)
           /\ p + SizeAt(s, m, i - 1, p) > m => ra_portable_deserialize_size(s, m) = 0
<1> DEFINE end == p + SizeAt(s, m, i - 1, p)
<1>1. m \in Nat /\ Header(s).size \in Nat
  BY AcceptableHeader
<1>2. /\ i - 1 \in 0..Header(s).size /\ i - 1 \in Nat /\ i - 1 < Header(s).size
      /\ i \in 0..Header(s).size
  BY <1>1
<1>3. p \in Nat
  BY <1>2, StartsAre
<1>4. SizeAt(s, m, i - 1, p) \in Nat
  BY <1>2, <1>3, SizeAtNat
<1>5. Starts(s, m)[i] = IF p = 0 \/ end > m THEN 0 ELSE end
  BY StartsAre
<1>6. ASSUME end > m PROVE ra_portable_deserialize_size(s, m) = 0
  <2>1. Starts(s, m)[i] = 0
    BY <1>5, <1>6
  <2> QED
    BY <1>2, <2>1, ZeroStays, SizeIs
<1> QED
  BY <1>1, <1>3, <1>4, <1>5, <1>6

\* What the reader is given.
LEMMA Given ==
    ASSUME IInv PROVE input \in Seq(Byte) /\ maxbytes \in 0..Len(input) /\ maxbytes \in Nat
BY LenProperties DEF IInv, Places

\* What the reader takes the container at hand for.
LEMMA HereIs ==
    ASSUME Headed, keyscards = Header(input).keyscards
    PROVE  /\ Card = CardAt(input, Header(input).keyscards, k - 1)
           /\ KindHere = KindAt(input, Header(input), k - 1)
<1>1. Card = CardAt(input, Header(input).keyscards, k - 1)
  BY DEF Card
<1>2. hasrun = Header(input).hasrun
  BY DEF Headed
<1>3. KindHere = KindAt(input, Header(input), k - 1)
  BY <1>1, <1>2 DEF KindHere, KindAt
<1> QED
  BY <1>1, <1>3

\* The reader has come to a container.
LEMMA AtContainer ==
    ASSUME IInv, SizeInv, pc \in {"read_container", "read_runs"}, k <= size
    PROVE  /\ Acceptable(input, maxbytes) /\ k \in 1..Header(input).size
           /\ at = Starts(input, maxbytes)[k - 1] /\ at > 0 /\ readbytes \in Nat /\ at \in Nat
           /\ Card = CardAt(input, Header(input).keyscards, k - 1)
           /\ KindHere = KindAt(input, Header(input), k - 1)
<1>1. Headed /\ keyscards = Header(input).keyscards
  BY DEF SizeInv, Behind
<1>2. k \in 1..size + 1 /\ size \in Nat /\ readbytes \in Nat /\ at \in Nat
  BY DEF IInv, HeapInv, Places, Behind
<1>3. k \in 1..Header(input).size
  BY <1>1, <1>2 DEF Headed
<1>4. Acceptable(input, maxbytes) /\ at = Starts(input, maxbytes)[k - 1] /\ at > 0
  BY DEF SizeInv
<1> QED
  BY <1>1, <1>2, <1>3, <1>4, HereIs

\* Every step keeps SizeInv: each read of a field brings the reader to where
\* ra_portable_deserialize_size has the next one, and each refusal is one of its own.
LEMMA InitSizeInv == Init => SizeInv
BY DEF Init, SizeInv, Writing, Behind

LEMMA WriterSize ==
    ASSUME SizeInv, pc \in Writing, pc' \in Writing, UNCHANGED Reading
    PROVE  SizeInv'
BY DEF SizeInv, Writing, Behind, Reading, header

LEMMA FailedSize ==
    ASSUME pc' = "failed", refused' \/ ra_portable_deserialize_size(input', maxbytes') = 0
    PROVE  SizeInv'
BY DEF SizeInv, Writing, Behind

LEMMA OpenSize == ASSUME SizeInv, Open \/ OpenRefused PROVE SizeInv'
<1>1. hasrun' = FALSE
  BY DEF SizeInv, Writing, Open, OpenRefused, header
<1>2. CASE Open
  <2>1. pc' = "read_cookie"
    BY <1>2 DEF Open
  <2> QED
    BY <1>1, <2>1 DEF SizeInv, Writing, Behind
<1>3. CASE OpenRefused
  BY <1>3, FailedSize DEF OpenRefused
<1> QED
  BY <1>2, <1>3

LEMMA RunOutSize == ASSUME IInv, SizeInv, RunOut PROVE SizeInv'
<1>1. input \in Seq(Byte) /\ maxbytes \in 0..Len(input) /\ maxbytes \in Nat
  BY Given
<1>2. Len(input) \in Nat
  BY <1>1, LenProperties
<1>3. /\ AtField /\ ~(readbytes + Needed <= maxbytes) /\ pc' = "failed"
      /\ input' = input /\ maxbytes' = maxbytes
  BY DEF RunOut, Enough, Give
<1>4. readbytes \in Nat /\ at \in Nat /\ size \in Nat /\ Needed \in Nat
  BY <1>3, NeededNat DEF IInv, Places
<1>5. readbytes + Needed > maxbytes
  BY <1>1, <1>3, <1>4
<1>6. SUFFICES ra_portable_deserialize_size(input, maxbytes) = 0
  BY <1>3, FailedSize
<1>7. CASE pc = "read_cookie"
  <2>1. Needed = 4 /\ readbytes = 0
    BY <1>7 DEF Needed, IInv, PlaceInv
  <2> QED
    BY <1>1, <1>5, <2>1, SizeIs
<1>8. CASE pc = "read_size"
  <2>1. Needed = 4 /\ readbytes = 4
    BY <1>8 DEF Needed, IInv, PlaceInv
  <2>2. GetU32(input, 0) = SERIAL_COOKIE_NO_RUNCONTAINER
    BY <1>8 DEF SizeInv, Cookie
  <2>3. ~(GetU32(input, 0) % 65536 = SERIAL_COOKIE)
    BY <2>2 DEF SERIAL_COOKIE_NO_RUNCONTAINER, SERIAL_COOKIE
  <2>4. ~Header(input).hasrun /\ maxbytes < 8
    BY <1>1, <1>5, <2>1, <2>3, HeaderIs
  <2> QED
    BY <1>1, <2>4, SizeIs
<1>9. CASE pc \in {"read_flags", "read_keys", "read_offsets"}
  <2>1. Headed
    BY <1>9 DEF SizeInv, Behind
  <2>2. /\ 4 <= Len(input) /\ (Header(input).hasrun \/ 8 <= Len(input))
        /\ size = Header(input).size /\ hasrun = Header(input).hasrun
    BY <1>1, <1>2, <2>1 DEF Headed
  <2>3. /\ Header(input).keyscards \in Nat /\ Header(input).containers \in Nat
        /\ Header(input).keyscards + 4 * size <= Header(input).containers
    BY <1>1, <2>2, HeaderNat
  <2>4. CASE pc = "read_flags"
    <3>1. Needed = FlagBytes(size) /\ readbytes = 4 /\ hasrun
      BY <2>4 DEF Needed, IInv, PlaceInv, SizeInv
    <3>2. Header(input).keyscards = 4 + FlagBytes(size)
      <4>1. Header(input).hasrun /\ Header(input).size = size
        BY <2>2, <3>1
      <4>2. Header(input).keyscards = 4 + FlagBytes(Header(input).size)
        BY <4>1, HeaderIs
      <4> QED
        BY <4>1, <4>2
    <3>3. Header(input).containers > maxbytes
      BY <1>1, <1>4, <1>5, <2>3, <3>1, <3>2
    <3> QED
      BY <1>1, <3>3, SizeIs
  <2>5. CASE pc = "read_keys"
    <3>1. Needed = 4 * size /\ readbytes = Header(input).keyscards
      BY <2>5 DEF Needed, IInv, PlaceInv, SizeInv
    <3>2. Header(input).containers > maxbytes
      BY <1>1, <1>4, <1>5, <2>3, <3>1
    <3> QED
      BY <1>1, <3>2, SizeIs
  <2>6. CASE pc = "read_offsets"
    <3>1. Needed = 4 * size /\ readbytes = Header(input).keyscards + 4 * size /\ OffsetsFollow
      BY <2>6 DEF Needed, IInv, PlaceInv, SizeInv, Behind
    <3>2. Header(input).offsets
      BY <2>2, <3>1, HeaderIs DEF OffsetsFollow
    <3>3. Header(input).containers = Header(input).keyscards + 8 * size
      BY <2>2, <3>2, HeaderIs
    <3>4. Header(input).containers > maxbytes
      BY <1>1, <1>4, <1>5, <2>3, <3>1, <3>3
    <3> QED
      BY <1>1, <3>4, SizeIs
  <2> QED
    BY <1>9, <2>4, <2>5, <2>6
<1>10. CASE AtContainers \/ pc = "read_runs"
  <2> DEFINE more == SizeAt(input, maxbytes, k - 1, at)
  <2>1. pc \in {"read_container", "read_runs"} /\ k <= size
    BY <1>10 DEF AtContainers, IInv, HeapInv
  <2>2. /\ Acceptable(input, maxbytes) /\ k \in 1..Header(input).size
        /\ at = Starts(input, maxbytes)[k - 1] /\ at > 0
        /\ Card = CardAt(input, Header(input).keyscards, k - 1)
        /\ KindHere = KindAt(input, Header(input), k - 1)
    BY <2>1, AtContainer
  <2>3. more = CASE KindHere = "bitset" -> BitsetBytes
                 [] KindHere = "run" -> 2 + IF at + 2 > maxbytes THEN 0 ELSE 4 * GetU16(input, at)
                 [] OTHER -> 2 * Card
    BY <2>2, Zenon DEF SizeAt
  <2>4. KindHere \in Kind /\ Card \in Nat
    BY <2>1, Described DEF Behind
  <2> HIDE DEF more
  <2>5. at + more > maxbytes
    <3>1. CASE pc = "read_container" /\ KindHere # "run"
      <4>1. Needed = more
        BY <2>3, <2>4, <3>1 DEF Needed, Kind
      <4>2. readbytes = at
        BY <3>1 DEF IInv, PlaceInv
      <4> QED
        BY <1>5, <4>1, <4>2
    <3>2. CASE pc = "read_container" /\ KindHere = "run"
      <4>1. Needed = 2
        BY <3>2 DEF Needed
      <4>2. readbytes = at
        BY <3>2 DEF IInv, PlaceInv
      <4>3. more = 2
        BY <1>1, <1>4, <1>5, <2>3, <3>2, <4>1, <4>2
      <4> QED
        BY <1>5, <4>1, <4>2, <4>3
    <3>3. CASE pc = "read_runs"
      <4>1. Needed = 4 * GetU16(input, at) /\ KindHere = "run"
        BY <3>3 DEF Needed, RunBytes, SizeInv
      <4>2. readbytes = at + 2 /\ readbytes <= maxbytes
        BY <3>3 DEF IInv, PlaceInv
      <4>3. more = 2 + Needed
        BY <1>1, <1>4, <2>3, <4>1, <4>2
      <4> QED
        BY <1>1, <1>4, <1>5, <4>2, <4>3
    <3> QED
      BY <2>1, <3>1, <3>2, <3>3
  <2> QED
    BY <1>1, <2>2, <2>5, NextStart DEF more
<1> QED
  BY <1>3, <1>7, <1>8, <1>9, <1>10 DEF AtField

LEMMA ReadCookieSize == ASSUME IInv, SizeInv, ReadCookie PROVE SizeInv'
<1> DEFINE WithRuns == /\ (Cookie % 65536) = SERIAL_COOKIE /\ size' = (Cookie \div 65536) + 1
                       /\ hasrun' = TRUE /\ pc' = "read_flags"
           NoRuns == /\ Cookie = SERIAL_COOKIE_NO_RUNCONTAINER /\ pc' = "read_size"
                     /\ UNCHANGED <<size, hasrun, heap, wild>>
           Other == /\ (Cookie % 65536) # SERIAL_COOKIE /\ Cookie # SERIAL_COOKIE_NO_RUNCONTAINER
                    /\ pc' = "failed"
<1>1. input \in Seq(Byte) /\ maxbytes \in 0..Len(input) /\ maxbytes \in Nat /\ Len(input) \in Nat
  BY Given, LenProperties
<1>2. pc = "read_cookie" /\ readbytes + Needed <= maxbytes /\ input' = input /\ maxbytes' = maxbytes
  BY DEF ReadCookie, Enough
<1>3. maxbytes >= 4 /\ 4 <= Len(input)
  <2>1. Needed = 4 /\ readbytes = 0
    BY <1>2 DEF Needed, IInv, PlaceInv
  <2> QED
    BY <1>1, <1>2, <2>1
<1>4. hasrun = FALSE
  BY <1>2 DEF SizeInv
<1>5. CASE WithRuns
  <2>1. Header(input).hasrun = TRUE /\ HasCookie(input)
    BY <1>5, HeaderIs DEF Cookie, HasCookie
  <2>2. Header(input).size = (Cookie \div 65536) + 1
    BY <2>1, HeaderIs DEF Cookie
  <2>3. Header(input).size <= MaxContainers
    BY <1>1, <1>3, <2>1, HeaderNat DEF MaxContainers
  <2>4. Headed'
    <3>1. maxbytes' >= 4 /\ HasCookie(input') /\ Header(input').hasrun
      BY <1>2, <1>3, <2>1
    <3>2. hasrun' = Header(input').hasrun
      <4>1. hasrun' = TRUE /\ Header(input).hasrun = TRUE
        BY <1>5, <2>1
      <4> QED
        BY <1>2, <4>1, Zenon
    <3>3. size' = Header(input').size /\ size' <= MaxContainers
      BY <1>2, <1>5, <2>2, <2>3
    <3> QED
      BY <3>1, <3>2, <3>3 DEF Headed
  <2> QED
    BY <1>5, <2>4 DEF SizeInv, Writing, Behind
<1>6. CASE NoRuns
  <2>1. Cookie' = Cookie
    BY <1>2 DEF Cookie
  <2> QED
    BY <1>2, <1>3, <1>4, <1>6, <2>1 DEF SizeInv, Writing, Behind
<1>7. CASE Other
  <2>1. ~HasCookie(input)
    BY <1>7 DEF HasCookie, Cookie
  <2>2. ra_portable_deserialize_size(input, maxbytes) = 0
    BY <1>1, <2>1, SizeIs
  <2> QED
    BY <1>2, <1>7, <2>2, FailedSize
<1>8. WithRuns \/ NoRuns \/ Other
  BY DEF ReadCookie, Give
<1> HIDE DEF WithRuns, NoRuns, Other
<1> QED
  BY <1>5, <1>6, <1>7, <1>8

LEMMA ReadSizeSize == ASSUME IInv, SizeInv, ReadSize PROVE SizeInv'
<1>1. input \in Seq(Byte) /\ maxbytes \in 0..Len(input) /\ maxbytes \in Nat /\ Len(input) \in Nat
  BY Given, LenProperties
<1>2. /\ pc = "read_size" /\ readbytes + Needed <= maxbytes
      /\ input' = input /\ maxbytes' = maxbytes
      /\ at' = 8 /\ size' = GetU32(input, 4) /\ hasrun' = hasrun
  BY DEF ReadSize, Enough
<1>3. maxbytes >= 8 /\ 8 <= Len(input) /\ 4 <= Len(input)
  <2>1. Needed = 4 /\ readbytes = 4
    BY <1>2 DEF Needed, IInv, PlaceInv
  <2> QED
    BY <1>1, <1>2, <2>1
<1>4. hasrun = FALSE /\ GetU32(input, 0) = SERIAL_COOKIE_NO_RUNCONTAINER
  BY <1>2 DEF SizeInv, Cookie
<1>5. HasCookie(input) /\ ~(GetU32(input, 0) % 65536 = SERIAL_COOKIE)
  BY <1>4 DEF HasCookie, SERIAL_COOKIE_NO_RUNCONTAINER, SERIAL_COOKIE
<1>6. Header(input).hasrun = FALSE
  BY <1>5, HeaderIs
<1>7. Header(input).size = size' /\ Header(input).keyscards = 8
  BY <1>2, <1>6, HeaderIs
<1>8. size' \in Nat
  BY <1>1, <1>2, <1>3, GetU32Nat
<1>9. CASE size' > MaxContainers /\ pc' = "failed"
  <2>1. ra_portable_deserialize_size(input, maxbytes) = 0
    BY <1>1, <1>7, <1>9, SizeIs
  <2> QED
    BY <1>2, <1>9, <2>1, FailedSize
<1>10. CASE ~(size' > MaxContainers) /\ pc' = "read_keys"
  <2>1. size' <= MaxContainers
    BY <1>8, <1>10 DEF MaxContainers
  <2>2. Headed'
    <3>1. maxbytes' >= 4 /\ HasCookie(input') /\ maxbytes' >= 8
      BY <1>1, <1>2, <1>3, <1>5
    <3>2. hasrun' = Header(input').hasrun
      BY <1>2, <1>4, <1>6
    <3>3. size' = Header(input').size /\ size' <= MaxContainers
      BY <1>2, <1>7, <2>1
    <3> QED
      BY <3>1, <3>2, <3>3 DEF Headed
  <2> QED
    BY <1>2, <1>7, <1>10, <2>2 DEF SizeInv, Writing, Behind
<1> QED
  BY <1>9, <1>10 DEF ReadSize, Give

LEMMA ReadFlagsSize == ASSUME IInv, SizeInv, ReadFlags PROVE SizeInv'
<1>1. /\ pc = "read_flags" /\ pc' = "read_keys" /\ at' = at + FlagBytes(size) /\ input' = input
      /\ maxbytes' = maxbytes /\ size' = size /\ hasrun' = hasrun
  BY DEF ReadFlags, header
<1>2. at = 4 /\ Headed /\ hasrun
  BY <1>1 DEF IInv, PlaceInv, SizeInv
<1>3. Header(input).hasrun /\ Header(input).size = size
  BY <1>2 DEF Headed
<1>4. Header(input).keyscards = 4 + FlagBytes(Header(input).size)
  BY <1>3, HeaderIs
<1>5. Headed'
  BY <1>1, <1>2 DEF Headed
<1>6. at' = Header(input').keyscards
  BY <1>1, <1>2, <1>3, <1>4
<1> QED
  BY <1>1, <1>5, <1>6 DEF SizeInv, Writing, Behind

\* The containers begin.
LEMMA FirstContainer ==
    ASSUME IInv, Headed, Header(input).containers <= maxbytes
    PROVE  /\ Acceptable(input, maxbytes)
           /\ Header(input).containers = Starts(input, maxbytes)[0]
           /\ Header(input).containers > 0
<1>1. input \in Seq(Byte) /\ maxbytes \in 0..Len(input)
  BY Given
<1>2. Acceptable(input, maxbytes)
  BY DEF Headed, Acceptable
<1>3. Header(input).containers \in Nat /\ Header(input).containers >= 4
  BY <1>1, <1>2, AcceptableHeader
<1> QED
  BY <1>1, <1>2, <1>3, StartsAre

LEMMA ReadKeysSize == ASSUME IInv, SizeInv, ReadKeys PROVE SizeInv'
<1>1. input \in Seq(Byte) /\ maxbytes \in 0..Len(input) /\ maxbytes \in Nat /\ Len(input) \in Nat
  BY Given, LenProperties
<1>2. /\ pc = "read_keys" /\ readbytes + Needed <= maxbytes
      /\ input' = input /\ maxbytes' = maxbytes
      /\ at' = at + 4 * size /\ keyscards' = at /\ k' = 1 /\ size' = size /\ hasrun' = hasrun
  BY DEF ReadKeys, Enough
<1>3. Headed /\ at = Header(input).keyscards
  BY <1>2 DEF SizeInv
<1>4. /\ Needed = 4 * size /\ readbytes = at
  BY <1>2 DEF Needed, IInv, PlaceInv
<1>5. size = Header(input).size /\ hasrun = Header(input).hasrun
  BY <1>3 DEF Headed
<1>6. Headed' /\ keyscards' = Header(input').keyscards
  BY <1>2, <1>3 DEF Headed
<1>7. CASE OffsetsFollow /\ pc' = "read_offsets"
  <2>1. OffsetsFollow'
    BY <1>2, <1>7 DEF OffsetsFollow
  <2>2. at' = keyscards' + 4 * size'
    BY <1>2
  <2> QED
    BY <1>6, <1>7, <2>1, <2>2 DEF SizeInv, Writing, Behind
<1>8. CASE ~OffsetsFollow /\ pc' = "read_container"
  <2>1. ~Header(input).offsets
    BY <1>5, <1>8, HeaderIs DEF OffsetsFollow
  <2>2. Header(input).containers = at'
    BY <1>2, <1>3, <1>5, <2>1, HeaderIs
  <2>3. Header(input).containers <= maxbytes
    BY <1>2, <1>4, <2>2
  <2>4. Acceptable(input, maxbytes) /\ at' = Starts(input, maxbytes)[0] /\ at' > 0
    BY <1>3, <2>2, <2>3, FirstContainer
  <2>5. k' - 1 = 0
    BY <1>2
  <2> QED
    BY <1>2, <1>6, <1>8, <2>4, <2>5 DEF SizeInv, Writing, Behind
<1>9. CASE pc' = "failed" /\ refused' = TRUE
  BY <1>9, FailedSize
<1> QED
  BY <1>7, <1>8, <1>9 DEF ReadKeys, Give

LEMMA SkipOffsetsSize == ASSUME IInv, SizeInv, SkipOffsets PROVE SizeInv'
<1>1. /\ pc = "read_offsets" /\ readbytes + Needed <= maxbytes /\ input' = input
      /\ maxbytes' = maxbytes /\ at' = at + 4 * size /\ pc' = "read_container"
      /\ k' = k /\ size' = size /\ hasrun' = hasrun /\ keyscards' = keyscards
  BY DEF SkipOffsets, Enough, header
<1>2. Headed /\ keyscards = Header(input).keyscards /\ OffsetsFollow /\ at = keyscards + 4 * size
  BY <1>1 DEF SizeInv, Behind
<1>3. Needed = 4 * size /\ readbytes = at /\ k = 1
  BY <1>1 DEF Needed, IInv, PlaceInv, HeapInv, Behind
<1>4. /\ size = Header(input).size /\ hasrun = Header(input).hasrun
      /\ size \in Nat /\ keyscards \in Nat
  BY <1>2 DEF Headed, IInv, Places
<1>5. Header(input).offsets
  BY <1>2, <1>4, HeaderIs DEF OffsetsFollow
<1>6. Header(input).containers = keyscards + 8 * size
  BY <1>2, <1>4, <1>5, HeaderIs
<1>7. Header(input).containers = at'
  BY <1>1, <1>2, <1>4, <1>6
<1>8. Header(input).containers <= maxbytes
  BY <1>1, <1>3, <1>7
<1>9. Acceptable(input, maxbytes) /\ at' = Starts(input, maxbytes)[0] /\ at' > 0
  BY <1>2, <1>7, <1>8, FirstContainer
<1>10. Headed' /\ keyscards' = Header(input').keyscards /\ k' - 1 = 0
  BY <1>1, <1>2, <1>3 DEF Headed
<1> QED
  BY <1>1, <1>9, <1>10 DEF SizeInv, Writing, Behind

\* A container that was read is the one that is there, and leads to the next.
LEMMA BuiltNext ==
    ASSUME IInv, SizeInv, TakenInv, pc \in {"read_container", "read_runs"}, k <= size,
           NEW p \in Nat, NEW n \in Nat, Built(KindHere, p, n),
           p + n = at + SizeAt(input, maxbytes, k - 1, at), p + n <= maxbytes,
           p = at + Skipped(KindHere),
           UNCHANGED <<input, maxbytes, size, hasrun, keyscards, keys>>
    PROVE  SizeInv' /\ TakenInv'
<1>1. input \in Seq(Byte) /\ maxbytes \in 0..Len(input) /\ maxbytes \in Nat
  BY Given
<1>2. /\ Acceptable(input, maxbytes) /\ k \in 1..Header(input).size
      /\ at = Starts(input, maxbytes)[k - 1] /\ at > 0 /\ at \in Nat
      /\ Card = CardAt(input, Header(input).keyscards, k - 1)
      /\ KindHere = KindAt(input, Header(input), k - 1)
  BY AtContainer
<1>3. Headed /\ keyscards = Header(input).keyscards
  BY DEF SizeInv, Behind
<1>4. k \in Nat /\ k >= 1
  BY <1>2
<1>5. /\ answer' = Append(answer, [kind |-> KindHere, card |-> Card, data |-> Bytes(input, p, n)])
      /\ at' = p + n /\ k' = k + 1 /\ pc' = "read_container"
  BY DEF Built
<1>6. Starts(input, maxbytes)[k] = p + n
  BY <1>1, <1>2, NextStart
<1>7. k' - 1 = k /\ at' > 0
  BY <1>2, <1>4, <1>5, NextStart, <1>1
<1>8. Headed' /\ keyscards' = Header(input').keyscards
  BY <1>3 DEF Headed
<1>9. SizeInv'
  BY <1>2, <1>5, <1>6, <1>7, <1>8 DEF SizeInv, Writing, Behind
<1>10. /\ keys = [i \in 1..size |-> GetU16(input, keyscards + 4 * (i - 1))]
       /\ Len(answer) = k - 1 /\ \A i \in 1..k - 1 : answer[i] = Taken(i)
  BY DEF TakenInv, Behind
<1>11. answer \in Seq([kind : Kind, card : Nat, data : Seq(Byte)])
  BY DEF IInv, HeapInv, Behind
<1>12. ASSUME NEW i PROVE Taken(i)' = Taken(i)
  BY DEF Taken
<1>13. [kind |-> KindHere, card |-> Card, data |-> Bytes(input, p, n)] = Taken(k)
  <2>1. n = SizeAt(input, maxbytes, k - 1, at) - Skipped(KindHere)
    <3>1. Skipped(KindHere) \in Nat
      BY DEF Skipped
    <3>2. SizeAt(input, maxbytes, k - 1, at) \in Nat
      BY <1>1, <1>2, NextStart
    <3> QED
      BY <1>2, <3>1, <3>2
  <2> QED
    BY <1>2, <2>1 DEF Taken
<1>14. Len(answer') = k /\ \A i \in 1..k : answer'[i] = Taken(i)
  <2> DEFINE c == [kind |-> KindHere, card |-> Card, data |-> Bytes(input, p, n)]
  <2>1. c \in [kind : Kind, card : Nat, data : Seq(Byte)]
    <3>1. KindHere \in Kind /\ Card \in Nat
      BY Described DEF Behind
    <3>2. Bytes(input, p, n) \in Seq(Byte)
      BY <1>1, BytesSeq
    <3> QED
      BY <3>1, <3>2
  <2>2. answer' = Append(answer, c)
    BY <1>5
  <2>3. c = Taken(k)
    BY <1>13
  <2> HIDE DEF c
  <2>4. /\ Len(answer') = Len(answer) + 1 /\ answer'[Len(answer) + 1] = c
        /\ \A i \in 1..Len(answer) : answer'[i] = answer[i]
    BY <1>11, <2>1, <2>2, AppendProperties
  <2> QED
    BY <1>4, <1>10, <2>3, <2>4
<1>15. TakenInv'
  <2>1. keys' = [i \in 1..size' |-> GetU16(input', keyscards' + 4 * (i - 1))]
    BY <1>10
  <2>2. Len(answer') = k' - 1 /\ \A i \in 1..k' - 1 : answer'[i] = Taken(i)'
    BY <1>7, <1>12, <1>14
  <2> QED
    BY <2>1, <2>2 DEF TakenInv
<1> QED
  BY <1>9, <1>15

\* The steps that make a container keep SizeInv and TakenInv.
LEMMA ReadBitsetOrArrayNext ==
    ASSUME IInv, SizeInv, TakenInv, ReadBitsetOrArray PROVE SizeInv' /\ TakenInv'
<1>1. /\ pc = "read_container" /\ k <= size /\ readbytes + Needed <= maxbytes /\ KindHere # "run"
      /\ UNCHANGED <<input, maxbytes, size, hasrun, keyscards, keys>>
      /\ Built(KindHere, at, Needed) \/ Unbuilt
  BY DEF ReadBitsetOrArray, AtContainers, Enough, header
<1>2. readbytes = at /\ at \in Nat
  BY <1>1 DEF IInv, PlaceInv, Places
<1>3. CASE Built(KindHere, at, Needed)
  <2>1. KindHere \in Kind /\ Card \in Nat
    BY <1>1, Described DEF Behind
  <2>2. /\ Card = CardAt(input, Header(input).keyscards, k - 1)
        /\ KindHere = KindAt(input, Header(input), k - 1)
    BY <1>1, AtContainer
  <2>3. Needed = IF KindHere = "bitset" THEN BitsetBytes ELSE 2 * Card
    BY <1>1, <2>1 DEF Needed, Kind
  <2>4. SizeAt(input, maxbytes, k - 1, at) = Needed
    BY <1>1, <2>1, <2>2, <2>3 DEF SizeAt, Kind
  <2>5. Needed \in Nat /\ Skipped(KindHere) = 0
    BY <1>1, <2>1, <2>3, FormatAssumption DEF Skipped
  <2> QED
    BY <1>1, <1>2, <1>3, <2>4, <2>5, BuiltNext
<1>4. CASE Unbuilt
  <2>1. pc' = "failed" /\ refused' = TRUE
    BY <1>4 DEF Unbuilt, Give
  <2> QED
    BY <2>1, FailedSize DEF TakenInv, Behind
<1> QED
  BY <1>1, <1>3, <1>4

LEMMA ReadRunsNext ==
    ASSUME IInv, SizeInv, TakenInv, ReadRuns PROVE SizeInv' /\ TakenInv'
<1>1. /\ pc = "read_runs" /\ readbytes + Needed <= maxbytes
      /\ UNCHANGED <<input, maxbytes, size, hasrun, keyscards, keys>>
      /\ Built("run", at + 2, 4 * n_runs) \/ Unbuilt
  BY DEF ReadRuns, Enough, header
<1>2. /\ readbytes = at + 2 /\ at \in Nat /\ n_runs \in Nat /\ k <= size
      /\ maxbytes \in Nat /\ readbytes <= maxbytes
  BY <1>1, Given DEF IInv, PlaceInv, Places, HeapInv
<1>3. CASE Built("run", at + 2, 4 * n_runs)
  <2>1. KindHere = "run" /\ n_runs = GetU16(input, at)
    BY <1>1 DEF SizeInv
  <2>2. KindHere = KindAt(input, Header(input), k - 1)
    BY <1>1, <1>2, AtContainer
  <2>3. SizeAt(input, maxbytes, k - 1, at) = 2 + 4 * n_runs
    BY <1>2, <2>1, <2>2 DEF SizeAt
  <2>4. Needed = 4 * n_runs /\ Skipped(KindHere) = 2
    BY <1>1, <2>1 DEF Needed, RunBytes, Skipped
  <2>5. Built(KindHere, at + 2, 4 * n_runs)
    BY <1>3, <2>1
  <2>6. /\ at + 2 \in Nat /\ 4 * n_runs \in Nat
        /\ (at + 2) + 4 * n_runs = at + SizeAt(input, maxbytes, k - 1, at)
        /\ (at + 2) + 4 * n_runs <= maxbytes /\ at + 2 = at + Skipped(KindHere)
    BY <1>1, <1>2, <2>3, <2>4
  <2> QED
    BY <1>1, <1>2, <2>5, <2>6, BuiltNext
<1>4. CASE Unbuilt
  <2>1. pc' = "failed" /\ refused' = TRUE
    BY <1>4 DEF Unbuilt, Give
  <2> QED
    BY <2>1, FailedSize DEF TakenInv, Behind
<1> QED
  BY <1>1, <1>3, <1>4

LEMMA ReadRunCountSize == ASSUME IInv, SizeInv, ReadRunCount PROVE SizeInv'
<1>1. /\ pc = "read_container" /\ k <= size /\ KindHere = "run" /\ pc' = "read_runs"
      /\ n_runs' = GetU16(input, at)
      /\ UNCHANGED <<input, maxbytes, size, hasrun, keyscards, k, at>>
  BY DEF ReadRunCount, AtContainers, header
<1>2. KindHere' = KindHere
  BY <1>1 DEF KindHere, Card
<1>3. /\ Acceptable(input, maxbytes) /\ at = Starts(input, maxbytes)[k - 1] /\ at > 0
      /\ Headed /\ keyscards = Header(input).keyscards
  BY <1>1 DEF SizeInv, Behind
<1>4. Headed' /\ keyscards' = Header(input').keyscards
  BY <1>1, <1>3 DEF Headed
<1> QED
  BY <1>1, <1>2, <1>3, <1>4 DEF SizeInv, Writing, Behind

LEMMA FinishSize == ASSUME IInv, SizeInv, Finish PROVE SizeInv'
<1>1. /\ pc = "read_container" /\ k > size /\ pc' = "done"
      /\ UNCHANGED <<input, maxbytes, size, hasrun, keyscards, k, at>>
  BY DEF Finish, header
<1>2. k \in 1..size + 1 /\ size \in Nat
  BY <1>1 DEF IInv, HeapInv, Behind, Places
<1>3. k = size + 1 /\ k - 1 = size
  BY <1>1, <1>2
<1>4. /\ Acceptable(input, maxbytes) /\ at = Starts(input, maxbytes)[k - 1]
      /\ at > 0 /\ Headed /\ keyscards = Header(input).keyscards
  BY <1>1 DEF SizeInv, Behind
<1>5. Headed' /\ keyscards' = Header(input').keyscards
  BY <1>1, <1>4 DEF Headed
<1> QED
  BY <1>1, <1>3, <1>4, <1>5 DEF SizeInv, Writing, Behind

LEMMA StutterSize == ASSUME SizeInv, TakenInv, UNCHANGED vars PROVE SizeInv' /\ TakenInv'
<1>1. UNCHANGED <<pc, k, input, maxbytes, at, size, hasrun, keyscards, n_runs, keys, answer,
                  refused>>
  BY DEF vars, header
<1>2. KindHere' = KindHere /\ OffsetsFollow' = OffsetsFollow /\ Cookie' = Cookie /\ Headed' = Headed
  BY <1>1 DEF KindHere, Card, OffsetsFollow, Cookie, Headed
<1>3. SizeInv'
  BY <1>1, <1>2 DEF SizeInv
<1>4. \A i : Taken(i)' = Taken(i)
  BY <1>1 DEF Taken
<1>5. TakenInv'
  BY <1>1, <1>4 DEF TakenInv
<1> QED
  BY <1>3, <1>5

\* The keys are those of the descriptions, and no container has been taken yet.
LEMMA ReadKeysTaken == ASSUME IInv, ReadKeys PROVE TakenInv'
<1>1. /\ pc = "read_keys" /\ input' = input /\ keyscards' = at /\ k' = 1 /\ size' = size
      /\ answer' = answer
      /\ \/ keys' = [i \in 1..size |-> GetU16(input, at + 4 * (i - 1))]
         \/ pc' = "failed"
  BY DEF ReadKeys, Give
<1>2. answer = <<>>
  BY <1>1 DEF IInv, HeapInv, Ahead
<1>3. CASE pc' = "failed"
  BY <1>3 DEF TakenInv, Behind
<1>4. CASE keys' = [i \in 1..size |-> GetU16(input, at + 4 * (i - 1))]
  <2>1. keys' = [i \in 1..size' |-> GetU16(input', keyscards' + 4 * (i - 1))]
    BY <1>1, <1>4
  <2>2. Len(answer') = k' - 1 /\ \A i \in 1..k' - 1 : FALSE
    BY <1>1, <1>2
  <2> QED
    BY <2>1, <2>2 DEF TakenInv
<1> QED
  BY <1>1, <1>3, <1>4

\* The reader moves on without another container.
LEMMA NoneTaken ==
    ASSUME TakenInv, pc \in Behind,
           UNCHANGED <<input, maxbytes, size, keyscards, k, keys, answer>>
    PROVE  TakenInv'
<1>1. \A i : Taken(i)' = Taken(i)
  BY DEF Taken
<1> QED
  BY <1>1 DEF TakenInv

LEMMA EarlyTaken == ASSUME pc' \in Writing \cup Ahead \cup {"failed"} PROVE TakenInv'
BY DEF TakenInv, Writing, Ahead, Behind

\* Each step keeps what has been found out.
LEMMA NextRead == ASSUME IInv, SizeInv, TakenInv, [Next]_vars PROVE SizeInv' /\ TakenInv'
<1>1. ASSUME pc \in Writing, pc' \in Writing, UNCHANGED Reading PROVE SizeInv' /\ TakenInv'
  BY <1>1, WriterSize, EarlyTaken
<1>2. CASE WriteHeader
  <2>1. pc \in Writing /\ pc' \in Writing /\ UNCHANGED Reading
    BY <1>2 DEF WriteHeader, Writing
  <2> QED
    BY <1>1, <2>1
<1>3. CASE WriteDescription
  <2>1. pc \in Writing /\ pc' \in Writing /\ UNCHANGED Reading
    BY <1>3 DEF WriteDescription, Loop, Writing
  <2> QED
    BY <1>1, <2>1
<1>4. CASE WriteOffset
  <2>1. pc \in Writing /\ pc' \in Writing /\ UNCHANGED Reading
    BY <1>4 DEF WriteOffset, Loop, Writing
  <2> QED
    BY <1>1, <2>1
<1>5. CASE WriteContainer
  <2>1. pc \in Writing /\ pc' \in Writing /\ UNCHANGED Reading
    BY <1>5 DEF WriteContainer, Loop, Writing
  <2> QED
    BY <1>1, <2>1
<1>6. CASE Open \/ OpenRefused
  <2>1. pc' \in Writing \cup Ahead \cup {"failed"}
    BY <1>6 DEF Open, OpenRefused, Ahead
  <2> QED
    BY <1>6, <2>1, OpenSize, EarlyTaken
<1>7. CASE RunOut
  <2>1. pc' \in Writing \cup Ahead \cup {"failed"}
    BY <1>7 DEF RunOut, Give
  <2> QED
    BY <1>7, <2>1, RunOutSize, EarlyTaken
<1>8. CASE ReadCookie
  <2>1. pc' \in Writing \cup Ahead \cup {"failed"}
    BY <1>8 DEF ReadCookie, Give, Ahead
  <2> QED
    BY <1>8, <2>1, ReadCookieSize, EarlyTaken
<1>9. CASE ReadSize
  <2>1. pc' \in Writing \cup Ahead \cup {"failed"}
    BY <1>9 DEF ReadSize, Give, Ahead
  <2> QED
    BY <1>9, <2>1, ReadSizeSize, EarlyTaken
<1>10. CASE ReadFlags
  <2>1. pc' \in Writing \cup Ahead \cup {"failed"}
    BY <1>10 DEF ReadFlags, Ahead
  <2> QED
    BY <1>10, <2>1, ReadFlagsSize, EarlyTaken
<1>11. CASE ReadKeys
  BY <1>11, ReadKeysSize, ReadKeysTaken
<1>12. CASE SkipOffsets
  <2>1. pc \in Behind /\ UNCHANGED <<input, maxbytes, size, keyscards, k, keys, answer>>
    BY <1>12 DEF SkipOffsets, header, Behind
  <2> QED
    BY <1>12, <2>1, SkipOffsetsSize, NoneTaken
<1>13. CASE ReadBitsetOrArray
  BY <1>13, ReadBitsetOrArrayNext
<1>14. CASE ReadRunCount
  <2>1. pc \in Behind /\ UNCHANGED <<input, maxbytes, size, keyscards, k, keys, answer>>
    BY <1>14 DEF ReadRunCount, AtContainers, header, Behind
  <2> QED
    BY <1>14, <2>1, ReadRunCountSize, NoneTaken
<1>15. CASE ReadRuns
  BY <1>15, ReadRunsNext
<1>16. CASE Finish
  <2>1. pc \in Behind /\ UNCHANGED <<input, maxbytes, size, keyscards, k, keys, answer>>
    BY <1>16 DEF Finish, header, Behind
  <2> QED
    BY <1>16, <2>1, FinishSize, NoneTaken
<1>17. CASE UNCHANGED vars
  BY <1>17, StutterSize
<1> QED
  BY <1>2, <1>3, <1>4, <1>5, <1>6, <1>7, <1>8, <1>9, <1>10, <1>11, <1>12, <1>13, <1>14, <1>15,
     <1>16, <1>17 DEF Next, Ended

LEMMA InitTakenInv == Init => TakenInv
BY DEF Init, TakenInv, Behind
-------------------------------------------------------------------------------
(* What the writer writes *)

\* What the assumptions say of one slot.
LEMMA SlotIs ==
    ASSUME NEW c \in Bitmaps, NEW i \in 1..Len(c)
    PROVE  /\ c[i].key \in Nat /\ c[i].key < 65536
           /\ c[i].card \in Nat \ {0} /\ c[i].card <= 65536
           /\ c[i].kind \in Kind /\ c[i].data \in Seq(Byte)
           /\ Runs(c[i]) \in Nat
           /\ c[i].kind = "bitset" => c[i].card > MaxArray /\ Len(c[i].data) = BitsetBytes
           /\ c[i].kind = "array" => c[i].card <= MaxArray /\ Len(c[i].data) = 2 * c[i].card
           /\ c[i].kind = "run" => Len(c[i].data) = 4 * Runs(c[i]) /\ Runs(c[i]) < 65536
<1>1. c \in Seq(Slot)
  BY BitmapsAssumption
<1>2. c[i] \in Slot /\ i \in DOMAIN c
  BY <1>1, ElementOfSeq, LenProperties
<1>3. /\ c[i].key \in Below(65536) /\ c[i].card \in Below(65537) /\ c[i].card # 0
      /\ c[i].kind \in Kind /\ c[i].data \in Seq(Byte)
  BY <1>2 DEF Slot
<1>4. /\ c[i].key \in Nat /\ c[i].key < 65536
      /\ c[i].card \in Nat \ {0} /\ c[i].card <= 65536
  BY <1>3 DEF Below
<1>5. Runs(c[i]) \in Nat
  BY SlotOf
<1>6. /\ c[i].kind = "bitset" => c[i].card > MaxArray /\ Len(c[i].data) = BitsetBytes
      /\ c[i].kind = "array" => c[i].card <= MaxArray /\ Len(c[i].data) = 2 * c[i].card
      /\ c[i].kind = "run" => Len(c[i].data) = 4 * Runs(c[i]) /\ Runs(c[i]) < 65536
  BY <1>2, SlotsAssumption
<1> QED
  BY <1>3, <1>4, <1>5, <1>6

\* One piece after another.
Joins(s, t, u) == s \in Seq(Byte) /\ t \in Seq(Byte) /\ u = s \o t
Follows(s, t, u) ==
    /\ u \in Seq(Byte) /\ Len(s) \in Nat /\ Len(t) \in Nat
    /\ Len(u) = Len(s) + Len(t)
    /\ \A i \in 1..Len(s) : u[i] = s[i]
    /\ \A i \in 1..Len(t) : u[Len(s) + i] = t[i]
LEMMA Joined == ASSUME NEW s, NEW t, NEW u, Joins(s, t, u) PROVE Follows(s, t, u)
<1> USE DEF Joins
<1>1. /\ u \in Seq(Byte) /\ Len(s) \in Nat /\ Len(t) \in Nat
      /\ Len(u) = Len(s) + Len(t)
      /\ \A i \in 1..Len(s) + Len(t) : u[i] = IF i <= Len(s) THEN s[i] ELSE t[i - Len(s)]
  BY ConcatProperties, LenProperties
<1>2. ASSUME NEW i \in 1..Len(t) PROVE u[Len(s) + i] = t[i]
  <2>1. /\ Len(s) + i \in 1..Len(s) + Len(t) /\ ~(Len(s) + i <= Len(s))
        /\ (Len(s) + i) - Len(s) = i
    BY <1>1
  <2> QED
    BY <1>1, <2>1
<1>3. ASSUME NEW i \in 1..Len(s) PROVE u[i] = s[i]
  <2>1. i \in 1..Len(s) + Len(t) /\ i <= Len(s)
    BY <1>1
  <2> QED
    BY <1>1, <2>1
<1> QED
  BY <1>1, <1>2, <1>3 DEF Follows

\* Numbers and their bytes.
Low(n) == n % 256
High(n) == (n \div 256) % 256
\* The two bytes of a number of 16 bits.
LEMMA U16Is ==
    ASSUME NEW n \in Nat
    PROVE  /\ U16(n) \in Seq(Byte) /\ Len(U16(n)) = 2
           /\ U16(n)[1] = Low(n) /\ U16(n)[2] = High(n)
<1>1. U16(n) \in Seq(Byte)
  BY U16Bytes
<1> QED
  BY <1>1 DEF U16, Low, High

Upper(n) == n \div 65536
LEMMA U32Is ==
    ASSUME NEW n \in Nat
    PROVE  /\ U32(n) \in Seq(Byte) /\ Len(U32(n)) = 4
           /\ U32(n)[1] = U16(n)[1] /\ U32(n)[2] = U16(n)[2]
           /\ U32(n)[3] = U16(Upper(n))[1] /\ U32(n)[4] = U16(Upper(n))[2]
<1>1. Upper(n) \in Nat
  BY DEF Upper
<1>2. /\ U16(n) \in Seq(Byte) /\ Len(U16(n)) = 2
      /\ U16(Upper(n)) \in Seq(Byte) /\ Len(U16(Upper(n))) = 2
  BY <1>1, U16Is
<1> DEFINE s == U16(n)
           t == U16(Upper(n))
           u == U32(n)
<1>3. u = s \o t /\ s \in Seq(Byte) /\ Len(s) = 2 /\ t \in Seq(Byte) /\ Len(t) = 2
  BY <1>2 DEF U32, Upper
<1> HIDE DEF s, t, u
<1>4. Joins(s, t, u)
  BY <1>3 DEF Joins
<1>5. Follows(s, t, u)
  BY <1>4, Joined
<1>6. /\ u \in Seq(Byte) /\ Len(u) = 4
      /\ u[1] = s[1] /\ u[2] = s[2] /\ u[2 + 1] = t[1] /\ u[2 + 2] = t[2]
  BY <1>3, <1>5 DEF Follows
<1> QED
  BY <1>6 DEF s, t, u

\* A number of 16 bits has two bytes.
LEMMA TwoBytes ==
    ASSUME NEW n \in Nat, n < 65536
    PROVE  Low(n) + 256 * High(n) = n
<1> DEFINE q == n \div 256
           r == n % 256
<1>1. n = 256 * q + r /\ q \in Int /\ r \in 0..255
  OBVIOUS
<1> HIDE DEF q, r
<1>2. q \in 0..255
  BY <1>1
<1>3. q % 256 = q
  BY <1>2
<1>4. Low(n) = r /\ High(n) = q
  BY <1>3 DEF Low, High, q, r
<1> QED
  BY <1>1, <1>4

\* They can be read where they were written.
Has16(s, p, n) == s[p + 1] = U16(n)[1] /\ s[p + 2] = U16(n)[2]
LEMMA Got16 ==
    ASSUME NEW s, NEW p \in Nat, NEW n \in Nat, n < 65536, Has16(s, p, n)
    PROVE  GetU16(s, p) = n
<1>1. U16(n)[1] = Low(n) /\ U16(n)[2] = High(n)
  BY U16Is
<1>2. Low(n) + 256 * High(n) = n
  BY TwoBytes
<1>3. s[p + 1] = Low(n) /\ s[p + 2] = High(n)
  BY <1>1 DEF Has16
<1>4. GetU16(s, p) = s[p + 1] + 256 * s[p + 2]
  BY DEF GetU16
<1> QED
  BY <1>2, <1>3, <1>4

\* The header.
LEMMA RunFlagsLength == ASSUME NEW c \in Bitmaps PROVE Len(RunFlags(c)) = FlagBytes(Len(c))
<1>1. FlagBytes(Len(c)) \in Nat
  BY SlotsNat, FlagBytesNat
<1> QED
  BY <1>1 DEF RunFlags

\* The fixed part of the header has the length the other places reckon with.
LEMMA HeadIs ==
    ASSUME NEW c \in Bitmaps
    PROVE  /\ HeadBytes(c) \in Seq(Byte) /\ Len(HeadBytes(c)) = HeadLength(c)
           /\ HeadLength(c) \in Nat /\ HeadLength(c) >= 4
           /\ HasRun(c) => Len(c) > 0
<1>1. Len(c) \in Nat /\ FlagBytes(Len(c)) \in Nat
  BY SlotsNat, FlagBytesNat
<1>2. HasRun(c) => Len(c) > 0
  <2>1. DOMAIN c = 1..Len(c)
    BY BitmapsAssumption, LenProperties
  <2> QED
    BY <1>1, <2>1 DEF HasRun
<1>3. CASE HasRun(c)
  <2> DEFINE n == SERIAL_COOKIE + 65536 * (Len(c) - 1)
  <2>1. n \in Nat
    BY <1>1, <1>2, <1>3 DEF SERIAL_COOKIE
  <2> HIDE DEF n
  <2>2. U32(n) \in Seq(Byte) /\ Len(U32(n)) = 4
    BY <2>1, U32Is
  <2>3. RunFlags(c) \in Seq(Byte) /\ Len(RunFlags(c)) = FlagBytes(Len(c))
    BY RunFlagsBytes, RunFlagsLength
  <2>4. HeadBytes(c) = U32(n) \o RunFlags(c) /\ HeadLength(c) = 4 + FlagBytes(Len(c))
    BY <1>3 DEF HeadBytes, HeadLength, n
  <2>5. HeadBytes(c) \in Seq(Byte) /\ Len(HeadBytes(c)) = 4 + FlagBytes(Len(c))
    <3>1. Joins(U32(n), RunFlags(c), HeadBytes(c))
      BY <2>2, <2>3, <2>4 DEF Joins
    <3>2. Follows(U32(n), RunFlags(c), HeadBytes(c))
      BY <3>1, Joined
    <3> QED
      BY <2>2, <2>3, <3>2 DEF Follows
  <2> QED
    BY <1>1, <1>2, <2>4, <2>5
<1>4. CASE ~HasRun(c)
  <2> DEFINE s == U32(SERIAL_COOKIE_NO_RUNCONTAINER)
             t == U32(Len(c))
  <2>1. s \in Seq(Byte) /\ Len(s) = 4 /\ t \in Seq(Byte) /\ Len(t) = 4
    BY <1>1, U32Is DEF SERIAL_COOKIE_NO_RUNCONTAINER
  <2>2. HeadBytes(c) = s \o t /\ HeadLength(c) = 8
    BY <1>4 DEF HeadBytes, HeadLength
  <2> HIDE DEF s, t
  <2>3. HeadBytes(c) \in Seq(Byte) /\ Len(HeadBytes(c)) = 8
    <3>1. Joins(s, t, HeadBytes(c))
      BY <2>1, <2>2 DEF Joins
    <3>2. Follows(s, t, HeadBytes(c))
      BY <3>1, Joined
    <3> QED
      BY <2>1, <3>2 DEF Follows
  <2> QED
    BY <1>2, <2>2, <2>3
<1> QED
  BY <1>3, <1>4

\* ra_portable_header_size, with its cases drawn together.
LEMMA HeaderSizeIs ==
    ASSUME NEW c \in Bitmaps
    PROVE  /\ ra_portable_header_size(c) \in Nat
           /\ ra_portable_header_size(c)
                = HeadLength(c)
                  + (IF (~HasRun(c)) \/ Len(c) >= NO_OFFSET_THRESHOLD THEN 8 ELSE 4) * Len(c)
<1>1. Len(c) \in Nat /\ FlagBytes(Len(c)) \in Nat
  BY SlotsNat, FlagBytesNat
<1>2. CASE HasRun(c)
  BY <1>1, <1>2 DEF ra_portable_header_size, HeadLength, NO_OFFSET_THRESHOLD
<1>3. CASE ~HasRun(c)
  BY <1>1, <1>3 DEF ra_portable_header_size, HeadLength
<1> QED
  BY <1>2, <1>3

\* The containers.
LEMMA ContainerIs ==
    ASSUME NEW c \in Bitmaps, NEW i \in 1..Len(c)
    PROVE  /\ container_size_in_bytes(c[i]) \in Nat
           /\ container_write(c[i]) \in Seq(Byte)
           /\ Len(container_write(c[i])) = container_size_in_bytes(c[i])
<1> DEFINE s == c[i]
<1>1. /\ s.card \in Nat /\ s.kind \in Kind /\ s.data \in Seq(Byte) /\ Runs(s) \in Nat
      /\ s.kind = "bitset" => Len(s.data) = BitsetBytes
      /\ s.kind = "array" => Len(s.data) = 2 * s.card
      /\ s.kind = "run" => Len(s.data) = 4 * Runs(s)
  BY SlotIs
<1> HIDE DEF s
<1>2. CASE s.kind = "run"
  <2> DEFINE n == Runs(s)
             u == container_write(s)
  <2>1. u = U16(n) \o s.data /\ container_size_in_bytes(s) = 2 + 4 * n
    BY <1>2 DEF container_write, container_size_in_bytes
  <2>2. n \in Nat /\ U16(n) \in Seq(Byte) /\ Len(U16(n)) = 2
    BY <1>1, U16Is
  <2>3. Len(s.data) = 4 * n
    BY <1>1, <1>2
  <2> HIDE DEF n, u
  <2>4. Joins(U16(n), s.data, u)
    BY <1>1, <2>1, <2>2 DEF Joins
  <2>5. Follows(U16(n), s.data, u)
    BY <2>4, Joined
  <2>6. u \in Seq(Byte) /\ Len(u) = 2 + 4 * n
    BY <2>2, <2>3, <2>5 DEF Follows
  <2> QED
    BY <2>1, <2>2, <2>6 DEF s, u
<1>3. CASE s.kind = "array"
  <2>1. container_write(s) = s.data /\ container_size_in_bytes(s) = 2 * s.card
    BY <1>3 DEF container_write, container_size_in_bytes
  <2> QED
    BY <1>1, <1>3, <2>1 DEF s
<1>4. CASE s.kind = "bitset"
  <2>1. container_write(s) = s.data /\ container_size_in_bytes(s) = BitsetBytes
    BY <1>4 DEF container_write, container_size_in_bytes
  <2> QED
    BY <1>1, <1>4, <2>1, FormatAssumption DEF s
<1> QED
  BY <1>1, <1>2, <1>3, <1>4 DEF Kind

\* The sizes of all containers.
LEMMA SizesAre ==
    ASSUME NEW c \in Bitmaps
    PROVE  /\ Sizes(c) \in Seq(Nat) /\ Len(Sizes(c)) = Len(c) /\ Len(c) \in Nat
           /\ \A i \in 1..Len(c) : Sizes(c)[i] = container_size_in_bytes(c[i])
<1>1. Len(c) \in Nat /\ DOMAIN c = 1..Len(c)
  BY BitmapsAssumption, LenProperties
<1>2. Sizes(c) = [i \in 1..Len(c) |-> container_size_in_bytes(c[i])]
  BY <1>1 DEF Sizes
<1>3. \A i \in 1..Len(c) : container_size_in_bytes(c[i]) \in Nat
  BY ContainerIs
<1>4. Sizes(c) \in [1..Len(c) -> Nat]
  BY <1>2, <1>3
<1>5. Sizes(c) \in Seq(Nat) /\ Len(Sizes(c)) = Len(c)
  BY <1>1, <1>2, <1>4
<1> QED
  BY <1>1, <1>2, <1>5

\* The next container begins behind this one.
LEMMA PlaceStep ==
    ASSUME NEW c \in Bitmaps, NEW i \in 0..Len(c)
    PROVE  /\ Place(c, i) \in Nat
           /\ i = 0 => Place(c, i) = ra_portable_header_size(c)
           /\ i > 0 => Place(c, i) = Place(c, i - 1) + Sizes(c)[i] /\ Sizes(c)[i] \in Nat
<1> DEFINE s == Sizes(c)
           f(x) == SumUpTo(s, x)
           a == ra_portable_header_size(c)
<1>1. s \in Seq(Nat) /\ Len(s) = Len(c) /\ Len(c) \in Nat /\ a \in Nat
  BY SizesAre, HeaderSizeIs
<1>2. /\ f(i) \in Nat
      /\ i = 0 => f(i) = 0
      /\ i > 0 => f(i) = f(i - 1) + s[i]
  BY <1>1, SumUpToStep
<1>3. i > 0 => f(i - 1) \in Nat /\ s[i] \in Nat
  <2>1. ASSUME i > 0 PROVE i - 1 \in 0..Len(s) /\ i \in 1..Len(s)
    BY <1>1, <2>1
  <2>2. ASSUME i > 0 PROVE f(i - 1) \in Nat
    BY <1>1, <2>1, <2>2, SumUpToStep
  <2>3. ASSUME i > 0 PROVE s[i] \in Nat
    BY <1>1, <2>1, <2>3, ElementOfSeq
  <2> QED
    BY <2>2, <2>3
<1>4. Place(c, i) = a + f(i) /\ Place(c, i - 1) = a + f(i - 1)
  BY DEF Place
<1> HIDE DEF s, f, a
<1>5. Place(c, i) \in Nat /\ (i = 0 => Place(c, i) = a)
  BY <1>1, <1>2, <1>4
<1>6. i > 0 => Place(c, i) = Place(c, i - 1) + s[i]
  BY <1>1, <1>2, <1>3, <1>4
<1> QED
  BY <1>3, <1>5, <1>6 DEF s, a

\* Containers that come later begin later.
LEMMA PlaceGrows ==
    ASSUME NEW c \in Bitmaps, NEW i \in 0..Len(c), NEW j \in 0..i
    PROVE  Place(c, j) <= Place(c, i)
<1> DEFINE s == Sizes(c)
           f(x) == SumUpTo(s, x)
           a == ra_portable_header_size(c)
<1>1. s \in Seq(Nat) /\ Len(s) = Len(c) /\ Len(c) \in Nat /\ a \in Nat
  BY SizesAre, HeaderSizeIs
<1>2. f(j) <= f(i)
  BY <1>1, SumUpToGrows
<1>3. i \in 0..Len(s) /\ j \in 0..Len(s)
  BY <1>1
<1>4. f(i) \in Nat /\ f(j) \in Nat
  BY <1>1, <1>3, SumUpToStep
<1>5. Place(c, i) = a + f(i) /\ Place(c, j) = a + f(j)
  BY DEF Place
<1> HIDE DEF s, f, a
<1> QED
  BY <1>1, <1>2, <1>4, <1>5

\* What has been written stays when more is.
Grown(s, u) == /\ Len(s) \in Nat /\ Len(u) \in Nat /\ Len(s) <= Len(u)
               /\ \A i \in 1..Len(s) : u[i] = s[i]

LEMMA HeadKept ==
    ASSUME NEW c \in Bitmaps, NEW s, NEW u, Grown(s, u), HeadLength(c) <= Len(s), HasHead(c, s)
    PROVE  HasHead(c, u)
<1>1. HeadLength(c) \in Nat
  BY HeadIs
<1> QED
  BY <1>1 DEF Grown, HasHead

LEMMA DescriptionsKept ==
    ASSUME NEW c \in Bitmaps, NEW s, NEW u, Grown(s, u),
           NEW n \in Nat, HeadLength(c) + 4 * n <= Len(s), HasDescriptions(c, s, n)
    PROVE  HasDescriptions(c, u, n)
<1>1. HeadLength(c) \in Nat
  BY HeadIs
<1>2. ASSUME NEW i \in 1..n
      PROVE  /\ GetU16(u, HeadLength(c) + 4 * (i - 1)) = c[i].key
             /\ GetU16(u, HeadLength(c) + 4 * (i - 1) + 2) = c[i].card - 1
  <2> DEFINE p == HeadLength(c) + 4 * (i - 1)
  <2>1. p \in Nat /\ p + 4 <= Len(s)
    BY <1>1 DEF Grown
  <2>2. GetU16(s, p) = c[i].key /\ GetU16(s, p + 2) = c[i].card - 1
    BY DEF HasDescriptions
  <2> HIDE DEF p
  <2>3. /\ p + 1 \in 1..Len(s) /\ p + 2 \in 1..Len(s)
        /\ (p + 2) + 1 \in 1..Len(s) /\ (p + 2) + 2 \in 1..Len(s)
    BY <2>1 DEF Grown
  <2>4. GetU16(u, p) = GetU16(s, p) /\ GetU16(u, p + 2) = GetU16(s, p + 2)
    BY <2>3 DEF Grown, GetU16
  <2> QED
    BY <2>2, <2>4 DEF p
<1> QED
  BY <1>2 DEF HasDescriptions

LEMMA ContainersKept ==
    ASSUME NEW c \in Bitmaps, NEW s, NEW u, Grown(s, u),
           NEW n \in 0..Len(c), Place(c, n) <= Len(s), HasContainers(c, s, n)
    PROVE  HasContainers(c, u, n)
<1>1. Len(c) \in Nat
  BY SlotsNat
<1>2. ASSUME NEW i \in 1..n, NEW j \in 1..Sizes(c)[i]
      PROVE  u[Place(c, i - 1) + j] = container_write(c[i])[j]
  <2>1. i \in 0..Len(c) /\ i > 0 /\ i - 1 \in 0..Len(c) /\ i \in 0..n
    BY <1>1
  <2>2. /\ Place(c, i - 1) \in Nat /\ Sizes(c)[i] \in Nat
        /\ Place(c, i) = Place(c, i - 1) + Sizes(c)[i]
    BY <2>1, PlaceStep
  <2>3. Place(c, i) <= Place(c, n) /\ Place(c, n) \in Nat
    BY <2>1, PlaceGrows, PlaceStep
  <2> DEFINE p == Place(c, i - 1)
             q == Place(c, i)
             r == Place(c, n)
             z == Sizes(c)[i]
  <2>4. s[p + j] = container_write(c[i])[j]
    BY DEF HasContainers
  <2>5. p \in Nat /\ z \in Nat /\ q = p + z /\ q <= r /\ r \in Nat /\ r <= Len(s) /\ j \in 1..z
    BY <2>2, <2>3
  <2> HIDE DEF p, q, r, z
  <2>6. p + j \in 1..Len(s)
    BY <2>5 DEF Grown
  <2>7. u[p + j] = s[p + j]
    BY <2>6 DEF Grown
  <2> QED
    BY <2>4, <2>7 DEF p
<1> QED
  BY <1>2 DEF HasContainers

LEMMA GrownBy ==
    ASSUME NEW s, NEW t, NEW u, Follows(s, t, u)
    PROVE  Grown(s, u)
BY DEF Follows, Grown

\* Nothing more is asked of a header that ends the bitmap.
LEMMA HeaderWritten == ASSUME IInv, WriteHeader PROVE WrittenInv'
<1>1. b \in Bitmaps /\ b' = b /\ Len(b) \in Nat /\ k' = 1
  BY SlotsNat DEF IInv, WriteInv, WriteHeader
<1>2. buf' = HeadBytes(b)
  BY DEF WriteHeader, HeadBytes
<1>3. Len(HeadBytes(b)) = HeadLength(b) /\ HeadLength(b) \in Nat /\ (HasRun(b) => Len(b) > 0)
  BY <1>1, HeadIs
<1>4. HasHead(b, buf')
  BY <1>2 DEF HasHead
<1>5. HasDescriptions(b, buf', 0) /\ HasContainers(b, buf', 0)
  BY DEF HasDescriptions, HasContainers
<1>6. CASE Len(b) = 0
  <2>1. Place(b, 0) = ra_portable_header_size(b)
    BY <1>1, PlaceStep
  <2>2. ra_portable_header_size(b) = HeadLength(b)
    BY <1>1, <1>3, <1>6, HeaderSizeIs
  <2>3. Complete(b, buf')
    BY <1>2, <1>3, <1>4, <1>5, <1>6, <2>1, <2>2 DEF Complete
  <2>4. pc' = "written"
    BY <1>6 DEF WriteHeader
  <2> QED
    BY <1>1, <2>3, <2>4 DEF WrittenInv
<1>7. CASE Len(b) # 0
  <2>1. pc' = "descriptions"
    BY <1>7 DEF WriteHeader
  <2>2. Len(buf') = HeadLength(b') + 4 * (k' - 1) /\ k' - 1 = 0
    BY <1>1, <1>2, <1>3
  <2> QED
    BY <1>1, <1>4, <1>5, <2>1, <2>2 DEF WrittenInv
<1> QED
  BY <1>6, <1>7

\* A description goes behind the ones before it.
LEMMA DescriptionWritten == ASSUME IInv, WrittenInv, WriteDescription PROVE WrittenInv'
<1>1. /\ b \in Bitmaps /\ b' = b /\ k \in 1..Len(b) /\ buf \in Seq(Byte) /\ Len(b) \in Nat
      /\ pc = "descriptions" /\ Len(buf) \in Nat
  BY SlotsNat, LenProperties DEF IInv, WriteInv, WriteDescription
<1> DEFINE key == b[k].key
           less == b[k].card - 1
           n == HeadLength(b) + 4 * (k - 1)
           v == buf \o U16(key)
           u == buf'
<1>2. /\ HasHead(b, buf) /\ HasDescriptions(b, buf, k - 1) /\ Len(buf) = n
      /\ HeadLength(b) \in Nat
  BY <1>1, HeadIs DEF WrittenInv
<1>3. key \in Nat /\ key < 65536 /\ less \in Nat /\ less < 65536
  BY <1>1, SlotIs
<1>4. u = v \o U16(less)
  BY DEF WriteDescription
<1> HIDE DEF key, less, v, u
<1>5. /\ U16(key) \in Seq(Byte) /\ Len(U16(key)) = 2
      /\ U16(less) \in Seq(Byte) /\ Len(U16(less)) = 2
  BY <1>3, U16Is
<1>6. Follows(buf, U16(key), v)
  <2>1. Joins(buf, U16(key), v)
    BY <1>1, <1>5 DEF Joins, v
  <2> QED
    BY <2>1, Joined
<1>7. Follows(v, U16(less), u)
  <2>1. Joins(v, U16(less), u)
    BY <1>4, <1>5, <1>6 DEF Joins, Follows
  <2> QED
    BY <2>1, Joined
<1>8. n \in Nat /\ Len(v) = n + 2 /\ Len(u) = n + 4
  <2>1. n \in Nat
    BY <1>1, <1>2
  <2> HIDE DEF n
  <2>2. Len(v) = n + 2
    BY <1>2, <1>5, <1>6 DEF Follows
  <2> QED
    BY <1>5, <1>7, <2>1, <2>2 DEF Follows
<1> HIDE DEF n
<1>9. Grown(buf, u)
  <2>1. \A i \in 1..n : u[i] = buf[i]
    BY <1>1, <1>2, <1>6, <1>7, <1>8 DEF Follows
  <2> QED
    BY <1>2, <1>8, <2>1 DEF Grown
<1>10. GetU16(u, n) = key /\ GetU16(u, n + 2) = less
  <2>1. v[n + 1] = U16(key)[1] /\ v[n + 2] = U16(key)[2]
    BY <1>2, <1>5, <1>6 DEF Follows
  <2>2. u[n + 1] = v[n + 1] /\ u[n + 2] = v[n + 2]
    BY <1>7, <1>8 DEF Follows
  <2>3. u[(n + 2) + 1] = U16(less)[1] /\ u[(n + 2) + 2] = U16(less)[2]
    BY <1>5, <1>7, <1>8 DEF Follows
  <2>4. n + 2 \in Nat
    BY <1>8
  <2>7. Has16(u, n, key) /\ Has16(u, n + 2, less)
    BY <2>1, <2>2, <2>3 DEF Has16
  <2>5. GetU16(u, n) = key
    BY <1>3, <1>8, <2>7, Got16
  <2>6. GetU16(u, n + 2) = less
    BY <1>3, <2>4, <2>7, Got16
  <2> QED
    BY <2>5, <2>6
<1>11. HasHead(b, u)
  <2>1. HeadLength(b) <= Len(buf)
    BY <1>1, <1>2 DEF n
  <2> QED
    BY <1>1, <1>2, <1>9, <2>1, HeadKept
<1>12. HasDescriptions(b, u, k)
  <2>1. HasDescriptions(b, u, k - 1)
    <3>1. k - 1 \in Nat /\ HeadLength(b) + 4 * (k - 1) <= Len(buf)
      BY <1>1, <1>2, <1>8 DEF n
    <3> QED
      BY <1>1, <1>2, <1>9, <3>1, DescriptionsKept
  <2>2. \A i \in 1..k : i \in 1..k - 1 \/ i = k
    BY <1>1
  <2>3. GetU16(u, HeadLength(b) + 4 * (k - 1)) = b[k].key
        /\ GetU16(u, HeadLength(b) + 4 * (k - 1) + 2) = b[k].card - 1
    BY <1>10 DEF n, key, less
  <2> QED
    BY <2>1, <2>2, <2>3 DEF HasDescriptions
<1>13. CASE k < Len(b)
  <2>1. pc' = "descriptions" /\ k' = k + 1
    BY <1>1, <1>13 DEF WriteDescription, Loop
  <2>2. Len(buf') = HeadLength(b') + 4 * (k' - 1) /\ k' - 1 = k
    BY <1>1, <1>2, <1>8, <2>1 DEF n, u
  <2> QED
    BY <1>1, <1>11, <1>12, <2>1, <2>2 DEF WrittenInv, u
<1>14. CASE ~(k < Len(b))
  <2>1. k' = 1 /\ pc' = IF WithOffsets THEN "offsets" ELSE "containers"
    BY <1>14 DEF WriteDescription, Loop
  <2>2. k = Len(b) /\ k' - 1 = 0 /\ Len(buf') = HeadLength(b) + 4 * Len(b)
    <3>1. k = Len(b) /\ k' - 1 = 0
      BY <1>1, <1>14, <2>1
    <3>2. n + 4 = HeadLength(b) + 4 * Len(b)
      BY <1>1, <1>2, <3>1 DEF n
    <3> QED
      BY <1>8, <3>1, <3>2 DEF u
  <2>3. WithOffsets' <=> WithOffsets
    BY <1>1 DEF WithOffsets
  <2>4. CASE WithOffsets
    <3>1. pc' = "offsets" /\ WithOffsets'
      BY <2>1, <2>3, <2>4
    <3>2. Len(buf') = HeadLength(b') + 4 * Len(b') + 4 * (k' - 1)
      BY <1>1, <1>2, <2>1, <2>2
    <3> QED
      BY <1>1, <1>11, <1>12, <2>2, <3>1, <3>2 DEF WrittenInv, u
  <2>5. CASE ~WithOffsets
    <3>1. pc' = "containers"
      BY <2>1, <2>5
    <3>2. Place(b, 0) = HeadLength(b) + 4 * Len(b)
      <4>1. Place(b, 0) = ra_portable_header_size(b)
        BY <1>1, PlaceStep
      <4> QED
        BY <1>1, <2>5, <4>1, HeaderSizeIs DEF WithOffsets
    <3>3. HasContainers(b, u, 0)
      BY DEF HasContainers
    <3> QED
      BY <1>1, <1>11, <1>12, <2>2, <3>1, <3>2, <3>3 DEF WrittenInv, u
  <2> QED
    BY <2>4, <2>5
<1> QED
  BY <1>13, <1>14

\* An offset, which no reader of a stream looks at, moves nothing.
LEMMA OffsetWritten == ASSUME IInv, WrittenInv, WriteOffset PROVE WrittenInv'
<1>1. /\ b \in Bitmaps /\ b' = b /\ k \in 1..Len(b) /\ buf \in Seq(Byte) /\ Len(b) \in Nat
      /\ pc = "offsets" /\ Len(buf) \in Nat /\ startOffset \in Nat
  BY SlotsNat, LenProperties DEF IInv, WriteInv, WriteOffset
<1> DEFINE n == HeadLength(b) + 4 * Len(b) + 4 * (k - 1)
           u == buf'
<1>2. /\ HasHead(b, buf) /\ HasDescriptions(b, buf, Len(b)) /\ Len(buf) = n
      /\ HeadLength(b) \in Nat /\ WithOffsets
  BY <1>1, HeadIs DEF WrittenInv
<1>3. U32(startOffset) \in Seq(Byte) /\ Len(U32(startOffset)) = 4
  BY <1>1, U32Is
<1>4. u = buf \o U32(startOffset)
  BY DEF WriteOffset
<1>5. Follows(buf, U32(startOffset), u)
  <2>1. Joins(buf, U32(startOffset), u)
    BY <1>1, <1>3, <1>4 DEF Joins
  <2> QED
    BY <2>1, Joined
<1> HIDE DEF u
<1>6. Len(u) = n + 4 /\ Grown(buf, u)
  BY <1>2, <1>3, <1>5, GrownBy DEF Follows
<1>7. HasHead(b, u)
  <2>1. HeadLength(b) <= Len(buf)
    BY <1>1, <1>2
  <2> QED
    BY <1>1, <1>2, <1>6, <2>1, HeadKept
<1>8. HasDescriptions(b, u, Len(b))
  <2>1. HeadLength(b) + 4 * Len(b) <= Len(buf)
    BY <1>1, <1>2
  <2> QED
    BY <1>1, <1>2, <1>6, <2>1, DescriptionsKept
<1>9. CASE k < Len(b)
  <2>1. pc' = "offsets" /\ k' = k + 1
    BY <1>1, <1>9 DEF WriteOffset, Loop
  <2>2. WithOffsets'
    BY <1>1, <1>2 DEF WithOffsets
  <2>3. Len(buf') = HeadLength(b') + 4 * Len(b') + 4 * (k' - 1)
    BY <1>1, <1>2, <1>6, <2>1 DEF u
  <2> QED
    BY <1>1, <1>7, <1>8, <2>1, <2>2, <2>3 DEF WrittenInv, u
<1>10. CASE ~(k < Len(b))
  <2>1. k' = 1 /\ pc' = "containers"
    BY <1>10 DEF WriteOffset, Loop
  <2>2. k = Len(b) /\ k' - 1 = 0 /\ Len(buf') = HeadLength(b) + 8 * Len(b)
    <3>1. k = Len(b) /\ k' - 1 = 0
      BY <1>1, <1>10, <2>1
    <3>2. n + 4 = HeadLength(b) + 8 * Len(b)
      BY <1>1, <1>2, <3>1
    <3> QED
      BY <1>6, <3>1, <3>2 DEF u
  <2>3. Place(b, 0) = HeadLength(b) + 8 * Len(b)
    <3>1. Place(b, 0) = ra_portable_header_size(b)
      BY <1>1, PlaceStep
    <3> QED
      BY <1>1, <1>2, <3>1, HeaderSizeIs DEF WithOffsets
  <2>4. HasContainers(b, u, 0)
    BY DEF HasContainers
  <2> QED
    BY <1>1, <1>7, <1>8, <2>1, <2>2, <2>3, <2>4 DEF WrittenInv, u
<1> QED
  BY <1>9, <1>10

\* A container goes to its place; after the last one the bitmap is complete.
LEMMA ContainerWritten == ASSUME IInv, WrittenInv, WriteContainer PROVE WrittenInv'
<1>1. /\ b \in Bitmaps /\ b' = b /\ k \in 1..Len(b) /\ buf \in Seq(Byte) /\ Len(b) \in Nat
      /\ pc = "containers" /\ Len(buf) \in Nat
  BY SlotsNat, LenProperties DEF IInv, WriteInv, WriteContainer
<1> DEFINE n == Place(b, k - 1)
           w == container_write(b[k])
           z == Sizes(b)[k]
           u == buf'
<1>2. /\ HasHead(b, buf) /\ HasDescriptions(b, buf, Len(b)) /\ HasContainers(b, buf, k - 1)
      /\ Len(buf) = n /\ HeadLength(b) \in Nat
  BY <1>1, HeadIs DEF WrittenInv
<1>3. w \in Seq(Byte) /\ Len(w) = z
  <2>1. Sizes(b)[k] = container_size_in_bytes(b[k])
    BY <1>1, SizesAre
  <2> QED
    BY <1>1, <2>1, ContainerIs
<1>4. u = buf \o w
  BY DEF WriteContainer
<1>5. /\ n \in Nat /\ z \in Nat /\ Place(b, k) = n + z
      /\ ra_portable_header_size(b) <= n /\ HeadLength(b) + 4 * Len(b) <= n
  <2>1. k \in 0..Len(b) /\ k > 0 /\ k - 1 \in 0..Len(b) /\ 0 \in 0..Len(b) /\ 0 \in 0..(k - 1)
    BY <1>1
  <2>2. n \in Nat /\ z \in Nat /\ Place(b, k) = n + z /\ Place(b, 0) = ra_portable_header_size(b)
    BY <1>1, <2>1, PlaceStep
  <2>3. Place(b, 0) <= n
    BY <1>1, <2>1, PlaceGrows
  <2>4. /\ HeadLength(b) + 4 * Len(b) <= ra_portable_header_size(b)
        /\ ra_portable_header_size(b) \in Nat
    BY <1>1, <1>2, HeaderSizeIs
  <2> HIDE DEF n, z
  <2> QED
    BY <1>1, <1>2, <2>2, <2>3, <2>4
<1>6. Follows(buf, w, u)
  <2>1. Joins(buf, w, u)
    BY <1>1, <1>3, <1>4 DEF Joins
  <2> QED
    BY <2>1, Joined
<1> HIDE DEF n, w, z, u
<1>7. Len(u) = n + z /\ Grown(buf, u)
  BY <1>2, <1>3, <1>6, GrownBy DEF Follows
<1>8. HasHead(b, u)
  <2>1. HeadLength(b) <= Len(buf)
    BY <1>1, <1>2, <1>5
  <2> QED
    BY <1>1, <1>2, <1>7, <2>1, HeadKept
<1>9. HasDescriptions(b, u, Len(b))
  BY <1>1, <1>2, <1>5, <1>7, DescriptionsKept
<1>10. HasContainers(b, u, k)
  <2>1. HasContainers(b, u, k - 1)
    <3>1. k - 1 \in 0..Len(b) /\ Place(b, k - 1) <= Len(buf)
      BY <1>1, <1>2, <1>5 DEF n
    <3> QED
      BY <1>1, <1>2, <1>7, <3>1, ContainersKept
  <2>2. \A i \in 1..k : i \in 1..k - 1 \/ i = k
    BY <1>1
  <2>3. \A j \in 1..z : u[n + j] = w[j]
    BY <1>2, <1>3, <1>6 DEF Follows
  <2>4. \A j \in 1..Sizes(b)[k] : u[Place(b, k - 1) + j] = container_write(b[k])[j]
    BY <2>3 DEF n, z, w
  <2> QED
    BY <2>1, <2>2, <2>4 DEF HasContainers
<1>11. CASE k < Len(b)
  <2>1. pc' = "containers" /\ k' = k + 1
    BY <1>1, <1>11 DEF WriteContainer, Loop
  <2>2. k' - 1 = k /\ Len(buf') = Place(b, k)
    BY <1>1, <1>5, <1>7, <2>1 DEF u
  <2> QED
    BY <1>1, <1>8, <1>9, <1>10, <2>1, <2>2 DEF WrittenInv, u
<1>12. CASE ~(k < Len(b))
  <2>1. pc' = "written" /\ k = Len(b)
    BY <1>1, <1>12 DEF WriteContainer, Loop
  <2>2. Len(u) = Place(b, Len(b))
    BY <1>5, <1>7, <2>1
  <2>3. Complete(b, u)
    BY <1>8, <1>9, <1>10, <2>1, <2>2 DEF Complete
  <2> QED
    BY <1>1, <2>1, <2>3 DEF WrittenInv, u
<1> QED
  BY <1>11, <1>12

\* A reader does not write.
LEMMA ReaderWritten ==
    ASSUME WrittenInv, UNCHANGED written,
           pc \notin {"header", "descriptions", "offsets", "containers"},
           pc' \notin {"header", "descriptions", "offsets", "containers"}
    PROVE  WrittenInv'
<1>1. Complete(b, buf) /\ b' = b /\ buf' = buf
  BY DEF WrittenInv, written
<1>2. Complete(b', buf')
  BY <1>1
<1> QED
  BY <1>2 DEF WrittenInv

LEMMA InitWrittenInv == Init => WrittenInv
BY DEF Init, WrittenInv

\* Each step keeps what has been written.
LEMMA NextWritten == ASSUME IInv, WrittenInv, [Next]_vars PROVE WrittenInv'
<1> DEFINE W == {"header", "descriptions", "offsets", "containers"}
<1>1. CASE WriteHeader
  BY <1>1, HeaderWritten
<1>2. CASE WriteDescription
  BY <1>2, DescriptionWritten
<1>3. CASE WriteOffset
  BY <1>3, OffsetWritten
<1>4. CASE WriteContainer
  BY <1>4, ContainerWritten
<1>5. CASE UNCHANGED vars
  <2>1. b' = b /\ buf' = buf /\ pc' = pc /\ k' = k
    BY <1>5 DEF vars, written
  <2>2. WithOffsets' <=> WithOffsets
    BY <2>1 DEF WithOffsets
  <2> QED
    BY <2>1, <2>2 DEF WrittenInv
<1>6. CASE \/ Open \/ OpenRefused \/ RunOut
           \/ ReadCookie \/ ReadSize \/ ReadFlags \/ ReadKeys \/ SkipOffsets
           \/ ReadBitsetOrArray \/ ReadRunCount \/ ReadRuns \/ Finish
  <2>1. UNCHANGED written
    BY <1>6 DEF Open, OpenRefused, RunOut, ReadCookie, ReadSize, ReadFlags, ReadKeys, SkipOffsets,
       ReadBitsetOrArray, ReadRunCount, ReadRuns, Finish
  <2>2. pc \notin W
    BY <1>6 DEF Open, OpenRefused, RunOut, ReadCookie, ReadSize, ReadFlags, ReadKeys, SkipOffsets,
       ReadBitsetOrArray, ReadRunCount, ReadRuns, Finish, AtField, AtContainers
  <2>3. pc' \notin W
    BY <1>6 DEF Open, OpenRefused, RunOut, ReadCookie, ReadSize, ReadFlags, ReadKeys, SkipOffsets,
       ReadBitsetOrArray, ReadRunCount, ReadRuns, Finish, Give, Built, Unbuilt
  <2> QED
    BY <2>1, <2>2, <2>3, ReaderWritten
<1> QED
  BY <1>1, <1>2, <1>3, <1>4, <1>5, <1>6 DEF Next, Ended
-------------------------------------------------------------------------------
(* What a reader makes of what the writer has written *)

\* The lower half of a number has its first two bytes.
LEMMA LowerHalf ==
    ASSUME NEW n \in Nat
    PROVE  U16(n)[1] = U16(n % 65536)[1] /\ U16(n)[2] = U16(n % 65536)[2]
<1> DEFINE q == n \div 256
           x == n % 256
           y == q % 256
           z == q \div 256
           r == n % 65536
<1>1. n = 256 * q + x /\ x \in 0..255 /\ q \in Nat
  OBVIOUS
<1>2. q = 256 * z + y /\ y \in 0..255 /\ z \in Nat
  <2> HIDE DEF q
  <2> QED
    BY <1>1
<1>3. Low(n) = x /\ High(n) = y
  BY DEF Low, High
<1>4. r = 256 * y + x
  <2> HIDE DEF q, x, y, z
  <2> QED
    BY <1>1, <1>2
<1> HIDE DEF q, x, y, z, r
<1>5. r \in Nat /\ r % 256 = x /\ r \div 256 = y
  BY <1>1, <1>2, <1>4
<1>6. Low(r) = x /\ High(r) = y
  BY <1>2, <1>5 DEF Low, High
<1>7. U16(n)[1] = Low(n) /\ U16(n)[2] = High(n)
  BY U16Is
<1>8. U16(r)[1] = Low(r) /\ U16(r)[2] = High(r)
  BY <1>5, U16Is
<1>9. U16(n)[1] = U16(r)[1] /\ U16(n)[2] = U16(r)[2]
  BY <1>3, <1>6, <1>7, <1>8
<1> QED
  BY <1>9 DEF r

Has32(s, p, n) == \A i \in 1..4 : s[p + i] = U32(n)[i]
LEMMA Got32 ==
    ASSUME NEW s, NEW p \in Nat, NEW n \in Nat, n \div 65536 < 65536, Has32(s, p, n)
    PROVE  GetU32(s, p) = n
<1> DEFINE m == Upper(n)
           r == n % 65536
<1>1. m \in Nat /\ m < 65536 /\ r \in Nat /\ r < 65536 /\ n = r + 65536 * m
  BY DEF Upper
<1>2. U16(n)[1] = U16(r)[1] /\ U16(n)[2] = U16(r)[2]
  BY LowerHalf
<1>3. /\ U32(n)[1] = U16(n)[1] /\ U32(n)[2] = U16(n)[2]
      /\ U32(n)[3] = U16(m)[1] /\ U32(n)[4] = U16(m)[2]
  BY U32Is
<1> HIDE DEF m, r
<1>4. /\ s[p + 1] = U32(n)[1] /\ s[p + 2] = U32(n)[2]
      /\ s[p + 3] = U32(n)[3] /\ s[p + 4] = U32(n)[4]
  BY DEF Has32
<1>5. GetU16(s, p) = r
  <2>1. Has16(s, p, r)
    BY <1>2, <1>3, <1>4 DEF Has16
  <2> QED
    BY <1>1, <2>1, Got16
<1>6. GetU16(s, p + 2) = m
  <2>1. p + 2 \in Nat /\ (p + 2) + 1 = p + 3 /\ (p + 2) + 2 = p + 4
    OBVIOUS
  <2>2. Has16(s, p + 2, m)
    BY <1>3, <1>4, <2>1 DEF Has16
  <2> QED
    BY <1>1, <2>1, <2>2, Got16
<1> QED
  BY <1>1, <1>5, <1>6 DEF GetU32

\* Opaque for the lemmas that follow: a bitmap and all of its bytes.
Whole(c, s) == c \in Bitmaps /\ s \in Seq(Byte) /\ Complete(c, s)

\* Where the parts of a bitmap lie in its bytes.
LEMMA WholeLength ==
    ASSUME NEW c, NEW s, Whole(c, s)
    PROVE  /\ Len(c) \in Nat /\ Len(c) <= 65536 /\ Len(s) \in Nat
           /\ Len(s) = Place(c, Len(c)) /\ HeadLength(c) \in Nat
           /\ ra_portable_header_size(c) \in Nat
           /\ HeadLength(c) + 4 * Len(c) <= ra_portable_header_size(c)
           /\ ra_portable_header_size(c) <= Len(s)
           /\ \A i \in 0..Len(c) : Place(c, i) \in Nat /\ Place(c, i) <= Len(s)
                                   /\ ra_portable_header_size(c) <= Place(c, i)
<1>1. /\ c \in Bitmaps /\ s \in Seq(Byte) /\ Len(s) \in Nat /\ Len(c) \in Nat
      /\ Len(s) = Place(c, Len(c)) /\ HeadLength(c) \in Nat
  BY LenProperties, SlotsNat, HeadIs DEF Whole, Complete
<1>2. Len(c) <= 65536
  BY <1>1, BitmapsAssumption DEF MaxContainers
<1>3. ra_portable_header_size(c) \in Nat /\ HeadLength(c) + 4 * Len(c) <= ra_portable_header_size(c)
  BY <1>1, HeaderSizeIs
<1>4. ASSUME NEW i \in 0..Len(c)
      PROVE  /\ Place(c, i) \in Nat /\ Place(c, i) <= Len(s)
             /\ ra_portable_header_size(c) <= Place(c, i)
  <2>1. Len(c) \in 0..Len(c) /\ 0 \in 0..i /\ 0 \in 0..Len(c)
    BY <1>1
  <2>2. Place(c, i) \in Nat /\ Place(c, 0) = ra_portable_header_size(c)
    BY <1>1, <2>1, PlaceStep
  <2>3. Place(c, i) <= Place(c, Len(c)) /\ Place(c, 0) <= Place(c, i)
    BY <1>1, <2>1, PlaceGrows
  <2> QED
    BY <1>1, <2>2, <2>3
<1>5. ra_portable_header_size(c) <= Len(s)
  <2>1. 0 \in 0..Len(c)
    BY <1>1
  <2>2. Place(c, 0) <= Len(s) /\ ra_portable_header_size(c) <= Place(c, 0) /\ Place(c, 0) \in Nat
    BY <1>4, <2>1
  <2> QED
    BY <1>1, <1>3, <2>2
<1> QED
  BY <1>1, <1>2, <1>3, <1>4, <1>5

\* The cookie, with or without the number of containers in it, and the flags are read back.
LEMMA WholeCookie ==
    ASSUME NEW c, NEW s, Whole(c, s)
    PROVE  /\ HasRun(c) => /\ GetU32(s, 0) = SERIAL_COOKIE + 65536 * (Len(c) - 1)
                           /\ \A j \in 1..FlagBytes(Len(c)) : s[4 + j] = RunFlags(c)[j]
           /\ ~HasRun(c) => GetU32(s, 0) = SERIAL_COOKIE_NO_RUNCONTAINER /\ GetU32(s, 4) = Len(c)
<1>1. c \in Bitmaps /\ HasHead(c, s) /\ Len(c) \in Nat /\ Len(c) <= 65536
  BY WholeLength DEF Whole, Complete
<1>2. CASE HasRun(c)
  <2> DEFINE n == SERIAL_COOKIE + 65536 * (Len(c) - 1)
             t == RunFlags(c)
             u == HeadBytes(c)
             f == FlagBytes(Len(c))
  <2>1. n \in Nat /\ n \div 65536 < 65536
    <3>1. Len(c) > 0
      BY <1>1, <1>2, HeadIs
    <3> QED
      BY <1>1, <3>1 DEF SERIAL_COOKIE
  <2>2. f \in Nat /\ t \in Seq(Byte) /\ Len(t) = f
    BY <1>1, FlagBytesNat, RunFlagsBytes, RunFlagsLength
  <2>3. u = U32(n) \o t
    BY <1>2 DEF HeadBytes
  <2>10. HeadLength(c) = 4 + f
    BY <1>2 DEF HeadLength
  <2> HIDE DEF n, t, u, f
  <2>4. U32(n) \in Seq(Byte) /\ Len(U32(n)) = 4
    BY <2>1, U32Is
  <2>5. Follows(U32(n), t, u)
    <3>1. Joins(U32(n), t, u)
      BY <2>2, <2>3, <2>4 DEF Joins
    <3> QED
      BY <3>1, Joined
  <2>6. \A j \in 1..4 + f : s[j] = u[j]
    BY <1>1, <2>10 DEF HasHead, u
  <2>7. \A j \in 1..4 : s[0 + j] = U32(n)[j]
    BY <2>2, <2>4, <2>5, <2>6 DEF Follows
  <2>8. \A j \in 1..f : s[4 + j] = t[j]
    BY <2>2, <2>4, <2>5, <2>6 DEF Follows
  <2>11. Has32(s, 0, n)
    BY <2>7 DEF Has32
  <2>9. GetU32(s, 0) = n
    BY <2>1, <2>11, Got32
  <2> QED
    BY <1>2, <2>8, <2>9 DEF n, t, f
<1>3. CASE ~HasRun(c)
  <2> DEFINE n == SERIAL_COOKIE_NO_RUNCONTAINER
             m == Len(c)
             u == HeadBytes(c)
  <2>1. n \in Nat /\ n \div 65536 < 65536 /\ m \in Nat /\ m \div 65536 < 65536
    BY <1>1 DEF SERIAL_COOKIE_NO_RUNCONTAINER
  <2>2. u = U32(n) \o U32(m)
    BY <1>3 DEF HeadBytes
  <2>9. HeadLength(c) = 8
    BY <1>3 DEF HeadLength
  <2> HIDE DEF n, m, u
  <2>3. U32(n) \in Seq(Byte) /\ Len(U32(n)) = 4 /\ U32(m) \in Seq(Byte) /\ Len(U32(m)) = 4
    BY <2>1, U32Is
  <2>4. Follows(U32(n), U32(m), u)
    <3>1. Joins(U32(n), U32(m), u)
      BY <2>2, <2>3 DEF Joins
    <3> QED
      BY <3>1, Joined
  <2>5. \A j \in 1..8 : s[j] = u[j]
    BY <1>1, <2>9 DEF HasHead, u
  <2>6. \A j \in 1..4 : s[0 + j] = U32(n)[j]
    BY <2>3, <2>4, <2>5 DEF Follows
  <2>7. \A j \in 1..4 : s[4 + j] = U32(m)[j]
    BY <2>3, <2>4, <2>5 DEF Follows
  <2>10. Has32(s, 0, n) /\ Has32(s, 4, m)
    BY <2>6, <2>7 DEF Has32
  <2>8. GetU32(s, 0) = n /\ GetU32(s, 4) = m
    BY <2>1, <2>10, Got32
  <2> QED
    BY <1>3, <2>8 DEF n, m
<1> QED
  BY <1>2, <1>3

\* So is every field of the header.
LEMMA WholeHeader ==
    ASSUME NEW c, NEW s, Whole(c, s)
    PROVE  /\ HasCookie(s) /\ (Header(s).hasrun <=> HasRun(c))
           /\ Header(s).size = Len(c) /\ Header(s).keyscards = HeadLength(c)
           /\ Header(s).containers = ra_portable_header_size(c)
<1>1. c \in Bitmaps /\ Len(c) \in Nat /\ Len(c) <= 65536
  BY WholeLength DEF Whole
<1>2. CASE HasRun(c)
  <2> DEFINE n == GetU32(s, 0)
  <2>1. n = SERIAL_COOKIE + 65536 * (Len(c) - 1) /\ Len(c) > 0
    BY <1>1, <1>2, WholeCookie, HeadIs
  <2> HIDE DEF n
  <2>2. n % 65536 = SERIAL_COOKIE /\ (n \div 65536) + 1 = Len(c)
    BY <1>1, <2>1 DEF SERIAL_COOKIE
  <2>3. HasCookie(s) /\ Header(s).hasrun /\ Header(s).size = Len(c)
    BY <2>2, HeaderIs DEF HasCookie, n
  <2>4. Header(s).keyscards = HeadLength(c)
    BY <1>2, <2>3, HeaderIs DEF HeadLength
  <2>5. Header(s).containers = ra_portable_header_size(c)
    <3>1. Header(s).offsets <=> Len(c) >= NO_OFFSET_THRESHOLD
      BY <2>3, HeaderIs
    <3>2. Header(s).containers = HeadLength(c) + (IF Header(s).offsets THEN 8 ELSE 4) * Len(c)
      BY <2>3, <2>4, HeaderIs
    <3> QED
      BY <1>1, <1>2, <3>1, <3>2, HeaderSizeIs
  <2> QED
    BY <1>2, <2>3, <2>4, <2>5
<1>3. CASE ~HasRun(c)
  <2>1. GetU32(s, 0) = SERIAL_COOKIE_NO_RUNCONTAINER /\ GetU32(s, 4) = Len(c)
    BY <1>3, WholeCookie
  <2>2. HasCookie(s) /\ GetU32(s, 0) % 65536 # SERIAL_COOKIE
    BY <2>1 DEF HasCookie, SERIAL_COOKIE, SERIAL_COOKIE_NO_RUNCONTAINER
  <2>3. ~Header(s).hasrun /\ Header(s).size = Len(c) /\ Header(s).offsets
    BY <2>1, <2>2, HeaderIs
  <2>4. Header(s).keyscards = HeadLength(c)
    BY <1>3, <2>3, HeaderIs DEF HeadLength
  <2>5. Header(s).containers = HeadLength(c) + 8 * Len(c)
    BY <2>3, <2>4, HeaderIs
  <2> QED
    BY <1>1, <1>3, <2>2, <2>3, <2>4, <2>5, HeaderSizeIs
<1> QED
  BY <1>2, <1>3

\* Eight flags in a byte, each in its place.
Bit(x) == x = 0 \/ x = 1
LEMMA FlagTaken ==
    ASSUME NEW f0, NEW f1, NEW f2, NEW f3, NEW f4, NEW f5, NEW f6, NEW f7,
           Bit(f0), Bit(f1), Bit(f2), Bit(f3), Bit(f4), Bit(f5), Bit(f6), Bit(f7), NEW v,
           v = f0 + 2 * f1 + 4 * f2 + 8 * f3 + 16 * f4 + 32 * f5 + 64 * f6 + 128 * f7
    PROVE  /\ (v \div 1) % 2 = f0 /\ (v \div 2) % 2 = f1
           /\ (v \div 4) % 2 = f2 /\ (v \div 8) % 2 = f3
           /\ (v \div 16) % 2 = f4 /\ (v \div 32) % 2 = f5
           /\ (v \div 64) % 2 = f6 /\ (v \div 128) % 2 = f7
<1> DEFINE h6 == f6 + 2 * f7
           h5 == f5 + 2 * h6
           h4 == f4 + 2 * h5
           h3 == f3 + 2 * h4
           h2 == f2 + 2 * h3
           h1 == f1 + 2 * h2
<1>1. /\ f0 \in 0..1 /\ f1 \in 0..1 /\ f2 \in 0..1 /\ f3 \in 0..1
      /\ f4 \in 0..1 /\ f5 \in 0..1 /\ f6 \in 0..1 /\ f7 \in 0..1
  BY DEF Bit
<1>2. /\ h6 = f6 + 2 * f7 /\ h5 = f5 + 2 * h6 /\ h4 = f4 + 2 * h5 /\ h3 = f3 + 2 * h4
      /\ h2 = f2 + 2 * h3 /\ h1 = f1 + 2 * h2
      /\ h6 \in Nat /\ h5 \in Nat /\ h4 \in Nat /\ h3 \in Nat /\ h2 \in Nat /\ h1 \in Nat
  BY <1>1
<1>3. v = f0 + 2 * h1
  BY <1>1
<1> HIDE DEF h1, h2, h3, h4, h5, h6
<1>4. v \div 1 = v /\ v % 2 = f0 /\ v \in Nat
  BY <1>1, <1>2, <1>3
<1>5. v \div 2 = h1 /\ h1 % 2 = f1
  BY <1>1, <1>2, <1>3
<1>6. v \div 4 = h2 /\ h2 % 2 = f2
  <2>1. v = (f0 + 2 * f1) + 4 * h2
    BY <1>1, <1>2, <1>3
  <2> QED
    BY <1>1, <1>2, <2>1
<1>7. v \div 8 = h3 /\ h3 % 2 = f3
  <2>1. v = (f0 + 2 * f1 + 4 * f2) + 8 * h3
    BY <1>1, <1>2, <1>3
  <2> QED
    BY <1>1, <1>2, <2>1
<1>8. v \div 16 = h4 /\ h4 % 2 = f4
  <2>1. v = (f0 + 2 * f1 + 4 * f2 + 8 * f3) + 16 * h4
    BY <1>1, <1>2, <1>3
  <2> QED
    BY <1>1, <1>2, <2>1
<1>9. v \div 32 = h5 /\ h5 % 2 = f5
  <2>1. v = (f0 + 2 * f1 + 4 * f2 + 8 * f3 + 16 * f4) + 32 * h5
    BY <1>1, <1>2, <1>3
  <2> QED
    BY <1>1, <1>2, <2>1
<1>10. v \div 64 = h6 /\ h6 % 2 = f6
  <2>1. v = (f0 + 2 * f1 + 4 * f2 + 8 * f3 + 16 * f4 + 32 * f5) + 64 * h6
    BY <1>1, <1>2, <1>3
  <2> QED
    BY <1>1, <1>2, <2>1
<1>11. v \div 128 = f7 /\ f7 % 2 = f7
  <2>1. v = (f0 + 2 * f1 + 4 * f2 + 8 * f3 + 16 * f4 + 32 * f5 + 64 * f6) + 128 * f7
    BY <1>1, <1>2, <1>3
  <2> QED
    BY <1>1, <2>1
<1> QED
  BY <1>4, <1>5, <1>6, <1>7, <1>8, <1>9, <1>10, <1>11

\* The flag of a slot is found in the byte of its eight, at its place in it.
LEMMA FlagByteTaken ==
    ASSUME NEW c, NEW j \in Nat, NEW x \in 0..7
    PROVE  ((FlagByte(c, j) \div 2^x) % 2 = 1) <=> FlagOf(c, 8 * j + x) = 1
<1> DEFINE v == FlagByte(c, j)
           f0 == FlagOf(c, 8 * j)
           f1 == FlagOf(c, 8 * j + 1)
           f2 == FlagOf(c, 8 * j + 2)
           f3 == FlagOf(c, 8 * j + 3)
           f4 == FlagOf(c, 8 * j + 4)
           f5 == FlagOf(c, 8 * j + 5)
           f6 == FlagOf(c, 8 * j + 6)
           f7 == FlagOf(c, 8 * j + 7)
<1>1. /\ Bit(f0) /\ Bit(f1) /\ Bit(f2) /\ Bit(f3) /\ Bit(f4) /\ Bit(f5) /\ Bit(f6) /\ Bit(f7)
  BY DEF FlagOf, Bit
<1>2. v = f0 + 2 * f1 + 4 * f2 + 8 * f3 + 16 * f4 + 32 * f5 + 64 * f6 + 128 * f7
  BY DEF FlagByte
<1>3. /\ x = 0 => FlagOf(c, 8 * j + x) = f0
      /\ x = 1 => FlagOf(c, 8 * j + x) = f1
      /\ x = 2 => FlagOf(c, 8 * j + x) = f2
      /\ x = 3 => FlagOf(c, 8 * j + x) = f3
      /\ x = 4 => FlagOf(c, 8 * j + x) = f4
      /\ x = 5 => FlagOf(c, 8 * j + x) = f5
      /\ x = 6 => FlagOf(c, 8 * j + x) = f6
      /\ x = 7 => FlagOf(c, 8 * j + x) = f7
  <2>1. 8 * j + 0 = 8 * j
    OBVIOUS
  <2> QED
    BY <2>1
<1>4. /\ 2^0 = 1 /\ 2^1 = 2 /\ 2^2 = 4 /\ 2^3 = 8
      /\ 2^4 = 16 /\ 2^5 = 32 /\ 2^6 = 64 /\ 2^7 = 128
  OBVIOUS
<1>5. /\ x = 0 => 2^x = 1
      /\ x = 1 => 2^x = 2
      /\ x = 2 => 2^x = 4
      /\ x = 3 => 2^x = 8
      /\ x = 4 => 2^x = 16
      /\ x = 5 => 2^x = 32
      /\ x = 6 => 2^x = 64
      /\ x = 7 => 2^x = 128
  <2>1. x = 0 => 2^x = 1
    BY <1>4
  <2>2. x = 1 => 2^x = 2
    BY <1>4
  <2>3. x = 2 => 2^x = 4
    BY <1>4
  <2>4. x = 3 => 2^x = 8
    BY <1>4
  <2>5. x = 4 => 2^x = 16
    BY <1>4
  <2>6. x = 5 => 2^x = 32
    BY <1>4
  <2>7. x = 6 => 2^x = 64
    BY <1>4
  <2>8. x = 7 => 2^x = 128
    BY <1>4
  <2> QED
    BY <2>1, <2>2, <2>3, <2>4, <2>5, <2>6, <2>7, <2>8
<1> DEFINE d == 2^x
           g == FlagOf(c, 8 * j + x)
<1> HIDE DEF v, f0, f1, f2, f3, f4, f5, f6, f7, d, g
<1>6. /\ (v \div 1) % 2 = f0 /\ (v \div 2) % 2 = f1
      /\ (v \div 4) % 2 = f2 /\ (v \div 8) % 2 = f3
      /\ (v \div 16) % 2 = f4 /\ (v \div 32) % 2 = f5
      /\ (v \div 64) % 2 = f6 /\ (v \div 128) % 2 = f7
  BY <1>1, <1>2, FlagTaken
<1>7. x = 0 \/ x = 1 \/ x = 2 \/ x = 3 \/ x = 4 \/ x = 5 \/ x = 6 \/ x = 7
  OBVIOUS
<1>8. (v \div d) % 2 = g
  <2>1. CASE x = 0
    <3>1. d = 1 /\ g = f0
      BY <1>3, <1>5, <2>1 DEF d, g
    <3> QED
      BY <1>6, <3>1
  <2>2. CASE x = 1
    <3>1. d = 2 /\ g = f1
      BY <1>3, <1>5, <2>2 DEF d, g
    <3> QED
      BY <1>6, <3>1
  <2>3. CASE x = 2
    <3>1. d = 4 /\ g = f2
      BY <1>3, <1>5, <2>3 DEF d, g
    <3> QED
      BY <1>6, <3>1
  <2>4. CASE x = 3
    <3>1. d = 8 /\ g = f3
      BY <1>3, <1>5, <2>4 DEF d, g
    <3> QED
      BY <1>6, <3>1
  <2>5. CASE x = 4
    <3>1. d = 16 /\ g = f4
      BY <1>3, <1>5, <2>5 DEF d, g
    <3> QED
      BY <1>6, <3>1
  <2>6. CASE x = 5
    <3>1. d = 32 /\ g = f5
      BY <1>3, <1>5, <2>6 DEF d, g
    <3> QED
      BY <1>6, <3>1
  <2>7. CASE x = 6
    <3>1. d = 64 /\ g = f6
      BY <1>3, <1>5, <2>7 DEF d, g
    <3> QED
      BY <1>6, <3>1
  <2>8. CASE x = 7
    <3>1. d = 128 /\ g = f7
      BY <1>3, <1>5, <2>8 DEF d, g
    <3> QED
      BY <1>6, <3>1
  <2> QED
    BY <1>7, <2>1, <2>2, <2>3, <2>4, <2>5, <2>6, <2>7, <2>8
<1> QED
  BY <1>8 DEF v, d, g

\* The flag of a container is set if and only if it has runs.
LEMMA WholeFlag ==
    ASSUME NEW c, NEW s, Whole(c, s), HasRun(c), NEW i \in 1..Len(c)
    PROVE  Flagged(s, 4, i - 1) <=> c[i].kind = "run"
<1>1. /\ c \in Bitmaps /\ Len(c) \in Nat
      /\ \A j \in 1..FlagBytes(Len(c)) : s[4 + j] = RunFlags(c)[j]
  BY WholeLength, WholeCookie DEF Whole
<1> DEFINE e == i - 1
           j == e \div 8
           x == e % 8
           l == Len(c)
<1>2. e \in Nat /\ e + 1 = i /\ e < l
  BY <1>1
<1> HIDE DEF e
<1>3. j \in Nat /\ x \in 0..7 /\ e = 8 * j + x
  BY <1>2
<1>4. j + 1 \in 1..FlagBytes(l)
  <2>1. FlagBytes(l) = (l + 7) \div 8 /\ l \in Nat
    BY <1>1 DEF FlagBytes
  <2> HIDE DEF j, x, l
  <2>2. 8 * j < l /\ j \in Nat
    BY <1>2, <1>3, <2>1
  <2>3. j + 1 <= (l + 7) \div 8
    BY <2>1, <2>2
  <2> QED
    BY <2>1, <2>2, <2>3
<1>5. s[4 + (j + 1)] = FlagByte(c, j)
  <2>1. s[4 + (j + 1)] = RunFlags(c)[j + 1]
    BY <1>1, <1>4 DEF l
  <2> HIDE DEF j
  <2>2. RunFlags(c)[j + 1] = FlagByte(c, (j + 1) - 1) /\ (j + 1) - 1 = j
    BY <1>3, <1>4 DEF RunFlags, l
  <2> QED
    BY <2>1, <2>2
<1>6. 4 + j + 1 = 4 + (j + 1)
  BY <1>3
<1>7. Flagged(s, 4, e) <=> (s[4 + j + 1] \div 2^x) % 2 = 1
  BY DEF Flagged, j, x
<1> HIDE DEF j, x, l
<1>8. Flagged(s, 4, e) <=> (FlagByte(c, j) \div 2^x) % 2 = 1
  BY <1>5, <1>6, <1>7
<1>9. ((FlagByte(c, j) \div 2^x) % 2 = 1) <=> FlagOf(c, e) = 1
  BY <1>3, FlagByteTaken
<1>10. FlagOf(c, e) = 1 <=> c[i].kind = "run"
  BY <1>2 DEF FlagOf, l
<1> QED
  BY <1>8, <1>9, <1>10 DEF e

\* Key, cardinality and kind of a container are read back.
LEMMA WholeCard ==
    ASSUME NEW c, NEW s, Whole(c, s), NEW i \in 1..Len(c)
    PROVE  /\ CardAt(s, Header(s).keyscards, i - 1) = c[i].card
           /\ GetU16(s, Header(s).keyscards + 4 * (i - 1)) = c[i].key
           /\ KindAt(s, Header(s), i - 1) = c[i].kind
<1>1. /\ c \in Bitmaps /\ HasDescriptions(c, s, Len(c)) /\ Header(s).keyscards = HeadLength(c)
      /\ (Header(s).hasrun <=> HasRun(c)) /\ Len(c) \in Nat
  BY WholeHeader, WholeLength DEF Whole, Complete
<1>2. /\ GetU16(s, HeadLength(c) + 4 * (i - 1)) = c[i].key
      /\ GetU16(s, HeadLength(c) + 4 * (i - 1) + 2) = c[i].card - 1
  BY <1>1 DEF HasDescriptions
<1>3. /\ c[i].card \in Nat /\ c[i].kind \in Kind
      /\ c[i].kind = "bitset" => c[i].card > MaxArray
      /\ c[i].kind = "array" => c[i].card <= MaxArray
  BY <1>1, SlotIs
<1>4. CardAt(s, Header(s).keyscards, i - 1) = c[i].card
  <2>1. CardAt(s, Header(s).keyscards, i - 1) = (c[i].card - 1) + 1
    BY <1>1, <1>2 DEF CardAt
  <2> QED
    BY <1>3, <2>1
<1>5. KindAt(s, Header(s), i - 1)
        = KindOf(Header(s).hasrun /\ Flagged(s, 4, i - 1), c[i].card)
  BY <1>4 DEF KindAt
<1>6. CASE c[i].kind = "run"
  <2>1. HasRun(c)
    <3>1. i \in DOMAIN c
      BY <1>1, BitmapsAssumption, LenProperties
    <3> QED
      BY <1>6, <3>1 DEF HasRun
  <2>2. Header(s).hasrun /\ Flagged(s, 4, i - 1)
    BY <1>1, <1>6, <2>1, WholeFlag
  <2> QED
    BY <1>1, <1>2, <1>4, <1>5, <1>6, <2>2 DEF KindOf
<1>7. CASE c[i].kind # "run"
  <2>1. ~(Header(s).hasrun /\ Flagged(s, 4, i - 1))
    BY <1>1, <1>7, WholeFlag
  <2>2. KindAt(s, Header(s), i - 1) = IF c[i].card > MaxArray THEN "bitset" ELSE "array"
    BY <1>5, <2>1 DEF KindOf
  <2>3. c[i].card > MaxArray <=> c[i].kind = "bitset"
    BY <1>3, <1>7, FormatAssumption DEF Kind
  <2>4. c[i].kind = "bitset" \/ c[i].kind = "array"
    BY <1>3, <1>7 DEF Kind
  <2>5. KindAt(s, Header(s), i - 1) = c[i].kind
    BY <2>2, <2>3, <2>4
  <2> QED
    BY <1>1, <1>2, <1>4, <2>5
<1> QED
  BY <1>6, <1>7

\* A run container begins with the number of its runs.
LEMMA RunsWritten ==
    ASSUME NEW c \in Bitmaps, NEW i \in 1..Len(c), c[i].kind = "run"
    PROVE  LET n == Runs(c[i])
               w == container_write(c[i])
           IN  w[1] = U16(n)[1] /\ w[2] = U16(n)[2]
<1> DEFINE n == Runs(c[i])
           d == c[i].data
           w == container_write(c[i])
<1>1. n \in Nat /\ d \in Seq(Byte)
  BY SlotIs
<1>2. w = U16(n) \o d
  BY DEF container_write
<1> HIDE DEF n, d, w
<1>3. U16(n) \in Seq(Byte) /\ Len(U16(n)) = 2
  BY <1>1, U16Is
<1>4. Joins(U16(n), d, w)
  BY <1>1, <1>2, <1>3 DEF Joins
<1>5. Follows(U16(n), d, w)
  BY <1>4, Joined
<1>6. w[1] = U16(n)[1] /\ w[2] = U16(n)[2]
  BY <1>3, <1>5 DEF Follows
<1> QED
  BY <1>6 DEF n, w

\* A container that is there to be read has the length it was written with; one that is cut
\* off is found to be.
LEMMA WholeSize ==
    ASSUME NEW c, NEW s, Whole(c, s), NEW i \in 1..Len(c), NEW m \in 0..Len(s),
           NEW p, p = Place(c, i - 1)
    PROVE  /\ p \in Nat /\ Sizes(c)[i] \in Nat /\ Place(c, i) = p + Sizes(c)[i]
           /\ Place(c, i) <= Len(s)
           /\ Place(c, i) <= m => SizeAt(s, m, i - 1, p) = Sizes(c)[i]
           /\ Place(c, i) > m => p + SizeAt(s, m, i - 1, p) > m
<1>1. /\ c \in Bitmaps /\ s \in Seq(Byte) /\ HasContainers(c, s, Len(c))
      /\ Len(c) \in Nat /\ Len(s) \in Nat
  BY WholeLength DEF Whole, Complete
<1>2. /\ p \in Nat /\ Sizes(c)[i] \in Nat /\ Place(c, i) = p + Sizes(c)[i]
      /\ Place(c, i) <= Len(s)
  <2>1. i \in 0..Len(c) /\ i > 0 /\ i - 1 \in 0..Len(c)
    BY <1>1
  <2>2. p \in Nat /\ Place(c, i) <= Len(s)
    BY <2>1, WholeLength
  <2>3. Sizes(c)[i] \in Nat /\ Place(c, i) = p + Sizes(c)[i]
    BY <1>1, <2>1, PlaceStep
  <2> QED
    BY <2>2, <2>3
<1>3. c[i].kind \in Kind
  BY <1>1, SlotIs
<1>4. /\ CardAt(s, Header(s).keyscards, i - 1) = c[i].card
      /\ KindAt(s, Header(s), i - 1) = c[i].kind
  BY WholeCard
<1>5. Sizes(c)[i] = container_size_in_bytes(c[i])
  BY <1>1, SizesAre
<1>6. CASE c[i].kind = "run"
  <2> DEFINE r == Runs(c[i])
             w == container_write(c[i])
             z == Sizes(c)[i]
             q == Place(c, i)
             a == SizeAt(s, m, i - 1, p)
  <2>1. r \in Nat /\ r < 65536
    BY <1>1, <1>6, SlotIs
  <2>2. z = 2 + 4 * r
    BY <1>5, <1>6 DEF container_size_in_bytes
  <2>3. a = 2 + (IF p + 2 > m THEN 0 ELSE 4 * GetU16(s, p))
    BY <1>4, <1>6 DEF SizeAt
  <2>4. \A j \in 1..z : s[p + j] = w[j]
    BY <1>1 DEF HasContainers
  <2>5. w[1] = U16(r)[1] /\ w[2] = U16(r)[2]
    BY <1>1, <1>6, RunsWritten
  <2> HIDE DEF r, w, z, q, a
  <2>6. GetU16(s, p) = r
    <3>1. Has16(s, p, r)
      BY <2>1, <2>2, <2>4, <2>5 DEF Has16
    <3> QED
      BY <1>2, <2>1, <3>1, Got16
  <2>7. q = p + z /\ p \in Nat /\ m \in Nat
    BY <1>1, <1>2 DEF q, z
  <2>8. q <= m => a = z
    BY <2>1, <2>2, <2>3, <2>6, <2>7
  <2>9. q > m => p + a > m
    BY <2>1, <2>2, <2>3, <2>6, <2>7
  <2> QED
    BY <1>2, <2>8, <2>9 DEF q, a, z
<1>7. CASE c[i].kind # "run"
  <2>1. SizeAt(s, m, i - 1, p) = Sizes(c)[i]
    BY <1>3, <1>4, <1>5, <1>7 DEF SizeAt, container_size_in_bytes, Kind
  <2> QED
    BY <1>2, <2>1
<1> QED
  BY <1>6, <1>7

\* A container begins where it was put, if all before it is there to be read.
LEMMA WholeStarts ==
    ASSUME NEW c, NEW s, Whole(c, s), NEW m \in 0..Len(s), Acceptable(s, m), NEW i \in 0..Len(c)
    PROVE  Starts(s, m)[i] = IF Place(c, i) <= m THEN Place(c, i) ELSE 0
<1>1. /\ c \in Bitmaps /\ s \in Seq(Byte) /\ Len(c) \in Nat /\ Len(s) \in Nat
      /\ Header(s).size = Len(c) /\ Header(s).containers = ra_portable_header_size(c)
      /\ Header(s).containers >= 4
  BY WholeLength, WholeHeader, AcceptableHeader DEF Whole
<1> DEFINE F == Starts(s, m)
           P(j) == Place(c, j)
           Fine(j) == F[j] = IF P(j) <= m THEN P(j) ELSE 0
           Bad == {j \in Nat : j <= Len(c) /\ ~Fine(j)}
<1>2. SUFFICES ASSUME Bad # {} PROVE FALSE
  <2>1. ASSUME Bad = {} PROVE Fine(i)
    <3>1. ~(i \in Bad)
      BY <2>1
    <3>2. i \in Nat /\ i <= Len(c)
      BY <1>1
    <3> HIDE DEF Fine
    <3> QED
      BY <3>1, <3>2
  <2> QED
    BY <2>1
<1> HIDE DEF Fine
<1>3. PICK x \in Bad : \A y \in Bad : x <= y
  <2>1. Bad \in SUBSET Nat
    OBVIOUS
  <2> HIDE DEF Bad
  <2> QED
    BY <1>2, <2>1, LeastOfNaturals
<1>4. x \in Nat /\ x <= Len(c) /\ ~Fine(x)
  OBVIOUS
<1>5. CASE x = 0
  <2>1. F[0] = ra_portable_header_size(c)
    BY <1>1, StartsAre
  <2>2. P(0) = ra_portable_header_size(c)
    <3>1. 0 \in 0..Len(c)
      BY <1>1
    <3> QED
      BY <1>1, <3>1, PlaceStep
  <2>3. ra_portable_header_size(c) <= m
    BY <1>1 DEF Acceptable
  <2>4. Fine(0)
    BY <2>1, <2>2, <2>3 DEF Fine
  <2> QED
    BY <1>4, <1>5, <2>4
<1>6. CASE x # 0
  <2> DEFINE w == x - 1
             p == P(w)
             q == P(x)
             a == SizeAt(s, m, w, p)
  <2>1. x \in 1..Len(c) /\ w \in Nat /\ w < x /\ w <= Len(c) /\ w \in 0..Len(c)
    BY <1>1, <1>4, <1>6
  <2>2. Fine(w)
    <3>1. ~(w \in Bad)
      <4> HIDE DEF w, Bad
      <4> QED
        BY <1>3, <1>4, <2>1
    <3> HIDE DEF w
    <3> QED
      BY <2>1, <3>1
  <2>3. p \in Nat /\ p >= 4 /\ m \in Nat
    <3>1. Place(c, w) \in Nat /\ ra_portable_header_size(c) <= Place(c, w)
      BY <2>1, WholeLength
    <3>2. ra_portable_header_size(c) \in Nat
      BY WholeLength
    <3> HIDE DEF w
    <3> QED
      BY <1>1, <3>1, <3>2
  <2>4. /\ Sizes(c)[x] \in Nat /\ q = p + Sizes(c)[x]
        /\ q <= m => a = Sizes(c)[x]
        /\ q > m => p + a > m
    BY <2>1, WholeSize
  <2>5. F[x] = IF F[w] = 0 \/ F[w] + SizeAt(s, m, w, F[w]) > m THEN 0
               ELSE F[w] + SizeAt(s, m, w, F[w])
    BY <1>1, <2>1, StartsAre
  <2>6. CASE p <= m
    <3>1. F[w] = p
      BY <2>2, <2>6 DEF Fine
    <3>2. F[x] = IF p = 0 \/ p + a > m THEN 0 ELSE p + a
      BY <2>5, <3>1
    <3> HIDE DEF w, p, q, a
    <3>3. F[x] = IF q <= m THEN q ELSE 0
      BY <2>3, <2>4, <3>2
    <3>4. Fine(x)
      BY <3>3 DEF Fine, q
    <3> QED
      BY <1>4, <3>4
  <2>7. CASE ~(p <= m)
    <3>1. F[w] = 0
      BY <2>2, <2>7 DEF Fine
    <3>2. F[x] = 0
      BY <2>5, <3>1
    <3>3. ~(q <= m)
      <4> HIDE DEF w, p, q, a
      <4> QED
        BY <2>3, <2>4, <2>7
    <3>4. Fine(x)
      BY <3>2, <3>3 DEF Fine
    <3> QED
      BY <1>4, <3>4
  <2> QED
    BY <2>6, <2>7
<1> QED
  BY <1>5, <1>6

\* The bitmap that was written is found if and only if all of it is there.
LEMMA WholeIsFound ==
    ASSUME NEW c, NEW s, Whole(c, s), NEW m \in 0..Len(s)
    PROVE  /\ Len(s) >= 4
           /\ ra_portable_deserialize_size(s, m) = IF m >= Len(s) THEN Len(s) ELSE 0
<1>1. /\ c \in Bitmaps /\ s \in Seq(Byte) /\ Len(c) \in Nat /\ Len(c) <= 65536 /\ Len(s) \in Nat
      /\ Len(s) = Place(c, Len(c)) /\ m \in Nat /\ HeadLength(c) \in Nat /\ HeadLength(c) >= 4
      /\ ra_portable_header_size(c) \in Nat /\ ra_portable_header_size(c) <= Len(s)
      /\ HeadLength(c) <= ra_portable_header_size(c)
      /\ ~HasRun(c) => HeadLength(c) = 8
  BY WholeLength, HeadIs DEF Whole, HeadLength
<1>2. /\ HasCookie(s) /\ (Header(s).hasrun <=> HasRun(c)) /\ Header(s).size = Len(c)
      /\ Header(s).containers = ra_portable_header_size(c)
  BY WholeHeader
<1>3. CASE Acceptable(s, m)
  <2>1. Starts(s, m)[Len(c)] = IF Place(c, Len(c)) <= m THEN Place(c, Len(c)) ELSE 0
    <3>1. Len(c) \in 0..Len(c)
      BY <1>1
    <3> QED
      BY <1>3, <3>1, WholeStarts
  <2>2. ra_portable_deserialize_size(s, m) = Starts(s, m)[Len(c)]
    BY <1>1, <1>2, <1>3, SizeIs
  <2> QED
    BY <1>1, <2>1, <2>2
<1>4. CASE ~Acceptable(s, m)
  <2>1. \/ m < 4 \/ (~Header(s).hasrun /\ m < 8) \/ Header(s).containers > m
    BY <1>1, <1>2, <1>4 DEF Acceptable, MaxContainers
  <2>2. m < Len(s)
    BY <1>1, <1>2, <2>1
  <2>3. ra_portable_deserialize_size(s, m) = 0
    BY <1>1, <2>1, SizeIs
  <2> QED
    BY <1>1, <2>2, <2>3
<1> QED
  BY <1>3, <1>4

\* Bytes that are known one by one.
LEMMA BytesAre ==
    ASSUME NEW s \in Seq(Byte), NEW q \in Nat, NEW t \in Seq(Byte), q + Len(t) <= Len(s),
           NEW n, n = Len(t), \A j \in 1..n : s[q + j] = t[j]
    PROVE  Bytes(s, q, n) = t
<1>1. n \in Nat /\ Len(s) \in Nat /\ q + n <= Len(s)
  BY LenProperties
<1> DEFINE first == q + 1
           last == q + n
           u == SubSeq(s, first, last)
<1>2. Bytes(s, q, n) = u
  BY <1>1 DEF Bytes
<1>3. first \in Int /\ last \in Int /\ first = q + 1 /\ last = q + n
  BY <1>1
<1> HIDE DEF first, last
<1>4. \A i \in first..last : s[i] \in Byte
  <2>1. ASSUME NEW i \in first..last PROVE s[i] \in Byte
    <3>1. i \in 1..Len(s)
      BY <1>1, <1>3
    <3> QED
      BY <3>1, ElementOfSeq
  <2> QED
    BY <2>1
<1>5. /\ u \in Seq(Byte)
      /\ Len(u) = IF first <= last THEN last - first + 1 ELSE 0
      /\ \A i \in 1..last - first + 1 : u[i] = s[first + i - 1]
  BY <1>3, <1>4, SubSeqProperties
<1> HIDE DEF u
<1>6. Len(u) = n
  BY <1>1, <1>3, <1>5
<1>7. ASSUME NEW i \in 1..n PROVE u[i] = t[i]
  <2>1. i \in 1..last - first + 1 /\ first + i - 1 = q + i
    BY <1>1, <1>3
  <2> QED
    BY <1>5, <2>1
<1>8. u = t
  BY <1>5, <1>6, <1>7, SeqEqual
<1> QED
  BY <1>2, <1>8

\* The memory of a container is found behind what was written in front of it.
LEMMA WholeData ==
    ASSUME NEW c, NEW s, Whole(c, s), NEW i \in 1..Len(c)
    PROVE  LET skip == Skipped(c[i].kind)
           IN  Bytes(s, Place(c, i - 1) + skip, Sizes(c)[i] - skip) = c[i].data
<1> DEFINE skip == Skipped(c[i].kind)
           d == c[i].data
           p == Place(c, i - 1)
           w == container_write(c[i])
           z == Sizes(c)[i]
           r == Runs(c[i])
<1>1. c \in Bitmaps /\ HasContainers(c, s, Len(c)) /\ s \in Seq(Byte) /\ Len(s) \in Nat
  BY WholeLength DEF Whole, Complete
<1>2. p \in Nat /\ z \in Nat /\ p + z <= Len(s)
  <2>1. 0 \in 0..Len(s)
    BY <1>1
  <2> QED
    BY <2>1, WholeSize
<1>3. \A j \in 1..z : s[p + j] = w[j]
  BY <1>1 DEF HasContainers
<1>4. d \in Seq(Byte) /\ r \in Nat
  BY <1>1, SlotIs
<1>5. z = Len(w) /\ w \in Seq(Byte)
  BY <1>1, ContainerIs, SizesAre
<1>6. skip \in Nat /\ z = skip + Len(d) /\ \A j \in 1..Len(d) : w[skip + j] = d[j]
  <2>1. CASE c[i].kind = "run"
    <3>1. w = U16(r) \o d /\ skip = 2
      BY <2>1 DEF container_write, Skipped
    <3> HIDE DEF skip, d, w, z, r
    <3>2. U16(r) \in Seq(Byte) /\ Len(U16(r)) = 2
      BY <1>4, U16Is
    <3>3. Joins(U16(r), d, w)
      BY <1>4, <3>1, <3>2 DEF Joins
    <3>4. Follows(U16(r), d, w)
      BY <3>3, Joined
    <3> QED
      BY <1>5, <3>1, <3>2, <3>4 DEF Follows
  <2>2. CASE c[i].kind # "run"
    <3>1. w = d /\ skip = 0
      BY <2>2 DEF container_write, Skipped
    <3> HIDE DEF skip, d, w, z, r
    <3> QED
      BY <1>4, <1>5, <3>1, LenProperties
  <2> QED
    BY <2>1, <2>2
<1> HIDE DEF skip, d, w, z, r, p
<1> DEFINE q == p + skip
           n == z - skip
<1>7. q \in Nat /\ n = Len(d) /\ Len(d) \in Nat /\ q + Len(d) <= Len(s)
  BY <1>1, <1>2, <1>4, <1>6, LenProperties
<1>8. \A j \in 1..n : s[q + j] = d[j]
  <2>1. ASSUME NEW j \in 1..n PROVE s[q + j] = d[j]
    <3>1. skip + j \in 1..z /\ p + (skip + j) = q + j /\ j \in 1..Len(d)
      <4>1. j \in 1..Len(d)
        BY <1>7
      <4>2. skip + j \in 1..z
        BY <1>2, <1>6, <1>7, <4>1
      <4> QED
        BY <1>2, <1>6, <4>1, <4>2
    <3>2. s[p + (skip + j)] = w[skip + j]
      BY <1>3, <3>1
    <3> HIDE DEF q
    <3> QED
      BY <1>6, <3>1, <3>2
  <2> QED
    BY <2>1
<1> HIDE DEF q, n
<1>9. Bytes(s, q, n) = d
  BY <1>1, <1>4, <1>7, <1>8, BytesAre
<1> QED
  BY <1>9 DEF q, n, p, z, skip, d
-------------------------------------------------------------------------------
(* The theorem *)

\* A reader that is done with what was written has all of it.
LEMMA WhatIsRead ==
    ASSUME IInv, SizeInv, TakenInv, WrittenInv, pc = "done", input = buf
    PROVE  /\ maxbytes >= Len(buf) /\ readbytes = Len(buf)
           /\ Len(answer) = Len(b)
           /\ \A i \in DOMAIN b : keys[i] = b[i].key /\ SameContainer(b[i], answer[i])
<1>1. /\ b \in Bitmaps /\ buf \in Seq(Byte) /\ maxbytes \in 0..Len(buf) /\ readbytes = at
      /\ Len(buf) \in Nat
  BY LenProperties DEF IInv, WriteInv, Places, PlaceInv
<1>2. Whole(b, buf)
  BY <1>1 DEF WrittenInv, Whole
<1>3. /\ Acceptable(buf, maxbytes) /\ at = Starts(buf, maxbytes)[size] /\ at > 0 /\ k = size + 1
      /\ size = Header(buf).size /\ keyscards = Header(buf).keyscards
  BY DEF SizeInv, Headed
<1>4. /\ size = Len(b) /\ Len(b) \in Nat
  BY <1>2, <1>3, WholeHeader, WholeLength
<1>5. at = ra_portable_deserialize_size(buf, maxbytes)
  BY <1>1, <1>3, SizeIs
<1>6. maxbytes >= Len(buf) /\ readbytes = Len(buf)
  BY <1>1, <1>2, <1>3, <1>5, WholeIsFound
<1>7. /\ keys = [i \in 1..size |-> GetU16(buf, keyscards + 4 * (i - 1))]
      /\ Len(answer) = k - 1
      /\ \A i \in 1..k - 1 : answer[i] = Taken(i)
  BY DEF TakenInv
<1>8. k - 1 = Len(b)
  BY <1>3, <1>4
<1>9. ASSUME NEW i \in 1..Len(b)
      PROVE  keys[i] = b[i].key /\ SameContainer(b[i], answer[i])
  <2>1. keys[i] = b[i].key
    BY <1>2, <1>3, <1>4, <1>7, WholeCard
  <2> DEFINE p == Place(b, i - 1)
             z == Sizes(b)[i]
             skip == Skipped(b[i].kind)
  <2>2. /\ p \in Nat /\ z \in Nat /\ Place(b, i) = p + z /\ Place(b, i) <= Len(buf)
        /\ (Place(b, i) <= maxbytes => SizeAt(buf, maxbytes, i - 1, p) = z)
    BY <1>1, <1>2, WholeSize
  <2>3. p <= maxbytes /\ SizeAt(buf, maxbytes, i - 1, p) = z
    <3> HIDE DEF p, z
    <3> QED
      BY <1>1, <1>6, <2>2
  <2>4. Starts(buf, maxbytes)[i - 1] = p
    <3>1. i - 1 \in 0..Len(b)
      BY <1>4
    <3>2. Starts(buf, maxbytes)[i - 1] = IF p <= maxbytes THEN p ELSE 0
      BY <1>1, <1>2, <1>3, <3>1, WholeStarts
    <3> QED
      BY <2>3, <3>2
  <2>5. /\ CardAt(buf, Header(buf).keyscards, i - 1) = b[i].card
        /\ KindAt(buf, Header(buf), i - 1) = b[i].kind
    BY <1>2, WholeCard
  <2>6. Bytes(buf, p + skip, z - skip) = b[i].data
    BY <1>2, WholeData
  <2> HIDE DEF p, z, skip
  <2>7. answer[i] = Taken(i)
    BY <1>7, <1>8
  <2>8. Taken(i) = [kind |-> b[i].kind, card |-> b[i].card,
                    data |-> Bytes(buf, p + skip, z - skip)]
    BY <2>3, <2>4, <2>5 DEF Taken, skip
  <2>9. SameContainer(b[i], answer[i])
    BY <2>6, <2>7, <2>8 DEF SameContainer
  <2> QED
    BY <2>1, <2>9
<1>10. DOMAIN b = 1..Len(b)
  BY <1>1, BitmapsAssumption, LenProperties
<1> QED
  BY <1>4, <1>6, <1>7, <1>8, <1>9, <1>10

\* The size announced is the size written.
LEMMA WhatIsAnnounced ==
    ASSUME IInv, WrittenInv, pc = "written"
    PROVE  Len(buf) = ra_portable_size_in_bytes(b)
<1>1. b \in Bitmaps /\ Len(buf) = Place(b, Len(b))
  BY DEF IInv, WriteInv, WrittenInv, Complete
<1>2. ra_portable_size_in_bytes(b) = ra_portable_header_size(b) + SumUpTo(Sizes(b), Len(Sizes(b)))
  BY DEF ra_portable_size_in_bytes, Total, Sizes
<1>3. Len(Sizes(b)) = Len(b)
  BY <1>1, SizesAre
<1> QED
  BY <1>1, <1>2, <1>3 DEF Place

\* The invariants together are more than RoundTrips.
LEMMA RoundTripsHold ==
    ASSUME IInv, SizeInv, TakenInv, WrittenInv PROVE RoundTrips
<1>1. input \in Seq(Byte) /\ maxbytes \in 0..Len(input) /\ maxbytes \in Nat
  BY Given
<1>2. pc = "done" => ra_portable_deserialize_size(input, maxbytes) = readbytes
  <2>1. SUFFICES ASSUME pc = "done" PROVE ra_portable_deserialize_size(input, maxbytes) = readbytes
    OBVIOUS
  <2>2. /\ Acceptable(input, maxbytes) /\ at = Starts(input, maxbytes)[size]
        /\ size = Header(input).size
    BY <2>1 DEF SizeInv, Headed
  <2>3. readbytes = at
    BY <2>1 DEF IInv, PlaceInv
  <2> QED
    BY <1>1, <2>2, <2>3, SizeIs
<1>3. pc = "failed" /\ ~refused => ra_portable_deserialize_size(input, maxbytes) = 0
  BY DEF SizeInv
<1>4. pc = "failed" /\ input = buf /\ ~refused => maxbytes < Len(buf)
  <2>1. SUFFICES ASSUME pc = "failed", input = buf, ~refused PROVE maxbytes < Len(buf)
    OBVIOUS
  <2>2. Whole(b, buf)
    BY <2>1 DEF WrittenInv, Whole, IInv, WriteInv
  <2>3. ra_portable_deserialize_size(buf, maxbytes) = 0
    BY <1>3, <2>1
  <2>4. /\ Len(buf) >= 4 /\ Len(buf) \in Nat
        /\ ra_portable_deserialize_size(buf, maxbytes)
              = IF maxbytes >= Len(buf) THEN Len(buf) ELSE 0
    BY <1>1, <2>1, <2>2, WholeIsFound, WholeLength
  <2> QED
    BY <1>1, <2>3, <2>4
<1> QED
  BY <1>2, <1>3, <1>4, WhatIsRead, WhatIsAnnounced DEF RoundTrips

\* RoundTrips of every run, of whatever bitmaps and bytes and wherever they are cut off: what
\* ra_portable_serialize has written, roaring_bitmap_portable_deserialize_safe reads back with
\* the keys, kinds, cardinalities and bytes it had, if and only if all of it is there (and the
\* allocations succeed); ra_portable_size_in_bytes has announced how long it is, and
\* ra_portable_deserialize_size says of any bytes whether they will be read and how many.
THEOREM WrittenIsReadBack == Spec => []RoundTrips
<1> DEFINE Inv == IInv /\ SizeInv /\ TakenInv /\ WrittenInv
<1>1. Init => Inv
  BY InitIInv, InitSizeInv, InitTakenInv, InitWrittenInv
<1>2. Inv /\ [Next]_vars => Inv'
  BY NextIInv, NextRead, NextWritten
<1>3. Inv => RoundTrips
  BY RoundTripsHold
<1> QED
  BY <1>1, <1>2, <1>3, PTL DEF Spec
================================================================================
