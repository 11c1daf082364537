---------------------------- MODULE SerialFormats ----------------------------
(* The byte layouts a bitmap is written in, as operators: how long they are, and what      *)
(* their readers take from them. A bitmap is a sequence of slots; a slot has its key, the  *)
(* kind of its container, the cardinality and the memory of the container as bytes. A      *)
(* wrapper is looked through (the portable writers do so; the frozen ones have no case for *)
(* it and are not to be called for a bitmap that has one).                                 *)
(* PortableFormat has the portable writer and reader step by step.                         *)
EXTENDS Integers, Sequences, SequencesExt

CONSTANTS MaxArray,     \* DEFAULT_MAX_SIZE
          BitsetBytes   \* BITSET_CONTAINER_SIZE_IN_WORDS * sizeof(uint64_t)

ASSUME FormatAssumption == MaxArray \in Nat \ {0} /\ BitsetBytes \in Nat \ {0}

SERIAL_COOKIE == 12347
SERIAL_COOKIE_NO_RUNCONTAINER == 12346
FROZEN_COOKIE == 13766
NO_OFFSET_THRESHOLD == 4
MaxContainers == 65536

Below(n) == {i \in Nat : i < n}
Byte == Below(256)
Kind == {"bitset", "array", "run"}
Slot == [key : Below(65536), kind : Kind, card : Below(65537) \ {0}, data : Seq(Byte)]

(* Little-endian numbers in a buffer; a position is the number of bytes before it. *)
U16(n) == <<n % 256, (n \div 256) % 256>>
U32(n) == U16(n) \o U16(n \div 65536)
GetU16(buf, p) == buf[p + 1] + 256 * buf[p + 2]
GetU32(buf, p) == GetU16(buf, p) + 65536 * GetU16(buf, p + 2)
\* n bytes; what is not in the buffer is shown as no bytes.
Bytes(buf, p, n) == IF p + n <= Len(buf) THEN SubSeq(buf, p + 1, p + n) ELSE <<>>

Runs(s) == Len(s.data) \div 4
FlagBytes(n) == (n + 7) \div 8
HasRun(b) == \E i \in DOMAIN b : b[i].kind = "run"

container_size_in_bytes(s) ==
    CASE s.kind = "bitset" -> BitsetBytes
      [] s.kind = "array" -> 2 * s.card
      [] s.kind = "run" -> 2 + 4 * Runs(s)
container_write(s) == IF s.kind = "run" THEN U16(Runs(s)) \o s.data ELSE s.data

\* The sum of the first n numbers of a sequence.
SumUpTo(s, n) == FoldLeft(+, 0, SubSeq(s, 1, n))
Total(s) == SumUpTo(s, Len(s))
-------------------------------------------------------------------------------
(* The portable layout *)

ra_portable_header_size(b) ==
    IF HasRun(b) THEN IF Len(b) < NO_OFFSET_THRESHOLD
                      THEN 4 + FlagBytes(Len(b)) + 4 * Len(b)
                      ELSE 4 + FlagBytes(Len(b)) + 8 * Len(b)
    ELSE 4 + 4 + 8 * Len(b)

ra_portable_size_in_bytes(b) ==
    ra_portable_header_size(b) + Total([i \in DOMAIN b |-> container_size_in_bytes(b[i])])

\* Bit i of the run flags, of slots counted from 0.
FlagOf(b, i) == IF i < Len(b) /\ b[i + 1].kind = "run" THEN 1 ELSE 0
FlagByte(b, j) ==
    FlagOf(b, 8 * j) + 2 * FlagOf(b, 8 * j + 1) + 4 * FlagOf(b, 8 * j + 2)
    + 8 * FlagOf(b, 8 * j + 3) + 16 * FlagOf(b, 8 * j + 4) + 32 * FlagOf(b, 8 * j + 5)
    + 64 * FlagOf(b, 8 * j + 6) + 128 * FlagOf(b, 8 * j + 7)
RunFlags(b) == [j \in 1..FlagBytes(Len(b)) |-> FlagByte(b, j - 1)]
\* Is the flag of slot i (from 0) set in the flags that begin at p?
Flagged(buf, p, i) == ((buf[p + (i \div 8) + 1] \div 2^(i % 8)) % 2) = 1

\* The kind a reader takes a container for: the flag, else the cardinality.
KindOf(flagged, card) ==
    IF flagged THEN "run" ELSE IF card > MaxArray THEN "bitset" ELSE "array"

HasCookie(buf) ==
    GetU32(buf, 0) % 65536 = SERIAL_COOKIE \/ GetU32(buf, 0) = SERIAL_COOKIE_NO_RUNCONTAINER
\* What the header says: of how many containers, with or without flags; where the
\* descriptions (key and cardinality) and the containers begin.
Header(buf) ==
    LET cookie == GetU32(buf, 0)
        hasrun == (cookie % 65536) = SERIAL_COOKIE
        size == IF hasrun THEN (cookie \div 65536) + 1 ELSE GetU32(buf, 4)
        keyscards == IF hasrun THEN 4 + FlagBytes(size) ELSE 8
        offsets == (~hasrun) \/ size >= NO_OFFSET_THRESHOLD
    IN  [hasrun |-> hasrun, size |-> size, keyscards |-> keyscards, offsets |-> offsets,
         containers |-> keyscards + (IF offsets THEN 8 ELSE 4) * size]
CardAt(buf, keyscards, i) == GetU16(buf, keyscards + 4 * i + 2) + 1
KindAt(buf, h, i) ==
    KindOf(h.hasrun /\ Flagged(buf, 4, i), CardAt(buf, h.keyscards, i))

\* How many bytes a bitmap occupies, 0 when there is none or it does not end before maxbytes.
\* (A size that is negative as an int32_t gives 0 too, by way of bytestotal.)
ra_portable_deserialize_size(buf, maxbytes) ==
    LET h == Header(buf)
        Size(i, at) == CASE KindAt(buf, h, i) = "bitset" -> BitsetBytes
                         [] KindAt(buf, h, i) = "run" ->
                                2 + IF at + 2 > maxbytes THEN 0 ELSE 4 * GetU16(buf, at)
                         [] OTHER -> 2 * CardAt(buf, h.keyscards, i)
        \* Where container i begins, and 0 when an earlier one goes beyond maxbytes.
        Start[i \in 0..h.size] ==
            IF i = 0 THEN h.containers
            ELSE LET at == Start[i - 1]
                     end == at + Size(i - 1, at)
                 IN  IF at = 0 \/ end > maxbytes THEN 0 ELSE end
    IN  IF maxbytes < 4 THEN 0
        ELSE IF ~HasCookie(buf) \/ ((~h.hasrun) /\ maxbytes < 8) THEN 0
        ELSE IF h.size > MaxContainers \/ h.containers > maxbytes THEN 0
        ELSE Start[h.size]

\* roaring_bitmap_portable_deserialize_frozen: the containers stay in the buffer, and are
\* found by their offsets or, without offsets, one behind the other. As it may refuse
\* what it is given, what it returns is shown as a set of one bitmap or none.
roaring_bitmap_portable_deserialize_frozen(buf) ==
    LET h == Header(buf)
        Length(i, at) == CASE KindAt(buf, h, i) = "bitset" -> BitsetBytes
                           [] KindAt(buf, h, i) = "run" -> 2 + 4 * GetU16(buf, at)
                           [] OTHER -> 2 * CardAt(buf, h.keyscards, i)
        Next[i \in 0..h.size] ==
            IF i = 0 THEN h.containers ELSE Next[i - 1] + Length(i - 1, Next[i - 1])
        At(i) == IF h.offsets THEN GetU32(buf, h.keyscards + 4 * h.size + 4 * i) ELSE Next[i]
        SlotAt(i) ==
            LET kind == KindAt(buf, h, i)
                skip == IF kind = "run" THEN 2 ELSE 0
            IN  [key |-> GetU16(buf, h.keyscards + 4 * i), kind |-> kind,
                 card |-> CardAt(buf, h.keyscards, i),
                 data |-> Bytes(buf, At(i) + skip, Length(i, At(i)) - skip)]
    IN  IF HasCookie(buf) THEN {[j \in 1..h.size |-> SlotAt(j - 1)]} ELSE {}
-------------------------------------------------------------------------------
(* The frozen layout: zones of the memory of containers of one kind, then keys, counts and  *)
(* type codes, then the header.                                                            *)

TypeCode(kind) == CASE kind = "bitset" -> 1 [] kind = "array" -> 2 [] kind = "run" -> 3
KindOfCode(c) == CASE c = 1 -> "bitset" [] c = 2 -> "array" [] c = 3 -> "run"
CountOf(s) == IF s.kind = "run" THEN Runs(s) ELSE s.card - 1

roaring_bitmap_frozen_size_in_bytes(b) ==
    Total([i \in DOMAIN b |-> Len(b[i].data)]) + 5 * Len(b) + 4

roaring_bitmap_frozen_serialize(b) ==
    LET Zone(kind) == FlattenSeq([i \in DOMAIN b |-> IF b[i].kind = kind THEN b[i].data ELSE <<>>])
    IN  Zone("bitset") \o Zone("run") \o Zone("array")
        \o FlattenSeq([i \in DOMAIN b |-> U16(b[i].key)])
        \o FlattenSeq([i \in DOMAIN b |-> U16(CountOf(b[i]))])
        \o [i \in DOMAIN b |-> TypeCode(b[i].kind)]
        \o U32(Len(b) * 32768 + FROZEN_COOKIE)

\* A set of one bitmap or, when it is refused, none. (It is also refused when its address is no
\* multiple of 32.)
roaring_bitmap_frozen_view(buf) ==
    LET length == Len(buf)
        header == GetU32(buf, length - 4)
        n == header \div 32768
        Count(j) == GetU16(buf, length - 4 - 3 * n + 2 * (j - 1))
        Code(j) == buf[length - 4 - n + j]
        kinds == [j \in 1..n |-> KindOfCode(Code(j))]
        size == [j \in 1..n |-> CASE kinds[j] = "bitset" -> BitsetBytes
                                  [] kinds[j] = "run" -> 4 * Count(j)
                                  [] kinds[j] = "array" -> 2 * (Count(j) + 1)]
        Zone(kind) == [j \in 1..n |-> IF kinds[j] = kind THEN size[j] ELSE 0]
        Base(kind) == CASE kind = "bitset" -> 0
                        [] kind = "run" -> Total(Zone("bitset"))
                        [] kind = "array" -> Total(Zone("bitset")) + Total(Zone("run"))
    IN  IF \/ length < 4
           \/ (header % 32768) # FROZEN_COOKIE
           \/ length < 4 + 5 * n \/ \E j \in 1..n : Code(j) \notin 1..3
           \/ length # Total(size) + 5 * n + 4
        THEN {}
        ELSE {[j \in 1..n |->
                 [key |-> GetU16(buf, length - 4 - 5 * n + 2 * (j - 1)), kind |-> kinds[j],
                  card |-> Count(j) + 1,
                  data |-> Bytes(buf, Base(kinds[j]) + SumUpTo(Zone(kinds[j]), j - 1), size[j])]]}
-------------------------------------------------------------------------------
(* The layout of roaring_bitmap_serialize: the portable one, or all values one by one *)

CROARING_SERIALIZATION_ARRAY_UINT32 == 1
CROARING_SERIALIZATION_CONTAINER == 2

\* The low halves of the values in a container.
Lows(s) ==
    CASE s.kind = "array" -> {GetU16(s.data, 2 * i) : i \in 0..s.card - 1}
      [] s.kind = "run" -> UNION {GetU16(s.data, 4 * i) ..
                                      GetU16(s.data, 4 * i) + GetU16(s.data, 4 * i + 2)
                                  : i \in 0..Runs(s) - 1}
      [] s.kind = "bitset" -> {v \in 0..8 * BitsetBytes - 1 :
                                  ((s.data[v \div 8 + 1] \div 2^(v % 8)) % 2) = 1}
Values(b) == UNION {{65536 * b[i].key + v : v \in Lows(b[i])} : i \in DOMAIN b}
Ascending(s) ==
    LET values == {65536 * s.key + v : v \in Lows(s)}
    IN  [j \in 1..s.card |-> CHOOSE v \in values : Cardinality({u \in values : u < v}) = j - 1]

roaring_bitmap_serialize(b, portable) ==
    LET cardinality == Total([i \in DOMAIN b |-> b[i].card])
        values == FlattenSeq([i \in DOMAIN b |-> Ascending(b[i])])
    IN  IF ra_portable_size_in_bytes(b) < 4 * cardinality + 4
        THEN <<CROARING_SERIALIZATION_CONTAINER>> \o portable
        ELSE <<CROARING_SERIALIZATION_ARRAY_UINT32>> \o U32(cardinality)
             \o FlattenSeq([i \in DOMAIN values |-> U32(values[i])])

roaring_bitmap_size_in_bytes(b) ==
    LET portable == ra_portable_size_in_bytes(b)
        asarray == 4 * Total([i \in DOMAIN b |-> b[i].card]) + 4
    IN  1 + (IF portable < asarray THEN portable ELSE asarray)

\* What roaring_bitmap_deserialize adds one by one, when it finds no portable layout.
ValuesRead(buf) == {GetU32(buf, 5 + 4 * i) : i \in 0..GetU32(buf, 1) - 1}
===============================================================================
