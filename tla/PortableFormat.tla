---------------------------- MODULE PortableFormat ----------------------------
(* The portable writer (ra_portable_serialize) and the reader with a limit                 *)
(* (roaring_bitmap_portable_deserialize_safe), field by field. A reader is given what a     *)
(* writer has written, or by mistake something else, and either cut off anywhere; every    *)
(* allocation of the reader may fail.                                                      *)
EXTENDS SerialFormats

CONSTANTS Bitmaps,    \* the bitmaps that are written
          Foreign     \* other bytes a reader may be given

ASSUME BitmapsAssumption ==
    /\ \A r \in Bitmaps : r \in Seq(Slot) /\ Len(r) <= MaxContainers
    /\ \A bytes \in Foreign : bytes \in Seq(Byte)

\* A container has the kind its cardinality calls for, and as many bytes as both say. (The
\* bitsets of few values that add_offset leaves, roaring.c:2288, would be read as arrays.)
ASSUME SlotsAssumption ==
    \A r \in Bitmaps : \A i \in DOMAIN r :
        /\ r[i].kind = "bitset" => r[i].card > MaxArray /\ Len(r[i].data) = BitsetBytes
        /\ r[i].kind = "array" => r[i].card <= MaxArray /\ Len(r[i].data) = 2 * r[i].card
        /\ r[i].kind = "run" => Len(r[i].data) = 4 * Runs(r[i]) /\ Runs(r[i]) < 65536

VARIABLES
    b,           \* ra of the writer
    buf,         \* what is written
    startOffset, \* the offset the next container will have
    pc,          \* where writer or reader are
    k,           \* the slot a loop is at
    input,       \* buf of the reader, and at: how far its pointer has moved
    maxbytes, readbytes,
    at,
    touched,     \* the end of what was read so far
    size, hasrun, keyscards,
    n_runs,
    keys,        \* answer->keys
    answer,      \* the containers read: answer->size is their number
    heap,        \* what is allocated
    wild,        \* something was freed that was not allocated
    refused      \* an allocation failed

written == <<b, buf, startOffset>>
header == <<size, hasrun, keyscards>>
vars == <<written, input, pc, k, maxbytes, readbytes, at, touched, header, n_runs, keys, answer,
          heap, wild, refused>>

Bitmap == <<"bitmap", 0>>
Array == <<"array", 0>>
Container(i) == <<"container", i>>

Init ==
    /\ b \in Bitmaps /\ buf = <<>> /\ startOffset = 0
    /\ pc = "header" /\ k = 1
    /\ input = <<>> /\ maxbytes = 0 /\ readbytes = 0 /\ at = 0 /\ touched = 0
    /\ size = 0 /\ hasrun = FALSE /\ keyscards = 0 /\ n_runs = 0
    /\ keys = <<>> /\ answer = <<>>
    /\ heap = {} /\ wild = FALSE /\ refused = FALSE
-------------------------------------------------------------------------------
(* ra_portable_serialize *)

Reading == <<input, maxbytes, readbytes, at, touched, header, n_runs, keys, answer, heap, wild, refused>>
WithOffsets == (~HasRun(b)) \/ Len(b) >= NO_OFFSET_THRESHOLD
\* The loop at hand goes on, or the next one begins.
Loop(next) == IF k < Len(b) THEN pc' = pc /\ k' = k + 1 ELSE pc' = next /\ k' = 1

\* Where the first container will be, from the start of the buffer.
\* Variant: the flags are forgotten.
FirstOffsetNoFlags ==
    IF HasRun(b) THEN 4 + (IF WithOffsets THEN 8 ELSE 4) * Len(b) ELSE 4 + 4 + 8 * Len(b)
FirstOffset ==
    IF HasRun(b) THEN 4 + (IF WithOffsets THEN 8 ELSE 4) * Len(b) + FlagBytes(Len(b))
    ELSE 4 + 4 + 8 * Len(b)

WriteHeader ==
    /\ pc = "header"
    /\ buf' = IF HasRun(b) THEN U32(SERIAL_COOKIE + 65536 * (Len(b) - 1)) \o RunFlags(b)
              ELSE U32(SERIAL_COOKIE_NO_RUNCONTAINER) \o U32(Len(b))
    /\ startOffset' = FirstOffset
    /\ pc' = IF Len(b) = 0 THEN "written" ELSE "descriptions"
    /\ k' = 1
    /\ UNCHANGED <<b, Reading>>

WriteDescription ==
    /\ pc = "descriptions"
    /\ buf' = buf \o U16(b[k].key) \o U16(b[k].card - 1)
    /\ Loop(IF WithOffsets THEN "offsets" ELSE "containers")
    /\ UNCHANGED <<b, startOffset, Reading>>

WriteOffset ==
    /\ pc = "offsets"
    /\ buf' = buf \o U32(startOffset)
    /\ startOffset' = startOffset + container_size_in_bytes(b[k])
    /\ Loop("containers")
    /\ UNCHANGED <<b, Reading>>

WriteContainer ==
    /\ pc = "containers"
    /\ buf' = buf \o container_write(b[k])
    /\ Loop("written")
    /\ UNCHANGED <<b, startOffset, Reading>>
-------------------------------------------------------------------------------
(* ra_portable_deserialize, and its caller, which allocates the bitmap and frees it when    *)
(* nothing was read. The pc of the reader is the field it is about to read.                *)

Cookie == GetU32(input, 0)
Card == CardAt(input, keyscards, k - 1)
KindHere == KindOf(hasrun /\ Flagged(input, 4, k - 1), Card)
AtContainers == pc = "read_container" /\ k <= size

\* Variant: the runs are not checked for.
RunBytesNone == 0
RunBytes == 4 * n_runs
\* How many bytes are checked for before the field is read.
Needed ==
    CASE pc \in {"read_cookie", "read_size"} -> 4
      [] pc = "read_flags" -> FlagBytes(size)
      [] pc \in {"read_keys", "read_offsets"} -> 4 * size
      [] pc = "read_runs" -> RunBytes
      [] OTHER -> CASE KindHere = "bitset" -> BitsetBytes
                    [] KindHere = "run" -> 2
                    [] KindHere = "array" -> 2 * Card

AtField == pc \in {"read_cookie", "read_size", "read_flags", "read_keys", "read_offsets",
                   "read_runs"} \/ AtContainers
Enough == readbytes + Needed <= maxbytes
Count == readbytes' = readbytes + Needed
\* Memory up to p is read.
Touch(p) == touched' = IF p > touched THEN p ELSE touched
\* To tell how many bytes a container has, its description is read.
TouchDescription == Touch(keyscards + 4 * k)

\* ra_clear: the containers that are counted, and the arrays, if there are any.
Cleared == {Container(i) : i \in DOMAIN answer} \cup (IF size = 0 THEN {} ELSE {Array})
Give(up) == /\ pc' = "failed"
            /\ heap' = heap \ (up \cup {Bitmap})
            /\ wild' = (wild \/ ~(up \subseteq heap))
AfterKeys == pc \in {"read_offsets", "read_container", "read_runs"}

Open ==
    /\ pc = "written"
    /\ input' \in {buf} \cup Foreign
    /\ maxbytes' \in 0..Len(input')
    /\ pc' = "read_cookie" /\ heap' = {Bitmap}
    /\ UNCHANGED <<written, k, readbytes, at, touched, header, n_runs, keys, answer, wild, refused>>
OpenRefused ==
    /\ pc = "written"
    /\ pc' = "failed" /\ refused' = TRUE
    /\ UNCHANGED <<written, input, k, maxbytes, readbytes, at, touched, header, n_runs, keys, answer,
                   heap, wild>>

\* The bytes end before the field does.
RunOut ==
    /\ AtField /\ ~Enough
    /\ Count
    /\ IF AtContainers THEN TouchDescription ELSE UNCHANGED touched
    /\ Give(IF AfterKeys THEN Cleared ELSE {})
    /\ UNCHANGED <<written, input, k, maxbytes, at, header, n_runs, keys, answer, refused>>

ReadCookie ==
    /\ pc = "read_cookie" /\ Enough
    /\ Count /\ Touch(4) /\ at' = 4
    /\ \/ /\ (Cookie % 65536) = SERIAL_COOKIE
          /\ size' = (Cookie \div 65536) + 1
          /\ hasrun' = TRUE /\ pc' = "read_flags"
          /\ UNCHANGED <<heap, wild>>
       \/ /\ Cookie = SERIAL_COOKIE_NO_RUNCONTAINER
          /\ pc' = "read_size"
          /\ UNCHANGED <<size, hasrun, heap, wild>>
       \/ /\ (Cookie % 65536) # SERIAL_COOKIE /\ Cookie # SERIAL_COOKIE_NO_RUNCONTAINER
          /\ Give({})
          /\ UNCHANGED <<size, hasrun>>
    /\ UNCHANGED <<written, input, k, maxbytes, keyscards, n_runs, keys, answer, refused>>

ReadSize ==
    /\ pc = "read_size" /\ Enough
    /\ Count /\ Touch(8) /\ at' = 8
    /\ size' = GetU32(input, 4)
    /\ IF size' > MaxContainers THEN Give({}) ELSE pc' = "read_keys" /\ UNCHANGED <<heap, wild>>
    /\ UNCHANGED <<written, input, k, maxbytes, hasrun, keyscards, n_runs, keys, answer, refused>>

ReadFlags ==
    /\ pc = "read_flags" /\ Enough
    /\ Count /\ at' = at + FlagBytes(size)
    /\ pc' = "read_keys"
    /\ UNCHANGED <<written, input, k, maxbytes, touched, header, n_runs, keys, answer, heap, wild, refused>>

\* Variant: off by one.
OffsetsFollowOnlyMany == (~hasrun) \/ size > NO_OFFSET_THRESHOLD
OffsetsFollow == (~hasrun) \/ size >= NO_OFFSET_THRESHOLD

\* ra_init_with_capacity: without a slot nothing is allocated.
ReadKeys ==
    /\ pc = "read_keys" /\ Enough
    /\ Count /\ at' = at + 4 * size
    /\ keyscards' = at
    /\ \/ /\ heap' = heap \cup (IF size = 0 THEN {} ELSE {Array})
          /\ keys' = [i \in 1..size |-> GetU16(input, at + 4 * (i - 1))]
          /\ Touch(at + 4 * size)
          /\ pc' = IF OffsetsFollow THEN "read_offsets" ELSE "read_container"
          /\ UNCHANGED <<wild, refused>>
       \/ /\ size > 0
          /\ Give({}) /\ refused' = TRUE
          /\ UNCHANGED <<touched, keys>>
    /\ k' = 1
    /\ UNCHANGED <<written, input, maxbytes, size, hasrun, n_runs, answer>>

SkipOffsets ==
    /\ pc = "read_offsets" /\ Enough
    /\ Count /\ at' = at + 4 * size
    /\ pc' = "read_container"
    /\ UNCHANGED <<written, input, k, maxbytes, touched, header, n_runs, keys, answer, heap, wild, refused>>

\* Container k is allocated, counted and filled with n bytes found at p. (That a run container
\* has to grow for it is not told apart: run_container_read takes that to succeed.)
Built(kind, p, n) ==
    /\ heap' = heap \cup {Container(k)}
    /\ answer' = Append(answer, [kind |-> kind, card |-> Card, data |-> Bytes(input, p, n)])
    /\ at' = p + n /\ Touch(p + n)
    /\ k' = k + 1 /\ pc' = "read_container"
    /\ UNCHANGED <<wild, refused>>
\* It cannot be allocated.
\* Variant: it is counted nevertheless.
UnbuiltCounted ==
    /\ Give(Cleared \cup {Container(k)}) /\ refused' = TRUE
    /\ UNCHANGED <<at, touched, k, answer>>
Unbuilt ==
    /\ Give(Cleared) /\ refused' = TRUE
    /\ UNCHANGED <<at, touched, k, answer>>

ReadBitsetOrArray ==
    /\ AtContainers /\ Enough /\ KindHere # "run"
    /\ Count
    /\ Built(KindHere, at, Needed) \/ Unbuilt
    /\ UNCHANGED <<written, input, maxbytes, header, n_runs, keys>>

ReadRunCount ==
    /\ AtContainers /\ Enough /\ KindHere = "run"
    /\ Count
    /\ n_runs' = GetU16(input, at) /\ Touch(at + 2)
    /\ pc' = "read_runs"
    /\ UNCHANGED <<written, input, k, maxbytes, at, header, keys, answer, heap, wild, refused>>

ReadRuns ==
    /\ pc = "read_runs" /\ Enough
    /\ Count
    /\ Built("run", at + 2, 4 * n_runs) \/ Unbuilt
    /\ UNCHANGED <<written, input, maxbytes, header, n_runs, keys>>

Finish ==
    /\ pc = "read_container" /\ k > size
    /\ pc' = "done"
    /\ UNCHANGED <<written, input, k, maxbytes, readbytes, at, touched, header, n_runs, keys, answer,
                   heap, wild, refused>>

\* The call has returned.
Ended == pc \in {"done", "failed"} /\ UNCHANGED vars

Next ==
    \/ WriteHeader \/ WriteDescription \/ WriteOffset \/ WriteContainer
    \/ Open \/ OpenRefused \/ RunOut
    \/ ReadCookie \/ ReadSize \/ ReadFlags \/ ReadKeys \/ SkipOffsets
    \/ ReadBitsetOrArray \/ ReadRunCount \/ ReadRuns \/ Finish
    \/ Ended

Spec == Init /\ [][Next]_vars
-------------------------------------------------------------------------------
(* Properties *)

\* ra_portable_deserialize never reads a byte beyond maxbytes, wherever the buffer is cut off
\* ("reading up to maxbytes bytes", roaring_array.c:694), and when it succeeds *readbytes,
\* which it counts apart from its pointer, is how far the pointer has come.
ReadsInBounds ==
    /\ touched <= maxbytes
    /\ pc = "done" => readbytes = at /\ readbytes <= maxbytes

\* A read that fails, for lack of bytes or of memory and at whatever container, has freed the
\* containers made so far, the arrays and the bitmap, and nothing else. One that succeeds has
\* kept as many containers as the header counts.
CleanedUp ==
    /\ ~wild
    /\ pc = "failed" => heap = {}
    /\ pc = "done" => heap = {Bitmap} \cup (IF size = 0 THEN {} ELSE {Array})
                             \cup {Container(i) : i \in 1..size}

\* A reader takes the kinds of containers from flags and cardinalities, and their lengths
\* from those. It gets the bitmap that was written, if all of its bytes are there; and if
\* they are not, it fails. ra_portable_size_in_bytes has announced where it ends, and
\* ra_portable_deserialize_size says of any bytes what the reader will make of them: "0 if and
\* only if no valid bitmap is found. Otherwise, how many bytes are occupied".
SameContainer(s, c) == c.kind = s.kind /\ c.data = s.data /\ (s.kind = "run" \/ c.card = s.card)
RoundTrips ==
    /\ pc = "written" => Len(buf) = ra_portable_size_in_bytes(b)
    /\ pc = "done" /\ input = buf =>
           /\ maxbytes >= Len(buf) /\ readbytes = Len(buf)
           /\ Len(answer) = Len(b)
           /\ \A i \in DOMAIN b : keys[i] = b[i].key /\ SameContainer(b[i], answer[i])
    /\ pc = "failed" /\ input = buf /\ ~refused => maxbytes < Len(buf)
    /\ pc = "done" => ra_portable_deserialize_size(input, maxbytes) = readbytes
    /\ pc = "failed" /\ ~refused => ra_portable_deserialize_size(input, maxbytes) = 0

\* The readers that leave the containers in the buffer find them: by the offsets written in
\* the header, which the other reader skips, or one behind the other; and in the zones of the
\* frozen layout. The layout of roaring_bitmap_serialize has the values of the bitmap in it,
\* whichever of the two forms is shorter. Each size is what was announced.
SameBitmap(c, d) ==
    /\ DOMAIN c = DOMAIN d
    /\ \A i \in DOMAIN c : c[i].key = d[i].key /\ SameContainer(c[i], d[i])
ViewsExact == pc = "written" =>
    LET frozen == roaring_bitmap_frozen_serialize(b)
        native == roaring_bitmap_serialize(b, buf)
    IN  /\ \E view \in roaring_bitmap_portable_deserialize_frozen(buf) : SameBitmap(b, view)
        /\ Len(frozen) = roaring_bitmap_frozen_size_in_bytes(b)
        /\ \E view \in roaring_bitmap_frozen_view(frozen) : SameBitmap(b, view)
        /\ Len(native) = roaring_bitmap_size_in_bytes(b)
        /\ native[1] = CROARING_SERIALIZATION_ARRAY_UINT32 => ValuesRead(native) = Values(b)
        /\ native[1] = CROARING_SERIALIZATION_CONTAINER => Tail(native) = buf
===============================================================================
