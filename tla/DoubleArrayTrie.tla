--------------------------- MODULE DoubleArrayTrie ---------------------------
(* The trie of the prefix matcher, class da (matcher/trie/cedar.h).  A node is *)
(* a cell of one array.  The child of a node for a label is the cell base ^    *)
(* label, if the check of that cell is the node; label 0 leads to the cell     *)
(* that holds a key's value.  Cells come in blocks.  Each block links its empty *)
(* cells in a ring, through base and check; blocks are in one of three lists:  *)
(* full, closed (one empty cell, or tried in vain) and open.                   *)
EXTENDS Integers, Sequences, FiniteSets, SequencesExt, FiniteSetsExt, Functions

CONSTANTS
    BlockSize,      \* cells of a block, and labels: 256, a power of 2
    MaxTrial,       \* MAX_TRIAL
    Keys,           \* sequences of labels
    Value,          \* the number that update is called with for each key
    NoValue,        \* NO_VALUE, -1
    Erasable,       \* bound: the keys that are erased
    MaxValue,       \* bound: the largest value of a key
    MaxBlocks       \* bound: the array does not grow beyond this

ASSUME TrieAssumption ==
    /\ BlockSize \in Nat \ {0, 1} /\ MaxTrial \in Nat \ {0} /\ NoValue = -1
    /\ Keys \subseteq Seq(1..(BlockSize - 1)) \ {<<>>}
    /\ Erasable \subseteq Keys
    /\ Value \in [Keys -> Nat] /\ MaxValue \in Nat /\ MaxBlocks \in Nat \ {0}

\* The fields of da: array, ninfo, block, reject, and head of the lists "F", "C" and
\* "O"; hasInfo and hasBlock: whether ninfo and block are allocated.
VARIABLES da,
          dict      \* what the caller has put in: the value of each key

Caller == INSTANCE Dictionary

NoPath == -2

\* e ^ label, which stays in e's block.
XorTable ==
    LET xor[a \in 0..(BlockSize - 1), b \in 0..(BlockSize - 1)] ==
            IF a + b = 0 THEN 0 ELSE 2 * xor[a \div 2, b \div 2] + ((a + b) % 2)
    IN  [a \in 0..(BlockSize - 1) |-> [b \in 0..(BlockSize - 1) |-> xor[a, b]]]
Xor(e, label) == BlockSize * (e \div BlockSize) + XorTable[e % BlockSize][label]
BlockOf(e) == e \div BlockSize
CellsOf(bi) == (bi * BlockSize)..((bi + 1) * BlockSize - 1)
Size(d) == Cardinality(DOMAIN d.array)
Blocks(d) == 0..(Size(d) \div BlockSize - 1)

NoInfo == [sibling |-> 0, child |-> 0]
NewBlock == [prev |-> 0, next |-> 0, num |-> BlockSize, reject |-> BlockSize + 1,
             trial |-> 0, ehead |-> 0]

\* The empty cells from low to high, linked in a ring.
Ring(low, high) ==
    [e \in low..high |-> [base |-> IF e = low THEN -high ELSE -(e - 1),
                          check |-> IF e = high THEN -low ELSE -(e + 1)]]
-------------------------------------------------------------------------------
\* The children of the node with that base, the first of which is first, in the
\* order of the sibling list.  Node 0 is its own child for label 0.
Children(d, base, first) ==
    LET rest[label \in 0..(BlockSize - 1), n \in 0..BlockSize] ==
            IF label = 0 \/ n = 0 THEN <<>>
            ELSE <<label>> \o rest[d.ninfo[Xor(base, label)].sibling, n - 1]
    IN  <<first>> \o rest[d.ninfo[Xor(base, first)].sibling, BlockSize - 1]
ChildrenOf(d, node) == Children(d, d.array[node].base, d.ninfo[node].child)

\* _push_sibling and _pop_sibling.  With flag FALSE, label is an only child.
PushSibling(d, from, base, label, flag) ==
    LET first == d.ninfo[from].child
        kids == Children(d, base, first)
        n == CHOOSE i \in DOMAIN kids :
                /\ i = Len(kids) \/ kids[i + 1] >= label
                /\ \A j \in 1..(i - 1) : kids[j + 1] < label
        next == d.ninfo[Xor(base, kids[n])].sibling
    IN  IF flag /\ label > first
        THEN [d EXCEPT !.ninfo[Xor(base, label)].sibling = next,
                       !.ninfo[Xor(base, kids[n])].sibling = label]
        ELSE [d EXCEPT !.ninfo[Xor(base, label)].sibling = first,
                       !.ninfo[from].child = label]
PopSibling(d, from, base, label) ==
    LET first == d.ninfo[from].child
        kids == Children(d, base, first)
        next == d.ninfo[Xor(base, label)].sibling
        before == CHOOSE i \in 1..(Len(kids) - 1) : kids[i + 1] = label
    IN  IF label = first THEN [d EXCEPT !.ninfo[from].child = next]
        ELSE [d EXCEPT !.ninfo[Xor(base, kids[before])].sibling = next]
-------------------------------------------------------------------------------
\* _pop_block, _push_block and _transfer_block.  Block 0 stays in no list, but it is
\* where the list of full blocks begins.
PopBlock(d, bi, in) ==
    LET b == d.block[bi]
    IN  IF b.next = bi THEN [d EXCEPT !.head[in] = 0]
        ELSE [d EXCEPT !.block[b.prev].next = b.next,
                       !.block[b.next].prev = b.prev,
                       !.head[in] = IF bi = @ THEN b.next ELSE @]
PushBlock(d, bi, out, empty) ==
    LET head == d.head[out]
        tail == d.block[head].prev
    IN  IF empty
        THEN [d EXCEPT !.block[bi].prev = bi, !.block[bi].next = bi, !.head[out] = bi]
        ELSE [d EXCEPT !.block[bi].prev = tail, !.block[bi].next = head,
                       !.block[tail].next = bi, !.block[head].prev = bi,
                       !.head[out] = bi]
Transfer(d, bi, in, out) ==
    LET popped == PopBlock(d, bi, in)
    IN  PushBlock(popped, bi, out, popped.head[out] = 0 /\ d.block[bi].num > 0)

\* _add_block.
AddBlock(d) ==
    LET low == Size(d)
        bi == Cardinality(Blocks(d))
        cells == low..(low + BlockSize - 1)
        grown == [d EXCEPT !.array = @ @@ Ring(low, low + BlockSize - 1),
                           !.ninfo = @ @@ [e \in cells |-> NoInfo],
                           !.block = @ @@ (bi :> [NewBlock EXCEPT !.ehead = low])]
    IN  PushBlock(grown, bi, "O", d.head["O"] = 0)
-------------------------------------------------------------------------------
\* _find_place for one cell, and for the cells of several labels: the ring of each
\* open block is tried, unless the block has too few empty cells or has failed
\* with as few labels before.
PlaceForOne(d) ==
    IF d.head["C"] # 0 THEN [da |-> d, cell |-> d.block[d.head["C"]].ehead]
    ELSE IF d.head["O"] # 0 THEN [da |-> d, cell |-> d.block[d.head["O"]].ehead]
    ELSE [da |-> AddBlock(d), cell |-> Size(d)]

EmptyRing(d, bi) ==
    LET from[e \in DOMAIN d.array, n \in 0..BlockSize] ==
            IF n = 0 \/ e = d.block[bi].ehead THEN <<>>
            ELSE <<e>> \o from[-d.array[e].check, n - 1]
        first == d.block[bi].ehead
    IN  <<first>> \o from[-d.array[first].check, BlockSize]
ListOf(d, list) ==
    LET head == d.head[list]
        after[bi \in Blocks(d), n \in 0..MaxBlocks] ==
            IF n = 0 \/ bi = head THEN <<>> ELSE <<bi>> \o after[d.block[bi].next, n - 1]
    IN  IF head = 0 THEN <<>> ELSE <<head>> \o after[d.block[head].next, MaxBlocks]

PlaceForAll(d, labels) ==
    LET nc == Len(labels)
        Fits(a, e) == \A i \in 2..nc : a.array[Xor(Xor(e, labels[1]), labels[i])].check < 0
        Try(s, bi) ==
            LET b == s.da.block[bi]
                fitting == IF b.num >= nc /\ nc < b.reject
                           THEN SelectSeq(EmptyRing(s.da, bi), LAMBDA e : Fits(s.da, e))
                           ELSE <<>>
                failed == [s.da EXCEPT !.block[bi].reject = nc,
                                       !.reject[b.num] = IF nc < @ THEN nc ELSE @,
                                       !.block[bi].trial = @ + 1]
            IN  IF s.cell >= 0 THEN s
                ELSE IF fitting # <<>>
                THEN [da |-> [s.da EXCEPT !.block[bi].ehead = fitting[1]], cell |-> fitting[1]]
                ELSE [da |-> IF b.trial + 1 = MaxTrial THEN Transfer(failed, bi, "O", "C")
                             ELSE failed,
                      cell |-> -1]
        tried == FoldLeft(Try, [da |-> d, cell |-> -1], ListOf(d, "O"))
    IN  IF tried.cell >= 0 THEN tried ELSE [da |-> AddBlock(tried.da), cell |-> Size(d)]
-------------------------------------------------------------------------------
\* _pop_enode: an empty cell becomes the child of from for label.  Block 0 is never
\* moved to another list.
\* Variant: the first empty cell is not moved on.
KeepsHead(d, e) ==
    LET n == d.array[e]
    IN  [d EXCEPT !.array[-n.base].check = n.check, !.array[-n.check].base = n.base]
Unlinked(d, e) ==
    LET n == d.array[e]
        bi == BlockOf(e)
    IN  [d EXCEPT !.array[-n.base].check = n.check,
                  !.array[-n.check].base = n.base,
                  !.block[bi].ehead = IF @ = e THEN -n.check ELSE @]
\* Variant: the block may be in the closed list already.
TakenTwice(d, e) ==
    LET bi == BlockOf(e)
        b == d.block[bi]
    IN  IF b.num = 0 THEN (IF bi = 0 THEN d ELSE Transfer(d, bi, "C", "F"))
        ELSE IF bi # 0 /\ b.num = 1 THEN Transfer(Unlinked(d, e), bi, "O", "C")
        ELSE Unlinked(d, e)
Taken(d, e) ==
    LET bi == BlockOf(e)
        b == d.block[bi]
    IN  IF b.num = 0 THEN (IF bi = 0 THEN d ELSE Transfer(d, bi, "C", "F"))
        ELSE IF bi # 0 /\ b.num = 1 /\ b.trial # MaxTrial
        THEN Transfer(Unlinked(d, e), bi, "O", "C")
        ELSE Unlinked(d, e)
\* Variant: a new value begins with what its cell held.
AsUsedBefore(d, e, label, from) ==
    [Taken([d EXCEPT !.block[BlockOf(e)].num = @ - 1], e) EXCEPT
        !.array[e].base = IF label = 0 THEN @ ELSE -1, !.array[e].check = from]
AsChild(d, e, label, from) ==
    [Taken([d EXCEPT !.block[BlockOf(e)].num = @ - 1], e) EXCEPT
        !.array[e] = [base |-> IF label = 0 THEN 0 ELSE -1, check |-> from]]
FirstChild(place, label, from) ==
    [da |-> [AsChild(place.da, place.cell, label, from) EXCEPT
                !.array[from].base = Xor(place.cell, label)],
     cell |-> place.cell]
PopEnode(d, base, label, from) ==
    IF base < 0 THEN FirstChild(PlaceForOne(d), label, from)
    ELSE [da |-> AsChild(d, Xor(base, label), label, from), cell |-> Xor(base, label)]

\* _push_enode: a cell becomes empty.
PushEnode(d, e) ==
    LET bi == BlockOf(e)
        num == d.block[bi].num + 1
        prev == d.block[bi].ehead
        next == -d.array[prev].check
        linked ==
            IF num = 1
            THEN [d EXCEPT !.block[bi].num = num, !.block[bi].ehead = e,
                           !.array[e] = [base |-> -e, check |-> -e]]
            ELSE [d EXCEPT !.block[bi].num = num,
                           !.array[e] = [base |-> -prev, check |-> -next],
                           !.array[prev].check = -e,
                           !.array[next].base = -e]
        listed ==
            IF bi = 0 THEN linked
            ELSE IF num = 1 THEN Transfer(linked, bi, "F", "C")
            ELSE IF num = 2 \/ d.block[bi].trial = MaxTrial THEN Transfer(linked, bi, "C", "O")
            ELSE linked
    IN  [listed EXCEPT !.block[bi].trial = IF num = 1 THEN @ ELSE 0,
                       !.block[bi].reject = IF @ < d.reject[num] THEN d.reject[num] ELSE @,
                       !.ninfo[e] = NoInfo]
-------------------------------------------------------------------------------
\* _consult: whether the node that is in the way has more children.
Consult(d, node, other) == Len(ChildrenOf(d, other)) > Len(ChildrenOf(d, node))

\* _set_child: the children of a node with one more.
WithLabel(kids, label) ==
    SelectSeq(kids, LAMBDA k : k < label) \o <<label>> \o SelectSeq(kids, LAMBDA k : k > label)

\* _resolve: base ^ label is a child of another node.  The children of the one of the
\* two that has fewer move to another place, and the children of those that move
\* are told.  from may be one of them.
\* Variant: the children of a node that moves are not told.
CarriedAlone(d, old, to) == [d EXCEPT !.ninfo[to].child = d.ninfo[old].child]
Carried(d, old, to) ==
    LET base == d.array[old].base
        kids == ToSet(ChildrenOf(d, old))
        below == {Xor(base, k) : k \in kids}
    IN  [d EXCEPT !.array = [e \in DOMAIN @ |-> IF e \in below THEN [@[e] EXCEPT !.check = to]
                                                ELSE @[e]],
                  !.ninfo[to].child = d.ninfo[old].child]
\* Variant: the first child of the node that moved stays behind.
VacatedInPart(d, from, old, label) ==
    [PushSibling(d, from, Xor(old, label), label, TRUE) EXCEPT
        !.array[old] = [base |-> IF label = 0 THEN 0 ELSE -1, check |-> from]]
Vacated(d, from, old, label) ==
    [PushSibling(d, from, Xor(old, label), label, TRUE) EXCEPT
        !.ninfo[old].child = 0,
        !.array[old] = [base |-> IF label = 0 THEN 0 ELSE -1, check |-> from]]
Resolve(d, from, base, label) ==
    LET wanted == Xor(base, label)
        other == d.array[wanted].check
        mine == Consult(d, from, other)
        node == IF mine THEN from ELSE other
        oldBase == d.array[node].base
        kids == IF mine THEN WithLabel(ChildrenOf(d, from), label) ELSE ChildrenOf(d, other)
        Start(place) ==
            [da |-> [place.da EXCEPT
                        !.ninfo[node].child = IF mine /\ kids[1] = label THEN label ELSE @,
                        !.array[node].base = Xor(place.cell, kids[1])],
             from |-> from]
        Copied(n, i, old) ==
            LET copy == [n.da EXCEPT !.array[n.cell].base = n.da.array[old].base]
            IN  IF kids[i] # 0 /\ n.da.array[old].base > 0 THEN Carried(copy, old, n.cell) ELSE copy
        Left(m, parent, old) ==
            [da |-> IF ~mine /\ old = wanted THEN Vacated(m, parent, old, label)
                    ELSE PushEnode(m, old),
             from |-> parent]
        Placed(n, i) ==
            [n EXCEPT !.da.ninfo[n.cell].sibling = IF i = Len(kids) THEN 0 ELSE kids[i + 1]]
        Settle(n, i, old, parent) ==
            IF mine /\ old = wanted THEN [da |-> n.da, from |-> parent]
            ELSE Left(Copied(n, i, old), IF ~mine /\ old = parent THEN n.cell ELSE parent, old)
        Move(s, i) ==
            Settle(Placed(PopEnode(s.da, s.da.array[node].base, kids[i], node), i),
                   i, Xor(oldBase, kids[i]), s.from)
        Finish(s) == [da |-> s.da,
                      cell |-> IF mine THEN Xor(s.da.array[node].base, label) ELSE wanted]
    IN  Finish(FoldLeft(Move,
                        Start(IF Len(kids) = 1 THEN PlaceForOne(d) ELSE PlaceForAll(d, kids)),
                        [i \in DOMAIN kids |-> i]))

\* _follow: the child of from for label, made if there is none.
Follow(d, from, label) ==
    LET base == d.array[from].base
        to == Xor(base, label)
        Linked(new) ==
            [new EXCEPT !.da = PushSibling(@, from, Xor(new.cell, label), label, base >= 0)]
    IN  IF base < 0 \/ d.array[to].check < 0 THEN Linked(PopEnode(d, base, label, from))
        ELSE IF d.array[to].check # from THEN Resolve(d, from, base, label)
        ELSE [da |-> d, cell |-> to]
-------------------------------------------------------------------------------
\* _find: the node of a word, if there is one, and the value of a key.
NodeOf(d, word) ==
    LET node[n \in 0..Len(word)] ==
            IF n = 0 THEN 0
            ELSE LET from == node[n - 1]
                     to == Xor(d.array[from].base, word[n])
                 IN  IF from # NoPath /\ d.array[to].check = from THEN to ELSE NoPath
    IN  node[Len(word)]
Find(d, word) ==
    LET node == NodeOf(d, word)
        leaf == Xor(d.array[node].base, 0)
    IN  IF node = NoPath THEN NoPath
        ELSE IF d.array[leaf].check # node THEN NoValue ELSE d.array[leaf].base

\* commonPrefixSearch, and the longest of the prefixes it finds (PrefixSearch).
PrefixesFound(d, word) == {n \in 1..Len(word) : Find(d, SubSeq(word, 1, n)) >= 0}
PrefixSearch(d, word) == Max({0} \cup PrefixesFound(d, word))

\* begin and next: the nodes with a value under root, in the order they are listed.
Listing(d, root) ==
    LET Sibling(node) == d.ninfo[node].sibling
        Base(node) == d.array[node].base
        leaf[node \in DOMAIN d.array] ==
            IF d.ninfo[node].child = 0 THEN node ELSE leaf[Xor(Base(node), d.ninfo[node].child)]
        turn[node \in DOMAIN d.array, c \in 0..(BlockSize - 1)] ==
            IF c # 0 \/ node = root THEN [node |-> node, label |-> c]
            ELSE turn[d.array[node].check, Sibling(node)]
        from[node \in DOMAIN d.array] ==
            LET t == turn[node, Sibling(Xor(Base(node), 0))]
            IN  <<node>> \o IF t.label = 0 THEN <<>>
                            ELSE from[leaf[Xor(Base(t.node), t.label)]]
        first == Sibling(Xor(Base(0), 0))
    IN  IF root # 0 THEN from[leaf[root]]
        ELSE IF first = 0 THEN <<>> ELSE from[leaf[Xor(Base(0), first)]]

\* suffix: the word that leads to a node.
WordOf(d, to) ==
    LET word[node \in DOMAIN d.array] ==
            IF node = 0 THEN <<>>
            ELSE LET from == d.array[node].check
                 IN  Append(word[from], Xor(node, d.array[from].base % BlockSize) % BlockSize)
    IN  word[to]
-------------------------------------------------------------------------------
\* restore: after open there are no ninfo and no block; they are made again from
\* the array.
RestoreBlock(d) ==
    LET Empty(bi) == {e \in CellsOf(bi) : d.array[e].check < 0}
        Push(s, i) ==
            LET bi == i - 1
                num == Cardinality(Empty(bi))
                list == IF num = 1 THEN "C" ELSE IF num = 0 THEN "F" ELSE "O"
                counted == [s EXCEPT !.block[bi].num = num,
                                     !.block[bi].ehead = IF num = 0 THEN 0 ELSE Min(Empty(bi))]
            IN  PushBlock(counted, bi, list, s.head[list] = 0 /\ num > 0)
        fresh == [d EXCEPT !.block = [bi \in Blocks(d) |-> NewBlock],
                           !.head = [list \in {"F", "C", "O"} |-> 0], !.hasBlock = TRUE]
    IN  FoldLeft(Push, fresh, [i \in 1..Cardinality(Blocks(d)) |-> i])
RestoreInfo(d) ==
    LET Push(s, i) ==
            LET to == i - 1
                from == d.array[to].check
                base == d.array[from].base
                label == Xor(to, base % BlockSize) % BlockSize
            IN  IF from < 0 \/ label = 0 THEN s
                ELSE PushSibling(s, from, base, label,
                        from = 0 \/ s.ninfo[from].child # 0 \/ d.array[Xor(base, 0)].check = from)
        fresh == [d EXCEPT !.ninfo = [e \in DOMAIN @ |-> NoInfo], !.hasInfo = TRUE]
    IN  FoldLeft(Push, fresh, [i \in 1..Size(d) |-> i])
Restored(d) ==
    LET blocks == IF d.hasBlock THEN d ELSE RestoreBlock(d)
    IN  IF d.hasInfo THEN blocks ELSE RestoreInfo(blocks)
-------------------------------------------------------------------------------
\* _initialize: block 0 holds node 0 and is in no list.
NewReject == [n \in 0..BlockSize |-> n + 1]
Init ==
    /\ Caller!Init
    /\ da = [array |-> Ring(1, BlockSize - 1) @@ (0 :> [base |-> 0, check |-> -1]),
             ninfo |-> [e \in 0..(BlockSize - 1) |-> NoInfo],
             block |-> (0 :> [NewBlock EXCEPT !.ehead = 1]),
             reject |-> NewReject,
             head |-> [list \in {"F", "C", "O"} |-> 0],
             hasInfo |-> TRUE, hasBlock |-> TRUE]

\* update: the nodes that are missing on the way of a key are made, and its number is
\* added to its value.
WithValue(leaf, key) == [leaf.da EXCEPT !.array[leaf.cell].base = @ + Value[key]]
Updated(d, key) ==
    WithValue(FoldLeft(LAMBDA s, label : Follow(s.da, s.cell, label),
                       [da |-> d, cell |-> 0], Append(key, 0)), key)
Update(key) ==
    /\ Find(da, key) + Value[key] <= MaxValue
    /\ da' = Updated(Restored(da), key)
    /\ Size(da') <= MaxBlocks * BlockSize
    /\ Caller!Add(key)

\* erase: the value's cell goes, and so do the nodes above it that lead nowhere else.
Erased(d, key) ==
    LET Prefix(n) == NodeOf(d, SubSeq(key, 1, n))
        leaf == Xor(d.array[Prefix(Len(key))].base, 0)
        Free(s, e) ==
            LET from == s.da.array[e].check
                base == s.da.array[from].base
                siblings == s.da.ninfo[Xor(base, s.da.ninfo[from].child)].sibling # 0
                label == Xor(e, base % BlockSize) % BlockSize
            IN  IF s.done THEN s
                ELSE [da |-> PushEnode(IF siblings THEN PopSibling(s.da, from, base, label)
                                       ELSE s.da, e),
                      done |-> siblings]
    IN  FoldLeft(Free, [da |-> d, done |-> FALSE],
                 <<leaf>> \o [i \in 1..Len(key) |-> Prefix(Len(key) + 1 - i)]).da
Erase(key) ==
    /\ da.hasInfo /\ da.hasBlock
    /\ Find(da, key) >= 0
    /\ da' = Erased(da, key)
    /\ Caller!Remove(key)

\* save, and open in another trie: the array is all that is kept.
Reopen ==
    /\ da' = [da EXCEPT !.ninfo = [e \in DOMAIN @ |-> NoInfo],
                        !.block = [bi \in DOMAIN @ |-> NewBlock],
                        !.head = [list \in {"F", "C", "O"} |-> 0],
                        !.reject = NewReject, !.hasInfo = FALSE, !.hasBlock = FALSE]
    /\ UNCHANGED dict

\* dump and commonPrefixPredict, which need the sibling lists.
List == da' = (IF da.hasInfo THEN da ELSE RestoreInfo(da)) /\ UNCHANGED dict

\* Erasing the last key that begins with a label frees a cell of block 0.
KeepsRoot(key) ==
    \E other \in Keys \ {key} : other[1] = key[1] /\ Find(da, other) >= 0
\* _restore_block has taken node 0 for the first empty cell of block 0.
OpenedBefore == da.block[0].ehead = 0

CarefulNext ==
    \/ \E key \in Keys : Update(key)
    \/ \E key \in Erasable : Erase(key) /\ (OpenedBefore => KeepsRoot(key))
    \/ Reopen
    \/ List
CarefulSpec == Init /\ [][CarefulNext]_<<da, dict>>
-------------------------------------------------------------------------------
\* The cells a trie of this array consists of: node 0, the nodes, the cells of values.
Used(d) == {0} \cup {e \in DOMAIN d.array : d.array[e].check >= 0}
IsLeaf(d, e) == e # 0 /\ d.array[d.array[e].check].base = e

\* What test asserts: the cells that the sibling lists lead to have the node they are
\* reached from as their check, and a node has a base (cedar.h, test).
ValidDoubleArray ==
    \A node \in Used(da) : ~IsLeaf(da, node) =>
        /\ da.array[node].base \in DOMAIN da.array
        /\ da.hasInfo => \A k \in ToSet(ChildrenOf(da, node)) :
                node = 0 \/ da.array[Xor(da.array[node].base, k)].check = node

\* The sibling list of a node names its children, each once and in increasing order,
\* and every used cell is reached from node 0: no operation loses a cell.
ChildrenLinked ==
    /\ da.hasInfo => \A node \in Used(da) : ~IsLeaf(da, node) =>
        LET kids == ChildrenOf(da, node)
        IN  /\ \A i \in DOMAIN kids : i > 1 => kids[i - 1] < kids[i]
            /\ {Xor(da.array[node].base, k) : k \in ToSet(kids)} \ {0}
                = {e \in Used(da) \ {0} : da.array[e].check = node}
    /\ \A e \in Used(da) : ~IsLeaf(da, e) => NodeOf(da, WordOf(da, e)) = e

\* The ring of a block links its empty cells, in both directions, and their number
\* is known.  Node 0 is counted as an empty cell of block 0.  Once a trie has been
\* opened, _restore_block leaves node 0 as the first empty cell of block 0 (cedar.h:471,
\* against cedar.h:415), which is not in the ring; the ring itself is whole, and in
\* every other block the first cell is right as well.
EmptyCellsLinked ==
    da.hasBlock => \A bi \in Blocks(da) :
        LET empty == {e \in CellsOf(bi) : da.array[e].check < 0} \ {0}
            head == IF bi = 0 /\ OpenedBefore THEN Min(empty) ELSE da.block[bi].ehead
        IN  /\ da.block[bi].num = Cardinality(empty) + (IF bi = 0 THEN 1 ELSE 0)
            /\ \A e \in empty : /\ -da.array[e].check \in empty
                                /\ da.array[-da.array[e].check].base = -e
            /\ empty # {} =>
                  /\ head \in empty
                  /\ ToSet(EmptyRing([da EXCEPT !.block[bi].ehead = head], bi)) = empty

\* Each block but block 0 is in the list that its empty cells and its trials call for,
\* and in no other one: a block that is lost is never filled.
BlocksListed ==
    da.hasBlock => \A bi \in Blocks(da) \ {0} :
        LET b == da.block[bi]
            list == IF b.num = 0 THEN "F"
                    ELSE IF b.num = 1 \/ b.trial = MaxTrial THEN "C" ELSE "O"
        IN  {l \in {"F", "C", "O"} : bi \in ToSet(ListOf(da, l))} = {list}

\* The order of keys in a listing.
Less(k, l) ==
    \E n \in 0..Min({Len(k), Len(l)}) :
        /\ SubSeq(k, 1, n) = SubSeq(l, 1, n)
        /\ n < Len(l)
        /\ n = Len(k) \/ k[n + 1] < l[n + 1]
Listed ==
    da.hasInfo => \A prefix \in UNION {{SubSeq(k, 1, n) : n \in 0..Len(k)} : k \in Keys} :
        LET root == NodeOf(da, prefix)
            nodes == Listing(da, root)
            words == [i \in DOMAIN nodes |-> WordOf(da, nodes[i])]
        IN  root # NoPath =>
                /\ ToSet(words) = {k \in Keys : Find(da, k) >= 0 /\ IsPrefix(prefix, k)}
                /\ \A i, j \in DOMAIN words : i < j => Less(words[i], words[j])

\* The trie finds the keys that were put in and their values, and no other key,
\* whatever moved in the array on the way (cedar.h, exactMatchSearch), and the
\* longest of them that one of Keys begins with (prefix_map.cc, PrefixSearch). The keys
\* with a prefix are listed each once and in order (Listed).
IsDictionary ==
    /\ \A key \in Keys :
        /\ dict[key] = IF Find(da, key) = NoPath THEN NoValue ELSE Find(da, key)
        /\ PrefixSearch(da, key) =
                Max({0} \cup {Len(k) : k \in {l \in Keys : dict[l] # NoValue /\ IsPrefix(l, key)}})
    /\ Listed
===============================================================================
