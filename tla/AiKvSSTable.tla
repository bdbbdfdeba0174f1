---------------------------- MODULE AiKvSSTable ----------------------------
(***************************************************************************)
(* The on-disk table format of ai_kv::storage (src/ai_kv_store/include/    *)
(* storage/lsm_tree.h): BloomFilter, BlockHandle, Footer, SSTableWriter    *)
(* and SSTableReader, as pure operators over a file.                       *)
(*                                                                         *)
(* A file is the sequence of the regions the writer wrote, each at the     *)
(* offset where std::ofstream::write put it, with its size in bytes and    *)
(* its contents: a data block is its records, the meta block the           *)
(* serialized bloom filter, the index block its entries, the footer its    *)
(* two handles and magic.  Byte strings are kept as what they encode;      *)
(* their lengths come from KeyBytes and ValBytes.  A reader seeking to an  *)
(* offset and size that is not a region the writer wrote reads nothing it  *)
(* can parse.  BloomFilter::Hash is a 64-bit mix that TLC cannot compute;  *)
(* it is the constant operator BloomHash.                                  *)
(***************************************************************************)
EXTENDS Integers, Sequences, SequencesExt, FiniteSetsExt

CONSTANTS
    Keys, Vals, NoVal,
    BlockSize,       \* LSMConfig::block_size
    KeyRank,         \* a user key's position in std::string order
    KeyBytes,        \* a user key's size in bytes
    ValBytes,        \* a value's size in bytes
    BloomHash(_, _)  \* BloomFilter::Hash(key, seed), before % bits_.size()

\* InternalKey and its value; the order is user_key up, sequence down.
Entry == [key : Keys, seq : Nat, type : {"value", "deletion"}, val : Vals \cup {NoVal}]

\* A LookupResult / ReadResult.
Miss == [found |-> FALSE, del |-> FALSE, val |-> NoVal]
Hit(e) == [found |-> TRUE, del |-> e.type = "deletion", val |-> e.val]
ValueOf(res) == IF res.found /\ ~res.del THEN res.val ELSE NoVal

\* The newest version among entries of one key: what a lookup must find.
Newest(es) == CHOOSE e \in es : \A f \in es : f.seq <= e.seq

\* InternalKey::operator<.
InternalLess(a, b) ==
    \/ KeyRank[a.key] < KeyRank[b.key]
    \/ a.key = b.key /\ a.seq > b.seq

-----------------------------------------------------------------------------
(* BloomFilter with fp_rate 0.01.                                          *)

\* OptimalHashes(0.01) = max(1, (uint32_t)(4.605 / 0.693)).
kNumHashes == 6

\* OptimalBits(n, 0.01) = max(64, (size_t)(n * 4.60517 / 0.480453)).
OptimalBits(n) == Max({64, (n * 95851) \div 10000})

NewBloom(n) == [numBits |-> OptimalBits(n), numHashes |-> kNumHashes, bits |-> {}]

BloomIdx(b, k) == {BloomHash(k, i) % b.numBits : i \in 0..b.numHashes - 1}

BloomAdd(b, k) == [b EXCEPT !.bits = @ \cup BloomIdx(b, k)]

MayContain(b, k) == BloomIdx(b, k) \subseteq b.bits

\* Serialize: num_bits and num_hashes (4 bytes each), then bit i as bit
\* i % 8 of byte 8 + i / 8.
BloomSerialize(b) ==
    [numBits |-> b.numBits, numHashes |-> b.numHashes,
     bytes |-> [j \in 0..(b.numBits + 7) \div 8 - 1 |->
                  SumSet({2^(i % 8) : i \in {x \in b.bits : x \div 8 = j}})]]

BloomSize(d) == 8 + (d.numBits + 7) \div 8

BloomDeserialize(d) ==
    [numBits |-> d.numBits, numHashes |-> d.numHashes,
     bits |-> {i \in 0..d.numBits - 1 : (d.bytes[i \div 8] \div 2^(i % 8)) % 2 = 1}]

-----------------------------------------------------------------------------
(* SSTableWriter.                                                          *)

kFooterBytes == 40    \* two 16-byte BlockHandles and the 8-byte magic
kSSTableMagic == "KVSSTBLE"

\* EncodeInternalKey: [user_key][sequence:8][type:1].
EncodeInternalKey(e) == [uk |-> e.key, seq |-> e.seq, type |-> e.type]
EncodedLen(ek) == KeyBytes[ek.uk] + 9
ValLen(v) == IF v = NoVal THEN 0 ELSE ValBytes[v]

\* The end of the file: std::ofstream::write appends there.
FileEnd(file) == IF file = <<>> THEN 0 ELSE Last(file).off + Last(file).size
WriteRegion(file, kind, size, data) ==
    Append(file, [kind |-> kind, off |-> FileEnd(file), size |-> size, data |-> data])

\* The constructor: an empty truncated file and a filter sized for n keys.
NewWriter(n) ==
    [file |-> <<>>, bloom |-> NewBloom(n), count |-> 0, offset |-> 0,
     block |-> <<>>, blockBytes |-> 0, last |-> <<>>, index |-> <<>>]

\* AppendToBlock: key_len, key, val_len, value.
AppendToBlock(w, ek, v) ==
    [w EXCEPT !.block = Append(@, [key |-> ek, val |-> v]),
              !.blockBytes = @ + 4 + EncodedLen(ek) + 4 + ValLen(v)]

\* FlushDataBlock: write the block at data_offset_ and index it by the
\* last key added.
FlushDataBlock(w) ==
    [w EXCEPT !.file = WriteRegion(@, "data", w.blockBytes, w.block),
              !.offset = @ + w.blockBytes,
              !.index = Append(@, [largest |-> w.last,
                                   handle |-> [offset |-> w.offset, size |-> w.blockBytes]]),
              !.block = <<>>,
              !.blockBytes = 0]

\* SSTableWriter::Add: bloom, then a new block if the current one has
\* reached block_size, then append.
WriterAdd(w, e) ==
    LET ek == EncodeInternalKey(e)
        w1 == [w EXCEPT !.bloom = BloomAdd(@, e.key)]
        w2 == IF w1.blockBytes >= BlockSize THEN FlushDataBlock(w1) ELSE w1
    IN  [AppendToBlock(w2, ek, e.val) EXCEPT !.count = @ + 1, !.last = ek]

\* The index block: key_len, largest_key, handle, per entry.
IndexSize(ix) == FoldLeft(LAMBDA n, x : n + 4 + EncodedLen(x.largest) + 16, 0, ix)

\* Finish: the last block, the bloom meta block, the index, the footer.
Finish(w) ==
    LET w1    == IF w.block # <<>> THEN FlushDataBlock(w) ELSE w
        bloom == BloomSerialize(w1.bloom)
        meta  == [offset |-> w1.offset, size |-> BloomSize(bloom)]
        index == [offset |-> meta.offset + meta.size, size |-> IndexSize(w1.index)]
        f1    == WriteRegion(w1.file, "meta", meta.size, bloom)
        f2    == WriteRegion(f1, "index", index.size, w1.index)
    IN  WriteRegion(f2, "footer", kFooterBytes,
                    [meta |-> meta, index |-> index, magic |-> kSSTableMagic])

-----------------------------------------------------------------------------
(* SSTableReader.                                                          *)

\* seekg(handle.offset) and read handle.size bytes.
ReadRegion(file, h) ==
    LET rs == {i \in DOMAIN file : file[i].off = h.offset /\ file[i].size = h.size}
    IN  IF rs = {} THEN [ok |-> FALSE]
        ELSE [ok |-> TRUE, data |-> file[CHOOSE i \in rs : TRUE].data]

\* ParseIndex: each largest key stripped of its 9 trailing bytes.
ParseIndex(ix) == [i \in DOMAIN ix |-> [largest |-> ix[i].largest.uk, handle |-> ix[i].handle]]

\* Open and Init: the footer from the last 40 bytes, then the bloom filter
\* and the index it points to; a file too short or unparsable is nullptr.
Open(file) ==
    LET size   == FileEnd(file)
        footer == ReadRegion(file, [offset |-> size - kFooterBytes, size |-> kFooterBytes])
        meta   == ReadRegion(file, footer.data.meta)
        index  == ReadRegion(file, footer.data.index)
    IN  IF size < kFooterBytes \/ ~footer.ok \/ ~meta.ok \/ ~index.ok THEN [ok |-> FALSE]
        ELSE [ok |-> TRUE, bloom |-> BloomDeserialize(meta.data),
              index |-> ParseIndex(index.data)]

\* Mutant: > for >=, so a key that is a block's largest goes to the next.
FindBlockGreater(ix, k) ==
    LET gt == {i \in DOMAIN ix : KeyRank[ix[i].largest] > KeyRank[k]}
    IN  IF gt # {} THEN Min(gt) ELSE Len(ix)

\* FindBlock: the first block whose largest key is >= the key, else the
\* last block; 0 (nullptr) if the index is empty.
FindBlock(ix, k) ==
    LET ge == {i \in DOMAIN ix : KeyRank[ix[i].largest] >= KeyRank[k]}
    IN  IF ge # {} THEN Min(ge) ELSE Len(ix)

\* ScanBlock keeps an entry only if seq > best_seq, with best_seq
\* starting at 0; a tombstone's value is "".
ScanBlock(file, h, k) ==
    LET blk  == ReadRegion(file, h)
        recs == IF blk.ok THEN Range(blk.data) ELSE {}
        vs   == {r \in recs : r.key.uk = k /\ r.key.seq > 0}
        best == CHOOSE r \in vs : \A s \in vs : s.key.seq <= r.key.seq
    IN  IF vs = {} THEN Miss
        ELSE [found |-> TRUE, del |-> best.key.type = "deletion",
              val |-> IF best.key.type = "deletion" THEN NoVal ELSE best.val]

\* SSTableReader::Get: bloom short-circuit, FindBlock, ScanBlock.
SstGet(file, k) ==
    LET r == Open(file)
    IN  IF ~r.ok \/ ~MayContain(r.bloom, k) THEN Miss
        ELSE LET b == FindBlock(r.index, k)
             IN  IF b = 0 THEN Miss ELSE ScanBlock(file, r.index[b].handle, k)

\* The entries a file's data blocks hold, decoded.
FileEntries(file) ==
    {[key |-> r.key.uk, seq |-> r.key.seq, type |-> r.key.type, val |-> r.val] :
        r \in UNION {Range(file[i].data) : i \in {j \in DOMAIN file : file[j].kind = "data"}}}

=============================================================================
