------------------------------- MODULE SSTable -------------------------------
(***************************************************************************)
(* SSTable writer and reader.  sstable.h is not part of the repository's   *)
(* source; these operators follow the description of the writer and the   *)
(* reader in spec section 4.9.  A table is the reader's index as a        *)
(* function from key to value.                                             *)
(***************************************************************************)
EXTENDS Naturals

CONSTANTS Vals, NoVal

EmptyTable == [k \in {} |-> NoVal]

\* SSTableWriter::Add ... Finish: entries are sorted by key and indexed by
\* key.  When one key was added several times, which of its values the
\* reader's key map ends up holding is not fixed (the sort need not be
\* stable and the map keeps one entry), so every choice is a possible table.
Tables(pairs) ==
  LET ks == {p[1] : p \in pairs}
  IN  {t \in [ks -> Vals] : \A k \in ks : <<k, t[k]>> \in pairs}

\* SSTableReader::Get: a hit when the key is in the index.
Has(t, k) == k \in DOMAIN t

=============================================================================
