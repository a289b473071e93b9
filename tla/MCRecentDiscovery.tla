------------------------- MODULE MCRecentDiscovery -------------------------
(***************************************************************************)
(* RecentDiscovery for TLC.  SyncManifest has the records of an index as a  *)
(* set; the file has them in path order, and ManifestIndexMerge makes the   *)
(* new file in one pass over the old one.  That the pass returns the set    *)
(* Merge says, still in path order and each record once, is evaluated here  *)
(* for every old file, upserts and evictions of a few books and paths.      *)
(***************************************************************************)
EXTENDS RecentDiscovery

\* onOldRecord(): the upserts that sort before an old record come first, then the
\* record unless it is removed; finish(): the upserts left.
OnePass(old, remove, upserts) ==
    LET advance(acc, row) ==
            LET before == {k \in DOMAIN acc.left : acc.left[k].path < row.path}
                n == Cardinality(before)
            IN [out |-> acc.out \o SubSeq(acc.left, 1, n)
                            \o (IF row.id \in remove THEN <<>> ELSE <<row>>),
                left |-> SubSeq(acc.left, n + 1, Len(acc.left))]
        done == FoldLeft(advance, [out |-> <<>>, left |-> upserts], old)
    IN done.out \o done.left

InPathOrder(file) == \A j, k \in DOMAIN file : j < k => file[j].path <= file[k].path

\* The files of some books, one record each; old and new ones are told apart by rev.
Books == 1..3
FilesOf(books, rev) ==
    {file \in UNION {[1..n -> [id : books, path : 1..3, rev : {rev}]] : n \in 0..Cardinality(books)} :
        InPathOrder(file) /\ \A j, k \in DOMAIN file : file[j].id = file[k].id => j = k}

(* The merge of two files in path order is one, with the records Merge says. *)
ASSUME OnePassIsMerge ==
    \A old \in FilesOf(Books, 0), remove \in SUBSET Books :
        \A upserts \in FilesOf(remove, 1) :
            LET new == OnePass(old, remove, upserts)
                rows == Merge(Range(old), remove, Range(upserts))
            IN InPathOrder(new) /\ Range(new) = rows /\ Len(new) = Cardinality(rows)
=============================================================================
