---------------------------- MODULE RecordMerge ----------------------------
(***************************************************************************)
(* The keyed merge of rust/src/io/merge.rs: incoming batches folded into   *)
(* what is stored, one batch at a time.  Leaves, folders and Iceberg       *)
(* tables all merge with it.  A row is a function from columns to values;  *)
(* rows are the same row when they agree on the match key, nulls included. *)
(***************************************************************************)
EXTENDS SequencesExt

\* The elements of a sequence that are in S, in their order.
Only(seq, S) ==
    FlattenSeq([n \in DOMAIN seq |-> IF seq[n] \in S THEN <<seq[n]>> ELSE <<>>])

\* Distinct elements in the order they first appear.
Firsts(seq) ==
    LET fresh == Only([n \in DOMAIN seq |-> n],
                      {n \in DOMAIN seq : \A m \in 1..(n - 1) : seq[m] # seq[n]})
    IN [n \in DOMAIN fresh |-> seq[fresh[n]]]

\* The row format of the key columns.
RowKey(row, by) == [column \in by |-> row[column]]

Matching(rows, row, by) == {n \in DOMAIN rows : RowKey(rows[n], by) = RowKey(row, by)}
LastOf(places) == CHOOSE n \in places : \A m \in places : m <= n

\* Mutant: a new key that arrives twice is appended twice.
FoldInTwice(held, batch, by) ==
    LET stored == FlattenSeq(held)
        replaced == [b \in DOMAIN held |-> [n \in DOMAIN held[b] |->
            LET here == Matching(batch, held[b][n], by) IN
            IF here = {} THEN held[b][n] ELSE batch[LastOf(here)]]]
        added == Only(batch, {row \in Range(batch) : Matching(stored, row, by) = {}})
    IN Append(replaced, added)

\* fold_in: every stored row an arriving key matches takes the last arrival;
\* a new key is appended once, where it first arrived, as it last arrived.
FoldIn(held, batch, by) ==
    LET stored == FlattenSeq(held)
        replaced == [b \in DOMAIN held |-> [n \in DOMAIN held[b] |->
            LET here == Matching(batch, held[b][n], by) IN
            IF here = {} THEN held[b][n] ELSE batch[LastOf(here)]]]
        added == Only(batch, {row \in Range(batch) : Matching(stored, row, by) = {}})
    IN Append(replaced,
              Firsts([n \in DOMAIN added |-> added[LastOf(Matching(added, added[n], by))]]))

Merged(held, batches, by) ==
    LET merged[n \in 0..Len(batches)] ==
            IF n = 0 THEN held ELSE FoldIn(merged[n - 1], batches[n], by)
    IN merged[Len(batches)]

-----------------------------------------------------------------------------
\* What a caller of merge expects, over the whole table: every row an arriving
\* key matches takes the last arrival, every new key is added once.
Upsert(rows, incoming, by) ==
    LET updated == [n \in DOMAIN rows |->
            LET here == Matching(incoming, rows[n], by) IN
            IF here = {} THEN rows[n] ELSE incoming[LastOf(here)]]
        added == {incoming[LastOf(Matching(incoming, incoming[n], by))] :
                     n \in {n \in DOMAIN incoming : Matching(rows, incoming[n], by) = {}}}
    IN updated \o SetToSeq(added)

SameRows(left, right) == ToBag(left) = ToBag(right)

=============================================================================
