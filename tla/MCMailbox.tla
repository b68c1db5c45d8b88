----------------------------- MODULE MCMailbox ------------------------------
(* Model checking Mailbox: two producers, a few frames of mixed length.    *)
EXTENDS Mailbox, SequencesExt

MCSymmetry == Permutations(Producers)

\* Q.bytes is the sum of the charges of the queued frames, so the budget test
\* reads the truth and the subtractions never underflow.
BytesExact == bytes = FoldLeft(LAMBDA acc, f : acc + Charge(f.len), 0, items)
=============================================================================
