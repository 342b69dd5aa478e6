------------------------ MODULE SessionsRefinement ------------------------
(* Sessions implements SessionLedger: what a row says is its life.         *)
EXTENDS Sessions

LifeOf(r) == [status |-> r.status, source |-> r.source,
              trashed |-> Trashed(r), hidden |-> r.flicker]

Ledger == INSTANCE SessionLedger WITH life <- [i \in Ids |-> LifeOf(rows[i])]

\* However handlers, requests and nightly tasks interleave, and whatever a
\* handler or a request remembers of a row that changed since it was read, every
\* write is a step in the life of a row: no claim, repair, trash or restore
\* lands on a row it was not meant for, two sessions are never open, and nothing
\* disappears that was neither trashed nor hidden. (Requests one at a time: two
\* of them can remove a restored session, see HardDeletesTrashOnly.)
ImplementsLedger == Ledger!LedgerSpec
=============================================================================
