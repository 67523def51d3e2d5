----------------------------- MODULE RelayStore -----------------------------
(***************************************************************************)
(* The relay of one namespace (sync/relay.py): an append-only log of blobs *)
(* that are opaque to it, paged by the position of the last one seen.  It  *)
(* lives in the memory of the relay process.  RelayStore takes its lock in *)
(* every operation, so each is one step.                                   *)
(***************************************************************************)
EXTENDS Integers, Sequences

CONSTANT PageSize       \* limit of one pull

ASSUME PageSizeAssumption == PageSize \in Nat \ {0}

VARIABLE log

RelayInit == log = << >>

Lesser(a, b) == IF a < b THEN a ELSE b

\* append(): POST /push
AppendBlobs(blobs) == log' = log \o blobs

\* Mutant of SinceEnd: the cursor of a page is always the end of the log.
EndOfLog(c) == Len(log)

\* since(): the blobs after c, at most a page, and the new cursor, which is
\* the end of the log when the caller is beyond it.
SinceEnd(c) == IF c >= Len(log) THEN Len(log) ELSE Lesser(c + PageSize, Len(log))
Since(c) == SubSeq(log, c + 1, Lesser(c + PageSize, Len(log)))

=============================================================================
