------------------------------ MODULE Intervals ------------------------------
(***************************************************************************)
(* Half-open intervals of bars, as the chart caches keep them              *)
(* (frontend/src/features/chart/marketIntervalCoverage.ts and the          *)
(* coalescing half of marketResourceCache.ts).  Time is counted in bars.   *)
(* A chunk is an interval with the rows it holds: a function from bars to  *)
(* the values of the response that brought them.                           *)
(***************************************************************************)
EXTENDS Integers, Sequences, SequencesExt, FiniteSets

Larger(a, b) == IF a >= b THEN a ELSE b
Smaller(a, b) == IF a <= b THEN a ELSE b

Window(from, to) == [from |-> from, to |-> to]
BarsOf(w) == w.from .. (w.to - 1)

(* There is no missing range. *)
NoHole == Window(0, 0)

(* The sort is stable: of windows that start together the first stays      *)
(* first, and a list in order stays as it is.                               *)
InOrder(windows) == \A i \in 2 .. Len(windows) : windows[i - 1].from <= windows[i].from
Rank(windows, j) ==
  Cardinality({i \in DOMAIN windows :
                 \/ windows[i].from < windows[j].from
                 \/ windows[i].from = windows[j].from /\ i <= j})
ByStart(windows) ==
  IF InOrder(windows) THEN windows
  ELSE [n \in DOMAIN windows |->
          windows[CHOOSE j \in DOMAIN windows : Rank(windows, j) = n]]

(* mergeCoverageIntervals: touching and overlapping intervals become one. *)
Joined(windows) ==
  LET Absorb(done, w) ==
        IF done # <<>> /\ w.from <= Last(done).to
        THEN Front(done) \o <<[Last(done) EXCEPT !.to = Larger(@, w.to)]>>
        ELSE Append(done, w)
  IN  FoldLeft(Absorb, <<>>, ByStart(windows))

ReachPastStart(windows, from) ==
  LET Advance(cursor, w) ==
        IF w.from < cursor THEN Larger(cursor, w.to) ELSE cursor
  IN  FoldLeft(Advance, from, Joined(windows))

(* The cursor of coversMarketRange and missingMarketRange: how far the     *)
(* intervals reach from a bar on without a hole.                           *)
Reach(windows, from) ==
  LET Advance(cursor, w) ==
        IF w.from <= cursor THEN Larger(cursor, w.to) ELSE cursor
  IN  FoldLeft(Advance, from, Joined(windows))

Covers(windows, w) == w.from >= w.to \/ Reach(windows, w.from) >= w.to

(* missingMarketRange: the first uncovered part of a window. *)
MissingRange(windows, w) ==
  IF Covers(windows, w) THEN NoHole
  ELSE LET cursor == Reach(windows, w.from)
           next == SelectInSeq(Joined(windows), LAMBDA v : v.from > cursor)
       IN  Window(cursor, IF next = 0 THEN w.to
                          ELSE Smaller(w.to, Joined(windows)[next].from))

(* intersectMarketRanges: the covered parts of a window. *)
Clip(v, w) == Window(Larger(v.from, w.from), Smaller(v.to, w.to))
CoveredRanges(windows, w) ==
  {v \in {Clip(u, w) : u \in ToSet(Joined(windows))} : v.from < v.to}

------------------------------------------------------------------------------
(* Chunks: intervals that carry rows. *)

Chunk(from, to, rows) == [from |-> from, to |-> to, rows |-> rows]
Bounds(chunks) == [i \in DOMAIN chunks |-> Window(chunks[i].from, chunks[i].to)]

(* dedupeCandlesByTime: of two rows of one bar the later in the list stays. *)
Deduped(first, second) ==
  [b \in DOMAIN first \cup DOMAIN second |->
     IF b \in DOMAIN second THEN second[b] ELSE first[b]]

CoalescedKeepingFirstRows(chunks) ==
  LET Absorb(done, c) ==
        IF done # <<>> /\ c.from <= Last(done).to
        THEN Front(done) \o
             <<Chunk(Last(done).from, Larger(Last(done).to, c.to), Last(done).rows)>>
        ELSE Append(done, c)
  IN  FoldLeft(Absorb, <<>>, ByStart(chunks))

(* coalesceCandlesChunks: like Joined, with the rows of what is joined. *)
Coalesced(chunks) ==
  LET Absorb(done, c) ==
        IF done # <<>> /\ c.from <= Last(done).to
        THEN Front(done) \o
             <<Chunk(Last(done).from, Larger(Last(done).to, c.to),
                     Deduped(Last(done).rows, c.rows))>>
        ELSE Append(done, c)
  IN  FoldLeft(Absorb, <<>>, ByStart(chunks))

FirstChunks(chunks, chunk, cap) ==
  LET all == Coalesced(Append(chunks, chunk))
  IN  IF Len(all) > cap THEN SubSeq(all, 1, cap) ELSE all

(* mergeChunk: only the chunks furthest to the right are kept. *)
MergedChunks(chunks, chunk, cap) ==
  LET all == Coalesced(Append(chunks, chunk))
  IN  IF Len(all) > cap THEN SubSeq(all, Len(all) - cap + 1, Len(all)) ELSE all

(* sliceCandlesForRange over the rows of all chunks. *)
RowsIn(chunks, w) ==
  LET rows == FoldLeft(LAMBDA done, c : Deduped(done, c.rows), <<>>, chunks)
  IN  [b \in DOMAIN rows \cap BarsOf(w) |-> rows[b]]

(* getCandles: nothing unless the whole range is covered. *)
Served(chunks, w) ==
  IF Covers(Bounds(chunks), w) THEN RowsIn(chunks, w) ELSE <<>>
==============================================================================
