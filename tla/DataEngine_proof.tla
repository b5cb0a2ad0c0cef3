-------------------------- MODULE DataEngine_proof --------------------------
(***************************************************************************)
(* Proofs about DataEngine, for any number of processes, any exchange and   *)
(* any bounds that its assumption allows.                                   *)
(***************************************************************************)
EXTENDS DataEngine, FiniteSetTheorems, WellFoundedInduction, TLAPS

(***************************************************************************)
(* Gaps and windows.                                                        *)
(***************************************************************************)

\* A nonempty set of naturals has a least element.
LEMMA LeastNatural ==
  ASSUME NEW S \in SUBSET Nat, S # {}
  PROVE  \E n \in S : \A m \in S : n <= m
<1> DEFINE Below == {ss \in Nat \X Nat : ss[1] < ss[2]}
<1>1. IsWellFoundedOn(Below, Nat)
  BY NatLessThanWellFounded DEF OpToRel
<1> HIDE DEF Below
<1>2. \E n \in S : \A m \in S : ~ (<<m, n>> \in Below)
  BY <1>1, WFMin
<1>3. PICK n \in S : \A m \in S : ~ (<<m, n>> \in Below)
  BY <1>2
<1>4. \A m \in S : ~ (m < n)
  BY <1>3 DEF Below
<1>5. QED BY <1>4

\* Every missing bar lies in a gap, a maximal run of missing ones (find_gaps_linear).
LEMMA GapAround ==
  ASSUME NEW from \in Int, NEW to \in Int, NEW t \in Missing(from, to)
  PROVE  \E gap \in Gaps(from, to) : /\ gap.start \in Int /\ gap.end \in Int
                                     /\ from <= gap.start /\ gap.start <= t /\ t < gap.end
<1> DEFINE missing == Missing(from, to)
           Right == {n \in Nat : t + n + 1 \notin missing}
           Left  == {n \in Nat : t - n - 1 \notin missing}
<1>2. t \in Int /\ from <= t /\ t <= to /\ missing \subseteq from .. to
  BY DEF Missing
<1>3. PICK r \in Right : \A m \in Right : r <= m
  <2>1. to - t \in Nat /\ to + 1 \notin missing
    BY <1>2 DEF Missing
  <2>2. to - t \in Right
    BY <1>2, <2>1
  <2>3. Right # {} /\ Right \in SUBSET Nat
    BY <2>2
  <2>4. QED BY <2>3, LeastNatural
<1>4. PICK l \in Left : \A m \in Left : l <= m
  <2>1. t - from \in Nat /\ from - 1 \notin missing
    BY <1>2 DEF Missing
  <2>2. t - from \in Left
    BY <1>2, <2>1
  <2>3. Left # {} /\ Left \in SUBSET Nat
    BY <2>2
  <2>4. QED BY <2>3, LeastNatural
<1> DEFINE a == t - l
           b == t + r
<1>5. /\ a \in Int /\ b \in Int /\ a <= t /\ t <= b
      /\ a - 1 \notin missing /\ b + 1 \notin missing
  BY <1>2, <1>3, <1>4
<1>6. a .. b \subseteq missing
  <2>1. SUFFICES ASSUME NEW i \in a .. b, i \notin missing PROVE FALSE
    OBVIOUS
  <2>2. i # t
    BY <2>1
  <2>3. CASE i < t
    <3>1. t - i - 1 \in Nat /\ t - (t - i - 1) - 1 = i
      BY <1>2, <1>5, <2>3
    <3>2. t - i - 1 \in Left
      BY <2>1, <3>1
    <3>3. i \in Int /\ t - l <= i
      BY <1>2, <1>4, <2>1
    <3>4. l <= t - i - 1 /\ l \in Int
      BY <1>4, <3>2
    <3>5. QED BY <1>2, <3>3, <3>4
  <2>4. CASE i > t
    <3>1. i - t - 1 \in Nat /\ t + (i - t - 1) + 1 = i
      BY <1>2, <1>5, <2>4
    <3>2. i - t - 1 \in Right
      BY <2>1, <3>1
    <3>3. i \in Int /\ i <= t + r
      BY <1>2, <1>3, <2>1
    <3>4. r <= i - t - 1 /\ r \in Int
      BY <1>3, <3>2
    <3>5. QED BY <1>2, <3>3, <3>4
  <2>5. QED BY <1>2, <2>2, <2>3, <2>4
<1>7. a \in missing /\ b \in missing /\ a <= b
  BY <1>2, <1>5, <1>6
<1> HIDE DEF a, b, missing, Left, Right
<1>8. Window(a, b + 1) \in Gaps(from, to)
  <2>1. <<a, b>> \in {ab \in missing \X missing : /\ ab[1] .. ab[2] \subseteq missing
                                                 /\ ab[1] <= ab[2]
                                                 /\ ab[1] - 1 \notin missing
                                                 /\ ab[2] + 1 \notin missing}
    BY <1>5, <1>6, <1>7
  <2>2. QED BY <2>1 DEF Gaps, missing
<1>9. /\ Window(a, b + 1).start = a /\ Window(a, b + 1).end = b + 1
      /\ from <= a /\ t < b + 1
  BY <1>2, <1>5, <1>7 DEF missing, Missing, Window
<1>10. QED BY <1>5, <1>8, <1>9

\* A window without gaps is stored in full.
LEMMA NoGapsComplete ==
  ASSUME NEW from \in Int, NEW to \in Int, Gaps(from, to) = {}
  PROVE  from .. to \subseteq Stored
<1>1. \A t \in Missing(from, to) : FALSE
  BY GapAround
<1>2. QED BY <1>1 DEF Missing

\* What is counted complete is complete: a window holds as many stored bars as it
\* has bars only if it holds them all (_run_backfill's count).
LEMMA FullCountComplete ==
  ASSUME NEW from \in Int, NEW to \in Int, from <= to, NEW S,
         Cardinality(S \cap (from .. to)) = ExpectedCount(from, to)
  PROVE  from .. to \subseteq S
<1>1. IsFiniteSet(from .. to) /\ Cardinality(from .. to) = to - from + 1
  BY FS_Interval
<1>2. S \cap (from .. to) \in SUBSET (from .. to)
  OBVIOUS
<1>3. from .. to = S \cap (from .. to)
  BY <1>1, <1>2, FS_Subset DEF ExpectedCount
<1>4. QED BY <1>3

\* The windows of a repair lie in the window it repairs (iter_fetch_windows).
LEMMA FetchWindowsFacts ==
  ASSUME NEW from \in Nat, NEW to \in Int, NEW win \in FetchWindows(from, to)
  PROVE  /\ win = Window(win.start, win.end)
         /\ win.start \in Int /\ win.end \in Int
         /\ from <= win.start /\ win.start <= to /\ win.start < win.end /\ win.end <= to + 1
<1>0. Limit \in Nat /\ Limit > 0
  BY EngineAssumption DEF EngineAssumption
<1>1. PICK gap \in Gaps(from, to) :
        \E k \in 0 .. (gap.end - gap.start - 1) \div Limit :
          win = Window(gap.start + k * Limit, Lesser(gap.start + (k + 1) * Limit, gap.end))
  BY DEF FetchWindows
<1>2. PICK ab \in Missing(from, to) \X Missing(from, to) :
        ab[1] <= ab[2] /\ gap = Window(ab[1], ab[2] + 1)
  BY DEF Gaps
<1>3. /\ gap.start \in Int /\ gap.end \in Int
      /\ from <= gap.start /\ gap.start < gap.end /\ gap.end <= to + 1
  BY <1>2 DEF Missing, Window
<1>4. PICK k \in 0 .. (gap.end - gap.start - 1) \div Limit :
        win = Window(gap.start + k * Limit, Lesser(gap.start + (k + 1) * Limit, gap.end))
  BY <1>1
<1> DEFINE n == gap.end - gap.start - 1
<1>5. n \in Nat
  BY <1>3
<1> HIDE DEF n
<1>6. /\ n \div Limit \in Nat /\ (n \div Limit) * Limit <= n
  BY <1>0, <1>5
<1>7. k \in Nat /\ k <= n \div Limit
  BY <1>4, <1>6 DEF n
<1>8. k * Limit <= n /\ k * Limit \in Nat /\ (k + 1) * Limit = k * Limit + Limit
  <2>1. k * Limit <= (n \div Limit) * Limit
    BY <1>0, <1>6, <1>7
  <2>2. QED BY <1>0, <1>5, <1>6, <1>7, <2>1
<1> DEFINE kl == k * Limit
           kl1 == (k + 1) * Limit
<1>9. kl \in Nat /\ kl <= gap.end - gap.start - 1 /\ kl1 = kl + Limit /\ kl1 \in Nat
  BY <1>0, <1>8 DEF n
<1>10. win = Window(gap.start + kl, Lesser(gap.start + kl1, gap.end))
  BY <1>4
<1> HIDE DEF kl, kl1
<1>11. QED BY <1>0, <1>3, <1>9, <1>10 DEF Window, Lesser

\* The chunk of a gap that a bar falls into is one of the gap's chunks.
LEMMA ChunkOfGap ==
  ASSUME NEW n \in Nat, NEW m \in Nat, m <= n, NEW L \in Nat, L > 0
  PROVE  /\ m \div L \in 0 .. n \div L
         /\ (m \div L) * L <= m /\ m < (m \div L + 1) * L
<1> DEFINE q == m \div L
           p == n \div L
<1>1. /\ q \in Nat /\ q * L <= m /\ m < q * L + L
      /\ p \in Nat /\ p * L <= n /\ n < p * L + L
  OBVIOUS
<1> HIDE DEF q, p
<1>2. (q + 1) * L = q * L + L /\ (p + 1) * L = p * L + L
  BY <1>1
<1>3. q <= p
  <2>1. SUFFICES ASSUME p + 1 <= q PROVE FALSE
    BY <1>1
  <2>2. (p + 1) * L <= q * L
    BY <1>1, <2>1
  <2>3. q * L \in Nat /\ p * L \in Nat
    BY <1>1
  <2>4. QED BY <1>1, <1>2, <2>2, <2>3
<1>4. QED BY <1>1, <1>2, <1>3 DEF q, p

\* Every missing bar of the window is in one of the windows a repair fetches.
LEMMA FetchWindowsCover ==
  ASSUME NEW from \in Nat, NEW to \in Int, NEW t \in Missing(from, to)
  PROVE  \E win \in FetchWindows(from, to) : win.start <= t /\ t < win.end
<1>1. PICK gap \in Gaps(from, to) : /\ gap.start \in Int /\ gap.end \in Int
                                    /\ gap.start <= t /\ t < gap.end
  BY GapAround
<1>2. Limit \in Nat /\ Limit > 0 /\ t \in Int
  BY EngineAssumption DEF EngineAssumption, Missing
<1> DEFINE m == t - gap.start
           n == gap.end - gap.start - 1
           k == m \div Limit
           win == Window(gap.start + k * Limit, Lesser(gap.start + (k + 1) * Limit, gap.end))
<1>3. m \in Nat /\ n \in Nat /\ m <= n
  BY <1>1, <1>2
<1>4. k \in 0 .. n \div Limit /\ k * Limit <= m /\ m < (k + 1) * Limit
  <2> HIDE DEF m, n
  <2>1. QED BY <1>2, <1>3, ChunkOfGap
<1>5. win \in FetchWindows(from, to)
  BY <1>1, <1>4 DEF FetchWindows
<1>6. k * Limit \in Int /\ (k + 1) * Limit \in Int
  <2>1. k \in Int
    BY <1>2, <1>3, <1>4
  <2> HIDE DEF k
  <2>2. QED BY <1>2, <2>1
<1>7. gap.start + k * Limit <= t /\ t < gap.start + (k + 1) * Limit
  <2> DEFINE kl == k * Limit
             kl1 == (k + 1) * Limit
  <2>1. kl \in Int /\ kl1 \in Int /\ kl <= t - gap.start /\ t - gap.start < kl1
    BY <1>4, <1>6
  <2> HIDE DEF kl, kl1
  <2>2. gap.start + kl <= t /\ t < gap.start + kl1
    BY <1>1, <1>2, <2>1
  <2>3. QED BY <2>2 DEF kl, kl1
<1>8. win.start <= t /\ t < win.end
  BY <1>1, <1>7 DEF Window, Lesser
<1>9. QED BY <1>5, <1>8

\* What the exchange answers lies in the window asked for, and is listed.
LEMMA AnswerFacts ==
  ASSUME NEW win, win.start \in Int, win.end \in Int, clock \in Int, NEW rows \in Answers(win)
  PROVE  /\ rows \in [DOMAIN rows -> Qualities]
         /\ \A t \in DOMAIN rows : /\ t \in Nat /\ FirstListed <= t /\ t <= clock
                                   /\ win.start <= t /\ t < win.end
<1>1. PICK S \in SUBSET Listed(win) : rows \in [S -> Qualities]
  BY DEF Answers
<1>2. \A t \in S : t \in Int /\ FirstListed <= t /\ t <= clock /\ win.start <= t /\ t < win.end
  BY DEF Listed
<1>3. FirstListed \in Nat
  BY EngineAssumption DEF EngineAssumption
<1>4. QED BY <1>1, <1>2, <1>3

\* The next chunk of a walk ends after it begins and not after the last bar.
LEMMA ChunkFacts ==
  ASSUME NEW cursor \in Nat, NEW to \in Int, cursor <= to
  PROVE  /\ Chunk(cursor, to).start = cursor
         /\ Chunk(cursor, to).end \in Nat
         /\ cursor < Chunk(cursor, to).end /\ Chunk(cursor, to).end <= to + 1
BY EngineAssumption DEF EngineAssumption, Chunk, Window, Lesser

(***************************************************************************)
(* The invariant.                                                           *)
(***************************************************************************)
Steps == {"idle", "launch", "max", "min", "fetch", "discover", "plan", "repair"}
Statuses == {"ok", "incomplete", "invalid", "error"}
Maybe(S) == S \cup {None}

Run == [pc : Steps, cmd : Maybe({"backfill", "fix"}), from : Maybe(Int), to : Maybe(Int),
        cursor : Maybe(Int), plan : SUBSET [start : Int, end : Int], latest : Maybe(Int),
        hard : BOOLEAN]

\* A run walks towards a bar that was closed when it began.
RunOK(r, now) ==
  /\ r \in Run
  /\ r.pc \notin {"idle", "launch"} => r.to \in -1 .. LastTick - 1 /\ r.to < now
  /\ r.pc = "min" /\ r.cmd = "backfill" => r.cursor \in Nat
  /\ r.pc \in {"fetch", "discover"} => r.cursor \in Nat
  /\ r.pc = "fetch" => r.from \in Bars \cup {None}
  /\ r.pc \in {"launch", "max", "min"} => r.from = None
  /\ r.pc \in {"plan", "repair"} => r.from \in Nat
  /\ r.pc = "repair" =>
       \A win \in r.plan : /\ 0 <= win.start /\ win.start <= r.to
                           /\ win.start < win.end /\ win.end <= r.to + 1

\* A report of ok stands as long as the bars it speaks of are stored.
ReportOK(o, stored) ==
  o # None => /\ o.status \in Statuses
              /\ o.status = "ok" => /\ o.from # None => o.from .. o.to \subseteq stored
                                    /\ o.cmd = "fix" => o.latest \in stored

StoreOK == /\ clock \in Bars
           /\ candles \in [Stored -> Qualities]
           /\ \A t \in Stored : t \in Int /\ FirstListed <= t /\ t < clock
MetaOK == launchKnown \in BOOLEAN /\ quarantine \subseteq {"fetch_error", "postflight_gaps"}
RunsOK == DOMAIN run = Workers /\ \A w \in Workers : RunOK(run[w], clock)
ReportsOK == DOMAIN report = Workers /\ \A w \in Workers : ReportOK(report[w], Stored)

\* TypeOK, OnlyClosedCandles and OkStaysComplete together, with what each run is
\* about to ask for.
EngineInv == StoreOK /\ MetaOK /\ RunsOK /\ ReportsOK

LEMMA ClockFacts ==
  ASSUME StoreOK
  PROVE  clock \in Nat /\ clock <= LastTick /\ LastTick \in Nat
BY EngineAssumption DEF StoreOK, Bars, EngineAssumption

\* Upserting closed bars keeps the table of closed bars and loses none.
LEMMA UpsertKeeps ==
  ASSUME StoreOK, NEW win, win.start \in Int, win.end \in Int, win.end <= clock,
         NEW rows \in Answers(win), candles' = Upserted(rows), clock' = clock
  PROVE  StoreOK' /\ Stored \subseteq Stored'
<1>1. /\ rows \in [DOMAIN rows -> Qualities]
      /\ \A t \in DOMAIN rows : t \in Nat /\ FirstListed <= t /\ t < win.end
  BY ClockFacts, AnswerFacts
<1>2. Stored' = Stored \cup DOMAIN rows
  BY DEF Stored, Upserted
<1>3. candles' \in [Stored \cup DOMAIN rows -> Qualities]
  BY <1>1 DEF Upserted, StoreOK, Stored
<1>4. \A t \in Stored' : t \in Int /\ FirstListed <= t /\ t < clock
  BY <1>1, <1>2, ClockFacts DEF StoreOK
<1>5. QED BY <1>2, <1>3, <1>4 DEF StoreOK

LEMMA StoreUnchanged ==
  ASSUME StoreOK, UNCHANGED <<clock, candles>>
  PROVE  StoreOK' /\ Stored' = Stored
BY DEF StoreOK, Stored

\* A process goes on, prints its report, or dies.
LEMMA ContinueKeeps ==
  ASSUME RunsOK, ReportsOK, NEW w \in Workers, NEW r, RunOK(r, clock), Continue(w, r),
         clock' = clock, Stored \subseteq Stored'
  PROVE  RunsOK' /\ ReportsOK'
<1>1. run' = [run EXCEPT ![w] = r] /\ report' = report
  BY DEF Continue
<1>2. RunsOK'
  BY <1>1 DEF RunsOK
<1>3. ReportsOK'
  BY <1>1 DEF ReportsOK, ReportOK
<1>4. QED BY <1>2, <1>3

LEMMA IdleOK == RunOK(Idle, clock)
BY DEF RunOK, Run, Idle, Steps, Maybe

LEMMA DieKeeps ==
  ASSUME RunsOK, ReportsOK, NEW w \in Workers, Die(w), clock' = clock, Stored' = Stored
  PROVE  RunsOK' /\ ReportsOK'
BY IdleOK, ContinueKeeps DEF Die, Continue

LEMMA ConcludeKeeps ==
  ASSUME RunsOK, ReportsOK, NEW w \in Workers, NEW status \in Statuses, Conclude(w, status),
         status = "ok" => /\ run[w].from # None => run[w].from .. run[w].to \subseteq Stored
                          /\ run[w].cmd = "fix" => run[w].latest \in Stored,
         clock' = clock, Stored' = Stored
  PROVE  RunsOK' /\ ReportsOK'
<1>1. run' = [run EXCEPT ![w] = Idle] /\ report' = [report EXCEPT ![w] = Result(w, status)]
  BY DEF Conclude
<1>2. RunsOK'
  BY <1>1, IdleOK DEF RunsOK
<1>3. ReportOK(Result(w, status), Stored)
  BY DEF ReportOK, Result
<1>4. ReportsOK'
  BY <1>1, <1>3 DEF ReportsOK
<1>5. QED BY <1>2, <1>4

(***************************************************************************)
(* Every action keeps the invariant.                                        *)
(***************************************************************************)

\* What the invariant says of one run.
LEMMA RunFacts ==
  ASSUME EngineInv, NEW w \in Workers
  PROVE  /\ run[w] \in Run /\ RunOK(run[w], clock)
         /\ clock \in Nat /\ clock <= LastTick /\ LastTick \in Nat
         /\ Launch \in Nat /\ None \notin Int
         /\ \A t \in Stored : t \in Bars
BY EngineAssumption, ClockFacts DEF EngineAssumption, EngineInv, RunsOK, RunOK, StoreOK, Bars

\* The steps of backfill.
LEMMA BackfillKeeps ==
  ASSUME EngineInv, NEW w \in Workers,
         \/ ReadMax(w) \/ ReadMin(w) \/ StoreChunk(w) \/ EmptyChunk(w)
         \/ BackfillFails(w) \/ CheckCount(w)
  PROVE  EngineInv'
<1> DEFINE r == run[w]
<1>0. /\ r \in Run /\ RunOK(r, clock)
      /\ clock \in Nat /\ clock <= LastTick /\ LastTick \in Nat
      /\ Launch \in Nat /\ None \notin Int
      /\ \A t \in Stored : t \in Bars
  BY RunFacts
<1>1. StoreOK /\ MetaOK /\ RunsOK /\ ReportsOK
  BY DEF EngineInv
<1> HIDE DEF r
<1>2. CASE ReadMax(w)
  <2>1. PICK c \in Nat : Continue(w, [r EXCEPT !.pc = "min", !.cursor = c])
    <3>1. CASE \E newest \in Latest(Stored) :
                 Continue(w, [r EXCEPT !.pc = "min", !.cursor = newest + 1])
      <4>1. PICK newest \in Latest(Stored) :
              Continue(w, [r EXCEPT !.pc = "min", !.cursor = newest + 1])
        BY <3>1
      <4>2. newest + 1 \in Nat
        BY <1>0 DEF Latest, Bars
      <4>3. QED BY <4>1, <4>2
    <3>2. QED BY <1>0, <1>2, <3>1 DEF ReadMax, r
  <2>2. UNCHANGED <<clock, candles, launchKnown, quarantine>> /\ r.pc = "max"
    BY <1>2 DEF ReadMax, At, r
  <2> DEFINE q == [r EXCEPT !.pc = "min", !.cursor = c]
  <2>3. "min" \in Steps /\ c \in Maybe(Int)
    BY DEF Steps, Maybe
  <2>4. q \in Run /\ q.pc = "min" /\ q.cursor = c /\ q.to = r.to /\ q.from = r.from
    BY <1>0, <2>3 DEF Run
  <2> HIDE DEF q
  <2>5. RunOK(q, clock)
    BY <1>0, <2>2, <2>4 DEF RunOK
  <2>6. QED
    BY <1>1, <2>1, <2>2, <2>5, ContinueKeeps, StoreUnchanged DEF EngineInv, MetaOK, q
<1>3. CASE ReadMin(w)
  <2>1. UNCHANGED <<clock, candles, launchKnown, quarantine>> /\ At(w, "backfill", "min")
    BY <1>3 DEF ReadMin
  <2>2. r.pc = "min" /\ r.cmd = "backfill" /\ r.from = None /\ r.cursor \in Nat
    BY <1>0, <2>1 DEF At, RunOK, r
  <2>3. PICK f \in Bars \cup {None} : Continue(w, [r EXCEPT !.pc = "fetch", !.from = f])
    <3>1. CASE Continue(w, [r EXCEPT !.pc = "fetch"])
      <4>1. [r EXCEPT !.pc = "fetch"] = [r EXCEPT !.pc = "fetch", !.from = None]
        BY <1>0, <2>2 DEF Run
      <4>2. QED BY <3>1, <4>1
    <3>2. CASE \E oldest \in Oldest(Stored) : Continue(w, [r EXCEPT !.pc = "fetch", !.from = oldest])
      BY <1>0, <3>2 DEF Oldest
    <3>3. QED BY <1>3, <3>1, <3>2 DEF ReadMin, r
  <2> DEFINE q == [r EXCEPT !.pc = "fetch", !.from = f]
  <2>4. "fetch" \in Steps /\ f \in Maybe(Int)
    BY DEF Steps, Maybe, Bars
  <2>5. q \in Run /\ q.pc = "fetch" /\ q.cursor = r.cursor /\ q.to = r.to /\ q.from = f
    BY <1>0, <2>4 DEF Run
  <2> HIDE DEF q
  <2>6. RunOK(q, clock)
    BY <1>0, <2>2, <2>5 DEF RunOK
  <2>7. QED
    BY <1>1, <2>1, <2>3, <2>6, ContinueKeeps, StoreUnchanged DEF EngineInv, MetaOK, q
<1> DEFINE chunk == Chunk(r.cursor, r.to)
<1>4. ASSUME Fetching(w)
      PROVE  /\ r.pc = "fetch" /\ r.cmd = "backfill"
             /\ r.from \in Bars \cup {None} /\ r.to \in Int /\ r.to < clock
             /\ chunk.start \in Int /\ chunk.end \in Nat /\ chunk.end <= clock
  <2>1. r.pc = "fetch" /\ r.cmd = "backfill" /\ r.cursor <= r.to
    BY <1>4 DEF Fetching, At, r
  <2>2. r.cursor \in Nat /\ r.to \in Int /\ r.to < clock /\ r.from \in Bars \cup {None}
    BY <1>0, <2>1 DEF RunOK
  <2>3. /\ chunk.start = r.cursor /\ chunk.end \in Nat
        /\ r.cursor < chunk.end /\ chunk.end <= r.to + 1
    BY <2>1, <2>2, ChunkFacts
  <2> HIDE DEF chunk
  <2>4. QED BY <1>0, <2>1, <2>2, <2>3
<1> HIDE DEF chunk
<1>5. CASE StoreChunk(w)
  <2>1. PICK rows \in Answers(chunk) : \E oldest \in Oldest(DOMAIN rows) :
             /\ candles' = Upserted(rows)
             /\ Continue(w, [r EXCEPT !.cursor = chunk.end,
                                      !.from = IF @ = None THEN oldest ELSE @])
    BY <1>5 DEF StoreChunk, chunk, r
  <2>2. PICK oldest \in Oldest(DOMAIN rows) :
             Continue(w, [r EXCEPT !.cursor = chunk.end,
                                   !.from = IF r.from = None THEN oldest ELSE r.from])
    BY <2>1
  <2>3. Fetching(w) /\ UNCHANGED <<clock, launchKnown, quarantine>>
    BY <1>5 DEF StoreChunk
  <2> DEFINE f == IF r.from = None THEN oldest ELSE r.from
             q == [r EXCEPT !.cursor = chunk.end, !.from = f]
  <2>4. oldest \in Bars
    <3>1. oldest \in DOMAIN rows
      BY DEF Oldest
    <3>2. oldest \in Nat /\ oldest <= clock
      BY <1>0, <1>4, <2>3, <3>1, AnswerFacts
    <3>3. QED BY <1>0, <3>2 DEF Bars
  <2>5. f \in Bars \cup {None} /\ f \in Maybe(Int) /\ chunk.end \in Maybe(Int)
    BY <1>4, <2>3, <2>4 DEF Maybe, Bars
  <2>6. Continue(w, q)
    BY <2>2
  <2> HIDE DEF f
  <2>7. q \in Run /\ q.pc = r.pc /\ q.cursor = chunk.end /\ q.to = r.to /\ q.from = f
    BY <1>0, <2>5 DEF Run
  <2> HIDE DEF q
  <2>8. RunOK(q, clock)
    BY <1>0, <1>4, <2>3, <2>5, <2>7 DEF RunOK
  <2>9. StoreOK' /\ Stored \subseteq Stored'
    BY <1>1, <1>4, <2>1, <2>3, UpsertKeeps
  <2>10. RunsOK' /\ ReportsOK'
    BY <1>1, <2>3, <2>6, <2>8, <2>9, ContinueKeeps
  <2>11. QED BY <1>1, <2>3, <2>9, <2>10 DEF EngineInv, MetaOK
<1>6. CASE EmptyChunk(w)
  <2>1. Fetching(w) /\ UNCHANGED <<clock, candles, launchKnown, quarantine>>
    BY <1>6 DEF EmptyChunk
  <2>2. StoreOK' /\ MetaOK' /\ Stored' = Stored
    BY <1>1, <2>1, StoreUnchanged DEF MetaOK
  <2>3. CASE Continue(w, [r EXCEPT !.cursor = chunk.end])
    <3> DEFINE q == [r EXCEPT !.cursor = chunk.end]
    <3>1. chunk.end \in Maybe(Int)
      BY <1>4, <2>1 DEF Maybe
    <3>2. q \in Run /\ q.pc = r.pc /\ q.cursor = chunk.end /\ q.to = r.to /\ q.from = r.from
      BY <1>0, <3>1 DEF Run
    <3> HIDE DEF q
    <3>3. RunOK(q, clock)
      BY <1>0, <1>4, <2>1, <3>2 DEF RunOK
    <3>4. RunsOK' /\ ReportsOK'
      BY <1>1, <2>1, <2>2, <2>3, <3>3, ContinueKeeps DEF q
    <3>5. QED BY <2>2, <3>4 DEF EngineInv
  <2>4. CASE Conclude(w, "error")
    BY <1>1, <2>1, <2>2, <2>4, ConcludeKeeps DEF EngineInv, Statuses
  <2>5. QED BY <1>6, <2>3, <2>4 DEF EmptyChunk, chunk, r
<1>7. CASE BackfillFails(w)
  <2>1. Conclude(w, "error") /\ UNCHANGED <<clock, candles, launchKnown, quarantine>>
    BY <1>7 DEF BackfillFails
  <2>2. StoreOK' /\ MetaOK' /\ Stored' = Stored
    BY <1>1, <2>1, StoreUnchanged DEF MetaOK
  <2>3. QED BY <1>1, <2>1, <2>2, ConcludeKeeps DEF EngineInv, Statuses
<1>8. CASE CheckCount(w)
  <2>1. /\ UNCHANGED <<clock, candles, launchKnown, quarantine>>
        /\ r.pc = "fetch" /\ r.cmd = "backfill"
    BY <1>8 DEF CheckCount, At, r
  <2>2. StoreOK' /\ MetaOK' /\ Stored' = Stored
    BY <1>1, <2>1, StoreUnchanged DEF MetaOK
  <2>3. r.from \in Bars \cup {None} /\ r.to \in Int
    BY <1>0, <2>1 DEF RunOK
  <2>4. PICK status \in Statuses :
          /\ Conclude(w, status)
          /\ status = "ok" => (r.from # None => r.from .. r.to \subseteq Stored)
    <3>1. CASE r.from = None
      BY <1>8, <3>1 DEF CheckCount, Statuses, r
    <3>2. CASE r.from # None
      <4> DEFINE expected == IF r.to >= r.from THEN ExpectedCount(r.from, r.to) ELSE 0
                 actual == IF r.to >= r.from THEN Cardinality(Stored \cap (r.from .. r.to)) ELSE 0
      <4>1. Conclude(w, IF actual = expected THEN "ok" ELSE "incomplete")
        BY <1>8, <3>2 DEF CheckCount, r
      <4>2. r.from \in Int
        BY <2>3, <3>2 DEF Bars
      <4>3. ASSUME actual = expected PROVE r.from .. r.to \subseteq Stored
        <5>1. CASE r.to >= r.from
          BY <2>3, <4>2, <4>3, <5>1, FullCountComplete
        <5>2. CASE ~(r.to >= r.from)
          BY <2>3, <4>2, <5>2
        <5>3. QED BY <5>1, <5>2
      <4> HIDE DEF actual, expected
      <4>4. QED BY <4>1, <4>3 DEF Statuses
    <3>3. QED BY <3>1, <3>2
  <2>5. QED BY <1>1, <2>1, <2>2, <2>4, ConcludeKeeps DEF EngineInv, r
<1>9. QED BY <1>2, <1>3, <1>5, <1>6, <1>7, <1>8

\* The steps of fix that choose its window and plan it.
LEMMA FixPlansKeep ==
  ASSUME EngineInv, NEW w \in Workers, FindStart(w) \/ Discover(w) \/ FixDies(w) \/ Plan(w)
  PROVE  EngineInv'
<1> DEFINE r == run[w]
<1>0. /\ r \in Run /\ RunOK(r, clock)
      /\ clock \in Nat /\ clock <= LastTick /\ LastTick \in Nat
      /\ Launch \in Nat /\ None \notin Int
      /\ \A t \in Stored : t \in Bars
  BY RunFacts
<1> HIDE DEF r
<1>1. UNCHANGED <<clock, candles, launchKnown, quarantine>>
  BY DEF FindStart, Discover, FixDies, Plan
<1>2. /\ RunsOK /\ ReportsOK
      /\ StoreOK' /\ MetaOK' /\ Stored' = Stored
  BY <1>1, StoreUnchanged DEF EngineInv, MetaOK
<1>3. ASSUME NEW q, RunOK(q, clock), Continue(w, q)
      PROVE  EngineInv'
  BY <1>1, <1>2, <1>3, ContinueKeeps DEF EngineInv
\* The window starts at a bar that is known or found.
<1>4. ASSUME NEW f \in Nat, r.pc \in {"min", "discover"},
             Continue(w, [r EXCEPT !.pc = "plan", !.from = f])
      PROVE  EngineInv'
  <2> DEFINE q == [r EXCEPT !.pc = "plan", !.from = f]
  <2>1. "plan" \in Steps /\ f \in Maybe(Int)
    BY DEF Steps, Maybe
  <2>2. q \in Run /\ q.pc = "plan" /\ q.to = r.to /\ q.from = f
    BY <1>0, <2>1 DEF Run
  <2> HIDE DEF q
  <2>3. RunOK(q, clock)
    BY <1>0, <1>4, <2>2 DEF RunOK
  <2>4. QED BY <1>3, <1>4, <2>3 DEF q
<1>5. CASE FindStart(w)
  <2>1. r.pc = "min"
    BY <1>5 DEF FindStart, At, r
  <2>2. CASE Continue(w, [r EXCEPT !.pc = "discover", !.cursor = Launch])
    <3> DEFINE q == [r EXCEPT !.pc = "discover", !.cursor = Launch]
    <3>1. "discover" \in Steps /\ Launch \in Maybe(Int)
      BY <1>0 DEF Steps, Maybe
    <3>2. q \in Run /\ q.pc = "discover" /\ q.to = r.to /\ q.cursor = Launch
      BY <1>0, <3>1 DEF Run
    <3> HIDE DEF q
    <3>3. RunOK(q, clock)
      BY <1>0, <2>1, <3>2 DEF RunOK
    <3>4. QED BY <1>3, <2>2, <3>3 DEF q
  <2>3. CASE \E oldest \in Oldest(Stored) : Continue(w, [r EXCEPT !.pc = "plan", !.from = oldest])
    <3>1. PICK oldest \in Oldest(Stored) : Continue(w, [r EXCEPT !.pc = "plan", !.from = oldest])
      BY <2>3
    <3>2. oldest \in Nat
      BY <1>0 DEF Oldest, Bars
    <3>3. QED BY <1>4, <2>1, <3>1, <3>2
  <2>4. QED BY <1>5, <2>2, <2>3 DEF FindStart, r
<1>6. CASE Discover(w)
  <2> DEFINE chunk == Chunk(r.cursor, r.to)
  <2>1. r.pc = "discover"
    BY <1>6 DEF Discover, At, r
  <2>2. r.cursor \in Nat /\ r.to \in Int /\ r.to < clock
    BY <1>0, <2>1 DEF RunOK
  <2>3. CASE r.cursor > r.to
    <3>1. Continue(w, [r EXCEPT !.pc = "plan", !.from = Launch])
      BY <1>6, <2>3 DEF Discover, r
    <3>2. QED BY <1>0, <1>4, <2>1, <3>1
  <2>4. CASE ~(r.cursor > r.to)
    <3>1. chunk.start \in Int /\ chunk.end \in Nat
      BY <2>2, <2>4, ChunkFacts
    <3>2. PICK rows \in Answers(chunk) :
            \/ Continue(w, [r EXCEPT !.cursor = chunk.end])
            \/ \E oldest \in Oldest(DOMAIN rows) :
                 Continue(w, [r EXCEPT !.pc = "plan", !.from = oldest])
      BY <1>6, <2>4 DEF Discover, r
    <3> HIDE DEF chunk
    <3>3. CASE Continue(w, [r EXCEPT !.cursor = chunk.end])
      <4> DEFINE q == [r EXCEPT !.cursor = chunk.end]
      <4>1. chunk.end \in Maybe(Int)
        BY <3>1 DEF Maybe
      <4>2. q \in Run /\ q.pc = r.pc /\ q.to = r.to /\ q.cursor = chunk.end
        BY <1>0, <4>1 DEF Run
      <4> HIDE DEF q
      <4>3. RunOK(q, clock)
        BY <1>0, <2>1, <3>1, <4>2 DEF RunOK
      <4>4. QED BY <1>3, <3>3, <4>3 DEF q
    <3>4. CASE \E oldest \in Oldest(DOMAIN rows) :
                 Continue(w, [r EXCEPT !.pc = "plan", !.from = oldest])
      <4>1. PICK oldest \in Oldest(DOMAIN rows) :
              Continue(w, [r EXCEPT !.pc = "plan", !.from = oldest])
        BY <3>4
      <4>2. oldest \in DOMAIN rows
        BY DEF Oldest
      <4>3. oldest \in Nat
        BY <1>0, <3>1, <4>2, AnswerFacts
      <4>4. QED BY <1>4, <2>1, <4>1, <4>3
    <3>5. QED BY <3>2, <3>3, <3>4
  <2>5. QED BY <2>3, <2>4
<1>7. CASE FixDies(w)
  <2>1. Die(w)
    BY <1>7 DEF FixDies
  <2>2. RunsOK' /\ ReportsOK'
    BY <1>1, <1>2, <2>1, DieKeeps
  <2>3. QED BY <1>2, <2>2 DEF EngineInv
<1>8. CASE Plan(w)
  <2> DEFINE plan == FetchWindows(r.from, r.to)
             q == [r EXCEPT !.pc = "repair", !.cursor = None, !.latest = LastClosed,
                            !.plan = plan]
  <2>1. r.pc = "plan" /\ Continue(w, q)
    BY <1>8 DEF Plan, At, r
  <2>2. r.from \in Nat /\ r.to \in Int /\ r.to < clock
    BY <1>0, <2>1 DEF RunOK
  <2>3. \A win \in plan : /\ win \in [start : Int, end : Int]
                          /\ 0 <= win.start /\ win.start <= r.to
                          /\ win.start < win.end /\ win.end <= r.to + 1
    <3>1. SUFFICES ASSUME NEW win \in FetchWindows(r.from, r.to)
                   PROVE  /\ win \in [start : Int, end : Int]
                          /\ 0 <= win.start /\ win.start <= r.to
                          /\ win.start < win.end /\ win.end <= r.to + 1
      OBVIOUS
    <3>2. /\ win = Window(win.start, win.end)
          /\ win.start \in Int /\ win.end \in Int
          /\ r.from <= win.start /\ win.start <= r.to
          /\ win.start < win.end /\ win.end <= r.to + 1
      BY <2>2, FetchWindowsFacts
    <3>3. win \in [start : Int, end : Int]
      BY <3>2 DEF Window
    <3>4. QED BY <2>2, <3>2, <3>3
  <2>4. /\ "repair" \in Steps /\ None \in Maybe(Int) /\ LastClosed \in Maybe(Int)
        /\ plan \in SUBSET [start : Int, end : Int]
    BY <1>0, <2>3 DEF Steps, Maybe, LastClosed
  <2> HIDE DEF plan
  <2>5. q \in Run /\ q.pc = "repair" /\ q.to = r.to /\ q.from = r.from /\ q.plan = plan
    BY <1>0, <2>4 DEF Run
  <2> HIDE DEF q
  <2>6. RunOK(q, clock)
    BY <1>0, <2>1, <2>2, <2>3, <2>5 DEF RunOK
  <2>7. QED BY <1>3, <2>1, <2>6
<1>9. QED BY <1>5, <1>6, <1>7, <1>8

\* The steps of fix_candles after its plan.
LEMMA RepairsKeep ==
  ASSUME EngineInv, NEW w \in Workers,
         Repair(w) \/ RepairFails(w) \/ FixAborts(w) \/ Postflight(w)
  PROVE  EngineInv'
<1> DEFINE r == run[w]
<1>0. /\ r \in Run /\ RunOK(r, clock)
      /\ clock \in Nat /\ clock <= LastTick /\ LastTick \in Nat
      /\ Launch \in Nat /\ None \notin Int
      /\ \A t \in Stored : t \in Bars
  BY RunFacts
<1> HIDE DEF r
<1>1. clock' = clock /\ launchKnown' = launchKnown /\ r.pc = "repair"
  BY DEF Repair, RepairFails, FixAborts, Postflight, At, r
<1>2. StoreOK /\ MetaOK /\ RunsOK /\ ReportsOK
  BY DEF EngineInv
<1>3. /\ r.from \in Nat /\ r.to \in Int /\ r.to < clock
      /\ \A win \in r.plan : /\ win.start \in Int /\ win.end \in Int
                             /\ win.end <= r.to + 1
  <2>1. r.from \in Nat /\ r.to \in Int /\ r.to < clock
    BY <1>0, <1>1 DEF RunOK
  <2>2. \A win \in r.plan : win.end <= r.to + 1
    BY <1>0, <1>1 DEF RunOK
  <2>3. \A win \in r.plan : win \in [start : Int, end : Int]
    BY <1>0 DEF Run
  <2>4. QED BY <2>1, <2>2, <2>3
<1>4. ASSUME NEW hard \in BOOLEAN, NEW win \in r.plan
      PROVE  /\ RunOK([r EXCEPT !.plan = @ \ {win}], clock)
             /\ RunOK([r EXCEPT !.plan = @ \ {win}, !.hard = hard], clock)
  <2> DEFINE q1 == [r EXCEPT !.plan = @ \ {win}]
             q2 == [r EXCEPT !.plan = @ \ {win}, !.hard = hard]
  <2>1. /\ q1 \in Run /\ q1.pc = r.pc /\ q1.to = r.to /\ q1.from = r.from
        /\ q1.plan \subseteq r.plan
        /\ q2 \in Run /\ q2.pc = r.pc /\ q2.to = r.to /\ q2.from = r.from
        /\ q2.plan \subseteq r.plan
    BY <1>0 DEF Run
  <2> HIDE DEF q1, q2
  <2>2. RunOK(q1, clock) /\ RunOK(q2, clock)
    BY <1>0, <1>1, <2>1 DEF RunOK
  <2>3. QED BY <2>2 DEF q1, q2
<1>5. CASE Repair(w)
  <2>1. PICK win \in NextWindows(w) :
          /\ \E rows \in Answers(win) : candles' = Upserted(rows)
          /\ Continue(w, [r EXCEPT !.plan = @ \ {win}])
    BY <1>5 DEF Repair, r
  <2>2. win \in r.plan
    BY DEF NextWindows, r
  <2>3. win.start \in Int /\ win.end \in Int /\ win.end <= clock
    BY <1>0, <1>3, <2>2
  <2>4. StoreOK' /\ Stored \subseteq Stored'
    BY <1>1, <1>2, <2>1, <2>3, UpsertKeeps
  <2>5. RunOK([r EXCEPT !.plan = @ \ {win}], clock)
    BY <1>4, <2>2
  <2>6. RunsOK' /\ ReportsOK'
    BY <1>1, <1>2, <2>1, <2>4, <2>5, ContinueKeeps
  <2>7. quarantine' = quarantine
    BY <1>5 DEF Repair
  <2>8. QED BY <1>1, <1>2, <2>4, <2>6, <2>7 DEF EngineInv, MetaOK
<1>6. CASE RepairFails(w)
  <2>1. PICK win \in NextWindows(w) :
          /\ Quarantined("fetch_error")
          /\ Continue(w, [r EXCEPT !.plan = @ \ {win}, !.hard = TRUE])
    BY <1>6 DEF RepairFails, r
  <2>2. win \in r.plan
    BY DEF NextWindows, r
  <2>3. UNCHANGED <<clock, candles>>
    BY <1>6 DEF RepairFails
  <2>4. StoreOK' /\ Stored' = Stored
    BY <1>2, <2>3, StoreUnchanged
  <2>5. RunOK([r EXCEPT !.plan = @ \ {win}, !.hard = TRUE], clock)
    BY <1>4, <2>2
  <2>6. RunsOK' /\ ReportsOK'
    BY <1>1, <1>2, <2>1, <2>4, <2>5, ContinueKeeps
  <2>7. MetaOK'
    BY <1>1, <1>2, <2>1 DEF MetaOK, Quarantined
  <2>8. QED BY <2>4, <2>6, <2>7 DEF EngineInv
<1>7. CASE FixAborts(w)
  <2>1. Conclude(w, "error") /\ UNCHANGED <<clock, candles, launchKnown, quarantine>>
    BY <1>7 DEF FixAborts
  <2>2. StoreOK' /\ MetaOK' /\ Stored' = Stored
    BY <1>2, <2>1, StoreUnchanged DEF MetaOK
  <2>3. QED BY <1>2, <2>1, <2>2, ConcludeKeeps DEF EngineInv, Statuses
<1>8. CASE Postflight(w)
  <2>1. /\ Conclude(w, FixStatus(r)) /\ UNCHANGED <<clock, candles, launchKnown>>
        /\ quarantine' = quarantine \/ Quarantined("postflight_gaps")
    BY <1>8 DEF Postflight, r
  <2>2. StoreOK' /\ MetaOK' /\ Stored' = Stored
    BY <1>2, <2>1, StoreUnchanged DEF MetaOK, Quarantined
  <2>3. FixStatus(r) \in Statuses
    BY DEF FixStatus, Statuses
  <2>4. ASSUME FixStatus(r) = "ok"
        PROVE  r.from .. r.to \subseteq Stored /\ r.latest \in Stored
    <3>1. Gaps(r.from, r.to) = {} /\ r.latest \in Stored
      BY <2>4 DEF FixStatus
    <3>2. QED BY <1>3, <3>1, NoGapsComplete
  <2>5. QED BY <1>2, <2>1, <2>2, <2>3, <2>4, ConcludeKeeps DEF EngineInv, r
<1>9. QED BY <1>5, <1>6, <1>7, <1>8

\* The clock, and the beginning and the sudden end of a run.
LEMMA OthersKeep ==
  ASSUME EngineInv,
         \/ Tick
         \/ \E w \in Workers : Start(w) \/ ResolveLaunch(w) \/ LaunchFails(w) \/ Kill(w)
  PROVE  EngineInv'
<1>0. StoreOK /\ MetaOK /\ RunsOK /\ ReportsOK /\ clock \in Nat /\ clock <= LastTick
  BY ClockFacts DEF EngineInv
<1>1. CASE Tick
  <2>1. /\ clock' = clock + 1 /\ clock' \in Bars
        /\ UNCHANGED <<candles, launchKnown, quarantine, run, report>>
    BY <1>0, <1>1, EngineAssumption DEF Tick, Bars, EngineAssumption
  <2>2. StoreOK' /\ Stored' = Stored
    BY <1>0, <2>1 DEF StoreOK, Stored
  <2>3. \A r : RunOK(r, clock) => RunOK(r, clock')
    <3>1. \A r : RunOK(r, clock) /\ r.pc \notin {"idle", "launch"} => r.to \in Int
      BY DEF RunOK
    <3>2. \A r : RunOK(r, clock) /\ r.pc \notin {"idle", "launch"} => r.to < clock'
      BY <1>0, <2>1, <3>1 DEF RunOK
    <3>3. QED BY <3>2 DEF RunOK
  <2>4. RunsOK' /\ ReportsOK' /\ MetaOK'
    BY <1>0, <2>1, <2>2, <2>3 DEF RunsOK, ReportsOK, MetaOK
  <2>5. QED BY <2>2, <2>4 DEF EngineInv
<1>2. ASSUME NEW w \in Workers, Start(w) \/ ResolveLaunch(w) \/ LaunchFails(w) \/ Kill(w)
      PROVE  EngineInv'
  <2>1. UNCHANGED <<clock, candles, quarantine>> /\ launchKnown' \in BOOLEAN
    BY <1>0, <1>2 DEF Start, ResolveLaunch, LaunchFails, Kill, MetaOK
  <2>2. StoreOK' /\ MetaOK' /\ Stored' = Stored
    BY <1>0, <2>1, StoreUnchanged DEF MetaOK
  <2>3. CASE Start(w)
    <3>1. PICK cmd \in {"backfill", "fix"} :
            run' = [run EXCEPT ![w] = [Idle EXCEPT !.pc = "launch", !.cmd = cmd]]
      BY <2>3, EngineAssumption DEF Start, EngineAssumption
    <3>2. report' = [report EXCEPT ![w] = None]
      BY <2>3 DEF Start
    <3>3. RunOK([Idle EXCEPT !.pc = "launch", !.cmd = cmd], clock)
      BY DEF RunOK, Run, Idle, Steps, Maybe
    <3>4. RunsOK' /\ ReportsOK'
      BY <1>0, <2>1, <2>2, <3>1, <3>2, <3>3 DEF RunsOK, ReportsOK, ReportOK
    <3>5. QED BY <2>2, <3>4 DEF EngineInv
  <2>4. CASE ResolveLaunch(w)
    <3> DEFINE r == run[w]
               pc == IF r.cmd = "fix" THEN "min" ELSE "max"
               q == [r EXCEPT !.pc = pc, !.to = LastClosed]
    <3>1. r.pc = "launch" /\ Continue(w, q)
      BY <2>4 DEF ResolveLaunch
    <3>2. r \in Run /\ r.from = None
      BY <1>0, <3>1 DEF RunsOK, RunOK
    <3>3. /\ pc \in Steps /\ pc \in {"min", "max"} /\ (r.cmd = "backfill" => pc = "max")
          /\ LastClosed \in Maybe(Int) /\ LastClosed \in -1 .. LastTick - 1 /\ LastClosed < clock
      BY <1>0, EngineAssumption DEF Steps, Maybe, LastClosed, EngineAssumption
    <3> HIDE DEF r, pc
    <3>4. q \in Run /\ q.pc = pc /\ q.to = LastClosed /\ q.from = r.from /\ q.cmd = r.cmd
      BY <3>2, <3>3 DEF Run
    <3> HIDE DEF q
    <3>5. RunOK(q, clock)
      BY <3>2, <3>3, <3>4 DEF RunOK
    <3>6. RunsOK' /\ ReportsOK'
      BY <1>0, <2>1, <2>2, <3>1, <3>5, ContinueKeeps
    <3>7. QED BY <2>2, <3>6 DEF EngineInv
  <2>5. CASE LaunchFails(w) \/ Kill(w)
    <3>1. Conclude(w, "error") \/ Die(w)
      BY <2>5 DEF LaunchFails, Kill
    <3>2. RunsOK' /\ ReportsOK'
      BY <1>0, <2>1, <2>2, <3>1, ConcludeKeeps, DieKeeps DEF Statuses
    <3>3. QED BY <2>2, <3>2 DEF EngineInv
  <2>6. QED BY <1>2, <2>3, <2>4, <2>5
<1>3. QED BY <1>1, <1>2

(***************************************************************************)
(* The theorems.                                                            *)
(***************************************************************************)

LEMMA EngineInductive == Spec => []EngineInv
<1>1. Init => EngineInv
  <2> SUFFICES ASSUME Init PROVE EngineInv
    OBVIOUS
  <2>1. Stored = {} /\ StoreOK
    BY DEF Init, StoreOK, Stored, Bars
  <2>2. RunsOK
    BY IdleOK DEF Init, RunsOK
  <2>3. ReportsOK /\ MetaOK
    BY DEF Init, ReportsOK, ReportOK, MetaOK
  <2>4. QED BY <2>1, <2>2, <2>3 DEF EngineInv
<1>2. EngineInv /\ [Next]_vars => EngineInv'
  <2> SUFFICES ASSUME EngineInv, [Next]_vars PROVE EngineInv'
    OBVIOUS
  <2>1. CASE Next
    BY <2>1, BackfillKeeps, FixPlansKeep, RepairsKeep, OthersKeep DEF Next, Step
  <2>2. CASE UNCHANGED vars
    BY <2>2 DEF vars, EngineInv, StoreOK, MetaOK, RunsOK, ReportsOK, Stored
  <2>3. QED BY <2>1, <2>2
<1>3. QED BY <1>1, <1>2, PTL DEF Spec

\* Every run is at a step of its command, with the bars that step needs.
THEOREM TypeCorrect == Spec => []TypeOK
<1>1. EngineInv => TypeOK
  <2> SUFFICES ASSUME EngineInv PROVE TypeOK
    OBVIOUS
  <2>1. /\ clock \in Bars /\ Stored \subseteq Bars /\ candles \in [Stored -> Qualities]
        /\ launchKnown \in BOOLEAN /\ quarantine \subseteq {"fetch_error", "postflight_gaps"}
    BY EngineAssumption, ClockFacts DEF EngineInv, StoreOK, MetaOK, EngineAssumption, Bars
  <2>2. ASSUME NEW w \in Workers, run[w].pc = "repair"
        PROVE  run[w].plan \subseteq Windows
    <3>1. RunOK(run[w], clock) /\ LastTick \in Nat
      BY RunFacts
    <3>2. SUFFICES ASSUME NEW win \in run[w].plan PROVE win \in Windows
      OBVIOUS
    <3>3. /\ win \in [start : Int, end : Int] /\ run[w].to \in -1 .. LastTick - 1
          /\ 0 <= win.start /\ win.start <= run[w].to
          /\ win.start < win.end /\ win.end <= run[w].to + 1
      BY <2>2, <3>1 DEF RunOK, Run
    <3>4. win.start \in Bars /\ win.end \in Bars
      BY <3>1, <3>3 DEF Bars
    <3>5. QED BY <3>3, <3>4 DEF Windows
  <2>3. \A w \in Workers : RunOK(run[w], clock) /\ ReportOK(report[w], Stored)
    BY DEF EngineInv, RunsOK, ReportsOK
  <2>4. \A w \in Workers : run[w].pc \in Steps
    BY <2>3 DEF RunOK, Run
  <2>5. QED BY <2>1, <2>2, <2>3, <2>4 DEF TypeOK, RunOK, ReportOK, Steps, Statuses
<1>2. QED BY <1>1, EngineInductive, PTL

\* A bar that is still forming is never stored (last_closed_open_time_ms), by any
\* number of processes, whenever the clock moves on.
THEOREM OnlyClosedStored == Spec => []OnlyClosedCandles
<1>1. EngineInv => OnlyClosedCandles
  BY DEF EngineInv, StoreOK, OnlyClosedCandles
<1>2. QED BY <1>1, EngineInductive, PTL

\* An ok report is true when it is printed and stays true: the count of
\* _run_backfill and the gap search of fix_candles each imply that the window is
\* stored in full, and nothing removes a stored bar.
THEOREM OkAlwaysComplete == Spec => []OkStaysComplete
<1>1. EngineInv => OkStaysComplete
  BY DEF EngineInv, ReportsOK, ReportOK, OkStaysComplete
<1>2. QED BY <1>1, EngineInductive, PTL

(***************************************************************************)
(* Backfills against an exchange that answers in full.                      *)
(***************************************************************************)
OnlyBackfills == Partial = FALSE /\ Commands \subseteq {"backfill"}

Through(t) == FirstListed .. t

\* BackfillLeavesNoHoles is not inductive: a hole could be made by a run that is
\* past it.  What is stored is a prefix of what the exchange lists, and every run
\* has everything before its cursor behind it.
PrefixInv ==
  /\ \A t \in Stored : Through(t) \subseteq Stored
  /\ \A w \in Workers : /\ run[w].pc # "idle" => run[w].cmd # "fix"
                        /\ run[w].pc \in {"min", "fetch"} => Through(run[w].cursor - 1) \subseteq Stored

\* A process that goes on from a bar everything before which is stored.
LEMMA PrefixContinues ==
  ASSUME EngineInv, PrefixInv, NEW w \in Workers, NEW r, run' = [run EXCEPT ![w] = r],
         r.pc # "idle" => r.cmd # "fix",
         r.pc \in {"min", "fetch"} => Through(r.cursor - 1) \subseteq Stored',
         Stored \subseteq Stored', \A t \in Stored' : Through(t) \subseteq Stored'
  PROVE  PrefixInv'
<1>1. ASSUME NEW v \in Workers
      PROVE  /\ run'[v].pc # "idle" => run'[v].cmd # "fix"
             /\ run'[v].pc \in {"min", "fetch"} => Through(run'[v].cursor - 1) \subseteq Stored'
  <2>1. run'[v] = run[v] \/ run'[v] = r
    BY DEF EngineInv, RunsOK
  <2>2. QED BY <2>1 DEF PrefixInv
<1>2. QED BY <1>1 DEF PrefixInv

\* A process that stops leaves what it stored.
LEMMA PrefixStops ==
  ASSUME EngineInv, PrefixInv, NEW w \in Workers, run' = [run EXCEPT ![w] = Idle],
         UNCHANGED candles
  PROVE  PrefixInv'
<1>1. Idle.pc = "idle" /\ Stored' = Stored
  BY DEF Idle, Stored
<1>2. QED BY <1>1, PrefixContinues DEF PrefixInv

\* The answer to a request is all that is listed of its window.
LEMMA FullAnswer ==
  ASSUME OnlyBackfills, NEW win, NEW rows \in Answers(win)
  PROVE  DOMAIN rows = Listed(win)
BY DEF OnlyBackfills, Answers

\* Every step of a backfill keeps the prefix.
LEMMA PrefixKept ==
  ASSUME OnlyBackfills, EngineInv, PrefixInv, NEW w \in Workers, Start(w) \/ Step(w) \/ Kill(w)
  PROVE  PrefixInv'
<1> DEFINE r == run[w]
<1>0. /\ r \in Run /\ RunOK(r, clock)
      /\ clock \in Nat /\ None \notin Int /\ Launch \in Nat /\ FirstListed \in Nat
      /\ Launch <= FirstListed
      /\ \A t \in Stored : t \in Bars
  BY RunFacts, EngineAssumption DEF EngineAssumption
<1>1. /\ \A t \in Stored : Through(t) \subseteq Stored
      /\ r.pc # "idle" => r.cmd # "fix"
      /\ r.pc \in {"min", "fetch"} => Through(r.cursor - 1) \subseteq Stored
  BY DEF PrefixInv
<1> HIDE DEF r
<1>2. CASE Start(w)
  <2>1. PICK cmd \in Commands : run' = [run EXCEPT ![w] = [Idle EXCEPT !.pc = "launch", !.cmd = cmd]]
    BY <1>2 DEF Start
  <2> DEFINE q == [Idle EXCEPT !.pc = "launch", !.cmd = cmd]
  <2>2. q.pc = "launch" /\ q.cmd = cmd /\ cmd # "fix"
    BY DEF Idle, OnlyBackfills
  <2> HIDE DEF q
  <2>3. Stored' = Stored
    BY <1>2 DEF Start, Stored
  <2>4. run' = [run EXCEPT ![w] = q]
    BY <2>1 DEF q
  <2>5. QED BY <1>1, <2>2, <2>3, <2>4, PrefixContinues
<1>3. CASE ResolveLaunch(w)
  <2> DEFINE q == [r EXCEPT !.pc = IF r.cmd = "fix" THEN "min" ELSE "max", !.to = LastClosed]
  <2>1. run' = [run EXCEPT ![w] = q] /\ UNCHANGED candles /\ r.pc = "launch"
    BY <1>3 DEF ResolveLaunch, Continue, r
  <2>2. q.pc = "max" /\ q.cmd # "fix" /\ Stored' = Stored
    BY <1>0, <1>1, <2>1 DEF Run, Stored
  <2> HIDE DEF q
  <2>3. QED BY <1>1, <2>1, <2>2, PrefixContinues
<1>4. CASE ReadMax(w)
  <2>1. /\ UNCHANGED candles /\ r.pc = "max" /\ Stored' = Stored
        /\ \E c \in Nat : /\ run' = [run EXCEPT ![w] = [r EXCEPT !.pc = "min", !.cursor = c]]
                          /\ Through(c - 1) \subseteq Stored
    <3>1. UNCHANGED candles /\ r.pc = "max" /\ Stored' = Stored
      BY <1>4 DEF ReadMax, At, Stored, r
    <3>2. CASE Continue(w, [r EXCEPT !.pc = "min", !.cursor = Launch])
      <4>1. Through(Launch - 1) \subseteq Stored
        BY <1>0 DEF Through
      <4>2. QED BY <1>0, <3>1, <3>2, <4>1 DEF Continue
    <3>3. CASE \E newest \in Latest(Stored) : Continue(w, [r EXCEPT !.pc = "min", !.cursor = newest + 1])
      <4>1. PICK newest \in Latest(Stored) : Continue(w, [r EXCEPT !.pc = "min", !.cursor = newest + 1])
        BY <3>3
      <4>2. newest \in Stored /\ newest + 1 \in Nat /\ (newest + 1) - 1 = newest
        BY <1>0 DEF Latest, Bars
      <4>3. Through((newest + 1) - 1) \subseteq Stored
        BY <1>1, <4>2
      <4>4. QED BY <3>1, <4>1, <4>2, <4>3 DEF Continue
    <3>4. QED BY <1>4, <3>2, <3>3 DEF ReadMax, r
  <2>2. PICK c \in Nat : /\ run' = [run EXCEPT ![w] = [r EXCEPT !.pc = "min", !.cursor = c]]
                         /\ Through(c - 1) \subseteq Stored
    BY <2>1
  <2> DEFINE q == [r EXCEPT !.pc = "min", !.cursor = c]
  <2>3. q.cmd = r.cmd /\ q.cursor = c
    BY <1>0 DEF Run
  <2>4. run' = [run EXCEPT ![w] = q]
    BY <2>2
  <2> HIDE DEF q
  <2>5. QED BY <1>1, <2>1, <2>2, <2>3, <2>4, PrefixContinues
<1>5. CASE ReadMin(w)
  <2>1. /\ UNCHANGED candles /\ r.pc = "min" /\ Stored' = Stored
        /\ \E f \in Bars \cup {r.from} : run' = [run EXCEPT ![w] = [r EXCEPT !.pc = "fetch", !.from = f]]
    <3>1. UNCHANGED candles /\ r.pc = "min" /\ Stored' = Stored
      BY <1>5 DEF ReadMin, At, Stored, r
    <3>2. CASE Continue(w, [r EXCEPT !.pc = "fetch"])
      <4>1. [r EXCEPT !.pc = "fetch"] = [r EXCEPT !.pc = "fetch", !.from = r.from]
        BY <1>0 DEF Run
      <4>2. QED BY <3>1, <3>2, <4>1 DEF Continue
    <3>3. CASE \E oldest \in Oldest(Stored) : Continue(w, [r EXCEPT !.pc = "fetch", !.from = oldest])
      BY <1>0, <3>1, <3>3 DEF Oldest, Continue
    <3>4. QED BY <1>5, <3>2, <3>3 DEF ReadMin, r
  <2>2. PICK f : run' = [run EXCEPT ![w] = [r EXCEPT !.pc = "fetch", !.from = f]]
    BY <2>1
  <2> DEFINE q == [r EXCEPT !.pc = "fetch", !.from = f]
  <2>3. q.cmd = r.cmd /\ q.cursor = r.cursor
    BY <1>0 DEF Run
  <2>4. run' = [run EXCEPT ![w] = q]
    BY <2>2
  <2> HIDE DEF q
  <2>5. QED BY <1>1, <2>1, <2>3, <2>4, PrefixContinues
<1> DEFINE chunk == Chunk(r.cursor, r.to)
<1>6. ASSUME StoreChunk(w) \/ EmptyChunk(w)
      PROVE  /\ r.pc = "fetch" /\ r.cursor \in Nat /\ r.to \in Int /\ r.to < clock
             /\ chunk.start = r.cursor /\ chunk.end \in Nat
             /\ r.cursor < chunk.end /\ chunk.end <= clock
             /\ \A rows \in Answers(chunk) :
                  DOMAIN rows = {t \in r.cursor .. chunk.end - 1 : FirstListed <= t}
  <2>1. r.pc = "fetch" /\ r.cursor <= r.to
    BY <1>6 DEF StoreChunk, EmptyChunk, Fetching, At, r
  <2>2. r.cursor \in Nat /\ r.to \in Int /\ r.to < clock
    BY <1>0, <2>1 DEF RunOK
  <2>3. /\ chunk.start = r.cursor /\ chunk.end \in Nat
        /\ r.cursor < chunk.end /\ chunk.end <= r.to + 1
    BY <2>1, <2>2, ChunkFacts
  <2> HIDE DEF chunk
  <2>4. Listed(chunk) = {t \in r.cursor .. chunk.end - 1 : FirstListed <= t}
    BY <1>0, <2>2, <2>3 DEF Listed
  <2>5. QED BY <1>0, <2>1, <2>2, <2>3, <2>4, FullAnswer
<1> HIDE DEF chunk
<1>7. CASE StoreChunk(w)
  <2>1. PICK rows \in Answers(chunk) :
          /\ candles' = Upserted(rows)
          /\ \E oldest : run' = [run EXCEPT ![w] = [r EXCEPT !.cursor = chunk.end,
                                      !.from = IF r.from = None THEN oldest ELSE r.from]]
    BY <1>7 DEF StoreChunk, Continue, chunk, r
  <2>2. Stored' = Stored \cup DOMAIN rows
    BY <2>1 DEF Upserted, Stored
  <2>3. DOMAIN rows = {t \in r.cursor .. chunk.end - 1 : FirstListed <= t}
    BY <1>6, <1>7
  <2>4. Through(r.cursor - 1) \subseteq Stored /\ r.cursor \in Nat /\ chunk.end \in Nat
    BY <1>1, <1>6, <1>7
  <2>5. Through(chunk.end - 1) \subseteq Stored'
    BY <1>0, <2>2, <2>3, <2>4 DEF Through
  <2>6. \A t \in Stored' : Through(t) \subseteq Stored'
    <3>1. SUFFICES ASSUME NEW t \in DOMAIN rows PROVE Through(t) \subseteq Stored'
      BY <1>1, <2>2
    <3>2. Through(t) \subseteq Through(chunk.end - 1)
      BY <1>0, <2>3, <2>4 DEF Through
    <3>3. QED BY <2>5, <3>2
  <2>7. PICK oldest : run' = [run EXCEPT ![w] = [r EXCEPT !.cursor = chunk.end,
                                      !.from = IF r.from = None THEN oldest ELSE r.from]]
    BY <2>1
  <2> DEFINE q == [r EXCEPT !.cursor = chunk.end,
                            !.from = IF r.from = None THEN oldest ELSE r.from]
  <2>8. q.cmd = r.cmd /\ q.cursor = chunk.end /\ q.pc = r.pc
    BY <1>0 DEF Run
  <2>9. run' = [run EXCEPT ![w] = q]
    BY <2>7
  <2> HIDE DEF q
  <2>10. QED BY <1>1, <2>2, <2>5, <2>6, <2>8, <2>9, PrefixContinues
<1>8. CASE EmptyChunk(w)
  <2>1. UNCHANGED candles /\ Stored' = Stored
    BY <1>8 DEF EmptyChunk, Stored
  <2>2. CASE Conclude(w, "error")
    BY <2>1, <2>2, PrefixStops DEF Conclude
  <2>3. CASE Continue(w, [r EXCEPT !.cursor = chunk.end])
    <3>1. PICK rows \in Answers(chunk) : DOMAIN rows = {}
      BY <1>8 DEF EmptyChunk, chunk, r
    <3>2. \A t \in r.cursor .. chunk.end - 1 : t < FirstListed
      <4>1. {t \in r.cursor .. chunk.end - 1 : FirstListed <= t} = {}
        BY <1>6, <1>8, <3>1
      <4>2. r.cursor \in Int /\ chunk.end \in Int
        BY <1>6, <1>8
      <4>3. QED BY <1>0, <4>1, <4>2
    <3>3. r.cursor \in Nat /\ chunk.end \in Nat /\ Through(r.cursor - 1) \subseteq Stored
      BY <1>1, <1>6, <1>8
    <3>4. Through(chunk.end - 1) \subseteq Stored
      BY <1>0, <3>2, <3>3 DEF Through
    <3> DEFINE q == [r EXCEPT !.cursor = chunk.end]
    <3>5. q.cmd = r.cmd /\ q.cursor = chunk.end /\ q.pc = r.pc
      BY <1>0 DEF Run
    <3>6. run' = [run EXCEPT ![w] = q]
      BY <2>3 DEF Continue
    <3> HIDE DEF q
    <3>7. QED BY <1>1, <2>1, <3>4, <3>5, <3>6, PrefixContinues
  <2>4. QED BY <1>8, <2>2, <2>3 DEF EmptyChunk, chunk, r
<1>9. CASE LaunchFails(w) \/ BackfillFails(w) \/ CheckCount(w) \/ Kill(w)
  <2>1. UNCHANGED candles /\ run' = [run EXCEPT ![w] = Idle]
    BY <1>9 DEF LaunchFails, BackfillFails, CheckCount, Kill, Conclude, Die
  <2>2. QED BY <2>1, PrefixStops
<1>10. ~(\/ FindStart(w) \/ Discover(w) \/ FixDies(w) \/ Plan(w) \/ Repair(w) \/ RepairFails(w)
         \/ FixAborts(w) \/ Postflight(w))
  BY <1>1 DEF FindStart, Discover, FixDies, Plan, Repair, RepairFails, FixAborts, Postflight, At, r
<1>11. QED
  BY <1>2, <1>3, <1>4, <1>5, <1>7, <1>8, <1>9, <1>10 DEF Step

\* However many backfills run at once and wherever they fail or are killed, no hole
\* is left between two stored bars, when the exchange answers in full.
THEOREM BackfillsLeaveNoHoles ==
  ASSUME OnlyBackfills
  PROVE  Spec => []BackfillLeavesNoHoles
<1>1. Init => PrefixInv
  BY DEF Init, PrefixInv, Stored, Idle
<1>2. EngineInv /\ PrefixInv /\ [Next]_vars => PrefixInv'
  <2> SUFFICES ASSUME EngineInv, PrefixInv, [Next]_vars PROVE PrefixInv'
    OBVIOUS
  <2>1. CASE \E w \in Workers : Start(w) \/ Step(w) \/ Kill(w)
    BY <2>1, PrefixKept
  <2>2. CASE Tick
    BY <2>2 DEF Tick, PrefixInv, Stored
  <2>3. CASE UNCHANGED vars
    BY <2>3 DEF vars, PrefixInv, Stored
  <2>4. QED BY <2>1, <2>2, <2>3 DEF Next
<1>3. EngineInv /\ PrefixInv => BackfillLeavesNoHoles
  <2> SUFFICES ASSUME EngineInv, PrefixInv, NEW a \in Stored, NEW b \in Stored
               PROVE  a .. b \subseteq Stored
    BY DEF BackfillLeavesNoHoles
  <2>1. a \in Int /\ b \in Int /\ FirstListed <= a /\ FirstListed \in Int
    BY EngineAssumption DEF EngineInv, StoreOK, EngineAssumption
  <2>2. a .. b \subseteq Through(b)
    BY <2>1 DEF Through
  <2>3. QED BY <2>2 DEF PrefixInv
<1>4. QED BY <1>1, <1>2, <1>3, EngineInductive, PTL DEF Spec

(***************************************************************************)
(* Repairs against an exchange that answers in full.                        *)
(***************************************************************************)
\* What a run of fix_candles has still to close: every listed bar of its window
\* is stored or planned, unless a request failed.
RepairCovers(r, stored) ==
  r.cmd = "fix" /\ r.pc = "repair" /\ r.hard = FALSE =>
    \A t \in r.from .. r.to :
      FirstListed <= t => t \in stored \/ \E win \in r.plan : win.start <= t /\ t < win.end

ReportCovers(o, stored) ==
  o # None /\ o.cmd = "fix" /\ o.status # "error" /\ o.from >= FirstListed
    => o.from .. o.to \subseteq stored

\* RepairClosesWindow speaks of reports; it is inductive together with what the
\* plans of the runs still cover.
RepairInv ==
  /\ \A w \in Workers : RepairCovers(run[w], Stored)
  /\ \A w \in Workers : ReportCovers(report[w], Stored)

\* Bars are only ever added.
LEMMA StoreGrows ==
  ASSUME NEW w \in Workers, Step(w)
  PROVE  Stored \subseteq Stored'
<1>1. \A rows : Stored \subseteq DOMAIN Upserted(rows)
  BY DEF Upserted
<1>2. CASE StoreChunk(w)
  BY <1>1, <1>2 DEF StoreChunk, Stored
<1>3. CASE Repair(w)
  BY <1>1, <1>3 DEF Repair, Stored
<1>4. CASE \/ ResolveLaunch(w) \/ LaunchFails(w) \/ ReadMax(w) \/ ReadMin(w)
           \/ EmptyChunk(w) \/ BackfillFails(w) \/ CheckCount(w)
  <2>1. UNCHANGED candles
    BY <1>4 DEF ResolveLaunch, LaunchFails, ReadMax, ReadMin, EmptyChunk, BackfillFails, CheckCount
  <2>2. QED BY <2>1 DEF Stored
<1>5. CASE \/ FindStart(w) \/ Discover(w) \/ FixDies(w) \/ Plan(w)
           \/ RepairFails(w) \/ FixAborts(w) \/ Postflight(w)
  <2>1. UNCHANGED candles
    BY <1>5 DEF FindStart, Discover, FixDies, Plan, RepairFails, FixAborts, Postflight
  <2>2. QED BY <2>1 DEF Stored
<1>6. QED BY <1>2, <1>3, <1>4, <1>5 DEF Step

\* One process takes a step to r and leaves the report o; all others stay.
LEMMA RepairInvStep ==
  ASSUME EngineInv, RepairInv, NEW w \in Workers, NEW r, NEW o,
         run' = [run EXCEPT ![w] = r],
         \A v \in Workers : report'[v] = IF v = w THEN o ELSE report[v],
         Stored \subseteq Stored', RepairCovers(r, Stored'), ReportCovers(o, Stored')
  PROVE  RepairInv'
<1>1. ASSUME NEW v \in Workers
      PROVE  RepairCovers(run'[v], Stored') /\ ReportCovers(report'[v], Stored')
  <2>1. CASE v = w
    BY <2>1 DEF EngineInv, RunsOK
  <2>2. CASE v # w
    <3>1. run'[v] = run[v] /\ report'[v] = report[v]
      BY <2>2 DEF EngineInv, RunsOK
    <3>2. RepairCovers(run[v], Stored) /\ ReportCovers(report[v], Stored)
      BY DEF RepairInv
    <3>3. QED BY <3>1, <3>2 DEF RepairCovers, ReportCovers
  <2>3. QED BY <2>1, <2>2
<1>2. QED BY <1>1 DEF RepairInv

\* Every step of a process keeps it: a plan covers what is missing, an answer in
\* full stores what is listed of its window, and an empty plan leaves nothing.
LEMMA RepairKept ==
  ASSUME Partial = FALSE, EngineInv, RepairInv,
         NEW w \in Workers, Start(w) \/ Step(w) \/ Kill(w)
  PROVE  RepairInv'
<1> DEFINE r == run[w]
<1>0. /\ r \in Run /\ RunOK(r, clock) /\ FirstListed \in Nat
      /\ clock \in Nat /\ clock <= LastTick /\ LastTick \in Nat
      /\ DOMAIN report = Workers
      /\ RepairCovers(r, Stored) /\ ReportCovers(report[w], Stored)
  BY RunFacts, EngineAssumption DEF EngineAssumption, EngineInv, ReportsOK, RepairInv
<1> HIDE DEF r
<1>a. Stored \subseteq Stored'
  <2>1. CASE Start(w) \/ Kill(w)
    BY <2>1 DEF Start, Kill, Stored
  <2>2. QED BY <2>1, StoreGrows
<1>1. ReportCovers(report[w], Stored')
  BY <1>0, <1>a DEF ReportCovers
<1>2. ASSUME NEW q, Continue(w, q), RepairCovers(q, Stored')
      PROVE  RepairInv'
  <2>1. run' = [run EXCEPT ![w] = q] /\ report' = report
    BY <1>2 DEF Continue
  <2>2. \A v \in Workers : report'[v] = IF v = w THEN report[w] ELSE report[v]
    BY <2>1
  <2>3. QED BY <1>1, <1>2, <1>a, <2>1, <2>2, RepairInvStep
\* A run that is not a repair in its last phase owes nothing.
<1>3. \A q : q.pc # "repair" \/ q.cmd # "fix" => RepairCovers(q, Stored')
  BY DEF RepairCovers
<1>4. RepairCovers(Idle, Stored') /\ ReportCovers(None, Stored')
  BY DEF Idle, RepairCovers, ReportCovers
<1>5. ASSUME NEW status, Conclude(w, status), ReportCovers(Result(w, status), Stored')
      PROVE  RepairInv'
  <2>1. run' = [run EXCEPT ![w] = Idle] /\ report' = [report EXCEPT ![w] = Result(w, status)]
    BY <1>5 DEF Conclude
  <2>2. \A v \in Workers : report'[v] = IF v = w THEN Result(w, status) ELSE report[v]
    BY <1>0, <2>1
  <2>3. QED BY <1>4, <1>5, <1>a, <2>1, <2>2, RepairInvStep
<1>6. ASSUME Die(w) PROVE RepairInv'
  BY <1>2, <1>4, <1>6 DEF Die, Continue
<1>7. CASE Start(w)
  <2>1. PICK cmd \in Commands : run' = [run EXCEPT ![w] = [Idle EXCEPT !.pc = "launch", !.cmd = cmd]]
    BY <1>7 DEF Start
  <2> DEFINE q == [Idle EXCEPT !.pc = "launch", !.cmd = cmd]
  <2>2. q.pc # "repair" /\ report' = [report EXCEPT ![w] = None] /\ run' = [run EXCEPT ![w] = q]
    BY <1>7, <2>1 DEF Idle, Start
  <2> HIDE DEF q
  <2>3. \A v \in Workers : report'[v] = IF v = w THEN None ELSE report[v]
    BY <1>0, <2>2
  <2>4. QED BY <1>3, <1>4, <1>a, <2>2, <2>3, RepairInvStep
<1>8. ASSUME r.cmd = "backfill", NEW status, Conclude(w, status)
      PROVE  RepairInv'
  <2>1. ReportCovers(Result(w, status), Stored')
    BY <1>8 DEF Result, ReportCovers, r
  <2>2. QED BY <1>5, <1>8, <2>1
<1>9. CASE LaunchFails(w) \/ BackfillFails(w) \/ CheckCount(w) \/ Kill(w) \/ FixDies(w)
  <2>1. Die(w) \/ (r.cmd = "backfill" /\ \E status : Conclude(w, status))
    BY <1>9 DEF LaunchFails, BackfillFails, CheckCount, Kill, FixDies, Fetching, At, r
  <2>2. QED BY <1>6, <1>8, <2>1
<1>b. CASE StoreChunk(w) \/ EmptyChunk(w)
  <2>1. r.pc = "fetch" /\ r.cmd = "backfill"
    BY <1>b DEF StoreChunk, EmptyChunk, Fetching, At, r
  <2>2. CASE \E status : Conclude(w, status)
    BY <1>8, <2>1, <2>2
  <2>3. ASSUME NEW c, NEW f, Continue(w, [r EXCEPT !.cursor = c, !.from = f])
        PROVE  RepairInv'
    <3> DEFINE q == [r EXCEPT !.cursor = c, !.from = f]
    <3>1. q.pc = "fetch"
      BY <1>0, <2>1 DEF Run
    <3> HIDE DEF q
    <3>2. QED BY <1>2, <1>3, <2>3, <3>1 DEF q
  <2>4. ASSUME NEW c, Continue(w, [r EXCEPT !.cursor = c])
        PROVE  RepairInv'
    <3> DEFINE q == [r EXCEPT !.cursor = c]
    <3>1. q.pc = "fetch"
      BY <1>0, <2>1 DEF Run
    <3> HIDE DEF q
    <3>2. QED BY <1>2, <1>3, <2>4, <3>1 DEF q
  <2>5. CASE StoreChunk(w)
    <3>1. \E c, f : Continue(w, [r EXCEPT !.cursor = c, !.from = f])
      BY <2>5 DEF StoreChunk, r
    <3>2. QED BY <2>3, <3>1
  <2>6. CASE EmptyChunk(w)
    <3>1. (\E c : Continue(w, [r EXCEPT !.cursor = c])) \/ Conclude(w, "error")
      BY <2>6 DEF EmptyChunk, r
    <3>2. QED BY <2>2, <2>4, <3>1
  <2>7. QED BY <1>b, <2>5, <2>6
<1>c. CASE \/ ResolveLaunch(w) \/ ReadMax(w) \/ ReadMin(w) \/ FindStart(w) \/ Discover(w)
  <2>1. ASSUME NEW pc, pc # "repair", NEW x,
               \/ Continue(w, [r EXCEPT !.pc = pc, !.to = x])
               \/ Continue(w, [r EXCEPT !.pc = pc, !.cursor = x])
               \/ Continue(w, [r EXCEPT !.pc = pc, !.from = x])
               \/ Continue(w, [r EXCEPT !.pc = pc])
        PROVE  RepairInv'
    <3>1. ASSUME NEW q, q.pc = pc, Continue(w, q) PROVE RepairInv'
      BY <1>2, <1>3, <2>1, <3>1
    <3> DEFINE q1 == [r EXCEPT !.pc = pc, !.to = x]
               q2 == [r EXCEPT !.pc = pc, !.cursor = x]
               q3 == [r EXCEPT !.pc = pc, !.from = x]
               q4 == [r EXCEPT !.pc = pc]
    <3>2. q1.pc = pc /\ q2.pc = pc /\ q3.pc = pc /\ q4.pc = pc
      BY <1>0 DEF Run
    <3>3. Continue(w, q1) \/ Continue(w, q2) \/ Continue(w, q3) \/ Continue(w, q4)
      BY <2>1
    <3> HIDE DEF q1, q2, q3, q4
    <3>4. QED BY <3>1, <3>2, <3>3
  <2>2. CASE ResolveLaunch(w)
    <3>1. \/ Continue(w, [r EXCEPT !.pc = "min", !.to = LastClosed])
          \/ Continue(w, [r EXCEPT !.pc = "max", !.to = LastClosed])
      BY <2>2 DEF ResolveLaunch, r
    <3>2. QED BY <2>1, <3>1
  <2>3. CASE ReadMax(w)
    <3>1. \E x : Continue(w, [r EXCEPT !.pc = "min", !.cursor = x])
      BY <2>3 DEF ReadMax, r
    <3>2. QED BY <2>1, <3>1
  <2>4. CASE ReadMin(w)
    <3>1. \/ Continue(w, [r EXCEPT !.pc = "fetch"])
          \/ \E x : Continue(w, [r EXCEPT !.pc = "fetch", !.from = x])
      BY <2>4 DEF ReadMin, r
    <3>2. QED BY <2>1, <3>1
  <2>5. CASE FindStart(w)
    <3>1. \/ Continue(w, [r EXCEPT !.pc = "discover", !.cursor = Launch])
          \/ \E x : Continue(w, [r EXCEPT !.pc = "plan", !.from = x])
      BY <2>5 DEF FindStart, r
    <3>2. QED BY <2>1, <3>1
  <2>6. CASE Discover(w)
    <3>1. /\ r.pc = "discover"
          /\ \/ \E x : Continue(w, [r EXCEPT !.cursor = x])
             \/ \E x : Continue(w, [r EXCEPT !.pc = "plan", !.from = x])
      BY <2>6 DEF Discover, At, r
    <3>2. ASSUME NEW x, Continue(w, [r EXCEPT !.cursor = x])
          PROVE  RepairInv'
      <4> DEFINE q == [r EXCEPT !.cursor = x]
      <4>1. q.pc = "discover"
        BY <1>0, <3>1 DEF Run
      <4> HIDE DEF q
      <4>2. QED BY <1>2, <1>3, <3>2, <4>1 DEF q
    <3>3. QED BY <2>1, <3>1, <3>2
  <2>7. QED BY <1>c, <2>2, <2>3, <2>4, <2>5, <2>6
<1>10. CASE Plan(w)
  <2> DEFINE plan == FetchWindows(r.from, r.to)
             q == [r EXCEPT !.pc = "repair", !.cursor = None, !.latest = LastClosed, !.plan = plan]
  <2>1. r.pc = "plan" /\ Continue(w, q) /\ Stored' = Stored
    BY <1>10 DEF Plan, At, Stored, r
  <2>2. r.from \in Nat /\ r.to \in Int
    BY <1>0, <2>1 DEF RunOK
  <2>3. \A t \in r.from .. r.to : t \in Stored \/ \E win \in plan : win.start <= t /\ t < win.end
    BY <2>2, FetchWindowsCover DEF Missing
  <2> HIDE DEF plan
  <2>4. q.from = r.from /\ q.to = r.to /\ q.plan = plan
    BY <1>0 DEF Run
  <2> HIDE DEF q
  <2>5. RepairCovers(q, Stored')
    BY <2>1, <2>3, <2>4 DEF RepairCovers
  <2>6. QED BY <1>2, <2>1, <2>5
<1>11. ASSUME Repair(w) \/ RepairFails(w) \/ FixAborts(w) \/ Postflight(w)
       PROVE  /\ r.pc = "repair" /\ r.cmd = "fix" /\ r.from \in Nat /\ r.to \in Int /\ r.to < clock
              /\ \A win \in r.plan : win.start \in Int /\ win.end \in Int
  <2>1. r.pc = "repair" /\ r.cmd = "fix"
    BY <1>11 DEF Repair, RepairFails, FixAborts, Postflight, At, r
  <2>2. QED BY <1>0, <2>1 DEF RunOK, Run
<1>12. CASE Repair(w)
  <2>1. PICK win \in r.plan :
          /\ \E rows \in Answers(win) : candles' = Upserted(rows)
          /\ Continue(w, [r EXCEPT !.plan = @ \ {win}])
    BY <1>12 DEF Repair, NextWindows, r
  <2>2. PICK rows \in Answers(win) : candles' = Upserted(rows)
    BY <2>1
  <2>3. DOMAIN rows = Listed(win)
    BY DEF Answers
  <2>4. Stored' = Stored \cup Listed(win)
    BY <2>2, <2>3 DEF Stored, Upserted
  <2> DEFINE q == [r EXCEPT !.plan = @ \ {win}]
  <2>5. /\ q.from = r.from /\ q.to = r.to /\ q.plan = r.plan \ {win}
        /\ q.cmd = r.cmd /\ q.pc = r.pc /\ q.hard = r.hard
    BY <1>0 DEF Run
  <2> HIDE DEF q
  <2>6. ASSUME r.hard = FALSE, NEW t \in r.from .. r.to, FirstListed <= t
        PROVE  t \in Stored' \/ \E other \in q.plan : other.start <= t /\ t < other.end
    <3>1. t \in Stored \/ \E other \in r.plan : other.start <= t /\ t < other.end
      BY <1>0, <1>11, <1>12, <2>6 DEF RepairCovers
    <3>2. CASE win.start <= t /\ t < win.end
      <4>1. t \in Int /\ win.start \in Int /\ win.end \in Int /\ t <= clock
        BY <1>0, <1>11, <1>12
      <4>2. t \in Listed(win)
        BY <2>6, <3>2, <4>1 DEF Listed
      <4>3. QED BY <2>4, <4>2
    <3>3. CASE ~(win.start <= t /\ t < win.end)
      BY <2>4, <2>5, <3>1, <3>3
    <3>4. QED BY <3>2, <3>3
  <2>7. RepairCovers(q, Stored')
    BY <2>5, <2>6 DEF RepairCovers
  <2>8. QED BY <1>2, <2>1, <2>7 DEF q
<1>13. CASE RepairFails(w)
  <2>1. PICK win : Continue(w, [r EXCEPT !.plan = @ \ {win}, !.hard = TRUE])
    BY <1>13 DEF RepairFails, r
  <2> DEFINE q == [r EXCEPT !.plan = @ \ {win}, !.hard = TRUE]
  <2>2. q.hard = TRUE
    BY <1>0 DEF Run
  <2> HIDE DEF q
  <2>3. RepairCovers(q, Stored')
    BY <2>2 DEF RepairCovers
  <2>4. QED BY <1>2, <2>1, <2>3 DEF q
<1>14. CASE FixAborts(w)
  <2>1. ReportCovers(Result(w, "error"), Stored')
    BY DEF Result, ReportCovers
  <2>2. QED BY <1>5, <1>14, <2>1 DEF FixAborts
<1>15. CASE Postflight(w)
  <2>1. r.plan = {} /\ Conclude(w, FixStatus(r)) /\ Stored' = Stored
    BY <1>15 DEF Postflight, Stored, r
  <2>2. r.hard = TRUE => FixStatus(r) = "error"
    BY DEF FixStatus
  <2>3. r.hard \in BOOLEAN
    BY <1>0 DEF Run
  <2>4. ASSUME r.hard = FALSE, r.from >= FirstListed PROVE r.from .. r.to \subseteq Stored
    <3>1. SUFFICES ASSUME NEW t \in r.from .. r.to PROVE t \in Stored
      OBVIOUS
    <3>2. FirstListed <= t
      BY <1>0, <1>11, <1>15, <2>4
    <3>3. QED BY <1>0, <1>11, <1>15, <2>1, <2>4, <3>2 DEF RepairCovers
  <2>5. ReportCovers(Result(w, FixStatus(r)), Stored')
    BY <2>1, <2>2, <2>3, <2>4 DEF ReportCovers, Result, r
  <2>6. QED BY <1>5, <2>1, <2>5
<1>16. QED
  BY <1>7, <1>9, <1>b, <1>c, <1>10, <1>12, <1>13, <1>14, <1>15 DEF Step

\* When the exchange answers in full, a repair that ended without an error has closed
\* every gap of its window, whatever ran beside it and however many requests the
\* gaps were cut into (fix_candles).
THEOREM RepairsCloseWindows ==
  ASSUME Partial = FALSE
  PROVE  Spec => []RepairClosesWindow
<1>1. Init => RepairInv
  BY DEF Init, RepairInv, RepairCovers, ReportCovers, Idle
<1>2. EngineInv /\ RepairInv /\ [Next]_vars => RepairInv'
  <2> SUFFICES ASSUME EngineInv, RepairInv, [Next]_vars PROVE RepairInv'
    OBVIOUS
  <2>1. CASE \E w \in Workers : Start(w) \/ Step(w) \/ Kill(w)
    BY <2>1, RepairKept
  <2>2. CASE Tick
    BY <2>2 DEF Tick, RepairInv, Stored
  <2>3. CASE UNCHANGED vars
    BY <2>3 DEF vars, RepairInv, Stored
  <2>4. QED BY <2>1, <2>2, <2>3 DEF Next
<1>3. RepairInv => RepairClosesWindow
  BY DEF RepairInv, ReportCovers, RepairClosesWindow
<1>4. QED BY <1>1, <1>2, <1>3, EngineInductive, PTL DEF Spec
=============================================================================
