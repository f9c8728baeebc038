----------------------------- MODULE ReadChecks -----------------------------
(***************************************************************************)
(* Statistics and Listing against reference definitions, over all inputs   *)
(* of a bounded size. TLC evaluates every assumption here once per run.    *)
(***************************************************************************)
EXTENDS Statistics, Listing, FiniteSets, FiniteSetsExt

Now == 2 * Day + 30      \* bound: the query runs half a minute into a minute

\* Executions that ended at both sides of each edge of a window of two minutes and of the day.
Ends       == {Null, Now, Now - 30, Now - 31, Now - 90, Now - 91, Now - 119, Now - 120,
               Now - 3599, Now - 3600, Now - Day + 1, Now - Day}
Histories  ==
    UNION {[1 .. n -> {[status |-> "succeeded", finished |-> t] : t \in Ends \ {Null}}
                      \cup {[status |-> "lost", finished |-> t] : t \in Ends \ {Null}}
                      \cup {[status |-> "running", finished |-> Null]}] : n \in 0 .. 2}
OwnedBy(n) == CASE n = 1 -> "a" [] OTHER -> "b"
RowsOf(h) ==
    {[job |-> n, worker |-> OwnedBy(n), status |-> h[n].status, finished |-> h[n].finished,
      ms |-> n] : n \in DOMAIN h}
JobsOf(h) ==
    {[id |-> n, queue |-> OwnedBy(n), claimedBy |-> OwnedBy(n), batch |-> "x", runAt |-> 0,
      completedAt |-> h[n].finished,
      status |-> CASE h[n].status = "succeeded" -> "completed"
                   [] h[n].status = "lost"      -> "queued"
                   [] OTHER                     -> "running"] : n \in DOMAIN h}

Plus(x, y)  == [succeeded |-> x.succeeded + y.succeeded, failed |-> x.failed + y.failed]
Bars(chart) == MapThenSumSet(LAMBDA i : chart[i].succeeded + chart[i].failed, DOMAIN chart)
Chart(h, minutes, clock) ==
    FillBuckets(ThroughputRows(RowsOf(h), Now, minutes), minutes, clock)

\* A chart drawn in the minute of its query shows each execution of its minutes once, and
\* of the others, only those of the oldest, cut, minute are missing.
ASSUME ChartShowsEachOnce ==
    \A h \in Histories :
        Bars(Chart(h, 2, Now)) =
            Cardinality({n \in DOMAIN h : MinuteOf(h[n].finished) >= MinuteOf(Now) - Minute})

\* When the minute turns between the query and the chart, or the API's clock is behind, a
\* bar still counts executions of its own minute only: none is shown twice or elsewhere.
ASSUME ChartNeverInvents ==
    \A h \in Histories, late \in {-Minute, Minute, 2 * Minute}, i \in 1 .. 2 :
        LET t      == MinuteOf(Now + late) - (2 - i) * Minute
            minute == Outcomes({e \in RowsOf(h) : MinuteOf(e.finished) = t})
            bar    == Chart(h, 2, Now + late)[i]
        IN  bar.succeeded =< minute.succeeded /\ bar.failed =< minute.failed

\* The overview of a project is the sum of its queues: the bars, the totals of the day, the
\* backlog; with a single queue both pages tell the same success rate.
ASSUME OverviewAddsUp ==
    \A h \in Histories :
        LET O(queues) == ProjectOverview(queues, JobsOf(h), RowsOf(h), {}, {}, Now, Now)
            S(x)      == QueueStats(x, JobsOf(h), RowsOf(h), {}, Now, Now, 60)
            both      == O({"a", "b"})
        IN  /\ \A i \in {1, 58, 59, 60} :
                  both.throughput[i] = Plus(S("a").throughput[i], S("b").throughput[i])
            /\ both.completed = O({"a"}).completed + O({"b"}).completed
            /\ both.backlog = S("a").counts["queued"] + S("b").counts["queued"]
            /\ \A x \in {"a", "b"} : O({x}).successRate = S(x).successRate

\* The listing of workers agrees with the counts of jobs and with the chart of the hour, but
\* for the oldest minute of it, which the chart leaves out; a batch's counts are its jobs.
ASSUME WorkersAddUp ==
    \A h \in Histories :
        LET W(w)  == WorkerSummary(w, JobsOf(h), RowsOf(h), Now)
            all   == BatchProgress([id |-> "x", total |-> 2], JobsOf(h))
            hour  == W("a").ended.succeeded + W("a").ended.failed
                         + W("b").ended.succeeded + W("b").ended.failed
        IN  /\ W("a").active + W("b").active = all.counts["claimed"] + all.counts["running"]
            /\ MapThenSumSet(LAMBDA s : all.counts[s], JobStatuses) = Len(h)
            /\ hour - Bars(Chart(h, 60, Now))
                   = Cardinality({e \in Ended(RowsOf(h), Now, 60 * Minute) :
                                     MinuteOf(e.finished) = MinuteOf(Now) - 60 * Minute})

\* A rate is a permille, full and empty only when every execution or none succeeded
\* (below 1000 executions), and never off by more than half a permille.
ASSUME RatesAreClose ==
    \A total \in 1 .. 40 : \A ok \in 0 .. total :
        LET r == SuccessRate(ok, total)
        IN  /\ r \in 0 .. 1000 /\ (r = 1000 <=> ok = total) /\ (r = 0 <=> ok = 0)
            /\ 2 * (r * total - 1000 * ok) \in -total .. total

\* The percentiles are in order and within the durations, as the mean is.
ASSUME DurationsAreOrdered ==
    \A n \in 1 .. 3 : \A v \in [1 .. n -> 0 .. 4] :
        (\A i, j \in 1 .. n : i < j => v[i] =< v[j]) =>
            /\ v[1] =< Percentile(v, 50) /\ Percentile(v, 50) =< Percentile(v, 95)
            /\ Percentile(v, 95) =< v[n] /\ Mean(v) \in v[1] .. v[n]

Dead(n, m) == {[id |-> i, failedAt |-> IF i =< m THEN 0 ELSE i, queue |-> "a",
                status |-> "pending"] : i \in 1 .. n}
Offsets(n, limit) == {o \in 0 .. n : o % limit = 0 /\ (o = 0 \/ o < n)}
IdsOf(answer) == {answer.data[i].id : i \in DOMAIN answer.data}

\* From the first page, Next reaches every page and Prev leads back; the page is shown with
\* its number, and there is no way out of the list.
ASSUME PagerWalksTheList ==
    \A n \in 0 .. 7, limit \in 1 .. 3 : \A o \in Offsets(n, limit) :
        /\ Walk(n, limit, o) = {o - limit, o + limit} \cap Offsets(n, limit)
        /\ n > 0 => PageNumber(limit, o) \in 1 .. PageCount(n, limit)

\* No two pages share a row and none is missed when the order of the rows is total: that of
\* jobs is, though a batch gives all its jobs one created_at; that of dead letters is when no
\* two entries failed in one transaction.
ASSUME PagesPartition ==
    \A n \in 0 .. 4, limit \in 1 .. 3 :
        LET Batch    == {[id |-> i, created |-> i \div 3, queue |-> "a", type |-> "t",
                          status |-> "queued", texts |-> {"s"}] : i \in 1 .. n}
            filter   == [status |-> {"queued"}, type |-> {"t"}, search |-> {"s"}]
            Jobs(o)  == JobPages(Batch, Batch, "a", filter, limit, o)
            Dlq(o)   == ProjectDlq(Dead(n, 0), Dead(n, 0), {"a", "b"}, {}, limit, o)
            Ids(pages) == IdsOf(CHOOSE answer \in pages : TRUE)
        IN  \A o, p \in Offsets(n, limit) :
                /\ Cardinality(Jobs(o)) = 1 /\ Cardinality(Dlq(o)) = 1
                /\ o # p => Ids(Jobs(o)) \cap Ids(Jobs(p)) = {} /\ Ids(Dlq(o)) \cap Ids(Dlq(p)) = {}
                /\ UNION {Ids(Jobs(r)) : r \in Offsets(n, limit)} = 1 .. n
                /\ UNION {Ids(Dlq(r)) : r \in Offsets(n, limit)} = 1 .. n

\* The reaper buries up to twenty jobs in one transaction, with one failed_at: the pages of
\* such entries may repeat one and miss another.
ASSUME TiedPagesMayMiss ==
    \E first \in QueueDlq(Dead(3, 3), Dead(3, 3), "a", {}, 2, 0),
       rest  \in QueueDlq(Dead(3, 3), Dead(3, 3), "a", {}, 2, 2) :
        IdsOf(first) \cup IdsOf(rest) # 1 .. 3

\* The dead-letter tab keeps its offset when entries leave the list. It says that the queue
\* is empty exactly when the offset is behind the last entry, pending ones or not; the
\* pager is gone too when what is left fits one page.
ASSUME StrandedTab ==
    \A n \in 0 .. 4, limit \in 1 .. 2, o \in 0 .. 4 :
        \A answer \in QueueDlq(Dead(n, 0), Dead(n, 0), "a", {"pending"}, limit, o) :
            /\ SaysEmpty(answer) <=> o >= n
            /\ n > 0 /\ n =< limit /\ o >= limit => SaysEmpty(answer) /\ Walk(n, limit, o) = {}

\* The total of an answer is that of its rows unless rows moved between the statements.
ASSUME TotalsAgreeAtRest ==
    \A n \in 0 .. 3, m \in 0 .. 3 :
        \A answer \in QueueDlq(Dead(n, 0), Dead(m, 0), "a", {}, 3, 0) :
            answer.total = Len(answer.data) <=> n = m
=============================================================================
