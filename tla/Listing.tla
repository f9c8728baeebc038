------------------------------ MODULE Listing ------------------------------
(***************************************************************************)
(* The paginated listings of jobs and dead letters, and the pager of the   *)
(* dashboard that walks through them. A listing counts its rows in one     *)
(* statement and reads a page in the next.                                 *)
(***************************************************************************)
EXTENDS Integers, Sequences
LOCAL INSTANCE FiniteSetsExt
LOCAL INSTANCE SequencesExt

\* ORDER BY, as the pairs of rows of which the first must come first.
JobOrder(rows) ==
    {p \in rows \X rows : \/ p[1].created > p[2].created
                          \/ (p[1].created = p[2].created /\ p[1].id < p[2].id)}
DeadOrder(rows) == {p \in rows \X rows : p[1].failedAt > p[2].failedAt}

\* The results a query may return: the sequences of the rows that its order allows.
Sorted(rows, order) ==
    {s \in SetToSeqs(rows) : \A i, j \in DOMAIN s : i < j => <<s[j], s[i]>> \notin order}

\* The filters of the query string; an empty one is not applied. A job's `texts` are the
\* terms its id, type or key contains.
JobMatches(job, queue, filter) ==
    /\ job.queue = queue
    /\ filter.status = {} \/ job.status \in filter.status
    /\ filter.type \subseteq {job.type}
    /\ filter.search \subseteq job.texts
DeadMatches(entry, queues, status) ==
    /\ entry.queue \in queues
    /\ status = {} \/ entry.status \in status

\* page(): LIMIT and OFFSET of an ordered result, in the envelope of every listing.
Page(rows, total, limit, offset) ==
    [data |-> SubSeq(rows, offset + 1, Min({offset + limit, Len(rows)})),
     total |-> total, limit |-> limit, offset |-> offset]

\* What a listing may answer: the rows it counts are `before`, those it reads `after`.
JobPages(before, after, queue, filter, limit, offset) ==
    LET Match(rows) == {j \in rows : JobMatches(j, queue, filter)}
    IN  {Page(s, Quantify(Match(before), LAMBDA j : TRUE), limit, offset) :
            s \in Sorted(Match(after), JobOrder(after))}
DeadPages(before, after, queues, status, limit, offset) ==
    LET Match(rows) == {d \in rows : DeadMatches(d, queues, status)}
    IN  {Page(s, Quantify(Match(before), LAMBDA d : TRUE), limit, offset) :
            s \in Sorted(Match(after), DeadOrder(after))}

QueueDlq(before, after, queue, status, limit, offset) ==
    DeadPages(before, after, {queue}, status, limit, offset)
ProjectDlq(before, after, queues, status, limit, offset) ==
    DeadPages(before, after, queues, status, limit, offset)

\* The pager: hidden when one page is enough, Prev and Next move by one page.
PagerShown(total, limit)       == total > limit
CanPrev(offset)                == offset # 0
CanNext(total, limit, offset)  == offset + limit < total
PageNumber(limit, offset)      == offset \div limit + 1
PageCount(total, limit)        == (total + limit - 1) \div limit
Walk(total, limit, offset) ==
    IF ~PagerShown(total, limit) THEN {}
    ELSE (IF CanPrev(offset) THEN {offset - limit} ELSE {})
             \cup (IF CanNext(total, limit, offset) THEN {offset + limit} ELSE {})

\* A tab of the queue page: it says the list is empty when its page has no rows.
SaysEmpty(answer) == answer.data = <<>>
=============================================================================
