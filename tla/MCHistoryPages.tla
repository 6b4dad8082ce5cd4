---------------------------- MODULE MCHistoryPages ----------------------------
(* Instances of HistoryPages: which reads, with which page size.           *)
EXTENDS HistoryPages

Read(kind, interval, limit, open, lag, until) ==
    [kind |-> kind, interval |-> interval, limit |-> limit, open |-> open,
     lag |-> lag, until |-> until]

\* Channel states on pages that hold every baseline; channel buckets, one row a
\* page; HTLC buckets on one page; events and probes that are stored at once;
\* groups of forwards, whose periods need not fit their buckets, and of probes
\* that may be late, one group a page.
WholeReads ==
    {Read("channels", 0, 2, FALSE, 1, 3), Read("channels", 0, 2, TRUE, 1, 2),
     Read("channels", 2, 1, FALSE, 1, 3), Read("htlcs", 2, 4, FALSE, 1, 2),
     Read("events", 0, 1, FALSE, 0, 2), Read("events", 0, 1, TRUE, 0, 2),
     Read("probes", 0, 1, TRUE, 0, 3),
     Read("pairs", 3, 1, FALSE, 0, 5), Read("pairs", 2, 1, TRUE, 0, 5),
     Read("routes", 2, 1, FALSE, 1, 4), Read("routes", 2, 1, TRUE, 1, 4)}

\* Events while a snapshot may wait a second for its RPCs.
LateReads == {Read("events", 0, 1, FALSE, 1, 2)}

\* HTLC buckets, one row a page.
BusyReads == {Read("htlcs", 2, 1, FALSE, 0, 3)}

=============================================================================
