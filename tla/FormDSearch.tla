----------------------------- MODULE FormDSearch -----------------------------
(***************************************************************************)
(* evidence.py, prepare_form_d_funding_leads: a client walks page by page  *)
(* through the Form D filings of the SEC's daily indexes, newest first,    *)
(* each page naming the cursor of the next.  The service keeps nothing     *)
(* between two pages: every request reads the indexes anew, a day that     *)
(* cannot be had is left out, and more days are published meanwhile.       *)
(* Accession numbers are numbered in the order the candidates are sorted   *)
(* in, that is by day and accession; an index has one row per issuer, so a *)
(* filing of several issuers has several rows with one accession.          *)
(*   The specification is WalkSpec, so that SecEvidence_proofs, which is   *)
(* about this module and about SecEvidence, can extend both.               *)
(***************************************************************************)
EXTENDS Integers, FiniteSets

CONSTANTS
    Clients,
    Accessions,    \* numbers in (filed_date, accession) order
    Days,          \* the index days from since to the last day modelled
    Day,           \* Day[a]: the day whose index lists a
    Issuers,       \* Issuers[a]: the rows that index has for a
    Reading,       \* Reading[a]: what the scan of the filing comes to
    Limits,        \* values of the request's limit
    ScanLimit      \* MAX_FORM_D_SCAN_PER_REQUEST

NoCursor == 0
Readings == {"lead", "broken", "too early", "no match"}

ASSUME FormDAssumption ==
    /\ Accessions \subseteq Nat \ {0} /\ IsFiniteSet(Accessions)
    /\ Day \in [Accessions -> Days]
    /\ Issuers \in [Accessions -> Nat \ {0}]
    /\ Reading \in [Accessions -> Readings]
    /\ Limits \subseteq Nat \ {0} /\ ScanLimit \in Nat \ {0}

VARIABLES
    published,   \* external: the days whose index the SEC serves
    walks        \* the walk of every client, or NoWalk

walkVars == <<published, walks>>

Rows == UNION {{a} \X (1..Issuers[a]) : a \in Accessions}
NoWalk == [pc |-> "none"]

WalkInit ==
    /\ published = {}
    /\ walks = [c \in Clients |-> NoWalk]

-----------------------------------------------------------------------------
(* One request *)

\* candidates.sort: descending by (filed_date, accession), and stable, so that
\* the rows of one accession stay in the order of the index.
Precedes(q, r) == q[1] > r[1] \/ (q[1] = r[1] /\ q[2] < r[2])

\* The rows of the indexes that could be had.
Candidates(available) == {r \in Rows : Day[r[1]] \in available}

\* The cursor names the first row with that accession; the page starts after it.
AfterFiling(available, cursor) ==                                     \* mutant
    {r \in Candidates(available) : cursor = NoCursor \/ cursor > r[1]}
FromRow(available, cursor) ==                                         \* mutant
    {r \in Candidates(available) : cursor = NoCursor \/ cursor >= r[1]}
After(available, cursor) ==
    {r \in Candidates(available) : cursor = NoCursor \/ Precedes(<<cursor, 1>>, r)}

\* CURSOR_NOT_AVAILABLE otherwise.
CursorFound(available, cursor) == cursor # NoCursor => Day[cursor] \in available

\* The row is parsed, filed after the baseline and matches the filters.
LeadsOf(rows) == {r \in rows : Reading[r[1]] = "lead"}

\* The rows scanned: the candidates in order, until the scan limit, the limit on
\* leads or the end.
IsPage(page, candidates, limit) ==
    /\ \A r \in page, q \in candidates : Precedes(q, r) => q \in page
    /\ \A r \in page : LET before == {q \in page : Precedes(q, r)} IN
           Cardinality(before) < ScanLimit /\ Cardinality(LeadsOf(before)) < limit
    /\ \/ page = candidates
       \/ Cardinality(page) = ScanLimit
       \/ Cardinality(LeadsOf(page)) = limit

\* scanned_rows[-1].
IsLast(row, page) == row \in page /\ \A q \in page : q = row \/ Precedes(q, row)

-----------------------------------------------------------------------------
(* Actions *)

\* The SEC publishes the index of a day.
Publish(d) ==
    /\ d \notin published
    /\ published' = published \cup {d}
    /\ UNCHANGED walks

\* A client begins a walk, without a cursor.  present, missed and scanned are
\* its history: the days there were when it began, those of them that some page
\* had to do without, and the rows its pages went through.
Begin(c) ==
    /\ walks[c].pc \in {"none", "done"}
    /\ \E limit \in Limits :
          walks' = [walks EXCEPT ![c] =
              [pc |-> "paging", limit |-> limit, cursor |-> NoCursor,
               present |-> published, missed |-> {}, scanned |-> {}]]
    /\ UNCHANGED published

\* One page is answered.  A day not served (not yet, or refused with 403 or 404)
\* is left out; none may be left, since the indexes read reach back further than
\* since.  Without the cursor's row, or when a filing or any index at all cannot
\* be had, the request fails and the client may only repeat it.
Turned(walk, available, page, pc, cursor) ==
    [walk EXCEPT !.pc = pc, !.cursor = cursor, !.scanned = @ \cup page,
                 !.missed = @ \cup (walk.present \ available)]

Answer(c, available) ==
    LET walk == walks[c]
        candidates == After(available, walk.cursor)
    IN
    /\ walk.pc = "paging" /\ CursorFound(available, walk.cursor)
    /\ \E page \in SUBSET candidates :
          /\ IsPage(page, candidates, walk.limit)
          /\ \/ /\ page = candidates
                /\ walks' = [walks EXCEPT ![c] = Turned(@, available, page, "done", NoCursor)]
             \/ /\ page # candidates
                /\ \E row \in page :
                      /\ IsLast(row, page)
                      /\ walks' = [walks EXCEPT ![c] =
                             Turned(@, available, page, "paging", row[1])]
    /\ UNCHANGED published

WalkNext ==
    \/ \E d \in Days : Publish(d)
    \/ \E c \in Clients : Begin(c)
    \/ \E c \in Clients, available \in SUBSET published : Answer(c, available)

WalkSpec == WalkInit /\ [][WalkNext]_walkVars

\* A client goes on asking while there is a next page, and again and again the
\* SEC serves every index it has published.
FairWalkSpec == WalkSpec /\ \A c \in Clients : WF_walkVars(Answer(c, published))

-----------------------------------------------------------------------------
(* Properties *)

Walk == [pc : {"paging", "done"}, limit : Limits, cursor : Accessions \cup {NoCursor},
         present : SUBSET Days, missed : SUBSET Days, scanned : SUBSET Rows]

\* Types; what a walk misses was there when it began.
WalksTypeOK ==
    /\ published \subseteq Days
    /\ walks \in [Clients -> {NoWalk} \cup Walk]
    /\ \A c \in Clients : walks[c] # NoWalk =>
           walks[c].missed \subseteq walks[c].present /\ walks[c].present \subseteq published

\* A walk that is told there is no more has gone through every row of every
\* index that was out when it began, unless one of its pages had to do without
\* that index: no filing falls between two pages, whatever is published
\* meanwhile, wherever a page ends, and however many rows a filing has.
NothingSkipped ==
    \A c \in Clients : walks[c].pc = "done" =>
        \A r \in Candidates(walks[c].present \ walks[c].missed) : r \in walks[c].scanned

\* The cursor of a page never names a newer filing than the cursor it was asked
\* with, although the candidates are gathered anew for every page (proved in
\* SecEvidence_proofs).
CursorsDescend ==
    [][\A c \in Clients : walks[c].pc = "paging" /\ walks'[c].pc = "paging"
           /\ walks[c].cursor # NoCursor => walks'[c].cursor <= walks[c].cursor]_walkVars

\* A walk ends if no filing has more rows than fit on a page: the cursor names the
\* first of them, and a page that holds no row after the last ends where it began.
FitsPage(limit) ==
    \A a \in Accessions : Issuers[a] <= ScanLimit /\ (Reading[a] = "lead" => Issuers[a] <= limit)
WalksEnd ==
    \A c \in Clients :
        (walks[c].pc = "paging" /\ FitsPage(walks[c].limit)) ~> (walks[c].pc # "paging")

=============================================================================
