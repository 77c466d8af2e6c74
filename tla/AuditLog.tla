------------------------------ MODULE AuditLog ------------------------------
(***************************************************************************)
(* The table audit_logs: what log_action stores, and how GET /audit/logs    *)
(* reads it page by page while handlers go on writing.                      *)
(*                                                                         *)
(* The time stamp of a row is taken in Python and the row is visible when   *)
(* its INSERT commits, so rows need not appear in the order of their        *)
(* stamps.  Stamps have microseconds and are taken to be distinct.          *)
(***************************************************************************)
EXTENDS Naturals, Sequences, FiniteSets

CONSTANTS None,              \* NULL
          Values,            \* the details that handlers pass, and their parts
          SensitiveKeys,     \* keys whose lower-case form is in _SENSITIVE_KEYS
          MaxItems,          \* items of a list that are kept (20)
          Addresses,         \* texts that ipaddress.ip_address accepts
          TrustProxy,        \* settings.TRUST_PROXY_HEADERS
          PageSize           \* page_size of the reader

ASSUME PageSizeIsPositive == PageSize \in Nat \ {0}
ASSUME DetailsSettings ==
    MaxItems \in Nat /\ TrustProxy \in BOOLEAN

VARIABLES log,       \* table audit_logs, a set of rows
          clock,     \* the latest time stamp taken
          page,      \* pages the reader has got
          target,    \* history: the rows that were there when it got the first
          seen,      \* rows it has got
          repeats,   \* rows it got again
          done       \* a page was shorter than PageSize: it stops

reader == <<page, target, seen, repeats, done>>
auditVars == <<log, clock, page, target, seen, repeats, done>>

-----------------------------------------------------------------------------
\* A value is [text |-> t], [map |-> f] or [list |-> s], with values in f and s.
Redacted == [text |-> "[REDACTED]"]

\* _sanitize_value: a sensitive key decides about the whole value below it.
Clean[v \in Values] ==
    CASE "map" \in DOMAIN v ->
            [map |-> [k \in DOMAIN v.map |->
                         IF k \in SensitiveKeys THEN Redacted ELSE Clean[v.map[k]]]]
      [] "list" \in DOMAIN v ->
            [list |-> [i \in {j \in DOMAIN v.list : j <= MaxItems} |-> Clean[v.list[i]]]]
      [] OTHER -> v

\* Reference: every text of a value, wherever it is.
TextsIn[v \in Values \cup {Clean[u] : u \in Values}] ==
    CASE "map" \in DOMAIN v  -> UNION {TextsIn[v.map[k]] : k \in DOMAIN v.map}
      [] "list" \in DOMAIN v -> UNION {TextsIn[v.list[i]] : i \in DOMAIN v.list}
      [] OTHER               -> {v.text}

\* get_client_ip: the first valid address of X-Forwarded-For, if the proxy is
\* trusted, else that of the connection, if it is one.
ClientIp(from) ==
    LET valid == {i \in DOMAIN from.forwarded : from.forwarded[i] \in Addresses}
    IN IF TrustProxy /\ valid # {}
       THEN from.forwarded[CHOOSE i \in valid : \A j \in valid : i <= j]
       ELSE IF from.remote \in Addresses THEN from.remote ELSE None

\* The row that log_action inserts; its time stamp is the next one.
AuditRow(action, user, from, details) ==
    [stamp |-> clock + 1, action |-> action, user |-> user,
     ip |-> IF from = None THEN None ELSE ClientIp(from), details |-> Clean[details]]

Rows(action, user) == {r \in log : r.action = action /\ r.user = user}

-----------------------------------------------------------------------------
AuditInit ==
    /\ log = {} /\ clock = 0
    /\ page = 0 /\ target = {} /\ seen = {} /\ repeats = 0 /\ done = FALSE

\* The rows newer than r come before it.
Newer(r) == {q \in log : q.stamp > r.stamp}
Rank(r) == Cardinality(Newer(r))

\* Variant: pages numbered from 0 in the offset, from 1 in the request.
PageFromZero(p) == {r \in log : Rank(r) >= p * PageSize /\ Rank(r) < (p + 1) * PageSize}

\* Variant: the last row of the page is included.
PageInclusive(p) == {r \in log : Rank(r) >= (p - 1) * PageSize /\ Rank(r) <= p * PageSize}

\* AuditLog.objects.all()[offset: offset + page_size]
Page(p) == {r \in log : Rank(r) >= (p - 1) * PageSize /\ Rank(r) < p * PageSize}

\* The reader asks for its next page.
ReadPage ==
    /\ ~done
    /\ LET rows == Page(page + 1) IN
       /\ target' = IF page = 0 THEN log ELSE target
       /\ seen' = seen \cup rows
       /\ repeats' = repeats + Cardinality(rows \cap seen)
       /\ done' = (Cardinality(rows) < PageSize)
    /\ page' = page + 1
    /\ UNCHANGED <<log, clock>>

-----------------------------------------------------------------------------
\* "Paginated list of all audit records" (audit/api.py:3): however many rows are
\* written between two pages, and in whatever order they appear, a row that was
\* there when the reader began is on a page it has got or on one that comes, and
\* none is left when it stops.
NothingSkipped ==
    page > 0 => \A r \in target \ seen : ~done /\ Rank(r) >= page * PageSize

\* Rows come again only because others were written meanwhile, one for one.
RepeatsExplained ==
    page > 0 => repeats + Cardinality(target) <= Cardinality(log)
=============================================================================
