-------------------------- MODULE TransactionQueries --------------------------
(***************************************************************************)
(* The readers of the transactions table: get_user_transactions and        *)
(* search_transactions of api/gateway.rs with their statements in          *)
(* database/mod.rs.  A page is a statement of its own, newest rows first   *)
(* by created_at and in any order where that is equal; the total is a      *)
(* second statement.  Meanwhile rows are inserted and change their status. *)
(*                                                                         *)
(* A client reads page after page until one is empty.                      *)
(***************************************************************************)
EXTENDS Integers, FiniteSets, Sequences, SequencesExt

CONSTANTS
    Rows,       \* transaction ids
    Users,
    Limits,     \* what a client asks for as limit; nothing comes of 0
    Cap,        \* what a limit is cut to: 100 in the code
    MaxMoment   \* bound: moments of created_at

VARIABLES
    table,   \* row -> [user, status, created_at]
    client,  \* the client's query and how far it is
    page,    \* the page it asks for
    seen,    \* the rows it has been shown
    \* history
    due,     \* the rows that have matched since the client began
    left     \* has a row stopped matching since?

Statuses == {"pending", "confirmed"}
Unset == "none"

\* TransactionFilters, as far as the queries tell them apart: priority goes with
\* status; target_contract and the times count as `other'.
Filters == [user : Users \cup {Unset}, status : Statuses \cup {Unset}, other : BOOLEAN]

Init ==
    /\ table = << >>
    /\ client = [at |-> "idle"]
    /\ page = 1
    /\ seen = {} /\ due = {} /\ left = FALSE

\* search_transactions: the user's statement where nothing else is asked, the
\* status's (and priority's) where that is asked, whatever else is, and else all.
Matches(row, f) ==
    IF f.user # Unset /\ f.status = Unset /\ ~ f.other THEN row.user = f.user
    ELSE f.status # Unset => row.status = f.status

Matching(t, f) == {r \in DOMAIN t : Matches(t[r], f)}

Reading == client.at # "idle"

-----------------------------------------------------------------------------
\* The writers

\* store_transaction; created_at is the request's own timestamp, taken before.
Store(r, user, created_at) ==
    /\ r \notin DOMAIN table
    /\ table' = [x \in DOMAIN table \cup {r} |->
                    IF x = r THEN [user |-> user, status |-> "pending", created_at |-> created_at]
                    ELSE table[x]]
    /\ UNCHANGED <<client, page, seen, due, left>>

\* update_transaction_status
UpdateStatus(r) ==
    /\ r \in DOMAIN table
    /\ table[r].status = "pending"
    /\ table' = [table EXCEPT ![r].status = "confirmed"]
    /\ IF Reading THEN LET matching == Matching(table', client.filters) IN
                       /\ due' = due \cap matching
                       /\ left' = (left \/ ~ Matching(table, client.filters) \subseteq matching)
       ELSE UNCHANGED <<due, left>>
    /\ UNCHANGED <<client, page, seen>>

-----------------------------------------------------------------------------
\* A client's pages

\* A user's own transactions are the same statement as a search by user alone.
\* The page may be any number, 1 where none is given.
Begin(filters, limit, first) ==
    /\ ~ Reading
    /\ client' = [at |-> "page", filters |-> filters, limit |-> limit, rows |-> {}]
    /\ page' = first
    /\ seen' = {}
    /\ due' = Matching(table, filters)
    /\ left' = FALSE
    /\ UNCHANGED table

Newer(r, s) == table[r].created_at > table[s].created_at

\* ORDER BY created_at DESC
Orders(rows) ==
    {s \in SetToSeqs(rows) : \A i, j \in DOMAIN s : i < j => ~ Newer(s[j], s[i])}

\* LIMIT and OFFSET
Slice(order, offset, limit) == {order[i] : i \in {j \in DOMAIN order : j \in offset + 1 .. offset + limit}}

\* Mutation: every page but the first starts a row too far.
OffsetOneTooFar(p, limit) == (p - 1) * limit + IF p > 1 THEN 1 ELSE 0

Offset(p, limit) == (p - 1) * limit

Capped(limit) == IF limit > Cap THEN Cap ELSE limit

\* page - 1 wraps below 0: a build with overflow checks panics, and without them the
\* OFFSET is negative, which PostgreSQL refuses.
RefusePage ==
    /\ client.at = "page" /\ page = 0
    /\ client' = [at |-> "idle"]
    /\ page' = 1 /\ seen' = {} /\ due' = {} /\ left' = FALSE
    /\ UNCHANGED table

\* The page's statement.
FetchPage ==
    /\ client.at = "page" /\ page > 0
    /\ \E order \in Orders(Matching(table, client.filters)) :
        LET limit == Capped(client.limit) IN
        client' = [client EXCEPT !.at = "count",
                                 !.rows = Slice(order, Offset(page, limit), limit)]
    /\ UNCHANGED <<table, page, seen, due, left>>

\* The total's statement: how many rows match by now.  The client is told it beside
\* the page, and asks for the next page unless this one is empty.
CountRows ==
    /\ client.at = "count"
    /\ client' = [client EXCEPT !.at = IF client.rows = {} THEN "last" ELSE "page", !.rows = {}]
    /\ seen' = seen \cup client.rows
    /\ page' = IF client.rows = {} THEN page ELSE page + 1
    /\ UNCHANGED <<table, due, left>>

\* Either statement fails: the client is told nothing of the page, and asks again.
Fail ==
    /\ client.at = "count"
    /\ client' = [client EXCEPT !.at = "page", !.rows = {}]
    /\ UNCHANGED <<table, page, seen, due, left>>

Stop ==
    /\ client.at = "last"
    /\ client' = [at |-> "idle"]
    /\ page' = 1 /\ seen' = {} /\ due' = {} /\ left' = FALSE
    /\ UNCHANGED table

Next ==
    \/ \E r \in Rows, user \in Users, created_at \in 1 .. MaxMoment : Store(r, user, created_at)
    \/ \E r \in Rows : UpdateStatus(r)
    \/ \E filters \in Filters, limit \in Limits, first \in {0, 1} : Begin(filters, limit, first)
    \/ RefusePage \/ FetchPage \/ CountRows \/ Fail \/ Stop

-----------------------------------------------------------------------------
\* Properties

\* Every variable has its type.
TypeOK ==
    /\ DOMAIN table \subseteq Rows
    /\ \A r \in DOMAIN table :
        table[r] \in [user : Users, status : Statuses, created_at : 1 .. MaxMoment]
    /\ client.at \in {"idle", "page", "count", "last"}
    /\ page \in 0 .. Cardinality(Rows) + 1
    /\ seen \cup due \subseteq DOMAIN table
    /\ left \in BOOLEAN

Tied == \E r, s \in DOMAIN table : r # s /\ table[r].created_at = table[s].created_at

\* A client that has read all pages has seen every row that matched from its first
\* page to its last, although rows are inserted before it and among what it has
\* read; unless another row left the query behind it (a status that it asked for
\* has changed) or two rows have the same created_at, which nothing orders.
PagesMissNothing ==
    client.at = "last" /\ ~ left /\ ~ Tied => due \subseteq seen

QueryAssumption ==
    /\ IsFiniteSet(Rows) /\ Unset \notin Users /\ Limits \cup {Cap} \subseteq Nat \ {0}
    /\ MaxMoment \in Nat
=============================================================================
