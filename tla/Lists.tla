------------------------------- MODULE Lists -------------------------------
(***************************************************************************)
(* The lists of RentFlowAPI: the findMany of the repositories, each with   *)
(* the filters of its buildWhere and the pages of pagination.util.         *)
(*                                                                         *)
(* A query is a record with the fields that the client gives.  `found' is  *)
(* the set of rows that pass its filters on what the rows of the model do  *)
(* not keep: texts, cities, rooms, the origin of a lead, the kind and      *)
(* priority of a notification.  The sort key is one column, which rows may *)
(* share, and MySQL promises no order of those: where the code has the row *)
(* at a place of a list, the model has the set of rows that may be there.  *)
(***************************************************************************)
EXTENDS Integers, Sequences, FiniteSets, FiniteSetsExt

\* The rows of a table that no DELETE has removed.
Active(t) == {i \in DOMAIN t : t[i].isActive}

Given(q, f) == f \in DOMAIN q

\* The row has the value of each of these fields that the query gives.
Matches(row, q, fields) == \A f \in fields : Given(q, f) => row[f] = q[f]

\* orderBy: { [sortBy]: direction }.  The rows of one key share the places after
\* the rows before them, in any order and in another one for each request.
Before(t, ids, field, desc, i) ==
    {j \in ids : t[j][field] # t[i][field] /\ (desc <=> t[j][field] > t[i][field])}
Ties(t, ids, field, i) == {j \in ids : t[j][field] = t[i][field]}
Places(t, ids, field, desc, i) ==
    LET before == Cardinality(Before(t, ids, field, desc, i))
    IN  (before + 1)..(before + Cardinality(Ties(t, ids, field, i)))

Sorted(t, ids, field, desc) ==
    LET placed == {[row |-> i, places |-> Places(t, ids, field, desc, i)] : i \in ids}
    IN  [n \in 1..Cardinality(ids) |-> {x.row : x \in {x \in placed : n \in x.places}}]

\* getPaginationMeta.
PageMeta(q) ==
    LET page == Max({1, IF Given(q, "page") THEN q.page ELSE 1})
        limit == Min({100, Max({1, IF Given(q, "limit") THEN q.limit ELSE 10})})
    IN  [skip |-> (page - 1) * limit, take |-> limit, page |-> page, limit |-> limit]

\* buildPaginatedResult: Math.ceil.
PaginatedResult(items, total, meta) ==
    [items |-> items, total |-> total, page |-> meta.page, limit |-> meta.limit,
     totalPages |-> (total + meta.limit - 1) \div meta.limit]

\* findMany of the rows `where' with skip and take, and the count of the same
\* rows, in one transaction: both see one state of the table.
Page(t, where, q, defaultSort) ==
    LET meta == PageMeta(q)
        rows == {i \in where : Given(q, "found") => i \in q.found}
        order == Sorted(t, rows, IF Given(q, "sortBy") THEN q.sortBy ELSE defaultSort,
                        ~Given(q, "asc"))
    IN  PaginatedResult(SubSeq(order, meta.skip + 1, Min({meta.skip + meta.take, Len(order)})),
                        Cardinality(rows), meta)

-----------------------------------------------------------------------------
PropertyWhere(t, q) ==
    {i \in Active(t) : /\ Matches(t[i], q, {"estado", "tipo"})
                       /\ Given(q, "precioMin") => t[i].precio >= q.precioMin
                       /\ Given(q, "precioMax") => t[i].precio <= q.precioMax}

PublicWhere(t, q) ==
    {i \in Active(t) : /\ t[i].publicado
                       /\ Matches(t[i], q, {"tipo"})
                       /\ Given(q, "precioMin") => t[i].precio >= q.precioMin
                       /\ Given(q, "precioMax") => t[i].precio <= q.precioMax}

MatchingRows(t, q, fields) == {i \in Active(t) : Matches(t[i], q, fields)}

TenantWhere(t, q) == MatchingRows(t, q, {"estado", "propertyId"})
ContractWhere(t, q) == MatchingRows(t, q, {"estado", "propertyId", "tenantId"})
PaymentWhere(t, q) ==
    MatchingRows(t, q, {"estado", "metodo", "contractId", "tenantId", "propertyId"})
TicketWhere(t, q) ==
    MatchingRows(t, q, {"estado", "prioridad", "categoria", "propertyId", "tenantId"})
LeadWhere(t, q) == MatchingRows(t, q, {"estado", "propertyId", "vendedorId"})
NoticeWhere(t, q) == MatchingRows(t, q, {"leida"})

PropertyList(d, q) == Page(d.props, PropertyWhere(d.props, q), q, "creado")
PublicList(d, q) == Page(d.props, PublicWhere(d.props, q), q, "creado")
TenantList(d, q) == Page(d.tenants, TenantWhere(d.tenants, q), q, "creado")
ContractList(d, q) == Page(d.contracts, ContractWhere(d.contracts, q), q, "creado")
PaymentList(d, q) == Page(d.payments, PaymentWhere(d.payments, q), q, "vence")
TicketList(d, q) == Page(d.tickets, TicketWhere(d.tickets, q), q, "creado")
LeadList(d, q) == Page(d.leads, LeadWhere(d.leads, q), q, "creado")
NoticeList(d, q) == Page(d.notices, NoticeWhere(d.notices, q), q, "creado")
=============================================================================
