-------------------------------- MODULE Demo --------------------------------
(***************************************************************************)
(* The reports and the lists of RentFlowAPI over the database that the     *)
(* seed and the API write, when their queries see one moment.  All rows    *)
(* are of one account, so that the ownerId of the queries selects them all.*)
(***************************************************************************)
EXTENDS Seed, Dashboard

\* A report whose queries all see the tables d.
Still(queries, d) == [q \in queries |-> d]

-----------------------------------------------------------------------------
\* The rows paid, and those paid from the first day of month n to the last of
\* month m.
AllPaid(d) == {y \in DOMAIN d.payments : d.payments[y].isActive /\ d.payments[y].estado = "PAGADO"}
Paid(d, n, m) == {y \in AllPaid(d) : d.payments[y].fechaPago \in FirstDay(n)..(FirstDay(m + 1) - 1)}
Total(d, ids) == SumOf([y \in ids |-> d.payments[y].monto])

\* The 12 slots of the revenue report are this month and the 11 before it, and
\* each holds what was paid in its month; last year holds what was paid in it,
\* but for 31 December, and this year all that has a date since it began, the
\* dates to come included.
RevenueAgrees(d, now) ==
    LET r == Revenue(Still(RevenueQueries, d), now)
        this == MonthOf(now)
        year == January(now)
        lastYear == {y \in Paid(d, year - 12, year - 1) :
                       d.payments[y].fechaPago # DateOf(year - 1, 31)}
    IN  /\ {m.mes : m \in r.ultimos12Meses} = (this - 11)..this
        /\ \A m \in r.ultimos12Meses : LET paid == Paid(d, m.mes, m.mes) IN
             m.ingresos = Total(d, paid) /\ m.cantidadPagos = Cardinality(paid)
        /\ r.totalPeriodo = Total(d, Paid(d, this - 11, this))
        /\ r.anioActual = Total(d, {y \in AllPaid(d) : d.payments[y].fechaPago >= FirstDay(year)})
        /\ r.anioAnterior = Total(d, lastYear)
        /\ r.mejorMes # Null => \A m \in r.ultimos12Meses : m.ingresos <= r.mejorMes.ingresos

\* Two reports that show one figure show the same, when they read one state.
FiguresAgree(d, now) ==
    LET o == Overview(Still(OverviewQueries, d), now)
        r == PaymentsReport(Still(PaymentsQueries, d), now)
        p == PaymentStats(d, now)
        t == OccupancyTotals(Still(OccupancyQueries, d))
        byType == OccupancyByType(Still(OccupancyQueries, d))
        m == MaintenanceReport(Still(MaintenanceQueries, d), now)
        k == TicketStats(d)
    IN  /\ o.propiedades.total = t.totalPropiedades
        /\ o.propiedades.occupancyRate = t.occupancyRate
        /\ o.propiedades.ocupadas = SumOf([x \in byType |-> x.ocupadas])
        /\ o.propiedades.total = SumOf([x \in byType |-> x.total])
        /\ \A x \in byType : x.ocupadas \in 0..x.total
        /\ o.pagos.counts.pagados = r.conteos.pagados
        /\ o.pagos.collectionRate = p.porcentajeCobranza
        /\ r.conteos.parciales = 0 => r.conteos.collectionRate = p.porcentajeCobranza
        /\ <<p.montoPendiente, p.montoVencido, p.ingresosTotales>>
             = <<r.montoPendiente, r.montoVencido, r.totalCobrado>>
        /\ o.pagos.ingresosMesActual = p.totalCobradoMes
        /\ SumOf([x \in r.porMetodoPago |-> x.total])
             + Total(d, {y \in AllPaid(d) : d.payments[y].metodo = Null}) = r.totalCobrado
        /\ r.ultimos30Dias.cobrado <= r.totalCobrado
        /\ m.tickets.total = Cardinality(Active(d.tickets))
        /\ <<m.tickets.abiertos, m.tickets.urgentes, m.tickets.resueltos + m.tickets.cerrados>>
             = <<k.ticketsAbiertos, k.ticketsUrgentes, k.ticketsResueltos>>
        /\ o.mantenimiento.costosTotales = m.costos.costosTotales
        /\ SumOf([c \in m.porCategoria |-> c.cantidad]) = m.tickets.total

\* The pages of this size have a place for each payment and for nothing else,
\* and the payments due on one day have as many places, over all pages, as they
\* are: those on one page are there once.  (Which of them are on which page,
\* where a page ends between two of them, may differ from request to request.)
PagesAreWhole(d, size) ==
    LET pages == PaymentList(d, [limit |-> size]).totalPages
        shown == UNION {LET items == PaymentList(d, [limit |-> size, page |-> n]).items
                        IN  {[page |-> n, place |-> k, rows |-> items[k]] : k \in DOMAIN items} :
                        n \in 1..pages}
    IN  /\ Cardinality(shown) = Cardinality(Active(d.payments))
        /\ \A x \in shown : x.rows \subseteq Active(d.payments)
        /\ \A y \in Active(d.payments) :
             Cardinality({x \in shown : y \in x.rows})
               = Cardinality({z \in Active(d.payments) : d.payments[z].vence = d.payments[y].vence})

\* A list with a filter is as long as the report counts, and its pages are whole.
ListsAgree(d, now) ==
    LET o == Overview(Still(OverviewQueries, d), now)
        recent == RecentActivity(Still(ActivityQueries, d))
    IN  /\ PropertyList(d, [estado |-> "OCUPADA"]).total = o.propiedades.ocupadas
        /\ ContractList(d, [estado |-> "VENCIDO"]).total = o.contratos.vencidos
        /\ PaymentList(d, [estado |-> "VENCIDO"]).total = o.pagos.counts.vencidos
        /\ TicketList(d, [prioridad |-> "URGENTE"]).total = o.mantenimiento.urgentes
        /\ NoticeList(d, [leida |-> FALSE]).total = CountUnread(d)
        /\ LeadList(d, [estado |-> "GANADO"]).total = Get(LeadStats(d).porEstado, "GANADO")
        /\ PublicList(d, [precioMin |-> 14500]).total + PublicList(d, [precioMax |-> 14499]).total
             = PublicList(d, [page |-> 1]).total
        /\ \A i \in DOMAIN d.tenants : TenantList(d, [propertyId |-> i]).total <= 1
        /\ \A i \in DOMAIN d.contracts :
             PaymentList(d, [contractId |-> i]).total = PaymentList(d, [tenantId |-> i]).total
        /\ recent.contratosRecientes = ContractList(d, [page |-> 0]).items
        /\ recent.ticketsRecientes = TicketList(d, [page |-> 1]).items
        /\ recent.pagosRecientes = PaymentList(d, [sortBy |-> "creado"]).items
        /\ \A size \in {5, 100} : PagesAreWhole(d, size)

(***************************************************************************)
(* The reports and lists of one moment agree: with the payments there are, *)
(* month by month and year by year, on every day of a month, and with one  *)
(* another, whatever part of the demo a failed seed left and whatever the  *)
(* API wrote.                                                              *)
(***************************************************************************)
ReportsAgree ==
    /\ RevenueAgrees(db, clock)
    /\ FiguresAgree(db, clock)
    /\ ListsAgree(db, clock)
=============================================================================
