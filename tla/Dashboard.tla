----------------------------- MODULE Dashboard -----------------------------
(***************************************************************************)
(* The reports of RentFlowAPI: DashboardService, and the overview of the   *)
(* payments, the tickets and the leads.                                    *)
(*                                                                         *)
(* A report is made of queries.  Those of one Promise.all run at once, and *)
(* each sees the database of its own moment: at[query].  Those of one      *)
(* $transaction see one state.  `now' is the date of the request.  Rates   *)
(* are in hundredths of a percent.                                         *)
(***************************************************************************)
EXTENDS Calendar, Lists

\* The sum of the values of a function.
SumOf(f) == FoldFunction(+, 0, f)

\* _sum: a null counts for nothing, and Number(... ?? 0) is 0 for no row.
Sum(t, ids, field) == SumOf([i \in ids |-> IF t[i][field] = Null THEN 0 ELSE t[i][field]])

\* toFixed: a / b to the nearest integer.
Rounded(a, b) == (2 * a + b) \div (2 * b)

\* (a / b * 100).toFixed(2), and 0 of nothing.
Rate(a, b) == IF b > 0 THEN Rounded(10000 * a, b) ELSE 0

\* groupBy: the number of rows for each value that occurs.
GroupBy(t, ids, field) ==
    [v \in {t[i][field] : i \in ids} |-> Cardinality({i \in ids : t[i][field] = v})]
Get(groups, v) == IF v \in DOMAIN groups THEN groups[v] ELSE 0

WithEstado(t, states) == {i \in Active(t) : t[i].estado \in states}
Estado(t, e) == WithEstado(t, {e})
Urgent(t) == Cardinality({i \in Active(t) : t[i].prioridad = "URGENTE"})

\* fecha >= from: no row without a date.
Since(t, ids, field, from) == {i \in ids : t[i][field] # Null /\ t[i][field] >= from}

FirstDayOfMonth(now) == DateOf(MonthOf(now), 1)
OpenStates == {"PENDIENTE", "EN_PROGRESO", "ESPERANDO_REPUESTOS"}
ResolvedStates == {"RESUELTO", "CERRADO"}

-----------------------------------------------------------------------------
(***************************************************************************)
(* GET /dashboard/overview.                                                *)
(***************************************************************************)
OverviewProperties(at) ==
    LET total == Cardinality(Active(at["totalProps"].props))
        ocupadas == Cardinality(Estado(at["ocupadasProps"].props, "OCUPADA"))
    IN  [total |-> total, ocupadas |-> ocupadas,
         disponibles |-> Cardinality(Estado(at["disponiblesProps"].props, "DISPONIBLE")),
         enMantenimiento |->
             Cardinality(Estado(at["mantenimientoProps"].props, "MANTENIMIENTO")),
         occupancyRate |-> Rate(ocupadas, total)]

OverviewContracts(at, now) ==
    [activos |-> Cardinality(Estado(at["activosContratos"].contracts, "ACTIVO")),
     porVencer |-> LET t == at["porVencerContratos"].contracts
                   IN  Cardinality({i \in Estado(t, "ACTIVO") : t[i].fin <= now + 30}),
     vencidos |-> Cardinality(Estado(at["vencidosContratos"].contracts, "VENCIDO"))]

OverviewCounts(at) ==
    LET t == at["pagos"].payments
    IN  [pendientes |-> Cardinality(Estado(t, "PENDIENTE")),
         vencidos |-> Cardinality(Estado(t, "VENCIDO")),
         pagados |-> Cardinality(Estado(t, "PAGADO"))]

\* Sum of `field' of the active payments in one estado, and of one that is paid.
PaymentSum(d, e, field) == Sum(d.payments, Estado(d.payments, e), field)
PaidSince(d, from) ==
    Sum(d.payments, Since(d.payments, Estado(d.payments, "PAGADO"), "fechaPago", from), "monto")

OverviewPayments(at, now) ==
    [counts |-> OverviewCounts(at),
     montoPendiente |-> PaymentSum(at["montoPendiente"], "PENDIENTE", "monto"),
     montoVencido |-> PaymentSum(at["montoVencido"], "VENCIDO", "monto"),
     moraTotalVencida |-> PaymentSum(at["moraVencida"], "VENCIDO", "mora"),
     ingresosMesActual |-> PaidSince(at["ingresosMes"], FirstDayOfMonth(now)),
     ingresosTotales |-> PaymentSum(at["ingresosTotales"], "PAGADO", "monto"),
     collectionRate |->
         LET c == OverviewCounts(at) IN Rate(c.pagados, c.pendientes + c.vencidos + c.pagados)]

OverviewTickets(at, now) ==
    [abiertos |-> Cardinality(WithEstado(at["ticketsAbiertos"].tickets, OpenStates)),
     urgentes |-> Urgent(at["ticketsUrgentes"].tickets),
     resueltosMes |-> LET t == at["ticketsResueltosMes"].tickets
                      IN  Cardinality(Since(t, WithEstado(t, ResolvedStates),
                                            "fechaResolucion", now - 30)),
     costosTotales |-> LET t == at["costosMaint"].tickets
                       IN  Sum(t, WithEstado(t, ResolvedStates), "costoFinal")]

Overview(at, now) ==
    [propiedades |-> OverviewProperties(at), contratos |-> OverviewContracts(at, now),
     pagos |-> OverviewPayments(at, now), mantenimiento |-> OverviewTickets(at, now)]

OverviewQueries ==
    {"totalProps", "ocupadasProps", "disponiblesProps", "mantenimientoProps",
     "activosContratos", "porVencerContratos", "vencidosContratos", "pagos", "ingresosMes",
     "ingresosTotales", "montoPendiente", "montoVencido", "moraVencida", "ticketsAbiertos",
     "ticketsUrgentes", "ticketsResueltosMes", "costosMaint"}

-----------------------------------------------------------------------------
(***************************************************************************)
(* GET /dashboard/revenue.                                                 *)
(***************************************************************************)
\* Mutant: setMonth, as in the seed.
MonthSlotsOfToday(now) == {MonthOf(SetMonth(now, MonthOf(now) - i)) : i \in 0..11}

\* The keys of the 12 slots.
MonthSlots(now) == {MonthOf(DateOf(MonthOf(now) - i, 1)) : i \in 0..11}

\* ingresosPorMes, of the payments paid since the first day of the first slot;
\* the months are in the order of their keys.
Last12Months(t, now) ==
    LET rows == Since(t, Estado(t, "PAGADO"), "fechaPago", DateOf(MonthOf(now) - 11, 1))
        In(slot) == {y \in rows : MonthOf(t[y].fechaPago) = slot}
    IN  {LET paid == In(slot)
         IN  [mes |-> slot, ingresos |-> Sum(t, paid, "monto"),
              cantidadPagos |-> Cardinality(paid)] : slot \in MonthSlots(now)}

\* The first of the months with the highest income.
BestMonth(months) ==
    IF \A m \in months : m.ingresos = 0 THEN Null
    ELSE CHOOSE m \in months : \A other \in months :
           m.ingresos > other.ingresos \/ (m.ingresos = other.ingresos /\ m.mes <= other.mes)

ThisYear(d, now) == PaidSince(d, DateOf(January(now), 1))
\* lte: lastYearEnd, which is the start of 31 December.
LastYear(d, now) ==
    LET t == d.payments
        upTo == {y \in Estado(t, "PAGADO") :
                   t[y].fechaPago # Null /\ t[y].fechaPago < DateOf(January(now), 0)}
    IN  Sum(t, Since(t, upTo, "fechaPago", DateOf(January(now) - 12, 1)), "monto")

\* 10000 times the difference is past TLC's integers: first whole percents.
Growth(actual, anterior) ==
    LET percents == 100 * (actual - anterior)
    IN  IF anterior > 0
          THEN 100 * (percents \div anterior) + Rounded(100 * (percents % anterior), anterior)
          ELSE IF actual > 0 THEN 10000 ELSE 0

Revenue(at, now) ==
    LET months == Last12Months(at["pagosPeriodo"].payments, now)
        total == SumOf([m \in months |-> m.ingresos])
        earning == {m \in months : m.ingresos > 0}
        actual == ThisYear(at["anioActual"], now)
        anterior == LastYear(at["anioAnterior"], now)
    IN  [ultimos12Meses |-> months, totalPeriodo |-> total,
         promedioMensual |-> IF earning = {} THEN 0 ELSE Rounded(total, Cardinality(earning)),
         mejorMes |-> BestMonth(months),
         anioActual |-> actual, anioAnterior |-> anterior, crecimiento |-> Growth(actual, anterior)]

RevenueQueries == {"pagosPeriodo", "anioActual", "anioAnterior"}

-----------------------------------------------------------------------------
(***************************************************************************)
(* GET /dashboard/occupancy.                                               *)
(***************************************************************************)
OccupancyTotals(at) ==
    LET t == at["totalAgg"].props
        porEstado == GroupBy(t, Active(t), "estado")
        ocupadas == Get(porEstado, "OCUPADA")
        disponibles == Get(porEstado, "DISPONIBLE")
        enMantenimiento == Get(porEstado, "MANTENIMIENTO")
        total == ocupadas + disponibles + enMantenimiento
    IN  [occupancyRate |-> Rate(ocupadas, total), totalPropiedades |-> total,
         ocupadas |-> ocupadas, disponibles |-> disponibles, enMantenimiento |-> enMantenimiento]

OccupancyByType(at) ==
    LET porTipo == GroupBy(at["porTipo"].props, Active(at["porTipo"].props), "tipo")
        t == at["porTipoOcupadas"].props
        ocupadasPorTipo == GroupBy(t, Estado(t, "OCUPADA"), "tipo")
    IN  {[tipo |-> v, total |-> porTipo[v], ocupadas |-> Get(ocupadasPorTipo, v),
          disponibles |-> porTipo[v] - Get(ocupadasPorTipo, v),
          rate |-> Rate(Get(ocupadasPorTipo, v), porTipo[v])] : v \in DOMAIN porTipo}

OccupancyQueries == {"totalAgg", "porTipo", "porTipoOcupadas"}

-----------------------------------------------------------------------------
(***************************************************************************)
(* GET /dashboard/payments and GET /payments/stats/overview.               *)
(***************************************************************************)
PaymentCounts(at) ==
    LET t == at["porEstado"].payments
        porEstado == GroupBy(t, Active(t), "estado")
        Of(e) == Get(porEstado, e)
    IN  [pendientes |-> Of("PENDIENTE"), vencidos |-> Of("VENCIDO"), pagados |-> Of("PAGADO"),
         parciales |-> Of("PARCIAL"), cancelados |-> Of("CANCELADO"),
         collectionRate |-> Rate(Of("PAGADO"), Of("PENDIENTE") + Of("VENCIDO") + Of("PAGADO")
                                                 + Of("PARCIAL"))]

Last30Days(at, now) ==
    [cobrado |-> PaidSince(at["cobrado30"], now - 30),
     pendiente |-> LET t == at["pendiente30"].payments
                   IN  Sum(t, Since(t, Estado(t, "PENDIENTE"), "creado", now - 30), "monto"),
     cantidadPagos |-> LET t == at["count30"].payments
                       IN  Cardinality(Since(t, Active(t), "creado", now - 30))]

\* The order of the methods, by their number of payments, is left out.
ByMethod(at) ==
    LET t == at["porMetodoPago"].payments
        rows == {y \in Estado(t, "PAGADO") : t[y].metodo # Null}
        Using(m) == {y \in rows : t[y].metodo = m}
    IN  {[metodo |-> m, cantidad |-> Cardinality(Using(m)), total |-> Sum(t, Using(m), "monto")] :
           m \in {t[y].metodo : y \in rows}}

PaymentsReport(at, now) ==
    [conteos |-> PaymentCounts(at),
     montoPendiente |-> PaymentSum(at["montoPendiente"], "PENDIENTE", "monto"),
     montoVencido |-> PaymentSum(at["montoVencido"], "VENCIDO", "monto"),
     moraTotalVencida |-> PaymentSum(at["moraVencida"], "VENCIDO", "mora"),
     totalCobrado |-> PaymentSum(at["totalCobrado"], "PAGADO", "monto"),
     ultimos30Dias |-> Last30Days(at, now), porMetodoPago |-> ByMethod(at)]

PaymentsQueries ==
    {"porEstado", "montoPendiente", "montoVencido", "moraVencida", "totalCobrado", "cobrado30",
     "pendiente30", "count30", "porMetodoPago"}

\* One transaction: one state of the tables.
PaymentStats(d, now) ==
    LET Of(e) == Cardinality(Estado(d.payments, e))
    IN  [totalCobradoMes |-> PaidSince(d, FirstDayOfMonth(now)),
         pagosPendientes |-> Of("PENDIENTE"), pagosVencidos |-> Of("VENCIDO"),
         ingresosTotales |-> PaymentSum(d, "PAGADO", "monto"),
         porcentajeCobranza |-> Rate(Of("PAGADO"), Of("PENDIENTE") + Of("VENCIDO") + Of("PAGADO")),
         montoPendiente |-> PaymentSum(d, "PENDIENTE", "monto"),
         montoVencido |-> PaymentSum(d, "VENCIDO", "monto")]

-----------------------------------------------------------------------------
(***************************************************************************)
(* GET /dashboard/maintenance, GET /maintenance/stats/overview and         *)
(* GET /leads/stats/overview.                                              *)
(***************************************************************************)
TicketCounts(at) ==
    LET t == at["porEstado"].tickets
        porEstado == GroupBy(t, Active(t), "estado")
    IN  [abiertos |-> SumOf([e \in OpenStates |-> Get(porEstado, e)]),
         urgentes |-> Urgent(at["urgentes"].tickets),
         resueltos |-> Get(porEstado, "RESUELTO"), cerrados |-> Get(porEstado, "CERRADO"),
         total |-> SumOf(porEstado)]

\* Days, from the creation to the resolution, in tenths; no ticket, no mean.
MeanDays(t) ==
    LET rows == {k \in WithEstado(t, ResolvedStates) : t[k].fechaResolucion # Null}
        days == SumOf([k \in rows |-> t[k].fechaResolucion - t[k].creado])
    IN  IF rows = {} THEN Null ELSE Rounded(10 * days, Cardinality(rows))

TicketCosts(at, now) ==
    [costosTotales |-> LET t == at["costosTotales"].tickets
                       IN  Sum(t, WithEstado(t, ResolvedStates), "costoFinal"),
     costoEstimadoAbiertos |-> LET t == at["estimado"].tickets
                               IN  Sum(t, WithEstado(t, OpenStates), "costoEstimado"),
     costosUltimos30Dias |-> LET t == at["costo30"].tickets
                             IN  Sum(t, Since(t, WithEstado(t, ResolvedStates),
                                              "fechaResolucion", now - 30), "costoFinal")]

ByCategory(at) ==
    LET t == at["porCategoria"].tickets
        Of(c) == {k \in Active(t) : t[k].categoria = c}
    IN  {[categoria |-> c, cantidad |-> Cardinality(Of(c)), costoTotal |-> Sum(t, Of(c), "costoFinal")] :
           c \in {t[k].categoria : k \in Active(t)}}

MaintenanceReport(at, now) ==
    [tickets |-> TicketCounts(at),
     costos |-> TicketCosts(at, now), promedioResolucionDias |-> MeanDays(at["tiempos"].tickets),
     porCategoria |-> ByCategory(at),
     porPrioridad |-> LET t == at["porPrioridad"].tickets IN GroupBy(t, Active(t), "prioridad")]

MaintenanceQueries ==
    {"porEstado", "urgentes", "costosTotales", "estimado", "costo30", "tiempos", "porCategoria",
     "porPrioridad"}

TicketStats(d) ==
    [ticketsAbiertos |-> Cardinality(WithEstado(d.tickets, OpenStates)),
     ticketsUrgentes |-> Urgent(d.tickets),
     ticketsResueltos |-> Cardinality(WithEstado(d.tickets, ResolvedStates)),
     tiempoPromedioResolucion |-> MeanDays(d.tickets),
     costosTotales |-> Sum(d.tickets, WithEstado(d.tickets, ResolvedStates), "costoFinal")]

\* tasaConversion with one decimal.
LeadStats(d) ==
    LET total == Cardinality(Active(d.leads))
        ganados == Cardinality(Estado(d.leads, "GANADO"))
    IN  [total |-> total, porEstado |-> GroupBy(d.leads, Active(d.leads), "estado"),
         tasaConversion |-> IF total > 0 THEN Rounded(1000 * ganados, total) ELSE 0]

CountUnread(d) == Cardinality({k \in DOMAIN d.notices : ~d.notices[k].leida})

-----------------------------------------------------------------------------
(***************************************************************************)
(* GET /dashboard/activity: the newest rows.                               *)
(***************************************************************************)
Newest(t, n) ==
    LET order == Sorted(t, Active(t), "creado", TRUE)
    IN  SubSeq(order, 1, Min({n, Len(order)}))

RecentActivity(at) ==
    [pagosRecientes |-> Newest(at["pagosRecientes"].payments, 10),
     contratosRecientes |-> Newest(at["contratosRecientes"].contracts, 10),
     ticketsRecientes |-> Newest(at["ticketsRecientes"].tickets, 10),
     actividadesRecientes |-> Min({20, at["actividadesRecientes"].activity})]

ActivityQueries ==
    {"pagosRecientes", "contratosRecientes", "ticketsRecientes", "actividadesRecientes"}
=============================================================================
