----------------------------- MODULE SeedProofs -----------------------------
(***************************************************************************)
(* Theorems about the seed of RentFlowAPI, for every selection of the      *)
(* script's rows, every set of dates and any number of writes of the API:  *)
(* the types of the tables it and the API leave, that a run which completes *)
(* left the whole demo, and that it has the months that it says.           *)
(*                                                                         *)
(* The inductive invariant joins the types of the tables with what a run   *)
(* relies on: which users it has created, without whom there is no row, and *)
(* that nothing but its rows so far is there while nobody else writes.     *)
(***************************************************************************)
EXTENDS Demo, FiniteSetTheorems, TLAPS

-----------------------------------------------------------------------------
(***************************************************************************)
(* The calendar.                                                           *)
(***************************************************************************)
\* The first day of a year.
YearStart(y) == 365 * y + (y + 3) \div 4

\* A month lasts 28 to 31 days, a December 31.
LEMMA MonthLength ==
    ASSUME NEW n \in Nat
    PROVE  /\ FirstDay(n) \in Nat
           /\ FirstDay(n + 1) - FirstDay(n) \in 28..31
           /\ n % 12 = 11 => FirstDay(n + 1) - FirstDay(n) = 31
  BY SMTT(30) DEF FirstDay, Leap

\* The months of a year lie between its first day and that of the next.
LEMMA MonthInYear ==
    ASSUME NEW n \in Nat
    PROVE  LET y == n \div 12 IN
           /\ y \in Nat
           /\ YearStart(y) <= FirstDay(n)
           /\ FirstDay(n + 1) <= YearStart(y + 1)
  BY SMTT(30) DEF FirstDay, Leap, YearStart

LEMMA YearsGrow ==
    ASSUME NEW y \in Nat, NEW z \in Nat, y < z
    PROVE  YearStart(y + 1) <= YearStart(z)
  BY SMTT(30) DEF YearStart

LEMMA MonthsGrow ==
    ASSUME NEW n \in Nat, NEW m \in Nat, n < m
    PROVE  FirstDay(n + 1) <= FirstDay(m)
<1> DEFINE y == n \div 12
           z == m \div 12
<1>1. /\ y \in Nat /\ FirstDay(n + 1) <= YearStart(y + 1)
      /\ z \in Nat /\ YearStart(z) <= FirstDay(m)
      /\ YearStart(y + 1) \in Int /\ YearStart(z) \in Int
      /\ FirstDay(n + 1) \in Int /\ FirstDay(m) \in Int
  <2>1. /\ y \in Nat /\ FirstDay(n + 1) <= YearStart(y + 1)
    BY MonthInYear
  <2>2. /\ z \in Nat /\ YearStart(z) <= FirstDay(m)
    BY MonthInYear
  <2>3. n + 1 \in Nat /\ FirstDay(n + 1) \in Int /\ FirstDay(m) \in Int
    BY MonthLength
  <2>4. YearStart(y + 1) \in Int /\ YearStart(z) \in Int
    BY <2>1, <2>2, SMT DEF YearStart
  <2> QED
    BY <2>1, <2>2, <2>3, <2>4
<1>2. CASE y < z
  <2>1. YearStart(y + 1) <= YearStart(z)
    BY <1>1, <1>2, YearsGrow
  <2> HIDE DEF y, z
  <2> QED
    BY <1>1, <2>1
<1>3. CASE y = z
  BY <1>3, SMTT(60) DEF FirstDay, Leap
<1>4. y <= z
  BY SMTT(30)
<1>5. y < z \/ y = z
  <2> HIDE DEF y, z
  <2> QED
    BY <1>1, <1>4
<1> QED
  BY <1>2, <1>3, <1>5

\* A month holds a day that MonthOf looks for.
LEMMA MonthInRange ==
    ASSUME NEW date \in Nat, NEW n \in Nat, FirstDay(n) <= date, date < FirstDay(n + 1)
    PROVE  n \in ((12 * date) \div 366 - 1)..((12 * date) \div 365 + 1)
  BY SMTT(60) DEF FirstDay, Leap

\* A day of a year is in one of its months.
LEMMA YearHasMonths ==
    ASSUME NEW y \in Nat, NEW date \in Nat, YearStart(y) <= date, date < YearStart(y + 1)
    PROVE  \E n \in Nat : FirstDay(n) <= date /\ date < FirstDay(n + 1)
<1>1. \A k \in 0..11 : 12 * y + k \in Nat
  BY SMT
<1>2. FirstDay(12 * y) = YearStart(y) /\ FirstDay(12 * y + 12) = YearStart(y + 1)
  BY SMTT(30) DEF FirstDay, Leap, YearStart
<1>3. \A k \in 1..12 : FirstDay(12 * y + k) \in Int
  BY MonthLength, SMT
<1>4. \E k \in 0..11 : FirstDay(12 * y + k) <= date /\ date < FirstDay(12 * y + (k + 1))
  BY <1>2, <1>3, SMTT(30)
<1> QED
  <2>1. PICK k \in 0..11 : FirstDay(12 * y + k) <= date /\ date < FirstDay(12 * y + (k + 1))
    BY <1>4
  <2>2. 12 * y + (k + 1) = (12 * y + k) + 1
    BY SMT
  <2> QED
    BY <1>1, <2>1, <2>2

LEMMA DateInYear ==
    ASSUME NEW date \in Nat
    PROVE  \E y \in Nat : YearStart(y) <= date /\ date < YearStart(y + 1)
<1> DEFINE q == date \div 1461
           r == date % 1461
<1>1. q \in Nat /\ r \in 0..1460 /\ date = 1461 * q + r
  BY SMT
<1> HIDE DEF q, r
<1>2. \A k \in 0..3 : 4 * q + k \in Nat
  BY <1>1
<1>3. CASE r < 366
  <2>1. YearStart(4 * q) <= date /\ date < YearStart(4 * q + 1)
    BY <1>1, <1>3, SMTT(30) DEF YearStart
  <2> QED
    BY <1>1, <2>1
<1>4. CASE r >= 366 /\ r < 731
  <2>1. YearStart(4 * q + 1) <= date /\ date < YearStart((4 * q + 1) + 1)
    BY <1>1, <1>4, SMTT(30) DEF YearStart
  <2> QED
    BY <1>2, <2>1
<1>5. CASE r >= 731 /\ r < 1096
  <2>1. YearStart(4 * q + 2) <= date /\ date < YearStart((4 * q + 2) + 1)
    BY <1>1, <1>5, SMTT(30) DEF YearStart
  <2> QED
    BY <1>2, <2>1
<1>6. CASE r >= 1096
  <2>1. YearStart(4 * q + 3) <= date /\ date < YearStart((4 * q + 3) + 1)
    BY <1>1, <1>6, SMTT(30) DEF YearStart
  <2> QED
    BY <1>2, <2>1
<1> QED
  BY <1>1, <1>3, <1>4, <1>5, <1>6

\* Every date is in one month, which MonthOf finds.
LEMMA MonthOfDate ==
    ASSUME NEW date \in Nat
    PROVE  /\ MonthOf(date) \in Nat
           /\ FirstDay(MonthOf(date)) <= date /\ date < FirstDay(MonthOf(date) + 1)
<1>1. PICK n \in Nat : FirstDay(n) <= date /\ date < FirstDay(n + 1)
  BY DateInYear, YearHasMonths
<1>2. n \in ((12 * date) \div 366 - 1)..((12 * date) \div 365 + 1)
  BY <1>1, MonthInRange
<1>3. /\ MonthOf(date) \in ((12 * date) \div 366 - 1)..((12 * date) \div 365 + 1)
      /\ FirstDay(MonthOf(date)) <= date /\ date < FirstDay(MonthOf(date) + 1)
  BY <1>1, <1>2 DEF MonthOf
<1>4. MonthOf(date) >= -1
  BY <1>3, SMT
<1>5. FirstDay(-1 + 1) = 0
  BY SMT DEF FirstDay, Leap
<1>6. MonthOf(date) # -1
  BY <1>3, <1>5, SMT
<1> QED
  BY <1>3, <1>4, <1>6, SMT

\* A date is in no other month.
LEMMA OneMonth ==
    ASSUME NEW date \in Nat, NEW n \in Nat, FirstDay(n) <= date, date < FirstDay(n + 1)
    PROVE  MonthOf(date) = n
<1>1. /\ MonthOf(date) \in Nat
      /\ FirstDay(MonthOf(date)) <= date /\ date < FirstDay(MonthOf(date) + 1)
  BY MonthOfDate
<1> DEFINE m == MonthOf(date)
<1> HIDE DEF m
<1>2. m \in Nat /\ FirstDay(m) <= date /\ date < FirstDay(m + 1)
  BY <1>1 DEF m
<1>3. /\ FirstDay(n) \in Int /\ FirstDay(n + 1) \in Int
      /\ FirstDay(m) \in Int /\ FirstDay(m + 1) \in Int
  BY <1>2, MonthLength
<1>4. ~(m < n)
  BY <1>2, <1>3, MonthsGrow
<1>5. ~(n < m)
  BY <1>2, <1>3, MonthsGrow
<1> QED
  BY <1>2, <1>4, <1>5 DEF m

\* A later date is in no earlier month.
LEMMA LaterMonth ==
    ASSUME NEW date \in Nat, NEW later \in Nat, date <= later
    PROVE  MonthOf(date) <= MonthOf(later)
<1> DEFINE m == MonthOf(date)
           n == MonthOf(later)
<1>1. m \in Nat /\ FirstDay(m) <= date /\ n \in Nat /\ later < FirstDay(n + 1)
  BY MonthOfDate
<1> HIDE DEF m, n
<1>2. FirstDay(m) \in Int /\ FirstDay(n + 1) \in Int
  BY <1>1, MonthLength
<1>3. ~(n < m)
  BY <1>1, <1>2, MonthsGrow
<1> QED
  BY <1>1, <1>3 DEF m, n

\* Up to day 28 a date of a month is in that month.
LEMMA MonthOfDateOf ==
    ASSUME NEW n \in Nat, NEW day \in 1..28
    PROVE  /\ DateOf(n, day) \in Nat
           /\ MonthOf(DateOf(n, day)) = n
           /\ DayOf(DateOf(n, day)) = day
<1>1. FirstDay(n) \in Nat /\ FirstDay(n + 1) - FirstDay(n) \in 28..31
  BY MonthLength
<1>2. FirstDay(n + 1) \in Nat
  BY MonthLength
<1>3. /\ DateOf(n, day) \in Nat
      /\ FirstDay(n) <= DateOf(n, day) /\ DateOf(n, day) < FirstDay(n + 1)
  BY <1>1, <1>2 DEF DateOf
<1>4. MonthOf(DateOf(n, day)) = n
  BY <1>3, OneMonth
<1> QED
  BY <1>1, <1>3, <1>4 DEF DayOf, DateOf

\* The seed runs in a month from which all its offsets lead to a month.
LEMMA TodayIsLate ==
    ASSUME SeedAssumption, NEW today \in Todays
    PROVE  /\ today \in Nat /\ MonthOf(today) \in Nat /\ MonthOf(today) >= 24
           /\ DayOf(today) \in 1..31
<1> DEFINE m == MonthOf(today)
<1>1. today \in Nat /\ today > FirstDay(24)
  BY DEF SeedAssumption
<1>2. m \in Nat /\ FirstDay(m) <= today /\ today < FirstDay(m + 1)
  BY <1>1, MonthOfDate
<1>3. FirstDay(m) \in Nat /\ FirstDay(m + 1) - FirstDay(m) \in 28..31 /\ FirstDay(24) \in Nat
  BY <1>2, MonthLength
<1>4. DayOf(today) = today - FirstDay(m) + 1
  BY DEF DayOf
<1> HIDE DEF m
<1>5. FirstDay(m + 1) \in Nat
  BY <1>2, MonthLength
<1>6. ~(m < 24)
  BY <1>1, <1>2, <1>3, <1>5, MonthsGrow
<1>7. m \in Nat /\ m >= 24 /\ DayOf(today) \in 1..31
  BY <1>1, <1>2, <1>3, <1>4, <1>5, <1>6
<1> QED
  BY <1>1, <1>7 DEF m

\* Up to day 28 the period of an offset is that many months away.
LEMMA PeriodUpTo28 ==
    ASSUME SeedAssumption, NEW today \in Todays, DayOf(today) <= 28, NEW offset \in -11..0
    PROVE  Period(today, offset) = MonthOf(today) + offset
<1>1. MonthOf(today) + offset \in Nat /\ DayOf(today) \in 1..28
  BY TodayIsLate, SMT
<1> QED
  BY <1>1, MonthOfDateOf DEF Period, SetMonth

\* A month's offset may overflow into the next month, but for the offset 0.
LEMMA SetMonthBack ==
    ASSUME SeedAssumption, NEW today \in Todays, NEW offset \in -11..0
    PROVE  LET date == SetMonth(today, MonthOf(today) + offset) IN
           date \in Nat /\ MonthOf(date) \in Nat /\ MonthOf(date) <= MonthOf(today)
<1> DEFINE m == MonthOf(today)
           day == DayOf(today)
           n == m + offset
           date == DateOf(n, day)
<1>1. /\ today \in Nat /\ m \in Nat /\ m >= 24 /\ day \in 1..31
      /\ FirstDay(m) <= today /\ today < FirstDay(m + 1)
  BY TodayIsLate, MonthOfDate
<1>2. n \in Nat /\ n + 1 \in Nat
  BY <1>1, SMT
<1>3. /\ FirstDay(n) \in Nat /\ FirstDay(n + 1) \in Nat /\ FirstDay((n + 1) + 1) \in Nat
      /\ FirstDay(n + 1) - FirstDay(n) \in 28..31
      /\ FirstDay((n + 1) + 1) - FirstDay(n + 1) \in 28..31
      /\ FirstDay(m) \in Nat
  BY <1>1, <1>2, MonthLength
<1>4. day = today - FirstDay(m) + 1
  BY DEF DayOf
<1>5. date = FirstDay(n) + day - 1
  BY DEF DateOf
<1>6. SetMonth(today, MonthOf(today) + offset) = date
  BY DEF SetMonth
<1>7. date \in Nat /\ FirstDay(n) <= date /\ date < FirstDay((n + 1) + 1)
  <2> HIDE DEF n, m, day, date
  <2> QED
    BY <1>1, <1>2, <1>3, <1>5, SMT
<1>8. CASE offset = 0
  <2>1. date = today
    <3>1. n = m
      BY <1>8, <1>1
    <3> HIDE DEF n, m, day, date
    <3> QED
      BY <1>1, <1>3, <1>4, <1>5, <3>1, SMT
  <2> QED
    BY <1>1, <1>6, <2>1
<1>9. CASE offset # 0
  <2>1. MonthOf(date) = n \/ MonthOf(date) = n + 1
    <3> HIDE DEF n, m, day, date
    <3>1. CASE date < FirstDay(n + 1)
      BY <1>2, <1>7, <3>1, OneMonth
    <3>2. CASE ~(date < FirstDay(n + 1))
      BY <1>2, <1>3, <1>7, <3>2, OneMonth
    <3> QED
      BY <3>1, <3>2
  <2>2. n + 1 <= m
    BY <1>1, <1>9
  <2> QED
    <3> HIDE DEF n, m, day, date
    <3>1. MonthOf(date) \in Nat /\ MonthOf(date) <= m
      BY <1>1, <1>2, <2>1, <2>2
    <3> QED
      BY <1>6, <1>7, <3>1 DEF m
<1> QED
  BY <1>8, <1>9

\* Nothing is paid after the month in which the seed runs.
LEMMA SeedDates ==
    ASSUME SeedAssumption, NEW today \in Todays, NEW offset \in -11..0
    PROVE  /\ Period(today, offset) \in Nat
           /\ DueDate(today, offset) \in Nat
           /\ PaidDate(today, offset) \in Nat
           /\ MonthOf(PaidDate(today, offset)) <= MonthOf(today)
<1> DEFINE date == SetMonth(today, MonthOf(today) + offset)
<1>1. date \in Nat /\ MonthOf(date) \in Nat /\ MonthOf(date) <= MonthOf(today)
  BY SetMonthBack
<1> HIDE DEF date
<1>2. /\ DateOf(MonthOf(date), 10) \in Nat
      /\ DateOf(MonthOf(date), 5) \in Nat
      /\ MonthOf(DateOf(MonthOf(date), 5)) = MonthOf(date)
  BY <1>1, MonthOfDateOf
<1> QED
  BY <1>1, <1>2 DEF Period, DueDate, PaidDate, SetDate, date

-----------------------------------------------------------------------------
(***************************************************************************)
(* The tables.                                                             *)
(***************************************************************************)
PropertyType == {"APARTAMENTO", "DUPLEX", "CASA", "OFICINA", "LOCAL"}
PropertyStatus == {"DISPONIBLE", "OCUPADA", "MANTENIMIENTO"}
TenantStatus == {"ACTIVO", "MOROSO", "INACTIVO", "PENDIENTE"}
PaymentStatus == {"PENDIENTE", "PAGADO", "VENCIDO", "PARCIAL", "CANCELADO"}
MaintenancePriority == {"BAJA", "MEDIA", "ALTA", "URGENTE"}
MaintenanceCategory == {"PLOMERIA", "ELECTRICIDAD", "PINTURA", "LIMPIEZA", "SEGURIDAD", "GENERAL"}
LeadStatus ==
    {"NUEVO", "CONTACTADO", "VISITA_AGENDADA", "VISITA_REALIZADA", "NEGOCIACION", "GANADO",
     "PERDIDO"}

PropertyRow ==
    [tipo : PropertyType, estado : PropertyStatus, precio : Nat, publicado : BOOLEAN,
     creado : Int, isActive : BOOLEAN]
TenantRow ==
    [propertyId : Int \cup {Null}, estado : TenantStatus, creado : Int, isActive : BOOLEAN]
PaymentRow ==
    [contractId : Int, propertyId : Int, tenantId : Int, periodo : Int, monto : Nat,
     mora : Nat \cup {Null}, estado : PaymentStatus, metodo : PaymentMethod \cup {Null},
     vence : Int, fechaPago : Nat \cup {Null}, creado : Int, isActive : BOOLEAN]
TicketRow ==
    [propertyId : Int, tenantId : Int \cup {Null}, prioridad : MaintenancePriority,
     estado : OpenStates \cup ResolvedStates, categoria : MaintenanceCategory,
     costoEstimado : Nat, costoFinal : Nat \cup {Null}, fechaResolucion : Int \cup {Null},
     creado : Int, isActive : BOOLEAN]
LeadRow ==
    [propertyId : Int \cup {Null}, vendedorId : {"VENDEDOR", Null}, estado : LeadStatus,
     creado : Int, isActive : BOOLEAN]
NoticeRow == [leida : BOOLEAN, creado : Int, isActive : {TRUE}]

IsTable(t, ids, Row) == DOMAIN t \subseteq ids /\ t \in [DOMAIN t -> Row]

\* A tenant of the demo lives in the property with its number, or in none; a
\* payment is of the tenant of its contract, and a paid one has a date.
TenantFits(t, i) == t.propertyId \in {i, Null}
PaymentFits(p) ==
    /\ p.contractId = p.tenantId
    /\ p.estado = "PAGADO" => p.fechaPago # Null
ContractFits(t, i) == i \in Int /\ t.propertyId = i /\ t.tenantId = i

PaymentRows == PaymentIds \cup NewPayments

TablesOK(d) ==
    /\ DOMAIN d = {"users", "props", "tenants", "contracts", "payments", "tickets", "leads",
                   "notices", "activity"}
    /\ d = [f \in DOMAIN d |-> d[f]]
    /\ d.users \subseteq DemoUsers
    /\ IsTable(d.props, PropertyNos, PropertyRow)
    /\ IsTable(d.tenants, TenantNos, TenantRow)
    /\ IsTable(d.payments, PaymentRows, PaymentRow)
    /\ IsTable(d.tickets, TicketNos, TicketRow)
    /\ IsTable(d.leads, LeadNos, LeadRow)
    /\ IsTable(d.notices, 1..15, NoticeRow)
    /\ \A i \in DOMAIN d.tenants : TenantFits(d.tenants[i], i)
    /\ \A i \in DOMAIN d.contracts : ContractFits(d.contracts[i], i)
    /\ \A y \in DOMAIN d.payments : PaymentFits(d.payments[y])
    /\ d.activity \in Nat

LEMMA EmptyTable ==
    ASSUME NEW ids, NEW Row
    PROVE  IsTable(NoTable, ids, Row)
  BY DEF IsTable, NoTable

LEMMA MoreRows ==
    ASSUME NEW t, NEW ids, NEW Row, IsTable(t, ids, Row), NEW i \in ids, NEW row \in Row
    PROVE  IsTable(With(t, i, row), ids, Row)
  BY DEF IsTable, With

LEMMA RowUpdated ==
    ASSUME NEW t, NEW ids, NEW Row, IsTable(t, ids, Row), NEW i \in DOMAIN t, NEW row \in Row
    PROVE  IsTable([t EXCEPT ![i] = row], ids, Row)
  BY DEF IsTable

\* The data of the script.
LEMMA SeedProperty ==
    ASSUME NEW today \in Int, NEW i \in 1..12
    PROVE  PropertyOf(i, today) \in PropertyRow
<1> DEFINE p == PropertyOf(i, today)
<1>1. p.tipo \in PropertyType
  BY SMT DEF PropertyOf, PropertyType
<1>2. p.precio \in Nat
  BY SMT DEF PropertyOf
<1>3. p.estado \in PropertyStatus
  BY SMT DEF PropertyOf, PropertyStatus
<1>4. p.publicado \in BOOLEAN
  BY SMT DEF PropertyOf
<1>5. p = [tipo |-> p.tipo, estado |-> p.estado, precio |-> p.precio,
           publicado |-> p.publicado, creado |-> today, isActive |-> TRUE]
  BY SMT DEF PropertyOf
<1> HIDE DEF p
<1> QED
  <2>1. [tipo |-> p.tipo, estado |-> p.estado, precio |-> p.precio,
           publicado |-> p.publicado, creado |-> today, isActive |-> TRUE] \in PropertyRow
    BY <1>1, <1>2, <1>3, <1>4 DEF PropertyRow
  <2>2. p \in PropertyRow
    BY <1>5, <2>1, Zenon
  <2> QED
    BY <2>2 DEF p

LEMMA SeedTenant ==
    ASSUME NEW today \in Int, NEW i \in 1..15
    PROVE  TenantOf(i, today) \in TenantRow /\ TenantFits(TenantOf(i, today), i)
<1>1. TenantOf(i, today) \in TenantRow
  BY SMT DEF TenantOf, TenantRow, TenantStatus
<1>2. TenantFits(TenantOf(i, today), i)
  BY SMT DEF TenantOf, TenantFits
<1> QED
  BY <1>1, <1>2

LEMMA SeedTicket ==
    ASSUME NEW today \in Int, NEW k \in 1..8
    PROVE  TicketOf(k, today) \in TicketRow
<1> DEFINE t == TicketOf(k, today)
<1>1. t.propertyId \in Int /\ t.tenantId \in Int \cup {Null}
  BY SMT DEF TicketOf, TicketProperty
<1>2. t.prioridad \in MaintenancePriority
  BY SMT DEF TicketOf, MaintenancePriority
<1>3. t.estado \in OpenStates \cup ResolvedStates
  BY SMT DEF TicketOf, OpenStates, ResolvedStates
<1>4. t.categoria \in MaintenanceCategory
  BY SMT DEF TicketOf, MaintenanceCategory
<1>5. t.costoEstimado \in Nat
  BY SMT DEF TicketOf
<1>6. t.costoFinal \in Nat \cup {Null} /\ t.fechaResolucion \in Int \cup {Null}
  BY SMT DEF TicketOf, DaysAgo
<1>7. t.creado \in Int
  BY SMT DEF TicketOf, DaysAgo
<1>8. t = [propertyId |-> t.propertyId, tenantId |-> t.tenantId, prioridad |-> t.prioridad,
           estado |-> t.estado, categoria |-> t.categoria, costoEstimado |-> t.costoEstimado,
           costoFinal |-> t.costoFinal, fechaResolucion |-> t.fechaResolucion,
           creado |-> t.creado, isActive |-> TRUE]
  BY SMT DEF TicketOf
<1> HIDE DEF t
<1> QED
  <2>1. [propertyId |-> t.propertyId, tenantId |-> t.tenantId, prioridad |-> t.prioridad,
             estado |-> t.estado, categoria |-> t.categoria, costoEstimado |-> t.costoEstimado,
             costoFinal |-> t.costoFinal, fechaResolucion |-> t.fechaResolucion,
             creado |-> t.creado, isActive |-> TRUE] \in TicketRow
    BY <1>1, <1>2, <1>3, <1>4, <1>5, <1>6, <1>7 DEF TicketRow
  <2>2. t \in TicketRow
    BY <1>8, <2>1, Zenon
  <2> QED
    BY <2>2 DEF t

LEMMA SeedLead ==
    ASSUME NEW today \in Int, NEW k \in 1..6
    PROVE  LeadOf(k, today) \in LeadRow
<1> DEFINE l == LeadOf(k, today)
<1>1. l.propertyId \in Int \cup {Null}
  BY SMT DEF LeadOf, LeadProperty
<1>2. l.estado \in LeadStatus
  BY SMT DEF LeadOf, LeadStatus
<1>3. l.creado \in Int
  BY SMT DEF LeadOf, DaysAgo
<1>4. l.vendedorId \in {"VENDEDOR", Null}
  BY SMT DEF LeadOf
<1>5. l = [propertyId |-> l.propertyId, vendedorId |-> l.vendedorId, estado |-> l.estado,
           creado |-> l.creado, isActive |-> TRUE]
  BY SMT DEF LeadOf
<1> HIDE DEF l
<1> QED
  <2>1. [propertyId |-> l.propertyId, vendedorId |-> l.vendedorId, estado |-> l.estado,
             creado |-> l.creado, isActive |-> TRUE] \in LeadRow
    BY <1>1, <1>2, <1>3, <1>4 DEF LeadRow
  <2>2. l \in LeadRow
    BY <1>5, <2>1, Zenon
  <2> QED
    BY <2>2 DEF l

LEMMA SeedNotice ==
    ASSUME NEW today \in Int, NEW k \in 1..15
    PROVE  NoticeOf(k, today) \in NoticeRow
  BY SMT DEF NoticeOf, NoticeRow

LEMMA SeedPayment ==
    ASSUME SeedAssumption, NEW today \in Todays, NEW i \in 1..9, NEW offset \in -11..0
    PROVE  LET p == PaymentOf(i, offset, today) IN
           /\ p \in PaymentRow /\ PaymentFits(p)
           /\ p.contractId = i
           /\ p.periodo = Period(today, offset)
<1> DEFINE p == PaymentOf(i, offset, today)
           monto == PropertyOf(i, today).precio
<1>1. today \in Int /\ Null \notin Int /\ Null \notin PaymentMethod
  BY TodayIsLate DEF SeedAssumption
<1>2. monto \in Nat
  <2>1. i \in 1..12
    OBVIOUS
  <2>2. PropertyOf(i, today) \in PropertyRow
    BY <1>1, <2>1, SeedProperty
  <2> QED
    BY <2>2 DEF PropertyRow
<1>3. (3 * monto) \div 100 \in Nat
  <2> HIDE DEF monto
  <2> QED
    BY <1>2, SMT
<1>4. /\ Period(today, offset) \in Nat /\ DueDate(today, offset) \in Nat
      /\ PaidDate(today, offset) \in Nat
  BY SeedDates
<1>5. p.monto = monto /\ p.mora \in {(3 * monto) \div 100, Null}
  BY DEF PaymentOf
<1>6. p.estado \in PaymentStatus
  BY SMT DEF PaymentOf, PaymentStatus
<1>7. p.metodo \in PaymentMethod \cup {Null}
  BY <1>1, SMT DEF PaymentOf, PaymentMethod
<1>8. p.vence \in {DueDate(today, offset), today + 10}
  BY DEF PaymentOf, DaysFromNow
<1>9. /\ p.fechaPago \in {PaidDate(today, offset), Null}
      /\ p.estado = "PAGADO" => p.fechaPago = PaidDate(today, offset)
  BY DEF PaymentOf
<1>10. p = [contractId |-> i, propertyId |-> i, tenantId |-> i, periodo |-> Period(today, offset),
            monto |-> p.monto, mora |-> p.mora, estado |-> p.estado, metodo |-> p.metodo,
            vence |-> p.vence, fechaPago |-> p.fechaPago, creado |-> today, isActive |-> TRUE]
  BY DEF PaymentOf
<1> HIDE DEF p, monto
<1>11. p \in PaymentRow
  <2>1. [contractId |-> i, propertyId |-> i, tenantId |-> i, periodo |-> Period(today, offset),
             monto |-> p.monto, mora |-> p.mora, estado |-> p.estado, metodo |-> p.metodo,
             vence |-> p.vence, fechaPago |-> p.fechaPago, creado |-> today, isActive |-> TRUE] \in PaymentRow
    BY <1>1, <1>2, <1>3, <1>4, <1>5, <1>6, <1>7, <1>8, <1>9 DEF PaymentRow
  <2> QED
    BY <1>10, <2>1, Zenon
<1>12. PaymentFits(p) /\ p.contractId = i /\ p.periodo = Period(today, offset)
  BY <1>1, <1>4, <1>9, <1>10 DEF PaymentFits
<1> QED
  BY <1>11, <1>12 DEF p

\* The number of a payment tells its contract and its month.
LEMMA PaymentNumber ==
    ASSUME NEW y \in PaymentIds
    PROVE  LET i == (y + 11) \div 100 IN
           i \in ContractNos \cap 1..9 /\ y - 100 * i \in -11..0 /\ y \in Int
<1>1. PICK i \in ContractNos \cap 1..9 : \E offset \in Started(i)..0 : y = 100 * i + offset
  BY DEF PaymentIds
<1>2. PICK offset \in Started(i)..0 : y = 100 * i + offset
  BY <1>1
<1>3. i \in 1..9 /\ offset \in -11..0
  BY SMT DEF Started
<1>4. (y + 11) \div 100 = i
  BY <1>2, <1>3, SMT
<1> QED
  BY <1>1, <1>2, <1>3, <1>4

\* A payment of the demo, by the number of its row.
LEMMA DemoPayment ==
    ASSUME SeedAssumption, NEW today \in Todays, NEW y \in PaymentIds
    PROVE  LET p == AllPayments(today)[y]
               i == (y + 11) \div 100
           IN  /\ p \in PaymentRow /\ PaymentFits(p)
               /\ p.contractId = i
               /\ p.periodo = Period(today, y - 100 * i)
<1> DEFINE i == (y + 11) \div 100
<1>1. i \in 1..9 /\ y - 100 * i \in -11..0
  BY PaymentNumber
<1>2. AllPayments(today)[y] = PaymentOf(i, y - 100 * i, today)
  BY DEF AllPayments
<1> HIDE DEF i
<1>3. LET p == PaymentOf(i, y - 100 * i, today) IN
      /\ p \in PaymentRow /\ PaymentFits(p)
      /\ p.contractId = i /\ p.periodo = Period(today, y - 100 * i)
  BY <1>1, SeedPayment
<1>4. LET p == AllPayments(today)[y] IN
      /\ p \in PaymentRow /\ PaymentFits(p)
      /\ p.contractId = i /\ p.periodo = Period(today, y - 100 * i)
  BY <1>2, <1>3, Zenon
<1> QED
  BY <1>4, Zenon DEF i

\* The numbers of the rows.
LEMMA Numbers ==
    ASSUME SeedAssumption
    PROVE  /\ PropertyNos \subseteq 1..12 /\ TenantNos \subseteq 1..15
           /\ ContractNos \subseteq 1..10
           /\ TicketNos \subseteq 1..8 /\ LeadNos \subseteq 1..6
  BY DEF SeedAssumption, PropertyNos, TenantNos, ContractNos, TicketNos, LeadNos

\* The demo is well-formed.
LEMMA DemoTables ==
    ASSUME SeedAssumption, NEW today \in Todays
    PROVE  TablesOK(DemoDb(today))
<1> DEFINE d == DemoDb(today)
<1>1. today \in Int
  BY TodayIsLate
<1>2. IsTable(d.props, PropertyNos, PropertyRow)
  BY <1>1, Numbers, SeedProperty DEF DemoDb, IsTable
<1>3. IsTable(d.tenants, TenantNos, TenantRow) /\ \A i \in DOMAIN d.tenants : TenantFits(d.tenants[i], i)
  BY <1>1, Numbers, SeedTenant DEF DemoDb, IsTable
<1>4. IsTable(d.payments, PaymentRows, PaymentRow) /\ \A y \in DOMAIN d.payments : PaymentFits(d.payments[y])
  <2>1. d.payments = AllPayments(today)
    BY DEF DemoDb
  <2>2. DOMAIN AllPayments(today) = PaymentIds /\ AllPayments(today) = [y \in PaymentIds |-> AllPayments(today)[y]]
    BY DEF AllPayments
  <2>3. \A y \in PaymentIds : AllPayments(today)[y] \in PaymentRow /\ PaymentFits(AllPayments(today)[y])
    BY DemoPayment
  <2>4. AllPayments(today) \in [PaymentIds -> PaymentRow]
    BY <2>2, <2>3
  <2> QED
    BY <2>1, <2>2, <2>3, <2>4 DEF IsTable, PaymentRows
<1>5. IsTable(d.tickets, TicketNos, TicketRow)
  BY <1>1, Numbers, SeedTicket DEF DemoDb, IsTable
<1>6. IsTable(d.leads, LeadNos, LeadRow)
  BY <1>1, Numbers, SeedLead DEF DemoDb, IsTable
<1>7. IsTable(d.notices, 1..15, NoticeRow)
  BY <1>1, SeedNotice DEF DemoDb, IsTable
<1>8. /\ DOMAIN d = {"users", "props", "tenants", "contracts", "payments", "tickets", "leads",
                     "notices", "activity"}
      /\ d = [f \in DOMAIN d |-> d[f]]
      /\ d.users \subseteq DemoUsers
      /\ d.activity \in Nat
  BY DEF DemoDb, Activity
<1>9. \A i \in DOMAIN d.contracts : ContractFits(d.contracts[i], i)
  BY Numbers DEF DemoDb, ContractOf, ContractFits
<1> QED
  BY <1>2, <1>3, <1>4, <1>5, <1>6, <1>7, <1>8, <1>9 DEF TablesOK

LEMMA DemoRows ==
    ASSUME SeedAssumption, NEW today \in Todays
    PROVE  LET all == DemoDb(today) IN
           /\ \A i \in PropertyNos : all.props[i] \in PropertyRow
           /\ \A i \in TenantNos : all.tenants[i] \in TenantRow /\ TenantFits(all.tenants[i], i)
           /\ \A i \in ContractNos : ContractFits(all.contracts[i], i)
           /\ \A k \in TicketNos : all.tickets[k] \in TicketRow
<1>1. today \in Int
  BY TodayIsLate
<1>2. \A i \in ContractNos : ContractFits(DemoDb(today).contracts[i], i)
  BY Numbers DEF DemoDb, ContractOf, ContractFits
<1> QED
  BY <1>1, <1>2, Numbers, SeedProperty, SeedTenant, SeedTicket DEF DemoDb

LEMMA EmptyTables == TablesOK(EmptyDb)
  BY EmptyTable DEF TablesOK, EmptyDb, NoTable

\* One table changes.
LEMMA TableSet ==
    ASSUME NEW d, TablesOK(d), NEW t
    PROVE  /\ t \subseteq DemoUsers => TablesOK([d EXCEPT !.users = t])
           /\ IsTable(t, PropertyNos, PropertyRow) => TablesOK([d EXCEPT !.props = t])
           /\ IsTable(t, TenantNos, TenantRow) /\ (\A i \in DOMAIN t : TenantFits(t[i], i))
                => TablesOK([d EXCEPT !.tenants = t])
           /\ (\A i \in DOMAIN t : ContractFits(t[i], i)) => TablesOK([d EXCEPT !.contracts = t])
           /\ IsTable(t, PaymentRows, PaymentRow) /\ (\A y \in DOMAIN t : PaymentFits(t[y]))
                => TablesOK([d EXCEPT !.payments = t])
           /\ IsTable(t, TicketNos, TicketRow) => TablesOK([d EXCEPT !.tickets = t])
           /\ IsTable(t, LeadNos, LeadRow) => TablesOK([d EXCEPT !.leads = t])
           /\ IsTable(t, 1..15, NoticeRow) => TablesOK([d EXCEPT !.notices = t])
           /\ t \in Nat => TablesOK([d EXCEPT !.activity = t])
  BY DEF TablesOK

-----------------------------------------------------------------------------
(***************************************************************************)
(* The inductive invariant of the seed.                                    *)
(***************************************************************************)
\* The order of the steps of a run, from the creation of the administrator.
Place == [idle |-> 0, reset |-> 0, check |-> 0, admin |-> 1, staff |-> 2, properties |-> 3,
          tenants |-> 4, inquilino |-> 5, contracts |-> 6, payments |-> 7, tickets |-> 8,
          leads |-> 9, notices |-> 10, activity |-> 11, done |-> 12]

SeedOK ==
    /\ DOMAIN seed = {"pc", "today", "todo", "clean"}
    /\ seed.pc \in DOMAIN Place
    /\ seed.today \in Todays /\ clock \in Todays /\ seed.today <= clock
    /\ seed.pc = "staff" => seed.todo \subseteq Staff
    /\ seed.pc = "properties" => seed.todo \subseteq PropertyNos
    /\ seed.pc = "tenants" => seed.todo \subseteq TenantNos
    /\ seed.pc = "contracts" => seed.todo \subseteq ContractNos
    /\ seed.pc = "tickets" => seed.todo \subseteq TicketNos

\* The administrator is first in and last out, and the users come in the order
\* of the script, whatever else happens to the tables.
UsersOK ==
    /\ "ADMIN" \notin db.users => db = EmptyDb
    /\ seed.pc = "admin" => "ADMIN" \notin db.users
    /\ seed.pc = "staff" => db.users = {"ADMIN"} \cup (Staff \ seed.todo)
    /\ Place[seed.pc] \in 3..5 => db.users = {"ADMIN"} \cup Staff
    /\ Place[seed.pc] >= 6 => db.users = DemoUsers

\* A table whose rows are created one at a time, and one filled at once.
Part(all, todo) == [i \in DOMAIN all \ todo |-> all[i]]
RowByRow(step, t, all) ==
    /\ Place[seed.pc] < Place[step] => t = NoTable
    /\ seed.pc = step => t = Part(all, seed.todo)
    /\ Place[seed.pc] > Place[step] => t = all
AtOnce(step, t, none, all) ==
    t = IF Place[seed.pc] > Place[step] THEN all ELSE none

\* While nobody else writes, what the run created is there, and nothing else.
SoFar ==
    seed.clean /\ Place[seed.pc] >= 1 =>
      LET all == DemoDb(seed.today) IN
      /\ RowByRow("properties", db.props, all.props)
      /\ RowByRow("tenants", db.tenants, all.tenants)
      /\ RowByRow("contracts", db.contracts, all.contracts)
      /\ AtOnce("payments", db.payments, NoTable, all.payments)
      /\ RowByRow("tickets", db.tickets, all.tickets)
      /\ AtOnce("leads", db.leads, NoTable, all.leads)
      /\ AtOnce("notices", db.notices, NoTable, all.notices)
      /\ AtOnce("activity", db.activity, 0, all.activity)

SeedIInv == TablesOK(db) /\ SeedOK /\ UsersOK /\ SoFar

\* The initial state, and then each step of the script, of the API and of time.
LEMMA SeedInitOK == SeedAssumption /\ SeedInit => SeedIInv
<1> SUFFICES ASSUME SeedAssumption, SeedInit PROVE SeedIInv
  OBVIOUS
<1>1. TablesOK(db)
  BY EmptyTables DEF SeedInit
<1>2. SeedOK
  <2>1. \A d \in Todays : d <= d
    BY DEF SeedAssumption
  <2> QED
    BY <2>1 DEF SeedInit, SeedOK, Place
<1>3. UsersOK /\ SoFar
  BY DEF SeedInit, UsersOK, SoFar, EmptyDb, NoTable, Place
<1> QED
  BY <1>1, <1>2, <1>3 DEF SeedIInv

LEMMA StartStep ==
    ASSUME SeedAssumption, SeedIInv, \E reset \in BOOLEAN : Start(reset)
    PROVE  SeedIInv'
<1>1. PICK reset \in BOOLEAN : Start(reset)
  OBVIOUS
<1>2. /\ seed' = [pc |-> IF reset THEN "reset" ELSE "check", today |-> clock, todo |-> {},
                  clean |-> TRUE]
      /\ db' = db /\ clock' = clock
  BY <1>1 DEF Start
<1>3. TablesOK(db)'
  BY <1>2 DEF SeedIInv
<1>4. SeedOK'
  <2>1. \A d \in Todays : d <= d
    BY DEF SeedAssumption
  <2> QED
    BY <1>2, <2>1 DEF SeedIInv, SeedOK, Place
<1>5. UsersOK' /\ SoFar'
  BY <1>2 DEF SeedIInv, UsersOK, SoFar, Place
<1> QED
  BY <1>3, <1>4, <1>5 DEF SeedIInv

LEMMA ResetStep ==
    ASSUME SeedAssumption, SeedIInv, Reset
    PROVE  SeedIInv'
<1>1. db' = EmptyDb /\ clock' = clock /\ seed' = [seed EXCEPT !.pc = "check", !.todo = {}]
  BY DEF Reset, GoTo
<1>2. TablesOK(db)'
  BY <1>1, EmptyTables
<1>3. SeedOK'
  BY <1>1 DEF SeedIInv, SeedOK, Place
<1>4. UsersOK' /\ SoFar'
  BY <1>1 DEF SeedIInv, SeedOK, UsersOK, SoFar, Place, EmptyDb, NoTable
<1> QED
  BY <1>2, <1>3, <1>4 DEF SeedIInv

LEMMA CheckStep ==
    ASSUME SeedAssumption, SeedIInv, Check
    PROVE  SeedIInv'
<1>1. /\ db' = db /\ clock' = clock
      /\ seed' = [seed EXCEPT !.pc = IF "ADMIN" \in db.users THEN "idle" ELSE "admin",
                              !.todo = {}]
  BY DEF Check, GoTo
<1>2. TablesOK(db)'
  BY <1>1 DEF SeedIInv
<1>3. SeedOK'
  BY <1>1 DEF SeedIInv, SeedOK, Place
<1>4. UsersOK'
  BY <1>1 DEF SeedIInv, SeedOK, UsersOK, Place
<1>5. SoFar'
  <2>1. CASE "ADMIN" \in db.users
    BY <1>1, <2>1 DEF SeedIInv, SeedOK, SoFar, Place
  <2>2. CASE "ADMIN" \notin db.users
    <3>1. db' = EmptyDb /\ seed'.pc = "admin"
      BY <1>1, <2>2 DEF SeedIInv, SeedOK, UsersOK
    <3> QED
      BY <3>1 DEF SoFar, RowByRow, AtOnce, Place, EmptyDb
  <2> QED
    BY <2>1, <2>2
<1> QED
  BY <1>2, <1>3, <1>4, <1>5 DEF SeedIInv

LEMMA FailStep ==
    ASSUME SeedAssumption, SeedIInv, Fail
    PROVE  SeedIInv'
<1>1. db' = db /\ clock' = clock /\ seed' = [seed EXCEPT !.pc = "idle", !.todo = {}]
  BY DEF Fail, GoTo
<1>2. TablesOK(db)'
  BY <1>1 DEF SeedIInv
<1>3. SeedOK' /\ UsersOK' /\ SoFar'
  BY <1>1 DEF SeedIInv, SeedOK, UsersOK, SoFar, Place
<1> QED
  BY <1>2, <1>3 DEF SeedIInv

LEMMA TickStep ==
    ASSUME SeedAssumption, SeedIInv, Tick
    PROVE  SeedIInv'
<1>1. /\ db' = db /\ seed' = seed /\ clock' \in Todays /\ clock' > clock
  BY DEF Tick
<1>2. clock \in Nat /\ clock' \in Nat /\ seed.today \in Nat
  BY <1>1 DEF SeedIInv, SeedOK, SeedAssumption
<1>3. TablesOK(db)' /\ UsersOK' /\ SoFar'
  BY <1>1 DEF SeedIInv, UsersOK, SoFar, RowByRow, AtOnce
<1>4. SeedOK'
  BY <1>1, <1>2 DEF SeedIInv, SeedOK
<1> QED
  BY <1>3, <1>4 DEF SeedIInv

\* A table to fill is empty, one with a row more lacks one less, and one with
\* nothing left to create is whole.
Fills(all, ids) ==
    /\ NoTable = Part(all, ids)
    /\ Part(all, {}) = all
    /\ \A todo : \A j \in ids \cap todo : With(Part(all, todo), j, all[j]) = Part(all, todo \ {j})

LEMMA Filling ==
    ASSUME NEW all, NEW ids, all = [i \in ids |-> all[i]]
    PROVE  Fills(all, ids)
<1>1. DOMAIN all = ids
  OBVIOUS
<1>2. NoTable = Part(all, ids)
  BY <1>1 DEF NoTable, Part
<1>3. Part(all, {}) = all
  BY <1>1 DEF Part
<1>4. ASSUME NEW todo, NEW j \in ids \cap todo
      PROVE  With(Part(all, todo), j, all[j]) = Part(all, todo \ {j})
  <2> DEFINE t == Part(all, todo)
  <2>1. DOMAIN t = ids \ todo /\ \A i \in ids \ todo : t[i] = all[i]
    BY <1>1 DEF Part
  <2>2. DOMAIN t \cup {j} = DOMAIN all \ (todo \ {j})
    BY <1>1, <2>1
  <2> HIDE DEF t
  <2>3. With(t, j, all[j]) = [i \in DOMAIN all \ (todo \ {j}) |-> all[i]]
    BY <1>1, <2>1, <2>2 DEF With
  <2> QED
    BY <2>3 DEF Part, t
<1> QED
  BY <1>2, <1>3, <1>4 DEF Fills

LEMMA DemoFills ==
    ASSUME NEW today
    PROVE  LET all == DemoDb(today) IN
           /\ Fills(all.props, PropertyNos) /\ Fills(all.tenants, TenantNos)
           /\ Fills(all.contracts, ContractNos) /\ Fills(all.tickets, TicketNos)
<1>1. Fills([i \in PropertyNos |-> PropertyOf(i, today)], PropertyNos)
  BY Filling
<1>2. Fills([i \in TenantNos |-> TenantOf(i, today)], TenantNos)
  BY Filling
<1>3. Fills([i \in ContractNos |-> ContractOf(i, today)], ContractNos)
  BY Filling
<1>4. Fills([k \in TicketNos |-> TicketOf(k, today)], TicketNos)
  BY Filling
<1> QED
  BY <1>1, <1>2, <1>3, <1>4 DEF DemoDb

LEMMA AdminStep ==
    ASSUME SeedAssumption, SeedIInv, CreateAdmin
    PROVE  SeedIInv'
<1>1. /\ db' = [db EXCEPT !.users = db.users \cup {"ADMIN"}] /\ clock' = clock
      /\ seed.pc = "admin" /\ seed' = [seed EXCEPT !.pc = "staff", !.todo = Staff]
  BY DEF CreateAdmin, GoTo
<1>2. TablesOK(db) /\ SeedOK /\ db = EmptyDb
  BY <1>1 DEF SeedIInv, UsersOK
<1>3. TablesOK(db)'
  <2>1. db.users \cup {"ADMIN"} \subseteq DemoUsers
    BY <1>2 DEF TablesOK, DemoUsers
  <2> QED
    BY <1>1, <1>2, <2>1, TableSet
<1>4. SeedOK'
  BY <1>1, <1>2 DEF SeedOK, Place
<1>5. UsersOK'
  BY <1>1, <1>2 DEF SeedOK, UsersOK, Place, EmptyDb, NoTable
<1>6. SoFar'
  BY <1>1, <1>2 DEF SeedOK, SoFar, RowByRow, AtOnce, Place, EmptyDb
<1> QED
  BY <1>3, <1>4, <1>5, <1>6 DEF SeedIInv

LEMMA StaffStep ==
    ASSUME SeedAssumption, SeedIInv, CreateStaff
    PROVE  SeedIInv'
<1>1. TablesOK(db) /\ SeedOK /\ UsersOK /\ SoFar /\ clock' = clock /\ seed.pc = "staff"
  BY DEF SeedIInv, CreateStaff
<1>2. CASE seed.todo = {}
  <2>1. db' = db /\ seed' = [seed EXCEPT !.pc = "properties", !.todo = PropertyNos]
    BY <1>2 DEF CreateStaff, GoTo
  <2>2. TablesOK(db)'
    BY <1>1, <2>1
  <2>3. SeedOK' /\ UsersOK'
    BY <1>1, <1>2, <2>1 DEF SeedOK, UsersOK, Place
  <2>4. SoFar'
    <3>1. NoTable = Part(DemoDb(seed.today).props, PropertyNos)
      BY DemoFills DEF Fills
    <3> QED
      BY <1>1, <2>1, <3>1 DEF SeedOK, SoFar, RowByRow, AtOnce, Place
  <2> QED
    BY <2>2, <2>3, <2>4 DEF SeedIInv
<1>3. CASE seed.todo # {}
  <2>1. PICK u \in seed.todo : /\ db' = [db EXCEPT !.users = db.users \cup {u}]
                               /\ seed' = [seed EXCEPT !.pc = "staff", !.todo = seed.todo \ {u}]
    BY <1>3 DEF CreateStaff, GoTo
  <2>2. TablesOK(db)'
    <3>1. db.users \cup {u} \subseteq DemoUsers
      BY <1>1, <2>1 DEF TablesOK, SeedOK, DemoUsers
    <3> QED
      BY <1>1, <2>1, <3>1, TableSet
  <2>3. SeedOK'
    BY <1>1, <2>1 DEF SeedOK, Place
  <2>4. UsersOK'
    <3>1. db'.users = db.users \cup {u} /\ seed'.pc = "staff" /\ seed'.todo = seed.todo \ {u}
      BY <1>1, <2>1 DEF TablesOK, SeedOK
    <3>2. db.users = {"ADMIN"} \cup (Staff \ seed.todo) /\ u \in Staff
      BY <1>1, <2>1 DEF UsersOK, SeedOK
    <3> QED
      BY <3>1, <3>2 DEF UsersOK, Place
  <2>5. SoFar'
    BY <1>1, <2>1 DEF TablesOK, SeedOK, SoFar, RowByRow, AtOnce, Place
  <2> QED
    BY <2>2, <2>3, <2>4, <2>5 DEF SeedIInv
<1> QED
  BY <1>2, <1>3

LEMMA PropertiesStep ==
    ASSUME SeedAssumption, SeedIInv, CreateProperties
    PROVE  SeedIInv'
<1> DEFINE all == DemoDb(seed.today)
<1>1. /\ TablesOK(db) /\ SeedOK /\ UsersOK /\ SoFar /\ clock' = clock
      /\ seed.pc = "properties"
  BY DEF SeedIInv, CreateProperties, CreateRows
<1>2. CASE seed.todo = {}
  <2>1. db' = db /\ seed' = [seed EXCEPT !.pc = "tenants", !.todo = TenantNos]
    BY <1>2 DEF CreateProperties, CreateRows, GoTo
  <2>2. TablesOK(db)'
    BY <1>1, <2>1
  <2>3. SeedOK' /\ UsersOK'
    BY <1>1, <1>2, <2>1 DEF SeedOK, UsersOK, Place
  <2>4. SoFar'
    <3>1. Part(all.props, {}) = all.props /\ NoTable = Part(all.tenants, TenantNos)
      BY DemoFills DEF Fills
    <3> QED
      BY <1>1, <1>2, <2>1, <3>1 DEF SeedOK, SoFar, RowByRow, AtOnce, Place
  <2> QED
    BY <2>2, <2>3, <2>4 DEF SeedIInv
<1>3. CASE seed.todo # {}
  <2>1. PICK i \in seed.todo :
            /\ db' = [db EXCEPT !.props = With(db.props, i, all.props[i])]
            /\ seed' = [seed EXCEPT !.pc = "properties", !.todo = seed.todo \ {i}]
    BY <1>3 DEF CreateProperties, CreateRows, GoTo
  <2>2. i \in PropertyNos /\ seed.today \in Todays
    BY <1>1, <2>1 DEF SeedOK
  <2>3. TablesOK(db)'
    <3>1. all.props[i] \in PropertyRow
      BY <2>2, DemoRows
    <3>2. IsTable(With(db.props, i, all.props[i]), PropertyNos, PropertyRow)
      BY <1>1, <2>2, <3>1, MoreRows DEF TablesOK
    <3> QED
      BY <1>1, <2>1, <3>2, TableSet
  <2>4. SeedOK'
    BY <1>1, <2>1 DEF TablesOK, SeedOK, Place
  <2>5. UsersOK'
    <3>1. db'.users = db.users /\ seed'.pc = "properties"
      BY <1>1, <2>1 DEF TablesOK, SeedOK
    <3>2. db.users = {"ADMIN"} \cup Staff
      BY <1>1 DEF UsersOK, Place
    <3> QED
      BY <3>1, <3>2 DEF UsersOK, Place, DemoUsers
  <2>7. SoFar'
    <3>1. seed.clean => db.props = Part(all.props, seed.todo)
      BY <1>1 DEF SoFar, RowByRow, Place
    <3>2. Fills(all.props, PropertyNos)
      BY DemoFills
    <3>3. db'.props = With(db.props, i, all.props[i])
      BY <1>1, <2>1 DEF TablesOK
    <3>4. seed.clean => db'.props = Part(all.props, seed.todo \ {i})
      BY <2>2, <3>1, <3>2, <3>3 DEF Fills
    <3> QED
      BY <1>1, <2>1, <3>4 DEF TablesOK, SeedOK, SoFar, RowByRow, AtOnce, Place
  <2> QED
    BY <2>3, <2>4, <2>5, <2>7 DEF SeedIInv
<1> QED
  BY <1>2, <1>3

LEMMA TenantsStep ==
    ASSUME SeedAssumption, SeedIInv, CreateTenants
    PROVE  SeedIInv'
<1> DEFINE all == DemoDb(seed.today)
<1>1. /\ TablesOK(db) /\ SeedOK /\ UsersOK /\ SoFar /\ clock' = clock
      /\ seed.pc = "tenants"
  BY DEF SeedIInv, CreateTenants, CreateRows
<1>2. CASE seed.todo = {}
  <2>1. db' = db /\ seed' = [seed EXCEPT !.pc = "inquilino", !.todo = {}]
    BY <1>2 DEF CreateTenants, CreateRows, GoTo
  <2>2. TablesOK(db)'
    BY <1>1, <2>1
  <2>3. SeedOK' /\ UsersOK'
    BY <1>1, <1>2, <2>1 DEF SeedOK, UsersOK, Place
  <2>4. SoFar'
    <3>1. Part(all.tenants, {}) = all.tenants
      BY DemoFills DEF Fills
    <3> QED
      BY <1>1, <1>2, <2>1, <3>1 DEF SeedOK, SoFar, RowByRow, AtOnce, Place
  <2> QED
    BY <2>2, <2>3, <2>4 DEF SeedIInv
<1>3. CASE seed.todo # {}
  <2>1. PICK i \in seed.todo :
            /\ db' = [db EXCEPT !.tenants = With(db.tenants, i, all.tenants[i])]
            /\ seed' = [seed EXCEPT !.pc = "tenants", !.todo = seed.todo \ {i}]
    BY <1>3 DEF CreateTenants, CreateRows, GoTo
  <2>2. i \in TenantNos /\ seed.today \in Todays
    BY <1>1, <2>1 DEF SeedOK
  <2>3. TablesOK(db)'
    <3> DEFINE t == With(db.tenants, i, all.tenants[i])
    <3>1. all.tenants[i] \in TenantRow /\ TenantFits(all.tenants[i], i)
      BY <2>2, DemoRows
    <3>2. IsTable(t, TenantNos, TenantRow)
      BY <1>1, <2>2, <3>1, MoreRows DEF TablesOK
    <3>3. \A j \in DOMAIN t : TenantFits(t[j], j)
      BY <1>1, <3>1 DEF TablesOK, With
    <3> QED
      BY <1>1, <2>1, <3>2, <3>3, TableSet
  <2>4. SeedOK'
    BY <1>1, <2>1 DEF TablesOK, SeedOK, Place
  <2>5. UsersOK'
    <3>1. db'.users = db.users /\ seed'.pc = "tenants"
      BY <1>1, <2>1 DEF TablesOK, SeedOK
    <3>2. db.users = {"ADMIN"} \cup Staff
      BY <1>1 DEF UsersOK, Place
    <3> QED
      BY <3>1, <3>2 DEF UsersOK, Place, DemoUsers
  <2>7. SoFar'
    <3>1. seed.clean => db.tenants = Part(all.tenants, seed.todo)
      BY <1>1 DEF SoFar, RowByRow, Place
    <3>2. Fills(all.tenants, TenantNos)
      BY DemoFills
    <3>3. db'.tenants = With(db.tenants, i, all.tenants[i])
      BY <1>1, <2>1 DEF TablesOK
    <3>4. seed.clean => db'.tenants = Part(all.tenants, seed.todo \ {i})
      BY <2>2, <3>1, <3>2, <3>3 DEF Fills
    <3> QED
      BY <1>1, <2>1, <3>4 DEF TablesOK, SeedOK, SoFar, RowByRow, AtOnce, Place
  <2> QED
    BY <2>3, <2>4, <2>5, <2>7 DEF SeedIInv
<1> QED
  BY <1>2, <1>3

LEMMA InquilinoStep ==
    ASSUME SeedAssumption, SeedIInv, CreateInquilino
    PROVE  SeedIInv'
<1>1. /\ TablesOK(db) /\ SeedOK /\ UsersOK /\ SoFar /\ clock' = clock
      /\ seed.pc = "inquilino"
      /\ db' = [db EXCEPT !.users = db.users \cup {"INQUILINO"}]
      /\ seed' = [seed EXCEPT !.pc = "contracts", !.todo = ContractNos]
  BY DEF SeedIInv, CreateInquilino, GoTo
<1>2. db.users = {"ADMIN"} \cup Staff
  BY <1>1 DEF UsersOK, Place
<1>3. db.users \cup {"INQUILINO"} = DemoUsers
  BY <1>2 DEF DemoUsers
<1>4. TablesOK(db)'
  BY <1>1, <1>3, TableSet
<1>5. SeedOK'
  BY <1>1 DEF TablesOK, SeedOK, Place
<1>6. UsersOK'
  <2>1. db'.users = DemoUsers /\ seed'.pc = "contracts"
    BY <1>1, <1>3 DEF TablesOK, SeedOK
  <2> QED
    BY <2>1 DEF UsersOK, Place, DemoUsers
<1>7. SoFar'
  <2>1. NoTable = Part(DemoDb(seed.today).contracts, ContractNos)
    BY DemoFills DEF Fills
  <2> QED
    BY <1>1, <2>1 DEF TablesOK, SeedOK, SoFar, RowByRow, AtOnce, Place
<1> QED
  BY <1>4, <1>5, <1>6, <1>7 DEF SeedIInv

LEMMA ContractsStep ==
    ASSUME SeedAssumption, SeedIInv, CreateContracts
    PROVE  SeedIInv'
<1> DEFINE all == DemoDb(seed.today)
<1>1. /\ TablesOK(db) /\ SeedOK /\ UsersOK /\ SoFar /\ clock' = clock
      /\ seed.pc = "contracts"
  BY DEF SeedIInv, CreateContracts, CreateRows
<1>2. CASE seed.todo = {}
  <2>1. db' = db /\ seed' = [seed EXCEPT !.pc = "payments", !.todo = {}]
    BY <1>2 DEF CreateContracts, CreateRows, GoTo
  <2>2. TablesOK(db)'
    BY <1>1, <2>1
  <2>3. SeedOK' /\ UsersOK'
    BY <1>1, <1>2, <2>1 DEF SeedOK, UsersOK, Place
  <2>4. SoFar'
    <3>1. Part(all.contracts, {}) = all.contracts
      BY DemoFills DEF Fills
    <3> QED
      BY <1>1, <1>2, <2>1, <3>1 DEF SeedOK, SoFar, RowByRow, AtOnce, Place
  <2> QED
    BY <2>2, <2>3, <2>4 DEF SeedIInv
<1>3. CASE seed.todo # {}
  <2>1. PICK i \in seed.todo :
            /\ db' = [db EXCEPT !.contracts = With(db.contracts, i, all.contracts[i])]
            /\ seed' = [seed EXCEPT !.pc = "contracts", !.todo = seed.todo \ {i}]
    BY <1>3 DEF CreateContracts, CreateRows, GoTo
  <2>2. i \in ContractNos /\ seed.today \in Todays
    BY <1>1, <2>1 DEF SeedOK
  <2>3. TablesOK(db)'
    <3> DEFINE t == With(db.contracts, i, all.contracts[i])
    <3>1. ContractFits(all.contracts[i], i)
      BY <2>2, DemoRows
    <3>2. \A j \in DOMAIN t : ContractFits(t[j], j)
      BY <1>1, <3>1 DEF TablesOK, With
    <3> HIDE DEF t
    <3>3. TablesOK([db EXCEPT !.contracts = t])
      BY <1>1, <3>2, TableSet
    <3> QED
      BY <2>1, <3>3 DEF t
  <2>4. SeedOK'
    BY <1>1, <2>1 DEF TablesOK, SeedOK, Place
  <2>5. UsersOK'
    <3>1. db'.users = db.users /\ seed'.pc = "contracts"
      BY <1>1, <2>1 DEF TablesOK, SeedOK
    <3>2. db.users = DemoUsers
      BY <1>1 DEF UsersOK, Place
    <3> QED
      BY <3>1, <3>2 DEF UsersOK, Place, DemoUsers
  <2>7. SoFar'
    <3>1. seed.clean => db.contracts = Part(all.contracts, seed.todo)
      BY <1>1 DEF SoFar, RowByRow, Place
    <3>2. Fills(all.contracts, ContractNos)
      BY DemoFills
    <3>3. db'.contracts = With(db.contracts, i, all.contracts[i])
      BY <1>1, <2>1 DEF TablesOK
    <3>4. seed.clean => db'.contracts = Part(all.contracts, seed.todo \ {i})
      BY <2>2, <3>1, <3>2, <3>3 DEF Fills
    <3> QED
      BY <1>1, <2>1, <3>4 DEF TablesOK, SeedOK, SoFar, RowByRow, AtOnce, Place
  <2> QED
    BY <2>3, <2>4, <2>5, <2>7 DEF SeedIInv
<1> QED
  BY <1>2, <1>3

LEMMA TicketsStep ==
    ASSUME SeedAssumption, SeedIInv, CreateTickets
    PROVE  SeedIInv'
<1> DEFINE all == DemoDb(seed.today)
<1>1. /\ TablesOK(db) /\ SeedOK /\ UsersOK /\ SoFar /\ clock' = clock
      /\ seed.pc = "tickets"
  BY DEF SeedIInv, CreateTickets, CreateRows
<1>2. CASE seed.todo = {}
  <2>1. db' = db /\ seed' = [seed EXCEPT !.pc = "leads", !.todo = {}]
    BY <1>2 DEF CreateTickets, CreateRows, GoTo
  <2>2. TablesOK(db)'
    BY <1>1, <2>1
  <2>3. SeedOK' /\ UsersOK'
    BY <1>1, <1>2, <2>1 DEF SeedOK, UsersOK, Place
  <2>4. SoFar'
    <3>1. Part(all.tickets, {}) = all.tickets
      BY DemoFills DEF Fills
    <3> QED
      BY <1>1, <1>2, <2>1, <3>1 DEF SeedOK, SoFar, RowByRow, AtOnce, Place
  <2> QED
    BY <2>2, <2>3, <2>4 DEF SeedIInv
<1>3. CASE seed.todo # {}
  <2>1. PICK i \in seed.todo :
            /\ db' = [db EXCEPT !.tickets = With(db.tickets, i, all.tickets[i])]
            /\ seed' = [seed EXCEPT !.pc = "tickets", !.todo = seed.todo \ {i}]
    BY <1>3 DEF CreateTickets, CreateRows, GoTo
  <2>2. i \in TicketNos /\ seed.today \in Todays
    BY <1>1, <2>1 DEF SeedOK
  <2>3. TablesOK(db)'
    <3>1. all.tickets[i] \in TicketRow
      BY <2>2, DemoRows
    <3>2. IsTable(With(db.tickets, i, all.tickets[i]), TicketNos, TicketRow)
      BY <1>1, <2>2, <3>1, MoreRows DEF TablesOK
    <3> QED
      BY <1>1, <2>1, <3>2, TableSet
  <2>4. SeedOK'
    BY <1>1, <2>1 DEF TablesOK, SeedOK, Place
  <2>5. UsersOK'
    <3>1. db'.users = db.users /\ seed'.pc = "tickets"
      BY <1>1, <2>1 DEF TablesOK, SeedOK
    <3>2. db.users = DemoUsers
      BY <1>1 DEF UsersOK, Place
    <3> QED
      BY <3>1, <3>2 DEF UsersOK, Place, DemoUsers
  <2>7. SoFar'
    <3>1. seed.clean => db.tickets = Part(all.tickets, seed.todo)
      BY <1>1 DEF SoFar, RowByRow, Place
    <3>2. Fills(all.tickets, TicketNos)
      BY DemoFills
    <3>3. db'.tickets = With(db.tickets, i, all.tickets[i])
      BY <1>1, <2>1 DEF TablesOK
    <3>4. seed.clean => db'.tickets = Part(all.tickets, seed.todo \ {i})
      BY <2>2, <3>1, <3>2, <3>3 DEF Fills
    <3> QED
      BY <1>1, <2>1, <3>4 DEF TablesOK, SeedOK, SoFar, RowByRow, AtOnce, Place
  <2> QED
    BY <2>3, <2>4, <2>5, <2>7 DEF SeedIInv
<1> QED
  BY <1>2, <1>3

\* The rows of the script join those of the API.
LEMMA PaymentsTogether ==
    ASSUME NEW t, NEW rows, IsTable(t, PaymentRows, PaymentRow),
           IsTable(rows, PaymentRows, PaymentRow),
           \A y \in DOMAIN t : PaymentFits(t[y]), \A y \in DOMAIN rows : PaymentFits(rows[y])
    PROVE  LET all == WithAll(t, rows) IN
           IsTable(all, PaymentRows, PaymentRow) /\ \A y \in DOMAIN all : PaymentFits(all[y])
  BY DEF IsTable, WithAll

LEMMA NoOtherPayments ==
    ASSUME NEW today
    PROVE  WithAll(NoTable, AllPayments(today)) = AllPayments(today)
  BY DEF WithAll, NoTable, AllPayments

LEMMA PaymentsStep ==
    ASSUME SeedAssumption, SeedIInv, CreatePayments
    PROVE  SeedIInv'
<1> DEFINE all == DemoDb(seed.today)
<1>1. /\ TablesOK(db) /\ SeedOK /\ UsersOK /\ SoFar /\ clock' = clock
      /\ seed.pc = "payments"
      /\ db' = [db EXCEPT !.payments = WithAll(db.payments, AllPayments(seed.today))]
      /\ seed' = [seed EXCEPT !.pc = "tickets", !.todo = TicketNos]
  BY DEF SeedIInv, CreatePayments, GoTo
<1>2. seed.today \in Todays
  BY <1>1 DEF SeedOK
<1>3. TablesOK(all)
  BY <1>2, DemoTables
<1>4. TablesOK(db)'
  <2> DEFINE t == WithAll(db.payments, AllPayments(seed.today))
  <2>1. all.payments = AllPayments(seed.today)
    BY DEF DemoDb
  <2>2. IsTable(t, PaymentRows, PaymentRow) /\ \A y \in DOMAIN t : PaymentFits(t[y])
    BY <1>1, <1>3, <2>1, PaymentsTogether DEF TablesOK
  <2> HIDE DEF t
  <2>3. TablesOK([db EXCEPT !.payments = t])
    BY <1>1, <2>2, TableSet
  <2> QED
    BY <1>1, <2>3 DEF t
<1>5. SeedOK'
  BY <1>1 DEF TablesOK, SeedOK, Place
<1>6. UsersOK'
  <2>1. db'.users = db.users /\ seed'.pc = "tickets"
    BY <1>1 DEF TablesOK, SeedOK
  <2>2. db.users = DemoUsers
    BY <1>1 DEF UsersOK, Place
  <2> QED
    BY <2>1, <2>2 DEF UsersOK, Place, DemoUsers
<1>8. SoFar'
  <2>1. NoTable = Part(all.tickets, TicketNos)
    BY DemoFills DEF Fills
  <2>2. seed.clean => db.payments = NoTable
    BY <1>1 DEF SoFar, AtOnce, Place
  <2>3. db'.payments = WithAll(db.payments, AllPayments(seed.today))
    BY <1>1 DEF TablesOK
  <2>4. seed.clean => db'.payments = all.payments
    BY <2>2, <2>3, NoOtherPayments DEF DemoDb
  <2> QED
    BY <1>1, <2>1, <2>4 DEF TablesOK, SeedOK, SoFar, RowByRow, AtOnce, Place
<1> QED
  BY <1>4, <1>5, <1>6, <1>8 DEF SeedIInv

LEMMA LeadsStep ==
    ASSUME SeedAssumption, SeedIInv, CreateLeads
    PROVE  SeedIInv'
<1> DEFINE all == DemoDb(seed.today)
<1>1. /\ TablesOK(db) /\ SeedOK /\ UsersOK /\ SoFar /\ clock' = clock
      /\ seed.pc = "leads"
      /\ db' = [db EXCEPT !.leads = all.leads]
      /\ seed' = [seed EXCEPT !.pc = "notices", !.todo = {}]
  BY DEF SeedIInv, CreateLeads, CreateMany, GoTo
<1>2. seed.today \in Todays
  BY <1>1 DEF SeedOK
<1>3. TablesOK(all)
  BY <1>2, DemoTables
<1>4. TablesOK(db)'
  <2>1. IsTable(all.leads, LeadNos, LeadRow)
    BY <1>3 DEF TablesOK
  <2> HIDE DEF all
  <2> QED
    BY <1>1, <2>1, TableSet
<1>5. SeedOK'
  BY <1>1 DEF TablesOK, SeedOK, Place
<1>6. UsersOK'
  <2>1. db'.users = db.users /\ seed'.pc = "notices"
    BY <1>1 DEF TablesOK, SeedOK
  <2>2. db.users = DemoUsers
    BY <1>1 DEF UsersOK, Place
  <2> QED
    BY <2>1, <2>2 DEF UsersOK, Place, DemoUsers
<1>8. SoFar'
  BY <1>1 DEF TablesOK, SeedOK, SoFar, RowByRow, AtOnce, Place
<1> QED
  BY <1>4, <1>5, <1>6, <1>8 DEF SeedIInv

LEMMA NoticesStep ==
    ASSUME SeedAssumption, SeedIInv, CreateNotices
    PROVE  SeedIInv'
<1> DEFINE all == DemoDb(seed.today)
<1>1. /\ TablesOK(db) /\ SeedOK /\ UsersOK /\ SoFar /\ clock' = clock
      /\ seed.pc = "notices"
      /\ db' = [db EXCEPT !.notices = all.notices]
      /\ seed' = [seed EXCEPT !.pc = "activity", !.todo = {}]
  BY DEF SeedIInv, CreateNotices, CreateMany, GoTo
<1>2. seed.today \in Todays
  BY <1>1 DEF SeedOK
<1>3. TablesOK(all)
  BY <1>2, DemoTables
<1>4. TablesOK(db)'
  <2>1. IsTable(all.notices, 1..15, NoticeRow)
    BY <1>3 DEF TablesOK
  <2> HIDE DEF all
  <2> QED
    BY <1>1, <2>1, TableSet
<1>5. SeedOK'
  BY <1>1 DEF TablesOK, SeedOK, Place
<1>6. UsersOK'
  <2>1. db'.users = db.users /\ seed'.pc = "activity"
    BY <1>1 DEF TablesOK, SeedOK
  <2>2. db.users = DemoUsers
    BY <1>1 DEF UsersOK, Place
  <2> QED
    BY <2>1, <2>2 DEF UsersOK, Place, DemoUsers
<1>8. SoFar'
  BY <1>1 DEF TablesOK, SeedOK, SoFar, RowByRow, AtOnce, Place
<1> QED
  BY <1>4, <1>5, <1>6, <1>8 DEF SeedIInv

LEMMA ActivityStep ==
    ASSUME SeedAssumption, SeedIInv, CreateActivity
    PROVE  SeedIInv'
<1> DEFINE all == DemoDb(seed.today)
<1>1. /\ TablesOK(db) /\ SeedOK /\ UsersOK /\ SoFar /\ clock' = clock
      /\ seed.pc = "activity"
      /\ db' = [db EXCEPT !.activity = all.activity]
      /\ seed' = [seed EXCEPT !.pc = "done", !.todo = {}]
  BY DEF SeedIInv, CreateActivity, CreateMany, GoTo
<1>2. seed.today \in Todays
  BY <1>1 DEF SeedOK
<1>3. TablesOK(all)
  BY <1>2, DemoTables
<1>4. TablesOK(db)'
  <2>1. all.activity \in Nat
    BY <1>3 DEF TablesOK
  <2> HIDE DEF all
  <2> QED
    BY <1>1, <2>1, TableSet
<1>5. SeedOK'
  BY <1>1 DEF TablesOK, SeedOK, Place
<1>6. UsersOK'
  <2>1. db'.users = db.users /\ seed'.pc = "done"
    BY <1>1 DEF TablesOK, SeedOK
  <2>2. db.users = DemoUsers
    BY <1>1 DEF UsersOK, Place
  <2> QED
    BY <2>1, <2>2 DEF UsersOK, Place, DemoUsers
<1>8. SoFar'
  BY <1>1 DEF TablesOK, SeedOK, SoFar, RowByRow, AtOnce, Place
<1> QED
  BY <1>4, <1>5, <1>6, <1>8 DEF SeedIInv

\* There are rows only while there is an administrator.
LEMMA RowsHaveAdmin ==
    ASSUME SeedIInv, "ADMIN" \notin db.users
    PROVE  /\ DOMAIN db.props = {} /\ DOMAIN db.contracts = {}
           /\ DOMAIN db.payments = {} /\ DOMAIN db.tickets = {}
           /\ DOMAIN db.leads = {} /\ DOMAIN db.notices = {} /\ db = EmptyDb
  BY DEF SeedIInv, UsersOK, EmptyDb, NoTable

\* What a write of the API has to keep.
LEMMA ApiKeeps ==
    ASSUME SeedIInv, clock' = clock, seed' = [seed EXCEPT !.clean = FALSE],
           TablesOK(db)', db'.users = db.users, "ADMIN" \notin db.users => db' = db
    PROVE  SeedIInv'
<1>1. SeedOK'
  BY DEF SeedIInv, SeedOK
<1>2. UsersOK'
  BY DEF SeedIInv, SeedOK, UsersOK
<1>3. SoFar'
  BY DEF SeedIInv, SeedOK, SoFar
<1> QED
  BY <1>1, <1>2, <1>3 DEF SeedIInv

LEMMA PaymentWrite ==
    ASSUME SeedIInv, NEW y \in DOMAIN db.payments, NEW row \in PaymentRow, PaymentFits(row),
           Write("payments", y, row)
    PROVE  SeedIInv'
<1>1. /\ db' = [db EXCEPT !.payments = [db.payments EXCEPT ![y] = row]]
      /\ seed' = [seed EXCEPT !.clean = FALSE] /\ clock' = clock
  BY DEF Write
<1>2. TablesOK(db)
  BY DEF SeedIInv
<1>3. TablesOK(db)'
  <2> DEFINE t == [db.payments EXCEPT ![y] = row]
  <2>1. IsTable(t, PaymentRows, PaymentRow)
    BY <1>2, RowUpdated DEF TablesOK
  <2>2. \A z \in DOMAIN t : PaymentFits(t[z])
    BY <1>2 DEF TablesOK
  <2> QED
    BY <1>1, <1>2, <2>1, <2>2, TableSet
<1>5. db'.users = db.users /\ "ADMIN" \in db.users
  BY <1>1, <1>2, RowsHaveAdmin DEF TablesOK
<1> QED
  BY <1>1, <1>3, <1>5, ApiKeeps

\* POST /payments: a payment of an active contract, and of its tenant.
LEMMA PaymentCreateStep ==
    ASSUME SeedAssumption, SeedIInv, PaymentCreate
    PROVE  SeedIInv'
<1>1. PICK y \in NewPayments \ DOMAIN db.payments, i \in DOMAIN db.contracts,
           periodo \in {MonthOf(clock), MonthOf(clock) + 1}, metodo \in {Null, "EFECTIVO"},
           fechaPago \in PayDates \cup {Null} :
        LET c == db.contracts[i]
            row == [contractId |-> i, propertyId |-> c.propertyId, tenantId |-> c.tenantId,
                    periodo |-> periodo, monto |-> 100, mora |-> Null,
                    estado |-> IF fechaPago = Null THEN "PENDIENTE" ELSE "PAGADO",
                    metodo |-> metodo, vence |-> clock, fechaPago |-> fechaPago,
                    creado |-> clock, isActive |-> TRUE]
        IN  /\ c.isActive
            /\ ~\E z \in DOMAIN db.payments :
                 db.payments[z].contractId = i /\ db.payments[z].periodo = periodo
            /\ writes < MaxWrites
            /\ db' = [db EXCEPT !.payments = With(@, y, row)]
            /\ seed' = [seed EXCEPT !.clean = FALSE]
            /\ writes' = writes + 1
            /\ UNCHANGED clock
  BY Zenon DEF PaymentCreate
<1> DEFINE c == db.contracts[i]
           estado == IF fechaPago = Null THEN "PENDIENTE" ELSE "PAGADO"
           row == [contractId |-> i, propertyId |-> c.propertyId, tenantId |-> c.tenantId,
                   periodo |-> periodo, monto |-> 100, mora |-> Null, estado |-> estado,
                   metodo |-> metodo, vence |-> clock, fechaPago |-> fechaPago,
                   creado |-> clock, isActive |-> TRUE]
<1>2. /\ db' = [db EXCEPT !.payments = With(db.payments, y, row)]
      /\ seed' = [seed EXCEPT !.clean = FALSE] /\ clock' = clock
  BY <1>1
<1>3. TablesOK(db) /\ clock \in Todays
  BY DEF SeedIInv, SeedOK
<1>4. i \in Int /\ c.propertyId = i /\ c.tenantId = i
  BY <1>3 DEF TablesOK, ContractFits
<1>5. clock \in Int /\ MonthOf(clock) \in Int /\ PayDates \subseteq Nat
  BY <1>3, TodayIsLate DEF SeedAssumption
<1>6. periodo \in Int /\ fechaPago \in Nat \cup {Null} /\ metodo \in PaymentMethod \cup {Null}
  <2> DEFINE m == MonthOf(clock)
  <2>1. m \in Int /\ periodo \in {m, m + 1}
    BY <1>5
  <2> HIDE DEF m
  <2>2. periodo \in Int
    BY <2>1
  <2> QED
    BY <1>5, <2>2 DEF PaymentMethod
<1>7. estado \in PaymentStatus /\ (estado = "PAGADO" => fechaPago # Null)
  BY DEF PaymentStatus
<1> HIDE DEF c, estado
<1>8. row \in PaymentRow /\ PaymentFits(row)
  BY <1>4, <1>5, <1>6, <1>7 DEF PaymentRow, PaymentFits
<1>9. TablesOK(db)'
  <2> DEFINE t == With(db.payments, y, row)
  <2> HIDE DEF row
  <2>1. y \in PaymentRows
    BY DEF PaymentRows
  <2>2. IsTable(t, PaymentRows, PaymentRow)
    BY <1>3, <1>8, <2>1, MoreRows DEF TablesOK
  <2>3. \A z \in DOMAIN t : PaymentFits(t[z])
    BY <1>3, <1>8 DEF TablesOK, With
  <2> HIDE DEF t
  <2>4. TablesOK([db EXCEPT !.payments = t])
    BY <1>3, <2>2, <2>3, TableSet
  <2> QED
    BY <1>2, <2>4 DEF t
<1> HIDE DEF row
<1>10. db'.users = db.users
  BY <1>2, <1>3 DEF TablesOK
<1>11. "ADMIN" \in db.users
  BY RowsHaveAdmin
<1> QED
  BY <1>2, <1>9, <1>10, <1>11, ApiKeeps

LEMMA PaymentUpdateStep ==
    ASSUME SeedAssumption, SeedIInv, PaymentUpdate
    PROVE  SeedIInv'
<1>1. PICK y \in DOMAIN db.payments : LET p == db.payments[y] IN
        \/ \E fechaPago \in (PayDates \cup {p.fechaPago}) \ {Null},
              metodo \in {p.metodo, "EFECTIVO"} :
              Write("payments", y, [p EXCEPT !.estado = "PAGADO", !.fechaPago = fechaPago,
                                             !.metodo = metodo])
        \/ \E e \in {"PENDIENTE", "PARCIAL", "CANCELADO"} :
              Write("payments", y, [p EXCEPT !.estado = e])
        \/ Write("payments", y, [p EXCEPT !.estado = "VENCIDO", !.mora = 100])
  BY DEF PaymentUpdate
<1> DEFINE p == db.payments[y]
<1>2. p \in PaymentRow /\ PaymentFits(p)
  BY DEF SeedIInv, TablesOK, IsTable
<1>3. ASSUME NEW fechaPago \in (PayDates \cup {p.fechaPago}) \ {Null},
             NEW metodo \in {p.metodo, "EFECTIVO"},
             Write("payments", y, [p EXCEPT !.estado = "PAGADO", !.fechaPago = fechaPago,
                                            !.metodo = metodo])
      PROVE  SeedIInv'
  <2> DEFINE row == [p EXCEPT !.estado = "PAGADO", !.fechaPago = fechaPago, !.metodo = metodo]
  <2>1. fechaPago \in Nat /\ metodo \in PaymentMethod \cup {Null}
    BY <1>2 DEF SeedAssumption, PaymentRow, PaymentMethod
  <2>2. row \in PaymentRow /\ PaymentFits(row)
    BY <1>2, <2>1 DEF PaymentRow, PaymentStatus, PaymentFits
  <2> HIDE DEF row
  <2>3. Write("payments", y, row)
    BY <1>3 DEF row
  <2> QED
    BY <2>2, <2>3, PaymentWrite
<1>4. ASSUME NEW e \in {"PENDIENTE", "PARCIAL", "CANCELADO"},
             Write("payments", y, [p EXCEPT !.estado = e])
      PROVE  SeedIInv'
  <2> DEFINE row == [p EXCEPT !.estado = e]
  <2>1. row \in PaymentRow /\ PaymentFits(row)
    BY <1>2 DEF PaymentRow, PaymentStatus, PaymentFits
  <2> HIDE DEF row
  <2>2. Write("payments", y, row)
    BY <1>4 DEF row
  <2> QED
    BY <2>1, <2>2, PaymentWrite
<1>5. CASE Write("payments", y, [p EXCEPT !.estado = "VENCIDO", !.mora = 100])
  <2> DEFINE row == [p EXCEPT !.estado = "VENCIDO", !.mora = 100]
  <2>1. row \in PaymentRow /\ PaymentFits(row)
    BY <1>2 DEF PaymentRow, PaymentStatus, PaymentFits
  <2> HIDE DEF row
  <2>2. Write("payments", y, row)
    BY <1>5 DEF row
  <2> QED
    BY <2>1, <2>2, PaymentWrite
<1> QED
  BY <1>1, <1>3, <1>4, <1>5

LEMMA PaymentSoftDeleteStep ==
    ASSUME SeedAssumption, SeedIInv, PaymentSoftDelete
    PROVE  SeedIInv'
<1>1. PICK y \in DOMAIN db.payments :
        Write("payments", y, [db.payments[y] EXCEPT !.isActive = FALSE, !.estado = "CANCELADO"])
  BY DEF PaymentSoftDelete
<1> DEFINE p == db.payments[y]
           row == [p EXCEPT !.isActive = FALSE, !.estado = "CANCELADO"]
<1>2. p \in PaymentRow /\ PaymentFits(p)
  BY DEF SeedIInv, TablesOK, IsTable
<1>3. row \in PaymentRow /\ PaymentFits(row)
  BY <1>2 DEF PaymentRow, PaymentStatus, PaymentFits
<1> HIDE DEF row
<1>4. Write("payments", y, row)
  BY <1>1 DEF row
<1> QED
  BY <1>3, <1>4, PaymentWrite

LEMMA PropertyWrite ==
    ASSUME SeedIInv, NEW i \in DOMAIN db.props, NEW row \in PropertyRow, Write("props", i, row)
    PROVE  SeedIInv'
<1>1. /\ db' = [db EXCEPT !.props = [db.props EXCEPT ![i] = row]]
      /\ seed' = [seed EXCEPT !.clean = FALSE] /\ clock' = clock
  BY DEF Write
<1>2. TablesOK(db)
  BY DEF SeedIInv
<1>3. TablesOK(db)'
  <2>1. IsTable([db.props EXCEPT ![i] = row], PropertyNos, PropertyRow)
    BY <1>2, RowUpdated DEF TablesOK
  <2> QED
    BY <1>1, <1>2, <2>1, TableSet
<1>5. db'.users = db.users /\ "ADMIN" \in db.users
  BY <1>1, <1>2, RowsHaveAdmin DEF TablesOK
<1> QED
  BY <1>1, <1>3, <1>5, ApiKeeps

LEMMA TicketWrite ==
    ASSUME SeedIInv, NEW i \in DOMAIN db.tickets, NEW row \in TicketRow, Write("tickets", i, row)
    PROVE  SeedIInv'
<1>1. /\ db' = [db EXCEPT !.tickets = [db.tickets EXCEPT ![i] = row]]
      /\ seed' = [seed EXCEPT !.clean = FALSE] /\ clock' = clock
  BY DEF Write
<1>2. TablesOK(db)
  BY DEF SeedIInv
<1>3. TablesOK(db)'
  <2>1. IsTable([db.tickets EXCEPT ![i] = row], TicketNos, TicketRow)
    BY <1>2, RowUpdated DEF TablesOK
  <2> QED
    BY <1>1, <1>2, <2>1, TableSet
<1>5. db'.users = db.users /\ "ADMIN" \in db.users
  BY <1>1, <1>2, RowsHaveAdmin DEF TablesOK
<1> QED
  BY <1>1, <1>3, <1>5, ApiKeeps

LEMMA LeadWrite ==
    ASSUME SeedIInv, NEW i \in DOMAIN db.leads, NEW row \in LeadRow, Write("leads", i, row)
    PROVE  SeedIInv'
<1>1. /\ db' = [db EXCEPT !.leads = [db.leads EXCEPT ![i] = row]]
      /\ seed' = [seed EXCEPT !.clean = FALSE] /\ clock' = clock
  BY DEF Write
<1>2. TablesOK(db)
  BY DEF SeedIInv
<1>3. TablesOK(db)'
  <2>1. IsTable([db.leads EXCEPT ![i] = row], LeadNos, LeadRow)
    BY <1>2, RowUpdated DEF TablesOK
  <2> QED
    BY <1>1, <1>2, <2>1, TableSet
<1>5. db'.users = db.users /\ "ADMIN" \in db.users
  BY <1>1, <1>2, RowsHaveAdmin DEF TablesOK
<1> QED
  BY <1>1, <1>3, <1>5, ApiKeeps

LEMMA NoticeWrite ==
    ASSUME SeedIInv, NEW i \in DOMAIN db.notices, NEW row \in NoticeRow, Write("notices", i, row)
    PROVE  SeedIInv'
<1>1. /\ db' = [db EXCEPT !.notices = [db.notices EXCEPT ![i] = row]]
      /\ seed' = [seed EXCEPT !.clean = FALSE] /\ clock' = clock
  BY DEF Write
<1>2. TablesOK(db)
  BY DEF SeedIInv
<1>3. TablesOK(db)'
  <2>1. IsTable([db.notices EXCEPT ![i] = row], 1..15, NoticeRow)
    BY <1>2, RowUpdated DEF TablesOK
  <2> QED
    BY <1>1, <1>2, <2>1, TableSet
<1>5. db'.users = db.users /\ "ADMIN" \in db.users
  BY <1>1, <1>2, RowsHaveAdmin DEF TablesOK
<1> QED
  BY <1>1, <1>3, <1>5, ApiKeeps

LEMMA PropertyUpdateStep ==
    ASSUME SeedAssumption, SeedIInv, PropertyUpdate
    PROVE  SeedIInv'
<1>1. PICK i \in DOMAIN db.props, e \in {"DISPONIBLE", "OCUPADA", "MANTENIMIENTO"} :
        Write("props", i, [db.props[i] EXCEPT !.estado = e, !.publicado = (e = "DISPONIBLE")])
  BY DEF PropertyUpdate
<1>2. db.props[i] \in PropertyRow
  BY DEF SeedIInv, TablesOK, IsTable
<1>3. (e = "DISPONIBLE") \in BOOLEAN
  BY Zenon
<1>4. ASSUME NEW b \in BOOLEAN
      PROVE  [db.props[i] EXCEPT !.estado = e, !.publicado = b] \in PropertyRow
  BY <1>2 DEF PropertyRow, PropertyStatus
<1>5. [db.props[i] EXCEPT !.estado = e, !.publicado = (e = "DISPONIBLE")] \in PropertyRow
  BY <1>3, <1>4, Zenon
<1> QED
  BY <1>1, <1>5, PropertyWrite

LEMMA PropertySoftDeleteStep ==
    ASSUME SeedAssumption, SeedIInv, PropertySoftDelete
    PROVE  SeedIInv'
<1>1. PICK i \in DOMAIN db.props : Write("props", i, [db.props[i] EXCEPT !.isActive = FALSE])
  BY DEF PropertySoftDelete
<1>2. db.props[i] \in PropertyRow
  BY DEF SeedIInv, TablesOK, IsTable
<1>3. [db.props[i] EXCEPT !.isActive = FALSE] \in PropertyRow
  BY <1>2 DEF PropertyRow
<1> QED
  BY <1>1, <1>3, PropertyWrite

LEMMA TicketUpdateStep ==
    ASSUME SeedAssumption, SeedIInv, TicketUpdate
    PROVE  SeedIInv'
<1>1. PICK k \in DOMAIN db.tickets : LET t == db.tickets[k] IN
        \/ Write("tickets", k, [t EXCEPT !.estado = "RESUELTO", !.fechaResolucion = clock,
                                         !.costoFinal = t.costoEstimado])
        \/ Write("tickets", k, [t EXCEPT !.prioridad = "URGENTE"])
  BY DEF TicketUpdate
<1> DEFINE t == db.tickets[k]
           resolved == [t EXCEPT !.estado = "RESUELTO", !.fechaResolucion = clock,
                                 !.costoFinal = t.costoEstimado]
           urgent == [t EXCEPT !.prioridad = "URGENTE"]
<1>2. t \in TicketRow /\ clock \in Int
  BY DEF SeedIInv, SeedOK, SeedAssumption, TablesOK, IsTable
<1>3. resolved \in TicketRow
  BY <1>2 DEF TicketRow, OpenStates, ResolvedStates
<1>4. urgent \in TicketRow
  BY <1>2 DEF TicketRow, MaintenancePriority
<1> QED
  BY <1>1, <1>3, <1>4, TicketWrite

LEMMA LeadUpdateStep ==
    ASSUME SeedAssumption, SeedIInv, LeadUpdate
    PROVE  SeedIInv'
<1>1. PICK k \in DOMAIN db.leads, e \in {"GANADO", "PERDIDO"} :
        Write("leads", k, [db.leads[k] EXCEPT !.estado = e])
  BY DEF LeadUpdate
<1>2. db.leads[k] \in LeadRow
  BY DEF SeedIInv, TablesOK, IsTable
<1>3. [db.leads[k] EXCEPT !.estado = e] \in LeadRow
  BY <1>2 DEF LeadRow, LeadStatus
<1> QED
  BY <1>1, <1>3, LeadWrite

LEMMA MarkAsReadStep ==
    ASSUME SeedAssumption, SeedIInv, MarkAsRead
    PROVE  SeedIInv'
<1>1. PICK k \in DOMAIN db.notices : Write("notices", k, [db.notices[k] EXCEPT !.leida = TRUE])
  BY DEF MarkAsRead
<1>2. db.notices[k] \in NoticeRow
  BY DEF SeedIInv, TablesOK, IsTable
<1>3. [db.notices[k] EXCEPT !.leida = TRUE] \in NoticeRow
  BY <1>2 DEF NoticeRow
<1> QED
  BY <1>1, <1>3, NoticeWrite

LEMMA MarkAllAsReadStep ==
    ASSUME SeedAssumption, SeedIInv, MarkAllAsRead
    PROVE  SeedIInv'
<1> DEFINE t == [k \in DOMAIN db.notices |-> [db.notices[k] EXCEPT !.leida = TRUE]]
<1>1. /\ db' = [db EXCEPT !.notices = t]
      /\ seed' = [seed EXCEPT !.clean = FALSE] /\ clock' = clock
  BY DEF MarkAllAsRead
<1>2. TablesOK(db)
  BY DEF SeedIInv
<1>3. IsTable(t, 1..15, NoticeRow)
  <2>1. \A k \in DOMAIN db.notices : [db.notices[k] EXCEPT !.leida = TRUE] \in NoticeRow
    BY <1>2 DEF TablesOK, IsTable, NoticeRow
  <2>2. DOMAIN db.notices \subseteq 1..15
    BY <1>2 DEF TablesOK, IsTable
  <2> QED
    BY <2>1, <2>2 DEF IsTable
<1>4. "ADMIN" \notin db.users => t = db.notices
  BY RowsHaveAdmin DEF EmptyDb, NoTable
<1> HIDE DEF t
<1>5. TablesOK(db)'
  BY <1>1, <1>2, <1>3, TableSet
<1>7. db'.users = db.users /\ ("ADMIN" \notin db.users => db' = db)
  BY <1>1, <1>2, <1>4 DEF TablesOK
<1> QED
  BY <1>1, <1>5, <1>7, ApiKeeps

LEMMA SeedNextOK ==
    ASSUME SeedAssumption, SeedIInv, [SeedNext]_seedVars
    PROVE  SeedIInv'
<1>1. CASE SeedStep
  BY <1>1, StartStep, ResetStep, CheckStep, AdminStep, StaffStep, PropertiesStep, TenantsStep,
     InquilinoStep, ContractsStep, PaymentsStep, TicketsStep, LeadsStep, NoticesStep,
     ActivityStep, FailStep DEF SeedStep
<1>2. CASE ApiStep
  BY <1>2, PaymentCreateStep, PaymentUpdateStep, PaymentSoftDeleteStep, PropertyUpdateStep, PropertySoftDeleteStep,
     TicketUpdateStep, LeadUpdateStep, MarkAsReadStep, MarkAllAsReadStep DEF ApiStep
<1>3. CASE Tick
  BY <1>3, TickStep
<1>4. CASE UNCHANGED seedVars
  BY <1>4 DEF seedVars, SeedIInv, SeedOK, UsersOK, SoFar, RowByRow, AtOnce
<1> QED
  BY <1>1, <1>2, <1>3, <1>4 DEF SeedNext

LEMMA SeedInvariant == SeedSpec => []SeedIInv
<1>1. SeedInit => SeedIInv
  BY SeedInitOK, SeedAssumption
<1>2. SeedIInv /\ [SeedNext]_seedVars => SeedIInv'
  BY SeedNextOK, SeedAssumption
<1> QED
  BY <1>1, <1>2, PTL DEF SeedSpec

\* What the invariant says of a run that is done, and of one that could fail.
LEMMA RunsIInv == SeedAssumption /\ SeedIInv => SeedIsWhole
<1> SUFFICES ASSUME SeedAssumption, SeedIInv PROVE SeedIsWhole
  OBVIOUS
<1>1. ASSUME seed.pc = "done", seed.clean PROVE db = DemoDb(seed.today)
  <2> DEFINE all == DemoDb(seed.today)
  <2>1. /\ db.users = DemoUsers
        /\ db.props = all.props /\ db.tenants = all.tenants /\ db.contracts = all.contracts
        /\ db.payments = all.payments /\ db.tickets = all.tickets /\ db.leads = all.leads
        /\ db.notices = all.notices /\ db.activity = all.activity
    BY <1>1 DEF SeedIInv, UsersOK, SoFar, RowByRow, AtOnce, Place
  <2>2. all.users = DemoUsers
    BY DEF DemoDb
  <2>3. TablesOK(db) /\ TablesOK(all)
    BY DemoTables DEF SeedIInv, SeedOK
  <2> HIDE DEF all
  <2>4. /\ DOMAIN db = DOMAIN all
        /\ db = [f \in DOMAIN db |-> db[f]] /\ all = [f \in DOMAIN all |-> all[f]]
        /\ DOMAIN db = {"users", "props", "tenants", "contracts", "payments", "tickets", "leads",
                        "notices", "activity"}
    BY <2>3 DEF TablesOK
  <2>5. \A f \in DOMAIN db : db[f] = all[f]
    BY <2>1, <2>2, <2>4
  <2> QED
    BY <2>4, <2>5 DEF all
<1>2. ASSUME seed.clean, DayOf(seed.today) <= 28 PROVE ~Clashes
  <2>1. seed.today \in Todays
    BY DEF SeedIInv, SeedOK
  <2>2. ~(seed.pc = "admin" /\ "ADMIN" \in db.users)
    BY DEF SeedIInv, UsersOK
  <2>3. ~(seed.pc = "staff" /\ seed.todo \cap db.users # {})
    BY DEF SeedIInv, SeedOK, UsersOK, Staff
  <2>4. ~(seed.pc = "inquilino" /\ "INQUILINO" \in db.users)
    BY DEF SeedIInv, UsersOK, Place, Staff
  <2>5. ASSUME NEW y \in PaymentIds, NEW z \in PaymentIds,
               AllPayments(seed.today)[y].contractId = AllPayments(seed.today)[z].contractId,
               AllPayments(seed.today)[y].periodo = AllPayments(seed.today)[z].periodo
        PROVE  y = z
    <3> DEFINE i == (y + 11) \div 100
               j == (z + 11) \div 100
    <3>1. /\ y \in Int /\ i \in 1..9 /\ y - 100 * i \in -11..0
          /\ z \in Int /\ j \in 1..9 /\ z - 100 * j \in -11..0
      BY PaymentNumber
    <3>2. /\ AllPayments(seed.today)[y].contractId = i
          /\ AllPayments(seed.today)[y].periodo = Period(seed.today, y - 100 * i)
      BY <2>1, DemoPayment
    <3>3. /\ AllPayments(seed.today)[z].contractId = j
          /\ AllPayments(seed.today)[z].periodo = Period(seed.today, z - 100 * j)
      BY <2>1, DemoPayment
    <3>4. MonthOf(seed.today) \in Nat
      BY <2>1, TodayIsLate
    <3> HIDE DEF i, j
    <3>5. i = j /\ Period(seed.today, y - 100 * i) = Period(seed.today, z - 100 * j)
      BY <2>5, <3>2, <3>3
    <3>6. /\ Period(seed.today, y - 100 * i) = MonthOf(seed.today) + (y - 100 * i)
          /\ Period(seed.today, z - 100 * j) = MonthOf(seed.today) + (z - 100 * j)
      BY <1>2, <2>1, <3>1, PeriodUpTo28
    <3> QED
      BY <3>1, <3>4, <3>5, <3>6
  <2>6. ASSUME seed.pc = "payments"
        PROVE  WithAll(db.payments, AllPayments(seed.today)) = AllPayments(seed.today)
    <3>1. db.payments = NoTable
      BY <1>2, <2>6 DEF SeedIInv, SoFar, AtOnce, Place
    <3> QED
      BY <3>1, NoOtherPayments
  <2>7. DOMAIN AllPayments(seed.today) = PaymentIds
    BY DEF AllPayments
  <2> QED
    BY <2>2, <2>3, <2>4, <2>5, <2>6, <2>7 DEF Clashes
<1> QED
  BY <1>1, <1>2 DEF SeedIsWhole

(***************************************************************************)
(* A run of the script that says it is complete left the whole demo and    *)
(* nothing else, and up to day 28 of a month no run fails on rows that are *)
(* there, both unless the API wrote meanwhile: whatever earlier runs and   *)
(* the API left, on whatever days and with or without --reset.             *)
(***************************************************************************)
THEOREM RunsAreWhole == SeedSpec => []SeedIsWhole
<1>1. SeedIInv => SeedIsWhole
  BY RunsIInv, SeedAssumption
<1> QED
  BY <1>1, SeedInvariant, PTL

(***************************************************************************)
(* Up to day 28 of a month the script has one payment of each contract for *)
(* every month since it started.  The run seed_month_end shows that this   *)
(* is not so on the days 29 to 31.                                         *)
(***************************************************************************)
THEOREM HistoryUpTo28 == SeedSpec => [](DayOf(seed.today) <= 28 => FullHistory)
<1>1. SeedIInv => (DayOf(seed.today) <= 28 => FullHistory)
  <2> SUFFICES ASSUME SeedIInv, DayOf(seed.today) <= 28,
                      NEW i \in ContractNos \cap 1..9, NEW offset \in Started(i)..0
               PROVE  \E y \in PaymentIds :
                        /\ AllPayments(seed.today)[y].contractId = i
                        /\ AllPayments(seed.today)[y].periodo = MonthOf(seed.today) + offset
    BY DEF FullHistory
  <2> DEFINE y == 100 * i + offset
  <2>1. seed.today \in Todays
    BY DEF SeedIInv, SeedOK
  <2>2. i \in 1..9 /\ offset \in -11..0
    BY SMT DEF Started
  <2>3. y \in PaymentIds
    BY DEF PaymentIds
  <2>4. (y + 11) \div 100 = i /\ y - 100 * i = offset
    BY <2>2, SMT
  <2> HIDE DEF y
  <2>5. /\ AllPayments(seed.today)[y].contractId = i
        /\ AllPayments(seed.today)[y].periodo = Period(seed.today, offset)
    BY <2>1, <2>3, <2>4, DemoPayment, SeedAssumption
  <2>6. Period(seed.today, offset) = MonthOf(seed.today) + offset
    BY <2>1, <2>2, PeriodUpTo28, SeedAssumption
  <2> QED
    BY <2>3, <2>5, <2>6
<1> QED
  BY <1>1, SeedInvariant, PTL

=============================================================================
