------------------------------- MODULE Seed -------------------------------
(***************************************************************************)
(* prisma/seed.ts of RentFlowAPI: a script that fills the database with    *)
(* the account of a demo, one table after another and without a            *)
(* transaction.  It may fail or be killed between any two rows, run again  *)
(* with or without --reset, on another day, and while the API writes.      *)
(*                                                                         *)
(* A table is a function from the ids of its rows to the rows.  Amounts    *)
(* are in tens of pesos.                                                   *)
(***************************************************************************)
EXTENDS Calendar, Sequences, FiniteSets

CONSTANTS
    Slice,     \* which of the script's properties, tenants and contracts are seeded
    Todays,    \* the dates that pass, each of which the script may run on
    PayDates,  \* the values of fechaPago in the bodies of the API
    NewPayments, \* ids of the payments that POST /payments may create (a bound)
    MaxWrites  \* how many writes of the API are followed

PropertyNos == Slice \cap 1..12
TenantNos == Slice
ContractNos == Slice \cap 1..10

PaymentMethod == {"TRANSFERENCIA", "EFECTIVO", "TARJETA", "DEBITO_AUTOMATICO"}

\* The tenant of the INQUILINO is the first.
ASSUME SeedAssumption ==
    /\ 1 \in Slice /\ Slice \subseteq 1..15
    /\ Todays \subseteq Nat /\ \A d \in Todays : d > FirstDay(24)
    /\ PayDates \subseteq Nat
    /\ NewPayments \subseteq Int /\ IsFiniteSet(NewPayments)
    /\ MaxWrites \in Nat
    /\ Null \notin Int \cup PaymentMethod

VARIABLES
    db,    \* the tables
    clock, \* the day it is
    seed,  \* the script: where it is, its `today', the rows of a Promise.all still
           \* to create, and whether nobody else wrote since it started
    writes \* writes of the API so far

seedVars == <<db, clock, seed, writes>>

-----------------------------------------------------------------------------
(***************************************************************************)
(* The data of the script.                                                 *)
(***************************************************************************)
DaysAgo(today, n) == today - n
DaysFromNow(today, n) == today + n
MonthsAgo(today, n) == SetDate(SetMonth(today, MonthOf(today) - n), 1)
MonthsFromNow(today, n) == SetMonth(today, MonthOf(today) + n)
Period(today, offset) == MonthOf(SetMonth(today, MonthOf(today) + offset))
DueDate(today, offset) == SetDate(SetMonth(today, MonthOf(today) + offset), 10)
PaidDate(today, offset) == SetDate(SetMonth(today, MonthOf(today) + offset), 5)

Staff == {"SUPER_ADMIN", "FINANZAS", "VENDEDOR", "MANTENIMIENTO", "CLIENTE"}
DemoUsers == {"ADMIN", "INQUILINO"} \cup Staff

PropertyOf(i, today) ==
    [tipo |-> <<"APARTAMENTO", "APARTAMENTO", "CASA", "OFICINA", "LOCAL", "DUPLEX",
                "APARTAMENTO", "APARTAMENTO", "CASA", "APARTAMENTO", "OFICINA", "CASA">>[i],
     estado |-> IF i = 12 THEN "MANTENIMIENTO" ELSE IF i >= 10 THEN "DISPONIBLE" ELSE "OCUPADA",
     precio |-> <<18500, 32000, 45000, 28000, 24000, 31000,
                  17500, 22000, 68000, 14500, 35000, 52000>>[i],
     publicado |-> i \in {10, 11}, creado |-> today, isActive |-> TRUE]

TenantOf(i, today) ==
    [propertyId |-> IF i <= 9 THEN i ELSE Null,
     estado |-> CASE i = 8 -> "MOROSO"
                  [] i \in {10, 15} -> "INACTIVO"
                  [] i \in 11..14 -> "PENDIENTE"
                  [] OTHER -> "ACTIVO",
     creado |-> today, isActive |-> TRUE]

\* Contract i is of property i and tenant i.
ContractOf(i, today) ==
    [propertyId |-> i, tenantId |-> i,
     estado |-> CASE i = 1 -> "PROXIMO_A_VENCER" [] i = 10 -> "VENCIDO" [] OTHER -> "ACTIVO",
     inicio |-> MonthsAgo(today, IF i = 10 THEN 20 ELSE 12 - i),
     fin |-> CASE i = 1 -> DaysFromNow(today, 22)
               [] i = 10 -> MonthsAgo(today, 8)
               [] OTHER -> MonthsFromNow(today, <<0, 14, 3, 16, 5, 18, 7, 8, 9>>[i]),
     creado |-> today, isActive |-> i # 10]

Started(i) == i - 12
Overdue(i) == CASE i \in {2, 5} -> {-1} [] i = 8 -> {-2, -1} [] OTHER -> {}
PaysInAdvance == {3, 4, 6, 9}

\* buildPayments, for contract i and the month at `offset'.
PaymentOf(i, offset, today) ==
    LET monto == PropertyOf(i, today).precio
        paid == IF offset = 0 THEN i \in PaysInAdvance ELSE offset \notin Overdue(i)
        late == offset < 0 /\ ~paid
    IN  [contractId |-> i, propertyId |-> i, tenantId |-> i,
         periodo |-> Period(today, offset), monto |-> monto,
         mora |-> IF late THEN (3 * monto) \div 100 ELSE Null,
         estado |-> IF paid THEN "PAGADO" ELSE IF late THEN "VENCIDO" ELSE "PENDIENTE",
         metodo |-> IF ~paid THEN Null
                    ELSE CASE i = 4 -> "DEBITO_AUTOMATICO"
                           [] i = 6 -> "EFECTIVO"
                           [] OTHER -> "TRANSFERENCIA",
         vence |-> IF offset < 0 \/ paid THEN DueDate(today, offset) ELSE DaysFromNow(today, 10),
         fechaPago |-> IF paid THEN PaidDate(today, offset) ELSE Null,
         creado |-> today, isActive |-> TRUE]

\* allPayments: one for each contract that runs and month since it started.
PaymentIds == UNION {{100 * i + offset : offset \in Started(i)..0} : i \in ContractNos \cap 1..9}
AllPayments(today) ==
    [y \in PaymentIds |-> LET i == (y + 11) \div 100 IN PaymentOf(i, y - 100 * i, today)]

\* The ids of POST /payments are new.
ASSUME NewPaymentsAssumption == NewPayments \cap PaymentIds = {}

TicketProperty == <<12, 6, 4, 2, 7, 1, 3, 9>>
TicketNos == {k \in 1..8 : TicketProperty[k] \in Slice}

TicketOf(k, today) ==
    [propertyId |-> TicketProperty[k], tenantId |-> IF k = 1 THEN Null ELSE TicketProperty[k],
     prioridad |-> <<"ALTA", "URGENTE", "ALTA", "MEDIA", "ALTA", "MEDIA", "BAJA", "MEDIA">>[k],
     estado |-> <<"EN_PROGRESO", "EN_PROGRESO", "PENDIENTE", "ESPERANDO_REPUESTOS",
                  "PENDIENTE", "RESUELTO", "CERRADO", "EN_PROGRESO">>[k],
     categoria |-> <<"PLOMERIA", "ELECTRICIDAD", "GENERAL", "PINTURA", "SEGURIDAD",
                     "PLOMERIA", "SEGURIDAD", "LIMPIEZA">>[k],
     costoEstimado |-> <<85000, 8500, 4500, 3200, 1500, 800, 2200, 5500>>[k],
     costoFinal |-> CASE k = 6 -> 550 [] k = 7 -> 1950 [] OTHER -> Null,
     fechaResolucion |-> CASE k = 6 -> DaysAgo(today, 18) [] k = 7 -> DaysAgo(today, 45)
                           [] OTHER -> Null,
     creado |-> DaysAgo(today, <<20, 3, 7, 12, 4, 35, 55, 6>>[k]), isActive |-> TRUE]

LeadProperty == <<10, 11, 10, 11, Null, 10>>
LeadNos == {k \in 1..6 : LeadProperty[k] = Null \/ LeadProperty[k] \in Slice}

LeadOf(k, today) ==
    [propertyId |-> LeadProperty[k],
     vendedorId |-> IF k = 6 THEN Null ELSE "VENDEDOR",
     estado |-> <<"NUEVO", "CONTACTADO", "VISITA_AGENDADA", "NEGOCIACION", "PERDIDO", "GANADO">>[k],
     creado |-> DaysAgo(today, <<1, 4, 6, 10, 20, 2>>[k]), isActive |-> TRUE]

\* The notifications, of which seven are read already.  They have no isActive.
NoticeOf(k, today) == [leida |-> k \in {6, 7, 8, 10, 11, 12, 13}, creado |-> today, isActive |-> TRUE]

Activity == 25

NoTable == <<>>
EmptyDb == [users |-> {}, props |-> NoTable, tenants |-> NoTable, contracts |-> NoTable,
            payments |-> NoTable, tickets |-> NoTable, leads |-> NoTable,
            notices |-> NoTable, activity |-> 0]

\* What a run of the script on that day is to leave.
DemoDb(today) ==
    [users |-> DemoUsers,
     props |-> [i \in PropertyNos |-> PropertyOf(i, today)],
     tenants |-> [i \in TenantNos |-> TenantOf(i, today)],
     contracts |-> [i \in ContractNos |-> ContractOf(i, today)],
     payments |-> AllPayments(today),
     tickets |-> [k \in TicketNos |-> TicketOf(k, today)],
     leads |-> [k \in LeadNos |-> LeadOf(k, today)],
     notices |-> [k \in 1..15 |-> NoticeOf(k, today)],
     activity |-> Activity]

-----------------------------------------------------------------------------
(***************************************************************************)
(* The script.                                                             *)
(***************************************************************************)
SeedInit ==
    /\ db = EmptyDb
    /\ clock \in Todays
    /\ seed = [pc |-> "idle", today |-> clock, todo |-> {}, clean |-> TRUE]
    /\ writes = 0

Running == seed.pc \notin {"idle", "done"}

\* The next await: a Promise.all has rows still to create.
GoTo(step, rows) == seed' = [seed EXCEPT !.pc = step, !.todo = rows]

\* node starts the script: `today' is the date of the start.
Start(reset) ==
    /\ ~Running
    /\ seed' = [pc |-> IF reset THEN "reset" ELSE "check", today |-> clock, todo |-> {},
                clean |-> TRUE]
    /\ UNCHANGED <<db, clock, writes>>

\* Mutant: --reset removes the administrator, what it owns, and nobody else.
ResetAdmin ==
    /\ seed.pc = "reset"
    /\ db' = [EmptyDb EXCEPT !.users = db.users \ {"ADMIN"}]
    /\ GoTo("check", {})
    /\ UNCHANGED <<clock, writes>>

\* --reset: the users of the demo, and by cascade all that is theirs.
Reset ==
    /\ seed.pc = "reset"
    /\ db' = EmptyDb
    /\ GoTo("check", {})
    /\ UNCHANGED <<clock, writes>>

\* The script stops if the administrator is there.
Check ==
    /\ seed.pc = "check"
    /\ GoTo(IF "ADMIN" \in db.users THEN "idle" ELSE "admin", {})
    /\ UNCHANGED <<db, clock, writes>>

With(t, i, row) == [j \in DOMAIN t \cup {i} |-> IF j = i THEN row ELSE t[j]]
WithAll(t, rows) ==
    [j \in DOMAIN t \cup DOMAIN rows |-> IF j \in DOMAIN rows THEN rows[j] ELSE t[j]]

\* Emails are unique, and so is the period of a contract's payment.
Clashes ==
    \/ seed.pc = "admin" /\ "ADMIN" \in db.users
    \/ seed.pc = "staff" /\ seed.todo \cap db.users # {}
    \/ seed.pc = "inquilino" /\ "INQUILINO" \in db.users
    \/ /\ seed.pc = "payments"
       /\ LET p == WithAll(db.payments, AllPayments(seed.today)) IN
          \E y \in DOMAIN p, z \in PaymentIds :
            y # z /\ p[y].contractId = p[z].contractId /\ p[y].periodo = p[z].periodo

CreateAdmin ==
    /\ seed.pc = "admin"
    /\ ~Clashes
    /\ db' = [db EXCEPT !.users = @ \cup {"ADMIN"}]
    /\ GoTo("staff", Staff)
    /\ UNCHANGED <<clock, writes>>

\* The rows of a Promise.all are created in any order, one at a time.
CreateStaff ==
    /\ seed.pc = "staff"
    /\ ~Clashes
    /\ IF seed.todo = {} THEN GoTo("properties", PropertyNos) /\ UNCHANGED db
       ELSE \E u \in seed.todo : /\ db' = [db EXCEPT !.users = @ \cup {u}]
                                 /\ GoTo("staff", seed.todo \ {u})
    /\ UNCHANGED <<clock, writes>>

\* One row of `table', as in the demo, or on to the next step.
CreateRows(step, table, next, rows) ==
    /\ seed.pc = step
    /\ IF seed.todo = {} THEN GoTo(next, rows) /\ UNCHANGED db
       ELSE \E i \in seed.todo :
              /\ db' = [db EXCEPT ![table] = With(@, i, DemoDb(seed.today)[table][i])]
              /\ GoTo(step, seed.todo \ {i})
    /\ UNCHANGED <<clock, writes>>

CreateProperties == CreateRows("properties", "props", "tenants", TenantNos)
CreateTenants == CreateRows("tenants", "tenants", "inquilino", {})
CreateContracts == CreateRows("contracts", "contracts", "payments", {})
CreateTickets == CreateRows("tickets", "tickets", "leads", {})

CreateInquilino ==
    /\ seed.pc = "inquilino"
    /\ ~Clashes
    /\ db' = [db EXCEPT !.users = @ \cup {"INQUILINO"}]
    /\ GoTo("contracts", ContractNos)
    /\ UNCHANGED <<clock, writes>>

\* createMany: all the rows or none.
CreateMany(step, table, next, rows) ==
    /\ seed.pc = step
    /\ ~Clashes
    /\ db' = [db EXCEPT ![table] = DemoDb(seed.today)[table]]
    /\ GoTo(next, rows)
    /\ UNCHANGED <<clock, writes>>

\* Payments that the API created meanwhile stay.
CreatePayments ==
    /\ seed.pc = "payments"
    /\ ~Clashes
    /\ db' = [db EXCEPT !.payments = WithAll(@, AllPayments(seed.today))]
    /\ GoTo("tickets", TicketNos)
    /\ UNCHANGED <<clock, writes>>

CreateLeads == CreateMany("leads", "leads", "notices", {})
CreateNotices == CreateMany("notices", "notices", "activity", {})
CreateActivity == CreateMany("activity", "activity", "done", {})

\* An error anywhere, or a kill: what was created stays.
Fail ==
    /\ Running
    /\ GoTo("idle", {})
    /\ UNCHANGED <<db, clock, writes>>

SeedStep ==
    \/ \E reset \in BOOLEAN : Start(reset)
    \/ Reset \/ Check \/ CreateAdmin \/ CreateStaff \/ CreateProperties \/ CreateTenants
    \/ CreateInquilino \/ CreateContracts \/ CreatePayments \/ CreateTickets \/ CreateLeads
    \/ CreateNotices \/ CreateActivity \/ Fail

\* A later day comes.
Tick ==
    /\ \E d \in Todays : d > clock /\ clock' = d
    /\ UNCHANGED <<db, seed, writes>>

-----------------------------------------------------------------------------
(***************************************************************************)
(* What the API writes meanwhile: a payment more, or one row of the demo   *)
(* as the update or softDelete of a repository leaves it.                  *)
(***************************************************************************)
Write(table, i, row) ==
    /\ writes < MaxWrites
    /\ db' = [db EXCEPT ![table][i] = row]
    /\ seed' = [seed EXCEPT !.clean = FALSE]
    /\ writes' = writes + 1
    /\ UNCHANGED clock

\* POST /payments, for this month or the next: one of a contract and period.  A
\* PAGADO has the date of its body, and need not have a method.
PaymentCreate ==
    \E y \in NewPayments \ DOMAIN db.payments, i \in DOMAIN db.contracts,
      periodo \in {MonthOf(clock), MonthOf(clock) + 1}, metodo \in {Null, "EFECTIVO"},
      fechaPago \in PayDates \cup {Null} :
        LET c == db.contracts[i]
            row == [contractId |-> i, propertyId |-> c.propertyId, tenantId |-> c.tenantId,
                    periodo |-> periodo, monto |-> 100, mora |-> Null,
                    estado |-> IF fechaPago = Null THEN "PENDIENTE" ELSE "PAGADO",
                    metodo |-> metodo, vence |-> clock, fechaPago |-> fechaPago,
                    creado |-> clock, isActive |-> TRUE]
        IN  /\ c.isActive
            /\ ~\E z \in DOMAIN db.payments :
                 db.payments[z].contractId = i /\ db.payments[z].periodo = periodo
            /\ writes < MaxWrites
            /\ db' = [db EXCEPT !.payments = With(@, y, row)]
            /\ seed' = [seed EXCEPT !.clean = FALSE]
            /\ writes' = writes + 1
            /\ UNCHANGED clock

\* A PAGADO has the date of the body, or the one the row has, and any method.
PaymentUpdate ==
    \E y \in DOMAIN db.payments : LET p == db.payments[y] IN
        /\ p.isActive /\ p.estado # "CANCELADO"
        /\ \/ \E fechaPago \in (PayDates \cup {p.fechaPago}) \ {Null},
                metodo \in {p.metodo, "EFECTIVO"} :
                Write("payments", y, [p EXCEPT !.estado = "PAGADO", !.fechaPago = fechaPago,
                                               !.metodo = metodo])
           \/ \E e \in {"PENDIENTE", "PARCIAL", "CANCELADO"} :
                Write("payments", y, [p EXCEPT !.estado = e])
           \/ Write("payments", y, [p EXCEPT !.estado = "VENCIDO", !.mora = 100])

PaymentSoftDelete ==
    \E y \in DOMAIN db.payments :
        /\ db.payments[y].isActive
        /\ Write("payments", y, [db.payments[y] EXCEPT !.isActive = FALSE,
                                                       !.estado = "CANCELADO"])

PropertyUpdate ==
    \E i \in DOMAIN db.props : \E e \in {"DISPONIBLE", "OCUPADA", "MANTENIMIENTO"} :
        /\ db.props[i].isActive
        /\ Write("props", i, [db.props[i] EXCEPT !.estado = e, !.publicado = (e = "DISPONIBLE")])

PropertySoftDelete ==
    \E i \in DOMAIN db.props :
        /\ db.props[i].isActive
        /\ Write("props", i, [db.props[i] EXCEPT !.isActive = FALSE])

TicketUpdate ==
    \E k \in DOMAIN db.tickets : LET t == db.tickets[k] IN
        /\ t.isActive /\ t.estado # "CERRADO"
        /\ \/ Write("tickets", k, [t EXCEPT !.estado = "RESUELTO", !.fechaResolucion = clock,
                                            !.costoFinal = t.costoEstimado])
           \/ Write("tickets", k, [t EXCEPT !.prioridad = "URGENTE"])

LeadUpdate ==
    \E k \in DOMAIN db.leads : \E e \in {"GANADO", "PERDIDO"} :
        /\ db.leads[k].isActive
        /\ Write("leads", k, [db.leads[k] EXCEPT !.estado = e])

MarkAsRead ==
    \E k \in DOMAIN db.notices : Write("notices", k, [db.notices[k] EXCEPT !.leida = TRUE])

\* updateMany
MarkAllAsRead ==
    /\ writes < MaxWrites
    /\ db' = [db EXCEPT !.notices = [k \in DOMAIN @ |-> [@[k] EXCEPT !.leida = TRUE]]]
    /\ seed' = [seed EXCEPT !.clean = FALSE]
    /\ writes' = writes + 1
    /\ UNCHANGED clock

ApiStep ==
    \/ PaymentCreate \/ PaymentUpdate \/ PaymentSoftDelete \/ PropertyUpdate \/ PropertySoftDelete
    \/ TicketUpdate \/ LeadUpdate \/ MarkAsRead \/ MarkAllAsRead

SeedNext == SeedStep \/ ApiStep \/ Tick

SeedSpec == SeedInit /\ [][SeedNext]_seedVars

-----------------------------------------------------------------------------
(***************************************************************************)
(* A run of the script that says it is complete left the whole demo, and   *)
(* nothing else, unless the API wrote meanwhile: whatever an earlier run   *)
(* left behind when it failed.  And, up to day 28 of a month, no run fails *)
(* on rows that it, an earlier run or the API before it created: --reset   *)
(* removes all that would be in its way, and without --reset the           *)
(* administrator, who comes first, tells.                                  *)
(***************************************************************************)
SeedIsWhole ==
    /\ seed.pc = "done" /\ seed.clean => db = DemoDb(seed.today)
    /\ seed.clean /\ DayOf(seed.today) <= 28 => ~Clashes

(***************************************************************************)
(* "Generates a full payment history for a contract": the script has one   *)
(* payment of each contract for every month since it started.              *)
(***************************************************************************)
FullHistory ==
    seed.pc = "payments" =>
      \A i \in ContractNos \cap 1..9 : \A offset \in Started(i)..0 :
        \E y \in PaymentIds : LET p == AllPayments(seed.today)[y] IN
          p.contractId = i /\ p.periodo = MonthOf(seed.today) + offset
===========================================================================
