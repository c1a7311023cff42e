-------------------------------- MODULE Charges --------------------------------
(***************************************************************************)
(* What is charged: the invoices of the guests (billing/), one per         *)
(* reservation, in Contifico and in openMAINT, and the monthly payments of *)
(* the owners (payments/), one per unit and period, in openMAINT, with     *)
(* their mails.                                                            *)
(*                                                                         *)
(* Two timers fire once a day, and anybody may start the same work by hand *)
(* at the same time.  Each run looks whether a card is there, and creates  *)
(* it some awaits later; nothing repeats a run that was cut.               *)
(*                                                                         *)
(* Left out: amounts, texts, owners without a mail, and the grouping of    *)
(* the units of one owner in one mail.  Contifico is taken to accept a     *)
(* document twice.                                                         *)
(***************************************************************************)
EXTENDS Integers, Sequences

CONSTANTS
    Processes,      \* runs that may be under way at the same time
    Reservations,
    Units,          \* rows of TenantAlicuotaSummary
    None,           \* no reservation
    ArrivalDates,   \* the dates a reservation may have for its arrival
    Start,          \* first day of each month, and of the one after the last
    Emision,        \* ConfigExpensa.DiaEmision
    Vencimiento,    \* ConfigExpensa.DiaVencimiento
    NoticeDays,     \* OVERDUE_NOTICE_DAYS
    Zone,           \* at 23:50 the date of toISOString() is so many days ahead
    CqlFilters,     \* whether openMAINT heeds cql=
    MaxRuns,        \* bound of the model: runs by hand
    MaxChanges,     \* bound of the model: changes of the reservations
    MaxMishaps,     \* bound of the model on what goes wrong
    Operations      \* what may go wrong, out of AllOperations

\* The process dies, or is not there at the hour; a call fails; the look for a card fails, and
\* counts as none; a call is carried out and its answer is lost.
AllOperations == {"crash", "down", "fault", "blind", "lost"}

ASSUME StartAssumption ==
    /\ Start \in Seq(Nat \ {0}) /\ Len(Start) > 1 /\ Start[1] = 1
    /\ \A m, n \in 1..Len(Start) : m < n => Start[m] < Start[n]
ASSUME DaysAssumption == Emision \in Nat /\ Vencimiento \in Nat \ {0} /\ NoticeDays \subseteq Nat
ASSUME ArrivalAssumption == ArrivalDates \subseteq Nat /\ Zone \in Nat
ASSUME NoneAssumption == None \notin Reservations
ASSUME SwitchAssumption == CqlFilters \in BOOLEAN
ASSUME MaxAssumption == MaxRuns \in Nat /\ MaxChanges \in Nat /\ MaxMishaps \in Nat

VARIABLES
    day,            \* days from the first of the first month, which is 1
    month,          \* the month it is in
    due,            \* timers that fire today
    booking,        \* external: the reservations of Hostaway
    invoices,       \* documents of a reservation in Contifico
    cards,          \* Estado of its cards of HostawayInvoice
    charges,        \* cards of Pagos, of a unit and a period
    settled,        \* those that are not pending any more
    told,           \* mails: <<which, <<unit, period>>>>
    job,            \* the runs under way
    runs,           \* bound of the model: runs by hand so far
    changes,        \* bound of the model: changes of the reservations so far
    mishaps,        \* bound of the model: what has gone wrong so far
    ready,          \* history: day since when a reservation is to be billed as it is, or 0
    since,          \* history: day of the first card of a unit and period, or 0
    doubt,          \* history: what may be charged twice, or is not in the books
    unsure,         \* history: reservations whose invoice is there and was taken for failed
    troubled        \* history: <<job, day>> in which something went wrong

vars == <<day, month, due, booking, invoices, cards, charges, settled, told, job, runs, changes,
          mishaps, ready, since, doubt, unsure, troubled>>

-----------------------------------------------------------------------------
(* The calendar.                                                           *)

Periods == 1..Len(Start) - 1

Last == Start[Len(Start)] - 1

\* Mutant: the days of the month count from zero.
DayOfMonthFromZero == day - Start[month]

\* getDate()
DayOfMonth == day - Start[month] + 1

\* new Date(year, month - 1, DiaVencimiento): a day that the month lacks is one of the next.
DueDate(m) == Start[m] + Vencimiento - 1

\* Mutant: the reminder is sent on the very day.
OnDueDate(m) == DueDate(m) = day

\* isReminderDay()
ReminderDay(m) == DueDate(m) - 1 = day

Concepts == Units \X Periods

Job == [op: {"none", "bill", "generate", "remind", "overdue"}, timer: BOOLEAN, force: BOOLEAN,
        date: Nat, stage: {"read", "work", "invoice", "save"}, todo: SUBSET Reservations,
        at: Reservations \cup {None}, bad: BOOLEAN, create: SUBSET Units, mail: SUBSET Concepts]

Idle == [op |-> "none", timer |-> FALSE, force |-> FALSE, date |-> 0, stage |-> "read",
         todo |-> {}, at |-> None, bad |-> FALSE, create |-> {}, mail |-> {}]

Run(op, timer, force, date) ==
    [op |-> op, timer |-> timer, force |-> force, date |-> date, stage |-> "read",
     todo |-> {}, at |-> None, bad |-> FALSE, create |-> {}, mail |-> {}]

\* A run goes on, at a reservation or with its units and mails.
Bills(j, stage, todo, at, bad) ==
    [op |-> j.op, timer |-> j.timer, force |-> j.force, date |-> j.date, stage |-> stage,
     todo |-> todo, at |-> at, bad |-> bad, create |-> {}, mail |-> {}]
Pays(j, create, mail) ==
    [op |-> j.op, timer |-> j.timer, force |-> j.force, date |-> j.date, stage |-> "work",
     todo |-> {}, at |-> None, bad |-> FALSE, create |-> create, mail |-> mail]

\* What a run asks of a reservation: its paymentStatus is Paid, its status is
\* new, modified or confirmed, and it arrives on the date.
Booking == [paid: BOOLEAN, stands: BOOLEAN, arrival: ArrivalDates]
Billable(b) == b.paid /\ b.stands

Init ==
    /\ day = 1 /\ month = 1 /\ due = {"bill", "pay"}
    /\ booking \in [Reservations -> {b \in Booking : ~b.paid /\ b.stands}]
    /\ ready = [r \in Reservations |-> 0]
    /\ invoices = [r \in Reservations |-> 0]
    /\ cards = [r \in Reservations |-> {}]
    /\ charges = [c \in Concepts |-> 0]
    /\ settled = {} /\ told = {}
    /\ job = [p \in Processes |-> Idle]
    /\ runs = 0 /\ changes = 0 /\ mishaps = 0
    /\ since = [c \in Concepts |-> 0]
    /\ doubt = {} /\ unsure = {} /\ troubled = {}

-----------------------------------------------------------------------------
(* The bookkeeping of a step.                                              *)

Hostaway == <<day, month, booking, ready, changes>>
Invoices == <<invoices, cards, unsure>>
Payments == <<charges, settled, told, since>>
Bounds == <<runs, due>>

Is(p, op, stage) == job[p].op = op /\ job[p].stage = stage

\* Billing, or payments.
Kind(op) == IF op = "bill" THEN "bill" ELSE "pay"

\* Something goes wrong with these jobs, or nothing does.
Goes(operation, kinds) ==
    /\ operation \in Operations /\ mishaps < MaxMishaps
    /\ mishaps' = mishaps + 1
    /\ troubled' = troubled \cup (kinds \X {day})
Wrong(operation, p) == Goes(operation, {Kind(job[p].op)})
Well == UNCHANGED <<mishaps, troubled>>

-----------------------------------------------------------------------------
(* The timers, and the runs by hand.                                       *)

\* Mutant: the date that is billed is the one of the building.
BillingTimerOnLocalDate(p) ==
    /\ job[p] = Idle /\ due = {"bill"} /\ \A q \in Processes : ~job[q].timer
    /\ due' = {}
    /\ job' = [job EXCEPT ![p] = Run("bill", TRUE, FALSE, day)]
    /\ UNCHANGED <<Hostaway, Invoices, Payments, runs, doubt>> /\ Well

\* runBilling(), at 23:50: the run of 08:00 is over, and the date that is billed is the one in UTC.
BillingTimer(p) ==
    /\ job[p] = Idle /\ due = {"bill"} /\ \A q \in Processes : ~job[q].timer
    /\ due' = {}
    /\ job' = [job EXCEPT ![p] = Run("bill", TRUE, FALSE, day + Zone)]
    /\ UNCHANGED <<Hostaway, Invoices, Payments, runs, doubt>> /\ Well

\* runGeneration(): generation, reminders and notices, one after the other.
PaymentsTimer(p) ==
    /\ job[p] = Idle /\ "pay" \in due
    /\ due' = due \ {"pay"}
    /\ job' = [job EXCEPT ![p] = Run("generate", TRUE, FALSE, month)]
    /\ UNCHANGED <<Hostaway, Invoices, Payments, runs, doubt>> /\ Well

\* The process is not there at the hour: the timer is set for the next day.
Down ==
    /\ due # {}
    /\ Goes("down", due)
    /\ due' = {}
    /\ UNCHANGED <<Hostaway, Invoices, Payments, job, runs, doubt>>

\* POST /billing/run (a date without arrivals does nothing); POST /payments/generate,
\* /reminders and /overdue-notices.
ByHand(p) ==
    /\ job[p] = Idle /\ runs < MaxRuns
    /\ runs' = runs + 1
    /\ \/ \E r \in Reservations : job' = [job EXCEPT ![p] = Run("bill", FALSE, FALSE, booking[r].arrival)]
       \/ \E m \in Periods : job' = [job EXCEPT ![p] = Run("generate", FALSE, FALSE, m)]
       \/ \E m \in Periods, force \in BOOLEAN :
            job' = [job EXCEPT ![p] = Run("remind", FALSE, force, m)]
       \/ \E force \in BOOLEAN :
            job' = [job EXCEPT ![p] = Run("overdue", FALSE, force, month)]
    /\ UNCHANGED <<Hostaway, Invoices, Payments, due, doubt>> /\ Well

-----------------------------------------------------------------------------
(* Billing.                                                                *)

\* getReservationsByArrivalDate(): those paid, and not cancelled or only asked for.
Arrivals(p) ==
    /\ Is(p, "bill", "read")
    /\ job' = [job EXCEPT ![p] =
         Bills(job[p], "work", {r \in Reservations :
             Billable(booking[r]) /\ booking[r].arrival = job[p].date}, None, FALSE)]
    /\ UNCHANGED <<Hostaway, Invoices, Payments, Bounds, doubt>> /\ Well

\* Another run is between its look at the cards of r and its own card.
Underway(p, r) == \E q \in Processes \ {p} : job[q].at = r

\* Mutant: a failed attempt counts as none.
CheckInvoiced(p, r) ==
    /\ Is(p, "bill", "work") /\ r \in job[p].todo
    /\ job' = [job EXCEPT ![p] =
         IF "OK" \in cards[r] THEN Bills(@, "work", @.todo \ {r}, None, FALSE)
         ELSE Bills(@, "invoice", @.todo \ {r}, r, FALSE)]
    /\ doubt' = IF "OK" \notin cards[r] /\ Underway(p, r) THEN doubt \cup {r} ELSE doubt
    /\ UNCHANGED <<Hostaway, Invoices, Payments, Bounds>> /\ Well

\* checkAlreadyInvoiced(): any card will do, and a query that fails finds none.
Check(p, r) ==
    /\ Is(p, "bill", "work") /\ r \in job[p].todo
    /\ \E found \in BOOLEAN :
         /\ IF found = (cards[r] # {}) THEN Well ELSE ~found /\ Wrong("blind", p)
         /\ job' = [job EXCEPT ![p] =
              IF found THEN Bills(job[p], "work", job[p].todo \ {r}, None, FALSE)
              ELSE Bills(job[p], "invoice", job[p].todo \ {r}, r, FALSE)]
         /\ doubt' = IF ~found /\ (cards[r] # {} \/ Underway(p, r)) THEN doubt \cup {r} ELSE doubt
    /\ UNCHANGED <<Hostaway, Invoices, Payments, Bounds>>

\* Mutant: the failure is caught and forgotten.
InvoiceSwallows(p) ==
    LET r == job[p].at IN
    /\ Is(p, "bill", "invoice")
    /\ \E made \in BOOLEAN :
         /\ IF made THEN Well ELSE Wrong("fault", p)
         /\ invoices' = IF made THEN [invoices EXCEPT ![r] = @ + 1] ELSE invoices
         /\ job' = [job EXCEPT ![p] = Bills(job[p], "save", job[p].todo, r, FALSE)]
    /\ UNCHANGED <<Hostaway, Payments, Bounds, cards, unsure, doubt>>

\* createDocumento(): a failure is caught; the document may be there all the same.
Invoice(p) ==
    LET r == job[p].at IN
    /\ Is(p, "bill", "invoice")
    /\ \E made, bad \in BOOLEAN :
         /\ CASE made /\ ~bad -> Well
              [] made /\ bad -> Wrong("lost", p)
              [] OTHER -> bad /\ Wrong("fault", p)
         /\ invoices' = IF made THEN [invoices EXCEPT ![r] = @ + 1] ELSE invoices
         /\ unsure' = IF made /\ bad THEN unsure \cup {r} ELSE unsure
         /\ job' = [job EXCEPT ![p] = Bills(job[p], "save", job[p].todo, r, bad)]
    /\ UNCHANGED <<Hostaway, Payments, Bounds, cards, doubt>>

\* saveToOpenmaint(), whether there is an invoice or not; a card that openMAINT refuses is
\* only logged, and the run goes on with the next reservation.
Save(p) ==
    LET r == job[p].at IN
    /\ Is(p, "bill", "save")
    /\ \/ /\ cards' = [cards EXCEPT ![r] = @ \cup {IF job[p].bad THEN "ERROR" ELSE "OK"}]
          /\ UNCHANGED doubt /\ Well
       \/ /\ Wrong("fault", p) /\ UNCHANGED cards
          /\ doubt' = doubt \cup {r}
    /\ job' = [job EXCEPT ![p] = Bills(job[p], "work", job[p].todo, None, FALSE)]
    /\ UNCHANGED <<Hostaway, Payments, Bounds, invoices, unsure>>

-----------------------------------------------------------------------------
(* Payments: each part reads, works, and hands over to the next one.       *)

Following(op) ==
    CASE op = "generate" -> "remind" [] op = "remind" -> "overdue" [] OTHER -> "none"

\* What a run does when a part of it is over, well or not.
After(j) ==
    IF j.timer /\ Following(j.op) # "none" THEN Run(Following(j.op), TRUE, FALSE, j.date)
    ELSE Idle

\* Mutant: nothing is ever found.
ExistingNone(u, m) == FALSE

\* The cards of Pagos that the query returns: this version of openMAINT may
\* take the condition on the period and answer as if there was none.
Existing(u, m) ==
    \E k \in Periods : charges[<<u, k>>] > 0 /\ (CqlFilters => k = m)

\* generateMonthlyPayments() up to the list of units, on the day of emission only.
GenerateRead(p) ==
    LET m == job[p].date IN
    /\ Is(p, "generate", "read")
    /\ IF DayOfMonth # Emision
       THEN job' = [job EXCEPT ![p] = After(job[p])] /\ UNCHANGED doubt /\ Well
       ELSE \E units \in {Units, {u \in Units : ~Existing(u, m)}} :
              /\ IF \A u \in units : ~Existing(u, m) THEN Well ELSE Wrong("blind", p)
              /\ job' = [job EXCEPT ![p] = Pays(job[p], units, {})]
              /\ doubt' = doubt \cup
                   {<<u, m>> : u \in {v \in units :
                      \/ Existing(v, m)
                      \/ \E q \in Processes \ {p} : job[q].op = "generate" /\ job[q].date = m
                                                      /\ v \in job[q].create}}
    /\ UNCHANGED <<Hostaway, Invoices, Payments, Bounds>>

\* createPaymentCard() and, if there is an answer, a mail for the end.
Post(p, u) ==
    LET c == <<u, job[p].date>> IN
    /\ Is(p, "generate", "work") /\ u \in job[p].create
    /\ \E made, bad \in BOOLEAN :
         /\ CASE made /\ ~bad -> Well
              [] made /\ bad -> Wrong("lost", p)
              [] OTHER -> bad /\ Wrong("fault", p)
         /\ charges' = IF made THEN [charges EXCEPT ![c] = @ + 1] ELSE charges
         /\ since' = IF made /\ since[c] = 0 THEN [since EXCEPT ![c] = day] ELSE since
         /\ job' = [job EXCEPT ![p] =
              Pays(job[p], job[p].create \ {u}, IF bad THEN job[p].mail ELSE job[p].mail \cup {c})]
    /\ UNCHANGED <<Hostaway, Invoices, Bounds, settled, told, doubt>>

Pending == {c \in Concepts : charges[c] > 0 /\ c \notin settled}

\* Reads what is pending; a query that fails finds nothing.
Lists(p, concepts) ==
    /\ \/ job' = [job EXCEPT ![p] = Pays(job[p], {}, concepts)] /\ Well
       \/ concepts # {} /\ Wrong("blind", p) /\ job' = [job EXCEPT ![p] = After(job[p])]
    /\ UNCHANGED <<Hostaway, Invoices, Payments, Bounds, doubt>>

NotToday(p) ==
    /\ job' = [job EXCEPT ![p] = After(job[p])]
    /\ UNCHANGED <<Hostaway, Invoices, Payments, Bounds, doubt>> /\ Well

\* sendDueReminders(): all that is pending, of any period.
RemindRead(p) ==
    /\ Is(p, "remind", "read")
    /\ IF job[p].force \/ ReminderDay(job[p].date) THEN Lists(p, Pending) ELSE NotToday(p)

\* filterOverdue(): due before today.
Overdue == {c \in Pending : DueDate(c[2]) < day}

\* sendOverdueNotices()
OverdueRead(p) ==
    /\ Is(p, "overdue", "read")
    /\ IF job[p].force \/ DayOfMonth \in NoticeDays THEN Lists(p, Overdue) ELSE NotToday(p)

\* sendBulk(): one mail after the other; one that fails is not tried again.
Mail(p) ==
    /\ job[p].stage = "work" /\ job[p].create = {}
    /\ \E c \in job[p].mail :
         /\ \/ told' = told \cup {<<job[p].op, c>>} /\ Well
            \/ Wrong("fault", p) /\ UNCHANGED told
         /\ job' = [job EXCEPT ![p] = Pays(job[p], {}, job[p].mail \ {c})]
    /\ UNCHANGED <<Hostaway, Invoices, Bounds, charges, settled, since, doubt>>

-----------------------------------------------------------------------------
(* The end of a run, well or not, and the world.                           *)

Ends(p) ==
    /\ job[p].op # "none" /\ job[p].stage = "work"
    /\ job[p].todo = {} /\ job[p].create = {} /\ job[p].mail = {}
    /\ job' = [job EXCEPT ![p] = After(job[p])]
    /\ UNCHANGED <<Hostaway, Invoices, Payments, Bounds, doubt>> /\ Well

\* Hostaway, the session, the configuration or the list of units cannot be had.
Fails(p) ==
    /\ job[p].op # "none" /\ job[p].stage = "read"
    /\ Wrong("fault", p)
    /\ job' = [job EXCEPT ![p] = After(job[p])]
    /\ UNCHANGED <<Hostaway, Invoices, Payments, Bounds, doubt>>

\* The runs under way are lost; an invoice may be left without its card.
Crash ==
    /\ \E p \in Processes : job[p] # Idle
    /\ Goes("crash", {Kind(job[p].op) : p \in {q \in Processes : job[q] # Idle}})
    /\ doubt' = doubt \cup {job[p].at : p \in {q \in Processes : job[q].stage = "save"}}
    /\ job' = [p \in Processes |-> Idle]
    /\ UNCHANGED <<Hostaway, Invoices, Payments, Bounds>>

\* External: a guest pays or is paid back, the reservation is cancelled or comes
\* back, or its dates move.
Rebook(r, b) ==
    /\ changes < MaxChanges /\ changes' = changes + 1
    /\ b # booking[r] /\ booking' = [booking EXCEPT ![r] = b]
    /\ ready' = [ready EXCEPT ![r] = IF Billable(b) THEN day ELSE 0]
    /\ UNCHANGED <<day, month, Invoices, Payments, Bounds, job, doubt>> /\ Well

OwnerPays(c) ==
    /\ c \in Pending /\ settled' = settled \cup {c}
    /\ UNCHANGED <<Hostaway, Invoices, Bounds, charges, told, since, job, doubt>> /\ Well

\* A run takes less than the rest of the day.
NextDay ==
    /\ day < Last /\ due = {} /\ \A p \in Processes : job[p] = Idle
    /\ day' = day + 1
    /\ month' = IF day + 1 = Start[month + 1] THEN month + 1 ELSE month
    /\ due' = {"bill", "pay"}
    /\ UNCHANGED <<booking, ready, changes, Invoices, Payments, job, runs, doubt>> /\ Well

Next ==
    \/ \E p \in Processes :
         \/ BillingTimer(p) \/ PaymentsTimer(p) \/ ByHand(p)
         \/ Arrivals(p) \/ Invoice(p) \/ Save(p) \/ GenerateRead(p) \/ RemindRead(p)
         \/ OverdueRead(p) \/ Mail(p) \/ Ends(p) \/ Fails(p)
         \/ \E r \in Reservations : Check(p, r)
         \/ \E u \in Units : Post(p, u)
    \/ Down \/ Crash \/ NextDay
    \/ \E r \in Reservations, b \in Booking : Rebook(r, b)
    \/ \E c \in Concepts : OwnerPays(c)

Spec == Init /\ [][Next]_vars

-----------------------------------------------------------------------------
(* Properties.                                                             *)

\* Types: a run is at a reservation exactly while it invoices it, billing has
\* no mails, and payments are of a period.
TypeOK ==
    /\ month \in Periods /\ day \in Start[month]..Start[month + 1] - 1
    /\ due \subseteq {"bill", "pay"}
    /\ booking \in [Reservations -> Booking] /\ ready \in [Reservations -> Nat]
    /\ invoices \in [Reservations -> Nat]
    /\ cards \in [Reservations -> SUBSET {"OK", "ERROR"}]
    /\ charges \in [Concepts -> Nat] /\ since \in [Concepts -> Nat]
    /\ settled \subseteq Concepts
    /\ told \subseteq {"generate", "remind", "overdue"} \X Concepts
    /\ job \in [Processes -> Job]
    /\ \A p \in Processes : job[p].at # None <=> job[p].stage \in {"invoice", "save"}
    /\ \A p \in Processes : IF job[p].op \in {"none", "bill"} THEN job[p].mail = {}
                             ELSE job[p].date \in Periods
    /\ runs \in 0..MaxRuns /\ changes \in 0..MaxChanges /\ mishaps \in 0..MaxMishaps
    /\ doubt \subseteq Reservations \cup Concepts /\ unsure \subseteq Reservations
    /\ troubled \subseteq {"bill", "pay"} \X Nat

\* A reservation has one invoice, however many runs of the same or of another day saw it,
\* an attempt that failed included: unless two runs were at it at once, the check failed, or
\* its card was lost.
InvoicedOnce == \A r \in Reservations \ doubt : invoices[r] <= 1

\* When no run is at a reservation, openMAINT tells what Contifico has, unless an answer was lost.
BooksAgree ==
    \A r \in Reservations \ (doubt \cup unsure) :
      (\A p \in Processes : job[p].at # r)
        => (invoices[r] = 1 <=> "OK" \in cards[r])

\* A reservation that was paid, stood and had its date of arrival before the day of its
\* billing, and still does, has a card the day after, unless something went wrong in that
\* billing.  (No other run is sure to look at it.)
PaidIsBilled ==
    \A r \in Reservations :
      LET on == booking[r].arrival - Zone IN
      ready[r] # 0 /\ ready[r] < on /\ day > on /\ <<"bill", on>> \notin troubled
        => cards[r] # {}

\* A unit is charged once for a period, unless two generations of it overlapped or the list of
\* payments could not be read.
ChargedOnce == \A c \in Concepts \ doubt : charges[c] <= 1

\* Emission of a month that went well, and is over.
Emitted(m) ==
    LET on == Start[m] + Emision - 1 IN
    Emision \in 1..Start[m + 1] - Start[m] /\ day > on /\ <<"pay", on>> \notin troubled

\* What DiaEmision is for (docs, notificaciones-de-pagos.md:145): every unit is charged
\* every month that has a day of emission, unless something went wrong on that day.
EveryMonthCharged ==
    \A u \in Units, m \in Periods : Emitted(m) => charges[<<u, m>>] > 0

\* What is left of it where the condition on the period is not heeded: only a unit that
\* had a payment already, of whatever month, may go uncharged on a day of emission.
UnchargedHadOne ==
    \A u \in Units, m \in Periods :
      Emitted(m) => \/ charges[<<u, m>>] > 0
                    \/ \E k \in Periods : since[<<u, k>>] \in 1..Start[m] + Emision - 1

\* The owner of a payment that was there before the eve of its due date, and
\* is still pending, has been reminded when that date comes, unless something
\* went wrong on the eve.  The eve has to be in the month of the payment: no timer
\* looks for another one.
RemindedBeforeDue ==
    \A c \in Pending :
      LET m == c[2]  eve == DueDate(m) - 1 IN
      /\ Start[m] <= eve /\ eve < Start[m + 1]
      /\ since[c] < eve /\ day = eve + 1 /\ <<"pay", eve>> \notin troubled
      => <<"remind", c>> \in told

=============================================================================
