---------------------------- MODULE ChargesProofs ----------------------------
(***************************************************************************)
(* For any number of overlapping runs, reservations, units and months, and *)
(* any failures: nothing is charged twice without a cause that is named,   *)
(* and a day without trouble is enough for what a timer has to do on it.   *)
(***************************************************************************)
EXTENDS Charges, TLAPS

-----------------------------------------------------------------------------
(* Types.                                                                  *)

Ops == {"none", "bill", "generate", "remind", "overdue"}

\* What TypeOK asks of a run.
Fits(j) ==
    /\ j \in Job
    /\ j.at # None <=> j.stage \in {"invoice", "save"}
    /\ IF j.op \in {"none", "bill"} THEN j.mail = {} ELSE j.date \in Periods

CardSets == [Reservations -> SUBSET {"OK", "ERROR"}]

LEMMA TypeGives ==
    ASSUME TypeOK
    PROVE  /\ month \in Periods /\ day \in Start[month]..Start[month + 1] - 1
           /\ due \subseteq {"bill", "pay"}
           /\ booking \in [Reservations -> Booking] /\ ready \in [Reservations -> Nat]
           /\ invoices \in [Reservations -> Nat] /\ cards \in CardSets
           /\ charges \in [Concepts -> Nat] /\ since \in [Concepts -> Nat]
           /\ settled \subseteq Concepts
           /\ told \subseteq {"generate", "remind", "overdue"} \X Concepts
           /\ job \in [Processes -> Job] /\ \A p \in Processes : Fits(job[p])
           /\ runs \in 0..MaxRuns /\ changes \in 0..MaxChanges /\ mishaps \in 0..MaxMishaps
           /\ doubt \subseteq Reservations \cup Concepts /\ unsure \subseteq Reservations
           /\ troubled \subseteq {"bill", "pay"} \X Nat
  BY DEF TypeOK, Fits, CardSets

LEMMA TypeParts ==
    ASSUME month' \in Periods, day' \in Start[month']..Start[month' + 1] - 1,
           due' \subseteq {"bill", "pay"},
           booking' \in [Reservations -> Booking], ready' \in [Reservations -> Nat],
           invoices' \in [Reservations -> Nat], cards' \in CardSets,
           charges' \in [Concepts -> Nat], since' \in [Concepts -> Nat],
           settled' \subseteq Concepts,
           told' \subseteq {"generate", "remind", "overdue"} \X Concepts,
           job' \in [Processes -> Job], \A p \in Processes : Fits(job'[p]),
           runs' \in 0..MaxRuns, changes' \in 0..MaxChanges, mishaps' \in 0..MaxMishaps,
           doubt' \subseteq Reservations \cup Concepts, unsure' \subseteq Reservations,
           troubled' \subseteq {"bill", "pay"} \X Nat
    PROVE  TypeOK'
  BY DEF TypeOK, Fits, CardSets

LEMMA Calendar ==
    /\ Len(Start) \in Nat /\ Len(Start) > 1
    /\ \A m \in 1..Len(Start) : Start[m] \in Nat \ {0}
    /\ \A m \in Periods : m \in Nat /\ m + 1 \in 1..Len(Start) /\ Start[m] < Start[m + 1]
  BY StartAssumption DEF Periods

LEMMA DayType ==
    ASSUME TypeOK
    PROVE  day \in Nat /\ month \in Nat
<1>1. month \in Periods /\ day \in Start[month]..Start[month + 1] - 1
  BY TypeGives
<1>2. month \in Nat /\ Start[month] \in Nat /\ Start[month + 1] \in Nat
  BY <1>1, Calendar DEF Periods
<1> QED  BY <1>1, <1>2

\* The dates of arrival are days.
LEMMA DateType ==
    ASSUME TypeOK, NEW r \in Reservations
    PROVE  booking[r] \in Booking /\ booking[r].arrival \in Nat /\ Zone \in Nat
<1>1. booking[r] \in Booking
  BY TypeGives
<1>2. booking[r].arrival \in ArrivalDates
  BY <1>1 DEF Booking
<1> QED  BY <1>1, <1>2, ArrivalAssumption

LEMMA RunFits ==
    ASSUME NEW op \in Ops, NEW timer \in BOOLEAN, NEW force \in BOOLEAN, NEW date \in Nat,
           op \notin {"none", "bill"} => date \in Periods
    PROVE  /\ Fits(Run(op, timer, force, date))
           /\ Run(op, timer, force, date).at = None /\ Run(op, timer, force, date).create = {}
  BY NoneAssumption DEF Run, Fits, Job, Ops

LEMMA IdleFits == Fits(Idle) /\ Idle.at = None /\ Idle.create = {} /\ Idle.op = "none"
  BY DEF Idle, Fits, Job

LEMMA BillsFits ==
    ASSUME NEW j, j \in Job, NEW stage \in {"work", "invoice", "save"},
           NEW todo \in SUBSET Reservations,
           NEW r \in Reservations \cup {None}, NEW bad \in BOOLEAN,
           j.op \in {"none", "bill"},
           r # None <=> stage \in {"invoice", "save"}
    PROVE  /\ Fits(Bills(j, stage, todo, r, bad))
           /\ Bills(j, stage, todo, r, bad).at = r
           /\ Bills(j, stage, todo, r, bad).stage = stage
           /\ Bills(j, stage, todo, r, bad).bad = bad
           /\ Bills(j, stage, todo, r, bad).op = j.op
           /\ Bills(j, stage, todo, r, bad).create = {}
  BY DEF Bills, Fits, Job

LEMMA PaysFits ==
    ASSUME NEW j, Fits(j), j.op \notin {"none", "bill"}, NEW create \in SUBSET Units,
           NEW mail \in SUBSET Concepts
    PROVE  /\ Fits(Pays(j, create, mail))
           /\ Pays(j, create, mail).at = None
           /\ Pays(j, create, mail).op = j.op /\ Pays(j, create, mail).date = j.date
           /\ Pays(j, create, mail).create = create
  BY DEF Pays, Fits, Job

LEMMA AfterFits ==
    ASSUME NEW j, Fits(j)
    PROVE  /\ Fits(After(j)) /\ After(j).at = None /\ After(j).create = {}
  <1>1. /\ Following(j.op) \in Ops /\ j.date \in Nat
        /\ Following(j.op) # "none" => j.date \in Periods
    BY DEF Following, Fits, Job, Ops
  <1> QED BY <1>1, RunFits, IdleFits DEF After

\* A run turns into j, and the others stay as they are.
Turns(p, j) == job' = [job EXCEPT ![p] = j]

LEMMA TurnsType ==
    ASSUME TypeOK, NEW p \in Processes, NEW j, Fits(j), Turns(p, j)
    PROVE  /\ job' \in [Processes -> Job] /\ \A q \in Processes : Fits(job'[q])
           /\ job'[p] = j /\ \A q \in Processes : q # p => job'[q] = job[q]
  BY TypeGives DEF Turns, Fits

\* The same, for a run of billing.
LEMMA BillsType ==
    ASSUME TypeOK, NEW p \in Processes, NEW stage \in {"work", "invoice", "save"},
           NEW todo \in SUBSET Reservations,
           NEW r \in Reservations \cup {None}, NEW bad \in BOOLEAN,
           job[p].op = "bill", r # None <=> stage \in {"invoice", "save"},
           Turns(p, Bills(job[p], stage, todo, r, bad))
    PROVE  /\ job' \in [Processes -> Job] /\ \A q \in Processes : Fits(job'[q])
           /\ job'[p].at = r /\ job'[p].stage = stage /\ job'[p].bad = bad
           /\ job'[p].create = {}
           /\ \A q \in Processes : q # p => job'[q] = job[q]
  <1> DEFINE j == Bills(job[p], stage, todo, r, bad)
  <1>1. job[p] \in Job
    BY TypeGives
  <1>2. Fits(j) /\ j.at = r /\ j.stage = stage /\ j.bad = bad /\ j.create = {}
    BY <1>1 DEF Bills, Fits, Job
  <1>3. Turns(p, j)
    OBVIOUS
  <1> HIDE DEF j
  <1> QED BY <1>2, <1>3, TurnsType

\* The same, for a run of payments.
LEMMA PaysType ==
    ASSUME TypeOK, NEW p \in Processes, job[p].op \notin {"none", "bill"},
           NEW create \in SUBSET Units, NEW mail \in SUBSET Concepts,
           Turns(p, Pays(job[p], create, mail))
    PROVE  /\ job' \in [Processes -> Job] /\ \A q \in Processes : Fits(job'[q])
           /\ job'[p].at = None /\ job'[p].create = create
           /\ job'[p].op = job[p].op /\ job'[p].date = job[p].date
           /\ \A q \in Processes : q # p => job'[q] = job[q]
  <1> DEFINE j == Pays(job[p], create, mail)
  <1>1. Fits(job[p])
    BY TypeGives
  <1>2. Fits(j) /\ j.at = None /\ j.create = create /\ j.op = job[p].op /\ j.date = job[p].date
    BY <1>1, PaysFits
  <1>3. Turns(p, j)
    OBVIOUS
  <1> HIDE DEF j
  <1> QED BY <1>2, <1>3, TurnsType

\* A part of a run ends.
LEMMA AfterType ==
    ASSUME TypeOK, NEW p \in Processes, Turns(p, After(job[p]))
    PROVE  /\ job' \in [Processes -> Job] /\ \A q \in Processes : Fits(job'[q])
           /\ job'[p].at = None /\ job'[p].create = {}
           /\ \A q \in Processes : q # p => job'[q] = job[q]
  <1>1. Fits(After(job[p])) /\ After(job[p]).at = None /\ After(job[p]).create = {}
    BY TypeGives, AfterFits
  <1> QED BY <1>1, TurnsType

LEMMA GoesType ==
    ASSUME TypeOK, NEW operation, NEW kinds \in SUBSET {"bill", "pay"}, Goes(operation, kinds)
    PROVE  mishaps' \in 0..MaxMishaps /\ troubled' \subseteq {"bill", "pay"} \X Nat
  <1>1. mishaps \in 0..MaxMishaps /\ mishaps < MaxMishaps /\ mishaps' = mishaps + 1
    BY TypeGives DEF Goes
  <1>2. kinds \X {day} \subseteq {"bill", "pay"} \X Nat
    BY DayType
  <1> QED BY <1>1, <1>2, TypeGives, MaxAssumption DEF Goes

LEMMA WellOrWrong ==
    ASSUME TypeOK, NEW p \in Processes, NEW operation, Well \/ Wrong(operation, p)
    PROVE  mishaps' \in 0..MaxMishaps /\ troubled' \subseteq {"bill", "pay"} \X Nat
  <1>1. {Kind(job[p].op)} \in SUBSET {"bill", "pay"}
    BY DEF Kind
  <1> QED BY <1>1, GoesType, TypeGives DEF Well, Wrong

-----------------------------------------------------------------------------
(* Types, action by action.                                                *)

Frame == <<Hostaway, Invoices, Payments, Bounds>>

\* A step that changes the runs and the history, and nothing else.
LEMMA FrameType ==
    ASSUME TypeOK, UNCHANGED Frame, job' \in [Processes -> Job],
           \A q \in Processes : Fits(job'[q]), doubt' \subseteq Reservations \cup Concepts,
           mishaps' \in 0..MaxMishaps, troubled' \subseteq {"bill", "pay"} \X Nat
    PROVE  TypeOK'
  BY TypeGives, TypeParts DEF Frame, Hostaway, Invoices, Payments, Bounds

LEMMA TimersType ==
    ASSUME TypeOK, NEW p \in Processes, BillingTimer(p) \/ PaymentsTimer(p) \/ ByHand(p)
    PROVE  TypeOK'
  <1>1. PICK op \in Ops, timer \in BOOLEAN, force \in BOOLEAN, date \in Nat :
            /\ Turns(p, Run(op, timer, force, date))
            /\ op \notin {"none", "bill"} => date \in Periods
    <2>1. CASE BillingTimer(p)
      <3>1. day + Zone \in Nat
        BY DayType, ArrivalAssumption
      <3> QED BY <2>1, <3>1 DEF BillingTimer, Turns, Ops
    <2>2. CASE PaymentsTimer(p)
      BY <2>2, DayType, TypeGives DEF PaymentsTimer, Turns, Ops
    <2>3. CASE ByHand(p)
      <3>1. Periods \subseteq Nat
        BY Calendar
      <3> QED BY <2>3, <3>1, DayType, DateType, TypeGives DEF ByHand, Turns, Ops
    <2> QED BY <2>1, <2>2, <2>3
  <1>2. job' \in [Processes -> Job] /\ \A q \in Processes : Fits(job'[q])
    BY <1>1, RunFits, TurnsType
  <1>3. runs' \in 0..MaxRuns /\ due' \subseteq {"bill", "pay"}
    <2>1. runs \in 0..MaxRuns /\ due \subseteq {"bill", "pay"}
      BY TypeGives
    <2>2. CASE BillingTimer(p) \/ PaymentsTimer(p)
      BY <2>1, <2>2 DEF BillingTimer, PaymentsTimer
    <2>3. CASE ByHand(p)
      <3>1. runs < MaxRuns /\ runs' = runs + 1 /\ due' = due
        BY <2>3 DEF ByHand
      <3> QED BY <2>1, <3>1, MaxAssumption
    <2> QED BY <2>2, <2>3
  <1>4. UNCHANGED <<Hostaway, Invoices, Payments, doubt, mishaps, troubled>>
    BY DEF BillingTimer, PaymentsTimer, ByHand, Well
  <1> QED BY <1>2, <1>3, <1>4, TypeGives, TypeParts DEF Hostaway, Invoices, Payments

LEMMA ArrivalsType ==
    ASSUME TypeOK, NEW p \in Processes, Arrivals(p)
    PROVE  /\ TypeOK' /\ job'[p].at = None /\ job'[p].create = {}
           /\ \A q \in Processes : q # p => job'[q] = job[q]
  <1>1. PICK todo \in SUBSET Reservations : Turns(p, Bills(job[p], "work", todo, None, FALSE))
    BY DEF Arrivals, Turns
  <1>0. job[p].op = "bill"
    BY DEF Arrivals, Is
  <1>2. /\ job' \in [Processes -> Job] /\ \A q \in Processes : Fits(job'[q])
        /\ job'[p].at = None /\ job'[p].create = {}
        /\ \A q \in Processes : q # p => job'[q] = job[q]
    BY <1>0, <1>1, BillsType
  <1> QED BY <1>2, FrameType, TypeGives DEF Arrivals, Frame, Well

LEMMA CheckType ==
    ASSUME TypeOK, NEW p \in Processes, NEW r \in Reservations, Check(p, r)
    PROVE  /\ TypeOK' /\ job'[p].create = {}
           /\ \/ job'[p].at = None /\ UNCHANGED doubt
              \/ /\ job'[p].at = r /\ job'[p].stage = "invoice"
                 /\ doubt' = IF cards[r] # {} \/ Underway(p, r) THEN doubt \cup {r} ELSE doubt
           /\ \A q \in Processes : q # p => job'[q] = job[q]
  <1>1. PICK found \in BOOLEAN :
            /\ Well \/ Wrong("blind", p)
            /\ Turns(p, IF found THEN Bills(job[p], "work", job[p].todo \ {r}, None, FALSE)
                        ELSE Bills(job[p], "invoice", job[p].todo \ {r}, r, FALSE))
            /\ doubt' = IF ~found /\ (cards[r] # {} \/ Underway(p, r)) THEN doubt \cup {r}
                        ELSE doubt
    BY DEF Check, Turns
  <1>2. job[p] \in Job /\ job[p].todo \ {r} \in SUBSET Reservations /\ r # None
        /\ job[p].op = "bill"
    BY TypeGives, NoneAssumption DEF Job, Check, Is
  <1>3. /\ job' \in [Processes -> Job] /\ \A q \in Processes : Fits(job'[q])
        /\ job'[p].create = {}
        /\ IF found THEN job'[p].at = None ELSE job'[p].at = r /\ job'[p].stage = "invoice"
        /\ \A q \in Processes : q # p => job'[q] = job[q]
    <2>1. CASE found
      BY <1>1, <1>2, <2>1, BillsType
    <2>2. CASE ~found
      <3>1. Turns(p, Bills(job[p], "invoice", job[p].todo \ {r}, r, FALSE))
        BY <1>1, <2>2
      <3>2. r \in Reservations \cup {None} /\ (r # None <=> "invoice" \in {"invoice", "save"})
        BY <1>2
      <3>3. "invoice" \in {"work", "invoice", "save"} /\ FALSE \in BOOLEAN
        OBVIOUS
      <3>4. /\ job' \in [Processes -> Job] /\ \A q \in Processes : Fits(job'[q])
            /\ job'[p].at = r /\ job'[p].stage = "invoice" /\ job'[p].create = {}
            /\ \A q \in Processes : q # p => job'[q] = job[q]
        BY <1>2, <3>1, <3>2, <3>3, BillsType
      <3> QED BY <2>2, <3>4
    <2> QED BY <2>1, <2>2
  <1>4. doubt' \subseteq Reservations \cup Concepts
    BY <1>1, TypeGives
  <1>5. TypeOK'
    BY <1>1, <1>3, <1>4, WellOrWrong, FrameType DEF Check, Frame
  <1> QED BY <1>1, <1>3, <1>5

LEMMA InvoiceType ==
    ASSUME TypeOK, NEW p \in Processes, Invoice(p)
    PROVE  LET r == job[p].at IN
           /\ TypeOK' /\ r \in Reservations
           /\ job'[p].create = {} /\ job'[p].at = r /\ job'[p].stage = "save"
           /\ \A q \in Processes : q # p => job'[q] = job[q]
           /\ \E made, bad \in BOOLEAN :
                /\ made \/ bad
                /\ invoices' = IF made THEN [invoices EXCEPT ![r] = @ + 1] ELSE invoices
                /\ unsure' = IF made /\ bad THEN unsure \cup {r} ELSE unsure
                /\ job'[p].bad = bad
  <1> DEFINE r == job[p].at
  <1>1. PICK made \in BOOLEAN, bad \in BOOLEAN :
            /\ made \/ bad
            /\ Well \/ Wrong("lost", p) \/ Wrong("fault", p)
            /\ invoices' = IF made THEN [invoices EXCEPT ![r] = @ + 1] ELSE invoices
            /\ unsure' = IF made /\ bad THEN unsure \cup {r} ELSE unsure
            /\ Turns(p, Bills(job[p], "save", job[p].todo, r, bad))
    BY DEF Invoice, Turns
  <1>2. job[p] \in Job /\ job[p].todo \in SUBSET Reservations /\ r \in Reservations
        /\ job[p].op = "bill"
    BY TypeGives DEF Job, Fits, Invoice, Is
  <1>3. /\ job' \in [Processes -> Job] /\ \A q \in Processes : Fits(job'[q])
        /\ job'[p].create = {} /\ job'[p].at = r /\ job'[p].stage = "save" /\ job'[p].bad = bad
        /\ \A q \in Processes : q # p => job'[q] = job[q]
    <2>1. r \in Reservations \cup {None} /\ (r # None <=> "save" \in {"invoice", "save"})
      BY <1>2, NoneAssumption
    <2>2. "save" \in {"work", "invoice", "save"}
      OBVIOUS
    <2>3. Turns(p, Bills(job[p], "save", job[p].todo, r, bad))
      BY <1>1
    <2> QED BY <1>2, <2>1, <2>2, <2>3, BillsType
  <1>4. invoices' \in [Reservations -> Nat] /\ unsure' \subseteq Reservations
    BY <1>1, <1>2, TypeGives
  <1>5. mishaps' \in 0..MaxMishaps /\ troubled' \subseteq {"bill", "pay"} \X Nat
    BY <1>1, WellOrWrong
  <1>6. UNCHANGED <<Hostaway, Payments, Bounds, cards, doubt>>
    BY DEF Invoice
  <1>7. TypeOK'
    BY <1>3, <1>4, <1>5, <1>6, TypeGives, TypeParts DEF Hostaway, Payments, Bounds
  <1> QED BY <1>1, <1>2, <1>3, <1>7

LEMMA SaveType ==
    ASSUME TypeOK, NEW p \in Processes, Save(p)
    PROVE  LET r == job[p].at IN
           /\ TypeOK' /\ r \in Reservations
           /\ job'[p].create = {} /\ job'[p].at = None
           /\ \A q \in Processes : q # p => job'[q] = job[q]
           /\ \/ /\ cards' = [cards EXCEPT ![r] = @ \cup {IF job[p].bad THEN "ERROR" ELSE "OK"}]
                 /\ UNCHANGED doubt
              \/ UNCHANGED cards /\ doubt' = doubt \cup {r}
  <1> DEFINE r == job[p].at
  <1>1. /\ \/ /\ cards' = [cards EXCEPT ![r] = @ \cup {IF job[p].bad THEN "ERROR" ELSE "OK"}]
              /\ UNCHANGED doubt /\ Well
           \/ Wrong("fault", p) /\ UNCHANGED cards /\ doubt' = doubt \cup {r}
        /\ Turns(p, Bills(job[p], "work", job[p].todo, None, FALSE))
    BY DEF Save, Turns
  <1>2. job[p] \in Job /\ job[p].todo \in SUBSET Reservations /\ r \in Reservations
        /\ job[p].op = "bill"
    BY TypeGives DEF Job, Fits, Save, Is
  <1>3. /\ job' \in [Processes -> Job] /\ \A q \in Processes : Fits(job'[q])
        /\ job'[p].create = {} /\ job'[p].at = None
        /\ \A q \in Processes : q # p => job'[q] = job[q]
    BY <1>1, <1>2, BillsType
  <1>4. cards' \in CardSets /\ doubt' \subseteq Reservations \cup Concepts
    BY <1>1, <1>2, TypeGives DEF CardSets
  <1>5. mishaps' \in 0..MaxMishaps /\ troubled' \subseteq {"bill", "pay"} \X Nat
    BY <1>1, WellOrWrong
  <1>6. UNCHANGED <<Hostaway, Payments, Bounds, invoices, unsure>>
    BY DEF Save
  <1>7. TypeOK'
    BY <1>3, <1>4, <1>5, <1>6, TypeGives, TypeParts DEF Hostaway, Payments, Bounds
  <1> QED BY <1>1, <1>2, <1>3, <1>7

\* What a step of payments does to the runs: it creates nothing new, and is at no
\* reservation.
Quiet(p) ==
    /\ job'[p].at = None /\ job'[p].create = {}
    /\ \A q \in Processes : q # p => job'[q] = job[q]

LEMMA GenerateReadType ==
    ASSUME TypeOK, NEW p \in Processes, GenerateRead(p)
    PROVE  /\ TypeOK' /\ job'[p].at = None
           /\ \A q \in Processes : q # p => job'[q] = job[q]
           /\ \/ job'[p].create = {} /\ UNCHANGED doubt
              \/ LET m == job[p].date IN
                 /\ job'[p].op = "generate" /\ job'[p].date = m
                 /\ doubt' = doubt \cup
                      {<<u, m>> : u \in {v \in job'[p].create :
                         \/ Existing(v, m)
                         \/ \E q \in Processes \ {p} : job[q].op = "generate" /\ job[q].date = m
                                                         /\ v \in job[q].create}}
           /\ doubt \subseteq doubt'
  <1>1. CASE DayOfMonth # Emision
    <2>1. Turns(p, After(job[p])) /\ UNCHANGED doubt /\ Well
      BY <1>1 DEF GenerateRead, Turns
    <2> QED BY <2>1, AfterType, FrameType, TypeGives DEF GenerateRead, Frame, Well
  <1>2. CASE DayOfMonth = Emision
    <2> DEFINE m == job[p].date
    <2>1. PICK units \in {Units, {u \in Units : ~Existing(u, m)}} :
              /\ Well \/ Wrong("blind", p)
              /\ Turns(p, Pays(job[p], units, {}))
              /\ doubt' = doubt \cup
                   {<<u, m>> : u \in {v \in units :
                      \/ Existing(v, m)
                      \/ \E q \in Processes \ {p} : job[q].op = "generate" /\ job[q].date = m
                                                      /\ v \in job[q].create}}
      BY <1>2 DEF GenerateRead, Turns
    <2>2. units \in SUBSET Units /\ job[p].op = "generate" /\ {} \in SUBSET Concepts
      BY <2>1 DEF GenerateRead, Is
    <2>3. /\ job' \in [Processes -> Job] /\ \A q \in Processes : Fits(job'[q])
          /\ job'[p].at = None /\ job'[p].create = units
          /\ job'[p].op = "generate" /\ job'[p].date = m
          /\ \A q \in Processes : q # p => job'[q] = job[q]
      BY <2>1, <2>2, PaysType
    <2>4. \A u \in units : <<u, m>> \in Reservations \cup Concepts
      BY <2>2, TypeGives DEF Fits, Concepts
    <2>5. doubt' \subseteq Reservations \cup Concepts
      BY <2>1, <2>4, TypeGives
    <2>6. TypeOK'
      BY <2>1, <2>3, <2>5, WellOrWrong, FrameType DEF GenerateRead, Frame
    <2> QED BY <2>1, <2>3, <2>6
  <1> QED BY <1>1, <1>2

LEMMA PostType ==
    ASSUME TypeOK, NEW p \in Processes, NEW u \in Units, Post(p, u)
    PROVE  LET c == <<u, job[p].date>> IN
           /\ TypeOK' /\ job[p].op = "generate" /\ u \in job[p].create
           /\ job'[p].at = None /\ job'[p].create = job[p].create \ {u}
           /\ job'[p].op = "generate" /\ job'[p].date = job[p].date
           /\ \A q \in Processes : q # p => job'[q] = job[q]
           /\ charges' = charges \/ charges' = [charges EXCEPT ![c] = @ + 1]
           /\ UNCHANGED <<Invoices, doubt>>
  <1> DEFINE c == <<u, job[p].date>>
  <1>1. PICK made \in BOOLEAN, bad \in BOOLEAN :
            /\ Well \/ Wrong("lost", p) \/ Wrong("fault", p)
            /\ charges' = IF made THEN [charges EXCEPT ![c] = @ + 1] ELSE charges
            /\ since' = IF made /\ since[c] = 0 THEN [since EXCEPT ![c] = day] ELSE since
            /\ Turns(p, Pays(job[p], job[p].create \ {u},
                             IF bad THEN job[p].mail ELSE job[p].mail \cup {c}))
    BY DEF Post, Turns
  <1>2. /\ job[p] \in Job /\ c \in Concepts /\ job[p].op = "generate" /\ u \in job[p].create
    BY TypeGives DEF Job, Fits, Post, Is, Concepts
  <1>3. PICK mail \in SUBSET Concepts : Turns(p, Pays(job[p], job[p].create \ {u}, mail))
    BY <1>1, <1>2 DEF Job
  <1>4. job[p].create \ {u} \in SUBSET Units
    BY <1>2 DEF Job
  <1>5. /\ job' \in [Processes -> Job] /\ \A q \in Processes : Fits(job'[q])
        /\ job'[p].at = None /\ job'[p].create = job[p].create \ {u}
        /\ job'[p].op = "generate" /\ job'[p].date = job[p].date
        /\ \A q \in Processes : q # p => job'[q] = job[q]
    BY <1>2, <1>3, <1>4, PaysType
  <1>6. charges' \in [Concepts -> Nat] /\ since' \in [Concepts -> Nat]
    BY <1>1, <1>2, TypeGives, DayType
  <1>7. mishaps' \in 0..MaxMishaps /\ troubled' \subseteq {"bill", "pay"} \X Nat
    BY <1>1, WellOrWrong
  <1>8. UNCHANGED <<Hostaway, Invoices, Bounds, settled, told, doubt>>
    BY DEF Post
  <1>9. TypeOK'
    BY <1>5, <1>6, <1>7, <1>8, TypeGives, TypeParts DEF Hostaway, Invoices, Bounds
  <1> QED BY <1>1, <1>2, <1>5, <1>8, <1>9

LEMMA ListsType ==
    ASSUME TypeOK, NEW p \in Processes, job[p].op \notin {"none", "bill"},
           NEW concepts \in SUBSET Concepts, Lists(p, concepts)
    PROVE  TypeOK' /\ Quiet(p)
  <1>1. CASE Turns(p, Pays(job[p], {}, concepts)) /\ Well
    <2>1. {} \in SUBSET Units
      OBVIOUS
    <2>2. /\ job' \in [Processes -> Job] /\ \A q \in Processes : Fits(job'[q])
          /\ Quiet(p)
      BY <1>1, <2>1, PaysType DEF Quiet
    <2> QED BY <1>1, <2>2, FrameType, TypeGives DEF Lists, Frame, Well
  <1>2. CASE Turns(p, After(job[p])) /\ Wrong("blind", p)
    BY <1>2, AfterType, WellOrWrong, FrameType, TypeGives DEF Lists, Frame, Quiet
  <1> QED BY <1>1, <1>2 DEF Lists, Turns

LEMMA PendingType == Pending \in SUBSET Concepts /\ Overdue \in SUBSET Concepts
  BY DEF Pending, Overdue

LEMMA ReadType ==
    ASSUME TypeOK, NEW p \in Processes, RemindRead(p) \/ OverdueRead(p)
    PROVE  TypeOK' /\ Quiet(p)
  <1>1. job[p].op \notin {"none", "bill"}
    BY DEF RemindRead, OverdueRead, Is
  <1>2. CASE Lists(p, Pending) \/ Lists(p, Overdue)
    BY <1>1, <1>2, ListsType, PendingType
  <1>3. CASE NotToday(p)
    BY <1>3, AfterType, FrameType, TypeGives DEF NotToday, Turns, Frame, Quiet, Well
  <1> QED BY <1>2, <1>3 DEF RemindRead, OverdueRead

LEMMA MailType ==
    ASSUME TypeOK, NEW p \in Processes, Mail(p)
    PROVE  TypeOK' /\ Quiet(p)
  <1>1. PICK c \in job[p].mail :
            /\ \/ told' = told \cup {<<job[p].op, c>>} /\ Well
               \/ Wrong("fault", p) /\ UNCHANGED told
            /\ Turns(p, Pays(job[p], {}, job[p].mail \ {c}))
    BY DEF Mail, Turns
  <1>2. /\ job[p] \in Job /\ c \in Concepts /\ job[p].mail \ {c} \in SUBSET Concepts
        /\ {} \in SUBSET Units /\ job[p].op \in {"generate", "remind", "overdue"}
    BY <1>1, TypeGives DEF Job, Fits
  <1>3. job' \in [Processes -> Job] /\ (\A q \in Processes : Fits(job'[q])) /\ Quiet(p)
    BY <1>1, <1>2, PaysType DEF Quiet
  <1>4. told' \subseteq {"generate", "remind", "overdue"} \X Concepts
    BY <1>1, <1>2, TypeGives
  <1>5. mishaps' \in 0..MaxMishaps /\ troubled' \subseteq {"bill", "pay"} \X Nat
    BY <1>1, WellOrWrong
  <1>6. UNCHANGED <<Hostaway, Invoices, Bounds, charges, settled, since, doubt>>
    BY DEF Mail
  <1> QED BY <1>3, <1>4, <1>5, <1>6, TypeGives, TypeParts DEF Hostaway, Invoices, Bounds

LEMMA EndsType ==
    ASSUME TypeOK, NEW p \in Processes, Ends(p) \/ Fails(p)
    PROVE  TypeOK' /\ Quiet(p)
  <1>1. Turns(p, After(job[p])) /\ (Well \/ Wrong("fault", p)) /\ UNCHANGED doubt
    BY DEF Ends, Fails, Turns
  <1> QED BY <1>1, AfterType, WellOrWrong, FrameType, TypeGives DEF Ends, Fails, Frame, Quiet

LEMMA CrashType ==
    ASSUME TypeOK, Crash
    PROVE  TypeOK' /\ \A q \in Processes : job'[q] = Idle
  <1>1. {Kind(job[p].op) : p \in {q \in Processes : job[q] # Idle}} \in SUBSET {"bill", "pay"}
    BY DEF Kind
  <1>2. mishaps' \in 0..MaxMishaps /\ troubled' \subseteq {"bill", "pay"} \X Nat
    BY <1>1, GoesType DEF Crash
  <1>3. \A q \in Processes : job[q].stage = "save" => job[q].at \in Reservations
    BY TypeGives DEF Fits, Job
  <1>4. doubt' \subseteq Reservations \cup Concepts
    BY <1>3, TypeGives DEF Crash
  <1>5. job' \in [Processes -> Job] /\ \A q \in Processes : job'[q] = Idle /\ Fits(job'[q])
    BY IdleFits DEF Crash, Fits
  <1> QED BY <1>2, <1>4, <1>5, FrameType DEF Crash, Frame

LEMMA WorldType ==
    ASSUME TypeOK,
           \/ Down \/ NextDay
           \/ \E r \in Reservations, b \in Booking : Rebook(r, b)
           \/ \E c \in Concepts : OwnerPays(c)
    PROVE  TypeOK'
  <1>1. CASE Down
    <2>1. mishaps' \in 0..MaxMishaps /\ troubled' \subseteq {"bill", "pay"} \X Nat
      BY <1>1, GoesType, TypeGives DEF Down
    <2> QED BY <1>1, <2>1, TypeGives, TypeParts DEF Down, Hostaway, Invoices, Payments
  <1>2. CASE NextDay
    <2>1. /\ day' = day + 1 /\ day < Last
          /\ month' = IF day + 1 = Start[month + 1] THEN month + 1 ELSE month
      BY <1>2 DEF NextDay
    <2>2. /\ day \in Nat /\ month \in Periods /\ Start[month] \in Nat /\ Start[month + 1] \in Nat
          /\ Start[month] <= day /\ day < Start[month + 1]
      BY TypeGives, Calendar, DayType DEF Periods
    <2>3. month' \in Periods /\ day' \in Start[month']..Start[month' + 1] - 1
      <3>1. CASE day + 1 # Start[month + 1]
        BY <2>1, <2>2, <3>1
      <3>2. CASE day + 1 = Start[month + 1]
        <4>1. month + 1 # Len(Start)
          BY <2>1, <2>2, <3>2 DEF Last
        <4>2. month + 1 \in Periods
          BY <2>2, <4>1, Calendar DEF Periods
        <4>3. /\ Start[month + 1] < Start[month + 1 + 1] /\ Start[month + 1 + 1] \in Nat
          BY <4>2, Calendar
        <4> QED BY <2>1, <2>2, <3>2, <4>2, <4>3
      <3> QED BY <3>1, <3>2
    <2>4. UNCHANGED <<booking, ready, changes, Invoices, Payments, job, runs, doubt, mishaps, troubled>>
          /\ due' = {"bill", "pay"}
      BY <1>2 DEF NextDay, Well
    <2> QED BY <2>3, <2>4, TypeGives, TypeParts DEF Invoices, Payments
  <1>3. ASSUME NEW r \in Reservations, NEW b \in Booking, Rebook(r, b) PROVE TypeOK'
    <2>1. booking' \in [Reservations -> Booking] /\ ready' \in [Reservations -> Nat]
      BY <1>3, TypeGives, DayType DEF Rebook
    <2>2. UNCHANGED <<day, month, Invoices, Payments, Bounds, job, doubt, mishaps, troubled>>
      BY <1>3 DEF Rebook, Well
    <2>3. changes' \in 0..MaxChanges
      BY <1>3, TypeGives, MaxAssumption DEF Rebook
    <2> QED BY <2>1, <2>2, <2>3, TypeGives, TypeParts DEF Invoices, Payments, Bounds
  <1>4. ASSUME NEW c \in Concepts, OwnerPays(c) PROVE TypeOK'
    <2>1. settled' \subseteq Concepts
      BY <1>4, TypeGives DEF OwnerPays
    <2>2. UNCHANGED <<Hostaway, Invoices, Bounds, charges, told, since, job, doubt, mishaps, troubled>>
      BY <1>4 DEF OwnerPays, Well
    <2> QED BY <2>1, <2>2, TypeGives, TypeParts DEF Hostaway, Invoices, Bounds
  <1> QED BY <1>1, <1>2, <1>3, <1>4

LEMMA InitTypes == Init => TypeOK
  <1> SUFFICES ASSUME Init PROVE TypeOK
    OBVIOUS
  <1>1. 1 \in Periods /\ 1 \in Start[1]..Start[1 + 1] - 1
    BY Calendar, StartAssumption DEF Periods
  <1>2. job \in [Processes -> Job] /\ \A p \in Processes : Fits(job[p])
    BY IdleFits DEF Init, Fits
  <1> QED BY <1>1, <1>2, MaxAssumption DEF Init, TypeOK, Fits

LEMMA StepTypes == TypeOK /\ [Next]_vars => TypeOK'
  <1> SUFFICES ASSUME TypeOK, [Next]_vars PROVE TypeOK'
    OBVIOUS
  <1>1. CASE UNCHANGED vars
    BY <1>1, TypeGives, TypeParts DEF vars
  <1>2. ASSUME NEW p \in Processes,
               \/ BillingTimer(p) \/ PaymentsTimer(p) \/ ByHand(p)
               \/ Arrivals(p) \/ Invoice(p) \/ Save(p) \/ GenerateRead(p) \/ RemindRead(p)
               \/ OverdueRead(p) \/ Mail(p) \/ Ends(p) \/ Fails(p)
        PROVE  TypeOK'
    BY <1>2, TimersType, ArrivalsType, InvoiceType, SaveType, GenerateReadType, ReadType, MailType,
       EndsType
  <1>3. ASSUME NEW p \in Processes, NEW r \in Reservations, Check(p, r) PROVE TypeOK'
    BY <1>3, CheckType
  <1>4. ASSUME NEW p \in Processes, NEW u \in Units, Post(p, u) PROVE TypeOK'
    BY <1>4, PostType
  <1> QED BY <1>1, <1>2, <1>3, <1>4, CrashType, WorldType DEF Next

\* Every state has its types: a run is at a reservation exactly while it invoices it, and the
\* calendar of the generation (getMonth, getDate) is the one of the days.
THEOREM TypeCorrect == Spec => []TypeOK
  BY InitTypes, StepTypes, PTL DEF Spec

-----------------------------------------------------------------------------
(* The books of a reservation.                                             *)

\* At most one run is at r.  It has found no card, and its invoice is the only one; when no
\* run is there, an invoice has its card, and the card tells how it went.
Booked(r) ==
    /\ \A p, q \in Processes : job[p].at = r /\ job[q].at = r => p = q
    /\ \A p \in Processes : job[p].at = r =>
         /\ cards[r] = {}
         /\ job[p].stage = "invoice" => invoices[r] = 0
         /\ job[p].stage = "save" =>
              /\ invoices[r] \in {0, 1}
              /\ r \notin unsure => (invoices[r] = 0 <=> job[p].bad)
    /\ (\A p \in Processes : job[p].at # r) =>
         /\ invoices[r] \in {0, 1}
         /\ cards[r] = {} => invoices[r] = 0
         /\ r \notin unsure => (invoices[r] = 1 <=> "OK" \in cards[r])

\* The run p is going to create the payment of u for m.
Creates(p, u, m) == job[p].op = "generate" /\ job[p].date = m /\ u \in job[p].create

\* At most one run is going to create it, and it is not there.
Charged(u, m) ==
    /\ charges[<<u, m>>] <= 1
    /\ \A p \in Processes : Creates(p, u, m) => charges[<<u, m>>] = 0
    /\ \A p, q \in Processes : Creates(p, u, m) /\ Creates(q, u, m) => p = q

AllBooked == \A r \in Reservations : r \notin doubt => Booked(r)
AllCharged == \A u \in Units, m \in Periods : <<u, m>> \notin doubt => Charged(u, m)

IInv == TypeOK /\ AllBooked /\ AllCharged

\* A step of something else: runs that were at no reservation are at none.
LEMMA BookedStays ==
    ASSUME AllBooked, UNCHANGED Invoices, doubt \subseteq doubt',
           \A q \in Processes : job'[q] = job[q] \/ (job[q].at = None /\ job'[q].at = None)
    PROVE  AllBooked'
  <1> SUFFICES ASSUME NEW r \in Reservations, r \notin doubt' PROVE Booked(r)'
    BY DEF AllBooked
  <1>1. Booked(r) /\ r # None
    BY NoneAssumption DEF AllBooked
  <1>2. \A q \in Processes : /\ job'[q].at = r <=> job[q].at = r
                            /\ job[q].at = r => job'[q] = job[q]
    BY <1>1
  <1>3. invoices' = invoices /\ cards' = cards /\ unsure' = unsure
    BY DEF Invoices
  <1> QED BY <1>1, <1>2, <1>3 DEF Booked

\* The step leaves the books of r, and the runs that are at r, as they were.
LEMMA SameBooks ==
    ASSUME NEW r \in Reservations, Booked(r),
           invoices'[r] = invoices[r], cards'[r] = cards[r], r \in unsure' <=> r \in unsure,
           \A q \in Processes : job'[q].at = r <=> job[q].at = r,
           \A q \in Processes : job[q].at = r => job'[q] = job[q]
    PROVE  Booked(r)'
  BY DEF Booked

\* A step of something else: no run has more to create.
LEMMA ChargedStays ==
    ASSUME AllCharged, UNCHANGED charges, doubt \subseteq doubt',
           \A q \in Processes : job'[q] = job[q] \/ job'[q].create = {}
    PROVE  AllCharged'
  <1> SUFFICES ASSUME NEW u \in Units, NEW m \in Periods, <<u, m>> \notin doubt'
               PROVE  Charged(u, m)'
    BY DEF AllCharged
  <1>1. Charged(u, m)
    BY DEF AllCharged
  <1>2. \A q \in Processes : Creates(q, u, m)' => Creates(q, u, m)
    BY DEF Creates
  <1> QED BY <1>1, <1>2 DEF Charged

LEMMA TimersKeep ==
    ASSUME IInv, NEW p \in Processes,
           \/ BillingTimer(p) \/ PaymentsTimer(p) \/ ByHand(p) \/ Arrivals(p)
           \/ RemindRead(p) \/ OverdueRead(p) \/ Mail(p) \/ Ends(p) \/ Fails(p)
    PROVE  AllBooked' /\ AllCharged'
  <1>1. CASE BillingTimer(p) \/ PaymentsTimer(p) \/ ByHand(p)
    <2>1. job[p] = Idle /\ UNCHANGED <<Invoices, Payments, doubt>>
      BY <1>1 DEF BillingTimer, PaymentsTimer, ByHand
    <2>2. \A q \in Processes : q # p => job'[q] = job[q]
      BY <1>1, TypeGives DEF IInv, BillingTimer, PaymentsTimer, ByHand
    <2>3. job'[p].at = None /\ job'[p].create = {}
      BY <1>1, TypeGives DEF IInv, BillingTimer, PaymentsTimer, ByHand, Run
    <2> QED BY <2>1, <2>2, <2>3, IdleFits, BookedStays, ChargedStays DEF IInv, Payments
  <1>2. CASE Arrivals(p)
    <2>1. job[p].at = None
      BY <1>2, TypeGives DEF IInv, Fits, Arrivals, Is
    <2>2. UNCHANGED <<Invoices, Payments, doubt>>
      BY <1>2 DEF Arrivals
    <2> QED BY <1>2, <2>1, <2>2, ArrivalsType, BookedStays, ChargedStays DEF IInv, Payments
  <1>3. CASE \/ RemindRead(p) \/ OverdueRead(p) \/ Mail(p) \/ Ends(p) \/ Fails(p)
    <2>1. job[p].at = None
      BY <1>3, TypeGives DEF IInv, Fits, RemindRead, OverdueRead, Mail, Ends, Fails, Is
    <2>2. UNCHANGED <<Invoices, charges, doubt>>
      BY <1>3 DEF RemindRead, OverdueRead, Lists, NotToday, Mail, Ends, Fails, Payments
    <2>3. Quiet(p)
      BY <1>3, ReadType, MailType, EndsType DEF IInv
    <2> QED BY <2>1, <2>2, <2>3, BookedStays, ChargedStays DEF IInv, Quiet
  <1> QED BY <1>1, <1>2, <1>3

LEMMA CheckKeeps ==
    ASSUME IInv, NEW p \in Processes, NEW r \in Reservations, Check(p, r)
    PROVE  AllBooked' /\ AllCharged'
  <1>1. /\ job[p].at = None
        /\ UNCHANGED <<Invoices, Payments>>
    BY TypeGives DEF IInv, Fits, Check, Is
  <1>2. /\ job'[p].create = {} /\ \A q \in Processes : q # p => job'[q] = job[q]
        /\ \/ job'[p].at = None /\ UNCHANGED doubt
           \/ /\ job'[p].at = r /\ job'[p].stage = "invoice"
              /\ doubt' = IF cards[r] # {} \/ Underway(p, r) THEN doubt \cup {r} ELSE doubt
    BY CheckType DEF IInv
  <1>3. doubt \subseteq doubt'
    BY <1>2
  <1>4. AllCharged'
    BY <1>1, <1>2, <1>3, ChargedStays DEF IInv, Payments
  <1>5. CASE job'[p].at = None
    <2>1. \A q \in Processes : job'[q] = job[q] \/ (job[q].at = None /\ job'[q].at = None)
      BY <1>1, <1>2, <1>5
    <2>2. AllBooked /\ UNCHANGED Invoices
      BY <1>1 DEF IInv
    <2> QED BY <1>3, <1>4, <2>1, <2>2, BookedStays
  <1>6. CASE job'[p].at # None
    <2> SUFFICES ASSUME NEW s \in Reservations, s \notin doubt' PROVE Booked(s)'
      BY <1>4 DEF AllBooked
    <2>1. /\ Booked(s) /\ s # None /\ invoices' = invoices /\ cards' = cards /\ unsure' = unsure
      BY <1>1, <1>3, NoneAssumption DEF IInv, AllBooked, Invoices
    <2>2. job'[p].at = r /\ job'[p].stage = "invoice"
      BY <1>2, <1>6
    <2>3. CASE s # r
      <3>1. \A q \in Processes : job'[q].at = s <=> job[q].at = s
        BY <1>1, <1>2, <2>1, <2>2, <2>3
      <3>2. \A q \in Processes : job[q].at = s => job'[q] = job[q]
        BY <1>1, <1>2, <2>1, <2>2, <2>3
      <3> QED BY <2>1, <3>1, <3>2, SameBooks
    <2>4. CASE s = r
      <3>1. cards[r] = {} /\ \A q \in Processes : q # p => job[q].at # r
        BY <1>2, <1>6, <2>2, <2>4 DEF Underway
      <3>2. \A q \in Processes : job[q].at # r
        BY <1>1, <2>1, <2>4, <3>1
      <3>3. invoices[r] = 0
        BY <2>1, <2>4, <3>1, <3>2 DEF Booked
      <3>4. \A q \in Processes : job'[q].at = r => q = p
        BY <1>2, <3>1
      <3> QED BY <2>1, <2>2, <2>4, <3>1, <3>3, <3>4 DEF Booked
    <2> QED BY <2>3, <2>4
  <1> QED BY <1>4, <1>5, <1>6

\* The invoice of the run at r.
LEMMA InvoiceKeeps ==
    ASSUME IInv, NEW p \in Processes, Invoice(p)
    PROVE  AllBooked' /\ AllCharged'
  <1> DEFINE r == job[p].at
  <1>1. r \in Reservations /\ job[p].stage = "invoice"
    BY TypeGives DEF IInv, Fits, Job, Invoice, Is
  <1>2. /\ \A q \in Processes : q # p => job'[q] = job[q]
        /\ job'[p].at = r /\ job'[p].stage = "save" /\ job'[p].create = {}
    BY TypeGives DEF IInv, Invoice, Bills
  <1>3. /\ UNCHANGED <<Payments, cards, doubt>>
        /\ \A s \in Reservations : s # r =>
             invoices'[s] = invoices[s] /\ (s \in unsure' <=> s \in unsure)
        /\ \/ invoices' = [invoices EXCEPT ![r] = @ + 1] /\ (r \notin unsure' => ~job'[p].bad)
           \/ invoices' = invoices /\ job'[p].bad
    BY <1>1, TypeGives DEF IInv, Invoice, Bills
  <1>4. AllCharged'
    BY <1>2, <1>3, ChargedStays DEF IInv, Payments
  <1> HIDE DEF r
  <1> SUFFICES ASSUME NEW s \in Reservations, s \notin doubt' PROVE Booked(s)'
    BY <1>4 DEF AllBooked
  <1>5. Booked(s)
    BY <1>3 DEF IInv, AllBooked
  <1>6. CASE s # r
    <2>1. \A q \in Processes : job'[q].at = s <=> job[q].at = s
      BY <1>2, <1>6 DEF r
    <2>2. \A q \in Processes : job[q].at = s => job'[q] = job[q]
      BY <1>2, <1>6 DEF r
    <2> QED BY <1>3, <1>5, <1>6, <2>1, <2>2, SameBooks
  <1>7. CASE s = r
    <2>1. \A q \in Processes : job[q].at = r => q = p
      BY <1>5, <1>7 DEF Booked, r
    <2>2. \A q \in Processes : job'[q].at = r => q = p
      BY <1>2, <2>1
    <2>3. cards[r] = {} /\ invoices[r] = 0
      BY <1>1, <1>5, <1>7 DEF Booked, r
    <2>4. cards'[r] = {} /\ invoices'[r] \in {0, 1}
          /\ (r \notin unsure' => (invoices'[r] = 0 <=> job'[p].bad))
      BY <1>1, <1>3, <2>3, TypeGives DEF IInv
    <2> QED BY <1>2, <1>7, <2>2, <2>4 DEF Booked
  <1> QED BY <1>6, <1>7

\* The card of the run at r.
LEMMA SaveKeeps ==
    ASSUME IInv, NEW p \in Processes, Save(p)
    PROVE  AllBooked' /\ AllCharged'
  <1> DEFINE r == job[p].at
  <1>1. r \in Reservations /\ job[p].stage = "save" /\ r # None
    BY TypeGives, NoneAssumption DEF IInv, Fits, Job, Save, Is
  <1>2. /\ \A q \in Processes : q # p => job'[q] = job[q]
        /\ job'[p].at = None /\ job'[p].create = {}
    BY TypeGives DEF IInv, Save, Bills
  <1>3. /\ UNCHANGED <<Payments, invoices, unsure>> /\ doubt \subseteq doubt'
        /\ \A s \in Reservations : s # r => cards'[s] = cards[s]
        /\ r \notin doubt' => cards'[r] = cards[r] \cup {IF job[p].bad THEN "ERROR" ELSE "OK"}
    BY <1>1, TypeGives DEF IInv, Save, CardSets
  <1>4. AllCharged'
    BY <1>2, <1>3, ChargedStays DEF IInv, Payments
  <1> HIDE DEF r
  <1> SUFFICES ASSUME NEW s \in Reservations, s \notin doubt' PROVE Booked(s)'
    BY <1>4 DEF AllBooked
  <1>5. Booked(s)
    BY <1>3 DEF IInv, AllBooked
  <1>6. CASE s # r
    <2>1. \A q \in Processes : job'[q].at = s <=> job[q].at = s
      BY <1>2, <1>6, NoneAssumption DEF r
    <2>2. \A q \in Processes : job[q].at = s => job'[q] = job[q]
      BY <1>2, <1>6 DEF r
    <2> QED BY <1>3, <1>5, <1>6, <2>1, <2>2, SameBooks
  <1>7. CASE s = r
    <2>1. \A q \in Processes : job[q].at = r => q = p
      BY <1>5, <1>7 DEF Booked, r
    <2>2. \A q \in Processes : job'[q].at # r
      BY <1>1, <1>2, <2>1
    <2>3. /\ cards[r] = {} /\ invoices[r] \in {0, 1}
          /\ r \notin unsure => (invoices[r] = 0 <=> job[p].bad)
      BY <1>1, <1>5, <1>7 DEF Booked, r
    <2>4. /\ cards'[r] # {} /\ invoices'[r] \in {0, 1}
          /\ r \notin unsure' => (invoices'[r] = 1 <=> "OK" \in cards'[r])
      BY <1>3, <1>7, <2>3
    <2> QED BY <1>7, <2>2, <2>4 DEF Booked
  <1> QED BY <1>6, <1>7

\* The runs that a crash cuts: before the invoice there is nothing, after it there is a doubt.
LEMMA CrashKeeps ==
    ASSUME IInv, Crash
    PROVE  AllBooked' /\ AllCharged'
  <1>1. /\ \A q \in Processes : job'[q] = Idle
        /\ UNCHANGED <<Invoices, Payments>> /\ doubt \subseteq doubt'
    BY CrashType DEF IInv, Crash
  <1>2. \A q \in Processes : job'[q].at = None /\ job'[q].create = {}
    BY <1>1, IdleFits
  <1>3. AllCharged'
    BY <1>1, <1>2, ChargedStays DEF IInv, Payments
  <1> SUFFICES ASSUME NEW s \in Reservations, s \notin doubt' PROVE Booked(s)'
    BY <1>3 DEF AllBooked
  <1>4. Booked(s) /\ s # None
    BY <1>1, NoneAssumption DEF IInv, AllBooked
  <1>5. \A q \in Processes : job'[q].at # s
    BY <1>2, <1>4
  <1>6. CASE \E q \in Processes : job[q].at = s
    <2> PICK q \in Processes : job[q].at = s
      BY <1>6
    <2>1. job[q].stage \in {"invoice", "save"}
      BY <1>4, TypeGives DEF IInv, Fits
    <2>2. job[q].stage # "save"
      BY DEF Crash
    <2>3. cards[s] = {} /\ invoices[s] = 0
      BY <1>4, <2>1, <2>2 DEF Booked
    <2> QED BY <1>1, <1>5, <2>3 DEF Booked, Invoices
  <1>7. CASE \A q \in Processes : job[q].at # s
    <2>1. \A q \in Processes : job'[q].at = s <=> job[q].at = s
      BY <1>5, <1>7
    <2>2. \A q \in Processes : job[q].at = s => job'[q] = job[q]
      BY <1>7
    <2> QED BY <1>1, <1>4, <2>1, <2>2, SameBooks DEF Invoices
  <1> QED BY <1>6, <1>7

LEMMA WorldKeeps ==
    ASSUME IInv,
           \/ Down \/ NextDay
           \/ \E r \in Reservations, b \in Booking : Rebook(r, b)
           \/ \E c \in Concepts : OwnerPays(c)
    PROVE  AllBooked' /\ AllCharged'
  <1>1. UNCHANGED <<Invoices, charges, doubt, job>>
    BY DEF Down, NextDay, Rebook, OwnerPays, Payments
  <1> QED BY <1>1, BookedStays, ChargedStays DEF IInv

\* A generation takes only units whose payment is not there and that no other one has taken.
LEMMA GenerateReadKeeps ==
    ASSUME IInv, NEW p \in Processes, GenerateRead(p)
    PROVE  AllBooked' /\ AllCharged'
  <1> DEFINE m == job[p].date
  <1>1. job[p].at = None /\ m \in Periods
    BY TypeGives DEF IInv, Fits, GenerateRead, Is
  <1>2. UNCHANGED <<Invoices, charges>>
    BY DEF GenerateRead, Payments
  <1>3. /\ job'[p].at = None /\ doubt \subseteq doubt'
        /\ \A q \in Processes : q # p => job'[q] = job[q]
    BY GenerateReadType DEF IInv
  <1>4. AllBooked'
    BY <1>1, <1>2, <1>3, BookedStays DEF IInv
  <1>5. CASE job'[p].create = {}
    BY <1>2, <1>3, <1>4, <1>5, ChargedStays DEF IInv
  <1>6. CASE job'[p].create # {}
    <2>1. /\ job'[p].op = "generate" /\ job'[p].date = m
          /\ doubt' = doubt \cup
               {<<u, m>> : u \in {v \in job'[p].create :
                  \/ Existing(v, m)
                  \/ \E q \in Processes \ {p} : job[q].op = "generate" /\ job[q].date = m
                                                  /\ v \in job[q].create}}
      BY <1>6, GenerateReadType DEF IInv
    <2> SUFFICES ASSUME NEW u \in Units, NEW k \in Periods, <<u, k>> \notin doubt'
                 PROVE  Charged(u, k)'
      BY <1>4 DEF AllCharged
    <2>2. Charged(u, k) /\ charges' = charges
      BY <1>2, <1>3 DEF IInv, AllCharged
    <2>3. \A q \in Processes : q # p => (Creates(q, u, k)' <=> Creates(q, u, k))
      BY <1>3 DEF Creates
    <2>4. CASE Creates(p, u, k)'
      <3>1. k = m /\ u \in job'[p].create
        BY <2>1, <2>4 DEF Creates
      <3>2. ~Existing(u, k) /\ \A q \in Processes : q # p => ~Creates(q, u, k)
        BY <2>1, <3>1 DEF Creates
      <3>c. charges[<<u, k>>] \in Nat
        BY TypeGives DEF IInv, Concepts
      <3>n. ~(charges[<<u, k>>] > 0)
        BY <3>2 DEF Existing
      <3>3. charges[<<u, k>>] = 0
        BY <3>c, <3>n
      <3>4. \A q \in Processes : Creates(q, u, k)' => q = p
        BY <2>3, <3>2
      <3>5. charges'[<<u, k>>] = 0
        BY <2>2, <3>3
      <3> HIDE DEF m
      <3> QED BY <3>4, <3>5 DEF Charged
    <2>5. CASE ~Creates(p, u, k)'
      <3>1. \A q \in Processes : Creates(q, u, k)' => Creates(q, u, k)
        BY <2>3, <2>5
      <3> QED BY <2>2, <3>1 DEF Charged
    <2> QED BY <2>4, <2>5
  <1> QED BY <1>5, <1>6

\* The payment that a generation creates is its own.
LEMMA PostKeeps ==
    ASSUME IInv, NEW p \in Processes, NEW u \in Units, Post(p, u)
    PROVE  AllBooked' /\ AllCharged'
  <1> DEFINE c == <<u, job[p].date>>
  <1>1. /\ job[p].op = "generate" /\ u \in job[p].create
        /\ job'[p].at = None /\ job'[p].create = job[p].create \ {u}
        /\ job'[p].op = "generate" /\ job'[p].date = job[p].date
        /\ \A q \in Processes : q # p => job'[q] = job[q]
        /\ charges' = charges \/ charges' = [charges EXCEPT ![c] = @ + 1]
        /\ UNCHANGED <<Invoices, doubt>>
    BY PostType DEF IInv
  <1>2. job[p].at = None
    BY TypeGives DEF IInv, Fits, Post, Is
  <1>3. AllBooked'
    BY <1>1, <1>2, BookedStays DEF IInv
  <1> SUFFICES ASSUME NEW v \in Units, NEW k \in Periods, <<v, k>> \notin doubt'
               PROVE  Charged(v, k)'
    BY <1>3 DEF AllCharged
  <1>4. Charged(v, k)
    BY <1>1 DEF IInv, AllCharged
  <1>5. \A q \in Processes : Creates(q, v, k)' => Creates(q, v, k)
    BY <1>1 DEF Creates
  <1>6. CASE <<v, k>> = c
    <2>1. Creates(p, v, k) /\ ~Creates(p, v, k)'
      BY <1>1, <1>6 DEF Creates
    <2>2. \A q \in Processes : ~Creates(q, v, k)'
      BY <1>4, <1>5, <2>1 DEF Charged
    <2>3. charges[<<v, k>>] = 0 /\ <<v, k>> \in Concepts
      BY <1>4, <2>1 DEF Charged, Concepts
    <2>4. charges'[<<v, k>>] <= 1
      BY <1>1, <1>6, <2>3, TypeGives DEF IInv
    <2> QED BY <2>2, <2>4 DEF Charged
  <1>7. CASE <<v, k>> # c
    <2>1. charges'[<<v, k>>] = charges[<<v, k>>]
      BY <1>1, <1>7, TypeGives DEF IInv, Concepts
    <2> QED BY <1>4, <1>5, <2>1 DEF Charged
  <1> QED BY <1>6, <1>7

LEMMA InitInv == Init => IInv
  <1> SUFFICES ASSUME Init PROVE AllBooked /\ AllCharged
    BY InitTypes DEF IInv
  <1>1. \A p \in Processes : job[p] = Idle
    BY DEF Init
  <1>2. \A p \in Processes : job[p].at = None /\ job[p].create = {}
    BY <1>1, IdleFits
  <1>3. ASSUME NEW r \in Reservations PROVE Booked(r)
    <2>1. \A p \in Processes : job[p].at # r
      BY <1>2, NoneAssumption
    <2>2. invoices[r] = 0 /\ cards[r] = {}
      BY DEF Init
    <2> QED BY <2>1, <2>2 DEF Booked
  <1>4. ASSUME NEW u \in Units, NEW m \in Periods PROVE Charged(u, m)
    <2>1. charges[<<u, m>>] = 0
      BY DEF Init, Concepts
    <2>2. \A p \in Processes : ~Creates(p, u, m)
      BY <1>2 DEF Creates
    <2> QED BY <2>1, <2>2 DEF Charged
  <1> QED BY <1>3, <1>4 DEF AllBooked, AllCharged

LEMMA StepInv == IInv /\ [Next]_vars => IInv'
  <1> SUFFICES ASSUME IInv, [Next]_vars PROVE AllBooked' /\ AllCharged'
    BY StepTypes DEF IInv
  <1>1. CASE UNCHANGED vars
    <2>1. UNCHANGED <<Invoices, charges, doubt, job>>
      BY <1>1 DEF vars, Invoices
    <2> QED BY <2>1, BookedStays, ChargedStays DEF IInv
  <1>2. ASSUME NEW p \in Processes,
               \/ BillingTimer(p) \/ PaymentsTimer(p) \/ ByHand(p)
               \/ Arrivals(p) \/ Invoice(p) \/ Save(p) \/ GenerateRead(p) \/ RemindRead(p)
               \/ OverdueRead(p) \/ Mail(p) \/ Ends(p) \/ Fails(p)
        PROVE  AllBooked' /\ AllCharged'
    BY <1>2, TimersKeep, InvoiceKeeps, SaveKeeps, GenerateReadKeeps
  <1>3. ASSUME NEW p \in Processes, NEW r \in Reservations, Check(p, r)
        PROVE  AllBooked' /\ AllCharged'
    BY <1>3, CheckKeeps
  <1>4. ASSUME NEW p \in Processes, NEW u \in Units, Post(p, u)
        PROVE  AllBooked' /\ AllCharged'
    BY <1>4, PostKeeps
  <1> QED BY <1>1, <1>2, <1>3, <1>4, CrashKeeps, WorldKeeps DEF Next

\* The inductive invariant: nobody is at work on what another run has taken, the books agree
\* where nobody is at work.
THEOREM Invariance == Spec => []IInv
  BY InitInv, StepInv, PTL DEF Spec

-----------------------------------------------------------------------------
(* What it is for.                                                         *)

\* No reservation has two invoices, however many runs look at it, and whatever a crash or a
\* failure leaves behind, unless one of the three causes of doubt has been there.
THEOREM NoSecondInvoice == Spec => []InvoicedOnce
  <1>1. IInv => InvoicedOnce
    <2> SUFFICES ASSUME IInv, NEW r \in Reservations, r \notin doubt PROVE invoices[r] <= 1
      BY DEF InvoicedOnce
    <2>1. Booked(r)
      BY DEF IInv, AllBooked
    <2>2. CASE \A p \in Processes : job[p].at # r
      BY <2>1, <2>2 DEF Booked
    <2>3. CASE \E p \in Processes : job[p].at = r
      <3> PICK p \in Processes : job[p].at = r
        BY <2>3
      <3>1. job[p].stage \in {"invoice", "save"}
        BY NoneAssumption, TypeGives DEF IInv, Fits
      <3> QED BY <2>1, <3>1 DEF Booked
    <2> QED BY <2>2, <2>3
  <1> QED BY <1>1, Invariance, PTL

\* Between two runs, openMAINT says that a reservation is invoiced exactly when Contifico has it.
THEOREM BooksStayTrue == Spec => []BooksAgree
  <1>1. IInv => BooksAgree
    BY DEF IInv, AllBooked, Booked, BooksAgree
  <1> QED BY <1>1, Invariance, PTL

\* No unit is charged twice for a period, whatever the order of the runs.
THEOREM NoSecondCharge == Spec => []ChargedOnce
  <1>1. IInv => ChargedOnce
    BY DEF IInv, AllCharged, Charged, ChargedOnce, Concepts
  <1> QED BY <1>1, Invariance, PTL

-----------------------------------------------------------------------------
(* What is still to come, on the day it is due.                            *)

\* Nothing went wrong with these jobs on that day.
Calm(kind, on) == <<kind, on>> \notin troubled

\* A run by the timer is of its day: it does not outlive it.
Dated ==
    \A p \in Processes : job[p].timer =>
        job[p].date = IF job[p].op = "bill" THEN day + Zone ELSE month

\* The run of the timer has yet to look at r, or is at it.
Takes(p, r) ==
    /\ job[p].op = "bill" /\ job[p].timer
    /\ job[p].stage = "read" \/ r \in job[p].todo \/ job[p].at = r

\* The generation of the timer has yet to list u, or to create its payment.
Generates(p, u) ==
    /\ job[p].op = "generate" /\ job[p].timer
    /\ job[p].stage = "read" \/ u \in job[p].create

\* The run of the timer has yet to come to its reminders, or to that of c.
Reminds(p, c) ==
    /\ job[p].timer
    /\ \/ job[p].op = "generate"
       \/ job[p].op = "remind" /\ (job[p].stage = "read" \/ c \in job[p].mail)

BillDay(r) == booking[r].arrival - Zone
Emission(m) == Start[m] + Emision - 1
Eve(m) == DueDate(m) - 1

ToBill(r) == ready[r] # 0 /\ ready[r] < BillDay(r)
ToCharge(m) == Emision \in 1..Start[m + 1] - Start[m]
\* The unit has a payment of the month, or had one of another on the day of emission.
Had(u, m) ==
    \/ charges[<<u, m>>] > 0
    \/ \E k \in Periods : since[<<u, k>>] \in 1..Emission(m)

ToRemind(c) ==
    /\ Start[c[2]] <= Eve(c[2]) /\ Eve(c[2]) < Start[c[2] + 1]
    /\ since[c] # 0 /\ since[c] < Eve(c[2]) /\ c \notin settled

Billing(r) ==
    ToBill(r) /\ Calm("bill", BillDay(r)) =>
        /\ day > BillDay(r) => cards[r] # {}
        /\ day = BillDay(r) =>
             cards[r] # {} \/ "bill" \in due \/ \E p \in Processes : Takes(p, r)

Charging(u, m) ==
    ToCharge(m) /\ Calm("pay", Emission(m)) =>
        /\ day > Emission(m) => Had(u, m)
        /\ day = Emission(m) =>
             Had(u, m) \/ "pay" \in due \/ \E p \in Processes : Generates(p, u)

Reminding(c) ==
    ToRemind(c) /\ Calm("pay", Eve(c[2])) =>
        /\ day > Eve(c[2]) => <<"remind", c>> \in told
        /\ day = Eve(c[2]) =>
             <<"remind", c>> \in told \/ "pay" \in due \/ \E p \in Processes : Reminds(p, c)

\* A payment has a day when it was first created.
Noted == \A c \in Concepts : (charges[c] > 0 <=> since[c] # 0) /\ since[c] <= day

\* What is ready is to be billed.
Readied == \A r \in Reservations : ready[r] # 0 => Billable(booking[r])

-----------------------------------------------------------------------------
(* The steps, and what they write.                                         *)

\* Trouble is never forgotten, and is written down for the kind of the run.
LEMMA GoesIsTold ==
    ASSUME NEW operation, NEW kinds, Goes(operation, kinds)
    PROVE  troubled \subseteq troubled' /\ \A kind \in kinds : <<kind, day>> \in troubled'
<1>1. troubled' = troubled \cup (kinds \X {day})
  BY DEF Goes
<1>2. \A kind \in kinds : <<kind, day>> \in kinds \X {day}
  OBVIOUS
<1> QED  BY <1>1, <1>2

LEMMA WrongIsTold ==
    ASSUME NEW p, NEW operation, Wrong(operation, p)
    PROVE  troubled \subseteq troubled' /\ <<Kind(job[p].op), day>> \in troubled'
<1>1. Goes(operation, {Kind(job[p].op)})
  BY DEF Wrong
<1> QED  BY <1>1, GoesIsTold

\* The steps of a run that has begun, before or after the mishap they may meet.
RunStep(p) ==
    \/ Arrivals(p) \/ Invoice(p) \/ Save(p) \/ GenerateRead(p) \/ RemindRead(p)
    \/ OverdueRead(p) \/ Mail(p) \/ Ends(p) \/ Fails(p)
    \/ \E r \in Reservations : Check(p, r)
    \/ \E u \in Units : Post(p, u)

Begin(p) == BillingTimer(p) \/ PaymentsTimer(p) \/ ByHand(p)

LEMMA WellOrTold ==
    ASSUME NEW p \in Processes, RunStep(p)
    PROVE  Well \/ \E operation \in {"blind", "lost", "fault"} : Wrong(operation, p)
<1>1. CASE Arrivals(p) \/ Invoice(p) \/ Save(p)
  BY <1>1 DEF Arrivals, Invoice, Save
<1>2. CASE GenerateRead(p)
  BY <1>2 DEF GenerateRead
<1>3. CASE RemindRead(p) \/ OverdueRead(p)
  BY <1>3 DEF RemindRead, OverdueRead, Lists, NotToday
<1>4. CASE Mail(p) \/ Ends(p) \/ Fails(p)
  BY <1>4 DEF Mail, Ends, Fails
<1>5. ASSUME NEW r \in Reservations, Check(p, r)
      PROVE  Well \/ \E operation \in {"blind", "lost", "fault"} : Wrong(operation, p)
  BY <1>5 DEF Check
<1>6. ASSUME NEW u \in Units, Post(p, u)
      PROVE  Well \/ \E operation \in {"blind", "lost", "fault"} : Wrong(operation, p)
  BY <1>6 DEF Post
<1> QED  BY <1>1, <1>2, <1>3, <1>4, <1>5, <1>6 DEF RunStep

LEMMA RunTroubles ==
    ASSUME NEW p \in Processes, RunStep(p)
    PROVE  /\ troubled \subseteq troubled'
           /\ Well \/ <<Kind(job[p].op), day>> \in troubled'
  BY WellOrTold, WrongIsTold DEF Well

\* The calendar, the payments of the guests and the timers are not the business of a run.
LEMMA RunLeaves ==
    ASSUME NEW p \in Processes, RunStep(p)
    PROVE  UNCHANGED <<day, month, booking, ready, due, settled>>
<1>1. CASE Arrivals(p) \/ Invoice(p) \/ Save(p) \/ GenerateRead(p)
  BY <1>1 DEF Arrivals, Invoice, Save, GenerateRead, Hostaway, Bounds, Payments
<1>2. CASE RemindRead(p) \/ OverdueRead(p) \/ Mail(p) \/ Ends(p) \/ Fails(p)
  BY <1>2 DEF RemindRead, OverdueRead, Lists, NotToday, Mail, Ends, Fails, Hostaway, Bounds,
              Payments
<1>3. ASSUME NEW r \in Reservations, Check(p, r)  PROVE UNCHANGED <<day, month, booking, ready, due, settled>>
  BY <1>3 DEF Check, Hostaway, Bounds, Payments
<1>4. ASSUME NEW u \in Units, Post(p, u)  PROVE UNCHANGED <<day, month, booking, ready, due, settled>>
  BY <1>4 DEF Post, Hostaway, Bounds
<1> QED  BY <1>1, <1>2, <1>3, <1>4 DEF RunStep

\* What a step leaves of its run: the same job further on, the next one, or none.
LEMMA RunGoesOn ==
    ASSUME TypeOK, NEW p \in Processes, RunStep(p)
    PROVE  /\ \A q \in Processes : q # p => job'[q] = job[q]
           /\ \/ job'[p].op = job[p].op /\ job'[p].timer = job[p].timer
                 /\ job'[p].date = job[p].date
              \/ job'[p] = After(job[p])
<1>0. job \in [Processes -> Job]
  BY TypeGives
<1>1. CASE Arrivals(p) \/ Invoice(p) \/ Save(p)
  BY <1>0, <1>1 DEF Arrivals, Invoice, Save, Bills
<1>2. CASE GenerateRead(p)
  BY <1>0, <1>2 DEF GenerateRead, Pays
<1>3. CASE RemindRead(p) \/ OverdueRead(p)
  BY <1>0, <1>3 DEF RemindRead, OverdueRead, Lists, NotToday, Pays
<1>4. CASE Mail(p) \/ Ends(p) \/ Fails(p)
  BY <1>0, <1>4 DEF Mail, Ends, Fails, Pays
<1>5. ASSUME NEW r \in Reservations, Check(p, r)
      PROVE  /\ \A q \in Processes : q # p => job'[q] = job[q]
             /\ job'[p].op = job[p].op /\ job'[p].timer = job[p].timer
             /\ job'[p].date = job[p].date
  <2>1. PICK found \in BOOLEAN : job' = [job EXCEPT ![p] =
              IF found THEN Bills(job[p], "work", job[p].todo \ {r}, None, FALSE)
              ELSE Bills(job[p], "invoice", job[p].todo \ {r}, r, FALSE)]
    BY <1>5 DEF Check
  <2> QED  BY <1>0, <2>1 DEF Bills
<1>6. ASSUME NEW u \in Units, Post(p, u)
      PROVE  /\ \A q \in Processes : q # p => job'[q] = job[q]
             /\ job'[p].op = job[p].op /\ job'[p].timer = job[p].timer
             /\ job'[p].date = job[p].date
  <2>1. PICK mail : job' = [job EXCEPT ![p] = Pays(job[p], job[p].create \ {u}, mail)]
    BY <1>6 DEF Post
  <2> QED  BY <1>0, <2>1 DEF Pays
<1> QED  BY <1>1, <1>2, <1>3, <1>4, <1>5, <1>6 DEF RunStep

\* The job that follows another.
LEMMA AfterIs ==
    ASSUME NEW j, Fits(j)
    PROVE  /\ After(j).timer => /\ j.timer /\ After(j).date = j.date /\ After(j).stage = "read"
                                /\ \/ j.op = "generate" /\ After(j).op = "remind"
                                   \/ j.op = "remind" /\ After(j).op = "overdue"
           /\ j.timer /\ j.op = "generate" => After(j).timer /\ After(j).op = "remind"
  BY DEF After, Following, Run, Idle

LEMMA DatedRun ==
    ASSUME TypeOK, Dated, NEW p \in Processes, RunStep(p)
    PROVE  Dated'
<1>1. day' = day /\ month' = month
  BY RunLeaves
<1>2. Fits(job[p])
  BY TypeGives
<1>3. job'[p].timer => job'[p].date = IF job'[p].op = "bill" THEN day + Zone ELSE month
  BY <1>2, RunGoesOn, AfterIs DEF Dated
<1> QED  BY <1>1, <1>3, RunGoesOn DEF Dated

LEMMA DatedBegin ==
    ASSUME TypeOK, Dated, NEW p \in Processes, Begin(p)
    PROVE  /\ Dated' /\ job[p] = Idle
           /\ \A q \in Processes : q # p => job'[q] = job[q]
           /\ UNCHANGED <<day, month, booking, ready, cards, charges, since, told, settled, troubled>>
<1>0. job \in [Processes -> Job]
  BY TypeGives
<1>1. job[p] = Idle /\ UNCHANGED <<Hostaway, Invoices, Payments, troubled>>
  BY DEF Begin, BillingTimer, PaymentsTimer, ByHand, Well
<1>2. \A q \in Processes : q # p => job'[q] = job[q]
  BY <1>0 DEF Begin, BillingTimer, PaymentsTimer, ByHand
<1>3. job'[p].timer => job'[p].date = IF job'[p].op = "bill" THEN day + Zone ELSE month
  BY <1>0 DEF Begin, BillingTimer, PaymentsTimer, ByHand, Run
<1>4. day' = day /\ month' = month
  BY <1>1 DEF Hostaway
<1> QED  BY <1>1, <1>2, <1>3, <1>4 DEF Dated, Hostaway, Invoices, Payments

-----------------------------------------------------------------------------
(* Billing.                                                                *)

\* The run of the timer keeps at a reservation until it has a card, or trouble.
LEMMA TakesOn ==
    ASSUME TypeOK, Dated, NEW p \in Processes, RunStep(p), NEW r \in Reservations,
           Billable(booking[r]), day = BillDay(r), Takes(p, r), <<"bill", day>> \notin troubled'
    PROVE  Takes(p, r)' \/ cards'[r] # {}
<1>0. job \in [Processes -> Job] /\ Fits(job[p]) /\ r # None /\ cards \in CardSets
      /\ booking[r].arrival \in Int /\ Zone \in Int /\ day \in Int
  BY TypeGives, DayType, DateType, NoneAssumption
<1>1. job[p].op = "bill" /\ job[p].timer /\ job[p].date = booking[r].arrival
  BY <1>0 DEF Takes, Dated, BillDay
<1>2. Well
  BY <1>1, RunTroubles DEF Kind
<1>3. \A operation : ~ Wrong(operation, p)
  BY <1>1, WrongIsTold DEF Kind
<1>4. CASE Arrivals(p)
  <2>1. job'[p] = Bills(job[p], "work", {q \in Reservations :
            Billable(booking[q]) /\ booking[q].arrival = job[p].date}, None, FALSE)
    BY <1>0, <1>4 DEF Arrivals
  <2> QED  BY <1>1, <2>1 DEF Takes, Bills
<1>5. CASE Invoice(p)
  <2>1. PICK bad \in BOOLEAN : job'[p] = Bills(job[p], "save", job[p].todo, job[p].at, bad)
    BY <1>0, <1>5 DEF Invoice
  <2>2. r \in job[p].todo \/ job[p].at = r
    BY <1>5 DEF Takes, Invoice, Is
  <2> QED  BY <1>1, <2>1, <2>2 DEF Takes, Bills
<1>6. CASE Save(p)
  <2>1. /\ job'[p] = Bills(job[p], "work", job[p].todo, None, FALSE)
        /\ cards' = [cards EXCEPT ![job[p].at] = @ \cup {IF job[p].bad THEN "ERROR" ELSE "OK"}]
    BY <1>0, <1>3, <1>6 DEF Save
  <2>2. r \in job[p].todo \/ job[p].at = r
    BY <1>6 DEF Takes, Save, Is
  <2>3. CASE r \in job[p].todo
    BY <1>1, <2>1, <2>3 DEF Takes, Bills
  <2>4. CASE job[p].at = r
    BY <1>0, <2>1, <2>4 DEF CardSets
  <2> QED  BY <2>2, <2>3, <2>4
<1>7. ASSUME NEW s \in Reservations, Check(p, s)  PROVE Takes(p, r)' \/ cards'[r] # {}
  <2>1. PICK found \in BOOLEAN :
          /\ found = (cards[s] # {})
          /\ job' = [job EXCEPT ![p] =
               IF found THEN Bills(job[p], "work", job[p].todo \ {s}, None, FALSE)
               ELSE Bills(job[p], "invoice", job[p].todo \ {s}, s, FALSE)]
    BY <1>3, <1>7 DEF Check
  <2>2. r \in job[p].todo /\ cards' = cards
    BY <1>0, <1>7 DEF Takes, Check, Is, Fits, Invoices
  <2>3. CASE found /\ r = s
    BY <2>1, <2>2, <2>3
  <2>4. CASE found /\ r # s
    BY <1>0, <1>1, <2>1, <2>2, <2>4 DEF Takes, Bills
  <2>5. CASE ~found
    <3>1. job'[p] = Bills(job[p], "invoice", job[p].todo \ {s}, s, FALSE)
      BY <1>0, <2>1, <2>5
    <3> QED  BY <1>1, <2>2, <3>1 DEF Takes, Bills
  <2> QED  BY <2>1, <2>3, <2>4, <2>5
<1>8. CASE Mail(p) \/ Ends(p) \/ Fails(p)
  <2>1. ~ Mail(p)
    BY <1>0, <1>1 DEF Mail, Fits
  <2>2. ~ Fails(p)
    BY <1>3 DEF Fails
  <2>3. ~ Ends(p)
    BY <1>0 DEF Ends, Takes, Fits
  <2> QED  BY <1>8, <2>1, <2>2, <2>3
<1>9. CASE GenerateRead(p) \/ RemindRead(p) \/ OverdueRead(p) \/ \E u \in Units : Post(p, u)
  BY <1>1, <1>9 DEF GenerateRead, RemindRead, OverdueRead, Post, Is
<1> QED  BY <1>4, <1>5, <1>6, <1>7, <1>8, <1>9 DEF RunStep

\* No card is ever taken away.
LEMMA CardsStay ==
    ASSUME TypeOK, Next
    PROVE  \A r \in Reservations : cards[r] # {} => cards'[r] # {}
<1>1. ASSUME NEW p \in Processes, Save(p)
      PROVE  \A r \in Reservations : cards[r] # {} => cards'[r] # {}
  BY <1>1, TypeGives DEF Save, CardSets
<1>2. ASSUME NEW p \in Processes, RunStep(p), ~Save(p)  PROVE UNCHANGED cards
  <2>1. CASE \/ Arrivals(p) \/ Invoice(p) \/ GenerateRead(p) \/ RemindRead(p)
             \/ OverdueRead(p) \/ Mail(p) \/ Ends(p) \/ Fails(p)
    BY <2>1 DEF Arrivals, Invoice, GenerateRead, RemindRead, OverdueRead, Lists, NotToday, Mail,
                Ends, Fails, Invoices
  <2>2. CASE \E r \in Reservations : Check(p, r)
    BY <2>2 DEF Check, Invoices
  <2>3. CASE \E u \in Units : Post(p, u)
    BY <2>3 DEF Post, Invoices
  <2> QED  BY <1>2, <2>1, <2>2, <2>3 DEF RunStep
<1>3. ASSUME NEW p \in Processes, Begin(p)  PROVE UNCHANGED cards
  BY <1>3 DEF Begin, BillingTimer, PaymentsTimer, ByHand, Invoices
<1>4. CASE Down \/ Crash \/ NextDay \/ (\E r \in Reservations, b \in Booking : Rebook(r, b))
           \/ (\E c \in Concepts : OwnerPays(c))
  BY <1>4 DEF Down, Crash, NextDay, Rebook, OwnerPays, Invoices
<1> QED  BY <1>1, <1>2, <1>3, <1>4 DEF Next, RunStep, Begin

\* Next, by the parts these proofs tell apart.
LEMMA NextParts ==
    ASSUME Next
    PROVE  \/ \E p \in Processes : RunStep(p) \/ Begin(p)
           \/ Down \/ Crash \/ NextDay
           \/ \E r \in Reservations, b \in Booking : Rebook(r, b)
           \/ \E c \in Concepts : OwnerPays(c)
  BY DEF Next, RunStep, Begin

\* A crash is trouble for every kind of run under way.
LEMMA CrashTroubles ==
    ASSUME TypeOK, Crash, NEW p \in Processes, job[p].op # "none"
    PROVE  <<Kind(job[p].op), day>> \in troubled'
<1> DEFINE kinds == {Kind(job[q].op) : q \in {q \in Processes : job[q] # Idle}}
<1>1. Goes("crash", kinds)
  BY DEF Crash
<1>2. Kind(job[p].op) \in kinds
  BY DEF Idle
<1> QED
  <2> HIDE DEF kinds
  <2> QED  BY <1>1, <1>2, GoesIsTold

LEMMA BillingStep ==
    ASSUME TypeOK, Dated, Readied, Next, NEW r \in Reservations, Billing(r)
    PROVE  Billing(r)'
<1> DEFINE on == BillDay(r)
<1>a. CASE booking'[r] = booking[r] /\ ready'[r] = ready[r]
  <2> SUFFICES ASSUME ToBill(r)', <<"bill", on>> \notin troubled'
               PROVE  /\ day' > on => cards'[r] # {}
                      /\ day' = on =>
                           cards'[r] # {} \/ "bill" \in due' \/ \E p \in Processes : Takes(p, r)'
    BY <1>a DEF Billing, Calm, BillDay
  <2>t. ToBill(r)
    BY <1>a DEF ToBill, BillDay
  <2>0. job \in [Processes -> Job] /\ on \in Int /\ day \in Nat
    BY TypeGives, DayType, DateType DEF BillDay
  <2>1. cards[r] # {} => cards'[r] # {}
    BY CardsStay
  <2>2. ASSUME NEW p \in Processes, RunStep(p)
        PROVE  /\ day' > on => cards'[r] # {}
               /\ day' = on => cards'[r] # {} \/ "bill" \in due' \/ \E q \in Processes : Takes(q, r)'
    <3>1. UNCHANGED <<day, due>> /\ troubled \subseteq troubled'
          /\ \A q \in Processes : q # p => job'[q] = job[q]
      BY <2>2, RunLeaves, RunTroubles, RunGoesOn
    <3>2. ToBill(r) /\ Calm("bill", on)
      BY <2>t, <3>1 DEF Calm
    <3>3. ASSUME day = on, NEW q \in Processes, Takes(q, r)
          PROVE  cards'[r] # {} \/ \E k \in Processes : Takes(k, r)'
      <4>1. CASE q = p
        BY <2>2, <3>1, <3>2, <3>3, <4>1, TakesOn DEF ToBill, Readied
      <4>2. CASE q # p
        BY <3>1, <3>3, <4>2 DEF Takes
      <4> QED  BY <4>1, <4>2
    <3> QED  BY <2>1, <3>1, <3>2, <3>3 DEF Billing
  <2>3. ASSUME NEW p \in Processes, Begin(p)
        PROVE  /\ day' > on => cards'[r] # {}
               /\ day' = on => cards'[r] # {} \/ "bill" \in due' \/ \E q \in Processes : Takes(q, r)'
    <3>1. job[p] = Idle /\ (\A q \in Processes : q # p => job'[q] = job[q])
          /\ UNCHANGED <<day, troubled>>
      BY <2>3, DatedBegin
    <3>2. ToBill(r) /\ Calm("bill", on)
      BY <2>t, <3>1 DEF Calm
    <3>3. ~ Takes(p, r)
      BY <3>1 DEF Takes, Idle
    <3>4. \A q \in Processes : Takes(q, r) => Takes(q, r)'
      BY <3>1, <3>3 DEF Takes
    <3>5. "bill" \in due => "bill" \in due' \/ Takes(p, r)'
      BY <2>0, <2>3 DEF Begin, BillingTimer, PaymentsTimer, ByHand, Takes, Run
    <3> QED  BY <2>1, <3>1, <3>2, <3>4, <3>5 DEF Billing
  <2>4. CASE Down
    <3>1. UNCHANGED <<day, job>> /\ Goes("down", due)
      BY <2>4 DEF Down, Hostaway
    <3>2. troubled \subseteq troubled' /\ ("bill" \in due => <<"bill", day>> \in troubled')
      BY <3>1, GoesIsTold
    <3>3. ToBill(r) /\ Calm("bill", on)
      BY <2>t, <3>1, <3>2 DEF Calm
    <3>4. \A q \in Processes : Takes(q, r) => Takes(q, r)'
      BY <3>1 DEF Takes
    <3> QED  BY <2>1, <3>1, <3>2, <3>3, <3>4 DEF Billing
  <2>5. CASE Crash
    <3>1. UNCHANGED <<day, due>>
      BY <2>5 DEF Crash, Hostaway, Bounds
    <3>2. troubled \subseteq troubled'
      BY <2>5, GoesIsTold DEF Crash
    <3>3. ToBill(r) /\ Calm("bill", on)
      BY <2>t, <3>1, <3>2 DEF Calm
    <3>4. \A q \in Processes : Takes(q, r) => <<"bill", day>> \in troubled'
      <4> TAKE q \in Processes
      <4> HAVE Takes(q, r)
      <4>1. job[q].op = "bill"
        BY DEF Takes
      <4> QED  BY <2>5, <4>1, CrashTroubles DEF Kind
    <3> QED  BY <2>1, <3>1, <3>2, <3>3, <3>4 DEF Billing
  <2>6. CASE NextDay
    <3>1. /\ day' = day + 1 /\ due = {} /\ due' = {"bill", "pay"} /\ UNCHANGED troubled
          /\ \A p \in Processes : job[p] = Idle
      BY <2>6 DEF NextDay, Well
    <3>2. ToBill(r) /\ Calm("bill", on)
      BY <2>t, <3>1 DEF Calm
    <3>3. \A p \in Processes : ~ Takes(p, r)
      BY <3>1 DEF Takes, Idle
    <3>4. day >= on => cards[r] # {}
      BY <2>0, <3>1, <3>2, <3>3 DEF Billing
    <3> QED  BY <2>0, <2>1, <3>1, <3>4
  <2>7. CASE (\E s \in Reservations, b \in Booking : Rebook(s, b)) \/ (\E c \in Concepts : OwnerPays(c))
    <3>1. UNCHANGED <<day, due, job, troubled>>
      BY <2>7 DEF Rebook, OwnerPays, Hostaway, Bounds, Well
    <3>2. ToBill(r) /\ Calm("bill", on)
      BY <2>t, <3>1 DEF Calm
    <3>3. \A q \in Processes : Takes(q, r) => Takes(q, r)'
      BY <3>1 DEF Takes
    <3> QED  BY <2>1, <3>1, <3>2, <3>3 DEF Billing
  <2> QED  BY <2>2, <2>3, <2>4, <2>5, <2>6, <2>7, NextParts
<1>b. CASE ~(booking'[r] = booking[r] /\ ready'[r] = ready[r])
  <2>0. booking \in [Reservations -> Booking] /\ ready \in [Reservations -> Nat]
    BY TypeGives
  <2>1. PICK s \in Reservations, b \in Booking : Rebook(s, b)
    <3>1. ASSUME NEW p \in Processes, RunStep(p) \/ Begin(p)  PROVE UNCHANGED <<booking, ready>>
      BY <3>1, RunLeaves, DatedBegin
    <3>2. CASE Down \/ Crash \/ NextDay \/ \E c \in Concepts : OwnerPays(c)
      BY <1>b, <3>2 DEF Down, Crash, NextDay, OwnerPays, Hostaway
    <3> QED  BY <1>b, <3>1, <3>2, NextParts
  <2>2. s = r /\ ready'[r] \in {0, day} /\ day' = day
    BY <1>b, <2>0, <2>1 DEF Rebook
  <2>3. SUFFICES ASSUME ToBill(r)'  PROVE Billing(r)'
    BY DEF Billing
  <2>4. day' < BillDay(r)'
    BY <2>2, <2>3 DEF ToBill
  <2>5. day' \in Nat /\ BillDay(r)' \in Int
    <3>1. booking'[r] \in Booking
      BY <2>0, <2>1, <2>2 DEF Rebook
    <3>2. booking'[r].arrival \in ArrivalDates
      BY <3>1 DEF Booking
    <3>3. Zone \in Nat /\ booking'[r].arrival \in Nat /\ Zone' = Zone
      BY <3>2, ArrivalAssumption
    <3>4. BillDay(r)' = booking'[r].arrival - Zone
      BY DEF BillDay
    <3> QED  BY <2>2, <3>3, <3>4, DayType
  <2> QED  BY <2>4, <2>5 DEF Billing
<1> QED  BY <1>a, <1>b

\* Only what is to be billed is ready.
LEMMA ReadiedStep ==
    ASSUME TypeOK, Dated, Readied, Next
    PROVE  Readied'
<1>0. booking \in [Reservations -> Booking] /\ ready \in [Reservations -> Nat]
  BY TypeGives
<1>1. ASSUME NEW p \in Processes, RunStep(p) \/ Begin(p)  PROVE UNCHANGED <<booking, ready>>
  BY <1>1, RunLeaves, DatedBegin
<1>2. CASE Down \/ Crash \/ NextDay \/ \E c \in Concepts : OwnerPays(c)
  BY <1>2 DEF Down, Crash, NextDay, OwnerPays, Hostaway, Readied
<1>3. ASSUME NEW s \in Reservations, NEW b \in Booking, Rebook(s, b)  PROVE Readied'
  BY <1>0, <1>3 DEF Rebook, Readied
<1> QED  BY <1>1, <1>2, <1>3, NextParts DEF Readied

-----------------------------------------------------------------------------
(* The payments.                                                           *)

\* A day tells its month.
LEMMA MonthIs ==
    ASSUME TypeOK, NEW m \in Periods, Start[m] <= day, day < Start[m + 1]
    PROVE  month = m
<1>1. /\ month \in Periods /\ Start[month] <= day /\ day < Start[month + 1]
      /\ day \in Nat /\ month \in Nat /\ m \in Nat
      /\ Start[m] \in Nat /\ Start[m + 1] \in Nat
      /\ Start[month] \in Nat /\ Start[month + 1] \in Nat
  <2>1. month \in Periods /\ day \in Start[month]..Start[month + 1] - 1
    BY TypeGives
  <2>2. \A k \in Periods : k \in Nat /\ Start[k] \in Nat /\ Start[k + 1] \in Nat
    BY Calendar DEF Periods
  <2>3. day \in Nat
    BY DayType
  <2> QED  BY <2>1, <2>2, <2>3
<1>2. month + 1 \in 1..Len(Start) /\ m + 1 \in 1..Len(Start)
  BY <1>1, Calendar
<1>3. ASSUME month < m  PROVE FALSE
  <2>1. month + 1 < m => Start[month + 1] < Start[m]
    BY <1>1, <1>2, <1>3, StartAssumption, Calendar DEF Periods
  <2>2. month + 1 = m => Start[month + 1] = Start[m]
    OBVIOUS
  <2> QED  BY <1>1, <1>3, <2>1, <2>2
<1>4. ASSUME m < month  PROVE FALSE
  <2>1. m + 1 < month => Start[m + 1] < Start[month]
    BY <1>1, <1>2, <1>4, StartAssumption, Calendar DEF Periods
  <2>2. m + 1 = month => Start[m + 1] = Start[month]
    OBVIOUS
  <2> QED  BY <1>1, <1>4, <2>1, <2>2
<1> QED  BY <1>1, <1>3, <1>4

\* Payments and mails stay, and a payment gets its day with its first card.
LEMMA PaymentsStay ==
    ASSUME TypeOK, Noted, Next
    PROVE  /\ Noted' /\ told \subseteq told' /\ settled \subseteq settled'
           /\ \A c \in Concepts : charges[c] > 0 => charges'[c] > 0
           /\ \A c \in Concepts :
                since'[c] = since[c] \/ (since[c] = 0 /\ since'[c] = day /\ day' = day)
<1>0. charges \in [Concepts -> Nat] /\ since \in [Concepts -> Nat] /\ day \in Nat \ {0}
  <2>1. Start[month] \in Nat \ {0} /\ day \in Start[month]..Start[month + 1] - 1
        /\ Start[month + 1] \in Nat
    BY TypeGives, Calendar DEF Periods
  <2> QED  BY <2>1, TypeGives
<1>1. ASSUME NEW p \in Processes, NEW u \in Units, Post(p, u)
      PROVE  /\ Noted' /\ told \subseteq told' /\ settled \subseteq settled'
             /\ \A c \in Concepts : charges[c] > 0 => charges'[c] > 0
             /\ \A c \in Concepts :
                  since'[c] = since[c] \/ (since[c] = 0 /\ since'[c] = day /\ day' = day)
  <2> DEFINE x == <<u, job[p].date>>
  <2>1. x \in Concepts
    BY <1>1, TypeGives DEF Post, Is, Fits, Concepts
  <2>2. PICK made \in BOOLEAN :
          /\ charges' = IF made THEN [charges EXCEPT ![x] = @ + 1] ELSE charges
          /\ since' = IF made /\ since[x] = 0 THEN [since EXCEPT ![x] = day] ELSE since
    BY <1>1 DEF Post
  <2>3. UNCHANGED <<day, settled, told>>
    BY <1>1 DEF Post, Hostaway
  <2>4. CASE ~made
    BY <2>2, <2>3, <2>4 DEF Noted
  <2>5. CASE made
    <3> HIDE DEF x
    <3>1. /\ charges'[x] = charges[x] + 1
          /\ since'[x] = IF since[x] = 0 THEN day ELSE since[x]
          /\ \A c \in Concepts : c # x => charges'[c] = charges[c] /\ since'[c] = since[c]
      BY <1>0, <2>1, <2>2, <2>5
    <3>2. charges[x] \in Nat /\ since[x] \in Nat
      BY <1>0, <2>1
    <3> QED  BY <1>0, <2>1, <2>3, <3>1, <3>2 DEF Noted
  <2> QED  BY <2>4, <2>5
<1>2. ASSUME NEW p \in Processes, Mail(p)
      PROVE  UNCHANGED <<day, charges, since, settled>> /\ told \subseteq told'
  BY <1>2 DEF Mail, Hostaway
<1>3. ASSUME NEW p \in Processes, RunStep(p), ~Mail(p), \A u \in Units : ~Post(p, u)
      PROVE  UNCHANGED <<day, Payments>>
  <2>1. CASE \/ Arrivals(p) \/ Invoice(p) \/ Save(p) \/ GenerateRead(p) \/ RemindRead(p)
             \/ OverdueRead(p) \/ Ends(p) \/ Fails(p)
    BY <2>1 DEF Arrivals, Invoice, Save, GenerateRead, RemindRead, OverdueRead, Lists, NotToday,
                Ends, Fails, Hostaway
  <2>2. CASE \E r \in Reservations : Check(p, r)
    BY <2>2 DEF Check, Hostaway
  <2> QED  BY <1>3, <2>1, <2>2 DEF RunStep
<1>4. ASSUME NEW p \in Processes, Begin(p)  PROVE UNCHANGED <<day, Payments>>
  BY <1>4 DEF Begin, BillingTimer, PaymentsTimer, ByHand, Hostaway
<1>5. CASE Down \/ Crash \/ NextDay \/ (\E r \in Reservations, b \in Booking : Rebook(r, b))
  <2>1. UNCHANGED Payments /\ (day' = day \/ day' = day + 1)
    BY <1>5 DEF Down, Crash, NextDay, Rebook, Hostaway
  <2> QED  BY <1>0, <2>1 DEF Payments, Noted
<1>6. CASE \E c \in Concepts : OwnerPays(c)
  BY <1>6 DEF OwnerPays, Hostaway, Noted
<1>7. ASSUME UNCHANGED <<day, Payments>>
      PROVE  /\ Noted' /\ told \subseteq told' /\ settled \subseteq settled'
             /\ \A c \in Concepts : charges[c] > 0 => charges'[c] > 0
             /\ \A c \in Concepts :
                  since'[c] = since[c] \/ (since[c] = 0 /\ since'[c] = day /\ day' = day)
  BY <1>7 DEF Payments, Noted
<1>8. ASSUME NEW p \in Processes, RunStep(p)
      PROVE  /\ Noted' /\ told \subseteq told' /\ settled \subseteq settled'
             /\ \A c \in Concepts : charges[c] > 0 => charges'[c] > 0
             /\ \A c \in Concepts :
                  since'[c] = since[c] \/ (since[c] = 0 /\ since'[c] = day /\ day' = day)
  <2>1. CASE Mail(p)
    BY <1>2, <2>1 DEF Noted
  <2> QED  BY <1>1, <1>3, <1>7, <1>8, <2>1
<1> QED  BY <1>4, <1>5, <1>6, <1>7, <1>8, NextParts

\* The generation of the timer keeps at a unit until it has its payment, or trouble.
LEMMA GeneratesOn ==
    ASSUME TypeOK, Dated, Noted, NEW p \in Processes, RunStep(p),
           NEW u \in Units, NEW m \in Periods, ToCharge(m), day = Emission(m),
           Generates(p, u), <<"pay", day>> \notin troubled'
    PROVE  Generates(p, u)' \/ charges'[<<u, m>>] > 0 \/ Had(u, m)
<1>0. job \in [Processes -> Job] /\ charges \in [Concepts -> Nat] /\ <<u, m>> \in Concepts
      /\ day \in Nat /\ Start[m] \in Nat /\ Start[m + 1] \in Nat
  BY TypeGives, DayType, Calendar DEF Concepts, Periods
<1>1. month = m /\ DayOfMonth = Emision
  <2>1. Start[m] <= day /\ day < Start[m + 1] /\ day - Start[m] + 1 = Emision
    BY <1>0, DaysAssumption DEF ToCharge, Emission
  <2> QED  BY <2>1, MonthIs DEF DayOfMonth
<1>2. job[p].op = "generate" /\ job[p].timer /\ job[p].date = m
  BY <1>1 DEF Generates, Dated
<1>3. \A operation : ~ Wrong(operation, p)
  BY <1>2, WrongIsTold DEF Kind
<1>4. CASE GenerateRead(p)
  <2>1. PICK units \in {Units, {v \in Units : ~Existing(v, m)}} :
          job' = [job EXCEPT ![p] = Pays(job[p], units, {})]
    BY <1>1, <1>2, <1>4 DEF GenerateRead
  <2>2. UNCHANGED charges
    BY <1>4 DEF GenerateRead, Payments
  <2>3. Existing(u, m) => Had(u, m)
    <3>1. SUFFICES ASSUME NEW k \in Periods, charges[<<u, k>>] > 0  PROVE Had(u, m)
      BY DEF Existing
    <3>2. <<u, k>> \in Concepts
      BY DEF Concepts
    <3>3. since[<<u, k>>] \in Nat /\ since[<<u, k>>] # 0 /\ since[<<u, k>>] <= Emission(m)
      BY <3>1, <3>2, TypeGives DEF Noted
    <3>4. since[<<u, k>>] \in 1..Emission(m)
      BY <1>0, <3>3
    <3> QED  BY <3>4 DEF Had
  <2>4. job'[p] = Pays(job[p], units, {})
    BY <1>0, <2>1
  <2>5. u \in units => Generates(p, u)'
    BY <1>2, <2>4 DEF Generates, Pays
  <2> QED  BY <2>1, <2>2, <2>3, <2>5
<1>5. ASSUME NEW v \in Units, Post(p, v)  PROVE Generates(p, u)' \/ charges'[<<u, m>>] > 0
  <2>1. PICK made \in BOOLEAN, bad \in BOOLEAN :
          /\ CASE made /\ ~bad -> Well
               [] made /\ bad -> Wrong("lost", p)
               [] OTHER -> bad /\ Wrong("fault", p)
          /\ charges' = IF made THEN [charges EXCEPT ![<<v, m>>] = @ + 1] ELSE charges
          /\ job' = [job EXCEPT ![p] = Pays(job[p], job[p].create \ {v},
               IF bad THEN job[p].mail ELSE job[p].mail \cup {<<v, m>>})]
    BY <1>2, <1>5 DEF Post
  <2>2. made
    BY <1>3, <2>1
  <2>3. u \in job[p].create
    BY <1>5 DEF Generates, Post, Is
  <2>4. CASE v = u
    BY <1>0, <2>1, <2>2, <2>4
  <2>5. CASE v # u
    <3>1. job'[p] = Pays(job[p], job[p].create \ {v},
                         IF bad THEN job[p].mail ELSE job[p].mail \cup {<<v, m>>})
      BY <1>0, <2>1
    <3> QED  BY <1>2, <2>3, <2>5, <3>1 DEF Generates, Pays
  <2> QED  BY <2>4, <2>5
<1>6. ~ Mail(p) /\ ~ Ends(p)
  BY DEF Mail, Ends, Generates
<1>7. ~ Fails(p)
  BY <1>3 DEF Fails
<1>8. ~ (Arrivals(p) \/ Invoice(p) \/ Save(p) \/ RemindRead(p) \/ OverdueRead(p))
  BY <1>2 DEF Arrivals, Invoice, Save, RemindRead, OverdueRead, Is
<1>9. \A r \in Reservations : ~ Check(p, r)
  BY <1>2 DEF Check, Is
<1> QED  BY <1>4, <1>5, <1>6, <1>7, <1>8, <1>9 DEF RunStep

LEMMA ChargingStep ==
    ASSUME TypeOK, Dated, Noted, Next, NEW u \in Units, NEW m \in Periods,
           Charging(u, m)
    PROVE  Charging(u, m)'
<1> DEFINE on == Emission(m)
<1> SUFFICES ASSUME ToCharge(m), <<"pay", on>> \notin troubled'
             PROVE  /\ day' > on => Had(u, m)'
                    /\ day' = on => \/ Had(u, m)' \/ "pay" \in due'
                                    \/ \E p \in Processes : Generates(p, u)'
  BY DEF Charging, Calm, Emission, ToCharge
<1>j. job \in [Processes -> Job]
  BY TypeGives
<1>d. day \in Nat
  BY DayType
<1>e. on \in Int
  BY Calendar, DaysAssumption DEF Emission, Periods
<1>0. job \in [Processes -> Job] /\ on \in Int /\ day \in Nat
  BY <1>j, <1>d, <1>e
<1>1. Had(u, m) => Had(u, m)'
  <2>1. \A k \in Periods : <<u, k>> \in Concepts
    BY DEF Concepts
  <2>2. ASSUME NEW k \in Periods, since[<<u, k>>] \in 1..Emission(m)
        PROVE  since'[<<u, k>>] \in 1..Emission(m)
    BY <2>1, <2>2, PaymentsStay
  <2>3. charges[<<u, m>>] > 0 => charges'[<<u, m>>] > 0
    BY <2>1, PaymentsStay
  <2> QED  BY <2>2, <2>3 DEF Had, Emission
<1>2. ASSUME NEW p \in Processes, RunStep(p)
      PROVE  /\ day' > on => Had(u, m)'
             /\ day' = on => \/ Had(u, m)' \/ "pay" \in due'
                             \/ \E q \in Processes : Generates(q, u)'
  <2>1. UNCHANGED <<day, due>> /\ troubled \subseteq troubled'
        /\ \A q \in Processes : q # p => job'[q] = job[q]
    BY <1>2, RunLeaves, RunTroubles, RunGoesOn
  <2>2. Calm("pay", on)
    BY <2>1 DEF Calm, Emission
  <2>3. ASSUME day = on, NEW q \in Processes, Generates(q, u)
        PROVE  Had(u, m)' \/ \E k \in Processes : Generates(k, u)'
    <3>1. CASE q = p
      BY <1>1, <1>2, <2>1, <2>2, <2>3, <3>1, GeneratesOn DEF Had, Calm
    <3>2. CASE q # p
      BY <2>1, <2>3, <3>2 DEF Generates
    <3> QED  BY <3>1, <3>2
  <2> QED  BY <1>1, <2>1, <2>2, <2>3 DEF Charging
<1>3. ASSUME NEW p \in Processes, Begin(p)
      PROVE  /\ day' > on => Had(u, m)'
             /\ day' = on => \/ Had(u, m)' \/ "pay" \in due'
                             \/ \E q \in Processes : Generates(q, u)'
  <2>1. job[p] = Idle /\ (\A q \in Processes : q # p => job'[q] = job[q])
        /\ UNCHANGED <<day, troubled>>
    BY <1>3, DatedBegin
  <2>2. Calm("pay", on)
    BY <2>1 DEF Calm, Emission
  <2>3. ~ Generates(p, u)
    BY <2>1 DEF Generates, Idle
  <2>4. \A q \in Processes : Generates(q, u) => Generates(q, u)'
    BY <2>1, <2>3 DEF Generates
  <2>5. "pay" \in due => "pay" \in due' \/ Generates(p, u)'
    BY <1>0, <1>3 DEF Begin, BillingTimer, PaymentsTimer, ByHand, Generates, Run
  <2> QED  BY <1>1, <2>1, <2>2, <2>4, <2>5 DEF Charging
<1>4. CASE Down
  <2>1. UNCHANGED <<day, job>> /\ Goes("down", due)
    BY <1>4 DEF Down, Hostaway
  <2>2. troubled \subseteq troubled' /\ ("pay" \in due => <<"pay", day>> \in troubled')
    BY <2>1, GoesIsTold
  <2>3. Calm("pay", on)
    BY <2>2 DEF Calm, Emission
  <2>4. \A q \in Processes : Generates(q, u) => Generates(q, u)'
    BY <2>1 DEF Generates
  <2> QED  BY <1>1, <2>1, <2>2, <2>3, <2>4 DEF Charging
<1>5. CASE Crash
  <2>1. UNCHANGED <<day, due>>
    BY <1>5 DEF Crash, Hostaway, Bounds
  <2>2. troubled \subseteq troubled'
    BY <1>5, GoesIsTold DEF Crash
  <2>3. Calm("pay", on)
    BY <2>2 DEF Calm, Emission
  <2>4. \A q \in Processes : Generates(q, u) => <<"pay", day>> \in troubled'
    <3> TAKE q \in Processes
    <3> HAVE Generates(q, u)
    <3>1. job[q].op = "generate"
      BY DEF Generates
    <3> QED  BY <1>5, <3>1, CrashTroubles DEF Kind
  <2> QED  BY <1>1, <2>1, <2>2, <2>3, <2>4 DEF Charging
<1>6. CASE NextDay
  <2>1. /\ day' = day + 1 /\ due = {} /\ due' = {"bill", "pay"} /\ UNCHANGED troubled
        /\ \A p \in Processes : job[p] = Idle
    BY <1>6 DEF NextDay, Well
  <2>2. Calm("pay", on)
    BY <2>1 DEF Calm, Emission
  <2>3. \A p \in Processes : ~ Generates(p, u)
    BY <2>1 DEF Generates, Idle
  <2>4. day >= on => Had(u, m)
    BY <1>0, <2>1, <2>2, <2>3 DEF Charging
  <2> QED  BY <1>0, <1>1, <2>1, <2>4
<1>7. CASE (\E r \in Reservations, b \in Booking : Rebook(r, b)) \/ (\E c \in Concepts : OwnerPays(c))
  <2>1. UNCHANGED <<day, due, job, troubled>>
    BY <1>7 DEF Rebook, OwnerPays, Hostaway, Bounds, Well
  <2>2. Calm("pay", on)
    BY <2>1 DEF Calm, Emission
  <2>3. \A q \in Processes : Generates(q, u) => Generates(q, u)'
    BY <2>1 DEF Generates
  <2> QED  BY <1>1, <2>1, <2>2, <2>3 DEF Charging
<1> QED  BY <1>2, <1>3, <1>4, <1>5, <1>6, <1>7, NextParts

\* The run of the timer keeps at a reminder until it is sent, or trouble.
LEMMA RemindsOn ==
    ASSUME TypeOK, Dated, Noted, NEW p \in Processes, RunStep(p), NEW c \in Concepts,
           ToRemind(c), day = Eve(c[2]), Reminds(p, c), <<"pay", day>> \notin troubled'
    PROVE  Reminds(p, c)' \/ <<"remind", c>> \in told'
<1>0. job \in [Processes -> Job] /\ Fits(job[p]) /\ c[2] \in Periods
  BY TypeGives DEF Concepts
<1>1. month = c[2]
  BY <1>0, MonthIs DEF ToRemind
<1>2. job[p].timer /\ job[p].op \in {"generate", "remind"} /\ job[p].date = c[2]
  BY <1>1 DEF Reminds, Dated
<1>3. \A operation : ~ Wrong(operation, p)
  BY <1>2, WrongIsTold DEF Kind
<1>4. CASE job[p].op = "generate"
  BY <1>0, <1>2, <1>4, RunGoesOn, AfterIs DEF Reminds
<1>5. CASE job[p].op = "remind"
  <2>1. CASE RemindRead(p)
    <3>1. ReminderDay(job[p].date)
      BY <1>2 DEF Eve, ReminderDay
    <3>2. job' = [job EXCEPT ![p] = Pays(job[p], {}, Pending)]
      BY <1>3, <2>1, <3>1 DEF RemindRead, Lists
    <3>3. c \in Pending
      BY DEF Pending, Noted, ToRemind
    <3> HIDE DEF Pending
    <3>4. job'[p] = Pays(job[p], {}, Pending)
      BY <1>0, <3>2
    <3> QED  BY <1>2, <1>5, <3>3, <3>4 DEF Reminds, Pays
  <2>2. CASE Mail(p)
    <3>1. PICK x \in job[p].mail :
            /\ told' = told \cup {<<job[p].op, x>>}
            /\ job' = [job EXCEPT ![p] = Pays(job[p], {}, job[p].mail \ {x})]
      BY <1>3, <2>2 DEF Mail
    <3>2. c \in job[p].mail
      BY <1>5, <2>2 DEF Reminds, Mail
    <3>3. CASE x = c
      BY <1>5, <3>1, <3>3
    <3>4. CASE x # c
      <4>1. job'[p] = Pays(job[p], {}, job[p].mail \ {x})
        BY <1>0, <3>1
      <4> QED  BY <1>2, <1>5, <3>2, <3>4, <4>1 DEF Reminds, Pays
    <3> QED  BY <3>3, <3>4
  <2>3. ~ Ends(p)
    BY <1>5 DEF Ends, Reminds
  <2>4. ~ Fails(p)
    BY <1>3 DEF Fails
  <2>5. ~ (Arrivals(p) \/ Invoice(p) \/ Save(p) \/ GenerateRead(p) \/ OverdueRead(p))
    BY <1>5 DEF Arrivals, Invoice, Save, GenerateRead, OverdueRead, Is
  <2>6. (\A r \in Reservations : ~ Check(p, r)) /\ \A u \in Units : ~ Post(p, u)
    BY <1>5 DEF Check, Post, Is
  <2> QED  BY <2>1, <2>2, <2>3, <2>4, <2>5, <2>6 DEF RunStep
<1> QED  BY <1>2, <1>4, <1>5

LEMMA EveType ==
    ASSUME NEW c \in Concepts
    PROVE  Eve(c[2]) \in Int
<1>1. c[2] \in Periods
  BY DEF Concepts
<1>2. Start[c[2]] \in Nat
  BY <1>1, Calendar DEF Periods
<1> QED  BY <1>2, DaysAssumption DEF Eve, DueDate

LEMMA RemindingStep ==
    ASSUME TypeOK, Dated, Noted, Next, NEW c \in Concepts, Reminding(c)
    PROVE  Reminding(c)'
<1> DEFINE on == Eve(c[2])
<1> SUFFICES ASSUME ToRemind(c)', <<"pay", on>> \notin troubled'
             PROVE  /\ day' > on => <<"remind", c>> \in told'
                    /\ day' = on => \/ <<"remind", c>> \in told' \/ "pay" \in due'
                                    \/ \E p \in Processes : Reminds(p, c)'
  BY DEF Reminding, Calm, Eve, DueDate
<1>0. job \in [Processes -> Job] /\ on \in Int /\ day \in Nat
  BY TypeGives, DayType, EveType
<1>1. <<"remind", c>> \in told => <<"remind", c>> \in told'
  BY PaymentsStay
<1>a. CASE ~ ToRemind(c)
  <2>1. c \notin settled /\ (since'[c] = since[c] \/ (since'[c] = day /\ day' = day))
    BY PaymentsStay DEF ToRemind
  <2>2. since'[c] = day /\ day' = day /\ day < on
    BY <1>a, <2>1 DEF ToRemind, Eve, DueDate
  <2> QED  BY <1>0, <2>2
<1>b. CASE ToRemind(c)
  <2>1. ASSUME NEW p \in Processes, RunStep(p)
        PROVE  /\ day' > on => <<"remind", c>> \in told'
               /\ day' = on => \/ <<"remind", c>> \in told' \/ "pay" \in due'
                               \/ \E q \in Processes : Reminds(q, c)'
    <3>1. UNCHANGED <<day, due>> /\ troubled \subseteq troubled'
          /\ \A q \in Processes : q # p => job'[q] = job[q]
      BY <2>1, RunLeaves, RunTroubles, RunGoesOn
    <3>2. Calm("pay", on)
      BY <3>1 DEF Calm, Eve, DueDate
    <3>3. ASSUME day = on, NEW q \in Processes, Reminds(q, c)
          PROVE  <<"remind", c>> \in told' \/ \E k \in Processes : Reminds(k, c)'
      <4>1. CASE q = p
        BY <1>b, <2>1, <3>3, <4>1, RemindsOn
      <4>2. CASE q # p
        BY <3>1, <3>3, <4>2 DEF Reminds
      <4> QED  BY <4>1, <4>2
    <3> QED  BY <1>1, <1>b, <3>1, <3>2, <3>3 DEF Reminding
  <2>2. ASSUME NEW p \in Processes, Begin(p)
        PROVE  /\ day' > on => <<"remind", c>> \in told'
               /\ day' = on => \/ <<"remind", c>> \in told' \/ "pay" \in due'
                               \/ \E q \in Processes : Reminds(q, c)'
    <3>1. job[p] = Idle /\ (\A q \in Processes : q # p => job'[q] = job[q])
          /\ UNCHANGED <<day, troubled>>
      BY <2>2, DatedBegin
    <3>2. Calm("pay", on)
      BY <3>1 DEF Calm, Eve, DueDate
    <3>3. ~ Reminds(p, c)
      BY <3>1 DEF Reminds, Idle
    <3>4. \A q \in Processes : Reminds(q, c) => Reminds(q, c)'
      BY <3>1, <3>3 DEF Reminds
    <3>5. "pay" \in due => "pay" \in due' \/ Reminds(p, c)'
      BY <1>0, <2>2 DEF Begin, BillingTimer, PaymentsTimer, ByHand, Reminds, Run
    <3> QED  BY <1>1, <1>b, <3>1, <3>2, <3>4, <3>5 DEF Reminding
  <2>3. CASE Down
    <3>1. UNCHANGED <<day, job>> /\ Goes("down", due)
      BY <2>3 DEF Down, Hostaway
    <3>2. troubled \subseteq troubled' /\ ("pay" \in due => <<"pay", day>> \in troubled')
      BY <3>1, GoesIsTold
    <3>3. Calm("pay", on)
      BY <3>2 DEF Calm, Eve, DueDate
    <3>4. \A q \in Processes : Reminds(q, c) => Reminds(q, c)'
      BY <3>1 DEF Reminds
    <3> QED  BY <1>1, <1>b, <3>1, <3>2, <3>3, <3>4 DEF Reminding
  <2>4. CASE Crash
    <3>1. UNCHANGED <<day, due>>
      BY <2>4 DEF Crash, Hostaway, Bounds
    <3>2. troubled \subseteq troubled'
      BY <2>4, GoesIsTold DEF Crash
    <3>3. Calm("pay", on)
      BY <3>2 DEF Calm, Eve, DueDate
    <3>4. \A q \in Processes : Reminds(q, c) => <<"pay", day>> \in troubled'
      <4> TAKE q \in Processes
      <4> HAVE Reminds(q, c)
      <4>1. job[q].op \in {"generate", "remind"}
        BY DEF Reminds
      <4> QED  BY <2>4, <4>1, CrashTroubles DEF Kind
    <3> QED  BY <1>1, <1>b, <3>1, <3>2, <3>3, <3>4 DEF Reminding
  <2>5. CASE NextDay
    <3>1. /\ day' = day + 1 /\ due = {} /\ due' = {"bill", "pay"} /\ UNCHANGED troubled
          /\ \A p \in Processes : job[p] = Idle
      BY <2>5 DEF NextDay, Well
    <3>2. Calm("pay", on)
      BY <3>1 DEF Calm, Eve, DueDate
    <3>3. \A p \in Processes : ~ Reminds(p, c)
      BY <3>1 DEF Reminds, Idle
    <3>4. day >= on => <<"remind", c>> \in told
      BY <1>0, <1>b, <3>1, <3>2, <3>3 DEF Reminding
    <3> QED  BY <1>0, <1>1, <3>1, <3>4
  <2>6. CASE (\E r \in Reservations, b \in Booking : Rebook(r, b)) \/ (\E k \in Concepts : OwnerPays(k))
    <3>1. UNCHANGED <<day, due, job, troubled>>
      BY <2>6 DEF Rebook, OwnerPays, Hostaway, Bounds, Well
    <3>2. Calm("pay", on)
      BY <3>1 DEF Calm, Eve, DueDate
    <3>3. \A q \in Processes : Reminds(q, c) => Reminds(q, c)'
      BY <3>1 DEF Reminds
    <3> QED  BY <1>1, <1>b, <3>1, <3>2, <3>3 DEF Reminding
  <2> QED  BY <2>1, <2>2, <2>3, <2>4, <2>5, <2>6, NextParts
<1> QED  BY <1>a, <1>b

-----------------------------------------------------------------------------
(* The invariant.                                                          *)

TInv ==
    /\ TypeOK /\ Dated /\ Noted /\ Readied
    /\ \A r \in Reservations : Billing(r)
    /\ \A u \in Units, m \in Periods : Charging(u, m)
    /\ \A c \in Concepts : Reminding(c)

LEMMA InitTInv == Init => TInv
<1> SUFFICES ASSUME Init  PROVE TInv
  OBVIOUS
<1>1. TypeOK
  BY InitTypes
<1>2. Dated /\ Noted /\ Readied
  BY DEF Init, Dated, Noted, Readied, Idle
<1>3. ASSUME NEW r \in Reservations  PROVE Billing(r)
  BY <1>3 DEF Init, Billing, ToBill
<1>4. ASSUME NEW u \in Units, NEW m \in Periods  PROVE Charging(u, m)
  <2>1. Start[m] \in Nat \ {0} /\ (Emision \in 1..Start[m + 1] - Start[m] => Emission(m) >= 1)
    BY Calendar, DaysAssumption DEF Periods, Emission
  <2>2. ToCharge(m) => ~ (day > Emission(m))
    BY <2>1, DaysAssumption DEF Init, ToCharge, Emission
  <2> QED  BY <2>2 DEF Charging, Init
<1>5. ASSUME NEW c \in Concepts  PROVE Reminding(c)
  BY <1>5 DEF Init, Reminding, ToRemind
<1> QED  BY <1>1, <1>2, <1>3, <1>4, <1>5 DEF TInv

LEMMA DatedWorld ==
    ASSUME TypeOK, Dated, Down \/ Crash \/ NextDay \/ (\E r \in Reservations, b \in Booking : Rebook(r, b))
                          \/ (\E c \in Concepts : OwnerPays(c))
    PROVE  Dated'
<1>1. CASE Down
  BY <1>1 DEF Down, Hostaway, Dated
<1>2. CASE Crash
  <2>1. \A p \in Processes : job'[p] = Idle
    BY <1>2 DEF Crash
  <2> QED  BY <2>1 DEF Dated, Idle
<1>3. CASE NextDay
  <2>1. \A p \in Processes : job'[p] = Idle
    BY <1>3 DEF NextDay
  <2> QED  BY <2>1 DEF Dated, Idle
<1>4. CASE (\E r \in Reservations, b \in Booking : Rebook(r, b)) \/ (\E c \in Concepts : OwnerPays(c))
  BY <1>4 DEF Rebook, OwnerPays, Hostaway, Dated
<1> QED  BY <1>1, <1>2, <1>3, <1>4

LEMMA StepTInv == TInv /\ [Next]_vars => TInv'
<1> SUFFICES ASSUME TInv, [Next]_vars  PROVE TInv'
  OBVIOUS
<1>1. TypeOK'
  BY StepTypes DEF TInv
<1>2. CASE UNCHANGED vars
  <2>1. Dated' /\ Noted' /\ Readied'
    BY <1>2 DEF TInv, vars, Dated, Noted, Readied
  <2>2. \A r \in Reservations : Billing(r)'
    BY <1>2 DEF TInv, vars, Billing, ToBill, Calm, BillDay, Takes
  <2>3. \A u \in Units, m \in Periods : Charging(u, m)'
    BY <1>2 DEF TInv, vars, Charging, ToCharge, Calm, Emission, Generates, Had
  <2>4. \A c \in Concepts : Reminding(c)'
    BY <1>2 DEF TInv, vars, Reminding, ToRemind, Calm, Eve, DueDate, Reminds
  <2> QED  BY <1>1, <2>1, <2>2, <2>3, <2>4 DEF TInv
<1>3. CASE Next
  <2>1. Dated'
    BY <1>3, DatedRun, DatedBegin, DatedWorld, NextParts DEF TInv
  <2>2. Noted' /\ Readied'
    BY <1>3, PaymentsStay, ReadiedStep DEF TInv
  <2>3. \A r \in Reservations : Billing(r)'
    BY <1>3, BillingStep DEF TInv
  <2>4. \A u \in Units, m \in Periods : Charging(u, m)'
    BY <1>3, ChargingStep DEF TInv
  <2>5. \A c \in Concepts : Reminding(c)'
    BY <1>3, RemindingStep DEF TInv
  <2> QED  BY <1>1, <2>1, <2>2, <2>3, <2>4, <2>5 DEF TInv
<1> QED  BY <1>2, <1>3

\* The inductive invariant: on a day without trouble the work that is due is done, or has a
\* timer or a run that will do it.
THEOREM TimersInvariance == Spec => []TInv
  BY InitTInv, StepTInv, PTL DEF Spec

-----------------------------------------------------------------------------
(* What it is for.                                                         *)

\* A reservation that is to be billed in time has its card the day after, whatever other runs
\* did that day, and whatever went wrong on the others.
THEOREM NobodyUnbilled == Spec => []PaidIsBilled
<1>1. TInv => PaidIsBilled
  BY DEF TInv, PaidIsBilled, Billing, ToBill, Calm, BillDay
<1> QED  BY <1>1, TimersInvariance, PTL

\* Whether openMAINT heeds the condition on the period or not, a unit without any payment is
\* charged on a day of emission that sees no trouble.
THEOREM NobodyUncharged == Spec => []UnchargedHadOne
<1>1. TInv => UnchargedHadOne
  BY DEF TInv, UnchargedHadOne, Emitted, Charging, Had, ToCharge, Calm, Emission
<1> QED  BY <1>1, TimersInvariance, PTL

\* The owner of a pending payment has been reminded when its due date comes.
THEOREM NobodyUnreminded == Spec => []RemindedBeforeDue
<1>1. TInv => RemindedBeforeDue
  <2> SUFFICES ASSUME TInv, NEW c \in Pending,
                      Start[c[2]] <= Eve(c[2]), Eve(c[2]) < Start[c[2] + 1],
                      since[c] < Eve(c[2]), day = Eve(c[2]) + 1, Calm("pay", Eve(c[2]))
               PROVE  <<"remind", c>> \in told
    BY DEF RemindedBeforeDue, Eve, Calm
  <2>1. c \in Concepts /\ ToRemind(c) /\ Reminding(c)
    BY DEF TInv, Pending, Noted, ToRemind
  <2>2. Eve(c[2]) \in Int
    BY <2>1, EveType
  <2>3. day > Eve(c[2])
    BY <2>2
  <2> QED  BY <2>1, <2>3 DEF Reminding
<1> QED  BY <1>1, TimersInvariance, PTL
=============================================================================
