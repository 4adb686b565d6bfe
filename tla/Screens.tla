------------------------------- MODULE Screens -------------------------------
(***************************************************************************)
(* One bill from the form, or the file, it is entered with to the screens  *)
(* it is shown on: parseBillForm, the instances generated for it, the      *)
(* kiosk's view and its events, the settings page, and the edit form that  *)
(* is filled in from the stored bill.  An instant is a number of hours     *)
(* since midnight UTC of day 0; the process runs in a time zone without    *)
(* daylight saving.  The read-only handlers are operators of the state     *)
(* they read; what several requests do to the tables at once is in Bills.  *)
(***************************************************************************)
EXTENDS DueDates, Money

CONSTANTS
    Cases,     \* the bills to enter, see Case
    MaxEdits,  \* bound: how often the edit form is saved
    DateTexts  \* the days a date field may hold

\* form: its fields as texts, a date as its day or Null; zone: hours ahead of UTC;
\* day: when it is entered; ahead: BillInstanceLookaheadDays; later: the moments,
\* in hours after the first one, at which the screens are looked at
Case == [form : [named : BOOLEAN, managed : BOOLEAN, connector : BOOLEAN,
                 schedule : {"monthly", "quarterly", "one_off", ""},
                 amount : Seq(Digit \cup {"-", "+", "."}),
                 day : Seq(Digit), start : Seq(Digit), date : DateTexts \cup {Null}],
         zone : (-12)..14, day : Nat, ahead : 0..89, later : SUBSET Nat]

\* the calendar reaches as far as the windows do
ASSUME ScreensAssumption ==
    /\ Cases \subseteq Case /\ MaxEdits \in Nat /\ DateTexts \subseteq Nat
    /\ \A c \in Cases : \A h \in c.later \cup {0} : \A d \in {0, c.ahead} :
         \E m \in DOMAIN First : InMonth(c.day + (h \div 24) + d, m)

VARIABLES
    case,    \* the case
    form,    \* the form submitted
    now,     \* the instant
    amount,  \* amount_cents
    insts,   \* the days of bt_bill_instances
    paid,    \* those that are paid
    edits,   \* how often the edit form was saved
    step     \* "form", "rejected", "generate", "stored"

loop  == <<def, from, to, cursor, out, pc>>
vars  == <<case, form, now, amount, insts, paid, edits, step, loop>>

-----------------------------------------------------------------------------
(* Days and instants *)

zone == case.zone
LocalMidnight(d) == 24 * d - zone
UTCMidnight(d)   == 24 * d
LocalDate(t)     == (t + zone) \div 24
UTCDate(t)       == t \div 24

\* a DATE column is read as midnight UTC of its day
Scan(d) == UTCMidnight(d)

\* t.Truncate(24 * time.Hour) counts from midnight UTC
TruncateDay(t) == UTCMidnight(UTCDate(t))

today == LocalDate(now)

-----------------------------------------------------------------------------
(* Entering a bill *)

Schedule(t, d, s, o) == [type |-> t, day |-> d, start |-> s, date |-> o]

\* bt_bill_definitions_schedule_shape_check
ShapeCheck(d) ==
    CASE d.type = "monthly"   -> d.day # Null /\ d.start = Null /\ d.date = Null
      [] d.type = "quarterly" -> d.day # Null /\ d.start # Null /\ d.date = Null
      [] d.type = "one_off"   -> d.day = Null /\ d.start = Null /\ d.date # Null
      [] d.type = "vendor"    -> d.day = Null /\ d.start = Null /\ d.date = Null

\* wrong: the upper end is not looked at
InRangeBelow(text, high) == ParseInt(text).ok /\ ParseInt(text).value >= 1

InRange(text, high) == ParseInt(text).ok /\ ParseInt(text).value \in 1..high

\* the switch over the schedule; Null is an error
ParseSchedule(f) ==
    CASE f.schedule = "monthly" /\ InRange(f.day, 31) ->
            Schedule("monthly", ParseInt(f.day).value, Null, Null)
      [] f.schedule = "quarterly" /\ InRange(f.day, 31) /\ InRange(f.start, 3) ->
            Schedule("quarterly", ParseInt(f.day).value, ParseInt(f.start).value, Null)
      [] f.schedule = "one_off" /\ f.date # Null ->
            Schedule("one_off", Null, Null, UTCDate(UTCMidnight(f.date)))
      [] OTHER -> Null

parseBillForm(f) == IF f.named /\ IsDecimal(f.amount) THEN ParseSchedule(f) ELSE Null

\* an entry of bills.json; one with a connector has no schedule of its own
billBootstrapToDefinition(f) ==
    CASE ~f.named    -> Null
      [] f.connector -> Schedule("vendor", Null, Null, Null)
      [] OTHER       -> ParseSchedule(f)

Entered(f) == IF f.managed THEN billBootstrapToDefinition(f) ELSE parseBillForm(f)
Fits(cents) == cents \in (-IntMax - 1)..IntMax

\* Create or Update, then GenerateInstancesForDefinition from today on
Submit ==
    /\ step = "form" /\ Entered(form) # Null
    /\ \E cents \in FormCents(form.amount) : Fits(cents) /\ amount' = cents
    /\ Call(Entered(form), today, case.ahead)
    /\ step' = "generate"
    /\ UNCHANGED <<case, form, now, insts, paid, edits>>

\* an error message; or the statement fails, the column being too small
Reject ==
    /\ step = "form"
    /\ IF Entered(form) = Null THEN TRUE ELSE \E cents \in FormCents(form.amount) : ~Fits(cents)
    /\ step' = "rejected"
    /\ UNCHANGED <<case, form, now, amount, insts, paid, edits, loop>>

Generate ==
    /\ step = "generate" /\ NextDueDates
    /\ UNCHANGED <<case, form, now, amount, insts, paid, edits, step>>

\* EnsureInstance for every occurrence, each a local midnight
Store ==
    /\ step = "generate" /\ pc = "done"
    /\ insts' = insts \cup {LocalDate(LocalMidnight(out[i])) : i \in DOMAIN out}
    /\ step' = "stored"
    /\ pc' = "idle" /\ cursor' = 0 /\ out' = <<>>
    /\ UNCHANGED <<case, form, now, amount, paid, edits, def, from, to>>

-----------------------------------------------------------------------------
(* The screens *)

\* ListUpcomingUnpaid
UpcomingUnpaid(until) == {d \in insts \ paid : d <= until}

viewLookaheadDays == 60
ViewBills == UpcomingUnpaid(LocalDate(LocalMidnight(today + viewLookaheadDays)))

\* wrong: today is cut off from the instant
OverdueTruncated == {d \in ViewBills : Scan(d) < TruncateDay(now)}

Overdue == {d \in ViewBills : Scan(d) < LocalMidnight(today)}

\* wrong: the DATE is sent as it was read
EventUTC(d) == [due |-> d, starts |-> Scan(d), ends |-> Scan(d) + 24]

Event(d) == LET due == LocalMidnight(UTCDate(Scan(d)))
            IN [due |-> d, starts |-> due, ends |-> due + 24]

\* hhq asks for the events up to a day of its choice, here the last one of the view
Events == {Event(d) : d \in UpcomingUnpaid(UTCDate(UTCMidnight(today + viewLookaheadDays)))}

\* paid or not
ListAllForSettings(first, last) == {d \in insts : first <= d /\ d <= last}

\* wrong: as many days as the view has
SettingsInstancesShort ==
    LET day == LocalDate(TruncateDay(now)) IN ListAllForSettings(day - 30, day + 60)

\* buildSettingsPageData
SettingsInstances ==
    LET day == LocalDate(TruncateDay(now)) IN ListAllForSettings(day - 30, day + 90)

\* a number field filled in from a column; empty if it is NULL
FieldText(n) == IF n = Null THEN <<>> ELSE Itoa[n]

Fields(date) ==
    [named |-> TRUE, managed |-> FALSE, connector |-> FALSE, schedule |-> def.type,
     amount |-> formatCentsPlain(amount), day |-> FieldText(def.day),
     start |-> FieldText(def.start), date |-> date]

\* wrong: the date is shown in the local zone
PrefilledLocal == Fields(IF def.date = Null THEN Null ELSE LocalDate(Scan(def.date)))

\* the edit form, filled in from the row
Prefilled == Fields(IF def.date = Null THEN Null ELSE UTCDate(Scan(def.date)))

\* the form is sent back untouched; what bills.json manages cannot be edited
Edit ==
    /\ step = "stored" /\ ~form.managed /\ edits < MaxEdits
    /\ edits' = edits + 1
    /\ form' = Prefilled
    /\ step' = "form"
    /\ UNCHANGED <<case, now, amount, insts, paid, loop>>

\* mark_paid, from the settings page or from an event
MarkPaid(d) ==
    /\ step = "stored"
    /\ d \in SettingsInstances \/ \E e \in Events : e.due = d
    /\ paid' = paid \cup {d}
    /\ UNCHANGED <<case, form, now, amount, insts, edits, step, loop>>

Clock ==
    /\ step = "stored"
    /\ \E h \in case.later :
        /\ now < LocalMidnight(case.day) + h
        /\ now' = LocalMidnight(case.day) + h
    /\ UNCHANGED <<case, form, amount, insts, paid, edits, step, loop>>

-----------------------------------------------------------------------------
Init ==
    /\ case \in Cases
    /\ form = case.form
    /\ now = LocalMidnight(case.day)
    /\ amount = Null /\ insts = {} /\ paid = {} /\ edits = 0 /\ step = "form"
    /\ def = Null /\ from = case.day /\ to = case.day /\ cursor = 0 /\ out = <<>> /\ pc = "idle"

Next == Submit \/ Reject \/ Generate \/ Store \/ Edit \/ Clock \/ \E d \in insts : MarkPaid(d)

\* a request that is being handled comes to its end
Spec == Init /\ [][Next]_vars /\ WF_vars(Generate \/ Store)

-----------------------------------------------------------------------------
(* Properties *)

\* What parseBillForm and billBootstrapToDefinition accept, the table accepts: a
\* schedule of one shape with its fields in range, and an amount that fits.
TypeOK ==
    /\ step \in {"form", "rejected", "generate", "stored"}
    /\ def # Null => def \in Definition /\ ShapeCheck(def) /\ amount # Null /\ Fits(amount)
    /\ cursor \in DOMAIN First /\ out \in Seq(Nat) /\ pc \in {"idle", "loop", "done"}
    /\ insts \subseteq Nat /\ paid \subseteq insts /\ edits \in 0..MaxEdits

\* GenerateInstancesForDefinition ends, and every occurrence is then stored.
Terminates == step = "generate" ~> step = "stored"

\* In the process's own time zone an event lies on the day the bill is due, for
\* bills overdue as well, whatever the zone is (events.go Events).
EventsOnTheDay ==
    \A e \in Events : LocalDate(e.starts) = e.due /\ LocalDate(e.ends - 1) = e.due

\* Every bill due before today is marked overdue on the view, and none due after
\* today is, in every zone and at every hour; from UTC eastward, none due today
\* either (view.go View).
OverdueWithinADay ==
    /\ {d \in ViewBills : d < today} \subseteq Overdue
    /\ \A d \in Overdue : d <= today
    /\ zone >= 0 => today \notin Overdue

\* What the view shows and what was generated is on the settings page, where it
\* can be marked paid, until it is 30 days late, although that page's window is
\* counted from a midnight that may be yesterday's (settings.go
\* buildSettingsPageData).
PayableOnPage ==
    step = "stored" => {d \in insts : d \in (today - 30)..(today + case.ahead)}
                          \cup {d \in ViewBills : d >= today - 30} \subseteq SettingsInstances

\* Saving an edit form that was not touched is accepted and leaves the schedule as
\* it was, and the amount unless it is negative (settings.go parseBillForm).
PrefillKeeps ==
    [][step = "form" /\ def # Null =>
         step' = "generate" /\ def' = def /\ (amount >= 0 => amount' = amount)]_vars

\* The conversions of one text agree: a SimpleFIN balance and a portal's amount are
\* read alike, as the amount the text states, cut off at the cent, and only a text
\* that ends in its point is refused, unless the amount is beyond the int64.  What
\* the form makes of an amount that is not negative is the nearest cent, within the
\* precision of a float64, however many digits the text has, if the column holds
\* it; and of an amount the column holds, given with two decimals or fewer, it is
\* exactly what the others read (client.go parseMoneyToCents, columbiagaspa.go
\* parseDollarsToCents, settings.go parseBillForm).
MoneyExact ==
    LET text    == form.amount
        balance == parseMoneyToCents(text)
        exact   == CutToCent(text)
    IN step = "form" /\ IsDecimal(text) =>
        /\ parseDollarsToCents(text) = balance
        /\ IsLong(exact) => balance = IF text[Len(text)] = "." THEN NotParsed ELSE Parsed(exact)
        /\ Scaled(text) >= 0 => \A cents \in FormCents(text) :
              /\ Fits(cents) => NearestCent(text, cents)
              /\ Decimals(text) <= 2 /\ exact <= IntMax => cents = exact

=============================================================================
