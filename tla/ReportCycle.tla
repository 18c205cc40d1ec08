----------------------------- MODULE ReportCycle -----------------------------
(***************************************************************************)
(* The self-reporting cycle of the station (app/dataprocess/Ibao.hpp and    *)
(* app/up/report/zhudong_report.cpp).  The up thread walks the vector baos  *)
(* of report objects for ever.  Each object records a snapshot of the       *)
(* device data at n*cycle + record_delays, reports it at n*cycle +          *)
(* report_delays through SendMode::wait, and, when it is a report with      *)
(* backfill, turns a failed report into a row of the table "bu", which the  *)
(* object bubao later replays, one row per period of its own.  The data     *)
(* thread rewrites the row of the running hour every five minutes.          *)
(*                                                                         *)
(* Time passes only where the code sleeps or blocks: in the usleep of       *)
(* thread_up and in SendMode::wait.  The value of a snapshot is the time at *)
(* which it was taken, which is what tells two snapshots apart.             *)
(***************************************************************************)
EXTENDS Integers, Sequences, FiniteSets

CONSTANTS
    Order,      \* the vector baos: a sequence of report objects
    Kind,       \* the class of a report object
    Interval,   \* set_interval: [cycle, rec, rep] of a report object
    Table,      \* record_table of a report object
    HourTable,  \* the table devdata_save writes
    MinCycle,   \* the 60 of record_check: a shorter cycle is switched off
    Hour,       \* the 3600 of devdata_save
    Freeze,     \* LOG_TIME_INTERVAL, the period of the data thread's freeze
    Start,      \* the clock when the process first starts
    MaxTime,    \* bound: the clock stops here
    MaxPause,   \* bound: the longest pause between two rounds of bao_poll
    MaxWait,    \* bound: the longest time one SendMode::wait takes
    MaxBoots,   \* bound: power losses stop after this many restarts
    LinkUpFrom, \* from this time on the link neither fails nor reconnects
    ClockSets,  \* the values the centre's set-time command may give the clock
    NoData      \* the log of a DataClass without items, and a missing row

Bao == {Order[n] : n \in 1..Len(Order)}
Kinds == {"base", "cycle", "jia", "bu", "raw"}
Backfilled == {b \in Bao : Kind[b] \in {"cycle", "jia"}}
Time == 0..MaxTime
Data == Time \cup {NoData}
Key == [name : Backfilled, tdate : Time]
BuRow == [name : Backfilled, tdate : Time, valid : BOOLEAN]
RecordRow == [tb : STRING, date : Time, data : Data]
Recorded == [name : Bao, tdate : Time, data : Data, boot : Nat]
Confirmed == [name : Bao, tdate : Time, data : Data, by : Bao, observetime : Time]

ASSUME OrderAssumption == Order \in Seq(STRING) /\ Len(Order) > 0
ASSUME KindAssumption ==
    /\ Kind \in [Bao -> Kinds]
    /\ \A b, c \in Bao : Kind[b] = "bu" /\ Kind[c] = "bu" => b = c
ASSUME IntervalAssumption ==
    Interval \in [Bao -> [cycle : Nat, rec : Int, rep : Int]]
ASSUME TableAssumption == Table \in [Bao -> STRING] /\ HourTable \in STRING
ASSUME TimeAssumption ==
    /\ MinCycle \in Nat \ {0} /\ Hour \in Nat \ {0} /\ Freeze \in Nat \ {0}
    /\ Start \in Nat /\ MaxTime \in Nat /\ Start <= MaxTime
    /\ MaxPause \in Nat \ {0} /\ MaxWait \in Nat
    /\ MaxBoots \in Nat /\ LinkUpFrom \in Nat /\ ClockSets \subseteq 0..MaxTime
ASSUME NoDataAssumption == NoData \notin Nat

VARIABLES
    now,            \* std::time(0)
    i,              \* the loop index of bao_poll; Len(Order)+1 after the loop
    phase,          \* where bao_poll stands for object i
    s,              \* the SendMode that get_sendmode gave this round
    last_record_check_time,
    last_report_check_time,
    record_enable,
    report_enable,
    record_time,
    report_log,
    m,              \* the row of "bu" that bubao is replaying
    sent,           \* the snapshot report_data put in the buffer
    rows,           \* the record tables: a set of [tb, date, data]
    bu,             \* the table "bu", in rowid order
    jia,            \* A["jia"].list is not empty
    items,          \* devdata still has its items
    lastFreeze,     \* the local variable last of data_process_thread
    boot,           \* number of restarts
    cleared,        \* ghost: the centre has erased the history (47H)
    recorded,       \* ghost: every snapshot record() took, with its boot
    acked           \* ghost: what was reported with wait() = 0, by which object

upVars == <<last_record_check_time, last_report_check_time, record_enable,
            report_enable, record_time, report_log, m, sent>>
vars == <<now, i, phase, s, upVars, rows, bu, jia, items, lastFreeze, boot,
          cleared, recorded, acked>>

-----------------------------------------------------------------------------
(* Operators of the code.                                                   *)

\* Fault: the boundary itself no longer counts as reached.
Check_TimeLate(last, t, cycle, delay) ==
    /\ cycle # 0
    /\ (t - delay) \div cycle > (last - delay) \div cycle + 1

\* Fault: the test of lib.cpp Cycle_Check, which Check_Time replaced, is true
\* only in the very second of the boundary.
Check_TimeInstant(last, t, cycle, delay) == cycle # 0 /\ (t - delay) % cycle = 0

\* Ibao.hpp Check_Time, without the assignment to *last.
Check_Time(last, t, cycle, delay) ==
    /\ cycle # 0
    /\ (t - delay) \div cycle >= (last - delay) \div cycle + 1

Later(t, d) == IF t + d <= MaxTime THEN t + d ELSE MaxTime

\* devdata.tolog(): what a snapshot of the device data holds.
Snapshot(t) == IF items THEN t ELSE NoData

\* devdata_db_save: DB::update on the row with that date, or DB::add.
Save(rs, tb, t, data) ==
    {r \in rs : r.tb # tb \/ r.date # t}
        \cup {[tb |-> tb, date |-> t, data |-> data]}

\* devdata_db_read: the data of the row, NoData when there is none.
HasRow(rs, tb, t) == \E r \in rs : r.tb = tb /\ r.date = t
Lookup(rs, tb, t) ==
    IF HasRow(rs, tb, t)
    THEN (CHOOSE r \in rs : r.tb = tb /\ r.date = t).data
    ELSE NoData

Row(name, tdate, valid) == [name |-> name, tdate |-> tdate, valid |-> valid]
Matches(row, name, tdate) == row.name = name /\ row.tdate = tdate

\* DB<TbBu>::update by (name, cmd, tdate); cmd is a function of name.
UpdateBu(q, name, tdate, valid) ==
    IF \E n \in 1..Len(q) : Matches(q[n], name, tdate)
    THEN [n \in 1..Len(q) |->
             IF Matches(q[n], name, tdate) THEN Row(name, tdate, valid) ELSE q[n]]
    ELSE Append(q, Row(name, tdate, valid))

\* DB<TbBu>::find "valid!=0 LIMIT 1": the first row in rowid order.
ValidRows(q) == {n \in 1..Len(q) : q[n].valid}
FirstValid(q, n) == n \in ValidRows(q) /\ \A k \in ValidRows(q) : n <= k

\* A member of q is a debt: a valid row for that report and period.
Owes(q, name, tdate) == \E n \in ValidRows(q) : Matches(q[n], name, tdate)

-----------------------------------------------------------------------------
(* The report object poll(): record_check, record, and the report timer.    *)

Cycle(b) == Interval[b].cycle

\* The Check_Time inside record_check, with the guards before it.
RecordTimer(b) ==
    /\ Cycle(b) >= MinCycle
    /\ ~record_enable[b]
    /\ Check_Time(last_record_check_time[b], now, Cycle(b), Interval[b].rec)

\* record_check() of the classes BaoBase, JiaBaoBase and BuBaoBase.
record_check(b) ==
    /\ RecordTimer(b)
    /\ Kind[b] = "jia" => jia
    /\ Kind[b] = "bu" => ValidRows(bu) # {}

\* The report timer at the end of BaoBase::poll().
ReportTimer(b) ==
    /\ record_enable[b] \/ record_check(b)
    /\ Check_Time(last_report_check_time[b], now, Cycle(b), Interval[b].rep)

\* What record() stores for a report that has a record table.
Stores(b) == Kind[b] \in {"base", "cycle", "jia"}
\* Fault: the period is rounded up instead of down.
PeriodAfter(b) == now - (now % Cycle(b)) + Cycle(b)
PeriodOf(b) == now - (now % Cycle(b))

\* baos[i]->poll() and report_check(false).
Poll(b) ==
    /\ phase = "poll" /\ i <= Len(Order) /\ b = Order[i]
    /\ last_record_check_time' =
          [last_record_check_time EXCEPT ![b] = IF RecordTimer(b) THEN now ELSE @]
    /\ last_report_check_time' =
          [last_report_check_time EXCEPT ![b] = IF ReportTimer(b) THEN now ELSE @]
    /\ record_enable' =
          [record_enable EXCEPT ![b] = (@ \/ record_check(b)) /\ ~ReportTimer(b)]
    /\ report_enable' =
          [report_enable EXCEPT ![b] = (@ /\ Cycle(b) >= MinCycle) \/ ReportTimer(b)]
    /\ IF record_check(b) /\ Stores(b)
       THEN /\ record_time' = [record_time EXCEPT ![b] = PeriodOf(b)]
            /\ report_log' = [report_log EXCEPT ![b] = Snapshot(now)]
            /\ rows' = Save(rows, Table[b], PeriodOf(b), Snapshot(now))
            /\ recorded' = recorded \cup
                  {[name |-> b, tdate |-> PeriodOf(b), data |-> Snapshot(now), boot |-> boot]}
       ELSE UNCHANGED <<record_time, report_log, rows, recorded>>
    /\ IF record_check(b) /\ Kind[b] = "bu"
       THEN \E n \in 1..Len(bu) :
               FirstValid(bu, n) /\ m' = [name |-> bu[n].name, tdate |-> bu[n].tdate]
       ELSE m' = m
    /\ IF report_enable'[b]
       THEN phase' = "due" /\ i' = i
       ELSE phase' = "poll" /\ i' = i + 1
    /\ UNCHANGED <<now, s, sent, bu, jia, items, lastFreeze, boot, cleared, acked>>

\* report_data(): the snapshot in the buffer; bubao reads the table again
\* and gives the row up when the table has no such row.
Missing == ~HasRow(rows, Table[m.name], m.tdate)
report_data(b) ==
    IF Kind[b] = "bu"
    THEN /\ sent' = Lookup(rows, Table[m.name], m.tdate)
         /\ bu' = IF Missing THEN UpdateBu(bu, m.name, m.tdate, FALSE) ELSE bu
    ELSE sent' = report_log[b] /\ UNCHANGED bu

\* header.observetime: the record_time of the object that reports.  For bubao too:
\* the date of the row that its report_data stores in obtime is overridden, and
\* its own record() records nothing.
ObserveTime(b) == record_time[b]

\* A report goes out: report_data, SendMode::init, and SendMode::wait blocks.
Report(b) ==
    /\ phase = "due" /\ b = Order[i] /\ s = "tcp"
    /\ report_data(b)
    /\ phase' = "wait"
    /\ UNCHANGED <<now, i, s, last_record_check_time, last_report_check_time,
                   record_enable, report_enable, record_time, report_log, m,
                   rows, jia, items, lastFreeze, boot, cleared, recorded, acked>>

\* SendMode::init was given a length of 0: wait returns 0 without sending.
NothingToSend(b) == Kind[b] = "bu" /\ sent = NoData

EndReport(b) ==
    /\ report_enable' = [report_enable EXCEPT ![b] = FALSE]
    /\ phase' = "poll" /\ i' = i + 1
    /\ UNCHANGED <<s, last_record_check_time, last_report_check_time, record_enable,
                   record_time, report_log, m, sent, rows, jia, items, lastFreeze,
                   boot, cleared, recorded>>

\* Fault: the replayed row stays valid.
ReportOkKeepsRow(b) ==
    /\ phase = "wait" /\ b = Order[i]
    /\ now' = now
    /\ UNCHANGED <<bu, acked>>
    /\ EndReport(b)

\* wait() = 0: report_ok, and report_check(true).
ReportOk(b) ==
    /\ phase = "wait" /\ b = Order[i]
    /\ IF NothingToSend(b) THEN now' = now
                           ELSE \E d \in 0..MaxWait : now' = Later(now, d)
    /\ bu' = IF Kind[b] = "bu" THEN UpdateBu(bu, m.name, m.tdate, FALSE) ELSE bu
    /\ acked' = IF NothingToSend(b) \/ Kind[b] = "raw" THEN acked
                ELSE acked \cup
                  {[name |-> IF Kind[b] = "bu" THEN m.name ELSE b,
                    tdate |-> IF Kind[b] = "bu" THEN m.tdate ELSE record_time[b],
                    data |-> sent, by |-> b, observetime |-> ObserveTime(b)]}
    /\ EndReport(b)

\* Fault: report_fail is not overridden, as in BaoBase.
ReportFailForgets(b) ==
    /\ phase = "wait" /\ b = Order[i] /\ ~NothingToSend(b)
    /\ now < LinkUpFrom /\ now' = now
    /\ UNCHANGED <<bu, acked>>
    /\ EndReport(b)

\* Fault: a replay that fails strikes the row off.
ReportFailGivesUp(b) ==
    /\ phase = "wait" /\ b = Order[i] /\ ~NothingToSend(b)
    /\ now < LinkUpFrom /\ now' = now
    /\ bu' = IF b \in Backfilled THEN UpdateBu(bu, b, record_time[b], TRUE)
             ELSE IF Kind[b] = "bu" THEN UpdateBu(bu, m.name, m.tdate, FALSE) ELSE bu
    /\ UNCHANGED acked
    /\ EndReport(b)

\* wait() # 0: report_fail, which only the reports with backfill override.
ReportFail(b) ==
    /\ phase = "wait" /\ b = Order[i] /\ ~NothingToSend(b)
    /\ now < LinkUpFrom
    /\ \E d \in 0..MaxWait : now' = Later(now, d)
    /\ bu' = IF b \in Backfilled THEN UpdateBu(bu, b, record_time[b], TRUE) ELSE bu
    /\ UNCHANGED acked
    /\ EndReport(b)

-----------------------------------------------------------------------------
(* Between two rounds.                                                      *)

AfterLoop == phase = "poll" /\ i = Len(Order) + 1

\* usleep in thread_up, then get_sendmode for the next round: 0 leaves s NULL.
NextRound ==
    /\ AfterLoop
    /\ i' = 1
    /\ \E d \in 1..MaxPause : now' = Later(now, d)
    /\ s' \in IF now' < LinkUpFrom THEN {"tcp", "null"} ELSE {"tcp"}
    /\ UNCHANGED <<phase, upVars, rows, bu, jia, items, lastFreeze, boot, cleared, recorded, acked>>

\* Command 47H, clear_history: every table is emptied, and clearAll() drops
\* the items of devdata and A instead of their values; what A["jia"] then
\* yields is undefined.
ClearHistory ==
    /\ AfterLoop
    /\ rows' = {} /\ bu' = <<>>
    /\ items' = FALSE
    /\ jia' \in BOOLEAN
    /\ cleared' = TRUE
    /\ UNCHANGED <<now, i, phase, s, upVars, lastFreeze, boot, recorded, acked>>

\* Command 4AH, set_time.  A jump of more than five minutes takes two
\* commands; the first of them changes nothing here.
SetTime ==
    /\ AfterLoop
    /\ now' \in ClockSets
    /\ UNCHANGED <<i, phase, s, upVars, rows, bu, jia, items, lastFreeze, boot,
                   cleared, recorded, acked>>

\* A measured value crosses its limit: jia_add_flags.
JiaFlag ==
    /\ ~jia /\ items
    /\ jia' = TRUE
    /\ UNCHANGED <<now, i, phase, s, upVars, rows, bu, items, lastFreeze, boot,
                   cleared, recorded, acked>>

\* data_process_thread: the five-minute freeze.
FreezeDue == lastFreeze # now - (now % Freeze)

\* Fault: the row is that of the last freeze.
FreezeDataLast ==
    /\ FreezeDue
    /\ lastFreeze' = now - (now % Freeze)
    /\ rows' = Save(rows, HourTable, lastFreeze - (lastFreeze % Hour), Snapshot(now))
    /\ UNCHANGED <<now, i, phase, s, upVars, bu, jia, items, boot, cleared, recorded, acked>>

FreezeData ==
    /\ FreezeDue
    /\ lastFreeze' = now - (now % Freeze)
    /\ rows' = Save(rows, HourTable, now - (now % Hour), Snapshot(now))
    /\ UNCHANGED <<now, i, phase, s, upVars, bu, jia, items, boot, cleared, recorded, acked>>

-----------------------------------------------------------------------------
(* Death and restart of the process: systemd starts it again.               *)

\* Fault: the check times start at the epoch, not at the start of the process.
FreshObjectsEpoch(t) ==
    /\ last_record_check_time' = [b \in Bao |-> 0]
    /\ last_report_check_time' = [b \in Bao |-> 0]
    /\ record_enable' = [b \in Bao |-> FALSE]
    /\ report_enable' = [b \in Bao |-> FALSE]
    /\ record_time' = [b \in Bao |-> 0]
    /\ report_log' = [b \in Bao |-> NoData]
    /\ sent' = NoData
    /\ m' = [name |-> "", tdate |-> 0]
    /\ lastFreeze' = t - (t % Freeze)

FreshObjects(t) ==
    /\ last_record_check_time' = [b \in Bao |-> t]
    /\ last_report_check_time' = [b \in Bao |-> t]
    /\ record_enable' = [b \in Bao |-> FALSE]
    /\ report_enable' = [b \in Bao |-> FALSE]
    /\ record_time' = [b \in Bao |-> 0]
    /\ report_log' = [b \in Bao |-> NoData]
    /\ sent' = NoData
    /\ m' = [name |-> "", tdate |-> 0]
    /\ lastFreeze' = t - (t % Freeze)

Restart ==
    /\ \E d \in 1..MaxPause : now' = Later(now, d) /\ FreshObjects(Later(now, d))
    /\ i' = Len(Order) + 1 /\ phase' = "poll" /\ s' = "null"
    /\ boot' = boot + 1
    /\ jia' = FALSE /\ items' = TRUE
    /\ UNCHANGED <<rows, cleared, recorded, acked>>

PowerLoss == boot < MaxBoots /\ Restart /\ UNCHANGED bu

\* bao_poll(NULL) with a report due: report_data runs, then the NULL SendMode
\* is dereferenced and the process dies.
NullSendMode ==
    /\ phase = "due" /\ s = "null"
    /\ bu' = IF Kind[Order[i]] = "bu" /\ Missing
             THEN UpdateBu(bu, m.name, m.tdate, FALSE) ELSE bu
    /\ Restart

-----------------------------------------------------------------------------
Init ==
    /\ now = Start
    /\ i = Len(Order) + 1 /\ phase = "poll" /\ s = "null"
    /\ last_record_check_time = [b \in Bao |-> Start]
    /\ last_report_check_time = [b \in Bao |-> Start]
    /\ record_enable = [b \in Bao |-> FALSE]
    /\ report_enable = [b \in Bao |-> FALSE]
    /\ record_time = [b \in Bao |-> 0]
    /\ report_log = [b \in Bao |-> NoData]
    /\ m = [name |-> "", tdate |-> 0]
    /\ sent = NoData
    /\ rows = {} /\ bu = <<>>
    /\ jia = FALSE /\ items = TRUE
    /\ lastFreeze = Start - (Start % Freeze)
    /\ boot = 0
    /\ cleared = FALSE /\ recorded = {} /\ acked = {}

UpThread ==
    \/ \E b \in Bao : Poll(b) \/ Report(b) \/ ReportOk(b) \/ ReportFail(b)
    \/ NextRound

Next ==
    \/ UpThread
    \/ ClearHistory
    \/ SetTime
    \/ JiaFlag
    \/ FreezeData
    \/ PowerLoss
    \/ NullSendMode

Spec == Init /\ [][Next]_vars

-----------------------------------------------------------------------------
(* Properties.                                                              *)

\* The types of the state of bao_poll, the report objects and the tables.
TypeOK ==
    /\ now \in Time /\ i \in 1..(Len(Order) + 1)
    /\ phase \in {"poll", "due", "wait"} /\ s \in {"tcp", "null"}
    /\ last_record_check_time \in [Bao -> Time]
    /\ last_report_check_time \in [Bao -> Time]
    /\ record_enable \in [Bao -> BOOLEAN] /\ report_enable \in [Bao -> BOOLEAN]
    /\ record_time \in [Bao -> Time] /\ report_log \in [Bao -> Data]
    /\ m \in [name : Backfilled \cup {""}, tdate : Time]
    /\ sent \in Data
    /\ rows \subseteq RecordRow /\ bu \in Seq(BuRow)
    /\ jia \in BOOLEAN /\ items \in BOOLEAN /\ cleared \in BOOLEAN
    /\ lastFreeze \in Time /\ boot \in Nat
    /\ recorded \subseteq Recorded /\ acked \subseteq Confirmed

\* The report of object b for period t is recorded and waits for its report.
Pending(b, t) == (record_enable[b] \/ report_enable[b]) /\ record_time[b] = t
Acked(b, t) == \E a \in acked : a.name = b /\ a.tdate = t
AccountFor(r) == Pending(r.name, r.tdate) \/ Acked(r.name, r.tdate)
                    \/ Owes(bu, r.name, r.tdate)

\* Every snapshot that a report with backfill recorded since the process
\* started is still to be reported, or was confirmed, or is a valid row of
\* "bu" (the numbered steps 1-5 of the comment above BaoBase), unless the
\* centre has erased the history.
AccountedFor ==
    ~cleared => \A r \in recorded :
                    r.boot = boot /\ r.name \in Backfilled => AccountFor(r)

\* The inductive invariant behind AccountedFor.  report_enable marks the
\* object whose report is under way, and no other; that object has no record
\* waiting; and no record is of a boot still to come.
Stage ==
    /\ phase # "poll" => i <= Len(Order)
    /\ \A b \in Bao : report_enable[b] <=> phase # "poll" /\ b = Order[i]
    /\ \A b \in Bao : ~(record_enable[b] /\ report_enable[b])
    /\ \A r \in recorded : r.boot <= boot

\* While nothing has been erased, every pending report and every row of "bu"
\* has its snapshot in its table, so that a replay always has data to send.
Stored ==
    /\ items
    /\ \A r \in rows : r.data # NoData
    /\ \A n \in 1..Len(bu) : HasRow(rows, Table[bu[n].name], bu[n].tdate)
    /\ \A b \in Backfilled : record_enable[b] \/ report_enable[b]
                             => HasRow(rows, Table[b], record_time[b])
    /\ phase = "wait" /\ Kind[Order[i]] = "bu" => sent # NoData

\* The row that bubao replays is a debt until its replay has ended.
Replaying ==
    \A b \in Bao : Kind[b] = "bu" /\ (record_enable[b] \/ report_enable[b]) =>
        m.name \in Backfilled /\ (~cleared => Owes(bu, m.name, m.tdate))

ReportInv == Stage /\ (~cleared => Stored) /\ Replaying /\ AccountedFor

\* The reporting cycle keeps the books of ReportLedger: bu_add_one_record and
\* bu_invalid_one_record are the only ways in and out of the debts.
KeyOf(b, t) == [name |-> b, tdate |-> t]
Waiting(b) == record_enable[b] \/ report_enable[b]
PendingKeys == {KeyOf(b, record_time[b]) : b \in {c \in Backfilled : Waiting(c)}}
Debts(q) == {KeyOf(q[n].name, q[n].tdate) : n \in ValidRows(q)}
SettledKeys == {KeyOf(a.name, a.tdate) : a \in {x \in acked : x.name \in Backfilled}}
Ledger == INSTANCE ReportLedger WITH
    Key <- Key,
    pending <- PendingKeys,
    owed <- Debts(bu),
    settled <- SettledKeys,
    erased <- cleared
LedgerSpec == Ledger!LedgerSpec

\* Check_Time answers what its comment says, for every object and both
\* timers: some moment of the form n*cycle + delay lies in (last, now].
Boundary(last, cycle, delay) == \E t \in (last + 1)..now : (t - delay) % cycle = 0
CheckTimeExact ==
    \A b \in Bao : Cycle(b) # 0 =>
        /\ Check_Time(last_record_check_time[b], now, Cycle(b), Interval[b].rec)
             <=> Boundary(last_record_check_time[b], Cycle(b), Interval[b].rec)
        /\ Check_Time(last_report_check_time[b], now, Cycle(b), Interval[b].rep)
             <=> Boundary(last_report_check_time[b], Cycle(b), Interval[b].rep)

\* The periodic reports leave out no period while the process lives, though
\* poll() is not called every second: reporting the others blocks the loop.
NoPeriodSkipped ==
    \A r \in recorded : Kind[r.name] \in {"base", "cycle"} =>
        \A t \in r.tdate..now :
            (\E q \in recorded : q.name = r.name /\ q.boot = r.boot /\ q.tdate > t)
            /\ t % Cycle(r.name) = 0
            => \E q \in recorded : q.name = r.name /\ q.boot = r.boot /\ q.tdate = t

\* A period is recorded at most once, restarts included: a restart in the
\* middle of a period does not report it again.
RecordedOnce ==
    \A q, r \in recorded : q.name = r.name /\ q.tdate = r.tdate => q = r

\* Once the link works, bubao pays the debts, one every period of its own,
\* and none is stuck behind another.
BacklogDrained ==
    \A b \in Bao : Kind[b] = "bu" /\ AfterLoop
        /\ now >= LinkUpFrom + (Len(bu) + 1) * Cycle(b) + MaxPause + Len(Order) * MaxWait
        => ValidRows(bu) = {}

\* Step 5 of the comment above BaoBase, for the whole life of the station: a
\* recorded report that was not confirmed is pending or owed.
EveryRecordAccounted ==
    ~cleared => \A r \in recorded : r.name \in Backfilled => AccountFor(r)

\* What the centre confirms for a period was measured in that period: as it was
\* recorded or later, for the freeze rewrites the row of the running hour, the
\* one the hourly report recorded and bubao may replay, and no other.  Under which
\* time the centre files it is another matter: a report goes out under the time of
\* its period only when its own object reports it; every replay goes out under
\* the epoch, the record_time of bubao, which nothing ever sets.
FiledUnder(a) == IF Kind[a.by] = "bu" THEN 0 ELSE a.tdate
DataOfItsPeriod ==
    ~cleared => \A a \in acked : a.name \in Backfilled =>
        /\ a.observetime = FiledUnder(a)
        /\ \E r \in recorded : r.name = a.name /\ r.tdate = a.tdate
                              /\ r.data <= a.data /\ a.data < a.tdate + Cycle(a.name)

\* The inductive invariant behind DataOfItsPeriod: a row of a table is of its
\* period for every report that keeps its records there, and no older than the
\* record it began with.
Active(b) == Stores(b) /\ Cycle(b) >= MinCycle
OfPeriod(b, t, d) ==
    d < t + Cycle(b) /\ \E r \in recorded : r.name = b /\ r.tdate = t /\ r.data <= d
Known(b, t) ==
    Active(b) /\ \E r \in recorded :
        /\ r.name = b /\ r.tdate = t
        /\ \A x \in rows : x.tb = Table[b] /\ x.date = t => r.data <= x.data
Dates ==
    /\ \A r \in recorded : r.data \in 0..now
    /\ \A x \in rows, b \in Bao : Active(b) /\ Table[b] = x.tb => x.data < x.date + Cycle(b)
    /\ \A n \in 1..Len(bu) : Known(bu[n].name, bu[n].tdate)
    /\ \A b \in Backfilled : Waiting(b) =>
          Known(b, record_time[b]) /\ OfPeriod(b, record_time[b], report_log[b])
Sending ==
    phase = "wait" =>
        /\ Kind[Order[i]] = "bu" => OfPeriod(m.name, m.tdate, sent)
        /\ Order[i] \in Backfilled => sent = report_log[Order[i]]
PeriodInv == ~cleared => Dates /\ Sending /\ DataOfItsPeriod
NeverSet == \A b \in Bao : Kind[b] = "bu" => record_time[b] = 0

\* Reports that share a table have the same period, and the freeze writes the
\* table of a report of an hour's period.
TablesShared ==
    /\ \A b, c \in Bao : Active(b) /\ Active(c) /\ Table[b] = Table[c] => Cycle(b) = Cycle(c)
    /\ \A b \in Bao : Active(b) /\ Table[b] = HourTable => Cycle(b) = Hour

\* The inductive invariant behind RecordedOnce and NoPeriodSkipped.  Moment is
\* the last n*cycle + record_delays, Round the longest time between two calls of
\* poll() of one object, Lag(n) how long ago the last call for the n-th may be.
\* A record of an object whose period is longer than a round (Timed) waits for
\* its report no longer than to the next moment.
Moment(b, t) == t - ((t - Interval[b].rec) % Cycle(b))
Round == Len(Order) * MaxWait + MaxPause
Lag(n) ==
    IF i > n \/ (i = n /\ phase # "poll") THEN (i - n) * MaxWait
    ELSE (Len(Order) + i - n) * MaxWait + MaxPause
LastMoment(b) == Moment(b, last_record_check_time[b])
ReportMoment(b) == LastMoment(b) + Interval[b].rep - Interval[b].rec
OnTime(b, lag) ==
    /\ last_record_check_time[b] <= now
    /\ ~record_enable[b] => /\ now < LastMoment(b) + Cycle(b) + lag
                            /\ last_report_check_time[b] < LastMoment(b) + Cycle(b)
    /\ record_enable[b] => /\ now < ReportMoment(b) + lag - MaxWait
                           /\ last_report_check_time[b] < ReportMoment(b)
Timed(b) ==
    /\ Cycle(b) >= MinCycle /\ Round <= Cycle(b) /\ Interval[b].rec <= Interval[b].rep
    /\ Interval[b].rep + Round - MaxWait <= Cycle(b) + Interval[b].rec
Punctual == \A n \in 1..Len(Order) : Timed(Order[n]) => OnTime(Order[n], Lag(n))
Filed ==
    \A r \in recorded :
        Active(r.name) /\ r.tdate + Interval[r.name].rec <= LastMoment(r.name)
Newest ==
    \A r \in recorded : r.boot = boot /\ Kind[r.name] \in {"base", "cycle"} =>
        \E q \in recorded : /\ q.name = r.name /\ q.boot = boot
                            /\ q.tdate + Interval[q.name].rec = LastMoment(q.name)
Unbroken ==
    \A r \in recorded : Kind[r.name] \in {"base", "cycle"} =>
        \A t \in Time :
            /\ r.tdate <= t /\ t % Cycle(r.name) = 0
            /\ \E q \in recorded : q.name = r.name /\ q.boot = r.boot /\ q.tdate > t
            => \E q \in recorded : q.name = r.name /\ q.boot = r.boot /\ q.tdate = t
PunctualInv == Punctual /\ Filed /\ Newest /\ RecordedOnce /\ Unbroken

\* A round of bao_poll is short enough for every report: a record is taken in
\* its period, and reported before the next is due.
ShortRounds ==
    \A b \in Bao : Active(b) =>
        Timed(b) /\ 0 <= Interval[b].rec /\ Interval[b].rec + Round <= Cycle(b)

\* The inductive invariant behind BacklogDrained.  Paid counts the rows that are
\* struck off.  While there are debts, the moment that bubao acted on last is no
\* later than the end of the outage and a period for each row struck off since,
\* and one for the replay under way, which will strike one off.
InvalidRows(q) == {n \in 1..Len(q) : ~q[n].valid}
Paid == Cardinality(InvalidRows(bu))
Outage == LinkUpFrom + MaxPause
Untried(q, k) ==
    \/ Owes(q, k.name, k.tdate)
    \/ \A n \in 1..Len(q) : ~Matches(q[n], k.name, k.tdate)
Draining(b) ==
    ValidRows(bu) # {} =>
        \/ LastMoment(b) <= Outage + Paid * Cycle(b)
        \/ /\ Waiting(b) /\ Untried(bu, m)
           /\ LastMoment(b) <= Outage + (Paid + 1) * Cycle(b)
DrainInv ==
    /\ s = "null" /\ i <= Len(Order) => now < LinkUpFrom /\ phase # "wait"
    /\ \A b \in Bao : Kind[b] = "bu" => Draining(b)

\* bubao's own period is longer than a round of bao_poll.
BubaoTimed == \A b \in Bao : Kind[b] = "bu" => Timed(b)
=============================================================================
