------------------------- MODULE ReportCycleProofs -------------------------
(* Theorems about ReportCycle, for every value of its constants.             *)
EXTENDS ReportCycle, FiniteSetTheorems, TLAPS

-----------------------------------------------------------------------------
(* Arithmetic of periods.                                                    *)

LEMMA FloorFacts ==
    ASSUME NEW a \in Int, NEW c \in Nat, c > 0
    PROVE  /\ a \div c \in Int
           /\ c * (a \div c) <= a /\ a < c * (a \div c + 1)
           /\ a % c \in 0..(c - 1)
           /\ a = c * (a \div c) + (a % c)
BY SMT

LEMMA PeriodStart ==
    ASSUME NEW t \in Time, NEW c \in Nat, c > 0
    PROVE  t - (t % c) \in Time
BY TimeAssumption, SMT DEF Time

LEMMA LaterInTime ==
    ASSUME NEW t \in Time, NEW d \in Nat
    PROVE  Later(t, d) \in Time
BY TimeAssumption DEF Time, Later

LEMMA LaterClock ==
    ASSUME TypeOK, NEW d \in 0..MaxWait \cup 1..MaxPause
    PROVE  Later(now, d) \in Time
<1>1. now \in Time
  BY DEF TypeOK
<1>2. d \in Nat
  BY TimeAssumption
<1> QED
  BY <1>1, <1>2, LaterInTime

LEMMA TimesMonotone ==
    ASSUME NEW a \in Int, NEW b \in Int, NEW c \in Nat, c > 0
    PROVE  (a <= b) <=> (c * a <= c * b)
BY SMT

\* Check_Time is exactly what its comment says: it is true if and only if some
\* moment n*cycle + delay lies after the last check and not after now, however
\* far apart the two calls are.
THEOREM CheckTimeMeetsItsComment ==
    ASSUME NEW last \in Int, NEW t \in Int, NEW delay \in Int,
           NEW cycle \in Nat, cycle > 0
    PROVE  Check_Time(last, t, cycle, delay)
             <=> \E n \in Int : last < n * cycle + delay /\ n * cycle + delay <= t
<1> DEFINE ql == (last - delay) \div cycle
           qt == (t - delay) \div cycle
<1>1. /\ ql \in Int /\ qt \in Int
      /\ cycle * ql <= last - delay /\ last - delay < cycle * (ql + 1)
      /\ cycle * qt <= t - delay /\ t - delay < cycle * (qt + 1)
  BY FloorFacts
<1>2. Check_Time(last, t, cycle, delay) <=> ql + 1 <= qt
  BY <1>1 DEF Check_Time
<1> HIDE DEF ql, qt
<1>3. ASSUME ql + 1 <= qt
      PROVE  last < qt * cycle + delay /\ qt * cycle + delay <= t
  <2>1. cycle * (ql + 1) <= cycle * qt
    BY <1>1, <1>3, TimesMonotone
  <2> QED
    BY <1>1, <2>1
<1>4. ASSUME NEW n \in Int, last < n * cycle + delay, n * cycle + delay <= t
      PROVE  ql + 1 <= qt
  <2>1. cycle * n = n * cycle
    OBVIOUS
  <2>2. ~(n <= ql)
    <3>1. ~(cycle * n <= cycle * ql)
      BY <1>1, <1>4, <2>1
    <3> QED
      BY <1>1, <3>1, TimesMonotone
  <2>3. ~(qt + 1 <= n)
    <3>1. ~(cycle * (qt + 1) <= cycle * n)
      BY <1>1, <1>4, <2>1
    <3> QED
      BY <1>1, <3>1, TimesMonotone
  <2> QED
    BY <1>1, <2>2, <2>3
<1> QED
  BY <1>1, <1>2, <1>3, <1>4

-----------------------------------------------------------------------------
(* The table "bu" and the record tables.                                     *)

LEMMA UpdateBuType ==
    ASSUME NEW q \in Seq(BuRow), NEW b \in Backfilled, NEW t \in Time,
           NEW v \in BOOLEAN
    PROVE  UpdateBu(q, b, t, v) \in Seq(BuRow)
<1>1. Row(b, t, v) \in BuRow
  BY DEF Row, BuRow
<1>2. \A n \in 1..Len(q) : q[n] \in BuRow
  OBVIOUS
<1> QED
  BY <1>1, <1>2 DEF UpdateBu

\* DB::update changes the validity of the row it names and of no other.
LEMMA UpdateBuOwes ==
    ASSUME NEW q \in Seq(BuRow), NEW b \in Backfilled, NEW t \in Time,
           NEW v \in BOOLEAN, NEW c, NEW u
    PROVE  Owes(UpdateBu(q, b, t, v), c, u)
             <=> IF c = b /\ u = t THEN v ELSE Owes(q, c, u)
<1> DEFINE p == UpdateBu(q, b, t, v)
<1>1. CASE \E n \in 1..Len(q) : Matches(q[n], b, t)
  <2>1. /\ Len(p) = Len(q)
        /\ \A n \in 1..Len(q) :
              p[n] = IF Matches(q[n], b, t) THEN Row(b, t, v) ELSE q[n]
    BY <1>1 DEF UpdateBu, BuRow, Row, Matches
  <2> HIDE DEF p
  <2>2. Owes(p, c, u) <=> IF c = b /\ u = t THEN v ELSE Owes(q, c, u)
    BY <1>1, <2>1 DEF Owes, ValidRows, Matches, Row, BuRow
  <2> QED
    BY <2>2 DEF p
<1>2. CASE ~\E n \in 1..Len(q) : Matches(q[n], b, t)
  <2>1. /\ Len(p) = Len(q) + 1
        /\ \A n \in 1..Len(q) : p[n] = q[n]
        /\ p[Len(q) + 1] = Row(b, t, v)
    BY <1>2 DEF UpdateBu, BuRow, Row, Matches
  <2> HIDE DEF p
  <2>2. Owes(p, c, u) <=> IF c = b /\ u = t THEN v ELSE Owes(q, c, u)
    BY <1>2, <2>1 DEF Owes, ValidRows, Matches, Row, BuRow
  <2> QED
    BY <2>2 DEF p
<1> QED
  BY <1>1, <1>2

\* After DB::update every row is a row of before or the row it names.
LEMMA UpdateBuRows ==
    ASSUME NEW q \in Seq(BuRow), NEW b \in Backfilled, NEW t \in Time,
           NEW v \in BOOLEAN, NEW n \in 1..Len(UpdateBu(q, b, t, v))
    PROVE  \/ UpdateBu(q, b, t, v)[n].name = b /\ UpdateBu(q, b, t, v)[n].tdate = t
           \/ \E k \in 1..Len(q) : q[k] = UpdateBu(q, b, t, v)[n]
<1>1. Row(b, t, v).name = b /\ Row(b, t, v).tdate = t
  BY DEF Row
<1>2. CASE \E k \in 1..Len(q) : Matches(q[k], b, t)
  <2>1. Len(UpdateBu(q, b, t, v)) = Len(q)
    BY <1>2 DEF UpdateBu
  <2> QED
    BY <1>1, <1>2, <2>1 DEF UpdateBu
<1>3. CASE ~\E k \in 1..Len(q) : Matches(q[k], b, t)
  <2>1. UpdateBu(q, b, t, v) = Append(q, Row(b, t, v))
    BY <1>3 DEF UpdateBu
  <2> QED
    BY <1>1, <2>1
<1> QED
  BY <1>2, <1>3

\* devdata_db_save leaves every other row and makes the one it names exist.
LEMMA SaveRows ==
    ASSUME NEW rs, NEW tb, NEW t, NEW data
    PROVE  /\ HasRow(Save(rs, tb, t, data), tb, t)
           /\ \A tb2, t2 : HasRow(rs, tb2, t2) => HasRow(Save(rs, tb, t, data), tb2, t2)
           /\ \A r \in Save(rs, tb, t, data) : r \in rs \/ r.data = data
<1> DEFINE new == [tb |-> tb, date |-> t, data |-> data]
<1>1. new \in Save(rs, tb, t, data) /\ new.tb = tb /\ new.date = t /\ new.data = data
  BY DEF Save
<1>2. ASSUME NEW r \in rs
      PROVE  r \in Save(rs, tb, t, data) \/ (r.tb = tb /\ r.date = t)
  BY DEF Save
<1>3. \A r \in Save(rs, tb, t, data) : r \in rs \/ r = new
  BY DEF Save
<1> HIDE DEF new
<1> QED
  BY <1>1, <1>2, <1>3 DEF HasRow

LEMMA SaveType ==
    ASSUME NEW rs, rs \subseteq RecordRow, NEW tb \in STRING, NEW t \in Time,
           NEW data \in Data
    PROVE  Save(rs, tb, t, data) \subseteq RecordRow
<1>1. [tb |-> tb, date |-> t, data |-> data] \in RecordRow
  BY DEF RecordRow
<1> QED
  BY <1>1 DEF Save

LEMMA LookupHit ==
    ASSUME NEW rs, NEW tb, NEW t, HasRow(rs, tb, t)
    PROVE  \E r \in rs : r.tb = tb /\ r.date = t /\ Lookup(rs, tb, t) = r.data
BY DEF HasRow, Lookup

-----------------------------------------------------------------------------
(* The invariant, one lemma per action.                                      *)

LEMMA ConstantFacts ==
    /\ Backfilled \subseteq Bao
    /\ Time \subseteq Nat /\ 0 \in Time /\ Start \in Time
    /\ NoData \in Data /\ NoData \notin Time
    /\ \A n \in 1..Len(Order) : Order[n] \in Bao
    /\ \A b \in Backfilled : Table[b] \in STRING
    /\ Len(Order) \in Nat
BY OrderAssumption, TimeAssumption, NoDataAssumption, TableAssumption
   DEF Backfilled, Bao, Time, Data

LEMMA CycleFacts ==
    ASSUME NEW b \in Bao, NEW t \in Time
    PROVE  /\ Cycle(b) \in Nat
           /\ Cycle(b) >= MinCycle => t - (t % Cycle(b)) \in Time
BY PeriodStart, IntervalAssumption, TimeAssumption DEF Cycle

LEMMA BuElement ==
    ASSUME TypeOK, NEW n \in 1..Len(bu)
    PROVE  bu[n] \in BuRow
<1>1. bu \in Seq(BuRow)
  BY DEF TypeOK
<1> QED
  BY <1>1

LEMMA InitInv == Init => TypeOK /\ ReportInv
<1> SUFFICES ASSUME Init PROVE TypeOK /\ ReportInv
  OBVIOUS
<1>1. Start - (Start % Freeze) \in Time
  BY ConstantFacts, PeriodStart, TimeAssumption
<1>2. TypeOK
  <2>1. bu \in Seq(BuRow)
    <3>1. bu = <<>>
      BY DEF Init
    <3> QED
      BY <3>1
  <2>2. i \in 1..(Len(Order) + 1)
    <3>1. i = Len(Order) + 1
      BY DEF Init
    <3> QED
      BY <3>1, ConstantFacts
  <2> QED
    BY <1>1, <2>1, <2>2, ConstantFacts DEF Init, TypeOK
<1>3. Stage
  BY DEF Init, Stage
<1>4. Stored
  <2>1. /\ items /\ rows = {} /\ bu = <<>> /\ phase = "poll"
        /\ \A b \in Bao : ~record_enable[b] /\ ~report_enable[b]
    BY DEF Init
  <2> QED
    BY <2>1, ConstantFacts DEF Stored
<1>5. Replaying
  BY DEF Init, Replaying
<1>6. AccountedFor
  BY DEF Init, AccountedFor
<1> QED
  BY <1>2, <1>3, <1>4, <1>5, <1>6 DEF ReportInv

\* poll() keeps the types.
LEMMA PollType ==
    ASSUME TypeOK, Stage, NEW b \in Bao, Poll(b)
    PROVE  TypeOK'
<1>1. record_check(b) => PeriodOf(b) \in Time
  BY CycleFacts DEF record_check, RecordTimer, PeriodOf, TypeOK
<1>2. Snapshot(now) \in Data
  BY DEF Snapshot, Data, TypeOK
<1>3. /\ RecordTimer(b) \in BOOLEAN /\ ReportTimer(b) \in BOOLEAN
      /\ record_check(b) \in BOOLEAN
  BY DEF RecordTimer, ReportTimer, record_check, Check_Time
<1>4. /\ last_record_check_time' \in [Bao -> Time]
      /\ last_report_check_time' \in [Bao -> Time]
  BY DEF Poll, TypeOK
<1>5. record_enable' \in [Bao -> BOOLEAN] /\ report_enable' \in [Bao -> BOOLEAN]
  BY <1>3 DEF Poll, TypeOK
<1>6. /\ record_time' \in [Bao -> Time] /\ report_log' \in [Bao -> Data]
      /\ rows' \subseteq RecordRow
      /\ recorded' \subseteq Recorded
  <2>1. CASE record_check(b) /\ Stores(b)
    <3>1. /\ record_time' = [record_time EXCEPT ![b] = PeriodOf(b)]
          /\ report_log' = [report_log EXCEPT ![b] = Snapshot(now)]
          /\ rows' = Save(rows, Table[b], PeriodOf(b), Snapshot(now))
          /\ recorded' = recorded \cup
               {[name |-> b, tdate |-> PeriodOf(b), data |-> Snapshot(now), boot |-> boot]}
      BY <2>1 DEF Poll
    <3>2. Table[b] \in STRING
      BY TableAssumption
    <3>3. PeriodOf(b) \in Time
      BY <1>1, <2>1
    <3>4. rows' \subseteq RecordRow
      BY <1>2, <3>1, <3>2, <3>3, SaveType DEF TypeOK
    <3>5. recorded' \subseteq Recorded
      <4>1. [name |-> b, tdate |-> PeriodOf(b), data |-> Snapshot(now), boot |-> boot]
               \in Recorded
        BY <1>2, <3>3 DEF TypeOK, Recorded
      <4> QED
        BY <3>1, <4>1 DEF TypeOK
    <3> QED
      BY <1>2, <3>1, <3>3, <3>4, <3>5 DEF TypeOK
  <2>2. CASE ~(record_check(b) /\ Stores(b))
    BY <2>2 DEF Poll, TypeOK
  <2> QED
    BY <2>1, <2>2
<1>7. m' \in [name : Backfilled \cup {""}, tdate : Time]
  <2>1. ASSUME NEW n \in 1..Len(bu),
               m' = [name |-> bu[n].name, tdate |-> bu[n].tdate]
        PROVE  m' \in [name : Backfilled \cup {""}, tdate : Time]
    <3>1. bu[n] \in BuRow
      BY BuElement
    <3> QED
      BY <2>1, <3>1 DEF BuRow
  <2> QED
    BY <2>1 DEF Poll, TypeOK
<1>8. i' \in 1..(Len(Order) + 1) /\ phase' \in {"poll", "due", "wait"}
  <2>1. /\ i \in 1..(Len(Order) + 1) /\ i <= Len(Order)
        /\ \/ phase' = "due" /\ i' = i
           \/ phase' = "poll" /\ i' = i + 1
    BY DEF Poll, TypeOK
  <2> QED
    BY <2>1, ConstantFacts
<1> QED
  BY <1>4, <1>5, <1>6, <1>7, <1>8 DEF Poll, TypeOK

\* What poll() does to the flags of its object and of the others.
LEMMA PollFlags ==
    ASSUME TypeOK, Stage, NEW b \in Bao, Poll(b)
    PROVE  /\ \A c \in Bao : ~report_enable[c]
           /\ \A c \in Bao \ {b} : /\ record_enable'[c] = record_enable[c]
                                   /\ report_enable'[c] = report_enable[c]
                                   /\ record_time'[c] = record_time[c]
           /\ record_enable'[b] \/ report_enable'[b] <=> record_enable[b] \/ record_check(b)
           /\ ~(record_enable'[b] /\ report_enable'[b])
           /\ record_check(b) => ~record_enable[b]
           /\ record_check(b) /\ Stores(b) => record_time'[b] = PeriodOf(b)
           /\ ~(record_check(b) /\ Stores(b)) => record_time'[b] = record_time[b]
<1>1. /\ record_enable \in [Bao -> BOOLEAN] /\ report_enable \in [Bao -> BOOLEAN]
      /\ record_time \in [Bao -> Time]
  BY DEF TypeOK
<1>2. \A c \in Bao : ~report_enable[c]
  BY <1>1 DEF Stage, Poll
<1>3. /\ record_enable' =
            [record_enable EXCEPT ![b] = (@ \/ record_check(b)) /\ ~ReportTimer(b)]
      /\ report_enable' =
            [report_enable EXCEPT ![b] = (@ /\ Cycle(b) >= MinCycle) \/ ReportTimer(b)]
  BY DEF Poll
<1>4. record_check(b) => ~record_enable[b]
  BY DEF record_check, RecordTimer
<1>5. ReportTimer(b) => record_enable[b] \/ record_check(b)
  BY DEF ReportTimer
<1>6. /\ record_check(b) /\ Stores(b) =>
            record_time' = [record_time EXCEPT ![b] = PeriodOf(b)]
      /\ ~(record_check(b) /\ Stores(b)) => record_time' = record_time
  BY DEF Poll
<1>7. /\ record_check(b) /\ Stores(b) => record_time'[b] = PeriodOf(b)
      /\ ~(record_check(b) /\ Stores(b)) => record_time'[b] = record_time[b]
      /\ \A c \in Bao \ {b} : record_time'[c] = record_time[c]
  BY <1>1, <1>6
<1>8. \A c \in Bao \ {b} : /\ record_enable'[c] = record_enable[c]
                           /\ report_enable'[c] = report_enable[c]
  BY <1>1, <1>3
<1>9. /\ record_enable'[b] \/ report_enable'[b] <=> record_enable[b] \/ record_check(b)
      /\ ~(record_enable'[b] /\ report_enable'[b])
  BY <1>1, <1>2, <1>3, <1>5
<1> QED
  BY <1>2, <1>4, <1>7, <1>8, <1>9

LEMMA PollInv ==
    ASSUME TypeOK, ReportInv, NEW b \in Bao, Poll(b)
    PROVE  ReportInv'
<1> USE DEF ReportInv
<1>0. /\ phase = "poll" /\ i <= Len(Order) /\ b = Order[i]
      /\ UNCHANGED <<items, bu, cleared, boot, acked>>
  BY DEF Poll
<1>1. Stage'
  <2>1. \/ report_enable'[b] /\ phase' = "due" /\ i' = i
        \/ ~report_enable'[b] /\ phase' = "poll"
    BY DEF Poll
  <2>2. \A c \in Bao \ {b} : ~report_enable'[c]
    BY PollFlags
  <2>3. \A c \in Bao : ~(record_enable'[c] /\ report_enable'[c])
    BY PollFlags
  <2>4. \A r \in recorded' : r.boot <= boot'
    <3>1. \/ recorded' = recorded
          \/ recorded' = recorded \cup
               {[name |-> b, tdate |-> PeriodOf(b), data |-> Snapshot(now), boot |-> boot]}
      BY DEF Poll
    <3>2. boot \in Nat
      BY DEF TypeOK
    <3> QED
      BY <1>0, <3>1, <3>2 DEF Stage
  <2> QED
    BY <1>0, <2>1, <2>2, <2>3, <2>4 DEF Stage
<1>2. ~cleared => Stored'
  <2> SUFFICES ASSUME ~cleared PROVE Stored'
    OBVIOUS
  <2>1. \A tb, t : HasRow(rows, tb, t) => HasRow(rows', tb, t)
    BY SaveRows DEF Poll
  <2>2. \A r \in rows' : r.data # NoData
    <3>1. Snapshot(now) # NoData
      BY ConstantFacts DEF Snapshot, Stored, TypeOK
    <3>2. \/ rows' = rows
          \/ rows' = Save(rows, Table[b], PeriodOf(b), Snapshot(now))
      BY DEF Poll
    <3> QED
      BY <3>1, <3>2, SaveRows DEF Stored
  <2>3. ASSUME NEW c \in Backfilled, record_enable'[c] \/ report_enable'[c]
        PROVE  HasRow(rows', Table[c], record_time'[c])
    <3>1. CASE c # b
      BY <2>1, <2>3, <3>1, PollFlags, ConstantFacts DEF Stored
    <3>2. CASE c = b /\ record_check(b)
      <4>1. Stores(b)
        BY <3>2 DEF Stores, Backfilled
      <4>2. rows' = Save(rows, Table[b], PeriodOf(b), Snapshot(now))
        BY <3>2, <4>1 DEF Poll
      <4> QED
        BY <3>2, <4>1, <4>2, PollFlags, SaveRows
    <3>3. CASE c = b /\ ~record_check(b)
      BY <2>1, <2>3, <3>3, PollFlags DEF Stored
    <3> QED
      BY <3>1, <3>2, <3>3
  <2>4. phase' # "wait"
    BY DEF Poll
  <2> QED
    BY <1>0, <2>1, <2>2, <2>3, <2>4 DEF Stored
<1>3. Replaying'
  <2> SUFFICES ASSUME NEW c \in Bao, Kind[c] = "bu",
                      record_enable'[c] \/ report_enable'[c]
               PROVE  m'.name \in Backfilled /\ (~cleared => Owes(bu, m'.name, m'.tdate))
    BY <1>0 DEF Replaying
  <2>1. CASE record_check(b) /\ Kind[b] = "bu"
    <3>1. PICK n \in 1..Len(bu) :
             FirstValid(bu, n) /\ m' = [name |-> bu[n].name, tdate |-> bu[n].tdate]
      BY <2>1 DEF Poll
    <3>2. bu[n] \in BuRow
      BY BuElement
    <3> QED
      BY <3>1, <3>2 DEF BuRow, FirstValid, Owes, Matches
  <2>2. CASE ~(record_check(b) /\ Kind[b] = "bu")
    <3>1. m' = m
      BY <2>2 DEF Poll
    <3>2. record_enable[c] \/ report_enable[c]
      BY <2>2, PollFlags
    <3> QED
      BY <3>1, <3>2 DEF Replaying
  <2> QED
    BY <2>1, <2>2
<1>4. AccountedFor'
  <2> SUFFICES ASSUME ~cleared, NEW r \in recorded', r.boot = boot,
                      r.name \in Backfilled
               PROVE  AccountFor(r)'
    BY <1>0 DEF AccountedFor
  <2>1. CASE r \in recorded
    <3>1. AccountFor(r)
      BY <2>1 DEF AccountedFor
    <3>2. Pending(r.name, r.tdate) => Pending(r.name, r.tdate)'
      BY PollFlags, ConstantFacts DEF Pending
    <3> QED
      BY <1>0, <3>1, <3>2 DEF AccountFor, Acked
  <2>2. CASE r \notin recorded
    <3>1. /\ record_check(b) /\ Stores(b)
          /\ r = [name |-> b, tdate |-> PeriodOf(b), data |-> Snapshot(now), boot |-> boot]
      BY <2>2 DEF Poll
    <3>2. r.name = b /\ r.tdate = PeriodOf(b)
      BY <3>1
    <3> QED
      BY <3>1, <3>2, PollFlags DEF AccountFor, Pending
  <2> QED
    BY <2>1, <2>2
<1> QED
  BY <1>0, <1>1, <1>2, <1>3, <1>4

-----------------------------------------------------------------------------
(* A report under way.                                                       *)

\* The row that bubao replays is in its table as long as nothing was erased.
LEMMA NotMissing ==
    ASSUME TypeOK, ReportInv, ~cleared, NEW b \in Bao, Kind[b] = "bu",
           report_enable[b]
    PROVE  HasRow(rows, Table[m.name], m.tdate)
<1>1. Owes(bu, m.name, m.tdate)
  BY DEF ReportInv, Replaying
<1>2. PICK n \in ValidRows(bu) : Matches(bu[n], m.name, m.tdate)
  BY <1>1 DEF Owes
<1>3. n \in 1..Len(bu) /\ bu[n].name = m.name /\ bu[n].tdate = m.tdate
  BY <1>2 DEF ValidRows, Matches
<1> QED
  BY <1>3 DEF ReportInv, Stored

LEMMA LookupType ==
    ASSUME NEW tb, NEW t, rows \subseteq RecordRow
    PROVE  Lookup(rows, tb, t) \in Data
<1>1. CASE HasRow(rows, tb, t)
  BY <1>1, LookupHit DEF RecordRow
<1>2. CASE ~HasRow(rows, tb, t)
  BY <1>2, ConstantFacts DEF Lookup
<1> QED
  BY <1>1, <1>2

\* The object whose report is under way, and the row it replays.
LEMMA UnderWay ==
    ASSUME TypeOK, Stage, Replaying, phase # "poll", NEW b, b = Order[i]
    PROVE  /\ b \in Bao /\ report_enable[b] /\ ~record_enable[b]
           /\ m.tdate \in Time
           /\ Kind[b] = "bu" => m.name \in Backfilled
           /\ b \in Backfilled => Kind[b] # "bu" /\ Kind[b] # "raw"
<1>1. i \in 1..Len(Order)
  <2>1. i \in 1..(Len(Order) + 1)
    BY DEF TypeOK
  <2>2. i <= Len(Order)
    BY DEF Stage
  <2> QED
    BY <2>1, <2>2, ConstantFacts
<1>2. b \in Bao
  BY <1>1, ConstantFacts
<1>3. report_enable[b] /\ ~record_enable[b]
  BY <1>2 DEF Stage
<1> QED
  BY <1>2, <1>3 DEF Replaying, TypeOK, Backfilled

LEMMA ReportStep ==
    ASSUME TypeOK, ReportInv, NEW b \in Bao, Report(b)
    PROVE  TypeOK' /\ ReportInv'
<1> USE DEF ReportInv
<1>0. /\ phase = "due" /\ b = Order[i] /\ phase' = "wait"
      /\ UNCHANGED <<i, record_enable, report_enable, record_time, m, rows, items,
                     boot, cleared, recorded, acked>>
  BY DEF Report
<1>1. /\ report_enable[b] /\ m.tdate \in Time
      /\ Kind[b] = "bu" => m.name \in Backfilled
  BY <1>0, UnderWay
<1>2. TypeOK'
  <2>1. sent' \in Data
    <3>1. Lookup(rows, Table[m.name], m.tdate) \in Data
      BY LookupType DEF TypeOK
    <3>2. report_log[b] \in Data
      BY DEF TypeOK
    <3> QED
      BY <3>1, <3>2 DEF Report, report_data
  <2>2. bu' \in Seq(BuRow)
    <3>1. Kind[b] = "bu" => UpdateBu(bu, m.name, m.tdate, FALSE) \in Seq(BuRow)
      BY <1>1, UpdateBuType DEF TypeOK
    <3> QED
      BY <3>1 DEF Report, report_data, TypeOK
  <2> QED
    BY <1>0, <2>1, <2>2 DEF Report, TypeOK
<1>3. ~cleared => bu' = bu
  <2>1. ~cleared /\ Kind[b] = "bu" => ~Missing
    BY <1>1, NotMissing DEF Missing
  <2> QED
    BY <2>1 DEF Report, report_data
<1>4. Stage'
  BY <1>0 DEF Stage
<1>5. ~cleared => Stored'
  <2> SUFFICES ASSUME ~cleared PROVE Stored'
    OBVIOUS
  <2>1. Kind[Order[i]] = "bu" => sent' # NoData
    <3> SUFFICES ASSUME Kind[b] = "bu" PROVE sent' # NoData
      BY <1>0
    <3>1. sent' = Lookup(rows, Table[m.name], m.tdate)
      BY DEF Report, report_data
    <3> QED
      BY <1>1, <3>1, NotMissing, LookupHit DEF Stored
  <2> QED
    BY <1>0, <1>3, <2>1 DEF Stored
<1>6. Replaying'
  BY <1>0, <1>3 DEF Replaying
<1>7. AccountedFor'
  BY <1>0, <1>3 DEF AccountedFor, AccountFor, Pending, Acked
<1> QED
  BY <1>0, <1>2, <1>4, <1>5, <1>6, <1>7

\* report_check(true) after report_ok or report_fail, whatever became of "bu".
LEMMA EndReportStep ==
    ASSUME TypeOK, Stage, NEW b \in Bao, phase = "wait", b = Order[i], EndReport(b),
           now' \in Time, bu' \in Seq(BuRow), acked' \subseteq Confirmed
    PROVE  /\ TypeOK' /\ Stage'
           /\ \A c \in Bao : ~report_enable'[c]
           /\ UNCHANGED <<record_enable, record_time, m, rows, items, boot, recorded>>
           /\ phase' = "poll"
           /\ cleared' = cleared
<1>1. /\ report_enable' = [report_enable EXCEPT ![b] = FALSE]
      /\ phase' = "poll" /\ i' = i + 1
      /\ UNCHANGED <<s, last_record_check_time, last_report_check_time, record_enable,
                     record_time, report_log, m, sent, rows, jia, items, lastFreeze,
                     boot, cleared, recorded>>
  BY DEF EndReport
<1>2. report_enable \in [Bao -> BOOLEAN]
  BY DEF TypeOK
<1>3. \A c \in Bao : ~report_enable'[c]
  BY <1>1, <1>2 DEF Stage
<1>4. i' \in 1..(Len(Order) + 1)
  <2>1. i \in 1..(Len(Order) + 1)
    BY DEF TypeOK
  <2>2. i <= Len(Order)
    BY DEF Stage
  <2> QED
    BY <1>1, <2>1, <2>2, ConstantFacts
<1>5. TypeOK'
  BY <1>1, <1>2, <1>4 DEF TypeOK
<1>6. Stage'
  BY <1>1, <1>3 DEF Stage
<1> QED
  BY <1>1, <1>3, <1>5, <1>6

LEMMA ReportOkStep ==
    ASSUME TypeOK, ReportInv, NEW b \in Bao, ReportOk(b)
    PROVE  TypeOK' /\ ReportInv'
<1> USE DEF ReportInv
<1>0. /\ phase = "wait" /\ b = Order[i] /\ EndReport(b)
      /\ bu' = IF Kind[b] = "bu" THEN UpdateBu(bu, m.name, m.tdate, FALSE) ELSE bu
  BY DEF ReportOk
<1>1. /\ report_enable[b] /\ ~record_enable[b] /\ m.tdate \in Time
      /\ Kind[b] = "bu" => m.name \in Backfilled
      /\ b \in Backfilled => Kind[b] # "bu" /\ Kind[b] # "raw"
  BY <1>0, UnderWay
<1>2. now' \in Time
  <2>1. now \in Time /\ \A d \in 0..MaxWait : Later(now, d) \in Time
    BY LaterClock DEF TypeOK
  <2> QED
    BY <2>1 DEF ReportOk
<1>3. bu' \in Seq(BuRow)
  BY <1>0, <1>1, UpdateBuType DEF TypeOK
<1>4. acked' \subseteq Confirmed
  <2> DEFINE a == [name |-> IF Kind[b] = "bu" THEN m.name ELSE b,
                   tdate |-> IF Kind[b] = "bu" THEN m.tdate ELSE record_time[b],
                   data |-> sent, by |-> b, observetime |-> record_time[b]]
  <2>1. a \in Confirmed
    BY <1>1, ConstantFacts DEF Confirmed, TypeOK
  <2>2. acked' = acked \/ acked' = acked \cup {a}
    BY DEF ReportOk, ObserveTime
  <2> HIDE DEF a
  <2> QED
    BY <2>1, <2>2 DEF TypeOK
<1>5. /\ TypeOK' /\ Stage' /\ phase' = "poll" /\ cleared' = cleared
      /\ \A c \in Bao : ~report_enable'[c]
      /\ UNCHANGED <<record_enable, record_time, m, rows, items, boot, recorded>>
  BY <1>0, <1>2, <1>3, <1>4, EndReportStep
<1>6. ~cleared => Stored'
  <2> SUFFICES ASSUME ~cleared PROVE Stored'
    OBVIOUS
  <2>1. ASSUME NEW n \in 1..Len(bu')
        PROVE  HasRow(rows, Table[bu'[n].name], bu'[n].tdate)
    <3>1. CASE Kind[b] = "bu"
      <4>1. \/ bu'[n].name = m.name /\ bu'[n].tdate = m.tdate
            \/ \E k \in 1..Len(bu) : bu[k] = bu'[n]
        <5>1. bu \in Seq(BuRow) /\ bu' = UpdateBu(bu, m.name, m.tdate, FALSE)
          BY <1>0, <3>1 DEF TypeOK
        <5>2. m.name \in Backfilled /\ m.tdate \in Time /\ FALSE \in BOOLEAN
          BY <1>1, <3>1
        <5>3. \A k \in 1..Len(UpdateBu(bu, m.name, m.tdate, FALSE)) :
                 \/ /\ UpdateBu(bu, m.name, m.tdate, FALSE)[k].name = m.name
                    /\ UpdateBu(bu, m.name, m.tdate, FALSE)[k].tdate = m.tdate
                 \/ \E j \in 1..Len(bu) : bu[j] = UpdateBu(bu, m.name, m.tdate, FALSE)[k]
          BY <5>1, <5>2, UpdateBuRows
        <5> QED
          BY <5>1, <5>3
      <4> QED
        BY <1>1, <3>1, <4>1, NotMissing DEF Stored
    <3>2. CASE Kind[b] # "bu"
      BY <1>0, <3>2 DEF Stored
    <3> QED
      BY <3>1, <3>2
  <2> QED
    BY <1>5, <2>1, ConstantFacts DEF Stored
<1>7. Replaying'
  <2> SUFFICES ASSUME NEW c \in Bao, Kind[c] = "bu", record_enable[c]
               PROVE  m.name \in Backfilled /\ (~cleared => Owes(bu', m.name, m.tdate))
    BY <1>5 DEF Replaying
  <2>1. Kind[b] # "bu"
    BY <1>1, KindAssumption
  <2> QED
    BY <1>0, <2>1 DEF Replaying
<1>8. AccountedFor'
  <2> SUFFICES ASSUME ~cleared, NEW r \in recorded, r.boot = boot,
                      r.name \in Backfilled
               PROVE  AccountFor(r)'
    BY <1>5 DEF AccountedFor
  <2>1. AccountFor(r)
    BY DEF AccountedFor
  <2>2. acked \subseteq acked'
    BY DEF ReportOk
  <2>3. CASE Pending(r.name, r.tdate) /\ r.name # b
    BY <1>5, <2>3, ConstantFacts DEF AccountFor, Pending, Stage, ReportOk, EndReport, TypeOK
  <2>4. CASE Pending(r.name, r.tdate) /\ r.name = b
    <3>1. [name |-> b, tdate |-> record_time[b], data |-> sent, by |-> b,
           observetime |-> record_time[b]] \in acked'
      BY <1>1, <2>4 DEF ReportOk, NothingToSend, ObserveTime
    <3>2. record_time[b] = r.tdate
      BY <2>4 DEF Pending
    <3> QED
      BY <2>4, <3>1, <3>2 DEF AccountFor, Acked
  <2>5. CASE Acked(r.name, r.tdate)
    BY <2>2, <2>5 DEF AccountFor, Acked
  <2>6. CASE Owes(bu, r.name, r.tdate)
    <3>1. CASE Kind[b] = "bu" /\ r.name = m.name /\ r.tdate = m.tdate
      <4>1. sent # NoData
        BY <1>0, <3>1 DEF Stored
      <4>2. [name |-> m.name, tdate |-> m.tdate, data |-> sent, by |-> b,
             observetime |-> record_time[b]] \in acked'
        BY <3>1, <4>1 DEF ReportOk, NothingToSend, ObserveTime
      <4> QED
        BY <3>1, <4>2 DEF AccountFor, Acked
    <3>2. CASE ~(Kind[b] = "bu" /\ r.name = m.name /\ r.tdate = m.tdate)
      <4>1. Owes(bu', r.name, r.tdate)
        <5>1. bu \in Seq(BuRow)
          BY DEF TypeOK
        <5> QED
          BY <1>0, <1>1, <2>6, <3>2, <5>1, UpdateBuOwes
      <4> QED
        BY <4>1 DEF AccountFor
    <3> QED
      BY <3>1, <3>2
  <2> QED
    BY <2>1, <2>3, <2>4, <2>5, <2>6 DEF AccountFor
<1> QED
  BY <1>5, <1>6, <1>7, <1>8

LEMMA ReportFailStep ==
    ASSUME TypeOK, ReportInv, NEW b \in Bao, ReportFail(b)
    PROVE  TypeOK' /\ ReportInv'
<1> USE DEF ReportInv
<1>0. /\ phase = "wait" /\ b = Order[i] /\ EndReport(b) /\ acked' = acked
      /\ bu' = IF b \in Backfilled THEN UpdateBu(bu, b, record_time[b], TRUE) ELSE bu
  BY DEF ReportFail
<1>1. report_enable[b] /\ ~record_enable[b] /\ record_time[b] \in Time
  BY <1>0, UnderWay DEF TypeOK
<1>2. now' \in Time
  <2>1. \A d \in 0..MaxWait : Later(now, d) \in Time
    BY LaterClock
  <2> QED
    BY <2>1 DEF ReportFail
<1>3. bu' \in Seq(BuRow)
  BY <1>0, <1>1, UpdateBuType DEF TypeOK
<1>4. \A c, t : Owes(bu, c, t) => Owes(bu', c, t)
  BY <1>0, <1>1, UpdateBuOwes DEF TypeOK
<1>5. /\ TypeOK' /\ Stage' /\ phase' = "poll" /\ cleared' = cleared
      /\ \A c \in Bao : ~report_enable'[c]
      /\ UNCHANGED <<record_enable, record_time, m, rows, items, boot, recorded>>
  <2>1. acked' \subseteq Confirmed
    BY <1>0 DEF TypeOK
  <2> QED
    BY <1>0, <1>2, <1>3, <2>1, EndReportStep
<1>6. ~cleared => Stored'
  <2> SUFFICES ASSUME ~cleared PROVE Stored'
    OBVIOUS
  <2>1. ASSUME NEW n \in 1..Len(bu')
        PROVE  HasRow(rows, Table[bu'[n].name], bu'[n].tdate)
    <3>1. CASE b \in Backfilled
      <4>1. \/ bu'[n].name = b /\ bu'[n].tdate = record_time[b]
            \/ \E k \in 1..Len(bu) : bu[k] = bu'[n]
        <5>1. bu \in Seq(BuRow) /\ bu' = UpdateBu(bu, b, record_time[b], TRUE)
          BY <1>0, <3>1 DEF TypeOK
        <5>2. b \in Backfilled /\ record_time[b] \in Time /\ TRUE \in BOOLEAN
          BY <1>1, <3>1
        <5>3. \A k \in 1..Len(UpdateBu(bu, b, record_time[b], TRUE)) :
                 \/ /\ UpdateBu(bu, b, record_time[b], TRUE)[k].name = b
                    /\ UpdateBu(bu, b, record_time[b], TRUE)[k].tdate = record_time[b]
                 \/ \E j \in 1..Len(bu) : bu[j] = UpdateBu(bu, b, record_time[b], TRUE)[k]
          BY <5>1, <5>2, UpdateBuRows
        <5> QED
          BY <5>1, <5>3
      <4> QED
        BY <1>1, <3>1, <4>1 DEF Stored
    <3>2. CASE b \notin Backfilled
      BY <1>0, <3>2 DEF Stored
    <3> QED
      BY <3>1, <3>2
  <2> QED
    BY <1>5, <2>1, ConstantFacts DEF Stored
<1>7. Replaying'
  BY <1>4, <1>5 DEF Replaying
<1>8. AccountedFor'
  <2> SUFFICES ASSUME ~cleared, NEW r \in recorded, r.boot = boot,
                      r.name \in Backfilled
               PROVE  AccountFor(r)'
    BY <1>5 DEF AccountedFor
  <2>1. AccountFor(r)
    BY DEF AccountedFor
  <2>2. CASE Pending(r.name, r.tdate) /\ r.name # b
    BY <1>5, <2>2, ConstantFacts DEF AccountFor, Pending, Stage, ReportFail, EndReport, TypeOK
  <2>3. CASE Pending(r.name, r.tdate) /\ r.name = b
    <3>1. b \in Backfilled /\ record_time[b] = r.tdate
      BY <2>3 DEF Pending
    <3>2. Owes(bu', b, record_time[b])
      BY <1>0, <1>1, <3>1, UpdateBuOwes DEF TypeOK
    <3> QED
      BY <2>3, <3>1, <3>2 DEF AccountFor
  <2>4. CASE Acked(r.name, r.tdate)
    BY <1>0, <2>4 DEF AccountFor, Acked
  <2>5. CASE Owes(bu, r.name, r.tdate)
    BY <1>4, <2>5 DEF AccountFor
  <2> QED
    BY <2>1, <2>2, <2>3, <2>4, <2>5 DEF AccountFor
<1> QED
  BY <1>5, <1>6, <1>7, <1>8

-----------------------------------------------------------------------------
(* The steps between two rounds, the data thread, and the restarts.          *)

LEMMA NextRoundStep ==
    ASSUME TypeOK, ReportInv, NextRound
    PROVE  TypeOK' /\ ReportInv'
<1>1. /\ phase = "poll" /\ i' = 1
      /\ UNCHANGED <<phase, upVars, rows, bu, jia, items, lastFreeze, boot, cleared,
                     recorded, acked>>
      /\ s' \in {"tcp", "null"}
  BY DEF NextRound, AfterLoop
<1>2. now' \in Time
  BY LaterClock DEF NextRound
<1>3. 1 \in 1..(Len(Order) + 1)
  BY ConstantFacts
<1>4. TypeOK'
  BY <1>1, <1>2, <1>3 DEF TypeOK, upVars
<1>5. Stage'
  BY <1>1 DEF ReportInv, Stage, upVars
<1>6. ~cleared => Stored'
  BY <1>1 DEF ReportInv, Stored, upVars
<1>7. Replaying' /\ AccountedFor'
  BY <1>1 DEF ReportInv, Replaying, AccountedFor, AccountFor, Pending, Acked, upVars
<1> QED
  BY <1>1, <1>4, <1>5, <1>6, <1>7 DEF ReportInv

LEMMA ClearHistoryStep ==
    ASSUME TypeOK, ReportInv, ClearHistory
    PROVE  TypeOK' /\ ReportInv'
<1>1. /\ rows' = {} /\ bu' = <<>> /\ items' = FALSE /\ cleared' = TRUE
      /\ jia' \in BOOLEAN
      /\ UNCHANGED <<now, i, phase, s, upVars, lastFreeze, boot, recorded, acked>>
  BY DEF ClearHistory
<1>2. bu' \in Seq(BuRow)
  BY <1>1
<1>3. TypeOK'
  BY <1>1, <1>2 DEF TypeOK, upVars
<1>4. Stage'
  BY <1>1 DEF ReportInv, Stage, upVars
<1>5. Replaying' /\ AccountedFor'
  BY <1>1 DEF ReportInv, Replaying, AccountedFor, upVars
<1> QED
  BY <1>1, <1>3, <1>4, <1>5 DEF ReportInv

\* SetTime and JiaFlag leave alone what the invariant is about.
LEMMA QuietStep ==
    ASSUME TypeOK, ReportInv, SetTime \/ JiaFlag
    PROVE  TypeOK' /\ ReportInv'
<1>1. /\ UNCHANGED <<i, phase, s, upVars, rows, bu, items, lastFreeze, boot, cleared,
                     recorded, acked>>
      /\ now' = now \/ now' \in ClockSets
      /\ jia' = jia \/ jia' = TRUE
  BY DEF SetTime, JiaFlag
<1>2. now' \in Time /\ jia' \in BOOLEAN
  BY <1>1, TimeAssumption DEF TypeOK, Time
<1>3. TypeOK'
  BY <1>1, <1>2 DEF TypeOK, upVars
<1>4. Stage' /\ (~cleared => Stored')
  BY <1>1 DEF ReportInv, Stage, Stored, upVars
<1>5. Replaying' /\ AccountedFor'
  BY <1>1 DEF ReportInv, Replaying, AccountedFor, AccountFor, Pending, Acked, upVars
<1> QED
  BY <1>1, <1>3, <1>4, <1>5 DEF ReportInv

LEMMA FreezeDataStep ==
    ASSUME TypeOK, ReportInv, FreezeData
    PROVE  TypeOK' /\ ReportInv'
<1>1. /\ lastFreeze' = now - (now % Freeze)
      /\ rows' = Save(rows, HourTable, now - (now % Hour), Snapshot(now))
      /\ UNCHANGED <<now, i, phase, s, upVars, bu, jia, items, boot, cleared, recorded,
                     acked>>
  BY DEF FreezeData
<1>2. /\ now \in Time /\ rows \subseteq RecordRow
      /\ now - (now % Freeze) \in Time /\ now - (now % Hour) \in Time
  <2>1. now \in Time /\ rows \subseteq RecordRow
    BY DEF TypeOK
  <2> QED
    BY <2>1, PeriodStart, TimeAssumption
<1>3. Snapshot(now) \in Data /\ (items => Snapshot(now) # NoData)
  BY <1>2, ConstantFacts DEF Snapshot, Data
<1>4. rows' \subseteq RecordRow
  BY <1>1, <1>2, <1>3, SaveType, TableAssumption
<1>5. TypeOK'
  BY <1>1, <1>2, <1>4 DEF TypeOK, upVars
<1>6. Stage'
  BY <1>1 DEF ReportInv, Stage, upVars
<1>7. ~cleared => Stored'
  <2>1. \A tb, t : HasRow(rows, tb, t) => HasRow(rows', tb, t)
    BY <1>1, SaveRows
  <2>2. Stored => \A r \in rows' : r.data # NoData
    BY <1>1, <1>3, SaveRows DEF Stored
  <2> QED
    BY <1>1, <2>1, <2>2 DEF ReportInv, Stored, upVars
<1>8. Replaying' /\ AccountedFor'
  BY <1>1 DEF ReportInv, Replaying, AccountedFor, AccountFor, Pending, Acked, upVars
<1> QED
  BY <1>1, <1>5, <1>6, <1>7, <1>8 DEF ReportInv

\* A restart empties the report objects and keeps the tables.
LEMMA RestartStep ==
    ASSUME TypeOK, ReportInv, Restart, bu' \in Seq(BuRow), ~cleared => bu' = bu
    PROVE  TypeOK' /\ ReportInv'
<1>1. PICK d \in 1..MaxPause : now' = Later(now, d) /\ FreshObjects(Later(now, d))
  BY DEF Restart
<1>2. now' \in Time /\ FreshObjects(now')
  BY <1>1, LaterClock
<1>3. /\ i' = Len(Order) + 1 /\ phase' = "poll" /\ s' = "null"
      /\ boot' = boot + 1 /\ jia' = FALSE /\ items' = TRUE
      /\ UNCHANGED <<rows, cleared, recorded, acked>>
  BY DEF Restart
<1>4. now' - (now' % Freeze) \in Time
  BY <1>2, PeriodStart, TimeAssumption
<1>5. TypeOK'
  <2>1. /\ last_record_check_time' \in [Bao -> Time]
        /\ last_report_check_time' \in [Bao -> Time]
        /\ record_enable' \in [Bao -> BOOLEAN] /\ report_enable' \in [Bao -> BOOLEAN]
        /\ record_time' \in [Bao -> Time] /\ report_log' \in [Bao -> Data]
        /\ m' \in [name : Backfilled \cup {""}, tdate : Time]
        /\ sent' \in Data /\ lastFreeze' \in Time
    BY <1>2, <1>4, ConstantFacts DEF FreshObjects
  <2>2. i' \in 1..(Len(Order) + 1)
    BY <1>3, ConstantFacts
  <2>3. boot' \in Nat
    <3>1. boot \in Nat
      BY DEF TypeOK
    <3> QED
      BY <1>3, <3>1
  <2> QED
    BY <1>2, <1>3, <2>1, <2>2, <2>3 DEF TypeOK
<1>6. \A b \in Bao : ~record_enable'[b] /\ ~report_enable'[b]
  BY <1>2 DEF FreshObjects
<1>7. \A r \in recorded' : r.boot < boot'
  <2>1. \A r \in recorded : r.boot \in Nat /\ r.boot <= boot
    BY DEF TypeOK, Recorded, ReportInv, Stage
  <2>2. boot \in Nat
    BY DEF TypeOK
  <2> QED
    BY <1>3, <2>1, <2>2
<1>8. boot' \in Nat /\ \A r \in recorded' : r.boot \in Nat
  BY <1>5 DEF TypeOK, Recorded
<1>9. Stage'
  BY <1>3, <1>6, <1>7, <1>8 DEF Stage
<1>10. ~cleared => Stored'
  BY <1>3, <1>6, ConstantFacts DEF ReportInv, Stored
<1>11. Replaying'
  BY <1>6 DEF Replaying
<1>12. AccountedFor'
  BY <1>7, <1>8 DEF AccountedFor
<1> QED
  BY <1>3, <1>5, <1>9, <1>10, <1>11, <1>12 DEF ReportInv

LEMMA NullSendModeStep ==
    ASSUME TypeOK, ReportInv, NullSendMode
    PROVE  TypeOK' /\ ReportInv'
<1> DEFINE b == Order[i]
<1>1. /\ phase = "due" /\ Restart
      /\ bu' = IF Kind[b] = "bu" /\ Missing
               THEN UpdateBu(bu, m.name, m.tdate, FALSE) ELSE bu
  BY DEF NullSendMode
<1>2. /\ b \in Bao /\ report_enable[b] /\ m.tdate \in Time
      /\ Kind[b] = "bu" => m.name \in Backfilled
  BY <1>1, UnderWay DEF ReportInv
<1>3. bu \in Seq(BuRow)
  BY DEF TypeOK
<1> HIDE DEF b
<1>4. bu' \in Seq(BuRow)
  BY <1>1, <1>2, <1>3, UpdateBuType
<1>5. ~cleared => bu' = bu
  BY <1>1, <1>2, NotMissing DEF Missing
<1> QED
  BY <1>1, <1>4, <1>5, RestartStep

LEMMA NextInv ==
    ASSUME TypeOK, ReportInv, [Next]_vars
    PROVE  TypeOK' /\ ReportInv'
<1>1. ASSUME NEW b \in Bao, Poll(b) PROVE TypeOK' /\ ReportInv'
  BY <1>1, PollType, PollInv DEF ReportInv
<1>2. ASSUME NEW b \in Bao, Report(b) \/ ReportOk(b) \/ ReportFail(b)
      PROVE  TypeOK' /\ ReportInv'
  BY <1>2, ReportStep, ReportOkStep, ReportFailStep
<1>3. CASE NextRound \/ ClearHistory \/ SetTime \/ JiaFlag \/ FreezeData
  BY <1>3, NextRoundStep, ClearHistoryStep, QuietStep, FreezeDataStep
<1>4. CASE PowerLoss
  <2>1. Restart /\ bu' = bu
    BY <1>4 DEF PowerLoss
  <2>2. bu' \in Seq(BuRow)
    BY <2>1 DEF TypeOK
  <2> QED
    BY <2>1, <2>2, RestartStep
<1>5. CASE NullSendMode
  BY <1>5, NullSendModeStep
<1>6. CASE UNCHANGED vars
  <2>1. TypeOK'
    BY <1>6 DEF vars, upVars, TypeOK
  <2>2. Stage' /\ (~cleared' => Stored')
    BY <1>6 DEF vars, upVars, ReportInv, Stage, Stored
  <2>3. Replaying' /\ AccountedFor'
    BY <1>6 DEF vars, upVars, ReportInv, Replaying, AccountedFor, AccountFor, Pending,
                Acked
  <2> QED
    BY <2>1, <2>2, <2>3 DEF ReportInv
<1> QED
  BY <1>1, <1>2, <1>3, <1>4, <1>5, <1>6 DEF Next, UpThread

\* Every state of the reporting cycle is well typed: the tables hold rows of
\* reports with backfill only, and the clock and the periods stay in range.
THEOREM TypeCorrect == Spec => []TypeOK
<1>1. Init => TypeOK /\ ReportInv
  BY InitInv
<1>2. TypeOK /\ ReportInv /\ [Next]_vars => (TypeOK /\ ReportInv)'
  BY NextInv
<1> QED
  BY <1>1, <1>2, PTL DEF Spec

\* No report with backfill that was recorded since the start of the process is
\* ever forgotten: it is pending, or confirmed, or a valid row of "bu", as long
\* as the centre has not erased the history.
THEOREM NothingForgotten == Spec => []AccountedFor
<1>1. Init => TypeOK /\ ReportInv
  BY InitInv
<1>2. TypeOK /\ ReportInv /\ [Next]_vars => (TypeOK /\ ReportInv)'
  BY NextInv
<1>3. ReportInv => AccountedFor
  BY DEF ReportInv
<1> QED
  BY <1>1, <1>2, <1>3, PTL DEF Spec

\* A moment is n*cycle + delay for some n when the rest of the division is 0.
LEMMA MomentOfCycle ==
    ASSUME NEW t \in Int, NEW delay \in Int, NEW cycle \in Nat, cycle > 0
    PROVE  (t - delay) % cycle = 0 <=> \E n \in Int : t = n * cycle + delay
<1> DEFINE q == (t - delay) \div cycle
           r == (t - delay) % cycle
<1>1. q \in Int /\ r \in 0..(cycle - 1) /\ t - delay = cycle * q + r
  BY FloorFacts
<1> HIDE DEF q, r
<1>2. r = 0 => t = q * cycle + delay
  BY <1>1
<1>3. ASSUME NEW n \in Int, t = n * cycle + delay
      PROVE  r = 0
  <2>1. cycle * n = cycle * q + r
    BY <1>1, <1>3
  <2>2. cycle * (q + 1) = cycle * q + cycle
    BY <1>1
  <2>3. ~(q + 1 <= n)
    BY <1>1, <2>1, <2>2, TimesMonotone
  <2>4. ~(n + 1 <= q)
    <3>1. cycle * (n + 1) = cycle * n + cycle
      OBVIOUS
    <3>2. ~(cycle * (n + 1) <= cycle * q)
      BY <1>1, <2>1, <3>1
    <3> QED
      BY <1>1, <3>2, TimesMonotone
  <2>5. n = q
    BY <1>1, <2>3, <2>4
  <2> QED
    BY <1>1, <2>1, <2>5
<1> QED
  BY <1>1, <1>2, <1>3 DEF r

\* Both timers of every report object fire exactly when a moment n*cycle + delay
\* lies between their last check and now, for every interval and every clock
\* that the centre sets, forwards or backwards.
THEOREM TimersExact == Spec => []CheckTimeExact
<1>1. TypeOK => CheckTimeExact
  <2> SUFFICES ASSUME TypeOK, NEW b \in Bao, Cycle(b) # 0, NEW last \in Time,
                      NEW delay \in Int
               PROVE  Check_Time(last, now, Cycle(b), delay) <=> Boundary(last, Cycle(b), delay)
    <3>1. TypeOK => \A c \in Bao : /\ last_record_check_time[c] \in Time
                                   /\ last_report_check_time[c] \in Time
                                   /\ Interval[c].rec \in Int /\ Interval[c].rep \in Int
      BY IntervalAssumption DEF TypeOK
    <3> QED
      BY <3>1 DEF CheckTimeExact
  <2>1. /\ Cycle(b) \in Nat /\ Cycle(b) > 0
        /\ now \in Nat /\ last \in Nat
    <3>1. Cycle(b) \in Nat
      BY IntervalAssumption DEF Cycle
    <3>2. now \in Time
      BY DEF TypeOK
    <3> QED
      BY <3>1, <3>2, ConstantFacts
  <2>2. Check_Time(last, now, Cycle(b), delay)
          <=> \E n \in Int : last < n * Cycle(b) + delay /\ n * Cycle(b) + delay <= now
    <3>1. last \in Int /\ now \in Int /\ Cycle(b) \in Nat /\ Cycle(b) > 0
      BY <2>1
    <3> QED
      BY <3>1, CheckTimeMeetsItsComment, Zenon
  <2>3. \A t \in Int : (t - delay) % Cycle(b) = 0 <=> \E n \in Int : t = n * Cycle(b) + delay
    BY <2>1, MomentOfCycle
  <2>4. ASSUME NEW n \in Int, last < n * Cycle(b) + delay, n * Cycle(b) + delay <= now
        PROVE  Boundary(last, Cycle(b), delay)
    <3>1. n * Cycle(b) + delay \in Int
      BY <2>1
    <3>2. n * Cycle(b) + delay \in (last + 1)..now
      BY <2>1, <2>4, <3>1
    <3>3. ((n * Cycle(b) + delay) - delay) % Cycle(b) = 0
      BY <2>3, <3>1
    <3> QED
      BY <3>2, <3>3 DEF Boundary
  <2>5. ASSUME NEW t \in (last + 1)..now, (t - delay) % Cycle(b) = 0
        PROVE  \E n \in Int : last < n * Cycle(b) + delay /\ n * Cycle(b) + delay <= now
    <3>1. t \in Int /\ last < t /\ t <= now
      BY <2>1
    <3>2. PICK n \in Int : t = n * Cycle(b) + delay
      BY <2>3, <2>5, <3>1
    <3> QED
      BY <3>1, <3>2
  <2> QED
    BY <2>2, <2>4, <2>5 DEF Boundary
<1> QED
  BY <1>1, TypeCorrect, PTL


-----------------------------------------------------------------------------
(* The data of a period.                                                     *)

\* The clock only goes forward while the centre does not set it.
LEMMA ClockForward ==
    ASSUME TypeOK, NEW d \in 0..MaxWait \cup 1..MaxPause
    PROVE  Later(now, d) \in Time /\ now <= Later(now, d)
<1>1. now \in Time /\ d \in Nat /\ Time = 0..MaxTime /\ MaxTime \in Nat
  <2>1. now \in Time
    BY DEF TypeOK
  <2>2. d \in Nat /\ MaxTime \in Nat
    BY TimeAssumption
  <2> QED
    BY <2>1, <2>2 DEF Time
<1>2. CASE now + d <= MaxTime
  <2>1. Later(now, d) = now + d
    BY <1>2 DEF Later
  <2> QED
    BY <1>1, <1>2, <2>1
<1>3. CASE ~(now + d <= MaxTime)
  <2>1. Later(now, d) = MaxTime
    BY <1>3 DEF Later
  <2> QED
    BY <1>1, <2>1
<1> QED
  BY <1>2, <1>3

\* More records only add witnesses.
LEMMA OfPeriodKept ==
    ASSUME recorded \subseteq recorded'
    PROVE  \A b, t, d : OfPeriod(b, t, d) => OfPeriod(b, t, d)'
BY DEF OfPeriod

\* A row that is written now is no older than any record.
LEMMA KnownKept ==
    ASSUME recorded \subseteq recorded',
           \/ rows' = rows
           \/ \E tb, t : rows' = Save(rows, tb, t, now),
           \A r \in recorded : r.data \in 0..now
    PROVE  \A b, t : Known(b, t) => Known(b, t)'
<1> SUFFICES ASSUME NEW b, NEW t, Known(b, t) PROVE Known(b, t)'
  OBVIOUS
<1>1. PICK r \in recorded : /\ r.name = b /\ r.tdate = t
                            /\ \A x \in rows : x.tb = Table[b] /\ x.date = t => r.data <= x.data
  BY DEF Known
<1>2. \A x \in rows' : x \in rows \/ x.data = now
  BY SaveRows
<1>3. r.data <= now
  OBVIOUS
<1>4. \A x \in rows' : x.tb = Table[b] /\ x.date = t => r.data <= x.data
  BY <1>1, <1>2, <1>3
<1> QED
  BY <1>1, <1>4 DEF Known, Active

\* The data of a snapshot lies in the period it is filed under.
LEMMA PeriodEnd ==
    ASSUME NEW t \in Nat, NEW c \in Nat, c > 0
    PROVE  t < t - (t % c) + c
BY FloorFacts

\* A row that is written for the running period lies in it, for every report that
\* keeps its records in that table.
LEMMA RowsKept ==
    ASSUME NEW tb, NEW c \in Nat, c > 0, now \in Nat,
           \A b \in Bao : Active(b) /\ Table[b] = tb => Cycle(b) = c,
           rows' = Save(rows, tb, now - (now % c), now),
           \A x \in rows, b \in Bao : Active(b) /\ Table[b] = x.tb => x.data < x.date + Cycle(b)
    PROVE  \A x \in rows', b \in Bao : Active(b) /\ Table[b] = x.tb => x.data < x.date + Cycle(b)
<1> SUFFICES ASSUME NEW x \in rows', NEW b \in Bao, Active(b), Table[b] = x.tb
             PROVE  x.data < x.date + Cycle(b)
  OBVIOUS
<1>1. x \in rows \/ x = [tb |-> tb, date |-> now - (now % c), data |-> now]
  BY DEF Save
<1>2. CASE x \in rows
  BY <1>2
<1>3. CASE x = [tb |-> tb, date |-> now - (now % c), data |-> now]
  <2>1. x.tb = tb /\ x.date = now - (now % c) /\ x.data = now
    BY <1>3
  <2>2. Cycle(b) = c
    BY <2>1
  <2>3. now < now - (now % c) + c
    BY PeriodEnd
  <2> QED
    BY <2>1, <2>2, <2>3
<1> QED
  BY <1>1, <1>2, <1>3

LEMMA InitPeriods == Init => PeriodInv
<1> SUFFICES ASSUME Init PROVE Dates /\ Sending /\ DataOfItsPeriod
  BY DEF PeriodInv
<1>1. recorded = {} /\ rows = {} /\ bu = <<>> /\ acked = {} /\ phase = "poll"
  BY DEF Init
<1>2. \A b \in Backfilled : ~Waiting(b)
  BY ConstantFacts DEF Init, Waiting
<1>3. Dates
  BY <1>1, <1>2 DEF Dates
<1> QED
  BY <1>1, <1>3 DEF Sending, DataOfItsPeriod

\* A step that leaves the tables, the records and the report under way alone.
LEMMA QuietPeriods ==
    ASSUME TypeOK, PeriodInv, UNCHANGED <<rows, bu, recorded, acked, cleared>>,
           now' \in Time, now <= now',
           \/ UNCHANGED <<phase, i, m, sent, record_enable, report_enable, record_time, report_log>>
           \/ phase' = "poll" /\ \A b \in Backfilled : ~Waiting(b)'
    PROVE  PeriodInv'
<1> SUFFICES ASSUME ~cleared PROVE Dates' /\ Sending' /\ DataOfItsPeriod'
  BY DEF PeriodInv
<1>1. Dates /\ Sending /\ DataOfItsPeriod
  BY DEF PeriodInv
<1>2. now \in Nat /\ now' \in Nat
  BY ConstantFacts DEF TypeOK
<1>3. /\ \A b, t, d : OfPeriod(b, t, d) => OfPeriod(b, t, d)'
      /\ \A b, t : Known(b, t) => Known(b, t)'
  BY DEF OfPeriod, Known, Active
<1>4. \A r \in recorded' : r.data \in 0..now'
  BY <1>1, <1>2 DEF Dates
<1>5. \A x \in rows', b \in Bao : Active(b)' /\ Table[b] = x.tb => x.data < x.date + Cycle(b)
  BY <1>1 DEF Dates, Active
<1>6. \A n \in 1..Len(bu') : Known(bu[n].name, bu[n].tdate)'
  <2> SUFFICES ASSUME NEW n \in 1..Len(bu) PROVE Known(bu[n].name, bu[n].tdate)'
    OBVIOUS
  <2>1. Known(bu[n].name, bu[n].tdate)
    BY <1>1 DEF Dates
  <2> QED
    BY <2>1 DEF Known, Active
<1>7. \A b \in Backfilled : Waiting(b)' =>
          (Known(b, record_time[b]) /\ OfPeriod(b, record_time[b], report_log[b]))'
  <2> SUFFICES ASSUME NEW b \in Backfilled, Waiting(b)'
               PROVE (Known(b, record_time[b]) /\ OfPeriod(b, record_time[b], report_log[b]))'
    OBVIOUS
  <2>1. UNCHANGED <<record_enable, report_enable, record_time, report_log>>
    OBVIOUS
  <2>2. Known(b, record_time[b]) /\ OfPeriod(b, record_time[b], report_log[b])
    BY <1>1, <2>1 DEF Dates, Waiting
  <2> QED
    BY <2>1, <2>2 DEF Known, Active, OfPeriod
<1>8. Dates'
  BY <1>4, <1>5, <1>6, <1>7 DEF Dates, Active
<1>9. Sending'
  BY <1>1 DEF Sending, OfPeriod
<1> QED
  BY <1>1, <1>8, <1>9 DEF DataOfItsPeriod


\* poll() records, files and reads nothing that is not of the running period.
LEMMA PollPeriods ==
    ASSUME TypeOK, ReportInv, PeriodInv, TablesShared, NEW b \in Bao, Poll(b)
    PROVE  PeriodInv'
<1>0. UNCHANGED <<now, bu, acked, cleared, sent>> /\ phase' # "wait"
  BY DEF Poll
<1> SUFFICES ASSUME ~cleared PROVE Dates' /\ DataOfItsPeriod'
  BY <1>0 DEF PeriodInv, Sending
<1>1. Dates /\ DataOfItsPeriod
  BY DEF PeriodInv
<1>2. now \in Nat /\ Snapshot(now) = now
  BY ConstantFacts DEF TypeOK, ReportInv, Stored, Snapshot
<1>3. CASE ~(record_check(b) /\ Stores(b))
  <2>1. UNCHANGED <<record_time, report_log, rows, recorded>>
    BY <1>3 DEF Poll
  <2>2. \A c \in Backfilled : Waiting(c)' => Waiting(c)
    <3> SUFFICES ASSUME NEW c \in Backfilled, Waiting(c)' PROVE Waiting(c)
      OBVIOUS
    <3>1. CASE c # b
      BY <3>1, PollFlags, ConstantFacts DEF ReportInv, Waiting
    <3>2. CASE c = b
      <4>1. ~record_check(b)
        BY <1>3, <3>2 DEF Stores, Backfilled
      <4> QED
        BY <3>2, <4>1, PollFlags DEF ReportInv, Waiting
    <3> QED
      BY <3>1, <3>2
  <2>3. Dates'
    BY <1>0, <1>1, <2>1, <2>2 DEF Dates, Known, OfPeriod, Active
  <2> QED
    BY <1>0, <1>1, <2>1, <2>3 DEF DataOfItsPeriod
<1>4. CASE record_check(b) /\ Stores(b)
  <2> DEFINE new == [name |-> b, tdate |-> PeriodOf(b), data |-> now, boot |-> boot]
  <2>1. /\ record_time' = [record_time EXCEPT ![b] = PeriodOf(b)]
        /\ report_log' = [report_log EXCEPT ![b] = now]
        /\ rows' = Save(rows, Table[b], PeriodOf(b), now)
        /\ recorded' = recorded \cup {new}
    BY <1>2, <1>4 DEF Poll
  <2>2. Active(b) /\ Cycle(b) \in Nat /\ Cycle(b) > 0
    BY <1>4, IntervalAssumption, TimeAssumption
       DEF Active, record_check, RecordTimer, Cycle
  <2>3. new.name = b /\ new.tdate = PeriodOf(b) /\ new.data = now /\ new \in recorded'
    BY <2>1
  <2>4. \A r \in recorded' : r.data \in 0..now
    BY <1>1, <1>2, <2>1, <2>3 DEF Dates
  <2> HIDE DEF new
  <2>5. \A x \in rows', c \in Bao : Active(c) /\ Table[c] = x.tb => x.data < x.date + Cycle(c)
    <3>1. \A c \in Bao : Active(c) /\ Table[c] = Table[b] => Cycle(c) = Cycle(b)
      BY <2>2 DEF TablesShared
    <3>2. rows' = Save(rows, Table[b], now - (now % Cycle(b)), now)
      BY <2>1 DEF PeriodOf
    <3>3. \A x \in rows, c \in Bao : Active(c) /\ Table[c] = x.tb => x.data < x.date + Cycle(c)
      BY <1>1 DEF Dates
    <3> QED
      BY <1>2, <2>2, <3>1, <3>2, <3>3, RowsKept
  <2>6. \A c, t : Known(c, t) => Known(c, t)'
    <3>1. recorded \subseteq recorded' /\ \A r \in recorded : r.data \in 0..now
      BY <1>1, <2>1 DEF Dates
    <3> QED
      BY <2>1, <3>1, KnownKept
  <2>7. \A c, t, d : OfPeriod(c, t, d) => OfPeriod(c, t, d)'
    BY <2>1, OfPeriodKept
  <2>8. (Known(b, record_time[b]) /\ OfPeriod(b, record_time[b], report_log[b]))'
    <3>1. record_time'[b] = PeriodOf(b) /\ report_log'[b] = now
      BY <2>1 DEF TypeOK
    <3>2. now < PeriodOf(b) + Cycle(b)
      BY <1>2, <2>2, PeriodEnd DEF PeriodOf
    <3>3. \A x \in rows' : x.tb = Table[b] /\ x.date = PeriodOf(b) => x.data = now
      BY <2>1 DEF Save
    <3>4. now <= now
      BY <1>2
    <3>5. Known(b, PeriodOf(b))'
      <4>1. \E r \in recorded' : /\ r.name = b /\ r.tdate = PeriodOf(b)
                                 /\ \A x \in rows' : x.tb = Table[b] /\ x.date = PeriodOf(b)
                                                     => r.data <= x.data
        BY <2>3, <3>3, <3>4
      <4>2. PeriodOf(b)' = PeriodOf(b)
        BY <1>0 DEF PeriodOf
      <4> QED
        BY <2>2, <4>1, <4>2 DEF Known, Active
    <3>6. \E r \in recorded' : r.name = b /\ r.tdate = PeriodOf(b) /\ r.data <= now
      BY <2>3, <3>4
    <3>7. PeriodOf(b)' = PeriodOf(b)
      BY <1>0 DEF PeriodOf
    <3> QED
      BY <3>1, <3>2, <3>5, <3>6, <3>7 DEF Known, OfPeriod
  <2>9. \A c \in Backfilled : Waiting(c)' =>
            (Known(c, record_time[c]) /\ OfPeriod(c, record_time[c], report_log[c]))'
    <3> SUFFICES ASSUME NEW c \in Backfilled, Waiting(c)', c # b
                 PROVE (Known(c, record_time[c]) /\ OfPeriod(c, record_time[c], report_log[c]))'
      BY <2>8
    <3>1. c \in Bao /\ Waiting(c)
      BY PollFlags, ConstantFacts DEF ReportInv, Waiting
    <3>2. record_time'[c] = record_time[c] /\ report_log'[c] = report_log[c]
      BY <2>1, <3>1 DEF TypeOK
    <3>3. Known(c, record_time[c]) /\ OfPeriod(c, record_time[c], report_log[c])
      BY <1>1, <3>1 DEF Dates
    <3>4. \A t, d : (Known(c, t) => Known(c, t)') /\ (OfPeriod(c, t, d) => OfPeriod(c, t, d)')
      BY <2>6, <2>7
    <3> DEFINE t == record_time[c]
               d == report_log[c]
    <3>5. Known(c, t)' /\ OfPeriod(c, t, d)'
      BY <3>2, <3>3, <3>4 DEF Known, OfPeriod
    <3> QED
      BY <3>5
  <2>10. \A n \in 1..Len(bu') : Known(bu[n].name, bu[n].tdate)'
    <3> SUFFICES ASSUME NEW n \in 1..Len(bu) PROVE Known(bu[n].name, bu[n].tdate)'
      BY <1>0
    <3>1. Known(bu[n].name, bu[n].tdate)
      BY <1>1 DEF Dates
    <3>2. bu'[n].name = bu[n].name /\ bu'[n].tdate = bu[n].tdate
      BY <1>0
    <3> QED
      BY <2>6, <3>1, <3>2 DEF Known
  <2>11. Dates'
    BY <1>0, <2>4, <2>5, <2>9, <2>10 DEF Dates, Active
  <2>12. DataOfItsPeriod'
    BY <1>0, <1>1, <2>1 DEF DataOfItsPeriod
  <2> QED
    BY <2>11, <2>12
<1> QED
  BY <1>3, <1>4


\* The row that bubao replays is a row of "bu", and so has its record.
LEMMA ReplayKnown ==
    ASSUME TypeOK, ReportInv, Dates, ~cleared, NEW b \in Bao, Kind[b] = "bu", report_enable[b]
    PROVE  Known(m.name, m.tdate) /\ m.name \in Backfilled
<1>1. Owes(bu, m.name, m.tdate) /\ m.name \in Backfilled
  BY DEF ReportInv, Replaying
<1>2. PICK n \in ValidRows(bu) : Matches(bu[n], m.name, m.tdate)
  BY <1>1 DEF Owes
<1>3. n \in 1..Len(bu) /\ bu[n].name = m.name /\ bu[n].tdate = m.tdate
  BY <1>2 DEF ValidRows, Matches
<1>4. Known(bu[n].name, bu[n].tdate)
  BY <1>3 DEF Dates
<1> QED
  BY <1>1, <1>3, <1>4

\* bu_add_one_record and bu_invalid_one_record, for a row that has its record.
LEMMA BuKnown ==
    ASSUME bu \in Seq(BuRow), Dates, UNCHANGED <<recorded, rows>>,
           NEW b \in Backfilled, NEW t \in Time, NEW v \in BOOLEAN, Known(b, t),
           bu' = UpdateBu(bu, b, t, v) \/ bu' = bu
    PROVE  \A n \in 1..Len(bu') : Known(bu[n].name, bu[n].tdate)'
<1> SUFFICES ASSUME NEW n \in 1..Len(bu') PROVE Known(bu'[n].name, bu'[n].tdate)
  BY DEF Known, Active
<1>1. \A k \in 1..Len(bu) : Known(bu[k].name, bu[k].tdate)
  BY DEF Dates
<1>2. CASE bu' = bu
  BY <1>1, <1>2
<1>3. CASE bu' = UpdateBu(bu, b, t, v)
  <2>1. \/ bu'[n].name = b /\ bu'[n].tdate = t
        \/ \E k \in 1..Len(bu) : bu[k] = bu'[n]
    BY <1>3, UpdateBuRows
  <2> QED
    BY <1>1, <2>1
<1> QED
  BY <1>2, <1>3

\* report_data puts data of the period into the buffer.
LEMMA ReportPeriods ==
    ASSUME TypeOK, ReportInv, PeriodInv, NEW b \in Bao, Report(b)
    PROVE  PeriodInv'
<1>0. /\ phase = "due" /\ b = Order[i] /\ report_data(b)
      /\ UNCHANGED <<now, i, m, record_enable, report_enable, record_time, report_log, rows,
                     cleared, recorded, acked>>
  BY DEF Report
<1> SUFFICES ASSUME ~cleared PROVE Dates' /\ Sending' /\ DataOfItsPeriod'
  BY <1>0 DEF PeriodInv
<1>1. Dates /\ DataOfItsPeriod
  BY DEF PeriodInv
<1>2. report_enable[b] /\ (b \in Backfilled => Kind[b] # "bu")
  BY <1>0, UnderWay DEF ReportInv
<1>3. CASE Kind[b] = "bu"
  <2>1. HasRow(rows, Table[m.name], m.tdate)
    BY <1>2, <1>3, NotMissing
  <2>2. bu' = bu /\ sent' = Lookup(rows, Table[m.name], m.tdate)
    BY <1>0, <1>3, <2>1 DEF report_data, Missing
  <2>3. PICK x \in rows : x.tb = Table[m.name] /\ x.date = m.tdate /\ sent' = x.data
    BY <2>1, <2>2, LookupHit
  <2>4. Known(m.name, m.tdate) /\ m.name \in Bao
    BY <1>1, <1>2, <1>3, ReplayKnown, ConstantFacts
  <2>5. x.data < m.tdate + Cycle(m.name)
    BY <1>1, <2>3, <2>4 DEF Dates, Known
  <2>6. \E r \in recorded : r.name = m.name /\ r.tdate = m.tdate /\ r.data <= x.data
    BY <2>3, <2>4 DEF Known
  <2>7. OfPeriod(m.name, m.tdate, sent)'
    BY <1>0, <2>3, <2>5, <2>6 DEF OfPeriod
  <2>8. Sending'
    BY <1>0, <1>2, <1>3, <2>7 DEF Sending
  <2>9. Dates'
    BY <1>0, <1>1, <2>2 DEF Dates, Known, OfPeriod, Active, Waiting
  <2> QED
    BY <1>0, <1>1, <2>8, <2>9 DEF DataOfItsPeriod
<1>4. CASE Kind[b] # "bu"
  <2>1. bu' = bu /\ sent' = report_log[b]
    BY <1>0, <1>4 DEF report_data
  <2>2. Sending'
    BY <1>0, <1>4, <2>1 DEF Sending
  <2>3. Dates'
    BY <1>0, <1>1, <2>1 DEF Dates, Known, OfPeriod, Active, Waiting
  <2> QED
    BY <1>0, <1>1, <2>2, <2>3 DEF DataOfItsPeriod
<1> QED
  BY <1>3, <1>4

\* What is left to show when a report has ended.
LEMMA EndPeriods ==
    ASSUME TypeOK, ReportInv, PeriodInv, ~cleared, NEW b \in Bao, phase = "wait", b = Order[i],
           EndReport(b), now' \in Time, now <= now',
           \A n \in 1..Len(bu') : Known(bu[n].name, bu[n].tdate)'
    PROVE  Dates' /\ Sending'
<1>0. /\ report_enable' = [report_enable EXCEPT ![b] = FALSE] /\ phase' = "poll"
      /\ UNCHANGED <<record_enable, record_time, report_log, rows, recorded>>
  BY DEF EndReport
<1>1. Dates
  BY DEF PeriodInv
<1>2. \A r \in recorded' : r.data \in 0..now'
  <2>1. now \in Nat /\ now' \in Nat
    BY ConstantFacts DEF TypeOK
  <2> QED
    BY <1>0, <1>1, <2>1 DEF Dates
<1>3. \A c \in Backfilled : Waiting(c)' => Waiting(c)
  BY <1>0, ConstantFacts DEF Waiting, TypeOK
<1>4. \A c \in Backfilled : Waiting(c)' =>
          (Known(c, record_time[c]) /\ OfPeriod(c, record_time[c], report_log[c]))'
  <2> SUFFICES ASSUME NEW c \in Backfilled, Waiting(c)'
               PROVE (Known(c, record_time[c]) /\ OfPeriod(c, record_time[c], report_log[c]))'
    OBVIOUS
  <2>1. Known(c, record_time[c]) /\ OfPeriod(c, record_time[c], report_log[c])
    BY <1>1, <1>3 DEF Dates
  <2> QED
    BY <1>0, <2>1 DEF Known, Active, OfPeriod
<1>5. \A x \in rows', c \in Bao : Active(c) /\ Table[c] = x.tb => x.data < x.date + Cycle(c)
  BY <1>0, <1>1 DEF Dates
<1>6. Dates'
  BY <1>2, <1>4, <1>5 DEF Dates, Active
<1> QED
  BY <1>0, <1>6 DEF Sending

LEMMA ReportOkPeriods ==
    ASSUME TypeOK, ReportInv, PeriodInv, NeverSet, NEW b \in Bao, ReportOk(b)
    PROVE  PeriodInv'
<1>0. /\ phase = "wait" /\ b = Order[i] /\ EndReport(b)
      /\ bu' = IF Kind[b] = "bu" THEN UpdateBu(bu, m.name, m.tdate, FALSE) ELSE bu
      /\ UNCHANGED <<rows, recorded, cleared>>
  BY DEF ReportOk, EndReport
<1> SUFFICES ASSUME ~cleared PROVE Dates' /\ Sending' /\ DataOfItsPeriod'
  BY <1>0 DEF PeriodInv
<1>1. Dates /\ Sending /\ DataOfItsPeriod
  BY DEF PeriodInv
<1>2. report_enable[b] /\ m.tdate \in Time /\ (b \in Backfilled => Kind[b] # "bu")
  BY <1>0, UnderWay DEF ReportInv
<1>3. now' \in Time /\ now <= now'
  <2>1. now \in Time /\ now <= now
    <3>1. now \in Time
      BY DEF TypeOK
    <3>2. now \in Nat
      BY <3>1, ConstantFacts
    <3> QED
      BY <3>1, <3>2
  <2>2. \A d \in 0..MaxWait : Later(now, d) \in Time /\ now <= Later(now, d)
    BY ClockForward
  <2> QED
    BY <2>1, <2>2 DEF ReportOk
<1>4. Kind[b] = "bu" => Known(m.name, m.tdate) /\ m.name \in Backfilled
  BY <1>1, <1>2, ReplayKnown
<1>5. \A n \in 1..Len(bu') : Known(bu[n].name, bu[n].tdate)'
  <2>1. bu \in Seq(BuRow)
    BY DEF TypeOK
  <2>2. CASE Kind[b] = "bu"
    BY <1>0, <1>1, <1>2, <1>4, <2>1, <2>2, BuKnown
  <2>3. CASE Kind[b] # "bu"
    BY <1>0, <1>1, <2>3 DEF Dates, Known, Active
  <2> QED
    BY <2>2, <2>3
<1>6. Dates' /\ Sending'
  BY <1>0, <1>3, <1>5, EndPeriods
<1>7. DataOfItsPeriod'
  <2> DEFINE new == [name |-> IF Kind[b] = "bu" THEN m.name ELSE b,
                     tdate |-> IF Kind[b] = "bu" THEN m.tdate ELSE record_time[b],
                     data |-> sent, by |-> b, observetime |-> record_time[b]]
  <2>1. acked' = acked \/ acked' = acked \cup {new}
    BY DEF ReportOk, ObserveTime
  <2>0. new.observetime = FiledUnder(new)
    BY DEF NeverSet, FiledUnder
  <2>2. new.name \in Backfilled => OfPeriod(new.name, new.tdate, new.data)
    <3>1. CASE Kind[b] = "bu"
      <4>1. new.name = m.name /\ new.tdate = m.tdate /\ new.data = sent
        BY <3>1
      <4>2. OfPeriod(m.name, m.tdate, sent)
        BY <1>0, <1>1, <3>1 DEF Sending
      <4> HIDE DEF new
      <4> QED
        BY <4>1, <4>2
    <3>2. CASE Kind[b] # "bu"
      <4>1. new.name = b /\ new.tdate = record_time[b] /\ new.data = sent
        BY <3>2
      <4>2. b \in Backfilled => OfPeriod(b, record_time[b], report_log[b])
        BY <1>1, <1>2 DEF Dates, Waiting
      <4>3. b \in Backfilled => sent = report_log[b]
        BY <1>0, <1>1 DEF Sending
      <4> HIDE DEF new
      <4> QED
        BY <4>1, <4>2, <4>3
    <3> QED
      BY <3>1, <3>2
  <2>3. \A a \in acked' : a \in acked \/ a = new
    BY <2>1
  <2> HIDE DEF new
  <2> SUFFICES ASSUME NEW a \in acked', a.name \in Backfilled
               PROVE  /\ a.observetime = FiledUnder(a)
                      /\ \E r \in recorded : r.name = a.name /\ r.tdate = a.tdate
                            /\ r.data <= a.data /\ a.data < a.tdate + Cycle(a.name)
    BY <1>0 DEF DataOfItsPeriod, FiledUnder
  <2>4. CASE a \in acked
    BY <1>1, <2>4 DEF DataOfItsPeriod
  <2>5. CASE a = new
    BY <2>0, <2>2, <2>5 DEF OfPeriod
  <2> QED
    BY <2>3, <2>4, <2>5
<1> QED
  BY <1>6, <1>7

LEMMA ReportFailPeriods ==
    ASSUME TypeOK, ReportInv, PeriodInv, NEW b \in Bao, ReportFail(b)
    PROVE  PeriodInv'
<1>0. /\ phase = "wait" /\ b = Order[i] /\ EndReport(b)
      /\ bu' = IF b \in Backfilled THEN UpdateBu(bu, b, record_time[b], TRUE) ELSE bu
      /\ UNCHANGED <<rows, recorded, cleared, acked>>
  BY DEF ReportFail, EndReport
<1> SUFFICES ASSUME ~cleared PROVE Dates' /\ Sending' /\ DataOfItsPeriod'
  BY <1>0 DEF PeriodInv
<1>1. Dates /\ DataOfItsPeriod
  BY DEF PeriodInv
<1>2. report_enable[b]
  BY <1>0, UnderWay DEF ReportInv
<1>3. now' \in Time /\ now <= now'
  <2>1. \A d \in 0..MaxWait : Later(now, d) \in Time /\ now <= Later(now, d)
    BY ClockForward
  <2> QED
    BY <2>1 DEF ReportFail
<1>4. \A n \in 1..Len(bu') : Known(bu[n].name, bu[n].tdate)'
  <2>1. bu \in Seq(BuRow) /\ record_time[b] \in Time
    BY DEF TypeOK
  <2>2. CASE b \in Backfilled
    <3>1. Known(b, record_time[b])
      BY <1>1, <1>2, <2>2 DEF Dates, Waiting
    <3> QED
      BY <1>0, <1>1, <2>1, <2>2, <3>1, BuKnown
  <2>3. CASE b \notin Backfilled
    BY <1>0, <1>1, <2>3 DEF Dates, Known, Active
  <2> QED
    BY <2>2, <2>3
<1>5. Dates' /\ Sending'
  BY <1>0, <1>3, <1>4, EndPeriods
<1> QED
  BY <1>0, <1>1, <1>5 DEF DataOfItsPeriod


\* The freeze rewrites the row of the running hour, for a report of that period.
LEMMA FreezePeriods ==
    ASSUME TypeOK, ReportInv, PeriodInv, TablesShared, FreezeData
    PROVE  PeriodInv'
<1>0. UNCHANGED <<now, i, phase, record_enable, report_enable, record_time, report_log, m, sent,
                  bu, cleared, recorded, acked>>
  BY DEF FreezeData, upVars
<1> SUFFICES ASSUME ~cleared PROVE Dates' /\ Sending' /\ DataOfItsPeriod'
  BY <1>0 DEF PeriodInv
<1>1. Dates /\ Sending /\ DataOfItsPeriod
  BY DEF PeriodInv
<1>2. now \in Nat /\ Snapshot(now) = now
  BY ConstantFacts DEF TypeOK, ReportInv, Stored, Snapshot
<1>3. rows' = Save(rows, HourTable, now - (now % Hour), now)
  BY <1>2 DEF FreezeData
<1>4. \A x \in rows', c \in Bao : Active(c) /\ Table[c] = x.tb => x.data < x.date + Cycle(c)
  <2>1. Hour \in Nat /\ Hour > 0 /\ \A c \in Bao : Active(c) /\ Table[c] = HourTable => Cycle(c) = Hour
    BY TimeAssumption DEF TablesShared
  <2>2. \A x \in rows, c \in Bao : Active(c) /\ Table[c] = x.tb => x.data < x.date + Cycle(c)
    BY <1>1 DEF Dates
  <2> QED
    BY <1>2, <1>3, <2>1, <2>2, RowsKept
<1>5. \A c, t : Known(c, t) => Known(c, t)'
  <2>1. recorded \subseteq recorded' /\ \A r \in recorded : r.data \in 0..now
    BY <1>0, <1>1 DEF Dates
  <2> QED
    BY <1>3, <2>1, KnownKept
<1>6. \A n \in 1..Len(bu') : Known(bu[n].name, bu[n].tdate)'
  <2> SUFFICES ASSUME NEW n \in 1..Len(bu) PROVE Known(bu[n].name, bu[n].tdate)'
    BY <1>0
  <2>1. Known(bu[n].name, bu[n].tdate)
    BY <1>1 DEF Dates
  <2>2. bu'[n].name = bu[n].name /\ bu'[n].tdate = bu[n].tdate
    BY <1>0
  <2> QED
    BY <1>5, <2>1, <2>2 DEF Known
<1>7. \A c \in Backfilled : Waiting(c)' =>
          (Known(c, record_time[c]) /\ OfPeriod(c, record_time[c], report_log[c]))'
  <2> SUFFICES ASSUME NEW c \in Backfilled, Waiting(c)'
               PROVE (Known(c, record_time[c]) /\ OfPeriod(c, record_time[c], report_log[c]))'
    OBVIOUS
  <2>1. Known(c, record_time[c]) /\ OfPeriod(c, record_time[c], report_log[c])
    BY <1>0, <1>1 DEF Dates, Waiting
  <2>2. record_time'[c] = record_time[c] /\ report_log'[c] = report_log[c]
    BY <1>0
  <2> QED
    BY <1>0, <1>5, <2>1, <2>2 DEF Known, OfPeriod
<1>8. Dates'
  BY <1>0, <1>1, <1>4, <1>6, <1>7 DEF Dates, Active
<1>9. Sending'
  BY <1>0, <1>1 DEF Sending, OfPeriod
<1> QED
  BY <1>0, <1>1, <1>8, <1>9 DEF DataOfItsPeriod

\* A restart forgets what was waiting, and keeps the tables.
LEMMA RestartPeriods ==
    ASSUME TypeOK, ReportInv, PeriodInv, PowerLoss \/ NullSendMode
    PROVE  PeriodInv'
<1>0. UNCHANGED <<rows, cleared, recorded, acked>> /\ phase' = "poll"
  BY DEF PowerLoss, NullSendMode, Restart
<1>1. now' \in Time /\ now <= now'
  <2>1. \A d \in 1..MaxPause : Later(now, d) \in Time /\ now <= Later(now, d)
    BY ClockForward
  <2> QED
    BY <2>1 DEF PowerLoss, NullSendMode, Restart
<1>2. \A b \in Backfilled : ~Waiting(b)'
  BY ConstantFacts DEF PowerLoss, NullSendMode, Restart, FreshObjects, Waiting
<1>3. ~cleared => bu' = bu
  <2>1. CASE PowerLoss
    BY <2>1 DEF PowerLoss
  <2>2. CASE NullSendMode
    <3> SUFFICES ASSUME ~cleared, Kind[Order[i]] = "bu" PROVE ~Missing
      BY <2>2 DEF NullSendMode
    <3>1. Order[i] \in Bao /\ report_enable[Order[i]]
      BY <2>2, UnderWay DEF ReportInv, NullSendMode
    <3> QED
      BY <3>1, NotMissing DEF Missing
  <2> QED
    BY <2>1, <2>2
<1>4. CASE cleared
  BY <1>0, <1>4 DEF PeriodInv
<1>5. CASE ~cleared
  BY <1>0, <1>1, <1>2, <1>3, <1>5, QuietPeriods
<1> QED
  BY <1>4, <1>5

\* record() of bubao records nothing.
LEMMA NextNeverSet ==
    ASSUME TypeOK, NeverSet, [Next]_vars
    PROVE  NeverSet'
<1>1. record_time \in [Bao -> Time]
  BY DEF TypeOK
<1>2. CASE UNCHANGED record_time
  BY <1>2 DEF NeverSet
<1>3. ASSUME NEW b \in Bao, Poll(b)
      PROVE  NeverSet'
  <2>1. Kind[b] = "bu" => ~Stores(b)
    BY DEF Stores
  <2>2. \A c \in Bao : Kind[c] = "bu" => record_time'[c] = record_time[c]
    BY <1>1, <1>3, <2>1 DEF Poll
  <2> QED
    BY <2>2 DEF NeverSet
<1>4. ASSUME NEW b \in Bao, Report(b) \/ ReportOk(b) \/ ReportFail(b)
      PROVE  UNCHANGED record_time
  BY <1>4 DEF Report, ReportOk, ReportFail, EndReport
<1>5. CASE NextRound \/ ClearHistory \/ SetTime \/ JiaFlag \/ FreezeData \/ UNCHANGED vars
  BY <1>2, <1>5 DEF NextRound, ClearHistory, SetTime, JiaFlag, FreezeData, upVars, vars
<1>6. CASE PowerLoss \/ NullSendMode
  BY <1>6 DEF PowerLoss, NullSendMode, Restart, FreshObjects, NeverSet
<1> QED
  BY <1>2, <1>3, <1>4, <1>5, <1>6 DEF Next, UpThread

LEMMA NextPeriods ==
    ASSUME ClockSets = {}, TablesShared, TypeOK, ReportInv, PeriodInv, NeverSet, [Next]_vars
    PROVE  PeriodInv'
<1>0. now \in Time /\ now <= now
  <2>1. now \in Time
    BY DEF TypeOK
  <2>2. now \in Nat
    BY <2>1, ConstantFacts
  <2> QED
    BY <2>1, <2>2
<1>1. ASSUME NEW b \in Bao, Poll(b) \/ Report(b) \/ ReportOk(b) \/ ReportFail(b)
      PROVE  PeriodInv'
  BY <1>1, PollPeriods, ReportPeriods, ReportOkPeriods, ReportFailPeriods
<1>2. CASE NextRound
  <2>1. UNCHANGED <<rows, bu, recorded, acked, cleared, phase, m, sent, record_enable,
                    report_enable, record_time, report_log>> /\ phase = "poll"
    BY <1>2 DEF NextRound, AfterLoop, upVars
  <2>2. now' \in Time /\ now <= now'
    <3>1. \A d \in 1..MaxPause : Later(now, d) \in Time /\ now <= Later(now, d)
      BY ClockForward
    <3> QED
      BY <1>2, <3>1 DEF NextRound
  <2>3. Sending'
    BY <2>1 DEF Sending
  <2>4. now \in Nat /\ now' \in Nat
    BY <1>0, <2>2, ConstantFacts
  <2>5. ~cleared => Dates'
    <3> SUFFICES ASSUME ~cleared PROVE Dates'
      OBVIOUS
    <3>1. Dates
      BY DEF PeriodInv
    <3>2. \A r \in recorded' : r.data \in 0..now'
      BY <2>1, <2>2, <2>4, <3>1 DEF Dates
    <3> QED
      BY <2>1, <3>1, <3>2 DEF Dates, Known, OfPeriod, Active, Waiting
  <2> QED
    BY <2>1, <2>3, <2>5 DEF PeriodInv, DataOfItsPeriod
<1>3. CASE ClearHistory
  BY <1>3 DEF ClearHistory, PeriodInv
<1>4. CASE SetTime
  BY <1>4 DEF SetTime
<1>5. CASE JiaFlag \/ UNCHANGED vars
  <2>1. UNCHANGED <<now, rows, bu, recorded, acked, cleared, phase, i, m, sent, record_enable,
                    report_enable, record_time, report_log>>
    BY <1>5 DEF JiaFlag, vars, upVars
  <2> QED
    BY <1>0, <2>1, QuietPeriods
<1> QED
  BY <1>1, <1>2, <1>3, <1>4, <1>5, FreezePeriods, RestartPeriods DEF Next, UpThread

\* What the centre confirms for a period was measured in that period, though the
\* freeze and the reports that share a table rewrite its rows between a record
\* and its replay; it is filed under its period when its own object reports it, and
\* under the epoch when bubao replays it: for every vector of reports whose shared
\* tables are of one period, as long as the centre does not set the clock.
THEOREM PeriodsKept ==
    ASSUME ClockSets = {}, TablesShared
    PROVE  Spec => []DataOfItsPeriod
<1> DEFINE Inv == TypeOK /\ ReportInv /\ PeriodInv /\ NeverSet
<1>1. Init => Inv
  <2>1. Init => NeverSet
    BY DEF Init, NeverSet
  <2> QED
    BY <2>1, InitInv, InitPeriods
<1>2. Inv /\ [Next]_vars => Inv'
  <2> SUFFICES ASSUME TypeOK, ReportInv, PeriodInv, NeverSet, [Next]_vars
               PROVE  TypeOK' /\ ReportInv' /\ PeriodInv' /\ NeverSet'
    OBVIOUS
  <2>1. TypeOK' /\ ReportInv'
    BY NextInv
  <2>2. PeriodInv'
    BY NextPeriods
  <2>3. NeverSet'
    BY NextNeverSet
  <2> QED
    BY <2>1, <2>2, <2>3
<1>3. Inv => DataOfItsPeriod
  BY DEF PeriodInv, DataOfItsPeriod
<1> QED
  BY <1>1, <1>2, <1>3, PTL DEF Spec


-----------------------------------------------------------------------------
(* The moments of a report.                                                  *)

\* Two multiples of a cycle are equal or a cycle apart.
LEMMA MultiplesApart ==
    ASSUME NEW c \in Nat, c > 0, NEW a \in Int, NEW b \in Int
    PROVE  /\ c * a \in Int /\ c * b \in Int
           /\ a < b => c * a + c <= c * b
           /\ a <= b <=> c * a <= c * b
<1>1. c * a \in Int /\ c * b \in Int /\ c * (a + 1) = c * a + c
  OBVIOUS
<1>2. a + 1 <= b => c * (a + 1) <= c * b
  BY TimesMonotone
<1> QED
  BY <1>1, <1>2, TimesMonotone

\* Which objects are timed does not change.
LEMMA TimedConstant == \A b : Timed(b)' <=> Timed(b)
BY DEF Timed, Cycle, Round

LEMMA ActiveTimed ==
    ASSUME ShortRounds, NEW b \in Bao, Active(b)
    PROVE  Timed(b) /\ 0 <= Interval[b].rec /\ Interval[b].rec + Round <= Cycle(b)
BY DEF ShortRounds

\* A moment is a multiple of the cycle, plus the delay.
LEMMA MomentForm ==
    ASSUME NEW b \in Bao, Timed(b), NEW t \in Int
    PROVE  /\ Cycle(b) \in Nat /\ Cycle(b) > 0
           /\ Interval[b].rec \in Int /\ Interval[b].rep \in Int
           /\ Moment(b, t) \in Int /\ Moment(b, t) <= t /\ t < Moment(b, t) + Cycle(b)
           /\ \E q \in Int : Moment(b, t) = Cycle(b) * q + Interval[b].rec
<1> DEFINE c == Cycle(b)
           r == Interval[b].rec
<1>1. c \in Nat /\ c > 0 /\ r \in Int /\ Interval[b].rep \in Int
  BY IntervalAssumption, TimeAssumption DEF Timed, Cycle
<1> HIDE DEF c, r
<1>2. /\ (t - r) \div c \in Int /\ (t - r) % c \in 0..(c - 1)
      /\ t - r = c * ((t - r) \div c) + ((t - r) % c)
  <2> DEFINE a == t - r
  <2>1. a \in Int
    BY <1>1
  <2> HIDE DEF a
  <2>2. a \div c \in Int /\ a % c \in 0..(c - 1) /\ a = c * (a \div c) + (a % c)
    BY <1>1, <2>1, FloorFacts
  <2> QED
    BY <2>2 DEF a
<1>3. Moment(b, t) = t - ((t - r) % c)
  BY DEF Moment, c, r
<1>4. Moment(b, t) \in Int /\ Moment(b, t) <= t /\ t < Moment(b, t) + c
  BY <1>1, <1>2, <1>3
<1>5. c * ((t - r) \div c) \in Int
  BY <1>1, <1>2, MultiplesApart
<1>6. Moment(b, t) = c * ((t - r) \div c) + r
  BY <1>1, <1>2, <1>3, <1>5
<1> QED
  BY <1>1, <1>2, <1>4, <1>6 DEF c, r

LEMMA MomentFacts ==
    ASSUME NEW b \in Bao, Timed(b), NEW t \in Int, NEW u \in Int
    PROVE  /\ t <= u => Moment(b, t) <= Moment(b, u)
           /\ Moment(b, t) < Moment(b, u) => Moment(b, t) + Cycle(b) <= Moment(b, u)
           /\ Check_Time(t, u, Cycle(b), Interval[b].rec) <=> Moment(b, t) + Cycle(b) <= u
           /\ Moment(b, t) + Cycle(b) <= u /\ u < Moment(b, t) + Cycle(b) + Cycle(b)
                => Moment(b, u) = Moment(b, t) + Cycle(b)
<1> DEFINE c == Cycle(b)
           r == Interval[b].rec
           mt == Moment(b, t)
           mu == Moment(b, u)
<1>1. /\ c \in Nat /\ c > 0 /\ r \in Int /\ mt \in Int /\ mu \in Int
      /\ mt <= t /\ t < mt + c /\ mu <= u /\ u < mu + c
  BY MomentForm
<1>2. PICK p \in Int : mt = c * p + r
  BY MomentForm
<1>3. PICK q \in Int : mu = c * q + r
  BY MomentForm
<1>4. Check_Time(t, u, c, r) <=> \E n \in Int : t < n * c + r /\ n * c + r <= u
  BY <1>1, CheckTimeMeetsItsComment
<1> HIDE DEF c, r, mt, mu
<1>5. mt < mu => mt + c <= mu
  <2>1. c * p < c * q => c * p + c <= c * q
    BY <1>1, MultiplesApart
  <2>2. c * p \in Int /\ c * q \in Int
    BY <1>1, MultiplesApart
  <2> QED
    BY <1>1, <1>2, <1>3, <2>1, <2>2
<1>6. mu < mt => mu + c <= mt
  <2>1. c * q < c * p => c * q + c <= c * p
    BY <1>1, MultiplesApart
  <2>2. c * p \in Int /\ c * q \in Int
    BY <1>1, MultiplesApart
  <2> QED
    BY <1>1, <1>2, <1>3, <2>1, <2>2
<1>7. t <= u => mt <= mu
  BY <1>1, <1>6
<1>8. mt + c <= u => mt < mu
  BY <1>1, <1>6
<1>9. mt + c <= u /\ u < mt + c + c => mu = mt + c
  <2> SUFFICES ASSUME mt + c <= u, u < mt + c + c PROVE mu = mt + c
    OBVIOUS
  <2>1. mt + c <= mu
    BY <1>5, <1>8
  <2>2. ~(p + 1 < q)
    <3>1. p + 1 < q => c * (p + 1) + c <= c * q
      BY <1>1, MultiplesApart
    <3>2. c * (p + 1) = c * p + c /\ c * p \in Int /\ c * q \in Int
      BY <1>1, MultiplesApart
    <3> QED
      BY <1>1, <1>2, <1>3, <3>1, <3>2
  <2>3. q <= p + 1
    BY <2>2
  <2>4. c * q <= c * (p + 1)
    BY <1>1, <2>3, MultiplesApart
  <2>5. c * (p + 1) = c * p + c /\ c * p \in Int /\ c * q \in Int
    BY <1>1, MultiplesApart
  <2> QED
    BY <1>1, <1>2, <1>3, <2>1, <2>4, <2>5
<1>10. (\E n \in Int : t < n * c + r /\ n * c + r <= u) <=> mt + c <= u
  <2>1. ASSUME NEW n \in Int, t < n * c + r, n * c + r <= u PROVE mt + c <= u
    <3>1. n * c = c * n /\ c * n \in Int /\ c * p \in Int
      BY <1>1, MultiplesApart
    <3>2. c * p < c * n
      BY <1>1, <1>2, <2>1, <3>1
    <3>3. c * p + c <= c * n
      BY <1>1, <3>2, MultiplesApart
    <3> QED
      BY <1>1, <1>2, <2>1, <3>1, <3>3
  <2>2. ASSUME mt + c <= u PROVE t < (p + 1) * c + r /\ (p + 1) * c + r <= u
    <3>1. (p + 1) * c = c * p + c /\ c * p \in Int
      BY <1>1, MultiplesApart
    <3> QED
      BY <1>1, <1>2, <2>2, <3>1
  <2>3. p + 1 \in Int
    OBVIOUS
  <2> QED
    BY <2>1, <2>2, <2>3
<1> QED
  BY <1>4, <1>5, <1>7, <1>9, <1>10 DEF c, r, mt, mu

\* The report is due from its own moment of the same period on.
LEMMA ReportDue ==
    ASSUME NEW b \in Bao, Timed(b), NEW t \in Int, NEW g \in Int, NEW u \in Int,
           g < Moment(b, t) + Interval[b].rep - Interval[b].rec,
           Moment(b, t) + Interval[b].rep - Interval[b].rec <= u
    PROVE  Check_Time(g, u, Cycle(b), Interval[b].rep)
<1>1. /\ Cycle(b) \in Nat /\ Cycle(b) > 0 /\ Interval[b].rec \in Int /\ Interval[b].rep \in Int
  BY MomentForm
<1>2. PICK q \in Int : Moment(b, t) = Cycle(b) * q + Interval[b].rec
  BY MomentForm
<1>3. Cycle(b) * q \in Int /\ Cycle(b) * q = q * Cycle(b)
  BY <1>1, MultiplesApart
<1>4. g < q * Cycle(b) + Interval[b].rep /\ q * Cycle(b) + Interval[b].rep <= u
  BY <1>1, <1>2, <1>3
<1> QED
  BY <1>1, <1>4, CheckTimeMeetsItsComment

\* A record that is not late is filed under the period its moment is of.
LEMMA PeriodOfMoment ==
    ASSUME NEW b \in Bao, Timed(b), NEW t \in Int, 0 <= Interval[b].rec,
           t - Moment(b, t) + Interval[b].rec < Cycle(b)
    PROVE  /\ t - (t % Cycle(b)) = Moment(b, t) - Interval[b].rec
           /\ (t - (t % Cycle(b))) % Cycle(b) = 0
<1> DEFINE c == Cycle(b)
           r == Interval[b].rec
           mt == Moment(b, t)
<1>1. c \in Nat /\ c > 0 /\ r \in Int /\ mt \in Int /\ mt <= t
  BY MomentForm
<1>2. PICK q \in Int : mt = c * q + r
  BY MomentForm
<1> HIDE DEF c, r, mt
<1>3. /\ t \div c \in Int /\ t % c \in 0..(c - 1) /\ t = c * (t \div c) + (t % c)
  BY <1>1, FloorFacts
<1> DEFINE p == t \div c
           s1 == t % c
<1>4. p \in Int /\ s1 \in 0..(c - 1) /\ t = c * p + s1
  BY <1>3
<1> HIDE DEF p, s1
<1>5. c * p \in Int /\ c * q \in Int
  BY <1>1, <1>4, MultiplesApart
<1>6. c * q <= t /\ t < c * q + c
  BY <1>1, <1>2, <1>5 DEF c, r, mt
<1>7. ~(p < q) /\ ~(q < p)
  <2>1. p < q => c * p + c <= c * q
    BY <1>1, <1>4, MultiplesApart
  <2>2. q < p => c * q + c <= c * p
    BY <1>1, <1>4, MultiplesApart
  <2> QED
    BY <1>1, <1>4, <1>5, <1>6, <2>1, <2>2
<1>8. p = q
  BY <1>4, <1>7
<1>9. t - s1 = c * q
  BY <1>4, <1>5, <1>8
<1>10. (c * q) % c = 0
  <2>1. c * q = q * c + 0
    BY <1>1, <1>5
  <2>2. (c * q - 0) % c = 0
    BY <1>1, <1>5, <2>1, MomentOfCycle
  <2>3. c * q - 0 = c * q
    BY <1>5
  <2> QED
    BY <2>2, <2>3
<1> QED
  BY <1>1, <1>2, <1>5, <1>9, <1>10 DEF c, r, mt, s1


-----------------------------------------------------------------------------
(* How long ago an object was polled.                                        *)

LEMMA Steps ==
    /\ \A a, w \in Int : a * w \in Int /\ (a + 1) * w = a * w + w
    /\ \A a, w \in Nat : a * w \in Nat
OBVIOUS

LEMMA OrderFacts ==
    ASSUME TypeOK
    PROVE  /\ Len(Order) \in Nat /\ i \in Nat /\ i >= 1 /\ i <= Len(Order) + 1
           /\ MaxWait \in Nat /\ MaxPause \in Nat /\ now \in Nat
           /\ phase \in {"poll", "due", "wait"}
<1>1. Len(Order) \in Nat
  BY OrderAssumption
<1>2. i \in 1..(Len(Order) + 1) /\ now \in Time /\ phase \in {"poll", "due", "wait"}
  BY DEF TypeOK
<1>3. now \in Nat
  BY <1>2, ConstantFacts
<1> QED
  BY <1>1, <1>2, <1>3, TimeAssumption

LEMMA LagType == ASSUME TypeOK, NEW n \in 1..Len(Order) PROVE Lag(n) \in Nat
<1>1. /\ Len(Order) \in Nat /\ i \in Nat /\ i >= 1 /\ MaxWait \in Nat /\ MaxPause \in Nat
  BY OrderFacts
<1>2. CASE i > n \/ (i = n /\ phase # "poll")
  <2>1. i - n \in Nat
    BY <1>1, <1>2
  <2>2. (i - n) * MaxWait \in Nat
    BY <1>1, <2>1, Steps
  <2> QED
    BY <1>2, <2>2 DEF Lag
<1>3. CASE ~(i > n \/ (i = n /\ phase # "poll"))
  <2>1. Len(Order) + i - n \in Nat
    BY <1>1
  <2>2. (Len(Order) + i - n) * MaxWait \in Nat
    BY <1>1, <2>1, Steps
  <2> QED
    BY <1>1, <1>3, <2>2 DEF Lag
<1> QED
  BY <1>2, <1>3

\* The next object is polled, after a report or without one.
LEMMA LagNext ==
    ASSUME TypeOK, i <= Len(Order), i' = i + 1, phase' = "poll", NEW n \in 1..Len(Order),
           n # i \/ phase # "poll"
    PROVE  Lag(n)' = Lag(n) + MaxWait
<1>1. /\ Len(Order) \in Nat /\ i \in Nat /\ i >= 1 /\ MaxWait \in Nat /\ MaxPause \in Nat
  BY OrderFacts
<1>2. CASE i > n \/ (i = n /\ phase # "poll")
  <2>1. i' > n /\ i' - n = (i - n) + 1 /\ i - n \in Int
    BY <1>1, <1>2
  <2>2. ((i - n) + 1) * MaxWait = (i - n) * MaxWait + MaxWait
    BY <1>1, <2>1, Steps
  <2>3. Lag(n)' = (i' - n) * MaxWait
    BY <2>1 DEF Lag
  <2>4. Lag(n) = (i - n) * MaxWait
    BY <1>2 DEF Lag
  <2> QED
    BY <2>1, <2>2, <2>3, <2>4
<1>3. CASE ~(i > n \/ (i = n /\ phase # "poll"))
  <2>1. i < n
    BY <1>1, <1>3
  <2>2. ~(i' > n \/ (i' = n /\ phase' # "poll"))
    BY <1>1, <2>1
  <2>3. Len(Order) + i' - n = (Len(Order) + i - n) + 1 /\ Len(Order) + i - n \in Int
    BY <1>1
  <2>4. ((Len(Order) + i - n) + 1) * MaxWait = (Len(Order) + i - n) * MaxWait + MaxWait
        /\ (Len(Order) + i - n) * MaxWait \in Int
    BY <1>1, <2>3, Steps
  <2>5. Lag(n)' = (Len(Order) + i' - n) * MaxWait + MaxPause
    BY <2>2 DEF Lag
  <2>6. Lag(n) = (Len(Order) + i - n) * MaxWait + MaxPause
    BY <1>3 DEF Lag
  <2>7. Lag(n)' = ((Len(Order) + i - n) + 1) * MaxWait + MaxPause
    BY <2>3, <2>5
  <2> QED
    BY <1>1, <2>4, <2>6, <2>7
<1> QED
  BY <1>2, <1>3

\* A new round.
LEMMA LagRound ==
    ASSUME TypeOK, i = Len(Order) + 1, i' = 1, phase = "poll", phase' = "poll",
           NEW n \in 1..Len(Order)
    PROVE  Lag(n)' = Lag(n) + MaxPause
<1>1. /\ Len(Order) \in Nat /\ MaxWait \in Nat /\ MaxPause \in Nat
  BY OrderFacts
<1>2. i > n /\ ~(i' > n \/ (i' = n /\ phase' # "poll"))
  BY <1>1
<1>3. Lag(n) = (i - n) * MaxWait
  BY <1>2 DEF Lag
<1>4. Lag(n)' = (Len(Order) + i' - n) * MaxWait + MaxPause
  BY <1>2 DEF Lag
<1>5. Len(Order) + i' - n = i - n
  BY <1>1
<1> QED
  BY <1>3, <1>4, <1>5

\* When its turn has come, a whole round has passed.
LEMMA LagTurn ==
    ASSUME TypeOK, phase = "poll", i <= Len(Order)
    PROVE  Lag(i) = Round
<1>1. /\ Len(Order) \in Nat /\ i \in Nat /\ MaxWait \in Nat
  BY OrderFacts
<1>2. ~(i > i \/ (i = i /\ phase # "poll"))
  BY <1>1
<1>3. Lag(i) = (Len(Order) + i - i) * MaxWait + MaxPause
  BY <1>2 DEF Lag
<1>4. Len(Order) + i - i = Len(Order)
  BY <1>1
<1> QED
  BY <1>3, <1>4 DEF Round

LEMMA LaterBound ==
    ASSUME TypeOK, NEW k \in Nat, NEW d \in 0..k
    PROVE  Later(now, d) \in Nat /\ now <= Later(now, d) /\ Later(now, d) <= now + k
<1>1. now \in Nat /\ now <= MaxTime /\ MaxTime \in Nat /\ d \in Nat /\ d <= k
  <2>1. now \in Time
    BY DEF TypeOK
  <2> QED
    BY <2>1, TimeAssumption DEF Time
<1>2. CASE now + d <= MaxTime
  <2>1. Later(now, d) = now + d
    BY <1>2 DEF Later
  <2> QED
    BY <1>1, <2>1
<1>3. CASE ~(now + d <= MaxTime)
  <2>1. Later(now, d) = MaxTime
    BY <1>3 DEF Later
  <2> QED
    BY <1>1, <1>3, <2>1
<1> QED
  BY <1>2, <1>3


-----------------------------------------------------------------------------
(* poll() comes in time.                                                     *)

\* Just polled: no moment of the object is waiting.
UpToDate(b) ==
    /\ last_record_check_time[b] <= now
    /\ ~record_enable[b] => /\ now < LastMoment(b) + Cycle(b)
                            /\ last_report_check_time[b] < LastMoment(b) + Cycle(b)
    /\ record_enable[b] => /\ now < ReportMoment(b)
                           /\ last_report_check_time[b] < ReportMoment(b)

LEMMA TimerFacts ==
    ASSUME TypeOK, NEW b \in Bao, Timed(b)
    PROVE  /\ Cycle(b) \in Nat /\ Cycle(b) > 0
           /\ Interval[b].rec \in Int /\ Interval[b].rep \in Int
           /\ last_record_check_time[b] \in Nat /\ last_report_check_time[b] \in Nat
           /\ LastMoment(b) \in Int /\ ReportMoment(b) \in Int
           /\ LastMoment(b) <= last_record_check_time[b]
           /\ last_record_check_time[b] < LastMoment(b) + Cycle(b)
<1>1. last_record_check_time[b] \in Time /\ last_report_check_time[b] \in Time
  BY DEF TypeOK
<1>2. last_record_check_time[b] \in Nat /\ last_report_check_time[b] \in Nat
  BY <1>1, ConstantFacts
<1>3. last_record_check_time[b] \in Int
  BY <1>2
<1>4. /\ Cycle(b) \in Nat /\ Cycle(b) > 0
      /\ Interval[b].rec \in Int /\ Interval[b].rep \in Int
      /\ LastMoment(b) \in Int
      /\ LastMoment(b) <= last_record_check_time[b]
      /\ last_record_check_time[b] < LastMoment(b) + Cycle(b)
  BY <1>3, MomentForm DEF LastMoment
<1>5. ReportMoment(b) \in Int
  BY <1>4 DEF ReportMoment
<1> QED
  BY <1>2, <1>4, <1>5

LEMMA RoundFacts ==
    ASSUME TypeOK
    PROVE  Round \in Nat /\ MaxWait \in Nat /\ MaxWait <= Round
<1>1. Len(Order) \in Nat /\ Len(Order) > 0 /\ MaxWait \in Nat /\ MaxPause \in Nat
  BY OrderFacts, OrderAssumption
<1>2. (Len(Order) - 1) * MaxWait \in Nat
  BY <1>1, Steps
<1>3. Len(Order) * MaxWait = (Len(Order) - 1) * MaxWait + MaxWait
  <2>1. Len(Order) = (Len(Order) - 1) + 1 /\ Len(Order) - 1 \in Int
    BY <1>1
  <2>2. ((Len(Order) - 1) + 1) * MaxWait = (Len(Order) - 1) * MaxWait + MaxWait
    BY <1>1, <2>1, Steps
  <2> QED
    BY <2>1, <2>2
<1> QED
  BY <1>1, <1>2, <1>3 DEF Round

\* The call of poll() that finds the record timer expired finds exactly one
\* moment, and is still in the period of that moment.
LEMMA RecordInTime ==
    ASSUME TypeOK, NEW b \in Bao, Timed(b), OnTime(b, Round), RecordTimer(b)
    PROVE  /\ Moment(b, now) = LastMoment(b) + Cycle(b)
           /\ Interval[b].rec + Round <= Cycle(b)
                => now - Moment(b, now) + Interval[b].rec < Cycle(b)
           /\ now < Moment(b, now) + Cycle(b)
           /\ last_report_check_time[b] < Moment(b, now)
<1> DEFINE L == last_record_check_time[b]
           G == last_report_check_time[b]
           M == LastMoment(b)
           C == Cycle(b)
           R == Interval[b].rec
<1>1. C \in Nat /\ C > 0 /\ R \in Int /\ L \in Nat /\ G \in Nat /\ M \in Int /\ now \in Nat
  BY TimerFacts, OrderFacts
<1>2. ~record_enable[b] /\ Check_Time(L, now, C, R)
  BY DEF RecordTimer
<1>3. M + C <= now
  <2>1. L \in Int /\ now \in Int
    BY <1>1
  <2> QED
    BY <1>2, <2>1, MomentFacts DEF LastMoment
<1>4. now < M + C + Round /\ G < M + C
  BY <1>2 DEF OnTime
<1>5. Round <= C /\ Round \in Nat
  BY RoundFacts DEF Timed
<1>6. M + C <= now /\ now < M + C + C
  BY <1>1, <1>3, <1>4, <1>5
<1>7. Moment(b, now) = M + C
  <2>1. L \in Int /\ now \in Int
    BY <1>1
  <2>2. M = Moment(b, L)
    BY DEF LastMoment
  <2> HIDE DEF L, M, C
  <2> QED
    BY <1>6, <2>1, <2>2, MomentFacts DEF C
<1> HIDE DEF L, G, M, C, R
<1>8. (R + Round <= C => now - Moment(b, now) + R < C) /\ now < Moment(b, now) + C /\ G < Moment(b, now)
  BY <1>1, <1>4, <1>5, <1>6, <1>7
<1> QED
  BY <1>7, <1>8 DEF L, G, M, C, R

LEMMA PollUpToDate ==
    ASSUME TypeOK, Stage, NEW b \in Bao, Timed(b), Poll(b), OnTime(b, Round)
    PROVE  /\ UpToDate(b)'
           /\ RecordTimer(b) => last_record_check_time'[b] = now
           /\ ~RecordTimer(b) => last_record_check_time'[b] = last_record_check_time[b]
<1> DEFINE L == last_record_check_time[b]
           G == last_report_check_time[b]
           M == LastMoment(b)
           C == Cycle(b)
           R == Interval[b].rec
           P == Interval[b].rep
<1>1. C \in Nat /\ C > 0 /\ R \in Int /\ P \in Int /\ L \in Nat /\ G \in Nat /\ M \in Int
      /\ now \in Nat
  BY TimerFacts, OrderFacts
<1>2. /\ last_record_check_time'[b] = IF RecordTimer(b) THEN now ELSE L
      /\ last_report_check_time'[b] = IF ReportTimer(b) THEN now ELSE G
      /\ now' = now
  BY DEF Poll, TypeOK
<1>3. record_enable'[b] <=> (record_enable[b] \/ record_check(b)) /\ ~ReportTimer(b)
  BY DEF Poll, TypeOK
<1>4. /\ R <= P /\ Round <= C /\ P + Round - MaxWait <= C + R
      /\ Round \in Nat /\ MaxWait \in Nat /\ MaxWait <= Round
  BY RoundFacts DEF Timed
<1>5. ReportTimer(b) <=> (record_enable[b] \/ record_check(b)) /\ Check_Time(G, now, C, P)
  BY DEF ReportTimer
<1>6. record_check(b) => RecordTimer(b)
  BY DEF record_check
<1>7. RecordTimer(b) => ~record_enable[b]
  BY DEF RecordTimer
<1>8. CASE RecordTimer(b)
  <2> DEFINE N == Moment(b, now)
  <2>1. N = M + C /\ now < N + C /\ G < N
    BY <1>8, RecordInTime
  <2>2. last_record_check_time'[b] = now /\ LastMoment(b)' = N
    BY <1>2, <1>8 DEF LastMoment, Moment, Cycle
  <2>3. N \in Int
    BY <1>1, <2>1
  <2>4. ASSUME record_enable'[b]
        PROVE  now < N + P - R /\ G < N + P - R /\ last_report_check_time'[b] = G
    <3>1. ~ReportTimer(b) /\ ~Check_Time(G, now, C, P)
      BY <1>3, <1>5, <2>4
    <3>2. G < N + P - R
      BY <1>1, <1>4, <2>1, <2>3
    <3>3. ~(N + P - R <= now)
      <4>1. now \in Int /\ G \in Int
        BY <1>1
      <4> QED
        BY <3>1, <3>2, <4>1, ReportDue
    <3> QED
      BY <1>1, <1>2, <2>3, <3>1, <3>2, <3>3
  <2>5. last_report_check_time'[b] < N + C
    BY <1>1, <1>2, <2>1, <2>3
  <2>6. ReportMoment(b)' = N + P - R
    BY <2>2 DEF ReportMoment
  <2> HIDE DEF N
  <2>7. UpToDate(b)'
    BY <1>1, <1>2, <2>1, <2>2, <2>4, <2>5, <2>6 DEF UpToDate, Cycle
  <2> QED
    BY <1>2, <1>8, <2>7
<1>9. CASE ~RecordTimer(b)
  <2>1. last_record_check_time'[b] = L /\ LastMoment(b)' = M
    BY <1>2, <1>9 DEF LastMoment, Moment, Cycle
  <2>2. L <= now
    BY DEF OnTime
  <2>3. ReportMoment(b)' = M + P - R /\ ReportMoment(b) = M + P - R
    BY <2>1 DEF ReportMoment
  <2>4. CASE record_enable[b]
    <3>1. now < M + P - R + Round - MaxWait /\ G < M + P - R
      BY <2>3, <2>4 DEF OnTime
    <3>2. now < M + C
      BY <1>1, <1>4, <3>1
    <3>3. ASSUME record_enable'[b]
          PROVE  now < M + P - R /\ last_report_check_time'[b] = G
      <4>1. ~ReportTimer(b) /\ ~Check_Time(G, now, C, P)
        BY <1>3, <1>5, <3>3
      <4>2. ~(M + P - R <= now)
        <5>1. now \in Int /\ G \in Int /\ L \in Int
          BY <1>1
        <5>2. M = Moment(b, L)
          BY DEF LastMoment
        <5> QED
          BY <3>1, <4>1, <5>1, <5>2, ReportDue
      <4> QED
        BY <1>1, <1>2, <4>1, <4>2
    <3>4. last_report_check_time'[b] < M + C
      BY <1>1, <1>2, <1>4, <3>1, <3>2
    <3>5. UpToDate(b)'
      BY <1>2, <2>1, <2>2, <2>3, <3>1, <3>2, <3>3, <3>4 DEF UpToDate, Cycle
    <3> QED
      BY <1>2, <1>9, <3>5
  <2>5. CASE ~record_enable[b]
    <3>1. ~record_check(b) /\ ~ReportTimer(b) /\ ~record_enable'[b]
      BY <1>3, <1>5, <1>6, <1>9, <2>5
    <3>2. ~Check_Time(L, now, C, R)
      BY <1>9, <2>5 DEF RecordTimer, Timed
    <3>3. ~(M + C <= now)
      <4>1. now \in Int /\ L \in Int
        BY <1>1
      <4> QED
        BY <3>2, <4>1, MomentFacts DEF LastMoment
    <3>4. now < M + C
      BY <1>1, <3>3
    <3>5. G < M + C
      BY <2>5 DEF OnTime
    <3>6. UpToDate(b)'
      BY <1>2, <2>1, <2>2, <3>1, <3>4, <3>5 DEF UpToDate, Cycle
    <3> QED
      BY <1>2, <1>9, <3>6
  <2> QED
    BY <2>4, <2>5
<1> QED
  BY <1>8, <1>9


\* An object that is not polled falls behind no faster than the clock goes.
LEMMA OnTimeLater ==
    ASSUME TypeOK, NEW c \in Bao, Timed(c), NEW l \in Int, NEW k \in Int, OnTime(c, l),
           now' \in Nat, now <= now', now' - now <= k - l,
           last_record_check_time'[c] = last_record_check_time[c],
           last_report_check_time'[c] = last_report_check_time[c],
           record_enable'[c] = record_enable[c]
    PROVE  OnTime(c, k)'
<1>1. /\ Cycle(c) \in Nat /\ LastMoment(c) \in Int /\ ReportMoment(c) \in Int
      /\ last_record_check_time[c] \in Nat /\ now \in Nat /\ MaxWait \in Nat
  BY TimerFacts, OrderFacts
<1>2. LastMoment(c)' = LastMoment(c) /\ ReportMoment(c)' = ReportMoment(c)
  BY DEF LastMoment, Moment, ReportMoment, Cycle
<1>3. ~record_enable[c] => now' < LastMoment(c) + Cycle(c) + k
  <2>1. ~record_enable[c] => now < LastMoment(c) + Cycle(c) + l
    BY DEF OnTime
  <2>2. \A x, t, u, w \in Int : t < x + w + l /\ u - t <= k - l => u < x + w + k
    OBVIOUS
  <2>3. now \in Int /\ now' \in Int /\ LastMoment(c) \in Int /\ Cycle(c) \in Int
    BY <1>1
  <2> QED
    BY <2>1, <2>2, <2>3
<1>4. record_enable[c] => now' < ReportMoment(c) + k - MaxWait
  <2>1. record_enable[c] => now < ReportMoment(c) + l - MaxWait
    BY DEF OnTime
  <2>2. \A x, t, u, w \in Int : t < x + l - w /\ u - t <= k - l => u < x + k - w
    OBVIOUS
  <2>3. now \in Int /\ now' \in Int /\ ReportMoment(c) \in Int /\ MaxWait \in Int
    BY <1>1
  <2>4. now < ReportMoment(c) + l - MaxWait => now' < ReportMoment(c) + k - MaxWait
    BY <2>2, <2>3
  <2> QED
    BY <2>1, <2>4
<1>5. last_record_check_time[c] <= now'
  BY <1>1 DEF OnTime
<1> QED
  BY <1>2, <1>3, <1>4, <1>5 DEF OnTime, Cycle

LEMMA OnTimeJustNow ==
    ASSUME TypeOK', NEW c \in Bao, Timed(c), UpToDate(c)', NEW k \in Nat,
           record_enable'[c] => k >= MaxWait
    PROVE  OnTime(c, k)'
<1>1. /\ Cycle(c) \in Nat /\ LastMoment(c)' \in Int /\ ReportMoment(c)' \in Int
      /\ now' \in Nat /\ MaxWait \in Nat
  <2>1. (LastMoment(c) \in Int /\ ReportMoment(c) \in Int)'
    <3>1. last_record_check_time'[c] \in Time
      BY DEF TypeOK
    <3>2. last_record_check_time'[c] \in Int
      <4>1. last_record_check_time'[c] \in Nat
        BY <3>1, ConstantFacts
      <4> QED
        BY <4>1
    <3>3. LastMoment(c)' = Moment(c, last_record_check_time'[c])
      BY DEF LastMoment, Moment, Cycle
    <3>4. LastMoment(c)' \in Int /\ Interval[c].rec \in Int /\ Interval[c].rep \in Int
      BY <3>2, <3>3, MomentForm
    <3> QED
      BY <3>4 DEF ReportMoment
  <2>2. now' \in Time
    BY DEF TypeOK
  <2> QED
    BY <2>1, <2>2, ConstantFacts, TimeAssumption, IntervalAssumption DEF Cycle
<1>2. ~record_enable'[c] => now' < LastMoment(c)' + Cycle(c) + k
  BY <1>1 DEF UpToDate, Cycle
<1>3. record_enable'[c] => now' < ReportMoment(c)' + k - MaxWait
  BY <1>1 DEF UpToDate
<1> QED
  BY <1>2, <1>3 DEF OnTime, UpToDate, Cycle

LEMMA PollPunctual ==
    ASSUME TypeOK, Stage, TypeOK', Stage', Punctual, NEW b \in Bao, Poll(b)
    PROVE  Punctual'
<1>1. /\ phase = "poll" /\ i <= Len(Order) /\ b = Order[i] /\ now' = now
      /\ \/ phase' = "due" /\ i' = i /\ report_enable'[b]
         \/ phase' = "poll" /\ i' = i + 1
  BY DEF Poll
<1>2. /\ i \in 1..Len(Order) /\ MaxWait \in Nat /\ now \in Nat /\ i \in Nat
  BY <1>1, OrderFacts
<1> SUFFICES ASSUME NEW n \in 1..Len(Order), Timed(Order[n]) PROVE OnTime(Order[n], Lag(n))'
  BY TimedConstant DEF Punctual
<1>3. Order[n] \in Bao /\ OnTime(Order[n], Lag(n)) /\ Lag(n) \in Nat
  BY LagType, ConstantFacts DEF Punctual
<1>4. Lag(n)' \in Nat
  <2>1. (Lag(n) \in Nat)'
    BY LagType, PTL
  <2> QED
    BY <2>1
<1>5. phase' = "poll" => Lag(n)' >= MaxWait /\ (n # i => Lag(n)' >= Lag(n))
  <2> SUFFICES ASSUME phase' = "poll" PROVE Lag(n)' >= MaxWait /\ (n # i => Lag(n)' >= Lag(n))
    OBVIOUS
  <2>1. i' = i + 1
    BY <1>1
  <2>2. CASE n # i
    <3>1. Lag(n)' = Lag(n) + MaxWait
      BY <1>1, <2>1, <2>2, LagNext
    <3> QED
      BY <1>2, <1>3, <3>1
  <2>3. CASE n = i
    <3>1. i' > n /\ i' - n = 1
      BY <1>2, <2>1, <2>3
    <3>2. Lag(n)' = 1 * MaxWait
      BY <3>1 DEF Lag
    <3> QED
      BY <1>2, <2>3, <3>2
  <2> QED
    BY <2>2, <2>3
<1>6. phase' = "due" /\ n # i => Lag(n)' = Lag(n)
  BY <1>1, <1>2 DEF Lag
<1>7. CASE Order[n] = b
  <2>1. OnTime(b, Round)
    <3>1. OnTime(Order[i], Lag(i))
      BY <1>1, <1>2, <1>7 DEF Punctual
    <3> QED
      BY <1>1, <3>1, LagTurn
  <2>2. UpToDate(b)'
    BY <1>7, <2>1, PollUpToDate
  <2>3. record_enable'[b] => phase' = "poll"
    BY <1>1 DEF Stage
  <2>4. record_enable'[b] => Lag(n)' >= MaxWait
    BY <1>5, <2>3
  <2> QED
    BY <1>4, <1>7, <2>2, <2>4, OnTimeJustNow DEF OnTime
<1>8. CASE Order[n] # b
  <2>1. n # i
    BY <1>1, <1>8
  <2>2. Lag(n)' >= Lag(n)
    BY <1>1, <1>3, <1>5, <1>6, <2>1
  <2>3. /\ last_record_check_time'[Order[n]] = last_record_check_time[Order[n]]
        /\ last_report_check_time'[Order[n]] = last_report_check_time[Order[n]]
        /\ record_enable'[Order[n]] = record_enable[Order[n]]
    BY <1>3, <1>8 DEF Poll, TypeOK
  <2>4. now' \in Nat /\ now <= now' /\ now' - now <= Lag(n)' - Lag(n)
    BY <1>1, <1>2, <1>3, <1>4, <2>2
  <2>5. Lag(n) \in Int /\ Lag(n)' \in Int
    BY <1>3, <1>4
  <2> QED
    BY <1>3, <2>3, <2>4, <2>5, OnTimeLater DEF OnTime
<1> QED
  BY <1>7, <1>8


\* The steps that poll nothing.
LEMMA LaterPunctual ==
    ASSUME TypeOK, TypeOK', Punctual, now <= now',
           UNCHANGED <<last_record_check_time, last_report_check_time, record_enable>>,
           \A n \in 1..Len(Order) : now' - now <= Lag(n)' - Lag(n)
    PROVE  Punctual'
<1> SUFFICES ASSUME NEW n \in 1..Len(Order), Timed(Order[n]) PROVE OnTime(Order[n], Lag(n))'
  BY TimedConstant DEF Punctual
<1>1. Order[n] \in Bao /\ OnTime(Order[n], Lag(n)) /\ Lag(n) \in Int
  BY LagType, ConstantFacts DEF Punctual
<1>2. Lag(n)' \in Int /\ now' \in Nat
  <2>1. (Lag(n) \in Nat)'
    BY LagType, PTL
  <2>2. (now \in Nat)'
    BY OrderFacts, PTL
  <2> QED
    BY <2>1, <2>2
<1> QED
  BY <1>1, <1>2, OnTimeLater DEF OnTime

LEMMA EndPunctual ==
    ASSUME TypeOK, TypeOK', Stage, Punctual, phase = "wait", NEW b, EndReport(b),
           now <= now', now' <= now + MaxWait
    PROVE  Punctual'
<1>1. /\ i' = i + 1 /\ phase' = "poll"
      /\ UNCHANGED <<last_record_check_time, last_report_check_time, record_enable>>
  BY DEF EndReport
<1>2. i <= Len(Order)
  BY DEF Stage
<1>3. ASSUME NEW n \in 1..Len(Order) PROVE now' - now <= Lag(n)' - Lag(n)
  <2>1. Lag(n)' = Lag(n) + MaxWait
    BY <1>1, <1>2, LagNext
  <2>2. Lag(n) \in Nat /\ MaxWait \in Nat /\ now \in Nat
    BY LagType, OrderFacts
  <2>3. now' \in Nat
    <3>1. (now \in Nat)'
      BY OrderFacts, PTL
    <3> QED
      BY <3>1
  <2> QED
    BY <2>1, <2>2, <2>3
<1> QED
  BY <1>1, <1>3, LaterPunctual

LEMMA RestartPunctual ==
    ASSUME TypeOK', Restart
    PROVE  Punctual'
<1>1. \E d \in 1..MaxPause : now' = Later(now, d) /\ FreshObjects(Later(now, d))
  BY DEF Restart
<1>2. \A b \in Bao : /\ last_record_check_time'[b] = now' /\ last_report_check_time'[b] = now'
                     /\ ~record_enable'[b]
  BY <1>1 DEF FreshObjects
<1> SUFFICES ASSUME NEW n \in 1..Len(Order), Timed(Order[n]) PROVE OnTime(Order[n], Lag(n))'
  BY TimedConstant DEF Punctual
<1> DEFINE b == Order[n]
<1>3. b \in Bao /\ now' \in Nat /\ Lag(n)' \in Nat
  <2>1. (Lag(n) \in Nat)'
    BY LagType, PTL
  <2>2. (now \in Nat)'
    BY OrderFacts, PTL
  <2> QED
    BY <2>1, <2>2, ConstantFacts
<1>4. now' < Moment(b, now') + Cycle(b) /\ now' <= now'
  <2>1. now' \in Int
    BY <1>3
  <2> QED
    BY <1>3, <2>1, MomentForm
<1>5. LastMoment(b)' = Moment(b, now')
  BY <1>2, <1>3 DEF LastMoment, Moment, Cycle
<1>6. UpToDate(b)'
  BY <1>2, <1>3, <1>4, <1>5 DEF UpToDate, Cycle
<1>7. record_enable'[b] => Lag(n)' >= MaxWait
  BY <1>2, <1>3
<1> QED
  BY <1>3, <1>6, <1>7, OnTimeJustNow DEF OnTime

\* The records: a step that makes none, and moves no record timer back.
LEMMA NoRecord ==
    ASSUME TypeOK, TypeOK', ShortRounds, Filed, Newest, RecordedOnce, Unbroken,
           recorded' = recorded,
           \A b \in Bao : Active(b) => last_record_check_time[b] <= last_record_check_time'[b],
           \/ /\ boot' = boot
              /\ \A b \in Bao : Active(b) /\ Kind[b] \in {"base", "cycle"} =>
                    last_record_check_time'[b] = last_record_check_time[b]
           \/ \A r \in recorded : r.boot # boot'
    PROVE  (Filed /\ Newest /\ RecordedOnce /\ Unbroken)'
<1>1. \A r \in recorded : r.name \in Bao /\ Active(r.name) /\ r.tdate \in Nat
  BY ConstantFacts DEF TypeOK, Recorded, Filed
<1>2. ASSUME NEW b \in Bao, Active(b) PROVE LastMoment(b) <= LastMoment(b)' /\ LastMoment(b)' \in Int
  <2>1. last_record_check_time[b] \in Time /\ last_record_check_time'[b] \in Time
    BY DEF TypeOK
  <2>2. last_record_check_time[b] \in Nat /\ last_record_check_time'[b] \in Nat
    BY <2>1, ConstantFacts
  <2>3. last_record_check_time[b] \in Int /\ last_record_check_time'[b] \in Int
    BY <2>2
  <2>4. LastMoment(b)' = Moment(b, last_record_check_time'[b])
    BY DEF LastMoment, Moment, Cycle
  <2>5. last_record_check_time[b] <= last_record_check_time'[b]
    BY <1>2
  <2> QED
    BY <1>2, <2>3, <2>4, <2>5, ActiveTimed, MomentFacts, MomentForm DEF LastMoment
<1>3. Filed'
  <2> SUFFICES ASSUME NEW r \in recorded
               PROVE  Active(r.name) /\ r.tdate + Interval[r.name].rec <= LastMoment(r.name)'
    BY DEF Filed, Active, Stores, Cycle
  <2>1. r.tdate + Interval[r.name].rec <= LastMoment(r.name) /\ r.tdate \in Nat
    BY <1>1 DEF Filed
  <2>2. LastMoment(r.name) <= LastMoment(r.name)' /\ LastMoment(r.name)' \in Int
    BY <1>1, <1>2
  <2>3. LastMoment(r.name) \in Int /\ Interval[r.name].rec \in Int
    BY <1>1, ActiveTimed, TimerFacts
  <2> QED
    BY <1>1, <2>1, <2>2, <2>3
<1>4. Newest'
  <2> SUFFICES ASSUME NEW r \in recorded, r.boot = boot', Kind[r.name] \in {"base", "cycle"}
               PROVE  \E q \in recorded : /\ q.name = r.name /\ q.boot = boot'
                                          /\ q.tdate + Interval[q.name].rec = LastMoment(q.name)'
    BY DEF Newest
  <2>1. boot' = boot /\ last_record_check_time'[r.name] = last_record_check_time[r.name]
    BY <1>1
  <2>2. LastMoment(r.name)' = LastMoment(r.name)
    BY <2>1 DEF LastMoment, Moment, Cycle
  <2>3. PICK q \in recorded : /\ q.name = r.name /\ q.boot = boot
                              /\ q.tdate + Interval[q.name].rec = LastMoment(q.name)
    BY <2>1 DEF Newest
  <2>4. LastMoment(q.name)' = LastMoment(q.name)
    BY <2>1, <2>3 DEF LastMoment, Moment, Cycle
  <2> QED
    BY <2>1, <2>3, <2>4
<1>5. RecordedOnce'
  BY DEF RecordedOnce
<1>6. Unbroken'
  BY DEF Unbroken, Cycle
<1> QED
  BY <1>3, <1>4, <1>5, <1>6


LEMMA MultipleBefore ==
    ASSUME NEW c \in Nat, c > 0, NEW t \in Int, NEW u \in Int, t % c = 0, u % c = 0, t < u
    PROVE  t + c <= u
<1>1. t - 0 = t /\ u - 0 = u
  OBVIOUS
<1>2. PICK n \in Int : t = n * c + 0
  BY <1>1, MomentOfCycle
<1>3. PICK k \in Int : u = k * c + 0
  BY <1>1, MomentOfCycle
<1>4. c * n = n * c /\ c * k = k * c /\ c * n \in Int /\ c * k \in Int
  BY MultiplesApart
<1>5. c * n < c * k => c * n + c <= c * k
  BY MultiplesApart
<1> QED
  BY <1>2, <1>3, <1>4, <1>5

\* record() files the snapshot under the period after the last one.
LEMMA PollRecords ==
    ASSUME TypeOK, TypeOK', Stage, ShortRounds, Punctual, Filed, Newest, RecordedOnce, Unbroken,
           NEW b \in Bao, Poll(b)
    PROVE  (Filed /\ Newest /\ RecordedOnce /\ Unbroken)'
<1>1. /\ phase = "poll" /\ i <= Len(Order) /\ b = Order[i] /\ boot' = boot
  BY DEF Poll
<1>2. Active(b) => OnTime(b, Round)
  <2>1. i \in 1..Len(Order)
    BY <1>1, OrderFacts
  <2>2. Active(b) => OnTime(Order[i], Lag(i))
    BY <1>1, <2>1, ActiveTimed DEF Punctual
  <2> QED
    BY <1>1, <2>2, LagTurn
<1>3. \A c \in Bao \ {b} : last_record_check_time'[c] = last_record_check_time[c]
  BY DEF Poll, TypeOK
<1>4. Active(b) => /\ RecordTimer(b) => last_record_check_time'[b] = now
                   /\ ~RecordTimer(b) => last_record_check_time'[b] = last_record_check_time[b]
  BY <1>2, ActiveTimed, PollUpToDate
<1>5. CASE ~(record_check(b) /\ Stores(b))
  <2>1. recorded' = recorded
    BY <1>5 DEF Poll
  <2>2. Active(b) /\ Kind[b] \in {"base", "cycle"} => ~RecordTimer(b)
    BY <1>5 DEF record_check, Active
  <2>3. \A c \in Bao : Active(c) => last_record_check_time[c] <= last_record_check_time'[c]
    <3> SUFFICES ASSUME NEW c \in Bao, Active(c)
                 PROVE  last_record_check_time[c] <= last_record_check_time'[c]
      OBVIOUS
    <3>1. last_record_check_time[c] \in Nat
      BY ActiveTimed, TimerFacts
    <3>2. CASE c = b
      <4>1. last_record_check_time[b] <= now
        BY <1>2, <3>2 DEF OnTime
      <4> QED
        BY <1>4, <3>1, <3>2, <4>1
    <3>3. CASE c # b
      BY <1>3, <3>1, <3>3
    <3> QED
      BY <3>2, <3>3
  <2>4. \A c \in Bao : Active(c) /\ Kind[c] \in {"base", "cycle"} =>
            last_record_check_time'[c] = last_record_check_time[c]
    BY <1>3, <1>4, <2>2
  <2> QED
    BY <1>1, <2>1, <2>3, <2>4, NoRecord
<1>6. CASE record_check(b) /\ Stores(b)
  <2> DEFINE C == Cycle(b)
             R == Interval[b].rec
             M == LastMoment(b)
             T == PeriodOf(b)
             new == [name |-> b, tdate |-> T, data |-> Snapshot(now), boot |-> boot]
  <2>1. RecordTimer(b) /\ Active(b) /\ OnTime(b, Round)
    BY <1>2, <1>6 DEF record_check, RecordTimer, Active
  <2>2. /\ Moment(b, now) = M + C /\ now - Moment(b, now) + R < C /\ 0 <= R
        /\ C \in Nat /\ C > 0 /\ R \in Int /\ M \in Int /\ now \in Int
    BY <2>1, ActiveTimed, RecordInTime, TimerFacts, OrderFacts
  <2>3. T = M + C - R /\ T % C = 0
    <3>1. /\ now - (now % C) = Moment(b, now) - R
          /\ (now - (now % C)) % C = 0
      BY <2>1, <2>2, ActiveTimed, PeriodOfMoment
    <3> QED
      BY <2>2, <3>1 DEF PeriodOf
  <2>4. recorded' = recorded \cup {new}
    BY <1>6 DEF Poll
  <2>5. LastMoment(b)' = M + C
    <3>1. last_record_check_time'[b] = now
      BY <1>4, <2>1
    <3>2. LastMoment(b)' = Moment(b, now)
      BY <3>1 DEF LastMoment, Moment, Cycle
    <3> QED
      BY <2>2, <3>2
  <2>6. \A c \in Bao \ {b} : LastMoment(c)' = LastMoment(c)
    BY <1>3 DEF LastMoment, Moment, Cycle
  <2>7. new.name = b /\ new.tdate = T /\ new.boot = boot
    OBVIOUS
  <2>8. T \in Int
    BY <2>2, <2>3
  <2> HIDE DEF new, C, R, M, T
  <2>9. \A r \in recorded : r.name \in Bao /\ Active(r.name) /\ r.tdate \in Nat
    BY ConstantFacts DEF TypeOK, Recorded, Filed
  <2>10. \A r \in recorded : r.name = b => r.tdate + R <= M /\ r.tdate < T
    <3> SUFFICES ASSUME NEW r \in recorded, r.name = b PROVE r.tdate + R <= M /\ r.tdate < T
      OBVIOUS
    <3>1. r.tdate + R <= M /\ r.tdate \in Nat
      BY <2>9 DEF Filed, M, R
    <3> QED
      BY <2>2, <2>3, <3>1
  <2>11. Filed'
    <3> SUFFICES ASSUME NEW r \in recorded'
                 PROVE  Active(r.name) /\ r.tdate + Interval[r.name].rec <= LastMoment(r.name)'
      BY DEF Filed, Active, Stores, Cycle
    <3>1. CASE r = new
      <4>1. T + R <= M + C
        BY <2>2, <2>3
      <4> QED
        BY <2>1, <2>5, <2>7, <3>1, <4>1 DEF R
    <3>2. CASE r \in recorded /\ r.name = b
      <4>1. r.tdate + R <= M /\ r.tdate \in Nat
        BY <2>9, <2>10, <3>2
      <4>2. r.tdate + R <= M + C
        BY <2>2, <4>1
      <4> QED
        BY <2>1, <2>5, <3>2, <4>2 DEF R
    <3>3. CASE r \in recorded /\ r.name # b
      BY <2>6, <2>9, <3>3 DEF Filed
    <3> QED
      BY <2>4, <3>1, <3>2, <3>3
  <2>12. Newest'
    <3> SUFFICES ASSUME NEW r \in recorded', r.boot = boot, Kind[r.name] \in {"base", "cycle"}
                 PROVE  \E q \in recorded' : /\ q.name = r.name /\ q.boot = boot
                                             /\ q.tdate + Interval[q.name].rec = LastMoment(q.name)'
      BY <1>1 DEF Newest
    <3>1. CASE r.name = b
      <4>1. T + R = M + C
        BY <2>2, <2>3
      <4> QED
        BY <2>4, <2>5, <2>7, <3>1, <4>1 DEF R
    <3>2. CASE r.name # b
      <4>1. r \in recorded
        BY <2>4, <2>7, <3>2
      <4>2. PICK q \in recorded : /\ q.name = r.name /\ q.boot = boot
                                  /\ q.tdate + Interval[q.name].rec = LastMoment(q.name)
        BY <4>1 DEF Newest
      <4>3. LastMoment(q.name)' = LastMoment(q.name)
        BY <2>6, <2>9, <3>2, <4>2
      <4> QED
        BY <2>4, <4>2, <4>3
    <3> QED
      BY <3>1, <3>2
  <2>13. RecordedOnce'
    <3> SUFFICES ASSUME NEW q \in recorded', NEW r \in recorded', q.name = r.name, q.tdate = r.tdate
                 PROVE  q = r
      BY DEF RecordedOnce
    <3>1. \A x \in recorded : x.name = b => x.tdate # T
      BY <2>8, <2>9, <2>10
    <3> QED
      BY <2>4, <2>7, <3>1 DEF RecordedOnce
  <2>14. Unbroken'
    <3> SUFFICES ASSUME NEW r \in recorded', Kind[r.name] \in {"base", "cycle"}, NEW t \in Time,
                        r.tdate <= t, t % Cycle(r.name) = 0,
                        NEW x \in recorded', x.name = r.name, x.boot = r.boot, x.tdate > t
                 PROVE  \E q \in recorded' : q.name = r.name /\ q.boot = r.boot /\ q.tdate = t
      BY DEF Unbroken, Cycle
    <3>1. t \in Nat
      BY ConstantFacts
    <3>2. r \in recorded
      <4> SUFFICES ASSUME r = new PROVE FALSE
        BY <2>4
      <4>1. r.name = b /\ T <= t
        BY <2>7
      <4>2. x.tdate <= T /\ x.tdate \in Int
        <5>1. CASE x = new
          BY <2>7, <2>8, <5>1
        <5>2. CASE x \in recorded
          BY <2>8, <2>9, <2>10, <4>1, <5>2
        <5> QED
          BY <2>4, <5>1, <5>2
      <4> QED
        BY <2>8, <3>1, <4>1, <4>2
    <3>3. ASSUME NEW y \in recorded, y.name = r.name, y.boot = r.boot, y.tdate > t
          PROVE  \E q \in recorded' : q.name = r.name /\ q.boot = r.boot /\ q.tdate = t
      BY <2>4, <3>2, <3>3 DEF Unbroken
    <3>4. CASE x \in recorded
      BY <3>3, <3>4
    <3>5. CASE x = new
      <4>1. r.name = b /\ r.boot = boot /\ t < T
        BY <2>7, <2>8, <3>1, <3>5
      <4>2. PICK q \in recorded : /\ q.name = r.name /\ q.boot = boot
                                  /\ q.tdate + Interval[q.name].rec = LastMoment(q.name)
        BY <3>2, <4>1 DEF Newest
      <4>3. q.tdate + R = M /\ q.tdate \in Nat
        BY <2>9, <4>1, <4>2 DEF R, M
      <4>4. t + C <= T
        <5>1. t \in Int /\ t % C = 0
          BY <3>1, <4>1 DEF C
        <5> QED
          BY <2>2, <2>3, <2>8, <4>1, <5>1, MultipleBefore
      <4>5. t <= q.tdate
        BY <2>2, <2>3, <3>1, <4>3, <4>4
      <4>6. CASE t = q.tdate
        BY <2>4, <4>1, <4>2, <4>6
      <4>7. CASE t # q.tdate
        <5>1. q.tdate > t
          BY <3>1, <4>3, <4>5, <4>7
        <5> QED
          BY <3>3, <4>1, <4>2, <5>1
      <4> QED
        BY <4>6, <4>7
    <3> QED
      BY <2>4, <3>4, <3>5
  <2> QED
    BY <2>11, <2>12, <2>13, <2>14
<1> QED
  BY <1>5, <1>6


LEMMA InitPunctual == Init => PunctualInv
<1> SUFFICES ASSUME Init PROVE PunctualInv
  OBVIOUS
<1>0. TypeOK
  BY InitInv
<1>1. recorded = {}
  BY DEF Init
<1>2. \A b \in Bao : /\ last_record_check_time[b] = now /\ last_report_check_time[b] = now
                     /\ ~record_enable[b]
  BY DEF Init
<1>3. Punctual
  <2> SUFFICES ASSUME NEW n \in 1..Len(Order), Timed(Order[n]) PROVE OnTime(Order[n], Lag(n))
    BY DEF Punctual
  <2> DEFINE b == Order[n]
  <2>1. b \in Bao /\ now \in Nat /\ Lag(n) \in Nat
    BY <1>0, LagType, OrderFacts, ConstantFacts
  <2>2. now \in Int
    BY <2>1
  <2>3. now < Moment(b, now) + Cycle(b) /\ Moment(b, now) \in Int /\ Cycle(b) \in Nat
    BY <2>1, <2>2, MomentForm
  <2>4. LastMoment(b) = Moment(b, now)
    BY <1>2, <2>1 DEF LastMoment
  <2>5. now <= now /\ now < Moment(b, now) + Cycle(b) + Lag(n)
    BY <2>1, <2>3
  <2> HIDE DEF b
  <2>6. OnTime(b, Lag(n))
    BY <1>2, <2>1, <2>3, <2>4, <2>5 DEF OnTime
  <2> QED
    BY <2>6 DEF b
<1>4. Filed /\ Newest /\ RecordedOnce /\ Unbroken
  BY <1>1 DEF Filed, Newest, RecordedOnce, Unbroken
<1> QED
  BY <1>3, <1>4 DEF PunctualInv

\* The steps that only let time pass.
LEMMA LaterRecords ==
    ASSUME TypeOK, TypeOK', ShortRounds, PunctualInv, Punctual',
           UNCHANGED <<last_record_check_time, recorded, boot>>
    PROVE  PunctualInv'
<1>1. \A b \in Bao : Active(b) => last_record_check_time[b] <= last_record_check_time'[b]
  BY ActiveTimed, TimerFacts
<1>2. (Filed /\ Newest /\ RecordedOnce /\ Unbroken)'
  BY <1>1, NoRecord DEF PunctualInv
<1> QED
  BY <1>2 DEF PunctualInv

LEMMA RestartRecords ==
    ASSUME TypeOK, TypeOK', Stage, ShortRounds, PunctualInv, Restart
    PROVE  PunctualInv'
<1>1. Punctual'
  BY RestartPunctual
<1>2. /\ recorded' = recorded /\ boot' = boot + 1
      /\ \E d \in 1..MaxPause : now' = Later(now, d) /\ FreshObjects(Later(now, d))
  BY DEF Restart
<1>3. now <= now' /\ now' \in Nat
  <2>1. \A d \in 1..MaxPause : Later(now, d) \in Time /\ now <= Later(now, d)
    BY ClockForward
  <2> QED
    BY <1>2, <2>1, ConstantFacts
<1>4. ASSUME NEW b \in Bao, Active(b)
      PROVE  last_record_check_time[b] <= last_record_check_time'[b]
  <2>1. last_record_check_time'[b] = now'
    BY <1>2 DEF FreshObjects
  <2>2. PICK n \in 1..Len(Order) : b = Order[n]
    BY DEF Bao
  <2>3. last_record_check_time[b] <= now
    BY <1>4, <2>2, ActiveTimed DEF PunctualInv, Punctual, OnTime
  <2>4. last_record_check_time[b] \in Nat /\ now \in Nat
    BY <1>4, ActiveTimed, TimerFacts, OrderFacts
  <2> QED
    BY <1>3, <2>1, <2>3, <2>4
<1>5. \A r \in recorded : r.boot # boot'
  <2>1. boot \in Nat /\ \A r \in recorded : r.boot \in Nat /\ r.boot <= boot
    BY DEF TypeOK, Recorded, Stage
  <2> QED
    BY <1>2, <2>1
<1>6. (Filed /\ Newest /\ RecordedOnce /\ Unbroken)'
  BY <1>2, <1>4, <1>5, NoRecord DEF PunctualInv
<1> QED
  BY <1>1, <1>6 DEF PunctualInv

\* poll() comes in time for every object whose period is longer than a round.
LEMMA NextOnTime ==
    ASSUME ClockSets = {}, TypeOK, ReportInv, Punctual, [Next]_vars
    PROVE  Punctual'
<1>0. TypeOK' /\ Stage /\ Stage'
  BY NextInv DEF ReportInv
<1>1. ASSUME NEW b \in Bao, Poll(b) PROVE Punctual'
  BY <1>0, <1>1, PollPunctual
<1>2. ASSUME UNCHANGED <<now, i, last_record_check_time, last_report_check_time, record_enable>>,
             phase' = phase \/ (phase = "due" /\ phase' = "wait")
      PROVE  Punctual'
  <2>1. \A n \in 1..Len(Order) : now' - now <= Lag(n)' - Lag(n)
    <3> SUFFICES ASSUME NEW n \in 1..Len(Order) PROVE now' - now <= Lag(n)' - Lag(n)
      OBVIOUS
    <3>1. Lag(n)' = Lag(n)
      BY <1>2 DEF Lag
    <3>2. Lag(n) \in Nat /\ now \in Nat
      BY LagType, OrderFacts
    <3> QED
      BY <1>2, <3>1, <3>2
  <2>2. now <= now'
    BY <1>2, OrderFacts
  <2> QED
    BY <1>0, <1>2, <2>1, <2>2, LaterPunctual
<1>3. ASSUME NEW b \in Bao, Report(b) PROVE Punctual'
  BY <1>2, <1>3 DEF Report
<1>4. ASSUME NEW b \in Bao, ReportOk(b) \/ ReportFail(b) PROVE Punctual'
  <2>1. phase = "wait" /\ EndReport(b)
    BY <1>4 DEF ReportOk, ReportFail
  <2>2. now <= now' /\ now' <= now + MaxWait
    <3>1. \A d \in 0..MaxWait : now <= Later(now, d) /\ Later(now, d) <= now + MaxWait
      BY LaterBound, TimeAssumption
    <3>2. now <= now /\ now <= now + MaxWait
      BY OrderFacts
    <3> QED
      BY <1>4, <3>1, <3>2 DEF ReportOk, ReportFail
  <2> QED
    BY <1>0, <2>1, <2>2, EndPunctual
<1>5. CASE NextRound
  <2>1. /\ phase = "poll" /\ phase' = "poll" /\ i = Len(Order) + 1 /\ i' = 1
        /\ UNCHANGED <<last_record_check_time, last_report_check_time, record_enable>>
    BY <1>5 DEF NextRound, AfterLoop, upVars
  <2>2. now <= now' /\ now' <= now + MaxPause /\ now' \in Nat
    <3>1. \A d \in 0..MaxPause : /\ Later(now, d) \in Nat /\ now <= Later(now, d)
                                 /\ Later(now, d) <= now + MaxPause
      BY LaterBound, OrderFacts
    <3>2. \A d \in 1..MaxPause : d \in 0..MaxPause
      BY OrderFacts
    <3> QED
      BY <1>5, <3>1, <3>2 DEF NextRound
  <2>3. \A n \in 1..Len(Order) : now' - now <= Lag(n)' - Lag(n)
    <3> SUFFICES ASSUME NEW n \in 1..Len(Order) PROVE now' - now <= Lag(n)' - Lag(n)
      OBVIOUS
    <3>1. Lag(n)' = Lag(n) + MaxPause
      BY <2>1, LagRound
    <3>2. Lag(n) \in Nat /\ now \in Nat /\ MaxPause \in Nat
      BY LagType, OrderFacts
    <3> QED
      BY <2>2, <3>1, <3>2
  <2> QED
    BY <1>0, <2>1, <2>2, <2>3, LaterPunctual
<1>6. CASE ClearHistory \/ JiaFlag \/ FreezeData \/ UNCHANGED vars
  BY <1>2, <1>6 DEF ClearHistory, JiaFlag, FreezeData, vars, upVars
<1>7. CASE SetTime
  BY <1>7 DEF SetTime
<1>8. CASE PowerLoss \/ NullSendMode
  BY <1>0, <1>8, RestartPunctual DEF PowerLoss, NullSendMode
<1> QED
  BY <1>1, <1>3, <1>4, <1>5, <1>6, <1>7, <1>8 DEF Next, UpThread

LEMMA NextPunctual ==
    ASSUME ClockSets = {}, ShortRounds, TypeOK, ReportInv, PunctualInv, [Next]_vars
    PROVE  PunctualInv'
<1>0. TypeOK' /\ Stage /\ Stage' /\ Punctual /\ Punctual'
  BY NextInv, NextOnTime DEF ReportInv, PunctualInv
<1>1. ASSUME NEW b \in Bao, Poll(b) PROVE PunctualInv'
  BY <1>0, <1>1, PollRecords DEF PunctualInv
<1>2. ASSUME UNCHANGED <<last_record_check_time, recorded, boot>> PROVE PunctualInv'
  BY <1>0, <1>2, LaterRecords
<1>3. ASSUME NEW b \in Bao, Report(b) \/ ReportOk(b) \/ ReportFail(b) PROVE PunctualInv'
  BY <1>2, <1>3 DEF Report, ReportOk, ReportFail, EndReport
<1>4. CASE NextRound \/ ClearHistory \/ JiaFlag \/ FreezeData \/ UNCHANGED vars
  BY <1>2, <1>4 DEF NextRound, ClearHistory, JiaFlag, FreezeData, vars, upVars
<1>5. CASE SetTime
  BY <1>5 DEF SetTime
<1>6. CASE PowerLoss \/ NullSendMode
  BY <1>0, <1>6, RestartRecords DEF PowerLoss, NullSendMode
<1> QED
  BY <1>1, <1>3, <1>4, <1>5, <1>6 DEF Next, UpThread

\* A period is recorded at most once, restarts included, for every vector of
\* reports whose rounds are short against their periods, as long as the centre
\* does not set the clock.
THEOREM NoPeriodTwice ==
    ASSUME ClockSets = {}, ShortRounds
    PROVE  Spec => []RecordedOnce
<1>1. Init => TypeOK /\ ReportInv /\ PunctualInv
  BY InitInv, InitPunctual
<1>2. TypeOK /\ ReportInv /\ PunctualInv /\ [Next]_vars => (TypeOK /\ ReportInv /\ PunctualInv)'
  BY NextInv, NextPunctual
<1>3. PunctualInv => RecordedOnce
  BY DEF PunctualInv
<1> QED
  BY <1>1, <1>2, <1>3, PTL DEF Spec

\* Nor do the periodic reports leave a period out while the process lives, under
\* the same conditions: reports that block the loop delay a record, but never
\* past the end of its period.
THEOREM NoPeriodMissed ==
    ASSUME ClockSets = {}, ShortRounds
    PROVE  Spec => []NoPeriodSkipped
<1>1. Init => TypeOK /\ ReportInv /\ PunctualInv
  BY InitInv, InitPunctual
<1>2. TypeOK /\ ReportInv /\ PunctualInv /\ [Next]_vars => (TypeOK /\ ReportInv /\ PunctualInv)'
  BY NextInv, NextPunctual
<1>3. TypeOK /\ PunctualInv => NoPeriodSkipped
  <2> SUFFICES ASSUME TypeOK, PunctualInv, NEW r \in recorded,
                      Kind[r.name] \in {"base", "cycle"}, NEW t \in r.tdate..now,
                      \E q \in recorded : q.name = r.name /\ q.boot = r.boot /\ q.tdate > t,
                      t % Cycle(r.name) = 0
               PROVE  \E q \in recorded : q.name = r.name /\ q.boot = r.boot /\ q.tdate = t
    BY DEF NoPeriodSkipped
  <2>1. t \in Time /\ r.tdate <= t
    <3>1. now \in Time /\ r.tdate \in Time
      BY DEF TypeOK, Recorded
    <3> QED
      BY <3>1, TimeAssumption DEF Time
  <2> QED
    BY <2>1 DEF PunctualInv, Unbroken
<1> QED
  BY <1>1, <1>2, <1>3, PTL DEF Spec

-----------------------------------------------------------------------------
(* The reporting cycle implements ReportLedger: under the mapping of          *)
(* ReportCycle every step is a step of the books, or leaves them alone.       *)


LEMMA KeyOfFacts ==
    /\ \A b, c, t, u : KeyOf(b, t) = KeyOf(c, u) <=> b = c /\ t = u
    /\ \A b \in Backfilled, t \in Time : KeyOf(b, t) \in Key
    /\ \A k \in Key : /\ k.name \in Backfilled /\ k.tdate \in Time
                      /\ k = KeyOf(k.name, k.tdate)
<1>1. ASSUME NEW b, NEW c, NEW t, NEW u
      PROVE  KeyOf(b, t) = KeyOf(c, u) <=> b = c /\ t = u
  <2>1. /\ KeyOf(b, t).name = b /\ KeyOf(b, t).tdate = t
        /\ KeyOf(c, u).name = c /\ KeyOf(c, u).tdate = u
    BY DEF KeyOf
  <2> QED
    BY <2>1
<1>2. \A b \in Backfilled, t \in Time : KeyOf(b, t) \in Key
  BY DEF KeyOf, Key
<1>3. \A k \in Key : /\ k.name \in Backfilled /\ k.tdate \in Time
                     /\ k = KeyOf(k.name, k.tdate)
  BY DEF KeyOf, Key
<1> QED
  BY <1>1, <1>2, <1>3

\* The debts of a table are its valid rows.
LEMMA DebtsFacts ==
    ASSUME NEW q \in Seq(BuRow)
    PROVE  /\ Debts(q) \subseteq Key
           /\ \A b, t : KeyOf(b, t) \in Debts(q) <=> Owes(q, b, t)
<1>1. \A n \in 1..Len(q) : q[n] \in BuRow
  OBVIOUS
<1>2. \A n \in ValidRows(q) : q[n].name \in Backfilled /\ q[n].tdate \in Time
  BY <1>1 DEF ValidRows, BuRow
<1>3. Debts(q) \subseteq Key
  BY <1>2, KeyOfFacts DEF Debts
<1>4. ASSUME NEW b, NEW t
      PROVE  KeyOf(b, t) \in Debts(q) <=> Owes(q, b, t)
  <2>1. KeyOf(b, t) \in Debts(q)
           <=> \E n \in ValidRows(q) : KeyOf(b, t) = KeyOf(q[n].name, q[n].tdate)
    BY DEF Debts
  <2>2. \A n \in ValidRows(q) :
           KeyOf(b, t) = KeyOf(q[n].name, q[n].tdate) <=> Matches(q[n], b, t)
    BY KeyOfFacts DEF Matches
  <2> QED
    BY <2>1, <2>2 DEF Owes
<1> QED
  BY <1>3, <1>4

\* bu_add_one_record adds its debt, bu_invalid_one_record strikes its debt off.
LEMMA UpdateBuDebts ==
    \A q \in Seq(BuRow), b \in Backfilled, t \in Time :
        /\ Debts(UpdateBu(q, b, t, TRUE)) = Debts(q) \cup {KeyOf(b, t)}
        /\ Debts(UpdateBu(q, b, t, FALSE)) = Debts(q) \ {KeyOf(b, t)}
<1> SUFFICES ASSUME NEW q \in Seq(BuRow), NEW b \in Backfilled, NEW t \in Time,
                    NEW v \in BOOLEAN
             PROVE  Debts(UpdateBu(q, b, t, v)) = IF v THEN Debts(q) \cup {KeyOf(b, t)}
                                                  ELSE Debts(q) \ {KeyOf(b, t)}
  BY Zenon
<1> DEFINE p == UpdateBu(q, b, t, v)
<1>1. p \in Seq(BuRow)
  BY UpdateBuType
<1>2. \A c, u : Owes(p, c, u) <=> IF c = b /\ u = t THEN v ELSE Owes(q, c, u)
  BY UpdateBuOwes
<1> HIDE DEF p
<1>3. /\ Debts(p) \subseteq Key /\ Debts(q) \subseteq Key
      /\ \A c, u : KeyOf(c, u) \in Debts(p) <=> Owes(p, c, u)
      /\ \A c, u : KeyOf(c, u) \in Debts(q) <=> Owes(q, c, u)
  BY <1>1, DebtsFacts
<1>4. KeyOf(b, t) \in Key
  BY KeyOfFacts
<1>5. \A k \in Key : k \in Debts(p) <=> IF k = KeyOf(b, t) THEN v ELSE k \in Debts(q)
  <2> SUFFICES ASSUME NEW k \in Key
               PROVE  k \in Debts(p) <=> IF k = KeyOf(b, t) THEN v ELSE k \in Debts(q)
    OBVIOUS
  <2>1. k = KeyOf(k.name, k.tdate)
    BY KeyOfFacts
  <2>2. k = KeyOf(b, t) <=> k.name = b /\ k.tdate = t
    BY <2>1, KeyOfFacts
  <2>3. k \in Debts(p) <=> Owes(p, k.name, k.tdate)
    BY <1>3, <2>1
  <2>4. k \in Debts(q) <=> Owes(q, k.name, k.tdate)
    BY <1>3, <2>1
  <2> QED
    BY <1>2, <2>2, <2>3, <2>4
<1>6. Debts(p) = IF v THEN Debts(q) \cup {KeyOf(b, t)} ELSE Debts(q) \ {KeyOf(b, t)}
  BY <1>3, <1>4, <1>5
<1> QED
  BY <1>6 DEF p

LEMMA StruckOff ==
    \A q \in Seq(BuRow), b \in Backfilled, t \in Time :
        Debts(UpdateBu(q, b, t, FALSE)) = Debts(q) \ {KeyOf(b, t)}
BY UpdateBuDebts, Zenon

\* Two states with the same flags and periods have the same pending reports.
LEMMA SamePending ==
    ASSUME \A c \in Backfilled : /\ Waiting(c)' <=> Waiting(c)
                                 /\ Waiting(c) => record_time'[c] = record_time[c]
    PROVE  PendingKeys' = PendingKeys
<1>1. PendingKeys' = {KeyOf(c, record_time'[c]) : c \in {d \in Backfilled : Waiting(d)'}}
  BY DEF PendingKeys, KeyOf
<1>2. \A c \in Backfilled : Waiting(c)' <=> Waiting(c)
  OBVIOUS
<1>3. \A c \in Backfilled : Waiting(c) => KeyOf(c, record_time'[c]) = KeyOf(c, record_time[c])
  OBVIOUS
<1> QED
  BY <1>1, <1>2, <1>3 DEF PendingKeys

\* Only a report with backfill that was waiting, and no longer is, leaves.
LEMMA OneLessPending ==
    ASSUME NEW b \in Backfilled, Waiting(b), ~Waiting(b)',
           \A c \in Backfilled \ {b} : /\ Waiting(c)' <=> Waiting(c)
                                       /\ record_time'[c] = record_time[c]
    PROVE  /\ KeyOf(b, record_time[b]) \in PendingKeys
           /\ PendingKeys' = PendingKeys \ {KeyOf(b, record_time[b])}
<1> DEFINE k == KeyOf(b, record_time[b])
<1>1. k \in PendingKeys
  BY DEF PendingKeys
<1>2. \A c \in Backfilled : Waiting(c)' <=> Waiting(c) /\ c # b
  OBVIOUS
<1>3. PendingKeys' = {KeyOf(c, record_time[c]) : c \in {d \in Backfilled : Waiting(d) /\ d # b}}
  <2>1. PendingKeys' = {KeyOf(c, record_time'[c]) : c \in {d \in Backfilled : Waiting(d)'}}
    BY DEF PendingKeys, KeyOf
  <2> QED
    BY <1>2, <2>1
<1>4. \A c \in Backfilled : KeyOf(c, record_time[c]) = k <=> c = b
  BY KeyOfFacts
<1> QED
  BY <1>1, <1>3, <1>4 DEF PendingKeys

\* One report with backfill that was not waiting joins the others.
LEMMA OneMorePending ==
    ASSUME NEW b \in Backfilled, ~Waiting(b), Waiting(b)',
           \A c \in Backfilled \ {b} : /\ Waiting(c)' <=> Waiting(c)
                                       /\ record_time'[c] = record_time[c]
    PROVE  PendingKeys' = PendingKeys \cup {KeyOf(b, record_time'[b])}
<1>1. PendingKeys' = {KeyOf(c, record_time'[c]) : c \in {d \in Backfilled : Waiting(d)'}}
  BY DEF PendingKeys, KeyOf
<1>2. \A c \in Backfilled : Waiting(c)' <=> Waiting(c) \/ c = b
  OBVIOUS
<1> QED
  BY <1>1, <1>2 DEF PendingKeys

-----------------------------------------------------------------------------
(* The steps of the reporting cycle.                                          *)

\* poll() records a report with backfill, or leaves the books alone.
LEMMA PollLedger ==
    ASSUME TypeOK, ReportInv, NEW b \in Bao, Poll(b)
    PROVE  \/ \E k \in Key : Ledger!Record(k)
           \/ UNCHANGED Ledger!ledger
<1>1. UNCHANGED <<bu, acked, cleared>>
  BY DEF Poll
<1>2. UNCHANGED <<Debts(bu), SettledKeys, cleared>>
  BY <1>1 DEF SettledKeys
<1>3. /\ \A c \in Bao \ {b} : (Waiting(c)' <=> Waiting(c)) /\ record_time'[c] = record_time[c]
      /\ Waiting(b)' <=> record_enable[b] \/ record_check(b)
      /\ Waiting(b) <=> record_enable[b]
      /\ record_check(b) => ~record_enable[b]
      /\ record_check(b) /\ Stores(b) => record_time'[b] = PeriodOf(b)
      /\ ~(record_check(b) /\ Stores(b)) => record_time'[b] = record_time[b]
  BY PollFlags DEF ReportInv, Waiting
<1>4. CASE b \in Backfilled /\ record_check(b)
  <2>1. Stores(b)
    BY <1>4 DEF Stores, Backfilled
  <2>2. PendingKeys' = PendingKeys \cup {KeyOf(b, record_time'[b])}
    BY <1>3, <1>4, OneMorePending, ConstantFacts
  <2>3. KeyOf(b, record_time'[b]) \in Key
    <3>1. PeriodOf(b) \in Time
      BY <1>4, CycleFacts DEF record_check, RecordTimer, PeriodOf, TypeOK
    <3> QED
      BY <1>3, <1>4, <2>1, <3>1, KeyOfFacts
  <2> QED
    BY <1>2, <2>2, <2>3 DEF Ledger!Record
<1>5. CASE ~(b \in Backfilled /\ record_check(b))
  <2>1. PendingKeys' = PendingKeys
    BY <1>3, <1>5, SamePending, ConstantFacts
  <2> QED
    BY <1>2, <2>1 DEF Ledger!ledger
<1> QED
  BY <1>4, <1>5

\* report_data gives a row up only when its table has lost the snapshot, which
\* takes an erased history.
LEMMA GivesUp ==
    ASSUME TypeOK, ReportInv, phase # "poll", Kind[Order[i]] = "bu", Missing
    PROVE  /\ cleared /\ KeyOf(m.name, m.tdate) \in Key
           /\ Debts(UpdateBu(bu, m.name, m.tdate, FALSE))
                = Debts(bu) \ {KeyOf(m.name, m.tdate)}
<1>1. Order[i] \in Bao /\ report_enable[Order[i]] /\ m.name \in Backfilled /\ m.tdate \in Time
  BY UnderWay DEF ReportInv
<1>2. cleared
  BY <1>1, NotMissing DEF Missing
<1>3. bu \in Seq(BuRow)
  BY DEF TypeOK
<1>4. m.name \in Backfilled /\ m.tdate \in Time
  BY <1>1
<1>5. KeyOf(m.name, m.tdate) \in Key
  BY <1>4, KeyOfFacts
<1>6. Debts(UpdateBu(bu, m.name, m.tdate, FALSE)) = Debts(bu) \ {KeyOf(m.name, m.tdate)}
  BY <1>3, <1>4, StruckOff, Zenon
<1> QED
  BY <1>2, <1>5, <1>6

LEMMA ReportLedgerStep ==
    ASSUME TypeOK, ReportInv, NEW b \in Bao, Report(b)
    PROVE  \/ \E k \in Key : Ledger!Void(k)
           \/ UNCHANGED Ledger!ledger
<1>1. /\ phase = "due" /\ b = Order[i] /\ report_data(b)
      /\ UNCHANGED <<record_enable, report_enable, record_time, cleared, acked>>
  BY DEF Report
<1>2. UNCHANGED <<PendingKeys, SettledKeys, cleared>>
  BY <1>1 DEF SettledKeys, PendingKeys, Waiting, KeyOf
<1>3. CASE Kind[b] = "bu" /\ Missing
  <2>1. bu' = UpdateBu(bu, m.name, m.tdate, FALSE)
    BY <1>1, <1>3 DEF report_data
  <2>2. /\ cleared /\ KeyOf(m.name, m.tdate) \in Key
        /\ Debts(bu') = Debts(bu) \ {KeyOf(m.name, m.tdate)}
    BY <1>1, <1>3, <2>1, GivesUp
  <2>3. Debts(bu)' = Debts(bu')
    BY DEF Debts, KeyOf, ValidRows
  <2> QED
    BY <1>2, <2>2, <2>3 DEF Ledger!Void
<1>4. CASE ~(Kind[b] = "bu" /\ Missing)
  <2>1. bu' = bu
    BY <1>1, <1>4 DEF report_data
  <2>2. Debts(bu)' = Debts(bu)
    BY <2>1
  <2> QED
    BY <1>2, <2>2 DEF Ledger!ledger
<1> QED
  BY <1>3, <1>4

\* The end of a report: only its own object no longer waits.
LEMMA EndReportPending ==
    ASSUME TypeOK, ReportInv, NEW b \in Bao, phase = "wait", b = Order[i], EndReport(b)
    PROVE  /\ b \in Backfilled =>
                 /\ KeyOf(b, record_time[b]) \in PendingKeys \cap Key
                 /\ PendingKeys' = PendingKeys \ {KeyOf(b, record_time[b])}
           /\ b \notin Backfilled => PendingKeys' = PendingKeys
           /\ cleared' = cleared
<1>1. /\ report_enable' = [report_enable EXCEPT ![b] = FALSE]
      /\ UNCHANGED <<record_enable, record_time, cleared>>
  BY DEF EndReport
<1>2. report_enable[b] /\ ~record_enable[b] /\ record_time[b] \in Time
  BY UnderWay DEF TypeOK, ReportInv
<1>3. \A c \in Bao \ {b} : Waiting(c)' <=> Waiting(c)
  BY <1>1 DEF Waiting, TypeOK
<1>4. Waiting(b) /\ ~Waiting(b)'
  BY <1>1, <1>2 DEF Waiting, TypeOK
<1>5. CASE b \in Backfilled
  BY <1>1, <1>2, <1>3, <1>4, <1>5, OneLessPending, KeyOfFacts, ConstantFacts
<1>6. CASE b \notin Backfilled
  BY <1>1, <1>3, <1>6, SamePending, ConstantFacts
<1> QED
  BY <1>1, <1>5, <1>6

\* One more report is confirmed.
LEMMA OneMoreSettled ==
    ASSUME NEW b, NEW t, NEW d, NEW by, NEW o,
           acked' = acked \cup
              {[name |-> b, tdate |-> t, data |-> d, by |-> by, observetime |-> o]}
    PROVE  SettledKeys' = IF b \in Backfilled THEN SettledKeys \cup {KeyOf(b, t)}
                          ELSE SettledKeys
<1> DEFINE a == [name |-> b, tdate |-> t, data |-> d, by |-> by, observetime |-> o]
<1>1. a.name = b /\ a.tdate = t /\ acked' = acked \cup {a}
  OBVIOUS
<1> HIDE DEF a
<1>2. SettledKeys' = {KeyOf(x.name, x.tdate) : x \in {y \in acked' : y.name \in Backfilled}}
  BY DEF SettledKeys, KeyOf
<1> QED
  BY <1>1, <1>2 DEF SettledKeys

\* A confirmed report is delivered, or it pays a debt: the one of the row that
\* bubao replayed.
LEMMA ReportOkLedger ==
    ASSUME TypeOK, ReportInv, NEW b \in Bao, ReportOk(b)
    PROVE  \/ \E k \in Key : Ledger!Deliver(k) \/ Ledger!Replay(k) \/ Ledger!Void(k)
           \/ UNCHANGED Ledger!ledger
<1>1. /\ phase = "wait" /\ b = Order[i] /\ EndReport(b)
      /\ bu' = IF Kind[b] = "bu" THEN UpdateBu(bu, m.name, m.tdate, FALSE) ELSE bu
  BY DEF ReportOk
<1>2. /\ report_enable[b] /\ m.tdate \in Time
      /\ Kind[b] = "bu" => m.name \in Backfilled
      /\ b \in Backfilled => Kind[b] # "bu" /\ Kind[b] # "raw"
  BY <1>1, UnderWay DEF ReportInv
<1>3. /\ b \in Backfilled => /\ KeyOf(b, record_time[b]) \in PendingKeys \cap Key
                             /\ PendingKeys' = PendingKeys \ {KeyOf(b, record_time[b])}
      /\ b \notin Backfilled => PendingKeys' = PendingKeys
      /\ cleared' = cleared
  BY <1>1, EndReportPending
<1>4. Debts(bu)' = Debts(bu')
  BY DEF Debts, KeyOf, ValidRows
<1>5. CASE b \in Backfilled
  <2>1. acked' = acked \cup {[name |-> b, tdate |-> record_time[b], data |-> sent,
                             by |-> b, observetime |-> record_time[b]]}
    BY <1>2, <1>5 DEF ReportOk, NothingToSend, ObserveTime
  <2>2. SettledKeys' = SettledKeys \cup {KeyOf(b, record_time[b])}
    BY <1>5, <2>1, OneMoreSettled
  <2>3. Debts(bu)' = Debts(bu)
    BY <1>1, <1>2, <1>4, <1>5
  <2> QED
    BY <1>3, <1>5, <2>2, <2>3 DEF Ledger!Deliver
<1>6. CASE Kind[b] = "bu"
  <2>1. b \notin Backfilled
    BY <1>2, <1>6
  <2>2. bu \in Seq(BuRow) /\ bu' = UpdateBu(bu, m.name, m.tdate, FALSE)
    BY <1>1, <1>6 DEF TypeOK
  <2>3. Debts(bu)' = Debts(bu) \ {KeyOf(m.name, m.tdate)}
    <3>1. Debts(UpdateBu(bu, m.name, m.tdate, FALSE)) = Debts(bu) \ {KeyOf(m.name, m.tdate)}
      BY <1>2, <1>6, <2>2, StruckOff, Zenon
    <3> QED
      BY <1>4, <2>2, <3>1
  <2>4. KeyOf(m.name, m.tdate) \in Key
    BY <1>2, <1>6, KeyOfFacts
  <2>5. CASE sent = NoData
    <3>1. cleared
      BY <1>1, <1>6, <2>5 DEF ReportInv, Stored
    <3>2. acked' = acked
      BY <1>6, <2>5 DEF ReportOk, NothingToSend
    <3>3. SettledKeys' = SettledKeys
      BY <3>2 DEF SettledKeys
    <3> QED
      BY <1>3, <2>1, <2>3, <2>4, <3>1, <3>3 DEF Ledger!Void
  <2>6. CASE sent # NoData
    <3>1. acked' = acked \cup {[name |-> m.name, tdate |-> m.tdate, data |-> sent,
                               by |-> b, observetime |-> record_time[b]]}
      BY <1>6, <2>6 DEF ReportOk, NothingToSend, ObserveTime
    <3>2. SettledKeys' = SettledKeys \cup {KeyOf(m.name, m.tdate)}
      BY <1>2, <1>6, <3>1, OneMoreSettled
    <3>3. KeyOf(m.name, m.tdate) \in Debts(bu) \/ cleared
      <4>1. ~cleared => Owes(bu, m.name, m.tdate)
        BY <1>2, <1>6 DEF ReportInv, Replaying
      <4> QED
        BY <2>2, <4>1, DebtsFacts
    <3> QED
      BY <1>3, <2>1, <2>3, <2>4, <3>2, <3>3 DEF Ledger!Replay
  <2> QED
    BY <2>5, <2>6
<1>7. CASE b \notin Backfilled /\ Kind[b] # "bu"
  <2>1. \/ acked' = acked
        \/ acked' = acked \cup {[name |-> b, tdate |-> record_time[b], data |-> sent,
                                by |-> b, observetime |-> record_time[b]]}
    BY <1>7 DEF ReportOk, ObserveTime
  <2>2. SettledKeys' = SettledKeys
    <3>1. acked' = acked => SettledKeys' = SettledKeys
      BY DEF SettledKeys
    <3> QED
      BY <1>7, <2>1, <3>1, OneMoreSettled
  <2>3. Debts(bu)' = Debts(bu)
    BY <1>1, <1>4, <1>7
  <2> QED
    BY <1>3, <1>7, <2>2, <2>3 DEF Ledger!ledger
<1> QED
  BY <1>5, <1>6, <1>7

\* A report with backfill that failed becomes a debt.
LEMMA ReportFailLedger ==
    ASSUME TypeOK, ReportInv, NEW b \in Bao, ReportFail(b)
    PROVE  \/ \E k \in Key : Ledger!Owe(k)
           \/ UNCHANGED Ledger!ledger
<1>1. /\ phase = "wait" /\ b = Order[i] /\ EndReport(b) /\ acked' = acked
      /\ bu' = IF b \in Backfilled THEN UpdateBu(bu, b, record_time[b], TRUE) ELSE bu
  BY DEF ReportFail
<1>2. /\ b \in Backfilled => /\ KeyOf(b, record_time[b]) \in PendingKeys \cap Key
                             /\ PendingKeys' = PendingKeys \ {KeyOf(b, record_time[b])}
      /\ b \notin Backfilled => PendingKeys' = PendingKeys
      /\ cleared' = cleared
  BY <1>1, EndReportPending
<1>3. SettledKeys' = SettledKeys
  BY <1>1 DEF SettledKeys
<1>4. Debts(bu)' = Debts(bu')
  BY DEF Debts, KeyOf, ValidRows
<1>5. CASE b \in Backfilled
  <2>1. bu \in Seq(BuRow) /\ record_time[b] \in Time
    BY DEF TypeOK
  <2>2. Debts(UpdateBu(bu, b, record_time[b], TRUE)) = Debts(bu) \cup {KeyOf(b, record_time[b])}
    BY <1>5, <2>1, UpdateBuDebts, Zenon
  <2>3. Debts(bu)' = Debts(bu) \cup {KeyOf(b, record_time[b])}
    BY <1>1, <1>4, <1>5, <2>2
  <2> QED
    BY <1>2, <1>3, <1>5, <2>3 DEF Ledger!Owe
<1>6. CASE b \notin Backfilled
  <2>1. Debts(bu)' = Debts(bu)
    BY <1>1, <1>4, <1>6
  <2> QED
    BY <1>2, <1>3, <1>6, <2>1 DEF Ledger!ledger
<1> QED
  BY <1>5, <1>6

\* The steps that touch neither the flags nor the tables of reports.
LEMMA QuietLedger ==
    ASSUME NextRound \/ SetTime \/ JiaFlag \/ FreezeData \/ UNCHANGED vars
    PROVE  UNCHANGED Ledger!ledger
<1>1. UNCHANGED <<record_enable, report_enable, record_time, bu, acked, cleared>>
  BY DEF NextRound, SetTime, JiaFlag, FreezeData, upVars, vars
<1>2. UNCHANGED <<PendingKeys, SettledKeys>>
  BY <1>1 DEF SettledKeys, PendingKeys, Waiting, KeyOf
<1>3. Debts(bu)' = Debts(bu)
  BY <1>1
<1> QED
  BY <1>1, <1>2, <1>3 DEF Ledger!ledger

LEMMA ClearHistoryLedger ==
    ASSUME ClearHistory
    PROVE  Ledger!Erase
<1>1. /\ bu' = <<>> /\ cleared' = TRUE
      /\ UNCHANGED <<record_enable, report_enable, record_time, acked>>
  BY DEF ClearHistory, upVars
<1>2. UNCHANGED <<PendingKeys, SettledKeys>>
  BY <1>1 DEF SettledKeys, PendingKeys, Waiting, KeyOf
<1>3. Debts(bu)' = {}
  BY <1>1 DEF Debts, ValidRows
<1> QED
  BY <1>1, <1>2, <1>3 DEF Ledger!Erase

\* A restart loses what is pending and keeps the debts.
LEMMA RestartLedger ==
    ASSUME TypeOK, ReportInv, PowerLoss \/ NullSendMode
    PROVE  Ledger!Restart
<1>1. Restart
  BY DEF PowerLoss, NullSendMode
<1>2. UNCHANGED <<acked, cleared>> /\ \A b \in Bao : ~Waiting(b)'
  BY <1>1 DEF Restart, FreshObjects, Waiting
<1>3. PendingKeys' = {}
  <2>1. PendingKeys' = {KeyOf(c, record_time'[c]) : c \in {d \in Backfilled : Waiting(d)'}}
    BY DEF PendingKeys, KeyOf
  <2> QED
    BY <1>2, <2>1, ConstantFacts
<1>4. SettledKeys' = SettledKeys
  BY <1>2 DEF SettledKeys
<1>5. Debts(bu)' = Debts(bu')
  BY DEF Debts, KeyOf, ValidRows
<1>6. CASE bu' = bu
  BY <1>2, <1>3, <1>4, <1>5, <1>6 DEF Ledger!Restart
<1>7. CASE bu' # bu
  <2>1. /\ phase = "due" /\ Kind[Order[i]] = "bu" /\ Missing
        /\ bu' = UpdateBu(bu, m.name, m.tdate, FALSE)
    BY <1>7 DEF PowerLoss, NullSendMode
  <2>2. /\ cleared /\ KeyOf(m.name, m.tdate) \in Key
        /\ Debts(bu') = Debts(bu) \ {KeyOf(m.name, m.tdate)}
    BY <2>1, GivesUp
  <2> QED
    BY <1>2, <1>3, <1>4, <1>5, <2>2 DEF Ledger!Restart
<1> QED
  BY <1>6, <1>7

\* The reporting cycle implements ReportLedger, whatever the report objects, the
\* intervals and the order of the steps: a recorded report leaves the pending
\* ones only by being confirmed or by becoming a debt, and a debt is struck off
\* only when its replay was confirmed, or after the centre erased the history.
THEOREM KeepsTheBooks == Spec => LedgerSpec
<1>1. Init => Ledger!Init
  <2> SUFFICES ASSUME Init PROVE Ledger!Init
    OBVIOUS
  <2>1. /\ \A b \in Bao : ~Waiting(b)
        /\ bu = <<>> /\ acked = {} /\ cleared = FALSE
    BY DEF Init, Waiting
  <2>2. PendingKeys = {} /\ SettledKeys = {} /\ Debts(bu) = {}
    BY <2>1, ConstantFacts DEF PendingKeys, SettledKeys, Debts, ValidRows
  <2> QED
    BY <2>1, <2>2 DEF Ledger!Init
<1>2. TypeOK /\ ReportInv /\ [Next]_vars => [Ledger!Next]_(Ledger!ledger)
  <2> SUFFICES ASSUME TypeOK, ReportInv, [Next]_vars
               PROVE  Ledger!Next \/ UNCHANGED Ledger!ledger
    OBVIOUS
  <2>1. ASSUME NEW b \in Bao, Poll(b) \/ Report(b)
        PROVE  Ledger!Next \/ UNCHANGED Ledger!ledger
    BY <2>1, PollLedger, ReportLedgerStep DEF Ledger!Next
  <2>2. ASSUME NEW b \in Bao, ReportOk(b) \/ ReportFail(b)
        PROVE  Ledger!Next \/ UNCHANGED Ledger!ledger
    BY <2>2, ReportOkLedger, ReportFailLedger DEF Ledger!Next
  <2>3. CASE NextRound \/ SetTime \/ JiaFlag \/ FreezeData \/ UNCHANGED vars
    BY <2>3, QuietLedger
  <2>4. CASE ClearHistory
    BY <2>4, ClearHistoryLedger DEF Ledger!Next
  <2>5. CASE PowerLoss \/ NullSendMode
    BY <2>5, RestartLedger DEF Ledger!Next
  <2> QED
    BY <2>1, <2>2, <2>3, <2>4, <2>5 DEF Next, UpThread
<1>3. Init => TypeOK /\ ReportInv
  BY InitInv
<1>4. TypeOK /\ ReportInv /\ [Next]_vars => (TypeOK /\ ReportInv)'
  BY NextInv
<1> QED
  BY <1>1, <1>2, <1>3, <1>4, PTL DEF Spec, LedgerSpec, Ledger!LedgerSpec


-----------------------------------------------------------------------------
(* The backlog.                                                              *)

\* The rows that are struck off can be counted.
LEMMA PaidFacts ==
    ASSUME NEW q \in Seq(BuRow)
    PROVE  /\ IsFiniteSet(InvalidRows(q)) /\ Cardinality(InvalidRows(q)) \in Nat
           /\ ValidRows(q) # {} => Cardinality(InvalidRows(q)) <= Len(q) - 1
<1>1. Len(q) \in Nat /\ Len(q) \in Int /\ 1 \in Int
  OBVIOUS
<1>2. IsFiniteSet(1..Len(q)) /\ Cardinality(1..Len(q)) = Len(q)
  BY <1>1, FS_Interval
<1>3. InvalidRows(q) \in SUBSET (1..Len(q))
  BY DEF InvalidRows
<1>4. /\ IsFiniteSet(InvalidRows(q)) /\ Cardinality(InvalidRows(q)) <= Cardinality(1..Len(q))
      /\ Cardinality(1..Len(q)) = Cardinality(InvalidRows(q)) => 1..Len(q) = InvalidRows(q)
  BY <1>2, <1>3, FS_Subset
<1>5. Cardinality(InvalidRows(q)) \in Nat
  BY <1>4, FS_CardinalityType
<1>6. ValidRows(q) # {} => 1..Len(q) # InvalidRows(q)
  BY DEF ValidRows, InvalidRows
<1> QED
  BY <1>1, <1>2, <1>4, <1>5, <1>6

\* Striking a row off loses none of them, and is one more when the row was a
\* debt or was not there.
LEMMA StrikeOff ==
    ASSUME NEW q \in Seq(BuRow), NEW k, k.name \in Backfilled, k.tdate \in Time
    PROVE  LET p == UpdateBu(q, k.name, k.tdate, FALSE)
           IN  /\ Cardinality(InvalidRows(q)) <= Cardinality(InvalidRows(p))
               /\ Untried(q, k) =>
                     Cardinality(InvalidRows(q)) + 1 <= Cardinality(InvalidRows(p))
               /\ ValidRows(p) # {} => ValidRows(q) # {}
<1> DEFINE p == UpdateBu(q, k.name, k.tdate, FALSE)
           new == Row(k.name, k.tdate, FALSE)
<1>0. new.valid = FALSE /\ new \in BuRow
  BY DEF Row, BuRow
<1>3. p \in Seq(BuRow)
  BY UpdateBuType
<1>4. ASSUME InvalidRows(q) \subseteq InvalidRows(p), ValidRows(p) \subseteq ValidRows(q),
             Untried(q, k) => InvalidRows(p) # InvalidRows(q)
      PROVE  /\ Cardinality(InvalidRows(q)) <= Cardinality(InvalidRows(p))
             /\ Untried(q, k) => Cardinality(InvalidRows(q)) + 1 <= Cardinality(InvalidRows(p))
             /\ ValidRows(p) # {} => ValidRows(q) # {}
  <2> HIDE DEF p
  <2> DEFINE S == InvalidRows(p)
             T == InvalidRows(q)
  <2>1. IsFiniteSet(S) /\ Cardinality(S) \in Nat /\ Cardinality(T) \in Nat /\ T \in SUBSET S
    BY <1>3, <1>4, PaidFacts
  <2> HIDE DEF S, T
  <2>2. Cardinality(T) <= Cardinality(S) /\ (Cardinality(S) = Cardinality(T) => S = T)
    BY <2>1, FS_Subset
  <2>3. S # T => Cardinality(T) + 1 <= Cardinality(S)
    BY <2>1, <2>2
  <2> QED
    BY <1>4, <2>2, <2>3 DEF S, T
<1>1. CASE \E n \in 1..Len(q) : Matches(q[n], k.name, k.tdate)
  <2>1. /\ Len(p) = Len(q)
        /\ \A n \in 1..Len(q) : p[n] = IF Matches(q[n], k.name, k.tdate) THEN new ELSE q[n]
    BY <1>1 DEF UpdateBu, Row, BuRow, Matches
  <2> HIDE DEF p, new
  <2>2. InvalidRows(q) \subseteq InvalidRows(p) /\ ValidRows(p) \subseteq ValidRows(q)
    BY <1>0, <2>1 DEF InvalidRows, ValidRows
  <2>3. Untried(q, k) => InvalidRows(p) # InvalidRows(q)
    BY <1>0, <1>1, <2>1 DEF InvalidRows, ValidRows, Untried, Owes
  <2> QED
    BY <1>4, <2>2, <2>3 DEF p
<1>2. CASE ~\E n \in 1..Len(q) : Matches(q[n], k.name, k.tdate)
  <2>1. p = Append(q, new)
    BY <1>2 DEF UpdateBu
  <2>2. /\ Len(p) = Len(q) + 1 /\ Len(q) \in Nat
        /\ \A n \in 1..Len(q) : p[n] = q[n]
        /\ p[Len(q) + 1] = new
    BY <1>2 DEF UpdateBu, Row, BuRow, Matches
  <2> HIDE DEF p, new
  <2>3. InvalidRows(q) \subseteq InvalidRows(p) /\ ValidRows(p) \subseteq ValidRows(q)
    BY <1>0, <2>2 DEF InvalidRows, ValidRows
  <2>4. InvalidRows(p) # InvalidRows(q)
    <3>1. Len(q) + 1 \in InvalidRows(p) /\ Len(q) + 1 \notin InvalidRows(q)
      BY <1>0, <2>2 DEF InvalidRows
    <3> QED
      BY <3>1
  <2> QED
    BY <1>4, <2>3, <2>4 DEF p
<1> QED
  BY <1>1, <1>2


LEMMA DrainNumbers ==
    ASSUME TypeOK, NEW b \in Bao, Timed(b)
    PROVE  /\ Paid \in Nat /\ Outage \in Nat /\ Cycle(b) \in Nat /\ LastMoment(b) \in Int
           /\ Paid * Cycle(b) \in Nat /\ (Paid + 1) * Cycle(b) = Paid * Cycle(b) + Cycle(b)
<1>1. bu \in Seq(BuRow)
  BY DEF TypeOK
<1>2. Paid \in Nat
  BY <1>1, PaidFacts DEF Paid
<1>3. Outage \in Nat
  BY TimeAssumption DEF Outage
<1>4. Cycle(b) \in Nat /\ LastMoment(b) \in Int
  BY TimerFacts
<1> QED
  BY <1>2, <1>3, <1>4, Steps

\* What was acted on during the outage is never late.
LEMMA DrainEarly ==
    ASSUME TypeOK, NEW b \in Bao, Timed(b), LastMoment(b) <= Outage
    PROVE  Draining(b)
BY DrainNumbers DEF Draining

\* A row that is struck off makes room for one more period.
LEMMA DrainLater ==
    ASSUME TypeOK, TypeOK', NEW b \in Bao, Timed(b), Draining(b),
           LastMoment(b)' = LastMoment(b), Paid <= Paid',
           ValidRows(bu') # {} => ValidRows(bu) # {},
           Waiting(b) /\ Untried(bu, m) =>
               Paid + 1 <= Paid' \/ (Waiting(b)' /\ Untried(bu, m)')
    PROVE  Draining(b)'
<1> DEFINE C == Cycle(b)
           M == LastMoment(b)
           E == Outage
           p == Paid
           q == Paid'
<1>1. p \in Nat /\ E \in Nat /\ C \in Nat /\ M \in Int /\ p * C \in Nat /\ (p + 1) * C = p * C + C
  BY DrainNumbers
<1>2. q \in Nat /\ q * C \in Nat /\ (q + 1) * C = q * C + C
  <2>1. (bu \in Seq(BuRow))'
    BY DEF TypeOK
  <2>2. q \in Nat
    BY <2>1, PaidFacts DEF Paid
  <2> HIDE DEF q
  <2> QED
    BY <1>1, <2>2, Steps
<1> SUFFICES ASSUME ValidRows(bu') # {}
             PROVE  \/ M <= E + q * C
                    \/ Waiting(b)' /\ Untried(bu, m)' /\ M <= E + (q + 1) * C
  BY DEF Draining, Cycle, Outage
<1>3. \/ M <= E + p * C
      \/ Waiting(b) /\ Untried(bu, m) /\ M <= E + (p + 1) * C
  BY DEF Draining
<1>4. p * C <= q * C /\ (p + 1) * C <= (q + 1) * C /\ (p + 1 <= q => (p + 1) * C <= q * C)
  <2>1. p <= q
    OBVIOUS
  <2> HIDE DEF p, q, C
  <2>2. \A x, y \in Nat : x <= y => x * C <= y * C
    <3> SUFFICES ASSUME NEW x \in Nat, NEW y \in Nat, x <= y PROVE x * C <= y * C
      OBVIOUS
    <3>1. y - x \in Nat
      OBVIOUS
    <3>2. (y - x) * C \in Nat
      BY <1>1, <3>1, Steps
    <3>3. y * C = x * C + (y - x) * C /\ x * C \in Int
      BY <1>1
    <3> QED
      BY <3>2, <3>3
  <2>3. p + 1 \in Nat /\ q + 1 \in Nat /\ p + 1 <= q + 1
    BY <1>1, <1>2, <2>1
  <2> QED
    BY <1>1, <1>2, <2>1, <2>2, <2>3
<1>5. Waiting(b) /\ Untried(bu, m) => p + 1 <= q \/ (Waiting(b)' /\ Untried(bu, m)')
  OBVIOUS
<1> HIDE DEF p, q, C, M, E
<1> QED
  BY <1>1, <1>2, <1>3, <1>4, <1>5

\* bubao finds its record timer expired: the row it picks is a debt, and its
\* period is the next one.
LEMMA DrainPoll ==
    ASSUME TypeOK, TypeOK', Stage, Stage', Punctual, NEW b \in Bao, Kind[b] = "bu", Timed(b),
           Poll(b), Draining(b)
    PROVE  Draining(b)'
<1>1. /\ phase = "poll" /\ i <= Len(Order) /\ b = Order[i] /\ now' = now /\ bu' = bu
  BY DEF Poll
<1>2. ~report_enable[b]
  BY <1>1 DEF Stage
<1>3. OnTime(b, Round)
  <2>1. i \in 1..Len(Order)
    BY <1>1, OrderFacts
  <2>2. OnTime(Order[i], Lag(i))
    BY <1>1, <2>1 DEF Punctual
  <2> QED
    BY <1>1, <2>2, LagTurn
<1>4. /\ RecordTimer(b) => last_record_check_time'[b] = now
      /\ ~RecordTimer(b) => last_record_check_time'[b] = last_record_check_time[b]
  BY <1>3, PollUpToDate
<1>5. /\ record_enable'[b] <=> (record_enable[b] \/ record_check(b)) /\ ~ReportTimer(b)
      /\ ReportTimer(b) => report_enable'[b]
  BY DEF Poll, TypeOK
<1>6. Paid' = Paid
  BY <1>1 DEF Paid
<1>7. CASE RecordTimer(b)
  <2> SUFFICES ASSUME ValidRows(bu) # {} PROVE Draining(b)'
    BY <1>1 DEF Draining
  <2>1. record_check(b)
    BY <1>7 DEF record_check
  <2>2. PICK n \in 1..Len(bu) :
            FirstValid(bu, n) /\ m' = [name |-> bu[n].name, tdate |-> bu[n].tdate]
    BY <2>1 DEF Poll
  <2>3. Untried(bu, m)'
    <3>1. n \in ValidRows(bu) /\ Matches(bu[n], m'.name, m'.tdate)
      BY <2>2 DEF FirstValid, Matches
    <3> QED
      BY <1>1, <3>1 DEF Untried, Owes
  <2>4. Waiting(b)'
    BY <1>5, <2>1 DEF Waiting
  <2>5. ~Waiting(b)
    BY <1>2, <1>7 DEF Waiting, RecordTimer
  <2>6. LastMoment(b) <= Outage + Paid * Cycle(b)
    BY <2>5 DEF Draining
  <2>7. LastMoment(b)' = LastMoment(b) + Cycle(b)
    <3>1. LastMoment(b)' = Moment(b, now)
      BY <1>4, <1>7 DEF LastMoment, Moment, Cycle
    <3> QED
      BY <1>3, <1>7, <3>1, RecordInTime
  <2>8. LastMoment(b)' <= Outage + (Paid + 1) * Cycle(b)
    BY <2>6, <2>7, DrainNumbers
  <2> QED
    BY <1>6, <2>3, <2>4, <2>8 DEF Draining, Cycle, Outage
<1>8. CASE ~RecordTimer(b)
  <2>1. m' = m
    BY <1>8 DEF Poll, record_check
  <2>2. LastMoment(b)' = LastMoment(b)
    BY <1>4, <1>8 DEF LastMoment, Moment, Cycle
  <2>3. Waiting(b) => Waiting(b)'
    BY <1>2, <1>5 DEF Waiting
  <2>4. Untried(bu, m)' <=> Untried(bu, m)
    BY <1>1, <2>1 DEF Untried, Owes, ValidRows, Matches
  <2>5. Paid <= Paid'
    BY <1>6, DrainNumbers
  <2> QED
    BY <1>1, <2>2, <2>3, <2>4, <2>5, DrainLater
<1> QED
  BY <1>7, <1>8


\* The steps that strike off no row and leave bubao alone.
LEMMA DrainQuiet ==
    ASSUME TypeOK, TypeOK', NEW b \in Bao, Timed(b), Draining(b), bu' = bu, m' = m,
           last_record_check_time'[b] = last_record_check_time[b],
           Waiting(b) => Waiting(b)'
    PROVE  Draining(b)'
<1>1. Paid' = Paid /\ Paid \in Nat
  BY DrainNumbers DEF Paid
<1>2. Paid <= Paid'
  BY <1>1
<1>3. LastMoment(b)' = LastMoment(b)
  BY DEF LastMoment, Moment, Cycle
<1>4. Untried(bu, m)' <=> Untried(bu, m)
  BY DEF Untried, Owes, ValidRows, Matches
<1> QED
  BY <1>2, <1>3, <1>4, DrainLater

\* report_data gives the row up, or report_ok strikes it off.
LEMMA DrainStrike ==
    ASSUME TypeOK, TypeOK', NEW b \in Bao, Timed(b), Draining(b), m.name \in Backfilled,
           bu' = UpdateBu(bu, m.name, m.tdate, FALSE),
           last_record_check_time'[b] = last_record_check_time[b]
    PROVE  Draining(b)'
<1>1. bu \in Seq(BuRow) /\ m.tdate \in Time
  BY DEF TypeOK
<1>2. /\ Paid <= Paid' /\ (Untried(bu, m) => Paid + 1 <= Paid')
      /\ ValidRows(bu') # {} => ValidRows(bu) # {}
  BY <1>1, StrikeOff DEF Paid
<1>3. LastMoment(b)' = LastMoment(b)
  BY DEF LastMoment, Moment, Cycle
<1> QED
  BY <1>2, <1>3, DrainLater

\* While the link may still fail, and at the restart after a NULL SendMode, what
\* bubao has acted on is of the outage.
LEMMA DrainOutage ==
    ASSUME TypeOK', NEW b \in Bao, Timed(b), last_record_check_time'[b] <= Outage
    PROVE  Draining(b)'
<1>1. (LastMoment(b) \in Int /\ LastMoment(b) <= last_record_check_time[b]
          /\ last_record_check_time[b] \in Nat)'
  BY TimerFacts, TimedConstant, PTL
<1>2. Outage \in Nat /\ Outage' = Outage
  BY TimeAssumption DEF Outage
<1>3. LastMoment(b)' <= Outage'
  BY <1>1, <1>2
<1>4. (TypeOK /\ Timed(b) /\ LastMoment(b) <= Outage => Draining(b))'
  BY DrainEarly, PTL
<1> QED
  BY <1>3, <1>4, TimedConstant

LEMMA DrainSpeech ==
    ASSUME TypeOK, TypeOK', ReportInv, Punctual, NEW c \in Bao,
           Report(c) \/ ReportOk(c) \/ ReportFail(c),
           NEW b \in Bao, Kind[b] = "bu", Timed(b), Draining(b)
    PROVE  Draining(b)'
<1>0. Stage /\ Replaying
  BY DEF ReportInv
<1>1. phase # "poll" /\ c = Order[i]
  BY DEF Report, ReportOk, ReportFail
<1>2. /\ report_enable[c] /\ ~record_enable[c] /\ m.tdate \in Time
      /\ Kind[c] = "bu" => m.name \in Backfilled
  BY <1>0, <1>1, UnderWay
<1>3. Kind[c] = "bu" <=> c = b
  BY KindAssumption
<1>4. last_record_check_time'[b] = last_record_check_time[b] /\ m' = m
  BY DEF Report, ReportOk, ReportFail, EndReport
<1>5. CASE Report(c)
  <2>1. Waiting(b) => Waiting(b)'
    BY <1>5 DEF Report, Waiting
  <2>2. bu' = bu \/ (Kind[c] = "bu" /\ bu' = UpdateBu(bu, m.name, m.tdate, FALSE))
    BY <1>5 DEF Report, report_data
  <2> QED
    BY <1>2, <1>4, <2>1, <2>2, DrainQuiet, DrainStrike
<1>6. CASE ReportOk(c)
  <2>1. CASE c = b
    <3>1. bu' = UpdateBu(bu, m.name, m.tdate, FALSE)
      BY <1>3, <1>6, <2>1 DEF ReportOk
    <3> QED
      BY <1>2, <1>3, <1>4, <2>1, <3>1, DrainStrike
  <2>2. CASE c # b
    <3>1. bu' = bu
      BY <1>3, <1>6, <2>2 DEF ReportOk
    <3>2. Waiting(b) => Waiting(b)'
      BY <1>6, <2>2 DEF ReportOk, EndReport, Waiting, TypeOK
    <3> QED
      BY <1>4, <3>1, <3>2, DrainQuiet
  <2> QED
    BY <2>1, <2>2
<1>7. CASE ReportFail(c)
  <2>1. PICK n \in 1..Len(Order) : b = Order[n]
    BY DEF Bao
  <2>2. last_record_check_time[b] <= now /\ now < LinkUpFrom
    BY <1>7, <2>1 DEF Punctual, OnTime, ReportFail
  <2>3. last_record_check_time[b] \in Nat /\ now \in Nat
    BY TimerFacts, OrderFacts
  <2>4. last_record_check_time'[b] <= Outage
    BY <1>4, <2>2, <2>3, TimeAssumption DEF Outage
  <2> QED
    BY <2>4, DrainOutage
<1> QED
  BY <1>5, <1>6, <1>7

\* A round without a SendMode belongs to the outage.
NullRound == s = "null" /\ i <= Len(Order) => now < LinkUpFrom /\ phase # "wait"

LEMMA NextNullRound ==
    ASSUME ClockSets = {}, TypeOK, Stage, NullRound, [Next]_vars
    PROVE  NullRound'
<1>0. Len(Order) \in Nat /\ i \in Nat /\ i <= Len(Order) + 1
  BY OrderFacts
<1>1. ASSUME NEW b \in Bao, Poll(b) PROVE NullRound'
  BY <1>0, <1>1 DEF Poll, NullRound
<1>2. ASSUME NEW b \in Bao, Report(b) PROVE NullRound'
  BY <1>2 DEF Report, NullRound
<1>3. ASSUME NEW b \in Bao, ReportOk(b) \/ ReportFail(b) PROVE NullRound'
  <2>1. phase = "wait" /\ s' = s
    BY <1>3 DEF ReportOk, ReportFail, EndReport
  <2>2. i <= Len(Order)
    BY <2>1 DEF Stage
  <2> QED
    BY <2>1, <2>2 DEF NullRound
<1>4. CASE NextRound
  <2>1. phase' = "poll" /\ s' \in IF now' < LinkUpFrom THEN {"tcp", "null"} ELSE {"tcp"}
    BY <1>4 DEF NextRound, AfterLoop
  <2> QED
    BY <2>1 DEF NullRound
<1>5. CASE ClearHistory \/ JiaFlag \/ FreezeData \/ UNCHANGED vars
  BY <1>5 DEF ClearHistory, JiaFlag, FreezeData, vars, NullRound
<1>6. CASE SetTime
  BY <1>6 DEF SetTime
<1>7. CASE PowerLoss \/ NullSendMode
  <2>1. i' = Len(Order) + 1
    BY <1>7 DEF PowerLoss, NullSendMode, Restart
  <2> QED
    BY <1>0, <2>1 DEF NullRound
<1> QED
  BY <1>1, <1>2, <1>3, <1>4, <1>5, <1>6, <1>7 DEF Next, UpThread

LEMMA NextDraining ==
    ASSUME ClockSets = {}, MaxBoots = 0, TypeOK, ReportInv, Punctual, NullRound, [Next]_vars,
           NEW b \in Bao, Kind[b] = "bu", Timed(b), Draining(b)
    PROVE  Draining(b)'
<1>0. TypeOK' /\ Stage /\ Stage'
  BY NextInv DEF ReportInv
<1>1. ASSUME NEW c \in Bao, Poll(c) PROVE Draining(b)'
  <2>1. CASE c = b
    BY <1>0, <1>1, <2>1, DrainPoll
  <2>2. CASE c # b
    <3>1. Kind[c] # "bu"
      BY <2>2, KindAssumption
    <3>2. /\ bu' = bu /\ m' = m /\ last_record_check_time'[b] = last_record_check_time[b]
          /\ record_enable'[b] = record_enable[b] /\ report_enable'[b] = report_enable[b]
      BY <1>1, <2>2, <3>1 DEF Poll, TypeOK
    <3> QED
      BY <1>0, <3>2, DrainQuiet DEF Waiting
  <2> QED
    BY <2>1, <2>2
<1>2. ASSUME NEW c \in Bao, Report(c) \/ ReportOk(c) \/ ReportFail(c) PROVE Draining(b)'
  BY <1>0, <1>2, DrainSpeech
<1>3. CASE NextRound \/ JiaFlag \/ FreezeData \/ UNCHANGED vars
  <2>1. UNCHANGED <<bu, m, last_record_check_time, record_enable, report_enable>>
    BY <1>3 DEF NextRound, JiaFlag, FreezeData, vars, upVars
  <2> QED
    BY <1>0, <2>1, DrainQuiet DEF Waiting
<1>4. CASE ClearHistory
  <2>1. bu' = <<>>
    BY <1>4 DEF ClearHistory
  <2>2. ValidRows(bu') = {}
    BY <2>1 DEF ValidRows
  <2> QED
    BY <2>2 DEF Draining
<1>5. CASE SetTime
  BY <1>5 DEF SetTime
<1>6. CASE PowerLoss
  <2>1. boot \in Nat
    BY DEF TypeOK
  <2>2. boot < 0
    BY <1>6 DEF PowerLoss
  <2> QED
    BY <2>1, <2>2
<1>7. CASE NullSendMode
  <2>1. now < LinkUpFrom
    BY <1>0, <1>7 DEF NullSendMode, Stage, NullRound
  <2>2. PICK d \in 1..MaxPause : last_record_check_time'[b] = Later(now, d)
    BY <1>7 DEF NullSendMode, Restart, FreshObjects
  <2>3. d \in 0..MaxPause /\ MaxPause \in Nat /\ now \in Nat /\ LinkUpFrom \in Nat
    BY OrderFacts, TimeAssumption
  <2>4. Later(now, d) \in Nat /\ Later(now, d) <= now + MaxPause
    BY <2>3, LaterBound
  <2>5. last_record_check_time'[b] <= Outage
    BY <2>1, <2>2, <2>3, <2>4 DEF Outage
  <2> QED
    BY <1>0, <2>5, DrainOutage
<1> QED
  BY <1>1, <1>2, <1>3, <1>4, <1>5, <1>6, <1>7 DEF Next, UpThread

\* The bound: what bubao has still to do, and how far behind the clock it may be.
LEMMA DrainBound ==
    ASSUME TypeOK, Stage, Punctual, NEW b \in Bao, Kind[b] = "bu", Timed(b), Draining(b),
           AfterLoop, ValidRows(bu) # {}
    PROVE  now < LinkUpFrom + (Len(bu) + 1) * Cycle(b) + MaxPause + Len(Order) * MaxWait
<1> DEFINE C == Cycle(b)
           M == LastMoment(b)
           p == Paid
           W == Len(Order) * MaxWait
           R == Interval[b].rec
           P == Interval[b].rep
<1>1. /\ p \in Nat /\ Outage \in Nat /\ C \in Nat /\ M \in Int
      /\ p * C \in Nat /\ (p + 1) * C = p * C + C
  BY DrainNumbers
<1>2. Len(bu) \in Nat /\ p <= Len(bu) - 1
  <2>1. bu \in Seq(BuRow)
    BY DEF TypeOK
  <2> QED
    BY <2>1, PaidFacts DEF Paid
<1>3. PICK n \in 1..Len(Order) : b = Order[n]
  BY DEF Bao
<1>4. OnTime(b, Lag(n))
  BY <1>3 DEF Punctual
<1>5. /\ Len(Order) \in Nat /\ MaxWait \in Nat /\ MaxPause \in Nat /\ now \in Nat
      /\ LinkUpFrom \in Nat /\ R \in Int /\ P \in Int /\ Round \in Nat /\ MaxWait <= Round
      /\ phase = "poll" /\ i = Len(Order) + 1
  BY OrderFacts, TimerFacts, RoundFacts, TimeAssumption DEF AfterLoop
<1>6. Lag(n) \in Nat /\ W \in Nat /\ Lag(n) <= W
  <2>1. Lag(n) = (i - n) * MaxWait
    BY <1>5 DEF Lag
  <2>2. n - 1 \in Nat /\ i - n \in Nat /\ i - n + (n - 1) = Len(Order)
    BY <1>5
  <2>3. (n - 1) * MaxWait \in Nat /\ (i - n) * MaxWait \in Nat /\ W \in Nat
    BY <1>5, <2>2, Steps
  <2>4. (i - n + (n - 1)) * MaxWait = (i - n) * MaxWait + (n - 1) * MaxWait
    BY <1>5, <2>2
  <2>5. W = (i - n) * MaxWait + (n - 1) * MaxWait
    BY <2>2, <2>4
  <2> QED
    BY <2>1, <2>3, <2>5
<1>7. ~report_enable[b]
  BY <1>5 DEF Stage
<1>8. P + Round - MaxWait <= C + R
  BY DEF Timed
<1>9. (Len(bu) + 1) * C \in Nat /\ p * C + C + C <= (Len(bu) + 1) * C
  <2>1. Len(bu) - 1 - p \in Nat
    BY <1>1, <1>2
  <2> DEFINE x == Len(bu) - 1 - p
  <2>2. Len(bu) + 1 = x + (p + 2) /\ x * C \in Nat
    BY <1>1, <1>2, <2>1, Steps
  <2> HIDE DEF x, C, p
  <2>3. (x + (p + 2)) * C = x * C + (p * C + C + C) /\ x \in Nat
    BY <1>1, <2>1 DEF x
  <2> QED
    BY <1>1, <2>2, <2>3
<1>10. M <= Outage + p * C \/ (record_enable[b] /\ M <= Outage + p * C + C)
  BY <1>1, <1>7 DEF Draining, Waiting
<1>11. Outage = LinkUpFrom + MaxPause
  BY DEF Outage
<1>12. CASE ~record_enable[b]
  <2>1. now < M + C + Lag(n)
    BY <1>4, <1>12 DEF OnTime
  <2> DEFINE g == Lag(n)
             pc == p * C
             z == (Len(bu) + 1) * C
  <2>2. g \in Nat /\ g <= W /\ now < M + C + g /\ pc \in Nat /\ z \in Nat /\ pc + C + C <= z
    BY <1>1, <1>6, <1>9, <2>1
  <2>3. M <= LinkUpFrom + MaxPause + pc
    BY <1>10, <1>11, <1>12
  <2> HIDE DEF g, pc, z, C, M, W
  <2>4. now < LinkUpFrom + z + MaxPause + W
    BY <1>1, <1>5, <1>6, <2>2, <2>3
  <2> QED
    BY <2>4 DEF z, C, W
<1>13. CASE record_enable[b]
  <2>1. now < M + P - R + Lag(n) - MaxWait
    BY <1>4, <1>13 DEF OnTime, ReportMoment
  <2> DEFINE g == Lag(n)
             pc == p * C
             z == (Len(bu) + 1) * C
  <2>2. /\ g \in Nat /\ g <= W /\ now < M + P - R + g - MaxWait /\ pc \in Nat /\ z \in Nat
        /\ pc + C + C <= z
    BY <1>1, <1>6, <1>9, <2>1
  <2>3. M <= LinkUpFrom + MaxPause + pc + C
    <3>1. M <= LinkUpFrom + MaxPause + pc \/ M <= LinkUpFrom + MaxPause + pc + C
      BY <1>10, <1>11
    <3>2. /\ pc \in Nat /\ C \in Nat /\ M \in Int
          /\ LinkUpFrom \in Nat /\ MaxPause \in Nat
      BY <1>1, <1>5
    <3> HIDE DEF pc, C, M
    <3> QED
      BY <3>1, <3>2
  <2> HIDE DEF g, pc, z, C, M, W, P, R
  <2>4. now < LinkUpFrom + z + MaxPause + W
    BY <1>1, <1>5, <1>6, <1>8, <2>2, <2>3
  <2> QED
    BY <2>4 DEF z, C, W
<1> QED
  BY <1>12, <1>13

\* Once the link works the debts are paid, one every period of bubao and none
\* stuck behind another, for every vector of reports and every outage: as long
\* as bubao's period is longer than a round, the power stays and the clock is
\* not set.
THEOREM DebtsPaid ==
    ASSUME ClockSets = {}, MaxBoots = 0, BubaoTimed
    PROVE  Spec => []BacklogDrained
<1>1. Init => TypeOK /\ ReportInv /\ Punctual /\ DrainInv
  <2> SUFFICES ASSUME Init PROVE TypeOK /\ ReportInv /\ Punctual /\ DrainInv
    OBVIOUS
  <2>1. i = Len(Order) + 1 /\ Len(Order) \in Nat /\ bu = <<>>
    <3>1. Len(Order) \in Nat
      BY OrderAssumption
    <3> QED
      BY <3>1, Zenon DEF Init
  <2>2. ValidRows(bu) = {}
    BY <2>1 DEF ValidRows
  <2>3. DrainInv
    BY <2>1, <2>2 DEF DrainInv, Draining
  <2> QED
    BY <2>3, InitInv, InitPunctual DEF PunctualInv
<1>2. ASSUME TypeOK, ReportInv, Punctual, DrainInv, [Next]_vars
      PROVE  TypeOK' /\ ReportInv' /\ Punctual' /\ DrainInv'
  <2>1. TypeOK' /\ ReportInv' /\ Punctual'
    BY <1>2, NextInv, NextOnTime
  <2>2. NullRound
    BY <1>2 DEF DrainInv, NullRound
  <2>3. NullRound'
    BY <1>2, <2>2, NextNullRound DEF ReportInv
  <2>4. ASSUME NEW b \in Bao, Kind[b] = "bu" PROVE Draining(b)'
    BY <1>2, <2>2, <2>4, NextDraining DEF DrainInv, BubaoTimed
  <2>5. DrainInv'
    BY <2>3, <2>4 DEF DrainInv, NullRound
  <2> QED
    BY <2>1, <2>5
<1>3. ASSUME TypeOK, ReportInv, Punctual, DrainInv PROVE BacklogDrained
  <2> SUFFICES ASSUME NEW b \in Bao, Kind[b] = "bu", AfterLoop, ValidRows(bu) # {},
                      now >= LinkUpFrom + (Len(bu) + 1) * Cycle(b) + MaxPause
                               + Len(Order) * MaxWait
               PROVE  FALSE
    BY DEF BacklogDrained
  <2>1. now < LinkUpFrom + (Len(bu) + 1) * Cycle(b) + MaxPause + Len(Order) * MaxWait
    BY <1>3, DrainBound DEF DrainInv, BubaoTimed, ReportInv
  <2> DEFINE z == LinkUpFrom + (Len(bu) + 1) * Cycle(b) + MaxPause + Len(Order) * MaxWait
  <2>2. now \in Int /\ z \in Int
    <3>1. /\ now \in Nat /\ Len(bu) \in Nat /\ Cycle(b) \in Nat /\ Len(Order) \in Nat
          /\ MaxWait \in Nat /\ MaxPause \in Nat /\ LinkUpFrom \in Nat
      <4>1. Cycle(b) \in Nat
        BY IntervalAssumption DEF Cycle
      <4>2. Len(bu) \in Nat
        <5>1. bu \in Seq(BuRow)
          BY <1>3 DEF TypeOK
        <5> QED
          BY <5>1
      <4> QED
        BY <1>3, <4>1, <4>2, OrderFacts, TimeAssumption
    <3>2. (Len(bu) + 1) * Cycle(b) \in Nat /\ Len(Order) * MaxWait \in Nat
      BY <3>1, Steps
    <3> QED
      BY <3>1, <3>2
  <2>3. now < z /\ now >= z
    BY <2>1
  <2> HIDE DEF z
  <2> QED
    BY <2>2, <2>3
<1> QED
  BY <1>1, <1>2, <1>3, PTL DEF Spec
=============================================================================
