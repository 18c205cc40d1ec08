-------------------------- MODULE WaterLevelProofs --------------------------
(* Theorems about WaterLevel, for every value of its constants.              *)
EXTENDS WaterLevel, TLAPS

-----------------------------------------------------------------------------
(* Hours and slots.                                                          *)

LEMMA SlotFacts ==
    ASSUME NEW x \in Nat
    PROVE  Hour(x) \in Nat /\ Slot(x) \in 0..(Slots - 1) /\ x = Hour(x) * Slots + Slot(x)
<1>1. Slots \in Nat /\ Slots > 0
  BY LevelAssumption
<1>2. x \div Slots \in Nat /\ x % Slots \in 0..(Slots - 1)
  BY <1>1
<1>3. x = (x \div Slots) * Slots + (x % Slots)
  BY <1>1, Z3
<1> QED
  BY <1>2, <1>3 DEF Hour, Slot

LEMMA HourMonotone ==
    ASSUME NEW a \in Nat, NEW b \in Nat, a <= b
    PROVE  Hour(a) \in Nat /\ Hour(b) \in Nat /\ Hour(a) <= Hour(b)
BY LevelAssumption DEF Hour

\* One slot on: the next slot of the hour, or the first one of the next hour.
LEMMA SlotOn ==
    ASSUME NEW x \in Nat
    PROVE  \/ Hour(x + 1) = Hour(x) /\ Slot(x + 1) = Slot(x) + 1
           \/ Hour(x + 1) = Hour(x) + 1 /\ Slot(x + 1) = 0 /\ Slot(x) = Slots - 1
<1>1. Slots \in Nat /\ Slots > 0
  BY LevelAssumption
<1>2. CASE Slot(x) < Slots - 1
  <2> QED
    BY <1>1, <1>2, SlotFacts DEF Slot, Hour
<1>3. CASE Slot(x) = Slots - 1
  <2> QED
    BY <1>1, <1>3, SlotFacts DEF Slot, Hour
<1> QED
  BY <1>2, <1>3, SlotFacts, <1>1

-----------------------------------------------------------------------------
(* Types.                                                                    *)

LEMMA TimeFacts ==
    ASSUME NEW x \in Time
    PROVE  x \in Nat /\ Hour(x) \in Hours /\ Hour(x) \in Nat /\ Slot(x) \in 0..(Slots - 1)
<1>1. x \in Nat /\ MaxTime \in Nat /\ x <= MaxTime
  BY LevelAssumption DEF Time
<1>2. Hour(x) \in Nat /\ Hour(MaxTime) \in Nat /\ Hour(x) <= Hour(MaxTime)
  BY <1>1, HourMonotone
<1> QED
  BY <1>1, <1>2, SlotFacts DEF Hours

LEMMA EmptyTypes ==
    NoEntry \in Entry /\ NoLevels \in [0..(Slots - 1) -> Entry]
    /\ [i \in Sensor |-> NoLevels] \in DRZLevels /\ [i \in Sensor |-> FALSE] \in ZLevels
<1>1. FFFF \in 0..FFFF
  BY LevelAssumption DEF FFFF
<1>2. NoEntry \in Entry
  BY <1>1 DEF NoEntry, Entry
<1> QED
  BY <1>2 DEF NoLevels, DRZLevels, ZLevels

\* The latest row is one of the rows, and no other is later.
LEMMA LatestFacts ==
    ASSUME Tabled, DOMAIN rows # {}
    PROVE  Latest(DOMAIN rows) \in DOMAIN rows
           /\ \A k \in DOMAIN rows : k <= Latest(DOMAIN rows)
<1>1. \E h \in DOMAIN rows : \A k \in DOMAIN rows : k <= h
  BY DEF Tabled
<1> QED
  BY <1>1, Zenon DEF Latest

\* devdata_save writes one row of the type, and leaves the others alone.
LEMMA SaveFacts ==
    ASSUME TypeOK, devdata_save
    PROVE  /\ DOMAIN rows' = DOMAIN rows \cup {Hour(now)}
           /\ rows'[Hour(now)] = [z |-> Z, drz |-> DRZ, good |-> begun]
           /\ \A h \in DOMAIN rows : h # Hour(now) => rows'[h] = rows[h]
           /\ DOMAIN rows' \subseteq Hours /\ \A h \in DOMAIN rows' : rows'[h] \in Row
<1>1. /\ DOMAIN rows' = DOMAIN rows \cup {Hour(now)}
      /\ rows'[Hour(now)] = [z |-> Z, drz |-> DRZ, good |-> begun]
      /\ \A h \in DOMAIN rows : h # Hour(now) => rows'[h] = rows[h]
  BY DEF devdata_save
<1>2. Hour(now) \in Hours
  BY TimeFacts DEF TypeOK
<1>3. [z |-> Z, drz |-> DRZ, good |-> begun] \in Row
  BY DEF TypeOK, Row
<1>4. ASSUME NEW h \in DOMAIN rows' PROVE rows'[h] \in Row
  BY <1>1, <1>3, <1>4 DEF TypeOK
<1> QED
  BY <1>1, <1>2, <1>4 DEF TypeOK

LEMMA InitTypes == Init => TypeOK
<1> SUFFICES ASSUME Init PROVE TypeOK
  OBVIOUS
<1>1. 0 \in Time /\ 0 \in 0..MaxSamples /\ 0 \in 0..MaxStops
  BY LevelAssumption DEF Time
<1>2. DOMAIN rows = {}
  BY DEF Init
<1>3. 1 \in 1..(N + 1)
  BY LevelAssumption
<1> QED
  BY <1>1, <1>2, <1>3, EmptyTypes DEF Init, TypeOK

\* The level of the running slot of one sensor changes.
LEMMA SetFacts ==
    ASSUME TypeOK, NEW i \in Sensor, NEW e \in Entry
    PROVE  [DRZ EXCEPT ![i][Slot(now)] = e] \in DRZLevels
<1>1. Slot(now) \in 0..(Slots - 1)
  BY TimeFacts DEF TypeOK
<1>2. DRZ[i] \in [0..(Slots - 1) -> Entry]
  BY DEF TypeOK, DRZLevels
<1>3. [DRZ[i] EXCEPT ![Slot(now)] = e] \in [0..(Slots - 1) -> Entry]
  BY <1>1, <1>2
<1> QED
  BY <1>3 DEF TypeOK, DRZLevels

LEMMA AddBaseTypes ==
    ASSUME TypeOK, NEW i \in Sensor, NEW l \in Levels, AddBase(i, l) PROVE TypeOK'
<1>1. samples' \in 0..MaxSamples
  BY LevelAssumption DEF TypeOK, AddBase
<1>2. l % Word \in 0..FFFF
  BY LevelAssumption DEF FFFF
<1>3. [lvl |-> l % Word, at |-> now] \in Entry
  BY <1>2 DEF TypeOK, Entry
<1>4. DRZ' \in DRZLevels
  BY <1>3, SetFacts DEF AddBase, set_DRZ
<1>5. Z' \in ZLevels
  BY DEF TypeOK, ZLevels, AddBase
<1> QED
  BY <1>1, <1>4, <1>5 DEF TypeOK, AddBase, data

LEMMA ClearTypes == ASSUME TypeOK, NEW i \in Sensor, Clear(i) PROVE TypeOK'
<1>1. samples' \in 0..MaxSamples
  BY LevelAssumption DEF TypeOK, Clear
<1>2. DRZ' \in DRZLevels
  BY EmptyTypes, SetFacts DEF Clear
<1>3. Z' \in ZLevels
  BY DEF TypeOK, ZLevels, Clear
<1> QED
  BY <1>1, <1>2, <1>3 DEF TypeOK, Clear, data, down

\* What the check may find as last is a slot of DRZ.
LEMMA LastTypes ==
    ASSUME TypeOK, n \in Sensor, NEW s \in Tm, NEW r \in Tm
    PROVE  LastAt(s, r) \subseteq Entry
<1>1. CASE s = 0 /\ old = {}
  BY <1>1 DEF LastAt, TypeOK
<1>2. CASE s = 0 /\ old # {}
  <2>1. LastAt(s, r) = {o.drz[n][Slots - 1] : o \in old}
    BY <1>2 DEF LastAt
  <2>2. Slots - 1 \in 0..(Slots - 1)
    BY LevelAssumption
  <2>3. \A o \in old : o.drz[n][Slots - 1] \in Entry
    BY <2>2 DEF TypeOK, Row, DRZLevels
  <2> QED
    BY <2>1, <2>3
<1>3. CASE s # 0 /\ r = 0
  BY <1>3, LevelAssumption DEF LastAt, Outside, Entry, FFFF
<1>4. CASE s # 0 /\ r # 0
  <2>1. LastAt(s, r) = {DRZ[n][r - 1]}
    BY <1>4 DEF LastAt
  <2>2. r - 1 \in 0..(Slots - 1)
    BY <1>4, LevelAssumption DEF Tm
  <2>3. DRZ[n][r - 1] \in Entry
    BY <2>2 DEF TypeOK, DRZLevels
  <2> QED
    BY <2>1, <2>3
<1> QED
  BY <1>1, <1>2, <1>3, <1>4

LEMMA CheckTypes ==
    ASSUME TypeOK, CheckTime \/ CheckLast \/ CheckNow \/ CheckEnd PROVE TypeOK'
<1>0. N \in Nat /\ N > 0 /\ 1 \in 1..(N + 1)
  BY LevelAssumption
<1>1. CASE CheckTime
  <2>1. old' \subseteq Row
    BY <1>1 DEF CheckTime, TypeOK
  <2>2. sure' \in BOOLEAN
    BY <1>1 DEF CheckTime
  <2> QED
    BY <1>0, <1>1, <2>1, <2>2, EmptyTypes DEF TypeOK, CheckTime, data, bounds, ghosts
<1>2. CASE CheckLast
  <2>1. n \in Sensor
    BY <1>0, <1>2 DEF CheckLast, TypeOK, Sensor
  <2>2. before' \in Entry
    BY <1>2, <2>1, LastTypes DEF CheckLast
  <2>3. sure' \in BOOLEAN
    BY <1>2 DEF CheckLast, TypeOK, InHour
  <2> QED
    BY <1>2, <2>2, <2>3 DEF TypeOK, CheckLast, data, bounds, ghosts
<1>3. CASE CheckNow
  <2>1. n \in Sensor /\ n' \in 1..(N + 1)
    BY <1>0, <1>3 DEF CheckNow, TypeOK, Sensor
  <2>2. PICK s \in Tm :
           /\ before' = IF before.lvl = FFFF /\ DRZ[n][s].lvl # FFFF THEN DRZ[n][s] ELSE before
           /\ jia' = (Moved(DRZ[n][s]) \/ IsHigh(DRZ[n][s]))
           /\ sure' = (sure /\ InHour /\ s = Slot(t))
    BY <1>3 DEF CheckNow
  <2>3. DRZ[n][s] \in Entry
    BY <2>1 DEF TypeOK, DRZLevels, Tm
  <2>4. before' \in Entry
    BY <2>2, <2>3 DEF TypeOK
  <2>5. jia' \in BOOLEAN /\ sure' \in BOOLEAN
    BY <2>2, Zenon DEF TypeOK, InHour, Moved, IsHigh
  <2> QED
    BY <1>3, <2>1, <2>4, <2>5 DEF TypeOK, CheckNow, data, bounds, ghosts
<1>4. CASE CheckEnd
  <2>1. 0 \in Time
    BY LevelAssumption DEF Time
  <2> QED
    BY <1>0, <1>4, <2>1, EmptyTypes DEF TypeOK, CheckEnd, data, bounds, ghosts
<1> QED
  BY <1>1, <1>2, <1>3, <1>4

LEMMA DataTypes == ASSUME TypeOK, Freeze \/ SameHour \/ NewHour \/ Boot \/ Record PROVE TypeOK'
<1>1. Hour(now) \in Hours
  BY TimeFacts DEF TypeOK
<1>2. CASE Freeze
  <2>1. DOMAIN rows' \subseteq Hours /\ \A h \in DOMAIN rows' : rows'[h] \in Row
    BY <1>2, SaveFacts DEF Freeze, TypeOK
  <2> QED
    BY <1>2, <2>1 DEF TypeOK, Freeze, down, bounds, ghosts
<1>3. CASE SameHour
  BY <1>1, <1>3 DEF TypeOK, SameHour, down, bounds
<1>4. CASE NewHour
  BY <1>1, <1>4, EmptyTypes DEF TypeOK, NewHour, reset_DRZ, down, bounds
<1>5. CASE Boot
  BY <1>1, <1>5 DEF TypeOK, Boot, down, bounds, ghosts
<1>6. CASE Record
  <2>1. DOMAIN rows' \subseteq Hours /\ \A h \in DOMAIN rows' : rows'[h] \in Row
    BY <1>6, SaveFacts DEF Record
  <2> QED
    BY <1>1, <1>6, <2>1 DEF TypeOK, Record, data, down, bounds, ghosts
<1> QED
  BY <1>2, <1>3, <1>4, <1>5, <1>6

LEMMA StopTypes == ASSUME TypeOK, Exit \/ PowerLoss PROVE TypeOK'
<1>1. stops' \in 0..MaxStops
  BY LevelAssumption DEF TypeOK, Exit, PowerLoss, Gone
<1>2. DOMAIN rows' \subseteq Hours /\ \A h \in DOMAIN rows' : rows'[h] \in Row
  BY SaveFacts DEF Exit, PowerLoss, TypeOK
<1>3. 0 \in Time
  BY LevelAssumption DEF Time
<1>4. Gone /\ UNCHANGED <<now, recordtime, samples>>
  BY DEF Exit, PowerLoss
<1>5. 1 \in 1..(N + 1)
  BY LevelAssumption
<1> QED
  BY <1>1, <1>2, <1>3, <1>4, <1>5, EmptyTypes DEF TypeOK, Gone

LEMMA RecoverTypes == ASSUME TypeOK, Tabled, Recover PROVE TypeOK'
<1>1. Z' \in ZLevels /\ DRZ' \in DRZLevels /\ begun' \in BOOLEAN
  <2>1. CASE DOMAIN rows = {}
    BY <2>1, EmptyTypes DEF TypeOK, Recover
  <2>2. CASE DOMAIN rows # {}
    <3> DEFINE r == rows[Latest(DOMAIN rows)]
    <3>1. r \in Row
      BY <2>2, LatestFacts DEF TypeOK
    <3>2. r.z \in ZLevels /\ r.drz \in DRZLevels /\ r.good \in BOOLEAN
      BY <3>1 DEF Row
    <3>3. CASE Latest(DOMAIN rows) # Hour(now)
      <4>1. Z' = [i \in Sensor |-> Z[i] \/ r.z[i]]
            /\ DRZ' = [i \in Sensor |-> NoLevels] /\ begun' = TRUE
        BY <2>2, <3>3 DEF Recover, reset_DRZ
      <4>2. Z' \in ZLevels
        BY <3>2, <4>1 DEF TypeOK, ZLevels
      <4> QED
        BY <4>1, <4>2, EmptyTypes
    <3>4. CASE Latest(DOMAIN rows) = Hour(now)
      <4>1. Z' = [i \in Sensor |-> FALSE] /\ begun' = r.good
            /\ DRZ' = [i \in Sensor |-> IF r.drz[i] = NoLevels THEN DRZ[i] ELSE r.drz[i]]
        BY <2>2, <3>4 DEF Recover
      <4>2. DRZ' \in DRZLevels
        BY <3>2, <4>1 DEF TypeOK, DRZLevels
      <4> QED
        BY <3>2, <4>1, <4>2, EmptyTypes
    <3> QED
      BY <3>3, <3>4
  <2> QED
    BY <2>1, <2>2
<1>2. pc' = "top" /\ UNCHANGED <<now, rows, last, lasttime, down, recordtime, bounds>>
  BY DEF Recover
<1> QED
  BY <1>1, <1>2 DEF TypeOK, down, bounds

LEMMA TickTypes == ASSUME TypeOK, Tick PROVE TypeOK'
<1>1. now' \in Time
  BY LevelAssumption DEF TypeOK, Tick, Time
<1>2. begun' \in BOOLEAN
  BY DEF Tick
<1> QED
  BY <1>1, <1>2 DEF TypeOK, Tick, data, down, bounds

LEMMA NextTypes == ASSUME TypeOK, Tabled, [Next]_vars PROVE TypeOK'
<1>1. CASE UNCHANGED vars
  BY <1>1 DEF TypeOK, vars, data, down, bounds, ghosts
<1>2. CASE Next
  BY <1>2, AddBaseTypes, ClearTypes, CheckTypes, DataTypes, StopTypes, RecoverTypes, TickTypes
     DEF Next, DownThread, DataThread
<1> QED
  BY <1>1, <1>2

-----------------------------------------------------------------------------
(* Levels in the hour and the slot they were read in.                        *)

LEMMA EmptyOfHour == \A h : OfHour([i \in Sensor |-> NoLevels], h)
BY DEF OfHour, NoLevels

LEMMA InitTable == Init => TableInv
<1> SUFFICES ASSUME Init PROVE TableInv
  OBVIOUS
<1>1. DOMAIN rows = {}
  BY DEF Init
<1>2. Levelled
  BY <1>1, EmptyOfHour DEF Init, Levelled
<1>3. Tabled
  BY <1>1 DEF Init, Tabled, On
<1> QED
  BY <1>2, <1>3 DEF TableInv

\* A level that is read now belongs to the running hour.
LEMMA SetLevelled ==
    ASSUME TypeOK, Levelled, NEW i \in Sensor, NEW e \in Entry, e = NoEntry \/ e.at = now,
           DRZ' = [DRZ EXCEPT ![i][Slot(now)] = e], UNCHANGED <<now, rows, t, old, begun>>
    PROVE  Levelled'
<1>1. Slot(now) \in 0..(Slots - 1) /\ now = Hour(now) * Slots + Slot(now)
  BY TimeFacts, SlotFacts DEF TypeOK
<1>2. DRZ \in [Sensor -> [0..(Slots - 1) -> Entry]]
  BY DEF TypeOK, DRZLevels
<1>3. /\ DRZ'[i][Slot(now)] = e
      /\ \A j \in Sensor, s \in 0..(Slots - 1) :
            <<j, s>> # <<i, Slot(now)>> => DRZ'[j][s] = DRZ[j][s]
  BY <1>1, <1>2
<1>4. ASSUME begun PROVE OfHour(DRZ', Hour(now))
  <2>1. OfHour(DRZ, Hour(now))
    BY <1>4 DEF Levelled
  <2> SUFFICES ASSUME NEW j \in Sensor, NEW s \in 0..(Slots - 1), DRZ'[j][s] # NoEntry
               PROVE  DRZ'[j][s].at = Hour(now) * Slots + s
    BY DEF OfHour
  <2>2. CASE j = i /\ s = Slot(now)
    BY <1>1, <1>3, <2>2
  <2>3. CASE ~(j = i /\ s = Slot(now))
    BY <1>3, <2>1, <2>3 DEF OfHour
  <2> QED
    BY <2>2, <2>3
<1> QED
  BY <1>4 DEF Levelled

LEMMA ReadLevelled ==
    ASSUME TypeOK, Levelled, NEW i \in Sensor, Clear(i) \/ \E l \in Levels : AddBase(i, l)
    PROVE  Levelled'
<1>1. CASE Clear(i)
  BY <1>1, SetLevelled, EmptyTypes DEF Clear, down
<1>2. ASSUME NEW l \in Levels, AddBase(i, l) PROVE Levelled'
  <2> DEFINE e == [lvl |-> l % Word, at |-> now]
  <2>1. l % Word \in 0..FFFF
    BY LevelAssumption DEF FFFF
  <2>2. e \in Entry /\ e.at = now
    BY <2>1 DEF TypeOK, Entry
  <2>3. DRZ' = [DRZ EXCEPT ![i][Slot(now)] = e] /\ UNCHANGED <<now, rows, t, old, begun>>
    BY <1>2 DEF AddBase, set_DRZ
  <2> HIDE DEF e
  <2> QED
    BY <2>2, <2>3, SetLevelled
<1> QED
  BY <1>1, <1>2

LEMMA CheckLevelled ==
    ASSUME TypeOK, Levelled, CheckTime \/ CheckLast \/ CheckNow \/ CheckEnd PROVE Levelled'
<1>1. UNCHANGED <<now, DRZ, rows, begun>>
  BY DEF CheckTime, CheckLast, CheckNow, CheckEnd, ghosts
<1>2. \A r \in old' : r.good => OfHour(r.drz, Hour(t') - 1)
  <2>1. CASE CheckTime
    BY <2>1 DEF CheckTime, RowBefore, Levelled
  <2>2. CASE CheckEnd
    BY <2>2 DEF CheckEnd
  <2>3. CASE CheckLast \/ CheckNow
    <3>1. UNCHANGED <<old, t>>
      BY <2>3 DEF CheckLast, CheckNow
    <3> QED
      BY <3>1 DEF Levelled
  <2> QED
    BY <2>1, <2>2, <2>3
<1>3. (begun => OfHour(DRZ, Hour(now)))' /\ \A h \in DOMAIN rows' : rows'[h].good => OfHour(rows'[h].drz, h)
  BY <1>1 DEF Levelled
<1> QED
  BY <1>2, <1>3 DEF Levelled

\* devdata_save marks the row of the running hour good when DRZ is.
LEMMA SavedGood ==
    ASSUME TypeOK, Levelled, devdata_save
    PROVE  \A h \in DOMAIN rows' : rows'[h].good => OfHour(rows'[h].drz, h)
<1> SUFFICES ASSUME NEW h \in DOMAIN rows', rows'[h].good PROVE OfHour(rows'[h].drz, h)
  OBVIOUS
<1>1. CASE h = Hour(now)
  <2>0. rows'[h] = [z |-> Z, drz |-> DRZ, good |-> begun]
    BY <1>1, SaveFacts
  <2>1. rows'[h].good = begun /\ rows'[h].drz = DRZ
    BY <2>0
  <2> QED
    BY <1>1, <2>1 DEF Levelled
<1>2. CASE h # Hour(now)
  BY <1>2, SaveFacts DEF Levelled
<1> QED
  BY <1>1, <1>2

LEMMA DataLevelled ==
    ASSUME TypeOK, Levelled, Freeze \/ SameHour \/ NewHour \/ Boot \/ Record PROVE Levelled'
<1>1. UNCHANGED <<now, t, old>>
  BY DEF Freeze, SameHour, NewHour, Boot, Record, down
<1>2. \A h \in DOMAIN rows' : rows'[h].good => OfHour(rows'[h].drz, h)
  BY SavedGood DEF Freeze, SameHour, NewHour, Boot, Record, Levelled
<1>3. begun' => OfHour(DRZ', Hour(now))
  <2>1. CASE NewHour
    BY <2>1, EmptyOfHour DEF NewHour, reset_DRZ
  <2>2. CASE ~NewHour
    <3>1. UNCHANGED <<DRZ, begun>>
      BY <2>2 DEF Freeze, SameHour, Boot, Record, ghosts
    <3> QED
      BY <3>1 DEF Levelled
  <2> QED
    BY <2>1, <2>2
<1>4. \A r \in old' : r.good => OfHour(r.drz, Hour(t') - 1)
  BY <1>1 DEF Levelled
<1> QED
  BY <1>1, <1>2, <1>3, <1>4 DEF Levelled

LEMMA StopLevelled == ASSUME TypeOK, Levelled, Exit \/ PowerLoss PROVE Levelled'
<1>1. \A h \in DOMAIN rows' : rows'[h].good => OfHour(rows'[h].drz, h)
  BY SavedGood DEF Exit, PowerLoss, Levelled
<1>2. OfHour(DRZ', Hour(now')) /\ old' = {}
  BY EmptyOfHour DEF Exit, PowerLoss, Gone
<1> QED
  BY <1>1, <1>2 DEF Levelled

\* A row of the running hour that is good, and what was read since the start,
\* make up levels of the running hour.
LEMMA RecoverLevelled == ASSUME TypeOK, TableInv, Recover PROVE Levelled'
<1>1. UNCHANGED <<now, rows, t, old>>
  BY DEF Recover, down
<1>2. begun /\ OfHour(DRZ, Hour(now))
  BY DEF TableInv, Tabled, Levelled, Recover
<1>3. begun' => OfHour(DRZ', Hour(now))
  <2>1. CASE DOMAIN rows = {}
    BY <1>2, <2>1 DEF Recover
  <2>2. CASE DOMAIN rows # {} /\ Latest(DOMAIN rows) # Hour(now)
    BY <2>2, EmptyOfHour DEF Recover, reset_DRZ
  <2>3. CASE DOMAIN rows # {} /\ Latest(DOMAIN rows) = Hour(now)
    <3> DEFINE r == rows[Hour(now)]
    <3>1. begun' = r.good
          /\ DRZ' = [i \in Sensor |-> IF r.drz[i] = NoLevels THEN DRZ[i] ELSE r.drz[i]]
      BY <2>3 DEF Recover
    <3>2. Hour(now) \in DOMAIN rows
      BY <2>3, LatestFacts DEF TableInv
    <3>3. r.good => OfHour(r.drz, Hour(now))
      BY <3>2 DEF TableInv, Levelled
    <3>4. \A i \in Sensor : DRZ'[i] = DRZ[i] \/ DRZ'[i] = r.drz[i]
      BY <3>1
    <3> HIDE DEF r
    <3> QED
      BY <1>2, <3>1, <3>3, <3>4 DEF OfHour
  <2> QED
    BY <2>1, <2>2, <2>3
<1>4. /\ \A h \in DOMAIN rows' : rows'[h].good => OfHour(rows'[h].drz, h)
      /\ \A r \in old' : r.good => OfHour(r.drz, Hour(t') - 1)
  BY <1>1 DEF TableInv, Levelled
<1> QED
  BY <1>1, <1>3, <1>4 DEF Levelled

LEMMA TickLevelled == ASSUME TypeOK, TableInv, Tick PROVE Levelled'
<1>1. UNCHANGED <<DRZ, rows, t, old>>
  BY DEF Tick, down
<1>2. ASSUME begun' PROVE OfHour(DRZ', Hour(now'))
  <2>1. begun /\ (Hour(now') = Hour(now) \/ ~On)
    BY <1>2 DEF Tick
  <2>2. CASE Hour(now') = Hour(now)
    BY <1>1, <2>1, <2>2 DEF TableInv, Levelled
  <2>3. CASE ~On
    BY <1>1, <2>3, EmptyOfHour DEF TableInv, Tabled
  <2> QED
    BY <2>1, <2>2, <2>3
<1>3. /\ \A h \in DOMAIN rows' : rows'[h].good => OfHour(rows'[h].drz, h)
      /\ \A r \in old' : r.good => OfHour(r.drz, Hour(t') - 1)
  BY <1>1 DEF TableInv, Levelled
<1> QED
  BY <1>2, <1>3 DEF Levelled

LEMMA NextLevelled == ASSUME TypeOK, TableInv, [Next]_vars PROVE Levelled'
<1>0. Levelled
  BY DEF TableInv
<1>1. CASE UNCHANGED vars
  <2>1. UNCHANGED <<now, DRZ, rows, t, old, begun>>
    BY <1>1 DEF vars, down, ghosts
  <2> QED
    BY <1>0, <2>1 DEF Levelled
<1>2. CASE Next
  BY <1>0, <1>2, ReadLevelled, CheckLevelled, DataLevelled, StopLevelled, RecoverLevelled,
     TickLevelled DEF Next, DownThread, DataThread
<1> QED
  BY <1>1, <1>2

-----------------------------------------------------------------------------
(* The rows of the table.                                                    *)

LEMMA DownTabled == ASSUME TypeOK, Tabled, DownThread PROVE Tabled'
<1>1. UNCHANGED <<now, rows, pc, last, recordtime, begun, stopped>>
  BY DEF DownThread, AddBase, Clear, CheckTime, CheckLast, CheckNow, CheckEnd, data, ghosts
<1>2. On \/ DRZ' = DRZ
  BY DEF DownThread, AddBase, Clear, CheckTime, CheckLast, CheckNow, CheckEnd
<1> QED
  BY <1>1, <1>2 DEF Tabled, On

\* devdata_save keeps the rows in order, and those of the past as they are.
LEMMA SaveTabled ==
    ASSUME TypeOK, Tabled, devdata_save, now' = now, stopped \subseteq stopped'
    PROVE  /\ \A h \in DOMAIN rows' : h <= Hour(now)
           /\ \E h \in DOMAIN rows' : \A k \in DOMAIN rows' : k <= h
           /\ \A h \in DOMAIN rows' \ stopped' : h < Hour(now) => rows'[h].good
           /\ rows'[Hour(now)].good = begun
<1>1. Hour(now) \in Nat
  BY TimeFacts DEF TypeOK
<1>2. DOMAIN rows' = DOMAIN rows \cup {Hour(now)}
  BY SaveFacts
<1>3. \A h \in DOMAIN rows' : h <= Hour(now)
  BY <1>1, <1>2 DEF Tabled
<1>4. Hour(now) \in DOMAIN rows'
  BY <1>2
<1>5. rows'[Hour(now)] = [z |-> Z, drz |-> DRZ, good |-> begun]
  BY SaveFacts
<1>6. rows'[Hour(now)].good = begun
  BY <1>5
<1>7. ASSUME NEW h \in DOMAIN rows' \ stopped', h < Hour(now) PROVE rows'[h].good
  <2>1. h # Hour(now)
    BY <1>1, <1>7
  <2>2. h \in DOMAIN rows \ stopped
    BY <1>2, <1>7, <2>1
  <2>3. rows'[h] = rows[h]
    BY <2>1, <2>2, SaveFacts
  <2> QED
    BY <1>7, <2>2, <2>3 DEF Tabled
<1> QED
  BY <1>3, <1>4, <1>6, <1>7

LEMMA FreezeTabled == ASSUME TypeOK, Tabled, Freeze PROVE Tabled'
<1>1. UNCHANGED <<now, DRZ, recordtime, begun, stopped>> /\ pc = "top" /\ pc' = "poll"
  BY DEF Freeze, ghosts
<1>2. CASE last = now
  <2>1. UNCHANGED <<rows, last>>
    BY <1>2 DEF Freeze
  <2> QED
    BY <1>1, <1>2, <2>1 DEF Tabled, On
<1>3. CASE last # now
  <2>1. last' = now /\ devdata_save
    BY <1>3 DEF Freeze
  <2>2. /\ \A h \in DOMAIN rows' : h <= Hour(now)
        /\ \E h \in DOMAIN rows' : \A k \in DOMAIN rows' : k <= h
        /\ \A h \in DOMAIN rows' \ stopped' : h < Hour(now) => rows'[h].good
        /\ rows'[Hour(now)].good = begun
    BY <1>1, <2>1, SaveTabled
  <2>3. Slot(now) \in Nat
    BY TimeFacts, LevelAssumption DEF TypeOK
  <2>4. Hour(now) \in stopped \/ begun \/ Slot(now) = 0
    BY <1>1 DEF Tabled
  <2>5. Slot(now) > 0 /\ Hour(now) \notin stopped => rows'[Hour(now)].good
    BY <2>2, <2>3, <2>4
  <2> QED
    BY <1>1, <2>2, <2>4, <2>5 DEF Tabled, On
<1> QED
  BY <1>2, <1>3

LEMMA RecordTabled == ASSUME TypeOK, Tabled, Record PROVE Tabled'
<1>1. /\ UNCHANGED <<now, DRZ, pc, last, begun, stopped>> /\ devdata_save /\ On
      /\ recordtime # Hour(now)
  BY DEF Record, data, ghosts
<1>2. pc \notin {"off", "recover"}
  BY <1>1 DEF On, Tabled
<1>3. /\ \A h \in DOMAIN rows' : h <= Hour(now)
      /\ \E h \in DOMAIN rows' : \A k \in DOMAIN rows' : k <= h
      /\ \A h \in DOMAIN rows' \ stopped' : h < Hour(now) => rows'[h].good
      /\ rows'[Hour(now)].good = begun
  BY <1>1, SaveTabled
<1>4. Slot(now) \in Nat
  BY TimeFacts, LevelAssumption DEF TypeOK
<1>5. last = now /\ Slot(now) > 0 /\ Hour(now) \notin stopped => begun
  BY <1>4 DEF Tabled
<1> QED
  BY <1>1, <1>2, <1>3, <1>5 DEF Tabled, On

LEMMA PollTabled == ASSUME TypeOK, Tabled, SameHour \/ NewHour PROVE Tabled'
<1>1. UNCHANGED <<now, rows, last, recordtime>> /\ pc = "poll" /\ pc' = "top"
  BY DEF SameHour, NewHour
<1>2. stopped \subseteq stopped' /\ (begun' \/ Hour(now) \in stopped')
  BY DEF SameHour, NewHour
<1> QED
  BY <1>1, <1>2 DEF Tabled, On

LEMMA BootTabled == ASSUME TypeOK, Tabled, Boot PROVE Tabled'
<1>1. /\ UNCHANGED <<now, DRZ, rows, begun, stopped>> /\ pc = "off" /\ pc' = "recover"
      /\ recordtime' = Hour(now)
  BY DEF Boot, ghosts
<1> QED
  BY <1>1 DEF Tabled, On

LEMMA StopTabled == ASSUME TypeOK, Tabled, Exit \/ PowerLoss PROVE Tabled'
<1>1. /\ now' = now /\ DRZ' = [i \in Sensor |-> NoLevels] /\ pc' = "off" /\ begun'
      /\ stopped' = stopped \cup {Hour(now)}
  BY DEF Exit, PowerLoss, Gone
<1>2. /\ \A h \in DOMAIN rows' : h <= Hour(now)
      /\ DOMAIN rows' = {} \/ \E h \in DOMAIN rows' : \A k \in DOMAIN rows' : k <= h
      /\ \A h \in DOMAIN rows' \ stopped' : h < Hour(now) => rows'[h].good
  <2>1. CASE Exit
    <3>1. devdata_save
      BY <2>1 DEF Exit
    <3> QED
      BY <1>1, <3>1, SaveTabled
  <2>2. CASE PowerLoss
    <3>1. rows' = rows
      BY <2>2 DEF PowerLoss
    <3> QED
      BY <1>1, <3>1 DEF Tabled
  <2> QED
    BY <2>1, <2>2
<1> QED
  BY <1>1, <1>2 DEF Tabled, On

LEMMA RecoverTabled == ASSUME TypeOK, Tabled, Recover PROVE Tabled'
<1>1. /\ UNCHANGED <<now, rows, last, recordtime, stopped>> /\ pc = "recover" /\ pc' = "top"
  BY DEF Recover
<1>2. begun' \/ Hour(now) \in stopped
  <2>1. CASE DOMAIN rows = {}
    BY <1>1, <2>1 DEF Recover, Tabled
  <2>2. CASE DOMAIN rows # {} /\ Latest(DOMAIN rows) # Hour(now)
    BY <2>2 DEF Recover
  <2>3. CASE DOMAIN rows # {} /\ Latest(DOMAIN rows) = Hour(now)
    BY <1>1, <2>3, LatestFacts DEF Tabled
  <2> QED
    BY <2>1, <2>2, <2>3
<1> QED
  BY <1>1, <1>2 DEF Tabled, On

\* The clock moves on only after the freeze of its slot: at the turn of the hour
\* the row of the hour is good.
LEMMA TickTabled == ASSUME TypeOK, Tabled, Tick PROVE Tabled'
<1>1. /\ UNCHANGED <<DRZ, rows, pc, last, recordtime, stopped>> /\ now' = now + 1
      /\ (On => last = now /\ pc # "recover")
      /\ begun' = (begun /\ (Hour(now') = Hour(now) \/ ~On))
  BY DEF Tick, data
<1>2. now \in Nat /\ Hour(now) \in Nat /\ Slot(now) \in Nat
  BY TimeFacts, LevelAssumption DEF TypeOK
<1>3. pc \in {"off", "top", "poll"} /\ (On => last' # now')
  BY <1>1, <1>2 DEF TypeOK, On
<1>4. Slots \in Nat /\ Slots > 1
  BY LevelAssumption
<1>5. CASE Hour(now') = Hour(now) /\ Slot(now') = Slot(now) + 1
  <2>1. begun' = begun
    BY <1>1, <1>5 DEF TypeOK
  <2>2. begun \/ Hour(now) \in stopped \/ pc = "poll"
    BY <1>1, <1>3 DEF Tabled, On
  <2>3. pc = "poll" => On
    BY DEF On
  <2> QED
    BY <1>1, <1>3, <1>5, <2>1, <2>2, <2>3 DEF Tabled, On
<1>6. CASE Hour(now') = Hour(now) + 1 /\ Slot(now') = 0 /\ Slot(now) = Slots - 1
  <2>1. \A h \in DOMAIN rows : h \in Nat
    BY LevelAssumption, HourMonotone DEF TypeOK, Hours
  <2>2. \A h \in DOMAIN rows : h <= Hour(now') /\ h # Hour(now')
    BY <1>2, <1>6, <2>1 DEF Tabled
  <2>3. ~On => begun'
    BY <1>1 DEF Tabled, On
  <2>4. ASSUME NEW h \in DOMAIN rows \ stopped, h < Hour(now') PROVE rows[h].good
    <3>1. CASE h < Hour(now)
      BY <3>1, <2>4 DEF Tabled
    <3>2. CASE h = Hour(now)
      <4>1. On
        BY <2>4, <3>2 DEF Tabled, On
      <4>2. last = now /\ Slot(now) > 0
        BY <1>1, <1>4, <1>6, <4>1
      <4> QED
        BY <2>4, <3>2, <4>1, <4>2 DEF Tabled
    <3> QED
      BY <1>2, <1>6, <2>1, <2>4, <3>1, <3>2
  <2> QED
    BY <1>1, <1>3, <1>6, <2>2, <2>3, <2>4 DEF Tabled, On
<1> QED
  BY <1>1, <1>2, <1>5, <1>6, SlotOn

LEMMA NextTabled == ASSUME TypeOK, Tabled, [Next]_vars PROVE Tabled'
<1>1. CASE UNCHANGED vars
  BY <1>1 DEF Tabled, On, vars, data, ghosts
<1>2. CASE Next
  BY <1>2, DownTabled, FreezeTabled, RecordTabled, PollTabled, BootTabled, StopTabled,
     RecoverTabled, TickTabled DEF Next, DataThread
<1> QED
  BY <1>1, <1>2

LEMMA NextTable == ASSUME TypeOK, TableInv, [Next]_vars PROVE TypeOK' /\ TableInv'
BY NextTypes, NextLevelled, NextTabled DEF TableInv

LEMMA TableAlways == Spec => [](TypeOK /\ TableInv)
BY InitTypes, InitTable, NextTable, PTL DEF Spec

-----------------------------------------------------------------------------
(* Theorems.                                                                 *)

\* The state of the threads and of the table hour keeps its types: a slot of DRZ
\* its 16 bits, and no row is of an hour after the end of the clock.
THEOREM TypeCorrect == Spec => []TypeOK
BY TableAlways, PTL

\* From the freeze of its second slot on the row of an hour holds levels of that
\* hour only, each in its slot, for every number of sensors and of slots, whatever
\* the interleaving of the three threads, unless the process was stopped in the hour.
THEOREM RowsOfTheirHours == Spec => []RowOfItsHour
<1>1. TypeOK /\ TableInv => RowOfItsHour
  <2> SUFFICES ASSUME TypeOK, TableInv, NEW h \in DOMAIN rows \ stopped,
                      h < Hour(now) \/ (On /\ Slot(now) > 0 /\ last = now)
               PROVE  OfHour(rows[h].drz, h)
    BY DEF RowOfItsHour, OfHour
  <2>1. CASE h < Hour(now)
    <3>1. rows[h].good
      BY <2>1 DEF TableInv, Tabled
    <3> QED
      BY <3>1 DEF TableInv, Levelled
  <2>2. CASE ~(h < Hour(now))
    <3>1. h \in Nat /\ Hour(now) \in Nat /\ h <= Hour(now)
      BY LevelAssumption, TimeFacts, HourMonotone DEF TypeOK, Hours, TableInv, Tabled
    <3>2. h = Hour(now)
      BY <2>2, <3>1
    <3>3. rows[h].good
      BY <2>2, <3>2 DEF TableInv, Tabled
    <3> QED
      BY <3>3 DEF TableInv, Levelled
  <2> QED
    BY <2>1, <2>2
<1> QED
  BY <1>1, TableAlways, PTL

\* In a row of the hour before a level of the last slot was read just before the
\* first slot of this hour.
LEMMA RowFacts ==
    ASSUME TypeOK, Levelled, Slot(t) = 0, NEW r \in old, r.good, NEW i \in Sensor,
           r.drz[i][Slots - 1] # NoEntry
    PROVE  r.drz[i][Slots - 1].at = t - 1
<1>1. t \in Nat /\ Hour(t) \in Nat /\ t = Hour(t) * Slots + Slot(t)
  BY TimeFacts, SlotFacts DEF TypeOK
<1>2. Slots \in Nat /\ Slots > 1 /\ Slots - 1 \in 0..(Slots - 1)
  BY LevelAssumption
<1>3. OfHour(r.drz, Hour(t) - 1)
  BY DEF Levelled
<1>4. r.drz[i][Slots - 1].at = (Hour(t) - 1) * Slots + (Slots - 1)
  BY <1>2, <1>3 DEF OfHour
<1>5. \A a \in Nat : a * Slots \in Nat /\ (a - 1) * Slots + (Slots - 1) = a * Slots - 1
  BY <1>2
<1>6. t = Hour(t) * Slots
  BY <1>1, <1>5
<1> QED
  BY <1>1, <1>4, <1>5, <1>6

\* A slot of DRZ with a level was filled in that slot of the running hour.
LEMMA DRZFacts ==
    ASSUME TypeOK, Levelled, begun, Hour(now) = Hour(t), NEW i \in Sensor,
           NEW s \in 0..(Slots - 1), DRZ[i][s] # NoEntry
    PROVE  DRZ[i][s].at = (t - Slot(t)) + s
<1>1. t \in Nat /\ Slot(t) \in 0..(Slots - 1) /\ t = Hour(t) * Slots + Slot(t)
  BY TimeFacts, SlotFacts DEF TypeOK
<1>2. DRZ[i][s].at = Hour(t) * Slots + s
  BY DEF Levelled, OfHour
<1>3. Slots \in Nat /\ Slots > 1
  BY LevelAssumption
<1>4. Hour(t) \in Nat
  BY TimeFacts DEF TypeOK
<1>5. Hour(t) * Slots \in Nat
  BY <1>3, <1>4
<1> QED
  BY <1>1, <1>2, <1>5

LEMMA LastCompared == ASSUME TypeOK, Levelled, CheckLast PROVE Compared'
<1> SUFFICES ASSUME sure', HasRow, before' # NoEntry PROVE before'.at = t - 1
  BY DEF Compared, CheckLast, HasRow
<1>1. PICK s \in Tm, r \in Tm :
         before' \in LastAt(s, r) /\ sure' = (sure /\ InHour /\ s = Slot(t) /\ (s = 0 \/ r = Slot(t)))
  BY DEF CheckLast
<1>2. InHour /\ s = Slot(t) /\ (s = 0 \/ r = Slot(t))
  BY <1>1
<1>3. n \in Sensor
  BY LevelAssumption DEF CheckLast, TypeOK, Sensor
<1>4. CASE s = 0
  <2>1. old # {} /\ \A o \in old : o.good
    BY <1>2, <1>4 DEF HasRow
  <2>2. PICK o \in old : before' = o.drz[n][Slots - 1]
    BY <1>1, <1>4, <2>1 DEF LastAt
  <2> QED
    BY <1>2, <1>3, <1>4, <2>1, <2>2, RowFacts
<1>5. CASE s # 0
  <2>1. r \in 0..(Slots - 1) /\ r # 0 /\ r = Slot(t) /\ r - 1 \in 0..(Slots - 1)
    BY <1>2, <1>5, LevelAssumption DEF Tm
  <2>2. before' = DRZ[n][r - 1]
    BY <1>1, <1>5, <2>1 DEF LastAt
  <2>3. before'.at = (t - Slot(t)) + (r - 1)
    BY <1>2, <1>3, <2>1, <2>2, DRZFacts DEF InHour
  <2>4. t \in Nat
    BY TimeFacts DEF TypeOK
  <2> QED
    BY <2>1, <2>3, <2>4
<1> QED
  BY <1>4, <1>5

LEMMA NextCompared == ASSUME TypeOK, TableInv, Compared, [Next]_vars PROVE Compared'
<1>1. CASE CheckLast
  BY <1>1, LastCompared DEF TableInv
<1>2. CASE dpc' # "now"
  BY <1>2 DEF Compared
<1>3. CASE UNCHANGED down
  BY <1>3 DEF Compared, HasRow, down
<1>4. CASE UNCHANGED vars
  BY <1>3, <1>4 DEF vars
<1>5. CASE Next
  <2>1. CASE DownThread
    BY <1>1, <1>2, <1>3, <2>1 DEF DownThread, AddBase, Clear, CheckTime, CheckNow, CheckEnd
  <2>2. CASE DataThread
    BY <1>2, <1>3, <2>2 DEF DataThread, Freeze, SameHour, NewHour, Exit, Gone, Boot, Recover
  <2>3. CASE PowerLoss \/ Record \/ Tick
    BY <1>2, <1>3, <2>3 DEF PowerLoss, Gone, Record, Tick
  <2> QED
    BY <1>5, <2>1, <2>2, <2>3 DEF Next
<1> QED
  BY <1>4, <1>5

\* The levels that the check compares are those of the sensor itself, read in
\* this slot and in the one before.
LEMMA CheckCompares ==
    ASSUME TypeOK, TableInv, Compared, CheckNow, sure', HasRow, jia',
           ~IsHigh(DRZ[n][Slot(t)])
    PROVE  DRZ[n][Slot(t)].at = t /\ before.at = t - 1
<1>1. PICK s \in Tm : /\ jia' = (Moved(DRZ[n][s]) \/ IsHigh(DRZ[n][s]))
                      /\ sure' = (sure /\ InHour /\ s = Slot(t))
  BY DEF CheckNow
<1>2. sure /\ InHour /\ s = Slot(t) /\ Moved(DRZ[n][Slot(t)])
  BY <1>1
<1>3. DRZ[n][Slot(t)] # NoEntry /\ before # NoEntry
  BY <1>2 DEF Moved, NoEntry
<1>4. before.at = t - 1
  BY <1>2, <1>3 DEF Compared, CheckNow
<1>5. n \in Sensor
  BY LevelAssumption DEF CheckNow, TypeOK, Sensor
<1>6. t \in Nat /\ Slot(t) \in 0..(Slots - 1) /\ Slot(t) \in Nat
  BY TimeFacts, LevelAssumption DEF TypeOK
<1>7. DRZ[n][Slot(t)].at = (t - Slot(t)) + Slot(t)
  BY <1>2, <1>3, <1>5, <1>6, DRZFacts DEF TableInv, InHour
<1> QED
  BY <1>4, <1>6, <1>7

\* An extra report for a level that moved is called for only when the sensor
\* itself read the two levels, in this slot and in the one before, whatever the
\* other threads do to DRZ, as long as they leave the time of the check alone.
THEOREM MovesAreReal == Spec => MoveIsReal
<1>1. TypeOK /\ TableInv /\ Compared /\ [Next]_vars =>
         [CheckNow /\ sure' /\ HasRow /\ jia' =>
             LET e == DRZ[n][Slot(t)]
             IN  IsHigh(e) \/ (e.at = t /\ before.at = t - 1)]_vars
  BY CheckCompares
<1>2. Init => Compared
  BY DEF Init, Compared
<1> QED
  BY <1>1, <1>2, NextCompared, TableAlways, PTL DEF Spec, MoveIsReal

-----------------------------------------------------------------------------
(* What the sensors read is where the check looks for it.                    *)

LEMMA UnseenFacts ==
    LET f == [i \in Sensor |-> Unseen]
    IN  f \in SeenType /\ NoneSeen(f) /\ \A i \in Sensor : f[i].lvl < FFFF
<1>1. None < FFFF
  BY LevelAssumption DEF None, FFFF
<1> QED
  BY <1>1 DEF Unseen, SeenType, NoneSeen

LEMMA InitSeen == Init => SeenInv
<1> SUFFICES ASSUME Init PROVE SeenInv
  OBVIOUS
<1>1. cur \in SeenType /\ prev \in SeenType /\ NoneSeen(cur) /\ NoneSeen(prev)
      /\ \A i \in Sensor : cur[i].lvl < FFFF /\ prev[i].lvl < FFFF
  BY UnseenFacts DEF Init
<1>2. Idle /\ Kept /\ Written
  BY <1>1 DEF Init, Idle, Kept, Written, NoneSeen
<1>3. Looked /\ Found
  BY DEF Init, Looked, Found
<1> QED
  BY <1>1, <1>2, <1>3 DEF SeenInv

\* A reading or a failure of sensor i: cur[i] changes with the level of the slot.
LEMMA ReadSeen ==
    ASSUME TypeOK, SeenInv, NEW i \in Sensor, Clear(i) \/ \E l \in Levels : AddBase(i, l)
    PROVE  SeenInv'
<1>1. PICK e \in [lvl : Levels \cup {None}, early : BOOLEAN], d \in Entry :
          /\ cur' = [cur EXCEPT ![i] = e] /\ DRZ' = [DRZ EXCEPT ![i][Slot(now)] = d]
          /\ e.lvl < FFFF
          /\ e.lvl # None => begun /\ pc # "recover" /\ d.lvl = e.lvl /\ (e.early => last # now)
  <2>1. Unseen \in [lvl : Levels \cup {None}, early : BOOLEAN] /\ Unseen.lvl = None /\ None < FFFF
    BY LevelAssumption DEF Unseen, None, FFFF
  <2>2. CASE Clear(i)
    BY <2>1, <2>2, EmptyTypes DEF Clear
  <2>3. ASSUME NEW l \in Levels, AddBase(i, l)
        PROVE  \E e \in [lvl : Levels \cup {None}, early : BOOLEAN], d \in Entry :
          /\ cur' = [cur EXCEPT ![i] = e] /\ DRZ' = [DRZ EXCEPT ![i][Slot(now)] = d]
          /\ e.lvl < FFFF
          /\ e.lvl # None => begun /\ pc # "recover" /\ d.lvl = e.lvl /\ (e.early => last # now)
    <3> DEFINE d == [lvl |-> l % Word, at |-> now]
    <3>1. l \in Nat /\ l % Word \in 0..FFFF /\ (l < FFFF => l % Word = l)
      BY LevelAssumption DEF FFFF
    <3>2. d \in Entry /\ d.lvl = l % Word
      BY <3>1 DEF TypeOK, Entry
    <3>3. DRZ' = [DRZ EXCEPT ![i][Slot(now)] = d]
      BY <2>3 DEF AddBase, set_DRZ
    <3>4. CASE begun /\ pc # "recover" /\ l < FFFF
      <4> DEFINE e == [lvl |-> l, early |-> last # now]
      <4>1. cur' = [cur EXCEPT ![i] = e]
        BY <2>3, <3>4 DEF AddBase
      <4>2. e \in [lvl : Levels \cup {None}, early : BOOLEAN] /\ e.lvl = l
            /\ (e.early => last # now)
        OBVIOUS
      <4> HIDE DEF e, d
      <4> QED
        BY <3>1, <3>2, <3>3, <3>4, <4>1, <4>2
    <3>5. CASE ~(begun /\ pc # "recover" /\ l < FFFF)
      <4>1. cur' = [cur EXCEPT ![i] = Unseen]
        BY <2>3, <3>5 DEF AddBase
      <4> HIDE DEF d
      <4> QED
        BY <2>1, <3>2, <3>3, <4>1
    <3> QED
      BY <3>4, <3>5
  <2> QED
    BY <2>2, <2>3
<1>2. UNCHANGED <<now, rows, pc, last, lasttime, t, old, begun, prev>> /\ On
      /\ ((dpc' = "time" /\ dpc = "idle") \/ UNCHANGED <<dpc, n, before, sure>>)
  BY DEF Clear, AddBase, data, down
<1>3. Slot(now) \in 0..(Slots - 1)
  BY TimeFacts DEF TypeOK
<1>4. cur' \in SeenType /\ cur'[i] = e /\ \A j \in Sensor : j # i => cur'[j] = cur[j]
  BY <1>1 DEF SeenInv, SeenType
<1>5. DRZ \in [Sensor -> [0..(Slots - 1) -> Entry]]
  BY DEF TypeOK, DRZLevels
<1>6. /\ DRZ'[i][Slot(now)] = d
      /\ \A j \in Sensor, s \in 0..(Slots - 1) :
            <<j, s>> # <<i, Slot(now)>> => DRZ'[j][s] = DRZ[j][s]
  BY <1>1, <1>3, <1>5
<1>7. Idle'
  <2>1. e.lvl # None => begun /\ pc \notin {"off", "recover"}
    BY <1>1, <1>2 DEF On
  <2> QED
    BY <1>2, <1>4, <2>1 DEF SeenInv, Idle, NoneSeen
<1>8. Kept'
  <2> SUFFICES ASSUME NEW j \in Sensor
               PROVE  /\ cur'[j].lvl < FFFF /\ prev[j].lvl < FFFF
                      /\ cur'[j].lvl # None => DRZ'[j][Slot(now)].lvl = cur'[j].lvl
                      /\ prev[j].lvl # None /\ begun /\ Slot(now) > 0 =>
                            DRZ'[j][Slot(now) - 1].lvl = prev[j].lvl
    BY <1>2 DEF Kept
  <2>1. Slot(now) > 0 => Slot(now) - 1 \in 0..(Slots - 1) /\ Slot(now) - 1 # Slot(now)
    BY <1>3, LevelAssumption
  <2>2. Slot(now) > 0 => DRZ'[j][Slot(now) - 1] = DRZ[j][Slot(now) - 1]
    BY <1>6, <2>1
  <2>3. CASE j = i
    BY <1>1, <1>4, <1>6, <2>2, <2>3 DEF SeenInv, Kept
  <2>4. CASE j # i
    BY <1>3, <1>4, <1>6, <2>2, <2>4 DEF SeenInv, Kept
  <2> QED
    BY <2>3, <2>4
<1>9. Written'
  BY <1>1, <1>2, <1>4 DEF SeenInv, Written
<1>10. Looked' /\ Found'
  BY <1>2 DEF SeenInv, Looked, Found
<1> QED
  BY <1>2, <1>4, <1>7, <1>8, <1>9, <1>10 DEF SeenInv

\* What the check finds as last is what the sensor read in the slot before.
LEMMA LastFound == ASSUME TypeOK, SeenInv, CheckLast PROVE Found'
<1> SUFFICES ASSUME sure', t = now, prev[n].lvl # None, Slot(t) > 0 \/ prev[n].early
             PROVE  before'.lvl = prev[n].lvl
  BY DEF Found, CheckLast, ghosts
<1>1. PICK s \in Tm, r \in Tm :
         before' \in LastAt(s, r) /\ sure' = (sure /\ InHour /\ s = Slot(t) /\ (s = 0 \/ r = Slot(t)))
  BY DEF CheckLast
<1>2. sure /\ InHour /\ s = Slot(t) /\ (s = 0 \/ r = Slot(t))
  BY <1>1
<1>3. n \in Sensor
  BY LevelAssumption DEF CheckLast, TypeOK, Sensor
<1>4. Slot(t) \in 0..(Slots - 1) /\ Slots \in Nat
  BY TimeFacts, LevelAssumption DEF TypeOK
<1>5. CASE s = 0
  <2>0. ~(Slot(t) > 0) /\ Slot(now) = 0
    BY <1>2, <1>5
  <2>1. /\ Hour(now) - 1 \in DOMAIN rows
        /\ rows[Hour(now) - 1].drz[n][Slots - 1].lvl = prev[n].lvl
    BY <1>3, <2>0 DEF SeenInv, Written
  <2>2. old = {rows[Hour(now) - 1]}
    BY <1>2, <2>0, <2>1 DEF SeenInv, Looked, CheckLast
  <2>3. before' \in {o.drz[n][Slots - 1] : o \in old}
    BY <1>1, <1>5, <2>2 DEF LastAt
  <2> QED
    BY <2>1, <2>2, <2>3
<1>6. CASE s # 0
  <2>1. r = Slot(t) /\ r # 0 /\ Slot(now) > 0
    BY <1>2, <1>4, <1>6
  <2>2. before' = DRZ[n][Slot(now) - 1]
    BY <1>1, <1>6, <2>1 DEF LastAt
  <2> QED
    BY <1>2, <1>3, <2>1, <2>2 DEF SeenInv, Kept, InHour
<1> QED
  BY <1>5, <1>6

LEMMA CheckSeen ==
    ASSUME TypeOK, SeenInv, CheckTime \/ CheckLast \/ CheckNow \/ CheckEnd PROVE SeenInv'
<1>1. UNCHANGED <<now, DRZ, rows, pc, last, lasttime, begun, cur, prev>>
  BY DEF CheckTime, CheckLast, CheckNow, CheckEnd, data, ghosts
<1>2. t' <= now
  <2>1. CASE CheckTime \/ CheckEnd
    BY <2>1, LevelAssumption DEF CheckTime, CheckEnd, TypeOK, Time
  <2>2. CASE CheckLast \/ CheckNow
    BY <2>2 DEF CheckLast, CheckNow, SeenInv, Idle
  <2> QED
    BY <2>1, <2>2
<1>3. Looked'
  <2>1. CASE CheckTime
    BY <1>1, <2>1 DEF CheckTime, Looked, RowBefore
  <2>2. CASE CheckLast \/ CheckNow
    <3>1. UNCHANGED <<now, rows, t, old>> /\ (sure' => sure) /\ dpc \in {"last", "now"}
      BY <1>1, <2>2 DEF CheckLast, CheckNow
    <3> QED
      BY <3>1 DEF SeenInv, Looked
  <2>3. CASE CheckEnd
    BY <2>3 DEF CheckEnd, Looked
  <2> QED
    BY <2>1, <2>2, <2>3
<1>4. Idle' /\ Kept' /\ Written'
  BY <1>1, <1>2 DEF SeenInv, Idle, Kept, Written, NoneSeen
<1>5. Found'
  <2>1. CASE CheckTime \/ CheckNow \/ CheckEnd
    BY <2>1 DEF CheckTime, CheckNow, CheckEnd, Found
  <2>2. CASE CheckLast
    BY <2>2, LastFound
  <2> QED
    BY <2>1, <2>2
<1> QED
  BY <1>1, <1>3, <1>4, <1>5 DEF SeenInv

LEMMA SaveSeen ==
    ASSUME TypeOK, SeenInv, devdata_save, last' \in {last, now},
           UNCHANGED <<now, DRZ, lasttime, down, begun, cur, prev>>,
           pc \notin {"off", "recover"}, pc' \notin {"off", "recover"}
    PROVE  SeenInv'
<1>1. Hour(now) \in Nat
  BY TimeFacts DEF TypeOK
<1>2. DOMAIN rows' = DOMAIN rows \cup {Hour(now)}
  BY SaveFacts
<1>3. rows'[Hour(now)] = [z |-> Z, drz |-> DRZ, good |-> begun]
  BY SaveFacts
<1>4. rows'[Hour(now)].drz = DRZ
  BY <1>3
<1>5. Hour(now) - 1 # Hour(now)
  BY <1>1
<1>6. /\ Hour(now) - 1 \in DOMAIN rows' <=> Hour(now) - 1 \in DOMAIN rows
      /\ Hour(now) - 1 \in DOMAIN rows => rows'[Hour(now) - 1] = rows[Hour(now) - 1]
  BY <1>2, <1>5, SaveFacts
<1>7. Idle' /\ Kept'
  BY DEF SeenInv, Idle, Kept, NoneSeen, down
<1>8. Written'
  BY <1>2, <1>4, <1>6 DEF SeenInv, Written, Kept
<1>9. Looked' /\ Found'
  BY <1>6 DEF SeenInv, Looked, Found, down
<1> QED
  BY <1>7, <1>8, <1>9 DEF SeenInv

LEMMA DataSeen == ASSUME TypeOK, Tabled, SeenInv, Freeze \/ Record PROVE SeenInv'
<1>1. CASE Freeze
  <2>1. /\ UNCHANGED <<now, DRZ, lasttime, down, begun, cur, prev>>
        /\ pc \notin {"off", "recover"} /\ pc' \notin {"off", "recover"}
    BY <1>1 DEF Freeze, ghosts
  <2>2. CASE last # now
    BY <1>1, <2>1, <2>2, SaveSeen DEF Freeze
  <2>3. CASE last = now
    <3>1. UNCHANGED <<last, rows>>
      BY <1>1, <2>3 DEF Freeze
    <3> QED
      BY <2>1, <3>1 DEF SeenInv, Idle, Kept, Written, Looked, Found, NoneSeen, down
  <2> QED
    BY <2>2, <2>3
<1>2. CASE Record
  <2>1. UNCHANGED <<now, DRZ, last, lasttime, down, begun, cur, prev, pc>>
    BY <1>2 DEF Record, data, ghosts
  <2>2. pc \notin {"off", "recover"} /\ devdata_save
    BY <1>2 DEF Record, Tabled, On
  <2> QED
    BY <2>1, <2>2, SaveSeen
<1> QED
  BY <1>1, <1>2

LEMMA PollSeen == ASSUME TypeOK, SeenInv, SameHour \/ NewHour PROVE SeenInv'
<1>1. UNCHANGED <<now, rows, last, dpc, t, old, n, before, sure, cur, prev>>
      /\ pc = "poll" /\ pc' = "top" /\ lasttime' = Hour(now)
  BY DEF SameHour, NewHour, down
<1>2. CASE SameHour
  <2>1. UNCHANGED <<DRZ, begun>>
    BY <1>2 DEF SameHour
  <2> QED
    BY <1>1, <2>1 DEF SeenInv, Idle, Kept, Written, Looked, Found, NoneSeen
<1>3. CASE NewHour
  <2>1. NoneSeen(cur) /\ (Slot(now) > 0 => NoneSeen(prev)) /\ begun'
    BY <1>3 DEF NewHour, SeenInv, Idle
  <2> QED
    BY <1>1, <2>1 DEF SeenInv, Idle, Kept, Written, Looked, Found, NoneSeen
<1> QED
  BY <1>2, <1>3

\* A process that is not running has seen nothing.
LEMMA StartSeen ==
    ASSUME TypeOK, Tabled, SeenInv, Exit \/ PowerLoss \/ Boot \/ Recover PROVE SeenInv'
<1>1. now' = now /\ t' <= now /\ Looked'
  <2>1. CASE Exit \/ PowerLoss
    BY <2>1, LevelAssumption DEF Exit, PowerLoss, Gone, TypeOK, Time, Looked
  <2>2. CASE Boot \/ Recover
    <3>1. UNCHANGED <<now, rows, dpc, t, old, sure>>
      BY <2>2 DEF Boot, Recover, down
    <3> QED
      BY <3>1 DEF SeenInv, Looked, Idle
  <2> QED
    BY <2>1, <2>2
<1>2. NoneSeen(cur') /\ NoneSeen(prev') /\ cur' \in SeenType /\ prev' \in SeenType
  <2>1. CASE Exit \/ PowerLoss
    BY <2>1, UnseenFacts DEF Exit, PowerLoss, Gone
  <2>2. CASE Boot \/ Recover
    BY <2>2 DEF Boot, Recover, ghosts, SeenInv, Idle
  <2> QED
    BY <2>1, <2>2
<1>3. None < FFFF
  BY LevelAssumption DEF None, FFFF
<1>4. lasttime' = None
  BY DEF Exit, PowerLoss, Gone, Boot, Recover, SeenInv, Idle
<1>5. Idle' /\ Kept' /\ Written'
  BY <1>1, <1>2, <1>3, <1>4 DEF Idle, Kept, Written, NoneSeen
<1>6. Found'
  <2>1. dpc' = "now" => n' \in Sensor
    <3>1. CASE Exit \/ PowerLoss
      BY <3>1 DEF Exit, PowerLoss, Gone
    <3>2. CASE Boot \/ Recover
      BY <3>2, LevelAssumption DEF Boot, Recover, down, TypeOK, Sensor
    <3> QED
      BY <3>1, <3>2
  <2> QED
    BY <1>2, <2>1 DEF Found, NoneSeen
<1> QED
  BY <1>1, <1>2, <1>5, <1>6 DEF SeenInv

\* What was read in this slot becomes what was read in the slot before; at the
\* turn of the hour it is in the row, when it came before the freeze.
LEMMA TickSeen == ASSUME TypeOK, Tabled, SeenInv, Tick PROVE SeenInv'
<1>1. /\ UNCHANGED <<DRZ, rows, pc, last, lasttime, dpc, t, old>> /\ now' = now + 1
      /\ (On => last = now /\ pc # "recover")
      /\ begun' = (begun /\ (Hour(now') = Hour(now) \/ ~On))
      /\ prev' = cur /\ cur' = [i \in Sensor |-> Unseen]
  BY DEF Tick, data, down
<1>2. now \in Nat /\ Hour(now) \in Nat /\ Slot(now) \in Nat
  BY TimeFacts, LevelAssumption DEF TypeOK
<1>3. cur' \in SeenType /\ NoneSeen(cur') /\ \A i \in Sensor : cur'[i].lvl < FFFF
  BY <1>1, UnseenFacts
<1>4. prev' \in SeenType /\ \A i \in Sensor : prev'[i].lvl < FFFF
  BY <1>1 DEF SeenInv, Kept
<1>5. t' <= now' /\ t' # now'
  BY <1>1, <1>2 DEF SeenInv, Idle, TypeOK, Time
<1>6. Looked' /\ Found'
  BY <1>5 DEF Looked, Found
<1>7. pc = "off" => NoneSeen(cur) /\ lasttime = None
  BY DEF SeenInv, Idle
<1>8. CASE Hour(now') = Hour(now) /\ Slot(now') = Slot(now) + 1
  <2>1. begun' = begun
    BY <1>1, <1>8 DEF TypeOK
  <2>2. ~begun => NoneSeen(cur)
    BY DEF SeenInv, Idle
  <2>3. Idle'
    BY <1>1, <1>3, <1>5, <1>7, <1>8, <2>1, <2>2 DEF SeenInv, Idle, On
  <2>4. Slot(now') - 1 = Slot(now) /\ Slot(now') # 0
    BY <1>2, <1>8
  <2>5. \A i \in Sensor : prev'[i].lvl # None => DRZ'[i][Slot(now') - 1].lvl = prev'[i].lvl
    BY <1>1, <2>4 DEF SeenInv, Kept
  <2>6. Kept'
    BY <1>3, <1>4, <2>5 DEF Kept, NoneSeen
  <2>7. Written'
    BY <1>3, <2>4 DEF Written, NoneSeen
  <2> QED
    BY <1>3, <1>4, <1>6, <2>3, <2>6, <2>7 DEF SeenInv
<1>9. CASE Hour(now') = Hour(now) + 1 /\ Slot(now') = 0 /\ Slot(now) = Slots - 1
  <2>0. Hour(now') # Hour(now)
    BY <1>2, <1>9
  <2>1. begun' => pc = "off"
    BY <1>1, <2>0, Zenon DEF On
  <2>2. Idle'
    BY <1>1, <1>3, <1>5, <1>7, <1>9, <2>1 DEF SeenInv, Idle, On
  <2>3. Kept'
    BY <1>3, <1>4, <1>9 DEF Kept, NoneSeen
  <2>4. ASSUME NEW i \in Sensor, prev'[i].lvl # None, prev'[i].early
        PROVE  /\ Hour(now') - 1 \in DOMAIN rows'
               /\ rows'[Hour(now') - 1].drz[i][Slots - 1].lvl = prev'[i].lvl
    <3>1. On
      BY <1>1, <1>7, <2>4 DEF On, NoneSeen
    <3>2. last = now
      BY <1>1, <3>1
    <3>3. Hour(now') - 1 = Hour(now)
      BY <1>2, <1>9
    <3> QED
      BY <1>1, <1>9, <2>4, <3>2, <3>3 DEF SeenInv, Written
  <2>5. Written'
    BY <1>3, <2>4 DEF Written, NoneSeen
  <2> QED
    BY <1>3, <1>4, <1>6, <2>2, <2>3, <2>5 DEF SeenInv
<1> QED
  BY <1>1, <1>2, <1>8, <1>9, SlotOn

LEMMA NextSeen == ASSUME TypeOK, Tabled, SeenInv, [Next]_vars PROVE SeenInv'
<1>1. CASE UNCHANGED vars
  BY <1>1 DEF SeenInv, Idle, Kept, Written, Looked, Found, NoneSeen, vars, data, down, ghosts
<1>2. CASE Next
  BY <1>2, ReadSeen, CheckSeen, DataSeen, PollSeen, StartSeen, TickSeen
     DEF Next, DownThread, DataThread
<1> QED
  BY <1>1, <1>2

\* The check finds the two levels a sensor read.
LEMMA CheckFinds ==
    ASSUME TypeOK, SeenInv, CheckNow, t = now, sure'
    PROVE  LET a == prev[n].lvl
               b == cur[n].lvl
           IN  /\ b > High /\ High > 0 => jia'
               /\ a # None /\ b # None /\ (Slot(t) > 0 \/ prev[n].early)
                  /\ Step > 0 /\ (a - b > Step \/ b - a > Step) => jia'
<1> DEFINE a == prev[n].lvl
           b == cur[n].lvl
           e == DRZ[n][Slot(t)]
<1>1. FFFF \in Nat /\ High \in Nat /\ Step \in Nat /\ Levels \subseteq Nat /\ None = -1
  BY LevelAssumption DEF FFFF, None
<1>2. n \in Sensor
  BY LevelAssumption DEF CheckNow, TypeOK, Sensor
<1>3. a \in Levels \cup {None} /\ b \in Levels \cup {None}
  BY <1>2 DEF SeenInv, SeenType
<1>4. a < FFFF /\ b < FFFF
  BY <1>2 DEF SeenInv, Kept
<1>5. b # None => e.lvl = b
  BY <1>2 DEF SeenInv, Kept
<1>6. PICK s \in Tm : /\ jia' = (Moved(DRZ[n][s]) \/ IsHigh(DRZ[n][s]))
                      /\ sure' = (sure /\ InHour /\ s = Slot(t))
  BY DEF CheckNow
<1>7. sure /\ (Moved(e) \/ IsHigh(e) => jia')
  BY <1>6
<1>8. a # None /\ (Slot(t) > 0 \/ prev[n].early) => before.lvl = a
  BY <1>7 DEF SeenInv, Found, CheckNow
<1> HIDE DEF a, b, e
<1>9. ASSUME b > High, High > 0 PROVE jia'
  <2>1. b \in Nat /\ b # None /\ b # FFFF
    BY <1>1, <1>3, <1>4, <1>9
  <2>2. IsHigh(e)
    BY <1>5, <1>9, <2>1 DEF IsHigh
  <2> QED
    BY <1>7, <2>2
<1>10. ASSUME a # None, b # None, Slot(t) > 0 \/ prev[n].early, Step > 0,
              a - b > Step \/ b - a > Step
       PROVE  jia'
  <2>1. a # FFFF /\ b # FFFF
    BY <1>1, <1>3, <1>4, <1>10
  <2>2. e.lvl = b /\ before.lvl = a
    BY <1>5, <1>8, <1>10
  <2>3. Moved(e)
    BY <1>10, <2>1, <2>2 DEF Moved
  <2> QED
    BY <1>7, <2>3
<1> QED
  BY <1>9, <1>10 DEF a, b

\* A sensor whose level moved further than the threshold between two slots, or
\* is above its limit, gets its extra report, as long as the other threads leave
\* the time of the check alone.
THEOREM MovesReported == Spec => MoveReported
<1>1. TypeOK /\ TableInv /\ SeenInv /\ [Next]_vars => SeenInv'
  BY NextSeen DEF TableInv
<1>2. TypeOK /\ SeenInv /\ [Next]_vars =>
         [CheckNow /\ t = now /\ sure' =>
             LET a == prev[n].lvl
                 b == cur[n].lvl
             IN  /\ b > High /\ High > 0 => jia'
                 /\ a # None /\ b # None /\ (Slot(t) > 0 \/ prev[n].early)
                    /\ Step > 0 /\ (a - b > Step \/ b - a > Step) => jia']_vars
  BY CheckFinds
<1> QED
  BY <1>1, <1>2, TableAlways, InitSeen, PTL DEF Spec, MoveReported
=============================================================================
