----------------------------- MODULE WaterLevel -----------------------------
(***************************************************************************)
(* The water levels (app/down/waterlevel.cpp): the down thread stores every *)
(* level it reads in devdata and then checks all sensors against the level  *)
(* of the slot before, which calls for extra reports; the data thread       *)
(* (app/dataprocess/data_save.cpp) freezes devdata into the table hour      *)
(* every five minutes, empties the levels of the slots (DRZ) at the turn of *)
(* the hour, and restores devdata from the latest row when the process      *)
(* starts.  They share devdata without a lock, and the hourly report of the *)
(* up thread writes the same table.  Power may fail at any step.            *)
(*                                                                         *)
(* Time is counted in slots of five minutes.  The loop of the data thread   *)
(* is far shorter than a slot, so it freezes at least once in each; apart   *)
(* from that a slot may end between any two steps.  A level is the sum of   *)
(* what the sensor read, its base and its correction, in the unit of DRZ.   *)
(* Z, the copy of Z1 that is refreshed after every reading, is left out.    *)
(*                                                                         *)
(* localtime gives every caller in the process the same struct tm.  The     *)
(* check keeps its pointer and looks at tm_min again for every sensor; by   *)
(* then any other thread may have written another time there (time2string,  *)
(* lib.cpp:281, of the time of a record, of an hour), so each look finds    *)
(* the minutes of some slot.                                                *)
(***************************************************************************)
EXTENDS Integers

CONSTANTS
    N,          \* the 8 sensors
    Slots,      \* the 12 slots of an hour
    Levels,     \* the levels that occur
    Word,       \* the 65536 values of a slot of DRZ
    Stray,      \* what the word in front of an array of DRZ may hold
    Step,       \* runtime[0x40]
    High,       \* runtime[0x38 + i], the same for all sensors
    MaxTime,    \* bound: the clock stops here
    MaxSamples, \* bound: readings stop after this many
    MaxStops    \* bound: stops of the process

ASSUME LevelAssumption ==
    /\ N \in Nat \ {0} /\ Slots \in Nat \ {0, 1} /\ Levels \subseteq Nat /\ Word \in Nat \ {0}
    /\ Stray \subseteq 0..(Word - 1) /\ Step \in Nat /\ High \in Nat
    /\ MaxTime \in Nat /\ MaxSamples \in Nat /\ MaxStops \in Nat

Sensor == 1..N
FFFF == Word - 1
Time == 0..MaxTime
Hour(x) == x \div Slots
Hours == 0..Hour(MaxTime)
Slot(x) == x % Slots
Tm == 0..(Slots - 1)    \* tm_min of the shared struct tm, as a slot of the hour
None == -1

\* A slot of DRZ.  at is a ghost: when its level was read.
Entry == [lvl : 0..FFFF, at : Time \cup {None}]
NoEntry == [lvl |-> FFFF, at |-> None]
NoLevels == [s \in 0..(Slots - 1) |-> NoEntry]
Unseen == [lvl |-> None, early |-> FALSE]
ZLevels == [Sensor -> BOOLEAN]
DRZLevels == [Sensor -> [0..(Slots - 1) -> Entry]]
Row == [z : ZLevels, drz : DRZLevels, good : BOOLEAN]

VARIABLES
    now,        \* the clock, in slots
    Z, DRZ,     \* devdata: whether each sensor has a level, and its level in each
                \* slot of the hour
    rows,       \* the table hour: the frozen devdata of the hours that have a row
    pc,         \* the data thread: the next step of its loop
    last,       \* its last: the slot of the last freeze
    lasttime,   \* the hour of waterlevel_poll's lasttime, None for 0
    dpc,        \* the down thread: the next step of waterlevel_caculation
    t, old,     \* waterlevel_warn_check: its t, and the levels it read from the
                \* table, if there are any
    n, before,  \* its loop: the sensor, and its last, the level to compare with
    jia,        \* whether the turn of this sensor called jia_add_flags
    sure,       \* ghost: it has found its own time in the struct tm at every look,
                \* and in DRZ the hour of that time
    recordtime, \* the hour of the last hourly report
    samples, stops,
    begun,      \* ghost: DRZ holds nothing but the running hour
    stopped,    \* ghost: the hours in which the process was stopped, or whose turn
                \* the first waterlevel_poll missed
    cur, prev   \* ghost: what a sensor read last in this slot and in the one before,
                \* and whether that was before the freeze of its slot

data == <<pc, last, lasttime>>
down == <<dpc, t, old, n, before, jia, sure>>
bounds == <<samples, stops>>
ghosts == <<begun, stopped, cur, prev>>
vars == <<now, Z, DRZ, rows, data, down, recordtime, bounds, ghosts>>

On == pc # "off"

-----------------------------------------------------------------------------
(* The down thread: waterlevel_caculation.                                  *)

\* Fault: the level is not cut to 16 bits.
set_DRZ_wide(i, l) == DRZ' = [DRZ EXCEPT ![i][Slot(now)] = [lvl |-> l, at |-> now]]

\* set_DRZ at the slot of the clock.
set_DRZ(i, l) == DRZ' = [DRZ EXCEPT ![i][Slot(now)] = [lvl |-> l % Word, at |-> now]]

\* waterlevel_addbase: a level was read.
AddBase(i, l) ==
    /\ On /\ dpc = "idle" /\ samples < MaxSamples
    /\ samples' = samples + 1
    /\ Z' = [Z EXCEPT ![i] = TRUE]
    /\ set_DRZ(i, l)
    /\ cur' = [cur EXCEPT ![i] = IF begun /\ pc # "recover" /\ l < FFFF
                                 THEN [lvl |-> l, early |-> last # now] ELSE Unseen]
    /\ dpc' = "time"
    /\ UNCHANGED <<now, rows, data, t, old, n, before, jia, sure,
                   recordtime, stops, begun, stopped, prev>>

\* waterlevel_addbase after a failure that clears: no check follows.
Clear(i) ==
    /\ On /\ dpc = "idle" /\ samples < MaxSamples
    /\ samples' = samples + 1
    /\ Z' = [Z EXCEPT ![i] = FALSE]
    /\ DRZ' = [DRZ EXCEPT ![i][Slot(now)] = NoEntry]
    /\ cur' = [cur EXCEPT ![i] = Unseen]
    /\ UNCHANGED <<now, rows, data, down, recordtime, stops, begun, stopped, prev>>

\* Fault: the row of the running hour.
RowOfThisHour(x) == Hour(x)

\* The row in which a check in the first slot of an hour looks for the slot before.
RowBefore(x) == Hour(x) - 1

\* waterlevel_warn_check takes the time, and reads the row of the hour before when
\* the struct tm has the first slot.
CheckTime ==
    /\ dpc = "time"
    /\ t' = now
    /\ \E s \in Tm :
          /\ old' = IF s = 0 /\ RowBefore(now) \in DOMAIN rows
                    THEN {rows[RowBefore(now)]} ELSE {}
          /\ sure' = (s = Slot(now))
    /\ n' = 1 /\ before' = NoEntry
    /\ dpc' = "last"
    /\ UNCHANGED <<now, Z, DRZ, rows, data, jia, recordtime, bounds, ghosts>>

\* get_DRZ of the slot before the first one reads in front of the array.
Outside == [lvl : Stray, at : {None}]

\* Fault: a slot before that has no level leaves last as it is.
LastCarried(s, r) ==
    LET found == IF s = 0 THEN {o.drz[n][Slots - 1] : o \in old} ELSE {DRZ[n][r - 1]}
        valid == {e \in found : e.lvl # FFFF}
    IN  IF s > 0 /\ r = 0 THEN Outside ELSE IF valid = {} THEN {before} ELSE valid

\* What the level of the slot before may be found to be, when the struct tm has
\* slot s at the test and slot r in the index.  When the row is not there last is
\* left as the turn of an earlier sensor has set it.
LastAt(s, r) ==
    IF s = 0 THEN IF old = {} THEN {before} ELSE {o.drz[n][Slots - 1] : o \in old}
    ELSE IF r = 0 THEN Outside ELSE {DRZ[n][r - 1]}

\* DRZ holds the hour of the check.
InHour == begun /\ Hour(now) = Hour(t)

\* The turn of a sensor: its level of the slot before ...
CheckLast ==
    /\ dpc = "last" /\ n <= N
    /\ \E s, r \in Tm :
          /\ before' \in LastAt(s, r)
          /\ sure' = (sure /\ InHour /\ s = Slot(t) /\ (s = 0 \/ r = Slot(t)))
    /\ dpc' = "now" /\ jia' = FALSE
    /\ UNCHANGED <<now, Z, DRZ, rows, data, t, old, n, recordtime, bounds, ghosts>>

\* The two thresholds are the same one, runtime[0x40].
Moved(e) ==
    /\ e.lvl # FFFF /\ before.lvl # FFFF /\ Step > 0
    /\ \/ e.lvl - before.lvl > Step
       \/ before.lvl - e.lvl > Step
IsHigh(e) == e.lvl # FFFF /\ High > 0 /\ e.lvl > High

\* ... and the level of this one, which becomes last when there was none.
CheckNow ==
    /\ dpc = "now"
    /\ \E s \in Tm :
          LET e == DRZ[n][s]
          IN  /\ before' = IF before.lvl = FFFF /\ e.lvl # FFFF THEN e ELSE before
              /\ jia' = (Moved(e) \/ IsHigh(e))
              /\ sure' = (sure /\ InHour /\ s = Slot(t))
    /\ n' = n + 1
    /\ dpc' = "last"
    /\ UNCHANGED <<now, Z, DRZ, rows, data, t, old, recordtime, bounds, ghosts>>

CheckEnd ==
    /\ dpc = "last" /\ n > N
    /\ dpc' = "idle" /\ t' = 0 /\ old' = {} /\ n' = 1 /\ before' = NoEntry
    /\ jia' = FALSE /\ sure' = TRUE
    /\ UNCHANGED <<now, Z, DRZ, rows, data, recordtime, bounds, ghosts>>

-----------------------------------------------------------------------------
(* The data thread.                                                         *)

\* devdata_save: the row of the running hour.
devdata_save ==
    rows' = [h \in DOMAIN rows \cup {Hour(now)} |->
                IF h = Hour(now) THEN [z |-> Z, drz |-> DRZ, good |-> begun] ELSE rows[h]]

Freeze ==
    /\ pc = "top"
    /\ pc' = "poll"
    /\ IF last # now THEN last' = now /\ devdata_save ELSE UNCHANGED <<last, rows>>
    /\ UNCHANGED <<now, Z, DRZ, lasttime, down, recordtime, bounds, ghosts>>

\* Fault: DRZ is left as it is.
reset_DRZ_keeps == UNCHANGED DRZ

reset_DRZ == DRZ' = [i \in Sensor |-> NoLevels]

\* waterlevel_poll: the first call only takes the time, and misses the turn of an
\* hour that came between it and the start ...
SameHour ==
    /\ pc = "poll" /\ lasttime \in {None, Hour(now)}
    /\ lasttime' = Hour(now) /\ pc' = "top"
    /\ stopped' = IF begun THEN stopped ELSE stopped \cup {Hour(now)}
    /\ UNCHANGED <<now, Z, DRZ, rows, last, down, recordtime, bounds, begun, cur, prev>>

\* ... a call in another hour empties DRZ, with what was read in this hour.
NewHour ==
    /\ pc = "poll" /\ lasttime \notin {None, Hour(now)}
    /\ lasttime' = Hour(now) /\ pc' = "top"
    /\ reset_DRZ
    /\ begun' = TRUE
    /\ UNCHANGED <<now, Z, rows, last, down, recordtime, bounds, stopped, cur, prev>>

-----------------------------------------------------------------------------
(* Stops and starts.                                                        *)

\* What is left of a process: the tables.
Gone ==
    /\ Z' = [i \in Sensor |-> FALSE] /\ DRZ' = [i \in Sensor |-> NoLevels]
    /\ pc' = "off" /\ last' = None /\ lasttime' = None
    /\ dpc' = "idle" /\ t' = 0 /\ old' = {} /\ n' = 1 /\ before' = NoEntry
    /\ jia' = FALSE /\ sure' = TRUE
    /\ stops' = stops + 1
    /\ stopped' = stopped \cup {Hour(now)}
    /\ begun' = TRUE
    /\ cur' = [i \in Sensor |-> Unseen] /\ prev' = [i \in Sensor |-> Unseen]

\* powerdown_save for an upgrade, or a delayed restart: freeze, and exit.
Exit ==
    /\ pc = "top" /\ stops < MaxStops
    /\ devdata_save
    /\ Gone
    /\ UNCHANGED <<now, recordtime, samples>>

PowerLoss ==
    /\ On /\ stops < MaxStops
    /\ Gone
    /\ UNCHANGED <<now, rows, recordtime, samples>>

Boot ==
    /\ pc = "off"
    /\ pc' = "recover" /\ last' = now /\ recordtime' = Hour(now)
    /\ UNCHANGED <<now, Z, DRZ, rows, lasttime, down, bounds, ghosts>>

Latest(S) == CHOOSE h \in S : \A k \in S : k <= h

\* devdata_recovery, where an empty item of the row leaves devdata alone, and
\* init_waterlevel, which empties DRZ in another hour and Z1 to Z8 in the same one.
Recover ==
    /\ pc = "recover"
    /\ IF DOMAIN rows = {}
       THEN Z' = [i \in Sensor |-> FALSE] /\ UNCHANGED <<DRZ, begun>>
       ELSE LET h == Latest(DOMAIN rows)
                r == rows[h]
            IN  IF h # Hour(now)
                THEN /\ Z' = [i \in Sensor |-> Z[i] \/ r.z[i]]
                     /\ reset_DRZ
                     /\ begun' = TRUE
                ELSE /\ Z' = [i \in Sensor |-> FALSE]
                     /\ DRZ' = [i \in Sensor |->
                                   IF r.drz[i] = NoLevels THEN DRZ[i] ELSE r.drz[i]]
                     /\ begun' = r.good
    /\ pc' = "top"
    /\ UNCHANGED <<now, rows, last, lasttime, down, recordtime, bounds, stopped, cur, prev>>

-----------------------------------------------------------------------------
(* The hourly report of the up thread records devdata too, and time passes. *)

Record ==
    /\ On /\ recordtime # Hour(now)
    /\ recordtime' = Hour(now)
    /\ devdata_save
    /\ UNCHANGED <<now, Z, DRZ, data, down, bounds, ghosts>>

Tick ==
    /\ now < MaxTime
    /\ On => last = now /\ pc # "recover"
    /\ now' = now + 1
    /\ begun' = (begun /\ (Hour(now') = Hour(now) \/ ~On))
    /\ prev' = cur /\ cur' = [i \in Sensor |-> Unseen]
    /\ UNCHANGED <<Z, DRZ, rows, data, down, recordtime, bounds, stopped>>

Init ==
    /\ now = 0
    /\ Z = [i \in Sensor |-> FALSE] /\ DRZ = [i \in Sensor |-> NoLevels]
    /\ rows = <<>>
    /\ pc = "off" /\ last = None /\ lasttime = None
    /\ dpc = "idle" /\ t = 0 /\ old = {} /\ n = 1 /\ before = NoEntry
    /\ jia = FALSE /\ sure = TRUE
    /\ recordtime = None /\ samples = 0 /\ stops = 0
    /\ begun = TRUE /\ stopped = {}
    /\ cur = [i \in Sensor |-> Unseen] /\ prev = [i \in Sensor |-> Unseen]

DownThread ==
    \/ \E i \in Sensor : Clear(i) \/ \E l \in Levels : AddBase(i, l)
    \/ CheckTime \/ CheckLast \/ CheckNow \/ CheckEnd
DataThread == Freeze \/ SameHour \/ NewHour \/ Exit \/ Boot \/ Recover
Next == DownThread \/ DataThread \/ PowerLoss \/ Record \/ Tick

Spec == Init /\ [][Next]_vars

-----------------------------------------------------------------------------
(* Properties.                                                              *)

\* The types of the state of the threads and of the table hour.
TypeOK ==
    /\ now \in Time /\ Z \in ZLevels /\ DRZ \in DRZLevels
    /\ DOMAIN rows \subseteq Hours /\ \A h \in DOMAIN rows : rows[h] \in Row
    /\ pc \in {"off", "recover", "top", "poll"}
    /\ last \in Time \cup {None} /\ lasttime \in Hours \cup {None}
    /\ dpc \in {"idle", "time", "last", "now"} /\ t \in Time
    /\ old \subseteq Row /\ jia \in BOOLEAN /\ begun \in BOOLEAN
    /\ n \in 1..(N + 1) /\ (dpc = "now" => n <= N)
    /\ before \in Entry /\ sure \in BOOLEAN
    /\ recordtime \in Hours \cup {None}
    /\ samples \in 0..MaxSamples /\ stops \in 0..MaxStops

\* From the freeze of its second slot on the row of an hour holds levels of that
\* hour only, each in the slot it was read in, though the first freeze of an hour,
\* and the hourly report, may write the levels of the hour before under its date.
\* A stop in the hour, or a start just before it, can leave it so.
RowOfItsHour ==
    \A h \in DOMAIN rows \ stopped :
        h < Hour(now) \/ (On /\ Slot(now) > 0 /\ last = now) =>
            \A i \in Sensor, s \in 0..(Slots - 1) :
                rows[h].drz[i][s] # NoEntry => rows[h].drz[i][s].at = h * Slots + s

\* The inductive invariant behind it.  DRZ holds the running hour when begun says
\* so, and a good row holds its own.
OfHour(d, h) ==
    \A i \in Sensor, s \in 0..(Slots - 1) : d[i][s] # NoEntry => d[i][s].at = h * Slots + s
Levelled ==
    /\ begun => OfHour(DRZ, Hour(now))
    /\ \A h \in DOMAIN rows : rows[h].good => OfHour(rows[h].drz, h)
    /\ \A r \in old : r.good => OfHour(r.drz, Hour(t) - 1)

\* The row of the running hour is not yet good only in the first slot, or until
\* the first freeze of the second; that of an hour that is over is.
Tabled ==
    /\ \A h \in DOMAIN rows : h <= Hour(now)
    /\ DOMAIN rows = {} \/ \E h \in DOMAIN rows : \A k \in DOMAIN rows : k <= h
    /\ ~On => DRZ = [i \in Sensor |-> NoLevels]
    /\ pc \in {"off", "recover"} =>
          begun /\ (Hour(now) \in DOMAIN rows => Hour(now) \in stopped)
    /\ pc = "recover" => recordtime = Hour(now)
    /\ begun \/ Hour(now) \in stopped \/ (Slot(now) = 0 /\ (pc = "top" => last # now))
       \/ (pc = "poll" /\ last # now)
    /\ On /\ last = now /\ Slot(now) > 0 /\ Hour(now) \in DOMAIN rows \ stopped =>
          rows[Hour(now)].good
    /\ \A h \in DOMAIN rows \ stopped : h < Hour(now) => rows[h].good
TableInv == Levelled /\ Tabled

\* At the turn of the hour the row of the hour before is there, with its own levels.
HasRow == Slot(t) = 0 => old # {} /\ \A r \in old : r.good

\* What the check compares with is of the slot before its own.
Compared == dpc = "now" /\ sure /\ HasRow /\ before # NoEntry => before.at = t - 1

\* A sensor gets an extra report for a level that moved only when it itself read
\* two such levels, in this slot and in the one before, as the comment at the
\* head of the file has it.  That takes a struct tm that no other thread has set
\* to another slot, an hour that has begun, and the row of the hour before.
MoveIsReal ==
    [][CheckNow /\ sure' /\ HasRow /\ jia' =>
          LET e == DRZ[n][Slot(t)]
          IN  IsHigh(e) \/ (e.at = t /\ before.at = t - 1)]_vars

\* A sensor that read, in this slot and in the one before, two levels that are
\* further apart than the threshold gets its extra report, and so does one above
\* its limit.  That takes a struct tm that no other thread has set to another
\* slot.  At the turn of the hour it takes a reading in the last slot before its
\* freeze: a later one is in no row.
MoveReported ==
    [][CheckNow /\ t = now /\ sure' =>
          LET a == prev[n].lvl
              b == cur[n].lvl
          IN  /\ b > High /\ High > 0 => jia'
              /\ a # None /\ b # None /\ (Slot(t) > 0 \/ prev[n].early)
                 /\ Step > 0 /\ (a - b > Step \/ b - a > Step) => jia']_vars

\* The inductive invariant behind it: what a sensor read last in this slot and in
\* the one before is where the check looks for it.
NoneSeen(f) == \A i \in Sensor : f[i].lvl = None
SeenType == [Sensor -> [lvl : Levels \cup {None}, early : BOOLEAN]]
Idle ==
    /\ t <= now
    /\ pc \in {"off", "recover"} => NoneSeen(cur) /\ NoneSeen(prev) /\ lasttime = None
    /\ begun => lasttime \in {None, Hour(now)}
    /\ ~begun => NoneSeen(cur) /\ (Slot(now) > 0 => NoneSeen(prev))
Kept ==
    \A i \in Sensor :
        /\ cur[i].lvl < FFFF /\ prev[i].lvl < FFFF
        /\ cur[i].lvl # None => DRZ[i][Slot(now)].lvl = cur[i].lvl
        /\ prev[i].lvl # None /\ begun /\ Slot(now) > 0 =>
              DRZ[i][Slot(now) - 1].lvl = prev[i].lvl
Written ==
    \A i \in Sensor :
        /\ cur[i].lvl # None /\ cur[i].early /\ last = now =>
              /\ Hour(now) \in DOMAIN rows
              /\ rows[Hour(now)].drz[i][Slot(now)].lvl = cur[i].lvl
        /\ prev[i].lvl # None /\ prev[i].early /\ Slot(now) = 0 =>
              /\ Hour(now) - 1 \in DOMAIN rows
              /\ rows[Hour(now) - 1].drz[i][Slots - 1].lvl = prev[i].lvl
Looked ==
    dpc \in {"last", "now"} /\ sure /\ t = now /\ Slot(now) = 0
    /\ Hour(now) - 1 \in DOMAIN rows => old = {rows[Hour(now) - 1]}
Found ==
    dpc = "now" /\ sure /\ t = now /\ prev[n].lvl # None
    /\ (Slot(t) > 0 \/ prev[n].early) => before.lvl = prev[n].lvl
SeenInv ==
    /\ cur \in SeenType /\ prev \in SeenType
    /\ Idle /\ Kept /\ Written /\ Looked /\ Found
=============================================================================
