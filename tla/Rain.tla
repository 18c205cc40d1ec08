-------------------------------- MODULE Rain --------------------------------
(***************************************************************************)
(* The rain gauge: the rain thread (app/down/_sensor_yuliang.cpp), which    *)
(* calls rain_caculation for every pulse, and the data thread               *)
(* (app/dataprocess/data_save.cpp), which freezes the device data into the  *)
(* table hour every five minutes, begins the hour anew (rain_poll) and      *)
(* checks the threshold of the extra report, and which restores the data    *)
(* from the latest row when the process starts.  The two share devdata and  *)
(* A without a lock, and the hourly report of the up thread writes the same *)
(* table.  Power may fail at any step.                                      *)
(*                                                                         *)
(* Time is counted in slots of five minutes.  The loop of the data thread   *)
(* is far shorter than a slot, so it freezes at least once in each; apart   *)
(* from that a slot may end between any two steps.  A single increment of   *)
(* devdata is one step.                                                     *)
(*                                                                         *)
(* localtime gives every caller in the process the same struct tm.  Where   *)
(* tm_min is looked at after other calls, or other threads, may have        *)
(* written another time there (time2string, lib.cpp:281), it may hold the   *)
(* minutes of any slot.                                                     *)
(***************************************************************************)
EXTENDS Integers

CONSTANTS
    Slots,      \* the 12 slots of an hour
    DayHours,   \* the 24 hours of a day
    DayStart,   \* runtime["RainDayStartTime"]
    Unit,       \* runtime[0x25]: what a pulse stands for, in 0.1 mm
    Threshold,  \* runtime[0x27] * 10
    Byte,       \* the 256 values of a byte of DRP
    MaxTime,    \* bound: the clock stops here
    MaxPulses,  \* bound: pulses stop after this many
    MaxStops    \* bound: stops of the process

ASSUME RainAssumption ==
    /\ Slots \in Nat \ {0} /\ DayHours \in Nat \ {0} /\ DayStart \in 0..(DayHours - 1)
    /\ Unit \in Nat \ {0} /\ Threshold \in Nat /\ Byte \in Nat \ {0, 1}
    /\ MaxTime \in Nat /\ MaxPulses \in Nat /\ MaxStops \in Nat

FF == Byte - 1
Time == 0..MaxTime
Hour(t) == t \div Slots
Hours == 0..Hour(MaxTime)
Slot(t) == t % Slots
Tm == 0..(Slots - 1)    \* tm_min of the shared struct tm, as a slot of the hour
None == -1

VARIABLES
    now,        \* the clock, in slots
    P1, PJ, PD, PT, DRP, \* devdata: rain of the hour, of the day so far, of the
                \* day before, of all time, and of each slot of the hour
    flag,       \* A["rainIncFlag"]
    rows,       \* the table hour: the frozen devdata of the hours that have a row
    pc,         \* the data thread: the next step of its loop
    last,       \* its last: the slot of the last freeze
    lasttime,   \* the hour of rain_poll's lasttime, None for 0
    rp, rt,     \* the rain thread: the next step of rain_caculation, and its t
    level,      \* di_get's last is set: the level of the input is known
    recordtime, \* the hour of the last hourly report
    stops,
    fell,       \* ghost: the pulses of each slot
    counted, unsaved, lost, \* ghost: pulses in PT, those not frozen yet, those lost
    acc,        \* ghost: the hour P1 stands for
    saved,      \* ghost: the latest row holds the rain of the running hour
    upset,      \* ghost: the hours a stop or an overlap of the threads upset
    stray,      \* ghost: the hours in which a pulse went to the byte of another slot
    wt, index,  \* rain_warn_check: its t and its index
    blind,      \* ghost: a check of the threshold cleared the flag in the middle of
                \* a pulse, or for another slot
    warned      \* ghost: a check of this slot called jia_add_flags("rain")

devdata == <<P1, PJ, PD, PT, DRP>>
data == <<pc, last, lasttime>>
rain == <<rp, rt, level>>
books == <<counted, unsaved, lost>>
alarm == <<stray, wt, index, blind, warned>>
vars == <<now, devdata, flag, rows, data, rain, recordtime, stops, fell, books, acc, saved,
          upset, alarm>>

On == pc # "off"
SlotBytes == [0..(Slots - 1) -> 0..FF]
Empty == [s \in 0..(Slots - 1) |-> FF]

\* The sum of f over S, a set of slots or of hours.
Part(f, S, n) == IF n \in S THEN f[n] ELSE 0
SumTo(f, S) ==
    LET Sum[n \in Nat] == Part(f, S, n) + (IF n = 0 THEN 0 ELSE Sum[n - 1]) IN Sum
Total(f, S) == SumTo(f, S)[MaxTime]

-----------------------------------------------------------------------------
(* The rain thread.                                                         *)

\* A pulse of an hour in which something else happens to devdata as well.
Upsets ==
    IF Hour(now) # Hour(rt) \/ acc # Hour(rt) \/ pc \in {"sums", "recover"}
    THEN upset' = upset \cup {Hour(now), Hour(rt)} ELSE UNCHANGED upset

\* di_get: the first event after the start only tells the level, the edge of a
\* pulse though it may be ...
FirstEvent ==
    /\ On /\ ~level
    /\ level' = TRUE
    /\ UNCHANGED <<now, devdata, flag, rows, data, rp, rt, recordtime, stops, fell, books, acc,
                   saved, upset, alarm>>

\* ... and every falling edge after it is a pulse: rain_caculation takes the time
\* and sets the flag.
Pulse ==
    /\ On /\ rp = "idle" /\ level /\ Total(fell, Time) < MaxPulses
    /\ rp' = "P1" /\ rt' = now /\ flag' = 1
    /\ blind' = FALSE /\ saved' = FALSE
    /\ UNCHANGED <<now, devdata, rows, data, level, recordtime, stops, fell, books, acc, upset,
                   stray, wt, index, warned>>

CountP1 ==
    /\ rp = "P1"
    /\ P1' = P1 + Unit
    /\ rp' = "PJ"
    /\ Upsets /\ saved' = FALSE
    /\ UNCHANGED <<now, PJ, PD, PT, DRP, flag, rows, data, rt, level, recordtime, stops, fell,
                   books, acc, alarm>>

CountPJ ==
    /\ rp = "PJ"
    /\ PJ' = PJ + Unit
    /\ rp' = "DRP"
    /\ Upsets /\ saved' = FALSE
    /\ UNCHANGED <<now, P1, PD, PT, DRP, flag, rows, data, rt, level, recordtime, stops, fell,
                   books, acc, alarm>>

\* Fault: the byte of a slot without rain is counted on from.
increase_DRP_on(off) == [DRP EXCEPT ![off] = (@ + Unit) % Byte]

\* increase_DRP.
increase_DRP(off) == [DRP EXCEPT ![off] = IF @ = FF THEN Unit % Byte ELSE (@ + Unit) % Byte]

\* tt, taken with t, is looked at here: it may hold the minutes of another slot.
CountDRP ==
    /\ rp = "DRP"
    /\ \E off \in Tm :
          /\ DRP' = increase_DRP(off)
          /\ stray' = IF off = Slot(rt) THEN stray ELSE stray \cup {Hour(rt)}
    /\ fell' = [fell EXCEPT ![rt] = @ + 1]
    /\ rp' = "PT"
    /\ Upsets /\ saved' = FALSE
    /\ UNCHANGED <<now, P1, PJ, PD, PT, flag, rows, data, rt, level, recordtime, stops, books,
                   acc, wt, index, blind, warned>>

CountPT ==
    /\ rp = "PT"
    /\ PT' = PT + Unit
    /\ counted' = counted + 1 /\ unsaved' = unsaved + 1
    /\ rp' = "idle" /\ rt' = 0
    /\ Upsets /\ saved' = FALSE
    /\ UNCHANGED <<now, P1, PJ, PD, DRP, flag, rows, data, level, recordtime, stops, fell, lost,
                   acc, alarm>>

-----------------------------------------------------------------------------
(* The data thread.                                                         *)

\* devdata_save: the row of the running hour.
WithRow == [h \in DOMAIN rows \cup {Hour(now)} |->
               IF h = Hour(now)
               THEN [p1 |-> P1, pj |-> PJ, pd |-> PD, pt |-> PT, drp |-> DRP]
               ELSE rows[h]]

devdata_save ==
    /\ rows' = WithRow
    /\ unsaved' = 0
    /\ saved' = (acc = Hour(now) /\ rp = "idle" /\ pc # "sums")
    /\ upset' = IF rp = "idle" THEN upset ELSE upset \cup {Hour(now), Hour(rt)}
    /\ UNCHANGED <<counted, lost>>

Freeze ==
    /\ pc = "top"
    /\ pc' = "poll"
    /\ IF last # now
       THEN last' = now /\ devdata_save
       ELSE UNCHANGED <<last, rows, books, saved, upset>>
    /\ UNCHANGED <<now, devdata, flag, lasttime, rain, recordtime, stops, fell, acc, alarm>>

\* rain_poll: the first call only takes the time, a call in another hour empties
\* P1 and DRP ...
PollFirst ==
    /\ pc = "poll" /\ lasttime = None
    /\ lasttime' = Hour(now) /\ pc' = "warn"
    /\ upset' = IF acc = Hour(now) THEN upset ELSE upset \cup {Hour(now)}
    /\ UNCHANGED <<now, devdata, flag, rows, last, rain, recordtime, stops, fell, books, acc,
                   saved, alarm>>

SameHour ==
    /\ pc = "poll" /\ lasttime = Hour(now)
    /\ pc' = "warn"
    /\ UNCHANGED <<now, devdata, flag, rows, last, lasttime, rain, recordtime, stops, fell,
                   books, acc, saved, upset, alarm>>

\* Fault: the rain of the hour is kept.
init_5min_keeps == P1' = P1 /\ DRP' = Empty

\* Fault: the rain of the hour is marked as invalid.
init_5min_invalid == P1' = None /\ DRP' = Empty

init_5min == P1' = 0 /\ DRP' = Empty

NewHour ==
    /\ pc = "poll" /\ lasttime \notin {None, Hour(now)}
    /\ lasttime' = Hour(now) /\ pc' = "sums"
    /\ init_5min
    /\ acc' = Hour(now) /\ saved' = FALSE
    /\ UNCHANGED <<now, PJ, PD, PT, flag, rows, last, rain, recordtime, stops, fell, books,
                   upset, alarm>>

\* ... and adds up the rows of the day so far and of the day before.
GetRainDayStartTime(h) == h - ((h - DayStart) % DayHours)

\* Fault: the row of the running hour is added as well.
P1_rain_closed(from, to) ==
    Total([h \in DOMAIN rows |-> rows[h].p1], {h \in DOMAIN rows : from <= h /\ h <= to})

P1_rain(from, to) ==
    Total([h \in DOMAIN rows |-> rows[h].p1], {h \in DOMAIN rows : from <= h /\ h < to})

init_dayRain == PD' = P1_rain(GetRainDayStartTime(Hour(now) - DayHours),
                              GetRainDayStartTime(Hour(now)))
init_currentRain == PJ' = P1_rain(GetRainDayStartTime(Hour(now)), Hour(now))

Sums ==
    /\ pc = "sums"
    /\ init_dayRain /\ init_currentRain
    /\ pc' = "warn"
    /\ UNCHANGED <<now, P1, PT, DRP, flag, rows, last, lasttime, rain, recordtime, stops, fell,
                   books, acc, saved, upset, alarm>>

\* Fault: the rain of the next slot.
F4OfNext(s) == DRP[(s + 1) % Slots]

\* F4 of rain_warn_check is the rain of the slot.
F4(s) == DRP[s]

\* rain_warn_check: without the flag there is nothing to check ...
NoWarn ==
    /\ pc = "warn" /\ flag # 1
    /\ pc' = "top"
    /\ UNCHANGED <<now, devdata, flag, rows, last, lasttime, rain, recordtime, stops, fell,
                   books, acc, saved, upset, alarm>>

\* ... with it the check takes the time, and finds an index in the struct tm, ...
WarnTime ==
    /\ pc = "warn" /\ flag = 1
    /\ wt' = now /\ index' \in Tm
    /\ pc' = "clear"
    /\ UNCHANGED <<now, devdata, flag, rows, last, lasttime, rain, recordtime, stops, fell,
                   books, acc, saved, upset, stray, blind, warned>>

\* ... clears the flag ...
WarnClear ==
    /\ pc = "clear"
    /\ flag' = 0
    /\ blind' = (blind \/ rp \in {"P1", "PJ", "DRP"} \/ wt # now \/ index # Slot(now))
    /\ pc' = "read"
    /\ UNCHANGED <<now, devdata, rows, last, lasttime, rain, recordtime, stops, fell,
                   books, acc, saved, upset, stray, wt, index, warned>>

\* ... and compares the rain of its slot with the threshold.
WarnRead ==
    /\ pc = "read"
    /\ warned' = (warned \/ (wt = now /\ F4(index) # FF /\ F4(index) >= Threshold))
    /\ pc' = "top" /\ wt' = 0 /\ index' = 0
    /\ UNCHANGED <<now, devdata, flag, rows, last, lasttime, rain, recordtime, stops, fell,
                   books, acc, saved, upset, stray, blind>>

Warn == NoWarn \/ WarnTime \/ WarnClear \/ WarnRead

-----------------------------------------------------------------------------
(* Stops and starts.                                                        *)

\* What is left of a process: the tables.
Gone ==
    /\ P1' = 0 /\ PJ' = 0 /\ PD' = 0 /\ PT' = 0 /\ DRP' = Empty /\ flag' = 0
    /\ pc' = "off" /\ last' = None /\ lasttime' = None
    /\ rp' = "idle" /\ rt' = 0 /\ level' = FALSE
    /\ stops' = stops + 1
    /\ acc' = None /\ blind' = TRUE /\ wt' = 0 /\ index' = 0

\* powerdown_save for an upgrade, or a delayed restart: freeze, and exit.
Exit ==
    /\ pc = "top" /\ stops < MaxStops
    /\ rows' = WithRow
    /\ unsaved' = 0
    /\ upset' = IF acc = Hour(now) /\ rp = "idle" THEN upset ELSE upset \cup {Hour(now)}
    /\ saved' = FALSE
    /\ Gone
    /\ UNCHANGED <<now, recordtime, fell, counted, lost, stray, warned>>

PowerLoss ==
    /\ On /\ stops < MaxStops
    /\ lost' = lost + unsaved /\ unsaved' = 0
    /\ upset' = IF saved THEN upset ELSE upset \cup {Hour(now)}
    /\ saved' = FALSE
    /\ Gone
    /\ UNCHANGED <<now, rows, recordtime, fell, counted, stray, warned>>

Boot ==
    /\ pc = "off"
    /\ pc' = "recover" /\ last' = now /\ recordtime' = Hour(now)
    /\ UNCHANGED <<now, devdata, flag, rows, lasttime, rain, stops, fell, books, acc, saved,
                   upset, alarm>>

\* Fault: the first row, not the latest.
Earliest(S) == CHOOSE h \in S : \A k \in S : h <= k

\* "order by date desc limit 1".
Latest(S) == CHOOSE h \in S : \A k \in S : k <= h

\* devdata_recovery, and init_rain, which begins anew in another hour.
Recover ==
    /\ pc = "recover"
    /\ LET found == DOMAIN rows
           h == IF found = {} THEN Hour(now) ELSE Latest(found)
           r == rows[h]
       IN  /\ IF found = {} THEN UNCHANGED <<PT, unsaved, lost>>
              ELSE PT' = r.pt /\ lost' = lost + unsaved /\ unsaved' = 0
           /\ IF h # Hour(now)
              THEN init_5min /\ init_dayRain /\ init_currentRain
              ELSE IF found = {} THEN UNCHANGED <<P1, PJ, PD, DRP>>
              ELSE P1' = r.p1 /\ PJ' = r.pj /\ PD' = r.pd /\ DRP' = r.drp
    /\ flag' = 0 /\ blind' = TRUE
    /\ acc' = Hour(now) /\ saved' = FALSE
    /\ pc' = "top"
    /\ UNCHANGED <<now, rows, last, lasttime, rain, recordtime, stops, fell, counted, upset,
                   stray, wt, index, warned>>

-----------------------------------------------------------------------------
(* The hourly report of the up thread records devdata too, and time passes. *)

Record ==
    /\ On /\ recordtime # Hour(now)
    /\ recordtime' = Hour(now)
    /\ devdata_save
    /\ UNCHANGED <<now, devdata, flag, data, rain, stops, fell, acc, alarm>>

Tick ==
    /\ now < MaxTime
    /\ On => last = now /\ pc # "recover"
    /\ rp = "idle" \/ rt = now
    /\ now' = now + 1
    /\ warned' = FALSE
    /\ UNCHANGED <<devdata, flag, rows, data, rain, recordtime, stops, fell, books, acc, saved,
                   upset, stray, wt, index, blind>>

Init ==
    /\ now = 0
    /\ P1 = 0 /\ PJ = 0 /\ PD = 0 /\ PT = 0 /\ DRP = Empty /\ flag = 0
    /\ rows = <<>>
    /\ pc = "off" /\ last = None /\ lasttime = None
    /\ rp = "idle" /\ rt = 0 /\ level = FALSE
    /\ recordtime = None /\ stops = 0
    /\ fell = [t \in Time |-> 0] /\ counted = 0 /\ unsaved = 0 /\ lost = 0
    /\ acc = None /\ saved = FALSE /\ upset = {} /\ stray = {}
    /\ wt = 0 /\ index = 0 /\ blind = TRUE /\ warned = FALSE

RainThread == FirstEvent \/ Pulse \/ CountP1 \/ CountPJ \/ CountDRP \/ CountPT
DataThread ==
    \/ Freeze \/ PollFirst \/ SameHour \/ NewHour \/ Sums \/ Warn \/ Exit
    \/ Boot \/ Recover
Next == RainThread \/ DataThread \/ PowerLoss \/ Record \/ Tick

Spec == Init /\ [][Next]_vars

-----------------------------------------------------------------------------
(* Properties.                                                              *)

\* The types of the state of the two threads and of the table hour.
TypeOK ==
    /\ now \in Time /\ P1 \in Nat /\ PJ \in Nat /\ PD \in Nat /\ PT \in Nat
    /\ DRP \in SlotBytes /\ flag \in {0, 1}
    /\ DOMAIN rows \subseteq Hours
    /\ \A h \in DOMAIN rows :
          rows[h] \in [p1 : Nat, pj : Nat, pd : Nat, pt : Nat, drp : SlotBytes]
    /\ pc \in {"off", "recover", "top", "poll", "sums", "warn", "clear", "read"}
    /\ wt \in Time /\ index \in Tm
    /\ last \in Time \cup {None} /\ lasttime \in Hours \cup {None}
    /\ rp \in {"idle", "P1", "PJ", "DRP", "PT"} /\ rt \in Time /\ level \in BOOLEAN
    /\ recordtime \in Hours \cup {None} /\ stops \in 0..MaxStops

Working == pc \notin {"off", "recover"} /\ rp = "idle"
Settled == Working /\ acc = Hour(now) /\ Hour(now) \notin upset

\* PT counts no pulse twice and, after a power loss, is short of exactly those
\* that came after the last freeze, though the row it is restored from may hold
\* another hour's rain.
TotalRain == Working => PT = Unit * (counted - lost)

\* The inductive invariant behind it: the latest row holds the pulses that were
\* frozen, and PT, until it is restored from that row, those that came since the
\* start.
LatestRow(h) == h \in DOMAIN rows /\ \A k \in DOMAIN rows : k <= h
Counts == counted \in Nat /\ unsaved \in Nat /\ lost \in Nat
Frozen ==
    /\ DOMAIN rows \subseteq 0..Hour(now)
    /\ \/ DOMAIN rows = {} /\ counted = lost + unsaved
       \/ \E h \in DOMAIN rows :
             LatestRow(h) /\ rows[h].pt = Unit * (counted - lost - unsaved)
Running ==
    /\ now \in Time
    /\ pc = "off" => PT = 0 /\ unsaved = 0 /\ rp = "idle"
    /\ pc = "recover" => PT = Unit * unsaved /\ recordtime = Hour(now)
    /\ pc \notin {"off", "recover"} => PT = Unit * (counted - lost)
BooksInv == Counts /\ Frozen /\ Running

Of(h) == {t \in Time : Hour(t) = h}

\* P1 is the rain of the running hour, in every hour that no stop and no overlap
\* of a pulse with the start of the hour upset; what upset one hour does not
\* reach the next.
HourRain == Settled => P1 = Unit * Total(fell, Of(Hour(now)))

\* So are the bytes of DRP the rain of the slots of that hour, as long as they can
\* hold it, and no pulse of the hour found another slot in the struct tm.
SlotRain ==
    Settled /\ Hour(now) \notin stray => \A x \in Of(Hour(now)) :
                  fell[x] > 0 /\ Unit * fell[x] < FF => DRP[Slot(x)] = Unit * fell[x]

DayOf(h) == {k \in Hours : GetRainDayStartTime(k) = GetRainDayStartTime(h)}
Fallen(S) == Unit * Total(fell, {t \in Time : Hour(t) \in S})
FallenLate(S) == Unit * Total(fell, {t \in Time : Hour(t) \in S /\ Slot(t) = Slots - 1})
\* PJ is the rain of the day so far, and PD that of the day before, short at most
\* of the last slot of each hour that is over: it fell after the last freeze of
\* its hour.  Nothing is in either twice.
DayRain ==
    LET today == {k \in DayOf(Hour(now)) : k <= Hour(now)}
        before == {k \in Hours : GetRainDayStartTime(k) =
                                   GetRainDayStartTime(Hour(now)) - DayHours}
    IN  Settled /\ pc # "sums" =>
          /\ today \cap upset = {} =>
                PJ \in (Fallen(today) - FallenLate(today \ {Hour(now)}))..Fallen(today)
          /\ before \cap upset = {} =>
                PD \in (Fallen(before) - FallenLate(before))..Fallen(before)

Reached ==
    fell[now] > 0 /\ Threshold <= Unit * fell[now] /\ Unit * fell[now] < FF

\* Once the flag of a pulse has been dealt with, a slot whose rain has reached the
\* threshold has called for an extra report, unless the check cleared the flag in
\* the middle of the pulse, before DRP had it, or for another slot: because its
\* slot ended before, or because it found another one in the struct tm.
AlarmRaised ==
    Settled /\ Hour(now) \notin stray /\ pc # "read" /\ ~blind /\ flag = 0 /\ Reached =>
        warned

\* The inductive invariant behind SlotRain and AlarmRaised: what the bytes hold,
\* and what a restart would restore, is the rain of the running hour, unless a
\* pulse of it strayed, or there was none.
Dry(h) == \A x \in Of(h) : fell[x] = 0
Bytes(h, d) ==
    \A x \in Of(h) :
        /\ fell[x] = 0 => d[Slot(x)] = FF
        /\ fell[x] > 0 /\ Unit * fell[x] < FF => d[Slot(x)] = Unit * fell[x]
Intact(h, d) == h \notin stray => Bytes(h, d)
Clocks ==
    /\ fell \in [Time -> Nat] /\ DRP \in SlotBytes /\ rt \in 0..now
    /\ \A x \in Time : x > now => fell[x] = 0
    /\ acc \in 0..Hour(now) \cup {None}
    /\ pc \in {"off", "recover"} => acc = None /\ lasttime = None
    /\ acc = Hour(now) => lasttime \in {None, Hour(now)}
    /\ pc = "off" => DRP = Empty
    /\ \A h \in DOMAIN rows : rows[h].drp \in SlotBytes
Held == IF acc = Hour(now) THEN Intact(Hour(now), DRP) ELSE Dry(Hour(now))
Restorable ==
    IF Hour(now) \in DOMAIN rows THEN Intact(Hour(now), rows[Hour(now)].drp) ELSE Dry(Hour(now))
Undisturbed ==
    Hour(now) \notin upset =>
        /\ pc = "recover" => DRP = Empty
        /\ pc \notin {"off", "recover"} => Held
        /\ saved \/ pc \in {"off", "recover"} => Restorable
Alarm ==
    /\ rp \in {"P1", "PJ", "DRP"} => flag = 1 \/ blind
    /\ pc = "read" /\ ~blind /\ flag = 0 /\ fell[now] > 0 => wt = now /\ index = Slot(now)
    /\ pc \notin {"off", "recover", "read"} /\ acc = Hour(now)
       /\ Hour(now) \notin upset \cup stray /\ ~blind /\ flag = 0 /\ Reached => warned
SlotInv == Clocks /\ Undisturbed /\ Alarm

\* The inductive invariant behind HourRain: P1, and the row a restart would restore
\* it from, hold the rain of the running hour, P1 the pulse being counted as well.
RainNow == Total(fell, Of(Hour(now)))
Counting(steps) == rp \in steps /\ Hour(rt) = Hour(now)
InP1 == Counting({"PJ", "DRP"})
HourInv ==
    /\ pc = "off" => P1 = 0 /\ PJ = 0
    /\ pc \in {"off", "recover"} => PD = 0
    /\ Hour(now) \notin upset =>
        /\ pc = "recover" => P1 = 0 /\ PJ = 0
        /\ InP1 => acc = Hour(now) /\ pc \notin {"off", "recover", "sums"}
        /\ acc = Hour(now) => P1 = Unit * (RainNow + IF InP1 THEN 1 ELSE 0)
        /\ (saved \/ pc \in {"off", "recover"}) /\ Hour(now) \in DOMAIN rows =>
              rows[Hour(now)].p1 = Unit * RainNow

\* The inductive invariant behind DayRain.  The loop of the data thread freezes
\* once a slot, and from the second slot of an hour on it does so after rain_poll
\* has begun the hour ...
Begun ==
    pc \notin {"off", "recover"} /\ Hour(last) = Hour(now) /\ (pc = "poll" => Slot(last) # 0)
Paced ==
    /\ On => last \in {now - 1, now} \cap Time
    /\ lasttime # None => lasttime \in upset \/ acc = lasttime
    /\ Hour(now) \notin upset =>
        /\ On /\ rp # "idle" => last <= rt
        /\ pc = "sums" /\ acc = Hour(now) => Dry(Hour(now))
        /\ Begun => acc = Hour(now)

\* ... so that the row of an hour holds the rain of its slots before the last
\* freeze and none of another hour: while the hour runs ...
RowP1(h) == IF h \in DOMAIN rows THEN rows[h].p1 ELSE 0
RunningRow ==
    Hour(now) \notin upset /\ pc \notin {"off", "recover"}
    /\ Hour(last) = Hour(now) /\ Slot(last) # 0 =>
        RowP1(Hour(now)) \in (Unit * Total(fell, {t \in Of(Hour(now)) : t < last}))..(Unit * RainNow)

\* ... and when it is over.
Early(S) == {t \in Time : Hour(t) \in S /\ Slot(t) # Slots - 1}
SlotsOf(S) == {t \in Time : Hour(t) \in S}
Sound(f, u, S, v) ==
    S \cap u = {} => v \in (Unit * Total(f, Early(S)))..(Unit * Total(f, SlotsOf(S)))
PastRows == \A h \in Hours : h < Hour(now) => Sound(fell, upset, {h}, RowP1(h))

\* PJ without the rain of the running hour, PD, and what a restart would restore
\* them from, are sums of such rows.
Earlier(from, to) == {k \in Hours : from <= k /\ k < to}
Today == Earlier(GetRainDayStartTime(Hour(now)), Hour(now))
Before == Earlier(GetRainDayStartTime(Hour(now)) - DayHours, GetRainDayStartTime(Hour(now)))
InPJ == Counting({"DRP"})
DaySums ==
    Hour(now) \notin upset =>
        /\ acc = Hour(now) /\ pc # "sums" =>
              /\ Sound(fell, upset, Today, PJ - Unit * (RainNow + IF InPJ THEN 1 ELSE 0))
              /\ Sound(fell, upset, Before, PD)
        /\ (saved \/ pc \in {"off", "recover"}) /\ Hour(now) \in DOMAIN rows =>
              /\ Sound(fell, upset, Today, rows[Hour(now)].pj - Unit * RainNow)
              /\ Sound(fell, upset, Before, rows[Hour(now)].pd)
DayInv == Paced /\ RunningRow /\ PastRows /\ DaySums
=============================================================================
