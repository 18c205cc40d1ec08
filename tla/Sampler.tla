------------------------------ MODULE Sampler ------------------------------
(***************************************************************************)
(* The sampling of the sensors on the RS485 ports: thread_down_deal and     *)
(* read_a_data (app/down/_thread_down.cpp), the request machine dfsm of     *)
(* each port (app/down/dfsm.cpp), and the read thread of each port          *)
(* (dev/serialport.cpp), which hands every piece it reads to                *)
(* down_packet_process.  step, getpacket, rb and rlen are shared without a  *)
(* lock.  A sensor may answer late, in two pieces, or not at all; a request *)
(* that was not answered may be sent again after its reading is over.       *)
(*                                                                         *)
(* Time is counted in units of ms_timeout_max (2 s); the 4 s of a reading   *)
(* are two of them, and a unit may end between any two steps.  A frame is   *)
(* the prefix resultDataFilter, which sensors of a port may share, then     *)
(* the data.  wann, the length that counts as a packet, is less than prefix *)
(* and data together, since a letter of dataFormatter stands for a byte and *)
(* is counted as half a one.  setbaud and the formats of the data are left  *)
(* out, and the bytes of the data are not taken for a prefix.               *)
(***************************************************************************)
EXTENDS Integers, Sequences

CONSTANTS
    Order,      \* rtu.rs485: the sequence of sensors
    Port,       \* the port of a sensor
    Takes,      \* the sensors whose answers begin with the resultDataFilter of a sensor
    Direct,     \* the sensors whose value is neither flow nor water level
    Retries,    \* the 2 of dev->init
    Deadline,   \* the 4000 ms of a reading, in units of ms_timeout_max
    Cuts,       \* how an answer may be cut: "whole", "short", "torn"
    ErrCnt,     \* the values err_cnt may have: nothing initialises it
    MaxWire,    \* bound: requests under way on a port
    MaxBus      \* bound: pieces under way on a port

Sensor == {Order[n] : n \in 1..Len(Order)}
Ports == {Port[x] : x \in Sensor}

ASSUME OrderAssumption ==
    /\ Order \in Seq(STRING) /\ Len(Order) > 0
    /\ Port \in [Sensor -> STRING] /\ Direct \subseteq Sensor
    /\ Takes \in [Sensor -> SUBSET Sensor] /\ \A x \in Sensor : x \in Takes[x]
ASSUME BoundAssumption ==
    /\ Retries \in Nat /\ Deadline \in Nat \ {0} /\ ErrCnt \subseteq Int
    /\ Cuts \subseteq {"whole", "short", "torn"} /\ MaxWire \in Nat \ {0} /\ MaxBus \in Nat \ {0}

\* "all" is a frame; "short" its prefix and fewer than wann bytes, and "rest" the
\* others; "torn" holds wann bytes but not the data, and "last" is what is left.
Part == {"all", "short", "rest", "torn", "last"}
Piece == [from : Sensor, part : Part]
Step == {"IDLE", "SEND", "WAIT", "TIMEOUT", "GET"}

VARIABLES
    pc, n,      \* thread_down_deal: where it is, and its index into Order
    ddl,        \* what is left of the time of this reading
    result,     \* *result
    got,        \* what read_a_data returns
    step, rb, getpacket,  \* the dfsm of a port
    sb, retry, tmo, \* its request, the repetitions and the time left; of an IDLE
                \* dfsm, which looks at none of them, "none", 0 and 0
    cb,         \* the read thread is about to set getpacket
    wire, bus,  \* requests and pieces of answers under way
    err,        \* rtu.rs485[i].err_cnt, which the Direct do not look at
    stored,     \* devdata: whose the value of a sensor is
    heard,      \* ghost: what the port gave first in this reading
    came,       \* ghost: "late" when bytes of another sensor have come in this reading,
                \* "piece" when a part of an answer of its own has
    eaten       \* ghost: process() took a packet that was not yet looked at

dfsm == <<step, rb, getpacket, sb, retry, tmo>>
line == <<cb, wire, bus>>
ghost == <<heard, came, eaten>>
vars == <<pc, n, ddl, result, got, dfsm, line, err, stored, ghost>>

Cur == Order[n]
Here == Port[Cur]

-----------------------------------------------------------------------------
(* dfsm::process on port p, one case per outcome.                           *)

Resend(p) == step[p] = "WAIT" /\ tmo[p] = 0
Over(p) == step[p] \in {"GET", "TIMEOUT"}

\* The ghosts follow a reading only as long as its loop runs.
Eats(p) ==
    IF pc = "process"
    THEN /\ eaten' = (eaten \/ (step[p] = "WAIT" /\ ~Resend(p) /\ getpacket[p]))
         /\ UNCHANGED <<heard, came>>
    ELSE eaten' = FALSE /\ heard' = "nothing" /\ came' = {}

\* Fault: a request is repeated whatever is left of its repetitions.
RepeatsAlways(p) == TRUE

\* if (retry > 0)
Repeats(p) == retry[p] > 0

\* Fault: the repetitions are not counted.
NotCounted(k) == k

\* retry--
Counted(k) == k - 1

process(p) ==
    /\ step' = [step EXCEPT ![p] =
          CASE @ = "SEND" -> "WAIT"
            [] Resend(p) /\ Repeats(p) -> "SEND"
            [] Resend(p) -> "TIMEOUT"
            [] @ = "WAIT" /\ getpacket[p] -> "GET"
            [] @ = "WAIT" -> "WAIT"
            [] OTHER -> "IDLE"]
    /\ retry' = [retry EXCEPT ![p] = IF Over(p) THEN 0
                                      ELSE IF Resend(p) /\ Repeats(p) THEN Counted(@) ELSE @]
    /\ tmo' = [tmo EXCEPT ![p] = IF step[p] = "SEND" THEN 1 ELSE IF Over(p) THEN 0 ELSE @]
    /\ sb' = IF Over(p) THEN [sb EXCEPT ![p] = "none"] ELSE sb
    /\ wire' = IF step[p] = "SEND" /\ Len(wire[p]) < MaxWire
               THEN [wire EXCEPT ![p] = Append(@, sb[p])] ELSE wire
    /\ getpacket' = IF step[p] = "WAIT" /\ ~Resend(p)
                    THEN [getpacket EXCEPT ![p] = FALSE] ELSE getpacket
    /\ Eats(p)
    /\ UNCHANGED <<rb, cb, bus>>

-----------------------------------------------------------------------------
(* thread_down_deal.                                                        *)

\* is_down: a sample is due.
StartRound ==
    /\ pc = "idle"
    /\ n' = 1 /\ pc' = "read"
    /\ UNCHANGED <<ddl, result, got, dfsm, line, err, stored, ghost>>

\* It is not: nothing but the end of the loop is left of this turn.
NotDue ==
    /\ pc = "idle" /\ n > 0
    /\ pc' = "rest"
    /\ UNCHANGED <<n, ddl, result, got, dfsm, line, err, stored, ghost>>

\* The end of the loop looks after the port of the last sensor.
Rest ==
    /\ pc = "rest"
    /\ process(Here)
    /\ pc' = "idle"
    /\ UNCHANGED <<n, ddl, result, got, err, stored>>

\* Fault: the receive buffer is not emptied.
InitKeepsBuffer ==
    /\ getpacket' = [getpacket EXCEPT ![Here] = FALSE]
    /\ UNCHANGED rb

\* What dfsm::init does to the receiving side.
InitBuffer ==
    /\ getpacket' = [getpacket EXCEPT ![Here] = FALSE]
    /\ rb' = [rb EXCEPT ![Here] = <<>>]

\* read_a_data begins: init.
Begin ==
    /\ pc = "read" /\ step[Here] \in {"IDLE", "WAIT"}
    /\ InitBuffer
    /\ step' = [step EXCEPT ![Here] = "SEND"]
    /\ retry' = [retry EXCEPT ![Here] = Retries]
    /\ sb' = [sb EXCEPT ![Here] = Cur]
    /\ ddl' = Deadline /\ result' = 0 /\ got' = "zero" /\ pc' = "loop"
    /\ heard' = (IF cb[Here] THEN "other" ELSE "nothing") /\ came' = {} /\ eaten' = FALSE
    /\ UNCHANGED <<n, tmo, line, err, stored>>

\* The dfsm is busy: the sensor is left out this time.
Skip ==
    /\ pc = "read" /\ step[Here] \notin {"IDLE", "WAIT"}
    /\ result' = 0 /\ got' = "zero" /\ pc' = "after"
    /\ heard' = "nothing" /\ came' = {} /\ eaten' = FALSE
    /\ UNCHANGED <<n, ddl, dfsm, line, err, stored>>

\* The test of the loop ...
Loop ==
    /\ pc = "loop"
    /\ IF ddl > 0 /\ ~getpacket[Here]
       THEN pc' = "process" /\ UNCHANGED ddl
       ELSE pc' = "check" /\ ddl' = 0
    /\ UNCHANGED <<n, result, got, dfsm, line, err, stored, ghost>>

\* ... and its body.
LoopProcess ==
    /\ pc = "process"
    /\ process(Here)
    /\ pc' = "loop"
    /\ UNCHANGED <<n, ddl, result, got, err, stored>>

NoPacket ==
    /\ pc = "check" /\ ~getpacket[Here]
    /\ pc' = "after"
    /\ UNCHANGED <<n, ddl, result, got, dfsm, line, err, stored, ghost>>

\* Fault: the prefix of the frame is not compared.
AnyFrame(b) == b # <<>>

\* parse_data: the buffer begins with the prefix of this sensor, whoever sent it.
Own(b) ==
    b # <<>> /\ b[1].from \in Takes[Cur] /\ b[1].part \in {"all", "short", "torn"}

\* The data are the bytes after the prefix, whatever they are: those of another
\* sensor that answers under the same prefix, or that came after the first part of
\* an answer, ...
Foreign(b) ==
    \/ b[1].from # Cur
    \/ b[1].part # "all" /\ Len(b) > 1 /\ b[2].from # Cur

\* ... or those of one frame.  The rest of the buffer is 0.
Whole(b) ==
    \/ b[1].part = "all"
    \/ Len(b) > 1 /\ b[1].from = b[2].from
       /\ <<b[1].part, b[2].part>> \in {<<"short", "rest">>, <<"torn", "last">>}

\* A packet: parse_data, and the dfsm is reset.
Parse ==
    /\ pc = "check" /\ getpacket[Here]
    /\ LET b == rb[Here] IN
       IF Own(b)
       THEN /\ result' = 1
            /\ got' = IF Foreign(b) THEN "foreign" ELSE IF Whole(b) THEN "own" ELSE "torn"
       ELSE result' = -1 /\ got' = "zero"
    /\ step' = [step EXCEPT ![Here] = "IDLE"]
    /\ rb' = [rb EXCEPT ![Here] = <<>>]
    /\ sb' = [sb EXCEPT ![Here] = "none"]
    /\ retry' = [retry EXCEPT ![Here] = 0] /\ tmo' = [tmo EXCEPT ![Here] = 0]
    /\ pc' = "after"
    /\ UNCHANGED <<n, ddl, getpacket, line, err, stored, ghost>>

After ==
    /\ pc = "after"
    /\ process(Here)
    /\ pc' = "store"
    /\ UNCHANGED <<n, ddl, result, got, err, stored>>

\* err_cnt is counted on item, a copy of the entry.  flow_caculation and
\* waterlevel_caculation clear the value, take it, or leave it; any other value
\* is stored as it is, the 0 of a failed reading too.  What is kept of a value is
\* whose it is, not whether it is torn.
Whose(v) == IF v = "torn" THEN "own" ELSE v
Clear == result <= 0 /\ err[Cur] + 1 >= 3
Store ==
    /\ pc = "store"
    /\ stored' = [stored EXCEPT ![Cur] =
          IF Cur \in Direct THEN Whose(got)
          ELSE IF Clear THEN "null" ELSE IF result > 0 THEN Whose(got) ELSE @]
    /\ pc' = "next"
    /\ UNCHANGED <<n, ddl, result, got, dfsm, line, err, ghost>>

\* process(), and the next sensor.
NextSensor ==
    /\ pc = "next"
    /\ process(Here)
    /\ result' = 0 /\ got' = "zero"
    /\ IF n < Len(Order) THEN n' = n + 1 /\ pc' = "read" ELSE n' = n /\ pc' = "end"
    /\ UNCHANGED <<ddl, err, stored>>

EndRound ==
    /\ pc = "end"
    /\ process(Here)
    /\ pc' = "rest"
    /\ UNCHANGED <<n, ddl, result, got, err, stored>>

-----------------------------------------------------------------------------
(* The read threads, the sensors and the time.                              *)

Reading(p) == pc \in {"loop", "process", "check"} /\ p = Here

\* rlen >= wann.
Enough(b) == Len(b) > 1 \/ b[1].part \notin {"short", "last"}

\* What a piece is to the reading.
Kinds(x) ==
    IF x.from # Cur THEN {"late"} ELSE IF x.part # "all" THEN {"piece"} ELSE {}

\* down_packet_process: the piece is appended (parse_data looks at no more than
\* two of them) ...
Deliver(p) ==
    /\ bus[p] # <<>> /\ ~cb[p]
    /\ rb' = [rb EXCEPT ![p] = IF Len(@) < 2 THEN Append(@, Head(bus[p])) ELSE @]
    /\ bus' = [bus EXCEPT ![p] = Tail(@)]
    /\ cb' = [cb EXCEPT ![p] = Enough(rb'[p])]
    /\ heard' = IF Reading(p) /\ heard = "nothing"
                THEN IF Head(bus[p]) = [from |-> Cur, part |-> "all"] THEN "frame" ELSE "other"
                ELSE heard
    /\ came' = IF Reading(p) THEN came \cup Kinds(Head(bus[p])) ELSE came
    /\ UNCHANGED <<pc, n, ddl, result, got, step, retry, sb, getpacket, tmo, wire, err,
                   stored, eaten>>

\* ... and getpacket is set.
SetPacket(p) ==
    /\ cb[p]
    /\ getpacket' = [getpacket EXCEPT ![p] = TRUE]
    /\ cb' = [cb EXCEPT ![p] = FALSE]
    /\ heard' = IF Reading(p) /\ heard = "frame" THEN "answer" ELSE heard
    /\ UNCHANGED <<pc, n, ddl, result, got, step, retry, sb, rb, tmo, wire, bus, err, stored,
                   came, eaten>>

Pieces(x, cut) ==
    LET Of(q) == [from |-> x, part |-> q]
    IN  CASE cut = "whole" -> <<Of("all")>>
          [] cut = "short" -> <<Of("short"), Of("rest")>>
          [] cut = "torn" -> <<Of("torn"), Of("last")>>
          [] OTHER -> <<>>

\* A sensor answers a request, or does not.
Respond(p) ==
    /\ wire[p] # <<>>
    /\ \E cut \in Cuts \cup {"none"} :
          /\ Len(bus[p]) + Len(Pieces(Head(wire[p]), cut)) <= MaxBus
          /\ bus' = [bus EXCEPT ![p] = @ \o Pieces(Head(wire[p]), cut)]
    /\ wire' = [wire EXCEPT ![p] = Tail(@)]
    /\ UNCHANGED <<pc, n, ddl, result, got, dfsm, cb, err, stored, ghost>>

\* Two seconds have passed.
Less(k) == IF k > 0 THEN k - 1 ELSE k
Tick ==
    /\ ddl > 0 \/ \E p \in Ports : tmo[p] > 0
    /\ ddl' = Less(ddl)
    /\ tmo' = [p \in Ports |-> Less(tmo[p])]
    /\ UNCHANGED <<pc, n, result, got, step, retry, sb, rb, getpacket, line, err, stored,
                   ghost>>

-----------------------------------------------------------------------------
Init ==
    /\ pc = "idle" /\ n = 0 /\ ddl = 0 /\ result = 0 /\ got = "zero"
    /\ step = [p \in Ports |-> "IDLE"] /\ retry = [p \in Ports |-> 0]
    /\ sb = [p \in Ports |-> "none"] /\ rb = [p \in Ports |-> <<>>]
    /\ getpacket = [p \in Ports |-> FALSE] /\ tmo = [p \in Ports |-> 0]
    /\ cb = [p \in Ports |-> FALSE]
    /\ wire = [p \in Ports |-> <<>>] /\ bus = [p \in Ports |-> <<>>]
    /\ err \in [Sensor \ Direct -> ErrCnt] /\ stored = [x \in Sensor |-> "null"]
    /\ heard = "nothing" /\ came = {} /\ eaten = FALSE

DownThread ==
    \/ Begin \/ Skip \/ Loop \/ LoopProcess \/ NoPacket \/ Parse \/ After \/ Store
    \/ NextSensor \/ EndRound \/ Rest
ReadThread == \E p \in Ports : Deliver(p) \/ SetPacket(p)

Next ==
    \/ StartRound \/ NotDue \/ DownThread \/ ReadThread
    \/ \E p \in Ports : Respond(p)
    \/ Tick

Spec == Init /\ [][Next]_vars

\* The threads keep running and time goes on, so that the next sample falls due.
FairSpec ==
    Spec /\ WF_vars(DownThread) /\ SF_vars(StartRound) /\ WF_vars(ReadThread) /\ WF_vars(Tick)

-----------------------------------------------------------------------------
(* Properties.                                                              *)

\* The types of the state of the three threads.
TypeOK ==
    /\ pc \in {"idle", "read", "loop", "process", "check", "after", "store", "next", "end",
             "rest"}
    /\ n \in 0..Len(Order) /\ ddl \in 0..Deadline /\ result \in {-1, 0, 1}
    /\ got \in {"zero", "own", "torn", "foreign"}
    /\ step \in [Ports -> Step] /\ retry \in [Ports -> 0..Retries]
    /\ sb \in [Ports -> Sensor \cup {"none"}]
    /\ rb \in [Ports -> Seq(Piece)]
    /\ getpacket \in [Ports -> BOOLEAN] /\ tmo \in [Ports -> 0..1] /\ cb \in [Ports -> BOOLEAN]
    /\ wire \in [Ports -> Seq(Sensor)] /\ bus \in [Ports -> Seq(Piece)]
    /\ err \in [Sensor \ Direct -> ErrCnt]
    /\ stored \in [Sensor -> {"null", "zero", "own", "foreign"}]
    /\ came \subseteq {"late", "piece"}
    /\ heard \in {"nothing", "other", "frame", "answer"} /\ eaten \in BOOLEAN

\* The answers of another sensor of the port begin as those of x do.
Shared(x) == \E y \in Takes[x] \ {x} : Port[y] = Port[x]

\* parse_data looks at a prefix only, and neither at the sender nor at the check sum
\* of the answer.  So bytes of another sensor do become the value of a sensor, but
\* only those that come in the reading itself, since earlier ones are thrown away,
\* and only under a prefix that two sensors of the port share, or behind the first
\* part of an answer of its own that came in pieces.
NoForeignValue ==
    [][got' = "foreign" /\ got # "foreign" =>
          "late" \in came /\ (Shared(Cur) \/ "piece" \in came)]_vars

\* When the first thing that arrives in a reading is the answer of its sensor, in
\* one piece, that answer is the result, whatever earlier readings have left in
\* the buffer, unless process() took getpacket away between two tests of it.
AnswerTaken == pc = "after" /\ heard = "answer" /\ ~eaten => result = 1 /\ got = "own"

\* The inductive invariant behind them.  A dfsm that is not IDLE has a request,
\* and thread_down_deal a sensor once it has begun.
Requested == (pc # "idle" => n > 0) /\ \A p \in Ports : step[p] # "IDLE" => sb[p] \in Sensor

\* Requests and answers stay on the port of their sensor.
At(p) == {x \in Sensor : Port[x] = p}
PieceAt(p) == [from : At(p), part : Part]
Placed ==
    \A p \in Ports :
       /\ step[p] # "IDLE" => sb[p] \in At(p)
       /\ wire[p] \in Seq(At(p)) /\ bus[p] \in Seq(PieceAt(p)) /\ rb[p] \in Seq(PieceAt(p))

\* What is in the buffer during a reading has come in it.
CameInv ==
    pc \in {"loop", "process", "check"} =>
        \A k \in 1..Len(rb[Here]) : Kinds(rb[Here][k]) \subseteq came

\* What was heard in this reading is the first thing in the buffer, and what comes
\* after it does not move it.
First == rb[Here] # <<>> /\ rb[Here][1] = [from |-> Cur, part |-> "all"]
Heard ==
    /\ heard = "nothing" => rb[Here] = <<>> /\ ~cb[Here] /\ ~getpacket[Here]
    /\ heard = "frame" => First /\ cb[Here]
    /\ heard = "answer" => First /\ (getpacket[Here] \/ eaten)
HeardInv == (pc \in {"loop", "process", "check"} => Heard) /\ AnswerTaken

\* Sampling never stops: a dfsm that is still busy with an earlier request makes
\* thread_down_deal leave a sensor out, and the requests it repeats keep it busy,
\* but not for ever: a sensor of every port is asked again and again.  (Which one
\* is not promised: the retries of one may meet the turn of the other each time.)
AskedAgain == \A p \in Ports : []<>(pc = "loop" /\ Here = p)
=============================================================================
