--------------------------- MODULE SamplerProofs ---------------------------
(* Theorems about Sampler, for every value of its constants.                 *)
EXTENDS Sampler, SequenceTheorems, TLAPS

-----------------------------------------------------------------------------
(* Sensors, ports and pieces.                                                *)

LEMMA OrderFacts ==
    /\ Len(Order) \in Nat /\ \A k \in 1..Len(Order) : Order[k] \in Sensor
    /\ \A x \in Sensor : Port[x] \in Ports
BY OrderAssumption DEF Sensor, Ports

LEMMA HereFacts ==
    ASSUME TypeOK, n > 0 PROVE n \in 1..Len(Order) /\ Cur \in Sensor /\ Here \in Ports
<1>1. n \in 1..Len(Order)
  BY OrderFacts DEF TypeOK
<1> QED
  BY <1>1, OrderFacts DEF Cur, Here

LEMMA TailFacts ==
    ASSUME NEW S, NEW q \in Seq(S), q # <<>> PROVE Head(q) \in S /\ Tail(q) \in Seq(S)
OBVIOUS

\* What a sensor sends, however its answer is cut.
LEMMA PiecesTypes ==
    ASSUME NEW x \in Sensor, NEW cut PROVE Pieces(x, cut) \in Seq(Piece)
<1> DEFINE Of(q) == [from |-> x, part |-> q]
<1>1. \A q \in Part : Of(q) \in Piece
  BY DEF Piece
<1>2. Of("all") \in Piece /\ Of("short") \in Piece /\ Of("rest") \in Piece
      /\ Of("torn") \in Piece /\ Of("last") \in Piece
  BY <1>1 DEF Part
<1>3. /\ <<Of("all")>> \in Seq(Piece) /\ <<Of("short"), Of("rest")>> \in Seq(Piece)
      /\ <<Of("torn"), Of("last")>> \in Seq(Piece) /\ <<>> \in Seq(Piece)
  BY <1>2
<1>4. Pieces(x, cut) \in {<<Of("all")>>, <<Of("short"), Of("rest")>>, <<Of("torn"), Of("last")>>,
                          <<>>}
  <2>1. CASE cut = "whole"
    BY <2>1 DEF Pieces
  <2>2. CASE cut = "short"
    BY <2>2 DEF Pieces
  <2>3. CASE cut = "torn"
    BY <2>3 DEF Pieces
  <2>4. CASE cut \notin {"whole", "short", "torn"}
    BY <2>4 DEF Pieces
  <2> QED
    BY <2>1, <2>2, <2>3, <2>4
<1> QED
  BY <1>3, <1>4

-----------------------------------------------------------------------------
(* Types.                                                                    *)

\* The next step of a dfsm.
LEMMA ProcessStep ==
    ASSUME TypeOK, NEW p \in Ports, process(p)
    PROVE  /\ step' \in [Ports -> Step] /\ \A q \in Ports : q # p => step'[q] = step[q]
           /\ (step'[p] # "IDLE" => step[p] \in {"SEND", "WAIT"})
<1> DEFINE v == CASE step[p] = "SEND" -> "WAIT"
            [] Resend(p) /\ Repeats(p) -> "SEND"
            [] Resend(p) -> "TIMEOUT"
            [] step[p] = "WAIT" /\ getpacket[p] -> "GET"
            [] step[p] = "WAIT" -> "WAIT"
            [] OTHER -> "IDLE"
<1>1. step' = [step EXCEPT ![p] = v] /\ step \in [Ports -> Step]
  BY DEF process, TypeOK
<1>2. CASE step[p] = "SEND"
  <2>1. v = "WAIT"
    BY <1>2 DEF Resend
  <2> HIDE DEF v
  <2> QED
    BY <1>1, <1>2, <2>1 DEF Step
<1>3. CASE step[p] = "WAIT"
  <2>1. v \in {"SEND", "TIMEOUT", "GET", "WAIT"}
    BY <1>3 DEF Resend
  <2> HIDE DEF v
  <2> QED
    BY <1>1, <1>3, <2>1 DEF Step
<1>4. CASE step[p] \notin {"SEND", "WAIT"}
  <2>1. v = "IDLE"
    BY <1>4 DEF Resend
  <2> HIDE DEF v
  <2> QED
    BY <1>1, <1>4, <2>1 DEF Step
<1> QED
  BY <1>2, <1>3, <1>4

\* dfsm::process keeps the types of the port and of the ghosts, and a request as
\* long as it is under way.
LEMMA ProcessTypes ==
    ASSUME TypeOK, Requested, NEW p \in Ports, process(p)
    PROVE  /\ step' \in [Ports -> Step] /\ retry' \in [Ports -> 0..Retries]
           /\ sb' \in [Ports -> Sensor \cup {"none"}] /\ rb' = rb
           /\ getpacket' \in [Ports -> BOOLEAN] /\ tmo' \in [Ports -> 0..1]
           /\ cb' = cb /\ wire' \in [Ports -> Seq(Sensor)] /\ bus' = bus
           /\ heard' \in {"nothing", "other", "frame", "answer"} /\ eaten' \in BOOLEAN
           /\ came' \subseteq {"late", "piece"}
           /\ \A q \in Ports : step'[q] # "IDLE" => sb'[q] \in Sensor
<1>1. step' \in [Ports -> Step]
  BY ProcessStep
<1>2. retry' \in [Ports -> 0..Retries]
  <2>1. retry[p] \in 0..Retries /\ 0 \in 0..Retries
    BY BoundAssumption DEF TypeOK
  <2>2. Repeats(p) => Counted(retry[p]) \in 0..Retries
    BY <2>1, BoundAssumption DEF Repeats, Counted
  <2> DEFINE k == IF Over(p) THEN 0
                  ELSE IF Resend(p) /\ Repeats(p) THEN Counted(retry[p]) ELSE retry[p]
  <2>3. k \in 0..Retries
    BY <2>1, <2>2
  <2>4. retry' = [retry EXCEPT ![p] = k] /\ retry \in [Ports -> 0..Retries]
    BY DEF process, TypeOK
  <2> HIDE DEF k
  <2> QED
    BY <2>3, <2>4
<1>3. tmo' \in [Ports -> 0..1]
  <2> DEFINE k == IF step[p] = "SEND" THEN 1 ELSE IF Over(p) THEN 0 ELSE tmo[p]
  <2>1. k \in 0..1
    BY DEF TypeOK
  <2>2. tmo' = [tmo EXCEPT ![p] = k] /\ tmo \in [Ports -> 0..1]
    BY DEF process, TypeOK
  <2> HIDE DEF k
  <2> QED
    BY <2>1, <2>2
<1>4. sb' \in [Ports -> Sensor \cup {"none"}] /\ \A q \in Ports : q # p \/ ~Over(p) => sb'[q] = sb[q]
  BY DEF process, TypeOK
<1>5. wire' \in [Ports -> Seq(Sensor)]
  <2>1. wire \in [Ports -> Seq(Sensor)]
    BY DEF TypeOK
  <2>2. CASE step[p] = "SEND" /\ Len(wire[p]) < MaxWire
    <3>1. sb[p] \in Sensor
      BY <2>2 DEF Requested
    <3>2. Append(wire[p], sb[p]) \in Seq(Sensor)
      BY <2>1, <3>1
    <3>3. wire' = [wire EXCEPT ![p] = Append(wire[p], sb[p])]
      BY <2>2 DEF process
    <3> QED
      BY <2>1, <3>2, <3>3
  <2>3. CASE ~(step[p] = "SEND" /\ Len(wire[p]) < MaxWire)
    BY <2>1, <2>3 DEF process
  <2> QED
    BY <2>2, <2>3
<1>6. getpacket' \in [Ports -> BOOLEAN]
  BY DEF process, TypeOK
<1>7. heard' \in {"nothing", "other", "frame", "answer"} /\ eaten' \in BOOLEAN
      /\ came' \subseteq {"late", "piece"}
  BY DEF process, Eats, TypeOK
<1>8. ASSUME NEW q \in Ports, step'[q] # "IDLE" PROVE sb'[q] \in Sensor
  <2>1. CASE q = p
    <3>1. step[p] \in {"SEND", "WAIT"}
      BY <1>8, <2>1, ProcessStep
    <3>2. sb'[q] = sb[q]
      BY <1>4, <2>1, <3>1 DEF Over
    <3> QED
      BY <2>1, <3>1, <3>2 DEF Requested
  <2>2. CASE q # p
    <3>1. step'[q] = step[q] /\ sb'[q] = sb[q]
      BY <1>4, <2>2, ProcessStep
    <3> QED
      BY <1>8, <3>1 DEF Requested
  <2> QED
    BY <2>1, <2>2
<1>9. rb' = rb /\ cb' = cb /\ bus' = bus
  BY DEF process
<1> QED
  BY <1>1, <1>2, <1>3, <1>4, <1>5, <1>6, <1>7, <1>8, <1>9

LEMMA InitTypes == Init => TypeOK /\ Requested
<1> SUFFICES ASSUME Init PROVE TypeOK /\ Requested
  OBVIOUS
<1>1. 0 \in 0..Len(Order) /\ 0 \in 0..Deadline /\ 0 \in 0..Retries
  BY OrderFacts, BoundAssumption
<1>2. "IDLE" \in Step
  BY DEF Step
<1>3. /\ rb \in [Ports -> Seq(Piece)] /\ wire \in [Ports -> Seq(Sensor)]
      /\ bus \in [Ports -> Seq(Piece)]
  BY DEF Init
<1>4. /\ retry \in [Ports -> 0..Retries] /\ tmo \in [Ports -> 0..1] /\ step \in [Ports -> Step]
      /\ sb \in [Ports -> Sensor \cup {"none"}]
  BY <1>1, <1>2 DEF Init
<1>5. /\ getpacket \in [Ports -> BOOLEAN] /\ cb \in [Ports -> BOOLEAN]
      /\ stored \in [Sensor -> {"null", "zero", "own", "foreign"}]
  BY DEF Init
<1>6. TypeOK
  BY <1>1, <1>3, <1>4, <1>5 DEF Init, TypeOK
<1> QED
  BY <1>6 DEF Init, Requested

\* The steps of thread_down_deal that run process() on the port.
LEMMA ProcessingTypes ==
    ASSUME TypeOK, Requested, Rest \/ LoopProcess \/ After \/ NextSensor \/ EndRound
    PROVE  TypeOK' /\ Requested'
<1>1. n > 0 /\ process(Here) /\ UNCHANGED <<ddl, err, stored>>
  BY DEF Rest, LoopProcess, After, NextSensor, EndRound, Requested
<1>2. n \in 1..Len(Order) /\ Here \in Ports
  BY <1>1, HereFacts
<1>3. /\ step' \in [Ports -> Step] /\ retry' \in [Ports -> 0..Retries]
      /\ sb' \in [Ports -> Sensor \cup {"none"}] /\ rb' = rb
      /\ getpacket' \in [Ports -> BOOLEAN] /\ tmo' \in [Ports -> 0..1]
      /\ cb' = cb /\ wire' \in [Ports -> Seq(Sensor)] /\ bus' = bus
      /\ heard' \in {"nothing", "other", "frame", "answer"} /\ eaten' \in BOOLEAN
      /\ came' \subseteq {"late", "piece"}
      /\ \A q \in Ports : step'[q] # "IDLE" => sb'[q] \in Sensor
  BY <1>1, <1>2, ProcessTypes
<1>4. n' \in 1..Len(Order)
  BY <1>2, OrderFacts DEF Rest, LoopProcess, After, NextSensor, EndRound
<1>5. n' \in 0..Len(Order) /\ n' > 0
  BY <1>4, OrderFacts
<1>6. pc' \in {"idle", "read", "loop", "process", "check", "after", "store", "next", "end", "rest"}
      /\ result' \in {-1, 0, 1} /\ got' \in {"zero", "own", "torn", "foreign"}
  BY DEF Rest, LoopProcess, After, NextSensor, EndRound, TypeOK
<1>7. TypeOK'
  BY <1>1, <1>3, <1>5, <1>6 DEF TypeOK
<1> QED
  BY <1>3, <1>5, <1>7 DEF Requested

\* The steps that only move thread_down_deal on.
LEMMA PlainTypes ==
    ASSUME TypeOK, Requested, StartRound \/ NotDue \/ Skip \/ Loop \/ NoPacket \/ Store
    PROVE  TypeOK' /\ Requested'
<1>1. CASE StartRound
  <2>1. 1 \in 0..Len(Order)
    BY OrderAssumption, OrderFacts
  <2> QED
    BY <1>1, <2>1 DEF TypeOK, Requested, StartRound, dfsm, line, ghost
<1>2. CASE NotDue
  BY <1>2 DEF TypeOK, Requested, NotDue, dfsm, line, ghost
<1>3. CASE Skip
  BY <1>3 DEF TypeOK, Requested, Skip, dfsm, line
<1>4. CASE Loop
  <2>1. ddl' \in 0..Deadline
    BY <1>4, BoundAssumption DEF Loop, TypeOK
  <2> QED
    BY <1>4, <2>1 DEF TypeOK, Requested, Loop, dfsm, line, ghost
<1>5. CASE NoPacket
  BY <1>5 DEF TypeOK, Requested, NoPacket, dfsm, line, ghost
<1>6. CASE Store
  <2>1. n > 0
    BY <1>6 DEF Requested, Store
  <2>2. Cur \in Sensor
    BY <2>1, HereFacts
  <2>3. Whose(got) \in {"null", "zero", "own", "foreign"}
    BY DEF Whose, TypeOK
  <2>4. stored' \in [Sensor -> {"null", "zero", "own", "foreign"}]
    BY <1>6, <2>2, <2>3 DEF Store, TypeOK
  <2> QED
    BY <1>6, <2>4 DEF TypeOK, Requested, Store, dfsm, line, ghost
<1> QED
  BY <1>1, <1>2, <1>3, <1>4, <1>5, <1>6

LEMMA BeginTypes == ASSUME TypeOK, Requested, Begin PROVE TypeOK' /\ Requested'
<1>1. n > 0
  BY DEF Begin, Requested
<1>2. Cur \in Sensor /\ Here \in Ports
  BY <1>1, HereFacts
<1>3. /\ rb' \in [Ports -> Seq(Piece)] /\ getpacket' \in [Ports -> BOOLEAN]
  BY <1>2 DEF Begin, InitBuffer, TypeOK
<1>4. retry' \in [Ports -> 0..Retries] /\ ddl' \in 0..Deadline
  <2>1. Retries \in 0..Retries /\ Deadline \in 0..Deadline
    BY BoundAssumption
  <2>2. retry' = [retry EXCEPT ![Here] = Retries] /\ ddl' = Deadline
    BY DEF Begin
  <2>3. retry \in [Ports -> 0..Retries]
    BY DEF TypeOK
  <2> QED
    BY <2>1, <2>2, <2>3
<1>5. step' \in [Ports -> Step] /\ sb' \in [Ports -> Sensor \cup {"none"}]
  BY <1>2 DEF Begin, TypeOK, Step
<1>6. \A q \in Ports : step'[q] # "IDLE" => sb'[q] \in Sensor
  BY <1>2 DEF Begin, TypeOK, Requested
<1>7. pc' = "loop" /\ result' = 0 /\ got' = "zero" /\ UNCHANGED <<n, tmo, cb, wire, bus, err, stored>>
  BY DEF Begin, line
<1>8. heard' \in {"nothing", "other", "frame", "answer"} /\ eaten' \in BOOLEAN /\ came' = {}
  BY DEF Begin
<1>9. TypeOK'
  BY <1>3, <1>4, <1>5, <1>7, <1>8 DEF TypeOK
<1> QED
  BY <1>1, <1>6, <1>7, <1>9 DEF Requested

LEMMA ParseTypes == ASSUME TypeOK, Requested, Parse PROVE TypeOK' /\ Requested'
<1>1. n > 0
  BY DEF Parse, Requested
<1>2. Cur \in Sensor /\ Here \in Ports
  BY <1>1, HereFacts
<1>3. result' \in {-1, 0, 1} /\ got' \in {"zero", "own", "torn", "foreign"}
  BY DEF Parse
<1>4. rb' \in [Ports -> Seq(Piece)] /\ step' \in [Ports -> Step]
      /\ sb' \in [Ports -> Sensor \cup {"none"}]
  BY <1>2 DEF Parse, TypeOK, Step
<1>5. retry' \in [Ports -> 0..Retries] /\ tmo' \in [Ports -> 0..1]
  <2>1. 0 \in 0..Retries /\ 0 \in 0..1
    BY BoundAssumption
  <2>2. retry' = [retry EXCEPT ![Here] = 0] /\ tmo' = [tmo EXCEPT ![Here] = 0]
    BY DEF Parse
  <2>3. retry \in [Ports -> 0..Retries] /\ tmo \in [Ports -> 0..1]
    BY DEF TypeOK
  <2> QED
    BY <2>1, <2>2, <2>3
<1>6. \A q \in Ports : step'[q] # "IDLE" => sb'[q] \in Sensor
  BY <1>2 DEF Parse, TypeOK, Requested
<1>7. pc' = "after" /\ UNCHANGED <<n, ddl, getpacket, cb, wire, bus, err, stored, heard, came, eaten>>
  BY DEF Parse, line, ghost
<1>8. TypeOK'
  BY <1>3, <1>4, <1>5, <1>7 DEF TypeOK
<1> QED
  BY <1>1, <1>6, <1>7, <1>8 DEF Requested

LEMMA ReadTypes ==
    ASSUME TypeOK, Requested, NEW p \in Ports, Deliver(p) \/ SetPacket(p)
    PROVE  TypeOK' /\ Requested'
<1>1. CASE Deliver(p)
  <2>1. bus[p] \in Seq(Piece) /\ bus[p] # <<>> /\ rb[p] \in Seq(Piece)
    BY <1>1 DEF Deliver, TypeOK
  <2>2. Head(bus[p]) \in Piece /\ Tail(bus[p]) \in Seq(Piece)
    BY <2>1, TailFacts
  <2>3. Append(rb[p], Head(bus[p])) \in Seq(Piece)
    BY <2>1, <2>2
  <2>4. rb' \in [Ports -> Seq(Piece)]
    BY <1>1, <2>1, <2>3 DEF Deliver, TypeOK
  <2>5. bus' \in [Ports -> Seq(Piece)]
    BY <1>1, <2>2 DEF Deliver, TypeOK
  <2>6. cb' \in [Ports -> BOOLEAN]
    <3>1. Enough(rb'[p]) \in BOOLEAN
      BY DEF Enough
    <3> QED
      BY <1>1, <3>1 DEF Deliver, TypeOK
  <2>7. heard' \in {"nothing", "other", "frame", "answer"} /\ came' \subseteq {"late", "piece"}
    BY <1>1 DEF Deliver, TypeOK, Kinds
  <2> QED
    BY <1>1, <2>4, <2>5, <2>6, <2>7 DEF Deliver, TypeOK, Requested
<1>2. CASE SetPacket(p)
  <2>1. getpacket' \in [Ports -> BOOLEAN] /\ cb' \in [Ports -> BOOLEAN]
        /\ heard' \in {"nothing", "other", "frame", "answer"}
    BY <1>2 DEF SetPacket, TypeOK
  <2> QED
    BY <1>2, <2>1 DEF SetPacket, TypeOK, Requested
<1> QED
  BY <1>1, <1>2

LEMMA RespondTypes ==
    ASSUME TypeOK, Requested, NEW p \in Ports, Respond(p) PROVE TypeOK' /\ Requested'
<1>1. wire[p] \in Seq(Sensor) /\ wire[p] # <<>> /\ bus[p] \in Seq(Piece)
  BY DEF Respond, TypeOK
<1>2. Head(wire[p]) \in Sensor /\ Tail(wire[p]) \in Seq(Sensor)
  BY <1>1, TailFacts
<1>3. PICK cut : bus' = [bus EXCEPT ![p] = @ \o Pieces(Head(wire[p]), cut)]
  BY DEF Respond
<1>4. Pieces(Head(wire[p]), cut) \in Seq(Piece)
  BY <1>2, PiecesTypes
<1>5. bus[p] \o Pieces(Head(wire[p]), cut) \in Seq(Piece)
  BY <1>1, <1>4
<1>6. bus' \in [Ports -> Seq(Piece)] /\ wire' \in [Ports -> Seq(Sensor)]
  BY <1>2, <1>3, <1>5 DEF Respond, TypeOK
<1> QED
  BY <1>6 DEF Respond, TypeOK, Requested, dfsm, ghost

LEMMA TickTypes == ASSUME TypeOK, Requested, Tick PROVE TypeOK' /\ Requested'
<1>1. ddl' \in 0..Deadline
  BY BoundAssumption DEF Tick, TypeOK, Less
<1>2. tmo' \in [Ports -> 0..1]
  <2>1. \A p \in Ports : Less(tmo[p]) \in 0..1
    BY DEF TypeOK, Less
  <2> QED
    BY <2>1 DEF Tick
<1> QED
  BY <1>1, <1>2 DEF Tick, TypeOK, Requested, line, ghost

LEMMA NextTypes == ASSUME TypeOK, Requested, [Next]_vars PROVE TypeOK' /\ Requested'
<1>1. CASE UNCHANGED vars
  BY <1>1 DEF TypeOK, Requested, vars, dfsm, line, ghost
<1>2. CASE Next
  BY <1>2, ProcessingTypes, PlainTypes, BeginTypes, ParseTypes, ReadTypes, RespondTypes, TickTypes
     DEF Next, DownThread, ReadThread
<1> QED
  BY <1>1, <1>2

\* The state of the threads, of the dfsm of each port and of the line keeps its
\* types; retry never falls below 0, and only sensors are ever asked.
THEOREM TypeCorrect == Spec => []TypeOK
BY InitTypes, NextTypes, PTL DEF Spec

-----------------------------------------------------------------------------
(* Whose a value is.                                                         *)

\* What a sensor sends stays on its port.
LEMMA PiecesPlaced ==
    ASSUME NEW p, NEW x \in At(p), NEW cut PROVE Pieces(x, cut) \in Seq(PieceAt(p))
<1> DEFINE Of(q) == [from |-> x, part |-> q]
<1>1. \A q \in Part : Of(q) \in PieceAt(p)
  BY DEF PieceAt
<1>2. Of("all") \in PieceAt(p) /\ Of("short") \in PieceAt(p) /\ Of("rest") \in PieceAt(p)
      /\ Of("torn") \in PieceAt(p) /\ Of("last") \in PieceAt(p)
  BY <1>1 DEF Part
<1>3. /\ <<Of("all")>> \in Seq(PieceAt(p)) /\ <<Of("short"), Of("rest")>> \in Seq(PieceAt(p))
      /\ <<Of("torn"), Of("last")>> \in Seq(PieceAt(p)) /\ <<>> \in Seq(PieceAt(p))
  BY <1>2
<1>4. CASE cut = "whole"
  BY <1>3, <1>4 DEF Pieces
<1>5. CASE cut = "short"
  BY <1>3, <1>5 DEF Pieces
<1>6. CASE cut = "torn"
  BY <1>3, <1>6 DEF Pieces
<1>7. CASE cut \notin {"whole", "short", "torn"}
  BY <1>3, <1>7 DEF Pieces
<1> QED
  BY <1>4, <1>5, <1>6, <1>7

LEMMA InitPlaced == Init => Placed
BY DEF Init, Placed

LEMMA ProcessPlaced ==
    ASSUME TypeOK, Placed, NEW p \in Ports, process(p) PROVE Placed'
<1> SUFFICES ASSUME NEW q \in Ports
             PROVE  /\ step'[q] # "IDLE" => sb'[q] \in At(q)
                    /\ wire'[q] \in Seq(At(q)) /\ bus'[q] \in Seq(PieceAt(q))
                    /\ rb'[q] \in Seq(PieceAt(q))
  BY DEF Placed, At, PieceAt
<1>1. rb' = rb /\ bus' = bus
  BY DEF process
<1>2. step'[q] # "IDLE" => step[q] # "IDLE" /\ sb'[q] = sb[q]
  <2>1. CASE q = p
    <3>1. step'[p] # "IDLE" => step[p] \in {"SEND", "WAIT"}
      BY ProcessStep
    <3>2. step[p] \in {"SEND", "WAIT"} => sb'[p] = sb[p]
      BY DEF process, Over, TypeOK
    <3> QED
      BY <2>1, <3>1, <3>2
  <2>2. CASE q # p
    <3>1. step'[q] = step[q]
      BY <2>2, ProcessStep
    <3>2. sb'[q] = sb[q]
      BY <2>2 DEF process, TypeOK
    <3> QED
      BY <3>1, <3>2
  <2> QED
    BY <2>1, <2>2
<1>3. wire'[q] = wire[q] \/ (q = p /\ step[p] = "SEND" /\ wire'[q] = Append(wire[p], sb[p]))
  BY DEF process, TypeOK
<1>4. wire'[q] \in Seq(At(q))
  <2>1. CASE wire'[q] = wire[q]
    BY <2>1 DEF Placed
  <2>2. CASE q = p /\ step[p] = "SEND" /\ wire'[q] = Append(wire[p], sb[p])
    <3>1. sb[p] \in At(p) /\ wire[p] \in Seq(At(p))
      BY <2>2 DEF Placed
    <3>2. Append(wire[p], sb[p]) \in Seq(At(p))
      BY <3>1
    <3> QED
      BY <2>2, <3>2
  <2> QED
    BY <1>3, <2>1, <2>2
<1> QED
  BY <1>1, <1>2, <1>4 DEF Placed

LEMMA NextPlaced == ASSUME TypeOK, Requested, Placed, [Next]_vars PROVE Placed'
<1>1. CASE UNCHANGED <<step, sb, wire, bus, rb>>
  BY <1>1 DEF Placed, At, PieceAt
<1>2. CASE Rest \/ LoopProcess \/ After \/ NextSensor \/ EndRound
  <2>1. n > 0 /\ process(Here)
    BY <1>2 DEF Rest, LoopProcess, After, NextSensor, EndRound, Requested
  <2> QED
    BY <2>1, HereFacts, ProcessPlaced
<1>3. CASE Begin \/ Parse
  <2>1. n > 0
    BY <1>3 DEF Begin, Parse, Requested
  <2>2. Here \in Ports /\ Cur \in At(Here)
    BY <2>1, HereFacts DEF At, Here
  <2>3. UNCHANGED <<wire, bus>> /\ rb' = [rb EXCEPT ![Here] = <<>>]
    BY <1>3 DEF Begin, Parse, InitBuffer, line
  <2>4. \/ step' = [step EXCEPT ![Here] = "SEND"] /\ sb' = [sb EXCEPT ![Here] = Cur]
        \/ step' = [step EXCEPT ![Here] = "IDLE"] /\ sb' = [sb EXCEPT ![Here] = "none"]
    BY <1>3 DEF Begin, Parse
  <2> SUFFICES ASSUME NEW q \in Ports
               PROVE  /\ step'[q] # "IDLE" => sb'[q] \in At(q)
                      /\ wire'[q] \in Seq(At(q)) /\ bus'[q] \in Seq(PieceAt(q))
                      /\ rb'[q] \in Seq(PieceAt(q))
    BY DEF Placed, At, PieceAt
  <2>5. step'[q] # "IDLE" => sb'[q] \in At(q)
    BY <2>2, <2>4 DEF Placed, TypeOK
  <2>6. rb'[q] \in Seq(PieceAt(q))
    <3>1. <<>> \in Seq(PieceAt(q))
      OBVIOUS
    <3>2. rb'[q] = <<>> \/ rb'[q] = rb[q]
      BY <2>2, <2>3 DEF TypeOK
    <3> QED
      BY <3>1, <3>2 DEF Placed
  <2> QED
    BY <2>3, <2>5, <2>6 DEF Placed
<1>4. ASSUME NEW p \in Ports, Deliver(p) PROVE Placed'
  <2>1. bus[p] \in Seq(PieceAt(p)) /\ bus[p] # <<>> /\ rb[p] \in Seq(PieceAt(p))
    BY <1>4 DEF Deliver, Placed
  <2>2. Head(bus[p]) \in PieceAt(p) /\ Tail(bus[p]) \in Seq(PieceAt(p))
    BY <2>1, TailFacts
  <2>3. Append(rb[p], Head(bus[p])) \in Seq(PieceAt(p))
    BY <2>1, <2>2
  <2>4. \A q \in Ports : /\ bus'[q] = IF q = p THEN Tail(bus[p]) ELSE bus[q]
                         /\ rb'[q] \in {rb[q]} \cup (IF q = p THEN {Append(rb[p], Head(bus[p]))}
                                                     ELSE {})
    BY <1>4 DEF Deliver, TypeOK
  <2>5. \A q \in Ports : bus'[q] \in Seq(PieceAt(q)) /\ rb'[q] \in Seq(PieceAt(q))
    BY <2>1, <2>2, <2>3, <2>4 DEF Placed
  <2>6. UNCHANGED <<step, sb, wire>>
    BY <1>4 DEF Deliver
  <2> QED
    BY <2>5, <2>6 DEF Placed, At, PieceAt
<1>5. ASSUME NEW p \in Ports, Respond(p) PROVE Placed'
  <2>1. wire[p] \in Seq(At(p)) /\ wire[p] # <<>> /\ bus[p] \in Seq(PieceAt(p))
    BY <1>5 DEF Respond, Placed
  <2>2. Head(wire[p]) \in At(p) /\ Tail(wire[p]) \in Seq(At(p))
    BY <2>1, TailFacts
  <2>3. PICK cut : bus' = [bus EXCEPT ![p] = @ \o Pieces(Head(wire[p]), cut)]
    BY <1>5 DEF Respond
  <2>4. Pieces(Head(wire[p]), cut) \in Seq(PieceAt(p))
    BY <2>2, PiecesPlaced
  <2>5. bus[p] \o Pieces(Head(wire[p]), cut) \in Seq(PieceAt(p))
    BY <2>1, <2>4
  <2>6. wire' = [wire EXCEPT ![p] = Tail(@)] /\ UNCHANGED <<step, sb, rb>>
    BY <1>5 DEF Respond, dfsm
  <2>7. \A q \in Ports :
           /\ bus'[q] = IF q = p THEN bus[p] \o Pieces(Head(wire[p]), cut) ELSE bus[q]
           /\ wire'[q] = IF q = p THEN Tail(wire[p]) ELSE wire[q]
    BY <2>3, <2>6 DEF TypeOK
  <2>8. \A q \in Ports : bus'[q] \in Seq(PieceAt(q)) /\ wire'[q] \in Seq(At(q))
    BY <2>2, <2>5, <2>7 DEF Placed
  <2> QED
    BY <2>6, <2>8 DEF Placed, At, PieceAt
<1>6. CASE \/ StartRound \/ NotDue \/ Skip \/ Loop \/ NoPacket \/ Store \/ Tick \/ UNCHANGED vars
           \/ \E p \in Ports : SetPacket(p)
  <2>1. UNCHANGED <<step, sb, wire, bus, rb>>
    BY <1>6 DEF StartRound, NotDue, Skip, Loop, NoPacket, Store, Tick, SetPacket, vars, dfsm, line
  <2> QED
    BY <1>1, <2>1
<1> QED
  BY <1>2, <1>3, <1>4, <1>5, <1>6 DEF Next, DownThread, ReadThread

\* The pieces in the buffer of a reading are noted.
LEMMA NextCame == ASSUME TypeOK, Requested, CameInv, [Next]_vars PROVE CameInv'
<1>1. CASE UNCHANGED <<n, rb, came>> /\ (pc' \in {"loop", "process", "check"} =>
                                            pc \in {"loop", "process", "check"})
  BY <1>1 DEF CameInv, Kinds, Here, Cur
<1>2. CASE pc' \notin {"loop", "process", "check"}
  BY <1>2 DEF CameInv
<1>3. CASE Begin
  <2>1. n > 0 /\ n' = n
    BY <1>3 DEF Begin, Requested
  <2>2. Here \in Ports /\ Here' = Here
    BY <2>1, HereFacts DEF Here, Cur
  <2>3. rb'[Here'] = <<>>
    BY <1>3, <2>2 DEF Begin, InitBuffer, TypeOK
  <2>4. 1..Len(rb'[Here']) = {}
    BY <2>3
  <2> QED
    BY <2>4 DEF CameInv
<1>4. CASE LoopProcess
  <2>1. UNCHANGED <<n, rb, came>> /\ pc = "process"
    BY <1>4 DEF LoopProcess, process, Eats
  <2> QED
    BY <1>1, <2>1
<1>5. ASSUME NEW p \in Ports, Deliver(p), pc' \in {"loop", "process", "check"} PROVE CameInv'
  <2>1. UNCHANGED <<pc, n>> /\ pc \in {"loop", "process", "check"}
    BY <1>5 DEF Deliver
  <2>2. Cur' = Cur /\ Here' = Here
    BY <2>1 DEF Cur, Here
  <2>3. n > 0 /\ Here \in Ports
    BY <2>1, HereFacts DEF Requested
  <2>4. \A k \in 1..Len(rb[Here]) : Kinds(rb[Here][k]) \subseteq came
    BY <2>1 DEF CameInv
  <2>5. came \subseteq came'
    BY <1>5 DEF Deliver
  <2>6. CASE rb'[Here] = rb[Here]
    BY <2>2, <2>4, <2>5, <2>6 DEF CameInv, Kinds
  <2>7. CASE rb'[Here] # rb[Here]
    <3> DEFINE x == Head(bus[Here])
    <3>1. p = Here
      BY <1>5, <2>3, <2>7 DEF Deliver, TypeOK
    <3>2. rb'[Here] = Append(rb[Here], x) /\ rb[Here] \in Seq(Piece)
      BY <1>5, <2>3, <2>7, <3>1 DEF Deliver, TypeOK
    <3>3. Kinds(x) \subseteq came'
      BY <1>5, <2>1, <3>1 DEF Deliver, Reading
    <3>4. ASSUME NEW k \in 1..Len(rb'[Here]) PROVE rb'[Here][k] \in {rb[Here][j] : j \in 1..Len(rb[Here])} \cup {x}
      <4> HIDE DEF x
      <4>1. Len(rb'[Here]) = Len(rb[Here]) + 1 /\ Len(rb[Here]) \in Nat
        BY <3>2
      <4>2. CASE k = Len(rb[Here]) + 1
        <5>1. rb'[Here][k] = x
          BY <3>2, <4>2
        <5> QED
          BY <5>1
      <4>3. CASE k # Len(rb[Here]) + 1
        <5>1. k \in 1..Len(rb[Here])
          BY <3>4, <4>1, <4>3
        <5>2. rb'[Here][k] = rb[Here][k]
          BY <3>2, <5>1
        <5> QED
          BY <5>1, <5>2
      <4> QED
        BY <4>2, <4>3
    <3>5. \A k \in 1..Len(rb'[Here]) : Kinds(rb'[Here][k]) \subseteq came'
      BY <2>4, <2>5, <3>3, <3>4
    <3> QED
      BY <2>2, <3>5 DEF CameInv, Kinds
  <2> QED
    BY <2>6, <2>7
<1>6. CASE Loop \/ Tick \/ UNCHANGED vars \/ \E p \in Ports : SetPacket(p) \/ Respond(p)
  <2>1. UNCHANGED <<n, rb, came>> /\ (pc' \in {"loop", "process", "check"} =>
                                        pc \in {"loop", "process", "check"})
    BY <1>6 DEF Loop, Tick, SetPacket, Respond, vars, dfsm, ghost
  <2> QED
    BY <1>1, <2>1
<1>7. CASE StartRound \/ NotDue \/ Skip \/ NoPacket \/ Parse \/ After \/ Store \/ NextSensor
           \/ EndRound \/ Rest
  <2>1. pc' \notin {"loop", "process", "check"}
    BY <1>7 DEF StartRound, NotDue, Skip, NoPacket, Parse, After, Store, NextSensor, EndRound, Rest
  <2> QED
    BY <1>2, <2>1
<1> QED
  BY <1>2, <1>3, <1>4, <1>5, <1>6, <1>7 DEF Next, DownThread, ReadThread

\* Bytes of another sensor become the value of a sensor only if they came in the
\* reading itself, and under a prefix that two sensors of the port share or behind
\* the first part of an answer.
THEOREM NoForeignValues == Spec => NoForeignValue
<1>1. TypeOK /\ Requested /\ Placed /\ CameInv /\ [Next]_vars =>
      (got' = "foreign" /\ got # "foreign" =>
          "late" \in came /\ (Shared(Cur) \/ "piece" \in came))
  <2> SUFFICES ASSUME TypeOK, Requested, Placed, CameInv, [Next]_vars, got' = "foreign",
                      got # "foreign"
               PROVE  "late" \in came /\ (Shared(Cur) \/ "piece" \in came)
    OBVIOUS
  <2>1. Parse
    <3>1. Parse \/ got' \in {got, "zero"}
      BY DEF Next, DownThread, ReadThread, StartRound, NotDue, Begin, Skip, Loop, LoopProcess,
             NoPacket, After, Store, NextSensor, EndRound, Rest, Deliver, SetPacket, Respond,
             Tick, vars
    <3> QED
      BY <3>1
  <2> DEFINE b == rb[Here]
  <2>2. n > 0 /\ pc = "check"
    BY <2>1 DEF Parse, Requested
  <2>3. Here \in Ports /\ Cur \in Sensor /\ Port[Cur] = Here
    BY <2>2, HereFacts DEF Here
  <2>4. b # <<>> /\ b[1].from \in Takes[Cur] /\ Foreign(b)
    BY <2>1 DEF Parse, Own
  <2>5. b \in Seq(PieceAt(Here))
    BY <2>3 DEF Placed
  <2>6. \A k \in 1..Len(b) : Kinds(b[k]) \subseteq came
    BY <2>2 DEF CameInv
  <2>7. Len(b) \in Nat /\ Len(b) > 0 /\ b[1] \in PieceAt(Here)
    BY <2>4, <2>5
  <2>8. CASE b[1].from # Cur
    <3>1. "late" \in came
      BY <2>6, <2>7, <2>8 DEF Kinds
    <3>2. Port[b[1].from] = Here
      BY <2>7 DEF PieceAt, At
    <3> QED
      BY <2>3, <2>4, <2>8, <3>1, <3>2 DEF Shared
  <2>9. CASE b[1].from = Cur
    <3>1. b[1].part # "all" /\ Len(b) > 1 /\ b[2].from # Cur
      BY <2>4, <2>9 DEF Foreign
    <3>2. Kinds(b[1]) \subseteq came /\ Kinds(b[2]) \subseteq came
      BY <2>6, <2>7, <3>1
    <3> QED
      BY <2>9, <3>1, <3>2 DEF Kinds
  <2> QED
    BY <2>8, <2>9
<1>2. Init => CameInv
  BY DEF Init, CameInv
<1> QED
  BY <1>1, <1>2, InitTypes, NextTypes, InitPlaced, NextPlaced, NextCame, PTL
     DEF Spec, NoForeignValue

-----------------------------------------------------------------------------
(* An answer in one piece is the result.                                     *)

LEMMA BeginHeard == ASSUME TypeOK, Requested, Begin PROVE HeardInv'
<1>1. n > 0 /\ n' = n
  BY DEF Begin, Requested
<1>2. Here \in Ports
  BY <1>1, HereFacts
<1>3. Here' = Here
  BY <1>1 DEF Here, Cur
<1>4. rb'[Here] = <<>> /\ getpacket'[Here] = FALSE /\ cb' = cb
  BY <1>2 DEF Begin, InitBuffer, TypeOK, line
<1>5. heard' = (IF cb[Here] THEN "other" ELSE "nothing") /\ pc' = "loop"
  BY DEF Begin
<1>6. Heard'
  BY <1>3, <1>4, <1>5 DEF Heard
<1> QED
  BY <1>5, <1>6 DEF HeardInv, AnswerTaken

LEMMA LoopHeard == ASSUME TypeOK, Requested, HeardInv, LoopProcess PROVE HeardInv'
<1>1. n > 0 /\ n' = n /\ pc = "process" /\ pc' = "loop"
  BY DEF LoopProcess, Requested
<1>2. Here \in Ports
  BY <1>1, HereFacts
<1>3. Here' = Here /\ Cur' = Cur
  BY <1>1 DEF Here, Cur
<1>4. UNCHANGED <<rb, cb, heard>>
  BY <1>1 DEF LoopProcess, process, Eats
<1>5. /\ getpacket'[Here] => getpacket[Here]
      /\ eaten => eaten'
      /\ getpacket[Here] => getpacket'[Here] \/ eaten'
  BY <1>1, <1>2 DEF LoopProcess, process, Eats, TypeOK
<1>6. Heard
  BY <1>1 DEF HeardInv
<1>7. Heard'
  BY <1>3, <1>4, <1>5, <1>6 DEF Heard, First
<1> QED
  BY <1>1, <1>7 DEF HeardInv, AnswerTaken

\* The first piece of the buffer stays where it is.
LEMMA DeliverFirst ==
    ASSUME NEW q \in Seq(Piece), NEW x \in Piece
    PROVE  /\ q = <<>> => Append(q, x) # <<>> /\ Append(q, x)[1] = x /\ Len(q) < 2
           /\ q # <<>> => Append(q, x) # <<>> /\ Append(q, x)[1] = q[1]
<1>1. Len(q) \in Nat /\ (q # <<>> => Len(q) > 0) /\ (q = <<>> => Len(q) = 0)
  OBVIOUS
<1>2. Append(q, x) # <<>>
  <2>1. Len(Append(q, x)) = Len(q) + 1
    OBVIOUS
  <2>2. Len(Append(q, x)) # 0 /\ Len(<<>>) = 0
    BY <1>1, <2>1
  <2> QED
    BY <2>2, Zenon
<1>3. q # <<>> => Append(q, x)[1] = q[1]
  BY <1>1
<1>4. q = <<>> => Append(q, x)[1] = x
  OBVIOUS
<1> QED
  BY <1>1, <1>2, <1>3, <1>4

LEMMA DeliverHeard ==
    ASSUME TypeOK, Requested, HeardInv, NEW p \in Ports, Deliver(p) PROVE HeardInv'
<1>1. UNCHANGED <<pc, n, result, got, getpacket, eaten>>
  BY DEF Deliver
<1>2. Here' = Here /\ Cur' = Cur
  BY <1>1 DEF Here, Cur
<1>3. CASE pc \notin {"loop", "process", "check"}
  <2>1. heard' = heard
    BY <1>3 DEF Deliver, Reading
  <2> QED
    BY <1>1, <1>3, <2>1 DEF HeardInv, AnswerTaken
<1>4. CASE pc \in {"loop", "process", "check"}
  <2>1. Heard
    BY <1>4 DEF HeardInv
  <2>2. n > 0
    BY <1>4 DEF Requested
  <2>3. Here \in Ports /\ Cur \in Sensor
    BY <2>2, HereFacts
  <2>4. CASE p # Here
    <3>1. heard' = heard /\ rb'[Here] = rb[Here] /\ cb'[Here] = cb[Here]
      BY <2>3, <2>4 DEF Deliver, Reading, TypeOK
    <3>2. Heard'
      BY <1>1, <1>2, <2>1, <3>1 DEF Heard, First
    <3> QED
      BY <1>1, <1>4, <3>2 DEF HeardInv, AnswerTaken
  <2>5. CASE p = Here
    <3> DEFINE x == Head(bus[Here])
    <3>1. bus[Here] \in Seq(Piece) /\ bus[Here] # <<>> /\ rb[Here] \in Seq(Piece) /\ ~cb[Here]
      BY <2>3, <2>5 DEF Deliver, TypeOK
    <3>2. x \in Piece
      BY <3>1, TailFacts
    <3>3. rb'[Here] = IF Len(rb[Here]) < 2 THEN Append(rb[Here], x) ELSE rb[Here]
      BY <2>3, <2>5 DEF Deliver, TypeOK
    <3>4. cb'[Here] = Enough(rb'[Here])
      BY <2>3, <2>5 DEF Deliver, TypeOK
    <3>5. heard' = IF heard = "nothing"
                   THEN IF x = [from |-> Cur, part |-> "all"] THEN "frame" ELSE "other"
                   ELSE heard
      BY <1>4, <2>5 DEF Deliver, Reading
    <3> HIDE DEF x
    <3>6. CASE heard = "nothing"
      <4>1. rb[Here] = <<>>
        BY <2>1, <3>6 DEF Heard
      <4>2. rb'[Here] # <<>> /\ rb'[Here][1] = x
        BY <3>1, <3>2, <3>3, <4>1, DeliverFirst
      <4>3. CASE x = [from |-> Cur, part |-> "all"]
        <5>1. heard' = "frame"
          BY <3>5, <3>6, <4>3
        <5>2. x.part = "all"
          BY <4>3
        <5>3. cb'[Here]
          BY <3>4, <4>2, <5>2 DEF Enough
        <5> QED
          BY <1>1, <1>2, <1>4, <4>2, <4>3, <5>1, <5>3 DEF HeardInv, Heard, First, AnswerTaken
      <4>4. CASE x # [from |-> Cur, part |-> "all"]
        <5>1. heard' = "other"
          BY <3>5, <3>6, <4>4
        <5> QED
          BY <1>1, <5>1 DEF HeardInv, Heard, AnswerTaken
      <4> QED
        BY <4>3, <4>4
    <3>7. CASE heard # "nothing"
      <4>1. heard' = heard /\ heard # "frame"
        BY <2>1, <3>1, <3>5, <3>7 DEF Heard
      <4>2. First => rb'[Here] # <<>> /\ rb'[Here][1] = rb[Here][1]
        BY <3>1, <3>2, <3>3, DeliverFirst DEF First
      <4>3. Heard'
        BY <1>1, <1>2, <2>1, <3>7, <4>1, <4>2 DEF Heard, First
      <4> QED
        BY <1>1, <1>4, <4>3 DEF HeardInv, AnswerTaken
    <3> QED
      BY <3>6, <3>7
  <2> QED
    BY <2>4, <2>5
<1> QED
  BY <1>3, <1>4

LEMMA SetPacketHeard ==
    ASSUME TypeOK, Requested, HeardInv, NEW p \in Ports, SetPacket(p) PROVE HeardInv'
<1>1. UNCHANGED <<pc, n, result, got, rb, eaten>>
  BY DEF SetPacket
<1>2. Here' = Here /\ Cur' = Cur
  BY <1>1 DEF Here, Cur
<1>3. CASE pc \notin {"loop", "process", "check"}
  <2>1. heard' = heard
    BY <1>3 DEF SetPacket, Reading
  <2> QED
    BY <1>1, <1>3, <2>1 DEF HeardInv, AnswerTaken
<1>4. CASE pc \in {"loop", "process", "check"}
  <2>1. Heard
    BY <1>4 DEF HeardInv
  <2>2. n > 0
    BY <1>4 DEF Requested
  <2>3. Here \in Ports
    BY <2>2, HereFacts
  <2>4. CASE p # Here
    <3>1. heard' = heard /\ getpacket'[Here] = getpacket[Here] /\ cb'[Here] = cb[Here]
      BY <2>3, <2>4 DEF SetPacket, Reading, TypeOK
    <3>2. Heard'
      BY <1>1, <1>2, <2>1, <3>1 DEF Heard, First
    <3> QED
      BY <1>1, <1>4, <3>2 DEF HeardInv, AnswerTaken
  <2>5. CASE p = Here
    <3>1. cb[Here] /\ getpacket'[Here] /\ heard # "nothing"
      BY <2>1, <2>3, <2>5 DEF SetPacket, TypeOK, Heard
    <3>2. heard' = IF heard = "frame" THEN "answer" ELSE heard
      BY <1>4, <2>5 DEF SetPacket, Reading
    <3>3. heard' = "answer" => First
      BY <2>1, <3>2 DEF Heard
    <3>4. Heard'
      BY <1>1, <1>2, <3>1, <3>2, <3>3 DEF Heard, First
    <3> QED
      BY <1>1, <1>4, <3>4 DEF HeardInv, AnswerTaken
  <2> QED
    BY <2>4, <2>5
<1> QED
  BY <1>3, <1>4

LEMMA ParseHeard == ASSUME TypeOK, Requested, HeardInv, Parse PROVE HeardInv'
<1>1. pc = "check" /\ pc' = "after" /\ heard' = heard
  BY DEF Parse, ghost
<1>2. Heard
  BY <1>1 DEF HeardInv
<1>3. ASSUME heard = "answer" PROVE result' = 1 /\ got' = "own"
  <2>0. Cur \in Sensor
    BY <1>1, HereFacts DEF Requested
  <2>1. rb[Here] # <<>> /\ rb[Here][1].from = Cur /\ rb[Here][1].part = "all"
    BY <1>2, <1>3 DEF Heard, First
  <2>2. Own(rb[Here]) /\ Whole(rb[Here]) /\ ~Foreign(rb[Here])
    BY <2>0, <2>1, OrderAssumption DEF Own, Whole, Foreign
  <2> QED
    BY <2>1, <2>2 DEF Parse
<1> QED
  BY <1>1, <1>3 DEF HeardInv, AnswerTaken

LEMMA NextHeard == ASSUME TypeOK, Requested, HeardInv, [Next]_vars PROVE HeardInv'
<1>1. CASE UNCHANGED vars
  <2>1. UNCHANGED <<pc, n, result, got, rb, getpacket, cb, heard, eaten>>
    BY <1>1 DEF vars, dfsm, line, ghost
  <2> QED
    BY <2>1 DEF HeardInv, Heard, First, AnswerTaken, Here, Cur
<1>2. CASE StartRound \/ NotDue \/ Store \/ Rest \/ NextSensor \/ EndRound \/ After
  <2>1. pc' \notin {"loop", "process", "check", "after"}
    BY <1>2 DEF StartRound, NotDue, Store, Rest, NextSensor, EndRound, After
  <2> QED
    BY <2>1 DEF HeardInv, AnswerTaken
<1>3. CASE Skip
  BY <1>3 DEF Skip, HeardInv, AnswerTaken
<1>4. CASE Loop
  <2>1. UNCHANGED <<n, rb, getpacket, cb, heard, eaten>> /\ pc = "loop"
        /\ pc' \in {"process", "check"}
    BY <1>4 DEF Loop, dfsm, line, ghost
  <2>2. Heard'
    BY <2>1 DEF HeardInv, Heard, First, Here, Cur
  <2> QED
    BY <2>1, <2>2 DEF HeardInv, AnswerTaken
<1>5. CASE NoPacket
  <2>1. ~getpacket[Here] /\ pc = "check" /\ pc' = "after" /\ UNCHANGED <<heard, eaten>>
    BY <1>5 DEF NoPacket, ghost
  <2>2. heard = "answer" => eaten
    BY <2>1 DEF HeardInv, Heard
  <2> QED
    BY <2>1, <2>2 DEF HeardInv, AnswerTaken
<1>6. CASE Tick \/ \E p \in Ports : Respond(p)
  <2>1. UNCHANGED <<pc, n, result, got, rb, getpacket, cb, heard, eaten>>
    BY <1>6 DEF Tick, Respond, dfsm, line, ghost
  <2> QED
    BY <2>1 DEF HeardInv, Heard, First, AnswerTaken, Here, Cur
<1> QED
  BY <1>1, <1>2, <1>3, <1>4, <1>5, <1>6, BeginHeard, LoopHeard, DeliverHeard, SetPacketHeard,
     ParseHeard DEF Next, DownThread, ReadThread

\* The answer of the sensor, when it comes first and in one piece, is the result
\* of the reading, whatever was left in the buffer and whatever comes after it,
\* unless process() took getpacket away between two tests of it.
THEOREM AnswersTaken == Spec => []AnswerTaken
<1>1. Init => HeardInv
  BY DEF Init, HeardInv, AnswerTaken
<1>2. HeardInv => AnswerTaken
  BY DEF HeardInv
<1> QED
  BY <1>1, <1>2, InitTypes, NextTypes, NextHeard, PTL DEF Spec
=============================================================================
