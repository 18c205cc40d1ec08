--------------------------- MODULE SendModeProofs ---------------------------
(* Theorems about SendMode, for every value of its constants.                *)
EXTENDS SendMode, SequenceTheorems, TLAPS

-----------------------------------------------------------------------------
(* The stream.                                                               *)

LEMMA OneFrame ==
    ASSUME NEW S, NEW x \in S
    PROVE  /\ Head(<<x>>) = x /\ Tail(<<x>>) = <<>> /\ Append(<<>>, x) = <<x>>
           /\ <<x>> \in Seq(S) /\ <<x>> # <<>> /\ Len(<<x>>) = 1
OBVIOUS

LEMMA TailFacts ==
    ASSUME NEW S, NEW q \in Seq(S), q # <<>>
    PROVE  /\ Head(q) \in S /\ Head(q) = q[1] /\ Tail(q) \in Seq(S)
           /\ Len(q) \in Nat /\ 1 \in 1..Len(q) /\ Len(Tail(q)) = Len(q) - 1
           /\ \A k \in 1..Len(Tail(q)) : Tail(q)[k] = q[k + 1] /\ k + 1 \in 1..Len(q)
           /\ Len(q) = 1 => Tail(q) = <<>>
<1>1. Len(q) \in Nat /\ Len(q) # 0
  OBVIOUS
<1>2. Head(q) = q[1] /\ Head(q) \in S /\ 1 \in 1..Len(q)
  BY <1>1
<1>3. Tail(q) \in Seq(S) /\ Len(Tail(q)) = Len(q) - 1
  BY <1>1
<1>4. ASSUME NEW k \in 1..Len(Tail(q))
      PROVE  Tail(q)[k] = q[k + 1] /\ k + 1 \in 1..Len(q)
  BY <1>1, <1>3, <1>4
<1>5. ASSUME Len(q) = 1 PROVE Tail(q) = <<>>
  <2>1. Len(Tail(q)) = 0
    BY <1>3, <1>5
  <2>2. \A seq \in Seq(S) : (seq = <<>>) <=> (Len(seq) = 0)
    BY EmptySeq, Zenon
  <2> QED
    BY <1>3, <2>1, <2>2, Zenon
<1> QED
  BY <1>1, <1>2, <1>3, <1>4, <1>5

LEMMA AppendFacts ==
    ASSUME NEW S, NEW q \in Seq(S), NEW x \in S
    PROVE  /\ Append(q, x) \in Seq(S) /\ Append(q, x) # <<>>
           /\ Len(Append(q, x)) = Len(q) + 1
           /\ \A k \in 1..Len(Append(q, x)) : \/ k \in 1..Len(q) /\ Append(q, x)[k] = q[k]
                                              \/ Append(q, x)[k] = x
<1>1. Append(q, x) \in Seq(S) /\ Len(Append(q, x)) = Len(q) + 1 /\ Len(q) \in Nat
  OBVIOUS
<1>2. Append(q, x) # <<>>
  BY <1>1
<1>3. ASSUME NEW k \in 1..Len(Append(q, x))
      PROVE  \/ k \in 1..Len(q) /\ Append(q, x)[k] = q[k]
             \/ Append(q, x)[k] = x
  BY <1>1, <1>3
<1> QED
  BY <1>1, <1>2, <1>3

-----------------------------------------------------------------------------
(* Types.                                                                    *)

LEMMA IdFacts ==
    ASSUME TypeOK
    PROVE  /\ reports \in Nat /\ commands \in Nat /\ reports + commands \in Id
           /\ \A n \in Id : n \in Nat
BY BoundAssumption DEF TypeOK, Id

LEMMA InitInv == Init => TypeOK /\ WaitInv /\ ConfirmInv
<1> SUFFICES ASSUME Init PROVE TypeOK /\ WaitInv /\ ConfirmInv
  OBVIOUS
<1>0. 0 \in Id /\ \A n \in Id : n \in Nat
  BY BoundAssumption DEF Id
<1>1. TypeOK
  <2>1. NoFrame \in Down /\ [cmd |-> NoCmd, id |-> 0, reply |-> FALSE] \in Up
    BY <1>0 DEF NoFrame, Down, Up
  <2>2. up \in Seq(Up) /\ down \in Seq(Down)
    BY DEF Init
  <2>3. retry \in 0..Retries /\ reports \in 0..MaxReports /\ commands \in 0..MaxCommands
    BY BoundAssumption DEF Init
  <2>4. executed \in [Id -> 0..2]
    BY DEF Init
  <2> QED
    BY <2>1, <2>2, <2>3, <2>4 DEF Init, TypeOK
<1>2. Bounds
  <2>1. NoFrame.id = 0 /\ job.id = 0
    BY DEF Init, NoFrame
  <2>2. Numbered(job) /\ Numbered(packet) /\ Numbered(frame)
    BY <2>1 DEF Init, Numbered
  <2> QED
    BY <2>2 DEF Init, Bounds
<1>3. Turns
  BY DEF Init, Turns
<1>4. Orderly
  BY DEF Init, Orderly, InWait
<1>5. Confirmed
  BY DEF Init, Confirmed
<1> QED
  BY <1>1, <1>2, <1>3, <1>4, <1>5 DEF WaitInv, ConfirmInv

\* The ids in a direction of the stream when the first frame leaves it and when
\* a frame is put into it.
LEMMA NumberedTail ==
    ASSUME NEW S, NEW q \in Seq(S), q # <<>>, NEW n, \A k \in 1..Len(q) : q[k].id <= n
    PROVE  Head(q).id <= n /\ \A k \in 1..Len(Tail(q)) : Tail(q)[k].id <= n
<1>1. Head(q) = q[1] /\ 1 \in 1..Len(q)
  BY TailFacts
<1>2. \A k \in 1..Len(Tail(q)) : Tail(q)[k] = q[k + 1] /\ k + 1 \in 1..Len(q)
  BY TailFacts
<1> QED
  BY <1>1, <1>2, Zenon

LEMMA NumberedAppend ==
    ASSUME NEW S, NEW q \in Seq(S), NEW x \in S, NEW n, x.id <= n,
           \A k \in 1..Len(q) : q[k].id <= n
    PROVE  \A k \in 1..Len(Append(q, x)) : Append(q, x)[k].id <= n
<1>1. \A k \in 1..Len(Append(q, x)) : \/ k \in 1..Len(q) /\ Append(q, x)[k] = q[k]
                                      \/ Append(q, x)[k] = x
  BY AppendFacts
<1> QED
  BY <1>1, Zenon

\* What is numbered stays numbered when reports and commands are added.
LEMMA StillNumbered ==
    ASSUME TypeOK, Bounds, NEW n \in Nat, reports + commands <= n
    PROVE  /\ job.id <= n /\ packet.id <= n /\ frame.id <= n
           /\ \A k \in 1..Len(up) : up[k].id <= n
           /\ \A k \in 1..Len(down) : down[k].id <= n
           /\ \A m \in Id : m > n => executed[m] = 0
<1>1. /\ \A m \in Id : m <= reports + commands => m <= n
      /\ \A m \in Id : m > n => m > reports + commands
  BY IdFacts
<1>2. job.id \in Id /\ packet.id \in Id /\ frame.id \in Id
  BY DEF TypeOK, Down, Up
<1>3. ASSUME NEW k \in 1..Len(up) PROVE up[k].id <= n
  <2>1. up[k] \in Up
    BY DEF TypeOK
  <2>2. up[k].id \in Id
    BY <2>1 DEF Up
  <2> QED
    BY <1>1, <2>2 DEF Bounds, Numbered
<1>4. ASSUME NEW k \in 1..Len(down) PROVE down[k].id <= n
  <2>1. down[k] \in Down
    BY DEF TypeOK
  <2>2. down[k].id \in Id
    BY <2>1 DEF Down
  <2> QED
    BY <1>1, <2>2 DEF Bounds, Numbered
<1> QED
  BY <1>1, <1>2, <1>3, <1>4 DEF Bounds, Numbered

LEMMA StartReportTypes ==
    ASSUME TypeOK, Bounds, NEW c \in ReportCmd, StartReport(c) PROVE TypeOK' /\ Bounds'
<1>1. reports' = reports + 1 /\ commands' = commands /\ reports' \in 0..MaxReports
      /\ reports' + commands' \in Id
  BY BoundAssumption DEF TypeOK, StartReport, Id
<1>2. job' \in Up /\ job'.id = reports' + commands'
  BY <1>1 DEF StartReport, Up, Cmd
<1>3. retry' \in 0..Retries /\ retry' > 0
  BY BoundAssumption DEF StartReport
<1>4. races' \subseteq Race
  BY DEF TypeOK, StartReport, Race
<1>5. TypeOK'
  BY <1>1, <1>2, <1>3, <1>4 DEF TypeOK, StartReport, flags
<1>6. reports + commands <= reports' + commands' /\ reports' + commands' \in Nat
  BY <1>1, IdFacts
<1>7. /\ packet.id <= reports' + commands' /\ frame.id <= reports' + commands'
      /\ \A k \in 1..Len(up) : up[k].id <= reports' + commands'
      /\ \A k \in 1..Len(down) : down[k].id <= reports' + commands'
      /\ \A m \in Id : m > reports' + commands' => executed[m] = 0
  BY <1>6, StillNumbered
<1>8. Numbered(packet)' /\ Numbered(frame)' /\ Numbered(job)'
  BY <1>2, <1>6, <1>7 DEF Numbered, StartReport, flags
<1>9. up' = up /\ down' = down /\ executed' = executed
  BY DEF StartReport
<1> QED
  BY <1>3, <1>5, <1>7, <1>8, <1>9 DEF Bounds, Numbered

LEMMA SendTypes == ASSUME TypeOK, Bounds, Send PROVE TypeOK' /\ Bounds'
<1>1. retry' \in 0..Retries
  BY BoundAssumption DEF TypeOK, Bounds, Send
<1>2. up' \in Seq(Up) /\ \A k \in 1..Len(up') : up'[k].id <= reports + commands
  <2>1. job \in Up /\ up \in Seq(Up)
    BY DEF TypeOK
  <2>2. job.id <= reports + commands /\ \A k \in 1..Len(up) : up[k].id <= reports + commands
    BY DEF Bounds, Numbered
  <2>3. /\ Append(up, job) \in Seq(Up)
        /\ \A k \in 1..Len(Append(up, job)) : Append(up, job)[k].id <= reports + commands
    BY <2>1, <2>2, AppendFacts, NumberedAppend
  <2> QED
    BY <2>1, <2>2, <2>3 DEF Send
<1>3. TypeOK'
  BY <1>1, <1>2 DEF TypeOK, Send, ghosts
<1> QED
  BY <1>2, <1>3 DEF Bounds, Numbered, Send, ghosts

\* The steps of the up thread that leave the stream and the counters alone.
LEMMA UpTypes ==
    ASSUME TypeOK, Bounds,
           EndPoll \/ WaitOk \/ WaitAgain \/ WaitFail \/ CheckFlag \/ Ignore \/ NoReply
              \/ ClearFlag
    PROVE  TypeOK' /\ Bounds'
<1>1. CASE EndPoll
  BY <1>1 DEF TypeOK, Bounds, Numbered, EndPoll, flags, stream, Race
<1>2. CASE WaitOk
  <2>1. job.id \in Id
    BY DEF TypeOK, Up
  <2> QED
    BY <1>2, <2>1 DEF TypeOK, Bounds, Numbered, WaitOk, AfterWait, flags, stream
<1>3. CASE WaitAgain
  BY <1>3 DEF TypeOK, Bounds, Numbered, WaitAgain, flags, stream, ghosts
<1>4. CASE WaitFail
  BY <1>4 DEF TypeOK, Bounds, Numbered, WaitFail, AfterWait, flags, stream, ghosts
<1>5. CASE CheckFlag
  BY <1>5 DEF TypeOK, Bounds, Numbered, CheckFlag, flags, stream, ghosts
<1>6. CASE Ignore
  BY <1>6 DEF TypeOK, Bounds, Numbered, Ignore, flags, stream, ghosts
<1>7. CASE NoReply
  BY <1>7 DEF TypeOK, Bounds, Numbered, NoReply, AfterWait, flags, stream, ghosts
<1>8. CASE ClearFlag
  BY <1>8 DEF TypeOK, Bounds, Numbered, ClearFlag, stream, ghosts
<1> QED
  BY <1>1, <1>2, <1>3, <1>4, <1>5, <1>6, <1>7, <1>8

LEMMA ExecuteTypes == ASSUME TypeOK, Bounds, Execute PROVE TypeOK' /\ Bounds'
<1>1. packet.id \in Id /\ packet.cmd \in Cmd \cup {NoCmd}
  BY DEF TypeOK, Down
<1>2. More(executed[packet.id]) \in 0..2
  BY <1>1 DEF TypeOK, More
<1>3. executed' \in [Id -> 0..2] /\ \A n \in Id : n # packet.id => executed'[n] = executed[n]
  BY <1>1, <1>2 DEF TypeOK, Execute
<1>4. job' \in Up /\ job'.id = packet.id
  BY <1>1 DEF Execute, Up
<1>5. TypeOK'
  BY <1>3, <1>4 DEF TypeOK, Execute, flags, stream
<1>6. \A n \in Id : n > reports + commands => n # packet.id
  BY <1>1, IdFacts DEF Bounds, Numbered
<1>7. \A n \in Id : n > reports + commands => executed'[n] = 0
  BY <1>3, <1>6 DEF Bounds
<1> QED
  BY <1>4, <1>5, <1>7 DEF Bounds, Numbered, Execute, flags, stream

LEMMA StartReplyTypes == ASSUME TypeOK, Bounds, StartReply PROVE TypeOK' /\ Bounds'
<1>1. job' \in Up /\ job'.id = job.id
  BY DEF TypeOK, StartReply, Up, Down
<1>2. retry' \in 0..Retries /\ retry' > 0
  BY BoundAssumption DEF StartReply
<1>3. TypeOK'
  BY <1>1, <1>2 DEF TypeOK, StartReply, flags, stream, ghosts
<1> QED
  BY <1>1, <1>2, <1>3 DEF Bounds, Numbered, StartReply, flags, stream, ghosts

LEMMA PacketTypes ==
    ASSUME TypeOK, Bounds, GetPacket \/ CopyPacket \/ Center PROVE TypeOK' /\ Bounds'
<1>1. CASE GetPacket
  <2>1. down \in Seq(Down) /\ down # <<>> /\ \A k \in 1..Len(down) : down[k].id <= reports + commands
    BY <1>1 DEF TypeOK, GetPacket, Bounds, Numbered
  <2>2. Head(down) \in Down /\ Tail(down) \in Seq(Down)
    BY <2>1, TailFacts
  <2>3. /\ Head(down).id <= reports + commands
        /\ \A k \in 1..Len(Tail(down)) : Tail(down)[k].id <= reports + commands
    BY <2>1, NumberedTail
  <2>4. TypeOK'
    BY <1>1, <2>2 DEF TypeOK, GetPacket, upVars, ghosts
  <2> QED
    BY <1>1, <2>3, <2>4 DEF Bounds, Numbered, GetPacket, upVars, ghosts
<1>2. CASE CopyPacket
  <2>1. frame.id \in Id
    BY DEF TypeOK, Down
  <2> QED
    BY <1>2, <2>1 DEF TypeOK, Bounds, Numbered, CopyPacket, upVars, stream
<1>3. CASE Center
  BY <1>3 DEF TypeOK, Bounds, Numbered, Center, upVars, stream, ghosts
<1> QED
  BY <1>1, <1>2, <1>3

\* The frame that answers an uplink frame.
LEMMA ReplyFacts ==
    ASSUME NEW f \in Up, NEW e \in Answers
    PROVE  Reply(f, e) \in Down /\ Reply(f, e).id = f.id /\ Reply(f, e).cmd = f.cmd
BY CmdAssumption DEF Reply, Up, Down

LEMMA CentreTakesTypes == ASSUME TypeOK, Bounds, CentreTakes PROVE TypeOK' /\ Bounds'
<1>1. up \in Seq(Up) /\ up # <<>> /\ \A k \in 1..Len(up) : up[k].id <= reports + commands
  BY DEF TypeOK, CentreTakes, Bounds, Numbered
<1>2. Head(up) \in Up /\ Tail(up) \in Seq(Up)
  BY <1>1, TailFacts
<1>3. /\ Head(up).id <= reports + commands
      /\ \A k \in 1..Len(Tail(up)) : Tail(up)[k].id <= reports + commands
  BY <1>1, NumberedTail
<1>4. down \in Seq(Down) /\ \A k \in 1..Len(down) : down[k].id <= reports + commands
  BY DEF TypeOK, Bounds, Numbered
<1>5. PICK e \in Answers \cup {"none"} :
          /\ down' = IF e = "none" THEN down ELSE Append(down, Reply(Head(up), e))
          /\ received' = IF Head(up).reply \/ e = "NAK" THEN received
                         ELSE received \cup {Head(up).id}
  BY DEF CentreTakes
<1>6. down' \in Seq(Down) /\ \A k \in 1..Len(down') : down'[k].id <= reports + commands
  <2>1. CASE e = "none"
    BY <1>4, <1>5, <2>1
  <2>2. CASE e # "none"
    <3>1. Reply(Head(up), e) \in Down /\ Reply(Head(up), e).id <= reports + commands
      BY <1>2, <1>3, <2>2, ReplyFacts
    <3>2. /\ Append(down, Reply(Head(up), e)) \in Seq(Down)
          /\ \A k \in 1..Len(Append(down, Reply(Head(up), e))) :
                Append(down, Reply(Head(up), e))[k].id <= reports + commands
      BY <1>4, <3>1, AppendFacts, NumberedAppend
    <3> QED
      BY <1>5, <2>2, <3>2
  <2> QED
    BY <2>1, <2>2
<1>7. received' \subseteq Id
  <2>1. Head(up).id \in Id
    BY <1>2 DEF Up
  <2> QED
    BY <1>5, <2>1 DEF TypeOK
<1>8. up' = Tail(up)
  BY DEF CentreTakes
<1>9. TypeOK'
  BY <1>2, <1>6, <1>7, <1>8 DEF TypeOK, CentreTakes, upVars, flags
<1> QED
  BY <1>3, <1>6, <1>8, <1>9 DEF Bounds, Numbered, CentreTakes, upVars, flags

LEMMA CentreCommandTypes ==
    ASSUME TypeOK, Bounds, NEW c \in CenterCmd, NEW o \in BOOLEAN, CentreCommand(c, o)
    PROVE  TypeOK' /\ Bounds'
<1>1. commands' = commands + 1 /\ reports' = reports /\ commands' \in 0..MaxCommands
      /\ reports + commands' \in Id
  BY BoundAssumption DEF TypeOK, CentreCommand, Id
<1> DEFINE f == [cmd |-> c, etx |-> "ENQ", id |-> reports + commands', ours |-> o]
<1>2. f \in Down /\ f.id = reports + commands'
  BY <1>1 DEF Down, Cmd
<1>3. races' \subseteq Race
  BY DEF TypeOK, CentreCommand, Race
<1>4. reports + commands <= reports' + commands' /\ reports' + commands' \in Nat
  BY <1>1, IdFacts
<1>5. /\ job.id <= reports' + commands'
      /\ packet.id <= reports' + commands' /\ frame.id <= reports' + commands'
      /\ \A k \in 1..Len(up) : up[k].id <= reports' + commands'
      /\ \A k \in 1..Len(down) : down[k].id <= reports' + commands'
      /\ \A m \in Id : m > reports' + commands' => executed[m] = 0
  BY <1>4, StillNumbered
<1>6. down' = Append(down, f)
  BY DEF CentreCommand
<1>7. down \in Seq(Down) /\ f.id <= reports' + commands'
  BY <1>1, <1>2, <1>4 DEF TypeOK
<1> HIDE DEF f
<1>8. down' \in Seq(Down) /\ \A k \in 1..Len(down') : down'[k].id <= reports' + commands'
  BY <1>2, <1>5, <1>6, <1>7, AppendFacts, NumberedAppend
<1>9. TypeOK'
  BY <1>1, <1>3, <1>8 DEF TypeOK, CentreCommand, upVars, flags
<1>10. UNCHANGED <<pc, retry, job, packet, frame, up, executed>>
  BY DEF CentreCommand, upVars, flags
<1> QED
  BY <1>5, <1>8, <1>9, <1>10 DEF Bounds, Numbered

LEMMA LoseTypes == ASSUME TypeOK, Bounds, LoseUp \/ LoseDown PROVE TypeOK' /\ Bounds'
<1>1. CASE LoseUp
  <2>1. up \in Seq(Up) /\ up # <<>> /\ \A k \in 1..Len(up) : up[k].id <= reports + commands
    BY <1>1 DEF TypeOK, LoseUp, Bounds, Numbered
  <2>2. Tail(up) \in Seq(Up) /\ \A k \in 1..Len(Tail(up)) : Tail(up)[k].id <= reports + commands
    BY <2>1, NumberedTail, TailFacts
  <2> QED
    BY <1>1, <2>2 DEF TypeOK, Bounds, Numbered, LoseUp, upVars, flags, ghosts
<1>2. CASE LoseDown
  <2>1. down \in Seq(Down) /\ down # <<>> /\ \A k \in 1..Len(down) : down[k].id <= reports + commands
    BY <1>2 DEF TypeOK, LoseDown, Bounds, Numbered
  <2>2. /\ Tail(down) \in Seq(Down)
        /\ \A k \in 1..Len(Tail(down)) : Tail(down)[k].id <= reports + commands
    BY <2>1, NumberedTail, TailFacts
  <2> QED
    BY <1>2, <2>2 DEF TypeOK, Bounds, Numbered, LoseDown, upVars, flags, ghosts
<1> QED
  BY <1>1, <1>2

LEMMA NextTypes == ASSUME TypeOK, Bounds, [Next]_vars PROVE TypeOK' /\ Bounds'
<1>1. CASE UNCHANGED vars
  BY <1>1 DEF TypeOK, Bounds, Numbered, vars, upVars, flags, stream, ghosts
<1>2. CASE Next
  BY <1>2, StartReportTypes, SendTypes, UpTypes, ExecuteTypes, StartReplyTypes, PacketTypes,
     CentreTakesTypes, CentreCommandTypes, LoseTypes
     DEF Next, Wait, CenterProcess, PacketThread, Environment
<1> QED
  BY <1>1, <1>2

\* The variables of both threads and the stream keep their types; the numbers
\* of the reports and commands under way never outrun the counters.
THEOREM TypeCorrect == Spec => []TypeOK
<1>1. Init => TypeOK /\ Bounds
  BY InitInv DEF WaitInv
<1>2. TypeOK /\ Bounds /\ [Next]_vars => (TypeOK /\ Bounds)'
  BY NextTypes
<1> QED
  BY <1>1, <1>2, PTL DEF Spec

-----------------------------------------------------------------------------
(* One frame under way at a time.                                            *)

\* Races are only ever added.
LEMMA RacesGrow == ASSUME [Next]_vars PROVE races \subseteq races'
BY DEF Next, Wait, CenterProcess, PacketThread, Environment, StartReport, Send, EndPoll, WaitOk,
       WaitAgain, WaitFail, CheckFlag, Ignore, Execute, StartReply, NoReply, ClearFlag, GetPacket,
       CopyPacket, Center, CentreTakes, CentreCommand, LoseUp, LoseDown, vars, ghosts

\* Taking a frame from a direction with one frame empties it.
LEMMA LastFrame ==
    ASSUME TypeOK, Turns
    PROVE  /\ up # <<>> => Head(up) = job /\ Tail(up) = <<>>
           /\ down # <<>> => Tail(down) = <<>>
<1>1. up # <<>> => Head(up) = job /\ Tail(up) = <<>>
  BY OneFrame DEF Turns, TypeOK
<1>2. down # <<>> => Tail(down) = <<>>
  BY TailFacts DEF Turns, TypeOK
<1> QED
  BY <1>1, <1>2

\* While wait() sends, judges, and center_process works, the stream is empty.
LEMMA StartReportTurns ==
    ASSUME TypeOK, Turns, Calm', NEW c \in ReportCmd, StartReport(c) PROVE Turns'
<1>1. up = <<>>
  BY DEF Turns, StartReport
<1>2. down = <<>>
  <2>1. commands = 0 \/ Quiet
    BY DEF StartReport, Calm
  <2>2. CASE commands = 0
    BY <2>2 DEF Turns, StartReport
  <2>3. CASE Quiet
    BY <2>3 DEF Quiet, NothingUnderWay
  <2> QED
    BY <2>1, <2>2, <2>3
<1>3. up' = <<>> /\ down' = <<>>
  BY <1>1, <1>2 DEF StartReport
<1> QED
  BY <1>3 DEF Turns

LEMMA SendTurns == ASSUME TypeOK, Turns, Send PROVE Turns'
<1>1. up = <<>> /\ down = <<>>
  BY DEF Turns, Send
<1>2. job \in Up
  BY DEF TypeOK
<1>3. Append(up, job) = <<job>>
  BY <1>1, <1>2, OneFrame
<1>4. down' = <<>> /\ job' = job /\ pc' = "polling" /\ ~get_packet'
  BY <1>1 DEF Send
<1>5. up' = <<job>> \/ up' = <<>>
  BY <1>1, <1>3 DEF Send
<1> QED
  BY <1>4, <1>5 DEF Turns

LEMMA UpTurns ==
    ASSUME TypeOK, Turns, Calm',
           EndPoll \/ WaitOk \/ WaitAgain \/ WaitFail \/ CheckFlag \/ Ignore \/ Execute
              \/ StartReply \/ NoReply \/ ClearFlag
    PROVE  Turns'
<1>1. up' = up /\ down' = down /\ cb' = cb /\ commands' = commands
  BY DEF EndPoll, WaitOk, WaitAgain, WaitFail, CheckFlag, Ignore, Execute, StartReply, NoReply,
         ClearFlag, stream
<1>2. CASE EndPoll
  <2>1. ~get_packet => up = <<>> /\ down = <<>>
    BY <1>2 DEF EndPoll, Calm, Answered, NothingUnderWay
  <2>2. up = <<>> /\ down = <<>>
    BY <1>2, <2>1 DEF Turns, EndPoll
  <2> QED
    BY <1>1, <2>2 DEF Turns
<1>3. CASE CheckFlag
  BY <1>1, <1>3 DEF Turns, CheckFlag, flags
<1>4. CASE ~EndPoll /\ ~CheckFlag
  <2>1. pc \in {"judge", "center", "reply", "clear"}
    BY <1>4 DEF WaitOk, WaitAgain, WaitFail, Ignore, Execute, StartReply, NoReply, ClearFlag
  <2>2. up = <<>> /\ down = <<>>
    BY <2>1 DEF Turns
  <2> QED
    BY <1>1, <2>2 DEF Turns
<1> QED
  BY <1>2, <1>3, <1>4

LEMMA PacketTurns ==
    ASSUME TypeOK, Turns, GetPacket \/ CopyPacket \/ Center PROVE Turns'
<1>1. CASE GetPacket
  <2>1. up' = <<>> /\ down' = <<>>
    BY <1>1, LastFrame DEF GetPacket, Turns
  <2> QED
    BY <2>1 DEF Turns
<1>2. CASE CopyPacket
  BY <1>2 DEF Turns, CopyPacket, upVars, stream
<1>3. CASE Center
  BY <1>3 DEF Turns, Center, upVars, stream
<1> QED
  BY <1>1, <1>2, <1>3

LEMMA StreamTurns ==
    ASSUME TypeOK, Turns, Calm',
           \/ CentreTakes \/ LoseUp \/ LoseDown
           \/ \E c \in CenterCmd, o \in BOOLEAN : CentreCommand(c, o)
    PROVE  Turns'
<1>1. CASE CentreTakes
  <2>1. up # <<>> /\ down = <<>> /\ pc = "polling" /\ ~get_packet
    BY <1>1 DEF CentreTakes, Turns
  <2>2. up' = <<>> /\ pc' = "polling" /\ ~get_packet'
    BY <1>1, <2>1, LastFrame DEF CentreTakes, upVars, flags
  <2>3. down' = <<>> \/ \E e \in Answers : down' = Append(<<>>, Reply(job, e))
    BY <1>1, <2>1, LastFrame DEF CentreTakes
  <2>4. \A x : Append(<<>>, x) = <<x>> /\ Len(<<x>>) = 1
    OBVIOUS
  <2>5. down' = <<>> \/ Len(down') = 1
    BY <2>3, <2>4
  <2> QED
    BY <2>2, <2>5 DEF Turns
<1>2. CASE LoseUp
  <2>1. up' = <<>> /\ down' = down
    BY <1>2, LastFrame DEF LoseUp
  <2> QED
    BY <1>2, <2>1 DEF Turns, LoseUp, upVars, flags
<1>3. CASE LoseDown
  <2>1. down' = <<>> /\ up' = up
    BY <1>3, LastFrame DEF LoseDown
  <2> QED
    BY <1>3, <2>1 DEF Turns, LoseDown, upVars, flags
<1>4. ASSUME NEW c \in CenterCmd, NEW o \in BOOLEAN, CentreCommand(c, o) PROVE Turns'
  <2>1. Quiet
    BY <1>4 DEF CentreCommand, Calm
  <2>2. \E x : down' = Append(<<>>, x)
    BY <1>4, <2>1 DEF CentreCommand, Quiet, NothingUnderWay
  <2>3. \A x : Append(<<>>, x) = <<x>> /\ Len(<<x>>) = 1
    OBVIOUS
  <2>4. Len(down') = 1
    BY <2>2, <2>3
  <2>5. commands' > 0
    BY <1>4, IdFacts DEF CentreCommand
  <2>6. up' = <<>> /\ pc' = "report" /\ cb' = "idle" /\ ~packet_flag'
    BY <1>4, <2>1 DEF CentreCommand, Quiet, NothingUnderWay, upVars, flags
  <2> QED
    BY <2>4, <2>5, <2>6 DEF Turns
<1> QED
  BY <1>1, <1>2, <1>3, <1>4

LEMMA NextTurns ==
    ASSUME TypeOK, Calm => Turns, [Next]_vars PROVE (Calm => Turns)'
<1> SUFFICES ASSUME Calm' PROVE Turns'
  OBVIOUS
<1>1. Turns
  BY RacesGrow DEF Calm
<1>2. CASE UNCHANGED vars
  BY <1>1, <1>2 DEF Turns, vars, upVars, flags, stream
<1>3. CASE Next
  BY <1>1, <1>3, StartReportTurns, SendTurns, UpTurns, PacketTurns, StreamTurns
     DEF Next, Wait, CenterProcess, PacketThread, Environment
<1> QED
  BY <1>2, <1>3

-----------------------------------------------------------------------------
(* wait() returns 0 for what the centre has.                                 *)

LEMMA UpConfirmed ==
    ASSUME TypeOK, Turns, Confirmed, Wait \/ CenterProcess PROVE Confirmed'
<1>1. received' = received
  BY DEF Wait, CenterProcess, Send, EndPoll, WaitOk, WaitAgain, WaitFail, CheckFlag, Ignore,
         Execute, StartReply, NoReply, ClearFlag, ghosts
<1>2. CASE Send
  <2>1. down = <<>>
    BY <1>2 DEF Turns, Send
  <2> QED
    BY <1>2, <2>1 DEF Confirmed, Send, ghosts
<1>3. CASE EndPoll
  BY <1>1, <1>3 DEF Confirmed, Taken, EndPoll, flags
<1>4. CASE WaitOk
  <2>1. ~job.reply => job.id \in received
    BY <1>4 DEF Confirmed, Taken, WaitOk, Matches
  <2>2. ok' \subseteq received
    BY <1>4, <2>1 DEF Confirmed, WaitOk
  <2>3. pc' \notin {"polling", "judge"}
    BY <1>4 DEF WaitOk, AfterWait
  <2> QED
    BY <1>1, <2>2, <2>3 DEF Confirmed
<1>5. CASE WaitAgain \/ WaitFail \/ CenterProcess
  <2>1. ok' = ok
    BY <1>5 DEF CenterProcess, WaitAgain, WaitFail, CheckFlag, Ignore, Execute, StartReply,
                NoReply, ClearFlag, ghosts
  <2>2. pc' \notin {"polling", "judge"}
    BY <1>5 DEF CenterProcess, WaitAgain, WaitFail, CheckFlag, Ignore, Execute, StartReply,
                NoReply, ClearFlag, AfterWait
  <2> QED
    BY <1>1, <2>1, <2>2 DEF Confirmed
<1> QED
  BY <1>2, <1>3, <1>4, <1>5 DEF Wait

LEMMA CentreConfirms ==
    ASSUME "NAK" \notin Answers, TypeOK, Turns, Confirmed, CentreTakes PROVE Confirmed'
<1>1. PICK e \in Answers \cup {"none"} :
          received' = IF Head(up).reply \/ e = "NAK" THEN received
                      ELSE received \cup {Head(up).id}
  BY DEF CentreTakes
<1>2. Head(up) = job
  BY LastFrame DEF CentreTakes
<1>3. received \subseteq received' /\ (~job.reply => job.id \in received')
  BY <1>1, <1>2
<1> QED
  BY <1>3 DEF Confirmed, Taken, CentreTakes, upVars, flags

LEMMA NextConfirmed ==
    ASSUME "NAK" \notin Answers, TypeOK, Calm => Turns, ConfirmInv, [Next]_vars
    PROVE  ConfirmInv'
<1> SUFFICES ASSUME Calm' PROVE Confirmed'
  BY DEF ConfirmInv
<1>1. Turns /\ Confirmed
  BY RacesGrow DEF Calm, ConfirmInv
<1>2. CASE UNCHANGED vars
  BY <1>1, <1>2 DEF Confirmed, Taken, vars, upVars, flags, stream, ghosts
<1>3. ASSUME NEW c \in ReportCmd, StartReport(c) PROVE Confirmed'
  BY <1>1, <1>3 DEF Confirmed, StartReport
<1>4. CASE GetPacket
  <2>1. down # <<>> /\ pc # "judge"
    BY <1>1, <1>4 DEF Turns, GetPacket
  <2> QED
    BY <1>1, <1>4, <2>1 DEF Confirmed, Taken, GetPacket, upVars, ghosts
<1>5. CASE CopyPacket \/ Center \/ LoseUp
  BY <1>1, <1>5 DEF Confirmed, Taken, CopyPacket, Center, LoseUp, upVars, flags, stream, ghosts
<1>6. CASE LoseDown
  BY <1>1, <1>6 DEF Confirmed, Taken, LoseDown, upVars, flags, ghosts
<1>7. ASSUME NEW c \in CenterCmd, NEW o \in BOOLEAN, CentreCommand(c, o) PROVE Confirmed'
  <2>1. pc = "report"
    BY <1>7 DEF CentreCommand, Calm, Quiet
  <2> QED
    BY <1>1, <1>7, <2>1 DEF Confirmed, CentreCommand, upVars
<1> QED
  BY <1>1, <1>2, <1>3, <1>4, <1>5, <1>6, <1>7, UpConfirmed, CentreConfirms
     DEF Next, PacketThread, Environment

\* When the centre confirms what it accepts and answers nothing else, wait()
\* returns 0 for a report only if the centre has accepted that very report: in
\* every behaviour without a late answer and without a command of the centre in
\* between.  (wait() takes a NAK for a confirmation, which is why the answers
\* are restricted.)
THEOREM ConfirmedReports ==
    ASSUME "NAK" \notin Answers PROVE Spec => []AckMeansReceived
<1>1. Init => TypeOK /\ Bounds /\ (Calm => Turns) /\ ConfirmInv
  BY InitInv DEF WaitInv
<1>2. TypeOK /\ Bounds /\ (Calm => Turns) /\ ConfirmInv /\ [Next]_vars
         => (TypeOK /\ Bounds /\ (Calm => Turns) /\ ConfirmInv)'
  BY NextTypes, NextTurns, NextConfirmed
<1>3. ConfirmInv => AckMeansReceived
  BY DEF ConfirmInv, Calm, Confirmed, AckMeansReceived
<1> QED
  BY <1>1, <1>2, <1>3, PTL DEF Spec

-----------------------------------------------------------------------------
(* A command runs once.                                                      *)

\* The packet thread rests unless wait() polls or the up thread is between two
\* rounds with the flag down.
LEMMA StartReportOrderly ==
    ASSUME Orderly, races' = {}, NEW c \in ReportCmd, StartReport(c) PROVE Orderly'
<1>1. cb = "idle"
  <2>1. commands = 0 \/ Quiet
    BY DEF StartReport
  <2> QED
    BY <2>1 DEF Orderly, StartReport, Quiet, NothingUnderWay
<1>2. job'.cmd \in ReportCmd /\ pc' = "send" /\ ~job'.reply
  BY DEF StartReport
<1>3. UNCHANGED <<down, frame, packet, packet_flag, cb, executed>> /\ pc = "report"
  BY DEF StartReport, flags
<1> QED
  BY <1>1, <1>2, <1>3 DEF Orderly, Fresh, InWait

LEMMA WaitOrderly == ASSUME TypeOK, Turns, Orderly, races' = {}, Wait PROVE Orderly'
<1>1. UNCHANGED <<job, down, frame, packet, packet_flag, cb, executed>>
  BY DEF Wait, Send, EndPoll, WaitOk, WaitAgain, WaitFail, flags, stream, ghosts
<1>2. cb = "idle"
  <2>1. CASE EndPoll
    BY <2>1 DEF EndPoll, Answered, NothingUnderWay, TypeOK
  <2>2. CASE Send \/ WaitOk \/ WaitAgain \/ WaitFail
    BY <2>2 DEF Orderly, Send, WaitOk, WaitAgain, WaitFail
  <2> QED
    BY <2>1, <2>2 DEF Wait
<1>3. CASE Send
  <2>1. down = <<>>
    BY <1>3 DEF Turns, Send
  <2> QED
    BY <1>1, <1>2, <1>3, <2>1 DEF Orderly, Fresh, InWait, Send
<1>4. CASE EndPoll
  BY <1>1, <1>2, <1>4 DEF Orderly, Fresh, InWait, EndPoll
<1>5. CASE WaitAgain
  BY <1>1, <1>2, <1>5 DEF Orderly, Fresh, InWait, WaitAgain
<1>6. CASE WaitOk \/ WaitFail
  <2>1. /\ pc = "judge" /\ (job.reply => pc' \in {"reply", "clear"})
        /\ ~job.reply => pc' = "report"
    BY <1>6 DEF WaitOk, WaitFail, AfterWait
  <2> QED
    BY <1>1, <1>2, <2>1 DEF Orderly, Fresh, InWait
<1> QED
  BY <1>3, <1>4, <1>5, <1>6 DEF Wait

LEMMA ExecuteOrderly == ASSUME TypeOK, Orderly, Execute PROVE Orderly'
<1>1. cb = "idle" /\ packet_flag /\ packet.ours /\ packet.cmd \in CenterCmd
  BY DEF Orderly, Execute, Ignored
<1>2. packet.id \in Id /\ executed[packet.id] = 0
  BY <1>1 DEF Orderly, Execute, Fresh, TypeOK, Down
<1>3. More(executed[packet.id]) = 1
  BY <1>2 DEF More
<1>4. executed' = [executed EXCEPT ![packet.id] = More(@)] /\ executed \in [Id -> 0..2]
  BY DEF Execute, TypeOK
<1>5. \A n \in Id : executed'[n] <= 1
  BY <1>2, <1>3, <1>4 DEF Orderly
<1>6. job'.reply /\ pc' = "reply" /\ cb' = "idle"
  BY <1>1 DEF Execute
<1> QED
  BY <1>5, <1>6 DEF Orderly, InWait

LEMMA CenterOrderly ==
    ASSUME TypeOK, Turns, Orderly, CenterProcess PROVE Orderly'
<1>1. CASE CheckFlag
  BY <1>1 DEF Orderly, Fresh, InWait, CheckFlag, flags, stream, ghosts, TypeOK
<1>2. CASE Ignore
  BY <1>2 DEF Orderly, InWait, Ignore, flags, stream, ghosts
<1>3. CASE StartReply
  <2>1. job'.reply /\ cb' = "idle" /\ pc' = "send" /\ executed' = executed
    BY <1>3 DEF Orderly, StartReply, TypeOK, Up, ghosts
  <2> QED
    BY <2>1 DEF Orderly, InWait
<1>4. CASE NoReply
  <2>1. job.reply /\ pc' \in {"reply", "clear"} /\ cb' = "idle" /\ job' = job
        /\ executed' = executed
    BY <1>4 DEF Orderly, NoReply, AfterWait, ghosts
  <2> QED
    BY <2>1 DEF Orderly, InWait
<1>5. CASE ClearFlag
  <2>1. down' = <<>> /\ cb' = "idle" /\ pc' = "report" /\ ~packet_flag' /\ executed' = executed
    BY <1>5 DEF Turns, Orderly, ClearFlag, stream, ghosts
  <2> QED
    BY <2>1 DEF Orderly, InWait
<1> QED
  BY <1>1, <1>2, <1>3, <1>4, <1>5, ExecuteOrderly DEF CenterProcess

LEMMA PacketOrderly ==
    ASSUME TypeOK, Turns, Orderly, PacketThread PROVE Orderly'
<1>1. CASE GetPacket
  <2>1. down' = <<>> /\ frame' = Head(down) /\ get_packet' /\ cb' = "got" /\ cb = "idle"
        /\ down # <<>>
    BY <1>1, LastFrame DEF GetPacket
  <2>2. UNCHANGED <<pc, job, packet, packet_flag, commands, executed>>
    BY <1>1 DEF GetPacket, upVars, ghosts
  <2>3. pc = "polling" \/ (pc = "report" /\ ~packet_flag /\ commands > 0)
    BY <2>1 DEF Turns
  <2> QED
    BY <2>1, <2>2, <2>3 DEF Orderly, Fresh, InWait
<1>2. CASE CopyPacket
  <2>1. packet' = frame /\ cb = "got" /\ cb' = "copied"
    BY <1>2 DEF CopyPacket
  <2>2. UNCHANGED <<pc, job, down, frame, get_packet, packet_flag, commands, executed>>
    BY <1>2 DEF CopyPacket, upVars, stream
  <2> QED
    BY <2>1, <2>2 DEF Orderly, Fresh, InWait
<1>3. CASE Center
  <2>1. packet_flag' /\ cb = "copied" /\ cb' = "idle"
    BY <1>3 DEF Center
  <2>2. UNCHANGED <<pc, job, down, frame, get_packet, packet, commands, executed>>
    BY <1>3 DEF Center, upVars, stream, ghosts
  <2> QED
    BY <2>1, <2>2 DEF Orderly, Fresh, InWait
<1> QED
  BY <1>1, <1>2, <1>3 DEF PacketThread

LEMMA CentreTakesOrderly ==
    ASSUME TypeOK, Turns, Orderly, CentreTakes PROVE Orderly'
<1>1. pc = "polling" /\ ~get_packet /\ down = <<>> /\ Head(up) = job
  BY LastFrame DEF Turns, CentreTakes
<1>2. cb = "idle"
  BY <1>1 DEF Orderly
<1>3. down' = <<>> \/ \E e \in Answers : down' = Append(<<>>, Reply(job, e))
  BY <1>1 DEF CentreTakes
<1>4. \A x : Append(<<>>, x) = <<x>> /\ Head(<<x>>) = x
  OBVIOUS
<1>5. \A e \in Answers : Reply(job, e).cmd = job.cmd
  BY DEF Reply
<1>6. down' # <<>> => Head(down').cmd = job.cmd
  BY <1>3, <1>4, <1>5
<1>7. UNCHANGED <<pc, job, frame, packet, packet_flag, cb, executed>>
  BY DEF CentreTakes, upVars, flags
<1>8. ~job.reply /\ down' # <<>> => Head(down').cmd \notin CenterCmd
  BY <1>1, <1>6, CmdAssumption DEF Orderly, InWait
<1> QED
  BY <1>1, <1>2, <1>6, <1>7, <1>8 DEF Orderly, Fresh, InWait

LEMMA CentreCommandOrderly ==
    ASSUME TypeOK, Bounds, Orderly, races' = {}, NEW c \in CenterCmd, NEW o \in BOOLEAN,
           CentreCommand(c, o)
    PROVE  Orderly'
<1>1. Quiet
  BY DEF CentreCommand
<1>2. commands' = commands + 1 /\ reports + commands' \in Id /\ reports + commands' > reports + commands
  BY BoundAssumption DEF TypeOK, CentreCommand, Id
<1>3. executed[reports + commands'] = 0
  BY <1>2 DEF Bounds
<1> DEFINE f == [cmd |-> c, etx |-> "ENQ", id |-> reports + commands', ours |-> o]
<1>4. f.id = reports + commands' /\ down' = Append(<<>>, f)
  BY <1>1 DEF CentreCommand, Quiet, NothingUnderWay
<1> HIDE DEF f
<1>5. \A x : Append(<<>>, x) = <<x>> /\ Head(<<x>>) = x
  OBVIOUS
<1>6. Head(down').id = reports + commands'
  BY <1>4, <1>5
<1>7. UNCHANGED <<pc, job, frame, packet, packet_flag, cb, executed>>
  BY DEF CentreCommand, upVars, flags
<1>8. pc = "report" /\ cb = "idle" /\ ~packet_flag
  BY <1>1 DEF Quiet, NothingUnderWay
<1> QED
  BY <1>3, <1>6, <1>7, <1>8 DEF Orderly, Fresh, InWait

LEMMA NextOrderly ==
    ASSUME TypeOK, WaitInv, [Next]_vars PROVE (races = {} => Orderly)'
<1> SUFFICES ASSUME races' = {} PROVE Orderly'
  OBVIOUS
<1>1. Bounds /\ Turns /\ Orderly
  BY RacesGrow DEF WaitInv, Calm
<1>2. CASE UNCHANGED vars
  BY <1>1, <1>2 DEF Orderly, Fresh, InWait, vars, upVars, flags, stream, ghosts
<1>3. CASE LoseUp
  BY <1>1, <1>3 DEF Orderly, Fresh, InWait, LoseUp, upVars, flags, ghosts
<1>4. CASE LoseDown
  <2>1. down' = <<>>
    BY <1>1, <1>4, LastFrame DEF LoseDown
  <2> QED
    BY <1>1, <1>4, <2>1 DEF Orderly, Fresh, InWait, LoseDown, upVars, flags, ghosts
<1> QED
  BY <1>1, <1>2, <1>3, <1>4, StartReportOrderly, WaitOrderly, CenterOrderly, PacketOrderly,
     CentreTakesOrderly, CentreCommandOrderly DEF Next, Environment

\* A command of the centre runs at most once, and neither the confirmation of a
\* reply nor that of a report is executed as a command, in every behaviour in
\* which the two threads and the centre take turns.
THEOREM CommandsRunOnce == Spec => []CommandOnce
<1>1. Init => TypeOK /\ WaitInv
  BY InitInv
<1>2. TypeOK /\ WaitInv /\ [Next]_vars => (TypeOK /\ WaitInv)'
  BY NextTypes, NextTurns, NextOrderly DEF WaitInv
<1>3. WaitInv => CommandOnce
  BY DEF WaitInv, Orderly, CommandOnce
<1> QED
  BY <1>1, <1>2, <1>3, PTL DEF Spec
=============================================================================
