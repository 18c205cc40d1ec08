-------------------------- MODULE TcpClientProofs --------------------------
(* Theorems about TcpClient, for every value of its constants.               *)
EXTENDS TcpClient, TLAPS

LEMMA InitInv == Init => TypeOK /\ LinkInv
<1> SUFFICES ASSUME Init PROVE TypeOK /\ LinkInv
  OBVIOUS
<1>1. TypeOK
  <2>1. /\ running \in BOOLEAN /\ sending \in BOOLEAN /\ opened \in BOOLEAN /\ keep \in BOOLEAN
        /\ wasWaiting \in BOOLEAN /\ net \in BOOLEAN
    BY DEF Init
  <2>2. /\ sendlen \in 0..1 /\ sendreconnect \in 0..(Resend + 1) /\ leaked \in 0..MaxFds
        /\ msg \in 0..MaxMsgs /\ sendbuffer \in {0, msg} /\ overrun \subseteq Msg
        /\ outages \in 0..MaxOutages /\ packets \in 0..MaxPackets
        /\ crashes \in 0..MaxCrashes
    BY LinkAssumption DEF Init
  <2>3. wire \in [Msg -> 0..3]
    BY DEF Init
  <2>4. /\ work \in WorkStates /\ step \in Step /\ socketfd \in {"none", "new", "est", "dead"}
        /\ etx \in {"NULL", "ENQ", "EOT", "ESC"} /\ utimeout \in {"zero", "set", "past"}
        /\ upc \in {"comm", "link", "bao", "nolink", "copied", "stored", "senddata", "wait"}
    BY DEF Init, Step
  <2> QED
    BY <2>1, <2>2, <2>3, <2>4 DEF TypeOK
<1>2. Unsent
  BY DEF Init, Unsent, CanGo, Pending
<1>3. Sockets
  BY LinkAssumption DEF Init, Sockets, Fds
<1>4. AtMostOnce
  BY DEF Init, AtMostOnce, AtMost
<1> QED
  BY <1>1, <1>2, <1>3, <1>4 DEF LinkInv

-----------------------------------------------------------------------------
(* The step machine.                                                         *)

\* What all steps of the machine leave alone.
LEMMA KeepsFrame ==
    ASSUME TypeOK, Keeps
    PROVE  /\ UNCHANGED <<running, upc, msg, sendbuffer, overrun, wire>>
           /\ work' \in WorkStates /\ running' \in BOOLEAN /\ keep' \in BOOLEAN
           /\ etx' \in {"NULL", "ENQ", "EOT", "ESC"} /\ utimeout' \in {"zero", "set", "past"}
           /\ upc' \in {"comm", "link", "bao", "nolink", "copied", "stored", "senddata", "wait"}
           /\ msg' \in 0..MaxMsgs /\ sendbuffer' \in {0, msg'} /\ wasWaiting' \in BOOLEAN
           /\ overrun' \subseteq Msg
           /\ net' \in BOOLEAN /\ outages' \in 0..MaxOutages /\ packets' \in 0..MaxPackets
           /\ crashes' \in 0..MaxCrashes
           /\ wire' \in [Msg -> 0..3]
BY DEF TypeOK, Keeps, upVars, sendVars, netVars

\* The steps before a connection is open.
LEMMA OpenSteps ==
    ASSUME TypeOK, LinkInv,
           StepNull \/ StepOpen \/ StepConnect \/ StepConnectTimeout \/ StepOpenOk
               \/ StepOpenError
    PROVE  TypeOK' /\ LinkInv'
<1>1. Keeps /\ running /\ ~sending /\ UNCHANGED <<sending, sendlen, sendreconnect>>
  BY DEF StepNull, StepOpen, StepConnect, StepConnectTimeout, StepOpenOk, StepOpenError, At
<1>2. /\ step' \in Step /\ opened' \in BOOLEAN
      /\ socketfd' \in {"none", "new", "est", "dead"}
  BY DEF TypeOK, Step, StepNull, StepOpen, StepConnect, StepConnectTimeout, StepOpenOk,
     StepOpenError
<1>3. leaked' \in 0..MaxFds /\ Sockets'
  <2>1. /\ leaked \in 0..MaxFds /\ Fds <= MaxFds /\ running' = running
        /\ running /\ step = "CONNECT" => socketfd # "none"
    BY <1>1, KeepsFrame DEF TypeOK, LinkInv, Sockets
  <2>2. CASE StepOpen
    BY <2>1, <2>2, LinkAssumption DEF StepOpen, Sockets, Fds
  <2>3. CASE ~StepOpen
    BY <2>1, <2>3 DEF Sockets, Fds, At, StepNull, StepConnect, StepConnectTimeout, StepOpenOk,
       StepOpenError
  <2> QED
    BY <2>2, <2>3
<1>4. TypeOK'
  BY <1>1, <1>2, <1>3, KeepsFrame DEF TypeOK
<1>5. Unsent' /\ AtMostOnce'
  BY <1>1, KeepsFrame DEF LinkInv, Unsent, AtMostOnce, AtMost, CanGo, Pending, Resting
<1> QED
  BY <1>3, <1>4, <1>5 DEF LinkInv

\* The steps on an open connection that do not send.
LEMMA WaitSteps ==
    ASSUME TypeOK, LinkInv,
           StepSendBroken \/ StepNothingToSend \/ StepSendTimeout \/ StepMore
               \/ StepRecvBroken \/ StepRecvTimeout \/ StepError
    PROVE  TypeOK' /\ LinkInv'
<1>1. Keeps /\ running /\ ~sending /\ UNCHANGED <<sending, leaked>>
  BY DEF StepSendBroken, StepNothingToSend, StepSendTimeout, StepMore, StepRecvBroken,
         StepRecvTimeout, StepError, At
<1>2. /\ step' \in Step /\ step' # "CONNECT" /\ opened' \in BOOLEAN
      /\ socketfd' \in {socketfd, "none"}
  BY DEF TypeOK, Step, StepSendBroken, StepNothingToSend, StepSendTimeout, StepMore,
         StepRecvBroken, StepRecvTimeout, StepError
<1>3. sendlen' \in {sendlen, 0} /\ sendreconnect' \in 0..(Resend + 1)
  <2>1. sendlen \in 0..1 /\ sendreconnect \in 0..(Resend + 1)
    BY DEF TypeOK
  <2> QED
    BY <2>1, LinkAssumption DEF StepSendBroken, StepNothingToSend, StepSendTimeout, StepMore,
       StepRecvBroken, StepRecvTimeout, StepError
<1>4. TypeOK'
  <2>1. sendlen' \in 0..1
    BY <1>3 DEF TypeOK
  <2>2. socketfd' \in {"none", "new", "est", "dead"} /\ leaked' \in 0..MaxFds
    BY <1>1, <1>2 DEF TypeOK
  <2>3. sending' \in BOOLEAN
    BY <1>1 DEF TypeOK
  <2> QED
    BY <1>1, <1>2, <1>3, <2>1, <2>2, <2>3, KeepsFrame DEF TypeOK
<1>5. Sockets'
  BY <1>1, <1>2 DEF LinkInv, Sockets, Fds, TypeOK
<1>6. AtMostOnce'
  BY <1>1, KeepsFrame DEF LinkInv, AtMostOnce, AtMost
<1>7. Unsent'
  BY <1>1, <1>3, KeepsFrame DEF LinkInv, Unsent, AtMost, CanGo, Pending, Resting
<1> QED
  BY <1>4, <1>5, <1>6, <1>7 DEF LinkInv

\* send(): what it takes may still go out once.
LEMMA SendStep ==
    ASSUME TypeOK, LinkInv, StepSend
    PROVE  TypeOK' /\ LinkInv'
<1>1. /\ running /\ ~sending /\ step = "SEND" /\ sendlen # 0
      /\ wire' = [wire EXCEPT ![sendbuffer] = More(@)] /\ sending' = TRUE
      /\ UNCHANGED <<work, running, step, opened, sendlen, sendreconnect, socketfd, leaked,
                     keep, etx, upVars, netVars>>
  BY DEF StepSend, At
<1>2. /\ sendbuffer = msg /\ msg \in Msg /\ wire \in [Msg -> 0..3]
      /\ wire[msg] < AtMost(msg)
      /\ upc = "copied" => wire[msg] = 0 /\ msg \in overrun
  BY <1>1, LinkAssumption DEF TypeOK, LinkInv, Unsent, Msg, CanGo, Pending, Resting
<1>3. /\ wire' \in [Msg -> 0..3] /\ wire'[msg] = wire[msg] + 1
      /\ \A x \in Msg : x # msg => wire'[x] = wire[x]
  BY <1>1, <1>2 DEF More, AtMost
<1>4. TypeOK'
  BY <1>1, <1>3 DEF TypeOK, upVars, sendVars, netVars
<1>5. Sockets'
  BY <1>1 DEF LinkInv, Sockets, Fds
<1>6. AtMostOnce'
  BY <1>1, <1>2, <1>3 DEF LinkInv, AtMostOnce, AtMost, upVars, sendVars
<1>7. Unsent'
  <2>1. \A x \in Msg : x > msg => x # msg /\ wire[x] = 0
    BY DEF LinkInv, Unsent, Msg, TypeOK
  <2>2. upc = "copied" => wire'[msg] < AtMost(msg)
    BY <1>2, <1>3 DEF AtMost
  <2>3. ~CanGo' /\ UNCHANGED <<upc, msg, sendbuffer, overrun, sendlen, running, step>>
    BY <1>1 DEF CanGo, Pending, upVars, sendVars
  <2>4. \A x \in Msg : x > msg' => wire'[x] = 0
    BY <1>3, <2>1, <2>3
  <2>5. /\ sending' => running' /\ step' = "SEND"
        /\ sendlen' # 0 => sendbuffer' = msg' /\ msg' # 0
        /\ upc' = "copied" => sendbuffer' = msg' /\ msg' # 0
    BY <1>1, <2>3 DEF LinkInv, Unsent
  <2>6. upc' = "copied" => wire'[msg'] < AtMost(msg)'
    BY <2>2, <2>3 DEF AtMost
  <2> QED
    BY <2>3, <2>4, <2>5, <2>6 DEF Unsent
<1> QED
  BY <1>4, <1>5, <1>6, <1>7 DEF LinkInv

LEMMA SentStep ==
    ASSUME TypeOK, LinkInv, StepSent
    PROVE  TypeOK' /\ LinkInv'
<1>1. /\ Keeps /\ sending' = FALSE /\ step' = "RECV_WAIT" /\ sendlen' = 0 /\ opened' = TRUE
      /\ UNCHANGED <<sendreconnect, socketfd, leaked>>
  BY DEF StepSent
<1>2. TypeOK'
  <2>1. sendlen' \in 0..1
    BY <1>1
  <2>2. step' \in Step /\ sending' \in BOOLEAN /\ opened' \in BOOLEAN
    BY <1>1 DEF Step
  <2> QED
    BY <1>1, <2>1, <2>2, KeepsFrame DEF TypeOK
<1>3. Sockets'
  BY <1>1 DEF LinkInv, Sockets, Fds
<1>4. Unsent' /\ AtMostOnce'
  BY <1>1, KeepsFrame DEF LinkInv, Unsent, AtMostOnce, AtMost, CanGo, Pending
<1> QED
  BY <1>2, <1>3, <1>4 DEF LinkInv

-----------------------------------------------------------------------------
(* The up thread and the network.                                            *)

LEMMA StillFrame ==
    ASSUME TypeOK, Still
    PROVE  /\ UNCHANGED wire
           /\ work' \in WorkStates /\ etx' \in {"NULL", "ENQ", "EOT", "ESC"}
           /\ net' \in BOOLEAN /\ outages' \in 0..MaxOutages /\ packets' \in 0..MaxPackets
           /\ crashes' \in 0..MaxCrashes
           /\ wire' \in [Msg -> 0..3]
BY DEF TypeOK, Still, netVars

\* The steps that change neither the step machine nor its buffer.
LEMMA OutsideSteps ==
    ASSUME TypeOK, LinkInv,
           \/ Controlled \/ LinkOpen \/ LinkWait \/ NoReport \/ WaitOk \/ WaitTimeout
           \/ TenMinutes \/ Recover \/ \E e \in {"ENQ", "EOT", "ESC"} : StepRecv(e)
           \/ UNCHANGED vars
    PROVE  TypeOK' /\ LinkInv'
<1>1. /\ UNCHANGED <<work, running, tcpVars, sendVars, outages, crashes, wire>>
      /\ upc' = "copied" <=> upc = "copied"
  BY DEF Controlled, LinkOpen, LinkWait, NoReport, WaitOk, WaitTimeout, TenMinutes, Recover,
         StepRecv, vars, Still, upVars, netVars
<1>2. /\ keep' \in BOOLEAN /\ net' \in BOOLEAN
      /\ etx' \in {"NULL", "ENQ", "EOT", "ESC"} /\ utimeout' \in {"zero", "set", "past"}
      /\ upc' \in {"comm", "link", "bao", "nolink", "copied", "stored", "senddata", "wait"}
  BY DEF TypeOK, Controlled, LinkOpen, LinkWait, NoReport, WaitOk, WaitTimeout, TenMinutes,
         Recover, StepRecv, vars, Still, upVars, netVars
<1>3. packets' \in 0..MaxPackets
  <2>1. packets \in 0..MaxPackets
    BY DEF TypeOK
  <2> QED
    BY <2>1, LinkAssumption DEF Controlled, LinkOpen, LinkWait, NoReport, WaitOk, WaitTimeout,
       TenMinutes, Recover, StepRecv, vars, Still, upVars, netVars
<1>4. TypeOK'
  BY <1>1, <1>2, <1>3 DEF TypeOK, tcpVars, sendVars
<1>5. LinkInv'
  BY <1>1 DEF LinkInv, Unsent, Sockets, Fds, AtMostOnce, AtMost, CanGo, Pending, Resting, tcpVars,
     sendVars
<1> QED
  BY <1>4, <1>5

\* quit() closes the socket, and may come between send() and the end of its case.
LEMMA UncontrolledStep ==
    ASSUME TypeOK, LinkInv, Uncontrolled
    PROVE  TypeOK' /\ LinkInv'
<1>1. /\ Still /\ utimeout' = "set" /\ upc = "comm" /\ upc' = "link"
      /\ UNCHANGED <<step, opened, sendlen, sendreconnect, leaked, sendVars>>
  BY DEF Uncontrolled
<1>2. \/ /\ keep' = FALSE /\ running' = FALSE /\ sending' = FALSE /\ socketfd' = "none"
      \/ UNCHANGED <<keep, running, sending, socketfd>>
  BY DEF Uncontrolled
<1>3. TypeOK'
  <2>1. /\ keep' \in BOOLEAN /\ running' \in BOOLEAN /\ sending' \in BOOLEAN
        /\ socketfd' \in {"none", "new", "est", "dead"}
    BY <1>2 DEF TypeOK
  <2> QED
    BY <1>1, <2>1, StillFrame DEF TypeOK, sendVars
<1>4. Sockets'
  <2>1. leaked \in Nat /\ Fds <= MaxFds /\ (running /\ step = "CONNECT" => socketfd # "none")
    BY LinkAssumption DEF TypeOK, LinkInv, Sockets
  <2> QED
    BY <1>1, <1>2, <2>1, LinkAssumption DEF Sockets, Fds
<1>5. Unsent' /\ AtMostOnce'
  BY <1>1, <1>2, StillFrame
     DEF LinkInv, Unsent, AtMostOnce, AtMost, CanGo, Pending, Resting, sendVars
<1> QED
  BY <1>3, <1>4, <1>5 DEF LinkInv

\* start(): the step machine was in NULL, so that what it still holds may go out.
LEMMA LinkStartStep ==
    ASSUME TypeOK, LinkInv, LinkStart
    PROVE  TypeOK' /\ LinkInv'
<1>1. /\ keep' = TRUE /\ running' = TRUE /\ sending' = FALSE /\ step' = "OPEN"
      /\ upc' = "nolink" /\ Still
      /\ upc = "link"
      /\ UNCHANGED <<opened, sendlen, sendreconnect, socketfd, leaked, utimeout, sendVars>>
  BY DEF LinkStart
<1>2. step = "NULL"
  BY DEF LinkStart, DeviceState, TypeOK, Step
<1>3. TypeOK'
  <2>1. step' \in Step /\ keep' \in BOOLEAN /\ running' \in BOOLEAN /\ sending' \in BOOLEAN
    BY <1>1 DEF Step
  <2> QED
    BY <1>1, <2>1, StillFrame DEF TypeOK, sendVars
<1>4. Sockets'
  BY <1>1 DEF LinkInv, Sockets, Fds
<1>5. Unsent' /\ AtMostOnce'
  <2>1. ~sending /\ ~Resting
    BY <1>2 DEF LinkInv, Unsent, Resting
  <2> QED
    BY <1>1, <2>1, StillFrame
       DEF LinkInv, Unsent, AtMostOnce, AtMost, CanGo, Pending, Resting, sendVars
<1> QED
  BY <1>3, <1>4, <1>5 DEF LinkInv

LEMMA NullReportStep ==
    ASSUME TypeOK, LinkInv, NullReport
    PROVE  TypeOK' /\ LinkInv'
<1>1. /\ crashes < MaxCrashes /\ crashes' = crashes + 1
      /\ running' = FALSE /\ step' = "NULL" /\ sending' = FALSE
      /\ opened' = FALSE /\ keep' = TRUE
      /\ sendlen' = 0 /\ sendreconnect' = 0 /\ socketfd' = "none" /\ leaked' = 0
      /\ etx' = "NULL" /\ utimeout' = "zero" /\ upc' = "link" /\ wasWaiting' = FALSE
      /\ sendbuffer' = 0
      /\ UNCHANGED <<work, msg, overrun, net, outages, packets, wire>>
  BY DEF NullReport
<1>2. TypeOK'
  <2>1. /\ sendlen' \in 0..1 /\ sendreconnect' \in 0..(Resend + 1) /\ leaked' \in 0..MaxFds
        /\ crashes' \in 0..MaxCrashes
    BY <1>1, LinkAssumption DEF TypeOK
  <2>2. /\ step' \in Step /\ running' \in BOOLEAN /\ sending' \in BOOLEAN
        /\ opened' \in BOOLEAN /\ keep' \in BOOLEAN /\ wasWaiting' \in BOOLEAN
    BY <1>1 DEF Step
  <2> QED
    BY <1>1, <2>1, <2>2 DEF TypeOK
<1>3. Sockets'
  BY <1>1, LinkAssumption DEF Sockets, Fds
<1>4. Unsent' /\ AtMostOnce'
  BY <1>1 DEF LinkInv, Unsent, AtMostOnce, AtMost, CanGo, Pending
<1> QED
  BY <1>2, <1>3, <1>4 DEF LinkInv

\* senddata: a new message replaces what is in the buffer, and its length comes later.
LEMMA SendDataSteps ==
    ASSUME TypeOK, LinkInv, SendData \/ SendLen \/ SendTest \/ SendDataStep
    PROVE  TypeOK' /\ LinkInv'
<1>1. /\ Still
      /\ UNCHANGED <<running, sending, opened, sendreconnect, socketfd, leaked, keep, utimeout>>
  BY DEF SendData, SendLen, SendTest, SendDataStep, tcpVars
<1>2. Sockets'
  <2>1. step' = "CONNECT" => step = "CONNECT"
    BY DEF SendData, SendLen, SendTest, SendDataStep, tcpVars
  <2> QED
    BY <1>1, <2>1 DEF LinkInv, Sockets, Fds
<1>3. CASE SendData
  <2>1. /\ msg < MaxMsgs /\ msg' = msg + 1 /\ sendbuffer' = msg + 1 /\ upc' = "copied"
        /\ overrun' = overrun \cup IF Pending THEN {msg + 1} ELSE {}
        /\ UNCHANGED <<step, sendlen, wasWaiting>>
    BY <1>3 DEF SendData, tcpVars
  <2>2. msg' \in Msg /\ msg' \in 0..MaxMsgs /\ msg' > msg /\ msg' # 0 /\ msg \in Nat
    BY <2>1, LinkAssumption DEF TypeOK, Msg
  <2>3. overrun' \subseteq Msg
    BY <2>1, <2>2 DEF TypeOK
  <2>4. TypeOK'
    BY <1>1, <2>1, <2>2, <2>3, StillFrame DEF TypeOK
  <2>5. wire[msg'] = 0 /\ \A x \in Msg : x > msg' => wire[x] = 0
    BY <2>1, <2>2 DEF LinkInv, Unsent, Msg
  <2>6. CanGo' => msg' \in overrun'
    BY <1>1, <2>1 DEF CanGo, Pending
  <2>7. Unsent'
    BY <1>1, <2>1, <2>2, <2>5, <2>6, StillFrame DEF LinkInv, Unsent, AtMost
  <2>8. AtMostOnce'
    BY <2>1, <1>1, StillFrame DEF LinkInv, AtMostOnce, AtMost, TypeOK
  <2> QED
    BY <1>2, <2>4, <2>7, <2>8 DEF LinkInv
<1>4. CASE SendLen
  <2>1. /\ upc = "copied" /\ upc' = "stored" /\ sendlen' = 1 /\ UNCHANGED <<step, sendVars>>
    BY <1>4 DEF SendLen
  <2>2. TypeOK'
    BY <1>1, <2>1, StillFrame DEF TypeOK, sendVars
  <2>3. Unsent' /\ AtMostOnce'
    BY <1>1, <2>1, StillFrame DEF LinkInv, Unsent, AtMostOnce, AtMost, sendVars
  <2> QED
    BY <1>2, <2>2, <2>3 DEF LinkInv
<1>5. CASE SendTest \/ SendDataStep
  <2>1. /\ step' = "SEND" \/ step' = step
        /\ wasWaiting' \in BOOLEAN /\ upc' \in {"senddata", "wait"} /\ upc # "copied"
        /\ UNCHANGED <<sendlen, msg, sendbuffer, overrun>>
    BY <1>5 DEF SendTest, SendDataStep, tcpVars
  <2>2. step' \in Step
    BY <2>1 DEF TypeOK, Step
  <2>3. TypeOK'
    BY <1>1, <2>1, <2>2, StillFrame DEF TypeOK
  <2>4. Unsent' /\ AtMostOnce'
    BY <1>1, <2>1, StillFrame
       DEF LinkInv, Unsent, AtMostOnce, AtMost, CanGo, Pending, Resting
  <2> QED
    BY <1>2, <2>3, <2>4 DEF LinkInv
<1> QED
  BY <1>3, <1>4, <1>5

LEMMA OutageStep ==
    ASSUME TypeOK, LinkInv, Outage
    PROVE  TypeOK' /\ LinkInv'
<1>1. /\ outages < MaxOutages /\ outages' = outages + 1 /\ net' \in BOOLEAN
      /\ socketfd' = socketfd \/ (socketfd = "est" /\ socketfd' = "dead")
      /\ UNCHANGED <<work, running, step, sending, opened, sendlen, sendreconnect, leaked, keep,
                     etx, upVars, packets, crashes, wire>>
  BY DEF Outage
<1>2. outages' \in 0..MaxOutages
  BY <1>1, LinkAssumption DEF TypeOK
<1>3. TypeOK'
  BY <1>1, <1>2 DEF TypeOK, upVars, sendVars
<1>4. LinkInv'
  BY <1>1 DEF LinkInv, Unsent, Sockets, Fds, AtMostOnce, AtMost, CanGo, Pending, Resting, upVars,
     sendVars
<1> QED
  BY <1>3, <1>4

LEMMA NextInv ==
    ASSUME TypeOK, LinkInv, [Next]_vars
    PROVE  TypeOK' /\ LinkInv'
<1>1. CASE TcpThread
  BY <1>1, OpenSteps, WaitSteps, SendStep, SentStep DEF TcpThread
<1>2. CASE UpThread
  BY <1>2, OutsideSteps, UncontrolledStep, LinkStartStep, NullReportStep, SendDataSteps
     DEF UpThread
<1>3. CASE (\E e \in {"ENQ", "EOT", "ESC"} : StepRecv(e)) \/ TenMinutes \/ Recover
  BY <1>3, OutsideSteps
<1>4. CASE Outage
  BY <1>4, OutageStep
<1>5. CASE UNCHANGED vars
  BY <1>5, OutsideSteps
<1> QED
  BY <1>1, <1>2, <1>3, <1>4, <1>5 DEF Next

\* The link is well typed in every reachable state: above all the step machine
\* never has more sockets open, in use or leaked, than MaxFds, though StepOpen
\* closes none.
THEOREM TypeCorrect == Spec => []TypeOK
<1>1. TypeOK /\ LinkInv /\ [Next]_vars => (TypeOK /\ LinkInv)'
  BY NextInv
<1> QED
  BY <1>1, InitInv, PTL DEF Spec

\* One call of senddata puts its message on the wire at most once, and at most
\* twice when it was copied over an older message still to be sent, whatever the
\* interleaving of the step machine with the up thread, the outages, the closing
\* of the link and the restarts.
THEOREM SentAtMostOnce == Spec => []AtMostOnce
<1>1. TypeOK /\ LinkInv /\ [Next]_vars => (TypeOK /\ LinkInv)'
  BY NextInv
<1>2. LinkInv => AtMostOnce
  BY DEF LinkInv
<1> QED
  BY <1>1, <1>2, InitInv, PTL DEF Spec
=============================================================================
