----------------------------- MODULE TcpClient -----------------------------
(***************************************************************************)
(* The tcp link to the centre: the step machine of dev/tcp_client.cpp, run  *)
(* by tcp_receive_send_thread, and what the up thread does to it:           *)
(* communication_state and get_sendmode before every round of reports, and  *)
(* senddata followed by a poll of is_send_end, as in the M1 branch of       *)
(* SendMode::wait.  sendbuffer, step, sendlen, keep and opened are shared   *)
(* without a lock; send() and the assignments after it are two steps, and   *)
(* senddata is four: it copies the message, stores its length, tests step   *)
(* and sets it.                                                             *)
(*                                                                         *)
(* sendbuffer names the message whose bytes it holds; of sendlen only       *)
(* whether it is 0, an empty buffer, or a length matters.                   *)
(* Where the code compares the clock with a timeout, both answers are       *)
(* possible, unless the network answers in time.                            *)
(***************************************************************************)
EXTENDS Integers

CONSTANTS
    WorkStates,  \* the working states (parameter 0CH) a station may be set to
    MaxFds,      \* the sockets the process may have open
    MaxMsgs,     \* bound: messages sent
    MaxOutages,  \* bound: outages of the network or closings by the centre
    MaxTimeouts, \* bound: attempts to connect that time out
    MaxPackets,  \* bound: packets received from the centre
    MaxCrashes,  \* bound: reports that fall due while there is no link
    Resend       \* the 2 of "sendreconnect > 2"

ASSUME LinkAssumption ==
    /\ WorkStates \subseteq {"M1", "M2", "M3", "M4"}
    /\ MaxFds \in Nat \ {0} /\ MaxMsgs \in Nat /\ MaxOutages \in Nat
    /\ MaxTimeouts \in Nat /\ MaxPackets \in Nat /\ MaxCrashes \in Nat /\ Resend \in Nat

Step == {"NULL", "OPEN", "CONNECT", "OPEN_ERROR", "OPEN_OK", "SEND", "SEND_ERROR",
         "RECV_WAIT", "RECV_TIMEOUT"}
Msg == 1..MaxMsgs

VARIABLES
    work,           \* get_work_state
    running,        \* pfd # 0: the thread of the step machine exists
    step,
    sending,        \* send() has returned, its result is not yet recorded
    opened,
    keep,
    sendlen,        \* 0, or 1 for the length of a message
    sendreconnect,
    socketfd,       \* "none", "new", "est" (ESTABLISHED) or "dead"
    leaked,         \* sockets that are open and no longer in socketfd
    etx,            \* SendMode::etx, of the last packet of the centre
    utimeout,       \* "zero", "set", or "past": get_ms_clock() is beyond it
    upc,            \* where the up thread is
    msg,            \* the message it waits for, or the last one
    sendbuffer,     \* the message last copied to the buffer
    wasWaiting,     \* senddata saw step = RECV_WAIT
    net,            \* the centre can be reached and answers in time
    outages, packets, crashes,
    overrun,        \* ghost: the messages copied over one still to be sent
    wire            \* ghost: per message, how often it went to the socket

tcpVars == <<step, sending, opened, sendlen, sendreconnect, socketfd, leaked>>
sendVars == <<msg, sendbuffer, wasWaiting, overrun>>
upVars == <<utimeout, upc, sendVars>>
netVars == <<net, outages, packets, crashes>>
vars == <<work, running, tcpVars, keep, etx, upVars, netVars, wire>>

-----------------------------------------------------------------------------
(* tcp_state_function, one action per case and outcome.                     *)

At(st) == running /\ ~sending /\ step = st
Keeps == UNCHANGED <<work, running, keep, etx, upVars, netVars, wire>>

StepNull ==
    /\ At("NULL")
    /\ opened' = FALSE /\ socketfd' = "none"
    /\ UNCHANGED <<step, sending, sendlen, sendreconnect, leaked>> /\ Keeps

Fds == leaked + IF socketfd = "none" THEN 0 ELSE 1

\* Fault: the result of socket() is not tested.
StepOpenUnchecked ==
    /\ At("OPEN")
    /\ opened' = FALSE
    /\ leaked' = Fds
    /\ socketfd' = "new" /\ step' = "CONNECT"
    /\ UNCHANGED <<sending, sendlen, sendreconnect>> /\ Keeps

\* socket(); what socketfd held before is not closed.
StepOpen ==
    /\ At("OPEN")
    /\ opened' = FALSE
    /\ leaked' = Fds
    /\ IF Fds < MaxFds
       THEN socketfd' = "new" /\ step' = "CONNECT"
       ELSE socketfd' = "none" /\ step' = "OPEN_ERROR"
    /\ UNCHANGED <<sending, sendlen, sendreconnect>> /\ Keeps

StepConnect ==
    /\ At("CONNECT") /\ net
    /\ socketfd' = "est" /\ step' = "OPEN_OK"
    /\ UNCHANGED <<sending, opened, sendlen, sendreconnect, leaked>> /\ Keeps

StepConnectTimeout ==
    /\ At("CONNECT") /\ ~net /\ leaked < MaxTimeouts
    /\ step' = "OPEN_ERROR"
    /\ UNCHANGED <<sending, opened, sendlen, sendreconnect, socketfd, leaked>> /\ Keeps

StepOpenOk ==
    /\ At("OPEN_OK")
    /\ opened' = TRUE /\ step' = "SEND"
    /\ UNCHANGED <<sending, sendlen, sendreconnect, socketfd, leaked>> /\ Keeps

StepOpenError ==
    /\ At("OPEN_ERROR")
    /\ step' = "OPEN"
    /\ UNCHANGED <<sending, opened, sendlen, sendreconnect, socketfd, leaked>> /\ Keeps

\* TCP_STEP_SEND: the centre has closed the connection.
StepSendBroken ==
    /\ At("SEND") /\ socketfd # "est"
    /\ step' = "SEND_ERROR"
    /\ UNCHANGED <<sending, opened, sendlen, sendreconnect, socketfd, leaked>> /\ Keeps

StepNothingToSend ==
    /\ At("SEND") /\ socketfd = "est" /\ sendlen = 0
    /\ step' = "RECV_WAIT"
    /\ UNCHANGED <<sending, opened, sendlen, sendreconnect, socketfd, leaked>> /\ Keeps

More(n) == IF n < 3 THEN n + 1 ELSE n

\* send() takes what the buffer holds, whatever message sendlen was stored for.
StepSend ==
    /\ At("SEND") /\ socketfd = "est" /\ sendlen # 0
    /\ wire' = [wire EXCEPT ![sendbuffer] = More(@)]
    /\ sending' = TRUE
    /\ UNCHANGED <<work, running, step, opened, sendlen, sendreconnect, socketfd, leaked, keep,
                   etx, upVars, netVars>>

\* Fault: the buffer is not emptied after send().
StepSentKeeps ==
    /\ running /\ sending
    /\ sending' = FALSE
    /\ step' = "RECV_WAIT" /\ opened' = TRUE
    /\ UNCHANGED <<sendlen, sendreconnect, socketfd, leaked>> /\ Keeps

\* ... and the buffer is marked empty, whatever it holds by now.
StepSent ==
    /\ running /\ sending
    /\ sending' = FALSE
    /\ step' = "RECV_WAIT" /\ sendlen' = 0 /\ opened' = TRUE
    /\ UNCHANGED <<sendreconnect, socketfd, leaked>> /\ Keeps

\* send() fails until send_timeout; the third time the message is dropped.
StepSendTimeout ==
    /\ At("SEND") /\ socketfd = "est" /\ sendlen # 0 /\ ~net
    /\ sendreconnect' = IF sendreconnect <= Resend THEN sendreconnect + 1 ELSE sendreconnect
    /\ sendlen' = IF sendreconnect + 1 > Resend THEN 0 ELSE sendlen
    /\ step' = "SEND_ERROR"
    /\ UNCHANGED <<sending, opened, socketfd, leaked>> /\ Keeps

\* TCP_STEP_RECV_WAIT: there is something to send.
StepMore ==
    /\ At("RECV_WAIT") /\ sendlen # 0
    /\ sendreconnect' = 0 /\ step' = "SEND"
    /\ UNCHANGED <<sending, opened, sendlen, socketfd, leaked>> /\ Keeps

StepRecvBroken ==
    /\ At("RECV_WAIT") /\ sendlen = 0 /\ socketfd # "est"
    /\ step' = "SEND_ERROR"
    /\ UNCHANGED <<sending, opened, sendlen, sendreconnect, socketfd, leaked>> /\ Keeps

\* Nothing received until recv_timeout, and the link is not to be kept.
StepRecvTimeout ==
    /\ At("RECV_WAIT") /\ sendlen = 0 /\ socketfd = "est" /\ ~keep
    /\ step' = "RECV_TIMEOUT"
    /\ UNCHANGED <<sending, opened, sendlen, sendreconnect, socketfd, leaked>> /\ Keeps

\* A packet arrives; the packet thread stores its etx.
StepRecv(e) ==
    /\ At("RECV_WAIT") /\ sendlen = 0 /\ socketfd = "est"
    /\ net /\ packets < MaxPackets
    /\ packets' = packets + 1 /\ etx' = e
    /\ UNCHANGED <<work, running, tcpVars, keep, upVars, net, outages, crashes, wire>>

StepError ==
    /\ At("SEND_ERROR") \/ At("RECV_TIMEOUT")
    /\ socketfd' = "none" /\ opened' = FALSE
    /\ step' = IF keep \/ sendlen # 0 THEN "OPEN" ELSE "NULL"
    /\ UNCHANGED <<sending, sendlen, sendreconnect, leaked>> /\ Keeps

-----------------------------------------------------------------------------
(* The up thread.                                                           *)

Still == UNCHANGED <<work, etx, netVars, wire>>

\* communication_state after a packet: ESC keeps the link, EOT gives it up,
\* the end of a command (ENQ) changes nothing.
Controlled ==
    /\ upc = "comm" /\ etx # "NULL"
    /\ IF etx = "ENQ" THEN UNCHANGED <<keep, utimeout>>
                      ELSE keep' = (etx = "ESC") /\ utimeout' = "set"
    /\ upc' = "link"
    /\ UNCHANGED <<running, tcpVars, sendVars>> /\ Still

\* communication_state before any packet has come: after ten minutes the link
\* is closed in the working states 1 and 2.  quit() ends both threads and
\* closes the socket; step, opened and sendlen stay as they are.
Closes == utimeout = "past" /\ work \in {"M1", "M2"}
Uncontrolled ==
    /\ upc = "comm" /\ etx = "NULL"
    /\ IF Closes
       THEN keep' = FALSE /\ running' = FALSE /\ sending' = FALSE /\ socketfd' = "none"
       ELSE UNCHANGED <<keep, running, sending, socketfd>>
    /\ utimeout' = "set"
    /\ upc' = "link"
    /\ UNCHANGED <<step, opened, sendlen, sendreconnect, leaked, sendVars>>
    /\ Still

\* utimeout lies in the past.
TenMinutes ==
    /\ etx = "NULL" /\ utimeout = "set"
    /\ utimeout' = "past"
    /\ UNCHANGED <<work, running, tcpVars, keep, etx, upc, sendVars, netVars, wire>>

\* device_state.
DeviceState ==
    CASE step = "NULL" -> "DS_NULL"
      [] step \in {"OPEN", "CONNECT"} -> "DS_CONNECTING"
      [] step \in {"OPEN_OK", "SEND", "RECV_WAIT"} -> "DS_OPEN"
      [] OTHER -> "DS_WAIT"

Usable == opened \/ DeviceState = "DS_OPEN"

\* get_sendmode returns 1.
LinkOpen ==
    /\ upc = "link" /\ Usable
    /\ upc' = "bao"
    /\ UNCHANGED <<running, tcpVars, keep, utimeout, sendVars>> /\ Still

\* get_sendmode returns 0: the link is on its way.
LinkWait ==
    /\ upc = "link" /\ ~Usable /\ DeviceState # "DS_NULL"
    /\ upc' = "nolink"
    /\ UNCHANGED <<running, tcpVars, keep, utimeout, sendVars>> /\ Still

\* Fault: connect() does not start the step machine over.
LinkStartForgets ==
    /\ upc = "link" /\ ~Usable /\ DeviceState = "DS_NULL"
    /\ keep' = TRUE /\ running' = TRUE /\ sending' = FALSE
    /\ upc' = "nolink"
    /\ UNCHANGED <<step, opened, sendlen, sendreconnect, socketfd, leaked, utimeout,
                   sendVars>>
    /\ Still

\* get_sendmode finds the link closed: keepalive(true) and start().
LinkStart ==
    /\ upc = "link" /\ ~Usable /\ DeviceState = "DS_NULL"
    /\ keep' = TRUE /\ running' = TRUE /\ sending' = FALSE /\ step' = "OPEN"
    /\ upc' = "nolink"
    /\ UNCHANGED <<opened, sendlen, sendreconnect, socketfd, leaked, utimeout,
                   sendVars>>
    /\ Still

NoReport ==
    /\ upc \in {"bao", "nolink"}
    /\ upc' = "comm"
    /\ UNCHANGED <<running, tcpVars, keep, utimeout, sendVars>> /\ Still

\* A report is due and get_sendmode left the SendMode NULL: the process dies
\* and systemd starts it again.
NullReport ==
    /\ upc = "nolink" /\ crashes < MaxCrashes
    /\ crashes' = crashes + 1
    /\ running' = FALSE /\ step' = "NULL" /\ sending' = FALSE
    /\ opened' = FALSE /\ keep' = TRUE
    /\ sendlen' = 0 /\ sendreconnect' = 0 /\ socketfd' = "none" /\ leaked' = 0
    /\ etx' = "NULL" /\ utimeout' = "zero" /\ upc' = "link" /\ wasWaiting' = FALSE
    /\ sendbuffer' = 0
    /\ UNCHANGED <<work, msg, overrun, net, outages, packets, wire>>

\* senddata: the message is copied to the buffer, over an older one that wait()
\* has given up ...
Pending == sendlen # 0 /\ ~sending
SendData ==
    /\ upc = "bao" /\ msg < MaxMsgs
    /\ msg' = msg + 1 /\ sendbuffer' = msg'
    /\ overrun' = overrun \cup IF Pending THEN {msg'} ELSE {}
    /\ upc' = "copied"
    /\ UNCHANGED <<running, tcpVars, keep, utimeout, wasWaiting>> /\ Still

\* ... its length is stored ...
SendLen ==
    /\ upc = "copied"
    /\ sendlen' = 1
    /\ upc' = "stored"
    /\ UNCHANGED <<running, step, sending, opened, sendreconnect, socketfd, leaked, keep,
                   utimeout, sendVars>>
    /\ Still

\* ... step is read ...
SendTest ==
    /\ upc = "stored"
    /\ wasWaiting' = (step = "RECV_WAIT")
    /\ upc' = "senddata"
    /\ UNCHANGED <<running, tcpVars, keep, utimeout, msg, sendbuffer, overrun>> /\ Still

\* ... and set.
SendDataStep ==
    /\ upc = "senddata"
    /\ step' = IF wasWaiting THEN "SEND" ELSE step
    /\ wasWaiting' = FALSE
    /\ upc' = "wait"
    /\ UNCHANGED <<running, sending, opened, sendlen, sendreconnect, socketfd, leaked, keep,
                   utimeout, msg, sendbuffer, overrun>>
    /\ Still

\* wait() finds is_send_end and returns 0.
WaitOk ==
    /\ upc = "wait" /\ sendlen = 0
    /\ upc' = "comm"
    /\ UNCHANGED <<running, tcpVars, keep, utimeout, sendVars>> /\ Still

\* wait() gives up and returns -1; the message stays in the buffer.
WaitTimeout ==
    /\ upc = "wait" /\ sendlen # 0
    /\ upc' = "comm"
    /\ UNCHANGED <<running, tcpVars, keep, utimeout, sendVars>> /\ Still

-----------------------------------------------------------------------------
(* The network and the centre.                                              *)

\* The network fails, or the centre closes the connection, or both.
Outage ==
    /\ outages < MaxOutages /\ outages' = outages + 1
    /\ net' \in BOOLEAN
    /\ socketfd' \in IF socketfd = "est" THEN {"est", "dead"} ELSE {socketfd}
    /\ UNCHANGED <<work, running, step, sending, opened, sendlen, sendreconnect, leaked, keep, etx,
                   upVars, packets, crashes, wire>>

Recover ==
    /\ ~net /\ net' = TRUE
    /\ UNCHANGED <<work, running, tcpVars, keep, etx, upVars, outages, packets, crashes, wire>>

-----------------------------------------------------------------------------
Init ==
    /\ work \in WorkStates
    /\ running = FALSE /\ step = "NULL" /\ sending = FALSE
    /\ opened = FALSE /\ keep = TRUE
    /\ sendlen = 0 /\ sendreconnect = 0 /\ socketfd = "none" /\ leaked = 0
    /\ etx = "NULL" /\ utimeout = "zero"
    /\ upc = "link" /\ msg = 0 /\ sendbuffer = 0 /\ wasWaiting = FALSE /\ overrun = {}
    /\ net \in BOOLEAN /\ outages = 0 /\ packets = 0 /\ crashes = 0
    /\ wire = [x \in Msg |-> 0]

TcpThread ==
    \/ StepNull \/ StepOpen \/ StepConnect \/ StepConnectTimeout \/ StepOpenOk
    \/ StepOpenError \/ StepSendBroken \/ StepNothingToSend \/ StepSend \/ StepSent
    \/ StepSendTimeout \/ StepMore \/ StepRecvBroken \/ StepRecvTimeout \/ StepError

UpThread ==
    \/ Controlled \/ Uncontrolled \/ LinkOpen \/ LinkWait \/ LinkStart \/ NoReport
    \/ NullReport \/ SendData \/ SendLen \/ SendTest \/ SendDataStep \/ WaitOk \/ WaitTimeout

Next ==
    \/ TcpThread \/ UpThread
    \/ \E e \in {"ENQ", "EOT", "ESC"} : StepRecv(e)
    \/ TenMinutes \/ Outage \/ Recover

Spec == Init /\ [][Next]_vars

\* Both threads keep running, and an outage ends.
FairSpec == Spec /\ WF_vars(TcpThread) /\ WF_vars(UpThread) /\ WF_vars(Recover)

-----------------------------------------------------------------------------
(* Properties.                                                              *)

\* The types of the state of the link.
TypeOK ==
    /\ work \in WorkStates /\ running \in BOOLEAN /\ step \in Step /\ sending \in BOOLEAN
    /\ opened \in BOOLEAN /\ keep \in BOOLEAN
    /\ sendlen \in 0..1 /\ sendreconnect \in 0..(Resend + 1)
    /\ socketfd \in {"none", "new", "est", "dead"} /\ leaked \in 0..MaxFds
    /\ etx \in {"NULL", "ENQ", "EOT", "ESC"} /\ utimeout \in {"zero", "set", "past"}
    /\ upc \in {"comm", "link", "bao", "nolink", "copied", "stored", "senddata", "wait"}
    /\ msg \in 0..MaxMsgs /\ sendbuffer \in {0, msg} /\ wasWaiting \in BOOLEAN
    /\ overrun \subseteq Msg
    /\ net \in BOOLEAN /\ outages \in 0..MaxOutages /\ packets \in 0..MaxPackets
    /\ crashes \in 0..MaxCrashes
    /\ wire \in [Msg -> 0..3]

\* One call of senddata puts its message on the wire at most once: a
\* connection that breaks after send() does not send it again, nor does a new
\* one, nor the buffer of a message that was sent.  Only a message copied over an
\* older one still to be sent may go out twice: once under the length of the
\* older one, before its own is stored, and once under its own.
AtMost(x) == IF x \in overrun THEN 2 ELSE 1
AtMostOnce == \A x \in Msg : wire[x] <= AtMost(x)

\* The inductive invariant behind AtMostOnce.  What is in the buffer may still be
\* sent, unless its send() has just returned, or quit() came between send() and
\* the end of the case: then the step machine rests in SEND for good.
Resting == ~running /\ step = "SEND"
CanGo == Pending /\ ~Resting
Unsent ==
    /\ sending => running /\ step = "SEND"
    /\ sendlen # 0 => sendbuffer = msg /\ msg # 0
    /\ upc = "copied" => sendbuffer = msg /\ msg # 0
    /\ \A x \in Msg : x > msg => wire[x] = 0
    /\ upc = "copied" \/ CanGo => wire[msg] < AtMost(msg)
    /\ upc = "copied" /\ CanGo => wire[msg] = 0 /\ msg \in overrun

\* No more sockets are open than there can be.
Sockets ==
    /\ Fds <= MaxFds
    /\ running /\ step = "CONNECT" => socketfd # "none"

LinkInv == Unsent /\ Sockets /\ AtMostOnce

\* A station that communication_state does not take off the line (working
\* states 3 and 4) is never off line for good: whatever breaks the connection, a
\* new one is established once the network works again.  The sockets that
\* StepOpen leaks must not have run out.
Online == running /\ socketfd = "est" /\ Usable
StaysOnline == work \notin {"M1", "M2"}
Exhausted == leaked >= MaxFds
AlwaysOnlineAgain == StaysOnline => []<>(Online \/ Exhausted)

\* On such a station a message does not stay in the buffer: it is sent, or
\* dropped.
BufferEmptied == (sendlen # 0 /\ StaysOnline) ~> (sendlen = 0 \/ Exhausted)

\* A link that was closed while it was open is opened again (the comment in
\* get_sendmode).
ClosedReconnects == (~running /\ opened) ~> running
=============================================================================
