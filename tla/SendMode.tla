------------------------------ MODULE SendMode ------------------------------
(***************************************************************************)
(* SendMode (app/up/sendmode.cpp): how a report and the reply to a command  *)
(* of the centre are sent and confirmed.  The up thread runs wait(): it     *)
(* sends a frame, polls get_packet, and judges the packet it finds, up to   *)
(* three times.  The packet thread of the tcp client runs                   *)
(* up_packet_process: it sets get_packet, then copies the packet, then lets *)
(* down_packet_process raise packet_flag.  Between two rounds of reports    *)
(* the up thread hands the packet to center_process and then clears the     *)
(* flag.  No lock protects get_packet, packet or packet_flag.               *)
(*                                                                         *)
(* The two directions of the tcp stream are sequences; a broken connection  *)
(* loses frames.  packet_count is always 1 (init cuts the length below      *)
(* PDSIZE), and nothing calls init with M3.                                 *)
(***************************************************************************)
EXTENDS Integers, Sequences

CONSTANTS
    ReportCmd,   \* the commands of reports that are sent with M2
    CenterCmd,   \* the commands that center_process executes
    Factory,     \* those whose case falls through to the next one (48H)
    Retries,     \* the 3 of wait()
    MaxReports,  \* bound: reports sent
    MaxCommands, \* bound: commands the centre sends
    MaxFlight,   \* bound: frames in one direction of the stream
    Answers,     \* the etx the centre ends a confirmation with
    NoCmd        \* the command of the zeroed packet

ASSUME CmdAssumption ==
    /\ ReportCmd \cap CenterCmd = {} /\ Factory \subseteq CenterCmd /\ NoCmd \notin ReportCmd \cup CenterCmd
    /\ Answers \subseteq {"EOT", "ESC", "ACK", "NAK"}
ASSUME BoundAssumption ==
    /\ Retries \in Nat \ {0} /\ MaxReports \in Nat /\ MaxCommands \in Nat
    /\ MaxFlight \in Nat \ {0}

Id == 0..(MaxReports + MaxCommands)
Cmd == ReportCmd \cup CenterCmd
\* A downlink frame.  id names the report or the command it belongs to, which
\* the code does not look at.
Down == [cmd : Cmd \cup {NoCmd}, etx : {"NULL", "ENQ", "EOT", "ESC", "ACK", "NAK"},
         id : Id, ours : BOOLEAN]
Up == [cmd : Cmd \cup {NoCmd}, id : Id, reply : BOOLEAN]

VARIABLES
    pc,          \* where the up thread is
    job,         \* what wait() is sending: an Up frame
    retry,       \* the local variable retry of wait()
    fall,        \* center_process still has to run the case it falls into
    get_packet,
    packet,      \* SendMode::packet
    packet_flag,
    cb,          \* where the packet thread is in up_packet_process
    frame,       \* the packet it decoded, SendMode::down
    up, down,    \* the tcp stream
    reports,     \* number of reports sent so far
    commands,    \* number of commands sent so far
    received,    \* ghost: the reports the centre has accepted
    ok,          \* ghost: the reports whose wait() returned 0
    accepted,    \* ghost: the commands that reached SendMode::packet
    executed,    \* ghost: per command, how often it ran (2 = more than once)
    races        \* ghost: the races between the threads met so far (Race)

upVars == <<pc, job, retry, fall>>
flags == <<get_packet, packet, packet_flag>>
stream == <<up, down, reports, commands>>
ghosts == <<received, ok, accepted, executed, races>>
vars == <<upVars, flags, cb, frame, stream, ghosts>>

\* late: a poll of wait() times out while frames are under way.  early: wait()
\* sees get_packet while the packet thread is still at work.  overlap: the
\* centre sends a command while a report or another command is under way, or a
\* report starts before all is quiet after a command.
Race == {"late", "early", "overlap"}
NothingUnderWay == up = <<>> /\ down = <<>> /\ cb = "idle"
Quiet == pc = "report" /\ NothingUnderWay /\ ~packet_flag

-----------------------------------------------------------------------------
(* The up thread: reports.                                                  *)

\* bao_poll finds a report due: init(M2, ...) and wait() begins.
StartReport(c) ==
    /\ pc = "report" /\ reports < MaxReports
    /\ reports' = reports + 1
    /\ job' = [cmd |-> c, id |-> reports' + commands, reply |-> FALSE]
    /\ retry' = Retries /\ pc' = "send"
    /\ races' = IF commands = 0 \/ Quiet THEN races ELSE races \cup {"overlap"}
    /\ UNCHANGED <<fall, flags, cb, frame, up, down, commands, received, ok, accepted,
                   executed>>

\* Fault: an answer to an earlier frame is not discarded.
SendKeepsFlag ==
    /\ pc = "send"
    /\ retry' = retry - 1
    /\ up' = IF Len(up) < MaxFlight THEN Append(up, job) ELSE up
    /\ pc' = "polling"
    /\ UNCHANGED <<job, fall, flags, cb, frame, down, reports, commands, ghosts>>

\* Fault: a try is not counted.
SendForEver ==
    /\ pc = "send"
    /\ get_packet' = FALSE
    /\ up' = IF Len(up) < MaxFlight THEN Append(up, job) ELSE up
    /\ pc' = "polling"
    /\ UNCHANGED <<job, retry, fall, packet, packet_flag, cb, frame, down, reports,
                   commands, ghosts>>

\* One try of wait(): clear get_packet, send the frame, start polling.
Send ==
    /\ pc = "send"
    /\ retry' = retry - 1 /\ get_packet' = FALSE
    /\ up' = IF Len(up) < MaxFlight THEN Append(up, job) ELSE up
    /\ pc' = "polling"
    /\ UNCHANGED <<job, fall, packet, packet_flag, cb, frame, down, reports, commands,
                   ghosts>>

\* The poll ends, with a packet or by its timeout.
Answered == get_packet
EndPoll ==
    /\ pc = "polling"
    /\ races' = races \cup (IF ~Answered /\ ~NothingUnderWay THEN {"late"} ELSE {})
                      \cup (IF Answered /\ cb # "idle" THEN {"early"} ELSE {})
    /\ pc' = "judge"
    /\ UNCHANGED <<job, retry, fall, flags, cb, frame, stream, received, ok, accepted,
                   executed>>

\* The test after the poll: a packet with the command of the frame, whatever
\* its etx.
Matches == get_packet /\ packet.cmd = job.cmd

\* bao_poll goes on; center_process breaks out of its switch, or, in the
\* case of 48H, goes on with change_password and a second reply.
AfterWait ==
    /\ fall' = FALSE
    /\ pc' = IF ~job.reply THEN "report" ELSE IF fall THEN "reply" ELSE "clear"

\* wait() returns 0.
WaitOk ==
    /\ pc = "judge" /\ Matches
    /\ ok' = IF job.reply THEN ok ELSE ok \cup {job.id}
    /\ AfterWait
    /\ UNCHANGED <<job, retry, flags, cb, frame, stream, received, accepted, executed,
                   races>>

\* Fault: the number of tries is not bounded.
WaitAgainAlways ==
    /\ pc = "judge" /\ ~Matches
    /\ pc' = "send"
    /\ UNCHANGED <<job, retry, fall, flags, cb, frame, stream, ghosts>>

WaitAgain ==
    /\ pc = "judge" /\ ~Matches /\ retry > 0
    /\ pc' = "send"
    /\ UNCHANGED <<job, retry, fall, flags, cb, frame, stream, ghosts>>

\* wait() returns -1.
WaitFail ==
    /\ pc = "judge" /\ ~Matches /\ retry <= 0
    /\ AfterWait
    /\ UNCHANGED <<job, retry, flags, cb, frame, stream, ghosts>>

-----------------------------------------------------------------------------
(* The up thread: commands of the centre.                                   *)

\* The reports of this round are done; thread_up_poll looks at packet_flag.
CheckFlag ==
    /\ pc = "report"
    /\ pc' = IF packet_flag THEN "center" ELSE "report"
    /\ UNCHANGED <<job, retry, fall, flags, cb, frame, stream, ghosts>>

\* center_process: a packet for another station, with another password, or
\* with a command it does not know is ignored.
Ignored == ~packet.ours \/ packet.cmd \notin CenterCmd
Ignore ==
    /\ pc = "center" /\ Ignored
    /\ pc' = "clear"
    /\ UNCHANGED <<job, retry, fall, flags, cb, frame, stream, ghosts>>

More(n) == IF n < 2 THEN n + 1 ELSE n

\* center_process: the command runs.
Execute ==
    /\ pc = "center" /\ ~Ignored
    /\ executed' = [executed EXCEPT ![packet.id] = More(@)]
    /\ job' = [cmd |-> packet.cmd, id |-> packet.id, reply |-> TRUE]
    /\ fall' = (packet.cmd \in Factory)
    /\ pc' = "reply"
    /\ UNCHANGED <<retry, flags, cb, frame, stream, received, ok, accepted, races>>

\* init(M4, ..., packet->cmd, ...) reads the command from the packet again.
StartReply ==
    /\ pc = "reply"
    /\ job' = [job EXCEPT !.cmd = packet.cmd]
    /\ retry' = Retries /\ pc' = "send"
    /\ UNCHANGED <<fall, flags, cb, frame, stream, ghosts>>

\* The handler returned no reply, as it does for a request it cannot parse:
\* wait() returns 0 at once.
NoReply ==
    /\ pc = "reply"
    /\ AfterWait
    /\ UNCHANGED <<job, retry, flags, cb, frame, stream, ghosts>>

\* Fault: thread_up_poll does not clear the flag.
KeepFlag ==
    /\ pc = "clear"
    /\ pc' = "report"
    /\ UNCHANGED <<job, retry, fall, flags, cb, frame, stream, ghosts>>

ClearFlag ==
    /\ pc = "clear"
    /\ packet_flag' = FALSE
    /\ pc' = "report"
    /\ UNCHANGED <<job, retry, fall, get_packet, packet, cb, frame, stream, ghosts>>

-----------------------------------------------------------------------------
(* The packet thread: up_packet_process and down_packet_process.            *)

\* upacket_decode delivers a packet; get_packet is set first.
GetPacket ==
    /\ cb = "idle" /\ down # <<>>
    /\ frame' = Head(down) /\ down' = Tail(down)
    /\ get_packet' = TRUE
    /\ cb' = "got"
    /\ UNCHANGED <<upVars, packet, packet_flag, up, reports, commands, ghosts>>

CopyPacket ==
    /\ cb = "got"
    /\ packet' = frame
    /\ accepted' = IF frame.etx = "ENQ" /\ frame.ours
                   THEN accepted \cup {frame.id} ELSE accepted
    /\ cb' = "copied"
    /\ UNCHANGED <<upVars, get_packet, packet_flag, frame, stream, received, ok, executed,
                   races>>

\* Fault: down_packet_process leaves the packet to wait().
NoCenter ==
    /\ cb = "copied"
    /\ cb' = "idle"
    /\ UNCHANGED <<upVars, flags, frame, stream, ghosts>>

\* down_packet_process; the etx it also stores is read by communication_state
\* (module TcpClient).
Center ==
    /\ cb = "copied"
    /\ packet_flag' = TRUE
    /\ cb' = "idle"
    /\ UNCHANGED <<upVars, get_packet, packet, frame, stream, ghosts>>

-----------------------------------------------------------------------------
(* The centre and the stream.                                               *)

Reply(f, e) == [cmd |-> f.cmd, etx |-> e, id |-> f.id, ours |-> TRUE]

\* The centre takes a frame and confirms it, or does not.  A NAK says that it
\* did not get it and wants it again.
CentreTakes ==
    /\ up # <<>> /\ up' = Tail(up)
    /\ \E e \in Answers \cup {"none"} :
          /\ e # "none" => Len(down) < MaxFlight
          /\ down' = IF e = "none" THEN down ELSE Append(down, Reply(Head(up), e))
          /\ received' = IF Head(up).reply \/ e = "NAK" THEN received
                         ELSE received \cup {Head(up).id}
    /\ UNCHANGED <<upVars, flags, cb, frame, reports, commands, ok, accepted, executed,
                   races>>

CentreCommand(c, o) ==
    /\ commands < MaxCommands /\ Len(down) < MaxFlight
    /\ races' = IF Quiet THEN races ELSE races \cup {"overlap"}
    /\ commands' = commands + 1
    /\ down' = Append(down, [cmd |-> c, etx |-> "ENQ", id |-> reports + commands', ours |-> o])
    /\ UNCHANGED <<upVars, flags, cb, frame, up, reports, received, ok, accepted, executed>>

\* A connection that breaks, or two frames in one recv(): frames are lost.
LoseUp ==
    /\ up # <<>> /\ up' = Tail(up)
    /\ UNCHANGED <<upVars, flags, cb, frame, down, reports, commands, ghosts>>
LoseDown ==
    /\ down # <<>> /\ down' = Tail(down)
    /\ UNCHANGED <<upVars, flags, cb, frame, up, reports, commands, ghosts>>

-----------------------------------------------------------------------------
NoFrame == [cmd |-> NoCmd, etx |-> "NULL", id |-> 0, ours |-> FALSE]

Init ==
    /\ pc = "report" /\ job = [cmd |-> NoCmd, id |-> 0, reply |-> FALSE] /\ retry = 0
    /\ fall = FALSE
    /\ get_packet = FALSE /\ packet = NoFrame /\ packet_flag = FALSE
    /\ cb = "idle" /\ frame = NoFrame
    /\ up = <<>> /\ down = <<>> /\ reports = 0 /\ commands = 0
    /\ received = {} /\ ok = {} /\ accepted = {} /\ executed = [n \in Id |-> 0]
    /\ races = {}

Wait == Send \/ EndPoll \/ WaitOk \/ WaitAgain \/ WaitFail
CenterProcess == CheckFlag \/ Ignore \/ Execute \/ StartReply \/ NoReply \/ ClearFlag
PacketThread == GetPacket \/ CopyPacket \/ Center
Environment ==
    \/ CentreTakes \/ LoseUp \/ LoseDown
    \/ \E c \in CenterCmd, o \in BOOLEAN : CentreCommand(c, o)

Next ==
    \/ \E c \in ReportCmd : StartReport(c)
    \/ Wait \/ CenterProcess \/ PacketThread \/ Environment

Spec == Init /\ [][Next]_vars

\* Both threads keep running; the poll of wait() ends by its timeout.
FairSpec == Spec /\ WF_vars(Wait) /\ WF_vars(CenterProcess) /\ WF_vars(PacketThread)

-----------------------------------------------------------------------------
(* Properties.                                                              *)

\* The types of the state of the two threads and of the stream.
TypeOK ==
    /\ pc \in {"report", "send", "polling", "judge", "center", "reply", "clear"}
    /\ job \in Up /\ retry \in 0..Retries /\ fall \in BOOLEAN
    /\ get_packet \in BOOLEAN /\ packet \in Down /\ packet_flag \in BOOLEAN
    /\ cb \in {"idle", "got", "copied"} /\ frame \in Down
    /\ up \in Seq(Up) /\ down \in Seq(Down)
    /\ reports \in 0..MaxReports /\ commands \in 0..MaxCommands
    /\ received \subseteq Id /\ ok \subseteq Id /\ accepted \subseteq Id
    /\ executed \in [Id -> 0..2] /\ races \subseteq Race

\* wait() returns 0 for a report only when the centre has accepted that very
\* report: bao_poll calls report_ok and forgets the record.  It holds as long as
\* no answer comes after its poll has ended and no command of the centre comes
\* in between: wait() looks at get_packet and at the command of the packet only.
AckMeansReceived == races \cap {"late", "overlap"} = {} => ok \subseteq received

\* A command runs once, and what confirms a reply is not taken for the command
\* itself, as long as the two threads and the centre take turns.
CommandOnce == races = {} => \A n \in Id : executed[n] <= 1

\* The inductive invariant behind the two.  A try is left, and the ids under way
\* are those of reports and commands that exist.
Numbered(f) == f.id <= reports + commands
Bounds ==
    /\ pc = "send" => retry > 0
    /\ Numbered(job) /\ Numbered(packet) /\ Numbered(frame)
    /\ \A k \in 1..Len(up) : Numbered(up[k])
    /\ \A k \in 1..Len(down) : Numbered(down[k])
    /\ \A n \in Id : n > reports + commands => executed[n] = 0

\* While no answer is late and no command overlaps, at most one frame is under
\* way: the one wait() polls for, its answer, or a command between two rounds.
Calm == races \cap {"late", "overlap"} = {}
Turns ==
    /\ up # <<>> => pc = "polling" /\ ~get_packet /\ up = <<job>> /\ down = <<>>
    /\ down # <<>> =>
          /\ Len(down) = 1
          /\ \/ pc = "polling" /\ ~get_packet
             \/ pc = "report" /\ cb = "idle" /\ ~packet_flag /\ commands > 0

\* An answer that wait() polls for, or has found, means that the centre has the
\* report.
Taken == ~job.reply => job.id \in received
Confirmed ==
    /\ pc = "polling" /\ down # <<>> => Taken
    /\ pc \in {"polling", "judge"} /\ get_packet => Taken
    /\ ok \subseteq received

\* When the packet thread is never overtaken either, a packet that
\* center_process may still meet is no command that has run.
InWait == pc \in {"send", "polling", "judge"}
Fresh(f) == f.ours /\ f.cmd \in CenterCmd => executed[f.id] = 0
Orderly ==
    /\ cb # "idle" => \/ pc = "polling" /\ get_packet
                      \/ pc = "report" /\ ~packet_flag /\ down = <<>> /\ commands > 0
    /\ (pc = "center" => packet_flag) /\ (pc = "reply" => job.reply)
    /\ InWait /\ ~job.reply => job.cmd \in ReportCmd
    /\ pc = "polling" /\ down # <<>> => Head(down).cmd = job.cmd
    /\ pc \in {"report", "center"} \/ (InWait /\ ~job.reply) =>
          /\ down # <<>> => Fresh(Head(down))
          /\ cb = "got" => Fresh(frame)
          /\ cb = "copied" \/ packet_flag => Fresh(packet)
    /\ \A n \in Id : executed[n] <= 1

WaitInv == Bounds /\ (Calm => Turns) /\ (races = {} => Orderly)
ConfirmInv == Calm => Confirmed

\* A command that reached the station is carried out, unless a race overwrites
\* the one packet or clears the flag.
CommandDone ==
    []<>(races # {} \/ \A n \in accepted : executed[n] > 0)

\* wait() returns, whatever arrives meanwhile, and the up thread gets back to
\* its reports.
WaitReturns == (pc = "send") ~> (pc = "report")
=============================================================================
