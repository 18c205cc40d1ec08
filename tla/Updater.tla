------------------------------ MODULE Updater ------------------------------
(***************************************************************************)
(* The upgrade daemon (daemon/updata.cpp, run by the loop of daemon.cpp):   *)
(* every few polls it connects to the ftp server (daemon/ftpclient.cpp),    *)
(* takes the first package of the listing for the version on offer,         *)
(* compares it with what "app-cjq --version" prints, downloads it, stops    *)
(* the app and installs it with dpkg.  Every network call and every shell   *)
(* command may fail, and most early returns leave descriptors open.         *)
(*                                                                         *)
(* A version is its three numbers and the time of its build, the one number *)
(* that is_version_bigger makes of date, hour, minute and second.  Output   *)
(* that is no version parses as 0.0.0 built at 0.  What dpkg and the server *)
(* do is external.                                                          *)
(*                                                                         *)
(* The daemon looks for a name that ends in deb, and asks for the same name *)
(* with .tar in its place: an upgrade needs a server on which the package   *)
(* lies under both.  And both what follows the version in debversion and    *)
(* how many replies have been read when the file is asked for are left to   *)
(* chance.                                                                  *)
(***************************************************************************)
EXTENDS Integers

CONSTANTS
    Versions,   \* the versions on offer over time
    First,      \* the version the station was delivered with
    Interval,   \* ftp.interval, in polls
    MaxFds,     \* the descriptors the daemon may have open
    MaxOffers,  \* bound: changes of what is on offer
    MaxFaults,  \* bound: failing calls
    MaxLosses,  \* bound: power losses
    MaxSwitch   \* bound: changes of ftp.enable

Tars == {"none", "archive", "package"}
Version == [major : Nat, minor : Nat, mminor : Nat, built : Nat]
NoVersion == [major |-> 0, minor |-> 0, mminor |-> 0, built |-> 0]

ASSUME VersionAssumption == Versions \subseteq Version /\ First \in Version
ASSUME BoundAssumption ==
    /\ Interval \in Nat \ {0} /\ MaxFds \in Nat \ {0} /\ MaxOffers \in Nat
    /\ MaxFaults \in Nat /\ MaxLosses \in Nat /\ MaxSwitch \in Nat

VARIABLES
    enable,     \* ftp.enable in the setting file
    t,          \* the static t of updata_poll, capped at Interval
    pc,         \* where updata_poll stands; "sleep" in the main loop
    fds,        \* descriptors that are open
    debversion, \* the version in the name that the listing gave ...
    tail,       \* ... and what follows it in debversion: its "end", "text" or "digits"
    unread,     \* the server's second reply to LIST has not been read
    whole,      \* the downloaded file is a whole package
    again,      \* install_app still has a second try
    disk,       \* the installed version
    app,        \* the app is running
    offer,      \* the first package of the listing
    tar,        \* what the server has as the .tar of a version: nothing, "none", an
                \* "archive", or the "package" itself
    offers, faults, losses, switches,
    tries       \* ghost: rounds that got as far as the download

found == <<debversion, tail, unread>>
local == <<found, whole, again>>
server == <<offer, tar>>
bounds == <<offers, faults, losses, switches>>
vars == <<enable, t, pc, fds, local, disk, app, server, bounds, tries>>

Fail == faults < MaxFaults /\ faults' = faults + 1
NoFail == UNCHANGED faults
Rest == UNCHANGED <<enable, server, offers, losses, switches>>

-----------------------------------------------------------------------------
(* is_version_bigger.                                                       *)

\* Fault: only the time of the build is compared.
ByBuildOnly(current, ftp) ==
    IF current.built > ftp.built THEN -1 ELSE IF current.built = ftp.built THEN 0 ELSE 1

\* C's x | y as Or[y][x], bit by bit from the lowest: g is what the bits of y
\* above it do.
OrBit(y, g) ==
    [x \in Nat |-> 2 * g[x \div 2] + (IF x % 2 = 1 \/ y % 2 = 1 THEN 1 ELSE 0)]
Or[y \in Nat] == IF y = 0 THEN [x \in Nat |-> x] ELSE OrBit(y, Or[y \div 2])

\* The three numbers are or-ed together, three bits apart.
Pack(v) == Or[v.mminor][8 * Or[v.minor][8 * v.major]]
is_version_bigger(current, ftp) ==
    LET h == Pack(current)
        fh == Pack(ftp)
    IN  IF h > fh \/ (h = fh /\ current.built > ftp.built) THEN -1
        ELSE IF h = fh /\ current.built = ftp.built THEN 0 ELSE 1

-----------------------------------------------------------------------------
(* updata_poll.                                                             *)

\* Its variables end with it.
Leave ==
    /\ debversion' = NoVersion /\ tail' = "end" /\ unread' = FALSE
    /\ whole' = FALSE /\ again' = FALSE

Count == IF t < Interval THEN t + 1 ELSE t


\* sleep(5), and the first lines of updata_poll: t counts, even while the
\* upgrade is switched off.
Poll ==
    /\ pc = "sleep"
    /\ t' = IF enable /\ Count >= Interval THEN 0 ELSE Count
    /\ pc' = IF enable /\ Count >= Interval THEN "connect" ELSE "sleep"
    /\ UNCHANGED <<fds, local, disk, app, tries>> /\ NoFail /\ Rest

Exhausted == fds >= MaxFds

\* Fault: the result of ftp_connect is not tested.
ConnectUnchecked ==
    /\ pc = "connect"
    /\ fds' = fds + 1 /\ pc' = "list"
    /\ UNCHANGED <<t, local, disk, app, tries>> /\ NoFail /\ Rest

\* ftp_connect: connection, greeting, login.
Connect ==
    /\ pc = "connect" /\ ~Exhausted
    /\ fds' = fds + 1 /\ pc' = "list"
    /\ UNCHANGED <<t, local, disk, app, tries>> /\ NoFail /\ Rest

\* No socket; or the server cannot be reached, and the socket stays open; or
\* it refuses the login.
ConnectFails ==
    /\ pc = "connect"
    /\ \/ Exhausted /\ UNCHANGED fds /\ NoFail
       \/ ~Exhausted /\ fds' \in {fds, fds + 1} /\ Fail
    /\ pc' = "sleep"
    /\ UNCHANGED <<t, local, disk, app, tries>> /\ Rest

\* ftp_list over a data connection of its own, and the first match in it.  It reads
\* the reply to LIST, and the one that ends the transfer only if both come at once.
\* The version is copied without a '\0', which is written twelve bytes further on:
\* what is between them is what the stack held.
List ==
    /\ pc = "list" /\ ~Exhausted
    /\ debversion' = offer /\ tail' \in {"end", "text", "digits"} /\ unread' \in BOOLEAN
    /\ pc' = "current"
    /\ UNCHANGED <<t, fds, whole, again, disk, app, tries>> /\ NoFail /\ Rest

\* No data connection, LIST refused, no answer, or no package in the list:
\* updata_poll returns without ftp_quit, and the data socket may stay open.
ListFails ==
    /\ pc = "list"
    /\ \/ Exhausted /\ UNCHANGED fds /\ NoFail
       \/ ~Exhausted /\ fds' \in {fds, fds + 1} /\ Fail
    /\ pc' = "sleep"
    /\ UNCHANGED <<t, local, disk, app, tries>> /\ Rest

\* What sscanf makes of debversion: digits behind it are more seconds.
Parsed == IF tail = "digits" THEN [debversion EXCEPT !.built = @ + 1] ELSE debversion

\* get_current_app_version prints what is installed, and the switch on the comparison.
Current ==
    /\ pc = "current"
    /\ IF is_version_bigger(disk, Parsed) = 1
       THEN pc' = "download" /\ tries' = tries + 1
       ELSE pc' = "quit" /\ UNCHANGED tries
    /\ UNCHANGED <<t, fds, found, whole, again, disk, app>> /\ NoFail /\ Rest

\* The shell command cannot be run: no ftp_quit either.
CurrentFails ==
    /\ pc = "current" /\ Fail
    /\ pc' = "sleep" /\ Leave
    /\ UNCHANGED <<t, fds, disk, app, tries>> /\ Rest

\* What ftp_retrfile may succeed in: PASV is answered with an address, unless a reply
\* is left over, for then the one to TYPE is read instead; and the name, with .tar
\* for .deb, is that of a file.
Fetchable == ~unread /\ tail = "end" /\ debversion \in Versions /\ tar[debversion] # "none"

\* It returns 0.  A transfer that breaks together with the control connection
\* counts as one: the reply read after it is the one to RETR.
Download ==
    /\ pc = "download" /\ ~Exhausted /\ Fetchable
    /\ \/ whole' = (tar[debversion] = "package") /\ NoFail
       \/ whole' = FALSE /\ Fail
    /\ pc' = "shutdown"
    /\ UNCHANGED <<t, fds, found, again, disk, app, tries>> /\ Rest

\* No address, or no such file: on to ftp_quit, with the data socket left open.
Refused ==
    /\ pc = "download" /\ ~Exhausted /\ ~Fetchable
    /\ fds' = fds + 1 /\ pc' = "quit"
    /\ UNCHANGED <<t, local, disk, app, tries>> /\ NoFail /\ Rest

\* No local file, no data connection, or no answer: the data socket may be left.
DownloadFails ==
    /\ pc = "download"
    /\ \/ Exhausted /\ UNCHANGED fds /\ NoFail
       \/ ~Exhausted /\ fds' \in {fds, fds + 1} /\ Fail
    /\ pc' = "quit"
    /\ UNCHANGED <<t, local, disk, app, tries>> /\ Rest

\* shutdown_app, once or twice: SIGUSR1, then kill.
Shutdown ==
    /\ pc = "shutdown"
    /\ app' = FALSE /\ again' = TRUE
    /\ pc' = "install"
    /\ UNCHANGED <<t, fds, found, whole, disk, tries>> /\ NoFail /\ Rest

\* install_app: dpkg -i, then the version of what is installed.  dpkg takes a
\* whole package, whatever its name, unless it fails or is cut off by the timeout of
\* system_ex; it takes no archive.
\* Right or wrong, updata_poll returns without ftp_quit.
Install ==
    /\ pc = "install"
    /\ \/ whole /\ disk' = debversion /\ NoFail
       \/ ~whole /\ UNCHANGED disk /\ NoFail
       \/ whole /\ UNCHANGED disk /\ Fail
    /\ IF is_version_bigger(Parsed, disk') # 0 /\ again
       THEN again' = FALSE /\ pc' = "install" /\ UNCHANGED <<found, whole>>
       ELSE pc' = "sleep" /\ Leave
    /\ UNCHANGED <<t, fds, app, tries>> /\ Rest

\* Fault: the connection is not closed.
QuitKeeps ==
    /\ pc = "quit"
    /\ pc' = "sleep" /\ Leave
    /\ UNCHANGED <<t, fds, disk, app, tries>> /\ NoFail /\ Rest

\* ftp_quit.
Quit ==
    /\ pc = "quit"
    /\ fds' = fds - 1 /\ pc' = "sleep" /\ Leave
    /\ UNCHANGED <<t, disk, app, tries>> /\ NoFail /\ Rest

-----------------------------------------------------------------------------
(* systemd, the power, and the people who upload packages.                  *)

\* Restart=always.
Systemd ==
    /\ ~app /\ app' = TRUE
    /\ UNCHANGED <<enable, t, pc, fds, local, disk, server, bounds, tries>>

\* What is written when the power fails in the middle of dpkg may be lost.
PowerLoss ==
    /\ losses < MaxLosses /\ losses' = losses + 1
    /\ disk' \in IF pc = "install" /\ whole THEN {disk, debversion, NoVersion} ELSE {disk}
    /\ t' = 0 /\ pc' = "sleep" /\ fds' = 0 /\ app' = FALSE
    /\ tries' = 0 /\ Leave
    /\ UNCHANGED <<enable, server, offers, faults, switches>>

Upload(v, what) ==
    /\ offers < MaxOffers /\ offers' = offers + 1
    /\ offer' = v /\ tar' = [tar EXCEPT ![v] = what]
    /\ UNCHANGED <<enable, t, pc, fds, local, disk, app, faults, losses, switches, tries>>

Switch ==
    /\ switches < MaxSwitch /\ switches' = switches + 1
    /\ enable' = ~enable
    /\ UNCHANGED <<t, pc, fds, local, disk, app, server, offers, faults, losses, tries>>

-----------------------------------------------------------------------------
Init ==
    /\ enable = TRUE /\ t = 0 /\ pc = "sleep" /\ fds = 0
    /\ debversion = NoVersion /\ tail = "end" /\ unread = FALSE
    /\ whole = FALSE /\ again = FALSE
    /\ disk = First /\ app = TRUE /\ offer \in Versions
    /\ \E what \in Tars : tar = [v \in Versions |-> IF v = offer THEN what ELSE "none"]
    /\ offers = 0 /\ faults = 0 /\ losses = 0 /\ switches = 0 /\ tries = 0

Daemon ==
    \/ Poll \/ Connect \/ ConnectFails \/ List \/ ListFails \/ Current \/ CurrentFails
    \/ Download \/ Refused \/ DownloadFails \/ Shutdown \/ Install \/ Quit

Next ==
    \/ Daemon \/ Systemd \/ PowerLoss \/ Switch
    \/ \E v \in Versions, what \in Tars : Upload(v, what)

Spec == Init /\ [][Next]_vars

\* The daemon and systemd keep running.
FairSpec == Spec /\ WF_vars(Daemon) /\ WF_vars(Systemd)

-----------------------------------------------------------------------------
(* Properties.                                                              *)

\* The types of the state of the daemon and of the station.
TypeOK ==
    /\ enable \in BOOLEAN /\ t \in 0..Interval
    /\ pc \in {"sleep", "connect", "list", "current", "download", "shutdown", "install",
               "quit"}
    /\ fds \in 0..MaxFds /\ whole \in BOOLEAN /\ again \in BOOLEAN
    /\ {debversion, disk} \subseteq Versions \cup {First, NoVersion}
    /\ tail \in {"end", "text", "digits"} /\ unread \in BOOLEAN
    /\ app \in BOOLEAN /\ offer \in Versions /\ tar \in [Versions -> Tars]
    /\ offers \in 0..MaxOffers /\ faults \in 0..MaxFaults /\ losses \in 0..MaxLosses
    /\ switches \in 0..MaxSwitch /\ tries \in Nat

\* The order of versions: by the three numbers, then by the time of the build.
Newer(v, w) ==
    \/ v.major > w.major
    \/ v.major = w.major /\ v.minor > w.minor
    \/ v.major = w.major /\ v.minor = w.minor /\ v.mminor > w.mminor
    \/ v.major = w.major /\ v.minor = w.minor /\ v.mminor = w.mminor /\ v.built > w.built

\* The numbers that three bits can hold.
Fits(v) == v.minor < 8 /\ v.mminor < 8

\* The daemon never goes back to an older version, an older branch that was
\* built later included; only a power loss in dpkg can leave none.  It holds for
\* versions whose numbers fit into the three bits that is_version_bigger has for
\* them: V1.1.09 compares as older than V1.1.05.
NoDowngrade ==
    [][\/ disk' = disk \/ Newer(disk', disk)
       \/ disk' = NoVersion /\ losses' > losses
       \/ ~Fits(disk) \/ ~Fits(disk')]_vars

\* There is nothing to install, or nothing that could be.
UpToDate ==
    ~Newer(offer, disk) \/ ~enable \/ Exhausted \/ ~Fits(offer) \/ ~Fits(disk)


\* A round that finds nothing newer leaves nothing open: what is open in the
\* main loop was left by a call that failed, two for each at most, or by a round
\* that went on to the download, one for each, as long as the daemon has not run
\* out of them.
LeaksCounted == pc = "sleep" => Exhausted \/ fds <= 2 * faults + tries

\* What it takes to hold in every step: inside a round the control connection is
\* one more, and from the download on it is what the round may leave.
Connected == {"list", "current", "download", "shutdown", "install", "quit"}
LeakInv ==
    /\ pc \in Connected => fds >= 1
    /\ pc \in {"sleep", "connect"} => Exhausted \/ fds <= 2 * faults + tries
    /\ pc \in {"list", "current", "quit"} => fds <= 2 * faults + tries + 1
    /\ pc \in {"download", "shutdown", "install"} => fds <= 2 * faults + tries

\* From the comparison to the last dpkg the version in debversion is the bigger one,
\* and it is that of the package once there is a package.
UpgradeInv ==
    /\ pc \in {"download", "shutdown", "install"} => is_version_bigger(disk, Parsed) = 1
    /\ pc \in {"shutdown", "install"} => tail = "end"
=============================================================================
