------------------------------ MODULE Settings ------------------------------
(***************************************************************************)
(* The settings of the station: the tables param and runtime that the       *)
(* commands of the centre change, the object rtu they are copied to         *)
(* (param_save, runtime_save), and the file rtu_setting.json.  The up       *)
(* thread runs the commands and marks rtu dirty; the data thread writes a   *)
(* dirty rtu to the file (data_save_if_need).  The factory reset writes the *)
(* file from the up thread.  At every start the file is read twice: by main *)
(* and, when the other threads already run, by the data thread.             *)
(*                                                                         *)
(* A numeral in a settings object stands for the number that its digits     *)
(* denote in base 16, which is how param_recovery reads it.                 *)
(***************************************************************************)
EXTENDS Integers

CONSTANTS
    Num,         \* station numbers and passwords the centre sets
    Key,         \* the runtime parameters
    Val,         \* their values
    Default,     \* the file default_rtu_setting.json
    Installed,   \* the file rtu_setting.json at the first start
    MaxCmds,     \* bound: commands of the centre
    MaxLosses,   \* bound: power losses
    NoVal,       \* DATA_INVALID_VALUE, and a key the file does not have
    Torn         \* a file that json cannot parse

Setting == [terminalNo : Nat, passwd : Nat, normal : BOOLEAN,
            runtime : [Key -> Val \cup {NoVal}]]

ASSUME SettingAssumption ==
    /\ Num \subseteq Nat /\ Default \in Setting /\ Installed \in Setting
    /\ NoVal \notin Val /\ Torn \notin Setting
ASSUME SettingBounds == MaxCmds \in Nat /\ MaxLosses \in Nat

VARIABLES
    rtu, dirty,
    param,          \* [no, pw, mode]: 02H, 03H and 0CH
    runtime,
    file,
    dpc, snap,      \* the data thread, and the json it is about to write
    upc, usnap,     \* the up thread, and the json of its factory reset
    yanshichongqi,
    alive,          \* FALSE: load() has thrown, and will at every start
    cmds, losses,
    set,            \* ghost: the numbers and passwords the centre has set
    overlapped,     \* ghost: rtu was changed while the data thread was busy
    cut             \* ghost: the process ended while the file was torn

threads == <<dpc, snap, upc, usnap, yanshichongqi>>
memory == <<rtu, dirty, param, runtime>>
ghosts == <<set, overlapped, cut>>
vars == <<memory, file, threads, alive, cmds, losses, ghosts>>

-----------------------------------------------------------------------------
\* std::to_string writes the digits of base 10, strtoull reads base 16.
Decimal[n \in Nat] == IF n < 10 THEN n ELSE 16 * Decimal[n \div 10] + (n % 10)

\* tostring16 writes the digits of base 16.
Hexadecimal(n) == n

\* param_recovery and runtime_recovery, over what the tables hold already.
Recovered(p, f) == [no |-> f.terminalNo, pw |-> f.passwd,
                    mode |-> IF f.normal THEN 2 ELSE p.mode]
RecoveredRuntime(r, f) ==
    [k \in Key |-> IF f.runtime[k] # NoVal THEN f.runtime[k] ELSE r[k]]

\* rtu.load() and the recovery; dirty is not in the file, and what the new
\* object holds there is not initialised.
Load(p, r) ==
    IF file = Torn
    THEN /\ alive' = FALSE
         /\ UNCHANGED <<rtu, dirty, param, runtime>>
    ELSE /\ alive' = alive
         /\ rtu' = file /\ dirty' \in BOOLEAN
         /\ param' = Recovered(p, file)
         /\ runtime' = RecoveredRuntime(r, file)

\* Fault: the password is written in decimal, as the station number is.
param_saveDecimal(r, p) ==
    [r EXCEPT !.terminalNo = IF @ = p.no THEN @ ELSE Decimal[p.no],
              !.passwd = IF @ = p.pw THEN @ ELSE Decimal[p.pw],
              !.normal = @ \/ p.mode = 2]

\* param_save: what the table p makes of rtu.
param_save(r, p) ==
    [r EXCEPT !.terminalNo = IF @ = p.no THEN @ ELSE Decimal[p.no],
              !.passwd = IF @ = p.pw THEN @ ELSE Hexadecimal(p.pw),
              !.normal = @ \/ p.mode = 2]

\* Fault: only the parameters that the table sets are kept.
runtime_saveOnly(r, rt) ==
    [r EXCEPT !.runtime = [k \in {j \in Key : rt[j] # NoVal} |-> rt[k]]]

\* runtime_save: an invalid value leaves what rtu has.
runtime_save(r, rt) ==
    [r EXCEPT !.runtime = [k \in Key |-> IF rt[k] = NoVal THEN @[k] ELSE rt[k]]]

\* ofstream: the file is truncated, then written from its start.  Another
\* writer's longer text leaves its tail.
Written(c) == IF file \in {Torn, c} THEN {c} ELSE {c, Torn}

-----------------------------------------------------------------------------
(* The up thread.                                                           *)

\* The data thread is reading or saving rtu, or about to end the process.
Busy == dpc # "check" \/ yanshichongqi

\* center_process lets a command through: the centre knows the number and the
\* password that are in force.
Accepts ==
    /\ alive /\ upc = "idle" /\ cmds < MaxCmds
    /\ param.no \in set.no /\ param.pw \in set.pw
    /\ cmds' = cmds + 1

\* 40H, set_param; a frame that is cut short is applied up to its bad element
\* and not saved.
SetParam(p) ==
    /\ Accepts
    /\ param' = p
    /\ set' = [no |-> set.no \cup {p.no}, pw |-> set.pw \cup {p.pw}]
    /\ upc' \in {"param_save", "idle"}
    /\ UNCHANGED <<rtu, dirty, runtime, file, dpc, snap, usnap, yanshichongqi, alive,
                   losses, overlapped, cut>>

\* 49H, change_password; a wrong old password changes nothing.
change_password(n) ==
    /\ Accepts
    /\ param' = [param EXCEPT !.pw = n]
    /\ set' = [set EXCEPT !.pw = @ \cup {n}]
    /\ upc' = "param_save"
    /\ UNCHANGED <<rtu, dirty, runtime, file, dpc, snap, usnap, yanshichongqi, alive,
                   losses, overlapped, cut>>

\* The numerals that differ mark rtu dirty; the mode does not.
ParamSave ==
    /\ alive /\ upc = "param_save"
    /\ rtu' = param_save(rtu, param)
    /\ dirty' = (dirty \/ rtu.terminalNo # param.no \/ rtu.passwd # param.pw)
    /\ overlapped' = (overlapped \/ Busy)
    /\ upc' = "idle"
    /\ UNCHANGED <<param, runtime, file, dpc, snap, usnap, yanshichongqi, alive, cmds,
                   losses, set, cut>>

\* 42H, set_runtime.
SetRuntime(k, v) ==
    /\ Accepts
    /\ runtime' = [runtime EXCEPT ![k] = v]
    /\ upc' \in {"runtime_save", "idle"}
    /\ UNCHANGED <<rtu, dirty, param, file, dpc, snap, usnap, yanshichongqi, alive,
                   losses, ghosts>>

\* Fault: the change is not marked.
RuntimeSaveUnmarked ==
    /\ alive /\ upc = "runtime_save"
    /\ rtu' = runtime_save(rtu, runtime)
    /\ overlapped' = (overlapped \/ Busy)
    /\ upc' = "idle"
    /\ UNCHANGED <<dirty, param, runtime, file, dpc, snap, usnap, yanshichongqi, alive,
                   cmds, losses, set, cut>>

RuntimeSave ==
    /\ alive /\ upc = "runtime_save"
    /\ rtu' = runtime_save(rtu, runtime)
    /\ dirty' = (dirty \/ rtu' # rtu)
    /\ overlapped' = (overlapped \/ Busy)
    /\ upc' = "idle"
    /\ UNCHANGED <<param, runtime, file, dpc, snap, usnap, yanshichongqi, alive, cmds,
                   losses, set, cut>>

\* Fault: the restart is asked for before the file is written.
reset_to_factoryEarly ==
    /\ Accepts
    /\ param' = Recovered(param, Default)
    /\ runtime' = RecoveredRuntime(runtime, Default)
    /\ rtu' = runtime_save(param_save(Default, param'), runtime') /\ usnap' = rtu'
    /\ dirty' = TRUE /\ overlapped' = (overlapped \/ Busy)
    /\ yanshichongqi' = TRUE
    /\ upc' = "fopen"
    /\ UNCHANGED <<file, dpc, snap, alive, losses, set, cut>>

\* 48H, data_set_factory: rtu.load(default), the recovery, dirty, param_save,
\* runtime_save, and rtu.save() begins.  A frame of 48H has no password for
\* the change_password that follows it.
reset_to_factory ==
    /\ Accepts
    /\ param' = Recovered(param, Default)
    /\ runtime' = RecoveredRuntime(runtime, Default)
    /\ rtu' = runtime_save(param_save(Default, param'), runtime') /\ usnap' = rtu'
    /\ dirty' = TRUE /\ overlapped' = (overlapped \/ Busy)
    /\ upc' = "fopen"
    /\ UNCHANGED <<file, dpc, snap, yanshichongqi, alive, losses, set, cut>>

FactoryOpen ==
    /\ alive /\ upc = "fopen"
    /\ file' = Torn
    /\ upc' = "fwrite"
    /\ UNCHANGED <<memory, dpc, snap, usnap, yanshichongqi, alive, cmds, losses, ghosts>>

FactoryWrite ==
    /\ alive /\ upc = "fwrite"
    /\ file' \in Written(usnap)
    /\ yanshichongqi' = TRUE
    /\ upc' = "idle"
    /\ UNCHANGED <<memory, dpc, snap, usnap, alive, cmds, losses, ghosts>>

-----------------------------------------------------------------------------
(* The data thread.                                                         *)

\* The second startup_recovery.
DataStart ==
    /\ alive /\ dpc = "start"
    /\ Load(param, runtime)
    /\ dpc' = "check"
    /\ UNCHANGED <<file, snap, upc, usnap, yanshichongqi, cmds, losses, ghosts>>

\* data_save_if_need: rtu is turned to json ...
DataCheck ==
    /\ alive /\ dpc = "check" /\ dirty
    /\ snap' = rtu
    /\ dpc' = "open"
    /\ UNCHANGED <<memory, file, upc, usnap, yanshichongqi, alive, cmds, losses, ghosts>>

\* ... the file is opened ...
DataOpen ==
    /\ alive /\ dpc = "open"
    /\ file' = Torn
    /\ dpc' = "write"
    /\ UNCHANGED <<memory, snap, upc, usnap, yanshichongqi, alive, cmds, losses, ghosts>>

\* ... and written ...
DataWrite ==
    /\ alive /\ dpc = "write"
    /\ file' \in Written(snap)
    /\ dpc' = "clear"
    /\ UNCHANGED <<memory, snap, upc, usnap, yanshichongqi, alive, cmds, losses, ghosts>>

\* ... and dirty is cleared, whatever has changed meanwhile.
DataClear ==
    /\ alive /\ dpc = "clear"
    /\ dirty' = FALSE
    /\ dpc' = "check"
    /\ UNCHANGED <<rtu, param, runtime, file, snap, upc, usnap, yanshichongqi, alive, cmds,
                   losses, ghosts>>

-----------------------------------------------------------------------------
(* The end of the process, and main's startup_recovery after it.            *)

Blank == [no |-> 0, pw |-> 0, mode |-> 0]
BlankRuntime == [k \in Key |-> NoVal]

Restart ==
    /\ Load(Blank, BlankRuntime)
    /\ dpc' = "start" /\ upc' = "idle" /\ yanshichongqi' = FALSE
    /\ UNCHANGED <<file, snap, usnap, cmds, set, overlapped>>

PowerLoss ==
    /\ alive /\ losses < MaxLosses /\ losses' = losses + 1
    /\ cut' = (cut \/ file = Torn)
    /\ Restart

\* The upgrade signal: powerdown_save, with data_save_if_need, and exit(0).  A
\* change that comes after its save is lost as in PowerLoss.
UpgradeExit ==
    /\ alive /\ dpc = "check" /\ ~dirty
    /\ losses < MaxLosses /\ losses' = losses + 1
    /\ cut' = (cut \/ file = Torn)
    /\ Restart

\* The delayed restart after the factory reset; exit(0) without a save.
FactoryExit ==
    /\ alive /\ dpc = "check" /\ yanshichongqi
    /\ UNCHANGED <<losses, cut>>
    /\ Restart

-----------------------------------------------------------------------------
Init ==
    /\ rtu = Installed /\ dirty \in BOOLEAN
    /\ param = Recovered(Blank, Installed)
    /\ runtime = RecoveredRuntime(BlankRuntime, Installed)
    /\ file = Installed
    /\ dpc = "start" /\ snap = Installed /\ upc = "idle" /\ usnap = Installed
    /\ yanshichongqi = FALSE /\ alive = TRUE
    /\ cmds = 0 /\ losses = 0
    /\ set = [no |-> {Default.terminalNo, Installed.terminalNo},
              pw |-> {Default.passwd, Installed.passwd}]
    /\ overlapped = FALSE /\ cut = FALSE

DataThread == DataStart \/ DataCheck \/ DataOpen \/ DataWrite \/ DataClear
Handler == ParamSave \/ RuntimeSave \/ FactoryOpen \/ FactoryWrite
Command ==
    \/ \E n \in Num, w \in Num, d \in 1..2 : SetParam([no |-> n, pw |-> w, mode |-> d])
    \/ \E n \in Num : change_password(n)
    \/ \E k \in Key, v \in Val : SetRuntime(k, v)
    \/ reset_to_factory

Next ==
    \/ DataThread \/ Handler \/ Command
    \/ PowerLoss \/ UpgradeExit \/ FactoryExit

Spec == Init /\ [][Next]_vars

\* Both threads keep running.
FairSpec == Spec /\ WF_vars(DataThread) /\ WF_vars(Handler)

-----------------------------------------------------------------------------
(* Properties.                                                              *)

\* The types of the settings and of the two threads.
TypeOK ==
    /\ rtu \in Setting /\ dirty \in BOOLEAN
    /\ param \in [no : Nat, pw : Nat, mode : 0..2]
    /\ runtime \in [Key -> Val \cup {NoVal}]
    /\ file \in Setting \cup {Torn}
    /\ dpc \in {"start", "check", "open", "write", "clear"} /\ snap \in Setting
    /\ upc \in {"idle", "param_save", "runtime_save", "fopen", "fwrite"}
    /\ usnap \in Setting /\ yanshichongqi \in BOOLEAN /\ alive \in BOOLEAN
    /\ cmds \in 0..MaxCmds /\ losses \in 0..MaxLosses
    /\ set \in [no : SUBSET Nat, pw : SUBSET Nat]
    /\ overlapped \in BOOLEAN /\ cut \in BOOLEAN

\* The password in force is one that was installed or that the centre has
\* set, through saving, reading back, lost changes and resets: otherwise
\* center_process refuses every command.
PasswordWasSet == param.pw \in set.pw

\* The station can read its settings at the next start, unless it was stopped
\* in the middle of a save or a command met the data thread at work: the
\* delayed restart waits for the factory settings to be written.
StartsAgain == alive \/ overlapped \/ cut

\* The inductive invariant behind it.  While a factory reset is being written rtu
\* does not change, and what the data thread writes meanwhile is the same text; a
\* torn file is one that a thread has opened and is about to write.
Resetting == upc \in {"fopen", "fwrite"}
FileInv ==
    alive /\ ~overlapped /\ ~cut =>
        /\ file = Torn => upc = "fwrite" \/ dpc = "write"
        /\ Resetting => /\ usnap = rtu /\ dpc # "start" /\ ~yanshichongqi
                        /\ dpc \in {"open", "write"} => snap = rtu
        /\ upc = "fwrite" => file \in {Torn, usnap}
        /\ dpc = "write" => file \in {Torn, snap}

\* A changed parameter reaches the file, unless it was changed while the data
\* thread was busy (the comment above class rtu_setting).  The mode is left out.
Saved ==
    /\ file # Torn
    /\ file.terminalNo = rtu.terminalNo /\ file.passwd = rtu.passwd
    /\ file.runtime = rtu.runtime
ChangeSaved == ~Saved ~> (Saved \/ overlapped \/ ~alive)
=============================================================================
