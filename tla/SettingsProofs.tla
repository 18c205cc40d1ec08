--------------------------- MODULE SettingsProofs ---------------------------
(* TLAPS proofs about Settings: the password, the types, and the file that  *)
(* can be read again.                                                       *)
EXTENDS Settings, WellFoundedInduction, TLAPS

\* A settings object whose password was set.
Known(s) == "passwd" \in DOMAIN s /\ s.passwd \in set.pw

\* The inductive invariant: every copy of the settings, in memory, on its way
\* to the file and in the file, has a password that was set.
PasswordInv ==
    /\ "pw" \in DOMAIN param /\ {"no", "pw"} \subseteq DOMAIN set
    /\ PasswordWasSet
    /\ Known(rtu) /\ Known(snap) /\ Known(usnap)
    /\ file = Torn \/ Known(file)
    /\ Default.passwd \in set.pw

\* The two files have a password.
LEMMA SettingFields ==
    /\ "passwd" \in DOMAIN Default /\ "passwd" \in DOMAIN Installed
  BY SettingAssumption DEF Setting

\* param_save copies the password of the table, or keeps an equal one.
LEMMA ParamSavePassword ==
    ASSUME NEW r, NEW p, "passwd" \in DOMAIN r
    PROVE  /\ "passwd" \in DOMAIN param_save(r, p)
           /\ param_save(r, p).passwd = p.pw
  BY DEF param_save, Hexadecimal

\* runtime_save leaves the password alone.
LEMMA RuntimeSavePassword ==
    ASSUME NEW r, NEW rt, "passwd" \in DOMAIN r
    PROVE  /\ "passwd" \in DOMAIN runtime_save(r, rt)
           /\ runtime_save(r, rt).passwd = r.passwd
  BY DEF runtime_save

\* Reading the file makes its password the one in force.
LEMMA LoadKeeps ==
    ASSUME NEW p, NEW r, PasswordInv, Load(p, r), set' = set, file' = file,
           snap' = snap, usnap' = usnap
    PROVE  PasswordInv'
  BY DEF PasswordInv, Load, Known, PasswordWasSet, Recovered

\* The first start: the installed password is in force.
LEMMA InitKeeps == Init => PasswordInv
  BY SettingFields DEF Init, PasswordInv, Known, PasswordWasSet, Recovered

\* Every step of the two threads, every command and every end of the process
\* keeps the copies among the passwords that were set.
LEMMA NextKeeps == PasswordInv /\ [Next]_vars => PasswordInv'
<1> SUFFICES ASSUME PasswordInv, [Next]_vars PROVE PasswordInv'
    OBVIOUS
<1> USE DEF PasswordInv, Known, PasswordWasSet
<1>1. ASSUME NEW n \in Num, NEW w \in Num, NEW d \in 1..2,
             SetParam([no |-> n, pw |-> w, mode |-> d])
      PROVE  PasswordInv'
    BY <1>1 DEF SetParam, Accepts
<1>2. ASSUME NEW n \in Num, change_password(n) PROVE PasswordInv'
    BY <1>2 DEF change_password, Accepts
<1>3. ASSUME NEW k \in Key, NEW v \in Val, SetRuntime(k, v) PROVE PasswordInv'
    BY <1>3 DEF SetRuntime, Accepts, ghosts
<1>4. CASE reset_to_factory
  <2>1. param'.pw = Default.passwd /\ "pw" \in DOMAIN param'
      BY <1>4 DEF reset_to_factory, Recovered
  <2>2. "passwd" \in DOMAIN rtu' /\ rtu'.passwd = Default.passwd
      BY <1>4, <2>1, SettingFields, ParamSavePassword, RuntimeSavePassword
      DEF reset_to_factory
  <2> QED
      BY <1>4, <2>1, <2>2 DEF reset_to_factory, Accepts
<1>5. CASE ParamSave
    BY <1>5, ParamSavePassword DEF ParamSave
<1>6. CASE RuntimeSave
    BY <1>6, RuntimeSavePassword DEF RuntimeSave
<1>7. CASE FactoryOpen
    BY <1>7 DEF FactoryOpen, memory, ghosts
<1>8. CASE FactoryWrite
    BY <1>8 DEF FactoryWrite, Written, memory, ghosts
<1>9. CASE DataStart
    BY <1>9, LoadKeeps DEF DataStart, ghosts
<1>10. CASE DataCheck
    BY <1>10 DEF DataCheck, memory, ghosts
<1>11. CASE DataOpen
    BY <1>11 DEF DataOpen, memory, ghosts
<1>12. CASE DataWrite
    BY <1>12 DEF DataWrite, Written, memory, ghosts
<1>13. CASE DataClear
    BY <1>13 DEF DataClear, ghosts
<1>14. CASE PowerLoss \/ UpgradeExit \/ FactoryExit
    BY <1>14, LoadKeeps DEF PowerLoss, UpgradeExit, FactoryExit, Restart
<1>15. CASE UNCHANGED vars
    BY <1>15 DEF vars, memory, threads, ghosts
<1> QED
    BY <1>1, <1>2, <1>3, <1>4, <1>5, <1>6, <1>7, <1>8, <1>9, <1>10, <1>11, <1>12,
       <1>13, <1>14, <1>15
    DEF Next, DataThread, Handler, Command

\* The password in force is always one that was installed or set by the centre,
\* whatever is lost between set_param, data_save_if_need and a restart.
THEOREM PasswordKnown == Spec => []PasswordWasSet
<1>1. PasswordInv => PasswordWasSet
    BY DEF PasswordInv
<1> QED
    BY <1>1, InitKeeps, NextKeeps, PTL DEF Spec
-----------------------------------------------------------------------------
(* What Decimal computes: it is defined for every number, and the digits of   *)
(* a number are those of a number again.  An induction over the numbers is a  *)
(* search for the least counterexample.                                      *)

\* Every set of numbers has a least element.
LEMMA LeastNumber ==
    ASSUME NEW T, T \subseteq Nat, T # {}
    PROVE  \E x \in T : \A y \in T : x <= y
<1>1. IsWellFoundedOn(OpToRel(<, Nat), Nat)
  BY NatLessThanWellFounded
<1>2. \E x \in T : \A y \in T : ~(<<y, x>> \in OpToRel(<, Nat))
  BY <1>1, WFMin, Zenon
<1>3. \A x, y \in T : <<y, x>> \in OpToRel(<, Nat) <=> y < x
  BY DEF OpToRel
<1>4. \A x, y \in T : ~(y < x) => x <= y
  OBVIOUS
<1> QED
  BY <1>2, <1>3, <1>4, Zenon

\* The number without its last digit is a smaller one.
LEMMA FewerDigits ==
    \A n \in Nat : n >= 10 => n \div 10 \in Nat /\ n \div 10 < n /\ n % 10 \in Nat
OBVIOUS

\* g computes the digits of the numbers up to n.
DigitsTo(g, n) ==
    /\ g \in [0..n -> Nat]
    /\ \A k \in 0..n : g[k] = IF k < 10 THEN k ELSE 16 * g[k \div 10] + (k % 10)

LEMMA DigitsExist == \A n \in Nat : \E g : DigitsTo(g, n)
<1> DEFINE Bad == {n \in Nat : ~\E g : DigitsTo(g, n)}
<1> SUFFICES ASSUME Bad # {} PROVE FALSE
  OBVIOUS
<1>1. PICK n \in Bad : \A y \in Bad : n <= y
  BY LeastNumber, Zenon
<1>2. n \in Nat /\ ~\E g : DigitsTo(g, n)
  OBVIOUS
<1>3. CASE n = 0
  <2>1. DigitsTo([k \in 0..n |-> k], n)
    BY <1>3 DEF DigitsTo
  <2> QED
    BY <1>2, <2>1
<1>4. CASE n # 0
  <2>1. n - 1 \in Nat /\ n - 1 \notin Bad
    BY <1>1, <1>2, <1>4
  <2>2. PICK g : DigitsTo(g, n - 1)
    BY <2>1
  <2> DEFINE h == [k \in 0..n |-> IF k < n THEN g[k]
                                 ELSE IF k < 10 THEN k ELSE 16 * g[k \div 10] + (k % 10)]
  <2>3. \A k \in 0..(n - 1) : g[k] \in Nat /\ h[k] = g[k]
    BY <1>2, <2>1, <2>2 DEF DigitsTo
  <2>4. n >= 10 => n \div 10 \in 0..(n - 1) /\ n % 10 \in Nat
    BY <1>2, FewerDigits
  <2>5. h \in [0..n -> Nat]
    <3> SUFFICES ASSUME NEW k \in 0..n PROVE h[k] \in Nat
      OBVIOUS
    <3>1. CASE k < n
      <4>1. k \in 0..(n - 1)
        BY <1>2, <3>1
      <4> QED
        BY <2>3, <4>1
    <3>2. CASE k = n /\ n >= 10
      <4>1. g[n \div 10] \in Nat /\ n % 10 \in Nat
        BY <2>3, <2>4, <3>2
      <4> QED
        BY <3>2, <4>1
    <3>3. CASE k = n /\ n < 10
      BY <3>3
    <3> QED
      BY <1>2, <3>1, <3>2, <3>3
  <2>6. \A k \in 0..n : h[k] = IF k < 10 THEN k ELSE 16 * h[k \div 10] + (k % 10)
    <3> SUFFICES ASSUME NEW k \in 0..n
                 PROVE  h[k] = IF k < 10 THEN k ELSE 16 * h[k \div 10] + (k % 10)
      OBVIOUS
    <3>1. k >= 10 => k \div 10 \in 0..(n - 1)
      BY <1>2, FewerDigits
    <3>2. CASE k < n
      BY <1>2, <2>2, <2>3, <3>1, <3>2 DEF DigitsTo
    <3>3. CASE k = n
      BY <1>2, <2>3, <3>1, <3>3
    <3> QED
      BY <1>2, <3>2, <3>3
  <2>7. DigitsTo(h, n)
    BY <2>5, <2>6 DEF DigitsTo
  <2> QED
    BY <1>2, <2>7
<1> QED
  BY <1>3, <1>4

LEMMA DigitsUnique ==
    \A n, k \in Nat : \A g, h : DigitsTo(g, n) /\ DigitsTo(h, k) =>
        \A j \in Nat : j <= n /\ j <= k => g[j] = h[j]
<1> SUFFICES ASSUME NEW n \in Nat, NEW k \in Nat, NEW g, NEW h, DigitsTo(g, n), DigitsTo(h, k)
             PROVE  \A j \in Nat : j <= n /\ j <= k => g[j] = h[j]
  OBVIOUS
<1> DEFINE Bad == {j \in Nat : j <= n /\ j <= k /\ g[j] # h[j]}
<1> SUFFICES ASSUME Bad # {} PROVE FALSE
  OBVIOUS
<1>1. PICK j \in Bad : \A y \in Bad : j <= y
  BY LeastNumber, Zenon
<1>2. j >= 10 => g[j \div 10] = h[j \div 10]
  BY <1>1, FewerDigits
<1> QED
  BY <1>2 DEF DigitsTo

\* The equation that defines Decimal has a solution.
LEMMA DecimalUnfolds ==
    \A n \in Nat : Decimal[n] = IF n < 10 THEN n ELSE 16 * Decimal[n \div 10] + (n % 10)
<1> DEFINE A(n) == CHOOSE g : DigitsTo(g, n)
<1> DEFINE F == [n \in Nat |-> A(n)[n]]
<1>1. \A n \in Nat : DigitsTo(A(n), n)
  BY DigitsExist, Zenon
<1> HIDE DEF A
<1>2. ASSUME NEW n \in Nat
      PROVE  F[n] = IF n < 10 THEN n ELSE 16 * F[n \div 10] + (n % 10)
  <2>1. /\ DigitsTo(A(n), n)
        /\ n >= 10 => /\ DigitsTo(A(n \div 10), n \div 10)
                      /\ n \div 10 \in Nat /\ n \div 10 <= n
    BY <1>1, FewerDigits
  <2>2. n >= 10 => A(n)[n \div 10] = A(n \div 10)[n \div 10]
    BY <2>1, DigitsUnique
  <2> QED
    BY <2>1, <2>2 DEF DigitsTo
<1> HIDE DEF F
<1>3. F = [n \in Nat |-> IF n < 10 THEN n ELSE 16 * F[n \div 10] + (n % 10)]
  BY <1>2 DEF F
<1>4. \E f : f = [n \in Nat |-> IF n < 10 THEN n ELSE 16 * f[n \div 10] + (n % 10)]
  BY <1>3
<1>5. Decimal = [n \in Nat |-> IF n < 10 THEN n ELSE 16 * Decimal[n \div 10] + (n % 10)]
  BY <1>4, Zenon DEF Decimal
<1> QED
  BY <1>5, Zenon

LEMMA DecimalIsNumber == \A n \in Nat : Decimal[n] \in Nat
<1> DEFINE Bad == {j \in Nat : Decimal[j] \notin Nat}
<1> SUFFICES ASSUME Bad # {} PROVE FALSE
  OBVIOUS
<1>1. PICK j \in Bad : \A y \in Bad : j <= y
  BY LeastNumber, Zenon
<1>2. j >= 10 => Decimal[j \div 10] \in Nat /\ j % 10 \in Nat
  BY <1>1, FewerDigits
<1> QED
  BY <1>2, DecimalUnfolds

-----------------------------------------------------------------------------
(* Types.                                                                    *)

LEMMA SettingFacts ==
    ASSUME NEW f \in Setting
    PROVE  /\ f.terminalNo \in Nat /\ f.passwd \in Nat /\ f.normal \in BOOLEAN
           /\ f.runtime \in [Key -> Val \cup {NoVal}] /\ f # Torn
BY SettingAssumption DEF Setting

\* param_save makes a settings object of a settings object: this is where the
\* digits of the station number come in.
LEMMA ParamSaveType ==
    ASSUME NEW r \in Setting, NEW p \in [no : Nat, pw : Nat, mode : 0..2]
    PROVE  param_save(r, p) \in Setting
<1>1. p.no \in Nat /\ p.pw \in Nat /\ Decimal[p.no] \in Nat
  BY DecimalIsNumber
<1> DEFINE t == IF r.terminalNo = p.no THEN r.terminalNo ELSE Decimal[p.no]
           w == IF r.passwd = p.pw THEN r.passwd ELSE Hexadecimal(p.pw)
           b == r.normal \/ p.mode = 2
<1>2. t \in Nat /\ w \in Nat /\ b \in BOOLEAN
  <2>1. t \in Nat /\ w \in Nat
    BY <1>1, SettingFacts DEF Hexadecimal
  <2>2. b \in BOOLEAN
    BY SettingFacts, Zenon
  <2> QED
    BY <2>1, <2>2
<1>3. param_save(r, p) = [r EXCEPT !.terminalNo = t, !.passwd = w, !.normal = b]
  BY DEF param_save
<1> HIDE DEF t, w, b
<1> QED
  BY <1>2, <1>3 DEF Setting

LEMMA RuntimeSaveType ==
    ASSUME NEW r \in Setting, NEW rt \in [Key -> Val \cup {NoVal}]
    PROVE  runtime_save(r, rt) \in Setting
<1>1. [k \in Key |-> IF rt[k] = NoVal THEN r.runtime[k] ELSE rt[k]] \in [Key -> Val \cup {NoVal}]
  BY SettingFacts
<1>2. runtime_save(r, rt) =
          [terminalNo |-> r.terminalNo, passwd |-> r.passwd, normal |-> r.normal,
           runtime |-> [k \in Key |-> IF rt[k] = NoVal THEN r.runtime[k] ELSE rt[k]]]
  BY DEF Setting, runtime_save
<1> QED
  BY <1>1, <1>2, SettingFacts DEF Setting

LEMMA RecoveredType ==
    ASSUME NEW f \in Setting, NEW p \in [no : Nat, pw : Nat, mode : 0..2],
           NEW r \in [Key -> Val \cup {NoVal}]
    PROVE  /\ Recovered(p, f) \in [no : Nat, pw : Nat, mode : 0..2]
           /\ RecoveredRuntime(r, f) \in [Key -> Val \cup {NoVal}]
<1>1. (IF f.normal THEN 2 ELSE p.mode) \in 0..2
  OBVIOUS
<1> QED
  BY <1>1, SettingFacts DEF Recovered, RecoveredRuntime

LEMMA BlankType ==
    Blank \in [no : Nat, pw : Nat, mode : 0..2] /\ BlankRuntime \in [Key -> Val \cup {NoVal}]
BY DEF Blank, BlankRuntime

\* The memory after the file has been read.
MemoryType ==
    /\ rtu \in Setting /\ dirty \in BOOLEAN
    /\ param \in [no : Nat, pw : Nat, mode : 0..2] /\ runtime \in [Key -> Val \cup {NoVal}]

LEMMA LoadType ==
    ASSUME TypeOK, NEW p \in [no : Nat, pw : Nat, mode : 0..2],
           NEW r \in [Key -> Val \cup {NoVal}], Load(p, r)
    PROVE  MemoryType' /\ alive' \in BOOLEAN
<1>1. CASE file = Torn
  BY <1>1 DEF TypeOK, Load, MemoryType
<1>2. CASE file # Torn
  <2>1. file \in Setting
    BY <1>2 DEF TypeOK
  <2> QED
    BY <1>2, <2>1, RecoveredType DEF TypeOK, Load, MemoryType
<1> QED
  BY <1>1, <1>2

LEMMA WrittenType ==
    ASSUME NEW c \in Setting, file' \in Written(c)
    PROVE  file' \in Setting \cup {Torn}
BY DEF Written

LEMMA InitType == Init => TypeOK
<1> SUFFICES ASSUME Init PROVE TypeOK
  OBVIOUS
<1>1. Installed \in Setting /\ Default \in Setting
  BY SettingAssumption
<1>2. param \in [no : Nat, pw : Nat, mode : 0..2] /\ runtime \in [Key -> Val \cup {NoVal}]
  BY <1>1, RecoveredType, BlankType DEF Init
<1>3. set \in [no : SUBSET Nat, pw : SUBSET Nat]
  BY <1>1, SettingFacts DEF Init
<1>4. 0 \in 0..MaxCmds /\ 0 \in 0..MaxLosses
  BY SettingBounds
<1> QED
  BY <1>1, <1>2, <1>3, <1>4, Zenon DEF Init, TypeOK

LEMMA CommandTypes == ASSUME TypeOK, Command PROVE TypeOK'
<1>1. cmds' \in 0..MaxCmds
  BY SettingBounds DEF TypeOK, Command, Accepts, SetParam, change_password, SetRuntime,
                       reset_to_factory
<1>2. ASSUME NEW n \in Num, NEW w \in Num, NEW d \in 1..2,
             SetParam([no |-> n, pw |-> w, mode |-> d])
      PROVE  TypeOK'
  <2>1. n \in Nat /\ w \in Nat /\ d \in 0..2
    BY SettingAssumption
  <2>2. /\ param' \in [no : Nat, pw : Nat, mode : 0..2]
        /\ set' \in [no : SUBSET Nat, pw : SUBSET Nat]
    BY <1>2, <2>1 DEF TypeOK, SetParam
  <2> QED
    BY <1>1, <1>2, <2>2 DEF TypeOK, SetParam
<1>3. ASSUME NEW n \in Num, change_password(n) PROVE TypeOK'
  <2>1. n \in Nat
    BY SettingAssumption
  <2>2. /\ param' \in [no : Nat, pw : Nat, mode : 0..2]
        /\ set' \in [no : SUBSET Nat, pw : SUBSET Nat]
    BY <1>3, <2>1 DEF TypeOK, change_password
  <2> QED
    BY <1>1, <1>3, <2>2 DEF TypeOK, change_password
<1>4. ASSUME NEW k \in Key, NEW v \in Val, SetRuntime(k, v) PROVE TypeOK'
  BY <1>1, <1>4 DEF TypeOK, SetRuntime, ghosts
<1>5. CASE reset_to_factory
  <2>1. /\ param' \in [no : Nat, pw : Nat, mode : 0..2]
        /\ runtime' \in [Key -> Val \cup {NoVal}]
    BY <1>5, SettingAssumption, RecoveredType DEF TypeOK, reset_to_factory
  <2>2. rtu' \in Setting /\ usnap' = rtu'
    <3>1. param_save(Default, param') \in Setting
      BY <2>1, SettingAssumption, ParamSaveType
    <3> QED
      BY <1>5, <2>1, <3>1, RuntimeSaveType DEF reset_to_factory
  <2> QED
    BY <1>1, <1>5, <2>1, <2>2 DEF TypeOK, reset_to_factory, Busy
<1> QED
  BY <1>2, <1>3, <1>4, <1>5 DEF Command

LEMMA RestartTypes == ASSUME TypeOK, PowerLoss \/ UpgradeExit \/ FactoryExit PROVE TypeOK'
<1>1. Restart
  BY DEF PowerLoss, UpgradeExit, FactoryExit
<1>2. MemoryType' /\ alive' \in BOOLEAN
  BY <1>1, LoadType, BlankType DEF Restart
<1>3. losses' \in 0..MaxLosses /\ cut' \in BOOLEAN
  BY SettingBounds DEF TypeOK, PowerLoss, UpgradeExit, FactoryExit
<1> QED
  BY <1>1, <1>2, <1>3 DEF TypeOK, Restart, MemoryType

LEMMA ThreadTypes == ASSUME TypeOK, DataThread \/ Handler PROVE TypeOK'
<1>1. CASE DataStart
  <2>1. MemoryType' /\ alive' \in BOOLEAN
    BY <1>1, LoadType DEF DataStart, TypeOK
  <2> QED
    BY <1>1, <2>1 DEF TypeOK, DataStart, MemoryType, ghosts
<1>2. CASE DataCheck \/ DataOpen \/ DataClear
  BY <1>2 DEF TypeOK, DataCheck, DataOpen, DataClear, memory, ghosts
<1>3. CASE DataWrite
  BY <1>3, WrittenType DEF TypeOK, DataWrite, memory, ghosts
<1>4. CASE ParamSave
  <2>1. rtu' \in Setting
    BY <1>4, ParamSaveType DEF TypeOK, ParamSave
  <2> QED
    BY <1>4, <2>1 DEF TypeOK, ParamSave, Busy
<1>5. CASE RuntimeSave
  <2>1. rtu' \in Setting
    BY <1>5, RuntimeSaveType DEF TypeOK, RuntimeSave
  <2> QED
    BY <1>5, <2>1 DEF TypeOK, RuntimeSave, Busy
<1>6. CASE FactoryOpen
  BY <1>6 DEF TypeOK, FactoryOpen, memory, ghosts
<1>7. CASE FactoryWrite
  BY <1>7, WrittenType DEF TypeOK, FactoryWrite, memory, ghosts
<1> QED
  BY <1>1, <1>2, <1>3, <1>4, <1>5, <1>6, <1>7 DEF DataThread, Handler

\* The settings, their copies and the file keep their types: what param_save
\* writes for a station number is a number again, whatever the digits.
THEOREM TypeCorrect == Spec => []TypeOK
<1>1. ASSUME TypeOK, [Next]_vars PROVE TypeOK'
  <2>1. CASE UNCHANGED vars
    BY <1>1, <2>1, Zenon DEF TypeOK, vars, memory, threads, ghosts
  <2> QED
    BY <1>1, <2>1, CommandTypes, RestartTypes, ThreadTypes DEF Next
<1> QED
  BY <1>1, InitType, PTL DEF Spec

-----------------------------------------------------------------------------
(* The file.                                                                 *)

LEMMA InitFile == Init => FileInv /\ StartsAgain
<1> SUFFICES ASSUME Init PROVE FileInv /\ StartsAgain
  OBVIOUS
<1>1. file # Torn
  BY SettingAssumption DEF Init
<1> QED
  BY <1>1 DEF Init, FileInv, StartsAgain, Resetting

LEMMA NextFile ==
    ASSUME TypeOK, FileInv, StartsAgain, [Next]_vars PROVE FileInv' /\ StartsAgain'
<1>0. snap # Torn /\ usnap # Torn
  BY SettingFacts DEF TypeOK
<1> USE DEF FileInv, StartsAgain, Resetting
<1>1. ASSUME NEW p, SetParam(p) PROVE FileInv' /\ StartsAgain'
  BY <1>1 DEF SetParam, Accepts
<1>2. ASSUME NEW n \in Num, change_password(n) PROVE FileInv' /\ StartsAgain'
  BY <1>2 DEF change_password, Accepts
<1>3. ASSUME NEW k \in Key, NEW v \in Val, SetRuntime(k, v) PROVE FileInv' /\ StartsAgain'
  BY <1>3 DEF SetRuntime, Accepts, ghosts
<1>4. CASE reset_to_factory
  BY <1>4 DEF reset_to_factory, Accepts, Busy
<1>5. CASE ParamSave \/ RuntimeSave
  BY <1>5 DEF ParamSave, RuntimeSave, Busy
<1>6. CASE FactoryOpen
  BY <1>6 DEF FactoryOpen, memory, ghosts
<1>7. CASE FactoryWrite
  BY <1>0, <1>7 DEF FactoryWrite, Written, memory, ghosts
<1>8. CASE DataStart
  BY <1>8 DEF DataStart, Load, ghosts
<1>9. CASE DataCheck
  BY <1>9 DEF DataCheck, memory, ghosts
<1>10. CASE DataOpen
  BY <1>10 DEF DataOpen, memory, ghosts
<1>11. CASE DataWrite
  BY <1>0, <1>11 DEF DataWrite, Written, memory, ghosts
<1>12. CASE DataClear
  BY <1>12 DEF DataClear, ghosts
<1>13. CASE PowerLoss \/ UpgradeExit
  BY <1>13 DEF PowerLoss, UpgradeExit, Restart, Load
<1>14. CASE FactoryExit
  BY <1>14 DEF FactoryExit, Restart, Load
<1>15. CASE UNCHANGED vars
  BY <1>15 DEF vars, memory, threads, ghosts
<1> QED
  BY <1>1, <1>2, <1>3, <1>4, <1>5, <1>6, <1>7, <1>8, <1>9, <1>10, <1>11, <1>12, <1>13, <1>14,
     <1>15 DEF Next, DataThread, Handler, Command

\* The station can read its settings at every start, the one after a factory
\* reset included, unless it was stopped in the middle of a save or a command
\* met the data thread at work: two threads write the file, and the reset is
\* safe from the other one only because both write the same text.
THEOREM FileReadable == Spec => []StartsAgain
BY InitFile, NextFile, TypeCorrect, PTL DEF Spec
=============================================================================
