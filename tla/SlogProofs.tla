----------------------------- MODULE SlogProofs -----------------------------
(***************************************************************************)
(* Theorems about Slog, for any threads, files, settings and dates.        *)
(***************************************************************************)
EXTENDS Slog, TLAPS

\* The mutex of a thread-safe logger is held by the one thread that is inside
\* a call; a logger that is not thread safe is used by one thread.
MutexInv ==
  /\ tdSafe = 1 => mutex # "none" /\ \A t \in Threads : Held(t) <=> mutex = t
  /\ tdSafe = 0 => \A t \in Threads : pc[t] # "idle" => t = starter

\* The settings are those of slog_init or slog_config_set while the logger is
\* live; otherwise nobody is in a call and no file is open.
LiveInv ==
  /\ live => cfg \in Config
  /\ ~ live => Quiet /\ handle = NULL

\* The inductive invariant behind the theorems on types, mutex and life cycle.
SlogInv == TypeOK /\ MutexInv /\ LiveInv

-----------------------------------------------------------------------------

\* The day of the month is at most the length of the month.
LEMMA DayOfType ==
  ASSUME NEW d \in 1 .. MaxDate
  PROVE  DayOf(d) \in 1 .. MonthLength
  <1>1. /\ d - 1 \in Int
        /\ MonthLength \in Nat \ {0}
    BY SlogAssumption
  <1>2. (d - 1) % MonthLength \in 0 .. MonthLength - 1
    BY <1>1
  <1> QED
    BY <1>1, <1>2 DEF DayOf

\* Initially nothing is live.
LEMMA InitSlogInv == Init => SlogInv
  <1> SUFFICES ASSUME Init PROVE SlogInv
    OBVIOUS
  <1> USE DEF Init
  <1>a. 1 \in 1 .. MaxDate /\ 0 \in 0 .. MonthLength
    BY SlogAssumption
  <1>b. /\ pc \in [Threads -> {"idle", "lock", "body", "callback", "output", "unlock"}]
        /\ stamp \in [Threads -> 1 .. MaxDate]
    BY <1>a
  <1>1. TypeOK
    BY <1>a, <1>b DEF TypeOK
  <1>2. MutexInv
    BY DEF MutexInv
  <1>3. LiveInv
    BY DEF LiveInv, Quiet
  <1> QED
    BY <1>1, <1>2, <1>3 DEF SlogInv

\* slog_config_set installs one of the configurations, and keeps or closes the
\* file.
LEMMA ConfigSetType ==
  ASSUME SlogInv, NEW c \in Configs, ConfigSet(c)
  PROVE  /\ cfg' \in Config
         /\ filePath' \in File \cup {NULL}
         /\ handle' \in File \cup {NULL}
         /\ currDay' = currDay
  BY SlogAssumption DEF ConfigSet, SlogInv, TypeOK

\* slog_callback_set, slog_enable and slog_disable change one setting.
LEMMA SettingType ==
  ASSUME cfg \in Config, CallbackSet \/ SetFlags
  PROVE  cfg' \in Config /\ cfg'.path = cfg.path /\ cfg'.rotate = cfg.rotate
  <1>1. CASE CallbackSet
    BY <1>1 DEF CallbackSet, Config
  <1>2. CASE SetFlags
    <2>1. PICK f \in Levels, new \in SUBSET Levels :
            cfg' = [cfg EXCEPT !.nFlags = new]
      <3>1. cfg.nFlags \in SUBSET Levels
        BY DEF Config
      <3> QED
        BY <1>2, <3>1 DEF SetFlags
    <2> QED
      BY <2>1 DEF Config
  <1> QED
    BY <1>1, <1>2

\* A line goes to a file, and what is remembered of the file is well typed.
LEMMA OutputToFileType ==
  ASSUME SlogInv, cfg \in Config, NEW d \in 1 .. MaxDate, OutputToFile(d)
  PROVE  /\ filePath' \in File \cup {NULL}
         /\ handle' \in File \cup {NULL}
         /\ currDay' \in 0 .. MonthLength
         /\ line' \in Line \cup {NULL}
  <1> USE DEF SlogInv, TypeOK
  <1>1. cfg.path \in Paths /\ cfg.rotate \in BOOLEAN
    BY DEF Config
  <1>2. OpenName(d) \in File
    BY <1>1 DEF OpenName, File
  <1>3. Current(d) \in File \cup {NULL}
    BY DEF Current
  <1>4. ASSUME NEW f \in File, WriteLine(f, d)
        PROVE  handle' \in File \cup {NULL} /\ line' \in Line \cup {NULL}
    BY <1>1, <1>4 DEF WriteLine, Line
  <1>5. DayOf(d) \in 0 .. MonthLength
    BY DayOfType, SlogAssumption
  <1>6. CASE Current(d) # NULL
    BY <1>3, <1>4, <1>6 DEF OutputToFile
  <1>7. CASE Current(d) = NULL
    BY <1>2, <1>4, <1>5, <1>7 DEF OutputToFile
  <1> QED
    BY <1>6, <1>7

\* Steps inside a call: the thread stays inside, or goes from "unlock" to
\* "idle".
LEMMA StayInside ==
  ASSUME SlogInv, NEW t \in Threads, Held(t),
         NEW to \in {"body", "callback", "output", "unlock"}, Goto(t, to),
         UNCHANGED <<tdSafe, mutex, clientVars>>
  PROVE  /\ live
         /\ MutexInv'
         /\ pc' \in [Threads -> {"idle", "lock", "body", "callback", "output", "unlock"}]
  <1> USE DEF SlogInv, TypeOK
  <1>1. pc[t] # "idle"
    BY DEF Held
  <1>2. live
    BY <1>1 DEF LiveInv, Quiet
  <1>3. pc' = [pc EXCEPT ![t] = to]
    BY DEF Goto
  <1>4. \A u \in Threads : Held(u)' <=> Held(u)
    BY <1>3 DEF Held
  <1>5. \A u \in Threads : pc'[u] # "idle" => pc[u] # "idle"
    BY <1>1, <1>3
  <1>6. MutexInv'
    BY <1>4, <1>5 DEF MutexInv, clientVars
  <1> QED
    BY <1>2, <1>3, <1>6

-----------------------------------------------------------------------------
(* Every step keeps the invariant.                                         *)

\* slog_init, by a client that finds nobody in a call.
LEMMA SlogInitInv ==
  ASSUME SlogInv, NEW t \in Threads, SlogInit(t)
  PROVE  SlogInv'
  <1> USE DEF SlogInv, SlogInit
  <1>1. cfg' \in Config /\ cfg'.path \in Paths
    BY DEF Config
  <1>2. TypeOK'
    BY <1>1, SlogAssumption DEF TypeOK
  <1>3. \A u \in Threads : pc'[u] = "idle"
    BY DEF Quiet
  <1>4. \A u \in Threads : ~ Held(u)' /\ u # "free"
    BY <1>3, SlogAssumption DEF Held
  <1>5. MutexInv'
    BY <1>3, <1>4 DEF MutexInv
  <1>6. LiveInv'
    BY <1>1 DEF LiveInv
  <1> QED
    BY <1>2, <1>5, <1>6

\* slog_destroy, likewise.
LEMMA SlogDestroyInv ==
  ASSUME SlogInv, NEW t \in Threads, SlogDestroy(t)
  PROVE  SlogInv'
  <1> USE DEF SlogInv, SlogDestroy
  <1>1. TypeOK'
    BY DEF TypeOK
  <1>2. MutexInv'
    BY DEF MutexInv, Quiet
  <1>3. LiveInv'
    BY DEF LiveInv, Quiet
  <1> QED
    BY <1>1, <1>2, <1>3

\* A thread starts a call.
LEMMA CallInv ==
  ASSUME SlogInv, NEW t \in Threads, Call(t)
  PROVE  SlogInv'
  <1> USE DEF SlogInv, Call, Goto
  <1>1. TypeOK'
    BY DEF TypeOK, fileVars, clientVars
  <1>2. \A u \in Threads : Held(u)' <=> Held(u)
    BY DEF Held, TypeOK
  <1>3. MutexInv'
    BY <1>2 DEF MutexInv, TypeOK, clientVars
  <1>4. LiveInv'
    BY DEF LiveInv, clientVars, fileVars
  <1> QED
    BY <1>1, <1>3, <1>4

\* A thread takes the mutex, if there is one.
LEMMA LockInv ==
  ASSUME SlogInv, NEW t \in Threads, Lock(t)
  PROVE  SlogInv'
  <1> USE DEF SlogInv, Lock, Goto
  <1>1. TypeOK'
    BY DEF TypeOK, fileVars, clientVars
  <1>2. \A u \in Threads : u # t => (Held(u)' <=> Held(u))
    BY DEF Held, TypeOK
  <1>3. Held(t)' /\ ~ Held(t) /\ t # "none"
    BY SlogAssumption DEF Held, TypeOK
  <1>4. MutexInv'
    <2>1. CASE tdSafe = 0
      BY <2>1 DEF MutexInv, TypeOK, clientVars
    <2>2. CASE tdSafe = 1
      <3>1. mutex = "free" /\ mutex' = t
        BY <2>2
      <3>2. \A u \in Threads : ~ Held(u)
        BY <2>2, <3>1, SlogAssumption DEF MutexInv
      <3> QED
        BY <1>2, <1>3, <2>2, <3>1, <3>2 DEF MutexInv
    <2> QED
      BY <2>1, <2>2 DEF TypeOK
  <1>5. live
    BY DEF LiveInv, Quiet
  <1>6. LiveInv'
    BY <1>5 DEF LiveInv, clientVars
  <1> QED
    BY <1>1, <1>4, <1>6

\* A thread releases the mutex.
LEMMA UnlockInv ==
  ASSUME SlogInv, NEW t \in Threads, Unlock(t)
  PROVE  SlogInv'
  <1> USE DEF SlogInv, Unlock, Goto
  <1>1. TypeOK'
    BY DEF TypeOK, fileVars, clientVars
  <1>2. \A u \in Threads : u # t => (Held(u)' <=> Held(u))
    BY DEF Held, TypeOK
  <1>3. ~ Held(t)' /\ Held(t)
    BY DEF Held, TypeOK
  <1>4. MutexInv'
    <2>1. CASE tdSafe = 0
      BY <2>1 DEF MutexInv, TypeOK, clientVars
    <2>2. CASE tdSafe = 1
      <3>1. mutex = t /\ \A u \in Threads : u # t => ~ Held(u)
        BY <1>3, <2>2 DEF MutexInv
      <3>2. mutex' = "free" /\ \A u \in Threads : u # "free"
        BY <2>2, SlogAssumption
      <3> QED
        BY <1>2, <1>3, <2>2, <3>1, <3>2 DEF MutexInv
    <2> QED
      BY <2>1, <2>2 DEF TypeOK
  <1>5. live
    BY DEF LiveInv, Quiet
  <1>6. LiveInv'
    BY <1>5 DEF LiveInv, clientVars
  <1> QED
    BY <1>1, <1>4, <1>6

\* A setter, called by a client or by a callback.
LEMMA SetInv ==
  ASSUME SlogInv, NEW t \in Threads, Held(t),
         NEW to \in {"output", "unlock"}, Goto(t, to),
         \/ UNCHANGED <<cfg, fileVars>>
         \/ \E c \in Configs : ConfigSet(c)
         \/ (CallbackSet \/ SetFlags) /\ UNCHANGED fileVars,
         UNCHANGED <<tdSafe, mutex, today, clientVars, stamp, line>>
  PROVE  SlogInv'
  <1>1. /\ live
        /\ MutexInv'
        /\ pc' \in [Threads -> {"idle", "lock", "body", "callback", "output", "unlock"}]
    BY StayInside
  <1>2. /\ cfg' \in Config
        /\ filePath' \in File \cup {NULL}
        /\ handle' \in File \cup {NULL}
        /\ currDay' = currDay
    <2>1. cfg \in Config
      BY <1>1 DEF SlogInv, LiveInv
    <2>2. CASE UNCHANGED <<cfg, fileVars>>
      BY <2>1, <2>2 DEF SlogInv, TypeOK, fileVars
    <2>3. CASE \E c \in Configs : ConfigSet(c)
      BY <2>3, ConfigSetType
    <2>4. CASE (CallbackSet \/ SetFlags) /\ UNCHANGED fileVars
      BY <2>1, <2>4, SettingType DEF SlogInv, TypeOK, fileVars
    <2> QED
      BY <2>2, <2>3, <2>4
  <1>3. TypeOK'
    BY <1>1, <1>2 DEF SlogInv, TypeOK, clientVars
  <1>4. LiveInv'
    BY <1>1, <1>2 DEF LiveInv, clientVars
  <1> QED
    BY <1>1, <1>3, <1>4 DEF SlogInv

\* A line is accepted or not.
LEMMA DisplayInv ==
  ASSUME SlogInv, NEW t \in Threads, Display(t)
  PROVE  SlogInv'
  <1>1. PICK to \in {"callback", "output", "unlock"} :
          /\ Goto(t, to)
          /\ stamp' \in {stamp, [stamp EXCEPT ![t] = today]}
    BY DEF Display
  <1>2. Held(t)
    BY DEF Display, Held
  <1>3. UNCHANGED <<tdSafe, mutex, cfg, fileVars, today, clientVars, line>>
    BY DEF Display
  <1>4. /\ live
        /\ MutexInv'
        /\ pc' \in [Threads -> {"idle", "lock", "body", "callback", "output", "unlock"}]
    BY <1>1, <1>2, <1>3, StayInside
  <1>5. TypeOK'
    BY <1>1, <1>3, <1>4 DEF SlogInv, TypeOK, fileVars, clientVars
  <1>6. LiveInv'
    BY <1>3, <1>4 DEF SlogInv, LiveInv, clientVars
  <1> QED
    BY <1>4, <1>5, <1>6 DEF SlogInv

\* A line is written to the file.
LEMMA OutputInv ==
  ASSUME SlogInv, NEW t \in Threads, Output(t)
  PROVE  SlogInv'
  <1>1. Goto(t, "unlock") /\ UNCHANGED <<tdSafe, mutex, cfg, today, clientVars, stamp>>
    BY DEF Output
  <1>2. Held(t)
    BY DEF Output, Held
  <1>3. /\ live
        /\ MutexInv'
        /\ pc' \in [Threads -> {"idle", "lock", "body", "callback", "output", "unlock"}]
    BY <1>1, <1>2, StayInside
  <1>4. cfg \in Config
    BY <1>3 DEF SlogInv, LiveInv
  <1>5. /\ filePath' \in File \cup {NULL}
        /\ handle' \in File \cup {NULL}
        /\ currDay' \in 0 .. MonthLength
        /\ line' \in Line \cup {NULL}
    <2>1. CASE cfg.toFile
      <3>1. stamp[t] \in 1 .. MaxDate
        BY DEF SlogInv, TypeOK
      <3> QED
        BY <1>4, <2>1, <3>1, OutputToFileType DEF Output
    <2>2. CASE ~ cfg.toFile
      BY <2>2 DEF Output, SlogInv, TypeOK, fileVars
    <2> QED
      BY <2>1, <2>2
  <1>6. TypeOK'
    BY <1>1, <1>3, <1>5 DEF SlogInv, TypeOK, clientVars
  <1>7. LiveInv'
    BY <1>1, <1>3, <1>4 DEF LiveInv, clientVars
  <1> QED
    BY <1>3, <1>6, <1>7 DEF SlogInv

\* All steps.
LEMMA NextSlogInv == SlogInv /\ [Next]_vars => SlogInv'
  <1> SUFFICES ASSUME SlogInv, [Next]_vars PROVE SlogInv'
    OBVIOUS
  <1>1. ASSUME NEW t \in Threads, Setter(t) PROVE SlogInv'
    <2>1. Held(t)
      BY <1>1 DEF Setter, Held
    <2> QED
      BY <1>1, <2>1, SetInv DEF Setter
  <1>2. ASSUME NEW t \in Threads, Callback(t) PROVE SlogInv'
    <2>1. Held(t)
      BY <1>2 DEF Callback, Held
    <2>2. PICK to \in {"output", "unlock"} : Goto(t, to)
      BY <1>2 DEF Callback
    <2> QED
      BY <1>2, <2>1, <2>2, SetInv DEF Callback
  <1>3. CASE Midnight
    <2>1. today' \in 1 .. MaxDate
      BY <1>3, SlogAssumption DEF Midnight, SlogInv, TypeOK
    <2>2. TypeOK'
      BY <1>3, <2>1 DEF Midnight, SlogInv, TypeOK, fileVars, clientVars
    <2>3. MutexInv'
      BY <1>3 DEF Midnight, SlogInv, MutexInv, Held, clientVars
    <2>4. LiveInv'
      BY <1>3 DEF Midnight, SlogInv, LiveInv, Quiet, fileVars, clientVars
    <2> QED
      BY <2>2, <2>3, <2>4 DEF SlogInv
  <1>4. CASE UNCHANGED vars
    BY <1>4 DEF vars, SlogInv, TypeOK, MutexInv, LiveInv, Held, Quiet, fileVars, clientVars
  <1> QED
    BY <1>1, <1>2, <1>3, <1>4, SlogInitInv, SlogDestroyInv, CallInv, LockInv, UnlockInv,
       DisplayInv, OutputInv DEF Next, Inside

\* The inductive invariant: types, who holds the mutex, and what a logger that
\* is not live has given up.
THEOREM SlogInvariant == Spec => []SlogInv
  BY InitSlogInv, NextSlogInv, PTL DEF Spec

\* The types of all variables (TypeOK); in particular no line is written
\* through a handle that is NULL (slog.c 423-425).
THEOREM SlogTypeCorrect == Spec => []TypeOK
  <1>1. SlogInv => TypeOK
    BY DEF SlogInv
  <1> QED
    BY <1>1, SlogInvariant, PTL

\* Bodies of calls never overlap (slog_sync_lock, slog_sync_unlock).
THEOREM SlogMutualExclusion == Spec => []MutualExclusion
  <1>1. SlogInv => MutualExclusion
    <2> SUFFICES ASSUME SlogInv, NEW t \in Threads, NEW u \in Threads,
                        Held(t), Held(u)
                 PROVE  t = u
      BY DEF MutualExclusion
    <2>1. CASE tdSafe = 1
      BY <2>1 DEF SlogInv, MutexInv
    <2>2. CASE tdSafe = 0
      BY <2>2 DEF SlogInv, MutexInv, Held
    <2> QED
      BY <2>1, <2>2 DEF SlogInv, TypeOK
  <1> QED
    BY <1>1, SlogInvariant, PTL

\* slog_init never overwrites the handle of an open file (slog.c 677).
THEOREM SlogNothingOpenWhenDead == Spec => []NothingOpenWhenDead
  <1>1. SlogInv => NothingOpenWhenDead
    BY DEF SlogInv, LiveInv, NothingOpenWhenDead
  <1> QED
    BY <1>1, SlogInvariant, PTL

-----------------------------------------------------------------------------
(* Lines and files.                                                        *)

\* A file, or none, that was named after the configured path no later than d.
NamedBy(f, d) == f # NULL => f.path = cfg.path /\ f.date <= d

\* The open file and the remembered name follow the configuration, and no
\* thread has opened a file since another one took the date of its line; the
\* remembered day is that of the last line that rotation let through.
FileInv ==
  /\ live => NamedBy(filePath, today) /\ NamedBy(handle, today)
  /\ \A t \in Threads : pc[t] \in {"callback", "output"} =>
       stamp[t] <= today /\ NamedBy(filePath, stamp[t]) /\ NamedBy(handle, stamp[t])
  /\ LineUnderItsName
  /\ line # NULL /\ line.rotate /\ handle # NULL => currDay = DayOf(line.date)

\* A setter keeps the open file only under its name.
LEMMA SetFiles ==
  ASSUME SlogInv, live, NEW d \in Nat,
         NamedBy(filePath, d), NamedBy(handle, d),
         \/ UNCHANGED <<cfg, fileVars>>
         \/ \E c \in Configs : ConfigSet(c)
         \/ (CallbackSet \/ SetFlags) /\ UNCHANGED fileVars
  PROVE  /\ filePath' # NULL => filePath'.path = cfg'.path /\ filePath'.date <= d
         /\ handle' # NULL => handle'.path = cfg'.path /\ handle'.date <= d
         /\ currDay' = currDay
         /\ handle' # NULL => handle' = handle
  <1>1. CASE UNCHANGED <<cfg, fileVars>>
    BY <1>1 DEF fileVars, NamedBy
  <1>2. CASE \E c \in Configs : ConfigSet(c)
    BY <1>2 DEF ConfigSet, NamedBy
  <1>3. CASE (CallbackSet \/ SetFlags) /\ UNCHANGED fileVars
    <2>1. cfg'.path = cfg.path
      BY <1>3, SettingType DEF SlogInv, LiveInv
    <2> QED
      BY <1>3, <2>1 DEF fileVars, NamedBy
  <1> QED
    BY <1>1, <1>2, <1>3

\* Only one thread displays a line at a time.
LEMMA OneDisplay ==
  ASSUME SlogInv, NEW t \in Threads, NEW u \in Threads, Held(t), u # t
  PROVE  pc[u] \notin {"callback", "output"}
  <1>1. CASE tdSafe = 1
    BY <1>1 DEF SlogInv, MutexInv, Held
  <1>2. CASE tdSafe = 0
    BY <1>2 DEF SlogInv, MutexInv, Held
  <1> QED
    BY <1>1, <1>2 DEF SlogInv, TypeOK

\* A thread that holds the mutex sets something, alone or in its callback.
LEMMA SetFileInv ==
  ASSUME SlogInv, FileInv, NEW t \in Threads, Held(t),
         NEW to \in {"output", "unlock"}, Goto(t, to),
         to = "output" => pc[t] = "callback",
         \/ UNCHANGED <<cfg, fileVars>>
         \/ \E c \in Configs : ConfigSet(c)
         \/ (CallbackSet \/ SetFlags) /\ UNCHANGED fileVars,
         UNCHANGED <<tdSafe, mutex, today, clientVars, stamp, line>>
  PROVE  FileInv'
  <1>1. live /\ today \in Nat /\ \A u \in Threads : stamp[u] \in Nat
    BY DEF SlogInv, LiveInv, Quiet, Held, TypeOK
  <1>2. NamedBy(filePath, today) /\ NamedBy(handle, today)
    BY <1>1 DEF FileInv
  <1>3. (live => NamedBy(filePath, today) /\ NamedBy(handle, today))'
    BY <1>1, <1>2, SetFiles DEF NamedBy, clientVars
  <1>4. ASSUME NEW u \in Threads, pc'[u] \in {"callback", "output"}
        PROVE  (stamp[u] <= today /\ NamedBy(filePath, stamp[u]) /\ NamedBy(handle, stamp[u]))'
    <2>1. pc' = [pc EXCEPT ![t] = to] /\ pc \in [Threads -> {"idle", "lock", "body", "callback", "output", "unlock"}]
      BY DEF Goto, SlogInv, TypeOK
    <2>2. u = t /\ pc[t] = "callback"
      BY <1>4, <2>1, OneDisplay
    <2>3. stamp[t] <= today /\ NamedBy(filePath, stamp[t]) /\ NamedBy(handle, stamp[t])
      BY <2>2 DEF FileInv
    <2> QED
      BY <1>1, <2>2, <2>3, SetFiles DEF NamedBy
  <1>5. LineUnderItsName'
    BY DEF FileInv, LineUnderItsName
  <1>6. (line # NULL /\ line.rotate /\ handle # NULL => currDay = DayOf(line.date))'
    BY <1>1, <1>2, SetFiles DEF FileInv, DayOf
  <1> QED
    BY <1>3, <1>4, <1>5, <1>6 DEF FileInv

\* Where a line goes: to the open file, which rotation has let through, or to a
\* newly opened one.
LEMMA OutputFiles ==
  ASSUME SlogInv, FileInv, live, NEW t \in Threads, pc[t] = "output",
         OutputToFile(stamp[t]), UNCHANGED cfg
  PROVE  LET d == stamp[t]
             own == [path |-> cfg.path, date |-> d]
         IN  /\ filePath' # NULL => filePath'.path = cfg.path /\ filePath'.date <= d
             /\ handle' # NULL => handle'.path = cfg.path /\ handle'.date <= d
             /\ \/ handle' = NULL /\ UNCHANGED line
                \/ \E f \in File :
                     /\ WriteLine(f, d)
                     /\ f.path = cfg.path /\ f.date <= d
                     /\ cfg.rotate => currDay' = DayOf(d)
                     /\ cfg.rotate => \/ f = own
                                      \/ handle = f /\ currDay = DayOf(d)
  <1> DEFINE d == stamp[t]
             own == [path |-> cfg.path, date |-> d]
  <1>1. cfg \in Config /\ handle \in File \cup {NULL} /\ filePath \in File \cup {NULL}
        /\ d \in 1 .. MaxDate /\ d \in Nat
    BY DEF SlogInv, LiveInv, TypeOK
  <1>2. NamedBy(filePath, d) /\ NamedBy(handle, d)
    BY DEF FileInv
  <1>3. own \in File /\ own # NULL
    BY <1>1, SlogAssumption DEF Config, File
  <1> HIDE DEF d
  <1>4. /\ OpenName(d) \in File
        /\ OpenName(d).path = cfg.path /\ OpenName(d).date <= d
        /\ cfg.rotate => OpenName(d) = own
    BY <1>1, <1>2, <1>3 DEF OpenName, NamedBy
  <1>5. ASSUME NEW f \in File, WriteLine(f, d), f.path = cfg.path, f.date <= d
        PROVE  handle' # NULL => handle'.path = cfg.path /\ handle'.date <= d
    BY <1>5 DEF WriteLine
  <1>6. CASE Current(d) # NULL
    <2>1. /\ handle # NULL /\ Current(d) = handle
          /\ cfg.rotate => currDay = DayOf(d)
      BY <1>6 DEF Current
    <2>2. WriteLine(handle, d) /\ UNCHANGED <<filePath, currDay>>
      BY <1>6, <2>1 DEF OutputToFile, d
    <2>3. handle \in File /\ handle.path = cfg.path /\ handle.date <= d
      BY <1>1, <1>2, <2>1 DEF NamedBy
    <2>4. filePath' # NULL => filePath'.path = cfg.path /\ filePath'.date <= d
      BY <1>2, <2>2 DEF NamedBy
    <2> QED
      BY <1>5, <2>1, <2>2, <2>3, <2>4 DEF d
  <1>7. CASE Current(d) = NULL
    <2>1. /\ filePath' = OpenName(d)
          /\ \/ currDay' = DayOf(d) /\ WriteLine(OpenName(d), d)
             \/ handle' = NULL /\ UNCHANGED <<currDay, line>>
      BY <1>7 DEF OutputToFile, d
    <2>2. filePath' # NULL => filePath'.path = cfg.path /\ filePath'.date <= d
      BY <1>4, <2>1
    <2>3. CASE currDay' = DayOf(d) /\ WriteLine(OpenName(d), d)
      BY <1>4, <1>5, <2>2, <2>3 DEF d
    <2>4. CASE handle' = NULL /\ UNCHANGED line
      BY <2>2, <2>4 DEF d
    <2> QED
      BY <2>1, <2>3, <2>4
  <1> QED
    BY <1>6, <1>7

\* A line is written.
LEMMA OutputFileInv ==
  ASSUME SlogInv, FileInv, NEW t \in Threads, Output(t)
  PROVE  FileInv'
  <1>1. /\ pc[t] = "output" /\ Held(t)
        /\ UNCHANGED <<tdSafe, mutex, cfg, today, clientVars, stamp>>
    BY DEF Output, Held
  <1>2. live /\ cfg \in Config /\ today \in Nat /\ stamp[t] \in Nat /\ stamp[t] <= today
    BY <1>1 DEF SlogInv, LiveInv, Quiet, TypeOK, FileInv
  <1>3. \A u \in Threads : pc'[u] \notin {"callback", "output"}
    BY <1>1, OneDisplay DEF Output, Goto, SlogInv, TypeOK
  <1>4. CASE ~ cfg.toFile
    BY <1>1, <1>3, <1>4 DEF Output, FileInv, NamedBy, LineUnderItsName, fileVars,
                            clientVars, DayOf
  <1>5. CASE cfg.toFile
    <2> DEFINE d == stamp[t]
    <2>1. OutputToFile(d)
      BY <1>5 DEF Output
    <2>2. /\ filePath' # NULL => filePath'.path = cfg.path /\ filePath'.date <= d
          /\ handle' # NULL => handle'.path = cfg.path /\ handle'.date <= d
          /\ \/ handle' = NULL /\ UNCHANGED line
             \/ \E f \in File :
                  /\ WriteLine(f, d)
                  /\ f.path = cfg.path /\ f.date <= d
                  /\ cfg.rotate => currDay' = DayOf(d)
      BY <1>1, <1>2, <2>1, OutputFiles
    <2>3. /\ filePath' \in File \cup {NULL} /\ handle' \in File \cup {NULL}
      BY <1>2, <2>1, OutputToFileType DEF SlogInv, TypeOK
    <2>4. (live => NamedBy(filePath, today) /\ NamedBy(handle, today))'
      BY <1>1, <1>2, <2>2, <2>3 DEF NamedBy, File
    <2>5. CASE handle' = NULL /\ UNCHANGED line
      BY <1>3, <2>4, <2>5 DEF FileInv, LineUnderItsName
    <2>6. ASSUME NEW f \in File, WriteLine(f, d), f.path = cfg.path, f.date <= d,
                 cfg.rotate => currDay' = DayOf(d)
          PROVE  FileInv'
      <3>1. line' = [file |-> f, path |-> cfg.path, date |-> d, rotate |-> cfg.rotate]
        BY <2>6 DEF WriteLine
      <3>2. LineUnderItsName'
        BY <2>6, <3>1 DEF LineUnderItsName
      <3>3. (line # NULL /\ line.rotate /\ handle # NULL => currDay = DayOf(line.date))'
        BY <2>6, <3>1 DEF DayOf
      <3> QED
        BY <1>3, <2>4, <3>2, <3>3 DEF FileInv
    <2> QED
      BY <2>2, <2>5, <2>6
  <1> QED
    BY <1>4, <1>5

\* A line takes its date, which is no earlier than that of any file.
LEMMA DisplayFileInv ==
  ASSUME SlogInv, FileInv, NEW t \in Threads, Display(t)
  PROVE  FileInv'
  <1>1. /\ Held(t)
        /\ UNCHANGED <<cfg, fileVars, today, clientVars, line>>
    BY DEF Display, Held
  <1>2. live /\ today \in Nat
    BY <1>1 DEF SlogInv, LiveInv, Quiet, Held, TypeOK
  <1>3. ASSUME NEW u \in Threads, pc'[u] \in {"callback", "output"}
        PROVE  u = t /\ stamp'[t] = today
    BY <1>1, <1>3, OneDisplay DEF Display, Goto, SlogInv, TypeOK
  <1>4. \A u \in Threads : pc'[u] \in {"callback", "output"} =>
          (stamp[u] <= today /\ NamedBy(filePath, stamp[u]) /\ NamedBy(handle, stamp[u]))'
    BY <1>1, <1>2, <1>3 DEF FileInv, NamedBy, fileVars
  <1> QED
    BY <1>1, <1>4 DEF FileInv, NamedBy, LineUnderItsName, fileVars, clientVars, DayOf

\* All steps.
LEMMA NextFileInv ==
  ASSUME SlogInv, FileInv, [Next]_vars
  PROVE  FileInv'
  <1>1. ASSUME NEW t \in Threads, SlogInit(t) PROVE FileInv'
    BY <1>1 DEF SlogInit, Quiet, FileInv, NamedBy, LineUnderItsName
  <1>2. ASSUME NEW t \in Threads, SlogDestroy(t) PROVE FileInv'
    BY <1>2 DEF SlogDestroy, Quiet, FileInv, NamedBy, LineUnderItsName
  <1>3. ASSUME NEW t \in Threads, Setter(t) PROVE FileInv'
    <2>1. Held(t)
      BY <1>3 DEF Setter, Held
    <2> QED
      BY <1>3, <2>1, SetFileInv DEF Setter
  <1>4. ASSUME NEW t \in Threads, Callback(t) PROVE FileInv'
    <2>1. Held(t) /\ pc[t] = "callback"
      BY <1>4 DEF Callback, Held
    <2>2. PICK to \in {"output", "unlock"} : Goto(t, to)
      BY <1>4 DEF Callback
    <2> QED
      BY <1>4, <2>1, <2>2, SetFileInv DEF Callback
  <1>5. ASSUME UNCHANGED <<cfg, fileVars, today, clientVars, stamp, line>>,
               \A u \in Threads : pc'[u] \in {"callback", "output"} => pc'[u] = pc[u]
        PROVE  FileInv'
    BY <1>5 DEF FileInv, NamedBy, LineUnderItsName, fileVars, clientVars, DayOf
  <1>6. ASSUME NEW t \in Threads, Call(t) \/ Lock(t) \/ Unlock(t)
        PROVE  FileInv'
    BY <1>5, <1>6 DEF Call, Lock, Unlock, Goto, SlogInv, TypeOK
  <1>7. CASE Midnight
    <2>1. today \in Nat /\ today' = today + 1 /\ \A t \in Threads : stamp[t] \in Nat
      BY <1>7 DEF Midnight, SlogInv, TypeOK
    <2>2. filePath \in File \cup {NULL} /\ handle \in File \cup {NULL}
      BY DEF SlogInv, TypeOK
    <2>3. UNCHANGED <<cfg, fileVars, clientVars, pc, stamp, line>>
      BY <1>7 DEF Midnight
    <2>4. (live => NamedBy(filePath, today) /\ NamedBy(handle, today))'
      BY <2>1, <2>2, <2>3 DEF FileInv, NamedBy, File, fileVars, clientVars
    <2>5. (\A t \in Threads : pc[t] \in {"callback", "output"} =>
            stamp[t] <= today /\ NamedBy(filePath, stamp[t]) /\ NamedBy(handle, stamp[t]))'
      BY <2>1, <2>3 DEF FileInv, NamedBy, fileVars
    <2> QED
      BY <2>3, <2>4, <2>5 DEF FileInv, LineUnderItsName, fileVars, DayOf
  <1>8. CASE UNCHANGED vars
    BY <1>5, <1>8 DEF vars
  <1> QED
    BY <1>1, <1>2, <1>3, <1>4, <1>6, <1>7, <1>8, OutputFileInv, DisplayFileInv
    DEF Next, Inside

THEOREM SlogFileInvariant == Spec => [](SlogInv /\ FileInv)
  <1>1. Init => FileInv
    BY DEF Init, FileInv, LineUnderItsName
  <1>2. SlogInv /\ FileInv /\ [Next]_vars => FileInv'
    BY NextFileInv
  <1> QED
    BY <1>1, <1>2, SlogInvariant, PTL DEF Spec

\* Every line is in a file of the configured name and of no later date, for any
\* threads, callbacks, reconfigurations, failures to open and lengths of a
\* month (slog_display_message, slog_open_file, slog_config_set).
THEOREM SlogLineUnderItsName == Spec => []LineUnderItsName
  <1>1. FileInv => LineUnderItsName
    BY DEF FileInv
  <1> QED
    BY <1>1, SlogFileInvariant, PTL

\* A line whose day of the month differs from the one before it opens the file
\* of its own date, however rotation, name and file were changed in between.
THEOREM SlogRotationSplitsDays == Spec => RotationSplitsDays
  <1>1. ASSUME SlogInv, FileInv, [Next]_vars,
               line' # line, line # NULL, line.rotate, line'.rotate,
               DayOf(line'.date) # DayOf(line.date)
        PROVE  line'.file = [path |-> line'.path, date |-> line'.date]
    <2>1. PICK t \in Threads : Output(t) /\ cfg.toFile
      BY <1>1 DEF Next, Inside, SlogInit, SlogDestroy, Call, Lock, Setter, Display,
                  Callback, Output, Unlock, Midnight, vars
    <2>2. pc[t] = "output" /\ OutputToFile(stamp[t]) /\ UNCHANGED cfg
      BY <2>1 DEF Output
    <2>3. live
      BY <1>1, <2>2 DEF SlogInv, LiveInv, Quiet
    <2>4. PICK f \in File :
            /\ WriteLine(f, stamp[t])
            /\ cfg.rotate => \/ f = [path |-> cfg.path, date |-> stamp[t]]
                             \/ handle = f /\ currDay = DayOf(stamp[t])
      BY <1>1, <2>2, <2>3, OutputFiles
    <2>5. line' = [file |-> f, path |-> cfg.path, date |-> stamp[t], rotate |-> cfg.rotate]
      BY <2>4 DEF WriteLine
    <2>6. f # NULL
      BY SlogAssumption
    <2>7. ~ (handle = f /\ currDay = DayOf(stamp[t]))
      BY <1>1, <2>5, <2>6 DEF FileInv, DayOf
    <2> QED
      BY <1>1, <2>4, <2>5, <2>7
  <1>2. SlogInv /\ FileInv /\ [Next]_vars
          => [/\ line' # line /\ line # NULL
              /\ line.rotate /\ line'.rotate
              /\ DayOf(line'.date) # DayOf(line.date)
              => line'.file = [path |-> line'.path, date |-> line'.date]]_vars
    BY <1>1
  <1> QED
    BY <1>2, SlogFileInvariant, PTL DEF Spec, RotationSplitsDays
=============================================================================
