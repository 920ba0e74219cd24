-------------------------------- MODULE Slog --------------------------------
(***************************************************************************)
(* The logger of src/src/slog.c: threads that call it through its mutex,   *)
(* and the daily log file.  Screen output, the text of a line and the      *)
(* settings that only shape the text (colours, date format, separator,     *)
(* indentation) are left out.                                              *)
(*                                                                         *)
(* A call is: take the mutex, do one of the bodies, release it.  Which     *)
(* body is decided once the mutex is taken: nothing happens before.        *)
(*                                                                         *)
(* The client is one that slog.h allows: it initialises a logger that is   *)
(* not live, destroys one that is, does neither while another thread is in *)
(* a call, and uses a logger initialised with nTdSafe = 0 from one thread. *)
(***************************************************************************)
EXTENDS Integers

CONSTANTS
  Threads,
  Paths,       \* pairs of sFilePath and sFileName
  Levels,      \* the log levels
  Configs,     \* the arguments of slog_config_set
  MonthLength, \* days in a month
  MaxDate,     \* bound on the date, counted in days from 1
  NULL

File == [path: Paths, date: 1 .. MaxDate]

\* The settings of slog_config_t that matter here; callback says whether
\* logCallback is set.
Config == [path: Paths, toFile: BOOLEAN, rotate: BOOLEAN, keepOpen: BOOLEAN,
           callback: BOOLEAN, nFlags: SUBSET Levels]

ASSUME SlogAssumption ==
  /\ Threads \cap {"none", "free"} = {}
  /\ Configs \subseteq Config
  /\ MonthLength \in Nat \ {0}
  /\ MaxDate \in Nat \ {0}
  /\ NULL \notin Paths \cup File

VARIABLES
  tdSafe,   \* g_slog.nTdSafe
  mutex,    \* g_slog.mutex: not initialised ("none"), "free", or its owner
  cfg,      \* g_slog.config
  filePath, \* logFile.sFilePath, a file name or NULL for the empty string
  currDay,  \* logFile.nCurrDay
  handle,   \* logFile.pHandle, the file it writes to or NULL
  today,
  live,     \* between slog_init and slog_destroy
  starter,  \* the thread that called slog_init
  pc,       \* pc[t]: where thread t is in a call
  stamp,    \* stamp[t]: ctx.date of the line that thread t is displaying
  line      \* the last line written to a file

fileVars == <<filePath, currDay, handle>>
clientVars == <<live, starter>>
vars == <<tdSafe, mutex, cfg, fileVars, today, clientVars, pc, stamp, line>>

Zero == [path |-> NULL, toFile |-> FALSE, rotate |-> FALSE, keepOpen |-> FALSE,
         callback |-> FALSE, nFlags |-> {}]

\* g_slog is static, so zeroed.
Init ==
  /\ tdSafe = 0
  /\ mutex = "none"
  /\ cfg = Zero
  /\ filePath = NULL
  /\ currDay = 0
  /\ handle = NULL
  /\ today = 1
  /\ live = FALSE
  /\ starter \in Threads
  /\ pc = [t \in Threads |-> "idle"]
  /\ stamp = [t \in Threads |-> 1]
  /\ line = NULL

Quiet == \A t \in Threads : pc[t] = "idle"

Goto(t, to) == pc' = [pc EXCEPT ![t] = to]

\* The day of the month.
DayOf(date) == ((date - 1) % MonthLength) + 1

-----------------------------------------------------------------------------
(* slog_init and slog_destroy.                                             *)

\* pHandle is set to NULL without a look at it.
SlogInit(t) ==
  /\ ~ live
  /\ Quiet
  /\ live' = TRUE
  /\ starter' = t
  /\ tdSafe' \in {0, 1}
  /\ mutex' = IF tdSafe' = 1 THEN "free" ELSE mutex
  /\ \E p \in Paths, f \in SUBSET Levels :
       cfg' = [path |-> p, toFile |-> FALSE, rotate |-> TRUE, keepOpen |-> TRUE,
               callback |-> FALSE, nFlags |-> f]
  /\ filePath' = NULL
  /\ currDay' = 0
  /\ handle' = NULL
  /\ UNCHANGED <<today, pc, stamp, line>>

\* A mutant: slog_destroy leaves the file open.
SlogDestroyKeepsFile(t) ==
  /\ live
  /\ Quiet
  /\ tdSafe = 1 \/ t = starter
  /\ live' = FALSE
  /\ cfg' = Zero
  /\ mutex' = "none"
  /\ tdSafe' = 0
  /\ UNCHANGED <<fileVars, today, starter, pc, stamp, line>>

SlogDestroy(t) ==
  /\ live
  /\ Quiet
  /\ tdSafe = 1 \/ t = starter
  /\ live' = FALSE
  /\ handle' = NULL
  /\ cfg' = Zero
  /\ mutex' = "none"
  /\ tdSafe' = 0
  /\ UNCHANGED <<filePath, currDay, today, starter, pc, stamp, line>>

-----------------------------------------------------------------------------
(* The mutex.                                                              *)

Call(t) ==
  /\ live
  /\ pc[t] = "idle"
  /\ tdSafe = 1 \/ t = starter
  /\ Goto(t, "lock")
  /\ UNCHANGED <<tdSafe, mutex, cfg, fileVars, today, clientVars, stamp, line>>

\* slog_sync_lock does nothing in a logger that is not thread safe.
Lock(t) ==
  /\ pc[t] = "lock"
  /\ \/ tdSafe = 0 /\ UNCHANGED mutex
     \/ tdSafe = 1 /\ mutex = "free" /\ mutex' = t
  /\ Goto(t, "body")
  /\ UNCHANGED <<tdSafe, cfg, fileVars, today, clientVars, stamp, line>>

Unlock(t) ==
  /\ pc[t] = "unlock"
  /\ mutex' = IF tdSafe = 1 THEN "free" ELSE mutex
  /\ Goto(t, "idle")
  /\ UNCHANGED <<tdSafe, cfg, fileVars, today, clientVars, stamp, line>>

-----------------------------------------------------------------------------
(* The setters.                                                            *)

\* A mutant: slog_config_set does not notice a new file name.
ConfigSetKeepsFile(c) ==
  /\ cfg' = c
  /\ IF c.toFile
       THEN UNCHANGED <<filePath, handle>>
       ELSE filePath' = NULL /\ handle' = NULL
  /\ UNCHANGED currDay

\* slog_config_set closes the file when it is no longer wanted or has another
\* name.
ConfigSet(c) ==
  /\ cfg' = c
  /\ IF c.toFile /\ c.path = cfg.path
       THEN UNCHANGED <<filePath, handle>>
       ELSE filePath' = NULL /\ handle' = NULL
  /\ UNCHANGED currDay

CallbackSet == \E b \in BOOLEAN : cfg' = [cfg EXCEPT !.callback = b]

\* slog_enable and slog_disable of one level, or of all.
SetFlags ==
  \E f \in Levels :
    \E new \in {cfg.nFlags \cup {f}, cfg.nFlags \ {f}, Levels, {}} :
      cfg' = [cfg EXCEPT !.nFlags = new]

Setter(t) ==
  /\ pc[t] = "body"
  /\ \/ \E c \in Configs : ConfigSet(c)
     \/ (CallbackSet \/ SetFlags) /\ UNCHANGED fileVars
  /\ Goto(t, "unlock")
  /\ UNCHANGED <<tdSafe, mutex, today, clientVars, stamp, line>>

-----------------------------------------------------------------------------
(* slog_display.                                                           *)

Wanted(level) == level \in cfg.nFlags /\ (cfg.callback \/ cfg.toFile)

\* The level check and slog_get_date.  A line that slog_display_heap has no
\* memory for ends like one that is not wanted.
Display(t) ==
  /\ pc[t] = "body"
  /\ \E level \in Levels :
       \/ Wanted(level) /\ stamp' = [stamp EXCEPT ![t] = today]
                        /\ Goto(t, IF cfg.callback THEN "callback" ELSE "output")
       \/ ~ Wanted(level) /\ Goto(t, "unlock") /\ UNCHANGED stamp
  /\ UNCHANGED <<tdSafe, mutex, cfg, fileVars, today, clientVars, line>>

\* A mutant: the mutex is not recursive, and a setter called back releases it.
CallbackReleases(t) ==
  /\ pc[t] = "callback"
  /\ \/ UNCHANGED <<cfg, fileVars, mutex>>
     \/ /\ \/ \E c \in Configs : ConfigSet(c)
           \/ (CallbackSet \/ SetFlags) /\ UNCHANGED fileVars
        /\ mutex' = IF tdSafe = 1 THEN "free" ELSE mutex
  /\ \E nCbVal \in {-1, 0, 1} : Goto(t, IF nCbVal < 0 THEN "unlock" ELSE "output")
  /\ UNCHANGED <<tdSafe, today, clientVars, stamp, line>>

\* logCallback.  It runs with the recursive mutex held and may itself call a
\* setter.  A negative result keeps the line out of the file.
Callback(t) ==
  /\ pc[t] = "callback"
  /\ \/ UNCHANGED <<cfg, fileVars>>
     \/ \E c \in Configs : ConfigSet(c)
     \/ (CallbackSet \/ SetFlags) /\ UNCHANGED fileVars
  /\ \E nCbVal \in {-1, 0, 1} : Goto(t, IF nCbVal < 0 THEN "unlock" ELSE "output")
  /\ UNCHANGED <<tdSafe, mutex, today, clientVars, stamp, line>>

\* A mutant: rotation does not close the file of another day.
CurrentForEver(date) == handle

\* The handle once a file of another day has been closed.
Current(date) == IF cfg.rotate /\ currDay # DayOf(date) THEN NULL ELSE handle

\* The name that slog_open_file opens.
OpenName(date) ==
  IF cfg.rotate \/ filePath = NULL THEN [path |-> cfg.path, date |-> date]
  ELSE filePath

\* fprintf to file f, and its close unless it is kept open.
WriteLine(f, date) ==
  /\ line' = [file |-> f, path |-> cfg.path, date |-> date, rotate |-> cfg.rotate]
  /\ handle' = IF cfg.keepOpen THEN f ELSE NULL

\* A mutant: the line is written although the file could not be opened.
OutputToFileIgnoresError(date) ==
  \/ /\ Current(date) # NULL
     /\ WriteLine(Current(date), date)
     /\ UNCHANGED <<filePath, currDay>>
  \/ /\ Current(date) = NULL
     /\ filePath' = OpenName(date)
     /\ \/ currDay' = DayOf(date) /\ WriteLine(OpenName(date), date)
        \/ UNCHANGED currDay /\ WriteLine(NULL, date)

OutputToFile(date) ==
  \/ /\ Current(date) # NULL
     /\ WriteLine(Current(date), date)
     /\ UNCHANGED <<filePath, currDay>>
  \/ /\ Current(date) = NULL
     /\ filePath' = OpenName(date)
     /\ \/ currDay' = DayOf(date) /\ WriteLine(OpenName(date), date)
        \/ handle' = NULL /\ UNCHANGED <<currDay, line>>

\* A mutant: a line whose file cannot be opened is started over.
OutputRetries(t) ==
  /\ pc[t] = "output"
  /\ IF cfg.toFile THEN OutputToFile(stamp[t]) ELSE UNCHANGED <<fileVars, line>>
  /\ Goto(t, IF cfg.toFile /\ cfg.keepOpen /\ handle' = NULL THEN "body" ELSE "unlock")
  /\ UNCHANGED <<tdSafe, mutex, cfg, today, clientVars, stamp>>

Output(t) ==
  /\ pc[t] = "output"
  /\ IF cfg.toFile THEN OutputToFile(stamp[t]) ELSE UNCHANGED <<fileVars, line>>
  /\ Goto(t, "unlock")
  /\ UNCHANGED <<tdSafe, mutex, cfg, today, clientVars, stamp>>

-----------------------------------------------------------------------------

Midnight ==
  /\ today < MaxDate
  /\ today' = today + 1
  /\ UNCHANGED <<tdSafe, mutex, cfg, fileVars, clientVars, pc, stamp, line>>

\* The steps of a call once it has the mutex.
Inside(t) == Setter(t) \/ Display(t) \/ Callback(t) \/ Output(t) \/ Unlock(t)

Next ==
  \/ \E t \in Threads :
       SlogInit(t) \/ SlogDestroy(t) \/ Call(t) \/ Lock(t) \/ Inside(t)
  \/ Midnight

Spec == Init /\ [][Next]_vars

\* A thread that is scheduled, and a callback that returns.  Nothing is
\* assumed of the order in which the mutex is granted.
FairSpec == Spec /\ \A t \in Threads : WF_vars(Inside(t))

-----------------------------------------------------------------------------
(* Properties.                                                             *)

Held(t) == pc[t] \in {"body", "callback", "output", "unlock"}

Line == [file: File, path: Paths, date: 1 .. MaxDate, rotate: BOOLEAN]

\* The types of all variables; a line is only ever written to an open file.
TypeOK ==
  /\ tdSafe \in {0, 1}
  /\ mutex \in Threads \cup {"none", "free"}
  /\ cfg \in Config \cup {Zero}
  /\ filePath \in File \cup {NULL}
  /\ currDay \in 0 .. MonthLength
  /\ handle \in File \cup {NULL}
  /\ today \in 1 .. MaxDate
  /\ live \in BOOLEAN
  /\ starter \in Threads
  /\ pc \in [Threads -> {"idle", "lock", "body", "callback", "output", "unlock"}]
  /\ stamp \in [Threads -> 1 .. MaxDate]
  /\ line \in Line \cup {NULL}

\* The bodies of two calls never overlap, whether the logger is thread safe
\* or used from one thread, and although callbacks call back into it
\* (slog_sync_lock and slog_sync_unlock around every body).
MutualExclusion ==
  \A t, u \in Threads : Held(t) /\ Held(u) => t = u

\* A logger that is not live has no open file, so that the next slog_init,
\* which forgets the handle, leaks none (slog.c 677, 694).
NothingOpenWhenDead == ~ live => handle = NULL

\* A line goes to a file of the name configured when it is written, and never
\* to one named after a later day, whatever was reconfigured (by another
\* thread, or by the callback of the line itself), failed to open, was kept
\* open, or passed midnight before (slog.c 264-293, 422-429, 569-575).
LineUnderItsName ==
  line # NULL => line.file.path = line.path /\ line.file.date <= line.date

\* While rotation is on (slog.h 170), a line whose day of the month is not that
\* of the line before goes to the file of its own date: no stale handle or
\* remembered name gets in between (slog.c 268, 292, 422).
RotationSplitsDays ==
  [][/\ line' # line /\ line # NULL
     /\ line.rotate /\ line'.rotate
     /\ DayOf(line'.date) # DayOf(line.date)
     => line'.file = [path |-> line'.path, date |-> line'.date]]_vars

\* A call that has taken the mutex gives it back, on every path out of it.
MutexReleased == \A t \in Threads : mutex = t ~> mutex # t
=============================================================================
