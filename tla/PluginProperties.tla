-------------------------- MODULE PluginProperties --------------------------
(***************************************************************************)
(* What holds from one start of the player to its end, and over its end.   *)
(***************************************************************************)
EXTENDS Plugin

\* A rest is never longer than maxSleepMs, whatever is doubled how often.
PluginTypeOK ==
    /\ phase \in {"off", "starting", "started", "failed", "connected", "disconnected"}
    /\ file \in {Absent, Torn} \cup {Whole(s) : s \in Settings}
    /\ settings_ \in Settings /\ draft \in Settings /\ wanted \subseteq Settings
    /\ gui \in {"idle", "dialog", "saving", "stored"}
    /\ db_ \in BOOLEAN /\ widget \in BOOLEAN
    /\ call \in {"none", "destroy", "disconnect"}
    /\ tpc \in {"none", "loop", "roots", "initial", "scan", "test", "slice", "woken", "tail",
                "ended"}
    /\ stop_ \in BOOLEAN /\ restart_ \in BOOLEAN /\ continue_ \in BOOLEAN /\ bound \in BOOLEAN
    /\ sleepTimeMs \in sleepMs .. maxSleepMs /\ slept \in Nat /\ delay \in Nat

InUse == phase \in {"started", "connected", "disconnected"}

\* The plugin never works with settings the user has not chosen, wherever in a
\* save the player was killed: taking a torn file for an empty one would have the
\* next scan delete the whole library.
UsersSettings == InUse => settings_ \in wanted

\* What is in force is what the next start will read, except during a save.
NextStartReadsTheSame == InUse /\ gui # "saving" => file = Whole(settings_)

\* The thread is gone before the database, the widget with its Dispatcher, and the
\* plugin, to all of which it has references; ~Impl's assert(!pScanThread_).
ThreadHasItsObjects == tpc # "none" => phase = "connected" /\ db_ /\ widget

\* A thread at rest notices a request within one slice, though its lock locks
\* nothing and the notification may come when it is not waiting.
RequestsAreNoticed == delay <= sleepMs

\* The player never hangs in destroyWidget or disconnect.
JoinsReturn == call # "none" ~> call = "none"

-----------------------------------------------------------------------------
(* The inductive invariant behind them. *)

\* The settings on disk, unless torn, are the user's, and those in memory are the
\* ones on disk.
SettingsAgree ==
    /\ file.state # "torn" => file.dirs \in wanted
    /\ phase \in {"off", "starting"} => settings_ = NoDirs
    /\ phase = "starting" => NoDirs \in wanted
    /\ gui # "idle" => phase \in {"connected", "disconnected"}
    /\ call = "disconnect" => phase = "connected"
    /\ UsersSettings
    /\ NextStartReadsTheSame

\* The time a request has waited is counted from one slice to the check after it.
DelayIsOneSlice ==
    /\ tpc # "woken" => delay = 0
    /\ delay # 0 => shouldBreak /\ delay = sleepMs

=============================================================================
