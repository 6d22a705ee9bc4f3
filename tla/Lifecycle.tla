----------------------------- MODULE Lifecycle ------------------------------
(* The start and the end of the program: main (mumudvb.c) starts the        *)
(* threads one after the other, any step may fail and go to                 *)
(* mumudvb_close_goto, and mumudvb_close (mumudvb_mon.c) stops the threads  *)
(* and frees what they used, whatever was started.                          *)
EXTENDS Integers, Sequences, FiniteSets

CONSTANT Configs  \* records of BOOLEANs: daemon, threaded, hls, scam, cam, sap

VARIABLES
    config,
    at,         \* the step main is at
    alive,      \* the threads that run
    told,       \* those told to stop
    made,       \* what was made and not released
    released,
    timedout,   \* the threads whose join timed out
    why,        \* the first value of set_interrupted
    failed_at,  \* HISTORY the step that failed, or "none"
    exitcode    \* "none" while the program runs

lcVars == <<config, at, alive, told, made, released, timedout, why, failed_at, exitcode>>

Startup == <<"config", "lists", "open", "tune", "strength", "monitor", "hls", "getcw", "cam",
             "tables", "net", "sap", "card", "loop">>
Closing == <<"join_strength", "stop_card", "join_monitor", "stop_hls", "sockets", "ring", "fds",
             "stop_cam", "stop_getcw", "free_tables", "remove_lists", "remove_pid", "buffers", "log">>

After(list, step) == list[(CHOOSE i \in 1..Len(list) : list[i] = step) + 1]

Threads == {"strength", "monitor", "hls", "card", "cam", "getcw", "scam"}

\* What a thread uses until it ends.
Uses == [strength |-> {"fds", "log"},
         monitor |-> {"pmt", "ring", "fds", "sap", "log"},
         hls |-> {"slots", "dirs", "log"},
         card |-> {"mutex", "fds", "buffers", "log"},
         cam |-> {"session", "log"},
         getcw |-> {"log"},
         scam |-> {"ring", "sockets", "clients", "slots", "log"}]

Resources == (UNION {Uses[t] : t \in Threads}) \cup {"tables", "lists", "pidfile"}

TypeOK ==
    /\ config \in Configs
    /\ \E list \in {Startup, Closing} : \E i \in 1..Len(list) : at = list[i]
    /\ alive \subseteq Threads /\ told \subseteq Threads /\ timedout \subseteq Threads
    /\ made \subseteq Resources /\ released \subseteq Resources
    /\ why \in {"no", "signal", "error"}
    /\ exitcode \in {"none", "0", "error", "ERROR_DEL_FILE", "crash", "killed", "ERROR_TUNE"}

Init ==
    /\ config \in Configs /\ at = "config" /\ alive = {} /\ told = {} /\ made = {"log", "clients"}
    /\ released = {} /\ timedout = {} /\ why = "no" /\ failed_at = "none" /\ exitcode = "none"

Interrupt(value) == why' = IF why = "no" THEN value ELSE why

-----------------------------------------------------------------------------
(* main, up to the loop.                                                    *)

\* A step that succeeds: threads it starts and what it makes.
Passes(step, starts, makes) ==
    /\ at = step /\ exitcode = "none"
    /\ at' = After(Startup, step)
    /\ alive' = alive \cup starts /\ made' = made \cup makes
    /\ UNCHANGED <<config, told, released, timedout, why, failed_at, exitcode>>

If(condition, set) == IF condition THEN set ELSE {}

ReadConfig == Passes("config", {}, {})
CreateLists == \E created \in BOOLEAN : Passes("lists", {}, If(created, {"lists"}))
Open == Passes("open", {}, {"fds"} \cup If(config.daemon, {"pidfile"}))
Tune == Passes("tune", {}, {})
StartStrength == Passes("strength", {"strength"}, If(config.threaded, {"mutex"}))
StartMonitor == Passes("monitor", {"monitor"}, {})
StartHls == Passes("hls", If(config.hls, {"hls"}), If(config.hls, {"slots", "dirs"}))
StartGetcw == Passes("getcw", If(config.scam, {"getcw"}), {})
StartCam ==
    \E started \in BOOLEAN :
        Passes("cam", If(config.cam /\ started, {"cam"}), If(config.cam /\ started, {"session"}))
InitTables == Passes("tables", {}, {"tables", "pmt"})
UpdateNet == Passes("net", If(config.scam, {"scam"}), {"sockets"} \cup If(config.scam, {"ring"}))
InitSap == Passes("sap", {}, If(config.sap, {"sap"}))
StartCard == Passes("card", If(config.threaded, {"card"}), {"buffers"})

Start ==
    \/ ReadConfig \/ CreateLists \/ Open \/ Tune \/ StartStrength \/ StartMonitor \/ StartHls
    \/ StartGetcw \/ StartCam \/ InitTables \/ UpdateNet \/ InitSap \/ StartCard

\* A step that fails goes to mumudvb_close_goto; that of HLS sets no error.  When the card
\* cannot be tuned its descriptors are closed first.
Fails(step) ==
    /\ at = step /\ exitcode = "none"
    /\ step \in {"config", "open", "tune", "hls", "tables", "sap"}
    /\ step = "hls" => config.hls
    /\ step = "sap" => config.sap
    /\ at' = Closing[1] /\ failed_at' = step
    /\ IF step = "hls" THEN UNCHANGED why ELSE Interrupt("error")
    /\ made' = IF step = "tune" THEN made \ {"fds"} ELSE made
    /\ UNCHANGED <<config, alive, told, released, timedout, exitcode>>

\* The signals are caught once the card is tuned; before, they end the program where it is,
\* as the alarm of tuning_timeout does.
Signal ==
    /\ exitcode = "none" /\ at \notin {Closing[i] : i \in 1..Len(Closing)}
    /\ IF at \in {"config", "lists", "open", "tune"}
       THEN /\ exitcode' \in {"killed"} \cup If(at \in {"open", "tune"}, {"ERROR_TUNE"})
            /\ alive' = {} /\ UNCHANGED why
       ELSE Interrupt("signal") /\ UNCHANGED <<alive, exitcode>>
    /\ UNCHANGED <<config, at, told, made, released, timedout, failed_at>>

\* A thread, or main in the loop, meets an error.
Error ==
    /\ exitcode = "none" /\ (alive # {} \/ at = "loop")
    /\ Interrupt("error")
    /\ UNCHANGED <<config, at, alive, told, made, released, timedout, failed_at, exitcode>>

LoopEnds ==
    /\ at = "loop" /\ why # "no" /\ exitcode = "none"
    /\ at' = Closing[1]
    /\ UNCHANGED <<config, alive, told, made, released, timedout, why, failed_at, exitcode>>

-----------------------------------------------------------------------------
(* mumudvb_close.                                                           *)

Closes(step, stopping, releases) ==
    /\ at = step /\ exitcode = "none"
    /\ at' = After(Closing, step)
    /\ told' = told \cup stopping
    /\ released' = released \cup (releases \cap made) /\ made' = made \ releases
    /\ UNCHANGED <<config, why, failed_at, exitcode>>

\* pthread_timedjoin_np, for five seconds.
TimedJoin(step, t) ==
    /\ Closes(step, {t} \cap alive, {}) /\ UNCHANGED alive
    /\ timedout' = timedout \cup ({t} \cap alive)

\* A join begins when the thread is told to stop, and ends with it.
Tells(t) ==
    /\ exitcode = "none"
    /\ \/ at = "join_strength" /\ t = "strength"
       \/ at = "join_monitor" /\ t = "monitor"
       \/ at = "ring" /\ t = "scam" /\ "ring" \in made
       \/ at = "stop_cam" /\ t = "cam"
    /\ t \in alive \ told
    /\ told' = told \cup {t}
    /\ UNCHANGED <<config, at, alive, made, released, timedout, why, failed_at, exitcode>>

Unjoined(step, t, releases) ==
    /\ t \notin alive
    /\ Closes(step, {}, releases) /\ UNCHANGED <<alive, timedout>>

\* Slip of JoinMonitor: the thread is told and not waited for.
TellMonitor == Closes("join_monitor", {"monitor"} \cap alive, {}) /\ UNCHANGED <<alive, timedout>>

JoinStrength == TimedJoin("join_strength", "strength")
JoinMonitor == TimedJoin("join_monitor", "monitor")

\* The card thread and the HLS thread are told and not waited for, and what they use is
\* destroyed at once: the mutex, the slots.
StopCard == Closes("stop_card", {"card"} \cap alive, {"mutex"}) /\ UNCHANGED <<alive, timedout>>
StopHls == Closes("stop_hls", {"hls"} \cap alive, If("hls" \in alive, {"slots"})) /\ UNCHANGED <<alive, timedout>>
CloseSockets == Closes("sockets", {}, {"sockets", "pmt"}) /\ UNCHANGED <<alive, timedout>>
\* scam_channel_stop waits for the send thread and the decsa thread.
FreeRing == Unjoined("ring", "scam", {"ring"})
\* It is called for a channel marked for descrambling whose threads were never started, too.
FreeNoRing ==
    /\ at = "ring" /\ exitcode = "none" /\ config.scam /\ "ring" \notin made
    /\ exitcode' = "crash" /\ alive' = {}
    /\ UNCHANGED <<config, at, told, made, released, timedout, why, failed_at>>
CloseFds == Closes("fds", {}, {"fds", "clients"}) /\ UNCHANGED <<alive, timedout>>
StopCam == Unjoined("stop_cam", "cam", {"session"})
\* pthread_cancel, which no join follows.
StopGetcw == Closes("stop_getcw", {"getcw"} \cap alive, {}) /\ UNCHANGED <<alive, timedout>>
FreeTables == Closes("free_tables", {}, {"tables", "sap"}) /\ UNCHANGED <<alive, timedout>>

\* A file that cannot be removed ends the program.  Before the lists are opened their name is
\* not set, and is removed if what it holds by chance is not empty; a list that could not be
\* created is not removed.
Removes(step, file, wanted) ==
    IF wanted /\ file \notin made
    THEN /\ at = step /\ exitcode = "none"
         /\ exitcode' = "ERROR_DEL_FILE" /\ alive' = {}
         /\ UNCHANGED <<config, at, told, made, released, timedout, why, failed_at>>
    ELSE Closes(step, {}, {file}) /\ UNCHANGED <<alive, timedout>>
RemoveLists == \E garbage \in BOOLEAN : Removes("remove_lists", "lists", failed_at = "config" /\ garbage)
RemovePid == Removes("remove_pid", "pidfile", config.daemon)
FreeBuffers == Closes("buffers", {}, {"buffers", "dirs"}) /\ UNCHANGED <<alive, timedout>>
Exit ==
    /\ at = "log" /\ exitcode = "none"
    /\ exitcode' = IF why = "error" THEN "error" ELSE "0"
    /\ released' = released \cup {"log"} /\ made' = made \ {"log"}
    /\ UNCHANGED <<config, at, alive, told, timedout, why, failed_at>>

Close ==
    \/ (\E t \in Threads : Tells(t))
    \/ JoinStrength \/ StopCard \/ JoinMonitor \/ StopHls \/ CloseSockets \/ FreeRing
    \/ FreeNoRing \/ CloseFds \/ StopCam \/ StopGetcw \/ FreeTables \/ RemoveLists \/ RemovePid
    \/ FreeBuffers \/ Exit

\* A thread that was told to stop ends, in its own time; the card thread also ends with the loop.
ThreadEnds(t) ==
    /\ t \in alive /\ (t \in told \/ (t = "card" /\ why # "no"))
    /\ alive' = alive \ {t}
    /\ UNCHANGED <<config, at, told, made, released, timedout, why, failed_at, exitcode>>

Next ==
    \/ Start \/ (\E step \in {Startup[i] : i \in 1..Len(Startup)} : Fails(step))
    \/ Signal \/ Error \/ LoopEnds \/ Close \/ (\E t \in Threads : ThreadEnds(t))

Spec == Init /\ [][Next]_lcVars

-----------------------------------------------------------------------------

\* What mumudvb_close destroys under the threads it does not wait for, or too early.
Exposed == [card |-> Uses["card"], hls |-> Uses["hls"], getcw |-> {"log"},
            scam |-> {"sockets", "slots"}, strength |-> {}, monitor |-> {}, cam |-> {}]

\* The end is clean.  Nothing is freed while a thread uses it, but for those exposed and those
\* whose join timed out.  A program that exits by itself released all it made, threads and
\* files.  It exits with the error that ended it, unless the HLS directory failed, a file is
\* removed that was never made, or a ring is freed that was never made.
CleanEnd ==
    /\ \A t \in alive \ timedout : Uses[t] \cap released \subseteq Exposed[t]
    /\ exitcode \in {"0", "error"} =>
           /\ made = {} /\ alive \ timedout \subseteq {"card", "hls", "getcw"}
           /\ failed_at \notin {"none", "hls"} /\ exitcode = "0" => why = "signal"
    /\ exitcode = "ERROR_DEL_FILE" =>
           failed_at = "config" \/ (config.daemon /\ failed_at = "open")
    /\ exitcode = "crash" => config.scam /\ failed_at \in {"config", "open", "tune", "hls", "tables"}
=============================================================================
