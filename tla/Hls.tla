-------------------------------- MODULE Hls ---------------------------------
(* The HLS files (hls.c).  What a channel sends is written, under           *)
(* hls_periodic_lock, by the thread that sends it; a periodic thread rotates *)
(* the chunks, removes channels that are silent and writes the master       *)
(* playlist.  A chunk is the service and the second it was opened in, which *)
(* is what its name is made of.  Files that cannot be opened, and the       *)
(* position of I-frames, are left out.                                      *)
EXTENDS Integers, Sequences, SequencesExt, FiniteSets, FiniteSetsExt

CONSTANTS
    HlsServices,           \* service ids
    hls_rotate_time,
    hls_rotate_count,
    hls_rotate_iframe,     \* BOOLEAN
    playlist_ignore_dead,  \* BOOLEAN
    MaxHlsNow              \* bound on the time

\* Program number 0 is no service; smaller times and counts are forced to 1 (unicast_http.c:315).
HlsAssumption ==
    /\ HlsServices \subseteq Nat \ {0} /\ HlsServices # {} /\ IsFiniteSet(HlsServices)
    /\ hls_rotate_time \in Nat \ {0} /\ hls_rotate_count \in Nat \ {0}
    /\ {hls_rotate_iframe, playlist_ignore_dead} \subseteq BOOLEAN /\ MaxHlsNow \in Nat

VARIABLES
    hls_now,
    hls_fds,        \* per slot: the channel written there, or Free
    chunks,         \* files on disk
    playlist,       \* per service: the chunks its playlist names, or NoFile
    master,         \* the services the master playlist names, or NoMaster
    metrics,        \* the metrics file exists
    task,           \* the periodic thread: what it does next, slot, cur_time
    wake,           \* when it wakes up
    master_time, checksum,  \* master_playlist_timestamp, master_playlist_checksum
    hls_stopped,    \* hls_stop was called
    twice,          \* HISTORY services with a chunk opened twice in a second
    collided,       \* HISTORY the checksum stayed the same though the services changed
    late            \* HISTORY something was written after hls_stop

hlsVars == <<hls_now, hls_fds, chunks, playlist, master, metrics, task, wake, master_time,
             checksum, hls_stopped, twice, collided, late>>

Slots == 0..Cardinality(HlsServices) - 1
Free == [sid |-> 0, filenames |-> <<>>, access |-> 0, rotate |-> 0, need_rotate |-> FALSE,
         sequence |-> 0, traffic |-> FALSE]
NoFile == <<-1>>
NoMaster == {0}
Initialized(e) == hls_fds[e].sid # 0

TypeOK ==
    /\ hls_now \in 0..MaxHlsNow
    /\ \A e \in Slots :
         /\ hls_fds[e].sid \in HlsServices \cup {0}
         /\ Len(hls_fds[e].filenames) <= hls_rotate_count + 1
         /\ hls_fds[e].need_rotate => hls_rotate_iframe
    /\ chunks \subseteq HlsServices \X (0..MaxHlsNow)
    /\ task.at \in {"sleep", "scan", "rotate", "master", "metrics"} /\ task.slot \in Slots
    /\ wake \in 0..MaxHlsNow + hls_rotate_time
    /\ playlist \in [HlsServices -> Seq(Int)] /\ master \in (SUBSET HlsServices) \cup {NoMaster}
    /\ {metrics, hls_stopped, collided, late} \subseteq BOOLEAN /\ twice \subseteq HlsServices

Init ==
    /\ hls_now = 0 /\ hls_fds = [e \in Slots |-> Free] /\ chunks = {}
    /\ playlist = [s \in HlsServices |-> NoFile] /\ master = NoMaster /\ metrics = FALSE
    /\ task = [at |-> "scan", slot |-> 0, cur |-> 0] /\ wake = 0
    /\ master_time = -(hls_rotate_time + 1) /\ checksum = 0
    /\ hls_stopped = FALSE /\ twice = {} /\ collided = FALSE /\ late = FALSE

-----------------------------------------------------------------------------
(* hls_entry_rotate and hls_entry_initialize.                               *)

\* Slip of Full: the chunk that was being written is counted with those of the playlist.
FullBefore(names) == Len(names) = hls_rotate_count + 1
Full(names) == Len(names) = hls_rotate_count + 2

\* The chunks of a channel, newest first: the one being written, the hls_rotate_count of the
\* playlist, and one that is removed.
Rotated(entry, time) ==
    LET names == <<time>> \o entry.filenames
    IN  [entry |-> [entry EXCEPT !.filenames = IF Full(names) THEN Front(names) ELSE names,
                                 !.rotate = time, !.need_rotate = FALSE, !.sequence = @ + 1],
         listed |-> IF entry.sequence >= hls_rotate_count - 1
                    THEN [k \in 1..Min({Len(names) - 1, hls_rotate_count}) |-> names[k + 1]]
                    ELSE NoFile,
         removed |-> IF Full(names) THEN {<<entry.sid, Last(names)>>} ELSE {}]

\* The playlist is written, the new chunk opened, the oldest removed.
Rotate(e, entry, time) ==
    LET r == Rotated(entry, time)
        s == entry.sid
    IN  /\ hls_fds' = [hls_fds EXCEPT ![e] = r.entry]
        /\ playlist' = IF r.listed = NoFile THEN playlist ELSE [playlist EXCEPT ![s] = r.listed]
        /\ chunks' = (chunks \cup {<<s, time>>}) \ r.removed
        /\ twice' = IF \E k \in 1..Len(entry.filenames) : entry.filenames[k] = time
                    THEN twice \cup {s} ELSE twice

\* hls_entry_initialize: the first chunk of the service is opened.
Initialize(s, time) == [Free EXCEPT !.sid = s, !.filenames = <<time>>, !.access = time,
                                    !.rotate = time]

-----------------------------------------------------------------------------
(* hls_worker_main, for each buffer a channel sends.                        *)

\* The slot of the service, or else the first free one.
EntryFind(s) ==
    LET used == {e \in Slots : hls_fds[e].sid = s}
    IN  Min(IF used # {} THEN used ELSE {e \in Slots : ~Initialized(e)})

Worker(s) ==
    /\ ~late
    /\ \E iframe \in BOOLEAN, traffic \in IF playlist_ignore_dead THEN BOOLEAN ELSE {TRUE} :
         LET e == EntryFind(s)
             found == IF Initialized(e) THEN hls_fds[e] ELSE Initialize(s, hls_now)
             entry == [found EXCEPT !.access = hls_now, !.traffic = traffic]
         IN  IF entry.need_rotate /\ iframe
             THEN Rotate(e, entry, hls_now)
             ELSE /\ hls_fds' = [hls_fds EXCEPT ![e] = entry]
                  /\ chunks' = IF Initialized(e) THEN chunks ELSE chunks \cup {<<s, hls_now>>}
                  /\ UNCHANGED <<playlist, twice>>
    /\ late' = hls_stopped
    /\ UNCHANGED <<hls_now, master, metrics, task, wake, master_time, checksum, hls_stopped,
                   collided>>

-----------------------------------------------------------------------------
(* hls_periodic_task.                                                       *)

Begins ==
    /\ task.at = "sleep" /\ hls_now >= wake /\ ~hls_stopped
    /\ task' = [at |-> "scan", slot |-> 0, cur |-> hls_now]
    /\ UNCHANGED <<hls_now, hls_fds, chunks, playlist, master, metrics, wake, master_time,
                   checksum, hls_stopped, twice, collided, late>>

NextSlot == IF task.slot + 1 \in Slots THEN [task EXCEPT !.at = "scan", !.slot = @ + 1]
            ELSE [task EXCEPT !.at = "master"]

\* The age of the chunk is looked at without the lock.
Scans ==
    /\ task.at = "scan"
    /\ LET entry == hls_fds[task.slot]
       IN  task' = IF Initialized(task.slot) /\ entry.rotate < task.cur - hls_rotate_time
                   THEN [task EXCEPT !.at = "rotate"] ELSE NextSlot
    /\ UNCHANGED <<hls_now, hls_fds, chunks, playlist, master, metrics, wake, master_time,
                   checksum, hls_stopped, twice, collided, late>>

\* With the lock: an I-frame is waited for at first.
RotatesOrAsks ==
    /\ task.at = "rotate"
    /\ LET entry == hls_fds[task.slot]
       IN  IF ~entry.need_rotate /\ hls_rotate_iframe
           THEN /\ hls_fds' = [hls_fds EXCEPT ![task.slot].need_rotate = TRUE]
                /\ UNCHANGED <<chunks, playlist, twice>>
           ELSE IF Initialized(task.slot) THEN Rotate(task.slot, entry, task.cur)
           ELSE UNCHANGED <<hls_fds, chunks, playlist, twice>>
    /\ task' = NextSlot
    /\ UNCHANGED <<hls_now, master, metrics, wake, master_time, checksum, hls_stopped,
                   collided, late>>

TooOld(e) == Initialized(e) /\ hls_fds[e].access < task.cur - 3 * hls_rotate_time

\* hls_entry_destroy
Destroy(slots) ==
    LET gone == {hls_fds[e].sid : e \in slots}
    IN  /\ hls_fds' = [e \in Slots |-> IF e \in slots THEN Free ELSE hls_fds[e]]
        /\ chunks' = chunks \ UNION {{<<hls_fds[e].sid, t>> : t \in ToSet(hls_fds[e].filenames)} : e \in slots}
        /\ playlist' = [s \in HlsServices |-> IF s \in gone THEN NoFile ELSE playlist[s]]

\* The channels of the master playlist: with a chunk that is complete, and with traffic.
Active(fds) == {e \in Slots : /\ fds[e].sid # 0 /\ fds[e].sequence > 0
                              /\ playlist_ignore_dead => fds[e].traffic}
Services(fds) == {fds[e].sid : e \in Active(fds)}

\* hls_array_cleanup and hls_playlist_master: the playlist is written again when its checksum,
\* a sum of slots and service ids, has changed.
MasterRound ==
    /\ task.at = "master"
    /\ task' = [task EXCEPT !.at = "metrics"]
    /\ IF master_time < task.cur - hls_rotate_time
       THEN /\ Destroy({e \in Slots : TooOld(e)})
            /\ master_time' = task.cur
            /\ checksum' = MapThenSumSet(LAMBDA e : e + hls_fds'[e].sid, Active(hls_fds'))
            /\ master' = IF checksum' = checksum THEN master ELSE Services(hls_fds')
            /\ collided' = (checksum' = checksum /\ Services(hls_fds') # master \ NoMaster)
            /\ late' = (late \/ (hls_stopped /\ checksum' # checksum))
       ELSE UNCHANGED <<hls_fds, chunks, playlist, master, master_time, checksum, collided, late>>
    /\ UNCHANGED <<hls_now, metrics, wake, hls_stopped, twice>>

WritesMetrics ==
    /\ task.at = "metrics"
    /\ metrics' = TRUE /\ late' = (late \/ hls_stopped)
    /\ task' = [at |-> "sleep", slot |-> 0, cur |-> 0] /\ wake' = hls_now + hls_rotate_time
    /\ UNCHANGED <<hls_now, hls_fds, chunks, playlist, master, master_time, checksum,
                   hls_stopped, twice, collided>>

-----------------------------------------------------------------------------
(* hls_stop, at exit.  Neither the periodic thread nor the threads that send *)
(* descrambled channels have been joined.                                   *)

Stop ==
    /\ ~hls_stopped /\ hls_stopped' = TRUE
    /\ Destroy({e \in Slots : Initialized(e)})
    /\ master' = NoMaster /\ metrics' = FALSE
    /\ UNCHANGED <<hls_now, task, wake, master_time, checksum, twice, collided, late>>

\* The periodic thread is on time.
Tick ==
    /\ hls_now < MaxHlsNow /\ task.at = "sleep" /\ hls_now < wake /\ ~hls_stopped
    /\ hls_now' = hls_now + 1
    /\ UNCHANGED <<hls_fds, chunks, playlist, master, metrics, task, wake, master_time,
                   checksum, hls_stopped, twice, collided, late>>

Next ==
    \/ \E s \in HlsServices : Worker(s)
    \/ Begins \/ Scans \/ RotatesOrAsks \/ MasterRound \/ WritesMetrics
    \/ Stop \/ Tick

Spec == Init /\ [][Next]_hlsVars

-----------------------------------------------------------------------------

\* Every chunk on disk belongs to a channel that will remove it, every chunk a playlist names
\* is on disk, unless one was opened twice in a second, and a channel the last round kept in
\* the master playlist is still written, unless the checksum did not tell.
FilesAgree ==
    /\ \A f \in chunks : \E e \in Slots : hls_fds[e].sid = f[1] /\ f[2] \in ToSet(hls_fds[e].filenames)
    /\ \A s \in HlsServices \ twice :
         playlist[s] # NoFile => \A k \in 1..Len(playlist[s]) : <<s, playlist[s][k]>> \in chunks
    /\ master # NoMaster /\ ~collided /\ ~hls_stopped =>
         \A s \in master : \E e \in Slots : hls_fds[e].sid = s

\* A chunk is written for at most 3 periods (2 without I-frames): a chunk that is exactly a
\* period old is not rotated yet.
ChunkBounded ==
    \A e \in Slots : Initialized(e) =>
        hls_now - hls_fds[e].rotate <= (IF hls_rotate_iframe THEN 3 ELSE 2) * hls_rotate_time

\* hls_stop leaves nothing behind, when no thread was late.
NothingLeft ==
    hls_stopped /\ ~late =>
        chunks = {} /\ master = NoMaster /\ ~metrics /\ \A s \in HlsServices : playlist[s] = NoFile
=============================================================================
