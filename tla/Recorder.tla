------------------------------ MODULE Recorder -------------------------------
(***************************************************************************)
(* record.c for one arena: a game is recorded by callbacks of the main     *)
(* thread, which queue events for a thread that writes them, and played    *)
(* back by another, with fake players.  recmtx makes a step of each        *)
(* command; they, as the callbacks of players, run in the main thread.     *)
(***************************************************************************)
EXTENDS Clients

CONSTANT
    Recordings  \* the names of files

VARIABLES
    recstate,   \* state: "none", "recording" or "playing"
    fname,      \* the file, while it is open
    files,      \* what is in each
    mpq,        \* what is queued for the thread
    recthd,     \* the recorder: "none", "runs", "fails" or, at its end, "done"
    joining,    \* stop_recording waits for it, recmtx held
    playthd,    \* the player: "none", "begins" or "runs"
    place,      \* how many events it has read
    paused,     \* ispaused
    pidmap,     \* the pids it has a fake player for
    fakes,      \* how many of its fake players there are
    lockspec    \* the enforcer that keeps everybody in spec

recvars == <<recstate, fname, files, mpq, recthd, joining, playthd, place, paused, pidmap, fakes,
             lockspec>>

Event(type, p) == [type |-> type, pid |-> p]
Command(type) == [type |-> type, pid |-> NoPlayer]

\* done: the header says "asssgame", and how many events there are.
NoGame == [done |-> FALSE, events |-> <<>>]

RecorderInit ==
    /\ recstate = "none" /\ fname \in Recordings /\ files = [f \in Recordings |-> NoGame]
    /\ mpq = <<>> /\ recthd = "none" /\ joining = FALSE
    /\ playthd = "none" /\ place = 0 /\ paused = FALSE /\ pidmap = {} /\ fakes = 0
    /\ lockspec = FALSE

MainRuns == ~joining

\* process_player_states sets S_PLAYING and calls PA_ENTERARENA before any command runs.
MayCommand == MainRuns /\ \A p \in Players : phase[p] # "arriving"

----------------------------------------------------------------------------
(* Recording.                                                              *)

\* Mistaken variant: the callbacks are there and nobody is told who was before.
FromNowOn == <<>>

\* write_current_players.
CurrentPlayers ==
    LET here == {p \in Players : phase[p] \in {"arriving", "playing"}}
    IN  [i \in 1 .. Cardinality(here) |-> Event("enter", SetToSeq(here)[i])]

StartRecording ==
    /\ MayCommand /\ recstate = "none" /\ recstate' = "recording"
    /\ \E f \in Recordings :
          fname' = f /\ files' = [files EXCEPT ![f] = [done |-> FALSE, events |-> CurrentPlayers]]
    /\ mpq' = <<>> /\ recthd' = "runs"
    /\ UNCHANGED <<conf, clientvars, joining, playthd, place, paused, pidmap, fakes, lockspec>>

\* Mistaken variant: cb_paction forgets that players leave.
OnlyEntries(p, action) ==
    /\ mpq' = IF recstate = "recording" /\ action = "enter" THEN Append(mpq, Event(action, p)) ELSE mpq
    /\ UNCHANGED <<recstate, fname, files, recthd, joining, playthd, place, paused, pidmap, fakes,
                   lockspec>>

\* cb_paction and the other callbacks, registered while the state is recording.
Records(p, action) ==
    /\ mpq' = IF recstate = "recording" THEN Append(mpq, Event(action, p)) ELSE mpq
    /\ UNCHANGED <<recstate, fname, files, recthd, joining, playthd, place, paused, pidmap, fakes,
                   lockspec>>

\* Bound: on the length of a game.
Room == recstate = "recording" => Len(files[fname].events) + Len(mpq) < conf.events

\* cb_shipchange, cb_freqchange, cb_kill, cb_chat, ppk.
Happens(p) ==
    /\ MayCommand /\ recstate = "recording" /\ phase[p] = "playing" /\ Room
    /\ Records(p, "other") /\ UNCHANGED <<conf, clientvars>>

\* recorder_thread: it writes, or, if the disk is full, does not.
RecorderThread ==
    /\ recthd = "runs" /\ mpq # <<>> /\ mpq' = Tail(mpq)
    /\ \/ /\ Head(mpq) = Command("end") /\ recthd' = "done" /\ UNCHANGED files
       \/ /\ Head(mpq) # Command("end")
          /\ files' = [files EXCEPT ![fname].events = Append(@, Head(mpq))] /\ UNCHANGED recthd
       \/ /\ Head(mpq) # Command("end")
          /\ conf.fails = "anytime" \/ (conf.fails = "running" /\ ~joining)
          /\ recthd' = "fails" /\ UNCHANGED files
    /\ UNCHANGED <<conf, clientvars, recstate, fname, joining, playthd, place, paused, pidmap, fakes,
                   lockspec>>

\* stop_recording by a command, or for AA_DESTROY: up to pthread_join ...
StopRecording ==
    /\ MayCommand /\ recstate = "recording" /\ recstate' = "none"
    /\ mpq' = Append(mpq, Command("end")) /\ joining' = TRUE
    /\ UNCHANGED <<conf, clientvars, fname, files, recthd, playthd, place, paused, pidmap, fakes,
                   lockspec>>

\* The file gets its header, if it can be opened again, and the queue goes.
Finished ==
    /\ files' \in {files, [files EXCEPT ![fname].done = TRUE]}
    /\ mpq' = <<>> /\ recthd' = "none"

\* ... and after it.
StopJoins ==
    /\ joining /\ recthd = "done" /\ Finished /\ joining' = FALSE
    /\ UNCHANGED <<conf, clientvars, recstate, fname, playthd, place, paused, pidmap, fakes, lockspec>>

\* stop_recording by the recorder itself, when recmtx is free.
Suicide ==
    /\ recthd = "fails" /\ ~joining /\ Finished
    /\ recstate' = IF recstate = "recording" THEN "none" ELSE recstate
    /\ UNCHANGED <<conf, clientvars, fname, joining, playthd, place, paused, pidmap, fakes, lockspec>>

----------------------------------------------------------------------------
(* Playback.                                                               *)

StartPlayback ==
    /\ MayCommand /\ recstate = "none"
    /\ \E f \in Recordings : files[f].done /\ fname' = f
    /\ recstate' = "playing" /\ mpq' = <<>> /\ playthd' = "begins"
    /\ UNCHANGED <<conf, clientvars, files, recthd, joining, place, paused, pidmap, fakes, lockspec>>

\* stop_playback; ?gamerecord pause, and play without a file.
Tell ==
    /\ MayCommand /\ recstate = "playing" /\ mpq = <<>>
    /\ \E command \in {"stop"} \cup {IF paused THEN "resume" ELSE "pause"} :
          mpq' = <<Command(command)>>
    /\ UNCHANGED <<conf, clientvars, recstate, fname, files, recthd, joining, playthd, place, paused,
                   pidmap, fakes, lockspec>>

\* lock_all_spec.
PlaybackBegins ==
    /\ playthd = "begins" /\ playthd' = "runs" /\ lockspec' = TRUE
    /\ place' = 0 /\ paused' = FALSE /\ pidmap' = {}
    /\ UNCHANGED <<conf, clientvars, recstate, fname, files, mpq, recthd, joining, fakes>>

\* The thread's end: everybody it knows of leaves.
Out ==
    /\ fakes' = fakes - Cardinality(pidmap) /\ pidmap' = {} /\ lockspec' = FALSE
    /\ recstate' = "none" /\ playthd' = "none" /\ place' = 0 /\ paused' = FALSE

PlaybackObeys ==
    /\ playthd = "runs" /\ mpq # <<>> /\ mpq' = Tail(mpq)
    /\ IF Head(mpq) = Command("stop") THEN Out
       ELSE /\ paused' = (Head(mpq) = Command("pause"))
            /\ UNCHANGED <<recstate, playthd, place, pidmap, fakes, lockspec>>
    /\ UNCHANGED <<conf, clientvars, fname, files, recthd, joining>>

\* An event whose time has come; what happens to a pid without a player is left out.
Replay(e) ==
    CASE e.type = "enter" ->
            \/ pidmap' = pidmap \cup {e.pid} /\ fakes' = fakes + 1
            \/ UNCHANGED <<pidmap, fakes>>
      [] e.type = "leave" ->
            /\ fakes' = IF e.pid \in pidmap THEN fakes - 1 ELSE fakes
            /\ pidmap' = pidmap \ {e.pid}
      [] OTHER -> UNCHANGED <<pidmap, fakes>>

PlaybackThread ==
    /\ playthd = "runs" /\ ~paused
    /\ IF place = Len(files[fname].events) THEN Out
       ELSE /\ Replay(files[fname].events[place + 1]) /\ place' = place + 1
            /\ UNCHANGED <<recstate, playthd, paused, lockspec>>
    /\ UNCHANGED <<conf, clientvars, fname, files, mpq, recthd, joining>>

RecorderStep ==
    \/ StartRecording \/ RecorderThread \/ StopRecording \/ StopJoins \/ Suicide
    \/ StartPlayback \/ Tell \/ PlaybackBegins \/ PlaybackObeys \/ PlaybackThread
    \/ \E p \in Players : Happens(p)

----------------------------------------------------------------------------
(* Properties.                                                             *)

\* Who is in the arena after these events.
Within(events) ==
    {p \in Players : \E i \in DOMAIN events :
        events[i] = Event("enter", p) /\ \A j \in i .. Len(events) : events[j] # Event("leave", p)}

Alternate(events) ==
    \A i, j \in DOMAIN events :
        i < j /\ events[i].type = "enter" /\ events[j] = events[i]
            => \E k \in i .. j : events[k] = Event("leave", events[i].pid)

\* A recording follows its arena: with what is queued, it brings in exactly the players who
\* are there, wherever they were when it began, and nobody twice.
RecordingFollowsArena ==
    recstate = "recording" /\ recthd = "runs" =>
        LET events == files[fname].events \o mpq
        IN  /\ {p \in Players : phase[p] = "playing"} \subseteq Within(events)
            /\ Within(events) \subseteq {p \in Players : phase[p] \in {"playing", "leaving"}}
            /\ Alternate(events)

\* When a playback is over, by its end or by a command, none of its fake players stays in
\* the arena, and people may play again.
PlaybackLeavesNothing == playthd = "none" => fakes = 0 /\ ~lockspec

\* However players, recordings and playbacks overlap, a recording has the players that the
\* arena has, and a playback ends with the players it began with.
RecordingsAgree == Has("record") => RecordingFollowsArena /\ PlaybackLeavesNothing

\* "write to game file failed. stopping recorder." (src/src/funky/record.c:408): who stops
\* recording waits for a thread that ends, and does not wait for him.
RecorderStops == ~(joining /\ recthd = "fails")
=============================================================================
