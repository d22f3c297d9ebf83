------------------------------ MODULE ArenaMan ------------------------------
(***************************************************************************)
(* arenaman.c: the life of the arenas, and how players ask for an arena    *)
(* and leave it.                                                           *)
(*                                                                         *)
(* ProcessArenaStates and ReapArenas are timers of the main thread.        *)
(* complete_go, LeaveArena and RecycleArena are called there too, by       *)
(* handlers of packets and commands and by modules; LeaveArena also within *)
(* KickPlayer, by any thread.  Hold is called by callbacks in the main     *)
(* thread, Unhold by workers (mapdata.c, mapnewsdl.c, objects.c).          *)
(***************************************************************************)
EXTENDS ZoneState

----------------------------------------------------------------------------
(* Leaving an arena.                                                       *)

\* Mistaken variant: skips PA_LEAVEARENA.
LeavesUntold(s) ==
    CASE s \in {"loggedin", "do_freq_and_arena_sync"} -> "loggedin"
      [] s \in {"arena_resp_and_cbs", "playing"} -> "do_arena_sync2"
      [] OTHER -> s

\* Mistaken variant: takes S_ARENA_RESP_AND_CBS for S_PLAYING.
LeavesUnentered(s) ==
    CASE s \in {"loggedin", "do_freq_and_arena_sync"} -> "loggedin"
      [] s \in {"arena_resp_and_cbs", "playing"} -> "leaving_arena"
      [] OTHER -> s

\* Mistaken variant: forgets who is about to be put in a freq.
LeavesTooLate(s) ==
    CASE s = "loggedin" -> "loggedin"
      [] s = "arena_resp_and_cbs" -> "do_arena_sync2"
      [] s = "playing" -> "leaving_arena"
      [] OTHER -> s

\* initiate_leave_arena: the status to which a player who is on the way in
\* falls back, so that what has been done gets undone and nothing else.
LeftStatus(s) ==
    CASE s \in {"loggedin", "do_freq_and_arena_sync"} -> "loggedin"
      [] s = "arena_resp_and_cbs" -> "do_arena_sync2"
      [] s = "playing" -> "leaving_arena"
      [] OTHER -> s

\* initiate_leave_arena for all players of the set L.
InitiateLeaveArena(L) ==
    /\ status' = [p \in Players |-> IF p \in L THEN LeftStatus(status[p])
                                               ELSE status[p]]
    /\ leaveflag' = leaveflag \cup {p \in L : status[p] = "wait_arena_sync1"}

\* The players of P that LeaveArena does anything for.
InArena(P) == {p \in P : arena[p] # NoArena}

LeaveArena(p) == InitiateLeaveArena(InArena({p}))

\* PLeaving, MLeaving
Leaving(p) ==
    /\ Handles(p)
    /\ LeaveArena(p)
    /\ UNCHANGED <<stage, whenloggedin, arena, newarena, name, cvars, avars,
                   tvars, qvars, gvars>>

----------------------------------------------------------------------------
(* Going to an arena.                                                      *)

\* Mistaken variant: looks only for arenas that are not on their way out.
FindsOpenArenas(n) == {a \in Arenas : Exists(a) /\ aname[a] = n /\ astatus[a] \notin OnTheWayOut}

\* do_find_arena(name, ARENA_DO_INIT0, ARENA_DO_DESTROY2)
FoundArenas(n) == {a \in Arenas : Exists(a) /\ aname[a] = n}

CreateArena(a, n) ==
    /\ ~Exists(a)
    /\ astatus' = [astatus EXCEPT ![a] = "do_init0"]
    /\ aname' = [aname EXCEPT ![a] = n]
    /\ keepalive' = keepalive \ {a}
    /\ holds' = [holds EXCEPT ![a] = 0]
    /\ resurrect' = resurrect \ {a}

\* The arena that p gets is found or created, or marked to come back if it is
\* on the way out.
PlaceIn(p, n, a) ==
    /\ IF FoundArenas(n) = {}
         THEN CreateArena(a, n)
         ELSE /\ a \in FoundArenas(n)
              /\ resurrect' = IF astatus[a] \in OnTheWayOut
                                THEN resurrect \cup {a} ELSE resurrect
              /\ UNCHANGED <<astatus, aname, keepalive, holds>>
    /\ newarena' = [newarena EXCEPT ![p] = a]

\* complete_go: check the status, leave, and be placed under the arena lock.  Of
\* what other threads do meanwhile only KickPlayer concerns p, and if it comes
\* after the check the outcome is as if it had come before.
Go(p, n) ==
    /\ Handles(p)
    /\ status[p] \in {"loggedin", "playing", "leaving_arena"}
    /\ LeaveArena(p)
    /\ \E a \in Arenas : PlaceIn(p, n, a)
    /\ UNCHANGED <<stage, whenloggedin, arena, name, cvars, tvars, qvars, gvars>>

----------------------------------------------------------------------------
(* Recycling and reaping.                                                  *)

\* RecycleArena, called by a command or a module: both locks are held throughout.
RecycleArena(a) ==
    LET inside == {p \in Listed : arena[p] = a}
    IN  /\ MayRunInMain
        /\ astatus[a] = "running"
        /\ InitiateLeaveArena(inside)
        /\ newarena' = [p \in Players |-> IF p \in inside THEN a ELSE newarena[p]]
        /\ astatus' = [astatus EXCEPT ![a] = "closing"]
        /\ resurrect' = resurrect \cup {a}
        /\ UNCHANGED <<stage, whenloggedin, arena, name, cvars, aname,
                       keepalive, holds, tvars, qvars, gvars>>

\* Mistaken variants: nobody is in an arena, nobody waits for one.
NobodyIsIn  == {}
NobodyWaits == {}

\* ReapArenas: the arenas that somebody is in, and those that somebody waits for.
UsedArenas   == {arena[p] : p \in Listed}
WantedArenas == {newarena[p] : p \in {q \in Listed : newarena[q] # arena[q]}}

Reap ==
    LET open == {a \in Arenas : astatus[a] \in {"running", "closing"}}
        reap == {a \in open \ UsedArenas : a \notin WantedArenas \/ astatus[a] = "closing"}
    IN  /\ MainFree
        /\ resurrect' = resurrect \cup {a \in WantedArenas \cap open : astatus[a] = "closing"}
        /\ astatus' = [a \in Arenas |->
                          IF a \in reap /\ (astatus[a] = "closing" \/ a \notin keepalive)
                            THEN "do_write_data" ELSE astatus[a]]
        /\ UNCHANGED <<pvars, cvars, aname, keepalive, holds, tvars, qvars, gvars>>

----------------------------------------------------------------------------
(* The arena state machine: one turn of the loop of ProcessArenaStates.    *)

\* Mistaken variant: does not wait for the holds.
TurnIgnoringHolds(a) ==
    CASE astatus[a] = "wait_holds0" -> "do_init1"
      [] astatus[a] = "wait_holds1" -> "do_init2"
      [] astatus[a] = "wait_holds2" -> "do_destroy2"
      [] OTHER -> astatus[a]

\* An arena whose holds are gone takes its next step in the same turn.
Turn(a) ==
    IF holds[a] > 0 THEN astatus[a]
    ELSE CASE astatus[a] = "wait_holds0" -> "do_init1"
           [] astatus[a] = "wait_holds1" -> "do_init2"
           [] astatus[a] = "wait_holds2" -> "do_destroy2"
           [] OTHER -> astatus[a]

\* The callbacks run with the arena in its waiting status, and may Hold it.
CallbacksHold(a, next) ==
    /\ astatus' = [astatus EXCEPT ![a] = next]
    /\ \E n \in 0 .. MaxHolds : holds' = [holds EXCEPT ![a] = @ + n]
    /\ UNCHANGED <<pvars, cvars, aname, keepalive, resurrect, tvars, qvars, gvars>>

\* Ask the database and wait, or go on at once if there is none.
SyncArena(a, cmd, wait, next) ==
    /\ astatus' = [astatus EXCEPT ![a] = IF HasPersist THEN wait ELSE next]
    /\ dbq' = IF HasPersist THEN Append(dbq, DbMsg(cmd, NoPlayer, a)) ELSE dbq
    /\ UNCHANGED <<pvars, cvars, aname, keepalive, holds, resurrect, tvars,
                   authq, mainq, gvars>>

ArenaInit0(a) == MainFree /\ Turn(a) = "do_init0" /\ CallbacksHold(a, "wait_holds0")
ArenaInit1(a) == MainFree /\ Turn(a) = "do_init1" /\ CallbacksHold(a, "wait_holds1")
ArenaInit2(a) ==
    MainFree /\ Turn(a) = "do_init2" /\ SyncArena(a, "get_arena", "wait_sync1", "running")

Occupied(a) == \E p \in Listed : arena[p] = a

ArenaWriteData(a) ==
    /\ MainFree
    /\ Turn(a) = "do_write_data"
    /\ IF Occupied(a)
         THEN /\ astatus' = [astatus EXCEPT ![a] = "running"]
              /\ UNCHANGED <<pvars, cvars, aname, keepalive, holds, resurrect,
                             tvars, qvars, gvars>>
         ELSE SyncArena(a, "put_arena", "wait_sync2", "do_destroy1")

ArenaDestroy1(a) ==
    MainFree /\ Turn(a) = "do_destroy1" /\ CallbacksHold(a, "wait_holds2")

\* All private data is cleared and the arena starts over.
ArenaResurrect(a) ==
    /\ MainFree
    /\ Turn(a) = "do_destroy2"
    /\ a \in resurrect
    /\ astatus' = [astatus EXCEPT ![a] = "do_init0"]
    /\ holds' = [holds EXCEPT ![a] = 0]
    /\ resurrect' = resurrect \ {a}
    /\ UNCHANGED <<pvars, cvars, aname, keepalive, tvars, qvars, gvars>>

\* Mistaken variant: does not look at resurrect.
RemoveWanted(a) ==
    /\ MainFree
    /\ Turn(a) = "do_destroy2"
    /\ draining' = a
    /\ astatus' = [astatus EXCEPT ![a] = "do_destroy2"]
    /\ aname' = [aname EXCEPT ![a] = NoName]
    /\ UNCHANGED <<pvars, cvars, keepalive, holds, resurrect, pending,
                   qvars, gvars>>

\* The arena leaves the list; main then runs what is queued for it, with the
\* arena lock held, before the memory is given back.
ArenaRemove(a) ==
    /\ MainFree
    /\ Turn(a) = "do_destroy2"
    /\ a \notin resurrect
    /\ draining' = a
    /\ astatus' = [astatus EXCEPT ![a] = "do_destroy2"]
    /\ aname' = [aname EXCEPT ![a] = NoName]
    /\ UNCHANGED <<pvars, cvars, keepalive, holds, resurrect, pending,
                   qvars, gvars>>

ArenaFree ==
    /\ draining # NoArena
    /\ mainq = <<>>
    /\ astatus' = [astatus EXCEPT ![draining] = "none"]
    /\ keepalive' = keepalive \ {draining}
    /\ draining' = NoArena
    /\ UNCHANGED <<pvars, cvars, aname, holds, resurrect, pending,
                   qvars, gvars>>

\* A module does not detach: the arena is renamed and kept for good.
ArenaDetachFails(a) ==
    /\ MainFree
    /\ Turn(a) = "do_destroy2"
    /\ a \notin Detachable
    /\ aname' = [aname EXCEPT ![a] = BrokenName]
    /\ resurrect' = resurrect \ {a}
    /\ keepalive' = keepalive \cup {a}
    /\ astatus' = [astatus EXCEPT ![a] = "running"]
    /\ UNCHANGED <<pvars, cvars, holds, tvars, qvars, gvars>>

\* Mistaken variant: does not look whether the arena is held.
UnholdUnchecked(a) ==
    /\ ArenaLockFree
    /\ astatus[a] \in HoldStatuses
    /\ holds' = [holds EXCEPT ![a] = @ - 1]
    /\ UNCHANGED <<pvars, cvars, astatus, aname, keepalive, resurrect, tvars,
                   qvars, gvars>>

\* Unhold by a module that has finished its work.
Unhold(a) ==
    /\ ArenaLockFree
    /\ astatus[a] \in HoldStatuses
    /\ holds[a] > 0
    /\ holds' = [holds EXCEPT ![a] = @ - 1]
    /\ UNCHANGED <<pvars, cvars, astatus, aname, keepalive, resurrect, tvars,
                   qvars, gvars>>

\* Mistaken variant: forgets ARENA_WAIT_SYNC2.
ForgetsSync2(s) == IF s = "wait_sync1" THEN "running" ELSE s

\* arena_sync_done
SyncedArenaStatus(s) ==
    CASE s = "wait_sync1" -> "running"
      [] s = "wait_sync2" -> "do_destroy1"
      [] OTHER -> s

ProcessArenaStates(a) ==
    \/ ArenaInit0(a) \/ ArenaInit1(a) \/ ArenaInit2(a)
    \/ ArenaWriteData(a) \/ ArenaDestroy1(a)
    \/ ArenaResurrect(a) \/ ArenaRemove(a) \/ ArenaDetachFails(a)
=============================================================================
