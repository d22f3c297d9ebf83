------------------------------ MODULE Modules -------------------------------
(***************************************************************************)
(* module.c, cmod.c and main.c: modules are loaded and unloaded, while     *)
(* their threads, timers and queued functions run.                         *)
(*                                                                         *)
(* Of each module the model has what its MM_ function does when it is      *)
(* loaded and unloaded, in that order: which interfaces it gets, which of  *)
(* them it cannot do without, and whether it gives them back when it       *)
(* refuses to load; what it starts (a timer, a thread, a job for the       *)
(* workers); and the steps of its unloading.                               *)
(***************************************************************************)
EXTENDS MainLoop, Integers

CONSTANTS
    Conf,           \* modules.conf: the modules in the order they are loaded in
    Removable,      \* bound: the modules that operators unload and load again
    Twice,          \* whether a module may be unloaded while it is being unloaded
    MaxCommands     \* bound: commands of operators that load or unload a module

VARIABLES
    mods,           \* the list of modules
    registered,     \* the modules whose interface can be got
    refs,           \* head.global_refcount of each module's interface
    held,           \* the pointers to interfaces that each module has got
    threads,        \* of the modules that have a thread: what it does, what it was asked
    phase,          \* where main() is
    left,           \* recursive_unload: the modules still to be unloaded
    done,           \* wait.done
    commands        \* bound: commands so far

vars == <<loopVars, mods, registered, refs, held, threads, phase, left, done, commands>>
moduleVars == <<mods, registered, refs, held>>
mainVars == <<phase, left, done, commands>>

----------------------------------------------------------------------------
(* What the modules do.  Interfaces bear the names of their modules.       *)

Program(gets, must, undo, starts, unload) ==
    [gets |-> gets, must |-> must, undo |-> undo, starts |-> starts, unload |-> unload]

\* The timers and the workers end, and the queues are emptied, before the module asks whether it may go.
MM_mainloop == Program({}, {}, FALSE, {}, <<"shutdown", "unreg">>)
MM_config == Program({"mainloop"}, {"mainloop"}, FALSE, {"timer"}, <<"unreg", "clear", "release">>)
MM_playerdata == Program({"mainloop"}, {"mainloop"}, TRUE, {}, <<"unreg", "release">>)
\* Mistaken variant: net does not wait for the functions its threads have queued.
HastyNet ==
    Program({"playerdata", "config", "mainloop"}, {"playerdata", "config", "mainloop"}, FALSE,
            {"timer", "thread"}, <<"unreg", "clear", "cancel", "release">>)
MM_net ==
    Program({"playerdata", "config", "mainloop"}, {"playerdata", "config", "mainloop"}, FALSE,
            {"timer", "thread"}, <<"unreg", "clear", "cancel", "drain", "release">>)
MM_chatnet ==
    Program({"playerdata", "config", "mainloop"}, {"playerdata", "config", "mainloop"}, FALSE,
            {"timer"}, <<"unreg", "clear", "release">>)
MM_arenaman ==
    Program({"playerdata", "net", "chatnet", "config", "mainloop"},
            {"playerdata", "config", "mainloop"}, FALSE,
            {"timer"}, <<"unreg", "clear", "release">>)
MM_mapdata ==
    Program({"mainloop", "config", "arenaman"}, {"mainloop", "config", "arenaman"}, FALSE,
            {}, <<"unreg", "release">>)
MM_mapnewsdl ==
    LET all == {"playerdata", "net", "config", "mainloop", "arenaman", "mapdata"}
    IN  Program(all, all, FALSE, {"timer"}, <<"unreg", "clear", "release">>)
MM_core ==
    LET must == {"playerdata", "config", "mainloop", "mapnewsdl", "arenaman"}
    IN  Program(must \cup {"net", "chatnet"}, must, FALSE,
                {"timer"}, <<"unreg", "clear", "release">>)
\* It does not look whether it got them; so they are there, or the server dies.
MM_persist ==
    LET all == {"playerdata", "arenaman", "config", "mainloop"}
    IN  Program(all, all, FALSE, {"timer", "thread"},
                <<"unreg", "clear", "drain", "release", "join">>)
\* Mistaken variant: game does not wait for its functions.
HastyGame ==
    LET must == {"mainloop", "net", "config", "arenaman"}
    IN  Program(must \cup {"playerdata", "chatnet", "mapdata", "persist", "chat"}, must, FALSE,
                {}, <<"unreg", "release">>)
MM_game ==
    LET must == {"mainloop", "net", "config", "arenaman"}
    IN  Program(must \cup {"playerdata", "chatnet", "mapdata", "persist", "chat"}, must, FALSE,
                {}, <<"unreg", "drain", "release">>)
MM_chat ==
    LET must == {"config", "arenaman", "playerdata", "mainloop"}
    IN  Program(must \cup {"net", "chatnet", "persist"}, must, FALSE,
                {}, <<"unreg", "drain", "release">>)
MM_security ==
    LET all == {"playerdata", "arenaman", "net", "config", "mainloop", "mapdata"}
    IN  Program(all, all, TRUE, {"timer"}, <<"clear", "release">>)
MM_objects ==
    LET all == {"mainloop", "arenaman", "net", "config", "mapdata", "playerdata", "chat"}
    IN  Program(all, all, FALSE, {}, <<"unreg", "release">>)
MM_fake ==
    LET must == {"playerdata", "arenaman", "mainloop"}
    IN  Program(must \cup {"net", "chatnet"}, must, FALSE, {}, <<"unreg", "drain", "release">>)
MM_mysql ==
    LET all == {"config", "mainloop"}
    IN  Program(all, all, TRUE, {"thread"}, <<"unreg", "cancel", "drain", "release">>)
MM_directory ==
    LET all == {"config", "net", "mainloop", "playerdata"}
    IN  Program(all, all, FALSE, {"job"}, <<"clear", "release">>)

Programs ==
    [mainloop |-> MM_mainloop, config |-> MM_config, playerdata |-> MM_playerdata,
     net |-> MM_net, chatnet |-> MM_chatnet, arenaman |-> MM_arenaman, mapdata |-> MM_mapdata,
     mapnewsdl |-> MM_mapnewsdl, core |-> MM_core, persist |-> MM_persist, game |-> MM_game,
     chat |-> MM_chat, security |-> MM_security, objects |-> MM_objects, fake |-> MM_fake,
     mysql |-> MM_mysql, directory |-> MM_directory]

\* Interfaces of modules that are loaded later are got in MM_POSTLOAD and released in MM_PREUNLOAD.
Late == [arenaman |-> {"persist"}, core |-> {"persist"}]

\* These have no interface.
Mute == {"security", "directory"}

\* Main waits for persist's thread to answer everything; the others' are cancelled.
Threaded == {"net", "persist", "mysql"}

\* The modules whose work for an arena is done by a worker (RunInThread and Hold).
Workshops == {"mapdata", "mapnewsdl", "objects", "arenaman"}

----------------------------------------------------------------------------
(* Interfaces.                                                             *)

\* GetInterface and ReleaseInterface, of several at once
Counted(S, n) == [i \in Modules |-> IF i \in S THEN refs[i] + n ELSE refs[i]]

RegInterface(m) == registered' = registered \cup ({m} \ Mute)

\* Whether a module that refuses to load gives back what it got.
GivesBack(m) == Programs[m].undo

\* LoadModule, MM_LOAD.  What an instance does not have among its Modules is taken to be there.
Load(m) ==
    LET program == Programs[m]
        got == program.gets \cap registered
        starts(what) == what \in program.starts
    IN  IF program.must \cap Modules \subseteq registered
          THEN /\ mods' = Append(mods, m)
               /\ held' = [held EXCEPT ![m] = got]
               /\ refs' = Counted(got, 1)
               /\ RegInterface(m)
               /\ IF starts("timer") THEN StartTimer(m) ELSE UNCHANGED timers
               /\ threads' = IF starts("thread") THEN [threads EXCEPT ![m].at = "idle"] ELSE threads
               /\ IF starts("job") THEN RunInThread(m) ELSE UNCHANGED work
          ELSE /\ refs' = IF GivesBack(m) THEN refs ELSE Counted(got, 1)
               /\ UNCHANGED <<mods, held, registered, timers, threads, work>>

\* unload_by_ptr begins; the module's own function does the rest.
Unload(m) == Push(Call("unload", {m}))

----------------------------------------------------------------------------
(* The steps of unloading.                                                 *)

Unloading == Top.does = "unload"
Leaving == CHOOSE m \in Modules : Top.code = {m}
Step == IF Top.pc > Len(Programs[Leaving].unload) THEN "end" ELSE Programs[Leaving].unload[Top.pc]

NextStep == stack' = [stack EXCEPT ![Len(stack)].pc = @ + 1]

\* Mistaken variant: whether anybody holds the interface is not asked.
CarelessUnregInterface ==
    /\ Unloading /\ Step = "unreg"
    /\ NextStep /\ registered' = registered \ {Leaving}
    /\ UNCHANGED <<quit, at, queue, timers, work, working, mods, refs, held, threads, mainVars>>

\* UnregInterface refuses as long as somebody holds the interface: MM_FAIL.
UnregInterface ==
    /\ Unloading /\ Step = "unreg"
    /\ IF refs[Leaving] > 0
         THEN Pop /\ UNCHANGED registered
         ELSE NextStep /\ registered' = registered \ {Leaving}
    /\ UNCHANGED <<quit, at, queue, timers, work, working, mods, refs, held, threads, mainVars>>

ClearTimer ==
    /\ Unloading /\ Step = "clear"
    /\ CleanupTimer(Leaving)
    /\ NextStep
    /\ UNCHANGED <<quit, at, queue, work, working, moduleVars, threads, mainVars>>

WaitRunInMainDrain ==
    /\ Unloading /\ Step = "drain"
    /\ Push(Call("drain", {Leaving}))
    /\ UNCHANGED <<quit, at, queue, timers, work, working, moduleVars, threads, mainVars>>

\* pthread_cancel takes effect where the thread waits, and pthread_join waits for that.
Cancelled(m) == Unloading /\ Step = "cancel" /\ Leaving = m

Cancel ==
    /\ Cancelled(Leaving) /\ threads[Leaving].at \in {"idle", "none"}
    /\ threads' = [threads EXCEPT ![Leaving] = [at |-> "none", asked |-> <<>>, code |-> {}]]
    /\ NextStep
    /\ UNCHANGED <<quit, at, queue, timers, work, working, moduleVars, mainVars>>

\* The message that ends the thread comes after all others.
Join ==
    /\ Unloading /\ Step = "join"
    /\ threads[Leaving].at \in {"idle", "none"} /\ threads[Leaving].asked = <<>>
    /\ threads' = [threads EXCEPT ![Leaving].at = "none"]
    /\ NextStep
    /\ UNCHANGED <<quit, at, queue, timers, work, working, moduleVars, mainVars>>

ReleaseInterfaces ==
    /\ Unloading /\ Step = "release"
    /\ refs' = Counted(Programs[Leaving].gets \cap held[Leaving], -1)
    /\ NextStep
    /\ UNCHANGED <<quit, at, queue, timers, work, working, mods, registered, held, threads, mainVars>>

\* mainloop's own: the workers do all that was asked of them before they end.
ShutDown ==
    /\ Unloading /\ Step = "shutdown"
    /\ work = <<>> /\ \A w \in Workers : working[w] \in {None, "gone"}
    /\ working' = [w \in Workers |-> "gone"]
    /\ timers' = {} /\ queue' = <<>>
    /\ NextStep
    /\ UNCHANGED <<quit, at, work, moduleVars, threads, mainVars>>

\* MM_OK: the module is taken off the list, and its code goes.
Unloaded ==
    /\ Unloading /\ Step = "end"
    /\ mods' = RemoveAt(mods, CHOOSE i \in DOMAIN mods : mods[i] = Leaving)
    /\ Pop
    /\ UNCHANGED <<quit, at, queue, timers, work, working, registered, refs, held, threads, mainVars>>

UnloadStep ==
    \/ UnregInterface \/ ClearTimer \/ WaitRunInMainDrain \/ Cancel \/ Join
    \/ ReleaseInterfaces \/ ShutDown \/ Unloaded
=============================================================================
