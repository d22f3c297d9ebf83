------------------------------- MODULE Server -------------------------------
(***************************************************************************)
(* The program from main() to its end: the modules of modules.conf are     *)
(* loaded, RunLoop runs until somebody ends it, scores are saved, and all  *)
(* modules are unloaded in reverse order.  Meanwhile the threads of        *)
(* modules queue functions for main, and operators unload modules.         *)
(***************************************************************************)
EXTENDS Modules

----------------------------------------------------------------------------
(* The threads of the modules.                                             *)

\* Bound: what is queued, or will be by what was asked.
Pressure ==
    Len(queue) + Cardinality({m \in Threaded : threads[m].at \in {"adding", "calling"}})
    + Len(threads["persist"].asked) + Len(threads["mysql"].asked)

\* Mistaken variant: RunInMain counts on the main loop whether it has ended or not.
AlwaysAdds == "adding"

\* RunInMain in another thread: it looks whether the main loop has ended ...
RunInMain == IF quit THEN "calling" ELSE "adding"

\* ... and then puts the function into the queue (MPAdd).
Adds(m) ==
    /\ threads[m].at = "adding"
    /\ queue' = Append(queue, threads[m].code)
    /\ threads' = [threads EXCEPT ![m].at = "idle", ![m].code = {}]
    /\ UNCHANGED <<quit, at, stack, timers, work, working, moduleVars, mainVars>>

\* syncdone of main.c sets wait.done and signals, without wait.mtx.
SyncDone(m) == threads[m].code = {"persist", "main"}

\* After the loop has ended the function is called in the thread itself.
Calls(m) ==
    /\ threads[m].at = "calling"
    /\ threads' = [threads EXCEPT ![m].at = "idle", ![m].code = {}]
    /\ IF SyncDone(m)
         THEN done' = TRUE /\ phase' = IF phase = "asleep" THEN "waiting" ELSE phase
         ELSE UNCHANGED <<done, phase>>
    /\ UNCHANGED <<loopVars, moduleVars, left, commands>>

\* RecvThread and RelThread: a packet for its handlers, or a new player for the callbacks.
NetReceives(code) ==
    /\ threads["net"].at = "idle" /\ ~Cancelled("net") /\ Pressure < MaxQueue
    /\ threads' = [threads EXCEPT !["net"].at = RunInMain, !["net"].code = code]
    /\ UNCHANGED <<loopVars, moduleVars, mainVars>>

\* DBThread and the thread of mysql.c take the next message; they answer through main.
TakesMessage(m) ==
    /\ threads[m].at = "idle" /\ ~Cancelled(m) /\ threads[m].asked # <<>>
    /\ threads' = [threads EXCEPT ![m] =
           [at |-> RunInMain, asked |-> Tail(@.asked), code |-> {m, Head(@.asked)}]]
    /\ UNCHANGED <<loopVars, moduleVars, mainVars>>

Asks(m, who) == threads' = [threads EXCEPT ![m].asked = Append(@, who)]

----------------------------------------------------------------------------
(* What the functions and timers do, one thing each.                       *)

Busy(does, m) == Top.does = does /\ m \in Top.code /\ Top.pc = 1
Spent == [stack EXCEPT ![Len(stack)].pc = 2]
Used == stack' = Spent

BeingUnloaded(m) == \E i \in DOMAIN stack : stack[i].does = "unload" /\ stack[i].code = {m}

\* A handler of a packet: ?insmod and ?rmmod.  Bound: only while the server runs.
Command(m) ==
    /\ Busy("function", "net") /\ phase = "running" /\ at # "returned"
    /\ commands < MaxCommands /\ commands' = commands + 1
    /\ \/ m \notin ToSet(mods) /\ Load(m) /\ Used
       \/ /\ m \in ToSet(mods)
          /\ BeingUnloaded(m) => Twice
          /\ stack' = Append(Spent, Call("unload", {m}))
          /\ UNCHANGED <<timers, work, threads, moduleVars>>
    /\ UNCHANGED <<quit, at, queue, working, phase, left, done>>

\* ?shutdown
Quit ==
    /\ Busy("function", "net") /\ ~quit
    /\ KillML /\ Used
    /\ UNCHANGED <<at, queue, timers, work, working, moduleVars, threads, mainVars>>

\* A handler has a fake player removed, or the ship of a player changed: main queues for itself.
\* One packet may do this and other things: commands are separated by a bar.
HandlerQueues(m) ==
    /\ Busy("function", "net") /\ m \in registered /\ Pressure < MaxQueue
    /\ IF quit
         THEN stack' = Append(Spent, Call("function", {m}))
              /\ UNCHANGED queue
         ELSE queue' = Append(queue, {m}) /\ UNCHANGED stack
    /\ UNCHANGED <<quit, at, timers, work, working, moduleVars, threads, mainVars>>

\* A handler has the database of mysql.c asked.
HandlerAsks ==
    /\ Busy("function", "net") /\ "mysql" \in registered /\ Pressure < MaxQueue
    /\ Asks("mysql", "mysql")
    /\ UNCHANGED <<loopVars, moduleVars, mainVars>>

\* The timers of core and arenaman ask persist.
TimerAsks(m) ==
    /\ Busy("timer", m) /\ "persist" \in held[m] /\ Pressure < MaxQueue
    /\ Asks("persist", m) /\ Used
    /\ UNCHANGED <<quit, at, queue, timers, work, working, moduleVars, mainVars>>

\* ProcessArenaStates: before it frees an arena it waits for the queue.
ArenaDrains ==
    /\ Busy("timer", "arenaman")
    /\ Push(Call("drain", {"arenaman"}))
    /\ UNCHANGED <<quit, at, queue, timers, work, working, moduleVars, threads, mainVars>>

\* ... and modules have the workers load what belongs to a new one.
ArenaWorks(m) ==
    /\ Busy("timer", "arenaman") /\ m \in ToSet(mods) /\ work = <<>>
    /\ RunInThread(m) /\ Used
    /\ UNCHANGED <<quit, at, queue, timers, working, moduleVars, threads, mainVars>>

----------------------------------------------------------------------------
(* main()                                                                  *)

\* LoadModuleFile
LoadNext ==
    /\ phase = "loading" /\ Len(mods) < Len(Conf)
    /\ Load(Conf[Len(mods) + 1])
    /\ UNCHANGED <<quit, at, stack, queue, working, mainVars>>

\* MM_POSTLOAD; main gets the main loop for itself.
PostLoad ==
    /\ phase = "loading" /\ Len(mods) = Len(Conf)
    /\ held' = [m \in Modules |->
           IF m \in DOMAIN Late /\ m \in ToSet(mods) THEN held[m] \cup (Late[m] \cap registered) ELSE held[m]]
    /\ refs' = [i \in Modules |->
           refs[i] + Cardinality({m \in DOMAIN Late \cap ToSet(mods) : i \in Late[m] \cap registered})
           + (IF i = "mainloop" THEN 1 ELSE 0)]
    /\ phase' = "running"
    /\ UNCHANGED <<loopVars, mods, registered, threads, left, done, commands>>

\* StabilizeScores, with wait.mtx locked
Stabilize ==
    /\ phase = "running" /\ at = "returned"
    /\ IF "persist" \in registered
         THEN Asks("persist", "main") /\ phase' = "waiting"
         ELSE phase' = "stopping" /\ UNCHANGED threads
    /\ UNCHANGED <<loopVars, moduleVars, left, done, commands>>

\* while (!wait.done) pthread_cond_wait(...)
LooksAtDone ==
    /\ phase = "waiting"
    /\ phase' = IF done THEN "stopping" ELSE "dozing"
    /\ UNCHANGED <<loopVars, moduleVars, threads, left, done, commands>>

FallsAsleep ==
    /\ phase = "dozing" /\ phase' = "asleep"
    /\ UNCHANGED <<loopVars, moduleVars, threads, left, done, commands>>

\* pthread_cond_wait may return without a reason.
WakesUp ==
    /\ phase = "asleep" /\ phase' = "waiting"
    /\ UNCHANGED <<loopVars, moduleVars, threads, left, done, commands>>

\* MM_PREUNLOAD; main has released the main loop.
PreUnload ==
    /\ phase = "stopping"
    /\ held' = [m \in Modules |->
           IF m \in DOMAIN Late /\ m \in ToSet(mods) THEN held[m] \ Late[m] ELSE held[m]]
    /\ refs' = [i \in Modules |->
           refs[i] - Cardinality({m \in DOMAIN Late \cap ToSet(mods) : i \in Late[m] \cap held[m]})
           - (IF i = "mainloop" THEN 1 ELSE 0)]
    /\ phase' = "unloading" /\ left' = mods
    /\ UNCHANGED <<loopVars, mods, registered, threads, done, commands>>

\* Mistaken variant: in the order of modules.conf.
UnloadFirst ==
    /\ phase = "unloading" /\ stack = <<>> /\ left # <<>>
    /\ Unload(Head(left)) /\ left' = Tail(left)
    /\ UNCHANGED <<quit, at, queue, timers, work, working, moduleVars, threads, phase, done, commands>>

\* UnloadAllModules: the last one first, whether it can be unloaded or not.
UnloadLast ==
    /\ phase = "unloading" /\ stack = <<>> /\ left # <<>>
    /\ Unload(Last(left)) /\ left' = Front(left)
    /\ UNCHANGED <<quit, at, queue, timers, work, working, moduleVars, threads, phase, done, commands>>

Ends ==
    /\ phase = "unloading" /\ stack = <<>> /\ left = <<>>
    /\ phase' = "ended"
    /\ UNCHANGED <<loopVars, moduleVars, threads, left, done, commands>>

----------------------------------------------------------------------------
Init ==
    /\ LoopInit
    /\ mods = <<>> /\ registered = {}
    /\ refs = [m \in Modules |-> 0] /\ held = [m \in Modules |-> {}]
    /\ threads = [m \in Threaded |-> [at |-> "none", asked |-> <<>>, code |-> {}]]
    /\ phase = "loading" /\ left = <<>> /\ done = FALSE /\ commands = 0

Main ==
    \/ /\ phase \in {"running", "unloading"}
       /\ LoopStep /\ UNCHANGED <<moduleVars, threads, mainVars>>
    \/ UnloadStep
    \/ LoadNext \/ PostLoad \/ Stabilize \/ LooksAtDone \/ FallsAsleep
    \/ PreUnload \/ UnloadLast \/ Ends

LeavesTimers == TimersDone /\ UNCHANGED <<moduleVars, threads, mainVars>>

Thread(m) == Adds(m) \/ Calls(m) \/ (m # "net" /\ TakesMessage(m))

Worker(w) ==
    /\ WorkerTakes(w) \/ WorkerReturns(w)
    /\ UNCHANGED <<moduleVars, threads, mainVars>>

\* What players and operators do, and what happens to modules because of it.
Outside ==
    \/ NetReceives({"net"}) \/ NetReceives({"playerdata"})
    \/ (\E m \in Removable : Command(m)) \/ Quit
    \/ (\E m \in {"game", "fake"} \cap Modules : HandlerQueues(m)) \/ HandlerAsks
    \/ (\E m \in {"core", "arenaman"} : TimerAsks(m))
    \/ ArenaDrains \/ (\E m \in Workshops \cap Modules : ArenaWorks(m))

Next ==
    \/ Main \/ Outside \/ WakesUp
    \/ \E m \in Threaded : Thread(m)
    \/ \E w \in Workers : Worker(w)

\* A turn calls only the timers that are due, so the list is left some time.
Fairness ==
    /\ WF_vars(Main) /\ SF_vars(LeavesTimers)
    /\ \A m \in Threaded : WF_vars(Thread(m))
    /\ \A w \in Workers : WF_vars(Worker(w))

Spec == Init /\ [][Next]_vars
FairSpec == Spec /\ Fairness

----------------------------------------------------------------------------
(* Properties.                                                             *)

Loaded == ToSet(mods)

\* Where main or a thread of a module still runs the code of m, or is going to.
Awaited(m) ==
    \/ \E i \in DOMAIN stack : m \in stack[i].code
    \/ \E i \in DOMAIN queue : m \in queue[i]
    \/ \E t \in timers : t.mod = m
    \/ \E t \in Threaded : (t = m /\ threads[t].at # "none") \/ m \in threads[t].code

Job(m) == m \in ToSet(work) \/ \E w \in Workers : working[w] = m

\* Once a module is off the list, and its code with it, main has no function or timer of it left
\* to call and is not in the middle of one, and its thread has ended.  directory is the exception,
\* whose job sets a timer; nobody waits for the jobs of modules.
NothingLeftBehind == \A m \in Modules \ (Loaded \cup {"directory"}) : ~Awaited(m)

\* The unloading of directory waits until its job is done, so that neither the job nor the timer
\* the job sets is there after it.
DirectoryLeavesNothing ==
    "directory" \in Modules \ Loaded => ~Awaited("directory") /\ ~Job("directory")

\* What a module got is there for as long as the module is: nobody unloads what others use, and
\* the counts are not below the number of those who use it.
HeldIsRegistered ==
    /\ \A m \in Loaded : ~BeingUnloaded(m) => held[m] \subseteq registered
    /\ \A i \in Modules :
          refs[i] >= Cardinality({m \in Loaded : ~BeingUnloaded(m) /\ i \in held[m]})

\* However operators unload and load, nothing is run or used that is gone.
UnloadingIsSafe == NothingLeftBehind /\ HeldIsRegistered

\* When the program ends every module has been unloaded, but for those whose interface was
\* never given back by a module that had refused to load.
AllUnloaded == phase = "ended" => \A m \in Loaded : refs[m] > 0

\* When the main loop destroys its queue there is no function left in it.
NothingThrownAway == Unloading /\ Step = "shutdown" => queue = <<>>

\* However it is shut down, all is undone before the program ends.
ShutDownIsClean == AllUnloaded /\ NothingThrownAway

\* The program ends after it was told to, unless the signal of syncdone came while main was
\* between looking at wait.done and waiting.
ServerEnds == quit ~> phase = "ended" \/ (phase = "asleep" /\ done)

----------------------------------------------------------------------------
\* An order of modules.conf for TLC, with modules that make use of everything: queued
\* functions, timers, threads, jobs and late interfaces.
ModulesConf == <<"mainloop", "config", "playerdata", "net", "arenaman", "mapdata", "core",
                 "persist", "game", "fake", "directory", "mysql">>
=============================================================================
