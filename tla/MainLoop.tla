------------------------------ MODULE MainLoop ------------------------------
(***************************************************************************)
(* mainloop.c and the queues of util.c: timers, the functions that other   *)
(* threads have main call, and the pool of workers.                        *)
(*                                                                         *)
(* Main is described by a stack of calls, because what it is in the middle *)
(* of decides what may go wrong: it drains its queue from within timers    *)
(* and from within the unloading of a module, and each function it calls   *)
(* there may begin the same again.                                         *)
(***************************************************************************)
EXTENDS Naturals, Sequences, SequencesExt, FiniteSets

CONSTANTS
    Modules,        \* the names of the modules, whose code all this is
    Workers,        \* the threads of the pool
    None,
    MaxQueue        \* bound: functions in the queue, when another is put there

ASSUME MainLoopAssumption == None \notin Modules /\ MaxQueue \in Nat

VARIABLES
    quit,       \* privatequit
    at,         \* what RunLoop does: "call", "timers", "rest", or "returned"
    stack,      \* what main is in the middle of, innermost last
    queue,      \* runinmain_queue: of each function, the modules whose code it runs
    timers,     \* the timers; two of one module that are alike are one here
    work,       \* work_queue: the modules whose functions wait for a worker
    working     \* what each worker runs; "gone" after the pool was shut down

loopVars == <<quit, at, stack, queue, timers, work, working>>

Call(does, code) == [does |-> does, code |-> code, pc |-> 1]

Top == IF stack = <<>> THEN Call("nothing", {}) ELSE Last(stack)
Push(call) == stack' = Append(stack, call)
Pop == stack' = Front(stack)

----------------------------------------------------------------------------
(* The queue of functions.                                                 *)

\* drainRunInMain is the innermost call, or RunLoop itself takes functions from the queue.
Draining == Top.does = "drain" \/ (stack = <<>> /\ at \in {"call", "rest"})

CallNext ==
    /\ Draining /\ queue # <<>>
    /\ queue' = Tail(queue)
    /\ Push(Call("function", Head(queue)))
    /\ UNCHANGED <<quit, at, timers, work, working>>

FunctionReturns ==
    /\ Top.does = "function"
    /\ Pop
    /\ UNCHANGED <<quit, at, queue, timers, work, working>>

\* WaitRunInMainDrain returns to its caller, which goes on with its next step.
DrainEnds ==
    /\ Top.does = "drain" /\ queue = <<>>
    /\ stack' = [Front(stack) EXCEPT ![Len(stack) - 1].pc = @ + 1]
    /\ UNCHANGED <<quit, at, queue, timers, work, working>>

----------------------------------------------------------------------------
(* Timers.                                                                 *)

Timer(m) == [mod |-> m, running |-> FALSE, killme |-> FALSE]

StartTimer(m) == timers' = timers \cup {Timer(m)}

\* The timer main is in is only marked, for RunLoop to take care of.
CleanupTimer(m) ==
    timers' = {t \in timers : t.mod # m}
              \cup {[t EXCEPT !.killme = TRUE] : t \in {u \in timers : u.mod = m /\ u.running}}

\* RunLoop calls a timer that is due.
CallTimer(t) ==
    /\ stack = <<>> /\ at = "timers"
    /\ timers' = (timers \ {t}) \cup {[t EXCEPT !.running = TRUE]}
    /\ Push(Call("timer", {t.mod}))
    /\ UNCHANGED <<quit, at, queue, work, working>>

\* The timers of these modules all want to be called again; one that was cleared meanwhile is not.
TimerReturns ==
    /\ Top.does = "timer"
    /\ Pop
    /\ timers' = {[t EXCEPT !.running = FALSE] : t \in {u \in timers : ~u.killme}}
    /\ UNCHANGED <<quit, at, queue, work, working>>

----------------------------------------------------------------------------
(* RunLoop: the queue, the timers, the queue until the turn is over.        *)

TimersNext ==
    /\ stack = <<>> /\ at = "call" /\ queue = <<>>
    /\ at' = "timers"
    /\ UNCHANGED <<quit, stack, queue, timers, work, working>>

TimersDone ==
    /\ stack = <<>> /\ at = "timers"
    /\ at' = "rest"
    /\ UNCHANGED <<quit, stack, queue, timers, work, working>>

NextTurn ==
    /\ stack = <<>> /\ at = "rest" /\ queue = <<>>
    /\ at' = IF quit THEN "returned" ELSE "call"
    /\ UNCHANGED <<quit, stack, queue, timers, work, working>>

\* KillML
KillML == quit' = TRUE

----------------------------------------------------------------------------
(* The workers.                                                            *)

RunInThread(m) == work' = Append(work, m)

WorkerTakes(w) ==
    /\ working[w] = None /\ work # <<>>
    /\ working' = [working EXCEPT ![w] = Head(work)]
    /\ work' = Tail(work)
    /\ UNCHANGED <<quit, at, stack, queue, timers>>

\* init_servers_work of directory.c sets a timer at its end; what the others do is theirs.
WorkerReturns(w) ==
    /\ working[w] \in Modules
    /\ working' = [working EXCEPT ![w] = None]
    /\ IF working[w] = "directory" THEN StartTimer("directory") ELSE UNCHANGED timers
    /\ UNCHANGED <<quit, at, stack, queue, work>>

----------------------------------------------------------------------------
LoopInit ==
    /\ quit = FALSE /\ at = "call"
    /\ stack = <<>> /\ queue = <<>> /\ timers = {} /\ work = <<>>
    /\ working = [w \in Workers |-> None]

\* What main does by itself, in RunLoop or in something it began.
LoopStep ==
    \/ CallNext \/ FunctionReturns \/ DrainEnds \/ TimerReturns
    \/ (\E t \in timers : CallTimer(t))
    \/ TimersNext \/ TimersDone \/ NextTurn
=============================================================================
