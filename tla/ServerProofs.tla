---------------------------- MODULE ServerProofs ----------------------------
(***************************************************************************)
(* The server is unloaded safely and ends cleanly, for any modules.conf,   *)
(* any number of workers, commands and queued functions: ServerInv is      *)
(* inductive, and the properties of Server follow from it.                 *)
(*                                                                         *)
(* The invariant says what main may be in the middle of (StackFits), that  *)
(* whoever had a function queued has still to wait for it (Backed), who    *)
(* holds which interface and that the counts say so (ModuleInv), that a    *)
(* timer belongs to a module that has still to clear it (TimersFit), and   *)
(* that the message by which main waits for persist is its last            *)
(* (PersistFits).                                                          *)
(***************************************************************************)
EXTENDS Server, FiniteSetTheorems, SequenceTheorems, TLAPS

----------------------------------------------------------------------------
(* What the modules do.                                                    *)

Names == {"mainloop", "config", "playerdata", "net", "chatnet", "arenaman", "mapdata", "mapnewsdl", "core",
          "persist", "game", "chat", "security", "objects", "fake", "mysql", "directory"}

Steps(m) == Programs[m].unload

\* A program whose steps are in an order that makes sense, each once.
OrderFits(m, u) ==
    /\ Len(u) \in Nat /\ DOMAIN u = 1 .. Len(u)
    /\ \A j, k \in DOMAIN u : u[j] = u[k] => j = k
    /\ m \notin Mute => \E k \in DOMAIN u : u[k] = "unreg"
    /\ m = "mainloop" \/ \A k \in DOMAIN u : (u[k] = "unreg" => k = 1) /\ u[k] # "shutdown"
    /\ m = "mainloop" \/ \E k \in DOMAIN u : u[k] = "release"
    /\ m \in {"core", "arenaman"} => \A k \in DOMAIN u : u[k] # "drain"
    /\ \A k \in DOMAIN u :
          (u[k] = "cancel" => m \in {"net", "mysql"}) /\ (u[k] = "join" => m = "persist") /\ u[k] # "end"

\* Everybody needs the main loop.  Nobody needs persist, or what has no interface.
NeedsFit(m, p) ==
    /\ p.must \subseteq p.gets /\ p.must \cap (Mute \cup {"persist"}) = {}
    /\ m = "mainloop" \/ "mainloop" \in p.must
    /\ m = "mainloop" => p.gets = {}
    /\ m \in {"core", "arenaman"} => "persist" \notin p.gets
    /\ "timer" \in p.starts => \E k \in DOMAIN p.unload : p.unload[k] = "clear"
    /\ "thread" \in p.starts => m \in Threaded

ProgramFits(m) == OrderFits(m, Steps(m)) /\ NeedsFit(m, Programs[m])

LEMMA NamesFit == DOMAIN Programs = Names
BY DEF Programs, Names

LEMMA ClearSteps ==
    ASSUME NEW m, m \notin Mute \cup {"mainloop"}, NEW u, u = <<"unreg", "clear", "release">>
    PROVE  OrderFits(m, u)
<1>1. Len(u) = 3 /\ DOMAIN u = 1 .. 3
  OBVIOUS
<1>2. u[1] = "unreg" /\ u[2] = "clear" /\ u[3] = "release"
  OBVIOUS
<1>3. \A k \in 1 .. 3 : k = 1 \/ k = 2 \/ k = 3
  OBVIOUS
<1>4. \A j, k \in DOMAIN u : u[j] = u[k] => j = k
  BY <1>1, <1>2, <1>3
<1>5. m \notin Mute => \E k \in DOMAIN u : u[k] = "unreg"
  BY <1>1, <1>2 DEF Mute
<1>6. m = "mainloop" \/ \A k \in DOMAIN u : (u[k] = "unreg" => k = 1) /\ u[k] # "shutdown"
  BY <1>1, <1>2, <1>3
<1>7. m = "mainloop" \/ \E k \in DOMAIN u : u[k] = "release"
  BY <1>1, <1>2
<1>8. m \in {"core", "arenaman"} => \A k \in DOMAIN u : u[k] # "drain"
  BY <1>1, <1>2, <1>3
<1>9. \A k \in DOMAIN u :
          (u[k] = "cancel" => m \in {"net", "mysql"}) /\ (u[k] = "join" => m = "persist") /\ u[k] # "end"
  BY <1>1, <1>2, <1>3
<1> QED
  BY <1>1, <1>4, <1>5, <1>6, <1>7, <1>8, <1>9 DEF OrderFits

LEMMA PlainSteps ==
    ASSUME NEW m, m \notin Mute \cup {"mainloop"}, NEW u, u = <<"unreg", "release">>
    PROVE  OrderFits(m, u)
<1>1. Len(u) = 2 /\ DOMAIN u = 1 .. 2
  OBVIOUS
<1>2. u[1] = "unreg" /\ u[2] = "release"
  OBVIOUS
<1>3. \A k \in 1 .. 2 : k = 1 \/ k = 2
  OBVIOUS
<1>4. \A j, k \in DOMAIN u : u[j] = u[k] => j = k
  BY <1>1, <1>2, <1>3
<1>5. m \notin Mute => \E k \in DOMAIN u : u[k] = "unreg"
  BY <1>1, <1>2 DEF Mute
<1>6. m = "mainloop" \/ \A k \in DOMAIN u : (u[k] = "unreg" => k = 1) /\ u[k] # "shutdown"
  BY <1>1, <1>2, <1>3
<1>7. m = "mainloop" \/ \E k \in DOMAIN u : u[k] = "release"
  BY <1>1, <1>2
<1>8. m \in {"core", "arenaman"} => \A k \in DOMAIN u : u[k] # "drain"
  BY <1>1, <1>2, <1>3
<1>9. \A k \in DOMAIN u :
          (u[k] = "cancel" => m \in {"net", "mysql"}) /\ (u[k] = "join" => m = "persist") /\ u[k] # "end"
  BY <1>1, <1>2, <1>3
<1> QED
  BY <1>1, <1>4, <1>5, <1>6, <1>7, <1>8, <1>9 DEF OrderFits

LEMMA NetSteps ==
    ASSUME NEW m, m = "net", NEW u, u = <<"unreg", "clear", "cancel", "drain", "release">>
    PROVE  OrderFits(m, u)
<1>1. Len(u) = 5 /\ DOMAIN u = 1 .. 5
  OBVIOUS
<1>2. u[1] = "unreg" /\ u[2] = "clear" /\ u[3] = "cancel" /\ u[4] = "drain" /\ u[5] = "release"
  OBVIOUS
<1>3. \A k \in 1 .. 5 : k = 1 \/ k = 2 \/ k = 3 \/ k = 4 \/ k = 5
  OBVIOUS
<1>4. \A j, k \in DOMAIN u : u[j] = u[k] => j = k
  BY <1>1, <1>2, <1>3
<1>5. m \notin Mute => \E k \in DOMAIN u : u[k] = "unreg"
  BY <1>1, <1>2
<1>6. m = "mainloop" \/ \A k \in DOMAIN u : (u[k] = "unreg" => k = 1) /\ u[k] # "shutdown"
  BY <1>1, <1>2, <1>3
<1>7. m = "mainloop" \/ \E k \in DOMAIN u : u[k] = "release"
  BY <1>1, <1>2
<1>8. m \in {"core", "arenaman"} => \A k \in DOMAIN u : u[k] # "drain"
  BY <1>1, <1>2, <1>3
<1>9. \A k \in DOMAIN u :
          (u[k] = "cancel" => m \in {"net", "mysql"}) /\ (u[k] = "join" => m = "persist") /\ u[k] # "end"
  BY <1>1, <1>2, <1>3
<1> QED
  BY <1>1, <1>4, <1>5, <1>6, <1>7, <1>8, <1>9 DEF OrderFits

LEMMA PersistSteps ==
    ASSUME NEW m, m = "persist", NEW u, u = <<"unreg", "clear", "drain", "release", "join">>
    PROVE  OrderFits(m, u)
<1>1. Len(u) = 5 /\ DOMAIN u = 1 .. 5
  OBVIOUS
<1>2. u[1] = "unreg" /\ u[2] = "clear" /\ u[3] = "drain" /\ u[4] = "release" /\ u[5] = "join"
  OBVIOUS
<1>3. \A k \in 1 .. 5 : k = 1 \/ k = 2 \/ k = 3 \/ k = 4 \/ k = 5
  OBVIOUS
<1>4. \A j, k \in DOMAIN u : u[j] = u[k] => j = k
  BY <1>1, <1>2, <1>3
<1>5. m \notin Mute => \E k \in DOMAIN u : u[k] = "unreg"
  BY <1>1, <1>2
<1>6. m = "mainloop" \/ \A k \in DOMAIN u : (u[k] = "unreg" => k = 1) /\ u[k] # "shutdown"
  BY <1>1, <1>2, <1>3
<1>7. m = "mainloop" \/ \E k \in DOMAIN u : u[k] = "release"
  BY <1>1, <1>2
<1>8. m \in {"core", "arenaman"} => \A k \in DOMAIN u : u[k] # "drain"
  BY <1>1, <1>2, <1>3
<1>9. \A k \in DOMAIN u :
          (u[k] = "cancel" => m \in {"net", "mysql"}) /\ (u[k] = "join" => m = "persist") /\ u[k] # "end"
  BY <1>1, <1>2, <1>3
<1> QED
  BY <1>1, <1>4, <1>5, <1>6, <1>7, <1>8, <1>9 DEF OrderFits

LEMMA DrainSteps ==
    ASSUME NEW m, m \notin Mute \cup {"mainloop", "core", "arenaman"}, NEW u, u = <<"unreg", "drain", "release">>
    PROVE  OrderFits(m, u)
<1>1. Len(u) = 3 /\ DOMAIN u = 1 .. 3
  OBVIOUS
<1>2. u[1] = "unreg" /\ u[2] = "drain" /\ u[3] = "release"
  OBVIOUS
<1>3. \A k \in 1 .. 3 : k = 1 \/ k = 2 \/ k = 3
  OBVIOUS
<1>4. \A j, k \in DOMAIN u : u[j] = u[k] => j = k
  BY <1>1, <1>2, <1>3
<1>5. m \notin Mute => \E k \in DOMAIN u : u[k] = "unreg"
  BY <1>1, <1>2 DEF Mute
<1>6. m = "mainloop" \/ \A k \in DOMAIN u : (u[k] = "unreg" => k = 1) /\ u[k] # "shutdown"
  BY <1>1, <1>2, <1>3
<1>7. m = "mainloop" \/ \E k \in DOMAIN u : u[k] = "release"
  BY <1>1, <1>2
<1>8. m \in {"core", "arenaman"} => \A k \in DOMAIN u : u[k] # "drain"
  BY <1>1, <1>2, <1>3
<1>9. \A k \in DOMAIN u :
          (u[k] = "cancel" => m \in {"net", "mysql"}) /\ (u[k] = "join" => m = "persist") /\ u[k] # "end"
  BY <1>1, <1>2, <1>3
<1> QED
  BY <1>1, <1>4, <1>5, <1>6, <1>7, <1>8, <1>9 DEF OrderFits

LEMMA MuteSteps ==
    ASSUME NEW m, m \in Mute \ {"mainloop", "core", "arenaman"}, NEW u, u = <<"clear", "release">>
    PROVE  OrderFits(m, u)
<1>1. Len(u) = 2 /\ DOMAIN u = 1 .. 2
  OBVIOUS
<1>2. u[1] = "clear" /\ u[2] = "release"
  OBVIOUS
<1>3. \A k \in 1 .. 2 : k = 1 \/ k = 2
  OBVIOUS
<1>4. \A j, k \in DOMAIN u : u[j] = u[k] => j = k
  BY <1>1, <1>2, <1>3
<1>5. m \notin Mute => \E k \in DOMAIN u : u[k] = "unreg"
  BY <1>1, <1>2 DEF Mute
<1>6. m = "mainloop" \/ \A k \in DOMAIN u : (u[k] = "unreg" => k = 1) /\ u[k] # "shutdown"
  BY <1>1, <1>2, <1>3
<1>7. m = "mainloop" \/ \E k \in DOMAIN u : u[k] = "release"
  BY <1>1, <1>2
<1>8. m \in {"core", "arenaman"} => \A k \in DOMAIN u : u[k] # "drain"
  BY <1>1, <1>2, <1>3
<1>9. \A k \in DOMAIN u :
          (u[k] = "cancel" => m \in {"net", "mysql"}) /\ (u[k] = "join" => m = "persist") /\ u[k] # "end"
  BY <1>1, <1>2, <1>3
<1> QED
  BY <1>1, <1>4, <1>5, <1>6, <1>7, <1>8, <1>9 DEF OrderFits

LEMMA MysqlSteps ==
    ASSUME NEW m, m = "mysql", NEW u, u = <<"unreg", "cancel", "drain", "release">>
    PROVE  OrderFits(m, u)
<1>1. Len(u) = 4 /\ DOMAIN u = 1 .. 4
  OBVIOUS
<1>2. u[1] = "unreg" /\ u[2] = "cancel" /\ u[3] = "drain" /\ u[4] = "release"
  OBVIOUS
<1>3. \A k \in 1 .. 4 : k = 1 \/ k = 2 \/ k = 3 \/ k = 4
  OBVIOUS
<1>4. \A j, k \in DOMAIN u : u[j] = u[k] => j = k
  BY <1>1, <1>2, <1>3
<1>5. m \notin Mute => \E k \in DOMAIN u : u[k] = "unreg"
  BY <1>1, <1>2
<1>6. m = "mainloop" \/ \A k \in DOMAIN u : (u[k] = "unreg" => k = 1) /\ u[k] # "shutdown"
  BY <1>1, <1>2, <1>3
<1>7. m = "mainloop" \/ \E k \in DOMAIN u : u[k] = "release"
  BY <1>1, <1>2
<1>8. m \in {"core", "arenaman"} => \A k \in DOMAIN u : u[k] # "drain"
  BY <1>1, <1>2, <1>3
<1>9. \A k \in DOMAIN u :
          (u[k] = "cancel" => m \in {"net", "mysql"}) /\ (u[k] = "join" => m = "persist") /\ u[k] # "end"
  BY <1>1, <1>2, <1>3
<1> QED
  BY <1>1, <1>4, <1>5, <1>6, <1>7, <1>8, <1>9 DEF OrderFits

LEMMA MainSteps ==
    ASSUME NEW u, u = <<"shutdown", "unreg">>
    PROVE  OrderFits("mainloop", u)
<1>1. Len(u) = 2 /\ DOMAIN u = 1 .. 2
  OBVIOUS
<1>2. u[1] = "shutdown" /\ u[2] = "unreg"
  OBVIOUS
<1>3. \A k \in 1 .. 2 : k = 1 \/ k = 2
  OBVIOUS
<1>4. \A j, k \in DOMAIN u : u[j] = u[k] => j = k
  BY <1>1, <1>2, <1>3
<1>5. \E k \in DOMAIN u : u[k] = "unreg"
  BY <1>1, <1>2
<1>6. \A k \in DOMAIN u : u[k] # "cancel" /\ u[k] # "join" /\ u[k] # "end"
  BY <1>1, <1>2, <1>3
<1> QED
  BY <1>1, <1>4, <1>5, <1>6 DEF OrderFits

LEMMA OrdersFit == \A m \in Names : OrderFits(m, Steps(m))
<1>1. OrderFits("mainloop", Steps("mainloop"))
  <2>1. Steps("mainloop") = <<"shutdown", "unreg">>
    BY DEF Steps, Programs, Program, MM_mainloop
  <2> QED
    BY <2>1, MainSteps DEF Mute
<1>2. OrderFits("config", Steps("config"))
  <2>1. Steps("config") = <<"unreg", "clear", "release">>
    BY DEF Steps, Programs, Program, MM_config
  <2> QED
    BY <2>1, ClearSteps DEF Mute
<1>3. OrderFits("playerdata", Steps("playerdata"))
  <2>1. Steps("playerdata") = <<"unreg", "release">>
    BY DEF Steps, Programs, Program, MM_playerdata
  <2> QED
    BY <2>1, PlainSteps DEF Mute
<1>4. OrderFits("net", Steps("net"))
  <2>1. Steps("net") = <<"unreg", "clear", "cancel", "drain", "release">>
    BY DEF Steps, Programs, Program, MM_net
  <2> QED
    BY <2>1, NetSteps DEF Mute
<1>5. OrderFits("chatnet", Steps("chatnet"))
  <2>1. Steps("chatnet") = <<"unreg", "clear", "release">>
    BY DEF Steps, Programs, Program, MM_chatnet
  <2> QED
    BY <2>1, ClearSteps DEF Mute
<1>6. OrderFits("arenaman", Steps("arenaman"))
  <2>1. Steps("arenaman") = <<"unreg", "clear", "release">>
    BY DEF Steps, Programs, Program, MM_arenaman
  <2> QED
    BY <2>1, ClearSteps DEF Mute
<1>7. OrderFits("mapdata", Steps("mapdata"))
  <2>1. Steps("mapdata") = <<"unreg", "release">>
    BY DEF Steps, Programs, Program, MM_mapdata
  <2> QED
    BY <2>1, PlainSteps DEF Mute
<1>8. OrderFits("mapnewsdl", Steps("mapnewsdl"))
  <2>1. Steps("mapnewsdl") = <<"unreg", "clear", "release">>
    BY DEF Steps, Programs, Program, MM_mapnewsdl
  <2> QED
    BY <2>1, ClearSteps DEF Mute
<1>9. OrderFits("core", Steps("core"))
  <2>1. Steps("core") = <<"unreg", "clear", "release">>
    BY DEF Steps, Programs, Program, MM_core
  <2> QED
    BY <2>1, ClearSteps DEF Mute
<1>10. OrderFits("persist", Steps("persist"))
  <2>1. Steps("persist") = <<"unreg", "clear", "drain", "release", "join">>
    BY DEF Steps, Programs, Program, MM_persist
  <2> QED
    BY <2>1, PersistSteps DEF Mute
<1>11. OrderFits("game", Steps("game"))
  <2>1. Steps("game") = <<"unreg", "drain", "release">>
    BY DEF Steps, Programs, Program, MM_game
  <2> QED
    BY <2>1, DrainSteps DEF Mute
<1>12. OrderFits("chat", Steps("chat"))
  <2>1. Steps("chat") = <<"unreg", "drain", "release">>
    BY DEF Steps, Programs, Program, MM_chat
  <2> QED
    BY <2>1, DrainSteps DEF Mute
<1>13. OrderFits("security", Steps("security"))
  <2>1. Steps("security") = <<"clear", "release">>
    BY DEF Steps, Programs, Program, MM_security
  <2> QED
    BY <2>1, MuteSteps DEF Mute
<1>14. OrderFits("objects", Steps("objects"))
  <2>1. Steps("objects") = <<"unreg", "release">>
    BY DEF Steps, Programs, Program, MM_objects
  <2> QED
    BY <2>1, PlainSteps DEF Mute
<1>15. OrderFits("fake", Steps("fake"))
  <2>1. Steps("fake") = <<"unreg", "drain", "release">>
    BY DEF Steps, Programs, Program, MM_fake
  <2> QED
    BY <2>1, DrainSteps DEF Mute
<1>16. OrderFits("mysql", Steps("mysql"))
  <2>1. Steps("mysql") = <<"unreg", "cancel", "drain", "release">>
    BY DEF Steps, Programs, Program, MM_mysql
  <2> QED
    BY <2>1, MysqlSteps DEF Mute
<1>17. OrderFits("directory", Steps("directory"))
  <2>1. Steps("directory") = <<"clear", "release">>
    BY DEF Steps, Programs, Program, MM_directory
  <2> QED
    BY <2>1, MuteSteps DEF Mute
<1> QED
  BY <1>1, <1>2, <1>3, <1>4, <1>5, <1>6, <1>7, <1>8, <1>9, <1>10,
     <1>11, <1>12, <1>13, <1>14, <1>15, <1>16, <1>17 DEF Names

LEMMA NeedsAreMet == \A m \in Names : NeedsFit(m, Programs[m])
<1>1. NeedsFit("mainloop", Programs["mainloop"])
  BY DEF NeedsFit, Programs, Program, MM_mainloop, Mute, Threaded
<1>2. NeedsFit("config", Programs["config"])
  BY DEF NeedsFit, Programs, Program, MM_config, Mute, Threaded
<1>3. NeedsFit("playerdata", Programs["playerdata"])
  BY DEF NeedsFit, Programs, Program, MM_playerdata, Mute, Threaded
<1>4. NeedsFit("net", Programs["net"])
  BY DEF NeedsFit, Programs, Program, MM_net, Mute, Threaded
<1>5. NeedsFit("chatnet", Programs["chatnet"])
  BY DEF NeedsFit, Programs, Program, MM_chatnet, Mute, Threaded
<1>6. NeedsFit("arenaman", Programs["arenaman"])
  BY DEF NeedsFit, Programs, Program, MM_arenaman, Mute, Threaded
<1>7. NeedsFit("mapdata", Programs["mapdata"])
  BY DEF NeedsFit, Programs, Program, MM_mapdata, Mute, Threaded
<1>8. NeedsFit("mapnewsdl", Programs["mapnewsdl"])
  BY DEF NeedsFit, Programs, Program, MM_mapnewsdl, Mute, Threaded
<1>9. NeedsFit("core", Programs["core"])
  BY DEF NeedsFit, Programs, Program, MM_core, Mute, Threaded
<1>10. NeedsFit("persist", Programs["persist"])
  BY DEF NeedsFit, Programs, Program, MM_persist, Mute, Threaded
<1>11. NeedsFit("game", Programs["game"])
  BY DEF NeedsFit, Programs, Program, MM_game, Mute, Threaded
<1>12. NeedsFit("chat", Programs["chat"])
  BY DEF NeedsFit, Programs, Program, MM_chat, Mute, Threaded
<1>13. NeedsFit("security", Programs["security"])
  BY DEF NeedsFit, Programs, Program, MM_security, Mute, Threaded
<1>14. NeedsFit("objects", Programs["objects"])
  BY DEF NeedsFit, Programs, Program, MM_objects, Mute, Threaded
<1>15. NeedsFit("fake", Programs["fake"])
  BY DEF NeedsFit, Programs, Program, MM_fake, Mute, Threaded
<1>16. NeedsFit("mysql", Programs["mysql"])
  BY DEF NeedsFit, Programs, Program, MM_mysql, Mute, Threaded
<1>17. NeedsFit("directory", Programs["directory"])
  BY DEF NeedsFit, Programs, Program, MM_directory, Mute, Threaded
<1> QED
  BY <1>1, <1>2, <1>3, <1>4, <1>5, <1>6, <1>7, <1>8, <1>9, <1>10,
     <1>11, <1>12, <1>13, <1>14, <1>15, <1>16, <1>17 DEF Names

LEMMA StepsAre ==
    /\ Steps("mainloop") = <<"shutdown", "unreg">>
    /\ Steps("net") = <<"unreg", "clear", "cancel", "drain", "release">>
    /\ Steps("persist") = <<"unreg", "clear", "drain", "release", "join">>
    /\ Steps("game") = <<"unreg", "drain", "release">>
    /\ Steps("fake") = <<"unreg", "drain", "release">>
    /\ Steps("mysql") = <<"unreg", "cancel", "drain", "release">>
    /\ "playerdata" \in Programs["net"].must
BY DEF Steps, Programs, Program, MM_mainloop, MM_net, MM_persist, MM_game, MM_fake, MM_mysql

----------------------------------------------------------------------------
(* What main is in the middle of.                                          *)

Frame == [does : {"function", "timer", "unload", "drain"}, code : SUBSET (Names \cup {"main"}), pc : Nat]

UnloadOf(f, m) == f.does = "unload" /\ f.code = {m}
AtDrain(f) == \E m \in Modules : UnloadOf(f, m) /\ f.pc \in DOMAIN Steps(m) /\ Steps(m)[f.pc] = "drain"

\* What may be in the middle of something else.
Waits(f) ==
    \/ f.does = "function" /\ f.code = {"net"} /\ f.pc = 2
    \/ f.does = "timer" /\ f.code = {"arenaman"}
    \/ AtDrain(f)
    \/ f.does = "drain"

Shape(st) ==
    /\ st \in Seq(Frame)
    /\ \A i \in DOMAIN st :
          /\ st[i].does = "timer" => i = 1 /\ \E m \in Modules : st[i].code = {m}
          /\ st[i].does = "unload" => \E m \in Modules : st[i].code = {m} /\ st[i].pc \in 1 .. Len(Steps(m)) + 1
          /\ st[i].does = "drain" => /\ i > 1 /\ st[i].code = st[i - 1].code
                                     /\ AtDrain(st[i - 1]) \/ st[i - 1].does = "timer"
          /\ i < Len(st) => Waits(st[i])
    /\ \A i, j \in DOMAIN st : st[i].does = "unload" /\ st[j].does = "unload" /\ st[i].code = st[j].code => i = j

\* The unloading of m has got past a step.
PastIn(st, m, what) ==
    \E i \in DOMAIN st : UnloadOf(st[i], m) /\ \E k \in DOMAIN Steps(m) : k < st[i].pc /\ Steps(m)[k] = what
Past(m, what) == PastIn(stack, m, what)
Alive(m, what) == m \in Loaded /\ ~Past(m, what)

SamePast(st, tt) == \A m, what : PastIn(st, m, what) <=> PastIn(tt, m, what)
WithPc(st, n) == [st EXCEPT ![Len(st)].pc = n]

LEMMA WithPcIs ==
    ASSUME NEW st \in Seq(Frame), st # <<>>, NEW n \in Nat
    PROVE  /\ WithPc(st, n) \in Seq(Frame) /\ Len(WithPc(st, n)) = Len(st) /\ WithPc(st, n) # <<>>
           /\ DOMAIN WithPc(st, n) = DOMAIN st /\ Len(st) \in DOMAIN st
           /\ \A i \in DOMAIN st : i # Len(st) => WithPc(st, n)[i] = st[i]
           /\ WithPc(st, n)[Len(st)].does = st[Len(st)].does
           /\ WithPc(st, n)[Len(st)].code = st[Len(st)].code
           /\ WithPc(st, n)[Len(st)].pc = n
<1>1. Len(st) \in DOMAIN st /\ st[Len(st)] \in Frame
  OBVIOUS
<1>2. PICK c : c = [st[Len(st)] EXCEPT !.pc = n]
  OBVIOUS
<1>3. c \in Frame /\ c.does = st[Len(st)].does /\ c.code = st[Len(st)].code /\ c.pc = n
  BY <1>1, <1>2 DEF Frame
<1>4. WithPc(st, n) = [st EXCEPT ![Len(st)] = c]
  BY <1>1, <1>2 DEF WithPc
<1> HIDE <1>2
<1> QED
  BY <1>1, <1>3, <1>4

LEMMA FrontIs ==
    ASSUME NEW S, NEW st \in Seq(S), st # <<>>
    PROVE  /\ Front(st) \in Seq(S) /\ Len(Front(st)) = Len(st) - 1 /\ DOMAIN Front(st) = 1 .. Len(st) - 1
           /\ Len(st) \in Nat /\ Len(st) >= 1 /\ DOMAIN st = 1 .. Len(st) /\ Last(st) = st[Len(st)]
           /\ \A i \in 1 .. Len(st) - 1 : Front(st)[i] = st[i] /\ i \in DOMAIN st
BY DEF Front, Last

LEMMA AppendIs ==
    ASSUME NEW S, NEW st \in Seq(S), NEW c \in S
    PROVE  /\ Append(st, c) \in Seq(S) /\ Len(Append(st, c)) = Len(st) + 1 /\ Append(st, c) # <<>>
           /\ DOMAIN Append(st, c) = 1 .. Len(st) + 1 /\ DOMAIN st = 1 .. Len(st) /\ Len(st) \in Nat
           /\ \A i \in DOMAIN st : Append(st, c)[i] = st[i]
           /\ Append(st, c)[Len(st) + 1] = c
OBVIOUS

\* Something new is begun.
LEMMA PushFits ==
    ASSUME Modules \subseteq Names, NEW st, Shape(st), NEW c \in Frame, st # <<>> => Waits(st[Len(st)]),
           c.does = "timer" => st = <<>> /\ \E m \in Modules : c.code = {m},
           c.does = "unload" => c.pc = 1 /\ \E m \in Modules : c.code = {m} /\ \A i \in DOMAIN st : ~UnloadOf(st[i], m),
           c.does = "drain" => /\ st # <<>> /\ c.code = st[Len(st)].code
                               /\ AtDrain(st[Len(st)]) \/ st[Len(st)].does = "timer"
    PROVE  Shape(Append(st, c)) /\ SamePast(Append(st, c), st)
<1> DEFINE tt == Append(st, c)
<1>1. st \in Seq(Frame)
  BY DEF Shape
<1>2. /\ tt \in Seq(Frame) /\ Len(tt) = Len(st) + 1 /\ DOMAIN tt = 1 .. Len(st) + 1 /\ DOMAIN st = 1 .. Len(st)
      /\ Len(st) \in Nat /\ \A i \in DOMAIN st : tt[i] = st[i]
  BY <1>1, AppendIs
<1>3. tt[Len(st) + 1] = c
  BY <1>1, AppendIs
<1>4. st # <<>> <=> Len(st) > 0
  BY <1>1
<1>5. ASSUME NEW m \in Modules PROVE Len(Steps(m)) \in Nat
  BY OrdersFit DEF OrderFits
<1> HIDE DEF tt
<1>6. ASSUME NEW i \in DOMAIN tt
      PROVE  /\ tt[i].does = "timer" => i = 1 /\ \E m \in Modules : tt[i].code = {m}
             /\ tt[i].does = "unload" => \E m \in Modules : tt[i].code = {m} /\ tt[i].pc \in 1 .. Len(Steps(m)) + 1
             /\ tt[i].does = "drain" => /\ i > 1 /\ tt[i].code = tt[i - 1].code
                                        /\ AtDrain(tt[i - 1]) \/ tt[i - 1].does = "timer"
             /\ i < Len(tt) => Waits(tt[i])
  <2>1. CASE i = Len(st) + 1
    <3>1. i > 1 => i - 1 \in DOMAIN st /\ i - 1 = Len(st) /\ tt[i - 1] = st[i - 1]
      BY <2>1, <1>2
    <3>2. tt[i] = c /\ ~(i < Len(tt))
      BY <2>1, <1>2, <1>3
    <3>3. c.does = "timer" => i = 1 /\ \E m \in Modules : c.code = {m}
      BY <2>1, <1>2, <1>4
    <3>4. c.does = "unload" => \E m \in Modules : c.code = {m} /\ c.pc \in 1 .. Len(Steps(m)) + 1
      BY <1>5
    <3>5. c.does = "drain" => i > 1 /\ c.code = tt[i - 1].code /\ (AtDrain(tt[i - 1]) \/ tt[i - 1].does = "timer")
      BY <2>1, <1>2, <1>4, <3>1
    <3> QED
      BY <3>2, <3>3, <3>4, <3>5
  <2>2. CASE i \in DOMAIN st
    <3>1. tt[i] = st[i] /\ (i > 1 => i - 1 \in DOMAIN st /\ tt[i - 1] = st[i - 1])
      BY <2>2, <1>2
    <3>2. i < Len(st) \/ (i = Len(st) /\ st # <<>>)
      BY <2>2, <1>2, <1>4
    <3> QED
      BY <2>2, <3>1, <3>2, <1>2 DEF Shape
  <2> QED
    BY <2>1, <2>2, <1>2
<1>7. ASSUME NEW i \in DOMAIN tt, NEW j \in DOMAIN tt, tt[i].does = "unload", tt[j].does = "unload", tt[i].code = tt[j].code
      PROVE  i = j
  <2>1. \A k \in DOMAIN tt : k \in DOMAIN st \/ k = Len(st) + 1
    BY <1>2
  <2>2. c.does = "unload" => \A k \in DOMAIN st : ~(st[k].does = "unload" /\ st[k].code = c.code)
    BY DEF UnloadOf
  <2>3. CASE i \in DOMAIN st /\ j \in DOMAIN st
    BY <2>3, <1>2, <1>7 DEF Shape
  <2> QED
    BY <2>1, <2>2, <2>3, <1>2, <1>3, <1>7
<1>8. Shape(tt)
  BY <1>2, <1>6, <1>7 DEF Shape
<1>9. SamePast(tt, st)
  <2>1. ASSUME NEW m, UnloadOf(c, m), NEW k \in DOMAIN Steps(m) PROVE ~(k < c.pc)
    <3>1. m \in Modules /\ c.pc = 1
      BY <2>1 DEF UnloadOf
    <3> QED
      BY <3>1, <2>1, OrdersFit DEF OrderFits
  <2> QED
    BY <2>1, <1>2, <1>3 DEF SamePast, PastIn
<1> QED
  BY <1>8, <1>9 DEF tt

\* What is done last is over.
LEMMA PopFits ==
    ASSUME NEW st, Shape(st), st # <<>>
    PROVE  /\ Shape(Front(st))
           /\ \A m, what : ~UnloadOf(st[Len(st)], m) => (PastIn(Front(st), m, what) <=> PastIn(st, m, what))
           /\ \A m, what : UnloadOf(st[Len(st)], m) => ~PastIn(Front(st), m, what)
<1>1. st \in Seq(Frame)
  BY DEF Shape
<1> DEFINE tt == Front(st)
<1>2. /\ tt \in Seq(Frame) /\ Len(tt) = Len(st) - 1 /\ DOMAIN tt = 1 .. Len(st) - 1
      /\ Len(st) \in Nat /\ Len(st) >= 1 /\ DOMAIN st = 1 .. Len(st)
      /\ \A i \in 1 .. Len(st) - 1 : tt[i] = st[i] /\ i \in DOMAIN st
  BY <1>1, FrontIs
<1> HIDE DEF tt
<1>3. ASSUME NEW i \in DOMAIN tt
      PROVE  /\ tt[i].does = "timer" => i = 1 /\ \E m \in Modules : tt[i].code = {m}
             /\ tt[i].does = "unload" => \E m \in Modules : tt[i].code = {m} /\ tt[i].pc \in 1 .. Len(Steps(m)) + 1
             /\ tt[i].does = "drain" => /\ i > 1 /\ tt[i].code = tt[i - 1].code
                                        /\ AtDrain(tt[i - 1]) \/ tt[i - 1].does = "timer"
             /\ i < Len(tt) => Waits(tt[i])
  <2>1. tt[i] = st[i] /\ i \in DOMAIN st /\ (i > 1 => tt[i - 1] = st[i - 1]) /\ i < Len(st)
    BY <1>2
  <2> QED
    BY <2>1 DEF Shape
<1>4. \A i, j \in DOMAIN tt : tt[i].does = "unload" /\ tt[j].does = "unload" /\ tt[i].code = tt[j].code => i = j
  BY <1>2 DEF Shape
<1>5. Shape(tt)
  BY <1>2, <1>3, <1>4 DEF Shape
<1>6. \A i \in DOMAIN st : i = Len(st) \/ i \in DOMAIN tt
  BY <1>2
<1>7. ASSUME NEW m, NEW what, ~UnloadOf(st[Len(st)], m) PROVE PastIn(tt, m, what) <=> PastIn(st, m, what)
  BY <1>2, <1>6, <1>7 DEF PastIn
<1>8. ASSUME NEW m, NEW what, UnloadOf(st[Len(st)], m) PROVE ~PastIn(tt, m, what)
  <2>1. ASSUME NEW i \in DOMAIN tt, UnloadOf(tt[i], m) PROVE FALSE
    <3>1. i \in DOMAIN st /\ Len(st) \in DOMAIN st /\ i # Len(st) /\ tt[i] = st[i]
      BY <1>2
    <3>2. i = Len(st)
      BY <3>1, <2>1, <1>8 DEF Shape, UnloadOf
    <3> QED
      BY <3>1, <3>2
  <2> QED
    BY <2>1 DEF PastIn
<1> QED
  BY <1>5, <1>7, <1>8 DEF tt

\* It goes on with another step.
LEMMA WithPcFits ==
    ASSUME NEW st, Shape(st), st # <<>>, NEW n \in Nat,
           \A m \in Modules : UnloadOf(st[Len(st)], m) => n \in 1 .. Len(Steps(m)) + 1
    PROVE  Shape(WithPc(st, n))
<1>1. st \in Seq(Frame)
  BY DEF Shape
<1> DEFINE tt == WithPc(st, n)
<1>2. /\ tt \in Seq(Frame) /\ Len(tt) = Len(st) /\ DOMAIN tt = DOMAIN st /\ Len(st) \in DOMAIN st
      /\ (\A i \in DOMAIN st : i # Len(st) => tt[i] = st[i])
      /\ tt[Len(st)].does = st[Len(st)].does /\ tt[Len(st)].code = st[Len(st)].code /\ tt[Len(st)].pc = n
  BY <1>1, WithPcIs
<1>3. DOMAIN st = 1 .. Len(st) /\ Len(st) \in Nat
  BY <1>1
<1> HIDE DEF tt
<1>4. \A i \in DOMAIN tt : tt[i].does = st[i].does /\ tt[i].code = st[i].code
  BY <1>2
<1>5. ASSUME NEW i \in DOMAIN tt
      PROVE  /\ tt[i].does = "timer" => i = 1 /\ \E m \in Modules : tt[i].code = {m}
             /\ tt[i].does = "unload" => \E m \in Modules : tt[i].code = {m} /\ tt[i].pc \in 1 .. Len(Steps(m)) + 1
             /\ tt[i].does = "drain" => /\ i > 1 /\ tt[i].code = tt[i - 1].code
                                        /\ AtDrain(tt[i - 1]) \/ tt[i - 1].does = "timer"
             /\ i < Len(tt) => Waits(tt[i])
  <2>1. i > 1 => i - 1 \in DOMAIN st /\ tt[i - 1] = st[i - 1]
    BY <1>2, <1>3
  <2>2. tt[i].does = "unload" => \E m \in Modules : tt[i].code = {m} /\ tt[i].pc \in 1 .. Len(Steps(m)) + 1
    <3>1. CASE i = Len(st)
      BY <3>1, <1>2, <1>4 DEF Shape, UnloadOf
    <3>2. CASE i # Len(st)
      BY <3>2, <1>2 DEF Shape
    <3> QED
      BY <3>1, <3>2
  <2>3. i < Len(tt) => tt[i] = st[i]
    BY <1>2, <1>3
  <2> QED
    BY <2>1, <2>2, <2>3, <1>2, <1>4 DEF Shape
<1>6. \A i, j \in DOMAIN tt : tt[i].does = "unload" /\ tt[j].does = "unload" /\ tt[i].code = tt[j].code => i = j
  BY <1>2, <1>4 DEF Shape
<1> QED
  BY <1>2, <1>5, <1>6 DEF Shape, tt

LEMMA WithPcPast ==
    ASSUME NEW st, Shape(st), st # <<>>, NEW n \in Nat
    PROVE  /\ st[Len(st)].does # "unload" => SamePast(WithPc(st, n), st)
           /\ \A p : /\ UnloadOf(st[Len(st)], p) /\ st[Len(st)].pc \in DOMAIN Steps(p) /\ n = st[Len(st)].pc + 1
                     /\ p \in Names
                     => \A m, what : PastIn(WithPc(st, n), m, what) <=>
                                       PastIn(st, m, what) \/ (m = p /\ what = Steps(p)[st[Len(st)].pc])
<1>1. st \in Seq(Frame)
  BY DEF Shape
<1> DEFINE tt == WithPc(st, n)
<1>2. /\ tt \in Seq(Frame) /\ Len(tt) = Len(st) /\ DOMAIN tt = DOMAIN st /\ Len(st) \in DOMAIN st
      /\ (\A i \in DOMAIN st : i # Len(st) => tt[i] = st[i])
      /\ tt[Len(st)].does = st[Len(st)].does /\ tt[Len(st)].code = st[Len(st)].code /\ tt[Len(st)].pc = n
  BY <1>1, WithPcIs
<1> HIDE DEF tt
<1>3. ASSUME st[Len(st)].does # "unload" PROVE SamePast(tt, st)
  BY <1>2, <1>3 DEF SamePast, PastIn, UnloadOf
<1>4. ASSUME NEW p, UnloadOf(st[Len(st)], p), st[Len(st)].pc \in DOMAIN Steps(p), n = st[Len(st)].pc + 1, p \in Names,
             NEW m, NEW what
      PROVE  PastIn(tt, m, what) <=> PastIn(st, m, what) \/ (m = p /\ what = Steps(p)[st[Len(st)].pc])
  <2>1. \A i \in DOMAIN st : UnloadOf(tt[i], m) <=> UnloadOf(st[i], m)
    BY <1>2 DEF UnloadOf
  <2>2. UnloadOf(st[Len(st)], m) <=> m = p
    BY <1>4 DEF UnloadOf
  <2>3. DOMAIN Steps(p) = 1 .. Len(Steps(p)) /\ Len(Steps(p)) \in Nat
    BY <1>4, OrdersFit DEF OrderFits
  <2>4. \A k \in DOMAIN Steps(p) : k < n <=> k < st[Len(st)].pc \/ k = st[Len(st)].pc
    BY <1>4, <2>3
  <2>5. CASE m = p
    <3>1. \A i \in DOMAIN st : UnloadOf(st[i], p) => i = Len(st)
      BY <1>2, <1>4 DEF Shape, UnloadOf
    <3> QED
      BY <2>1, <2>4, <2>5, <3>1, <1>2, <1>4 DEF PastIn
  <2>6. CASE m # p
    BY <2>1, <2>2, <2>6, <1>2 DEF PastIn
  <2> QED
    BY <2>5, <2>6
<1> QED
  BY <1>3, <1>4 DEF tt

----------------------------------------------------------------------------
(* The invariant.                                                          *)

\* What the modules have main call: their own functions, and persist's also that of who asked.
Sponsors == {"net", "persist", "mysql", "game", "fake"}
CodesOf(m) ==
    CASE m = "net" -> {{"net"}, {"playerdata"}}
      [] m = "persist" -> {{"persist", "core"}, {"persist", "arenaman"}, {"persist", "main"}}
      [] m \notin {"net", "persist"} -> {{m}}

\* Who had a function queued has still to wait for it.
Backed(c) == c \cap Modules \subseteq Loaded /\ \E m \in Sponsors : c \in CodesOf(m) /\ Alive(m, "drain")

StackFits(st) ==
    /\ Shape(st)
    /\ \A i \in DOMAIN st :
          /\ st[i].does = "function" => Backed(st[i].code)
          /\ st[i].does = "timer" => st[i].code \subseteq Loaded \cup {"directory"}
          /\ st[i].does = "unload" => st[i].code \subseteq Loaded

Middle == {"waiting", "dozing", "asleep", "stopping"}
Holding == Middle \cup {"running"}

\* What main may be in the middle of when.
InPhase(st) ==
    /\ phase \notin {"running", "unloading"} => st = <<>>
    /\ phase = "running" /\ at = "returned" => st = <<>>
    /\ phase = "running" => \A i \in DOMAIN st : st[i].does = "unload" => st[i].code \subseteq Removable
    /\ phase = "unloading" =>
          \/ st = <<>> /\ mods = left
          \/ /\ st # <<>> /\ \E m \in Modules : UnloadOf(st[1], m) /\ mods = Append(left, m)
             /\ \A i \in DOMAIN st : i > 1 => st[i].does # "unload"

PhaseFits ==
    /\ quit \in BOOLEAN /\ at \in {"call", "timers", "rest", "returned"}
    /\ phase \in Holding \cup {"loading", "unloading", "ended"}
    /\ left \in Seq(Modules)
    /\ at = "returned" => quit
    /\ phase = "loading" => at # "returned"
    /\ phase \notin {"loading", "running"} => at = "returned"
    /\ phase = "ended" => mods = <<>>

LateOf(m) == IF m \in {"core", "arenaman"} THEN {"persist"} ELSE {}
GotLate(m) == IF phase \in Holding THEN LateOf(m) ELSE {}

ModsFit ==
    /\ mods \in Seq(Modules)
    /\ \A i, j \in DOMAIN mods : mods[i] = mods[j] => i = j
    /\ phase = "loading" => Len(mods) <= Len(Conf) /\ \A i \in DOMAIN mods : mods[i] = Conf[i]
    /\ phase \in Holding => ToSet(Conf) \ Removable \subseteq Loaded
    /\ \A a, b \in DOMAIN mods : mods[b] \in LateOf(mods[a]) => a < b

RegisteredFits ==
    /\ registered \subseteq Modules \ Mute
    /\ \A m \in registered : Alive(m, "unreg")
    /\ \A m \in Loaded \ Mute : ~Past(m, "unreg") => m \in registered

HeldFits ==
    /\ held \in [Modules -> SUBSET Modules]
    /\ \A m \in Loaded : /\ held[m] \subseteq Programs[m].gets \cup GotLate(m)
                         /\ Programs[m].must \cap Modules \subseteq held[m]
                         /\ ~Past(m, "release") => held[m] \subseteq registered
    /\ \A a, b \in DOMAIN mods :
          mods[b] \in held[mods[a]] /\ ~Past(mods[a], "release") => b < a \/ mods[b] \in GotLate(mods[a])

\* Who holds the interface of i and will give it back; main has the main loop's.
Holders(i) == {m \in Loaded : i \in held[m] /\ ~Past(m, "release")}
Own(i) == IF i = "mainloop" /\ phase \in Holding THEN 1 ELSE 0

\* A module of modules.conf that refuses to load may keep what it got; main does not go on.
Refused ==
    /\ phase = "loading" /\ Len(mods) < Len(Conf)
    /\ ~(Programs[Conf[Len(mods) + 1]].must \cap Modules \subseteq registered)
RefsFit ==
    /\ refs \in [Modules -> Int]
    /\ \A i \in Modules : /\ refs[i] >= Cardinality(Holders(i)) + Own(i)
                          /\ ~Refused => refs[i] = Cardinality(Holders(i)) + Own(i)

ModuleInv == ModsFit /\ RegisteredFits /\ HeldFits /\ RefsFit

TimersFit ==
    \A t \in timers : /\ t \in [mod : Modules, running : BOOLEAN, killme : BOOLEAN]
                      /\ t.mod = "directory" \/ ("timer" \in Programs[t.mod].starts /\ Alive(t.mod, "clear"))
                      /\ t.running => stack # <<>> /\ stack[1].does = "timer" /\ stack[1].code = {t.mod}

Waiting(t) == threads[t].at \in {"adding", "calling"}
Message == {"core", "arenaman", "main", "mysql"}
ThreadRecord == [at : {"none", "idle", "adding", "calling"}, asked : Seq(Message), code : SUBSET (Names \cup {"main"})]

QueueFits == queue \in Seq(UNION {CodesOf(m) : m \in Sponsors}) /\ \A i \in DOMAIN queue : Backed(queue[i])
ThreadsFit ==
    /\ threads \in [Threaded -> ThreadRecord]
    /\ \A t \in Threaded :
          /\ threads[t].at # "none" => Alive(t, "cancel") /\ Alive(t, "join")
          /\ IF Waiting(t) THEN threads[t].code \in CodesOf(t) /\ Backed(threads[t].code) ELSE threads[t].code = {}
    /\ \A k \in DOMAIN threads["mysql"].asked : threads["mysql"].asked[k] = "mysql"

Quiet == threads["persist"].at = "none" \/ (threads["persist"].at = "idle" /\ threads["persist"].asked = <<>>)

\* Main's message is the last that persist is asked.
PersistFits ==
    LET p == threads["persist"]
        n == Len(p.asked)
    IN  /\ done \in BOOLEAN
        /\ \A k \in DOMAIN p.asked : p.asked[k] # "mysql"
        /\ phase \notin {"unloading", "ended"} => \A k \in DOMAIN p.asked : p.asked[k] \in Loaded \cup {"main"}
        /\ phase \in {"loading", "running"} =>
              ~done /\ p.code # {"persist", "main"} /\ \A k \in DOMAIN p.asked : p.asked[k] # "main"
        /\ phase \in {"waiting", "dozing", "asleep"} =>
              \/ done /\ Quiet
              \/ /\ ~done /\ p.asked # <<>> /\ p.code # {"persist", "main"}
                 /\ \A k \in DOMAIN p.asked : p.asked[k] = "main" <=> k = n
              \/ ~done /\ p.asked = <<>> /\ p.at = "calling" /\ p.code = {"persist", "main"}
        /\ phase \in {"stopping", "unloading", "ended"} => Quiet

Fits(st) == StackFits(st) /\ InPhase(st)
ServerInv == Fits(stack) /\ PhaseFits /\ ModuleInv /\ TimersFit /\ QueueFits /\ ThreadsFit /\ PersistFits

\* modules.conf names each module once, and persist after those that get its interface later.
ConfFits ==
    /\ Modules \subseteq Names /\ Conf \in Seq(Modules)
    /\ \A i, j \in DOMAIN Conf : Conf[i] = Conf[j] => i = j
    /\ \A i, j \in DOMAIN Conf : Conf[j] \in LateOf(Conf[i]) => i < j

\* Nobody unloads what the server cannot do without, a module while it is being unloaded, or a
\* module that another needs.
RemovalsFit ==
    /\ ~Twice
    /\ Removable \subseteq Modules \ {"mainloop", "net", "arenaman", "core", "persist"}
    /\ \A m \in Removable : Programs[m].must \cap Modules \subseteq ToSet(Conf) \ Removable

----------------------------------------------------------------------------
(* Steps that leave the modules alone.                                     *)

\* Only two steps of the unloading of a module concern others.
LEMMA ModulesKeep ==
    ASSUME ModuleInv, moduleVars' = moduleVars,
           \/ phase' = phase \/ (phase \in Holding /\ phase' \in Holding)
           \/ phase = "unloading" /\ phase' = "ended",
           \A m : Past(m, "unreg")' <=> Past(m, "unreg"),
           \A m : Past(m, "release")' <=> Past(m, "release")
    PROVE  ModuleInv'
<1>1. mods' = mods /\ registered' = registered /\ refs' = refs /\ held' = held /\ Loaded' = Loaded
  BY DEF moduleVars, Loaded
<1>2. /\ phase' \in Holding <=> phase \in Holding
      /\ phase' = "loading" <=> phase = "loading"
  BY DEF Holding, Middle
<1>3. \A m : GotLate(m)' = GotLate(m)
  BY <1>2 DEF GotLate
<1>4. \A i : Holders(i)' = Holders(i) /\ Own(i)' = Own(i)
  BY <1>1, <1>2 DEF Holders, Own
<1>5. Refused' <=> Refused
  BY <1>1, <1>2 DEF Refused
<1>6. ModsFit'
  BY <1>1, <1>2 DEF ModuleInv, ModsFit
<1>7. RegisteredFits'
  BY <1>1 DEF ModuleInv, RegisteredFits, Alive
<1>8. HeldFits'
  BY <1>1, <1>3 DEF ModuleInv, HeldFits
<1>9. RefsFit'
  BY <1>1, <1>4, <1>5 DEF ModuleInv, RefsFit
<1> QED
  BY <1>6, <1>7, <1>8, <1>9 DEF ModuleInv

\* What main is in the middle of, in the way it was.
FirstStays(st, tt) ==
    st # <<>> /\ st[1].does = "timer" => tt # <<>> /\ tt[1].does = "timer" /\ tt[1].code = st[1].code
Goes(st, tt) == Fits(tt) /\ SamePast(tt, st) /\ FirstStays(st, tt)

LEMMA PushGoes ==
    ASSUME Modules \subseteq Names, NEW st, Fits(st), NEW c \in Frame, c.does # "unload",
           st # <<>> => Waits(st[Len(st)]), st = <<>> => phase = "running" /\ at # "returned",
           c.does = "function" => Backed(c.code),
           c.does = "timer" => st = <<>> /\ \E m \in Modules : c.code = {m} /\ m \in Loaded \cup {"directory"},
           c.does = "drain" => /\ st # <<>> /\ c.code = st[Len(st)].code
                               /\ AtDrain(st[Len(st)]) \/ st[Len(st)].does = "timer"
    PROVE  Goes(st, Append(st, c))
<1> DEFINE tt == Append(st, c)
<1>1. Shape(st) /\ st \in Seq(Frame)
  BY DEF Fits, StackFits, Shape
<1>2. /\ Len(tt) = Len(st) + 1 /\ DOMAIN tt = 1 .. Len(st) + 1 /\ DOMAIN st = 1 .. Len(st) /\ tt # <<>>
      /\ Len(st) \in Nat /\ (\A i \in DOMAIN st : tt[i] = st[i]) /\ tt[Len(st) + 1] = c
  BY <1>1, AppendIs
<1>3. Shape(tt) /\ SamePast(tt, st)
  BY <1>1, PushFits
<1>4. st # <<>> => 1 \in DOMAIN st
  BY <1>1
<1> HIDE DEF tt
<1>5. \A i \in DOMAIN tt : i \in DOMAIN st \/ i = Len(st) + 1
  BY <1>2
<1>6. StackFits(tt)
  BY <1>2, <1>3, <1>5 DEF Fits, StackFits
<1>7. InPhase(tt)
  BY <1>1, <1>2, <1>4, <1>5 DEF Fits, InPhase
<1>8. FirstStays(st, tt)
  BY <1>2, <1>4 DEF FirstStays
<1> QED
  BY <1>3, <1>6, <1>7, <1>8 DEF Goes, Fits, tt

LEMMA PopGoes ==
    ASSUME NEW st, Fits(st), st # <<>>, st[Len(st)].does # "unload"
    PROVE  /\ Fits(Front(st)) /\ SamePast(Front(st), st)
           /\ st[Len(st)].does # "timer" => FirstStays(st, Front(st))
<1> DEFINE tt == Front(st)
<1>1. Shape(st) /\ st \in Seq(Frame)
  BY DEF Fits, StackFits, Shape
<1>2. /\ tt \in Seq(Frame) /\ Len(tt) = Len(st) - 1 /\ DOMAIN tt = 1 .. Len(st) - 1
      /\ Len(st) \in Nat /\ Len(st) >= 1 /\ DOMAIN st = 1 .. Len(st)
      /\ \A i \in 1 .. Len(st) - 1 : tt[i] = st[i] /\ i \in DOMAIN st
  BY <1>1, FrontIs
<1>3. Shape(tt) /\ SamePast(tt, st)
  <2>1. \A m : ~UnloadOf(st[Len(st)], m)
    BY DEF UnloadOf
  <2> QED
    BY <1>1, <2>1, PopFits DEF SamePast
<1> HIDE DEF tt
<1>4. StackFits(tt)
  BY <1>2, <1>3 DEF Fits, StackFits
<1>5. Len(st) = 1 <=> tt = <<>>
  BY <1>2
<1>6. phase # "unloading" \/ Len(st) > 1
  <2>1. ASSUME phase = "unloading" PROVE st[1].does = "unload"
    BY <2>1 DEF Fits, InPhase, UnloadOf
  <2> QED
    BY <1>2, <2>1
<1>7. InPhase(tt)
  <2>1. phase \in {"running", "unloading"} /\ ~(phase = "running" /\ at = "returned")
    BY DEF Fits, InPhase
  <2>2. phase = "running" => \A i \in DOMAIN tt : tt[i].does = "unload" => tt[i].code \subseteq Removable
    BY <1>2 DEF Fits, InPhase
  <2>3. ASSUME phase = "unloading" 
        PROVE  /\ tt # <<>> /\ \E m \in Modules : UnloadOf(tt[1], m) /\ mods = Append(left, m)
               /\ \A i \in DOMAIN tt : i > 1 => tt[i].does # "unload"
    BY <1>2, <1>5, <1>6, <2>3 DEF Fits, InPhase
  <2> QED
    BY <2>1, <2>2, <2>3 DEF InPhase
<1>8. ASSUME st[Len(st)].does # "timer" PROVE FirstStays(st, tt)
  BY <1>2, <1>5, <1>8 DEF FirstStays
<1> QED
  BY <1>3, <1>4, <1>7, <1>8 DEF Fits, tt

LEMMA WithPcGoes ==
    ASSUME NEW st, Fits(st), st # <<>>, NEW n \in Nat, st[Len(st)].does # "unload"
    PROVE  Goes(st, WithPc(st, n))
<1> DEFINE tt == WithPc(st, n)
<1>1. Shape(st) /\ st \in Seq(Frame)
  BY DEF Fits, StackFits, Shape
<1>2. /\ tt \in Seq(Frame) /\ Len(tt) = Len(st) /\ DOMAIN tt = DOMAIN st /\ Len(st) \in DOMAIN st /\ tt # <<>>
      /\ (\A i \in DOMAIN st : i # Len(st) => tt[i] = st[i])
      /\ tt[Len(st)].does = st[Len(st)].does /\ tt[Len(st)].code = st[Len(st)].code /\ tt[Len(st)].pc = n
  BY <1>1, WithPcIs
<1>3. Shape(tt) /\ SamePast(tt, st)
  BY <1>1, WithPcFits, WithPcPast DEF UnloadOf
<1> HIDE DEF tt
<1>4. /\ \A i \in DOMAIN tt : tt[i].does = st[i].does /\ tt[i].code = st[i].code
      /\ DOMAIN st = 1 .. Len(st) /\ Len(st) \in Nat /\ 1 \in DOMAIN st
  BY <1>1, <1>2
<1>5. StackFits(tt)
  BY <1>2, <1>3, <1>4 DEF Fits, StackFits
<1>6. InPhase(tt)
  <2>1. \A m : UnloadOf(tt[1], m) <=> UnloadOf(st[1], m)
    BY <1>2, <1>4 DEF UnloadOf
  <2> QED
    BY <1>2, <1>4, <2>1 DEF Fits, InPhase
<1>7. FirstStays(st, tt)
  BY <1>2, <1>4 DEF FirstStays
<1> QED
  BY <1>3, <1>5, <1>6, <1>7 DEF Goes, Fits, tt

LEMMA GoesOn ==
    ASSUME NEW st, NEW tt, NEW uu, Goes(st, tt), Goes(tt, uu)
    PROVE  Goes(st, uu)
BY DEF Goes, SamePast, FirstStays

LEMMA GoesNowhere == Fits(stack) => Goes(stack, stack)
BY DEF Goes, SamePast, FirstStays

\* What main does changes where it is, and nothing that concerns the modules.
LEMMA Settles ==
    ASSUME ServerInv, moduleVars' = moduleVars, phase' = phase, left' = left, at' = at, quit' \in {quit, TRUE},
           NEW tt, stack' = tt, Fits(tt), SamePast(tt, stack)
    PROVE  /\ Fits(stack)' /\ PhaseFits' /\ ModuleInv' /\ Loaded' = Loaded
           /\ \A m, what : Past(m, what)' <=> Past(m, what)
           /\ \A c : Backed(c)' <=> Backed(c)
           /\ timers' = timers /\ FirstStays(stack, tt) => TimersFit'
           /\ queue' = queue => QueueFits'
           /\ threads' = threads => ThreadsFit' /\ (done' = done => PersistFits')
<1>1. Loaded' = Loaded /\ mods' = mods
  BY DEF moduleVars, Loaded
<1>2. \A m, what : Past(m, what)' <=> Past(m, what)
  BY DEF SamePast, Past
<1>3. \A m, what : Alive(m, what)' <=> Alive(m, what)
  BY <1>1, <1>2 DEF Alive
<1>4. \A c : Backed(c)' <=> Backed(c)
  BY <1>1, <1>3 DEF Backed
<1>5. StackFits(stack)'
  BY <1>1, <1>4 DEF Fits, StackFits
<1>6. InPhase(stack)'
  BY <1>1 DEF Fits, InPhase
<1>7. PhaseFits'
  BY <1>1 DEF ServerInv, PhaseFits
<1>8. ModuleInv'
  BY <1>2, ModulesKeep DEF ServerInv
<1>9. ASSUME timers' = timers, FirstStays(stack, tt) PROVE TimersFit'
  <2>1. TimersFit
    BY DEF ServerInv
  <2>2. ASSUME NEW t \in timers, t.running PROVE stack' # <<>> /\ stack'[1].does = "timer" /\ stack'[1].code = {t.mod}
    BY <1>9, <2>1, <2>2 DEF TimersFit, FirstStays
  <2> QED
    BY <1>3, <1>9, <2>1, <2>2 DEF TimersFit
<1>10. ASSUME queue' = queue PROVE QueueFits'
  BY <1>4, <1>10 DEF ServerInv, QueueFits
<1>11. ASSUME threads' = threads PROVE ThreadsFit' /\ (done' = done => PersistFits')
  <2>1. ThreadsFit'
    BY <1>3, <1>4, <1>11 DEF ServerInv, ThreadsFit, Waiting
  <2>2. ASSUME done' = done PROVE PersistFits'
    BY <1>1, <1>11, <2>2 DEF ServerInv, PersistFits, Quiet
  <2> QED
    BY <2>1, <2>2
<1> QED
  BY <1>1, <1>2, <1>4, <1>5, <1>6, <1>7, <1>8, <1>9, <1>10, <1>11 DEF Fits

----------------------------------------------------------------------------
(* The main loop.                                                          *)

\* Main is in the middle of something only while the server runs or is unloaded.
LEMMA TopIs ==
    ASSUME ServerInv, stack # <<>>
    PROVE  /\ Top = stack[Len(stack)] /\ Len(stack) \in DOMAIN stack /\ Top \in Frame
           /\ phase \in {"running", "unloading"} /\ ~(phase = "running" /\ at = "returned")
           /\ stack \in Seq(Frame) /\ DOMAIN stack = 1 .. Len(stack) /\ Len(stack) \in Nat /\ Len(stack) > 0
<1>1. stack \in Seq(Frame)
  BY DEF ServerInv, Fits, StackFits, Shape
<1>2. Top = stack[Len(stack)] /\ Len(stack) \in DOMAIN stack
  BY <1>1 DEF Top, Last
<1>3. phase \in {"running", "unloading"} /\ ~(phase = "running" /\ at = "returned")
  BY DEF ServerInv, Fits, InPhase
<1> QED
  BY <1>1, <1>2, <1>3

LEMMA EmptyTop == stack = <<>> => Top.does = "nothing"
BY DEF Top, Call

\* The functions in the queue, without the first.
LEMMA QueueShrinks ==
    ASSUME QueueFits, queue # <<>>
    PROVE  /\ Backed(Head(queue)) /\ Head(queue) \in SUBSET (Names \cup {"main"})
           /\ Tail(queue) \in Seq(UNION {CodesOf(m) : m \in Sponsors})
           /\ \A i \in DOMAIN Tail(queue) : Backed(Tail(queue)[i])
<1> DEFINE S == UNION {CodesOf(m) : m \in Sponsors}
<1>1. queue \in Seq(S)
  BY DEF QueueFits
<1> HIDE DEF S
<1>2. /\ Head(queue) = queue[1] /\ 1 \in DOMAIN queue /\ Head(queue) \in S /\ Tail(queue) \in Seq(S)
      /\ \A i \in DOMAIN Tail(queue) : i + 1 \in DOMAIN queue /\ Tail(queue)[i] = queue[i + 1]
  BY <1>1
<1>3. \A m \in Sponsors : CodesOf(m) \subseteq SUBSET (Names \cup {"main"})
  BY DEF Sponsors, CodesOf, Names
<1>4. Head(queue) \in SUBSET (Names \cup {"main"})
  BY <1>2, <1>3 DEF S
<1> QED
  BY <1>2, <1>4 DEF QueueFits, S

LEMMA CallNextKeeps ==
    ASSUME ServerInv, Modules \subseteq Names, CallNext, phase \in {"running", "unloading"},
           UNCHANGED <<moduleVars, threads, mainVars>>
    PROVE  ServerInv'
<1> DEFINE c == Call("function", Head(queue))
<1>1. /\ queue # <<>> /\ queue' = Tail(queue) /\ stack' = Append(stack, c)
      /\ quit' = quit /\ at' = at /\ timers' = timers /\ phase' = phase /\ left' = left /\ done' = done
  BY DEF CallNext, Push, mainVars
<1>2. Backed(Head(queue)) /\ Head(queue) \in SUBSET (Names \cup {"main"})
  BY <1>1, QueueShrinks DEF ServerInv
<1>3. c \in Frame /\ c.does = "function" /\ c.code = Head(queue)
  BY <1>2 DEF Call, Frame
<1>4. Fits(stack)
  BY DEF ServerInv
<1>5. stack # <<>> => Waits(stack[Len(stack)])
  BY TopIs DEF CallNext, Draining, Waits
<1>6. stack = <<>> => phase = "running" /\ at # "returned"
  BY EmptyTop DEF CallNext, Draining, ServerInv, PhaseFits
<1> HIDE DEF c
<1>7. Goes(stack, Append(stack, c))
  BY <1>2, <1>3, <1>4, <1>5, <1>6, PushGoes
<1>8. PICK tt : tt = Append(stack, c)
  OBVIOUS
<1>9. Fits(tt) /\ SamePast(tt, stack) /\ FirstStays(stack, tt) /\ stack' = tt
  BY <1>1, <1>7, <1>8 DEF Goes
<1> HIDE <1>8
<1>10. /\ Fits(stack)' /\ PhaseFits' /\ ModuleInv' /\ TimersFit' /\ ThreadsFit' /\ PersistFits'
       /\ \A d : Backed(d)' <=> Backed(d)
  BY <1>1, <1>9, Settles
<1>11. QueueFits'
  BY <1>1, <1>10, QueueShrinks DEF ServerInv, QueueFits
<1> QED
  BY <1>10, <1>11 DEF ServerInv

LEMMA FunctionReturnsKeeps ==
    ASSUME ServerInv, FunctionReturns, UNCHANGED <<moduleVars, threads, mainVars>>
    PROVE  ServerInv'
<1>1. stack # <<>>
  BY EmptyTop DEF FunctionReturns
<1>2. stack[Len(stack)].does = "function"
  BY <1>1, TopIs DEF FunctionReturns
<1>3. Fits(stack)
  BY DEF ServerInv
<1>4. PICK tt : tt = Front(stack)
  OBVIOUS
<1>5. Fits(tt) /\ SamePast(tt, stack) /\ FirstStays(stack, tt)
  BY <1>1, <1>2, <1>3, <1>4, PopGoes
<1>6. /\ stack' = tt /\ quit' = quit /\ at' = at /\ queue' = queue /\ timers' = timers
      /\ threads' = threads /\ phase' = phase /\ left' = left /\ done' = done
  BY <1>4 DEF FunctionReturns, Pop, mainVars
<1> HIDE <1>4
<1> QED
  BY <1>5, <1>6, Settles DEF ServerInv

----------------------------------------------------------------------------
(* The unloading of a module.                                              *)

\* It goes on with its next step.
LEMMA NextGoes ==
    ASSUME Modules \subseteq Names, NEW st, Fits(st), st # <<>>, NEW p \in Modules, UnloadOf(st[Len(st)], p),
           st[Len(st)].pc \in DOMAIN Steps(p), NEW tt, tt = WithPc(st, st[Len(st)].pc + 1)
    PROVE  /\ Fits(tt) /\ FirstStays(st, tt) /\ Len(tt) = Len(st) /\ DOMAIN tt = DOMAIN st
           /\ \A i \in DOMAIN tt : tt[i].does = st[i].does /\ tt[i].code = st[i].code
           /\ \A m, what : PastIn(tt, m, what) <=> PastIn(st, m, what) \/ (m = p /\ what = Steps(p)[st[Len(st)].pc])
<1>1. Shape(st) /\ st \in Seq(Frame)
  BY DEF Fits, StackFits, Shape
<1>2. DOMAIN Steps(p) = 1 .. Len(Steps(p)) /\ Len(Steps(p)) \in Nat
  BY OrdersFit DEF OrderFits
<1>3. PICK n \in Nat : n = st[Len(st)].pc + 1 /\ n \in 1 .. Len(Steps(p)) + 1
  BY <1>2
<1>4. \A m \in Modules : UnloadOf(st[Len(st)], m) => m = p
  BY DEF UnloadOf
<1>5. /\ tt \in Seq(Frame) /\ Len(tt) = Len(st) /\ DOMAIN tt = DOMAIN st /\ Len(st) \in DOMAIN st /\ tt # <<>>
      /\ (\A i \in DOMAIN st : i # Len(st) => tt[i] = st[i])
      /\ tt[Len(st)].does = st[Len(st)].does /\ tt[Len(st)].code = st[Len(st)].code /\ tt[Len(st)].pc = n
  BY <1>1, <1>3, WithPcIs
<1>6. Shape(tt)
  BY <1>1, <1>3, <1>4, WithPcFits
<1>7. \A m, what : PastIn(tt, m, what) <=> PastIn(st, m, what) \/ (m = p /\ what = Steps(p)[st[Len(st)].pc])
  BY <1>1, <1>3, WithPcPast
<1>8. /\ \A i \in DOMAIN tt : tt[i].does = st[i].does /\ tt[i].code = st[i].code
      /\ DOMAIN st = 1 .. Len(st) /\ Len(st) \in Nat /\ 1 \in DOMAIN st
  BY <1>1, <1>5
<1>9. StackFits(tt)
  BY <1>5, <1>6, <1>8 DEF Fits, StackFits
<1>10. InPhase(tt)
  <2>1. \A m : UnloadOf(tt[1], m) <=> UnloadOf(st[1], m)
    BY <1>5, <1>8 DEF UnloadOf
  <2> QED
    BY <1>5, <1>8, <2>1 DEF Fits, InPhase
<1>11. FirstStays(st, tt)
  BY <1>5, <1>8 DEF FirstStays
<1> QED
  BY <1>5, <1>7, <1>8, <1>9, <1>10, <1>11 DEF Fits

LEMMA SettlesNext ==
    ASSUME ServerInv, mods' = mods, phase' = phase, left' = left, at' = at, quit' = quit,
           NEW tt, stack' = tt, Fits(tt), NEW p, NEW w,
           \A m, what : PastIn(tt, m, what) <=> PastIn(stack, m, what) \/ (m = p /\ what = w),
           w = "drain" => \A i \in DOMAIN tt : tt[i].does = "function" => tt[i].code \notin CodesOf(p)
    PROVE  /\ Fits(stack)' /\ PhaseFits' /\ Loaded' = Loaded
           /\ \A m, what : Past(m, what)' <=> Past(m, what) \/ (m = p /\ what = w)
           /\ \A c : Backed(c) /\ (w = "drain" => c \notin CodesOf(p)) => Backed(c)'
           /\ w \notin {"unreg", "release"} /\ moduleVars' = moduleVars => ModuleInv'
           /\ w # "clear" /\ timers' = timers /\ FirstStays(stack, tt) => TimersFit'
           /\ w # "drain" /\ queue' = queue => QueueFits'
           /\ threads' = threads => /\ w \notin {"cancel", "join", "drain"} => ThreadsFit'
                                    /\ done' = done => PersistFits'
<1>1. Loaded' = Loaded
  BY DEF Loaded
<1>2. \A m, what : Past(m, what)' <=> Past(m, what) \/ (m = p /\ what = w)
  BY DEF Past
<1>3. \A m, what : Alive(m, what) /\ ~(m = p /\ what = w) => Alive(m, what)'
  BY <1>1, <1>2 DEF Alive
<1>4. ASSUME NEW c, Backed(c), w = "drain" => c \notin CodesOf(p) PROVE Backed(c)'
  BY <1>1, <1>3, <1>4 DEF Backed
<1>5. StackFits(stack)'
  BY <1>1, <1>4 DEF Fits, StackFits
<1>6. InPhase(stack)'
  BY DEF Fits, InPhase
<1>7. PhaseFits'
  BY DEF ServerInv, PhaseFits
<1>8. ASSUME w \notin {"unreg", "release"}, moduleVars' = moduleVars PROVE ModuleInv'
  BY <1>2, <1>8, ModulesKeep DEF ServerInv
<1>9. ASSUME w # "clear", timers' = timers, FirstStays(stack, tt) PROVE TimersFit'
  <2>1. TimersFit
    BY DEF ServerInv
  <2>2. ASSUME NEW t \in timers, t.running PROVE stack' # <<>> /\ stack'[1].does = "timer" /\ stack'[1].code = {t.mod}
    BY <1>9, <2>1, <2>2 DEF TimersFit, FirstStays
  <2> QED
    BY <1>3, <1>9, <2>1, <2>2 DEF TimersFit
<1>10. ASSUME w # "drain", queue' = queue PROVE QueueFits'
  BY <1>4, <1>10 DEF ServerInv, QueueFits
<1>11. ASSUME threads' = threads, w \notin {"cancel", "join", "drain"} PROVE ThreadsFit'
  BY <1>3, <1>4, <1>11 DEF ServerInv, ThreadsFit, Waiting
<1>12. ASSUME threads' = threads, done' = done PROVE PersistFits'
  BY <1>1, <1>12 DEF ServerInv, PersistFits, Quiet
<1> QED
  BY <1>1, <1>2, <1>4, <1>5, <1>6, <1>7, <1>8, <1>9, <1>10, <1>11, <1>12 DEF Fits

\* Of the module that is being unloaded.
LEMMA LeavingIs ==
    ASSUME ServerInv, Unloading, Modules \subseteq Names
    PROVE  /\ stack # <<>> /\ Leaving \in Modules /\ Leaving \in Loaded /\ UnloadOf(stack[Len(stack)], Leaving)
           /\ stack[Len(stack)].pc \in 1 .. Len(Steps(Leaving)) + 1
           /\ Len(Steps(Leaving)) \in Nat /\ DOMAIN Steps(Leaving) = 1 .. Len(Steps(Leaving))
           /\ \/ phase = "running" /\ Leaving \in Removable
              \/ phase = "unloading" /\ Len(stack) = 1 /\ mods = Append(left, Leaving)
           /\ Step # "end" => /\ stack[Len(stack)].pc \in DOMAIN Steps(Leaving)
                              /\ Step = Steps(Leaving)[stack[Len(stack)].pc]
           /\ \A k \in DOMAIN Steps(Leaving) : k < stack[Len(stack)].pc => Past(Leaving, Steps(Leaving)[k])
           /\ \A what : Past(Leaving, what) =>
                 \E k \in DOMAIN Steps(Leaving) : k < stack[Len(stack)].pc /\ Steps(Leaving)[k] = what
<1>1. stack # <<>> /\ Top = stack[Len(stack)] /\ Len(stack) \in DOMAIN stack /\ phase \in {"running", "unloading"}
  BY EmptyTop, TopIs DEF Unloading
<1>2. PICK p \in Modules : stack[Len(stack)].code = {p} /\ stack[Len(stack)].pc \in 1 .. Len(Steps(p)) + 1
  BY <1>1 DEF Unloading, ServerInv, Fits, StackFits, Shape
<1>3. Leaving = p
  BY <1>1, <1>2 DEF Leaving
<1>4. UnloadOf(stack[Len(stack)], p) /\ p \in Loaded
  BY <1>1, <1>2 DEF Unloading, UnloadOf, ServerInv, Fits, StackFits
<1>5. Len(Steps(p)) \in Nat /\ DOMAIN Steps(p) = 1 .. Len(Steps(p))
  BY OrdersFit DEF OrderFits
<1>6. DOMAIN stack = 1 .. Len(stack) /\ Len(stack) \in Nat
  BY <1>1, TopIs
<1>7. phase = "running" => p \in Removable
  BY <1>1, <1>2, <1>4 DEF ServerInv, Fits, InPhase, UnloadOf
<1>8. phase = "unloading" => Len(stack) = 1 /\ mods = Append(left, p)
  <2>1. ASSUME phase = "unloading" PROVE Len(stack) = 1 /\ mods = Append(left, p)
    <3>1. \A i \in DOMAIN stack : i > 1 => stack[i].does # "unload"
      BY <1>1, <2>1 DEF ServerInv, Fits, InPhase
    <3>2. Len(stack) = 1
      BY <1>1, <1>4, <1>6, <3>1 DEF UnloadOf
    <3> QED
      BY <1>1, <1>4, <2>1, <3>2 DEF ServerInv, Fits, InPhase, UnloadOf
  <2> QED
    BY <2>1
<1>9. Step # "end" => stack[Len(stack)].pc \in DOMAIN Steps(p) /\ Step = Steps(p)[stack[Len(stack)].pc]
  BY <1>1, <1>2, <1>3, <1>5 DEF Step, Steps
<1>10. \A i \in DOMAIN stack : UnloadOf(stack[i], p) => i = Len(stack)
  BY <1>1, <1>4 DEF ServerInv, Fits, StackFits, Shape, UnloadOf
<1>11. \A k \in DOMAIN Steps(p) : k < stack[Len(stack)].pc => Past(p, Steps(p)[k])
  BY <1>1, <1>4 DEF Past, PastIn
<1>12. \A what : Past(p, what) => \E k \in DOMAIN Steps(p) : k < stack[Len(stack)].pc /\ Steps(p)[k] = what
  BY <1>10 DEF Past, PastIn
<1> HIDE DEF Leaving, Step
<1>13. \/ phase = "running" /\ Leaving \in Removable
       \/ phase = "unloading" /\ Len(stack) = 1 /\ mods = Append(left, Leaving)
  BY <1>1, <1>3, <1>7, <1>8
<1> QED
  BY <1>1, <1>2, <1>3, <1>4, <1>5, <1>9, <1>11, <1>12, <1>13

LEMMA NextIs ==
    ASSUME ServerInv, Modules \subseteq Names, Unloading, Step # "end", NextStep
    PROVE  \E tt, p, w :
              /\ stack' = tt /\ p = Leaving /\ w = Step /\ Fits(tt) /\ FirstStays(stack, tt)
              /\ DOMAIN tt = DOMAIN stack /\ \A i \in DOMAIN tt : tt[i].does = stack[i].does
              /\ \A m, what : PastIn(tt, m, what) <=> PastIn(stack, m, what) \/ (m = p /\ what = w)
<1>1. /\ stack # <<>> /\ Leaving \in Modules /\ UnloadOf(stack[Len(stack)], Leaving)
      /\ stack[Len(stack)].pc \in DOMAIN Steps(Leaving) /\ Step = Steps(Leaving)[stack[Len(stack)].pc]
  BY LeavingIs
<1>2. Fits(stack)
  BY DEF ServerInv
<1>3. PICK tt : tt = WithPc(stack, stack[Len(stack)].pc + 1)
  OBVIOUS
<1>4. stack' = tt
  BY <1>3 DEF NextStep, WithPc
<1> HIDE DEF Leaving, Step
<1>5. /\ Fits(tt) /\ FirstStays(stack, tt) /\ Len(tt) = Len(stack) /\ DOMAIN tt = DOMAIN stack
      /\ \A i \in DOMAIN tt : tt[i].does = stack[i].does /\ tt[i].code = stack[i].code
      /\ \A m, what : PastIn(tt, m, what) <=>
                         PastIn(stack, m, what) \/ (m = Leaving /\ what = Steps(Leaving)[stack[Len(stack)].pc])
  BY <1>1, <1>2, <1>3, NextGoes
<1> QED
  BY <1>1, <1>4, <1>5

LEMMA NextSettles ==
    ASSUME ServerInv, Modules \subseteq Names, Unloading, Step \notin {"end", "drain"}, NextStep,
           mods' = mods, phase' = phase, left' = left, at' = at, quit' = quit
    PROVE  \E p, w :
              /\ p = Leaving /\ w = Step
              /\ Fits(stack)' /\ PhaseFits' /\ Loaded' = Loaded /\ FirstStays(stack, stack')
              /\ \A m, what : Past(m, what)' <=> Past(m, what) \/ (m = p /\ what = w)
              /\ \A c : Backed(c) => Backed(c)'
              /\ Step \notin {"unreg", "release"} /\ moduleVars' = moduleVars => ModuleInv'
              /\ Step # "clear" /\ timers' = timers => TimersFit'
              /\ queue' = queue => QueueFits'
              /\ threads' = threads => /\ Step \notin {"cancel", "join"} => ThreadsFit'
                                       /\ done' = done => PersistFits'
<1>1. PICK tt, p, w :
         /\ stack' = tt /\ p = Leaving /\ w = Step /\ Fits(tt) /\ FirstStays(stack, tt)
         /\ DOMAIN tt = DOMAIN stack /\ \A i \in DOMAIN tt : tt[i].does = stack[i].does
         /\ \A m, what : PastIn(tt, m, what) <=> PastIn(stack, m, what) \/ (m = p /\ what = w)
  BY NextIs
<1> HIDE DEF Leaving, Step
<1>2. w # "drain" /\ (w = "drain" => \A i \in DOMAIN tt : tt[i].does = "function" => tt[i].code \notin CodesOf(p))
  BY <1>1
<1>3. stack' = tt /\ Fits(tt)
  BY <1>1
<1>4. \A m, what : PastIn(tt, m, what) <=> PastIn(stack, m, what) \/ (m = p /\ what = w)
  BY <1>1
<1>5. /\ Fits(stack)' /\ PhaseFits' /\ Loaded' = Loaded
      /\ \A m, what : Past(m, what)' <=> Past(m, what) \/ (m = p /\ what = w)
      /\ \A c : Backed(c) /\ (w = "drain" => c \notin CodesOf(p)) => Backed(c)'
      /\ w \notin {"unreg", "release"} /\ moduleVars' = moduleVars => ModuleInv'
      /\ w # "clear" /\ timers' = timers /\ FirstStays(stack, tt) => TimersFit'
      /\ w # "drain" /\ queue' = queue => QueueFits'
      /\ threads' = threads => /\ w \notin {"cancel", "join", "drain"} => ThreadsFit'
                               /\ done' = done => PersistFits'
  BY <1>2, <1>3, <1>4, SettlesNext
<1>6. p = Leaving /\ w = Step /\ FirstStays(stack, tt)
  BY <1>1
<1> QED
  BY <1>2, <1>3, <1>5, <1>6

LEMMA ShutDownKeeps ==
    ASSUME ServerInv, Modules \subseteq Names, ShutDown
    PROVE  ServerInv'
<1>1. /\ Unloading /\ Step = "shutdown" /\ NextStep /\ timers' = {} /\ queue' = <<>>
      /\ UNCHANGED <<quit, at, moduleVars, threads, mainVars>>
  BY DEF ShutDown
<1>2. mods' = mods /\ phase' = phase /\ left' = left /\ done' = done
  BY <1>1 DEF moduleVars, mainVars
<1>3. Fits(stack)' /\ PhaseFits' /\ ModuleInv' /\ ThreadsFit' /\ PersistFits'
  BY <1>1, <1>2, NextSettles
<1>4. TimersFit' /\ QueueFits'
  BY <1>1 DEF TimersFit, QueueFits
<1> QED
  BY <1>3, <1>4 DEF ServerInv

LEMMA ClearTimerKeeps ==
    ASSUME ServerInv, Modules \subseteq Names, RemovalsFit, ClearTimer
    PROVE  ServerInv'
<1>1. /\ Unloading /\ Step = "clear" /\ NextStep /\ CleanupTimer(Leaving)
      /\ UNCHANGED <<quit, at, queue, moduleVars, threads, mainVars>>
  BY DEF ClearTimer
<1>3. mods' = mods /\ phase' = phase /\ left' = left /\ done' = done
  BY <1>1 DEF moduleVars, mainVars
<1>4. PICK p, w :
         /\ p = Leaving /\ w = Step /\ FirstStays(stack, stack')
         /\ Fits(stack)' /\ PhaseFits' /\ ModuleInv' /\ ThreadsFit' /\ PersistFits' /\ QueueFits' /\ Loaded' = Loaded
         /\ \A m, what : Past(m, what)' <=> Past(m, what) \/ (m = p /\ what = w)
  BY <1>1, <1>3, NextSettles
<1>6. TimersFit /\ Fits(stack)
  BY DEF ServerInv
<1>7. /\ stack # <<>> /\ UnloadOf(stack[Len(stack)], p)
      /\ \/ phase = "running" /\ p \in Removable
         \/ phase = "unloading" /\ Len(stack) = 1
  BY <1>1, <1>4, LeavingIs
<1> HIDE DEF Leaving, Step
<1>8. ASSUME NEW t \in timers, t.mod = p, t.running PROVE FALSE
  <2>1. stack[1].does = "timer" /\ stack[1].code = {p}
    BY <1>6, <1>8 DEF TimersFit
  <2>2. stack[Len(stack)].does = "unload" /\ stack \in Seq(Frame)
    BY <1>6, <1>7 DEF UnloadOf, Fits, StackFits, Shape
  <2>3. Len(stack) # 1 /\ 1 \in DOMAIN stack /\ 1 < Len(stack)
    BY <2>1, <2>2, <1>7
  <2>4. p = "arenaman"
    <3>1. Waits(stack[1])
      BY <1>6, <2>3 DEF Fits, StackFits, Shape
    <3>2. stack[1].code = {"arenaman"}
      BY <2>1, <3>1 DEF Waits, AtDrain, UnloadOf
    <3> QED
      BY <2>1, <3>2
  <2> QED
    BY <1>7, <2>3, <2>4 DEF RemovalsFit
<1>9. timers' = {t \in timers : t.mod # p}
  BY <1>1, <1>4, <1>8 DEF CleanupTimer
<1>10. TimersFit'
  <2>1. ASSUME NEW t \in timers, t.mod # p
        PROVE  /\ t \in [mod : Modules, running : BOOLEAN, killme : BOOLEAN]
               /\ t.mod = "directory" \/ ("timer" \in Programs[t.mod].starts /\ Alive(t.mod, "clear"))'
               /\ t.running => stack' # <<>> /\ stack'[1].does = "timer" /\ stack'[1].code = {t.mod}
    <3>1. /\ t \in [mod : Modules, running : BOOLEAN, killme : BOOLEAN]
          /\ t.mod = "directory" \/ ("timer" \in Programs[t.mod].starts /\ Alive(t.mod, "clear"))
          /\ t.running => stack # <<>> /\ stack[1].does = "timer" /\ stack[1].code = {t.mod}
      BY <1>6 DEF TimersFit
    <3>2. Alive(t.mod, "clear") => Alive(t.mod, "clear")'
      BY <1>4, <2>1 DEF Alive
    <3> QED
      BY <1>4, <3>1, <3>2 DEF FirstStays
  <2> QED
    BY <1>9, <2>1 DEF TimersFit
<1> QED
  BY <1>4, <1>10 DEF ServerInv

\* One thread does something.
LEMMA ThreadSettles ==
    ASSUME ThreadsFit, NEW m \in Threaded, NEW r \in ThreadRecord, threads' = [threads EXCEPT ![m] = r],
           \A t \in Threaded \ {m} : \A what : Alive(t, what) => Alive(t, what)',
           \A c : Backed(c) => Backed(c)',
           r.at # "none" => Alive(m, "cancel")' /\ Alive(m, "join")',
           r.at \in {"adding", "calling"} => r.code \in CodesOf(m) /\ Backed(r.code)',
           r.at \notin {"adding", "calling"} => r.code = {},
           m = "mysql" => \A k \in DOMAIN r.asked : r.asked[k] = "mysql"
    PROVE  ThreadsFit' /\ threads'[m] = r /\ \A t \in Threaded \ {m} : threads'[t] = threads[t]
<1>1. DOMAIN threads = Threaded
  BY DEF ThreadsFit
<1>2. DOMAIN threads' = Threaded /\ \A t \in Threaded : threads'[t] = IF t = m THEN r ELSE threads[t]
  BY <1>1
<1>3. threads' \in [Threaded -> ThreadRecord]
  BY <1>2 DEF ThreadsFit, ThreadRecord
<1>4. ASSUME NEW t \in Threaded
      PROVE  /\ threads'[t].at # "none" => Alive(t, "cancel")' /\ Alive(t, "join")'
             /\ threads'[t].at \in {"adding", "calling"} => threads'[t].code \in CodesOf(t) /\ Backed(threads[t].code)'
             /\ threads'[t].at \notin {"adding", "calling"} => threads'[t].code = {}
  <2>1. CASE t = m
    <3>1. threads'[t] = r
      BY <1>2, <2>1
    <3>2. r.at \in {"adding", "calling"} => Backed(threads[t].code)'
      BY <3>1
    <3> QED
      BY <2>1, <3>1, <3>2
  <2>2. CASE t # m
    <3>1. threads'[t] = threads[t]
      BY <1>2, <2>2
    <3>2. /\ threads[t].at # "none" => Alive(t, "cancel") /\ Alive(t, "join")
          /\ IF Waiting(t) THEN threads[t].code \in CodesOf(t) /\ Backed(threads[t].code) ELSE threads[t].code = {}
      BY DEF ThreadsFit
    <3>3. \A what : Alive(t, what) => Alive(t, what)'
      BY <2>2
    <3>4. PICK c : c = threads[t].code
      OBVIOUS
    <3>5. Backed(c) => Backed(c)'
      OBVIOUS
    <3>6. threads[t].at \in {"adding", "calling"} => Backed(threads[t].code)'
      BY <3>1, <3>2, <3>4, <3>5 DEF Waiting
    <3> QED
      BY <3>1, <3>2, <3>3, <3>6 DEF Waiting
  <2> QED
    BY <2>1, <2>2
<1>5. \A k \in DOMAIN threads'["mysql"].asked : threads'["mysql"].asked[k] = "mysql"
  BY <1>2 DEF ThreadsFit, Threaded
<1>6. ThreadsFit'
  BY <1>3, <1>4, <1>5 DEF ThreadsFit, Waiting, ThreadRecord
<1> QED
  BY <1>2, <1>6

\* Only net and mysql have their threads cancelled, only persist has its thread joined.
LEMMA CancelSteps ==
    ASSUME NEW m \in Names, NEW k \in DOMAIN Steps(m)
    PROVE  (Steps(m)[k] = "cancel" => m \in {"net", "mysql"}) /\ (Steps(m)[k] = "join" => m = "persist")
           /\ (Steps(m)[k] = "shutdown" => m = "mainloop")
BY OrdersFit DEF OrderFits

LEMMA CancelKeeps ==
    ASSUME ServerInv, Modules \subseteq Names, Cancel
    PROVE  ServerInv'
<1>1. /\ Unloading /\ Step = "cancel" /\ NextStep
      /\ threads' = [threads EXCEPT ![Leaving] = [at |-> "none", asked |-> <<>>, code |-> {}]]
      /\ UNCHANGED <<quit, at, queue, timers, moduleVars, mainVars>>
  BY DEF Cancel, Cancelled
<1>2. mods' = mods /\ phase' = phase /\ left' = left /\ done' = done
  BY <1>1 DEF moduleVars, mainVars
<1>3. PICK p, w :
         /\ p = Leaving /\ w = Step
         /\ Fits(stack)' /\ PhaseFits' /\ ModuleInv' /\ TimersFit' /\ QueueFits' /\ Loaded' = Loaded
         /\ \A m, what : Past(m, what)' <=> Past(m, what) \/ (m = p /\ what = w)
         /\ \A c : Backed(c) => Backed(c)'
  BY <1>1, <1>2, NextSettles
<1>4. /\ p \in Modules /\ stack[Len(stack)].pc \in DOMAIN Steps(p) /\ Steps(p)[stack[Len(stack)].pc] = "cancel"
  BY <1>1, <1>3, LeavingIs
<1>5. p \in {"net", "mysql"}
  BY <1>4, CancelSteps
<1> HIDE DEF Leaving, Step
<1>6. PICK r : r = [at |-> "none", asked |-> <<>>, code |-> {}]
  OBVIOUS
<1>7. r.at = "none" /\ r.asked = <<>> /\ r.code = {} /\ r \in ThreadRecord
  BY <1>6 DEF ThreadRecord
<1>8. threads' = [threads EXCEPT ![p] = r]
  BY <1>1, <1>3, <1>6
<1> HIDE <1>6
<1>9. ThreadsFit /\ PersistFits
  BY DEF ServerInv
<1>10. \A t \in Threaded \ {p} : \A what : Alive(t, what) => Alive(t, what)'
  BY <1>3 DEF Alive
<1>11. \A c : Backed(c) => Backed(c)'
  BY <1>3
<1>12. /\ r.at # "none" => Alive(p, "cancel")' /\ Alive(p, "join")'
       /\ r.at \in {"adding", "calling"} => r.code \in CodesOf(p) /\ Backed(r.code)'
       /\ r.at \notin {"adding", "calling"} => r.code = {}
  BY <1>7
<1>16. p = "mysql" => \A k \in DOMAIN r.asked : r.asked[k] = "mysql"
  BY <1>7
<1>17. p \in Threaded
  BY <1>5 DEF Threaded
<1>18. ThreadsFit
  BY <1>9
<1>13. ThreadsFit' /\ \A t \in Threaded \ {p} : threads'[t] = threads[t]
  BY <1>7, <1>8, <1>10, <1>11, <1>12, <1>16, <1>17, <1>18, ThreadSettles
<1>14. threads'["persist"] = threads["persist"]
  BY <1>5, <1>13 DEF Threaded
<1>15. PersistFits'
  BY <1>2, <1>3, <1>9, <1>14 DEF PersistFits, Quiet
<1> QED
  BY <1>3, <1>13, <1>15 DEF ServerInv

LEMMA JoinKeeps ==
    ASSUME ServerInv, Modules \subseteq Names, Join
    PROVE  ServerInv'
<1>1. /\ Unloading /\ Step = "join" /\ NextStep
      /\ threads[Leaving].at \in {"idle", "none"} /\ threads[Leaving].asked = <<>>
      /\ threads' = [threads EXCEPT ![Leaving].at = "none"]
      /\ UNCHANGED <<quit, at, queue, timers, moduleVars, mainVars>>
  BY DEF Join
<1>2. mods' = mods /\ phase' = phase /\ left' = left /\ done' = done
  BY <1>1 DEF moduleVars, mainVars
<1>3. PICK p, w :
         /\ p = Leaving /\ w = Step
         /\ Fits(stack)' /\ PhaseFits' /\ ModuleInv' /\ TimersFit' /\ QueueFits' /\ Loaded' = Loaded
         /\ \A m, what : Past(m, what)' <=> Past(m, what) \/ (m = p /\ what = w)
         /\ \A c : Backed(c) => Backed(c)'
  BY <1>1, <1>2, NextSettles
<1>4. /\ p \in Modules /\ stack # <<>>
      /\ stack[Len(stack)].pc \in DOMAIN Steps(p) /\ Steps(p)[stack[Len(stack)].pc] = "join"
  BY <1>1, <1>3, LeavingIs
<1>5. p = "persist" /\ phase \in {"running", "unloading"}
  BY <1>4, CancelSteps, TopIs
<1> HIDE DEF Leaving, Step
<1>6. ThreadsFit /\ PersistFits
  BY DEF ServerInv
<1>7. threads[p] \in ThreadRecord /\ threads[p].asked = <<>> /\ threads[p].code = {}
  BY <1>1, <1>3, <1>5, <1>6 DEF ThreadsFit, Threaded, Waiting
<1>8. PICK r : r = [threads[p] EXCEPT !.at = "none"]
  OBVIOUS
<1>9. r.at = "none" /\ r.asked = <<>> /\ r.code = {} /\ r \in ThreadRecord
  BY <1>7, <1>8 DEF ThreadRecord
<1>10. threads' = [threads EXCEPT ![p] = r]
  BY <1>1, <1>3, <1>8
<1> HIDE <1>8
<1>11. \A t \in Threaded \ {p} : \A what : Alive(t, what) => Alive(t, what)'
  BY <1>3 DEF Alive
<1>12. \A c : Backed(c) => Backed(c)'
  BY <1>3
<1>13. /\ r.at # "none" => Alive(p, "cancel")' /\ Alive(p, "join")'
       /\ r.at \in {"adding", "calling"} => r.code \in CodesOf(p) /\ Backed(r.code)'
       /\ r.at \notin {"adding", "calling"} => r.code = {}
       /\ p = "mysql" => \A k \in DOMAIN r.asked : r.asked[k] = "mysql"
  BY <1>9
<1>14. p \in Threaded
  BY <1>5 DEF Threaded
<1>15. ThreadsFit
  BY <1>6
<1>16. ThreadsFit' /\ threads'[p] = r
  BY <1>9, <1>10, <1>11, <1>12, <1>13, <1>14, <1>15, ThreadSettles
<1>17. threads'["persist"].at = "none" /\ threads'["persist"].asked = <<>> /\ threads'["persist"].code = {}
  BY <1>5, <1>9, <1>16
<1>18. PersistFits'
  BY <1>2, <1>5, <1>6, <1>17 DEF PersistFits, Quiet, Middle
<1> QED
  BY <1>3, <1>16, <1>18 DEF ServerInv

LEMMA WaitRunInMainDrainKeeps ==
    ASSUME ServerInv, Modules \subseteq Names, WaitRunInMainDrain
    PROVE  ServerInv'
<1>1. /\ Unloading /\ Step = "drain" /\ stack' = Append(stack, Call("drain", {Leaving}))
      /\ UNCHANGED <<quit, at, queue, timers, moduleVars, threads, mainVars>>
  BY DEF WaitRunInMainDrain, Push
<1>2. phase' = phase /\ left' = left /\ done' = done
  BY <1>1 DEF mainVars
<1>3. PICK p : p = Leaving
  OBVIOUS
<1>4. /\ p \in Modules /\ stack # <<>> /\ UnloadOf(stack[Len(stack)], p)
      /\ stack[Len(stack)].pc \in DOMAIN Steps(p) /\ Steps(p)[stack[Len(stack)].pc] = "drain"
  BY <1>1, <1>3, LeavingIs
<1>5. PICK c : c = Call("drain", {p})
  OBVIOUS
<1>6. c \in Frame /\ c.does = "drain" /\ c.code = {p}
  BY <1>4, <1>5 DEF Call, Frame
<1>7. stack' = Append(stack, c)
  BY <1>1, <1>3, <1>5
<1> HIDE <1>3
<1> HIDE <1>5
<1>8. Waits(stack[Len(stack)]) /\ AtDrain(stack[Len(stack)]) /\ c.code = stack[Len(stack)].code
  BY <1>4, <1>6 DEF Waits, AtDrain, UnloadOf
<1>9. Fits(stack)
  BY DEF ServerInv
<1>10. Goes(stack, Append(stack, c))
  BY <1>4, <1>6, <1>8, <1>9, PushGoes
<1>11. PICK tt : tt = Append(stack, c)
  OBVIOUS
<1>12. Fits(tt) /\ SamePast(tt, stack) /\ FirstStays(stack, tt) /\ stack' = tt
  BY <1>7, <1>10, <1>11 DEF Goes
<1> HIDE <1>11
<1> QED
  BY <1>1, <1>2, <1>12, Settles DEF ServerInv

\* There are finitely many modules.
LEMMA ThreeAreFinite == ASSUME NEW a, NEW b, NEW c PROVE IsFiniteSet({a, b, c})
<1>1. IsFiniteSet({a})
  BY FS_Singleton
<1>2. IsFiniteSet({a} \cup {b})
  BY <1>1, FS_AddElement
<1>3. IsFiniteSet(({a} \cup {b}) \cup {c})
  BY <1>2, FS_AddElement
<1>4. {a, b, c} = ({a} \cup {b}) \cup {c}
  OBVIOUS
<1> QED
  BY <1>3, <1>4

LEMMA NamesFinite == IsFiniteSet(Names)
<1> DEFINE A == {"mainloop", "config", "playerdata"}
           B == {"net", "chatnet", "arenaman"}
           C == {"mapdata", "mapnewsdl", "core"}
           D == {"persist", "game", "chat"}
           E == {"security", "objects", "fake"}
           F == {"mysql", "directory", "directory"}
<1>1. IsFiniteSet(A) /\ IsFiniteSet(B) /\ IsFiniteSet(C) /\ IsFiniteSet(D) /\ IsFiniteSet(E) /\ IsFiniteSet(F)
  BY ThreeAreFinite
<1>2. Names = A \cup (B \cup (C \cup (D \cup (E \cup F))))
  BY DEF Names
<1> HIDE DEF A, B, C, D, E, F
<1>3. IsFiniteSet(E \cup F)
  BY <1>1, FS_Union
<1>4. IsFiniteSet(D \cup (E \cup F))
  BY <1>1, <1>3, FS_Union
<1>5. IsFiniteSet(C \cup (D \cup (E \cup F)))
  BY <1>1, <1>4, FS_Union
<1>6. IsFiniteSet(B \cup (C \cup (D \cup (E \cup F))))
  BY <1>1, <1>5, FS_Union
<1> QED
  BY <1>1, <1>2, <1>6, FS_Union

LEMMA ModulesFinite ==
    ASSUME Modules \subseteq Names, NEW S, S \subseteq Modules
    PROVE  IsFiniteSet(S) /\ Cardinality(S) \in Nat
<1>1. S \in SUBSET Names
  OBVIOUS
<1>2. IsFiniteSet(S)
  BY <1>1, NamesFinite, FS_Subset
<1> QED
  BY <1>2, FS_CardinalityType

\* The step that a module is at it has not got past.
LEMMA NotPastYet ==
    ASSUME ServerInv, Modules \subseteq Names, Unloading, Step # "end"
    PROVE  ~Past(Leaving, Step)
<1>1. PICK p : p = Leaving
  OBVIOUS
<1>2. /\ p \in Modules /\ stack[Len(stack)].pc \in DOMAIN Steps(p) /\ Step = Steps(p)[stack[Len(stack)].pc]
      /\ DOMAIN Steps(p) = 1 .. Len(Steps(p)) /\ Len(Steps(p)) \in Nat
      /\ \A what : Past(p, what) => \E k \in DOMAIN Steps(p) : k < stack[Len(stack)].pc /\ Steps(p)[k] = what
  BY <1>1, LeavingIs
<1>3. \A j, k \in DOMAIN Steps(p) : Steps(p)[j] = Steps(p)[k] => j = k
  BY <1>2, OrdersFit DEF OrderFits
<1> HIDE DEF Step, Leaving
<1>4. ~Past(p, Step)
  BY <1>2, <1>3
<1> QED
  BY <1>1, <1>4

LEMMA ReleaseInterfacesKeeps ==
    ASSUME ServerInv, Modules \subseteq Names, RemovalsFit, ReleaseInterfaces
    PROVE  ServerInv'
<1>1. /\ Unloading /\ Step = "release" /\ NextStep
      /\ refs' = Counted(Programs[Leaving].gets \cap held[Leaving], -1)
      /\ mods' = mods /\ registered' = registered /\ held' = held
      /\ UNCHANGED <<quit, at, queue, timers, threads, mainVars>>
  BY DEF ReleaseInterfaces
<1>2. phase' = phase /\ left' = left /\ done' = done
  BY <1>1 DEF mainVars
<1>3. PICK p, w :
         /\ p = Leaving /\ w = Step
         /\ Fits(stack)' /\ PhaseFits' /\ TimersFit' /\ QueueFits' /\ ThreadsFit' /\ PersistFits' /\ Loaded' = Loaded
         /\ \A m, what : Past(m, what)' <=> Past(m, what) \/ (m = p /\ what = w)
  BY <1>1, <1>2, NextSettles
<1>4. /\ p \in Modules /\ p \in Loaded
      /\ \/ phase = "running" /\ p \in Removable
         \/ phase = "unloading"
  BY <1>1, <1>3, LeavingIs
<1>5. ~Past(p, "release")
  BY <1>1, <1>3, NotPastYet
<1>6. refs' = Counted(Programs[p].gets \cap held[p], -1) /\ w = "release"
  BY <1>1, <1>3
<1> HIDE DEF Leaving, Step
<1>7. ModsFit /\ RegisteredFits /\ HeldFits /\ RefsFit
  BY DEF ServerInv, ModuleInv
<1>8. GotLate(p) = {}
  BY <1>4 DEF RemovalsFit, GotLate, LateOf, Holding, Middle
<1>9. Programs[p].gets \cap held[p] = held[p]
  BY <1>4, <1>7, <1>8 DEF HeldFits
<1>10. /\ refs' \in [Modules -> Int]
       /\ \A i \in Modules : refs'[i] = IF i \in held[p] THEN refs[i] - 1 ELSE refs[i]
  BY <1>6, <1>7, <1>9 DEF Counted, RefsFit
<1>11. \A m : GotLate(m)' = GotLate(m)
  BY <1>2 DEF GotLate
<1>12. \A m, what : Past(m, what)' <=> Past(m, what) \/ (m = p /\ what = "release")
  BY <1>3, <1>6
<1>13. ASSUME NEW i \in Modules
       PROVE  /\ Holders(i)' = Holders(i) \ {p} /\ (p \in Holders(i) <=> i \in held[p])
              /\ Cardinality(Holders(i)) \in Nat /\ IsFiniteSet(Holders(i)) /\ Own(i)' = Own(i) /\ Own(i) \in {0, 1}
  <2>1. Loaded \subseteq Modules
    BY <1>7 DEF ModsFit, Loaded, ToSet
  <2>2. Holders(i) \subseteq Modules
    BY <2>1 DEF Holders
  <2>3. Holders(i)' = Holders(i) \ {p}
    BY <1>1, <1>3, <1>12 DEF Holders
  <2>4. p \in Holders(i) <=> i \in held[p]
    BY <1>4, <1>5 DEF Holders
  <2>5. Own(i)' = Own(i) /\ Own(i) \in {0, 1}
    BY <1>2 DEF Own
  <2> QED
    BY <2>2, <2>3, <2>4, <2>5, ModulesFinite
<1>14. ~Refused /\ ~Refused'
  BY <1>2, <1>4 DEF Refused
<1>15. RefsFit'
  <2>1. ASSUME NEW i \in Modules PROVE refs'[i] = Cardinality(Holders(i)') + Own(i)'
    <3>1. refs[i] = Cardinality(Holders(i)) + Own(i)
      BY <1>7, <1>14 DEF RefsFit
    <3>2. Cardinality(Holders(i) \ {p}) = IF p \in Holders(i) THEN Cardinality(Holders(i)) - 1 ELSE Cardinality(Holders(i))
      BY <1>13, FS_RemoveElement
    <3>3. refs'[i] = IF i \in held[p] THEN refs[i] - 1 ELSE refs[i]
      BY <1>10
    <3>4. Cardinality(Holders(i)) \in Nat /\ Own(i)' = Own(i) /\ Own(i) \in {0, 1} /\ (p \in Holders(i) <=> i \in held[p])
      BY <1>13
    <3>5. Cardinality(Holders(i)') = Cardinality(Holders(i) \ {p})
      BY <1>13
    <3> QED
      BY <3>1, <3>2, <3>3, <3>4, <3>5
  <2>2. \A i \in Modules : refs'[i] \in Int
    BY <1>10
  <2> QED
    BY <1>10, <2>1, <2>2 DEF RefsFit
<1>16. ModsFit'
  BY <1>1, <1>2, <1>3, <1>7 DEF ModsFit
<1>17. RegisteredFits'
  BY <1>1, <1>3, <1>7, <1>12 DEF RegisteredFits, Alive
<1>18. HeldFits'
  BY <1>1, <1>3, <1>7, <1>11, <1>12 DEF HeldFits
<1> QED
  BY <1>3, <1>15, <1>16, <1>17, <1>18 DEF ServerInv, ModuleInv

\* When all modules are unloaded, nobody has what the last one offers.
LEMMA LastUnheld ==
    ASSUME ServerInv, Modules \subseteq Names, Unloading, phase = "unloading"
    PROVE  Holders(Leaving) = {} /\ refs[Leaving] = 0
<1>1. PICK p \in Modules : p = Leaving /\ mods = Append(left, p) /\ p \in Loaded
  BY LeavingIs
<1> HIDE DEF Leaving
<1>2. ModsFit /\ HeldFits /\ RefsFit /\ left \in Seq(Modules)
  BY DEF ServerInv, ModuleInv, PhaseFits
<1>3. Len(mods) \in DOMAIN mods /\ mods[Len(mods)] = p /\ DOMAIN mods = 1 .. Len(mods) /\ Len(mods) \in Nat
  BY <1>1, <1>2
<1>4. \A m : GotLate(m) = {}
  BY DEF GotLate, Holding, Middle
<1>5. ASSUME NEW m \in Holders(p) PROVE FALSE
  <2>1. PICK a \in DOMAIN mods : mods[a] = m
    BY <1>5 DEF Holders, Loaded, ToSet
  <2>2. Len(mods) < a
    BY <1>2, <1>3, <1>4, <1>5, <2>1 DEF Holders, HeldFits
  <2> QED
    BY <1>3, <2>1, <2>2
<1>6. Holders(p) = {}
  BY <1>5
<1>7. Cardinality(Holders(p)) = 0
  BY <1>6, FS_EmptySet
<1>8. ~Refused /\ Own(p) = 0
  BY DEF Refused, Own, Holding, Middle
<1>9. refs[p] = Cardinality(Holders(p)) + Own(p)
  BY <1>2, <1>8 DEF RefsFit
<1> QED
  BY <1>1, <1>6, <1>7, <1>8, <1>9

LEMMA UnregisterKeeps ==
    ASSUME ServerInv, Modules \subseteq Names, RemovalsFit, UnregInterface, ~(refs[Leaving] > 0)
    PROVE  ServerInv'
<1>1. /\ Unloading /\ Step = "unreg" /\ NextStep /\ registered' = registered \ {Leaving}
      /\ mods' = mods /\ refs' = refs /\ held' = held
      /\ UNCHANGED <<quit, at, queue, timers, threads, mainVars>>
  BY DEF UnregInterface
<1>2. phase' = phase /\ left' = left /\ done' = done
  BY <1>1 DEF mainVars
<1>3. PICK p, w :
         /\ p = Leaving /\ w = Step
         /\ Fits(stack)' /\ PhaseFits' /\ TimersFit' /\ QueueFits' /\ ThreadsFit' /\ PersistFits' /\ Loaded' = Loaded
         /\ \A m, what : Past(m, what)' <=> Past(m, what) \/ (m = p /\ what = w)
  BY <1>1, <1>2, NextSettles
<1>4. p \in Modules /\ p \in Loaded /\ phase \in {"running", "unloading"}
  BY <1>1, <1>3, LeavingIs
<1>5. registered' = registered \ {p} /\ w = "unreg" /\ ~(refs[p] > 0)
  BY <1>1, <1>3
<1> HIDE DEF Leaving, Step
<1>6. ModsFit /\ RegisteredFits /\ HeldFits /\ RefsFit
  BY DEF ServerInv, ModuleInv
<1>7. \A m, what : Past(m, what)' <=> Past(m, what) \/ (m = p /\ what = "unreg")
  BY <1>3, <1>5
<1>8. ~Refused /\ ~Refused'
  BY <1>2, <1>4 DEF Refused
<1>9. Holders(p) = {}
  <2>1. Loaded \subseteq Modules
    BY <1>6 DEF ModsFit, Loaded, ToSet
  <2>2. Holders(p) \subseteq Modules
    BY <2>1 DEF Holders
  <2>3. IsFiniteSet(Holders(p)) /\ Cardinality(Holders(p)) \in Nat
    BY <2>2, ModulesFinite
  <2>4. Own(p) \in {0, 1} /\ refs[p] = Cardinality(Holders(p)) + Own(p)
    BY <1>4, <1>6, <1>8 DEF RefsFit, Own
  <2>5. Cardinality(Holders(p)) = 0
    BY <1>5, <2>3, <2>4
  <2> QED
    BY <2>3, <2>5, FS_EmptySet
<1>10. \A m : GotLate(m)' = GotLate(m)
  BY <1>2 DEF GotLate
<1>11. \A i : Holders(i)' = Holders(i) /\ Own(i)' = Own(i)
  BY <1>1, <1>2, <1>3, <1>7 DEF Holders, Own
<1>12. RefsFit'
  BY <1>1, <1>6, <1>8, <1>11 DEF RefsFit
<1>13. ModsFit'
  BY <1>1, <1>2, <1>3, <1>6 DEF ModsFit
<1>14. RegisteredFits'
  BY <1>3, <1>5, <1>6, <1>7 DEF RegisteredFits, Alive
<1>15. HeldFits'
  <2>1. \A m \in Loaded : ~Past(m, "release") => p \notin held[m]
    BY <1>9 DEF Holders
  <2> QED
    BY <1>1, <1>3, <1>5, <1>6, <1>7, <1>10, <2>1 DEF HeldFits
<1> QED
  BY <1>3, <1>12, <1>13, <1>14, <1>15 DEF ServerInv, ModuleInv

LEMMA RefuseKeeps ==
    ASSUME ServerInv, Modules \subseteq Names, RemovalsFit, UnregInterface, refs[Leaving] > 0
    PROVE  ServerInv'
<1>1. /\ Unloading /\ Step = "unreg" /\ stack' = Front(stack)
      /\ UNCHANGED <<quit, at, queue, timers, work, working, moduleVars, threads, mainVars>>
  BY DEF UnregInterface, Pop, moduleVars
<1>2. phase' = phase /\ left' = left /\ done' = done
  BY <1>1 DEF mainVars
<1>3. PICK p \in Modules :
         /\ p = Leaving /\ stack # <<>> /\ UnloadOf(stack[Len(stack)], p)
         /\ stack[Len(stack)].pc \in DOMAIN Steps(p) /\ Steps(p)[stack[Len(stack)].pc] = "unreg"
         /\ DOMAIN Steps(p) = 1 .. Len(Steps(p)) /\ Len(Steps(p)) \in Nat
         /\ (phase = "running" /\ p \in Removable) \/ phase = "unloading"
         /\ \A what : Past(p, what) =>
               \E k \in DOMAIN Steps(p) : k < stack[Len(stack)].pc /\ Steps(p)[k] = what
  BY <1>1, LeavingIs
<1>4. phase = "running" /\ p \in Removable
  BY <1>1, <1>3, LastUnheld
<1> HIDE DEF Leaving, Step
<1>5. p # "mainloop"
  BY <1>4 DEF RemovalsFit
<1>6. stack[Len(stack)].pc = 1
  BY <1>3, <1>5, OrdersFit DEF OrderFits
<1>7. \A what : ~PastIn(stack, p, what)
  BY <1>3, <1>6 DEF Past
<1>8. Fits(stack) /\ Shape(stack) /\ stack \in Seq(Frame)
  BY DEF ServerInv, Fits, StackFits, Shape
<1>9. PICK tt : tt = Front(stack)
  OBVIOUS
<1>10. Shape(tt) /\ SamePast(tt, stack)
  <2>1. /\ Shape(tt)
        /\ \A m, what : ~UnloadOf(stack[Len(stack)], m) => (PastIn(tt, m, what) <=> PastIn(stack, m, what))
        /\ \A m, what : UnloadOf(stack[Len(stack)], m) => ~PastIn(tt, m, what)
    BY <1>3, <1>8, <1>9, PopFits
  <2>2. \A m : UnloadOf(stack[Len(stack)], m) <=> m = p
    BY <1>3 DEF UnloadOf
  <2> QED
    BY <1>7, <2>1, <2>2 DEF SamePast
<1>11. /\ Len(tt) = Len(stack) - 1 /\ DOMAIN tt = 1 .. Len(stack) - 1 /\ Len(stack) \in Nat /\ Len(stack) >= 1
       /\ \A i \in 1 .. Len(stack) - 1 : tt[i] = stack[i] /\ i \in DOMAIN stack
  BY <1>3, <1>8, <1>9, FrontIs
<1>12. stack' = tt
  BY <1>1, <1>9
<1> HIDE <1>9
<1>13. StackFits(tt)
  BY <1>8, <1>10, <1>11 DEF Fits, StackFits
<1>14. InPhase(tt)
  BY <1>3, <1>4, <1>8, <1>11 DEF Fits, InPhase
<1>15. FirstStays(stack, tt)
  <2>1. ASSUME stack[1].does = "timer" PROVE tt # <<>> /\ tt[1] = stack[1]
    <3>1. Len(stack) # 1
      BY <1>3, <2>1 DEF UnloadOf
    <3> QED
      BY <1>11, <3>1
  <2> QED
    BY <2>1 DEF FirstStays
<1>16. Fits(tt) /\ SamePast(tt, stack)
  BY <1>10, <1>13, <1>14 DEF Fits
<1> QED
  BY <1>1, <1>2, <1>12, <1>15, <1>16, Settles DEF ServerInv

\* A list of modules without one of them.
WithoutAt(S, s, x, tt) ==
    /\ tt \in Seq(S) /\ Len(tt) = Len(s) - 1 /\ DOMAIN tt = 1 .. Len(s) - 1
    /\ \A i \in 1 .. Len(s) - 1 : (i < x => tt[i] = s[i]) /\ (i >= x => tt[i] = s[i + 1])

LEMMA RemovedAre ==
    ASSUME NEW S, NEW s \in Seq(S), NEW x \in DOMAIN s, NEW tt, tt = RemoveAt(s, x)
    PROVE  WithoutAt(S, s, x, tt)
<1> DEFINE a == SubSeq(s, 1, x - 1)
           b == SubSeq(s, x + 1, Len(s))
<1>1. Len(s) \in Nat /\ DOMAIN s = 1 .. Len(s) /\ x \in 1 .. Len(s)
  OBVIOUS
<1>2. a \in Seq(S) /\ Len(a) = x - 1 /\ \A i \in 1 .. x - 1 : a[i] = s[i]
  BY <1>1
<1>3. b \in Seq(S) /\ Len(b) = Len(s) - x /\ \A i \in 1 .. Len(s) - x : b[i] = s[x + i]
  BY <1>1
<1>4. tt = a \o b
  BY DEF RemoveAt
<1> HIDE DEF a, b
<1>5. tt \in Seq(S) /\ Len(tt) = Len(s) - 1
  <2>1. a \o b \in Seq(S) /\ Len(a \o b) = Len(a) + Len(b)
    BY <1>2, <1>3, ConcatProperties
  <2> QED
    BY <1>1, <1>2, <1>3, <1>4, <2>1
<1>6. ASSUME NEW i \in 1 .. Len(s) - 1, i < x PROVE tt[i] = s[i]
  BY <1>1, <1>2, <1>3, <1>4, <1>6
<1>7. ASSUME NEW i \in 1 .. Len(s) - 1, i >= x PROVE tt[i] = s[i + 1]
  <2>1. tt[i] = b[i - Len(a)]
    BY <1>1, <1>2, <1>3, <1>4, <1>7
  <2>2. i - Len(a) \in 1 .. Len(s) - x /\ x + (i - Len(a)) = i + 1
    BY <1>1, <1>2, <1>7
  <2> QED
    BY <1>3, <2>1, <2>2
<1> QED
  BY <1>1, <1>5, <1>6, <1>7 DEF WithoutAt

LEMMA RestOfList ==
    ASSUME NEW S, NEW s \in Seq(S), NEW x \in DOMAIN s, NEW tt, WithoutAt(S, s, x, tt),
           \A i, j \in DOMAIN s : s[i] = s[j] => i = j
    PROVE  /\ ToSet(tt) = ToSet(s) \ {s[x]}
           /\ \A a, b \in DOMAIN tt :
                 \E c, d \in DOMAIN s : /\ tt[a] = s[c] /\ tt[b] = s[d]
                                        /\ (a < b <=> c < d) /\ (a = b <=> c = d)
           /\ \A st \in Seq(S) : s = Append(st, s[x]) => tt = st
<1>1. Len(s) \in Nat /\ DOMAIN s = 1 .. Len(s) /\ x \in 1 .. Len(s)
  OBVIOUS
<1> USE DEF WithoutAt
<1>2. ASSUME NEW m \in ToSet(tt) PROVE m \in ToSet(s) \ {s[x]}
  <2>1. PICK i \in 1 .. Len(s) - 1 : m = tt[i]
    BY <1>2 DEF ToSet
  <2>2. PICK c \in 1 .. Len(s) : c # x /\ m = s[c]
    BY <1>1, <2>1
  <2> QED
    BY <1>1, <2>2 DEF ToSet
<1>3. ASSUME NEW m \in ToSet(s) \ {s[x]} PROVE m \in ToSet(tt)
  <2>1. PICK c \in 1 .. Len(s) : m = s[c]
    BY <1>1, <1>3 DEF ToSet
  <2>2. c # x
    BY <1>3, <2>1
  <2>3. \E i \in 1 .. Len(s) - 1 : m = tt[i]
    <3>1. CASE c < x
      <4>1. c \in 1 .. Len(s) - 1
        BY <1>1, <3>1
      <4> QED
        BY <2>1, <3>1, <4>1
    <3>2. CASE c > x
      <4>1. c - 1 \in 1 .. Len(s) - 1 /\ c - 1 >= x /\ c - 1 + 1 = c
        BY <1>1, <3>2
      <4> QED
        BY <2>1, <4>1
    <3> QED
      BY <1>1, <2>2, <3>1, <3>2
  <2> QED
    BY <2>3 DEF ToSet
<1>4. ASSUME NEW a \in DOMAIN tt, NEW b \in DOMAIN tt
      PROVE  \E c, d \in DOMAIN s : tt[a] = s[c] /\ tt[b] = s[d] /\ (a < b <=> c < d) /\ (a = b <=> c = d)
  <2>1. PICK c \in DOMAIN s : c = (IF a < x THEN a ELSE a + 1) /\ tt[a] = s[c]
    BY <1>1
  <2>2. PICK d \in DOMAIN s : d = (IF b < x THEN b ELSE b + 1) /\ tt[b] = s[d]
    BY <1>1
  <2>3. (a < b <=> c < d) /\ (a = b <=> c = d)
    BY <1>1, <2>1, <2>2
  <2> QED
    BY <2>1, <2>2, <2>3
<1>5. ASSUME NEW st \in Seq(S), s = Append(st, s[x]) PROVE tt = st
  <2>1. PICK p : p = s[x]
    OBVIOUS
  <2>2. /\ Len(s) = Len(st) + 1 /\ Len(st) \in Nat /\ s[Len(s)] = p /\ DOMAIN st = 1 .. Len(st)
        /\ \A i \in 1 .. Len(st) : s[i] = st[i]
    BY <1>5, <2>1
  <2>3. x = Len(s)
    BY <1>1, <2>1, <2>2
  <2>4. \A i \in 1 .. Len(st) : tt[i] = st[i]
    BY <1>1, <2>2, <2>3
  <2>5. Len(tt) = Len(st)
    BY <2>2
  <2> QED
    BY <2>2, <2>4, <2>5
<1>6. ToSet(tt) = ToSet(s) \ {s[x]}
  BY <1>2, <1>3
<1> QED
  BY <1>4, <1>5, <1>6

RestFits(p, tt) ==
    /\ tt \in Seq(Modules) /\ ToSet(tt) = Loaded \ {p}
    /\ \A a, b \in DOMAIN tt :
          \E c, d \in DOMAIN mods : /\ tt[a] = mods[c] /\ tt[b] = mods[d]
                                    /\ (a < b <=> c < d) /\ (a = b <=> c = d)
    /\ \A st \in Seq(Modules) : mods = Append(st, p) => tt = st

LEMMA RestOfModsAt ==
    ASSUME ModsFit, NEW p, p \in Loaded, NEW x, x \in DOMAIN mods, mods[x] = p, NEW tt, tt = RemoveAt(mods, x)
    PROVE  RestFits(p, tt)
<1>3. mods \in Seq(Modules) /\ \A i, j \in DOMAIN mods : mods[i] = mods[j] => i = j
  BY DEF ModsFit
<1>4. WithoutAt(Modules, mods, x, tt)
  BY <1>3, RemovedAre
<1>5. /\ ToSet(tt) = ToSet(mods) \ {mods[x]}
      /\ \A a, b \in DOMAIN tt :
            \E c, d \in DOMAIN mods : tt[a] = mods[c] /\ tt[b] = mods[d] /\ (a < b <=> c < d) /\ (a = b <=> c = d)
      /\ \A st \in Seq(Modules) : mods = Append(st, mods[x]) => tt = st
  BY <1>3, <1>4, RestOfList
<1>6. mods[x] = p
  OBVIOUS
<1>7. ToSet(tt) = Loaded \ {p} /\ \A st \in Seq(Modules) : mods = Append(st, p) => tt = st
  BY <1>5, <1>6 DEF Loaded
<1>8. \A a, b \in DOMAIN tt :
         \E c, d \in DOMAIN mods : tt[a] = mods[c] /\ tt[b] = mods[d] /\ (a < b <=> c < d) /\ (a = b <=> c = d)
  BY <1>5
<1>9. tt \in Seq(Modules)
  BY <1>4 DEF WithoutAt
<1> QED
  BY <1>7, <1>8, <1>9 DEF RestFits

LEMMA RestOfMods ==
    ASSUME ModsFit, NEW p, p \in Loaded, NEW tt, tt = RemoveAt(mods, CHOOSE i \in DOMAIN mods : mods[i] = p)
    PROVE  RestFits(p, tt)
<1>1. PICK x : x = (CHOOSE i \in DOMAIN mods : mods[i] = p)
  OBVIOUS
<1>2. \E i \in DOMAIN mods : mods[i] = p
  BY DEF Loaded, ToSet
<1>3. x \in DOMAIN mods /\ mods[x] = p
  BY <1>1, <1>2
<1>4. tt = RemoveAt(mods, x)
  BY <1>1
<1> QED
  BY ONLY ModsFit, p \in Loaded, <1>3, <1>4, RestOfModsAt

\* All that have functions queued wait for them, and all threads are ended.
LEMMA HaveSteps ==
    /\ 3 \in DOMAIN Steps("net") /\ Steps("net")[3] = "cancel"
    /\ 4 \in DOMAIN Steps("net") /\ Steps("net")[4] = "drain"
    /\ 3 \in DOMAIN Steps("persist") /\ Steps("persist")[3] = "drain"
    /\ 5 \in DOMAIN Steps("persist") /\ Steps("persist")[5] = "join"
    /\ 2 \in DOMAIN Steps("game") /\ Steps("game")[2] = "drain"
    /\ 2 \in DOMAIN Steps("fake") /\ Steps("fake")[2] = "drain"
    /\ 2 \in DOMAIN Steps("mysql") /\ Steps("mysql")[2] = "cancel"
    /\ 3 \in DOMAIN Steps("mysql") /\ Steps("mysql")[3] = "drain"
<1>1. /\ 3 \in DOMAIN Steps("net") /\ Steps("net")[3] = "cancel"
      /\ 4 \in DOMAIN Steps("net") /\ Steps("net")[4] = "drain"
  BY StepsAre
<1>2. /\ 3 \in DOMAIN Steps("persist") /\ Steps("persist")[3] = "drain"
      /\ 5 \in DOMAIN Steps("persist") /\ Steps("persist")[5] = "join"
  BY StepsAre
<1>3. 2 \in DOMAIN Steps("game") /\ Steps("game")[2] = "drain"
  BY StepsAre
<1>4. 2 \in DOMAIN Steps("fake") /\ Steps("fake")[2] = "drain"
  BY StepsAre
<1>5. /\ 2 \in DOMAIN Steps("mysql") /\ Steps("mysql")[2] = "cancel"
      /\ 3 \in DOMAIN Steps("mysql") /\ Steps("mysql")[3] = "drain"
  BY StepsAre
<1> QED
  BY <1>1, <1>2, <1>3, <1>4, <1>5

\* A module that is off has got past all its steps.
LEMMA EndPast ==
    ASSUME ServerInv, Modules \subseteq Names, Unloading, Step = "end"
    PROVE  /\ Leaving \notin Mute => Past(Leaving, "unreg")
           /\ Leaving # "mainloop" => Past(Leaving, "release")
           /\ Leaving \in Sponsors => Past(Leaving, "drain")
           /\ Leaving \in {"net", "mysql"} => Past(Leaving, "cancel")
           /\ Leaving = "persist" => Past(Leaving, "join")
           /\ "timer" \in Programs[Leaving].starts => Past(Leaving, "clear")
<1>1. PICK p : p = Leaving
  OBVIOUS
<1>2. /\ p \in Modules /\ stack # <<>> /\ UnloadOf(stack[Len(stack)], p)
      /\ stack[Len(stack)].pc \in 1 .. Len(Steps(p)) + 1
      /\ DOMAIN Steps(p) = 1 .. Len(Steps(p)) /\ Len(Steps(p)) \in Nat
      /\ \A k \in DOMAIN Steps(p) : k < stack[Len(stack)].pc => Past(p, Steps(p)[k])
  BY <1>1, LeavingIs
<1>3. stack[Len(stack)].pc = Len(Steps(p)) + 1
  <2>1. \A k \in DOMAIN Steps(p) : Steps(p)[k] # "end"
    BY <1>2, OrdersFit DEF OrderFits
  <2>2. Top = stack[Len(stack)]
    BY <1>2, TopIs
  <2> QED
    BY <1>1, <1>2, <2>1, <2>2 DEF Step, Steps
<1>4. \A k \in DOMAIN Steps(p) : Past(p, Steps(p)[k])
  BY <1>2, <1>3
<1> HIDE DEF Leaving, Step
<1>5. (p \notin Mute => Past(p, "unreg")) /\ (p # "mainloop" => Past(p, "release"))
  BY <1>2, <1>4, OrdersFit DEF OrderFits
<1>6. "timer" \in Programs[p].starts => Past(p, "clear")
  BY <1>2, <1>4, NeedsAreMet DEF NeedsFit, Steps
<1>7. p \in Sponsors => \E k \in DOMAIN Steps(p) : Steps(p)[k] = "drain"
  BY <1>2, HaveSteps DEF Sponsors
<1>8. /\ p \in {"net", "mysql"} => \E k \in DOMAIN Steps(p) : Steps(p)[k] = "cancel"
      /\ p = "persist" => \E k \in DOMAIN Steps(p) : Steps(p)[k] = "join"
  BY <1>2, HaveSteps
<1> QED
  BY <1>1, <1>4, <1>5, <1>6, <1>7, <1>8

\* While there may be packets there are players.
LEMMA PlayersStay ==
    ASSUME ServerInv, Alive("net", "drain"), "playerdata" \in Modules
    PROVE  Alive("playerdata", "unreg")
<1>1. RegisteredFits /\ HeldFits
  BY DEF ServerInv, ModuleInv
<1>2. ~Past("net", "release")
  <2>1. ASSUME NEW i \in DOMAIN stack, UnloadOf(stack[i], "net"),
               NEW k \in DOMAIN Steps("net"), k < stack[i].pc, Steps("net")[k] = "release"
        PROVE  4 \in DOMAIN Steps("net") /\ 4 < stack[i].pc /\ Steps("net")[4] = "drain"
    <3>1. k = 5
      BY <2>1, StepsAre
    <3>2. stack[i].pc \in Nat
      <4>1. stack \in Seq(Frame)
        BY DEF ServerInv, Fits, StackFits, Shape
      <4>2. stack[i] \in Frame
        BY <2>1, <4>1
      <4> QED
        BY <4>2 DEF Frame
    <3> QED
      BY <2>1, <3>1, <3>2, StepsAre
  <2> QED
    BY <2>1 DEF Alive, Past, PastIn
<1>3. "playerdata" \in held["net"]
  BY <1>1, StepsAre DEF HeldFits, Alive
<1> QED
  BY <1>1, <1>2, <1>3 DEF HeldFits, RegisteredFits, Alive

\* What is queued does not need the module that is off.
LEMMA LeavingUnbacked ==
    ASSUME ServerInv, Modules \subseteq Names, RemovalsFit, Unloading, Step = "end", NEW c, Backed(c)
    PROVE  /\ Leaving \notin c
           /\ \E m \in Sponsors \ {Leaving} : c \in CodesOf(m) /\ Alive(m, "drain")
<1>1. PICK p : p = Leaving
  OBVIOUS
<1>2. /\ p \in Modules /\ p \in Loaded
      /\ \/ phase = "running" /\ p \in Removable
         \/ phase = "unloading" /\ mods = Append(left, p)
  BY <1>1, LeavingIs
<1>3. p \notin Mute => Past(p, "unreg")
  BY <1>1, EndPast
<1>4. p \in Sponsors => Past(p, "drain")
  BY <1>1, EndPast
<1> HIDE DEF Leaving, Step
<1>5. PICK m \in Sponsors : c \in CodesOf(m) /\ Alive(m, "drain")
  BY DEF Backed
<1>6. m # p
  BY <1>4, <1>5 DEF Alive
<1>7. p \notin c
  <2>1. CASE m = "net"
    <3>1. p = "playerdata" => ~Alive("net", "drain")
      BY <1>2, <1>3, PlayersStay DEF Mute, Alive
    <3> QED
      BY <1>5, <1>6, <2>1, <3>1 DEF CodesOf
  <2>2. CASE m = "persist"
    <3>1. p \notin {"core", "arenaman"}
      <4>1. SUFFICES ASSUME p \in {"core", "arenaman"} PROVE FALSE
        OBVIOUS
      <4>2. mods = Append(left, p) /\ left \in Seq(Modules)
        BY <1>2, <4>1 DEF RemovalsFit, ServerInv, PhaseFits
      <4>3. /\ Len(mods) \in DOMAIN mods /\ mods[Len(mods)] = p
            /\ DOMAIN mods = 1 .. Len(mods) /\ Len(mods) \in Nat
        BY <1>2, <4>2
      <4>4. PICK b \in DOMAIN mods : mods[b] = "persist"
        BY <1>5, <2>2 DEF Alive, Loaded, ToSet
      <4>5. Len(mods) < b
        BY <4>1, <4>3, <4>4 DEF ServerInv, ModuleInv, ModsFit, LateOf
      <4> QED
        BY <4>3, <4>4, <4>5
    <3>2. p # "main"
      BY <1>2 DEF Names
    <3> QED
      BY <1>5, <1>6, <2>2, <3>1, <3>2 DEF CodesOf
  <2>3. CASE m \notin {"net", "persist"}
    BY <1>5, <1>6, <2>3 DEF CodesOf
  <2> QED
    BY <2>1, <2>2, <2>3
<1> QED
  BY <1>1, <1>5, <1>6, <1>7

LEMMA UnloadedSettles ==
    ASSUME ServerInv, Modules \subseteq Names, RemovalsFit, Unloaded
    PROVE  \E p \in Modules :
              /\ p = Leaving /\ p \in Loaded /\ Loaded' = Loaded \ {p} /\ mods' \in Seq(Modules)
              /\ (phase = "running" /\ p \in Removable) \/ phase = "unloading"
              /\ \A a, b \in DOMAIN mods' :
                    \E c, d \in DOMAIN mods : /\ mods'[a] = mods[c] /\ mods'[b] = mods[d]
                                              /\ (a < b <=> c < d) /\ (a = b <=> c = d)
              /\ \A m, what : Past(m, what)' <=> Past(m, what) /\ m # p
              /\ \A c : Backed(c) => Backed(c)'
              /\ Fits(stack)' /\ FirstStays(stack, stack')
<1>1. /\ Unloading /\ Step = "end" /\ stack' = Front(stack)
      /\ mods' = RemoveAt(mods, CHOOSE i \in DOMAIN mods : mods[i] = Leaving)
      /\ at' = at /\ phase' = phase /\ left' = left
  BY DEF Unloaded, Pop, mainVars
<1>2. PICK p \in Modules :
         /\ p = Leaving /\ p \in Loaded /\ stack # <<>> /\ UnloadOf(stack[Len(stack)], p)
         /\ \/ phase = "running" /\ p \in Removable
            \/ phase = "unloading" /\ Len(stack) = 1 /\ mods = Append(left, p)
  BY <1>1, LeavingIs
<1>3. mods' = RemoveAt(mods, CHOOSE i \in DOMAIN mods : mods[i] = p)
  BY <1>1, <1>2
<1>4. \A c : Backed(c) => p \notin c /\ \E m \in Sponsors \ {p} : c \in CodesOf(m) /\ Alive(m, "drain")
  BY <1>1, <1>2, LeavingUnbacked
<1>5. PICK tt : tt = Front(stack)
  OBVIOUS
<1>6. Fits(stack) /\ Shape(stack) /\ stack \in Seq(Frame)
  BY DEF ServerInv, Fits, StackFits, Shape
<1>7. /\ Shape(tt)
      /\ \A m, what : ~UnloadOf(stack[Len(stack)], m) => (PastIn(tt, m, what) <=> PastIn(stack, m, what))
      /\ \A m, what : UnloadOf(stack[Len(stack)], m) => ~PastIn(tt, m, what)
  BY <1>2, <1>5, <1>6, PopFits
<1>8. /\ Len(tt) = Len(stack) - 1 /\ DOMAIN tt = 1 .. Len(stack) - 1 /\ Len(stack) \in Nat /\ Len(stack) >= 1
      /\ \A i \in 1 .. Len(stack) - 1 : tt[i] = stack[i] /\ i \in DOMAIN stack
  BY <1>2, <1>5, <1>6, FrontIs
<1>9. stack' = tt
  BY <1>1, <1>5
<1> HIDE <1>5
<1> HIDE DEF Leaving, Step
<1>10. PICK rest : rest = RemoveAt(mods, CHOOSE i \in DOMAIN mods : mods[i] = p)
  OBVIOUS
<1>11. ModsFit /\ left \in Seq(Modules)
  BY DEF ServerInv, ModuleInv, PhaseFits
<1>12. /\ rest \in Seq(Modules) /\ ToSet(rest) = Loaded \ {p}
       /\ \A a, b \in DOMAIN rest :
             \E c, d \in DOMAIN mods : rest[a] = mods[c] /\ rest[b] = mods[d] /\ (a < b <=> c < d) /\ (a = b <=> c = d)
       /\ \A st \in Seq(Modules) : mods = Append(st, p) => rest = st
  <2>1. p \in Loaded
    BY <1>2
  <2>2. ModsFit
    BY <1>11
  <2>3. RestFits(p, rest)
    BY <1>10, <2>1, <2>2, RestOfMods
  <2> QED
    BY <2>3 DEF RestFits
<1>13. mods' = rest
  BY <1>3, <1>10
<1> HIDE <1>10
<1>14. Loaded' = Loaded \ {p}
  BY <1>12, <1>13 DEF Loaded
<1>15. \A m, what : Past(m, what)' <=> Past(m, what) /\ m # p
  <2>1. \A m : UnloadOf(stack[Len(stack)], m) <=> m = p
    BY <1>2 DEF UnloadOf
  <2> QED
    BY <1>7, <1>9, <2>1 DEF Past
<1>16. \A m, what : Alive(m, what) /\ m # p => Alive(m, what)'
  BY <1>14, <1>15 DEF Alive
<1>17. ASSUME NEW c, Backed(c) PROVE Backed(c)'
  <2>1. p \notin c
    BY <1>4, <1>17
  <2>2. PICK m \in Sponsors \ {p} : c \in CodesOf(m) /\ Alive(m, "drain")
    BY <1>4, <1>17
  <2>3. Alive(m, "drain")'
    BY <1>16, <2>2
  <2>4. c \cap Modules \subseteq Loaded'
    BY <1>14, <1>17, <2>1 DEF Backed
  <2> QED
    BY <2>2, <2>3, <2>4 DEF Backed
<1>18. StackFits(tt)'
  <2>1. ASSUME NEW i \in 1 .. Len(stack) - 1
        PROVE  /\ tt[i].does = "function" => Backed(tt[i].code)'
               /\ tt[i].does = "timer" => tt[i].code \subseteq Loaded' \cup {"directory"}
               /\ tt[i].does = "unload" => tt[i].code \subseteq Loaded'
    <3>1. tt[i] = stack[i] /\ i \in DOMAIN stack /\ i < Len(stack) /\ Len(stack) \in DOMAIN stack
      BY <1>6, <1>8
    <3>2. /\ stack[i].does = "function" => Backed(stack[i].code)
          /\ stack[i].does = "timer" => stack[i].code \subseteq Loaded \cup {"directory"}
          /\ stack[i].does = "unload" => stack[i].code \subseteq Loaded
      BY <1>6, <3>1 DEF Fits, StackFits
    <3>3. stack[i].does = "timer" => stack[i].code = {"arenaman"}
      BY <1>6, <3>1 DEF Shape, Waits, AtDrain, UnloadOf
    <3>4. stack[i].does = "timer" => p # "arenaman"
      BY <1>2, <1>8 DEF RemovalsFit
    <3>5. stack[i].does = "unload" => p \notin stack[i].code
      <4>1. SUFFICES ASSUME stack[i].does = "unload" PROVE p \notin stack[i].code
        OBVIOUS
      <4>2. PICK m \in Modules : stack[i].code = {m}
        BY <1>6, <3>1, <4>1 DEF Shape
      <4>3. m # p
        <5>1. stack[Len(stack)].does = "unload" /\ stack[Len(stack)].code = {p}
          BY <1>2 DEF UnloadOf
        <5>2. stack[i].code = stack[Len(stack)].code => i = Len(stack)
          BY <1>6, <3>1, <4>1, <5>1 DEF Shape
        <5> QED
          BY <1>8, <3>1, <4>2, <5>1, <5>2
      <4> QED
        BY <4>2, <4>3
    <3>6. PICK c : c = tt[i].code
      OBVIOUS
    <3>7. tt[i].does = "function" => Backed(c)'
      BY <1>17, <3>1, <3>2, <3>6
    <3> QED
      BY <1>14, <3>1, <3>2, <3>3, <3>4, <3>5, <3>6, <3>7
  <2> QED
    BY <1>7, <1>8, <2>1 DEF StackFits
<1>19. InPhase(tt)'
  <2>1. CASE phase = "running"
    BY <1>1, <1>2, <1>6, <1>8, <2>1 DEF Fits, InPhase
  <2>2. CASE phase = "unloading"
    <3>1. tt = <<>>
      BY <1>2, <1>8, <2>2, <1>7 DEF Shape
    <3>2. mods' = left
      BY <1>2, <1>11, <1>12, <1>13, <2>2
    <3> QED
      BY <1>1, <2>2, <3>1, <3>2 DEF InPhase
  <2> QED
    BY <1>2, <2>1, <2>2
<1>20. FirstStays(stack, tt)
  <2>1. ASSUME stack[1].does = "timer" PROVE tt # <<>> /\ tt[1] = stack[1]
    <3>1. Len(stack) # 1
      BY <1>2, <2>1 DEF UnloadOf
    <3> QED
      BY <1>8, <3>1
  <2> QED
    BY <2>1 DEF FirstStays
<1>21. Fits(stack)'
  BY <1>9, <1>18, <1>19 DEF Fits
<1> QED
  BY <1>2, <1>9, <1>12, <1>13, <1>14, <1>15, <1>17, <1>20, <1>21

LEMMA UnloadedKeeps ==
    ASSUME ServerInv, Modules \subseteq Names, RemovalsFit, Unloaded
    PROVE  ServerInv'
<1>1. /\ Unloading /\ Step = "end"
      /\ quit' = quit /\ at' = at /\ queue' = queue /\ timers' = timers /\ registered' = registered
      /\ refs' = refs /\ held' = held /\ threads' = threads /\ phase' = phase /\ left' = left /\ done' = done
  BY DEF Unloaded, mainVars
<1>2. PICK p \in Modules :
         /\ p = Leaving /\ p \in Loaded /\ Loaded' = Loaded \ {p} /\ mods' \in Seq(Modules)
         /\ (phase = "running" /\ p \in Removable) \/ phase = "unloading"
         /\ \A a, b \in DOMAIN mods' :
               \E c, d \in DOMAIN mods : /\ mods'[a] = mods[c] /\ mods'[b] = mods[d]
                                         /\ (a < b <=> c < d) /\ (a = b <=> c = d)
         /\ \A m, what : Past(m, what)' <=> Past(m, what) /\ m # p
         /\ \A c : Backed(c) => Backed(c)'
         /\ Fits(stack)' /\ FirstStays(stack, stack')
  BY UnloadedSettles
<1>3. /\ p \notin Mute => Past(p, "unreg")
      /\ p # "mainloop" => Past(p, "release")
      /\ p \in {"net", "mysql"} => Past(p, "cancel")
      /\ p = "persist" => Past(p, "join")
      /\ "timer" \in Programs[p].starts => Past(p, "clear")
  BY <1>1, <1>2, EndPast
<1> HIDE DEF Leaving, Step
<1>4. \A m, what : Alive(m, what) /\ m # p => Alive(m, what)'
  BY <1>2 DEF Alive
<1>5. \A m : m # p => \A what : Past(m, what)' <=> Past(m, what)
  BY <1>2
<1>6. ModsFit /\ RegisteredFits /\ HeldFits /\ RefsFit /\ PhaseFits /\ TimersFit /\ QueueFits /\ ThreadsFit /\ PersistFits
  BY DEF ServerInv, ModuleInv
<1>7. PhaseFits'
  BY <1>1, <1>2, <1>6 DEF PhaseFits
<1>8. ModsFit'
  <2>1. \A a, b \in DOMAIN mods' : mods'[a] = mods'[b] => a = b
    BY <1>2, <1>6 DEF ModsFit
  <2>2. \A a, b \in DOMAIN mods' : mods'[b] \in LateOf(mods'[a]) => a < b
    BY <1>2, <1>6 DEF ModsFit
  <2>3. phase' \in Holding => ToSet(Conf) \ Removable \subseteq Loaded'
    BY <1>1, <1>2, <1>6 DEF ModsFit, Holding, Middle
  <2>4. phase' # "loading"
    BY <1>1, <1>2
  <2> QED
    BY <1>2, <2>1, <2>2, <2>3, <2>4 DEF ModsFit
<1>9. RegisteredFits'
  <2>1. p \notin registered
    BY <1>3, <1>6 DEF RegisteredFits, Alive
  <2> QED
    BY <1>1, <1>2, <1>4, <1>5, <1>6, <2>1 DEF RegisteredFits
<1>10. \A m : GotLate(m)' = GotLate(m)
  BY <1>1 DEF GotLate
<1>11. HeldFits'
  <2>1. \A m \in Loaded' : m \in Loaded /\ m # p
    BY <1>2
  <2>2. \A m \in Loaded' : /\ held[m] \subseteq Programs[m].gets \cup GotLate(m)
                           /\ Programs[m].must \cap Modules \subseteq held[m]
                           /\ ~Past(m, "release")' => held[m] \subseteq registered
    BY <1>5, <1>6, <2>1 DEF HeldFits
  <2>3. ASSUME NEW a \in DOMAIN mods', NEW b \in DOMAIN mods',
               mods'[b] \in held[mods'[a]], ~Past(mods[a], "release")'
        PROVE  b < a \/ (mods[b] \in GotLate(mods[a]))'
    <3>1. PICK c \in DOMAIN mods, d \in DOMAIN mods :
             mods'[b] = mods[c] /\ mods'[a] = mods[d] /\ (b < a <=> c < d) /\ (b = a <=> c = d)
      BY <1>2, <2>3
    <3>2. PICK m : m = mods'[a]
      OBVIOUS
    <3>3. m \in Loaded'
      BY <2>3, <3>2 DEF Loaded, ToSet
    <3>4. ~Past(m, "release")'
      BY <2>3, <3>2 DEF Past
    <3>5. ~Past(m, "release")
      BY <1>5, <2>1, <3>3, <3>4
    <3>6. ~Past(mods[d], "release")
      BY <3>1, <3>2, <3>5
    <3>7. c < d \/ mods[c] \in GotLate(mods[d])
      BY <1>6, <2>3, <3>1, <3>6 DEF HeldFits
    <3> QED
      BY <1>1, <3>1, <3>7 DEF GotLate
  <2>4. held \in [Modules -> SUBSET Modules]
    BY <1>6 DEF HeldFits
  <2> QED
    BY <1>1, <1>10, <2>2, <2>3, <2>4 DEF HeldFits
<1>12. RefsFit'
  <2>1. ASSUME NEW i PROVE Holders(i)' = Holders(i) /\ Own(i)' = Own(i)
    <3>1. p \notin Holders(i)
      <4>1. CASE p = "mainloop"
        <5>1. held[p] = {}
          BY <1>2, <1>6, <4>1, NeedsAreMet DEF HeldFits, NeedsFit, GotLate, LateOf
        <5> QED
          BY <5>1 DEF Holders
      <4>2. CASE p # "mainloop"
        BY <1>3, <4>2 DEF Holders
      <4> QED
        BY <4>1, <4>2
    <3>2. Holders(i)' = {m \in Loaded \ {p} : i \in held[m] /\ ~Past(m, "release")}
      BY <1>1, <1>2, <1>5 DEF Holders
    <3>3. Holders(i)' = Holders(i)
      BY <3>1, <3>2 DEF Holders
    <3> QED
      BY <1>1, <3>3 DEF Own
  <2>2. ~Refused /\ ~Refused'
    BY <1>1, <1>2 DEF Refused
  <2> QED
    BY <1>1, <1>6, <2>1, <2>2 DEF RefsFit
<1>13. TimersFit'
  <2>1. ASSUME NEW t \in timers
        PROVE  /\ t \in [mod : Modules, running : BOOLEAN, killme : BOOLEAN]
               /\ t.mod = "directory" \/ ("timer" \in Programs[t.mod].starts /\ Alive(t.mod, "clear"))'
               /\ t.running => stack' # <<>> /\ stack'[1].does = "timer" /\ stack'[1].code = {t.mod}
    <3>1. /\ t \in [mod : Modules, running : BOOLEAN, killme : BOOLEAN]
          /\ t.mod = "directory" \/ ("timer" \in Programs[t.mod].starts /\ Alive(t.mod, "clear"))
          /\ t.running => stack # <<>> /\ stack[1].does = "timer" /\ stack[1].code = {t.mod}
      BY <1>6 DEF TimersFit
    <3>2. "timer" \in Programs[t.mod].starts /\ Alive(t.mod, "clear") => t.mod # p
      BY <1>3 DEF Alive
    <3>3. Alive(t.mod, "clear") /\ t.mod # p => Alive(t.mod, "clear")'
      BY <1>4
    <3> QED
      BY <1>2, <3>1, <3>2, <3>3 DEF FirstStays
  <2> QED
    BY <1>1, <2>1 DEF TimersFit
<1>14. QueueFits'
  BY <1>1, <1>2, <1>6 DEF QueueFits
<1>15. ThreadsFit'
  <2>1. ASSUME NEW t \in Threaded
        PROVE  /\ threads[t].at # "none" => Alive(t, "cancel")' /\ Alive(t, "join")'
               /\ IF Waiting(t) THEN threads[t].code \in CodesOf(t) /\ Backed(threads[t].code)' ELSE threads[t].code = {}
    <3>1. /\ threads[t].at # "none" => Alive(t, "cancel") /\ Alive(t, "join")
          /\ IF Waiting(t) THEN threads[t].code \in CodesOf(t) /\ Backed(threads[t].code) ELSE threads[t].code = {}
      BY <1>6 DEF ThreadsFit
    <3>2. threads[t].at # "none" => t # p
      BY <1>3, <3>1 DEF Threaded, Alive
    <3>3. threads[t].at # "none" => Alive(t, "cancel")' /\ Alive(t, "join")'
      BY <1>4, <3>1, <3>2
    <3>4. PICK c : c = threads[t].code
      OBVIOUS
    <3>5. Backed(c) => Backed(c)'
      BY <1>2
    <3>6. c = threads'[t].code
      BY <1>1, <3>4
    <3>7. Backed(threads[t].code) => Backed(threads[t].code)'
      BY <3>4, <3>5, <3>6
    <3> QED
      BY <3>1, <3>3, <3>7
  <2> QED
    BY <1>1, <1>6, <2>1 DEF ThreadsFit, Waiting
<1>16. PersistFits'
  <2>1. ASSUME phase = "running", NEW k \in DOMAIN threads["persist"].asked
        PROVE  threads["persist"].asked[k] \in Loaded' \cup {"main"}
    <3>1. threads["persist"].asked[k] \in Message \ {"mysql"} /\ threads["persist"].asked[k] \in Loaded \cup {"main"}
      BY <1>6, <2>1 DEF ThreadsFit, ThreadRecord, Threaded, PersistFits
    <3>2. p \notin Message \ {"mysql"}
      BY <1>2, <2>1 DEF RemovalsFit, Message, Names
    <3> QED
      BY <1>2, <3>1, <3>2
  <2> QED
    BY <1>1, <1>2, <1>6, <2>1 DEF PersistFits, Quiet
<1> QED
  BY <1>2, <1>7, <1>8, <1>9, <1>11, <1>12, <1>13, <1>14, <1>15, <1>16 DEF ServerInv, ModuleInv

----------------------------------------------------------------------------
(* The end of a drain.                                                     *)

LEMMA PlayersDrainNot ==
    ASSUME NEW k \in DOMAIN Steps("playerdata")
    PROVE  Steps("playerdata")[k] # "drain"
<1>1. Steps("playerdata") = <<"unreg", "release">>
  BY DEF Steps, Programs, Program, MM_playerdata
<1> QED
  BY <1>1

\* Main comes back to what waited for the drain.
LEMMA DrainIs ==
    ASSUME ServerInv, Modules \subseteq Names, DrainEnds, NEW ft, ft = Front(stack)
    PROVE  /\ stack # <<>> /\ ft # <<>> /\ Fits(ft) /\ SamePast(ft, stack) /\ FirstStays(stack, ft)
           /\ ft[Len(ft)].pc \in Nat /\ stack' = WithPc(ft, ft[Len(ft)].pc + 1)
           /\ AtDrain(ft[Len(ft)]) \/ ft[Len(ft)].does = "timer"
           /\ Len(ft) = Len(stack) - 1 /\ Len(stack) \in Nat /\ Len(ft) \in DOMAIN stack /\ Len(ft) < Len(stack)
           /\ DOMAIN ft = 1 .. Len(ft) /\ \A i \in DOMAIN ft : ft[i] = stack[i] /\ Waits(stack[i])
<1>1. stack # <<>>
  BY EmptyTop DEF DrainEnds
<1>2. stack[Len(stack)].does = "drain"
  BY <1>1, TopIs DEF DrainEnds
<1>3. Fits(stack) /\ Shape(stack) /\ stack \in Seq(Frame)
  BY DEF ServerInv, Fits, StackFits, Shape
<1>4. Fits(ft) /\ SamePast(ft, stack) /\ FirstStays(stack, ft)
  BY <1>1, <1>2, <1>3, PopGoes
<1>5. /\ ft \in Seq(Frame) /\ Len(ft) = Len(stack) - 1 /\ DOMAIN ft = 1 .. Len(stack) - 1
      /\ Len(stack) \in Nat /\ Len(stack) >= 1 /\ DOMAIN stack = 1 .. Len(stack)
      /\ \A i \in 1 .. Len(stack) - 1 : ft[i] = stack[i] /\ i \in DOMAIN stack
  BY <1>1, <1>3, FrontIs
<1>6. /\ Len(stack) > 1
      /\ AtDrain(stack[Len(stack) - 1]) \/ stack[Len(stack) - 1].does = "timer"
  BY <1>2, <1>3, <1>5 DEF Shape
<1>7. ft # <<>> /\ Len(ft) \in DOMAIN ft
  BY <1>5, <1>6
<1>8. ft[Len(ft)] \in Frame
  BY <1>5, <1>7
<1>9. ft[Len(ft)].pc \in Nat
  BY <1>8 DEF Frame
<1>10. stack' = WithPc(ft, ft[Len(ft)].pc + 1)
  BY <1>5 DEF DrainEnds, WithPc
<1>11. AtDrain(ft[Len(ft)]) \/ ft[Len(ft)].does = "timer"
  BY <1>5, <1>6
<1>12. \A i \in DOMAIN ft : ft[i] = stack[i] /\ Waits(stack[i])
  BY <1>3, <1>5 DEF Shape
<1> QED
  BY <1>1, <1>4, <1>5, <1>6, <1>7, <1>9, <1>10, <1>11, <1>12

LEMMA ArenaDrainEndsKeeps ==
    ASSUME ServerInv, Modules \subseteq Names, DrainEnds, UNCHANGED <<moduleVars, threads, mainVars>>,
           Front(stack)[Len(Front(stack))].does = "timer"
    PROVE  ServerInv'
<1>1. PICK ft : ft = Front(stack)
  OBVIOUS
<1>2. /\ ft # <<>> /\ Fits(ft) /\ SamePast(ft, stack) /\ FirstStays(stack, ft)
      /\ ft[Len(ft)].pc \in Nat /\ stack' = WithPc(ft, ft[Len(ft)].pc + 1)
  BY <1>1, DrainIs
<1>3. ft[Len(ft)].does = "timer"
  BY <1>1
<1>4. PICK n \in Nat : n = ft[Len(ft)].pc + 1
  BY <1>2
<1> HIDE <1>1
<1>5. Goes(ft, WithPc(ft, n))
  BY <1>2, <1>3, <1>4, WithPcGoes
<1>6. PICK tt : tt = WithPc(ft, n)
  OBVIOUS
<1>7. stack' = tt
  BY <1>2, <1>4, <1>6
<1>8. Fits(tt) /\ SamePast(tt, stack) /\ FirstStays(stack, tt)
  BY <1>2, <1>5, <1>6 DEF Goes, SamePast, FirstStays
<1> HIDE <1>4
<1> HIDE <1>6
<1>9. /\ quit' = quit /\ at' = at /\ queue' = queue /\ timers' = timers /\ moduleVars' = moduleVars
      /\ threads' = threads /\ phase' = phase /\ left' = left /\ done' = done
  BY DEF DrainEnds, mainVars
<1> QED
  BY <1>7, <1>8, <1>9, Settles DEF ServerInv

\* Nobody but the module itself had had its functions queued.
LEMMA CodesApart ==
    ASSUME NEW t \in Threaded, NEW p \in Modules, p # t, p # "playerdata", NEW c \in CodesOf(t)
    PROVE  c \notin CodesOf(p)
BY DEF Threaded, CodesOf

LEMMA ModuleDrainEndsKeeps ==
    ASSUME ServerInv, Modules \subseteq Names, RemovalsFit, DrainEnds, UNCHANGED <<moduleVars, threads, mainVars>>,
           AtDrain(Front(stack)[Len(Front(stack))])
    PROVE  ServerInv'
<1>1. PICK ft : ft = Front(stack)
  OBVIOUS
<1>2. /\ stack # <<>> /\ ft # <<>> /\ Fits(ft) /\ SamePast(ft, stack) /\ FirstStays(stack, ft)
      /\ stack' = WithPc(ft, ft[Len(ft)].pc + 1)
      /\ Len(ft) = Len(stack) - 1 /\ Len(stack) \in Nat /\ Len(ft) \in DOMAIN stack /\ Len(ft) < Len(stack)
      /\ DOMAIN ft = 1 .. Len(ft) /\ \A i \in DOMAIN ft : ft[i] = stack[i] /\ Waits(stack[i])
  BY <1>1, DrainIs
<1>3. PICK p \in Modules : UnloadOf(ft[Len(ft)], p) /\ ft[Len(ft)].pc \in DOMAIN Steps(p) /\ Steps(p)[ft[Len(ft)].pc] = "drain"
  BY <1>1 DEF AtDrain
<1> HIDE <1>1
<1>4. p # "playerdata"
  BY <1>3, PlayersDrainNot
<1>5. PICK tt : tt = WithPc(ft, ft[Len(ft)].pc + 1)
  OBVIOUS
<1>6. /\ Fits(tt) /\ FirstStays(ft, tt) /\ Len(tt) = Len(ft) /\ DOMAIN tt = DOMAIN ft
      /\ \A i \in DOMAIN tt : tt[i].does = ft[i].does /\ tt[i].code = ft[i].code
      /\ \A m, what : PastIn(tt, m, what) <=> PastIn(ft, m, what) \/ (m = p /\ what = "drain")
  BY <1>2, <1>3, <1>5, NextGoes
<1>7. stack' = tt
  BY <1>2, <1>5
<1> HIDE <1>5
<1>8. PICK w : w = "drain"
  OBVIOUS
<1>9. \A m, what : PastIn(tt, m, what) <=> PastIn(stack, m, what) \/ (m = p /\ what = w)
  BY <1>2, <1>6, <1>8 DEF SamePast
<1>10. FirstStays(stack, tt)
  BY <1>2, <1>6 DEF FirstStays
<1>11. /\ quit' = quit /\ at' = at /\ queue = <<>> /\ queue' = queue /\ timers' = timers /\ moduleVars' = moduleVars
       /\ mods' = mods /\ threads' = threads /\ phase' = phase /\ left' = left /\ done' = done
  BY DEF DrainEnds, mainVars, moduleVars
<1>12. /\ phase = "running" => p \in Removable
       /\ phase = "unloading" => Len(ft) = 1
       /\ phase \in {"running", "unloading"}
  <2>1. UnloadOf(stack[Len(ft)], p)
    BY <1>2, <1>3
  <2>2. InPhase(stack)
    BY DEF ServerInv, Fits
  <2>3. Len(ft) \in DOMAIN stack /\ stack # <<>> /\ stack[Len(ft)].does = "unload" /\ stack[Len(ft)].code = {p}
    BY <1>2, <2>1 DEF UnloadOf
  <2>4. phase = "running" => p \in Removable
    <3>1. phase = "running" => stack[Len(ft)].code \subseteq Removable
      BY <2>2, <2>3 DEF InPhase
    <3> QED
      BY <2>3, <3>1
  <2>5. phase \in {"running", "unloading"}
    BY <2>2, <2>3 DEF InPhase
  <2>6. ASSUME phase = "unloading" PROVE Len(ft) = 1
    <3>1. \A i \in DOMAIN stack : i > 1 => stack[i].does # "unload"
      BY <2>2, <2>3, <2>6 DEF InPhase
    <3>2. ~(Len(ft) > 1)
      BY <2>3, <3>1
    <3>3. Len(ft) \in 1 .. Len(stack) /\ Len(stack) \in Nat
      BY <1>2, <2>3, TopIs
    <3>4. PICK n, k \in Nat : n = Len(ft) /\ n \in 1 .. k /\ ~(n > 1)
      BY <3>2, <3>3
    <3>5. n = 1
      BY <3>4
    <3> QED
      BY <3>4, <3>5
  <2> QED
    BY <2>4, <2>5, <2>6
<1>13. ASSUME NEW i \in DOMAIN tt, tt[i].does = "function" PROVE tt[i].code \notin CodesOf(p)
  <2>1. stack[i].does = "function" /\ tt[i].code = stack[i].code
    BY <1>2, <1>6, <1>13
  <2>2. tt[i].code = {"net"}
    BY <1>2, <1>6, <2>1 DEF Waits, AtDrain, UnloadOf
  <2>3. p # "net"
    <3>1. SUFFICES ASSUME p = "net" PROVE FALSE
      OBVIOUS
    <3>2. Len(ft) = 1
      BY <1>12, <3>1 DEF RemovalsFit
    <3>3. i = Len(ft)
      <4>1. i \in DOMAIN ft /\ DOMAIN ft = 1 .. Len(ft)
        BY <1>2, <1>6, <1>13
      <4> QED
        BY <3>2, <4>1
    <3>4. tt[i].does = "unload"
      BY <1>2, <1>3, <1>6, <1>13, <3>3 DEF UnloadOf
    <3> QED
      BY <1>13, <3>4
  <2> QED
    BY <2>2, <2>3 DEF CodesOf
<1>14. w = "drain" => \A i \in DOMAIN tt : tt[i].does = "function" => tt[i].code \notin CodesOf(p)
  BY <1>13
<1>15. Fits(tt)
  BY <1>6
<1>16. /\ Fits(stack)' /\ PhaseFits' /\ Loaded' = Loaded
       /\ \A m, what : Past(m, what)' <=> Past(m, what) \/ (m = p /\ what = w)
       /\ \A c : Backed(c) /\ (w = "drain" => c \notin CodesOf(p)) => Backed(c)'
       /\ w \notin {"unreg", "release"} /\ moduleVars' = moduleVars => ModuleInv'
       /\ w # "clear" /\ timers' = timers /\ FirstStays(stack, tt) => TimersFit'
       /\ w # "drain" /\ queue' = queue => QueueFits'
       /\ threads' = threads => /\ w \notin {"cancel", "join", "drain"} => ThreadsFit'
                                /\ done' = done => PersistFits'
  BY <1>7, <1>9, <1>11, <1>14, <1>15, SettlesNext
<1>17. ModuleInv' /\ TimersFit' /\ PersistFits'
  BY <1>8, <1>10, <1>11, <1>16
<1>18. QueueFits'
  BY <1>11 DEF ServerInv, QueueFits
<1>19. ThreadsFit /\ PersistFits
  BY DEF ServerInv
<1>20. \A t \in Threaded : Waiting(t) => t # p
  <2>1. p \in {"net", "mysql"} => Past(p, "cancel")
    <3>1. ASSUME NEW k \in DOMAIN Steps(p), Steps(p)[k] = "cancel", k < ft[Len(ft)].pc PROVE Past(p, "cancel")
      BY <1>2, <1>3, <3>1 DEF Past, PastIn
    <3>2. p = "net" => ft[Len(ft)].pc = 4
      BY <1>3, StepsAre
    <3>3. p = "mysql" => ft[Len(ft)].pc = 3
      BY <1>3, StepsAre
    <3> QED
      BY <3>1, <3>2, <3>3, HaveSteps
  <2>2. p = "persist" => phase = "unloading"
    BY <1>12 DEF RemovalsFit
  <2>3. p = "persist" => ~Waiting(p)
    BY <1>19, <2>2 DEF PersistFits, Quiet, Waiting, Middle
  <2>4. p \in {"net", "mysql"} => ~Waiting(p)
    BY <1>19, <2>1 DEF ThreadsFit, Threaded, Alive, Waiting
  <2> QED
    BY <2>3, <2>4 DEF Threaded
<1>21. \A m, what : what # "drain" => (Alive(m, what)' <=> Alive(m, what))
  BY <1>8, <1>16 DEF Alive
<1>22. ThreadsFit'
  <2>1. ASSUME NEW t \in Threaded
        PROVE  /\ threads[t].at # "none" => Alive(t, "cancel")' /\ Alive(t, "join")'
               /\ IF Waiting(t) THEN threads[t].code \in CodesOf(t) /\ Backed(threads[t].code)' ELSE threads[t].code = {}
    <3>1. /\ threads[t].at # "none" => Alive(t, "cancel") /\ Alive(t, "join")
          /\ IF Waiting(t) THEN threads[t].code \in CodesOf(t) /\ Backed(threads[t].code) ELSE threads[t].code = {}
      BY <1>19 DEF ThreadsFit
    <3>2. PICK c : c = threads[t].code
      OBVIOUS
    <3>3. Waiting(t) => c \notin CodesOf(p)
      BY <1>4, <1>20, <3>1, <3>2, CodesApart
    <3>4. Waiting(t) => Backed(c)'
      BY <1>16, <3>1, <3>2, <3>3
    <3>5. c = threads'[t].code
      BY <1>11, <3>2
    <3>6. Waiting(t) => Backed(threads[t].code)'
      BY <3>4, <3>5
    <3> QED
      BY <1>21, <3>1, <3>6
  <2> QED
    BY <1>11, <1>19, <2>1 DEF ThreadsFit, Waiting
<1> QED
  BY <1>16, <1>17, <1>18, <1>22 DEF ServerInv

LEMMA DrainEndsKeeps ==
    ASSUME ServerInv, Modules \subseteq Names, RemovalsFit, DrainEnds, UNCHANGED <<moduleVars, threads, mainVars>>
    PROVE  ServerInv'
BY DrainIs, ArenaDrainEndsKeeps, ModuleDrainEndsKeeps

----------------------------------------------------------------------------
(* Timers and turns.                                                       *)

LEMMA CallTimerKeeps ==
    ASSUME ServerInv, Modules \subseteq Names, NEW t, t \in timers, CallTimer(t), phase \in {"running", "unloading"},
           UNCHANGED <<moduleVars, threads, mainVars>>
    PROVE  ServerInv'
<1>1. /\ stack = <<>> /\ at = "timers" /\ quit' = quit /\ at' = at /\ queue' = queue
      /\ timers' = (timers \ {t}) \cup {[t EXCEPT !.running = TRUE]} /\ stack' = Append(stack, Call("timer", {t.mod}))
      /\ threads' = threads /\ moduleVars' = moduleVars /\ phase' = phase /\ left' = left /\ done' = done
  BY DEF CallTimer, Push, mainVars
<1>2. TimersFit /\ PhaseFits /\ Fits(stack)
  BY DEF ServerInv
<1>3. phase = "running"
  BY <1>1, <1>2 DEF PhaseFits
<1>4. /\ t \in [mod : Modules, running : BOOLEAN, killme : BOOLEAN]
      /\ t.mod = "directory" \/ ("timer" \in Programs[t.mod].starts /\ Alive(t.mod, "clear"))
  BY <1>2 DEF TimersFit
<1>5. t.mod \in Modules /\ t.mod \in Loaded \cup {"directory"}
  BY <1>4 DEF Alive
<1>6. PICK c : c = Call("timer", {t.mod})
  OBVIOUS
<1>7. c \in Frame /\ c.does = "timer" /\ c.code = {t.mod}
  BY <1>5, <1>6 DEF Call, Frame
<1>8. stack' = Append(stack, c)
  BY <1>1, <1>6
<1> HIDE <1>6
<1>9. Goes(stack, Append(stack, c))
  BY <1>1, <1>2, <1>3, <1>5, <1>7, PushGoes
<1>10. PICK tt : tt = Append(stack, c)
  OBVIOUS
<1>11. tt # <<>> /\ tt[1] = c
  BY <1>1, <1>10
<1>12. Fits(tt) /\ SamePast(tt, stack) /\ stack' = tt
  BY <1>8, <1>9, <1>10 DEF Goes
<1> HIDE <1>10
<1>13. /\ Fits(stack)' /\ PhaseFits' /\ ModuleInv' /\ QueueFits' /\ ThreadsFit' /\ PersistFits'
       /\ Loaded' = Loaded /\ \A m, what : Past(m, what)' <=> Past(m, what)
  BY <1>1, <1>12, Settles
<1>14. TimersFit'
  <2>1. \A m, what : Alive(m, what)' <=> Alive(m, what)
    BY <1>13 DEF Alive
  <2>2. ASSUME NEW u \in timers
        PROVE  /\ u \in [mod : Modules, running : BOOLEAN, killme : BOOLEAN] /\ u.running = FALSE
               /\ u.mod = "directory" \/ ("timer" \in Programs[u.mod].starts /\ Alive(u.mod, "clear"))'
    BY <1>1, <1>2, <2>1, <2>2 DEF TimersFit
  <2>3. PICK r : r = [t EXCEPT !.running = TRUE]
    OBVIOUS
  <2>4. /\ r \in [mod : Modules, running : BOOLEAN, killme : BOOLEAN] /\ r.mod = t.mod
    BY <1>4, <2>3
  <2>5. r.mod = "directory" \/ ("timer" \in Programs[r.mod].starts /\ Alive(r.mod, "clear"))'
    BY <2>2, <2>4
  <2>6. timers' \subseteq timers \cup {r}
    BY <1>1, <2>3
  <2>7. stack' # <<>> /\ stack'[1].does = "timer" /\ stack'[1].code = {r.mod}
    BY <1>7, <1>11, <1>12, <2>4
  <2> HIDE <2>3
  <2> QED
    BY <2>2, <2>4, <2>5, <2>6, <2>7 DEF TimersFit
<1> QED
  BY <1>13, <1>14 DEF ServerInv

LEMMA TimerReturnsKeeps ==
    ASSUME ServerInv, TimerReturns, UNCHANGED <<moduleVars, threads, mainVars>>
    PROVE  ServerInv'
<1>1. stack # <<>>
  BY EmptyTop DEF TimerReturns
<1>2. stack[Len(stack)].does = "timer"
  BY <1>1, TopIs DEF TimerReturns
<1>3. Fits(stack) /\ TimersFit
  BY DEF ServerInv
<1>4. PICK tt : tt = Front(stack)
  OBVIOUS
<1>5. Fits(tt) /\ SamePast(tt, stack)
  BY <1>1, <1>2, <1>3, <1>4, PopGoes
<1>6. /\ stack' = tt /\ quit' = quit /\ at' = at /\ queue' = queue
      /\ timers' = {[t EXCEPT !.running = FALSE] : t \in {u \in timers : ~u.killme}}
      /\ threads' = threads /\ phase' = phase /\ left' = left /\ done' = done
  BY <1>4 DEF TimerReturns, Pop, mainVars
<1> HIDE <1>4
<1>7. /\ Fits(stack)' /\ PhaseFits' /\ ModuleInv' /\ QueueFits' /\ ThreadsFit' /\ PersistFits'
      /\ Loaded' = Loaded /\ \A m, what : Past(m, what)' <=> Past(m, what)
  BY <1>5, <1>6, Settles
<1>8. TimersFit'
  <2>1. \A m, what : Alive(m, what)' <=> Alive(m, what)
    BY <1>7 DEF Alive
  <2>2. ASSUME NEW t \in timers, NEW r, r = [t EXCEPT !.running = FALSE]
        PROVE  /\ r \in [mod : Modules, running : BOOLEAN, killme : BOOLEAN] /\ r.running = FALSE
               /\ r.mod = "directory" \/ ("timer" \in Programs[r.mod].starts /\ Alive(r.mod, "clear"))'
    <3>1. /\ t \in [mod : Modules, running : BOOLEAN, killme : BOOLEAN]
          /\ t.mod = "directory" \/ ("timer" \in Programs[t.mod].starts /\ Alive(t.mod, "clear"))'
      BY <1>3, <2>1, <2>2 DEF TimersFit
    <3>2. r \in [mod : Modules, running : BOOLEAN, killme : BOOLEAN] /\ r.running = FALSE /\ r.mod = t.mod
      BY <2>2, <3>1
    <3> QED
      BY <3>1, <3>2
  <2>3. \A r \in timers' : \E t \in timers : r = [t EXCEPT !.running = FALSE]
    BY <1>6
  <2> QED
    BY <2>2, <2>3 DEF TimersFit
<1> QED
  BY <1>7, <1>8 DEF ServerInv

\* RunLoop goes on to another part of its turn.
LEMMA TurnKeeps ==
    ASSUME ServerInv, stack = <<>>, phase = "running", at' \in {"call", "timers", "rest", "returned"},
           at' = "returned" => quit, UNCHANGED <<quit, stack, queue, timers, moduleVars, threads, mainVars>>
    PROVE  ServerInv'
<1>1. /\ mods' = mods /\ moduleVars' = moduleVars /\ phase' = phase /\ left' = left /\ done' = done
      /\ Loaded' = Loaded /\ quit' = quit /\ stack' = stack /\ queue' = queue /\ timers' = timers /\ threads' = threads
  BY DEF moduleVars, mainVars, Loaded
<1>2. \A m, what : Past(m, what)' <=> Past(m, what)
  BY <1>1 DEF Past
<1>3. \A m, what : Alive(m, what)' <=> Alive(m, what)
  BY <1>1, <1>2 DEF Alive
<1>4. \A c : Backed(c)' <=> Backed(c)
  BY <1>1, <1>3 DEF Backed
<1>5. Fits(stack)'
  BY <1>1, <1>4 DEF ServerInv, Fits, StackFits, InPhase
<1>6. PhaseFits'
  BY <1>1 DEF ServerInv, PhaseFits
<1>7. ModuleInv'
  BY <1>1, <1>2, ModulesKeep DEF ServerInv
<1>8. TimersFit'
  BY <1>1, <1>3 DEF ServerInv, TimersFit
<1>9. QueueFits' /\ ThreadsFit'
  BY <1>1, <1>3, <1>4 DEF ServerInv, QueueFits, ThreadsFit, Waiting
<1>10. PersistFits'
  BY <1>1 DEF ServerInv, PersistFits, Quiet
<1> QED
  BY <1>5, <1>6, <1>7, <1>8, <1>9, <1>10 DEF ServerInv

LEMMA LoopStepKeeps ==
    ASSUME ServerInv, Modules \subseteq Names, RemovalsFit, LoopStep, phase \in {"running", "unloading"},
           UNCHANGED <<moduleVars, threads, mainVars>>
    PROVE  ServerInv'
<1>1. PhaseFits
  BY DEF ServerInv
<1>2. ASSUME TimersNext PROVE ServerInv'
  BY <1>1, <1>2, TurnKeeps DEF TimersNext, PhaseFits
<1>3. ASSUME TimersDone PROVE ServerInv'
  BY <1>1, <1>3, TurnKeeps DEF TimersDone, PhaseFits
<1>4. ASSUME NextTurn PROVE ServerInv'
  BY <1>1, <1>4, TurnKeeps DEF NextTurn, PhaseFits
<1> QED
  BY <1>2, <1>3, <1>4, CallNextKeeps, FunctionReturnsKeeps, DrainEndsKeeps, TimerReturnsKeeps, CallTimerKeeps DEF LoopStep

LEMMA UnloadStepKeeps ==
    ASSUME ServerInv, Modules \subseteq Names, RemovalsFit, UnloadStep
    PROVE  ServerInv'
BY UnregisterKeeps, RefuseKeeps, ClearTimerKeeps, WaitRunInMainDrainKeeps, CancelKeeps, JoinKeeps,
   ReleaseInterfacesKeeps, ShutDownKeeps, UnloadedKeeps DEF UnloadStep

----------------------------------------------------------------------------
(* A module is loaded.                                                     *)

\* A module that is not loaded is not being unloaded.
LEMMA UnloadedNotPast ==
    ASSUME ServerInv, NEW m, m \notin Loaded
    PROVE  \A what : ~Past(m, what)
<1>1. \A i \in DOMAIN stack : ~UnloadOf(stack[i], m)
  BY DEF ServerInv, Fits, StackFits, UnloadOf
<1> QED
  BY <1>1 DEF Past, PastIn

Loads(m) ==
    /\ mods' = Append(mods, m)
    /\ held' = [held EXCEPT ![m] = Programs[m].gets \cap registered]
    /\ refs' = Counted(Programs[m].gets \cap registered, 1)
    /\ registered' = registered \cup ({m} \ Mute)
    /\ IF "timer" \in Programs[m].starts THEN timers' = timers \cup {Timer(m)} ELSE timers' = timers
    /\ IF "thread" \in Programs[m].starts THEN threads' = [threads EXCEPT ![m].at = "idle"] ELSE threads' = threads

\* When a module may be loaded: in the order of modules.conf, or again.
MayLoad(m) ==
    /\ m \in Modules /\ m \notin Loaded /\ Programs[m].must \cap Modules \subseteq registered
    /\ \/ phase = "loading" /\ Len(mods) < Len(Conf) /\ m = Conf[Len(mods) + 1]
       \/ phase = "running" /\ m \in Removable

LEMMA LoadIs ==
    ASSUME NEW m, Programs[m].must \cap Modules \subseteq registered, Load(m)
    PROVE  Loads(m)
BY DEF Load, Loads, RegInterface, StartTimer

LEMMA LoadedModsFit ==
    ASSUME ServerInv, ConfFits, RemovalsFit, NEW m, MayLoad(m), Loads(m), phase' = phase
    PROVE  /\ ModsFit' /\ Loaded' = Loaded \cup {m}
           /\ Len(mods) \in Nat /\ DOMAIN mods = 1 .. Len(mods) /\ DOMAIN mods' = 1 .. Len(mods) + 1
           /\ mods'[Len(mods) + 1] = m /\ \A i \in DOMAIN mods : mods'[i] = mods[i]
<1>1. ModsFit
  BY DEF ServerInv, ModuleInv
<1>2. mods' = Append(mods, m) /\ mods \in Seq(Modules) /\ m \in Modules /\ m \notin Loaded
  BY <1>1 DEF Loads, MayLoad, ModsFit
<1>3. /\ mods' \in Seq(Modules) /\ Len(mods') = Len(mods) + 1
      /\ DOMAIN mods' = 1 .. Len(mods) + 1 /\ DOMAIN mods = 1 .. Len(mods) /\ Len(mods) \in Nat
      /\ (\A i \in DOMAIN mods : mods'[i] = mods[i]) /\ mods'[Len(mods) + 1] = m
  BY <1>2
<1>4. \A i \in DOMAIN mods' : i \in DOMAIN mods \/ i = Len(mods) + 1
  BY <1>3
<1>5. \A i \in DOMAIN mods : i < Len(mods) + 1 /\ mods[i] # m /\ mods[i] \in Loaded
  BY <1>2, <1>3 DEF Loaded, ToSet
<1>6. Loaded' = Loaded \cup {m}
  <2>1. ToSet(mods') = ToSet(mods) \cup {m}
    BY <1>3, <1>4 DEF ToSet
  <2> QED
    BY <2>1 DEF Loaded
<1>7. \A i, j \in DOMAIN mods' : mods'[i] = mods'[j] => i = j
  BY <1>1, <1>3, <1>4, <1>5 DEF ModsFit
<1>8. phase = "loading" => Len(mods') <= Len(Conf) /\ \A i \in DOMAIN mods' : mods'[i] = Conf[i]
  <2>1. ASSUME phase = "loading" PROVE Len(mods) + 1 <= Len(Conf) /\ m = Conf[Len(mods) + 1]
    BY <1>3, <2>1 DEF MayLoad, ConfFits
  <2> QED
    BY <1>1, <1>3, <1>4, <2>1 DEF ModsFit
<1>9. LateOf(m) \cap Loaded = {}
  <2>1. CASE phase = "running"
    BY <2>1 DEF MayLoad, RemovalsFit, LateOf
  <2>2. CASE phase = "loading"
    <3>1. SUFFICES ASSUME NEW x, x \in LateOf(m), x \in Loaded PROVE FALSE
      OBVIOUS
    <3>2. PICK b \in DOMAIN mods : mods[b] = x
      BY <3>1 DEF Loaded, ToSet
    <3>3. Conf \in Seq(Modules) /\ b \in DOMAIN mods
      BY <3>2 DEF ConfFits
    <3>4. Conf[b] = x /\ Len(mods) < Len(Conf) /\ m = Conf[Len(mods) + 1]
      BY <1>1, <2>2, <3>2 DEF ModsFit, MayLoad
    <3>5. b \in DOMAIN Conf /\ Len(mods) + 1 \in DOMAIN Conf
      BY <1>3, <3>3, <3>4
    <3>6. Len(mods) + 1 < b
      BY <3>1, <3>4, <3>5 DEF ConfFits
    <3> QED
      BY <1>3, <3>3, <3>6
  <2> QED
    BY <2>1, <2>2 DEF MayLoad
<1>10. \A a, b \in DOMAIN mods' : mods'[b] \in LateOf(mods'[a]) => a < b
  <2>1. ASSUME NEW a \in DOMAIN mods, NEW b \in DOMAIN mods', mods'[b] \in LateOf(mods'[a]) PROVE a < b
    BY <1>1, <1>3, <1>4, <1>5, <2>1 DEF ModsFit
  <2>2. ASSUME NEW b \in DOMAIN mods' PROVE mods'[b] \notin LateOf(m)
    <3>1. m \notin LateOf(m)
      BY DEF LateOf
    <3> QED
      BY <1>3, <1>4, <1>5, <1>9, <3>1
  <2> QED
    BY <1>3, <1>4, <2>1, <2>2
<1>11. phase' \in Holding => ToSet(Conf) \ Removable \subseteq Loaded'
  BY <1>1, <1>6 DEF ModsFit
<1>12. ModsFit'
  BY <1>3, <1>7, <1>8, <1>10, <1>11 DEF ModsFit
<1> QED
  BY <1>3, <1>6, <1>12

LEMMA LoadedModuleInv ==
    ASSUME ServerInv, ConfFits, RemovalsFit, NEW m, MayLoad(m), Loads(m), phase' = phase,
           \A n, what : Past(n, what)' <=> Past(n, what)
    PROVE  ModuleInv'
<1>1. ModsFit /\ RegisteredFits /\ HeldFits /\ RefsFit
  BY DEF ServerInv, ModuleInv
<1>2. /\ ModsFit' /\ Loaded' = Loaded \cup {m}
      /\ Len(mods) \in Nat /\ DOMAIN mods = 1 .. Len(mods) /\ DOMAIN mods' = 1 .. Len(mods) + 1
      /\ mods'[Len(mods) + 1] = m /\ \A i \in DOMAIN mods : mods'[i] = mods[i]
  BY LoadedModsFit
<1>3. /\ m \in Modules /\ m \notin Loaded /\ Programs[m].must \cap Modules \subseteq registered
      /\ m \in Names /\ Modules \subseteq Names
  BY DEF MayLoad, ConfFits
<1>4. \A what : ~Past(m, what)
  BY <1>3, UnloadedNotPast
<1>5. registered \subseteq Loaded /\ registered \subseteq Modules \ Mute
  BY <1>1 DEF RegisteredFits, Alive
<1>6. RegisteredFits'
  <2>1. registered' = registered \cup ({m} \ Mute)
    BY DEF Loads
  <2>2. \A n \in registered' : Alive(n, "unreg")'
    BY <1>1, <1>2, <1>4, <2>1 DEF RegisteredFits, Alive
  <2>3. \A n \in Loaded' \ Mute : ~Past(n, "unreg")' => n \in registered'
    BY <1>1, <1>2, <2>1 DEF RegisteredFits
  <2> QED
    BY <1>3, <1>5, <2>1, <2>2, <2>3 DEF RegisteredFits
<1>7. /\ held' \in [Modules -> SUBSET Modules] /\ held'[m] = Programs[m].gets \cap registered
      /\ \A n \in Modules : n # m => held'[n] = held[n]
  BY <1>1, <1>3, <1>5 DEF Loads, HeldFits
<1>8. \A n : GotLate(n)' = GotLate(n)
  BY DEF GotLate
<1>9. Loaded \subseteq Modules
  BY <1>1 DEF ModsFit, Loaded, ToSet
<1>10. ASSUME NEW n \in Loaded'
       PROVE  /\ held'[n] \subseteq Programs[n].gets \cup GotLate(n)
              /\ Programs[n].must \cap Modules \subseteq held'[n]
              /\ ~Past(n, "release") => held'[n] \subseteq registered
  <2>1. CASE n = m
    <3>1. Programs[m].must \subseteq Programs[m].gets
      BY <1>3, NeedsAreMet DEF NeedsFit
    <3> QED
      BY <1>3, <1>7, <2>1, <3>1
  <2>2. CASE n \in Loaded
    BY <1>1, <1>3, <1>7, <1>9, <2>2 DEF HeldFits
  <2> QED
    BY <1>2, <2>1, <2>2
<1>11. ASSUME NEW a \in DOMAIN mods', NEW b \in DOMAIN mods',
              mods'[b] \in held'[mods'[a]], ~Past(mods[a], "release")'
       PROVE  b < a \/ (mods[b] \in GotLate(mods[a]))'
  <2>1. PICK n : n = mods'[a]
    OBVIOUS
  <2>2. n \in Loaded' /\ ~Past(n, "release")
    <3>1. ~Past(n, "release")'
      BY <1>11, <2>1 DEF Past
    <3>2. n \in Loaded'
      BY <1>11, <2>1 DEF Loaded, ToSet
    <3> QED
      BY <1>2, <3>1, <3>2
  <2>3. mods'[b] \in Loaded /\ mods'[b] # m
    BY <1>3, <1>5, <1>10, <1>11, <2>1, <2>2
  <2>4. b \in DOMAIN mods
    BY <1>2, <1>11, <2>3
  <2>5. CASE a = Len(mods) + 1
    BY <1>2, <2>4, <2>5
  <2>6. CASE a \in DOMAIN mods
    <3>1. mods[a] = n /\ mods'[b] = mods[b] /\ n # m
      BY <1>2, <1>3, <2>1, <2>4, <2>6 DEF Loaded, ToSet
    <3>2. mods[b] \in held[mods[a]] /\ ~Past(mods[a], "release")
      BY <1>2, <1>7, <1>9, <1>11, <2>1, <2>2, <3>1
    <3>3. b < a \/ mods[b] \in GotLate(mods[a])
      BY <1>1, <2>4, <2>6, <3>2 DEF HeldFits
    <3> QED
      BY <2>1, <3>1, <3>3 DEF GotLate
  <2> QED
    BY <1>2, <1>11, <2>5, <2>6
<1>12. HeldFits'
  <2>1. registered \subseteq registered'
    BY DEF Loads
  <2> QED
    BY <1>2, <1>7, <1>8, <1>10, <1>11, <2>1 DEF HeldFits
<1>13. ~Refused
  BY <1>3 DEF Refused, MayLoad
<1>14. RefsFit'
  <2>1. ASSUME NEW i \in Modules PROVE refs'[i] = Cardinality(Holders(i)') + Own(i)'
    <3>1. Holders(i) \subseteq Modules /\ m \notin Holders(i)
      BY <1>3, <1>9 DEF Holders
    <3>2. Holders(i)' = IF i \in Programs[m].gets \cap registered THEN Holders(i) \cup {m} ELSE Holders(i)
      BY <1>2, <1>3, <1>4, <1>7, <1>9 DEF Holders
    <3>3. IsFiniteSet(Holders(i)) /\ Cardinality(Holders(i)) \in Nat
      BY <1>3, <3>1, ModulesFinite
    <3>4. Cardinality(Holders(i) \cup {m}) = Cardinality(Holders(i)) + 1
      BY <3>1, <3>3, FS_AddElement
    <3>5. refs[i] = Cardinality(Holders(i)) + Own(i) /\ refs[i] \in Int
      BY <1>1, <1>13 DEF RefsFit
    <3>6. refs'[i] = IF i \in Programs[m].gets \cap registered THEN refs[i] + 1 ELSE refs[i]
      BY DEF Loads, Counted
    <3>7. Own(i)' = Own(i) /\ Own(i) \in {0, 1}
      BY DEF Own
    <3>8. CASE i \in Programs[m].gets \cap registered
      <4>1. Cardinality(Holders(i)') = Cardinality(Holders(i)) + 1
        BY <3>2, <3>4, <3>8
      <4> QED
        BY <3>3, <3>5, <3>6, <3>7, <3>8, <4>1
    <3>9. CASE i \notin Programs[m].gets \cap registered
      <4>1. Cardinality(Holders(i)') = Cardinality(Holders(i))
        BY <3>2, <3>9
      <4> QED
        BY <3>3, <3>5, <3>6, <3>7, <3>9, <4>1
    <3> QED
      BY <3>8, <3>9
  <2>2. refs' \in [Modules -> Int]
    BY <1>1 DEF Loads, Counted, RefsFit
  <2>3. \A i \in Modules : refs'[i] \in Int
    BY <2>2
  <2> QED
    BY <2>1, <2>2, <2>3 DEF RefsFit
<1> QED
  BY <1>2, <1>6, <1>12, <1>14 DEF ModuleInv

LEMMA LoadKeeps ==
    ASSUME ServerInv, ConfFits, RemovalsFit, NEW m, MayLoad(m), Loads(m), phase' = phase,
           quit' = quit, at' = at, left' = left, queue' = queue, done' = done,
           NEW tt, stack' = tt, Fits(tt), SamePast(tt, stack), FirstStays(stack, tt)
    PROVE  ServerInv'
<1>1. \A n, what : Past(n, what)' <=> Past(n, what)
  BY DEF SamePast, Past
<1>2. ModuleInv'
  BY <1>1, LoadedModuleInv
<1>3. Loaded' = Loaded \cup {m}
  BY LoadedModsFit
<1>4. /\ m \in Modules /\ m \notin Loaded /\ phase \in {"loading", "running"}
      /\ m \in Names /\ Modules \subseteq Names
  BY DEF MayLoad, ConfFits
<1>5. \A what : ~Past(m, what)
  BY <1>4, UnloadedNotPast
<1>6. \A n, what : Alive(n, what) => Alive(n, what)'
  BY <1>1, <1>3 DEF Alive
<1>7. \A what : Alive(m, what)'
  BY <1>1, <1>3, <1>5 DEF Alive
<1>8. ASSUME NEW c, Backed(c) PROVE Backed(c)'
  BY <1>3, <1>6, <1>8 DEF Backed
<1>9. PhaseFits /\ TimersFit /\ QueueFits /\ ThreadsFit /\ PersistFits
  BY DEF ServerInv
<1>10. StackFits(stack)'
  <2>1. ASSUME NEW i \in DOMAIN tt
        PROVE  /\ tt[i].does = "function" => Backed(tt[i].code)'
               /\ tt[i].does = "timer" => tt[i].code \subseteq Loaded' \cup {"directory"}
               /\ tt[i].does = "unload" => tt[i].code \subseteq Loaded'
    <3>1. PICK c : c = tt[i].code
      OBVIOUS
    <3>2. tt[i].does = "function" => Backed(c)'
      BY <1>8, <3>1 DEF Fits, StackFits
    <3>3. /\ tt[i].does = "timer" => tt[i].code \subseteq Loaded \cup {"directory"}
          /\ tt[i].does = "unload" => tt[i].code \subseteq Loaded
      BY DEF Fits, StackFits
    <3> QED
      BY <1>3, <3>1, <3>2, <3>3
  <2>2. Shape(tt)
    BY DEF Fits, StackFits
  <2> QED
    BY <2>1, <2>2 DEF StackFits
<1>11. InPhase(stack)'
  BY <1>4 DEF Fits, InPhase
<1>12. PhaseFits'
  BY <1>4, <1>9 DEF PhaseFits
<1>13. TimersFit'
  <2>1. ASSUME NEW t \in timers
        PROVE  /\ t \in [mod : Modules, running : BOOLEAN, killme : BOOLEAN]
               /\ t.mod = "directory" \/ ("timer" \in Programs[t.mod].starts /\ Alive(t.mod, "clear"))'
               /\ t.running => stack' # <<>> /\ stack'[1].does = "timer" /\ stack'[1].code = {t.mod}
    <3>1. /\ t \in [mod : Modules, running : BOOLEAN, killme : BOOLEAN]
          /\ t.mod = "directory" \/ ("timer" \in Programs[t.mod].starts /\ Alive(t.mod, "clear"))
          /\ t.running => stack # <<>> /\ stack[1].does = "timer" /\ stack[1].code = {t.mod}
      BY <1>9 DEF TimersFit
    <3> QED
      BY <1>6, <3>1 DEF FirstStays
  <2>2. PICK r : r = Timer(m)
    OBVIOUS
  <2>3. r \in [mod : Modules, running : BOOLEAN, killme : BOOLEAN] /\ r.mod = m /\ r.running = FALSE
    BY <1>4, <2>2 DEF Timer
  <2>4. timers' = timers \/ (timers' = timers \cup {r} /\ "timer" \in Programs[m].starts)
    BY <2>2 DEF Loads
  <2>5. Alive(r.mod, "clear")'
    BY <1>7, <2>3
  <2>6. "timer" \in Programs[m].starts => ("timer" \in Programs[r.mod].starts /\ Alive(r.mod, "clear"))'
    BY <2>3, <2>5
  <2> HIDE <2>2
  <2> QED
    BY <2>1, <2>3, <2>4, <2>6 DEF TimersFit
<1>14. QueueFits'
  BY <1>8, <1>9 DEF QueueFits
<1>15. \A c : Backed(c) => Backed(c)'
  BY <1>8
<1>16. \/ threads' = threads
       \/ m \in Threaded /\ threads' = [threads EXCEPT ![m].at = "idle"]
  BY <1>4, NeedsAreMet DEF Loads, NeedsFit
<1>17. ASSUME m \in Threaded PROVE threads[m] \in ThreadRecord /\ threads[m].at = "none" /\ threads[m].code = {}
  BY <1>4, <1>9, <1>17 DEF ThreadsFit, Waiting, Alive
<1>18. ThreadsFit' /\ threads'["persist"].asked = threads["persist"].asked /\ threads'["persist"].code = threads["persist"].code
  <2>1. CASE threads' = threads
    <3>1. ASSUME NEW t \in Threaded
          PROVE  /\ threads[t].at # "none" => Alive(t, "cancel")' /\ Alive(t, "join")'
                 /\ IF Waiting(t) THEN threads[t].code \in CodesOf(t) /\ Backed(threads[t].code)' ELSE threads[t].code = {}
      <4>1. /\ threads[t].at # "none" => Alive(t, "cancel") /\ Alive(t, "join")
            /\ IF Waiting(t) THEN threads[t].code \in CodesOf(t) /\ Backed(threads[t].code) ELSE threads[t].code = {}
        BY <1>9 DEF ThreadsFit
      <4>2. PICK c : c = threads[t].code /\ c = threads'[t].code
        BY <2>1
      <4>3. Backed(threads[t].code) => Backed(threads[t].code)'
        BY <1>15, <4>2
      <4> QED
        BY <1>6, <4>1, <4>3
    <3> QED
      BY <1>9, <2>1, <3>1 DEF ThreadsFit, Waiting
  <2>2. CASE m \in Threaded /\ threads' = [threads EXCEPT ![m].at = "idle"]
    <3>1. PICK r : r = [threads[m] EXCEPT !.at = "idle"]
      OBVIOUS
    <3>2. r \in ThreadRecord /\ r.at = "idle" /\ r.code = {} /\ r.asked = threads[m].asked
      BY <1>17, <2>2, <3>1 DEF ThreadRecord
    <3>3. threads' = [threads EXCEPT ![m] = r]
      BY <2>2, <3>1
    <3>4. \A t \in Threaded \ {m} : \A what : Alive(t, what) => Alive(t, what)'
      BY <1>6
    <3>5. r.at # "none" => Alive(m, "cancel")' /\ Alive(m, "join")'
      BY <1>7
    <3>6. /\ r.at \in {"adding", "calling"} => r.code \in CodesOf(m) /\ Backed(r.code)'
          /\ r.at \notin {"adding", "calling"} => r.code = {}
      BY <3>2
    <3>7. m = "mysql" => \A k \in DOMAIN r.asked : r.asked[k] = "mysql"
      BY <1>9, <3>2 DEF ThreadsFit
    <3>8. m \in Threaded
      BY <2>2
    <3>9. ThreadsFit
      BY <1>9
    <3> HIDE <3>1
    <3>10. ThreadsFit' /\ threads'[m] = r /\ \A t \in Threaded \ {m} : threads'[t] = threads[t]
      BY <1>15, <3>2, <3>3, <3>4, <3>5, <3>6, <3>7, <3>8, <3>9, ThreadSettles
    <3>11. "persist" \in Threaded
      BY DEF Threaded
    <3>12. CASE m = "persist"
      BY <1>17, <3>2, <3>8, <3>10, <3>12
    <3> QED
      BY <3>10, <3>11, <3>12
  <2> QED
    BY <1>16, <2>1, <2>2
<1>19. PersistFits'
  BY <1>3, <1>4, <1>9, <1>18 DEF PersistFits, Quiet, Middle
<1> QED
  BY <1>2, <1>10, <1>11, <1>12, <1>13, <1>14, <1>18, <1>19 DEF ServerInv, Fits

LEMMA LoadNextKeeps ==
    ASSUME ServerInv, ConfFits, RemovalsFit, LoadNext
    PROVE  ServerInv'
<1> DEFINE next == Conf[Len(mods) + 1]
<1>1. /\ phase = "loading" /\ Len(mods) < Len(Conf) /\ Load(next)
      /\ quit' = quit /\ at' = at /\ stack' = stack /\ queue' = queue
      /\ phase' = phase /\ left' = left /\ done' = done
  BY DEF LoadNext, mainVars
<1>2. ModsFit /\ RegisteredFits /\ HeldFits /\ RefsFit /\ Fits(stack)
  BY DEF ServerInv, ModuleInv
<1>3. PICK m : m = next
  OBVIOUS
<1>4. /\ m \in Modules /\ m \notin Loaded
  <2>1. Len(mods) \in Nat /\ DOMAIN mods = 1 .. Len(mods) /\ Conf \in Seq(Modules)
    BY <1>2 DEF ModsFit, ConfFits
  <2>2. Len(mods) + 1 \in DOMAIN Conf /\ \A i \in DOMAIN mods : i \in DOMAIN Conf /\ i # Len(mods) + 1 /\ mods[i] = Conf[i]
    BY <1>1, <1>2, <2>1 DEF ModsFit
  <2>3. m \in Modules
    BY <1>3, <2>1, <2>2
  <2>4. \A i \in DOMAIN mods : mods[i] # m
    BY <1>3, <2>2 DEF ConfFits
  <2> QED
    BY <2>3, <2>4 DEF Loaded, ToSet
<1>5. CASE Programs[m].must \cap Modules \subseteq registered
  <2>1. MayLoad(m)
    BY <1>1, <1>3, <1>4, <1>5 DEF MayLoad
  <2>2. Loads(m)
    BY <1>1, <1>3, <1>5, LoadIs
  <2>3. Fits(stack) /\ SamePast(stack, stack) /\ FirstStays(stack, stack)
    BY <1>2 DEF SamePast, FirstStays
  <2>4. PICK tt : tt = stack
    OBVIOUS
  <2>5. stack' = tt /\ Fits(tt) /\ SamePast(tt, stack) /\ FirstStays(stack, tt)
    BY <1>1, <2>3, <2>4
  <2> HIDE <2>4
  <2> QED
    BY <1>1, <2>1, <2>2, <2>5, LoadKeeps
<1>6. CASE ~(Programs[m].must \cap Modules \subseteq registered)
  <2>1. /\ refs' = IF GivesBack(m) THEN refs ELSE Counted(Programs[m].gets \cap registered, 1)
        /\ mods' = mods /\ held' = held /\ registered' = registered /\ timers' = timers /\ threads' = threads
    BY <1>1, <1>3, <1>6 DEF Load
  <2>2. \A n, what : Past(n, what)' <=> Past(n, what)
    BY <1>1 DEF Past
  <2>3. Loaded' = Loaded
    BY <2>1 DEF Loaded
  <2>4. \A n, what : Alive(n, what)' <=> Alive(n, what)
    BY <2>2, <2>3 DEF Alive
  <2>5. \A c : Backed(c)' <=> Backed(c)
    BY <2>3, <2>4 DEF Backed
  <2>6. ModsFit' /\ RegisteredFits' /\ HeldFits'
    <3>1. \A n : GotLate(n)' = GotLate(n)
      BY <1>1 DEF GotLate
    <3>2. ModsFit'
      BY <1>1, <1>2, <2>1, <2>3 DEF ModsFit
    <3>3. RegisteredFits'
      BY <1>2, <2>1, <2>2, <2>3, <2>4 DEF RegisteredFits
    <3>4. HeldFits'
      BY <1>2, <2>1, <2>2, <2>3, <3>1 DEF HeldFits
    <3> QED
      BY <3>2, <3>3, <3>4
  <2>7. RefsFit'
    <3>1. Refused'
      BY <1>1, <1>3, <1>6, <2>1 DEF Refused
    <3>2. \A i : Holders(i)' = Holders(i) /\ Own(i)' = Own(i)
      BY <1>1, <2>1, <2>2, <2>3 DEF Holders, Own
    <3>3. refs' \in [Modules -> Int]
      BY <1>2, <2>1 DEF RefsFit, Counted
    <3>4. ASSUME NEW i \in Modules PROVE refs'[i] >= Cardinality(Holders(i)) + Own(i)
      <4>1. Holders(i) \subseteq Modules
        BY <1>2 DEF Holders, Loaded, ToSet, ModsFit
      <4>2. Cardinality(Holders(i)) \in Nat /\ Own(i) \in {0, 1}
        BY <4>1, ModulesFinite DEF ConfFits, Own
      <4>3. refs[i] >= Cardinality(Holders(i)) + Own(i) /\ refs[i] \in Int
        BY <1>2 DEF RefsFit
      <4>4. refs'[i] = refs[i] \/ refs'[i] = refs[i] + 1
        BY <2>1 DEF Counted
      <4> QED
        BY <4>2, <4>3, <4>4
    <3> QED
      BY <3>1, <3>2, <3>3, <3>4 DEF RefsFit
  <2>8. Fits(stack)'
    BY <1>1, <1>2, <2>1, <2>3, <2>5 DEF Fits, StackFits, InPhase
  <2>9. PhaseFits' /\ TimersFit'
    BY <1>1, <2>1, <2>4 DEF ServerInv, PhaseFits, TimersFit
  <2>10. QueueFits' /\ ThreadsFit'
    BY <1>1, <2>1, <2>4, <2>5 DEF ServerInv, QueueFits, ThreadsFit, Waiting
  <2>11. PersistFits'
    BY <1>1, <2>1, <2>3 DEF ServerInv, PersistFits, Quiet
  <2> QED
    BY <2>6, <2>7, <2>8, <2>9, <2>10, <2>11 DEF ServerInv, ModuleInv
<1> QED
  BY <1>5, <1>6

----------------------------------------------------------------------------
(* The end of the server, before it unloads its modules.                   *)

\* The message of main goes the way of all others, and then main goes on.
LEMMA MiddleKeeps ==
    ASSUME ServerInv, stack = <<>>, phase \in Holding, phase' \in Middle, at = "returned",
           UNCHANGED <<loopVars, moduleVars, left>>, ThreadsFit', PersistFits'
    PROVE  ServerInv'
<1>1. /\ mods' = mods /\ moduleVars' = moduleVars /\ left' = left /\ at' = at
      /\ Loaded' = Loaded /\ quit' = quit /\ stack' = stack /\ queue' = queue /\ timers' = timers
  BY DEF moduleVars, loopVars, Loaded
<1>2. phase' \in Holding /\ phase \notin {"loading", "unloading", "ended"} /\ phase' \notin {"loading", "running", "unloading", "ended"}
  BY DEF Middle, Holding
<1>3. \A m, what : Past(m, what)' <=> Past(m, what)
  BY <1>1 DEF Past
<1>4. \A m, what : Alive(m, what)' <=> Alive(m, what)
  BY <1>1, <1>3 DEF Alive
<1>5. \A c : Backed(c)' <=> Backed(c)
  BY <1>1, <1>4 DEF Backed
<1>6. Fits(stack)'
  BY <1>1, <1>2, <1>5 DEF ServerInv, Fits, StackFits, InPhase
<1>7. PhaseFits'
  BY <1>1, <1>2 DEF ServerInv, PhaseFits
<1>8. ModuleInv'
  BY <1>1, <1>2, <1>3, ModulesKeep DEF ServerInv
<1>9. TimersFit'
  BY <1>1, <1>4 DEF ServerInv, TimersFit
<1>10. QueueFits'
  BY <1>1, <1>5 DEF ServerInv, QueueFits
<1> QED
  BY <1>6, <1>7, <1>8, <1>9, <1>10 DEF ServerInv

LEMMA ThreadsStay ==
    ASSUME ServerInv, UNCHANGED <<loopVars, moduleVars, threads>>
    PROVE  ThreadsFit'
<1>1. Loaded' = Loaded /\ stack' = stack /\ threads' = threads
  BY DEF moduleVars, loopVars, Loaded
<1>2. \A m, what : Past(m, what)' <=> Past(m, what)
  BY <1>1 DEF Past
<1>3. \A m, what : Alive(m, what)' <=> Alive(m, what)
  BY <1>1, <1>2 DEF Alive
<1>4. \A c : Backed(c)' <=> Backed(c)
  BY <1>1, <1>3 DEF Backed
<1> QED
  BY <1>1, <1>3, <1>4 DEF ServerInv, ThreadsFit, Waiting

LEMMA WaitingKeeps ==
    ASSUME ServerInv, LooksAtDone \/ FallsAsleep \/ WakesUp
    PROVE  ServerInv'
<1>1. /\ phase \in {"waiting", "dozing", "asleep"} /\ phase' \in Middle
      /\ phase' = "stopping" => done
      /\ UNCHANGED <<loopVars, moduleVars, threads, left, done>>
  BY DEF LooksAtDone, FallsAsleep, WakesUp, Middle
<1>2. stack = <<>> /\ at = "returned" /\ phase \in Holding
  BY <1>1 DEF ServerInv, Fits, InPhase, PhaseFits, Holding, Middle
<1>3. ThreadsFit'
  BY <1>1, ThreadsStay
<1>4. PersistFits
  BY DEF ServerInv
<1>5. Loaded' = Loaded
  BY <1>1 DEF moduleVars, Loaded
<1>6. PersistFits'
  BY <1>1, <1>4, <1>5 DEF PersistFits, Quiet, Middle
<1> QED
  BY <1>1, <1>2, <1>3, <1>6, MiddleKeeps

\* Somebody asks a thread for something.
LEMMA AsksSettles ==
    ASSUME ServerInv, NEW m \in {"persist", "mysql"}, NEW who \in Message, m = "mysql" => who = "mysql",
           Asks(m, who), \A t \in Threaded : \A what : Alive(t, what) => Alive(t, what)',
           \A c : Backed(c) => Backed(c)'
    PROVE  /\ ThreadsFit' /\ \A t \in Threaded \ {m} : threads'[t] = threads[t]
           /\ threads'[m].at = threads[m].at /\ threads'[m].code = threads[m].code
           /\ threads'[m].asked = Append(threads[m].asked, who) /\ threads[m].asked \in Seq(Message)
<1>1. ThreadsFit
  BY DEF ServerInv
<1>2. m \in Threaded
  BY DEF Threaded
<1>3. /\ threads[m] \in ThreadRecord
      /\ threads[m].at # "none" => Alive(m, "cancel") /\ Alive(m, "join")
      /\ IF Waiting(m) THEN threads[m].code \in CodesOf(m) /\ Backed(threads[m].code) ELSE threads[m].code = {}
  BY <1>1, <1>2 DEF ThreadsFit
<1>4. PICK r : r = [threads[m] EXCEPT !.asked = Append(threads[m].asked, who)]
  OBVIOUS
<1>5. /\ threads[m].asked \in Seq(Message) /\ r.asked = Append(threads[m].asked, who)
      /\ r.at = threads[m].at /\ r.code = threads[m].code /\ r \in ThreadRecord
  <2>1. /\ threads[m].at \in {"none", "idle", "adding", "calling"} /\ threads[m].asked \in Seq(Message)
        /\ threads[m].code \in SUBSET (Names \cup {"main"})
    BY <1>3 DEF ThreadRecord
  <2>2. PICK a : a = Append(threads[m].asked, who)
    OBVIOUS
  <2>3. a \in Seq(Message)
    BY <2>1, <2>2
  <2>4. r = [threads[m] EXCEPT !.asked = a]
    BY <1>4, <2>2
  <2> HIDE <1>4
  <2>5. r \in ThreadRecord /\ r.asked = a /\ r.at = threads[m].at /\ r.code = threads[m].code
    BY <1>3, <2>3, <2>4 DEF ThreadRecord
  <2> QED
    BY <2>1, <2>2, <2>5
<1>6. threads' = [threads EXCEPT ![m] = r]
  BY <1>1, <1>2, <1>4 DEF Asks, ThreadsFit
<1> HIDE <1>4
<1>7. r.at # "none" => Alive(m, "cancel")' /\ Alive(m, "join")'
  BY <1>2, <1>3, <1>5
<1>8. /\ r.at \in {"adding", "calling"} => r.code \in CodesOf(m) /\ Backed(r.code)'
      /\ r.at \notin {"adding", "calling"} => r.code = {}
  <2>1. PICK c : c = r.code
    OBVIOUS
  <2>2. Backed(c) => Backed(c)'
    OBVIOUS
  <2> QED
    BY <1>3, <1>5, <2>1, <2>2 DEF Waiting
<1>9. m = "mysql" => \A k \in DOMAIN r.asked : r.asked[k] = "mysql"
  BY <1>1, <1>5 DEF ThreadsFit
<1>10. \A t \in Threaded \ {m} : \A what : Alive(t, what) => Alive(t, what)'
  OBVIOUS
<1>11. \A c : Backed(c) => Backed(c)'
  OBVIOUS
<1>12. ThreadsFit' /\ threads'[m] = r /\ \A t \in Threaded \ {m} : threads'[t] = threads[t]
  BY <1>1, <1>2, <1>5, <1>6, <1>7, <1>8, <1>9, <1>10, <1>11, ThreadSettles
<1> QED
  BY <1>5, <1>12

LEMMA StabilizeKeeps ==
    ASSUME ServerInv, Modules \subseteq Names, Stabilize
    PROVE  ServerInv'
<1>1. /\ phase = "running" /\ at = "returned" /\ UNCHANGED <<loopVars, moduleVars, left>> /\ done' = done
      /\ \/ "persist" \in registered /\ Asks("persist", "main") /\ phase' = "waiting"
         \/ "persist" \notin registered /\ phase' = "stopping" /\ threads' = threads
  BY DEF Stabilize
<1>2. stack = <<>> /\ phase \in Holding /\ phase' \in Middle
  BY <1>1 DEF ServerInv, Fits, InPhase, Holding, Middle
<1>3. Loaded' = Loaded /\ stack' = stack
  BY <1>1 DEF moduleVars, loopVars, Loaded
<1>4. \A m, what : Past(m, what)' <=> Past(m, what)
  BY <1>3 DEF Past
<1>5. \A m, what : Alive(m, what)' <=> Alive(m, what)
  BY <1>3, <1>4 DEF Alive
<1>6. \A c : Backed(c)' <=> Backed(c)
  BY <1>3, <1>5 DEF Backed
<1>7. PersistFits /\ ThreadsFit /\ RegisteredFits
  BY DEF ServerInv, ModuleInv
<1>8. CASE "persist" \in registered /\ Asks("persist", "main") /\ phase' = "waiting"
  <2>1. \A t \in Threaded : \A what : Alive(t, what) => Alive(t, what)'
    BY <1>5
  <2>2. \A c : Backed(c) => Backed(c)'
    BY <1>6
  <2>3. "main" \in Message /\ "persist" \in {"persist", "mysql"} /\ ("persist" = "mysql" => "main" = "mysql")
    BY DEF Message
  <2>4. Asks("persist", "main")
    BY <1>8
  <2>5. /\ ThreadsFit' /\ threads'["persist"].code = threads["persist"].code
        /\ threads'["persist"].asked = Append(threads["persist"].asked, "main") /\ threads["persist"].asked \in Seq(Message)
    BY <2>1, <2>2, <2>3, <2>4, AsksSettles
  <2>6. PICK s, old : s = threads'["persist"].asked /\ old = threads["persist"].asked
    OBVIOUS
  <2>7. /\ s # <<>> /\ Len(s) = Len(old) + 1 /\ DOMAIN s = 1 .. Len(old) + 1 /\ Len(old) \in Nat /\ DOMAIN old = 1 .. Len(old)
        /\ s[Len(old) + 1] = "main" /\ \A k \in DOMAIN old : s[k] = old[k]
    BY <2>5, <2>6
  <2>8. \A k \in DOMAIN s : k \in DOMAIN old \/ k = Len(old) + 1
    BY <2>7
  <2>9. /\ ~done /\ threads["persist"].code # {"persist", "main"}
        /\ \A k \in DOMAIN old : old[k] # "main" /\ old[k] # "mysql" /\ old[k] \in Loaded
    BY <1>1, <1>7, <2>6 DEF PersistFits
  <2>10. \A k \in DOMAIN s : s[k] # "mysql" /\ s[k] \in Loaded \cup {"main"}
    BY <2>7, <2>8, <2>9
  <2>11. \A k \in DOMAIN s : s[k] = "main" <=> k = Len(s)
    BY <2>7, <2>8, <2>9
  <2>12. PersistFits'
    <3>1. PICK q : q = threads'["persist"]
      OBVIOUS
    <3>2. /\ q.asked = s /\ q.code # {"persist", "main"} /\ done' = FALSE /\ s # <<>> /\ phase' = "waiting"
      BY <1>1, <1>7, <1>8, <2>5, <2>6, <2>7, <2>9, <3>1 DEF PersistFits
    <3>3. \A k \in DOMAIN q.asked : q.asked[k] # "mysql"
      BY <2>10, <3>2
    <3>4. \A k \in DOMAIN q.asked : q.asked[k] \in Loaded' \cup {"main"}
      BY <1>3, <2>10, <3>2
    <3>5. \A k \in DOMAIN q.asked : q.asked[k] = "main" <=> k = Len(q.asked)
      BY <2>11, <3>2
    <3>6. q.asked # <<>>
      BY <3>2
    <3> HIDE <2>5
    <3> QED
      BY <3>1, <3>2, <3>3, <3>4, <3>5, <3>6 DEF PersistFits
  <2> QED
    BY <1>1, <1>2, <2>5, <2>12, MiddleKeeps
<1>9. CASE "persist" \notin registered /\ phase' = "stopping" /\ threads' = threads
  <2>1. ThreadsFit'
    BY <1>1, <1>9, ThreadsStay
  <2>2. ~Past("persist", "unreg")
    BY <1>2 DEF Past, PastIn
  <2>3. threads["persist"].at = "none"
    <3>1. "persist" \notin Loaded
      BY <1>7, <1>9, <2>2 DEF RegisteredFits, Mute
    <3> QED
      BY <1>7, <3>1 DEF ThreadsFit, Threaded, Alive
  <2>4. PersistFits'
    BY <1>1, <1>3, <1>7, <1>9, <2>3 DEF PersistFits, Quiet
  <2> QED
    BY <1>1, <1>2, <2>1, <2>4, MiddleKeeps
<1> QED
  BY <1>1, <1>8, <1>9

----------------------------------------------------------------------------
(* The threads.                                                            *)

\* Nothing changes but the queue, what the threads do and what the workers do.
LEMMA Stays ==
    ASSUME ServerInv, moduleVars' = moduleVars, phase' = phase, left' = left, at' = at, quit' \in {quit, TRUE},
           stack' = stack, timers' = timers
    PROVE  /\ Fits(stack)' /\ PhaseFits' /\ ModuleInv' /\ TimersFit' /\ Loaded' = Loaded
           /\ \A m, what : Past(m, what)' <=> Past(m, what)
           /\ \A m, what : Alive(m, what)' <=> Alive(m, what)
           /\ \A c : Backed(c)' <=> Backed(c)
           /\ queue' = queue => QueueFits'
           /\ threads' = threads => ThreadsFit' /\ (done' = done => PersistFits')
<1>1. Fits(stack)
  BY DEF ServerInv
<1>2. Goes(stack, stack)
  BY <1>1, GoesNowhere
<1>3. PICK tt : tt = stack
  OBVIOUS
<1>4. stack' = tt /\ Fits(tt) /\ SamePast(tt, stack) /\ FirstStays(stack, tt)
  BY <1>2, <1>3 DEF Goes
<1> HIDE <1>3
<1>5. /\ Fits(stack)' /\ PhaseFits' /\ ModuleInv' /\ TimersFit' /\ Loaded' = Loaded
      /\ \A m, what : Past(m, what)' <=> Past(m, what)
      /\ \A c : Backed(c)' <=> Backed(c)
      /\ queue' = queue => QueueFits'
      /\ threads' = threads => ThreadsFit' /\ (done' = done => PersistFits')
  BY <1>4, Settles
<1>6. \A m, what : Alive(m, what)' <=> Alive(m, what)
  BY <1>5 DEF Alive
<1> QED
  BY <1>5, <1>6

\* Another function at the end of the queue.
LEMMA QueueGrows ==
    ASSUME QueueFits, NEW c, Backed(c)
    PROVE  /\ Append(queue, c) \in Seq(UNION {CodesOf(m) : m \in Sponsors})
           /\ \A i \in DOMAIN Append(queue, c) : Backed(Append(queue, c)[i])
<1> DEFINE S == UNION {CodesOf(m) : m \in Sponsors}
<1>1. queue \in Seq(S)
  BY DEF QueueFits
<1>2. c \in S
  BY DEF Backed
<1> HIDE DEF S
<1>3. /\ Append(queue, c) \in Seq(S) /\ DOMAIN Append(queue, c) = 1 .. Len(queue) + 1 /\ DOMAIN queue = 1 .. Len(queue)
      /\ Len(queue) \in Nat /\ (\A i \in DOMAIN queue : Append(queue, c)[i] = queue[i]) /\ Append(queue, c)[Len(queue) + 1] = c
  BY <1>1, <1>2
<1>4. ASSUME NEW i \in DOMAIN Append(queue, c) PROVE Backed(Append(queue, c)[i])
  <2>1. CASE i \in DOMAIN queue
    BY <1>3, <2>1 DEF QueueFits
  <2>2. CASE i = Len(queue) + 1
    BY <1>3, <2>2
  <2> QED
    BY <1>3, <2>1, <2>2
<1> QED
  BY <1>3, <1>4 DEF S

\* What is not being unloaded has not got past anything.
LEMMA Undisturbed ==
    ASSUME ServerInv, NEW m, phase # "unloading", m \notin Removable
    PROVE  \A what : ~Past(m, what)
<1>1. \A i \in DOMAIN stack : ~UnloadOf(stack[i], m)
  BY DEF ServerInv, Fits, InPhase, UnloadOf
<1> QED
  BY <1>1 DEF Past, PastIn

\* Before they wait for the queue, net and mysql end their threads.
LEMMA DrainComesAfter ==
    ASSUME ServerInv, NEW m \in {"net", "mysql"}, Alive(m, "cancel")
    PROVE  Alive(m, "drain")
<1>1. ASSUME NEW i \in DOMAIN stack, UnloadOf(stack[i], m),
             NEW k \in DOMAIN Steps(m), k < stack[i].pc, Steps(m)[k] = "drain"
      PROVE  \E j \in DOMAIN Steps(m) : j < stack[i].pc /\ Steps(m)[j] = "cancel"
  <2>1. stack[i].pc \in Nat
    <3>1. stack \in Seq(Frame)
      BY DEF ServerInv, Fits, StackFits, Shape
    <3>2. stack[i] \in Frame
      BY <1>1, <3>1
    <3> QED
      BY <3>2 DEF Frame
  <2>2. CASE m = "net"
    <3>1. k = 4
      BY <1>1, <2>2, StepsAre
    <3> QED
      BY <1>1, <2>1, <2>2, <3>1, HaveSteps
  <2>3. CASE m = "mysql"
    <3>1. k = 3
      BY <1>1, <2>3, StepsAre
    <3> QED
      BY <1>1, <2>1, <2>3, <3>1, HaveSteps
  <2> QED
    BY <2>2, <2>3
<1> QED
  BY <1>1 DEF Alive, Past, PastIn

\* A thread is done with what it had main call.
LEMMA IdleAgain ==
    ASSUME ServerInv, NEW m \in Threaded, threads[m].at \in {"adding", "calling"},
           threads' = [threads EXCEPT ![m].at = "idle", ![m].code = {}],
           \A t \in Threaded : \A what : Alive(t, what) => Alive(t, what)',
           \A c : Backed(c) => Backed(c)'
    PROVE  /\ ThreadsFit' /\ \A t \in Threaded \ {m} : threads'[t] = threads[t]
           /\ threads'[m].at = "idle" /\ threads'[m].code = {} /\ threads'[m].asked = threads[m].asked
<1>1. ThreadsFit
  BY DEF ServerInv
<1>2. /\ threads[m] \in ThreadRecord /\ threads[m].at # "none" /\ DOMAIN threads = Threaded
      /\ Alive(m, "cancel") /\ Alive(m, "join")
  BY <1>1 DEF ThreadsFit
<1>3. PICK r : r = [threads[m] EXCEPT !.at = "idle", !.code = {}]
  OBVIOUS
<1>4. r \in ThreadRecord /\ r.at = "idle" /\ r.code = {} /\ r.asked = threads[m].asked
  BY <1>2, <1>3 DEF ThreadRecord
<1>5. threads' = [threads EXCEPT ![m] = r]
  BY <1>2, <1>3
<1> HIDE <1>3
<1>6. \A t \in Threaded \ {m} : \A what : Alive(t, what) => Alive(t, what)'
  OBVIOUS
<1>7. r.at # "none" => Alive(m, "cancel")' /\ Alive(m, "join")'
  BY <1>2
<1>8. /\ r.at \in {"adding", "calling"} => r.code \in CodesOf(m) /\ Backed(r.code)'
      /\ r.at \notin {"adding", "calling"} => r.code = {}
  BY <1>4
<1>9. m = "mysql" => \A k \in DOMAIN r.asked : r.asked[k] = "mysql"
  BY <1>1, <1>4 DEF ThreadsFit
<1>10. \A c : Backed(c) => Backed(c)'
  OBVIOUS
<1>11. ThreadsFit' /\ threads'[m] = r /\ \A t \in Threaded \ {m} : threads'[t] = threads[t]
  BY <1>1, <1>4, <1>5, <1>6, <1>7, <1>8, <1>9, <1>10, ThreadSettles
<1> QED
  BY <1>4, <1>11

\* It was not main's message.
LEMMA OtherAnswers ==
    ASSUME ServerInv, NEW m \in Threaded, threads[m].at \in {"adding", "calling"},
           m = "persist" => threads[m].code # {"persist", "main"} \/ threads[m].at = "adding",
           Loaded' = Loaded, phase' = phase, done' = done,
           \A t \in Threaded \ {m} : threads'[t] = threads[t],
           threads'[m].at = "idle", threads'[m].code = {}, threads'[m].asked = threads[m].asked
    PROVE  PersistFits'
<1>1. PersistFits
  BY DEF ServerInv
<1>2. CASE m = "persist"
  BY <1>1, <1>2 DEF PersistFits, Quiet
<1>3. CASE m # "persist"
  <2>1. threads'["persist"] = threads["persist"]
    BY <1>3 DEF Threaded
  <2> QED
    BY <1>1, <2>1 DEF PersistFits, Quiet
<1> QED
  BY <1>2, <1>3

LEMMA AddsKeeps ==
    ASSUME ServerInv, NEW m \in Threaded, Adds(m)
    PROVE  ServerInv'
<1>1. /\ threads[m].at = "adding" /\ queue' = Append(queue, threads[m].code)
      /\ threads' = [threads EXCEPT ![m].at = "idle", ![m].code = {}]
      /\ quit' = quit /\ at' = at /\ stack' = stack /\ timers' = timers /\ moduleVars' = moduleVars
      /\ phase' = phase /\ left' = left /\ done' = done
  BY DEF Adds, mainVars
<1>2. ThreadsFit /\ QueueFits
  BY DEF ServerInv
<1>3. Backed(threads[m].code)
  BY <1>1, <1>2 DEF ThreadsFit, Waiting
<1>4. /\ Fits(stack)' /\ PhaseFits' /\ ModuleInv' /\ TimersFit' /\ Loaded' = Loaded
      /\ \A n, what : Alive(n, what)' <=> Alive(n, what)
      /\ \A c : Backed(c)' <=> Backed(c)
  BY <1>1, Stays
<1>5. QueueFits'
  <2>1. PICK qq : qq = Append(queue, threads[m].code)
    OBVIOUS
  <2>2. qq \in Seq(UNION {CodesOf(n) : n \in Sponsors}) /\ \A i \in DOMAIN qq : Backed(qq[i])
    BY <1>2, <1>3, <2>1, QueueGrows
  <2>3. queue' = qq
    BY <1>1, <2>1
  <2> HIDE <2>1
  <2> QED
    BY <1>4, <2>2, <2>3 DEF QueueFits
<1>6. \A t \in Threaded : \A what : Alive(t, what) => Alive(t, what)'
  BY <1>4
<1>7. \A c : Backed(c) => Backed(c)'
  BY <1>4
<1>8. threads[m].at \in {"adding", "calling"}
  BY <1>1
<1>9. /\ ThreadsFit' /\ \A t \in Threaded \ {m} : threads'[t] = threads[t]
      /\ threads'[m].at = "idle" /\ threads'[m].code = {} /\ threads'[m].asked = threads[m].asked
  BY <1>1, <1>6, <1>7, <1>8, IdleAgain
<1>10. PersistFits'
  BY <1>1, <1>4, <1>8, <1>9, OtherAnswers
<1> QED
  BY <1>4, <1>5, <1>9, <1>10 DEF ServerInv

LEMMA CallsKeeps ==
    ASSUME ServerInv, NEW m \in Threaded, Calls(m)
    PROVE  ServerInv'
<1>1. /\ threads[m].at = "calling" /\ threads' = [threads EXCEPT ![m].at = "idle", ![m].code = {}]
      /\ quit' = quit /\ at' = at /\ stack' = stack /\ queue' = queue /\ timers' = timers /\ moduleVars' = moduleVars
      /\ left' = left /\ UNCHANGED <<loopVars, moduleVars, left>>
      /\ IF SyncDone(m)
           THEN done' = TRUE /\ phase' = IF phase = "asleep" THEN "waiting" ELSE phase
           ELSE done' = done /\ phase' = phase
  BY DEF Calls, loopVars
<1>2. ThreadsFit /\ PersistFits
  BY DEF ServerInv
<1>3. Loaded' = Loaded
  BY <1>1 DEF moduleVars, Loaded
<1>4. \A n, what : Past(n, what)' <=> Past(n, what)
  BY <1>1 DEF Past
<1>5. \A n, what : Alive(n, what)' <=> Alive(n, what)
  BY <1>3, <1>4 DEF Alive
<1>6. \A c : Backed(c)' <=> Backed(c)
  BY <1>3, <1>5 DEF Backed
<1>7. \A t \in Threaded : \A what : Alive(t, what) => Alive(t, what)'
  BY <1>5
<1>8. \A c : Backed(c) => Backed(c)'
  BY <1>6
<1>9. threads[m].at \in {"adding", "calling"}
  BY <1>1
<1>10. /\ ThreadsFit' /\ \A t \in Threaded \ {m} : threads'[t] = threads[t]
       /\ threads'[m].at = "idle" /\ threads'[m].code = {} /\ threads'[m].asked = threads[m].asked
  BY <1>1, <1>7, <1>8, <1>9, IdleAgain
<1>11. CASE SyncDone(m)
  <2>1. threads[m].code = {"persist", "main"} /\ threads[m].code \in CodesOf(m)
    BY <1>1, <1>2, <1>11 DEF SyncDone, ThreadsFit, Waiting
  <2>2. m = "persist"
    BY <2>1 DEF CodesOf, Threaded
  <2>3. /\ phase \in {"waiting", "dozing", "asleep"} /\ threads["persist"].asked = <<>>
    <3>1. phase \in Holding \cup {"loading", "unloading", "ended"}
      BY DEF ServerInv, PhaseFits
    <3>2. ~Quiet
      BY <1>1, <2>2 DEF Quiet
    <3> QED
      BY <1>2, <2>1, <2>2, <3>1, <3>2 DEF PersistFits, Holding, Middle
  <2>4. stack = <<>> /\ at = "returned" /\ phase \in Holding /\ phase' \in {"waiting", "dozing"} /\ phase' \in Middle
    BY <1>1, <1>11, <2>3 DEF ServerInv, Fits, InPhase, PhaseFits, Holding, Middle
  <2>5. PersistFits'
    <3>1. PICK q : q = threads'["persist"]
      OBVIOUS
    <3>2. q.asked = <<>> /\ q.at = "idle" /\ q.code = {}
      BY <1>10, <2>2, <2>3, <3>1
    <3>3. DOMAIN q.asked = {}
      BY <3>2
    <3>4. done' = TRUE
      BY <1>1, <1>11
    <3> QED
      BY <2>4, <3>1, <3>2, <3>3, <3>4 DEF PersistFits, Quiet
  <2> QED
    BY <1>1, <1>10, <2>4, <2>5, MiddleKeeps
<1>12. CASE ~SyncDone(m)
  <2>1. phase' = phase /\ done' = done
    BY <1>1, <1>12
  <2>2. Fits(stack)' /\ PhaseFits' /\ ModuleInv' /\ TimersFit' /\ QueueFits'
    BY <1>1, <2>1, Stays
  <2>3. threads[m].code # {"persist", "main"}
    BY <1>12 DEF SyncDone
  <2>4. PersistFits'
    BY <1>3, <1>9, <1>10, <2>1, <2>3, OtherAnswers
  <2> QED
    BY <1>10, <2>2, <2>4 DEF ServerInv
<1> QED
  BY <1>11, <1>12

\* A thread begins to have main call something.
LEMMA Begins ==
    ASSUME ServerInv, NEW m \in Threaded, threads[m].at = "idle",
           NEW r \in ThreadRecord, threads' = [threads EXCEPT ![m] = r], r.at \in {"adding", "calling"},
           r.code \in CodesOf(m), Backed(r.code), m = "mysql" => \A k \in DOMAIN r.asked : r.asked[k] = "mysql",
           UNCHANGED <<loopVars, moduleVars, mainVars>>, m = "persist" => PersistFits'
    PROVE  ServerInv'
<1>1. /\ quit' = quit /\ at' = at /\ stack' = stack /\ queue' = queue /\ timers' = timers /\ moduleVars' = moduleVars
      /\ phase' = phase /\ left' = left /\ done' = done
  BY DEF loopVars, mainVars
<1>2. ThreadsFit /\ PersistFits
  BY DEF ServerInv
<1>3. /\ Fits(stack)' /\ PhaseFits' /\ ModuleInv' /\ TimersFit' /\ Loaded' = Loaded /\ QueueFits'
      /\ \A n, what : Alive(n, what)' <=> Alive(n, what)
      /\ \A c : Backed(c)' <=> Backed(c)
  BY <1>1, Stays
<1>4. \A t \in Threaded \ {m} : \A what : Alive(t, what) => Alive(t, what)'
  BY <1>3
<1>5. \A c : Backed(c) => Backed(c)'
  BY <1>3
<1>6. r.at # "none" => Alive(m, "cancel")' /\ Alive(m, "join")'
  BY <1>2, <1>3 DEF ThreadsFit
<1>7. PICK c : c = r.code
  OBVIOUS
<1>8. Backed(c)'
  BY <1>5, <1>7
<1>9. /\ r.at \in {"adding", "calling"} => r.code \in CodesOf(m) /\ Backed(r.code)'
      /\ r.at \notin {"adding", "calling"} => r.code = {}
  BY <1>7, <1>8
<1>10. m = "mysql" => \A k \in DOMAIN r.asked : r.asked[k] = "mysql"
  OBVIOUS
<1>11. ThreadsFit' /\ \A t \in Threaded \ {m} : threads'[t] = threads[t]
  BY <1>2, <1>4, <1>5, <1>6, <1>9, <1>10, ThreadSettles
<1>12. PersistFits'
  <2>1. CASE m # "persist"
    <3>1. threads'["persist"] = threads["persist"]
      BY <1>11, <2>1 DEF Threaded
    <3> QED
      BY <1>1, <1>2, <1>3, <3>1 DEF PersistFits, Quiet
  <2> QED
    BY <2>1
<1> QED
  BY <1>3, <1>11, <1>12 DEF ServerInv

LEMMA NetReceivesKeeps ==
    ASSUME ServerInv, Modules \subseteq Names, NEW code \in {{"net"}, {"playerdata"}}, NetReceives(code)
    PROVE  ServerInv'
<1>1. /\ threads["net"].at = "idle" /\ UNCHANGED <<loopVars, moduleVars, mainVars>>
      /\ threads' = [threads EXCEPT !["net"].at = RunInMain, !["net"].code = code]
  BY DEF NetReceives
<1>2. "net" \in Threaded
  BY DEF Threaded
<1>3. threads["net"] \in ThreadRecord /\ Alive("net", "cancel") /\ DOMAIN threads = Threaded
  BY <1>1, <1>2 DEF ServerInv, ThreadsFit
<1>4. Alive("net", "drain")
  BY <1>3, DrainComesAfter
<1>5. code \in CodesOf("net") /\ code \in SUBSET (Names \cup {"main"})
  BY DEF CodesOf, Names
<1>6. Backed(code)
  <2>1. code \cap Modules \subseteq Loaded
    BY <1>4, PlayersStay DEF Alive
  <2>2. "net" \in Sponsors
    BY DEF Sponsors
  <2> QED
    BY <1>4, <1>5, <2>1, <2>2 DEF Backed
<1>7. RunInMain \in {"adding", "calling"}
  BY DEF RunInMain
<1>8. PICK r, a : r = [threads["net"] EXCEPT !.at = a, !.code = code] /\ a = RunInMain
  OBVIOUS
<1>9. r \in ThreadRecord /\ r.at \in {"adding", "calling"} /\ r.code = code
  BY <1>3, <1>5, <1>7, <1>8 DEF ThreadRecord
<1>10. threads' = [threads EXCEPT !["net"] = r]
  BY <1>1, <1>2, <1>3, <1>8
<1> HIDE <1>8
<1> QED
  BY <1>1, <1>2, <1>5, <1>6, <1>9, <1>10, Begins

\* What is left of what a thread was asked.
LEMMA AskedRest ==
    ASSUME NEW old \in Seq(Message), old # <<>>
    PROVE  /\ Tail(old) \in Seq(Message) /\ Head(old) \in Message /\ 1 \in DOMAIN old /\ Head(old) = old[1]
           /\ \A k \in DOMAIN Tail(old) : k + 1 \in DOMAIN old /\ Tail(old)[k] = old[k + 1]
           /\ Len(Tail(old)) = Len(old) - 1 /\ DOMAIN Tail(old) = 1 .. Len(old) - 1 /\ Len(old) \in Nat
           /\ DOMAIN old = 1 .. Len(old)
OBVIOUS

LEMMA TakesMessageKeeps ==
    ASSUME ServerInv, Modules \subseteq Names, RemovalsFit, NEW m \in Threaded, m # "net", TakesMessage(m)
    PROVE  ServerInv'
<1>1. /\ threads[m].at = "idle" /\ threads[m].asked # <<>> /\ UNCHANGED <<loopVars, moduleVars, mainVars>>
      /\ threads' = [threads EXCEPT ![m] =
             [at |-> RunInMain, asked |-> Tail(threads[m].asked), code |-> {m, Head(threads[m].asked)}]]
  BY DEF TakesMessage
<1>2. threads[m] \in ThreadRecord /\ Alive(m, "cancel") /\ Alive(m, "join")
  BY <1>1 DEF ServerInv, ThreadsFit
<1>3. PICK old : old = threads[m].asked
  OBVIOUS
<1>4. old \in Seq(Message) /\ old # <<>>
  BY <1>1, <1>2, <1>3 DEF ThreadRecord
<1>5. /\ Tail(old) \in Seq(Message) /\ Head(old) \in Message /\ 1 \in DOMAIN old /\ Head(old) = old[1]
      /\ \A k \in DOMAIN Tail(old) : k + 1 \in DOMAIN old /\ Tail(old)[k] = old[k + 1]
      /\ Len(Tail(old)) = Len(old) - 1 /\ DOMAIN Tail(old) = 1 .. Len(old) - 1 /\ Len(old) \in Nat
      /\ DOMAIN old = 1 .. Len(old)
  BY <1>4, AskedRest
<1>6. RunInMain \in {"adding", "calling"} /\ (quit => RunInMain = "calling")
  BY DEF RunInMain
<1>7. PICK a, b, c : a = RunInMain /\ b = Tail(old) /\ c = {m, Head(old)}
  OBVIOUS
<1>8. m \in {"persist", "mysql"}
  BY DEF Threaded
<1>9. c \in SUBSET (Names \cup {"main"})
  BY <1>5, <1>7, <1>8 DEF Message, Names
<1>10. PICK r : r = [at |-> a, asked |-> b, code |-> c]
  OBVIOUS
<1>11. r \in ThreadRecord /\ r.at = a /\ r.asked = b /\ r.code = c
  BY <1>5, <1>6, <1>7, <1>9, <1>10 DEF ThreadRecord
<1>12. threads' = [threads EXCEPT ![m] = r]
  BY <1>1, <1>3, <1>7, <1>10
<1>13. r.at \in {"adding", "calling"}
  BY <1>6, <1>7, <1>11
<1> HIDE <1>10
<1>14. CASE m = "mysql"
  <2>1. \A k \in DOMAIN old : old[k] = "mysql"
    BY <1>3, <1>14 DEF ServerInv, ThreadsFit
  <2>2. r.code = {"mysql"} /\ r.code \in CodesOf(m)
    BY <1>5, <1>7, <1>11, <1>14, <2>1 DEF CodesOf
  <2>3. \A k \in DOMAIN r.asked : r.asked[k] = "mysql"
    BY <1>5, <1>7, <1>11, <2>1
  <2>4. Alive(m, "drain") /\ m \in Sponsors
    BY <1>2, <1>14, DrainComesAfter DEF Sponsors
  <2>5. Backed(r.code)
    BY <1>14, <2>2, <2>4 DEF Backed, Alive
  <2> QED
    BY <1>1, <1>11, <1>12, <1>13, <1>14, <2>2, <2>3, <2>5, Begins
<1>15. CASE m = "persist"
  <2>1. PersistFits /\ PhaseFits
    BY DEF ServerInv
  <2>2. phase \notin {"stopping", "unloading", "ended"}
    BY <1>1, <1>15, <2>1 DEF PersistFits, Quiet
  <2>3. Alive(m, "drain") /\ m \in Sponsors
    BY <1>2, <1>15, <2>2, Undisturbed DEF RemovalsFit, Alive, Sponsors
  <2>4. \A k \in DOMAIN old : old[k] # "mysql" /\ old[k] \in Loaded \cup {"main"}
    BY <1>3, <1>15, <2>1, <2>2 DEF PersistFits
  <2>5. Head(old) \in {"core", "arenaman", "main"} /\ Head(old) \in Loaded \cup {"main"}
    BY <1>5, <2>4 DEF Message
  <2>6. r.code = {"persist", Head(old)} /\ r.code \in CodesOf(m)
    BY <1>7, <1>11, <1>15, <2>5 DEF CodesOf
  <2>7. Backed(r.code)
    <3>1. "main" \notin Modules
      BY DEF Names
    <3>2. r.code \cap Modules \subseteq Loaded
      BY <1>15, <2>3, <2>5, <2>6, <3>1 DEF Alive
    <3> QED
      BY <2>3, <2>6, <3>2 DEF Backed
  <2>8. threads'["persist"] = r
    BY <1>12, <1>15 DEF ServerInv, ThreadsFit, Threaded
  <2>9. phase' = phase /\ done' = done /\ Loaded' = Loaded
    BY <1>1 DEF mainVars, moduleVars, Loaded
  <2>10. \A k \in DOMAIN r.asked : r.asked[k] # "mysql" /\ r.asked[k] \in Loaded \cup {"main"}
    BY <1>5, <1>7, <1>11, <2>4
  <2>11. ASSUME phase \in {"loading", "running"}
         PROVE  ~done /\ r.code # {"persist", "main"} /\ \A k \in DOMAIN r.asked : r.asked[k] # "main"
    <3>1. ~done /\ \A k \in DOMAIN old : old[k] # "main"
      BY <1>3, <1>15, <2>1, <2>11 DEF PersistFits
    <3>2. Head(old) # "main"
      BY <1>5, <3>1
    <3>3. r.code # {"persist", "main"}
      BY <2>5, <2>6, <3>2
    <3>4. r.asked = Tail(old)
      BY <1>7, <1>11
    <3>5. ASSUME NEW k \in DOMAIN r.asked PROVE r.asked[k] # "main"
      <4>1. k + 1 \in DOMAIN old /\ r.asked[k] = old[k + 1]
        BY <1>5, <3>4
      <4> QED
        BY <3>1, <4>1
    <3> QED
      BY <3>1, <3>3, <3>5
  <2>12. ASSUME phase \in {"waiting", "dozing", "asleep"}
         PROVE  /\ ~done
                /\ \/ /\ r.asked # <<>> /\ r.code # {"persist", "main"}
                      /\ \A k \in DOMAIN r.asked : r.asked[k] = "main" <=> k = Len(r.asked)
                   \/ r.asked = <<>> /\ r.at = "calling" /\ r.code = {"persist", "main"}
    <3>1. ~done /\ \A k \in DOMAIN old : old[k] = "main" <=> k = Len(old)
      BY <1>1, <1>3, <1>4, <1>15, <2>1, <2>12 DEF PersistFits, Quiet
    <3>2. quit
      BY <2>1, <2>12 DEF PhaseFits
    <3>3. CASE Len(old) = 1
      <4>1. Head(old) = "main"
        BY <1>5, <3>1, <3>3
      <4>2. r.asked = <<>>
        BY <1>5, <1>7, <1>11, <3>3
      <4> QED
        BY <1>6, <1>7, <1>11, <2>6, <3>1, <3>2, <4>1, <4>2
    <3>4. CASE Len(old) # 1
      <4>1. Head(old) # "main"
        BY <1>5, <3>1, <3>4
      <4>2. r.asked # <<>>
        <5>1. Len(r.asked) = Len(old) - 1 /\ Len(old) > 1
          BY <1>5, <1>7, <1>11, <3>4
        <5>2. PICK n \in Nat : n = Len(old)
          BY <1>5
        <5>3. n - 1 # 0
          BY <5>1, <5>2
        <5>4. Len(r.asked) # 0
          BY <5>1, <5>2, <5>3
        <5> QED
          BY <5>4
      <4>3. \A k \in DOMAIN r.asked : r.asked[k] = "main" <=> k = Len(r.asked)
        BY <1>5, <1>7, <1>11, <3>1
      <4>4. r.code # {"persist", "main"}
        BY <2>5, <2>6, <4>1
      <4> QED
        BY <3>1, <4>2, <4>3, <4>4
    <3> QED
      BY <3>3, <3>4
  <2>13. PersistFits'
    <3>1. PICK q : q = threads'["persist"]
      OBVIOUS
    <3>2. q = r /\ done' \in BOOLEAN
      BY <2>1, <2>8, <2>9, <3>1 DEF PersistFits
    <3>3. \A k \in DOMAIN q.asked : q.asked[k] # "mysql" /\ q.asked[k] \in Loaded' \cup {"main"}
      BY <2>9, <2>10, <3>2
    <3>4. phase' \in {"loading", "running"} =>
             ~done' /\ q.code # {"persist", "main"} /\ \A k \in DOMAIN q.asked : q.asked[k] # "main"
      BY <2>9, <2>11, <3>2
    <3>5. phase' \in {"waiting", "dozing", "asleep"} =>
             /\ ~done'
             /\ \/ /\ q.asked # <<>> /\ q.code # {"persist", "main"}
                   /\ \A k \in DOMAIN q.asked : q.asked[k] = "main" <=> k = Len(q.asked)
                \/ q.asked = <<>> /\ q.at = "calling" /\ q.code = {"persist", "main"}
      BY <2>9, <2>12, <3>2
    <3>6. phase' \notin {"stopping", "unloading", "ended"}
      BY <2>2, <2>9
    <3> QED
      BY <3>1, <3>2, <3>3, <3>4, <3>5, <3>6 DEF PersistFits
  <2> QED
    BY <1>1, <1>11, <1>12, <1>13, <1>15, <2>6, <2>7, <2>13, Begins
<1> QED
  BY <1>8, <1>14, <1>15

LEMMA HandlerAsksKeeps ==
    ASSUME ServerInv, HandlerAsks
    PROVE  ServerInv'
<1>1. /\ quit' = quit /\ at' = at /\ stack' = stack /\ queue' = queue /\ timers' = timers /\ moduleVars' = moduleVars
      /\ phase' = phase /\ left' = left /\ done' = done /\ Asks("mysql", "mysql")
  BY DEF HandlerAsks, loopVars, mainVars
<1>2. /\ Fits(stack)' /\ PhaseFits' /\ ModuleInv' /\ TimersFit' /\ Loaded' = Loaded /\ QueueFits'
      /\ \A n, what : Alive(n, what)' <=> Alive(n, what)
      /\ \A c : Backed(c)' <=> Backed(c)
  BY <1>1, Stays
<1>3. \A t \in Threaded : \A what : Alive(t, what) => Alive(t, what)'
  BY <1>2
<1>4. \A c : Backed(c) => Backed(c)'
  BY <1>2
<1>5. "mysql" \in Message /\ "mysql" \in {"persist", "mysql"} /\ ("mysql" = "mysql" => "mysql" = "mysql")
  BY DEF Message
<1>6. Asks("mysql", "mysql")
  BY <1>1
<1>7. ThreadsFit' /\ \A t \in Threaded \ {"mysql"} : threads'[t] = threads[t]
  BY <1>3, <1>4, <1>5, <1>6, AsksSettles
<1>8. threads'["persist"] = threads["persist"]
  BY <1>7 DEF Threaded
<1>9. PersistFits'
  BY <1>1, <1>2, <1>8 DEF ServerInv, PersistFits, Quiet
<1> QED
  BY <1>2, <1>7, <1>9 DEF ServerInv

----------------------------------------------------------------------------
(* What handlers and timers do.                                            *)

LEMMA SpentGoes ==
    ASSUME ServerInv, stack # <<>>, Top.does # "unload"
    PROVE  /\ Goes(stack, Spent) /\ Spent \in Seq(Frame) /\ Spent # <<>> /\ Len(Spent) = Len(stack) /\ DOMAIN Spent = DOMAIN stack
           /\ Spent[Len(stack)].does = Top.does /\ Spent[Len(stack)].code = Top.code /\ Spent[Len(stack)].pc = 2
<1>1. Top = stack[Len(stack)] /\ stack \in Seq(Frame)
  BY TopIs
<1>2. Fits(stack)
  BY DEF ServerInv
<1>3. Spent = WithPc(stack, 2)
  BY DEF Spent, WithPc
<1>4. Goes(stack, WithPc(stack, 2))
  BY <1>1, <1>2, WithPcGoes
<1> QED
  BY <1>1, <1>3, <1>4, WithPcIs

\* What runs code of net is a handler of it.
LEMMA BusyIs ==
    ASSUME ServerInv, NEW does \in {"function", "timer"}, NEW m, Busy(does, m)
    PROVE  /\ stack # <<>> /\ Top.does = does /\ Top.does # "unload" /\ Top \in Frame
           /\ does = "function" /\ m = "net" => Top.code = {"net"} /\ Backed({"net"})
           /\ does = "timer" => Top.code = {m} /\ phase = "running" /\ m \in Loaded \cup {"directory"}
<1>1. stack # <<>> /\ Top.does = does /\ m \in Top.code
  BY EmptyTop DEF Busy
<1>2. /\ Top = stack[Len(stack)] /\ Len(stack) \in DOMAIN stack /\ phase \in {"running", "unloading"} /\ Top \in Frame
      /\ stack \in Seq(Frame)
  BY <1>1, TopIs
<1>3. ASSUME does = "function", m = "net" PROVE Top.code = {"net"} /\ Backed({"net"})
  <2>1. Backed(Top.code)
    BY <1>1, <1>2, <1>3 DEF ServerInv, Fits, StackFits
  <2>2. PICK s \in Sponsors : Top.code \in CodesOf(s)
    BY <2>1 DEF Backed
  <2>3. Top.code = {"net"}
    BY <1>1, <1>3, <2>2 DEF Sponsors, CodesOf
  <2> QED
    BY <2>1, <2>3
<1>4. ASSUME does = "timer" PROVE Top.code = {m} /\ phase = "running" /\ m \in Loaded \cup {"directory"}
  <2>1. Len(stack) = 1 /\ Top.code = {m} /\ Top.code \subseteq Loaded \cup {"directory"}
    <3>1. StackFits(stack) /\ stack[Len(stack)].does = "timer" /\ Len(stack) \in DOMAIN stack
      BY <1>1, <1>2, <1>4 DEF ServerInv, Fits
    <3>2. Len(stack) = 1 /\ \E n \in Modules : stack[Len(stack)].code = {n}
      BY <3>1 DEF StackFits, Shape
    <3>3. stack[Len(stack)].code \subseteq Loaded \cup {"directory"}
      BY <3>1 DEF StackFits
    <3>4. Top.code = {m}
      BY <1>1, <1>2, <3>2
    <3> QED
      BY <1>2, <3>2, <3>3, <3>4
  <2>2. phase # "unloading"
    BY <1>1, <1>2, <1>4, <2>1 DEF ServerInv, Fits, InPhase, UnloadOf
  <2> QED
    BY <1>2, <2>1, <2>2
<1> QED
  BY <1>1, <1>2, <1>3, <1>4

\* It does nothing else that concerns others.
LEMMA GoesKeeps ==
    ASSUME ServerInv, NEW tt, stack' = tt, Goes(stack, tt), moduleVars' = moduleVars, phase' = phase, left' = left,
           at' = at, quit' \in {quit, TRUE}, queue' = queue, timers' = timers, threads' = threads, done' = done
    PROVE  ServerInv'
<1>1. Fits(tt) /\ SamePast(tt, stack) /\ FirstStays(stack, tt)
  BY DEF Goes
<1> QED
  BY <1>1, Settles DEF ServerInv

LEMMA QuitKeeps ==
    ASSUME ServerInv, Quit
    PROVE  ServerInv'
<1>1. /\ Busy("function", "net") /\ quit' = TRUE /\ stack' = Spent
      /\ at' = at /\ queue' = queue /\ timers' = timers /\ moduleVars' = moduleVars /\ threads' = threads
      /\ phase' = phase /\ left' = left /\ done' = done
  BY DEF Quit, KillML, Used, mainVars
<1>2. Goes(stack, Spent)
  BY <1>1, BusyIs, SpentGoes
<1>3. PICK tt : tt = Spent
  OBVIOUS
<1>4. stack' = tt /\ Goes(stack, tt)
  BY <1>1, <1>2, <1>3
<1> HIDE <1>3
<1> QED
  BY <1>1, <1>4, GoesKeeps

LEMMA ArenaWorksKeeps ==
    ASSUME ServerInv, NEW m, ArenaWorks(m)
    PROVE  ServerInv'
<1>1. /\ Busy("timer", "arenaman") /\ quit' = quit /\ stack' = Spent
      /\ at' = at /\ queue' = queue /\ timers' = timers /\ moduleVars' = moduleVars /\ threads' = threads
      /\ phase' = phase /\ left' = left /\ done' = done
  BY DEF ArenaWorks, Used, mainVars
<1>2. Goes(stack, Spent)
  BY <1>1, BusyIs, SpentGoes
<1>3. PICK tt : tt = Spent
  OBVIOUS
<1>4. stack' = tt /\ Goes(stack, tt)
  BY <1>1, <1>2, <1>3
<1> HIDE <1>3
<1> QED
  BY <1>1, <1>4, GoesKeeps

LEMMA ArenaDrainsKeeps ==
    ASSUME ServerInv, Modules \subseteq Names, ArenaDrains
    PROVE  ServerInv'
<1>1. /\ Busy("timer", "arenaman") /\ quit' = quit /\ stack' = Append(stack, Call("drain", {"arenaman"}))
      /\ at' = at /\ queue' = queue /\ timers' = timers /\ moduleVars' = moduleVars /\ threads' = threads
      /\ phase' = phase /\ left' = left /\ done' = done
  BY DEF ArenaDrains, Push, mainVars
<1>2. stack # <<>> /\ Top.does = "timer" /\ Top.code = {"arenaman"} /\ Top = stack[Len(stack)]
  BY <1>1, BusyIs, TopIs
<1>3. PICK c : c = Call("drain", {"arenaman"})
  OBVIOUS
<1>4. c \in Frame /\ c.does = "drain" /\ c.code = {"arenaman"}
  BY <1>3 DEF Call, Frame, Names
<1>5. stack' = Append(stack, c)
  BY <1>1, <1>3
<1> HIDE <1>3
<1>6. Waits(stack[Len(stack)])
  BY <1>2 DEF Waits
<1>7. Fits(stack)
  BY DEF ServerInv
<1>8. Goes(stack, Append(stack, c))
  BY <1>2, <1>4, <1>6, <1>7, PushGoes
<1>9. PICK tt : tt = Append(stack, c)
  OBVIOUS
<1>10. stack' = tt /\ Goes(stack, tt)
  BY <1>5, <1>8, <1>9
<1> HIDE <1>9
<1> QED
  BY <1>1, <1>10, GoesKeeps

LEMMA TimerAsksKeeps ==
    ASSUME ServerInv, NEW m \in {"core", "arenaman"}, TimerAsks(m)
    PROVE  ServerInv'
<1>1. /\ Busy("timer", m) /\ Asks("persist", m) /\ quit' = quit /\ stack' = Spent
      /\ at' = at /\ queue' = queue /\ timers' = timers /\ moduleVars' = moduleVars
      /\ phase' = phase /\ left' = left /\ done' = done
  BY DEF TimerAsks, Used, mainVars
<1>2. Goes(stack, Spent) /\ m \in Loaded /\ phase = "running"
  BY <1>1, BusyIs, SpentGoes
<1>3. PICK tt : tt = Spent
  OBVIOUS
<1>4. stack' = tt /\ Fits(tt) /\ SamePast(tt, stack) /\ FirstStays(stack, tt)
  BY <1>1, <1>2, <1>3 DEF Goes
<1> HIDE <1>3
<1>5. /\ Fits(stack)' /\ PhaseFits' /\ ModuleInv' /\ TimersFit' /\ QueueFits' /\ Loaded' = Loaded
      /\ \A n, what : Past(n, what)' <=> Past(n, what)
      /\ \A c : Backed(c)' <=> Backed(c)
  BY <1>1, <1>4, Settles
<1>6. \A t \in Threaded : \A what : Alive(t, what) => Alive(t, what)'
  BY <1>5 DEF Alive
<1>7. \A c : Backed(c) => Backed(c)'
  BY <1>5
<1>8. m \in Message /\ "persist" \in {"persist", "mysql"} /\ ("persist" = "mysql" => m = "mysql")
  BY DEF Message
<1>9. Asks("persist", m)
  BY <1>1
<1>10. /\ ThreadsFit' /\ threads'["persist"].code = threads["persist"].code
       /\ threads'["persist"].asked = Append(threads["persist"].asked, m) /\ threads["persist"].asked \in Seq(Message)
  BY <1>6, <1>7, <1>8, <1>9, AsksSettles
<1>11. PersistFits'
  <2>1. PICK s, old : s = threads'["persist"].asked /\ old = threads["persist"].asked
    OBVIOUS
  <2>2. /\ DOMAIN s = 1 .. Len(old) + 1 /\ Len(old) \in Nat /\ DOMAIN old = 1 .. Len(old)
        /\ s[Len(old) + 1] = m /\ \A k \in DOMAIN old : s[k] = old[k]
    BY <1>10, <2>1
  <2>3. \A k \in DOMAIN s : k \in DOMAIN old \/ k = Len(old) + 1
    BY <2>2
  <2>4. /\ done = FALSE /\ threads["persist"].code # {"persist", "main"}
        /\ \A k \in DOMAIN old : old[k] # "main" /\ old[k] # "mysql" /\ old[k] \in Loaded
    BY <1>2, <2>1 DEF ServerInv, PersistFits
  <2>5. \A k \in DOMAIN s : s[k] # "mysql" /\ s[k] # "main" /\ s[k] \in Loaded
    BY <1>2, <2>2, <2>3, <2>4
  <2>6. PICK q : q = threads'["persist"]
    OBVIOUS
  <2>7. /\ done' = FALSE /\ phase' = "running" /\ q.code # {"persist", "main"}
        /\ \A k \in DOMAIN q.asked : q.asked[k] # "mysql" /\ q.asked[k] # "main" /\ q.asked[k] \in Loaded'
    BY <1>1, <1>2, <1>5, <1>10, <2>1, <2>4, <2>5, <2>6
  <2> QED
    BY <2>6, <2>7 DEF PersistFits
<1> QED
  BY <1>5, <1>10, <1>11 DEF ServerInv

\* The unloading of a module begins.
LEMMA UnloadBegins ==
    ASSUME Modules \subseteq Names, NEW st, StackFits(st), st # <<>> => Waits(st[Len(st)]),
           NEW m, m \in Modules, m \in Loaded, \A i \in DOMAIN st : ~UnloadOf(st[i], m),
           NEW tt, tt = Append(st, Call("unload", {m}))
    PROVE  /\ StackFits(tt) /\ SamePast(tt, st) /\ FirstStays(st, tt) /\ tt # <<>> /\ Len(tt) = Len(st) + 1
           /\ UnloadOf(tt[Len(st) + 1], m) /\ DOMAIN tt = 1 .. Len(st) + 1 /\ Len(st) \in Nat
           /\ DOMAIN st = 1 .. Len(st) /\ \A i \in DOMAIN st : tt[i] = st[i]
<1>1. PICK c : c = Call("unload", {m})
  OBVIOUS
<1>2. c \in Frame /\ c.does = "unload" /\ c.code = {m} /\ c.pc = 1
  BY <1>1 DEF Call, Frame
<1>3. Shape(st) /\ st \in Seq(Frame)
  BY DEF StackFits, Shape
<1>4. tt = Append(st, c)
  BY <1>1
<1> HIDE <1>1
<1>5. /\ Len(tt) = Len(st) + 1 /\ DOMAIN tt = 1 .. Len(st) + 1 /\ DOMAIN st = 1 .. Len(st) /\ tt # <<>>
      /\ Len(st) \in Nat /\ (\A i \in DOMAIN st : tt[i] = st[i]) /\ tt[Len(st) + 1] = c
  BY <1>2, <1>3, <1>4, AppendIs
<1>6. Shape(tt) /\ SamePast(tt, st)
  BY <1>2, <1>3, <1>4, PushFits
<1>7. \A i \in DOMAIN tt : i \in DOMAIN st \/ i = Len(st) + 1
  BY <1>5
<1>8. StackFits(tt)
  BY <1>2, <1>5, <1>6, <1>7 DEF StackFits
<1>9. FirstStays(st, tt)
  BY <1>3, <1>5 DEF FirstStays
<1>10. UnloadOf(tt[Len(st) + 1], m)
  BY <1>2, <1>5 DEF UnloadOf
<1> QED
  BY <1>5, <1>6, <1>8, <1>9, <1>10

LEMMA CommandKeeps ==
    ASSUME ServerInv, ConfFits, RemovalsFit, NEW m, m \in Removable, Command(m)
    PROVE  ServerInv'
<1>1. /\ Busy("function", "net") /\ phase = "running" /\ at # "returned"
      /\ quit' = quit /\ at' = at /\ queue' = queue /\ phase' = phase /\ left' = left /\ done' = done
      /\ \/ m \notin ToSet(mods) /\ Load(m) /\ Used
         \/ /\ m \in ToSet(mods) /\ (BeingUnloaded(m) => Twice)
            /\ stack' = Append(Spent, Call("unload", {m}))
            /\ UNCHANGED <<timers, threads, moduleVars>>
  BY DEF Command
<1>2. /\ stack # <<>> /\ Top.code = {"net"} /\ Top.does = "function" /\ Top.does # "unload"
      /\ Top = stack[Len(stack)]
  BY <1>1, BusyIs, TopIs
<1>3. /\ Goes(stack, Spent) /\ Spent \in Seq(Frame) /\ Spent # <<>> /\ Len(Spent) = Len(stack) /\ DOMAIN Spent = DOMAIN stack
      /\ Spent[Len(stack)].does = "function" /\ Spent[Len(stack)].code = {"net"} /\ Spent[Len(stack)].pc = 2
  BY <1>2, SpentGoes
<1>4. PICK sp : sp = Spent
  OBVIOUS
<1>5. /\ Goes(stack, sp) /\ sp \in Seq(Frame) /\ sp # <<>> /\ Len(sp) = Len(stack) /\ DOMAIN sp = DOMAIN stack
      /\ sp[Len(stack)].does = "function" /\ sp[Len(stack)].code = {"net"} /\ sp[Len(stack)].pc = 2
  BY <1>3, <1>4
<1>6. m \in Modules /\ Modules \subseteq Names /\ m \in Names
  BY DEF RemovalsFit, ConfFits
<1>7. CASE m \notin ToSet(mods) /\ Load(m) /\ Used
  <2>1. Programs[m].must \cap Modules \subseteq registered
    <3>1. SUFFICES ASSUME NEW x, x \in Programs[m].must, x \in Modules PROVE x \in registered
      OBVIOUS
    <3>2. x \in ToSet(Conf) /\ x \notin Removable
      BY <3>1 DEF RemovalsFit
    <3>3. x \in Loaded
      BY <1>1, <3>2 DEF ServerInv, ModuleInv, ModsFit, Holding
    <3>4. \A what : ~Past(x, what)
      BY <1>1, <3>2, Undisturbed
    <3>5. x \notin Mute
      BY <1>6, <3>1, NeedsAreMet DEF NeedsFit
    <3> QED
      BY <3>3, <3>4, <3>5 DEF ServerInv, ModuleInv, RegisteredFits
  <2>2. MayLoad(m)
    BY <1>1, <1>6, <1>7, <2>1 DEF MayLoad, Loaded
  <2>3. Loads(m)
    BY <1>7, <2>1, LoadIs
  <2>4. stack' = sp /\ Fits(sp) /\ SamePast(sp, stack) /\ FirstStays(stack, sp)
    BY <1>4, <1>5, <1>7 DEF Used, Goes
  <2> HIDE <1>4
  <2> QED
    BY <1>1, <2>2, <2>3, <2>4, LoadKeeps
<1>8. CASE /\ m \in ToSet(mods) /\ (BeingUnloaded(m) => Twice)
           /\ stack' = Append(Spent, Call("unload", {m}))
           /\ UNCHANGED <<timers, threads, moduleVars>>
  <2>1. ~BeingUnloaded(m)
    BY <1>8 DEF RemovalsFit
  <2>2. \A i \in DOMAIN stack : ~UnloadOf(stack[i], m)
    BY <2>1 DEF BeingUnloaded, UnloadOf
  <2>3. \A i \in DOMAIN sp : ~UnloadOf(sp[i], m)
    <3>1. sp = WithPc(stack, 2)
      BY <1>4 DEF Spent, WithPc
    <3>2. stack \in Seq(Frame)
      BY <1>2, TopIs
    <3>3. \A i \in DOMAIN sp : i # Len(stack) => sp[i] = stack[i]
      BY <1>2, <1>5, <3>1, <3>2, WithPcIs
    <3>4. ~UnloadOf(sp[Len(stack)], m)
      BY <1>5 DEF UnloadOf
    <3> QED
      BY <1>5, <2>2, <3>3, <3>4
  <2>4. Waits(sp[Len(sp)]) /\ StackFits(sp)
    BY <1>5 DEF Waits, Goes, Fits
  <2>5. PICK tt : tt = Append(sp, Call("unload", {m}))
    OBVIOUS
  <2>6. /\ StackFits(tt) /\ SamePast(tt, sp) /\ FirstStays(sp, tt) /\ tt # <<>> /\ Len(tt) = Len(sp) + 1
        /\ UnloadOf(tt[Len(sp) + 1], m) /\ DOMAIN tt = 1 .. Len(sp) + 1 /\ Len(sp) \in Nat
        /\ DOMAIN sp = 1 .. Len(sp) /\ \A i \in DOMAIN sp : tt[i] = sp[i]
    <3>1. m \in Loaded /\ (sp # <<>> => Waits(sp[Len(sp)]))
      BY <1>8, <2>4 DEF Loaded
    <3> QED
      BY <1>6, <2>3, <2>4, <2>5, <3>1, UnloadBegins, ZenonT(60)
  <2>7. stack' = tt
    BY <1>4, <1>8, <2>5
  <2>8. InPhase(tt)
    <3>1. \A i \in DOMAIN sp : sp[i].does = "unload" => sp[i].code \subseteq Removable
      BY <1>1, <1>5 DEF Goes, Fits, InPhase
    <3>2. \A i \in DOMAIN tt : i \in DOMAIN sp \/ i = Len(sp) + 1
      BY <2>6
    <3>3. \A i \in DOMAIN tt : tt[i].does = "unload" => tt[i].code \subseteq Removable
      BY <2>6, <3>1, <3>2 DEF UnloadOf
    <3> QED
      BY <1>1, <3>3 DEF InPhase
  <2>9. Goes(stack, tt)
    BY <1>5, <2>6, <2>8 DEF Goes, Fits, SamePast, FirstStays
  <2>10. moduleVars' = moduleVars /\ timers' = timers /\ threads' = threads
    BY <1>8 DEF moduleVars
  <2> HIDE <2>5
  <2> HIDE <1>4
  <2> QED
    BY <1>1, <2>7, <2>9, <2>10, GoesKeeps
<1> QED
  BY <1>1, <1>7, <1>8

\* Those that have main call something wait for it after their interface is gone.
LEMMA QueuesBeforeDrain ==
    ASSUME ServerInv, NEW m \in {"game", "fake"}, Alive(m, "unreg")
    PROVE  Alive(m, "drain")
<1>1. ASSUME NEW i \in DOMAIN stack, UnloadOf(stack[i], m),
             NEW k \in DOMAIN Steps(m), k < stack[i].pc, Steps(m)[k] = "drain"
      PROVE  \E j \in DOMAIN Steps(m) : j < stack[i].pc /\ Steps(m)[j] = "unreg"
  <2>1. stack[i].pc \in Nat
    <3>1. stack \in Seq(Frame)
      BY DEF ServerInv, Fits, StackFits, Shape
    <3>2. stack[i] \in Frame
      BY <1>1, <3>1
    <3> QED
      BY <3>2 DEF Frame
  <2>2. Steps(m) = <<"unreg", "drain", "release">>
    BY StepsAre
  <2>3. k = 2 /\ 1 \in DOMAIN Steps(m) /\ Steps(m)[1] = "unreg"
    BY <1>1, <2>2
  <2> QED
    BY <1>1, <2>1, <2>3
<1> QED
  BY <1>1 DEF Alive, Past, PastIn

LEMMA HandlerQueuesKeeps ==
    ASSUME ServerInv, Modules \subseteq Names, NEW m, m \in {"game", "fake"}, m \in Modules, HandlerQueues(m)
    PROVE  ServerInv'
<1>1. /\ Busy("function", "net") /\ m \in registered /\ quit' = quit
      /\ at' = at /\ timers' = timers /\ moduleVars' = moduleVars /\ threads' = threads
      /\ phase' = phase /\ left' = left /\ done' = done
      /\ \/ stack' = Append(Spent, Call("function", {m})) /\ queue' = queue
         \/ queue' = Append(queue, {m}) /\ stack' = stack
  BY DEF HandlerQueues, mainVars
<1>2. Alive(m, "drain")
  BY <1>1, QueuesBeforeDrain DEF ServerInv, ModuleInv, RegisteredFits
<1>3. Backed({m})
  <2>1. m \in Sponsors /\ {m} \in CodesOf(m)
    BY DEF Sponsors, CodesOf
  <2> QED
    BY <1>2, <2>1 DEF Backed, Alive
<1>4. CASE stack' = Append(Spent, Call("function", {m})) /\ queue' = queue
  <2>1. stack # <<>> /\ Top.code = {"net"} /\ Top.does = "function" /\ Top.does # "unload"
    BY <1>1, BusyIs
  <2>2. /\ Goes(stack, Spent) /\ Spent # <<>> /\ Len(Spent) = Len(stack)
        /\ Spent[Len(stack)].does = "function" /\ Spent[Len(stack)].code = {"net"} /\ Spent[Len(stack)].pc = 2
    BY <2>1, SpentGoes
  <2>3. PICK sp, c : sp = Spent /\ c = Call("function", {m})
    OBVIOUS
  <2>4. Fits(sp) /\ sp # <<>> /\ Waits(sp[Len(sp)]) /\ Goes(stack, sp)
    BY <2>2, <2>3 DEF Waits, Goes
  <2>5. c \in Frame /\ c.does = "function" /\ c.code = {m}
    BY <2>3 DEF Call, Frame
  <2>6. PICK tt : tt = Append(sp, c)
    OBVIOUS
  <2>7. stack' = tt
    BY <1>4, <2>3, <2>6
  <2> HIDE <2>3
  <2>8. Goes(sp, Append(sp, c))
    BY <1>3, <2>4, <2>5, PushGoes
  <2>9. Goes(stack, tt)
    BY <2>4, <2>6, <2>8, GoesOn
  <2> HIDE <2>6
  <2> QED
    BY <1>1, <1>4, <2>7, <2>9, GoesKeeps
<1>5. CASE queue' = Append(queue, {m}) /\ stack' = stack
  <2>1. /\ Fits(stack)' /\ PhaseFits' /\ ModuleInv' /\ TimersFit' /\ ThreadsFit' /\ PersistFits'
        /\ \A c : Backed(c)' <=> Backed(c)
    BY <1>1, <1>5, Stays
  <2>2. PICK qq : qq = Append(queue, {m})
    OBVIOUS
  <2>3. qq \in Seq(UNION {CodesOf(n) : n \in Sponsors}) /\ \A i \in DOMAIN qq : Backed(qq[i])
    BY <1>3, <2>2, QueueGrows DEF ServerInv
  <2>4. queue' = qq
    BY <1>5, <2>2
  <2> HIDE <2>2
  <2>5. QueueFits'
    BY <2>1, <2>3, <2>4 DEF QueueFits
  <2> QED
    BY <2>1, <2>5 DEF ServerInv
<1> QED
  BY <1>1, <1>4, <1>5

----------------------------------------------------------------------------
(* The workers.                                                            *)

LEMMA WorkerKeeps ==
    ASSUME ServerInv, NEW w \in Workers, Worker(w)
    PROVE  ServerInv'
<1>1. /\ quit' = quit /\ at' = at /\ stack' = stack /\ queue' = queue /\ moduleVars' = moduleVars /\ threads' = threads
      /\ phase' = phase /\ left' = left /\ done' = done
      /\ timers' = timers \/ ("directory" \in Modules /\ timers' = timers \cup {Timer("directory")})
  BY DEF Worker, WorkerTakes, WorkerReturns, StartTimer, mainVars
<1>2. CASE timers' = timers
  BY <1>1, <1>2, Stays DEF ServerInv
<1>3. CASE "directory" \in Modules /\ timers' = timers \cup {Timer("directory")}
  <2>1. Fits(stack) /\ TimersFit
    BY DEF ServerInv
  <2>2. Goes(stack, stack)
    BY <2>1, GoesNowhere
  <2>3. PICK tt : tt = stack
    OBVIOUS
  <2>4. stack' = tt /\ Fits(tt) /\ SamePast(tt, stack)
    BY <1>1, <2>2, <2>3 DEF Goes
  <2> HIDE <2>3
  <2>5. /\ Fits(stack)' /\ PhaseFits' /\ ModuleInv' /\ QueueFits' /\ ThreadsFit' /\ PersistFits' /\ Loaded' = Loaded
        /\ \A m, what : Past(m, what)' <=> Past(m, what)
    BY <1>1, <2>4, Settles
  <2>6. \A m, what : Alive(m, what)' <=> Alive(m, what)
    BY <2>5 DEF Alive
  <2>7. PICK r : r = Timer("directory")
    OBVIOUS
  <2>8. r \in [mod : Modules, running : BOOLEAN, killme : BOOLEAN] /\ r.mod = "directory" /\ r.running = FALSE
    BY <1>3, <2>7 DEF Timer
  <2>9. timers' = timers \cup {r}
    BY <1>3, <2>7
  <2> HIDE <2>7
  <2>10. TimersFit'
    BY <1>1, <2>1, <2>6, <2>8, <2>9 DEF TimersFit
  <2> QED
    BY <2>5, <2>10 DEF ServerInv
<1> QED
  BY <1>1, <1>2, <1>3

----------------------------------------------------------------------------
(* main() goes on to what comes next.                                      *)

\* Main is in the middle of nothing, and only what it is about to do changes, or begins something.
LEMMA PhaseSettles ==
    ASSUME ServerInv, stack = <<>>, UNCHANGED <<quit, at, queue, timers, mods, threads>>,
           NEW tt, stack' = tt, SamePast(tt, stack), StackFits(tt)
    PROVE  /\ TimersFit' /\ QueueFits' /\ ThreadsFit' /\ StackFits(stack)' /\ Loaded' = Loaded
           /\ \A m, what : ~Past(m, what) /\ ~Past(m, what)'
<1>1. /\ mods' = mods /\ Loaded' = Loaded /\ queue' = queue /\ timers' = timers /\ threads' = threads
  BY DEF Loaded
<1>2. \A m, what : ~Past(m, what)
  BY DEF Past, PastIn
<1>3. \A m, what : Past(m, what)' <=> Past(m, what)
  BY DEF Past, SamePast
<1>4. \A m, what : Alive(m, what)' <=> Alive(m, what)
  BY <1>1, <1>3 DEF Alive
<1>5. \A c : Backed(c)' <=> Backed(c)
  BY <1>1, <1>4 DEF Backed
<1>6. StackFits(stack)'
  BY <1>1, <1>5 DEF StackFits
<1>7. TimersFit'
  BY <1>1, <1>4 DEF ServerInv, TimersFit
<1>8. QueueFits'
  BY <1>1, <1>5 DEF ServerInv, QueueFits
<1>9. ThreadsFit'
  BY <1>1, <1>4, <1>5 DEF ServerInv, ThreadsFit, Waiting
<1> QED
  BY <1>1, <1>2, <1>3, <1>6, <1>7, <1>8, <1>9

LEMMA LastOfAll ==
    ASSUME NEW s \in Seq(Modules), s # <<>>
    PROVE  /\ Last(s) \in Modules /\ Last(s) \in ToSet(s) /\ Front(s) \in Seq(Modules)
           /\ s = Append(Front(s), Last(s))
<1>1. /\ Front(s) \in Seq(Modules) /\ Len(Front(s)) = Len(s) - 1 /\ DOMAIN Front(s) = 1 .. Len(s) - 1
      /\ Len(s) \in Nat /\ Len(s) >= 1 /\ DOMAIN s = 1 .. Len(s) /\ Last(s) = s[Len(s)]
      /\ \A i \in 1 .. Len(s) - 1 : Front(s)[i] = s[i] /\ i \in DOMAIN s
  BY FrontIs
<1>2. Last(s) \in Modules /\ Last(s) \in ToSet(s)
  BY <1>1 DEF ToSet
<1>3. PICK f, l : f = Front(s) /\ l = Last(s)
  OBVIOUS
<1>4. f \in Seq(Modules) /\ l \in Modules
  BY <1>1, <1>2, <1>3
<1>5. /\ Append(f, l) \in Seq(Modules) /\ Len(Append(f, l)) = Len(f) + 1
      /\ (\A i \in DOMAIN f : Append(f, l)[i] = f[i]) /\ Append(f, l)[Len(f) + 1] = l
  BY <1>4, AppendIs
<1>6. Len(Append(f, l)) = Len(s)
  BY <1>1, <1>3, <1>5
<1>7. \A i \in 1 .. Len(s) : Append(f, l)[i] = s[i]
  BY <1>1, <1>3, <1>5
<1>8. s = Append(f, l)
  BY <1>5, <1>6, <1>7
<1> QED
  BY <1>1, <1>2, <1>3, <1>8

LEMMA UnloadLastKeeps ==
    ASSUME ServerInv, Modules \subseteq Names, UnloadLast
    PROVE  ServerInv'
<1>1. /\ phase = "unloading" /\ stack = <<>> /\ left # <<>> /\ stack' = Append(stack, Call("unload", {Last(left)}))
      /\ left' = Front(left) /\ UNCHANGED <<quit, at, queue, timers, mods, threads>> /\ moduleVars' = moduleVars
      /\ phase' = phase /\ done' = done
  BY DEF UnloadLast, Unload, Push, moduleVars
<1>2. mods = left /\ left \in Seq(Modules) /\ StackFits(stack)
  BY <1>1 DEF ServerInv, Fits, InPhase, PhaseFits
<1>3. PICK p, f : p = Last(left) /\ f = Front(left)
  OBVIOUS
<1>4. p \in Modules /\ p \in Loaded /\ f \in Seq(Modules) /\ mods = Append(f, p)
  BY <1>1, <1>2, <1>3, LastOfAll DEF Loaded
<1>5. PICK tt : tt = Append(stack, Call("unload", {p}))
  OBVIOUS
<1>6. stack' = tt /\ left' = f
  BY <1>1, <1>3, <1>5
<1>7. /\ StackFits(tt) /\ SamePast(tt, stack) /\ tt # <<>> /\ UnloadOf(tt[Len(stack) + 1], p)
      /\ DOMAIN tt = 1 .. Len(stack) + 1
  <2>1. \A i \in DOMAIN stack : ~UnloadOf(stack[i], p)
    BY <1>1
  <2>2. stack # <<>> => Waits(stack[Len(stack)])
    BY <1>1
  <2> QED
    BY <1>2, <1>4, <1>5, <2>1, <2>2, UnloadBegins
<1>8. Len(stack) = 0
  BY <1>1
<1>9. UnloadOf(tt[1], p) /\ \A i \in DOMAIN tt : ~(i > 1)
  BY <1>7, <1>8
<1> HIDE <1>3
<1> HIDE <1>5
<1>10. /\ TimersFit' /\ QueueFits' /\ ThreadsFit' /\ StackFits(stack)' /\ Loaded' = Loaded
       /\ \A m, what : ~Past(m, what) /\ ~Past(m, what)'
  BY <1>1, <1>6, <1>7, PhaseSettles
<1>11. InPhase(stack)'
  BY <1>1, <1>4, <1>6, <1>7, <1>9 DEF InPhase
<1>12. PhaseFits'
  BY <1>1, <1>4, <1>6 DEF ServerInv, PhaseFits
<1>13. ModuleInv'
  BY <1>1, <1>10, ModulesKeep DEF ServerInv
<1>14. PersistFits'
  BY <1>1, <1>10 DEF ServerInv, PersistFits, Quiet
<1> QED
  BY <1>10, <1>11, <1>12, <1>13, <1>14 DEF ServerInv, Fits

\* Main is in the middle of nothing, before and after.
LEMMA AtRest ==
    ASSUME ServerInv, stack = <<>>, UNCHANGED <<quit, at, stack, queue, timers, mods, threads>>
    PROVE  /\ TimersFit' /\ QueueFits' /\ ThreadsFit' /\ StackFits(stack)' /\ Loaded' = Loaded /\ stack' = <<>>
           /\ \A m, what : ~Past(m, what) /\ ~Past(m, what)'
<1>1. PICK tt : tt = stack
  OBVIOUS
<1>2. stack' = tt /\ SamePast(tt, stack) /\ StackFits(tt)
  BY <1>1 DEF SamePast, ServerInv, Fits
<1> HIDE <1>1
<1> QED
  BY <1>2, PhaseSettles

LEMMA EndsKeeps ==
    ASSUME ServerInv, Ends
    PROVE  ServerInv'
<1>1. /\ phase = "unloading" /\ stack = <<>> /\ left = <<>> /\ phase' = "ended"
      /\ UNCHANGED <<quit, at, stack, queue, timers, mods, threads>> /\ moduleVars' = moduleVars
      /\ left' = left /\ done' = done
  BY DEF Ends, loopVars, moduleVars
<1>2. mods = <<>>
  BY <1>1 DEF ServerInv, Fits, InPhase
<1>3. /\ TimersFit' /\ QueueFits' /\ ThreadsFit' /\ StackFits(stack)' /\ Loaded' = Loaded /\ stack' = <<>>
      /\ \A m, what : ~Past(m, what) /\ ~Past(m, what)'
  BY <1>1, AtRest
<1>4. InPhase(stack)'
  BY <1>1, <1>3 DEF InPhase
<1>5. PhaseFits'
  BY <1>1, <1>2 DEF ServerInv, PhaseFits, Holding, Middle
<1>6. ModuleInv'
  BY <1>1, <1>3, ModulesKeep DEF ServerInv
<1>7. PersistFits'
  BY <1>1, <1>3 DEF ServerInv, PersistFits, Quiet
<1> QED
  BY <1>3, <1>4, <1>5, <1>6, <1>7 DEF ServerInv, Fits

LEMMA LateIs ==
    /\ DOMAIN Late = {"arenaman", "core"} /\ \A m \in DOMAIN Late : Late[m] = {"persist"} /\ Late[m] = LateOf(m)
    /\ \A m : m \notin DOMAIN Late => LateOf(m) = {}
BY DEF Late, LateOf

LEMMA PreUnloadKeeps ==
    ASSUME ServerInv, Modules \subseteq Names, PreUnload
    PROVE  ServerInv'
<1>1. /\ phase = "stopping" /\ phase' = "unloading" /\ left' = mods /\ done' = done
      /\ held' = [m \in Modules |->
             IF m \in DOMAIN Late /\ m \in ToSet(mods) THEN held[m] \ Late[m] ELSE held[m]]
      /\ refs' = [i \in Modules |->
             refs[i] - Cardinality({m \in DOMAIN Late \cap ToSet(mods) : i \in Late[m] \cap held[m]})
             - (IF i = "mainloop" THEN 1 ELSE 0)]
      /\ UNCHANGED <<quit, at, stack, queue, timers, mods, threads>> /\ registered' = registered
  BY DEF PreUnload, loopVars
<1>2. stack = <<>> /\ phase \in Holding
  BY <1>1 DEF ServerInv, Fits, InPhase, Holding, Middle
<1>3. /\ TimersFit' /\ QueueFits' /\ ThreadsFit' /\ StackFits(stack)' /\ Loaded' = Loaded /\ stack' = <<>>
      /\ \A m, what : ~Past(m, what) /\ ~Past(m, what)'
  BY <1>1, <1>2, AtRest
<1>4. ModsFit /\ RegisteredFits /\ HeldFits /\ RefsFit /\ PhaseFits /\ PersistFits
  BY DEF ServerInv, ModuleInv
<1>5. mods \in Seq(Modules) /\ Loaded \subseteq Modules /\ mods' = mods
  BY <1>1, <1>4 DEF ModsFit, Loaded, ToSet
<1>6. phase' \notin Holding
  BY <1>1 DEF Holding, Middle
<1>7. (\A m : GotLate(m)' = {}) /\ \A m : GotLate(m) = LateOf(m)
  BY <1>2, <1>6 DEF GotLate
<1>8. ModsFit'
  BY <1>1, <1>4, <1>5, <1>6 DEF ModsFit
<1>9. RegisteredFits'
  BY <1>1, <1>3, <1>4 DEF RegisteredFits, Alive
<1>10. \A m \in Loaded : held'[m] = held[m] \ LateOf(m)
  BY <1>1, <1>5, LateIs DEF Loaded
<1>11. held' \in [Modules -> SUBSET Modules]
  BY <1>1, <1>4 DEF HeldFits
<1>12. ASSUME NEW m \in Loaded
       PROVE  /\ held'[m] \subseteq Programs[m].gets /\ Programs[m].must \cap Modules \subseteq held'[m]
              /\ held'[m] \subseteq registered
  <2>1. /\ held[m] \subseteq Programs[m].gets \cup LateOf(m) /\ Programs[m].must \cap Modules \subseteq held[m]
        /\ held[m] \subseteq registered
    BY <1>3, <1>4, <1>7 DEF HeldFits
  <2>2. "persist" \notin Programs[m].must
    BY <1>5, NeedsAreMet DEF NeedsFit
  <2>3. LateOf(m) \subseteq {"persist"}
    BY DEF LateOf
  <2> QED
    BY <1>10, <2>1, <2>2, <2>3
<1>13. ASSUME NEW a \in DOMAIN mods, NEW b \in DOMAIN mods, mods[b] \in held'[mods[a]] PROVE b < a
  <2>1. mods[a] \in Loaded
    BY DEF Loaded, ToSet
  <2>2. mods[b] \in held[mods[a]] /\ mods[b] \notin LateOf(mods[a])
    BY <1>10, <1>13, <2>1
  <2> QED
    BY <1>3, <1>4, <1>7, <2>2 DEF HeldFits
<1>14. HeldFits'
  BY <1>1, <1>3, <1>5, <1>7, <1>11, <1>12, <1>13 DEF HeldFits
<1>15. ASSUME NEW i \in Modules PROVE refs'[i] = Cardinality(Holders(i)') + Own(i)' /\ refs'[i] \in Int
  <2>1. PICK S : S = {m \in DOMAIN Late \cap ToSet(mods) : i \in Late[m] \cap held[m]}
    OBVIOUS
  <2>2. Holders(i) = {m \in Loaded : i \in held[m]}
    BY <1>3 DEF Holders
  <2>3. Holders(i)' = {m \in Loaded : i \in held[m] \ LateOf(m)}
    BY <1>3, <1>10 DEF Holders
  <2>4. S = {m \in Loaded : i \in held[m] /\ i \in LateOf(m)}
    BY <2>1, LateIs DEF Loaded
  <2>5. Holders(i)' = Holders(i) \ S /\ Holders(i) \cap S = S
    BY <2>2, <2>3, <2>4
  <2>6. Holders(i) \subseteq Modules /\ S \subseteq Modules
    BY <1>5, <2>2, <2>4
  <2>7. IsFiniteSet(Holders(i)) /\ Cardinality(Holders(i)) \in Nat /\ Cardinality(S) \in Nat
    BY <2>6, ModulesFinite
  <2>8. PICK H : H = Holders(i)
    OBVIOUS
  <2>9. Cardinality(H \ S) = Cardinality(H) - Cardinality(H \cap S)
    BY <2>7, <2>8, FS_Difference
  <2>10. Cardinality(Holders(i)') = Cardinality(H) - Cardinality(S)
    BY <2>5, <2>8, <2>9
  <2>11. refs[i] = Cardinality(H) + Own(i)
    BY <1>1, <1>4, <2>8 DEF RefsFit, Refused
  <2>12. Own(i) = (IF i = "mainloop" THEN 1 ELSE 0) /\ Own(i)' = 0
    BY <1>2, <1>6 DEF Own
  <2>13. refs'[i] = refs[i] - Cardinality(S) - (IF i = "mainloop" THEN 1 ELSE 0)
    BY <1>1, <2>1
  <2> QED
    BY <2>7, <2>8, <2>10, <2>11, <2>12, <2>13
<1>16. RefsFit'
  <2>1. refs' = [i \in Modules |-> refs'[i]]
    BY <1>1
  <2>2. refs' \in [Modules -> Int]
    BY <1>15, <2>1
  <2> QED
    BY <1>15, <2>2 DEF RefsFit
<1>17. InPhase(stack)'
  BY <1>1, <1>3, <1>5 DEF InPhase
<1>18. PhaseFits'
  BY <1>1, <1>4, <1>5 DEF PhaseFits
<1>19. PersistFits'
  BY <1>1, <1>3, <1>4 DEF PersistFits, Quiet
<1> QED
  BY <1>3, <1>8, <1>9, <1>14, <1>16, <1>17, <1>18, <1>19 DEF ServerInv, Fits, ModuleInv

LEMMA PostLoadKeeps ==
    ASSUME ServerInv, ConfFits, PostLoad
    PROVE  ServerInv'
<1>1. /\ phase = "loading" /\ phase' = "running" /\ Len(mods) = Len(Conf) /\ left' = left /\ done' = done
      /\ held' = [m \in Modules |->
             IF m \in DOMAIN Late /\ m \in ToSet(mods) THEN held[m] \cup (Late[m] \cap registered) ELSE held[m]]
      /\ refs' = [i \in Modules |->
             refs[i] + Cardinality({m \in DOMAIN Late \cap ToSet(mods) : i \in Late[m] \cap registered})
             + (IF i = "mainloop" THEN 1 ELSE 0)]
      /\ UNCHANGED <<quit, at, stack, queue, timers, mods, threads>> /\ registered' = registered
  BY DEF PostLoad, loopVars
<1>2. stack = <<>> /\ phase \notin Holding /\ phase' \in Holding
  BY <1>1 DEF ServerInv, Fits, InPhase, Holding, Middle
<1>3. /\ TimersFit' /\ QueueFits' /\ ThreadsFit' /\ StackFits(stack)' /\ Loaded' = Loaded /\ stack' = <<>>
      /\ \A m, what : ~Past(m, what) /\ ~Past(m, what)'
  BY <1>1, <1>2, AtRest
<1>4. ModsFit /\ RegisteredFits /\ HeldFits /\ RefsFit /\ PhaseFits /\ PersistFits
  BY DEF ServerInv, ModuleInv
<1>5. mods \in Seq(Modules) /\ Loaded \subseteq Modules /\ mods' = mods /\ Modules \subseteq Names
  BY <1>1, <1>4 DEF ModsFit, Loaded, ToSet, ConfFits
<1>6. (\A m : GotLate(m) = {}) /\ \A m : GotLate(m)' = LateOf(m)
  BY <1>2 DEF GotLate
<1>7. ToSet(Conf) \subseteq Loaded
  <2>1. Conf \in Seq(Modules)
    BY DEF ConfFits
  <2>2. DOMAIN Conf = DOMAIN mods /\ \A i \in DOMAIN mods : mods[i] = Conf[i]
    BY <1>1, <1>4, <1>5, <2>1 DEF ModsFit
  <2> QED
    BY <2>2 DEF Loaded, ToSet
<1>8. ModsFit'
  BY <1>1, <1>3, <1>4, <1>5, <1>7 DEF ModsFit
<1>9. RegisteredFits'
  BY <1>1, <1>3, <1>4 DEF RegisteredFits, Alive
<1>10. \A m \in Loaded : held'[m] = held[m] \cup (LateOf(m) \cap registered)
  BY <1>1, <1>5, LateIs DEF Loaded
<1>11. held' \in [Modules -> SUBSET Modules]
  BY <1>1, <1>4 DEF HeldFits, RegisteredFits
<1>12. \A m \in Loaded : /\ held[m] \subseteq Programs[m].gets /\ Programs[m].must \cap Modules \subseteq held[m]
                         /\ held[m] \subseteq registered
  BY <1>3, <1>4, <1>6 DEF HeldFits
<1>13. ASSUME NEW a \in DOMAIN mods, NEW b \in DOMAIN mods, mods[b] \in held'[mods[a]]
       PROVE  b < a \/ mods[b] \in LateOf(mods[a])
  <2>1. mods[a] \in Loaded
    BY DEF Loaded, ToSet
  <2>2. mods[b] \in held[mods[a]] \/ mods[b] \in LateOf(mods[a])
    BY <1>10, <1>13, <2>1
  <2> QED
    BY <1>3, <1>4, <1>6, <2>2 DEF HeldFits
<1>14. HeldFits'
  <2>1. ASSUME NEW m \in Loaded
        PROVE  /\ held'[m] \subseteq Programs[m].gets \cup LateOf(m) /\ Programs[m].must \cap Modules \subseteq held'[m]
               /\ held'[m] \subseteq registered
    BY <1>10, <1>12
  <2> QED
    BY <1>1, <1>3, <1>5, <1>6, <1>11, <1>13, <2>1 DEF HeldFits
<1>15. ASSUME NEW i \in Modules PROVE refs'[i] = Cardinality(Holders(i)') + Own(i)' /\ refs'[i] \in Int
  <2>1. PICK S : S = {m \in DOMAIN Late \cap ToSet(mods) : i \in Late[m] \cap registered}
    OBVIOUS
  <2>2. Holders(i) = {m \in Loaded : i \in held[m]}
    BY <1>3 DEF Holders
  <2>3. Holders(i)' = {m \in Loaded : i \in held[m] \cup (LateOf(m) \cap registered)}
    BY <1>3, <1>10 DEF Holders
  <2>4. S = {m \in Loaded : i \in LateOf(m) \cap registered}
    BY <2>1, LateIs DEF Loaded
  <2>5. Holders(i)' = Holders(i) \cup S
    BY <2>2, <2>3, <2>4
  <2>6. Holders(i) \cap S = {}
    <3>1. SUFFICES ASSUME NEW m, m \in Loaded, i \in held[m], i \in LateOf(m) PROVE FALSE
      BY <2>2, <2>4
    <3>2. m \in {"core", "arenaman"} /\ i = "persist" /\ m \in Names
      BY <1>5, <3>1 DEF LateOf
    <3>3. "persist" \notin Programs[m].gets
      BY <3>2, NeedsAreMet DEF NeedsFit
    <3> QED
      BY <1>12, <3>1, <3>2, <3>3
  <2>7. Holders(i) \subseteq Modules /\ S \subseteq Modules
    BY <1>5, <2>2, <2>4
  <2>8. /\ IsFiniteSet(Holders(i)) /\ Cardinality(Holders(i)) \in Nat
        /\ IsFiniteSet(S) /\ Cardinality(S) \in Nat
    BY <1>5, <2>7, ModulesFinite
  <2>9. PICK H : H = Holders(i)
    OBVIOUS
  <2>10. Cardinality(H \cup S) = Cardinality(H) + Cardinality(S) - Cardinality(H \cap S)
    BY <2>8, <2>9, FS_Union
  <2>11. Cardinality({}) = 0
    BY FS_EmptySet
  <2>12. Cardinality(Holders(i)') = Cardinality(H) + Cardinality(S)
    <3>1. Holders(i)' = H \cup S
      BY <2>5, <2>9
    <3>2. Cardinality(Holders(i)') = Cardinality(H \cup S)
      BY <3>1
    <3>3. H \cap S = {}
      BY <2>6, <2>9
    <3>4. Cardinality(H \cap S) = 0
      BY <2>11, <3>3
    <3>5. Cardinality(H) \in Nat
      BY <2>8, <2>9
    <3> QED
      BY <2>8, <2>10, <3>2, <3>4, <3>5
  <2>13. refs[i] = Cardinality(H) + Own(i)
    BY <1>1, <1>4, <2>9 DEF RefsFit, Refused
  <2>14. Own(i) = 0 /\ Own(i)' = (IF i = "mainloop" THEN 1 ELSE 0)
    BY <1>2 DEF Own
  <2>15. refs'[i] = refs[i] + Cardinality(S) + (IF i = "mainloop" THEN 1 ELSE 0)
    BY <1>1, <2>1
  <2> QED
    BY <2>8, <2>9, <2>12, <2>13, <2>14, <2>15
<1>16. RefsFit'
  <2>1. refs' = [i \in Modules |-> refs'[i]]
    BY <1>1
  <2>2. refs' \in [Modules -> Int]
    BY <1>15, <2>1
  <2> QED
    BY <1>15, <2>2 DEF RefsFit
<1>17. InPhase(stack)'
  BY <1>1, <1>3 DEF InPhase
<1>18. PhaseFits'
  BY <1>1, <1>4 DEF PhaseFits, Holding
<1>19. PersistFits'
  BY <1>1, <1>3, <1>4 DEF PersistFits, Quiet
<1> QED
  BY <1>3, <1>8, <1>9, <1>14, <1>16, <1>17, <1>18, <1>19 DEF ServerInv, Fits, ModuleInv

----------------------------------------------------------------------------
(* All steps keep the invariant.                                           *)

\* Nothing is loaded and nothing runs when main() begins.
LEMMA InitFits ==
    ASSUME ConfFits, Init
    PROVE  ServerInv
<1>1. /\ quit = FALSE /\ at = "call" /\ stack = <<>> /\ queue = <<>> /\ timers = {}
      /\ mods = <<>> /\ registered = {} /\ refs = [m \in Modules |-> 0] /\ held = [m \in Modules |-> {}]
      /\ threads = [m \in Threaded |-> [at |-> "none", asked |-> <<>>, code |-> {}]]
      /\ phase = "loading" /\ left = <<>> /\ done = FALSE
  BY DEF Init, LoopInit
<1>2. Loaded = {}
  BY <1>1 DEF Loaded, ToSet
<1>3. Fits(stack)
  BY <1>1 DEF Fits, StackFits, Shape, InPhase
<1>4. PhaseFits
  <2>1. left \in Seq(Modules) /\ quit \in BOOLEAN /\ at \in {"call", "timers", "rest", "returned"}
    <3>1. left \in Seq(Modules)
      BY <1>1
    <3>2. quit \in BOOLEAN
      BY <1>1
    <3>3. at \in {"call", "timers", "rest", "returned"}
      BY <1>1
    <3> QED
      BY <3>1, <3>2, <3>3
  <2>2. phase = "loading" /\ at # "returned"
    BY <1>1
  <2> QED
    BY <2>1, <2>2 DEF PhaseFits
<1>5. phase \notin Holding
  BY <1>1 DEF Holding, Middle
<1>6. ModsFit
  <2>1. Len(mods) <= Len(Conf)
    BY <1>1 DEF ConfFits
  <2> QED
    BY <1>1, <1>5, <2>1 DEF ModsFit
<1>7. RegisteredFits
  BY <1>1, <1>2 DEF RegisteredFits
<1>8. HeldFits
  BY <1>1, <1>2 DEF HeldFits
<1>9. RefsFit
  <2>1. \A i : Holders(i) = {} /\ Own(i) = 0
    BY <1>2, <1>5 DEF Holders, Own
  <2>2. Cardinality({}) = 0
    BY FS_EmptySet
  <2>3. refs \in [Modules -> Int] /\ \A i \in Modules : refs[i] = 0
    BY <1>1
  <2>4. \A i \in Modules : refs[i] = Cardinality(Holders(i)) + Own(i)
    BY <2>1, <2>2, <2>3
  <2>5. \A i \in Modules : refs[i] >= Cardinality(Holders(i)) + Own(i)
    BY <2>3, <2>4
  <2> QED
    BY <2>3, <2>4, <2>5 DEF RefsFit
<1>10. TimersFit /\ QueueFits
  BY <1>1 DEF TimersFit, QueueFits
<1>11. \A t \in Threaded : threads[t].at = "none" /\ threads[t].asked = <<>> /\ threads[t].code = {} /\ threads[t] \in ThreadRecord
  BY <1>1 DEF ThreadRecord
<1>12. ThreadsFit
  <2>1. threads \in [Threaded -> ThreadRecord]
    BY <1>1, <1>11
  <2>2. DOMAIN threads["mysql"].asked = {}
    BY <1>11 DEF Threaded
  <2> QED
    BY <1>11, <2>1, <2>2 DEF ThreadsFit, Waiting
<1>13. PersistFits
  <2>1. PICK q : q = threads["persist"]
    OBVIOUS
  <2>2. q.asked = <<>> /\ q.at = "none" /\ q.code = {}
    BY <1>11, <2>1 DEF Threaded
  <2>3. DOMAIN q.asked = {}
    BY <2>2
  <2> QED
    BY <1>1, <2>1, <2>2, <2>3 DEF PersistFits
<1> QED
  BY <1>3, <1>4, <1>6, <1>7, <1>8, <1>9, <1>10, <1>12, <1>13 DEF ServerInv, ModuleInv

\* Every step of main, of a thread, of a worker or from outside keeps the invariant.
LEMMA NextKeeps ==
    ASSUME ServerInv, ConfFits, RemovalsFit, [Next]_vars
    PROVE  ServerInv'
<1>1. Modules \subseteq Names
  BY DEF ConfFits
<1>2. ASSUME Main PROVE ServerInv'
  <2>1. ASSUME phase \in {"running", "unloading"}, LoopStep, UNCHANGED <<moduleVars, threads, mainVars>> PROVE ServerInv'
    BY <1>1, <2>1, LoopStepKeeps
  <2>2. ASSUME UnloadStep PROVE ServerInv'
    BY <1>1, <2>2, UnloadStepKeeps
  <2>3. ASSUME LoadNext \/ PostLoad PROVE ServerInv'
    BY <2>3, LoadNextKeeps, PostLoadKeeps
  <2>4. ASSUME Stabilize \/ LooksAtDone \/ FallsAsleep PROVE ServerInv'
    BY <1>1, <2>4, StabilizeKeeps, WaitingKeeps
  <2>5. ASSUME PreUnload \/ UnloadLast \/ Ends PROVE ServerInv'
    BY <1>1, <2>5, PreUnloadKeeps, UnloadLastKeeps, EndsKeeps
  <2> QED
    BY <1>2, <2>1, <2>2, <2>3, <2>4, <2>5 DEF Main
<1>3. ASSUME Outside PROVE ServerInv'
  <2>1. ASSUME NetReceives({"net"}) \/ NetReceives({"playerdata"}) PROVE ServerInv'
    <3>1. {"net"} \in {{"net"}, {"playerdata"}} /\ {"playerdata"} \in {{"net"}, {"playerdata"}}
      OBVIOUS
    <3> QED
      BY <1>1, <2>1, <3>1, NetReceivesKeeps
  <2>2. ASSUME NEW m \in Removable, Command(m) PROVE ServerInv'
    BY <2>2, CommandKeeps
  <2>3. ASSUME NEW m \in {"game", "fake"} \cap Modules, HandlerQueues(m) PROVE ServerInv'
    <3>1. m \in {"game", "fake"} /\ m \in Modules
      OBVIOUS
    <3> QED
      BY <1>1, <2>3, <3>1, HandlerQueuesKeeps
  <2>4. ASSUME NEW m \in {"core", "arenaman"}, TimerAsks(m) PROVE ServerInv'
    BY <2>4, TimerAsksKeeps
  <2>5. ASSUME NEW m, ArenaWorks(m) PROVE ServerInv'
    BY <2>5, ArenaWorksKeeps
  <2>6. ASSUME Quit \/ HandlerAsks \/ ArenaDrains PROVE ServerInv'
    BY <1>1, <2>6, QuitKeeps, HandlerAsksKeeps, ArenaDrainsKeeps
  <2> QED
    BY <1>3, <2>1, <2>2, <2>3, <2>4, <2>5, <2>6 DEF Outside
<1>4. ASSUME NEW m \in Threaded, Thread(m) PROVE ServerInv'
  BY <1>1, <1>4, AddsKeeps, CallsKeeps, TakesMessageKeeps DEF Thread
<1>5. ASSUME NEW w \in Workers, Worker(w) PROVE ServerInv'
  BY <1>5, WorkerKeeps
<1>6. ASSUME UNCHANGED vars PROVE ServerInv'
  <2>1. /\ quit' = quit /\ at' = at /\ stack' = stack /\ queue' = queue /\ timers' = timers /\ moduleVars' = moduleVars
        /\ threads' = threads /\ phase' = phase /\ left' = left /\ done' = done
    BY <1>6 DEF vars, loopVars, moduleVars
  <2> QED
    BY <2>1, Stays DEF ServerInv
<1>7. ASSUME WakesUp PROVE ServerInv'
  BY <1>7, WaitingKeeps
<1> QED
  BY <1>2, <1>3, <1>4, <1>5, <1>6, <1>7 DEF Next

----------------------------------------------------------------------------
(* The properties.                                                         *)

\* Main, the queue, the timers and the threads run the code of loaded modules, or of directory.
LEMMA FitsLeavesNothing ==
    ASSUME ServerInv, Modules \subseteq Names
    PROVE  NothingLeftBehind
<1>1. SUFFICES ASSUME NEW m, m \in Modules, m \notin Loaded, m # "directory", Awaited(m) PROVE FALSE
  BY DEF NothingLeftBehind
<1>2. \A c : Backed(c) => m \notin c
  BY <1>1 DEF Backed
<1>3. StackFits(stack)
  BY DEF ServerInv, Fits
<1>4. ASSUME NEW i \in DOMAIN stack, m \in stack[i].code PROVE FALSE
  <2>1. stack[i] \in Frame /\ DOMAIN stack = 1 .. Len(stack) /\ Len(stack) \in Nat
    BY <1>3 DEF StackFits, Shape
  <2>2. \A j \in DOMAIN stack : stack[j].does # "drain" => m \notin stack[j].code
    <3>1. ASSUME NEW j \in DOMAIN stack, stack[j].does # "drain", m \in stack[j].code PROVE FALSE
      <4>1. stack[j] \in Frame
        BY <1>3 DEF StackFits, Shape
      <4>2. stack[j].does \in {"function", "timer", "unload"}
        BY <3>1, <4>1 DEF Frame
      <4> QED
        BY <1>1, <1>2, <1>3, <3>1, <4>2 DEF StackFits
    <3> QED
      BY <3>1
  <2>3. stack[i].does = "drain"
    BY <1>4, <2>2
  <2>4. /\ i > 1 /\ stack[i].code = stack[i - 1].code
        /\ AtDrain(stack[i - 1]) \/ stack[i - 1].does = "timer"
    BY <1>3, <2>3 DEF StackFits, Shape
  <2>5. i - 1 \in DOMAIN stack /\ stack[i - 1].does # "drain"
    BY <2>1, <2>4 DEF AtDrain, UnloadOf
  <2> QED
    BY <1>4, <2>2, <2>4, <2>5
<1>5. ASSUME NEW i \in DOMAIN queue, m \in queue[i] PROVE FALSE
  BY <1>2, <1>5 DEF ServerInv, QueueFits
<1>6. ASSUME NEW t \in timers, t.mod = m PROVE FALSE
  BY <1>1, <1>6 DEF ServerInv, TimersFit, Alive
<1>7. ASSUME NEW t \in Threaded, (t = m /\ threads[t].at # "none") \/ m \in threads[t].code PROVE FALSE
  BY <1>1, <1>2, <1>7 DEF ServerInv, ThreadsFit, Alive
<1> QED
  BY <1>1, <1>4, <1>5, <1>6, <1>7 DEF Awaited

\* What holds an interface and is not being unloaded finds it registered and counted.
LEMMA FitsHoldsRegistered ==
    ASSUME ServerInv, Modules \subseteq Names
    PROVE  HeldIsRegistered
<1>1. HeldFits /\ RefsFit /\ ModsFit
  BY DEF ServerInv, ModuleInv
<1>2. ASSUME NEW m, ~BeingUnloaded(m) PROVE ~Past(m, "release")
  BY <1>2 DEF BeingUnloaded, Past, PastIn, UnloadOf
<1>3. ASSUME NEW m \in Loaded, ~BeingUnloaded(m) PROVE held[m] \subseteq registered
  BY <1>1, <1>2, <1>3 DEF HeldFits
<1>4. ASSUME NEW i \in Modules
      PROVE  refs[i] >= Cardinality({m \in Loaded : ~BeingUnloaded(m) /\ i \in held[m]})
  <2>1. PICK S, H : S = {m \in Loaded : ~BeingUnloaded(m) /\ i \in held[m]} /\ H = Holders(i)
    OBVIOUS
  <2>2. S \subseteq H /\ H \subseteq Modules
    BY <1>1, <1>2, <2>1 DEF Holders, ModsFit, Loaded, ToSet
  <2>3. IsFiniteSet(H) /\ Cardinality(H) \in Nat
    BY <2>2, ModulesFinite
  <2>4. Cardinality(S) <= Cardinality(H) /\ Cardinality(S) \in Nat
    <3>1. S \in SUBSET H
      BY <2>2
    <3>2. S \subseteq Modules
      BY <2>2
    <3> QED
      BY <2>3, <3>1, <3>2, FS_Subset, ModulesFinite
  <2>5. refs[i] >= Cardinality(H) + Own(i) /\ Own(i) \in {0, 1} /\ refs[i] \in Int
    BY <1>1, <2>1 DEF RefsFit, Own
  <2>6. refs[i] >= Cardinality(S)
    BY <2>3, <2>4, <2>5
  <2> QED
    BY <2>1, <2>6
<1> QED
  BY <1>3, <1>4 DEF HeldIsRegistered

\* When the main loop goes, nobody is left to queue a function, and none is.
LEMMA FitsThrowsNothingAway ==
    ASSUME ServerInv, ConfFits, RemovalsFit
    PROVE  NothingThrownAway
<1>1. SUFFICES ASSUME Unloading, Step = "shutdown", queue # <<>> PROVE FALSE
  BY DEF NothingThrownAway
<1>2. Modules \subseteq Names
  BY DEF ConfFits
<1>3. PICK p : p = Leaving
  OBVIOUS
<1>4. /\ p \in Modules /\ UnloadOf(stack[Len(stack)], p)
      /\ stack[Len(stack)].pc \in DOMAIN Steps(p) /\ Steps(p)[stack[Len(stack)].pc] = "shutdown"
      /\ \/ phase = "running" /\ p \in Removable
         \/ phase = "unloading" /\ Len(stack) = 1 /\ mods = Append(left, p)
  BY <1>1, <1>2, <1>3, LeavingIs
<1>5. p = "mainloop"
  BY <1>2, <1>4, OrdersFit DEF OrderFits
<1>6. phase = "unloading" /\ Len(stack) = 1 /\ mods = Append(left, "mainloop")
  BY <1>4, <1>5 DEF RemovalsFit
<1>7. PICK s \in Sponsors : Alive(s, "drain")
  <2>1. Backed(Head(queue))
    BY <1>1, QueueShrinks DEF ServerInv
  <2> QED
    BY <2>1 DEF Backed
<1>8. HeldFits /\ ModsFit /\ PhaseFits
  BY DEF ServerInv, ModuleInv
<1>9. PICK a \in DOMAIN mods : mods[a] = s
  BY <1>7 DEF Alive, Loaded, ToSet
<1>10. s \in Modules /\ s # "mainloop" /\ s \in Loaded
  BY <1>7, <1>8, <1>9 DEF ModsFit, Sponsors, Alive
<1>11. ~Past(s, "release")
  <2>1. stack \in Seq(Frame)
    BY DEF ServerInv, Fits, StackFits, Shape
  <2>2. \A i \in DOMAIN stack : i = Len(stack)
    BY <1>6, <2>1
  <2>3. \A i \in DOMAIN stack : ~UnloadOf(stack[i], s)
    BY <1>4, <1>5, <1>10, <2>2 DEF UnloadOf
  <2> QED
    BY <2>3 DEF Past, PastIn
<1>12. "mainloop" \in held[s]
  <2>1. "mainloop" \in Programs[s].must
    BY <1>2, <1>10, NeedsAreMet DEF NeedsFit
  <2> QED
    BY <1>4, <1>5, <1>8, <1>10, <2>1 DEF HeldFits
<1>13. left \in Seq(Modules)
  BY <1>8 DEF PhaseFits
<1>14. /\ DOMAIN mods = 1 .. Len(left) + 1 /\ mods[Len(left) + 1] = "mainloop" /\ Len(left) \in Nat
  BY <1>4, <1>5, <1>6, <1>13
<1>15. PICK b : b = Len(left) + 1
  OBVIOUS
<1>16. b \in DOMAIN mods /\ mods[b] = "mainloop"
  BY <1>14, <1>15
<1>17. GotLate(s) = {}
  BY <1>6 DEF GotLate, Holding, Middle
<1>18. b < a
  BY <1>8, <1>9, <1>11, <1>12, <1>16, <1>17 DEF HeldFits
<1> QED
  BY <1>14, <1>15, <1>18, <1>9

\* main() ends when the list of modules is empty.
LEMMA FitsUnloadsAll ==
    ASSUME ServerInv
    PROVE  AllUnloaded
BY DEF ServerInv, PhaseFits, AllUnloaded, Loaded, ToSet

\* The inductive invariant of main(), RunLoop, the module manager and the threads that queue
\* functions (module.c, cmod.c, mainloop.c, main.c, persist.c, mysql.c, net.c).
THEOREM ServerInvariant ==
    ASSUME ConfFits, RemovalsFit
    PROVE  Spec => []ServerInv
<1>1. Init => ServerInv
  BY InitFits
<1>2. ServerInv /\ [Next]_vars => ServerInv'
  BY NextKeeps
<1> QED
  BY <1>1, <1>2, PTL DEF Spec

\* When a module is off the list (unload_c_module closes its library), main, its queue, the
\* timers and the threads no longer run its code, directory's apart, and a module that is not
\* being unloaded finds every interface that it holds registered.
THEOREM UnloadingStaysSafe ==
    ASSUME ConfFits, RemovalsFit
    PROVE  Spec => []UnloadingIsSafe
<1>1. ServerInv => UnloadingIsSafe
  BY FitsLeavesNothing, FitsHoldsRegistered DEF UnloadingIsSafe, ConfFits
<1> QED
  BY <1>1, ServerInvariant, PTL

\* When main() has unloaded the modules in reverse order and ends, none is left, and no function
\* was thrown away with the queue of the main loop.
THEOREM ShutDownStaysClean ==
    ASSUME ConfFits, RemovalsFit
    PROVE  Spec => []ShutDownIsClean
<1>1. ServerInv => ShutDownIsClean
  BY FitsUnloadsAll, FitsThrowsNothingAway DEF ShutDownIsClean
<1> QED
  BY <1>1, ServerInvariant, PTL
=============================================================================
