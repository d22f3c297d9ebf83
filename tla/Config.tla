-------------------------------- MODULE Config --------------------------------
(***************************************************************************)
(* config.c: one file of settings, the handles that modules have of it,    *)
(* and what each of them has read.  A setting that is changed is seen at   *)
(* once by who asks, is told to the modules at the next flush, and is      *)
(* written to the end of the file when it is permanent.  Timers and the    *)
(* commands that call the module run on main.  (Bounds: the strings that   *)
(* GetStr returned are not kept; the file can be written, or config.c      *)
(* would drop the settings; it is edited only while nothing waits to be    *)
(* written, or it would not notice.)                                       *)
(***************************************************************************)
EXTENDS Clients

CONSTANTS
    Keys,       \* the settings, each a pair of a section and a key
    NoValue,    \* what a setting without a line has
    Holders     \* the modules that open the file

----------------------------------------------------------------------------
(* What app.c, the preprocessor of configuration files, and do_load make   *)
(* of a file: a sequence of lines, each a record whose field "line" tells  *)
(* what it is.  (Bounds: no file includes itself, for nothing but memory   *)
(* and file descriptors stop #include; long and continued lines are left   *)
(* out.)                                                                   *)

\* APPInitContext and APPAddFile: the files being read, the innermost first; the open #if
\* blocks, the innermost first; the names defined; the lines that got through.
Context(file) == [file |-> <<file>>, ifs |-> <<>>, defs |-> {}, out |-> <<>>]

\* update_processing.
Skips(block) == IF block.where = "if" THEN ~block.cond ELSE block.cond
Processing(ctx) == \A i \in DOMAIN ctx.ifs : ~Skips(ctx.ifs[i])

PushIf(ctx, cond) == [ctx EXCEPT !.ifs = <<[where |-> "if", cond |-> cond]>> \o @]

\* #else and #endif without a block, and a second #else, are reported and change nothing.
SwitchIf(ctx) ==
    IF ctx.ifs = <<>> \/ ctx.ifs[1].where = "else" THEN ctx ELSE [ctx EXCEPT !.ifs[1].where = "else"]
PopIf(ctx) == IF ctx.ifs = <<>> THEN ctx ELSE [ctx EXCEPT !.ifs = Tail(@)]

\* handle_directive, or a line that is not a directive: what is not skipped goes on.
Handle(ctx, l, included) ==
    CASE l.line = "ifdef" -> PushIf(ctx, l.name \in ctx.defs)
      [] l.line = "ifndef" -> PushIf(ctx, l.name \notin ctx.defs)
      [] l.line = "else" -> SwitchIf(ctx)
      [] l.line = "endif" -> PopIf(ctx)
      [] l.line \notin {"ifdef", "ifndef", "else", "endif"} /\ ~Processing(ctx) -> ctx
      [] l.line = "define" /\ Processing(ctx) -> [ctx EXCEPT !.defs = @ \cup {l.name}]
      [] l.line = "undef" /\ Processing(ctx) -> [ctx EXCEPT !.defs = @ \ {l.name}]
      [] l.line = "include" /\ Processing(ctx) -> [ctx EXCEPT !.file = <<included>> \o @]
      [] l.line \in {"section", "set", "key"} /\ Processing(ctx) -> [ctx EXCEPT !.out = Append(@, l)]

\* APPGetLine: the next line of the innermost file, which is left at its end.
GetLine(ctx, included) ==
    IF ctx.file = <<>> THEN ctx
    ELSE IF ctx.file[1] = <<>> THEN [ctx EXCEPT !.file = Tail(@)]
    ELSE Handle([ctx EXCEPT !.file[1] = Tail(@)], ctx.file[1][1], included)

\* All lines that get through.
Lines(file, included) ==
    LET includes == Cardinality({i \in DOMAIN file : file[i].line = "include"})
        most == Len(file) + includes * (Len(included) + 1) + 1
        ctx[k \in 0 .. most] == IF k = 0 THEN Context(file) ELSE GetLine(ctx[k - 1], included)
    IN  ctx[most].out

\* do_load: a section holds until the next one; a line that names its section does not
\* change it; a key before the first section is reported, but a key without a value stands.
Enter1(s, l) ==
    CASE l.line = "section" -> [s EXCEPT !.sec = l.name]
      [] l.line = "set" ->
           LET sec == IF l.sec = "" THEN s.sec ELSE l.sec
           IN  IF sec = "" THEN s ELSE [s EXCEPT !.table[<<sec, l.key>>] = l.val]
      [] l.line = "key" -> IF s.sec = "" THEN s ELSE [s EXCEPT !.table[<<s.sec, l.key>>] = ""]

DoLoad(file, included) ==
    FoldLeft(Enter1, [sec |-> "", table |-> [k \in Keys |-> NoValue]], Lines(file, included)).table

----------------------------------------------------------------------------
(* The module.                                                             *)

VARIABLES
    ondisk,      \* the lines of the file
    mtime,       \* when it was last written
    loaded,      \* there is a ConfigFile
    table,       \* the settings
    dirty,       \* the permanent ones to be written, in order
    anychanged,  \* the callbacks are to be called
    lastmod,     \* the mtime of what was loaded or written last
    handles,     \* the holders that have it open
    cached,      \* what each holder has read
    brief,       \* the settings last set for a time only, since they were loaded
    promised     \* what each setting was last made for good, unless it was edited since

configvars == <<ondisk, mtime, loaded, table, dirty, anychanged, lastmod, handles, cached, brief, promised>>

NoSettings == [k \in Keys |-> NoValue]
Line1(k, v) == [line |-> "set", sec |-> k[1], key |-> k[2], val |-> v]

ConfigInit ==
    /\ ondisk \in conf.contents /\ mtime = 0
    /\ loaded = FALSE /\ table = NoSettings /\ dirty = <<>> /\ anychanged = FALSE /\ lastmod = 0
    /\ handles = {} /\ cached = [h \in Holders |-> NoSettings] /\ brief = {} /\ promised = NoSettings

\* The callbacks: each holder reads the settings again.
Told(t) == [h \in Holders |-> IF h \in handles THEN t ELSE cached[h]]

\* OpenConfigFile, and then the holder reads the settings.
OpenConfigFile(h) ==
    /\ h \notin handles /\ handles' = handles \cup {h} /\ loaded' = TRUE
    /\ table' = IF loaded THEN table ELSE DoLoad(ondisk, conf.included)
    /\ lastmod' = IF loaded THEN lastmod ELSE mtime
    /\ brief' = IF loaded THEN brief ELSE {}
    /\ cached' = [cached EXCEPT ![h] = table']
    /\ UNCHANGED <<ondisk, mtime, dirty, anychanged, promised>>

\* CloseConfigFile: the file stays until the next flush.
CloseConfigFile(h) ==
    /\ h \in handles /\ handles' = handles \ {h}
    /\ cached' = [cached EXCEPT ![h] = NoSettings]
    /\ UNCHANGED <<ondisk, mtime, loaded, table, dirty, anychanged, lastmod, brief, promised>>

\* SetStr; nothing is done when the setting has that value already.  (Bounds: unless
\* conf.again, what is set for a time is not made permanent with the same value; nothing is
\* made permanent between an edit and its reload.)
SetStr(k, v, perm) ==
    /\ handles # {} /\ Len(dirty) < conf.maxDirty
    /\ perm => lastmod = mtime /\ (conf.again \/ k \notin brief \/ table[k] # v)
    /\ promised' = IF perm THEN [promised EXCEPT ![k] = v] ELSE promised
    /\ IF table[k] = v THEN UNCHANGED <<table, dirty, anychanged, brief>>
       ELSE /\ table' = [table EXCEPT ![k] = v] /\ anychanged' = TRUE
            /\ dirty' = IF perm THEN Append(dirty, Line1(k, v)) ELSE dirty
            /\ brief' = IF perm THEN brief \ {k} ELSE brief \cup {k}
    /\ UNCHANGED <<ondisk, mtime, loaded, lastmod, handles, cached>>

\* write_dirty_values_one, but for the callbacks.
WriteDirtyValues ==
    /\ ondisk' = ondisk \o dirty /\ dirty' = <<>>
    /\ mtime' = IF dirty = <<>> THEN mtime ELSE mtime + 1
    /\ anychanged' = FALSE

\* Mistaken variant of the next: the file is freed before it is written.
FreeFirst ==
    /\ loaded /\ mtime < conf.maxWrites
    /\ IF handles = {}
         THEN /\ loaded' = FALSE /\ table' = NoSettings /\ dirty' = <<>> /\ anychanged' = FALSE
              /\ UNCHANGED <<ondisk, mtime, lastmod, cached>>
         ELSE /\ WriteDirtyValues /\ lastmod' = IF dirty = <<>> THEN lastmod ELSE mtime'
              /\ cached' = (IF anychanged THEN Told(table) ELSE cached)
              /\ UNCHANGED <<loaded, table>>
    /\ UNCHANGED <<handles, brief, promised>>

\* write_dirty_values, by the timer or ?flush...: a file that nobody has open is written,
\* and freed without a callback.
Flush ==
    /\ loaded /\ mtime < conf.maxWrites /\ WriteDirtyValues
    /\ lastmod' = IF dirty = <<>> THEN lastmod ELSE mtime'
    /\ cached' = IF anychanged THEN Told(table) ELSE cached
    /\ loaded' = (handles # {})
    /\ table' = IF handles = {} THEN NoSettings ELSE table
    /\ UNCHANGED <<handles, brief, promised>>

\* reload_file: what is dirty is written, and all is loaded again.
ReloadFile ==
    /\ WriteDirtyValues /\ lastmod' = mtime'
    /\ table' = DoLoad(ondisk', conf.included)
    /\ cached' = Told(table')
    /\ brief' = {} /\ UNCHANGED <<loaded, handles, promised>>

\* maybe_reload_files, by the timer when the file has changed, or ?reloadconf.
MaybeReload(force) ==
    /\ loaded /\ mtime < conf.maxWrites /\ (force \/ mtime # lastmod) /\ ReloadFile

\* Somebody edits the file.
Edit ==
    /\ dirty = <<>> /\ mtime < conf.maxWrites
    /\ \E text \in conf.contents \ {ondisk} : ondisk' = text
    /\ mtime' = mtime + 1 /\ promised' = NoSettings
    /\ UNCHANGED <<loaded, table, dirty, anychanged, lastmod, handles, cached, brief>>

ConfigStep ==
    \/ \E h \in Holders : OpenConfigFile(h) \/ CloseConfigFile(h)
    \/ \E k \in Keys, v \in conf.values, perm \in BOOLEAN : SetStr(k, v, perm)
    \/ Flush \/ Edit \/ \E force \in BOOLEAN : MaybeReload(force)
-----------------------------------------------------------------------------
\* "If permanent is true, this change will eventually be written back": what a setting was
\* last made for good, and nobody has edited since, is what the file says with what waits to
\* be written at its end, however it is preprocessed.
PermanentIsWritten ==
    \A k \in Keys : promised[k] # NoValue => DoLoad(ondisk \o dirty, conf.included)[k] = promised[k]

\* It stays so when the file is flushed, reloaded, freed and loaded again; and when the file
\* has no change that is still to be noticed, the table has what the file says and what was
\* set for a time, nothing else.
SettingsAreOnDisk ==
    /\ PermanentIsWritten
    /\ loaded /\ lastmod = mtime => \A k \in Keys \ brief :
           table[k] = DoLoad(ondisk \o dirty, conf.included)[k]

\* A module that keeps settings is out of date only until the next flush: what it has read
\* is what the table says, or the callbacks are still to be called.
ReadersFollow == \A h \in handles : anychanged \/ cached[h] = table

\* What is set is kept, and whoever reads settings has them.
SettingsAgree == Has("config") => SettingsAreOnDisk /\ ReadersFollow
=============================================================================
