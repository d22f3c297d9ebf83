------------------------------ MODULE Transfers ------------------------------
(***************************************************************************)
(* Files between clients and server: the uploads and downloads of          *)
(* filetrans.c, the sized packets of net.c that carry them, and those who  *)
(* ask for them: sendfile.c, admincmd.c, quickfix.c.  What is in a file,   *)
(* and how many chunks it takes, is left out.  One thread receives and one *)
(* sends; a handler of either is one step.                                 *)
(***************************************************************************)
EXTENDS Clients

CONSTANTS
    TempFiles,  \* the names mkstemp may give
    NoFile

ASSUME TransfersAssumption == IsFiniteSet(Players) /\ NoFile \notin TempFiles

VARIABLES
    ud,         \* struct upload_data of each player
    receiving,  \* the players whose sizedrecv.offset is not 0
    sends,      \* how many downloads each has in conn->sizedsends
    offers,     \* offers of ?sendfile: a list, but one at most is from or to each player
    asked,      \* how many requests for a file each client has not answered yet
    bigs,       \* the players with a whole file in the queue of the main loop
    disk,       \* the files tmp/uploaded-* that exist
    opened,     \* how many FILEs are open
    owed        \* how many calls of "uploaded" the callers of RequestFile wait for

transvars == <<ud, receiving, sends, offers, asked, bigs, disk, opened, owed>>

\* uploaded and clos: nothing, something of admincmd's, or the transfer_data of sendfile,
\* of which the recipient counts.
Nothing == [for |-> "nobody", to |-> NoPlayer]
PutFile == [for |-> "admincmd", to |-> NoPlayer]
Offered(to) == [for |-> "sendfile", to |-> to]

NoUpload == [fp |-> FALSE, fname |-> NoFile, uploaded |-> Nothing]

TransfersInit ==
    /\ ud = [p \in Players |-> NoUpload] /\ receiving = {} /\ sends = [p \in Players |-> 0]
    /\ offers = {} /\ asked = [p \in Players |-> 0] /\ bigs = {}
    /\ disk = {} /\ opened = 0 /\ owed = 0

----------------------------------------------------------------------------
(* filetrans.c.                                                            *)

\* What cleanup_ud does for upload u of a player: the file is closed, and removed, renamed
\* or sent on, and unlinked then, by whoever asked for it.
Cleanup(u, success) ==
    LET to == u.uploaded.to
        forward == success /\ u.uploaded.for = "sendfile" /\ phase[to] \in {"arriving", "playing"}
    IN  /\ disk' = disk \ {u.fname}
        /\ opened' = opened - (IF u.fp THEN 1 ELSE 0) + (IF forward THEN 1 ELSE 0)
        /\ sends' = IF forward THEN [sends EXCEPT ![to] = @ + 1] ELSE sends
        /\ owed' = IF u.uploaded # Nothing THEN owed - 1 ELSE owed

CleanupUd(p, success) == Cleanup(ud[p], success) /\ ud' = [ud EXCEPT ![p] = NoUpload]

CanRequest(p) == ~ud[p].fp /\ ud[p].fname = NoFile

\* RequestFile, of a standard client.
RequestFile(p, uploaded) ==
    IF CanRequest(p)
      THEN /\ ud' = [ud EXCEPT ![p].uploaded = uploaded]
           /\ asked' = [asked EXCEPT ![p] = @ + 1] /\ owed' = owed + 1
      ELSE UNCHANGED <<ud, asked, owed>>

\* Bounds: the calls owed, and, with one request at a time, that nobody asks for a second
\* file before the first has come.
MayAsk(p) ==
    /\ owed < conf.owed
    /\ conf.requests = 1 => asked[p] = 0 /\ p \notin bigs \cup receiving

\* net.c: one more download waits for its turn.
SendSized(p) == sends' = [sends EXCEPT ![p] = @ + 1]

\* SendFile: ?getfile, ?quickfix; a file that is deleted after is unlinked at once.
SendFile(p) ==
    /\ phase[p] = "playing" /\ sends[p] < conf.sends
    /\ SendSized(p) /\ opened' = opened + 1
    /\ UNCHANGED <<conf, clientvars, ud, receiving, offers, asked, bigs, disk, owed>>

\* ?putfile, ?putzip, ?putmap; on an error the caller is told, or leaks his memory.
Cputfile(p) ==
    /\ phase[p] = "playing" /\ MayAsk(p) /\ RequestFile(p, PutFile)
    /\ UNCHANGED <<conf, clientvars, receiving, sends, offers, bigs, disk, opened>>

----------------------------------------------------------------------------
(* sendfile.c.                                                             *)

IsSending(p) == \E o \in offers : o.from = p
IsRecving(p) == \E o \in offers : o.to = p

Csendfile(p, t) ==
    /\ phase[p] = "playing" /\ phase[t] = "playing" /\ p # t
    /\ sends[t] < conf.sends
    /\ ~IsSending(p) /\ ~IsRecving(t)
    /\ offers' = offers \cup {[from |-> p, to |-> t]}
    /\ UNCHANGED <<conf, clientvars, ud, receiving, sends, asked, bigs, disk, opened, owed>>

\* Mistaken variant: only what he offers is cancelled.
OnlyTheirs(p) == offers' = {o \in offers : o.from # p}

CancelFiles(p) == offers' = {o \in offers : o.from # p /\ o.to # p}

Ccancelfile(p) ==
    /\ phase[p] = "playing" /\ offers # {} /\ CancelFiles(p)
    /\ UNCHANGED <<conf, clientvars, ud, receiving, sends, asked, bigs, disk, opened, owed>>

Cacceptfile(p) ==
    /\ phase[p] = "playing"
    /\ \E o \in offers :
          /\ o.to = p /\ MayAsk(o.from) /\ RequestFile(o.from, Offered(p))
          /\ offers' = offers \ {o}
    /\ UNCHANGED <<conf, clientvars, receiving, sends, bigs, disk, opened>>

----------------------------------------------------------------------------
(* What the client sends: the file in sized packets, which the network     *)
(* threads handle, or, if it is small, in one, which waits for the main    *)
(* loop.  Neither asks whether the player is on his way out.               *)

\* The first sized packet: sized_p_inc_file makes the file, if he is allowed to and mkstemp
\* works.
UploadBegins(p) ==
    /\ phase[p] # "free" /\ asked[p] > 0 /\ p \notin receiving
    /\ asked' = [asked EXCEPT ![p] = @ - 1]
    /\ receiving' = receiving \cup {p}
    /\ \/ \E file \in TempFiles \ disk :
             /\ ~ud[p].fp
             /\ ud' = [ud EXCEPT ![p].fp = TRUE, ![p].fname = file]
             /\ disk' = disk \cup {file} /\ opened' = opened + 1
       \/ UNCHANGED <<ud, disk, opened>>
    /\ UNCHANGED <<conf, clientvars, sends, offers, bigs, owed>>

\* Mistaken variant: an upload that is cancelled closes its file only.
OnlyClosed(p, success) ==
    IF p \in receiving /\ (success => ud[p].fp)
      THEN IF success THEN CleanupUd(p, TRUE)
                      ELSE /\ ud' = [ud EXCEPT ![p] = NoUpload] /\ owed' = owed
                           /\ opened' = opened - (IF ud[p].fp THEN 1 ELSE 0)
                           /\ UNCHANGED <<disk, sends>>
      ELSE UNCHANGED <<ud, disk, opened, sends, owed>>

\* end_sized, which tells sized_p_inc_file.
EndSized(p, success) ==
    IF p \in receiving /\ (success => ud[p].fp)
      THEN CleanupUd(p, success)
      ELSE UNCHANGED <<ud, disk, opened, sends, owed>>

\* The last packet, ProcessCancel, or one that does not fit the length.
UploadEnds(p) ==
    /\ phase[p] # "free" /\ p \in receiving
    /\ \E success \in BOOLEAN : EndSized(p, success)
    /\ receiving' = receiving \ {p}
    /\ UNCHANGED <<conf, clientvars, offers, asked, bigs>>

\* ProcessBigData.
UploadIsQueued(p) ==
    /\ phase[p] # "free" /\ asked[p] > 0 /\ p \notin bigs
    /\ asked' = [asked EXCEPT ![p] = @ - 1] /\ bigs' = bigs \cup {p}
    /\ UNCHANGED <<conf, clientvars, ud, receiving, sends, offers, disk, opened, owed>>

\* Main calls the handlers of a packet that is no longer queued.
CallBigDataPacketFunctions(p) == p \in bigs /\ bigs' = bigs \ {p}

\* p_inc_file is such a handler: he may not, there is no temporary file to
\* be had, or there is one, and what it says of ud is overwritten.
PIncFile(p) ==
    /\ CallBigDataPacketFunctions(p)
    /\ \/ UNCHANGED <<ud, disk, opened, sends, owed>>
       \/ CleanupUd(p, FALSE)
       \/ \E file \in TempFiles \ disk, success \in BOOLEAN :
             /\ Cleanup([fp |-> FALSE, fname |-> file, uploaded |-> ud[p].uploaded], success)
             /\ ud' = [ud EXCEPT ![p] = NoUpload]
    /\ UNCHANGED <<conf, clientvars, receiving, offers, asked>>

\* queue_more_data with the last of a file, ProcessCancelReq: get_data closes it.
DownloadEnds(p) ==
    /\ phase[p] \notin {"free", "timewait"} /\ sends[p] > 0
    /\ sends' = [sends EXCEPT ![p] = @ - 1] /\ opened' = opened - 1
    /\ UNCHANGED <<conf, clientvars, ud, receiving, offers, asked, bigs, disk, owed>>

----------------------------------------------------------------------------
(* Players go.                                                             *)

\* PA_DISCONNECT: cancel_files, cleanup_ud.
TransfersDisconnect(p) ==
    /\ CancelFiles(p) /\ CleanupUd(p, FALSE)
    /\ UNCHANGED <<receiving, asked, bigs>>

\* Mistaken variant: only what is still to be sent is cleared.
OnlySends(p) ==
    /\ opened' = opened - sends[p] /\ sends' = [sends EXCEPT ![p] = 0]
    /\ ud' = [ud EXCEPT ![p] = NoUpload] /\ receiving' = receiving \ {p}
    /\ asked' = [asked EXCEPT ![p] = 0] /\ UNCHANGED <<offers, bigs, disk, owed>>

\* process_lagouts of a player in S_TIMEWAIT: end_sized, clear_buffers, FreePlayer.
TransfersFree(p) ==
    LET upload == p \in receiving
    IN  /\ ud' = [ud EXCEPT ![p] = NoUpload]
        /\ disk' = IF upload THEN disk \ {ud[p].fname} ELSE disk
        /\ owed' = IF upload /\ ud[p].uploaded # Nothing THEN owed - 1 ELSE owed
        /\ opened' = opened - sends[p] - (IF upload /\ ud[p].fp THEN 1 ELSE 0)
        /\ sends' = [sends EXCEPT ![p] = 0]
        /\ receiving' = receiving \ {p} /\ asked' = [asked EXCEPT ![p] = 0]
        /\ UNCHANGED <<offers, bigs>>

TransfersStep ==
    \E p \in Players :
        \/ SendFile(p) \/ Cputfile(p) \/ Ccancelfile(p) \/ Cacceptfile(p)
        \/ UploadBegins(p) \/ UploadEnds(p) \/ UploadIsQueued(p) \/ PIncFile(p) \/ DownloadEnds(p)
        \/ \E t \in Players : Csendfile(p, t)

----------------------------------------------------------------------------
(* Properties.                                                             *)

\* Every temporary file belongs to an upload, every open file to an upload or a download:
\* whatever is cancelled, refused or overtaken by the end of its player, nothing stays
\* behind on the disk or in the table of file descriptors.
FilesAreOwned ==
    LET uploads == {p \in Players : ud[p].fp}
    IN  /\ disk = {ud[p].fname : p \in uploads}
        /\ opened = Cardinality(uploads) + FoldFunctionOnSet(+, 0, sends, Players)

\* An offer is between two players who are there: the command that accepts it asks one for
\* the file, and names the other.
OffersAreLive ==
    \A o \in offers, p \in Players : p \in {o.from, o.to} => phase[p] \in {"loggedin", "playing", "leaving", "arriving"}

\* However uploads, downloads, offers, cancellations and departures overlap, nothing is left
\* behind and nothing is offered to or by somebody who is gone.
TransfersAgree == Has("files") => FilesAreOwned /\ OffersAreLive

\* "uploaded will get called when the file is done being uploaded.  [...] if filename ==
\* NULL, there was an error" (src/src/include/filetrans.h:18): each call that a caller of
\* RequestFile waits for is one that a player's upload will make.
RequestsCallBack == owed = Cardinality({p \in Players : ud[p].uploaded # Nothing})
=============================================================================
