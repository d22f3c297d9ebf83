------------------------------- MODULE Billing -------------------------------
(***************************************************************************)
(* The connection to the user database server, the biller, which knows the *)
(* passwords of the players: billing_ssc.c, a reliable connection of net,  *)
(* and billing.c, lines over TCP (conf.biller is "ssc" or "text").  Time   *)
(* limits may have run out whenever they are looked at.                    *)
(***************************************************************************)
EXTENDS Clients

VARIABLES
    bstate,     \* state
    linked,     \* cc or conn.socket: there is a connection
    losing,     \* got_disconnection has not set state yet
    logindata,  \* the players with pdata.logindata
    told,       \* the players with pdata.knowntobiller
    pending,    \* pending_auths
    out,        \* what is queued for the biller: the outlist of cc, or conn.outbufs
    answers,    \* what the biller has sent
    greeted,    \* the biller has read CONNECT on this connection
    online      \* the players the biller has let in on this connection

billvars == <<bstate, linked, losing, logindata, told, pending, out, answers, greeted, online>>

Ssc == conf.biller = "ssc"

Line(what, p) == [what |-> what, p |-> p]

\* Bound: what is on its way.
Quiet == Len(out) + Len(answers) < conf.lines

BillingInit ==
    /\ bstate = "no_socket" /\ linked = FALSE /\ losing = FALSE
    /\ logindata = {} /\ told = {} /\ pending = 0
    /\ out = <<>> /\ answers = <<>> /\ greeted = FALSE /\ online = {}

----------------------------------------------------------------------------
(* drop_connection.  What net has for a connection goes with it; the lines *)
(* in conn.outbufs and conn.inbuf stay.  The biller forgets whom it let in.*)

\* What has been received and not been processed yet, of which a model keeps one line;
\* reading the end of the stream frees it.
Kept(lines) == IF Ssc \/ lines = <<>> THEN {<<>>} ELSE {<<>>, <<Head(lines)>>}

Disconnected(received) ==
    /\ linked' = FALSE /\ told' = {}
    /\ out' = IF Ssc THEN <<>> ELSE out
    /\ answers' = received
    /\ greeted' = FALSE /\ online' = {}

Drop(newstate, received) == bstate' = newstate /\ Disconnected(received)

\* Bound: of what is queued for a biller that goes away.
MayLose == linked /\ (conf.loses = "anytime" \/ (conf.loses = "idle" /\ out = <<>>))

\* The biller or the network fails.  billing.c: do_sp_read returns sp_read_died.
\* billing_ssc.c: got_disconnection, called by a network thread, does not lock mtx ...
ConnectionLost ==
    /\ MayLose /\ ~losing
    /\ IF Ssc THEN /\ losing' = TRUE /\ UNCHANGED bstate
                   /\ Disconnected(<<>>)
              ELSE /\ bstate \in {"waitlogin", "loggedin"} /\ UNCHANGED losing
                   /\ Drop("retry", <<>>)
    /\ UNCHANGED <<conf, clientvars, logindata, pending>>

\* ... and sets the state last.
ConnectionIsLost ==
    /\ losing /\ losing' = FALSE /\ bstate' = "retry"
    /\ UNCHANGED <<conf, clientvars, linked, logindata, told, pending, out, answers, greeted, online>>

\* Cuserdbadm.
UserdbDrop ==
    /\ conf.commands /\ bstate # "disabled" /\ (linked => MayLose)
    /\ \E received \in Kept(answers) :
          IF Ssc \/ linked THEN Drop("disabled", received)
          ELSE bstate' = "disabled" /\ UNCHANGED <<linked, told, out, answers, greeted, online>>
    /\ UNCHANGED <<conf, clientvars, losing, logindata, pending>>

UserdbConnect ==
    /\ conf.commands /\ ~losing
    /\ bstate \in {"loginfailed", "disabled"} \cup (IF Ssc THEN {"retry"} ELSE {})
    /\ bstate' = "no_socket"
    /\ UNCHANGED <<conf, clientvars, linked, losing, logindata, told, pending, out, answers,
                   greeted, online>>

----------------------------------------------------------------------------
(* do_one_iter, called by a timer, and got_connection.                     *)

\* MakeClientConnection, get_socket.
GetSocket ==
    /\ bstate = "no_socket"
    /\ \/ bstate' = "connecting" /\ linked' = TRUE
       \/ bstate' = "retry" /\ UNCHANGED linked
    /\ UNCHANGED <<conf, clientvars, losing, logindata, told, pending, out, answers, greeted, online>>

\* got_connection; check_connected and then try_login.
SendConnect ==
    /\ bstate = "connecting" /\ linked /\ ~losing
    /\ bstate' = "waitlogin" /\ out' = Append(out, Line("CONNECT", NoPlayer))
    /\ UNCHANGED <<conf, clientvars, linked, losing, logindata, told, pending, answers, greeted,
                   online>>

ConnectFails ==
    /\ ~Ssc /\ bstate = "connecting" /\ Drop("retry", answers)
    /\ UNCHANGED <<conf, clientvars, losing, logindata, pending>>

\* Five seconds without getting kicked off.
AssumeGood ==
    /\ Ssc /\ bstate = "waitlogin" /\ ~losing /\ bstate' = "loggedin"
    /\ UNCHANGED <<conf, clientvars, linked, losing, logindata, told, pending, out, answers,
                   greeted, online>>

Retry ==
    /\ bstate = "retry" /\ ~losing /\ bstate' = "no_socket"
    /\ UNCHANGED <<conf, clientvars, linked, losing, logindata, told, pending, out, answers,
                   greeted, online>>

----------------------------------------------------------------------------
(* The players.                                                            *)

\* What the fallback, auth_file's, says of a password: a match, a mismatch, or that the
\* player is not found, when he is let in all the same.
FallbackResults == {"match", "mismatch", "notfound"}

\* authenticate of billing_ssc.c; the fallback answers before Check returns.
SscAuthenticate(p) ==
    /\ IF bstate = "loggedin" /\ pending < conf.maxPending
         THEN /\ Goes(p, "waiting") /\ logindata' = logindata \cup {p}
              /\ out' = IF linked THEN Append(out, Line("LOGIN", p)) ELSE out
              /\ told' = told \cup {p} /\ pending' = pending + 1
         ELSE /\ \E result \in FallbackResults :
                    Goes(p, IF bstate # "loggedin" /\ result # "mismatch" THEN "accepted" ELSE "connected")
              /\ told' = told \ {p}
              /\ UNCHANGED <<logindata, out, pending>>

\* authenticate of billing.c, where the next authenticator is the fallback.
TextAuthenticate(p) ==
    /\ IF bstate = "loggedin"
         THEN /\ Goes(p, "waiting")
              /\ out' = Append(out, Line("LOGIN", p)) /\ told' = told \cup {p}
         ELSE /\ \E ok \in BOOLEAN : Goes(p, IF ok THEN "accepted" ELSE "connected")
              /\ told' = told \ {p} /\ UNCHANGED out
    /\ UNCHANGED <<logindata, pending>>

\* Mistaken variant: an answer that lets nobody in leaves the count as it is.
OnlyAccepted(p, ok) ==
    /\ AuthDone(p, ok)
    /\ logindata' = logindata \ {p}
    /\ pending' = IF p \in logindata /\ ok THEN pending - 1 ELSE pending

\* process_user_login; process_pok and process_pbad of billing.c, who do not ask whether
\* an answer is expected.
Answered(p, ok) ==
    IF ~Ssc THEN AuthDone(p, ok) /\ UNCHANGED <<logindata, pending>>
    ELSE IF p \in logindata
      THEN AuthDone(p, ok) /\ logindata' = logindata \ {p} /\ pending' = pending - 1
      ELSE UNCHANGED <<phase, logindata, pending>>

\* Mistaken variant: who leaves an arena and the zone at once is not logged off.
OnlyFromArena(p) ==
    out' = IF p \in told /\ conf.biller = "text" THEN Append(out, Line("LOGOFF", p)) ELSE out

LogsOff(p) ==
    out' = IF p \in told /\ (linked \/ ~Ssc) THEN Append(out, Line("LOGOFF", p)) ELSE out

\* paction, PA_DISCONNECT.
BillingDisconnect(p) ==
    /\ LogsOff(p)
    /\ logindata' = logindata \ {p}
    /\ pending' = IF p \in logindata /\ p \in told THEN pending - 1 ELSE pending
    /\ told' = IF Ssc THEN told ELSE told \ {p}
    /\ UNCHANGED <<bstate, linked, losing, answers, greeted, online>>

\* The data of a new player is zero.
BillingForgets(p) ==
    /\ logindata' = logindata \ {p} /\ told' = told \ {p}
    /\ UNCHANGED <<bstate, linked, losing, pending, out, answers, greeted, online>>

\* onchatmsg, Cdefault, setbanner, PDemographics: something about a player who is known.
SaysToBiller(p) ==
    /\ conf.chat /\ Quiet /\ p \in told /\ phase[p] = "playing"
    /\ out' = IF linked \/ ~Ssc THEN Append(out, Line("CHAT", p)) ELSE out
    /\ UNCHANGED <<conf, clientvars, bstate, linked, losing, logindata, told, pending, answers,
                   greeted, online>>

----------------------------------------------------------------------------
(* The biller, as this code takes it to be: it lets players in after       *)
(* CONNECT, refuses the zone or not, and kicks whom it has let in.         *)

BillerHears ==
    /\ linked /\ out # <<>> /\ bstate \in {"waitlogin", "loggedin"} /\ ~losing
    /\ out' = Tail(out)
    /\ LET m == Head(out)
       IN  CASE m.what = "CONNECT" ->
                  /\ greeted' = TRUE /\ UNCHANGED online
                  /\ \E what \in {"OK", IF Ssc THEN "OK" ELSE "BAD"} :
                        answers' = Append(answers, Line(what, NoPlayer))
             [] m.what = "LOGIN" /\ greeted ->
                  /\ UNCHANGED greeted
                  /\ \/ online' = online \cup {m.p} /\ answers' = Append(answers, Line("OK", m.p))
                     \/ UNCHANGED online /\ answers' = Append(answers, Line("BAD", m.p))
             [] m.what = "LOGOFF" ->
                  online' = online \ {m.p} /\ UNCHANGED <<greeted, answers>>
             [] OTHER -> UNCHANGED <<greeted, online, answers>>
    /\ UNCHANGED <<conf, clientvars, bstate, linked, losing, logindata, told, pending>>

BillerKicks(p) ==
    /\ Quiet /\ linked /\ p \in online
    /\ answers' = Append(answers, Line("KICK", p))
    /\ UNCHANGED <<conf, clientvars, bstate, linked, losing, logindata, told, pending, out, greeted,
                   online>>

\* process_packet: any packet means that billing_ssc is logged in.  process_line: CONNECTOK
\* and CONNECTBAD.
ProcessPacket ==
    /\ linked /\ ~losing /\ answers # <<>> /\ bstate \in {"waitlogin", "loggedin"}
    /\ LET m == Head(answers)
           rest == Tail(answers)
       IN  IF m.p = NoPlayer /\ m.what = "BAD"
             THEN /\ \E received \in Kept(rest) : Drop("loginfailed", received)
                  /\ UNCHANGED <<clientvars, logindata, pending>>
             ELSE /\ answers' = rest
                  /\ bstate' = IF Ssc \/ m.p = NoPlayer THEN "loggedin" ELSE bstate
                  /\ CASE m.p = NoPlayer -> UNCHANGED <<clientvars, logindata, pending>>
                       [] m.what = "KICK" ->
                            IF phase[m.p] \in {"free", "timewait"}
                              THEN UNCHANGED <<clientvars, logindata, pending>>
                              ELSE KickPlayer(m.p) /\ UNCHANGED <<known, logindata, pending>>
                       [] OTHER -> Answered(m.p, m.what = "OK") /\ UNCHANGED <<going, known>>
                  /\ UNCHANGED <<linked, told, out, greeted, online>>
    /\ UNCHANGED <<conf, losing>>

\* do_one_iter, called by a timer of the main loop, and the packets of the biller.
Turn == GetSocket \/ SendConnect \/ ConnectFails \/ AssumeGood \/ Retry \/ ProcessPacket \/ ConnectionIsLost

BillingStep ==
    \/ Turn \/ BillerHears \/ ConnectionLost \/ UserdbDrop \/ UserdbConnect
    \/ \E p \in Players : SaysToBiller(p) \/ BillerKicks(p)

----------------------------------------------------------------------------
(* Properties.                                                             *)

\* pending_auths, which decides whether the server is too busy for another login, is how
\* many players' questions are unanswered: no path counts a login twice, or forgets to.
PendingCounted == pending = Cardinality(logindata)

\* Whoever the biller believes to be in the zone is, or he will be told otherwise: however
\* logins, answers, kicks and the ends of connections overlap, no account stays in use.
BillerKnowsWhoIsHere ==
    \A p \in online :
        phase[p] \in {"waiting", "accepted", "loggedin", "arriving", "playing", "leaving"}
          \/ \E i \in DOMAIN out : out[i] = Line("LOGOFF", p)

\* "an implementation must called the Done callback to complete the authentication
\* procedure" (src/src/include/core.h:117).
EveryLoginIsAnswered == \A p \in Players : phase[p] = "waiting" ~> phase[p] # "waiting"

\* Between the zone and its biller: what is unanswered is counted, who is gone is logged off.
BillingAgrees == Has("billing") => PendingCounted /\ BillerKnowsWhoIsHere
=============================================================================
