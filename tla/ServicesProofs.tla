--------------------------- MODULE ServicesProofs ---------------------------
(***************************************************************************)
(* The zone and its biller agree, groups are earned, entrants see the      *)
(* objects, no file is left behind, the scores account for all the time    *)
(* that was played, a recording can be played back, nobody is rewarded     *)
(* twice for a ding, and peers do not show what is long past, whatever     *)
(* players, services and settings there are.                               *)
(***************************************************************************)
EXTENDS Services, Sums

----------------------------------------------------------------------------
(* Sequences of lines: whether some line is in M, two are, or three are,   *)
(* and whether one of A comes before one of B.                             *)

One(s, M) == \E i \in DOMAIN s : s[i] \in M

Before(s, A, B) == \E i, j \in DOMAIN s : i < j /\ s[i] \in A /\ s[j] \in B

Two(s, M) == Before(s, M, M)

Three(s, M) == \E i, j, k \in DOMAIN s : i < j /\ j < k /\ s[i] \in M /\ s[j] \in M /\ s[k] \in M

LEMMA EmptyHasNone ==
    ASSUME NEW M, NEW A, NEW B
    PROVE  ~One(<<>>, M) /\ ~Before(<<>>, A, B) /\ ~Two(<<>>, M) /\ ~Three(<<>>, M)
BY DEF One, Before, Two, Three

LEMMA FewerAreSome ==
    ASSUME NEW S, NEW s \in Seq(S), NEW M, NEW A, NEW B
    PROVE  /\ Before(s, A, B) => One(s, A) /\ One(s, B)
           /\ Two(s, M) => One(s, M)
           /\ Three(s, M) => Two(s, M)
BY DEF One, Before, Two, Three

LEMMA Widens ==
    ASSUME NEW s, NEW M, NEW N, M \subseteq N, One(s, M)
    PROVE  One(s, N)
BY DEF One

LEMMA AppendedLines ==
    ASSUME NEW S, NEW s \in Seq(S), NEW e \in S
    PROVE  /\ Append(s, e) \in Seq(S)
           /\ DOMAIN Append(s, e) = 1 .. (Len(s) + 1)
           /\ DOMAIN s = 1 .. Len(s) /\ Len(s) \in Nat
           /\ \A i \in 1 .. Len(s) : Append(s, e)[i] = s[i]
           /\ Append(s, e)[Len(s) + 1] = e
OBVIOUS

LEMMA AppendOne ==
    ASSUME NEW S, NEW s \in Seq(S), NEW e \in S, NEW M
    PROVE  One(Append(s, e), M) <=> One(s, M) \/ e \in M
BY AppendedLines DEF One

LEMMA AppendBefore ==
    ASSUME NEW S, NEW s \in Seq(S), NEW e \in S, NEW A, NEW B
    PROVE  Before(Append(s, e), A, B) <=> Before(s, A, B) \/ (One(s, A) /\ e \in B)
<1>1. ASSUME Before(Append(s, e), A, B) PROVE Before(s, A, B) \/ (One(s, A) /\ e \in B)
  <2>1. PICK i \in 1 .. (Len(s) + 1), j \in 1 .. (Len(s) + 1) :
          i < j /\ Append(s, e)[i] \in A /\ Append(s, e)[j] \in B
    BY <1>1, AppendedLines DEF Before
  <2>2. i \in 1 .. Len(s) /\ s[i] \in A
    BY <2>1, AppendedLines
  <2>3. CASE j = Len(s) + 1
    BY <2>1, <2>2, <2>3, AppendedLines DEF One
  <2>4. CASE j # Len(s) + 1
    <3>1. j \in 1 .. Len(s) /\ s[j] \in B
      BY <2>1, <2>4, AppendedLines
    <3> QED
      BY <2>1, <2>2, <3>1, AppendedLines DEF Before
  <2> QED
    BY <2>3, <2>4
<1>2. ASSUME Before(s, A, B) PROVE Before(Append(s, e), A, B)
  BY <1>2, AppendedLines DEF Before
<1>3. ASSUME One(s, A), e \in B PROVE Before(Append(s, e), A, B)
  <2>1. PICK i \in 1 .. Len(s) : s[i] \in A
    BY <1>3, AppendedLines DEF One
  <2>2. /\ i \in DOMAIN Append(s, e) /\ Len(s) + 1 \in DOMAIN Append(s, e) /\ i < Len(s) + 1
        /\ Append(s, e)[i] \in A /\ Append(s, e)[Len(s) + 1] \in B
    BY <1>3, <2>1, AppendedLines
  <2> QED
    BY <2>2 DEF Before
<1> QED
  BY <1>1, <1>2, <1>3

LEMMA AppendThree ==
    ASSUME NEW S, NEW s \in Seq(S), NEW e \in S, NEW M, Three(Append(s, e), M)
    PROVE  Three(s, M) \/ (Two(s, M) /\ e \in M)
<1>1. PICK i \in 1 .. (Len(s) + 1), j \in 1 .. (Len(s) + 1), k \in 1 .. (Len(s) + 1) :
        i < j /\ j < k /\ Append(s, e)[i] \in M /\ Append(s, e)[j] \in M /\ Append(s, e)[k] \in M
  BY AppendedLines DEF Three
<1>2. i \in DOMAIN s /\ s[i] \in M /\ j \in DOMAIN s /\ s[j] \in M
  BY <1>1, AppendedLines
<1>3. CASE k = Len(s) + 1
  BY <1>1, <1>2, <1>3, AppendedLines DEF Two, Before
<1>4. CASE k # Len(s) + 1
  <2>1. k \in DOMAIN s /\ s[k] \in M
    BY <1>1, <1>4, AppendedLines
  <2> QED
    BY <1>1, <1>2, <2>1 DEF Three
<1> QED
  BY <1>3, <1>4

LEMMA RestOfLines ==
    ASSUME NEW S, NEW s \in Seq(S), s # <<>>
    PROVE  /\ Tail(s) \in Seq(S) /\ Head(s) \in S /\ Head(s) = s[1]
           /\ Len(s) \in Nat \ {0} /\ DOMAIN s = 1 .. Len(s)
           /\ DOMAIN Tail(s) = 1 .. (Len(s) - 1)
           /\ \A i \in 1 .. (Len(s) - 1) : Tail(s)[i] = s[i + 1]
OBVIOUS

LEMMA TailOne ==
    ASSUME NEW S, NEW s \in Seq(S), s # <<>>, NEW M
    PROVE  One(s, M) <=> Head(s) \in M \/ One(Tail(s), M)
<1>1. ASSUME One(s, M), Head(s) \notin M PROVE One(Tail(s), M)
  <2>1. PICK i \in 1 .. Len(s) : s[i] \in M
    BY <1>1, RestOfLines DEF One
  <2>2. i # 1
    BY <1>1, <2>1, RestOfLines
  <2>3. i - 1 \in 1 .. (Len(s) - 1) /\ Tail(s)[i - 1] = s[i]
    BY <2>2, RestOfLines
  <2> QED
    BY <2>1, <2>3, RestOfLines DEF One
<1>2. ASSUME Head(s) \in M PROVE One(s, M)
  BY <1>2, RestOfLines DEF One
<1>3. ASSUME One(Tail(s), M) PROVE One(s, M)
  <2>1. PICK i \in 1 .. (Len(s) - 1) : Tail(s)[i] \in M
    BY <1>3, RestOfLines DEF One
  <2>2. i + 1 \in DOMAIN s /\ s[i + 1] \in M
    BY <2>1, RestOfLines
  <2> QED
    BY <2>2 DEF One
<1> QED
  BY <1>1, <1>2, <1>3

LEMMA TailBefore ==
    ASSUME NEW S, NEW s \in Seq(S), s # <<>>, NEW A, NEW B
    PROVE  /\ Before(Tail(s), A, B) => Before(s, A, B)
           /\ Head(s) \in A /\ One(Tail(s), B) => Before(s, A, B)
<1>1. ASSUME Before(Tail(s), A, B) PROVE Before(s, A, B)
  <2>1. PICK i \in 1 .. (Len(s) - 1), j \in 1 .. (Len(s) - 1) : i < j /\ Tail(s)[i] \in A /\ Tail(s)[j] \in B
    BY <1>1, RestOfLines DEF Before
  <2>2. /\ i + 1 \in DOMAIN s /\ j + 1 \in DOMAIN s /\ i + 1 < j + 1
        /\ s[i + 1] \in A /\ s[j + 1] \in B
    BY <2>1, RestOfLines
  <2> QED
    BY <2>2 DEF Before
<1>2. ASSUME Head(s) \in A, One(Tail(s), B) PROVE Before(s, A, B)
  <2>1. PICK i \in 1 .. (Len(s) - 1) : Tail(s)[i] \in B
    BY <1>2, RestOfLines DEF One
  <2>2. 1 \in DOMAIN s /\ i + 1 \in DOMAIN s /\ 1 < i + 1 /\ s[1] \in A /\ s[i + 1] \in B
    BY <1>2, <2>1, RestOfLines
  <2> QED
    BY <2>2 DEF Before
<1> QED
  BY <1>1, <1>2

LEMMA TailThree ==
    ASSUME NEW S, NEW s \in Seq(S), s # <<>>, NEW M
    PROVE  /\ Three(Tail(s), M) => Three(s, M)
           /\ Head(s) \in M /\ Two(Tail(s), M) => Three(s, M)
<1>1. ASSUME Three(Tail(s), M) PROVE Three(s, M)
  <2>1. PICK i \in 1 .. (Len(s) - 1), j \in 1 .. (Len(s) - 1), k \in 1 .. (Len(s) - 1) :
          i < j /\ j < k /\ Tail(s)[i] \in M /\ Tail(s)[j] \in M /\ Tail(s)[k] \in M
    BY <1>1, RestOfLines DEF Three
  <2>2. /\ i + 1 \in DOMAIN s /\ j + 1 \in DOMAIN s /\ k + 1 \in DOMAIN s
        /\ i + 1 < j + 1 /\ j + 1 < k + 1 /\ s[i + 1] \in M /\ s[j + 1] \in M /\ s[k + 1] \in M
    BY <2>1, RestOfLines
  <2> QED
    BY <2>2 DEF Three
<1>2. ASSUME Head(s) \in M, Two(Tail(s), M) PROVE Three(s, M)
  <2>1. PICK i \in 1 .. (Len(s) - 1), j \in 1 .. (Len(s) - 1) : i < j /\ Tail(s)[i] \in M /\ Tail(s)[j] \in M
    BY <1>2, RestOfLines DEF Two, Before
  <2>2. /\ 1 \in DOMAIN s /\ i + 1 \in DOMAIN s /\ j + 1 \in DOMAIN s /\ 1 < i + 1 /\ i + 1 < j + 1
        /\ s[1] \in M /\ s[i + 1] \in M /\ s[j + 1] \in M
    BY <1>2, <2>1, RestOfLines
  <2> QED
    BY <2>2 DEF Three
<1> QED
  BY <1>1, <1>2

\* A line that may have been added changes nothing about the others.
LEMMA MaybeAppended ==
    ASSUME NEW S, NEW s \in Seq(S), NEW m \in S, NEW t, t = s \/ t = Append(s, m)
    PROVE  /\ t \in Seq(S)
           /\ \A M : One(s, M) => One(t, M)
           /\ \A M : m \notin M => /\ One(t, M) <=> One(s, M)
                                   /\ Two(t, M) <=> Two(s, M)
                                   /\ Three(t, M) => Three(s, M)
                                   /\ \A A : Before(t, A, M) <=> Before(s, A, M)
<1>1. CASE t = s
  BY <1>1
<1>2. CASE t = Append(s, m)
  <2>1. \A M : One(t, M) <=> One(s, M) \/ m \in M
    BY <1>2, AppendOne
  <2>2. \A A, B : Before(t, A, B) <=> Before(s, A, B) \/ (One(s, A) /\ m \in B)
    BY <1>2, AppendBefore
  <2>3. \A M : m \notin M => (Three(t, M) => Three(s, M))
    BY <1>2, AppendThree
  <2>4. t \in Seq(S)
    BY <1>2, AppendedLines
  <2> QED
    BY <2>1, <2>2, <2>3, <2>4 DEF Two
<1> QED
  BY <1>1, <1>2

\* What a connection that is dropped may keep of what it had received.
LEMMA KeptLines ==
    ASSUME NEW S, NEW s \in Seq(S), NEW kept \in Kept(s), NEW M
    PROVE  kept \in Seq(S) /\ ~Two(kept, M) /\ ~Three(kept, M) /\ (One(kept, M) => One(s, M))
<1>1. CASE kept = <<>>
  BY <1>1, EmptyHasNone
<1>2. CASE kept # <<>>
  <2>1. s # <<>> /\ kept = <<Head(s)>>
    BY <1>2 DEF Kept
  <2>2. Head(s) \in S /\ kept \in Seq(S) /\ DOMAIN kept = {1} /\ kept[1] = Head(s)
    BY <2>1, RestOfLines
  <2>3. ~Two(kept, M) /\ ~Three(kept, M)
    BY <2>2 DEF Two, Three, Before
  <2>4. One(kept, M) => One(s, M)
    BY <2>1, <2>2, TailOne DEF One
  <2> QED
    BY <2>2, <2>3, <2>4
<1> QED
  BY <1>1, <1>2

----------------------------------------------------------------------------
(* The invariant of billing.                                               *)

Here == {"waiting", "accepted", "loggedin", "arriving", "playing", "leaving"}
Inside == {"loggedin", "arriving", "playing", "leaving"}

ToBiller == {Line("CONNECT", NoPlayer)} \cup {Line(w, p) : w \in {"LOGIN", "LOGOFF", "CHAT"}, p \in Players}
FromBiller ==
    {Line(w, p) : w \in {"OK", "BAD"}, p \in Players \cup {NoPlayer}} \cup {Line("KICK", p) : p \in Players}

ConnectLines == {Line("CONNECT", NoPlayer)}
Verdicts == {Line("OK", NoPlayer), Line("BAD", NoPlayer)}
LoginLines(p) == {Line("LOGIN", p)}
LogoffLines(p) == {Line("LOGOFF", p)}
OkLines(p) == {Line("OK", p)}
AnswerLines(p) == {Line("OK", p), Line("BAD", p)}

BillTypes ==
    /\ conf \in Configs /\ phase \in [Players -> Phases]
    /\ out \in Seq(ToBiller) /\ answers \in Seq(FromBiller)
    /\ logindata \subseteq Players

\* PA_CONNECT comes before everything in the zone.
InsideIsKnown == \A p \in Players : phase[p] \in Inside => p \in known

\* billing_ssc.c has logindata for those who wait for its answer, and nobody else.
LoginDataWaits ==
    /\ IsFiniteSet(logindata)
    /\ \A p \in logindata : Ssc /\ phase[p] = "waiting"
    /\ Ssc => \A p \in Players : phase[p] = "waiting" => p \in logindata

\* Of a player there is one question or one answer under way, while he waits for it.
AskedOnce ==
    \A p \in Players :
        /\ ~Two(out, LoginLines(p)) /\ ~Two(answers, AnswerLines(p))
        /\ ~(One(out, LoginLines(p)) /\ One(answers, AnswerLines(p)))
        /\ One(out, LoginLines(p)) \/ One(answers, AnswerLines(p)) => phase[p] = "waiting"

\* A connection that fails leaves a CONNECT or an answer to one behind, but not both.
FewConnects ==
    ~Ssc =>
        IF bstate = "waitlogin"
          THEN /\ ~Three(out, ConnectLines) /\ ~Three(answers, Verdicts)
               /\ ~(One(out, ConnectLines) /\ Two(answers, Verdicts))
               /\ ~(Two(out, ConnectLines) /\ One(answers, Verdicts))
          ELSE /\ ~Two(out, ConnectLines) /\ ~Two(answers, Verdicts)
               /\ ~(One(out, ConnectLines) /\ One(answers, Verdicts))

\* What has been left of the logins comes before CONNECT, where the biller ignores it ...
LoginsAreOld ==
    ~Ssc /\ bstate # "loggedin" => \A p \in Players : ~Before(out, ConnectLines, LoginLines(p))

\* ... and so does every login of which knowntobiller has been forgotten.
ForgottenIsIgnored ==
    \A p \in Players \ told :
        One(out, LoginLines(p)) => ~greeted /\ ~Before(out, ConnectLines, LoginLines(p))

LinkFits ==
    /\ ~linked => online = {}
    /\ ~Ssc => ~losing /\ (bstate \in {"waitlogin", "loggedin"} => linked)

\* Whom the biller has let in is here and will be logged off, or has been.
OnlineIsTold ==
    \A p \in online :
        \/ One(out, LogoffLines(p))
        \/ /\ p \in told /\ phase[p] \in Here
           /\ phase[p] = "waiting" => One(answers, OkLines(p))

BillInv ==
    /\ InsideIsKnown /\ LoginDataWaits /\ PendingCounted /\ AskedOnce /\ FewConnects /\ LoginsAreOld
    /\ ForgottenIsIgnored /\ LinkFits /\ online \subseteq Players /\ OnlineIsTold

----------------------------------------------------------------------------
(* The lines.                                                              *)

LEMMA LineKinds ==
    ASSUME NEW p \in Players
    PROVE  /\ Line("LOGIN", p) \in ToBiller /\ Line("LOGOFF", p) \in ToBiller /\ Line("CHAT", p) \in ToBiller
           /\ Line("CONNECT", NoPlayer) \in ToBiller
           /\ Line("OK", p) \in FromBiller /\ Line("BAD", p) \in FromBiller /\ Line("KICK", p) \in FromBiller
           /\ Line("OK", NoPlayer) \in FromBiller /\ Line("BAD", NoPlayer) \in FromBiller
BY DEF ToBiller, FromBiller

LEMMA OutKinds ==
    ASSUME NEW m \in ToBiller
    PROVE  /\ m = Line(m.what, m.p)
           /\ \/ m.what = "CONNECT" /\ m.p = NoPlayer
              \/ m.what \in {"LOGIN", "LOGOFF", "CHAT"} /\ m.p \in Players
           /\ m.what = "CONNECT" <=> m \in ConnectLines
           /\ \A p \in Players : /\ m \in LoginLines(p) <=> m.what = "LOGIN" /\ m.p = p
                                 /\ m \in LogoffLines(p) <=> m.what = "LOGOFF" /\ m.p = p
BY ClientsAssumption DEF ToBiller, Line, ConnectLines, LoginLines, LogoffLines

LEMMA AnswerKinds ==
    ASSUME NEW m \in FromBiller
    PROVE  /\ m = Line(m.what, m.p)
           /\ \/ m.p = NoPlayer /\ m.what \in {"OK", "BAD"}
              \/ m.p \in Players /\ m.what \in {"OK", "BAD", "KICK"}
           /\ m.p = NoPlayer <=> m \in Verdicts
           /\ \A p \in Players : /\ m \in OkLines(p) <=> m.what = "OK" /\ m.p = p
                                 /\ m \in AnswerLines(p) <=> m.what \in {"OK", "BAD"} /\ m.p = p
BY ClientsAssumption DEF FromBiller, Line, Verdicts, OkLines, AnswerLines

----------------------------------------------------------------------------
(* Steps that leave the biller alone: players move.                        *)

PhaseMoves ==
    \A p \in Players :
        /\ phase[p] = "waiting" <=> phase'[p] = "waiting"
        /\ phase[p] \in Here => phase'[p] \in Here
        /\ phase'[p] \in Inside => p \in known'

LEMMA PhaseStep ==
    ASSUME BillTypes, BillInv, phase' \in [Players -> Phases], PhaseMoves, UNCHANGED <<conf, billvars>>
    PROVE  BillTypes' /\ BillInv'
<1> USE DEF billvars, BillInv
<1>1. BillTypes'
  BY DEF BillTypes
<1>2. Ssc' = Ssc
  BY DEF Ssc
<1>3. InsideIsKnown'
  BY DEF InsideIsKnown, PhaseMoves
<1>4. LoginDataWaits'
  BY <1>2 DEF LoginDataWaits, PhaseMoves, BillTypes
<1>5. PendingCounted'
  BY DEF PendingCounted
<1>6. AskedOnce'
  BY DEF AskedOnce, PhaseMoves
<1>7. FewConnects' /\ LoginsAreOld' /\ ForgottenIsIgnored' /\ LinkFits'
  BY <1>2 DEF FewConnects, LoginsAreOld, ForgottenIsIgnored, LinkFits
<1>8. OnlineIsTold'
  BY DEF OnlineIsTold, PhaseMoves
<1>9. (online \subseteq Players)'
  OBVIOUS
<1> QED
  BY <1>1, <1>3, <1>4, <1>5, <1>6, <1>7, <1>8, <1>9

\* The authenticator is not asked: the player is in, or is to try again.
LEMMA RefusedStep ==
    ASSUME BillTypes, BillInv, NEW p \in Players, phase[p] = "connected",
           NEW ph \in {"accepted", "connected"}, Goes(p, ph), told' \in {told, told \ {p}}, known' = known,
           UNCHANGED <<conf, bstate, linked, losing, logindata, pending, out, answers, greeted, online>>
    PROVE  BillTypes' /\ BillInv'
<1>1. phase' \in [Players -> Phases] /\ \A q \in Players : phase'[q] = IF q = p THEN ph ELSE phase[q]
  BY DEF BillTypes, Phases, Goes
<1>2. BillTypes' /\ Ssc' = Ssc
  BY <1>1 DEF BillTypes, Ssc
<1>3. ~One(out, LoginLines(p)) /\ ~One(answers, AnswerLines(p)) /\ p \notin logindata
  BY DEF BillInv, AskedOnce, LoginDataWaits
<1>4. InsideIsKnown'
  BY <1>1 DEF BillInv, InsideIsKnown, Inside
<1>5. LoginDataWaits' /\ PendingCounted'
  BY <1>1, <1>2, <1>3 DEF BillInv, LoginDataWaits, PendingCounted, BillTypes
<1>6. AskedOnce'
  BY <1>1, <1>3 DEF BillInv, AskedOnce
<1>7. FewConnects' /\ LoginsAreOld' /\ LinkFits' /\ (online \subseteq Players)'
  BY <1>2 DEF BillInv, FewConnects, LoginsAreOld, LinkFits
<1>8. ForgottenIsIgnored'
  BY <1>3 DEF BillInv, ForgottenIsIgnored
<1>9. OnlineIsTold'
  BY <1>1 DEF BillInv, OnlineIsTold, Here
<1> QED
  BY <1>2, <1>4, <1>5, <1>6, <1>7, <1>8, <1>9 DEF BillInv

\* A line is queued for the biller that asks for nobody.
LEMMA QueuedStep ==
    ASSUME BillTypes, BillInv, NEW p \in Players, NEW m \in {Line("CHAT", p), Line("LOGOFF", p)},
           out' = Append(out, m),
           UNCHANGED <<conf, phase, known, bstate, linked, losing, logindata, told, pending, answers,
                       greeted, online>>
    PROVE  BillTypes' /\ BillInv'
<1>0. m \in ToBiller /\ out \in Seq(ToBiller)
  BY LineKinds DEF BillTypes
<1>1. m \in ToBiller /\ out \in Seq(ToBiller) /\ m \notin ConnectLines /\ \A q \in Players : m \notin LoginLines(q)
  BY <1>0 DEF Line, ConnectLines, LoginLines
<1>2. BillTypes' /\ Ssc' = Ssc
  BY <1>1, AppendedLines DEF BillTypes, Ssc
<1>3. /\ One(out', ConnectLines) <=> One(out, ConnectLines)
      /\ Two(out', ConnectLines) <=> Two(out, ConnectLines)
      /\ Three(out', ConnectLines) => Three(out, ConnectLines)
  BY <1>1, AppendOne, AppendBefore, AppendThree DEF Two
<1>4. \A q \in Players : /\ One(out', LoginLines(q)) <=> One(out, LoginLines(q))
                         /\ Two(out', LoginLines(q)) <=> Two(out, LoginLines(q))
                         /\ Before(out', ConnectLines, LoginLines(q)) <=> Before(out, ConnectLines, LoginLines(q))
                         /\ One(out, LogoffLines(q)) => One(out', LogoffLines(q))
  BY <1>1, AppendOne, AppendBefore DEF Two
<1>5. InsideIsKnown' /\ LoginDataWaits' /\ PendingCounted' /\ LinkFits' /\ (online \subseteq Players)'
  BY <1>2 DEF BillInv, InsideIsKnown, LoginDataWaits, PendingCounted, LinkFits
<1>6. AskedOnce'
  BY <1>4 DEF BillInv, AskedOnce
<1>7. FewConnects' /\ LoginsAreOld' /\ ForgottenIsIgnored'
  BY <1>2, <1>3, <1>4 DEF BillInv, FewConnects, LoginsAreOld, ForgottenIsIgnored
<1>8. OnlineIsTold'
  BY <1>4 DEF BillInv, OnlineIsTold
<1> QED
  BY <1>2, <1>5, <1>6, <1>7, <1>8 DEF BillInv

\* The authenticator is asked.
LEMMA AskedStep ==
    ASSUME BillTypes, BillInv, NEW p \in Players, phase[p] = "connected", Goes(p, "waiting"),
           bstate = "loggedin", told' = told \cup {p},
           out' = Append(out, Line("LOGIN", p)) \/ (Ssc /\ out' = out),
           IF Ssc THEN logindata' = logindata \cup {p} /\ pending' = pending + 1
                  ELSE UNCHANGED <<logindata, pending>>,
           UNCHANGED <<conf, known, bstate, linked, losing, answers, greeted, online>>
    PROVE  BillTypes' /\ BillInv'
<1>1. PICK m \in ToBiller : m = Line("LOGIN", p) /\ (out' = Append(out, m) \/ out' = out)
  BY LineKinds
<1>2. out \in Seq(ToBiller) /\ m \notin ConnectLines /\ \A q \in Players : m \in LoginLines(q) <=> q = p
  BY <1>1 DEF BillTypes, Line, ConnectLines, LoginLines
<1>3. phase' \in [Players -> Phases] /\ \A q \in Players : phase'[q] = IF q = p THEN "waiting" ELSE phase[q]
  BY DEF BillTypes, Phases, Goes
<1>4. out' \in Seq(ToBiller)
  BY <1>1, <1>2, AppendedLines
<1>5. BillTypes' /\ Ssc' = Ssc
  BY <1>3, <1>4 DEF BillTypes, Ssc
<1>6. ~One(out, LoginLines(p)) /\ ~One(answers, AnswerLines(p)) /\ p \notin logindata
  BY DEF BillInv, AskedOnce, LoginDataWaits
<1>7. \A M : m \notin M => /\ One(out', M) <=> One(out, M)
                           /\ Two(out', M) <=> Two(out, M)
                           /\ Three(out', M) => Three(out, M)
                           /\ \A A : Before(out', A, M) <=> Before(out, A, M)
  BY <1>1, <1>2, MaybeAppended
<1>8. \A M : One(out, M) => One(out', M)
  BY <1>1, <1>2, MaybeAppended
<1>9. ~Two(out', LoginLines(p))
  <2>1. ~Two(out, LoginLines(p))
    BY <1>2, <1>6, FewerAreSome
  <2> QED
    BY <1>1, <1>2, <1>6, <2>1, AppendBefore DEF Two
<1>10. InsideIsKnown'
  BY <1>3 DEF BillInv, InsideIsKnown, Inside
<1>11. LoginDataWaits' /\ PendingCounted'
  <2>1. CASE Ssc
    <3>1. IsFiniteSet(logindata') /\ Cardinality(logindata') = Cardinality(logindata) + 1
      BY <1>6, <2>1, FS_AddElement DEF BillInv, LoginDataWaits
    <3>2. LoginDataWaits'
      BY <1>3, <1>5, <2>1, <3>1 DEF BillInv, LoginDataWaits, BillTypes
    <3> QED
      BY <2>1, <3>1, <3>2 DEF BillInv, PendingCounted
  <2>2. CASE ~Ssc
    BY <1>3, <1>5, <1>6, <2>2 DEF BillInv, LoginDataWaits, PendingCounted, BillTypes
  <2> QED
    BY <2>1, <2>2
<1>12. AskedOnce'
  BY <1>2, <1>3, <1>6, <1>7, <1>9 DEF BillInv, AskedOnce
<1>13. FewConnects' /\ LoginsAreOld' /\ LinkFits' /\ (online \subseteq Players)'
  BY <1>2, <1>5, <1>7 DEF BillInv, FewConnects, LoginsAreOld, LinkFits
<1>14. ForgottenIsIgnored'
  BY <1>2, <1>7 DEF BillInv, ForgottenIsIgnored
<1>15. OnlineIsTold'
  <2> SUFFICES ASSUME NEW q \in online
               PROVE  \/ One(out', LogoffLines(q))
                      \/ /\ q \in told' /\ phase'[q] \in Here
                         /\ phase'[q] = "waiting" => One(answers', OkLines(q))
    BY DEF OnlineIsTold
  <2>1. q \in Players
    BY DEF BillInv
  <2>2. CASE q = p
    BY <1>8, <2>1, <2>2 DEF BillInv, OnlineIsTold, Here
  <2>3. CASE q # p
    BY <1>3, <1>8, <2>1, <2>3 DEF BillInv, OnlineIsTold
  <2> QED
    BY <2>2, <2>3
<1> QED
  BY <1>5, <1>10, <1>11, <1>12, <1>13, <1>14, <1>15 DEF BillInv

\* PA_DISCONNECT, for a player who has had PA_CONNECT.
LEMMA DisconnectStep ==
    ASSUME BillTypes, BillInv, NEW p \in Players, Disconnects(p), BillingDisconnect(p)
    PROVE  BillTypes' /\ BillInv'
<1>1. PICK m \in ToBiller : m = Line("LOGOFF", p) /\ (out' = out \/ out' = Append(out, m))
  BY LineKinds DEF BillingDisconnect, LogsOff
<1>2. out \in Seq(ToBiller) /\ m \notin ConnectLines /\ \A q \in Players : m \notin LoginLines(q)
  BY <1>1 DEF BillTypes, Line, ConnectLines, LoginLines
<1>3. /\ phase' \in [Players -> Phases]
      /\ phase[p] # "waiting" /\ \A q \in Players : phase'[q] = IF q = p THEN "timewait" ELSE phase[q]
  BY DEF BillTypes, Phases, Goes, Disconnects
<1>4. p \notin logindata /\ ~One(out, LoginLines(p)) /\ ~One(answers, AnswerLines(p))
  BY <1>3 DEF BillInv, LoginDataWaits, AskedOnce
<1>5. /\ UNCHANGED <<conf, logindata, pending, bstate, linked, losing, answers, greeted, online>>
      /\ told' \in {told, told \ {p}} /\ known' = known \ {p}
  BY <1>4 DEF BillingDisconnect, Disconnects, BillTypes
<1>6. /\ out' \in Seq(ToBiller)
      /\ \A M : One(out, M) => One(out', M)
      /\ \A M : m \notin M => /\ One(out', M) <=> One(out, M)
                              /\ Two(out', M) <=> Two(out, M)
                              /\ Three(out', M) => Three(out, M)
                              /\ \A A : Before(out', A, M) <=> Before(out, A, M)
  BY <1>1, <1>2, MaybeAppended
<1>7. BillTypes' /\ Ssc' = Ssc
  BY <1>3, <1>5, <1>6 DEF BillTypes, Ssc
<1>8. InsideIsKnown'
  BY <1>3, <1>5 DEF BillInv, InsideIsKnown, Inside
<1>9. LoginDataWaits' /\ PendingCounted'
  BY <1>3, <1>4, <1>5, <1>7 DEF BillInv, LoginDataWaits, PendingCounted, BillTypes
<1>10. AskedOnce'
  BY <1>2, <1>3, <1>4, <1>5, <1>6 DEF BillInv, AskedOnce
<1>11. FewConnects' /\ LoginsAreOld' /\ LinkFits' /\ (online \subseteq Players)'
  BY <1>2, <1>5, <1>6, <1>7 DEF BillInv, FewConnects, LoginsAreOld, LinkFits
<1>12. ForgottenIsIgnored'
  BY <1>2, <1>4, <1>5, <1>6 DEF BillInv, ForgottenIsIgnored
<1>13. ASSUME p \in online, ~One(out, LogoffLines(p)) PROVE One(out', LogoffLines(p))
  <2>1. p \in told /\ linked
    BY <1>13 DEF BillInv, OnlineIsTold, LinkFits
  <2>2. out' = Append(out, m) /\ m \in LogoffLines(p)
    BY <1>1, <2>1 DEF BillingDisconnect, LogsOff, LogoffLines
  <2> QED
    BY <1>2, <2>2, AppendOne
<1>14. OnlineIsTold'
  <2> SUFFICES ASSUME NEW q \in online
               PROVE  \/ One(out', LogoffLines(q))
                      \/ /\ q \in told' /\ phase'[q] \in Here
                         /\ phase'[q] = "waiting" => One(answers', OkLines(q))
    BY <1>5 DEF OnlineIsTold
  <2>1. CASE q = p
    BY <1>6, <1>13, <2>1
  <2>2. CASE q # p
    BY <1>3, <1>5, <1>6, <2>2 DEF BillInv, OnlineIsTold
  <2> QED
    BY <2>1, <2>2
<1> QED
  BY <1>7, <1>8, <1>9, <1>10, <1>11, <1>12, <1>14 DEF BillInv

\* FreePlayer.
LEMMA FreeStep ==
    ASSUME BillTypes, BillInv, NEW p \in Players, Freed(p), BillingForgets(p)
    PROVE  BillTypes' /\ BillInv'
<1>1. /\ phase' \in [Players -> Phases] /\ phase[p] = "timewait"
      /\ \A q \in Players : phase'[q] = IF q = p THEN "free" ELSE phase[q]
  BY DEF BillTypes, Phases, Goes, Freed
<1>2. p \notin logindata /\ ~One(out, LoginLines(p)) /\ ~One(answers, AnswerLines(p))
  BY <1>1 DEF BillInv, LoginDataWaits, AskedOnce
<1>3. /\ UNCHANGED <<conf, known, logindata, pending, bstate, linked, losing, answers, greeted, online, out>>
      /\ told' = told \ {p}
  BY <1>2 DEF BillingForgets, Freed, BillTypes
<1>4. BillTypes' /\ Ssc' = Ssc
  BY <1>1, <1>3 DEF BillTypes, Ssc
<1>5. InsideIsKnown' /\ LoginDataWaits' /\ PendingCounted'
  BY <1>1, <1>3, <1>4 DEF BillInv, InsideIsKnown, Inside, LoginDataWaits, PendingCounted, BillTypes
<1>6. AskedOnce'
  BY <1>1, <1>3 DEF BillInv, AskedOnce
<1>7. FewConnects' /\ LoginsAreOld' /\ LinkFits' /\ (online \subseteq Players)'
  BY <1>3, <1>4 DEF BillInv, FewConnects, LoginsAreOld, LinkFits
<1>8. ForgottenIsIgnored'
  BY <1>2, <1>3 DEF BillInv, ForgottenIsIgnored
<1>9. OnlineIsTold'
  BY <1>1, <1>3 DEF BillInv, OnlineIsTold, Here
<1> QED
  BY <1>4, <1>5, <1>6, <1>7, <1>8, <1>9 DEF BillInv

----------------------------------------------------------------------------
(* Steps of the connection.                                                *)

\* Only the state of the connection changes, between two connections or in billing_ssc.c.
LEMMA StateStep ==
    ASSUME BillTypes, BillInv, linked => linked',
           ~Ssc => /\ ~losing' /\ bstate \notin {"waitlogin", "loggedin"}
                   /\ bstate' \notin {"waitlogin", "loggedin"},
           UNCHANGED <<conf, phase, known, logindata, told, pending, out, answers, greeted, online>>
    PROVE  BillTypes' /\ BillInv'
<1>1. BillTypes' /\ Ssc' = Ssc
  BY DEF BillTypes, Ssc
<1>2. InsideIsKnown' /\ LoginDataWaits' /\ PendingCounted' /\ AskedOnce' /\ (online \subseteq Players)'
  BY <1>1 DEF BillInv, InsideIsKnown, LoginDataWaits, PendingCounted, AskedOnce
<1>3. FewConnects' /\ LoginsAreOld' /\ LinkFits'
  BY <1>1 DEF BillInv, FewConnects, LoginsAreOld, LinkFits
<1>4. ForgottenIsIgnored' /\ OnlineIsTold'
  BY DEF BillInv, ForgottenIsIgnored, OnlineIsTold
<1> QED
  BY <1>1, <1>2, <1>3, <1>4 DEF BillInv

\* The connection goes, with all the biller knew.
LEMMA LostStep ==
    ASSUME BillTypes, BillInv, NEW received \in Seq(FromBiller), Disconnected(received),
           \A M : (One(received, M) => One(answers, M)) /\ (Two(received, M) => Two(answers, M)),
           ~Ssc => /\ ~losing' /\ bstate' \notin {"waitlogin", "loggedin"}
                   /\ ~Two(out, ConnectLines) /\ ~Two(received, Verdicts)
                   /\ ~(One(out, ConnectLines) /\ One(received, Verdicts))
                   /\ \A p \in Players : ~Before(out, ConnectLines, LoginLines(p)),
           UNCHANGED <<conf, phase, known, logindata, pending>>
    PROVE  BillTypes' /\ BillInv'
<1>1. /\ ~linked' /\ told' = {} /\ answers' = received /\ ~greeted' /\ online' = {}
      /\ out' = IF Ssc THEN <<>> ELSE out
  BY DEF Disconnected
<1>2. /\ \A M : (One(out', M) => One(out, M)) /\ (Two(out', M) => Two(out, M))
      /\ Ssc => \A A, B : ~Before(out', A, B) /\ ~One(out', A)
  BY <1>1, EmptyHasNone
<1>3. out' \in Seq(ToBiller)
  BY <1>1 DEF BillTypes
<1>4. BillTypes' /\ Ssc' = Ssc
  BY <1>1, <1>3 DEF BillTypes, Ssc
<1>5. InsideIsKnown' /\ LoginDataWaits' /\ PendingCounted'
  BY <1>4 DEF BillInv, InsideIsKnown, LoginDataWaits, PendingCounted
<1>6. AskedOnce'
  BY <1>1, <1>2 DEF BillInv, AskedOnce
<1>7. FewConnects' /\ LoginsAreOld' /\ LinkFits' /\ (online \subseteq Players)'
  BY <1>1, <1>4 DEF FewConnects, LoginsAreOld, LinkFits
<1>8. ForgottenIsIgnored'
  BY <1>1, <1>2 DEF ForgottenIsIgnored
<1>9. OnlineIsTold'
  BY <1>1 DEF OnlineIsTold
<1> QED
  BY <1>4, <1>5, <1>6, <1>7, <1>8, <1>9 DEF BillInv

\* What has been queued for the biller of billing.c has gone when it does: the bound that
\* MCServices has for it, too.
Unhurried == \A c \in Configs : c.biller # "ssc" => c.loses # "anytime"

LEMMA LosingLeavesNothing ==
    ASSUME Unhurried, BillTypes, MayLose, ~Ssc
    PROVE  out = <<>>
BY DEF Unhurried, BillTypes, MayLose, Ssc

LEMMA ConnectionLostStep ==
    ASSUME Unhurried, BillTypes, BillInv, ConnectionLost
    PROVE  BillTypes' /\ BillInv'
<1>1. Disconnected(<<>>) /\ UNCHANGED <<conf, phase, known, logindata, pending>>
  BY DEF ConnectionLost, Drop, clientvars
<1>2. \A M, A, B : ~One(<<>>, M) /\ ~Two(<<>>, M) /\ ~Before(<<>>, A, B)
  BY EmptyHasNone
<1>3. ASSUME ~Ssc PROVE ~losing' /\ bstate' = "retry" /\ out = <<>>
  BY <1>3, LosingLeavesNothing DEF ConnectionLost, Drop, BillInv, LinkFits
<1>4. <<>> \in Seq(FromBiller)
  OBVIOUS
<1> QED
  BY <1>1, <1>2, <1>3, <1>4, LostStep

LEMMA UserdbDropStep ==
    ASSUME Unhurried, BillTypes, BillInv, UserdbDrop
    PROVE  BillTypes' /\ BillInv'
<1>1. PICK received \in Kept(answers) :
        IF Ssc \/ linked THEN Drop("disabled", received)
        ELSE bstate' = "disabled" /\ UNCHANGED <<linked, told, out, answers, greeted, online>>
  BY DEF UserdbDrop
<1>2. UNCHANGED <<conf, phase, known, losing, logindata, pending>>
  BY DEF UserdbDrop, clientvars
<1>3. CASE Ssc \/ linked
  <2>1. Disconnected(received) /\ bstate' = "disabled"
    BY <1>1, <1>3 DEF Drop
  <2>2. /\ received \in Seq(FromBiller)
        /\ \A M : ~Two(received, M) /\ (One(received, M) => One(answers, M))
    BY KeptLines DEF BillTypes
  <2>3. \A M, A, B : ~One(<<>>, M) /\ ~Two(<<>>, M) /\ ~Before(<<>>, A, B)
    BY EmptyHasNone
  <2>4. ASSUME ~Ssc PROVE ~losing' /\ out = <<>>
    BY <1>2, <1>3, <2>4, LosingLeavesNothing DEF UserdbDrop, BillInv, LinkFits
  <2> QED
    BY <1>2, <2>1, <2>2, <2>3, <2>4, LostStep
<1>4. CASE ~Ssc /\ ~linked
  <2>1. bstate \notin {"waitlogin", "loggedin"} /\ ~losing
    BY <1>4 DEF BillInv, LinkFits
  <2> QED
    BY <1>1, <1>2, <1>4, <2>1, StateStep
<1> QED
  BY <1>3, <1>4

LEMMA ConnectFailsStep ==
    ASSUME BillTypes, BillInv, ConnectFails
    PROVE  BillTypes' /\ BillInv'
<1>1. Disconnected(answers) /\ UNCHANGED <<conf, phase, known, logindata, pending>> /\ answers \in Seq(FromBiller)
  BY DEF ConnectFails, Drop, clientvars, BillTypes
<1>2. ~Ssc /\ bstate = "connecting" /\ bstate' = "retry" /\ ~losing'
  BY DEF ConnectFails, Drop, BillInv, LinkFits
<1>3. /\ ~Two(out, ConnectLines) /\ ~Two(answers, Verdicts)
      /\ ~(One(out, ConnectLines) /\ One(answers, Verdicts))
      /\ \A p \in Players : ~Before(out, ConnectLines, LoginLines(p))
  BY <1>2 DEF BillInv, FewConnects, LoginsAreOld
<1> QED
  BY <1>1, <1>2, <1>3, LostStep

\* CONNECT is queued, behind what has been left.
LEMMA SendConnectStep ==
    ASSUME BillTypes, BillInv, SendConnect
    PROVE  BillTypes' /\ BillInv'
<1>1. PICK m \in ToBiller : m = Line("CONNECT", NoPlayer) /\ out' = Append(out, m)
  BY DEF SendConnect, ToBiller
<1>2. out \in Seq(ToBiller) /\ \A p \in Players : m \notin LoginLines(p)
  BY <1>1 DEF BillTypes, Line, LoginLines
<1>3. /\ bstate = "connecting" /\ bstate' = "waitlogin" /\ linked /\ ~losing
      /\ UNCHANGED <<conf, phase, known, linked, losing, logindata, told, pending, answers, greeted, online>>
  BY DEF SendConnect, clientvars
<1>4. /\ out' \in Seq(ToBiller)
      /\ \A M : One(out, M) => One(out', M)
      /\ \A M : m \notin M => /\ One(out', M) <=> One(out, M)
                              /\ Two(out', M) <=> Two(out, M)
                              /\ \A A : Before(out', A, M) <=> Before(out, A, M)
  BY <1>1, <1>2, MaybeAppended
<1>5. /\ Two(out', ConnectLines) => Two(out, ConnectLines) \/ One(out, ConnectLines)
      /\ Three(out', ConnectLines) => Three(out, ConnectLines) \/ Two(out, ConnectLines)
  BY <1>1, <1>2, AppendBefore, AppendThree DEF Two
<1>6. /\ Three(out, ConnectLines) => Two(out, ConnectLines)
      /\ Two(out, ConnectLines) => One(out, ConnectLines)
      /\ Three(answers, Verdicts) => Two(answers, Verdicts)
  BY <1>2, FewerAreSome DEF BillTypes
<1>7. BillTypes' /\ Ssc' = Ssc
  BY <1>3, <1>4 DEF BillTypes, Ssc
<1>8. InsideIsKnown' /\ LoginDataWaits' /\ PendingCounted' /\ (online \subseteq Players)'
  BY <1>3, <1>7 DEF BillInv, InsideIsKnown, LoginDataWaits, PendingCounted
<1>9. AskedOnce'
  BY <1>2, <1>3, <1>4 DEF BillInv, AskedOnce
<1>10. FewConnects'
  BY <1>3, <1>5, <1>6, <1>7 DEF BillInv, FewConnects
<1>11. LoginsAreOld' /\ ForgottenIsIgnored' /\ LinkFits'
  BY <1>2, <1>3, <1>4, <1>7 DEF BillInv, LoginsAreOld, ForgottenIsIgnored, LinkFits
<1>12. OnlineIsTold'
  BY <1>3, <1>4 DEF BillInv, OnlineIsTold
<1> QED
  BY <1>7, <1>8, <1>9, <1>10, <1>11, <1>12 DEF BillInv

----------------------------------------------------------------------------
(* Steps of the biller.                                                    *)

LEMMA BillerKicksStep ==
    ASSUME BillTypes, BillInv, NEW p \in Players, BillerKicks(p)
    PROVE  BillTypes' /\ BillInv'
<1>1. PICK m \in FromBiller : m = Line("KICK", p) /\ answers' = Append(answers, m)
  BY LineKinds DEF BillerKicks
<1>2. answers \in Seq(FromBiller) /\ m \notin Verdicts /\ \A q \in Players : m \notin AnswerLines(q)
  BY <1>1 DEF BillTypes, Line, Verdicts, AnswerLines
<1>3. UNCHANGED <<conf, phase, known, bstate, linked, losing, logindata, told, pending, out, greeted, online>>
  BY DEF BillerKicks, clientvars
<1>4. /\ answers' \in Seq(FromBiller)
      /\ \A M : One(answers, M) => One(answers', M)
      /\ \A M : m \notin M => /\ One(answers', M) <=> One(answers, M)
                              /\ Two(answers', M) <=> Two(answers, M)
                              /\ Three(answers', M) => Three(answers, M)
  BY <1>1, <1>2, MaybeAppended
<1>5. BillTypes' /\ Ssc' = Ssc
  BY <1>3, <1>4 DEF BillTypes, Ssc
<1>6. InsideIsKnown' /\ LoginDataWaits' /\ PendingCounted' /\ (online \subseteq Players)'
  BY <1>3, <1>5 DEF BillInv, InsideIsKnown, LoginDataWaits, PendingCounted
<1>7. AskedOnce'
  BY <1>2, <1>3, <1>4 DEF BillInv, AskedOnce
<1>8. FewConnects' /\ LoginsAreOld' /\ ForgottenIsIgnored' /\ LinkFits'
  BY <1>2, <1>3, <1>4, <1>5 DEF BillInv, FewConnects, LoginsAreOld, ForgottenIsIgnored, LinkFits
<1>9. OnlineIsTold'
  BY <1>3, <1>4 DEF BillInv, OnlineIsTold
<1> QED
  BY <1>5, <1>6, <1>7, <1>8, <1>9 DEF BillInv

\* What is left when the first line has been read.
LEMMA ReadLines ==
    ASSUME NEW S, NEW s \in Seq(S), s # <<>>, NEW t, t = Tail(s)
    PROVE  /\ t \in Seq(S) /\ Head(s) \in S
           /\ \A M : /\ One(t, M) => One(s, M)
                     /\ Two(t, M) => Two(s, M)
                     /\ Three(t, M) => Three(s, M)
                     /\ Head(s) \notin M => (One(s, M) => One(t, M))
                     /\ Head(s) \in M => /\ One(s, M)
                                         /\ One(t, M) => Two(s, M)
                                         /\ Two(t, M) => Three(s, M)
           /\ \A A, B : /\ Before(t, A, B) => Before(s, A, B)
                        /\ Head(s) \in A /\ One(t, B) => Before(s, A, B)
<1>1. t \in Seq(S) /\ Head(s) \in S
  BY RestOfLines
<1>2. \A M : One(s, M) <=> Head(s) \in M \/ One(t, M)
  BY TailOne
<1>3. \A A, B : /\ Before(t, A, B) => Before(s, A, B)
                /\ Head(s) \in A /\ One(t, B) => Before(s, A, B)
  BY TailBefore
<1>4. \A M : /\ Three(t, M) => Three(s, M)
             /\ Head(s) \in M /\ Two(t, M) => Three(s, M)
  BY TailThree
<1> QED
  BY <1>1, <1>2, <1>3, <1>4 DEF Two

\* The biller reads a line and has nothing to say to it.
LEMMA HeardStep ==
    ASSUME BillTypes, BillInv, out # <<>>, out' = Tail(out),
           Head(out) \notin ConnectLines,
           online' \subseteq online,
           \A p \in Players : Head(out) \in LogoffLines(p) => p \notin online',
           UNCHANGED <<conf, phase, known, bstate, linked, losing, logindata, told, pending, answers, greeted>>
    PROVE  BillTypes' /\ BillInv'
<1>1. /\ out' \in Seq(ToBiller)
      /\ \A M : /\ One(out', M) => One(out, M)
                /\ Two(out', M) => Two(out, M)
                /\ Three(out', M) => Three(out, M)
                /\ Head(out) \notin M => (One(out, M) => One(out', M))
      /\ \A A, B : Before(out', A, B) => Before(out, A, B)
  BY ReadLines DEF BillTypes
<1>2. BillTypes' /\ Ssc' = Ssc
  BY <1>1 DEF BillTypes, Ssc
<1>3. InsideIsKnown' /\ LoginDataWaits' /\ PendingCounted' /\ (online \subseteq Players)'
  BY <1>2 DEF BillInv, InsideIsKnown, LoginDataWaits, PendingCounted
<1>4. AskedOnce'
  BY <1>1 DEF BillInv, AskedOnce
<1>5. FewConnects'
  BY <1>1, <1>2 DEF BillInv, FewConnects
<1>6. LoginsAreOld' /\ ForgottenIsIgnored' /\ LinkFits'
  BY <1>1, <1>2 DEF BillInv, LoginsAreOld, ForgottenIsIgnored, LinkFits
<1>7. OnlineIsTold'
  BY <1>1 DEF BillInv, OnlineIsTold
<1> QED
  BY <1>2, <1>3, <1>4, <1>5, <1>6, <1>7 DEF BillInv

LEMMA HearsConnectStep ==
    ASSUME BillTypes, BillInv, out # <<>>, out' = Tail(out), Head(out) \in ConnectLines, greeted' = TRUE,
           bstate \in {"waitlogin", "loggedin"},
           NEW m \in Verdicts, answers' = Append(answers, m),
           UNCHANGED <<conf, phase, known, bstate, linked, losing, logindata, told, pending, online>>
    PROVE  BillTypes' /\ BillInv'
<1>1. /\ out' \in Seq(ToBiller)
      /\ \A M : /\ One(out', M) => One(out, M)
                /\ Two(out', M) => Two(out, M)
                /\ Three(out', M) => Three(out, M)
                /\ Head(out) \notin M => (One(out, M) => One(out', M))
      /\ \A A, B : Before(out', A, B) => Before(out, A, B)
  BY ReadLines DEF BillTypes
<1>2. /\ One(out, ConnectLines)
      /\ One(out', ConnectLines) => Two(out, ConnectLines)
      /\ Two(out', ConnectLines) => Three(out, ConnectLines)
      /\ \A p \in Players : One(out', LoginLines(p)) => Before(out, ConnectLines, LoginLines(p))
  BY ReadLines DEF BillTypes
<1>3. \A p \in Players : Head(out) \notin LogoffLines(p)
  BY DEF ConnectLines, LogoffLines, Line
<1>4. /\ m \in FromBiller /\ answers \in Seq(FromBiller)
      /\ \A p \in Players : m \notin AnswerLines(p) /\ m \notin OkLines(p)
  BY ClientsAssumption DEF BillTypes, Verdicts, FromBiller, AnswerLines, OkLines, Line
<1>5. /\ answers' \in Seq(FromBiller)
      /\ \A M : One(answers, M) => One(answers', M)
      /\ \A M : m \notin M => /\ One(answers', M) <=> One(answers, M)
                              /\ Two(answers', M) <=> Two(answers, M)
  BY <1>4, MaybeAppended
<1>6. /\ Two(answers', Verdicts) => Two(answers, Verdicts) \/ One(answers, Verdicts)
      /\ Three(answers', Verdicts) => Three(answers, Verdicts) \/ Two(answers, Verdicts)
  BY <1>4, AppendBefore, AppendThree DEF Two
<1>7. Two(answers, Verdicts) => One(answers, Verdicts)
  BY <1>4, FewerAreSome
<1>8. BillTypes' /\ Ssc' = Ssc
  BY <1>1, <1>5 DEF BillTypes, Ssc
<1>9. InsideIsKnown' /\ LoginDataWaits' /\ PendingCounted' /\ (online \subseteq Players)'
  BY <1>8 DEF BillInv, InsideIsKnown, LoginDataWaits, PendingCounted
<1>10. AskedOnce'
  BY <1>1, <1>4, <1>5 DEF BillInv, AskedOnce
<1>11. FewConnects'
  BY <1>1, <1>2, <1>6, <1>7, <1>8 DEF BillInv, FewConnects
<1>12. LoginsAreOld' /\ LinkFits'
  BY <1>1, <1>8 DEF BillInv, LoginsAreOld, LinkFits
<1>13. ForgottenIsIgnored'
  BY <1>1, <1>2 DEF BillInv, ForgottenIsIgnored
<1>14. OnlineIsTold'
  BY <1>1, <1>3, <1>5 DEF BillInv, OnlineIsTold
<1> QED
  BY <1>8, <1>9, <1>10, <1>11, <1>12, <1>13, <1>14 DEF BillInv

LEMMA HearsLoginStep ==
    ASSUME BillTypes, BillInv, out # <<>>, out' = Tail(out), greeted,
           NEW p \in Players, Head(out) = Line("LOGIN", p),
           NEW m \in {Line("OK", p), Line("BAD", p)}, answers' = Append(answers, m),
           online' = IF m = Line("OK", p) THEN online \cup {p} ELSE online,
           UNCHANGED <<conf, phase, known, bstate, linked, losing, logindata, told, pending, greeted>>,
           linked
    PROVE  BillTypes' /\ BillInv'
<1>1. /\ out' \in Seq(ToBiller)
      /\ \A M : /\ One(out', M) => One(out, M)
                /\ Two(out', M) => Two(out, M)
                /\ Three(out', M) => Three(out, M)
                /\ Head(out) \notin M => (One(out, M) => One(out', M))
      /\ \A A, B : Before(out', A, B) => Before(out, A, B)
  BY ReadLines DEF BillTypes
<1>2. Head(out) \in LoginLines(p) /\ \A q \in Players : Head(out) \notin LogoffLines(q)
  BY DEF LoginLines, LogoffLines, Line
<1>3. One(out, LoginLines(p)) /\ (One(out', LoginLines(p)) => Two(out, LoginLines(p)))
  BY <1>2, ReadLines DEF BillTypes
<1>4. ~One(out', LoginLines(p)) /\ ~One(answers, AnswerLines(p)) /\ phase[p] = "waiting"
  BY <1>3 DEF BillInv, AskedOnce
<1>5. p \in told
  BY <1>3 DEF BillInv, ForgottenIsIgnored
<1>6. /\ m \in FromBiller /\ answers \in Seq(FromBiller) /\ m \notin Verdicts
      /\ \A q \in Players \ {p} : m \notin AnswerLines(q)
  <2>1. m \in FromBiller /\ answers \in Seq(FromBiller)
    BY LineKinds DEF BillTypes
  <2>2. m \notin Verdicts /\ \A q \in Players \ {p} : m \notin AnswerLines(q)
    BY ClientsAssumption DEF Verdicts, AnswerLines, Line
  <2> QED
    BY <2>1, <2>2
<1>7. /\ answers' \in Seq(FromBiller)
      /\ \A M : One(answers, M) => One(answers', M)
      /\ \A M : m \notin M => /\ One(answers', M) <=> One(answers, M)
                              /\ Two(answers', M) <=> Two(answers, M)
                              /\ Three(answers', M) => Three(answers, M)
  BY <1>6, MaybeAppended
<1>8. ~Two(answers', AnswerLines(p))
  <2>1. ~Two(answers, AnswerLines(p))
    BY DEF BillInv, AskedOnce
  <2> QED
    BY <1>4, <1>6, <2>1, AppendBefore DEF Two
<1>9. BillTypes' /\ Ssc' = Ssc
  BY <1>1, <1>7 DEF BillTypes, Ssc
<1>10. InsideIsKnown' /\ LoginDataWaits' /\ PendingCounted' /\ (online \subseteq Players)'
  BY <1>9 DEF BillInv, InsideIsKnown, LoginDataWaits, PendingCounted
<1>11. AskedOnce'
  <2> SUFFICES ASSUME NEW q \in Players
               PROVE  /\ ~Two(out', LoginLines(q)) /\ ~Two(answers', AnswerLines(q))
                      /\ ~(One(out', LoginLines(q)) /\ One(answers', AnswerLines(q)))
                      /\ One(out', LoginLines(q)) \/ One(answers', AnswerLines(q)) => phase'[q] = "waiting"
    BY DEF AskedOnce
  <2>1. CASE q = p
    BY <1>1, <1>4, <1>8, <2>1 DEF BillInv, AskedOnce
  <2>2. CASE q # p
    BY <1>1, <1>6, <1>7, <2>2 DEF BillInv, AskedOnce
  <2> QED
    BY <2>1, <2>2
<1>12. FewConnects'
  BY <1>1, <1>6, <1>7, <1>9 DEF BillInv, FewConnects
<1>13. LoginsAreOld' /\ ForgottenIsIgnored' /\ LinkFits'
  BY <1>1, <1>9 DEF BillInv, LoginsAreOld, ForgottenIsIgnored, LinkFits
<1>14. ~One(answers, OkLines(p)) /\ (m = Line("OK", p) => One(answers', OkLines(p)))
  <2>1. OkLines(p) \subseteq AnswerLines(p)
    BY DEF OkLines, AnswerLines
  <2>2. m = Line("OK", p) => One(Append(answers, m), OkLines(p))
    BY <1>6, AppendOne DEF OkLines
  <2> QED
    BY <1>4, <2>1, <2>2, Widens
<1>15. OnlineIsTold'
  <2> SUFFICES ASSUME NEW q \in online'
               PROVE  \/ One(out', LogoffLines(q))
                      \/ /\ q \in told' /\ phase'[q] \in Here
                         /\ phase'[q] = "waiting" => One(answers', OkLines(q))
    BY DEF OnlineIsTold
  <2>1. q \in Players
    BY DEF BillInv
  <2>2. CASE q = p /\ m = Line("OK", p)
    BY <1>4, <1>5, <1>14, <2>2 DEF Here
  <2>3. CASE q = p /\ m # Line("OK", p)
    BY <1>1, <1>2, <1>4, <1>14, <2>1, <2>3 DEF BillInv, OnlineIsTold
  <2>4. CASE q # p
    BY <1>1, <1>2, <1>7, <2>1, <2>4 DEF BillInv, OnlineIsTold
  <2> QED
    BY <2>2, <2>3, <2>4
<1> QED
  BY <1>9, <1>10, <1>11, <1>12, <1>13, <1>15 DEF BillInv

LEMMA BillerHearsStep ==
    ASSUME BillTypes, BillInv, BillerHears
    PROVE  BillTypes' /\ BillInv'
<1> DEFINE m == Head(out)
<1>1. /\ linked /\ out # <<>> /\ bstate \in {"waitlogin", "loggedin"} /\ out' = Tail(out)
      /\ UNCHANGED <<conf, phase, known, bstate, linked, losing, logindata, told, pending>>
  BY DEF BillerHears, clientvars
<1>2. m \in ToBiller
  BY <1>1, ReadLines DEF BillTypes
<1>3. /\ m = Line(m.what, m.p)
      /\ \/ m.what = "CONNECT" /\ m.p = NoPlayer
         \/ m.what \in {"LOGIN", "LOGOFF", "CHAT"} /\ m.p \in Players
      /\ m.what = "CONNECT" <=> m \in ConnectLines
      /\ \A p \in Players : m \in LogoffLines(p) <=> m.what = "LOGOFF" /\ m.p = p
  BY <1>2, OutKinds
<1>4. CASE m.what = "CONNECT"
  <2>1. /\ greeted' = TRUE /\ UNCHANGED online
        /\ \E v \in Verdicts : answers' = Append(answers, v)
    BY <1>4 DEF BillerHears, Verdicts
  <2> QED
    BY <1>1, <1>3, <1>4, <2>1, HearsConnectStep
<1>5. CASE m.what = "LOGIN" /\ greeted
  <2>1. /\ UNCHANGED greeted
        /\ \E v \in {Line("OK", m.p), Line("BAD", m.p)} :
              /\ answers' = Append(answers, v)
              /\ online' = IF v = Line("OK", m.p) THEN online \cup {m.p} ELSE online
    BY <1>5 DEF BillerHears, Line
  <2>2. m.p \in Players /\ Head(out) = Line("LOGIN", m.p)
    BY <1>3, <1>5
  <2> QED
    BY <1>1, <1>5, <2>1, <2>2, HearsLoginStep
<1>6. CASE m.what = "LOGOFF"
  <2>1. online' = online \ {m.p} /\ UNCHANGED <<greeted, answers>>
    BY <1>6 DEF BillerHears
  <2> QED
    BY <1>1, <1>3, <1>6, <2>1, HeardStep
<1>7. CASE m.what \notin {"CONNECT", "LOGOFF"} /\ ~(m.what = "LOGIN" /\ greeted)
  <2>1. UNCHANGED <<greeted, online, answers>>
    BY <1>7 DEF BillerHears
  <2> QED
    BY <1>1, <1>3, <1>7, <2>1, HeardStep
<1> QED
  BY <1>4, <1>5, <1>6, <1>7

----------------------------------------------------------------------------
(* What the biller has sent is processed.                                  *)

\* A packet that is no answer to a player's login.
LEMMA ReadStep ==
    ASSUME BillTypes, BillInv, answers # <<>>, answers' = Tail(answers),
           bstate \in {"waitlogin", "loggedin"}, phase' \in [Players -> Phases], PhaseMoves, known' = known,
           \A p \in Players : Head(answers) \notin AnswerLines(p),
           ~Ssc => bstate' = IF Head(answers) \in Verdicts THEN "loggedin" ELSE bstate,
           UNCHANGED <<conf, linked, losing, logindata, told, pending, out, greeted, online>>
    PROVE  BillTypes' /\ BillInv'
<1>1. /\ answers' \in Seq(FromBiller)
      /\ \A M : /\ One(answers', M) => One(answers, M)
                /\ Two(answers', M) => Two(answers, M)
                /\ Three(answers', M) => Three(answers, M)
                /\ Head(answers) \notin M => (One(answers, M) => One(answers', M))
                /\ Head(answers) \in M => /\ One(answers, M)
                                          /\ One(answers', M) => Two(answers, M)
                                          /\ Two(answers', M) => Three(answers, M)
  BY ReadLines DEF BillTypes
<1>2. BillTypes' /\ Ssc' = Ssc
  BY <1>1 DEF BillTypes, Ssc
<1>3. InsideIsKnown'
  BY DEF BillInv, InsideIsKnown, PhaseMoves
<1>4. LoginDataWaits' /\ PendingCounted' /\ (online \subseteq Players)'
  BY <1>2 DEF BillInv, LoginDataWaits, PendingCounted, PhaseMoves, BillTypes
<1>5. AskedOnce'
  BY <1>1 DEF BillInv, AskedOnce, PhaseMoves
<1>6. FewConnects'
  BY <1>1, <1>2 DEF BillInv, FewConnects
<1>7. LoginsAreOld' /\ ForgottenIsIgnored' /\ LinkFits'
  BY <1>2 DEF BillInv, LoginsAreOld, ForgottenIsIgnored, LinkFits
<1>8. \A p \in Players : One(answers, OkLines(p)) => One(answers', OkLines(p))
  BY <1>1 DEF OkLines, AnswerLines
<1>9. OnlineIsTold'
  BY <1>8 DEF BillInv, OnlineIsTold, PhaseMoves
<1> QED
  BY <1>2, <1>3, <1>4, <1>5, <1>6, <1>7, <1>9 DEF BillInv

\* The answer to a login.
LEMMA AnsweredStep ==
    ASSUME BillTypes, BillInv, answers # <<>>, answers' = Tail(answers),
           NEW p \in Players, NEW ok \in BOOLEAN,
           Head(answers) = Line(IF ok THEN "OK" ELSE "BAD", p), Answered(p, ok), known' = known,
           ~Ssc => bstate' = bstate,
           UNCHANGED <<conf, linked, losing, told, out, greeted, online>>
    PROVE  BillTypes' /\ BillInv'
<1>1. /\ answers' \in Seq(FromBiller)
      /\ \A M : /\ One(answers', M) => One(answers, M)
                /\ Two(answers', M) => Two(answers, M)
                /\ Three(answers', M) => Three(answers, M)
                /\ Head(answers) \notin M => (One(answers, M) => One(answers', M))
                /\ Head(answers) \in M => One(answers, M) /\ (One(answers', M) => Two(answers, M))
  BY ReadLines DEF BillTypes
<1>2. /\ Head(answers) \in AnswerLines(p) /\ (Head(answers) \in OkLines(p) => ok)
      /\ \A q \in Players \ {p} : Head(answers) \notin AnswerLines(q) /\ Head(answers) \notin OkLines(q)
  BY DEF AnswerLines, OkLines, Line
<1>3. phase[p] = "waiting" /\ ~One(out, LoginLines(p)) /\ ~One(answers', AnswerLines(p))
  BY <1>1, <1>2 DEF BillInv, AskedOnce
<1>4. /\ Goes(p, IF ok THEN "accepted" ELSE "connected")
      /\ IF Ssc THEN p \in logindata /\ logindata' = logindata \ {p} /\ pending' = pending - 1
                ELSE UNCHANGED <<logindata, pending>>
  BY <1>3 DEF Answered, AuthDone, BillInv, LoginDataWaits
<1>5. /\ phase' \in [Players -> Phases]
      /\ \A q \in Players : phase'[q] = IF q = p THEN IF ok THEN "accepted" ELSE "connected" ELSE phase[q]
  BY <1>4 DEF BillTypes, Phases, Goes
<1>6. BillTypes' /\ Ssc' = Ssc
  BY <1>1, <1>4, <1>5 DEF BillTypes, Ssc
<1>7. InsideIsKnown'
  BY <1>5 DEF BillInv, InsideIsKnown, Inside
<1>8. LoginDataWaits' /\ PendingCounted'
  <2>1. CASE Ssc
    <3>1. IsFiniteSet(logindata') /\ Cardinality(logindata') = Cardinality(logindata) - 1
      BY <1>4, <2>1, FS_RemoveElement DEF BillInv, LoginDataWaits
    <3>2. LoginDataWaits'
      BY <1>4, <1>5, <1>6, <2>1, <3>1 DEF BillInv, LoginDataWaits, BillTypes
    <3> QED
      BY <1>4, <2>1, <3>1, <3>2 DEF BillInv, PendingCounted
  <2>2. CASE ~Ssc
    BY <1>4, <1>5, <1>6, <2>2 DEF BillInv, LoginDataWaits, PendingCounted, BillTypes
  <2> QED
    BY <2>1, <2>2
<1>9. AskedOnce'
  BY <1>1, <1>3, <1>5 DEF BillInv, AskedOnce
<1>10. Head(answers) \notin Verdicts
  BY ClientsAssumption DEF Verdicts, Line
<1>11. FewConnects' /\ LoginsAreOld' /\ ForgottenIsIgnored' /\ LinkFits' /\ (online \subseteq Players)'
  BY <1>1, <1>6 DEF BillInv, FewConnects, LoginsAreOld, ForgottenIsIgnored, LinkFits
<1>12. ASSUME One(answers, OkLines(p)) PROVE ok
  <2>1. OkLines(p) \subseteq AnswerLines(p)
    BY DEF OkLines, AnswerLines
  <2>2. ~One(answers', OkLines(p))
    BY <1>3, <2>1, Widens
  <2> QED
    BY <1>1, <1>2, <1>12, <2>2
<1>13. OnlineIsTold'
  <2> SUFFICES ASSUME NEW q \in online
               PROVE  \/ One(out', LogoffLines(q))
                      \/ /\ q \in told' /\ phase'[q] \in Here
                         /\ phase'[q] = "waiting" => One(answers', OkLines(q))
    BY DEF OnlineIsTold
  <2>1. q \in Players
    BY DEF BillInv
  <2>2. CASE q = p
    BY <1>3, <1>5, <1>12, <2>1, <2>2 DEF BillInv, OnlineIsTold, Here
  <2>3. CASE q # p
    BY <1>1, <1>2, <1>5, <2>1, <2>3 DEF BillInv, OnlineIsTold
  <2> QED
    BY <2>2, <2>3
<1> QED
  BY <1>6, <1>7, <1>8, <1>9, <1>11, <1>13 DEF BillInv

\* The biller refuses the zone.
LEMMA ZoneIsRefusedStep ==
    ASSUME BillTypes, BillInv, answers # <<>>, bstate \in {"waitlogin", "loggedin"}, bstate' = "loginfailed",
           Head(answers) \in Verdicts, NEW received \in Kept(Tail(answers)), Disconnected(received),
           UNCHANGED <<conf, phase, known, losing, logindata, pending>>
    PROVE  BillTypes' /\ BillInv'
<1>1. /\ Tail(answers) \in Seq(FromBiller)
      /\ \A M : /\ One(Tail(answers), M) => One(answers, M)
                /\ Head(answers) \in M => One(answers, M) /\ (One(Tail(answers), M) => Two(answers, M))
  BY ReadLines DEF BillTypes
<1>2. /\ received \in Seq(FromBiller)
      /\ \A M : ~Two(received, M) /\ (One(received, M) => One(Tail(answers), M))
  BY <1>1, KeptLines
<1>3. /\ Two(out, ConnectLines) => One(out, ConnectLines)
      /\ \A p \in Players : Before(out, ConnectLines, LoginLines(p)) => One(out, ConnectLines)
  BY FewerAreSome DEF BillTypes
<1>4. ASSUME ~Ssc
      PROVE  /\ ~losing' /\ ~Two(out, ConnectLines)
             /\ ~(One(out, ConnectLines) /\ One(received, Verdicts))
             /\ \A p \in Players : ~Before(out, ConnectLines, LoginLines(p))
  <2>1. ~losing
    BY <1>4 DEF BillInv, LinkFits
  <2>2. CASE bstate = "waitlogin"
    BY <1>1, <1>2, <1>4, <2>1, <2>2 DEF BillInv, FewConnects, LoginsAreOld
  <2>3. CASE bstate = "loggedin"
    BY <1>1, <1>3, <1>4, <2>1, <2>3 DEF BillInv, FewConnects
  <2> QED
    BY <2>2, <2>3
<1> QED
  BY <1>1, <1>2, <1>4, LostStep

LEMMA ProcessPacketStep ==
    ASSUME BillTypes, BillInv, ProcessPacket
    PROVE  BillTypes' /\ BillInv'
<1> DEFINE m == Head(answers)
<1>1. answers # <<>> /\ bstate \in {"waitlogin", "loggedin"} /\ UNCHANGED <<conf, losing>>
  BY DEF ProcessPacket
<1>2. m \in FromBiller
  BY <1>1, ReadLines DEF BillTypes
<1>3. /\ m = Line(m.what, m.p)
      /\ \/ m.p = NoPlayer /\ m.what \in {"OK", "BAD"}
         \/ m.p \in Players /\ m.what \in {"OK", "BAD", "KICK"}
      /\ m.p = NoPlayer <=> m \in Verdicts
      /\ \A p \in Players : m \in AnswerLines(p) <=> m.what \in {"OK", "BAD"} /\ m.p = p
  BY <1>2, AnswerKinds
<1>4. CASE m.p = NoPlayer /\ m.what = "BAD"
  <2>1. PICK received \in Kept(Tail(answers)) : Drop("loginfailed", received)
    BY <1>4 DEF ProcessPacket
  <2>2. UNCHANGED <<phase, known, logindata, pending>>
    BY <1>4 DEF ProcessPacket, clientvars
  <2> QED
    BY <1>1, <1>3, <1>4, <2>1, <2>2, ZoneIsRefusedStep DEF Drop
<1>5. CASE ~(m.p = NoPlayer /\ m.what = "BAD")
  <2>1. /\ answers' = Tail(answers)
        /\ bstate' = IF Ssc \/ m.p = NoPlayer THEN "loggedin" ELSE bstate
        /\ UNCHANGED <<linked, told, out, greeted, online>>
    BY <1>5 DEF ProcessPacket
  <2>2. ~Ssc => bstate' = IF m \in Verdicts THEN "loggedin" ELSE bstate
    BY <1>3, <2>1
  <2>3. CASE m.p = NoPlayer
    <3>1. UNCHANGED <<phase, known, logindata, pending>>
      <4>1. m.what # "KICK"
        BY <1>3, <2>3, ClientsAssumption
      <4> QED
        BY <1>5, <2>3, <4>1 DEF ProcessPacket, clientvars
    <3>2. phase' \in [Players -> Phases] /\ PhaseMoves
      BY <3>1 DEF BillTypes, BillInv, InsideIsKnown, PhaseMoves
    <3>3. \A p \in Players : m \notin AnswerLines(p)
      BY <1>3, <2>3, ClientsAssumption
    <3> QED
      BY <1>1, <2>1, <2>2, <3>1, <3>2, <3>3, ReadStep
  <2>4. CASE m.p \in Players /\ m.what = "KICK"
    <3>1. /\ phase' = phase \/ KickPlayer(m.p)
          /\ UNCHANGED <<known, logindata, pending>>
      BY <1>5, <2>4, ClientsAssumption DEF ProcessPacket, clientvars
    <3>2. phase' \in [Players -> Phases] /\ PhaseMoves
      BY <2>4, <3>1 DEF BillTypes, BillInv, InsideIsKnown, PhaseMoves, KickPlayer, Phases, Here, Inside
    <3>3. \A p \in Players : m \notin AnswerLines(p)
      BY <1>3, <2>4
    <3> QED
      BY <1>1, <2>1, <2>2, <3>1, <3>2, <3>3, ReadStep
  <2>5. CASE m.p \in Players /\ m.what # "KICK"
    <3>1. Answered(m.p, m.what = "OK") /\ known' = known
      BY <1>5, <2>5, ClientsAssumption DEF ProcessPacket
    <3>2. PICK ok \in BOOLEAN : ok = (m.what = "OK")
      OBVIOUS
    <3>3. m = Line(IF ok THEN "OK" ELSE "BAD", m.p) /\ Answered(m.p, ok)
      BY <1>3, <2>5, <3>1, <3>2
    <3>4. ~Ssc => bstate' = bstate
      BY <2>1, <2>5, ClientsAssumption
    <3> QED
      BY <1>1, <2>1, <2>5, <3>1, <3>3, <3>4, AnsweredStep
  <2> QED
    BY <1>3, <2>3, <2>4, <2>5
<1> QED
  BY <1>4, <1>5

LEMMA TurnStep ==
    ASSUME BillTypes, BillInv, Turn
    PROVE  BillTypes' /\ BillInv'
<1>1. CASE GetSocket
  <2>1. linked => linked'
    BY <1>1 DEF GetSocket
  <2>2. ~Ssc => ~losing' /\ bstate = "no_socket" /\ bstate' \in {"connecting", "retry"}
    BY <1>1 DEF GetSocket, BillInv, LinkFits
  <2>3. UNCHANGED <<conf, phase, known, logindata, told, pending, out, answers, greeted, online>>
    BY <1>1 DEF GetSocket, clientvars
  <2> QED
    BY <2>1, <2>2, <2>3, StateStep
<1>2. CASE AssumeGood
  BY <1>2, StateStep DEF AssumeGood, clientvars
<1>3. CASE Retry
  <2>1. ~losing' /\ bstate = "retry" /\ bstate' = "no_socket" /\ linked' = linked
    BY <1>3 DEF Retry
  <2>2. UNCHANGED <<conf, phase, known, logindata, told, pending, out, answers, greeted, online>>
    BY <1>3 DEF Retry, clientvars
  <2> QED
    BY <2>1, <2>2, StateStep
<1>4. CASE ConnectionIsLost
  <2>1. Ssc
    BY <1>4 DEF ConnectionIsLost, BillInv, LinkFits
  <2>2. UNCHANGED <<conf, phase, known, linked, logindata, told, pending, out, answers, greeted, online>>
    BY <1>4 DEF ConnectionIsLost, clientvars
  <2> QED
    BY <2>1, <2>2, StateStep
<1>5. CASE SendConnect
  BY <1>5, SendConnectStep
<1>6. CASE ConnectFails
  BY <1>6, ConnectFailsStep
<1>7. CASE ProcessPacket
  BY <1>7, ProcessPacketStep
<1> QED
  BY <1>1, <1>2, <1>3, <1>4, <1>5, <1>6, <1>7 DEF Turn

LEMMA BillingSteps ==
    ASSUME Unhurried, BillTypes, BillInv, BillingStep
    PROVE  BillTypes' /\ BillInv'
<1>1. CASE UserdbConnect
  <2>1. /\ ~losing' /\ bstate \in {"loginfailed", "disabled", "retry"} /\ bstate' = "no_socket"
        /\ linked' = linked
    BY <1>1 DEF UserdbConnect
  <2>2. UNCHANGED <<conf, phase, known, logindata, told, pending, out, answers, greeted, online>>
    BY <1>1 DEF UserdbConnect, clientvars
  <2> QED
    BY <2>1, <2>2, StateStep
<1>2. ASSUME NEW p \in Players, SaysToBiller(p) PROVE BillTypes' /\ BillInv'
  <2>1. UNCHANGED <<conf, phase, known, bstate, linked, losing, logindata, told, pending, answers, greeted, online>>
    BY <1>2 DEF SaysToBiller, clientvars
  <2>2. CASE out' = Append(out, Line("CHAT", p))
    BY <2>1, <2>2, QueuedStep
  <2>3. CASE out' = out
    <3>1. phase' \in [Players -> Phases] /\ PhaseMoves
      BY <2>1 DEF BillTypes, BillInv, InsideIsKnown, PhaseMoves
    <3> QED
      BY <2>1, <2>3, <3>1, PhaseStep DEF billvars
  <2> QED
    BY <1>2, <2>2, <2>3 DEF SaysToBiller
<1> QED
  BY <1>1, <1>2, TurnStep, BillerHearsStep, BillerKicksStep, ConnectionLostStep, UserdbDropStep DEF BillingStep

----------------------------------------------------------------------------
(* Players come and go.                                                    *)

LEMMA LoginStep ==
    ASSUME BillTypes, BillInv, NEW p \in conf.players, Login(p)
    PROVE  BillTypes' /\ BillInv'
<1>1. p \in Players
  BY ClientsAssumption DEF BillTypes
<1>2. /\ phase[p] = "connected"
      /\ UNCHANGED <<conf, known, bstate, linked, losing, answers, greeted, online>>
  BY DEF Login
<1>3. CASE Has("billing") /\ Ssc
  <2>1. SscAuthenticate(p)
    BY <1>3 DEF Login
  <2>2. CASE bstate = "loggedin" /\ pending < conf.maxPending
    BY <1>1, <1>2, <1>3, <2>1, <2>2, AskedStep DEF SscAuthenticate
  <2>3. CASE ~(bstate = "loggedin" /\ pending < conf.maxPending)
    <3>1. PICK ph \in {"accepted", "connected"} : Goes(p, ph)
      BY <2>1, <2>3 DEF SscAuthenticate
    <3>2. told' = told \ {p} /\ UNCHANGED <<logindata, out, pending>>
      BY <2>1, <2>3 DEF SscAuthenticate
    <3> QED
      BY <1>1, <1>2, <3>1, <3>2, RefusedStep
  <2> QED
    BY <2>2, <2>3
<1>4. CASE Has("billing") /\ ~Ssc
  <2>1. TextAuthenticate(p)
    BY <1>4 DEF Login
  <2>2. CASE bstate = "loggedin"
    BY <1>1, <1>2, <1>4, <2>1, <2>2, AskedStep DEF TextAuthenticate
  <2>3. CASE bstate # "loggedin"
    <3>1. PICK ph \in {"accepted", "connected"} : Goes(p, ph)
      BY <2>1, <2>3 DEF TextAuthenticate
    <3>2. told' = told \ {p} /\ UNCHANGED <<logindata, out, pending>>
      BY <2>1, <2>3 DEF TextAuthenticate
    <3> QED
      BY <1>1, <1>2, <3>1, <3>2, RefusedStep
  <2> QED
    BY <2>2, <2>3
<1>5. CASE ~Has("billing")
  <2>1. Goes(p, "accepted") /\ UNCHANGED <<logindata, told, pending, out>>
    BY <1>5 DEF Login
  <2> QED
    BY <1>1, <1>2, <2>1, RefusedStep
<1> QED
  BY <1>3, <1>4, <1>5

\* The callbacks of core between the login and the end, but for PA_DISCONNECT.
PassedOn(p) ==
    Connects(p) \/ Departs(p) \/ ConnectCallbacks(p) \/ Arrives(p) \/ EnterCallbacks(p) \/ Leaves(p)
      \/ LeaveCallbacks(p) \/ (Disconnects(p) /\ p \notin known)

LEMMA PassesMoves ==
    ASSUME BillTypes, BillInv, NEW p \in Players, PassedOn(p)
    PROVE  phase' \in [Players -> Phases] /\ PhaseMoves /\ conf' = conf
<1>1. \A q \in Players : phase[q] \in Inside => q \in known
  BY DEF BillInv, InsideIsKnown
<1>2. CASE Connects(p)
  BY <1>1, <1>2 DEF BillTypes, Connects, Goes, PhaseMoves, Phases, Inside, Here
<1>3. CASE Departs(p)
  BY <1>1, <1>3 DEF BillTypes, Departs, KickPlayer, PhaseMoves, Phases, Inside, Here
<1>4. CASE ConnectCallbacks(p)
  BY <1>1, <1>4 DEF BillTypes, ConnectCallbacks, Goes, PhaseMoves, Phases, Inside, Here
<1>5. CASE Arrives(p)
  BY <1>1, <1>5 DEF BillTypes, Arrives, Goes, PhaseMoves, Phases, Inside, Here
<1>6. CASE EnterCallbacks(p)
  BY <1>1, <1>6 DEF BillTypes, EnterCallbacks, Goes, PhaseMoves, Phases, Inside, Here
<1>7. CASE Leaves(p)
  BY <1>1, <1>7 DEF BillTypes, Leaves, Goes, PhaseMoves, Phases, Inside, Here
<1>8. CASE LeaveCallbacks(p)
  BY <1>1, <1>8 DEF BillTypes, LeaveCallbacks, Goes, PhaseMoves, Phases, Inside, Here
<1>9. CASE Disconnects(p) /\ p \notin known
  BY <1>1, <1>9 DEF BillTypes, Disconnects, Goes, PhaseMoves, Phases, Inside, Here
<1> QED
  BY <1>2, <1>3, <1>4, <1>5, <1>6, <1>7, <1>8, <1>9 DEF PassedOn

\* What a step of the zone is to billing.
LEMMA BillingMeets ==
    ASSUME Next
    PROVE  \/ \E p \in conf.players : Login(p)
           \/ \E p \in conf.players : Disconnects(p) /\ BillingDisconnect(p)
           \/ \E p \in conf.players : Freed(p) /\ BillingForgets(p)
           \/ \E p \in conf.players : PassedOn(p) /\ UNCHANGED billvars
           \/ BillingStep
           \/ UNCHANGED <<conf, clientvars, billvars>>
<1>1. ASSUME NEW p \in conf.players, Arrive(p) PROVE PassedOn(p) /\ UNCHANGED billvars
  BY <1>1 DEF Arrive, PassedOn
<1>2. ASSUME NEW p \in conf.players, Enter(p) PROVE PassedOn(p) /\ UNCHANGED billvars
  BY <1>2 DEF Enter, PassedOn
<1>3. ASSUME NEW p \in conf.players, Leave(p) PROVE PassedOn(p) /\ UNCHANGED billvars
  BY <1>3 DEF Leave, PassedOn
<1>4. ASSUME NEW p \in conf.players, Coming(p) PROVE PassedOn(p) /\ UNCHANGED billvars
  BY <1>4 DEF Coming, PassedOn
<1>5. ASSUME NEW p \in conf.players, Disconnect(p)
      PROVE  (Disconnects(p) /\ BillingDisconnect(p)) \/ (PassedOn(p) /\ UNCHANGED billvars)
  BY <1>5 DEF Disconnect, PassedOn
<1>6. ASSUME NEW p \in conf.players, Free(p) PROVE Freed(p) /\ BillingForgets(p)
  BY <1>6 DEF Free
<1>7. CASE TransfersStep /\ UNCHANGED billvars
  BY <1>7 DEF TransfersStep, SendFile, Cputfile, Ccancelfile, Cacceptfile, UploadBegins, UploadEnds,
     UploadIsQueued, PIncFile, DownloadEnds, Csendfile
<1>8. CASE RecorderStep /\ UNCHANGED billvars
  BY <1>8 DEF RecorderStep, StartRecording, RecorderThread, StopRecording, StopJoins, Suicide, StartPlayback,
     Tell, PlaybackBegins, PlaybackObeys, PlaybackThread, Happens
<1>9. CASE ObjectsStep /\ UNCHANGED billvars
  BY <1>9 DEF ObjectsStep, Toggle, Change, PBroadcast, Recycle, ToPlayer, EnterGame
<1>10. CASE TurfStep /\ UNCHANGED billvars
  BY <1>10 DEF TurfStep, TurfTag, TurfChange, TurfKill, Ding, TurfResetFlags, OthersReset, TurfRecycle
<1>11. CASE StatsStep /\ UNCHANGED billvars
  BY <1>11 DEF StatsStep
<1> QED
  BY <1>1, <1>2, <1>3, <1>4, <1>5, <1>6, <1>7, <1>8, <1>9, <1>10, <1>11 DEF Next

LEMMA BillingNext ==
    ASSUME Unhurried, BillTypes, BillInv, [Next]_vars
    PROVE  BillTypes' /\ BillInv'
<1>1. ASSUME UNCHANGED <<conf, clientvars, billvars>> PROVE BillTypes' /\ BillInv'
  <2>1. phase' \in [Players -> Phases] /\ PhaseMoves /\ UNCHANGED conf /\ UNCHANGED billvars
    BY <1>1 DEF BillTypes, BillInv, InsideIsKnown, PhaseMoves, clientvars
  <2> QED
    BY <2>1, PhaseStep
<1>2. CASE UNCHANGED vars
  BY <1>1, <1>2 DEF vars
<1>3. \A p \in conf.players : p \in Players
  BY ClientsAssumption DEF BillTypes
<1>4. ASSUME NEW p \in conf.players, PassedOn(p), UNCHANGED billvars PROVE BillTypes' /\ BillInv'
  BY <1>3, <1>4, PassesMoves, PhaseStep
<1>5. CASE Next
  BY <1>1, <1>3, <1>4, <1>5, BillingMeets, LoginStep, DisconnectStep, FreeStep, BillingSteps
<1> QED
  BY <1>2, <1>5

LEMMA BillingBegins == Init => BillTypes /\ BillInv
<1> SUFFICES ASSUME Init PROVE BillTypes /\ BillInv
  OBVIOUS
<1>1. /\ out = <<>> /\ answers = <<>> /\ logindata = {} /\ pending = 0 /\ online = {} /\ ~linked /\ ~losing
      /\ bstate = "no_socket" /\ conf \in Configs
  BY DEF Init, BillingInit, ClientsInit
<1>2. /\ phase \in [Players -> Phases]
      /\ \A p \in Players : phase[p] # "waiting" /\ (phase[p] \in Inside => p \in known)
  BY DEF Init, ClientsInit, Phases, Inside
<1>3. \A M, A, B : ~One(<<>>, M) /\ ~Before(<<>>, A, B) /\ ~Two(<<>>, M) /\ ~Three(<<>>, M)
  BY EmptyHasNone
<1>4. IsFiniteSet(logindata) /\ Cardinality(logindata) = 0
  BY <1>1, FS_EmptySet
<1>5. BillTypes
  BY <1>1, <1>2 DEF BillTypes
<1>6. InsideIsKnown /\ LoginDataWaits /\ PendingCounted
  BY <1>1, <1>2, <1>4 DEF InsideIsKnown, LoginDataWaits, PendingCounted
<1>7. AskedOnce /\ FewConnects /\ LoginsAreOld /\ ForgottenIsIgnored
  BY <1>1, <1>3 DEF AskedOnce, FewConnects, LoginsAreOld, ForgottenIsIgnored
<1>8. LinkFits /\ online \subseteq Players /\ OnlineIsTold
  BY <1>1 DEF LinkFits, OnlineIsTold
<1> QED
  BY <1>5, <1>6, <1>7, <1>8 DEF BillInv

\* However logins, answers, kicks and the ends of connections overlap, the questions that
\* are unanswered are counted (pending_auths), one is under way for each player who waits,
\* and whom the biller has let in is in the zone or will be logged off.
THEOREM BillingInvariant ==
    ASSUME Unhurried
    PROVE  Spec => [](BillTypes /\ BillInv)
<1>1. BillTypes /\ BillInv /\ [Next]_vars => (BillTypes /\ BillInv)'
  BY BillingNext
<1> QED
  BY <1>1, BillingBegins, PTL DEF Spec

\* The count of pending_auths is right, and no account stays in use at the biller after its
\* player has gone: for both protocols, any players, and connections that fail at any time,
\* if nothing is queued for billing.c's biller when it goes away.
THEOREM BillerAndZoneAgree ==
    ASSUME Unhurried
    PROVE  Spec => []BillingAgrees
<1>1. BillTypes /\ BillInv => BillingAgrees
  <2> SUFFICES ASSUME BillTypes, BillInv, NEW p \in online
               PROVE  /\ PendingCounted
                      /\ \/ phase[p] \in {"waiting", "accepted", "loggedin", "arriving", "playing", "leaving"}
                         \/ \E i \in DOMAIN out : out[i] = Line("LOGOFF", p)
    BY DEF BillInv, BillingAgrees, BillerKnowsWhoIsHere
  <2> QED
    BY DEF BillInv, OnlineIsTold, Here, One, LogoffLines
<1> QED
  BY <1>1, BillingInvariant, PTL

----------------------------------------------------------------------------
(* Where players are, whatever the services do.                            *)

PhaseTypes == conf \in Configs /\ phase \in [Players -> Phases]

\* Nobody but Arrive takes players into an arena, and nobody but Leave out of it.
NobodyArrives ==
    /\ UNCHANGED conf /\ phase' \in [Players -> Phases] /\ Playing' \subseteq Playing
    /\ InArena' = InArena
    /\ \A p \in Players : phase[p] \in {"playing", "leaving"} => phase'[p] \in {"playing", "leaving"}

\* Nobody but Enter makes them players there.
NobodyEnters == \A p \in Players : phase'[p] = "playing" => phase[p] = "playing"

\* Nobody goes out of the zone either, or comes in without PA_CONNECT.
NobodyGoes ==
    /\ NobodyArrives /\ known \subseteq known'
    /\ \A p \in Players : /\ phase[p] \in Inside => phase'[p] \in Inside
                          /\ phase'[p] \in Inside => phase[p] \in Inside \/ p \in known'

LEMMA BillingMovesNobody ==
    ASSUME PhaseTypes, BillingStep
    PROVE  NobodyGoes /\ NobodyEnters
<1>1. ASSUME UNCHANGED <<conf, clientvars>> PROVE NobodyGoes /\ NobodyEnters
  BY <1>1 DEF NobodyGoes, NobodyArrives, NobodyEnters, Inside, Playing, InArena, clientvars, PhaseTypes
<1>2. CASE ProcessPacket
  <2> DEFINE m == Head(answers)
  <2>1. UNCHANGED <<conf, known>>
    BY <1>2 DEF ProcessPacket, clientvars
  <2>2. \/ phase' = phase \/ KickPlayer(m.p)
        \/ phase[m.p] = "waiting" /\ \E ph \in {"accepted", "connected"} : Goes(m.p, ph)
    BY <1>2 DEF ProcessPacket, Answered, AuthDone, clientvars
  <2>3. CASE phase' = phase
    BY <2>1, <2>3 DEF NobodyGoes, NobodyArrives, NobodyEnters, Inside, Playing, InArena, PhaseTypes
  <2>4. CASE KickPlayer(m.p)
    BY <2>1, <2>4 DEF NobodyGoes, NobodyArrives, NobodyEnters, Inside, Playing, InArena, KickPlayer, Phases, PhaseTypes
  <2>5. CASE phase[m.p] = "waiting" /\ \E ph \in {"accepted", "connected"} : Goes(m.p, ph)
    BY <2>1, <2>5 DEF NobodyGoes, NobodyArrives, NobodyEnters, Inside, Playing, InArena, Goes, Phases, PhaseTypes
  <2> QED
    BY <2>2, <2>3, <2>4, <2>5
<1>3. CASE Turn /\ ~ProcessPacket
  BY <1>1, <1>3 DEF Turn, GetSocket, SendConnect, ConnectFails, AssumeGood, Retry, ConnectionIsLost
<1>4. CASE BillerHears \/ ConnectionLost
  BY <1>1, <1>4 DEF BillerHears, ConnectionLost
<1>5. CASE UserdbDrop \/ UserdbConnect
  BY <1>1, <1>5 DEF UserdbDrop, UserdbConnect
<1>6. ASSUME NEW p \in Players, SaysToBiller(p) \/ BillerKicks(p) PROVE NobodyGoes /\ NobodyEnters
  BY <1>1, <1>6 DEF SaysToBiller, BillerKicks
<1> QED
  BY <1>2, <1>3, <1>4, <1>5, <1>6 DEF BillingStep

LEMMA LoginMovesNobody ==
    ASSUME PhaseTypes, NEW p \in conf.players, Login(p)
    PROVE  NobodyGoes /\ NobodyEnters
<1>1. p \in Players
  BY ClientsAssumption DEF PhaseTypes
<1>2. \E ph \in {"accepted", "connected", "waiting"} : Goes(p, ph)
  <2>1. CASE Has("billing") /\ Ssc
    <3>1. SscAuthenticate(p)
      BY <2>1 DEF Login
    <3> QED
      BY <3>1 DEF SscAuthenticate
  <2>2. CASE Has("billing") /\ ~Ssc
    <3>1. TextAuthenticate(p)
      BY <2>2 DEF Login
    <3> QED
      BY <3>1 DEF TextAuthenticate
  <2>3. CASE ~Has("billing")
    BY <2>3 DEF Login
  <2> QED
    BY <2>1, <2>2, <2>3
<1>3. conf' = conf /\ known' = known /\ phase[p] = "connected"
  BY DEF Login
<1> QED
  BY <1>1, <1>2, <1>3 DEF PhaseTypes, Phases, Goes, NobodyGoes, NobodyArrives, NobodyEnters, Inside, Playing, InArena

LEMMA PlayersMove ==
    ASSUME PhaseTypes, [Next]_vars
    PROVE  \/ \E p \in conf.players : Arrive(p) \/ Leave(p)
           \/ \E p \in conf.players : Enter(p) /\ NobodyGoes
           \/ \E p \in conf.players : Disconnect(p) /\ NobodyArrives /\ NobodyEnters
           \/ NobodyGoes /\ NobodyEnters
<1> USE DEF PhaseTypes
<1>1. \A p \in conf.players : p \in Players
  BY ClientsAssumption
<1>2. ASSUME UNCHANGED <<conf, clientvars>> PROVE NobodyGoes /\ NobodyEnters
  BY <1>2 DEF NobodyGoes, NobodyArrives, NobodyEnters, Inside, Playing, InArena, clientvars
<1>3. CASE UNCHANGED vars
  BY <1>2, <1>3 DEF vars
<1>4. ASSUME NEW p \in conf.players, Login(p) PROVE NobodyGoes /\ NobodyEnters
  BY <1>4, LoginMovesNobody
<1>5. ASSUME NEW p \in conf.players, Enter(p) PROVE NobodyGoes
  BY <1>1, <1>5 DEF Enter, EnterCallbacks, Goes, NobodyGoes, NobodyArrives, NobodyEnters, Inside, Playing, InArena, Phases
<1>6. ASSUME NEW p \in conf.players, Disconnect(p) PROVE NobodyArrives /\ NobodyEnters
  BY <1>1, <1>6 DEF Disconnect, Disconnects, Goes, NobodyArrives, NobodyEnters, Playing, InArena, Phases
<1>7. ASSUME NEW p \in conf.players, Free(p) PROVE NobodyGoes /\ NobodyEnters
  BY <1>1, <1>7 DEF Free, Freed, Goes, NobodyGoes, NobodyArrives, NobodyEnters, Inside, Playing, InArena, Phases
<1>8. ASSUME NEW p \in conf.players, Coming(p) PROVE NobodyGoes /\ NobodyEnters
  <2>1. ASSUME Connects(p) \/ ConnectCallbacks(p) \/ Leaves(p) PROVE NobodyGoes /\ NobodyEnters
    BY <1>1, <2>1 DEF Connects, ConnectCallbacks, Leaves, Goes, NobodyGoes, NobodyArrives, NobodyEnters, Inside, Playing, InArena, Phases
  <2>2. ASSUME Departs(p) PROVE NobodyGoes /\ NobodyEnters
    BY <1>1, <2>2 DEF Departs, KickPlayer, NobodyGoes, NobodyArrives, NobodyEnters, Inside, Playing, InArena, Phases
  <2> QED
    BY <1>8, <2>1, <2>2 DEF Coming
<1>9. CASE BillingStep
  BY <1>9, BillingMovesNobody
<1>10. CASE TransfersStep
  BY <1>2, <1>10 DEF TransfersStep, SendFile, Cputfile, Ccancelfile, Cacceptfile, UploadBegins, UploadEnds,
     UploadIsQueued, PIncFile, DownloadEnds, Csendfile
<1>11. CASE RecorderStep
  BY <1>2, <1>11 DEF RecorderStep, StartRecording, RecorderThread, StopRecording, StopJoins, Suicide,
     StartPlayback, Tell, PlaybackBegins, PlaybackObeys, PlaybackThread, Happens
<1>12. CASE ObjectsStep
  BY <1>2, <1>12 DEF ObjectsStep, Toggle, Change, PBroadcast, Recycle, ToPlayer, EnterGame
<1>13. CASE TurfStep
  BY <1>2, <1>13 DEF TurfStep, TurfTag, TurfChange, TurfKill, Ding, TurfResetFlags, OthersReset, TurfRecycle
<1>14. CASE StatsStep
  BY <1>2, <1>14 DEF StatsStep
<1> QED
  BY <1>2, <1>3, <1>4, <1>5, <1>6, <1>7, <1>8, <1>9, <1>10, <1>11, <1>12, <1>13, <1>14 DEF Next

----------------------------------------------------------------------------
(* The groups.                                                             *)

Ranks == {"none", "unset", "default", "mod", "smod"} \cup conf.passwords

\* What source says of a player in an arena is true of staff.conf.
SourceIsTrue ==
    \A p \in Playing :
        /\ inarena[p] \in conf.arenas
        /\ source[p] = "default" =>
              group[p] = "default" /\ staff[inarena[p]][p] = "unset" /\ staff["global"][p] = "unset"
        /\ source[p] = "arena" => group[p] = staff[inarena[p]][p] /\ group[p] # "unset"
        /\ source[p] = "global" => group[p] = staff["global"][p] /\ group[p] # "unset"

GroupInv ==
    /\ conf \in Configs /\ phase \in [Players -> Phases]
    /\ staff \in [Scopes -> [Players -> Ranks]] /\ group \in [Players -> Ranks]
    /\ source \in [Players -> {"default", "arena", "global", "temp"}]
    /\ inarena \in [Players -> conf.arenas \cup {"nowhere"}]
    /\ SourceIsTrue /\ NobodyRises

\* Nobody can become a member of the highest group by a password.
NoPassword == \A c \in Configs : "smod" \notin c.passwords

LEMMA GroupsBegin == Init => GroupInv
<1> SUFFICES ASSUME Init PROVE GroupInv
  OBVIOUS
<1>1. /\ conf \in Configs
      /\ staff = [s \in Scopes |-> [p \in Players |-> IF s = "global" /\ p \in conf.staff THEN "smod" ELSE "unset"]]
      /\ group = [p \in Players |-> "none"] /\ source = [p \in Players |-> "default"]
      /\ inarena = [p \in Players |-> "nowhere"]
      /\ \A p \in Players : phase[p] \notin {"arriving", "playing"}
      /\ phase \in [Players -> Phases]
  BY DEF Init, GroupsInit, ClientsInit, Phases
<1>2. Playing = {}
  BY <1>1 DEF Playing
<1>3. /\ staff \in [Scopes -> [Players -> Ranks]] /\ group \in [Players -> Ranks]
      /\ source \in [Players -> {"default", "arena", "global", "temp"}]
      /\ inarena \in [Players -> conf.arenas \cup {"nowhere"}]
  BY <1>1 DEF Ranks
<1>4. NobodyRises
  BY <1>1 DEF NobodyRises
<1> QED
  BY <1>1, <1>2, <1>3, <1>4 DEF GroupInv, SourceIsTrue

LEMMA GroupsStayStep ==
    ASSUME GroupInv, NobodyArrives, UNCHANGED groupvars
    PROVE  GroupInv'
<1>1. Scopes' = Scopes /\ Ranks' = Ranks
  BY DEF Scopes, Ranks, NobodyArrives
<1>2. SourceIsTrue'
  BY DEF GroupInv, SourceIsTrue, NobodyArrives, groupvars
<1>3. NobodyRises'
  BY <1>1 DEF GroupInv, NobodyRises, NobodyArrives, groupvars
<1> QED
  BY <1>1, <1>2, <1>3 DEF GroupInv, NobodyArrives, groupvars

LEMMA GroupsArriveStep ==
    ASSUME GroupInv, NEW p \in Players, GroupsArrive(p), UNCHANGED conf,
           phase' \in [Players -> Phases], Playing' \subseteq Playing \cup {p}
    PROVE  GroupInv'
<1>1. PICK n \in conf.arenas :
        /\ inarena' = [inarena EXCEPT ![p] = n] /\ UNCHANGED staff
        /\ Assigned(p, Entry1(n, p).group, Entry1(n, p).source)
  BY DEF GroupsArrive
<1>2. Scopes' = Scopes /\ Ranks' = Ranks /\ n \in Scopes /\ "global" \in Scopes
  BY DEF Scopes, Ranks
<1> DEFINE e == Entry1(n, p)
<1>3. /\ e.group \in Ranks /\ e.source \in {"default", "arena", "global"}
      /\ e.source = "default" =>
            e.group = "default" /\ staff[n][p] = "unset" /\ staff["global"][p] = "unset"
      /\ e.source = "arena" => e.group = staff[n][p] /\ e.group # "unset"
      /\ e.source = "global" => e.group = staff["global"][p] /\ e.group # "unset"
  <2>1. staff[n][p] \in Ranks /\ staff["global"][p] \in Ranks /\ "default" \in Ranks
    BY <1>2 DEF GroupInv, Ranks
  <2>2. CASE staff[n][p] # "unset"
    <3>1. e = [group |-> staff[n][p], source |-> "arena"]
      BY <2>2 DEF Entry1
    <3>2. e.group = staff[n][p] /\ e.source = "arena"
      BY <3>1
    <3> QED
      BY <2>1, <2>2, <3>2
  <2>3. CASE staff[n][p] = "unset" /\ staff["global"][p] # "unset"
    <3>1. e = [group |-> staff["global"][p], source |-> "global"]
      BY <2>3 DEF Entry1
    <3>2. e.group = staff["global"][p] /\ e.source = "global"
      BY <3>1
    <3> QED
      BY <2>1, <2>3, <3>2
  <2>4. CASE staff[n][p] = "unset" /\ staff["global"][p] = "unset"
    <3>1. e = [group |-> "default", source |-> "default"]
      BY <2>4 DEF Entry1
    <3>2. e.group = "default" /\ e.source = "default"
      BY <3>1
    <3> QED
      BY <2>1, <2>4, <3>2
  <2> QED
    BY <2>2, <2>3, <2>4
<1> HIDE DEF e
<1>4. group' = [group EXCEPT ![p] = e.group] /\ source' = [source EXCEPT ![p] = e.source]
  BY <1>1 DEF Assigned, e
<1>5. /\ staff' \in [Scopes -> [Players -> Ranks]] /\ group' \in [Players -> Ranks]
      /\ source' \in [Players -> {"default", "arena", "global", "temp"}]
      /\ inarena' \in [Players -> conf.arenas \cup {"nowhere"}]
  BY <1>1, <1>3, <1>4 DEF GroupInv
<1>6. SourceIsTrue'
  <2> SUFFICES ASSUME NEW q \in Playing'
               PROVE  /\ inarena'[q] \in conf.arenas
                      /\ source'[q] = "default" =>
                            /\ group'[q] = "default" /\ staff[inarena'[q]][q] = "unset"
                            /\ staff["global"][q] = "unset"
                      /\ source'[q] = "arena" => group'[q] = staff[inarena'[q]][q] /\ group'[q] # "unset"
                      /\ source'[q] = "global" => group'[q] = staff["global"][q] /\ group'[q] # "unset"
    BY <1>1 DEF SourceIsTrue
  <2>1. q \in Players
    BY DEF Playing
  <2>2. CASE q = p
    BY <1>1, <1>3, <1>4, <2>2 DEF GroupInv
  <2>3. CASE q # p
    BY <1>1, <1>4, <2>1, <2>3 DEF GroupInv, SourceIsTrue
  <2> QED
    BY <2>2, <2>3
<1>7. NobodyRises'
  <2>1. p \in Players \ conf.staff => e.group # "smod"
    BY <1>2, <1>3 DEF GroupInv, NobodyRises
  <2> QED
    BY <1>1, <1>2, <1>4, <2>1 DEF GroupInv, NobodyRises
<1> QED
  BY <1>2, <1>5, <1>6, <1>7 DEF GroupInv

LEMMA GroupsLeaveStep ==
    ASSUME GroupInv, NEW p \in Players, GroupsLeave(p), UNCHANGED conf,
           phase' \in [Players -> Phases], Playing' \subseteq Playing \ {p}
    PROVE  GroupInv'
<1>1. Scopes' = Scopes /\ Ranks' = Ranks
  BY DEF Scopes, Ranks
<1>2. /\ \A q \in Players \ {p} : group'[q] = group[q] /\ inarena'[q] = inarena[q]
      /\ group'[p] = "none" /\ UNCHANGED <<staff, source>>
      /\ group' \in [Players -> Ranks] /\ inarena' \in [Players -> conf.arenas \cup {"nowhere"}]
  BY DEF GroupsLeave, GroupInv, Ranks
<1>3. SourceIsTrue'
  BY <1>2 DEF GroupInv, SourceIsTrue, Playing
<1>4. NobodyRises'
  BY <1>1, <1>2 DEF GroupInv, NobodyRises
<1> QED
  BY <1>1, <1>2, <1>3, <1>4 DEF GroupInv

\* A command changes the group of t, and says truly where it is from.
LEMMA CommandStep ==
    ASSUME GroupInv, NEW t \in Playing, UNCHANGED <<conf, phase, inarena>>,
           NEW g \in Ranks, NEW src \in {"default", "arena", "global", "temp"}, Assigned(t, g, src),
           NEW w \in Scopes, staff' \in {staff, [staff EXCEPT ![w][t] = g]},
           t \notin conf.staff => g # "smod",
           src = "default" => g = "default" /\ source[t] = "default" /\ staff' = staff,
           src = "arena" => w = inarena[t] /\ g # "unset" /\ staff' = [staff EXCEPT ![w][t] = g],
           src = "global" => w = "global" /\ g # "unset" /\ staff' = [staff EXCEPT ![w][t] = g]
    PROVE  GroupInv'
<1>1. Scopes' = Scopes /\ Ranks' = Ranks /\ Playing' = Playing /\ t \in Players /\ Playing \subseteq Players
  BY DEF Scopes, Ranks, Playing
<1>2. /\ group' = [group EXCEPT ![t] = g] /\ source' = [source EXCEPT ![t] = src]
  BY DEF Assigned
<1>3. /\ staff' \in [Scopes -> [Players -> Ranks]] /\ group' \in [Players -> Ranks]
      /\ source' \in [Players -> {"default", "arena", "global", "temp"}]
      /\ \A s \in Scopes, q \in Players \ {t} : staff'[s][q] = staff[s][q]
      /\ \A s \in Scopes : staff'[s][t] \in {staff[s][t], g}
      /\ staff' # staff => staff'[w][t] = g
  BY <1>1, <1>2 DEF GroupInv
<1>4. inarena[t] \in Scopes /\ "global" \in Scopes /\ \A q \in Playing : inarena[q] \in Scopes
  BY DEF GroupInv, SourceIsTrue, Scopes
<1>5. SourceIsTrue'
  <2> SUFFICES ASSUME NEW q \in Playing
               PROVE  /\ inarena[q] \in conf.arenas
                      /\ source'[q] = "default" =>
                            /\ group'[q] = "default" /\ staff'[inarena[q]][q] = "unset"
                            /\ staff'["global"][q] = "unset"
                      /\ source'[q] = "arena" => group'[q] = staff'[inarena[q]][q] /\ group'[q] # "unset"
                      /\ source'[q] = "global" => group'[q] = staff'["global"][q] /\ group'[q] # "unset"
    BY <1>1 DEF SourceIsTrue
  <2>1. inarena[q] \in conf.arenas
    BY DEF GroupInv, SourceIsTrue
  <2>2. CASE q = t
    <3>1. group'[q] = g /\ source'[q] = src
      BY <1>1, <1>2, <2>2 DEF GroupInv
    <3>2. ASSUME src = "default" PROVE staff'[inarena[q]][q] = "unset" /\ staff'["global"][q] = "unset"
      BY <2>2, <3>2 DEF GroupInv, SourceIsTrue
    <3>3. ASSUME src = "arena" PROVE staff'[inarena[q]][q] = g /\ g # "unset"
      BY <1>1, <1>4, <2>2, <3>3 DEF GroupInv
    <3>4. ASSUME src = "global" PROVE staff'["global"][q] = g /\ g # "unset"
      BY <1>1, <1>4, <2>2, <3>4 DEF GroupInv
    <3> QED
      BY <2>1, <3>1, <3>2, <3>3, <3>4
  <2>3. CASE q # t
    <3>1. group'[q] = group[q] /\ source'[q] = source[q]
      BY <1>1, <1>2, <2>3 DEF GroupInv
    <3>2. staff'[inarena[q]][q] = staff[inarena[q]][q] /\ staff'["global"][q] = staff["global"][q]
      BY <1>1, <1>3, <1>4, <2>3
    <3> QED
      BY <2>1, <3>1, <3>2 DEF GroupInv, SourceIsTrue
  <2> QED
    BY <2>2, <2>3
<1>6. NobodyRises'
  BY <1>1, <1>2, <1>3 DEF GroupInv, NobodyRises
<1> QED
  BY <1>1, <1>3, <1>5, <1>6 DEF GroupInv

LEMMA GroupsStepStep ==
    ASSUME NoPassword, GroupInv, GroupsStep, UNCHANGED <<conf, phase>>
    PROVE  GroupInv'
<1>1. PICK p \in Playing :
        Cgrplogin(p) \/ \E t \in Playing : Crmgroup(p, t) \/ \E g \in {"mod", "smod"} : Csetgroup(p, t, g)
  BY DEF GroupsStep
<1>2. /\ \A q \in Playing : q \in Players /\ inarena[q] \in Scopes
      /\ "global" \in Scopes /\ {"default", "mod", "smod"} \subseteq Ranks /\ conf.passwords \subseteq Ranks
      /\ \A q \in Players : source[q] \in {"default", "arena", "global", "temp"}
  BY DEF GroupInv, SourceIsTrue, Scopes, Ranks, Playing
<1>3. \A q \in Players : q \notin conf.staff => group[q] # "smod"
  BY DEF GroupInv, NobodyRises
<1>4. CASE Cgrplogin(p)
  <2>1. PICK g \in conf.passwords : SetTempGroup(p, g)
    BY <1>4 DEF Cgrplogin
  <2>2. g # "smod"
    BY DEF NoPassword, GroupInv
  <2>3. UNCHANGED <<conf, phase, inarena>> /\ Assigned(p, g, "temp") /\ staff' = staff
    BY <2>1 DEF SetTempGroup
  <2> QED
    BY <1>2, <2>2, <2>3, CommandStep
<1>5. ASSUME NEW t \in Playing, Crmgroup(p, t) PROVE GroupInv'
  <2>1. UNCHANGED <<conf, phase, inarena, source>> /\ group' = [group EXCEPT ![t] = "default"]
    BY <1>5 DEF Crmgroup, RemoveGroup
  <2>2. Assigned(t, "default", source[t])
    BY <1>2, <2>1 DEF Assigned, GroupInv
  <2>3. CASE source[t] = "arena"
    <3>1. staff' = [staff EXCEPT ![inarena[t]][t] = "default"]
      BY <1>5, <2>3 DEF Crmgroup, RemoveGroup
    <3>2. inarena[t] \in Scopes /\ "default" \in Ranks /\ Assigned(t, "default", "arena")
      BY <1>2, <2>2, <2>3
    <3> QED
      BY <2>1, <3>1, <3>2, CommandStep
  <2>4. CASE source[t] = "global"
    <3>1. staff' = [staff EXCEPT !["global"][t] = "default"]
      BY <1>5, <2>4 DEF Crmgroup, RemoveGroup
    <3>2. "global" \in Scopes /\ "default" \in Ranks /\ Assigned(t, "default", "global")
      BY <1>2, <2>2, <2>4
    <3> QED
      BY <2>1, <3>1, <3>2, CommandStep
  <2>5. CASE source[t] \in {"default", "temp"}
    <3>1. staff' = staff
      BY <1>5, <2>5 DEF Crmgroup, RemoveGroup
    <3> QED
      BY <1>2, <2>1, <2>2, <2>5, <3>1, CommandStep
  <2> QED
    BY <1>2, <2>3, <2>4, <2>5
<1>6. ASSUME NEW t \in Playing, NEW g \in {"mod", "smod"}, Csetgroup(p, t, g) PROVE GroupInv'
  <2>1. g = "mod"
    BY <1>6 DEF Csetgroup, HigherThan
  <2>2. CASE SetTempGroup(t, g)
    <3>1. UNCHANGED <<conf, phase, inarena>> /\ Assigned(t, g, "temp") /\ staff' = staff
      BY <2>2 DEF SetTempGroup
    <3> QED
      BY <1>2, <2>1, <3>1, CommandStep
  <2>3. ASSUME NEW global \in BOOLEAN, SetPermGroup(t, g, global) PROVE GroupInv'
    <3>1. UNCHANGED <<conf, phase, inarena>>
      BY <2>3 DEF SetPermGroup
    <3>2. CASE global
      <4>1. Assigned(t, g, "global") /\ staff' = [staff EXCEPT !["global"][t] = g]
        BY <2>3, <3>2 DEF SetPermGroup
      <4> QED
        BY <1>2, <2>1, <3>1, <4>1, CommandStep
    <3>3. CASE ~global
      <4>1. Assigned(t, g, "arena") /\ staff' = [staff EXCEPT ![inarena[t]][t] = g]
        BY <2>3, <3>3 DEF SetPermGroup
      <4> QED
        BY <1>2, <2>1, <3>1, <4>1, CommandStep
    <3> QED
      BY <3>2, <3>3
  <2> QED
    BY <1>6, <2>2, <2>3 DEF Csetgroup
<1> QED
  BY <1>1, <1>4, <1>5, <1>6

\* Only those arrive who ask for an arena.
LEMMA GroupsNext ==
    ASSUME NoPassword, GroupInv, [Next]_vars
    PROVE  GroupInv'
<1>1. \A p \in conf.players : p \in Players
  BY ClientsAssumption DEF GroupInv
<1>2. ASSUME NEW p \in conf.players, Arrive(p) PROVE GroupInv'
  <2>1. Arrives(p) /\ GroupsArrive(p)
    BY <1>2 DEF Arrive
  <2>2. phase' \in [Players -> Phases] /\ Playing' \subseteq Playing \cup {p} /\ UNCHANGED conf
    BY <1>1, <2>1 DEF Arrives, Goes, Playing, Phases, GroupInv
  <2> QED
    BY <1>1, <2>1, <2>2, GroupsArriveStep
<1>3. ASSUME NEW p \in conf.players, Leave(p) PROVE GroupInv'
  <2>1. LeaveCallbacks(p) /\ GroupsLeave(p)
    BY <1>3 DEF Leave
  <2>2. phase' \in [Players -> Phases] /\ Playing' \subseteq Playing \ {p} /\ UNCHANGED conf
    BY <1>1, <2>1 DEF LeaveCallbacks, Goes, Playing, Phases, GroupInv
  <2> QED
    BY <1>1, <2>1, <2>2, GroupsLeaveStep
<1>4. CASE GroupsStep /\ UNCHANGED <<conf, clientvars>>
  BY <1>4, GroupsStepStep DEF clientvars
<1>5. CASE NobodyArrives /\ UNCHANGED groupvars
  BY <1>5, GroupsStayStep
<1>6. \/ \E p \in conf.players : Arrive(p) \/ Leave(p)
      \/ GroupsStep /\ UNCHANGED <<conf, clientvars>>
      \/ UNCHANGED groupvars
  BY DEF Next, Login, Enter, Disconnect, Free, Coming, vars
<1>7. (\E p \in conf.players : Arrive(p) \/ Leave(p)) \/ NobodyArrives
  BY PlayersMove DEF NobodyGoes, PhaseTypes, GroupInv
<1> QED
  BY <1>2, <1>3, <1>4, <1>5, <1>6, <1>7

\* What source says of a player's group is true of staff.conf while he is in an arena, and
\* nobody has the highest group who did not have it: whatever arenas, groups and passwords
\* there are, but for one of the highest group.
THEOREM GroupInvariant ==
    ASSUME NoPassword
    PROVE  Spec => []GroupInv
<1>1. GroupInv /\ [Next]_vars => GroupInv'
  BY GroupsNext
<1> QED
  BY <1>1, GroupsBegin, PTL DEF Spec

\* A permanent group is the one he will have when he enters again, one that was taken away
\* stays away, and nobody rises to the highest: by no sequence of ?setgroup, ?rmgroup,
\* ?grplogin and changes of arena.
THEOREM GroupsStayEarned ==
    ASSUME NoPassword
    PROVE  Spec => []GroupsAreEarned
<1>1. GroupInv => GroupsAreEarned
  <2> SUFFICES ASSUME GroupInv, NEW p \in Playing
               PROVE  \/ source[p] = "temp" \/ (source[p] = "global" /\ staff[inarena[p]][p] # "unset")
                      \/ group[p] = Entry1(inarena[p], p).group
    BY DEF GroupInv, GroupsAreEarned, PermanentGroupsStay
  <2>1. p \in Players /\ source[p] \in {"default", "arena", "global", "temp"}
    BY DEF GroupInv, Playing
  <2> QED
    BY <2>1 DEF GroupInv, SourceIsTrue, Entry1
<1> QED
  BY <1>1, GroupInvariant, PTL

----------------------------------------------------------------------------
(* The objects.                                                            *)

Object == [off : BOOLEAN, current : [Attrs -> Values]]

ObjTypes ==
    /\ conf \in Configs /\ phase \in [Players -> Phases]
    /\ lvz \in [LvzIds -> Object] /\ view \in [Players -> [LvzIds -> Object]]
    /\ togdiffs \in Int /\ extdiffs \in Int

OnOnes == {o \in LvzIds : On(o)}
Different == {o \in LvzIds : Differs(o)}

\* The counts say at least how much differs, whatever they have outlived.
CountsSuffice == Cardinality(OnOnes) <= togdiffs /\ Cardinality(Different) <= extdiffs

\* Whose position has come has had PA_ENTERARENA, and not PA_LEAVEARENA.
EntrantsAreHere == \A p \in ingame : p \in Players /\ phase[p] \in {"playing", "leaving"}

\* Nobody shows anything before he enters that is not so: what SendState leaves out is
\* with him as the files say.
NoMore(sees, object) ==
    /\ object.off => sees.off
    /\ \A a \in Attrs : object.current[a] = 0 => sees.current[a] = 0

NewcomersSeeNoMore == \A p \in Playing \ ingame, o \in LvzIds : NoMore(view[p][o], lvz[o])

EntrantsSee == \A p \in (Playing \cap ingame) \ private : view[p] = lvz

ObjInv == ObjTypes /\ CountsSuffice /\ EntrantsAreHere /\ NewcomersSeeNoMore /\ EntrantsSee

\* PBroadcast puts no attribute back to what the file says: the bound that is named there.
NothingRestored == \A c \in Configs : ~c.restores

LEMMA ObjectsAreFinite ==
    ASSUME conf \in Configs
    PROVE  /\ LvzIds \subseteq Nat /\ IsFiniteSet(LvzIds)
           /\ IsFiniteSet(OnOnes) /\ Cardinality(OnOnes) \in Nat
           /\ IsFiniteSet(Different) /\ Cardinality(Different) \in Nat
<1>1. conf.objects \in Nat
  BY ObjectsAssumption
<1>2. IsFiniteSet(1 .. conf.objects)
  BY <1>1, FS_Interval
<1>3. OnOnes \subseteq LvzIds /\ Different \subseteq LvzIds
  BY DEF OnOnes, Different
<1>4. IsFiniteSet(OnOnes) /\ IsFiniteSet(Different)
  BY <1>2, <1>3, FS_Subset DEF LvzIds
<1> QED
  BY <1>1, <1>2, <1>4, FS_CardinalityType DEF LvzIds

LEMMA OneMore ==
    ASSUME NEW S, IsFiniteSet(S), NEW x
    PROVE  /\ x \notin S => Cardinality(S \cup {x}) = Cardinality(S) + 1
           /\ x \in S => S \cup {x} = S /\ Cardinality(S \ {x}) = Cardinality(S) - 1
           /\ x \notin S => S \ {x} = S
BY FS_AddElement, FS_RemoveElement

LEMMA ObjectsBegin == Init => ObjInv
<1> SUFFICES ASSUME Init PROVE ObjInv
  OBVIOUS
<1>1. /\ conf \in Configs /\ phase \in [Players -> Phases] /\ lvz = Fresh /\ togdiffs = 0 /\ extdiffs = 0
      /\ view = [p \in Players |-> Fresh] /\ ingame = {} /\ private = {}
      /\ \A p \in Players : phase[p] \in {"free", "loggedin"}
  BY DEF Init, ClientsInit, ObjectsInit, Phases
<1>2. Fresh \in [LvzIds -> Object]
  BY ObjectsAssumption DEF Fresh, Default, Object
<1>3. OnOnes = {} /\ Different = {}
  BY <1>1 DEF OnOnes, Different, On, Differs, Fresh, Default
<1>4. CountsSuffice
  BY <1>1, <1>3, FS_EmptySet DEF CountsSuffice
<1>5. Playing = {}
  BY <1>1 DEF Playing
<1> QED
  BY <1>1, <1>2, <1>4, <1>5 DEF ObjInv, ObjTypes, EntrantsAreHere, NewcomersSeeNoMore, EntrantsSee

\* The zone moves players, and the objects stay.
LEMMA ObjectsStayStep ==
    ASSUME ObjInv, UNCHANGED <<conf, objvars>>, phase' \in [Players -> Phases],
           Playing' \subseteq Playing, \A p \in ingame : phase'[p] \in {"playing", "leaving"}
    PROVE  ObjInv'
<1>1. LvzIds' = LvzIds /\ Object' = Object
  BY DEF LvzIds, Object
<1>2. OnOnes' = OnOnes /\ Different' = Different
  BY <1>1 DEF OnOnes, Different, On, Differs, Default, objvars
<1> QED
  BY <1>1, <1>2 DEF ObjInv, ObjTypes, CountsSuffice, EntrantsAreHere, NewcomersSeeNoMore, NoMore, EntrantsSee,
     objvars

LEMMA ObjectsArriveStep ==
    ASSUME ObjInv, NEW p \in Players, Arrives(p), ObjectsArrive(p)
    PROVE  ObjInv'
<1> USE DEF ObjInv, ObjTypes
<1>1. LvzIds' = LvzIds /\ Object' = Object /\ UNCHANGED <<conf, lvz, togdiffs, extdiffs, ingame, private>>
  BY DEF LvzIds, Object, Arrives, ObjectsArrive
<1>2. OnOnes' = OnOnes /\ Different' = Different
  BY <1>1 DEF OnOnes, Different, On, Differs, Default
<1>3. /\ phase' \in [Players -> Phases] /\ phase[p] = "loggedin" /\ phase'[p] = "arriving"
      /\ \A q \in Players \ {p} : phase'[q] = phase[q] /\ view'[q] = view[q]
      /\ view'[p] = Fresh /\ view' \in [Players -> [LvzIds -> Object]]
  BY ObjectsAssumption DEF Arrives, Goes, Phases, ObjectsArrive, Fresh, Default, Object
<1>4. p \notin ingame
  BY <1>3 DEF EntrantsAreHere
<1>5. NewcomersSeeNoMore'
  <2> SUFFICES ASSUME NEW q \in (Playing \ ingame)', NEW o \in LvzIds
               PROVE  NoMore(view[q][o], lvz[o])'
    BY <1>1 DEF NewcomersSeeNoMore
  <2>1. CASE q = p
    BY <1>1, <1>3, <2>1 DEF NoMore, Fresh, Default
  <2>2. CASE q # p
    BY <1>1, <1>3, <2>2 DEF NoMore, NewcomersSeeNoMore, Playing
  <2> QED
    BY <2>1, <2>2
<1>6. EntrantsSee'
  BY <1>1, <1>3, <1>4 DEF EntrantsSee, Playing
<1>7. EntrantsAreHere'
  <2> SUFFICES ASSUME NEW q \in ingame PROVE q \in Players /\ phase'[q] \in {"playing", "leaving"}
    BY <1>1 DEF EntrantsAreHere
  <2>1. q \in Players /\ phase[q] \in {"playing", "leaving"}
    BY DEF EntrantsAreHere
  <2> QED
    BY <1>4, <2>1 DEF Arrives, Goes
<1> QED
  BY <1>1, <1>2, <1>3, <1>5, <1>6, <1>7 DEF CountsSuffice

LEMMA ObjectsLeaveStep ==
    ASSUME ObjInv, NEW p \in Players, LeaveCallbacks(p), ObjectsLeave(p)
    PROVE  ObjInv'
<1> USE DEF ObjInv, ObjTypes
<1>1. /\ LvzIds' = LvzIds /\ Object' = Object /\ UNCHANGED <<conf, lvz, togdiffs, extdiffs, view>>
      /\ ingame' = ingame \ {p} /\ private' = private \ {p}
  BY DEF LvzIds, Object, LeaveCallbacks, ObjectsLeave
<1>2. OnOnes' = OnOnes /\ Different' = Different
  BY <1>1 DEF OnOnes, Different, On, Differs, Default
<1>3. phase' \in [Players -> Phases] /\ Playing' \subseteq Playing /\ p \notin Playing
  BY DEF LeaveCallbacks, Goes, Phases, Playing
<1>4. EntrantsAreHere'
  BY <1>1 DEF EntrantsAreHere, LeaveCallbacks, Goes
<1> QED
  BY <1>1, <1>2, <1>3, <1>4 DEF CountsSuffice, NewcomersSeeNoMore, NoMore, EntrantsSee

\* Object o changes, and everybody in the arena is told.
LEMMA ChangedObject ==
    ASSUME ObjInv, UNCHANGED <<conf, phase, ingame, private>>,
           NEW o \in LvzIds, NEW object \in Object, lvz' = [lvz EXCEPT ![o] = object],
           NEW sees \in [Players -> Object],
           view' = [p \in Players |-> IF p \in Playing THEN [view[p] EXCEPT ![o] = sees[p]] ELSE view[p]],
           \A p \in Playing : /\ view[p][o] = lvz[o] => sees[p] = object
                              /\ NoMore(view[p][o], lvz[o]) => NoMore(sees[p], object),
           togdiffs' \in Int, extdiffs' \in Int, CountsSuffice'
    PROVE  ObjInv'
<1> USE DEF ObjInv, ObjTypes
<1>1. LvzIds' = LvzIds /\ Object' = Object /\ Playing' = Playing
  BY DEF LvzIds, Object, Playing
<1>2. lvz' \in [LvzIds -> Object] /\ view' \in [Players -> [LvzIds -> Object]]
  OBVIOUS
<1>3. EntrantsAreHere'
  BY DEF EntrantsAreHere
<1>4. NewcomersSeeNoMore'
  <2> SUFFICES ASSUME NEW p \in Playing \ ingame, NEW i \in LvzIds PROVE NoMore(view'[p][i], lvz'[i])
    BY <1>1 DEF NewcomersSeeNoMore, NoMore
  <2>1. NoMore(view[p][i], lvz[i]) /\ p \in Players
    BY DEF NewcomersSeeNoMore, Playing
  <2>2. CASE i = o
    BY <2>1, <2>2
  <2>3. CASE i # o
    BY <2>1, <2>3
  <2> QED
    BY <2>2, <2>3
<1>5. EntrantsSee'
  <2> SUFFICES ASSUME NEW p \in (Playing \cap ingame) \ private PROVE view'[p] = lvz'
    BY <1>1 DEF EntrantsSee
  <2>1. view[p] = lvz /\ p \in Players /\ p \in Playing
    BY DEF EntrantsSee, Playing
  <2> QED
    BY <2>1
<1> QED
  BY <1>1, <1>2, <1>3, <1>4, <1>5

LEMMA ToggleStep ==
    ASSUME ObjInv, Toggle
    PROVE  ObjInv'
<1> USE DEF ObjInv, ObjTypes
<1>1. PICK o \in LvzIds, on \in BOOLEAN : ToggleObject(o, on)
  BY DEF Toggle
<1>2. UNCHANGED <<conf, phase, extdiffs, ingame, private>>
  BY DEF Toggle, clientvars
<1>3. CASE lvz[o].current["time"] # 0
  <2>1. UNCHANGED objvars
    BY <1>1, <1>2, <1>3 DEF ToggleObject, objvars
  <2>2. \A p \in ingame : phase'[p] \in {"playing", "leaving"}
    BY <1>2 DEF EntrantsAreHere
  <2> QED
    BY <1>2, <2>1, <2>2, ObjectsStayStep DEF Playing
<1>4. CASE lvz[o].current["time"] = 0
  <2> DEFINE object == [lvz[o] EXCEPT !.off = ~on]
             sees == [p \in Players |-> [view[p][o] EXCEPT !.off = ~on]]
  <2>1. /\ lvz' = [lvz EXCEPT ![o] = object]
        /\ view' = [p \in Players |-> IF p \in Playing THEN [view[p] EXCEPT ![o] = sees[p]] ELSE view[p]]
        /\ togdiffs' = CASE on /\ lvz[o].off -> togdiffs + 1
                         [] ~on /\ ~lvz[o].off -> togdiffs - 1
                         [] OTHER -> togdiffs
    BY <1>1, <1>4 DEF ToggleObject, Shown
  <2>2. lvz[o] \in Object /\ object \in Object /\ sees \in [Players -> Object]
    <3>1. ASSUME NEW v \in Object PROVE [v EXCEPT !.off = ~on] \in Object
      BY DEF Object
    <3>2. \A p \in Players : view[p][o] \in Object
      OBVIOUS
    <3> QED
      BY <3>1, <3>2
  <2>3. \A p \in Playing : /\ view[p][o] = lvz[o] => sees[p] = object
                           /\ NoMore(view[p][o], lvz[o]) => NoMore(sees[p], object)
    BY <2>2 DEF NoMore, Object, Playing
  <2>4. Different' = Different /\ OnOnes' = IF on THEN OnOnes \cup {o} ELSE OnOnes \ {o}
    BY <1>2, <2>1, <2>2 DEF Different, Differs, OnOnes, On, LvzIds, Default, Object
  <2>5. o \in OnOnes <=> ~lvz[o].off
    BY DEF OnOnes, On
  <2>6. IsFiniteSet(OnOnes) /\ Cardinality(OnOnes) \in Nat
    BY ObjectsAreFinite
  <2>7. CountsSuffice'
    <3>1. Cardinality(Different) <= extdiffs /\ Cardinality(OnOnes) <= togdiffs
      BY DEF CountsSuffice
    <3>2. Cardinality(OnOnes') <= togdiffs'
      <4>1. CASE on /\ lvz[o].off
        BY <2>1, <2>4, <2>5, <2>6, <3>1, <4>1, OneMore
      <4>2. CASE ~on /\ ~lvz[o].off
        BY <2>1, <2>4, <2>5, <2>6, <3>1, <4>2, OneMore
      <4>3. CASE ~(on /\ lvz[o].off) /\ ~(~on /\ ~lvz[o].off)
        <5>1. OnOnes' = OnOnes
          BY <2>4, <2>5, <4>3
        <5>2. togdiffs' = togdiffs
          BY <2>1, <4>3
        <5> QED
          BY <3>1, <5>1, <5>2
      <4> QED
        BY <4>1, <4>2, <4>3
    <3> QED
      BY <1>2, <2>4, <3>1, <3>2 DEF CountsSuffice
  <2>8. togdiffs' \in Int
    BY <2>1
  <2> HIDE DEF object, sees
  <2> QED
    BY <1>2, <2>1, <2>2, <2>3, <2>7, <2>8, ChangedObject
<1> QED
  BY <1>3, <1>4

\* The attributes of o become these in the arena, and those on the screens of the players.
AttributesChange(o, after, seen) ==
    /\ lvz' = [lvz EXCEPT ![o].current = after]
    /\ view' = [p \in Players |-> IF p \in Playing THEN [view[p] EXCEPT ![o].current = seen[p]] ELSE view[p]]
    /\ \A p \in Playing :
          /\ view[p][o].current = lvz[o].current => seen[p] = after
          /\ (\A a \in Attrs : lvz[o].current[a] = 0 => view[p][o].current[a] = 0)
                => \A a \in Attrs : after[a] = 0 => seen[p][a] = 0
    /\ extdiffs' = CASE after # Default.current /\ ~Differs(o) -> extdiffs + 1
                     [] after = Default.current /\ Differs(o) -> extdiffs - 1
                     [] OTHER -> extdiffs

\* An object whose attributes change is counted among those that differ, or no longer.
LEMMA ChangedAttributes ==
    ASSUME ObjInv, UNCHANGED <<conf, phase, togdiffs, ingame, private>>, NEW o \in LvzIds,
           NEW after \in [Attrs -> Values], NEW seen \in [Players -> [Attrs -> Values]],
           AttributesChange(o, after, seen)
    PROVE  ObjInv'
<1> USE DEF ObjInv, ObjTypes, AttributesChange
<1> DEFINE object == [lvz[o] EXCEPT !.current = after]
           sees == [p \in Players |-> [view[p][o] EXCEPT !.current = seen[p]]]
<1>1. lvz[o] \in Object /\ object \in Object /\ sees \in [Players -> Object]
  <2>1. ASSUME NEW v \in Object, NEW c \in [Attrs -> Values] PROVE [v EXCEPT !.current = c] \in Object
    BY <2>1 DEF Object
  <2>2. \A p \in Players : view[p][o] \in Object
    OBVIOUS
  <2> QED
    BY <2>1, <2>2
<1>2. \A p \in Playing : p \in Players
  BY DEF Playing
<1>3. /\ lvz' = [lvz EXCEPT ![o] = object]
      /\ view' = [p \in Players |-> IF p \in Playing THEN [view[p] EXCEPT ![o] = sees[p]] ELSE view[p]]
  BY <1>2
<1>4. \A p \in Playing : /\ view[p][o] = lvz[o] => sees[p] = object
                         /\ NoMore(view[p][o], lvz[o]) => NoMore(sees[p], object)
  <2> SUFFICES ASSUME NEW p \in Playing
               PROVE  /\ view[p][o] = lvz[o] => sees[p] = object
                      /\ NoMore(view[p][o], lvz[o]) => NoMore(sees[p], object)
    OBVIOUS
  <2>1. view[p][o] \in Object /\ p \in Players
    BY <1>2
  <2>2. /\ object.off = lvz[o].off /\ object.current = after
        /\ sees[p].off = view[p][o].off /\ sees[p].current = seen[p]
    BY <1>1, <2>1 DEF Object
  <2>3. view[p][o] = lvz[o] => sees[p] = object
    BY <2>1
  <2>4. NoMore(view[p][o], lvz[o]) => NoMore(sees[p], object)
    BY <2>2, ZenonT(60) DEF NoMore
  <2> QED
    BY <2>3, <2>4
<1>5. OnOnes' = OnOnes
  BY <1>1 DEF OnOnes, On, LvzIds, Object
<1>6. /\ after # Default.current => Different' = Different \cup {o}
      /\ after = Default.current => Different' = Different \ {o}
  BY <1>1 DEF Different, Differs, LvzIds, Default, Object
<1>7. o \in Different <=> Differs(o)
  BY DEF Different
<1>8. IsFiniteSet(Different) /\ Cardinality(Different) \in Nat
  BY ObjectsAreFinite
<1>9. Cardinality(Different) <= extdiffs /\ Cardinality(OnOnes) <= togdiffs
  BY DEF CountsSuffice
<1>10. Cardinality(Different') <= extdiffs' /\ extdiffs' \in Int
  <2>1. CASE after # Default.current /\ ~Differs(o)
    <3>1. Different' = Different \cup {o} /\ o \notin Different
      BY <1>6, <1>7, <2>1
    <3>2. Cardinality(Different') = Cardinality(Different) + 1
      BY <1>8, <3>1, OneMore
    <3>3. extdiffs' = extdiffs + 1
      BY <2>1
    <3> QED
      BY <1>8, <1>9, <3>2, <3>3
  <2>2. CASE after = Default.current /\ Differs(o)
    BY <1>6, <1>7, <1>8, <1>9, <2>2, OneMore
  <2>3. CASE ~(after # Default.current /\ ~Differs(o)) /\ ~(after = Default.current /\ Differs(o))
    <3>1. Different' = Different
      BY <1>6, <1>7, <2>3
    <3>2. extdiffs' = extdiffs
      BY <2>3
    <3> QED
      BY <1>9, <3>1, <3>2
  <2> QED
    BY <2>1, <2>2, <2>3
<1>11. CountsSuffice'
  BY <1>5, <1>9, <1>10 DEF CountsSuffice
<1>12. togdiffs' \in Int
  OBVIOUS
<1> HIDE DEF object, sees
<1> QED
  BY <1>1, <1>3, <1>4, <1>10, <1>11, <1>12, ChangedObject

LEMMA ChangeStep ==
    ASSUME ObjInv, Change
    PROVE  ObjInv'
<1> USE DEF ObjInv, ObjTypes
<1>1. PICK o \in LvzIds, attr \in Attrs, value \in Values : Extended(o, attr, value)
  BY DEF Change
<1>2. UNCHANGED <<conf, phase, togdiffs, ingame, private>>
  BY DEF Change, clientvars
<1> DEFINE after == [lvz[o].current EXCEPT ![attr] = value]
           seen == [p \in Players |-> [view[p][o].current EXCEPT ![attr] = value]]
<1>3. lvz[o].current \in [Attrs -> Values] /\ \A p \in Players : view[p][o].current \in [Attrs -> Values]
  BY DEF Object
<1>4. after \in [Attrs -> Values] /\ seen \in [Players -> [Attrs -> Values]]
  BY <1>3
<1>5. /\ lvz' = [lvz EXCEPT ![o].current = after]
      /\ extdiffs' = CASE after # Default.current /\ ~Differs(o) -> extdiffs + 1
                       [] after = Default.current /\ Differs(o) -> extdiffs - 1
                       [] OTHER -> extdiffs
  BY <1>1 DEF Extended
<1>6. view' = [p \in Players |-> IF p \in Playing THEN [view[p] EXCEPT ![o].current = seen[p]] ELSE view[p]]
  <2>1. view' = [p \in Players |-> IF p \in Playing
                                     THEN [view[p] EXCEPT ![o] = [view[p][o] EXCEPT !.current[attr] = value]]
                                     ELSE view[p]]
    BY <1>1 DEF Extended, Shown
  <2>2. \A p \in Players : [view[p] EXCEPT ![o] = [view[p][o] EXCEPT !.current[attr] = value]]
                             = [view[p] EXCEPT ![o].current = seen[p]]
    BY <1>3
  <2> QED
    BY <2>1, <2>2
<1>7. \A p \in Playing :
        /\ view[p][o].current = lvz[o].current => seen[p] = after
        /\ (\A a \in Attrs : lvz[o].current[a] = 0 => view[p][o].current[a] = 0)
              => \A a \in Attrs : after[a] = 0 => seen[p][a] = 0
  BY <1>3 DEF Playing
<1> HIDE DEF after, seen
<1>8. AttributesChange(o, after, seen)
  BY <1>5, <1>6, <1>7 DEF AttributesChange
<1> QED
  BY <1>2, <1>4, <1>8, ChangedAttributes

LEMMA PBroadcastStep ==
    ASSUME NothingRestored, ObjInv, PBroadcast
    PROVE  ObjInv'
<1> USE DEF ObjInv, ObjTypes
<1>1. PICK o \in LvzIds, attrs \in (SUBSET Attrs) \ {{}}, value \in [Attrs -> Values] :
         (\A a \in attrs : MaySet(o, a) /\ (conf.restores \/ value[a] # 0)) /\ Rebroadcast(o, attrs, value)
  BY DEF PBroadcast
<1>2. UNCHANGED <<conf, phase, togdiffs, ingame, private>>
  BY DEF PBroadcast, clientvars
<1>3. \A a \in attrs : value[a] # 0
  BY <1>1 DEF NothingRestored
<1>4. \E a \in attrs : value[a] # 0 /\ a \in Attrs
  <2>1. attrs # {} /\ attrs \subseteq Attrs
    OBVIOUS
  <2> QED
    BY <1>3, <2>1
<1> DEFINE after == [a \in Attrs |-> IF a \in attrs /\ value[a] # 0 THEN value[a] ELSE lvz[o].current[a]]
           seen == [p \in Players |-> [a \in Attrs |-> IF a \in attrs THEN value[a] ELSE view[p][o].current[a]]]
<1>5. lvz[o].current \in [Attrs -> Values] /\ \A p \in Players : view[p][o].current \in [Attrs -> Values]
  BY DEF Object
<1>6. after \in [Attrs -> Values] /\ seen \in [Players -> [Attrs -> Values]]
  BY <1>5
<1>7. after # Default.current
  BY <1>3, <1>4 DEF Default
<1>8. lvz' = [lvz EXCEPT ![o].current = after]
  BY <1>1 DEF Rebroadcast
<1>9. extdiffs' = CASE after # Default.current /\ ~Differs(o) -> extdiffs + 1
                    [] after = Default.current /\ Differs(o) -> extdiffs - 1
                    [] OTHER -> extdiffs
  <2>2. extdiffs' = CASE ~Differs(o) -> extdiffs + 1 [] OTHER -> extdiffs
    BY <1>1, <1>4 DEF Rebroadcast
  <2> QED
    BY <1>7, <2>2
<1>10. view' = [p \in Players |-> IF p \in Playing THEN [view[p] EXCEPT ![o].current = seen[p]] ELSE view[p]]
  BY <1>1 DEF Rebroadcast, Shown
<1>11. \A p \in Playing :
        /\ view[p][o].current = lvz[o].current => seen[p] = after
        /\ (\A a \in Attrs : lvz[o].current[a] = 0 => view[p][o].current[a] = 0)
              => \A a \in Attrs : after[a] = 0 => seen[p][a] = 0
  <2> SUFFICES ASSUME NEW p \in Playing
               PROVE  /\ view[p][o].current = lvz[o].current => seen[p] = after
                      /\ (\A a \in Attrs : lvz[o].current[a] = 0 => view[p][o].current[a] = 0)
                            => \A a \in Attrs : after[a] = 0 => seen[p][a] = 0
    OBVIOUS
  <2>1. p \in Players
    BY DEF Playing
  <2> QED
    BY <1>3, <2>1
<1> HIDE DEF after, seen
<1>12. AttributesChange(o, after, seen)
  BY <1>8, <1>9, <1>10, <1>11 DEF AttributesChange
<1> QED
  BY <1>2, <1>6, <1>12, ChangedAttributes

\* The packets of SendState have room for all that differs.
LEMMA StateIsSent ==
    ASSUME ObjInv, NEW o \in LvzIds
    PROVE  Reached(o) /\ ExtFits(o) /\ TogFits(o)
<1>1. ASSUME NEW i \in LvzIds PROVE ExtFits(i) /\ TogFits(i)
  <2>1. {j \in 1 .. i : Differs(j)} \subseteq Different /\ {j \in 1 .. i : On(j)} \subseteq OnOnes
    <3>1. 1 .. i \subseteq LvzIds
      BY ObjectsAssumption DEF LvzIds, ObjInv, ObjTypes
    <3> QED
      BY <3>1 DEF Different, OnOnes
  <2>2. /\ Cardinality({j \in 1 .. i : Differs(j)}) <= Cardinality(Different)
        /\ Cardinality({j \in 1 .. i : On(j)}) <= Cardinality(OnOnes)
    BY <2>1, ObjectsAreFinite, FS_Subset DEF ObjInv, ObjTypes
  <2>3. Cardinality({j \in 1 .. i : Differs(j)}) \in Nat /\ Cardinality({j \in 1 .. i : On(j)}) \in Nat
    BY <2>1, ObjectsAreFinite, FS_Subset, FS_CardinalityType DEF ObjInv, ObjTypes
  <2>4. UpTo(i, Differs) <= extdiffs /\ UpTo(i, On) <= togdiffs
    BY <2>2, <2>3, ObjectsAreFinite DEF UpTo, ObjInv, ObjTypes, CountsSuffice
  <2> QED
    BY <2>4 DEF ExtFits, TogFits
<1>2. \A i \in 1 .. o - 1 : i \in LvzIds
  BY ObjectsAssumption DEF LvzIds, ObjInv, ObjTypes
<1> QED
  BY <1>1, <1>2 DEF Reached

LEMMA WholeIsSeen ==
    ASSUME NEW v \in Object, NEW w \in Object, NoMore(v, w)
    PROVE  [off |-> IF ~w.off THEN FALSE ELSE v.off,
            current |-> [a \in Attrs |-> IF w.current[a] # 0 THEN w.current[a] ELSE v.current[a]]] = w
<1>1. (IF ~w.off THEN FALSE ELSE v.off) = w.off
  BY DEF NoMore, Object
<1>2. [a \in Attrs |-> IF w.current[a] # 0 THEN w.current[a] ELSE v.current[a]] = w.current
  <2>1. w.current \in [Attrs -> Values] /\ \A a \in Attrs : w.current[a] = 0 => v.current[a] = 0
    BY DEF NoMore, Object
  <2> QED
    BY <2>1
<1> QED
  BY <1>1, <1>2 DEF Object

LEMMA EnterGameStep ==
    ASSUME ObjInv, NEW p \in Players, EnterGame(p)
    PROVE  ObjInv'
<1> USE DEF ObjInv, ObjTypes
<1>1. /\ UNCHANGED <<conf, phase, lvz, togdiffs, extdiffs, private>>
      /\ ingame' = ingame \cup {p} /\ p \in Playing \ ingame /\ phase[p] = "playing"
  BY DEF EnterGame, clientvars, Playing
<1>2. LvzIds' = LvzIds /\ Object' = Object /\ Playing' = Playing
  BY <1>1 DEF LvzIds, Object, Playing
<1>3. OnOnes' = OnOnes /\ Different' = Different
  BY <1>1, <1>2 DEF OnOnes, Different, On, Differs, Default
<1>4. ASSUME NEW o \in LvzIds
      PROVE  view'[p][o] = [off |-> IF On(o) THEN FALSE ELSE view[p][o].off,
                            current |-> [a \in Attrs |-> IF lvz[o].current[a] # 0 THEN lvz[o].current[a]
                                                                                  ELSE view[p][o].current[a]]]
  BY StateIsSent DEF EnterGame, SendState
<1>5. ASSUME NEW o \in LvzIds PROVE view'[p][o] = lvz[o]
  <2>1. NoMore(view[p][o], lvz[o])
    BY <1>1 DEF NewcomersSeeNoMore
  <2>2. lvz[o] \in Object /\ view[p][o] \in Object
    OBVIOUS
  <2> QED
    BY <1>4, <2>1, <2>2, WholeIsSeen DEF On
<1>6. view'[p] = lvz /\ \A q \in Players \ {p} : view'[q] = view[q]
  BY <1>5 DEF EnterGame, SendState
<1>7. view' \in [Players -> [LvzIds -> Object]]
  BY <1>6 DEF EnterGame, SendState
<1>8. EntrantsAreHere' /\ NewcomersSeeNoMore'
  BY <1>1, <1>2, <1>6 DEF EntrantsAreHere, NewcomersSeeNoMore, NoMore, Playing
<1>9. EntrantsSee'
  BY <1>1, <1>2, <1>6 DEF EntrantsSee, Playing
<1> QED
  BY <1>1, <1>2, <1>3, <1>7, <1>8, <1>9 DEF CountsSuffice

\* The counts outlive the arena, and still suffice.
LEMMA RecycleStep ==
    ASSUME ObjInv, Recycle
    PROVE  ObjInv'
<1> USE DEF ObjInv, ObjTypes
<1>1. /\ UNCHANGED <<conf, phase, togdiffs, extdiffs, view, ingame, private>> /\ lvz' = Fresh /\ InArena = {}
  BY DEF Recycle, clientvars
<1>2. LvzIds' = LvzIds /\ Object' = Object /\ Playing' = Playing /\ Playing = {}
  BY <1>1 DEF LvzIds, Object, Playing, InArena
<1>3. Fresh \in [LvzIds -> Object]
  BY ObjectsAssumption DEF Fresh, Default, Object
<1>4. OnOnes' = {} /\ Different' = {}
  BY <1>1, <1>2 DEF OnOnes, Different, On, Differs, Fresh, Default
<1>5. CountsSuffice'
  BY <1>1, <1>4, FS_EmptySet, ObjectsAreFinite DEF CountsSuffice
<1> QED
  BY <1>1, <1>2, <1>3, <1>5 DEF EntrantsAreHere, NewcomersSeeNoMore, EntrantsSee

LEMMA ObjectsSteps ==
    ASSUME NothingRestored, ObjInv, ObjectsStep
    PROVE  ObjInv'
<1>1. ASSUME NEW p \in Players, ToPlayer(p) PROVE ObjInv'
  <2>1. /\ UNCHANGED <<conf, phase, lvz, togdiffs, extdiffs, view, ingame>> /\ private' = private \cup {p}
        /\ LvzIds' = LvzIds /\ Object' = Object /\ Playing' = Playing
    BY <1>1 DEF ToPlayer, clientvars, LvzIds, Object, Playing
  <2>2. OnOnes' = OnOnes /\ Different' = Different
    BY <2>1 DEF OnOnes, Different, On, Differs, Default
  <2> QED
    BY <2>1, <2>2 DEF ObjInv, ObjTypes, CountsSuffice, EntrantsAreHere, NewcomersSeeNoMore, NoMore, EntrantsSee
<1> QED
  BY <1>1, ToggleStep, ChangeStep, PBroadcastStep, RecycleStep, EnterGameStep DEF ObjectsStep

LEMMA ObjectsNext ==
    ASSUME NothingRestored, ObjInv, [Next]_vars
    PROVE  ObjInv'
<1>1. \A p \in conf.players : p \in Players
  BY ClientsAssumption DEF ObjInv, ObjTypes
<1>2. ASSUME NEW p \in conf.players, Arrive(p) PROVE ObjInv'
  BY <1>1, <1>2, ObjectsArriveStep DEF Arrive
<1>3. ASSUME NEW p \in conf.players, Leave(p) PROVE ObjInv'
  BY <1>1, <1>3, ObjectsLeaveStep DEF Leave
<1>4. CASE ObjectsStep
  BY <1>4, ObjectsSteps
<1>5. CASE NobodyArrives /\ UNCHANGED objvars
  BY <1>5, ObjectsStayStep DEF NobodyArrives, ObjInv, EntrantsAreHere
<1>6. (\E p \in conf.players : Arrive(p) \/ Leave(p)) \/ ObjectsStep \/ UNCHANGED objvars
  BY DEF Next, Login, Enter, Disconnect, Free, Coming, vars
<1>7. (\E p \in conf.players : Arrive(p) \/ Leave(p)) \/ NobodyArrives
  BY PlayersMove DEF NobodyGoes, PhaseTypes, ObjInv, ObjTypes
<1> QED
  BY <1>2, <1>3, <1>4, <1>5, <1>6, <1>7

\* The counts that SendState goes by say at least how many objects differ from the files,
\* and a client that has not been sent the state shows nothing else that is not so.
THEOREM ObjectsInvariant ==
    ASSUME NothingRestored
    PROVE  Spec => []ObjInv
<1>1. ObjInv /\ [Next]_vars => ObjInv'
  BY ObjectsNext
<1> QED
  BY <1>1, ObjectsBegin, PTL DEF Spec

\* Whoever has entered the game sees the objects as the arena has them: any number of
\* players, objects and attributes, and arenas that are recycled while the counts stay.
THEOREM EntrantsSeeObjects ==
    ASSUME NothingRestored
    PROVE  Spec => []EntrantsSeeTheArena
<1>1. ObjInv => EntrantsSeeTheArena
  BY DEF ObjInv, EntrantsSee, EntrantsSeeTheArena
<1> QED
  BY <1>1, ObjectsInvariant, PTL

----------------------------------------------------------------------------
(* The files.                                                              *)

\* Whom uploads are for.
Uploaded == {Nothing, PutFile} \cup {Offered(t) : t \in Players}
Uploading == [fp : BOOLEAN, fname : TempFiles \cup {NoFile}, uploaded : Uploaded]

TransferTypes ==
    /\ ud \in [Players -> Uploading] /\ sends \in [Players -> Nat] /\ asked \in [Players -> Nat]
    /\ receiving \subseteq Players /\ bigs \subseteq Players
    /\ offers \subseteq [from : Players, to : Players]

Uploads == {p \in Players : ud[p].fp}

\* An upload under way has a file, which is no other's, and sized packets to come.
UploadsFit ==
    \A p \in Players : IF ud[p].fp THEN p \in receiving /\ ud[p].fname \in TempFiles ELSE ud[p].fname = NoFile

NamesDiffer == \A p, q \in Uploads : ud[p].fname = ud[q].fname => p = q

\* With one request at a time the client has been asked for a file, or sends one, in
\* either way.
OneAnswer ==
    \A p \in Players : /\ p \in receiving => p \notin bigs
                       /\ p \in receiving \cup bigs => asked[p] = 0
                       /\ asked[p] <= 1

FilesFit == disk = {ud[p].fname : p \in Uploads} /\ opened = Cardinality(Uploads) + Total(0, sends, Players)

OffersFit == \A o \in offers : phase[o.from] \in Inside /\ phase[o.to] \in Inside

TransferInv ==
    /\ PhaseTypes /\ InsideIsKnown /\ TransferTypes /\ UploadsFit /\ NamesDiffer /\ OneAnswer /\ FilesFit
    /\ OffersFit

\* The bound of MayAsk: nobody asks for a second file before the first has come.
OneRequest == \A c \in Configs : c.requests = 1

LEMMA UploadsAreFinite ==
    ASSUME TransferInv
    PROVE  /\ IsFiniteSet(Players) /\ IsFiniteSet(Uploads) /\ Cardinality(Uploads) \in Nat
           /\ Total(0, sends, Players) \in Nat /\ opened \in Int /\ disk \subseteq TempFiles
<1>1. IsFiniteSet(Players) /\ Uploads \subseteq Players
  BY TransfersAssumption DEF Uploads
<1>2. IsFiniteSet(Uploads) /\ Cardinality(Uploads) \in Nat
  BY <1>1, FS_Subset, FS_CardinalityType
<1>3. Total(0, sends, Players) \in Nat
  <2>1. \A p \in Players : sends[p] \in Nat
    BY DEF TransferInv, TransferTypes
  <2>2. 0 \in Nat
    OBVIOUS
  <2> QED
    BY <1>1, <2>1, <2>2, TotalNat
<1> QED
  BY <1>1, <1>2, <1>3 DEF TransferInv, FilesFit, UploadsFit, Uploads

LEMMA TransfersBegin == Init => TransferInv
<1> SUFFICES ASSUME Init PROVE TransferInv
  OBVIOUS
<1>1. /\ conf \in Configs /\ phase \in [Players -> Phases] /\ (\A p \in Players : phase[p] \in Inside => p \in known)
      /\ ud = [p \in Players |-> NoUpload] /\ receiving = {} /\ sends = [p \in Players |-> 0]
      /\ offers = {} /\ asked = [p \in Players |-> 0] /\ bigs = {} /\ disk = {} /\ opened = 0
  BY DEF Init, ClientsInit, TransfersInit, Phases, Inside
<1>2. NoUpload \in Uploading /\ ~NoUpload.fp /\ NoUpload.fname = NoFile
  BY DEF NoUpload, Uploading, Uploaded, Nothing
<1>3. Uploads = {}
  BY <1>1, <1>2 DEF Uploads
<1>4. Total(0, sends, Players) = 0
  BY <1>1, TransfersAssumption, TotalZero
<1>5. FilesFit
  BY <1>1, <1>3, <1>4, FS_EmptySet DEF FilesFit
<1>6. PhaseTypes /\ InsideIsKnown /\ TransferTypes /\ OffersFit /\ OneAnswer
  BY <1>1, <1>2 DEF PhaseTypes, InsideIsKnown, TransferTypes, OffersFit, OneAnswer
<1>7. UploadsFit /\ NamesDiffer
  BY <1>1, <1>2, <1>3 DEF UploadsFit, NamesDiffer
<1> QED
  BY <1>5, <1>6, <1>7 DEF TransferInv

LEMMA TransfersStayStep ==
    ASSUME TransferInv, UNCHANGED <<conf, transvars>>, phase' \in [Players -> Phases], InsideIsKnown',
           \A p \in Players : phase[p] \in Inside => phase'[p] \in Inside
    PROVE  TransferInv'
<1> USE DEF TransferInv, transvars
<1>1. Uploads' = Uploads /\ Uploading' = Uploading
  BY DEF Uploads, Uploading, Uploaded, Nothing, PutFile, Offered
<1>2. OffersFit'
  BY DEF OffersFit, TransferTypes
<1>3. TransferTypes' /\ OneAnswer' /\ PhaseTypes'
  BY <1>1 DEF TransferTypes, OneAnswer, PhaseTypes
<1>4. UploadsFit' /\ NamesDiffer' /\ FilesFit'
  BY <1>1 DEF UploadsFit, NamesDiffer, FilesFit
<1> QED
  BY <1>2, <1>3, <1>4

\* A step of the transfers: the zone stays.
LEMMA TransfersAlone ==
    ASSUME TransferInv, UNCHANGED <<conf, clientvars>>, TransferTypes', UploadsFit', NamesDiffer', OneAnswer',
           FilesFit', OffersFit'
    PROVE  TransferInv'
BY DEF TransferInv, clientvars, PhaseTypes, InsideIsKnown

LEMMA SendsCount ==
    ASSUME TransferInv, NEW p \in Players, NEW n \in Nat, sends' = [sends EXCEPT ![p] = n]
    PROVE  sends' \in [Players -> Nat] /\ Total(0, sends', Players) = Total(0, sends, Players) - sends[p] + n
<1>1. sends \in [Players -> Nat] /\ IsFiniteSet(Players)
  BY TransfersAssumption DEF TransferInv, TransferTypes
<1>2. Total(0, [sends EXCEPT ![p] = n], Players) = Total(0, sends, Players) - sends[p] + n
  BY <1>1, TotalChanges
<1> QED
  BY <1>1, <1>2

\* The upload of p is over, and what it said of its file is forgotten.
LEMMA UploadGoes ==
    ASSUME TransferInv, NEW p \in Players, ud' = [ud EXCEPT ![p] = NoUpload], receiving \ {p} \subseteq receiving'
    PROVE  /\ ud' \in [Players -> Uploading] /\ UploadsFit' /\ NamesDiffer'
           /\ Cardinality(Uploads') = Cardinality(Uploads) - (IF ud[p].fp THEN 1 ELSE 0)
           /\ {ud'[q].fname : q \in Uploads'} = IF ud[p].fp THEN disk \ {ud[p].fname} ELSE disk
<1> USE DEF TransferInv
<1>1. NoUpload \in Uploading /\ ~NoUpload.fp /\ NoUpload.fname = NoFile
  BY DEF NoUpload, Uploading, Uploaded, Nothing
<1>2. ud \in [Players -> Uploading]
  BY DEF TransferTypes
<1>3. /\ ud' \in [Players -> Uploading] /\ ud'[p].fname = NoFile /\ ~ud'[p].fp
      /\ \A q \in Players \ {p} : ud'[q] = ud[q]
  BY <1>1, <1>2
<1>4. Uploads' = Uploads \ {p}
  BY <1>3 DEF Uploads
<1>5. UploadsFit' /\ NamesDiffer'
  BY <1>3, <1>4 DEF UploadsFit, NamesDiffer, Uploads
<1>6. Cardinality(Uploads') = Cardinality(Uploads) - (IF ud[p].fp THEN 1 ELSE 0)
  <2>1. IsFiniteSet(Uploads) /\ Cardinality(Uploads) \in Nat
    BY UploadsAreFinite
  <2>2. CASE ud[p].fp
    <3>1. p \in Uploads
      BY <2>2 DEF Uploads
    <3> QED
      BY <1>4, <2>1, <2>2, <3>1, OneMore
  <2>3. CASE ~ud[p].fp
    <3>1. Uploads' = Uploads
      BY <1>4, <2>3 DEF Uploads
    <3> QED
      BY <2>1, <2>3, <3>1
  <2> QED
    BY <2>2, <2>3
<1>7. {ud'[q].fname : q \in Uploads'} = IF ud[p].fp THEN disk \ {ud[p].fname} ELSE disk
  <2>1. {ud'[q].fname : q \in Uploads'} = {ud[q].fname : q \in Uploads \ {p}}
    BY <1>3, <1>4 DEF Uploads
  <2>2. CASE ud[p].fp
    BY <2>1, <2>2 DEF NamesDiffer, FilesFit, Uploads
  <2>3. CASE ~ud[p].fp
    BY <2>1, <2>3 DEF FilesFit, Uploads
  <2> QED
    BY <2>2, <2>3
<1> QED
  BY <1>3, <1>5, <1>6, <1>7

\* cleanup_ud of what belongs to the upload of p, or of a file that is nobody's.
LEMMA CleanupStep ==
    ASSUME TransferInv, NEW p \in Players, NEW u \in Uploading, NEW success, Cleanup(u, success),
           u.fp <=> ud[p].fp, u.fp => u.fname = ud[p].fname, ~u.fp => u.fname \notin disk,
           ud' = [ud EXCEPT ![p] = NoUpload], receiving \ {p} \subseteq receiving'
    PROVE  /\ ud' \in [Players -> Uploading] /\ sends' \in [Players -> Nat]
           /\ UploadsFit' /\ NamesDiffer' /\ FilesFit'
<1>1. /\ ud' \in [Players -> Uploading] /\ UploadsFit' /\ NamesDiffer'
      /\ Cardinality(Uploads') = Cardinality(Uploads) - (IF ud[p].fp THEN 1 ELSE 0)
      /\ {ud'[q].fname : q \in Uploads'} = IF ud[p].fp THEN disk \ {ud[p].fname} ELSE disk
  BY UploadGoes
<1>2. disk' = {ud'[q].fname : q \in Uploads'}
  BY <1>1 DEF Cleanup
<1>3. PICK forward \in BOOLEAN :
        /\ opened' = opened - (IF u.fp THEN 1 ELSE 0) + (IF forward THEN 1 ELSE 0)
        /\ IF forward THEN u.uploaded.for = "sendfile" /\ sends' = [sends EXCEPT ![u.uploaded.to] = @ + 1]
                      ELSE sends' = sends
  <2> DEFINE f == success /\ u.uploaded.for = "sendfile" /\ phase[u.uploaded.to] \in {"arriving", "playing"}
  <2>1. /\ opened' = opened - (IF u.fp THEN 1 ELSE 0) + (IF f THEN 1 ELSE 0)
        /\ sends' = IF f THEN [sends EXCEPT ![u.uploaded.to] = @ + 1] ELSE sends
    BY DEF Cleanup
  <2>2. CASE f
    BY <2>1, <2>2
  <2>3. CASE ~f
    BY <2>1, <2>3
  <2> QED
    BY <2>2, <2>3
<1>4. /\ sends' \in [Players -> Nat]
      /\ Total(0, sends', Players) = Total(0, sends, Players) + (IF forward THEN 1 ELSE 0)
  <2>1. CASE forward
    <3>1. u.uploaded.to \in Players
      BY <1>3, <2>1 DEF Uploading, Uploaded, Nothing, PutFile, Offered
    <3>2. sends[u.uploaded.to] \in Nat /\ sends' = [sends EXCEPT ![u.uploaded.to] = sends[u.uploaded.to] + 1]
      BY <1>3, <2>1, <3>1 DEF TransferInv, TransferTypes
    <3>3. sends[u.uploaded.to] + 1 \in Nat
      BY <3>2
    <3>4. /\ sends' \in [Players -> Nat]
          /\ Total(0, sends', Players) = Total(0, sends, Players) - sends[u.uploaded.to] + (sends[u.uploaded.to] + 1)
      BY <3>1, <3>2, <3>3, SendsCount
    <3> QED
      BY <2>1, <3>2, <3>4, UploadsAreFinite
  <2>2. CASE ~forward
    BY <1>3, <2>2, UploadsAreFinite DEF TransferInv, TransferTypes
  <2> QED
    BY <2>1, <2>2
<1>5. opened' = Cardinality(Uploads') + Total(0, sends', Players)
  <2>1. opened = Cardinality(Uploads) + Total(0, sends, Players)
    BY DEF TransferInv, FilesFit
  <2> QED
    BY <1>1, <1>3, <1>4, <2>1, UploadsAreFinite
<1> QED
  BY <1>1, <1>2, <1>4, <1>5 DEF FilesFit

\* What a step leaves alone stays true.
LEMMA TransferTypesStay ==
    ASSUME TransferInv
    PROVE  /\ Uploading' = Uploading /\ Uploaded' = Uploaded
           /\ (UNCHANGED ud) => (ud' \in [Players -> Uploading] /\ Uploads' = Uploads)
BY DEF TransferInv, TransferTypes, Uploading, Uploaded, Uploads, Nothing, PutFile, Offered

\* Somebody is asked for a file: ?putfile and ?acceptfile.
LEMMA RequestStep ==
    ASSUME TransferInv, OneRequest, NEW p \in Players, MayAsk(p), NEW for \in Uploaded, RequestFile(p, for),
           UNCHANGED <<conf, clientvars, receiving, sends, bigs, disk, opened>>,
           offers' \subseteq offers
    PROVE  TransferInv'
<1> USE DEF TransferInv
<1>1. asked[p] = 0 /\ p \notin bigs \cup receiving
  BY DEF MayAsk, OneRequest, PhaseTypes
<1>2. CASE UNCHANGED <<ud, asked>>
  <2>1. TransferTypes' /\ OneAnswer' /\ OffersFit'
    BY <1>2, TransferTypesStay DEF TransferTypes, OneAnswer, OffersFit, clientvars
  <2>2. UploadsFit' /\ NamesDiffer' /\ FilesFit'
    BY <1>2, TransferTypesStay DEF UploadsFit, NamesDiffer, FilesFit
  <2> QED
    BY <2>1, <2>2, TransfersAlone
<1>3. CASE ud' = [ud EXCEPT ![p].uploaded = for] /\ asked' = [asked EXCEPT ![p] = @ + 1]
  <2>1. ud \in [Players -> Uploading]
    BY DEF TransferTypes
  <2>2. ASSUME NEW q \in Players
        PROVE  ud'[q] \in Uploading /\ ud'[q].fp = ud[q].fp /\ ud'[q].fname = ud[q].fname
    <3>1. [ud[p] EXCEPT !.uploaded = for] \in Uploading
      BY <2>1 DEF Uploading
    <3> QED
      BY <1>3, <2>1, <3>1 DEF Uploading
  <2>3. ud' \in [Players -> Uploading]
    BY <1>3, <2>1, <2>2
  <2>4. Uploads' = Uploads
    BY <2>2 DEF Uploads
  <2>5. asked' \in [Players -> Nat] /\ asked'[p] = 1 /\ \A q \in Players \ {p} : asked'[q] = asked[q]
    BY <1>1, <1>3 DEF TransferTypes
  <2>6. TransferTypes' /\ OneAnswer' /\ OffersFit'
    BY <1>1, <2>3, <2>5, TransferTypesStay DEF TransferTypes, OneAnswer, OffersFit, clientvars
  <2>7. UploadsFit' /\ NamesDiffer'
    BY <2>2, <2>4 DEF UploadsFit, NamesDiffer, Uploads
  <2>8. FilesFit'
    <3>1. {ud'[q].fname : q \in Uploads} = {ud[q].fname : q \in Uploads}
      BY <2>2 DEF Uploads
    <3> QED
      BY <2>4, <3>1 DEF FilesFit
  <2> QED
    BY <2>6, <2>7, <2>8, TransfersAlone
<1> QED
  BY <1>2, <1>3 DEF RequestFile

\* Only the list of offers, or the packets a client is to send, change.
LEMMA FilesStayStep ==
    ASSUME TransferInv, UNCHANGED <<conf, clientvars, ud, sends, disk, opened>>,
           asked' \in [Players -> Nat], receiving' \subseteq Players, bigs' \subseteq Players,
           receiving \subseteq receiving', OneAnswer',
           offers' \subseteq [from : Players, to : Players], OffersFit'
    PROVE  TransferInv'
<1> USE DEF TransferInv
<1>1. TransferTypes'
  BY TransferTypesStay DEF TransferTypes
<1>2. UploadsFit' /\ NamesDiffer' /\ FilesFit'
  BY TransferTypesStay DEF UploadsFit, NamesDiffer, FilesFit
<1> QED
  BY <1>1, <1>2, TransfersAlone

\* One more download, or one less.
LEMMA SendStep ==
    ASSUME TransferInv, NEW p \in Players, NEW n \in Nat, sends' = [sends EXCEPT ![p] = n],
           opened' = opened - sends[p] + n,
           UNCHANGED <<conf, clientvars, ud, receiving, offers, asked, bigs, disk>>
    PROVE  TransferInv'
<1> USE DEF TransferInv
<1>1. sends' \in [Players -> Nat] /\ Total(0, sends', Players) = Total(0, sends, Players) - sends[p] + n
  BY SendsCount
<1>2. sends[p] \in Nat
  BY DEF TransferTypes
<1>3. TransferTypes' /\ OneAnswer' /\ OffersFit'
  BY <1>1, TransferTypesStay DEF TransferTypes, OneAnswer, OffersFit, clientvars
<1>4. UploadsFit' /\ NamesDiffer'
  BY TransferTypesStay DEF UploadsFit, NamesDiffer
<1>5. opened' = Cardinality(Uploads') + Total(0, sends', Players)
  BY <1>1, <1>2, TransferTypesStay, UploadsAreFinite DEF FilesFit
<1>6. FilesFit'
  BY <1>5, TransferTypesStay DEF FilesFit
<1> QED
  BY <1>3, <1>4, <1>6, TransfersAlone

LEMMA UploadBeginsStep ==
    ASSUME TransferInv, NEW p \in Players, UploadBegins(p)
    PROVE  TransferInv'
<1> USE DEF TransferInv
<1>1. /\ asked[p] > 0 /\ p \notin receiving /\ asked' = [asked EXCEPT ![p] = @ - 1]
      /\ receiving' = receiving \cup {p} /\ UNCHANGED <<conf, clientvars, sends, offers, bigs>>
  BY DEF UploadBegins
<1>2. asked' \in [Players -> Nat] /\ OneAnswer'
  <2>1. asked[p] = 1 /\ p \notin bigs
    BY <1>1 DEF OneAnswer, TransferTypes
  <2>2. asked' \in [Players -> Nat] /\ asked'[p] = 0 /\ \A q \in Players \ {p} : asked'[q] = asked[q]
    BY <1>1, <2>1 DEF TransferTypes
  <2> QED
    BY <1>1, <2>1, <2>2 DEF OneAnswer
<1>3. CASE UNCHANGED <<ud, disk, opened>>
  <2>1. OffersFit'
    BY <1>1 DEF OffersFit, clientvars
  <2> QED
    BY <1>1, <1>2, <1>3, <2>1, FilesStayStep DEF TransferTypes
<1>4. ASSUME NEW file \in TempFiles \ disk, ~ud[p].fp,
             ud' = [ud EXCEPT ![p].fp = TRUE, ![p].fname = file], disk' = disk \cup {file}, opened' = opened + 1
      PROVE  TransferInv'
  <2>1. ud \in [Players -> Uploading]
    BY DEF TransferTypes
  <2>2. [ud[p] EXCEPT !.fp = TRUE, !.fname = file] \in Uploading
    BY <2>1 DEF Uploading
  <2>3. ud' = [ud EXCEPT ![p] = [ud[p] EXCEPT !.fp = TRUE, !.fname = file]]
    BY <1>4, <2>1
  <2>4. /\ ud' \in [Players -> Uploading] /\ ud'[p].fp /\ ud'[p].fname = file
        /\ \A q \in Players \ {p} : ud'[q] = ud[q]
    BY <2>1, <2>2, <2>3 DEF Uploading
  <2>5. Uploads' = Uploads \cup {p} /\ p \notin Uploads
    BY <1>4, <2>4 DEF Uploads
  <2>6. Cardinality(Uploads') = Cardinality(Uploads) + 1
    BY <2>5, UploadsAreFinite, OneMore
  <2>7. opened' = Cardinality(Uploads') + Total(0, sends', Players)
    BY <1>1, <1>4, <2>6, UploadsAreFinite DEF FilesFit
  <2>8. {ud'[q].fname : q \in Uploads'} = {ud[q].fname : q \in Uploads} \cup {file}
    BY <2>4, <2>5 DEF Uploads
  <2>9. FilesFit'
    BY <1>4, <2>7, <2>8 DEF FilesFit
  <2>10. NamesDiffer'
    <3>1. \A q \in Uploads : ud[q].fname # file
      BY <1>4 DEF FilesFit
    <3> QED
      BY <2>4, <2>5, <3>1 DEF NamesDiffer, Uploads
  <2>11. UploadsFit'
    BY <1>1, <1>4, <2>4 DEF UploadsFit
  <2>12. TransferTypes' /\ OffersFit'
    BY <1>1, <1>2, <2>4, TransferTypesStay DEF TransferTypes, OffersFit, clientvars
  <2> QED
    BY <1>1, <1>2, <2>9, <2>10, <2>11, <2>12, TransfersAlone
<1> QED
  BY <1>3, <1>4 DEF UploadBegins

\* An upload is over, by its last packet or before.
LEMMA UploadEndsStep ==
    ASSUME TransferInv, NEW p \in Players, UploadEnds(p)
    PROVE  TransferInv'
<1> USE DEF TransferInv
<1>1. /\ p \in receiving /\ receiving' = receiving \ {p} /\ UNCHANGED <<conf, clientvars, offers, asked, bigs>>
  BY DEF UploadEnds
<1>2. PICK success \in BOOLEAN : EndSized(p, success)
  BY DEF UploadEnds
<1>3. OneAnswer' /\ OffersFit'
  BY <1>1 DEF OneAnswer, OffersFit, clientvars
<1>4. ud[p] \in Uploading /\ (~ud[p].fp => ud[p].fname = NoFile) /\ NoFile \notin disk
  BY UploadsAreFinite, TransfersAssumption DEF TransferTypes, UploadsFit
<1>5. CASE success => ud[p].fp
  <2>1. Cleanup(ud[p], success) /\ ud' = [ud EXCEPT ![p] = NoUpload]
    BY <1>1, <1>2, <1>5 DEF EndSized, CleanupUd
  <2>2. /\ ud' \in [Players -> Uploading] /\ sends' \in [Players -> Nat]
        /\ UploadsFit' /\ NamesDiffer' /\ FilesFit'
    BY <1>1, <1>4, <2>1, CleanupStep
  <2>3. TransferTypes'
    BY <1>1, <2>2, TransferTypesStay DEF TransferTypes
  <2> QED
    BY <1>1, <1>3, <2>2, <2>3, TransfersAlone
<1>6. CASE ~(success => ud[p].fp)
  <2>1. UNCHANGED <<ud, disk, opened, sends>> /\ ~ud[p].fp
    BY <1>2, <1>6 DEF EndSized
  <2>2. TransferTypes'
    BY <1>1, <2>1, TransferTypesStay DEF TransferTypes
  <2>3. UploadsFit' /\ NamesDiffer' /\ FilesFit'
    BY <1>1, <2>1, TransferTypesStay DEF UploadsFit, NamesDiffer, FilesFit
  <2> QED
    BY <1>1, <1>3, <2>2, <2>3, TransfersAlone
<1> QED
  BY <1>5, <1>6

\* Main calls p_inc_file: no upload is under way, since one file comes at a time.
LEMMA PIncFileStep ==
    ASSUME TransferInv, NEW p \in Players, PIncFile(p)
    PROVE  TransferInv'
<1> USE DEF TransferInv
<1>1. /\ p \in bigs /\ bigs' = bigs \ {p} /\ UNCHANGED <<conf, clientvars, receiving, offers, asked>>
  BY DEF PIncFile, CallBigDataPacketFunctions
<1>2. ~ud[p].fp /\ ud[p].fname = NoFile /\ ud[p] \in Uploading /\ NoFile \notin disk
  BY <1>1, UploadsAreFinite, TransfersAssumption DEF OneAnswer, UploadsFit, TransferTypes
<1>3. OneAnswer' /\ OffersFit'
  BY <1>1 DEF OneAnswer, OffersFit, clientvars
<1>4. CASE UNCHANGED <<ud, disk, opened, sends>>
  <2>1. TransferTypes'
    BY <1>1, <1>4, TransferTypesStay DEF TransferTypes
  <2>2. UploadsFit' /\ NamesDiffer' /\ FilesFit'
    BY <1>1, <1>4, TransferTypesStay DEF UploadsFit, NamesDiffer, FilesFit
  <2> QED
    BY <1>1, <1>3, <2>1, <2>2, TransfersAlone
<1>5. ASSUME NEW u \in Uploading, NEW success, Cleanup(u, success), ~u.fp, u.fname \notin disk,
             ud' = [ud EXCEPT ![p] = NoUpload]
      PROVE  TransferInv'
  <2>1. /\ ud' \in [Players -> Uploading] /\ sends' \in [Players -> Nat]
        /\ UploadsFit' /\ NamesDiffer' /\ FilesFit'
    BY <1>1, <1>2, <1>5, CleanupStep
  <2>2. TransferTypes'
    BY <1>1, <2>1, TransferTypesStay DEF TransferTypes
  <2> QED
    BY <1>1, <1>3, <2>1, <2>2, TransfersAlone
<1>6. CASE CleanupUd(p, FALSE)
  BY <1>2, <1>5, <1>6 DEF CleanupUd
<1>7. ASSUME NEW file \in TempFiles \ disk, NEW success \in BOOLEAN,
             Cleanup([fp |-> FALSE, fname |-> file, uploaded |-> ud[p].uploaded], success),
             ud' = [ud EXCEPT ![p] = NoUpload]
      PROVE  TransferInv'
  <2> DEFINE u == [fp |-> FALSE, fname |-> file, uploaded |-> ud[p].uploaded]
  <2>1. u \in Uploading /\ ~u.fp /\ u.fname \notin disk
    BY <1>2, <1>7 DEF Uploading
  <2> HIDE DEF u
  <2>2. Cleanup(u, success)
    BY <1>7 DEF u
  <2> QED
    BY <1>5, <1>7, <2>1, <2>2
<1> QED
  BY <1>4, <1>6, <1>7 DEF PIncFile

LEMMA TransfersSteps ==
    ASSUME TransferInv, OneRequest, TransfersStep
    PROVE  TransferInv'
<1> USE DEF TransferInv
<1>1. PICK p \in Players :
        \/ SendFile(p) \/ Cputfile(p) \/ Ccancelfile(p) \/ Cacceptfile(p)
        \/ UploadBegins(p) \/ UploadEnds(p) \/ UploadIsQueued(p) \/ PIncFile(p) \/ DownloadEnds(p)
        \/ \E t \in Players : Csendfile(p, t)
  BY DEF TransfersStep
<1>2. sends \in [Players -> Nat] /\ sends[p] \in Nat /\ asked \in [Players -> Nat] /\ opened \in Int
  BY UploadsAreFinite DEF TransferTypes
<1>3. CASE SendFile(p)
  <2>1. sends[p] + 1 \in Nat /\ sends' = [sends EXCEPT ![p] = sends[p] + 1] /\ opened' = opened - sends[p] + (sends[p] + 1)
    BY <1>2, <1>3 DEF SendFile, SendSized
  <2>2. UNCHANGED <<conf, clientvars, ud, receiving, offers, asked, bigs, disk>>
    BY <1>3 DEF SendFile
  <2> QED
    BY <2>1, <2>2, SendStep
<1>4. CASE DownloadEnds(p)
  <2>1. sends[p] - 1 \in Nat /\ sends' = [sends EXCEPT ![p] = sends[p] - 1] /\ opened' = opened - sends[p] + (sends[p] - 1)
    BY <1>2, <1>4 DEF DownloadEnds
  <2>2. UNCHANGED <<conf, clientvars, ud, receiving, offers, asked, bigs, disk>>
    BY <1>4 DEF DownloadEnds
  <2> QED
    BY <2>1, <2>2, SendStep
<1>5. CASE Cputfile(p)
  <2>1. PutFile \in Uploaded
    BY DEF Uploaded
  <2> QED
    BY <1>5, <2>1, RequestStep DEF Cputfile
<1>6. CASE Cacceptfile(p)
  <2>1. PICK o \in offers : MayAsk(o.from) /\ RequestFile(o.from, Offered(p)) /\ offers' = offers \ {o}
    BY <1>6 DEF Cacceptfile
  <2>2. o.from \in Players /\ Offered(p) \in Uploaded
    BY DEF TransferTypes, Uploaded
  <2>3. UNCHANGED <<conf, clientvars, receiving, sends, bigs, disk, opened>>
    BY <1>6 DEF Cacceptfile
  <2> QED
    BY <2>1, <2>2, <2>3, RequestStep
<1>7. CASE Ccancelfile(p)
  <2>1. /\ UNCHANGED <<conf, clientvars, ud, receiving, sends, asked, bigs, disk, opened>> /\ offers' \subseteq offers
    BY <1>7 DEF Ccancelfile, CancelFiles
  <2>2. OneAnswer' /\ OffersFit'
    BY <2>1 DEF OneAnswer, OffersFit, clientvars
  <2> QED
    BY <2>1, <2>2, FilesStayStep DEF TransferTypes
<1>8. ASSUME NEW t \in Players, Csendfile(p, t) PROVE TransferInv'
  <2>1. /\ UNCHANGED <<conf, clientvars, ud, receiving, sends, asked, bigs, disk, opened>>
        /\ phase[p] = "playing" /\ phase[t] = "playing" /\ offers' = offers \cup {[from |-> p, to |-> t]}
    BY <1>8 DEF Csendfile
  <2>2. OneAnswer' /\ OffersFit'
    BY <2>1 DEF OneAnswer, OffersFit, Inside, clientvars
  <2>3. offers' \subseteq [from : Players, to : Players]
    BY <2>1 DEF TransferTypes
  <2> QED
    BY <2>1, <2>2, <2>3, FilesStayStep DEF TransferTypes
<1>9. CASE UploadIsQueued(p)
  <2>1. /\ UNCHANGED <<conf, clientvars, ud, receiving, sends, offers, disk, opened>>
        /\ asked[p] > 0 /\ p \notin bigs /\ asked' = [asked EXCEPT ![p] = @ - 1] /\ bigs' = bigs \cup {p}
    BY <1>9 DEF UploadIsQueued
  <2>2. asked[p] = 1 /\ p \notin receiving
    BY <1>2, <2>1 DEF OneAnswer
  <2>3. asked' \in [Players -> Nat] /\ asked'[p] = 0 /\ \A q \in Players \ {p} : asked'[q] = asked[q]
    BY <1>2, <2>1, <2>2
  <2>4. OneAnswer' /\ OffersFit'
    BY <2>1, <2>2, <2>3 DEF OneAnswer, OffersFit, clientvars
  <2> QED
    BY <2>1, <2>3, <2>4, FilesStayStep DEF TransferTypes
<1> QED
  BY <1>1, <1>3, <1>4, <1>5, <1>6, <1>7, <1>8, <1>9, UploadBeginsStep, UploadEndsStep, PIncFileStep

LEMMA TransfersDisconnectStep ==
    ASSUME TransferInv, NEW p \in Players, UNCHANGED conf, phase' \in [Players -> Phases], InsideIsKnown',
           \A q \in Players \ {p} : phase'[q] = phase[q], TransfersDisconnect(p)
    PROVE  TransferInv'
<1> USE DEF TransferInv
<1>1. /\ UNCHANGED <<receiving, asked, bigs>> /\ Cleanup(ud[p], FALSE) /\ ud' = [ud EXCEPT ![p] = NoUpload]
      /\ offers' = {o \in offers : o.from # p /\ o.to # p}
  BY DEF TransfersDisconnect, CancelFiles, CleanupUd
<1>2. ud[p] \in Uploading /\ (~ud[p].fp => ud[p].fname = NoFile) /\ NoFile \notin disk
  BY UploadsAreFinite, TransfersAssumption DEF TransferTypes, UploadsFit
<1>3. /\ ud' \in [Players -> Uploading] /\ sends' \in [Players -> Nat]
      /\ UploadsFit' /\ NamesDiffer' /\ FilesFit'
  BY <1>1, <1>2, CleanupStep
<1>4. TransferTypes' /\ OneAnswer' /\ PhaseTypes'
  BY <1>1, <1>3, TransferTypesStay DEF TransferTypes, OneAnswer, PhaseTypes
<1>5. OffersFit'
  BY <1>1 DEF OffersFit, TransferTypes
<1> QED
  BY <1>3, <1>4, <1>5

LEMMA TransfersFreeStep ==
    ASSUME TransferInv, NEW p \in Players, UNCHANGED conf, phase' \in [Players -> Phases], InsideIsKnown',
           \A q \in Players : phase[q] \in Inside => phase'[q] \in Inside, TransfersFree(p)
    PROVE  TransferInv'
<1> USE DEF TransferInv
<1>1. /\ ud' = [ud EXCEPT ![p] = NoUpload] /\ sends' = [sends EXCEPT ![p] = 0]
      /\ receiving' = receiving \ {p} /\ asked' = [asked EXCEPT ![p] = 0] /\ UNCHANGED <<offers, bigs>>
      /\ disk' = IF p \in receiving THEN disk \ {ud[p].fname} ELSE disk
      /\ opened' = opened - sends[p] - (IF p \in receiving /\ ud[p].fp THEN 1 ELSE 0)
  BY DEF TransfersFree
<1>2. /\ ud' \in [Players -> Uploading] /\ UploadsFit' /\ NamesDiffer'
      /\ Cardinality(Uploads') = Cardinality(Uploads) - (IF ud[p].fp THEN 1 ELSE 0)
      /\ {ud'[q].fname : q \in Uploads'} = IF ud[p].fp THEN disk \ {ud[p].fname} ELSE disk
  BY <1>1, UploadGoes
<1>3. sends' \in [Players -> Nat] /\ Total(0, sends', Players) = Total(0, sends, Players) - sends[p] + 0
  BY <1>1, SendsCount
<1>4. /\ (ud[p].fp => p \in receiving) /\ (~ud[p].fp => ud[p].fname \notin disk)
      /\ sends[p] \in Nat
  BY UploadsAreFinite, TransfersAssumption DEF UploadsFit, TransferTypes
<1>5. disk' = {ud'[q].fname : q \in Uploads'}
  BY <1>1, <1>2, <1>4
<1>6. opened' = Cardinality(Uploads') + Total(0, sends', Players)
  BY <1>1, <1>2, <1>3, <1>4, UploadsAreFinite DEF FilesFit
<1>7. FilesFit'
  BY <1>5, <1>6 DEF FilesFit
<1>8. TransferTypes' /\ OneAnswer' /\ PhaseTypes'
  BY <1>1, <1>2, <1>3, TransferTypesStay DEF TransferTypes, OneAnswer, PhaseTypes
<1>9. OffersFit'
  BY <1>1 DEF OffersFit, TransferTypes
<1> QED
  BY <1>2, <1>7, <1>8, <1>9

\* Who has been let in has had PA_CONNECT, and stays until PA_DISCONNECT.
LEMMA LetInStay ==
    ASSUME PhaseTypes, InsideIsKnown, [Next]_vars, ~ \E p \in conf.players : Disconnect(p)
    PROVE  /\ phase' \in [Players -> Phases] /\ UNCHANGED conf /\ InsideIsKnown'
           /\ \A q \in Players : phase[q] \in Inside => phase'[q] \in Inside
<1>1. ASSUME NEW p \in conf.players, Arrive(p) \/ Leave(p)
      PROVE  /\ phase' \in [Players -> Phases] /\ UNCHANGED <<conf, known>> /\ phase[p] \in Inside
             /\ phase'[p] \in Inside /\ \A q \in Players \ {p} : phase'[q] = phase[q]
  <2>1. p \in Players
    BY ClientsAssumption DEF PhaseTypes
  <2>2. CASE Arrive(p)
    BY <2>1, <2>2 DEF Arrive, Arrives, Goes, PhaseTypes, Phases, Inside
  <2>3. CASE Leave(p)
    BY <2>1, <2>3 DEF Leave, LeaveCallbacks, Goes, PhaseTypes, Phases, Inside
  <2> QED
    BY <1>1, <2>2, <2>3
<1>2. CASE \E p \in conf.players : Arrive(p) \/ Leave(p)
  BY <1>1, <1>2 DEF InsideIsKnown
<1>3. CASE NobodyGoes
  BY <1>3 DEF NobodyGoes, NobodyArrives, InsideIsKnown
<1> QED
  BY <1>2, <1>3, PlayersMove

LEMMA TransfersNext ==
    ASSUME TransferInv, OneRequest, [Next]_vars
    PROVE  TransferInv'
<1> USE DEF TransferInv
<1>1. \A p \in conf.players : p \in Players
  BY ClientsAssumption DEF PhaseTypes
<1>2. ASSUME NEW p \in conf.players, Disconnect(p) PROVE TransferInv'
  <2>1. p \in Players /\ phase[p] \in {"connected", "loggedin"}
    BY <1>1, <1>2 DEF Disconnect, Disconnects
  <2>2. /\ phase' = [phase EXCEPT ![p] = "timewait"] /\ known' = known \ {p} /\ UNCHANGED conf
    BY <1>2 DEF Disconnect, Disconnects, Goes
  <2>3. phase' \in [Players -> Phases] /\ InsideIsKnown' /\ \A q \in Players \ {p} : phase'[q] = phase[q]
    BY <2>1, <2>2 DEF PhaseTypes, Phases, InsideIsKnown, Inside
  <2>4. CASE p \in known
    <3>1. TransfersDisconnect(p)
      BY <1>2, <2>4 DEF Disconnect
    <3> QED
      BY <2>1, <2>2, <2>3, <3>1, TransfersDisconnectStep
  <2>5. CASE p \notin known
    <3>1. UNCHANGED transvars /\ phase[p] \notin Inside
      BY <1>2, <2>1, <2>5 DEF Disconnect, InsideIsKnown
    <3>2. \A q \in Players : phase[q] \in Inside => phase'[q] \in Inside
      BY <2>3, <3>1
    <3> QED
      BY <2>2, <2>3, <3>1, <3>2, TransfersStayStep
  <2> QED
    BY <2>4, <2>5
<1>3. CASE ~ \E p \in conf.players : Disconnect(p)
  <2>1. /\ phase' \in [Players -> Phases] /\ UNCHANGED conf /\ InsideIsKnown'
        /\ \A q \in Players : phase[q] \in Inside => phase'[q] \in Inside
    BY <1>3, LetInStay
  <2>2. ASSUME NEW p \in conf.players, Free(p) PROVE TransferInv'
    BY <1>1, <2>1, <2>2, TransfersFreeStep DEF Free
  <2>3. CASE TransfersStep
    BY <2>3, TransfersSteps
  <2>4. CASE UNCHANGED transvars
    BY <2>1, <2>4, TransfersStayStep
  <2>5. (\E p \in conf.players : Free(p)) \/ TransfersStep \/ UNCHANGED transvars
    BY <1>3 DEF Next, Login, Arrive, Enter, Leave, Coming, vars
  <2> QED
    BY <2>2, <2>3, <2>4, <2>5
<1> QED
  BY <1>2, <1>3

\* The files on the disk are those of the uploads under way, no two of which have the same;
\* as many are open as there are uploads and downloads, for any players and files, if a
\* client is not asked for a second file before the first has come.
THEOREM TransferInvariant ==
    ASSUME OneRequest
    PROVE  Spec => []TransferInv
<1>1. TransferInv /\ [Next]_vars => TransferInv'
  BY TransfersNext
<1> QED
  BY <1>1, TransfersBegin, PTL DEF Spec

\* Nothing is left behind on the disk or in the table of file descriptors, and nothing is
\* offered to or by somebody who is gone, whatever is cancelled, refused or overtaken.
THEOREM FilesAndOffersAgree ==
    ASSUME OneRequest
    PROVE  Spec => []TransfersAgree
<1>1. TransferInv => TransfersAgree
  <2> SUFFICES ASSUME TransferInv
               PROVE  FilesAreOwned /\ OffersAreLive
    BY DEF TransfersAgree
  <2>1. FoldFunctionOnSet(+, 0, sends, Players) = Total(0, sends, Players)
    BY TransfersAssumption, TotalFolds DEF TransferInv, TransferTypes
  <2>2. FilesAreOwned
    BY <2>1 DEF FilesAreOwned, TransferInv, FilesFit, Uploads
  <2>3. OffersAreLive
    BY DEF OffersAreLive, TransferInv, OffersFit, Inside
  <2> QED
    BY <2>2, <2>3
<1> QED
  BY <1>1, TransferInvariant, PTL

----------------------------------------------------------------------------
(* The scores.                                                             *)

Stat == [score : Int, time : Int, started : Int, dirty : BOOLEAN]

StatTypes ==
    /\ conf \in Configs /\ phase \in [Players -> Phases]
    /\ second \in Nat /\ second > 0
    /\ stat \in [Players -> [Intervals -> Stat]] /\ saved \in [Players -> [Intervals -> [score : Int, time : Int]]]
    /\ pkt \in [Players -> Int] /\ scoreboard \in [Players -> [Players -> Int]]
    /\ carrying \in [Players -> Nat] /\ earned \in [Players -> Int] /\ carried \in [Players -> Int]
    /\ past \in [Players -> Int]

\* The time of a stat, its timer included.
Elapsed(s) == s.time + (IF s.started = 0 THEN 0 ELSE second - s.started)

\* The timer of the interval that never ends runs for those who carry a flag, in the arena.
TimersRun ==
    \A p \in Players :
        /\ carrying[p] > 0 => phase[p] \in {"playing", "leaving"}
        /\ p \in InArena => (stat[p]["forever"].started # 0 <=> carrying[p] > 0)

\* The database thread is at one player, and has others of the arena before it.
OneIsCopied ==
    /\ ending \subseteq InArena /\ copied \subseteq ending
    /\ \A p, q \in copied : p = q

\* The packet of a player has his score, or an update will put it there.
PacketsFit ==
    \A p \in Players : phase[p] = "playing" => stat[p]["reset"].dirty \/ pkt[p] = stat[p]["reset"].score

\* What p scored is what the interval that never ends has of it, ...
Accounted(p) ==
    /\ p \in InArena => stat[p]["forever"].score = earned[p] /\ Elapsed(stat[p]["forever"]) = carried[p]
    /\ p \notin InArena => saved[p]["forever"] = [score |-> earned[p], time |-> carried[p]]
\* ... and in those that end no more than that.
Current(p) ==
    IF p \in copied THEN 0 ELSE IF p \in InArena THEN stat[p]["reset"].score ELSE saved[p]["reset"].score
NoneTwice(p) == past[p] + Current(p) <= earned[p]

StatInv ==
    /\ StatTypes /\ TimersRun /\ OneIsCopied /\ PacketsFit /\ ClientsHaveScores
    /\ \A p \in Players : Accounted(p) /\ NoneTwice(p)

\* What all changes of timers keep.
Timed(s, t) == t \in Stat /\ t.score = s.score /\ (s.dirty => t.dirty) /\ Elapsed(t) = Elapsed(s)

LEMMA TimerIsUpdated ==
    ASSUME second \in Nat, second > 0, NEW s \in Stat
    PROVE  /\ Timed(s, Updated(s)) /\ (Updated(s).started # 0 <=> s.started # 0)
           /\ Timed(s, Started(s)) /\ Started(s).started # 0
           /\ Timed(s, Stopped(s)) /\ Stopped(s).started = 0
           /\ Timed(s, GetData(s)) /\ (s.started = 0 => GetData(s) = s)
<1>u. s.started # 0 =>
        Updated(s) = [score |-> s.score, time |-> s.time + (second - s.started), started |-> second, dirty |-> TRUE]
  BY DEF Updated, Stat
<1>n. s.started = 0 => Updated(s) = s
  BY DEF Updated
<1>1. Timed(s, Updated(s)) /\ (Updated(s).started # 0 <=> s.started # 0)
  <2>1. CASE s.started = 0
    BY <1>n, <2>1 DEF Timed
  <2>2. CASE s.started # 0
    <3>1. PICK t : t = Updated(s)
      OBVIOUS
    <3>2. PICK n \in Int : n = s.time + (second - s.started)
      BY DEF Stat
    <3>3. second \in Int /\ s.score \in Int
      BY DEF Stat
    <3>4. t = [score |-> s.score, time |-> n, started |-> second, dirty |-> TRUE]
      BY <1>u, <2>2, <3>1, <3>2
    <3>5. t \in Stat /\ t.score = s.score /\ t.dirty /\ t.started = second /\ t.time = n
      BY <3>3, <3>4 DEF Stat
    <3> QED
      BY <2>2, <3>1, <3>2, <3>5 DEF Timed, Elapsed, Stat
  <2> QED
    BY <2>1, <2>2
<1>2. Timed(s, Started(s)) /\ Started(s).started # 0
  BY <1>1 DEF Timed, Started, Elapsed, Stat
<1>3. Updated(s) \in Stat /\ (Updated(s).started = 0 \/ Updated(s).started = second)
  BY <1>1, <1>u, <1>n DEF Timed
<1>4. Timed(s, Stopped(s)) /\ Stopped(s).started = 0
  <2>1. PICK t \in Stat : t = Updated(s)
    BY <1>3
  <2>2. Stopped(s) = [t EXCEPT !.started = 0]
    BY <2>1 DEF Stopped
  <2> QED
    BY <1>1, <1>3, <2>1, <2>2 DEF Timed, Elapsed, Stat
<1>5. Timed(s, GetData(s)) /\ (s.started = 0 => GetData(s) = s)
  BY <1>1 DEF GetData, Timed, Updated
<1> QED
  BY <1>1, <1>2, <1>4, <1>5

LEMMA StatIsCleared ==
    ASSUME NEW s \in Stat
    PROVE  LET t == ClearData(s)
           IN  /\ t \in Stat /\ t.score = 0 /\ t.time = 0 /\ t.started = 0
               /\ (s.dirty => t.dirty) /\ (t.dirty \/ t.score = s.score)
<1>1. PICK d \in BOOLEAN : d <=> s.dirty \/ s.score # 0 \/ s.time # 0
  OBVIOUS
<1>2. d = (s.dirty \/ s.score # 0 \/ s.time # 0)
  BY <1>1 DEF Stat
<1>3. ClearData(s) = [s EXCEPT !.dirty = d, !.score = 0, !.time = 0, !.started = 0]
  BY <1>2 DEF ClearData
<1>4. ClearData(s) = [score |-> 0, time |-> 0, started |-> 0, dirty |-> d]
  BY <1>3 DEF Stat
<1> QED
  BY <1>1, <1>4 DEF Stat

LEMMA StatIsSet ==
    ASSUME NEW s \in Stat, NEW r \in [score : Int, time : Int]
    PROVE  LET t == SetData(ClearData(s), r)
           IN  t \in Stat /\ t.score = r.score /\ t.time = r.time /\ t.started = 0
<1>1. PICK c \in Stat : c = ClearData(s) /\ c.started = 0
  BY StatIsCleared
<1>2. SetData(c, r) \in Stat /\ SetData(c, r).score = r.score /\ SetData(c, r).time = r.time /\ SetData(c, r).started = 0
  BY <1>1 DEF SetData, Stat
<1> QED
  BY <1>1, <1>2

LEMMA StatsBegin == Init => StatInv
<1> SUFFICES ASSUME Init PROVE StatInv
  OBVIOUS
<1>1. conf \in Configs /\ \A p \in Players : phase[p] \in {"loggedin", "free"}
  BY DEF Init, ClientsInit
<1>2. phase \in [Players -> Phases]
  BY DEF Init, ClientsInit, Phases
<1>3. \A p \in Players : p \notin InArena
  BY <1>1 DEF InArena
<1>4. StatTypes
  BY <1>1, <1>2 DEF Init, StatsInit, StatTypes, Stat, NoStat, NoRecord
<1>5. carrying = [p \in Players |-> 0] /\ ending = {} /\ copied = {}
  BY DEF Init, StatsInit
<1>6. TimersRun /\ OneIsCopied /\ PacketsFit /\ ClientsHaveScores
  BY <1>1, <1>3, <1>5 DEF TimersRun, OneIsCopied, PacketsFit, ClientsHaveScores
<1>7. ASSUME NEW p \in Players PROVE Accounted(p) /\ NoneTwice(p)
  BY <1>3, <1>5 DEF Init, StatsInit, Accounted, NoneTwice, Current, NoRecord, Intervals
<1> QED
  BY <1>4, <1>6, <1>7 DEF StatInv

\* A step that changes the stats of one player in the arena.
LEMMA OneIsCounted ==
    ASSUME StatInv, StatTypes', OneIsCopied', NEW p \in Players,
           UNCHANGED <<conf, phase, second, pkt, scoreboard>>,
           \A q \in Players \ {p} :
              /\ stat'[q] = stat[q] /\ saved'[q] = saved[q] /\ carrying'[q] = carrying[q]
              /\ earned'[q] = earned[q] /\ carried'[q] = carried[q] /\ past'[q] = past[q]
              /\ q \in copied' <=> q \in copied,
           carrying'[p] > 0 => phase[p] \in {"playing", "leaving"},
           p \in InArena => (stat'[p]["forever"].started # 0 <=> carrying'[p] > 0),
           \/ stat'[p]["reset"].dirty
           \/ ~stat[p]["reset"].dirty /\ stat'[p]["reset"].score = stat[p]["reset"].score,
           Accounted(p)', NoneTwice(p)'
    PROVE  StatInv'
<1>1. InArena' = InArena
  BY DEF InArena
<1>2. TimersRun'
  BY <1>1 DEF StatInv, TimersRun
<1>3. PacketsFit'
  BY DEF StatInv, PacketsFit
<1>4. ClientsHaveScores'
  BY DEF StatInv, ClientsHaveScores
<1>5. ASSUME NEW q \in Players, q # p PROVE Accounted(q)' /\ NoneTwice(q)'
  BY <1>1, <1>5 DEF StatInv, Accounted, NoneTwice, Current, Elapsed
<1> QED
  BY <1>2, <1>3, <1>4, <1>5 DEF StatInv

LEMMA IncrementStatStep ==
    ASSUME StatInv, NEW p \in Players, IncrementStat(p), UNCHANGED <<conf, clientvars>>
    PROVE  StatInv'
<1> DEFINE More(s) == [s EXCEPT !.score = @ + 1, !.dirty = TRUE]
<1>1. ASSUME NEW s \in Stat
      PROVE  /\ More(s) \in Stat /\ More(s).score = s.score + 1 /\ More(s).dirty
             /\ More(s).started = s.started /\ More(s).time = s.time
  <2>1. PICK n \in Int : n = s.score + 1
    BY DEF Stat
  <2>2. More(s) = [s EXCEPT !.score = n, !.dirty = TRUE]
    BY <2>1
  <2> HIDE DEF More
  <2>3. More(s) = [score |-> n, time |-> s.time, started |-> s.started, dirty |-> TRUE]
    BY <2>2 DEF Stat
  <2>4. s.time \in Int /\ s.started \in Int
    BY DEF Stat
  <2> QED
    BY <2>1, <2>3, <2>4 DEF Stat
<1>2. stat' = [stat EXCEPT ![p] = [i \in Intervals |-> More(@[i])]]
  BY DEF IncrementStat, InAll
<1>3. PICK f \in Stat : f = stat[p]["forever"]
  BY DEF StatInv, StatTypes, Intervals
<1>4. PICK r \in Stat : r = stat[p]["reset"]
  BY DEF StatInv, StatTypes, Intervals
<1>5. stat'[p] = [i \in Intervals |-> More(stat[p][i])] /\ \A i \in Intervals : stat[p][i] \in Stat
  BY <1>2 DEF StatInv, StatTypes
<1>6. stat'[p]["forever"] = More(f) /\ stat'[p]["reset"] = More(r)
  BY <1>3, <1>4, <1>5 DEF Intervals
<1> HIDE DEF More
<1>7. stat' \in [Players -> [Intervals -> Stat]]
  BY <1>1, <1>2, <1>5 DEF StatInv, StatTypes
<1>8. /\ UNCHANGED <<conf, phase, second, pkt, scoreboard, saved, carrying, copied, ending, carried, past>>
      /\ earned' = [earned EXCEPT ![p] = @ + 1] /\ InArena' = InArena /\ p \in InArena
  BY DEF IncrementStat, clientvars, InArena, Playing
<1>9. StatTypes'
  BY <1>7, <1>8 DEF StatInv, StatTypes
<1>10. Accounted(p)' /\ NoneTwice(p)'
  <2>1. earned[p] \in Int /\ past[p] \in Int /\ r.score \in Int /\ earned'[p] = earned[p] + 1
    BY <1>8 DEF StatInv, StatTypes, Stat
  <2>2. Accounted(p) /\ NoneTwice(p)
    BY DEF StatInv
  <2>3. Accounted(p)'
    BY <1>1, <1>3, <1>6, <1>8, <2>1, <2>2 DEF Accounted, Elapsed
  <2>4. NoneTwice(p)'
    BY <1>1, <1>4, <1>6, <1>8, <2>1, <2>2 DEF NoneTwice, Current
  <2> QED
    BY <2>3, <2>4
<1>11. OneIsCopied'
  BY <1>8 DEF StatInv, OneIsCopied
<1>12. /\ stat'[p]["reset"].dirty
       /\ stat'[p]["forever"].started = stat[p]["forever"].started
  BY <1>1, <1>3, <1>6
<1>13. \A q \in Players \ {p} : stat'[q] = stat[q] /\ earned'[q] = earned[q]
  BY <1>2, <1>8 DEF StatInv, StatTypes
<1> QED
  BY <1>8, <1>9, <1>10, <1>11, <1>12, <1>13, OneIsCounted DEF StatInv, TimersRun

\* Timers are started, or stopped.
LEMMA TimersStep ==
    ASSUME StatInv, NEW p \in Players, NEW t, stat' = [stat EXCEPT ![p] = t],
           t \in [Intervals -> Stat], \A i \in Intervals : Timed(stat[p][i], t[i]),
           UNCHANGED <<conf, phase, second, pkt, scoreboard, saved, copied, ending, ghosts>>,
           NEW n \in Nat, carrying' = [carrying EXCEPT ![p] = n],
           n > 0 => phase[p] \in {"playing", "leaving"},
           p \in InArena => (t["forever"].started # 0 <=> n > 0)
    PROVE  StatInv'
<1>1. InArena' = InArena
  BY DEF InArena
<1>2. StatTypes' /\ OneIsCopied'
  BY <1>1 DEF StatInv, StatTypes, OneIsCopied, ghosts
<1>3. stat'[p] = t /\ carrying'[p] = n
  BY DEF StatInv, StatTypes
<1>4. Timed(stat[p]["forever"], t["forever"]) /\ Timed(stat[p]["reset"], t["reset"])
  BY DEF Intervals
<1>5. Accounted(p)' /\ NoneTwice(p)'
  BY <1>1, <1>3, <1>4 DEF StatInv, Timed, Accounted, NoneTwice, Current, Elapsed, ghosts
<1>6. \/ stat'[p]["reset"].dirty
      \/ ~stat[p]["reset"].dirty /\ stat'[p]["reset"].score = stat[p]["reset"].score
  BY <1>3, <1>4 DEF Timed
<1>7. \A q \in Players \ {p} : stat'[q] = stat[q] /\ carrying'[q] = carrying[q]
  BY DEF StatInv, StatTypes
<1> QED
  BY <1>2, <1>3, <1>5, <1>6, <1>7, OneIsCounted DEF ghosts

LEMMA FlagGainStep ==
    ASSUME StatInv, NEW p \in Players, FlagGain(p), UNCHANGED <<conf, clientvars>>
    PROVE  StatInv'
<1> DEFINE t == [i \in Intervals |-> Started(stat[p][i])]
<1>1. \A i \in Intervals : Timed(stat[p][i], t[i]) /\ t[i] \in Stat /\ t[i].started # 0
  BY TimerIsUpdated DEF StatInv, StatTypes, Timed
<1>2. stat' = [stat EXCEPT ![p] = t]
  BY DEF FlagGain, StartTimer, InAll, StatInv, StatTypes
<1>3. t \in [Intervals -> Stat] /\ "forever" \in Intervals
  BY <1>1 DEF Intervals
<1>4. PICK n \in Nat : n = carrying[p] + 1
  BY DEF StatInv, StatTypes
<1>5. carrying' = [carrying EXCEPT ![p] = n] /\ n > 0 /\ phase[p] = "playing"
  BY <1>4 DEF FlagGain, StatInv, StatTypes
<1>6. UNCHANGED <<conf, phase, second, pkt, scoreboard, saved, copied, ending, ghosts>>
  BY DEF FlagGain, clientvars
<1>7. PICK u : u = t
  OBVIOUS
<1> HIDE DEF t
<1> QED
  BY <1>1, <1>2, <1>3, <1>5, <1>6, <1>7, TimersStep

LEMMA LostStats ==
    ASSUME StatInv, NEW p \in Players, NEW n \in Nat, Lost(p, n)
    PROVE  \E t \in [Intervals -> Stat] :
              /\ stat' = [stat EXCEPT ![p] = t] /\ \A i \in Intervals : Timed(stat[p][i], t[i])
              /\ n = 0 => t["forever"].started = 0
              /\ n > 0 => t = stat[p]
<1>1. CASE n = 0
  <2> DEFINE t == [i \in Intervals |-> Stopped(stat[p][i])]
  <2>1. \A i \in Intervals : Timed(stat[p][i], t[i]) /\ t[i] \in Stat /\ t[i].started = 0
    BY TimerIsUpdated DEF StatInv, StatTypes, Timed
  <2>2. stat' = [stat EXCEPT ![p] = t]
    BY <1>1 DEF Lost, StopTimer, InAll, StatInv, StatTypes
  <2>3. t \in [Intervals -> Stat] /\ "forever" \in Intervals
    BY <2>1 DEF Intervals
  <2>4. n = 0 /\ ~(n > 0)
    BY <1>1
  <2> HIDE DEF t
  <2> QED
    BY <2>1, <2>2, <2>3, <2>4
<1>2. CASE n > 0
  <2>1. stat' = [stat EXCEPT ![p] = stat[p]] /\ stat[p] \in [Intervals -> Stat]
    BY <1>2 DEF Lost, StatInv, StatTypes
  <2>2. \A i \in Intervals : Timed(stat[p][i], stat[p][i])
    BY DEF Timed, StatInv, StatTypes
  <2>3. n # 0
    BY <1>2
  <2>4. PICK t : t = stat[p]
    OBVIOUS
  <2> QED
    BY <2>1, <2>2, <2>3, <2>4
<1> QED
  BY <1>1, <1>2

LEMMA FlagLostStep ==
    ASSUME StatInv, NEW p \in Players, FlagLost(p), UNCHANGED <<conf, clientvars>>
    PROVE  StatInv'
<1>1. PICK n \in Nat : n = carrying[p] - 1
  BY DEF FlagLost, StatInv, StatTypes
<1>2. Lost(p, n) /\ carrying' = [carrying EXCEPT ![p] = n] /\ phase[p] = "playing" /\ carrying[p] > 0
  BY <1>1 DEF FlagLost, Lost
<1>3. PICK t \in [Intervals -> Stat] :
              /\ stat' = [stat EXCEPT ![p] = t] /\ \A i \in Intervals : Timed(stat[p][i], t[i])
              /\ n = 0 => t["forever"].started = 0
              /\ n > 0 => t = stat[p]
  BY <1>2, LostStats
<1>4. UNCHANGED <<conf, phase, second, pkt, scoreboard, saved, copied, ending, ghosts>>
  BY DEF FlagLost, clientvars
<1>5. p \in InArena => (t["forever"].started # 0 <=> n > 0)
  BY <1>2, <1>3 DEF StatInv, TimersRun
<1> QED
  BY <1>2, <1>3, <1>4, <1>5, TimersStep

\* A player's data of the interval that ends are put, ...
LEMMA PutOldStep ==
    ASSUME StatInv, NEW p \in Players, PutOld(p), UNCHANGED <<conf, clientvars>>
    PROVE  StatInv'
<1>1. PICK r \in Stat : r = stat[p]["reset"]
  BY DEF StatInv, StatTypes, Intervals
<1>2. PICK g \in Stat : g = GetData(r) /\ Timed(r, g)
  BY TimerIsUpdated DEF StatInv, StatTypes, Timed
<1>3. stat' = [stat EXCEPT ![p]["reset"] = g]
  BY <1>1, <1>2 DEF PutOld
<1>4. /\ stat' \in [Players -> [Intervals -> Stat]]
      /\ stat'[p]["reset"] = g /\ stat'[p]["forever"] = stat[p]["forever"]
      /\ \A q \in Players \ {p} : stat'[q] = stat[q]
  BY <1>3 DEF StatInv, StatTypes, Intervals
<1>5. /\ UNCHANGED <<conf, phase, second, pkt, scoreboard, saved, carrying, ending, earned, carried>>
      /\ past' = [past EXCEPT ![p] = @ + r.score] /\ copied = {} /\ copied' = {p} /\ p \in ending
      /\ InArena' = InArena /\ p \in InArena
  BY <1>1 DEF PutOld, clientvars, InArena, StatInv, OneIsCopied
<1>6. StatTypes' /\ OneIsCopied'
  BY <1>4, <1>5 DEF StatInv, StatTypes, OneIsCopied, Stat
<1>7. Accounted(p)' /\ NoneTwice(p)'
  <2>1. Accounted(p) /\ NoneTwice(p) /\ past[p] \in Int /\ earned[p] \in Int /\ r.score \in Int
    BY DEF StatInv, StatTypes, Stat
  <2>2. Accounted(p)'
    BY <1>4, <1>5, <2>1 DEF Accounted, Elapsed
  <2>3. NoneTwice(p)'
    BY <1>1, <1>5, <2>1 DEF NoneTwice, Current, StatInv, StatTypes
  <2> QED
    BY <2>2, <2>3
<1>8. \/ stat'[p]["reset"].dirty
      \/ ~stat[p]["reset"].dirty /\ stat'[p]["reset"].score = stat[p]["reset"].score
  BY <1>1, <1>2, <1>4 DEF Timed
<1>9. \A q \in Players \ {p} : past'[q] = past[q]
  BY <1>5 DEF StatInv, StatTypes
<1> QED
  BY <1>4, <1>5, <1>6, <1>7, <1>8, <1>9, OneIsCounted DEF StatInv, TimersRun

\* ... then cleared.
LEMMA ClearStep ==
    ASSUME StatInv, NEW p \in Players, Clear(p), UNCHANGED <<conf, clientvars>>
    PROVE  StatInv'
<1>1. PICK r \in Stat : r = stat[p]["reset"]
  BY DEF StatInv, StatTypes, Intervals
<1>2. PICK g \in Stat : /\ g = ClearData(r) /\ g.score = 0 /\ (r.dirty => g.dirty)
                        /\ g.dirty \/ g.score = r.score
  BY StatIsCleared
<1>3. stat' = [stat EXCEPT ![p]["reset"] = g]
  BY <1>1, <1>2 DEF Clear
<1>4. /\ stat' \in [Players -> [Intervals -> Stat]]
      /\ stat'[p]["reset"] = g /\ stat'[p]["forever"] = stat[p]["forever"]
      /\ \A q \in Players \ {p} : stat'[q] = stat[q]
  BY <1>3 DEF StatInv, StatTypes, Intervals
<1>5. /\ UNCHANGED <<conf, phase, second, pkt, scoreboard, saved, carrying, earned, carried, past>>
      /\ p \in copied /\ copied' = {} /\ ending' = ending \ {p}
      /\ InArena' = InArena /\ p \in InArena /\ \A q \in Players \ {p} : q \notin copied
  BY DEF Clear, clientvars, InArena, StatInv, OneIsCopied, ghosts
<1>6. StatTypes' /\ OneIsCopied'
  BY <1>4, <1>5 DEF StatInv, StatTypes, OneIsCopied
<1>7. Accounted(p)' /\ NoneTwice(p)'
  BY <1>2, <1>4, <1>5 DEF StatInv, StatTypes, Accounted, NoneTwice, Current, Elapsed
<1>8. \/ stat'[p]["reset"].dirty
      \/ ~stat[p]["reset"].dirty /\ stat'[p]["reset"].score = stat[p]["reset"].score
  BY <1>1, <1>2, <1>4
<1> QED
  BY <1>4, <1>5, <1>6, <1>7, <1>8, OneIsCounted DEF StatInv, TimersRun

\* All in the arena are told of those whose stats have changed.
LEMMA UpdatesAreSent ==
    ASSUME NEW s, s \in [Players -> [Intervals -> Stat]], StatTypes, SendUpdates(s, pkt, {})
    PROVE  /\ stat' \in [Players -> [Intervals -> Stat]] /\ pkt' \in [Players -> Int]
           /\ scoreboard' \in [Players -> [Players -> Int]]
           /\ \A p \in Players :
                 /\ stat'[p]["forever"] = s[p]["forever"]
                 /\ stat'[p]["reset"].score = s[p]["reset"].score
                 /\ p \in Playing /\ s[p]["reset"].dirty =>
                       /\ pkt'[p] = s[p]["reset"].score
                       /\ \A q \in Playing : scoreboard'[q][p] = s[p]["reset"].score
                 /\ ~(p \in Playing /\ s[p]["reset"].dirty) =>
                       /\ stat'[p] = s[p] /\ pkt'[p] = pkt[p]
                       /\ \A q \in Playing : scoreboard'[q][p] = scoreboard[q][p]
<1> DEFINE C == {p \in Playing : s[p]["reset"].dirty}
           G(p) == [s[p] EXCEPT !["reset"].dirty = FALSE]
<1>1. C = {p \in Playing \ {} : s[p]["reset"].dirty}
  OBVIOUS
<1>2. /\ stat' = [p \in Players |-> IF p \in C THEN G(p) ELSE s[p]]
      /\ pkt' = [p \in Players |-> IF p \in C THEN s[p]["reset"].score ELSE pkt[p]]
      /\ scoreboard' = [q \in Players |-> [p \in Players |->
                 IF q \in Playing /\ p \in C THEN s[p]["reset"].score ELSE scoreboard[q][p]]]
  BY <1>1 DEF SendUpdates
<1>3. ASSUME NEW p \in Players
      PROVE  /\ G(p) \in [Intervals -> Stat] /\ G(p)["forever"] = s[p]["forever"]
             /\ G(p)["reset"].score = s[p]["reset"].score
  <2>1. PICK r \in Stat : r = s[p]["reset"]
    BY DEF Intervals
  <2>2. PICK t \in [Intervals -> Stat] : t = s[p]
    OBVIOUS
  <2>3. PICK u : u = [r EXCEPT !.dirty = FALSE]
    OBVIOUS
  <2>4. u \in Stat /\ u.score = r.score
    BY <2>3 DEF Stat
  <2>5. G(p) = [t EXCEPT !["reset"] = u]
    BY <2>1, <2>2, <2>3
  <2> HIDE DEF G
  <2> QED
    BY <2>1, <2>2, <2>4, <2>5 DEF Intervals
<1>4. \A p \in Players : s[p]["reset"].score \in Int
  BY DEF Stat, Intervals
<1>5. \A p \in Players : p \in C <=> p \in Playing /\ s[p]["reset"].dirty
  OBVIOUS
<1>6. Playing \subseteq Players
  BY DEF Playing
<1> HIDE DEF C, G
<1>7. stat' \in [Players -> [Intervals -> Stat]] /\ pkt' \in [Players -> Int]
  BY <1>2, <1>3, <1>4 DEF StatTypes
<1>8. scoreboard' \in [Players -> [Players -> Int]]
  BY <1>2, <1>4 DEF StatTypes
<1>9. ASSUME NEW p \in Players
      PROVE  /\ stat'[p]["forever"] = s[p]["forever"]
             /\ stat'[p]["reset"].score = s[p]["reset"].score
  BY <1>2, <1>3, <1>9
<1>10. ASSUME NEW p \in Players, p \in Playing /\ s[p]["reset"].dirty
       PROVE  /\ pkt'[p] = s[p]["reset"].score
              /\ \A q \in Playing : scoreboard'[q][p] = s[p]["reset"].score
  BY <1>2, <1>5, <1>6, <1>10
<1>11. ASSUME NEW p \in Players, ~(p \in Playing /\ s[p]["reset"].dirty)
       PROVE  /\ stat'[p] = s[p] /\ pkt'[p] = pkt[p]
              /\ \A q \in Playing : scoreboard'[q][p] = scoreboard[q][p]
  BY <1>2, <1>5, <1>6, <1>11
<1> QED
  BY <1>7, <1>8, <1>9, <1>10, <1>11

LEMMA UpdatesStep ==
    ASSUME StatInv, NEW s, s \in [Players -> [Intervals -> Stat]], SendUpdates(s, pkt, {}),
           \A p \in Players :
              /\ s[p]["forever"] = stat[p]["forever"]
              /\ \/ s[p]["reset"].dirty
                 \/ ~stat[p]["reset"].dirty /\ s[p]["reset"].score = stat[p]["reset"].score,
           UNCHANGED <<conf, clientvars, second, saved, carrying, copied, ending, earned, carried>>,
           past' \in [Players -> Int],
           \A p \in Players :
              past'[p] + (IF p \in copied THEN 0 ELSE IF p \in InArena THEN s[p]["reset"].score
                                                   ELSE saved[p]["reset"].score) <= earned[p]
    PROVE  StatInv'
<1>1. /\ stat' \in [Players -> [Intervals -> Stat]] /\ pkt' \in [Players -> Int]
      /\ scoreboard' \in [Players -> [Players -> Int]]
      /\ \A p \in Players :
                 /\ stat'[p]["forever"] = s[p]["forever"]
                 /\ stat'[p]["reset"].score = s[p]["reset"].score
                 /\ p \in Playing /\ s[p]["reset"].dirty =>
                       /\ pkt'[p] = s[p]["reset"].score
                       /\ \A q \in Playing : scoreboard'[q][p] = s[p]["reset"].score
                 /\ ~(p \in Playing /\ s[p]["reset"].dirty) =>
                       /\ stat'[p] = s[p] /\ pkt'[p] = pkt[p]
                       /\ \A q \in Playing : scoreboard'[q][p] = scoreboard[q][p]
  BY UpdatesAreSent DEF StatInv
<1>2. InArena' = InArena /\ UNCHANGED <<conf, phase, second, saved, carrying, copied, ending, earned, carried>>
  BY DEF InArena, clientvars
<1>3. \A p \in Players : stat'[p]["forever"] = stat[p]["forever"] /\ stat'[p]["reset"].score = s[p]["reset"].score
  BY <1>1
<1>4. StatTypes' /\ TimersRun' /\ OneIsCopied'
  BY <1>1, <1>2, <1>3 DEF StatInv, StatTypes, TimersRun, OneIsCopied
<1>5. \A p \in Players : phase[p] = "playing" => p \in Playing
  BY DEF Playing
<1>6. PacketsFit'
  <2> SUFFICES ASSUME NEW p \in Players, phase[p] = "playing", ~stat'[p]["reset"].dirty
               PROVE  pkt'[p] = stat'[p]["reset"].score
    BY <1>2 DEF PacketsFit
  <2>1. CASE s[p]["reset"].dirty
    BY <1>1, <1>5, <2>1
  <2>2. CASE ~s[p]["reset"].dirty
    <3>1. stat'[p] = s[p] /\ pkt'[p] = pkt[p] /\ ~stat[p]["reset"].dirty
          /\ s[p]["reset"].score = stat[p]["reset"].score
      BY <1>1, <2>2
    <3> QED
      BY <3>1 DEF StatInv, PacketsFit
  <2> QED
    BY <2>1, <2>2
<1>7. ClientsHaveScores'
  <2> SUFFICES ASSUME NEW p \in Players, NEW q \in Players, phase[p] = "playing", phase[q] = "playing",
                      ~stat'[p]["reset"].dirty
               PROVE  scoreboard'[q][p] = stat'[p]["reset"].score
    BY <1>2 DEF ClientsHaveScores
  <2>1. CASE s[p]["reset"].dirty
    BY <1>1, <1>5, <2>1
  <2>2. CASE ~s[p]["reset"].dirty
    <3>1. stat'[p] = s[p] /\ scoreboard'[q][p] = scoreboard[q][p] /\ ~stat[p]["reset"].dirty
          /\ s[p]["reset"].score = stat[p]["reset"].score
      BY <1>1, <1>5, <2>2
    <3> QED
      BY <3>1 DEF StatInv, ClientsHaveScores
  <2> QED
    BY <2>1, <2>2
<1>8. ASSUME NEW p \in Players PROVE Accounted(p)' /\ NoneTwice(p)'
  BY <1>2, <1>3 DEF StatInv, Accounted, NoneTwice, Current, Elapsed
<1> QED
  BY <1>4, <1>6, <1>7, <1>8 DEF StatInv

LEMMA SendsUpdatesStep ==
    ASSUME StatInv, SendsUpdates, UNCHANGED <<conf, clientvars>>
    PROVE  StatInv'
<1>1. PICK s \in [Players -> [Intervals -> Stat]] : s = stat
  BY DEF StatInv, StatTypes
<1>2. SendUpdates(s, pkt, {}) /\ UNCHANGED <<second, saved, carrying, copied, ending, ghosts>>
  BY <1>1 DEF SendsUpdates
<1>3. \A p \in Players : s[p]["reset"].dirty
                         \/ (~stat[p]["reset"].dirty /\ s[p]["reset"].score = stat[p]["reset"].score)
  BY <1>1
<1>4. past' \in [Players -> Int] /\ past' = past
  BY <1>2 DEF ghosts, StatInv, StatTypes
<1>5. \A p \in Players :
              past'[p] + (IF p \in copied THEN 0 ELSE IF p \in InArena THEN s[p]["reset"].score
                                                   ELSE saved[p]["reset"].score) <= earned[p]
  BY <1>1, <1>4 DEF StatInv, NoneTwice, Current
<1> QED
  BY <1>1, <1>2, <1>3, <1>4, <1>5, UpdatesStep DEF ghosts

LEMMA ScoreResetStep ==
    ASSUME StatInv, NEW p \in Players, ScoreReset(p), UNCHANGED <<conf, clientvars>>
    PROVE  StatInv'
<1>1. PICK r \in Stat : r = stat[p]["reset"]
  BY DEF StatInv, StatTypes, Intervals
<1>2. PICK u \in Stat : u = Updated(r)
  BY TimerIsUpdated DEF StatInv, StatTypes, Timed
<1>3. PICK g : g = [u EXCEPT !.score = 0, !.time = 0, !.dirty = TRUE]
  OBVIOUS
<1>4. g \in Stat /\ g.score = 0 /\ g.dirty
  <2>1. g = [score |-> 0, time |-> 0, started |-> u.started, dirty |-> TRUE]
    BY <1>3 DEF Stat
  <2>2. u.started \in Int
    BY DEF Stat
  <2> QED
    BY <2>1, <2>2 DEF Stat
<1>5. PICK s : s = [stat EXCEPT ![p]["reset"] = g]
  OBVIOUS
<1>6. /\ s \in [Players -> [Intervals -> Stat]] /\ s[p]["reset"] = g
      /\ \A q \in Players : s[q]["forever"] = stat[q]["forever"]
      /\ \A q \in Players \ {p} : s[q] = stat[q]
  BY <1>4, <1>5 DEF StatInv, StatTypes, Intervals
<1>7. /\ SendUpdates(s, pkt, {})
      /\ past' = [past EXCEPT ![p] = @ + IF p \in copied THEN 0 ELSE r.score]
      /\ UNCHANGED <<second, saved, carrying, copied, ending, earned, carried>>
      /\ p \in InArena
  BY <1>1, <1>2, <1>3, <1>5 DEF ScoreReset, Playing, InArena
<1>8. past' \in [Players -> Int] /\ r.score \in Int /\ \A q \in Players \ {p} : past'[q] = past[q]
  BY <1>7 DEF StatInv, StatTypes, Stat
<1>9. past'[p] = past[p] + IF p \in copied THEN 0 ELSE r.score
  BY <1>7 DEF StatInv, StatTypes
<1>10. \A q \in Players :
              past'[q] + (IF q \in copied THEN 0 ELSE IF q \in InArena THEN s[q]["reset"].score
                                                   ELSE saved[q]["reset"].score) <= earned[q]
  <2> TAKE q \in Players
  <2>0. NoneTwice(q) /\ past[q] \in Int /\ earned[q] \in Int
    BY DEF StatInv, StatTypes
  <2>1. CASE q = p
    BY <1>1, <1>4, <1>6, <1>7, <1>8, <1>9, <2>0, <2>1 DEF NoneTwice, Current
  <2>2. CASE q # p
    BY <1>6, <1>8, <2>0, <2>2 DEF NoneTwice, Current
  <2> QED
    BY <2>1, <2>2
<1>11. \A q \in Players : s[q]["reset"].dirty
                         \/ (~stat[q]["reset"].dirty /\ s[q]["reset"].score = stat[q]["reset"].score)
  <2> TAKE q \in Players
  <2>1. CASE q = p
    <3>1. s[q]["reset"] = g
      BY <1>6, <2>1
    <3> QED
      BY <1>4, <3>1, Zenon
  <2>2. CASE q # p
    BY <1>6, <2>2
  <2> QED
    BY <2>1, <2>2
<1> QED
  BY <1>6, <1>7, <1>8, <1>10, <1>11, UpdatesStep

\* Timers that run have run longer.
LEMMA SecondStep ==
    ASSUME StatInv, Second, UNCHANGED <<conf, clientvars>>
    PROVE  StatInv'
<1>1. /\ UNCHANGED <<conf, phase, stat, pkt, scoreboard, saved, carrying, copied, ending, earned, past>>
      /\ second' = second + 1 /\ InArena' = InArena
      /\ carried' = [p \in Players |-> carried[p] + IF carrying[p] > 0 THEN 1 ELSE 0]
  BY DEF Second, clientvars, InArena
<1>2. StatTypes' /\ TimersRun' /\ OneIsCopied' /\ PacketsFit' /\ ClientsHaveScores'
  BY <1>1 DEF StatInv, StatTypes, TimersRun, OneIsCopied, PacketsFit, ClientsHaveScores
<1>3. ASSUME NEW p \in Players PROVE Accounted(p)' /\ NoneTwice(p)'
  <2>1. Accounted(p) /\ NoneTwice(p)
    BY DEF StatInv
  <2>2. NoneTwice(p)'
    BY <1>1, <2>1 DEF NoneTwice, Current
  <2>3. carried'[p] = carried[p] + IF carrying[p] > 0 THEN 1 ELSE 0
    BY <1>1
  <2>4. PICK f \in Stat : f = stat[p]["forever"]
    BY DEF StatInv, StatTypes, Intervals
  <2>5. f.time \in Int /\ f.started \in Int /\ second \in Int /\ carried[p] \in Int
    BY DEF StatInv, StatTypes, Stat
  <2>6. CASE p \in InArena
    <3>1. f.started # 0 <=> carrying[p] > 0
      BY <2>4, <2>6 DEF StatInv, TimersRun
    <3>2. f.score = earned[p] /\ f.time + (IF f.started = 0 THEN 0 ELSE second - f.started) = carried[p]
      BY <2>1, <2>4, <2>6 DEF Accounted, Elapsed
    <3>3. f.time + (IF f.started = 0 THEN 0 ELSE second' - f.started) = carried'[p]
      BY <1>1, <2>3, <2>5, <3>1, <3>2
    <3> QED
      BY <1>1, <2>2, <2>4, <2>6, <3>2, <3>3 DEF Accounted, Elapsed
  <2>7. CASE p \notin InArena
    <3>1. ~(carrying[p] > 0)
      BY <2>7 DEF StatInv, TimersRun, InArena
    <3> QED
      BY <1>1, <2>1, <2>2, <2>3, <2>5, <2>7, <3>1 DEF Accounted
  <2> QED
    BY <2>6, <2>7
<1> QED
  BY <1>2, <1>3 DEF StatInv

\* The interval ends: those who are not in the arena begin the next with nothing.
LEMMA EndIntervalStep ==
    ASSUME StatInv, EndInterval, UNCHANGED <<conf, clientvars>>
    PROVE  StatInv'
<1>1. /\ UNCHANGED <<conf, phase, second, stat, pkt, scoreboard, carrying, copied, earned, carried>>
      /\ saved' = [p \in Players |-> [saved[p] EXCEPT !["reset"] = NoRecord]]
      /\ past' = [p \in Players |-> past[p] + IF p \in InArena THEN 0 ELSE saved[p]["reset"].score]
      /\ copied = {} /\ ending' = InArena /\ InArena' = InArena
  BY DEF EndInterval, clientvars, InArena
<1>2. NoRecord \in [score : Int, time : Int] /\ NoRecord.score = 0
  BY DEF NoRecord
<1>3. ASSUME NEW p \in Players
      PROVE  /\ saved'[p] \in [Intervals -> [score : Int, time : Int]] /\ saved'[p]["reset"] = NoRecord
             /\ saved'[p]["forever"] = saved[p]["forever"] /\ saved[p]["reset"].score \in Int
  BY <1>1, <1>2 DEF StatInv, StatTypes, Intervals
<1>4. saved' \in [Players -> [Intervals -> [score : Int, time : Int]]]
  BY <1>1, <1>3
<1>5. past' \in [Players -> Int]
  BY <1>1, <1>3 DEF StatInv, StatTypes
<1>6. StatTypes' /\ TimersRun' /\ OneIsCopied' /\ PacketsFit' /\ ClientsHaveScores'
  BY <1>1, <1>4, <1>5 DEF StatInv, StatTypes, TimersRun, OneIsCopied, PacketsFit, ClientsHaveScores
<1>7. ASSUME NEW p \in Players PROVE Accounted(p)' /\ NoneTwice(p)'
  <2>1. Accounted(p) /\ NoneTwice(p) /\ past[p] \in Int /\ earned[p] \in Int
    BY DEF StatInv, StatTypes
  <2>2. Accounted(p)'
    BY <1>1, <1>3, <2>1 DEF Accounted, Elapsed
  <2>3. NoneTwice(p)'
    BY <1>1, <1>2, <1>3, <2>1 DEF NoneTwice, Current
  <2> QED
    BY <2>2, <2>3
<1> QED
  BY <1>6, <1>7 DEF StatInv

LEMMA StatsStepStep ==
    ASSUME StatInv, StatsStep
    PROVE  StatInv'
<1>1. UNCHANGED <<conf, clientvars>> /\ \A p \in conf.scorers : p \in Players
  BY StatsAssumption DEF StatsStep, StatInv, StatTypes
<1>2. CASE \E p \in conf.scorers : IncrementStat(p) \/ FlagGain(p) \/ FlagLost(p) \/ ScoreReset(p)
  BY <1>1, <1>2, IncrementStatStep, FlagGainStep, FlagLostStep, ScoreResetStep
<1>3. CASE Second \/ EndInterval \/ SendsUpdates
  BY <1>1, <1>3, SecondStep, EndIntervalStep, SendsUpdatesStep
<1>4. CASE \E p \in Players : PutOld(p) \/ Clear(p)
  BY <1>1, <1>4, PutOldStep, ClearStep
<1> QED
  BY <1>2, <1>3, <1>4 DEF StatsStep

\* Players come and go: his scores are loaded, ...
LEMMA StatsArriveStep ==
    ASSUME StatInv, NEW p \in Players, StatsArrive(p), Arrives(p)
    PROVE  StatInv'
<1>1. /\ phase[p] = "loggedin" /\ phase' = [phase EXCEPT ![p] = "arriving"] /\ UNCHANGED conf
      /\ ending = {} /\ copied = {}
      /\ UNCHANGED <<second, pkt, scoreboard, saved, carrying, copied, ending, ghosts>>
      /\ stat' = [stat EXCEPT ![p] = [i \in Intervals |-> SetData(ClearData(@[i]), saved[p][i])]]
  BY DEF StatsArrive, Arrives, Goes
<1>2. PICK t : t = [i \in Intervals |-> SetData(ClearData(stat[p][i]), saved[p][i])]
  OBVIOUS
<1>3. \A i \in Intervals : /\ t[i] \in Stat /\ t[i].score = saved[p][i].score
                           /\ t[i].time = saved[p][i].time /\ t[i].started = 0
  BY <1>2, StatIsSet DEF StatInv, StatTypes
<1>4. stat' = [stat EXCEPT ![p] = t] /\ t \in [Intervals -> Stat]
  BY <1>1, <1>2, <1>3 DEF StatInv, StatTypes
<1>5. stat'[p] = t /\ \A q \in Players \ {p} : stat'[q] = stat[q]
  BY <1>4 DEF StatInv, StatTypes
<1>6. p \notin InArena /\ p \in InArena' /\ \A q \in Players \ {p} : phase'[q] = phase[q] /\ (q \in InArena' <=> q \in InArena)
  BY <1>1 DEF InArena, StatInv, StatTypes
<1>7. ~(carrying[p] > 0) /\ phase'[p] = "arriving"
  BY <1>1 DEF StatInv, TimersRun, StatTypes
<1>8. StatTypes'
  BY <1>1, <1>4 DEF StatInv, StatTypes, ghosts, Phases
<1>9. t["forever"].started = 0
  BY <1>3 DEF Intervals
<1>10. TimersRun'
  <2> SUFFICES ASSUME NEW q \in Players
               PROVE  /\ carrying'[q] > 0 => phase'[q] \in {"playing", "leaving"}
                      /\ q \in InArena' => (stat'[q]["forever"].started # 0 <=> carrying'[q] > 0)
    BY DEF TimersRun
  <2>1. CASE q = p
    BY <1>1, <1>5, <1>7, <1>9, <2>1
  <2>2. CASE q # p
    BY <1>1, <1>5, <1>6, <2>2 DEF StatInv, TimersRun
  <2> QED
    BY <2>1, <2>2
<1>11. OneIsCopied'
  BY <1>1 DEF OneIsCopied
<1>12. PacketsFit' /\ ClientsHaveScores'
  BY <1>1, <1>5, <1>6, <1>7 DEF StatInv, PacketsFit, ClientsHaveScores
<1>13. Accounted(p)' /\ NoneTwice(p)'
  <2>1. Accounted(p) /\ NoneTwice(p)
    BY DEF StatInv
  <2>2. saved[p]["forever"] = [score |-> earned[p], time |-> carried[p]] /\ past[p] + saved[p]["reset"].score <= earned[p]
    BY <1>1, <1>6, <2>1 DEF Accounted, NoneTwice, Current
  <2>3. t["forever"].score = earned[p] /\ t["forever"].time = carried[p] /\ t["reset"].score = saved[p]["reset"].score
    BY <1>3, <2>2 DEF Intervals
  <2>4. carried[p] \in Int
    BY DEF StatInv, StatTypes
  <2>5. Accounted(p)'
    BY <1>1, <1>5, <1>6, <1>9, <2>3, <2>4 DEF Accounted, Elapsed, ghosts
  <2>6. NoneTwice(p)'
    BY <1>1, <1>5, <1>6, <2>2, <2>3 DEF NoneTwice, Current, ghosts
  <2> QED
    BY <2>5, <2>6
<1>14. ASSUME NEW q \in Players, q # p PROVE Accounted(q)' /\ NoneTwice(q)'
  BY <1>1, <1>5, <1>6, <1>14 DEF StatInv, Accounted, NoneTwice, Current, Elapsed, ghosts
<1> QED
  BY <1>8, <1>10, <1>11, <1>12, <1>13, <1>14 DEF StatInv

\* ... and all get them with PA_ENTERARENA; ...
LEMMA StatsEnterStep ==
    ASSUME StatInv, NEW p \in Players, StatsEnter(p), phase[p] = "arriving", NobodyArrives,
           \A q \in Players : phase'[q] = "playing" => phase[q] = "playing" \/ q = p
    PROVE  StatInv'
<1> DEFINE mine == stat[p]["reset"].score
           sent == {r \in Playing \ {p} : stat[r]["reset"].dirty}
           Score(r) == IF r = p THEN mine ELSE IF r \in sent THEN stat[r]["reset"].score ELSE pkt[r]
           G(r) == [stat[r] EXCEPT !["reset"].dirty = FALSE]
<1>1. /\ stat' = [r \in Players |-> IF r \in sent THEN G(r) ELSE stat[r]]
      /\ pkt' = [r \in Players |-> Score(r)]
      /\ scoreboard' = [q \in Players |-> [r \in Players |->
                 IF q \in Playing /\ r \in Playing /\ (q = p \/ r = p \/ r \in sent) THEN Score(r)
                 ELSE scoreboard[q][r]]]
      /\ UNCHANGED <<second, saved, carrying, copied, ending, ended, ghosts>>
  BY DEF StatsEnter
<1>2. ASSUME NEW r \in Players
      PROVE  /\ G(r) \in [Intervals -> Stat] /\ G(r)["forever"] = stat[r]["forever"]
             /\ G(r)["reset"].score = stat[r]["reset"].score
  <2>1. PICK x \in Stat : x = stat[r]["reset"]
    BY DEF Intervals, StatInv, StatTypes
  <2>2. PICK t \in [Intervals -> Stat] : t = stat[r]
    BY DEF StatInv, StatTypes
  <2>3. PICK u : u = [x EXCEPT !.dirty = FALSE]
    OBVIOUS
  <2>4. u \in Stat /\ u.score = x.score
    BY <2>3 DEF Stat
  <2>5. G(r) = [t EXCEPT !["reset"] = u]
    BY <2>1, <2>2, <2>3
  <2> HIDE DEF G
  <2> QED
    BY <2>1, <2>2, <2>4, <2>5 DEF Intervals
<1>3. \A r \in Players : stat[r]["reset"].score \in Int /\ stat[r] \in [Intervals -> Stat]
  BY DEF Stat, Intervals, StatInv, StatTypes
<1>4. \A r \in Players : r \in sent <=> r \in Playing /\ r # p /\ stat[r]["reset"].dirty
  OBVIOUS
<1>5. \A r \in Players : Score(r) \in Int
  BY <1>3 DEF StatInv, StatTypes
<1>6. ASSUME NEW r \in Players
      PROVE  Score(r) = stat[r]["reset"].score \/ (r # p /\ r \notin sent /\ Score(r) = pkt[r])
  <2> HIDE DEF sent
  <2>1. CASE r = p
    BY <2>1
  <2>2. CASE r # p /\ r \in sent
    BY <2>2
  <2>3. CASE r # p /\ r \notin sent
    BY <2>3
  <2> QED
    BY <2>1, <2>2, <2>3
<1> HIDE DEF sent, G, Score
<1>7. stat' \in [Players -> [Intervals -> Stat]] /\ pkt' \in [Players -> Int]
      /\ scoreboard' \in [Players -> [Players -> Int]]
  BY <1>1, <1>2, <1>3, <1>5 DEF StatInv, StatTypes
<1>8. \A r \in Players : /\ stat'[r]["forever"] = stat[r]["forever"]
                         /\ stat'[r]["reset"].score = stat[r]["reset"].score
                         /\ r \notin sent => stat'[r] = stat[r]
                         /\ pkt'[r] = Score(r)
  BY <1>1, <1>2
<1>9. StatTypes' /\ TimersRun' /\ OneIsCopied'
  BY <1>1, <1>7, <1>8 DEF StatInv, StatTypes, TimersRun, OneIsCopied, NobodyArrives, ghosts
<1>10. \A q \in Players : phase'[q] = "playing" => q \in Playing
  BY DEF Playing
<1>11. ASSUME NEW r \in Players, phase'[r] = "playing", ~stat'[r]["reset"].dirty
       PROVE  Score(r) = stat'[r]["reset"].score
  <2>1. CASE Score(r) = stat[r]["reset"].score
    BY <1>8, <2>1
  <2>2. CASE r # p /\ r \notin sent /\ Score(r) = pkt[r]
    BY <1>8, <1>11, <2>2 DEF StatInv, PacketsFit
  <2> QED
    BY <1>6, <2>1, <2>2
<1>12. PacketsFit'
  BY <1>8, <1>11 DEF PacketsFit
<1>13. ClientsHaveScores'
  <2> SUFFICES ASSUME NEW r \in Players, NEW q \in Players, phase'[r] = "playing", phase'[q] = "playing",
                      ~stat'[r]["reset"].dirty
               PROVE  scoreboard'[q][r] = stat'[r]["reset"].score
    BY DEF ClientsHaveScores
  <2>1. CASE q = p \/ r = p \/ r \in sent
    BY <1>1, <1>10, <1>11, <2>1
  <2>2. CASE ~(q = p \/ r = p \/ r \in sent)
    <3>1. scoreboard'[q][r] = scoreboard[q][r] /\ stat'[r] = stat[r]
      BY <1>1, <1>8, <2>2
    <3> QED
      BY <2>2, <3>1 DEF StatInv, ClientsHaveScores
  <2> QED
    BY <2>1, <2>2
<1>14. ASSUME NEW q \in Players PROVE Accounted(q)' /\ NoneTwice(q)'
  BY <1>1, <1>8 DEF StatInv, Accounted, NoneTwice, Current, Elapsed, NobodyArrives, ghosts
<1> QED
  BY <1>9, <1>12, <1>13, <1>14 DEF StatInv

\* ... and they are stored when he leaves.
LEMMA StatsLeaveStep ==
    ASSUME StatInv, NEW p \in Players, StatsLeave(p), LeaveCallbacks(p)
    PROVE  StatInv'
<1>1. /\ phase[p] = "leaving" /\ phase' = [phase EXCEPT ![p] = "loggedin"] /\ UNCHANGED conf
      /\ ending = {} /\ copied = {}
      /\ UNCHANGED <<second, pkt, scoreboard, copied, ending, ghosts>>
      /\ saved' = [saved EXCEPT ![p] = [i \in Intervals |-> Record(stat'[p][i])]]
      /\ IF carrying[p] > 0 THEN Lost(p, 0) ELSE UNCHANGED <<stat, carrying>>
  BY DEF StatsLeave, LeaveCallbacks, Goes
<1>2. p \in InArena /\ p \notin InArena' /\ \A q \in Players \ {p} : phase'[q] = phase[q] /\ (q \in InArena' <=> q \in InArena)
  BY <1>1 DEF InArena, StatInv, StatTypes
<1>3. PICK t \in [Intervals -> Stat] :
        /\ stat' = [stat EXCEPT ![p] = t] /\ \A i \in Intervals : Timed(stat[p][i], t[i])
        /\ t["forever"].started = 0
  <2>1. CASE carrying[p] > 0
    BY <1>1, <2>1, LostStats
  <2>2. CASE ~(carrying[p] > 0)
    <3>1. stat' = [stat EXCEPT ![p] = stat[p]] /\ stat[p] \in [Intervals -> Stat]
      BY <1>1, <2>2 DEF StatInv, StatTypes
    <3>2. \A i \in Intervals : Timed(stat[p][i], stat[p][i])
      BY DEF Timed, StatInv, StatTypes
    <3>3. stat[p]["forever"].started = 0
      BY <1>2, <2>2 DEF StatInv, TimersRun
    <3>4. PICK t : t = stat[p]
      OBVIOUS
    <3> QED
      BY <3>1, <3>2, <3>3, <3>4
  <2> QED
    BY <2>1, <2>2
<1>4. carrying' = [carrying EXCEPT ![p] = 0]
  BY <1>1 DEF Lost, StatInv, StatTypes
<1>5. /\ stat' \in [Players -> [Intervals -> Stat]]
      /\ stat'[p] = t /\ \A q \in Players \ {p} : stat'[q] = stat[q]
  BY <1>3 DEF StatInv, StatTypes
<1>6. PICK r : r = [i \in Intervals |-> Record(t[i])]
  OBVIOUS
<1>7. \A i \in Intervals : /\ r[i] \in [score : Int, time : Int]
                           /\ r[i].score = stat[p][i].score
                           /\ t[i].started = 0 => r[i] = [score |-> t[i].score, time |-> t[i].time]
  <2> TAKE i \in Intervals
  <2>1. PICK g \in Stat : g = GetData(t[i]) /\ (t[i].started = 0 => g = t[i])
    BY TimerIsUpdated DEF StatInv, StatTypes, Timed
  <2>2. r[i] = [score |-> t[i].score, time |-> g.time]
    BY <1>6, <2>1 DEF Record
  <2>3. t[i].score = stat[p][i].score /\ t[i].score \in Int /\ g.time \in Int
    BY <1>3, <2>1 DEF Timed, Stat
  <2> QED
    BY <2>1, <2>2, <2>3
<1>8. saved' = [saved EXCEPT ![p] = r] /\ r \in [Intervals -> [score : Int, time : Int]]
  <2>1. [i \in Intervals |-> Record(stat'[p][i])] = r
    BY <1>5, <1>6
  <2> QED
    BY <1>1, <1>6, <1>7, <2>1
<1>9. /\ saved' \in [Players -> [Intervals -> [score : Int, time : Int]]]
      /\ saved'[p] = r /\ \A q \in Players \ {p} : saved'[q] = saved[q] /\ carrying'[q] = carrying[q]
      /\ carrying' \in [Players -> Nat] /\ carrying'[p] = 0
  BY <1>4, <1>8 DEF StatInv, StatTypes
<1>10. StatTypes'
  BY <1>1, <1>5, <1>9 DEF StatInv, StatTypes, ghosts, Phases
<1>11. TimersRun'
  BY <1>1, <1>2, <1>5, <1>9 DEF StatInv, TimersRun
<1>12. OneIsCopied'
  BY <1>1 DEF OneIsCopied
<1>13. phase'[p] = "loggedin"
  BY <1>1 DEF StatInv, StatTypes
<1>14. PacketsFit' /\ ClientsHaveScores'
  BY <1>1, <1>2, <1>5, <1>13 DEF StatInv, PacketsFit, ClientsHaveScores
<1>15. Accounted(p)' /\ NoneTwice(p)'
  <2>1. Accounted(p) /\ NoneTwice(p)
    BY DEF StatInv
  <2>2. Timed(stat[p]["forever"], t["forever"]) /\ r["reset"].score = stat[p]["reset"].score
        /\ r["forever"] = [score |-> t["forever"].score, time |-> t["forever"].time]
    BY <1>3, <1>7 DEF Intervals
  <2>3. t["forever"].score = earned[p] /\ t["forever"].time = carried[p]
    BY <1>2, <1>3, <2>1, <2>2 DEF Accounted, Timed, Elapsed, Stat, Intervals
  <2>4. Accounted(p)'
    BY <1>1, <1>2, <1>9, <2>2, <2>3 DEF Accounted, ghosts
  <2>5. NoneTwice(p)'
    BY <1>1, <1>2, <1>9, <2>1, <2>2 DEF NoneTwice, Current, ghosts
  <2> QED
    BY <2>4, <2>5
<1>16. ASSUME NEW q \in Players, q # p PROVE Accounted(q)' /\ NoneTwice(q)'
  <2>1. Accounted(q) /\ NoneTwice(q)
    BY DEF StatInv
  <2>2. stat'[q] = stat[q] /\ saved'[q] = saved[q] /\ carrying'[q] = carrying[q]
    BY <1>5, <1>9, <1>16
  <2>3. Accounted(q)'
    BY <1>1, <1>2, <1>16, <2>1, <2>2 DEF Accounted, Elapsed, ghosts
  <2>4. NoneTwice(q)'
    BY <1>1, <1>2, <1>16, <2>1, <2>2 DEF NoneTwice, Current, ghosts
  <2> QED
    BY <2>3, <2>4
<1> QED
  BY <1>10, <1>11, <1>12, <1>14, <1>15, <1>16 DEF StatInv

LEMMA StatsStayStep ==
    ASSUME StatInv, NobodyArrives, NobodyEnters, UNCHANGED statvars
    PROVE  StatInv'
<1>1. StatTypes' /\ TimersRun' /\ OneIsCopied' /\ PacketsFit' /\ ClientsHaveScores'
  BY DEF StatInv, StatTypes, TimersRun, OneIsCopied, PacketsFit, ClientsHaveScores, NobodyArrives, NobodyEnters, statvars
<1>2. ASSUME NEW p \in Players PROVE Accounted(p)' /\ NoneTwice(p)'
  BY DEF StatInv, Accounted, NoneTwice, Current, Elapsed, NobodyArrives, statvars
<1> QED
  BY <1>1, <1>2 DEF StatInv

LEMMA StatsNext ==
    ASSUME StatInv, [Next]_vars
    PROVE  StatInv'
<1>1. \A p \in conf.players : p \in Players
  BY ClientsAssumption DEF StatInv, StatTypes
<1>2. ASSUME NEW p \in conf.players, Arrive(p) PROVE StatInv'
  BY <1>1, <1>2, StatsArriveStep DEF Arrive
<1>3. ASSUME NEW p \in conf.players, Leave(p) PROVE StatInv'
  BY <1>1, <1>3, StatsLeaveStep DEF Leave
<1>4. ASSUME NEW p \in conf.players, Enter(p), NobodyGoes PROVE StatInv'
  <2>1. StatsEnter(p) /\ phase[p] = "arriving" /\ NobodyArrives
    BY <1>4 DEF Enter, EnterCallbacks, NobodyGoes
  <2>2. \A q \in Players : phase'[q] = "playing" => phase[q] = "playing" \/ q = p
    BY <1>4 DEF Enter, EnterCallbacks, Goes, StatInv, StatTypes
  <2> QED
    BY <1>1, <2>1, <2>2, StatsEnterStep
<1>5. ASSUME StatsStep PROVE StatInv'
  BY <1>5, StatsStepStep
<1>6. ASSUME NobodyArrives, NobodyEnters, UNCHANGED statvars PROVE StatInv'
  BY <1>6, StatsStayStep
<1>7. \/ \E p \in conf.players : Arrive(p) \/ Leave(p) \/ Enter(p)
      \/ StatsStep
      \/ UNCHANGED statvars
  BY DEF Next, Login, Disconnect, Free, Coming, vars
<1>8. PhaseTypes
  BY DEF StatInv, StatTypes, PhaseTypes
<1>9. \/ \E p \in conf.players : Arrive(p) \/ Leave(p)
      \/ \E p \in conf.players : Enter(p) /\ NobodyGoes
      \/ NobodyArrives /\ NobodyEnters
  BY <1>8, PlayersMove DEF NobodyGoes
<1>10. CASE \E p \in conf.players : Enter(p)
  <2>1. \E p \in conf.players : Arrive(p) \/ Leave(p) \/ (Enter(p) /\ NobodyGoes)
    <3>1. PICK p \in conf.players : Enter(p)
      BY <1>10
    <3>2. NobodyGoes
      BY <1>1, <1>8, <3>1 DEF PhaseTypes, Enter, EnterCallbacks, Goes, NobodyGoes, NobodyArrives, Inside, Playing, InArena, Phases
    <3> QED
      BY <3>1, <3>2
  <2> QED
    BY <1>2, <1>3, <1>4, <2>1
<1> QED
  BY <1>2, <1>3, <1>4, <1>5, <1>6, <1>7, <1>9, <1>10

\* What the server has counted is in one place, and those who play have been told or will be.
THEOREM StatInvariant == Spec => []StatInv
<1>1. StatInv /\ [Next]_vars => StatInv'
  BY StatsNext
<1> QED
  BY <1>1, StatsBegin, PTL DEF Spec

\* Nothing that was scored is lost from the interval that never ends, or counted in two that
\* end, and every client has the scores of all or will be told: however players come, go and
\* score while the database thread ends an interval or somebody resets scores.
THEOREM ScoresStayRight == Spec => []ScoresAgree
<1>1. StatInv => ScoresAgree
  BY DEF StatInv, Accounted, NoneTwice, Current, Elapsed, ScoresAgree, CountedOnce
<1> QED
  BY <1>1, StatInvariant, PTL

----------------------------------------------------------------------------
(* The recordings.                                                         *)

GameEvents == {Event(t, p) : t \in {"enter", "leave", "other"}, p \in Players}
Queued == GameEvents \cup {Command("end")}

RecTypes ==
    /\ conf \in Configs /\ phase \in [Players -> Phases]
    /\ recstate \in {"none", "recording", "playing"} /\ fname \in Recordings
    /\ files \in [Recordings -> [done : BOOLEAN, events : Seq(GameEvents)]]
    /\ recthd \in {"none", "runs", "fails", "done"} /\ joining \in BOOLEAN
    /\ playthd \in {"none", "begins", "runs"} /\ place \in Nat /\ fakes \in Int
    /\ recthd = "runs" => mpq \in Seq(Queued)

\* There is a recorder while the state is recording, or somebody waits for its end; and a
\* playback while the state is playing.
ThreadsFit ==
    /\ recthd # "none" <=> recstate = "recording" \/ joining
    /\ joining => recstate = "none"
    /\ playthd # "none" <=> recstate = "playing"

\* What is in the file, and what will be.
Game == files[fname].events \o mpq

\* Nobody comes in twice, in what was and what will be written.
GamesAlternate ==
    /\ \A f \in Recordings : Alternate(files[f].events)
    /\ recthd = "runs" => Alternate(Game)

\* Who is in the arena after the first n events.
Present(events, n) ==
    {p \in Players : \E i \in 1 .. n :
        events[i] = Event("enter", p) /\ \A j \in i .. n : events[j] # Event("leave", p)}

\* The fake players of a playback are those of players who were there.
FakesFit ==
    /\ playthd = "runs" =>
          /\ place <= Len(files[fname].events)
          /\ pidmap \subseteq Present(files[fname].events, place) /\ fakes = Cardinality(pidmap)
    /\ playthd # "runs" => fakes = 0
    /\ playthd = "none" => ~lockspec

RecInv == RecTypes /\ ThreadsFit /\ GamesAlternate /\ FakesFit /\ RecordingFollowsArena

LEMMA EventKinds ==
    /\ \A t, u, p, q : Event(t, p) = Event(u, q) <=> t = u /\ p = q
    /\ \A t, p : Event(t, p).type = t /\ Event(t, p).pid = p
    /\ Command("end").type = "end"
BY DEF Event, Command

LEMMA QueuedKinds ==
    ASSUME NEW e \in Queued
    PROVE  /\ e \in GameEvents \/ e = Command("end")
           /\ e.type = "enter" => e.pid \in Players /\ e = Event("enter", e.pid)
BY EventKinds DEF Queued, GameEvents

LEMMA WithinIsPresent ==
    ASSUME NEW S, NEW s \in Seq(S)
    PROVE  Within(s) = Present(s, Len(s))
BY DEF Within, Present

LEMMA PresentNext ==
    ASSUME NEW S, NEW s \in Seq(S), NEW n \in Nat, n < Len(s), NEW p \in Players
    PROVE  p \in Present(s, n + 1) <=>
              \/ s[n + 1] = Event("enter", p)
              \/ p \in Present(s, n) /\ s[n + 1] # Event("leave", p)
<1>1. ASSUME p \in Present(s, n + 1), s[n + 1] # Event("enter", p)
      PROVE  p \in Present(s, n) /\ s[n + 1] # Event("leave", p)
  <2>1. PICK i \in 1 .. (n + 1) : s[i] = Event("enter", p) /\ \A j \in i .. (n + 1) : s[j] # Event("leave", p)
    BY <1>1 DEF Present
  <2>2. i \in 1 .. n
    BY <1>1, <2>1
  <2> QED
    BY <2>1, <2>2 DEF Present
<1>2. ASSUME p \in Present(s, n), s[n + 1] # Event("leave", p)
      PROVE  p \in Present(s, n + 1)
  <2>1. PICK i \in 1 .. n : s[i] = Event("enter", p) /\ \A j \in i .. n : s[j] # Event("leave", p)
    BY <1>2 DEF Present
  <2>2. \A j \in i .. (n + 1) : s[j] # Event("leave", p)
    BY <1>2, <2>1
  <2> QED
    BY <2>1, <2>2 DEF Present
<1>3. ASSUME s[n + 1] = Event("enter", p) PROVE p \in Present(s, n + 1)
  <2>1. n + 1 \in 1 .. (n + 1) /\ \A j \in (n + 1) .. (n + 1) : s[j] # Event("leave", p)
    BY <1>3, EventKinds
  <2> QED
    BY <1>3, <2>1 DEF Present
<1> QED
  BY <1>1, <1>2, <1>3

LEMMA PresentAppended ==
    ASSUME NEW S, NEW s \in Seq(S), NEW e \in S, NEW n \in Nat, n <= Len(s)
    PROVE  Present(Append(s, e), n) = Present(s, n)
<1>1. \A i \in 1 .. n : Append(s, e)[i] = s[i]
  BY AppendedLines
<1> QED
  BY <1>1 DEF Present

LEMMA AppendedWithin ==
    ASSUME NEW s \in Seq(Queued), NEW e \in Queued, NEW p \in Players
    PROVE  p \in Within(Append(s, e)) <=>
              \/ e = Event("enter", p)
              \/ p \in Within(s) /\ e # Event("leave", p)
<1>1. PICK t \in Seq(Queued) : t = Append(s, e)
  BY AppendedLines
<1>2. Len(t) = Len(s) + 1 /\ t[Len(s) + 1] = e /\ Len(s) \in Nat
  BY <1>1, AppendedLines
<1>3. Within(t) = Present(t, Len(s) + 1)
  <2>1. Within(t) = Present(t, Len(t))
    BY WithinIsPresent
  <2> QED
    BY <1>2, <2>1
<1>4. Within(s) = Present(s, Len(s))
  BY WithinIsPresent
<1>5. Present(t, Len(s)) = Present(s, Len(s))
  <2>1. Len(s) <= Len(s)
    BY <1>2
  <2> QED
    BY <1>1, <1>2, <2>1, PresentAppended
<1>6. PICK n \in Nat : n = Len(s)
  BY <1>2
<1>7. p \in Present(t, n + 1) <=>
         \/ t[n + 1] = Event("enter", p)
         \/ p \in Present(t, n) /\ t[n + 1] # Event("leave", p)
  BY <1>2, <1>6, PresentNext
<1> QED
  BY <1>1, <1>2, <1>3, <1>4, <1>5, <1>6, <1>7

LEMMA AppendedAlternate ==
    ASSUME NEW s \in Seq(Queued), NEW e \in Queued, Alternate(s),
           e.type = "enter" => e.pid \notin Within(s)
    PROVE  Alternate(Append(s, e))
<1> SUFFICES ASSUME NEW i \in 1 .. (Len(s) + 1), NEW j \in 1 .. (Len(s) + 1), i < j,
                    Append(s, e)[i].type = "enter", Append(s, e)[j] = Append(s, e)[i]
             PROVE  \E k \in i .. j : Append(s, e)[k] = Event("leave", Append(s, e)[i].pid)
  BY AppendedLines DEF Alternate
<1>1. i \in 1 .. Len(s) /\ Append(s, e)[i] = s[i] /\ DOMAIN s = 1 .. Len(s)
  BY AppendedLines
<1>2. CASE j \in 1 .. Len(s)
  <2>1. s[j] = s[i]
    BY <1>1, <1>2, AppendedLines
  <2>2. PICK k \in i .. j : s[k] = Event("leave", s[i].pid)
    BY <1>1, <1>2, <2>1 DEF Alternate
  <2>3. Append(s, e)[k] = s[k]
    BY <1>1, <1>2, <2>2, AppendedLines
  <2> QED
    BY <1>1, <2>2, <2>3
<1>3. CASE j = Len(s) + 1
  <2>1. s[i] = e /\ e.type = "enter" /\ e = Event("enter", e.pid) /\ e.pid \in Players
    BY <1>1, <1>3, AppendedLines, QueuedKinds
  <2>2. PICK k \in i .. Len(s) : s[k] = Event("leave", e.pid)
    BY <1>1, <2>1 DEF Within
  <2>3. Append(s, e)[k] = s[k] /\ k \in i .. j
    BY <1>1, <1>3, <2>2, AppendedLines
  <2> QED
    BY <1>1, <2>1, <2>2, <2>3
<1> QED
  BY <1>2, <1>3, AppendedLines

LEMMA WrittenIsKept ==
    ASSUME NEW s \in Seq(Queued), NEW q \in Seq(Queued), q # <<>>
    PROVE  Append(s, Head(q)) \o Tail(q) = s \o q
<1> DEFINE t == Append(s, Head(q)) \o Tail(q)
           u == s \o q
<1>1. /\ Len(t) = Len(s) + Len(q) /\ Len(u) = Len(s) + Len(q) /\ t \in Seq(Queued) /\ u \in Seq(Queued)
  OBVIOUS
<1>2. \A i \in 1 .. (Len(s) + Len(q)) : t[i] = u[i]
  OBVIOUS
<1> HIDE DEF t, u
<1>3. t = u
  BY <1>1, <1>2
<1> QED
  BY <1>3 DEF t, u

LEMMA QueuedLast ==
    ASSUME NEW s \in Seq(Queued), NEW q \in Seq(Queued), NEW e \in Queued
    PROVE  s \o Append(q, e) = Append(s \o q, e)
<1> DEFINE t == s \o Append(q, e)
           u == Append(s \o q, e)
<1>1. /\ Len(t) = Len(s) + Len(q) + 1 /\ Len(u) = Len(s) + Len(q) + 1 /\ t \in Seq(Queued) /\ u \in Seq(Queued)
  OBVIOUS
<1>2. \A i \in 1 .. (Len(s) + Len(q) + 1) : t[i] = u[i]
  OBVIOUS
<1> HIDE DEF t, u
<1>3. t = u
  BY <1>1, <1>2
<1> QED
  BY <1>3 DEF t, u

LEMMA AlternateBefore ==
    ASSUME NEW s \in Seq(Queued), NEW q \in Seq(Queued), Alternate(s \o q)
    PROVE  Alternate(s)
<1>1. /\ DOMAIN s = 1 .. Len(s) /\ DOMAIN (s \o q) = 1 .. (Len(s) + Len(q)) /\ Len(s) \in Nat /\ Len(q) \in Nat
      /\ \A i \in 1 .. Len(s) : (s \o q)[i] = s[i]
  OBVIOUS
<1> SUFFICES ASSUME NEW i \in 1 .. Len(s), NEW j \in 1 .. Len(s), i < j, s[i].type = "enter", s[j] = s[i]
             PROVE  \E k \in i .. j : s[k] = Event("leave", s[i].pid)
  BY <1>1 DEF Alternate
<1>2. PICK k \in i .. j : (s \o q)[k] = Event("leave", (s \o q)[i].pid)
  BY <1>1 DEF Alternate
<1> QED
  BY <1>1, <1>2

LEMMA PlayersAreListed ==
    ASSUME NEW S \in SUBSET Players
    PROVE  LET f == SetToSeq(S)
           IN  /\ Cardinality(S) \in Nat /\ f \in [1 .. Cardinality(S) -> S]
               /\ \A i, j \in 1 .. Cardinality(S) : f[i] = f[j] => i = j
               /\ \A p \in S : \E i \in 1 .. Cardinality(S) : f[i] = p
<1>1. IsFiniteSet(S)
  BY TransfersAssumption, FS_Subset
<1>2. Cardinality(S) \in Nat /\ ExistsBijection(1 .. Cardinality(S), S)
  BY <1>1, FS_CardinalityType
<1> DEFINE D == 1 .. Cardinality(S)
<1>3. \E f \in [D -> S] : IsInjective(f)
  BY <1>2 DEF ExistsBijection, Bijection, Injection, IsInjective
<1>4. PICK f \in [D -> S] : f = SetToSeq(S) /\ IsInjective(f)
  BY <1>3 DEF SetToSeq
<1>5. f \in Injection(D, S)
  BY <1>4 DEF Injection, IsInjective
<1>6. Cardinality(D) = Cardinality(S)
  BY <1>2, FS_Interval
<1>7. f \in Surjection(D, S)
  BY <1>1, <1>5, <1>6, FS_Injection
<1> QED
  BY <1>2, <1>4, <1>7 DEF Surjection, IsInjective

LEMMA RecordsBegin == Init => RecInv
<1> SUFFICES ASSUME Init PROVE RecInv
  OBVIOUS
<1>1. conf \in Configs /\ phase \in [Players -> Phases]
  BY DEF Init, ClientsInit, Phases
<1>2. /\ recstate = "none" /\ fname \in Recordings /\ files = [f \in Recordings |-> NoGame]
      /\ mpq = <<>> /\ recthd = "none" /\ joining = FALSE
      /\ playthd = "none" /\ place = 0 /\ paused = FALSE /\ pidmap = {} /\ fakes = 0
      /\ lockspec = FALSE
  BY DEF Init, RecorderInit
<1>3. NoGame.events = <<>> /\ NoGame \in [done : BOOLEAN, events : Seq(GameEvents)]
  BY DEF NoGame
<1>4. RecTypes
  <2>1. files \in [Recordings -> [done : BOOLEAN, events : Seq(GameEvents)]]
    BY <1>2, <1>3
  <2>2. /\ recstate \in {"none", "recording", "playing"} /\ fname \in Recordings
        /\ recthd \in {"none", "runs", "fails", "done"}
        /\ playthd \in {"none", "begins", "runs"} /\ place \in Nat /\ fakes \in Int /\ recthd # "runs"
    BY <1>2
  <2>3. joining \in BOOLEAN
    BY <1>2, Zenon
  <2> QED
    BY <1>1, <2>1, <2>2, <2>3 DEF RecTypes
<1>5. Alternate(<<>>)
  BY DEF Alternate
<1>6. ThreadsFit /\ GamesAlternate /\ FakesFit /\ RecordingFollowsArena
  BY <1>2, <1>3, <1>5 DEF ThreadsFit, GamesAlternate, FakesFit, RecordingFollowsArena
<1> QED
  BY <1>4, <1>6 DEF RecInv

LEMMA GameFits ==
    ASSUME RecInv
    PROVE  /\ files[fname].events \in Seq(Queued) /\ files[fname].events \in Seq(GameEvents)
           /\ Alternate(files[fname].events)
           /\ recthd = "runs" => Game \in Seq(Queued) /\ mpq \in Seq(Queued) /\ Alternate(Game)
<1>1. files[fname].events \in Seq(GameEvents)
  BY DEF RecInv, RecTypes
<1>2. files[fname].events \in Seq(Queued)
  BY <1>1 DEF Queued
<1> QED
  BY <1>1, <1>2 DEF RecInv, RecTypes, GamesAlternate, Game

LEMMA RecordsStayStep ==
    ASSUME RecInv, NobodyArrives, NobodyEnters, UNCHANGED recvars
    PROVE  RecInv'
<1>1. RecTypes' /\ ThreadsFit'
  BY DEF RecInv, RecTypes, ThreadsFit, NobodyArrives, recvars
<1>2. GamesAlternate' /\ FakesFit'
  BY DEF RecInv, GamesAlternate, Game, FakesFit, recvars
<1>3. RecordingFollowsArena'
  BY DEF RecInv, RecordingFollowsArena, NobodyArrives, NobodyEnters, recvars
<1> QED
  BY <1>1, <1>2, <1>3 DEF RecInv

\* A callback: p comes, goes, or does something.
LEMMA CallbackStep ==
    ASSUME RecInv, NEW p \in Players, NEW action \in {"enter", "leave", "other"}, Records(p, action),
           UNCHANGED conf, phase' \in [Players -> Phases], \A q \in Players \ {p} : phase'[q] = phase[q],
           action = "enter" => phase[p] = "arriving" /\ phase'[p] \in {"playing", "leaving"},
           action = "leave" => phase'[p] = "loggedin",
           action = "other" => phase'[p] = phase[p]
    PROVE  RecInv'
<1> DEFINE e == Event(action, p)
<1>1. e \in Queued /\ e.type = action /\ e.pid = p
  BY EventKinds DEF Queued, GameEvents
<1>2. /\ UNCHANGED <<recstate, fname, files, recthd, joining, playthd, place, paused, pidmap, fakes, lockspec>>
      /\ recstate = "recording" => mpq' = Append(mpq, e)
      /\ recstate # "recording" => mpq' = mpq
  BY DEF Records
<1>0. CASE recstate # "recording"
  <2>1. UNCHANGED recvars
    BY <1>0, <1>2 DEF recvars
  <2>2. RecTypes' /\ ThreadsFit' /\ RecordingFollowsArena'
    BY <1>0, <2>1 DEF RecInv, RecTypes, ThreadsFit, RecordingFollowsArena, recvars
  <2>3. GamesAlternate' /\ FakesFit'
    BY <2>1 DEF RecInv, GamesAlternate, Game, FakesFit, recvars
  <2> QED
    BY <2>2, <2>3 DEF RecInv
<1> SUFFICES ASSUME recstate = "recording" PROVE RecInv'
  BY <1>0
<1>3. ~joining /\ recstate = "recording"
  BY DEF RecInv, RecTypes, ThreadsFit
<1> HIDE DEF e
<1>4. ASSUME recthd = "runs"
      PROVE  /\ mpq' \in Seq(Queued) /\ Game' = Append(Game, e)
             /\ Game \in Seq(Queued) /\ Alternate(Game)
             /\ {q \in Players : phase[q] = "playing"} \subseteq Within(Game)
             /\ Within(Game) \subseteq {q \in Players : phase[q] \in {"playing", "leaving"}}
  <2>1. mpq' \in Seq(Queued)
    BY <1>1, <1>2, <1>3, <1>4, GameFits, AppendedLines
  <2>2. Game' = Append(Game, e)
    BY <1>1, <1>2, <1>3, <1>4, GameFits, QueuedLast DEF Game
  <2> QED
    BY <1>3, <1>4, <2>1, <2>2, GameFits DEF RecInv, RecordingFollowsArena, Game
<1>5. RecTypes' /\ ThreadsFit'
  BY <1>2, <1>4 DEF RecInv, RecTypes, ThreadsFit
<1>6. ASSUME recthd = "runs" PROVE Alternate(Game)'
  <2>1. action = "enter" => p \notin Within(Game)
    BY <1>4, <1>6
  <2> QED
    BY <1>1, <1>4, <1>6, <2>1, AppendedAlternate
<1>7. GamesAlternate' /\ FakesFit'
  BY <1>2, <1>6 DEF RecInv, GamesAlternate, FakesFit
<1>8. ASSUME recthd = "runs", NEW q \in Players
      PROVE  q \in Within(Game)' <=> (q = p /\ action = "enter") \/ (q \in Within(Game) /\ ~(q = p /\ action = "leave"))
  <2>1. Within(Game)' = Within(Append(Game, e))
    <3>1. Game' = Append(Game, e)
      BY <1>4, <1>8
    <3> QED
      BY <3>1 DEF Within
  <2>2. /\ e = Event("enter", q) <=> (q = p /\ action = "enter")
        /\ e = Event("leave", q) <=> (q = p /\ action = "leave")
    BY EventKinds DEF e
  <2> QED
    BY <1>1, <1>4, <1>8, <2>1, <2>2, AppendedWithin
<1>9. ASSUME recthd = "runs", NEW q \in Players
      PROVE  /\ phase'[q] = "playing" => q \in Within(Game)'
             /\ q \in Within(Game)' => phase'[q] \in {"playing", "leaving"}
  <2>1. CASE q = p
    <3>1. CASE action = "enter"
      BY <1>8, <1>9, <2>1, <3>1
    <3>2. CASE action = "leave"
      BY <1>8, <1>9, <2>1, <3>2
    <3>3. CASE action = "other"
      BY <1>4, <1>8, <1>9, <2>1, <3>3
    <3> QED
      BY <3>1, <3>2, <3>3
  <2>2. CASE q # p
    BY <1>4, <1>8, <1>9, <2>2
  <2> QED
    BY <2>1, <2>2
<1>10. RecordingFollowsArena'
  <2>1. ASSUME recthd' = "runs"
        PROVE  /\ {q \in Players : phase[q] = "playing"}' \subseteq Within(Game)'
               /\ Within(Game)' \subseteq {q \in Players : phase[q] \in {"playing", "leaving"}}'
               /\ Alternate(Game)'
    <3>1. recthd = "runs"
      BY <1>2, <2>1
    <3>2. Within(Game)' \subseteq Players
      BY DEF Within
    <3> QED
      BY <1>6, <1>9, <3>1, <3>2
  <2> QED
    BY <2>1 DEF RecordingFollowsArena, Game
<1> QED
  BY <1>5, <1>7, <1>10 DEF RecInv

\* The recorder is started: it writes first who is there.
LEMMA StartRecordingStep ==
    ASSUME RecInv, StartRecording
    PROVE  RecInv'
<1>1. PICK f \in Recordings :
        fname' = f /\ files' = [files EXCEPT ![f] = [done |-> FALSE, events |-> CurrentPlayers]]
  BY DEF StartRecording
<1>2. /\ MainRuns /\ \A p \in Players : phase[p] # "arriving"
      /\ recstate = "none" /\ recstate' = "recording" /\ mpq' = <<>> /\ recthd' = "runs"
      /\ UNCHANGED <<conf, phase, joining, playthd, place, paused, pidmap, fakes, lockspec>>
  BY DEF StartRecording, MayCommand, clientvars
<1> DEFINE here == {p \in Players : phase[p] \in {"arriving", "playing"}}
           n == Cardinality(here)
<1>3. PICK g : g = SetToSeq(here)
  OBVIOUS
<1>4. /\ n \in Nat /\ g \in [1 .. n -> here]
      /\ \A i, j \in 1 .. n : g[i] = g[j] => i = j
      /\ \A p \in here : \E i \in 1 .. n : g[i] = p
  BY <1>3, PlayersAreListed
<1>5. PICK s : s = CurrentPlayers
  OBVIOUS
<1>6. s = [i \in 1 .. n |-> Event("enter", g[i])]
  BY <1>3, <1>5 DEF CurrentPlayers
<1>7. \A p \in Players : p \in here <=> phase[p] = "playing"
  BY <1>2
<1>8. here \subseteq Players
  OBVIOUS
<1> HIDE DEF here
<1>9. s \in Seq(GameEvents) /\ Len(s) = n /\ DOMAIN s = 1 .. n
  <2>1. \A i \in 1 .. n : Event("enter", g[i]) \in GameEvents
    BY <1>4, <1>8 DEF GameEvents
  <2>2. s \in [1 .. n -> GameEvents]
    BY <1>6, <2>1
  <2> QED
    BY <1>4, <2>2
<1>10. Within(s) = here
  <2>1. ASSUME NEW p \in here PROVE p \in Within(s)
    <3>1. PICK i \in 1 .. n : g[i] = p
      BY <1>4
    <3>2. s[i] = Event("enter", p) /\ \A j \in i .. Len(s) : s[j] # Event("leave", p)
      BY <1>4, <1>6, <1>9, <3>1, EventKinds
    <3> QED
      BY <1>8, <1>9, <3>2 DEF Within
  <2>2. ASSUME NEW p \in Within(s) PROVE p \in here
    <3>1. PICK i \in 1 .. n : s[i] = Event("enter", p)
      BY <1>9 DEF Within
    <3>2. g[i] = p
      BY <1>6, <3>1, EventKinds
    <3> QED
      BY <1>4, <3>2
  <2> QED
    BY <2>1, <2>2
<1>11. Alternate(s)
  <2> SUFFICES ASSUME NEW i \in 1 .. n, NEW j \in 1 .. n, i < j, s[i] = s[j] PROVE FALSE
    BY <1>9 DEF Alternate
  <2>1. g[i] = g[j]
    BY <1>6, EventKinds
  <2> QED
    BY <1>4, <2>1
<1>12. files'[f].events = s /\ \A h \in Recordings \ {f} : files'[h] = files[h]
  BY <1>1, <1>5 DEF RecInv, RecTypes
<1>13. files' \in [Recordings -> [done : BOOLEAN, events : Seq(GameEvents)]]
  BY <1>1, <1>5, <1>9 DEF RecInv, RecTypes
<1>14. Game' = s
  <2>1. Game' = s \o <<>>
    BY <1>1, <1>2, <1>12 DEF Game
  <2> QED
    BY <1>9, <2>1
<1>15. RecTypes' /\ ThreadsFit'
  BY <1>1, <1>2, <1>13 DEF RecInv, RecTypes, ThreadsFit, MainRuns
<1>16. GamesAlternate'
  <2>1. Alternate(Game)'
    BY <1>11, <1>14
  <2>2. ASSUME NEW h \in Recordings PROVE Alternate(files[h].events)'
    <3>1. CASE h = f
      BY <1>11, <1>12, <3>1
    <3>2. CASE h # f
      BY <1>12, <3>2 DEF RecInv, GamesAlternate
    <3> QED
      BY <3>1, <3>2
  <2> QED
    BY <2>1, <2>2 DEF GamesAlternate
<1>17. FakesFit'
  BY <1>2 DEF RecInv, RecTypes, ThreadsFit, FakesFit
<1>18. RecordingFollowsArena'
  <2>1. Within(Game)' = here
    <3>1. Within(Game)' = Within(s)
      BY <1>14 DEF Within
    <3> QED
      BY <1>10, <3>1
  <2>2. Alternate(Game)'
    BY <1>11, <1>14
  <2> QED
    BY <1>2, <1>7, <1>8, <2>1, <2>2 DEF RecordingFollowsArena, Game
<1> QED
  BY <1>15, <1>16, <1>17, <1>18 DEF RecInv

\* The recorder writes an event, or cannot, or comes to the end.
LEMMA RecorderThreadStep ==
    ASSUME RecInv, RecorderThread
    PROVE  RecInv'
<1> DEFINE e == Head(mpq)
           s == files[fname].events
<1>1. /\ UNCHANGED <<conf, phase, recstate, fname, joining, playthd, place, paused, pidmap, fakes, lockspec>>
      /\ recthd = "runs" /\ mpq # <<>> /\ mpq' = Tail(mpq) /\ playthd = "none"
  BY DEF RecorderThread, clientvars, RecInv, RecTypes, ThreadsFit
<1>2. mpq \in Seq(Queued) /\ mpq' \in Seq(Queued) /\ e \in Queued /\ s \in Seq(Queued) /\ s \in Seq(GameEvents)
      /\ Alternate(Game) /\ Game = s \o mpq
  BY <1>1, GameFits DEF Game
<1>3. FakesFit'
  BY <1>1 DEF RecInv, FakesFit
<1>4. ASSUME recthd' \in {"done", "fails"}, UNCHANGED files PROVE RecInv'
  <2>1. RecTypes' /\ ThreadsFit' /\ GamesAlternate' /\ RecordingFollowsArena'
    BY <1>1, <1>4 DEF RecInv, RecTypes, ThreadsFit, GamesAlternate, RecordingFollowsArena
  <2> QED
    BY <1>3, <2>1 DEF RecInv
<1>5. ASSUME e # Command("end"), files' = [files EXCEPT ![fname].events = Append(@, e)], UNCHANGED recthd
      PROVE  RecInv'
  <2>1. e \in GameEvents
    BY <1>2, <1>5 DEF Queued
  <2>2. PICK t : t = Append(s, e)
    OBVIOUS
  <2>3. t \in Seq(GameEvents) /\ t \in Seq(Queued)
    BY <1>2, <2>1, <2>2, AppendedLines
  <2>4. files' = [files EXCEPT ![fname].events = t]
    BY <1>5, <2>2
  <2>5. /\ files' \in [Recordings -> [done : BOOLEAN, events : Seq(GameEvents)]]
        /\ files'[fname].events = t
        /\ \A f \in Recordings \ {fname} : files'[f] = files[f]
    BY <2>3, <2>4 DEF RecInv, RecTypes
  <2>6. Game' = Game
    <3>1. Append(s, e) \o Tail(mpq) = s \o mpq
      BY <1>1, <1>2, WrittenIsKept
    <3> QED
      BY <1>1, <1>2, <2>2, <2>5, <3>1 DEF Game
  <2>7. Alternate(t)
    <3>1. t \o Tail(mpq) = Game
      BY <1>1, <1>2, <2>2, WrittenIsKept
    <3> QED
      BY <1>1, <1>2, <2>3, <3>1, AlternateBefore
  <2>8. RecTypes' /\ ThreadsFit'
    BY <1>1, <1>2, <1>5, <2>5 DEF RecInv, RecTypes, ThreadsFit
  <2>9. GamesAlternate'
    <3>1. Alternate(Game)'
      BY <1>2, <2>6
    <3>2. ASSUME NEW h \in Recordings PROVE Alternate(files[h].events)'
      <4>1. CASE h = fname
        BY <2>5, <2>7, <4>1
      <4>2. CASE h # fname
        BY <2>5, <4>2 DEF RecInv, GamesAlternate
      <4> QED
        BY <4>1, <4>2
    <3> QED
      BY <3>1, <3>2 DEF GamesAlternate
  <2>10. RecordingFollowsArena'
    <3>1. Within(Game)' = Within(Game)
      BY <2>6 DEF Within
    <3>2. Alternate(Game)'
      BY <1>2, <2>6
    <3> QED
      BY <1>1, <1>5, <3>1, <3>2 DEF RecInv, RecordingFollowsArena, Game
  <2> QED
    BY <1>3, <2>8, <2>9, <2>10 DEF RecInv
<1> QED
  BY <1>4, <1>5 DEF RecorderThread

\* The end of a recording.
LEMMA StopSteps ==
    ASSUME RecInv, StopRecording \/ StopJoins \/ Suicide
    PROVE  RecInv'
<1>1. UNCHANGED <<conf, phase, fname, playthd, place, paused, pidmap, fakes, lockspec>>
  BY DEF StopRecording, StopJoins, Suicide, clientvars
<1>2. CASE StopRecording
  <2>1. /\ recstate = "recording" /\ recstate' = "none" /\ joining' = TRUE /\ ~joining
        /\ mpq' = Append(mpq, Command("end")) /\ UNCHANGED <<files, recthd>> /\ playthd = "none"
    BY <1>2 DEF StopRecording, MayCommand, MainRuns, RecInv, RecTypes, ThreadsFit
  <2>2. ASSUME recthd = "runs" PROVE mpq' \in Seq(Queued) /\ Alternate(Game)'
    <3>1. Command("end") \in Queued /\ Command("end").type # "enter"
      BY EventKinds DEF Queued
    <3>2. mpq' \in Seq(Queued)
      BY <2>1, <2>2, <3>1, GameFits, AppendedLines
    <3>3. Game' = Append(Game, Command("end"))
      BY <1>1, <2>1, <2>2, <3>1, GameFits, QueuedLast DEF Game
    <3>4. Alternate(Append(Game, Command("end")))
      BY <2>2, <3>1, GameFits, AppendedAlternate
    <3> QED
      BY <3>2, <3>3, <3>4
  <2>3. RecTypes' /\ ThreadsFit'
    BY <1>1, <2>1, <2>2 DEF RecInv, RecTypes, ThreadsFit
  <2>4. GamesAlternate' /\ FakesFit' /\ RecordingFollowsArena'
    BY <1>1, <2>1, <2>2 DEF RecInv, GamesAlternate, FakesFit, RecordingFollowsArena
  <2> QED
    BY <2>3, <2>4 DEF RecInv
<1>3. CASE StopJoins \/ Suicide
  <2>1. /\ files' \in {files, [files EXCEPT ![fname].done = TRUE]}
        /\ mpq' = <<>> /\ recthd' = "none" /\ playthd = "none"
        /\ recstate' = "none" /\ joining' = FALSE
    BY <1>3 DEF StopJoins, Suicide, Finished, RecInv, RecTypes, ThreadsFit
  <2>2. /\ files' \in [Recordings -> [done : BOOLEAN, events : Seq(GameEvents)]]
        /\ \A f \in Recordings : files'[f].events = files[f].events
    <3>1. CASE files' = files
      BY <3>1 DEF RecInv, RecTypes
    <3>2. CASE files' = [files EXCEPT ![fname].done = TRUE]
      <4>1. PICK g : g = [files[fname] EXCEPT !.done = TRUE]
        OBVIOUS
      <4>2. g \in [done : BOOLEAN, events : Seq(GameEvents)] /\ g.events = files[fname].events
        BY <4>1 DEF RecInv, RecTypes
      <4>3. files' = [files EXCEPT ![fname] = g]
        BY <3>2, <4>1 DEF RecInv, RecTypes
      <4> QED
        BY <4>2, <4>3 DEF RecInv, RecTypes
    <3> QED
      BY <2>1, <3>1, <3>2
  <2>3. RecTypes' /\ ThreadsFit'
    BY <1>1, <2>1, <2>2 DEF RecInv, RecTypes, ThreadsFit
  <2>4. GamesAlternate' /\ FakesFit' /\ RecordingFollowsArena'
    BY <1>1, <2>1, <2>2 DEF RecInv, GamesAlternate, FakesFit, RecordingFollowsArena
  <2> QED
    BY <2>3, <2>4 DEF RecInv
<1> QED
  BY <1>2, <1>3

\* What is played back is read.
LEMMA ReplayStep ==
    ASSUME RecInv, playthd = "runs", place # Len(files[fname].events),
           Replay(files[fname].events[place + 1]), place' = place + 1,
           UNCHANGED <<fname, files, playthd, lockspec>>
    PROVE  FakesFit' /\ fakes' \in Int
<1> DEFINE s == files[fname].events
           e == s[place + 1]
<1>1. /\ s \in Seq(GameEvents) /\ Alternate(s) /\ place \in Nat /\ place < Len(s) /\ Len(s) \in Nat
      /\ pidmap \subseteq Present(s, place) /\ fakes = Cardinality(pidmap)
  BY GameFits DEF RecInv, RecTypes, FakesFit
<1>2. Present(s, place) \subseteq Players
  BY DEF Present
<1>3. IsFiniteSet(pidmap)
  BY <1>1, <1>2, TransfersAssumption, FS_Subset
<1>4. Cardinality(pidmap) \in Int
  BY <1>3, FS_CardinalityType
<1>5. PICK t \in {"enter", "leave", "other"}, p \in Players : e = Event(t, p)
  BY <1>1 DEF GameEvents
<1>6. e.type = t /\ e.pid = p
  BY <1>5, EventKinds
<1>7. \A q \in Players : q \in Present(s, place + 1) <=>
         \/ e = Event("enter", q)
         \/ q \in Present(s, place) /\ e # Event("leave", q)
  BY <1>1, PresentNext
<1>8. \A q \in Players : q \in Present(s, place + 1) <=>
         \/ (t = "enter" /\ q = p)
         \/ (q \in Present(s, place) /\ ~(t = "leave" /\ q = p))
  BY <1>5, <1>7, EventKinds
<1> HIDE DEF e
<1>9. pidmap' \subseteq Present(s, place + 1) /\ fakes' = Cardinality(pidmap') /\ fakes' \in Int
  <2>1. CASE t = "enter"
    <3>1. p \notin pidmap
      <4> SUFFICES ASSUME p \in Present(s, place) PROVE FALSE
        BY <1>1
      <4>1. PICK i \in 1 .. place : s[i] = Event("enter", p) /\ \A j \in i .. place : s[j] # Event("leave", p)
        BY DEF Present
      <4>2. /\ i \in DOMAIN s /\ place + 1 \in DOMAIN s /\ i < place + 1 /\ s[place + 1] = s[i]
            /\ s[i].type = "enter" /\ s[i].pid = p
        BY <1>1, <1>5, <2>1, <4>1, EventKinds DEF e
      <4>3. PICK k \in i .. (place + 1) : s[k] = Event("leave", p)
        BY <1>1, <4>2 DEF Alternate
      <4>4. k = place + 1
        BY <1>1, <4>1, <4>3
      <4> QED
        BY <4>1, <4>2, <4>3, <4>4, EventKinds
    <3>2. (pidmap' = pidmap \cup {p} /\ fakes' = fakes + 1) \/ UNCHANGED <<pidmap, fakes>>
      BY <1>6, <2>1 DEF Replay, e
    <3>3. Cardinality(pidmap \cup {p}) = Cardinality(pidmap) + 1
      BY <1>3, <3>1, FS_AddElement
    <3>4. pidmap' \subseteq Present(s, place + 1)
      BY <1>1, <1>2, <1>8, <2>1, <3>2
    <3>5. fakes' = Cardinality(pidmap')
      <4>1. CASE pidmap' = pidmap \cup {p} /\ fakes' = fakes + 1
        BY <1>1, <3>3, <4>1
      <4>2. CASE UNCHANGED <<pidmap, fakes>>
        BY <1>1, <4>2
      <4> QED
        BY <3>2, <4>1, <4>2
    <3>6. fakes' \in Int
      BY <1>1, <1>4, <3>2
    <3> QED
      BY <3>4, <3>5, <3>6
  <2>2. CASE t = "leave"
    <3>1. fakes' = (IF p \in pidmap THEN fakes - 1 ELSE fakes) /\ pidmap' = pidmap \ {p}
      BY <1>6, <2>2 DEF Replay, e
    <3>2. Cardinality(pidmap \ {p}) = IF p \in pidmap THEN Cardinality(pidmap) - 1 ELSE Cardinality(pidmap)
      BY <1>3, FS_RemoveElement
    <3>3. pidmap' \subseteq Present(s, place + 1)
      BY <1>1, <1>2, <1>8, <2>2, <3>1
    <3> QED
      BY <1>1, <1>4, <3>1, <3>2, <3>3
  <2>3. CASE t = "other"
    <3>1. UNCHANGED <<pidmap, fakes>>
      BY <1>6, <2>3 DEF Replay, e
    <3>2. pidmap' \subseteq Present(s, place + 1)
      BY <1>1, <1>2, <1>8, <2>3, <3>1
    <3> QED
      BY <1>1, <1>4, <3>1, <3>2
  <2> QED
    BY <2>1, <2>2, <2>3
<1>10. place + 1 <= Len(s)
  BY <1>1
<1>11. Present(files[fname].events, place)' = Present(s, place + 1)
  BY DEF Present
<1> QED
  BY <1>9, <1>10, <1>11 DEF FakesFit

LEMMA PlaybackSteps ==
    ASSUME RecInv, StartPlayback \/ Tell \/ PlaybackBegins \/ PlaybackObeys \/ PlaybackThread
    PROVE  RecInv'
<1>1. /\ UNCHANGED <<conf, phase, files, recthd, joining>>
      /\ recthd = "none" /\ recthd' = "none" /\ recstate # "recording" /\ ~joining
  BY DEF StartPlayback, Tell, PlaybackBegins, PlaybackObeys, PlaybackThread, clientvars, MayCommand, MainRuns,
     RecInv, RecTypes, ThreadsFit
<1>2. /\ place \in Nat /\ fakes \in Int /\ recstate \in {"none", "recording", "playing"} /\ fname \in Recordings
      /\ playthd \in {"none", "begins", "runs"} /\ (playthd # "none" <=> recstate = "playing")
      /\ FakesFit
  BY DEF RecInv, RecTypes, ThreadsFit
<1>3. /\ recstate' \in {"none", "playing"} /\ fname' \in Recordings /\ playthd' \in {"none", "begins", "runs"}
      /\ (playthd' # "none" <=> recstate' = "playing")
      /\ place' \in Nat /\ fakes' \in Int /\ FakesFit'
  <2>1. CASE StartPlayback
    BY <1>1, <1>2, <2>1 DEF StartPlayback, FakesFit
  <2>2. CASE Tell
    BY <1>1, <1>2, <2>2 DEF Tell, FakesFit, Present
  <2>3. CASE PlaybackBegins
    <3>1. Cardinality({}) = 0
      BY FS_EmptySet
    <3>2. 0 <= Len(files[fname].events)
      BY GameFits
    <3> QED
      BY <1>1, <1>2, <2>3, <3>1, <3>2 DEF PlaybackBegins, FakesFit
  <2>4. ASSUME playthd = "runs", Out, UNCHANGED <<fname, files>>
        PROVE  /\ recstate' \in {"none", "playing"} /\ fname' \in Recordings /\ playthd' \in {"none", "begins", "runs"}
               /\ (playthd' # "none" <=> recstate' = "playing")
               /\ place' \in Nat /\ fakes' \in Int /\ FakesFit'
    BY <1>2, <2>4 DEF Out, FakesFit
  <2>5. CASE PlaybackObeys
    <3>1. CASE Head(mpq) = Command("stop")
      BY <2>4, <2>5, <3>1 DEF PlaybackObeys
    <3>2. CASE Head(mpq) # Command("stop")
      <4>1. UNCHANGED <<recstate, playthd, place, pidmap, fakes, lockspec, fname, files>> /\ playthd = "runs"
        BY <2>5, <3>2 DEF PlaybackObeys
      <4> QED
        BY <1>1, <1>2, <4>1 DEF FakesFit, Present
    <3> QED
      BY <3>1, <3>2
  <2>6. CASE PlaybackThread
    <3>1. CASE place = Len(files[fname].events)
      BY <2>4, <2>6, <3>1 DEF PlaybackThread
    <3>2. CASE place # Len(files[fname].events)
      <4>1. /\ UNCHANGED <<recstate, playthd, lockspec, fname, files>> /\ playthd = "runs"
            /\ Replay(files[fname].events[place + 1]) /\ place' = place + 1
        BY <2>6, <3>2 DEF PlaybackThread
      <4>2. FakesFit' /\ fakes' \in Int
        BY <3>2, <4>1, ReplayStep
      <4> QED
        BY <1>1, <1>2, <4>1, <4>2
    <3> QED
      BY <3>1, <3>2
  <2> QED
    BY <2>1, <2>2, <2>3, <2>5, <2>6
<1>4. RecTypes' /\ ThreadsFit' /\ GamesAlternate' /\ RecordingFollowsArena'
  BY <1>1, <1>3 DEF RecInv, RecTypes, ThreadsFit, GamesAlternate, RecordingFollowsArena
<1> QED
  BY <1>3, <1>4 DEF RecInv

LEMMA RecorderSteps ==
    ASSUME RecInv, RecorderStep
    PROVE  RecInv'
<1>1. CASE \E p \in Players : Happens(p)
  <2>1. PICK p \in Players : Happens(p)
    BY <1>1
  <2>2. Records(p, "other") /\ UNCHANGED <<conf, phase>>
    BY <2>1 DEF Happens, MayCommand, clientvars
  <2>3. phase' \in [Players -> Phases]
    BY <2>2 DEF RecInv, RecTypes
  <2> QED
    BY <2>2, <2>3, CallbackStep
<1> QED
  BY <1>1, StartRecordingStep, RecorderThreadStep, StopSteps, PlaybackSteps DEF RecorderStep

LEMMA RecordsNext ==
    ASSUME RecInv, [Next]_vars
    PROVE  RecInv'
<1>1. \A p \in conf.players : p \in Players
  BY ClientsAssumption DEF RecInv, RecTypes
<1>2. ASSUME NEW p \in conf.players, Enter(p) PROVE RecInv'
  <2>1. Records(p, "enter") /\ EnterCallbacks(p) /\ p \in Players
    BY <1>1, <1>2 DEF Enter
  <2>2. /\ UNCHANGED conf /\ phase' \in [Players -> Phases] /\ \A q \in Players \ {p} : phase'[q] = phase[q]
        /\ phase[p] = "arriving" /\ phase'[p] \in {"playing", "leaving"}
    BY <2>1 DEF EnterCallbacks, Goes, Phases, RecInv, RecTypes
  <2> QED
    BY <1>2, <2>1, <2>2, CallbackStep
<1>3. ASSUME NEW p \in conf.players, Leave(p) PROVE RecInv'
  <2>1. Records(p, "leave") /\ LeaveCallbacks(p) /\ p \in Players
    BY <1>1, <1>3 DEF Leave
  <2>2. /\ UNCHANGED conf /\ phase' \in [Players -> Phases] /\ \A q \in Players \ {p} : phase'[q] = phase[q]
        /\ phase'[p] = "loggedin"
    BY <2>1 DEF LeaveCallbacks, Goes, Phases, RecInv, RecTypes
  <2> QED
    BY <1>3, <2>1, <2>2, CallbackStep
<1>4. ASSUME NEW p \in conf.players, Arrive(p) PROVE RecInv'
  <2>1. Arrives(p) /\ UNCHANGED recvars /\ p \in Players
    BY <1>1, <1>4 DEF Arrive
  <2>2. /\ UNCHANGED conf /\ phase' \in [Players -> Phases] /\ \A q \in Players \ {p} : phase'[q] = phase[q]
        /\ phase[p] = "loggedin" /\ phase'[p] = "arriving"
    BY <2>1 DEF Arrives, Goes, Phases, RecInv, RecTypes
  <2>3. RecTypes' /\ ThreadsFit'
    BY <2>1, <2>2 DEF RecInv, RecTypes, ThreadsFit, recvars
  <2>5. GamesAlternate' /\ FakesFit'
    BY <2>1 DEF RecInv, GamesAlternate, Game, FakesFit, recvars
  <2>6. /\ {q \in Players : phase'[q] = "playing"} = {q \in Players : phase[q] = "playing"}
        /\ {q \in Players : phase'[q] \in {"playing", "leaving"}}
               = {q \in Players : phase[q] \in {"playing", "leaving"}}
    BY <2>1, <2>2
  <2>7. UNCHANGED <<recstate, recthd, files, fname, mpq>>
    BY <2>1 DEF recvars
  <2>8. RecordingFollowsArena
    BY DEF RecInv
  <2> HIDE <2>1, <2>2
  <2>4. RecordingFollowsArena'
    <3> DEFINE Events == files[fname].events \o mpq
    <3>1. Events' = Events
      BY <2>7
    <3>2. Within(Events') = Within(Events) /\ Alternate(Events') = Alternate(Events)
      BY <3>1
    <3> QED
      BY <2>6, <2>7, <2>8, <3>2 DEF RecordingFollowsArena
  <2> QED
    BY <2>3, <2>4, <2>5 DEF RecInv
<1>5. ASSUME RecorderStep PROVE RecInv'
  BY <1>5, RecorderSteps
<1>6. ASSUME NobodyArrives, NobodyEnters, UNCHANGED recvars PROVE RecInv'
  BY <1>6, RecordsStayStep
<1>7. \/ \E p \in conf.players : Arrive(p) \/ Leave(p) \/ Enter(p)
      \/ RecorderStep
      \/ UNCHANGED recvars
  BY DEF Next, Login, Disconnect, Free, Coming, vars
<1>8. PhaseTypes
  BY DEF RecInv, RecTypes, PhaseTypes
<1>9. \/ \E p \in conf.players : Arrive(p) \/ Leave(p) \/ Enter(p)
      \/ NobodyArrives /\ NobodyEnters
  BY <1>8, PlayersMove DEF NobodyGoes
<1>10. CASE \E p \in conf.players : Arrive(p) \/ Leave(p) \/ Enter(p)
  BY <1>2, <1>3, <1>4, <1>10
<1> QED
  BY <1>5, <1>6, <1>7, <1>9, <1>10

\* A recording begins with who is there and follows them, and a playback has the players of
\* its recording.
THEOREM RecorderInvariant == Spec => []RecInv
<1>1. RecInv /\ [Next]_vars => RecInv'
  BY RecordsNext
<1> QED
  BY <1>1, RecordsBegin, PTL DEF Spec

\* A recording brings in exactly the players that the arena has, and nobody twice, so that a
\* playback leaves no fake player behind: however players come and go while recordings and
\* playbacks are started and stopped, disks fill up and threads are waited for.
THEOREM RecordingsStayRight == Spec => []RecordingsAgree
<1>1. RecInv => RecordingsAgree
  BY DEF RecInv, RecTypes, FakesFit, RecordingsAgree, PlaybackLeavesNothing
<1> QED
  BY <1>1, RecorderInvariant, PTL

----------------------------------------------------------------------------
(* The rewards.                                                            *)

Chance == [freq : TurfFreqs, dings : Int, recovered : Int, lastOwned : Int]
TurfFlag == [team : TurfFreqs \cup {NoFreq}, tagger : Players \cup {NoPlayer}, dings : Int, recovered : Int,
             old : SUBSET Chance]
Team == [flags : SUBSET Fids, pts : Seq(Players)]
TurfPlayer == [flags : SUBSET Fids, active : BOOLEAN]

\* Flags are in the lists of those they point to, and in no others.
ListsFit(teams, people, held) ==
    /\ DOMAIN teams \subseteq TurfFreqs /\ DOMAIN people \subseteq TurfFreqs \X Players
    /\ \A t \in DOMAIN teams : teams[t] \in Team /\ teams[t].flags = {i \in Fids : held[i].team = t}
    /\ \A w \in DOMAIN people :
          /\ w[1] \in DOMAIN teams /\ people[w] \in TurfPlayer
          /\ people[w].flags = {i \in Fids : <<held[i].team, held[i].tagger>> = w}
    /\ \A i \in Fids : held[i].team # NoFreq => <<held[i].team, held[i].tagger>> \in DOMAIN people

\* Who may recover a flag once more may have it as it was, recovered once more.
ChancesFit(flag) ==
    /\ \A e, o \in flag.old : e.freq = o.freq => e = o
    /\ \A e \in flag.old : e.freq # flag.team /\ e.lastOwned <= conf.recoverDings
    /\ conf.recoverMax # -1 =>
          flag.recovered <= conf.recoverMax /\ \A e \in flag.old : e.recovered < conf.recoverMax

TurfInv ==
    /\ PhaseTypes /\ freqof \in [Players -> TurfFreqs] /\ tflags \in [Fids -> TurfFlag]
    /\ ListsFit(tteams, tplayers, tflags)
    /\ \A t \in DOMAIN tteams : tteams[t].pts = <<>>
    /\ \A i \in Fids : ChancesFit(tflags[i])
    /\ twice = {}

\* Teams and players that are created have no flags.
LEMMA TeamsAreCreated ==
    ASSUME TurfInv, NEW who \in SUBSET (TurfFreqs \X Players)
    PROVE  /\ ListsFit(TeamsFor(who), TurfPlayersFor(who), tflags)
           /\ \A t \in DOMAIN TeamsFor(who) : TeamsFor(who)[t].pts = <<>>
           /\ \A w \in who : w \in DOMAIN TurfPlayersFor(who) /\ w[1] \in DOMAIN TeamsFor(who)
<1> DEFINE freqs == {w[1] : w \in who}
<1>1. freqs \subseteq TurfFreqs /\ \A w \in who : w[1] \in freqs
  OBVIOUS
<1>2. /\ DOMAIN TeamsFor(who) = DOMAIN tteams \cup freqs
      /\ \A f \in DOMAIN tteams : TeamsFor(who)[f] = tteams[f]
      /\ \A f \in freqs \ DOMAIN tteams : TeamsFor(who)[f] = NoTeam
  BY DEF TeamsFor
<1>3. /\ DOMAIN TurfPlayersFor(who) = DOMAIN tplayers \cup who
      /\ \A w \in DOMAIN tplayers : TurfPlayersFor(who)[w] = tplayers[w]
      /\ \A w \in who \ DOMAIN tplayers : TurfPlayersFor(who)[w] = NewTurfPlayer
  BY DEF TurfPlayersFor
<1>4. NoTeam \in Team /\ NoTeam.flags = {} /\ NoTeam.pts = <<>>
  <2>1. <<>> \in Seq(Players)
    OBVIOUS
  <2> QED
    BY <2>1 DEF NoTeam, Team
<1>5. NewTurfPlayer \in TurfPlayer /\ NewTurfPlayer.flags = {}
  BY DEF NewTurfPlayer, TurfPlayer
<1>6. ListsFit(tteams, tplayers, tflags) /\ \A t \in DOMAIN tteams : tteams[t].pts = <<>>
  BY DEF TurfInv
<1>7. ASSUME NEW f \in freqs \ DOMAIN tteams PROVE {i \in Fids : tflags[i].team = f} = {}
  <2>1. f # NoFreq
    BY <1>1, TurfAssumption
  <2>2. ASSUME NEW i \in Fids, tflags[i].team = f PROVE FALSE
    <3>1. <<tflags[i].team, tflags[i].tagger>> \in DOMAIN tplayers
      BY <1>6, <2>1, <2>2 DEF ListsFit
    <3>2. <<tflags[i].team, tflags[i].tagger>>[1] \in DOMAIN tteams
      BY <1>6, <3>1 DEF ListsFit
    <3> QED
      BY <2>2, <3>2
  <2> QED
    BY <2>2
<1>8. ASSUME NEW w \in who \ DOMAIN tplayers
      PROVE  {i \in Fids : <<tflags[i].team, tflags[i].tagger>> = w} = {}
  <2>1. w[1] # NoFreq
    BY TurfAssumption
  <2>2. ASSUME NEW i \in Fids, <<tflags[i].team, tflags[i].tagger>> = w PROVE FALSE
    <3>1. tflags[i].team = w[1]
      BY <2>2
    <3> QED
      BY <1>6, <2>1, <2>2, <3>1 DEF ListsFit
  <2> QED
    BY <2>2
<1> HIDE DEF freqs
<1>9. /\ \A t \in DOMAIN TeamsFor(who) :
            /\ TeamsFor(who)[t] \in Team /\ TeamsFor(who)[t].flags = {i \in Fids : tflags[i].team = t}
            /\ TeamsFor(who)[t].pts = <<>>
  BY <1>2, <1>4, <1>6, <1>7 DEF ListsFit
<1>10. ASSUME NEW w \in DOMAIN TurfPlayersFor(who)
       PROVE  /\ w[1] \in DOMAIN TeamsFor(who) /\ TurfPlayersFor(who)[w] \in TurfPlayer
              /\ TurfPlayersFor(who)[w].flags = {i \in Fids : <<tflags[i].team, tflags[i].tagger>> = w}
  <2>1. CASE w \in DOMAIN tplayers
    BY <1>2, <1>3, <1>6, <2>1 DEF ListsFit
  <2>2. CASE w \in who \ DOMAIN tplayers
    BY <1>1, <1>2, <1>3, <1>5, <1>8, <2>2
  <2> QED
    BY <1>3, <2>1, <2>2
<1>11. DOMAIN TeamsFor(who) \subseteq TurfFreqs /\ DOMAIN TurfPlayersFor(who) \subseteq TurfFreqs \X Players
  BY <1>1, <1>2, <1>3, <1>6 DEF ListsFit
<1>12. \A i \in Fids : tflags[i].team # NoFreq => <<tflags[i].team, tflags[i].tagger>> \in DOMAIN TurfPlayersFor(who)
  BY <1>3, <1>6 DEF ListsFit
<1>13. ListsFit(TeamsFor(who), TurfPlayersFor(who), tflags)
  BY <1>9, <1>10, <1>11, <1>12 DEF ListsFit
<1> QED
  BY <1>1, <1>2, <1>3, <1>9, <1>13

LEMMA MeIs == ASSUME TurfInv, NEW p \in Players
              PROVE  Me(p) = <<freqof[p], p>> /\ Me(p) \in TurfFreqs \X Players /\ freqof[p] \in TurfFreqs
BY DEF TurfInv, Me

\* A flag that is tagged moves from one team to another, and from one player to another.
LEMMA TagMoves ==
    ASSUME TurfInv, NEW p \in Players, NEW i \in Fids, FlagTag(p, i), tflags[i].team # freqof[p]
    PROVE  LET teams == TeamsFor({Me(p)})  people == TurfPlayersFor({Me(p)})
               t0 == tflags[i].team  w0 == <<tflags[i].team, tflags[i].tagger>>
           IN  /\ DOMAIN tteams' = DOMAIN teams /\ DOMAIN tplayers' = DOMAIN people
               /\ \A t \in DOMAIN teams :
                     tteams'[t] = [flags |-> IF t = freqof[p] THEN teams[t].flags \cup {i}
                                             ELSE IF t = t0 THEN teams[t].flags \ {i} ELSE teams[t].flags,
                                   pts |-> teams[t].pts]
               /\ \A w \in DOMAIN people :
                     tplayers'[w] = [flags |-> IF w = Me(p) THEN people[w].flags \cup {i}
                                               ELSE IF w = w0 THEN people[w].flags \ {i} ELSE people[w].flags,
                                     active |-> people[w].active]
<1> DEFINE teams == TeamsFor({Me(p)})  people == TurfPlayersFor({Me(p)})
<1>1. ListsFit(teams, people, tflags)
  BY MeIs, TeamsAreCreated
<1>2. /\ tteams' = [t \in DOMAIN teams |-> [teams[t] EXCEPT !.flags =
             IF t = freqof[p] THEN @ \cup {i} ELSE IF t = tflags[i].team THEN @ \ {i} ELSE @]]
      /\ tplayers' = [w \in DOMAIN people |-> [people[w] EXCEPT !.flags =
             IF w = Me(p) THEN @ \cup {i} ELSE IF w = <<tflags[i].team, tflags[i].tagger>> THEN @ \ {i} ELSE @]]
  BY DEF FlagTag
<1> HIDE DEF teams, people
<1>3. \A t \in DOMAIN teams : teams[t] \in Team
  BY <1>1 DEF ListsFit
<1>4. \A w \in DOMAIN people : people[w] \in TurfPlayer
  BY <1>1 DEF ListsFit
<1>5. \A t \in DOMAIN teams : tteams'[t] = [flags |-> IF t = freqof[p] THEN teams[t].flags \cup {i}
                                             ELSE IF t = tflags[i].team THEN teams[t].flags \ {i} ELSE teams[t].flags,
                                            pts |-> teams[t].pts]
  BY <1>2, <1>3 DEF Team
<1>6. \A w \in DOMAIN people : tplayers'[w] = [flags |-> IF w = Me(p) THEN people[w].flags \cup {i}
                                ELSE IF w = <<tflags[i].team, tflags[i].tagger>> THEN people[w].flags \ {i} ELSE people[w].flags,
                                     active |-> people[w].active]
  BY <1>2, <1>4 DEF TurfPlayer
<1> QED
  BY <1>2, <1>5, <1>6 DEF teams, people

LEMMA TagKeepsLists ==
    ASSUME TurfInv, NEW p \in Players, NEW i \in Fids, FlagTag(p, i), tflags[i].team # freqof[p],
           NEW held, \A j \in Fids \ {i} : held[j] = tflags[j],
           held[i].team = freqof[p], held[i].tagger = p
    PROVE  ListsFit(tteams', tplayers', held) /\ \A t \in DOMAIN tteams' : tteams'[t].pts = <<>>
<1> DEFINE teams == TeamsFor({Me(p)})  people == TurfPlayersFor({Me(p)})
           t0 == tflags[i].team  w0 == <<tflags[i].team, tflags[i].tagger>>
<1>1. /\ ListsFit(teams, people, tflags) /\ \A t \in DOMAIN teams : teams[t].pts = <<>>
      /\ Me(p) \in DOMAIN people /\ freqof[p] \in DOMAIN teams
  BY MeIs, TeamsAreCreated
<1>2. /\ DOMAIN tteams' = DOMAIN teams /\ DOMAIN tplayers' = DOMAIN people
      /\ \A t \in DOMAIN teams :
            tteams'[t] = [flags |-> IF t = freqof[p] THEN teams[t].flags \cup {i}
                                    ELSE IF t = t0 THEN teams[t].flags \ {i} ELSE teams[t].flags,
                          pts |-> teams[t].pts]
      /\ \A w \in DOMAIN people :
            tplayers'[w] = [flags |-> IF w = Me(p) THEN people[w].flags \cup {i}
                                      ELSE IF w = w0 THEN people[w].flags \ {i} ELSE people[w].flags,
                            active |-> people[w].active]
  BY TagMoves, ZenonT(120)
<1>3. Me(p) = <<freqof[p], p>> /\ Me(p) # w0 /\ freqof[p] # t0
  BY MeIs
<1> HIDE DEF teams, people
<1>4. ASSUME NEW t \in DOMAIN teams
      PROVE  tteams'[t] \in Team /\ tteams'[t].flags = {j \in Fids : held[j].team = t} /\ tteams'[t].pts = <<>>
  <2>1. teams[t] \in Team /\ teams[t].flags = {j \in Fids : tflags[j].team = t} /\ teams[t].pts = <<>>
    BY <1>1 DEF ListsFit
  <2>2. PICK F : F = (IF t = freqof[p] THEN teams[t].flags \cup {i}
                      ELSE IF t = t0 THEN teams[t].flags \ {i} ELSE teams[t].flags)
    OBVIOUS
  <2>3. F = {j \in Fids : held[j].team = t}
    BY <1>3, <2>1, <2>2
  <2>4. tteams'[t] = [flags |-> F, pts |-> <<>>]
    BY <1>2, <2>1, <2>2
  <2>5. F \in SUBSET Fids /\ <<>> \in Seq(Players)
    BY <2>3
  <2> QED
    BY <2>3, <2>4, <2>5 DEF Team
<1>5. ASSUME NEW w \in DOMAIN people
      PROVE  /\ w[1] \in DOMAIN teams /\ tplayers'[w] \in TurfPlayer
             /\ tplayers'[w].flags = {j \in Fids : <<held[j].team, held[j].tagger>> = w}
  <2>1. /\ people[w] \in TurfPlayer /\ people[w].flags = {j \in Fids : <<tflags[j].team, tflags[j].tagger>> = w}
        /\ w[1] \in DOMAIN teams
    BY <1>1 DEF ListsFit
  <2>2. PICK F : F = (IF w = Me(p) THEN people[w].flags \cup {i}
                      ELSE IF w = w0 THEN people[w].flags \ {i} ELSE people[w].flags)
    OBVIOUS
  <2>6. <<held[i].team, held[i].tagger>> = Me(p)
    BY <1>3
  <2>3. F = {j \in Fids : <<held[j].team, held[j].tagger>> = w}
    BY <1>3, <2>1, <2>2, <2>6
  <2>4. tplayers'[w] = [flags |-> F, active |-> people[w].active]
    BY <1>2, <2>2
  <2>5. F \in SUBSET Fids /\ people[w].active \in BOOLEAN
    BY <2>1, <2>3 DEF TurfPlayer
  <2> QED
    BY <2>1, <2>3, <2>4, <2>5 DEF TurfPlayer
<1>6. \A j \in Fids : held[j].team # NoFreq => <<held[j].team, held[j].tagger>> \in DOMAIN people
  <2>1. \A j \in Fids : tflags[j].team # NoFreq => <<tflags[j].team, tflags[j].tagger>> \in DOMAIN people
    BY <1>1 DEF ListsFit
  <2> QED
    BY <1>1, <1>3, <2>1
<1>7. DOMAIN teams \subseteq TurfFreqs /\ DOMAIN people \subseteq TurfFreqs \X Players
  BY <1>1 DEF ListsFit
<1> QED
  BY <1>2, <1>4, <1>5, <1>6, <1>7 DEF ListsFit

\* What its new team gets back, and what its last one may.
LEMMA TagKeepsChances ==
    ASSUME TurfInv, NEW p \in Players, NEW i \in Fids, FlagTag(p, i), tflags[i].team # freqof[p]
    PROVE  \E s \in TurfFlag : /\ tflags' = [tflags EXCEPT ![i] = s]
                               /\ s.team = freqof[p] /\ s.tagger = p /\ ChancesFit(s)
<1> DEFINE flag == tflags[i]
           chance == flag.team # NoFreq /\ (conf.recoverMax = -1 \/ flag.recovered < conf.recoverMax)
           given == [freq |-> flag.team, dings |-> flag.dings, recovered |-> flag.recovered, lastOwned |-> 0]
           match == Matches(i, freqof[p])
           old == flag.old \ match
           after == IF chance THEN old \cup {given} ELSE old
<1>1. PICK back : /\ back = NewlyTagged \/ back \in match
                  /\ tflags' = [tflags EXCEPT ![i] =
                        [team |-> freqof[p], tagger |-> p, dings |-> back.dings, recovered |-> back.recovered + 1,
                         old |-> after]]
  BY DEF FlagTag
<1>2. flag \in TurfFlag /\ ChancesFit(flag) /\ freqof[p] \in TurfFreqs
  BY DEF TurfInv
<1>3. conf.recoverDings \in Nat /\ conf.recoverMax \in Nat \cup {-1}
  BY TurfAssumption DEF TurfInv, PhaseTypes
<1>4. match = {e \in flag.old : e.freq = freqof[p]}
  BY DEF Matches
<1>5. /\ back.dings \in Int /\ back.recovered + 1 \in Int
      /\ conf.recoverMax # -1 => back.recovered + 1 <= conf.recoverMax
  <2>1. CASE back = NewlyTagged
    BY <1>3, <2>1 DEF NewlyTagged
  <2>2. CASE back \in match
    <3>1. back \in Chance /\ (conf.recoverMax # -1 => back.recovered < conf.recoverMax)
      BY <1>2, <1>4, <2>2 DEF TurfFlag, ChancesFit
    <3> QED
      BY <1>3, <3>1 DEF Chance
  <2> QED
    BY <1>1, <2>1, <2>2
<1>6. chance => /\ given \in Chance /\ given.freq = flag.team /\ given.lastOwned = 0
                /\ given.recovered = flag.recovered
  BY <1>2 DEF TurfFlag, Chance
<1>7. old \subseteq Chance /\ \A e \in old : e \in flag.old /\ e.freq # freqof[p]
  BY <1>2, <1>4 DEF TurfFlag
<1> HIDE DEF given, old
<1>8. after \subseteq Chance
  BY <1>6, <1>7
<1>9. /\ \A e, o \in after : e.freq = o.freq => e = o
      /\ \A e \in after : e.freq # freqof[p] /\ e.lastOwned <= conf.recoverDings
      /\ conf.recoverMax # -1 => \A e \in after : e.recovered < conf.recoverMax
  BY <1>2, <1>3, <1>6, <1>7 DEF ChancesFit
<1> DEFINE s == [team |-> freqof[p], tagger |-> p, dings |-> back.dings, recovered |-> back.recovered + 1, old |-> after]
<1>10. s \in TurfFlag
  BY <1>2, <1>5, <1>8 DEF TurfFlag
<1>11. s.old = after /\ s.team = freqof[p] /\ s.tagger = p /\ s.recovered = back.recovered + 1
  OBVIOUS
<1>12. ChancesFit(s)
  <2> HIDE DEF s, after
  <2> QED
    BY <1>5, <1>9, <1>11 DEF ChancesFit
<1> QED
  BY <1>1, <1>10, <1>11, <1>12

LEMMA FlagTagStep ==
    ASSUME TurfInv, NEW p \in Players, NEW i \in Fids, FlagTag(p, i), UNCHANGED <<conf, clientvars, freqof, twice>>
    PROVE  TurfInv'
<1>1. CASE tflags[i].team = freqof[p]
  <2>1. UNCHANGED <<tflags, tteams, tplayers>>
    BY <1>1 DEF FlagTag
  <2> QED
    BY <2>1 DEF TurfInv, ListsFit, ChancesFit, PhaseTypes, clientvars
<1>2. CASE tflags[i].team # freqof[p]
  <2>1. PICK s \in TurfFlag : /\ tflags' = [tflags EXCEPT ![i] = s]
                              /\ s.team = freqof[p] /\ s.tagger = p /\ ChancesFit(s)
    BY <1>2, TagKeepsChances
  <2>2. tflags \in [Fids -> TurfFlag] /\ \A j \in Fids : ChancesFit(tflags[j])
    BY DEF TurfInv
  <2>3. /\ tflags' \in [Fids -> TurfFlag] /\ tflags'[i] = s /\ \A j \in Fids \ {i} : tflags'[j] = tflags[j]
    BY <2>1, <2>2
  <2>4. PICK held : held = tflags'
    OBVIOUS
  <2>9. held[i].team = freqof[p] /\ held[i].tagger = p /\ \A j \in Fids \ {i} : held[j] = tflags[j]
    BY <2>1, <2>3, <2>4
  <2>5. ListsFit(tteams', tplayers', held) /\ \A t \in DOMAIN tteams' : tteams'[t].pts = <<>>
    <3> HIDE <2>1, <2>3, <2>4
    <3> QED
      BY <1>2, <2>9, TagKeepsLists
  <2>6. ListsFit(tteams, tplayers, tflags)'
    BY <2>4, <2>5 DEF ListsFit
  <2>7. \A j \in Fids : ChancesFit(tflags[j])'
    BY <2>1, <2>2, <2>3 DEF ChancesFit
  <2>8. PhaseTypes' /\ (freqof \in [Players -> TurfFreqs])' /\ (twice = {})'
    BY DEF TurfInv, PhaseTypes, clientvars
  <2> QED
    BY <2>3, <2>5, <2>6, <2>7, <2>8 DEF TurfInv
<1> QED
  BY <1>1, <1>2

LEMMA SetToSeqOnce ==
    ASSUME NEW S, IsFiniteSet(S)
    PROVE  /\ SetToSeq(S) \in Seq(S) /\ DOMAIN SetToSeq(S) = 1 .. Cardinality(S)
           /\ \A j, k \in DOMAIN SetToSeq(S) : SetToSeq(S)[j] = SetToSeq(S)[k] => j = k
<1>1. Cardinality(S) \in Nat /\ ExistsBijection(1 .. Cardinality(S), S)
  BY FS_CardinalityType
<1>2. \E f \in [1 .. Cardinality(S) -> S] : IsInjective(f)
  BY <1>1 DEF ExistsBijection, Bijection, Injection, IsInjective
<1>3. SetToSeq(S) \in [1 .. Cardinality(S) -> S] /\ IsInjective(SetToSeq(S))
  BY <1>2 DEF SetToSeq
<1> QED
  BY <1>1, <1>3 DEF IsInjective

\* One at most is not nothing, and it is one at most.
LEMMA TotalOnce ==
    ASSUME NEW S, IsFiniteSet(S), NEW g, \A k \in S : g[k] \in {0, 1},
           \A j, k \in S : g[j] # 0 /\ g[k] # 0 => j = k
    PROVE  Total(0, g, S) <= 1
<1>1. CASE \A k \in S : g[k] = 0
  BY <1>1, TotalZero
<1>2. ASSUME NEW k \in S, g[k] # 0 PROVE Total(0, g, S) <= 1
  <2>1. IsFiniteSet(S \ {k}) /\ \A j \in S \ {k} : g[j] = 0
    BY <1>2, FS_Subset
  <2>2. Total(0, g, S \ {k}) = 0
    BY <2>1, TotalZero
  <2>3. Total(0, g, S) = g[k] + Total(0, g, S \ {k})
    BY TotalRemove
  <2> QED
    BY <1>2, <2>2, <2>3
<1> QED
  BY <1>1, <1>2

\* Before a ding: everybody who is here has his team, and each of its lists has him once.
LEMMA TeamsAreReady ==
    ASSUME TurfInv, NEW eligible \in SUBSET Playing
    PROVE  LET here == {Me(p) : p \in InArena}
               teams == Linked(PreTeams(eligible), PrePlayers)
           IN  /\ here \in SUBSET (TurfFreqs \X Players)
               /\ DOMAIN PreTeams(eligible) = DOMAIN TeamsFor(here)
               /\ DOMAIN teams = {t \in DOMAIN TeamsFor(here) : TeamsFor(here)[t].flags # {}
                                         \/ \E w \in DOMAIN PrePlayers : w[1] = t}
               /\ \A t \in DOMAIN teams : teams[t] = [flags |-> TeamsFor(here)[t].flags,
                                                      pts |-> SetToSeq(Eligible(t, eligible))]
<1> DEFINE here == {Me(p) : p \in InArena}  base == TeamsFor(here)
<1>1. here \in SUBSET (TurfFreqs \X Players)
  BY MeIs DEF InArena
<1>2. /\ ListsFit(base, TurfPlayersFor(here), tflags) /\ \A t \in DOMAIN base : base[t].pts = <<>>
  BY <1>1, TeamsAreCreated
<1>3. \A t \in DOMAIN base : base[t] \in Team /\ base[t].pts = <<>>
  BY <1>2 DEF ListsFit
<1>4. PreTeams(eligible) = [t \in DOMAIN base |-> [base[t] EXCEPT !.pts = SetToSeq(Eligible(t, eligible)) \o @]]
  BY DEF PreTeams
<1> HIDE DEF base
<1>5. ASSUME NEW t \in DOMAIN base
      PROVE  PreTeams(eligible)[t] = [flags |-> base[t].flags, pts |-> SetToSeq(Eligible(t, eligible))]
  <2>1. IsFiniteSet(Eligible(t, eligible))
    BY TransfersAssumption, FS_Subset DEF Eligible, Playing
  <2>2. SetToSeq(Eligible(t, eligible)) \in Seq(Eligible(t, eligible))
    BY <2>1, SetToSeqOnce
  <2>3. PICK s \in Seq(Eligible(t, eligible)) : s = SetToSeq(Eligible(t, eligible))
    BY <2>2
  <2>4. s \o <<>> = s
    OBVIOUS
  <2>5. PreTeams(eligible)[t] = [base[t] EXCEPT !.pts = s \o @]
    BY <1>4, <2>3
  <2>6. [base[t] EXCEPT !.pts = s \o @] = [flags |-> base[t].flags, pts |-> s]
    <3>1. PICK r \in Team : r = base[t] /\ r.pts = <<>>
      BY <1>3
    <3>2. [r EXCEPT !.pts = s \o @] = [r EXCEPT !.pts = s]
      BY <2>4, <3>1
    <3>3. [r EXCEPT !.pts = s] = [flags |-> r.flags, pts |-> s]
      BY DEF Team
    <3> QED
      BY <3>1, <3>2, <3>3
  <2> QED
    BY <2>3, <2>5, <2>6
<1>6. DOMAIN PreTeams(eligible) = DOMAIN base
  BY <1>4
<1>7. Linked(PreTeams(eligible), PrePlayers) =
        [t \in {t \in DOMAIN base : base[t].flags # {} \/ \E w \in DOMAIN PrePlayers : w[1] = t} |-> PreTeams(eligible)[t]]
  <2>1. {t \in DOMAIN PreTeams(eligible) : PreTeams(eligible)[t].flags # {} \/ \E w \in DOMAIN PrePlayers : w[1] = t}
        = {t \in DOMAIN base : base[t].flags # {} \/ \E w \in DOMAIN PrePlayers : w[1] = t}
    BY <1>5, <1>6
  <2> QED
    BY <2>1 DEF Linked, Restrict
<1> QED
  BY <1>1, <1>5, <1>6, <1>7 DEF base

LEMMA NobodyIsAwardedAgain ==
    ASSUME TurfInv, NEW eligible \in SUBSET Playing
    PROVE  AwardedAgain(Linked(PreTeams(eligible), PrePlayers), eligible) = {}
<1> DEFINE here == {Me(p) : p \in InArena}
           teams == Linked(PreTeams(eligible), PrePlayers)
           paid == {t \in Qualify(teams, eligible) : Rewards(t, eligible) > 0}
<1>1. DOMAIN teams \subseteq DOMAIN TeamsFor(here) /\ \A t \in DOMAIN teams : teams[t].pts = SetToSeq(Eligible(t, eligible))
  <2>1. DOMAIN teams = {t \in DOMAIN TeamsFor(here) : TeamsFor(here)[t].flags # {}
                                       \/ \E w \in DOMAIN PrePlayers : w[1] = t}
    BY TeamsAreReady
  <2>2. \A t \in DOMAIN teams : teams[t] = [flags |-> TeamsFor(here)[t].flags,
                                            pts |-> SetToSeq(Eligible(t, eligible))]
    BY TeamsAreReady
  <2>3. \A t \in DOMAIN teams : teams[t].pts = SetToSeq(Eligible(t, eligible))
    <3> HIDE DEF teams
    <3> TAKE t \in DOMAIN teams
    <3>1. PICK q : q = SetToSeq(Eligible(t, eligible))
      OBVIOUS
    <3>2. teams[t] = [flags |-> TeamsFor(here)[t].flags, pts |-> q]
      BY <2>2, <3>1
    <3>3. teams[t].pts = q
      BY <3>2
    <3> QED
      BY <3>1, <3>3
  <2> HIDE DEF teams
  <2>4. DOMAIN teams \subseteq DOMAIN TeamsFor(here)
    BY <2>1
  <2> QED
    BY <2>3, <2>4
<1>2. DOMAIN TeamsFor(here) \subseteq TurfFreqs
  <2>1. here \in SUBSET (TurfFreqs \X Players)
    BY TeamsAreReady
  <2>2. ListsFit(TeamsFor(here), TurfPlayersFor(here), tflags)
    BY <2>1, TeamsAreCreated
  <2> QED
    BY <2>2 DEF ListsFit
<1> HIDE DEF teams
<1>3. paid \subseteq DOMAIN teams /\ IsFiniteSet(paid)
  <2>1. paid \subseteq DOMAIN teams
    BY DEF Qualify
  <2> QED
    BY <1>1, <1>2, <2>1, TurfAssumption, FS_Subset
<1> HIDE DEF paid
<1>4. ASSUME NEW p \in Players
      PROVE  ~(FoldFunctionOnSet(+, 0, [t \in paid |-> Cardinality({k \in DOMAIN teams[t].pts : teams[t].pts[k] = p})], paid) > 1)
  <2> DEFINE g == [t \in paid |-> Cardinality({k \in DOMAIN teams[t].pts : teams[t].pts[k] = p})]
  <2>1. ASSUME NEW t \in paid PROVE g[t] \in {0, 1} /\ (g[t] # 0 => freqof[p] = t)
    <3> DEFINE s == SetToSeq(Eligible(t, eligible))  K == {k \in DOMAIN s : s[k] = p}
    <3>1. g[t] = Cardinality(K)
      BY <1>1, <1>3
    <3>2. IsFiniteSet(Eligible(t, eligible))
      BY TransfersAssumption, FS_Subset DEF Eligible, Playing
    <3>3. s \in Seq(Eligible(t, eligible)) /\ \A j, k \in DOMAIN s : s[j] = s[k] => j = k
      BY <3>2, SetToSeqOnce
    <3> HIDE DEF g, s
    <3>4. CASE K = {}
      <4>1. Cardinality(K) = 0
        BY <3>4, FS_EmptySet
      <4> QED
        BY <3>1, <4>1
    <3>5. ASSUME NEW k \in K PROVE g[t] = 1 /\ freqof[p] = t
      <4>1. K = {k}
        BY <3>3
      <4>2. Cardinality(K) = 1
        BY <4>1, FS_Singleton
      <4>3. p \in Eligible(t, eligible)
        BY <3>3
      <4> QED
        BY <3>1, <4>2, <4>3 DEF Eligible
    <3> QED
      BY <3>4, <3>5
  <2> HIDE DEF g
  <2>2. Total(0, g, paid) <= 1
    BY <1>3, <2>1, TotalOnce
  <2>3. Total(0, g, paid) \in Nat
    BY <1>3, <2>1, TotalNat
  <2>4. FoldFunctionOnSet(+, 0, g, paid) = Total(0, g, paid)
    BY TotalFolds
  <2>6. ~(Total(0, g, paid) > 1)
    BY <2>2, <2>3
  <2>5. ~(FoldFunctionOnSet(+, 0, g, paid) > 1)
    BY <2>4, <2>6, Zenon
  <2> QED
    BY <2>5 DEF g
<1>5. AwardedAgain(teams, eligible) =
        {p \in Players : FoldFunctionOnSet(+, 0,
             [t \in paid |-> Cardinality({k \in DOMAIN teams[t].pts : teams[t].pts[k] = p})], paid) > 1}
  BY DEF AwardedAgain, paid
<1> QED
  BY <1>4, <1>5 DEF teams

\* After a ding: who holds flags is remembered, and so is his team; the lists are empty.
LEMMA CleanupKeepsLists ==
    ASSUME TurfInv, NEW eligible \in SUBSET Playing,
           PostRewardCleanup(Linked(PreTeams(eligible), PrePlayers), PrePlayers)
    PROVE  ListsFit(tteams', tplayers', tflags) /\ \A t \in DOMAIN tteams' : tteams'[t].pts = <<>>
<1> DEFINE here == {Me(p) : p \in InArena}
           base == TeamsFor(here)  known0 == TurfPlayersFor(here)
           teams == Linked(PreTeams(eligible), PrePlayers)
           stay == Remembered(PrePlayers)
<1>1. here \in SUBSET (TurfFreqs \X Players)
  BY TeamsAreReady
<1>2. ListsFit(base, known0, tflags)
  BY <1>1, TeamsAreCreated
<1>3. DOMAIN teams = {t \in DOMAIN base : base[t].flags # {} \/ \E w \in DOMAIN PrePlayers : w[1] = t}
  BY TeamsAreReady
<1>4. \A t \in DOMAIN teams : teams[t] = [flags |-> base[t].flags, pts |-> SetToSeq(Eligible(t, eligible))]
  BY TeamsAreReady
<1>5. PrePlayers = [w \in DOMAIN known0 |-> [known0[w] EXCEPT !.active = @ \/ w \in here]]
  BY DEF PrePlayers
<1>6. /\ tplayers' = [w \in DOMAIN stay |-> [stay[w] EXCEPT !.active = FALSE]]
      /\ tteams' = Linked(Emptied(teams), stay)
  BY DEF PostRewardCleanup
<1> HIDE DEF here, base, known0, teams
<1>7. ASSUME NEW w \in DOMAIN known0
      PROVE  PrePlayers[w] \in TurfPlayer /\ PrePlayers[w].flags = known0[w].flags
  <2>1. known0[w] \in TurfPlayer
    BY <1>2 DEF ListsFit
  <2>2. PICK d \in BOOLEAN : d = (known0[w].active \/ w \in here)
    BY <2>1 DEF TurfPlayer
  <2>3. PrePlayers[w] = [known0[w] EXCEPT !.active = d]
    BY <1>5, <2>2
  <2> QED
    BY <2>1, <2>3 DEF TurfPlayer
<1>8. DOMAIN PrePlayers = DOMAIN known0
  BY <1>5
<1>9. /\ DOMAIN stay = {w \in DOMAIN known0 : PrePlayers[w].active \/ PrePlayers[w].flags # {}}
      /\ \A w \in DOMAIN stay : stay[w] = PrePlayers[w]
  BY <1>8 DEF Remembered, Restrict
<1>10. /\ DOMAIN tteams' = {t \in DOMAIN teams : teams[t].flags # {} \/ \E w \in DOMAIN stay : w[1] = t}
       /\ \A t \in DOMAIN tteams' : tteams'[t] = [teams[t] EXCEPT !.pts = <<>>]
  <2> HIDE DEF stay
  <2>1. /\ DOMAIN Emptied(teams) = DOMAIN teams
        /\ \A t \in DOMAIN teams : Emptied(teams)[t] = [teams[t] EXCEPT !.pts = <<>>]
    BY DEF Emptied
  <2>2. \A t \in DOMAIN teams : Emptied(teams)[t].flags = teams[t].flags
    <3> TAKE t \in DOMAIN teams
    <3>1. PICK q : q = SetToSeq(Eligible(t, eligible))
      OBVIOUS
    <3>2. teams[t] = [flags |-> base[t].flags, pts |-> q]
      BY <1>4, <3>1
    <3> QED
      BY <2>1, <3>2
  <2>3. {t \in DOMAIN Emptied(teams) : Emptied(teams)[t].flags # {} \/ \E w \in DOMAIN stay : w[1] = t}
        = {t \in DOMAIN teams : teams[t].flags # {} \/ \E w \in DOMAIN stay : w[1] = t}
    BY <2>1, <2>2
  <2> QED
    BY <1>6, <2>1, <2>3 DEF Linked, Restrict
<1> HIDE DEF stay
<1>11. ASSUME NEW t \in DOMAIN tteams'
       PROVE  /\ t \in TurfFreqs /\ tteams'[t] \in Team /\ tteams'[t].flags = {i \in Fids : tflags[i].team = t}
              /\ tteams'[t].pts = <<>>
  <2>1. t \in DOMAIN teams /\ t \in DOMAIN base
    BY <1>3, <1>10
  <2>2. PICK q : q = SetToSeq(Eligible(t, eligible))
    OBVIOUS
  <2>3. teams[t] = [flags |-> base[t].flags, pts |-> q]
    BY <1>4, <2>1, <2>2
  <2>4. tteams'[t] = [flags |-> base[t].flags, pts |-> <<>>]
    BY <1>10, <2>3
  <2>5. t \in TurfFreqs /\ base[t] \in Team /\ base[t].flags = {i \in Fids : tflags[i].team = t}
    BY <1>2, <2>1 DEF ListsFit
  <2>6. <<>> \in Seq(Players)
    OBVIOUS
  <2> QED
    BY <2>4, <2>5, <2>6 DEF Team
<1>12. ASSUME NEW w \in DOMAIN tplayers'
       PROVE  /\ w \in TurfFreqs \X Players /\ w[1] \in DOMAIN tteams' /\ tplayers'[w] \in TurfPlayer
              /\ tplayers'[w].flags = {i \in Fids : <<tflags[i].team, tflags[i].tagger>> = w}
  <2>1. w \in DOMAIN stay /\ w \in DOMAIN known0 /\ stay[w] = PrePlayers[w]
    BY <1>6, <1>9
  <2>2. tplayers'[w] = [stay[w] EXCEPT !.active = FALSE]
    BY <1>6, <2>1
  <2>3. tplayers'[w] \in TurfPlayer /\ tplayers'[w].flags = known0[w].flags
    BY <1>7, <2>1, <2>2 DEF TurfPlayer
  <2>4. /\ w \in TurfFreqs \X Players /\ w[1] \in DOMAIN base
        /\ known0[w].flags = {i \in Fids : <<tflags[i].team, tflags[i].tagger>> = w}
    BY <1>2, <2>1 DEF ListsFit
  <2>5. w[1] \in DOMAIN teams
    BY <1>3, <1>8, <2>1, <2>4
  <2>6. w[1] \in DOMAIN tteams'
    BY <1>10, <2>1, <2>5
  <2> QED
    BY <2>3, <2>4, <2>6
<1>13. ASSUME NEW i \in Fids, tflags[i].team # NoFreq
       PROVE  <<tflags[i].team, tflags[i].tagger>> \in DOMAIN tplayers'
  <2> DEFINE w == <<tflags[i].team, tflags[i].tagger>>
  <2>1. w \in DOMAIN known0 /\ known0[w].flags = {j \in Fids : <<tflags[j].team, tflags[j].tagger>> = w}
    BY <1>2, <1>13 DEF ListsFit
  <2>2. i \in known0[w].flags
    BY <2>1
  <2>3. PrePlayers[w].flags # {}
    BY <1>7, <2>1, <2>2
  <2> QED
    BY <1>6, <1>9, <2>1, <2>3
<1>14. PICK teams1, people1 : teams1 = tteams' /\ people1 = tplayers'
  OBVIOUS
<1>15. ListsFit(teams1, people1, tflags)
  BY <1>11, <1>12, <1>13, <1>14 DEF ListsFit
<1> QED
  BY <1>11, <1>14, <1>15

\* A ding counts for each flag, and for each chance to recover one, which may end.
LEMMA UpdateKeepsChances ==
    ASSUME TurfInv, UpdateFlags
    PROVE  /\ tflags' \in [Fids -> TurfFlag]
           /\ \A i \in Fids : /\ tflags'[i].team = tflags[i].team /\ tflags'[i].tagger = tflags[i].tagger
                              /\ ChancesFit(tflags'[i])
<1>1. PICK late \in IF conf.cutoff = "time" THEN SUBSET (Fids \X TurfFreqs) ELSE {{}} :
        tflags' = [i \in Fids |->
            [tflags[i] EXCEPT
                !.dings = IF tflags[i].team # NoFreq THEN Longer(@) ELSE @,
                !.old = {[e EXCEPT !.lastOwned = IF conf.cutoff = "time" THEN 0 ELSE @ + 1] :
                            e \in {o \in tflags[i].old : IF conf.cutoff = "time" THEN <<i, o.freq>> \notin late
                                                         ELSE o.lastOwned + 1 <= conf.recoverDings}}]]
  BY DEF UpdateFlags
<1>2. conf.recoverDings \in Nat
  BY TurfAssumption DEF TurfInv, PhaseTypes
<1>3. ASSUME NEW i \in Fids
      PROVE  /\ tflags'[i] \in TurfFlag
             /\ tflags'[i].team = tflags[i].team /\ tflags'[i].tagger = tflags[i].tagger
             /\ ChancesFit(tflags'[i])
  <2>1. PICK flag \in TurfFlag : flag = tflags[i] /\ ChancesFit(flag)
    BY DEF TurfInv
  <2> DEFINE Older(e) == [e EXCEPT !.lastOwned = IF conf.cutoff = "time" THEN 0 ELSE @ + 1]
             Stays(o) == IF conf.cutoff = "time" THEN <<i, o.freq>> \notin late
                         ELSE o.lastOwned + 1 <= conf.recoverDings
             stay == {o \in flag.old : Stays(o)}
             after == {Older(e) : e \in stay}
  <2>2. flag.old \subseteq Chance /\ stay \subseteq flag.old
    BY DEF TurfFlag
  <2>3. ASSUME NEW e \in stay
        PROVE  /\ Older(e) \in Chance /\ Older(e).freq = e.freq /\ Older(e).recovered = e.recovered
               /\ Older(e).lastOwned <= conf.recoverDings
    <3>1. e \in Chance /\ Stays(e)
      BY <2>2
    <3>2. PICK n : n = (IF conf.cutoff = "time" THEN 0 ELSE e.lastOwned + 1)
      OBVIOUS
    <3>3. n \in Int /\ n <= conf.recoverDings
      BY <1>2, <3>1, <3>2 DEF Chance
    <3>4. Older(e) = [e EXCEPT !.lastOwned = n]
      BY <3>2
    <3>5. Older(e) = [freq |-> e.freq, dings |-> e.dings, recovered |-> e.recovered, lastOwned |-> n]
      BY <3>1, <3>4 DEF Chance
    <3> HIDE DEF Older
    <3> QED
      BY <3>1, <3>3, <3>5 DEF Chance
  <2>4. PICK d : d = (IF flag.team # NoFreq THEN Longer(flag.dings) ELSE flag.dings)
    OBVIOUS
  <2>5. d \in Int
    BY <2>4 DEF TurfFlag, Longer
  <2>6. tflags'[i] = [flag EXCEPT !.dings = d, !.old = after]
    BY <1>1, <2>1, <2>4
  <2> HIDE DEF Older, stay
  <2>7. after \subseteq Chance
    BY <2>3
  <2>8. /\ \A e, o \in after : e.freq = o.freq => e = o
        /\ \A e \in after : e.freq # flag.team /\ e.lastOwned <= conf.recoverDings
        /\ conf.recoverMax # -1 => \A e \in after : e.recovered < conf.recoverMax
    BY <2>1, <2>2, <2>3 DEF ChancesFit
  <2> HIDE DEF after
  <2>9. PICK r : r = [flag EXCEPT !.dings = d, !.old = after]
    OBVIOUS
  <2>10. r = [team |-> flag.team, tagger |-> flag.tagger, dings |-> d, recovered |-> flag.recovered, old |-> after]
    BY <2>9 DEF TurfFlag
  <2>11. /\ r \in TurfFlag /\ r.team = flag.team /\ r.tagger = flag.tagger /\ r.old = after
         /\ r.recovered = flag.recovered
    BY <2>5, <2>7, <2>10 DEF TurfFlag
  <2>12. ChancesFit(r)
    BY <2>1, <2>8, <2>11 DEF ChancesFit
  <2> QED
    BY <2>1, <2>6, <2>9, <2>11, <2>12
<1> QED
  BY <1>1, <1>3

LEMMA DingStep ==
    ASSUME TurfInv, Ding
    PROVE  TurfInv'
<1>1. PICK eligible \in SUBSET Playing :
        /\ \/ /\ twice' = AwardedAgain(Linked(PreTeams(eligible), PrePlayers), eligible) /\ UpdateFlags
           \/ twice' = {} /\ UNCHANGED tflags
        /\ PostRewardCleanup(Linked(PreTeams(eligible), PrePlayers), PrePlayers)
  BY DEF Ding, DoReward
<1>2. UNCHANGED <<conf, clientvars, freqof, owner>>
  BY DEF Ding
<1>3. twice' = {}
  BY <1>1, NobodyIsAwardedAgain
<1>4. ListsFit(tteams', tplayers', tflags) /\ \A t \in DOMAIN tteams' : tteams'[t].pts = <<>>
  BY <1>1, CleanupKeepsLists
<1>5. /\ tflags' \in [Fids -> TurfFlag]
      /\ \A i \in Fids : /\ tflags'[i].team = tflags[i].team /\ tflags'[i].tagger = tflags[i].tagger
                         /\ ChancesFit(tflags'[i])
  <2>1. CASE UpdateFlags
    BY <2>1, UpdateKeepsChances
  <2>2. CASE UNCHANGED tflags
    BY <2>2 DEF TurfInv
  <2> QED
    BY <1>1, <2>1, <2>2
<1>6. ListsFit(tteams', tplayers', tflags')
  <2>1. PICK teams, people : teams = tteams' /\ people = tplayers'
    OBVIOUS
  <2>2. ListsFit(teams, people, tflags)
    BY <1>4, <2>1
  <2>3. /\ \A t : {i \in Fids : tflags'[i].team = t} = {i \in Fids : tflags[i].team = t}
        /\ \A w : {i \in Fids : <<tflags'[i].team, tflags'[i].tagger>> = w}
                  = {i \in Fids : <<tflags[i].team, tflags[i].tagger>> = w}
    BY <1>5
  <2>4. ListsFit(teams, people, tflags')
    BY <1>5, <2>2, <2>3 DEF ListsFit
  <2> QED
    BY <2>1, <2>4
<1>7. (\A i \in Fids : ChancesFit(tflags[i]))'
  BY <1>2, <1>5 DEF ChancesFit
<1>8. PhaseTypes' /\ (freqof \in [Players -> TurfFreqs])'
  BY <1>2 DEF TurfInv, PhaseTypes, clientvars
<1> QED
  BY <1>3, <1>4, <1>5, <1>6, <1>7, <1>8 DEF TurfInv

\* Teams and players are created for those who change, kill or are killed.
LEMMA CreationStep ==
    ASSUME TurfInv, NEW who \in SUBSET (TurfFreqs \X Players), freqof' \in [Players -> TurfFreqs],
           tteams' = TeamsFor(who), tplayers' = TurfPlayersFor(who),
           UNCHANGED <<conf, clientvars, tflags, twice>>
    PROVE  TurfInv'
<1>1. ListsFit(tteams', tplayers', tflags') /\ \A t \in DOMAIN tteams' : tteams'[t].pts = <<>>
  BY TeamsAreCreated
<1> QED
  BY <1>1 DEF TurfInv, PhaseTypes, ChancesFit, ListsFit, clientvars

LEMMA NothingIsTagged ==
    ASSUME PhaseTypes
    PROVE  /\ [i \in Fids |-> NoFlag] \in [Fids -> TurfFlag] /\ ListsFit(<<>>, <<>>, [i \in Fids |-> NoFlag])
           /\ ChancesFit(NoFlag)
<1>1. NoFlag \in TurfFlag
  BY DEF NoFlag, TurfFlag
<1>2. ChancesFit(NoFlag)
  <2>1. conf.recoverMax \in Nat \cup {-1}
    BY TurfAssumption DEF PhaseTypes
  <2> QED
    BY <2>1 DEF NoFlag, ChancesFit
<1> DEFINE none == <<>>  held == [i \in Fids |-> NoFlag]
<1>3. DOMAIN none = {}
  OBVIOUS
<1>4. \A i \in Fids : held[i].team = NoFreq
  BY DEF NoFlag
<1> HIDE DEF none, held
<1>5. ListsFit(none, none, held)
  BY <1>3, <1>4 DEF ListsFit
<1> QED
  BY <1>1, <1>2, <1>5 DEF none, held

LEMMA TurfBegins == Init => TurfInv
<1> SUFFICES ASSUME Init PROVE TurfInv
  OBVIOUS
<1>1. PhaseTypes
  BY DEF Init, ClientsInit, PhaseTypes, Phases
<1>2. freqof \in [Players -> TurfFreqs]
  BY TurfAssumption DEF Init, TurfInit
<1>3. /\ [i \in Fids |-> NoFlag] \in [Fids -> TurfFlag] /\ ListsFit(<<>>, <<>>, [i \in Fids |-> NoFlag])
      /\ ChancesFit(NoFlag)
  BY <1>1, NothingIsTagged
<1>4. /\ tflags = [i \in Fids |-> NoFlag] /\ tteams = <<>> /\ tplayers = <<>> /\ twice = {}
  BY DEF Init, TurfInit
<1>5. \A i \in Fids : tflags[i] = NoFlag
  BY <1>4
<1>6. \A t \in DOMAIN tteams : tteams[t].pts = <<>>
  BY <1>4
<1> QED
  BY <1>1, <1>2, <1>3, <1>4, <1>5, <1>6 DEF TurfInv

LEMMA TurfSteps ==
    ASSUME TurfInv, TurfStep
    PROVE  TurfInv'
<1>1. CASE TurfTag
  BY <1>1, FlagTagStep DEF TurfTag
<1>2. CASE TurfChange
  <2>1. PICK p \in Players, freq \in TurfFreqs :
          /\ freqof' = [freqof EXCEPT ![p] = freq]
          /\ tteams' = TeamsFor({<<freq, p>>}) /\ tplayers' = TurfPlayersFor({<<freq, p>>})
    BY <1>2 DEF TurfChange
  <2>2. freqof' \in [Players -> TurfFreqs] /\ {<<freq, p>>} \in SUBSET (TurfFreqs \X Players)
    BY <2>1 DEF TurfInv
  <2>3. UNCHANGED <<conf, clientvars, tflags, twice>>
    BY <1>2 DEF TurfChange
  <2> QED
    BY <2>1, <2>2, <2>3, CreationStep
<1>3. CASE TurfKill
  <2>1. PICK p, q \in Players : tteams' = TeamsFor({Me(p), Me(q)}) /\ tplayers' = TurfPlayersFor({Me(p), Me(q)})
    BY <1>3 DEF TurfKill
  <2>2. freqof' \in [Players -> TurfFreqs] /\ {Me(p), Me(q)} \in SUBSET (TurfFreqs \X Players)
    BY <1>3, MeIs DEF TurfInv, TurfKill
  <2>3. UNCHANGED <<conf, clientvars, tflags, twice>>
    BY <1>3 DEF TurfKill
  <2> QED
    BY <2>1, <2>2, <2>3, CreationStep
<1>4. CASE Ding
  BY <1>4, DingStep
<1>5. CASE TurfResetFlags \/ TurfRecycle
  <2>1. /\ PhaseTypes' /\ freqof' \in [Players -> TurfFreqs] /\ twice' = {}
        /\ tflags' = [i \in Fids |-> NoFlag] /\ tteams' = <<>> /\ tplayers' = <<>>
    BY <1>5 DEF TurfResetFlags, TurfRecycle, TurfInv, PhaseTypes, clientvars
  <2>2. /\ [i \in Fids |-> NoFlag] \in [Fids -> TurfFlag] /\ ListsFit(<<>>, <<>>, [i \in Fids |-> NoFlag])
        /\ ChancesFit(NoFlag)
    BY NothingIsTagged DEF TurfInv
  <2>3. tflags' \in [Fids -> TurfFlag] /\ ListsFit(tteams, tplayers, tflags)' /\ \A i \in Fids : tflags'[i] = NoFlag
    BY <2>1, <2>2
  <2>4. UNCHANGED conf
    BY <1>5 DEF TurfResetFlags, TurfRecycle
  <2>5. (\A i \in Fids : ChancesFit(tflags[i]))'
    BY <2>2, <2>3, <2>4 DEF ChancesFit
  <2>6. \A t \in DOMAIN tteams' : tteams'[t].pts = <<>>
    BY <2>1
  <2> QED
    BY <2>1, <2>3, <2>5, <2>6 DEF TurfInv
<1>6. CASE OthersReset
  BY <1>6 DEF OthersReset, TurfInv, PhaseTypes, ListsFit, ChancesFit, clientvars
<1> QED
  BY <1>1, <1>2, <1>3, <1>4, <1>5, <1>6 DEF TurfStep

LEMMA PhasesStay ==
    ASSUME PhaseTypes, [Next]_vars
    PROVE  PhaseTypes' /\ UNCHANGED conf
<1>1. \A p \in conf.players : p \in Players
  BY ClientsAssumption DEF PhaseTypes
<1>2. ASSUME NobodyArrives PROVE PhaseTypes' /\ UNCHANGED conf
  BY <1>2 DEF NobodyArrives, PhaseTypes
<1>3. ASSUME NEW p \in conf.players, Arrive(p) PROVE PhaseTypes' /\ UNCHANGED conf
  BY <1>1, <1>3 DEF Arrive, Arrives, Goes, PhaseTypes, Phases
<1>4. ASSUME NEW p \in conf.players, Leave(p) PROVE PhaseTypes' /\ UNCHANGED conf
  BY <1>1, <1>4 DEF Leave, LeaveCallbacks, Goes, PhaseTypes, Phases
<1> QED
  BY <1>2, <1>3, <1>4, PlayersMove DEF NobodyGoes

LEMMA TurfNext ==
    ASSUME TurfInv, [Next]_vars
    PROVE  TurfInv'
<1>1. TurfStep \/ UNCHANGED turfvars
  BY DEF Next, Login, Arrive, Enter, Leave, Disconnect, Free, Coming, vars
<1>2. PhaseTypes' /\ UNCHANGED conf
  BY PhasesStay DEF TurfInv
<1>3. ASSUME UNCHANGED turfvars PROVE TurfInv'
  BY <1>2, <1>3 DEF TurfInv, ListsFit, ChancesFit, turfvars
<1> QED
  BY <1>1, <1>3, TurfSteps

\* The lists of teams and players are those of the flags, and empty of people between dings.
THEOREM TurfInvariant == Spec => []TurfInv
<1>1. TurfInv /\ [Next]_vars => TurfInv'
  BY TurfNext
<1> QED
  BY <1>1, TurfBegins, PTL DEF Spec

\* However tags, kills, dings, resets and changes of team follow each other: a flag is in the
\* lists of its team and its tagger, a frequency has one chance to recover a flag, and a ding
\* gives everybody his points once.
THEOREM RewardsStayRight == Spec => []TurfRewards
<1>1. TurfInv => TurfRewards
  BY DEF TurfInv, ListsFit, ChancesFit, TurfRewards, TurfListsAgree, OneChanceToRecover, RewardedOnce
<1> QED
  BY <1>1, TurfInvariant, PTL

----------------------------------------------------------------------------
(* The peers.                                                              *)

\* What w tells z of its arenas, z takes.
Tells(w, z) ==
    /\ \E k \in conf.links : k.from = w /\ k.to = z /\ k.kind = "list"
    /\ <<z, w>> \in Links /\ ~Link(z, w).sendOnly

\* News of an arena goes away from the zone that has it, whichever way it takes.
Outward ==
    \A w, z \in PeerZones : Tells(w, z) =>
        /\ Far(z) \in Nat /\ (w \in conf.hosts => Far(z) >= 1)
        /\ \A v \in PeerZones \ {z} : <<w, v>> \in conf.relays /\ Tells(v, w) => Far(z) >= Far(w) + 1

\* A place among the timestamps is not used again while what was there can still come twice.
RepeatsAreKnown == conf.delay < conf.buckets

NewsSpreads == Has("peer") => Outward /\ RepeatsAreKnown

\* How much older news can be with a zone than with the one that told it.
Lag == conf.stale + conf.sweep + conf.delay

PeerTypes ==
    /\ conf \in Configs /\ clock \in Nat
    /\ swept \in [PeerZones -> Int] /\ stamps \in [Links -> [Buckets -> Nat]]
    /\ said \subseteq {1, 2} /\ displayed \in [PeerZones -> Seq({1, 2})]
    /\ tables = [l \in Links |-> tables[l]] /\ own = [z \in PeerZones |-> own[z]]
    /\ \A z \in PeerZones : z \notin conf.hosts => DOMAIN own[z] = {}

SweptInTime == \A z \in Zones : swept[z] <= clock /\ clock <= swept[z] + conf.sweep

AirFits ==
    \A packet \in air :
        /\ packet.from \in PeerZones /\ packet.to \in PeerZones
        /\ packet.type \in {"list", "count", "message", "unknown"}
        /\ packet.stamp \in Nat /\ packet.stamp <= clock /\ clock <= packet.stamp + conf.delay

\* What is told is as old as its sender knows, which is Lag less than its receiver may.
PacketsAreFresh ==
    \A packet \in air : packet.type = "list" =>
        /\ \E k \in conf.links : k.from = packet.from /\ k.to = packet.to /\ k.kind = "list"
        /\ Tells(packet.from, packet.to) =>
              \A n \in DOMAIN packet.body :
                  /\ packet.body[n].since \in Int
                  /\ packet.stamp - packet.body[n].since <= Far(packet.to) * Lag - Lag

\* What is in a table was not too old when it came, and was not too long there when the
\* table was last swept.
TablesAreFresh ==
    \A l \in Links : \A n \in DOMAIN tables[l] :
        LET e == tables[l][n]
        IN  /\ Tells(l[2], l[1]) /\ e.since \in Int /\ e.last \in Int
            /\ e.last - e.since <= conf.delay + Far(l[1]) * Lag - Lag
            /\ swept[l[1]] <= e.last + conf.stale

\* A message goes out once, and from where it has been shown its timestamp is still there.
MessagesFit ==
    /\ \A packet \in air : packet.type = "message" =>
          /\ packet.body \in said
          /\ \A other \in air : other.type = "message" /\ other.body = packet.body =>
                other.from = packet.from /\ other.stamp = packet.stamp
          /\ <<packet.to, packet.from>> \in Links /\ packet.body \in ToSet(displayed[packet.to]) =>
                Received(<<packet.to, packet.from>>, packet)
    /\ ShownOnce

PeerInv == PeerTypes /\ SweptInTime /\ AirFits /\ PacketsAreFresh /\ TablesAreFresh /\ MessagesFit

\* Links are between zones, and the settings are numbers.
LEMMA SettingsOfPeers ==
    ASSUME conf \in Configs
    PROVE  /\ \A l \in conf.links : l.from \in PeerZones /\ l.to \in PeerZones
           /\ Links \subseteq PeerZones \X PeerZones /\ Zones \subseteq PeerZones /\ conf.relays \subseteq Links
           /\ \A l \in Links : l[1] \in Zones
           /\ conf.delay \in Nat /\ conf.stale \in Nat /\ conf.sweep \in Nat \ {0} /\ conf.buckets \in Nat \ {0}
           /\ Lag \in Nat
<1>1. /\ \A l \in conf.links : l.from \in PeerZones /\ l.to \in PeerZones
      /\ conf.relays \subseteq {<<l.from, l.to>> : l \in conf.links}
      /\ conf.delay \in Nat /\ conf.stale \in Nat /\ conf.sweep \in Nat \ {0} /\ conf.buckets \in Nat \ {0}
  BY PeerAssumption
<1>2. Lag \in Nat
  BY <1>1 DEF Lag
<1>3. \A l \in Links : \E k \in conf.links : l = <<k.from, k.to>>
  BY DEF Links
<1>4. Links \subseteq PeerZones \X PeerZones /\ \A l \in Links : l[1] \in Zones
  BY <1>1, <1>3 DEF Zones
<1>5. Zones \subseteq PeerZones /\ conf.relays \subseteq Links
  BY <1>1 DEF Zones, Links
<1> QED
  BY <1>1, <1>2, <1>4, <1>5

LEMMA PeerBegins == Init => PeerInv
<1> SUFFICES ASSUME Init PROVE PeerInv
  OBVIOUS
<1>1. conf \in Configs /\ PeerInit
  BY DEF Init, ClientsInit
<1> USE DEF PeerInit
<1>2. /\ conf.sweep \in Nat \ {0} /\ Zones \subseteq PeerZones /\ conf.buckets \in Nat \ {0}
  BY <1>1, SettingsOfPeers
<1>3. displayed \in [PeerZones -> Seq({1, 2})] /\ \A z \in PeerZones : displayed[z] = <<>>
  <2>1. <<>> \in Seq({1, 2})
    OBVIOUS
  <2> QED
    BY <1>1, <2>1
<1>4. swept \in [PeerZones -> Int] /\ \A z \in PeerZones : swept[z] <= 1 /\ 2 <= swept[z] + conf.sweep
  BY <1>1, <1>2
<1>5. stamps \in [Links -> [Buckets -> Nat]] /\ tables = [l \in Links |-> tables[l]] /\ air = {} /\ said = {} /\ clock = 1
  BY <1>1
<1>6. own = [z \in PeerZones |-> own[z]] /\ \A z \in PeerZones : z \notin conf.hosts => DOMAIN own[z] = {}
  BY <1>1
<1>7. PeerTypes
  BY <1>1, <1>3, <1>4, <1>5, <1>6 DEF PeerTypes
<1>8. SweptInTime
  BY <1>2, <1>4, <1>5 DEF SweptInTime
<1>9. \A l \in Links : DOMAIN tables[l] = {}
  BY <1>1
<1>10. TablesAreFresh
  BY <1>9 DEF TablesAreFresh
<1>11. MessagesFit
  <2>1. \A z \in PeerZones : DOMAIN displayed[z] = {} /\ ToSet(displayed[z]) = {}
    BY <1>3 DEF ToSet
  <2> QED
    BY <1>5, <2>1 DEF MessagesFit, ShownOnce, IsInjective
<1> QED
  BY <1>5, <1>7, <1>8, <1>10, <1>11 DEF PeerInv, AirFits, PacketsAreFresh

\* The settings stay, and with them who is how far from whom.
LEMMA NothingIsResettled ==
    ASSUME UNCHANGED conf
    PROVE  /\ Links' = Links /\ Zones' = Zones /\ Buckets' = Buckets /\ Lag' = Lag
           /\ \A z : Far(z)' = Far(z)
           /\ \A w, z : Tells(w, z)' = Tells(w, z) /\ Link(w, z)' = Link(w, z)
<1>1. Links' = Links /\ Zones' = Zones /\ Buckets' = Buckets /\ Lag' = Lag
  BY DEF Links, Zones, Buckets, Lag
<1>2. Near' = Near
  BY DEF Near, Links
<1>3. \A z : Far(z)' = Far(z)
  BY <1>2 DEF Far
<1>4. \A w, z : Link(w, z)' = Link(w, z)
  BY DEF Link
<1>5. \A w, z : Tells(w, z)' = Tells(w, z)
  BY <1>1, <1>4 DEF Tells
<1> QED
  BY <1>1, <1>3, <1>4, <1>5

\* Nothing that has come, is under way or has been shown changes.
LEMMA NothingIsTold ==
    ASSUME PeerInv, UNCHANGED <<conf, clock, tables, stamps, swept, air, said, displayed>>,
           own' = [z \in PeerZones |-> own'[z]], \A z \in PeerZones : z \notin conf.hosts => DOMAIN own'[z] = {}
    PROVE  PeerInv'
<1>1. /\ Links' = Links /\ Zones' = Zones /\ Buckets' = Buckets /\ Lag' = Lag
      /\ \A z : Far(z)' = Far(z)
      /\ \A w, z : Tells(w, z)' = Tells(w, z) /\ Link(w, z)' = Link(w, z)
  BY NothingIsResettled
<1>2. PeerTypes'
  BY <1>1 DEF PeerInv, PeerTypes
<1>3. SweptInTime' /\ AirFits'
  BY <1>1 DEF PeerInv, SweptInTime, AirFits
<1>4. PacketsAreFresh'
  BY <1>1 DEF PeerInv, PacketsAreFresh
<1>5. TablesAreFresh'
  BY <1>1 DEF PeerInv, TablesAreFresh
<1>6. MessagesFit'
  BY <1>1 DEF PeerInv, MessagesFit, ShownOnce, Received
<1> QED
  BY <1>2, <1>3, <1>4, <1>5, <1>6 DEF PeerInv

LEMMA MovesStep ==
    ASSUME PeerInv, NEW z \in Zones, Moves(z), UNCHANGED conf
    PROVE  PeerInv'
<1>1. z \in PeerZones
  BY SettingsOfPeers DEF PeerInv, PeerTypes
<1>2. own = [w \in PeerZones |-> own[w]] /\ \A w \in PeerZones : w \notin conf.hosts => DOMAIN own[w] = {}
  BY DEF PeerInv, PeerTypes
<1>3. PICK n \in DOMAIN own[z] :
          \/ own' = [own EXCEPT ![z] = Restrict(own[z], DOMAIN own[z] \ {n})]
          \/ \E p \in conf.guests : own' = [own EXCEPT ![z][n] = IF p \in @ THEN @ \ {p} ELSE @ \cup {p}]
  BY DEF Moves
<1>4. own' = [w \in PeerZones |-> own'[w]] /\ (\A w \in PeerZones \ {z} : own'[w] = own[w])
  BY <1>1, <1>2, <1>3
<1>5. z \in conf.hosts
  BY <1>1, <1>2, <1>3
<1>6. UNCHANGED <<conf, clock, tables, stamps, swept, air, said, displayed>>
  BY DEF Moves
<1> QED
  BY <1>2, <1>4, <1>5, <1>6, NothingIsTold

\* What stays in a table is as old as the property allows.
LEMMA TablesAreNotTooOld ==
    ASSUME PeerInv, Outward
    PROVE  /\ \A l \in Links : DOMAIN tables[l] # {} => Tells(l[2], l[1]) /\ Far(l[1]) \in Nat
           /\ \A l \in Links : \A n \in DOMAIN tables[l] :
                 tables[l][n].since \in Int /\ clock - tables[l][n].since <= Far(l[1]) * Lag
<1>1. conf \in Configs /\ clock \in Nat /\ swept \in [PeerZones -> Int]
  BY DEF PeerInv, PeerTypes
<1>2. ASSUME NEW l \in Links, NEW n \in DOMAIN tables[l]
      PROVE  /\ Tells(l[2], l[1]) /\ Far(l[1]) \in Nat
             /\ tables[l][n].since \in Int /\ clock - tables[l][n].since <= Far(l[1]) * Lag
  <2> DEFINE e == tables[l][n]
  <2>1. /\ Tells(l[2], l[1]) /\ e.since \in Int /\ e.last \in Int
        /\ e.last - e.since <= conf.delay + Far(l[1]) * Lag - Lag
        /\ swept[l[1]] <= e.last + conf.stale
    BY DEF PeerInv, TablesAreFresh
  <2>2. l[1] \in Zones /\ l[1] \in PeerZones /\ l[2] \in PeerZones
    BY <1>1, SettingsOfPeers
  <2>3. Far(l[1]) \in Nat
    BY <2>1, <2>2 DEF Outward
  <2>4. clock <= swept[l[1]] + conf.sweep
    BY <2>2 DEF PeerInv, SweptInTime
  <2>5. conf.delay \in Nat /\ conf.stale \in Nat /\ conf.sweep \in Nat /\ Lag \in Nat
    BY <1>1, SettingsOfPeers
  <2>6. PICK far \in Nat : far = Far(l[1])
    BY <2>3
  <2>7. PICK x \in Nat : x = far * Lag
    BY <2>5, <2>6
  <2>8. PICK s \in Int, t \in Int, u \in Int : s = e.since /\ t = e.last /\ u = swept[l[1]]
    BY <1>1, <2>1, <2>2
  <2>9. t - s <= conf.delay + x - Lag /\ u <= t + conf.stale /\ clock <= u + conf.sweep
    BY <2>1, <2>4, <2>6, <2>7, <2>8
  <2>10. clock - s <= x
    BY <1>1, <2>5, <2>9 DEF Lag
  <2> QED
    BY <2>1, <2>3, <2>6, <2>7, <2>8, <2>10
<1> QED
  BY <1>2

\* What z tells w is Lag less old than w may know it.
LEMMA NewsIsFresh ==
    ASSUME PeerInv, Outward, NEW z \in PeerZones, NEW w \in PeerZones, Tells(z, w),
           NEW n \in DOMAIN Over(Relayed(z, w), Owned(z))
    PROVE  /\ Over(Relayed(z, w), Owned(z))[n].since \in Int
           /\ clock - Over(Relayed(z, w), Owned(z))[n].since <= Far(w) * Lag - Lag
<1>1. conf \in Configs /\ clock \in Nat /\ Lag \in Nat /\ conf.relays \subseteq Links
  BY SettingsOfPeers DEF PeerInv, PeerTypes
<1>2. Far(w) \in Nat
  BY DEF Outward
<1>3. CASE n \in DOMAIN Relayed(z, w)
  <2> DEFINE from == {v \in PeerZones \ {w} : <<z, v>> \in conf.relays}
             who == CHOOSE v \in from : n \in DOMAIN tables[<<z, v>>]
             e == tables[<<z, who>>][n]
  <2>1. DOMAIN Relayed(z, w) = UNION {DOMAIN tables[<<z, v>>] : v \in from}
    BY DEF Relayed
  <2>2. \E v \in from : n \in DOMAIN tables[<<z, v>>]
    BY <1>3, <2>1
  <2>3. who \in from /\ n \in DOMAIN tables[<<z, who>>]
    BY <2>2
  <2>4. Relayed(z, w)[n].since = e.since
    BY <1>3 DEF Relayed
  <2>5. Over(Relayed(z, w), Owned(z))[n] = Relayed(z, w)[n]
    BY <1>3 DEF Over
  <2> HIDE DEF who
  <2>6. <<z, who>> \in Links
    BY <1>1, <2>3
  <2>7. /\ Tells(who, z) /\ Far(z) \in Nat /\ e.since \in Int /\ clock - e.since <= Far(z) * Lag
    BY <2>3, <2>6, TablesAreNotTooOld
  <2>8. Far(w) >= Far(z) + 1
    BY <2>3, <2>7 DEF Outward
  <2>9. PICK f1 \in Nat, f2 \in Nat, s \in Int, d \in Nat : f1 = Far(z) /\ f2 = Far(w) /\ s = e.since /\ d = Lag
    BY <1>1, <1>2, <2>7
  <2>10. f2 >= f1 + 1 /\ clock - s <= f1 * d
    BY <2>7, <2>8, <2>9
  <2>11. f1 * d <= f2 * d - d
    <3>1. PICK m \in Nat : f2 = f1 + 1 + m
      <4>1. f2 - f1 - 1 \in Nat
        BY <2>10
      <4> QED
        BY <4>1
    <3>2. f2 * d = f1 * d + d + m * d
      BY <3>1
    <3>3. m * d \in Nat /\ f1 * d \in Nat
      OBVIOUS
    <3> QED
      BY <3>2, <3>3
  <2>12. clock - s <= f2 * d - d
    <3>1. f1 * d \in Nat /\ f2 * d \in Nat
      OBVIOUS
    <3> QED
      BY <1>1, <2>10, <2>11, <3>1
  <2> QED
    BY <2>4, <2>5, <2>7, <2>9, <2>12
<1>4. CASE n \notin DOMAIN Relayed(z, w)
  <2>1. n \in DOMAIN own[z] /\ Over(Relayed(z, w), Owned(z))[n].since = clock
    BY <1>4 DEF Over, Owned
  <2>2. z \in conf.hosts
    BY <2>1 DEF PeerInv, PeerTypes
  <2>3. Far(w) >= 1
    BY <2>2 DEF Outward
  <2>4. PICK f2 \in Nat, d \in Nat : f2 = Far(w) /\ d = Lag
    BY <1>1, <1>2
  <2>5. f2 * d - d >= 0
    <3>1. PICK m \in Nat : f2 = m + 1
      <4>1. f2 - 1 \in Nat
        BY <2>3, <2>4
      <4> QED
        BY <4>1
    <3>2. f2 * d = m * d + d /\ m * d \in Nat
      BY <3>1
    <3> QED
      BY <3>2
  <2> QED
    BY <1>1, <2>1, <2>4, <2>5
<1> QED
  BY <1>3, <1>4

\* The packets of an update.
LEMMA UpdateIs ==
    ASSUME NEW z, NEW l, l.kind \in {"list", "count", "zero"}
    PROVE  /\ Update(z, l).from = z /\ Update(z, l).to = l.to /\ Update(z, l).stamp = clock
           /\ Update(z, l).type \in {"list", "count", "unknown"}
           /\ Update(z, l).type = "list" =>
                 l.kind = "list" /\ Update(z, l).body = Over(Relayed(z, l.to), Owned(z))
<1>1. CASE l.kind = "list"
  BY <1>1 DEF Update, Packet
<1>2. CASE l.kind = "count"
  BY <1>2 DEF Update, Packet
<1>3. CASE l.kind = "zero"
  BY <1>3 DEF Update, Packet
<1> QED
  BY <1>1, <1>2, <1>3

LEMMA UpdateStep ==
    ASSUME PeerInv, Outward, NEW z \in Zones, PeriodicUpdate(z), UNCHANGED conf
    PROVE  PeerInv'
<1> DEFINE links == {m \in conf.links : m.from = z}
           new == {Update(z, l) : l \in links}
<1>1. UNCHANGED <<conf, clock, own, tables, counts, stamps, swept, said, displayed>> /\ air' = air \cup new
  BY DEF PeriodicUpdate
<1>2. conf \in Configs /\ clock \in Nat
  BY DEF PeerInv, PeerTypes
<1>3. /\ \A l \in conf.links : l.from \in PeerZones /\ l.to \in PeerZones /\ l.kind \in {"list", "count", "zero"}
      /\ conf.delay \in Nat
  BY <1>2, PeerAssumption
<1>4. /\ Links' = Links /\ Zones' = Zones /\ Buckets' = Buckets /\ Lag' = Lag
      /\ \A w : Far(w)' = Far(w)
      /\ \A v, w : Tells(v, w)' = Tells(v, w) /\ Link(v, w)' = Link(v, w)
  BY NothingIsResettled
<1>5. \A packet \in new : \E l \in conf.links :
         /\ l.from = z /\ packet.from = z /\ packet.to = l.to /\ packet.stamp = clock
         /\ packet.type \in {"list", "count", "unknown"}
         /\ packet.type = "list" => l.kind = "list" /\ packet.body = Over(Relayed(z, l.to), Owned(z))
  BY <1>3, UpdateIs
<1> HIDE DEF new
<1>6. PeerTypes'
  BY <1>1, <1>4 DEF PeerInv, PeerTypes
<1>7. SweptInTime' /\ TablesAreFresh'
  BY <1>1, <1>4 DEF PeerInv, SweptInTime, TablesAreFresh
<1>8. AirFits'
  BY <1>1, <1>2, <1>3, <1>5 DEF PeerInv, AirFits
<1>9. PacketsAreFresh'
  <2>1. ASSUME NEW packet \in new, packet.type = "list"
        PROVE  /\ \E k \in conf.links : k.from = packet.from /\ k.to = packet.to /\ k.kind = "list"
               /\ Tells(packet.from, packet.to) =>
                     \A n \in DOMAIN packet.body :
                         /\ packet.body[n].since \in Int
                         /\ packet.stamp - packet.body[n].since <= Far(packet.to) * Lag - Lag
    <3>1. PICK l \in conf.links :
             /\ l.from = z /\ packet.from = z /\ packet.to = l.to /\ packet.stamp = clock
             /\ l.kind = "list" /\ packet.body = Over(Relayed(z, l.to), Owned(z))
      BY <1>5, <2>1
    <3>2. z \in PeerZones /\ l.to \in PeerZones
      BY <1>3, <3>1
    <3>3. ASSUME Tells(z, l.to), NEW n \in DOMAIN packet.body
          PROVE  packet.body[n].since \in Int /\ clock - packet.body[n].since <= Far(l.to) * Lag - Lag
      BY <3>1, <3>2, <3>3, NewsIsFresh
    <3> QED
      BY <3>1, <3>3
  <2> QED
    BY <1>1, <1>4, <2>1 DEF PeerInv, PacketsAreFresh
<1>10. MessagesFit'
  BY <1>1, <1>4, <1>5 DEF PeerInv, MessagesFit, ShownOnce, Received
<1> QED
  BY <1>6, <1>7, <1>8, <1>9, <1>10 DEF PeerInv

LEMMA MessageStep ==
    ASSUME PeerInv, NEW z \in Zones, SendMessageToPeer(z), UNCHANGED conf
    PROVE  PeerInv'
<1>1. PICK m \in {1, 2} \ said :
         /\ said' = said \cup {m}
         /\ air' = air \cup {Packet(z, l.to, "message", m) : l \in {k \in conf.links : k.from = z /\ k.messages}}
  BY DEF SendMessageToPeer
<1> DEFINE new == {Packet(z, l.to, "message", m) : l \in {k \in conf.links : k.from = z /\ k.messages}}
<1>2. UNCHANGED <<conf, clock, own, tables, counts, stamps, swept, displayed>> /\ air' = air \cup new
  BY <1>1 DEF SendMessageToPeer
<1>3. conf \in Configs /\ clock \in Nat /\ said \subseteq {1, 2} /\ displayed \in [PeerZones -> Seq({1, 2})]
  BY DEF PeerInv, PeerTypes
<1>4. (\A l \in conf.links : l.from \in PeerZones /\ l.to \in PeerZones) /\ conf.delay \in Nat
  BY <1>3, SettingsOfPeers
<1>5. /\ Links' = Links /\ Zones' = Zones /\ Buckets' = Buckets /\ Lag' = Lag
      /\ \A w : Far(w)' = Far(w)
      /\ \A v, w : Tells(v, w)' = Tells(v, w) /\ Link(v, w)' = Link(v, w)
  BY NothingIsResettled
<1>6. \A packet \in new :
         /\ packet.from = z /\ packet.from \in PeerZones /\ packet.to \in PeerZones /\ packet.stamp = clock
         /\ packet.type = "message" /\ packet.body = m
  BY <1>4 DEF Packet
<1> HIDE DEF new
<1>7. PeerTypes'
  BY <1>1, <1>2, <1>5 DEF PeerInv, PeerTypes
<1>8. SweptInTime' /\ TablesAreFresh' /\ PacketsAreFresh'
  BY <1>2, <1>5, <1>6 DEF PeerInv, SweptInTime, TablesAreFresh, PacketsAreFresh
<1>9. AirFits'
  BY <1>2, <1>3, <1>4, <1>6 DEF PeerInv, AirFits
<1>10. MessagesFit'
  <2>1. \A packet \in air : packet.type = "message" => packet.body \in said /\ packet.body # m
    BY <1>1 DEF PeerInv, MessagesFit
  <2>2. \A w \in PeerZones : ToSet(displayed[w]) \subseteq said
    BY DEF PeerInv, MessagesFit, ShownOnce
  <2>3. ASSUME NEW packet \in new
        PROVE  packet.body \notin ToSet(displayed[packet.to])
    BY <1>1, <1>6, <2>2
  <2>4. ASSUME NEW packet \in air', packet.type = "message"
        PROVE  /\ packet.body \in said'
               /\ \A other \in air' : other.type = "message" /\ other.body = packet.body =>
                     other.from = packet.from /\ other.stamp = packet.stamp
               /\ <<packet.to, packet.from>> \in Links' /\ packet.body \in ToSet(displayed'[packet.to]) =>
                     Received(<<packet.to, packet.from>>, packet)'
    <3>1. CASE packet \in new
      BY <1>1, <1>2, <1>6, <2>1, <2>3, <3>1
    <3>2. CASE packet \in air
      BY <1>1, <1>2, <1>5, <1>6, <2>1, <2>4, <3>2 DEF PeerInv, MessagesFit, Received
    <3> QED
      BY <1>2, <3>1, <3>2
  <2>5. ShownOnce'
    BY <1>1, <1>2 DEF PeerInv, MessagesFit, ShownOnce
  <2> QED
    BY <2>4, <2>5 DEF MessagesFit
<1> QED
  BY <1>7, <1>8, <1>9, <1>10 DEF PeerInv

LEMMA SweepStep ==
    ASSUME PeerInv, NEW z \in Zones, RemoveStaleArenas(z), UNCHANGED conf
    PROVE  PeerInv'
<1>1. /\ UNCHANGED <<conf, clock, own, counts, stamps, air, said, displayed>>
      /\ swept[z] + conf.sweep = clock /\ swept' = [swept EXCEPT ![z] = clock]
      /\ tables' = [l \in Links |-> IF l[1] # z THEN tables[l]
                      ELSE Restrict(tables[l], {n \in DOMAIN tables[l] : ~Stale(tables[l][n])})]
  BY DEF RemoveStaleArenas
<1>2. conf \in Configs /\ clock \in Nat /\ swept \in [PeerZones -> Int]
  BY DEF PeerInv, PeerTypes
<1>3. /\ Zones \subseteq PeerZones /\ Links \subseteq PeerZones \X PeerZones
      /\ conf.sweep \in Nat \ {0} /\ conf.stale \in Nat
  BY <1>2, SettingsOfPeers
<1>4. /\ Links' = Links /\ Zones' = Zones /\ Buckets' = Buckets /\ Lag' = Lag
      /\ \A w : Far(w)' = Far(w)
      /\ \A v, w : Tells(v, w)' = Tells(v, w) /\ Link(v, w)' = Link(v, w)
  BY NothingIsResettled
<1>5. PeerTypes'
  BY <1>1, <1>2, <1>3, <1>4 DEF PeerInv, PeerTypes
<1>6. SweptInTime'
  BY <1>1, <1>2, <1>3, <1>4 DEF PeerInv, SweptInTime
<1>7. AirFits' /\ PacketsAreFresh'
  BY <1>1, <1>4 DEF PeerInv, AirFits, PacketsAreFresh
<1>8. MessagesFit'
  BY <1>1, <1>4 DEF PeerInv, MessagesFit, ShownOnce, Received
<1>9. TablesAreFresh'
  <2>1. ASSUME NEW l \in Links, NEW n \in DOMAIN tables'[l]
        PROVE  /\ n \in DOMAIN tables[l] /\ tables'[l][n] = tables[l][n]
               /\ l[1] = z => ~(clock - tables[l][n].last > conf.stale)
    BY <1>1, <2>1 DEF Restrict, Stale
  <2>2. ASSUME NEW l \in Links, NEW n \in DOMAIN tables'[l]
        PROVE  /\ Tells(l[2], l[1]) /\ tables'[l][n].since \in Int /\ tables'[l][n].last \in Int
               /\ tables'[l][n].last - tables'[l][n].since <= conf.delay + Far(l[1]) * Lag - Lag
               /\ swept'[l[1]] <= tables'[l][n].last + conf.stale
    <3> DEFINE e == tables[l][n]
    <3>1. /\ Tells(l[2], l[1]) /\ e.since \in Int /\ e.last \in Int
          /\ e.last - e.since <= conf.delay + Far(l[1]) * Lag - Lag
          /\ swept[l[1]] <= e.last + conf.stale
      BY <2>1, <2>2 DEF PeerInv, TablesAreFresh
    <3>2. tables'[l][n] = e /\ (l[1] = z => ~(clock - e.last > conf.stale))
      BY <2>1, <2>2
    <3> HIDE DEF e
    <3>3. l[1] \in PeerZones
      BY <1>3
    <3>4. l[1] = z => clock <= e.last + conf.stale
      BY <1>2, <1>3, <3>1, <3>2
    <3>5. swept'[l[1]] <= e.last + conf.stale
      BY <1>1, <1>2, <3>1, <3>3, <3>4
    <3> QED
      BY <3>1, <3>2, <3>5
  <2> QED
    BY <1>1, <1>4, <2>2, ZenonT(60) DEF TablesAreFresh
<1> QED
  BY <1>5, <1>6, <1>7, <1>8, <1>9 DEF PeerInv

LEMMA PassesStep ==
    ASSUME PeerInv, Passes, UNCHANGED conf
    PROVE  PeerInv'
<1>1. /\ UNCHANGED <<conf, own, tables, counts, stamps, swept, said, displayed>>
      /\ clock' = clock + 1 /\ air' = {packet \in air : packet.stamp + conf.delay >= clock'}
      /\ \A z \in Zones : swept[z] + conf.sweep > clock
  BY DEF Passes
<1>2. conf \in Configs /\ clock \in Nat /\ swept \in [PeerZones -> Int]
  BY DEF PeerInv, PeerTypes
<1>3. Zones \subseteq PeerZones /\ conf.sweep \in Nat \ {0} /\ conf.delay \in Nat
  BY <1>2, SettingsOfPeers
<1>4. /\ Links' = Links /\ Zones' = Zones /\ Buckets' = Buckets /\ Lag' = Lag
      /\ \A w : Far(w)' = Far(w)
      /\ \A v, w : Tells(v, w)' = Tells(v, w) /\ Link(v, w)' = Link(v, w)
  BY NothingIsResettled
<1>5. PeerTypes'
  BY <1>1, <1>2, <1>4 DEF PeerInv, PeerTypes
<1>6. SweptInTime'
  BY <1>1, <1>2, <1>3, <1>4 DEF PeerInv, SweptInTime
<1>7. AirFits'
  BY <1>1, <1>2, <1>3 DEF PeerInv, AirFits
<1>8. PacketsAreFresh' /\ TablesAreFresh'
  BY <1>1, <1>4 DEF PeerInv, PacketsAreFresh, TablesAreFresh
<1>9. MessagesFit'
  BY <1>1, <1>4 DEF PeerInv, MessagesFit, ShownOnce, Received
<1> QED
  BY <1>5, <1>6, <1>7, <1>8, <1>9 DEF PeerInv

LEMMA ShownOnceMore ==
    \A s \in Seq({1, 2}), m \in {1, 2} :
        IsInjective(s) /\ m \notin ToSet(s) =>
            IsInjective(Append(s, m)) /\ ToSet(Append(s, m)) = ToSet(s) \cup {m}
<1> SUFFICES ASSUME NEW s \in Seq({1, 2}), NEW m \in {1, 2}, IsInjective(s), m \notin ToSet(s)
             PROVE  IsInjective(Append(s, m)) /\ ToSet(Append(s, m)) = ToSet(s) \cup {m}
  OBVIOUS
<1>1. /\ DOMAIN s = 1 .. Len(s) /\ DOMAIN Append(s, m) = 1 .. Len(s) + 1 /\ Len(s) \in Nat
      /\ \A i \in DOMAIN s : Append(s, m)[i] = s[i]
      /\ Append(s, m)[Len(s) + 1] = m
  OBVIOUS
<1>2. \A i \in DOMAIN s : s[i] # m
  BY DEF ToSet
<1>3. PICK k : k = Len(s) + 1
  OBVIOUS
<1>4. PICK t : t = Append(s, m)
  OBVIOUS
<1>5. /\ DOMAIN t = DOMAIN s \cup {k} /\ k \notin DOMAIN s
      /\ (\A i \in DOMAIN s : t[i] = s[i]) /\ t[k] = m
  BY <1>1, <1>3, <1>4
<1>6. IsInjective(t)
  BY <1>2, <1>5 DEF IsInjective
<1>7. ToSet(t) = ToSet(s) \cup {m}
  <2>1. ASSUME NEW x PROVE x \in ToSet(t) <=> x \in ToSet(s) \cup {m}
    <3>1. x \in ToSet(t) <=> \E i \in DOMAIN t : x = t[i]
      BY DEF ToSet
    <3>2. x \in ToSet(s) <=> \E i \in DOMAIN s : x = s[i]
      BY DEF ToSet
    <3> QED
      BY <1>5, <3>1, <3>2
  <2> QED
    BY <2>1
<1>8. IsInjective(Append(s, m))
  BY <1>4, <1>6, Zenon
<1>9. ToSet(Append(s, m)) = ToSet(s) \cup {m}
  BY <1>4, <1>7, Zenon
<1> QED
  BY <1>8, <1>9

LEMMA ArrivalStep ==
    ASSUME PeerInv, Outward, RepeatsAreKnown, NEW packet \in air, PeerConnInitCB(packet), UNCHANGED conf
    PROVE  PeerInv'
<1> DEFINE z == packet.to
           l == <<z, packet.from>>
           b == conf.buckets
<1>1. /\ packet.type # "unknown" /\ l \in Links /\ ~Link(z, packet.from).sendOnly
      /\ ~Received(l, packet)
      /\ stamps' = [stamps EXCEPT ![l][packet.stamp % conf.buckets] = packet.stamp]
      /\ tables' = CASE packet.type = "list" -> [tables EXCEPT ![l] = HandlePlayerList(l, packet.body)]
                     [] packet.type = "count" -> [tables EXCEPT ![l] = <<>>]
                     [] packet.type = "message" -> tables
      /\ displayed' = IF packet.type = "message" THEN [displayed EXCEPT ![z] = Append(@, packet.body)] ELSE displayed
      /\ UNCHANGED <<clock, own, swept, air, said>>
  BY DEF PeerConnInitCB
<1>2. /\ conf \in Configs /\ clock \in Nat /\ swept \in [PeerZones -> Int] /\ stamps \in [Links -> [Buckets -> Nat]]
      /\ said \subseteq {1, 2} /\ displayed \in [PeerZones -> Seq({1, 2})]
      /\ tables = [k \in Links |-> tables[k]]
  BY DEF PeerInv, PeerTypes
<1>3. \A q \in air : /\ q.from \in PeerZones /\ q.to \in PeerZones
                     /\ q.type \in {"list", "count", "message", "unknown"}
                     /\ q.stamp \in Nat /\ q.stamp <= clock /\ clock <= q.stamp + conf.delay
  BY DEF PeerInv, AirFits
<1>4. /\ conf.delay \in Nat /\ conf.stale \in Nat /\ b \in Nat \ {0} /\ Lag \in Nat /\ conf.delay < b
      /\ Links \subseteq PeerZones \X PeerZones /\ \A k \in Links : k[1] \in Zones
  BY <1>2, SettingsOfPeers DEF RepeatsAreKnown
<1>5. /\ Links' = Links /\ Zones' = Zones /\ Buckets' = Buckets /\ Lag' = Lag
      /\ \A w : Far(w)' = Far(w)
      /\ \A v, w : Tells(v, w)' = Tells(v, w) /\ Link(v, w)' = Link(v, w)
  BY NothingIsResettled
<1>6. \A q \in air : (q.stamp % b) \in Buckets
  BY <1>3, <1>4, Division DEF Buckets
<1>7. stamps' \in [Links -> [Buckets -> Nat]]
  BY <1>1, <1>2, <1>3, <1>6
<1>8. /\ packet.type = "list" => tables' = [tables EXCEPT ![l] = HandlePlayerList(l, packet.body)]
      /\ packet.type = "count" => tables' = [tables EXCEPT ![l] = <<>>]
      /\ packet.type = "message" => tables' = tables
      /\ packet.type \in {"list", "count", "message"}
  <2>1. packet.type \in {"list", "count", "message"}
    BY <1>1, <1>3
  <2>2. CASE packet.type = "list"
    BY <1>1, <2>2
  <2>3. CASE packet.type = "count"
    BY <1>1, <2>3
  <2>4. CASE packet.type = "message"
    BY <1>1, <2>4
  <2> QED
    BY <2>1, <2>2, <2>3, <2>4
<1>9. tables' = [k \in Links |-> tables'[k]] /\ \A k \in Links \ {l} : tables'[k] = tables[k]
  <2>1. CASE packet.type = "list"
    BY <1>1, <1>2, <1>8, <2>1
  <2>2. CASE packet.type = "count"
    BY <1>1, <1>2, <1>8, <2>2
  <2>3. CASE packet.type = "message"
    BY <1>2, <1>8, <2>3
  <2> QED
    BY <1>8, <2>1, <2>2, <2>3
<1>10. packet.type = "message" => packet.body \in said /\ packet.body \notin ToSet(displayed[z])
  BY <1>1 DEF PeerInv, MessagesFit
<1>11. PeerTypes'
  <2>1. displayed' \in [PeerZones -> Seq({1, 2})]
    BY <1>1, <1>2, <1>3, <1>10
  <2> QED
    BY <1>1, <1>2, <1>5, <1>7, <1>9, <2>1 DEF PeerInv, PeerTypes
<1>12. SweptInTime' /\ AirFits' /\ PacketsAreFresh'
  BY <1>1, <1>5 DEF PeerInv, SweptInTime, AirFits, PacketsAreFresh
<1>13. TablesAreFresh'
  <2>1. ASSUME NEW n \in DOMAIN tables'[l], n \notin DOMAIN tables[l] \/ tables'[l][n] # tables[l][n]
        PROVE  /\ packet.type = "list" /\ n \in DOMAIN packet.body
               /\ tables'[l][n] = [players |-> packet.body[n].players, since |-> packet.body[n].since, last |-> clock]
    <3>1. packet.type # "message"
      BY <1>8, <2>1
    <3>2. packet.type # "count"
      <4>1. ASSUME packet.type = "count" PROVE tables'[l] = <<>>
        BY <1>1, <1>2, <1>8, <4>1
      <4> QED
        BY <2>1, <4>1
    <3>3. packet.type = "list"
      BY <1>8, <3>1, <3>2
    <3>4. tables'[l] = HandlePlayerList(l, packet.body)
      BY <1>1, <1>2, <1>8, <3>3
    <3>5. n \in DOMAIN packet.body
      BY <2>1, <3>4 DEF HandlePlayerList, Over
    <3> QED
      BY <3>3, <3>4, <3>5 DEF HandlePlayerList, Over
  <2>2. ASSUME NEW n \in DOMAIN packet.body, packet.type = "list"
        PROVE  /\ Tells(packet.from, z) /\ packet.body[n].since \in Int
               /\ clock - packet.body[n].since <= conf.delay + Far(z) * Lag - Lag
               /\ swept[z] <= clock + conf.stale
    <3>1. Tells(packet.from, z)
      BY <1>1, <2>2 DEF PeerInv, PacketsAreFresh, Tells
    <3>2. packet.body[n].since \in Int /\ packet.stamp - packet.body[n].since <= Far(z) * Lag - Lag
      BY <2>2, <3>1 DEF PeerInv, PacketsAreFresh
    <3>3. Far(z) \in Nat
      BY <1>3, <3>1 DEF Outward
    <3>4. PICK x \in Nat : x = Far(z) * Lag
      BY <1>4, <3>3
    <3>5. z \in Zones /\ z \in PeerZones
      BY <1>1, <1>3, <1>4
    <3>6. swept[z] <= clock
      BY <3>5 DEF PeerInv, SweptInTime
    <3>7. PICK s \in Int, t \in Nat : s = packet.body[n].since /\ t = packet.stamp
      BY <1>3, <3>2
    <3>8. t - s <= x - Lag /\ clock <= t + conf.delay
      BY <1>3, <3>2, <3>4, <3>7
    <3>9. clock - s <= conf.delay + x - Lag
      BY <1>2, <1>4, <3>8
    <3>10. swept[z] <= clock + conf.stale
      BY <1>2, <1>4, <3>5, <3>6
    <3> QED
      BY <3>1, <3>2, <3>4, <3>7, <3>9, <3>10
  <2>3. ASSUME NEW k \in Links, NEW n \in DOMAIN tables'[k]
        PROVE  /\ Tells(k[2], k[1]) /\ tables'[k][n].since \in Int /\ tables'[k][n].last \in Int
               /\ tables'[k][n].last - tables'[k][n].since <= conf.delay + Far(k[1]) * Lag - Lag
               /\ swept[k[1]] <= tables'[k][n].last + conf.stale
    <3>1. CASE n \in DOMAIN tables[k] /\ tables'[k][n] = tables[k][n]
      BY <3>1 DEF PeerInv, TablesAreFresh
    <3>2. CASE n \notin DOMAIN tables[k] \/ tables'[k][n] # tables[k][n]
      <4>1. k = l
        BY <1>9, <2>3, <3>2
      <4>2. /\ packet.type = "list" /\ n \in DOMAIN packet.body
            /\ tables'[k][n] = [players |-> packet.body[n].players, since |-> packet.body[n].since, last |-> clock]
        BY <2>1, <2>3, <3>2, <4>1
      <4>3. tables'[k][n].since = packet.body[n].since /\ tables'[k][n].last = clock
        BY <4>2
      <4> QED
        BY <1>2, <2>2, <4>1, <4>2, <4>3
    <3> QED
      BY <3>1, <3>2
  <2> QED
    BY <1>1, <1>5, <2>3 DEF TablesAreFresh
<1>14. MessagesFit'
  <2>1. ASSUME NEW q \in air, q.type = "message", <<q.to, q.from>> \in Links,
               q.body \in ToSet(displayed'[q.to])
        PROVE  stamps'[<<q.to, q.from>>][q.stamp % b] = q.stamp
    <3>1. CASE q.body \in ToSet(displayed[q.to])
      <4>1. stamps[<<q.to, q.from>>][q.stamp % b] = q.stamp
        BY <2>1, <3>1 DEF PeerInv, MessagesFit, Received
      <4>2. CASE <<q.to, q.from>> = l /\ (q.stamp % b) = (packet.stamp % b)
        <5>1. PICK s \in Nat, t \in Nat : s = q.stamp /\ t = packet.stamp
          BY <1>3
        <5>2. s <= clock /\ clock <= s + conf.delay /\ t <= clock /\ clock <= t + conf.delay
          BY <1>3, <5>1
        <5>3. s - t < b /\ t - s < b
          BY <1>2, <1>4, <5>2
        <5>4. s = t
          <6>1. (s % b) = (t % b)
            BY <4>2, <5>1
          <6> HIDE DEF b
          <6> QED
            BY <1>4, <5>3, <6>1, ModUnique
        <5> QED
          BY <4>1, <1>1, <5>1, <5>4
      <4>3. CASE ~(<<q.to, q.from>> = l /\ (q.stamp % b) = (packet.stamp % b))
        BY <1>1, <1>2, <1>6, <2>1, <4>1, <4>3
      <4> QED
        BY <4>2, <4>3
    <3>2. CASE q.body \notin ToSet(displayed[q.to])
      <4>1. packet.type = "message" /\ q.to = z
        BY <1>1, <1>2, <1>3, <2>1, <3>2
      <4>2. displayed'[z] = Append(displayed[z], packet.body)
        BY <1>1, <1>2, <1>3, <4>1
      <4>3. ToSet(displayed'[z]) = ToSet(displayed[z]) \cup {packet.body}
        <5>1. displayed[z] \in Seq({1, 2}) /\ packet.body \in {1, 2} /\ IsInjective(displayed[z])
              /\ packet.body \notin ToSet(displayed[z])
          BY <1>2, <1>3, <1>10, <4>1 DEF PeerInv, MessagesFit, ShownOnce
        <5>2. ToSet(Append(displayed[z], packet.body)) = ToSet(displayed[z]) \cup {packet.body}
          BY <5>1, ShownOnceMore
        <5> QED
          BY <4>2, <5>2
      <4>4. q.body = packet.body
        BY <2>1, <3>2, <4>1, <4>3
      <4>5. q.from = packet.from /\ q.stamp = packet.stamp
        BY <2>1, <4>1, <4>4 DEF PeerInv, MessagesFit
      <4> QED
        BY <1>1, <1>2, <1>6, <4>1, <4>5
    <3> QED
      BY <3>1, <3>2
  <2>2. ShownOnce'
    <3>1. CASE packet.type = "message"
      <4>1. displayed[z] \in Seq({1, 2}) /\ packet.body \in {1, 2} /\ IsInjective(displayed[z])
            /\ packet.body \notin ToSet(displayed[z])
        BY <1>2, <1>3, <1>10, <3>1 DEF PeerInv, MessagesFit, ShownOnce
      <4>2. IsInjective(Append(displayed[z], packet.body))
            /\ ToSet(Append(displayed[z], packet.body)) = ToSet(displayed[z]) \cup {packet.body}
        BY <4>1, ShownOnceMore
      <4>3. displayed'[z] = Append(displayed[z], packet.body) /\ \A w \in PeerZones \ {z} : displayed'[w] = displayed[w]
        BY <1>1, <1>2, <1>3, <3>1
      <4> QED
        BY <1>1, <1>10, <3>1, <4>2, <4>3 DEF PeerInv, MessagesFit, ShownOnce
    <3>2. CASE packet.type # "message"
      BY <1>1, <3>2 DEF PeerInv, MessagesFit, ShownOnce
    <3> QED
      BY <3>1, <3>2
  <2>3. \A q \in air : q.type = "message" =>
          /\ q.body \in said
          /\ \A other \in air : other.type = "message" /\ other.body = q.body =>
                other.from = q.from /\ other.stamp = q.stamp
    BY DEF PeerInv, MessagesFit
  <2> QED
    BY <1>1, <1>5, <2>1, <2>2, <2>3 DEF MessagesFit, Received
<1> QED
  BY <1>11, <1>12, <1>13, <1>14 DEF PeerInv

LEMMA PeerNext ==
    ASSUME PhaseTypes, PeerInv, NewsSpreads, [Next]_vars
    PROVE  PhaseTypes' /\ PeerInv'
<1>1. PhaseTypes' /\ UNCHANGED conf
  BY PhasesStay
<1>2. (Has("peer") /\ PeerStep) \/ UNCHANGED peervars
  BY DEF Next, Login, Arrive, Enter, Leave, Disconnect, Free, Coming, vars
<1>3. ASSUME UNCHANGED peervars PROVE PeerInv'
  BY <1>1, <1>3, NothingIsTold DEF peervars, PeerInv, PeerTypes
<1>4. ASSUME Has("peer"), PeerStep PROVE PeerInv'
  <2>1. Outward /\ RepeatsAreKnown
    BY <1>4 DEF NewsSpreads
  <2>2. ASSUME NEW z \in Zones, Moves(z) PROVE PeerInv'
    BY <1>1, <2>2, MovesStep
  <2>3. ASSUME NEW z \in Zones, PeriodicUpdate(z) PROVE PeerInv'
    BY <1>1, <2>1, <2>3, UpdateStep
  <2>4. ASSUME NEW z \in Zones, SendMessageToPeer(z) PROVE PeerInv'
    BY <1>1, <2>4, MessageStep
  <2>5. ASSUME NEW z \in Zones, RemoveStaleArenas(z) PROVE PeerInv'
    BY <1>1, <2>5, SweepStep
  <2>6. ASSUME NEW packet \in air, PeerConnInitCB(packet) PROVE PeerInv'
    BY <1>1, <2>1, <2>6, ArrivalStep
  <2>7. ASSUME Passes PROVE PeerInv'
    BY <1>1, <2>7, PassesStep
  <2> QED
    BY <1>4, <2>2, <2>3, <2>4, <2>5, <2>6, <2>7 DEF PeerStep
<1> QED
  BY <1>1, <1>2, <1>3, <1>4

\* As long as news goes outwards and a packet does not come so late that its timestamp has been
\* overwritten, what is told of arenas is never older than it may be.
THEOREM PeerInvariant == Spec /\ []NewsSpreads => []PeerInv
<1>1. Init => PhaseTypes /\ PeerInv
  BY PeerBegins DEF Init, ClientsInit, PhaseTypes, Phases
<1>2. (PhaseTypes /\ PeerInv) /\ NewsSpreads /\ [Next]_vars => (PhaseTypes /\ PeerInv)'
  BY PeerNext
<1> QED
  BY <1>1, <1>2, PTL DEF Spec

\* Whatever packets are lost, late or there twice: an arena that has been closed and a player who
\* has left disappear from the tables of all peers in time, and a message is shown once.
THEOREM PeersStayCurrent == Spec /\ []NewsSpreads => []PeersAreCurrent
<1>1. ASSUME PeerInv, NewsSpreads PROVE PeersAreCurrent
  <2>1. ShownOnce
    BY <1>1 DEF PeerInv, MessagesFit
  <2>2. ASSUME Has("peer") PROVE NothingIsTooOld
    BY <1>1, <2>2, TablesAreNotTooOld DEF NewsSpreads, NothingIsTooOld, Lag
  <2> QED
    BY <2>1, <2>2 DEF PeersAreCurrent
<1> QED
  BY <1>1, PeerInvariant, PTL
=============================================================================
