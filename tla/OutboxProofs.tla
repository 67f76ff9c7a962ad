---------------------------- MODULE OutboxProofs ----------------------------
(***************************************************************************)
(* The journal of reports, for any number of jobs, claims and faults and   *)
(* any poison limit: nothing journaled is dropped, a complete never        *)
(* overtakes its derivative, and what the worker's own steps give back was *)
(* out of attempts.                                                        *)
(***************************************************************************)
EXTENDS Outbox, WellFoundedInduction, TLAPS

\* The entries the agent still acts upon: in the directory, read by this pass, or sent.
Live == journal \cup todo \cup ({sending} \ {None})

\* _process_job has a job.
Busy == pc \in {"encode", "deliver", "direct"} \/ (pc = "drain" /\ caller \in {"deliver", "abort"})

\* A file name is one entry, whichever copy of it is looked at, and the directory has a
\* last name.
SeqInv ==
    /\ \A e, f \in Live : e.seq = f.seq => e = f
    /\ \E last \in Nat : \A e \in journal : e.seq =< last

\* A pass is under way exactly where the program says so; behind its position there is
\* nothing left of a job it has not stopped.
PassInv ==
    /\ sending # None => pc \in {"drain", "direct"}
    /\ pc # "drain" => todo = {} /\ ~auth_blocked
    /\ answer # "none" => sending # None
    /\ pc = "drain" =>
        /\ sending # None => \A f \in todo : f.seq > sending.seq
        /\ \A e \in journal : e \in todo \/ e.report.job \in blocked \/ e = sending

\* The agent has a job, and a script to report, where the program says so.
ScriptInv ==
    /\ IF Busy THEN cur \in Attempt ELSE cur = None
    /\ pc \in {"deliver", "direct"} => caller \in {"deliver", "abort"}
    /\ Busy /\ pc # "encode" <=> script # <<>>

\* An answer on its way back is what the scheduler has on record.
AnswerInv ==
    /\ answer = "ok" => sending.report \in accepted
    /\ answer = "terminal" => sending.report \in accepted \cup refused
    /\ answer = "auth" \/ auth_blocked => revoked

\* Whatever is under way was journaled, or sent past the journal.
KnownInv ==
    /\ \A e \in journal \cup todo : e.report \in decided
    /\ sending # None => sending.report \in IF pc = "drain" THEN decided ELSE direct
    /\ wire \cup accepted \cup refused \subseteq decided \cup direct

\* A row somebody holds, or held, has the token of a claim.
RowInv == \A j \in Job : row[j].status # "queued" => row[j].token # 0

\* A claim token is given out once, for one job.
Attempts ==
    {[job |-> r.job, token |-> r.token] : r \in decided \cup direct}
        \cup {[job |-> j, token |-> row[j].token] : j \in {i \in Job : row[i].token # 0}}
        \cup ({cur} \ {None})

AttemptInv ==
    /\ \A a \in Attempts : a.token =< claims
    /\ \A a, b \in Attempts : a.token = b.token => a.job = b.job
    /\ \A t \in Token : taken[t] # "no" => t =< claims

\* The reports of the running attempt so far: none but a derivative before its outcome.
FreshInv ==
    \A r \in decided \cup direct :
        /\ cur # None /\ r.token = cur.token
        /\ pc \in {"encode", "deliver"} \/ Len(script) = 2
        => /\ pc # "encode"
           /\ pc = "deliver" => Len(script) = 1
           /\ r.kind = "register_derivative"

\* The directory has no two files of one report.
OnceInv == \A e, f \in Live : e.report = f.report => e.seq = f.seq

\* What a pass has read is in the directory as it was read, unless it was set aside.
ReadInv ==
    pc = "drain" =>
        \A e \in todo \cup ({sending} \ {None}) : e \in journal \/ e.report \in quarantined

\* The derivative of an outcome.
Derivative(r) == [r EXCEPT !.kind = "register_derivative"]

Ruled == accepted \cup refused \cup quarantined

\* A derivative stands before its outcome among the files,
FileOrder ==
    \A e, f \in Live :
        f.report.kind \in Outcomes /\ e.report = Derivative(f.report) => e.seq < f.seq

\* and is ruled on, or set aside, before an outcome from the journal is under way.
WireOrder ==
    \A r \in wire \ direct :
        r.kind \in Outcomes /\ Derivative(r) \in decided => Derivative(r) \in Ruled

\* OneAttemptPending, of all the entries the agent acts upon.
OlderExhausted ==
    \A e, f \in Live : e.seq < f.seq /\ e.report.token # f.report.token => Exhausted(e)

\* Before a claim every entry is out of attempts, after it every entry of another attempt.
ClaimInv ==
    /\ pc = "claim" => \A e \in Live : Exhausted(e)
    /\ cur # None => \A e \in Live : e.report.token # cur.token => Exhausted(e)

\* Registration waits until every entry is out of attempts, or will be refused; so the
\* entries whose jobs it requeued are out of attempts, and none is the running attempt's.
ReleaseInv ==
    /\ pc = "register" => revoked \/ \A e \in journal : Exhausted(e)
    /\ \A e \in Live : taken[e.report.token] = "register" => Exhausted(e)
    /\ cur # None => taken[cur.token] # "register"

-----------------------------------------------------------------------------
\* The order of the files.

\* A set of file numbers has a first one.
LEMMA LeastOf ==
    ASSUME NEW S, S \subseteq Nat, S # {}
    PROVE  \E x \in S : \A y \in S : x =< y
<1>1. PICK x \in S : \A y \in S : ~(<<y, x>> \in OpToRel(<, Nat))
  BY WFMin, NatLessThanWellFounded
<1>2. \A a, b \in Nat : a < b => <<a, b>> \in OpToRel(<, Nat)
  BY Zenon DEF OpToRel
<1>3. \A y \in S : ~(y < x)
  BY <1>1, <1>2, Zenon
<1>4. x \in S
  BY <1>1
<1> QED BY <1>3, <1>4

\* A bounded one has a last one.
LEMMA GreatestOf ==
    ASSUME NEW S, S \subseteq Nat, S # {}, NEW last \in Nat, \A x \in S : x =< last
    PROVE  \E x \in S : \A y \in S : y =< x
<1> DEFINE U == {n \in Nat : \A x \in S : x =< n}
<1>1. U \subseteq Nat /\ U # {}
  OBVIOUS
<1>2. PICK m \in U : \A n \in U : m =< n
  <2> HIDE DEF U
  <2> QED BY <1>1, LeastOf
<1>3. m \in S
  <2> SUFFICES ASSUME m \notin S PROVE FALSE
    OBVIOUS
  <2>1. m \in Nat /\ \A x \in S : x < m
    BY <1>2
  <2>2. PICK x \in S : x \in Nat /\ x < m
    BY <2>1
  <2>3. m - 1 \in U
    BY <2>1, <2>2
  <2> QED BY <2>1, <2>3, <1>2
<1> QED BY <1>2, <1>3

\* next_seq is a number no file of the directory has, and comes after all of them.
LEMMA NextSeqAfter ==
    ASSUME TypeOK, SeqInv
    PROVE  next_seq \in Nat \ {0} /\ \A e \in journal : e.seq < next_seq
<1>1. CASE journal = {}
  BY <1>1 DEF next_seq
<1>2. CASE journal # {}
  <2> DEFINE S == {e.seq : e \in journal}
             top == CHOOSE e \in journal : \A f \in journal : f.seq =< e.seq
  <2>1. S \subseteq Nat /\ S # {}
    BY <1>2 DEF TypeOK, Entry
  <2>2. PICK last \in Nat : \A x \in S : x =< last
    BY DEF SeqInv
  <2>3. \E x \in S : \A y \in S : y =< x
    <3> HIDE DEF S
    <3> QED BY <2>1, <2>2, GreatestOf
  <2>4. \E e \in journal : \A f \in journal : f.seq =< e.seq
    BY <2>3
  <2>5. top \in journal /\ \A f \in journal : f.seq =< top.seq
    BY <2>4
  <2>6. next_seq = 1 + top.seq
    BY <1>2 DEF next_seq
  <2>7. top.seq \in Nat /\ \A f \in journal : f.seq \in Nat
    BY <2>5 DEF TypeOK, Entry
  <2> HIDE DEF top
  <2> QED BY <2>5, <2>6, <2>7
<1> QED BY <1>1, <1>2

\* First, the entry the heartbeat names, is the one with the lowest number.
LEMMA FirstIsLeast ==
    ASSUME TypeOK, journal # {}
    PROVE  First(journal) \in journal /\ \A f \in journal : First(journal).seq =< f.seq
<1> DEFINE S == {e.seq : e \in journal}
<1>1. S \subseteq Nat /\ S # {}
  BY DEF TypeOK, Entry
<1>2. \E x \in S : \A y \in S : x =< y
  <2> HIDE DEF S
  <2> QED BY <1>1, LeastOf
<1>3. \E e \in journal : \A f \in journal : e.seq =< f.seq
  BY <1>2
<1> QED BY <1>3 DEF First

-----------------------------------------------------------------------------
\* Types.

\* The scripts of _process_job.
LEMMA ScriptCases ==
    ASSUME TypeOK, script # <<>>
    PROVE  \/ Len(script) = 1 /\ Tail(script) = <<>> /\ Head(script) \in Outcomes
           \/ /\ script = <<"register_derivative", "complete">> /\ Len(script) = 2
              /\ Tail(script) = <<"complete">> /\ Head(script) = "register_derivative"
<1>1. CASE script = <<"register_derivative", "complete">>
  BY <1>1
<1>2. CASE \E k \in Outcomes : script = <<k>>
  BY <1>2
<1> QED BY <1>1, <1>2 DEF TypeOK

\* The report about to be delivered is one.
LEMMA DueType ==
    ASSUME TypeOK, ScriptInv, pc = "deliver"
    PROVE  /\ script # <<>> /\ cur \in Attempt
           /\ Due \in Report /\ Due.job = cur.job /\ Due.token = cur.token
           /\ Due.kind = Head(script)
<1>1. script # <<>> /\ cur \in Attempt
  BY DEF ScriptInv, Busy
<1>2. Head(script) \in MILESTONE_KINDS
  BY <1>1, ScriptCases DEF MILESTONE_KINDS
<1> QED BY <1>1, <1>2 DEF Due, Report, Attempt

\* What is left after a report.
LEMMA ReportedType ==
    ASSUME TypeOK, script # <<>>, Reported
    PROVE  /\ pc' \in {"loop", "deliver"}
           /\ caller' = caller
           /\ cur' \in Attempt \cup {None}
           /\ script' \in {<<>>, <<"register_derivative", "complete">>} \cup {<<k>> : k \in Outcomes}
<1>1. CASE Len(script) = 1 /\ Tail(script) = <<>>
  BY <1>1 DEF Reported
<1>2. CASE Len(script) = 2 /\ Tail(script) = <<"complete">>
  <2>1. script' = <<"complete">> /\ cur' = cur /\ pc' = "deliver" /\ caller' = caller
    BY <1>2 DEF Reported
  <2> QED BY <2>1 DEF TypeOK, Outcomes
<1> QED BY <1>1, <1>2, ScriptCases

\* A failed attempt is counted up to the limit and changes nothing else of the entry.
LEMMA BumpedEntry ==
    ASSUME NEW e \in Entry
    PROVE  /\ Bumped(e) \in Entry /\ Bumped(e).seq = e.seq /\ Bumped(e).report = e.report
           /\ Exhausted(e) => Exhausted(Bumped(e))
  BY BoundAssumption DEF Bumped, Entry, Exhausted

\* A verdict is one of the four answers.
LEMMA VerdictType ==
    ASSUME NEW r
    PROVE  Verdict(r) \in Verdicts
  BY DEF Verdict, Verdicts

\* What Settle leaves of the directory: without the entry on a definitive answer, with its
\* attempt counted, or as it was when the disk refuses the write.
LEMMA SettleEffect ==
    ASSUME TypeOK, sending # None, NEW class, Settle(class)
    PROVE  /\ sending \in Entry /\ sending' = None /\ answer' = "none"
           /\ UNCHANGED <<pc, caller, cur, script, todo, quarantined, row, revoked, wire, claims,
                          decided, direct, accepted, refused, taken>>
           /\ \/ /\ class \in {"ok", "terminal"}
                 /\ journal' = {e \in journal : e.seq # sending.seq}
                 /\ hot' = hot \ {sending.seq}
                 /\ UNCHANGED <<blocked, auth_blocked, faults>>
              \/ /\ journal' = {e \in journal : e.seq # sending.seq} \cup {Bumped(sending)}
                 /\ hot' = hot \cup {sending.seq} /\ UNCHANGED faults
                 /\ blocked' = blocked \cup {sending.report.job}
                 /\ auth_blocked' = (auth_blocked \/ class = "auth")
              \/ /\ UNCHANGED <<journal, hot>> /\ Fault("disk")
                 /\ blocked' = blocked \cup {sending.report.job}
                 /\ auth_blocked' = (auth_blocked \/ class = "auth")
<1>1. sending \in Entry
  BY DEF TypeOK
<1>2. CASE class \in {"ok", "terminal"}
  BY <1>1, <1>2 DEF Settle, delete, server, history
<1>3. CASE class \notin {"ok", "terminal"}
  BY <1>1, <1>3 DEF Settle, bump_attempts, server, history
<1> QED BY <1>2, <1>3

\* Settle keeps the types.
LEMMA SettleType ==
    ASSUME TypeOK, sending # None, NEW class, Settle(class)
    PROVE  TypeOK'
<1>1. /\ sending \in Entry /\ sending.report.job \in Job
      /\ Bumped(sending) \in Entry /\ Bumped(sending).seq = sending.seq
  BY SettleEffect, BumpedEntry DEF Entry, Report
<1>2. journal' \subseteq Entry
  BY <1>1, SettleEffect DEF TypeOK
<1>3. hot' \subseteq {e.seq : e \in journal'}
  <2> SUFFICES ASSUME NEW s \in hot' PROVE \E e \in journal' : e.seq = s
    BY Zenon
  <2>1. CASE s = sending.seq /\ Bumped(sending) \in journal'
    BY <1>1, <2>1
  <2>2. CASE s \in hot /\ s # sending.seq
    <3>1. PICK e \in journal : e.seq = s
      BY <2>2 DEF TypeOK
    <3>2. e \in journal'
      BY <2>2, <3>1, SettleEffect
    <3> QED BY <3>1, <3>2
  <2>3. CASE UNCHANGED <<journal, hot>>
    BY <2>3 DEF TypeOK
  <2> QED BY <2>1, <2>2, <2>3, SettleEffect
<1>4. blocked' \subseteq Job /\ auth_blocked' \in BOOLEAN
  BY <1>1, SettleEffect DEF TypeOK
<1>5. faults' \in 0 .. MaxFaults
  BY SettleEffect, BoundAssumption DEF TypeOK, Fault
<1>6. /\ sending' = None /\ answer' = "none"
      /\ UNCHANGED <<pc, caller, cur, script, todo, quarantined, row, revoked, wire, claims,
                     decided, direct, accepted, refused, taken>>
  BY SettleEffect
<1> QED BY <1>2, <1>3, <1>4, <1>5, <1>6 DEF TypeOK

\* Take keeps the types.
LEMMA TakeType ==
    ASSUME TypeOK, NEW j \in Job, NEW by \in {"others", "sweep"}, Take(j, by),
           faults' \in 0 .. MaxFaults, row[j].status = "active" => row[j].token # 0
    PROVE  TypeOK'
<1>1. row' \in [Job -> [status : Statuses, token : Token \cup {0}]]
  BY DEF TypeOK, Take, Statuses
<1>2. taken' \in [Token -> {"no", "register", "sweep", "rotation", "others"}]
  BY SMTT(30) DEF TypeOK, Take
<1> QED BY <1>1, <1>2 DEF TypeOK, Take, agent, disk

\* Every step keeps the types.
LEMMA TypeStep ==
    ASSUME TypeOK, SeqInv, PassInv, ScriptInv, RowInv, [Next]_vars
    PROVE  TypeOK'
<1> USE DEF TypeOK, Report, Entry, Attempt, Token, MILESTONE_KINDS, Outcomes, Verdicts,
      Statuses
<1>1. CASE Start
  BY <1>1, JobAssumption, BoundAssumption
     DEF Start, disk, server, history
<1>2. CASE Drain
  BY ZenonT(60), <1>2, JobAssumption, BoundAssumption
     DEF Drain, BeginDrain, disk, server, history
<1>3. CASE Transmit
  BY SMTT(30), <1>3, JobAssumption, BoundAssumption
     DEF Transmit, disk, history
<1>4. CASE EndDrain
  <2>1. UNCHANGED <<sending, answer, disk, server, history, faults>>
        /\ todo' = {} /\ blocked' = {} /\ auth_blocked' = FALSE
    BY <1>4 DEF EndDrain
  <2>2. CASE caller \in {"boot", "loop"} /\ UNCHANGED <<caller, cur, script>>
             /\ pc' \in {"boot", "register", "claim", "loop"}
    <3> HIDE DEF Attempt, Outcomes, Entry, Report, Statuses
    <3> QED BY ZenonT(60), <2>1, <2>2 DEF disk, server, history
  <2>3. CASE caller \in {"deliver", "abort"} /\ Reported
    <3>1. script # <<>>
      BY <1>4, <2>3 DEF EndDrain, ScriptInv, Busy
    <3>2. /\ pc' \in {"loop", "deliver"} /\ caller' = caller /\ cur' \in Attempt \cup {None}
          /\ script' \in {<<>>, <<"register_derivative", "complete">>} \cup {<<k>> : k \in Outcomes}
      BY <2>3, <3>1, ReportedType
    <3> HIDE DEF Attempt, Outcomes
    <3> QED BY <2>1, <3>2 DEF disk, server, history
  <2> QED BY <1>4, <2>2, <2>3 DEF EndDrain
<1>5. CASE Register
  <2>1. row' \in [Job -> [status : Statuses, token : Token \cup {0}]]
    <3>1. \A j \in Job : row[j] \in [status : Statuses, token : Token \cup {0}]
      OBVIOUS
    <3>2. \A j \in Job : [row[j] EXCEPT !.status = "queued"] \in [status : Statuses, token : Token \cup {0}]
      BY <3>1
    <3> HIDE DEF Statuses, Token
    <3> QED BY <1>5, <3>1, <3>2 DEF Register
  <2>2. taken' \in [Token -> {"no", "register", "sweep", "rotation", "others"}]
    BY <1>5 DEF Register
  <2> HIDE DEF Entry, Report, Statuses, Attempt, Token
  <2> QED BY <1>5, <2>1, <2>2 DEF Register, disk
<1>6. CASE RegisterRejected
  BY <1>6, JobAssumption, BoundAssumption
     DEF RegisterRejected, disk, server, history
<1>7. CASE NoClaim
  BY <1>7, JobAssumption, BoundAssumption
     DEF NoClaim, disk, server, history
<1>8. CASE Finish
  BY <1>8, JobAssumption, BoundAssumption
     DEF Finish, Encoded, Done, Failed, Aborted, Decide, disk, server, history
<1>9. CASE Deliver
  <2> DEFINE e == [seq |-> next_seq, report |-> Due, attempts |-> 0]
  <2>1. Due \in Report
    BY <1>9, DueType DEF Deliver
  <2>2. e \in Entry
    BY <2>1, NextSeqAfter, BoundAssumption
  <2>3. /\ journal' = journal \cup {e} /\ todo' = journal' /\ decided' = decided \cup {Due}
        /\ UNCHANGED <<hot, quarantined, caller>>
    BY <1>9 DEF Deliver, append, BeginDrain
  <2>4. journal' \subseteq Entry /\ todo' \subseteq Entry /\ decided' \subseteq Report
    BY <2>1, <2>2, <2>3
  <2>5. hot' \subseteq {f.seq : f \in journal'}
    BY <2>3
  <2> HIDE DEF e, Entry, Report
  <2> QED BY <1>9, <2>3, <2>4, <2>5 DEF Deliver, BeginDrain, server
<1>10. CASE DirectDone
  <2>1. script # <<>>
    BY <1>10 DEF DirectDone, ScriptInv, Busy
  <2>2. /\ pc' \in {"loop", "deliver"} /\ caller' = caller /\ cur' \in Attempt \cup {None}
        /\ script' \in {<<>>, <<"register_derivative", "complete">>} \cup {<<k>> : k \in Outcomes}
    BY <1>10, <2>1, ReportedType DEF DirectDone
  <2> HIDE DEF Attempt, Outcomes
  <2> QED BY <1>10, <2>2 DEF DirectDone, disk, server, history
<1>11. CASE TimedOut
  BY <1>11, SettleType DEF TimedOut
<1>12. CASE CutShort
  <2>1. script # <<>>
    BY <1>12 DEF CutShort, ScriptInv, Busy
  <2>2. /\ pc' \in {"loop", "deliver"} /\ caller' = caller /\ cur' \in Attempt \cup {None}
        /\ script' \in {<<>>, <<"register_derivative", "complete">>} \cup {<<k>> : k \in Outcomes}
    BY <1>12, <2>1, ReportedType DEF CutShort
  <2> HIDE DEF Attempt, Outcomes
  <2> QED BY <1>12, <2>2 DEF CutShort, disk, server, history
<1>13. CASE DeliverUnjournaled
  <2>1. Due \in Report
    BY <1>13, DueType DEF DeliverUnjournaled
  <2>2. sending' \in Entry
    BY SMTT(30), <1>13, <2>1, NextSeqAfter, BoundAssumption DEF DeliverUnjournaled
  <2>3. wire' \subseteq Report /\ direct' \subseteq Report
    BY <1>13, <2>1 DEF DeliverUnjournaled
  <2>4. faults' \in 0 .. MaxFaults
    BY <1>13, BoundAssumption DEF DeliverUnjournaled, Fault
  <2> HIDE DEF Entry, Report
  <2> QED BY <1>13, <2>2, <2>3, <2>4 DEF DeliverUnjournaled, disk
<1>14. CASE Crash
  <2>1. faults' \in 0 .. MaxFaults
    BY <1>14, BoundAssumption DEF Crash, Fault
  <2> QED BY <1>14, <2>1 DEF Crash, disk, server, history
<1>15. CASE Quarantine
  BY SMTT(30), <1>15, JobAssumption, BoundAssumption
     DEF Quarantine, Fault, disk, agent, server, history
<1>16. CASE Revoke
  BY <1>16, JobAssumption, BoundAssumption
     DEF Revoke, Fault, agent, disk, history
<1>17. CASE Reissue
  <2>1. row' \in [Job -> [status : Statuses, token : Token \cup {0}]]
    <3>1. \A j \in Job : row[j] \in [status : Statuses, token : Token \cup {0}]
      OBVIOUS
    <3>2. \A j \in Job : [row[j] EXCEPT !.status = "foreign"] \in [status : Statuses, token : Token \cup {0}]
      BY <3>1
    <3> HIDE DEF Statuses, Token
    <3> QED BY <1>17, <3>1, <3>2 DEF Reissue
  <2>2. taken' \in [Token -> {"no", "register", "sweep", "rotation", "others"}]
    BY <1>17 DEF Reissue
  <2> HIDE DEF Entry, Report, Statuses, Token
  <2> QED BY <1>17, <2>1, <2>2 DEF Reissue, agent, disk
<1>18. ASSUME NEW s \in Seqs, CoolDown(s)
     PROVE  TypeOK'
  BY SMTT(30), <1>18, JobAssumption, BoundAssumption
     DEF CoolDown, agent, server, history
<1>19. ASSUME NEW r \in wire, Receive(r)
     PROVE  TypeOK'
  <2>1. row' \in [Job -> [status : Statuses, token : Token \cup {0}]]
    BY <1>19 DEF Receive
  <2>2. answer' \in Verdicts \cup {"none"}
    BY <1>19, VerdictType DEF Receive
  <2>3. wire' \subseteq Report /\ accepted' \subseteq Report /\ refused' \subseteq Report
    <3> HIDE DEF Report
    <3> QED BY <1>19 DEF Receive
  <2> HIDE DEF Entry, Report, Statuses, Verdicts, Attempt, Token
  <2> QED BY <1>19, <2>1, <2>2, <2>3 DEF Receive, disk
<1>20. ASSUME NEW j \in Job, Claim(j)
     PROVE  TypeOK'
  <2>1. claims + 1 \in Token /\ claims' \in 0 .. MaxClaims
    BY <1>20, BoundAssumption DEF Claim
  <2>2. row' \in [Job -> [status : Statuses, token : Token \cup {0}]]
    BY <1>20, <2>1 DEF Claim
  <2>3. cur' \in Attempt \cup {None} /\ pc' \in {"encode", "loop"}
    BY <1>20, <2>1 DEF Claim
  <2> HIDE DEF Entry, Report, Statuses, Attempt, Token
  <2> QED BY <1>20, <2>1, <2>2, <2>3 DEF Claim, disk, history
<1>21. ASSUME NEW j \in Job, Answered(j)
     PROVE  TypeOK'
  BY <1>21, SettleType DEF Answered
<1>22. ASSUME NEW j \in Job, Requeue(j)
     PROVE  TypeOK'
  <2>1. faults' \in 0 .. MaxFaults
    BY <1>22, BoundAssumption DEF Requeue, Fault
  <2> QED BY <1>22, <2>1, TakeType DEF Requeue, RowInv
<1>23. ASSUME NEW j \in Job, Abandon(j)
     PROVE  TypeOK'
  BY <1>23, TakeType DEF Abandon, RowInv
<1>24. CASE UNCHANGED vars
  BY SMTT(30), <1>24 DEF vars, agent, disk, server, history
<1>25. CASE DeleteFails
  <2>1. /\ UNCHANGED <<disk, server, history>> /\ sending' = None /\ answer' = "none"
        /\ todo' = {} /\ blocked' = {} /\ auth_blocked' = FALSE
    BY <1>25 DEF DeleteFails
  <2>2. faults' \in 0 .. MaxFaults
    BY <1>25, BoundAssumption DEF DeleteFails, Fault
  <2>3. CASE caller \in {"boot", "loop"} /\ pc' = caller /\ UNCHANGED <<caller, cur, script>>
    <3> HIDE DEF Attempt, Outcomes, Entry, Report, Statuses
    <3> QED BY ZenonT(60), <2>1, <2>2, <2>3 DEF disk, server, history
  <2>4. CASE caller \in {"deliver", "abort"} /\ Reported
    <3>1. script # <<>>
      BY <1>25, <2>4 DEF DeleteFails, ScriptInv, Busy
    <3>2. /\ pc' \in {"loop", "deliver"} /\ caller' = caller /\ cur' \in Attempt \cup {None}
          /\ script' \in {<<>>, <<"register_derivative", "complete">>} \cup {<<k>> : k \in Outcomes}
      BY <2>4, <3>1, ReportedType
    <3> HIDE DEF Attempt, Outcomes
    <3> QED BY <2>1, <2>2, <3>2 DEF disk, server, history
  <2> QED BY <1>25, <2>3, <2>4 DEF DeleteFails
<1> QED
  BY <1>1, <1>2, <1>3, <1>4, <1>5, <1>6, <1>7, <1>8, <1>9, <1>10, <1>11, <1>12,
      <1>13, <1>14, <1>15, <1>16, <1>17, <1>18, <1>19, <1>20, <1>21, <1>22, <1>23, <1>24, <1>25
     DEF Next, Agent

-----------------------------------------------------------------------------
\* The pass.

\* Settle stops the chain of the entry it leaves in the directory.
LEMMA SettlePass ==
    ASSUME TypeOK, PassInv, pc = "drain", sending # None, NEW class, Settle(class)
    PROVE  PassInv'
<1>1. ASSUME NEW e \in journal'
      PROVE  e \in todo \/ e.report.job \in blocked'
  <2>1. CASE e = Bumped(sending) /\ blocked' = blocked \cup {sending.report.job}
    BY <2>1, SettleEffect, BumpedEntry
  <2>2. CASE e \in journal /\ e # sending
    BY <2>2, SettleEffect DEF PassInv
  <2>3. CASE e = sending /\ blocked' = blocked \cup {sending.report.job}
    BY <2>3
  <2> QED BY <2>1, <2>2, <2>3, SettleEffect
<1> QED BY <1>1, SettleEffect DEF PassInv

\* Transmit sends the first entry that may be sent, and stops the chains of those before it.
LEMMA TransmitEffect ==
    ASSUME TypeOK, PassInv, Transmit
    PROVE  \E e \in todo :
               /\ Sendable(e) /\ \A f \in todo : Sendable(f) => e.seq =< f.seq
               /\ e \in Entry /\ sending' = e /\ wire' = wire \cup {e.report}
               /\ todo' = {f \in todo : f.seq > e.seq}
               /\ blocked \subseteq blocked'
               /\ \A f \in todo : f.seq < e.seq => f.report.job \in blocked'
<1>1. PICK e \in todo :
          /\ Sendable(e) /\ \A f \in todo : Sendable(f) => e.seq =< f.seq
          /\ sending' = e /\ wire' = wire \cup {e.report}
          /\ todo' = {f \in todo : f.seq > e.seq}
          /\ blocked' = blocked \cup {f.report.job : f \in {g \in todo : g.seq < e.seq /\ Parked(g)}}
  BY DEF Transmit
<1>2. ASSUME NEW f \in todo, f.seq < e.seq
      PROVE  f.report.job \in blocked'
  <2>1. ~Sendable(f) /\ e.seq \in Nat /\ f.seq \in Nat /\ \A g \in todo : g.seq \in Nat
    BY <1>1, <1>2 DEF TypeOK, Entry
  <2>2. CASE f.report.job \in blocked
    BY <1>1, <2>2
  <2>3. CASE \E g \in todo : g.report.job = f.report.job /\ g.seq =< f.seq /\ Parked(g)
    <3>1. PICK g \in todo : g.report.job = f.report.job /\ g.seq =< f.seq /\ Parked(g)
      BY <2>3
    <3>2. g.seq < e.seq
      BY <1>2, <2>1, <3>1
    <3> QED BY <1>1, <3>1, <3>2
  <2> QED BY <2>1, <2>2, <2>3 DEF Sendable
<1> QED BY <1>1, <1>2 DEF TypeOK

\* Behind the position of a pass no chain stays open.
LEMMA PassStep ==
    ASSUME TypeOK, SeqInv, PassInv, [Next]_vars
    PROVE  PassInv'
<1> USE DEF PassInv
<1>1. CASE Start
  BY <1>1, JobAssumption
     DEF Start, disk, server, history
<1>2. CASE Drain
  BY <1>2, JobAssumption
     DEF Drain, BeginDrain, disk, server, history
<1>3. CASE Transmit
  <2>1. PICK e \in todo :
            /\ e \in Entry /\ sending' = e /\ todo' = {f \in todo : f.seq > e.seq}
            /\ blocked \subseteq blocked' /\ \A f \in todo : f.seq < e.seq => f.report.job \in blocked'
    BY <1>3, TransmitEffect
  <2>2. /\ pc = "drain" /\ sending = None /\ answer' = "none"
        /\ UNCHANGED <<pc, journal, auth_blocked>>
    BY <1>3 DEF Transmit, disk
  <2>3. ASSUME NEW f \in journal
        PROVE  f \in todo' \/ f.report.job \in blocked' \/ f = e
    <3>1. f \in Entry /\ f # None
      BY JobAssumption DEF TypeOK
    <3>2. f \in todo \/ f.report.job \in blocked
      BY <2>2, <3>1
    <3>3. CASE f \in todo
      <4>1. f.seq \in Nat /\ e.seq \in Nat
        BY <2>1, <3>1 DEF Entry
      <4>2. CASE f.seq = e.seq
        BY <2>1, <3>3, <4>2 DEF SeqInv, Live
      <4> QED BY <2>1, <3>3, <4>1, <4>2
    <3> QED BY <2>1, <3>2, <3>3
  <2> QED BY <2>1, <2>2, <2>3
<1>4. CASE EndDrain
  BY <1>4, JobAssumption
     DEF EndDrain, Reported, disk, server, history
<1>5. CASE Register
  BY <1>5, JobAssumption
     DEF Register, disk
<1>6. CASE RegisterRejected
  BY <1>6, JobAssumption
     DEF RegisterRejected, disk, server, history
<1>7. CASE NoClaim
  BY <1>7, JobAssumption
     DEF NoClaim, disk, server, history
<1>8. CASE Finish
  BY <1>8, JobAssumption
     DEF Finish, Encoded, Done, Failed, Aborted, Decide, disk, server, history
<1>9. CASE Deliver
  BY <1>9, JobAssumption
     DEF Deliver, append, BeginDrain, server
<1>10. CASE DirectDone
  BY <1>10, JobAssumption
     DEF DirectDone, Reported, disk, server, history
<1>11. CASE TimedOut
  BY <1>11, SettlePass DEF TimedOut
<1>12. CASE CutShort
  BY <1>12, JobAssumption
     DEF CutShort, Reported, disk, server, history
<1>13. CASE DeliverUnjournaled
  BY <1>13, JobAssumption
     DEF DeliverUnjournaled, Fault, disk
<1>14. CASE Crash
  BY <1>14, JobAssumption
     DEF Crash, Fault, disk, server, history
<1>15. CASE Quarantine
  BY <1>15, JobAssumption
     DEF Quarantine, Fault, disk, agent, server, history
<1>16. CASE Revoke
  BY <1>16, JobAssumption
     DEF Revoke, Fault, agent, disk, history
<1>17. CASE Reissue
  BY <1>17, JobAssumption
     DEF Reissue, agent, disk
<1>18. ASSUME NEW s \in Seqs, CoolDown(s)
     PROVE  PassInv'
  BY <1>18, JobAssumption
     DEF CoolDown, agent, server, history
<1>19. ASSUME NEW r \in wire, Receive(r)
     PROVE  PassInv'
  BY <1>19, JobAssumption
     DEF Receive, disk
<1>20. ASSUME NEW j \in Job, Claim(j)
     PROVE  PassInv'
  BY <1>20, JobAssumption
     DEF Claim, disk, history
<1>21. ASSUME NEW j \in Job, Answered(j)
     PROVE  PassInv'
  BY <1>21, SettlePass DEF Answered
<1>22. ASSUME NEW j \in Job, Requeue(j)
     PROVE  PassInv'
  BY <1>22, JobAssumption
     DEF Requeue, Fault, Take, agent, disk
<1>23. ASSUME NEW j \in Job, Abandon(j)
     PROVE  PassInv'
  BY <1>23, JobAssumption
     DEF Abandon, Heartbeating, Named, Take, agent, disk
<1>24. CASE UNCHANGED vars
  BY <1>24 DEF vars, agent, disk, server, history
<1>25. CASE DeleteFails
  BY <1>25, JobAssumption
     DEF DeleteFails, Reported, Fault, disk, server, history
<1> QED
  BY <1>1, <1>2, <1>3, <1>4, <1>5, <1>6, <1>7, <1>8, <1>9, <1>10, <1>11, <1>12,
      <1>13, <1>14, <1>15, <1>16, <1>17, <1>18, <1>19, <1>20, <1>21, <1>22, <1>23, <1>24, <1>25
     DEF Next, Agent

\* Reported ends the job with its last report.
LEMMA ReportedScript ==
    ASSUME TypeOK, ScriptInv, Busy, pc # "encode", Reported
    PROVE  ScriptInv'
<1>1. script # <<>> /\ caller \in {"deliver", "abort"} /\ cur \in Attempt
  BY DEF ScriptInv, Busy
<1>2. CASE Len(script) = 1 /\ Tail(script) = <<>>
  BY <1>2 DEF Reported, ScriptInv, Busy
<1>3. CASE Len(script) = 2 /\ Tail(script) = <<"complete">>
  <2>1. script' = <<"complete">> /\ cur' = cur /\ pc' = "deliver" /\ caller' = caller
    BY <1>3 DEF Reported
  <2>2. script' # <<>>
    BY <2>1
  <2> QED BY <1>1, <2>1, <2>2 DEF ScriptInv, Busy
<1> QED BY <1>1, <1>2, <1>3, ScriptCases

\* A job and its script begin and end together.
LEMMA ScriptStep ==
    ASSUME TypeOK, ScriptInv, [Next]_vars
    PROVE  ScriptInv'
<1> USE DEF ScriptInv, Busy
<1>1. CASE Start
  BY <1>1, JobAssumption
     DEF Start, disk, server, history
<1>2. CASE Drain
  BY <1>2, JobAssumption
     DEF Drain, BeginDrain, disk, server, history
<1>3. CASE Transmit
  BY <1>3, JobAssumption
     DEF Transmit, disk, history
<1>4. CASE EndDrain
  <2>1. CASE caller \in {"boot", "loop"} /\ UNCHANGED <<caller, cur, script>>
             /\ pc' \in {"boot", "register", "claim", "loop"} /\ pc = "drain"
    BY <2>1
  <2>2. CASE caller \in {"deliver", "abort"} /\ Reported /\ pc = "drain"
    BY <2>2, ReportedScript
  <2> QED BY <1>4, <2>1, <2>2 DEF EndDrain
<1>5. CASE Register
  BY <1>5, JobAssumption
     DEF Register, disk
<1>6. CASE RegisterRejected
  BY <1>6, JobAssumption
     DEF RegisterRejected, disk, server, history
<1>7. CASE NoClaim
  BY <1>7, JobAssumption
     DEF NoClaim, disk, server, history
<1>8. CASE Finish
  BY <1>8, JobAssumption
     DEF Finish, Encoded, Done, Failed, Aborted, Decide, disk, server, history
<1>9. CASE Deliver
  BY <1>9, JobAssumption
     DEF Deliver, append, BeginDrain, server
<1>10. CASE DirectDone
  BY <1>10, ReportedScript DEF DirectDone
<1>11. CASE TimedOut
  BY <1>11, JobAssumption
     DEF TimedOut, Settle, delete, bump_attempts, server, history, Fault, disk
<1>12. CASE CutShort
  BY <1>12, ReportedScript DEF CutShort
<1>13. CASE DeliverUnjournaled
  BY <1>13, JobAssumption
     DEF DeliverUnjournaled, Fault, disk
<1>14. CASE Crash
  BY <1>14, JobAssumption
     DEF Crash, Fault, disk, server, history
<1>15. CASE Quarantine
  BY <1>15, JobAssumption
     DEF Quarantine, Fault, disk, agent, server, history
<1>16. CASE Revoke
  BY <1>16, JobAssumption
     DEF Revoke, Fault, agent, disk, history
<1>17. CASE Reissue
  BY <1>17, JobAssumption
     DEF Reissue, agent, disk
<1>18. ASSUME NEW s \in Seqs, CoolDown(s)
     PROVE  ScriptInv'
  BY <1>18, JobAssumption
     DEF CoolDown, agent, server, history
<1>19. ASSUME NEW r \in wire, Receive(r)
     PROVE  ScriptInv'
  BY <1>19, JobAssumption
     DEF Receive, disk
<1>20. ASSUME NEW j \in Job, Claim(j)
     PROVE  ScriptInv'
  <2>1. claims + 1 \in Token /\ script = <<>> /\ cur = None /\ UNCHANGED script
    BY <1>20, BoundAssumption DEF Claim, TypeOK, Token
  <2>2. CASE pc' = "loop" /\ UNCHANGED cur
    BY <2>1, <2>2
  <2>3. CASE pc' = "encode" /\ cur' = [job |-> j, token |-> claims + 1]
    BY <2>1, <2>3 DEF Attempt
  <2> QED BY <1>20, <2>2, <2>3 DEF Claim
<1>21. ASSUME NEW j \in Job, Answered(j)
     PROVE  ScriptInv'
  BY <1>21, JobAssumption
     DEF Answered, Settle, delete, bump_attempts, server, history, Fault, disk
<1>22. ASSUME NEW j \in Job, Requeue(j)
     PROVE  ScriptInv'
  BY <1>22, JobAssumption
     DEF Requeue, Fault, Take, agent, disk
<1>23. ASSUME NEW j \in Job, Abandon(j)
     PROVE  ScriptInv'
  BY <1>23, JobAssumption
     DEF Abandon, Heartbeating, Named, Take, agent, disk
<1>24. CASE UNCHANGED vars
  BY <1>24 DEF vars, agent, disk, server, history
<1>25. CASE DeleteFails
  BY <1>25, ReportedScript DEF DeleteFails
<1> QED
  BY <1>1, <1>2, <1>3, <1>4, <1>5, <1>6, <1>7, <1>8, <1>9, <1>10, <1>11, <1>12,
      <1>13, <1>14, <1>15, <1>16, <1>17, <1>18, <1>19, <1>20, <1>21, <1>22, <1>23, <1>24, <1>25
     DEF Next, Agent

-----------------------------------------------------------------------------
\* File names.

\* Settle keeps the name of the entry it writes anew.
LEMMA SettleSeq ==
    ASSUME TypeOK, SeqInv, PassInv, pc = "drain", sending # None, NEW class, Settle(class)
    PROVE  SeqInv'
<1>1. /\ sending \in Live /\ sending \in Entry /\ journal \cup todo \subseteq Live
      /\ Bumped(sending).seq = sending.seq
  BY SettleEffect, BumpedEntry DEF Live
<1>2. /\ todo' = todo /\ \A f \in todo : f.seq # sending.seq
      /\ Live' = journal' \cup todo'
  BY <1>1, SettleEffect DEF PassInv, Live, TypeOK, Entry
<1>3. \/ journal' \subseteq journal
      \/ journal' = {e \in journal : e.seq # sending.seq} \cup {Bumped(sending)}
  BY SettleEffect
<1>4. \A e, f \in Live' : e.seq = f.seq => e = f
  BY <1>1, <1>2, <1>3 DEF SeqInv
<1>5. \E last \in Nat : \A e \in journal' : e.seq =< last
  <2>1. PICK n \in Nat : \A e \in journal : e.seq =< n
    BY DEF SeqInv
  <2>2. sending.seq \in Nat /\ \A e \in journal : e.seq \in Nat
    BY <1>1 DEF TypeOK, Entry
  <2>3. n + sending.seq \in Nat /\ \A e \in journal' : e.seq =< n + sending.seq
    BY <1>1, <1>3, <2>1, <2>2
  <2> QED BY <2>3
<1> QED BY <1>4, <1>5 DEF SeqInv

\* Every step keeps the files apart by name: a new one comes last.
LEMMA SeqStep ==
    ASSUME TypeOK, SeqInv, PassInv, [Next]_vars
    PROVE  SeqInv'
<1> USE DEF SeqInv, Live
<1>1. CASE Start
  BY <1>1, JobAssumption
     DEF Start, disk, server, history
<1>2. CASE Drain
  BY <1>2, JobAssumption
     DEF Drain, BeginDrain, disk, server, history
<1>3. CASE Transmit
  BY <1>3, JobAssumption
     DEF Transmit, disk, history
<1>4. CASE EndDrain
  BY <1>4, JobAssumption
     DEF EndDrain, Reported, disk, server, history
<1>5. CASE Register
  BY <1>5, JobAssumption
     DEF Register, disk
<1>6. CASE RegisterRejected
  BY <1>6, JobAssumption
     DEF RegisterRejected, disk, server, history
<1>7. CASE NoClaim
  BY <1>7, JobAssumption
     DEF NoClaim, disk, server, history
<1>8. CASE Finish
  BY <1>8, JobAssumption
     DEF Finish, Encoded, Done, Failed, Aborted, Decide, disk, server, history
<1>9. CASE Deliver
  <2> DEFINE e == [seq |-> next_seq, report |-> Due, attempts |-> 0]
  <2>1. /\ journal' = journal \cup {e} /\ todo' = journal' /\ sending = None /\ sending' = None
    BY <1>9 DEF Deliver, append, BeginDrain, PassInv
  <2>2. e.seq = next_seq /\ next_seq \in Nat /\ \A f \in journal : f.seq \in Nat /\ f.seq < next_seq
    BY NextSeqAfter DEF TypeOK, Entry
  <2> HIDE DEF e
  <2>3. Live' = journal \cup {e} /\ journal \subseteq Live
    BY <2>1
  <2>4. \A f, g \in Live' : f.seq = g.seq => f = g
    BY <2>2, <2>3
  <2>5. \A f \in journal' : f.seq =< next_seq
    BY <2>1, <2>2
  <2> QED BY <2>2, <2>4, <2>5
<1>10. CASE DirectDone
  BY <1>10, JobAssumption
     DEF DirectDone, Reported, disk, server, history
<1>11. CASE TimedOut
  BY <1>11, SettleSeq DEF TimedOut
<1>12. CASE CutShort
  BY <1>12, JobAssumption
     DEF CutShort, Reported, disk, server, history
<1>13. CASE DeliverUnjournaled
  <2>1. /\ journal' = journal /\ todo' = {} /\ todo = {} /\ sending'.seq = next_seq
    BY <1>13 DEF DeliverUnjournaled, disk, PassInv
  <2>2. next_seq \in Nat /\ \A f \in journal : f.seq \in Nat /\ f.seq < next_seq
    BY NextSeqAfter DEF TypeOK, Entry
  <2>3. Live' \subseteq journal \cup {sending'} /\ journal \subseteq Live
    BY <2>1
  <2>4. \A f, g \in Live' : f.seq = g.seq => f = g
    BY <2>1, <2>2, <2>3
  <2> QED BY <2>1, <2>4
<1>14. CASE Crash
  BY <1>14, JobAssumption
     DEF Crash, Fault, disk, server, history
<1>15. CASE Quarantine
  BY <1>15, JobAssumption
     DEF Quarantine, Fault, disk, agent, server, history
<1>16. CASE Revoke
  BY <1>16, JobAssumption
     DEF Revoke, Fault, agent, disk, history
<1>17. CASE Reissue
  BY <1>17, JobAssumption
     DEF Reissue, agent, disk
<1>18. ASSUME NEW s \in Seqs, CoolDown(s)
     PROVE  SeqInv'
  BY <1>18, JobAssumption
     DEF CoolDown, agent, server, history
<1>19. ASSUME NEW r \in wire, Receive(r)
     PROVE  SeqInv'
  BY <1>19, JobAssumption
     DEF Receive, disk
<1>20. ASSUME NEW j \in Job, Claim(j)
     PROVE  SeqInv'
  BY <1>20, JobAssumption
     DEF Claim, disk, history
<1>21. ASSUME NEW j \in Job, Answered(j)
     PROVE  SeqInv'
  BY <1>21, SettleSeq DEF Answered
<1>22. ASSUME NEW j \in Job, Requeue(j)
     PROVE  SeqInv'
  BY <1>22, JobAssumption
     DEF Requeue, Fault, Take, agent, disk
<1>23. ASSUME NEW j \in Job, Abandon(j)
     PROVE  SeqInv'
  BY <1>23, JobAssumption
     DEF Abandon, Heartbeating, Named, Take, agent, disk
<1>24. CASE UNCHANGED vars
  BY <1>24 DEF vars, agent, disk, server, history
<1>25. CASE DeleteFails
  BY <1>25, JobAssumption
     DEF DeleteFails, Reported, Fault, disk, server, history
<1> QED
  BY <1>1, <1>2, <1>3, <1>4, <1>5, <1>6, <1>7, <1>8, <1>9, <1>10, <1>11, <1>12,
      <1>13, <1>14, <1>15, <1>16, <1>17, <1>18, <1>19, <1>20, <1>21, <1>22, <1>23, <1>24, <1>25
     DEF Next, Agent

\* A row that leaves the queue has a token.
LEMMA RowStep ==
    ASSUME TypeOK, RowInv, [Next]_vars
    PROVE  RowInv'
<1> USE DEF RowInv
<1>1. CASE Start
  BY <1>1
     DEF Start, disk, server, history
<1>2. CASE Drain
  BY <1>2
     DEF Drain, BeginDrain, disk, server, history
<1>3. CASE Transmit
  BY <1>3
     DEF Transmit, disk, history
<1>4. CASE EndDrain
  BY <1>4
     DEF EndDrain, Reported, disk, server, history
<1>5. CASE Register
  BY <1>5
     DEF Register, disk
<1>6. CASE RegisterRejected
  BY <1>6
     DEF RegisterRejected, disk, server, history
<1>7. CASE NoClaim
  BY <1>7
     DEF NoClaim, disk, server, history
<1>8. CASE Finish
  BY <1>8
     DEF Finish, Encoded, Done, Failed, Aborted, Decide, disk, server, history
<1>9. CASE Deliver
  BY <1>9
     DEF Deliver, append, BeginDrain, server
<1>10. CASE DirectDone
  BY <1>10
     DEF DirectDone, Reported, disk, server, history
<1>11. CASE TimedOut
  BY <1>11
     DEF TimedOut, Settle, delete, bump_attempts, server, history, Fault, disk
<1>12. CASE CutShort
  BY <1>12
     DEF CutShort, Reported, disk, server, history
<1>13. CASE DeliverUnjournaled
  BY <1>13
     DEF DeliverUnjournaled, Fault, disk
<1>14. CASE Crash
  BY <1>14
     DEF Crash, Fault, disk, server, history
<1>15. CASE Quarantine
  BY <1>15
     DEF Quarantine, Fault, disk, agent, server, history
<1>16. CASE Revoke
  BY <1>16
     DEF Revoke, Fault, agent, disk, history
<1>17. CASE Reissue
  <2>1. \A j \in Job : row'[j].status # "queued" => row[j].status # "queued" /\ row'[j].token = row[j].token
    BY <1>17 DEF Reissue, TypeOK
  <2> QED BY <2>1
<1>18. ASSUME NEW s \in Seqs, CoolDown(s)
     PROVE  RowInv'
  BY <1>18
     DEF CoolDown, agent, server, history
<1>19. ASSUME NEW r \in wire, Receive(r)
     PROVE  RowInv'
  BY <1>19
     DEF Receive, disk
<1>20. ASSUME NEW j \in Job, Claim(j)
     PROVE  RowInv'
  <2>1. claims + 1 # 0 /\ row' = [row EXCEPT ![j] = [status |-> "active", token |-> claims + 1]]
    BY <1>20 DEF Claim, TypeOK
  <2> QED BY <2>1 DEF TypeOK
<1>21. ASSUME NEW j \in Job, Answered(j)
     PROVE  RowInv'
  BY <1>21
     DEF Answered, Settle, delete, bump_attempts, server, history, Fault, disk
<1>22. ASSUME NEW j \in Job, Requeue(j)
     PROVE  RowInv'
  BY <1>22
     DEF Requeue, Fault, Take, agent, disk
<1>23. ASSUME NEW j \in Job, Abandon(j)
     PROVE  RowInv'
  BY <1>23
     DEF Abandon, Heartbeating, Named, Take, agent, disk
<1>24. CASE UNCHANGED vars
  BY <1>24 DEF vars, agent, disk, server, history
<1>25. CASE DeleteFails
  BY <1>25
     DEF DeleteFails, Reported, Fault, disk, server, history
<1> QED
  BY <1>1, <1>2, <1>3, <1>4, <1>5, <1>6, <1>7, <1>8, <1>9, <1>10, <1>11, <1>12,
      <1>13, <1>14, <1>15, <1>16, <1>17, <1>18, <1>19, <1>20, <1>21, <1>22, <1>23, <1>24, <1>25
     DEF Next, Agent

\* An answer is given as the scheduler puts its verdict on record, and only a restart takes a
\* new token.
LEMMA AnswerStep ==
    ASSUME TypeOK, PassInv, AnswerInv, [Next]_vars
    PROVE  AnswerInv'
<1> USE DEF AnswerInv
<1>1. CASE Start
  BY <1>1
     DEF Start, disk, server, history
<1>2. CASE Drain
  BY <1>2
     DEF Drain, BeginDrain, disk, server, history
<1>3. CASE Transmit
  BY <1>3
     DEF Transmit, disk, history
<1>4. CASE EndDrain
  BY <1>4
     DEF EndDrain, Reported, disk, server, history
<1>5. CASE Register
  BY <1>5
     DEF Register, disk
<1>6. CASE RegisterRejected
  BY <1>6
     DEF RegisterRejected, disk, server, history
<1>7. CASE NoClaim
  BY <1>7
     DEF NoClaim, disk, server, history
<1>8. CASE Finish
  BY <1>8
     DEF Finish, Encoded, Done, Failed, Aborted, Decide, disk, server, history
<1>9. CASE Deliver
  BY <1>9
     DEF Deliver, append, BeginDrain, server
<1>10. CASE DirectDone
  BY <1>10
     DEF DirectDone, Reported, disk, server, history
<1>11. CASE TimedOut
  BY <1>11
     DEF TimedOut, Settle, delete, bump_attempts, server, history, Fault, disk
<1>12. CASE CutShort
  BY <1>12
     DEF CutShort, Reported, disk, server, history
<1>13. CASE DeliverUnjournaled
  BY <1>13
     DEF DeliverUnjournaled, Fault, disk
<1>14. CASE Crash
  BY <1>14
     DEF Crash, Fault, disk, server, history
<1>15. CASE Quarantine
  BY <1>15
     DEF Quarantine, Fault, disk, agent, server, history
<1>16. CASE Revoke
  BY <1>16
     DEF Revoke, Fault, agent, disk, history
<1>17. CASE Reissue
  BY <1>17
     DEF Reissue, agent, disk, PassInv
<1>18. ASSUME NEW s \in Seqs, CoolDown(s)
     PROVE  AnswerInv'
  BY <1>18
     DEF CoolDown, agent, server, history
<1>19. ASSUME NEW r \in wire, Receive(r)
     PROVE  AnswerInv'
  BY <1>19
     DEF Receive, disk, Verdict
<1>20. ASSUME NEW j \in Job, Claim(j)
     PROVE  AnswerInv'
  BY <1>20
     DEF Claim, disk, history
<1>21. ASSUME NEW j \in Job, Answered(j)
     PROVE  AnswerInv'
  BY <1>21
     DEF Answered, Settle, delete, bump_attempts, server, history, Fault, disk
<1>22. ASSUME NEW j \in Job, Requeue(j)
     PROVE  AnswerInv'
  BY <1>22
     DEF Requeue, Fault, Take, agent, disk
<1>23. ASSUME NEW j \in Job, Abandon(j)
     PROVE  AnswerInv'
  BY <1>23
     DEF Abandon, Heartbeating, Named, Take, agent, disk
<1>24. CASE UNCHANGED vars
  BY <1>24 DEF vars, agent, disk, server, history
<1>25. CASE DeleteFails
  BY <1>25
     DEF DeleteFails, Reported, Fault, disk, server, history
<1> QED
  BY <1>1, <1>2, <1>3, <1>4, <1>5, <1>6, <1>7, <1>8, <1>9, <1>10, <1>11, <1>12,
      <1>13, <1>14, <1>15, <1>16, <1>17, <1>18, <1>19, <1>20, <1>21, <1>22, <1>23, <1>24, <1>25
     DEF Next, Agent

\* Settle keeps the report of the entry.
LEMMA SettleKnown ==
    ASSUME TypeOK, KnownInv, pc = "drain", sending # None, NEW class, Settle(class)
    PROVE  KnownInv'
<1>1. Bumped(sending).report = sending.report /\ sending.report \in decided
  BY SettleEffect, BumpedEntry DEF KnownInv
<1>2. \A e \in journal' : e.report \in decided
  BY <1>1, SettleEffect DEF KnownInv
<1> QED BY <1>2, SettleEffect DEF KnownInv

\* Nothing is written, sent or ruled on that was not reported.
LEMMA KnownStep ==
    ASSUME TypeOK, PassInv, KnownInv, [Next]_vars
    PROVE  KnownInv'
<1> USE DEF KnownInv
<1>1. CASE Start
  BY <1>1
     DEF Start, disk, server, history
<1>2. CASE Drain
  <2>1. todo' = journal /\ sending = None
    BY <1>2 DEF Drain, BeginDrain, PassInv
  <2> QED BY <1>2, <2>1 DEF Drain, disk, server, history
<1>3. CASE Transmit
  BY <1>3
     DEF Transmit, disk, history
<1>4. CASE EndDrain
  BY <1>4
     DEF EndDrain, Reported, disk, server, history
<1>5. CASE Register
  BY <1>5
     DEF Register, disk
<1>6. CASE RegisterRejected
  BY <1>6
     DEF RegisterRejected, disk, server, history
<1>7. CASE NoClaim
  BY <1>7
     DEF NoClaim, disk, server, history
<1>8. CASE Finish
  BY <1>8
     DEF Finish, Encoded, Done, Failed, Aborted, Decide, disk, server, history
<1>9. CASE Deliver
  <2> DEFINE e == [seq |-> next_seq, report |-> Due, attempts |-> 0]
  <2>1. /\ journal' = journal \cup {e} /\ todo' = journal' /\ sending' = None
        /\ decided' = decided \cup {Due} /\ UNCHANGED <<direct, wire, accepted, refused>>
    BY <1>9 DEF Deliver, append, BeginDrain, PassInv, server
  <2>2. e.report = Due
    OBVIOUS
  <2> HIDE DEF e
  <2> QED BY <2>1, <2>2
<1>10. CASE DirectDone
  BY <1>10
     DEF DirectDone, Reported, disk, server, history
<1>11. CASE TimedOut
  BY <1>11, SettleKnown DEF TimedOut
<1>12. CASE CutShort
  BY <1>12
     DEF CutShort, Reported, disk, server, history
<1>13. CASE DeliverUnjournaled
  BY <1>13
     DEF DeliverUnjournaled, Fault, disk
<1>14. CASE Crash
  BY <1>14
     DEF Crash, Fault, disk, server, history
<1>15. CASE Quarantine
  BY <1>15
     DEF Quarantine, Fault, disk, agent, server, history
<1>16. CASE Revoke
  BY <1>16
     DEF Revoke, Fault, agent, disk, history
<1>17. CASE Reissue
  BY <1>17
     DEF Reissue, agent, disk
<1>18. ASSUME NEW s \in Seqs, CoolDown(s)
     PROVE  KnownInv'
  BY <1>18
     DEF CoolDown, agent, server, history
<1>19. ASSUME NEW r \in wire, Receive(r)
     PROVE  KnownInv'
  BY <1>19
     DEF Receive, disk
<1>20. ASSUME NEW j \in Job, Claim(j)
     PROVE  KnownInv'
  BY <1>20
     DEF Claim, disk, history
<1>21. ASSUME NEW j \in Job, Answered(j)
     PROVE  KnownInv'
  BY <1>21, SettleKnown DEF Answered
<1>22. ASSUME NEW j \in Job, Requeue(j)
     PROVE  KnownInv'
  BY <1>22
     DEF Requeue, Fault, Take, agent, disk
<1>23. ASSUME NEW j \in Job, Abandon(j)
     PROVE  KnownInv'
  BY <1>23
     DEF Abandon, Heartbeating, Named, Take, agent, disk
<1>24. CASE UNCHANGED vars
  BY <1>24 DEF vars, agent, disk, server, history
<1>25. CASE DeleteFails
  BY <1>25
     DEF DeleteFails, Reported, Fault, disk, server, history
<1> QED
  BY <1>1, <1>2, <1>3, <1>4, <1>5, <1>6, <1>7, <1>8, <1>9, <1>10, <1>11, <1>12,
      <1>13, <1>14, <1>15, <1>16, <1>17, <1>18, <1>19, <1>20, <1>21, <1>22, <1>23, <1>24, <1>25
     DEF Next, Agent

-----------------------------------------------------------------------------
\* Claim tokens.

\* A step that hands out no token: new reports are the running attempt's, and a job is only
\* taken from an attempt that was claimed.
OldTokens ==
    /\ claims' = claims /\ cur' \in {cur, None}
    /\ \A i \in Job : row'[i].token = row[i].token
    /\ \A r \in decided' \cup direct' :
           r \in decided \cup direct \/ (cur \in Attempt /\ r.job = cur.job /\ r.token = cur.token)
    /\ \A t \in Token : taken'[t] # taken[t] => \E i \in Job : row[i].token = t

\* Every step but a claim leaves the tokens where they are.
LEMMA NoNewToken ==
    ASSUME TypeOK, ScriptInv, \A i \in Job : ~Claim(i), [Next]_vars
    PROVE  OldTokens
<1> USE DEF OldTokens
<1>1. CASE Start
  BY <1>1
     DEF Start, disk, server, history
<1>2. CASE Drain
  BY <1>2
     DEF Drain, BeginDrain, disk, server, history
<1>3. CASE Transmit
  BY <1>3
     DEF Transmit, disk, history
<1>4. CASE EndDrain
  BY <1>4
     DEF EndDrain, Reported, disk, server, history
<1>5. CASE Register
  BY <1>5
     DEF Register, disk
<1>6. CASE RegisterRejected
  BY <1>6
     DEF RegisterRejected, disk, server, history
<1>7. CASE NoClaim
  BY <1>7
     DEF NoClaim, disk, server, history
<1>8. CASE Finish
  BY <1>8
     DEF Finish, Encoded, Done, Failed, Aborted, Decide, disk, server, history
<1>9. CASE Deliver
  <2>1. Due.job = cur.job /\ Due.token = cur.token /\ cur \in Attempt
    BY <1>9, DueType DEF Deliver
  <2>2. decided' \cup direct' = decided \cup direct \cup {Due} /\ UNCHANGED <<claims, cur, row, taken>>
    BY <1>9 DEF Deliver, append, server
  <2> QED BY <2>1, <2>2
<1>10. CASE DirectDone
  BY <1>10
     DEF DirectDone, Reported, disk, server, history
<1>11. CASE TimedOut
  BY <1>11
     DEF TimedOut, Settle, delete, bump_attempts, server, history, Fault, disk
<1>12. CASE CutShort
  BY <1>12
     DEF CutShort, Reported, disk, server, history
<1>13. CASE DeliverUnjournaled
  <2>1. Due.job = cur.job /\ Due.token = cur.token /\ cur \in Attempt
    BY <1>13, DueType DEF DeliverUnjournaled
  <2>2. decided' \cup direct' = decided \cup direct \cup {Due} /\ UNCHANGED <<claims, cur, row, taken>>
    BY <1>13 DEF DeliverUnjournaled, append, server
  <2> QED BY <2>1, <2>2
<1>14. CASE Crash
  BY <1>14
     DEF Crash, Fault, disk, server, history
<1>15. CASE Quarantine
  BY <1>15
     DEF Quarantine, Fault, disk, agent, server, history
<1>16. CASE Revoke
  BY <1>16
     DEF Revoke, Fault, agent, disk, history
<1>17. CASE Reissue
  BY <1>17
     DEF Reissue, agent, disk
<1>18. ASSUME NEW s \in Seqs, CoolDown(s)
     PROVE  OldTokens
  BY <1>18
     DEF CoolDown, agent, server, history
<1>19. ASSUME NEW r \in wire, Receive(r)
     PROVE  OldTokens
  BY <1>19
     DEF Receive, disk
<1>20. ASSUME NEW j \in Job, Claim(j)
     PROVE  OldTokens
  BY <1>20
     DEF Claim, disk, history
<1>21. ASSUME NEW j \in Job, Answered(j)
     PROVE  OldTokens
  BY <1>21
     DEF Answered, Settle, delete, bump_attempts, server, history, Fault, disk
<1>22. ASSUME NEW j \in Job, Requeue(j)
     PROVE  OldTokens
  BY <1>22
     DEF Requeue, Fault, Take, agent, disk
<1>23. ASSUME NEW j \in Job, Abandon(j)
     PROVE  OldTokens
  BY <1>23
     DEF Abandon, Heartbeating, Named, Take, agent, disk
<1>24. CASE UNCHANGED vars
  BY <1>24 DEF vars, agent, disk, server, history
<1>25. CASE DeleteFails
  BY <1>25
     DEF DeleteFails, Reported, Fault, disk, server, history
<1> QED
  BY <1>1, <1>2, <1>3, <1>4, <1>5, <1>6, <1>7, <1>8, <1>9, <1>10, <1>11, <1>12,
      <1>13, <1>14, <1>15, <1>16, <1>17, <1>18, <1>19, <1>20, <1>21, <1>22, <1>23, <1>24, <1>25
     DEF Next, Agent

\* A claim token is given out once.
LEMMA AttemptStep ==
    ASSUME TypeOK, ScriptInv, AttemptInv, [Next]_vars
    PROVE  AttemptInv'
<1>1. \A j \in Job : row[j].token \in Nat /\ (row[j].token # 0 => row[j].token =< claims)
  <2> TAKE j \in Job
  <2>1. row[j].token \in Nat
    BY BoundAssumption DEF TypeOK, Token
  <2>2. row[j].token # 0 => [job |-> j, token |-> row[j].token] \in Attempts
    BY DEF Attempts
  <2> QED BY <2>1, <2>2 DEF AttemptInv
<1>2. CASE \A i \in Job : ~Claim(i)
  <2>1. OldTokens
    BY <1>2, NoNewToken
  <2>2. Attempts' \subseteq Attempts
    <3> SUFFICES ASSUME NEW a \in Attempts' PROVE a \in Attempts
      OBVIOUS
    <3>1. CASE \E r \in decided' \cup direct' : a = [job |-> r.job, token |-> r.token]
      <4>1. PICK r \in decided' \cup direct' : a = [job |-> r.job, token |-> r.token]
        BY <3>1
      <4>2. CASE r \in decided \cup direct
        BY <4>1, <4>2 DEF Attempts
      <4>3. CASE cur \in Attempt /\ r.job = cur.job /\ r.token = cur.token
        <5>1. a = cur /\ cur # None
          BY <4>1, <4>3, JobAssumption DEF Attempt
        <5> QED BY <5>1 DEF Attempts
      <4> QED BY <2>1, <4>2, <4>3 DEF OldTokens
    <3>2. CASE \E j \in Job : row'[j].token # 0 /\ a = [job |-> j, token |-> row'[j].token]
      BY <2>1, <3>2 DEF OldTokens, Attempts
    <3>3. CASE a = cur' /\ a # None
      BY <2>1, <3>3 DEF OldTokens, Attempts
    <3> QED BY <3>1, <3>2, <3>3 DEF Attempts
  <2>3. \A t \in Token : taken'[t] # "no" => t =< claims
    BY <1>1, <2>1 DEF OldTokens, AttemptInv, Token
  <2>4. claims' = claims
    BY <2>1 DEF OldTokens
  <2> QED BY <2>2, <2>3, <2>4 DEF AttemptInv
<1>3. ASSUME NEW j \in Job, Claim(j)
      PROVE  AttemptInv'
  <2> DEFINE new == [job |-> j, token |-> claims + 1]
  <2>1. /\ claims \in Nat /\ claims' = claims + 1 /\ cur' \in {cur, new}
        /\ row' = [row EXCEPT ![j] = [status |-> "active", token |-> claims + 1]]
        /\ UNCHANGED <<decided, direct, taken>>
    BY <1>3 DEF Claim, TypeOK, history
  <2>2. \A i \in Job : row'[i].token = IF i = j THEN claims + 1 ELSE row[i].token
    BY <2>1 DEF TypeOK
  <2>3. Attempts' \subseteq Attempts \cup {new}
    BY <2>1, <2>2 DEF Attempts
  <2>4. \A a \in Attempts : a.token \in Nat /\ a.token =< claims
    BY BoundAssumption DEF AttemptInv, Attempts, TypeOK, Attempt, Report, Token
  <2>5. new.token = claims + 1 /\ new.job = j
    OBVIOUS
  <2> HIDE DEF new
  <2>6. \A a \in Attempts' : a.token =< claims'
    BY <2>1, <2>3, <2>4, <2>5
  <2>7. \A a, b \in Attempts' : a.token = b.token => a.job = b.job
    BY <2>1, <2>3, <2>4, <2>5 DEF AttemptInv
  <2>8. \A t \in Token : taken'[t] # "no" => t =< claims'
    BY <2>1 DEF AttemptInv, Token
  <2> QED BY <2>6, <2>7, <2>8 DEF AttemptInv
<1> QED BY <1>2, <1>3

\* Reported leaves the outcome to report, or no job.
LEMMA ReportedFresh ==
    ASSUME TypeOK, ScriptInv, FreshInv, Busy, pc \in {"drain", "direct"}, Reported,
           UNCHANGED <<decided, direct>>
    PROVE  FreshInv'
<1>1. script # <<>>
  BY DEF ScriptInv, Busy
<1>2. CASE Len(script) = 1
  BY <1>2 DEF Reported, FreshInv
<1>3. CASE Len(script) = 2 /\ Tail(script) = <<"complete">>
  <2>1. script' = <<"complete">> /\ cur' = cur /\ pc' = "deliver"
    BY <1>3 DEF Reported
  <2>2. Len(script') = 1
    BY <2>1
  <2> QED BY <1>3, <2>1, <2>2 DEF FreshInv
<1> QED BY <1>1, <1>2, <1>3, ScriptCases

\* A job reports its derivative first and its outcome once.
LEMMA FreshStep ==
    ASSUME TypeOK, ScriptInv, AttemptInv, FreshInv, [Next]_vars
    PROVE  FreshInv'
<1> USE DEF FreshInv
<1>1. CASE Start
  BY <1>1
     DEF Start, disk, server, history
<1>2. CASE Drain
  BY <1>2
     DEF Drain, BeginDrain, disk, server, history
<1>3. CASE Transmit
  BY <1>3
     DEF Transmit, disk, history
<1>4. CASE EndDrain
  <2>1. pc = "drain" /\ UNCHANGED <<decided, direct>>
    BY <1>4 DEF EndDrain, history
  <2>2. CASE caller \in {"boot", "loop"} /\ UNCHANGED cur
    <3>1. cur' = None
      BY <2>1, <2>2 DEF ScriptInv, Busy
    <3> QED BY <3>1
  <2>3. CASE caller \in {"deliver", "abort"} /\ Reported
    BY <2>1, <2>3, ReportedFresh DEF Busy
  <2> QED BY <1>4, <2>2, <2>3 DEF EndDrain
<1>5. CASE Register
  BY <1>5
     DEF Register, disk
<1>6. CASE RegisterRejected
  BY <1>6
     DEF RegisterRejected, disk, server, history
<1>7. CASE NoClaim
  BY <1>7
     DEF NoClaim, disk, server, history
<1>8. CASE Finish
  BY <1>8
     DEF Finish, Encoded, Done, Failed, Aborted, Decide, disk, server, history
<1>9. CASE Deliver
  <2>1. script # <<>> /\ Due.kind = Head(script)
    BY <1>9, DueType DEF Deliver
  <2>2. /\ pc = "deliver" /\ pc' = "drain" /\ UNCHANGED <<cur, script>>
        /\ decided' \cup direct' = decided \cup direct \cup {Due}
    BY <1>9 DEF Deliver, append, BeginDrain, server
  <2>3. Len(script) = 2 => Due.kind = "register_derivative"
    BY <2>1, ScriptCases
  <2> QED BY <2>2, <2>3
<1>10. CASE DirectDone
  BY <1>10, ReportedFresh DEF DirectDone, Busy, history
<1>11. CASE TimedOut
  BY <1>11
     DEF TimedOut, Settle, delete, bump_attempts, server, history, Fault, disk
<1>12. CASE CutShort
  BY <1>12, ReportedFresh DEF CutShort, Busy, history
<1>13. CASE DeliverUnjournaled
  <2>1. script # <<>> /\ Due.kind = Head(script)
    BY <1>13, DueType DEF DeliverUnjournaled
  <2>2. /\ pc = "deliver" /\ pc' = "direct" /\ UNCHANGED <<cur, script>>
        /\ decided' \cup direct' = decided \cup direct \cup {Due}
    BY <1>13 DEF DeliverUnjournaled, append, BeginDrain, server
  <2>3. Len(script) = 2 => Due.kind = "register_derivative"
    BY <2>1, ScriptCases
  <2> QED BY <2>2, <2>3
<1>14. CASE Crash
  BY <1>14
     DEF Crash, Fault, disk, server, history
<1>15. CASE Quarantine
  BY <1>15
     DEF Quarantine, Fault, disk, agent, server, history
<1>16. CASE Revoke
  BY <1>16
     DEF Revoke, Fault, agent, disk, history
<1>17. CASE Reissue
  BY <1>17
     DEF Reissue, agent, disk
<1>18. ASSUME NEW s \in Seqs, CoolDown(s)
     PROVE  FreshInv'
  BY <1>18
     DEF CoolDown, agent, server, history
<1>19. ASSUME NEW r \in wire, Receive(r)
     PROVE  FreshInv'
  BY <1>19
     DEF Receive, disk
<1>20. ASSUME NEW j \in Job, Claim(j)
     PROVE  FreshInv'
  <2>1. CASE cur' = None
    BY <2>1
  <2>2. CASE cur' = [job |-> j, token |-> claims + 1]
    <3>1. \A r \in decided' \cup direct' : r.token \in Nat /\ r.token =< claims
      <4>1. \A r \in decided \cup direct : [job |-> r.job, token |-> r.token] \in Attempts
        BY DEF Attempts
      <4>2. \A r \in decided \cup direct : r.token =< claims
        BY <4>1 DEF AttemptInv
      <4> QED BY <1>20, <4>2, BoundAssumption DEF Claim, history, TypeOK, Report, Token
    <3>2. claims \in Nat
      BY DEF TypeOK
    <3> QED BY <2>2, <3>1, <3>2
  <2>3. cur = None
    BY <1>20 DEF Claim, ScriptInv, Busy
  <2> QED BY <1>20, <2>1, <2>2, <2>3 DEF Claim
<1>21. ASSUME NEW j \in Job, Answered(j)
     PROVE  FreshInv'
  BY <1>21
     DEF Answered, Settle, delete, bump_attempts, server, history, Fault, disk
<1>22. ASSUME NEW j \in Job, Requeue(j)
     PROVE  FreshInv'
  BY <1>22
     DEF Requeue, Fault, Take, agent, disk
<1>23. ASSUME NEW j \in Job, Abandon(j)
     PROVE  FreshInv'
  BY <1>23
     DEF Abandon, Heartbeating, Named, Take, agent, disk
<1>24. CASE UNCHANGED vars
  BY <1>24 DEF vars, agent, disk, server, history
<1>25. CASE DeleteFails
  BY <1>25, ReportedFresh DEF DeleteFails, Busy, history
<1> QED
  BY <1>1, <1>2, <1>3, <1>4, <1>5, <1>6, <1>7, <1>8, <1>9, <1>10, <1>11, <1>12,
      <1>13, <1>14, <1>15, <1>16, <1>17, <1>18, <1>19, <1>20, <1>21, <1>22, <1>23, <1>24, <1>25
     DEF Next, Agent

-----------------------------------------------------------------------------
\* Entries.

\* An entry that is an earlier one with at least as many attempts.
Old(e) ==
    \E f \in Live : f.seq = e.seq /\ f.report = e.report /\ (Exhausted(f) => Exhausted(e))

\* An entry that _deliver has just made.
New(e) ==
    /\ pc = "deliver" /\ e.seq = next_seq /\ e.report = Due /\ cur' = cur
    /\ \A f \in Live : f.seq < next_seq

\* Settle makes no new entry.
LEMMA SettleLive ==
    ASSUME TypeOK, sending # None, NEW class, Settle(class)
    PROVE  \A e \in Live' : Old(e)
<1> SUFFICES ASSUME NEW e \in Live' PROVE Old(e)
  OBVIOUS
<1>1. CASE e = Bumped(sending)
  BY <1>1, SettleEffect, BumpedEntry DEF Old, Live
<1>2. CASE e \in journal \cup todo
  BY <1>2 DEF Old, Live
<1> QED BY <1>1, <1>2, SettleEffect DEF Live

\* Every entry is an old one, or one that _deliver has just made and put last.
LEMMA LiveStep ==
    ASSUME TypeOK, SeqInv, PassInv, [Next]_vars
    PROVE  \A e \in Live' : Old(e) \/ New(e)
<1> USE DEF Old, New, Live
<1>1. CASE Start
  BY <1>1
     DEF Start, disk, server, history
<1>2. CASE Drain
  BY <1>2
     DEF Drain, BeginDrain, disk, server, history
<1>3. CASE Transmit
  BY <1>3
     DEF Transmit, disk, history
<1>4. CASE EndDrain
  BY <1>4
     DEF EndDrain, Reported, disk, server, history
<1>5. CASE Register
  BY <1>5
     DEF Register, disk
<1>6. CASE RegisterRejected
  BY <1>6
     DEF RegisterRejected, disk, server, history
<1>7. CASE NoClaim
  BY <1>7
     DEF NoClaim, disk, server, history
<1>8. CASE Finish
  BY <1>8
     DEF Finish, Encoded, Done, Failed, Aborted, Decide, disk, server, history
<1>9. CASE Deliver
  <2> DEFINE e == [seq |-> next_seq, report |-> Due, attempts |-> 0]
  <2>1. /\ pc = "deliver" /\ journal' = journal \cup {e} /\ todo' = journal' /\ sending' = None
        /\ todo = {} /\ sending = None /\ cur' = cur
    BY <1>9 DEF Deliver, append, BeginDrain, PassInv
  <2>2. e.seq = next_seq /\ e.report = Due /\ \A f \in journal : f.seq < next_seq
    BY NextSeqAfter
  <2> HIDE DEF e
  <2> QED BY <2>1, <2>2
<1>10. CASE DirectDone
  BY <1>10
     DEF DirectDone, Reported, disk, server, history
<1>11. CASE TimedOut
  BY <1>11, SettleLive DEF TimedOut
<1>12. CASE CutShort
  BY <1>12
     DEF CutShort, Reported, disk, server, history
<1>13. CASE DeliverUnjournaled
  <2>1. /\ pc = "deliver" /\ journal' = journal /\ todo' = todo /\ cur' = cur
        /\ sending'.seq = next_seq /\ sending'.report = Due /\ todo = {} /\ sending = None
    BY <1>13 DEF DeliverUnjournaled, PassInv, disk
  <2>2. \A f \in journal : f.seq < next_seq
    BY NextSeqAfter
  <2> QED BY <2>1, <2>2
<1>14. CASE Crash
  BY <1>14
     DEF Crash, Fault, disk, server, history
<1>15. CASE Quarantine
  BY <1>15
     DEF Quarantine, Fault, disk, agent, server, history
<1>16. CASE Revoke
  BY <1>16
     DEF Revoke, Fault, agent, disk, history
<1>17. CASE Reissue
  BY <1>17
     DEF Reissue, agent, disk
<1>18. ASSUME NEW s \in Seqs, CoolDown(s)
     PROVE  \A e \in Live' : Old(e) \/ New(e)
  BY <1>18
     DEF CoolDown, agent, server, history
<1>19. ASSUME NEW r \in wire, Receive(r)
     PROVE  \A e \in Live' : Old(e) \/ New(e)
  BY <1>19
     DEF Receive, disk
<1>20. ASSUME NEW j \in Job, Claim(j)
     PROVE  \A e \in Live' : Old(e) \/ New(e)
  BY <1>20
     DEF Claim, disk, history
<1>21. ASSUME NEW j \in Job, Answered(j)
     PROVE  \A e \in Live' : Old(e) \/ New(e)
  BY <1>21, SettleLive DEF Answered
<1>22. ASSUME NEW j \in Job, Requeue(j)
     PROVE  \A e \in Live' : Old(e) \/ New(e)
  BY <1>22
     DEF Requeue, Fault, Take, agent, disk
<1>23. ASSUME NEW j \in Job, Abandon(j)
     PROVE  \A e \in Live' : Old(e) \/ New(e)
  BY <1>23
     DEF Abandon, Heartbeating, Named, Take, agent, disk
<1>24. CASE UNCHANGED vars
  BY <1>24 DEF vars, agent, disk, server, history
<1>25. CASE DeleteFails
  BY <1>25
     DEF DeleteFails, Reported, Fault, disk, server, history
<1> QED
  BY <1>1, <1>2, <1>3, <1>4, <1>5, <1>6, <1>7, <1>8, <1>9, <1>10, <1>11, <1>12,
      <1>13, <1>14, <1>15, <1>16, <1>17, <1>18, <1>19, <1>20, <1>21, <1>22, <1>23, <1>24, <1>25
     DEF Next, Agent

\* No outcome of the running attempt is known before its derivative is reported.
LEMMA DueOrder ==
    ASSUME TypeOK, ScriptInv, FreshInv, pc = "deliver", NEW r \in decided \cup direct,
           r.kind \in Outcomes
    PROVE  Due # Derivative(r)
<1> SUFFICES ASSUME Due = Derivative(r) PROVE FALSE
  OBVIOUS
<1>1. r \in Report
  BY DEF TypeOK
<1>2. r.token = cur.token /\ Due.kind = "register_derivative"
  BY <1>1, DueType DEF Derivative, Report
<1>3. cur # None
  BY DueType, JobAssumption
<1>4. r.kind = "register_derivative"
  BY <1>2, <1>3 DEF FreshInv
<1> QED BY <1>4 DEF Outcomes

\* A derivative stays before its outcome among the files.
LEMMA FileOrderStep ==
    ASSUME TypeOK, SeqInv, PassInv, ScriptInv, KnownInv, FreshInv, FileOrder, [Next]_vars
    PROVE  FileOrder'
<1> SUFFICES ASSUME NEW e \in Live', NEW f \in Live',
                    f.report.kind \in Outcomes, e.report = Derivative(f.report)
             PROVE  e.seq < f.seq
  BY DEF FileOrder
<1>1. (Old(e) \/ New(e)) /\ (Old(f) \/ New(f))
  BY LiveStep
<1>2. CASE Old(e) /\ Old(f)
  BY <1>2 DEF Old, FileOrder
<1>3. CASE Old(e) /\ New(f)
  BY <1>3 DEF Old, New
<1>4. CASE New(e) /\ Old(f)
  <2>1. PICK g \in Live : g.report = f.report
    BY <1>4 DEF Old
  <2>2. g.report \in decided \cup direct
    BY <2>1 DEF KnownInv, Live
  <2> QED BY <1>4, <2>1, <2>2, DueOrder DEF New
<1>5. CASE New(e) /\ New(f)
  <2>1. Due.kind \in Outcomes /\ Due = Derivative(Due) /\ Due \in Report
    BY <1>5, DueType DEF New
  <2>2. Due.kind = "register_derivative"
    BY <2>1 DEF Derivative, Report
  <2> QED BY <2>1, <2>2 DEF Outcomes
<1> QED BY <1>1, <1>2, <1>3, <1>4, <1>5

\* A report is new when _deliver comes to it.
LEMMA DueFresh ==
    ASSUME TypeOK, ScriptInv, FreshInv, pc = "deliver"
    PROVE  Due \notin decided \cup direct
<1> SUFFICES ASSUME Due \in decided \cup direct PROVE FALSE
  OBVIOUS
<1>1. cur # None /\ Due.token = cur.token /\ script # <<>> /\ Due.kind = Head(script)
  BY DueType, JobAssumption
<1>2. Len(script) = 1 /\ Due.kind = "register_derivative"
  BY <1>1 DEF FreshInv
<1> QED BY <1>1, <1>2, ScriptCases DEF Outcomes

\* No report gets a second file.
LEMMA OnceStep ==
    ASSUME TypeOK, SeqInv, PassInv, ScriptInv, KnownInv, FreshInv, OnceInv, [Next]_vars
    PROVE  OnceInv'
<1> SUFFICES ASSUME NEW e \in Live', NEW f \in Live', e.report = f.report
             PROVE  e.seq = f.seq
  BY DEF OnceInv
<1>1. (Old(e) \/ New(e)) /\ (Old(f) \/ New(f))
  BY LiveStep
<1>2. \A g \in Live : g.report \in decided \cup direct
  BY DEF KnownInv, Live
<1>3. CASE Old(e) /\ Old(f)
  BY <1>3 DEF Old, OnceInv
<1>4. CASE Old(e) /\ New(f)
  BY <1>2, <1>4, DueFresh DEF Old, New
<1>5. CASE New(e) /\ Old(f)
  BY <1>2, <1>5, DueFresh DEF Old, New
<1>6. CASE New(e) /\ New(f)
  BY <1>6 DEF New
<1> QED BY <1>1, <1>3, <1>4, <1>5, <1>6

\* The answer to one entry leaves the files of the others alone.
LEMMA SettleRead ==
    ASSUME TypeOK, SeqInv, PassInv, ReadInv, pc = "drain", sending # None, NEW class,
           Settle(class)
    PROVE  ReadInv'
<1> SUFFICES ASSUME NEW e \in todo PROVE e \in journal' \/ e.report \in quarantined
  BY SettleEffect DEF ReadInv
<1>1. e.seq # sending.seq
  BY SettleEffect DEF PassInv, TypeOK, Entry
<1> QED BY <1>1, SettleEffect DEF ReadInv

\* A file that was read changes only when its own answer comes, or is set aside.
LEMMA ReadStep ==
    ASSUME TypeOK, SeqInv, PassInv, ReadInv, [Next]_vars
    PROVE  ReadInv'
<1> USE DEF ReadInv
<1>1. CASE Start
  BY <1>1
     DEF Start, disk, server, history
<1>2. CASE Drain
  BY <1>2 DEF Drain, BeginDrain, disk, PassInv
<1>3. CASE Transmit
  <2>1. pc = "drain" /\ sending' \in todo /\ todo' \subseteq todo /\ UNCHANGED disk
    BY <1>3 DEF Transmit
  <2> QED BY <2>1 DEF disk
<1>4. CASE EndDrain
  BY <1>4 DEF EndDrain
<1>5. CASE Register
  BY <1>5
     DEF Register, disk
<1>6. CASE RegisterRejected
  BY <1>6
     DEF RegisterRejected, disk, server, history
<1>7. CASE NoClaim
  BY <1>7
     DEF NoClaim, disk, server, history
<1>8. CASE Finish
  BY <1>8
     DEF Finish, Encoded, Done, Failed, Aborted, Decide, disk, server, history
<1>9. CASE Deliver
  BY <1>9 DEF Deliver, BeginDrain, PassInv
<1>10. CASE DirectDone
  BY <1>10
     DEF DirectDone, Reported, disk, server, history
<1>11. CASE TimedOut
  BY <1>11, SettleRead DEF TimedOut
<1>12. CASE CutShort
  BY <1>12 DEF CutShort
<1>13. CASE DeliverUnjournaled
  BY <1>13
     DEF DeliverUnjournaled, Fault, disk
<1>14. CASE Crash
  BY <1>14
     DEF Crash, Fault, disk, server, history
<1>15. CASE Quarantine
  BY <1>15
     DEF Quarantine, Fault, disk, agent, server, history
<1>16. CASE Revoke
  BY <1>16
     DEF Revoke, Fault, agent, disk, history
<1>17. CASE Reissue
  BY <1>17
     DEF Reissue, agent, disk
<1>18. ASSUME NEW s \in Seqs, CoolDown(s)
     PROVE  ReadInv'
  BY <1>18
     DEF CoolDown, agent, server, history
<1>19. ASSUME NEW r \in wire, Receive(r)
     PROVE  ReadInv'
  BY <1>19
     DEF Receive, disk
<1>20. ASSUME NEW j \in Job, Claim(j)
     PROVE  ReadInv'
  BY <1>20
     DEF Claim, disk, history
<1>21. ASSUME NEW j \in Job, Answered(j)
     PROVE  ReadInv'
  BY <1>21, SettleRead DEF Answered
<1>22. ASSUME NEW j \in Job, Requeue(j)
     PROVE  ReadInv'
  BY <1>22
     DEF Requeue, Fault, Take, agent, disk
<1>23. ASSUME NEW j \in Job, Abandon(j)
     PROVE  ReadInv'
  BY <1>23
     DEF Abandon, Take, agent, disk
<1>24. CASE UNCHANGED vars
  BY <1>24 DEF vars, agent, disk, server, history
<1>25. CASE DeleteFails
  BY <1>25 DEF DeleteFails
<1> QED
  BY <1>1, <1>2, <1>3, <1>4, <1>5, <1>6, <1>7, <1>8, <1>9, <1>10, <1>11, <1>12,
      <1>13, <1>14, <1>15, <1>16, <1>17, <1>18, <1>19, <1>20, <1>21, <1>22, <1>23, <1>24, <1>25
     DEF Next, Agent

\* Reports of two attempts share the directory only when the older are out of attempts.
LEMMA OlderExhaustedStep ==
    ASSUME TypeOK, SeqInv, PassInv, ScriptInv, OlderExhausted, ClaimInv, [Next]_vars
    PROVE  OlderExhausted'
<1> SUFFICES ASSUME NEW e \in Live', NEW f \in Live',
                    e.seq < f.seq, e.report.token # f.report.token
             PROVE  Exhausted(e)
  BY DEF OlderExhausted, Exhausted
<1>1. (Old(e) \/ New(e)) /\ (Old(f) \/ New(f))
  BY LiveStep
<1>2. CASE Old(e) /\ Old(f)
  BY <1>2 DEF Old, OlderExhausted
<1>3. CASE Old(e) /\ New(f)
  <2>1. cur # None /\ Due.token = cur.token
    BY <1>3, DueType, JobAssumption DEF New
  <2> QED BY <1>3, <2>1 DEF Old, New, ClaimInv
<1>4. CASE New(e) /\ Old(f)
  <2>1. PICK g \in Live : g.seq = f.seq /\ g.seq < next_seq /\ e.seq = next_seq
    BY <1>4 DEF Old, New
  <2>2. g.seq \in Nat /\ next_seq \in Nat
    BY <2>1, NextSeqAfter DEF TypeOK, Live, Entry
  <2> QED BY <2>1, <2>2
<1>5. CASE New(e) /\ New(f)
  BY <1>5 DEF New
<1> QED BY <1>1, <1>2, <1>3, <1>4, <1>5

-----------------------------------------------------------------------------
\* Rulings.

\* Settle deletes no report that was not ruled on.
LEMMA SettleDropsNone ==
    ASSUME TypeOK, SeqInv, NoReportDropped, sending # None, NEW class, Settle(class),
           class \in {"ok", "terminal"} => sending.report \in accepted \cup refused
    PROVE  NoReportDropped'
<1> SUFFICES ASSUME NEW r \in decided
             PROVE  r \in Pending' \cup accepted \cup refused \cup quarantined
  BY SettleEffect DEF NoReportDropped
<1>1. CASE r \in accepted \cup refused \cup quarantined
  BY <1>1
<1>2. ASSUME NEW e \in journal, e.report = r
      PROVE  r \in Pending' \cup accepted \cup refused \cup quarantined
  <2>1. e \in Live /\ sending \in Live
    BY DEF Live
  <2>2. CASE e.seq # sending.seq
    <3>1. e \in journal'
      BY <2>2, SettleEffect
    <3> QED BY <1>2, <3>1 DEF Pending
  <2>3. CASE e = sending
    <3>1. CASE class \in {"ok", "terminal"}
      BY <1>2, <2>3, <3>1
    <3>2. CASE journal' = {f \in journal : f.seq # sending.seq} \cup {Bumped(sending)}
      <4>1. Bumped(sending) \in journal' /\ Bumped(sending).report = r
        BY <1>2, <2>3, <3>2, SettleEffect, BumpedEntry
      <4> QED BY <4>1 DEF Pending
    <3>3. CASE journal' = journal
      BY <1>2, <3>3 DEF Pending
    <3> QED BY <3>1, <3>2, <3>3, SettleEffect
  <2> QED BY <2>1, <2>2, <2>3 DEF SeqInv
<1> QED BY <1>1, <1>2 DEF NoReportDropped, Pending

\* "An entry is deleted only on acknowledged receipt", whatever happens between the send and
\* the answer.
LEMMA DroppedStep ==
    ASSUME TypeOK, SeqInv, PassInv, AnswerInv, NoReportDropped, [Next]_vars
    PROVE  NoReportDropped'
<1> USE DEF NoReportDropped, Pending
<1>1. CASE Start
  BY <1>1
     DEF Start, disk, server, history
<1>2. CASE Drain
  BY <1>2
     DEF Drain, BeginDrain, disk, server, history
<1>3. CASE Transmit
  BY <1>3
     DEF Transmit, disk, history
<1>4. CASE EndDrain
  BY <1>4
     DEF EndDrain, Reported, disk, server, history
<1>5. CASE Register
  BY <1>5
     DEF Register, disk
<1>6. CASE RegisterRejected
  BY <1>6
     DEF RegisterRejected, disk, server, history
<1>7. CASE NoClaim
  BY <1>7
     DEF NoClaim, disk, server, history
<1>8. CASE Finish
  BY <1>8
     DEF Finish, Encoded, Done, Failed, Aborted, Decide, disk, server, history
<1>9. CASE Deliver
  <2> DEFINE e == [seq |-> next_seq, report |-> Due, attempts |-> 0]
  <2>1. /\ journal' = journal \cup {e} /\ decided' = decided \cup {Due}
        /\ UNCHANGED <<accepted, refused, quarantined>>
    BY <1>9 DEF Deliver, append
  <2>2. e.report = Due
    OBVIOUS
  <2> HIDE DEF e
  <2> QED BY <2>1, <2>2
<1>10. CASE DirectDone
  BY <1>10
     DEF DirectDone, Reported, disk, server, history
<1>11. CASE TimedOut
  BY <1>11, SettleDropsNone DEF TimedOut
<1>12. CASE CutShort
  BY <1>12
     DEF CutShort, Reported, disk, server, history
<1>13. CASE DeliverUnjournaled
  BY <1>13
     DEF DeliverUnjournaled, Fault, disk
<1>14. CASE Crash
  BY <1>14
     DEF Crash, Fault, disk, server, history
<1>15. CASE Quarantine
  BY <1>15
     DEF Quarantine, Fault, disk, agent, server, history
<1>16. CASE Revoke
  BY <1>16
     DEF Revoke, Fault, agent, disk, history
<1>17. CASE Reissue
  BY <1>17
     DEF Reissue, agent, disk
<1>18. ASSUME NEW s \in Seqs, CoolDown(s)
     PROVE  NoReportDropped'
  BY <1>18
     DEF CoolDown, agent, server, history
<1>19. ASSUME NEW r \in wire, Receive(r)
     PROVE  NoReportDropped'
  BY <1>19
     DEF Receive, disk
<1>20. ASSUME NEW j \in Job, Claim(j)
     PROVE  NoReportDropped'
  BY <1>20
     DEF Claim, disk, history
<1>21. ASSUME NEW j \in Job, Answered(j)
     PROVE  NoReportDropped'
  <2>1. answer \in {"ok", "terminal"} => sending.report \in accepted \cup refused
    BY DEF AnswerInv
  <2> QED BY <1>21, <2>1, SettleDropsNone DEF Answered
<1>22. ASSUME NEW j \in Job, Requeue(j)
     PROVE  NoReportDropped'
  BY <1>22
     DEF Requeue, Fault, Take, agent, disk
<1>23. ASSUME NEW j \in Job, Abandon(j)
     PROVE  NoReportDropped'
  BY <1>23
     DEF Abandon, Heartbeating, Named, Take, agent, disk
<1>24. CASE UNCHANGED vars
  BY <1>24 DEF vars, agent, disk, server, history
<1>25. CASE DeleteFails
  BY <1>25
     DEF DeleteFails, Reported, Fault, disk, server, history
<1> QED
  BY <1>1, <1>2, <1>3, <1>4, <1>5, <1>6, <1>7, <1>8, <1>9, <1>10, <1>11, <1>12,
      <1>13, <1>14, <1>15, <1>16, <1>17, <1>18, <1>19, <1>20, <1>21, <1>22, <1>23, <1>24, <1>25
     DEF Next, Agent

\* When an outcome is sent from the journal, its derivative is not waiting there.
LEMMA TransmitInOrder ==
    ASSUME TypeOK, PassInv, FileOrder, NoReportDropped, pc = "drain", sending = None,
           NEW e \in todo, Sendable(e), \A f \in todo : Sendable(f) => e.seq =< f.seq,
           e.report.kind \in Outcomes, Derivative(e.report) \in decided
    PROVE  Derivative(e.report) \in Ruled
<1> SUFFICES ASSUME NEW f \in journal, f.report = Derivative(e.report) PROVE FALSE
  BY DEF NoReportDropped, Pending, Ruled
<1>1. f \in Live /\ e \in Live /\ f \in Entry /\ e \in Entry /\ f # None
  BY JobAssumption DEF Live, TypeOK
<1>2. f.seq < e.seq
  BY <1>1 DEF FileOrder
<1>3. f.report.job = e.report.job
  BY <1>1 DEF Derivative, Entry, Report
<1>4. f \in todo
  BY <1>1, <1>3 DEF PassInv, Sendable
<1>5. f.seq \in Nat /\ e.seq \in Nat /\ \A g \in todo : g.seq \in Nat
  BY <1>1 DEF Entry, TypeOK
<1>6. Sendable(f)
  BY <1>2, <1>3, <1>5 DEF Sendable
<1> QED BY <1>2, <1>4, <1>5, <1>6

\* An outcome from the journal goes out when its derivative is ruled on.
LEMMA WireOrderStep ==
    ASSUME TypeOK, SeqInv, PassInv, ScriptInv, KnownInv, FreshInv, FileOrder, NoReportDropped,
           WireOrder, [Next]_vars
    PROVE  WireOrder'
<1> USE DEF WireOrder, Ruled
<1>1. CASE Start
  BY <1>1
     DEF Start, disk, server, history
<1>2. CASE Drain
  BY <1>2
     DEF Drain, BeginDrain, disk, server, history
<1>3. CASE Transmit
  <2>1. PICK e \in todo :
            /\ Sendable(e) /\ \A f \in todo : Sendable(f) => e.seq =< f.seq
            /\ wire' = wire \cup {e.report}
    BY <1>3, TransmitEffect
  <2>2. /\ pc = "drain" /\ sending = None
        /\ UNCHANGED <<decided, direct, accepted, refused, quarantined>>
    BY <1>3 DEF Transmit, disk, history
  <2>3. e.report.kind \in Outcomes /\ Derivative(e.report) \in decided => Derivative(e.report) \in Ruled
    BY <2>1, <2>2, TransmitInOrder
  <2> QED BY <2>1, <2>2, <2>3
<1>4. CASE EndDrain
  BY <1>4
     DEF EndDrain, Reported, disk, server, history
<1>5. CASE Register
  BY <1>5
     DEF Register, disk
<1>6. CASE RegisterRejected
  BY <1>6
     DEF RegisterRejected, disk, server, history
<1>7. CASE NoClaim
  BY <1>7
     DEF NoClaim, disk, server, history
<1>8. CASE Finish
  BY <1>8
     DEF Finish, Encoded, Done, Failed, Aborted, Decide, disk, server, history
<1>9. CASE Deliver
  <2>1. /\ pc = "deliver" /\ decided' = decided \cup {Due}
        /\ UNCHANGED <<wire, direct, accepted, refused, quarantined>>
    BY <1>9 DEF Deliver, append, server
  <2>2. \A r \in wire : r.kind \in Outcomes => Due # Derivative(r)
    BY <2>1, DueOrder DEF KnownInv
  <2> QED BY <2>1, <2>2
<1>10. CASE DirectDone
  BY <1>10
     DEF DirectDone, Reported, disk, server, history
<1>11. CASE TimedOut
  BY <1>11
     DEF TimedOut, Settle, delete, bump_attempts, server, history, Fault, disk
<1>12. CASE CutShort
  BY <1>12
     DEF CutShort, Reported, disk, server, history
<1>13. CASE DeliverUnjournaled
  BY <1>13
     DEF DeliverUnjournaled, Fault, disk
<1>14. CASE Crash
  BY <1>14
     DEF Crash, Fault, disk, server, history
<1>15. CASE Quarantine
  BY <1>15
     DEF Quarantine, Fault, disk, agent, server, history
<1>16. CASE Revoke
  BY <1>16
     DEF Revoke, Fault, agent, disk, history
<1>17. CASE Reissue
  BY <1>17
     DEF Reissue, agent, disk
<1>18. ASSUME NEW s \in Seqs, CoolDown(s)
     PROVE  WireOrder'
  BY <1>18
     DEF CoolDown, agent, server, history
<1>19. ASSUME NEW r \in wire, Receive(r)
     PROVE  WireOrder'
  BY <1>19
     DEF Receive, disk
<1>20. ASSUME NEW j \in Job, Claim(j)
     PROVE  WireOrder'
  BY <1>20
     DEF Claim, disk, history
<1>21. ASSUME NEW j \in Job, Answered(j)
     PROVE  WireOrder'
  BY <1>21
     DEF Answered, Settle, delete, bump_attempts, server, history, Fault, disk
<1>22. ASSUME NEW j \in Job, Requeue(j)
     PROVE  WireOrder'
  BY <1>22
     DEF Requeue, Fault, Take, agent, disk
<1>23. ASSUME NEW j \in Job, Abandon(j)
     PROVE  WireOrder'
  BY <1>23
     DEF Abandon, Heartbeating, Named, Take, agent, disk
<1>24. CASE UNCHANGED vars
  BY <1>24 DEF vars, agent, disk, server, history
<1>25. CASE DeleteFails
  BY <1>25
     DEF DeleteFails, Reported, Fault, disk, server, history
<1> QED
  BY <1>1, <1>2, <1>3, <1>4, <1>5, <1>6, <1>7, <1>8, <1>9, <1>10, <1>11, <1>12,
      <1>13, <1>14, <1>15, <1>16, <1>17, <1>18, <1>19, <1>20, <1>21, <1>22, <1>23, <1>24, <1>25
     DEF Next, Agent

\* The scheduler rules on an outcome from the journal after it ruled on its derivative.
LEMMA ChainStep ==
    ASSUME TypeOK, ScriptInv, KnownInv, FreshInv, WireOrder, ChainInOrder, [Next]_vars
    PROVE  ChainInOrder'
<1> USE DEF ChainInOrder, Ruled, Derivative
<1>1. CASE Start
  BY <1>1
     DEF Start, disk, server, history
<1>2. CASE Drain
  BY <1>2
     DEF Drain, BeginDrain, disk, server, history
<1>3. CASE Transmit
  BY <1>3
     DEF Transmit, disk, history
<1>4. CASE EndDrain
  BY <1>4
     DEF EndDrain, Reported, disk, server, history
<1>5. CASE Register
  BY <1>5
     DEF Register, disk
<1>6. CASE RegisterRejected
  BY <1>6
     DEF RegisterRejected, disk, server, history
<1>7. CASE NoClaim
  BY <1>7
     DEF NoClaim, disk, server, history
<1>8. CASE Finish
  BY <1>8
     DEF Finish, Encoded, Done, Failed, Aborted, Decide, disk, server, history
<1>9. CASE Deliver
  <2>1. /\ pc = "deliver" /\ decided' = decided \cup {Due}
        /\ UNCHANGED <<direct, accepted, refused, quarantined>>
    BY <1>9 DEF Deliver, append, server
  <2>2. ASSUME NEW r \in (accepted \cup refused) \ direct, Derivative(r) \in decided'
        PROVE  Derivative(r) \in Ruled
    <3>1. CASE Derivative(r) \in decided
      BY <2>2, <3>1
    <3>2. CASE Due = Derivative(r)
      <4>1. r \in decided \cup direct /\ r \in Report
        BY <2>2 DEF KnownInv, TypeOK
      <4>2. r.kind \notin Outcomes
        BY <2>1, <3>2, <4>1, DueOrder
      <4>3. Derivative(r) = r
        BY <4>1, <4>2 DEF Derivative, Report, MILESTONE_KINDS
      <4> QED BY <2>2, <4>3
    <3> QED BY <2>1, <2>2, <3>1, <3>2
  <2> QED BY <2>1, <2>2
<1>10. CASE DirectDone
  BY <1>10
     DEF DirectDone, Reported, disk, server, history
<1>11. CASE TimedOut
  BY <1>11
     DEF TimedOut, Settle, delete, bump_attempts, server, history, Fault, disk
<1>12. CASE CutShort
  BY <1>12
     DEF CutShort, Reported, disk, server, history
<1>13. CASE DeliverUnjournaled
  BY <1>13
     DEF DeliverUnjournaled, Fault, disk
<1>14. CASE Crash
  BY <1>14
     DEF Crash, Fault, disk, server, history
<1>15. CASE Quarantine
  BY <1>15
     DEF Quarantine, Fault, disk, agent, server, history
<1>16. CASE Revoke
  BY <1>16
     DEF Revoke, Fault, agent, disk, history
<1>17. CASE Reissue
  BY <1>17
     DEF Reissue, agent, disk
<1>18. ASSUME NEW s \in Seqs, CoolDown(s)
     PROVE  ChainInOrder'
  BY <1>18
     DEF CoolDown, agent, server, history
<1>19. ASSUME NEW r \in wire, Receive(r)
     PROVE  ChainInOrder'
  <2>1. /\ accepted \subseteq accepted' /\ refused \subseteq refused'
        /\ accepted' \cup refused' \subseteq accepted \cup refused \cup {r}
        /\ UNCHANGED <<decided, direct, quarantined>>
    BY <1>19 DEF Receive, disk
  <2>2. ASSUME NEW q \in (accepted' \cup refused') \ direct, Derivative(q) \in decided
        PROVE  Derivative(q) \in Ruled'
    <3>1. CASE q \in accepted \cup refused
      BY <2>1, <2>2, <3>1
    <3>2. CASE q = r /\ r.kind \in Outcomes
      BY <2>1, <2>2, <3>2 DEF WireOrder
    <3>3. CASE q = r /\ r.kind \notin Outcomes
      <4>1. Derivative(r) = r
        BY <3>3 DEF Derivative, TypeOK, Report, MILESTONE_KINDS
      <4> QED BY <2>2, <3>3, <4>1
    <3> QED BY <2>1, <2>2, <3>1, <3>2, <3>3
  <2> QED BY <2>1, <2>2
<1>20. ASSUME NEW j \in Job, Claim(j)
     PROVE  ChainInOrder'
  BY <1>20
     DEF Claim, disk, history
<1>21. ASSUME NEW j \in Job, Answered(j)
     PROVE  ChainInOrder'
  BY <1>21
     DEF Answered, Settle, delete, bump_attempts, server, history, Fault, disk
<1>22. ASSUME NEW j \in Job, Requeue(j)
     PROVE  ChainInOrder'
  BY <1>22
     DEF Requeue, Fault, Take, agent, disk
<1>23. ASSUME NEW j \in Job, Abandon(j)
     PROVE  ChainInOrder'
  BY <1>23
     DEF Abandon, Heartbeating, Named, Take, agent, disk
<1>24. CASE UNCHANGED vars
  BY <1>24 DEF vars, agent, disk, server, history
<1>25. CASE DeleteFails
  BY <1>25
     DEF DeleteFails, Reported, Fault, disk, server, history
<1> QED
  BY <1>1, <1>2, <1>3, <1>4, <1>5, <1>6, <1>7, <1>8, <1>9, <1>10, <1>11, <1>12,
      <1>13, <1>14, <1>15, <1>16, <1>17, <1>18, <1>19, <1>20, <1>21, <1>22, <1>23, <1>24, <1>25
     DEF Next, Agent

-----------------------------------------------------------------------------
\* Attempts that are used up.

\* Settle counts attempts up, never down.
LEMMA SettleClaim ==
    ASSUME TypeOK, PassInv, ClaimInv, pc = "drain", sending # None, NEW class, Settle(class)
    PROVE  ClaimInv'
<1>1. pc' = "drain" /\ cur' = cur /\ \A e \in Live' : Old(e)
  BY SettleLive, SettleEffect
<1> QED BY <1>1 DEF ClaimInv, Old, Exhausted

\* A claim waits for the journal.
LEMMA ClaimStep ==
    ASSUME TypeOK, SeqInv, PassInv, ScriptInv, ClaimInv, [Next]_vars
    PROVE  ClaimInv'
<1>0. \A e \in Live' : Old(e) \/ New(e)
  BY LiveStep
<1> USE DEF ClaimInv, Live, Exhausted
<1>1. CASE Start
  BY <1>1, JobAssumption
     DEF Start, disk, server, history
<1>2. CASE Drain
  BY <1>2, JobAssumption
     DEF Drain, BeginDrain, disk, server, history
<1>3. CASE Transmit
  BY <1>3, JobAssumption
     DEF Transmit, disk, history
<1>4. CASE EndDrain
  <2>1. Live' = journal /\ journal \subseteq Live
    BY <1>4 DEF EndDrain, disk
  <2>2. CASE pc' = "claim" /\ DrainResult = "empty" /\ caller = "loop" /\ UNCHANGED cur
    <3>1. \A e \in journal : Exhausted(e)
      BY <2>2 DEF DrainResult, Parked
    <3> QED BY <2>1, <3>1
  <2>3. CASE pc' # "claim" /\ cur' \in {cur, None}
    BY <2>1, <2>3
  <2> QED BY <1>4, <2>2, <2>3 DEF EndDrain, Reported
<1>5. CASE Register
  BY <1>5, JobAssumption
     DEF Register, disk
<1>6. CASE RegisterRejected
  BY <1>6, JobAssumption
     DEF RegisterRejected, disk, server, history
<1>7. CASE NoClaim
  BY <1>7, JobAssumption
     DEF NoClaim, disk, server, history
<1>8. CASE Finish
  BY <1>8, JobAssumption
     DEF Finish, Encoded, Done, Failed, Aborted, Decide, disk, server, history
<1>9. CASE Deliver
  <2>1. cur' = cur /\ pc' = "drain"
    BY <1>9 DEF Deliver, BeginDrain
  <2>2. cur # None /\ Due.token = cur.token
    BY <1>9, DueType, JobAssumption DEF Deliver
  <2>3. ASSUME NEW e \in Live', e.report.token # cur.token
        PROVE  Exhausted(e)
    BY <2>2, <2>3, <1>0 DEF Old, New
  <2> QED BY <2>1, <2>3
<1>10. CASE DirectDone
  BY <1>10, JobAssumption
     DEF DirectDone, Reported, disk, server, history
<1>11. CASE TimedOut
  BY <1>11, SettleClaim DEF TimedOut
<1>12. CASE CutShort
  BY <1>12, JobAssumption
     DEF CutShort, Reported, disk, server, history
<1>13. CASE DeliverUnjournaled
  <2>1. cur' = cur /\ pc' = "direct"
    BY <1>13 DEF DeliverUnjournaled, BeginDrain
  <2>2. cur # None /\ Due.token = cur.token
    BY <1>13, DueType, JobAssumption DEF DeliverUnjournaled
  <2>3. ASSUME NEW e \in Live', e.report.token # cur.token
        PROVE  Exhausted(e)
    BY <2>2, <2>3, <1>0 DEF Old, New
  <2> QED BY <2>1, <2>3
<1>14. CASE Crash
  BY <1>14, JobAssumption
     DEF Crash, Fault, disk, server, history
<1>15. CASE Quarantine
  BY <1>15, JobAssumption
     DEF Quarantine, Fault, disk, agent, server, history
<1>16. CASE Revoke
  BY <1>16, JobAssumption
     DEF Revoke, Fault, agent, disk, history
<1>17. CASE Reissue
  BY <1>17, JobAssumption
     DEF Reissue, agent, disk
<1>18. ASSUME NEW s \in Seqs, CoolDown(s)
     PROVE  ClaimInv'
  BY <1>18, JobAssumption
     DEF CoolDown, agent, server, history
<1>19. ASSUME NEW r \in wire, Receive(r)
     PROVE  ClaimInv'
  BY <1>19, JobAssumption
     DEF Receive, disk
<1>20. ASSUME NEW j \in Job, Claim(j)
     PROVE  ClaimInv'
  <2>1. pc = "claim" /\ pc' # "claim" /\ Live' = Live
    BY <1>20 DEF Claim, disk
  <2> QED BY <2>1
<1>21. ASSUME NEW j \in Job, Answered(j)
     PROVE  ClaimInv'
  BY <1>21, SettleClaim DEF Answered
<1>22. ASSUME NEW j \in Job, Requeue(j)
     PROVE  ClaimInv'
  BY <1>22, JobAssumption
     DEF Requeue, Fault, Take, agent, disk
<1>23. ASSUME NEW j \in Job, Abandon(j)
     PROVE  ClaimInv'
  BY <1>23, JobAssumption
     DEF Abandon, Heartbeating, Named, Take, agent, disk
<1>24. CASE UNCHANGED vars
  BY <1>24 DEF vars, agent, disk, server, history
<1>25. CASE DeleteFails
  BY <1>25, JobAssumption
     DEF DeleteFails, Reported, Fault, disk, server, history
<1> QED
  BY <1>1, <1>2, <1>3, <1>4, <1>5, <1>6, <1>7, <1>8, <1>9, <1>10, <1>11, <1>12,
      <1>13, <1>14, <1>15, <1>16, <1>17, <1>18, <1>19, <1>20, <1>21, <1>22, <1>23, <1>24, <1>25
     DEF Next, Agent

\* Registration waits for the journal, or is refused.
LEMMA ReleaseStep ==
    ASSUME TypeOK, SeqInv, PassInv, ScriptInv, AnswerInv, AttemptInv, ReleaseInv, [Next]_vars
    PROVE  ReleaseInv'
<1>0. \A e \in Live' : Old(e) \/ New(e)
  BY LiveStep
<1> USE DEF ReleaseInv, Live, Exhausted
<1>1. CASE Start
  BY <1>1, JobAssumption
     DEF Start, disk, server, history
<1>2. CASE Drain
  BY <1>2, JobAssumption
     DEF Drain, BeginDrain, disk, server, history
<1>3. CASE Transmit
  BY <1>3, JobAssumption
     DEF Transmit, disk, history
<1>4. CASE EndDrain
  <2>1. Live' = journal /\ journal \subseteq Live /\ UNCHANGED <<journal, taken, revoked>>
    BY <1>4 DEF EndDrain, disk, server, history
  <2>2. CASE pc' = "register" /\ DrainResult # "blocked" /\ UNCHANGED cur
    <3>1. auth_blocked \/ \A e \in journal : Exhausted(e)
      BY <2>2 DEF DrainResult, Parked
    <3>2. revoked \/ \A e \in journal : Exhausted(e)
      BY <3>1 DEF AnswerInv
    <3> QED BY <2>1, <2>2, <3>2
  <2>3. CASE pc' # "register" /\ cur' \in {cur, None}
    BY <2>1, <2>3
  <2> QED BY <1>4, <2>2, <2>3 DEF EndDrain, Reported
<1>5. CASE Register
  <2>1. \A e \in journal : Exhausted(e)
    BY <1>5 DEF Register
  <2>2. pc' = "loop" /\ cur' = None /\ Live' = journal /\ UNCHANGED journal
    BY <1>5 DEF Register, disk, PassInv, ScriptInv, Busy
  <2> QED BY <2>1, <2>2
<1>6. CASE RegisterRejected
  BY <1>6, JobAssumption
     DEF RegisterRejected, disk, server, history
<1>7. CASE NoClaim
  BY <1>7, JobAssumption
     DEF NoClaim, disk, server, history
<1>8. CASE Finish
  BY <1>8, JobAssumption
     DEF Finish, Encoded, Done, Failed, Aborted, Decide, disk, server, history
<1>9. CASE Deliver
  <2>1. cur' = cur /\ pc' = "drain" /\ UNCHANGED taken
    BY <1>9 DEF Deliver, BeginDrain
  <2>2. cur # None /\ Due.token = cur.token
    BY <1>9, DueType, JobAssumption DEF Deliver
  <2>3. \A e \in Live' : taken[e.report.token] = "register" => Exhausted(e)
    BY <2>2, <1>0 DEF Old, New
  <2> QED BY <2>1, <2>3
<1>10. CASE DirectDone
  BY <1>10, JobAssumption
     DEF DirectDone, Reported, disk, server, history
<1>11. CASE TimedOut
  <2>1. pc' = "drain" /\ cur' = cur /\ UNCHANGED taken /\ \A e \in Live' : Old(e)
    BY <1>11, SettleLive, SettleEffect DEF TimedOut
  <2>2. \A e \in Live' : taken[e.report.token] = "register" => Exhausted(e)
    BY <2>1 DEF Old
  <2> QED BY <2>1, <2>2
<1>12. CASE CutShort
  BY <1>12, JobAssumption
     DEF CutShort, Reported, disk, server, history
<1>13. CASE DeliverUnjournaled
  <2>1. cur' = cur /\ pc' = "direct" /\ UNCHANGED taken
    BY <1>13 DEF DeliverUnjournaled, BeginDrain
  <2>2. cur # None /\ Due.token = cur.token
    BY <1>13, DueType, JobAssumption DEF DeliverUnjournaled
  <2>3. \A e \in Live' : taken[e.report.token] = "register" => Exhausted(e)
    BY <2>2, <1>0 DEF Old, New
  <2> QED BY <2>1, <2>3
<1>14. CASE Crash
  BY <1>14, JobAssumption
     DEF Crash, Fault, disk, server, history
<1>15. CASE Quarantine
  BY <1>15, JobAssumption
     DEF Quarantine, Fault, disk, agent, server, history
<1>16. CASE Revoke
  BY <1>16, JobAssumption
     DEF Revoke, Fault, agent, disk, history
<1>17. CASE Reissue
  <2>1. pc' = "down" /\ cur' = cur /\ Live' = Live
    BY <1>17 DEF Reissue, agent, disk
  <2>2. \A t \in Token : taken'[t] = "register" => taken[t] = "register"
    BY <1>17 DEF Reissue, TypeOK
  <2>3. /\ \A e \in Live : e.report.token \in Token
        /\ cur # None => cur.token \in Token
    BY DEF TypeOK, Entry, Report, Attempt
  <2> QED BY <2>1, <2>2, <2>3
<1>18. ASSUME NEW s \in Seqs, CoolDown(s)
     PROVE  ReleaseInv'
  BY <1>18, JobAssumption
     DEF CoolDown, agent, server, history
<1>19. ASSUME NEW r \in wire, Receive(r)
     PROVE  ReleaseInv'
  BY <1>19, JobAssumption
     DEF Receive, disk
<1>20. ASSUME NEW j \in Job, Claim(j)
     PROVE  ReleaseInv'
  <2>1. pc' # "register" /\ Live' = Live /\ UNCHANGED taken
    BY <1>20 DEF Claim, disk, history
  <2>2. cur' \in {cur, [job |-> j, token |-> claims + 1]}
    BY <1>20 DEF Claim
  <2>3. claims + 1 \in Token /\ ~(claims + 1 =< claims)
    BY <1>20, BoundAssumption DEF Claim, TypeOK, Token
  <2>4. taken[claims + 1] = "no"
    BY <2>3 DEF AttemptInv
  <2> QED BY <2>1, <2>2, <2>4
<1>21. ASSUME NEW j \in Job, Answered(j)
     PROVE  ReleaseInv'
  <2>1. pc' = "drain" /\ cur' = cur /\ UNCHANGED taken /\ \A e \in Live' : Old(e)
    BY <1>21, SettleLive, SettleEffect DEF Answered
  <2>2. \A e \in Live' : taken[e.report.token] = "register" => Exhausted(e)
    BY <2>1 DEF Old
  <2> QED BY <2>1, <2>2
<1>22. ASSUME NEW j \in Job, Requeue(j)
     PROVE  ReleaseInv'
  BY <1>22, JobAssumption
     DEF Requeue, Fault, Take, agent, disk
<1>23. ASSUME NEW j \in Job, Abandon(j)
     PROVE  ReleaseInv'
  BY <1>23, JobAssumption
     DEF Abandon, Heartbeating, Named, Take, agent, disk
<1>24. CASE UNCHANGED vars
  BY <1>24 DEF vars, agent, disk, server, history
<1>25. CASE DeleteFails
  BY <1>25, JobAssumption
     DEF DeleteFails, Reported, Fault, disk, server, history
<1> QED
  BY <1>1, <1>2, <1>3, <1>4, <1>5, <1>6, <1>7, <1>8, <1>9, <1>10, <1>11, <1>12,
      <1>13, <1>14, <1>15, <1>16, <1>17, <1>18, <1>19, <1>20, <1>21, <1>22, <1>23, <1>24, <1>25
     DEF Next, Agent

\* Only the reconciliation sweep takes a job for the sweep.
LEMMA SweepOnlyAbandons ==
    ASSUME TypeOK, NEW t \in Token, taken[t] = "no", taken'[t] = "sweep", [Next]_vars
    PROVE  \E i \in Job : Abandon(i) /\ row[i].status = "active" /\ row[i].token = t
<1>1. CASE Start
  BY <1>1
     DEF Start, disk, server, history
<1>2. CASE Drain
  BY <1>2
     DEF Drain, BeginDrain, disk, server, history
<1>3. CASE Transmit
  BY <1>3
     DEF Transmit, disk, history
<1>4. CASE EndDrain
  BY <1>4
     DEF EndDrain, Reported, disk, server, history
<1>5. CASE Register
  BY <1>5
     DEF Register, disk, TypeOK
<1>6. CASE RegisterRejected
  BY <1>6
     DEF RegisterRejected, disk, server, history
<1>7. CASE NoClaim
  BY <1>7
     DEF NoClaim, disk, server, history
<1>8. CASE Finish
  BY <1>8
     DEF Finish, Encoded, Done, Failed, Aborted, Decide, disk, server, history
<1>9. CASE Deliver
  BY <1>9
     DEF Deliver, append, BeginDrain, server
<1>10. CASE DirectDone
  BY <1>10
     DEF DirectDone, Reported, disk, server, history
<1>11. CASE TimedOut
  BY <1>11
     DEF TimedOut, Settle, delete, bump_attempts, server, history, Fault, disk
<1>12. CASE CutShort
  BY <1>12
     DEF CutShort, Reported, disk, server, history
<1>13. CASE DeliverUnjournaled
  BY <1>13
     DEF DeliverUnjournaled, Fault, disk
<1>14. CASE Crash
  BY <1>14
     DEF Crash, Fault, disk, server, history
<1>15. CASE Quarantine
  BY <1>15
     DEF Quarantine, Fault, disk, agent, server, history
<1>16. CASE Revoke
  BY <1>16
     DEF Revoke, Fault, agent, disk, history
<1>17. CASE Reissue
  BY <1>17
     DEF Reissue, agent, disk, TypeOK
<1>18. ASSUME NEW s \in Seqs, CoolDown(s)
     PROVE  \E i \in Job : Abandon(i) /\ row[i].status = "active" /\ row[i].token = t
  BY <1>18
     DEF CoolDown, agent, server, history
<1>19. ASSUME NEW r \in wire, Receive(r)
     PROVE  \E i \in Job : Abandon(i) /\ row[i].status = "active" /\ row[i].token = t
  BY <1>19
     DEF Receive, disk
<1>20. ASSUME NEW j \in Job, Claim(j)
     PROVE  \E i \in Job : Abandon(i) /\ row[i].status = "active" /\ row[i].token = t
  BY <1>20
     DEF Claim, disk, history
<1>21. ASSUME NEW j \in Job, Answered(j)
     PROVE  \E i \in Job : Abandon(i) /\ row[i].status = "active" /\ row[i].token = t
  BY <1>21
     DEF Answered, Settle, delete, bump_attempts, server, history, Fault, disk
<1>22. ASSUME NEW j \in Job, Requeue(j)
     PROVE  \E i \in Job : Abandon(i) /\ row[i].status = "active" /\ row[i].token = t
  <2>1. taken' = taken \/ taken' = [taken EXCEPT ![row[j].token] = "others"]
    BY <1>22 DEF Requeue, Take
  <2> QED BY <2>1 DEF TypeOK
<1>23. ASSUME NEW j \in Job, Abandon(j)
     PROVE  \E i \in Job : Abandon(i) /\ row[i].status = "active" /\ row[i].token = t
  <2>1. row[j].status = "active" /\ taken' = [taken EXCEPT ![row[j].token] = "sweep"]
    BY <1>23 DEF Abandon, Take
  <2>2. row[j].token = t
    BY <2>1 DEF TypeOK
  <2> QED BY <1>23, <2>1, <2>2
<1>24. CASE UNCHANGED vars
  BY <1>24 DEF vars, agent, disk, server, history
<1>25. CASE DeleteFails
  BY <1>25
     DEF DeleteFails, Reported, Fault, disk, server, history
<1> QED
  BY <1>1, <1>2, <1>3, <1>4, <1>5, <1>6, <1>7, <1>8, <1>9, <1>10, <1>11, <1>12,
      <1>13, <1>14, <1>15, <1>16, <1>17, <1>18, <1>19, <1>20, <1>21, <1>22, <1>23, <1>24, <1>25
     DEF Next, Agent

\* The heartbeat of a live worker names the job of its journal's first entry or the one it
\* runs: what the sweep takes from it is behind an entry that is out of attempts.
LEMMA AbandonBehindExhausted ==
    ASSUME TypeOK, SeqInv, KnownInv, AttemptInv, OlderExhausted, ClaimInv,
           NEW e \in journal, NEW j \in Job, row[j].token = e.report.token, Named # j
    PROVE  \E f \in journal : f.seq =< e.seq /\ Exhausted(f)
<1>1. /\ e \in Live /\ e \in Entry /\ e.seq \in Nat /\ e.report \in decided
      /\ e.report.token \in Token /\ e.report.token # 0
  BY BoundAssumption DEF Live, TypeOK, Entry, Report, Token, KnownInv
<1>2. [job |-> e.report.job, token |-> e.report.token] \in Attempts
  BY <1>1 DEF Attempts
<1>3. [job |-> j, token |-> row[j].token] \in Attempts
  BY <1>1 DEF Attempts
<1>4. e.report.job = j
  BY <1>2, <1>3 DEF AttemptInv
<1>5. CASE cur # None
  <2>1. cur \in Attempts /\ cur.job # j
    BY <1>5 DEF Attempts, Named
  <2>2. e.report.token # cur.token
    BY <1>2, <1>4, <2>1 DEF AttemptInv
  <2>3. Exhausted(e)
    BY <1>1, <1>5, <2>2 DEF ClaimInv
  <2> QED BY <1>1, <2>3
<1>6. CASE cur = None
  <2> DEFINE f == First(journal)
  <2>1. f \in journal /\ f.seq =< e.seq
    BY FirstIsLeast
  <2>2. f.report.job # j
    BY <1>6 DEF Named
  <2> HIDE DEF f
  <2>3. f \in Live /\ f.seq \in Nat /\ f.report \in decided
    BY <2>1 DEF Live, TypeOK, Entry, KnownInv
  <2>4. [job |-> f.report.job, token |-> f.report.token] \in Attempts
    BY <2>3 DEF Attempts
  <2>5. f.report.token # e.report.token
    BY <1>2, <1>4, <2>2, <2>4 DEF AttemptInv
  <2>6. f.seq # e.seq
    BY <1>1, <2>3, <2>5 DEF SeqInv
  <2>7. f.seq < e.seq
    BY <1>1, <2>1, <2>3, <2>6
  <2>8. Exhausted(f)
    BY <1>1, <2>3, <2>5, <2>7 DEF OlderExhausted
  <2> QED BY <2>1, <2>8
<1> QED BY <1>5, <1>6

-----------------------------------------------------------------------------
\* What holds of the journal, the agent and the scheduler: the inductive invariant.
OutboxInv ==
    /\ TypeOK /\ SeqInv /\ PassInv /\ ScriptInv
    /\ RowInv /\ AnswerInv /\ KnownInv /\ AttemptInv /\ FreshInv
    /\ OnceInv /\ ReadInv /\ FileOrder /\ WireOrder /\ NoReportDropped /\ ChainInOrder
    /\ OlderExhausted /\ ClaimInv /\ ReleaseInv

\* The inductive invariant of the report journal, for any number of jobs, claims and faults,
\* whatever is lost, late, refused or unreadable.
THEOREM OutboxInvariant == Spec => []OutboxInv
<1>1. Init => OutboxInv
  <2> SUFFICES ASSUME Init PROVE OutboxInv
    OBVIOUS
  <2>1. TypeOK
    <3>1. row \in [Job -> [status : Statuses, token : Token \cup {0}]]
      BY DEF Init, Statuses
    <3>2. claims \in 0 .. MaxClaims /\ faults \in 0 .. MaxFaults
      BY BoundAssumption DEF Init
    <3>3. taken \in [Token -> {"no", "register", "sweep", "rotation", "others"}]
      BY DEF Init
    <3> QED BY <3>1, <3>2, <3>3 DEF Init, TypeOK
  <2>2. Live = {}
    BY DEF Init, Live
  <2>3. SeqInv /\ PassInv /\ ScriptInv
    BY <2>2 DEF Init, SeqInv, PassInv, ScriptInv, Busy
  <2>4. RowInv /\ AnswerInv /\ KnownInv /\ FreshInv
    BY DEF Init, RowInv, AnswerInv, KnownInv, FreshInv
  <2>5. AttemptInv
    BY DEF Init, AttemptInv, Attempts, Token
  <2>6. FileOrder /\ WireOrder /\ NoReportDropped /\ ChainInOrder
    BY <2>2 DEF Init, FileOrder, WireOrder, NoReportDropped, ChainInOrder
  <2>7. OlderExhausted /\ ClaimInv /\ ReleaseInv
    BY <2>2 DEF Init, OlderExhausted, ClaimInv, ReleaseInv
  <2>8. OnceInv /\ ReadInv
    BY <2>2 DEF Init, OnceInv, ReadInv
  <2> QED BY <2>1, <2>3, <2>4, <2>5, <2>6, <2>7, <2>8 DEF OutboxInv
<1>2. OutboxInv /\ [Next]_vars => OutboxInv'
  <2> SUFFICES ASSUME OutboxInv, [Next]_vars PROVE OutboxInv'
    OBVIOUS
  <2> USE DEF OutboxInv
  <2>1. TypeOK' /\ SeqInv' /\ PassInv' /\ ScriptInv'
    BY TypeStep, SeqStep, PassStep, ScriptStep
  <2>2. RowInv' /\ AnswerInv' /\ KnownInv' /\ AttemptInv' /\ FreshInv'
    BY RowStep, AnswerStep, KnownStep, AttemptStep, FreshStep
  <2>3. FileOrder' /\ WireOrder' /\ NoReportDropped' /\ ChainInOrder'
    BY FileOrderStep, WireOrderStep, DroppedStep, ChainStep
  <2>4. OlderExhausted' /\ ClaimInv' /\ ReleaseInv'
    BY OlderExhaustedStep, ClaimStep, ReleaseStep
  <2>5. OnceInv' /\ ReadInv'
    BY OnceStep, ReadStep
  <2> QED BY <2>1, <2>2, <2>3, <2>4, <2>5
<1> QED BY <1>1, <1>2, PTL DEF Spec

\* The types hold.
THEOREM OutboxTypes == Spec => []TypeOK
<1>1. OutboxInv => TypeOK
  BY DEF OutboxInv
<1> QED BY <1>1, OutboxInvariant, PTL

\* "An entry is deleted only on acknowledged receipt" (outbox.py): a journaled report is in
\* the directory, ruled on by the scheduler, or in a file set aside as unreadable.
THEOREM ReportsKept == Spec => []NoReportDropped
<1>1. OutboxInv => NoReportDropped
  BY DEF OutboxInv
<1> QED BY <1>1, OutboxInvariant, PTL

\* A complete that came through the journal is ruled on after its register_derivative
\* (_drain_outbox stops the chain of a job at its first failure).
THEOREM DerivativeFirst == Spec => []ChainInOrder
<1>1. OutboxInv => ChainInOrder
  BY DEF OutboxInv
<1> QED BY <1>1, OutboxInvariant, PTL

\* Claims wait for the journal (_job_loop): the reports of an older attempt that are still
\* in it have used up their attempts.
THEOREM ClaimsWaitForJournal == Spec => []OneAttemptPending
<1>1. OutboxInv => OneAttemptPending
  BY DEF OutboxInv, OlderExhausted, OneAttemptPending, Live
<1> QED BY <1>1, OutboxInvariant, PTL

\* Startup delivers before it registers (_drain_before_register): registration requeues no
\* job whose report still had attempts left.
THEOREM RegistrationWaits == Spec => []ReleasedOnlyExhausted
<1>1. OutboxInv => ReleasedOnlyExhausted
  BY DEF OutboxInv, ReleaseInv, ReleasedOnlyExhausted, Live
<1> QED BY <1>1, OutboxInvariant, PTL

\* The sweep takes no job whose report is pending, unless an entry out of attempts stands at
\* or before it (the job the heartbeat names, and reconcile in the scheduler).
THEOREM SweepSparesPending == Spec => PendingNotAbandoned
<1>1. OutboxInv /\ [Next]_vars =>
          [\A e \in journal :
              taken[e.report.token] = "no" /\ taken'[e.report.token] = "sweep"
                  => \E f \in journal : f.seq =< e.seq /\ Exhausted(f)]_vars
  <2> SUFFICES ASSUME OutboxInv, [Next]_vars, NEW e \in journal,
                      taken[e.report.token] = "no", taken'[e.report.token] = "sweep"
               PROVE  \E f \in journal : f.seq =< e.seq /\ Exhausted(f)
    OBVIOUS
  <2>1. e.report.token \in Token
    BY DEF OutboxInv, TypeOK, Entry, Report
  <2>2. PICK j \in Job : Abandon(j) /\ row[j].token = e.report.token
    BY <2>1, SweepOnlyAbandons DEF OutboxInv
  <2>3. Named # j
    BY <2>2 DEF Abandon
  <2> QED BY <2>2, <2>3, AbandonBehindExhausted DEF OutboxInv
<1> QED BY <1>1, OutboxInvariant, PTL DEF Spec, PendingNotAbandoned

-----------------------------------------------------------------------------
\* The abstract channel.

ChannelMoves == [Channel!Next]_(Channel!channel)

\* Nothing that is about the reports changes when neither the directory nor the records do.
LEMMA ChannelStutters ==
    ASSUME UNCHANGED <<journal, quarantined, decided, direct, accepted, refused>>
    PROVE  ChannelMoves
  BY DEF ChannelMoves, Channel!channel, Pending

\* An answer ends the wait of its own report, when it is definitive, or puts it back where a
\* file that was set aside meanwhile had been.
LEMMA SettleMoves ==
    ASSUME OutboxInv, pc = "drain", sending # None, NEW class, Settle(class),
           class \in {"ok", "terminal"} => sending.report \in accepted \cup refused
    PROVE  ChannelMoves
<1> DEFINE r == sending.report
<1> USE DEF OutboxInv
<1>1. /\ sending \in Entry /\ r \in Report /\ sending \in Live
      /\ UNCHANGED <<quarantined, decided, direct, accepted, refused>>
  BY SettleEffect DEF Entry, Live
<1>2. \A e \in journal : e.report = r \/ e.seq = sending.seq => e = sending
  <2> SUFFICES ASSUME NEW e \in journal, e.report = r \/ e.seq = sending.seq
               PROVE  e = sending
    OBVIOUS
  <2>1. e \in Live
    BY DEF Live
  <2> QED BY <1>1, <2>1 DEF OnceInv, SeqInv
<1>3. sending \in journal \/ r \in quarantined
  BY DEF ReadInv
<1>4. CASE class \in {"ok", "terminal"} /\ journal' = {e \in journal : e.seq # sending.seq}
  <2>1. CASE sending \in journal
    <3>1. r \in Pending /\ r \in accepted \cup refused
      BY <1>4, <2>1 DEF Pending
    <3>2. Pending' = Pending \ {r}
      BY <1>2, <1>4 DEF Pending
    <3>3. Channel!Acknowledge(r)
      BY <1>1, <3>1, <3>2 DEF Channel!Acknowledge
    <3> QED BY <1>1, <3>3 DEF ChannelMoves, Channel!Next
  <2>2. CASE sending \notin journal
    <3>1. Pending' = Pending
      BY <1>2, <1>4, <2>2 DEF Pending
    <3> QED BY <1>1, <3>1 DEF ChannelMoves, Channel!channel
  <2> QED BY <2>1, <2>2
<1>5. CASE journal' = {e \in journal : e.seq # sending.seq} \cup {Bumped(sending)}
  <2>1. Bumped(sending).report = r
    BY <1>1, BumpedEntry
  <2>2. Pending' = Pending \cup {r}
    BY <1>2, <1>5, <2>1 DEF Pending
  <2>3. CASE sending \in journal
    <3>1. Pending' = Pending
      BY <2>2, <2>3 DEF Pending
    <3> QED BY <1>1, <3>1 DEF ChannelMoves, Channel!channel
  <2>4. CASE r \in quarantined
    <3>1. Channel!PutBack(r)
      BY <1>1, <2>2, <2>4 DEF Channel!PutBack
    <3> QED BY <1>1, <3>1 DEF ChannelMoves, Channel!Next
  <2> QED BY <1>3, <2>3, <2>4
<1>6. CASE journal' = journal
  BY <1>1, <1>6, ChannelStutters
<1> QED BY <1>4, <1>5, <1>6, SettleEffect

\* Every step of the journal, the agent and the scheduler is one of the channel, or none.
LEMMA ChannelSimulates ==
    ASSUME OutboxInv, [Next]_vars
    PROVE  ChannelMoves
<1>1. CASE Start
  BY <1>1, ChannelStutters
     DEF Start, disk, server, history
<1>2. CASE Drain
  BY <1>2, ChannelStutters
     DEF Drain, BeginDrain, disk, server, history
<1>3. CASE Transmit
  BY <1>3, ChannelStutters
     DEF Transmit, disk, history
<1>4. CASE EndDrain
  BY <1>4, ChannelStutters
     DEF EndDrain, Reported, disk, server, history
<1>5. CASE Register
  BY <1>5, ChannelStutters
     DEF Register, disk
<1>6. CASE RegisterRejected
  BY <1>6, ChannelStutters
     DEF RegisterRejected, disk, server, history
<1>7. CASE NoClaim
  BY <1>7, ChannelStutters
     DEF NoClaim, disk, server, history
<1>8. CASE Finish
  BY <1>8, ChannelStutters
     DEF Finish, Encoded, Done, Failed, Aborted, Decide, disk, server, history
<1>9. CASE Deliver
  <2> DEFINE e == [seq |-> next_seq, report |-> Due, attempts |-> 0]
  <2>1. /\ pc = "deliver" /\ journal' = journal \cup {e} /\ decided' = decided \cup {Due}
        /\ UNCHANGED <<quarantined, direct, accepted, refused>>
    BY <1>9 DEF Deliver, append
  <2>2. Due \in Report /\ Due \notin decided \cup direct
    BY <2>1, DueType, DueFresh DEF OutboxInv
  <2>3. e.report = Due
    OBVIOUS
  <2> HIDE DEF e
  <2>4. Pending' = Pending \cup {Due}
    BY <2>1, <2>3 DEF Pending
  <2>5. Channel!Write(Due)
    BY <2>1, <2>2, <2>4 DEF Channel!Write, Channel!Fresh
  <2> QED BY <2>2, <2>5 DEF ChannelMoves, Channel!Next
<1>10. CASE DirectDone
  BY <1>10, ChannelStutters
     DEF DirectDone, Reported, disk, server, history
<1>11. CASE TimedOut
  BY <1>11, SettleMoves DEF TimedOut
<1>12. CASE CutShort
  BY <1>12, ChannelStutters
     DEF CutShort, Reported, disk, server, history
<1>13. CASE DeliverUnjournaled
  <2>1. /\ pc = "deliver" /\ direct' = direct \cup {Due}
        /\ UNCHANGED <<journal, quarantined, decided, accepted, refused>>
    BY <1>13 DEF DeliverUnjournaled, disk
  <2>2. Due \in Report /\ Due \notin decided \cup direct
    BY <2>1, DueType, DueFresh DEF OutboxInv
  <2>3. Channel!SendPast(Due)
    BY <2>1, <2>2 DEF Channel!SendPast, Channel!Fresh, Pending
  <2> QED BY <2>2, <2>3 DEF ChannelMoves, Channel!Next
<1>14. CASE Crash
  BY <1>14, ChannelStutters
     DEF Crash, Fault, disk, server, history
<1>15. CASE Quarantine
  <2>1. PICK e \in journal : journal' = journal \ {e} /\ quarantined' = quarantined \cup {e.report}
    BY <1>15 DEF Quarantine
  <2>2. UNCHANGED <<decided, direct, accepted, refused>>
    BY <1>15 DEF Quarantine, history
  <2>3. \A f \in journal : f.report = e.report => f = e
    BY DEF OutboxInv, OnceInv, SeqInv, Live
  <2>4. Pending' = Pending \ {e.report} /\ e.report \in Pending
    BY <2>1, <2>3 DEF Pending
  <2>5. e.report \in Report
    BY DEF OutboxInv, TypeOK, Entry
  <2>6. Channel!SetAside(e.report)
    BY <2>1, <2>2, <2>4 DEF Channel!SetAside
  <2> QED BY <2>5, <2>6 DEF ChannelMoves, Channel!Next
<1>16. CASE Revoke
  BY <1>16, ChannelStutters
     DEF Revoke, Fault, agent, disk, history
<1>17. CASE Reissue
  BY <1>17, ChannelStutters
     DEF Reissue, agent, disk
<1>18. ASSUME NEW s \in Seqs, CoolDown(s)
     PROVE  ChannelMoves
  BY <1>18, ChannelStutters
     DEF CoolDown, agent, server, history
<1>19. ASSUME NEW r \in wire, Receive(r)
     PROVE  ChannelMoves
  <2>1. /\ UNCHANGED <<journal, quarantined, decided, direct>> /\ Pending' = Pending
        /\ r \in Report /\ r \in decided \cup direct
    BY <1>19 DEF Receive, disk, Pending, OutboxInv, TypeOK, KnownInv
  <2>2. \/ UNCHANGED <<accepted, refused>>
        \/ (accepted \cup refused)' = accepted \cup refused \cup {r}
    BY <1>19 DEF Receive
  <2>3. CASE UNCHANGED <<accepted, refused>>
    BY <2>1, <2>3, ChannelStutters
  <2>4. CASE (accepted \cup refused)' = accepted \cup refused \cup {r}
    <3>1. ASSUME NEW b \in decided, NEW c \in Report, c.kind \in Outcomes, r \notin direct,
                 <<b, r>> = <<[c EXCEPT !.kind = "register_derivative"], c>>
          PROVE  b \in accepted \cup refused \cup quarantined
      <4>1. r = c /\ b = Derivative(r)
        BY <3>1 DEF Derivative
      <4> QED BY <3>1, <4>1 DEF OutboxInv, WireOrder, Ruled
    <3>2. Channel!Rule(r)
      BY <2>1, <2>4, <3>1 DEF Channel!Rule
    <3> QED BY <2>1, <3>2 DEF ChannelMoves, Channel!Next
  <2> QED BY <2>2, <2>3, <2>4
<1>20. ASSUME NEW j \in Job, Claim(j)
     PROVE  ChannelMoves
  BY <1>20, ChannelStutters
     DEF Claim, disk, history
<1>21. ASSUME NEW j \in Job, Answered(j)
     PROVE  ChannelMoves
  <2>1. answer \in {"ok", "terminal"} => sending.report \in accepted \cup refused
    BY DEF OutboxInv, AnswerInv
  <2> QED BY <1>21, <2>1, SettleMoves DEF Answered
<1>22. ASSUME NEW j \in Job, Requeue(j)
     PROVE  ChannelMoves
  BY <1>22, ChannelStutters
     DEF Requeue, Fault, Take, agent, disk
<1>23. ASSUME NEW j \in Job, Abandon(j)
     PROVE  ChannelMoves
  BY <1>23, ChannelStutters
     DEF Abandon, Take, agent, disk
<1>24. CASE UNCHANGED vars
  BY <1>24, ChannelStutters DEF vars, agent, disk, server, history
<1>25. CASE DeleteFails
  BY <1>25, ChannelStutters
     DEF DeleteFails, Reported, Fault, disk, server, history
<1> QED
  BY <1>1, <1>2, <1>3, <1>4, <1>5, <1>6, <1>7, <1>8, <1>9, <1>10, <1>11, <1>12,
      <1>13, <1>14, <1>15, <1>16, <1>17, <1>18, <1>19, <1>20, <1>21, <1>22, <1>23, <1>24, <1>25
     DEF Next, Agent

\* The journal is an at-least-once channel (append, _drain_outbox, delete, bump_attempts,
\* entries): a report is written once, and waits until the scheduler has ruled on it or its
\* file is set aside; a complete is not ruled on before its derivative.
THEOREM JournalRefinesChannel == Spec => ChannelSpec
<1>1. Init => Channel!Init
  BY DEF Init, Channel!Init, Pending
<1>2. OutboxInv /\ [Next]_vars => [Channel!Next]_(Channel!channel)
  BY ChannelSimulates DEF ChannelMoves
<1> QED BY <1>1, <1>2, OutboxInvariant, PTL DEF Spec, ChannelSpec, Channel!Spec
=============================================================================
