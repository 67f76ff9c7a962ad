-------------------------- MODULE GrantStoreSteps --------------------------
(***************************************************************************)
(* What the steps of GrantStore do, action by action, in the terms the     *)
(* proofs about it use: which request moves from where to where, which     *)
(* rows are written, and which ids, credentials and counts change.  Ends   *)
(* with the type invariant.                                                *)
(***************************************************************************)
EXTENDS GrantStore, TLAPS

-----------------------------------------------------------------------------
(* Types                                                                   *)


\* Where a request is, or will be once its statement is committed.
Spot(r) == IF r.pc = "commit" THEN r.then ELSE r.pc
At(h)   == Spot(req[h])

TxnPlace   == {"arm", "page", "claim", "claimed", "grant", "mint", "allowed", "deny", "denied"}
CodePlace  == {"consume_code", "read_code_mark", "read_code"}
PairPlace  == {"read_refresh", "consume_refresh", "read_refresh_mark", "read_refresh_again",
               "insert_refresh", "tokens"}
GrantPlace == {"mint", "allowed", "issue", "insert_access", "manual_token", "revoke", "revoked"}
              \cup CodePlace \cup PairPlace
ParkPlace  == {"fetch", "purge", "park"}
Place == {"idle", "answer"} \cup TxnPlace \cup GrantPlace \cup ParkPlace

RequestRow == [pc : Place \cup {"commit"}, then : Place, t : Txn \cup {None},
               g : Grant \cup {None}, n : Nat, hit : BOOLEAN, owner : BOOLEAN, late : BOOLEAN]

\* A request that knows what it will need where it is.
Equipped(r, place) ==
    /\ place \in TxnPlace => r.t \in Txn
    /\ place \in GrantPlace => r.g \in Grant
    /\ place \in PairPlace => r.n \in Pair
    /\ place = "page" => r.n \in 1..MaxPages

ReqInv ==
    /\ req \in [Handler -> RequestRow]
    /\ \A h \in Handler : Equipped(req[h], At(h))

\* A block that is open has a fault left to fail with.
TypeInv == TypeOK /\ ReqInv /\ (block > 0 => faults < MaxFaults)

\* The row of a free handler is a request row, and needs nothing.
LEMMA IdleType == Idle \in RequestRow /\ Equipped(Idle, "idle") /\ Equipped(Idle, "answer")
  BY DEF Idle, RequestRow, Equipped, Place, TxnPlace, GrantPlace, CodePlace, PairPlace

\* Replacing the request of one handler by a typed one that has what it
\* needs keeps all requests typed, and the other handlers where they are.
LEMMA MoveType ==
  ASSUME ReqInv, NEW h \in Handler, NEW r \in RequestRow, Equipped(r, Spot(r)),
         req' = [req EXCEPT ![h] = r]
  PROVE  /\ ReqInv'
         /\ req'[h] = r
         /\ \A k \in Handler \ {h} : req'[k] = req[k] /\ At(k)' = At(k)
  <1>1. req'[h] = r /\ \A k \in Handler \ {h} : req'[k] = req[k]
    BY DEF ReqInv
  <1>2. At(h)' = Spot(r) /\ \A k \in Handler \ {h} : At(k)' = At(k)
    BY <1>1 DEF At
  <1>3. req' \in [Handler -> RequestRow]
    BY DEF ReqInv
  <1>4. \A k \in Handler : Equipped(req'[k], At(k)')
    BY <1>1, <1>2 DEF ReqInv, At
  <1> QED
    BY <1>1, <1>2, <1>3, <1>4 DEF ReqInv

\* Exec and Goto.
LEMMA ExecMove ==
  ASSUME ReqInv, NEW h \in Handler, NEW r \in RequestRow, NEW db, NEW then \in Place,
         Equipped(r, then), Exec(h, db, r, then)
  PROVE  /\ ReqInv'
         /\ live' = db
         /\ disk' = disk \/ disk' = live'
         /\ req'[h].pc = "commit" /\ At(h)' = then
         /\ req'[h].t = r.t /\ req'[h].g = r.g /\ req'[h].n = r.n /\ req'[h].hit = r.hit
         /\ \A k \in Handler \ {h} : req'[k] = req[k] /\ At(k)' = At(k)
  <1> DEFINE s == [r EXCEPT !.pc = "commit", !.then = then]
  <1>1. s \in RequestRow
    BY DEF RequestRow
  <1>2. /\ s.pc = "commit" /\ s.then = then /\ s.t = r.t /\ s.g = r.g /\ s.n = r.n
        /\ s.hit = r.hit
    BY DEF RequestRow
  <1>3. Spot(s) = then
    BY <1>2 DEF Spot
  <1>4. Equipped(s, then)
    BY <1>2 DEF Equipped
  <1>5. live' = db /\ (disk' = disk \/ disk' = live') /\ req' = [req EXCEPT ![h] = s]
    BY DEF Exec
  <1>6. /\ ReqInv'
        /\ req'[h] = s
        /\ \A k \in Handler \ {h} : req'[k] = req[k] /\ At(k)' = At(k)
    <2> HIDE DEF s
    <2> QED
      BY <1>1, <1>3, <1>4, <1>5, MoveType
  <1>7. At(h)' = Spot(req'[h])
    BY DEF At
  <1> QED
    BY <1>2, <1>3, <1>5, <1>6, <1>7

\* A read, or no database call: nothing is written and the request moves on.
LEMMA GotoMove ==
  ASSUME ReqInv, NEW h \in Handler, NEW r \in RequestRow, NEW next \in Place,
         Equipped(r, next), Goto(h, r, next)
  PROVE  /\ ReqInv'
         /\ live' = live /\ disk' = disk
         /\ req'[h].pc = next /\ At(h)' = next
         /\ req'[h].t = r.t /\ req'[h].g = r.g /\ req'[h].n = r.n /\ req'[h].hit = r.hit
         /\ \A k \in Handler \ {h} : req'[k] = req[k] /\ At(k)' = At(k)
  <1> DEFINE s == [r EXCEPT !.pc = next]
  <1>1. s \in RequestRow
    BY DEF RequestRow
  <1>2. /\ s.pc = next /\ s.t = r.t /\ s.g = r.g /\ s.n = r.n /\ s.hit = r.hit
    BY DEF RequestRow
  <1>3. next # "commit" 
    BY DEF Place, TxnPlace, GrantPlace, CodePlace, PairPlace, ParkPlace
  <1>4. Spot(s) = next
    BY <1>2, <1>3 DEF Spot
  <1>5. Equipped(s, next)
    BY <1>2 DEF Equipped
  <1>6. live' = live /\ disk' = disk /\ req' = [req EXCEPT ![h] = s]
    BY DEF Goto
  <1>7. /\ ReqInv'
        /\ req'[h] = s
        /\ \A k \in Handler \ {h} : req'[k] = req[k] /\ At(k)' = At(k)
    <2> HIDE DEF s
    <2> QED
      BY <1>1, <1>4, <1>5, <1>6, MoveType
  <1>8. At(h)' = Spot(req'[h])
    BY DEF At
  <1> QED
    BY <1>2, <1>4, <1>6, <1>7, <1>8

\* An answer: nothing is written and the handler is free.
LEMMA AnswerMove ==
  ASSUME ReqInv, NEW h \in Handler, Answer(h)
  PROVE  /\ ReqInv'
         /\ live' = live /\ disk' = disk
         /\ req'[h] = Idle
         /\ req'[h].pc = "idle" /\ At(h)' = "idle"
         /\ req'[h].t = None /\ req'[h].g = None /\ req'[h].hit = FALSE
         /\ \A k \in Handler \ {h} : req'[k] = req[k] /\ At(k)' = At(k)
  <1>1. Spot(Idle) = "idle"
    BY DEF Spot, Idle
  <1>2. live' = live /\ disk' = disk /\ req' = [req EXCEPT ![h] = Idle]
    BY DEF Answer
  <1>3. /\ ReqInv'
        /\ req'[h] = Idle
        /\ \A k \in Handler \ {h} : req'[k] = req[k] /\ At(k)' = At(k)
    BY <1>1, <1>2, IdleType, MoveType
  <1>4. At(h)' = Spot(req'[h])
    BY DEF At
  <1> QED
    BY <1>1, <1>2, <1>3, <1>4 DEF Idle

-----------------------------------------------------------------------------
(* The statements, by the table they write                                 *)

Txns      == [Txn -> TxnRow \cup {None}]
Grants    == [Grant -> GrantRow \cup {None}]
Refreshes == [Grant -> [Pair -> [by : Handler \cup {None}] \cup {None}]]

WritesTxns(f) ==
    live' \in Database /\ live'.txn = f /\ live'.grant = live.grant /\ live'.refresh = live.refresh
WritesGrants(f) ==
    live' \in Database /\ live'.grant = f /\ live'.txn = live.txn /\ live'.refresh = live.refresh
WritesRefreshes(f) ==
    live' \in Database /\ live'.refresh = f /\ live'.txn = live.txn /\ live'.grant = live.grant
WritesElsewhere ==
    /\ live' \in Database
    /\ live'.txn = live.txn /\ live'.grant = live.grant /\ live'.refresh = live.refresh

\* The tables of a database are typed.
LEMMA Fields ==
  ASSUME NEW db \in Database
  PROVE  db.txn \in Txns /\ db.grant \in Grants /\ db.refresh \in Refreshes
  BY DEF Database, Txns, Grants, Refreshes

\* The tables a statement sees and the durable ones are typed.
LEMMA StayTyped ==
  ASSUME TypeInv
  PROVE  /\ live \in Database /\ disk \in Database
         /\ live.txn \in Txns /\ live.grant \in Grants /\ live.refresh \in Refreshes
         /\ disk.txn \in Txns /\ disk.grant \in Grants /\ disk.refresh \in Refreshes
  BY Fields DEF TypeInv, TypeOK

\* Replacing the transactions leaves a database, with the other tables as
\* they were.
LEMMA TxnsWritten ==
  ASSUME TypeInv, NEW f \in Txns, live' = [live EXCEPT !.txn = f]
  PROVE  WritesTxns(f)
  BY StayTyped DEF WritesTxns, Database, Txns

\* Replacing the grants leaves a database, with the other tables as they were.
LEMMA GrantsWritten ==
  ASSUME TypeInv, NEW f \in Grants, live' = [live EXCEPT !.grant = f]
  PROVE  WritesGrants(f)
  BY StayTyped DEF WritesGrants, Database, Grants

\* Replacing the refresh tokens leaves a database, with the other tables as
\* they were.
LEMMA RefreshesWritten ==
  ASSUME TypeInv, NEW f \in Refreshes, live' = [live EXCEPT !.refresh = f]
  PROVE  WritesRefreshes(f)
  BY StayTyped DEF WritesRefreshes, Database, Refreshes

\* Writing the client or an access token leaves the other tables alone.
LEMMA OtherWritten ==
  ASSUME TypeInv, \/ \E on \in BOOLEAN : live' = [live EXCEPT !.on = on]
                  \/ \E g \in Grant, n \in Pair : live' = [live EXCEPT !.access = @ \cup {<<g, n>>}]
  PROVE  WritesElsewhere
  <1>1. ASSUME NEW on \in BOOLEAN, live' = [live EXCEPT !.on = on] PROVE WritesElsewhere
    BY <1>1, StayTyped DEF WritesElsewhere, Database
  <1>2. ASSUME NEW g \in Grant, NEW n \in Pair, live' = [live EXCEPT !.access = @ \cup {<<g, n>>}]
        PROVE  WritesElsewhere
    <2>1. live.access \cup {<<g, n>>} \in SUBSET (Grant \X Pair)
      BY StayTyped DEF Database
    <2> DEFINE f == live.access \cup {<<g, n>>}
    <2>2. live' = [live EXCEPT !.access = f]
      BY <1>2
    <2> HIDE DEF f
    <2> QED
      BY <2>1, <2>2, StayTyped DEF WritesElsewhere, Database, f
  <1> QED
    BY <1>1, <1>2

\* Writing one transaction row (UPDATE ... WHERE id) replaces that row only.
LEMMA TxnRowWritten ==
  ASSUME TypeInv, NEW t \in Txn, NEW row \in TxnRow, live' = [live EXCEPT !.txn[t] = row]
  PROVE  WritesTxns([live.txn EXCEPT ![t] = row])
  <1> DEFINE f == [live.txn EXCEPT ![t] = row]
  <1>1. f \in Txns
    BY StayTyped DEF Txns
  <1>2. live' = [live EXCEPT !.txn = f]
    BY Zenon
  <1> HIDE DEF f
  <1>3. WritesTxns(f)
    BY <1>1, <1>2, TxnsWritten
  <1> QED
    BY <1>3 DEF f

\* Writing one grant row replaces that row only.
LEMMA GrantRowWritten ==
  ASSUME TypeInv, NEW g \in Grant, NEW row \in GrantRow, live' = [live EXCEPT !.grant[g] = row]
  PROVE  WritesGrants([live.grant EXCEPT ![g] = row])
  <1> DEFINE f == [live.grant EXCEPT ![g] = row]
  <1>1. f \in Grants
    BY StayTyped DEF Grants
  <1>2. live' = [live EXCEPT !.grant = f]
    BY Zenon
  <1> HIDE DEF f
  <1>3. WritesGrants(f)
    BY <1>1, <1>2, GrantsWritten
  <1> QED
    BY <1>3 DEF f

\* Writing one refresh token row replaces that row only.
LEMMA RefreshRowWritten ==
  ASSUME TypeInv, NEW g \in Grant, NEW n \in Pair, NEW row \in [by : Handler \cup {None}],
         live' = [live EXCEPT !.refresh[g][n] = row]
  PROVE  WritesRefreshes([live.refresh EXCEPT ![g][n] = row])
  <1> DEFINE f == [live.refresh EXCEPT ![g][n] = row]
  <1>1. f \in Refreshes
    BY StayTyped DEF Refreshes
  <1>2. live' = [live EXCEPT !.refresh = f]
    BY Zenon
  <1> HIDE DEF f
  <1>3. WritesRefreshes(f)
    BY <1>1, <1>2, RefreshesWritten
  <1> QED
    BY <1>3 DEF f
-----------------------------------------------------------------------------
(* What the steps of a request do, free of the shape of their records      *)

Others(h) == \A k \in Handler \ {h} : req'[k] = req[k] /\ At(k)' = At(k)

\* A statement outside a block: seen at once, durable at once or later.
ExecStep(h, from, to) ==
    /\ ReqInv' /\ Others(h)
    /\ disk' = disk \/ disk' = live'
    /\ At(h) = from /\ req'[h].pc = "commit" /\ At(h)' = to

GotoStep(h, from, to) ==
    /\ ReqInv' /\ Others(h)
    /\ live' = live /\ disk' = disk
    /\ At(h) = from /\ req'[h].pc = to /\ At(h)' = to

AnswerStep(h, from) ==
    /\ GotoStep(h, from, "idle")
    /\ req'[h].t = None /\ req'[h].g = None

Keeps(h) == req'[h].t = req[h].t /\ req'[h].g = req[h].g /\ req'[h].n = req[h].n

\* A statement of a request that keeps what it knows.
LEMMA ExecOwn ==
  ASSUME ReqInv, NEW h \in Handler, NEW db, NEW then \in Place, req[h].pc \in Place,
         Equipped(req[h], then), Exec(h, db, req[h], then)
  PROVE  ExecStep(h, req[h].pc, then) /\ Keeps(h) /\ live' = db
  <1>1. req[h] \in RequestRow
    BY DEF ReqInv
  <1>2. At(h) = req[h].pc
    BY DEF At, Spot, Place, TxnPlace, GrantPlace, CodePlace, PairPlace, ParkPlace
  <1> QED
    BY <1>1, <1>2, ExecMove DEF ExecStep, Keeps, Others

\* A statement whose row count the request keeps.
LEMMA ExecHit ==
  ASSUME ReqInv, NEW h \in Handler, NEW db, NEW then \in Place, req[h].pc \in Place,
         NEW hit \in BOOLEAN, Equipped(req[h], then),
         Exec(h, db, [req[h] EXCEPT !.hit = hit], then)
  PROVE  ExecStep(h, req[h].pc, then) /\ Keeps(h) /\ live' = db /\ req'[h].hit = hit
  <1> DEFINE r == [req[h] EXCEPT !.hit = hit]
  <1>1. r \in RequestRow /\ r.t = req[h].t /\ r.g = req[h].g /\ r.n = req[h].n /\ r.hit = hit
    BY DEF ReqInv, RequestRow
  <1>2. Equipped(r, then)
    BY <1>1 DEF Equipped
  <1>3. At(h) = req[h].pc
    BY DEF At, Spot, Place, TxnPlace, GrantPlace, CodePlace, PairPlace, ParkPlace
  <1>4. Exec(h, db, r, then)
    OBVIOUS
  <1> HIDE DEF r
  <1> QED
    BY <1>1, <1>2, <1>3, <1>4, ExecMove DEF ExecStep, Keeps, Others

\* A statement after which the request only answers.
LEMMA ExecEnd ==
  ASSUME ReqInv, NEW h \in Handler, NEW db, req[h].pc \in Place, Exec(h, db, Idle, "answer")
  PROVE  /\ ExecStep(h, req[h].pc, "answer") /\ live' = db
         /\ req'[h].t = None /\ req'[h].g = None
  <1>1. "answer" \in Place /\ Idle.t = None /\ Idle.g = None
    BY DEF Place, Idle
  <1>2. At(h) = req[h].pc
    BY DEF At, Spot, Place, TxnPlace, GrantPlace, CodePlace, PairPlace, ParkPlace
  <1> QED
    BY <1>1, <1>2, IdleType, ExecMove DEF ExecStep, Others

\* A move of a request that keeps what it knows.
LEMMA GotoOwn ==
  ASSUME ReqInv, NEW h \in Handler, NEW next \in Place, req[h].pc \in Place,
         Equipped(req[h], next), Goto(h, req[h], next)
  PROVE  GotoStep(h, req[h].pc, next) /\ Keeps(h) /\ req'[h].hit = req[h].hit
  <1>1. req[h] \in RequestRow
    BY DEF ReqInv
  <1>2. At(h) = req[h].pc
    BY DEF At, Spot, Place, TxnPlace, GrantPlace, CodePlace, PairPlace, ParkPlace
  <1> QED
    BY <1>1, <1>2, GotoMove DEF GotoStep, Keeps, Others

\* A move to a revocation or to issue_tokens, with the grant only.
LEMMA GotoGrant ==
  ASSUME ReqInv, NEW h \in Handler, NEW next \in {"revoke", "issue"}, req[h].pc \in Place,
         NEW g \in Grant, Goto(h, [Idle EXCEPT !.g = g], next)
  PROVE  GotoStep(h, req[h].pc, next) /\ req'[h].t = None /\ req'[h].g = g
  <1> DEFINE r == [Idle EXCEPT !.g = g]
  <1>1. r \in RequestRow /\ r.t = None /\ r.g = g
    BY IdleType DEF RequestRow, Idle
  <1>2. Equipped(r, next) /\ next \in Place
    BY <1>1 DEF Equipped, Place, TxnPlace, GrantPlace, CodePlace, PairPlace
  <1>3. At(h) = req[h].pc
    BY DEF At, Spot, Place, TxnPlace, GrantPlace, CodePlace, PairPlace, ParkPlace
  <1>4. Goto(h, r, next)
    OBVIOUS
  <1> HIDE DEF r
  <1> QED
    BY <1>1, <1>2, <1>3, <1>4, GotoMove DEF GotoStep, Others

\* An answer from any place.
LEMMA Answers ==
  ASSUME ReqInv, NEW h \in Handler, req[h].pc \in Place, Answer(h)
  PROVE  AnswerStep(h, req[h].pc)
  <1>1. At(h) = req[h].pc
    BY DEF At, Spot, Place, TxnPlace, GrantPlace, CodePlace, PairPlace, ParkPlace
  <1> QED
    BY <1>1, AnswerMove DEF AnswerStep, GotoStep, Others
USE DEF Place, TxnPlace, GrantPlace, CodePlace, PairPlace, ParkPlace

\* GET /oauth/authorize mints a transaction id and writes nothing yet.
LEMMA AuthorizeEffect ==
  ASSUME TypeInv, NEW h \in Handler, Authorize(h)
  PROVE  \E t \in (Txn \ minted) \cup {None}, next \in {"fetch", "purge"} :
           /\ GotoStep(h, "idle", next)
           /\ req'[h].t = t /\ req'[h].g = None
           /\ minted' = minted \cup ({t} \ {None})
           /\ UNCHANGED <<ground, pages, served, known, spent, issued, decided, ended>>
  <1>1. PICK t \in (Txn \ minted) \cup {None}, next \in {"fetch", "purge"} :
           /\ req[h].pc = "idle"
           /\ minted' = minted \cup ({t} \ {None})
           /\ Goto(h, [Idle EXCEPT !.t = t], next)
           /\ UNCHANGED <<ground, pages, served, known, spent, issued, decided, ended>>
    BY DEF Authorize, Accept
  <1> DEFINE r == [Idle EXCEPT !.t = t]
  <1>2. r \in RequestRow /\ r.t = t /\ r.g = None
    BY IdleType DEF RequestRow, Idle
  <1>3. Equipped(r, next)
    BY DEF Equipped
  <1>4. At(h) = "idle" /\ ReqInv
    BY <1>1 DEF At, Spot, TypeInv
  <1>5. Goto(h, r, next)
    BY <1>1
  <1> HIDE DEF r
  <1>6. GotoStep(h, "idle", next) /\ req'[h].t = t /\ req'[h].g = None
    BY <1>2, <1>3, <1>4, <1>5, GotoMove DEF GotoStep, Others
  <1> QED
    BY <1>1, <1>6

\* fetch_document answers with an error or caches the document.
LEMMA FetchDocumentEffect ==
  ASSUME TypeInv, NEW h \in Handler, FetchDocument(h)
  PROVE  /\ AnswerStep(h, "fetch") \/ (ExecStep(h, "fetch", "purge") /\ Keeps(h) /\ live' = live)
         /\ UNCHANGED <<env, history>>
  <1>1. req[h].pc = "fetch" /\ ReqInv
    BY DEF FetchDocument, TypeInv
  <1>2. Equipped(req[h], "purge")
    BY DEF Equipped
  <1> QED
    BY <1>1, <1>2, ExecOwn, Answers DEF FetchDocument

\* The purge deletes expired transactions and no others.
LEMMA PurgeEffect ==
  ASSUME TypeInv, NEW h \in Handler, Purge(h)
  PROVE  /\ \/ AnswerStep(h, "purge")
            \/ /\ ExecStep(h, "purge", "park") /\ Keeps(h)
               /\ WritesTxns([t \in Txn |-> IF t \in old THEN None ELSE live.txn[t]])
         /\ UNCHANGED <<env, history>>
  <1>1. req[h].pc = "purge" /\ ReqInv
    BY DEF Purge, TypeInv
  <1>2. Equipped(req[h], "park")
    BY DEF Equipped
  <1> DEFINE f == [t \in Txn |-> IF t \in old THEN None ELSE live.txn[t]]
             db == [live EXCEPT !.txn = f]
  <1>3. Answer(h) \/ Exec(h, db, req[h], "park")
    BY DEF Purge
  <1>4. UNCHANGED <<env, history>>
    BY DEF Purge
  <1> HIDE DEF db
  <1>5. AnswerStep(h, "purge") \/ (ExecStep(h, "purge", "park") /\ Keeps(h) /\ live' = db)
    BY <1>1, <1>2, <1>3, ExecOwn, Answers
  <1>6. f \in Txns
    BY StayTyped DEF Txns
  <1> HIDE DEF f
  <1>7. live' = db => WritesTxns(f)
    BY <1>6, TxnsWritten DEF db
  <1> QED
    BY <1>4, <1>5, <1>7 DEF f

\* Parking writes a fresh row for the id the request minted.
LEMMA ParkEffect ==
  ASSUME TypeInv, NEW h \in Handler, Park(h)
  PROVE  /\ ExecStep(h, "park", "answer") /\ req'[h].t = None /\ req'[h].g = None
         /\ \/ req[h].t = None /\ live' = live
            \/ /\ req[h].t \in Txn
               /\ WritesTxns([live.txn EXCEPT ![req[h].t] =
                     [nonce |-> 0, approved |-> FALSE, by |-> None, grant |-> None]])
         /\ UNCHANGED <<env, history>>
  <1> DEFINE db == IF req[h].t = None THEN live
                    ELSE [live EXCEPT !.txn[req[h].t] =
                            [nonce |-> 0, approved |-> FALSE, by |-> None, grant |-> None]]
  <1>1. req[h].pc = "park" /\ ReqInv /\ Exec(h, db, Idle, "answer") /\ UNCHANGED <<env, history>>
    BY DEF Park, TypeInv
  <1> HIDE DEF db
  <1>2. ExecStep(h, "park", "answer") /\ req'[h].t = None /\ req'[h].g = None /\ live' = db
    BY <1>1, ExecEnd
  <1>3. req[h].t \in Txn \cup {None}
    BY <1>1 DEF ReqInv, RequestRow
  <1> DEFINE row == [nonce |-> 0, approved |-> FALSE, by |-> None, grant |-> None]
  <1>4. row \in TxnRow
    BY BoundAssumption DEF TxnRow
  <1>5. req[h].t # None => live' = [live EXCEPT !.txn[req[h].t] = row]
    BY <1>2 DEF db
  <1> HIDE DEF row
  <1>6. req[h].t # None => WritesTxns([live.txn EXCEPT ![req[h].t] = row])
    BY <1>3, <1>4, <1>5, TxnRowWritten
  <1> QED
    BY <1>1, <1>2, <1>3, <1>6 DEF db, row

\* A consent page is asked for a row that is there.
LEMMA ConsentPageEffect ==
  ASSUME TypeInv, NEW h \in Handler, NEW t \in Txn, ConsentPage(h, t)
  PROVE  /\ GotoStep(h, "idle", "arm") /\ req'[h].t = t /\ req'[h].g = None
         /\ live.txn[t] # None
         /\ UNCHANGED <<ground, history>>
  <1> DEFINE r == [Idle EXCEPT !.t = t]
  <1>1. /\ req[h].pc = "idle" /\ ReqInv /\ Goto(h, r, "arm") /\ live.txn[t] # None
        /\ UNCHANGED <<ground, history>>
    BY DEF ConsentPage, Accept, Open, TypeInv
  <1>2. r \in RequestRow /\ r.t = t /\ r.g = None
    BY IdleType DEF RequestRow, Idle
  <1>3. Equipped(r, "arm")
    BY <1>2 DEF Equipped
  <1>4. At(h) = "idle"
    BY <1>1 DEF At, Spot
  <1> HIDE DEF r
  <1> QED
    BY <1>1, <1>2, <1>3, <1>4, GotoMove DEF GotoStep, Others

\* arm_consent writes a nonce into a row that is there, or nothing.
LEMMA ArmConsentEffect ==
  ASSUME TypeInv, NEW h \in Handler, ArmConsent(h)
  PROVE  /\ ExecStep(h, "arm", "page") /\ req'[h].t = req[h].t /\ req'[h].g = req[h].g
         /\ req[h].t \in Txn
         /\ \/ live' = live
            \/ /\ live.txn[req[h].t] # None
               /\ WritesTxns([live.txn EXCEPT ![req[h].t] =
                     [live.txn[req[h].t] EXCEPT !.nonce = pages[req[h].t] + 1]])
         /\ pages[req[h].t] < MaxPages /\ pages' = [pages EXCEPT ![req[h].t] = @ + 1]
         /\ UNCHANGED <<env, minted, served, known, spent, issued, decided, ended>>
  <1> DEFINE t == req[h].t
             row == live.txn[t]
             open == row # None /\ ~row.approved /\ row.by = None
             db == IF open THEN [live EXCEPT !.txn[t].nonce = pages[t] + 1] ELSE live
             q == [req[h] EXCEPT !.hit = open]
             r == [q EXCEPT !.n = pages[t] + 1]
  <1>1. /\ req[h].pc = "arm" /\ ReqInv /\ Exec(h, db, r, "page") /\ pages[t] < MaxPages
        /\ pages' = [pages EXCEPT ![t] = @ + 1]
        /\ UNCHANGED <<env, minted, served, known, spent, issued, decided, ended>>
    BY DEF ArmConsent, TypeInv
  <1>2. At(h) = "arm"
    BY <1>1 DEF At, Spot
  <1>3. t \in Txn
    BY <1>1, <1>2 DEF ReqInv, Equipped
  <1>4. pages[t] \in 0..MaxPages /\ MaxPages \in Nat
    BY <1>3, BoundAssumption DEF TypeInv, TypeOK
  <1>5. open \in BOOLEAN
    BY <1>3 DEF TypeInv, TypeOK, Database, TxnRow
  <1>6. r \in RequestRow /\ r.t = t /\ r.g = req[h].g /\ r.n = pages[t] + 1
    <2> HIDE DEF open
    <2>1. q \in RequestRow /\ q.t = t /\ q.g = req[h].g
      BY SMTT(30), <1>1, <1>5 DEF ReqInv, RequestRow
    <2>2. pages[t] + 1 \in Nat
      BY <1>4
    <2> HIDE DEF q
    <2> QED
      BY <2>1, <2>2 DEF RequestRow
  <1>7. Equipped(r, "page")
    BY <1>1, <1>3, <1>4, <1>6 DEF Equipped
  <1>8. db = live \/ (db = [live EXCEPT !.txn[t].nonce = pages[t] + 1] /\ row # None)
    OBVIOUS
  <1> HIDE DEF r, db
  <1>9. ExecStep(h, "arm", "page") /\ req'[h].t = req[h].t /\ req'[h].g = req[h].g /\ live' = db
    BY <1>1, <1>2, <1>6, <1>7, ExecMove DEF ExecStep, Others
  <1> DEFINE new == [live.txn[t] EXCEPT !.nonce = pages[t] + 1]
  <1>10. live' = live \/ (live' = [live EXCEPT !.txn[t] = new] /\ row # None)
    BY <1>8, <1>9
  <1>11. row # None => new \in TxnRow
    BY <1>1, <1>3, <1>4, StayTyped DEF Txns, TxnRow
  <1> HIDE DEF new
  <1>12. live' = live \/ (WritesTxns([live.txn EXCEPT ![t] = new]) /\ row # None)
    BY <1>3, <1>10, <1>11, TxnRowWritten
  <1> QED
    BY <1>1, <1>3, <1>9, <1>12 DEF new

\* The page is served and the request is over.
LEMMA ShowPageEffect ==
  ASSUME TypeInv, NEW h \in Handler, ShowPage(h)
  PROVE  /\ AnswerStep(h, "page")
         /\ req[h].t \in Txn /\ req[h].n \in 1..MaxPages
         /\ served' = served \/ served' = served \cup {<<req[h].t, req[h].n>>}
         /\ UNCHANGED <<env, minted, pages, known, spent, issued, decided, ended>>
  <1>1. req[h].pc = "page" /\ ReqInv /\ Answer(h)
    BY DEF ShowPage, TypeInv
  <1>2. req[h].t \in Txn /\ req[h].n \in 1..MaxPages
    BY <1>1 DEF ReqInv, Equipped, At, Spot
  <1> QED
    BY <1>1, <1>2, Answers DEF ShowPage

\* A decision is posted for a row that is there.
LEMMA ConsentDecisionEffect ==
  ASSUME TypeInv, NEW h \in Handler, NEW t \in Txn, NEW k \in 1..MaxPages,
         NEW allow \in BOOLEAN, ConsentDecision(h, t, k, allow)
  PROVE  /\ GotoStep(h, "idle", "claim") \/ GotoStep(h, "idle", "deny")
         /\ req'[h].t = t /\ req'[h].g = None
         /\ live.txn[t] # None
         /\ UNCHANGED <<ground, history>>
  <1> DEFINE q == [Idle EXCEPT !.t = t]
             r == [q EXCEPT !.n = k]
             next == IF allow THEN "claim" ELSE "deny"
  <1>1. /\ req[h].pc = "idle" /\ ReqInv /\ Goto(h, r, next) /\ live.txn[t] # None
        /\ UNCHANGED <<ground, history>>
    BY DEF ConsentDecision, Accept, Open, TypeInv
  <1>2. r \in RequestRow /\ r.t = t /\ r.g = None
    <2>1. q \in RequestRow /\ q.t = t /\ q.g = None
      BY IdleType DEF RequestRow, Idle
    <2>2. k \in Nat
      BY BoundAssumption
    <2> HIDE DEF q
    <2> QED
      BY <2>1, <2>2 DEF RequestRow
  <1>3. next \in {"claim", "deny"}
    OBVIOUS
  <1>4. Equipped(r, next)
    BY <1>2, <1>3 DEF Equipped
  <1>5. At(h) = "idle"
    BY <1>1 DEF At, Spot
  <1> HIDE DEF r, next
  <1>6. GotoStep(h, "idle", next) /\ req'[h].t = t /\ req'[h].g = None
    BY <1>1, <1>2, <1>3, <1>4, <1>5, GotoMove DEF GotoStep, Others
  <1> QED
    BY <1>1, <1>3, <1>6

\* approve_transaction marks an undecided row, and keeps its row count.
LEMMA ClaimEffect ==
  ASSUME TypeInv, NEW h \in Handler, Claim(h)
  PROVE  LET t == req[h].t
             hit == Undecided(t, req[h].n)
         IN  /\ ExecStep(h, "claim", "claimed") /\ Keeps(h)
             /\ t \in Txn
             /\ req'[h].hit = hit
             /\ IF hit
                THEN WritesTxns([live.txn EXCEPT ![t] = [live.txn[t] EXCEPT !.approved = TRUE]])
                ELSE live' = live
             /\ UNCHANGED <<env, history>>
  <1> DEFINE t == req[h].t
             hit == Undecided(t, req[h].n)
             db == IF hit THEN [live EXCEPT !.txn[t].approved = TRUE] ELSE live
  <1>1. /\ req[h].pc = "claim" /\ ReqInv /\ Exec(h, db, [req[h] EXCEPT !.hit = hit], "claimed")
        /\ UNCHANGED <<env, history>>
    BY DEF Claim, TypeInv
  <1>2. t \in Txn
    BY <1>1 DEF ReqInv, Equipped, At, Spot
  <1>3. hit \in BOOLEAN
    BY DEF Undecided
  <1>4. Equipped(req[h], "claimed")
    BY <1>2 DEF Equipped
  <1>5. ExecStep(h, "claim", "claimed") /\ Keeps(h) /\ live' = db /\ req'[h].hit = hit
    <2> HIDE DEF db, hit, t
    <2> QED
      BY <1>1, <1>3, <1>4, ExecHit
  <1> DEFINE new == [live.txn[t] EXCEPT !.approved = TRUE]
  <1>6. IF hit THEN live' = [live EXCEPT !.txn[t] = new] ELSE live' = live
    BY <1>5
  <1>7. hit => new \in TxnRow
    BY <1>2, StayTyped DEF Txns, TxnRow, Undecided
  <1> HIDE DEF new, hit
  <1>8. IF hit THEN WritesTxns([live.txn EXCEPT ![t] = new]) ELSE live' = live
    BY <1>2, <1>6, <1>7, TxnRowWritten
  <1> QED
    BY <1>1, <1>2, <1>5, <1>8 DEF new, hit

\* A denial consumes an undecided row, and keeps its row count.
LEMMA DenyEffect ==
  ASSUME TypeInv, NEW h \in Handler, Deny(h)
  PROVE  LET t == req[h].t
             hit == Undecided(t, req[h].n)
         IN  /\ ExecStep(h, "deny", "denied") /\ Keeps(h)
             /\ t \in Txn
             /\ req'[h].hit = hit
             /\ IF hit
                THEN WritesTxns([live.txn EXCEPT ![t] = [live.txn[t] EXCEPT !.by = Unmarked]])
                ELSE live' = live
             /\ UNCHANGED <<env, history>>
  <1> DEFINE t == req[h].t
             hit == Undecided(t, req[h].n)
             db == IF hit THEN [live EXCEPT !.txn[t].by = Unmarked] ELSE live
  <1>1. /\ req[h].pc = "deny" /\ ReqInv /\ Exec(h, db, [req[h] EXCEPT !.hit = hit], "denied")
        /\ UNCHANGED <<env, history>>
    BY DEF Deny, TypeInv
  <1>2. t \in Txn
    BY <1>1 DEF ReqInv, Equipped, At, Spot
  <1>3. hit \in BOOLEAN
    BY DEF Undecided
  <1>4. Equipped(req[h], "denied")
    BY <1>2 DEF Equipped
  <1>5. ExecStep(h, "deny", "denied") /\ Keeps(h) /\ live' = db /\ req'[h].hit = hit
    <2> HIDE DEF db, hit, t
    <2> QED
      BY <1>1, <1>3, <1>4, ExecHit
  <1> DEFINE new == [live.txn[t] EXCEPT !.by = Unmarked]
  <1>6. IF hit THEN live' = [live EXCEPT !.txn[t] = new] ELSE live' = live
    BY <1>5
  <1>7. hit => new \in TxnRow
    BY <1>2, StayTyped DEF Txns, TxnRow, Undecided
  <1> HIDE DEF new, hit
  <1>8. IF hit THEN WritesTxns([live.txn EXCEPT ![t] = new]) ELSE live' = live
    BY <1>2, <1>6, <1>7, TxnRowWritten
  <1> QED
    BY <1>1, <1>2, <1>5, <1>8 DEF new, hit

\* Only a claim that hit its row goes on to a grant.
LEMMA ClaimedEffect ==
  ASSUME TypeInv, NEW h \in Handler, Claimed(h)
  PROVE  /\ \/ AnswerStep(h, "claimed")
            \/ GotoStep(h, "claimed", "grant") /\ Keeps(h) /\ req[h].hit
         /\ UNCHANGED <<env, history>>
  <1>1. req[h].pc = "claimed" /\ ReqInv
    BY DEF Claimed, TypeInv
  <1>2. Equipped(req[h], "grant")
    BY <1>1 DEF ReqInv, Equipped, At, Spot
  <1> QED
    BY <1>1, <1>2, Answers, GotoOwn DEF Claimed

\* A grant is inserted under an id that nobody has.
LEMMA InsertGrantEffect ==
  ASSUME TypeInv, NEW h \in Handler, InsertGrant(h)
  PROVE  \E g \in Grant \ minted :
           /\ ExecStep(h, "grant", "mint") /\ req'[h].t = req[h].t /\ req'[h].g = g
           /\ req[h].t \in Txn
           /\ WritesGrants([live.grant EXCEPT ![g] = [revoked |-> FALSE, txn |-> req[h].t]])
           /\ minted' = minted \cup {g}
           /\ UNCHANGED <<env, pages, served, known, spent, issued, decided, ended>>
  <1>1. PICK g \in Grant \ minted :
           /\ req[h].pc = "grant"
           /\ minted' = minted \cup {g}
           /\ Exec(h, [live EXCEPT !.grant[g] = [revoked |-> FALSE, txn |-> req[h].t]],
                   [req[h] EXCEPT !.g = g], "mint")
           /\ UNCHANGED <<env, pages, served, known, spent, issued, decided, ended>>
    BY DEF InsertGrant
  <1> DEFINE db == [live EXCEPT !.grant[g] = [revoked |-> FALSE, txn |-> req[h].t]]
             r == [req[h] EXCEPT !.g = g]
  <1>2. ReqInv /\ At(h) = "grant"
    BY <1>1 DEF TypeInv, At, Spot
  <1>3. req[h].t \in Txn
    BY <1>2 DEF ReqInv, Equipped
  <1>4. r \in RequestRow /\ r.t = req[h].t /\ r.g = g
    BY <1>2 DEF ReqInv, RequestRow
  <1>5. Equipped(r, "mint")
    BY <1>3, <1>4 DEF Equipped
  <1>6. Exec(h, db, r, "mint")
    BY <1>1
  <1>7. ExecStep(h, "grant", "mint") /\ req'[h].t = req[h].t /\ req'[h].g = g /\ live' = db
    <2> HIDE DEF r, db
    <2> QED
      BY <1>2, <1>4, <1>5, <1>6, ExecMove DEF ExecStep, Others
  <1> DEFINE new == [revoked |-> FALSE, txn |-> req[h].t]
  <1>8. new \in GrantRow /\ live' = [live EXCEPT !.grant[g] = new]
    BY <1>3, <1>7 DEF GrantRow
  <1> HIDE DEF new
  <1>9. WritesGrants([live.grant EXCEPT ![g] = new])
    BY <1>8, GrantRowWritten
  <1> QED
    BY <1>1, <1>3, <1>7, <1>9 DEF new

\* The code is written into the transaction, if it is still there.
LEMMA MintEffect ==
  ASSUME TypeInv, NEW h \in Handler, Mint(h)
  PROVE  LET t == req[h].t
             g == req[h].g
         IN  /\ t \in Txn /\ g \in Grant
             /\ \/ AnswerStep(h, "mint")
                \/ /\ ExecStep(h, "mint", "allowed") /\ Keeps(h)
                   /\ \/ live.txn[t] = None /\ live' = live
                      \/ /\ live.txn[t] # None
                         /\ WritesTxns([live.txn EXCEPT ![t] = [live.txn[t] EXCEPT !.grant = g]])
             /\ old' = old \ {t}
             /\ UNCHANGED <<dialect, block, faults, erased, requests, history>>
  <1> DEFINE t == req[h].t
             g == req[h].g
             db == IF live.txn[t] = None THEN live ELSE [live EXCEPT !.txn[t].grant = g]
  <1>1. /\ req[h].pc = "mint" /\ ReqInv
        /\ Answer(h) \/ Exec(h, db, req[h], "allowed")
        /\ old' = old \ {t}
        /\ UNCHANGED <<dialect, block, faults, erased, requests, history>>
    BY DEF Mint, TypeInv
  <1>2. t \in Txn /\ g \in Grant
    BY <1>1 DEF ReqInv, Equipped, At, Spot
  <1>3. Equipped(req[h], "allowed")
    BY <1>2 DEF Equipped
  <1>4. \/ AnswerStep(h, "mint")
        \/ ExecStep(h, "mint", "allowed") /\ Keeps(h) /\ live' = db
    <2> HIDE DEF db, t, g
    <2> QED
      BY <1>1, <1>3, Answers, ExecOwn
  <1> DEFINE new == [live.txn[t] EXCEPT !.grant = g]
  <1>5. CASE AnswerStep(h, "mint")
    BY <1>1, <1>2, <1>5
  <1>6. CASE ExecStep(h, "mint", "allowed") /\ Keeps(h) /\ live' = db /\ live.txn[t] = None
    BY <1>1, <1>2, <1>6
  <1>7. CASE ExecStep(h, "mint", "allowed") /\ Keeps(h) /\ live' = db /\ live.txn[t] # None
    <2>1. live' = [live EXCEPT !.txn[t] = new]
      BY <1>7, Zenon
    <2>2. new \in TxnRow
      BY <1>2, <1>7, StayTyped DEF Txns, TxnRow
    <2> HIDE DEF new, t
    <2>3. WritesTxns([live.txn EXCEPT ![t] = new])
      BY <1>2, <2>1, <2>2, TxnRowWritten
    <2> QED
      BY <1>1, <1>2, <1>7, <2>3 DEF new, t
  <1> HIDE DEF db
  <1> QED
    BY <1>4, <1>5, <1>6, <1>7

\* The redirect hands out the code and counts as the decision.
LEMMA AllowedEffect ==
  ASSUME TypeInv, NEW h \in Handler, Allowed(h)
  PROVE  /\ AnswerStep(h, "allowed") /\ req[h].pc = "allowed"
         /\ req[h].t \in Txn /\ req[h].g \in Grant
         /\ known' = known \cup {<<req[h].g, 0>>}
         /\ decided' = [decided EXCEPT ![req[h].t] = @ + 1]
         /\ UNCHANGED <<env, minted, pages, served, spent, issued, ended>>
  <1>1. req[h].pc = "allowed" /\ ReqInv
    BY DEF Allowed, TypeInv
  <1>2. req[h].t \in Txn /\ req[h].g \in Grant
    BY <1>1 DEF ReqInv, Equipped, At, Spot
  <1> QED
    BY <1>1, <1>2, Answers DEF Allowed

\* A denial that hit its row counts as the decision.
LEMMA DeniedEffect ==
  ASSUME TypeInv, NEW h \in Handler, Denied(h)
  PROVE  /\ AnswerStep(h, "denied") /\ req[h].pc = "denied"
         /\ req[h].t \in Txn
         /\ decided' = [decided EXCEPT ![req[h].t] = IF req[h].hit THEN @ + 1 ELSE @]
         /\ UNCHANGED <<env, minted, pages, served, known, spent, issued, ended>>
  <1>1. req[h].pc = "denied" /\ ReqInv
    BY DEF Denied, TypeInv
  <1>2. req[h].t \in Txn
    BY <1>1 DEF ReqInv, Equipped, At, Spot
  <1> QED
    BY <1>1, <1>2, Answers DEF Denied

\* An exchange starts from a code that was handed out.
LEMMA ExchangeCodeEffect ==
  ASSUME TypeInv, NEW h \in Handler, NEW g \in Grant, NEW owner \in BOOLEAN,
         ExchangeCode(h, g, owner)
  PROVE  /\ GotoStep(h, "idle", "consume_code") /\ req'[h].t = None /\ req'[h].g = g
         /\ <<g, 0>> \in known
         /\ UNCHANGED <<ground, history>>
  <1> DEFINE q == [Idle EXCEPT !.g = g]
             r == [q EXCEPT !.owner = owner]
  <1>1. /\ req[h].pc = "idle" /\ ReqInv /\ Goto(h, r, "consume_code") /\ <<g, 0>> \in known
        /\ UNCHANGED <<ground, history>>
    BY DEF ExchangeCode, Accept, TypeInv
  <1>2. r \in RequestRow /\ r.t = None /\ r.g = g
    <2>1. q \in RequestRow /\ q.t = None /\ q.g = g
      BY IdleType DEF RequestRow, Idle
    <2> HIDE DEF q
    <2> QED
      BY <2>1 DEF RequestRow
  <1>3. Equipped(r, "consume_code")
    BY <1>2 DEF Equipped
  <1>4. At(h) = "idle"
    BY <1>1 DEF At, Spot
  <1> HIDE DEF r
  <1> QED
    BY <1>1, <1>2, <1>3, <1>4, GotoMove DEF GotoStep, Others

\* The stamp goes into the unstamped rows of the code, and into no other.
LEMMA ConsumeCodeEffect ==
  ASSUME TypeInv, NEW h \in Handler, ConsumeCode(h)
  PROVE  LET rows == {t \in CodeRow(req[h].g) : live.txn[t].by = None}
         IN  /\ ExecStep(h, "consume_code", "read_code_mark")
             /\ req'[h].t = req[h].t /\ req'[h].g = req[h].g
             /\ req[h].g \in Grant
             /\ req'[h].hit = (rows # {})
             /\ WritesTxns([t \in Txn |-> IF t \in rows THEN [live.txn[t] EXCEPT !.by = h]
                                          ELSE live.txn[t]])
             /\ UNCHANGED <<env, history>>
  <1> DEFINE rows == {t \in CodeRow(req[h].g) : live.txn[t].by = None}
             f == [t \in Txn |-> IF t \in rows THEN [live.txn[t] EXCEPT !.by = h]
                                ELSE live.txn[t]]
             db == [live EXCEPT !.txn = f]
             hit == rows # {}
             late == rows \cap old # {}
             q == [req[h] EXCEPT !.hit = hit]
             r == [q EXCEPT !.late = late]
  <1>1. /\ req[h].pc = "consume_code" /\ ReqInv /\ Exec(h, db, r, "read_code_mark")
        /\ UNCHANGED <<env, history>>
    BY DEF ConsumeCode, TypeInv
  <1>2. At(h) = "consume_code"
    BY <1>1 DEF At, Spot
  <1>3. req[h].g \in Grant
    BY <1>1, <1>2 DEF ReqInv, Equipped
  <1>4. hit \in BOOLEAN /\ late \in BOOLEAN
    OBVIOUS
  <1>5. r \in RequestRow /\ r.t = req[h].t /\ r.g = req[h].g /\ r.hit = hit
    <2> HIDE DEF hit, late
    <2>1. q \in RequestRow /\ q.t = req[h].t /\ q.g = req[h].g /\ q.hit = hit
      BY <1>1, <1>4 DEF ReqInv, RequestRow
    <2> HIDE DEF q
    <2> QED
      BY <1>4, <2>1 DEF RequestRow
  <1>6. Equipped(r, "read_code_mark")
    BY <1>3, <1>5 DEF Equipped
  <1>7. /\ ExecStep(h, "consume_code", "read_code_mark") /\ live' = db
        /\ req'[h].t = req[h].t /\ req'[h].g = req[h].g /\ req'[h].hit = hit
    <2> HIDE DEF r, db, hit
    <2> QED
      BY <1>1, <1>2, <1>5, <1>6, ExecMove DEF ExecStep, Others
  <1>8. f \in Txns
    BY StayTyped DEF Txns, TxnRow, CodeRow
  <1> HIDE DEF f
  <1>9. WritesTxns(f)
    BY <1>7, <1>8, TxnsWritten
  <1> HIDE DEF hit
  <1> QED
    BY <1>1, <1>3, <1>7, <1>9 DEF f, hit

\* The exchange won if the row carries its own stamp.
LEMMA ReadCodeMarkEffect ==
  ASSUME TypeInv, NEW h \in Handler, ReadCodeMark(h)
  PROVE  /\ GotoStep(h, "read_code_mark", "read_code") /\ Keeps(h)
         /\ req[h].pc = "read_code_mark"
         /\ req[h].g \in Grant
         /\ req'[h].hit = (req[h].hit /\ \E t \in CodeRow(req[h].g) : live.txn[t].by = h)
         /\ UNCHANGED <<env, history>>
  <1> DEFINE hit == \E t \in CodeRow(req[h].g) : MarkHeld(h, req[h].hit, live.txn[t].by)
             r == [req[h] EXCEPT !.hit = hit]
  <1>1. /\ req[h].pc = "read_code_mark" /\ ReqInv /\ Goto(h, r, "read_code")
        /\ UNCHANGED <<env, history>>
    BY DEF ReadCodeMark, TypeInv
  <1>2. At(h) = "read_code_mark"
    BY <1>1 DEF At, Spot
  <1>3. req[h].g \in Grant /\ req[h].hit \in BOOLEAN
    BY <1>1, <1>2 DEF ReqInv, Equipped, RequestRow
  <1>4. hit \in BOOLEAN
    OBVIOUS
  <1>5. /\ r \in RequestRow /\ r.t = req[h].t /\ r.g = req[h].g /\ r.n = req[h].n
        /\ r.hit = hit
    <2> HIDE DEF hit
    <2> QED
      BY <1>1, <1>4 DEF ReqInv, RequestRow
  <1>6. Equipped(r, "read_code")
    BY <1>3, <1>5 DEF Equipped
  <1>7. GotoStep(h, "read_code_mark", "read_code") /\ Keeps(h) /\ req'[h].hit = hit
    <2> HIDE DEF r, hit
    <2> QED
      BY <1>1, <1>2, <1>5, <1>6, GotoMove DEF GotoStep, Others, Keeps
  <1>8. hit = (req[h].hit /\ \E t \in CodeRow(req[h].g) : live.txn[t].by = h)
    BY <1>3, Zenon DEF MarkHeld
  <1> QED
    BY <1>1, <1>3, <1>7, <1>8

\* A redemption is counted for a winner, and only a winner issues tokens.
LEMMA RedeemCodeEffect ==
  ASSUME TypeInv, NEW h \in Handler, RedeemCode(h)
  PROVE  LET g == req[h].g
         IN  /\ g \in Grant /\ At(h) = "read_code"
             /\ \/ AnswerStep(h, "read_code") /\ spent' = spent
                \/ GotoStep(h, "read_code", "revoke") /\ req'[h].t = None /\ req'[h].g = g
                   /\ spent' = spent
                \/ /\ req[h].hit /\ CodeRow(g) # {}
                   /\ spent' = [spent EXCEPT ![g] = @ + 1]
                   /\ \/ AnswerStep(h, "read_code")
                      \/ GotoStep(h, "read_code", "issue") /\ req'[h].t = None /\ req'[h].g = g
             /\ UNCHANGED <<env, minted, pages, served, known, issued, decided, ended>>
  <1> DEFINE g == req[h].g
             row == CodeRow(g)
             won == req[h].hit /\ row # {} /\ ~req[h].late
             replay == ~req[h].hit /\ \E t \in row : live.txn[t].by # None
  <1>1. /\ req[h].pc = "read_code" /\ ReqInv
        /\ spent' = IF won THEN [spent EXCEPT ![g] = @ + 1] ELSE spent
        /\ \/ replay /\ Goto(h, [Idle EXCEPT !.g = g], "revoke")
           \/ won /\ Goto(h, [Idle EXCEPT !.g = g], "issue")
           \/ Answer(h)
        /\ UNCHANGED <<env, minted, pages, served, known, issued, decided, ended>>
    BY DEF RedeemCode, TypeInv
  <1>2. g \in Grant /\ At(h) = "read_code"
    BY <1>1 DEF ReqInv, Equipped, At, Spot
  <1>3. Answer(h) => AnswerStep(h, "read_code")
    BY <1>1, Answers
  <1>4. ASSUME NEW next \in {"revoke", "issue"}, Goto(h, [Idle EXCEPT !.g = g], next)
        PROVE  GotoStep(h, "read_code", next) /\ req'[h].t = None /\ req'[h].g = g
    <2> HIDE DEF g
    <2> QED
      BY <1>1, <1>2, <1>4, GotoGrant
  <1>5. ~(replay /\ won)
    OBVIOUS
  <1>6. won => req[h].hit /\ row # {}
    OBVIOUS
  <1> HIDE DEF won, replay
  <1> QED
    BY <1>1, <1>2, <1>3, <1>4, <1>5, <1>6

\* A refresh starts from a pair that was handed out.
LEMMA ExchangeRefreshEffect ==
  ASSUME TypeInv, NEW h \in Handler, NEW g \in Grant, NEW n \in Pair, NEW owner \in BOOLEAN,
         ExchangeRefresh(h, g, n, owner)
  PROVE  /\ GotoStep(h, "idle", "read_refresh") /\ req'[h].t = None /\ req'[h].g = g
         /\ <<g, n>> \in known
         /\ UNCHANGED <<ground, history>>
  <1> DEFINE p == [Idle EXCEPT !.g = g]
             q == [p EXCEPT !.n = n]
             r == [q EXCEPT !.owner = owner]
  <1>1. /\ req[h].pc = "idle" /\ ReqInv /\ Goto(h, r, "read_refresh") /\ <<g, n>> \in known
        /\ UNCHANGED <<ground, history>>
    BY DEF ExchangeRefresh, Accept, TypeInv
  <1>2. r \in RequestRow /\ r.t = None /\ r.g = g /\ r.n = n
    <2>1. p \in RequestRow /\ p.t = None /\ p.g = g
      BY IdleType DEF RequestRow, Idle
    <2>2. n \in Nat
      BY BoundAssumption DEF Pair
    <2>3. q \in RequestRow /\ q.t = None /\ q.g = g /\ q.n = n
      <3> HIDE DEF p
      <3> QED
        BY <2>1, <2>2 DEF RequestRow
    <2> HIDE DEF q
    <2> QED
      BY <2>3 DEF RequestRow
  <1>3. Equipped(r, "read_refresh")
    BY <1>2 DEF Equipped
  <1>4. At(h) = "idle"
    BY <1>1 DEF At, Spot
  <1> HIDE DEF r
  <1> QED
    BY <1>1, <1>2, <1>3, <1>4, GotoMove DEF GotoStep, Others

\* The first read of a refresh writes nothing.
LEMMA ReadRefreshEffect ==
  ASSUME TypeInv, NEW h \in Handler, ReadRefresh(h)
  PROVE  /\ req[h].g \in Grant
         /\ \/ AnswerStep(h, "read_refresh")
            \/ GotoStep(h, "read_refresh", "revoke") /\ req'[h].t = None /\ req'[h].g = req[h].g
            \/ GotoStep(h, "read_refresh", "consume_refresh") /\ Keeps(h)
         /\ UNCHANGED <<env, history>>
  <1> DEFINE g == req[h].g
  <1>1. /\ req[h].pc = "read_refresh" /\ ReqInv
        /\ \/ Goto(h, [Idle EXCEPT !.g = g], "revoke")
           \/ Goto(h, req[h], "consume_refresh")
           \/ Answer(h)
        /\ UNCHANGED <<env, history>>
    BY DEF ReadRefresh, TypeInv
  <1>2. g \in Grant
    BY <1>1 DEF ReqInv, Equipped, At, Spot
  <1>3. Equipped(req[h], "consume_refresh")
    BY <1>1 DEF ReqInv, Equipped, At, Spot
  <1>4. CASE Goto(h, [Idle EXCEPT !.g = g], "revoke")
    <2> HIDE DEF g
    <2>1. GotoStep(h, "read_refresh", "revoke") /\ req'[h].t = None /\ req'[h].g = g
      BY SMTT(30), <1>1, <1>2, <1>4, GotoGrant
    <2> QED
      BY <1>1, <1>2, <2>1 DEF g
  <1> QED
    BY <1>1, <1>2, <1>3, <1>4, Answers, GotoOwn

\* The stamp goes into an unstamped row of the refresh token, or nowhere.
LEMMA ConsumeRefreshEffect ==
  ASSUME TypeInv, NEW h \in Handler, ConsumeRefresh(h)
  PROVE  LET g == req[h].g
             n == req[h].n
             hit == live.refresh[g][n] # None /\ live.refresh[g][n].by = None
         IN  /\ ExecStep(h, "consume_refresh", "read_refresh_mark") /\ Keeps(h)
             /\ g \in Grant /\ n \in Pair
             /\ req'[h].hit = hit
             /\ IF hit THEN WritesRefreshes([live.refresh EXCEPT ![g][n] = [by |-> h]])
                ELSE live' = live
             /\ UNCHANGED <<env, history>>
  <1> DEFINE g == req[h].g
             n == req[h].n
             hit == live.refresh[g][n] # None /\ live.refresh[g][n].by = None
             db == IF hit THEN [live EXCEPT !.refresh[g][n].by = h] ELSE live
  <1>1. /\ req[h].pc = "consume_refresh" /\ ReqInv
        /\ Exec(h, db, [req[h] EXCEPT !.hit = hit], "read_refresh_mark")
        /\ UNCHANGED <<env, history>>
    BY DEF ConsumeRefresh, TypeInv
  <1>2. g \in Grant /\ n \in Pair
    BY <1>1 DEF ReqInv, Equipped, At, Spot
  <1>3. hit \in BOOLEAN
    OBVIOUS
  <1>4. Equipped(req[h], "read_refresh_mark")
    BY <1>2 DEF Equipped
  <1>5. /\ ExecStep(h, "consume_refresh", "read_refresh_mark") /\ Keeps(h) /\ live' = db
        /\ req'[h].hit = hit
    <2> HIDE DEF db, hit, g, n
    <2> QED
      BY SMTT(30), <1>1, <1>3, <1>4, ExecHit
  <1> DEFINE new == [live.refresh[g][n] EXCEPT !.by = h]
  <1>6. IF hit THEN live' = [live EXCEPT !.refresh[g][n] = new] ELSE live' = live
    BY <1>5
  <1>7. hit => new = [by |-> h]
    BY <1>2, StayTyped DEF Refreshes
  <1>8. [by |-> h] \in [by : Handler \cup {None}]
    OBVIOUS
  <1> HIDE DEF new, hit
  <1>9. IF hit THEN WritesRefreshes([live.refresh EXCEPT ![g][n] = [by |-> h]]) ELSE live' = live
    BY SMTT(30), <1>2, <1>6, <1>7, <1>8, RefreshRowWritten
  <1> QED
    BY ZenonT(60), <1>1, <1>2, <1>5, <1>9 DEF hit

\* A redemption is counted when the row carries the own stamp.
LEMMA RedeemRefreshEffect ==
  ASSUME TypeInv, NEW h \in Handler, RedeemRefresh(h)
  PROVE  LET g == req[h].g
             row == live.refresh[g][req[h].n]
         IN  /\ g \in Grant /\ req[h].n \in Pair
             /\ At(h) = "read_refresh_mark" /\ req[h].pc = "read_refresh_mark"
             /\ \/ /\ GotoStep(h, "read_refresh_mark", "read_refresh_again") /\ Keeps(h)
                   /\ spent' = spent
                \/ /\ row # None /\ req[h].hit /\ row.by = h
                   /\ spent' = [spent EXCEPT ![g] = @ + 1]
                   /\ \/ AnswerStep(h, "read_refresh_mark")
                      \/ /\ GotoStep(h, "read_refresh_mark", "issue")
                         /\ req'[h].t = None /\ req'[h].g = g
             /\ UNCHANGED <<env, minted, pages, served, known, issued, decided, ended>>
  <1> DEFINE g == req[h].g
             row == live.refresh[g][req[h].n]
             won == row # None /\ MarkHeld(h, req[h].hit, row.by)
  <1>1. /\ req[h].pc = "read_refresh_mark" /\ ReqInv
        /\ spent' = IF won THEN [spent EXCEPT ![g] = @ + 1] ELSE spent
        /\ \/ won /\ Goto(h, [Idle EXCEPT !.g = g], "issue")
           \/ won /\ Answer(h)
           \/ ~won /\ Goto(h, req[h], "read_refresh_again")
        /\ UNCHANGED <<env, minted, pages, served, known, issued, decided, ended>>
    BY DEF RedeemRefresh, TypeInv
  <1>2. g \in Grant /\ req[h].n \in Pair /\ At(h) = "read_refresh_mark"
    BY <1>1 DEF ReqInv, Equipped, At, Spot
  <1>3. Equipped(req[h], "read_refresh_again")
    BY <1>2 DEF Equipped
  <1>4. won => row # None /\ req[h].hit /\ row.by = h
    BY DEF MarkHeld
  <1> HIDE DEF won
  <1>5. CASE won /\ Goto(h, [Idle EXCEPT !.g = g], "issue")
    <2> HIDE DEF g
    <2>1. GotoStep(h, "read_refresh_mark", "issue") /\ req'[h].t = None /\ req'[h].g = g
      BY <1>1, <1>2, <1>5, GotoGrant
    <2> QED
      BY <1>1, <1>2, <1>4, <1>5, <2>1 DEF g
  <1>6. CASE won /\ Answer(h)
    BY <1>1, <1>2, <1>4, <1>6, Answers
  <1>7. CASE ~won /\ Goto(h, req[h], "read_refresh_again")
    BY <1>1, <1>2, <1>3, <1>7, GotoOwn
  <1> QED
    BY SMTT(30), <1>1, <1>5, <1>6, <1>7

\* A refresh that lost answers or revokes the grant.
LEMMA ReadRefreshAgainEffect ==
  ASSUME TypeInv, NEW h \in Handler, ReadRefreshAgain(h)
  PROVE  /\ req[h].g \in Grant
         /\ \/ AnswerStep(h, "read_refresh_again")
            \/ /\ GotoStep(h, "read_refresh_again", "revoke")
               /\ req'[h].t = None /\ req'[h].g = req[h].g
         /\ UNCHANGED <<env, history>>
  <1> DEFINE g == req[h].g
  <1>1. /\ req[h].pc = "read_refresh_again" /\ ReqInv
        /\ Answer(h) \/ Goto(h, [Idle EXCEPT !.g = g], "revoke")
        /\ UNCHANGED <<env, history>>
    BY DEF ReadRefreshAgain, TypeInv
  <1>2. g \in Grant
    BY <1>1 DEF ReqInv, Equipped, At, Spot
  <1> HIDE DEF g
  <1>3. \/ AnswerStep(h, "read_refresh_again")
        \/ GotoStep(h, "read_refresh_again", "revoke") /\ req'[h].t = None /\ req'[h].g = g
    BY <1>1, <1>2, Answers, GotoGrant
  <1> QED
    BY <1>1, <1>2, <1>3 DEF g

\* issue_tokens reads the grant before it writes.
LEMMA IssueReadEffect ==
  ASSUME TypeInv, NEW h \in Handler, IssueRead(h)
  PROVE  /\ AnswerStep(h, "issue") \/ (GotoStep(h, "issue", "insert_access") /\ Keeps(h))
         /\ UNCHANGED <<env, history>>
  <1>1. req[h].pc = "issue" /\ ReqInv
    BY DEF IssueRead, TypeInv
  <1>2. Equipped(req[h], "insert_access")
    BY <1>1 DEF ReqInv, Equipped, At, Spot
  <1> QED
    BY <1>1, <1>2, Answers, GotoOwn DEF IssueRead

\* The access token gets the next number of its grant.
LEMMA InsertAccessEffect ==
  ASSUME TypeInv, NEW h \in Handler, InsertAccess(h)
  PROVE  LET g == req[h].g
             n == issued[g] + 1
         IN  /\ g \in Grant /\ n \in Pair /\ At(h) = "insert_access"
             /\ issued' = [issued EXCEPT ![g] = n]
             /\ \/ AnswerStep(h, "insert_access")
                \/ /\ ReqInv' /\ Others(h)
                   /\ WritesElsewhere
                   /\ disk' = disk \/ disk' = live'
                   /\ At(h)' = "insert_refresh" /\ req'[h].pc = "insert_refresh"
                   /\ req'[h].t = req[h].t /\ req'[h].g = g /\ req'[h].n = n
             /\ UNCHANGED <<env, minted, pages, served, known, spent, decided, ended>>
  <1> DEFINE g == req[h].g
             n == issued[g] + 1
             db == [live EXCEPT !.access = @ \cup {<<g, n>>}]
             q == [req[h] EXCEPT !.n = n]
             r == [q EXCEPT !.pc = "insert_refresh"]
  <1>1. /\ req[h].pc = "insert_access" /\ ReqInv /\ n \in Pair
        /\ issued' = [issued EXCEPT ![g] = n]
        /\ \/ Answer(h)
           \/ /\ live' = db /\ (disk' = disk \/ disk' = live')
              /\ req' = [req EXCEPT ![h] = r]
        /\ UNCHANGED <<env, minted, pages, served, known, spent, decided, ended>>
    BY DEF InsertAccess, ExecMore, TypeInv
  <1>2. At(h) = "insert_access" /\ g \in Grant
    BY <1>1 DEF ReqInv, Equipped, At, Spot
  <1>3. n \in Nat
    BY <1>1, BoundAssumption DEF Pair
  <1>4. r \in RequestRow /\ r.t = req[h].t /\ r.g = g /\ r.n = n /\ r.pc = "insert_refresh"
    <2> HIDE DEF n
    <2>1. q \in RequestRow /\ q.t = req[h].t /\ q.g = g /\ q.n = n
      BY <1>1, <1>3 DEF ReqInv, RequestRow
    <2> HIDE DEF q
    <2> QED
      BY <2>1 DEF RequestRow
  <1>5. Spot(r) = "insert_refresh"
    BY <1>4 DEF Spot
  <1>6. Equipped(r, "insert_refresh")
    BY <1>1, <1>2, <1>4 DEF Equipped
  <1>7. CASE Answer(h)
    BY <1>1, <1>2, <1>7, Answers
  <1>8. CASE live' = db /\ (disk' = disk \/ disk' = live') /\ req' = [req EXCEPT ![h] = r]
    <2> HIDE DEF r
    <2>1. /\ ReqInv' /\ req'[h] = r
          /\ \A k \in Handler \ {h} : req'[k] = req[k] /\ At(k)' = At(k)
      <3>1. ReqInv
        BY <1>1
      <3> HIDE DEF db, n, g
      <3> QED
        BY <1>4, <1>5, <1>6, <1>8, <3>1, MoveType
    <2>2. At(h)' = "insert_refresh"
      BY <1>5, <2>1 DEF At
    <2>3. WritesElsewhere
      BY <1>1, <1>2, <1>8, OtherWritten
    <2> QED
      BY <1>1, <1>2, <1>4, <1>8, <2>1, <2>2, <2>3 DEF Others
  <1> QED
    BY <1>1, <1>7, <1>8

\* The refresh token of the pair is inserted unstamped.
LEMMA InsertRefreshEffect ==
  ASSUME TypeInv, NEW h \in Handler, InsertRefresh(h)
  PROVE  LET g == req[h].g
         IN  /\ g \in Grant /\ req[h].n \in Pair
             /\ \/ AnswerStep(h, "insert_refresh")
                \/ /\ ExecStep(h, "insert_refresh", "tokens") /\ Keeps(h)
                   /\ WritesRefreshes([live.refresh EXCEPT ![g][req[h].n] = [by |-> None]])
             /\ UNCHANGED <<env, history>>
  <1> DEFINE g == req[h].g
             db == [live EXCEPT !.refresh[g][req[h].n] = [by |-> None]]
  <1>1. /\ req[h].pc = "insert_refresh" /\ ReqInv
        /\ Answer(h) \/ Exec(h, db, req[h], "tokens")
        /\ UNCHANGED <<env, history>>
    BY DEF InsertRefresh, TypeInv
  <1>2. g \in Grant /\ req[h].n \in Pair
    BY <1>1 DEF ReqInv, Equipped, At, Spot
  <1>3. Equipped(req[h], "tokens")
    BY <1>2 DEF Equipped
  <1>4. \/ AnswerStep(h, "insert_refresh")
        \/ ExecStep(h, "insert_refresh", "tokens") /\ Keeps(h) /\ live' = db
    <2> HIDE DEF db
    <2> QED
      BY <1>1, <1>3, Answers, ExecOwn
  <1> DEFINE new == [by |-> None]
  <1>5. new \in [by : Handler \cup {None}] /\ db = [live EXCEPT !.refresh[g][req[h].n] = new]
    OBVIOUS
  <1> HIDE DEF new, db
  <1>6. live' = db => WritesRefreshes([live.refresh EXCEPT ![g][req[h].n] = new])
    BY <1>2, <1>5, RefreshRowWritten
  <1> QED
    BY <1>1, <1>2, <1>4, <1>6 DEF new

\* The pair is handed out, or the answer is lost.
LEMMA TokensEffect ==
  ASSUME TypeInv, NEW h \in Handler, Tokens(h)
  PROVE  /\ AnswerStep(h, "tokens")
         /\ req[h].g \in Grant /\ req[h].n \in Pair
         /\ known' = known \/ known' = known \cup {<<req[h].g, req[h].n>>}
         /\ UNCHANGED <<env, minted, pages, served, spent, issued, decided, ended>>
  <1>1. req[h].pc = "tokens" /\ ReqInv
    BY DEF Tokens, TypeInv
  <1>2. req[h].g \in Grant /\ req[h].n \in Pair
    BY <1>1 DEF ReqInv, Equipped, At, Spot
  <1> QED
    BY <1>1, <1>2, Answers DEF Tokens

\* Verifying a token, disabling and allowing the client touch no grant.
LEMMA ClientEffect ==
  ASSUME TypeInv, NEW h \in Handler,
         \/ \E g \in Grant, n \in Pair : Verify(h, g, n)
         \/ DisableClient(h) \/ AllowClient(h)
  PROVE  /\ ExecStep(h, "idle", "answer") /\ req'[h].t = None /\ req'[h].g = None
         /\ WritesElsewhere
         /\ UNCHANGED <<ground, history>>
  <1>1. /\ req[h].pc = "idle" /\ ReqInv
        /\ UNCHANGED <<ground, history>>
        /\ \E on \in BOOLEAN : Exec(h, [live EXCEPT !.on = on], Idle, "answer")
    <2>1. live = [live EXCEPT !.on = live.on] /\ live.on \in BOOLEAN
      BY DEF TypeInv, TypeOK, Database
    <2>2. CASE \E g \in Grant, n \in Pair : Verify(h, g, n)
      <3>1. Exec(h, live, Idle, "answer")
        BY <2>2 DEF Verify
      <3>2. Exec(h, [live EXCEPT !.on = live.on], Idle, "answer")
        BY <2>1, <3>1
      <3> QED
        BY <2>1, <2>2, <3>2 DEF Verify, Accept, TypeInv
    <2>3. CASE DisableClient(h)
      BY <2>3 DEF DisableClient, Accept, TypeInv
    <2>4. CASE AllowClient(h)
      BY <2>4 DEF AllowClient, Accept, TypeInv
    <2> QED
      BY <2>2, <2>3, <2>4
  <1>2. PICK on \in BOOLEAN : Exec(h, [live EXCEPT !.on = on], Idle, "answer")
    BY <1>1
  <1> DEFINE db == [live EXCEPT !.on = on]
  <1>3. Exec(h, db, Idle, "answer")
    BY <1>2
  <1> HIDE DEF db
  <1>4. /\ ExecStep(h, "idle", "answer") /\ req'[h].t = None /\ req'[h].g = None
        /\ live' = db
    BY <1>1, <1>3, ExecEnd
  <1>5. WritesElsewhere
    BY <1>4, OtherWritten DEF db
  <1> QED
    BY <1>1, <1>4, <1>5

\* A revocation starts for a grant that is there.
LEMMA StartRevokeEffect ==
  ASSUME TypeInv, NEW h \in Handler, NEW g \in Grant,
         RevokeGrant(h, g) \/ \E n \in Pair : RevokeByToken(h, g, n)
  PROVE  /\ GotoStep(h, "idle", "revoke") /\ req'[h].t = None /\ req'[h].g = g
         /\ live.grant[g] # None
         /\ UNCHANGED <<ground, history>>
  <1>1. /\ req[h].pc = "idle" /\ ReqInv /\ live.grant[g] # None
        /\ Goto(h, [Idle EXCEPT !.g = g], "revoke")
        /\ UNCHANGED <<ground, history>>
    BY DEF RevokeGrant, RevokeByToken, Accept, TypeInv
  <1> QED
    BY <1>1, GotoGrant

\* revoke_grant marks its grant and no other.
LEMMA RevokeEffect ==
  ASSUME TypeInv, NEW h \in Handler, Revoke(h)
  PROVE  LET g == req[h].g
         IN  /\ ExecStep(h, "revoke", "revoked") /\ Keeps(h)
             /\ g \in Grant
             /\ \/ live.grant[g] = None /\ live' = live
                \/ /\ live.grant[g] # None
                   /\ WritesGrants([live.grant EXCEPT ![g] = [live.grant[g] EXCEPT !.revoked = TRUE]])
             /\ UNCHANGED <<env, history>>
  <1> DEFINE g == req[h].g
             db == IF live.grant[g] = None THEN live
                   ELSE [live EXCEPT !.grant[g].revoked = TRUE]
  <1>1. /\ req[h].pc = "revoke" /\ ReqInv /\ Exec(h, db, req[h], "revoked")
        /\ UNCHANGED <<env, history>>
    BY DEF Revoke, TypeInv
  <1>2. g \in Grant
    BY <1>1 DEF ReqInv, Equipped, At, Spot
  <1>3. Equipped(req[h], "revoked")
    BY <1>2 DEF Equipped
  <1>4. ExecStep(h, "revoke", "revoked") /\ Keeps(h) /\ live' = db
    <2> HIDE DEF db
    <2> QED
      BY <1>1, <1>3, ExecOwn
  <1> DEFINE new == [live.grant[g] EXCEPT !.revoked = TRUE]
  <1>5. \/ live.grant[g] = None /\ live' = live
        \/ live.grant[g] # None /\ live' = [live EXCEPT !.grant[g] = new]
    BY <1>4
  <1>6. live.grant[g] # None => new \in GrantRow
    BY <1>2, StayTyped DEF Grants, GrantRow
  <1> HIDE DEF new
  <1>7. \/ live.grant[g] = None /\ live' = live
        \/ live.grant[g] # None /\ WritesGrants([live.grant EXCEPT ![g] = new])
    BY <1>2, <1>5, <1>6, GrantRowWritten
  <1> QED
    BY <1>1, <1>2, <1>4, <1>7 DEF new

\* The answer of a revocation.
LEMMA RevokedEffect ==
  ASSUME TypeInv, NEW h \in Handler, Revoked(h)
  PROVE  /\ AnswerStep(h, "revoked") /\ req[h].pc = "revoked"
         /\ req[h].g \in Grant
         /\ ended' = ended \cup {req[h].g}
         /\ UNCHANGED <<env, minted, pages, served, known, spent, issued, decided>>
  <1>1. req[h].pc = "revoked" /\ ReqInv
    BY DEF Revoked, TypeInv
  <1>2. req[h].g \in Grant
    BY <1>1 DEF ReqInv, Equipped, At, Spot
  <1> QED
    BY <1>1, <1>2, Answers DEF Revoked

\* create_manual_grant inserts a grant under an id that nobody has.
LEMMA ManualGrantEffect ==
  ASSUME TypeInv, NEW h \in Handler, ManualGrant(h)
  PROVE  \E g \in Grant :
           /\ ExecStep(h, "idle", "manual_token") /\ req'[h].t = None /\ req'[h].g = g
           /\ WritesGrants([live.grant EXCEPT ![g] = [revoked |-> FALSE, txn |-> None]])
           /\ minted = {} /\ minted' = {g}
           /\ UNCHANGED <<ground, pages, served, known, spent, issued, decided, ended>>
  <1>1. PICK g \in Grant :
           /\ req[h].pc = "idle" /\ minted = {} /\ minted' = {g}
           /\ Exec(h, [live EXCEPT !.grant[g] = [revoked |-> FALSE, txn |-> None]],
                   [Idle EXCEPT !.g = g], "manual_token")
           /\ UNCHANGED <<ground, pages, served, known, spent, issued, decided, ended>>
    BY DEF ManualGrant, Accept
  <1> DEFINE db == [live EXCEPT !.grant[g] = [revoked |-> FALSE, txn |-> None]]
             r == [Idle EXCEPT !.g = g]
  <1>2. ReqInv /\ At(h) = "idle"
    BY <1>1 DEF TypeInv, At, Spot
  <1>3. r \in RequestRow /\ r.t = None /\ r.g = g
    BY IdleType DEF RequestRow, Idle
  <1>4. Equipped(r, "manual_token")
    BY <1>3 DEF Equipped
  <1>5. Exec(h, db, r, "manual_token")
    BY <1>1
  <1>6. /\ ExecStep(h, "idle", "manual_token") /\ req'[h].t = None /\ req'[h].g = g
        /\ live' = db
    <2> HIDE DEF r, db
    <2> QED
      BY <1>2, <1>3, <1>4, <1>5, ExecMove DEF ExecStep, Others
  <1> DEFINE new == [revoked |-> FALSE, txn |-> None]
  <1>7. new \in GrantRow /\ live' = [live EXCEPT !.grant[g] = new]
    BY <1>6 DEF GrantRow
  <1> HIDE DEF new
  <1>8. WritesGrants([live.grant EXCEPT ![g] = new])
    BY <1>7, GrantRowWritten
  <1> QED
    BY <1>1, <1>6, <1>8 DEF new

\* The access token of a manual grant.
LEMMA ManualTokenEffect ==
  ASSUME TypeInv, NEW h \in Handler, ManualToken(h)
  PROVE  LET g == req[h].g
         IN  /\ g \in Grant
             /\ \/ AnswerStep(h, "manual_token")
                \/ /\ ExecStep(h, "manual_token", "tokens")
                   /\ req'[h].t = req[h].t /\ req'[h].g = g
                   /\ WritesElsewhere
             /\ UNCHANGED <<env, history>>
  <1> DEFINE g == req[h].g
             db == [live EXCEPT !.access = @ \cup {<<g, 1>>}]
             r == [req[h] EXCEPT !.n = 1]
  <1>1. /\ req[h].pc = "manual_token" /\ ReqInv
        /\ Answer(h) \/ Exec(h, db, r, "tokens")
        /\ UNCHANGED <<env, history>>
    BY DEF ManualToken, TypeInv
  <1>2. g \in Grant /\ At(h) = "manual_token"
    BY <1>1 DEF ReqInv, Equipped, At, Spot
  <1>3. r \in RequestRow /\ r.t = req[h].t /\ r.g = g /\ r.n = 1
    BY <1>1 DEF ReqInv, RequestRow
  <1>4. Equipped(r, "tokens")
    BY <1>2, <1>3, BoundAssumption DEF Equipped, Pair
  <1>5. \/ AnswerStep(h, "manual_token")
        \/ /\ ExecStep(h, "manual_token", "tokens")
           /\ req'[h].t = req[h].t /\ req'[h].g = g /\ live' = db
    <2> HIDE DEF db, r
    <2> QED
      BY <1>1, <1>2, <1>3, <1>4, Answers, ExecMove DEF ExecStep, Others
  <1>6. live' = db => WritesElsewhere
    <2>1. 1 \in Pair
      BY BoundAssumption DEF Pair
    <2> QED
      BY <1>2, <2>1, OtherWritten
  <1> HIDE DEF db
  <1> QED
    BY <1>1, <1>2, <1>5, <1>6

\* A commit makes everybody's statements durable; the request goes on.
LEMMA CommitEffect ==
  ASSUME TypeInv, NEW h \in Handler, Commit(h)
  PROVE  /\ ReqInv' /\ Others(h)
         /\ live' = live /\ disk' = live'
         /\ req[h].pc = "commit"
         /\ \/ At(h) = "answer" /\ At(h)' = "idle" /\ req'[h].pc = "idle"
               /\ req'[h].t = None /\ req'[h].g = None
            \/ At(h)' = At(h) /\ req'[h].pc = At(h) /\ Keeps(h) /\ req'[h].hit = req[h].hit
         /\ UNCHANGED <<env, history>>
  <1> DEFINE q == [req[h] EXCEPT !.pc = req[h].then]
             r == [q EXCEPT !.then = "idle"]
  <1>1. /\ req[h].pc = "commit" /\ ReqInv /\ live' = live /\ disk' = live
        /\ req' = [req EXCEPT ![h] = IF req[h].then = "answer" THEN Idle ELSE r]
        /\ UNCHANGED <<env, history>>
    BY DEF Commit, TypeInv
  <1>2. At(h) = req[h].then /\ req[h] \in RequestRow /\ Equipped(req[h], At(h))
    BY <1>1 DEF ReqInv, At, Spot
  <1>3. CASE req[h].then = "answer"
    <2>1. Spot(Idle) = "idle" /\ Idle.t = None /\ Idle.g = None /\ Idle.pc = "idle"
      BY DEF Spot, Idle
    <2>2. req' = [req EXCEPT ![h] = Idle]
      BY <1>1, <1>3
    <2>3. /\ ReqInv' /\ req'[h] = Idle
          /\ \A k \in Handler \ {h} : req'[k] = req[k] /\ At(k)' = At(k)
      <3>1. ReqInv
        BY <1>1
      <3> QED
        BY <2>1, <2>2, <3>1, IdleType, MoveType
    <2>4. At(h)' = "idle"
      BY <2>1, <2>3 DEF At
    <2> QED
      BY <1>1, <1>2, <1>3, <2>1, <2>3, <2>4 DEF Others
  <1>4. CASE req[h].then # "answer"
    <2>1. /\ r \in RequestRow /\ r.t = req[h].t /\ r.g = req[h].g /\ r.n = req[h].n
          /\ r.hit = req[h].hit /\ r.pc = At(h)
      <3>1. /\ q \in RequestRow /\ q.t = req[h].t /\ q.g = req[h].g /\ q.n = req[h].n
            /\ q.hit = req[h].hit /\ q.pc = req[h].then
        BY <1>2 DEF RequestRow
      <3> HIDE DEF q
      <3> QED
        BY <1>2, <3>1 DEF RequestRow
    <2>2. At(h) \in Place
      BY <1>2 DEF RequestRow
    <2>3. Spot(r) = At(h)
      BY <2>1, <2>2 DEF Spot
    <2>4. Equipped(r, At(h))
      BY <1>2, <2>1 DEF Equipped
    <2>5. req' = [req EXCEPT ![h] = r]
      BY <1>1, <1>4
    <2> HIDE DEF r
    <2>6. /\ ReqInv' /\ req'[h] = r
          /\ \A k \in Handler \ {h} : req'[k] = req[k] /\ At(k)' = At(k)
      BY <1>1, <2>1, <2>3, <2>4, <2>5, MoveType
    <2>7. At(h)' = At(h)
      BY <2>3, <2>6 DEF At
    <2> QED
      BY <1>1, <2>1, <2>6, <2>7 DEF Others, Keeps
  <1> QED
    BY <1>3, <1>4

\* A restart finds the durable database and no requests.
LEMMA CrashEffect ==
  ASSUME TypeInv, Crash
  PROVE  /\ ReqInv'
         /\ live' = disk /\ disk' = disk
         /\ \A h \in Handler : /\ At(h)' = "idle" /\ req'[h].pc = "idle"
                               /\ req'[h].t = None /\ req'[h].g = None
         /\ UNCHANGED <<dialect, old, erased, requests, history>>
  <1>1. /\ live' = disk /\ disk' = disk /\ req' = [h \in Handler |-> Idle]
        /\ UNCHANGED <<dialect, old, erased, requests, history>>
    BY DEF Crash
  <1>2. Spot(Idle) = "idle" /\ Idle.t = None /\ Idle.g = None /\ Idle.pc = "idle"
    BY DEF Spot, Idle
  <1>3. \A h \in Handler : req'[h] = Idle /\ At(h)' = "idle"
    BY <1>1, <1>2 DEF At
  <1>4. ReqInv'
    BY <1>1, <1>3, IdleType DEF ReqInv
  <1> QED
    BY <1>1, <1>2, <1>3, <1>4

\* Steps of the environment move no request.
LEMMA StillEffect ==
  ASSUME ReqInv, req' = req
  PROVE  ReqInv' /\ \A h \in Handler : At(h)' = At(h)
  BY DEF ReqInv, At

-----------------------------------------------------------------------------
StoreOK ==
    /\ dialect \in Dialects
    /\ live \in Database
    /\ disk \in Database
    /\ block \in 0..2 /\ old \subseteq Txn \cup Grant /\ faults \in 0..MaxFaults
    /\ block > 0 => faults < MaxFaults
    /\ erased \in BOOLEAN /\ requests \in 0..MaxRequests
    /\ minted \subseteq Txn \cup Grant
    /\ pages \in [Txn -> 0..MaxPages] /\ served \subseteq Txn \X (1..MaxPages)
    /\ known \subseteq Cred
    /\ spent \in [Grant -> Nat] /\ issued \in [Grant -> 0..MaxPairs]
    /\ decided \in [Txn -> Nat] /\ ended \subseteq Grant

\* The types of the store and of the requests together are TypeInv.
LEMMA TypeParts ==
  /\ TypeInv => StoreOK /\ ReqInv
  /\ StoreOK' /\ ReqInv' => TypeInv'
  BY DEF TypeInv, TypeOK, StoreOK, ReqInv, RequestRow

\* Accepting a request stays within the bound on requests.
LEMMA AcceptCounts ==
  ASSUME StoreOK, NEW h \in Handler, Accept(h)
  PROVE  requests' \in 0..MaxRequests
  BY BoundAssumption DEF StoreOK, Accept

\* A request that starts keeps the store typed.
LEMMA StartKeeps ==
  ASSUME StoreOK, NEW h \in Handler, Accept(h), UNCHANGED <<ground, history>>,
         live' \in Database, disk' = disk \/ disk' = live'
  PROVE  StoreOK'
  BY AcceptCounts DEF StoreOK, ground, history

\* Every step of a request keeps the store typed.
LEMMA RequestStore ==
  ASSUME TypeInv, StoreOK, NEW h \in Handler, Request(h)
  PROVE  StoreOK'
  <1> USE DEF WritesTxns, WritesGrants, WritesRefreshes, WritesElsewhere,
              ExecStep, GotoStep, AnswerStep, env, ground, history
  <1>0. live \in Database /\ disk \in Database
    BY DEF StoreOK
  <1>1. CASE Authorize(h)
    <2>1. PICK t \in (Txn \ minted) \cup {None}, next \in {"fetch", "purge"} :
           /\ GotoStep(h, "idle", next)
           /\ minted' = minted \cup ({t} \ {None})
           /\ UNCHANGED <<ground, pages, served, known, spent, issued, decided, ended>>
      BY <1>1, AuthorizeEffect
    <2>2. requests' \in 0..MaxRequests
      BY <1>1, AcceptCounts DEF Authorize
    <2> QED
      BY <2>1, <2>2 DEF StoreOK
  <1>2. CASE FetchDocument(h) \/ Purge(h) \/ Park(h)
    BY <1>2, FetchDocumentEffect, PurgeEffect, ParkEffect DEF StoreOK
  <1>3. ASSUME NEW t \in Txn, ConsentPage(h, t) PROVE StoreOK'
    <2>1. Accept(h)
      BY <1>3 DEF ConsentPage
    <2> QED
      BY <1>0, <1>3, <2>1, ConsentPageEffect, StartKeeps
  <1>4. CASE ArmConsent(h)
    <2>1. /\ req[h].t \in Txn /\ pages[req[h].t] < MaxPages
          /\ pages' = [pages EXCEPT ![req[h].t] = @ + 1]
      BY <1>4, ArmConsentEffect
    <2>2. pages' \in [Txn -> 0..MaxPages]
      BY <2>1, BoundAssumption DEF StoreOK
    <2> QED
      BY <1>4, <2>2, ArmConsentEffect DEF StoreOK
  <1>5. CASE ShowPage(h)
    BY <1>5, ShowPageEffect DEF StoreOK
  <1>6. ASSUME NEW t \in Txn, NEW k \in 1..MaxPages, NEW allow \in BOOLEAN,
               ConsentDecision(h, t, k, allow)
        PROVE  StoreOK'
    <2>1. Accept(h)
      BY <1>6 DEF ConsentDecision
    <2>2. live' = live /\ disk' = disk /\ UNCHANGED <<ground, history>>
      BY <1>6, ConsentDecisionEffect
    <2> QED
      BY <1>0, <2>1, <2>2, StartKeeps
  <1>7. CASE Claim(h) \/ Claimed(h) \/ Deny(h)
    BY <1>7, ClaimEffect, ClaimedEffect, DenyEffect DEF StoreOK
  <1>8. CASE InsertGrant(h)
    <2>1. PICK g \in Grant \ minted :
           /\ ExecStep(h, "grant", "mint") /\ live' \in Database
           /\ minted' = minted \cup {g}
           /\ UNCHANGED <<env, pages, served, known, spent, issued, decided, ended>>
      BY <1>8, InsertGrantEffect
    <2> QED
      BY <2>1 DEF StoreOK
  <1>9. CASE Mint(h)
    BY <1>9, MintEffect DEF StoreOK
  <1>10. CASE Allowed(h) \/ Denied(h)
    <2>1. CASE Allowed(h)
      <3>1. known' \subseteq Cred
        BY <2>1, AllowedEffect, BoundAssumption DEF StoreOK, Cred
      <3>2. decided' \in [Txn -> Nat]
        BY <2>1, AllowedEffect DEF StoreOK
      <3> QED
        BY <2>1, <3>1, <3>2, AllowedEffect DEF StoreOK
    <2>2. CASE Denied(h)
      BY <2>2, DeniedEffect DEF StoreOK
    <2> QED
      BY <1>10, <2>1, <2>2
  <1>11. ASSUME NEW g \in Grant, NEW owner \in BOOLEAN, ExchangeCode(h, g, owner) PROVE StoreOK'
    <2>1. Accept(h)
      BY <1>11 DEF ExchangeCode
    <2>2. live' = live /\ disk' = disk /\ UNCHANGED <<ground, history>>
      BY <1>11, ExchangeCodeEffect
    <2> QED
      BY <1>0, <2>1, <2>2, StartKeeps
  <1>12. CASE ConsumeCode(h) \/ ReadCodeMark(h)
    BY <1>12, ConsumeCodeEffect, ReadCodeMarkEffect DEF StoreOK
  <1>13. CASE RedeemCode(h)
    BY <1>13, RedeemCodeEffect DEF StoreOK
  <1>14. ASSUME NEW g \in Grant, NEW n \in Pair, NEW owner \in BOOLEAN,
                ExchangeRefresh(h, g, n, owner)
         PROVE  StoreOK'
    <2>1. Accept(h)
      BY <1>14 DEF ExchangeRefresh
    <2>2. live' = live /\ disk' = disk /\ UNCHANGED <<ground, history>>
      BY <1>14, ExchangeRefreshEffect
    <2> QED
      BY <1>0, <2>1, <2>2, StartKeeps
  <1>15. CASE ReadRefresh(h) \/ ConsumeRefresh(h) \/ ReadRefreshAgain(h) \/ IssueRead(h)
              \/ InsertRefresh(h)
    BY <1>15, ReadRefreshEffect, ConsumeRefreshEffect, ReadRefreshAgainEffect, IssueReadEffect,
       InsertRefreshEffect DEF StoreOK
  <1>16. CASE RedeemRefresh(h)
    BY <1>16, RedeemRefreshEffect DEF StoreOK
  <1>17. CASE InsertAccess(h)
    BY <1>17, InsertAccessEffect, BoundAssumption DEF StoreOK, Pair
  <1>18. CASE Tokens(h)
    BY <1>18, TokensEffect DEF StoreOK, Cred, Pair
  <1>19. CASE (\E g \in Grant, n \in Pair : Verify(h, g, n)) \/ DisableClient(h) \/ AllowClient(h)
    <2>1. Accept(h)
      BY <1>19 DEF Verify, DisableClient, AllowClient
    <2>2. /\ live' \in Database /\ (disk' = disk \/ disk' = live')
          /\ UNCHANGED <<ground, history>>
      BY <1>19, ClientEffect
    <2> QED
      BY <2>1, <2>2, StartKeeps
  <1>20. ASSUME NEW g \in Grant, RevokeGrant(h, g) \/ \E n \in Pair : RevokeByToken(h, g, n)
         PROVE  StoreOK'
    <2>1. Accept(h)
      BY <1>20 DEF RevokeGrant, RevokeByToken
    <2>2. live' = live /\ disk' = disk /\ UNCHANGED <<ground, history>>
      BY <1>20, StartRevokeEffect
    <2> QED
      BY <1>0, <2>1, <2>2, StartKeeps
  <1>21. CASE Revoke(h) \/ Revoked(h)
    BY <1>21, RevokeEffect, RevokedEffect DEF StoreOK
  <1>22. CASE ManualGrant(h)
    <2>1. PICK g \in Grant :
           /\ ExecStep(h, "idle", "manual_token") /\ live' \in Database
           /\ minted' = {g}
           /\ UNCHANGED <<ground, pages, served, known, spent, issued, decided, ended>>
      BY <1>22, ManualGrantEffect
    <2>2. requests' \in 0..MaxRequests
      BY <1>22, AcceptCounts DEF ManualGrant
    <2> QED
      BY <2>1, <2>2 DEF StoreOK
  <1>23. CASE ManualToken(h)
    BY <1>23, ManualTokenEffect DEF StoreOK
  <1>24. CASE Commit(h)
    BY <1>24, CommitEffect DEF StoreOK
  <1>25. CASE Consent(h)
    BY <1>3, <1>4, <1>5, <1>6, <1>7, <1>8, <1>9, <1>10, <1>25 DEF Consent
  <1>26. CASE TokenEndpoint(h)
    BY <1>11, <1>12, <1>13, <1>14, <1>15, <1>16, <1>17, <1>18, <1>26 DEF TokenEndpoint
  <1>27. CASE Administration(h)
    BY <1>19, <1>20, <1>21, <1>22, <1>23, <1>27 DEF Administration
  <1> QED
    BY <1>1, <1>2, <1>19, <1>24, <1>25, <1>26, <1>27 DEF Request

\* Every step of a request keeps the requests typed, and moves one of them.
LEMMA RequestReq ==
  ASSUME TypeInv, NEW h \in Handler, Request(h)
  PROVE  ReqInv' /\ Others(h)
  <1> USE DEF ExecStep, GotoStep, AnswerStep
  <1>1. CASE Authorize(h) \/ FetchDocument(h) \/ Purge(h) \/ Park(h)
    BY <1>1, AuthorizeEffect, FetchDocumentEffect, PurgeEffect, ParkEffect
  <1>2. CASE Consent(h)
    <2>1. ASSUME NEW t \in Txn, NEW k \in 1..MaxPages, NEW allow \in BOOLEAN,
                 ConsentDecision(h, t, k, allow)
          PROVE  ReqInv' /\ Others(h)
      BY <2>1, ConsentDecisionEffect
    <2>2. CASE (\E t \in Txn : ConsentPage(h, t)) \/ ArmConsent(h) \/ ShowPage(h)
      BY <2>2, ConsentPageEffect, ArmConsentEffect, ShowPageEffect
    <2>3. CASE Claim(h) \/ Claimed(h) \/ Deny(h) \/ Denied(h)
      BY <2>3, ClaimEffect, ClaimedEffect, DenyEffect, DeniedEffect
    <2>4. CASE InsertGrant(h) \/ Mint(h) \/ Allowed(h)
      BY <2>4, InsertGrantEffect, MintEffect, AllowedEffect
    <2> QED
      BY <1>2, <2>1, <2>2, <2>3, <2>4 DEF Consent
  <1>3. CASE TokenEndpoint(h)
    <2>1. ASSUME NEW g \in Grant, NEW owner \in BOOLEAN, ExchangeCode(h, g, owner)
          PROVE  ReqInv' /\ Others(h)
      BY <2>1, ExchangeCodeEffect
    <2>2. ASSUME NEW g \in Grant, NEW n \in Pair, NEW owner \in BOOLEAN,
                 ExchangeRefresh(h, g, n, owner)
          PROVE  ReqInv' /\ Others(h)
      BY <2>2, ExchangeRefreshEffect
    <2>3. CASE ConsumeCode(h) \/ ReadCodeMark(h) \/ RedeemCode(h)
      BY <2>3, ConsumeCodeEffect, ReadCodeMarkEffect, RedeemCodeEffect
    <2>4. CASE ReadRefresh(h) \/ ConsumeRefresh(h) \/ RedeemRefresh(h) \/ ReadRefreshAgain(h)
      BY <2>4, ReadRefreshEffect, ConsumeRefreshEffect, RedeemRefreshEffect,
         ReadRefreshAgainEffect
    <2>5. CASE IssueRead(h) \/ InsertAccess(h) \/ InsertRefresh(h) \/ Tokens(h)
      BY <2>5, IssueReadEffect, InsertAccessEffect, InsertRefreshEffect, TokensEffect
    <2> QED
      BY <1>3, <2>1, <2>2, <2>3, <2>4, <2>5 DEF TokenEndpoint
  <1>4. CASE Administration(h) \/ \E g \in Grant, n \in Pair : Verify(h, g, n)
    BY <1>4, ClientEffect, StartRevokeEffect, RevokeEffect, RevokedEffect, ManualGrantEffect,
       ManualTokenEffect DEF Administration
  <1>5. CASE Commit(h)
    BY <1>5, CommitEffect
  <1> QED
    BY <1>1, <1>2, <1>3, <1>4, <1>5 DEF Request

\* TypeInv is inductive.
LEMMA TypeStep ==
  ASSUME TypeInv, [Next]_vars
  PROVE  TypeInv'
  <1>0. StoreOK /\ ReqInv
    BY TypeParts
  <1>1. ASSUME NEW h \in Handler, Request(h) PROVE StoreOK' /\ ReqInv'
    <2>1. StoreOK'
      BY <1>0, <1>1, RequestStore
    <2> QED
      BY <2>1, <1>1, RequestReq
  <1>2. CASE BlockWrite \/ BlockCommit \/ BlockRollback \/ \E x \in Txn \cup Grant : Expire(x)
    <2>1. req' = req
      BY <1>2 DEF BlockWrite, BlockCommit, BlockRollback, Expire
    <2>2. StoreOK'
      <3>1. CASE BlockWrite
        BY <1>0, <3>1 DEF BlockWrite, StoreOK, history
      <3>2. CASE BlockCommit
        BY <1>0, <3>2 DEF BlockCommit, StoreOK, history
      <3>3. CASE BlockRollback
        <4>1. erased' \in BOOLEAN
          BY <3>3, Zenon DEF BlockRollback
        <4>2. live' \in Database /\ faults' \in 0..MaxFaults /\ block' = 0
          BY <1>0, <3>3, BoundAssumption DEF BlockRollback, StoreOK
        <4> QED
          BY <1>0, <3>3, <4>1, <4>2 DEF BlockRollback, StoreOK, history
      <3>4. CASE \E x \in Txn \cup Grant : Expire(x)
        BY <1>0, <3>4 DEF Expire, StoreOK, history
      <3> QED
        BY <1>2, <3>1, <3>2, <3>3, <3>4
    <2> QED
      BY <1>0, <2>1, <2>2, StillEffect, TypeParts
  <1>3. CASE Crash
    <2>1. StoreOK'
      BY <1>0, <1>3, BoundAssumption DEF Crash, StoreOK, history
    <2> QED
      BY <1>3, <2>1, CrashEffect, TypeParts
  <1>4. CASE UNCHANGED vars
    <2>1. StoreOK'
      BY <1>0, <1>4 DEF vars, StoreOK
    <2>2. ReqInv'
      BY <1>0, <1>4, StillEffect DEF vars
    <2> QED
      BY <2>1, <2>2, TypeParts
  <1> QED
    BY <1>0, <1>1, <1>2, <1>3, <1>4, TypeParts DEF Next

=============================================================================
