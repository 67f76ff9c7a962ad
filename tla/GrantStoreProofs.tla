-------------------------- MODULE GrantStoreProofs --------------------------
(***************************************************************************)
(* Proofs about GrantStore: that it implements the chain of one-time       *)
(* credentials (GrantChain), that an answered revocation lasts, and that a *)
(* consent request is decided once, for every number of requests, grants,  *)
(* transactions, failing blocks and restarts.  The parts of the inductive  *)
(* invariant come first; a part is about both databases, what statements   *)
(* see and what a restart or a rollback would bring back.                  *)
(***************************************************************************)
EXTENDS GrantStoreSteps

USE DEF Place, TxnPlace, GrantPlace, CodePlace, PairPlace, ParkPlace

\* Whatever a table, a request, a client or a count names was minted.
FreshInv ==
    /\ \A h \in Handler : req[h].g \in minted \cup {None} /\ req[h].t \in minted \cup {None}
    /\ \A db \in {live, disk} : \A g \in Grant : db.grant[g] # None => g \in minted
    /\ \A db \in {live, disk} : \A t \in Txn :
          db.txn[t] # None => t \in minted /\ db.txn[t].grant \in minted \cup {None}
    /\ \A c \in known : c[1] \in minted
    /\ ended \subseteq minted
    /\ \A g \in Grant : spent[g] > 0 => g \in minted
    /\ \A t \in Txn : decided[t] > 0 => t \in minted

\* No request is about to write the code of g.
NotMinting(g) == \A h \in Handler : At(h) = "mint" => req[h].g # g

HasCode(db, t, g) == db.txn[t] # None /\ db.txn[t].grant = g

\* A grant whose code is about to be written is nobody else's.
Unused(h) ==
    At(h) = "mint" =>
      /\ spent[req[h].g] = 0
      /\ \A db \in {live, disk} : \A t \in Txn : ~HasCode(db, t, req[h].g)
      /\ \A c \in known : c[1] # req[h].g
      /\ \A k \in Handler \ {h} : req[k].g = req[h].g => At(k) \in {"revoke", "revoked"}

\* A code is in one row, whatever a restart or a rollback brings back.
OneRow ==
    \A d1, d2 \in {live, disk} : \A g \in Grant : \A t1, t2 \in Txn :
      HasCode(d1, t1, g) /\ HasCode(d2, t2, g) => t1 = t2

MintInv == OneRow /\ \A h \in Handler : Unused(h)

\* A code that was redeemed stays stamped.
SpentCode(g) ==
    \A db \in {live, disk} : \A t \in Txn :
      spent[g] > 0 /\ HasCode(db, t, g) => db.txn[t].by # None

\* A stamp counts for a code that is not redeemed yet, once it is durable,
\* and the exchange that read its own stamp is the only one.
CodeOwn(h) ==
    /\ At(h) = "read_code_mark" /\ req[h].hit /\ spent[req[h].g] > 0 =>
          \A db \in {live, disk} : \A t \in Txn : HasCode(db, t, req[h].g) => db.txn[t].by # h
    /\ req[h].pc = "read_code_mark" /\ req[h].hit =>
          \A t \in Txn : HasCode(live, t, req[h].g) /\ live.txn[t].by = h
                            => HasCode(disk, t, req[h].g) /\ disk.txn[t].by = h
    /\ At(h) = "read_code" /\ req[h].hit =>
          /\ spent[req[h].g] = 0
          /\ \A db \in {live, disk} : \A t \in Txn : HasCode(db, t, req[h].g) => db.txn[t].by = h

CodeInv == (\A g \in Grant : SpentCode(g)) /\ \A h \in Handler : CodeOwn(h)

\* Pairs are numbered as they are minted; all but the last one are stamped.
RefreshRow(g, n) ==
    \A db \in {live, disk} : db.refresh[g][n] # None =>
      n <= issued[g] /\ (n < spent[g] => db.refresh[g][n].by # None)

\* A stamp counts for the last pair only, once it is durable.
RefreshOwn(h) ==
    /\ At(h) = "read_refresh_mark" /\ req[h].hit /\ req[h].n < spent[req[h].g] =>
          \A db \in {live, disk} : db.refresh[req[h].g][req[h].n] # None =>
                                     db.refresh[req[h].g][req[h].n].by # h
    /\ /\ req[h].pc = "read_refresh_mark" /\ req[h].hit
       /\ live.refresh[req[h].g][req[h].n] # None
       /\ live.refresh[req[h].g][req[h].n].by = h
       => /\ disk.refresh[req[h].g][req[h].n] # None
          /\ disk.refresh[req[h].g][req[h].n].by = h

RefreshInv == (\A g \in Grant, n \in Pair : RefreshRow(g, n)) /\ \A h \in Handler : RefreshOwn(h)

\* One request mints the pair of a redemption.
IssueOwn(h) ==
    /\ At(h) \in {"issue", "insert_access"} =>
          /\ spent[req[h].g] = issued[req[h].g] + 1
          /\ \A k \in Handler : At(k) \in {"issue", "insert_access"} /\ req[k].g = req[h].g => k = h
    /\ At(h) = "insert_refresh" =>
          /\ req[h].n = issued[req[h].g]
          /\ spent[req[h].g] = issued[req[h].g]
          /\ \A db \in {live, disk} : db.refresh[req[h].g][req[h].n] = None
          /\ \A k \in Handler : At(k) = "insert_refresh" /\ req[k].g = req[h].g => k = h

IssueInv == (\A g \in Grant : issued[g] <= spent[g]) /\ \A h \in Handler : IssueOwn(h)

\* The grant is not there, or it is revoked.
Gone(db, g) == db.grant[g] = None \/ db.grant[g].revoked

\* A revocation that is on its way is seen, and durable before its answer.
RevInv ==
    erased \/
      /\ \A g \in ended : Gone(live, g) /\ Gone(disk, g)
      /\ \A h \in Handler : At(h) = "revoked" =>
            /\ Gone(live, req[h].g)
            /\ req[h].pc = "revoked" => Gone(disk, req[h].g)

\* A transaction that is not parked yet is known to its request only.
ParkInv ==
    \A h \in Handler : At(h) \in ParkPlace /\ req[h].t # None =>
          /\ \A db \in {live, disk} : db.txn[req[h].t] = None
          /\ decided[req[h].t] = 0
          /\ \A k \in Handler \ {h} : req[k].t # req[h].t

\* The row of t cannot be claimed any more; the request whose update hit it.
Settled(db, t) == db.txn[t] = None \/ db.txn[t].approved \/ db.txn[t].by # None
Decider(h) ==
    \/ At(h) \in {"grant", "mint", "allowed"}
    \/ At(h) \in {"claimed", "denied"} /\ req[h].hit

\* One request decides a transaction, and its row is settled before anybody
\* hears of it.
DecideInv ==
    erased \/
      /\ \A h \in Handler : Decider(h) =>
            /\ decided[req[h].t] = 0
            /\ Settled(live, req[h].t)
            /\ req[h].pc # "commit" => Settled(disk, req[h].t)
            /\ \A k \in Handler : Decider(k) /\ req[k].t = req[h].t => k = h
      /\ \A t \in Txn : /\ decided[t] <= 1
                        /\ decided[t] = 1 => Settled(live, t) /\ Settled(disk, t)

-----------------------------------------------------------------------------
(* Revocations                                                             *)

\* A request that neither creates, revokes nor answers for a grant.
LEMMA GrantRowsKept ==
  ASSUME TypeInv, NEW h \in Handler, Request(h),
         ~(InsertGrant(h) \/ ManualGrant(h) \/ Revoke(h) \/ Revoked(h) \/ Commit(h))
  PROVE  /\ live'.grant = live.grant /\ (disk' = disk \/ disk' = live')
         /\ ended' = ended /\ erased' = erased
         /\ At(h)' # "revoked" /\ Others(h)
  <1> USE DEF ExecStep, GotoStep, AnswerStep, WritesTxns, WritesRefreshes, WritesElsewhere,
              env, ground, history
  <1>1. CASE Authorize(h) \/ FetchDocument(h) \/ Purge(h) \/ Park(h)
    BY <1>1, AuthorizeEffect, FetchDocumentEffect, PurgeEffect, ParkEffect
  <1>2. CASE Consent(h)
    <2>1. ASSUME NEW t \in Txn, NEW k \in 1..MaxPages, NEW allow \in BOOLEAN,
                 ConsentDecision(h, t, k, allow)
          PROVE  live' = live /\ disk' = disk /\ ended' = ended /\ erased' = erased
                 /\ At(h)' # "revoked" /\ Others(h)
      BY <2>1, ConsentDecisionEffect
    <2>2. CASE (\E t \in Txn : ConsentPage(h, t)) \/ ArmConsent(h) \/ ShowPage(h)
      BY <2>2, ConsentPageEffect, ArmConsentEffect, ShowPageEffect
    <2>3. CASE Claim(h) \/ Claimed(h) \/ Deny(h) \/ Denied(h)
      BY <2>3, ClaimEffect, ClaimedEffect, DenyEffect, DeniedEffect
    <2>4. CASE Mint(h) \/ Allowed(h)
      BY <2>4, MintEffect, AllowedEffect
    <2> QED
      BY <1>2, <2>1, <2>2, <2>3, <2>4 DEF Consent
  <1>3. CASE TokenEndpoint(h)
    <2>1. ASSUME NEW g \in Grant, NEW owner \in BOOLEAN, ExchangeCode(h, g, owner)
          PROVE  live' = live /\ disk' = disk /\ ended' = ended /\ erased' = erased
                 /\ At(h)' # "revoked" /\ Others(h)
      BY <2>1, ExchangeCodeEffect
    <2>2. ASSUME NEW g \in Grant, NEW n \in Pair, NEW owner \in BOOLEAN,
                 ExchangeRefresh(h, g, n, owner)
          PROVE  live' = live /\ disk' = disk /\ ended' = ended /\ erased' = erased
                 /\ At(h)' # "revoked" /\ Others(h)
      BY <2>2, ExchangeRefreshEffect
    <2>3. CASE ConsumeCode(h) \/ ReadCodeMark(h) \/ RedeemCode(h)
      BY <2>3, ConsumeCodeEffect, ReadCodeMarkEffect, RedeemCodeEffect
    <2>4. CASE ReadRefresh(h) \/ ConsumeRefresh(h) \/ RedeemRefresh(h) \/ ReadRefreshAgain(h)
      BY <2>4, ReadRefreshEffect, ConsumeRefreshEffect, RedeemRefreshEffect,
         ReadRefreshAgainEffect
    <2>5. CASE IssueRead(h) \/ InsertAccess(h) \/ InsertRefresh(h) \/ Tokens(h)
      BY <2>5, IssueReadEffect, InsertAccessEffect, InsertRefreshEffect, TokensEffect
    <2> QED
      BY <1>3, <2>1, <2>2, <2>3, <2>4, <2>5 DEF TokenEndpoint
  <1>4. CASE Administration(h) \/ \E g \in Grant, n \in Pair : Verify(h, g, n)
    BY <1>4, ClientEffect, StartRevokeEffect, ManualTokenEffect DEF Administration
  <1> QED
    BY <1>1, <1>2, <1>3, <1>4 DEF Request

\* RevInv is inductive: nothing takes a revocation back but a rollback.
LEMMA RevStep ==
  ASSUME TypeInv, TypeInv', FreshInv, RevInv, [Next]_vars
  PROVE  RevInv'
  <1> USE DEF ExecStep, GotoStep, AnswerStep
  <1>0. /\ live.grant \in Grants /\ ended \subseteq Grant
        /\ \A h \in Handler : At(h) = "revoked" => req[h].g \in Grant
    BY StayTyped DEF TypeInv, TypeOK, ReqInv, Equipped
  <1>1. ASSUME NEW h \in Handler, Request(h) PROVE RevInv'
    <2>1. CASE ~(InsertGrant(h) \/ ManualGrant(h) \/ Revoke(h) \/ Revoked(h) \/ Commit(h))
      <3>1. /\ live'.grant = live.grant /\ (disk' = disk \/ disk' = live')
            /\ ended' = ended /\ erased' = erased
            /\ At(h)' # "revoked" /\ Others(h)
        BY <1>1, <2>1, GrantRowsKept
      <3> QED
        BY <3>1 DEF RevInv, Gone, Others
    <2>2. ASSUME NEW g \in Grant, g \notin minted, NEW row,
                 WritesGrants([live.grant EXCEPT ![g] = row]),
                 disk' = disk \/ disk' = live', ended' = ended, erased' = erased,
                 At(h)' # "revoked", Others(h)
          PROVE  RevInv'
      <3>1. g \notin ended /\ \A k \in Handler : At(k) = "revoked" => req[k].g # g
        BY <1>0, <2>2, NameAssumption DEF FreshInv
      <3>2. \A x \in Grant \ {g} : live'.grant[x] = live.grant[x]
        BY <1>0, <2>2 DEF WritesGrants, Grants
      <3> QED
        BY <1>0, <2>2, <3>1, <3>2 DEF RevInv, Gone, Others
    <2>3. CASE InsertGrant(h)
      <3>1. PICK g \in Grant \ minted :
              /\ ExecStep(h, "grant", "mint")
              /\ WritesGrants([live.grant EXCEPT ![g] = [revoked |-> FALSE, txn |-> req[h].t]])
              /\ ended' = ended /\ erased' = erased
        BY <2>3, InsertGrantEffect DEF env
      <3> QED
        BY <2>2, <3>1
    <2>4. CASE ManualGrant(h)
      <3>1. PICK g \in Grant :
              /\ ExecStep(h, "idle", "manual_token")
              /\ WritesGrants([live.grant EXCEPT ![g] = [revoked |-> FALSE, txn |-> None]])
              /\ minted = {} /\ ended' = ended /\ erased' = erased
        BY SMTT(30), <2>4, ManualGrantEffect DEF ground
      <3> QED
        BY <2>2, <3>1
    <2>5. CASE Revoke(h)
      <3> DEFINE g == req[h].g
      <3>1. /\ ExecStep(h, "revoke", "revoked") /\ g \in Grant /\ req'[h].g = g
            /\ ended' = ended /\ erased' = erased
            /\ \/ live.grant[g] = None /\ live' = live
               \/ /\ live.grant[g] # None
                  /\ WritesGrants([live.grant EXCEPT ![g] = [live.grant[g] EXCEPT !.revoked = TRUE]])
        BY <2>5, RevokeEffect DEF env, history, Keeps
      <3>2. \A x \in Grant : Gone(live, x) => Gone(live, x)'
        BY <1>0, <3>1 DEF WritesGrants, Grants, GrantRow, Gone
      <3>3. Gone(live, g)'
        BY <1>0, <3>1 DEF WritesGrants, Grants, GrantRow, Gone
      <3> QED
        BY <1>0, <3>1, <3>2, <3>3 DEF RevInv, Others, Gone
    <2>6. CASE Revoked(h)
      BY <1>0, <2>6, RevokedEffect DEF env, RevInv, Others, Gone
    <2>7. CASE Commit(h)
      BY <1>0, <2>7, CommitEffect DEF env, history, RevInv, Others, Keeps, Gone
    <2> QED
      BY <2>1, <2>3, <2>4, <2>5, <2>6, <2>7
  <1>2. CASE BlockWrite \/ BlockCommit \/ BlockRollback \/ \E x \in Txn \cup Grant : Expire(x)
    <2>1. req' = req /\ ended' = ended /\ (live' = live => disk' = disk \/ disk' = live')
      BY <1>2 DEF BlockWrite, BlockCommit, BlockRollback, Expire, history
    <2>2. erased' = (erased \/ live' # live)
      <3>1. CASE BlockRollback
        BY <3>1, Zenon DEF BlockRollback
      <3>2. CASE BlockWrite \/ BlockCommit \/ \E x \in Txn \cup Grant : Expire(x)
        <4>1. erased' = erased /\ live' = live /\ erased \in BOOLEAN
          BY <3>2 DEF BlockWrite, BlockCommit, Expire, TypeInv, TypeOK
        <4> QED
          BY <4>1, Zenon
      <3> QED
        BY <1>2, <3>1, <3>2
    <2>3. CASE erased' = TRUE
      BY <2>3 DEF RevInv
    <2>4. CASE ~erased' /\ live' = live
      BY <1>0, <2>1, <2>2, <2>4 DEF RevInv, Gone, At
    <2> QED
      BY <2>2, <2>3, <2>4, Zenon DEF TypeInv, TypeOK
  <1>3. CASE Crash
    BY <1>0, <1>3, CrashEffect DEF RevInv, history, Gone
  <1>4. CASE UNCHANGED vars
    BY <1>4 DEF vars, RevInv, Gone, At
  <1> QED
    BY <1>1, <1>2, <1>3, <1>4 DEF Next

-----------------------------------------------------------------------------
(* Ids: what the tables, the requests and the clients name was minted      *)

RowMinted(db, t) == db.txn[t] # None => t \in minted /\ db.txn[t].grant \in minted \cup {None}

\* A step of h that names minted ids only.
NamesMinted(h) ==
    /\ minted \subseteq minted' /\ Others(h)
    /\ req'[h].g \in minted' \cup {None} /\ req'[h].t \in minted' \cup {None}
    /\ disk' = disk \/ disk' = live'
    /\ \A g \in Grant : live'.grant[g] = None \/ live.grant[g] # None \/ g \in minted'
    /\ \A t \in Txn : RowMinted(live, t)'
    /\ \A c \in known' : c \in known \/ c[1] \in minted
    /\ \A g \in ended' : g \in ended \/ g \in minted
    /\ \A g \in Grant : spent'[g] = spent[g] \/ g \in minted
    /\ \A t \in Txn : decided'[t] = decided[t] \/ t \in minted

\* A step that names minted ids only preserves FreshInv.
LEMMA NamesMintedStep ==
  ASSUME FreshInv, NEW h \in Handler, NamesMinted(h)
  PROVE  FreshInv'
  <1>1. \A k \in Handler : req'[k].g \in minted' \cup {None} /\ req'[k].t \in minted' \cup {None}
    BY DEF FreshInv, NamesMinted, Others
  <1>2. \A db \in {live', disk'} : \A g \in Grant : db.grant[g] # None => g \in minted'
    BY DEF FreshInv, NamesMinted
  <1>3. \A db \in {live', disk'} : \A t \in Txn :
          db.txn[t] # None => t \in minted' /\ db.txn[t].grant \in minted' \cup {None}
    BY DEF FreshInv, NamesMinted, RowMinted
  <1>4. /\ \A c \in known' : c[1] \in minted'
        /\ ended' \subseteq minted'
        /\ \A g \in Grant : spent'[g] > 0 => g \in minted'
        /\ \A t \in Txn : decided'[t] > 0 => t \in minted'
    BY DEF FreshInv, NamesMinted
  <1> QED
    BY <1>1, <1>2, <1>3, <1>4 DEF FreshInv

\* Steps that write no row of the browser flow and mint nothing.
LEMMA NoNewNames ==
  ASSUME FreshInv, NEW h \in Handler, Others(h), disk' = disk \/ disk' = live',
         live'.txn = live.txn, live'.grant = live.grant,
         minted' = minted, known' = known, ended' = ended, spent' = spent, decided' = decided,
         req'[h].g \in minted \cup {None}, req'[h].t \in minted \cup {None}
  PROVE  FreshInv'
  <1>1. \A t \in Txn : RowMinted(live, t)'
    BY DEF FreshInv, RowMinted
  <1> QED
    BY <1>1, NamesMintedStep DEF NamesMinted, FreshInv

\* Every step of a request preserves FreshInv.
LEMMA FreshRequest ==
  ASSUME TypeInv, FreshInv, NEW h \in Handler, Request(h)
  PROVE  FreshInv'
  <1> USE DEF ExecStep, GotoStep, AnswerStep, env, ground, history
  <1>0. /\ req[h].g \in minted \cup {None} /\ req[h].t \in minted \cup {None}
        /\ \A t \in Txn : RowMinted(live, t)
        /\ live.txn \in Txns /\ live.grant \in Grants
    BY StayTyped DEF FreshInv, RowMinted
  <1>1. CASE Authorize(h)
    <2>1. PICK t \in (Txn \ minted) \cup {None}, next \in {"fetch", "purge"} :
           /\ GotoStep(h, "idle", next)
           /\ req'[h].t = t /\ req'[h].g = None
           /\ minted' = minted \cup ({t} \ {None})
           /\ UNCHANGED <<ground, pages, served, known, spent, issued, decided, ended>>
      BY <1>1, AuthorizeEffect
    <2>2. minted \subseteq minted' /\ t \in minted' \cup {None}
      BY <2>1
    <2>3. \A u \in Txn : RowMinted(live, u)'
      BY <1>0, <2>1, <2>2 DEF RowMinted
    <2> QED
      BY <2>1, <2>2, <2>3, NamesMintedStep DEF NamesMinted
  <1>2. CASE FetchDocument(h)
    BY <1>0, <1>2, FetchDocumentEffect, NoNewNames DEF Keeps
  <1>3. CASE Purge(h)
    <2>1. \A u \in Txn : RowMinted(live, u)'
      <3>1. CASE live' = live
        BY <1>0, <1>3, <3>1, PurgeEffect DEF RowMinted
      <3>2. CASE WritesTxns([t \in Txn |-> IF t \in old THEN None ELSE live.txn[t]])
        <4>1. \A t \in Txn : live'.txn[t] \in {None, live.txn[t]}
          BY <3>2 DEF WritesTxns
        <4> QED
          BY <1>0, <1>3, <4>1, PurgeEffect DEF RowMinted
      <3> QED
        BY <1>3, <3>1, <3>2, PurgeEffect
    <2>2. /\ Others(h) /\ req'[h].g \in minted \cup {None} /\ req'[h].t \in minted \cup {None}
          /\ disk' = disk \/ disk' = live'
          /\ live'.grant = live.grant /\ UNCHANGED history
      BY <1>0, <1>3, PurgeEffect DEF Keeps, WritesTxns
    <2> QED
      BY <2>1, <2>2, NamesMintedStep DEF NamesMinted
  <1>4. CASE Park(h)
    <2>1. /\ Others(h) /\ req'[h].g = None /\ req'[h].t = None
          /\ disk' = disk \/ disk' = live'
          /\ live'.grant = live.grant /\ UNCHANGED history
      BY <1>4, ParkEffect DEF WritesTxns
    <2>2. \A u \in Txn : RowMinted(live, u)'
      <3>1. CASE live' = live
        BY <1>0, <2>1, <3>1 DEF RowMinted
      <3>2. CASE live' # live
        <4>1. /\ req[h].t \in Txn
              /\ WritesTxns([live.txn EXCEPT ![req[h].t] =
                     [nonce |-> 0, approved |-> FALSE, by |-> None, grant |-> None]])
          BY <1>4, <3>2, ParkEffect
        <4>2. /\ live'.txn[req[h].t].grant = None
              /\ \A u \in Txn \ {req[h].t} : live'.txn[u] = live.txn[u]
          BY <1>0, <4>1 DEF WritesTxns, Txns
        <4>3. req[h].t \in minted
          BY <1>0, <4>1, NameAssumption
        <4> QED
          BY <1>0, <2>1, <4>2, <4>3 DEF RowMinted
      <3> QED
        BY <3>1, <3>2
    <2> QED
      BY <2>1, <2>2, NamesMintedStep DEF NamesMinted
  <1>5. ASSUME NEW t \in Txn, ConsentPage(h, t) PROVE FreshInv'
    <2>1. t \in minted
      BY <1>0, <1>5, ConsentPageEffect DEF RowMinted
    <2> QED
      BY <1>5, <2>1, ConsentPageEffect, NoNewNames
  <1>6. CASE ArmConsent(h)
    <2>1. /\ Others(h) /\ req'[h].g = req[h].g /\ req'[h].t = req[h].t /\ req[h].t \in Txn
          /\ disk' = disk \/ disk' = live'
          /\ live'.grant = live.grant
          /\ UNCHANGED <<minted, known, spent, decided, ended>>
          /\ \/ live' = live
             \/ /\ live.txn[req[h].t] # None
                /\ WritesTxns([live.txn EXCEPT ![req[h].t] =
                      [live.txn[req[h].t] EXCEPT !.nonce = pages[req[h].t] + 1]])
      BY <1>6, ArmConsentEffect DEF WritesTxns
    <2>2. CASE live' = live
      BY <1>0, <2>1, <2>2, NoNewNames
    <2>3. CASE live' # live
      <3>1. \A u \in Txn : RowMinted(live, u)'
        BY <1>0, <2>1, <2>3 DEF WritesTxns, Txns, TxnRow, RowMinted
      <3> QED
        BY <1>0, <2>1, <3>1, NamesMintedStep DEF NamesMinted
    <2> QED
      BY <2>2, <2>3
  <1>7. CASE ShowPage(h)
    BY <1>0, <1>7, ShowPageEffect, NoNewNames
  <1>8. ASSUME NEW t \in Txn, NEW k \in 1..MaxPages, NEW allow \in BOOLEAN,
               ConsentDecision(h, t, k, allow)
        PROVE  FreshInv'
    <2>1. t \in minted
      BY <1>0, <1>8, ConsentDecisionEffect DEF RowMinted
    <2> QED
      BY <1>8, <2>1, ConsentDecisionEffect, NoNewNames
  <1>9. CASE Claim(h) \/ Deny(h)
    <2>1. /\ Others(h) /\ req'[h].g = req[h].g /\ req'[h].t = req[h].t /\ req[h].t \in Txn
          /\ disk' = disk \/ disk' = live'
          /\ live'.grant = live.grant /\ UNCHANGED history
      BY <1>9, ClaimEffect, DenyEffect DEF WritesTxns, Keeps
    <2>2. CASE live' = live
      BY <1>0, <2>1, <2>2, NoNewNames
    <2>3. CASE live' # live
      <3>1. /\ live.txn[req[h].t] # None
            /\ \/ WritesTxns([live.txn EXCEPT ![req[h].t] =
                                [live.txn[req[h].t] EXCEPT !.approved = TRUE]])
               \/ WritesTxns([live.txn EXCEPT ![req[h].t] =
                                [live.txn[req[h].t] EXCEPT !.by = Unmarked]])
        BY <1>9, <2>3, ClaimEffect, DenyEffect DEF Undecided
      <3>2. \A u \in Txn : RowMinted(live, u)'
        BY <1>0, <2>1, <3>1 DEF WritesTxns, Txns, TxnRow, RowMinted
      <3> QED
        BY <1>0, <2>1, <3>2, NamesMintedStep DEF NamesMinted
    <2> QED
      BY <2>2, <2>3
  <1>10. CASE Claimed(h)
    BY <1>0, <1>10, ClaimedEffect, NoNewNames DEF Keeps
  <1>11. CASE InsertGrant(h) \/ ManualGrant(h)
    <2>1. \E g \in Grant :
            /\ \E row : WritesGrants([live.grant EXCEPT ![g] = row])
            /\ req'[h].g = g /\ req'[h].t \in {req[h].t, None}
            /\ minted' = minted \cup {g}
      <3>1. CASE InsertGrant(h)
        BY <3>1, InsertGrantEffect
      <3>2. CASE ManualGrant(h)
        <4>1. PICK g \in Grant :
                /\ req'[h].t = None /\ req'[h].g = g
                /\ WritesGrants([live.grant EXCEPT ![g] = [revoked |-> FALSE, txn |-> None]])
                /\ minted = {} /\ minted' = {g}
          BY <3>2, ManualGrantEffect
        <4>2. minted' = minted \cup {g}
          BY <4>1
        <4> QED
          BY <4>1, <4>2
      <3> QED
        BY <1>11, <3>1, <3>2
    <2>2. Others(h) /\ (disk' = disk \/ disk' = live')
          /\ UNCHANGED <<known, spent, decided, ended>>
      BY <1>11, InsertGrantEffect, ManualGrantEffect
    <2>3. PICK g \in Grant :
            /\ \E row : WritesGrants([live.grant EXCEPT ![g] = row])
            /\ req'[h].g = g /\ req'[h].t \in {req[h].t, None}
            /\ minted' = minted \cup {g}
      BY <2>1
    <2>4. \A x \in Grant \ {g} : live'.grant[x] = live.grant[x]
      BY <1>0, <2>3 DEF WritesGrants, Grants
    <2>5. \A u \in Txn : RowMinted(live, u)'
      BY <1>0, <2>3 DEF WritesGrants, RowMinted
    <2> QED
      BY <1>0, <2>2, <2>3, <2>4, <2>5, NamesMintedStep DEF NamesMinted
  <1>12. CASE Mint(h)
    <2>1. /\ Others(h) /\ req'[h].g \in minted \cup {None} /\ req'[h].t \in minted \cup {None}
          /\ req[h].t \in Txn /\ req[h].g \in Grant
          /\ disk' = disk \/ disk' = live'
          /\ live'.grant = live.grant /\ UNCHANGED history
          /\ \/ live' = live
             \/ /\ live.txn[req[h].t] # None
                /\ WritesTxns([live.txn EXCEPT ![req[h].t] =
                      [live.txn[req[h].t] EXCEPT !.grant = req[h].g]])
      BY <1>0, <1>12, MintEffect DEF WritesTxns, Keeps
    <2>2. CASE live' = live
      BY <1>0, <2>1, <2>2, NoNewNames
    <2>3. CASE live' # live
      <3>1. \A u \in Txn : RowMinted(live, u)'
        BY <1>0, <2>1, <2>3 DEF WritesTxns, Txns, TxnRow, RowMinted
      <3> QED
        BY <2>1, <3>1, NamesMintedStep DEF NamesMinted
    <2> QED
      BY <2>2, <2>3
  <1>13. CASE Allowed(h) \/ Denied(h) \/ Tokens(h) \/ Revoked(h)
    <2>1. /\ Others(h) /\ req'[h].g = None /\ req'[h].t = None
          /\ live' = live /\ disk' = disk
          /\ UNCHANGED <<minted, spent>>
      BY <1>13, AllowedEffect, DeniedEffect, TokensEffect, RevokedEffect
    <2>2. /\ \A c \in known' : c \in known \/ c[1] \in minted
          /\ \A g \in ended' : g \in ended \/ g \in minted
      BY <1>0, <1>13, AllowedEffect, DeniedEffect, TokensEffect, RevokedEffect, NameAssumption
    <2>3. \A t \in Txn : decided'[t] = decided[t] \/ t \in minted
      BY <1>0, <1>13, AllowedEffect, DeniedEffect, TokensEffect, RevokedEffect, NameAssumption
         DEF TypeInv, TypeOK
    <2>4. \A u \in Txn : RowMinted(live, u)'
      BY <1>0, <2>1 DEF RowMinted
    <2> QED
      BY <2>1, <2>2, <2>3, <2>4, NamesMintedStep DEF NamesMinted
  <1>14. ASSUME NEW g \in Grant, NEW owner \in BOOLEAN, ExchangeCode(h, g, owner) PROVE FreshInv'
    <2>1. /\ GotoStep(h, "idle", "consume_code") /\ req'[h].t = None /\ req'[h].g = g
          /\ <<g, 0>> \in known /\ UNCHANGED <<ground, history>>
      BY <1>14, ExchangeCodeEffect
    <2>2. <<g, 0>>[1] \in minted
      BY <2>1 DEF FreshInv
    <2> QED
      BY <2>1, <2>2, NoNewNames
  <1>15. CASE ConsumeCode(h)
    <2>1. /\ Others(h) /\ req'[h].g = req[h].g /\ req'[h].t = req[h].t
          /\ disk' = disk \/ disk' = live'
          /\ live'.grant = live.grant /\ UNCHANGED history
      BY <1>15, ConsumeCodeEffect DEF WritesTxns
    <2> DEFINE rows == {t \in CodeRow(req[h].g) : live.txn[t].by = None}
    <2>a. /\ \A t \in rows : live.txn[t] # None
          /\ live'.txn = [t \in Txn |-> IF t \in rows THEN [live.txn[t] EXCEPT !.by = h]
                                        ELSE live.txn[t]]
      BY <1>15, ConsumeCodeEffect DEF WritesTxns, CodeRow
    <2>2. \A u \in Txn : \/ live'.txn[u] = live.txn[u]
                         \/ live.txn[u] # None /\ live'.txn[u] = [live.txn[u] EXCEPT !.by = h]
      <3> HIDE DEF rows
      <3> QED
        BY <2>a
    <2>3. \A u \in Txn : RowMinted(live, u)'
      BY <1>0, <2>1, <2>2 DEF Txns, TxnRow, RowMinted
    <2> QED
      BY <1>0, <2>1, <2>3, NamesMintedStep DEF NamesMinted
  <1>16. CASE ReadCodeMark(h)
    BY <1>0, <1>16, ReadCodeMarkEffect, NoNewNames DEF Keeps
  <1>17. CASE RedeemCode(h) \/ RedeemRefresh(h)
    <2>1. /\ Others(h) /\ req'[h].g \in minted \cup {None} /\ req'[h].t \in minted \cup {None}
          /\ live' = live /\ disk' = disk /\ req[h].g \in Grant
          /\ UNCHANGED <<minted, known, decided, ended>>
          /\ spent' = spent \/ spent' = [spent EXCEPT ![req[h].g] = @ + 1]
      BY <1>0, <1>17, RedeemCodeEffect, RedeemRefreshEffect DEF Keeps
    <2>2. \A g \in Grant : spent'[g] = spent[g] \/ g \in minted
      BY <1>0, <2>1, NameAssumption DEF TypeInv, TypeOK
    <2>3. \A u \in Txn : RowMinted(live, u)'
      BY <1>0, <2>1 DEF RowMinted
    <2> QED
      BY <2>1, <2>2, <2>3, NamesMintedStep DEF NamesMinted
  <1>18. ASSUME NEW g \in Grant, NEW n \in Pair, NEW owner \in BOOLEAN,
                ExchangeRefresh(h, g, n, owner)
         PROVE  FreshInv'
    <2>1. /\ GotoStep(h, "idle", "read_refresh") /\ req'[h].t = None /\ req'[h].g = g
          /\ <<g, n>> \in known /\ UNCHANGED <<ground, history>>
      BY <1>18, ExchangeRefreshEffect
    <2>2. <<g, n>>[1] \in minted
      BY <2>1 DEF FreshInv
    <2> QED
      BY <2>1, <2>2, NoNewNames
  <1>19. CASE ReadRefresh(h) \/ ReadRefreshAgain(h) \/ IssueRead(h)
    BY SMTT(30), <1>0, <1>19, ReadRefreshEffect, ReadRefreshAgainEffect, IssueReadEffect, NoNewNames
       DEF Keeps
  <1>20. CASE ConsumeRefresh(h) \/ InsertRefresh(h) \/ InsertAccess(h) \/ ManualToken(h)
    BY <1>0, <1>20, ConsumeRefreshEffect, InsertRefreshEffect, InsertAccessEffect,
       ManualTokenEffect, NoNewNames DEF Keeps, WritesRefreshes, WritesElsewhere
  <1>21. CASE (\E g \in Grant, n \in Pair : Verify(h, g, n)) \/ DisableClient(h) \/ AllowClient(h)
    BY <1>21, ClientEffect, NoNewNames DEF WritesElsewhere
  <1>22. ASSUME NEW g \in Grant, RevokeGrant(h, g) \/ \E n \in Pair : RevokeByToken(h, g, n)
         PROVE  FreshInv'
    <2>1. g \in minted
      BY <1>22, StartRevokeEffect DEF FreshInv
    <2> QED
      BY <1>22, <2>1, StartRevokeEffect, NoNewNames
  <1>23. CASE Revoke(h)
    <2>1. /\ Others(h) /\ req'[h].g = req[h].g /\ req'[h].t = req[h].t /\ req[h].g \in Grant
          /\ disk' = disk \/ disk' = live'
          /\ live'.txn = live.txn /\ UNCHANGED history
      BY <1>23, RevokeEffect DEF WritesGrants, Keeps
    <2>2. \A g \in Grant \ {req[h].g} : live'.grant[g] = live.grant[g]
      BY <1>0, <1>23, <2>1, RevokeEffect DEF WritesGrants, Grants
    <2>3. req[h].g \in minted
      BY <1>0, <2>1, NameAssumption
    <2>4. \A u \in Txn : RowMinted(live, u)'
      BY <1>0, <2>1 DEF RowMinted
    <2> QED
      BY <1>0, <2>1, <2>2, <2>3, <2>4, NamesMintedStep DEF NamesMinted
  <1>24. CASE Commit(h)
    BY <1>0, <1>24, CommitEffect, NoNewNames DEF Keeps
  <1>25. CASE Consent(h)
    BY <1>5, <1>6, <1>7, <1>8, <1>9, <1>10, <1>11, <1>12, <1>13, <1>25 DEF Consent
  <1>26. CASE TokenEndpoint(h)
    BY <1>13, <1>14, <1>15, <1>16, <1>17, <1>18, <1>19, <1>20, <1>26 DEF TokenEndpoint
  <1>27. CASE Administration(h)
    BY <1>11, <1>13, <1>20, <1>21, <1>22, <1>23, <1>27 DEF Administration
  <1> QED
    BY <1>1, <1>2, <1>3, <1>4, <1>21, <1>24, <1>25, <1>26, <1>27 DEF Request

\* FreshInv is inductive: uuid4 ids come from minting only.
LEMMA FreshStep ==
  ASSUME TypeInv, FreshInv, [Next]_vars
  PROVE  FreshInv'
  <1>1. CASE \E h \in Handler : Request(h)
    BY <1>1, FreshRequest
  <1>2. CASE BlockWrite \/ BlockCommit \/ BlockRollback \/ \E x \in Txn \cup Grant : Expire(x)
    BY <1>2 DEF BlockWrite, BlockCommit, BlockRollback, Expire, history, FreshInv
  <1>3. CASE Crash
    BY <1>3, CrashEffect DEF FreshInv, history
  <1>4. CASE UNCHANGED vars
    BY <1>4 DEF vars, FreshInv
  <1> QED
    BY <1>1, <1>2, <1>3, <1>4 DEF Next

-----------------------------------------------------------------------------
(* One-time credentials: what a step of h leaves as it was                 *)

\* A row keeps the code it has, and is stamped once.
RowKept(h, t, g) ==
    HasCode(live, t, g)' =>
      \/ ~NotMinting(g)
      \/ /\ HasCode(live, t, g)
         /\ \/ live'.txn[t].by = live.txn[t].by
            \/ live.txn[t].by = None /\ live'.txn[t].by \in {Unmarked, h}

\* What preserves MintInv: no code appears, and the grant of a code about to
\* be written is not touched.
LEMMA MintKept ==
  ASSUME TypeInv, MintInv, NEW h \in Handler, Others(h), disk' = disk \/ disk' = live',
         \A t \in Txn, g \in Grant : HasCode(live, t, g)' => HasCode(live, t, g),
         \A g \in Grant : spent'[g] = spent[g] \/ NotMinting(g),
         \A c \in known' : c \in known \/ NotMinting(c[1]),
         At(h)' = "mint" => At(h) = "mint" /\ req'[h].g = req[h].g,
         req'[h].g = None \/ At(h)' \in {"mint", "revoke", "revoked"} \/ NotMinting(req'[h].g)
  PROVE  MintInv'
  <1>1. \A d \in {live', disk'} : \A t \in Txn, g \in Grant : HasCode(d, t, g) =>
           HasCode(live, t, g) \/ HasCode(disk, t, g)
    BY DEF HasCode
  <1>2. OneRow'
    <2> SUFFICES ASSUME NEW d1 \in {live', disk'}, NEW d2 \in {live', disk'}, NEW g \in Grant,
                        NEW t1 \in Txn, NEW t2 \in Txn, HasCode(d1, t1, g), HasCode(d2, t2, g)
                 PROVE  t1 = t2
      BY DEF OneRow, HasCode
    <2> QED
      BY <1>1 DEF MintInv, OneRow
  <1>3. ASSUME NEW k \in Handler, At(k)' = "mint" PROVE Unused(k)'
    <2>1. At(k) = "mint" /\ req'[k].g = req[k].g /\ Unused(k) /\ req[k].g \in Grant
      BY <1>3 DEF Others, MintInv, TypeInv, ReqInv, Equipped
    <2>2. spent'[req[k].g] = 0 /\ \A c \in known' : c[1] # req[k].g
      BY <2>1 DEF Unused, NotMinting
    <2>3. \A d \in {live', disk'} : \A t \in Txn : ~HasCode(d, t, req[k].g)
      BY <1>1, <2>1 DEF Unused
    <2>4. \A j \in Handler \ {k} : req'[j].g = req[k].g => At(j)' \in {"revoke", "revoked"}
      BY <2>1, NameAssumption DEF Unused, Others, NotMinting
    <2> QED
      BY <2>1, <2>2, <2>3, <2>4 DEF Unused, HasCode
  <1> QED
    BY <1>2, <1>3 DEF MintInv, Unused

\* What preserves CodeInv: rows keep their code and their stamp, and the
\* place of h itself is accounted for.
LEMMA CodeKept ==
  ASSUME TypeInv, MintInv, CodeInv, NEW h \in Handler, Others(h), disk' = disk \/ disk' = live',
         \A t \in Txn, g \in Grant : RowKept(h, t, g),
         \A g \in Grant : spent'[g] = spent[g] \/ (spent[g] > 0 /\ spent'[g] > 0),
         CodeOwn(h)'
  PROVE  CodeInv'
  <1>1. \A g \in Grant, k \in Handler : At(k) \in CodePlace /\ req[k].g = g => NotMinting(g)
    BY DEF MintInv, Unused, NotMinting
  <1>2. \A g \in Grant : spent[g] > 0 => NotMinting(g)
    BY DEF MintInv, Unused, NotMinting
  <1>3. ASSUME NEW g \in Grant PROVE SpentCode(g)'
    BY <1>2, NameAssumption DEF SpentCode, CodeInv, RowKept, HasCode
  <1>4. ASSUME NEW k \in Handler \ {h}, At(k) \in CodePlace PROVE CodeOwn(k)'
    <2>1. /\ req'[k] = req[k] /\ At(k)' = At(k) /\ CodeOwn(k) /\ req[k].g \in Grant
          /\ NotMinting(req[k].g)
      BY <1>1, <1>4 DEF Others, CodeInv, TypeInv, ReqInv, Equipped
    <2>2. \A t \in Txn : HasCode(live, t, req[k].g)' =>
            /\ HasCode(live, t, req[k].g)
            /\ \/ live'.txn[t].by = live.txn[t].by
               \/ live.txn[t].by = None /\ live'.txn[t].by \notin {k, None} 
      BY <2>1, NameAssumption DEF RowKept
    <2> QED
      BY <2>1, <2>2, NameAssumption DEF CodeOwn, HasCode
  <1>5. ASSUME NEW k \in Handler \ {h}, At(k) \notin CodePlace PROVE CodeOwn(k)'
    BY <1>5 DEF CodeOwn, Others, At, Spot
  <1> QED
    BY <1>3, <1>4, <1>5 DEF CodeInv

\* What preserves RefreshInv: refresh tokens and redemptions stay.
LEMMA RefreshKept ==
  ASSUME TypeInv, RefreshInv, NEW h \in Handler, Others(h), disk' = disk \/ disk' = live',
         live'.refresh = live.refresh,
         \A g \in Grant : spent'[g] = spent[g] /\ issued'[g] >= issued[g] /\ issued'[g] \in Nat,
         RefreshOwn(h)'
  PROVE  RefreshInv'
  <1>0. \A g \in Grant : issued[g] \in Nat /\ spent[g] \in Nat
    BY BoundAssumption DEF TypeInv, TypeOK
  <1>1. ASSUME NEW g \in Grant, NEW n \in Pair PROVE RefreshRow(g, n)'
    BY SMTT(30), <1>0 DEF RefreshRow, RefreshInv, Pair
  <1>2. ASSUME NEW k \in Handler \ {h}, At(k) \in PairPlace PROVE RefreshOwn(k)'
    <2>1. req'[k] = req[k] /\ At(k)' = At(k) /\ RefreshOwn(k) /\ req[k].g \in Grant
      BY <1>2 DEF Others, RefreshInv, TypeInv, ReqInv, Equipped
    <2>2. \A d \in {live', disk'} : d.refresh = live.refresh \/ d.refresh = disk.refresh
      OBVIOUS
    <2>3. spent'[req[k].g] = spent[req[k].g]
      BY <2>1
    <2> QED
      BY ZenonT(60), <2>1, <2>2, <2>3 DEF RefreshOwn
  <1>3. ASSUME NEW k \in Handler \ {h}, At(k) \notin PairPlace PROVE RefreshOwn(k)'
    BY <1>3 DEF RefreshOwn, Others, At, Spot
  <1> QED
    BY <1>1, <1>2, <1>3 DEF RefreshInv

\* What preserves IssueInv: refresh tokens and both counts stay.
LEMMA IssueKept ==
  ASSUME TypeInv, IssueInv, NEW h \in Handler, Others(h), disk' = disk \/ disk' = live',
         live'.refresh = live.refresh, spent' = spent, issued' = issued,
         \/ At(h)' \notin {"issue", "insert_access", "insert_refresh"}
         \/ /\ {At(h), At(h)'} \subseteq {"issue", "insert_access"} \/ At(h)' = At(h)
            /\ req'[h].g = req[h].g /\ req'[h].n = req[h].n
  PROVE  IssueInv'
  <1>1. ASSUME NEW k \in Handler PROVE IssueOwn(k)'
    BY SMTT(30) DEF IssueInv, IssueOwn, Others
  <1> QED
    BY <1>1 DEF IssueInv

\* A request whose id is its grant's only user, or who only revokes it.
LEMMA OwnGrant ==
  ASSUME MintInv, NEW h \in Handler, At(h) \notin {"mint", "revoke", "revoked"}
  PROVE  NotMinting(req[h].g)
  BY DEF MintInv, Unused, NotMinting

ChainInv == MintInv /\ CodeInv /\ RefreshInv /\ IssueInv

\* Steps that have no part in an exchange.
Quiet(h) ==
    /\ Others(h)
    /\ disk' = disk \/ disk' = live'
    /\ \A t \in Txn, g \in Grant : RowKept(h, t, g) /\ (HasCode(live, t, g)' => HasCode(live, t, g))
    /\ live'.refresh = live.refresh
    /\ spent' = spent /\ issued' = issued
    /\ \A c \in known' : c \in known \/ NotMinting(c[1])
    /\ At(h)' \notin {"mint", "read_code_mark", "read_code", "read_refresh_mark",
                      "issue", "insert_access", "insert_refresh"}
    /\ req'[h].pc # "commit" => req'[h].pc = At(h)'
    /\ req'[h].g = None \/ At(h)' \in {"revoke", "revoked"} \/ NotMinting(req'[h].g)

\* A step that has no part in an exchange preserves the four invariants.
LEMMA QuietStep ==
  ASSUME TypeInv, ChainInv, NEW h \in Handler, Quiet(h)
  PROVE  ChainInv'
  <1>0. \A g \in Grant : issued[g] \in Nat
    BY BoundAssumption DEF TypeInv, TypeOK
  <1>1. MintInv'
    BY SMTT(30), MintKept DEF Quiet, ChainInv
  <1>2. CodeOwn(h)' /\ RefreshOwn(h)'
    BY DEF Quiet, CodeOwn, RefreshOwn
  <1>3. CodeInv'
    BY <1>2, CodeKept DEF Quiet, ChainInv
  <1>4. RefreshInv'
    BY <1>0, <1>2, RefreshKept DEF Quiet, ChainInv
  <1>5. IssueInv'
    BY IssueKept DEF Quiet, ChainInv
  <1> QED
    BY <1>1, <1>3, <1>4, <1>5 DEF ChainInv

\* A request that writes no row of the transactions.
LEMMA QuietElsewhere ==
  ASSUME TypeInv, ChainInv, NEW h \in Handler, Others(h), disk' = disk \/ disk' = live',
         live'.txn = live.txn, live'.refresh = live.refresh, spent' = spent, issued' = issued,
         \A c \in known' : c \in known \/ NotMinting(c[1]),
         At(h)' \notin {"mint", "read_code_mark", "read_code", "read_refresh_mark",
                        "issue", "insert_access", "insert_refresh"},
         req'[h].pc # "commit" => req'[h].pc = At(h)',
         req'[h].g = None \/ At(h)' \in {"revoke", "revoked"} \/ NotMinting(req'[h].g)
  PROVE  ChainInv'
  <1>1. \A t \in Txn, g \in Grant : RowKept(h, t, g) /\ (HasCode(live, t, g)' => HasCode(live, t, g))
    BY DEF RowKept, HasCode
  <1> QED
    BY <1>1, QuietStep DEF Quiet

\* A request that replaces rows of transactions, but attaches no code.
LEMMA QuietRows ==
  ASSUME TypeInv, ChainInv, NEW h \in Handler, Others(h), disk' = disk \/ disk' = live',
         live'.refresh = live.refresh, UNCHANGED history,
         \A t \in Txn : \/ live'.txn[t] = None
                        \/ live'.txn[t].grant = None
                        \/ /\ live.txn[t] # None /\ live'.txn[t].grant = live.txn[t].grant
                           /\ \/ live'.txn[t].by = live.txn[t].by
                              \/ live.txn[t].by = None /\ live'.txn[t].by = Unmarked,
         At(h)' \notin {"mint", "read_code_mark", "read_code", "read_refresh_mark",
                        "issue", "insert_access", "insert_refresh"},
         req'[h].pc # "commit" => req'[h].pc = At(h)',
         req'[h].g = None \/ (At(h) \notin {"mint", "revoke", "revoked"} /\ req'[h].g = req[h].g)
  PROVE  ChainInv'
  <1>1. \A t \in Txn, g \in Grant : RowKept(h, t, g) /\ (HasCode(live, t, g)' => HasCode(live, t, g))
    BY NameAssumption DEF RowKept, HasCode
  <1>2. req'[h].g = None \/ NotMinting(req'[h].g)
    BY OwnGrant DEF ChainInv
  <1> QED
    BY <1>1, <1>2, QuietStep DEF Quiet, history

\* The browser flow preserves them, but for the grant and its code.
LEMMA QuietConsent ==
  ASSUME TypeInv, ChainInv, NEW h \in Handler,
         \/ Authorize(h) \/ FetchDocument(h) \/ Purge(h) \/ Park(h)
         \/ Consent(h) /\ ~(InsertGrant(h) \/ Mint(h))
  PROVE  ChainInv'
  <1> USE DEF ExecStep, GotoStep, AnswerStep, env, ground, history
  <1>0. live.txn \in Txns
    BY StayTyped
  <1>1. CASE Authorize(h)
    BY <1>1, AuthorizeEffect, QuietElsewhere
  <1>2. CASE FetchDocument(h)
    BY <1>2, FetchDocumentEffect, QuietElsewhere, OwnGrant DEF Keeps, ChainInv
  <1>3. CASE Purge(h)
    <2>1. CASE AnswerStep(h, "purge") /\ UNCHANGED <<env, history>>
      BY <2>1, QuietElsewhere
    <2>2. CASE /\ ExecStep(h, "purge", "park") /\ Keeps(h) /\ UNCHANGED <<env, history>>
               /\ WritesTxns([t \in Txn |-> IF t \in old THEN None ELSE live.txn[t]])
      <3>1. \A t \in Txn : live'.txn[t] \in {None, live.txn[t]}
        BY <2>2 DEF WritesTxns
      <3> QED
        BY <2>2, <3>1, QuietRows DEF WritesTxns, Keeps
    <2> QED
      BY <1>3, <2>1, <2>2, PurgeEffect
  <1>4. CASE Park(h)
    <2>1. /\ ExecStep(h, "park", "answer") /\ req'[h].g = None /\ UNCHANGED <<env, history>>
          /\ live'.refresh = live.refresh
          /\ \/ live' = live
             \/ /\ req[h].t \in Txn
                /\ live'.txn = [live.txn EXCEPT ![req[h].t] =
                      [nonce |-> 0, approved |-> FALSE, by |-> None, grant |-> None]]
      BY <1>4, ParkEffect DEF WritesTxns
    <2>2. \A t \in Txn : live'.txn[t] = live.txn[t] \/ live'.txn[t].grant = None
      BY <1>0, <2>1 DEF Txns
    <2> QED
      BY <2>1, <2>2, QuietRows
  <1>5. ASSUME NEW t \in Txn, ConsentPage(h, t) PROVE ChainInv'
    BY <1>5, ConsentPageEffect, QuietElsewhere
  <1>6. CASE ArmConsent(h)
    <2>1. /\ ExecStep(h, "arm", "page") /\ req'[h].g = req[h].g /\ req[h].t \in Txn
          /\ UNCHANGED <<spent, issued, known>>
          /\ live'.refresh = live.refresh
          /\ \/ live' = live
             \/ /\ live.txn[req[h].t] # None
                /\ live'.txn = [live.txn EXCEPT ![req[h].t] =
                      [live.txn[req[h].t] EXCEPT !.nonce = pages[req[h].t] + 1]]
      BY <1>6, ArmConsentEffect DEF WritesTxns
    <2>2. \A t \in Txn : \/ live'.txn[t] = live.txn[t]
                         \/ /\ live.txn[t] # None /\ live'.txn[t].grant = live.txn[t].grant
                            /\ live'.txn[t].by = live.txn[t].by
      BY <1>0, <2>1 DEF Txns, TxnRow
    <2>3. \A t \in Txn, g \in Grant :
            RowKept(h, t, g) /\ (HasCode(live, t, g)' => HasCode(live, t, g))
      BY <2>2 DEF RowKept, HasCode
    <2> QED
      BY <2>1, <2>3, OwnGrant, QuietStep DEF Quiet, ChainInv
  <1>7. CASE ShowPage(h)
    BY <1>7, ShowPageEffect, QuietElsewhere
  <1>8. ASSUME NEW t \in Txn, NEW k \in 1..MaxPages, NEW allow \in BOOLEAN,
               ConsentDecision(h, t, k, allow)
        PROVE  ChainInv'
    BY <1>8, ConsentDecisionEffect, QuietElsewhere
  <1>9. CASE Claim(h) \/ Deny(h)
    <2>1. /\ Others(h) /\ (disk' = disk \/ disk' = live') /\ Keeps(h) /\ req[h].t \in Txn
          /\ req'[h].pc = "commit" /\ At(h) \in {"claim", "deny"} /\ At(h)' \in {"claimed", "denied"}
          /\ UNCHANGED history
          /\ live'.refresh = live.refresh
          /\ \/ live' = live
             \/ /\ live.txn[req[h].t] # None /\ live.txn[req[h].t].by = None
                /\ \/ live'.txn = [live.txn EXCEPT ![req[h].t] =
                         [live.txn[req[h].t] EXCEPT !.approved = TRUE]]
                   \/ live'.txn = [live.txn EXCEPT ![req[h].t] =
                         [live.txn[req[h].t] EXCEPT !.by = Unmarked]]
      BY <1>9, ClaimEffect, DenyEffect DEF WritesTxns, Undecided
    <2>2. \A t \in Txn : \/ live'.txn[t] = live.txn[t]
                         \/ /\ live.txn[t] # None /\ live'.txn[t].grant = live.txn[t].grant
                            /\ live.txn[t].by = None /\ live'.txn[t].by \in {None, Unmarked}
      BY <1>0, <2>1 DEF Txns, TxnRow
    <2> QED
      BY SMTT(30), <2>1, <2>2, QuietRows DEF Keeps
  <1>10. CASE Claimed(h)
    BY <1>10, ClaimedEffect, QuietElsewhere, OwnGrant DEF Keeps, ChainInv
  <1>11. CASE Allowed(h)
    <2>1. NotMinting(req[h].g)
      BY <1>11, AllowedEffect, OwnGrant DEF ChainInv
    <2> QED
      BY <1>11, <2>1, AllowedEffect, QuietElsewhere
  <1>12. CASE Denied(h)
    BY <1>12, DeniedEffect, QuietElsewhere
  <1> QED
    BY <1>1, <1>2, <1>3, <1>4, <1>5, <1>6, <1>7, <1>8, <1>9, <1>10, <1>11, <1>12 DEF Consent

\* So do the steps of the token endpoint that only read or answer, and the
\* administration.
LEMMA QuietTokens ==
  ASSUME TypeInv, FreshInv, ChainInv, NEW h \in Handler,
         \/ \E g \in Grant, owner \in BOOLEAN : ExchangeCode(h, g, owner)
         \/ \E g \in Grant, n \in Pair, owner \in BOOLEAN : ExchangeRefresh(h, g, n, owner)
         \/ ReadRefresh(h) \/ ReadRefreshAgain(h) \/ Tokens(h)
         \/ \E g \in Grant, n \in Pair : Verify(h, g, n)
         \/ Administration(h)
  PROVE  ChainInv'
  <1> USE DEF ExecStep, GotoStep, AnswerStep, env, ground, history
  <1>0. \A c \in known : NotMinting(c[1])
    BY DEF ChainInv, MintInv, Unused, NotMinting
  <1>1. ASSUME NEW g \in Grant, NEW owner \in BOOLEAN, ExchangeCode(h, g, owner) PROVE ChainInv'
    <2>1. /\ GotoStep(h, "idle", "consume_code") /\ req'[h].g = g /\ UNCHANGED history
          /\ <<g, 0>> \in known
      BY <1>1, ExchangeCodeEffect
    <2>2. NotMinting(<<g, 0>>[1])
      BY <1>0, <2>1
    <2> QED
      BY <2>1, <2>2, QuietElsewhere
  <1>2. ASSUME NEW g \in Grant, NEW n \in Pair, NEW owner \in BOOLEAN,
               ExchangeRefresh(h, g, n, owner)
        PROVE  ChainInv'
    <2>1. /\ GotoStep(h, "idle", "read_refresh") /\ req'[h].g = g /\ UNCHANGED history
          /\ <<g, n>> \in known
      BY <1>2, ExchangeRefreshEffect
    <2>2. NotMinting(<<g, n>>[1])
      BY <1>0, <2>1
    <2> QED
      BY <2>1, <2>2, QuietElsewhere
  <1>3. CASE ReadRefresh(h) \/ ReadRefreshAgain(h)
    BY <1>3, ReadRefreshEffect, ReadRefreshAgainEffect, QuietElsewhere, OwnGrant
       DEF Keeps, ChainInv
  <1>4. CASE Tokens(h)
    <2>1. NotMinting(req[h].g)
      BY <1>4, TokensEffect, OwnGrant DEF ChainInv
    <2> QED
      BY <1>4, <2>1, TokensEffect, QuietElsewhere
  <1>5. CASE (\E g \in Grant, n \in Pair : Verify(h, g, n)) \/ DisableClient(h) \/ AllowClient(h)
    BY <1>5, ClientEffect, QuietElsewhere DEF WritesElsewhere
  <1>6. ASSUME NEW g \in Grant, RevokeGrant(h, g) \/ \E n \in Pair : RevokeByToken(h, g, n)
        PROVE  ChainInv'
    BY <1>6, StartRevokeEffect, QuietElsewhere
  <1>7. CASE Revoke(h)
    BY <1>7, RevokeEffect, QuietElsewhere DEF WritesGrants
  <1>8. CASE Revoked(h)
    BY <1>8, RevokedEffect, QuietElsewhere
  <1>9. CASE ManualGrant(h)
    <2>1. PICK g \in Grant :
            /\ ExecStep(h, "idle", "manual_token") /\ req'[h].g = g
            /\ WritesGrants([live.grant EXCEPT ![g] = [revoked |-> FALSE, txn |-> None]])
            /\ minted = {} /\ UNCHANGED <<spent, issued, known>>
      BY <1>9, ManualGrantEffect
    <2>2. NotMinting(g)
      BY <2>1, NameAssumption DEF FreshInv, NotMinting
    <2> QED
      BY <2>1, <2>2, QuietElsewhere DEF WritesGrants
  <1>10. CASE ManualToken(h)
    BY <1>10, ManualTokenEffect, QuietElsewhere, OwnGrant DEF WritesElsewhere, ChainInv
  <1> QED
    BY <1>1, <1>2, <1>3, <1>4, <1>5, <1>6, <1>7, <1>8, <1>9, <1>10 DEF Administration

\* A new grant is nobody's: no code, no redemption, no other request.
LEMMA ChainInsertGrant ==
  ASSUME TypeInv, FreshInv, ChainInv, NEW h \in Handler, InsertGrant(h)
  PROVE  ChainInv'
  <1>1. PICK g \in Grant \ minted :
          /\ Others(h) /\ (disk' = disk \/ disk' = live')
          /\ At(h) = "grant" /\ req'[h].pc = "commit" /\ At(h)' = "mint" /\ req'[h].g = g
          /\ live'.txn = live.txn /\ live'.refresh = live.refresh
          /\ UNCHANGED <<known, spent, issued>>
    BY InsertGrantEffect DEF ExecStep, WritesGrants
  <1>2. /\ spent[g] = 0
        /\ \A db \in {live, disk} : \A t \in Txn : ~HasCode(db, t, g)
        /\ \A c \in known : c[1] # g
        /\ \A k \in Handler : req[k].g # g
    <2>1. g # None
      BY NameAssumption
    <2>2. spent[g] \in Nat
      BY DEF TypeInv, TypeOK
    <2> QED
      BY <2>1, <2>2 DEF FreshInv, HasCode
  <1>3. Unused(h)'
    <2>1. \A db \in {live', disk'} : \A t \in Txn : ~HasCode(db, t, g)
      BY <1>1, <1>2 DEF HasCode
    <2> QED
      BY <1>1, <1>2, <2>1 DEF Unused, Others, HasCode
  <1>4. ASSUME NEW k \in Handler \ {h} PROVE Unused(k)'
    <2>1. Unused(k) /\ req'[k] = req[k] /\ At(k)' = At(k)
      BY <1>1 DEF Others, ChainInv, MintInv
    <2>2. \A db \in {live', disk'} : \A t \in Txn, x \in Grant :
            HasCode(db, t, x) => HasCode(live, t, x) \/ HasCode(disk, t, x)
      BY <1>1 DEF HasCode
    <2>3. At(k) = "mint" => req[k].g \in Grant
      BY DEF TypeInv, ReqInv, Equipped
    <2> QED
      BY <1>1, <1>2, <2>1, <2>2, <2>3 DEF Unused, Others, HasCode
  <1>5. OneRow'
    BY <1>1 DEF ChainInv, MintInv, OneRow, HasCode
  <1>6. CodeOwn(h)' /\ RefreshOwn(h)'
    BY <1>1 DEF CodeOwn, RefreshOwn
  <1>7. CodeInv'
    <2>1. \A t \in Txn, x \in Grant : RowKept(h, t, x)
      BY <1>1 DEF RowKept, HasCode
    <2> QED
      BY <1>1, <1>6, <2>1, CodeKept DEF ChainInv
  <1>8. RefreshInv'
    <2>1. \A x \in Grant : issued[x] \in Nat
      BY BoundAssumption DEF TypeInv, TypeOK
    <2> QED
      BY <1>1, <1>6, <2>1, RefreshKept DEF ChainInv
  <1>9. IssueInv'
    BY <1>1, IssueKept DEF ChainInv
  <1> QED
    BY <1>3, <1>4, <1>5, <1>7, <1>8, <1>9 DEF ChainInv, MintInv

\* The code is written into one row, for a grant nobody has redeemed.
LEMMA ChainMint ==
  ASSUME TypeInv, ChainInv, NEW h \in Handler, Mint(h)
  PROVE  ChainInv'
  <1> DEFINE g == req[h].g
             t == req[h].t
  <1>0. live.txn \in Txns /\ g \in Grant /\ t \in Txn
    BY StayTyped, MintEffect
  <1>1. CASE AnswerStep(h, "mint") /\ live' = live /\ UNCHANGED history
    BY <1>1, QuietElsewhere DEF AnswerStep, GotoStep, history
  <1>2. CASE /\ ExecStep(h, "mint", "allowed") /\ Keeps(h) /\ UNCHANGED history
             /\ live'.refresh = live.refresh
             /\ \/ live' = live
                \/ /\ live.txn[t] # None
                   /\ live'.txn = [live.txn EXCEPT ![t] = [live.txn[t] EXCEPT !.grant = g]]
    <2> USE DEF ExecStep, Keeps, history
    <2>1. Unused(h) /\ At(h) = "mint"
      BY <1>2 DEF ChainInv, MintInv
    <2>2. \A u \in Txn, x \in Grant \ {g} : HasCode(live, u, x)' =>
            HasCode(live, u, x) /\ live'.txn[u].by = live.txn[u].by
      BY <1>0, <1>2 DEF Txns, TxnRow, HasCode
    <2>3. \A u \in Txn : HasCode(live, u, g)' => u = t
      BY <1>0, <1>2, <2>1 DEF Txns, HasCode, Unused
    <2>4. ~NotMinting(g)
      BY <2>1 DEF NotMinting
    <2>5. \A u \in Txn, x \in Grant : RowKept(h, u, x)
      BY <2>2, <2>4 DEF RowKept
    <2>6. OneRow'
      <3>1. \A d \in {live', disk'} : \A u \in Txn, x \in Grant : HasCode(d, u, x) =>
              IF x = g THEN u = t ELSE HasCode(live, u, x) \/ HasCode(disk, u, x)
        BY <1>2, <2>1, <2>2, <2>3 DEF Unused, HasCode
      <3> SUFFICES ASSUME NEW d1 \in {live', disk'}, NEW d2 \in {live', disk'}, NEW x \in Grant,
                          NEW t1 \in Txn, NEW t2 \in Txn, HasCode(d1, t1, x), HasCode(d2, t2, x)
                   PROVE  t1 = t2
        BY DEF OneRow, HasCode
      <3> QED
        BY <3>1 DEF ChainInv, MintInv, OneRow
    <2>7. ASSUME NEW k \in Handler \ {h}, At(k) = "mint" PROVE Unused(k)'
      <3>1. Unused(k) /\ req[k].g \in Grant \ {g} /\ req'[k] = req[k] /\ At(k)' = At(k)
        BY <1>2, <2>1, <2>7 DEF Others, ChainInv, MintInv, Unused, TypeInv, ReqInv, Equipped
      <3>2. \A d \in {live', disk'} : \A u \in Txn : ~HasCode(d, u, req[k].g)
        BY <1>2, <2>2, <2>7, <3>1 DEF Unused, HasCode
      <3> QED
        BY <1>2, <2>7, <3>1, <3>2 DEF Unused, Others, HasCode
    <2>8. MintInv'
      BY <1>2, <2>6, <2>7 DEF MintInv, Unused, Others
    <2>9. CodeOwn(h)' /\ RefreshOwn(h)'
      BY <1>2 DEF CodeOwn, RefreshOwn
    <2>10. CodeInv'
      BY <1>2, <2>5, <2>9, CodeKept DEF ChainInv
    <2>11. RefreshInv'
      <3>1. \A x \in Grant : issued[x] \in Nat
        BY BoundAssumption DEF TypeInv, TypeOK
      <3> QED
        BY <1>2, <2>9, <3>1, RefreshKept DEF ChainInv
    <2>12. IssueInv'
      BY <1>2, IssueKept DEF ChainInv
    <2> QED
      BY <2>8, <2>10, <2>11, <2>12 DEF ChainInv
  <1> QED
    BY <1>1, <1>2, MintEffect DEF AnswerStep, GotoStep, WritesTxns

\* A stamp finds no row when the code was redeemed before.
LEMMA ChainConsumeCode ==
  ASSUME TypeInv, ChainInv, NEW h \in Handler, ConsumeCode(h)
  PROVE  ChainInv'
  <1> DEFINE g == req[h].g
             rows == {t \in CodeRow(g) : live.txn[t].by = None}
  <1>1. /\ ExecStep(h, "consume_code", "read_code_mark")
        /\ req'[h].g = g /\ g \in Grant /\ UNCHANGED history
        /\ live'.refresh = live.refresh
    BY ConsumeCodeEffect DEF WritesTxns
  <1>2. /\ req'[h].hit = (rows # {})
        /\ live'.txn = [t \in Txn |-> IF t \in rows THEN [live.txn[t] EXCEPT !.by = h]
                                      ELSE live.txn[t]]
    BY ConsumeCodeEffect DEF WritesTxns
  <1>3. \A t \in Txn : t \in rows <=> HasCode(live, t, g) /\ live.txn[t].by = None
    BY DEF CodeRow, HasCode
  <1>4. live.txn \in Txns
    BY StayTyped
  <1> HIDE DEF rows
  <1> USE DEF ExecStep, history
  <1>5. \A t \in Txn, x \in Grant : HasCode(live, t, x)' =>
          /\ HasCode(live, t, x)
          /\ IF t \in rows THEN live.txn[t].by = None /\ live'.txn[t].by = h
                           ELSE live'.txn[t].by = live.txn[t].by
    BY <1>2, <1>3, <1>4 DEF HasCode, Txns, TxnRow
  <1>6. \A t \in Txn, x \in Grant : RowKept(h, t, x)
    BY <1>5 DEF RowKept
  <1>7. MintInv'
    BY <1>1, <1>5, MintKept, OwnGrant DEF ChainInv
  <1>8. CodeOwn(h)'
    <2> SUFFICES ASSUME req'[h].hit, spent[g] > 0 PROVE FALSE
      BY <1>1 DEF CodeOwn
    <2>1. PICK t \in Txn : HasCode(live, t, g) /\ live.txn[t].by = None
      BY <1>2, <1>3 DEF rows, CodeRow
    <2> QED
      BY <1>1, <2>1 DEF ChainInv, CodeInv, SpentCode
  <1>9. CodeInv'
    BY <1>1, <1>6, <1>8, CodeKept DEF ChainInv
  <1>10. RefreshInv'
    <2>1. \A x \in Grant : issued[x] \in Nat
      BY BoundAssumption DEF TypeInv, TypeOK
    <2>2. RefreshOwn(h)'
      BY <1>1 DEF RefreshOwn
    <2> QED
      BY <1>1, <2>1, <2>2, RefreshKept DEF ChainInv
  <1>11. IssueInv'
    BY <1>1, IssueKept DEF ChainInv
  <1> QED
    BY <1>7, <1>9, <1>10, <1>11 DEF ChainInv

\* Reading the own stamp back after the commit proves that nobody else has
\* redeemed, or will: the stamp is durable and the row is the only one.
LEMMA ChainReadCodeMark ==
  ASSUME TypeInv, ChainInv, NEW h \in Handler, ReadCodeMark(h)
  PROVE  ChainInv'
  <1> DEFINE g == req[h].g
  <1> USE DEF GotoStep, history, Keeps
  <1>1. /\ GotoStep(h, "read_code_mark", "read_code") /\ Keeps(h)
        /\ req[h].pc = "read_code_mark" /\ g \in Grant /\ UNCHANGED history
        /\ req'[h].hit = (req[h].hit /\ \E t \in CodeRow(g) : live.txn[t].by = h)
    BY ReadCodeMarkEffect
  <1>2. CodeOwn(h)'
    <2> SUFFICES ASSUME req'[h].hit
                 PROVE  /\ spent[g] = 0
                        /\ \A db \in {live, disk} : \A t \in Txn :
                              HasCode(db, t, g) => db.txn[t].by = h
      BY <1>1 DEF CodeOwn, HasCode
    <2>1. PICK t \in Txn : HasCode(live, t, g) /\ live.txn[t].by = h
      BY <1>1 DEF CodeRow, HasCode
    <2>2. req[h].hit /\ CodeOwn(h) /\ spent[g] \in Nat
      BY <1>1 DEF ChainInv, CodeInv, TypeInv, TypeOK
    <2>3. HasCode(disk, t, g) /\ disk.txn[t].by = h
      BY <1>1, <2>1, <2>2 DEF CodeOwn
    <2>4. spent[g] = 0
      BY <1>1, <2>1, <2>2 DEF CodeOwn
    <2>5. \A db \in {live, disk} : \A u \in Txn : HasCode(db, u, g) => u = t
      BY <1>1, <2>1 DEF ChainInv, MintInv, OneRow
    <2> QED
      BY <2>1, <2>3, <2>4, <2>5
  <1>3. \A t \in Txn, x \in Grant : RowKept(h, t, x) /\ (HasCode(live, t, x)' => HasCode(live, t, x))
    BY <1>1 DEF RowKept, HasCode
  <1>4. MintInv'
    BY <1>1, <1>3, MintKept, OwnGrant DEF ChainInv
  <1>5. CodeInv'
    BY <1>1, <1>2, <1>3, CodeKept DEF ChainInv
  <1>6. RefreshInv'
    <2>1. \A x \in Grant : issued[x] \in Nat
      BY BoundAssumption DEF TypeInv, TypeOK
    <2>2. RefreshOwn(h)'
      BY <1>1 DEF RefreshOwn
    <2> QED
      BY <1>1, <2>1, <2>2, RefreshKept DEF ChainInv
  <1>7. IssueInv'
    BY <1>1, IssueKept DEF ChainInv
  <1> QED
    BY <1>4, <1>5, <1>6, <1>7 DEF ChainInv

\* An exchange that counts a redemption is the first one of its code.
LEMMA CodeWinner ==
  ASSUME TypeInv, ChainInv, NEW h \in Handler, RedeemCode(h), spent' # spent
  PROVE  LET g == req[h].g
         IN  /\ g \in Grant /\ spent[g] = 0 /\ issued[g] = 0
             /\ \A db \in {live, disk} : \A t \in Txn : HasCode(db, t, g) => db.txn[t].by = h
             /\ \E t \in Txn : HasCode(live, t, g)
  <1> DEFINE g == req[h].g
  <1>1. g \in Grant /\ At(h) = "read_code" /\ req[h].hit /\ CodeRow(g) # {}
    BY RedeemCodeEffect
  <1>2. issued[g] <= spent[g] /\ issued[g] \in Nat /\ spent[g] \in Nat
    BY <1>1, BoundAssumption DEF ChainInv, IssueInv, TypeInv, TypeOK
  <1>3. CodeOwn(h)
    BY DEF ChainInv, CodeInv
  <1>4. \E t \in Txn : HasCode(live, t, g)
    BY <1>1 DEF CodeRow, HasCode
  <1> QED
    BY <1>1, <1>2, <1>3, <1>4 DEF CodeOwn

\* Counting the redemption of a code preserves the four invariants.
LEMMA ChainRedeemCode ==
  ASSUME TypeInv, ChainInv, NEW h \in Handler, RedeemCode(h)
  PROVE  ChainInv'
  <1> DEFINE g == req[h].g
  <1> USE DEF GotoStep, AnswerStep
  <1>1. /\ g \in Grant /\ At(h) = "read_code" /\ Others(h) /\ live' = live /\ disk' = disk
        /\ req'[h].pc = At(h)' /\ issued' = issued /\ known' = known
    BY RedeemCodeEffect
  <1>2. CASE spent' = spent /\ (At(h)' = "idle" \/ At(h)' = "revoke") /\ req'[h].g \in {None, g}
    BY <1>1, <1>2, OwnGrant, QuietElsewhere DEF ChainInv
  <1>3. CASE /\ spent' # spent /\ spent' = [spent EXCEPT ![g] = @ + 1]
             /\ \/ At(h)' = "idle" /\ req'[h].g = None
                \/ At(h)' = "issue" /\ req'[h].g = g
    <2>1. /\ spent[g] = 0 /\ issued[g] = 0
          /\ \A db \in {live, disk} : \A t \in Txn : HasCode(db, t, g) => db.txn[t].by = h
          /\ \E t \in Txn : HasCode(live, t, g)
      BY <1>3, CodeWinner
    <2>2. spent'[g] = 1 /\ \A x \in Grant \ {g} : spent'[x] = spent[x]
      BY <1>3, <2>1 DEF TypeInv, TypeOK
    <2>3. NotMinting(g)
      BY <1>1, OwnGrant DEF ChainInv
    <2>4. MintInv'
      <3>1. \A t \in Txn, x \in Grant : HasCode(live, t, x)' => HasCode(live, t, x)
        BY <1>1 DEF HasCode
      <3> QED
        BY <1>1, <1>3, <2>2, <2>3, <3>1, MintKept DEF ChainInv
    <2>5. ASSUME NEW x \in Grant PROVE SpentCode(x)'
      <3>1. CASE x = g
        BY <1>1, <2>1, <3>1, NameAssumption DEF SpentCode, HasCode
      <3>2. CASE x # g
        BY <1>1, <2>2, <3>2 DEF SpentCode, HasCode, ChainInv, CodeInv
      <3> QED
        BY <3>1, <3>2
    <2>6. ASSUME NEW k \in Handler \ {h}, At(k) \in CodePlace PROVE CodeOwn(k)'
      <3>1. CodeOwn(k) /\ req'[k] = req[k] /\ At(k)' = At(k) /\ req[k].g \in Grant
        BY <1>1, <2>6 DEF Others, ChainInv, CodeInv, TypeInv, ReqInv, Equipped
      <3>2. CASE req[k].g = g
        BY <1>1, <2>1, <3>1, <3>2 DEF CodeOwn, HasCode
      <3>3. CASE req[k].g # g
        BY <1>1, <2>2, <3>1, <3>3 DEF CodeOwn, HasCode
      <3> QED
        BY <3>2, <3>3
    <2>8. \A k \in Handler : CodeOwn(k)'
      <3>1. CodeOwn(h)'
        BY <1>1, <1>3 DEF CodeOwn
      <3>2. \A k \in Handler \ {h} : At(k) \notin CodePlace => CodeOwn(k)'
        BY <1>1 DEF CodeOwn, Others, At, Spot
      <3> QED
        BY <2>6, <3>1, <3>2
    <2>9. CodeInv'
      BY <2>5, <2>8 DEF CodeInv
    <2>10. RefreshInv'
      <3>1. ASSUME NEW x \in Grant, NEW n \in Pair PROVE RefreshRow(x, n)'
        BY SMTT(30), <1>1, <2>1, <2>2 DEF RefreshRow, ChainInv, RefreshInv, Pair
      <3>2. ASSUME NEW k \in Handler \ {h}, At(k) \in PairPlace PROVE RefreshOwn(k)'
        <4>1. /\ RefreshOwn(k) /\ req'[k] = req[k] /\ At(k)' = At(k)
              /\ req[k].g \in Grant /\ req[k].n \in Pair
          BY <1>1, <3>2 DEF Others, ChainInv, RefreshInv, TypeInv, ReqInv, Equipped
        <4>2. req[k].n < spent'[req[k].g] => req[k].n < spent[req[k].g]
          BY <2>1, <2>2, <4>1 DEF Pair
        <4> QED
          BY <1>1, <4>1, <4>2 DEF RefreshOwn
      <3>3. ASSUME NEW k \in Handler \ {h}, At(k) \notin PairPlace PROVE RefreshOwn(k)'
        BY SMTT(30), <1>1, <3>3 DEF RefreshOwn, Others, At, Spot
      <3>4. RefreshOwn(h)'
        BY <1>1, <1>3 DEF RefreshOwn
      <3> QED
        BY <3>1, <3>2, <3>3, <3>4 DEF RefreshInv
    <2>11. IssueInv'
      <3>1. \A x \in Grant : issued'[x] <= spent'[x]
        BY <1>1, <2>1, <2>2 DEF ChainInv, IssueInv
      <3>2. \A k \in Handler : At(k) \in {"issue", "insert_access", "insert_refresh"} => req[k].g # g
        <4> SUFFICES ASSUME NEW k \in Handler,
                            At(k) \in {"issue", "insert_access", "insert_refresh"}, req[k].g = g
                     PROVE  FALSE
          OBVIOUS
        <4>1. IssueOwn(k) /\ (At(k) = "insert_refresh" => req[k].n \in Pair)
          BY DEF ChainInv, IssueInv, TypeInv, ReqInv, Equipped
        <4> QED
          BY <2>1, <4>1 DEF IssueOwn, Pair
      <3>3. IssueOwn(h)'
        BY <1>1, <1>3, <2>1, <2>2, <3>2 DEF IssueOwn, Others
      <3>4. ASSUME NEW k \in Handler \ {h}, At(k) \in GrantPlace PROVE IssueOwn(k)'
        <4>1. IssueOwn(k) /\ req'[k] = req[k] /\ At(k)' = At(k) /\ req[k].g \in Grant
          BY <1>1, <3>4 DEF Others, ChainInv, IssueInv, TypeInv, ReqInv, Equipped
        <4> QED
          BY <1>1, <1>3, <2>2, <3>2, <4>1 DEF IssueOwn, Others
      <3>5. ASSUME NEW k \in Handler \ {h}, At(k) \notin GrantPlace PROVE IssueOwn(k)'
        BY <1>1, <3>5 DEF IssueOwn, Others
      <3> QED
        BY <3>1, <3>3, <3>4, <3>5 DEF IssueInv
    <2> QED
      BY <2>4, <2>9, <2>10, <2>11 DEF ChainInv
  <1>4. spent \in [Grant -> Nat]
    BY DEF TypeInv, TypeOK
  <1>5. spent' = [spent EXCEPT ![g] = @ + 1] => spent' # spent
    <2>1. [spent EXCEPT ![g] = @ + 1][g] = spent[g] + 1 /\ spent[g] \in Nat
      BY <1>1, <1>4
    <2> QED
      BY <2>1
  <1> QED
    BY <1>2, <1>3, <1>5, RedeemCodeEffect

\* A stamp on a refresh token is put on the last pair only, or misses.
LEMMA ChainConsumeRefresh ==
  ASSUME TypeInv, ChainInv, NEW h \in Handler, ConsumeRefresh(h)
  PROVE  ChainInv'
  <1> DEFINE hit == live.refresh[req[h].g][req[h].n] # None
                    /\ live.refresh[req[h].g][req[h].n].by = None
  <1> USE DEF ExecStep, Keeps, history
  <1>1. PICK g \in Grant, n \in Pair :
          /\ ExecStep(h, "consume_refresh", "read_refresh_mark") /\ Keeps(h) /\ UNCHANGED history
          /\ req[h].g = g /\ req[h].n = n
          /\ req'[h].hit = hit
          /\ live'.txn = live.txn
          /\ IF hit THEN live'.refresh = [live.refresh EXCEPT ![g][n] = [by |-> h]]
             ELSE live'.refresh = live.refresh
    BY ConsumeRefreshEffect DEF WritesRefreshes
  <1>2. live.refresh \in Refreshes
    BY StayTyped
  <1>3. /\ \A x \in Grant, m \in Pair : x # g \/ m # n => live'.refresh[x][m] = live.refresh[x][m]
        /\ hit => live.refresh[g][n].by = None /\ live'.refresh[g][n].by = h
        /\ ~hit => live'.refresh = live.refresh
    BY <1>1, <1>2 DEF Refreshes
  <1>4. \A t \in Txn, x \in Grant : RowKept(h, t, x) /\ (HasCode(live, t, x)' => HasCode(live, t, x))
    BY <1>1 DEF RowKept, HasCode
  <1>5. MintInv'
    BY <1>1, <1>4, MintKept, OwnGrant DEF ChainInv
  <1>6. CodeInv'
    <2>1. CodeOwn(h)'
      BY <1>1 DEF CodeOwn
    <2> QED
      BY <1>1, <1>4, <2>1, CodeKept DEF ChainInv
  <1> HIDE DEF hit
  <1>7. ASSUME NEW x \in Grant, NEW m \in Pair PROVE RefreshRow(x, m)'
    <2>1. RefreshRow(x, m)
      BY DEF ChainInv, RefreshInv
    <2>2. CASE x = g /\ m = n /\ hit
      <3>0. h # None /\ live.refresh[x][m] # None
        BY <1>1, <2>2, NameAssumption DEF hit
      <3>1. m <= issued[x] /\ live'.refresh[x][m].by # None
        BY <1>3, <2>1, <2>2, <3>0 DEF RefreshRow
      <3> QED
        BY <1>1, <2>1, <3>1 DEF RefreshRow
    <2>3. CASE live'.refresh[x][m] = live.refresh[x][m]
      BY <1>1, <2>1, <2>3 DEF RefreshRow
    <2> QED
      BY <1>3, <2>2, <2>3
  <1>8. RefreshOwn(h)'
    <2> SUFFICES ASSUME hit, n < spent[g] PROVE FALSE
      BY <1>1 DEF RefreshOwn
    <2> QED
      BY <1>1 DEF ChainInv, RefreshInv, RefreshRow, hit
  <1>9. ASSUME NEW k \in Handler \ {h}, At(k) \in PairPlace PROVE RefreshOwn(k)'
    <2>1. PICK x \in Grant, m \in Pair :
            /\ RefreshOwn(k) /\ req'[k] = req[k] /\ At(k)' = At(k)
            /\ req[k].g = x /\ req[k].n = m
      BY <1>1, <1>9 DEF Others, ChainInv, RefreshInv, TypeInv, ReqInv, Equipped
    <2>2. CASE x = g /\ m = n /\ hit
      <3>1. live'.refresh[x][m].by = h /\ live.refresh[x][m] # None
        BY <1>1, <1>3, <2>2 DEF hit
      <3> QED
        BY <1>1, <2>1, <2>2, <3>1 DEF RefreshOwn
    <2>3. CASE live'.refresh[x][m] = live.refresh[x][m]
      BY SMTT(30), <1>1, <2>1, <2>3 DEF RefreshOwn
    <2> QED
      BY <1>3, <2>2, <2>3
  <1>10. ASSUME NEW k \in Handler \ {h}, At(k) \notin PairPlace PROVE RefreshOwn(k)'
    BY <1>1, <1>10 DEF RefreshOwn, Others, At, Spot
  <1>11. RefreshInv'
    BY <1>7, <1>8, <1>9, <1>10 DEF RefreshInv
  <1>12. ASSUME NEW k \in Handler \ {h}, At(k) \in GrantPlace PROVE IssueOwn(k)'
    <2>1. /\ IssueOwn(k) /\ req'[k] = req[k] /\ At(k)' = At(k) /\ req[k].g \in Grant
          /\ At(k) = "insert_refresh" => req[k].n \in Pair
      BY <1>1, <1>12 DEF Others, ChainInv, IssueInv, TypeInv, ReqInv, Equipped
    <2>2. At(k) = "insert_refresh" => live'.refresh[req[k].g][req[k].n] = None
      BY <1>1, <1>3, <2>1 DEF IssueOwn, hit
    <2> QED
      BY <1>1, <2>1, <2>2 DEF IssueOwn, Others
  <1>13. ASSUME NEW k \in Handler, At(k)' \notin GrantPlace \/ k = h PROVE IssueOwn(k)'
    BY <1>1, <1>13 DEF IssueOwn
  <1>14. IssueInv'
    <2>1. \A k \in Handler : IssueOwn(k)'
      BY SMTT(30), <1>1, <1>12, <1>13 DEF Others
    <2> QED
      BY <1>1, <2>1 DEF ChainInv, IssueInv
  <1> QED
    BY SMTT(30), <1>5, <1>6, <1>11, <1>14 DEF ChainInv

\* A refresh that counts a redemption is the first one of the last pair, and
\* its stamp is durable.
LEMMA RefreshWinner ==
  ASSUME TypeInv, ChainInv, NEW h \in Handler, RedeemRefresh(h), spent' # spent
  PROVE  LET g == req[h].g
             n == req[h].n
         IN  /\ g \in Grant /\ n \in Pair /\ n = spent[g] /\ n = issued[g]
             /\ live.refresh[g][n] # None
             /\ \A db \in {live, disk} : db.refresh[g][n].by = h
  <1> DEFINE g == req[h].g
             n == req[h].n
  <1>1. /\ g \in Grant /\ n \in Pair /\ req[h].pc = "read_refresh_mark"
        /\ At(h) = "read_refresh_mark"
        /\ live.refresh[g][n] # None /\ req[h].hit /\ live.refresh[g][n].by = h
    BY RedeemRefreshEffect
  <1>2. issued[g] <= spent[g] /\ issued[g] \in Nat /\ spent[g] \in Nat
    BY <1>1, BoundAssumption DEF ChainInv, IssueInv, TypeInv, TypeOK
  <1>3. RefreshOwn(h) /\ RefreshRow(g, n)
    BY SMTT(30), <1>1 DEF ChainInv, RefreshInv
  <1>4. n <= issued[g] /\ ~(n < spent[g])
    BY <1>1, <1>3 DEF RefreshOwn, RefreshRow
  <1>5. disk.refresh[g][n].by = h
    BY <1>1, <1>3 DEF RefreshOwn
  <1>6. n \in Nat
    BY <1>1 DEF Pair
  <1>7. n = spent[g] /\ n = issued[g]
    BY <1>2, <1>4, <1>6
  <1> QED
    BY <1>1, <1>5, <1>7

\* Counting the redemption of a refresh token preserves the four invariants.
LEMMA ChainRedeemRefresh ==
  ASSUME TypeInv, ChainInv, NEW h \in Handler, RedeemRefresh(h)
  PROVE  ChainInv'
  <1> USE DEF GotoStep, AnswerStep
  <1>1. PICK g \in Grant, n \in Pair :
          /\ req[h].g = g /\ req[h].n = n
          /\ At(h) = "read_refresh_mark" /\ Others(h) /\ live' = live /\ disk' = disk
          /\ req'[h].pc = At(h)' /\ issued' = issued /\ known' = known
    BY RedeemRefreshEffect
  <1>2. CASE spent' = spent /\ At(h)' = "read_refresh_again" /\ req'[h].g = g
    BY <1>1, <1>2, OwnGrant, QuietElsewhere DEF ChainInv
  <1>3. CASE /\ spent' # spent /\ spent' = [spent EXCEPT ![g] = @ + 1]
             /\ \/ At(h)' = "idle" /\ req'[h].g = None
                \/ At(h)' = "issue" /\ req'[h].g = g
    <2>1. /\ n = spent[g] /\ n = issued[g]
          /\ live.refresh[g][n] # None
          /\ \A db \in {live, disk} : db.refresh[g][n].by = h
      BY <1>1, <1>3, RefreshWinner
    <2>2. spent'[g] = n + 1 /\ \A x \in Grant \ {g} : spent'[x] = spent[x]
      BY <1>3, <2>1 DEF TypeInv, TypeOK
    <2>a. n \in Nat /\ n > 0
      BY <1>1, BoundAssumption DEF Pair
    <2>c. spent[g] = n /\ spent'[g] = n + 1
      BY <2>1, <2>2
    <2>d. spent[g] > 0 /\ spent'[g] > 0
      BY <2>a, <2>c
    <2>b. \A x \in Grant, m \in Pair : x # g \/ m # n => (m < spent'[x] <=> m < spent[x])
      <3> SUFFICES ASSUME NEW x \in Grant, NEW m \in Pair, x # g \/ m # n
                   PROVE  m < spent'[x] <=> m < spent[x]
        OBVIOUS
      <3>1. CASE x # g
        BY <2>2, <3>1
      <3>2. CASE x = g
        <4>1. m \in Nat /\ m # n
          BY <1>1, <3>2, BoundAssumption DEF Pair
        <4>2. m < n + 1 <=> m < n
          BY <2>a, <4>1
        <4> QED
          BY <2>c, <3>2, <4>2
      <3> QED
        BY <3>1, <3>2
    <2>3. NotMinting(g)
      BY <1>1, OwnGrant DEF ChainInv
    <2>4. \A t \in Txn, x \in Grant :
            RowKept(h, t, x) /\ (HasCode(live, t, x)' => HasCode(live, t, x))
      BY <1>1 DEF RowKept, HasCode
    <2>5. MintInv'
      BY <1>1, <1>3, <2>2, <2>3, <2>4, MintKept DEF ChainInv
    <2>6. CodeInv'
      <3>1. \A x \in Grant : spent'[x] = spent[x] \/ (spent[x] > 0 /\ spent'[x] > 0)
        <4> SUFFICES ASSUME NEW x \in Grant
                     PROVE  spent'[x] = spent[x] \/ (spent[x] > 0 /\ spent'[x] > 0)
          OBVIOUS
        <4>1. CASE x = g
          BY <2>d, <4>1
        <4>2. CASE x # g
          BY <2>2, <4>2
        <4> QED
          BY <4>1, <4>2
      <3>2. CodeOwn(h)'
        BY <1>1, <1>3 DEF CodeOwn
      <3> QED
        BY <1>1, <2>4, <3>1, <3>2, CodeKept DEF ChainInv
    <2>7. ASSUME NEW x \in Grant, NEW m \in Pair PROVE RefreshRow(x, m)'
      <3>1. RefreshRow(x, m)
        BY DEF ChainInv, RefreshInv
      <3>2. CASE x = g /\ m = n
        BY <1>1, <2>1, <3>1, <3>2, NameAssumption DEF RefreshRow
      <3>3. CASE x # g \/ m # n
        <4>1. m < spent'[x] => m < spent[x]
          BY <2>b, <3>3
        <4> QED
          BY <1>1, <3>1, <4>1 DEF RefreshRow
      <3> QED
        BY <3>2, <3>3
    <2>8. ASSUME NEW k \in Handler \ {h}, At(k) \in PairPlace PROVE RefreshOwn(k)'
      <3>1. PICK x \in Grant, m \in Pair :
              /\ RefreshOwn(k) /\ req'[k] = req[k] /\ At(k)' = At(k)
              /\ req[k].g = x /\ req[k].n = m
        BY <1>1, <2>8 DEF Others, ChainInv, RefreshInv, TypeInv, ReqInv, Equipped
      <3>2. CASE x = g /\ m = n
        BY <1>1, <2>1, <3>1, <3>2 DEF RefreshOwn
      <3>3. CASE x # g \/ m # n
        <4>1. m < spent'[x] => m < spent[x]
          BY SMTT(30), <2>b, <3>3
        <4> QED
          BY <1>1, <3>1, <4>1 DEF RefreshOwn
      <3> QED
        BY <3>2, <3>3
    <2>9. ASSUME NEW k \in Handler \ {h}, At(k) \notin PairPlace PROVE RefreshOwn(k)'
      BY <1>1, <2>9 DEF RefreshOwn, Others, At, Spot
    <2>10. RefreshInv'
      <3>1. RefreshOwn(h)'
        BY <1>1, <1>3 DEF RefreshOwn
      <3> QED
        BY SMTT(30), <2>7, <2>8, <2>9, <3>1 DEF RefreshInv
    <2>11. \A x \in Grant : issued'[x] <= spent'[x]
      <3>1. issued[g] <= spent'[g]
        BY <2>1, <2>2, <2>a
      <3> QED
        BY <1>1, <2>2, <3>1 DEF ChainInv, IssueInv
    <2>12. \A k \in Handler : At(k) \in {"issue", "insert_access", "insert_refresh"} => req[k].g # g
      <3> SUFFICES ASSUME NEW k \in Handler,
                          At(k) \in {"issue", "insert_access", "insert_refresh"}, req[k].g = g
                   PROVE  FALSE
        OBVIOUS
      <3>1. IssueOwn(k)
        BY DEF ChainInv, IssueInv
      <3> QED
        BY <2>1, <3>1 DEF IssueOwn, Pair
    <2>13. IssueOwn(h)'
      BY <1>1, <1>3, <2>1, <2>2, <2>12 DEF IssueOwn, Others
    <2>14. ASSUME NEW k \in Handler \ {h}, At(k) \in GrantPlace PROVE IssueOwn(k)'
      <3>1. IssueOwn(k) /\ req'[k] = req[k] /\ At(k)' = At(k) /\ req[k].g \in Grant
        BY <1>1, <2>14 DEF Others, ChainInv, IssueInv, TypeInv, ReqInv, Equipped
      <3> QED
        BY <1>1, <1>3, <2>2, <2>12, <3>1 DEF IssueOwn, Others
    <2>15. ASSUME NEW k \in Handler \ {h}, At(k) \notin GrantPlace PROVE IssueOwn(k)'
      BY <1>1, <2>15 DEF IssueOwn, Others
    <2> QED
      BY <2>5, <2>6, <2>10, <2>11, <2>13, <2>14, <2>15 DEF ChainInv, IssueInv
  <1>4. spent' = [spent EXCEPT ![g] = @ + 1] => spent' # spent
    <2>1. spent \in [Grant -> Nat]
      BY DEF TypeInv, TypeOK
    <2>2. [spent EXCEPT ![g] = @ + 1][g] = spent[g] + 1 /\ spent[g] \in Nat
      BY <2>1
    <2> QED
      BY <2>2
  <1> QED
    BY <1>1, <1>2, <1>3, <1>4, RedeemRefreshEffect DEF Keeps

\* The read of issue_tokens preserves the four invariants.
LEMMA ChainIssueRead ==
  ASSUME TypeInv, ChainInv, NEW h \in Handler, IssueRead(h)
  PROVE  ChainInv'
  <1> USE DEF GotoStep, AnswerStep, history, Keeps
  <1>1. CASE AnswerStep(h, "issue") /\ UNCHANGED history
    BY <1>1, QuietElsewhere
  <1>2. CASE GotoStep(h, "issue", "insert_access") /\ Keeps(h) /\ UNCHANGED history
    <2>1. \A t \in Txn, x \in Grant :
            RowKept(h, t, x) /\ (HasCode(live, t, x)' => HasCode(live, t, x))
      BY <1>2 DEF RowKept, HasCode
    <2>2. MintInv'
      BY <1>2, <2>1, MintKept, OwnGrant DEF ChainInv
    <2>3. CodeOwn(h)' /\ RefreshOwn(h)'
      BY <1>2 DEF CodeOwn, RefreshOwn
    <2>4. CodeInv'
      BY <1>2, <2>1, <2>3, CodeKept DEF ChainInv
    <2>5. RefreshInv'
      <3>1. \A x \in Grant : issued[x] \in Nat
        BY BoundAssumption DEF TypeInv, TypeOK
      <3> QED
        BY <1>2, <2>3, <3>1, RefreshKept DEF ChainInv
    <2>6. IssueInv'
      BY <1>2, IssueKept DEF ChainInv
    <2> QED
      BY <2>2, <2>4, <2>5, <2>6 DEF ChainInv
  <1> QED
    BY <1>1, <1>2, IssueReadEffect

\* The pair of a redemption is minted once, by the request that redeemed.
LEMMA ChainInsertAccess ==
  ASSUME TypeInv, ChainInv, NEW h \in Handler, InsertAccess(h)
  PROVE  ChainInv'
  <1>1. PICK g \in Grant, n \in Pair :
          /\ req[h].g = g /\ n = issued[g] + 1 /\ At(h) = "insert_access" /\ Others(h)
          /\ issued' = [issued EXCEPT ![g] = n]
          /\ UNCHANGED <<known, spent>>
          /\ live'.txn = live.txn /\ live'.refresh = live.refresh
          /\ disk' = disk \/ disk' = live'
          /\ req'[h].pc = At(h)'
          /\ \/ At(h)' = "idle" /\ req'[h].g = None
             \/ At(h)' = "insert_refresh" /\ req'[h].g = g /\ req'[h].n = n
    BY InsertAccessEffect DEF AnswerStep, GotoStep, WritesElsewhere
  <1>2. /\ spent[g] = n /\ issued[g] \in Nat /\ issued'[g] = n
        /\ \A x \in Grant \ {g} : issued'[x] = issued[x]
    BY <1>1, BoundAssumption DEF ChainInv, IssueInv, IssueOwn, TypeInv, TypeOK
  <1>3. \A x \in Grant : issued'[x] \in Nat /\ issued'[x] >= issued[x]
    BY <1>1, <1>2, BoundAssumption DEF TypeInv, TypeOK
  <1>4. \A t \in Txn, x \in Grant : RowKept(h, t, x) /\ (HasCode(live, t, x)' => HasCode(live, t, x))
    BY <1>1 DEF RowKept, HasCode
  <1>5. MintInv'
    BY SMTT(30), <1>1, <1>4, MintKept, OwnGrant DEF ChainInv
  <1>6. CodeOwn(h)' /\ RefreshOwn(h)'
    BY <1>1 DEF CodeOwn, RefreshOwn
  <1>7. CodeInv'
    BY <1>1, <1>4, <1>6, CodeKept DEF ChainInv
  <1>8. RefreshInv'
    BY <1>1, <1>3, <1>6, RefreshKept DEF ChainInv
  <1>9. \A db \in {live, disk} : db.refresh[g][n] = None
    BY <1>1, <1>2 DEF ChainInv, RefreshInv, RefreshRow
  <1>10. \A x \in Grant : issued'[x] <= spent'[x]
    BY <1>1, <1>2 DEF ChainInv, IssueInv
  <1>11. \A k \in Handler \ {h} : At(k) \in {"issue", "insert_access", "insert_refresh"} => req[k].g # g
    BY <1>1, <1>2 DEF ChainInv, IssueInv, IssueOwn
  <1>12. IssueOwn(h)'
    BY <1>1, <1>2, <1>9, <1>11 DEF IssueOwn, Others
  <1>13. ASSUME NEW k \in Handler \ {h}, At(k) \in GrantPlace PROVE IssueOwn(k)'
    <2>1. IssueOwn(k) /\ req'[k] = req[k] /\ At(k)' = At(k) /\ req[k].g \in Grant
      BY <1>1, <1>13 DEF Others, ChainInv, IssueInv, TypeInv, ReqInv, Equipped
    <2> QED
      BY <1>1, <1>2, <1>11, <2>1 DEF IssueOwn, Others
  <1>14. ASSUME NEW k \in Handler \ {h}, At(k) \notin GrantPlace PROVE IssueOwn(k)'
    BY <1>1, <1>14 DEF IssueOwn, Others
  <1> QED
    BY <1>5, <1>7, <1>8, <1>10, <1>12, <1>13, <1>14 DEF ChainInv, IssueInv

\* The refresh token is inserted where there is none.
LEMMA ChainInsertRefresh ==
  ASSUME TypeInv, ChainInv, NEW h \in Handler, InsertRefresh(h)
  PROVE  ChainInv'
  <1> USE DEF ExecStep, GotoStep, AnswerStep, Keeps, history
  <1>1. CASE AnswerStep(h, "insert_refresh") /\ UNCHANGED history
    BY <1>1, QuietElsewhere
  <1>2. CASE /\ ExecStep(h, "insert_refresh", "tokens") /\ Keeps(h) /\ UNCHANGED history
             /\ WritesRefreshes([live.refresh EXCEPT ![req[h].g][req[h].n] = [by |-> None]])
    <2>1. PICK g \in Grant, n \in Pair :
            /\ req[h].g = g /\ req[h].n = n
            /\ live'.txn = live.txn
            /\ live'.refresh = [live.refresh EXCEPT ![g][n] = [by |-> None]]
      BY <1>2, InsertRefreshEffect DEF WritesRefreshes
    <2>2. live.refresh \in Refreshes
      BY StayTyped
    <2>3. /\ \A x \in Grant, m \in Pair : x # g \/ m # n => live'.refresh[x][m] = live.refresh[x][m]
          /\ live'.refresh[g][n].by = None
      BY <2>1, <2>2 DEF Refreshes
    <2>4. /\ n = issued[g] /\ spent[g] = issued[g]
          /\ \A k \in Handler \ {h} : At(k) = "insert_refresh" => req[k].g # g
      BY <1>2, <2>1 DEF ChainInv, IssueInv, IssueOwn
    <2>5. \A t \in Txn, x \in Grant :
            RowKept(h, t, x) /\ (HasCode(live, t, x)' => HasCode(live, t, x))
      BY <2>1 DEF RowKept, HasCode
    <2>6. MintInv'
      BY <1>2, <2>1, <2>5, MintKept, OwnGrant DEF ChainInv
    <2>7. CodeOwn(h)' /\ RefreshOwn(h)'
      BY <1>2 DEF CodeOwn, RefreshOwn
    <2>8. CodeInv'
      BY <1>2, <2>5, <2>7, CodeKept DEF ChainInv
    <2>9. ASSUME NEW x \in Grant, NEW m \in Pair PROVE RefreshRow(x, m)'
      <3>1. RefreshRow(x, m)
        BY DEF ChainInv, RefreshInv
      <3>2. CASE x = g /\ m = n
        <4>1. m <= issued[x] /\ ~(m < spent[x])
          BY <2>4, <3>2, BoundAssumption DEF Pair
        <4> QED
          BY <1>2, <4>1 DEF RefreshRow
      <3>3. CASE x # g \/ m # n
        <4>1. live'.refresh[x][m] = live.refresh[x][m]
          BY <2>3, <3>3
        <4> QED
          BY <1>2, <3>1, <4>1 DEF RefreshRow
      <3> QED
        BY <3>2, <3>3
    <2>10. ASSUME NEW k \in Handler \ {h}, At(k) \in PairPlace PROVE RefreshOwn(k)'
      <3>1. PICK x \in Grant, m \in Pair :
              /\ RefreshOwn(k) /\ req'[k] = req[k] /\ At(k)' = At(k)
              /\ req[k].g = x /\ req[k].n = m
        BY <1>2, <2>10 DEF Others, ChainInv, RefreshInv, TypeInv, ReqInv, Equipped
      <3>2. CASE x = g /\ m = n
        <4>1. live'.refresh[x][m].by # k /\ ~(m < spent[x])
          BY <2>3, <2>4, <3>2, NameAssumption, BoundAssumption DEF Pair
        <4> QED
          BY <1>2, <3>1, <4>1 DEF RefreshOwn
      <3>3. CASE x # g \/ m # n
        <4>1. live'.refresh[x][m] = live.refresh[x][m]
          BY <2>3, <3>3
        <4> QED
          BY SMTT(30), <1>2, <3>1, <4>1 DEF RefreshOwn
      <3> QED
        BY <3>2, <3>3
    <2>11. ASSUME NEW k \in Handler \ {h}, At(k) \notin PairPlace PROVE RefreshOwn(k)'
      BY <1>2, <2>11 DEF RefreshOwn, Others, At, Spot
    <2>12. RefreshInv'
      BY <2>7, <2>9, <2>10, <2>11 DEF RefreshInv
    <2>13. ASSUME NEW k \in Handler \ {h}, At(k) \in GrantPlace PROVE IssueOwn(k)'
      <3>1. /\ IssueOwn(k) /\ req'[k] = req[k] /\ At(k)' = At(k) /\ req[k].g \in Grant
            /\ At(k) = "insert_refresh" => req[k].n \in Pair
        BY <1>2, <2>13 DEF Others, ChainInv, IssueInv, TypeInv, ReqInv, Equipped
      <3>2. At(k) = "insert_refresh" =>
              live'.refresh[req[k].g][req[k].n] = live.refresh[req[k].g][req[k].n]
        BY <2>3, <2>4, <3>1
      <3> QED
        BY <1>2, <3>1, <3>2 DEF IssueOwn, Others
    <2>14. ASSUME NEW k \in Handler, At(k)' \notin GrantPlace \/ k = h PROVE IssueOwn(k)'
      BY <1>2, <2>14 DEF IssueOwn
    <2>15. IssueInv'
      <3>1. \A k \in Handler : IssueOwn(k)'
        BY <1>2, <2>13, <2>14 DEF Others
      <3> QED
        BY <1>2, <3>1 DEF ChainInv, IssueInv
    <2> QED
      BY <2>6, <2>8, <2>12, <2>15 DEF ChainInv
  <1> QED
    BY <1>1, <1>2, InsertRefreshEffect

\* A commit preserves the four invariants, and makes stamps durable.
LEMMA ChainCommit ==
  ASSUME TypeInv, ChainInv, NEW h \in Handler, Commit(h)
  PROVE  ChainInv'
  <1>1. /\ ReqInv' /\ Others(h)
        /\ live' = live /\ disk' = live /\ UNCHANGED history
        /\ \/ At(h)' = "idle" /\ req'[h].pc = "idle" /\ req'[h].g = None
           \/ At(h)' = At(h) /\ req'[h].pc = At(h) /\ Keeps(h) /\ req'[h].hit = req[h].hit
    BY CommitEffect DEF env
  <1> USE DEF Keeps, history
  <1>2. \A t \in Txn, x \in Grant : RowKept(h, t, x) /\ (HasCode(live, t, x)' => HasCode(live, t, x))
    BY <1>1 DEF RowKept, HasCode
  <1>3. MintInv'
    <2>1. req'[h].g = None \/ At(h)' \in {"mint", "revoke", "revoked"} \/ NotMinting(req'[h].g)
      BY <1>1, OwnGrant DEF ChainInv
    <2> QED
      BY <1>1, <1>2, <2>1, MintKept DEF ChainInv
  <1>4. CodeInv'
    <2>1. CodeOwn(h)'
      BY <1>1 DEF CodeOwn, ChainInv, CodeInv, HasCode
    <2> QED
      BY <1>1, <1>2, <2>1, CodeKept DEF ChainInv
  <1>5. RefreshInv'
    <2>1. RefreshOwn(h)'
      BY ZenonT(60), <1>1 DEF RefreshOwn, ChainInv, RefreshInv
    <2>2. \A x \in Grant : issued[x] \in Nat
      BY BoundAssumption DEF TypeInv, TypeOK
    <2> QED
      BY SMTT(30), <1>1, <2>1, <2>2, RefreshKept DEF ChainInv
  <1>6. IssueInv'
    BY <1>1, IssueKept DEF ChainInv
  <1> QED
    BY <1>3, <1>4, <1>5, <1>6 DEF ChainInv

\* Every step of a request preserves the four invariants.
LEMMA ChainRequest ==
  ASSUME TypeInv, FreshInv, ChainInv, NEW h \in Handler, Request(h)
  PROVE  ChainInv'
  <1>1. CASE Authorize(h) \/ FetchDocument(h) \/ Purge(h) \/ Park(h) \/ Consent(h)
    BY <1>1, QuietConsent, ChainInsertGrant, ChainMint
  <1>2. CASE Administration(h) \/ \E g \in Grant, n \in Pair : Verify(h, g, n)
    BY <1>2, QuietTokens
  <1>3. CASE TokenEndpoint(h)
    <2>1. CASE \/ \E g \in Grant, owner \in BOOLEAN : ExchangeCode(h, g, owner)
               \/ \E g \in Grant, n \in Pair, owner \in BOOLEAN : ExchangeRefresh(h, g, n, owner)
               \/ ReadRefresh(h) \/ ReadRefreshAgain(h) \/ Tokens(h)
      BY <2>1, QuietTokens
    <2>2. CASE ConsumeCode(h) \/ ReadCodeMark(h) \/ RedeemCode(h)
      BY <2>2, ChainConsumeCode, ChainReadCodeMark, ChainRedeemCode
    <2>3. CASE ConsumeRefresh(h) \/ RedeemRefresh(h)
      BY <2>3, ChainConsumeRefresh, ChainRedeemRefresh
    <2>4. CASE IssueRead(h) \/ InsertAccess(h) \/ InsertRefresh(h)
      BY <2>4, ChainIssueRead, ChainInsertAccess, ChainInsertRefresh
    <2> QED
      BY <1>3, <2>1, <2>2, <2>3, <2>4 DEF TokenEndpoint
  <1> QED
    BY <1>1, <1>2, <1>3, ChainCommit DEF Request

\* A commit or a rollback of another request preserves them: both databases
\* satisfy them.
LEMMA ChainStill ==
  ASSUME ChainInv, req' = req, UNCHANGED history,
         \/ live' = live /\ disk' \in {disk, live}
         \/ live' = disk /\ disk' = disk
  PROVE  ChainInv'
  <1>1. \A h \in Handler : At(h)' = At(h)
    BY DEF At
  <1>2. {live', disk'} \subseteq {live, disk}
    OBVIOUS
  <1> USE DEF history
  <1>3. MintInv'
    <2>1. \A h \in Handler : Unused(h)'
      BY <1>1, <1>2 DEF ChainInv, MintInv, Unused, HasCode
    <2>2. OneRow'
      BY <1>2 DEF ChainInv, MintInv, OneRow, HasCode
    <2> QED
      BY <2>1, <2>2 DEF MintInv
  <1>4. CodeInv'
    <2>1. \A g \in Grant : SpentCode(g)'
      BY <1>2 DEF ChainInv, CodeInv, SpentCode, HasCode
    <2>2. \A h \in Handler : CodeOwn(h)'
      BY <1>1, <1>2 DEF ChainInv, CodeInv, CodeOwn, HasCode
    <2> QED
      BY <2>1, <2>2 DEF CodeInv
  <1>5. RefreshInv'
    <2>1. \A g \in Grant, n \in Pair : RefreshRow(g, n)'
      BY <1>2 DEF ChainInv, RefreshInv, RefreshRow
    <2>2. \A h \in Handler : RefreshOwn(h)'
      <3>1. SUFFICES ASSUME NEW h \in Handler PROVE RefreshOwn(h)'
        OBVIOUS
      <3> DEFINE Row(db) == db.refresh[req[h].g][req[h].n]
                 Own(l, d) ==
                   /\ At(h) = "read_refresh_mark" /\ req[h].hit /\ req[h].n < spent[req[h].g] =>
                        /\ Row(l) # None => Row(l).by # h
                        /\ Row(d) # None => Row(d).by # h
                   /\ req[h].pc = "read_refresh_mark" /\ req[h].hit
                        /\ Row(l) # None /\ Row(l).by = h
                      => Row(d) # None /\ Row(d).by = h
      <3>2. Own(live, disk)
        BY SMTT(30), <1>1 DEF ChainInv, RefreshInv, RefreshOwn
      <3>3. At(h)' = At(h) /\ req'[h] = req[h] /\ spent' = spent
        BY Zenon, <1>1
      <3>4. Own(live', disk') => RefreshOwn(h)'
        BY <3>3 DEF RefreshOwn
      <3> HIDE DEF Row
      <3>5. \/ live' = live /\ disk' = disk
            \/ live' = live /\ disk' = live
            \/ live' = disk /\ disk' = disk
        OBVIOUS
      <3>6. Own(live', disk')
        BY <3>2, <3>5
      <3> QED
        BY Zenon, <3>4, <3>6
    <2> QED
      BY <2>1, <2>2 DEF RefreshInv
  <1>6. IssueInv'
    BY <1>1, <1>2 DEF ChainInv, IssueInv, IssueOwn
  <1> QED
    BY <1>3, <1>4, <1>5, <1>6 DEF ChainInv

\* A restart preserves them.
LEMMA ChainCrash ==
  ASSUME TypeInv, ChainInv, Crash
  PROVE  ChainInv'
  <1>1. /\ live' = disk /\ disk' = disk /\ UNCHANGED history
        /\ \A h \in Handler : At(h)' = "idle" /\ req'[h].pc = "idle"
    BY CrashEffect
  <1> USE DEF history
  <1>2. MintInv'
    BY <1>1 DEF ChainInv, MintInv, OneRow, Unused, HasCode
  <1>3. CodeInv'
    BY SMTT(30), <1>1 DEF ChainInv, CodeInv, SpentCode, CodeOwn, HasCode
  <1>4. RefreshInv'
    BY <1>1 DEF ChainInv, RefreshInv, RefreshRow, RefreshOwn
  <1>5. IssueInv'
    BY <1>1 DEF ChainInv, IssueInv, IssueOwn
  <1> QED
    BY <1>2, <1>3, <1>4, <1>5 DEF ChainInv

\* The four invariants are inductive, given types and fresh ids.
LEMMA ChainInvStep ==
  ASSUME TypeInv, FreshInv, ChainInv, [Next]_vars
  PROVE  ChainInv'
  <1>1. CASE BlockWrite \/ BlockCommit \/ BlockRollback \/ \E x \in Txn \cup Grant : Expire(x)
    BY <1>1, ChainStill DEF BlockWrite, BlockCommit, BlockRollback, Expire
  <1>2. CASE UNCHANGED vars
    BY <1>2, ChainStill DEF vars, history
  <1> QED
    BY <1>1, <1>2, ChainRequest, ChainCrash DEF Next

\* Redemptions and pairs are counted by three steps only.
LEMMA Uncounted ==
  ASSUME TypeInv, NEW h \in Handler, Request(h),
         ~(RedeemCode(h) \/ RedeemRefresh(h) \/ InsertAccess(h))
  PROVE  spent' = spent /\ issued' = issued
  <1>1. CASE Authorize(h) \/ FetchDocument(h) \/ Purge(h) \/ Park(h) \/ Commit(h)
    BY SMTT(30), <1>1 DEF Authorize, FetchDocument, Purge, Park, Commit, history
  <1>2. CASE Consent(h)
    BY ZenonT(60), <1>2 DEF Consent, ConsentPage, ArmConsent, ShowPage, ConsentDecision, Claim, Claimed,
       InsertGrant, Mint, Allowed, Deny, Denied, history
  <1>3. CASE TokenEndpoint(h)
    BY <1>3 DEF TokenEndpoint, ExchangeCode, ConsumeCode, ReadCodeMark, ExchangeRefresh,
       ReadRefresh, ConsumeRefresh, ReadRefreshAgain, IssueRead, InsertRefresh, Tokens, history
  <1>4. CASE Administration(h) \/ \E g \in Grant, n \in Pair : Verify(h, g, n)
    BY <1>4 DEF Administration, RevokeGrant, RevokeByToken, Revoke, Revoked, ManualGrant,
       ManualToken, DisableClient, AllowClient, Verify, history
  <1> QED
    BY <1>1, <1>2, <1>3, <1>4 DEF Request

\* Every step of the store is a step of the abstract chain, or none.
LEMMA ChainSimulates ==
  ASSUME TypeInv, ChainInv, [Next]_vars
  PROVE  [Chain!Next]_<<spent, issued>>
  <1>1. ASSUME NEW h \in Handler, RedeemCode(h), spent' # spent PROVE Chain!Next
    <2>1. PICK g \in Grant : spent[g] = issued[g] /\ req[h].g = g
      BY <1>1, CodeWinner
    <2>2. issued' = issued /\ spent' = [spent EXCEPT ![g] = @ + 1]
      BY <1>1, <2>1, RedeemCodeEffect
    <2> QED
      BY <2>1, <2>2 DEF Chain!Next, Chain!Spend
  <1>2. ASSUME NEW h \in Handler, RedeemRefresh(h), spent' # spent PROVE Chain!Next
    <2>1. PICK g \in Grant : spent[g] = issued[g] /\ req[h].g = g
      BY <1>2, RefreshWinner
    <2>2. issued' = issued /\ spent' = [spent EXCEPT ![g] = @ + 1]
      BY <1>2, <2>1, RedeemRefreshEffect
    <2> QED
      BY <2>1, <2>2 DEF Chain!Next, Chain!Spend
  <1>3. ASSUME NEW h \in Handler, InsertAccess(h) PROVE Chain!Next
    <2>1. PICK g \in Grant :
            /\ req[h].g = g /\ At(h) = "insert_access"
            /\ issued' = [issued EXCEPT ![g] = issued[g] + 1] /\ spent' = spent
      BY <1>3, InsertAccessEffect
    <2>2. spent[g] = issued[g] + 1 /\ issued[g] \in Nat
      BY <2>1, BoundAssumption DEF ChainInv, IssueInv, IssueOwn, TypeInv, TypeOK
    <2>3. issued[g] < spent[g] /\ issued' = [issued EXCEPT ![g] = @ + 1]
      BY SMTT(30), <2>1, <2>2
    <2> QED
      BY <2>1, <2>3 DEF Chain!Next, Chain!Issue
  <1>4. ASSUME NEW h \in Handler, RedeemCode(h) \/ RedeemRefresh(h), spent' = spent
        PROVE  issued' = issued
    BY <1>4 DEF RedeemCode, RedeemRefresh
  <1>5. CASE \E h \in Handler : Request(h)
    BY <1>1, <1>2, <1>3, <1>4, <1>5, Uncounted
  <1>6. CASE ~\E h \in Handler : Request(h)
    BY <1>6 DEF Next, BlockWrite, BlockCommit, BlockRollback, Crash, Expire, vars, history
  <1> QED
    BY <1>5, <1>6

-----------------------------------------------------------------------------
(* Decisions                                                               *)

\* A step that parks nothing, reopens no transaction and decides nothing.
Undecisive(h) ==
    /\ Others(h)
    /\ disk' = disk \/ disk' = live'
    /\ \A t \in Txn : live.txn[t] = None => live'.txn[t] = None
    /\ \A t \in Txn : Settled(live, t) => Settled(live, t)'
    /\ decided' = decided /\ erased' = erased
    /\ At(h)' \in ParkPlace => At(h) \in ParkPlace /\ req'[h].t = req[h].t
    /\ req'[h].t \in {None, req[h].t} \/ live.txn[req'[h].t] # None
    /\ ~Decider(h)'

\* What preserves ParkInv: no row appears and a decision is counted only for
\* the own transaction.
LEMMA ParkKept ==
  ASSUME TypeInv, ParkInv, NEW h \in Handler, Others(h), disk' = disk \/ disk' = live',
         \A t \in Txn : live.txn[t] = None => live'.txn[t] = None,
         \A t \in Txn : decided'[t] = decided[t] \/ t = req[h].t,
         At(h)' \in ParkPlace => At(h) \in ParkPlace /\ req'[h].t = req[h].t /\ decided' = decided,
         req'[h].t \in {None, req[h].t} \/ live.txn[req'[h].t] # None
  PROVE  ParkInv'
  <1>1. ASSUME NEW k \in Handler, At(k)' \in ParkPlace, req'[k].t # None
        PROVE  /\ \A db \in {live', disk'} : db.txn[req'[k].t] = None
               /\ decided'[req'[k].t] = 0
               /\ \A j \in Handler \ {k} : req'[j].t # req'[k].t
    <2>1. At(k) \in ParkPlace /\ req'[k].t = req[k].t
      BY <1>1 DEF Others
    <2>2. req[k].t \in Txn
      BY <1>1, <2>1 DEF TypeInv, TypeOK
    <2>3. /\ live.txn[req[k].t] = None /\ disk.txn[req[k].t] = None
          /\ decided[req[k].t] = 0
          /\ \A j \in Handler \ {k} : req[j].t # req[k].t
      BY <1>1, <2>1 DEF ParkInv
    <2>4. live'.txn[req[k].t] = None /\ disk'.txn[req[k].t] = None
      BY <2>2, <2>3
    <2>5. decided'[req[k].t] = 0
      BY <1>1, <2>2, <2>3
    <2>6. \A j \in Handler \ {k} : req'[j].t # req[k].t
      BY SMTT(30), <1>1, <2>1, <2>3 DEF Others
    <2> QED
      BY <2>1, <2>4, <2>5, <2>6
  <1> QED
    BY <1>1 DEF ParkInv

\* What preserves DecideInv: settled rows stay settled, and h was already the
\* one who decides.
LEMMA DecideKept ==
  ASSUME TypeInv, DecideInv, NEW h \in Handler, Others(h), disk' = disk \/ disk' = live',
         \A t \in Txn : Settled(live, t) => Settled(live, t)',
         decided' = decided, erased' = erased,
         Decider(h)' => /\ Decider(h) /\ req'[h].t = req[h].t
                        /\ req'[h].pc = "commit" \/ req[h].pc # "commit" \/ disk' = live'
  PROVE  DecideInv'
  <1> SUFFICES ASSUME ~erased
               PROVE  DecideInv'
    BY DEF DecideInv, TypeInv, TypeOK
  <1>1. ASSUME NEW k \in Handler, Decider(k)'
        PROVE  /\ decided'[req'[k].t] = 0
               /\ Settled(live', req'[k].t)
               /\ req'[k].pc # "commit" => Settled(disk', req'[k].t)
               /\ \A j \in Handler : Decider(j)' /\ req'[j].t = req'[k].t => j = k
    <2>1. Decider(k) /\ req'[k].t = req[k].t
      BY <1>1 DEF Others, Decider
    <2>2. req[k].t \in Txn
      BY <2>1 DEF TypeInv, ReqInv, Equipped, Decider
    <2>3. /\ decided[req[k].t] = 0 /\ Settled(live, req[k].t)
          /\ req[k].pc # "commit" => Settled(disk, req[k].t)
          /\ \A j \in Handler : Decider(j) /\ req[j].t = req[k].t => j = k
      BY <2>1 DEF DecideInv
    <2>4. Settled(live', req[k].t)
      BY <2>2, <2>3 DEF Settled
    <2>5. req'[k].pc # "commit" => Settled(disk', req[k].t)
      BY <1>1, <2>3, <2>4 DEF Others
    <2>6. \A j \in Handler : Decider(j)' => Decider(j) /\ req'[j].t = req[j].t
      BY DEF Others, Decider
    <2> QED
      BY <2>1, <2>3, <2>4, <2>5, <2>6
  <1>2. ASSUME NEW t \in Txn
        PROVE  decided'[t] <= 1 /\ (decided'[t] = 1 => Settled(live', t) /\ Settled(disk', t))
    <2>1. decided[t] <= 1 /\ (decided[t] = 1 => Settled(live, t) /\ Settled(disk, t))
      BY DEF DecideInv
    <2>2. Settled(live, t) => Settled(live', t)
      BY DEF Settled
    <2> QED
      BY <2>1, <2>2
  <1> QED
    BY <1>1, <1>2 DEF DecideInv, Settled

\* A step that decides nothing preserves both.
LEMMA UndecisiveStep ==
  ASSUME TypeInv, ParkInv, DecideInv, NEW h \in Handler, Undecisive(h)
  PROVE  ParkInv' /\ DecideInv'
  BY ParkKept, DecideKept DEF Undecisive

\* A request that writes no transaction.
LEMMA NoTxnWritten ==
  ASSUME TypeInv, ParkInv, DecideInv, NEW h \in Handler, Others(h),
         disk' = disk \/ disk' = live', live'.txn = live.txn,
         decided' = decided, erased' = erased,
         At(h)' \in ParkPlace => At(h) \in ParkPlace /\ req'[h].t = req[h].t,
         req'[h].t \in {None, req[h].t} \/ live.txn[req'[h].t] # None,
         ~Decider(h)'
  PROVE  ParkInv' /\ DecideInv'
  BY UndecisiveStep DEF Undecisive, Settled

\* The token endpoint and the administration decide nothing.
LEMMA UndecisiveTokens ==
  ASSUME TypeInv, ParkInv, DecideInv, NEW h \in Handler,
         \/ TokenEndpoint(h) \/ Administration(h)
         \/ \E g \in Grant, n \in Pair : Verify(h, g, n)
  PROVE  ParkInv' /\ DecideInv'
  <1> USE DEF ExecStep, GotoStep, AnswerStep, Keeps, Decider, env, ground, history
  <1>1. ASSUME NEW g \in Grant, NEW owner \in BOOLEAN, ExchangeCode(h, g, owner)
        PROVE  ParkInv' /\ DecideInv'
    BY <1>1, ExchangeCodeEffect, NoTxnWritten
  <1>2. CASE ConsumeCode(h)
    <2> DEFINE rows == {t \in CodeRow(req[h].g) : live.txn[t].by = None}
    <2>1. /\ ExecStep(h, "consume_code", "read_code_mark")
          /\ req'[h].t = req[h].t
          /\ live'.txn = [t \in Txn |-> IF t \in rows THEN [live.txn[t] EXCEPT !.by = h]
                                        ELSE live.txn[t]]
          /\ UNCHANGED <<env, history>>
      BY <1>2, ConsumeCodeEffect DEF WritesTxns
    <2>2. \A t \in rows : live.txn[t] # None
      BY DEF CodeRow
    <2>3. live.txn \in Txns /\ h # None
      BY StayTyped, NameAssumption
    <2> HIDE DEF rows
    <2>4. \A t \in Txn : \/ t \notin rows /\ live'.txn[t] = live.txn[t]
                         \/ live.txn[t] # None /\ live'.txn[t].by # None
      BY <2>1, <2>2, <2>3 DEF Txns, TxnRow
    <2>5. \A t \in Txn : Settled(live, t) => Settled(live, t)'
      BY <2>4 DEF Settled
    <2> QED
      BY <2>1, <2>4, <2>5, UndecisiveStep DEF Undecisive
  <1>3. CASE ReadCodeMark(h) \/ RedeemCode(h)
    BY <1>3, ReadCodeMarkEffect, RedeemCodeEffect, NoTxnWritten
  <1>4. ASSUME NEW g \in Grant, NEW n \in Pair, NEW owner \in BOOLEAN,
               ExchangeRefresh(h, g, n, owner)
        PROVE  ParkInv' /\ DecideInv'
    BY <1>4, ExchangeRefreshEffect, NoTxnWritten
  <1>5. CASE ReadRefresh(h) \/ ReadRefreshAgain(h)
    BY <1>5, ReadRefreshEffect, ReadRefreshAgainEffect, NoTxnWritten
  <1>6. CASE ConsumeRefresh(h) \/ RedeemRefresh(h)
    BY <1>6, ConsumeRefreshEffect, RedeemRefreshEffect, NoTxnWritten DEF WritesRefreshes
  <1>7. CASE IssueRead(h) \/ InsertAccess(h) \/ InsertRefresh(h) \/ Tokens(h)
    BY <1>7, IssueReadEffect, InsertAccessEffect, InsertRefreshEffect, TokensEffect, NoTxnWritten
       DEF WritesRefreshes, WritesElsewhere
  <1>8. CASE \/ \E g \in Grant, n \in Pair : Verify(h, g, n)
             \/ DisableClient(h) \/ AllowClient(h)
    BY <1>8, ClientEffect, NoTxnWritten DEF WritesElsewhere
  <1>9. ASSUME NEW g \in Grant, RevokeGrant(h, g) \/ \E n \in Pair : RevokeByToken(h, g, n)
        PROVE  ParkInv' /\ DecideInv'
    BY <1>9, StartRevokeEffect, NoTxnWritten
  <1>10. CASE Revoke(h) \/ Revoked(h)
    BY <1>10, RevokeEffect, RevokedEffect, NoTxnWritten DEF WritesGrants
  <1>11. CASE ManualGrant(h) \/ ManualToken(h)
    BY <1>11, ManualGrantEffect, ManualTokenEffect, NoTxnWritten DEF WritesGrants, WritesElsewhere
  <1>12. CASE TokenEndpoint(h)
    BY <1>1, <1>2, <1>3, <1>4, <1>5, <1>6, <1>7, <1>12 DEF TokenEndpoint
  <1>13. CASE Administration(h)
    BY <1>8, <1>9, <1>10, <1>11, <1>13 DEF Administration
  <1> QED
    BY <1>8, <1>12, <1>13

\* A new transaction is undecided, and known to its request only.
LEMMA DecideAuthorize ==
  ASSUME TypeInv, FreshInv, ParkInv, DecideInv, NEW h \in Handler, Authorize(h)
  PROVE  ParkInv' /\ DecideInv'
  <1>1. PICK t \in (Txn \ minted) \cup {None} :
          /\ Others(h) /\ live' = live /\ disk' = disk
          /\ At(h)' \in {"fetch", "purge"} /\ req'[h].t = t
          /\ UNCHANGED <<decided, erased>>
    BY AuthorizeEffect DEF GotoStep, ground
  <1>2. DecideInv'
    BY <1>1, DecideKept DEF Decider, Settled
  <1>3. t # None => /\ \A db \in {live, disk} : db.txn[t] = None
                    /\ decided[t] = 0
                    /\ \A k \in Handler : req[k].t # t
    BY DEF FreshInv, TypeInv, TypeOK
  <1>4. ASSUME NEW k \in Handler, At(k)' \in ParkPlace, req'[k].t # None
        PROVE  /\ \A db \in {live', disk'} : db.txn[req'[k].t] = None
               /\ decided'[req'[k].t] = 0
               /\ \A j \in Handler \ {k} : req'[j].t # req'[k].t
    BY <1>1, <1>3, <1>4 DEF ParkInv, Others
  <1> QED
    BY <1>2, <1>4 DEF ParkInv

\* Parking opens a transaction that nobody has decided.
LEMMA DecidePark ==
  ASSUME TypeInv, ParkInv, DecideInv, NEW h \in Handler, Park(h)
  PROVE  ParkInv' /\ DecideInv'
  <1> USE DEF ExecStep, env, history
  <1>1. CASE ExecStep(h, "park", "answer") /\ req'[h].t = None /\ live' = live
             /\ UNCHANGED <<env, history>>
    BY <1>1, NoTxnWritten DEF Decider
  <1>2. CASE /\ ExecStep(h, "park", "answer") /\ req'[h].t = None /\ UNCHANGED <<env, history>>
             /\ req[h].t \in Txn
             /\ live'.txn = [live.txn EXCEPT ![req[h].t] =
                     [nonce |-> 0, approved |-> FALSE, by |-> None, grant |-> None]]
    <2> DEFINE t == req[h].t
    <2>1. \A u \in Txn \ {t} : live'.txn[u] = live.txn[u]
      BY <1>2, StayTyped DEF Txns
    <2>2. t # None /\ decided[t] = 0 /\ \A k \in Handler \ {h} : req[k].t # t
      BY <1>2, NameAssumption DEF ParkInv
    <2>3. ASSUME NEW k \in Handler, At(k)' \in ParkPlace, req'[k].t # None
          PROVE  /\ \A db \in {live', disk'} : db.txn[req'[k].t] = None
                 /\ decided'[req'[k].t] = 0
                 /\ \A j \in Handler \ {k} : req'[j].t # req'[k].t
      <3>1. k # h /\ At(k) \in ParkPlace /\ req'[k] = req[k] /\ req[k].t \in Txn \ {t}
        BY <1>2, <2>2, <2>3 DEF Others, TypeInv, TypeOK
      <3>2. /\ live.txn[req[k].t] = None /\ disk.txn[req[k].t] = None
            /\ decided[req[k].t] = 0
            /\ \A j \in Handler \ {k} : req[j].t # req[k].t
        BY <2>3, <3>1 DEF ParkInv
      <3>3. live'.txn[req[k].t] = None /\ disk'.txn[req[k].t] = None
        BY <1>2, <2>1, <3>1, <3>2
      <3>4. decided' = decided /\ \A j \in Handler \ {k} : req'[j].t \in {None, req[j].t}
        BY <1>2 DEF Others
      <3> QED
        BY <2>3, <3>1, <3>2, <3>3, <3>4
    <2>4. DecideInv'
      <3> SUFFICES ASSUME ~erased PROVE DecideInv'
        BY <1>2 DEF DecideInv, TypeInv, TypeOK
      <3>1. ASSUME NEW k \in Handler, Decider(k)'
            PROVE  /\ decided'[req'[k].t] = 0
                   /\ Settled(live', req'[k].t)
                   /\ req'[k].pc # "commit" => Settled(disk', req'[k].t)
                   /\ \A j \in Handler : Decider(j)' /\ req'[j].t = req'[k].t => j = k
        <4>1. k # h /\ Decider(k) /\ req'[k] = req[k]
          BY <1>2, <3>1 DEF Others, Decider
        <4>2. req[k].t \in Txn \ {t}
          BY <2>2, <4>1 DEF TypeInv, ReqInv, Equipped, Decider
        <4>3. /\ decided[req[k].t] = 0 /\ Settled(live, req[k].t)
              /\ req[k].pc # "commit" => Settled(disk, req[k].t)
              /\ \A j \in Handler : Decider(j) /\ req[j].t = req[k].t => j = k
          BY <4>1 DEF DecideInv
        <4>4. Settled(live', req[k].t)
          BY <2>1, <4>2, <4>3 DEF Settled
        <4>5. \A j \in Handler : Decider(j)' => Decider(j) /\ req'[j] = req[j]
          BY <1>2 DEF Others, Decider
        <4> QED
          BY <1>2, <4>1, <4>3, <4>4, <4>5
      <3>2. ASSUME NEW u \in Txn
            PROVE  decided'[u] <= 1 /\ (decided'[u] = 1 => Settled(live', u) /\ Settled(disk', u))
        <4>1. /\ decided' = decided /\ decided[u] <= 1
              /\ decided[u] = 1 => Settled(live, u) /\ Settled(disk, u)
          BY <1>2 DEF DecideInv
        <4>2. CASE u = t
          BY <2>2, <4>1, <4>2
        <4>3. CASE u # t
          <5>1. Settled(live, u) => Settled(live', u)
            BY SMTT(30), <2>1, <4>3 DEF Settled
          <5> QED
            BY <1>2, <4>1, <5>1
        <4> QED
          BY <4>2, <4>3
      <3> QED
        BY <3>1, <3>2 DEF DecideInv, Settled
    <2> QED
      BY <2>3, <2>4 DEF ParkInv
  <1> QED
    BY <1>1, <1>2, ParkEffect DEF WritesTxns

\* The conditional update that decides: nobody has decided before it.
LEMMA DecideHit ==
  ASSUME TypeInv, DecideInv, NEW h \in Handler, Others(h), disk' = disk \/ disk' = live',
         NEW t \in Txn, req'[h].t = t, ~Settled(live, t), req'[h].pc = "commit",
         live'.txn[t].approved \/ live'.txn[t].by # None,
         \A u \in Txn \ {t} : live'.txn[u] = live.txn[u],
         decided' = decided, erased' = erased
  PROVE  DecideInv'
  <1> SUFFICES ASSUME ~erased PROVE DecideInv'
    BY DEF DecideInv, TypeInv, TypeOK
  <1>1. decided[t] = 0 /\ \A k \in Handler : Decider(k) => req[k].t # t
    BY DEF DecideInv, TypeInv, TypeOK
  <1>2. Settled(live', t) /\ \A u \in Txn \ {t} : Settled(live, u) => Settled(live', u)
    BY DEF Settled
  <1>3. \A k \in Handler \ {h} : Decider(k)' => Decider(k) /\ req'[k] = req[k]
    BY DEF Others, Decider
  <1>4. ASSUME NEW k \in Handler \ {h}, Decider(k)'
        PROVE  /\ decided'[req'[k].t] = 0
               /\ Settled(live', req'[k].t)
               /\ req'[k].pc # "commit" => Settled(disk', req'[k].t)
               /\ \A j \in Handler : Decider(j)' /\ req'[j].t = req'[k].t => j = k
    <2>1. Decider(k) /\ req'[k] = req[k] /\ req[k].t # t
      BY <1>1, <1>3, <1>4
    <2>2. req[k].t \in Txn
      BY <2>1 DEF TypeInv, ReqInv, Equipped, Decider
    <2>3. /\ decided[req[k].t] = 0 /\ Settled(live, req[k].t)
          /\ req[k].pc # "commit" => Settled(disk, req[k].t)
          /\ \A j \in Handler : Decider(j) /\ req[j].t = req[k].t => j = k
      BY <2>1 DEF DecideInv
    <2>4. Settled(live', req[k].t)
      BY <1>2, <2>1, <2>2, <2>3
    <2>5. \A j \in Handler : Decider(j)' /\ req'[j].t = req'[k].t => j = k
      BY <1>3, <2>1, <2>3
    <2> QED
      BY <2>1, <2>3, <2>4, <2>5
  <1>5. \A j \in Handler : Decider(j)' /\ req'[j].t = t => j = h
    BY <1>1, <1>3
  <1>6. ASSUME NEW u \in Txn
        PROVE  decided'[u] <= 1 /\ (decided'[u] = 1 => Settled(live', u) /\ Settled(disk', u))
    <2>1. /\ decided[u] <= 1
          /\ decided[u] = 1 => u # t /\ Settled(live, u) /\ Settled(disk, u)
      BY <1>1 DEF DecideInv
    <2> QED
      BY <1>2, <2>1
  <1>7. ASSUME NEW k \in Handler, Decider(k)'
        PROVE  /\ decided'[req'[k].t] = 0
               /\ Settled(live', req'[k].t)
               /\ req'[k].pc # "commit" => Settled(disk', req'[k].t)
               /\ \A j \in Handler : Decider(j)' /\ req'[j].t = req'[k].t => j = k
    BY <1>1, <1>2, <1>4, <1>5, <1>7
  <1> QED
    BY <1>6, <1>7 DEF DecideInv, Settled

\* An approval or a denial that hits its row is the first one.
LEMMA DecideClaim ==
  ASSUME TypeInv, ParkInv, DecideInv, NEW h \in Handler, Claim(h) \/ Deny(h)
  PROVE  ParkInv' /\ DecideInv'
  <1> DEFINE hit == Undecided(req[h].t, req[h].n)
  <1>1. PICK t \in Txn :
          /\ Others(h) /\ (disk' = disk \/ disk' = live') /\ req[h].t = t /\ req'[h].t = t
          /\ req'[h].pc = "commit" /\ At(h)' \in {"claimed", "denied"}
          /\ req'[h].hit = hit /\ UNCHANGED <<decided, erased>>
          /\ ~hit => live' = live
          /\ hit => \/ live'.txn = [live.txn EXCEPT ![t] = [live.txn[t] EXCEPT !.approved = TRUE]]
                    \/ live'.txn = [live.txn EXCEPT ![t] = [live.txn[t] EXCEPT !.by = Unmarked]]
    BY ClaimEffect, DenyEffect DEF ExecStep, Keeps, WritesTxns, env, history
  <1>2. CASE ~hit
    BY <1>1, <1>2, NoTxnWritten DEF Decider
  <1>3. CASE hit
    <2>1. live.txn[t] # None /\ ~live.txn[t].approved /\ live.txn[t].by = None
      BY <1>1, <1>3 DEF Undecided
    <2>2. /\ live'.txn[t].approved \/ live'.txn[t].by # None
          /\ \A u \in Txn \ {t} : live'.txn[u] = live.txn[u]
      BY <1>1, <1>3, <2>1, StayTyped, NameAssumption DEF Txns, TxnRow
    <2>3. ~Settled(live, t)
      BY <2>1 DEF Settled
    <2>4. DecideInv'
      BY <1>1, <2>2, <2>3, DecideHit
    <2>5. ParkInv'
      BY <1>1, <2>1, <2>2, ParkKept
    <2> QED
      BY <2>4, <2>5
  <1> QED
    BY <1>2, <1>3

\* The answer that counts the decision.
LEMMA DecideAnswer ==
  ASSUME TypeInv, ParkInv, DecideInv, NEW h \in Handler, Allowed(h) \/ Denied(h)
  PROVE  ParkInv' /\ DecideInv'
  <1>1. PICK t \in Txn :
          /\ Others(h) /\ live' = live /\ disk' = disk /\ req[h].t = t
          /\ At(h)' = "idle" /\ req'[h].t = None /\ erased' = erased
          /\ req[h].pc # "commit" /\ At(h) \in {"allowed", "denied"}
          /\ \/ decided' = decided
             \/ Decider(h) /\ decided' = [decided EXCEPT ![t] = @ + 1]
    <2>1. CASE Allowed(h)
      BY <2>1, AllowedEffect DEF AnswerStep, GotoStep, Decider, env
    <2>2. CASE Denied(h)
      <3>1. /\ AnswerStep(h, "denied") /\ req[h].pc = "denied" /\ req[h].t \in Txn
            /\ decided' = [decided EXCEPT ![req[h].t] =
                              IF req[h].hit THEN decided[req[h].t] + 1 ELSE decided[req[h].t]]
            /\ erased' = erased
        BY <2>2, DeniedEffect DEF env
      <3>2. CASE req[h].hit
        BY <3>1, <3>2 DEF AnswerStep, GotoStep, Decider
      <3>3. CASE ~req[h].hit
        <4>1. decided' = decided
          BY <3>1, <3>3 DEF TypeInv, TypeOK
        <4> QED
          BY <3>1, <4>1 DEF AnswerStep, GotoStep
      <3> QED
        BY <3>2, <3>3
    <2> QED
      BY <2>1, <2>2
  <1>2. CASE decided' = decided
    BY <1>1, <1>2, NoTxnWritten DEF Decider
  <1>3. CASE Decider(h) /\ decided' = [decided EXCEPT ![t] = @ + 1]
    <2>1. \A u \in Txn : decided'[u] = IF u = t THEN decided[t] + 1 ELSE decided[u]
      BY <1>3 DEF TypeInv, TypeOK
    <2>2. ParkInv'
      BY SMTT(30), <1>1, <2>1, ParkKept
    <2>3. DecideInv'
      <3> SUFFICES ASSUME ~erased PROVE DecideInv'
        BY <1>1 DEF DecideInv, TypeInv, TypeOK
      <3>1. /\ decided[t] = 0 /\ Settled(live, t) /\ Settled(disk, t)
            /\ \A k \in Handler : Decider(k) /\ req[k].t = t => k = h
        BY <1>1, <1>3 DEF DecideInv
      <3>2. \A k \in Handler : Decider(k)' => k # h /\ Decider(k) /\ req'[k] = req[k]
        BY <1>1 DEF Others, Decider
      <3>3. ASSUME NEW k \in Handler, Decider(k)'
            PROVE  /\ decided'[req'[k].t] = 0
                   /\ Settled(live', req'[k].t)
                   /\ req'[k].pc # "commit" => Settled(disk', req'[k].t)
                   /\ \A j \in Handler : Decider(j)' /\ req'[j].t = req'[k].t => j = k
        <4>1. Decider(k) /\ req'[k] = req[k] /\ req[k].t # t
          BY <3>1, <3>2, <3>3
        <4>2. req[k].t \in Txn
          BY <4>1 DEF TypeInv, ReqInv, Equipped, Decider
        <4>3. /\ decided[req[k].t] = 0 /\ Settled(live, req[k].t)
              /\ req[k].pc # "commit" => Settled(disk, req[k].t)
              /\ \A j \in Handler : Decider(j) /\ req[j].t = req[k].t => j = k
          BY <4>1 DEF DecideInv
        <4>4. decided'[req[k].t] = 0
          BY <2>1, <4>1, <4>2, <4>3
        <4> QED
          BY <1>1, <3>2, <4>1, <4>3, <4>4
      <3>4. ASSUME NEW u \in Txn
            PROVE  decided'[u] <= 1 /\ (decided'[u] = 1 => Settled(live', u) /\ Settled(disk', u))
        <4>1. CASE u = t
          BY <1>1, <2>1, <3>1, <4>1
        <4>2. CASE u # t
          BY <1>1, <2>1, <4>2 DEF DecideInv
        <4> QED
          BY <4>1, <4>2
      <3> QED
        BY <3>3, <3>4 DEF DecideInv, Settled
    <2> QED
      BY <2>2, <2>3
  <1> QED
    BY <1>1, <1>2, <1>3

\* Consent pages decide nothing.
LEMMA DecidePages ==
  ASSUME TypeInv, ParkInv, DecideInv, NEW h \in Handler,
         \/ FetchDocument(h) \/ Purge(h) \/ ArmConsent(h) \/ ShowPage(h)
         \/ \E t \in Txn : ConsentPage(h, t)
         \/ \E t \in Txn, k \in 1..MaxPages, allow \in BOOLEAN : ConsentDecision(h, t, k, allow)
  PROVE  ParkInv' /\ DecideInv'
  <1> USE DEF ExecStep, GotoStep, AnswerStep, Keeps, Decider, env, ground, history
  <1>1. CASE FetchDocument(h)
    BY <1>1, FetchDocumentEffect, NoTxnWritten
  <1>2. CASE Purge(h)
    <2>1. CASE AnswerStep(h, "purge") /\ UNCHANGED <<env, history>>
      BY <2>1, NoTxnWritten
    <2>2. CASE /\ ExecStep(h, "purge", "park") /\ Keeps(h) /\ UNCHANGED <<env, history>>
               /\ live'.txn = [t \in Txn |-> IF t \in old THEN None ELSE live.txn[t]]
      <3>1. \A t \in Txn : live'.txn[t] \in {None, live.txn[t]}
        BY <2>2
      <3>2. \A t \in Txn : Settled(live, t) => Settled(live, t)'
        BY <3>1 DEF Settled
      <3> QED
        BY <2>2, <3>1, <3>2, UndecisiveStep DEF Undecisive
    <2> QED
      BY <1>2, <2>1, <2>2, PurgeEffect DEF WritesTxns
  <1>3. CASE ArmConsent(h)
    <2>1. /\ ExecStep(h, "arm", "page") /\ req'[h].t = req[h].t /\ req[h].t \in Txn
          /\ UNCHANGED <<decided, erased>>
          /\ \/ live' = live
             \/ /\ live.txn[req[h].t] # None
                /\ live'.txn = [live.txn EXCEPT ![req[h].t] =
                      [live.txn[req[h].t] EXCEPT !.nonce = pages[req[h].t] + 1]]
      BY <1>3, ArmConsentEffect DEF WritesTxns
    <2>2. \A t \in Txn : \/ live'.txn[t] = live.txn[t]
                         \/ /\ live.txn[t] # None
                            /\ live'.txn[t].approved = live.txn[t].approved
                            /\ live'.txn[t].by = live.txn[t].by
      BY <2>1, StayTyped DEF Txns, TxnRow
    <2>3. \A t \in Txn : Settled(live, t) => Settled(live, t)'
      BY <2>2 DEF Settled
    <2> QED
      BY <2>1, <2>2, <2>3, UndecisiveStep DEF Undecisive
  <1>4. CASE ShowPage(h)
    BY <1>4, ShowPageEffect, NoTxnWritten
  <1>5. ASSUME NEW t \in Txn, ConsentPage(h, t) PROVE ParkInv' /\ DecideInv'
    BY <1>5, ConsentPageEffect, NoTxnWritten
  <1>6. ASSUME NEW t \in Txn, NEW k \in 1..MaxPages, NEW allow \in BOOLEAN,
               ConsentDecision(h, t, k, allow)
        PROVE  ParkInv' /\ DecideInv'
    BY <1>6, ConsentDecisionEffect, NoTxnWritten
  <1> QED
    BY <1>1, <1>2, <1>3, <1>4, <1>5, <1>6

\* What the winner does next, up to its answer.
LEMMA DecideOn ==
  ASSUME TypeInv, ParkInv, DecideInv, NEW h \in Handler,
         Claimed(h) \/ InsertGrant(h) \/ Mint(h) \/ Commit(h)
  PROVE  ParkInv' /\ DecideInv'
  <1> USE DEF ExecStep, GotoStep, AnswerStep, Keeps, env, ground, history
  <1>1. CASE Claimed(h)
    <2>1. CASE AnswerStep(h, "claimed") /\ UNCHANGED <<env, history>>
      BY <2>1, NoTxnWritten DEF Decider
    <2>2. CASE GotoStep(h, "claimed", "grant") /\ Keeps(h) /\ req[h].hit /\ UNCHANGED <<env, history>>
      <3>1. req[h].pc # "commit"
        BY <1>1 DEF Claimed
      <3>2. ParkInv'
        BY <2>2, ParkKept
      <3>3. Decider(h)
        BY <2>2 DEF Decider
      <3>4. DecideInv'
        BY <2>2, <3>1, <3>3, DecideKept DEF Settled
      <3> QED
        BY <3>2, <3>4
    <2> QED
      BY <1>1, <2>1, <2>2, ClaimedEffect
  <1>2. CASE InsertGrant(h)
    <2>1. /\ ExecStep(h, "grant", "mint") /\ req'[h].t = req[h].t
          /\ live'.txn = live.txn /\ UNCHANGED <<decided, erased>>
      BY <1>2, InsertGrantEffect DEF WritesGrants
    <2>2. Decider(h) /\ \A t \in Txn : Settled(live, t) => Settled(live, t)'
      BY <2>1 DEF Decider, Settled
    <2> QED
      BY <2>1, <2>2, ParkKept, DecideKept
  <1>3. CASE Mint(h)
    <2>1. CASE AnswerStep(h, "mint") /\ UNCHANGED <<erased, history>>
      BY <2>1, NoTxnWritten DEF Decider
    <2>2. CASE /\ ExecStep(h, "mint", "allowed") /\ Keeps(h) /\ UNCHANGED <<erased, history>>
               /\ req[h].t \in Txn
               /\ \/ live' = live
                  \/ /\ live.txn[req[h].t] # None
                     /\ live'.txn = [live.txn EXCEPT ![req[h].t] =
                                       [live.txn[req[h].t] EXCEPT !.grant = req[h].g]]
      <3>1. \A t \in Txn : \/ live'.txn[t] = live.txn[t]
                           \/ /\ live.txn[t] # None
                              /\ live'.txn[t].approved = live.txn[t].approved
                              /\ live'.txn[t].by = live.txn[t].by
        BY <2>2, StayTyped DEF Txns, TxnRow
      <3>2. Decider(h) /\ \A t \in Txn : Settled(live, t) => Settled(live, t)'
        BY <2>2, <3>1 DEF Decider, Settled
      <3>3. ParkInv'
        BY <2>2, <3>1, ParkKept
      <3>4. DecideInv'
        BY <2>2, <3>2, DecideKept
      <3> QED
        BY <3>3, <3>4
    <2> QED
      BY <1>3, <2>1, <2>2, MintEffect DEF WritesTxns
  <1>4. CASE Commit(h)
    <2>1. /\ Others(h) /\ live' = live /\ disk' = live' /\ UNCHANGED <<decided, erased>>
          /\ \/ At(h)' = "idle" /\ req'[h].t = None
             \/ At(h)' = At(h) /\ req'[h].t = req[h].t /\ req'[h].hit = req[h].hit
      BY <1>4, CommitEffect
    <2>2. Decider(h)' => Decider(h) /\ req'[h].t = req[h].t
      BY <2>1 DEF Decider
    <2>3. ParkInv'
      BY <2>1, ParkKept
    <2>4. DecideInv'
      BY <2>1, <2>2, DecideKept DEF Settled
    <2> QED
      BY <2>3, <2>4
  <1> QED
    BY <1>1, <1>2, <1>3, <1>4

\* ParkInv and DecideInv are inductive.
LEMMA DecideStep ==
  ASSUME TypeInv, TypeInv', FreshInv, ParkInv, DecideInv, [Next]_vars
  PROVE  ParkInv' /\ DecideInv'
  <1>1. ASSUME NEW h \in Handler, Request(h) PROVE ParkInv' /\ DecideInv'
    <2>1. CASE Consent(h)
      BY <2>1, DecidePages, DecideClaim, DecideAnswer, DecideOn DEF Consent
    <2> QED
      BY <1>1, <2>1, DecideAuthorize, DecidePark, DecidePages, DecideOn, UndecisiveTokens
         DEF Request
  <1>2. ASSUME req' = req, UNCHANGED history, {live', disk'} \subseteq {live, disk},
               ~erased' => ~erased /\ live' = live
        PROVE  ParkInv' /\ DecideInv'
    <2>1. \A h \in Handler : At(h)' = At(h) /\ Decider(h)' = Decider(h)
      BY <1>2 DEF At, Decider
    <2>2. ParkInv'
      BY SMTT(30), <1>2, <2>1 DEF ParkInv, history
    <2>3. ASSUME ~erased' PROVE DecideInv'
      <3>1. ~erased /\ live' = live /\ decided' = decided /\ (disk' = disk \/ disk' = live)
        BY <1>2, <2>3 DEF history
      <3>2. ASSUME NEW k \in Handler, Decider(k)'
            PROVE  /\ decided'[req'[k].t] = 0
                   /\ Settled(live', req'[k].t)
                   /\ req'[k].pc # "commit" => Settled(disk', req'[k].t)
                   /\ \A j \in Handler : Decider(j)' /\ req'[j].t = req'[k].t => j = k
        <4>1. Decider(k) /\ \A j \in Handler : Decider(j)' => Decider(j)
          BY <2>1, <3>2
        <4>2. /\ decided[req[k].t] = 0 /\ Settled(live, req[k].t)
              /\ req[k].pc # "commit" => Settled(disk, req[k].t)
              /\ \A j \in Handler : Decider(j) /\ req[j].t = req[k].t => j = k
          BY <3>1, <4>1 DEF DecideInv
        <4> QED
          BY <1>2, <3>1, <4>1, <4>2
      <3>3. ASSUME NEW u \in Txn
            PROVE  decided'[u] <= 1 /\ (decided'[u] = 1 => Settled(live', u) /\ Settled(disk', u))
        BY <3>1 DEF DecideInv
      <3> QED
        BY <3>2, <3>3 DEF DecideInv, Settled
    <2>4. ASSUME erased' = TRUE PROVE DecideInv'
      BY <2>4 DEF DecideInv
    <2> QED
      BY <2>2, <2>3, <2>4, Zenon DEF TypeInv, TypeOK
  <1>3. CASE BlockRollback
    <2>1. erased' = (erased \/ live' # live)
      BY <1>3, Zenon DEF BlockRollback
    <2>2. ~erased' => ~erased /\ live' = live
      BY <2>1
    <2> QED
      BY <1>2, <1>3, <2>2 DEF BlockRollback
  <1>4. CASE BlockWrite \/ BlockCommit \/ (\E x \in Txn \cup Grant : Expire(x)) \/ UNCHANGED vars
    BY <1>2, <1>4 DEF BlockWrite, BlockCommit, Expire, vars, history
  <1>5. CASE Crash
    <2>1. /\ live' = disk /\ disk' = disk /\ decided' = decided /\ erased' = erased
          /\ \A h \in Handler : At(h)' = "idle" /\ req'[h].t = None
      BY <1>5, CrashEffect DEF history
    <2>2. ParkInv'
      BY SMTT(30), <2>1 DEF ParkInv
    <2>3. DecideInv'
      BY <2>1 DEF DecideInv, Decider, Settled
    <2> QED
      BY <2>2, <2>3
  <1> QED
    BY <1>1, <1>3, <1>4, <1>5 DEF Next

-----------------------------------------------------------------------------
(* The theorems                                                            *)

\* The initial states satisfy all of them.
LEMMA StoreInit ==
  ASSUME Init
  PROVE  TypeInv /\ FreshInv /\ ChainInv /\ RevInv /\ ParkInv /\ DecideInv
  <1>1. /\ live.txn = [t \in Txn |-> None] /\ live.grant = [g \in Grant |-> None]
        /\ live.refresh = [g \in Grant |-> [n \in Pair |-> None]] /\ disk = live
        /\ req = [h \in Handler |-> Idle] /\ known = {} /\ ended = {} /\ minted = {}
        /\ spent = [g \in Grant |-> 0] /\ issued = [g \in Grant |-> 0]
        /\ decided = [t \in Txn |-> 0]
    BY DEF Init
  <1>2. \A h \in Handler : At(h) = "idle" /\ req[h].pc = "idle" /\ req[h].t = None /\ req[h].g = None
    BY <1>1 DEF At, Spot, Idle
  <1>3. TypeOK
    <2>1. live \in Database /\ disk = live
      BY DEF Init, Database, TxnRow, GrantRow
    <2>2. \A h \in Handler : req[h].hit = FALSE
      BY <1>1 DEF Idle
    <2>3. /\ 0 \in 0..2 /\ 0 \in 0..MaxFaults /\ 0 \in 0..MaxRequests
          /\ pages \in [Txn -> 0..MaxPages]
          /\ spent \in [Grant -> Nat] /\ issued \in [Grant -> 0..MaxPairs]
          /\ decided \in [Txn -> Nat]
      BY BoundAssumption DEF Init
    <2>4. DOMAIN req = Handler
      BY <1>1
    <2>5. /\ dialect \in Dialects /\ block = 0 /\ old = {} /\ faults = 0 /\ erased = FALSE
          /\ requests = 0 /\ served = {}
      BY DEF Init
    <2> QED
      BY <1>1, <1>2, <2>1, <2>2, <2>3, <2>4, <2>5 DEF TypeOK
  <1>4. ReqInv
    BY <1>1, <1>2, IdleType DEF ReqInv, Equipped
  <1>5. TypeInv
    BY <1>3, <1>4 DEF TypeInv, Init
  <1>6. FreshInv
    BY <1>1, <1>2 DEF FreshInv
  <1>7. ChainInv
    <2>1. MintInv
      BY <1>1, <1>2 DEF MintInv, Unused, OneRow, HasCode
    <2>2. CodeInv
      BY <1>1, <1>2 DEF CodeInv, SpentCode, CodeOwn, HasCode
    <2>3. RefreshInv
      BY <1>1, <1>2 DEF RefreshInv, RefreshRow, RefreshOwn
    <2>4. IssueInv
      BY <1>1, <1>2 DEF IssueInv, IssueOwn
    <2> QED
      BY <2>1, <2>2, <2>3, <2>4 DEF ChainInv
  <1>8. RevInv
    BY <1>1, <1>2 DEF RevInv
  <1>9. ParkInv /\ DecideInv
    BY <1>1, <1>2 DEF ParkInv, DecideInv, Decider
  <1> QED
    BY <1>5, <1>6, <1>7, <1>8, <1>9

\* Every variable of the grant store keeps its type.
THEOREM TypeSafe == Spec => []TypeOK
  <1>1. Init => TypeInv
    BY StoreInit
  <1>2. TypeInv /\ [Next]_vars => TypeInv'
    BY TypeStep
  <1>3. TypeInv => TypeOK
    BY DEF TypeInv
  <1> QED
    BY <1>1, <1>2, <1>3, PTL DEF Spec

\* The inductive invariant.
StoreInv == TypeInv /\ FreshInv /\ ChainInv /\ RevInv /\ ParkInv /\ DecideInv

\* The inductive invariant of the grant store holds in every state.
THEOREM StoreInvariant == Spec => []StoreInv
  <1>1. Init => StoreInv
    BY StoreInit DEF StoreInv
  <1>2. StoreInv /\ [Next]_vars => StoreInv'
    BY TypeStep, FreshStep, ChainInvStep, RevStep, DecideStep DEF StoreInv
  <1> QED
    BY <1>1, <1>2, PTL DEF Spec

\* Once a revocation was answered (revoke_grant, or the end of a replay), the
\* grant is gone or revoked, in what statements see and in what a restart
\* finds, unless another request's rollback has erased statements.
THEOREM RevocationsLast == Spec => []RevocationDurable
  <1>1. StoreInv => RevocationDurable
    BY DEF StoreInv, RevInv, Gone, RevocationDurable, RevocationSticks
  <1> QED
    BY <1>1, StoreInvariant, PTL

\* The grant store implements the chain of one-time credentials, for any
\* number of requests, rollbacks and restarts: redeem_code and
\* redeem_refresh_token let one exchange through, and issue_tokens mints a
\* pair for that one only.
THEOREM StoreRefinesChain == Spec => ChainSpec
  <1>1. Init => Chain!Init
    BY DEF Init, Chain!Init
  <1>2. StoreInv /\ [Next]_vars => [Chain!Next]_<<spent, issued>>
    BY ChainSimulates DEF StoreInv
  <1> QED
    BY <1>1, <1>2, StoreInvariant, PTL DEF Spec, ChainSpec, Chain!Spec

\* A consent request is decided once (approve_transaction and its denial),
\* over all pages and tabs, unless a rollback has erased statements.
THEOREM DecidedOnce == Spec => []DecisionOnce
  <1>1. StoreInv => DecisionOnce
    BY DEF StoreInv, DecideInv, DecisionOnce
  <1> QED
    BY <1>1, StoreInvariant, PTL
=============================================================================
