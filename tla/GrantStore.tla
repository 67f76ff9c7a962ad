----------------------------- MODULE GrantStore -----------------------------
(***************************************************************************)
(* The grant store of the MCP endpoint (repos/oauth.py) and the            *)
(* authorization server over it (mcp/authz.py, mcp/auth.py), on the        *)
(* database layer of db.py.                                                *)
(*                                                                         *)
(* On SQLite every request shares ONE connection: a statement is visible   *)
(* to all of them at once, anybody's commit makes everybody's statements   *)
(* durable and the rollback of a failing transaction block erases every    *)
(* statement that is not yet durable, whoever wrote it.  On PostgreSQL a   *)
(* statement outside a block commits by itself and a block is a real       *)
(* transaction.  `live' is what statements see, `disk' what is durable;    *)
(* each step is one awaited call, so another request, the end of a block   *)
(* or a crash may fall between any two of them.                            *)
(*                                                                         *)
(* One client of the browser flow stands for all of them (`owner' is the   *)
(* request that comes from the client a credential belongs to, with the    *)
(* right redirect URI and verifier); digests are the credentials' names,   *)
(* a request marker is the request.  Scopes appear as `wider', resources   *)
(* as requests that are refused.                                           *)
(***************************************************************************)
EXTENDS Naturals

CONSTANTS
    None,        \* SQL NULL, or a row that does not exist
    Unmarked,    \* consumed_at without a consumed_by: a denied transaction
    Txn,         \* authorization transactions (uuid4)
    Grant,       \* grants (uuid4)
    Handler,     \* requests under way on the event loop at the same time
    Dialects,    \* the databases of the run: "sqlite", "postgres"
    MaxPairs,    \* bound: token pairs minted under a grant
    MaxPages,    \* bound: consent pages served for a transaction
    MaxFaults,   \* bound: blocks that fail, and crashes
    MaxRequests, \* bound: requests
    Ops          \* the requests the run's clients and operators send

AllOps == {"authorize", "consent", "code", "refresh", "verify", "revoke_token",
           "revoke_grant", "disable", "allow", "manual", "block"}

ASSUME DialectAssumption == Dialects \subseteq {"sqlite", "postgres"} /\ Dialects # {}
ASSUME BoundAssumption   == /\ {MaxPairs, MaxPages, MaxFaults, MaxRequests} \subseteq Nat
                            /\ MaxPairs # 0
ASSUME NameAssumption    == /\ {None, Unmarked} \cap (Txn \cup Grant \cup Handler \cup Nat) = {}
                            /\ None # Unmarked
ASSUME OpsAssumption     == Ops \subseteq AllOps

VARIABLES
    dialect,  \* which database the installation runs on
    live,     \* the database as a statement on the (shared) connection sees it
    disk,     \* the database as a restart would find it
    req,      \* req[h]: the request the handler h is serving
    block,    \* a db.transaction() block of some other request
    old,      \* transactions and grants whose expires_at has passed
    faults,   \* blocks that failed, and crashes
    erased,   \* a rollback has erased statements of other requests
    requests, \* requests so far
    minted,   \* transaction and grant ids that uuid4 has returned
    pages,    \* pages[t]: nonces generated for t so far
    served,   \* the consent pages an administrator has seen: <<t, nonce>>
    known,    \* credentials answered to a client: <<g, 0>> the code, <<g, n>> pair n
    spent,    \* redemptions that succeeded, per grant
    issued,   \* token pairs minted, per grant
    decided,  \* consent decisions acknowledged, per transaction
    ended     \* grants whose revocation was acknowledged

history == <<minted, pages, served, known, spent, issued, decided, ended>>
ground  == <<dialect, block, old, faults, erased>>
env     == <<dialect, block, old, faults, erased, requests>>
vars    == <<dialect, live, disk, req, block, old, faults, erased, requests, minted,
             pages, served, known, spent, issued, decided, ended>>

Pair == 1..MaxPairs
Cred == Grant \X (0..MaxPairs)

Idle == [pc |-> "idle", then |-> "idle", t |-> None, g |-> None, n |-> 0,
         hit |-> FALSE, owner |-> FALSE, late |-> FALSE]

-----------------------------------------------------------------------------
(* The connection                                                          *)

\* A write statement outside a block, and what follows its commit.
Exec(h, db, r, then) ==
    /\ live' = db
    /\ disk' = IF dialect = "postgres" THEN db ELSE disk
    /\ req' = [req EXCEPT ![h] = [r EXCEPT !.pc = "commit", !.then = then]]

\* A statement whose request goes on to another statement before it commits.
ExecMore(h, db, r, next) ==
    /\ live' = db
    /\ disk' = IF dialect = "postgres" THEN db ELSE disk
    /\ req' = [req EXCEPT ![h] = [r EXCEPT !.pc = next]]

\* A read, or no database call at all.
Goto(h, r, next) ==
    /\ req' = [req EXCEPT ![h] = [r EXCEPT !.pc = next]]
    /\ UNCHANGED <<live, disk>>

\* A handler that is free takes up a request.
Accept(h) == req[h].pc = "idle" /\ requests < MaxRequests /\ requests' = requests + 1

Answer(h) == req' = [req EXCEPT ![h] = Idle] /\ UNCHANGED <<live, disk>>

\* await db.commit(): everybody's statements become durable.
Commit(h) ==
    /\ req[h].pc = "commit"
    /\ disk' = live
    /\ req' = [req EXCEPT ![h] = IF req[h].then = "answer" THEN Idle
                                 ELSE [req[h] EXCEPT !.pc = req[h].then, !.then = "idle"]]
    /\ UNCHANGED <<live, env, history>>

\* Another request's block executes two statements and ends; it commits or
\* raises.  Inside it commit() is deferred; outside it nobody knows of it.
\* Its statements are about other tables; what matters here is how it ends.
BlockWrite ==
    /\ "block" \in Ops
    /\ block < 2
    /\ faults < MaxFaults
    /\ block' = block + 1
    /\ UNCHANGED <<dialect, live, disk, req, old, faults, erased, requests, history>>

BlockCommit ==
    /\ block = 2
    /\ block' = 0
    /\ disk' = live
    /\ UNCHANGED <<dialect, live, req, old, faults, erased, requests, history>>

BlockRollback ==
    /\ block > 0
    /\ block' = 0
    /\ faults' = faults + 1
    /\ live' = IF dialect = "sqlite" THEN disk ELSE live
    /\ erased' = (erased \/ live' # live)
    /\ UNCHANGED <<dialect, disk, req, old, requests, history>>

\* The process dies; a restart finds what is durable.
Crash ==
    /\ faults < MaxFaults
    /\ faults' = faults + 1
    /\ live' = disk
    /\ req' = [h \in Handler |-> Idle]
    /\ block' = 0
    /\ UNCHANGED <<dialect, disk, old, erased, requests, history>>

\* Time passes a deadline: of a transaction or its code (ten minutes), or of
\* a grant and everything under it (thirty days, never extended).  An access
\* token's own hour only refuses requests, which change nothing.
Expire(x) ==
    /\ x \in minted \ old
    /\ old' = old \cup {x}
    /\ UNCHANGED <<dialect, live, disk, req, block, faults, erased, requests, history>>

-----------------------------------------------------------------------------
(* Rows                                                                    *)

\* get_transaction: a row that is still open, unexpired and not consumed.
Open(t) == live.txn[t] # None /\ live.txn[t].by = None /\ t \notin old

\* The transaction row that holds the code of g (code_hash is unique).
CodeRow(g) == {t \in Txn : live.txn[t] # None /\ live.txn[t].grant = g}

\* The client behind a grant is enabled; operators cannot disable the client
\* of the manual tokens.
ClientOn(g) == live.grant[g].txn = None \/ live.on

-----------------------------------------------------------------------------
(* GET /oauth/authorize                                                    *)

\* _resolve_client reads the row; a document that is not fresh is fetched
\* (when it was read is not part of the model).  None stands for a request
\* whose transaction is not followed further.
Authorize(h) ==
    /\ "authorize" \in Ops
    /\ Accept(h)
    /\ live.on
    /\ \E t \in (Txn \ minted) \cup {None} :
        /\ t # None => minted \cap Grant = {}
        /\ minted' = minted \cup ({t} \ {None})
        /\ \E next \in {"fetch", "purge"} : Goto(h, [Idle EXCEPT !.t = t], next)
    /\ UNCHANGED <<ground, pages, served, known, spent, issued, decided, ended>>

\* fetch_document fails one of its checks, or its result is cached; the row
\* read again afterwards is used as it is.
FetchDocument(h) ==
    /\ req[h].pc = "fetch"
    /\ \/ Answer(h)
       \/ Exec(h, live, req[h], "purge")
    /\ UNCHANGED <<env, history>>

\* A redirect URI, scope or resource that does not match is refused here.
Purge(h) ==
    /\ req[h].pc = "purge"
    /\ \/ Answer(h)
       \/ Exec(h, [live EXCEPT !.txn = [t \in Txn |->
                     IF t \in old THEN None ELSE @[t]]],
               req[h], "park")
    /\ UNCHANGED <<env, history>>

Park(h) ==
    /\ req[h].pc = "park"
    /\ Exec(h, IF req[h].t = None THEN live
               ELSE [live EXCEPT !.txn[req[h].t] =
                       [nonce |-> 0, approved |-> FALSE, by |-> None, grant |-> None]],
            Idle, "answer")
    /\ UNCHANGED <<env, history>>

-----------------------------------------------------------------------------
(* The consent page and its decision                                       *)

ConsentPage(h, t) ==
    /\ "consent" \in Ops
    /\ Accept(h)
    /\ pages[t] < MaxPages
    /\ Open(t)
    /\ Goto(h, [Idle EXCEPT !.t = t], "arm")
    /\ UNCHANGED <<ground, history>>

\* arm_consent: a new page makes the nonce of every earlier one stale.
ArmConsent(h) ==
    LET t == req[h].t
        row == live.txn[t]
        open == row # None /\ ~row.approved /\ row.by = None
    IN  /\ req[h].pc = "arm"
        /\ pages[t] < MaxPages
        /\ pages' = [pages EXCEPT ![t] = @ + 1]
        /\ Exec(h, IF open THEN [live EXCEPT !.txn[t].nonce = pages[t] + 1] ELSE live,
                [req[h] EXCEPT !.hit = open, !.n = pages[t] + 1], "page")
        /\ UNCHANGED <<env, minted, served, known, spent, issued, decided, ended>>

\* The client is read once more; a disabled one gets an error page.
ShowPage(h) ==
    /\ req[h].pc = "page"
    /\ served' = IF req[h].hit /\ live.on THEN served \cup {<<req[h].t, req[h].n>>}
                 ELSE served
    /\ Answer(h)
    /\ UNCHANGED <<env, minted, pages, known, spent, issued, decided, ended>>

\* A decision posted from the k-th page (any page served so far: two tabs,
\* a double click, a page left open).
ConsentDecision(h, t, k, allow) ==
    /\ "consent" \in Ops
    /\ Accept(h)
    /\ <<t, k>> \in served
    /\ Open(t)
    /\ Goto(h, [Idle EXCEPT !.t = t, !.n = k], IF allow THEN "claim" ELSE "deny")
    /\ UNCHANGED <<ground, history>>

\* Mutant of Undecided: the update does not ask for approved_at IS NULL.
UndecidedNotDenied(t, k) ==
    /\ live.txn[t] # None
    /\ live.txn[t].nonce = k
    /\ live.txn[t].by = None

Undecided(t, k) ==
    /\ live.txn[t] # None
    /\ live.txn[t].nonce = k
    /\ ~live.txn[t].approved
    /\ live.txn[t].by = None

\* approve_transaction: the conditional update that claims the transaction.
Claim(h) ==
    LET t == req[h].t
        hit == Undecided(t, req[h].n)
    IN  /\ req[h].pc = "claim"
        /\ Exec(h, IF hit THEN [live EXCEPT !.txn[t].approved = TRUE] ELSE live,
                [req[h] EXCEPT !.hit = hit], "claimed")
        /\ UNCHANGED <<env, history>>

\* It goes on by the row count, and only while the transaction is open.
Claimed(h) ==
    /\ req[h].pc = "claimed"
    /\ IF req[h].hit /\ Open(req[h].t) THEN Goto(h, req[h], "grant") ELSE Answer(h)
    /\ UNCHANGED <<env, history>>

InsertGrant(h) ==
    /\ req[h].pc = "grant"
    /\ \E g \in Grant \ minted :
        /\ minted' = minted \cup {g}
        /\ Exec(h, [live EXCEPT !.grant[g] =
                      [revoked |-> FALSE, txn |-> req[h].t]],
                [req[h] EXCEPT !.g = g], "mint")
    /\ UNCHANGED <<env, pages, served, known, spent, issued, decided, ended>>

\* The code is written beside its grant; the foreign key refuses a grant
\* that is not there any more.  Its lifetime replaces the transaction's.
Mint(h) ==
    LET t == req[h].t
        g == req[h].g
    IN  /\ req[h].pc = "mint"
        /\ IF live.grant[g] = None
           THEN Answer(h)
           ELSE Exec(h, IF live.txn[t] = None THEN live
                        ELSE [live EXCEPT !.txn[t].grant = g],
                     req[h], "allowed")
        /\ old' = old \ {t}
        /\ UNCHANGED <<dialect, block, faults, erased, requests, history>>

Allowed(h) ==
    /\ req[h].pc = "allowed"
    /\ known' = known \cup {<<req[h].g, 0>>}
    /\ decided' = [decided EXCEPT ![req[h].t] = @ + 1]
    /\ Answer(h)
    /\ UNCHANGED <<env, minted, pages, served, spent, issued, ended>>

Deny(h) ==
    LET t == req[h].t
        hit == Undecided(t, req[h].n)
    IN  /\ req[h].pc = "deny"
        /\ Exec(h, IF hit THEN [live EXCEPT !.txn[t].by = Unmarked] ELSE live,
                [req[h] EXCEPT !.hit = hit], "denied")
        /\ UNCHANGED <<env, history>>

Denied(h) ==
    /\ req[h].pc = "denied"
    /\ decided' = [decided EXCEPT ![req[h].t] = IF req[h].hit THEN @ + 1 ELSE @]
    /\ Answer(h)
    /\ UNCHANGED <<env, minted, pages, served, known, spent, issued, ended>>

-----------------------------------------------------------------------------
(* POST /oauth/token, authorization_code                                   *)

\* The request's own client has to be enabled; a client the code does not
\* belong to, or a wrong redirect URI or verifier, is found out only later.
ExchangeCode(h, g, owner) ==
    /\ "code" \in Ops
    /\ Accept(h)
    /\ <<g, 0>> \in known
    /\ owner => live.on
    /\ Goto(h, [Idle EXCEPT !.g = g, !.owner = owner], "consume_code")
    /\ UNCHANGED <<ground, history>>

\* _consume: stamp the row with a marker only this call knows.
ConsumeCode(h) ==
    LET rows == {t \in CodeRow(req[h].g) : live.txn[t].by = None}
    IN  /\ req[h].pc = "consume_code"
        /\ Exec(h, [live EXCEPT !.txn = [t \in Txn |->
                      IF t \in rows THEN [@[t] EXCEPT !.by = h] ELSE @[t]]],
                [req[h] EXCEPT !.hit = rows # {}, !.late = rows \cap old # {}],
                "read_code_mark")
        /\ UNCHANGED <<env, history>>

\* Mutant of MarkHeld: the row count of the update decides.
RowCountDecides(h, hit, by) == hit

\* _consume: the marker read back after the commit decides, not the count.
MarkHeld(h, hit, by) == hit /\ by = h

ReadCodeMark(h) ==
    /\ req[h].pc = "read_code_mark"
    /\ Goto(h, [req[h] EXCEPT !.hit =
                  \E t \in CodeRow(req[h].g) : MarkHeld(h, req[h].hit, live.txn[t].by)],
            "read_code")
    /\ UNCHANGED <<env, history>>

RedeemCode(h) ==
    LET g == req[h].g
        row == CodeRow(g)
        won == req[h].hit /\ row # {} /\ ~req[h].late
        replay == ~req[h].hit /\ \E t \in row : live.txn[t].by # None
    IN  /\ req[h].pc = "read_code"
        /\ spent' = IF won THEN [spent EXCEPT ![g] = @ + 1] ELSE spent
        /\ \/ replay /\ Goto(h, [Idle EXCEPT !.g = g], "revoke")
           \/ won /\ req[h].owner /\ Goto(h, [Idle EXCEPT !.g = g], "issue")
           \/ ~replay /\ ~(won /\ req[h].owner) /\ Answer(h)
        /\ UNCHANGED <<env, minted, pages, served, known, issued, decided, ended>>

-----------------------------------------------------------------------------
(* POST /oauth/token, refresh_token                                        *)

ExchangeRefresh(h, g, n, owner) ==
    /\ "refresh" \in Ops
    /\ Accept(h)
    /\ <<g, n>> \in known
    /\ n \in 1..(MaxPairs - 1)
    /\ live.grant[g] # None => live.grant[g].txn # None
    /\ owner => live.on
    /\ Goto(h, [Idle EXCEPT !.g = g, !.n = n, !.owner = owner], "read_refresh")
    /\ UNCHANGED <<ground, history>>

\* Everything that may refuse without consuming is checked on one read;
\* asking for wider scopes than the grant's is refused here too.
ReadRefresh(h) ==
    LET g == req[h].g
        row == live.refresh[g][req[h].n]
        found == row # None /\ live.grant[g] # None
        usable == g \notin old /\ ~live.grant[g].revoked /\ live.on
    IN  /\ req[h].pc = "read_refresh"
        /\ \/ found /\ row.by # None /\ Goto(h, [Idle EXCEPT !.g = g], "revoke")
           \/ found /\ row.by = None /\ usable /\ Goto(h, req[h], "consume_refresh")
           \/ ~(found /\ row.by # None) /\ Answer(h)
        /\ UNCHANGED <<env, history>>

ConsumeRefresh(h) ==
    LET g == req[h].g
        n == req[h].n
        hit == live.refresh[g][n] # None /\ live.refresh[g][n].by = None
    IN  /\ req[h].pc = "consume_refresh"
        /\ Exec(h, IF hit THEN [live EXCEPT !.refresh[g][n].by = h] ELSE live,
                [req[h] EXCEPT !.hit = hit], "read_refresh_mark")
        /\ UNCHANGED <<env, history>>

RedeemRefresh(h) ==
    LET g == req[h].g
        row == live.refresh[g][req[h].n]
        won == row # None /\ MarkHeld(h, req[h].hit, row.by)
    IN  /\ req[h].pc = "read_refresh_mark"
        /\ spent' = IF won THEN [spent EXCEPT ![g] = @ + 1] ELSE spent
        /\ \/ won /\ req[h].owner /\ Goto(h, [Idle EXCEPT !.g = g], "issue")
           \/ won /\ ~req[h].owner /\ Answer(h)
           \/ ~won /\ Goto(h, req[h], "read_refresh_again")
        /\ UNCHANGED <<env, minted, pages, served, known, issued, decided, ended>>

\* A stamp that was erased under us is refused; any other loss is a replay.
ReadRefreshAgain(h) ==
    LET row == live.refresh[req[h].g][req[h].n]
    IN  /\ req[h].pc = "read_refresh_again"
        /\ IF row # None /\ row.by = None THEN Answer(h)
           ELSE Goto(h, [Idle EXCEPT !.g = req[h].g], "revoke")
        /\ UNCHANGED <<env, history>>

-----------------------------------------------------------------------------
(* Tokens and grants                                                       *)

\* issue_tokens: the grant is read for its deadline, not for its state.
IssueRead(h) ==
    /\ req[h].pc = "issue"
    /\ IF live.grant[req[h].g] = None THEN Answer(h) ELSE Goto(h, req[h], "insert_access")
    /\ UNCHANGED <<env, history>>

InsertAccess(h) ==
    LET g == req[h].g
        n == issued[g] + 1
    IN  /\ req[h].pc = "insert_access"
        /\ n \in Pair
        /\ issued' = [issued EXCEPT ![g] = n]
        /\ IF live.grant[g] = None
           THEN Answer(h)
           ELSE ExecMore(h, [live EXCEPT !.access = @ \cup {<<g, n>>}],
                         [req[h] EXCEPT !.n = n], "insert_refresh")
        /\ UNCHANGED <<env, minted, pages, served, known, spent, decided, ended>>

InsertRefresh(h) ==
    LET g == req[h].g
    IN  /\ req[h].pc = "insert_refresh"
        /\ IF live.grant[g] = None
           THEN Answer(h)
           ELSE Exec(h, [live EXCEPT !.refresh[g][req[h].n] = [by |-> None]],
                     req[h], "tokens")
        /\ UNCHANGED <<env, history>>

\* The token response reaches the client, or is lost on the way.
Tokens(h) ==
    /\ req[h].pc = "tokens"
    /\ known' \in {known, known \cup {<<req[h].g, req[h].n>>}}
    /\ Answer(h)
    /\ UNCHANGED <<env, minted, pages, served, spent, issued, decided, ended>>

\* create_manual_grant: an operator's grant with one access token.  Bound:
\* it shares no row with the browser flow, so a behaviour has one or the other.
ManualGrant(h) ==
    /\ "manual" \in Ops
    /\ Accept(h)
    /\ minted = {}
    /\ \E g \in Grant :
        /\ minted' = {g}
        /\ Exec(h, [live EXCEPT !.grant[g] = [revoked |-> FALSE, txn |-> None]],
                [Idle EXCEPT !.g = g], "manual_token")
    /\ UNCHANGED <<ground, pages, served, known, spent, issued, decided, ended>>

ManualToken(h) ==
    LET g == req[h].g
    IN  /\ req[h].pc = "manual_token"
        /\ IF live.grant[g] = None
           THEN Answer(h)
           ELSE Exec(h, [live EXCEPT !.access = @ \cup {<<g, 1>>}],
                     [req[h] EXCEPT !.n = 1], "tokens")
        /\ UNCHANGED <<env, history>>

\* verify_access_token on /mcp: one query walks token, grant and client;
\* an admitted request stamps last_used_at.
Admits(g, n) ==
    /\ <<g, n>> \in live.access
    /\ live.grant[g] # None
    /\ g \notin old
    /\ ~live.grant[g].revoked
    /\ ClientOn(g)

Verify(h, g, n) ==
    /\ "verify" \in Ops
    /\ Accept(h)
    /\ <<g, n>> \in known
    /\ n \in Pair
    /\ Admits(g, n)
    /\ Exec(h, live, Idle, "answer")
    /\ UNCHANGED <<ground, history>>

\* DELETE /api/mcp/grants/{id}, and POST /oauth/revoke by either token of a
\* pair, from the client it belongs to.
RevokeGrant(h, g) ==
    /\ "revoke_grant" \in Ops
    /\ Accept(h)
    /\ live.grant[g] # None
    /\ Goto(h, [Idle EXCEPT !.g = g], "revoke")
    /\ UNCHANGED <<ground, history>>

RevokeByToken(h, g, n) ==
    /\ "revoke_token" \in Ops
    /\ Accept(h)
    /\ <<g, n>> \in known
    /\ n \in Pair
    /\ live.grant[g] # None
    /\ ClientOn(g)
    /\ <<g, n>> \in live.access \/ live.refresh[g][n] # None
    /\ Goto(h, [Idle EXCEPT !.g = g], "revoke")
    /\ UNCHANGED <<ground, history>>

\* Mutant of Revoke: the update is not committed.
RevokeUncommitted(h) ==
    LET g == req[h].g
    IN  /\ req[h].pc = "revoke"
        /\ ExecMore(h, IF live.grant[g] = None THEN live
                       ELSE [live EXCEPT !.grant[g].revoked = TRUE],
                    req[h], "revoked")
        /\ UNCHANGED <<env, history>>

\* revoke_grant, also the end of every replay.
Revoke(h) ==
    LET g == req[h].g
    IN  /\ req[h].pc = "revoke"
        /\ Exec(h, IF live.grant[g] = None THEN live
                   ELSE [live EXCEPT !.grant[g].revoked = TRUE],
                req[h], "revoked")
        /\ UNCHANGED <<env, history>>

Revoked(h) ==
    /\ req[h].pc = "revoked"
    /\ ended' = ended \cup {req[h].g}
    /\ Answer(h)
    /\ UNCHANGED <<env, minted, pages, served, known, spent, issued, decided>>

\* DELETE and POST /api/mcp/clients: disabling touches no grant, allowing
\* again also forgets the cached document.
DisableClient(h) ==
    /\ "disable" \in Ops
    /\ Accept(h)
    /\ Exec(h, [live EXCEPT !.on = FALSE], Idle, "answer")
    /\ UNCHANGED <<ground, history>>

AllowClient(h) ==
    /\ "allow" \in Ops
    /\ Accept(h)
    /\ Exec(h, [live EXCEPT !.on = TRUE], Idle, "answer")
    /\ UNCHANGED <<ground, history>>

-----------------------------------------------------------------------------

Init ==
    /\ dialect \in Dialects
    /\ live = [on |-> TRUE,
               txn |-> [t \in Txn |-> None], grant |-> [g \in Grant |-> None],
               access |-> {},
               refresh |-> [g \in Grant |-> [n \in Pair |-> None]]]
    /\ disk = live
    /\ req = [h \in Handler |-> Idle]
    /\ block = 0 /\ old = {} /\ faults = 0 /\ erased = FALSE /\ requests = 0
    /\ minted = {} /\ pages = [t \in Txn |-> 0] /\ served = {} /\ known = {}
    /\ spent = [g \in Grant |-> 0] /\ issued = [g \in Grant |-> 0]
    /\ decided = [t \in Txn |-> 0] /\ ended = {}

Consent(h) ==
    \/ \E t \in Txn : ConsentPage(h, t)
    \/ ArmConsent(h) \/ ShowPage(h)
    \/ \E t \in Txn, k \in 1..MaxPages, allow \in BOOLEAN : ConsentDecision(h, t, k, allow)
    \/ Claim(h) \/ Claimed(h) \/ InsertGrant(h) \/ Mint(h) \/ Allowed(h)
    \/ Deny(h) \/ Denied(h)

TokenEndpoint(h) ==
    \/ \E g \in Grant, owner \in BOOLEAN : ExchangeCode(h, g, owner)
    \/ ConsumeCode(h) \/ ReadCodeMark(h) \/ RedeemCode(h)
    \/ \E g \in Grant, n \in Pair, owner \in BOOLEAN : ExchangeRefresh(h, g, n, owner)
    \/ ReadRefresh(h) \/ ConsumeRefresh(h) \/ RedeemRefresh(h) \/ ReadRefreshAgain(h)
    \/ IssueRead(h) \/ InsertAccess(h) \/ InsertRefresh(h) \/ Tokens(h)

Administration(h) ==
    \/ \E g \in Grant : RevokeGrant(h, g)
    \/ \E g \in Grant, n \in Pair : RevokeByToken(h, g, n)
    \/ Revoke(h) \/ Revoked(h)
    \/ ManualGrant(h) \/ ManualToken(h)
    \/ DisableClient(h) \/ AllowClient(h)

Request(h) ==
    \/ Authorize(h) \/ FetchDocument(h) \/ Purge(h) \/ Park(h)
    \/ Consent(h)
    \/ TokenEndpoint(h)
    \/ \E g \in Grant, n \in Pair : Verify(h, g, n)
    \/ Administration(h)
    \/ Commit(h)

Next ==
    \/ \E h \in Handler : Request(h)
    \/ BlockWrite \/ BlockCommit \/ BlockRollback
    \/ Crash
    \/ \E x \in Txn \cup Grant : Expire(x)

Spec == Init /\ [][Next]_vars

-----------------------------------------------------------------------------
(* Properties                                                              *)

TxnRow == [nonce : 0..MaxPages, approved : BOOLEAN, by : Handler \cup {None, Unmarked},
           grant : Grant \cup {None}]
GrantRow == [revoked : BOOLEAN, txn : Txn \cup {None}]
Database == [on : BOOLEAN,
             txn : [Txn -> TxnRow \cup {None}],
             grant : [Grant -> GrantRow \cup {None}],
             access : SUBSET (Grant \X Pair),
             refresh : [Grant -> [Pair -> [by : Handler \cup {None}] \cup {None}]]]

\* Every variable has its type; what a statement sees and what is durable
\* are databases of the same schema (migrations/0019, 0020).
TypeOK ==
    /\ dialect \in Dialects
    /\ live \in Database
    /\ disk \in Database
    /\ DOMAIN req = Handler
    /\ \A h \in Handler : /\ req[h].t \in Txn \cup {None}
                          /\ req[h].g \in Grant \cup {None}
                          /\ req[h].hit \in BOOLEAN
    /\ block \in 0..2 /\ old \subseteq Txn \cup Grant /\ faults \in 0..MaxFaults
    /\ erased \in BOOLEAN /\ requests \in 0..MaxRequests
    /\ minted \subseteq Txn \cup Grant
    /\ pages \in [Txn -> 0..MaxPages] /\ served \subseteq Txn \X (1..MaxPages)
    /\ known \subseteq Cred
    /\ spent \in [Grant -> Nat] /\ issued \in [Grant -> 0..MaxPairs]
    /\ decided \in [Txn -> Nat] /\ ended \subseteq Grant

\* The grant store implements a chain of one-time credentials, whatever is
\* rolled back and wherever the process dies: of concurrent exchanges of one
\* code or refresh token one succeeds, and a pair is minted for that one
\* only (_consume, redeem_code, redeem_refresh_token, issue_tokens).
Chain == INSTANCE GrantChain WITH Grant <- Grant, spent <- spent, issued <- issued
ChainSpec == Chain!Spec

\* One decision per request is acknowledged, over all pages, tabs and
\* double clicks, as long as no other request's rollback erased a claim.
DecisionOnce == erased \/ \A t \in Txn : decided[t] <= 1

\* "Every token under it fails its next check": once a revocation, or the
\* answer to a replay, went out, the grant is revoked, durably.  Does not hold with
\* "sqlite" in Dialects: a rollback of another request comes before the commit.
RevocationSticks ==
    \A g \in ended : \A db \in {live, disk} : db.grant[g] = None \/ db.grant[g].revoked

\* The same as long as no other request's rollback erased a revocation.
RevocationDurable == erased \/ RevocationSticks
=============================================================================
