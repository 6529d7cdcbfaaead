---------------------------- MODULE TokenRefresh ----------------------------
(***************************************************************************)
(* The OAuth tokens of the Xero connection: get_valid_token and the        *)
(* refresh lock (xero/auth.py), the consent callback (oauth_views.py), and *)
(* what an administrator does to the rows (active_app.py, the /xero/apps/  *)
(* and /xero/disconnect/ endpoints of xero/api.py).                        *)
(*                                                                         *)
(* Xero takes a refresh token once and gives another for it. What the      *)
(* database and the cache do in one statement is a step; so is the         *)
(* exchange with Xero. The client a process has built does not matter      *)
(* here: a token is refreshed and saved by the row it was read from.       *)
(***************************************************************************)
EXTENDS Integers, FiniteSets

CONSTANTS
    Procs,       \* processes that ask for a token
    Callbacks,   \* landings of the browser, all with the one state minted
    Apps,        \* rows of XeroApp
    First,       \* the one that is active at first
    NoToken,     \* a row's token fields are null
    Free,        \* the lock's key is absent
    MaxExpiries, \* bound: tokens that come near their expiry
    MaxChanges,  \* bound: what administrators do
    MaxTroubles  \* bound: leases that lapse, lost answers, processes that die

ASSUME TokenAssumption ==
    /\ First \in Apps
    /\ Free \notin Procs
    /\ {MaxExpiries, MaxChanges, MaxTroubles} \subseteq Nat

VARIABLES
    rows,      \* [Apps -> credentials and token of a row]
    active,    \* the row with is_active
    wiping,    \* rows whose credentials were changed and whose tokens are still there
    lock,      \* the value of REFRESH_LOCK_KEY
    state,     \* the OAuth state in the cache: "live" or "gone"
    caller,    \* [Procs -> call of get_valid_token]
    callback,  \* [Callbacks -> request of xero_oauth_callback]
    accepted,  \* refresh tokens that Xero would take
    issued,    \* how many tokens Xero has issued
    left,      \* what the bounds still allow
    seen       \* the kinds of trouble and change there have been

cacheVars == <<lock, state>>
xeroVars == <<accepted, issued>>
limits == <<left, seen>>
vars == <<rows, active, wiping, cacheVars, caller, callback, xeroVars, limits>>

\* A token, with the credentials it was issued to: those of app after so many
\* changes of them.
Token == [app : Apps, client : Nat, n : Nat]

\* fresh: it does not expire within REFRESH_WINDOW.
Row == [exists : BOOLEAN, client : Nat, token : Token \cup {NoToken}, fresh : BOOLEAN]

\* Between calls; "refused": the last call waited and answered "not connected".
At(pc) == [pc |-> pc, app |-> First, client |-> 0, token |-> NoToken]

CallerPlaces == {"idle", "refused", "locking", "reading", "posting", "saving", "releasing", "deleting",
                 "waiting", "checking", "looking"}
CallbackPlaces == {"new", "spending", "exchanging", "saving", "landed"}

Call(places) == [pc : places, app : Apps, client : Nat, token : Token \cup {NoToken}]

Changes == {"swap", "disconnect", "credentials", "delete"}
Troubles == {"lapse", "lost", "death"}

Init ==
    /\ rows = [a \in Apps |-> [exists |-> TRUE, client |-> 0, fresh |-> TRUE,
                               token |-> [app |-> a, client |-> 0, n |-> 0]]]
    /\ active = First /\ wiping = {}
    /\ lock = Free /\ state = "live"
    /\ caller = [p \in Procs |-> At("idle")]
    /\ callback = [c \in Callbacks |-> At("new")]
    /\ accepted = {[app |-> a, client |-> 0, n |-> 0] : a \in Apps}
    /\ issued = 0
    /\ left = [expiries |-> MaxExpiries, changes |-> MaxChanges, troubles |-> MaxTroubles]
    /\ seen = {}

Spend(bound, kind) ==
    /\ left[bound] > 0
    /\ left' = [left EXCEPT ![bound] = @ - 1]
    /\ seen' = seen \cup {kind}

-----------------------------------------------------------------------------
(* get_valid_token *)

HasToken(a) == rows[a].exists /\ rows[a].token # NoToken
IsFresh(a) == HasToken(a) /\ rows[a].fresh

Goes(p, pc) == caller' = [caller EXCEPT ![p].pc = pc]
Ends(p) == caller' = [caller EXCEPT ![p] = At("idle")]
NotConnected(p) == caller' = [caller EXCEPT ![p] = At("refused")]

\* The holder leaves by its finally, with a token or an exception.
Leaves(p) == caller' = [caller EXCEPT ![p] = At("releasing")]

\* A fresh token is answered at once, and so is a row without one.
Ask(p) ==
    /\ caller[p].pc \in {"idle", "refused"}
    /\ HasToken(active) /\ ~IsFresh(active)
    /\ caller' = [caller EXCEPT ![p] = [At("locking") EXCEPT !.app = active]]
    /\ UNCHANGED <<rows, active, wiping, cacheVars, callback, xeroVars, limits>>

\* Fault: every process refreshes for itself.
TakesLock_Always(p) == lock' = p

\* cache.add: the key is set if it is absent.
TakesLock(p) == lock = Free /\ lock' = p

Lock(p) ==
    /\ caller[p].pc = "locking"
    /\ \/ TakesLock(p) /\ Goes(p, "reading")
       \/ lock # Free /\ Goes(p, "waiting") /\ UNCHANGED lock
    /\ UNCHANGED <<rows, active, wiping, state, callback, xeroVars, limits>>

\* refresh_token reads the active row again.
Reread(p) ==
    LET a == active IN
    /\ caller[p].pc = "reading"
    /\ IF HasToken(a)
       THEN caller' = [caller EXCEPT ![p].pc = "posting", ![p].app = a,
                ![p].client = rows[a].client, ![p].token = rows[a].token]
       ELSE Leaves(p)
    /\ UNCHANGED <<rows, active, wiping, cacheVars, callback, xeroVars, limits>>

\* Xero: a refresh token is good once, with the credentials it was issued to.
Takes(token, a, client) == token \in accepted /\ token.app = a /\ token.client = client
New(a, client) == [app |-> a, client |-> client, n |-> issued + 1]

Post(p) ==
    LET c == caller[p]
        new == New(c.app, c.client)
        given ==
            /\ Takes(c.token, c.app, c.client)
            /\ accepted' = (accepted \ {c.token}) \cup {new}
            /\ issued' = issued + 1
    IN
    /\ c.pc = "posting"
    /\ \/ given /\ UNCHANGED limits
          /\ caller' = [caller EXCEPT ![p].pc = "saving", ![p].token = new]
       \/ ~Takes(c.token, c.app, c.client)
          /\ Leaves(p) /\ UNCHANGED <<xeroVars, limits>>
       \/ (given \/ UNCHANGED xeroVars) /\ Leaves(p) /\ Spend("troubles", "lost")
    /\ UNCHANGED <<rows, active, wiping, cacheVars, callback>>

\* _make_token_saver: an update of the row with this id, if there still is one.
Saver(a, token) ==
    rows' = IF rows[a].exists
            THEN [rows EXCEPT ![a].token = token, ![a].fresh = TRUE]
            ELSE rows

\* Fault: the token is written to the row that is active by now.
SavedOn_Active(p) == active

SavedOn(p) == caller[p].app

\* The answer is what it then reads back from the row.
Save(p) ==
    LET c == caller[p] IN
    /\ c.pc = "saving"
    /\ Saver(SavedOn(p), c.token)
    /\ Leaves(p)
    /\ UNCHANGED <<active, wiping, cacheVars, callback, xeroVars, limits>>

\* get, and delete if the value is this call's.
ReleaseChecks(p) ==
    /\ caller[p].pc = "releasing"
    /\ IF lock = p THEN Goes(p, "deleting") ELSE Ends(p)
    /\ UNCHANGED <<rows, active, wiping, cacheVars, callback, xeroVars, limits>>

ReleaseDeletes(p) ==
    /\ caller[p].pc = "deleting"
    /\ lock' = Free
    /\ Ends(p)
    /\ UNCHANGED <<rows, active, wiping, state, callback, xeroVars, limits>>

-----------------------------------------------------------------------------
(* _await_refreshed_token *)

Look(p) ==
    LET a == caller[p].app IN
    /\ caller[p].pc = "waiting"
    /\ CASE ~rows[a].exists -> NotConnected(p)
         [] IsFresh(a) -> Ends(p)
         [] OTHER -> Goes(p, "checking")
    /\ UNCHANGED <<rows, active, wiping, cacheVars, callback, xeroVars, limits>>

\* Fault: without the lock the holder must have failed.
WhenFree_Concluded(p) == NotConnected(p)

WhenFree(p) == Goes(p, "looking")

\* A waiter gives up after REFRESH_WAIT_SECONDS, with the answer of one that is not
\* connected, though the holder may have a token a moment later.
Check(p) ==
    /\ caller[p].pc = "checking"
    /\ \/ lock = Free /\ WhenFree(p)
       \/ lock # Free /\ Goes(p, "waiting")
       \/ lock # Free /\ Ends(p)
    /\ UNCHANGED <<rows, active, wiping, cacheVars, callback, xeroVars, limits>>

\* _payload_if_fresh
LastLook(p) ==
    /\ caller[p].pc = "looking"
    /\ IF IsFresh(caller[p].app) THEN Ends(p) ELSE NotConnected(p)
    /\ UNCHANGED <<rows, active, wiping, cacheVars, callback, xeroVars, limits>>

-----------------------------------------------------------------------------
(* xero_oauth_callback *)

Reaches(c, pc) == callback' = [callback EXCEPT ![c] = At(pc)]

\* _consume_state: get, then a delete that reports whether the key was there.
StateRead(c) ==
    /\ callback[c].pc = "new"
    /\ Reaches(c, IF state = "live" THEN "spending" ELSE "landed")
    /\ UNCHANGED <<rows, active, wiping, cacheVars, caller, xeroVars, limits>>

\* Fault: a plain delete.
Spent_Unreported(c) == TRUE

Spent(c) == state = "live"

StateSpent(c) ==
    /\ callback[c].pc = "spending"
    /\ state' = "gone"
    /\ IF Spent(c)
       THEN callback' = [callback EXCEPT ![c].pc = "exchanging", ![c].app = active,
                                         ![c].client = rows[active].client]
       ELSE Reaches(c, "landed")
    /\ UNCHANGED <<rows, active, wiping, lock, caller, xeroVars, limits>>

\* exchange_code_for_token, or Xero refuses the code, or consent was denied.
Exchange(c) ==
    LET new == New(callback[c].app, callback[c].client) IN
    /\ callback[c].pc = "exchanging"
    /\ \/ /\ callback' = [callback EXCEPT ![c].pc = "saving", ![c].token = new]
          /\ accepted' = accepted \cup {new}
          /\ issued' = issued + 1
       \/ Reaches(c, "landed") /\ UNCHANGED xeroVars
    /\ UNCHANGED <<rows, active, wiping, cacheVars, caller, limits>>

SaveConsent(c) ==
    /\ callback[c].pc = "saving"
    /\ Saver(callback[c].app, callback[c].token)
    /\ Reaches(c, "landed")
    /\ UNCHANGED <<active, wiping, cacheVars, caller, xeroVars, limits>>

-----------------------------------------------------------------------------
(* Administrators *)

\* swap_active
Swap(a) ==
    /\ rows[a].exists /\ a # active
    /\ active' = a
    /\ Spend("changes", "swap")
    /\ UNCHANGED <<rows, wiping, cacheVars, caller, callback, xeroVars>>

wipe_tokens(a) == rows' = [rows EXCEPT ![a].token = NoToken, ![a].fresh = FALSE]

\* xero_disconnect_create
Disconnect ==
    /\ HasToken(active)
    /\ wipe_tokens(active)
    /\ Spend("changes", "disconnect")
    /\ UNCHANGED <<active, wiping, cacheVars, caller, callback, xeroVars>>

\* xero_apps_partial_update saves other credentials, and then wipes the tokens.
Reissue(a) ==
    /\ rows[a].exists
    /\ rows' = [rows EXCEPT ![a].client = @ + 1]
    /\ wiping' = wiping \cup {a}
    /\ Spend("changes", "credentials")
    /\ UNCHANGED <<active, cacheVars, caller, callback, xeroVars>>

WipesOld(a) ==
    /\ a \in wiping
    /\ wipe_tokens(a)
    /\ wiping' = wiping \ {a}
    /\ UNCHANGED <<active, cacheVars, caller, callback, xeroVars, limits>>

\* Checked under the row's lock, which a swap takes too.
Deletable(a) == a # active

\* xero_apps_destroy
Destroy(a) ==
    /\ rows[a].exists /\ Deletable(a)
    /\ rows' = [rows EXCEPT ![a].exists = FALSE, ![a].token = NoToken, ![a].fresh = FALSE]
    /\ Spend("changes", "delete")
    /\ UNCHANGED <<active, wiping, cacheVars, caller, callback, xeroVars>>

\* OAUTH_STATE_TTL_SECONDS pass.
StateExpires ==
    /\ state = "live"
    /\ state' = "gone"
    /\ UNCHANGED <<rows, active, wiping, lock, caller, callback, xeroVars, limits>>

-----------------------------------------------------------------------------
(* What goes wrong, and time *)

Expire(a) ==
    /\ IsFresh(a)
    /\ rows' = [rows EXCEPT ![a].fresh = FALSE]
    /\ left.expiries > 0 /\ left' = [left EXCEPT !.expiries = @ - 1]
    /\ UNCHANGED <<active, wiping, cacheVars, caller, callback, xeroVars, seen>>

\* REFRESH_LOCK_TIMEOUT_SECONDS pass: under a live holder, or after it died.
Lapse ==
    /\ lock # Free
    /\ lock' = Free
    /\ IF caller[lock].pc \in {"reading", "posting", "saving", "releasing", "deleting"}
       THEN Spend("troubles", "lapse")
       ELSE UNCHANGED limits
    /\ UNCHANGED <<rows, active, wiping, state, caller, callback, xeroVars>>

\* A worker is restarted or killed; the restart after a swap does it to them all.
Dies(p) ==
    /\ caller[p].pc \notin {"idle", "refused"}
    /\ Ends(p)
    /\ Spend("troubles", "death")
    /\ UNCHANGED <<rows, active, wiping, cacheVars, callback, xeroVars>>

-----------------------------------------------------------------------------

Refresh(p) ==
    \/ Lock(p) \/ Reread(p) \/ Post(p) \/ Save(p) \/ ReleaseChecks(p) \/ ReleaseDeletes(p)
    \/ Look(p) \/ Check(p) \/ LastLook(p)

Land(c) == StateRead(c) \/ StateSpent(c) \/ Exchange(c) \/ SaveConsent(c)

Administrate == \/ Disconnect \/ StateExpires
                \/ \E a \in Apps : Swap(a) \/ Reissue(a) \/ WipesOld(a) \/ Destroy(a)

Next ==
    \/ \E p \in Procs : Ask(p) \/ Refresh(p) \/ Dies(p)
    \/ \E c \in Callbacks : Land(c)
    \/ Administrate
    \/ Lapse
    \/ \E a \in Apps : Expire(a)

Spec == Init /\ [][Next]_vars

-----------------------------------------------------------------------------
(***************************************************************************)
(* Properties                                                              *)
(***************************************************************************)

\* Rows, calls and tokens keep their shape, and the active row exists: the install
\* is never left with no active row.
TypeOK ==
    /\ rows \in [Apps -> Row]
    /\ active \in Apps /\ rows[active].exists /\ wiping \subseteq Apps
    /\ lock \in Procs \cup {Free}
    /\ state \in {"live", "gone"}
    /\ caller \in [Procs -> Call(CallerPlaces)]
    /\ callback \in [Callbacks -> Call(CallbackPlaces)]
    /\ accepted \subseteq Token
    /\ issued \in Nat
    /\ left \in [expiries : Nat, changes : Nat, troubles : Nat]
    /\ seen \subseteq Changes \cup Troubles

Refreshing(p) == caller[p].pc \in {"posting", "saving"}

\* "Xero rotates the refresh token on every use, so a second refresh would
\* invalidate the first": what a process is about to send is still good, until a
\* lease lapses under its holder. A token Xero replaced by an answer that was lost,
\* or whose process died, is gone.
NeverSpentTwice ==
    seen \cap {"lapse", "lost", "death", "credentials"} = {} =>
        \A p \in Procs : caller[p].pc = "posting" =>
            Takes(caller[p].token, caller[p].app, caller[p].client)

\* The connection is never lost for good: a token a row holds can be refreshed, or
\* its replacement is about to be saved there. Swaps of the active row, consents
\* and deletions in the middle of a refresh change nothing about it.
StoredTokenWorks ==
    seen \cap {"lapse", "lost", "death", "credentials"} = {} =>
        \A a \in Apps : HasToken(a) =>
            \/ Takes(rows[a].token, a, rows[a].client)
            \/ \E p \in Procs : caller[p].pc = "saving" /\ caller[p].app = a

\* "the not-connected answer for a live token this wait exists to prevent": a
\* waiter that saw the lock go does not answer "not connected" while its row holds
\* a fresh token. One that gives up beside a holder answers the same (Check).
NoFalseNotConnected ==
    [][\A p \in Procs :
          caller[p].pc # "refused" /\ caller'[p].pc = "refused"
          => ~IsFresh(caller[p].app)]_vars

\* "two callbacks racing on one state cannot both pass": one consent, one exchange.
StateSpentOnce ==
    \A c, d \in Callbacks :
        callback[c].pc \in {"exchanging", "saving"} /\ callback[d].pc \in {"exchanging", "saving"}
        => c = d

\* "Clear tokens on the active XeroApp": a row without a token gets one only by a
\* consent.
DisconnectedStaysSo ==
    [][\A a \in Apps : rows[a].token = NoToken /\ rows'[a].token # NoToken
       => \E c \in Callbacks : callback[c].pc = "saving"]_vars

\* "a credential change invalidates tokens": once a change of credentials has
\* wiped the row, the row holds no token of the credentials it had before.
NoTokenOfOldCredentials ==
    \A a \in Apps : HasToken(a) /\ a \notin wiping => rows[a].token.client = rows[a].client
=============================================================================
