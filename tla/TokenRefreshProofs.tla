-------------------------- MODULE TokenRefreshProofs --------------------------
(***************************************************************************)
(* Proofs about TokenRefresh, for every number of processes, landings of   *)
(* the browser and apps, and every bound.                                  *)
(***************************************************************************)
EXTENDS TokenRefresh, TLAPS

\* One step of one actor.
Step ==
    \/ \E p \in Procs :
          \/ Ask(p) \/ Lock(p) \/ Reread(p) \/ Post(p) \/ Save(p) \/ ReleaseChecks(p)
          \/ ReleaseDeletes(p) \/ Look(p) \/ Check(p) \/ LastLook(p) \/ Dies(p)
    \/ \E c \in Callbacks : StateRead(c) \/ StateSpent(c) \/ Exchange(c) \/ SaveConsent(c)
    \/ Disconnect \/ StateExpires \/ Lapse
    \/ \E a \in Apps : Swap(a) \/ Reissue(a) \/ WipesOld(a) \/ Destroy(a) \/ Expire(a)

LEMMA NextIsStep == Next => Step
BY DEF Next, Step, Refresh, Land, Administrate

-----------------------------------------------------------------------------
(* Shapes.                                                                 *)

\* The parts of TypeOK by who writes them.
RowsOK == rows \in [Apps -> Row] /\ active \in Apps /\ rows[active].exists /\ wiping \subseteq Apps
CacheOK == lock \in Procs \cup {Free} /\ state \in {"live", "gone"}
CallersOK == caller \in [Procs -> Call(CallerPlaces)]
CallbacksOK == callback \in [Callbacks -> Call(CallbackPlaces)]
XeroOK == accepted \subseteq Token /\ issued \in Nat
LimitsOK ==
    left \in [expiries : Nat, changes : Nat, troubles : Nat] /\ seen \subseteq Changes \cup Troubles

\* Together they are TypeOK, before a step and after it.
LEMMA TypeParts ==
    /\ TypeOK => RowsOK /\ CacheOK /\ CallersOK /\ CallbacksOK /\ XeroOK /\ LimitsOK
    /\ RowsOK' /\ CacheOK' /\ CallersOK' /\ CallbacksOK' /\ XeroOK' /\ LimitsOK' => TypeOK'
BY DEF TypeOK, RowsOK, CacheOK, CallersOK, CallbacksOK, XeroOK, LimitsOK

\* A call's record is built from parts of their types. (At)
LEMMA CallTypes ==
    /\ \A pc \in CallerPlaces : At(pc) \in Call(CallerPlaces)
    /\ \A pc \in CallbackPlaces : At(pc) \in Call(CallbackPlaces)
BY TokenAssumption DEF At, Call

\* A caller that moves on, or stops, is still a call.
LEMMA CallerMoves ==
    ASSUME CallersOK, NEW p \in Procs, NEW pc \in CallerPlaces
    PROVE  /\ [caller EXCEPT ![p].pc = pc] \in [Procs -> Call(CallerPlaces)]
           /\ [caller EXCEPT ![p] = At(pc)] \in [Procs -> Call(CallerPlaces)]
<1>1. caller[p] \in Call(CallerPlaces)
  BY DEF CallersOK
<1>2. [caller[p] EXCEPT !.pc = pc] \in Call(CallerPlaces)
  BY <1>1 DEF Call
<1> QED
  BY <1>2, CallTypes DEF CallersOK

\* A token Xero issues is one. (New)
LEMMA NewType ==
    ASSUME XeroOK, NEW a \in Apps, NEW client \in Nat
    PROVE  New(a, client) \in Token /\ New(a, client).n = issued + 1
BY DEF XeroOK, New, Token

\* Saving a token leaves the rows rows. (_make_token_saver)
LEMMA SaverType ==
    ASSUME RowsOK, NEW a \in Apps, NEW token \in Token \cup {NoToken}, Saver(a, token)
    PROVE  rows' \in [Apps -> Row] /\ \A b \in Apps : rows'[b].exists = rows[b].exists
<1>1. rows[a] \in Row
  BY DEF RowsOK
<1> DEFINE row == [[rows[a] EXCEPT !.token = token] EXCEPT !.fresh = TRUE]
<1>2. row \in Row /\ row.exists = rows[a].exists
  BY <1>1 DEF Row
<1>3. rows' = IF rows[a].exists THEN [rows EXCEPT ![a] = row] ELSE rows
  BY DEF Saver, RowsOK
<1> HIDE DEF row
<1> QED
  BY <1>2, <1>3 DEF RowsOK

\* A bound is spent within its type.
LEMMA SpendType ==
    ASSUME LimitsOK, NEW bound \in {"expiries", "changes", "troubles"},
           NEW kind \in Changes \cup Troubles, Spend(bound, kind)
    PROVE  LimitsOK'
<1>1. left[bound] \in Nat /\ left[bound] - 1 \in Nat
  BY DEF LimitsOK, Spend
<1> QED
  BY <1>1 DEF LimitsOK, Spend

-----------------------------------------------------------------------------
(* Type correctness: one lemma per actor.                                  *)

\* get_valid_token, its waiters and the death of its process.
LEMMA CallerTypes ==
    ASSUME TypeOK, NEW p \in Procs,
           \/ Ask(p) \/ Lock(p) \/ Reread(p) \/ Post(p) \/ Save(p) \/ ReleaseChecks(p)
           \/ ReleaseDeletes(p) \/ Look(p) \/ Check(p) \/ LastLook(p) \/ Dies(p)
    PROVE  TypeOK'
<1>0. RowsOK /\ CacheOK /\ CallersOK /\ CallbacksOK /\ XeroOK /\ LimitsOK
  BY TypeParts
<1>1. caller[p] \in Call(CallerPlaces)
  BY <1>0 DEF CallersOK
<1>2. ASSUME NEW pc \in CallerPlaces,
             caller' = [caller EXCEPT ![p].pc = pc] \/ caller' = [caller EXCEPT ![p] = At(pc)]
      PROVE  CallersOK'
  <2> DEFINE moved == [caller EXCEPT ![p].pc = pc]
             put == [caller EXCEPT ![p] = At(pc)]
  <2>0. caller' = moved \/ caller' = put
    BY <1>2
  <2>1. moved \in [Procs -> Call(CallerPlaces)] /\ put \in [Procs -> Call(CallerPlaces)]
    BY <1>0, CallerMoves
  <2> HIDE DEF moved, put
  <2>2. caller' \in [Procs -> Call(CallerPlaces)]
    BY <2>0, <2>1
  <2> QED BY <2>2 DEF CallersOK
<1>3. UNCHANGED <<rows, active, wiping>> => RowsOK'
  BY <1>0 DEF RowsOK
<1>4. UNCHANGED cacheVars => CacheOK'
  BY <1>0 DEF CacheOK, cacheVars
<1>5. UNCHANGED callback => CallbacksOK'
  BY <1>0 DEF CallbacksOK
<1>6. UNCHANGED xeroVars => XeroOK'
  BY <1>0 DEF XeroOK, xeroVars
<1>7. UNCHANGED limits => LimitsOK'
  BY <1>0 DEF LimitsOK, limits
<1>8. CASE Ask(p)
  <2>1. active \in Apps
    BY <1>0 DEF RowsOK
  <2>2. [At("locking") EXCEPT !.app = active] \in Call(CallerPlaces)
    BY <2>1, TokenAssumption DEF At, Call, CallerPlaces
  <2>3. CallersOK'
    BY <1>0, <1>8, <2>2 DEF Ask, CallersOK
  <2> QED
    BY <1>3, <1>4, <1>5, <1>6, <1>7, <1>8, <2>3, TypeParts DEF Ask
<1>9. CASE Lock(p)
  <2>1. CallersOK'
    BY <1>2, <1>9 DEF Lock, Goes, CallerPlaces
  <2>2. CacheOK'
    BY <1>0, <1>9 DEF Lock, TakesLock, CacheOK
  <2> QED
    BY <1>3, <1>5, <1>6, <1>7, <1>9, <2>1, <2>2, TypeParts DEF Lock
<1>10. CASE Reread(p)
  <2>1. rows[active] \in Row /\ active \in Apps
    BY <1>0 DEF RowsOK
  <2>2. rows[active].client \in Nat /\ rows[active].token \in Token \cup {NoToken}
    BY <2>1 DEF Row
  <2>3. CASE HasToken(active)
    <3> DEFINE call == [[[[caller[p] EXCEPT !.pc = "posting"] EXCEPT !.app = active]
                           EXCEPT !.client = rows[active].client]
                           EXCEPT !.token = rows[active].token]
    <3>1. call \in Call(CallerPlaces)
      BY <1>1, <2>1, <2>2 DEF Call, CallerPlaces
    <3>2. caller' = [caller EXCEPT ![p] = call]
      BY <1>0, <1>10, <2>3 DEF Reread, CallersOK
    <3> HIDE DEF call
    <3>3. CallersOK'
      BY <1>0, <3>1, <3>2 DEF CallersOK
    <3> QED
      BY <1>3, <1>4, <1>5, <1>6, <1>7, <1>10, <3>3, TypeParts DEF Reread
  <2>4. CASE ~HasToken(active)
    <3>1. CallersOK'
      BY <1>2, <1>10, <2>4 DEF Reread, Leaves, CallerPlaces
    <3> QED
      BY <1>3, <1>4, <1>5, <1>6, <1>7, <1>10, <3>1, TypeParts DEF Reread
  <2> QED BY <2>3, <2>4
<1>11. CASE Post(p)
  <2> DEFINE c == caller[p]
             new == New(c.app, c.client)
  <2>1. c.app \in Apps /\ c.client \in Nat
    BY <1>1 DEF Call
  <2>2. new \in Token
    BY <1>0, <2>1, NewType
  <2>3. XeroOK'
    <3>1. \/ accepted' = (accepted \ {c.token}) \cup {new} /\ issued' = issued + 1
          \/ UNCHANGED xeroVars
      BY <1>11 DEF Post
    <3> HIDE DEF c, new
    <3> QED BY <1>0, <1>6, <2>2, <3>1 DEF XeroOK
  <2>4. CallersOK'
    <3>1. \/ caller' = [caller EXCEPT ![p].pc = "saving", ![p].token = new]
          \/ Leaves(p)
      BY <1>11 DEF Post
    <3>2. CASE Leaves(p)
      BY <1>2, <3>2 DEF Leaves, CallerPlaces
    <3>3. CASE caller' = [caller EXCEPT ![p].pc = "saving", ![p].token = new]
      <4> DEFINE call == [[caller[p] EXCEPT !.pc = "saving"] EXCEPT !.token = new]
      <4>1. call \in Call(CallerPlaces)
        <5> HIDE DEF new
        <5> QED BY <1>1, <2>2 DEF Call, CallerPlaces
      <4>2. caller' = [caller EXCEPT ![p] = call]
        BY <1>0, <3>3 DEF CallersOK
      <4> HIDE DEF call
      <4> QED BY <1>0, <4>1, <4>2 DEF CallersOK
    <3> QED BY <3>1, <3>2, <3>3
  <2>5. LimitsOK'
    <3>1. UNCHANGED limits \/ Spend("troubles", "lost")
      BY <1>11 DEF Post
    <3> QED BY <1>0, <1>7, <3>1, SpendType DEF Troubles
  <2> QED
    BY <1>3, <1>4, <1>5, <1>11, <2>3, <2>4, <2>5, TypeParts DEF Post
<1>12. CASE Save(p)
  <2>1. caller[p].app \in Apps /\ caller[p].token \in Token \cup {NoToken}
    BY <1>1 DEF Call
  <2>2. RowsOK'
    BY <1>0, <1>12, <2>1, SaverType DEF Save, SavedOn, RowsOK
  <2>3. CallersOK'
    BY <1>2, <1>12 DEF Save, Leaves, CallerPlaces
  <2> QED
    BY <1>4, <1>5, <1>6, <1>7, <1>12, <2>2, <2>3, TypeParts DEF Save
<1>13. CASE ReleaseChecks(p)
  <2>1. CallersOK'
    BY <1>2, <1>13 DEF ReleaseChecks, Goes, Ends, CallerPlaces
  <2> QED
    BY <1>3, <1>4, <1>5, <1>6, <1>7, <1>13, <2>1, TypeParts DEF ReleaseChecks
<1>14. CASE ReleaseDeletes(p)
  <2>1. CallersOK'
    BY <1>2, <1>14 DEF ReleaseDeletes, Ends, CallerPlaces
  <2>2. CacheOK'
    BY <1>0, <1>14 DEF ReleaseDeletes, CacheOK
  <2> QED
    BY <1>3, <1>5, <1>6, <1>7, <1>14, <2>1, <2>2, TypeParts DEF ReleaseDeletes
<1>15. CASE Look(p) \/ Check(p) \/ LastLook(p)
  <2>1. Goes(p, "checking") \/ Goes(p, "looking") \/ Goes(p, "waiting") \/ NotConnected(p) \/ Ends(p)
    BY <1>15 DEF Look, Check, LastLook, WhenFree
  <2>2. CallersOK'
    BY <1>2, <2>1 DEF Goes, NotConnected, Ends, CallerPlaces
  <2> QED
    BY <1>3, <1>4, <1>5, <1>6, <1>7, <1>15, <2>2, TypeParts DEF Look, Check, LastLook
<1>16. CASE Dies(p)
  <2>1. CallersOK'
    BY <1>2, <1>16 DEF Dies, Ends, CallerPlaces
  <2>2. LimitsOK'
    BY <1>0, <1>16, SpendType DEF Dies, Troubles
  <2> QED
    BY <1>3, <1>4, <1>5, <1>6, <1>16, <2>1, <2>2, TypeParts DEF Dies
<1> QED
  BY <1>8, <1>9, <1>10, <1>11, <1>12, <1>13, <1>14, <1>15, <1>16

\* The landings of the browser.
LEMMA CallbackTypes ==
    ASSUME TypeOK, NEW c \in Callbacks,
           StateRead(c) \/ StateSpent(c) \/ Exchange(c) \/ SaveConsent(c)
    PROVE  TypeOK'
<1>0. RowsOK /\ CacheOK /\ CallersOK /\ CallbacksOK /\ XeroOK /\ LimitsOK
  BY TypeParts
<1>1. callback[c] \in Call(CallbackPlaces)
  BY <1>0 DEF CallbacksOK
<1>2. ASSUME NEW call \in Call(CallbackPlaces), callback' = [callback EXCEPT ![c] = call]
      PROVE  CallbacksOK'
  BY <1>0, <1>2 DEF CallbacksOK
<1>3. ASSUME NEW pc \in CallbackPlaces, Reaches(c, pc) PROVE CallbacksOK'
  BY <1>2, <1>3, CallTypes DEF Reaches
<1>4. UNCHANGED <<caller, limits>> => CallersOK' /\ LimitsOK'
  BY <1>0 DEF CallersOK, LimitsOK, limits
<1>5. CASE StateRead(c)
  <2>1. CallbacksOK'
    BY <1>3, <1>5 DEF StateRead, CallbackPlaces
  <2> QED
    BY <1>0, <1>4, <1>5, <2>1, TypeParts DEF StateRead, RowsOK, CacheOK, cacheVars, XeroOK, xeroVars
<1>6. CASE StateSpent(c)
  <2>1. CallbacksOK'
    <3>1. CASE Spent(c)
      <4> DEFINE call == [[[callback[c] EXCEPT !.pc = "exchanging"] EXCEPT !.app = active]
                             EXCEPT !.client = rows[active].client]
      <4>1. active \in Apps /\ rows[active].client \in Nat
        <5>1. active \in Apps /\ rows[active] \in Row
          BY <1>0 DEF RowsOK
        <5> QED BY <5>1 DEF Row
      <4>2. call \in Call(CallbackPlaces)
        BY <1>1, <4>1 DEF Call, CallbackPlaces
      <4>3. callback' = [callback EXCEPT ![c] = call]
        BY <1>0, <1>6, <3>1 DEF StateSpent, CallbacksOK
      <4> HIDE DEF call
      <4> QED BY <1>2, <4>2, <4>3
    <3>2. CASE ~Spent(c)
      BY <1>3, <1>6, <3>2 DEF StateSpent, CallbackPlaces
    <3> QED BY <3>1, <3>2
  <2>2. CacheOK'
    BY <1>0, <1>6 DEF StateSpent, CacheOK
  <2> QED
    BY <1>0, <1>4, <1>6, <2>1, <2>2, TypeParts DEF StateSpent, RowsOK, XeroOK, xeroVars
<1>7. CASE Exchange(c)
  <2> DEFINE new == New(callback[c].app, callback[c].client)
  <2>1. new \in Token
    <3>1. callback[c].app \in Apps /\ callback[c].client \in Nat
      BY <1>1 DEF Call
    <3> QED BY <1>0, <3>1, NewType
  <2>2. \/ /\ callback' = [callback EXCEPT ![c].pc = "saving", ![c].token = new]
           /\ accepted' = accepted \cup {new}
           /\ issued' = issued + 1
        \/ Reaches(c, "landed") /\ UNCHANGED xeroVars
    BY <1>7 DEF Exchange
  <2> HIDE DEF new
  <2>3. CallbacksOK'
    <3>1. CASE Reaches(c, "landed")
      BY <1>3, <3>1 DEF CallbackPlaces
    <3>2. CASE callback' = [callback EXCEPT ![c].pc = "saving", ![c].token = new]
      <4> DEFINE call == [[callback[c] EXCEPT !.pc = "saving"] EXCEPT !.token = new]
      <4>1. call \in Call(CallbackPlaces)
        BY <1>1, <2>1 DEF Call, CallbackPlaces
      <4>2. callback' = [callback EXCEPT ![c] = call]
        BY <1>0, <3>2 DEF CallbacksOK
      <4> HIDE DEF call
      <4> QED BY <1>2, <4>1, <4>2
    <3> QED BY <2>2, <3>1, <3>2
  <2>4. XeroOK'
    BY <1>0, <2>1, <2>2 DEF XeroOK, xeroVars
  <2> QED
    BY <1>0, <1>4, <1>7, <2>3, <2>4, TypeParts DEF Exchange, RowsOK, CacheOK, cacheVars
<1>8. CASE SaveConsent(c)
  <2>1. callback[c].app \in Apps /\ callback[c].token \in Token \cup {NoToken}
    BY <1>1 DEF Call
  <2>2. RowsOK'
    BY <1>0, <1>8, <2>1, SaverType DEF SaveConsent, RowsOK
  <2>3. CallbacksOK'
    BY <1>3, <1>8 DEF SaveConsent, CallbackPlaces
  <2> QED
    BY <1>0, <1>4, <1>8, <2>2, <2>3, TypeParts DEF SaveConsent, CacheOK, cacheVars, XeroOK, xeroVars
<1> QED
  BY <1>5, <1>6, <1>7, <1>8

\* A row that keeps its place keeps the active one in place.
LEMMA RowChanges ==
    ASSUME RowsOK, NEW a \in Apps, NEW row \in Row, rows' = [rows EXCEPT ![a] = row],
           UNCHANGED active, wiping' \subseteq Apps, row.exists \/ a # active
    PROVE  RowsOK'
<1>1. rows' \in [Apps -> Row] /\ active' \in Apps /\ active' = active
  BY DEF RowsOK
<1>2. rows'[active].exists
  <2>1. CASE a = active
    BY <2>1 DEF RowsOK
  <2>2. CASE a # active
    BY <2>2 DEF RowsOK
  <2> QED BY <2>1, <2>2
<1> QED
  BY <1>1, <1>2 DEF RowsOK

\* Administrators, time, and the lock's lease.
LEMMA OtherTypes ==
    ASSUME TypeOK,
           \/ Disconnect \/ StateExpires \/ Lapse
           \/ \E a \in Apps : Swap(a) \/ Reissue(a) \/ WipesOld(a) \/ Destroy(a) \/ Expire(a)
    PROVE  TypeOK'
<1>0. RowsOK /\ CacheOK /\ CallersOK /\ CallbacksOK /\ XeroOK /\ LimitsOK
  BY TypeParts
<1>1. UNCHANGED <<caller, callback, xeroVars>> => CallersOK' /\ CallbacksOK' /\ XeroOK'
  BY <1>0 DEF CallersOK, CallbacksOK, XeroOK, xeroVars
<1>2. UNCHANGED cacheVars => CacheOK'
  BY <1>0 DEF CacheOK, cacheVars
<1>3. UNCHANGED limits => LimitsOK'
  BY <1>0 DEF LimitsOK, limits
<1>4. ASSUME NEW a \in Apps PROVE rows[a] \in Row
  BY <1>0 DEF RowsOK
<1>5. ASSUME NEW a \in Apps, wipe_tokens(a), UNCHANGED active, wiping' \subseteq Apps
      PROVE  RowsOK'
  <2> DEFINE row == [[rows[a] EXCEPT !.token = NoToken] EXCEPT !.fresh = FALSE]
  <2>1. row \in Row /\ row.exists = rows[a].exists
    BY <1>4 DEF Row
  <2>2. rows' = [rows EXCEPT ![a] = row]
    BY <1>0, <1>5 DEF wipe_tokens, RowsOK
  <2>3. row.exists \/ a # active
    BY <1>0, <2>1 DEF RowsOK
  <2> HIDE DEF row
  <2> QED BY <1>0, <1>5, <2>1, <2>2, <2>3, RowChanges
<1>6. CASE Disconnect
  <2>1. RowsOK'
    BY <1>0, <1>5, <1>6 DEF Disconnect, RowsOK
  <2>2. LimitsOK'
    BY <1>0, <1>6, SpendType DEF Disconnect, Changes
  <2> QED BY <1>1, <1>2, <1>6, <2>1, <2>2, TypeParts DEF Disconnect
<1>7. CASE StateExpires
  BY <1>0, <1>1, <1>3, <1>7, TypeParts DEF StateExpires, RowsOK, CacheOK
<1>8. CASE Lapse
  <2>1. LimitsOK'
    <3>1. Spend("troubles", "lapse") \/ UNCHANGED limits
      BY <1>8 DEF Lapse
    <3> QED BY <1>0, <1>3, <3>1, SpendType DEF Troubles
  <2>2. RowsOK' /\ CacheOK'
    BY <1>0, <1>8 DEF Lapse, RowsOK, CacheOK
  <2> QED BY <1>1, <1>8, <2>1, <2>2, TypeParts DEF Lapse
<1>9. ASSUME NEW a \in Apps, Swap(a) PROVE TypeOK'
  <2>1. LimitsOK'
    BY <1>0, <1>9, SpendType DEF Swap, Changes
  <2>2. RowsOK'
    BY <1>0, <1>9 DEF Swap, RowsOK
  <2> QED BY <1>1, <1>2, <1>9, <2>1, <2>2, TypeParts DEF Swap
<1>10. ASSUME NEW a \in Apps, Reissue(a) PROVE TypeOK'
  <2> DEFINE row == [rows[a] EXCEPT !.client = @ + 1]
  <2>1. row \in Row /\ row.exists = rows[a].exists
    BY <1>4 DEF Row
  <2>2. rows' = [rows EXCEPT ![a] = row] /\ rows[a].exists
    BY <1>0, <1>10 DEF Reissue, RowsOK
  <2>3. wiping' \subseteq Apps /\ UNCHANGED active
    BY <1>0, <1>10 DEF Reissue, RowsOK
  <2> HIDE DEF row
  <2>4. RowsOK'
    BY <1>0, <2>1, <2>2, <2>3, RowChanges
  <2>5. LimitsOK'
    BY <1>0, <1>10, SpendType DEF Reissue, Changes
  <2> QED BY <1>1, <1>2, <1>10, <2>4, <2>5, TypeParts DEF Reissue
<1>11. ASSUME NEW a \in Apps, WipesOld(a) PROVE TypeOK'
  <2>1. RowsOK'
    BY <1>0, <1>5, <1>11 DEF WipesOld, RowsOK
  <2> QED BY <1>1, <1>2, <1>3, <1>11, <2>1, TypeParts DEF WipesOld
<1>12. ASSUME NEW a \in Apps, Destroy(a) PROVE TypeOK'
  <2> DEFINE row == [[[rows[a] EXCEPT !.exists = FALSE] EXCEPT !.token = NoToken]
                        EXCEPT !.fresh = FALSE]
  <2>1. row \in Row
    BY <1>4 DEF Row
  <2>2. rows' = [rows EXCEPT ![a] = row] /\ a # active
    BY <1>0, <1>12 DEF Destroy, Deletable, RowsOK
  <2>3. wiping' \subseteq Apps /\ UNCHANGED active
    BY <1>0, <1>12 DEF Destroy, RowsOK
  <2> HIDE DEF row
  <2>4. RowsOK'
    BY <1>0, <2>1, <2>2, <2>3, RowChanges
  <2>5. LimitsOK'
    BY <1>0, <1>12, SpendType DEF Destroy, Changes
  <2> QED BY <1>1, <1>2, <1>12, <2>4, <2>5, TypeParts DEF Destroy
<1>13. ASSUME NEW a \in Apps, Expire(a) PROVE TypeOK'
  <2> DEFINE row == [rows[a] EXCEPT !.fresh = FALSE]
  <2>1. row \in Row /\ row.exists = rows[a].exists
    BY <1>4 DEF Row
  <2>2. rows' = [rows EXCEPT ![a] = row] /\ rows[a].exists
    BY <1>0, <1>13 DEF Expire, IsFresh, HasToken, RowsOK
  <2>3. wiping' \subseteq Apps /\ UNCHANGED active
    BY <1>0, <1>13 DEF Expire, RowsOK
  <2> HIDE DEF row
  <2>4. RowsOK'
    BY <1>0, <2>1, <2>2, <2>3, RowChanges
  <2>5. LimitsOK'
    <3>1. left.expiries \in Nat /\ left.expiries - 1 \in Nat
      BY <1>0, <1>13 DEF Expire, LimitsOK
    <3> QED BY <1>0, <1>13, <3>1 DEF Expire, LimitsOK
  <2> QED BY <1>1, <1>2, <1>13, <2>4, <2>5, TypeParts DEF Expire
<1> QED
  BY <1>6, <1>7, <1>8, <1>9, <1>10, <1>11, <1>12, <1>13

LEMMA InitTypes == Init => TypeOK
<1> SUFFICES ASSUME Init PROVE TypeOK
  OBVIOUS
<1> DEFINE token(a) == [app |-> a, client |-> 0, n |-> 0]
           row(a) == [exists |-> TRUE, client |-> 0, fresh |-> TRUE, token |-> token(a)]
<1>1. ASSUME NEW a \in Apps PROVE token(a) \in Token /\ row(a) \in Row
  BY DEF Token, Row
<1>2. RowsOK
  <2>1. rows = [a \in Apps |-> row(a)] /\ active = First /\ wiping = {}
    BY DEF Init
  <2>2. rows \in [Apps -> Row]
    <3> HIDE DEF row
    <3> QED BY <1>1, <2>1
  <2>3. rows[First].exists
    BY <2>1, TokenAssumption
  <2> QED BY <2>1, <2>2, <2>3, TokenAssumption DEF RowsOK
<1>3. CacheOK
  BY DEF Init, CacheOK
<1>4. CallersOK /\ CallbacksOK
  <2>1. At("idle") \in Call(CallerPlaces) /\ At("new") \in Call(CallbackPlaces)
    BY CallTypes DEF CallerPlaces, CallbackPlaces
  <2> QED BY <2>1 DEF Init, CallersOK, CallbacksOK
<1>5. XeroOK
  <2>1. accepted = {token(a) : a \in Apps} /\ issued = 0
    BY DEF Init
  <2> HIDE DEF token
  <2> QED BY <1>1, <2>1 DEF XeroOK
<1>6. LimitsOK
  BY TokenAssumption DEF Init, LimitsOK
<1> QED
  BY <1>2, <1>3, <1>4, <1>5, <1>6
     DEF TypeOK, RowsOK, CacheOK, CallersOK, CallbacksOK, XeroOK, LimitsOK

\* Every step keeps the shapes, and an active row.
LEMMA StepTypes ==
    ASSUME TypeOK, [Next]_vars
    PROVE  TypeOK'
<1>1. CASE UNCHANGED vars
  BY <1>1 DEF TypeOK, vars, cacheVars, xeroVars, limits
<1>2. CASE Next
  BY <1>2, NextIsStep, CallerTypes, CallbackTypes, OtherTypes DEF Step
<1> QED BY <1>1, <1>2

\* Rows, calls and tokens keep their shape, and the install is never left without an
\* active row: an app that another session makes active is not deleted.
THEOREM TypeCorrect == Spec => []TypeOK
BY InitTypes, StepTypes, PTL DEF Spec

-----------------------------------------------------------------------------
(* One consent at a time.                                                  *)

Consenting(c) == callback[c].pc \in {"exchanging", "saving"}

\* StateSpentOnce alone is not inductive: that the state is gone is what stops the
\* next landing.
SingleConsent == StateSpentOnce /\ \A c \in Callbacks : Consenting(c) => state = "gone"

\* A landing that is not the first to spend the state goes no further.
LEMMA StepConsent ==
    ASSUME TypeOK, SingleConsent, [Next]_vars
    PROVE  SingleConsent'
<1>0. callback \in [Callbacks -> Call(CallbackPlaces)]
  BY DEF TypeOK
<1>1. CASE UNCHANGED <<callback, state>>
  BY <1>1 DEF SingleConsent, StateSpentOnce, Consenting
<1>2. ASSUME NEW c \in Callbacks, \A d \in Callbacks : d # c => callback'[d] = callback[d],
             Consenting(c)' => Consenting(c), state' = "gone" \/ state' = state
      PROVE  SingleConsent'
  BY <1>2 DEF SingleConsent, StateSpentOnce, Consenting
<1>3. ASSUME NEW c \in Callbacks, StateRead(c) PROVE SingleConsent'
  BY <1>0, <1>2, <1>3 DEF StateRead, Reaches, At, Consenting, cacheVars
<1>4. ASSUME NEW c \in Callbacks, StateSpent(c) PROVE SingleConsent'
  <2>1. CASE state = "live"
    <3>1. \A d \in Callbacks : ~Consenting(d)
      BY <2>1 DEF SingleConsent
    <3>2. \A d \in Callbacks : d # c => callback'[d] = callback[d]
      BY <1>0, <1>4 DEF StateSpent, Reaches
    <3> QED
      BY <1>4, <3>1, <3>2 DEF StateSpent, SingleConsent, StateSpentOnce, Consenting
  <2>2. CASE state # "live"
    BY <1>0, <1>2, <1>4, <2>2 DEF StateSpent, Spent, Reaches, At, Consenting
  <2> QED BY <2>1, <2>2
<1>5. ASSUME NEW c \in Callbacks, Exchange(c) PROVE SingleConsent'
  BY <1>0, <1>2, <1>5 DEF Exchange, Reaches, At, Consenting, cacheVars
<1>6. ASSUME NEW c \in Callbacks, SaveConsent(c) PROVE SingleConsent'
  BY <1>0, <1>2, <1>6 DEF SaveConsent, Reaches, At, Consenting, cacheVars
<1>7. ASSUME NEW p \in Procs,
             \/ Ask(p) \/ Lock(p) \/ Reread(p) \/ Post(p) \/ Save(p) \/ ReleaseChecks(p)
             \/ ReleaseDeletes(p) \/ Look(p) \/ Check(p) \/ LastLook(p) \/ Dies(p)
      PROVE  SingleConsent'
  BY <1>1, <1>7 DEF Ask, Lock, Reread, Post, Save, ReleaseChecks, ReleaseDeletes, Look, Check,
                    LastLook, Dies, cacheVars
<1>8. CASE StateExpires
  BY <1>8 DEF StateExpires, SingleConsent, StateSpentOnce, Consenting
<1>9. CASE \/ Disconnect \/ Lapse
           \/ \E a \in Apps : Swap(a) \/ Reissue(a) \/ WipesOld(a) \/ Destroy(a) \/ Expire(a)
  BY <1>1, <1>9 DEF Disconnect, Lapse, Swap, Reissue, WipesOld, Destroy, Expire, cacheVars
<1>10. CASE UNCHANGED vars
  BY <1>1, <1>10 DEF vars, cacheVars
<1> QED
  BY <1>3, <1>4, <1>5, <1>6, <1>7, <1>8, <1>9, <1>10, NextIsStep DEF Step

-----------------------------------------------------------------------------
(* What keeps the tokens good while nothing has gone wrong.                *)

\* Neither the lock's lease nor an answer nor a process was lost, and the
\* credentials are what they were.
Calm == seen \cap {"lapse", "lost", "death", "credentials"} = {}

Held == {"reading", "posting", "saving", "releasing", "deleting"}

\* Between taking the lock and giving it back a process has it.
HolderOnly == \A p \in Procs : caller[p].pc \in Held => lock = p

\* token can be refreshed with what the row of app a has for credentials.
Good(token, a, client) ==
    Takes(token, a, client) /\ client = rows[a].client /\ token.n <= issued

RowTokens ==
    \A a \in Apps : HasToken(a) =>
        /\ rows[a].token.app = a /\ rows[a].token.n <= issued
        /\ \/ Good(rows[a].token, a, rows[a].client)
           \/ \E p \in Procs : caller[p].pc = "saving" /\ caller[p].app = a

CallerTokens ==
    \A p \in Procs : Refreshing(p) => Good(caller[p].token, caller[p].app, caller[p].client)

ConsentTokens ==
    \A c \in Callbacks :
        /\ Consenting(c) => callback[c].client = rows[callback[c].app].client
        /\ callback[c].pc = "saving" =>
              Good(callback[c].token, callback[c].app, callback[c].client)

\* The token of a consent is nobody else's: a refresh does not spend it.
Apart ==
    \A c \in Callbacks : callback[c].pc = "saving" =>
        /\ \A a \in Apps : HasToken(a) => rows[a].token # callback[c].token
        /\ \A p \in Procs : Refreshing(p) => caller[p].token # callback[c].token

TokensGood == HolderOnly /\ RowTokens /\ CallerTokens /\ ConsentTokens /\ Apart

Inv == TypeOK /\ SingleConsent /\ (Calm => TokensGood)

\* What went wrong has gone wrong for good.
LEMMA CalmBefore ==
    ASSUME TypeOK, [Next]_vars, Calm'
    PROVE  Calm
<1>1. seen \subseteq seen'
  <2>1. CASE UNCHANGED vars
    BY <2>1 DEF vars, limits
  <2>2. CASE Step
    BY <2>2 DEF Step, Ask, Lock, Reread, Post, Save, ReleaseChecks, ReleaseDeletes, Look, Check,
                LastLook, Dies, StateRead, StateSpent, Exchange, SaveConsent, Disconnect,
                StateExpires, Lapse, Swap, Reissue, WipesOld, Destroy, Expire, limits, Spend
  <2> QED BY <2>1, <2>2, NextIsStep
<1> QED BY <1>1 DEF Calm

\* A step that neither issues nor saves a token, nor begins a refresh.
Quiet ==
    /\ HolderOnly'
    /\ UNCHANGED xeroVars
    /\ \A a \in Apps : /\ rows'[a].client = rows[a].client
                       /\ HasToken(a)' => HasToken(a) /\ rows'[a].token = rows[a].token
    /\ \A p \in Procs : /\ Refreshing(p)' => Refreshing(p) /\ caller'[p] = caller[p]
                        /\ caller[p].pc = "saving" => caller'[p] = caller[p]
    /\ \A c \in Callbacks : callback'[c] = callback[c] \/ ~Consenting(c)'

LEMMA QuietKeeps ==
    ASSUME TypeOK, TokensGood, Quiet
    PROVE  TokensGood'
<1>0. \A p \in Procs : caller[p].app \in Apps
  BY DEF TypeOK, Call
<1>00. \A c \in Callbacks : callback[c].app \in Apps
  BY DEF TypeOK, Call
<1>1. \A token : \A a \in Apps : \A client : Good(token, a, client) => Good(token, a, client)'
  BY DEF Quiet, Good, Takes, xeroVars
<1>2. RowTokens'
  <2> SUFFICES ASSUME NEW a \in Apps, HasToken(a)'
               PROVE  /\ rows'[a].token.app = a /\ rows'[a].token.n <= issued'
                      /\ \/ Good(rows[a].token, a, rows[a].client)'
                         \/ \E p \in Procs : caller'[p].pc = "saving" /\ caller'[p].app = a
    BY DEF RowTokens
  <2>1. HasToken(a) /\ rows'[a].token = rows[a].token /\ rows'[a].client = rows[a].client
        /\ issued' = issued
    BY DEF Quiet, xeroVars
  <2>2. CASE Good(rows[a].token, a, rows[a].client)
    BY <1>1, <2>1, <2>2 DEF TokensGood, RowTokens, Good, Takes, Quiet, xeroVars
  <2>3. CASE \E p \in Procs : caller[p].pc = "saving" /\ caller[p].app = a
    BY <2>1, <2>3 DEF TokensGood, RowTokens, Quiet
  <2> QED BY <2>1, <2>2, <2>3 DEF TokensGood, RowTokens
<1>3. CallerTokens'
  BY <1>0, <1>1 DEF TokensGood, CallerTokens, Quiet, Refreshing, Good, Takes, xeroVars
<1>4. ConsentTokens'
  BY <1>00, <1>1 DEF TokensGood, ConsentTokens, Quiet, Consenting, Good, Takes, xeroVars
<1>5. Apart'
  BY DEF TokensGood, Apart, Quiet, Consenting, Refreshing
<1> QED
  BY <1>2, <1>3, <1>4, <1>5 DEF TokensGood, Quiet

-----------------------------------------------------------------------------
(* The holder of the lock is the one process between taking it and giving  *)
(* it back.                                                                *)

\* Only p moves, to pc.
Moves(p, pc) ==
    /\ caller'[p].pc = pc
    /\ \A q \in Procs : q # p => caller'[q] = caller[q]

LEMMA MovesCaller ==
    ASSUME CallersOK, NEW p \in Procs, NEW pc,
           caller' = [caller EXCEPT ![p].pc = pc] \/ caller' = [caller EXCEPT ![p] = At(pc)]
    PROVE  Moves(p, pc)
<1>1. caller[p] \in Call(CallerPlaces)
  BY DEF CallersOK
<1>2. CASE caller' = [caller EXCEPT ![p].pc = pc]
  BY <1>1, <1>2 DEF CallersOK, Moves, Call
<1>3. CASE caller' = [caller EXCEPT ![p] = At(pc)]
  BY <1>3 DEF CallersOK, Moves, At
<1> QED BY <1>2, <1>3

LEMMA CallerHolds ==
    ASSUME TypeOK, HolderOnly, Calm', NEW p \in Procs,
           \/ Ask(p) \/ Lock(p) \/ Reread(p) \/ Post(p) \/ Save(p) \/ ReleaseChecks(p)
           \/ ReleaseDeletes(p) \/ Look(p) \/ Check(p) \/ LastLook(p) \/ Dies(p)
    PROVE  HolderOnly'
<1>0. CallersOK
  BY TypeParts
<1>1. ASSUME NEW pc, Moves(p, pc), UNCHANGED lock, pc \in Held => caller[p].pc \in Held
      PROVE  HolderOnly'
  BY <1>1 DEF HolderOnly, Moves
<1>2. CASE Ask(p)
  <2>1. Moves(p, "locking")
    BY <1>0, <1>2 DEF Ask, Moves, CallersOK, At
  <2> QED BY <1>1, <1>2, <2>1 DEF Ask, cacheVars, Held
<1>3. CASE Lock(p)
  <2>1. CASE TakesLock(p) /\ Goes(p, "reading")
    <3>1. Moves(p, "reading") /\ lock' = p
      BY <1>0, <2>1, MovesCaller DEF Goes, TakesLock
    <3>2. \A q \in Procs : caller[q].pc \notin Held
      BY <2>1, TokenAssumption DEF TakesLock, HolderOnly
    <3> QED BY <3>1, <3>2 DEF HolderOnly, Moves
  <2>2. CASE Goes(p, "waiting") /\ UNCHANGED lock
    <3>1. Moves(p, "waiting")
      BY <1>0, <2>2, MovesCaller DEF Goes
    <3> QED BY <1>1, <2>2, <3>1 DEF Held
  <2> QED BY <1>3, <2>1, <2>2 DEF Lock
<1>4. CASE Reread(p) \/ Post(p) \/ Save(p)
  <2>1. caller[p].pc \in Held /\ UNCHANGED lock
    BY <1>4 DEF Reread, Post, Save, Held, cacheVars
  <2>2. \A q \in Procs : q # p => caller'[q] = caller[q]
    BY <1>0, <1>4 DEF Reread, Post, Save, Leaves, CallersOK
  <2> QED BY <2>1, <2>2 DEF HolderOnly
<1>5. CASE ReleaseChecks(p)
  <2>1. Moves(p, "deleting") \/ Moves(p, "idle")
    BY <1>0, <1>5, MovesCaller DEF ReleaseChecks, Goes, Ends
  <2> QED BY <1>1, <1>5, <2>1 DEF ReleaseChecks, cacheVars, Held
<1>6. CASE ReleaseDeletes(p)
  <2>1. Moves(p, "idle")
    BY <1>0, <1>6, MovesCaller DEF ReleaseDeletes, Ends
  <2>2. \A q \in Procs : q # p => caller[q].pc \notin Held
    BY <1>6 DEF ReleaseDeletes, HolderOnly, Held
  <2> QED BY <2>1, <2>2 DEF HolderOnly, Moves, Held
<1>7. CASE Look(p) \/ Check(p) \/ LastLook(p)
  <2>1. Goes(p, "checking") \/ Goes(p, "looking") \/ Goes(p, "waiting") \/ NotConnected(p) \/ Ends(p)
    BY <1>7 DEF Look, Check, LastLook, WhenFree
  <2>2. \E pc \in {"checking", "looking", "waiting", "refused", "idle"} : Moves(p, pc)
    BY <1>0, <2>1, MovesCaller DEF Goes, NotConnected, Ends
  <2>3. UNCHANGED lock
    BY <1>7 DEF Look, Check, LastLook, cacheVars
  <2> QED BY <1>1, <2>2, <2>3 DEF Held
<1>8. CASE Dies(p)
  BY <1>8 DEF Dies, Spend, Calm
<1> QED
  BY <1>2, <1>3, <1>4, <1>5, <1>6, <1>7, <1>8

\* The lease lapses only under nobody, or things are no longer calm.
LEMMA OthersHold ==
    ASSUME TypeOK, HolderOnly, Calm',
           \/ \E c \in Callbacks : StateRead(c) \/ StateSpent(c) \/ Exchange(c) \/ SaveConsent(c)
           \/ Disconnect \/ StateExpires \/ Lapse
           \/ \E a \in Apps : Swap(a) \/ Reissue(a) \/ WipesOld(a) \/ Destroy(a) \/ Expire(a)
    PROVE  HolderOnly'
<1>1. CASE Lapse
  <2>1. lock \in Procs /\ UNCHANGED caller
    BY <1>1 DEF Lapse, TypeOK
  <2>2. caller[lock].pc \notin Held
    BY <1>1 DEF Lapse, Spend, Calm, Held
  <2> QED BY <2>1, <2>2 DEF HolderOnly
<1>2. CASE UNCHANGED <<lock, caller>>
  BY <1>2 DEF HolderOnly
<1>3. Lapse \/ UNCHANGED <<lock, caller>>
  BY DEF StateRead, StateSpent, Exchange, SaveConsent, Disconnect, StateExpires, Swap, Reissue,
         WipesOld, Destroy, Expire, cacheVars
<1> QED BY <1>1, <1>2, <1>3

-----------------------------------------------------------------------------
(* Most steps are quiet.                                                   *)

\* The caller takes the lock, gives it back, or waits for who has it.
LEMMA CallerQuiet ==
    ASSUME TypeOK, TokensGood, HolderOnly', NEW p \in Procs,
           \/ Ask(p) \/ Lock(p) \/ (Reread(p) /\ ~HasToken(active)) \/ ReleaseChecks(p)
           \/ ReleaseDeletes(p) \/ Look(p) \/ Check(p) \/ LastLook(p)
    PROVE  TokensGood'
<1>0. CallersOK
  BY TypeParts
<1>1. UNCHANGED <<rows, callback, xeroVars>>
  BY DEF Ask, Lock, Reread, ReleaseChecks, ReleaseDeletes, Look, Check, LastLook
<1>2. caller[p].pc # "saving"
  BY DEF Ask, Lock, Reread, ReleaseChecks, ReleaseDeletes, Look, Check, LastLook
<1>3. \E pc \in CallerPlaces \ {"posting", "saving"} : Moves(p, pc)
  <2>1. CASE Ask(p)
    <3>1. Moves(p, "locking")
      BY <1>0, <2>1 DEF Ask, Moves, CallersOK, At
    <3> QED BY <3>1 DEF CallerPlaces
  <2>2. CASE ~Ask(p)
    <3>1. \E pc \in CallerPlaces \ {"posting", "saving"} :
             caller' = [caller EXCEPT ![p].pc = pc] \/ caller' = [caller EXCEPT ![p] = At(pc)]
      BY <2>2 DEF Lock, Reread, ReleaseChecks, ReleaseDeletes, Look, Check, LastLook, WhenFree,
                  Goes, Ends, NotConnected, Leaves, CallerPlaces
    <3> QED BY <1>0, <3>1, MovesCaller
  <2> QED BY <2>1, <2>2
<1>4. \A q \in Procs : /\ Refreshing(q)' => Refreshing(q) /\ caller'[q] = caller[q]
                       /\ caller[q].pc = "saving" => caller'[q] = caller[q]
  BY <1>2, <1>3 DEF Moves, Refreshing
<1>5. \A a \in Apps : /\ rows'[a].client = rows[a].client
                      /\ HasToken(a)' => HasToken(a) /\ rows'[a].token = rows[a].token
  BY <1>1 DEF HasToken
<1>6. Quiet
  BY <1>1, <1>4, <1>5 DEF Quiet
<1> QED BY <1>6, QuietKeeps

\* A landing that sees the state gone, or that Xero refuses.
LEMMA LandingQuiet ==
    ASSUME TypeOK, TokensGood, HolderOnly', NEW c \in Callbacks,
           UNCHANGED <<rows, caller, xeroVars>>,
           NEW pc \in {"spending", "landed"}, Reaches(c, pc)
    PROVE  TokensGood'
<1>1. \A d \in Callbacks : callback'[d] = callback[d] \/ ~Consenting(d)'
  BY DEF TypeOK, Reaches, At, Consenting
<1>2. Quiet
  BY <1>1 DEF Quiet, HasToken, Refreshing
<1> QED BY <1>2, QuietKeeps

\* Administrators wipe tokens and choose the active row; a token ages.
LEMMA OtherQuiet ==
    ASSUME TypeOK, TokensGood, HolderOnly', Calm',
           \/ Disconnect \/ StateExpires \/ Lapse
           \/ \E a \in Apps : Swap(a) \/ Reissue(a) \/ WipesOld(a) \/ Destroy(a) \/ Expire(a)
    PROVE  TokensGood'
<1>0. rows \in [Apps -> Row]
  BY DEF TypeOK
<1>1. UNCHANGED <<caller, callback, xeroVars>>
  BY DEF Disconnect, StateExpires, Lapse, Swap, Reissue, WipesOld, Destroy, Expire
<1>2. ASSUME NEW a \in Apps, wipe_tokens(a)
      PROVE  \A b \in Apps : /\ rows'[b].client = rows[b].client
                             /\ HasToken(b)' => HasToken(b) /\ rows'[b].token = rows[b].token
  <2>1. rows[a] \in Row
    BY <1>0
  <2>2. /\ rows'[a].client = rows[a].client /\ rows'[a].token = NoToken
        /\ \A b \in Apps : b # a => rows'[b] = rows[b]
    BY <1>0, <1>2, <2>1 DEF wipe_tokens, Row
  <2> QED BY <2>2 DEF HasToken
<1>3. \A b \in Apps : /\ rows'[b].client = rows[b].client
                      /\ HasToken(b)' => HasToken(b) /\ rows'[b].token = rows[b].token
  <2>1. CASE StateExpires \/ Lapse \/ \E a \in Apps : Swap(a)
    BY <2>1 DEF StateExpires, Lapse, Swap, HasToken
  <2>2. CASE Disconnect
    BY <1>2, <2>2 DEF Disconnect, TypeOK
  <2>3. ASSUME NEW a \in Apps, WipesOld(a)
        PROVE  \A b \in Apps : /\ rows'[b].client = rows[b].client
                               /\ HasToken(b)' => HasToken(b) /\ rows'[b].token = rows[b].token
    BY <1>2, <2>3 DEF WipesOld
  <2>4. ASSUME NEW a \in Apps, Destroy(a)
        PROVE  \A b \in Apps : /\ rows'[b].client = rows[b].client
                               /\ HasToken(b)' => HasToken(b) /\ rows'[b].token = rows[b].token
    <3>1. rows[a] \in Row
      BY <1>0
    <3>2. /\ rows'[a].client = rows[a].client /\ rows'[a].token = NoToken
          /\ \A b \in Apps : b # a => rows'[b] = rows[b]
      BY <1>0, <2>4, <3>1 DEF Destroy, Row
    <3> QED BY <3>2 DEF HasToken
  <2>5. ASSUME NEW a \in Apps, Expire(a)
        PROVE  \A b \in Apps : /\ rows'[b].client = rows[b].client
                               /\ HasToken(b)' => HasToken(b) /\ rows'[b].token = rows[b].token
    <3>1. rows[a] \in Row
      BY <1>0
    <3>2. /\ rows'[a].client = rows[a].client /\ rows'[a].token = rows[a].token
          /\ rows'[a].exists = rows[a].exists
          /\ \A b \in Apps : b # a => rows'[b] = rows[b]
      BY <1>0, <2>5, <3>1 DEF Expire, Row
    <3> QED BY <3>2 DEF HasToken
  <2>6. ASSUME NEW a \in Apps, Reissue(a) PROVE FALSE
    BY <2>6 DEF Reissue, Spend, Calm
  <2> QED BY <2>1, <2>2, <2>3, <2>4, <2>5, <2>6
<1>4. Quiet
  BY <1>1, <1>3 DEF Quiet, Refreshing
<1> QED BY <1>4, QuietKeeps

-----------------------------------------------------------------------------
(* The steps that issue a token, read one to send, or save one.            *)

\* What is good stays good while more is issued, except the token that is spent.
LEMMA GoodStays ==
    ASSUME TypeOK, UNCHANGED rows, issued' = issued + 1,
           NEW spent, accepted \ {spent} \subseteq accepted'
    PROVE  \A token : \A a \in Apps : \A client :
              Good(token, a, client) /\ token # spent => Good(token, a, client)'
                                                          /\ token.n # issued'
<1> SUFFICES ASSUME NEW token, NEW a \in Apps, NEW client, Good(token, a, client), token # spent
             PROVE  Good(token, a, client)' /\ token.n # issued'
  OBVIOUS
<1>1. token \in Token /\ issued \in Nat
  BY DEF TypeOK, Good, Takes
<1>2. token.n \in Nat /\ token.n <= issued
  BY <1>1 DEF Good, Token
<1> QED BY <1>1, <1>2 DEF Good, Takes

\* refresh_token reads the token again: nobody else is saving another for the row,
\* so that the one it reads can be refreshed.
LEMMA RereadKeeps ==
    ASSUME TypeOK, TokensGood, HolderOnly', NEW p \in Procs, Reread(p), HasToken(active)
    PROVE  TokensGood'
<1>0. CallersOK
  BY TypeParts
<1> DEFINE a == active
<1>1. a \in Apps /\ UNCHANGED <<rows, callback, xeroVars>>
  BY DEF Reread, TypeOK
<1>2. /\ caller'[p].pc = "posting" /\ caller'[p].app = a
      /\ caller'[p].client = rows[a].client /\ caller'[p].token = rows[a].token
      /\ \A q \in Procs : q # p => caller'[q] = caller[q]
  <2>1. caller[p] \in Call(CallerPlaces)
    BY <1>0 DEF CallersOK
  <2>2. caller' = [caller EXCEPT ![p].pc = "posting", ![p].app = a,
                ![p].client = rows[a].client, ![p].token = rows[a].token]
    BY DEF Reread
  <2> HIDE DEF a
  <2> QED BY <1>0, <2>1, <2>2 DEF CallersOK, Call
<1>3. \A q \in Procs : caller[q].pc # "saving" \/ q = p
  BY DEF TokensGood, HolderOnly, Held, Reread
<1>4. caller[p].pc = "reading"
  BY DEF Reread
<1>5. \A q \in Procs : caller[q].pc # "saving"
  BY <1>3, <1>4
<1>6. \A b \in Apps : HasToken(b) => Good(rows[b].token, b, rows[b].client)
  BY <1>5 DEF TokensGood, RowTokens
<1>7. \A token : \A b \in Apps : \A client : Good(token, b, client) => Good(token, b, client)'
  BY <1>1 DEF Good, Takes, xeroVars
<1> HIDE DEF a
<1>8. RowTokens'
  BY <1>1, <1>6, <1>7 DEF TokensGood, RowTokens, HasToken, xeroVars
<1>9. CallerTokens'
  <2>1. Good(rows[a].token, a, rows[a].client)
    BY <1>1, <1>6 DEF a
  <2>2. \A q \in Procs : caller[q].app \in Apps
    BY <1>0 DEF CallersOK, Call
  <2> QED BY <1>1, <1>2, <1>7, <2>1, <2>2 DEF TokensGood, CallerTokens, Refreshing
<1>10. ConsentTokens'
  <2>1. \A c \in Callbacks : callback[c].app \in Apps
    BY DEF TypeOK, Call
  <2> QED BY <1>1, <1>7, <2>1 DEF TokensGood, ConsentTokens, Consenting
<1>11. Apart'
  <2>1. HasToken(a)
    BY DEF a
  <2> QED BY <1>1, <1>2, <2>1 DEF TokensGood, Apart, HasToken, Refreshing
<1> QED
  BY <1>8, <1>9, <1>10, <1>11 DEF TokensGood

\* Xero takes the token that was sent, and gives another.
LEMMA PostKeeps ==
    ASSUME TypeOK, TokensGood, HolderOnly', Calm', NEW p \in Procs, Post(p)
    PROVE  TokensGood'
<1>0. CallersOK
  BY TypeParts
<1> DEFINE a == caller[p].app
           client == caller[p].client
           spent == caller[p].token
           new == New(a, client)
<1>1. a \in Apps /\ client \in Nat
  BY <1>0 DEF CallersOK, Call
<1>2. Good(spent, a, client) /\ caller[p].pc = "posting"
  BY DEF Post, TokensGood, CallerTokens, Refreshing
<1>3. UNCHANGED <<rows, callback>>
  BY DEF Post
<1>4. /\ accepted' = (accepted \ {spent}) \cup {new} /\ issued' = issued + 1
      /\ caller' = [caller EXCEPT ![p].pc = "saving", ![p].token = new]
  <2>1. ~Spend("troubles", "lost")
    BY DEF Spend, Calm
  <2>2. Takes(spent, a, client)
    BY <1>2 DEF Good
  <2> QED BY <2>1, <2>2 DEF Post
<1>5. new \in Token /\ new.n = issued + 1 /\ new.app = a /\ new.client = client
  <2>1. XeroOK
    BY TypeParts
  <2> QED BY <1>1, <2>1, NewType DEF New
<1> HIDE DEF new
<1>6. /\ caller'[p].pc = "saving" /\ caller'[p].app = a /\ caller'[p].client = client
      /\ caller'[p].token = new
      /\ \A q \in Procs : q # p => caller'[q] = caller[q]
  <2>1. caller[p] \in Call(CallerPlaces)
    BY <1>0 DEF CallersOK
  <2> QED BY <1>0, <1>4, <2>1 DEF CallersOK, Call
<1>7. \A token : \A b \in Apps : \A cl :
         Good(token, b, cl) /\ token # spent => Good(token, b, cl)' /\ token.n # issued'
  BY <1>3, <1>4, GoodStays
<1>8. Good(caller[p].token, caller[p].app, caller[p].client)'
  <2>1. issued' = issued + 1 /\ issued \in Nat /\ new \in accepted'
    BY <1>4 DEF TypeOK
  <2>2. client = rows[a].client
    BY <1>2 DEF Good
  <2> QED BY <1>3, <1>5, <1>6, <2>1, <2>2 DEF Good, Takes
<1>9. \A q \in Procs : q # p => ~Refreshing(q)
  BY <1>2 DEF TokensGood, HolderOnly, Held, Refreshing
<1> HIDE DEF a, client, spent
<1>10. RowTokens'
  <2> SUFFICES ASSUME NEW b \in Apps, HasToken(b)
               PROVE  /\ rows[b].token.app = b /\ rows[b].token.n <= issued'
                      /\ \/ Good(rows[b].token, b, rows[b].client)'
                         \/ \E q \in Procs : caller'[q].pc = "saving" /\ caller'[q].app = b
    BY <1>3 DEF RowTokens, HasToken
  <2>1. rows[b].token.app = b /\ rows[b].token.n <= issued
    BY DEF TokensGood, RowTokens
  <2>2. rows[b].token.n <= issued'
    <3>1. rows[b].token \in Token /\ issued \in Nat
      BY DEF TypeOK, Row, HasToken
    <3> QED BY <1>4, <2>1, <3>1 DEF Token
  <2>3. CASE rows[b].token = spent
    BY <1>2, <1>6, <2>1, <2>2, <2>3 DEF Good, Takes
  <2>4. CASE rows[b].token # spent
    <3>1. \A q \in Procs : caller[q].pc # "saving"
      BY <1>2, <1>9 DEF Refreshing
    <3>2. Good(rows[b].token, b, rows[b].client)
      BY <3>1 DEF TokensGood, RowTokens
    <3> QED BY <1>3, <1>7, <2>1, <2>2, <2>4, <3>2
  <2> QED BY <2>3, <2>4
<1>11. CallerTokens'
  BY <1>6, <1>8, <1>9 DEF CallerTokens, Refreshing
<1>12. \A c \in Callbacks : callback[c].pc = "saving" =>
          /\ callback[c].token # spent
          /\ callback[c].app \in Apps
          /\ Good(callback[c].token, callback[c].app, callback[c].client)
  <2>1. Refreshing(p)
    BY <1>2 DEF Refreshing
  <2> QED BY <2>1 DEF TokensGood, Apart, ConsentTokens, TypeOK, Call, spent
<1>13. ConsentTokens'
  BY <1>3, <1>7, <1>12 DEF TokensGood, ConsentTokens, Consenting
<1>14. Apart'
  <2>1. \A c \in Callbacks : callback[c].pc = "saving" => callback[c].token # new
    BY <1>4, <1>5, <1>7, <1>12
  <2> QED BY <1>3, <1>6, <1>9, <2>1 DEF TokensGood, Apart, HasToken, Refreshing
<1> QED
  BY <1>10, <1>11, <1>13, <1>14 DEF TokensGood

\* A token is saved to the row it was issued for, if that is still there.
LEMMA SavedRow ==
    ASSUME TypeOK, NEW a \in Apps, NEW token \in Token \cup {NoToken}, Saver(a, token)
    PROVE  \A b \in Apps : /\ rows'[b].client = rows[b].client
                           /\ b # a => rows'[b] = rows[b]
                           /\ b = a /\ HasToken(b)' => rows'[b].token = token
<1>1. rows \in [Apps -> Row] /\ rows[a] \in Row
  BY DEF TypeOK
<1>2. CASE rows[a].exists
  <2>1. rows' = [rows EXCEPT ![a].token = token, ![a].fresh = TRUE]
    BY <1>2 DEF Saver
  <2> QED BY <1>1, <2>1 DEF Row
<1>3. CASE ~rows[a].exists
  BY <1>3 DEF Saver, HasToken
<1> QED BY <1>2, <1>3

\* The token saver of a refresh.
LEMMA SaveKeeps ==
    ASSUME TypeOK, TokensGood, HolderOnly', NEW p \in Procs, Save(p)
    PROVE  TokensGood'
<1>0. CallersOK
  BY TypeParts
<1> DEFINE a == caller[p].app
           token == caller[p].token
<1>1. a \in Apps /\ token \in Token \cup {NoToken} /\ UNCHANGED <<callback, xeroVars>>
  BY <1>0 DEF CallersOK, Call, Save
<1>2. \A b \in Apps : /\ rows'[b].client = rows[b].client
                      /\ b # a => rows'[b] = rows[b]
                      /\ b = a /\ HasToken(b)' => rows'[b].token = token
  <2>1. Saver(a, token)
    BY DEF Save, SavedOn
  <2> HIDE DEF a, token
  <2> QED BY <1>1, <2>1, SavedRow
<1>3. caller[p].pc = "saving" /\ Good(token, a, caller[p].client)
  BY DEF Save, TokensGood, CallerTokens, Refreshing
<1>4. Moves(p, "releasing")
  BY <1>0, MovesCaller DEF Save, Leaves
<1>5. \A q \in Procs : ~Refreshing(q)'
  BY <1>3, <1>4 DEF TokensGood, HolderOnly, Held, Moves, Refreshing
<1>6. \A t : \A b \in Apps : \A client : Good(t, b, client) => Good(t, b, client)'
  BY <1>1, <1>2 DEF Good, Takes, xeroVars
<1>7. RowTokens'
  <2> SUFFICES ASSUME NEW b \in Apps, HasToken(b)'
               PROVE  /\ rows'[b].token.app = b /\ rows'[b].token.n <= issued'
                      /\ Good(rows[b].token, b, rows[b].client)'
    BY DEF RowTokens
  <2>1. CASE b = a
    BY <1>1, <1>2, <1>3, <2>1 DEF Good, Takes, xeroVars
  <2>2. CASE b # a
    <3>1. HasToken(b) /\ rows'[b] = rows[b]
      BY <1>2, <2>2 DEF HasToken
    <3>2. \A q \in Procs : caller[q].pc = "saving" => q = p
      BY <1>3 DEF TokensGood, HolderOnly, Held
    <3>3. /\ rows[b].token.app = b /\ rows[b].token.n <= issued
          /\ Good(rows[b].token, b, rows[b].client)
      BY <2>2, <3>1, <3>2 DEF TokensGood, RowTokens
    <3> QED BY <1>1, <3>1, <3>3 DEF Good, Takes, xeroVars
  <2> QED BY <2>1, <2>2
<1>8. CallerTokens'
  BY <1>5 DEF CallerTokens
<1>9. ConsentTokens'
  <2>1. \A c \in Callbacks : callback[c].app \in Apps
    BY DEF TypeOK, Call
  <2> QED BY <1>1, <1>2, <1>6, <2>1 DEF TokensGood, ConsentTokens, Consenting
<1>10. Apart'
  <2> SUFFICES ASSUME NEW c \in Callbacks, callback[c].pc = "saving"
               PROVE  \A b \in Apps : HasToken(b)' => rows'[b].token # callback[c].token
    BY <1>1, <1>5 DEF Apart
  <2>1. callback[c].token # token
    BY <1>3 DEF TokensGood, Apart, Refreshing
  <2> QED BY <1>2, <2>1 DEF TokensGood, Apart, HasToken
<1> QED
  BY <1>7, <1>8, <1>9, <1>10 DEF TokensGood

\* The landing that spends the state: it asks for the row that is active.
LEMMA SpentKeeps ==
    ASSUME TypeOK, TokensGood, HolderOnly', NEW c \in Callbacks, StateSpent(c)
    PROVE  TokensGood'
<1>1. UNCHANGED <<rows, caller, xeroVars>>
  BY DEF StateSpent
<1>2. CASE ~Spent(c)
  BY <1>1, <1>2, LandingQuiet DEF StateSpent
<1>3. CASE Spent(c)
  <2>1. active \in Apps
    BY DEF TypeOK
  <2>2. /\ callback'[c].pc = "exchanging" /\ callback'[c].app = active
        /\ callback'[c].client = rows[active].client
        /\ \A d \in Callbacks : d # c => callback'[d] = callback[d]
    <3>1. callback[c] \in Call(CallbackPlaces) /\ callback \in [Callbacks -> Call(CallbackPlaces)]
      BY DEF TypeOK
    <3>2. callback' = [callback EXCEPT ![c].pc = "exchanging", ![c].app = active,
                                         ![c].client = rows[active].client]
      BY <1>3 DEF StateSpent
    <3> QED BY <3>1, <3>2 DEF Call
  <2>3. RowTokens' /\ CallerTokens'
    BY <1>1 DEF TokensGood, RowTokens, CallerTokens, Good, Takes, HasToken, Refreshing, xeroVars
  <2>4. ConsentTokens'
    BY <1>1, <2>2 DEF TokensGood, ConsentTokens, Consenting, Good, Takes, xeroVars
  <2>5. Apart'
    BY <1>1, <2>2 DEF TokensGood, Apart, HasToken, Refreshing
  <2> QED BY <2>3, <2>4, <2>5 DEF TokensGood
<1> QED BY <1>2, <1>3

\* The code is exchanged for a token that is new, so that it is nobody else's.
LEMMA ExchangeKeeps ==
    ASSUME TypeOK, TokensGood, HolderOnly', NEW c \in Callbacks, Exchange(c)
    PROVE  TokensGood'
<1> DEFINE a == callback[c].app
           client == callback[c].client
           new == New(a, client)
<1>0. callback \in [Callbacks -> Call(CallbackPlaces)] /\ callback[c] \in Call(CallbackPlaces)
  BY DEF TypeOK
<1>1. a \in Apps /\ client \in Nat
  BY <1>0 DEF Call
<1>2. UNCHANGED <<rows, caller>> /\ client = rows[a].client
  BY DEF Exchange, TokensGood, ConsentTokens, Consenting
<1>3. CASE Reaches(c, "landed") /\ UNCHANGED xeroVars
  BY <1>2, <1>3, LandingQuiet
<1>4. CASE /\ callback' = [callback EXCEPT ![c].pc = "saving", ![c].token = new]
           /\ accepted' = accepted \cup {new}
           /\ issued' = issued + 1
  <2>1. new \in Token /\ new.n = issued + 1 /\ new.app = a /\ new.client = client
    <3>1. XeroOK
      BY TypeParts
    <3> QED BY <1>1, <3>1, NewType DEF New
  <2> HIDE DEF new
  <2>2. /\ callback'[c].pc = "saving" /\ callback'[c].app = a /\ callback'[c].client = client
        /\ callback'[c].token = new
        /\ \A d \in Callbacks : d # c => callback'[d] = callback[d]
    BY <1>0, <1>4 DEF Call
  <2>3. /\ issued \in Nat /\ new \in accepted' /\ accepted \subseteq accepted'
        /\ \A token \in Token : token.n \in Nat
    BY <1>4 DEF TypeOK, Token
  <2>4. \A token : \A b \in Apps : \A cl :
           Good(token, b, cl) => Good(token, b, cl)' /\ token # new
    <3> SUFFICES ASSUME NEW token, NEW b \in Apps, NEW cl, Good(token, b, cl)
                 PROVE  Good(token, b, cl)' /\ token # new
      OBVIOUS
    <3>1. token \in Token /\ token.n <= issued
      BY DEF Good, Takes, TypeOK
    <3>2. token.n <= issued' /\ token.n # new.n
      BY <1>4, <2>1, <2>3, <3>1
    <3> QED BY <1>2, <2>3, <3>2 DEF Good, Takes
  <2> HIDE DEF a, client
  <2>5. Good(callback[c].token, callback[c].app, callback[c].client)'
    BY <1>2, <1>4, <2>1, <2>2, <2>3 DEF Good, Takes
  <2>6. ASSUME NEW b \in Apps, HasToken(b)
        PROVE  rows[b].token.n <= issued' /\ rows[b].token # new
    <3>1. rows[b].token \in Token /\ rows[b].token.n <= issued
      BY <2>6 DEF TypeOK, Row, HasToken, TokensGood, RowTokens
    <3> QED BY <1>4, <2>1, <2>3, <3>1
  <2>7. RowTokens'
    BY <1>2, <2>4, <2>6 DEF TokensGood, RowTokens, HasToken
  <2>8. \A p \in Procs : caller[p].app \in Apps
    BY DEF TypeOK, Call
  <2>9. CallerTokens'
    BY <1>2, <2>4, <2>8 DEF TokensGood, CallerTokens, Refreshing
  <2>10. \A d \in Callbacks : callback[d].app \in Apps
    BY DEF TypeOK, Call
  <2>11. ConsentTokens'
    <3> SUFFICES ASSUME NEW d \in Callbacks
                 PROVE  /\ Consenting(d)' => callback'[d].client = rows[callback'[d].app].client
                        /\ callback'[d].pc = "saving" =>
                              Good(callback[d].token, callback[d].app, callback[d].client)'
      BY <1>2 DEF ConsentTokens
    <3>1. CASE d = c
      BY <1>2, <2>2, <2>5, <3>1
    <3>2. CASE d # c
      BY <2>2, <2>4, <2>10, <3>2 DEF TokensGood, ConsentTokens, Consenting
    <3> QED BY <3>1, <3>2
  <2>12. Apart'
    <3>1. \A p \in Procs : Refreshing(p) => caller[p].token # new
      BY <2>4, <2>8 DEF TokensGood, CallerTokens
    <3> QED BY <1>2, <2>2, <2>6, <3>1 DEF TokensGood, Apart, HasToken, Refreshing
  <2> QED BY <2>7, <2>9, <2>11, <2>12 DEF TokensGood
<1> QED BY <1>3, <1>4 DEF Exchange

\* The one consent there is, is saved.
LEMMA SaveConsentKeeps ==
    ASSUME TypeOK, StateSpentOnce, TokensGood, HolderOnly', NEW c \in Callbacks, SaveConsent(c)
    PROVE  TokensGood'
<1> DEFINE a == callback[c].app
           token == callback[c].token
<1>0. callback \in [Callbacks -> Call(CallbackPlaces)] /\ callback[c] \in Call(CallbackPlaces)
  BY DEF TypeOK
<1>1. a \in Apps /\ token \in Token \cup {NoToken} /\ UNCHANGED <<caller, xeroVars>>
  BY <1>0 DEF Call, SaveConsent
<1>2. \A b \in Apps : /\ rows'[b].client = rows[b].client
                      /\ b # a => rows'[b] = rows[b]
                      /\ b = a /\ HasToken(b)' => rows'[b].token = token
  <2>1. Saver(a, token)
    BY DEF SaveConsent
  <2> HIDE DEF a, token
  <2> QED BY <1>1, <2>1, SavedRow
<1>3. Good(token, a, callback[c].client)
  BY DEF SaveConsent, TokensGood, ConsentTokens
<1>4. \A d \in Callbacks : ~Consenting(d)'
  <2>1. \A d \in Callbacks : Consenting(d) => d = c
    BY DEF SaveConsent, StateSpentOnce, Consenting
  <2> QED BY <1>0, <2>1 DEF SaveConsent, Reaches, At, Consenting
<1>5. \A t : \A b \in Apps : \A client : Good(t, b, client) => Good(t, b, client)'
  BY <1>1, <1>2 DEF Good, Takes, xeroVars
<1>6. RowTokens'
  <2> SUFFICES ASSUME NEW b \in Apps, HasToken(b)'
               PROVE  /\ rows'[b].token.app = b /\ rows'[b].token.n <= issued'
                      /\ \/ Good(rows[b].token, b, rows[b].client)'
                         \/ \E p \in Procs : caller[p].pc = "saving" /\ caller[p].app = b
    BY <1>1 DEF RowTokens
  <2>1. CASE b = a
    BY <1>1, <1>2, <1>3, <2>1 DEF Good, Takes, xeroVars
  <2>2. CASE b # a
    <3>1. HasToken(b) /\ rows'[b] = rows[b]
      BY <1>2, <2>2 DEF HasToken
    <3>2. /\ rows[b].token.app = b /\ rows[b].token.n <= issued
          /\ \/ Good(rows[b].token, b, rows[b].client)
             \/ \E p \in Procs : caller[p].pc = "saving" /\ caller[p].app = b
      BY <3>1 DEF TokensGood, RowTokens
    <3> QED BY <1>1, <3>1, <3>2 DEF Good, Takes, xeroVars
  <2> QED BY <2>1, <2>2
<1>7. CallerTokens'
  <2>1. \A p \in Procs : caller[p].app \in Apps
    BY DEF TypeOK, Call
  <2> QED BY <1>1, <1>5, <2>1 DEF TokensGood, CallerTokens, Refreshing
<1>8. ConsentTokens' /\ Apart'
  BY <1>4 DEF ConsentTokens, Apart, Consenting
<1> QED
  BY <1>6, <1>7, <1>8 DEF TokensGood

-----------------------------------------------------------------------------
(* The theorems.                                                           *)

LEMMA InitInv == Init => Inv
<1> SUFFICES ASSUME Init PROVE Inv
  OBVIOUS
<1>1. TypeOK
  BY InitTypes
<1>2. \A p \in Procs : caller[p].pc = "idle"
  BY DEF Init, At
<1>3. \A c \in Callbacks : callback[c].pc = "new"
  BY DEF Init, At
<1>4. SingleConsent
  BY <1>3 DEF SingleConsent, StateSpentOnce, Consenting
<1>5. RowTokens
  <2> SUFFICES ASSUME NEW a \in Apps
               PROVE  /\ rows[a].token.app = a /\ rows[a].token.n <= issued
                      /\ Good(rows[a].token, a, rows[a].client)
    BY DEF RowTokens
  <2>1. rows[a].token = [app |-> a, client |-> 0, n |-> 0] /\ rows[a].client = 0
    BY DEF Init
  <2>2. rows[a].token \in accepted /\ issued = 0
    BY <2>1 DEF Init
  <2> QED BY <2>1, <2>2 DEF Good, Takes
<1>6. HolderOnly /\ CallerTokens /\ ConsentTokens /\ Apart
  BY <1>2, <1>3 DEF HolderOnly, Held, CallerTokens, Refreshing, ConsentTokens, Consenting, Apart
<1> QED
  BY <1>1, <1>4, <1>5, <1>6 DEF Inv, TokensGood

LEMMA StepInv ==
    ASSUME Inv, [Next]_vars
    PROVE  Inv'
<1>1. TypeOK' /\ SingleConsent'
  BY StepTypes, StepConsent DEF Inv
<1>2. ASSUME Calm' PROVE TokensGood'
  <2>1. TypeOK /\ TokensGood /\ StateSpentOnce
    BY <1>2, CalmBefore DEF Inv, SingleConsent
  <2>2. CASE UNCHANGED vars
    BY <2>1, <2>2 DEF TokensGood, HolderOnly, RowTokens, CallerTokens, ConsentTokens, Apart, Good,
         Takes, HasToken, Refreshing, Consenting, vars, cacheVars, xeroVars
  <2>3. ASSUME NEW p \in Procs,
               \/ Ask(p) \/ Lock(p) \/ Reread(p) \/ Post(p) \/ Save(p) \/ ReleaseChecks(p)
               \/ ReleaseDeletes(p) \/ Look(p) \/ Check(p) \/ LastLook(p) \/ Dies(p)
        PROVE  TokensGood'
    <3>1. HolderOnly'
      BY <1>2, <2>1, <2>3, CallerHolds DEF TokensGood
    <3>2. ~Dies(p)
      BY <1>2 DEF Dies, Spend, Calm
    <3>3. CASE Reread(p)
      <4>1. CASE HasToken(active)
        BY <2>1, <3>1, <3>3, <4>1, RereadKeeps
      <4>2. CASE ~HasToken(active)
        BY <2>1, <3>1, <3>3, <4>2, CallerQuiet
      <4> QED BY <4>1, <4>2
    <3>4. CASE Post(p)
      BY <1>2, <2>1, <3>1, <3>4, PostKeeps
    <3>5. CASE Save(p)
      BY <2>1, <3>1, <3>5, SaveKeeps
    <3>6. CASE \/ Ask(p) \/ Lock(p) \/ ReleaseChecks(p) \/ ReleaseDeletes(p)
               \/ Look(p) \/ Check(p) \/ LastLook(p)
      <4>1. \/ Ask(p) \/ Lock(p) \/ (Reread(p) /\ ~HasToken(active)) \/ ReleaseChecks(p)
            \/ ReleaseDeletes(p) \/ Look(p) \/ Check(p) \/ LastLook(p)
        BY <3>6
      <4> QED BY <2>1, <3>1, <4>1, CallerQuiet
    <3> QED BY <2>3, <3>2, <3>3, <3>4, <3>5, <3>6
  <2>4. ASSUME NEW c \in Callbacks, StateRead(c) \/ StateSpent(c) \/ Exchange(c) \/ SaveConsent(c)
        PROVE  TokensGood'
    <3>1. HolderOnly'
      BY <1>2, <2>1, <2>4, OthersHold DEF TokensGood
    <3>2. CASE StateRead(c)
      BY <2>1, <3>1, <3>2, LandingQuiet DEF StateRead
    <3>3. CASE StateSpent(c)
      BY <2>1, <3>1, <3>3, SpentKeeps
    <3>4. CASE Exchange(c)
      BY <2>1, <3>1, <3>4, ExchangeKeeps
    <3>5. CASE SaveConsent(c)
      BY <2>1, <3>1, <3>5, SaveConsentKeeps
    <3> QED BY <2>4, <3>2, <3>3, <3>4, <3>5
  <2>5. CASE \/ Disconnect \/ StateExpires \/ Lapse
             \/ \E a \in Apps : Swap(a) \/ Reissue(a) \/ WipesOld(a) \/ Destroy(a) \/ Expire(a)
    <3>1. HolderOnly'
      BY <1>2, <2>1, <2>5, OthersHold DEF TokensGood
    <3> QED BY <1>2, <2>1, <2>5, <3>1, OtherQuiet
  <2> QED
    BY <2>2, <2>3, <2>4, <2>5, NextIsStep DEF Step
<1> QED
  BY <1>1, <1>2 DEF Inv

\* A process never sends a refresh token that another process, or a consent, spent
\* before it: with the lock, the token it reads from the row is the last of its app.
\* (get_valid_token)
THEOREM TokenSpentOnce == Spec => []NeverSpentTwice
<1>1. Inv => NeverSpentTwice
  BY DEF Inv, Calm, TokensGood, CallerTokens, Refreshing, Good, NeverSpentTwice
<1> QED
  BY <1>1, InitInv, StepInv, PTL DEF Spec

\* The connection is never lost for good: what a row holds can be refreshed, or its
\* successor is about to be saved there. (_make_token_saver)
THEOREM ConnectionKept == Spec => []StoredTokenWorks
<1>1. Inv => StoredTokenWorks
  BY DEF Inv, Calm, TokensGood, RowTokens, Good, StoredTokenWorks
<1> QED
  BY <1>1, InitInv, StepInv, PTL DEF Spec

\* Of the landings of one consent, however many, one exchanges the code.
\* (_consume_state)
THEOREM ConsentOnce == Spec => []StateSpentOnce
<1>1. Inv => StateSpentOnce
  BY DEF Inv, SingleConsent
<1> QED
  BY <1>1, InitInv, StepInv, PTL DEF Spec

\* A caller is told "not connected" by one of two looks at its row: neither found a
\* fresh token there. (_await_refreshed_token, _payload_if_fresh)
LEMMA ToldNot ==
    ASSUME TypeOK, [Next]_vars, NEW p \in Procs,
           caller[p].pc # "refused", caller'[p].pc = "refused"
    PROVE  ~IsFresh(caller[p].app)
<1>0. caller \in [Procs -> Call(CallerPlaces)]
  BY DEF TypeOK
<1>1. caller' # caller
  OBVIOUS
<1>2. PICK q \in Procs :
        \/ Ask(q) \/ Lock(q) \/ Reread(q) \/ Post(q) \/ Save(q) \/ ReleaseChecks(q)
        \/ ReleaseDeletes(q) \/ Look(q) \/ Check(q) \/ LastLook(q) \/ Dies(q)
  <2>1. Step
    BY <1>1, NextIsStep DEF vars
  <2>2. \A c \in Callbacks : ~StateRead(c) /\ ~StateSpent(c) /\ ~Exchange(c) /\ ~SaveConsent(c)
    BY <1>1 DEF StateRead, StateSpent, Exchange, SaveConsent
  <2>3. ~Disconnect /\ ~StateExpires /\ ~Lapse
    BY <1>1 DEF Disconnect, StateExpires, Lapse
  <2>4. \A a \in Apps : ~Swap(a) /\ ~Reissue(a) /\ ~WipesOld(a) /\ ~Destroy(a) /\ ~Expire(a)
    BY <1>1 DEF Swap, Reissue, WipesOld, Destroy, Expire
  <2> QED
    BY <2>1, <2>2, <2>3, <2>4 DEF Step
\* Who does not look is not told.
<1>3. ASSUME NEW pc \in CallerPlaces \ {"refused"}, caller' = [caller EXCEPT ![q].pc = pc]
      PROVE  FALSE
  BY <1>0, <1>3 DEF Call
<1>4. ASSUME NEW pc \in CallerPlaces \ {"refused"}, caller' = [caller EXCEPT ![q] = At(pc)]
      PROVE  FALSE
  BY <1>0, <1>4 DEF At
<1>5. q = p
  BY <1>0, <1>2 DEF Ask, Lock, Reread, Post, Save, ReleaseChecks, ReleaseDeletes, Look, Check,
     LastLook, Dies, Goes, Ends, NotConnected, Leaves, WhenFree
<1>6. CASE Look(q)
  <2>1. CASE ~rows[caller[q].app].exists
    BY <1>5, <2>1 DEF IsFresh, HasToken
  <2>2. CASE rows[caller[q].app].exists
    <3>1. Ends(q) \/ Goes(q, "checking")
      BY <1>6, <2>2 DEF Look
    <3> QED BY <1>3, <1>4, <3>1 DEF Ends, Goes, CallerPlaces
  <2> QED BY <2>1, <2>2
<1>7. CASE LastLook(q)
  <2>1. CASE ~IsFresh(caller[q].app)
    BY <1>5, <2>1
  <2>2. CASE IsFresh(caller[q].app)
    BY <1>4, <1>7, <2>2 DEF LastLook, Ends, CallerPlaces
  <2> QED BY <2>1, <2>2
<1>8. CASE Lock(q) \/ Check(q) \/ ReleaseChecks(q) \/ ReleaseDeletes(q) \/ Save(q) \/ Dies(q)
  <2>1. \/ Goes(q, "reading") \/ Goes(q, "waiting") \/ Goes(q, "looking") \/ Goes(q, "deleting")
        \/ Ends(q) \/ Leaves(q)
    BY <1>8 DEF Lock, Check, WhenFree, ReleaseChecks, ReleaseDeletes, Save, Dies
  <2> QED BY <1>3, <1>4, <2>1 DEF Goes, Ends, Leaves, CallerPlaces
<1>9. CASE Ask(q) \/ Reread(q) \/ Post(q)
  <2>1. \/ Leaves(q)
        \/ caller' = [caller EXCEPT ![q] = [At("locking") EXCEPT !.app = active]]
        \/ caller' = [caller EXCEPT ![q].pc = "posting", ![q].app = active,
                         ![q].client = rows[active].client, ![q].token = rows[active].token]
        \/ caller' = [caller EXCEPT ![q].pc = "saving",
                         ![q].token = New(caller[q].app, caller[q].client)]
    BY <1>9 DEF Ask, Reread, Post
  <2>2. CASE Leaves(q)
    BY <1>4, <2>2 DEF Leaves, CallerPlaces
  <2> QED BY <1>0, <2>1, <2>2 DEF At, Call
<1> QED
  BY <1>2, <1>6, <1>7, <1>8, <1>9

\* The waiters' promise: a caller that saw the lock go is not told "not connected" while
\* its row holds a fresh token, whoever saved it. (_await_refreshed_token)
THEOREM NoFalseAnswer == Spec => NoFalseNotConnected
<1> DEFINE Kept == \A p \in Procs :
          caller[p].pc # "refused" /\ caller'[p].pc = "refused" => ~IsFresh(caller[p].app)
<1>1. Inv /\ [Next]_vars => Kept
  BY ToldNot DEF Inv
<1> QED
  BY <1>1, InitInv, StepInv, PTL DEF Spec, NoFalseNotConnected

=============================================================================
