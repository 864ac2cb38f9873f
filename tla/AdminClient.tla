---------------------------- MODULE AdminClient ----------------------------
(***************************************************************************)
(* The HTTP client of the admin application in one tab: the token in the   *)
(* local storage, the interceptor that meets a 401 with a refresh, and the *)
(* calls that wait for the refresh of another.                             *)
(*                                                                         *)
(* A step is one turn of the event loop: an answer with the callbacks it   *)
(* resolves, a click, or the page that is left.                            *)
(***************************************************************************)
EXTENDS Naturals, FiniteSets

CONSTANTS
  Calls,
  KindOfCall,   \* "plain", "me" (asks who is logged in) or "login"
  MaxTokens     \* bound: tokens issued

ASSUME ClientAssumption ==
  /\ KindOfCall \in [Calls -> {"plain", "me", "login"}]
  /\ MaxTokens \in Nat \ {0}

NoToken == 0

VARIABLES
  issued,       \* tokens are numbered as they are issued
  live,         \* those the server accepts
  token,        \* localStorage: 'token'
  refreshToken, \* localStorage: 'refresh_token' is there
  isRefreshing,
  refreshQueue,
  call,
  leaving       \* window.location.href was set, the page is still there

clientVars == <<issued, live, token, refreshToken, isRefreshing, refreshQueue, call, leaving>>

-----------------------------------------------------------------------------
CallState == [pc : {"new", "sent", "queued", "refreshing", "ok", "failed", "gone"},
              carries : 0..MaxTokens, retried : BOOLEAN]

CallAt(c, pc) == call[c].pc = pc

Settled(c) == call[c].pc \in {"ok", "failed", "gone"}

\* The request interceptor puts the token of the storage into the header.
Carrying(c, n) == [call[c] EXCEPT !.pc = "sent", !.carries = n]

\* A failed /auth/me takes the token out of the storage.
TokenAfterFailing(some) == IF \E c \in some : KindOfCall[c] = "me" THEN NoToken ELSE token

ClientInit ==
  /\ refreshToken \in BOOLEAN
  /\ issued = IF refreshToken THEN 1 ELSE 0
  /\ token = issued /\ live = {}
  /\ isRefreshing = FALSE /\ refreshQueue = {} /\ leaving = FALSE
  /\ call = [c \in Calls |-> [pc |-> "new", carries |-> NoToken, retried |-> FALSE]]

-----------------------------------------------------------------------------
SendCall(c) ==
  /\ CallAt(c, "new")
  /\ KindOfCall[c] = "me" => token # NoToken
  /\ call' = [call EXCEPT ![c] = Carrying(c, token)]
  /\ UNCHANGED <<issued, live, token, refreshToken, isRefreshing, refreshQueue, leaving>>

Succeeds(c) ==
  /\ CallAt(c, "sent")
  /\ KindOfCall[c] # "login" /\ call[c].carries \in live
  /\ call' = [call EXCEPT ![c].pc = "ok"]
  /\ UNCHANGED <<issued, live, token, refreshToken, isRefreshing, refreshQueue, leaving>>

\* login, in the AuthContext.
LogsIn(c) ==
  /\ CallAt(c, "sent") /\ KindOfCall[c] = "login" /\ issued < MaxTokens
  /\ issued' = issued + 1 /\ live' = live \cup {issued + 1}
  /\ token' = issued + 1 /\ refreshToken' = TRUE
  /\ call' = [call EXCEPT ![c].pc = "ok"]
  /\ UNCHANGED <<isRefreshing, refreshQueue, leaving>>

\* Any answer but 401, or none.
FailsOtherwise(c) ==
  /\ CallAt(c, "sent")
  /\ call' = [call EXCEPT ![c].pc = "failed"]
  /\ token' = TokenAfterFailing({c})
  /\ UNCHANGED <<issued, live, refreshToken, isRefreshing, refreshQueue, leaving>>

\* 401: a token that is missing or not accepted, or a wrong password.
Refused401(c) == CallAt(c, "sent") /\ (KindOfCall[c] = "login" \/ call[c].carries \notin live)

RefusedAgain(c) ==
  /\ Refused401(c) /\ call[c].retried
  /\ call' = [call EXCEPT ![c].pc = "failed"]
  /\ token' = TokenAfterFailing({c})
  /\ UNCHANGED <<issued, live, refreshToken, isRefreshing, refreshQueue, leaving>>

\* Without a refresh token: to the login page.
NothingToRefresh(c) ==
  /\ Refused401(c) /\ ~call[c].retried /\ ~refreshToken
  /\ token' = NoToken /\ leaving' = TRUE
  /\ call' = [call EXCEPT ![c].pc = "failed"]
  /\ UNCHANGED <<issued, live, refreshToken, isRefreshing, refreshQueue>>

\* Waits for the refresh of another; _retry is not set.
WaitForRefresh(c) ==
  /\ Refused401(c) /\ ~call[c].retried /\ refreshToken /\ isRefreshing
  /\ refreshQueue' = refreshQueue \cup {c}
  /\ call' = [call EXCEPT ![c].pc = "queued"]
  /\ UNCHANGED <<issued, live, token, refreshToken, isRefreshing, leaving>>

\* Variant with a bug: isRefreshing is not looked at.
StartRefreshAnyway(c) ==
  /\ Refused401(c) /\ ~call[c].retried /\ refreshToken
  /\ isRefreshing' = TRUE
  /\ call' = [call EXCEPT ![c].pc = "refreshing", ![c].retried = TRUE]
  /\ UNCHANGED <<issued, live, token, refreshToken, refreshQueue, leaving>>

StartRefresh(c) ==
  /\ Refused401(c) /\ ~call[c].retried /\ refreshToken /\ ~isRefreshing
  /\ isRefreshing' = TRUE
  /\ call' = [call EXCEPT ![c].pc = "refreshing", ![c].retried = TRUE]
  /\ UNCHANGED <<issued, live, token, refreshToken, refreshQueue, leaving>>

\* Variant with a bug: processQueue is only called when the refresh fails.
RefreshedAlone(c) ==
  /\ CallAt(c, "refreshing") /\ issued < MaxTokens
  /\ issued' = issued + 1 /\ live' = live \cup {issued + 1} /\ token' = issued + 1
  /\ call' = [call EXCEPT ![c] = Carrying(c, issued + 1)]
  /\ isRefreshing' = FALSE
  /\ UNCHANGED <<refreshToken, refreshQueue, leaving>>

\* processQueue(null, token): this call and those that wait are sent again, with
\* the token of the storage; finally, isRefreshing is FALSE.
Refreshed(c) ==
  /\ CallAt(c, "refreshing") /\ issued < MaxTokens
  /\ issued' = issued + 1 /\ live' = live \cup {issued + 1} /\ token' = issued + 1
  /\ call' = [d \in Calls |->
       IF d = c \/ d \in refreshQueue THEN Carrying(d, issued + 1) ELSE call[d]]
  /\ refreshQueue' = {} /\ isRefreshing' = FALSE
  /\ UNCHANGED <<refreshToken, leaving>>

\* processQueue(refreshErr): everybody fails, and to the login page.
RefreshRefused(c) ==
  /\ CallAt(c, "refreshing")
  /\ call' = [d \in Calls |->
       IF d = c \/ d \in refreshQueue THEN [call[d] EXCEPT !.pc = "failed"] ELSE call[d]]
  /\ refreshQueue' = {} /\ isRefreshing' = FALSE
  /\ token' = NoToken /\ refreshToken' = FALSE /\ leaving' = TRUE
  /\ UNCHANGED <<issued, live>>

-----------------------------------------------------------------------------
\* The browser loads the login page: whatever was under way is gone.
LoadLoginPage ==
  /\ leaving
  /\ call' = [c \in Calls |-> IF Settled(c) \/ CallAt(c, "new") THEN call[c]
                              ELSE [call[c] EXCEPT !.pc = "gone"]]
  /\ refreshQueue' = {} /\ isRefreshing' = FALSE /\ leaving' = FALSE
  /\ UNCHANGED <<issued, live, token, refreshToken>>

\* logout, here or in another tab: nothing is told to the calls under way.
Logout ==
  /\ token' = NoToken /\ refreshToken' = FALSE
  /\ UNCHANGED <<issued, live, isRefreshing, refreshQueue, call, leaving>>

TokenExpires(n) ==
  /\ n \in live
  /\ live' = live \ {n}
  /\ UNCHANGED <<issued, token, refreshToken, isRefreshing, refreshQueue, call, leaving>>

-----------------------------------------------------------------------------
\* The server answers, or the connection breaks.
Answer(c) ==
  \/ Succeeds(c) \/ LogsIn(c) \/ FailsOtherwise(c)
  \/ RefusedAgain(c) \/ NothingToRefresh(c) \/ WaitForRefresh(c) \/ StartRefresh(c)
  \/ Refreshed(c) \/ RefreshRefused(c)

ClientNext ==
  \/ \E c \in Calls : SendCall(c) \/ Answer(c)
  \/ LoadLoginPage \/ Logout
  \/ \E n \in live : TokenExpires(n)

ClientSpec ==
  /\ ClientInit /\ [][ClientNext]_clientVars
  /\ \A c \in Calls : WF_clientVars(Answer(c))

-----------------------------------------------------------------------------
(* Properties.                                                             *)

\* The storage, the queue and the calls have the shape of the code's.
ClientTypeOK ==
  /\ issued \in 0..MaxTokens /\ live \subseteq 1..issued /\ token \in 0..issued
  /\ refreshToken \in BOOLEAN /\ isRefreshing \in BOOLEAN /\ leaving \in BOOLEAN
  /\ refreshQueue \subseteq Calls
  /\ call \in [Calls -> CallState]

\* Nobody waits for nothing: the calls in the queue are those that wait, one call
\* at most is refreshing, and it is there whenever isRefreshing says so.
QueueHasItsRefresh ==
  LET refreshing == {c \in Calls : CallAt(c, "refreshing")}
  IN  /\ refreshQueue = {c \in Calls : CallAt(c, "queued")}
      /\ Cardinality(refreshing) = IF isRefreshing THEN 1 ELSE 0
      /\ ~isRefreshing => refreshQueue = {}

\* Every call that was sent settles, through refreshes that fail, logouts and
\* tokens that expire again at once: none goes round for ever.
EveryCallSettles == \A c \in Calls : CallAt(c, "sent") ~> Settled(c)
=============================================================================
