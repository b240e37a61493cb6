------------------------------ MODULE Sessions ------------------------------
(***************************************************************************)
(* Sessions of one person, and the app that holds their tokens.            *)
(*                                                                         *)
(* The server (AuthService) keeps a session per pair of tokens: a refresh  *)
(* revokes the session of the token it is given and creates another one.   *)
(* The app (apps/mobile, api/client.ts) sends its calls with the access    *)
(* token it has stored.  The first call that is answered 401 refreshes the *)
(* tokens for all the calls that are answered 401 meanwhile, which wait in *)
(* a queue; when the refresh fails, the queue is dropped and the tokens    *)
(* are cleared.  Logging out and logging in are calls as well.             *)
(*                                                                         *)
(* Both tokens are written and cleared together, so that the store and a   *)
(* token are the number of a session; 0 is no token.                       *)
(***************************************************************************)
EXTENDS Integers, FiniteSets

CONSTANTS
  Calls,        \* what the app asks of the server, each once
  MaxUpsets     \* bound: logouts, lost calls, exceptions, restarts

VARIABLES
  created,      \* how many sessions there have been
  live,         \* the sessions that are not revoked
  lapsed,       \* the sessions whose access token is out of date
  rotation,     \* rotation[c]: the server's work on the refresh asked by c
  store,        \* the app's stored tokens
  screen,       \* what the app shows
  refreshing,   \* isRefreshing
  call,         \* call[c]: where the call is, what it is, its token, _retry
  abandoned,    \* history: a refresh has failed
  upsets

serverVars == <<created, live, lapsed>>
appVars == <<store, screen, refreshing, call, abandoned>>
vars == <<serverVars, rotation, appVars, upsets>>
history == <<abandoned, upsets>>

Kinds == {"use", "start", "login", "logout"}
Screens == {"splash", "login", "main"}
Settled == {"done", "failed"}
Pcs == {"new", "resend", "sent", "refused", "reading", "posting", "saved",
        "clearing", "queued", "lost", "opened", "leaving"} \cup Settled
RotationPcs == {"idle", "check", "revoke", "create", "answer", "refused"}

(* A call may open one session and refresh another.                        *)
Sessions == 1..(2 * Cardinality(Calls) + 1)

ASSUME SessionsAssumption == IsFiniteSet(Calls) /\ MaxUpsets \in Nat

Tokens == 0..created
Rotations == [pc : RotationPcs, token : Tokens]
CallStates == [pc : Pcs, kind : Kinds, token : Tokens, retried : BOOLEAN]

TypeOK ==
  /\ created \in Nat
  /\ live \subseteq 1..created
  /\ lapsed \subseteq 1..created
  /\ rotation \in [Calls -> Rotations]
  /\ store \in Tokens
  /\ screen \in Screens
  /\ refreshing \in BOOLEAN
  /\ call \in [Calls -> CallStates]
  /\ abandoned \in BOOLEAN
  /\ upsets \in 0..MaxUpsets

Init ==
  /\ created = 1 /\ live = {1} /\ lapsed = {}
  /\ rotation = [c \in Calls |-> [pc |-> "idle", token |-> 0]]
  /\ store = 1 /\ screen = "main"
  /\ refreshing = FALSE
  /\ call = [c \in Calls |-> [pc |-> "new", kind |-> "use", token |-> 0,
                              retried |-> FALSE]]
  /\ abandoned = FALSE
  /\ upsets = 0
-----------------------------------------------------------------------------
Goto(c, at) == call' = [call EXCEPT ![c].pc = at]

Settle(c, at) ==
  call' = [call EXCEPT ![c] = [@ EXCEPT !.pc = at, !.token = 0]]

(* An error: a logout goes on all the same, and a start that cannot load   *)
(* the profile clears the tokens too.                                      *)
Broken(c) ==
  IF call[c].kind \in {"start", "logout"} THEN "leaving" ELSE "failed"

Upset ==
  /\ upsets < MaxUpsets
  /\ upsets' = upsets + 1

(* validateAccessToken, behind the strategy that checks the token's age.   *)
Valid(s) == s \in live /\ s \notin lapsed

OpenSession ==
  /\ created' = created + 1
  /\ live' = live \cup {created + 1}

Revoke(s) == live' = live \ {s}
-----------------------------------------------------------------------------
(* The app's calls.                                                        *)

(* The request interceptor reads the store.                                *)
Attached(c) == IF store # 0 THEN store ELSE call[c].token

Send(c, kind) ==
  call' = [call EXCEPT ![c] = [@ EXCEPT !.pc = "sent", !.kind = kind,
                                        !.token = Attached(c)]]

Use(c) ==
  /\ call[c].pc = "new" /\ screen = "main"
  /\ Send(c, "use")
  /\ UNCHANGED <<serverVars, rotation, store, screen, refreshing, history>>

(* A person logs in once at a time: the button waits with him.             *)
Login(c) ==
  /\ call[c].pc = "new" /\ screen = "login"
  /\ \A d \in Calls : call[d].kind = "login" => call[d].pc \in Settled
  /\ Send(c, "login")
  /\ UNCHANGED <<serverVars, rotation, store, screen, refreshing, history>>

Logout(c) ==
  /\ call[c].pc = "new" /\ screen = "main"
  /\ Send(c, "logout")
  /\ Upset
  /\ UNCHANGED <<serverVars, rotation, store, screen, refreshing, abandoned>>

(* initializeAuth: stored tokens are tried on the person's profile.        *)
StartUp(c) ==
  /\ call[c].pc = "new" /\ screen = "splash"
  /\ \A d \in Calls : call[d].kind = "start" => call[d].pc \in Settled
  /\ Send(c, "start")
  /\ UNCHANGED <<serverVars, rotation, store, screen, refreshing, history>>

Resend(c) ==
  /\ call[c].pc = "resend"
  /\ Send(c, call[c].kind)
  /\ UNCHANGED <<serverVars, rotation, store, screen, refreshing, history>>

(* The server answers, to anything but a login, by the token.              *)
AnswerUse(c) ==
  /\ call[c].pc = "sent" /\ call[c].kind \in {"use", "start"}
  /\ IF Valid(call[c].token)
     THEN /\ Settle(c, "done")
          /\ screen' = IF call[c].kind = "start" THEN "main" ELSE screen
     ELSE Goto(c, "refused") /\ UNCHANGED screen
  /\ UNCHANGED <<serverVars, rotation, store, refreshing, history>>

AnswerLogout(c) ==
  /\ call[c].pc = "sent" /\ call[c].kind = "logout"
  /\ IF Valid(call[c].token) THEN Revoke(call[c].token) /\ Goto(c, "leaving")
     ELSE Goto(c, "refused") /\ UNCHANGED live
  /\ UNCHANGED <<created, lapsed, rotation, store, screen, refreshing,
                 history>>

(* verifyOtp: a wrong code is answered 401, a right one opens a session.   *)
AnswerLogin(c) ==
  /\ call[c].pc = "sent" /\ call[c].kind = "login"
  /\ \/ Goto(c, "refused") /\ UNCHANGED <<created, live>>
     \/ /\ OpenSession
        /\ call' = [call EXCEPT ![c] = [@ EXCEPT !.pc = "opened",
                                                 !.token = created + 1]]
  /\ UNCHANGED <<lapsed, rotation, store, screen, refreshing, history>>

(* (What the app then loads before it shows its main screen is left out.)  *)
SaveLogin(c) ==
  /\ call[c].pc = "opened"
  /\ store' = call[c].token /\ screen' = "main"
  /\ Settle(c, "done")
  /\ UNCHANGED <<serverVars, rotation, refreshing, history>>

(* (The home screens clear the tokens themselves and then log out of       *)
(* AuthContext, which does it all again.)                                  *)
ClearAfterLogout(c) ==
  /\ call[c].pc = "leaving"
  /\ store' = 0
  /\ \/ screen' = "login"
     \/ call[c].kind = "logout" /\ UNCHANGED screen
  /\ Settle(c, "done")
  /\ UNCHANGED <<serverVars, rotation, refreshing, history>>

(* The call or its answer is lost, or the server fails.                    *)
CallFails(c) ==
  /\ call[c].pc \in {"sent", "opened"}
  /\ Settle(c, Broken(c))
  /\ Upset
  /\ UNCHANGED <<serverVars, rotation, store, screen, refreshing, abandoned>>
-----------------------------------------------------------------------------
(* The response interceptor, on a 401.                                     *)

(* Bug: nobody waits for a refresh that is under way.                      *)
MustWaitNever == FALSE

MustWait == refreshing

GiveUp(c) ==
  /\ call[c].pc = "refused" /\ call[c].retried
  /\ Settle(c, Broken(c))
  /\ UNCHANGED <<serverVars, rotation, store, screen, refreshing, history>>

Enqueue(c) ==
  /\ call[c].pc = "refused" /\ ~call[c].retried /\ MustWait
  /\ Goto(c, "queued")
  /\ UNCHANGED <<serverVars, rotation, store, screen, refreshing, history>>

StartRefresh(c) ==
  /\ call[c].pc = "refused" /\ ~call[c].retried /\ ~MustWait
  /\ call' = [call EXCEPT ![c] = [@ EXCEPT !.pc = "reading",
                                           !.retried = TRUE]]
  /\ refreshing' = TRUE
  /\ UNCHANGED <<serverVars, rotation, store, screen, history>>

PostRefresh(c) ==
  /\ call[c].pc = "reading"
  /\ Goto(c, "posting")
  /\ rotation' = [rotation EXCEPT ![c] = [pc |-> "check", token |-> store]]
  /\ UNCHANGED <<serverVars, store, screen, refreshing, history>>

SaveRotated(c) ==
  /\ call[c].pc = "posting" /\ rotation[c].pc = "answer"
  /\ store' = rotation[c].token
  /\ call' = [call EXCEPT ![c] = [@ EXCEPT !.pc = "saved",
                                           !.token = rotation[c].token]]
  /\ rotation' = [rotation EXCEPT ![c] = [pc |-> "idle", token |-> 0]]
  /\ UNCHANGED <<serverVars, screen, refreshing, history>>

(* Bug: the call that has refreshed goes on, the queue is forgotten.       *)
ResumeAlone(c) ==
  /\ call[c].pc = "saved"
  /\ Goto(c, "resend")
  /\ refreshing' = FALSE
  /\ UNCHANGED <<serverVars, rotation, store, screen, history>>

(* Everybody in the queue is given the new token and sent again.           *)
Resume(c) ==
  /\ call[c].pc = "saved"
  /\ call' = [d \in Calls |->
       IF d = c \/ call[d].pc = "queued"
       THEN [call[d] EXCEPT !.pc = "resend", !.token = call[c].token]
       ELSE call[d]]
  /\ refreshing' = FALSE
  /\ UNCHANGED <<serverVars, rotation, store, screen, history>>

(* catch: the queue is dropped first, and the tokens cleared after it.     *)
Abandon(c) ==
  /\ call' = [d \in Calls |->
       IF d = c THEN [call[d] EXCEPT !.pc = "clearing"]
       ELSE IF call[d].pc = "queued" THEN [call[d] EXCEPT !.pc = "lost"]
       ELSE call[d]]
  /\ abandoned' = TRUE

RefreshRefused(c) ==
  /\ call[c].pc = "posting" /\ rotation[c].pc = "refused"
  /\ Abandon(c)
  /\ rotation' = [rotation EXCEPT ![c] = [pc |-> "idle", token |-> 0]]
  /\ UNCHANGED <<serverVars, store, screen, refreshing, upsets>>

(* The answer is lost; the server may be at any point, and goes on.        *)
RefreshLost(c) ==
  /\ call[c].pc = "posting"
  /\ Abandon(c)
  /\ Upset
  /\ UNCHANGED <<serverVars, rotation, store, screen, refreshing>>

ClearTokens(c) ==
  /\ call[c].pc = "clearing"
  /\ store' = 0
  /\ refreshing' = FALSE
  /\ Settle(c, Broken(c))
  /\ UNCHANGED <<serverVars, rotation, screen, history>>
-----------------------------------------------------------------------------
(* refreshToken: the session is read, revoked by id, replaced.             *)

RotationTo(c, at) == rotation' = [rotation EXCEPT ![c].pc = at]

CheckSession(c) ==
  /\ rotation[c].pc = "check"
  /\ RotationTo(c, IF rotation[c].token \in live THEN "revoke" ELSE "refused")
  /\ UNCHANGED <<serverVars, appVars, upsets>>

(* Bug: the old session stays.                                             *)
RevokeRotatedNot(c) ==
  /\ rotation[c].pc = "revoke"
  /\ RotationTo(c, "create")
  /\ UNCHANGED <<serverVars, appVars, upsets>>

RevokeRotated(c) ==
  /\ rotation[c].pc = "revoke"
  /\ Revoke(rotation[c].token)
  /\ RotationTo(c, "create")
  /\ UNCHANGED <<created, lapsed, appVars, upsets>>

CreateSession(c) ==
  /\ rotation[c].pc = "create"
  /\ OpenSession
  /\ rotation' = [rotation EXCEPT ![c] = [pc |-> "answer",
                                          token |-> created + 1]]
  /\ UNCHANGED <<lapsed, appVars, upsets>>

(* A call of the database throws, the audit log's included.                *)
RotationThrows(c) ==
  /\ rotation[c].pc \in {"check", "revoke", "create", "answer"}
  /\ RotationTo(c, "refused")
  /\ Upset
  /\ UNCHANGED <<serverVars, appVars>>

(* An access token lives fifteen minutes.                                  *)
AccessLapses(s) ==
  /\ s \in live /\ s \notin lapsed
  /\ lapsed' = lapsed \cup {s}
  /\ UNCHANGED <<created, live, rotation, appVars, upsets>>

(* logoutAll, from another device.                                         *)
LogoutAll ==
  /\ live # {}
  /\ live' = {}
  /\ Upset
  /\ UNCHANGED <<created, lapsed, rotation, appVars>>

(* The app is closed and opened again: what is stored stays, and decides   *)
(* what it shows.                                                          *)
AppRestarts ==
  /\ call' = [c \in Calls |->
       IF call[c].pc \in {"new"} \cup Settled THEN call[c]
       ELSE [call[c] EXCEPT !.pc = "failed", !.token = 0]]
  /\ screen' = IF store = 0 THEN "login" ELSE "splash"
  /\ refreshing' = FALSE
  /\ Upset
  /\ UNCHANGED <<serverVars, rotation, store, abandoned>>
-----------------------------------------------------------------------------
AppStep(c) ==
  \/ Resend(c)
  \/ SaveLogin(c)
  \/ ClearAfterLogout(c)
  \/ GiveUp(c)
  \/ Enqueue(c)
  \/ StartRefresh(c)
  \/ PostRefresh(c)
  \/ SaveRotated(c)
  \/ Resume(c)
  \/ RefreshRefused(c)
  \/ ClearTokens(c)

ServerStep(c) ==
  \/ AnswerUse(c)
  \/ AnswerLogout(c)
  \/ AnswerLogin(c)
  \/ CheckSession(c)
  \/ RevokeRotated(c)
  \/ CreateSession(c)

UserStep(c) == Use(c) \/ StartUp(c) \/ Login(c) \/ Logout(c)

Failure(c) == CallFails(c) \/ RefreshLost(c) \/ RotationThrows(c)

Next ==
  \/ \E c \in Calls : \/ UserStep(c)
                      \/ AppStep(c)
                      \/ ServerStep(c)
                      \/ Failure(c)
  \/ \E s \in Sessions : AccessLapses(s)
  \/ LogoutAll
  \/ AppRestarts

Spec == Init /\ [][Next]_vars

(* What is ready in the app runs, and the server answers.                  *)
Fairness == \A c \in Calls : WF_vars(AppStep(c)) /\ WF_vars(ServerStep(c))

FairSpec == Spec /\ Fairness
-----------------------------------------------------------------------------
(* As long as nobody has logged out and nothing has failed.                *)

(* However calls, refusals and refreshes overlap, the app does not sign    *)
(* itself out: no refresh fails, and the tokens stay.                      *)
SignedOutForCause ==
  upsets = 0 => store # 0 /\ screen = "main" /\ ~abandoned

(* The person has one session at most, and the app holds its token, except *)
(* while a refresh is putting another in its place: no late answer         *)
(* overwrites a newer token, no session is left behind.                    *)
StoredTokenIsLive ==
  upsets = 0 =>
    /\ Cardinality(live) <= 1
    /\ \/ store \in live
       \/ \E c \in Calls : /\ call[c].pc = "posting"
                           /\ rotation[c].pc \in {"create", "answer"}

(* Why: one call refreshes at a time, with the stored token, and the       *)
(* server's work on it is what the session's state hangs on.               *)
Refreshing(c) == call[c].pc \in {"reading", "posting", "saved"}

OneRefresh ==
  /\ \A c \in Calls : Refreshing(c) => refreshing
  /\ \A c, d \in Calls : Refreshing(c) /\ Refreshing(d) => c = d
  /\ \A c \in Calls :
       /\ call[c].kind = "use"
       /\ call[c].pc \notin {"clearing", "lost", "opened", "leaving"}
       /\ IF call[c].pc = "posting"
          THEN rotation[c].pc \in {"check", "revoke", "create", "answer"}
          ELSE rotation[c].pc = "idle"
       /\ rotation[c].pc \in {"check", "revoke"} => rotation[c].token = store

RotationIsTrue ==
  \/ /\ live = {store}
     /\ \A c \in Calls : rotation[c].pc \notin {"create", "answer"}
  \/ /\ live = {}
     /\ \E c \in Calls : rotation[c].pc = "create"
  \/ \E c \in Calls : /\ rotation[c].pc = "answer"
                      /\ rotation[c].token # 0
                      /\ live = {rotation[c].token}

IInv ==
  /\ TypeOK
  /\ SignedOutForCause
  /\ upsets = 0 => OneRefresh /\ RotationIsTrue

(* Every call the app has sent settles, those in the queue included, as    *)
(* long as no refresh fails.  (One that fails drops the queue, and its     *)
(* calls are never settled.)                                               *)
CallsSettle ==
  \A c \in Calls :
    call[c].pc # "new" ~> call[c].pc \in Settled \/ abandoned
=============================================================================
