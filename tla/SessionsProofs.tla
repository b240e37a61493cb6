--------------------------- MODULE SessionsProofs ---------------------------
(***************************************************************************)
(* Proofs about Sessions, for any number of calls, sessions and upsets.    *)
(***************************************************************************)
EXTENDS Sessions, FiniteSetTheorems, TLAPS

LEMMA ZeroIsToken ==
  ASSUME TypeOK
  PROVE  0 \in Tokens
BY DEF TypeOK, Tokens

LEMMA CallFields ==
  ASSUME TypeOK, NEW c \in Calls
  PROVE  /\ call[c] \in CallStates
         /\ call[c].pc \in Pcs /\ call[c].kind \in Kinds
         /\ call[c].token \in Tokens /\ call[c].retried \in BOOLEAN
BY DEF TypeOK, CallStates

LEMMA RotationFields ==
  ASSUME TypeOK, NEW c \in Calls
  PROVE  /\ rotation[c] \in Rotations
         /\ rotation[c].pc \in RotationPcs /\ rotation[c].token \in Tokens
BY DEF TypeOK, Rotations

LEMMA CallSet ==
  ASSUME TypeOK, NEW c \in Calls, NEW r \in CallStates,
         call' = [call EXCEPT ![c] = r]
  PROVE  call' \in [Calls -> CallStates]
BY DEF TypeOK

LEMMA RotationSet ==
  ASSUME TypeOK, NEW c \in Calls, NEW r \in Rotations,
         rotation' = [rotation EXCEPT ![c] = r]
  PROVE  rotation' \in [Calls -> Rotations]
BY DEF TypeOK

LEMMA GotoTyped ==
  ASSUME TypeOK, NEW c \in Calls, NEW at \in Pcs, Goto(c, at)
  PROVE  call' \in [Calls -> CallStates]
<1> DEFINE r == [call[c] EXCEPT !.pc = at]
<1>1. r \in CallStates
  BY CallFields DEF CallStates
<1>2. call' = [call EXCEPT ![c] = r]
  BY DEF Goto
<1> HIDE DEF r
<1> QED
  BY <1>1, <1>2, CallSet

LEMMA SettleTyped ==
  ASSUME TypeOK, NEW c \in Calls, NEW at \in Pcs, Settle(c, at)
  PROVE  call' \in [Calls -> CallStates]
<1> DEFINE r == [call[c] EXCEPT !.pc = at, !.token = 0]
<1>1. r \in CallStates
  BY CallFields, ZeroIsToken DEF CallStates
<1>2. call' = [call EXCEPT ![c] = r]
  BY DEF Settle
<1> HIDE DEF r
<1> QED
  BY <1>1, <1>2, CallSet

LEMMA SendTyped ==
  ASSUME TypeOK, NEW c \in Calls, NEW k \in Kinds, Send(c, k)
  PROVE  call' \in [Calls -> CallStates]
<1> DEFINE r == [call[c] EXCEPT !.pc = "sent", !.kind = k,
                                !.token = Attached(c)]
<1>1. r \in CallStates
  BY CallFields DEF CallStates, TypeOK, Attached, Pcs
<1>2. call' = [call EXCEPT ![c] = r]
  BY DEF Send
<1> HIDE DEF r
<1> QED
  BY <1>1, <1>2, CallSet

LEMMA AbandonTyped ==
  ASSUME TypeOK, NEW c \in Calls, Abandon(c)
  PROVE  call' \in [Calls -> CallStates] /\ abandoned' \in BOOLEAN
<1>1. ASSUME NEW d \in Calls
      PROVE  /\ [call[d] EXCEPT !.pc = "clearing"] \in CallStates
             /\ [call[d] EXCEPT !.pc = "lost"] \in CallStates
  BY CallFields DEF CallStates, Pcs
<1> QED
  BY <1>1, CallFields DEF Abandon

LEMMA BrokenTyped ==
  ASSUME NEW c \in Calls
  PROVE  Broken(c) \in Pcs
BY DEF Broken, Pcs, Settled

LEMMA RotationToTyped ==
  ASSUME TypeOK, NEW c \in Calls, NEW at \in RotationPcs, RotationTo(c, at)
  PROVE  rotation' \in [Calls -> Rotations]
<1> DEFINE r == [rotation[c] EXCEPT !.pc = at]
<1>1. r \in Rotations
  BY RotationFields DEF Rotations
<1>2. rotation' = [rotation EXCEPT ![c] = r]
  BY DEF RotationTo
<1> HIDE DEF r
<1> QED
  BY <1>1, <1>2, RotationSet

LEMMA RotationEnds ==
  ASSUME TypeOK, NEW c \in Calls,
         rotation' = [rotation EXCEPT ![c] = [pc |-> "idle", token |-> 0]]
  PROVE  rotation' \in [Calls -> Rotations]
<1>1. [pc |-> "idle", token |-> 0] \in Rotations
  BY ZeroIsToken DEF Rotations, RotationPcs
<1> QED
  BY <1>1, RotationSet

(* Types, when no session is created and when one is.                      *)
LEMMA SameSessions ==
  ASSUME TypeOK, created' = created, live' \subseteq live, lapsed' = lapsed,
         rotation' \in [Calls -> Rotations], call' \in [Calls -> CallStates],
         store' \in Tokens, screen' \in Screens, refreshing' \in BOOLEAN,
         abandoned' \in BOOLEAN, upsets' = upsets \/ Upset
  PROVE  TypeOK'
BY SessionsAssumption
   DEF TypeOK, Tokens, Rotations, CallStates, Upset

LEMMA TypesGrow ==
  ASSUME TypeOK, created' = created + 1
  PROVE  /\ Tokens \subseteq Tokens' /\ created + 1 \in Tokens'
         /\ Rotations \subseteq Rotations'
         /\ CallStates \subseteq CallStates'
<1>1. Tokens \subseteq Tokens' /\ created + 1 \in Tokens'
  BY DEF TypeOK, Tokens
<1> QED
  BY <1>1 DEF Rotations, CallStates

LEMMA OneMoreSession ==
  ASSUME TypeOK, OpenSession, lapsed' = lapsed,
         rotation' \in [Calls -> Rotations'],
         call' \in [Calls -> CallStates'],
         UNCHANGED <<store, screen, refreshing, abandoned, upsets>>
  PROVE  TypeOK'
<1>1. created' = created + 1
  BY DEF OpenSession
<1>2. store' \in Tokens'
  BY <1>1, TypesGrow DEF TypeOK
<1>3. /\ created' \in Nat
      /\ live' \subseteq 1..created' /\ lapsed' \subseteq 1..created'
  BY <1>1 DEF TypeOK, OpenSession
<1> QED
  BY <1>2, <1>3 DEF TypeOK

LEMMA UseType ==
  ASSUME TypeOK, NEW c \in Calls, Use(c)
  PROVE  TypeOK'
<1>1. Send(c, "use")
  BY DEF Use
<1>2. "use" \in Kinds
  BY CallFields DEF Kinds
<1>3. call' \in [Calls -> CallStates]
  BY <1>1, <1>2, SendTyped
<1> QED
  BY <1>3, SameSessions DEF TypeOK, serverVars, history, Use

LEMMA LoginType ==
  ASSUME TypeOK, NEW c \in Calls, Login(c)
  PROVE  TypeOK'
<1>1. Send(c, "login")
  BY DEF Login
<1>2. "login" \in Kinds
  BY CallFields DEF Kinds
<1>3. call' \in [Calls -> CallStates]
  BY <1>1, <1>2, SendTyped
<1> QED
  BY <1>3, SameSessions DEF TypeOK, serverVars, history, Login

LEMMA LogoutType ==
  ASSUME TypeOK, NEW c \in Calls, Logout(c)
  PROVE  TypeOK'
<1>1. Send(c, "logout")
  BY DEF Logout
<1>2. "logout" \in Kinds
  BY CallFields DEF Kinds
<1>3. call' \in [Calls -> CallStates]
  BY <1>1, <1>2, SendTyped
<1> QED
  BY <1>3, SameSessions DEF TypeOK, serverVars, history, Logout

LEMMA StartUpType ==
  ASSUME TypeOK, NEW c \in Calls, StartUp(c)
  PROVE  TypeOK'
<1>1. Send(c, "start")
  BY DEF StartUp
<1>2. "start" \in Kinds
  BY CallFields DEF Kinds
<1>3. call' \in [Calls -> CallStates]
  BY <1>1, <1>2, SendTyped
<1> QED
  BY <1>3, SameSessions DEF TypeOK, serverVars, history, StartUp

LEMMA ResendType ==
  ASSUME TypeOK, NEW c \in Calls, Resend(c)
  PROVE  TypeOK'
<1>1. Send(c, call[c].kind)
  BY DEF Resend
<1>2. call[c].kind \in Kinds
  BY CallFields DEF Kinds
<1>3. call' \in [Calls -> CallStates]
  BY <1>1, <1>2, SendTyped
<1> QED
  BY <1>3, SameSessions DEF TypeOK, serverVars, history, Resend

LEMMA AnswerUseType ==
  ASSUME TypeOK, NEW c \in Calls, AnswerUse(c)
  PROVE  TypeOK'
<1>1. call' \in [Calls -> CallStates]
  BY SettleTyped, GotoTyped DEF AnswerUse, Pcs, Settled
<1> QED
  BY <1>1, SameSessions DEF TypeOK, serverVars, appVars, history,
     AnswerUse, Screens

LEMMA AnswerLogoutType ==
  ASSUME TypeOK, NEW c \in Calls, AnswerLogout(c)
  PROVE  TypeOK'
<1>1. call' \in [Calls -> CallStates]
  BY GotoTyped DEF AnswerLogout, Pcs, Settled
<1> QED
  BY <1>1, SameSessions DEF TypeOK, serverVars, appVars, history,
     AnswerLogout, Revoke

LEMMA AnswerLoginType ==
  ASSUME TypeOK, NEW c \in Calls, AnswerLogin(c)
  PROVE  TypeOK'
<1>1. CASE Goto(c, "refused") /\ UNCHANGED <<created, live>>
  <2>1. call' \in [Calls -> CallStates]
    BY <1>1, GotoTyped DEF Pcs
  <2> QED
    BY <1>1, <2>1, SameSessions DEF TypeOK, history, AnswerLogin
<1>2. CASE /\ OpenSession
           /\ call' = [call EXCEPT ![c] = [@ EXCEPT !.pc = "opened",
                                                    !.token = created + 1]]
  <2> DEFINE r == [call[c] EXCEPT !.pc = "opened", !.token = created + 1]
  <2>1. created' = created + 1
    BY <1>2 DEF OpenSession
  <2>2. r \in CallStates'
    BY <2>1, CallFields, TypesGrow DEF CallStates, Pcs
  <2>3. call' = [call EXCEPT ![c] = r]
    BY <1>2
  <2> HIDE DEF r
  <2>4. call \in [Calls -> CallStates'] /\ rotation \in [Calls -> Rotations']
    BY <2>1, TypesGrow, CallFields, RotationFields DEF TypeOK
  <2>5. call' \in [Calls -> CallStates']
    BY <2>2, <2>3, <2>4
  <2> QED
    BY <1>2, <2>4, <2>5, OneMoreSession DEF history, AnswerLogin
<1> QED
  BY <1>1, <1>2 DEF AnswerLogin

LEMMA SaveLoginType ==
  ASSUME TypeOK, NEW c \in Calls, SaveLogin(c)
  PROVE  TypeOK'
<1>1. call' \in [Calls -> CallStates]
  BY SettleTyped DEF SaveLogin, Pcs, Settled
<1>2. store' \in Tokens
  BY CallFields DEF SaveLogin
<1> QED
  BY <1>1, <1>2, SameSessions DEF TypeOK, serverVars, appVars, history,
     SaveLogin, Screens

LEMMA ClearAfterLogoutType ==
  ASSUME TypeOK, NEW c \in Calls, ClearAfterLogout(c)
  PROVE  TypeOK'
<1>1. call' \in [Calls -> CallStates]
  BY SettleTyped DEF ClearAfterLogout, Pcs, Settled
<1>2. store' \in Tokens
  BY ZeroIsToken DEF ClearAfterLogout
<1> QED
  BY <1>1, <1>2, SameSessions DEF TypeOK, serverVars, appVars, history,
     ClearAfterLogout, Screens

LEMMA CallFailsType ==
  ASSUME TypeOK, NEW c \in Calls, CallFails(c)
  PROVE  TypeOK'
<1>1. call' \in [Calls -> CallStates]
  BY SettleTyped, BrokenTyped DEF CallFails
<1> QED
  BY <1>1, SameSessions DEF TypeOK, serverVars, appVars, history,
     CallFails

LEMMA GiveUpType ==
  ASSUME TypeOK, NEW c \in Calls, GiveUp(c)
  PROVE  TypeOK'
<1>1. call' \in [Calls -> CallStates]
  BY SettleTyped, BrokenTyped DEF GiveUp
<1> QED
  BY <1>1, SameSessions DEF TypeOK, serverVars, appVars, history,
     GiveUp

LEMMA EnqueueType ==
  ASSUME TypeOK, NEW c \in Calls, Enqueue(c)
  PROVE  TypeOK'
<1>1. call' \in [Calls -> CallStates]
  BY GotoTyped DEF Enqueue, Pcs
<1> QED
  BY <1>1, SameSessions DEF TypeOK, serverVars, appVars, history,
     Enqueue

LEMMA StartRefreshType ==
  ASSUME TypeOK, NEW c \in Calls, StartRefresh(c)
  PROVE  TypeOK'
<1> DEFINE r == [call[c] EXCEPT !.pc = "reading", !.retried = TRUE]
<1>1. r \in CallStates
  BY CallFields DEF CallStates, Pcs
<1>2. call' = [call EXCEPT ![c] = r]
  BY DEF StartRefresh
<1> HIDE DEF r
<1>3. call' \in [Calls -> CallStates]
  BY <1>1, <1>2, CallSet
<1> QED
  BY <1>3, SameSessions DEF TypeOK, serverVars, history, StartRefresh

LEMMA PostRefreshType ==
  ASSUME TypeOK, NEW c \in Calls, PostRefresh(c)
  PROVE  TypeOK'
<1>1. call' \in [Calls -> CallStates]
  BY GotoTyped DEF PostRefresh, Pcs
<1>2. [pc |-> "check", token |-> store] \in Rotations
  BY DEF TypeOK, Rotations, RotationPcs
<1>3. rotation' \in [Calls -> Rotations]
  BY <1>2, RotationSet DEF PostRefresh
<1> QED
  BY <1>1, <1>3, SameSessions DEF TypeOK, serverVars, history, PostRefresh

LEMMA SaveRotatedType ==
  ASSUME TypeOK, NEW c \in Calls, SaveRotated(c)
  PROVE  TypeOK'
<1> DEFINE r == [call[c] EXCEPT !.pc = "saved", !.token = rotation[c].token]
<1>1. r \in CallStates
  BY CallFields, RotationFields DEF CallStates, Pcs
<1>2. call' = [call EXCEPT ![c] = r]
  BY DEF SaveRotated
<1> HIDE DEF r
<1>3. call' \in [Calls -> CallStates]
  BY <1>1, <1>2, CallSet
<1>4. rotation' \in [Calls -> Rotations] /\ store' \in Tokens
  BY RotationEnds, RotationFields DEF SaveRotated
<1> QED
  BY <1>3, <1>4, SameSessions DEF TypeOK, serverVars, history, SaveRotated

LEMMA ResumeType ==
  ASSUME TypeOK, NEW c \in Calls, Resume(c)
  PROVE  TypeOK'
<1>1. ASSUME NEW d \in Calls
      PROVE  [call[d] EXCEPT !.pc = "resend", !.token = call[c].token]
               \in CallStates
  BY CallFields DEF CallStates, Pcs
<1>2. call' \in [Calls -> CallStates]
  BY <1>1, CallFields DEF Resume
<1> QED
  BY <1>2, SameSessions DEF TypeOK, serverVars, history, Resume

LEMMA RefreshRefusedType ==
  ASSUME TypeOK, NEW c \in Calls, RefreshRefused(c)
  PROVE  TypeOK'
<1>1. call' \in [Calls -> CallStates] /\ abandoned' \in BOOLEAN
  BY AbandonTyped DEF RefreshRefused
<1>2. rotation' \in [Calls -> Rotations]
  BY RotationEnds DEF RefreshRefused
<1> QED
  BY <1>1, <1>2, SameSessions DEF TypeOK, serverVars, RefreshRefused

LEMMA RefreshLostType ==
  ASSUME TypeOK, NEW c \in Calls, RefreshLost(c)
  PROVE  TypeOK'
<1>1. call' \in [Calls -> CallStates] /\ abandoned' \in BOOLEAN
  BY AbandonTyped DEF RefreshLost
<1> QED
  BY <1>1, SameSessions DEF TypeOK, serverVars, RefreshLost

LEMMA ClearTokensType ==
  ASSUME TypeOK, NEW c \in Calls, ClearTokens(c)
  PROVE  TypeOK'
<1>1. call' \in [Calls -> CallStates]
  BY SettleTyped, BrokenTyped DEF ClearTokens
<1>2. store' \in Tokens
  BY ZeroIsToken DEF ClearTokens
<1> QED
  BY <1>1, <1>2, SameSessions DEF TypeOK, serverVars, appVars, history,
     ClearTokens

LEMMA CheckSessionType ==
  ASSUME TypeOK, NEW c \in Calls, CheckSession(c)
  PROVE  TypeOK'
<1>1. rotation' \in [Calls -> Rotations]
  BY RotationToTyped DEF CheckSession, RotationPcs
<1> QED
  BY <1>1, SameSessions DEF TypeOK, serverVars, appVars, history,
     CheckSession

LEMMA RevokeRotatedType ==
  ASSUME TypeOK, NEW c \in Calls, RevokeRotated(c)
  PROVE  TypeOK'
<1>1. rotation' \in [Calls -> Rotations]
  BY RotationToTyped DEF RevokeRotated, RotationPcs
<1> QED
  BY <1>1, SameSessions DEF TypeOK, serverVars, appVars, history,
     RevokeRotated, Revoke

LEMMA CreateSessionType ==
  ASSUME TypeOK, NEW c \in Calls, CreateSession(c)
  PROVE  TypeOK'
<1> DEFINE r == [pc |-> "answer", token |-> created + 1]
<1>1. created' = created + 1
  BY DEF CreateSession, OpenSession
<1>2. r \in Rotations'
  BY <1>1, TypesGrow DEF Rotations, RotationPcs
<1>3. rotation' = [rotation EXCEPT ![c] = r]
  BY DEF CreateSession
<1> HIDE DEF r
<1>4. call \in [Calls -> CallStates'] /\ rotation \in [Calls -> Rotations']
  BY <1>1, TypesGrow, CallFields, RotationFields DEF TypeOK
<1>5. rotation' \in [Calls -> Rotations']
  BY <1>2, <1>3, <1>4
<1> QED
  BY <1>4, <1>5, OneMoreSession DEF CreateSession, appVars

LEMMA RotationThrowsType ==
  ASSUME TypeOK, NEW c \in Calls, RotationThrows(c)
  PROVE  TypeOK'
<1>1. rotation' \in [Calls -> Rotations]
  BY RotationToTyped DEF RotationThrows, RotationPcs
<1> QED
  BY <1>1, SameSessions DEF TypeOK, serverVars, appVars, history,
     RotationThrows

LEMMA AppRestartsType ==
  ASSUME TypeOK, AppRestarts
  PROVE  TypeOK'
<1>1. ASSUME NEW d \in Calls
      PROVE  [call[d] EXCEPT !.pc = "failed", !.token = 0] \in CallStates
  BY CallFields, ZeroIsToken DEF CallStates, Pcs, Settled
<1>2. call' \in [Calls -> CallStates]
  BY <1>1, CallFields DEF AppRestarts
<1> QED
  BY <1>2, SameSessions DEF TypeOK, serverVars, Screens, AppRestarts

LEMMA TypeStep ==
  ASSUME TypeOK, [Next]_vars
  PROVE  TypeOK'
<1>1. ASSUME NEW c \in Calls, UserStep(c)
      PROVE  TypeOK'
  BY <1>1, UseType, StartUpType, LoginType, LogoutType DEF UserStep
<1>2. ASSUME NEW c \in Calls, AppStep(c)
      PROVE  TypeOK'
  BY <1>2, ResendType, SaveLoginType, ClearAfterLogoutType, GiveUpType,
     EnqueueType, StartRefreshType, PostRefreshType, SaveRotatedType,
     ResumeType, RefreshRefusedType, ClearTokensType DEF AppStep
<1>3. ASSUME NEW c \in Calls, ServerStep(c)
      PROVE  TypeOK'
  BY <1>3, AnswerUseType, AnswerLogoutType, AnswerLoginType,
     CheckSessionType, RevokeRotatedType, CreateSessionType DEF ServerStep
<1>4. ASSUME NEW c \in Calls, Failure(c)
      PROVE  TypeOK'
  BY <1>4, CallFailsType, RefreshLostType, RotationThrowsType DEF Failure
<1>5. ASSUME NEW s \in Sessions, AccessLapses(s)
      PROVE  TypeOK'
  BY <1>5 DEF TypeOK, Tokens, Rotations, CallStates, AccessLapses, appVars
<1>6. CASE LogoutAll
  BY <1>6, SameSessions DEF TypeOK, LogoutAll, appVars
<1>7. CASE UNCHANGED vars
  BY <1>7 DEF TypeOK, Tokens, Rotations, CallStates, vars, serverVars, appVars
<1> QED
  BY <1>1, <1>2, <1>3, <1>4, <1>5, <1>6, <1>7, AppRestartsType DEF Next

-----------------------------------------------------------------------------
(* Every variable has its type, in every state.                            *)
THEOREM TypeInvariant == Spec => []TypeOK
<1>1. Init => TypeOK
  <2> SUFFICES ASSUME Init PROVE TypeOK
    OBVIOUS
  <2>1. [pc |-> "idle", token |-> 0] \in Rotations
    BY DEF Init, Rotations, RotationPcs, Tokens
  <2>2. [pc |-> "new", kind |-> "use", token |-> 0, retried |-> FALSE]
          \in CallStates
    BY DEF Init, CallStates, Pcs, Kinds, Tokens
  <2>3. /\ rotation \in [Calls -> Rotations]
        /\ call \in [Calls -> CallStates]
    BY <2>1, <2>2 DEF Init
  <2>4. /\ created \in Nat /\ live \subseteq 1..created
        /\ lapsed \subseteq 1..created
        /\ store \in Tokens /\ upsets \in 0..MaxUpsets
    BY SessionsAssumption DEF Init, Tokens
  <2>5. screen \in Screens /\ refreshing \in BOOLEAN /\ abandoned \in BOOLEAN
    BY DEF Init, Screens
  <2> QED
    BY <2>3, <2>4, <2>5 DEF TypeOK
<1>2. TypeOK /\ [Next]_vars => TypeOK'
  BY TypeStep
<1> QED
  BY <1>1, <1>2, PTL DEF Spec
-----------------------------------------------------------------------------
(* What holds as long as upsets = 0.                                       *)
Calm ==
  /\ store # 0 /\ screen = "main" /\ ~abandoned
  /\ OneRefresh
  /\ RotationIsTrue

LEMMA IInvIsCalm == IInv <=> TypeOK /\ (upsets = 0 => Calm)
BY DEF IInv, Calm, SignedOutForCause

LEMMA CalmCall ==
  ASSUME Calm, NEW c \in Calls
  PROVE  /\ call[c].kind = "use"
         /\ call[c].pc \notin {"clearing", "lost", "opened", "leaving"}
         /\ Refreshing(c) => refreshing
         /\ \A d \in Calls : Refreshing(c) /\ Refreshing(d) => c = d
         /\ call[c].pc = "posting" =>
              rotation[c].pc \in {"check", "revoke", "create", "answer"}
         /\ call[c].pc # "posting" => rotation[c].pc = "idle"
         /\ rotation[c].pc \in {"check", "revoke"} => rotation[c].token = store
BY DEF Calm, OneRefresh

(* A rotation under way is the only one, and its call waits for it.        *)
LEMMA OneRotation ==
  ASSUME Calm, NEW c \in Calls, rotation[c].pc # "idle"
  PROVE  /\ call[c].pc = "posting"
         /\ \A d \in Calls \ {c} : /\ rotation[d].pc = "idle"
                                   /\ ~Refreshing(d)
BY DEF Calm, OneRefresh, Refreshing

(* So many actions cannot happen.                                          *)
LEMMA NotWhenCalm ==
  ASSUME Calm, NEW c \in Calls
  PROVE  /\ ~Login(c) /\ ~StartUp(c) /\ ~AnswerLogout(c) /\ ~AnswerLogin(c)
         /\ ~SaveLogin(c) /\ ~ClearAfterLogout(c) /\ ~RefreshRefused(c)
         /\ ~ClearTokens(c)
BY CalmCall DEF Calm, Login, StartUp, AnswerLogout, AnswerLogin, SaveLogin,
   ClearAfterLogout, RefreshRefused, ClearTokens

(* Steps of a call that has no part in a refresh, before or after.         *)
LEMMA QuietStep ==
  ASSUME TypeOK, Calm, NEW c \in Calls,
         NEW r, r.kind = "use", r.pc \notin {"clearing", "lost", "opened",
           "leaving", "reading", "posting", "saved"},
         ~Refreshing(c), call' = [call EXCEPT ![c] = r],
         UNCHANGED <<live, rotation, store, screen, refreshing, abandoned>>
  PROVE  Calm'
<1>1. /\ call'[c] = r /\ \A d \in Calls \ {c} : call'[d] = call[d]
      /\ rotation' = rotation /\ store' = store /\ refreshing' = refreshing
  BY DEF TypeOK
<1>2. call[c].pc # "posting"
  BY DEF Refreshing
<1>3. OneRefresh'
  <2>1. \A d \in Calls : Refreshing(d)' => d # c /\ Refreshing(d)
    BY <1>1 DEF Refreshing
  <2>2. ASSUME NEW d \in Calls
        PROVE  /\ call'[d].kind = "use"
               /\ call'[d].pc \notin {"clearing", "lost", "opened", "leaving"}
               /\ call'[d].pc = "posting" <=> call[d].pc = "posting"
    BY <1>1, <1>2, CalmCall
  <2> QED
    BY <1>1, <2>1, <2>2, CalmCall DEF OneRefresh
<1>4. RotationIsTrue'
  BY DEF Calm, RotationIsTrue
<1> QED
  BY <1>3, <1>4 DEF Calm

LEMMA SendCalm ==
  ASSUME TypeOK, Calm, NEW c \in Calls, call[c].pc \in {"new", "resend"},
         Send(c, "use"),
         UNCHANGED <<live, rotation, store, screen, refreshing, abandoned>>
  PROVE  Calm'
<1> DEFINE r == [call[c] EXCEPT !.pc = "sent", !.kind = "use",
                                !.token = Attached(c)]
<1>1. /\ call' = [call EXCEPT ![c] = r] /\ ~Refreshing(c)
      /\ r.kind = "use" /\ r.pc = "sent"
  BY CallFields DEF Send, Refreshing, CallStates
<1> HIDE DEF r
<1> QED
  BY <1>1, QuietStep

LEMMA GotoCalm ==
  ASSUME TypeOK, Calm, NEW c \in Calls, call[c].pc \in {"sent", "refused"},
         NEW at \in {"done", "failed", "refused", "queued"},
         Goto(c, at) \/ Settle(c, at),
         UNCHANGED <<live, rotation, store, screen, refreshing, abandoned>>
  PROVE  Calm'
<1>1. PICK r : /\ call' = [call EXCEPT ![c] = r]
               /\ r.kind = "use" /\ r.pc = at
  <2>1. CASE Goto(c, at)
    <3> DEFINE r == [call[c] EXCEPT !.pc = at]
    <3>1. /\ call' = [call EXCEPT ![c] = r] /\ r.kind = "use" /\ r.pc = at
      BY <2>1, CallFields, CalmCall DEF Goto, CallStates
    <3> HIDE DEF r
    <3> QED
      BY <3>1
  <2>2. CASE Settle(c, at)
    <3> DEFINE r == [call[c] EXCEPT !.pc = at, !.token = 0]
    <3>1. /\ call' = [call EXCEPT ![c] = r] /\ r.kind = "use" /\ r.pc = at
      BY <2>2, CallFields, CalmCall DEF Settle, CallStates
    <3> HIDE DEF r
    <3> QED
      BY <3>1
  <2> QED
    BY <2>1, <2>2
<1>2. ~Refreshing(c)
  BY DEF Refreshing
<1> QED
  BY <1>1, <1>2, QuietStep

LEMMA StartRefreshCalm ==
  ASSUME TypeOK, Calm, NEW c \in Calls, StartRefresh(c)
  PROVE  Calm'
<1>1. /\ call'[c].pc = "reading" /\ call'[c].kind = call[c].kind
      /\ \A d \in Calls \ {c} : call'[d] = call[d]
  BY CallFields DEF StartRefresh, TypeOK, CallStates
<1>2. /\ refreshing' = TRUE /\ rotation' = rotation /\ store' = store
      /\ live' = live /\ screen' = screen /\ abandoned' = abandoned
  BY DEF StartRefresh, serverVars, history
<1>3. \A d \in Calls : ~Refreshing(d)
  BY CalmCall DEF StartRefresh, MustWait
<1>4. \A d \in Calls : /\ Refreshing(d)' <=> d = c
                       /\ call'[d].pc # "posting" /\ call[d].pc # "posting"
                       /\ call'[d].kind = "use"
                       /\ call'[d].pc \notin {"clearing", "lost", "opened",
                                              "leaving"}
  BY <1>1, <1>3, CalmCall DEF Refreshing
<1>5. OneRefresh'
  BY <1>2, <1>4, CalmCall DEF OneRefresh
<1> QED
  BY <1>2, <1>5 DEF Calm, RotationIsTrue

LEMMA PostRefreshCalm ==
  ASSUME TypeOK, Calm, NEW c \in Calls, PostRefresh(c)
  PROVE  Calm'
<1>1. /\ call'[c].pc = "posting" /\ call'[c].kind = call[c].kind
      /\ \A d \in Calls \ {c} : call'[d] = call[d]
  BY CallFields DEF PostRefresh, Goto, TypeOK, CallStates
<1>2. /\ rotation'[c].pc = "check" /\ rotation'[c].token = store
      /\ \A d \in Calls \ {c} : rotation'[d] = rotation[d]
  BY DEF PostRefresh, TypeOK
<1>3. /\ refreshing' = refreshing /\ store' = store
      /\ live' = live /\ screen' = screen /\ abandoned' = abandoned
  BY DEF PostRefresh, serverVars, history
<1>4. /\ Refreshing(c) /\ refreshing
      /\ \A d \in Calls \ {c} : ~Refreshing(d) /\ rotation[d].pc = "idle"
  BY CalmCall DEF PostRefresh, Refreshing
<1>5. rotation[c].pc = "idle"
  BY CalmCall DEF PostRefresh
<1>6. \A d \in Calls : /\ Refreshing(d)' <=> d = c
                       /\ call'[d].pc = "posting" <=> d = c
                       /\ call'[d].kind = "use"
                       /\ call'[d].pc \notin {"clearing", "lost", "opened",
                                              "leaving"}
  BY <1>1, <1>4, CalmCall DEF Refreshing
<1>7. OneRefresh'
  BY <1>2, <1>3, <1>4, <1>6 DEF OneRefresh
<1>8. live = {store}
  BY <1>4, <1>5 DEF Calm, RotationIsTrue
<1>9. RotationIsTrue'
  BY <1>2, <1>3, <1>4, <1>8 DEF RotationIsTrue
<1> QED
  BY <1>3, <1>7, <1>9 DEF Calm

LEMMA SaveRotatedCalm ==
  ASSUME TypeOK, Calm, NEW c \in Calls, SaveRotated(c)
  PROVE  Calm'
<1>1. /\ call'[c].pc = "saved" /\ call'[c].kind = call[c].kind
      /\ \A d \in Calls \ {c} : call'[d] = call[d]
  BY CallFields DEF SaveRotated, TypeOK, CallStates
<1>2. /\ rotation'[c].pc = "idle"
      /\ \A d \in Calls \ {c} : rotation'[d] = rotation[d]
  BY DEF SaveRotated, TypeOK
<1>3. /\ refreshing' = refreshing /\ store' = rotation[c].token
      /\ live' = live /\ screen' = screen /\ abandoned' = abandoned
  BY DEF SaveRotated, serverVars, history
<1>4. /\ Refreshing(c) /\ refreshing
      /\ \A d \in Calls \ {c} : ~Refreshing(d) /\ rotation[d].pc = "idle"
  BY CalmCall DEF SaveRotated, Refreshing
<1>5. rotation[c].pc = "answer"
  BY DEF SaveRotated
<1>6. \A d \in Calls : /\ Refreshing(d)' <=> d = c
                       /\ call'[d].pc # "posting"
                       /\ call'[d].kind = "use"
                       /\ call'[d].pc \notin {"clearing", "lost", "opened",
                                              "leaving"}
  BY <1>1, <1>4, CalmCall DEF Refreshing
<1>7. OneRefresh'
  BY <1>2, <1>3, <1>4, <1>6 DEF OneRefresh
<1>8. live = {rotation[c].token} /\ rotation[c].token # 0
  BY <1>4, <1>5 DEF Calm, RotationIsTrue
<1>9. RotationIsTrue'
  BY <1>2, <1>3, <1>4, <1>8 DEF RotationIsTrue
<1> QED
  BY <1>3, <1>7, <1>8, <1>9 DEF Calm

LEMMA ResumeCalm ==
  ASSUME TypeOK, Calm, NEW c \in Calls, Resume(c)
  PROVE  Calm'
<1>1. ASSUME NEW d \in Calls
      PROVE  /\ d = c => call'[d].pc = "resend"
             /\ call'[d].pc = "resend" \/ call'[d] = call[d]
             /\ call'[d].kind = call[d].kind
  BY CallFields DEF Resume, CallStates
<1>2. /\ refreshing' = FALSE /\ rotation' = rotation /\ store' = store
      /\ live' = live /\ screen' = screen /\ abandoned' = abandoned
  BY DEF Resume, serverVars, history
<1>3. /\ call[c].pc = "saved"
      /\ \A d \in Calls \ {c} : ~Refreshing(d)
  BY CalmCall DEF Resume, Refreshing
<1>4. \A d \in Calls : /\ ~Refreshing(d)'
                       /\ call'[d].pc # "posting" /\ call[d].pc # "posting"
                       /\ call'[d].kind = "use"
                       /\ call'[d].pc \notin {"clearing", "lost", "opened",
                                              "leaving"}
  BY <1>1, <1>3, CalmCall DEF Refreshing
<1>5. OneRefresh'
  BY <1>2, <1>4, CalmCall DEF OneRefresh
<1> QED
  BY <1>2, <1>5 DEF Calm, RotationIsTrue

(* The server's work changes neither the call nor the stored token.        *)
LEMMA RotationStep ==
  ASSUME Calm, NEW c \in Calls, rotation[c].pc # "idle",
         rotation'[c].pc \in {"check", "revoke", "create", "answer"},
         rotation'[c].pc \in {"check", "revoke"} =>
           rotation'[c].token = store,
         \A d \in Calls \ {c} : rotation'[d] = rotation[d],
         UNCHANGED <<store, refreshing, call>>
  PROVE  OneRefresh' /\ \A d \in Calls \ {c} : rotation'[d].pc = "idle"
<1>1. call[c].pc = "posting" /\ \A d \in Calls \ {c} : rotation[d].pc = "idle"
  BY OneRotation
<1>2. OneRefresh'
  BY <1>1 DEF Calm, OneRefresh, Refreshing
<1> QED
  BY <1>1, <1>2

LEMMA CheckSessionCalm ==
  ASSUME TypeOK, Calm, NEW c \in Calls, CheckSession(c)
  PROVE  Calm'
<1>1. /\ rotation[c].token = store
      /\ \A d \in Calls \ {c} : rotation[d].pc = "idle"
  BY CalmCall, OneRotation DEF CheckSession
<1>2. live = {store}
  BY <1>1 DEF Calm, RotationIsTrue, CheckSession
<1>3. /\ rotation'[c].pc = "revoke" /\ rotation'[c].token = store
      /\ \A d \in Calls \ {c} : rotation'[d] = rotation[d]
  BY <1>1, <1>2, RotationFields
     DEF CheckSession, RotationTo, Rotations, TypeOK
<1>4. /\ UNCHANGED <<live, store, screen, refreshing, call, abandoned>>
      /\ rotation[c].pc # "idle"
  BY DEF CheckSession, serverVars, appVars
<1>5. OneRefresh' /\ \A d \in Calls \ {c} : rotation'[d].pc = "idle"
  BY <1>3, <1>4, RotationStep
<1>6. RotationIsTrue'
  BY <1>2, <1>3, <1>4, <1>5 DEF RotationIsTrue
<1> QED
  BY <1>4, <1>5, <1>6 DEF Calm

LEMMA RevokeRotatedCalm ==
  ASSUME TypeOK, Calm, NEW c \in Calls, RevokeRotated(c)
  PROVE  Calm'
<1>1. /\ rotation[c].token = store
      /\ \A d \in Calls \ {c} : rotation[d].pc = "idle"
  BY CalmCall, OneRotation DEF RevokeRotated
<1>2. live = {store}
  BY <1>1 DEF Calm, RotationIsTrue, RevokeRotated
<1>3. /\ rotation'[c].pc = "create"
      /\ \A d \in Calls \ {c} : rotation'[d] = rotation[d]
  BY RotationFields DEF RevokeRotated, RotationTo, Rotations, TypeOK
<1>4. /\ UNCHANGED <<store, screen, refreshing, call, abandoned>>
      /\ rotation[c].pc # "idle" /\ live' = {}
  BY <1>1, <1>2 DEF RevokeRotated, Revoke, appVars
<1>5. OneRefresh'
  BY <1>3, <1>4, RotationStep
<1> QED
  BY <1>3, <1>4, <1>5 DEF Calm, RotationIsTrue

LEMMA CreateSessionCalm ==
  ASSUME TypeOK, Calm, NEW c \in Calls, CreateSession(c)
  PROVE  Calm'
<1>1. \A d \in Calls \ {c} : rotation[d].pc = "idle"
  BY OneRotation DEF CreateSession
<1>2. live = {}
  BY <1>1 DEF Calm, RotationIsTrue, CreateSession
<1>3. /\ rotation'[c].pc = "answer" /\ rotation'[c].token = created + 1
      /\ \A d \in Calls \ {c} : rotation'[d] = rotation[d]
      /\ created + 1 # 0
  BY DEF CreateSession, TypeOK
<1>4. /\ UNCHANGED <<store, screen, refreshing, call, abandoned>>
      /\ rotation[c].pc # "idle" /\ live' = {created + 1}
  BY <1>2 DEF CreateSession, OpenSession, appVars
<1>5. OneRefresh'
  BY <1>3, <1>4, RotationStep
<1> QED
  BY <1>3, <1>4, <1>5 DEF Calm, RotationIsTrue

LEMMA UpsetIsNotCalm ==
  ASSUME TypeOK, Upset
  PROVE  upsets' # 0
BY SessionsAssumption DEF TypeOK, Upset

LEMMA CallStepCalm ==
  ASSUME TypeOK, Calm, NEW c \in Calls, upsets' = 0,
         UserStep(c) \/ AppStep(c) \/ ServerStep(c) \/ Failure(c)
  PROVE  Calm'
<1>1. CASE UserStep(c)
  BY <1>1, NotWhenCalm, SendCalm, UpsetIsNotCalm
     DEF UserStep, Use, Logout, serverVars, history
<1>2. CASE Failure(c)
  BY <1>2, UpsetIsNotCalm DEF Failure, CallFails, RefreshLost, RotationThrows
<1>3. CASE Resend(c) \/ GiveUp(c) \/ Enqueue(c) \/ AnswerUse(c)
  <2>1. call[c].kind = "use" /\ Broken(c) = "failed"
    BY CalmCall DEF Broken
  <2>2. CASE Resend(c)
    BY <2>1, <2>2, SendCalm DEF Resend, serverVars, history
  <2>3. CASE GiveUp(c)
    BY <2>1, <2>3, GotoCalm DEF GiveUp, serverVars, history
  <2>4. CASE Enqueue(c)
    BY <2>4, GotoCalm DEF Enqueue, serverVars, history
  <2>5. CASE AnswerUse(c)
    <3>1. /\ Settle(c, "done") \/ Goto(c, "refused")
          /\ call[c].pc = "sent"
          /\ UNCHANGED <<live, rotation, store, screen, refreshing, abandoned>>
      BY <2>1, <2>5 DEF AnswerUse, serverVars, history
    <3> QED
      BY <3>1, GotoCalm
  <2> QED
    BY <1>3, <2>2, <2>3, <2>4, <2>5
<1>4. CASE AppStep(c)
  BY <1>3, <1>4, NotWhenCalm, StartRefreshCalm, PostRefreshCalm,
     SaveRotatedCalm, ResumeCalm DEF AppStep
<1>5. CASE ServerStep(c)
  BY <1>3, <1>5, NotWhenCalm, CheckSessionCalm, RevokeRotatedCalm,
     CreateSessionCalm DEF ServerStep
<1> QED
  BY <1>1, <1>2, <1>4, <1>5

LEMMA CalmStep ==
  ASSUME TypeOK, Calm, upsets' = 0, [Next]_vars
  PROVE  Calm'
<1>1. ASSUME NEW c \in Calls,
             UserStep(c) \/ AppStep(c) \/ ServerStep(c) \/ Failure(c)
      PROVE  Calm'
  BY <1>1, CallStepCalm
<1>2. ASSUME NEW s \in Sessions, AccessLapses(s)
      PROVE  Calm'
  BY <1>2 DEF AccessLapses, appVars, Calm, OneRefresh, RotationIsTrue,
     Refreshing
<1>3. CASE LogoutAll \/ AppRestarts
  BY <1>3, UpsetIsNotCalm DEF LogoutAll, AppRestarts
<1>4. CASE UNCHANGED vars
  BY <1>4 DEF vars, serverVars, appVars, Calm, OneRefresh, RotationIsTrue,
     Refreshing
<1> QED
  BY <1>1, <1>2, <1>3, <1>4 DEF Next

(* An upset is never taken back.                                           *)
LEMMA UpsetsStay ==
  ASSUME TypeOK, [Next]_vars, upsets' = 0
  PROVE  upsets = 0
<1>1. ASSUME NEW c \in Calls, UserStep(c)
      PROVE  upsets' = upsets \/ Upset
  BY <1>1 DEF UserStep, Use, Login, Logout, StartUp, history
<1>2. ASSUME NEW c \in Calls, AppStep(c)
      PROVE  upsets' = upsets
  BY <1>2 DEF AppStep, Resend, SaveLogin, ClearAfterLogout, GiveUp, Enqueue,
     StartRefresh, PostRefresh, SaveRotated, Resume, RefreshRefused,
     ClearTokens, history
<1>3. ASSUME NEW c \in Calls, ServerStep(c)
      PROVE  upsets' = upsets
  BY <1>3 DEF ServerStep, AnswerUse, AnswerLogout, AnswerLogin, CheckSession,
     RevokeRotated, CreateSession, history
<1>4. ASSUME NEW c \in Calls, Failure(c)
      PROVE  Upset
  BY <1>4 DEF Failure, CallFails, RefreshLost, RotationThrows
<1>5. ASSUME NEW s \in Sessions, AccessLapses(s)
      PROVE  upsets' = upsets
  BY <1>5 DEF AccessLapses
<1>6. upsets' = upsets \/ Upset
  BY <1>1, <1>2, <1>3, <1>4, <1>5 DEF Next, LogoutAll, AppRestarts, vars
<1> QED
  BY <1>6, UpsetIsNotCalm

LEMMA InitCalm ==
  ASSUME Init
  PROVE  Calm
<1>1. \A c \in Calls : /\ call[c].pc = "new" /\ call[c].kind = "use"
                       /\ rotation[c].pc = "idle"
  BY DEF Init
<1>2. store # 0 /\ screen = "main" /\ ~abandoned /\ live = {store}
  BY DEF Init
<1>3. OneRefresh
  BY <1>1 DEF OneRefresh, Refreshing
<1> QED
  BY <1>1, <1>2, <1>3 DEF Calm, RotationIsTrue

(* The inductive invariant: one call refreshes at a time, with the stored  *)
(* token, and the live session is the stored one or its rotation's.        *)
THEOREM Invariance == Spec => []IInv
<1> DEFINE CalmOr == upsets = 0 => Calm
<1>1. Init => CalmOr
  BY InitCalm
<1>2. TypeOK /\ [Next]_vars /\ CalmOr => CalmOr'
  BY CalmStep, UpsetsStay
<1>3. TypeOK /\ CalmOr => IInv
  BY IInvIsCalm
<1> HIDE DEF CalmOr
<1> QED
  BY <1>1, <1>2, <1>3, TypeInvariant, PTL DEF Spec

(* As long as nobody has logged out and nothing has failed, the app keeps  *)
(* its tokens and no refresh fails.                                        *)
THEOREM NeverSignedOut == Spec => []SignedOutForCause
<1>1. IInv => SignedOutForCause
  BY DEF IInv
<1> QED
  BY <1>1, Invariance, PTL

LEMMA CalmStored ==
  ASSUME Calm
  PROVE  /\ live = {} \/ \E s : live = {s}
         /\ \/ store \in live
            \/ \E c \in Calls : /\ call[c].pc = "posting"
                                /\ rotation[c].pc \in {"create", "answer"}
<1>1. CASE live = {store}
  BY <1>1
<1>2. CASE live = {} /\ \E c \in Calls : rotation[c].pc = "create"
  BY <1>2, OneRotation
<1>3. CASE \E c \in Calls : /\ rotation[c].pc = "answer"
                            /\ live = {rotation[c].token}
  BY <1>3, OneRotation
<1> QED
  BY <1>1, <1>2, <1>3 DEF Calm, RotationIsTrue

(* As long as nobody has logged out and nothing has failed, there is one   *)
(* session at most, and it is the stored one or about to be stored.        *)
THEOREM StoredTokensLive == Spec => []StoredTokenIsLive
<1>1. IInv => StoredTokenIsLive
  <2> SUFFICES ASSUME IInv, upsets = 0
               PROVE  /\ Cardinality(live) <= 1
                      /\ \/ store \in live
                         \/ \E c \in Calls :
                              /\ call[c].pc = "posting"
                              /\ rotation[c].pc \in {"create", "answer"}
    BY DEF StoredTokenIsLive
  <2>1. /\ live = {} \/ \E s : live = {s}
        /\ \/ store \in live
           \/ \E c \in Calls : /\ call[c].pc = "posting"
                               /\ rotation[c].pc \in {"create", "answer"}
    BY IInvIsCalm, CalmStored
  <2>2. Cardinality(live) = 0 \/ Cardinality(live) = 1
    BY <2>1, FS_EmptySet, FS_Singleton
  <2> QED
    BY <2>1, <2>2
<1> QED
  BY <1>1, Invariance, PTL
=============================================================================
