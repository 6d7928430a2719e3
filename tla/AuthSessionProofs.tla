--------------------------- MODULE AuthSessionProofs ---------------------------
(***************************************************************************)
(* Whose tokens a browser holds, whose workspace it shows and what becomes *)
(* of a registration, for any accounts and any number of calls.            *)
(***************************************************************************)
EXTENDS AuthSession, TLAPS

LEMMA FreshToken ==
    ASSUME NEW u \in Users
    PROVE  Fresh(u) \in Token /\ Fresh(u).user = u
BY DEF Fresh, Token

LEMMA Idle == NoCall \in Call /\ NoCall.pc = "idle"
BY DEF NoCall, Call

LEMMA SentCall ==
    ASSUME NEW kind \in {"data", "login", "register", "workspaces"},
           NEW email \in Users \cup {None}, NEW bearer \in Token \cup {None}
    PROVE  Sent(kind, email, bearer) \in Call
BY DEF Sent, Call

\* The call that asks for new tokens.
LEMMA RefreshingCall ==
    ASSUME NEW r \in Call, NEW t \in Token \cup {None}
    PROVE  LET s == [r EXCEPT !.pc = "refreshing", !.retried = TRUE, !.bearer = t]
           IN /\ s \in Call /\ s.pc = "refreshing" /\ s.bearer = t
              /\ s.kind = r.kind /\ s.crossed = r.crossed /\ s.email = r.email
<1> DEFINE s1 == [r EXCEPT !.pc = "refreshing"]
           s2 == [s1 EXCEPT !.retried = TRUE]
           s3 == [s2 EXCEPT !.bearer = t]
<1>1. s1 \in Call /\ s1.pc = "refreshing" /\ s1.kind = r.kind /\ s1.crossed = r.crossed /\ s1.email = r.email
    BY DEF Call
<1> HIDE DEF s1
<1>2. s2 \in Call /\ s2.pc = s1.pc /\ s2.kind = s1.kind /\ s2.crossed = s1.crossed /\ s2.email = s1.email
    BY <1>1 DEF Call
<1> HIDE DEF s2
<1>3. s3 \in Call /\ s3.pc = s2.pc /\ s3.bearer = t /\ s3.kind = s2.kind /\ s3.crossed = s2.crossed /\ s3.email = s2.email
    BY <1>2 DEF Call
<1> QED
    BY <1>1, <1>2, <1>3 DEF s1, s2

\* The call sent again with new tokens.
LEMMA ResentCall ==
    ASSUME NEW r \in Call, NEW t \in Token
    PROVE  LET s == [[r EXCEPT !.pc = "sent"] EXCEPT !.bearer = t]
           IN /\ s \in Call /\ s.pc = "sent" /\ s.bearer = t
              /\ s.kind = r.kind /\ s.crossed = r.crossed /\ s.email = r.email
<1> DEFINE s1 == [r EXCEPT !.pc = "sent"]
           s2 == [s1 EXCEPT !.bearer = t]
<1>1. s1 \in Call /\ s1.pc = "sent" /\ s1.kind = r.kind /\ s1.crossed = r.crossed /\ s1.email = r.email
    BY DEF Call
<1> HIDE DEF s1
<1>2. s2 \in Call /\ s2.pc = s1.pc /\ s2.bearer = t /\ s2.kind = s1.kind /\ s2.crossed = s1.crossed /\ s2.email = s1.email
    BY <1>1 DEF Call
<1> QED
    BY <1>1, <1>2 DEF s1

\* Somebody signs in or out: a call under way is marked, the rest of it stays.
LEMMA MarkedCall ==
    ASSUME NEW r \in Call
    PROVE  LET s == [r EXCEPT !.crossed = TRUE]
           IN /\ s \in Call /\ s.crossed
              /\ s.pc = r.pc /\ s.bearer = r.bearer /\ s.kind = r.kind /\ s.email = r.email
BY DEF Call

LEMMA CrossedCall ==
    ASSUME TypeOK, NEW c \in Calls
    PROVE  /\ Crossed(call)[c] \in Call
           /\ Crossed(call)[c].crossed \/ Crossed(call)[c].pc = "idle"
           /\ Crossed(call)[c].pc = call[c].pc /\ Crossed(call)[c].bearer = call[c].bearer
           /\ Crossed(call)[c].kind = call[c].kind /\ Crossed(call)[c].email = call[c].email
<1>1. call[c] \in Call
    BY DEF TypeOK
<1>2. Crossed(call)[c] = IF UnderWay(c) THEN [call[c] EXCEPT !.crossed = TRUE] ELSE call[c]
    BY DEF Crossed
<1> QED
    BY <1>1, <1>2, MarkedCall DEF UnderWay

-----------------------------------------------------------------------------
(* Types                                                                   *)

LEMMA CallUpdated ==
    ASSUME TypeOK, NEW c \in Calls, NEW v \in Call, call' = [call EXCEPT ![c] = v]
    PROVE  /\ call' \in [Calls -> Call] /\ call'[c] = v
           /\ \A d \in Calls \ {c} : call'[d] = call[d]
BY DEF TypeOK

LEMMA Loaded ==
    ASSUME NEW target, Load(target)
    PROVE  call' \in [Calls -> Call] /\ \A c \in Calls : call'[c].pc = "idle"
BY Idle DEF Load

LEMMA TypeInit == Init => TypeOK
<1> SUFFICES ASSUME Init PROVE TypeOK
    OBVIOUS
<1>1. call \in [Calls -> Call]
    BY Idle DEF Init
<1>2. account \in [Users -> {"absent", "bare", "full"}]
    BY DEF Init
<1>3. signup \in [Signups -> [pc : {"none", "asked", "checked", "created", "done", "refused", "lost"},
                              email : Users \cup {None}]]
    BY DEF Init
<1> QED
    BY <1>1, <1>2, <1>3 DEF Init, TypeOK

\* Somebody signs in or registers with an address.
EmailInv ==
    /\ \A c \in Calls : call[c].kind \in {"login", "register"} => call[c].email \in Users
    /\ \A g \in Signups : signup[g].pc # "none" => signup[g].email \in Users

LEMMA TypeStep == TypeOK /\ EmailInv /\ [Next]_vars => TypeOK'
<1> SUFFICES ASSUME TypeOK, EmailInv, [Next]_vars PROVE TypeOK'
    OBVIOUS
<1> USE DEF stored
<1>c. /\ \A c \in Calls : call[c] \in Call
      /\ Form \in Calls /\ \A c \in Queries : c \in Calls
    BY DEF TypeOK, Calls
<1>t. access \in Token \cup {None} /\ refresh \in Token \cup {None}
    BY DEF TypeOK
<1>1. ASSUME NEW c \in Calls, CallStep(c) PROVE TypeOK'
    <2>1. CASE Unauthorized(c)
        <3> DEFINE v == IF MayRetry(c) THEN [call[c] EXCEPT !.pc = "refreshing", !.retried = TRUE, !.bearer = refresh] ELSE NoCall
        <3>1. v \in Call
            BY <1>c, <1>t, Idle, RefreshingCall
        <3> HIDE DEF v
        <3>2. call' = [call EXCEPT ![c] = v]
            BY <2>1 DEF Unauthorized, v
        <3> QED
            BY <2>1, <3>1, <3>2, CallUpdated DEF Unauthorized, TypeOK
    <2>2. CASE Refreshed(c)
        <3> DEFINE u == call[c].bearer.user
                   v == [[call[c] EXCEPT !.pc = "sent"] EXCEPT !.bearer = Fresh(u)]
        <3>1. u \in Users /\ call[c] \in Call /\ call[c].crossed \in BOOLEAN
            BY <2>2, <1>c DEF Refreshed, Call, Token
        <3>2. Fresh(u) \in Token
            BY <3>1, FreshToken
        <3>4. call' = [call EXCEPT ![c] = v]
            BY <2>2 DEF Refreshed, TypeOK
        <3>5. v \in Call
            BY <3>1, <3>2, ResentCall
        <3> HIDE DEF v
        <3> QED
            BY <2>2, <3>1, <3>2, <3>4, <3>5, CallUpdated DEF Refreshed, TypeOK
    <2>3. CASE RefreshFails(c)
        BY <2>3, Loaded DEF RefreshFails, Load, TypeOK
    <2>4. CASE CallFails(c)
        BY <2>4, Idle, CallUpdated DEF CallFails, TypeOK
    <2> QED
        BY <1>1, <2>1, <2>2, <2>3, <2>4 DEF CallStep
<1>2. ASSUME NEW c \in Queries, Ask(c) \/ Answer(c) PROVE TypeOK'
    <2>1. Sent("data", None, access) \in Call
        BY <1>t, SentCall
    <2> QED
        BY <1>2, <1>c, <2>1, Idle, CallUpdated DEF Ask, Answer, TypeOK
<1>3. ASSUME NEW g \in Signups, SignupStep(g) PROVE TypeOK'
    <2> USE <1>3 DEF TypeOK
    <2>1. CASE CheckEmail(g)
        BY <2>1 DEF CheckEmail
    <2>2. CASE CreateUser(g)
        BY <2>2 DEF CreateUser
    <2>3. CASE CreateWorkspace(g)
        BY <2>3 DEF CreateWorkspace
    <2>4. CASE CreateWorkspaceFails(g)
        BY <2>4 DEF CreateWorkspaceFails
    <2> QED
        BY <2>1, <2>2, <2>3, <2>4 DEF SignupStep
<1>4. ASSUME NEW u \in Users, SignIn(u), UNCHANGED signup PROVE TypeOK'
    <2>1. Crossed(call) \in [Calls -> Call]
        BY CrossedCall DEF Crossed
    <2>2. Sent("workspaces", None, Fresh(u)) \in Call /\ Fresh(u) \in Token
        BY SentCall, FreshToken
    <2>3. call' = [Crossed(call) EXCEPT ![Form] = Sent("workspaces", None, Fresh(u))]
        BY <1>4 DEF SignIn
    <2>4. call' \in [Calls -> Call]
        BY <2>1, <2>2, <2>3
    <2> QED
        BY <1>4, <2>2, <2>4 DEF SignIn, SetAuth, TypeOK
<1>5. CASE FormStep
    <2>1. CASE LoginSucceeds
        <3>1. call[Form].email \in Users
            BY <2>1, <1>c DEF LoginSucceeds, EmailInv
        <3> QED
            BY <2>1, <3>1, <1>4 DEF LoginSucceeds
    <2>2. CASE RegisterSucceeds
        <3>1. call[Form].email \in Users
            BY <2>2, <1>c DEF RegisterSucceeds, EmailInv
        <3> QED
            BY <2>2, <3>1, <1>4 DEF RegisterSucceeds
    <2>3. CASE RegisterRefused
        BY <2>3, <1>c, Idle, CallUpdated DEF RegisterRefused, TypeOK
    <2>4. CASE WorkspacesArrive
        <3>1. call[Form].bearer.user \in Users
            BY <2>4, <1>c DEF WorkspacesArrive, Authorized, Call, Token
        <3> QED
            BY <2>4, <3>1, <1>c, Idle, CallUpdated DEF WorkspacesArrive, ChooseWorkspace, TypeOK
    <2> QED
        BY <1>5, <2>1, <2>2, <2>3, <2>4 DEF FormStep
<1>6. ASSUME NEW u \in Users, SubmitRegister(u) \/ SubmitLogin(u) \/ RegisterElsewhere(u) PROVE TypeOK'
    <2>1. Sent("register", u, None) \in Call /\ Sent("login", u, None) \in Call
        BY SentCall
    <2>2. [pc |-> "asked", email |-> u] \in [pc : {"none", "asked", "checked", "created", "done", "refused", "lost"},
                                             email : Users \cup {None}]
        OBVIOUS
    <2> QED
        BY <1>6, <1>c, <2>1, <2>2, CallUpdated DEF SubmitRegister, SubmitLogin, RegisterElsewhere, TypeOK
<1>7. CASE Logout
    <2>1. Crossed(call) \in [Calls -> Call]
        BY CrossedCall DEF Crossed
    <2> QED
        BY <1>7, <2>1 DEF Logout, ClearAuth, TypeOK
<1>8. CASE Open("login") \/ Open("dashboard")
    BY <1>8, Loaded DEF Open, Load, TypeOK
<1>9. CASE AccessExpires \/ RefreshExpires
    <2>1. ASSUME NEW t \in Token PROVE [t EXCEPT !.live = FALSE] \in Token
        BY DEF Token
    <2> QED
        BY <1>9, <1>t, <2>1 DEF AccessExpires, RefreshExpires, TypeOK
<1>10. CASE UNCHANGED vars
    BY <1>10 DEF vars, TypeOK
<1> QED
    BY <1>1, <1>2, <1>3, <1>5, <1>6, <1>7, <1>8, <1>9, <1>10 DEF Next

-----------------------------------------------------------------------------
(* Addresses                                                               *)

LEMMA EmailInit == Init => EmailInv
BY DEF Init, EmailInv, NoCall

LEMMA EmailStep == TypeOK /\ EmailInv /\ [Next]_vars => EmailInv'
<1> SUFFICES ASSUME TypeOK, EmailInv, [Next]_vars PROVE EmailInv'
    OBVIOUS
<1> USE DEF EmailInv, stored
<1>c. /\ \A c \in Calls : call[c] \in Call
      /\ Form \in Calls /\ (\A c \in Queries : c \in Calls) /\ NoCall.kind = "data"
    BY DEF TypeOK, Calls, NoCall
\* One call changes, and it is none that signs in, or is for the same address.
<1>f. ASSUME NEW c \in Calls, NEW v \in Call, call' = [call EXCEPT ![c] = v], UNCHANGED signup,
             v.kind \in {"login", "register"} => v.email \in Users
      PROVE  EmailInv'
    BY <1>f, CallUpdated
<1>g. ASSUME NEW g \in Signups, NEW p, signup' = [signup EXCEPT ![g].pc = p], signup[g].pc # "none", UNCHANGED call
      PROVE  EmailInv'
    BY <1>g DEF TypeOK
<1>l. ASSUME NEW target, Load(target), UNCHANGED signup PROVE EmailInv'
    BY <1>l, <1>c DEF Load
<1>1. ASSUME NEW c \in Calls, CallStep(c) PROVE EmailInv'
    <2>1. CASE Unauthorized(c)
        <3> DEFINE w == [call[c] EXCEPT !.pc = "refreshing", !.retried = TRUE, !.bearer = refresh]
                   v == IF MayRetry(c) THEN w ELSE NoCall
        <3>t. refresh \in Token \cup {None}
            BY DEF TypeOK
        <3>w. w \in Call /\ w.kind = call[c].kind /\ w.email = call[c].email
            BY <1>c, <3>t, RefreshingCall
        <3> HIDE DEF w
        <3>1. v \in Call /\ (v.kind \in {"login", "register"} => v.email \in Users)
            BY <1>c, <3>w, Idle
        <3> QED
            BY <2>1, <3>1, <1>f DEF Unauthorized, w
    <2>2. CASE Refreshed(c)
        BY <2>2, <1>c DEF Refreshed, TypeOK, Call
    <2>3. CASE RefreshFails(c)
        BY <2>3, <1>l DEF RefreshFails
    <2>4. CASE CallFails(c)
        BY <2>4, <1>c, <1>f, Idle DEF CallFails
    <2> QED
        BY <1>1, <2>1, <2>2, <2>3, <2>4 DEF CallStep
<1>2. ASSUME NEW c \in Queries, Ask(c) \/ Answer(c) PROVE EmailInv'
    BY <1>2, <1>c, <1>f, Idle, SentCall DEF Ask, Answer, Sent, TypeOK
<1>3. ASSUME NEW g \in Signups, SignupStep(g) PROVE EmailInv'
    BY <1>3, <1>g DEF SignupStep, CheckEmail, CreateUser, CreateWorkspace, CreateWorkspaceFails
<1>4. ASSUME NEW u, SignIn(u), UNCHANGED signup PROVE EmailInv'
    <2>1. \A c \in Calls : Crossed(call)[c].kind = call[c].kind /\ Crossed(call)[c].email = call[c].email
        BY CrossedCall
    <2>2. Sent("workspaces", None, Fresh(u)).kind = "workspaces"
        BY DEF Sent
    <2>3. \A c \in Calls : call'[c] = IF c = Form THEN Sent("workspaces", None, Fresh(u)) ELSE Crossed(call)[c]
        BY <1>4 DEF SignIn, Crossed
    <2> QED
        BY <1>4, <2>1, <2>2, <2>3
<1>5. CASE FormStep
    BY <1>5, <1>4, <1>c, <1>f, Idle DEF FormStep, LoginSucceeds, RegisterSucceeds, RegisterRefused, WorkspacesArrive
<1>6. ASSUME NEW u \in Users, SubmitRegister(u) \/ SubmitLogin(u) \/ RegisterElsewhere(u) PROVE EmailInv'
    <2>1. Sent("register", u, None).email = u /\ Sent("login", u, None).email = u
        BY DEF Sent
    <2> QED
        BY <1>6, <2>1, <1>c DEF SubmitRegister, SubmitLogin, RegisterElsewhere, TypeOK
<1>7. CASE Logout
    <2>1. \A c \in Calls : Crossed(call)[c].kind = call[c].kind /\ Crossed(call)[c].email = call[c].email
        BY CrossedCall
    <2> QED
        BY <1>7, <2>1 DEF Logout
<1>8. CASE Open("login") \/ Open("dashboard")
    BY <1>8, <1>l DEF Open
<1>9. CASE AccessExpires \/ RefreshExpires \/ UNCHANGED vars
    BY <1>9 DEF AccessExpires, RefreshExpires, vars
<1> QED
    BY <1>1, <1>2, <1>3, <1>5, <1>6, <1>7, <1>8, <1>9 DEF Next
-----------------------------------------------------------------------------
(* Tokens                                                                  *)

\* Unless somebody signed in or out since it was sent, what a call carries
\* belongs to who is shown: this is what keeps a refresh from storing the
\* tokens of somebody else.
Carried(c) ==
    call[c].pc # "idle" /\ ~call[c].crossed /\ call[c].bearer # None => call[c].bearer.user = shown
BearerInv == TokensOfShown /\ (~late => \A c \in Calls : Carried(c))

LEMMA BearerInit == Init => BearerInv
BY DEF Init, BearerInv, TokensOfShown, Carried, NoCall

LEMMA BearerStep == TypeOK /\ EmailInv /\ BearerInv /\ [Next]_vars => BearerInv'
<1> SUFFICES ASSUME TypeOK, EmailInv, BearerInv, [Next]_vars PROVE BearerInv'
    OBVIOUS
<1> USE DEF stored
<1>c. /\ \A c \in Calls : call[c] \in Call
      /\ Form \in Calls /\ \A c \in Queries : c \in Calls
    BY DEF TypeOK, Calls
<1>t. access \in Token \cup {None} /\ refresh \in Token \cup {None} /\ late \in BOOLEAN
    BY DEF TypeOK
\* One call changes: it ends, or carries what belongs to who is shown.
<1>f. ASSUME NEW c \in Calls, NEW v \in Call, call' = [call EXCEPT ![c] = v],
             UNCHANGED <<access, refresh, shown, late>>,
             ~late => v.pc = "idle" \/ v.bearer = None \/ v.bearer.user = shown
      PROVE  BearerInv'
    BY <1>f, CallUpdated DEF BearerInv, TokensOfShown, Carried
<1>k. ASSUME UNCHANGED <<access, refresh, shown, late, call>> PROVE BearerInv'
    BY <1>k DEF BearerInv, TokensOfShown, Carried
<1>l. ASSUME NEW target, Load(target), UNCHANGED <<shown, late>>,
             UNCHANGED <<access, refresh>> \/ (access' = None /\ refresh' = None)
      PROVE  BearerInv'
    BY <1>l, Loaded DEF BearerInv, TokensOfShown, Carried
<1>1. ASSUME NEW c \in Calls, CallStep(c) PROVE BearerInv'
    <2>1. CASE Unauthorized(c)
        <3> DEFINE w == [call[c] EXCEPT !.pc = "refreshing", !.retried = TRUE, !.bearer = refresh]
                   v == IF MayRetry(c) THEN w ELSE NoCall
        <3>w. w \in Call /\ w.bearer = refresh
            BY <1>c, <1>t, RefreshingCall
        <3> HIDE DEF w
        <3>1. v \in Call /\ (~late => v.pc = "idle" \/ v.bearer = None \/ v.bearer.user = shown)
            BY <3>w, Idle DEF BearerInv, TokensOfShown
        <3>2. call' = [call EXCEPT ![c] = v] /\ UNCHANGED <<access, refresh, shown, late>>
            BY <2>1 DEF Unauthorized, w
        <3> HIDE DEF v
        <3> QED
            BY <3>1, <3>2, <1>f
    <2>2. CASE Refreshed(c)
        <3> DEFINE u == call[c].bearer.user
                   v == [[call[c] EXCEPT !.pc = "sent"] EXCEPT !.bearer = Fresh(u)]
        <3>1. u \in Users /\ call[c] \in Call /\ call[c].crossed \in BOOLEAN
            BY <2>2, <1>c DEF Refreshed, Call, Token
        <3>2. Fresh(u) \in Token /\ Fresh(u).user = u
            BY <3>1, FreshToken
        <3>3. v \in Call /\ v.bearer = Fresh(u) /\ v.crossed = call[c].crossed
            BY <3>1, <3>2, ResentCall
        <3>4. call' = [call EXCEPT ![c] = v]
            BY <2>2 DEF Refreshed, TypeOK
        <3> HIDE DEF v
        <3>5. call'[c] = v /\ \A d \in Calls \ {c} : call'[d] = call[d]
            BY <3>3, <3>4, CallUpdated
        <3>6. access' = Fresh(u) /\ refresh' = Fresh(u) /\ shown' = shown /\ late' = (late \/ call[c].crossed)
            BY <2>2 DEF Refreshed
        \* The refresh was asked for by who is shown.
        <3>7. ~late' => u = shown
            BY <2>2, <3>6 DEF Refreshed, BearerInv, Carried
        <3> QED
            BY <3>1, <3>2, <3>3, <3>5, <3>6, <3>7 DEF BearerInv, TokensOfShown, Carried
    <2>3. CASE RefreshFails(c)
        BY <2>3, <1>l DEF RefreshFails
    <2>4. CASE CallFails(c)
        BY <2>4, <1>f, Idle DEF CallFails
    <2> QED
        BY <1>1, <2>1, <2>2, <2>3, <2>4 DEF CallStep
<1>2. ASSUME NEW c \in Queries, Ask(c) \/ Answer(c) PROVE BearerInv'
    <2> DEFINE v == Sent("data", None, access)
    <2>1. v \in Call
        BY <1>t, SentCall
    <2>2. v.bearer = access
        BY DEF Sent
    <2>3. ~late => v.bearer = None \/ v.bearer.user = shown
        BY <2>2 DEF BearerInv, TokensOfShown
    <2> HIDE DEF v
    <2>4. CASE Ask(c)
        BY <2>4, <2>1, <2>3, <1>c, <1>f DEF Ask, v
    <2>5. CASE Answer(c)
        BY <2>5, <1>c, <1>f, Idle DEF Answer
    <2> QED
        BY <1>2, <2>4, <2>5
<1>3. ASSUME NEW g \in Signups, SignupStep(g) PROVE BearerInv'
    BY <1>3, <1>k DEF SignupStep, CheckEmail, CreateUser, CreateWorkspace, CreateWorkspaceFails
\* The form asks with the tokens of the new sign-in, every other call is marked.
<1>4. ASSUME NEW u \in Users, SignIn(u) PROVE BearerInv'
    <2> DEFINE v == Sent("workspaces", None, Fresh(u))
    <2>1. Fresh(u).user = u
        BY FreshToken
    <2>2. v.bearer = Fresh(u)
        BY DEF Sent
    <2>3. \A c \in Calls : call'[c] = IF c = Form THEN v ELSE Crossed(call)[c]
        BY <1>4 DEF SignIn, Crossed
    <2> HIDE DEF v
    <2>4. access' = Fresh(u) /\ refresh' = Fresh(u) /\ shown' = u
        BY <1>4 DEF SignIn, SetAuth
    <2> QED
        BY <2>1, <2>2, <2>3, <2>4, CrossedCall DEF BearerInv, TokensOfShown, Carried
<1>5. CASE FormStep
    <2>1. CASE LoginSucceeds
        BY <2>1, <1>c, <1>4 DEF LoginSucceeds, EmailInv
    <2>2. CASE RegisterSucceeds
        BY <2>2, <1>c, <1>4 DEF RegisterSucceeds, EmailInv
    <2>3. CASE RegisterRefused
        BY <2>3, <1>c, <1>f, Idle DEF RegisterRefused
    <2>4. CASE WorkspacesArrive
        BY <2>4, <1>c, <1>f, Idle DEF WorkspacesArrive
    <2> QED
        BY <1>5, <2>1, <2>2, <2>3, <2>4 DEF FormStep
<1>6. ASSUME NEW u \in Users, SubmitRegister(u) \/ SubmitLogin(u) \/ RegisterElsewhere(u) PROVE BearerInv'
    <2>1. /\ Sent("register", u, None) \in Call /\ Sent("login", u, None) \in Call
          /\ Sent("register", u, None).bearer = None /\ Sent("login", u, None).bearer = None
        BY SentCall DEF Sent
    <2>2. CASE SubmitRegister(u)
        BY <2>2, <2>1, <1>c, <1>f DEF SubmitRegister
    <2>3. CASE SubmitLogin(u)
        BY <2>3, <2>1, <1>c, <1>f DEF SubmitLogin
    <2>4. CASE RegisterElsewhere(u)
        BY <2>4, <1>k DEF RegisterElsewhere
    <2> QED
        BY <1>6, <2>2, <2>3, <2>4
<1>7. CASE Logout
    <2>1. call' = Crossed(call) /\ access' = None /\ refresh' = None
        BY <1>7 DEF Logout, ClearAuth
    <2> QED
        BY <2>1, CrossedCall DEF BearerInv, TokensOfShown, Carried
<1>8. CASE Open("login") \/ Open("dashboard")
    BY <1>8, <1>l DEF Open
<1>9. CASE AccessExpires \/ RefreshExpires
    <2>1. ASSUME NEW t \in Token PROVE [t EXCEPT !.live = FALSE].user = t.user
        BY DEF Token
    <2>2. \A c \in Calls : Carried(c) => Carried(c)'
        BY <1>9 DEF AccessExpires, RefreshExpires, Carried
    <2>3. TokensOfShown'
        BY <1>9, <1>t, <2>1 DEF AccessExpires, RefreshExpires, BearerInv, TokensOfShown
    <2>4. late' = late
        BY <1>9 DEF AccessExpires, RefreshExpires
    <2> QED
        BY <2>2, <2>3, <2>4 DEF BearerInv
<1>10. CASE UNCHANGED vars
    BY <1>10, <1>k DEF vars
<1> QED
    BY <1>1, <1>2, <1>3, <1>5, <1>6, <1>7, <1>8, <1>9, <1>10 DEF Next
-----------------------------------------------------------------------------
(* Registrations                                                           *)

\* A registration that created its user is alone with its address, the address
\* is taken, and an account without a workspace has such a registration.
Creating(g) == signup[g].pc \in {"created", "done", "lost"}
SignupInv ==
    /\ \A g, h \in Signups :
        Creating(g) /\ Creating(h) /\ signup[g].email = signup[h].email => g = h
    /\ \A g \in Signups : Creating(g) => account[signup[g].email] # "absent"
    /\ \A u \in Users : account[u] = "bare" =>
        \E g \in Signups : signup[g].email = u /\ signup[g].pc \in {"created", "lost"}

LEMMA SignupInit == Init => SignupInv
BY DEF Init, SignupInv, Creating

LEMMA SignupStepKeeps == TypeOK /\ EmailInv /\ SignupInv /\ [Next]_vars => SignupInv'
<1> SUFFICES ASSUME TypeOK, EmailInv, SignupInv, [Next]_vars PROVE SignupInv'
    OBVIOUS
<1> USE DEF stored
<1>s. ASSUME NEW g \in Signups, SignupStep(g) PROVE SignupInv'
    <2> DEFINE u == signup[g].email
    <2>u. signup[g].pc # "none" /\ u \in Users
        BY <1>s DEF SignupStep, CheckEmail, CreateUser, CreateWorkspace, CreateWorkspaceFails, EmailInv
    \* Only the state of this registration and the account of its address change.
    <2>e. /\ \A h \in Signups : signup'[h].email = signup[h].email
          /\ \A h \in Signups \ {g} : signup'[h].pc = signup[h].pc
          /\ \A v \in Users \ {u} : account'[v] = account[v]
        BY <1>s DEF SignupStep, CheckEmail, CreateUser, CreateWorkspace, CreateWorkspaceFails, TypeOK
    <2>1. CASE CheckEmail(g)
        <3>1. signup[g].pc = "asked" /\ signup'[g].pc \in {"checked", "refused"} /\ account' = account
            BY <2>1 DEF CheckEmail, TypeOK
        <3> QED
            BY <3>1, <2>e DEF SignupInv, Creating
    <2>2. CASE CreateUser(g) /\ account[u] = "absent"
        <3>1. signup[g].pc = "checked" /\ signup'[g].pc = "created" /\ account'[u] = "bare"
            BY <2>2, <2>u DEF CreateUser, TypeOK
        <3>2. \A h \in Signups : Creating(h) => signup[h].email # u
            BY <2>2 DEF SignupInv
        <3>3. \A h \in Signups : Creating(h)' => h = g \/ Creating(h)
            BY <2>e DEF Creating
        <3> HIDE DEF u
        <3>4. \A h, k \in Signups :
                Creating(h)' /\ Creating(k)' /\ signup'[h].email = signup'[k].email => h = k
            BY <3>2, <3>3, <2>e DEF SignupInv, u
        <3>5. \A h \in Signups : Creating(h)' => account'[signup'[h].email] # "absent"
            <4> SUFFICES ASSUME NEW h \in Signups, Creating(h)'
                         PROVE  account'[signup[h].email] # "absent"
                BY <2>e
            <4>1. CASE h = g
                BY <4>1, <3>1 DEF u
            <4>2. CASE h # g
                <5>1. Creating(h) /\ signup[h].email # u /\ signup[h].email \in Users
                    BY <4>2, <3>2, <3>3 DEF EmailInv, Creating
                <5> QED
                    BY <5>1, <2>e DEF SignupInv
            <4> QED
                BY <4>1, <4>2
        <3>6. \A v \in Users : account'[v] = "bare" =>
                \E h \in Signups : signup'[h].email = v /\ signup'[h].pc \in {"created", "lost"}
            <4> SUFFICES ASSUME NEW v \in Users, account'[v] = "bare"
                         PROVE  \E h \in Signups : signup'[h].email = v /\ signup'[h].pc \in {"created", "lost"}
                OBVIOUS
            <4>1. CASE v = u
                BY <4>1, <3>1, <2>e DEF u
            <4>2. CASE v # u
                <5>1. PICK h \in Signups : signup[h].email = v /\ signup[h].pc \in {"created", "lost"}
                    BY <4>2, <2>e DEF SignupInv
                <5> QED
                    BY <5>1, <4>2, <2>e DEF u
            <4> QED
                BY <4>1, <4>2
        <3> QED
            BY <3>4, <3>5, <3>6 DEF SignupInv
    <2>3. CASE CreateUser(g) /\ account[u] # "absent"
        <3>1. signup[g].pc = "checked" /\ signup'[g].pc = "refused" /\ account' = account
            BY <2>3 DEF CreateUser, TypeOK
        <3> QED
            BY <3>1, <2>e DEF SignupInv, Creating
    <2>4. CASE CreateWorkspace(g)
        <3>1. signup[g].pc = "created" /\ signup'[g].pc = "done" /\ account'[u] = "full"
            BY <2>4, <2>u DEF CreateWorkspace, TypeOK
        <3>2. \A h \in Signups : Creating(h)' => Creating(h)
            BY <3>1, <2>e DEF Creating
        <3> HIDE DEF u
        <3>3. \A h \in Signups : Creating(h)' => account'[signup'[h].email] # "absent"
            <4> SUFFICES ASSUME NEW h \in Signups, Creating(h)
                         PROVE  account'[signup[h].email] # "absent"
                BY <2>e, <3>2
            <4>1. signup[h].email \in Users /\ account[signup[h].email] # "absent"
                BY DEF EmailInv, SignupInv, Creating
            <4> QED
                BY <4>1, <3>1, <2>e
        <3>4. \A v \in Users : account'[v] = "bare" =>
                \E h \in Signups : signup'[h].email = v /\ signup'[h].pc \in {"created", "lost"}
            <4> SUFFICES ASSUME NEW v \in Users, account'[v] = "bare"
                         PROVE  \E h \in Signups : signup'[h].email = v /\ signup'[h].pc \in {"created", "lost"}
                OBVIOUS
            <4>1. v # u /\ account[v] = "bare"
                BY <3>1, <2>e
            <4>2. PICK h \in Signups : signup[h].email = v /\ signup[h].pc \in {"created", "lost"}
                BY <4>1 DEF SignupInv
            <4> QED
                BY <4>1, <4>2, <2>e DEF u
        <3> QED
            BY <3>2, <3>3, <3>4, <2>e DEF SignupInv
    <2>5. CASE CreateWorkspaceFails(g)
        <3>1. signup[g].pc = "created" /\ signup'[g].pc = "lost" /\ account' = account
            BY <2>5 DEF CreateWorkspaceFails, TypeOK
        <3> QED
            BY <3>1, <2>e DEF SignupInv, Creating
    <2> QED
        BY <1>s, <2>1, <2>2, <2>3, <2>4, <2>5 DEF SignupStep
\* A registration that is only begun owns nothing yet.
<1>b. ASSUME NEW g \in Signups, NEW u \in Users, signup[g].pc \in {"none", "refused"}, UNCHANGED account,
             signup' = [signup EXCEPT ![g] = [pc |-> "asked", email |-> u]]
      PROVE  SignupInv'
    <2>1. /\ signup'[g].pc = "asked"
          /\ \A h \in Signups \ {g} : signup'[h] = signup[h]
        BY <1>b DEF TypeOK
    <2> QED
        BY <1>b, <2>1 DEF SignupInv, Creating
<1>k. ASSUME UNCHANGED <<account, signup>> PROVE SignupInv'
    BY <1>k DEF SignupInv, Creating
<1>1. ASSUME NEW c \in Calls, CallStep(c) PROVE SignupInv'
    BY <1>1, <1>k DEF CallStep, Unauthorized, Refreshed, RefreshFails, CallFails
<1>2. ASSUME NEW c \in Queries, Ask(c) \/ Answer(c) PROVE SignupInv'
    BY <1>2, <1>k DEF Ask, Answer
<1>5. CASE FormStep
    BY <1>5, <1>k DEF FormStep, LoginSucceeds, RegisterSucceeds, RegisterRefused, WorkspacesArrive, SignIn
<1>6. ASSUME NEW u \in Users, SubmitRegister(u) \/ SubmitLogin(u) \/ RegisterElsewhere(u) PROVE SignupInv'
    <2>1. Form \in Signups /\ Other \in Signups
        BY DEF Signups
    <2> QED
        BY <1>6, <2>1, <1>b, <1>k DEF SubmitRegister, SubmitLogin, RegisterElsewhere
<1>7. CASE Logout \/ Open("login") \/ Open("dashboard") \/ AccessExpires \/ RefreshExpires \/ UNCHANGED vars
    BY <1>7, <1>k DEF Logout, Open, AccessExpires, RefreshExpires, vars
<1> QED
    BY <1>s, <1>1, <1>2, <1>5, <1>6, <1>7 DEF Next

-----------------------------------------------------------------------------
(* Theorems                                                                *)

Inv == TypeOK /\ EmailInv /\ BearerInv /\ SignupInv

LEMMA InvHolds == Spec => []Inv
<1>1. Init => Inv
    BY TypeInit, EmailInit, BearerInit, SignupInit DEF Inv
<1>2. Inv /\ [Next]_vars => Inv'
    BY TypeStep, EmailStep, BearerStep, SignupStepKeeps DEF Inv
<1> QED
    BY <1>1, <1>2, PTL DEF Spec

\* Every reachable state of the session is well typed, for any accounts and
\* calls.
THEOREM SessionTyped == Spec => []TypeOK
<1>1. Inv => TypeOK
    BY DEF Inv
<1> QED
    BY <1>1, InvHolds, PTL

\* What the interceptors send belongs to who is shown as signed in, however
\* many calls expire, refresh and are retried together, as long as no refresh
\* has crossed a sign-in or sign-out.
THEOREM TokensCorrect == Spec => []TokensOfShown
<1>1. Inv => TokensOfShown
    BY DEF Inv, BearerInv
<1> QED
    BY <1>1, InvHolds, PTL

\* Two registrations for one address never both succeed, and an account without
\* a workspace belongs to one that is at work or stopped half-way.
THEOREM RegistrationCorrect == Spec => []RegistrationComplete
<1>1. Inv => RegistrationComplete
    BY DEF Inv, SignupInv, Creating, RegistrationComplete
<1> QED
    BY <1>1, InvHolds, PTL

\* Who signs in on the dashboard sees the own workspace, if the account has one
\* and nobody has signed in or out across the sign-in.
THEOREM WorkspaceCorrect == Spec => OwnWorkspace
<1>1. Inv /\ [Next]_vars =>
        [WorkspacesArrive /\ ~late /\ ~call[Form].crossed =>
            workspace' = shown \/ account[shown] # "full"]_vars
    <2> SUFFICES ASSUME Inv, WorkspacesArrive, ~late, ~call[Form].crossed
                 PROVE  workspace' = shown \/ account[shown] # "full"
        OBVIOUS
    <2>1. call[Form].bearer.user = shown
        BY DEF Inv, BearerInv, Carried, WorkspacesArrive, Authorized, Calls
    <2> QED
        BY <2>1 DEF WorkspacesArrive, ChooseWorkspace
<1> QED
    BY <1>1, InvHolds, PTL DEF Spec, OwnWorkspace
=============================================================================
