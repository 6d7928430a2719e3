----------------------------- MODULE AuthSession -----------------------------
(***************************************************************************)
(* A browser's session with the API: register, login and refresh of        *)
(* apps/api/src/auth/auth.service.ts, the interceptors of                  *)
(* apps/web/src/lib/api-client.ts, the stores that remember who is signed  *)
(* in, the login and registration forms, AuthGuard and logging out.        *)
(*                                                                         *)
(* The tokens are kept twice: in localStorage for the interceptors and in  *)
(* the persisted store.  Only localStorage is ever sent, so the model has  *)
(* the tokens there and, of the store, who is shown as signed in.          *)
(***************************************************************************)
EXTENDS Naturals, FiniteSets

CONSTANTS
    Users,    \* accounts, by e-mail address
    Known,    \* those that exist from the start
    Queries,  \* calls of the pages that may be under way together
    Form,     \* the call of the login or registration form
    Other,    \* a registration from somewhere else
    None

ASSUME AuthSessionAssumption ==
    /\ None \notin Users /\ Known \subseteq Users
    /\ Form \notin Queries /\ Other # Form

Calls == Queries \cup {Form}
Signups == {Form, Other}

VARIABLES
    account,   \* absent, bare (the user exists, no workspace yet), full
    signup,    \* the registrations the server works on
    access,    \* localStorage: accessToken
    refresh,   \* localStorage: refreshToken
    shown,     \* the store: user, None when isAuthenticated is false
    workspace, \* the store: whose workspace is current
    page,
    call,      \* the calls through apiClient
    late       \* history: a refresh of an earlier sign-in has stored its tokens

stored == <<access, refresh, shown, workspace>>
vars == <<account, signup, stored, page, call, late>>

Token == [user : Users, live : BOOLEAN]
NoCall == [pc |-> "idle", kind |-> "data", email |-> None, bearer |-> None,
           retried |-> FALSE, crossed |-> FALSE]

\* crossed: somebody signed in or out while the call was under way.
Call == [pc : {"idle", "sent", "refreshing"},
         kind : {"data", "login", "register", "workspaces"},
         email : Users \cup {None}, bearer : Token \cup {None},
         retried : BOOLEAN, crossed : BOOLEAN]

TypeOK ==
    /\ account \in [Users -> {"absent", "bare", "full"}]
    /\ signup \in [Signups -> [pc : {"none", "asked", "checked", "created", "done", "refused", "lost"},
                               email : Users \cup {None}]]
    /\ {access, refresh} \subseteq Token \cup {None}
    /\ {shown, workspace} \subseteq Users \cup {None}
    /\ page \in {"login", "dashboard"}
    /\ call \in [Calls -> Call]
    /\ late \in BOOLEAN

Init ==
    /\ account = [u \in Users |-> IF u \in Known THEN "full" ELSE "absent"]
    /\ signup = [g \in Signups |-> [pc |-> "none", email |-> None]]
    /\ access = None /\ refresh = None
    /\ shown = None /\ workspace = None
    /\ page = "login"
    /\ call = [c \in Calls |-> NoCall]
    /\ late = FALSE

Fresh(u) == [user |-> u, live |-> TRUE]
Sent(kind, email, bearer) ==
    [pc |-> "sent", kind |-> kind, email |-> email, bearer |-> bearer, retried |-> FALSE, crossed |-> FALSE]
UnderWay(c) == call[c].pc # "idle"

-----------------------------------------------------------------------------
(* register                                                                *)

\* findUnique: the address is free, or the registration is refused.
CheckEmail(g) ==
    /\ signup[g].pc = "asked"
    /\ signup' = [signup EXCEPT ![g].pc = IF account[signup[g].email] = "absent" THEN "checked" ELSE "refused"]
    /\ UNCHANGED <<account, stored, page, call, late>>

\* Mutant: the account is taken over when it exists by now.
CreateUserOrUpdate(g) ==
    /\ signup[g].pc = "checked"
    /\ account' = [account EXCEPT ![signup[g].email] = IF @ = "absent" THEN "bare" ELSE @]
    /\ signup' = [signup EXCEPT ![g].pc = "created"]
    /\ UNCHANGED <<stored, page, call, late>>

\* user.create, which the unique address refuses when it is taken by now.
CreateUser(g) ==
    LET u == signup[g].email IN
    /\ signup[g].pc = "checked"
    /\ IF account[u] = "absent"
       THEN /\ account' = [account EXCEPT ![u] = "bare"]
            /\ signup' = [signup EXCEPT ![g].pc = "created"]
       ELSE /\ signup' = [signup EXCEPT ![g].pc = "refused"]
            /\ UNCHANGED account
    /\ UNCHANGED <<stored, page, call, late>>

\* workspace.create with the user as its owner; then the tokens are signed.
CreateWorkspace(g) ==
    /\ signup[g].pc = "created"
    /\ account' = [account EXCEPT ![signup[g].email] = "full"]
    /\ signup' = [signup EXCEPT ![g].pc = "done"]
    /\ UNCHANGED <<stored, page, call, late>>

\* The process stops there, or the call fails: nothing removes the user.
CreateWorkspaceFails(g) ==
    /\ signup[g].pc = "created"
    /\ signup' = [signup EXCEPT ![g].pc = "lost"]
    /\ UNCHANGED <<account, stored, page, call, late>>

RegisterElsewhere(u) ==
    /\ signup[Other].pc = "none"
    /\ signup' = [signup EXCEPT ![Other] = [pc |-> "asked", email |-> u]]
    /\ UNCHANGED <<account, stored, page, call, late>>

-----------------------------------------------------------------------------
(* The interceptors of apiClient                                           *)

\* JwtAuthGuard: the token is valid and JwtStrategy finds its user.
Authorized(c) == call[c].bearer # None /\ call[c].bearer.live

\* What the API may answer with 401: login compares the password.
MayRefuse(c) == IF call[c].kind = "login" THEN TRUE ELSE call[c].kind # "register" /\ ~Authorized(c)

\* Mutant: every 401 is retried.
MayRetryAlways(c) == TRUE

\* A request is retried once.
MayRetry(c) == ~call[c].retried

\* A 401: ask for new tokens with what localStorage has now.
Unauthorized(c) ==
    /\ call[c].pc = "sent"
    /\ MayRefuse(c)
    /\ call' = [call EXCEPT ![c] =
            IF MayRetry(c) THEN [@ EXCEPT !.pc = "refreshing", !.retried = TRUE, !.bearer = refresh] ELSE NoCall]
    /\ UNCHANGED <<account, signup, stored, page, late>>

\* The tokens are rotated and stored, and the request is sent again.
Refreshed(c) ==
    LET old == call[c].bearer IN
    /\ call[c].pc = "refreshing"
    /\ old # None /\ old.live /\ account[old.user] # "absent"
    /\ access' = Fresh(old.user)
    /\ refresh' = Fresh(old.user)
    /\ late' = (late \/ call[c].crossed)
    /\ call' = [call EXCEPT ![c].pc = "sent", ![c].bearer = Fresh(old.user)]
    /\ UNCHANGED <<account, signup, shown, workspace, page>>

\* The page is loaded anew: what was under way is gone, the stores come back.
Load(target) ==
    /\ page' = IF target = "dashboard" /\ shown = None THEN "login" ELSE target
    /\ call' = [c \in Calls |-> NoCall]

\* No token, a stale one, or any failure: both tokens are removed and the
\* browser goes to the login page.
RefreshFails(c) ==
    /\ call[c].pc = "refreshing"
    /\ access' = None /\ refresh' = None
    /\ Load("login")
    /\ UNCHANGED <<account, signup, shown, workspace, late>>

\* Any other failure of a call.
CallFails(c) ==
    /\ call[c].pc = "sent"
    /\ call' = [call EXCEPT ![c] = NoCall]
    /\ UNCHANGED <<account, signup, stored, page, late>>

-----------------------------------------------------------------------------
(* Signing in and out                                                      *)

Crossed(calls) == [c \in Calls |-> IF UnderWay(c) THEN [calls[c] EXCEPT !.crossed = TRUE] ELSE calls[c]]

\* setAuth: "Also save to localStorage for axios interceptor".
SetAuth(u) ==
    /\ shown' = u
    /\ access' = Fresh(u) /\ refresh' = Fresh(u)

SubmitLogin(u) ==
    /\ page = "login" /\ ~UnderWay(Form)
    /\ call' = [call EXCEPT ![Form] = Sent("login", u, None)]
    /\ UNCHANGED <<account, signup, stored, page, late>>

SubmitRegister(u) ==
    /\ page = "login" /\ ~UnderWay(Form)
    /\ signup[Form].pc \in {"none", "refused"}
    /\ call' = [call EXCEPT ![Form] = Sent("register", u, None)]
    /\ signup' = [signup EXCEPT ![Form] = [pc |-> "asked", email |-> u]]
    /\ UNCHANGED <<account, stored, page, late>>

\* The form signs in as u and asks for the workspaces.
SignIn(u) ==
    /\ SetAuth(u)
    /\ call' = [Crossed(call) EXCEPT ![Form] = Sent("workspaces", None, Fresh(u))]
    /\ UNCHANGED <<account, workspace, page, late>>

LoginSucceeds ==
    /\ call[Form].pc = "sent" /\ call[Form].kind = "login"
    /\ account[call[Form].email] # "absent"
    /\ SignIn(call[Form].email)
    /\ UNCHANGED signup

RegisterSucceeds ==
    /\ call[Form].pc = "sent" /\ call[Form].kind = "register"
    /\ signup[Form].pc = "done"
    /\ SignIn(call[Form].email)
    /\ UNCHANGED signup

RegisterRefused ==
    /\ call[Form].pc = "sent" /\ call[Form].kind = "register"
    /\ signup[Form].pc \in {"refused", "lost"}
    /\ call' = [call EXCEPT ![Form] = NoCall]
    /\ UNCHANGED <<account, signup, stored, page, late>>

\* Mutant: the current workspace is kept when there is one.
ChooseWorkspaceOnce(u) ==
    workspace' = IF workspace = None /\ account[u] = "full" THEN u ELSE workspace

\* The first workspace of the answer becomes current, if there is one.
ChooseWorkspace(u) ==
    workspace' = IF account[u] = "full" THEN u ELSE workspace

\* The workspaces arrive: router.push('/dashboard').
WorkspacesArrive ==
    LET u == call[Form].bearer.user IN
    /\ call[Form].pc = "sent" /\ call[Form].kind = "workspaces"
    /\ Authorized(Form)
    /\ ChooseWorkspace(u)
    /\ page' = IF shown = None THEN "login" ELSE "dashboard"
    /\ call' = [call EXCEPT ![Form] = NoCall]
    /\ UNCHANGED <<account, signup, access, refresh, shown, late>>

\* Mutant: only the store is cleared.
ClearStoreOnly ==
    /\ shown' = None
    /\ UNCHANGED <<access, refresh>>

ClearAuth == access' = None /\ refresh' = None /\ shown' = None

\* Header and settings: clearAuth, then router.push('/login').  What is under
\* way goes on; the workspace stays.
Logout ==
    /\ page = "dashboard" /\ shown # None
    /\ ClearAuth
    /\ page' = "login"
    /\ call' = Crossed(call)
    /\ UNCHANGED <<account, signup, workspace, late>>

Open(target) ==
    /\ Load(target)
    /\ UNCHANGED <<account, signup, stored, late>>

-----------------------------------------------------------------------------
(* The pages                                                               *)

Ask(c) ==
    /\ page = "dashboard"
    /\ ~UnderWay(c)
    /\ call' = [call EXCEPT ![c] = Sent("data", None, access)]
    /\ UNCHANGED <<account, signup, stored, page, late>>

Answer(c) ==
    /\ call[c].pc = "sent" /\ call[c].kind = "data"
    /\ Authorized(c)
    /\ call' = [call EXCEPT ![c] = NoCall]
    /\ UNCHANGED <<account, signup, stored, page, late>>

\* JWT_EXPIRES_IN, and JWT_REFRESH_EXPIRES_IN after it.
AccessExpires ==
    /\ access # None /\ access.live
    /\ access' = [access EXCEPT !.live = FALSE]
    /\ UNCHANGED <<account, signup, refresh, shown, workspace, page, call, late>>

RefreshExpires ==
    /\ access # None /\ ~access.live /\ refresh # None /\ refresh.live
    /\ refresh' = [refresh EXCEPT !.live = FALSE]
    /\ UNCHANGED <<account, signup, access, shown, workspace, page, call, late>>

CallStep(c) == Unauthorized(c) \/ Refreshed(c) \/ RefreshFails(c) \/ CallFails(c)
SignupStep(g) == CheckEmail(g) \/ CreateUser(g) \/ CreateWorkspace(g) \/ CreateWorkspaceFails(g)
FormStep == LoginSucceeds \/ RegisterSucceeds \/ RegisterRefused \/ WorkspacesArrive

Next ==
    \/ \E c \in Calls : CallStep(c)
    \/ \E c \in Queries : Ask(c) \/ Answer(c)
    \/ \E g \in Signups : SignupStep(g)
    \/ FormStep
    \/ \E u \in Users : SubmitRegister(u) \/ SubmitLogin(u)
    \/ \E u \in Users \ Known : RegisterElsewhere(u)
    \/ Logout \/ Open("login") \/ Open("dashboard")
    \/ AccessExpires \/ RefreshExpires

Spec == Init /\ [][Next]_vars

\* The server answers and the browser handles what arrives.
Fairness ==
    /\ \A c \in Calls : WF_vars(CallStep(c))
    /\ \A c \in Queries : WF_vars(Answer(c))
    /\ \A g \in Signups : WF_vars(SignupStep(g))
    /\ WF_vars(FormStep)

FairSpec == Spec /\ Fairness

-----------------------------------------------------------------------------
(* Properties                                                              *)

\* What the interceptors send belongs to who is shown as signed in, and nothing
\* is left to send after signing out.  One thing breaks it: a refresh begun
\* before somebody signed in or out stores its tokens after it.
TokensOfShown ==
    ~late => \A t \in {access, refresh} \ {None} : t.user = shown

\* A registration that succeeds is the only one for its address and has a
\* workspace; an account without one belongs to a registration still at work or
\* one that stopped half-way.
RegistrationComplete ==
    /\ \A g, h \in Signups :
        signup[g].pc = "done" /\ signup[h].pc \in {"created", "done"}
            /\ signup[g].email = signup[h].email => g = h
    /\ \A u \in Users : account[u] = "bare" =>
        \E g \in Signups : signup[g].email = u /\ signup[g].pc \in {"created", "lost"}

\* A sign-in that reaches the dashboard shows the user's own workspace, also
\* after somebody else used the browser, unless the account has none.
OwnWorkspace ==
    [][WorkspacesArrive /\ ~late /\ ~call[Form].crossed =>
        workspace' = shown \/ account[shown] # "full"]_vars

\* Every call settles: an expired or refused token never makes the client ask
\* and refresh for ever.
CallSettles == \A c \in Calls : UnderWay(c) ~> ~UnderWay(c)
=============================================================================
