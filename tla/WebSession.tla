------------------------------ MODULE WebSession ------------------------------
(***************************************************************************)
(* One browser with several tabs of the web client, and its sessions at    *)
(* the API (web/src/auth/AuthContext.tsx, lib/api.ts, pages/Login.tsx;     *)
(* modules/auth/cookies.ts, middleware/requireAuth.ts and csrf.ts).  The   *)
(* tabs share the two cookies, which every answer may set or clear by name *)
(* whatever value they have got meanwhile.  Accounts are in SsoLogin.      *)
(***************************************************************************)
EXTENDS Naturals

CONSTANTS
    Tab,           \* tabs
    Cookie,        \* session tokens, the bound on sessions in play
    NoCookie       \* the session cookie is not there

ASSUME CookieAssumption == NoCookie \notin Cookie

VARIABLES
    jar,           \* the cookies: the session token; is slc_csrf there?
    live,          \* the sessions that the API would resolve
    ui,            \* ui[t]: AuthContext's status
    call,          \* call[t]: requests of t: the check me(), and what is pressed
    doubt,         \* history: tabs that something happened to behind their back
    left,          \* history: tabs whose person has logged out since
    adrift         \* history: live sessions that were lost by a known mishap

webVars == <<jar, live, ui, call, doubt, left, adrift>>

Slot == {"me", "pressed"}

\* sent, csrf: the cookies it went with; answer: the API's, once it has served
\* it; token: of the session that the answer brings.
Call ==
    [kind: {"none", "me", "login", "logout", "page"}, sent: Cookie \cup {NoCookie},
     csrf: BOOLEAN, answer: {"due", "ok", "denied", "cleared"}, token: Cookie \cup {NoCookie}]

NoCall ==
    [kind |-> "none", sent |-> NoCookie, csrf |-> FALSE, answer |-> "due", token |-> NoCookie]

Silent(t, s) == call[t][s].kind = "none"

InPlay ==
    live \cup {jar.session} \cup {call[t][s].token : t \in Tab, s \in Slot}
        \cup {call[t][s].sent : t \in Tab, s \in Slot}

Sends(kind) ==
    [NoCall EXCEPT !.kind = kind, !.sent = jar.session, !.csrf = jar.csrf]

WebInit ==
    /\ jar = [session |-> NoCookie, csrf |-> FALSE]
    /\ live = {} /\ adrift = {} /\ doubt = {} /\ left = {}
    /\ ui = [t \in Tab |-> "initializing"]
    /\ call = [t \in Tab |-> [me |-> Sends("me"), pressed |-> NoCall]]

-----------------------------------------------------------------------------
(* The tab *)

(* A page is loaded: AuthProvider asks me(); older answers are not heeded. *)
Load(t) ==
    /\ ui' = [ui EXCEPT ![t] = "initializing"]
    /\ call' = [call EXCEPT ![t] = [me |-> Sends("me"), pressed |-> NoCall]]
    /\ adrift' = adrift \cup (live \cap {call[t][s].token : s \in Slot})
    /\ doubt' = doubt \ {t}
    /\ left' = left \ {t}
    /\ UNCHANGED <<jar, live>>

(* The login form, the log-out button, any other request of a page.  The   *)
(* form is at /login while me() is out, too.                               *)
Press(t, kind) ==
    /\ Silent(t, "pressed")
    /\ kind = "login" <=> ui[t] # "authenticated"
    /\ call' = [call EXCEPT ![t].pressed = Sends(kind)]
    /\ doubt' = IF Silent(t, "me") /\ kind = "logout" THEN doubt \ {t} ELSE doubt
    /\ left' = IF kind = "login" THEN left \ {t} ELSE left
    /\ UNCHANGED <<jar, live, ui, adrift>>

(* The cookies of an answer: a sign-in sets both, a log-out clears both,   *)
(* and a session that is not found clears its own.                         *)
Cookies(c) ==
    IF c.kind = "login" /\ c.answer = "ok" THEN [session |-> c.token, csrf |-> TRUE]
    ELSE IF c.kind = "logout" /\ c.answer = "ok" THEN [session |-> NoCookie, csrf |-> FALSE]
    ELSE IF c.answer = "cleared" THEN [jar EXCEPT !.session = NoCookie]
    ELSE jar

\* Mutant: an error of me() leaves the status as it is.
StatusKeptOnError(t, c) ==
    IF c.kind = "logout" THEN "unauthenticated"
    ELSE IF c.answer = "ok" /\ c.kind \in {"login", "me"} THEN "authenticated"
    ELSE ui[t]

(* What AuthContext makes of an answer, or of none: any failure of me() is *)
(* read as signed out, and so is the end of logout(), failed or not.       *)
Status(t, c) ==
    IF c.kind = "logout" THEN "unauthenticated"
    ELSE IF c.kind = "login" /\ c.answer = "ok" THEN "authenticated"
    ELSE IF c.kind = "me" THEN IF c.answer = "ok" THEN "authenticated" ELSE "unauthenticated"
    ELSE ui[t]

(* A sign-in or log-out changes the cookies for the other tabs as well. *)
OthersDoubt(t, before, after) ==
    IF before = after THEN {} ELSE Tab \ {t}

(* An answer arrives.  A live session whose cookie it takes away, though   *)
(* it was sent with another, is adrift; so is one that a sign-in replaces. *)
Arrive(t, s) ==
    LET c == call[t][s] IN
    /\ c.kind # "none" /\ c.answer # "due"
    /\ jar' = Cookies(c)
    /\ ui' = [ui EXCEPT ![t] = Status(t, c)]
    /\ call' = [call EXCEPT ![t][s] = NoCall]
    /\ adrift' = IF c.sent # jar.session \/ c.kind = "login"
                 THEN adrift \cup (live \cap ({jar.session} \ {Cookies(c).session}))
                 ELSE adrift
    /\ doubt' = (IF c.kind = "login" /\ c.token \in live THEN doubt \ {t} ELSE doubt)
                    \cup OthersDoubt(t, jar, Cookies(c))
                    \cup IF \A r \in Slot \ {s} : Silent(t, r) THEN {} ELSE {t}
    /\ left' = IF c.kind = "logout" THEN left \cup {t}
               ELSE IF c.kind = "me" \/ c.kind = "login" THEN left \ {t} ELSE left
    /\ UNCHANGED live

(* The request or its answer is lost: request() throws. *)
Lose(t, s) ==
    LET c == call[t][s] IN
    /\ c.kind # "none"
    /\ ui' = [ui EXCEPT ![t] = Status(t, [c EXCEPT !.answer = "denied"])]
    /\ call' = [call EXCEPT ![t][s] = NoCall]
    /\ adrift' = adrift \cup (live \cap {c.token})
    /\ doubt' = doubt \cup {t}
    /\ left' = IF c.kind = "logout" THEN left \cup {t} ELSE left
    /\ UNCHANGED <<jar, live>>

-----------------------------------------------------------------------------
(* The API *)

(* A session for a token that nobody has; bounded by Cookie. *)
Spare == Cookie \ InPlay

(* The browser comes back from the identity provider: a session, both      *)
(* cookies, and a page that loads.                                         *)
SsoReturn(t) == \E k \in Spare :
    /\ live' = live \cup {k}
    /\ jar' = [session |-> k, csrf |-> TRUE]
    /\ ui' = [ui EXCEPT ![t] = "initializing"]
    /\ call' = [call EXCEPT ![t] =
           [me |-> [NoCall EXCEPT !.kind = "me", !.sent = k, !.csrf = TRUE], pressed |-> NoCall]]
    /\ adrift' = adrift \cup (live \cap ({jar.session} \cup {call[t][s].token : s \in Slot}))
    /\ doubt' = Tab \ {t}
    /\ left' = left \ {t}

Answers(t, s, answer) == call' = [call EXCEPT ![t][s].answer = answer]

(* csrfProtection: a request with a session cookie, even a dead one, has   *)
(* to carry the other one; me() and the pages' reading do not change state.*)
Forged(c) == c.kind \in {"login", "logout"} /\ c.sent # NoCookie /\ ~c.csrf

LoginServed(t, s) ==
    \/ Answers(t, s, "denied") /\ UNCHANGED live
    \/ \E k \in Spare :
           /\ ~Forged(call[t][s])
           /\ live' = live \cup {k}
           /\ call' = [call EXCEPT ![t][s].answer = "ok", ![t][s].token = k]

\* Mutant: the cookies are cleared and the session is left to expire.
LogoutForgets(t, s) == Answers(t, s, "ok") /\ UNCHANGED <<live, adrift>>

(* logout; the error of a revocation that fails is swallowed. *)
LogoutServed(t, s) ==
    \/ /\ live' = live \ {call[t][s].sent}
       /\ adrift' = adrift \ {call[t][s].sent}
       /\ Answers(t, s, "ok")
    \/ /\ adrift' = adrift \cup {call[t][s].sent}
       /\ Answers(t, s, "ok")
       /\ UNCHANGED live

(* requireAuth, then the handler. *)
SessionServed(t, s) ==
    LET c == call[t][s] IN
    \/ /\ c.sent \notin live
       /\ Answers(t, s, IF c.sent = NoCookie THEN "denied" ELSE "cleared")
       /\ UNCHANGED <<live, adrift>>
    \/ c.sent \in live /\ c.kind = "logout" /\ LogoutServed(t, s)
    \/ c.sent \in live /\ c.kind # "logout" /\ Answers(t, s, "ok") /\ UNCHANGED <<live, adrift>>

Serve(t, s) ==
    LET c == call[t][s] IN
    /\ c.kind # "none" /\ c.answer = "due"
    /\ \/ c.kind = "login" /\ LoginServed(t, s) /\ UNCHANGED adrift
       \/ c.kind = "logout" /\ Forged(c) /\ Answers(t, s, "denied") /\ UNCHANGED <<live, adrift>>
       \/ c.kind # "login" /\ ~Forged(c) /\ SessionServed(t, s)
    /\ doubt' = doubt \cup OthersDoubt(t, live, live \cap live')
    /\ UNCHANGED <<jar, ui, left>>

(* Expiry, a disabled account, a password change, a back-channel logout. *)
SessionEnds(k) ==
    /\ k \in live
    /\ live' = live \ {k}
    /\ adrift' = adrift \ {k}
    /\ doubt' = Tab
    /\ UNCHANGED <<jar, ui, call, left>>

WebNext ==
    \/ \E t \in Tab : Load(t) \/ SsoReturn(t)
    \/ \E t \in Tab : \E kind \in {"login", "logout", "page"} : Press(t, kind)
    \/ \E t \in Tab, s \in Slot : Serve(t, s) \/ Arrive(t, s) \/ Lose(t, s)
    \/ \E k \in Cookie : SessionEnds(k)

WebSpec == WebInit /\ [][WebNext]_webVars
-----------------------------------------------------------------------------
(* Properties *)

\* Every variable has its type.
WebTypeOK ==
    /\ jar \in [session: Cookie \cup {NoCookie}, csrf: BOOLEAN]
    /\ live \in SUBSET Cookie /\ adrift \in SUBSET live
    /\ ui \in [Tab -> {"initializing", "authenticated", "unauthenticated"}]
    /\ call \in [Tab -> [Slot -> Call]]
    /\ doubt \in SUBSET Tab /\ left \in SUBSET Tab

(***************************************************************************)
(* Every live session is the one of the cookie, or about to be, or it was  *)
(* lost by a mishap of the listed kinds: an answer that did not come, a    *)
(* sign-in over it, a revocation that failed, or an answer sent with       *)
(* another cookie.  So a log-out, and a 401 that clears the cookie, leave  *)
(* no session behind that nobody can log out any more.  And whoever has a  *)
(* session cookie, of a dead session too, has the other one: otherwise the *)
(* API would take every login for a forgery until the cookie expires.      *)
(***************************************************************************)
SessionIsHeld ==
    /\ \A k \in live \ adrift :
          \/ jar.session = k
          \/ \E t \in Tab, s \in Slot : call[t][s].token = k
    /\ jar.session # NoCookie => jar.csrf

(***************************************************************************)
(* A tab with nothing outstanding shows the pages when the browser has a   *)
(* live session and the login form when not, unless something happened     *)
(* behind its back: another tab signed in or out, the session ended, an    *)
(* answer was lost or the tab's own two requests crossed.  After the end   *)
(* of a log-out, successful or not, it does not show them in any case      *)
(* until it signs in or me() answers.                                      *)
(***************************************************************************)
StatusIsTrue ==
    /\ \A t \in Tab \ doubt :
          (\A s \in Slot : Silent(t, s)) =>
              ui[t] = IF jar.session \in live THEN "authenticated" ELSE "unauthenticated"
    /\ \A t \in left : ui[t] = "unauthenticated"
=============================================================================
