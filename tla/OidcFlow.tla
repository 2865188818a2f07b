------------------------------- MODULE OidcFlow -------------------------------
(***************************************************************************)
(* The browser's way through /auth/oidc/login and /auth/oidc/callback      *)
(* (apps/api/src/modules/auth/oidc/oidc.controller.ts, oidcClient.ts): the *)
(* tabs of one browser share the transaction cookie, and all requests      *)
(* share the discovery promise.  A cookie is read when a request is sent   *)
(* and written when its answer arrives.                                    *)
(*                                                                         *)
(* The provider is outside: a code is good once; discovery works only      *)
(* while the provider is up.                                               *)
(***************************************************************************)
EXTENDS Naturals, FiniteSets

CONSTANTS
    Tab,
    Transaction,   \* authorization requests, told apart by their random values
    NoTransaction,
    MaxRestarts    \* bound: how often the process is restarted

ASSUME FlowAssumption == NoTransaction \notin Transaction /\ MaxRestarts \in Nat

\* Random values do not run out: there are more of them than tabs and cookie hold.
ASSUME RandomAssumption ==
    /\ IsFiniteSet(Tab)
    /\ IsFiniteSet(Transaction) => Cardinality(Transaction) >= 2 * Cardinality(Tab)

VARIABLES
    tab,           \* tab[t]: where tab t stands in its sign-in
    cookie,        \* slc_oidc_txn of the browser: a transaction or none
    discovery,     \* configurationPromise
    up,            \* the provider answers
    restarts       \* restarts so far, up to MaxRestarts

oidcVars == <<tab, cookie, discovery, up, restarts>>

(***************************************************************************)
(* txn is the transaction the tab was sent to the provider with, code what *)
(* the provider keeps of its code, sent the cookie of the callback.        *)
(* History: met says that another sign-in of the browser was in progress   *)
(* at the same time or that the tab was reloaded or late; fate, why it     *)
(* failed.                                                                 *)
(***************************************************************************)
TabState ==
    [pc: {"page", "login", "provider", "callback", "app", "failed"},
     txn: Transaction \cup {NoTransaction}, sent: Transaction \cup {NoTransaction},
     code: {"none", "good", "denied", "used"}, met: BOOLEAN,
     fate: {"none", "denied", "protocol", "provider", "account"}]

OnPage ==
    [pc |-> "page", txn |-> NoTransaction, sent |-> NoTransaction,
     code |-> "none", met |-> FALSE, fate |-> "none"]

\* A new state, nonce and verifier are unlike any that is still around.
Random ==
    CHOOSE n \in Transaction :
        n # cookie /\ \A t \in Tab : n \notin {tab[t].txn, tab[t].sent}

OidcInit ==
    /\ tab = [t \in Tab |-> OnPage]
    /\ cookie = NoTransaction
    /\ discovery = "none"
    /\ up = TRUE
    /\ restarts = 0

TabAt(t, pc) == tab[t].pc = pc

TabBecomes(t, q) == tab' = [tab EXCEPT ![t] = q]

InFlow == {t \in Tab : tab[t].pc \in {"login", "provider", "callback"}}

FailedWith(q, fate) ==
    [OnPage EXCEPT !.pc = "failed", !.fate = fate, !.met = q.met]

\* getOidcConfiguration: the promise there is, or a new one.
Awaited == IF discovery = "none" THEN "pending" ELSE discovery

(* "Sign in" is pressed, maybe while other tabs are signing in. *)
Press(t) ==
    /\ TabAt(t, "page")
    /\ LET crowd == InFlow # {}
       IN  tab' = [u \in Tab |->
               IF u = t THEN [OnPage EXCEPT !.pc = "login", !.met = crowd]
               ELSE IF u \in InFlow THEN [tab[u] EXCEPT !.met = TRUE] ELSE tab[u]]
    /\ discovery' = Awaited
    /\ UNCHANGED <<cookie, up, restarts>>

Awaiting == {t \in Tab : TabAt(t, "login") \/ (TabAt(t, "callback") /\ tab[t].sent # NoTransaction)}

\* Mutant: the rejected promise stays.
DiscoveryFailsForGood ==
    /\ discovery \in {"pending", "rejected"}
    /\ discovery = "pending" => ~up
    /\ discovery' = "rejected"
    /\ tab' = [t \in Tab |-> IF t \in Awaiting THEN FailedWith(tab[t], "provider") ELSE tab[t]]
    /\ cookie' = IF \E t \in Awaiting : TabAt(t, "callback") THEN NoTransaction ELSE cookie
    /\ UNCHANGED <<up, restarts>>

(* Everyone who awaits the promise fails with it; no one after them. *)
DiscoveryFails ==
    /\ discovery = "pending" /\ ~up
    /\ discovery' = "none"
    /\ tab' = [t \in Tab |-> IF t \in Awaiting THEN FailedWith(tab[t], "provider") ELSE tab[t]]
    /\ cookie' = IF \E t \in Awaiting : TabAt(t, "callback") THEN NoTransaction ELSE cookie
    /\ UNCHANGED <<up, restarts>>

DiscoverySucceeds ==
    /\ discovery = "pending" /\ up
    /\ discovery' = "ready"
    /\ UNCHANGED <<tab, cookie, up, restarts>>

(* oidcLoginController answers: the cookie, and the way to the provider. *)
Redirected(t) ==
    /\ TabAt(t, "login") /\ discovery = "ready"
    /\ cookie' = Random
    /\ TabBecomes(t, [tab[t] EXCEPT !.pc = "provider", !.txn = Random])
    /\ UNCHANGED <<discovery, up, restarts>>

\* Mutant: sameSite "strict", the redirect from the provider carries none.
AuthenticateStrict(t, granted) ==
    /\ TabAt(t, "provider")
    /\ TabBecomes(t, [tab[t] EXCEPT !.pc = "callback", !.sent = NoTransaction,
                           !.code = IF granted THEN "good" ELSE "denied"])
    /\ UNCHANGED <<cookie, discovery, up, restarts>>

\* A callback without a transaction has nothing to await.
CallbackSent == discovery' = IF cookie # NoTransaction THEN Awaited ELSE discovery

(* The provider sends the browser back, with the cookie of that moment. *)
Authenticate(t, granted) ==
    /\ TabAt(t, "provider")
    /\ TabBecomes(t, [tab[t] EXCEPT !.pc = "callback", !.sent = cookie,
                           !.code = IF granted THEN "good" ELSE "denied"])
    /\ CallbackSent
    /\ UNCHANGED <<cookie, up, restarts>>

(* The callback is sent again before it was answered; the first request    *)
(* may have used the code, and its answer is lost.                         *)
Reload(t, used) ==
    /\ TabAt(t, "callback") /\ ~tab[t].met
    /\ used => tab[t].code = "good"
    /\ TabBecomes(t, [tab[t] EXCEPT !.sent = cookie, !.met = TRUE,
                           !.code = IF used THEN "used" ELSE tab[t].code])
    /\ CallbackSent
    /\ UNCHANGED <<cookie, up, restarts>>

CallbackBegins(t) == TabAt(t, "callback") /\ (tab[t].sent = NoTransaction \/ discovery = "ready")

(* exchangeCode: state, nonce and verifier are those of the cookie.  The   *)
(* answer clears whatever cookie there is by now.                          *)
CallbackSucceeds(t) ==
    /\ CallbackBegins(t)
    /\ tab[t].sent = tab[t].txn /\ tab[t].code = "good" /\ up
    /\ cookie' = NoTransaction
    /\ TabBecomes(t, [OnPage EXCEPT !.pc = "app"])
    /\ UNCHANGED <<discovery, up, restarts>>

(* No transaction, another one, a code that is denied or used; or the      *)
(* provider does not answer; or SsoLoginError, once the code is used.      *)
CallbackFails(t, fate) ==
    /\ CallbackBegins(t)
    /\ CASE fate = "denied" -> tab[t].code = "denied"
         [] fate = "protocol" -> tab[t].sent # tab[t].txn \/ tab[t].code = "used"
         [] fate = "provider" -> tab[t].sent # NoTransaction /\ ~up
         [] OTHER -> tab[t].sent = tab[t].txn /\ tab[t].code = "good" /\ up
    /\ cookie' = NoTransaction
    /\ TabBecomes(t, FailedWith(tab[t], fate))
    /\ UNCHANGED <<discovery, up, restarts>>

(* Ten minutes are over. *)
CookieExpires ==
    /\ cookie' = NoTransaction
    /\ tab' = [t \in Tab |-> IF t \in InFlow THEN [tab[t] EXCEPT !.met = TRUE] ELSE tab[t]]
    /\ UNCHANGED <<discovery, up, restarts>>

(* The login page is opened again. *)
Again(t) ==
    /\ TabAt(t, "app") \/ TabAt(t, "failed")
    /\ TabBecomes(t, OnPage)
    /\ UNCHANGED <<cookie, discovery, up, restarts>>

(* The process ends, as idle instances do: what was in progress fails. *)
Restart ==
    /\ restarts < MaxRestarts
    /\ restarts' = restarts + 1
    /\ discovery' = "none"
    /\ tab' = [t \in Tab |-> IF TabAt(t, "login") \/ TabAt(t, "callback")
                               THEN FailedWith(tab[t], "provider") ELSE tab[t]]
    /\ UNCHANGED <<cookie, up>>

ProviderUpOrDown ==
    /\ up' = ~up
    /\ UNCHANGED <<tab, cookie, discovery, restarts>>

TabStep(t) ==
    \/ Press(t)
    \/ Redirected(t)
    \/ \E granted \in BOOLEAN : Authenticate(t, granted)
    \/ \E used \in BOOLEAN : Reload(t, used)
    \/ CallbackSucceeds(t)
    \/ \E fate \in {"denied", "protocol", "provider", "account"} : CallbackFails(t, fate)
    \/ Again(t)

OidcNext ==
    \/ \E t \in Tab : TabStep(t)
    \/ DiscoveryFails
    \/ DiscoverySucceeds
    \/ CookieExpires
    \/ Restart
    \/ ProviderUpOrDown

\* Discovery has a time limit, and an answer that is due is given.
OidcFairness ==
    /\ WF_oidcVars(DiscoverySucceeds \/ DiscoveryFails)
    /\ \A t \in Tab : WF_oidcVars(Redirected(t))

OidcSpec == OidcInit /\ [][OidcNext]_oidcVars /\ OidcFairness
-----------------------------------------------------------------------------
(* Properties *)

OidcTypeOK ==
    /\ tab \in [Tab -> TabState]
    /\ cookie \in Transaction \cup {NoTransaction}
    /\ discovery \in {"none", "pending", "ready"}
    /\ up \in BOOLEAN
    /\ restarts \in 0..MaxRestarts

(***************************************************************************)
(* The state, nonce and verifier of a sign-in survive until its callback,  *)
(* restarts of the process included: what makes one fail, but the person,  *)
(* the provider or the account, is another sign-in in the same browser,    *)
(* whose cookie replaces or whose answer clears its own, a reload, or ten  *)
(* minutes.                                                                *)
(***************************************************************************)
LoneSignInSucceeds == \A t \in Tab : tab[t].fate = "protocol" => tab[t].met

(***************************************************************************)
(* "A failed discovery is not cached so the next request retries"          *)
(* (oidcClient.ts:8-11): once the provider stays up, whoever keeps asking  *)
(* to sign in gets there, however often it has failed before.              *)
(***************************************************************************)
SignInRecovers ==
    \A t \in Tab : <>[]up /\ []<>TabAt(t, "login") => []<>TabAt(t, "provider")
=============================================================================
