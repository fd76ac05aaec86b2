-------------------------------- MODULE Forms -------------------------------
(***************************************************************************)
(* The token that a browser must send twice with a form, in its cookie and *)
(* in the form (auth/csrf.py, the middleware of web/app.py), with several  *)
(* tabs whose responses arrive in any order.  Requests are answered as     *)
(* they are sent; the responses travel.                                    *)
(***************************************************************************)
EXTENDS Naturals

CONSTANTS
    Tabs,           \* of one browser
    MaxSent,        \* bound on requests
    MaxExpired,     \* bound on the times the cookie is lost
    None

ASSUME NoneAssumption == None \notin Nat \union {"accepted", "refused"}
ASSUME BoundsAssumption == {MaxSent, MaxExpired} \subseteq Nat

VARIABLES
    cookie,         \* the browser's
    minted,         \* tokens made so far
    tab,            \* what each tab is at: blank, loading, form, posting
    form,           \* the token in the tab's form
    pending,        \* the token that the response under way sets
    verdict,        \* on the form sent last
    sent, expired,  \* counters, for the bounds
    sound           \* tabs whose page was asked for when all agreed on the token, and do since

vars == <<cookie, minted, tab, form, pending, verdict, sent, expired, sound>>

Tokens == 1 .. MaxSent

TypeOK ==
    /\ cookie \in Tokens \union {None} /\ minted \in 0 .. MaxSent
    /\ tab \in [Tabs -> {"blank", "loading", "form", "posting"}]
    /\ form \in [Tabs -> Tokens \union {None}] /\ pending \in [Tabs -> Tokens \union {None}]
    /\ verdict \in [Tabs -> {"accepted", "refused", None}]
    /\ sent \in 0 .. MaxSent /\ expired \in 0 .. MaxExpired
    /\ sound \subseteq Tabs

Init ==
    /\ cookie = None /\ minted = 0
    /\ tab = [t \in Tabs |-> "blank"]
    /\ form = [t \in Tabs |-> None] /\ pending = [t \in Tabs |-> None]
    /\ verdict = [t \in Tabs |-> None]
    /\ sent = 0 /\ expired = 0 /\ sound = {}
-----------------------------------------------------------------------------
Fresh == minted + 1

\* Mutant of TokenForRequest: every page gets a token of its own.
TokenPerPage == Fresh

\* The cookie's token, or a new one.
TokenForRequest == IF cookie = None THEN Fresh ELSE cookie

\* Whose response under way will set another token than t's.
Others(t) ==
    {u \in Tabs \ {t} : tab[u] \in {"loading", "posting"} /\ pending[u] # TokenForRequest}

\* attach_user: the response will set the token.
Send(t, next) ==
    /\ sent < MaxSent /\ sent' = sent + 1
    /\ pending' = [pending EXCEPT ![t] = TokenForRequest]
    /\ minted' = IF TokenForRequest = Fresh THEN Fresh ELSE minted
    /\ tab' = [tab EXCEPT ![t] = next]

\* A page with a form is asked for.
Get(t) ==
    /\ tab[t] \in {"blank", "form"}
    /\ Send(t, "loading")
    /\ sound' = IF Others(t) = {} THEN sound \union {t} ELSE sound \ (IF cookie = None THEN Tabs ELSE {t})
    /\ verdict' = [verdict EXCEPT ![t] = None]
    /\ UNCHANGED <<cookie, form, expired>>

Arrive(t, next) ==
    /\ cookie' = pending[t]
    /\ tab' = [tab EXCEPT ![t] = next]
    /\ UNCHANGED <<minted, pending, verdict, sent, expired, sound>>

\* The form of a page holds the same token.
Loaded(t) == tab[t] = "loading" /\ Arrive(t, "form") /\ form' = [form EXCEPT ![t] = pending[t]]

\* csrf_protect: without a cookie the form's token meets the one just made.
CsrfProtect(t) == IF cookie # None /\ cookie = form[t] THEN "accepted" ELSE "refused"

Post(t) ==
    /\ tab[t] = "form"
    /\ Send(t, "posting")
    /\ verdict' = [verdict EXCEPT ![t] = CsrfProtect(t)]
    /\ sound' = IF cookie = None /\ Others(t) # {} THEN {} ELSE sound
    /\ UNCHANGED <<cookie, form, expired>>

\* A redirection, or the error page.
Answered(t) == tab[t] = "posting" /\ Arrive(t, "blank") /\ UNCHANGED form

\* The browser drops the cookie, session_days after the last response.
Expire ==
    /\ cookie # None /\ expired < MaxExpired
    /\ cookie' = None /\ expired' = expired + 1
    /\ sound' = {}
    /\ UNCHANGED <<minted, tab, form, pending, verdict, sent>>

Next ==
    \/ \E t \in Tabs : Get(t) \/ Loaded(t) \/ Post(t) \/ Answered(t)
    \/ Expire

Spec == Init /\ [][Next]_vars
-----------------------------------------------------------------------------
(***************************************************************************)
(* Property.                                                               *)
(***************************************************************************)
\* A reader's form is accepted from whatever tab, however many pages are open
\* and in whatever order they came, unless the cookie was lost since the page
\* was asked for or its request met another that had no cookie, as the first
\* two pages of a visitor may when they are opened at once.
FormsAreAccepted == \A t \in Tabs : verdict[t] = "refused" => t \notin sound
=============================================================================
