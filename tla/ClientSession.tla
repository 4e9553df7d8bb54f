--------------------------- MODULE ClientSession ----------------------------
(***************************************************************************)
(* The session of one browser (frontend/lib/api.ts): two tokens and the    *)
(* signed-in user in localStorage, shared by all tabs and by all requests  *)
(* in flight.                                                              *)
(*                                                                         *)
(* apiFetch sends the access token it finds; after a 401 it sends the      *)
(* refresh token it then finds, stores the new tokens and tries once more. *)
(* The code between two answers of the network is one step, so a request   *)
(* goes on with what the storage holds when the answer comes, and not with *)
(* what it held when the request began.                                    *)
(*                                                                         *)
(* A refresh token is checked for its signature and age only               *)
(* (AuthService.refresh); a request's access token also for the status of  *)
(* its user (JwtStrategy.validate).                                        *)
(***************************************************************************)
CONSTANTS
  Users,   \* the accounts that sign in on this browser
  Tabs,    \* its tabs
  Calls,   \* the requests that may be in flight at one time; a bound
  None,
  Faults   \* "net": a request may end in anything but success or a 401;
           \* "busy": a good renewal may be answered with an error, such as
           \* the 429 of the rate limiter, which guards the route of
           \* renewals while a 401 comes before it;
           \* "lapse": a refresh token may reach its age limit

ASSUME SessionAssumption ==
  /\ None \notin Users \cup Tabs
  /\ Faults \subseteq {"net", "busy", "lapse"}

VARIABLES
  access, refresh, user,  \* the three keys of localStorage
  tab,        \* each tab: the login form, or a page of the application
  call,       \* each request
  suspended,  \* the users an administrator has suspended
  overlap,    \* ghost: a session began with requests of an earlier one in
              \* flight, or ended with a renewal in flight
  lapsed      \* ghost: a refresh token of this session got too old, or a
              \* renewal with a good one was answered with an error

storage == <<access, refresh, user>>
vars == <<access, refresh, user, tab, call, suspended, overlap, lapsed>>

\* A copy of a token.  Copies of one token may be refused from different
\* times on: what counts is the moment the server looks at them.
Token == [user: Users, live: BOOLEAN]
Fresh(u) == [user |-> u, live |-> TRUE]

Kind  == {"poll", "upload", "login"}
Phase == {"sent", "renew", "again", "failed"}

\* `who` is the stored user at the time the request was made (for a login, the
\* user who wants in); `token` the token last sent for it.
Call == [phase: Phase, kind: Kind, tab: Tabs, who: Users \cup {None},
         token: Token \cup {None}]

ASSUME CallAssumption == None \notin Token /\ None \notin Call

TypeOK ==
  /\ access \in Token \cup {None}
  /\ refresh \in Token \cup {None}
  /\ user \in Users \cup {None}
  /\ tab \in [Tabs -> {"login", "app"}]
  /\ call \in [Calls -> Call \cup {None}]
  /\ suspended \subseteq Users
  /\ overlap \in BOOLEAN
  /\ lapsed \in BOOLEAN

Init ==
  /\ access = None /\ refresh = None /\ user = None
  /\ tab = [t \in Tabs |-> "login"]
  /\ call = [c \in Calls |-> None]
  /\ suspended = {}
  /\ overlap = FALSE
  /\ lapsed = FALSE

In(c, phases) == call[c] # None /\ call[c].phase \in phases

-----------------------------------------------------------------------------
(* setSession and clearSession.                                            *)

Begins(others) ==
  /\ overlap' = (\E c \in others : call[c] # None)
  /\ lapsed' = FALSE

\* A setSession that leaves the user of the session before.
SetSessionKeepsUser(u, others) ==
  /\ access' = Fresh(u)
  /\ refresh' = Fresh(u)
  /\ Begins(others)
  /\ UNCHANGED user

SetSession(u, others) ==
  /\ access' = Fresh(u)
  /\ refresh' = Fresh(u)
  /\ user' = u
  /\ Begins(others)

\* A clearSession that leaves the refresh token.
ClearKeepsRefresh(others) ==
  /\ access' = None
  /\ user' = None
  /\ overlap' = (overlap \/ \E c \in others : In(c, {"renew"}))
  /\ UNCHANGED <<refresh, lapsed>>

ClearSession(others) ==
  /\ access' = None
  /\ refresh' = None
  /\ user' = None
  /\ overlap' = (overlap \/ \E c \in others : In(c, {"renew"}))
  /\ UNCHANGED lapsed

-----------------------------------------------------------------------------
(* Tabs.                                                                   *)

Begin(c, t, kind, who) ==
  /\ call[c] = None
  /\ call' = [call EXCEPT ![c] =
       [phase |-> "sent", kind |-> kind, tab |-> t, who |-> who,
        token |-> access]]
  /\ UNCHANGED <<storage, tab, suspended, overlap, lapsed>>

\* The interval of a page, signed in or not.
Poll(c, t) == tab[t] = "app" /\ Begin(c, t, "poll", user)

\* The form of a tab is disabled while its request is under way.
Idle(t, kind) ==
  \A c \in Calls : call[c] # None => call[c].tab # t \/ call[c].kind # kind

Upload(c, t) ==
  tab[t] = "app" /\ Idle(t, "upload") /\ Begin(c, t, "upload", user)

\* Login or registration; it carries a token if one is stored.
Login(c, t, u) ==
  tab[t] = "login" /\ Idle(t, "login") /\ Begin(c, t, "login", u)

\* The pages of the application open only with an access token.
Open(t) ==
  /\ tab[t] = "login" /\ access # None
  /\ tab' = [tab EXCEPT ![t] = "app"]
  /\ UNCHANGED <<storage, call, suspended, overlap, lapsed>>

\* Back to the login form without signing out.
Leave(t) ==
  /\ tab[t] = "app"
  /\ tab' = [tab EXCEPT ![t] = "login"]
  /\ UNCHANGED <<storage, call, suspended, overlap, lapsed>>

SignOut(t) ==
  /\ tab[t] = "app"
  /\ ClearSession(Calls)
  /\ tab' = [tab EXCEPT ![t] = "login"]
  /\ UNCHANGED <<call, suspended>>

-----------------------------------------------------------------------------
(* Requests.                                                               *)

Accepted(r) ==
  IF r.kind = "login" THEN r.who \notin suspended
  ELSE r.token # None /\ r.token.live /\ r.token.user \notin suspended

\* A login is also refused for its password.
Refusable(r) == r.kind = "login" \/ ~Accepted(r)

Becomes(c, phase, token) ==
  call' = [call EXCEPT ![c].phase = phase, ![c].token = token]

Ended(c) == call' = [call EXCEPT ![c] = None]

Served(c) ==
  /\ In(c, {"sent", "again"}) /\ Accepted(call[c])
  /\ Ended(c)
  /\ \/ /\ call[c].kind = "login"
        /\ SetSession(call[c].who, Calls \ {c})
        /\ tab' = [tab EXCEPT ![call[c].tab] = "app"]
     \/ /\ call[c].kind # "login"
        /\ UNCHANGED <<storage, tab, overlap, lapsed>>
  /\ UNCHANGED suspended

\* A 401: on to the refresh token, if the request had a token and there is
\* a refresh token now.
Denied(c) ==
  /\ In(c, {"sent"}) /\ Refusable(call[c])
  /\ IF call[c].token # None /\ refresh # None
       THEN Becomes(c, "renew", refresh)
       ELSE Becomes(c, "failed", None)
  /\ UNCHANGED <<storage, tab, suspended, overlap, lapsed>>

\* A server that takes a refresh token only once.
RenewedRotates(c) ==
  /\ In(c, {"renew"}) /\ call[c].token.live
  /\ access' = Fresh(call[c].token.user)
  /\ refresh' = Fresh(call[c].token.user)
  /\ call' = [d \in Calls |->
       IF d = c THEN [call[c] EXCEPT !.phase = "again", !.token = access']
       ELSE IF In(d, {"renew"}) /\ call[d].token = call[c].token
              THEN [call[d] EXCEPT !.token.live = FALSE]
              ELSE call[d]]
  /\ UNCHANGED <<user, tab, suspended, overlap, lapsed>>

\* A refresh that signs tokens without their subject.
RenewedForNobody(c) ==
  /\ In(c, {"renew"}) /\ call[c].token.live
  /\ access' = Fresh(None)
  /\ refresh' = Fresh(None)
  /\ Becomes(c, "again", access')
  /\ UNCHANGED <<user, tab, suspended, overlap, lapsed>>

\* The new tokens are stored whatever the storage holds by now.
Renewed(c) ==
  /\ In(c, {"renew"}) /\ call[c].token.live
  /\ access' = Fresh(call[c].token.user)
  /\ refresh' = Fresh(call[c].token.user)
  /\ Becomes(c, "again", access')
  /\ UNCHANGED <<user, tab, suspended, overlap, lapsed>>

\* Any answer but a success leaves the first 401 as the result of the request.
NotRenewed(c) ==
  /\ In(c, {"renew"})
  /\ \/ ~call[c].token.live /\ UNCHANGED lapsed
     \/ "busy" \in Faults /\ lapsed' = TRUE
  /\ Becomes(c, "failed", None)
  /\ UNCHANGED <<storage, tab, suspended, overlap>>

DeniedAgain(c) ==
  /\ In(c, {"again"}) /\ Refusable(call[c])
  /\ Becomes(c, "failed", None)
  /\ UNCHANGED <<storage, tab, suspended, overlap, lapsed>>

\* The caller handles the 401: a poll ends the session, whosever it is now,
\* and goes to the login form, even if its page is gone; the others only
\* show a message.
Handle(c) ==
  /\ In(c, {"failed"})
  /\ Ended(c)
  /\ \/ /\ call[c].kind = "poll"
        /\ ClearSession(Calls \ {c})
        /\ tab' = [tab EXCEPT ![call[c].tab] = "login"]
     \/ /\ call[c].kind # "poll"
        /\ UNCHANGED <<storage, tab, overlap, lapsed>>
  /\ UNCHANGED suspended

Fails(c) ==
  /\ "net" \in Faults
  /\ In(c, {"sent", "renew", "again"})
  /\ Ended(c)
  /\ UNCHANGED <<storage, tab, suspended, overlap, lapsed>>

-----------------------------------------------------------------------------
(* Time and the administrator.                                             *)

\* An access token gets too old, in the storage or under way; not between a
\* renewal and the retry it is for, which takes no minutes.
AccessExpires ==
  /\ \/ /\ access # None /\ access.live
        /\ access' = [access EXCEPT !.live = FALSE]
        /\ UNCHANGED call
     \/ \E c \in Calls :
          /\ In(c, {"sent"}) /\ call[c].token # None /\ call[c].token.live
          /\ call' = [call EXCEPT ![c].token.live = FALSE]
          /\ UNCHANGED access
  /\ UNCHANGED <<refresh, user, tab, suspended, overlap, lapsed>>

RefreshExpires ==
  /\ "lapse" \in Faults
  /\ \/ /\ refresh # None /\ refresh.live
        /\ refresh' = [refresh EXCEPT !.live = FALSE]
        /\ UNCHANGED call
     \/ \E c \in Calls :
          /\ In(c, {"renew"}) /\ call[c].token.live
          /\ call' = [call EXCEPT ![c].token.live = FALSE]
          /\ UNCHANGED refresh
  /\ lapsed' = TRUE
  /\ UNCHANGED <<access, user, tab, suspended, overlap>>

Suspend(u) ==
  /\ u \notin suspended
  /\ suspended' = suspended \cup {u}
  /\ UNCHANGED <<storage, tab, call, overlap, lapsed>>

-----------------------------------------------------------------------------
Goes(c) ==
  \/ Served(c) \/ Denied(c) \/ Renewed(c) \/ NotRenewed(c) \/ DeniedAgain(c)
  \/ Handle(c)

Next ==
  \/ \E t \in Tabs : Open(t) \/ Leave(t) \/ SignOut(t)
  \/ \E c \in Calls, t \in Tabs :
       Poll(c, t) \/ Upload(c, t) \/ \E u \in Users : Login(c, t, u)
  \/ \E c \in Calls : Goes(c) \/ Fails(c)
  \/ AccessExpires \/ RefreshExpires \/ \E u \in Users : Suspend(u)

Spec == Init /\ [][Next]_vars

-----------------------------------------------------------------------------
Holders == {user} \cup {k.user : k \in {access, refresh} \ {None}}

\* The three keys (lines 51-59, 72-73) are of one user or all absent, unless
\* sessions overlapped: a renewal that outlives its session writes two of
\* them.
SessionIsWhole ==
  overlap \/ storage = <<None, None, None>>
          \/ /\ access # None /\ refresh # None
             /\ Holders = {user}

\* A request of a page is made with a token of the stored user, and a retry
\* with renewed tokens (lines 93-98) is made as that same user, unless sessions
\* overlapped.
RequestsKeepTheirUser ==
  overlap \/ \A c \in Calls :
    call[c] # None /\ call[c].kind # "login" /\ call[c].token # None =>
      call[c].token.user = call[c].who

\* However many expired requests renew the session at the same time, none of
\* them ends it: only the user does, or the account's suspension, or the age
\* of a refresh token, or a renewal that the server could not serve (line 70),
\* unless sessions overlapped.
OnlyTheUserSignsOut ==
  [][user # None /\ user' = None =>
       \/ \E t \in Tabs : SignOut(t)
       \/ user \in suspended \/ lapsed \/ overlap]_vars
=============================================================================
