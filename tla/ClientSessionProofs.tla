------------------------ MODULE ClientSessionProofs -------------------------
(***************************************************************************)
(* For any users, tabs, requests and faults: as long as no request or      *)
(* renewal has outlived its session, the stored session is in one piece,   *)
(* requests keep their user, and no poll ends a good session.              *)
(*                                                                         *)
(* What makes this inductive is that without an overlap a request with a   *)
(* token belongs to the stored user, or to the one who has just signed     *)
(* out; a renewal always to the stored user.                               *)
(***************************************************************************)
EXTENDS ClientSession, TLAPS

\* What the phase of a request says of its token.
Formed(c) ==
  call[c] # None =>
    /\ call[c].kind = "login" => call[c].who \in Users
    /\ call[c].phase \in {"renew", "again"} => call[c].token # None
    /\ call[c].phase = "again" => call[c].token.live

Whole ==
  \/ storage = <<None, None, None>>
  \/ /\ user # None /\ access # None /\ refresh # None
     /\ access.user = user /\ refresh.user = user

\* A renewal is for the stored user, and fails only if that is noted.
Renewing(c) ==
  call[c].phase = "renew" =>
    /\ user # None /\ call[c].token.user = user
    /\ call[c].token.live \/ lapsed

\* A request of a page.
OfPage(c) ==
  call[c].kind # "login" =>
    /\ call[c].token # None =>
         call[c].token.user = call[c].who /\ user \in {None, call[c].who}
    /\ user # None /\ call[c].phase # "failed" => call[c].token # None
    /\ user # None /\ call[c].phase = "failed" /\ call[c].kind = "poll" =>
         user \in suspended \/ lapsed

InOrder ==
  /\ Whole
  /\ refresh # None => refresh.live \/ lapsed
  /\ \A c \in Calls : call[c] # None => Renewing(c) /\ OfPage(c)

SessionInv ==
  /\ TypeOK
  /\ \A c \in Calls : Formed(c)
  /\ overlap \/ InOrder

-----------------------------------------------------------------------------
LEMMA FreshToken == \A u \in Users : Fresh(u) \in Token /\ Fresh(u) # None
<1> TAKE u \in Users
<1>1. Fresh(u) \in Token
  BY DEF Fresh, Token
<1> QED
  BY <1>1, CallAssumption

\* A request that goes on keeps its kind and its user.
LEMMA GoesOnAs ==
  ASSUME TypeOK, NEW c \in Calls, call[c] # None,
         NEW phase \in Phase, NEW token \in Token \cup {None},
         Becomes(c, phase, token)
  PROVE  /\ call' \in [Calls -> Call \cup {None}]
         /\ call'[c] # None
         /\ call'[c].phase = phase /\ call'[c].token = token
         /\ call'[c].kind = call[c].kind /\ call'[c].who = call[c].who
         /\ \A d \in Calls : d # c => call'[d] = call[d]
<1> DEFINE new == [call[c] EXCEPT !.phase = phase, !.token = token]
<1>1. call[c] \in Call
  BY DEF TypeOK
<1>2. new \in Call
  BY <1>1 DEF Call
<1>3. new # None
  BY <1>2, CallAssumption
<1>4. call' = [call EXCEPT ![c] = new]
  BY DEF Becomes, TypeOK
<1>5. /\ new.phase = phase /\ new.token = token
      /\ new.kind = call[c].kind /\ new.who = call[c].who
  BY <1>1 DEF Call
<1> HIDE DEF new
<1> QED
  BY <1>2, <1>3, <1>4, <1>5 DEF TypeOK

\* What a request knows when it is made: the stored user, and his token.
LEMMA BeginStep ==
  ASSUME SessionInv, NEW c \in Calls, NEW t \in Tabs,
         NEW kind \in Kind, NEW who \in Users \cup {None},
         Begin(c, t, kind, who),
         kind = "login" => who \in Users,
         kind # "login" => who = user
  PROVE  SessionInv'
<1> DEFINE new == [phase |-> "sent", kind |-> kind, tab |-> t, who |-> who,
                   token |-> access]
<1> USE DEF SessionInv, TypeOK
<1>1. new \in Call
  BY DEF Call, Phase
<1>2. new # None
  BY <1>1, CallAssumption
<1>3. /\ call' = [call EXCEPT ![c] = new]
      /\ UNCHANGED <<access, refresh, user, tab, suspended, overlap, lapsed>>
  BY DEF Begin, storage
<1>4. /\ new.phase = "sent" /\ new.kind = kind
      /\ new.who = who /\ new.token = access
  OBVIOUS
<1> HIDE DEF new
<1>5. TypeOK'
  BY <1>1, <1>3
<1>6. ASSUME NEW d \in Calls PROVE Formed(d)'
  BY <1>3, <1>4, <1>6 DEF Formed
<1>7. ASSUME InOrder PROVE InOrder'
  <2>1. Whole'
    BY <1>3, <1>7 DEF InOrder, Whole, storage
  <2>2. ASSUME NEW d \in Calls, call'[d] # None
        PROVE  Renewing(d)' /\ OfPage(d)'
    <3>1. CASE d = c
      BY <1>3, <1>4, <1>7, <3>1
         DEF InOrder, Whole, storage, Renewing, OfPage
    <3>2. CASE d # c
      BY <1>3, <1>7, <2>2, <3>2 DEF InOrder, Renewing, OfPage
    <3> QED
      BY <3>1, <3>2
  <2> QED
    BY <1>3, <1>7, <2>1, <2>2 DEF InOrder
<1> QED
  BY <1>3, <1>5, <1>6, <1>7

\* A request that ends: the others are as they were.
LEMMA EndedStep ==
  ASSUME TypeOK, NEW c \in Calls, Ended(c)
  PROVE  /\ call' \in [Calls -> Call \cup {None}]
         /\ call'[c] = None
         /\ \A d \in Calls : d # c => call'[d] = call[d]
BY DEF TypeOK, Ended

\* A sign-out, by the user or by a poll: a renewal left behind is an overlap.
LEMMA ClearStep ==
  ASSUME SessionInv, NEW left \in SUBSET Calls,
         ClearSession(left), UNCHANGED suspended,
         tab' \in [Tabs -> {"login", "app"}],
         call' \in [Calls -> Call \cup {None}],
         \A d \in Calls : call'[d] = IF d \in left THEN call[d] ELSE None
  PROVE  SessionInv'
<1> USE DEF SessionInv, TypeOK, ClearSession
<1>1. TypeOK'
  OBVIOUS
<1>2. ASSUME NEW d \in Calls PROVE Formed(d)'
  BY DEF Formed
<1>3. ASSUME ~overlap' PROVE InOrder'
  <2>1. ASSUME NEW d \in Calls, call'[d] # None
        PROVE  Renewing(d)' /\ OfPage(d)'
    BY <1>3, <2>1 DEF InOrder, Renewing, OfPage, In
  <2> QED
    BY <2>1 DEF InOrder, Whole, storage
<1> QED
  BY <1>1, <1>2, <1>3

\* A sign-in: a request left behind is an overlap.
LEMMA SignInStep ==
  ASSUME SessionInv, NEW c \in Calls, NEW u \in Users,
         SetSession(u, Calls \ {c}), Ended(c), UNCHANGED suspended,
         tab' \in [Tabs -> {"login", "app"}]
  PROVE  SessionInv'
<1> USE DEF SessionInv
<1>1. /\ call' \in [Calls -> Call \cup {None}] /\ call'[c] = None
      /\ \A d \in Calls : d # c => call'[d] = call[d]
  BY EndedStep
<1>2. access' = Fresh(u) /\ refresh' = Fresh(u) /\ user' = u
  BY DEF SetSession
<1>3. TypeOK'
  BY <1>1, <1>2, FreshToken DEF TypeOK, SetSession, Begins
<1>4. ASSUME NEW d \in Calls PROVE Formed(d)'
  BY <1>1 DEF Formed
<1>5. ASSUME ~overlap' PROVE InOrder'
  <2>1. \A d \in Calls : call'[d] = None
    BY <1>1, <1>5 DEF SetSession, Begins
  <2>2. u # None
    BY SessionAssumption
  <2>3. Fresh(u).user = u /\ Fresh(u).live
    BY DEF Fresh
  <2> QED
    BY <1>2, <2>1, <2>2, <2>3, FreshToken DEF InOrder, Whole
<1> QED
  BY <1>3, <1>4, <1>5

\* A first 401: a page's request renews with the token of its own user.
LEMMA DeniedStep ==
  ASSUME SessionInv, NEW c \in Calls, Denied(c)
  PROVE  SessionInv'
<1> USE DEF SessionInv, TypeOK
<1>1. /\ call[c] # None /\ call[c].phase = "sent"
      /\ UNCHANGED <<access, refresh, user, tab, suspended, overlap, lapsed>>
  BY DEF Denied, In, storage
<1>2. CASE call[c].token # None /\ refresh # None
  <2>1. Becomes(c, "renew", refresh)
    BY <1>2 DEF Denied
  <2>2. /\ call' \in [Calls -> Call \cup {None}] /\ call'[c] # None
        /\ call'[c].phase = "renew" /\ call'[c].token = refresh
        /\ call'[c].kind = call[c].kind /\ call'[c].who = call[c].who
        /\ \A d \in Calls : d # c => call'[d] = call[d]
    BY <1>1, <2>1, GoesOnAs DEF Phase
  <2>3. ASSUME NEW d \in Calls PROVE Formed(d)'
    BY <1>1, <1>2, <2>2 DEF Formed
  <2>4. ASSUME InOrder PROVE InOrder'
    <3>1. ASSUME NEW d \in Calls, call'[d] # None
          PROVE  Renewing(d)' /\ OfPage(d)'
      <4>1. CASE d = c
        BY <1>1, <1>2, <2>2, <2>4, <4>1
           DEF InOrder, Whole, storage, Renewing, OfPage
      <4>2. CASE d # c
        BY <1>1, <2>2, <2>4, <3>1, <4>2 DEF InOrder, Renewing, OfPage
      <4> QED
        BY <4>1, <4>2
    <3> QED
      BY <1>1, <2>4, <3>1 DEF InOrder, Whole, storage
  <2> QED
    BY <1>1, <2>2, <2>3, <2>4
<1>3. CASE ~(call[c].token # None /\ refresh # None)
  <2>1. Becomes(c, "failed", None)
    BY <1>3 DEF Denied
  <2>2. /\ call' \in [Calls -> Call \cup {None}] /\ call'[c] # None
        /\ call'[c].phase = "failed" /\ call'[c].token = None
        /\ call'[c].kind = call[c].kind /\ call'[c].who = call[c].who
        /\ \A d \in Calls : d # c => call'[d] = call[d]
    BY <1>1, <2>1, GoesOnAs DEF Phase
  <2>3. ASSUME NEW d \in Calls PROVE Formed(d)'
    BY <1>1, <2>2 DEF Formed
  <2>4. ASSUME InOrder PROVE InOrder'
    <3>1. ASSUME NEW d \in Calls, call'[d] # None
          PROVE  Renewing(d)' /\ OfPage(d)'
      <4>1. CASE d = c
        BY <1>1, <1>3, <2>2, <2>4, <4>1
           DEF InOrder, Whole, storage, Renewing, OfPage
      <4>2. CASE d # c
        BY <1>1, <2>2, <2>4, <3>1, <4>2 DEF InOrder, Renewing, OfPage
      <4> QED
        BY <4>1, <4>2
    <3> QED
      BY <1>1, <2>4, <3>1 DEF InOrder, Whole, storage
  <2> QED
    BY <1>1, <2>2, <2>3, <2>4
<1> QED
  BY <1>2, <1>3

\* New tokens: without an overlap they are of the user who is stored.
LEMMA RenewedStep ==
  ASSUME SessionInv, NEW c \in Calls, Renewed(c)
  PROVE  SessionInv'
<1> USE DEF SessionInv
<1> DEFINE u == call[c].token.user
<1>1. /\ call[c] # None /\ call[c].phase = "renew" /\ call[c].token # None
      /\ call[c].token.live
      /\ access' = Fresh(u) /\ refresh' = Fresh(u)
      /\ UNCHANGED <<user, tab, suspended, overlap, lapsed>>
  BY DEF Renewed, In, Formed
<1>2. u \in Users /\ Fresh(u) \in Token /\ Fresh(u) # None
  BY <1>1, FreshToken DEF TypeOK, Call, Token
<1>3. /\ call' \in [Calls -> Call \cup {None}] /\ call'[c] # None
      /\ call'[c].phase = "again" /\ call'[c].token = Fresh(u)
      /\ call'[c].kind = call[c].kind /\ call'[c].who = call[c].who
      /\ \A d \in Calls : d # c => call'[d] = call[d]
  BY <1>1, <1>2, GoesOnAs DEF Renewed, Phase
<1>4. TypeOK'
  BY <1>1, <1>2, <1>3 DEF TypeOK
<1>5. Fresh(u).user = u /\ Fresh(u).live
  BY DEF Fresh
<1>6. ASSUME NEW d \in Calls PROVE Formed(d)'
  BY <1>1, <1>2, <1>3, <1>5 DEF Formed
<1>7. ASSUME InOrder PROVE InOrder'
  <2>1. user # None /\ u = user
    BY <1>1, <1>7 DEF InOrder, Renewing
  <2>2. Whole'
    BY <1>1, <1>2, <1>5, <2>1 DEF Whole
  <2>3. ASSUME NEW d \in Calls, call'[d] # None
        PROVE  Renewing(d)' /\ OfPage(d)'
    <3>1. CASE d = c
      BY <1>1, <1>2, <1>3, <1>5, <1>7, <2>1, <3>1
         DEF InOrder, Renewing, OfPage
    <3>2. CASE d # c
      BY <1>1, <1>3, <1>7, <2>3, <3>2 DEF InOrder, Renewing, OfPage
    <3> QED
      BY <3>1, <3>2
  <2> QED
    BY <1>1, <1>5, <2>2, <2>3 DEF InOrder
<1> QED
  BY <1>1, <1>4, <1>6, <1>7

\* A request that is given up: because its user is suspended or his session
\* is over, or because a renewal failed.
LEMMA FailedStep ==
  ASSUME SessionInv, NEW c \in Calls, NotRenewed(c) \/ DeniedAgain(c)
  PROVE  SessionInv'
<1> USE DEF SessionInv, TypeOK
<1>1. /\ call[c] # None /\ call[c].phase \in {"renew", "again"}
      /\ Becomes(c, "failed", None)
      /\ UNCHANGED <<access, refresh, user, tab, suspended, overlap>>
      /\ lapsed' = lapsed \/ lapsed' = TRUE
  BY DEF NotRenewed, DeniedAgain, In, storage
<1>2. /\ call' \in [Calls -> Call \cup {None}] /\ call'[c] # None
      /\ call'[c].phase = "failed" /\ call'[c].token = None
      /\ call'[c].kind = call[c].kind /\ call'[c].who = call[c].who
      /\ \A d \in Calls : d # c => call'[d] = call[d]
  BY <1>1, GoesOnAs DEF Phase
<1>3. ASSUME NEW d \in Calls PROVE Formed(d)'
  BY <1>1, <1>2 DEF Formed
<1>4. ASSUME InOrder PROVE InOrder'
  <2>1. ASSUME user # None, call[c].kind = "poll"
        PROVE  user \in suspended \/ lapsed'
    <3>1. CASE NotRenewed(c)
      BY <1>1, <1>4, <3>1 DEF NotRenewed, In, InOrder, Renewing
    <3>2. CASE DeniedAgain(c)
      <4>1. call[c].phase = "again" /\ ~Accepted(call[c])
        BY <2>1, <3>2 DEF DeniedAgain, In, Refusable
      <4>2. call[c].token # None /\ call[c].token.live
        BY <1>1, <4>1 DEF Formed
      <4>3. call[c].token.user \in suspended
        BY <2>1, <4>1, <4>2 DEF Accepted
      <4> QED
        BY <1>1, <1>4, <2>1, <4>2, <4>3 DEF InOrder, OfPage
    <3> QED
      BY <3>1, <3>2
  <2>2. ASSUME NEW d \in Calls, call'[d] # None
        PROVE  Renewing(d)' /\ OfPage(d)'
    <3>1. CASE d = c
      BY <1>1, <1>2, <2>1, <3>1 DEF Renewing, OfPage
    <3>2. CASE d # c
      BY <1>1, <1>2, <1>4, <2>2, <3>2 DEF InOrder, Renewing, OfPage
    <3> QED
      BY <3>1, <3>2
  <2> QED
    BY <1>1, <1>4, <2>2 DEF InOrder, Whole, storage
<1> QED
  BY <1>1, <1>2, <1>3, <1>4

\* A request that ends and leaves the session as it is.
LEMMA QuietStep ==
  ASSUME SessionInv, NEW c \in Calls, Ended(c),
         UNCHANGED <<storage, tab, suspended, overlap, lapsed>>
  PROVE  SessionInv'
<1> USE DEF SessionInv, storage
<1>1. /\ call' \in [Calls -> Call \cup {None}] /\ call'[c] = None
      /\ \A d \in Calls : d # c => call'[d] = call[d]
  BY EndedStep
<1>2. TypeOK'
  BY <1>1 DEF TypeOK
<1>3. ASSUME NEW d \in Calls PROVE Formed(d)'
  BY <1>1 DEF Formed
<1>4. ASSUME InOrder PROVE InOrder'
  <2>1. ASSUME NEW d \in Calls, call'[d] # None
        PROVE  Renewing(d)' /\ OfPage(d)'
    BY <1>1, <1>4, <2>1 DEF InOrder, Renewing, OfPage
  <2> QED
    BY <1>4, <2>1 DEF InOrder, Whole
<1> QED
  BY <1>2, <1>3, <1>4

\* The end of a request that was let in, or was denied for good.
LEMMA LastStep ==
  ASSUME SessionInv, NEW c \in Calls, Served(c) \/ Handle(c) \/ Fails(c)
  PROVE  SessionInv'
<1>1. Ended(c) /\ call[c] # None /\ UNCHANGED suspended
  BY DEF Served, Handle, Fails, In
<1>2. call[c].tab \in Tabs /\ tab \in [Tabs -> {"login", "app"}]
  BY <1>1 DEF SessionInv, TypeOK, Call
<1>3. CASE Served(c) /\ call[c].kind = "login"
  <2>1. call[c].who \in Users
    BY <1>1, <1>3 DEF SessionInv, Formed
  <2>2. SetSession(call[c].who, Calls \ {c})
    BY <1>3 DEF Served
  <2>3. tab' \in [Tabs -> {"login", "app"}]
    BY <1>2, <1>3 DEF Served
  <2> QED
    BY <1>1, <2>1, <2>2, <2>3, SignInStep
<1>4. CASE Handle(c) /\ call[c].kind = "poll"
  <2>1. ClearSession(Calls \ {c}) /\ tab' \in [Tabs -> {"login", "app"}]
    BY <1>2, <1>4 DEF Handle
  <2>2. /\ call' \in [Calls -> Call \cup {None}]
        /\ \A d \in Calls :
             call'[d] = IF d \in Calls \ {c} THEN call[d] ELSE None
    BY <1>1, EndedStep DEF SessionInv
  <2> QED
    BY <1>1, <2>1, <2>2, ClearStep
<1>5. CASE UNCHANGED <<storage, tab, overlap, lapsed>>
  BY <1>1, <1>5, QuietStep
<1> QED
  BY <1>3, <1>4, <1>5 DEF Served, Handle, Fails

\* A token that gets too old: a renewal notices nothing but a refresh token.
LEMMA ExpiryStep ==
  ASSUME SessionInv, AccessExpires \/ RefreshExpires
  PROVE  SessionInv'
<1> USE DEF SessionInv
<1>t. ASSUME NEW k \in Token
      PROVE  /\ [k EXCEPT !.live = FALSE] \in Token
             /\ [k EXCEPT !.live = FALSE] # None
             /\ [k EXCEPT !.live = FALSE].user = k.user
  <2>1. [k EXCEPT !.live = FALSE] \in Token
    BY DEF Token
  <2> QED
    BY <2>1, CallAssumption DEF Token
<1>1. CASE call' = call
  <2>1. /\ TypeOK' /\ UNCHANGED <<user, suspended, overlap>>
        /\ access' # None <=> access # None
        /\ refresh' # None <=> refresh # None
        /\ access # None => access'.user = access.user
        /\ refresh # None => refresh'.user = refresh.user
        /\ \/ refresh' = refresh /\ lapsed' = lapsed
           \/ lapsed' = TRUE
    <3>1. CASE AccessExpires
      <4>1. \/ access' = access
            \/ access # None /\ access' = [access EXCEPT !.live = FALSE]
        BY <3>1 DEF AccessExpires
      <4> QED
        BY <1>1, <1>t, <3>1, <4>1 DEF AccessExpires, TypeOK
    <3>2. CASE RefreshExpires
      <4>1. \/ refresh' = refresh
            \/ refresh # None /\ refresh' = [refresh EXCEPT !.live = FALSE]
        BY <3>2 DEF RefreshExpires
      <4> QED
        BY <1>1, <1>t, <3>2, <4>1 DEF RefreshExpires, TypeOK
    <3> QED
      BY <3>1, <3>2
  <2>2. ASSUME NEW d \in Calls PROVE Formed(d)'
    BY <1>1 DEF Formed
  <2>3. ASSUME InOrder PROVE InOrder'
    <3>1. Whole'
      BY <2>1, <2>3 DEF InOrder, Whole, storage
    <3>2. ASSUME NEW d \in Calls, call'[d] # None
          PROVE  Renewing(d)' /\ OfPage(d)'
      BY <1>1, <2>1, <2>3, <3>2 DEF InOrder, Renewing, OfPage
    <3> QED
      BY <2>1, <2>3, <3>1, <3>2 DEF InOrder
  <2> QED
    BY <2>1, <2>2, <2>3
<1>2. ASSUME NEW c \in Calls,
             call[c] # None, call[c].token # None,
             call' = [call EXCEPT ![c].token.live = FALSE],
             UNCHANGED <<access, refresh, user, tab, suspended, overlap>>,
             \/ call[c].phase = "sent" /\ lapsed' = lapsed
             \/ call[c].phase = "renew" /\ lapsed' = TRUE
      PROVE  SessionInv'
  <2> DEFINE old == [call[c].token EXCEPT !.live = FALSE]
             new == [call[c] EXCEPT !.token = old]
  <2>1. call[c] \in Call /\ call[c].token \in Token
    BY <1>2 DEF TypeOK, Call
  <2>2. old \in Token /\ old # None /\ old.user = call[c].token.user
    BY <1>t, <2>1
  <2>3. call' = [call EXCEPT ![c] = new]
    BY <1>2 DEF TypeOK
  <2> HIDE DEF old
  <2>4. /\ new \in Call /\ new.token = old /\ new.phase = call[c].phase
        /\ new.kind = call[c].kind /\ new.who = call[c].who
    BY <2>1, <2>2 DEF Call
  <2>5. new # None
    BY <2>4, CallAssumption
  <2> HIDE DEF new
  <2>6. TypeOK'
    BY <1>2, <2>3, <2>4 DEF TypeOK
  <2>7. call'[c] = new /\ \A d \in Calls : d # c => call'[d] = call[d]
    BY <2>3 DEF TypeOK
  <2>8. ASSUME NEW d \in Calls PROVE Formed(d)'
    BY <1>2, <2>2, <2>4, <2>5, <2>7 DEF Formed
  <2>9. ASSUME InOrder PROVE InOrder'
    <3>1. ASSUME NEW d \in Calls, call'[d] # None
          PROVE  Renewing(d)' /\ OfPage(d)'
      <4>1. CASE d = c
        BY <1>2, <2>2, <2>4, <2>7, <2>9, <4>1
           DEF InOrder, Renewing, OfPage
      <4>2. CASE d # c
        BY <1>2, <2>7, <2>9, <3>1, <4>2 DEF InOrder, Renewing, OfPage
      <4> QED
        BY <4>1, <4>2
    <3> QED
      BY <1>2, <2>9, <3>1 DEF InOrder, Whole, storage
  <2> QED
    BY <1>2, <2>6, <2>8, <2>9
<1>3. CASE AccessExpires /\ call' # call
  <2>1. PICK c \in Calls :
          /\ call[c] # None /\ call[c].phase = "sent" /\ call[c].token # None
          /\ call' = [call EXCEPT ![c].token.live = FALSE]
          /\ UNCHANGED access
    BY <1>3 DEF AccessExpires, In
  <2>2. UNCHANGED <<refresh, user, tab, suspended, overlap, lapsed>>
    BY <1>3 DEF AccessExpires
  <2> QED
    BY <1>2, <2>1, <2>2
<1>4. CASE RefreshExpires /\ call' # call
  <2>1. PICK c \in Calls :
          /\ call[c] # None /\ call[c].phase = "renew"
          /\ call' = [call EXCEPT ![c].token.live = FALSE]
          /\ UNCHANGED refresh
    BY <1>4 DEF RefreshExpires, In
  <2>2. call[c].token # None
    BY <2>1 DEF Formed
  <2>3. lapsed' = TRUE /\ UNCHANGED <<access, user, tab, suspended, overlap>>
    BY <1>4 DEF RefreshExpires
  <2> QED
    BY <1>2, <2>1, <2>2, <2>3
<1> QED
  BY <1>1, <1>3, <1>4

\* Tabs that open and leave pages, and a suspension.
LEMMA OtherStep ==
  ASSUME SessionInv,
         \/ \E t \in Tabs : Open(t) \/ Leave(t)
         \/ \E u \in Users : Suspend(u)
         \/ UNCHANGED vars
  PROVE  SessionInv'
<1> USE DEF SessionInv, storage
<1>1. /\ UNCHANGED <<access, refresh, user, call, overlap, lapsed>>
      /\ tab' \in [Tabs -> {"login", "app"}]
      /\ suspended' \subseteq Users /\ suspended \subseteq suspended'
  <2>1. CASE \E t \in Tabs : Open(t) \/ Leave(t)
    BY <2>1 DEF Open, Leave, TypeOK
  <2>2. CASE \E u \in Users : Suspend(u)
    BY <2>2 DEF Suspend, TypeOK
  <2>3. CASE UNCHANGED vars
    BY <2>3 DEF vars, TypeOK
  <2> QED
    BY <2>1, <2>2, <2>3
<1>2. TypeOK'
  BY <1>1 DEF TypeOK
<1>3. ASSUME NEW d \in Calls PROVE Formed(d)'
  BY <1>1 DEF Formed
<1>4. ASSUME InOrder PROVE InOrder'
  <2>1. ASSUME NEW d \in Calls, call'[d] # None
        PROVE  Renewing(d)' /\ OfPage(d)'
    BY <1>1, <1>4, <2>1 DEF InOrder, Renewing, OfPage
  <2> QED
    BY <1>1, <1>4, <2>1 DEF InOrder, Whole
<1> QED
  BY <1>1, <1>2, <1>3, <1>4

-----------------------------------------------------------------------------
\* The invariant of the session, over any interleaving of requests, tabs,
\* expiring tokens and suspensions.
THEOREM SessionInOrder == Spec => []SessionInv
<1>1. Init => SessionInv
  BY SessionAssumption
     DEF Init, SessionInv, TypeOK, Formed, InOrder, Whole, storage
<1>2. SessionInv /\ [Next]_vars => SessionInv'
  <2> SUFFICES ASSUME SessionInv, [Next]_vars PROVE SessionInv'
    OBVIOUS
  <2>1. ASSUME NEW t \in Tabs, SignOut(t) PROVE SessionInv'
    <3>1. /\ ClearSession(Calls) /\ UNCHANGED <<call, suspended>>
          /\ tab' \in [Tabs -> {"login", "app"}]
      BY <2>1 DEF SignOut, SessionInv, TypeOK
    <3>2. /\ call' \in [Calls -> Call \cup {None}]
          /\ \A d \in Calls : call'[d] = IF d \in Calls THEN call[d] ELSE None
      BY <3>1 DEF SessionInv, TypeOK
    <3> QED
      BY <3>1, <3>2, ClearStep
  <2>2. ASSUME NEW c \in Calls, NEW t \in Tabs,
               Poll(c, t) \/ Upload(c, t) \/ \E u \in Users : Login(c, t, u)
        PROVE  SessionInv'
    <3>1. CASE Poll(c, t)
      BY <3>1, BeginStep DEF Poll, Kind, SessionInv, TypeOK
    <3>2. CASE Upload(c, t)
      BY <3>2, BeginStep DEF Upload, Kind, SessionInv, TypeOK
    <3>3. ASSUME NEW u \in Users, Login(c, t, u) PROVE SessionInv'
      BY <3>3, BeginStep DEF Login, Kind
    <3> QED
      BY <2>2, <3>1, <3>2, <3>3
  <2>3. ASSUME NEW c \in Calls, Goes(c) \/ Fails(c) PROVE SessionInv'
    BY <2>3, DeniedStep, RenewedStep, FailedStep, LastStep DEF Goes
  <2>4. CASE AccessExpires \/ RefreshExpires
    BY <2>4, ExpiryStep
  <2> QED
    BY <2>1, <2>2, <2>3, <2>4, OtherStep DEF Next
<1> QED
  BY <1>1, <1>2, PTL DEF Spec

\* The types of storage, tabs and requests.
THEOREM SessionTypes == Spec => []TypeOK
BY SessionInOrder, PTL DEF SessionInv

\* The three keys of localStorage belong together unless sessions overlapped.
THEOREM SessionStaysWhole == Spec => []SessionIsWhole
<1>1. SessionInv => SessionIsWhole
  <2> SUFFICES ASSUME SessionInv, ~overlap PROVE SessionIsWhole
    BY DEF SessionIsWhole
  <2>1. Whole
    BY DEF SessionInv, InOrder
  <2>2. CASE storage = <<None, None, None>>
    BY <2>2 DEF SessionIsWhole
  <2>3. CASE storage # <<None, None, None>>
    BY <2>1, <2>3 DEF Whole, SessionIsWhole, Holders
  <2> QED
    BY <2>2, <2>3
<1> QED
  BY <1>1, SessionInOrder, PTL

\* A request keeps the user it was made for unless sessions overlapped.
THEOREM RequestsKeepTheirs == Spec => []RequestsKeepTheirUser
<1>1. SessionInv => RequestsKeepTheirUser
  BY DEF SessionInv, InOrder, OfPage, RequestsKeepTheirUser
<1> QED
  BY <1>1, SessionInOrder, PTL

\* No poll ends a session that is good.
THEOREM SessionsLast == Spec => OnlyTheUserSignsOut
<1>1. SessionInv /\ [Next]_vars =>
        [user # None /\ user' = None =>
           \/ \E t \in Tabs : SignOut(t)
           \/ user \in suspended \/ lapsed \/ overlap]_vars
  <2> SUFFICES ASSUME SessionInv, Next, user # None, user' = None, ~overlap
               PROVE  \/ \E t \in Tabs : SignOut(t)
                      \/ user \in suspended \/ lapsed
    BY DEF vars
  <2>1. ASSUME NEW c \in Calls, Served(c) PROVE FALSE
    <3>1. CASE call[c].kind = "login"
      <4>1. call[c].who \in Users /\ user' = call[c].who
        BY <2>1, <3>1 DEF Served, In, SetSession, SessionInv, Formed
      <4> QED
        BY <4>1, SessionAssumption
    <3> QED
      BY <2>1, <3>1 DEF Served, storage
  <2>2. ASSUME NEW c \in Calls, Handle(c)
        PROVE  user \in suspended \/ lapsed
    BY <2>2 DEF Handle, In, storage, SessionInv, InOrder, OfPage
  <2>3. CASE user' = user
    BY <2>3
  <2> QED
    BY <2>1, <2>2, <2>3
       DEF Next, Goes, Open, Leave, Poll, Upload, Login, Begin, Denied,
           Renewed, NotRenewed, DeniedAgain, Fails, AccessExpires,
           RefreshExpires, Suspend, storage
<1> QED
  BY <1>1, SessionInOrder, PTL DEF Spec, OnlyTheUserSignsOut
=============================================================================
