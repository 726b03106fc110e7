--------------------------- MODULE RefreshTokens ---------------------------
(***************************************************************************)
(* Logins: a family of refresh tokens on the server, of which each refresh *)
(* issues a successor and revokes the presented one, and the clients that  *)
(* hold them.  A web browser keeps the token in a cookie its tabs share;   *)
(* the native app keeps it in memory and in secure storage.  Requests and  *)
(* answers may be lost, tabs reloaded and the app killed at any moment.    *)
(* An access token may expire at any time, so a refresh may start at any   *)
(* time; access tokens are otherwise left out.                             *)
(***************************************************************************)
EXTENDS Naturals, FiniteSets, Sequences

CONSTANTS
    Tabs,           \* open pages of the web client, and running native apps
    Browsers,       \* what keeps tokens: a cookie jar, or a phone
    Native,         \* the phones among Browsers
    BrowserOf,      \* [Tabs -> Browsers]
    MaxTokens,      \* bound: refresh tokens issued
    MaxCalls,       \* bound: requests to /api/auth
    None

Tokens == 1..MaxTokens
Calls == 1..MaxCalls
Maybe(S) == S \cup {None}

ASSUME TokensAssumption ==
    /\ MaxTokens \in Nat /\ MaxCalls \in Nat
    /\ Native \subseteq Browsers
    /\ BrowserOf \in [Tabs -> Browsers]
    /\ None \notin Tokens \cup Calls \cup Tabs

\* A phone runs one instance of the app.
ASSUME AppAssumption ==
    \A p, q \in Tabs : BrowserOf[p] \in Native /\ BrowserOf[p] = BrowserOf[q] => p = q

VARIABLES
    token,      \* [Tokens -> Row]: the rows of auth_refresh_tokens
    call,       \* [Calls -> request record]
    tab,        \* [Tabs -> page record]
    cookie,     \* [Browsers -> sf_refresh]
    cached,     \* [Browsers -> token in the memory of the native app]
    disk,       \* [Browsers -> token in the secure storage of the phone]
    overlapped, \* history: families two requests worked on at once
    ended,      \* history: families revoked as a whole
    lost        \* history: families with an answer or a storage write lost

server == <<token, call>>
client == <<tab, cookie, cached, disk>>
vars == <<token, call, tab, cookie, cached, disk, overlapped, ended, lost>>

Row == [family : Maybe(Tokens), revoked : BOOLEAN, expired : BOOLEAN]
NoRow == [family |-> None, revoked |-> FALSE, expired |-> FALSE]

\* body: the phone sends the token it has in memory, not only the cookie.
Request == [op : {"none", "login", "refresh", "logout", "password"}, tab : Maybe(Tabs),
            tok : Maybe(Tokens), body : BOOLEAN,
            pc : {"new", "sent", "mint", "retire", "reuse", "close", "answer", "over"},
            new : Maybe(Tokens), verdict : {"none", "ok", "rejected", "closed"}]
NoCall == [op |-> "none", tab |-> None, tok |-> None, body |-> FALSE, pc |-> "new",
           new |-> None, verdict |-> "none"]

\* saves: the storage writes a native app has asked for and waits for, in order.
Page == [authed : BOOLEAN, refresh : Maybe(Calls), ask : Maybe(Calls),
         saves : Seq({"refresh", "login"} \X Tokens)]
BlankPage == [authed |-> FALSE, refresh |-> None, ask |-> None, saves |-> <<>>]

Init ==
    /\ token = [t \in Tokens |-> NoRow]
    /\ call = [k \in Calls |-> NoCall]
    /\ tab = [p \in Tabs |-> BlankPage]
    /\ cookie = [b \in Browsers |-> None]
    /\ cached = [b \in Browsers |-> None]
    /\ disk = [b \in Browsers |-> None]
    /\ overlapped = {} /\ ended = {} /\ lost = {}

Issued == {t \in Tokens : token[t].family # None}
Saving(p, op) == \E i \in 1..Len(tab[p].saves) : tab[p].saves[i][1] = op
Families == {token[t].family : t \in Issued}
Live(f) == {t \in Issued : token[t].family = f /\ ~token[t].revoked}

Waits(p, k) == k \in {tab[p].refresh, tab[p].ask}
Outstanding(k) == \/ call[k].pc \in {"sent", "mint", "retire", "reuse", "close"}
                  \/ call[k].pc = "answer" /\ \E p \in Tabs : Waits(p, k)
FamilyOf(t) == IF t = None THEN {} ELSE {token[t].family}
Touches(k) == IF call[k].op = "password" THEN Families ELSE FamilyOf(call[k].tok)

-----------------------------------------------------------------------------
(* The client asks.                                                        *)

\* The token a request carries: the body's, then the cookie's.
Presented(b) == IF b \in Native /\ cached[b] # None THEN cached[b] ELSE cookie[b]

Send(p, op, field) ==
    \E k \in Calls :
       LET b == BrowserOf[p]
           tok == IF op \in {"refresh", "logout"} THEN Presented(b) ELSE None
           mine == IF op = "password" THEN Families ELSE FamilyOf(tok)
       IN
       /\ call[k].pc = "new" /\ \A j \in Calls : j < k => call[j].pc # "new"
       /\ call' = [call EXCEPT ![k] = [NoCall EXCEPT
                     !.op = op, !.tab = p, !.tok = tok, !.pc = "sent",
                     !.body = b \in Native /\ cached[b] # None]]
       /\ tab' = [tab EXCEPT ![p] = IF field = "refresh" THEN [@ EXCEPT !.refresh = k]
                                                         ELSE [@ EXCEPT !.ask = k]]
       /\ overlapped' = overlapped \cup
             UNION {mine \cap Touches(j) : j \in {j \in Calls : Outstanding(j)
                       /\ ~(op = "refresh" /\ tab[p].refresh = j)}}
       /\ UNCHANGED <<token, cookie, cached, disk, ended, lost>>

\* Mutant: every 401 starts a refresh of its own.
RefreshEach(p) ==
    /\ tab[p].authed \/ Presented(BrowserOf[p]) # None
    /\ Send(p, "refresh", "refresh")

\* A request was answered 401: the refresh is shared by all of the page's.  (A
\* visitor with nothing to present is refused, which changes nothing.)
Refresh(p) ==
    /\ tab[p].refresh = None /\ ~Saving(p, "refresh")
    /\ tab[p].authed \/ Presented(BrowserOf[p]) # None
    /\ Send(p, "refresh", "refresh")

Login(p) ==
    /\ ~tab[p].authed /\ tab[p].ask = None /\ ~Saving(p, "login")
    /\ Send(p, "login", "ask")

Logout(p) ==
    /\ tab[p].authed /\ tab[p].ask = None
    /\ Send(p, "logout", "ask")

ChangePassword(p) ==
    /\ tab[p].authed /\ tab[p].ask = None
    /\ Send(p, "password", "ask")

-----------------------------------------------------------------------------
(* The server works: one action per transaction.                           *)

Answer(k, verdict) == [call[k] EXCEPT !.pc = "answer", !.verdict = verdict]

Find(k) ==
    LET tok == call[k].tok
        Gets(verdict) == call' = [call EXCEPT ![k] = Answer(k, verdict)]
        Goes(pc) == call' = [call EXCEPT ![k].pc = pc]
    IN
    /\ call[k].pc = "sent"
    /\ \/ call[k].op = "logout" /\ tok = None /\ Gets("closed")
       \/ call[k].op = "logout" /\ tok # None /\ Goes("close")
       \/ call[k].op = "refresh" /\ tok = None /\ Gets("rejected")
       \/ /\ call[k].op = "refresh" /\ tok # None
          /\ \/ token[tok].revoked /\ Goes("reuse")
             \/ ~token[tok].revoked /\ token[tok].expired /\ Gets("rejected")
             \/ ~token[tok].revoked /\ ~token[tok].expired /\ Goes("mint")
    /\ UNCHANGED <<token, client, overlapped, ended, lost>>

Mints(k) == \/ call[k].pc = "mint"
            \/ call[k].pc = "sent" /\ call[k].op = "login"

Mint(k) ==
    /\ Mints(k)
    /\ \E t \in Tokens \ Issued :
         /\ \A u \in Tokens \ Issued : t <= u
         /\ token' = [token EXCEPT ![t] = [NoRow EXCEPT !.family =
                        IF call[k].op = "refresh" THEN token[call[k].tok].family ELSE t]]
         /\ call' = [call EXCEPT ![k] = IF @.op = "refresh"
                       THEN [@ EXCEPT !.pc = "retire", !.new = t]
                       ELSE [Answer(k, "ok") EXCEPT !.new = t]]
    /\ UNCHANGED <<client, overlapped, ended, lost>>

\* Mutant: the presented token stays live beside its successor.
RetireNot(k) ==
    /\ call[k].pc = "retire"
    /\ call' = [call EXCEPT ![k] = Answer(k, "ok")]
    /\ UNCHANGED <<token, client, overlapped, ended, lost>>

Retire(k) ==
    /\ call[k].pc = "retire"
    /\ token' = [token EXCEPT ![call[k].tok].revoked = TRUE]
    /\ call' = [call EXCEPT ![k] = Answer(k, "ok")]
    /\ UNCHANGED <<client, overlapped, ended, lost>>

Revoked(F) == [t \in Tokens |-> IF token[t].family \in F
                                THEN [token[t] EXCEPT !.revoked = TRUE] ELSE token[t]]

\* Mutant: only the presented token is revoked.
RevokeFamilyOne(k) ==
    /\ call[k].pc \in {"reuse", "close"}
    /\ token' = [token EXCEPT ![call[k].tok].revoked = TRUE]
    /\ ended' = ended \cup FamilyOf(call[k].tok)
    /\ call' = [call EXCEPT ![k] = Answer(k, IF @.pc = "reuse" THEN "rejected" ELSE "closed")]
    /\ UNCHANGED <<client, overlapped, lost>>

\* Reuse of a revoked token, or a logout, ends the whole family.
RevokeFamily(k) ==
    /\ call[k].pc \in {"reuse", "close"}
    /\ token' = Revoked(FamilyOf(call[k].tok))
    /\ ended' = ended \cup FamilyOf(call[k].tok)
    /\ call' = [call EXCEPT ![k] = Answer(k, IF @.pc = "reuse" THEN "rejected" ELSE "closed")]
    /\ UNCHANGED <<client, overlapped, lost>>

\* A new password revokes every token of the user, then opens a new family.
RevokeAll(k) ==
    /\ call[k].pc = "sent" /\ call[k].op = "password"
    /\ token' = Revoked(Families)
    /\ ended' = ended \cup Families
    /\ call' = [call EXCEPT ![k].pc = "mint"]
    /\ UNCHANGED <<client, overlapped, lost>>

\* Thirty days pass; it matters when the token is presented.
Expire(t) ==
    /\ t \in Issued /\ ~token[t].expired /\ ~token[t].revoked
    /\ \E k \in Calls : call[k].pc = "sent" /\ call[k].tok = t
    /\ token' = [token EXCEPT ![t].expired = TRUE]
    /\ UNCHANGED <<call, client, overlapped, ended, lost>>

-----------------------------------------------------------------------------
(* The answer arrives, or does not.                                        *)

\* Set-Cookie of the answer; the jar of a native WebView may not keep it.  The
\* cookies a rejection clears are not sent: FastAPI answers an HTTPException
\* with a response of its own.
CookieFor(b, k) == CASE call[k].verdict = "ok" -> call[k].new
                     [] call[k].verdict = "closed" -> None
                     [] OTHER -> cookie[b]

\* A phone with no token in memory presents the cookie next: what the answer
\* was to replace or clear is then a write that did not arrive.
SetCookie(b, k) ==
    /\ \/ cookie' = [cookie EXCEPT ![b] = CookieFor(b, k)]
       \/ b \in Native /\ UNCHANGED cookie
    /\ lost' = IF cached'[b] = None /\ cookie'[b] # CookieFor(b, k)
               THEN lost \cup FamilyOf(cookie[b]) ELSE lost

Over(k) == call' = [call EXCEPT ![k] = [NoCall EXCEPT !.pc = "over"]]

\* doRefresh: a rotated token is cached and its write to storage awaited, if the
\* request carried the token in its body, whatever the phone has done since; a
\* rejection signs the user out.  A page that showed nobody signed in shows the
\* user only if it was loading the identity.
TakeRefresh(p, k) ==
    LET b == BrowserOf[p]  saves == tab[p].saves  sunk == b \in Native /\ call[k].body IN
    /\ call[k].pc = "answer" /\ tab[p].refresh = k
    /\ \/ /\ call[k].verdict = "ok"
          /\ cached' = IF sunk THEN [cached EXCEPT ![b] = call[k].new] ELSE cached
          /\ \E shown \in {tab[p].authed, TRUE} :
                tab' = [tab EXCEPT ![p] = [@ EXCEPT !.refresh = None, !.authed = shown,
                          !.saves = IF sunk THEN Append(saves, <<"refresh", call[k].new>>) ELSE saves]]
       \/ /\ call[k].verdict # "ok"
          /\ tab' = [tab EXCEPT ![p] = [@ EXCEPT !.refresh = None, !.authed = FALSE]]
          /\ UNCHANGED cached
    /\ SetCookie(b, k)
    /\ Over(k)
    /\ UNCHANGED <<token, disk, overlapped, ended>>

CachedAfter(b, k) ==
    CASE b \notin Native \/ call[k].op = "password" -> cached[b]
      [] b \in Native /\ call[k].op = "logout" -> None
      [] OTHER -> call[k].new

\* login persists its token on the phone before it shows the user; logout drops
\* it; the answer to a change of password only sets the cookie.
TakeAnswer(p, k) ==
    LET b == BrowserOf[p]  op == call[k].op  saves == tab[p].saves IN
    /\ call[k].pc = "answer" /\ tab[p].ask = k
    /\ tab' = [tab EXCEPT ![p] = [@ EXCEPT !.ask = None,
                 !.authed = IF op = "login" THEN b \notin Native ELSE op = "password" /\ tab[p].authed,
                 !.saves = IF op = "login" /\ b \in Native
                           THEN Append(saves, <<"login", call[k].new>>) ELSE saves]]
    /\ cached' = [cached EXCEPT ![b] = CachedAfter(b, k)]
    /\ SetCookie(b, k)
    /\ disk' = IF op = "logout" THEN [disk EXCEPT ![b] = None] ELSE disk
    /\ Over(k)
    /\ UNCHANGED <<token, overlapped, ended>>

\* The phone writes to its storage in the order the app asked.
Save(p) ==
    LET saves == tab[p].saves  shown == tab[p].authed \/ Head(saves)[1] = "login" IN
    /\ saves # <<>>
    /\ disk' = [disk EXCEPT ![BrowserOf[p]] = Head(saves)[2]]
    /\ tab' = [tab EXCEPT ![p] = [@ EXCEPT !.saves = Tail(saves), !.authed = shown]]
    /\ UNCHANGED <<server, cookie, cached, overlapped, ended, lost>>

\* The request or its answer is lost, or the answer is an error of the server or
\* of a proxy.  A refresh then leaves the page as it was, or, any error being a
\* rejection to it, signs the user out; a logout shows the page signed out and
\* keeps the tokens.
Lose(p, k) ==
    /\ Waits(p, k) /\ call[k].pc \in {"sent", "answer"}
    /\ lost' = IF call[k].pc = "answer" THEN lost \cup FamilyOf(call[k].tok) ELSE lost
    /\ \E shown \in {tab[p].authed, FALSE} :
         tab' = [tab EXCEPT ![p] = IF @.refresh = k THEN [@ EXCEPT !.refresh = None, !.authed = shown]
                 ELSE [@ EXCEPT !.ask = None, !.authed = tab[p].authed /\ call[k].op # "logout"]]
    /\ Over(k)
    /\ UNCHANGED <<token, cookie, cached, disk, overlapped, ended>>

\* A page is reloaded, or the app killed and started: what it waited for goes
\* on at the server, and a native app reads its token from storage.
Reload(p) ==
    LET b == BrowserOf[p]
        left == {call[k].tok : k \in {k \in Calls : Waits(p, k)}}
        unsaved == {tab[p].saves[i][2] : i \in 1..Len(tab[p].saves)}
        passed == IF b \in Native /\ disk[b] = None THEN {cookie[b]} ELSE {}
    IN
    /\ tab[p] # BlankPage
    /\ tab' = [tab EXCEPT ![p] = BlankPage]
    /\ cached' = IF b \in Native THEN [cached EXCEPT ![b] = disk[b]] ELSE cached
    /\ lost' = lost \cup UNION {FamilyOf(t) : t \in left \cup unsaved \cup passed}
    /\ UNCHANGED <<server, cookie, disk, overlapped, ended>>

Next ==
    \/ \E p \in Tabs : \/ Refresh(p) \/ Login(p) \/ Logout(p) \/ ChangePassword(p)
                       \/ Save(p) \/ Reload(p)
    \/ \E k \in Calls : Find(k) \/ Mint(k) \/ Retire(k) \/ RevokeFamily(k) \/ RevokeAll(k)
    \/ \E p \in Tabs, k \in Calls : TakeRefresh(p, k) \/ TakeAnswer(p, k) \/ Lose(p, k)
    \/ \E t \in Tokens : Expire(t)

Spec == Init /\ [][Next]_vars

-----------------------------------------------------------------------------
(* Properties.                                                             *)

\* Rows, requests and pages keep their shape.
TypeOK ==
    /\ token \in [Tokens -> Row]
    /\ call \in [Calls -> Request]
    /\ tab \in [Tabs -> Page]
    /\ cookie \in [Browsers -> Maybe(Tokens)]
    /\ cached \in [Browsers -> Maybe(Tokens)]
    /\ disk \in [Browsers -> Maybe(Tokens)]
    /\ overlapped \subseteq Tokens /\ ended \subseteq Tokens /\ lost \subseteq Tokens

\* Reuse detection accuses no honest client: a revoked token is presented only
\* of a family that was ended on purpose, that had two requests at once of
\* different pages, or whose answer or storage write did not arrive.  (One
\* refresh per page at a time, a write that is awaited, and the body going
\* before the cookie are what keeps it so.)
NoFalseAlarm ==
    \A k \in Calls : call[k].pc = "reuse" => FamilyOf(call[k].tok) \subseteq overlapped \cup ended \cup lost

\* A login has one live token, and a second one only while the presented token
\* of a rotation is about to be revoked; unless requests overlapped.
OneLiveToken ==
    \A f \in Families \ overlapped :
       Cardinality(Live(f)) <= IF \E k \in Calls : call[k].pc = "retire" /\ f \in FamilyOf(call[k].tok)
                               THEN 2 ELSE 1

\* A login that was ended, by logout, a new password or reuse detection, has no
\* live token and never gets one again; unless requests overlapped.
EndedLoginIsDead ==
    \A f \in ended \ overlapped : Live(f) = {}
=============================================================================
